------------------------------ MODULE MCNetwork ------------------------------
(***************************************************************************)
(* The layers under a connection and two services over it, for TLC: each   *)
(* behaviour is one part's, chosen in the beginning, and the others rest.  *)
(***************************************************************************)
EXTENDS Buffer, Frames, Sockets, Registry, Backup, Handshake, TLC

VARIABLES
  part,     \* whose behaviour this is
  message   \* what is encoded

wireVars == <<message, offer>>

-----------------------------------------------------------------------------
(* Bounds                                                                  *)

\* Of the messages below some have exactly this payload, some a byte more.
PayloadLimit == 18

Wi == INSTANCE Wire WITH MaxString <- 3, MaxBytes <- 3, MaxCount <- 2, MaxPayload <- PayloadLimit

TheBlocks == 1..3
TheWrites == {<<1>>, <<1, 2>>}
TheContents == {<<>>, <<1>>, <<2>>, <<1, 2>>}
TheEarlier == {<<1, 1, 1>>}

Link(kind, sign, check, senders) ==
  [kind |-> kind, sign |-> sign, check |-> check, senders |-> senders]
\* Every transport as it is, with the same key or another at the ends, with a key
\* at one end only, and two senders on TCP with and without keys.
TheLinks ==
  {Link(kind, "none", "none", {"a"}) : kind \in {"pipe", "tcp", "tls", "python"}}
  \cup {Link(kind, "k", check, {"a"}) : kind \in {"pipe", "tcp", "tls"}, check \in {"k", "l"}}
  \cup {Link("tcp", "none", "k", {"a"}), Link("tcp", "k", "none", {"a"})}
  \cup {Link("tcp", key, key, {"a", "b"}) : key \in {"none", "k"}}

\* Clients differ in name only.
Symmetry == Permutations(Clients)

-----------------------------------------------------------------------------
(* Messages: each kind with fields at the ends of their ranges, followed by *)
(* arguments of every type, those too long to encode included.             *)

Bool == [t |-> "bool"]
String == [t |-> "string"]
Bytes == [t |-> "bytes"]
Raw(w) == [t |-> "raw", width |-> w]
Array(type) == [t |-> "array", of |-> type]

Lists(values, n) == UNION {[1..k -> values] : k \in 0..n}
Values(type) ==
  CASE type = Bool    -> BOOLEAN
    [] type = Wi!U(1) -> {0, 255}
    [] type = Wi!U(2) -> {0, 258, 65535}
    [] type = Wi!U(4) -> {0, 16909060, 2147483647}
    [] type = Wi!I(1) -> {-128, -1, 127}
    [] type = Wi!I(4) -> {-2147483647 - 1, -1, 2147483647}
    [] type = Raw(8)  -> {<<0, 0, 0, 0, 0, 0, 240, 127>>}
    [] type \in {String, Bytes} -> Lists({65}, 4)
    [] type = Array(Wi!I(1))    -> Lists({-1, 5}, 3)
    [] type = Array(String)     -> Lists({<<>>, <<66, 67>>, <<66, 66, 66, 66>>}, 3)

ArgumentTypes == {Bool, Wi!U(1), Wi!U(4), Wi!I(1), Wi!I(4), Raw(8), String, Bytes,
                  Array(Wi!I(1)), Array(String)}
\* Lists of argument types and, for each, lists of values.
ArgumentLists == {<<>>, <<String, Wi!U(2)>>} \cup {<<type>> : type \in ArgumentTypes}
ValueLists(types) ==
  CASE types = <<>>                -> {<<>>}
    [] types = <<String, Wi!U(2)>> -> {<<<<65>>, 258>>}
    [] Len(types) = 1              -> {<<v>> : v \in Values(types[1])}

Fields(kind) ==
  CASE kind = "call"    -> {<<1, 65535>>}
    [] kind = "error"   -> {<<2, text>> : text \in Values(String)}
    [] kind = "create"  -> {<<7, 1, 0>>}
    [] kind = "release" -> {<<7, object_id>> : object_id \in Values(Wi!I(4))}
    [] kind = "init"    -> {<<Wi!Magic, 256, 257, 15, methods>> : methods \in 0..2}
    [] kind = "init_ack" -> {<<Wi!Magic, 256, 257, 15, 0>>}
    [] kind \in {"result", "shutdown", "stream", "stream_end"} -> {<<>>}
    [] OTHER -> {<<7, object_id, 2, 0>> : object_id \in Values(Wi!I(4))}

Method == <<1, 2, 3, 0>>
\* Kinds that carry the caller's own bytes after the fields.
Payloaded == {"call", "result", "stream", "create", "prop_get", "prop_set", "object_call",
         "prop_subscribe", "prop_unsubscribe", "prop_notify"}
Unnumbered == {"init", "init_ack", "shutdown", "release", "prop_subscribe",
               "prop_unsubscribe", "prop_notify"}
MessageKinds == DOMAIN Wi!MsgType

Message(kind, seq, fields, types, values) ==
  [kind |-> kind, seq |-> seq, fields |-> fields, types |-> types, values |-> values]
Shutdown == Message("shutdown", 0, <<>>, <<>>, <<>>)

AnyMessage ==
  \E kind \in MessageKinds :
    \E seq \in IF kind \in Unnumbered THEN {0} ELSE {1, 2147483647}, f \in Fields(kind),
       types \in IF kind \in Payloaded THEN ArgumentLists ELSE {<<>>} :
      \E values \in ValueLists(types) : message = Message(kind, seq, f, types, values)

\* What the create_ function of the kind returns.
BytesOf(m) ==
  LET f == m.fields
      args == Wi!EncodeFields(m.types, m.values)
  IN CASE m.kind = "call"       -> Wi!CreateCall(m.seq, f[1], f[2], args)
       [] m.kind = "result"     -> Wi!CreateResult(m.seq, args)
       [] m.kind = "error"      -> Wi!CreateError(m.seq, f[1], f[2])
       [] m.kind = "stream"     -> Wi!CreateStream(m.seq, args)
       [] m.kind = "stream_end" -> Wi!CreateStreamEnd(m.seq)
       [] m.kind = "shutdown"   -> Wi!CreateShutdown
       [] m.kind = "init"       -> Wi!CreateInit(f[2], f[3], f[4], [i \in 1..f[5] |-> Method])
       [] m.kind = "init_ack"   -> Wi!CreateInitAck(f[2], f[3], f[4])
       [] m.kind = "create"     -> Wi!CreateObject(m.seq, f[1], f[2], args)
       [] m.kind = "release"    -> Wi!CreateRelease(f[1], f[2])
       [] m.kind \in {"prop_get", "prop_set", "object_call"} ->
            Wi!CreateMember(m.kind, m.seq, f[1], f[2], f[3], args)
       [] OTHER -> Wi!CreatePush(m.kind, f[1], f[2], f[3], args)

\* The arguments, and the methods of an init message.
Tails(m) == IF m.kind = "init" THEN [i \in 1..4 * m.fields[5] |-> Wi!U(2)] ELSE m.types
TailValues(m) ==
  IF m.kind = "init" THEN [i \in 1..4 * m.fields[5] |-> Method[1 + ((i - 1) % 4)]] ELSE m.values

\* No encoder throws.
Sendable(m) ==
  /\ \A i \in DOMAIN m.types : Wi!Encodable(m.types[i], m.values[i], Wi!Cpp)
  /\ m.kind = "error" => Wi!Encodable(String, m.fields[2], Wi!Cpp)

\* What a service sends to a Python client.
ToPython == {"init", "result", "error", "stream", "stream_end"}

-----------------------------------------------------------------------------
(* One part at a time                                                      *)

Parts == {"wire", "buffer", "frames", "sockets", "registry", "backup"}
Versions == {0, 255, 256, 257, 258, 512}
Offers == {<<first, current>> \in (Versions \X Versions) : first <= current}

MCInit ==
  /\ part \in Parts
  /\ \/ part = "wire" /\ AnyMessage /\ offer = <<256, 257>>
     \/ part = "wire" /\ message = Shutdown /\ offer \in Offers
     \/ part # "wire" /\ message = Shutdown /\ offer = <<256, 257>>
  /\ BufferInit /\ SocketsInit /\ RegistryInit
  /\ FramesInit /\ (part = "frames" \/ link = Link("tcp", "none", "none", {"a"}))
  /\ BackupInit /\ (part = "backup" \/ disk = <<>>)

\* A new block takes the least address: addresses are only compared.
LeastBlock == \A k \in DOMAIN heap' \ DOMAIN heap : \A x \in Blocks : x < k => x \in DOMAIN heap

MCNext ==
  \/ /\ part = "buffer" /\ BufferNext /\ LeastBlock
     /\ UNCHANGED <<part, wireVars, frameVars, socketVars, registryVars, backupVars>>
  \/ /\ part = "frames" /\ FramesNext
     /\ UNCHANGED <<part, wireVars, bufferVars, socketVars, registryVars, backupVars>>
  \/ /\ part = "sockets" /\ SocketsNext
     /\ UNCHANGED <<part, wireVars, bufferVars, frameVars, registryVars, backupVars>>
  \/ /\ part = "registry" /\ RegistryNext
     /\ UNCHANGED <<part, wireVars, bufferVars, frameVars, socketVars, backupVars>>
  \/ /\ part = "backup" /\ BackupNext
     /\ UNCHANGED <<part, wireVars, bufferVars, frameVars, socketVars, registryVars>>

MCSpec ==
  MCInit /\ [][MCNext]_<<part, wireVars, bufferVars, frameVars, socketVars, registryVars, backupVars>>

-----------------------------------------------------------------------------
(* Properties                                                              *)

\* What a create_ function writes, the receiver's decoders read back: the header
\* with the size of what follows, the fields and the arguments; a message that
\* was cut short is never taken for a shorter one.  The create_ functions let a
\* payload of any size through (wire.cpp:137): up to kMaxPayloadSize, the limit
\* included, the header is taken, beyond it the message is refused by its
\* header; Python takes four times as much and otherwise agrees with C++.
MessagesDecode ==
  part = "wire" /\ Sendable(message) =>
    LET bytes == BytesOf(message)
        type == Wi!MsgType[message.kind]
        size == Len(bytes) - 16
        header == Wi!Got([type |-> type, size |-> size, seq |-> message.seq],
                         SubSeq(bytes, 17, Len(bytes)))
        read(n) == Wi!DecodePayload(type, Tails(message), SubSeq(bytes, 17, n))
    IN /\ Wi!DecodeHeader(bytes) = IF size <= PayloadLimit THEN header ELSE Wi!Failed
       /\ read(Len(bytes)) = Wi!Got(message.fields \o TailValues(message), <<>>)
       /\ \A n \in 0..15 : ~Wi!DecodeHeader(SubSeq(bytes, 1, n)).ok
       /\ \A n \in 16..Len(bytes) - 1 : ~read(n).ok
       /\ message.kind \in ToPython => Wi!PythonDecodeHeader(bytes) = header
       /\ message.kind = "call" =>
            bytes = Wi!PythonCall(message.seq, message.fields[1], message.fields[2],
                                  Wi!EncodeFields(message.types, message.values))
=============================================================================
