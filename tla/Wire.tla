-------------------------------- MODULE Wire --------------------------------
(***************************************************************************)
(* The wire format: the codecs of src/src/buffer.cpp and buffer.hpp and    *)
(* the messages of src/src/wire.cpp, byte by byte.  A decoder returns the  *)
(* value and the bytes after it, or fails where the code throws.           *)
(***************************************************************************)
EXTENDS Integers, Sequences, SequencesExt

CONSTANTS
  MaxString, MaxBytes, MaxCount,  \* kMaxStringSize, kMaxBytesSize, kMaxArrayCount
  MaxPayload                      \* kMaxPayloadSize

Magic == 1397706311  \* 0x534F4E47

MsgType == [init |-> 1, call |-> 2, result |-> 3, error |-> 4, stream |-> 5,
            stream_end |-> 6, shutdown |-> 8, create |-> 9, release |-> 10,
            prop_get |-> 11, prop_set |-> 12, init_ack |-> 13, prop_subscribe |-> 14,
            prop_unsubscribe |-> 15, prop_notify |-> 16, object_call |-> 17]

Failed == [ok |-> FALSE]
Got(value, rest) == [ok |-> TRUE, value |-> value, rest |-> rest]

-----------------------------------------------------------------------------
(* Numbers: the machine's little-endian bytes.  What TLC has no number for *)
(* (64 bits, floating point) is given by its bytes.                        *)

Little(v, width) == [i \in 1..width |-> (v \div 256^(i - 1)) % 256]
Complement(bytes) == [i \in DOMAIN bytes |-> 255 - bytes[i]]
Number(bytes) ==
  LET upTo[i \in 0..Len(bytes)] == IF i = 0 THEN 0 ELSE upTo[i - 1] + bytes[i] * 256^(i - 1)
  IN upTo[Len(bytes)]

\* A type is [t |-> "bool"], [t |-> "u" | "i" | "raw", width], [t |-> "string"],
\* [t |-> "bytes"], [t |-> "array", of |-> type].
U(w) == [t |-> "u", width |-> w]
I(w) == [t |-> "i", width |-> w]

EncodeNumber(type, v) ==
  CASE type.t = "bool" -> <<IF v THEN 1 ELSE 0>>
    [] type.t = "u"    -> Little(v, type.width)
    [] type.t = "i"    -> IF v >= 0 THEN Little(v, type.width)
                          ELSE Complement(Little(-(v + 1), type.width))
    [] type.t = "raw"  -> v

Width(type) == IF type.t = "bool" THEN 1 ELSE type.width

\* Buffer::read refuses to read past the end.
DecodeNumber(type, bytes) ==
  LET w == Width(type)
      b == SubSeq(bytes, 1, w)
      value == CASE type.t = "bool" -> b[1] # 0
                 [] type.t = "u"    -> Number(b)
                 [] type.t = "i"    -> IF b[w] < 128 THEN Number(b) ELSE -1 - Number(Complement(b))
                 [] type.t = "raw"  -> b
  IN IF Len(bytes) < w THEN Failed ELSE Got(value, SubSeq(bytes, w + 1, Len(bytes)))

(* Strings, byte arrays and arrays: a count and the elements.              *)

Cpp == [string |-> MaxString, bytes |-> MaxBytes, array |-> MaxCount]
\* Python's Buffer has no limit of its own.
Python == [string |-> 2147483647, bytes |-> 2147483647, array |-> 2147483647]
Counted(type) == type.t \in DOMAIN Cpp

\* Mutant: encode_array lets one element more through than decode_array.
RECURSIVE EncodableOneMore(_, _, _)
EncodableOneMore(type, v, limit) ==
  CASE type.t = "array" -> Len(v) <= limit.array + 1
                           /\ \A i \in DOMAIN v : EncodableOneMore(type.of, v[i], limit)
    [] type.t \in {"string", "bytes"} -> Len(v) <= limit[type.t]
    [] OTHER -> TRUE

RECURSIVE Encodable(_, _, _)
\* The encoder does not throw.
Encodable(type, v, limit) ==
  Counted(type) => /\ Len(v) <= limit[type.t]
                   /\ type.t = "array" => \A i \in DOMAIN v : Encodable(type.of, v[i], limit)

RECURSIVE Encode(_, _)
Encode(type, v) ==
  CASE ~Counted(type)   -> EncodeNumber(type, v)
    [] type.t = "array" -> Little(Len(v), 4) \o FlattenSeq([i \in DOMAIN v |-> Encode(type.of, v[i])])
    [] OTHER            -> Little(Len(v), 4) \o v

RECURSIVE Decode(_, _, _), DecodeAll(_, _, _)
Decode(type, bytes, limit) ==
  IF ~Counted(type) THEN DecodeNumber(type, bytes)
  ELSE LET count == DecodeNumber(U(4), bytes)
       IN IF ~count.ok THEN Failed
          ELSE IF count.value > limit[type.t] THEN Failed
          ELSE IF type.t = "array"
          THEN DecodeAll([i \in 1..count.value |-> type.of], count.rest, limit)
          ELSE DecodeNumber([t |-> "raw", width |-> count.value], count.rest)

\* One value after another.
DecodeAll(types, bytes, limit) ==
  IF types = <<>> THEN Got(<<>>, bytes)
  ELSE LET one == Decode(Head(types), bytes, limit)
           others == DecodeAll(Tail(types), one.rest, limit)
       IN IF ~one.ok THEN Failed
          ELSE IF ~others.ok THEN Failed
          ELSE Got(<<one.value>> \o others.value, others.rest)

-----------------------------------------------------------------------------
(* Messages.  A field list is what one encode_ function writes and one     *)
(* decode_ function reads.                                                 *)

EncodeFields(types, values) == FlattenSeq([i \in DOMAIN types |-> Encode(types[i], values[i])])
DecodeFields(types, bytes) == DecodeAll(types, bytes, Cpp)

Header == <<U(4), U(1), U(1), U(2), U(4), U(4)>>

\* encode_header of a message with no flags, as every create_ function does.
EncodeHeader(type, size, seq) == EncodeFields(Header, <<Magic, 0, type, 0, size, seq>>)

\* Mutant: a payload of exactly the limit is refused.
DecodeHeaderBelow(bytes) ==
  LET h == DecodeFields(Header, bytes)
  IN IF h.ok => h.value[1] # Magic \/ h.value[5] >= MaxPayload THEN Failed
     ELSE Got([type |-> h.value[3], size |-> h.value[5], seq |-> h.value[6]], h.rest)

\* decode_header_validated.
DecodeHeader(bytes) ==
  LET h == DecodeFields(Header, bytes)
  IN IF h.ok => h.value[1] # Magic \/ h.value[5] > MaxPayload THEN Failed
     ELSE Got([type |-> h.value[3], size |-> h.value[5], seq |-> h.value[6]], h.rest)

InitFields   == <<U(4), U(2), U(2), U(4), U(4)>>  \* magic, versions, capabilities, methods
MethodFields == <<U(2), U(2), U(2), U(2)>>        \* service, method, flags, reserved
CallFields   == <<U(2), U(2)>>                    \* service, method
ErrorFields  == <<U(2), [t |-> "string"]>>        \* code, text

\* Type and object; with a constructor; with a property or a method.
ReferenceFields == <<U(4), I(4)>>
CreateFields    == <<U(4), U(2), U(2)>>
MemberFields    == <<U(4), I(4), U(2), U(2)>>

\* The message a create_ function returns: the header, the fields and the
\* bytes the caller encoded itself.
Message(type, seq, fields, values, args) ==
  LET payload == EncodeFields(fields, values) \o args
  IN EncodeHeader(MsgType[type], Len(payload), seq) \o payload

\* create_init_message: methods is a sequence of MethodFields values.
CreateInit(first, current, capabilities, methods) ==
  Message("init", 0, InitFields, <<Magic, first, current, capabilities, Len(methods)>>,
          FlattenSeq([i \in DOMAIN methods |-> EncodeFields(MethodFields, methods[i])]))
CreateInitAck(first, current, capabilities) ==
  Message("init_ack", 0, InitFields, <<Magic, first, current, capabilities, 0>>, <<>>)

CreateCall(seq, service, method, args) ==
  Message("call", seq, CallFields, <<service, method>>, args)
CreateResult(seq, result) == Message("result", seq, <<>>, <<>>, result)
CreateError(seq, code, text) == Message("error", seq, ErrorFields, <<code, text>>, <<>>)
CreateShutdown == Message("shutdown", 0, <<>>, <<>>, <<>>)

\* Chunks of a stream and its end.
CreateStream(seq, chunk) == Message("stream", seq, <<>>, <<>>, chunk)
CreateStreamEnd(seq) == Message("stream_end", seq, <<>>, <<>>, <<>>)

CreateObject(seq, type, constructor, args) ==
  Message("create", seq, CreateFields, <<type, constructor, 0>>, args)
CreateRelease(type, object) ==
  Message("release", 0, ReferenceFields, <<type, object>>, <<>>)

\* The requests to a member of an object: kind is "prop_get", "prop_set" or
\* "object_call".
CreateMember(kind, seq, type, object, member, args) ==
  Message(kind, seq, MemberFields, <<type, object, member, 0>>, args)

\* Subscriptions and notifications carry no sequence id: kind is
\* "prop_subscribe", "prop_unsubscribe" or "prop_notify".
CreatePush(kind, type, object, property, value) ==
  Message(kind, 0, MemberFields, <<type, object, property, 0>>, value)

\* What the receiver reads after the header, by type (runtime.cpp, process.cpp).
Expected(type) ==
  CASE type = MsgType.call -> CallFields
    [] type = MsgType.error -> ErrorFields
    [] type \in {MsgType.init, MsgType.init_ack} -> InitFields
    [] type = MsgType.create -> CreateFields
    [] type = MsgType.release -> ReferenceFields
    [] type \in {MsgType.prop_get, MsgType.prop_set, MsgType.object_call, MsgType.prop_subscribe,
                 MsgType.prop_unsubscribe, MsgType.prop_notify} -> MemberFields
    [] OTHER -> <<>>

\* The payload of a message and what follows the fields; decode_init checks the
\* magic number once more.
DecodePayload(type, rest, bytes) ==
  LET got == DecodeFields(Expected(type) \o rest, bytes)
  IN IF type \in {MsgType.init, MsgType.init_ack} /\ got.ok /\ got.value[1] # Magic
     THEN Failed ELSE got

-----------------------------------------------------------------------------
(* The Python client (src/python/song): struct.pack('<IBBHII', ...) and    *)
(* the same field lists.                                                   *)

PythonMaxPayload == 4 * MaxPayload  \* 64 MB, and 16 MB in wire.hpp
PythonTypes == 1..12                \* MsgType of wire.py ends with prop_set

PythonCall(seq, service, method, args) ==
  LET payload == Encode(U(2), service) \o Encode(U(2), method) \o args
  IN EncodeFields(Header, <<Magic, 0, MsgType.call, 0, Len(payload), seq>>) \o payload

\* decode_header is given exactly 16 bytes; MsgType() refuses an unknown type.
PythonDecodeHeader(bytes) ==
  LET h == DecodeFields(Header, SubSeq(bytes, 1, 16))
  IN IF h.ok => \/ h.value[1] # Magic \/ h.value[5] > PythonMaxPayload
                \/ h.value[3] \notin PythonTypes
     THEN Failed
     ELSE Got([type |-> h.value[3], size |-> h.value[5], seq |-> h.value[6]],
              SubSeq(bytes, 17, Len(bytes)))
=============================================================================
