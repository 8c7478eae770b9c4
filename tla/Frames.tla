------------------------------- MODULE Frames -------------------------------
(***************************************************************************)
(* One direction of a connection below the messages: the senders of one    *)
(* process, the byte stream, and receive() of the transport at the other   *)
(* end (src/src/transport.cpp, tls.cpp, security.cpp and the Python        *)
(* client's connection.py).  The stream carries units: a header is         *)
(* HeaderUnits of them, so that it can arrive in parts.                    *)
(*                                                                         *)
(* SecureTransport signs what it sends with a tag of one unit at the end   *)
(* of the payload.  Two keys never make the same tag (HMAC is ideal).      *)
(***************************************************************************)
EXTENDS Integers, Sequences, FiniteSets

CONSTANTS
  Links,       \* connections: [kind, sign, check, senders]
  MaxPayload,  \* kMaxPayloadSize
  PipeBuf,     \* a pipe takes this many units in one piece
  Capacity,    \* units the stream holds
  MaxFrames    \* bound on the frames sent

VARIABLES
  link,       \* the connection: fixed at the beginning
  out,        \* what is left of the frame each sender is writing
  stream,     \* units under way
  open,       \* the sending process is there
  reader,     \* receive(): where it is and what it has read of the frame
  sent,       \* the frames begun, in order
  delivered,  \* what receive() returned
  overlapped, \* two senders wrote at once
  lost,       \* a receive gave up inside a frame
  refused     \* a signed frame was refused

linkVars == <<link>>
ghosts == <<overlapped, lost, refused>>
frameVars == <<link, out, stream, open, reader, sent, delivered, ghosts>>

HeaderUnits == 2
NoKey == "none"
Unsigned == <<>>
IdleReader == [at |-> "idle", units |-> <<>>, need |-> HeaderUnits]

FramesInit ==
  /\ link \in Links
  /\ out = [s \in link.senders |-> <<>>]
  /\ stream = <<>> /\ open = TRUE /\ reader = IdleReader
  /\ sent = <<>> /\ delivered = <<>>
  /\ overlapped = FALSE /\ lost = FALSE /\ refused = FALSE

-----------------------------------------------------------------------------
(* Frames                                                                  *)

Unit(id, part, size, encrypted, tag) ==
  [id |-> id, part |-> part, size |-> size, encrypted |-> encrypted, tag |-> tag]

\* The wire bytes of message id: its header and size units of payload.
Plain(id, size) ==
  [i \in 1..HeaderUnits + size |->
     Unit(id, i, IF i <= HeaderUnits THEN size ELSE 0, FALSE, Unsigned)]

\* The header of a frame patched to another payload size.
Resized(units, size) ==
  [i \in DOMAIN units |-> IF i <= HeaderUnits THEN [units[i] EXCEPT !.size = size] ELSE units[i]]

\* Mutant: the tag covers the header with the patched size.
SecuredPatched(units, key) ==
  LET size == Len(units) - HeaderUnits + 1
  IN Append(Resized(units, size),
            Unit(units[1].id, Len(units) + 1, 0, FALSE, <<key, Resized(units, size)>>))

\* SecureTransport::send: the tag is over the message, and the size counts it.
Secured(units, key) ==
  Append(Resized(units, Len(units) - HeaderUnits + 1),
         Unit(units[1].id, Len(units) + 1, 0, FALSE, <<key, units>>))

\* TlsTransport::send marks the header.
Stamped(units) ==
  [i \in DOMAIN units |->
     IF i <= HeaderUnits THEN [units[i] EXCEPT !.encrypted = TRUE] ELSE units[i]]

\* What the transport writes for message id.
Frame(id, size) ==
  LET message == Plain(id, size)
      secure  == IF link.sign = NoKey THEN message ELSE Secured(message, link.sign)
  IN IF link.kind = "tls" THEN Stamped(secure) ELSE secure

-----------------------------------------------------------------------------
(* Sending                                                                 *)

\* SecureTransport::send refuses a message the tag would make too long; the
\* transports send any length.
BeginFrame(s, size) ==
  /\ open /\ out[s] = <<>> /\ Len(sent) < MaxFrames
  /\ link.sign # NoKey => size <= MaxPayload - 1
  /\ LET units == Frame(Len(sent) + 1, size) IN
     /\ out' = [out EXCEPT ![s] = units]
     /\ sent' = Append(sent, units)
  /\ overlapped' = (overlapped \/ \E r \in DOMAIN out : out[r] # <<>>)
  /\ UNCHANGED <<link, stream, open, reader, delivered, lost, refused>>

\* Mutant: the loop writes the message from the start after a partial write.
WriteFromStart(s) ==
  /\ open /\ out[s] # <<>>
  /\ \E n \in 1..Len(out[s]) :
       /\ Len(stream) + n <= Capacity
       /\ link.kind = "pipe" /\ Len(out[s]) <= PipeBuf => n = Len(out[s])
       /\ stream' = stream \o SubSeq(Frame(Len(sent), Len(sent[Len(sent)]) - HeaderUnits), 1, n)
       /\ out' = [out EXCEPT ![s] = SubSeq(@, n + 1, Len(@))]
  /\ UNCHANGED <<link, open, reader, sent, delivered, ghosts>>

\* One write() or send() call: part of what is left, unless it is a pipe and
\* the whole is short.  No lock is held from one call to the next.
WriteUnits(s) ==
  /\ open /\ out[s] # <<>>
  /\ \E n \in 1..Len(out[s]) :
       /\ Len(stream) + n <= Capacity
       /\ link.kind = "pipe" /\ Len(out[s]) <= PipeBuf => n = Len(out[s])
       /\ stream' = stream \o SubSeq(out[s], 1, n)
       /\ out' = [out EXCEPT ![s] = SubSeq(@, n + 1, Len(@))]
  /\ UNCHANGED <<link, open, reader, sent, delivered, ghosts>>

\* The sending process closes the connection or dies, inside a frame or not.
CloseStream ==
  /\ open
  /\ open' = FALSE
  /\ out' = [s \in DOMAIN out |-> <<>>]
  /\ UNCHANGED <<link, stream, reader, sent, delivered, ghosts>>

-----------------------------------------------------------------------------
(* Receiving                                                               *)

\* The units are the header of one frame, from its first.
IsHeader(units) ==
  \A i \in 1..HeaderUnits : units[i].part = i /\ units[i].id = units[1].id

Throws(at) == reader' = [IdleReader EXCEPT !.at = at]
Inside == reader.units # <<>>

\* SecureTransport::receive: the last unit is the tag over the message that is
\* left without it.
Verified(units) ==
  LET message == SubSeq(units, 1, Len(units) - 1)
  IN /\ Len(units) > HeaderUnits
     /\ units[Len(units)].tag = <<link.check, Resized(message, Len(message) - HeaderUnits)>>

Returns(units) ==
  /\ Throws("idle")
  /\ IF link.check = NoKey
     THEN delivered' = Append(delivered, units) /\ UNCHANGED refused
     ELSE IF Verified(units)
     THEN /\ delivered' = Append(delivered, LET m == SubSeq(units, 1, Len(units) - 1)
                                            IN Resized(m, Len(m) - HeaderUnits))
          /\ UNCHANGED refused
     ELSE refused' = TRUE /\ UNCHANGED delivered

\* The largest payload a receiver takes; Python's is four times that of C++.
Limit == IF link.kind = "python" THEN 4 * MaxPayload ELSE MaxPayload

\* A whole header has been read: its size is stated in it, or is anything when
\* it is not a header.  Python refuses what does not begin with the magic.
HeaderRead(units) ==
  \E size \in 0..MaxPayload + 1 :
    /\ IsHeader(units) => size = units[1].size
    /\ \/ /\ size > Limit \/ (link.kind = "python" /\ ~IsHeader(units))
          /\ Throws("idle") /\ lost' = TRUE
          /\ UNCHANGED <<delivered, refused>>
       \/ /\ size <= Limit /\ (link.kind = "python" => IsHeader(units))
          /\ IF size = 0
             THEN Returns(units) /\ UNCHANGED lost
             ELSE /\ reader' = [at |-> "payload", units |-> units, need |-> size]
                  /\ UNCHANGED <<delivered, refused, lost>>

\* One read() or recv() call: it returns what is there, up to what is asked.
\* A pipe reads a header in one call; the others go on until they have it.
ReadUnits ==
  /\ reader.at \in {"idle", "payload"} /\ stream # <<>>
  /\ LET n     == IF Len(stream) < reader.need THEN Len(stream) ELSE reader.need
         units == reader.units \o SubSeq(stream, 1, n)
     IN /\ stream' = SubSeq(stream, n + 1, Len(stream))
        /\ \/ /\ n = reader.need /\ reader.at = "idle" /\ HeaderRead(units)
           \/ /\ n = reader.need /\ reader.at = "payload"
              /\ Returns(units) /\ UNCHANGED lost
           \/ /\ n < reader.need /\ reader.at = "idle" /\ link.kind = "pipe"
              /\ Throws("idle") /\ lost' = TRUE
              /\ UNCHANGED <<delivered, refused>>
           \/ /\ n < reader.need /\ (reader.at = "payload" \/ link.kind # "pipe")
              /\ reader' = [reader EXCEPT !.units = units, !.need = @ - n]
              /\ UNCHANGED <<delivered, refused, lost>>
  /\ UNCHANGED <<link, out, open, sent, overlapped>>

\* The timeout expires inside a frame.  A pipe and a TCP socket are polled
\* before the frame only; TLS reads the header, and Python everything, with a
\* timeout, and what was read is gone.  TLS gives the connection up when it
\* happens in the payload.
TimeoutInside ==
  /\ open /\ stream = <<>> /\ reader.at # "closed" /\ Inside
  /\ link.kind \in {"tls", "python"}
  /\ Throws(IF link.kind = "tls" /\ reader.at = "payload" THEN "closed" ELSE "idle")
  /\ lost' = TRUE
  /\ UNCHANGED <<link, out, stream, open, sent, delivered, overlapped, refused>>

\* The end of the stream: false before a frame and, on TCP and TLS, in the
\* header; an exception in the payload.
StreamEnd ==
  /\ ~open /\ stream = <<>> /\ reader.at # "closed"
  /\ Throws("closed")
  /\ lost' = (lost \/ Inside)
  /\ UNCHANGED <<link, out, stream, open, sent, delivered, overlapped, refused>>

FramesNext ==
  \/ \E s \in DOMAIN out : \E size \in 0..MaxPayload + 1 : BeginFrame(s, size)
  \/ \E s \in DOMAIN out : WriteUnits(s)
  \/ CloseStream \/ ReadUnits \/ TimeoutInside \/ StreamEnd

FramesSpec == FramesInit /\ [][FramesNext]_frameVars

-----------------------------------------------------------------------------
(* Properties                                                              *)

\* The returns of receive() that its caller takes for frames.
Accepted == {k \in DOMAIN delivered : Len(delivered[k]) >= HeaderUnits /\ IsHeader(delivered[k])}

\* The messages as the receiver should see them.
Expected(id) ==
  IF link.check = NoKey THEN sent[id]
  ELSE Plain(id, Len(sent[id]) - HeaderUnits - (IF link.sign = NoKey THEN 0 ELSE 1))

\* Every frame a receiver accepts is a frame that was sent, whole and in order,
\* however it was cut on the way, as long as no two senders wrote at once; and
\* none is skipped unless a receive gave up inside one, which a timeout on TCP
\* never makes it do.
DeliveredInOrder ==
  ~overlapped =>
    /\ \A k \in Accepted : delivered[k] = Expected(delivered[k][1].id)
    /\ \A k, m \in Accepted : k < m => delivered[k][1].id < delivered[m][1].id
    /\ ~lost /\ ~refused => \A i \in DOMAIN delivered : delivered[i] = Expected(i)
    /\ lost /\ open /\ link.kind = "tcp" =>
         \E i \in DOMAIN sent : Len(sent[i]) > HeaderUnits + MaxPayload

\* A receiver with a key gets only messages a sender with that key sent, as they
\* were sent, even after frames were torn or lost.
Unforged ==
  link.check # NoKey =>
    \A i \in DOMAIN delivered :
      /\ link.sign = link.check
      /\ delivered[i] = Plain(delivered[i][1].id, Len(sent[delivered[i][1].id]) - HeaderUnits - 1)

\* SecureTransport decorates any transport (README.md:489): with one key at both
\* ends and no frame torn or lost, none is refused.
SecureAccepts(kinds) ==
  link.sign = link.check /\ link.kind \in kinds /\ ~overlapped /\ ~lost => ~refused

\* Behind SecureTransport only messages of a sender with the key arrive, as they
\* were sent; and those of one do, but over TLS, which marks the header that was
\* signed.
OnlyAuthentic == Unforged /\ SecureAccepts({"pipe", "tcp"})
==============================================================================
