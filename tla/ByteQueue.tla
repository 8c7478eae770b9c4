------------------------------ MODULE ByteQueue ------------------------------
(***************************************************************************)
(* What a song::Buffer promises (src/include/song/buffer.hpp), whatever    *)
(* memory it uses: a sequence of bytes that grows at its end and a cursor  *)
(* that reads it from the front.                                           *)
(***************************************************************************)
EXTENDS Naturals, Sequences

CONSTANTS Bufs, Writes, Lengths

VARIABLES
  held,   \* the live buffers: [bytes |-> written so far, pos |-> read so far]
  got     \* what the last read returned

Empty == [bytes |-> <<>>, pos |-> 0]
Underflow == [ok |-> FALSE, bytes |-> <<>>]

Live == DOMAIN held
Set(b, v) == held' = [c \in Live \cup {b} |-> IF c = b THEN v ELSE held[c]]
Remove(b) == held' = [c \in Live \ {b} |-> held[c]]

Init == held = [b \in {} |-> Empty] /\ got = Underflow

Construct(b) == b \notin Live /\ Set(b, Empty) /\ UNCHANGED got
Destroy(b)   == b \in Live /\ Remove(b) /\ UNCHANGED got

Write(b, bytes) ==
  /\ b \in Live
  /\ Set(b, [held[b] EXCEPT !.bytes = @ \o bytes])
  /\ UNCHANGED got

\* A read returns the next n bytes or fails and changes nothing.
Read(b, n) ==
  /\ b \in Live
  /\ \/ /\ held[b].pos + n <= Len(held[b].bytes)
        /\ got' = [ok |-> TRUE, bytes |-> SubSeq(held[b].bytes, held[b].pos + 1, held[b].pos + n)]
        /\ Set(b, [held[b] EXCEPT !.pos = @ + n])
     \/ /\ held[b].pos + n > Len(held[b].bytes)
        /\ got' = Underflow
        /\ UNCHANGED held

Reset(b)  == b \in Live /\ Set(b, Empty) /\ UNCHANGED got
Rewind(b) == b \in Live /\ Set(b, [held[b] EXCEPT !.pos = 0]) /\ UNCHANGED got

\* The contents and the cursor move; the source is left empty.
Move(dst, src) ==
  /\ src \in Live /\ dst # src
  /\ held' = [c \in Live \cup {dst} |-> CASE c = dst -> held[src]
                                          [] c = src -> Empty
                                          [] OTHER   -> held[c]]
  /\ UNCHANGED got

Next == \E b \in Bufs :
  \/ Construct(b) \/ Destroy(b) \/ Reset(b) \/ Rewind(b)
  \/ \E w \in Writes : Write(b, w)
  \/ \E n \in Lengths : Read(b, n)
  \/ \E c \in Bufs : Move(b, c)

Spec == Init /\ [][Next]_<<held, got>>
==============================================================================
