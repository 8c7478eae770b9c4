------------------------------- MODULE Buffer -------------------------------
(***************************************************************************)
(* The memory of song::Buffer (src/src/buffer.cpp): bytes live inside the  *)
(* object while they fit and in a heap block once they do not; a move takes *)
(* the block, or copies the bytes in use.  Memory that was never written   *)
(* holds Junk.                                                             *)
(***************************************************************************)
EXTENDS Integers, Sequences, FiniteSets

CONSTANTS
  Bufs,     \* Buffer objects
  Blocks,   \* addresses of heap blocks: positive numbers
  Inline,   \* kInlineSize (4096 in the code)
  Writes,   \* what the program writes at a time: sequences of bytes
  Lengths,  \* how much it reads at a time
  MaxSize   \* bound on the bytes written to a buffer

VARIABLES
  buf,      \* the live objects
  heap,     \* the allocated blocks and their bytes
  got       \* what the last read returned

bufferVars == <<buf, heap, got>>

Junk == -1
InObject == 0   \* data_ == inline_
Fresh(n) == [i \in 1..n |-> Junk]
LiveBuffers == DOMAIN buf

\* inline_, data_, size_, capacity_, read_pos_.
New == [inl |-> Fresh(Inline), data |-> InObject, size |-> 0, cap |-> Inline, pos |-> 0]

BufferInit ==
  /\ buf = [b \in {} |-> New]
  /\ heap = [k \in {} |-> <<>>]
  /\ got = [ok |-> FALSE, bytes |-> <<>>]

-----------------------------------------------------------------------------
\* The bytes a live buffer's data_ points at; a freed block holds nothing.
Memory(b) == IF buf[b].data = InObject THEN buf[b].inl
             ELSE IF buf[b].data \in DOMAIN heap THEN heap[buf[b].data] ELSE <<>>

Overlay(mem, at, bytes) ==
  [i \in DOMAIN mem |-> IF i - at \in DOMAIN bytes THEN bytes[i - at] ELSE mem[i]]

\* view(): what was written to the buffer.
Contents(b) == SubSeq(Memory(b), 1, buf[b].size)

SetBuf(b, v) == buf' = [c \in LiveBuffers \cup {b} |-> IF c = b THEN v ELSE buf[c]]
\* delete[] data_, unless the bytes are in the object.
Freed(b) == [k \in DOMAIN heap \ {buf[b].data} |-> heap[k]]

ConstructBuffer(b) ==
  /\ b \notin LiveBuffers
  /\ SetBuf(b, New)
  /\ UNCHANGED <<heap, got>>

DestroyBuffer(b) ==
  /\ b \in LiveBuffers
  /\ heap' = Freed(b)
  /\ buf' = [c \in LiveBuffers \ {b} |-> buf[c]]
  /\ UNCHANGED got

\* The capacity is doubled until it is enough: the one such capacity.
Doubled(cap, required) ==
  {c \in required..2 * required - 1 : \E k \in 0..required : c = cap * 2^k}

\* write() appends, in place when the capacity allows; otherwise
\* ensure_capacity has moved the contents to a larger block and freed the old.
WriteBytes(b, bytes) ==
  /\ b \in LiveBuffers
  /\ LET size == buf[b].size + Len(bytes)
         longer == [buf[b] EXCEPT !.size = size]
     IN /\ size <= MaxSize
        /\ \/ /\ size <= buf[b].cap /\ buf[b].data = InObject
              /\ SetBuf(b, [longer EXCEPT !.inl = Overlay(@, buf[b].size, bytes)])
              /\ UNCHANGED heap
           \/ /\ size <= buf[b].cap /\ buf[b].data # InObject
              /\ SetBuf(b, longer)
              /\ heap' = [k \in DOMAIN heap |-> IF k # buf[b].data THEN heap[k]
                                                ELSE Overlay(heap[k], buf[b].size, bytes)]
           \/ /\ size > buf[b].cap
              /\ \E k \in Blocks \ DOMAIN heap, cap \in Doubled(buf[b].cap, size) :
                   /\ SetBuf(b, [longer EXCEPT !.data = k, !.cap = cap])
                   /\ heap' = [x \in DOMAIN Freed(b) \cup {k} |-> IF x # k THEN heap[x]
                                 ELSE Overlay(Fresh(cap), 0, Contents(b) \o bytes)]
  /\ UNCHANGED got

\* read() throws when fewer than n bytes are left and then moves nothing.
ReadBytes(b, n) ==
  /\ b \in LiveBuffers
  /\ \/ /\ n <= buf[b].size /\ buf[b].pos <= buf[b].size - n
        /\ got' = [ok |-> TRUE, bytes |-> SubSeq(Memory(b), buf[b].pos + 1, buf[b].pos + n)]
        /\ SetBuf(b, [buf[b] EXCEPT !.pos = @ + n])
     \/ /\ n > buf[b].size \/ buf[b].pos > buf[b].size - n
        /\ got' = [ok |-> FALSE, bytes |-> <<>>]
        /\ UNCHANGED buf
  /\ UNCHANGED heap

Reset(b) ==
  /\ b \in LiveBuffers
  /\ SetBuf(b, [buf[b] EXCEPT !.size = 0, !.pos = 0])
  /\ UNCHANGED <<heap, got>>

Rewind(b) ==
  /\ b \in LiveBuffers
  /\ SetBuf(b, [buf[b] EXCEPT !.pos = 0])
  /\ UNCHANGED <<heap, got>>

\* Mutant: the bytes in the object are not copied.
TakenPointer(src, inl) == [buf[src] EXCEPT !.inl = inl]

\* What a move leaves in dst, whose own inline bytes were inl.
Taken(src, inl) ==
  IF buf[src].data = InObject
  THEN [buf[src] EXCEPT !.inl = Overlay(inl, 0, Contents(src))]
  ELSE [buf[src] EXCEPT !.inl = inl]

\* What a move leaves in src: empty, its block given away.
Left(src) ==
  [buf[src] EXCEPT !.data = InObject, !.size = 0, !.pos = 0,
                   !.cap = IF buf[src].data = InObject THEN @ ELSE Inline]

MoveConstruct(dst, src) ==
  /\ dst \notin LiveBuffers /\ src \in LiveBuffers
  /\ buf' = [c \in LiveBuffers \cup {dst} |-> CASE c = dst -> Taken(src, Fresh(Inline))
                                         [] c = src -> Left(src)
                                         [] OTHER   -> buf[c]]
  /\ UNCHANGED <<heap, got>>

\* Mutant: the block of the buffer that is assigned to is not freed.
MoveAssignKeeps(dst, src) ==
  /\ dst \in LiveBuffers /\ src \in LiveBuffers /\ dst # src
  /\ buf' = [buf EXCEPT ![dst] = Taken(src, buf[dst].inl), ![src] = Left(src)]
  /\ UNCHANGED <<heap, got>>

MoveAssign(dst, src) ==
  /\ dst \in LiveBuffers /\ src \in LiveBuffers /\ dst # src
  /\ buf' = [buf EXCEPT ![dst] = Taken(src, buf[dst].inl), ![src] = Left(src)]
  /\ heap' = Freed(dst)
  /\ UNCHANGED got

BufferNext == \E b \in Bufs :
  \/ ConstructBuffer(b) \/ DestroyBuffer(b) \/ Reset(b) \/ Rewind(b)
  \/ \E w \in Writes : WriteBytes(b, w)
  \/ \E n \in Lengths : ReadBytes(b, n)
  \/ \E c \in Bufs : MoveConstruct(b, c) \/ MoveAssign(b, c)

BufferSpec == BufferInit /\ [][BufferNext]_bufferVars

-----------------------------------------------------------------------------
\* The buffer is the sequence of bytes it promises to be, whatever block its
\* bytes are in and however often they were moved.
Held == [b \in LiveBuffers |-> [bytes |-> Contents(b), pos |-> buf[b].pos]]
Promise == INSTANCE ByteQueue WITH held <- Held
Implements == Promise!Spec

\* No block is leaked, freed twice or shared: the allocated blocks are those
\* the live buffers point at, each one buffer's.
BlocksOwned ==
  /\ DOMAIN heap = {buf[b].data : b \in LiveBuffers} \ {InObject}
  /\ \A b, c \in LiveBuffers : b # c /\ buf[b].data = buf[c].data => buf[b].data = InObject
==============================================================================
