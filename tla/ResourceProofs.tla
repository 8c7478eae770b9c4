---------------------------- MODULE ResourceProofs ----------------------------
(***************************************************************************)
(* What the program takes from the system and gives back.  Buffer: for     *)
(* every size of the inline array and all that is written and read, no     *)
(* heap block is lost or shared, and the object is the queue of bytes that *)
(* ByteQueue promises.  Sockets: for any number of objects and descriptors *)
(* every open descriptor has one owner.                                    *)
(***************************************************************************)
EXTENDS Buffer, Sockets, SequenceTheorems, TLAPS

\* What is written is bytes, what is read has a length, no block is at null.
Sane ==
  /\ Inline \in Nat /\ InObject \notin Blocks
  /\ Writes \subseteq Seq(Int) /\ Lengths \subseteq Nat

-----------------------------------------------------------------------------
(* The inductive invariant                                                 *)

BufferObject == [inl : Seq(Int), data : Blocks \cup {InObject}, size : Nat, cap : Nat, pos : Nat]

BufferTypes ==
  /\ buf \in [LiveBuffers -> BufferObject]
  /\ heap \in [DOMAIN heap -> Seq(Int)] /\ DOMAIN heap \subseteq Blocks

\* The capacity is that of the memory data_ points at, of which no more is used
\* and no more was read.
Fits(v, blocks) ==
  /\ v \in BufferObject /\ Len(v.inl) = Inline
  /\ v.cap = IF v.data = InObject THEN Inline ELSE Len(blocks[v.data])
  /\ v.size <= v.cap /\ v.pos <= v.size

BufferInv == BufferTypes /\ (\A b \in LiveBuffers : Fits(buf[b], heap)) /\ BlocksOwned

\* The block of b, if it has one.
Block(b) == IF b \in LiveBuffers THEN buf[b].data ELSE InObject

-----------------------------------------------------------------------------
(* Memory                                                                  *)

LEMMA Prefix ==
  ASSUME NEW S, NEW s \in Seq(S), NEW n \in 0..Len(s)
  PROVE  /\ SubSeq(s, 1, n) \in Seq(S) /\ Len(SubSeq(s, 1, n)) = n
         /\ \A i \in 1..n : SubSeq(s, 1, n)[i] = s[i]
<1>1. Len(s) \in Nat /\ n \in Nat /\ \A i \in 1..n : s[i] \in S
  OBVIOUS
<1>2. /\ SubSeq(s, 1, n) \in Seq(S)
      /\ Len(SubSeq(s, 1, n)) = IF 1 <= n THEN n - 1 + 1 ELSE 0
      /\ \A i \in 1..n - 1 + 1 : SubSeq(s, 1, n)[i] = s[1 + i - 1]
  BY <1>1, SubSeqProperties
<1> QED BY <1>1, <1>2

LEMMA FreshTypes ==
  ASSUME NEW n \in Nat
  PROVE  Fresh(n) \in Seq(Int) /\ Len(Fresh(n)) = n
BY DEF Fresh, Junk

\* Writing over a part of the memory leaves what is before it.
LEMMA OverlayTypes ==
  ASSUME NEW mem \in Seq(Int), NEW at \in Nat, NEW bytes \in Seq(Int),
         at + Len(bytes) <= Len(mem)
  PROVE  /\ Overlay(mem, at, bytes) \in Seq(Int) /\ Len(Overlay(mem, at, bytes)) = Len(mem)
         /\ SubSeq(Overlay(mem, at, bytes), 1, at + Len(bytes)) = SubSeq(mem, 1, at) \o bytes
<1> DEFINE new == Overlay(mem, at, bytes)
<1>1. /\ DOMAIN mem = 1..Len(mem) /\ Len(mem) \in Nat
      /\ DOMAIN bytes = 1..Len(bytes) /\ Len(bytes) \in Nat
  OBVIOUS
<1>2. \A i \in 1..Len(mem) :
        (IF i - at \in DOMAIN bytes THEN bytes[i - at] ELSE mem[i]) \in Int
  BY <1>1
<1>3. /\ new \in Seq(Int) /\ Len(new) = Len(mem)
      /\ \A i \in 1..Len(mem) : new[i] = IF i - at \in DOMAIN bytes THEN bytes[i - at] ELSE mem[i]
  BY <1>1, <1>2 DEF Overlay
<1> HIDE DEF new
<1> DEFINE left == SubSeq(new, 1, at + Len(bytes))
           part == SubSeq(mem, 1, at)
           right == part \o bytes
<1>4. /\ left \in Seq(Int) /\ Len(left) = at + Len(bytes)
      /\ \A i \in 1..at + Len(bytes) : left[i] = new[i]
  <2>1. at + Len(bytes) \in 0..Len(new)
    BY <1>1, <1>3
  <2> QED BY <1>3, <2>1, Prefix
<1>5. part \in Seq(Int) /\ Len(part) = at /\ \A i \in 1..at : part[i] = mem[i]
  <2>1. at \in 0..Len(mem)
    BY <1>1
  <2> QED BY <2>1, Prefix
<1> HIDE DEF left, part
<1>6. /\ right \in Seq(Int) /\ Len(right) = at + Len(bytes)
      /\ \A i \in 1..at + Len(bytes) : right[i] = IF i <= at THEN part[i] ELSE bytes[i - at]
  BY <1>5, ConcatProperties
<1> HIDE DEF right
<1>7. ASSUME NEW i \in 1..at + Len(bytes)
      PROVE  left[i] = right[i]
  <2>1. CASE i <= at
    <3>1. i - at \notin DOMAIN bytes /\ i \in 1..Len(mem) /\ i \in 1..at
      BY <1>1, <2>1
    <3>2. left[i] = mem[i]
      BY <1>3, <1>4, <3>1
    <3>3. right[i] = mem[i]
      BY <1>5, <1>6, <2>1, <3>1
    <3> QED BY <3>2, <3>3
  <2>2. CASE i > at
    <3>1. i - at \in DOMAIN bytes /\ i \in 1..Len(mem)
      BY <1>1, <2>2
    <3>2. left[i] = bytes[i - at]
      BY <1>3, <1>4, <3>1
    <3>3. right[i] = bytes[i - at] 
      <4>1. ~(i <= at)
        BY <2>2
      <4> QED BY <1>6, <4>1
    <3> QED BY <3>2, <3>3
  <2> QED BY <2>1, <2>2
<1>8. left = right
  BY <1>4, <1>6, <1>7, SeqEqual
<1> QED BY <1>3, <1>8 DEF left, right, part, new

-----------------------------------------------------------------------------
(* A step that changes one object                                          *)

View(b) == [bytes |-> Contents(b), pos |-> buf[b].pos]

LEMMA MemoryTypes ==
  ASSUME Sane, BufferInv, NEW b \in LiveBuffers
  PROVE  /\ buf[b] \in BufferObject /\ buf[b].inl \in Seq(Int) /\ Len(buf[b].inl) = Inline
         /\ buf[b].data \in Blocks \cup {InObject} /\ buf[b].cap \in Nat
         /\ buf[b].data # InObject => buf[b].data \in DOMAIN heap
         /\ buf[b].size \in Nat /\ buf[b].size <= buf[b].cap
         /\ buf[b].pos \in Nat /\ buf[b].pos <= buf[b].size
         /\ Memory(b) \in Seq(Int) /\ Len(Memory(b)) = buf[b].cap
         /\ Contents(b) \in Seq(Int) /\ Len(Contents(b)) = buf[b].size
<1>1. /\ buf[b] \in BufferObject /\ Fits(buf[b], heap)
      /\ buf[b].data # InObject => buf[b].data \in DOMAIN heap
  BY DEF BufferInv, BufferTypes, BlocksOwned
<1>2. /\ buf[b].inl \in Seq(Int) /\ Len(buf[b].inl) = Inline
      /\ buf[b].data \in Blocks \cup {InObject} /\ buf[b].cap \in Nat
      /\ buf[b].size \in Nat /\ buf[b].size <= buf[b].cap
      /\ buf[b].pos \in Nat /\ buf[b].pos <= buf[b].size
  BY <1>1 DEF BufferObject, Fits
<1>3. Memory(b) \in Seq(Int) /\ Len(Memory(b)) = buf[b].cap
  <2>1. CASE buf[b].data = InObject
    BY <1>1, <1>2, <2>1 DEF Memory, Fits
  <2>2. CASE buf[b].data # InObject
    <3>1. Memory(b) = heap[buf[b].data] /\ heap[buf[b].data] \in Seq(Int)
      BY <1>1, <2>2 DEF Memory, BufferInv, BufferTypes
    <3> QED BY <1>1, <2>2, <3>1 DEF Fits
  <2> QED BY <2>1, <2>2
<1>4. Contents(b) \in Seq(Int) /\ Len(Contents(b)) = buf[b].size
  <2>1. buf[b].size \in 0..Len(Memory(b))
    BY <1>2, <1>3
  <2> QED BY <1>3, <2>1, Prefix DEF Contents
<1> QED BY <1>1, <1>2, <1>3, <1>4

\* What an object that was not touched holds, as long as its block was not either.
LEMMA Untouched ==
  ASSUME Sane, BufferInv, NEW c \in LiveBuffers, c \in LiveBuffers', buf'[c] = buf[c],
         buf[c].data # InObject => /\ buf[c].data \in DOMAIN heap'
                                   /\ heap'[buf[c].data] = heap[buf[c].data]
  PROVE  Memory(c)' = Memory(c) /\ View(c)' = View(c) /\ Fits(buf'[c], heap')
<1>1. Memory(c)' = Memory(c)
  <2>1. buf[c].data # InObject => buf[c].data \in DOMAIN heap
    BY MemoryTypes
  <2> QED BY <2>1 DEF Memory
<1>2. View(c)' = View(c)
  BY <1>1 DEF View, Contents
<1>3. Fits(buf[c], heap)
  BY DEF BufferInv
<1>4. Fits(buf[c], heap')
  BY <1>3 DEF Fits
<1> QED BY <1>1, <1>2, <1>4

LEMMA OneChanges ==
  ASSUME Sane, BufferInv, NEW b, NEW v, SetBuf(b, v), Fits(v, heap'),
         heap' \in [DOMAIN heap' -> Seq(Int)],
         v.data \notin DOMAIN heap \ {Block(b)},
         DOMAIN heap' = (DOMAIN heap \ {Block(b)}) \cup ({v.data} \ {InObject}),
         \A k \in DOMAIN heap \ {Block(b)} : heap'[k] = heap[k]
  PROVE  BufferInv' /\ Held' = [c \in LiveBuffers \cup {b} |-> IF c = b THEN View(b)' ELSE Held[c]]
<1>1. /\ LiveBuffers' = LiveBuffers \cup {b} /\ buf'[b] = v
      /\ \A c \in LiveBuffers \ {b} : buf'[c] = buf[c]
  BY DEF SetBuf, LiveBuffers
<1>2. v \in BufferObject /\ v.data \in Blocks \cup {InObject}
  BY DEF Fits, BufferObject
<1>3. ASSUME NEW c \in LiveBuffers \ {b}
      PROVE  /\ buf[c].data # InObject => /\ buf[c].data \in DOMAIN heap \ {Block(b)}
                                          /\ buf[c].data # v.data
             /\ Fits(buf'[c], heap') /\ View(c)' = View(c)
  <2>1. buf[c].data # InObject => buf[c].data \in DOMAIN heap \ {Block(b)}
    BY DEF BufferInv, BlocksOwned, Block
  <2>2. buf[c].data # InObject => buf[c].data # v.data
    BY <2>1
  <2>3. buf[c].data # InObject => /\ buf[c].data \in DOMAIN heap'
                                  /\ heap'[buf[c].data] = heap[buf[c].data]
    BY <2>1
  <2> QED BY <1>1, <2>1, <2>2, <2>3, Untouched
<1>4. BufferTypes'
  <2>1. buf' \in [LiveBuffers' -> BufferObject]
    BY <1>1, <1>2 DEF SetBuf, LiveBuffers, BufferInv, BufferTypes
  <2>2. DOMAIN heap' \subseteq Blocks
    BY <1>2 DEF BufferInv, BufferTypes
  <2> QED BY <2>1, <2>2 DEF BufferTypes
<1>5. BlocksOwned'
  <2>1. \A c, d \in LiveBuffers' : c # d /\ buf'[c].data = buf'[d].data => buf'[c].data = InObject
    <3> SUFFICES ASSUME NEW c \in LiveBuffers', NEW d \in LiveBuffers', c # d,
                        buf'[c].data = buf'[d].data, buf'[c].data # InObject
                 PROVE  FALSE
      OBVIOUS
    <3>1. CASE c # b /\ d # b
      BY <1>1, <3>1 DEF BufferInv, BlocksOwned
    <3>2. CASE c = b
      BY <1>1, <1>3, <3>2
    <3>3. CASE d = b
      BY <1>1, <1>3, <3>3
    <3> QED BY <3>1, <3>2, <3>3
  <2>2. DOMAIN heap' = {buf'[c].data : c \in LiveBuffers'} \ {InObject}
    <3>1. \A c \in LiveBuffers' : buf'[c].data # InObject => buf'[c].data \in DOMAIN heap'
      BY <1>1, <1>3
    <3>2. \A k \in DOMAIN heap' : k # InObject /\ \E c \in LiveBuffers' : k = buf'[c].data
      <4> TAKE k \in DOMAIN heap'
      <4>1. CASE k = v.data
        BY <1>1, <4>1 DEF BufferInv, BufferTypes, Sane
      <4>2. CASE k # v.data
        <5>1. PICK c \in LiveBuffers : k = buf[c].data
          BY <4>2 DEF BufferInv, BlocksOwned
        <5>2. c # b
          BY <4>2, <5>1 DEF Block
        <5>3. c \in LiveBuffers' /\ buf'[c] = buf[c]
          BY <1>1, <5>2
        <5>4. k # InObject
          BY <4>2 DEF BufferInv, BufferTypes, Sane
        <5> QED BY <5>1, <5>3, <5>4
      <4> QED BY <4>1, <4>2
    <3> QED BY <3>1, <3>2
  <2> QED BY <2>1, <2>2 DEF BlocksOwned
<1>6. \A c \in LiveBuffers' : Fits(buf'[c], heap')
  BY <1>1, <1>3
<1>7. Held' = [c \in LiveBuffers \cup {b} |-> IF c = b THEN View(b)' ELSE Held[c]]
  <2>1. Held' = [c \in LiveBuffers' |-> View(c)'] /\ Held = [c \in LiveBuffers |-> View(c)]
    BY DEF Held, View
  <2> QED BY <1>1, <1>3, <2>1
<1> QED BY <1>4, <1>5, <1>6, <1>7 DEF BufferInv

\* The types of the heap and of what is in use of it.
LEMMA HeapTypes ==
  ASSUME Sane, BufferInv
  PROVE  /\ heap \in [DOMAIN heap -> Seq(Int)] /\ InObject \notin DOMAIN heap
         /\ \A b \in LiveBuffers : buf[b].data # InObject => buf[b].data \in DOMAIN heap
         /\ \A b, c \in LiveBuffers : b # c /\ buf[b].data = buf[c].data => buf[b].data = InObject
BY DEF BufferInv, BufferTypes, BlocksOwned, Sane

LEMMA ConstructStep ==
  ASSUME Sane, BufferInv, NEW b, ConstructBuffer(b)
  PROVE  BufferInv' /\ Promise!Construct(b)
<1>1. Fits(New, heap) /\ New.data = InObject /\ New.size = 0 /\ New.pos = 0
  <2>1. Fresh(Inline) \in Seq(Int) /\ Len(Fresh(Inline)) = Inline /\ Inline \in Nat
    BY FreshTypes DEF Sane
  <2> QED BY <2>1 DEF Fits, New, BufferObject
<1>2. /\ b \notin LiveBuffers /\ SetBuf(b, New) /\ heap' = heap /\ got' = got
      /\ Block(b) = InObject
  BY DEF ConstructBuffer, Block
<1>3. BufferInv' /\ Held' = [c \in LiveBuffers \cup {b} |-> IF c = b THEN View(b)' ELSE Held[c]]
  <2>1. /\ heap' \in [DOMAIN heap' -> Seq(Int)] /\ New.data \notin DOMAIN heap
        /\ DOMAIN heap' = (DOMAIN heap \ {Block(b)}) \cup ({New.data} \ {InObject})
        /\ \A k \in DOMAIN heap : heap'[k] = heap[k]
    BY <1>1, <1>2, HeapTypes
  <2>2. Fits(New, heap')
    BY <1>1, <1>2
  <2> QED BY <1>2, <2>1, <2>2, OneChanges
<1>4. View(b)' = Promise!Empty
  <2>1. buf'[b] = New
    BY <1>2 DEF SetBuf, LiveBuffers
  <2>2. Contents(b)' = <<>>
    BY <1>1, <2>1, SubSeqEmpty DEF Contents
  <2> QED BY <1>1, <2>1, <2>2 DEF View, Promise!Empty
<1> QED BY <1>2, <1>3, <1>4 DEF Promise!Construct, Promise!Set, Promise!Live, Held

\* A change of the numbers of an object alone.
LEMMA NumbersChange ==
  ASSUME Sane, BufferInv, NEW b \in LiveBuffers, NEW v, SetBuf(b, v), UNCHANGED heap,
         v.inl = buf[b].inl, v.data = buf[b].data, v.cap = buf[b].cap,
         v \in BufferObject, v.size <= v.cap, v.pos <= v.size
  PROVE  /\ BufferInv' /\ Held' = [c \in LiveBuffers \cup {b} |-> IF c = b THEN View(b)' ELSE Held[c]]
         /\ Memory(b)' = Memory(b) /\ buf'[b] = v
<1>1. Fits(v, heap)
  BY DEF Fits, BufferInv
<1>2. buf'[b] = v
  BY DEF SetBuf, LiveBuffers
<1>3. Memory(b)' = Memory(b)
  BY <1>2 DEF Memory
<1>4. v.data \notin DOMAIN heap \ {Block(b)} /\ heap \in [DOMAIN heap -> Seq(Int)]
      /\ DOMAIN heap = (DOMAIN heap \ {Block(b)}) \cup ({v.data} \ {InObject})
  BY HeapTypes DEF Block
<1>5. BufferInv' /\ Held' = [c \in LiveBuffers \cup {b} |-> IF c = b THEN View(b)' ELSE Held[c]]
  BY <1>1, <1>4, OneChanges
<1> QED BY <1>2, <1>3, <1>5

LEMMA ResetStep ==
  ASSUME Sane, BufferInv, NEW b, Reset(b)
  PROVE  BufferInv' /\ Promise!Reset(b)
<1> DEFINE v == [buf[b] EXCEPT !.size = 0, !.pos = 0]
<1>1. b \in LiveBuffers /\ SetBuf(b, v) /\ UNCHANGED <<heap, got>>
  BY DEF Reset
<1>2. /\ v.inl = buf[b].inl /\ v.data = buf[b].data /\ v.cap = buf[b].cap
      /\ v \in BufferObject /\ v.size = 0 /\ v.pos = 0 /\ v.cap \in Nat
  BY <1>1, MemoryTypes DEF BufferObject
<1> HIDE DEF v
<1>3. /\ BufferInv' /\ Held' = [c \in LiveBuffers \cup {b} |-> IF c = b THEN View(b)' ELSE Held[c]]
      /\ buf'[b] = v
  <2>1. v.size <= v.cap /\ v.pos <= v.size
    BY <1>2
  <2> QED BY <1>1, <1>2, <2>1, NumbersChange
<1>4. View(b)' = Promise!Empty
  <2>1. Contents(b)' = <<>>
    BY <1>2, <1>3, SubSeqEmpty DEF Contents
  <2> QED BY <1>2, <1>3, <2>1 DEF View, Promise!Empty
<1> QED BY <1>1, <1>3, <1>4 DEF Promise!Reset, Promise!Set, Promise!Live, Held

LEMMA RewindStep ==
  ASSUME Sane, BufferInv, NEW b, Rewind(b)
  PROVE  BufferInv' /\ Promise!Rewind(b)
<1> DEFINE v == [buf[b] EXCEPT !.pos = 0]
<1>1. b \in LiveBuffers /\ SetBuf(b, v) /\ UNCHANGED <<heap, got>>
  BY DEF Rewind
<1>2. /\ v.inl = buf[b].inl /\ v.data = buf[b].data /\ v.cap = buf[b].cap
      /\ v \in BufferObject /\ v.size = buf[b].size /\ v.pos = 0 /\ v.size \in Nat /\ v.size <= v.cap
  BY <1>1, MemoryTypes DEF BufferObject
<1> HIDE DEF v
<1>3. /\ BufferInv' /\ Held' = [c \in LiveBuffers \cup {b} |-> IF c = b THEN View(b)' ELSE Held[c]]
      /\ buf'[b] = v /\ Memory(b)' = Memory(b)
  <2>1. v.size <= v.cap /\ v.pos <= v.size /\ UNCHANGED heap
    BY <1>1, <1>2
  <2> QED BY <1>1, <1>2, <2>1, NumbersChange
<1>4. View(b)' = [Held[b] EXCEPT !.pos = 0]
  <2>1. Contents(b)' = Contents(b)
    BY <1>2, <1>3 DEF Contents
  <2> QED BY <1>1, <1>2, <1>3, <2>1 DEF View, Held
<1> QED BY <1>1, <1>3, <1>4 DEF Promise!Rewind, Promise!Set, Promise!Live, Held

LEMMA DestroyStep ==
  ASSUME Sane, BufferInv, NEW b, DestroyBuffer(b)
  PROVE  BufferInv' /\ Promise!Destroy(b)
<1>1. /\ b \in LiveBuffers /\ heap' = Freed(b)
      /\ buf' = [c \in LiveBuffers \ {b} |-> buf[c]] /\ got' = got
      /\ LiveBuffers' = LiveBuffers \ {b}
  BY DEF DestroyBuffer, LiveBuffers
<1>2. DOMAIN heap' = DOMAIN heap \ {buf[b].data} /\ \A k \in DOMAIN heap' : heap'[k] = heap[k]
  BY <1>1 DEF Freed
<1>3. ASSUME NEW c \in LiveBuffers'
      PROVE  Fits(buf'[c], heap') /\ View(c)' = View(c) /\ buf'[c] = buf[c]
             /\ (buf[c].data # InObject => buf[c].data \in DOMAIN heap')
  <2>1. c \in LiveBuffers /\ c # b /\ buf'[c] = buf[c]
    BY <1>1
  <2>2. buf[c].data # InObject => /\ buf[c].data \in DOMAIN heap'
                                  /\ heap'[buf[c].data] = heap[buf[c].data]
    BY <1>1, <1>2, <2>1, HeapTypes
  <2> QED BY <2>1, <2>2, Untouched
<1>4. BufferTypes'
  <2>1. buf' \in [LiveBuffers' -> BufferObject]
    BY <1>1 DEF BufferInv, BufferTypes
  <2>2. heap' \in [DOMAIN heap' -> Seq(Int)] /\ DOMAIN heap' \subseteq Blocks
    BY <1>1, <1>2 DEF Freed, BufferInv, BufferTypes
  <2> QED BY <2>1, <2>2 DEF BufferTypes
<1>5. BlocksOwned'
  <2>1. \A c, d \in LiveBuffers' : c # d /\ buf'[c].data = buf'[d].data => buf'[c].data = InObject
    BY <1>1, <1>3, HeapTypes
  <2>2. DOMAIN heap' = {buf'[c].data : c \in LiveBuffers'} \ {InObject}
    <3>1. \A c \in LiveBuffers' : buf'[c].data # InObject => buf'[c].data \in DOMAIN heap'
      BY <1>3
    <3>2. ASSUME NEW k \in DOMAIN heap'
          PROVE  k # InObject /\ \E c \in LiveBuffers' : k = buf'[c].data
      <4>1. PICK c \in LiveBuffers : k = buf[c].data
        BY <1>2 DEF BufferInv, BlocksOwned
      <4>2. c \in LiveBuffers' /\ buf'[c] = buf[c]
        BY <1>1, <1>2, <4>1
      <4> QED BY <1>2, <4>1, <4>2, HeapTypes
    <3> QED BY <3>1, <3>2
  <2> QED BY <2>1, <2>2 DEF BlocksOwned
<1>6. Held' = [c \in LiveBuffers \ {b} |-> Held[c]]
  <2>1. Held' = [c \in LiveBuffers' |-> View(c)'] /\ Held = [c \in LiveBuffers |-> View(c)]
    BY DEF Held, View
  <2> QED BY <1>1, <1>3, <2>1
<1>7. BufferInv'
  BY <1>3, <1>4, <1>5 DEF BufferInv
<1> QED BY <1>1, <1>6, <1>7 DEF Promise!Destroy, Promise!Remove, Promise!Live, Held

-----------------------------------------------------------------------------
(* Reading and writing                                                     *)

\* A part of the bytes in use is that part of the memory.
LEMMA Within ==
  ASSUME NEW s \in Seq(Int), NEW size \in 0..Len(s), NEW p \in Nat, NEW n \in Nat,
         p + n <= size
  PROVE  SubSeq(SubSeq(s, 1, size), p + 1, p + n) = SubSeq(s, p + 1, p + n)
<1> DEFINE t == SubSeq(s, 1, size)
           left == SubSeq(t, p + 1, p + n)
           right == SubSeq(s, p + 1, p + n)
<1>1. t \in Seq(Int) /\ Len(t) = size /\ \A i \in 1..size : t[i] = s[i]
  BY Prefix
<1>2. Len(s) \in Nat /\ size \in Nat /\ \A i \in 1..Len(s) : s[i] \in Int
  OBVIOUS
<1> HIDE DEF t
<1>3. \A i \in p + 1..p + n : t[i] \in Int /\ s[i] \in Int /\ t[i] = s[i]
  <2> SUFFICES ASSUME NEW i \in p + 1..p + n PROVE t[i] \in Int /\ s[i] \in Int /\ t[i] = s[i]
    OBVIOUS
  <2>1. i \in 1..size /\ i \in 1..Len(s)
    BY <1>2
  <2> QED BY <1>1, <1>2, <2>1
<1>4. /\ left \in Seq(Int) /\ Len(left) = IF p + 1 <= p + n THEN p + n - (p + 1) + 1 ELSE 0
      /\ \A i \in 1..p + n - (p + 1) + 1 : left[i] = t[p + 1 + i - 1]
  BY <1>3, SubSeqProperties
<1>5. /\ right \in Seq(Int) /\ Len(right) = IF p + 1 <= p + n THEN p + n - (p + 1) + 1 ELSE 0
      /\ \A i \in 1..p + n - (p + 1) + 1 : right[i] = s[p + 1 + i - 1]
  BY <1>3, SubSeqProperties
<1> HIDE DEF left, right
<1>6. \A i \in 1..Len(left) : left[i] = right[i]
  <2> SUFFICES ASSUME NEW i \in 1..Len(left) PROVE left[i] = right[i]
    OBVIOUS
  <2>1. i \in 1..p + n - (p + 1) + 1 /\ p + 1 + i - 1 \in p + 1..p + n
    BY <1>4
  <2>2. left[i] = t[p + 1 + i - 1] /\ right[i] = s[p + 1 + i - 1]
    BY <1>4, <1>5, <2>1
  <2> QED BY <1>3, <2>1, <2>2
<1>7. left = right
  BY <1>4, <1>5, <1>6, SeqEqual
<1> QED BY <1>7 DEF left, right, t

LEMMA ReadStep ==
  ASSUME Sane, BufferInv, NEW b, NEW n \in Lengths, ReadBytes(b, n)
  PROVE  BufferInv' /\ Promise!Read(b, n)
<1>1. b \in LiveBuffers /\ n \in Nat /\ heap' = heap
  BY DEF ReadBytes, Sane
<1>2. /\ buf[b].size \in Nat /\ buf[b].pos \in Nat
      /\ Held[b] = View(b) /\ Held[b].pos = buf[b].pos /\ Held[b].bytes = Contents(b)
      /\ Len(Held[b].bytes) = buf[b].size
  BY <1>1, MemoryTypes DEF Held, View
<1>3. CASE n <= buf[b].size /\ buf[b].pos <= buf[b].size - n
  <2> DEFINE v == [buf[b] EXCEPT !.pos = @ + n]
  <2>1. /\ got' = [ok |-> TRUE, bytes |-> SubSeq(Memory(b), buf[b].pos + 1, buf[b].pos + n)]
        /\ SetBuf(b, v)
    BY <1>1, <1>2, <1>3 DEF ReadBytes
  <2>2. /\ v.inl = buf[b].inl /\ v.data = buf[b].data /\ v.cap = buf[b].cap
        /\ v \in BufferObject /\ v.size = buf[b].size /\ v.pos = buf[b].pos + n
    <3>1. buf[b] \in BufferObject /\ buf[b].pos + n \in Nat
      BY <1>1, <1>2, MemoryTypes
    <3> QED BY <3>1 DEF BufferObject
  <2>3. v.size <= v.cap /\ v.pos <= v.size /\ buf[b].pos + n <= buf[b].size
    BY <1>1, <1>2, <1>3, <2>2, MemoryTypes
  <2> HIDE DEF v
  <2>4. /\ BufferInv' /\ Held' = [c \in LiveBuffers \cup {b} |-> IF c = b THEN View(b)' ELSE Held[c]]
        /\ buf'[b] = v /\ Memory(b)' = Memory(b)
    BY <1>1, <2>1, <2>2, <2>3, NumbersChange
  <2>5. View(b)' = [Held[b] EXCEPT !.pos = @ + n]
    <3>1. Contents(b)' = Contents(b)
      BY <2>2, <2>4 DEF Contents
    <3> QED BY <1>2, <2>2, <2>4, <3>1 DEF View
  <2>6. SubSeq(Memory(b), buf[b].pos + 1, buf[b].pos + n)
          = SubSeq(Held[b].bytes, Held[b].pos + 1, Held[b].pos + n)
    <3>1. Memory(b) \in Seq(Int) /\ buf[b].size \in 0..Len(Memory(b))
      BY <1>1, MemoryTypes
    <3> QED BY <1>1, <1>2, <2>3, <3>1, Within DEF Contents
  <2>7. Held[b].pos + n <= Len(Held[b].bytes)
    BY <1>2, <2>3
  <2>8. got' = [ok |-> TRUE, bytes |-> SubSeq(Held[b].bytes, Held[b].pos + 1, Held[b].pos + n)]
    BY <2>1, <2>6
  <2> QED BY <1>1, <2>4, <2>5, <2>7, <2>8 DEF Promise!Read, Promise!Set, Promise!Live, Held
<1>4. CASE n > buf[b].size \/ buf[b].pos > buf[b].size - n
  <2>1. got' = [ok |-> FALSE, bytes |-> <<>>] /\ buf' = buf
    BY <1>1, <1>2, <1>4 DEF ReadBytes
  <2>2. BufferInv' /\ Held' = Held
    BY <1>1, <2>1 DEF BufferInv, BufferTypes, BlocksOwned, Fits, LiveBuffers, Held, Contents, Memory
  <2>3. Held[b].pos + n > Len(Held[b].bytes)
    BY <1>1, <1>2, <1>4
  <2> QED BY <1>1, <2>1, <2>2, <2>3 DEF Promise!Read, Promise!Underflow, Promise!Live, Held
<1> QED BY <1>1, <1>3, <1>4 DEF ReadBytes

LEMMA OnlyRecord ==
  ASSUME NEW x, NEW y, NEW r \in [bytes : {x}, pos : {y}]
  PROVE  r = [bytes |-> x, pos |-> y]
OBVIOUS

\* Whatever memory they are in, the bytes written come after those there are.
LEMMA Appended ==
  ASSUME Sane, BufferInv, NEW b \in LiveBuffers, NEW bytes, NEW v, buf'[b] = v, UNCHANGED got,
         v.size = buf[b].size + Len(bytes), v.pos = buf[b].pos,
         SubSeq(Memory(b)', 1, v.size) = Contents(b) \o bytes,
         Held' = [c \in LiveBuffers \cup {b} |-> IF c = b THEN View(b)' ELSE Held[c]]
  PROVE  Promise!Write(b, bytes)
<1>1. View(b)' = [Held[b] EXCEPT !.bytes = @ \o bytes]
  <2>1. Contents(b)' = Contents(b) \o bytes
    BY DEF Contents
  <2> PICK old : old = Held[b]
    OBVIOUS
  <2> PICK more : more = old.bytes \o bytes
    OBVIOUS
  <2> PICK pos : pos = buf[b].pos
    OBVIOUS
  <2> PICK content : content = Contents(b)
    OBVIOUS
  <2>2. old = [bytes |-> content, pos |-> pos] /\ more = content \o bytes
    BY DEF Held
  <2>3. View(b)' = [bytes |-> more, pos |-> pos]
    BY <2>1, <2>2 DEF View
  <2>4. [old EXCEPT !.bytes = more] = [bytes |-> more, pos |-> pos]
    <3>1. old \in [bytes : {content}, pos : {pos}]
      BY <2>2
    <3>2. [old EXCEPT !.bytes = more] \in [bytes : {more}, pos : {pos}]
      BY <3>1
    <3> QED BY ONLY <3>2, OnlyRecord
  <2> QED BY <2>3, <2>4
<1> QED BY <1>1 DEF Promise!Write, Promise!Set, Promise!Live, Held

LEMMA WriteStep ==
  ASSUME Sane, BufferInv, NEW b, NEW bytes \in Writes, WriteBytes(b, bytes)
  PROVE  BufferInv' /\ Promise!Write(b, bytes)
<1> PICK size : size = buf[b].size + Len(bytes)
  OBVIOUS
<1> DEFINE longer == [buf[b] EXCEPT !.size = size]
<1>1. b \in LiveBuffers /\ bytes \in Seq(Int) /\ Len(bytes) \in Nat /\ got' = got /\ size \in Nat
  <2>1. b \in LiveBuffers /\ got' = got
    BY DEF WriteBytes
  <2>2. bytes \in Seq(Int) /\ Len(bytes) \in Nat
    BY DEF Sane
  <2>3. buf[b].size \in Nat
    BY <2>1, MemoryTypes
  <2> QED BY <2>1, <2>2, <2>3
<1>2. /\ longer \in BufferObject /\ longer.inl = buf[b].inl /\ longer.data = buf[b].data
      /\ longer.cap = buf[b].cap /\ longer.size = size /\ longer.pos = buf[b].pos
      /\ longer.pos <= size
  <2>1. buf[b] \in BufferObject /\ buf[b].pos <= size
    BY <1>1, MemoryTypes
  <2> QED BY <1>1, <2>1 DEF BufferObject
<1>3. CASE /\ size <= buf[b].cap /\ buf[b].data = InObject
           /\ SetBuf(b, [longer EXCEPT !.inl = Overlay(@, buf[b].size, bytes)])
           /\ UNCHANGED heap
  <2> DEFINE mem == Overlay(buf[b].inl, buf[b].size, bytes)
             v == [longer EXCEPT !.inl = mem]
  <2>1. /\ mem \in Seq(Int) /\ Len(mem) = Inline
        /\ SubSeq(mem, 1, size) = SubSeq(buf[b].inl, 1, buf[b].size) \o bytes
    <3>1. buf[b].cap = Inline
      BY <1>1, <1>3 DEF BufferInv, Fits
    <3>2. /\ buf[b].inl \in Seq(Int) /\ Len(buf[b].inl) = Inline /\ buf[b].size \in Nat
          /\ buf[b].size + Len(bytes) <= Inline
      BY <1>1, <1>3, <3>1, MemoryTypes
    <3> QED BY <1>1, <3>2, OverlayTypes
  <2> HIDE DEF mem
  <2>2. /\ v \in BufferObject /\ v.inl = mem /\ v.data = InObject /\ v.cap = buf[b].cap
        /\ v.size = size /\ v.pos = buf[b].pos
    <3> HIDE DEF longer
    <3> QED BY <1>2, <1>3, <2>1 DEF BufferObject
  <2>3. SetBuf(b, v)
    BY <1>2, <1>3 DEF mem
  <2> HIDE DEF v, longer
  <2>4. buf'[b] = v
    BY <2>3 DEF SetBuf
  <2>5. Fits(v, heap')
    <3>1. buf[b].cap = Inline
      BY <1>1, <1>3 DEF BufferInv, Fits
    <3> QED BY <1>2, <1>3, <2>1, <2>2, <3>1 DEF Fits
  <2>6. BufferInv' /\ Held' = [c \in LiveBuffers \cup {b} |-> IF c = b THEN View(b)' ELSE Held[c]]
    <3>1. /\ heap' \in [DOMAIN heap' -> Seq(Int)] /\ v.data \notin DOMAIN heap \ {Block(b)}
          /\ DOMAIN heap' = (DOMAIN heap \ {Block(b)}) \cup ({v.data} \ {InObject})
          /\ \A k \in DOMAIN heap \ {Block(b)} : heap'[k] = heap[k]
      BY <1>1, <1>3, <2>2, HeapTypes DEF Block
    <3> QED BY <2>3, <2>5, <3>1, OneChanges
  <2>7. SubSeq(Memory(b)', 1, v.size) = Contents(b) \o bytes
    <3>1. Memory(b)' = mem
      BY <2>2, <2>4 DEF Memory
    <3>2. Contents(b) = SubSeq(buf[b].inl, 1, buf[b].size)
      BY <1>3 DEF Contents, Memory
    <3> QED BY <2>1, <2>2, <3>1, <3>2
  <2> QED BY <1>1, <2>2, <2>4, <2>6, <2>7, Appended
<1>4. CASE /\ size <= buf[b].cap /\ buf[b].data # InObject
           /\ SetBuf(b, longer)
           /\ heap' = [k \in DOMAIN heap |-> IF k # buf[b].data THEN heap[k]
                                             ELSE Overlay(heap[k], buf[b].size, bytes)]
  <2> HIDE DEF longer
  <2> DEFINE mem == Overlay(heap[buf[b].data], buf[b].size, bytes)
  <2>1. /\ buf[b].data \in DOMAIN heap /\ Memory(b) = heap[buf[b].data]
        /\ Memory(b) \in Seq(Int) /\ Len(Memory(b)) = buf[b].cap /\ buf[b].size \in Nat
    <3>1. buf[b].data \in DOMAIN heap
      BY <1>1, <1>4, MemoryTypes
    <3> QED BY <1>1, <1>4, <3>1, MemoryTypes DEF Memory
  <2>2. /\ mem \in Seq(Int) /\ Len(mem) = buf[b].cap
        /\ SubSeq(mem, 1, size) = Contents(b) \o bytes
    <3>1. /\ heap[buf[b].data] \in Seq(Int) /\ Len(heap[buf[b].data]) = buf[b].cap
          /\ buf[b].size + Len(bytes) <= buf[b].cap
      BY <1>4, <2>1
    <3>2. Contents(b) = SubSeq(heap[buf[b].data], 1, buf[b].size)
      BY <2>1 DEF Contents
    <3> DEFINE was == heap[buf[b].data]
               at == buf[b].size
    <3> HIDE DEF mem, was, at
    <3>3. was \in Seq(Int) /\ at \in Nat /\ at + Len(bytes) <= Len(was)
      BY <2>1, <3>1 DEF was, at
    <3>4. /\ Overlay(was, at, bytes) \in Seq(Int) /\ Len(Overlay(was, at, bytes)) = Len(was)
          /\ SubSeq(Overlay(was, at, bytes), 1, at + Len(bytes)) = SubSeq(was, 1, at) \o bytes
      BY <1>1, <3>3, OverlayTypes
    <3> QED BY <3>1, <3>2, <3>4 DEF mem, was, at
  <2> HIDE DEF mem
  <2>3. /\ DOMAIN heap' = DOMAIN heap /\ heap'[buf[b].data] = mem
        /\ \A k \in DOMAIN heap \ {buf[b].data} : heap'[k] = heap[k]
        /\ heap' \in [DOMAIN heap' -> Seq(Int)]
    <3>1. heap' = [k \in DOMAIN heap |-> IF k # buf[b].data THEN heap[k] ELSE mem]
      BY <1>4 DEF mem
    <3> QED BY <2>1, <2>2, <3>1, HeapTypes
  <2>4. buf'[b] = longer
    BY <1>4 DEF SetBuf
  <2>5. Fits(longer, heap')
    <3>1. Len(longer.inl) = Inline
      BY <1>1, <1>2, MemoryTypes
    <3> QED BY <1>2, <1>4, <2>2, <2>3, <3>1 DEF Fits
  <2>6. BufferInv' /\ Held' = [c \in LiveBuffers \cup {b} |-> IF c = b THEN View(b)' ELSE Held[c]]
    <3>1. Block(b) = buf[b].data
      BY <1>1 DEF Block
    <3>2. /\ longer.data \notin DOMAIN heap \ {Block(b)}
          /\ DOMAIN heap' = (DOMAIN heap \ {Block(b)}) \cup ({longer.data} \ {InObject})
          /\ \A k \in DOMAIN heap \ {Block(b)} : heap'[k] = heap[k]
      BY <1>2, <1>4, <2>1, <2>3, <3>1
    <3>3. SetBuf(b, longer) /\ heap' \in [DOMAIN heap' -> Seq(Int)]
      BY <1>4, <2>3
    <3> QED BY <2>5, <3>2, <3>3, OneChanges
  <2>7. SubSeq(Memory(b)', 1, longer.size) = Contents(b) \o bytes
    <3>1. Memory(b)' = mem
      BY <1>2, <1>4, <2>1, <2>3, <2>4 DEF Memory
    <3> QED BY <1>2, <2>2, <3>1
  <2> QED BY <1>1, <1>2, <2>4, <2>6, <2>7, Appended
<1>5. ASSUME size > buf[b].cap, NEW k \in Blocks \ DOMAIN heap,
             NEW cap \in Doubled(buf[b].cap, size),
             SetBuf(b, [longer EXCEPT !.data = k, !.cap = cap]),
             heap' = [x \in DOMAIN Freed(b) \cup {k} |-> IF x # k THEN heap[x]
                        ELSE Overlay(Fresh(cap), 0, Contents(b) \o bytes)]
      PROVE  BufferInv' /\ Promise!Write(b, bytes)
  <2> DEFINE all == Contents(b) \o bytes
             mem == Overlay(Fresh(cap), 0, all)
             v == [longer EXCEPT !.data = k, !.cap = cap]
  <2> HIDE DEF longer
  <2>1. cap \in Nat /\ cap >= size
    BY <1>1 DEF Doubled
  <2>2. all \in Seq(Int) /\ Len(all) = size
    <3>1. Contents(b) \in Seq(Int) /\ Len(Contents(b)) = buf[b].size
      BY <1>1, MemoryTypes
    <3> QED BY <1>1, <3>1, ConcatProperties
  <2> HIDE DEF all
  <2>3. /\ mem \in Seq(Int) /\ Len(mem) = cap /\ SubSeq(mem, 1, size) = all
    <3> DEFINE f == Fresh(cap)
    <3>1. f \in Seq(Int) /\ Len(f) = cap
      BY <2>1, FreshTypes
    <3> HIDE DEF f
    <3>2. /\ Overlay(f, 0, all) \in Seq(Int) /\ Len(Overlay(f, 0, all)) = cap
          /\ SubSeq(Overlay(f, 0, all), 1, 0 + Len(all)) = SubSeq(f, 1, 0) \o all
      <4>1. 0 + Len(all) <= Len(f)
        BY <1>1, <2>1, <2>2, <3>1
      <4> QED BY <2>1, <2>2, <3>1, <4>1, OverlayTypes
    <3>3. SubSeq(f, 1, 0) = <<>> /\ <<>> \o all = all
      BY <2>2, SubSeqEmpty, ConcatEmptySeq
    <3> QED BY <1>1, <2>2, <3>2, <3>3 DEF f
  <2> HIDE DEF mem
  <2>4. /\ v \in BufferObject /\ v.inl = buf[b].inl /\ v.data = k /\ v.cap = cap /\ v.size = size
        /\ v.pos = buf[b].pos /\ k # InObject
    BY <1>2, <2>1 DEF BufferObject, Sane
  <2> HIDE DEF v
  <2>5. SetBuf(b, v) /\ buf'[b] = v
    BY <1>5 DEF SetBuf, v
  <2>6. /\ DOMAIN heap' = (DOMAIN heap \ {Block(b)}) \cup {k} /\ heap'[k] = mem
        /\ \A x \in DOMAIN heap \ {Block(b)} : heap'[x] = heap[x]
        /\ heap' \in [DOMAIN heap' -> Seq(Int)]
    <3>1. DOMAIN Freed(b) = DOMAIN heap \ {Block(b)}
      BY <1>1 DEF Freed, Block
    <3>2. heap' = [x \in (DOMAIN heap \ {Block(b)}) \cup {k} |-> IF x # k THEN heap[x] ELSE mem]
      BY <1>5, <3>1 DEF mem, all
    <3> QED BY <2>3, <3>2, HeapTypes
  <2>7. Fits(v, heap')
    <3>1. Len(v.inl) = Inline
      BY <1>1, <2>4, MemoryTypes
    <3>2. v.size <= v.cap /\ v.pos <= v.size
      BY <1>2, <2>1, <2>4
    <3> QED BY <2>3, <2>4, <2>6, <3>1, <3>2 DEF Fits
  <2>8. BufferInv' /\ Held' = [c \in LiveBuffers \cup {b} |-> IF c = b THEN View(b)' ELSE Held[c]]
    <3>1. v.data \notin DOMAIN heap \ {Block(b)} /\ {v.data} \ {InObject} = {k}
      BY <2>4
    <3>2. DOMAIN heap' = (DOMAIN heap \ {Block(b)}) \cup ({v.data} \ {InObject})
      BY <2>6, <3>1
    <3> QED BY <2>5, <2>6, <2>7, <3>1, <3>2, OneChanges
  <2>9. SubSeq(Memory(b)', 1, v.size) = Contents(b) \o bytes
    <3>1. Memory(b)' = mem
      BY <2>4, <2>5, <2>6 DEF Memory
    <3> QED BY <2>3, <2>4, <3>1 DEF all
  <2> QED BY <1>1, <2>4, <2>5, <2>8, <2>9, Appended
<1> QED
  <2>1. \/ /\ size <= buf[b].cap /\ buf[b].data = InObject
           /\ SetBuf(b, [longer EXCEPT !.inl = Overlay(@, buf[b].size, bytes)])
           /\ UNCHANGED heap
        \/ /\ size <= buf[b].cap /\ buf[b].data # InObject
           /\ SetBuf(b, longer)
           /\ heap' = [k \in DOMAIN heap |-> IF k # buf[b].data THEN heap[k]
                                             ELSE Overlay(heap[k], buf[b].size, bytes)]
        \/ /\ size > buf[b].cap
           /\ \E k \in Blocks \ DOMAIN heap, cap \in Doubled(buf[b].cap, size) :
                /\ SetBuf(b, [longer EXCEPT !.data = k, !.cap = cap])
                /\ heap' = [x \in DOMAIN Freed(b) \cup {k} |-> IF x # k THEN heap[x]
                              ELSE Overlay(Fresh(cap), 0, Contents(b) \o bytes)]
    BY DEF WriteBytes
  <2> QED BY <1>3, <1>4, <1>5, <2>1

-----------------------------------------------------------------------------
(* Moving                                                                  *)

LEMMA TakenTypes ==
  ASSUME Sane, BufferInv, NEW src \in LiveBuffers, NEW inl \in Seq(Int), Len(inl) = Inline
  PROVE  LET v == Taken(src, inl)
         IN /\ v \in BufferObject /\ Len(v.inl) = Inline /\ v.data = buf[src].data
            /\ v.cap = buf[src].cap /\ v.size = buf[src].size /\ v.pos = buf[src].pos
            /\ v.data = InObject => SubSeq(v.inl, 1, v.size) = Contents(src)
<1>1. /\ buf[src] \in BufferObject /\ Contents(src) \in Seq(Int) /\ Len(Contents(src)) = buf[src].size
      /\ Inline \in Nat /\ buf[src].size \in Nat
  BY MemoryTypes DEF Sane
<1>2. CASE buf[src].data = InObject
  <2> DEFINE mem == Overlay(inl, 0, Contents(src))
             v == [buf[src] EXCEPT !.inl = mem]
  <2>1. 0 + Len(Contents(src)) <= Len(inl)
    <3>1. buf[src].cap = Inline
      BY <1>2 DEF BufferInv, Fits
    <3> QED BY <1>1, <3>1, MemoryTypes
  <2>2. /\ mem \in Seq(Int) /\ Len(mem) = Inline
        /\ SubSeq(mem, 1, 0 + Len(Contents(src))) = SubSeq(inl, 1, 0) \o Contents(src)
    BY <1>1, <2>1, OverlayTypes
  <2>3. SubSeq(inl, 1, 0) = <<>> /\ <<>> \o Contents(src) = Contents(src)
    BY <1>1, SubSeqEmpty, ConcatEmptySeq
  <2>4. SubSeq(mem, 1, buf[src].size) = Contents(src)
    <3>1. 0 + Len(Contents(src)) = buf[src].size
      BY <1>1
    <3> HIDE DEF mem
    <3> QED BY <2>2, <2>3, <3>1
  <2> HIDE DEF mem
  <2>5. /\ v \in BufferObject /\ v.inl = mem /\ v.data = buf[src].data /\ v.cap = buf[src].cap
        /\ v.size = buf[src].size /\ v.pos = buf[src].pos
    BY <1>1, <2>2 DEF BufferObject
  <2>6. Taken(src, inl) = v
    BY <1>2 DEF Taken, mem
  <2> HIDE DEF v
  <2> QED BY <2>2, <2>4, <2>5, <2>6
<1>3. CASE buf[src].data # InObject
  <2> DEFINE v == [buf[src] EXCEPT !.inl = inl]
  <2>1. /\ v \in BufferObject /\ v.inl = inl /\ v.data = buf[src].data /\ v.cap = buf[src].cap
        /\ v.size = buf[src].size /\ v.pos = buf[src].pos
    BY <1>1 DEF BufferObject
  <2>2. Taken(src, inl) = v
    BY <1>3 DEF Taken
  <2> HIDE DEF v
  <2> QED BY <1>3, <2>1, <2>2
<1> QED BY <1>2, <1>3

LEMMA LeftTypes ==
  ASSUME Sane, BufferInv, NEW src \in LiveBuffers
  PROVE  LET v == Left(src)
         IN /\ v \in BufferObject /\ Len(v.inl) = Inline /\ v.data = InObject
            /\ v.cap = Inline /\ v.size = 0 /\ v.pos = 0
<1>1. /\ buf[src] \in BufferObject /\ Len(buf[src].inl) = Inline /\ Inline \in Nat
      /\ buf[src].data = InObject => buf[src].cap = Inline
  BY MemoryTypes DEF BufferInv, Fits, Sane
<1>2. PICK cap \in Nat : cap = Inline /\ cap = IF buf[src].data = InObject THEN buf[src].cap ELSE Inline
  BY <1>1
<1> DEFINE v == [buf[src] EXCEPT !.data = InObject, !.size = 0, !.pos = 0, !.cap = cap]
<1>3. Left(src) = v
  BY <1>2 DEF Left
<1>4. /\ v \in BufferObject /\ v.inl = buf[src].inl /\ v.data = InObject /\ v.cap = cap
      /\ v.size = 0 /\ v.pos = 0
  BY <1>1 DEF BufferObject
<1> HIDE DEF v
<1> QED BY <1>1, <1>2, <1>3, <1>4

LEMMA SameBlocks ==
  ASSUME \A c \in LiveBuffers' : buf'[c].data # InObject => buf'[c].data \in DOMAIN heap',
         \A k \in DOMAIN heap' : k # InObject /\ \E c \in LiveBuffers' : k = buf'[c].data
  PROVE  DOMAIN heap' = {buf'[c].data : c \in LiveBuffers'} \ {InObject}
OBVIOUS

LEMMA MoveStep ==
  ASSUME Sane, BufferInv, NEW dst, NEW src \in LiveBuffers, dst # src,
         NEW inl \in Seq(Int), Len(inl) = Inline,
         buf' = [c \in LiveBuffers \cup {dst} |-> CASE c = dst -> Taken(src, inl)
                                              [] c = src -> Left(src)
                                              [] OTHER   -> buf[c]],
         heap' = [k \in DOMAIN heap \ {Block(dst)} |-> heap[k]],
         got' = got
  PROVE  BufferInv' /\ Promise!Move(dst, src)
<1> PICK v : v = Taken(src, inl)
  OBVIOUS
<1> PICK w : w = Left(src)
  OBVIOUS
<1>1. /\ LiveBuffers' = LiveBuffers \cup {dst} /\ buf'[dst] = v /\ buf'[src] = w
      /\ \A c \in LiveBuffers : c # dst /\ c # src => buf'[c] = buf[c]
  BY DEF LiveBuffers
<1>2. /\ v \in BufferObject /\ Len(v.inl) = Inline /\ v.data = buf[src].data
      /\ v.cap = buf[src].cap /\ v.size = buf[src].size /\ v.pos = buf[src].pos
      /\ v.data = InObject => SubSeq(v.inl, 1, v.size) = Contents(src)
  BY TakenTypes
<1>3. /\ w \in BufferObject /\ Len(w.inl) = Inline /\ w.data = InObject
      /\ w.cap = Inline /\ w.size = 0 /\ w.pos = 0
  BY LeftTypes
<1>4. /\ DOMAIN heap' = DOMAIN heap \ {Block(dst)} /\ InObject \notin DOMAIN heap
      /\ \A k \in DOMAIN heap' : heap'[k] = heap[k]
      /\ heap' \in [DOMAIN heap' -> Seq(Int)] /\ DOMAIN heap' \subseteq Blocks
  BY HeapTypes DEF BufferInv, BufferTypes
<1>5. ASSUME NEW c \in LiveBuffers, c # dst, buf[c].data # InObject
      PROVE  /\ buf[c].data \in DOMAIN heap' /\ heap'[buf[c].data] = heap[buf[c].data]
  BY <1>4, <1>5, HeapTypes DEF Block
<1>6. ASSUME NEW c \in LiveBuffers, c # dst, c # src
      PROVE  c \in LiveBuffers' /\ buf'[c] = buf[c] /\ Fits(buf'[c], heap') /\ View(c)' = View(c)
  BY <1>1, <1>5, <1>6, Untouched
<1>7. Fits(v, heap') /\ Fits(w, heap')
  <2>1. Fits(buf[src], heap)
    BY DEF BufferInv
  <2>2. v.cap = IF v.data = InObject THEN Inline ELSE Len(heap'[v.data])
    BY <1>2, <1>5, <2>1 DEF Fits
  <2>3. v.size <= v.cap /\ v.pos <= v.size
    BY <1>2, <2>1 DEF Fits
  <2>4. Inline \in Nat
    BY DEF Sane
  <2> QED BY <1>2, <1>3, <2>2, <2>3, <2>4 DEF Fits
<1>8. View(dst)' = View(src) /\ View(src)' = Promise!Empty
  <2>1. Contents(dst)' = Contents(src)
    <3>1. CASE v.data = InObject
      BY <1>1, <1>2, <3>1 DEF Contents, Memory
    <3>2. CASE v.data # InObject
      <4>1. Memory(dst)' = heap[buf[src].data] /\ Memory(src) = heap[buf[src].data]
        BY <1>1, <1>2, <1>5, <3>2, HeapTypes DEF Memory
      <4> QED BY <1>1, <1>2, <4>1 DEF Contents
    <3> QED BY <3>1, <3>2
  <2>2. Contents(src)' = <<>>
    BY <1>1, <1>3, SubSeqEmpty DEF Contents
  <2> QED BY <1>1, <1>2, <1>3, <2>1, <2>2 DEF View, Promise!Empty
<1>9. \A c \in LiveBuffers' : Fits(buf'[c], heap')
  BY <1>1, <1>6, <1>7
<1>10. BufferTypes'
  <2>1. buf' \in [LiveBuffers' -> BufferObject]
    <3>1. \A c \in LiveBuffers' : buf'[c] \in BufferObject
      BY <1>9 DEF Fits
    <3> QED BY <3>1 DEF LiveBuffers
  <2> QED BY <1>4, <2>1 DEF BufferTypes
<1>11. BlocksOwned'
  <2>1. \A c \in LiveBuffers' : buf'[c].data # InObject => buf'[c].data \in DOMAIN heap'
    BY <1>1, <1>2, <1>3, <1>5
  <2>2. \A c, d \in LiveBuffers' : c # d /\ buf'[c].data = buf'[d].data => buf'[c].data = InObject
    <3> SUFFICES ASSUME NEW c \in LiveBuffers', NEW d \in LiveBuffers', c # d,
                        buf'[c].data = buf'[d].data, buf'[c].data # InObject
                 PROVE  FALSE
      OBVIOUS
    <3>1. c # src /\ d # src
      BY <1>1, <1>3
    <3>2. CASE c = dst
      <4>1. d \in LiveBuffers /\ d # src /\ buf[d].data = buf[src].data /\ buf[src].data # InObject
        BY <1>1, <1>2, <3>1, <3>2
      <4> QED BY <4>1, HeapTypes
    <3>3. CASE d = dst
      <4>1. c \in LiveBuffers /\ c # src /\ buf[c].data = buf[src].data /\ buf[src].data # InObject
        BY <1>1, <1>2, <3>1, <3>3
      <4> QED BY <4>1, HeapTypes
    <3>4. CASE c # dst /\ d # dst
      <4>1. /\ c \in LiveBuffers /\ d \in LiveBuffers
            /\ buf[c].data = buf[d].data /\ buf[c].data # InObject
        BY <1>1, <3>1, <3>4
      <4> QED BY <4>1, HeapTypes
    <3> QED BY <3>2, <3>3, <3>4
  <2>3. ASSUME NEW k \in DOMAIN heap'
        PROVE  k # InObject /\ \E c \in LiveBuffers' : k = buf'[c].data
    <3>1. PICK c \in LiveBuffers : k = buf[c].data
      BY <1>4 DEF BufferInv, BlocksOwned
    <3>2. c # dst /\ k # InObject
      BY <1>4, <3>1 DEF Block
    <3>3. CASE c = src
      BY <1>1, <1>2, <3>1, <3>2, <3>3
    <3>4. CASE c # src
      BY <1>1, <3>1, <3>2, <3>4
    <3> QED BY <3>2, <3>3, <3>4
  <2>4. DOMAIN heap' = {buf'[c].data : c \in LiveBuffers'} \ {InObject}
    <3>1. \A k \in DOMAIN heap' : k # InObject /\ \E c \in LiveBuffers' : k = buf'[c].data
      BY <2>3
    <3> QED BY <2>1, <3>1, SameBlocks
  <2> QED BY <2>2, <2>4 DEF BlocksOwned
<1>12. Promise!Move(dst, src)
  <2>1. Held' = [c \in LiveBuffers \cup {dst} |-> View(c)']
    BY <1>1 DEF Held, View
  <2>2. Held = [c \in LiveBuffers |-> View(c)]
    BY DEF Held, View
  <2>3. Held' = [c \in LiveBuffers \cup {dst} |-> CASE c = dst -> Held[src]
                                              [] c = src -> Promise!Empty
                                              [] OTHER   -> Held[c]]
    BY <1>6, <1>8, <2>1, <2>2
  <2> QED BY <2>2, <2>3 DEF Promise!Move, Promise!Live
<1> QED BY <1>9, <1>10, <1>11, <1>12 DEF BufferInv

LEMMA MoveConstructStep ==
  ASSUME Sane, BufferInv, NEW dst, NEW src, MoveConstruct(dst, src)
  PROVE  BufferInv' /\ Promise!Move(dst, src)
<1>1. dst \notin LiveBuffers /\ src \in LiveBuffers /\ heap' = heap /\ got' = got
  BY DEF MoveConstruct
<1>2. heap' = [k \in DOMAIN heap \ {Block(dst)} |-> heap[k]]
  <2>1. DOMAIN heap \ {Block(dst)} = DOMAIN heap
    BY <1>1, HeapTypes DEF Block
  <2> QED BY <1>1, <2>1, HeapTypes
<1> PICK inl : inl = Fresh(Inline)
  OBVIOUS
<1>3. inl \in Seq(Int) /\ Len(inl) = Inline
  BY FreshTypes DEF Sane
<1>4. buf' = [c \in LiveBuffers \cup {dst} |-> CASE c = dst -> Taken(src, inl)
                                           [] c = src -> Left(src)
                                           [] OTHER   -> buf[c]]
  BY DEF MoveConstruct
<1> QED BY <1>1, <1>2, <1>3, <1>4, MoveStep

LEMMA MoveAssignStep ==
  ASSUME Sane, BufferInv, NEW dst, NEW src, MoveAssign(dst, src)
  PROVE  BufferInv' /\ Promise!Move(dst, src)
<1>1. dst \in LiveBuffers /\ src \in LiveBuffers /\ dst # src /\ heap' = Freed(dst) /\ got' = got
  BY DEF MoveAssign
<1>2. heap' = [k \in DOMAIN heap \ {Block(dst)} |-> heap[k]]
  BY <1>1 DEF Freed, Block
<1> PICK inl : inl = buf[dst].inl
  OBVIOUS
<1>3. inl \in Seq(Int) /\ Len(inl) = Inline
  BY <1>1, MemoryTypes
<1>4. buf' = [c \in LiveBuffers \cup {dst} |-> CASE c = dst -> Taken(src, inl)
                                           [] c = src -> Left(src)
                                           [] OTHER   -> buf[c]]
  <2>1. buf' = [buf EXCEPT ![dst] = Taken(src, inl), ![src] = Left(src)]
    BY DEF MoveAssign
  <2>2. LiveBuffers \cup {dst} = DOMAIN buf
    BY <1>1 DEF LiveBuffers
  <2> QED BY <1>1, <2>1, <2>2
<1> QED BY <1>1, <1>2, <1>3, <1>4, MoveStep

-----------------------------------------------------------------------------
(* The theorems                                                            *)

LEMMA BufferStep ==
  ASSUME Sane, BufferInv, [BufferNext]_bufferVars
  PROVE  BufferInv' /\ [Promise!Next]_<<Held, got>>
<1>1. CASE UNCHANGED bufferVars
  BY <1>1 DEF bufferVars, BufferInv, BufferTypes, BlocksOwned, Fits, LiveBuffers, Held, Contents, Memory
<1>2. ASSUME NEW b \in Bufs, ConstructBuffer(b) \/ DestroyBuffer(b) \/ Reset(b) \/ Rewind(b)
      PROVE  BufferInv' /\ Promise!Next
  BY <1>2, ConstructStep, DestroyStep, ResetStep, RewindStep DEF Promise!Next
<1>3. ASSUME NEW b \in Bufs, NEW bytes \in Writes, WriteBytes(b, bytes)
      PROVE  BufferInv' /\ Promise!Next
  BY <1>3, WriteStep DEF Promise!Next
<1>4. ASSUME NEW b \in Bufs, NEW n \in Lengths, ReadBytes(b, n)
      PROVE  BufferInv' /\ Promise!Next
  BY <1>4, ReadStep DEF Promise!Next
<1>5. ASSUME NEW b \in Bufs, NEW c \in Bufs, MoveConstruct(b, c) \/ MoveAssign(b, c)
      PROVE  BufferInv' /\ Promise!Next
  BY <1>5, MoveConstructStep, MoveAssignStep DEF Promise!Next
<1> QED BY <1>1, <1>2, <1>3, <1>4, <1>5 DEF BufferNext

LEMMA InitInv ==
  ASSUME Sane, BufferInit
  PROVE  BufferInv /\ Promise!Init
<1>1. LiveBuffers = {} /\ DOMAIN heap = {} /\ got = Promise!Underflow
  BY DEF BufferInit, LiveBuffers, Promise!Underflow
<1>2. buf \in [LiveBuffers -> BufferObject] /\ heap \in [DOMAIN heap -> Seq(Int)]
  BY DEF BufferInit, LiveBuffers
<1>3. Held = [b \in {} |-> Promise!Empty]
  BY <1>1 DEF Held
<1> QED BY <1>1, <1>2, <1>3 DEF BufferInv, BufferTypes, BlocksOwned, Promise!Init

LEMMA Invariant ==
  ASSUME Sane
  PROVE  BufferSpec => []BufferInv
<1>1. BufferInit => BufferInv
  BY InitInv
<1>2. BufferInv /\ [BufferNext]_bufferVars => BufferInv'
  BY BufferStep
<1> QED BY <1>1, <1>2, PTL DEF BufferSpec

\* No heap block is leaked, freed twice or shared between two buffers, through
\* growth, moves and destruction.
THEOREM NoBlockLost ==
  ASSUME Sane
  PROVE  BufferSpec => []BlocksOwned
<1>1. BufferInv => BlocksOwned
  BY DEF BufferInv
<1> QED BY <1>1, Invariant, PTL

\* song::Buffer is the queue of bytes it promises to be: what is read is what was
\* written, in order, wherever the bytes are and however often they were moved.
THEOREM ImplementsQueue ==
  ASSUME Sane
  PROVE  BufferSpec => Implements
<1>1. BufferInit => Promise!Init
  BY InitInv
<1>2. BufferInv /\ [BufferNext]_bufferVars => [Promise!Next]_<<Held, got>>
  BY BufferStep
<1> QED BY <1>1, <1>2, Invariant, PTL DEF BufferSpec, Implements, Promise!Spec

-----------------------------------------------------------------------------
(* Descriptors                                                             *)

Record == [kind : ObjectKinds, fd : Descriptors \cup {None}, port : {0, 1}, done : BOOLEAN]

SocketTypes ==
  /\ \A o \in Live : object[o] \in Record
  /\ files \subseteq Descriptors

\* What an object says of its connection agrees with its descriptor.
Agrees(v) ==
  /\ v.kind \notin {"pipe", "tls"} => (v.port # 0 <=> v.fd # None)
  /\ v.done \/ v.port # 0 => v.fd # None

SocketsInv == SocketTypes /\ FdsOwned

\* What is open when the descriptor of o, if it has one, is closed.
Kept(o) == IF o \in Live THEN files \ {object[o].fd} ELSE files

-----------------------------------------------------------------------------
LEMMA BlankRecord ==
  ASSUME NEW kind \in ObjectKinds
  PROVE  Blank(kind) \in Record /\ Blank(kind).fd = None /\ Agrees(Blank(kind))
BY DEF Blank, Object, Record, Agrees, None

LEMMA SocketRecord ==
  ASSUME NEW kind \in ObjectKinds, NEW fd \in Descriptors, None \notin Descriptors
  PROVE  Socket(kind, fd) \in Record /\ Socket(kind, fd).fd = fd /\ Agrees(Socket(kind, fd))
BY DEF Socket, Object, Record, Agrees, None

\* One object changes: its descriptor is closed, kept or replaced by one that
\* nobody has.
LEMMA PutOwned ==
  ASSUME SocketsInv, None \notin Descriptors,
         NEW o, NEW v \in Record, Agrees(v), Put(o, v),
         v.fd \notin Kept(o),
         files' = (Kept(o) \cup {v.fd}) \ {None}
  PROVE  SocketsInv'
<1>1. /\ DOMAIN object' = Live \cup {o}
      /\ \A x \in Live \cup {o} : object'[x] = IF x = o THEN v ELSE object[x]
  BY DEF Put
<1>2. SocketTypes'
  <2>1. \A x \in Live' : object'[x] \in Record
    BY <1>1 DEF SocketsInv, SocketTypes, Live
  <2>2. files' \subseteq Descriptors
    BY DEF SocketsInv, SocketTypes, Kept, Record
  <2> QED BY <2>1, <2>2 DEF SocketTypes
<1>3. Kept(o) = {object[x].fd : x \in Live \ {o}} \ {None}
  BY DEF Kept, SocketsInv, FdsOwned
<1>4. files' = {object'[x].fd : x \in Live'} \ {None}
  <2>1. {object'[x].fd : x \in Live'} = {object[x].fd : x \in Live \ {o}} \cup {v.fd}
    BY <1>1 DEF Live
  <2> QED BY <1>3, <2>1
<1>5. ASSUME NEW x \in Live', NEW y \in Live', x # y, object'[x].fd = object'[y].fd
      PROVE  object'[x].fd = None
  <2>1. CASE x # o /\ y # o
    BY <2>1, <1>1, <1>5 DEF Live, SocketsInv, FdsOwned
  <2>2. CASE x = o \/ y = o
    <3>1. PICK z \in Live \ {o} : object[z].fd = v.fd /\ object'[x].fd = v.fd
      BY <2>2, <1>1, <1>5 DEF Live
    <3> QED BY <3>1, <1>3
  <2> QED BY <2>1, <2>2
<1>6. \A x \in Live' : Agrees(object'[x])
  BY <1>1 DEF Live, SocketsInv, FdsOwned, Agrees
<1> QED BY <1>2, <1>4, <1>5, <1>6 DEF SocketsInv, FdsOwned, Agrees

-----------------------------------------------------------------------------
(* One step for each action                                                *)

LEMMA CloseOwned ==
  ASSUME SocketsInv, None \notin Descriptors, NEW o, Close(o)
  PROVE  SocketsInv'
<1>1. object[o].kind \in ObjectKinds
  BY DEF Close, SocketsInv, SocketTypes, Record
<1>2. files' = (Kept(o) \cup {None}) \ {None} /\ None \notin Kept(o)
  BY DEF Close, Kept, SocketsInv, SocketTypes
<1> QED BY <1>1, <1>2, BlankRecord, PutOwned DEF Close

\* connect() and listen() close, then open or not.
LEMMA OpenOwned ==
  ASSUME SocketsInv, None \notin Descriptors, NEW o, Connect(o) \/ Listen(o)
  PROVE  SocketsInv'
<1> DEFINE kind == object[o].kind
<1>1. /\ o \in Live /\ kind \in ObjectKinds
      /\ \/ Put(o, Blank(kind)) /\ files' = Kept(o)
         \/ \E fd \in Descriptors \ Kept(o) :
              Put(o, Socket(kind, fd)) /\ files' = Kept(o) \cup {fd}
  BY DEF Connect, Listen, Holds, Kept, ObjectKinds
<1>2. None \notin Kept(o)
  BY DEF Kept, SocketsInv, SocketTypes
<1>3. CASE Put(o, Blank(kind)) /\ files' = Kept(o)
  BY <1>1, <1>2, <1>3, BlankRecord, PutOwned
<1>4. CASE \E fd \in Descriptors \ Kept(o) :
             Put(o, Socket(kind, fd)) /\ files' = Kept(o) \cup {fd}
  <2>1. PICK fd \in Descriptors \ Kept(o) : Put(o, Socket(kind, fd)) /\ files' = Kept(o) \cup {fd}
    BY <1>4
  <2>2. Socket(kind, fd) \in Record /\ Socket(kind, fd).fd = fd /\ Agrees(Socket(kind, fd))
    BY <1>1, SocketRecord
  <2>3. files' = (Kept(o) \cup {fd}) \ {None}
    BY <1>2, <2>1
  <2> QED BY <2>1, <2>2, <2>3, PutOwned
<1> QED BY <1>1, <1>3, <1>4

\* A new object takes a free descriptor.
LEMMA TakeOwned ==
  ASSUME SocketsInv, None \notin Descriptors, NEW o, o \notin Live,
         NEW fd \in Free, NEW v \in Record, v.fd = fd, Agrees(v), Put(o, v),
         files' = files \cup {fd}
  PROVE  SocketsInv'
<1>1. Kept(o) = files /\ fd \notin Kept(o) /\ files' = (Kept(o) \cup {fd}) \ {None}
  BY DEF Kept, Free, SocketsInv, SocketTypes
<1> QED BY <1>1, PutOwned

LEMMA CreateOwned ==
  ASSUME SocketsInv, None \notin Descriptors, NEW o,
         \/ \E kind \in ObjectKinds : Construct(o, kind)
         \/ \E l \in Objects : Accept(l, o) \/ TlsAccept(l, o)
         \/ TlsConstruct(o)
  PROVE  SocketsInv'
<1>1. CASE \E kind \in ObjectKinds : Construct(o, kind)
  <2>1. PICK kind \in ObjectKinds : Construct(o, kind)
    BY <1>1
  <2>2. files' = (Kept(o) \cup {None}) \ {None} /\ None \notin Kept(o)
    BY <2>1 DEF Construct, Kept, SocketsInv, SocketTypes
  <2> QED BY <2>1, <2>2, BlankRecord, PutOwned DEF Construct
<1>2. CASE TlsConstruct(o) \/ \E l \in Objects : Accept(l, o)
  <2>1. PICK fd \in Free, kind \in ObjectKinds :
          o \notin Live /\ Put(o, Socket(kind, fd)) /\ files' = files \cup {fd}
    BY <1>2 DEF TlsConstruct, Accept, ObjectKinds
  <2>2. fd \in Descriptors
    BY DEF Free
  <2> QED BY <2>1, <2>2, SocketRecord, TakeOwned
<1>3. CASE \E l \in Objects : TlsAccept(l, o)
  <2> DEFINE v(fd) == Object("tls", fd, 1, TRUE)
  <2>1. PICK fd \in Free : o \notin Live /\ Put(o, v(fd)) /\ files' = files \cup {fd}
    BY <1>3 DEF TlsAccept
  <2>2. v(fd) \in Record /\ v(fd).fd = fd /\ Agrees(v(fd))
    BY DEF Object, Record, Agrees, Free, None, ObjectKinds
  <2> HIDE DEF v
  <2> QED BY <2>1, <2>2, TakeOwned
<1> QED BY <1>1, <1>2, <1>3

LEMMA HandshakeOwned ==
  ASSUME SocketsInv, None \notin Descriptors, NEW o, Handshake(o)
  PROVE  SocketsInv'
<1>1. o \in Live /\ object[o] \in Record /\ Agrees(object[o]) /\ object[o].kind = "tls"
  BY DEF Handshake, Holds, SocketsInv, SocketTypes, FdsOwned, Agrees
<1>2. object[o].fd \in Descriptors /\ object[o].fd \in files
  BY <1>1 DEF Handshake, Agrees, Record, None, SocketsInv, FdsOwned
<1>3. files' = (Kept(o) \cup {object[o].fd}) \ {None} /\ object[o].fd \notin Kept(o)
  BY <1>1, <1>2 DEF Handshake, Kept, SocketsInv, SocketTypes
<1>4. PICK v \in Record : Put(o, v) /\ v.fd = object[o].fd /\ Agrees(v)
  <2>1. \A port \in {0, 1}, done \in BOOLEAN :
          LET v == Object("tls", object[o].fd, port, done)
          IN v \in Record /\ v.fd = object[o].fd /\ Agrees(v)
    BY <1>2 DEF Object, Record, Agrees, ObjectKinds, None
  <2>2. object[o].port \in {0, 1}
    BY <1>1 DEF Record
  <2> QED BY <2>1, <2>2 DEF Handshake
<1> QED BY <1>3, <1>4, PutOwned

LEMMA DestroyOwned ==
  ASSUME SocketsInv, None \notin Descriptors, NEW o, Destroy(o)
  PROVE  SocketsInv'
<1>1. /\ o \in Live /\ Live' = Live \ {o}
      /\ \A x \in Live' : object'[x] = object[x]
      /\ files' = files \ {object[o].fd}
  BY DEF Destroy, Gone, Live
<1>2. files' = {object'[x].fd : x \in Live'} \ {None}
  BY <1>1 DEF SocketsInv, FdsOwned
<1> QED BY <1>1, <1>2 DEF SocketsInv, SocketTypes, FdsOwned

LEMMA MoveOwned ==
  ASSUME SocketsInv, None \notin Descriptors, NEW dst, NEW src, Move(dst, src)
  PROVE  SocketsInv'
<1> DEFINE kind == object[src].kind
<1>1. /\ src \in Live /\ dst # src /\ Live' = Live \cup {dst}
      /\ \A x \in Live' : object'[x] = CASE x = dst -> object[src]
                                         [] x = src -> Blank(kind)
                                         [] OTHER   -> object[x]
      /\ files' = Kept(dst)
  BY DEF Move, Live, Kept
<1>2. Blank(kind) \in Record /\ Blank(kind).fd = None /\ Agrees(Blank(kind))
  BY <1>1, BlankRecord DEF SocketsInv, SocketTypes, Record
<1>3. /\ object'[dst] = object[src] /\ object'[src] = Blank(kind)
      /\ \A x \in Live' \ {dst, src} : x \in Live /\ object'[x] = object[x]
  BY <1>1
<1>4. SocketTypes'
  BY <1>1, <1>2, <1>3 DEF SocketsInv, SocketTypes, Kept
<1>5. files' = {object'[x].fd : x \in Live'} \ {None}
  <2>1. Kept(dst) = {object[x].fd : x \in Live \ {dst}} \ {None}
    BY DEF Kept, SocketsInv, FdsOwned
  <2>2. ASSUME NEW x \in Live \ {dst} PROVE \E y \in Live' : object'[y].fd = object[x].fd
    BY <1>1, <1>3
  <2>3. ASSUME NEW y \in Live', object'[y].fd # None
        PROVE  \E x \in Live \ {dst} : object[x].fd = object'[y].fd
    BY <1>1, <1>2, <1>3, <2>3
  <2> QED BY <1>1, <2>1, <2>2, <2>3
<1>6. ASSUME NEW x \in Live', NEW y \in Live', x # y, object'[x].fd = object'[y].fd
      PROVE  object'[x].fd = None
  BY <1>1, <1>2, <1>3, <1>6 DEF SocketsInv, FdsOwned
<1>7. \A x \in Live' : Agrees(object'[x])
  BY <1>1, <1>2, <1>3 DEF SocketsInv, FdsOwned, Agrees
<1> QED BY <1>4, <1>5, <1>6, <1>7 DEF SocketsInv, FdsOwned, Agrees

LEMMA CreatePairOwned ==
  ASSUME SocketsInv, None \notin Descriptors, NEW r, NEW w, CreatePair(r, w)
  PROVE  SocketsInv'
<1>1. PICK a \in Free, b \in Free :
        /\ a # b /\ r # w /\ r \notin Live /\ w \notin Live
        /\ object' = [x \in Live \cup {r, w} |->
                        CASE x = r -> PipeEnd(a)
                          [] x = w -> PipeEnd(b)
                          [] OTHER -> object[x]]
        /\ files' = files \cup {a, b}
  BY DEF CreatePair
<1> DEFINE v(fd) == PipeEnd(fd)
<1>2. \A fd \in Free : /\ v(fd) \in Record /\ v(fd).fd = fd /\ fd # None
                       /\ Agrees(v(fd)) /\ fd \notin files
  BY DEF PipeEnd, Object, Record, Agrees, ObjectKinds, None, Free
<1>3. /\ Live' = Live \cup {r, w}
      /\ object'[r] = v(a) /\ object'[w] = v(b)
      /\ \A x \in Live : object'[x] = object[x]
  BY <1>1 DEF Live
<1> HIDE DEF v
<1>4. SocketTypes'
  BY <1>1, <1>2, <1>3 DEF SocketsInv, SocketTypes, Free
<1>5. files' = {object'[x].fd : x \in Live'} \ {None}
  <2>1. {object'[x].fd : x \in Live'} = {object[x].fd : x \in Live} \cup {a, b}
    BY <1>2, <1>3
  <2> QED BY <1>1, <1>2, <2>1 DEF SocketsInv, FdsOwned
<1>6. ASSUME NEW x \in Live', NEW y \in Live', x # y, object'[x].fd = object'[y].fd
      PROVE  object'[x].fd = None
  BY <1>1, <1>2, <1>3, <1>6 DEF SocketsInv, FdsOwned
<1>7. \A x \in Live' : Agrees(object'[x])
  BY <1>2, <1>3 DEF SocketsInv, FdsOwned, Agrees
<1> QED BY <1>4, <1>5, <1>6, <1>7 DEF SocketsInv, FdsOwned, Agrees

-----------------------------------------------------------------------------
\* Pipe, TcpTransport, TcpListener, TlsTransport and TlsListener neither leak nor
\* share a descriptor and never close one twice, and is_connected, bound_port and
\* the handshake state agree with it, however many objects there are and in
\* whatever order they are moved, connected, accepted, closed and destroyed.  The
\* assumption is that the system numbers no file as the code numbers none.
THEOREM DescriptorsOwned ==
  ASSUME None \notin Descriptors
  PROVE  SocketsSpec => []FdsOwned
<1>1. SocketsInit => SocketsInv
  BY DEF SocketsInit, SocketsInv, SocketTypes, FdsOwned, Live
<1>2. SocketsInv /\ [SocketsNext]_socketVars => SocketsInv'
  <2> SUFFICES ASSUME SocketsInv, [SocketsNext]_socketVars PROVE SocketsInv'
    OBVIOUS
  <2>1. CASE UNCHANGED socketVars
    BY <2>1 DEF socketVars, SocketsInv, SocketTypes, FdsOwned, Live
  <2>2. CASE SocketsNext
    <3>1. PICK o \in Objects :
            \/ \E kind \in ObjectKinds : Construct(o, kind)
            \/ Close(o) \/ Destroy(o) \/ Connect(o) \/ Listen(o) \/ TlsConstruct(o) \/ Handshake(o)
            \/ \E p \in Objects : Move(o, p) \/ CreatePair(o, p) \/ Accept(p, o) \/ TlsAccept(p, o)
      BY <2>2 DEF SocketsNext
    <3> QED BY <3>1, CloseOwned, OpenOwned, CreateOwned, HandshakeOwned, DestroyOwned,
               MoveOwned, CreatePairOwned
  <2> QED BY <2>1, <2>2
<1>3. SocketsInv => FdsOwned
  BY DEF SocketsInv
<1> QED BY <1>1, <1>2, <1>3, PTL DEF SocketsSpec
=============================================================================
