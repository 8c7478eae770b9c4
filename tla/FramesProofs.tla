----------------------------- MODULE FramesProofs -----------------------------
(***************************************************************************)
(* Theorems about Frames: what a receiver accepts was sent, whole and in   *)
(* order, and a receiver with a key accepts only what a sender with it     *)
(* sent.                                                                   *)
(***************************************************************************)
EXTENDS Frames, SequenceTheorems, TLAPS

Keys == {l.sign : l \in Links}

\* The limit is a number.
Sane == MaxPayload \in Nat

\* The units of a message before it is signed, and of what is under way.
Bare == [id : Nat, part : Nat, size : Nat, encrypted : BOOLEAN, tag : {Unsigned}]
Piece == [id : Nat, part : Nat, size : Nat, encrypted : BOOLEAN,
          tag : {Unsigned} \cup (Keys \X Seq(Bare))]

TypeOK ==
  /\ link \in Links
  /\ out \in [link.senders -> Seq(Piece)]
  /\ stream \in Seq(Piece)
  /\ reader \in [at : {"idle", "payload", "closed"}, units : Seq(Piece), need : Nat]
  /\ sent \in Seq(Seq(Piece)) /\ delivered \in Seq(Seq(Piece))
  /\ overlapped \in BOOLEAN /\ lost \in BOOLEAN /\ refused \in BOOLEAN /\ open \in BOOLEAN

\* What was sent is frames, and what is under way is out of them.
Framed == \A id \in 1..Len(sent) : \E size \in Nat : sent[id] = Frame(id, size)

Sound(u) == /\ u.id \in 1..Len(sent) /\ u.part \in 1..Len(sent[u.id])
            /\ u = sent[u.id][u.part]
Sounds(units) == \A i \in 1..Len(units) : Sound(units[i])

Flows == Sounds(stream) /\ Sounds(reader.units) /\ \A s \in link.senders : Sounds(out[s])

\* What receive() has read and what it still wants.
Reads ==
  /\ reader.at = "idle" => Len(reader.units) + reader.need = HeaderUnits
  /\ reader.at = "payload" =>
       /\ Len(reader.units) >= HeaderUnits
       /\ IsHeader(reader.units) =>
            Len(reader.units) + reader.need = HeaderUnits + reader.units[1].size
  /\ reader.at = "closed" => reader.units = <<>>
  /\ reader.at # "closed" => reader.need > 0

\* What receive() returned under a key is a message that was signed with it.
Authentic ==
  link.check # NoKey =>
    \A k \in 1..Len(delivered) : \E id \in 1..Len(sent) :
      /\ link.sign = link.check
      /\ delivered[k][1].id = id
      /\ delivered[k] = Plain(id, Len(sent[id]) - HeaderUnits - 1)

Base == TypeOK /\ Framed /\ Flows /\ Reads /\ Authentic

\* One sender at a time: what it has still to write is the rest of the frame.
Busy == {s \in link.senders : out[s] # <<>>}
Lone == \A s, t \in Busy : s = t
Rest == IF Busy = {} THEN {<<>>} ELSE {out[s] : s \in Busy}

\* Read, on the stream, and to be written: all that is under way, in order.
Ways == {(reader.units \o stream) \o rest : rest \in Rest}

Last(u) == u.part = Len(sent[u.id])

\* The units under way are a stretch of what was sent: the units of one frame
\* follow each other, and the next frame follows the last of them.
Straight(way) ==
  /\ \A i, j \in 1..Len(way) : i <= j =>
       /\ way[i].id <= way[j].id
       /\ way[i].part + (j - i) <= Len(sent[way[i].id]) =>
            way[j].id = way[i].id /\ way[j].part = way[i].part + (j - i)
  /\ \A i, j \in 1..Len(way) : j = i + 1 /\ Last(way[i]) =>
       way[j].id = way[i].id + 1 /\ way[j].part = 1

\* It goes to the end of what was sent, unless the sender is gone.
Complete(way) == open /\ way # <<>> => way[Len(way)].id = Len(sent) /\ Last(way[Len(way)])

\* What was accepted came before it.
Ahead(way) == \A k \in Accepted, i \in 1..Len(way) : delivered[k][1].id < way[i].id

\* Nothing is missing unless a receive gave up, or refused a frame.
Gapless(way) ==
  /\ ~lost /\ way # <<>> => way[1].part = 1 /\ (~refused => way[1].id = Len(delivered) + 1)
  /\ ~lost /\ ~refused /\ open /\ way = <<>> => Len(delivered) = Len(sent)

Lane(way) == Straight(way) /\ Complete(way) /\ Ahead(way) /\ Gapless(way)
Lanes == \A way \in Ways : Lane(way)

\* What was accepted.
Arrived ==
  /\ \A k \in Accepted : /\ delivered[k][1].id \in 1..Len(sent)
                         /\ delivered[k] = Expected(delivered[k][1].id)
  /\ \A k, m \in Accepted : k < m => delivered[k][1].id < delivered[m][1].id
  /\ ~lost /\ ~refused => /\ Len(delivered) <= Len(sent)
                          /\ \A i \in 1..Len(delivered) : delivered[i] = Expected(i)
  /\ lost /\ open /\ link.kind = "tcp" =>
       \E i \in 1..Len(sent) : Len(sent[i]) > HeaderUnits + MaxPayload

\* One key at both ends of a transport that leaves the header alone.
Agreed == link.sign = link.check /\ link.kind # "tls" /\ ~lost => ~refused

InOrder == ~overlapped => Lone /\ Lanes /\ Arrived /\ Agreed

Inv == Base /\ InOrder

-----------------------------------------------------------------------------
(* Frames                                                                  *)

USE DEF HeaderUnits

\* Message id with size units of payload, unsigned.
IsPlain(p, id, size) ==
  /\ p \in Seq(Bare) /\ p \in Seq(Piece) /\ Len(p) = HeaderUnits + size
  /\ \A i \in 1..Len(p) :
       /\ p[i].id = id /\ p[i].part = i /\ p[i].tag = Unsigned
       /\ i <= HeaderUnits => p[i].size = size

LEMMA PlainIs ==
  ASSUME NEW id \in Nat, NEW size \in Nat
  PROVE  IsPlain(Plain(id, size), id, size)
<1> DEFINE n == HeaderUnits + size
           at(i) == [id |-> id, part |-> i, size |-> IF i <= HeaderUnits THEN size ELSE 0,
                     encrypted |-> FALSE, tag |-> Unsigned]
<1>1. Plain(id, size) = [i \in 1..n |-> at(i)]
  BY DEF Plain, Unit
<1>2. n \in Nat
  OBVIOUS
<1>3. ASSUME NEW i \in 1..n PROVE at(i) \in Bare /\ at(i) \in Piece
  BY <1>2 DEF Bare, Piece
<1>4. ASSUME NEW i \in 1..n
      PROVE  /\ at(i).id = id /\ at(i).part = i
             /\ i <= HeaderUnits => at(i).size = size
             /\ at(i).tag = Unsigned
  OBVIOUS
<1> HIDE DEF n, at
<1>5. /\ Plain(id, size) \in Seq(Bare) /\ Plain(id, size) \in Seq(Piece)
      /\ Len(Plain(id, size)) = n /\ \A i \in 1..n : Plain(id, size)[i] = at(i)
  BY <1>1, <1>2, <1>3
<1>6. \A i \in 1..n : /\ Plain(id, size)[i].id = id /\ Plain(id, size)[i].part = i
                      /\ i <= HeaderUnits => Plain(id, size)[i].size = size
                      /\ Plain(id, size)[i].tag = Unsigned
  BY <1>4, <1>5
<1>7. QED
  BY <1>5, <1>6 DEF n, IsPlain

\* Units with another size in the header are what they were otherwise.
LEMMA ResizedIs ==
  ASSUME NEW units \in Seq(Piece), NEW size \in Nat
  PROVE  /\ Resized(units, size) \in Seq(Piece) /\ Len(Resized(units, size)) = Len(units)
         /\ \A i \in 1..Len(units) :
              /\ Resized(units, size)[i].id = units[i].id
              /\ Resized(units, size)[i].part = units[i].part
              /\ Resized(units, size)[i].tag = units[i].tag
              /\ Resized(units, size)[i].encrypted = units[i].encrypted
              /\ Resized(units, size)[i].size = IF i <= HeaderUnits THEN size ELSE units[i].size
<1> DEFINE at(i) == IF i <= HeaderUnits THEN [units[i] EXCEPT !.size = size] ELSE units[i]
<1>1. Resized(units, size) = [i \in 1..Len(units) |-> at(i)]
  BY DEF Resized
<1>2. ASSUME NEW i \in 1..Len(units)
      PROVE  /\ at(i) \in Piece /\ at(i).id = units[i].id /\ at(i).part = units[i].part
             /\ at(i).tag = units[i].tag /\ at(i).encrypted = units[i].encrypted
             /\ at(i).size = IF i <= HeaderUnits THEN size ELSE units[i].size
  <2>1. units[i] \in Piece
    OBVIOUS
  <2>2. QED
    BY <2>1 DEF Piece
<1> HIDE DEF at
<1>3. /\ Resized(units, size) \in Seq(Piece) /\ Len(Resized(units, size)) = Len(units)
      /\ \A i \in 1..Len(units) : Resized(units, size)[i] = at(i)
  BY <1>1, <1>2
<1>4. QED
  BY <1>2, <1>3

\* A message resized, and resized back, is the message.
LEMMA ResizedBack ==
  ASSUME NEW id \in Nat, NEW size \in Nat, NEW other \in Nat
  PROVE  Resized(Resized(Plain(id, size), other), size) = Plain(id, size)
<1> DEFINE p == Plain(id, size)
           q == Resized(Resized(p, other), size)
<1>1. /\ p \in Seq(Piece) /\ Len(p) = HeaderUnits + size
      /\ \A i \in 1..Len(p) : i <= HeaderUnits => p[i].size = size
  <2>1. IsPlain(p, id, size)
    BY PlainIs
  <2> HIDE DEF p
  <2>2. QED
    BY <2>1 DEF IsPlain
<1> HIDE DEF p
<1>2. /\ Resized(p, other) \in Seq(Piece) /\ Len(Resized(p, other)) = Len(p)
      /\ \A i \in 1..Len(p) :
           /\ Resized(p, other)[i].id = p[i].id /\ Resized(p, other)[i].part = p[i].part
           /\ Resized(p, other)[i].tag = p[i].tag
           /\ Resized(p, other)[i].encrypted = p[i].encrypted
           /\ i > HeaderUnits => Resized(p, other)[i].size = p[i].size
  BY <1>1, ResizedIs
<1>3. PICK r : r = Resized(p, other)
  OBVIOUS
<1>4. /\ q \in Seq(Piece) /\ Len(q) = Len(r)
      /\ \A i \in 1..Len(r) :
           /\ q[i].id = r[i].id /\ q[i].part = r[i].part /\ q[i].tag = r[i].tag
           /\ q[i].encrypted = r[i].encrypted
           /\ q[i].size = IF i <= HeaderUnits THEN size ELSE r[i].size
  BY <1>2, <1>3, ResizedIs
<1> HIDE DEF q
<1>5. ASSUME NEW i \in 1..Len(p) PROVE q[i] = p[i]
  <2>1. q[i] \in Piece /\ p[i] \in Piece
    BY <1>1, <1>2, <1>3, <1>4
  <2>2. /\ q[i].id = p[i].id /\ q[i].part = p[i].part /\ q[i].tag = p[i].tag
        /\ q[i].encrypted = p[i].encrypted
    BY <1>2, <1>3, <1>4
  <2>3. q[i].size = p[i].size
    BY <1>1, <1>2, <1>3, <1>4
  <2>4. QED
    BY <2>1, <2>2, <2>3 DEF Piece
<1>6. q = p
  BY <1>1, <1>2, <1>3, <1>4, <1>5, SeqEqual
<1>7. QED
  BY <1>6 DEF p, q

LEMMA StampedIs ==
  ASSUME NEW units \in Seq(Piece)
  PROVE  /\ Stamped(units) \in Seq(Piece) /\ Len(Stamped(units)) = Len(units)
         /\ \A i \in 1..Len(units) :
              /\ Stamped(units)[i].id = units[i].id /\ Stamped(units)[i].part = units[i].part
              /\ Stamped(units)[i].tag = units[i].tag /\ Stamped(units)[i].size = units[i].size
<1> DEFINE at(i) == IF i <= HeaderUnits THEN [units[i] EXCEPT !.encrypted = TRUE] ELSE units[i]
<1>1. Stamped(units) = [i \in 1..Len(units) |-> at(i)]
  BY DEF Stamped
<1>2. ASSUME NEW i \in 1..Len(units)
      PROVE  /\ at(i) \in Piece /\ at(i).id = units[i].id /\ at(i).part = units[i].part
             /\ at(i).tag = units[i].tag /\ at(i).size = units[i].size
  <2>1. units[i] \in Piece
    OBVIOUS
  <2>2. QED
    BY <2>1 DEF Piece
<1> HIDE DEF at
<1>3. /\ Stamped(units) \in Seq(Piece) /\ Len(Stamped(units)) = Len(units)
      /\ \A i \in 1..Len(units) : Stamped(units)[i] = at(i)
  BY <1>1, <1>2
<1>4. QED
  BY <1>2, <1>3

\* A tag is not the mark of a unit that has none.
LEMMA TagIs ==
  ASSUME NEW key, NEW units
  PROVE  <<key, units>> # Unsigned
BY DEF Unsigned

\* A signed message: the header counts the tag, which is over the message.
IsSigned(f, key, id, size) ==
  /\ f \in Seq(Piece) /\ Len(f) = HeaderUnits + size + 1
  /\ SubSeq(f, 1, Len(f) - 1) = Resized(Plain(id, size), size + 1)
  /\ f[Len(f)].tag = <<key, Plain(id, size)>>
  /\ \A i \in 1..Len(f) :
       /\ f[i].id = id /\ f[i].part = i
       /\ i <= HeaderUnits => f[i].size = size + 1
       /\ i < Len(f) => f[i].tag = Unsigned

LEMMA SecuredIs ==
  ASSUME NEW id \in Nat, NEW size \in Nat, NEW key \in Keys
  PROVE  IsSigned(Secured(Plain(id, size), key), key, id, size)
<1> DEFINE p == Plain(id, size)
           r == Resized(p, size + 1)
           u == Unit(p[1].id, Len(p) + 1, 0, FALSE, <<key, p>>)
           f == Append(r, u)
<1>1. /\ p \in Seq(Bare) /\ p \in Seq(Piece) /\ Len(p) = HeaderUnits + size
      /\ \A i \in 1..Len(p) : p[i].id = id /\ p[i].part = i /\ p[i].tag = Unsigned
  <2>1. IsPlain(p, id, size)
    BY PlainIs
  <2> HIDE DEF p
  <2>2. QED
    BY <2>1 DEF IsPlain
<1>2. p[1].id = id /\ Len(p) - HeaderUnits + 1 = size + 1 /\ Len(p) \in Nat /\ size + 1 \in Nat
  BY <1>1
<1>3. Secured(p, key) = f
  BY <1>2 DEF Secured
<1> HIDE DEF p
<1>4. /\ r \in Seq(Piece) /\ Len(r) = Len(p)
      /\ \A i \in 1..Len(p) : /\ r[i].id = id /\ r[i].part = i /\ r[i].tag = Unsigned
                              /\ i <= HeaderUnits => r[i].size = size + 1
  <2>1. p \in Seq(Piece) /\ size + 1 \in Nat
    BY <1>1, <1>2
  <2>2. /\ r \in Seq(Piece) /\ Len(r) = Len(p)
        /\ \A i \in 1..Len(p) :
             /\ r[i].id = p[i].id /\ r[i].part = p[i].part /\ r[i].tag = p[i].tag
             /\ i <= HeaderUnits => r[i].size = size + 1
    BY <2>1, ResizedIs
  <2>3. QED
    BY <1>1, <2>2
<1>5. /\ u \in Piece /\ u.id = id /\ u.part = Len(p) + 1 /\ u.tag = <<key, p>>
  BY <1>1, <1>2 DEF Unit, Piece
<1> HIDE DEF r, u
<1>6. /\ f \in Seq(Piece) /\ Len(f) = Len(p) + 1 /\ f[Len(f)] = u
      /\ \A i \in 1..Len(p) : f[i] = r[i]
  BY <1>2, <1>4, <1>5
<1> HIDE DEF f
<1>7. SubSeq(f, 1, Len(f) - 1) = r
  <2>1. /\ SubSeq(f, 1, Len(p)) \in Seq(Piece) /\ Len(SubSeq(f, 1, Len(p))) = Len(p)
        /\ \A i \in 1..Len(p) : SubSeq(f, 1, Len(p))[i] = f[i]
    BY <1>2, <1>6
  <2>2. SubSeq(f, 1, Len(p)) = r
    BY <1>4, <1>6, <2>1, SeqEqual
  <2>3. QED
    BY <1>2, <1>6, <2>2
<1>8. ASSUME NEW i \in 1..Len(f)
      PROVE  /\ f[i].id = id /\ f[i].part = i
             /\ i <= HeaderUnits => f[i].size = size + 1
             /\ i < Len(f) => f[i].tag = Unsigned
  <2>1. CASE i \in 1..Len(p)
    <3>1. f[i] = r[i] /\ i < Len(f)
      BY <1>2, <1>6, <2>1
    <3>2. QED
      BY <1>4, <2>1, <3>1
  <2>2. CASE i = Len(p) + 1
    BY <1>1, <1>2, <1>5, <1>6, <2>2
  <2>3. QED
    BY <1>2, <1>6, <2>1, <2>2
<1>9. Len(f) = HeaderUnits + size + 1
  BY <1>1, <1>6
<1>10. QED
  BY <1>3, <1>5, <1>6, <1>7, <1>8, <1>9 DEF p, r, IsSigned

\* What a transport writes: units of one message in their order, the header
\* stating how many follow, the last the tag when the link signs.
Signed == IF link.sign = NoKey THEN 0 ELSE 1
IsFrameOf(f, id, size) ==
  /\ f \in Seq(Piece) /\ Len(f) = HeaderUnits + size + Signed
  /\ \A i \in 1..Len(f) :
       /\ f[i].id = id /\ f[i].part = i
       /\ i <= HeaderUnits => f[i].size = Len(f) - HeaderUnits
       /\ f[i].tag = Unsigned \/ (i = Len(f) /\ link.sign # NoKey
                                 /\ f[i].tag = <<link.sign, Plain(id, size)>>)

LEMMA FrameIs ==
  ASSUME link \in Links, NEW id \in Nat, NEW size \in Nat
  PROVE  IsFrameOf(Frame(id, size), id, size)
<1> DEFINE message == Plain(id, size)
           secure  == IF link.sign = NoKey THEN message ELSE Secured(message, link.sign)
<1>1. IsFrameOf(secure, id, size)
  <2>1. CASE link.sign = NoKey
    <3>1. PICK f : f = secure
      OBVIOUS
    <3>2. IsPlain(f, id, size)
      BY <2>1, <3>1, PlainIs
    <3>3. IsFrameOf(f, id, size)
      BY <2>1, <3>2 DEF IsPlain, IsFrameOf, Signed
    <3>4. QED
      BY <3>1, <3>3
  <2>2. CASE link.sign # NoKey
    <3>1. PICK f : f = secure
      OBVIOUS
    <3>2. link.sign \in Keys
      BY DEF Keys
    <3>3. IsSigned(f, link.sign, id, size)
      BY <2>2, <3>1, <3>2, SecuredIs
    <3>4. IsFrameOf(f, id, size)
      BY <2>2, <3>3 DEF IsSigned, IsFrameOf, Signed
    <3>5. QED
      BY <3>1, <3>4
  <2>3. QED
    BY <2>1, <2>2
<1>2. Frame(id, size) = IF link.kind = "tls" THEN Stamped(secure) ELSE secure
  BY DEF Frame
<1> HIDE DEF secure
<1>3. IsFrameOf(Stamped(secure), id, size)
  <2>1. PICK f : f = secure
    OBVIOUS
  <2>2. f \in Seq(Piece)
    BY <1>1, <2>1 DEF IsFrameOf
  <2>3. PICK g : g = Stamped(f)
    OBVIOUS
  <2>4. /\ g \in Seq(Piece) /\ Len(g) = Len(f)
        /\ \A i \in 1..Len(f) : /\ g[i].id = f[i].id /\ g[i].part = f[i].part
                                /\ g[i].tag = f[i].tag /\ g[i].size = f[i].size
    BY <2>2, <2>3, StampedIs
  <2>5. IsFrameOf(g, id, size)
    BY <1>1, <2>1, <2>4 DEF IsFrameOf
  <2>6. QED
    BY <2>1, <2>3, <2>5
<1>4. QED
  BY <1>1, <1>2, <1>3

-----------------------------------------------------------------------------
(* What is sent and under way                                              *)

\* Every frame sent is one that a transport writes.
LEMMA SentIs ==
  ASSUME TypeOK, Framed, NEW id \in 1..Len(sent)
  PROVE  /\ sent[id] \in Seq(Piece) /\ Len(sent[id]) \in Nat /\ Len(sent) \in Nat
         /\ \E size \in Nat : IsFrameOf(sent[id], id, size)
<1>1. link \in Links /\ sent \in Seq(Seq(Piece)) /\ Len(sent) \in Nat
  BY DEF TypeOK
<1>2. PICK size \in Nat : sent[id] = Frame(id, size)
  BY DEF Framed
<1>3. id \in Nat
  BY <1>1
<1>4. IsFrameOf(sent[id], id, size)
  BY <1>1, <1>2, <1>3, FrameIs
<1>5. sent[id] \in Seq(Piece)
  BY <1>1
<1>6. QED
  BY <1>1, <1>4, <1>5

\* A unit under way says whose it is, and bears a tag at the end of a signed
\* frame only.
LEMMA SoundIs ==
  ASSUME TypeOK, Framed, NEW u, Sound(u)
  PROVE  /\ u \in Piece /\ u.id \in 1..Len(sent) /\ u.part \in 1..Len(sent[u.id])
         /\ u.part <= HeaderUnits => u.size = Len(sent[u.id]) - HeaderUnits
         /\ u.tag # Unsigned => /\ link.sign # NoKey /\ u.part = Len(sent[u.id])
                                /\ u.tag = <<link.sign, Plain(u.id, Len(sent[u.id]) - HeaderUnits - 1)>>
<1>1. PICK id, part, f : id = u.id /\ part = u.part /\ f = sent[id]
  OBVIOUS
<1>2. id \in 1..Len(sent) /\ part \in 1..Len(f) /\ u = f[part]
  BY <1>1 DEF Sound
<1>3. PICK size \in Nat : IsFrameOf(f, id, size)
  BY <1>1, <1>2, SentIs
<1>4. /\ f \in Seq(Piece) /\ Len(f) = HeaderUnits + size + Signed
      /\ part <= HeaderUnits => u.size = Len(f) - HeaderUnits
      /\ u.tag = Unsigned \/ (part = Len(f) /\ link.sign # NoKey
                              /\ u.tag = <<link.sign, Plain(id, size)>>)
  BY <1>2, <1>3 DEF IsFrameOf
<1>5. link.sign # NoKey => size = Len(f) - HeaderUnits - 1
  BY <1>4 DEF Signed
<1>6. u \in Piece
  BY <1>2, <1>4
<1>7. QED
  BY <1>1, <1>2, <1>4, <1>5, <1>6

\* A sequence of units, cut in two.
LEMMA Cut ==
  ASSUME NEW units \in Seq(Piece), NEW n \in 0..Len(units)
  PROVE  /\ SubSeq(units, 1, n) \in Seq(Piece) /\ Len(SubSeq(units, 1, n)) = n
         /\ \A i \in 1..n : SubSeq(units, 1, n)[i] = units[i]
         /\ SubSeq(units, n + 1, Len(units)) \in Seq(Piece)
         /\ Len(SubSeq(units, n + 1, Len(units))) = Len(units) - n
         /\ \A i \in 1..Len(units) - n : SubSeq(units, n + 1, Len(units))[i] = units[n + i]
OBVIOUS

\* Units put together.
LEMMA Joined ==
  ASSUME NEW a \in Seq(Piece), NEW b \in Seq(Piece)
  PROVE  /\ a \o b \in Seq(Piece) /\ Len(a \o b) = Len(a) + Len(b)
         /\ \A i \in 1..Len(a) : (a \o b)[i] = a[i]
         /\ \A i \in 1..Len(b) : (a \o b)[Len(a) + i] = b[i]
         /\ \A i \in 1..Len(a) + Len(b) : i \in 1..Len(a) \/ (i - Len(a) \in 1..Len(b))
<1>1. Len(a) \in Nat /\ Len(b) \in Nat
  OBVIOUS
<1>2. /\ a \o b \in Seq(Piece) /\ Len(a \o b) = Len(a) + Len(b)
      /\ \A i \in 1..Len(a) + Len(b) : (a \o b)[i] = IF i <= Len(a) THEN a[i] ELSE b[i - Len(a)]
  BY ConcatProperties, Zenon
<1>3. ASSUME NEW i \in 1..Len(b) PROVE (a \o b)[Len(a) + i] = b[i]
  <2>1. PICK k : k = Len(a) + i
    OBVIOUS
  <2>2. k \in 1..Len(a) + Len(b) /\ ~(k <= Len(a)) /\ k - Len(a) = i
    BY <1>1, <2>1
  <2>3. (a \o b)[k] = b[k - Len(a)]
    BY <1>2, <2>2
  <2>4. QED
    BY <2>1, <2>2, <2>3
<1>4. ASSUME NEW i \in 1..Len(a) PROVE (a \o b)[i] = a[i]
  BY <1>1, <1>2
<1>5. ASSUME NEW i \in 1..Len(a) + Len(b) PROVE i \in 1..Len(a) \/ (i - Len(a) \in 1..Len(b))
  BY <1>1
<1>6. QED
  BY <1>2, <1>3, <1>4, <1>5

LEMMA SoundsCut ==
  ASSUME NEW units \in Seq(Piece), NEW n \in 0..Len(units), Sounds(units)
  PROVE  Sounds(SubSeq(units, 1, n)) /\ Sounds(SubSeq(units, n + 1, Len(units)))
<1>1. Sounds(SubSeq(units, 1, n))
  BY Cut DEF Sounds
<1>2. ASSUME NEW i \in 1..Len(units) - n PROVE Sound(units[n + i])
  <2>1. n + i \in 1..Len(units)
    OBVIOUS
  <2>2. QED
    BY <2>1 DEF Sounds
<1>3. QED
  BY <1>1, <1>2, Cut DEF Sounds

LEMMA SoundsJoined ==
  ASSUME NEW a \in Seq(Piece), NEW b \in Seq(Piece), Sounds(a), Sounds(b)
  PROVE  Sounds(a \o b)
<1>1. ASSUME NEW i \in 1..Len(a) + Len(b) PROVE Sound((a \o b)[i])
  <2>1. CASE i \in 1..Len(a)
    BY <2>1, Joined DEF Sounds
  <2>2. ASSUME NEW k \in 1..Len(b), k = i - Len(a) PROVE Sound((a \o b)[i])
    <3>1. Len(a) + k = i
      BY <2>2
    <3>2. (a \o b)[Len(a) + k] = b[k] /\ Sound(b[k])
      BY Joined DEF Sounds
    <3>3. QED
      BY <3>1, <3>2
  <2>3. QED
    BY <2>1, <2>2, Joined
<1>2. QED
  BY <1>1, Joined DEF Sounds

\* Where nothing is sent, what was sound is.
LEMMA SoundKept ==
  ASSUME UNCHANGED <<sent, link>>
  PROVE  /\ Framed' <=> Framed
         /\ \A units : Sounds(units)' <=> Sounds(units)
         /\ \A u : Sound(u)' <=> Sound(u)
BY DEF Framed, Frame, Sounds, Sound

-----------------------------------------------------------------------------
(* Reading                                                                 *)

\* What a read takes from the stream, and what it comes to.
Takes(n, units) ==
  /\ units = reader.units \o SubSeq(stream, 1, n)
  /\ stream' = SubSeq(stream, n + 1, Len(stream))
  /\ UNCHANGED <<link, out, open, sent, overlapped>>

Reader == [at : {"idle", "payload", "closed"}, units : Seq(Piece), need : Nat]

GoesOn(units) ==
  /\ reader' \in Reader /\ reader'.units = units /\ Reads'
  /\ UNCHANGED <<delivered, refused, lost>>

GivesUp(units) ==
  /\ reader' = IdleReader /\ lost' = TRUE /\ UNCHANGED <<delivered, refused>>
  /\ link.kind = "tcp" =>
       Len(units) = HeaderUnits /\ (IsHeader(units) => units[1].size > MaxPayload)

Completes(units) ==
  /\ Returns(units) /\ UNCHANGED lost /\ Len(units) >= HeaderUnits
  /\ IsHeader(units) => Len(units) = HeaderUnits + units[1].size

LEMMA ReadIs ==
  ASSUME Sane, Base, ReadUnits
  PROVE  \E n \in 1..Len(stream), units \in Seq(Piece) :
           /\ Takes(n, units) /\ Sounds(units) /\ reader.at # "closed"
           /\ GoesOn(units) \/ GivesUp(units) \/ Completes(units)
<1>1. /\ reader \in Reader /\ stream \in Seq(Piece) /\ Len(stream) \in Nat
      /\ Sounds(stream) /\ Sounds(reader.units)
  BY DEF Base, TypeOK, Flows, Reader
<1>2. /\ reader.at \in {"idle", "payload"} /\ stream # <<>> /\ reader.units \in Seq(Piece)
      /\ reader.need \in Nat /\ reader.need > 0 /\ Len(reader.units) \in Nat
      /\ reader.at = "idle" => Len(reader.units) + reader.need = HeaderUnits
      /\ reader.at = "payload" =>
           /\ Len(reader.units) >= HeaderUnits
           /\ IsHeader(reader.units) =>
                Len(reader.units) + reader.need = HeaderUnits + reader.units[1].size
  <2>1. reader.at \in {"idle", "payload"} /\ stream # <<>> /\ reader.units \in Seq(Piece)
        /\ reader.need \in Nat
    BY <1>1 DEF ReadUnits, Reader
  <2>2. QED
    BY <2>1 DEF Base, Reads
<1>3. PICK n, units : /\ n = (IF Len(stream) < reader.need THEN Len(stream) ELSE reader.need)
                      /\ units = reader.units \o SubSeq(stream, 1, n)
  OBVIOUS
<1>4. /\ stream' = SubSeq(stream, n + 1, Len(stream))
      /\ \/ n = reader.need /\ reader.at = "idle" /\ HeaderRead(units)
         \/ n = reader.need /\ reader.at = "payload" /\ Returns(units) /\ UNCHANGED lost
         \/ /\ n < reader.need /\ reader.at = "idle" /\ link.kind = "pipe"
            /\ Throws("idle") /\ lost' = TRUE /\ UNCHANGED <<delivered, refused>>
         \/ /\ n < reader.need
            /\ reader' = [reader EXCEPT !.units = units, !.need = @ - n]
            /\ UNCHANGED <<delivered, refused, lost>>
  BY <1>3 DEF ReadUnits
<1>5. Takes(n, units)
  BY <1>3, <1>4 DEF ReadUnits, Takes
<1>6. n \in 1..Len(stream) /\ n \in Nat /\ n <= reader.need
  BY <1>1, <1>2, <1>3
<1>7. /\ units \in Seq(Piece) /\ Len(units) = Len(reader.units) + n /\ Sounds(units)
      /\ \A i \in 1..Len(reader.units) : units[i] = reader.units[i]
  <2>1. PICK taken : taken = SubSeq(stream, 1, n)
    OBVIOUS
  <2>2. n \in 0..Len(stream)
    BY <1>6
  <2>3. taken \in Seq(Piece) /\ Len(taken) = n /\ Sounds(taken)
    BY <1>1, <2>1, <2>2, Cut, SoundsCut
  <2>4. units = reader.units \o taken
    BY <1>3, <2>1
  <2>5. QED
    BY <1>1, <1>2, <2>3, <2>4, Joined, SoundsJoined
<1>8. CASE n = reader.need /\ reader.at = "idle" /\ HeaderRead(units)
  <2>1. Len(units) = HeaderUnits
    BY <1>2, <1>7, <1>8
  <2>2. PICK size \in 0..MaxPayload + 1 :
          /\ IsHeader(units) => size = units[1].size
          /\ \/ /\ size > Limit \/ (link.kind = "python" /\ ~IsHeader(units))
                /\ Throws("idle") /\ lost' = TRUE /\ UNCHANGED <<delivered, refused>>
             \/ /\ size <= Limit
                /\ IF size = 0 THEN Returns(units) /\ UNCHANGED lost
                   ELSE /\ reader' = [at |-> "payload", units |-> units, need |-> size]
                        /\ UNCHANGED <<delivered, refused, lost>>
    BY <1>8 DEF HeaderRead
  <2>3. CASE /\ size > Limit \/ (link.kind = "python" /\ ~IsHeader(units))
             /\ Throws("idle") /\ lost' = TRUE /\ UNCHANGED <<delivered, refused>>
    <3>1. reader' = IdleReader
      BY <2>3 DEF Throws, IdleReader
    <3>2. link.kind = "tcp" => size > MaxPayload
      BY <2>3 DEF Limit
    <3>3. GivesUp(units)
      BY <2>1, <2>2, <2>3, <3>1, <3>2 DEF GivesUp
    <3>4. QED
      BY <1>2, <1>5, <1>6, <1>7, <3>3
  <2>4. CASE size = 0 /\ Returns(units) /\ UNCHANGED lost
    <3>1. Completes(units)
      BY <2>1, <2>2, <2>4 DEF Completes
    <3>2. QED
      BY <1>2, <1>5, <1>6, <1>7, <3>1
  <2>5. CASE /\ size # 0 /\ reader' = [at |-> "payload", units |-> units, need |-> size]
             /\ UNCHANGED <<delivered, refused, lost>>
    <3>1. size \in Nat /\ size > 0
      BY <2>5 DEF Sane
    <3>2. reader' \in Reader /\ reader'.units = units /\ reader'.at = "payload" /\ reader'.need = size
      BY <1>7, <2>5, <3>1 DEF Reader
    <3>3. IsHeader(reader'.units) => size = reader'.units[1].size
      BY <2>2, <3>2
    <3>4. Len(reader'.units) = HeaderUnits /\ reader'.need = size
      BY <2>1, <3>2
    <3>5. Reads'
      BY <3>1, <3>2, <3>3, <3>4 DEF Reads
    <3>6. GoesOn(units)
      BY <2>5, <3>2, <3>5 DEF GoesOn
    <3>7. QED
      BY <1>2, <1>5, <1>6, <1>7, <3>6
  <2>6. QED
    BY <2>2, <2>3, <2>4, <2>5
<1>9. ASSUME reader.at = "payload"
      PROVE  /\ IsHeader(units) <=> IsHeader(reader.units)
             /\ units[1] = reader.units[1] /\ Len(units) >= HeaderUnits
  <2>1. 1 \in 1..Len(reader.units) /\ 2 \in 1..Len(reader.units)
    BY <1>2, <1>9
  <2>2. units[1] = reader.units[1] /\ units[2] = reader.units[2]
    BY <1>7, <2>1
  <2>3. \A i \in 1..HeaderUnits : units[i] = reader.units[i]
    BY <2>2
  <2>4. QED
    BY <1>2, <1>6, <1>7, <1>9, <2>2, <2>3 DEF IsHeader
<1>10. CASE n = reader.need /\ reader.at = "payload" /\ Returns(units) /\ UNCHANGED lost
  <2>1. IsHeader(units) => Len(units) = HeaderUnits + units[1].size
    BY <1>2, <1>7, <1>9, <1>10
  <2>2. Completes(units)
    BY <1>9, <1>10, <2>1 DEF Completes
  <2>3. QED
    BY <1>2, <1>5, <1>6, <1>7, <2>2
<1>11. CASE /\ n < reader.need /\ reader.at = "idle" /\ link.kind = "pipe"
            /\ Throws("idle") /\ lost' = TRUE /\ UNCHANGED <<delivered, refused>>
  <2>1. reader' = IdleReader
    BY <1>11 DEF Throws, IdleReader
  <2>2. GivesUp(units)
    BY <1>11, <2>1 DEF GivesUp
  <2>3. QED
    BY <1>2, <1>5, <1>6, <1>7, <2>2
<1>12. CASE /\ n < reader.need
            /\ reader' = [reader EXCEPT !.units = units, !.need = @ - n]
            /\ UNCHANGED <<delivered, refused, lost>>
  <2>1. PICK need : need = reader.need - n
    OBVIOUS
  <2>2. need \in Nat /\ need > 0
    BY <1>2, <1>6, <1>12, <2>1
  <2>3. /\ reader' \in Reader /\ reader'.units = units /\ reader'.at = reader.at
        /\ reader'.need = need
    BY <1>1, <1>7, <1>12, <2>1, <2>2 DEF Reader
  <2>4. Reads'
    <3>1. reader.at = "idle" => Len(units) + need = HeaderUnits
      BY <1>2, <1>6, <1>7, <2>1
    <3>2. reader.at = "payload" => /\ Len(units) >= HeaderUnits
                                   /\ IsHeader(units) => Len(units) + need = HeaderUnits + units[1].size
      <4> SUFFICES ASSUME reader.at = "payload"
                   PROVE  /\ Len(units) >= HeaderUnits
                          /\ IsHeader(units) => Len(units) + need = HeaderUnits + units[1].size
        OBVIOUS
      <4>1. /\ IsHeader(units) <=> IsHeader(reader.units)
            /\ units[1] = reader.units[1] /\ Len(units) >= HeaderUnits
        BY <1>9
      <4>2. IsHeader(reader.units) =>
              Len(reader.units) + reader.need = HeaderUnits + reader.units[1].size
        BY <1>2
      <4>3. Len(units) + need = Len(reader.units) + reader.need
        BY <1>2, <1>6, <1>7, <2>1
      <4>4. QED
        BY <4>1, <4>2, <4>3
    <3>3. QED
      BY <1>2, <2>2, <2>3, <3>1, <3>2 DEF Reads, IsHeader
  <2>5. GoesOn(units)
    BY <1>12, <2>3, <2>4 DEF GoesOn
  <2>6. QED
    BY <1>2, <1>5, <1>6, <1>7, <2>5
<1>13. QED
  BY <1>4, <1>8, <1>10, <1>11, <1>12

-----------------------------------------------------------------------------
(* What SecureTransport lets through                                       *)

\* The message without its tag, as SecureTransport hands it over.
Stripped(units) ==
  LET m == SubSeq(units, 1, Len(units) - 1) IN Resized(m, Len(m) - HeaderUnits)

\* A tag that verifies is the one at the end of a frame signed with the key,
\* and what was under it is the message, whatever the units before the tag are.
LEMMA VerifiedIs ==
  ASSUME TypeOK, Framed, NEW units \in Seq(Piece), Sounds(units), Verified(units)
  PROVE  LET u == units[Len(units)]
         IN /\ link.sign = link.check /\ link.sign # NoKey
            /\ u.id \in 1..Len(sent) /\ u.part = Len(sent[u.id])
            /\ Stripped(units) = Plain(u.id, Len(sent[u.id]) - HeaderUnits - 1)
            /\ Len(sent[u.id]) - HeaderUnits - 1 \in Nat
<1>1. PICK u, m : u = units[Len(units)] /\ m = SubSeq(units, 1, Len(units) - 1)
  OBVIOUS
<1>2. /\ Len(units) > HeaderUnits /\ Len(units) \in Nat
      /\ u.tag = <<link.check, Resized(m, Len(m) - HeaderUnits)>>
  BY <1>1 DEF Verified
<1>3. Sound(u)
  <2>1. Len(units) \in 1..Len(units)
    BY <1>2
  <2>2. QED
    BY <1>1, <2>1 DEF Sounds
<1>4. u.tag # Unsigned
  BY <1>2, TagIs
<1>5. /\ u.id \in 1..Len(sent) /\ link.sign # NoKey /\ u.part = Len(sent[u.id])
      /\ u.tag = <<link.sign, Plain(u.id, Len(sent[u.id]) - HeaderUnits - 1)>>
  BY <1>3, <1>4, SoundIs
<1>6. link.sign = link.check
      /\ Resized(m, Len(m) - HeaderUnits) = Plain(u.id, Len(sent[u.id]) - HeaderUnits - 1)
  BY <1>2, <1>5
<1>7. PICK size \in Nat : IsFrameOf(sent[u.id], u.id, size)
  BY <1>5, SentIs
<1>8. Len(sent[u.id]) - HeaderUnits - 1 \in Nat
  BY <1>5, <1>7 DEF IsFrameOf, Signed
<1>9. QED
  BY <1>1, <1>5, <1>6, <1>8 DEF Stripped

\* What a frame that completed comes to.
Delivers(units, got) ==
  /\ delivered' = Append(delivered, got) /\ refused' = refused
  /\ IF link.check = NoKey THEN got = units ELSE Verified(units) /\ got = Stripped(units)

Refuses(units) ==
  /\ link.check # NoKey /\ ~Verified(units)
  /\ delivered' = delivered /\ refused' = TRUE

LEMMA ReturnsIs ==
  ASSUME TypeOK, Framed, NEW units \in Seq(Piece), Sounds(units), Completes(units)
  PROVE  /\ reader' = IdleReader /\ lost' = lost
         /\ Refuses(units) \/ \E got \in Seq(Piece) : Delivers(units, got)
<1>1. reader' = IdleReader /\ lost' = lost
  BY DEF Completes, Returns, Throws, IdleReader
<1>2. CASE link.check = NoKey
  <2>1. Delivers(units, units)
    BY <1>2 DEF Completes, Returns, Delivers
  <2>2. QED
    BY <1>1, <2>1
<1>3. CASE link.check # NoKey /\ ~Verified(units)
  BY <1>1, <1>3 DEF Completes, Returns, Refuses
<1>4. CASE link.check # NoKey /\ Verified(units)
  <2>1. PICK u : u = units[Len(units)]
    OBVIOUS
  <2>2. PICK size \in Nat : Stripped(units) = Plain(u.id, size) /\ u.id \in Nat
    <3>1. Len(sent) \in Nat
      BY DEF TypeOK
    <3>2. QED
      BY <1>4, <2>1, <3>1, VerifiedIs
  <2>3. IsPlain(Stripped(units), u.id, size)
    BY <2>2, PlainIs
  <2>4. Stripped(units) \in Seq(Piece)
    BY <2>3 DEF IsPlain
  <2>5. delivered' = Append(delivered, Stripped(units)) /\ refused' = refused
    BY <1>4 DEF Completes, Returns, Stripped
  <2>6. Delivers(units, Stripped(units))
    BY <1>4, <2>5 DEF Delivers
  <2>7. QED
    BY <1>1, <2>4, <2>6
<1>5. QED
  BY <1>1, <1>2, <1>3, <1>4

-----------------------------------------------------------------------------
(* The steps keep to the frames                                            *)

LEMMA IdleIs ==
  /\ IdleReader \in Reader /\ IdleReader.at = "idle"
  /\ IdleReader.units = <<>> /\ IdleReader.need = HeaderUnits
<1>1. <<>> \in Seq(Piece)
  OBVIOUS
<1>2. QED
  BY <1>1 DEF IdleReader, Reader

LEMMA InitBase ==
  ASSUME FramesInit
  PROVE  Base
<1>1. <<>> \in Seq(Piece) /\ <<>> \in Seq(Seq(Piece)) /\ Len(<<>>) = 0
  OBVIOUS
<1>2. TypeOK
  BY <1>1, IdleIs DEF FramesInit, TypeOK, Reader
<1>3. Framed /\ Flows /\ Reads /\ Authentic
  BY <1>1, IdleIs DEF FramesInit, Framed, Flows, Sounds, Reads, Authentic
<1>4. QED
  BY <1>2, <1>3 DEF Base

\* The units of a frame are sound once it is sent; what was is.
LEMMA SentMore ==
  ASSUME TypeOK, Framed, NEW units \in Seq(Piece), NEW size \in Nat,
         units = Frame(Len(sent) + 1, size), sent' = Append(sent, units), link' = link
  PROVE  /\ Len(sent') = Len(sent) + 1 /\ \A id \in 1..Len(sent) : sent'[id] = sent[id]
         /\ sent'[Len(sent) + 1] = units
         /\ Framed' /\ Sounds(units)'
         /\ \A u : Sound(u) => Sound(u)'
<1>1. sent \in Seq(Seq(Piece)) /\ Len(sent) \in Nat
  BY DEF TypeOK
<1>2. /\ Len(sent') = Len(sent) + 1 /\ \A id \in 1..Len(sent) : sent'[id] = sent[id]
      /\ sent'[Len(sent) + 1] = units
  BY <1>1
<1>3. \A id, n : Frame(id, n)' = Frame(id, n)
  BY DEF Frame
<1>4. Framed'
  <2>1. ASSUME NEW id \in 1..Len(sent') PROVE \E n \in Nat : sent'[id] = Frame(id, n)'
    <3>1. CASE id \in 1..Len(sent)
      BY <1>2, <1>3, <3>1 DEF Framed
    <3>2. CASE id = Len(sent) + 1
      BY <1>2, <1>3, <3>2
    <3>3. QED
      BY <1>1, <1>2, <3>1, <3>2
  <2>2. QED
    BY <2>1 DEF Framed
<1>5. PICK id : id = Len(sent) + 1
  OBVIOUS
<1>6. id \in Nat /\ link \in Links
  BY <1>1, <1>5 DEF TypeOK
<1>7. IsFrameOf(units, id, size)
  BY <1>5, <1>6, FrameIs
<1>8. Sounds(units)'
  <2>1. ASSUME NEW i \in 1..Len(units)
        PROVE  /\ units[i].id = id /\ units[i].part = i /\ sent'[id] = units
               /\ id \in 1..Len(sent')
    BY <1>1, <1>2, <1>5, <1>7 DEF IsFrameOf
  <2>2. QED
    BY <2>1 DEF Sounds, Sound
<1>9. ASSUME NEW u, Sound(u) PROVE Sound(u)'
  <2>1. u.id \in 1..Len(sent') /\ sent'[u.id] = sent[u.id]
    BY <1>1, <1>2, <1>9 DEF Sound
  <2>2. QED
    BY <1>9, <2>1 DEF Sound
<1>10. QED
  BY <1>2, <1>4, <1>8, <1>9

\* What a sender begins is a frame.
LEMMA BeginIs ==
  ASSUME Sane, Base, NEW s \in DOMAIN out, NEW size \in 0..MaxPayload + 1, BeginFrame(s, size)
  PROVE  \E units \in Seq(Piece) :
           /\ units = Frame(Len(sent) + 1, size) /\ size \in Nat
           /\ IsFrameOf(units, Len(sent) + 1, size)
           /\ sent' = Append(sent, units) /\ out' = [out EXCEPT ![s] = units]
           /\ overlapped' = (overlapped \/ \E r \in DOMAIN out : out[r] # <<>>)
           /\ open /\ UNCHANGED <<link, stream, open, reader, delivered, lost, refused>>
<1>1. size \in Nat /\ Len(sent) + 1 \in Nat /\ link \in Links
  BY DEF Sane, Base, TypeOK
<1>2. PICK units : units = Frame(Len(sent) + 1, size)
  OBVIOUS
<1>3. IsFrameOf(units, Len(sent) + 1, size)
  BY <1>1, <1>2, FrameIs
<1>4. units \in Seq(Piece)
  BY <1>3 DEF IsFrameOf
<1>5. /\ sent' = Append(sent, units) /\ out' = [out EXCEPT ![s] = units]
      /\ overlapped' = (overlapped \/ \E r \in DOMAIN out : out[r] # <<>>)
      /\ open /\ UNCHANGED <<link, stream, open, reader, delivered, lost, refused>>
  BY <1>2 DEF BeginFrame
<1>6. QED
  BY <1>1, <1>2, <1>3, <1>4, <1>5

LEMMA BeginBase ==
  ASSUME Sane, Base, NEW s \in DOMAIN out, NEW size \in 0..MaxPayload + 1, BeginFrame(s, size)
  PROVE  Base'
<1>1. PICK units \in Seq(Piece) :
        /\ units = Frame(Len(sent) + 1, size) /\ size \in Nat
        /\ sent' = Append(sent, units) /\ out' = [out EXCEPT ![s] = units]
        /\ overlapped' = (overlapped \/ \E r \in DOMAIN out : out[r] # <<>>)
        /\ UNCHANGED <<link, stream, open, reader, delivered, lost, refused>>
  BY BeginIs
<1>2. /\ Len(sent') = Len(sent) + 1 /\ \A id \in 1..Len(sent) : sent'[id] = sent[id]
      /\ Framed' /\ Sounds(units)' /\ \A u : Sound(u) => Sound(u)'
  BY <1>1, SentMore DEF Base
<1>3. TypeOK'
  BY <1>1 DEF Base, TypeOK
<1>4. Flows'
  <2>1. Sounds(stream)' /\ Sounds(reader.units)'
    BY <1>1, <1>2 DEF Base, Flows, Sounds
  <2>2. ASSUME NEW r \in link.senders PROVE Sounds(out[r])'
    <3>1. out \in [link.senders -> Seq(Piece)]
      BY DEF Base, TypeOK
    <3>2. CASE r = s
      BY <1>1, <1>2, <3>1, <3>2
    <3>3. CASE r # s
      <4>1. out'[r] = out[r] /\ Sounds(out[r])
        BY <1>1, <3>1, <3>3 DEF Base, Flows
      <4>2. QED
        BY <1>2, <4>1 DEF Sounds
    <3>4. QED
      BY <3>2, <3>3
  <2>3. QED
    BY <1>1, <2>1, <2>2 DEF Flows
<1>5. Reads'
  BY <1>1 DEF Base, Reads
<1>6. Authentic'
  <2>1. Len(sent) \in Nat
    BY DEF Base, TypeOK
  <2>2. ASSUME NEW id \in 1..Len(sent) PROVE id \in 1..Len(sent') /\ sent'[id] = sent[id]
    BY <1>2, <2>1
  <2>3. QED
    BY <1>1, <2>2 DEF Base, Authentic
<1>7. QED
  BY <1>2, <1>3, <1>4, <1>5, <1>6 DEF Base

\* What a write takes from the sender it gives to the stream.
LEMMA WriteIs ==
  ASSUME Base, NEW s \in DOMAIN out, WriteUnits(s)
  PROVE  \E n \in 1..Len(out[s]), head, tail \in Seq(Piece) :
           /\ head = SubSeq(out[s], 1, n) /\ tail = SubSeq(out[s], n + 1, Len(out[s]))
           /\ Sounds(head) /\ Sounds(tail) /\ out[s] # <<>>
           /\ stream' = stream \o head /\ out' = [out EXCEPT ![s] = tail]
           /\ UNCHANGED <<link, open, reader, sent, delivered, ghosts>>
<1>1. PICK n \in 1..Len(out[s]) :
        /\ stream' = stream \o SubSeq(out[s], 1, n)
        /\ out' = [out EXCEPT ![s] = SubSeq(out[s], n + 1, Len(out[s]))]
  BY DEF WriteUnits
<1>2. out[s] \in Seq(Piece) /\ Sounds(out[s]) /\ Len(out[s]) \in Nat
  BY DEF Base, TypeOK, Flows
<1>3. n \in 0..Len(out[s])
  BY <1>2
<1> DEFINE head == SubSeq(out[s], 1, n)
           tail == SubSeq(out[s], n + 1, Len(out[s]))
<1>4. head \in Seq(Piece) /\ tail \in Seq(Piece) /\ Sounds(head) /\ Sounds(tail)
  BY <1>1, <1>2, <1>3, Cut, SoundsCut
<1>5. out[s] # <<>> /\ UNCHANGED <<link, open, reader, sent, delivered, ghosts>>
  BY DEF WriteUnits
<1>6. QED
  BY <1>1, <1>4, <1>5

LEMMA WriteBase ==
  ASSUME Base, NEW s \in DOMAIN out, WriteUnits(s)
  PROVE  Base'
<1>1. PICK head \in Seq(Piece), tail \in Seq(Piece) :
        /\ Sounds(head) /\ Sounds(tail)
        /\ stream' = stream \o head /\ out' = [out EXCEPT ![s] = tail]
        /\ UNCHANGED <<link, open, reader, sent, delivered, ghosts>>
  BY WriteIs
<1>2. stream \in Seq(Piece) /\ Sounds(stream) /\ out \in [link.senders -> Seq(Piece)]
  BY DEF Base, TypeOK, Flows
<1>3. stream' \in Seq(Piece) /\ Sounds(stream')
  BY <1>1, <1>2, Joined, SoundsJoined
<1>4. TypeOK'
  BY <1>1, <1>2, <1>3 DEF Base, TypeOK, ghosts
<1>5. /\ Framed' <=> Framed
      /\ \A units : Sounds(units)' <=> Sounds(units)
  BY <1>1, SoundKept
<1>6. \A r \in link.senders : Sounds(out'[r])
  BY <1>1, <1>2 DEF Base, Flows
<1>7. Flows'
  BY <1>1, <1>3, <1>5, <1>6 DEF Base, Flows
<1>8. Reads' /\ Authentic'
  BY <1>1 DEF Base, Reads, Authentic
<1>9. QED
  BY <1>4, <1>5, <1>7, <1>8 DEF Base

LEMMA CloseBase ==
  ASSUME Base, CloseStream
  PROVE  Base'
<1>1. /\ open' = FALSE /\ out' = [s \in DOMAIN out |-> <<>>]
      /\ UNCHANGED <<link, stream, reader, sent, delivered, ghosts>>
  BY DEF CloseStream
<1>2. <<>> \in Seq(Piece) /\ DOMAIN out = link.senders /\ Len(<<>>) = 0
  BY DEF Base, TypeOK
<1>3. TypeOK'
  BY <1>1, <1>2 DEF Base, TypeOK, ghosts
<1>4. /\ Framed' <=> Framed
      /\ \A units : Sounds(units)' <=> Sounds(units)
  BY <1>1, SoundKept
<1>5. Sounds(<<>>)
  BY <1>2 DEF Sounds
<1>6. Flows'
  BY <1>1, <1>2, <1>4, <1>5 DEF Base, Flows
<1>7. Reads' /\ Authentic'
  BY <1>1 DEF Base, Reads, Authentic
<1>8. QED
  BY <1>3, <1>4, <1>6, <1>7 DEF Base

\* A receive that ends inside a frame, or at the end of the stream.
LEMMA StopsBase ==
  ASSUME Base, TimeoutInside \/ StreamEnd
  PROVE  Base'
<1>1. PICK at \in {"idle", "closed"} : reader' = [IdleReader EXCEPT !.at = at]
  BY DEF TimeoutInside, StreamEnd, Throws
<1>2. lost' \in BOOLEAN
      /\ UNCHANGED <<link, out, stream, open, sent, delivered, overlapped, refused>>
  BY DEF TimeoutInside, StreamEnd, Base, TypeOK, Inside
<1>3. reader' \in Reader /\ reader'.units = <<>> /\ reader'.need = HeaderUnits /\ reader'.at = at
  BY <1>1, IdleIs DEF Reader
<1>4. TypeOK'
  BY <1>2, <1>3 DEF Base, TypeOK, Reader
<1>5. /\ Framed' <=> Framed
      /\ \A units : Sounds(units)' <=> Sounds(units)
  BY <1>2, SoundKept
<1>6. Len(<<>>) = 0
  OBVIOUS
<1>7. Sounds(reader'.units)
  BY <1>3, <1>6 DEF Sounds
<1>8. Flows'
  BY <1>2, <1>5, <1>7 DEF Base, Flows
<1>9. Reads'
  BY <1>1, <1>3, <1>6 DEF Reads
<1>10. Authentic'
  BY <1>2 DEF Base, Authentic
<1>11. QED
  BY <1>4, <1>5, <1>8, <1>9, <1>10 DEF Base

LEMMA ReadBase ==
  ASSUME Sane, Base, ReadUnits
  PROVE  Base'
<1>1. PICK n \in 1..Len(stream), units \in Seq(Piece) :
        /\ Takes(n, units) /\ Sounds(units)
        /\ GoesOn(units) \/ GivesUp(units) \/ Completes(units)
  BY ReadIs
<1>2. /\ stream' = SubSeq(stream, n + 1, Len(stream))
      /\ UNCHANGED <<link, out, open, sent, overlapped>>
  BY <1>1 DEF Takes
<1>3. stream' \in Seq(Piece) /\ Sounds(stream')
  <2>1. stream \in Seq(Piece) /\ Sounds(stream) /\ n \in 0..Len(stream)
    BY DEF Base, TypeOK, Flows
  <2>2. QED
    BY <1>2, <2>1, Cut, SoundsCut
<1>4. /\ Framed' <=> Framed
      /\ \A u : Sounds(u)' <=> Sounds(u)
  BY <1>2, SoundKept
<1>5. TypeOK /\ Framed /\ Flows /\ Authentic
  BY DEF Base
<1>6. Sounds(<<>>)
  <2>1. Len(<<>>) = 0
    OBVIOUS
  <2>2. QED
    BY <2>1 DEF Sounds
<1>7. ASSUME reader' \in Reader, Sounds(reader'.units), Reads', delivered' \in Seq(Seq(Piece)),
             lost' \in BOOLEAN, refused' \in BOOLEAN, Authentic'
      PROVE  Base'
  <2>1. TypeOK'
    BY <1>2, <1>3, <1>5, <1>7 DEF TypeOK, Reader
  <2>2. Flows'
    BY <1>2, <1>3, <1>4, <1>5, <1>7 DEF Flows
  <2>3. QED
    BY <1>4, <1>5, <1>7, <2>1, <2>2 DEF Base
<1>8. reader' = IdleReader => /\ reader' \in Reader /\ Sounds(reader'.units) /\ Reads'
  BY <1>6, IdleIs DEF Reads
<1>9. delivered' = delivered => Authentic' /\ delivered' \in Seq(Seq(Piece))
  BY <1>2, <1>5 DEF Authentic, TypeOK
<1>10. CASE GoesOn(units)
  <2>1. reader' \in Reader /\ reader'.units = units /\ Reads'
        /\ delivered' = delivered /\ refused' = refused /\ lost' = lost
    BY <1>10 DEF GoesOn
  <2>2. lost' \in BOOLEAN /\ refused' \in BOOLEAN
    BY <1>5, <2>1 DEF TypeOK
  <2>3. QED
    BY <1>1, <1>7, <1>9, <2>1, <2>2
<1>11. CASE GivesUp(units)
  <2>1. reader' = IdleReader /\ lost' = TRUE /\ delivered' = delivered /\ refused' = refused
    BY <1>11 DEF GivesUp
  <2>2. lost' \in BOOLEAN /\ refused' \in BOOLEAN
    BY <1>5, <2>1 DEF TypeOK
  <2>3. QED
    BY <1>7, <1>8, <1>9, <2>1, <2>2
<1>12. CASE Completes(units)
  <2>1. /\ reader' = IdleReader /\ lost' = lost
        /\ Refuses(units) \/ \E got \in Seq(Piece) : Delivers(units, got)
    BY <1>1, <1>5, <1>12, ReturnsIs
  <2>2. lost' \in BOOLEAN
    BY <1>5, <2>1 DEF TypeOK
  <2>3. CASE Refuses(units)
    BY <1>7, <1>8, <1>9, <2>1, <2>2, <2>3 DEF Refuses
  <2>4. ASSUME NEW got \in Seq(Piece), Delivers(units, got) PROVE Base'
    <3>1. /\ delivered' = Append(delivered, got) /\ refused' = refused
          /\ link.check # NoKey => Verified(units) /\ got = Stripped(units)
      BY <2>4 DEF Delivers
    <3>2. delivered \in Seq(Seq(Piece)) /\ Len(delivered) \in Nat /\ refused \in BOOLEAN
      BY <1>5 DEF TypeOK
    <3>3. /\ delivered' \in Seq(Seq(Piece)) /\ Len(delivered') = Len(delivered) + 1
          /\ delivered'[Len(delivered) + 1] = got
          /\ \A k \in 1..Len(delivered) : delivered'[k] = delivered[k]
      BY <3>1, <3>2
    <3>4. Authentic'
      <4> SUFFICES ASSUME link.check # NoKey, NEW k \in 1..Len(delivered')
                   PROVE  \E id \in 1..Len(sent) :
                            /\ link.sign = link.check /\ delivered'[k][1].id = id
                            /\ delivered'[k] = Plain(id, Len(sent[id]) - HeaderUnits - 1)
        BY <1>2 DEF Authentic
      <4>1. CASE k \in 1..Len(delivered)
        BY <1>5, <3>3, <4>1 DEF Authentic
      <4>2. CASE k = Len(delivered) + 1
        <5>1. PICK id, size : /\ id = units[Len(units)].id
                              /\ size = Len(sent[id]) - HeaderUnits - 1
          OBVIOUS
        <5>2. /\ link.sign = link.check /\ id \in 1..Len(sent) /\ size \in Nat
              /\ got = Plain(id, size)
          BY <1>1, <1>5, <3>1, <5>1, VerifiedIs
        <5>3. id \in Nat
          BY <1>5, <5>2 DEF TypeOK
        <5>4. IsPlain(got, id, size)
          BY <5>2, <5>3, PlainIs
        <5>5. got[1].id = id
          <6>1. 1 \in 1..Len(got)
            BY <5>2, <5>4 DEF IsPlain
          <6>2. QED
            BY <5>4, <6>1 DEF IsPlain
        <5>6. QED
          BY <3>3, <4>2, <5>1, <5>2, <5>5
      <4>3. QED
        BY <3>2, <3>3, <4>1, <4>2
    <3>5. QED
      BY <1>7, <1>8, <2>1, <2>2, <3>1, <3>2, <3>3, <3>4
  <2>5. QED
    BY <2>1, <2>3, <2>4
<1>13. QED
  BY <1>1, <1>10, <1>11, <1>12

-----------------------------------------------------------------------------
(* What is under way is a stretch of what was sent                         *)

\* The way is one of sound units, and a sender's rest is the end of it.
LEMMA WaysAre ==
  ASSUME Base, NEW rest \in Rest
  PROVE  LET way == (reader.units \o stream) \o rest
         IN /\ rest \in Seq(Piece) /\ Sounds(rest) /\ way \in Ways
            /\ reader.units \o stream \in Seq(Piece) /\ Sounds(reader.units \o stream)
            /\ way \in Seq(Piece) /\ Sounds(way)
<1>1. /\ reader.units \in Seq(Piece) /\ stream \in Seq(Piece)
      /\ Sounds(reader.units) /\ Sounds(stream)
  BY DEF Base, TypeOK, Flows
<1>2. <<>> \in Seq(Piece) /\ Sounds(<<>>)
  <2>1. <<>> \in Seq(Piece) /\ Len(<<>>) = 0
    OBVIOUS
  <2>2. QED
    BY <2>1 DEF Sounds
<1>3. rest \in Seq(Piece) /\ Sounds(rest)
  BY <1>2 DEF Rest, Busy, Base, TypeOK, Flows
<1>4. PICK front : front = reader.units \o stream
  OBVIOUS
<1>5. front \in Seq(Piece) /\ Sounds(front)
  BY <1>1, <1>4, Joined, SoundsJoined
<1>6. front \o rest \in Seq(Piece) /\ Sounds(front \o rest)
  BY <1>3, <1>5, Joined, SoundsJoined
<1>7. QED
  BY <1>3, <1>4, <1>5, <1>6 DEF Ways

LEMMA WayIs ==
  ASSUME Base, NEW way \in Ways
  PROVE  way \in Seq(Piece) /\ Sounds(way)
<1>1. PICK rest \in Rest : way = (reader.units \o stream) \o rest
  BY DEF Ways
<1>2. QED
  BY <1>1, WaysAre

\* The parts of a sequence are its elements.
LEMMA Parts ==
  ASSUME NEW a \in Seq(Piece), NEW b \in Seq(Piece)
  PROVE  /\ Len(a) \in Nat /\ Len(b) \in Nat /\ Len(a \o b) = Len(a) + Len(b)
         /\ \A i \in 1..Len(a) : i \in 1..Len(a \o b) /\ (a \o b)[i] = a[i]
         /\ \A i \in 1..Len(b) : Len(a) + i \in 1..Len(a \o b) /\ (a \o b)[Len(a) + i] = b[i]
         /\ a # <<>> => Len(a) > 0
         /\ b # <<>> => Len(b) > 0
         /\ a = <<>> => Len(a) = 0
         /\ b = <<>> => Len(b) = 0
<1>1. Len(a) \in Nat /\ Len(b) \in Nat
  OBVIOUS
<1>2. Len(a \o b) = Len(a) + Len(b)
  BY Joined
<1>3. \A i \in 1..Len(a) : i \in 1..Len(a \o b)
  BY <1>1, <1>2
<1>4. \A i \in 1..Len(b) : Len(a) + i \in 1..Len(a \o b)
  BY <1>1, <1>2
<1>5. (a # <<>> => Len(a) > 0) /\ (b # <<>> => Len(b) > 0)
  OBVIOUS
<1>6. (a = <<>> => Len(a) = 0) /\ (b = <<>> => Len(b) = 0)
  OBVIOUS
<1>7. QED
  BY <1>1, <1>2, <1>3, <1>4, <1>5, <1>6, Joined

\* What is left when the first of the way are gone is straight too, and
\* begins with a frame if a frame ended before it.
LEMMA StraightEnd ==
  ASSUME NEW a \in Seq(Piece), NEW b \in Seq(Piece), Straight(a \o b)
  PROVE  /\ Straight(b)
         /\ a # <<>> /\ Last(a[Len(a)]) =>
              /\ \A i \in 1..Len(b) : b[i].id > a[Len(a)].id
              /\ b # <<>> => b[1].part = 1 /\ b[1].id = a[Len(a)].id + 1
<1>1. PICK m, way : m = Len(a) /\ way = a \o b
  OBVIOUS
<1>2. /\ m \in Nat /\ Len(b) \in Nat /\ Len(way) = m + Len(b)
      /\ \A i \in 1..m : i \in 1..Len(way) /\ way[i] = a[i]
      /\ \A i \in 1..Len(b) : m + i \in 1..Len(way) /\ way[m + i] = b[i]
      /\ a # <<>> => m > 0
      /\ b # <<>> => Len(b) > 0
  BY <1>1, Parts
<1>3. Straight(way)
  BY <1>1
<1>4. Straight(b)
  <2>1. ASSUME NEW i \in 1..Len(b), NEW j \in 1..Len(b), i <= j
        PROVE  /\ b[i].id <= b[j].id
               /\ b[i].part + (j - i) <= Len(sent[b[i].id]) =>
                    b[j].id = b[i].id /\ b[j].part = b[i].part + (j - i)
    <3>1. /\ m + i \in 1..Len(way) /\ m + j \in 1..Len(way) /\ m + i <= m + j
          /\ (m + j) - (m + i) = j - i
      BY <1>2, <2>1
    <3>2. way[m + i] = b[i] /\ way[m + j] = b[j]
      BY <1>2
    <3>3. PICK k, n : k = m + i /\ n = m + j
      OBVIOUS
    <3>4. /\ way[k].id <= way[n].id
          /\ way[k].part + (n - k) <= Len(sent[way[k].id]) =>
               way[n].id = way[k].id /\ way[n].part = way[k].part + (n - k)
      BY <1>3, <3>1, <3>3 DEF Straight
    <3>5. QED
      BY <3>1, <3>2, <3>3, <3>4
  <2>2. ASSUME NEW i \in 1..Len(b), NEW j \in 1..Len(b), j = i + 1, Last(b[i])
        PROVE  b[j].id = b[i].id + 1 /\ b[j].part = 1
    <3>1. PICK k, n : k = m + i /\ n = m + j
      OBVIOUS
    <3>2. k \in 1..Len(way) /\ n \in 1..Len(way) /\ way[k] = b[i] /\ way[n] = b[j] /\ n = k + 1
      BY <1>2, <2>2, <3>1
    <3>3. QED
      BY <1>3, <2>2, <3>2 DEF Straight
  <2>3. QED
    BY <2>1, <2>2 DEF Straight
<1>5. ASSUME a # <<>>, Last(a[m]), NEW i \in 1..Len(b)
      PROVE  b[i].id > a[m].id /\ b[1].part = 1 /\ b[1].id = a[m].id + 1
  <2>1. PICK k : k = m + 1
    OBVIOUS
  <2>2. 1 \in 1..Len(b) /\ i >= 1 /\ i \in Nat
    BY <1>2
  <2>3. m \in 1..Len(way) /\ k \in 1..Len(way) /\ way[m] = a[m] /\ way[k] = b[1]
    <3>1. m \in 1..m
      BY <1>2, <1>5
    <3>2. QED
      BY <1>2, <2>1, <2>2, <3>1
  <2>4. b[1].part = 1 /\ b[1].id = a[m].id + 1
    BY <1>3, <1>5, <2>1, <2>3 DEF Straight
  <2>5. b[1].id <= b[i].id
    BY <1>4, <2>2 DEF Straight
  <2>6. a[m].id \in Nat /\ b[i].id \in Nat
    <3>1. m \in 1..Len(a)
      BY <1>1, <1>2, <1>5
    <3>2. a[m] \in Piece /\ b[i] \in Piece
      BY <3>1
    <3>3. QED
      BY <3>2 DEF Piece
  <2>7. QED
    BY <2>4, <2>5, <2>6
<1>6. b # <<>> => 1 \in 1..Len(b)
  BY <1>2
<1>7. QED
  BY <1>1, <1>4, <1>5, <1>6

\* A straight way begins straight.
LEMMA StraightBegin ==
  ASSUME NEW a \in Seq(Piece), NEW b \in Seq(Piece), Straight(a \o b)
  PROVE  Straight(a)
<1>1. PICK way : way = a \o b
  OBVIOUS
<1>2. \A i \in 1..Len(a) : i \in 1..Len(way) /\ way[i] = a[i]
  BY <1>1, Parts
<1>3. Straight(way)
  BY <1>1
<1>4. ASSUME NEW i \in 1..Len(a), NEW j \in 1..Len(a)
      PROVE  /\ i <= j =>
                  /\ a[i].id <= a[j].id
                  /\ a[i].part + (j - i) <= Len(sent[a[i].id]) =>
                       a[j].id = a[i].id /\ a[j].part = a[i].part + (j - i)
             /\ j = i + 1 /\ Last(a[i]) => a[j].id = a[i].id + 1 /\ a[j].part = 1
  <2>1. i \in 1..Len(way) /\ j \in 1..Len(way) /\ way[i] = a[i] /\ way[j] = a[j]
    BY <1>2
  <2>2. i <= j => /\ way[i].id <= way[j].id
                  /\ way[i].part + (j - i) <= Len(sent[way[i].id]) =>
                       way[j].id = way[i].id /\ way[j].part = way[i].part + (j - i)
    BY <1>3, <2>1 DEF Straight
  <2>3. j = i + 1 /\ Last(way[i]) => way[j].id = way[i].id + 1 /\ way[j].part = 1
    BY <1>3, <2>1 DEF Straight
  <2>4. QED
    BY <2>1, <2>2, <2>3
<1>5. QED
  BY <1>4 DEF Straight

\* Units that begin with a frame and are as many as its header says are the
\* frame.
LEMMA WholeFrame ==
  ASSUME Base, NEW units \in Seq(Piece), Sounds(units), Straight(units), Len(units) >= HeaderUnits,
         IsHeader(units), Len(units) = HeaderUnits + units[1].size
  PROVE  /\ units[1].id \in 1..Len(sent) /\ units = sent[units[1].id]
         /\ units[Len(units)].id = units[1].id /\ Last(units[Len(units)])
<1>1. PICK id, n, f : id = units[1].id /\ n = Len(units) /\ f = sent[id]
  OBVIOUS
<1>2. /\ n \in Nat /\ 1 \in 1..n /\ n \in 1..n
  BY <1>1
<1>3. units[1].part = 1
  BY DEF IsHeader
<1>4. /\ id \in 1..Len(sent) /\ units[1].size = Len(f) - HeaderUnits /\ f \in Seq(Piece)
      /\ Len(f) \in Nat
  <2>1. Sound(units[1])
    BY <1>1, <1>2 DEF Sounds
  <2>2. id \in 1..Len(sent) /\ units[1].size = Len(f) - HeaderUnits
    BY <1>1, <1>3, <2>1, SoundIs DEF Base
  <2>3. QED
    BY <1>1, <2>2, SentIs DEF Base
<1>5. Len(f) = n
  BY <1>1, <1>4
<1>6. ASSUME NEW i \in 1..n PROVE units[i].id = id /\ units[i].part = i /\ units[i] = f[i]
  <2>1. 1 <= i /\ 1 + (i - 1) = i /\ i <= Len(f)
    BY <1>2, <1>5
  <2>2. units[1].part + (i - 1) <= Len(sent[units[1].id])
    BY <1>1, <1>3, <2>1
  <2>3. units[i].id = units[1].id /\ units[i].part = units[1].part + (i - 1)
    BY <1>1, <1>2, <2>1, <2>2 DEF Straight
  <2>4. units[i].id = id /\ units[i].part = i
    BY <1>1, <1>3, <2>1, <2>3
  <2>5. QED
    BY <1>1, <2>4 DEF Sounds, Sound
<1>7. units = f
  <2>1. units \in Seq(Piece) /\ f \in Seq(Piece) /\ Len(units) = Len(f)
        /\ \A i \in 1..Len(units) : units[i] = f[i]
    BY <1>1, <1>4, <1>5, <1>6
  <2>2. QED
    BY <2>1, SeqEqual
<1>8. QED
  BY <1>1, <1>2, <1>4, <1>5, <1>6, <1>7 DEF Last

\* Units that begin with the first of a frame begin with its header.
LEMMA HeaderFirst ==
  ASSUME Base, NEW units \in Seq(Piece), Sounds(units), Straight(units), Len(units) >= HeaderUnits,
         units[1].part = 1
  PROVE  /\ IsHeader(units) /\ units[1].id \in 1..Len(sent)
         /\ units[1].size = Len(sent[units[1].id]) - HeaderUnits
<1>1. 1 \in 1..Len(units) /\ 2 \in 1..Len(units)
  OBVIOUS
<1>2. PICK id : id = units[1].id
  OBVIOUS
<1>3. Sound(units[1])
  BY <1>1 DEF Sounds
<1>4. id \in 1..Len(sent) /\ units[1].size = Len(sent[id]) - HeaderUnits
  BY <1>2, <1>3, SoundIs DEF Base
<1>5. PICK size \in Nat : IsFrameOf(sent[id], id, size)
  BY <1>4, SentIs DEF Base
<1>6. Len(sent[id]) >= HeaderUnits /\ Len(sent[id]) \in Nat
  BY <1>5 DEF IsFrameOf, Signed
<1>7. units[1].part + (2 - 1) <= Len(sent[units[1].id]) /\ 1 <= 2
  BY <1>2, <1>6
<1>8. units[2].id = units[1].id /\ units[2].part = units[1].part + (2 - 1)
  BY <1>1, <1>7 DEF Straight
<1>9. IsHeader(units)
  <2>1. units[2].part = 2
    BY <1>8
  <2>2. QED
    BY <1>8, <2>1 DEF IsHeader
<1>10. QED
  BY <1>2, <1>4, <1>9

-----------------------------------------------------------------------------
(* One sender at a time                                                    *)

\* Where nothing is sent or returned, what is under way stays what it was.
LEMMA OrderKept ==
  ASSUME UNCHANGED <<link, open, sent, delivered, lost, refused>>
  PROVE  /\ \A way : Lane(way)' <=> Lane(way)
         /\ (Arrived' <=> Arrived) /\ (Agreed' <=> Agreed)
<1>1. Accepted' = Accepted /\ \A id : Expected(id)' = Expected(id)
  BY DEF Accepted, Expected
<1>2. \A way : Straight(way)' <=> Straight(way)
  BY DEF Straight, Last
<1>3. \A way : Complete(way)' <=> Complete(way)
  BY DEF Complete, Last
<1>4. \A way : Ahead(way)' <=> Ahead(way)
  BY <1>1 DEF Ahead
<1>5. \A way : Gapless(way)' <=> Gapless(way)
  BY DEF Gapless
<1>6. Arrived' <=> Arrived
  BY <1>1 DEF Arrived
<1>7. Agreed' <=> Agreed
  BY DEF Agreed
<1>8. QED
  BY <1>2, <1>3, <1>4, <1>5, <1>6, <1>7 DEF Lane

\* A frame that was just sent goes on straight from the last of what was.
Prolongs(way, front) ==
  /\ Straight(way)'
  /\ \A k \in 1..Len(way) : (k \in 1..Len(front) /\ way[k] = front[k])
                            \/ way[k].id = Len(sent) + 1
  /\ way[Len(way)].id = Len(sent') /\ Last(way[Len(way)])' /\ way # <<>>
  /\ front = <<>> => way[1].id = Len(sent) + 1 /\ way[1].part = 1
  /\ front # <<>> => way[1] = front[1]

LEMMA StraightMore ==
  ASSUME Base, NEW front \in Seq(Piece), Sounds(front), Straight(front), Complete(front), open,
         NEW units \in Seq(Piece), NEW size \in Nat, IsFrameOf(units, Len(sent) + 1, size),
         sent' = Append(sent, units), NEW way, way = front \o units
  PROVE  Prolongs(way, front)
<1>1. PICK l, n, new : l = Len(front) /\ n = Len(units) /\ new = Len(sent) + 1
  OBVIOUS
<1>2. /\ sent \in Seq(Seq(Piece)) /\ Len(sent) \in Nat /\ Len(sent') = new /\ sent'[new] = units
      /\ \A id \in 1..Len(sent) : sent'[id] = sent[id]
  BY <1>1 DEF Base, TypeOK
<1>3. /\ n \in Nat /\ n >= HeaderUnits /\ \A i \in 1..n : units[i].id = new /\ units[i].part = i
  BY <1>1 DEF IsFrameOf, Signed
<1>4. /\ l \in Nat /\ Len(way) = l + n /\ way \in Seq(Piece)
      /\ \A i \in 1..l : way[i] = front[i]
      /\ \A i \in 1..n : way[l + i] = units[i]
  BY <1>1, Parts, Joined
<1>5. ASSUME NEW k \in 1..Len(way)
      PROVE  \/ (k \in 1..l /\ way[k] = front[k])
             \/ (\E i \in 1..n : k = l + i /\ way[k].id = new /\ way[k].part = i)
  <2>1. CASE k \in 1..l
    BY <1>4, <2>1
  <2>2. CASE ~(k \in 1..l)
    <3>1. PICK i : i = k - l
      OBVIOUS
    <3>2. i \in 1..n /\ k = l + i
      BY <1>3, <1>4, <2>2, <3>1
    <3>3. QED
      BY <1>3, <1>4, <3>2
  <2>3. QED
    BY <2>1, <2>2
<1>6. ASSUME NEW i \in 1..l
      PROVE  /\ front[i].id \in 1..Len(sent) /\ front[i].part \in Nat /\ front[i].id \in Nat
             /\ sent'[front[i].id] = sent[front[i].id] /\ Len(sent[front[i].id]) \in Nat
  <2>1. Sound(front[i]) /\ front[i] \in Piece
    BY <1>1 DEF Sounds
  <2>2. front[i].id \in 1..Len(sent)
    BY <2>1 DEF Sound
  <2>3. QED
    BY <1>2, <2>1, <2>2, SentIs DEF Base, Piece
<1>7. l > 0 => front[l].id = Len(sent) /\ front[l].part = Len(sent[Len(sent)]) /\ l \in 1..l
  <2>1. l > 0 => front # <<>>
    BY <1>1
  <2>2. QED
    BY <1>1, <1>4, <2>1 DEF Complete, Last
<1>8. ASSUME NEW i \in 1..Len(way), NEW j \in 1..Len(way), i <= j
      PROVE  /\ way[i].id <= way[j].id
             /\ way[i].part + (j - i) <= Len(sent'[way[i].id]) =>
                  way[j].id = way[i].id /\ way[j].part = way[i].part + (j - i)
  <2>0. i \in Nat /\ j \in Nat
    BY <1>3, <1>4
  <2>1. CASE i \in 1..l /\ j \in 1..l
    <3>1. way[i] = front[i] /\ way[j] = front[j] /\ sent'[front[i].id] = sent[front[i].id]
      BY <1>4, <1>6, <2>1
    <3>2. QED
      BY <1>1, <1>8, <2>1, <3>1 DEF Straight
  <2>2. ASSUME i \in 1..l, NEW k \in 1..n, j = l + k, way[j].id = new
        PROVE  way[i].id <= way[j].id /\ ~(way[i].part + (j - i) <= Len(sent'[way[i].id]))
    <3>1. /\ way[i] = front[i] /\ front[i].id \in 1..Len(sent) /\ front[i].part \in Nat
          /\ sent'[front[i].id] = sent[front[i].id] /\ Len(sent[front[i].id]) \in Nat
      BY <1>4, <1>6, <2>2
    <3>2. way[i].id <= way[j].id
      BY <1>1, <1>2, <2>2, <3>1
    <3>3. i <= l /\ l > 0 /\ l \in 1..l /\ l - i \in Nat /\ j - i \in Nat /\ l - i < j - i
      BY <1>3, <1>4, <2>2
    <3>4. front[i].part + (l - i) <= Len(sent[front[i].id]) =>
            front[l].id = front[i].id /\ front[l].part = front[i].part + (l - i)
      BY <1>1, <2>2, <3>3 DEF Straight
    <3>5. ~(front[i].part + (j - i) <= Len(sent[front[i].id]))
      <4> SUFFICES ASSUME front[i].part + (j - i) <= Len(sent[front[i].id]) PROVE FALSE
        OBVIOUS
      <4>1. PICK p, t, a, b : /\ p = front[i].part /\ t = Len(sent[front[i].id])
                              /\ a = l - i /\ b = j - i
        OBVIOUS
      <4>2. p \in Nat /\ t \in Nat /\ a \in Nat /\ b \in Nat /\ a < b /\ p + b <= t
        BY <3>1, <3>3, <4>1
      <4>3. p + a < t /\ p + a <= t
        BY <4>2
      <4>4. front[l].id = front[i].id /\ front[l].part = p + a
        <5>1. p + a <= t => front[l].id = front[i].id /\ front[l].part = p + a
          BY <3>4, <4>1, Zenon
        <5>2. QED
          BY <4>3, <5>1
      <4>5. front[l].part = t
        BY <1>7, <3>3, <4>1, <4>4
      <4>6. QED
        BY <4>2, <4>3, <4>4, <4>5
    <3>6. QED
      BY <3>1, <3>2, <3>5
  <2>3. ASSUME NEW h \in 1..n, NEW k \in 1..n, i = l + h, way[i].id = new, way[i].part = h,
               j = l + k, way[j].id = new, way[j].part = k
        PROVE  /\ way[i].id <= way[j].id
               /\ way[j].id = way[i].id /\ way[j].part = way[i].part + (j - i)
    <3>1. h + (j - i) = k
      BY <1>3, <1>4, <2>3
    <3>2. QED
      BY <1>1, <1>2, <2>3, <3>1
  <2>4. ASSUME NEW h \in 1..n, i = l + h PROVE ~(j \in 1..l)
    BY <1>3, <1>4, <1>8, <2>0, <2>4
  <2>5. \/ i \in 1..l
        \/ (\E h \in 1..n : i = l + h /\ way[i].id = new /\ way[i].part = h)
    BY <1>5
  <2>6. \/ j \in 1..l
        \/ (\E k \in 1..n : j = l + k /\ way[j].id = new /\ way[j].part = k)
    BY <1>5
  <2>7. CASE i \in 1..l
    BY <2>1, <2>2, <2>6, <2>7
  <2>8. ASSUME NEW h \in 1..n, i = l + h, way[i].id = new, way[i].part = h
        PROVE  /\ way[i].id <= way[j].id
               /\ way[j].id = way[i].id /\ way[j].part = way[i].part + (j - i)
    <3>1. ~(j \in 1..l)
      BY <2>4, <2>8
    <3>2. PICK k \in 1..n : j = l + k /\ way[j].id = new /\ way[j].part = k
      BY <2>6, <3>1
    <3>3. QED
      BY <2>3, <2>8, <3>2
  <2>9. QED
    BY <2>5, <2>7, <2>8
<1>9. ASSUME NEW i \in 1..Len(way), NEW j \in 1..Len(way), j = i + 1, Last(way[i])'
      PROVE  way[j].id = way[i].id + 1 /\ way[j].part = 1
  <2>0. i \in Nat /\ j \in Nat /\ i <= Len(way) /\ j <= Len(way) /\ i >= 1
    BY <1>3, <1>4
  <2>1. CASE i \in 1..l
    <3>1. way[i] = front[i] /\ Last(front[i])
      BY <1>4, <1>6, <1>9, <2>1 DEF Last
    <3>2. CASE j \in 1..l
      BY <1>1, <1>4, <1>9, <3>1, <3>2, <2>1 DEF Straight
    <3>3. CASE ~(j \in 1..l)
      <4>1. i = l /\ l > 0 /\ j = l + 1 /\ 1 \in 1..n
        BY <1>3, <1>4, <1>9, <2>0, <2>1, <3>3
      <4>2. way[j] = units[1] /\ units[1].id = new /\ units[1].part = 1
        BY <1>3, <1>4, <4>1
      <4>3. QED
        BY <1>1, <1>7, <3>1, <4>1, <4>2
    <3>4. QED
      BY <3>2, <3>3
  <2>2. ASSUME NEW h \in 1..n, i = l + h, way[i].id = new, way[i].part = h PROVE FALSE
    <3>1. h = n
      BY <1>1, <1>2, <1>9, <2>2 DEF Last
    <3>2. QED
      BY <1>3, <1>4, <1>9, <2>0, <2>2, <3>1
  <2>3. QED
    BY <1>5, <2>1, <2>2
<1>10. Straight(way)'
  BY <1>8, <1>9 DEF Straight
<1>11. /\ way[Len(way)].id = Len(sent') /\ Last(way[Len(way)])' /\ way # <<>>
  <2>1. n \in 1..n /\ Len(way) = l + n /\ Len(way) > 0
    BY <1>3, <1>4
  <2>2. way[l + n] = units[n] /\ units[n].id = new /\ units[n].part = n
    BY <1>3, <1>4, <2>1
  <2>3. way[Len(way)].id = new /\ way[Len(way)].part = n
    BY <2>1, <2>2
  <2>4. QED
    BY <1>1, <1>2, <1>4, <2>1, <2>3 DEF Last
<1>12. /\ front = <<>> => way[1].id = new /\ way[1].part = 1
       /\ front # <<>> => way[1] = front[1]
  <2>1. CASE front = <<>>
    <3>1. 1 \in 1..n /\ l + 1 = 1
      BY <1>1, <1>3, <2>1
    <3>2. way[1] = units[1]
      BY <1>4, <3>1
    <3>3. QED
      BY <1>3, <2>1, <3>1, <3>2
  <2>2. CASE front # <<>>
    <3>1. 1 \in 1..l
      BY <1>1, <2>2
    <3>2. QED
      BY <1>4, <2>2, <3>1
  <2>3. QED
    BY <2>1, <2>2
<1>13. QED
  BY <1>1, <1>5, <1>10, <1>11, <1>12 DEF Prolongs

LEMMA Regrouped ==
  ASSUME NEW a \in Seq(Piece), NEW b \in Seq(Piece), NEW c \in Seq(Piece)
  PROVE  (a \o b) \o c = a \o (b \o c)
BY ConcatAssociative

\* What is joined and cut may be joined again.
LEMMA Rejoined ==
  ASSUME NEW units \in Seq(Piece), NEW n \in 0..Len(units)
  PROVE  SubSeq(units, 1, n) \o SubSeq(units, n + 1, Len(units)) = units
<1>1. PICK a, b, c : /\ a = SubSeq(units, 1, n) /\ b = SubSeq(units, n + 1, Len(units))
                     /\ c = a \o b
  OBVIOUS
<1>2. /\ a \in Seq(Piece) /\ Len(a) = n /\ \A i \in 1..n : a[i] = units[i]
      /\ b \in Seq(Piece) /\ Len(b) = Len(units) - n
      /\ \A i \in 1..Len(units) - n : b[i] = units[n + i]
  BY <1>1, Cut
<1>3. /\ c \in Seq(Piece) /\ Len(c) = Len(a) + Len(b)
      /\ \A i \in 1..Len(a) : c[i] = a[i]
      /\ \A i \in 1..Len(b) : c[Len(a) + i] = b[i]
  <2>1. a \in Seq(Piece) /\ b \in Seq(Piece) /\ c = a \o b
    BY <1>1, <1>2
  <2>2. QED
    BY <2>1, Joined
<1>4. Len(c) = Len(units) /\ n \in Nat /\ Len(units) \in Nat
  BY <1>2, <1>3
<1>5. ASSUME NEW i \in 1..Len(c) PROVE c[i] = units[i]
  <2>1. CASE i \in 1..n
    BY <1>2, <1>3, <2>1
  <2>2. CASE ~(i \in 1..n)
    <3>1. PICK k : k = i - n
      OBVIOUS
    <3>2. k \in 1..Len(units) - n /\ n + k = i
      BY <1>4, <2>2, <3>1
    <3>3. c[n + k] = b[k] /\ b[k] = units[n + k]
      BY <1>2, <1>3, <3>2
    <3>4. QED
      BY <3>2, <3>3
  <2>3. QED
    BY <2>1, <2>2
<1>6. c = units
  BY <1>3, <1>4, <1>5, SeqEqual
<1>7. QED
  BY <1>1, <1>6

\* One sender at most has something to write, and that is the rest.
LEMMA RestIs ==
  ASSUME Base, Lone
  PROVE  /\ \A s \in link.senders : out[s] # <<>> => Rest = {out[s]}
         /\ (\A s \in link.senders : out[s] = <<>>) => Rest = {<<>>}
<1>1. ASSUME NEW s \in link.senders, out[s] # <<>> PROVE Rest = {out[s]}
  <2>1. Busy = {s}
    BY <1>1 DEF Busy, Lone
  <2>2. QED
    BY <2>1 DEF Rest
<1>2. ASSUME \A s \in link.senders : out[s] = <<>> PROVE Rest = {<<>>}
  BY <1>2 DEF Rest, Busy
<1>3. QED
  BY <1>1, <1>2

LEMMA RestThere ==
  ASSUME Base
  PROVE  \E rest : rest \in Rest
<1>1. CASE Busy = {}
  BY <1>1 DEF Rest
<1>2. CASE Busy # {}
  BY <1>2 DEF Rest
<1>3. QED
  BY <1>1, <1>2

\* What is left of a way when the first of it are gone.
LEMMA LaneEnd ==
  ASSUME NEW a \in Seq(Piece), NEW b \in Seq(Piece), Lane(a \o b)
  PROVE  Straight(b) /\ Complete(b) /\ Ahead(b)
<1>1. PICK m, way : m = Len(a) /\ way = a \o b
  OBVIOUS
<1>2. /\ m \in Nat /\ Len(b) \in Nat /\ Len(way) = m + Len(b)
      /\ \A i \in 1..Len(b) : m + i \in 1..Len(way) /\ way[m + i] = b[i]
      /\ b # <<>> => Len(b) > 0
  BY <1>1, Parts
<1>3. Straight(way) /\ Complete(way) /\ Ahead(way)
  BY <1>1 DEF Lane
<1>4. Straight(b)
  BY <1>1, <1>3, StraightEnd
<1>5. Complete(b)
  <2> SUFFICES ASSUME open, b # <<>> PROVE b[Len(b)].id = Len(sent) /\ Last(b[Len(b)])
    BY DEF Complete
  <2>1. Len(b) \in 1..Len(b) /\ m + Len(b) = Len(way) /\ Len(way) \in 1..Len(way)
    BY <1>2
  <2>2. way[Len(way)] = b[Len(b)] /\ way # <<>>
    BY <1>2, <2>1
  <2>3. QED
    BY <1>3, <2>2 DEF Complete
<1>6. ASSUME NEW k \in Accepted, NEW i \in 1..Len(b) PROVE delivered[k][1].id < b[i].id
  <2>1. PICK j : j = m + i
    OBVIOUS
  <2>2. j \in 1..Len(way) /\ way[j] = b[i]
    BY <1>2, <2>1
  <2>3. QED
    BY <1>3, <2>2 DEF Ahead
<1>7. QED
  BY <1>4, <1>5, <1>6 DEF Ahead

-----------------------------------------------------------------------------
(* The steps keep the order                                                *)

LEMMA InitOrder ==
  ASSUME FramesInit
  PROVE  InOrder
<1>1. /\ out = [s \in link.senders |-> <<>>] /\ stream = <<>> /\ reader.units = <<>>
      /\ sent = <<>> /\ delivered = <<>> /\ lost = FALSE /\ refused = FALSE
  BY IdleIs DEF FramesInit
<1>2. Base
  BY InitBase
<1>3. Lone
  BY <1>1 DEF Lone, Busy
<1>4. Rest = {<<>>}
  BY <1>1, <1>2, <1>3, RestIs
<1>5. <<>> \o <<>> = <<>> /\ Len(<<>>) = 0
  OBVIOUS
<1>6. Ways = {<<>>}
  BY <1>1, <1>4, <1>5 DEF Ways
<1>7. Lane(<<>>)
  BY <1>1, <1>5 DEF Lane, Straight, Complete, Ahead, Gapless
<1>8. Accepted = {}
  BY <1>1 DEF Accepted
<1>9. Arrived /\ Agreed
  BY <1>1, <1>5, <1>8 DEF Arrived, Agreed
<1>10. QED
  BY <1>3, <1>6, <1>7, <1>9 DEF InOrder, Lanes

\* A sender that is alone begins a frame where the last one ended.
LEMMA BeginOrder ==
  ASSUME Sane, Base, InOrder, NEW s \in DOMAIN out, NEW size \in 0..MaxPayload + 1,
         BeginFrame(s, size)
  PROVE  InOrder'
<1> SUFFICES ASSUME ~overlapped' PROVE Lone' /\ Lanes' /\ Arrived' /\ Agreed'
  BY DEF InOrder
<1>1. PICK units \in Seq(Piece) :
        /\ size \in Nat /\ IsFrameOf(units, Len(sent) + 1, size)
        /\ sent' = Append(sent, units) /\ out' = [out EXCEPT ![s] = units]
        /\ overlapped' = (overlapped \/ \E r \in DOMAIN out : out[r] # <<>>)
        /\ open /\ UNCHANGED <<link, stream, open, reader, delivered, lost, refused>>
  BY BeginIs
<1>2. ~overlapped /\ \A r \in link.senders : out[r] = <<>>
  BY <1>1 DEF Base, TypeOK
<1>3. Lone /\ Lanes /\ Arrived /\ Agreed
  BY <1>2 DEF InOrder
<1>4. /\ sent \in Seq(Seq(Piece)) /\ Len(sent) \in Nat /\ Len(sent') = Len(sent) + 1
      /\ \A id \in 1..Len(sent) : id \in 1..Len(sent') /\ sent'[id] = sent[id]
      /\ out \in [link.senders -> Seq(Piece)] /\ s \in link.senders
  BY <1>1 DEF Base, TypeOK
<1>5. Len(units) >= HeaderUnits /\ units # <<>>
  BY <1>1 DEF IsFrameOf, Signed
<1>6. Busy' = {s}
  BY <1>1, <1>2, <1>4, <1>5 DEF Busy
<1>7. Lone' /\ Rest' = {units}
  BY <1>1, <1>4, <1>6 DEF Lone, Rest
<1>8. PICK front : front = reader.units \o stream
  OBVIOUS
<1>9. /\ front \in Seq(Piece) /\ Sounds(front) /\ Lane(front)
  <2>1. <<>> \in Rest
    BY <1>2, <1>3, RestIs
  <2>2. front \in Seq(Piece) /\ Sounds(front) /\ front \o <<>> \in Ways
    BY <1>8, <2>1, WaysAre
  <2>3. front \o <<>> = front
    BY <2>2, ConcatEmptySeq
  <2>4. QED
    BY <1>3, <2>2, <2>3 DEF Lanes
<1>10. PICK way : way = front \o units
  OBVIOUS
<1>11. /\ Straight(way)' /\ way # <<>>
       /\ \A k \in 1..Len(way) : (k \in 1..Len(front) /\ way[k] = front[k])
                                \/ way[k].id = Len(sent) + 1
       /\ way[Len(way)].id = Len(sent') /\ Last(way[Len(way)])'
       /\ front = <<>> => way[1].id = Len(sent) + 1 /\ way[1].part = 1
       /\ front # <<>> => way[1] = front[1]
  <2>1. /\ front \in Seq(Piece) /\ Sounds(front) /\ Straight(front) /\ Complete(front)
        /\ open /\ units \in Seq(Piece) /\ size \in Nat
        /\ IsFrameOf(units, Len(sent) + 1, size) /\ sent' = Append(sent, units)
        /\ way = front \o units
    BY <1>1, <1>9, <1>10 DEF Lane
  <2>2. QED
    <3>1. Prolongs(way, front)
      BY <2>1, StraightMore
    <3>2. QED
      BY <3>1 DEF Prolongs
<1>12. Accepted' = Accepted
  BY <1>1 DEF Accepted
<1>13. Complete(way)'
  BY <1>11 DEF Complete
<1>14. Ahead(way)'
  <2>1. ASSUME NEW k \in Accepted, NEW i \in 1..Len(way) PROVE delivered[k][1].id < way[i].id
    <3>1. CASE i \in 1..Len(front) /\ way[i] = front[i]
      BY <1>9, <3>1 DEF Lane, Ahead
    <3>2. CASE way[i].id = Len(sent) + 1
      BY <1>3, <1>4, <3>2 DEF Arrived
    <3>3. QED
      BY <1>11, <3>1, <3>2
  <2>2. QED
    BY <1>1, <1>12, <2>1 DEF Ahead
<1>15. Gapless(way)'
  <2> SUFFICES ASSUME ~lost
               PROVE  way[1].part = 1 /\ (~refused => way[1].id = Len(delivered) + 1)
    BY <1>1, <1>11 DEF Gapless
  <2>1. CASE front = <<>>
    <3>1. ~refused => Len(delivered) = Len(sent)
      BY <1>1, <1>9, <2>1 DEF Lane, Gapless
    <3>2. QED
      BY <1>11, <2>1, <3>1
  <2>2. CASE front # <<>>
    BY <1>9, <1>11, <2>2 DEF Lane, Gapless
  <2>3. QED
    BY <2>1, <2>2
<1>16. Lanes'
  <2>1. Ways' = {way}
    BY <1>1, <1>7, <1>8, <1>10 DEF Ways
  <2>2. Lane(way)'
    BY <1>11, <1>13, <1>14, <1>15 DEF Lane
  <2>3. QED
    BY <2>1, <2>2 DEF Lanes
<1>17. Arrived'
  <2>1. ASSUME NEW id \in 1..Len(sent) PROVE Expected(id)' = Expected(id)
    BY <1>1, <1>4 DEF Expected
  <2>2. ASSUME NEW k \in Accepted
        PROVE  delivered[k][1].id \in 1..Len(sent') /\ delivered[k] = Expected(delivered[k][1].id)'
    <3>1. PICK id : id = delivered[k][1].id
      OBVIOUS
    <3>2. id \in 1..Len(sent) /\ delivered[k] = Expected(id)
      BY <1>3, <3>1 DEF Arrived
    <3>3. id \in 1..Len(sent') /\ Expected(id)' = Expected(id)
      BY <1>4, <2>1, <3>2
    <3>4. QED
      BY <1>1, <3>1, <3>2, <3>3 DEF Expected
  <2>3. ~lost /\ ~refused => /\ Len(delivered) <= Len(sent')
                             /\ \A i \in 1..Len(delivered) : delivered[i] = Expected(i)'
    <3> SUFFICES ASSUME ~lost, ~refused
                 PROVE  /\ Len(delivered) <= Len(sent')
                        /\ \A i \in 1..Len(delivered) : delivered[i] = Expected(i)'
      OBVIOUS
    <3>1. /\ Len(delivered) <= Len(sent) /\ Len(delivered) \in Nat
          /\ \A i \in 1..Len(delivered) : delivered[i] = Expected(i)
      BY <1>3 DEF Arrived, Base, TypeOK
    <3>2. \A i \in 1..Len(delivered) : i \in 1..Len(sent)
      BY <1>4, <3>1
    <3>3. QED
      BY <1>4, <2>1, <3>1, <3>2
  <2>4. lost /\ open /\ link.kind = "tcp" =>
          \E i \in 1..Len(sent') : Len(sent'[i]) > HeaderUnits + MaxPayload
    BY <1>3, <1>4 DEF Arrived
  <2>5. \A k, m \in Accepted : k < m => delivered[k][1].id < delivered[m][1].id
    BY <1>3 DEF Arrived
  <2>6. QED
    BY <1>1, <1>12, <2>2, <2>3, <2>4, <2>5 DEF Arrived
<1>18. Agreed'
  BY <1>1, <1>3 DEF Agreed
<1>19. QED
  BY <1>7, <1>16, <1>17, <1>18

\* What is written moves along the way.
LEMMA WriteOrder ==
  ASSUME Base, InOrder, NEW s \in DOMAIN out, WriteUnits(s)
  PROVE  InOrder'
<1> SUFFICES ASSUME ~overlapped' PROVE Lone' /\ Lanes' /\ Arrived' /\ Agreed'
  BY DEF InOrder
<1>1. PICK n \in 1..Len(out[s]), head, tail \in Seq(Piece) :
        /\ head = SubSeq(out[s], 1, n) /\ tail = SubSeq(out[s], n + 1, Len(out[s]))
        /\ out[s] # <<>>
        /\ stream' = stream \o head /\ out' = [out EXCEPT ![s] = tail]
        /\ UNCHANGED <<link, open, reader, sent, delivered, ghosts>>
  BY WriteIs
<1>2. Lone /\ Lanes /\ Arrived /\ Agreed
  BY <1>1 DEF InOrder, ghosts
<1>3. /\ out \in [link.senders -> Seq(Piece)] /\ s \in link.senders
      /\ stream \in Seq(Piece) /\ reader.units \in Seq(Piece) /\ out[s] \in Seq(Piece)
  BY DEF Base, TypeOK
<1>4. Busy = {s} /\ Rest = {out[s]}
  BY <1>1, <1>2, <1>3, RestIs DEF Busy, Lone
<1>5. \A r \in link.senders : out'[r] # <<>> => r = s
  BY <1>1, <1>3, <1>4 DEF Busy
<1>6. Lone'
  BY <1>1, <1>5 DEF Lone, Busy
<1>7. Rest' = {tail}
  <2>1. out'[s] = tail
    BY <1>1, <1>3
  <2>2. CASE tail = <<>>
    <3>1. Busy' = {}
      BY <1>1, <1>5, <2>1, <2>2 DEF Busy
    <3>2. QED
      BY <2>2, <3>1 DEF Rest
  <2>3. CASE tail # <<>>
    <3>1. Busy' = {s}
      BY <1>1, <1>3, <1>5, <2>1, <2>3 DEF Busy
    <3>2. QED
      BY <2>1, <3>1 DEF Rest
  <2>4. QED
    BY <2>2, <2>3
<1>8. (reader.units \o (stream \o head)) \o tail = (reader.units \o stream) \o out[s]
  <2>1. n \in 0..Len(out[s])
    BY <1>3
  <2>2. head \o tail = out[s]
    BY <1>1, <1>3, <2>1, Rejoined
  <2>3. PICK front : front = reader.units \o stream
    OBVIOUS
  <2>4. front \in Seq(Piece)
    BY <1>3, <2>3, Joined
  <2>5. reader.units \o (stream \o head) = front \o head
    <3>1. reader.units \in Seq(Piece) /\ stream \in Seq(Piece) /\ head \in Seq(Piece)
      BY <1>1, <1>3
    <3>2. (reader.units \o stream) \o head = reader.units \o (stream \o head)
      BY <3>1, Regrouped
    <3>3. QED
      BY <2>3, <3>2
  <2>6. (front \o head) \o tail = front \o (head \o tail)
    <3>1. front \in Seq(Piece) /\ head \in Seq(Piece) /\ tail \in Seq(Piece)
      BY <1>1, <2>4
    <3>2. QED
      BY <3>1, Regrouped
  <2>7. QED
    BY <2>2, <2>3, <2>5, <2>6
<1>9. Ways' = Ways
  BY <1>1, <1>4, <1>7, <1>8 DEF Ways
<1>10. /\ \A way : Lane(way)' <=> Lane(way)
       /\ (Arrived' <=> Arrived) /\ (Agreed' <=> Agreed)
  BY <1>1, OrderKept DEF ghosts
<1>11. QED
  BY <1>2, <1>6, <1>9, <1>10 DEF Lanes

\* The end of the way is gone with the sender.
LEMMA CloseOrder ==
  ASSUME Base, InOrder, CloseStream
  PROVE  InOrder'
<1> SUFFICES ASSUME ~overlapped' PROVE Lone' /\ Lanes' /\ Arrived' /\ Agreed'
  BY DEF InOrder
<1>1. /\ open' = FALSE /\ out' = [s \in DOMAIN out |-> <<>>]
      /\ UNCHANGED <<link, stream, reader, sent, delivered, ghosts>>
  BY DEF CloseStream
<1>2. Lone /\ Lanes /\ Arrived /\ Agreed
  BY <1>1 DEF InOrder, ghosts
<1>3. Busy' = {} /\ Lone' /\ Rest' = {<<>>}
  BY <1>1 DEF Busy, Lone, Rest, Base, TypeOK
<1>4. PICK rest : rest \in Rest
  BY RestThere
<1>5. PICK front, way : front = reader.units \o stream /\ way = front \o rest
  OBVIOUS
<1>6. /\ front \in Seq(Piece) /\ rest \in Seq(Piece) /\ Lane(way)
  BY <1>2, <1>4, <1>5, WaysAre DEF Lanes
<1>7. Ways' = {front}
  <2>1. front \o <<>> = front
    BY <1>6, ConcatEmptySeq
  <2>2. QED
    BY <1>1, <1>3, <1>5, <2>1 DEF Ways
<1>8. \A i \in 1..Len(front) : i \in 1..Len(way) /\ way[i] = front[i]
  BY <1>5, <1>6, Parts
<1>9. Accepted' = Accepted /\ \A id : Expected(id)' = Expected(id)
  BY <1>1 DEF Accepted, Expected
<1>10. Straight(front)'
  <2>1. Straight(front)
    BY <1>5, <1>6, StraightBegin DEF Lane
  <2>2. QED
    BY <1>1, <2>1 DEF Straight, Last
<1>11. Complete(front)'
  BY <1>1 DEF Complete
<1>12. Ahead(front)'
  <2>1. Ahead(front)
    BY <1>6, <1>8 DEF Lane, Ahead
  <2>2. QED
    BY <1>1, <1>9, <2>1 DEF Ahead
<1>13. Gapless(front)'
  <2>1. front # <<>> => 1 \in 1..Len(front)
    BY <1>6
  <2>2. front # <<>> => way # <<>> /\ way[1] = front[1]
    <3>1. front # <<>> => 1 \in 1..Len(way) /\ way[1] = front[1]
      BY <1>8, <2>1
    <3>2. way = <<>> => ~(1 \in 1..Len(way))
      OBVIOUS
    <3>3. QED
      BY <3>1, <3>2
  <2>3. QED
    BY <1>1, <1>6, <2>2 DEF Lane, Gapless, ghosts
<1>14. Arrived'
  BY <1>1, <1>2, <1>9 DEF Arrived, ghosts
<1>15. Agreed'
  BY <1>1, <1>2 DEF Agreed, ghosts
<1>16. QED
  BY <1>3, <1>7, <1>10, <1>11, <1>12, <1>13, <1>14, <1>15 DEF Lanes, Lane

\* A receive that ends gives up what it has read, and says so.
LEMMA StopsOrder ==
  ASSUME Base, InOrder, TimeoutInside \/ StreamEnd
  PROVE  InOrder'
<1> SUFFICES ASSUME ~overlapped' PROVE Lone' /\ Lanes' /\ Arrived' /\ Agreed'
  BY DEF InOrder
<1>1. /\ UNCHANGED <<link, out, stream, open, sent, delivered, overlapped, refused>>
      /\ stream = <<>> /\ reader'.units = <<>>
      /\ lost' = TRUE \/ (lost' = lost /\ reader.units = <<>>)
      /\ link.kind # "tcp" \/ ~open
  <2>1. PICK at : reader' = [IdleReader EXCEPT !.at = at]
    BY DEF TimeoutInside, StreamEnd, Throws
  <2>2. reader'.units = <<>>
    BY <2>1, IdleIs DEF Reader
  <2>3. lost' = TRUE \/ (lost' = lost /\ reader.units = <<>>)
    BY DEF TimeoutInside, StreamEnd, Inside, Base, TypeOK
  <2>4. link.kind # "tcp" \/ ~open
    BY DEF TimeoutInside, StreamEnd
  <2>5. QED
    BY <2>2, <2>3, <2>4 DEF TimeoutInside, StreamEnd
<1>2. Lone /\ Lanes /\ Arrived /\ Agreed
  BY <1>1 DEF InOrder
<1>3. Lone' /\ Rest' = Rest
  BY <1>1, <1>2 DEF Lone, Rest, Busy
<1>4. Accepted' = Accepted /\ \A id : Expected(id)' = Expected(id)
  BY <1>1 DEF Accepted, Expected
<1>5. ASSUME NEW rest \in Rest PROVE Lane(rest)'
  <2>1. PICK a : a = reader.units
    OBVIOUS
  <2>2. a \in Seq(Piece) /\ rest \in Seq(Piece) /\ a \o <<>> = a
    <3>1. a \in Seq(Piece)
      BY <2>1 DEF Base, TypeOK
    <3>2. QED
      BY <1>5, <3>1, WaysAre, ConcatEmptySeq
  <2>3. Lane(a \o rest)
    <3>1. (reader.units \o stream) \o rest = a \o rest
      BY <1>1, <2>1, <2>2
    <3>2. QED
      BY <1>2, <1>5, <3>1 DEF Lanes, Ways
  <2>4. Straight(rest) /\ Complete(rest) /\ Ahead(rest)
    BY <2>2, <2>3, LaneEnd
  <2>5. lost' = lost => Gapless(rest) \/ lost' = TRUE
    <3>1. CASE a = <<>>
      <4>1. a \o rest = rest
        BY <2>2, <3>1, ConcatEmptySeq
      <4>2. QED
        BY <2>3, <4>1 DEF Lane
    <3>2. CASE a # <<>>
      BY <1>1, <2>1, <3>2
    <3>3. QED
      BY <3>1, <3>2
  <2>6. Gapless(rest)'
    BY <1>1, <2>5 DEF Gapless
  <2>7. Straight(rest)' /\ Complete(rest)'
    BY <1>1, <2>4 DEF Straight, Complete, Last
  <2>8. Ahead(rest)'
    BY <1>1, <1>4, <2>4 DEF Ahead
  <2>9. QED
    BY <2>6, <2>7, <2>8 DEF Lane
<1>6. Lanes'
  <2>1. ASSUME NEW way \in Ways' PROVE way \in Rest
    <3>1. PICK rest \in Rest : way = (<<>> \o <<>>) \o rest
      BY <1>1, <1>3 DEF Ways
    <3>2. rest \in Seq(Piece) /\ <<>> \in Seq(Piece)
      BY WaysAre
    <3>3. <<>> \o <<>> = <<>> /\ <<>> \o rest = rest
      BY <3>2, ConcatEmptySeq
    <3>4. QED
      BY <3>1, <3>3
  <2>2. QED
    BY <1>5, <2>1 DEF Lanes
<1>7. Arrived'
  BY <1>1, <1>2, <1>4 DEF Arrived
<1>8. Agreed'
  BY <1>1, <1>2 DEF Agreed
<1>9. QED
  BY <1>3, <1>6, <1>7, <1>8

\* What is signed verifies under the same key.
LEMMA SignedVerifies ==
  ASSUME link \in Links, NEW id \in Nat, NEW size \in Nat, link.sign # NoKey,
         link.sign = link.check, link.kind # "tls", NEW f, f = Frame(id, size)
  PROVE  Verified(f)
<1>1. PICK key : key = link.sign
  OBVIOUS
<1>2. key \in Keys /\ f = Secured(Plain(id, size), key)
  BY <1>1 DEF Keys, Frame
<1>3. IsSigned(f, key, id, size)
  BY <1>2, SecuredIs
<1>4. PICK m : m = SubSeq(f, 1, Len(f) - 1)
  OBVIOUS
<1>5. /\ f \in Seq(Piece) /\ Len(f) = HeaderUnits + size + 1 /\ Len(f) > HeaderUnits
      /\ m = Resized(Plain(id, size), size + 1)
      /\ f[Len(f)].tag = <<key, Plain(id, size)>>
  BY <1>3, <1>4 DEF IsSigned
<1>6. Len(m) - HeaderUnits = size
  <2>1. Len(f) - 1 \in 0..Len(f)
    BY <1>5
  <2>2. Len(m) = Len(f) - 1
    BY <1>4, <1>5, <2>1, Cut
  <2>3. QED
    BY <1>5, <2>2
<1>7. Resized(m, size) = Plain(id, size)
  <2>1. size + 1 \in Nat
    OBVIOUS
  <2>2. QED
    BY <1>5, <2>1, ResizedBack
<1>8. QED
  BY <1>1, <1>4, <1>5, <1>6, <1>7 DEF Verified

\* What a read takes and what it leaves are the way.
LEMMA ReadWay ==
  ASSUME Base, NEW n \in 1..Len(stream), NEW units \in Seq(Piece), Takes(n, units),
         NEW rest \in Rest
  PROVE  /\ stream' \o rest \in Seq(Piece) /\ stream' \in Seq(Piece) /\ rest \in Seq(Piece)
         /\ (units \o stream') \o rest = (reader.units \o stream) \o rest
         /\ units \o (stream' \o rest) = (reader.units \o stream) \o rest
<1>1. PICK a, b, c : /\ a = reader.units /\ b = SubSeq(stream, 1, n)
                     /\ c = SubSeq(stream, n + 1, Len(stream))
  OBVIOUS
<1>2. /\ a \in Seq(Piece) /\ stream \in Seq(Piece) /\ n \in 0..Len(stream)
      /\ rest \in Seq(Piece)
  BY <1>1, WaysAre DEF Base, TypeOK
<1>3. b \in Seq(Piece) /\ c \in Seq(Piece) /\ b \o c = stream
  BY <1>1, <1>2, Cut, Rejoined
<1>4. units = a \o b /\ stream' = c
  BY <1>1 DEF Takes
<1>5. c \o rest \in Seq(Piece)
  BY <1>2, <1>3, Joined
<1>6. (a \o b) \o c = a \o (b \o c)
  <2>1. a \in Seq(Piece) /\ b \in Seq(Piece) /\ c \in Seq(Piece)
    BY <1>2, <1>3
  <2>2. QED
    BY <2>1, Regrouped
<1>7. (units \o c) \o rest = units \o (c \o rest)
  <2>1. units \in Seq(Piece) /\ c \in Seq(Piece) /\ rest \in Seq(Piece)
    BY <1>2, <1>3
  <2>2. QED
    BY <2>1, Regrouped
<1>8. units \o c = a \o stream
  BY <1>3, <1>4, <1>6
<1>9. (units \o c) \o rest = (a \o stream) \o rest
  BY <1>8
<1>10. QED
  BY <1>1, <1>2, <1>3, <1>4, <1>5, <1>7, <1>9

\* The units are one frame, all of it.
Whole(units) ==
  LET u == units[Len(units)]
  IN /\ u.id \in 1..Len(sent) /\ units = sent[u.id] /\ Last(u)
     /\ IsHeader(units) /\ units[1].id = u.id

\* Units that completed, and what comes behind them.
Ended(units, b) ==
  LET u == units[Len(units)]
  IN /\ ~lost => Whole(units) /\ (~refused => u.id = Len(delivered) + 1)
     /\ IsHeader(units) => Whole(units)
     /\ Last(u) => /\ \A i \in 1..Len(b) : b[i].id > u.id
                   /\ b # <<>> => b[1].part = 1 /\ b[1].id = u.id + 1
     /\ \A k \in Accepted : delivered[k][1].id < u.id
     /\ open /\ b = <<>> => u.id = Len(sent)

LEMMA EndedIs ==
  ASSUME Base, NEW units \in Seq(Piece), NEW b \in Seq(Piece), Lane(units \o b), Sounds(units),
         Completes(units)
  PROVE  Ended(units, b)
<1>1. PICK m, u, way : m = Len(units) /\ u = units[m] /\ way = units \o b
  OBVIOUS
<1>2. /\ m \in Nat /\ m >= HeaderUnits /\ 1 \in 1..m /\ m \in 1..m /\ units # <<>>
      /\ IsHeader(units) => m = HeaderUnits + units[1].size
  BY <1>1 DEF Completes
<1>3. /\ way \in Seq(Piece) /\ Len(way) = m + Len(b) /\ Len(way) \in Nat
      /\ \A i \in 1..m : i \in 1..Len(way) /\ way[i] = units[i]
  BY <1>1, Parts, Joined
<1>4. way # <<>> /\ way[1] = units[1] /\ m \in 1..Len(way) /\ way[m] = u
  <2>1. 1 \in 1..Len(way) /\ way[1] = units[1] /\ m \in 1..Len(way) /\ way[m] = u
    BY <1>1, <1>2, <1>3
  <2>2. QED
    BY <2>1
<1>5. Straight(way) /\ Complete(way) /\ Ahead(way) /\ Gapless(way)
  BY <1>1 DEF Lane
<1>6. Straight(units)
  BY <1>1, <1>5, StraightBegin
<1>7. IsHeader(units) => Whole(units)
  BY <1>1, <1>2, <1>6, WholeFrame DEF Whole
<1>8. ~lost => IsHeader(units) /\ (~refused => units[1].id = Len(delivered) + 1)
  <2> SUFFICES ASSUME ~lost
               PROVE  IsHeader(units) /\ (~refused => units[1].id = Len(delivered) + 1)
    OBVIOUS
  <2>1. units[1].part = 1 /\ (~refused => units[1].id = Len(delivered) + 1)
    BY <1>4, <1>5 DEF Gapless
  <2>2. QED
    BY <1>1, <1>2, <1>6, <2>1, HeaderFirst
<1>9. ~lost => Whole(units) /\ (~refused => u.id = Len(delivered) + 1)
  BY <1>1, <1>7, <1>8 DEF Whole
<1>10. Last(u) => /\ \A i \in 1..Len(b) : b[i].id > u.id
                  /\ b # <<>> => b[1].part = 1 /\ b[1].id = u.id + 1
  BY <1>1, <1>2, <1>5, StraightEnd
<1>11. \A k \in Accepted : delivered[k][1].id < u.id
  BY <1>4, <1>5 DEF Ahead
<1>12. open /\ b = <<>> => u.id = Len(sent)
  <2> SUFFICES ASSUME open, b = <<>> PROVE u.id = Len(sent)
    OBVIOUS
  <2>1. Len(way) = m
    BY <1>2, <1>3
  <2>2. QED
    BY <1>4, <1>5, <2>1 DEF Complete
<1>13. QED
  BY <1>1, <1>7, <1>9, <1>10, <1>11, <1>12 DEF Ended

\* A frame that was refused: only where the keys are not the same at both
\* ends, or TLS has marked the header, or something was lost.
LEMMA RefusedIs ==
  ASSUME Base, NEW units \in Seq(Piece), Whole(units), Refuses(units)
  PROVE  link.sign # link.check \/ link.kind = "tls"
<1> SUFFICES ASSUME link.sign = link.check, link.kind # "tls" PROVE FALSE
  OBVIOUS
<1>1. PICK id : id = units[Len(units)].id
  OBVIOUS
<1>2. id \in 1..Len(sent) /\ units = sent[id] /\ Len(sent) \in Nat /\ link \in Links
  BY <1>1 DEF Whole, Base, TypeOK
<1>3. PICK size \in Nat : units = Frame(id, size)
  BY <1>2 DEF Base, Framed
<1>4. id \in Nat /\ link.sign # NoKey
  BY <1>2 DEF Refuses
<1>5. Verified(units)
  BY <1>2, <1>3, <1>4, SignedVerifies
<1>6. QED
  BY <1>5 DEF Refuses

\* What is delivered is the next message, or no header and something was lost.
Fresh(got, u) ==
  /\ Last(u) /\ u.id \in 1..Len(sent) /\ Len(got) >= HeaderUnits /\ IsHeader(got)
  /\ got[1].id = u.id /\ got = Expected(u.id)

LEMMA GotIs ==
  ASSUME Base, NEW units \in Seq(Piece), NEW b \in Seq(Piece), Sounds(units), Completes(units),
         Ended(units, b), NEW got \in Seq(Piece), Delivers(units, got)
  PROVE  Fresh(got, units[Len(units)]) \/ (lost /\ ~IsHeader(got))
<1>1. PICK u, id, size : u = units[Len(units)] /\ id = u.id
                         /\ size = Len(sent[id]) - HeaderUnits - 1
  OBVIOUS
<1>2. CASE link.check = NoKey
  <2>1. got = units /\ Len(got) >= HeaderUnits
    BY <1>2 DEF Delivers, Completes
  <2>2. CASE IsHeader(units)
    <3>1. Whole(units)
      BY <2>2 DEF Ended
    <3>2. Last(u) /\ id \in 1..Len(sent) /\ got[1].id = id /\ got = sent[id]
      BY <1>1, <2>1, <3>1 DEF Whole
    <3>3. got = Expected(id)
      BY <1>2, <3>2 DEF Expected
    <3>4. QED
      BY <1>1, <2>1, <2>2, <3>2, <3>3 DEF Fresh
  <2>3. CASE ~IsHeader(units)
    BY <2>1, <2>3 DEF Ended, Whole
  <2>4. QED
    BY <2>2, <2>3
<1>3. CASE link.check # NoKey
  <2>1. Verified(units) /\ got = Stripped(units)
    BY <1>3 DEF Delivers
  <2>2. /\ link.sign = link.check /\ link.sign # NoKey
        /\ id \in 1..Len(sent) /\ u.part = Len(sent[id]) /\ size \in Nat
        /\ got = Plain(id, size)
    BY <1>1, <2>1, VerifiedIs DEF Base
  <2>3. id \in Nat
    BY <2>2 DEF Base, TypeOK
  <2>4. IsPlain(got, id, size)
    BY <2>2, <2>3, PlainIs
  <2>5. 1 \in 1..Len(got) /\ 2 \in 1..Len(got) /\ Len(got) >= HeaderUnits
    BY <2>2, <2>4 DEF IsPlain
  <2>6. got[1].id = id /\ IsHeader(got)
    BY <2>4, <2>5 DEF IsPlain, IsHeader
  <2>7. got = Expected(id)
    BY <1>1, <1>3, <2>2 DEF Expected
  <2>8. Last(u)
    BY <1>1, <2>2 DEF Last
  <2>9. QED
    BY <1>1, <2>2, <2>5, <2>6, <2>7, <2>8 DEF Fresh
<1>4. QED
  BY <1>2, <1>3

\* What is left of the way when a receive is over.
Behind(units, way) == \E b \in Seq(Piece) : way = b /\ Lane(units \o b)

LEMMA ReadOrder ==
  ASSUME Sane, Base, InOrder, ReadUnits
  PROVE  InOrder'
<1> SUFFICES ASSUME ~overlapped' PROVE Lone' /\ Lanes' /\ Arrived' /\ Agreed'
  BY DEF InOrder
<1>1. PICK n \in 1..Len(stream), units \in Seq(Piece) :
        /\ Takes(n, units) /\ Sounds(units)
        /\ GoesOn(units) \/ GivesUp(units) \/ Completes(units)
  BY ReadIs
<1>2. UNCHANGED <<link, out, open, sent, overlapped>>
  BY <1>1 DEF Takes
<1>3. Lone /\ Lanes /\ Arrived /\ Agreed
  BY <1>2 DEF InOrder
<1>4. Lone' /\ Rest' = Rest
  BY <1>2, <1>3 DEF Lone, Rest, Busy
<1>5. CASE GoesOn(units)
  <2>1. reader'.units = units /\ UNCHANGED <<delivered, refused, lost>>
    BY <1>5 DEF GoesOn
  <2>2. \A rest \in Rest : (units \o stream') \o rest = (reader.units \o stream) \o rest
    BY <1>1, ReadWay
  <2>3. ASSUME NEW way \in Ways' PROVE way \in Ways
    BY <1>4, <2>1, <2>2, <2>3 DEF Ways
  <2>4. /\ \A way : Lane(way)' <=> Lane(way)
        /\ (Arrived' <=> Arrived) /\ (Agreed' <=> Agreed)
    BY <1>2, <2>1, OrderKept
  <2>5. QED
    BY <1>3, <1>4, <2>3, <2>4 DEF Lanes
<1>6. ASSUME reader' = IdleReader, NEW way \in Ways' PROVE Behind(units, way)
  <2>1. reader'.units = <<>>
    BY <1>6, IdleIs
  <2>2. PICK rest \in Rest : way = (<<>> \o stream') \o rest
    BY <1>4, <1>6, <2>1 DEF Ways
  <2>3. /\ stream' \o rest \in Seq(Piece) /\ stream' \in Seq(Piece)
        /\ units \o (stream' \o rest) = (reader.units \o stream) \o rest
    BY <1>1, ReadWay
  <2>4. <<>> \o stream' = stream'
    BY <2>3, ConcatEmptySeq
  <2>5. (reader.units \o stream) \o rest \in Ways
    BY DEF Ways
  <2>6. Lane(units \o (stream' \o rest))
    BY <1>3, <2>3, <2>5 DEF Lanes
  <2>7. QED
    BY <2>2, <2>3, <2>4, <2>6 DEF Behind
<1>7. PICK b \in Seq(Piece) : Lane(units \o b)
  <2>1. PICK rest : rest \in Rest
    BY RestThere
  <2>2. (reader.units \o stream) \o rest \in Ways
    BY <2>1 DEF Ways
  <2>3. /\ stream' \o rest \in Seq(Piece)
        /\ units \o (stream' \o rest) = (reader.units \o stream) \o rest
    BY <1>1, <2>1, ReadWay
  <2>4. QED
    BY <1>3, <2>2, <2>3 DEF Lanes
<1>8. CASE GivesUp(units)
  <2>1. /\ reader' = IdleReader /\ lost' = TRUE /\ UNCHANGED <<delivered, refused>>
        /\ link.kind = "tcp" =>
             Len(units) = HeaderUnits /\ (IsHeader(units) => units[1].size > MaxPayload)
    BY <1>8 DEF GivesUp
  <2>2. Accepted' = Accepted /\ \A id : Expected(id)' = Expected(id)
    BY <1>2, <2>1 DEF Accepted, Expected
  <2>3. ASSUME NEW c \in Seq(Piece), Lane(units \o c) PROVE Lane(c)'
    <3>1. Straight(c) /\ Complete(c) /\ Ahead(c)
      BY <2>3, LaneEnd
    <3>2. Straight(c)' /\ Complete(c)'
      BY <1>2, <3>1 DEF Straight, Complete, Last
    <3>3. Ahead(c)'
      BY <2>1, <2>2, <3>1 DEF Ahead
    <3>4. Gapless(c)'
      BY <2>1 DEF Gapless
    <3>5. QED
      BY <3>2, <3>3, <3>4 DEF Lane
  <2>4. Lanes'
    BY <1>6, <2>1, <2>3 DEF Lanes, Behind
  <2>5. link.kind = "tcp" /\ open => \E i \in 1..Len(sent) : Len(sent[i]) > HeaderUnits + MaxPayload
    <3> SUFFICES ASSUME link.kind = "tcp", open
                 PROVE  \E i \in 1..Len(sent) : Len(sent[i]) > HeaderUnits + MaxPayload
      OBVIOUS
    <3>1. CASE lost
      BY <1>3, <3>1 DEF Arrived
    <3>2. CASE ~lost
      <4>1. PICK way : way = units \o b
        OBVIOUS
      <4>2. Len(units) = HeaderUnits /\ 1 \in 1..Len(units)
        BY <2>1
      <4>3. 1 \in 1..Len(way) /\ way[1] = units[1]
        BY <1>7, <4>1, <4>2, Parts
      <4>4. way # <<>>
        BY <4>3
      <4>5. units[1].part = 1 /\ Straight(units)
        <5>1. Gapless(way) /\ Straight(units \o b)
          BY <1>7, <4>1 DEF Lane
        <5>2. QED
          BY <3>2, <1>7, <4>3, <4>4, <5>1, StraightBegin DEF Gapless
      <4>6. PICK id : id = units[1].id
        OBVIOUS
      <4>7. IsHeader(units) /\ id \in 1..Len(sent) /\ units[1].size = Len(sent[id]) - HeaderUnits
        <5>1. /\ Sounds(units) /\ Straight(units) /\ Len(units) >= HeaderUnits
              /\ units[1].part = 1
          BY <1>1, <4>2, <4>5
        <5>2. QED
          BY <4>6, <5>1, HeaderFirst
      <4>8. Len(sent[id]) - HeaderUnits > MaxPayload /\ Len(sent[id]) \in Nat
        BY <2>1, <4>7, SentIs DEF Base
      <4>9. Len(sent[id]) > HeaderUnits + MaxPayload
        BY <4>8 DEF Sane
      <4>10. QED
        BY <4>7, <4>9
    <3>3. QED
      BY <3>1, <3>2
  <2>6. Arrived'
    BY <1>2, <1>3, <2>1, <2>2, <2>5 DEF Arrived
  <2>7. Agreed'
    BY <2>1 DEF Agreed
  <2>8. QED
    BY <1>4, <2>4, <2>6, <2>7
<1>9. CASE Completes(units)
  <2>1. /\ reader' = IdleReader /\ lost' = lost
        /\ Refuses(units) \/ \E got \in Seq(Piece) : Delivers(units, got)
    BY <1>1, <1>9, ReturnsIs DEF Base
  <2>2. PICK u : u = units[Len(units)]
    OBVIOUS
  <2>3. ASSUME NEW c \in Seq(Piece), Lane(units \o c)
        PROVE  Ended(units, c) /\ Straight(c) /\ Complete(c) /\ Ahead(c)
    BY <1>1, <1>9, <2>3, EndedIs, LaneEnd
  <2>4. Ended(units, b)
    BY <1>7, <2>3
  <2>5. CASE Refuses(units)
    <3>1. delivered' = delivered /\ refused' = TRUE /\ link.check # NoKey
      BY <2>5 DEF Refuses
    <3>2. Accepted' = Accepted /\ \A id : Expected(id)' = Expected(id)
      BY <1>2, <3>1 DEF Accepted, Expected
    <3>3. ASSUME NEW c \in Seq(Piece), Lane(units \o c) PROVE Lane(c)'
      <4>1. Ended(units, c) /\ Straight(c) /\ Complete(c) /\ Ahead(c)
        BY <2>3, <3>3
      <4>2. Straight(c)' /\ Complete(c)'
        BY <1>2, <4>1 DEF Straight, Complete, Last
      <4>3. Ahead(c)'
        BY <3>1, <3>2, <4>1 DEF Ahead
      <4>4. ~lost /\ c # <<>> => c[1].part = 1
        BY <4>1 DEF Ended, Whole
      <4>5. Gapless(c)'
        BY <2>1, <3>1, <4>4 DEF Gapless
      <4>6. QED
        BY <4>2, <4>3, <4>5 DEF Lane
    <3>4. Lanes'
      BY <1>6, <2>1, <3>3 DEF Lanes, Behind
    <3>5. Arrived'
      BY <1>2, <1>3, <2>1, <3>1, <3>2 DEF Arrived
    <3>6. Agreed'
      <4>1. ~lost => link.sign # link.check \/ link.kind = "tls"
        BY <2>4, <2>5, RefusedIs DEF Ended
      <4>2. QED
        BY <1>2, <2>1, <4>1 DEF Agreed
    <3>7. QED
      BY <1>4, <3>4, <3>5, <3>6
  <2>6. ASSUME NEW got \in Seq(Piece), Delivers(units, got) PROVE Lanes' /\ Arrived' /\ Agreed'
    <3>1. PICK k : k = Len(delivered) + 1
      OBVIOUS
    <3>2. /\ delivered \in Seq(Seq(Piece)) /\ Len(delivered) \in Nat /\ Len(delivered') = k
          /\ delivered'[k] = got /\ \A m \in 1..Len(delivered) : delivered'[m] = delivered[m]
          /\ DOMAIN delivered = 1..Len(delivered) /\ DOMAIN delivered' = 1..k
          /\ refused' = refused
      BY <2>6, <3>1 DEF Delivers, Base, TypeOK
    <3>3. Fresh(got, u) \/ (lost /\ ~IsHeader(got))
      BY <1>1, <1>9, <2>2, <2>4, <2>6, GotIs
    <3>4. ASSUME NEW m \in Accepted'
          PROVE  \/ (m \in Accepted /\ delivered'[m] = delivered[m] /\ m < k)
                 \/ (m = k /\ delivered'[m] = got /\ Fresh(got, u))
      <4>1. m \in 1..k /\ Len(delivered'[m]) >= HeaderUnits /\ IsHeader(delivered'[m])
        BY <3>2 DEF Accepted
      <4>2. CASE m \in 1..Len(delivered)
        BY <3>1, <3>2, <4>1, <4>2 DEF Accepted
      <4>3. CASE m = k
        BY <3>2, <3>3, <4>1, <4>3
      <4>4. m \in 1..Len(delivered) \/ m = k
        BY <3>1, <3>2, <4>1
      <4>5. QED
        BY <4>2, <4>3, <4>4
    <3>5. ASSUME NEW c \in Seq(Piece), Lane(units \o c) PROVE Lane(c)'
      <4>1. Ended(units, c) /\ Straight(c) /\ Complete(c) /\ Ahead(c)
        BY <2>3, <3>5
      <4>2. Straight(c)' /\ Complete(c)'
        BY <1>2, <4>1 DEF Straight, Complete, Last
      <4>3. ASSUME NEW m \in Accepted', NEW i \in 1..Len(c)
            PROVE  delivered'[m][1].id < c[i].id
        <5>1. CASE m \in Accepted /\ delivered'[m] = delivered[m]
          BY <4>1, <5>1 DEF Ahead
        <5>2. CASE delivered'[m] = got /\ Fresh(got, u)
          <6>1. c[i].id > u.id /\ got[1].id = u.id
            BY <2>2, <4>1, <5>2 DEF Ended, Fresh
          <6>2. c[i].id \in Nat /\ u.id \in Nat
            <7>1. c[i] \in Piece
              OBVIOUS
            <7>2. u.id \in 1..Len(sent) /\ Len(sent) \in Nat
              BY <5>2 DEF Fresh, Base, TypeOK
            <7>3. u.id \in Nat
              BY <7>2
            <7>4. QED
              BY <7>1, <7>3 DEF Piece
          <6>3. QED
            BY <5>2, <6>1, <6>2
        <5>3. QED
          BY <3>4, <5>1, <5>2
      <4>4. Ahead(c)'
        BY <4>3 DEF Ahead
      <4>5. Gapless(c)'
        <5>1. ~lost /\ c # <<>> => c[1].part = 1 /\ (~refused => c[1].id = k + 1)
          BY <2>2, <3>1, <4>1 DEF Ended, Whole
        <5>2. ~lost /\ ~refused /\ open /\ c = <<>> => k = Len(sent)
          BY <3>1, <4>1 DEF Ended
        <5>3. QED
          BY <1>2, <2>1, <3>2, <5>1, <5>2 DEF Gapless
      <4>6. QED
        BY <4>2, <4>4, <4>5 DEF Lane
    <3>6. Lanes'
      BY <1>6, <2>1, <3>5 DEF Lanes, Behind
    <3>7. \A id : Expected(id)' = Expected(id)
      BY <1>2 DEF Expected
    <3>8. ASSUME NEW m \in Accepted'
          PROVE  /\ delivered'[m][1].id \in 1..Len(sent)
                 /\ delivered'[m] = Expected(delivered'[m][1].id)
      <4>1. CASE m \in Accepted /\ delivered'[m] = delivered[m]
        BY <1>3, <4>1 DEF Arrived
      <4>2. CASE delivered'[m] = got /\ Fresh(got, u)
        BY <4>2 DEF Fresh
      <4>3. QED
        BY <3>4, <4>1, <4>2
    <3>9. ASSUME NEW m \in Accepted', NEW h \in Accepted', m < h
          PROVE  delivered'[m][1].id < delivered'[h][1].id
      <4>1. m \in 1..k /\ h \in 1..k /\ k \in Nat
        BY <3>1, <3>2 DEF Accepted
      <4>2. m \in Accepted /\ delivered'[m] = delivered[m]
        BY <3>4, <3>9, <4>1
      <4>3. CASE h \in Accepted /\ delivered'[h] = delivered[h]
        BY <1>3, <3>9, <4>2, <4>3 DEF Arrived
      <4>4. CASE delivered'[h] = got /\ Fresh(got, u)
        <5>1. delivered[m][1].id < u.id /\ got[1].id = u.id
          BY <2>2, <2>4, <4>2, <4>4 DEF Ended, Fresh
        <5>2. QED
          BY <4>2, <4>4, <5>1
      <4>5. QED
        BY <3>4, <4>3, <4>4
    <3>10. ~lost /\ ~refused => /\ k <= Len(sent)
                                /\ \A i \in 1..k : delivered'[i] = Expected(i)
      <4> SUFFICES ASSUME ~lost, ~refused
                   PROVE  k <= Len(sent) /\ \A i \in 1..k : delivered'[i] = Expected(i)
        OBVIOUS
      <4>1. u.id = k /\ Fresh(got, u)
        BY <2>2, <2>4, <3>1, <3>3 DEF Ended
      <4>2. k \in 1..Len(sent) /\ delivered'[k] = Expected(k)
        BY <3>2, <4>1 DEF Fresh
      <4>3. \A i \in 1..Len(delivered) : delivered'[i] = Expected(i)
        BY <1>3, <3>2 DEF Arrived
      <4>4. \A i \in 1..k : i \in 1..Len(delivered) \/ i = k
        BY <3>1, <3>2
      <4>5. k <= Len(sent)
        BY <4>2
      <4>6. QED
        BY <4>2, <4>3, <4>4, <4>5
    <3>11. lost /\ open /\ link.kind = "tcp" =>
             \E i \in 1..Len(sent) : Len(sent[i]) > HeaderUnits + MaxPayload
      BY <1>3 DEF Arrived
    <3>12. Arrived'
      <4>1. ASSUME NEW m \in Accepted'
            PROVE  /\ delivered'[m][1].id \in 1..Len(sent')
                   /\ delivered'[m] = Expected(delivered[m][1].id)'
        BY <1>2, <3>8 DEF Expected
      <4>2. ~lost' /\ ~refused' => /\ Len(delivered') <= Len(sent')
                                   /\ \A i \in 1..Len(delivered') : delivered'[i] = Expected(i)'
        BY <1>2, <2>1, <3>2, <3>7, <3>10
      <4>3. lost' /\ open' /\ link'.kind = "tcp" =>
              \E i \in 1..Len(sent') : Len(sent'[i]) > HeaderUnits + MaxPayload
        BY <1>2, <2>1, <3>11
      <4>4. QED
        BY <3>9, <4>1, <4>2, <4>3 DEF Arrived
    <3>13. Agreed'
      BY <1>2, <1>3, <2>1, <3>2 DEF Agreed
    <3>14. QED
      BY <3>6, <3>12, <3>13
  <2>7. QED
    BY <1>4, <2>1, <2>5, <2>6
<1>10. QED
  BY <1>1, <1>5, <1>8, <1>9

-----------------------------------------------------------------------------
(* The theorems                                                            *)

LEMMA NextInv ==
  ASSUME Sane, Inv, [FramesNext]_frameVars
  PROVE  Inv'
<1>1. ASSUME NEW s \in DOMAIN out, NEW size \in 0..MaxPayload + 1, BeginFrame(s, size) PROVE Inv'
  BY <1>1, BeginBase, BeginOrder DEF Inv
<1>2. ASSUME NEW s \in DOMAIN out, WriteUnits(s) PROVE Inv'
  BY <1>2, WriteBase, WriteOrder DEF Inv
<1>3. CASE CloseStream
  BY <1>3, CloseBase, CloseOrder DEF Inv
<1>4. CASE ReadUnits
  BY <1>4, ReadBase, ReadOrder DEF Inv
<1>5. CASE TimeoutInside \/ StreamEnd
  BY <1>5, StopsBase, StopsOrder DEF Inv
<1>6. CASE UNCHANGED frameVars
  <2>1. UNCHANGED <<link, out, stream, open, reader, sent, delivered, overlapped, lost, refused>>
    BY <1>6 DEF frameVars, ghosts
  <2>2. /\ Framed' <=> Framed
        /\ \A units : Sounds(units)' <=> Sounds(units)
    BY <2>1, SoundKept
  <2>3. Base'
    BY <2>1, <2>2 DEF Inv, Base, TypeOK, Flows, Reads, Authentic
  <2>4. /\ \A way : Lane(way)' <=> Lane(way)
        /\ (Arrived' <=> Arrived) /\ (Agreed' <=> Agreed)
    BY <2>1, OrderKept
  <2>5. Ways' = Ways /\ (Lone' <=> Lone)
    BY <2>1 DEF Ways, Rest, Busy, Lone
  <2>6. InOrder'
    BY <2>1, <2>4, <2>5 DEF Inv, InOrder, Lanes
  <2>7. QED
    BY <2>3, <2>6 DEF Inv
<1>7. QED
  BY <1>1, <1>2, <1>3, <1>4, <1>5, <1>6 DEF FramesNext

LEMMA SpecInv ==
  ASSUME Sane
  PROVE  FramesSpec => []Inv
<1>1. FramesInit => Inv
  BY InitBase, InitOrder DEF Inv
<1>2. Inv /\ [FramesNext]_frameVars => Inv'
  BY NextInv
<1>3. QED
  BY <1>1, <1>2, PTL DEF FramesSpec

\* Every frame that receive() returns whole was sent, and in its order, however
\* the reads and writes cut it, as long as one sender writes at a time; none is
\* skipped unless a receive gave up inside one, which on TCP takes a frame that
\* is too long (send_all and receive of every transport).
THEOREM FramesInOrder ==
  ASSUME Sane
  PROVE  FramesSpec => []DeliveredInOrder
<1>1. ASSUME Inv PROVE DeliveredInOrder
  <2> SUFFICES ASSUME ~overlapped
               PROVE  /\ \A k \in Accepted : delivered[k] = Expected(delivered[k][1].id)
                      /\ \A k, m \in Accepted :
                           k < m => delivered[k][1].id < delivered[m][1].id
                      /\ ~lost /\ ~refused =>
                           \A i \in DOMAIN delivered : delivered[i] = Expected(i)
                      /\ lost /\ open /\ link.kind = "tcp" =>
                           \E i \in DOMAIN sent : Len(sent[i]) > HeaderUnits + MaxPayload
    BY DEF DeliveredInOrder
  <2>1. Arrived
    BY <1>1 DEF Inv, InOrder
  <2>2. DOMAIN delivered = 1..Len(delivered) /\ DOMAIN sent = 1..Len(sent)
    BY <1>1 DEF Inv, Base, TypeOK
  <2>3. QED
    BY <2>1, <2>2 DEF Arrived
<1>2. QED
  BY <1>1, SpecInv, PTL

\* With one key at both ends, one sender at a time and no frame lost, none is
\* refused, over any transport but TLS, which marks the header it hands on
\* (SecureTransport over TlsTransport).
THEOREM OneKeyAccepts ==
  ASSUME Sane, NEW kinds, "tls" \notin kinds
  PROVE  FramesSpec => []SecureAccepts(kinds)
<1>1. ASSUME Inv PROVE SecureAccepts(kinds)
  BY <1>1 DEF Inv, InOrder, Agreed, SecureAccepts
<1>2. QED
  BY <1>1, SpecInv, PTL

\* A receiver with a key hands over only messages that a sender with that key
\* sent, as they were sent: also where two senders wrote at once, a receive gave
\* up, or the units it took for a frame are of several (SecureTransport::receive).
\* And over a pipe or TCP it hands over those that came whole.
THEOREM KeysProtect ==
  ASSUME Sane
  PROVE  FramesSpec => []OnlyAuthentic
<1>1. ASSUME Inv PROVE Unforged
  <2> SUFFICES ASSUME link.check # NoKey, NEW i \in DOMAIN delivered
               PROVE  /\ link.sign = link.check
                      /\ delivered[i] = Plain(delivered[i][1].id,
                                              Len(sent[delivered[i][1].id]) - HeaderUnits - 1)
    BY DEF Unforged
  <2>1. Authentic /\ i \in 1..Len(delivered)
    BY <1>1 DEF Inv, Base, TypeOK
  <2>2. QED
    BY <2>1 DEF Authentic
<1>2. ASSUME Inv PROVE SecureAccepts({"pipe", "tcp"})
  BY <1>2 DEF Inv, InOrder, Agreed, SecureAccepts
<1>3. Inv => OnlyAuthentic
  BY <1>1, <1>2 DEF OnlyAuthentic
<1>4. QED
  BY <1>3, SpecInv, PTL
===============================================================================
