----------------------------- MODULE BackupProofs -----------------------------
(***************************************************************************)
(* Theorems about Backup: a verdict "passed" is right whatever others do   *)
(* to the remote file, and an upload nobody interferes with passes.        *)
(***************************************************************************)
EXTENDS Backup, SequenceTheorems, TLAPS

Byte == 0..255

\* Files hold bytes, and the chunk sizes are numbers.
Sane == /\ LocalContents \subseteq Seq(Byte) /\ Earlier \subseteq Seq(Byte)
        /\ ChunkSize \in Nat /\ StreamChunk \in Nat /\ SumPiece \in Nat

Places == {"idle", "check", "open", "write", "size", "summing", "sum", "stream", "back",
           "passed", "failed"}

Upload == [at : Places, name : FileNames \cup {""}, local : Seq(Byte), offset : Nat,
           exists : BOOLEAN, file : Nat, back : Seq(Byte), before : Seq(Byte),
           alone : BOOLEAN, was : BOOLEAN, calm : BOOLEAN, seen : SUBSET Nat]

\* Types; a name denotes a file that is there.
TypeOK ==
  /\ disk \in Seq(Seq(Byte))
  /\ dir \in [DOMAIN dir -> 1..Len(disk)] /\ DOMAIN dir \subseteq FileNames
  /\ client \in [Clients -> Upload]
  /\ uploads \in Nat

\* No two names denote one file; the file a client has open may have lost its
\* name, and no other name denotes it.
Files ==
  /\ \A m, n \in DOMAIN dir : dir[m] = dir[n] => m = n
  /\ \A c \in Clients :
       /\ client[c].file <= Len(disk)
       /\ \A n \in DOMAIN dir : dir[n] = client[c].file => n = client[c].name
       /\ client[c].at \in {"write", "sum"} => client[c].file # NoFile
       /\ ~At(c, "idle") => client[c].name \in FileNames

Based == TypeOK /\ Files

\* While its checksum is read: a calm file is the one that was read from; what
\* the file now holds was noted; and so was every right byte that was read.
Reading(u, now) ==
  /\ u.calm => Len(u.back) <= Len(now) /\ \A i \in 1..Len(u.back) : u.back[i] = now[i]
  /\ now = u.local => u.was
  /\ \A i \in DOMAIN u.local : i <= Len(now) /\ now[i] = u.local[i] => i \in u.seen
  /\ \A i \in DOMAIN u.local : i <= Len(u.back) /\ u.back[i] = u.local[i] => i \in u.seen

\* What the matching checksum showed.
Matched(u) == DOMAIN u.local \subseteq u.seen /\ (u.calm => u.was)

Verdict(u) == /\ u.at \notin {"sum", "back"} => u.back = <<>>
              /\ u.at = "sum" => Reading(u, disk[u.file])
              /\ u.at \in {"stream", "back", "passed"} => Matched(u)

Verdicts == \A c \in Clients : Verdict(client[c])

\* What a step of the client makes of its upload, before the file is noted again.
Shown(u) ==
  /\ u.at \notin {"sum", "back"} => u.back = <<>>
  /\ u.at = "sum" =>
       /\ SameFiles
       /\ LET now == disk[u.file] IN
          /\ u.calm => Len(u.back) <= Len(now) /\ \A i \in 1..Len(u.back) : u.back[i] = now[i]
          /\ \A i \in DOMAIN u.local : i <= Len(u.back) /\ u.back[i] = u.local[i] =>
               i \in u.seen \/ (i <= Len(now) /\ now[i] = u.local[i])
  /\ u.at \in {"stream", "back", "passed"} => Matched(u)

\* The uploads that must pass when nobody interferes.
Doable(u) == u.local # <<>> /\ (Len(u.local) <= ChunkSize \/ Len(u.before) <= Len(u.local))

\* The first n bytes of content are those of the local file, and no byte is
\* left over behind it.
Agrees(content, local, n) ==
  /\ n <= Len(content) /\ Len(content) <= Len(local)
  /\ \A i \in 1..n : content[i] = local[i]

\* How far such an upload has come.  A file of one chunk is emptied first;
\* one of several grows over what was there.
OnTheWay(u) ==
  u.alone /\ Doable(u) =>
    /\ u.at # "failed"
    /\ u.at \in {"check", "open", "write"} =>
         u.offset < Len(u.local) /\ (Len(u.local) <= ChunkSize => u.offset = 0)
    /\ u.at \in {"check", "open"} =>
         /\ u.offset > 0 => Exists(u.name)
         /\ Exists(u.name) /\ Len(u.local) > ChunkSize =>
              Agrees(Remote(u.name), u.local, u.offset)
    /\ u.at = "open" => (u.exists <=> Exists(u.name))
    /\ u.at = "write" => Agrees(Remote(u.name), u.local, u.offset)
    /\ u.at \in {"write", "sum", "back"} => Exists(u.name) /\ u.file = dir[u.name]
    /\ u.at \in {"size", "summing", "sum", "stream", "back"} =>
         Exists(u.name) /\ Remote(u.name) = u.local
    /\ u.at \in {"sum", "back"} => /\ Len(u.back) <= Len(u.local)
                                  /\ u.back = SubSeq(u.local, 1, Len(u.back))

Arriving == \A c \in Clients : OnTheWay(client[c])

-----------------------------------------------------------------------------
(* A client's step                                                         *)

\* All of an upload that only its own client changes.
Same(u, v) ==
  /\ u.at = v.at /\ u.name = v.name /\ u.local = v.local /\ u.offset = v.offset
  /\ u.exists = v.exists /\ u.file = v.file /\ u.back = v.back /\ u.before = v.before

\* What v remembers once the file of u is noted.
Remembers(v, u) ==
  IF u.at # "sum" THEN v.was = u.was /\ v.calm = u.calm /\ v.seen = u.seen
  ELSE /\ v.was = (u.was \/ disk'[u.file] = u.local)
       /\ v.calm = (u.calm /\ disk'[u.file] = disk[u.file])
       /\ v.seen = u.seen \cup Right(u)

LEMMA NotedIs ==
  ASSUME NEW u \in Upload
  PROVE  Noted(u) \in Upload /\ Same(Noted(u), u) /\ Noted(u).alone = u.alone
         /\ Remembers(Noted(u), u)
<1> DEFINE was == u.was \/ disk'[u.file] = u.local
           calm == u.calm /\ disk'[u.file] = disk[u.file]
           seen == u.seen \cup Right(u)
<1>1. was \in BOOLEAN /\ calm \in BOOLEAN
  BY DEF Upload
<1>2. seen \in SUBSET Nat
  <2>1. u.local \in Seq(Byte) /\ u.seen \in SUBSET Nat
    BY DEF Upload
  <2>2. DOMAIN u.local \subseteq Nat
    BY <2>1
  <2>3. QED
    BY <2>1, <2>2 DEF Right
<1>3. CASE u.at # "sum"
  BY <1>3 DEF Noted, Same, Remembers
<1>4. CASE u.at = "sum"
  <2>1. Noted(u) = [u EXCEPT !.seen = seen, !.was = was, !.calm = calm]
    BY <1>4 DEF Noted, Upload
  <2>2. Remembers(Noted(u), u) <=>
          Noted(u).was = was /\ Noted(u).calm = calm /\ Noted(u).seen = seen
    BY <1>4 DEF Remembers
  <2> HIDE DEF was, calm, seen
  <2>3. QED
    BY <1>1, <1>2, <2>1, <2>2 DEF Upload, Same
<1>5. QED
  BY <1>3, <1>4

\* The client of a step goes on with its upload; others only note it.
LEMMA StepIs ==
  ASSUME TypeOK, NEW c \in Clients, NEW u \in Upload, Step(c, u)
  PROVE  /\ client' \in [Clients -> Upload]
         /\ Same(client'[c], u) /\ client'[c].alone = u.alone /\ Remembers(client'[c], u)
         /\ \A d \in Clients \ {c} :
              /\ Same(client'[d], client[d]) /\ Remembers(client'[d], client[d])
              /\ client'[d].alone =>
                   client[d].alone /\ (Ended(client[d]) \/ client[d].name # u.name)
<1> DEFINE others(d) == IF Ended(client[d]) THEN client[d]
                        ELSE [Noted(client[d]) EXCEPT !.alone = @ /\ client[d].name # u.name]
<1>1. client' = [d \in Clients |-> IF d = c THEN Noted(u) ELSE others(d)]
  BY DEF Step
<1>2. Noted(u) \in Upload /\ Same(Noted(u), u) /\ Noted(u).alone = u.alone
      /\ Remembers(Noted(u), u)
  BY NotedIs
<1>3. ASSUME NEW d \in Clients
      PROVE  /\ others(d) \in Upload /\ Same(others(d), client[d])
             /\ Remembers(others(d), client[d])
             /\ others(d).alone =>
                  client[d].alone /\ (Ended(client[d]) \/ client[d].name # u.name)
  <2>1. client[d] \in Upload
    BY DEF TypeOK
  <2>2. CASE Ended(client[d])
    BY <2>1, <2>2 DEF Ended, Same, Remembers
  <2>3. CASE ~Ended(client[d])
    <3>1. PICK n : n = Noted(client[d])
      OBVIOUS
    <3>2. n \in Upload /\ Same(n, client[d]) /\ n.alone = client[d].alone
          /\ Remembers(n, client[d])
      BY <2>1, <3>1, NotedIs
    <3>3. PICK a : a = (n.alone /\ client[d].name # u.name)
      OBVIOUS
    <3>4. a \in BOOLEAN
      BY <3>2, <3>3 DEF Upload
    <3>5. PICK v : v = [n EXCEPT !.alone = a]
      OBVIOUS
    <3>6. v \in Upload /\ Same(v, n) /\ v.alone = a /\ v.was = n.was /\ v.calm = n.calm
          /\ v.seen = n.seen
      BY <3>2, <3>4, <3>5 DEF Upload, Same
    <3>7. others(d) = v
      BY <2>3, <3>1, <3>2, <3>3, <3>5 DEF Upload
    <3>8. Same(v, client[d]) /\ Remembers(v, client[d])
      BY <3>2, <3>6 DEF Same, Remembers
    <3> HIDE DEF others
    <3>9. QED
      BY <2>3, <3>2, <3>3, <3>6, <3>7, <3>8
  <2>4. QED
    BY <2>2, <2>3
<1> HIDE DEF others
<1>4. QED
  BY <1>1, <1>2, <1>3

\* What a step at a name may do to the files: nothing, change one that no other
\* name denotes, or create one for the name.
Changes(name) ==
  \/ SameFiles
  \/ \E file \in 1..Len(disk), content \in Seq(Byte) :
       /\ Overwrite(file, content)
       /\ \A n \in DOMAIN dir : dir[n] = file => n = name
  \/ name \in FileNames /\ ~Exists(name) /\ Create(name)

\* What every step of a client c keeps to, u being its upload afterwards.
Own(c, u) ==
  /\ u \in Upload /\ Step(c, u) /\ Changes(u.name) /\ u.name \in FileNames
  /\ \/ u.file = NoFile
     \/ u.file = client[c].file /\ u.name = client[c].name
     \/ u.name \in DOMAIN dir' /\ u.file = dir'[u.name]
  /\ u.at \in {"write", "sum"} => u.file # NoFile
  /\ uploads' \in Nat

\* Files change their length and their number only upwards, and keep their names.
LEMMA ChangesAre ==
  ASSUME Based, NEW name, Changes(name)
  PROVE  /\ disk' \in Seq(Seq(Byte)) /\ Len(disk) <= Len(disk')
         /\ dir' \in [DOMAIN dir' -> 1..Len(disk')] /\ DOMAIN dir' \subseteq FileNames
         /\ \A m, n \in DOMAIN dir' : dir'[m] = dir'[n] => m = n
         /\ \A n \in DOMAIN dir' :
              (n \in DOMAIN dir /\ dir'[n] = dir[n]) \/ (n = name /\ dir'[n] = Len(disk) + 1)
         /\ \A n \in FileNames : n # name =>
              /\ Exists(n) <=> n \in DOMAIN dir'
              /\ Exists(n) => dir'[n] = dir[n] /\ disk'[dir'[n]] = Remote(n)
<1> USE DEF Based, TypeOK, Files, Exists, Remote
<1>1. CASE SameFiles
  BY <1>1 DEF SameFiles
<1>2. ASSUME NEW file \in 1..Len(disk), NEW content \in Seq(Byte), Overwrite(file, content),
             \A n \in DOMAIN dir : dir[n] = file => n = name
      PROVE  /\ disk' \in Seq(Seq(Byte)) /\ Len(disk) = Len(disk') /\ dir' = dir
             /\ \A n \in DOMAIN dir : n # name => disk'[dir[n]] = disk[dir[n]]
  BY <1>2 DEF Overwrite
<1>3. CASE name \in FileNames /\ ~Exists(name) /\ Create(name)
  <2>1. /\ disk' = Append(disk, <<>>)
        /\ dir' = [n \in DOMAIN dir \cup {name} |-> IF n = name THEN Len(disk) + 1 ELSE dir[n]]
    BY <1>3 DEF Create
  <2>2. /\ disk' \in Seq(Seq(Byte)) /\ Len(disk') = Len(disk) + 1
        /\ \A i \in 1..Len(disk) : disk'[i] = disk[i]
    BY <2>1
  <2>3. /\ DOMAIN dir' = DOMAIN dir \cup {name} /\ dir'[name] = Len(disk) + 1
        /\ \A n \in DOMAIN dir : dir'[n] = dir[n]
    BY <1>3, <2>1
  <2>4. dir' \in [DOMAIN dir' -> 1..Len(disk')]
    BY <2>1, <2>2, <2>3
  <2>5. QED
    BY <1>3, <2>2, <2>3, <2>4
<1>4. QED
  <2>1. CASE \E file \in 1..Len(disk), content \in Seq(Byte) :
               /\ Overwrite(file, content)
               /\ \A n \in DOMAIN dir : dir[n] = file => n = name
    <3>1. PICK file \in 1..Len(disk), content \in Seq(Byte) :
            /\ Overwrite(file, content)
            /\ \A n \in DOMAIN dir : dir[n] = file => n = name
      BY <2>1
    <3>2. /\ disk' \in Seq(Seq(Byte)) /\ Len(disk) = Len(disk') /\ dir' = dir
          /\ \A n \in DOMAIN dir : n # name => disk'[dir[n]] = disk[dir[n]]
      BY <1>2, <3>1
    <3>3. QED
      BY <3>2
  <2>2. QED
    BY <1>1, <1>3, <2>1 DEF Changes

\* Types, and files with one name each, outlast every client's step.
LEMMA OwnBased ==
  ASSUME Based, NEW c \in Clients, NEW u, Own(c, u)
  PROVE  Based'
<1>1. u \in Upload /\ Step(c, u) /\ Changes(u.name)
  BY DEF Own
<1>2. /\ disk' \in Seq(Seq(Byte)) /\ Len(disk) <= Len(disk')
      /\ dir' \in [DOMAIN dir' -> 1..Len(disk')] /\ DOMAIN dir' \subseteq FileNames
      /\ \A m, n \in DOMAIN dir' : dir'[m] = dir'[n] => m = n
      /\ \A n \in DOMAIN dir' :
           (n \in DOMAIN dir /\ dir'[n] = dir[n]) \/ (n = u.name /\ dir'[n] = Len(disk) + 1)
  BY <1>1, ChangesAre
<1>3. /\ client' \in [Clients -> Upload] /\ Same(client'[c], u)
      /\ \A d \in Clients \ {c} : Same(client'[d], client[d])
  BY <1>1, StepIs DEF Based
<1>4. TypeOK'
  BY <1>2, <1>3 DEF TypeOK, Own
<1>5. ASSUME NEW d \in Clients
      PROVE  /\ client'[d].file <= Len(disk')
             /\ \A n \in DOMAIN dir' : dir'[n] = client'[d].file => n = client'[d].name
             /\ client'[d].at \in {"write", "sum"} => client'[d].file # NoFile
             /\ ~At(d, "idle")' => client'[d].name \in FileNames
  <2>1. /\ client[d].file \in Nat /\ client[d].file <= Len(disk) /\ Len(disk) \in Nat
        /\ client'[d].file \in Nat /\ Len(disk') \in Nat
        /\ \A n \in DOMAIN dir : dir[n] = client[d].file => n = client[d].name
        /\ client[d].at \in {"write", "sum"} => client[d].file # NoFile
        /\ ~At(d, "idle") => client[d].name \in FileNames
    <3>1. client[d] \in Upload /\ client'[d] \in Upload
      BY <1>3 DEF Based, TypeOK
    <3>2. disk \in Seq(Seq(Byte)) /\ disk' \in Seq(Seq(Byte))
      BY <1>2 DEF Based, TypeOK
    <3>3. client[d].file \in Nat /\ client'[d].file \in Nat
      BY <3>1 DEF Upload
    <3>4. Len(disk) \in Nat /\ Len(disk') \in Nat
      BY <3>2
    <3>5. QED
      BY <3>3, <3>4 DEF Based, Files
  <2>2. \A n \in DOMAIN dir' : dir'[n] \in 1..Len(disk')
    BY <1>2
  <2>3. CASE Same(client'[d], client[d])
    <3>1. client'[d].file = client[d].file /\ client'[d].name = client[d].name
          /\ client'[d].at = client[d].at
      BY <2>3 DEF Same
    <3>2. ASSUME NEW n \in DOMAIN dir', dir'[n] = client[d].file PROVE n = client[d].name
      <4>1. (n \in DOMAIN dir /\ dir'[n] = dir[n]) \/ dir'[n] = Len(disk) + 1
        BY <1>2
      <4>2. client[d].file # Len(disk) + 1
        BY <2>1
      <4>3. QED
        BY <2>1, <3>2, <4>1, <4>2
    <3>3. client[d].file <= Len(disk')
      BY <1>2, <2>1
    <3>4. QED
      BY <2>1, <3>1, <3>2, <3>3 DEF At
  <2>4. CASE Same(client'[d], u) /\ d = c
    <3>1. client'[d].file = u.file /\ client'[d].name = u.name /\ client'[d].at = u.at
      BY <2>4 DEF Same
    <3>2. CASE u.file = NoFile
      BY <1>2, <2>1, <2>2, <3>1, <3>2 DEF Own, NoFile, At
    <3>3. CASE u.file = client[c].file /\ u.name = client[c].name
      BY <1>2, <2>1, <2>4, <3>1, <3>3 DEF Own, At
    <3>4. CASE u.name \in DOMAIN dir' /\ u.file = dir'[u.name]
      BY <1>2, <2>1, <2>2, <3>1, <3>4 DEF Own, At
    <3>5. QED
      BY <3>2, <3>3, <3>4 DEF Own
  <2>5. QED
    BY <1>3, <2>3, <2>4
<1>6. QED
  BY <1>2, <1>4, <1>5 DEF Based, Files

\* What others do at other names leaves an upload on its way; at its own name
\* they end its being alone.
LEMMA OwnArrives ==
  ASSUME Based, Arriving, NEW c \in Clients, NEW u, Own(c, u), OnTheWay(u)'
  PROVE  Arriving'
<1>1. u \in Upload /\ Step(c, u) /\ Changes(u.name)
  BY DEF Own
<1>2. /\ Same(client'[c], u) /\ client'[c].alone = u.alone
      /\ \A d \in Clients \ {c} :
           /\ Same(client'[d], client[d])
           /\ client'[d].alone =>
                client[d].alone /\ (Ended(client[d]) \/ client[d].name # u.name)
  BY <1>1, StepIs DEF Based
<1>3. OnTheWay(client[c])'
  BY <1>2 DEF OnTheWay, Same, Doable
<1>7. ASSUME NEW d \in Clients \ {c}, client'[d].alone, Doable(client'[d]), Ended(client[d])
      PROVE  OnTheWay(client[d])'
  <2>1. Same(client'[d], client[d]) /\ client[d].alone /\ OnTheWay(client[d])
    BY <1>2, <1>7 DEF Arriving
  <2>2. Doable(client[d]) /\ client'[d].at \in {"idle", "passed"}
    BY <1>7, <2>1 DEF Doable, Same, OnTheWay, Ended
  <2>3. QED
    BY <2>2 DEF OnTheWay
<1>4. ASSUME NEW d \in Clients \ {c}, client'[d].alone, Doable(client'[d]), ~Ended(client[d])
      PROVE  OnTheWay(client[d])'
  <2>1. /\ Same(client'[d], client[d]) /\ client[d].alone /\ client[d].name # u.name
        /\ client[d].name \in FileNames \cup {""}
    BY <1>2, <1>4 DEF Based, TypeOK, Upload
  <2>2. ASSUME NEW m \in FileNames \cup {""}, m # u.name
        PROVE  /\ Exists(m)' <=> Exists(m)
               /\ Exists(m) => dir'[m] = dir[m] /\ disk'[dir'[m]] = disk[dir[m]]
    <3>1. DOMAIN dir \subseteq FileNames /\ DOMAIN dir' \subseteq FileNames
      BY <1>1, ChangesAre DEF Based, TypeOK
    <3>2. CASE m \notin FileNames
      BY <3>1, <3>2 DEF Exists
    <3>3. CASE m \in FileNames
      <4>1. /\ Exists(m) <=> m \in DOMAIN dir'
            /\ Exists(m) => dir'[m] = dir[m] /\ disk'[dir'[m]] = Remote(m)
        BY <1>1, <2>2, <3>3, ChangesAre
      <4>2. QED
        BY <4>1 DEF Exists, Remote
    <3>4. QED
      BY <3>2, <3>3
  <2>3. OnTheWay(client[d])
    BY DEF Arriving
  <2>4. QED
    <3>1. PICK m \in FileNames \cup {""} : m = client[d].name
      BY <2>1
    <3>2. client'[d].name = m
      BY <2>1, <3>1 DEF Same
    <3>3. /\ Exists(m)' <=> Exists(m)
          /\ Exists(m) => dir'[m] = dir[m] /\ disk'[dir'[m]] = disk[dir[m]]
      BY <2>1, <2>2, <3>1
    <3>4. Remote(m)' = Remote(m)
      BY <3>3 DEF Remote, Exists
    <3>5. QED
      BY <1>4, <2>1, <2>3, <3>1, <3>2, <3>3, <3>4, ZenonT(40) DEF OnTheWay, Same, Doable
<1>5. ASSUME NEW d \in Clients \ {c} PROVE OnTheWay(client[d])'
  BY <1>4, <1>7 DEF OnTheWay
<1>6. QED
  BY <1>3, <1>5 DEF Arriving

\* What a client reads stays noted, whoever writes to the file meanwhile.
LEMMA OwnVerdicts ==
  ASSUME Based, Verdicts, NEW c \in Clients, NEW u, Own(c, u), Shown(u)
  PROVE  Verdicts'
<1>1. u \in Upload /\ Step(c, u)
  BY DEF Own
<1>2. /\ Same(client'[c], u) /\ Remembers(client'[c], u)
      /\ \A d \in Clients \ {c} : Same(client'[d], client[d]) /\ Remembers(client'[d], client[d])
  BY <1>1, StepIs DEF Based
<1>3. Verdict(client[c])'
  <2>1. PICK v : v = client'[c]
    OBVIOUS
  <2>2. CASE u.at = "sum"
    <3>1. disk' = disk
      BY <2>2 DEF Shown, SameFiles
    <3>2. PICK now : now = disk'[u.file] /\ now = disk[u.file]
      BY <3>1
    <3>4. /\ v.local = u.local /\ v.back = u.back /\ v.file = u.file /\ (v.calm => u.calm)
          /\ (now = u.local => v.was) /\ v.seen = u.seen \cup Right(u)
      BY <1>2, <2>1, <2>2, <3>2 DEF Remembers, Same
    <3>5. \A i \in DOMAIN u.local : i <= Len(now) /\ now[i] = u.local[i] => i \in Right(u)
      BY <3>2 DEF Right
    <3>6. /\ u.calm => Len(u.back) <= Len(now) /\ \A i \in 1..Len(u.back) : u.back[i] = now[i]
          /\ \A i \in DOMAIN u.local : i <= Len(u.back) /\ u.back[i] = u.local[i] =>
               i \in u.seen \/ (i <= Len(now) /\ now[i] = u.local[i])
      BY <2>2, <3>2 DEF Shown
    <3>7. Reading(v, now)
      BY <3>4, <3>5, <3>6 DEF Reading
    <3>3. QED
      BY <1>2, <2>1, <2>2, <3>2, <3>4, <3>7 DEF Verdict, Same
  <2>3. CASE u.at # "sum"
    BY <1>2, <2>1, <2>3 DEF Verdict, Same, Remembers, Shown, Matched
  <2>4. QED
    BY <2>2, <2>3
<1>4. ASSUME NEW d \in Clients \ {c} PROVE Verdict(client[d])'
  <2>1. PICK v, w : v = client'[d] /\ w = client[d]
    OBVIOUS
  <2>2. Same(v, w) /\ Remembers(v, w) /\ Verdict(w)
    BY <1>2, <2>1 DEF Verdicts
  <2>3. CASE w.at = "sum"
    <3>2. PICK now, old : now = disk'[w.file] /\ old = disk[w.file]
      OBVIOUS
    <3>4. /\ v.local = w.local /\ v.back = w.back /\ v.file = w.file
          /\ (v.calm => w.calm /\ now = old)
          /\ (now = w.local => v.was) /\ v.seen = w.seen \cup Right(w)
      BY <2>2, <2>3, <3>2 DEF Remembers, Same
    <3>5. \A i \in DOMAIN w.local : i <= Len(now) /\ now[i] = w.local[i] => i \in Right(w)
      BY <3>2 DEF Right
    <3>6. Reading(w, old)
      BY <2>2, <2>3, <3>2 DEF Verdict
    <3>7. Reading(v, now)
      BY <3>4, <3>5, <3>6 DEF Reading
    <3>8. QED
      BY <2>1, <2>2, <2>3, <3>2, <3>4, <3>7 DEF Verdict, Same
  <2>4. CASE w.at # "sum"
    BY <2>1, <2>2, <2>4 DEF Verdict, Same, Remembers, Matched
  <2>5. QED
    BY <2>3, <2>4
<1>5. QED
  BY <1>3, <1>4 DEF Verdicts

-----------------------------------------------------------------------------
(* The steps, one by one                                                   *)

Inv == Based /\ Verdicts /\ Arriving

\* Where a client begins another upload.
LEMMA BeginIs ==
  ASSUME Sane, Inv, NEW c \in Clients, NEW name \in FileNames, NEW local \in LocalContents,
         BeginUpload(c, name, local)
  PROVE  \E u : Own(c, u) /\ Shown(u) /\ OnTheWay(u)'
<1> DEFINE others == \E d \in Clients \ {c} : client[d].name = name /\ ~Ended(client[d])
<1>1. PICK u : /\ u = [NoUpload EXCEPT !.at = IF local = <<>> THEN "size" ELSE "check", !.name = name,
                                 !.local = local, !.before = Remote(name), !.alone = ~others]
               /\ Step(c, u) /\ SameFiles /\ uploads' = uploads + 1
  BY DEF BeginUpload
<1>2. local \in Seq(Byte) /\ Remote(name) \in Seq(Byte) /\ others \in BOOLEAN
  BY DEF Sane, Remote, Exists, Inv, Based, TypeOK
<1>3. /\ u \in Upload /\ u.at = (IF local = <<>> THEN "size" ELSE "check") /\ u.name = name
      /\ u.local = local /\ u.before = Remote(name) /\ u.offset = 0 /\ u.file = NoFile
      /\ u.back = <<>>
  <2> DEFINE at == IF local = <<>> THEN "size" ELSE "check"
  <2>1. at \in Places
    BY DEF Places
  <2> HIDE DEF others, at
  <2>2. u = [at |-> at, name |-> name, local |-> local, offset |-> 0, exists |-> FALSE,
             file |-> NoFile, back |-> <<>>, before |-> Remote(name), alone |-> ~others,
             was |-> FALSE, calm |-> TRUE, seen |-> {}]
    BY <1>1 DEF NoUpload, at
  <2>3. <<>> \in Seq(Byte)
    OBVIOUS
  <2>4. QED
    BY <1>2, <2>1, <2>2, <2>3 DEF Upload, NoFile, at
<1>4. Own(c, u) /\ Shown(u)
  <2>1. u.at \in {"size", "check"}
    BY <1>3
  <2>2. QED
    BY <1>1, <1>3, <2>1 DEF Own, Changes, Shown, Inv, Based, TypeOK
<1>5. (Exists(name)' <=> Exists(name)) /\ Remote(name)' = Remote(name)
  BY <1>1 DEF SameFiles, Exists, Remote
<1>6. Len(local) \in Nat /\ (local # <<>> => 0 < Len(local)) /\ Len(Remote(name)) \in Nat
  BY <1>2
<1>7. OnTheWay(u)'
  BY <1>3, <1>5, <1>6 DEF OnTheWay, Doable, Agrees, Sane
<1>8. QED
  BY <1>4, <1>7

\* Where a client looks, or reads, and changes nothing but its own upload u.
LEMMA ReadOwn ==
  ASSUME Inv, NEW c \in Clients, NEW u \in Upload, Step(c, u), SameFiles, uploads' = uploads,
         u.name = client[c].name, client[c].at # "idle", u.at # "write",
         u.at = "sum" => u.file # NoFile,
         \/ u.file = NoFile \/ u.file = client[c].file
         \/ Exists(u.name) /\ u.file = dir[u.name]
  PROVE  Own(c, u) /\ (OnTheWay(u)' <=> OnTheWay(u))
<1>1. Own(c, u)
  BY DEF Own, Changes, SameFiles, Exists, Inv, Based, TypeOK, Files, At
<1>2. Exists(u.name)' = Exists(u.name) /\ Remote(u.name)' = Remote(u.name)
      /\ (u.name \in DOMAIN dir => dir'[u.name] = dir[u.name])
  BY DEF SameFiles, Exists, Remote
<1>3. QED
  BY <1>1, <1>2 DEF OnTheWay, Exists

\* An upload that is under way, and what it amounts to.
LEMMA Current ==
  ASSUME Inv, NEW c \in Clients
  PROVE  /\ client[c] \in Upload /\ OnTheWay(client[c])
         /\ Len(client[c].local) \in Nat /\ client[c].offset \in Nat
         /\ client[c].local \in Seq(Byte) /\ client[c].back \in Seq(Byte)
         /\ disk \in Seq(Seq(Byte)) /\ Len(disk) \in Nat
         /\ Verdict(client[c])
         /\ \A n \in DOMAIN dir : dir[n] \in 1..Len(disk)
<1>1. client[c] \in Upload /\ disk \in Seq(Seq(Byte)) /\ dir \in [DOMAIN dir -> 1..Len(disk)]
  BY DEF Inv, Based, TypeOK
<1>2. client[c].local \in Seq(Byte) /\ client[c].back \in Seq(Byte) /\ client[c].offset \in Nat
  BY <1>1 DEF Upload
<1>3. QED
  BY <1>1, <1>2 DEF Inv, Arriving, Verdicts

\* Where a client looks whether the file is there.
LEMMA CheckIs ==
  ASSUME Inv, NEW c \in Clients, Check(c)
  PROVE  \E u : Own(c, u) /\ Shown(u) /\ OnTheWay(u)'
<1>1. PICK u : /\ u = [client[c] EXCEPT !.at = "open", !.exists = Exists(client[c].name)]
               /\ Step(c, u)
  BY DEF Check
<1>2. client[c].at = "check" /\ SameFiles /\ uploads' = uploads
  BY DEF Check, At
<1>3. Exists(client[c].name) \in BOOLEAN
  BY DEF Exists
<1>4. u \in Upload /\ u.at = "open" /\ u.exists = Exists(u.name)
      /\ u.name = client[c].name /\ u.local = client[c].local /\ u.offset = client[c].offset
      /\ u.file = client[c].file /\ u.back = client[c].back /\ u.before = client[c].before
      /\ u.alone = client[c].alone
  BY <1>1, <1>3, Current DEF Upload, Places
<1>5. Own(c, u) /\ (OnTheWay(u)' <=> OnTheWay(u))
  BY <1>1, <1>2, <1>4, ReadOwn
<1>6. OnTheWay(u)
  BY <1>2, <1>4, Current DEF OnTheWay, Doable
<1>7. QED
  BY <1>2, <1>4, <1>5, <1>6, Current DEF Shown, Verdict

\* A client that has begun nothing.
LEMMA NoUploadIs ==
  /\ NoUpload \in Upload /\ NoUpload.at = "idle" /\ NoUpload.file = NoFile
  /\ NoUpload.local = <<>> /\ NoUpload.back = <<>>
<1>1. <<>> \in Seq(Byte)
  OBVIOUS
<1>2. QED
  BY <1>1 DEF NoUpload, Upload, Places, NoFile

\* A client that failed.
LEMMA FailedIs ==
  ASSUME Inv, NEW c \in Clients
  PROVE  /\ FailedUpload(c) \in Upload /\ FailedUpload(c).at = "failed"
         /\ FailedUpload(c).back = <<>>
         /\ FailedUpload(c).name = client[c].name
         /\ FailedUpload(c).local = client[c].local /\ FailedUpload(c).before = client[c].before
         /\ FailedUpload(c).alone = client[c].alone /\ FailedUpload(c).file = NoFile
<1>1. /\ client[c].name \in FileNames \cup {""} /\ client[c].local \in Seq(Byte)
      /\ client[c].before \in Seq(Byte) /\ client[c].alone \in BOOLEAN
  BY Current DEF Upload
<1>2. PICK name, local, before, alone :
        /\ name = client[c].name /\ local = client[c].local /\ before = client[c].before
        /\ alone = client[c].alone
  OBVIOUS
<1>3. PICK none : none = NoUpload
  OBVIOUS
<1>4. none \in Upload /\ none.file = NoFile /\ none.back = <<>>
  BY <1>3, NoUploadIs
<1>5. FailedUpload(c) = [none EXCEPT !.at = "failed", !.name = name, !.local = local,
                                     !.before = before, !.alone = alone]
  BY <1>2, <1>3 DEF FailedUpload
<1>6. QED
  BY <1>1, <1>2, <1>4, <1>5 DEF Upload, Places

\* Failing is in order for an upload that others disturbed, or that had to fail.
LEMMA FailIs ==
  ASSUME Inv, NEW c \in Clients, Step(c, FailedUpload(c)), SameFiles, uploads' = uploads,
         client[c].at # "idle", ~(client[c].alone /\ Doable(client[c]))
  PROVE  \E u : Own(c, u) /\ Shown(u) /\ OnTheWay(u)'
<1>1. PICK u : u = FailedUpload(c)
  OBVIOUS
<1>2. /\ u \in Upload /\ u.at = "failed" /\ u.name = client[c].name
      /\ u.local = client[c].local /\ u.before = client[c].before
      /\ u.alone = client[c].alone /\ u.file = NoFile /\ u.back = <<>>
  BY <1>1, FailedIs
<1>3. Own(c, u) /\ (OnTheWay(u)' <=> OnTheWay(u))
  BY <1>1, <1>2, ReadOwn
<1>4. QED
  BY <1>2, <1>3 DEF Shown, OnTheWay, Doable

\* A chunk ends where the file or the chunk size does.
LEMMA ChunkIs ==
  ASSUME Sane, Inv, NEW c \in Clients, client[c].offset < Len(client[c].local)
  PROVE  LET end == Least(client[c].offset + ChunkSize, Len(client[c].local))
         IN /\ end \in Nat /\ client[c].offset <= end /\ end <= Len(client[c].local)
            /\ Chunk(c) \in Seq(Byte)
            /\ Len(Chunk(c)) = end - client[c].offset
            /\ \A i \in 1..Len(Chunk(c)) : Chunk(c)[i] = client[c].local[client[c].offset + i]
            /\ Final(c) <=> end = Len(client[c].local)
            /\ client[c].offset = 0 /\ Len(client[c].local) <= ChunkSize => Final(c)
            /\ client[c].offset = 0 /\ Final(c) => Len(client[c].local) <= ChunkSize
<1> DEFINE o == client[c].offset
           local == client[c].local
           end == Least(o + ChunkSize, Len(local))
<1>1. o \in Nat /\ local \in Seq(Byte) /\ Len(local) \in Nat /\ ChunkSize \in Nat /\ o < Len(local)
  BY Current DEF Sane
<1>2. Chunk(c) = SubSeq(local, o + 1, end)
  BY DEF Chunk
<1>3. Final(c) <=> o + Len(Chunk(c)) >= Len(local)
  BY DEF Final
<1>4. end \in Nat /\ o <= end /\ end <= Len(local)
      /\ (end = Len(local) <=> Len(local) <= o + ChunkSize)
  BY <1>1 DEF Least
<1> HIDE DEF o, local, end
<1>5. /\ Chunk(c) \in Seq(Byte) /\ Len(Chunk(c)) = end - o
      /\ \A i \in 1..Len(Chunk(c)) : Chunk(c)[i] = local[o + i]
  BY <1>1, <1>2, <1>4
<1>6. Final(c) <=> end = Len(local)
  BY <1>1, <1>3, <1>4, <1>5
<1>7. o = 0 => (Final(c) <=> Len(local) <= ChunkSize)
  BY <1>1, <1>4, <1>6
<1>8. QED
  BY <1>4, <1>5, <1>6, <1>7 DEF o, local, end

\* A client that opened the file is to write behind what it wrote.
LEMMA OpenedIs ==
  ASSUME Inv, NEW c \in Clients, NEW name, name = client[c].name, client[c].at = "open",
         Step(c, [client[c] EXCEPT !.at = "write", !.exists = FALSE, !.file = dir'[name]]),
         Changes(name), name \in DOMAIN dir', uploads' = uploads,
         client[c].alone /\ Doable(client[c]) =>
           Agrees(disk'[dir'[name]], client[c].local, client[c].offset)
  PROVE  \E u : Own(c, u) /\ Shown(u) /\ OnTheWay(u)'
<1>1. PICK f : f = dir'[name]
  OBVIOUS
<1>2. f \in Nat \ {0}
  <2>1. dir' \in [DOMAIN dir' -> 1..Len(disk')] /\ disk' \in Seq(Seq(Byte))
    BY ChangesAre DEF Inv
  <2>2. Len(disk') \in Nat
    BY <2>1
  <2>3. QED
    BY <1>1, <2>1, <2>2
<1>3. PICK u : u = [client[c] EXCEPT !.at = "write", !.exists = FALSE, !.file = f]
  OBVIOUS
<1>4. /\ u \in Upload /\ u.at = "write" /\ u.file = f
      /\ u.name = name /\ u.local = client[c].local /\ u.offset = client[c].offset
      /\ u.back = client[c].back /\ u.before = client[c].before
      /\ u.alone = client[c].alone
  BY <1>2, <1>3, Current DEF Upload, Places
<1>5. Own(c, u)
  BY <1>1, <1>2, <1>3, <1>4 DEF Own, NoFile, Inv, Based, TypeOK, Files, At
<1>6. Exists(name)' /\ Remote(name)' = disk'[f]
  BY <1>1 DEF Exists, Remote
<1>7. OnTheWay(u)'
  BY <1>1, <1>4, <1>6, Current DEF OnTheWay, Doable
<1>8. QED
  BY <1>4, <1>5, <1>7, Current DEF Shown, Verdict

\* Where it opens the file, emptied, created, or as it is.
LEMMA OpenIs ==
  ASSUME Sane, Inv, NEW c \in Clients, OpenFile(c)
  PROVE  \E u : Own(c, u) /\ Shown(u) /\ OnTheWay(u)'
<1> DEFINE v == client[c]
           Fit == v.alone /\ Doable(v)
<1>1. PICK name : name = v.name
  OBVIOUS
<1>2. v.at = "open" /\ uploads' = uploads
  BY DEF OpenFile, At
<1>3. name \in DOMAIN dir => dir[name] \in 1..Len(disk)
  BY Current
<1>4. Fit => /\ v.offset < Len(v.local) /\ (Len(v.local) <= ChunkSize => v.offset = 0)
             /\ v.exists <=> Exists(name)
             /\ v.offset > 0 => Exists(name)
             /\ Exists(name) /\ Len(v.local) > ChunkSize =>
                  Agrees(Remote(name), v.local, v.offset)
  BY <1>1, <1>2, Current DEF OnTheWay
<1>5. Fit => /\ Truncates(c) => v.offset = 0
             /\ ~Truncates(c) => Exists(name) /\ Len(v.local) > ChunkSize
  <2> SUFFICES ASSUME Fit PROVE /\ Truncates(c) => v.offset = 0
                                /\ ~Truncates(c) => Exists(name) /\ Len(v.local) > ChunkSize
    OBVIOUS
  <2>1. v.offset = 0 => (Final(c) <=> Len(v.local) <= ChunkSize)
    BY <1>4, ChunkIs, Current DEF Sane
  <2>2. v.offset \in Nat /\ Len(v.local) \in Nat /\ ChunkSize \in Nat
    BY Current DEF Sane
  <2>3. Truncates(c) <=> ~v.exists \/ (v.offset = 0 /\ Final(c))
    BY DEF Truncates
  <2>4. QED
    BY <1>4, <2>1, <2>2, <2>3
<1>6. CASE /\ Truncates(c) /\ Exists(name) /\ Overwrite(dir[name], <<>>)
           /\ Step(c, [v EXCEPT !.at = "write", !.exists = FALSE, !.file = dir'[name]])
  <2>1. dir' = dir /\ disk' = [disk EXCEPT ![dir[name]] = <<>>] /\ name \in DOMAIN dir
    BY <1>6 DEF Overwrite, Exists
  <2>2. disk'[dir'[name]] = <<>>
    BY <1>3, <2>1, Current
  <2>3. Changes(name)
    <3>1. <<>> \in Seq(Byte) /\ dir[name] \in 1..Len(disk)
      BY <1>3, <2>1
    <3>2. \A n \in DOMAIN dir : dir[n] = dir[name] => n = name
      BY <2>1 DEF Inv, Based, Files
    <3>3. QED
      BY <1>6, <3>1, <3>2 DEF Changes
  <2>4. Fit => Agrees(<<>>, v.local, v.offset)
    BY <1>4, <1>5, <1>6, Current DEF Agrees
  <2>5. QED
    BY <1>1, <1>2, <1>6, <2>1, <2>2, <2>3, <2>4, OpenedIs
<1>7. CASE /\ Truncates(c) /\ ~Exists(name) /\ Create(name)
           /\ Step(c, [v EXCEPT !.at = "write", !.exists = FALSE, !.file = dir'[name]])
  <2>1. /\ dir' = [n \in DOMAIN dir \cup {name} |-> IF n = name THEN Len(disk) + 1 ELSE dir[n]]
        /\ disk' = Append(disk, <<>>)
    BY <1>7 DEF Create
  <2>2. disk'[dir'[name]] = <<>> /\ name \in DOMAIN dir'
    BY <2>1, Current
  <2>3. Fit => Agrees(<<>>, v.local, v.offset)
    BY <1>4, <1>5, <1>7, Current DEF Agrees
  <2>4. CASE name \in FileNames
    <3>1. Changes(name)
      BY <1>7, <2>4 DEF Changes
    <3>2. QED
      BY <1>1, <1>2, <1>7, <2>2, <2>3, <3>1, OpenedIs
  <2>5. name \in FileNames
    BY <1>1, <1>2 DEF Inv, Based, Files, At
  <2>6. QED
    BY <2>4, <2>5
<1>8. CASE /\ ~Truncates(c) /\ Exists(name) /\ SameFiles
           /\ Step(c, [v EXCEPT !.at = "write", !.exists = FALSE, !.file = dir'[name]])
  <2>1. /\ dir' = dir /\ disk' = disk /\ name \in DOMAIN dir /\ Changes(name)
        /\ disk'[dir'[name]] = Remote(name)
    BY <1>8 DEF SameFiles, Exists, Changes, Remote
  <2>2. Fit => Agrees(Remote(name), v.local, v.offset)
    BY <1>4, <1>5, <1>8
  <2>3. QED
    BY <1>1, <1>2, <1>8, <2>1, <2>2, OpenedIs
<1>9. CASE ~Truncates(c) /\ ~Exists(name) /\ SameFiles /\ Step(c, FailedUpload(c))
  BY <1>2, <1>5, <1>9, FailIs
<1>10. QED
  BY <1>1, <1>6, <1>7, <1>8, <1>9 DEF OpenFile

\* What a write leaves in a file.
LEMMA WrittenIs ==
  ASSUME NEW content \in Seq(Byte), NEW offset \in Nat, NEW data \in Seq(Byte)
  PROVE  LET n == IF Len(content) > offset + Len(data) THEN Len(content) ELSE offset + Len(data)
             w == Written(content, offset, data)
         IN /\ w \in Seq(Byte) /\ Len(w) = n
            /\ \A i \in 1..n : w[i] = IF i > offset /\ i <= offset + Len(data)
                                      THEN data[i - offset]
                                      ELSE IF i <= Len(content) THEN content[i] ELSE 0
<1> DEFINE n == IF Len(content) > offset + Len(data) THEN Len(content) ELSE offset + Len(data)
           at(i) == IF i > offset /\ i <= offset + Len(data) THEN data[i - offset]
                    ELSE IF i <= Len(content) THEN content[i] ELSE 0
<1>1. Written(content, offset, data) = [i \in 1..n |-> at(i)]
  BY DEF Written
<1>2. n \in Nat
  OBVIOUS
<1>3. ASSUME NEW i \in 1..n PROVE at(i) \in Byte
  <2>1. CASE i > offset /\ i <= offset + Len(data)
    <3>1. i - offset \in 1..Len(data)
      BY <2>1
    <3>2. data[i - offset] \in Byte
      BY <3>1
    <3>3. QED
      BY <2>1, <3>2
  <2>2. CASE ~(i > offset /\ i <= offset + Len(data)) /\ i <= Len(content)
    BY <2>2
  <2>3. 0 \in Byte
    BY DEF Byte
  <2>4. QED
    BY <2>1, <2>2, <2>3
<1> HIDE DEF n, at
<1>4. Written(content, offset, data) \in Seq(Byte) /\ Len(Written(content, offset, data)) = n
  BY <1>1, <1>2, <1>3
<1>5. QED
  BY <1>1, <1>4 DEF n, at

\* The next chunk, written behind what agrees, agrees too.
LEMMA WrittenAgrees ==
  ASSUME NEW content \in Seq(Byte), NEW local \in Seq(Byte), NEW o \in Nat, NEW data \in Seq(Byte),
         NEW end \in Nat, o <= end, end <= Len(local), Agrees(content, local, o),
         Len(data) = end - o, \A i \in 1..Len(data) : data[i] = local[o + i]
  PROVE  /\ Agrees(Written(content, o, data), local, end)
         /\ end = Len(local) => Written(content, o, data) = local
<1> DEFINE w == Written(content, o, data)
<1>1. /\ Len(content) \in Nat /\ Len(local) \in Nat /\ o + Len(data) = end
      /\ o <= Len(content) /\ Len(content) <= Len(local)
      /\ \A i \in 1..o : content[i] = local[i]
  BY DEF Agrees
<1>2. /\ w \in Seq(Byte) /\ Len(w) = IF Len(content) > end THEN Len(content) ELSE end
      /\ \A i \in 1..Len(w) : w[i] = IF i > o /\ i <= end THEN data[i - o]
                                    ELSE IF i <= Len(content) THEN content[i] ELSE 0
  BY <1>1, WrittenIs
<1> HIDE DEF w
<1>3. ASSUME NEW i \in 1..end PROVE w[i] = local[i]
  <2>1. i \in 1..Len(w)
    BY <1>1, <1>2
  <2>2. CASE i > o
    <3>1. i - o \in 1..Len(data) /\ o + (i - o) = i
      BY <1>1, <2>2
    <3>2. data[i - o] = local[i]
      BY <3>1
    <3>3. QED
      BY <1>2, <2>1, <2>2, <3>2
  <2>3. CASE i <= o
    BY <1>1, <1>2, <2>1, <2>3
  <2>4. QED
    BY <2>2, <2>3
<1>4. end <= Len(w) /\ Len(w) <= Len(local)
  BY <1>1, <1>2
<1>5. end = Len(local) => Len(w) = Len(local)
  BY <1>1, <1>2
<1>6. end = Len(local) => w = local
  <2>1. end = Len(local) => \A i \in 1..Len(w) : w[i] = local[i]
    BY <1>3, <1>5
  <2>2. QED
    BY <1>2, <1>5, <2>1, SeqEqual
<1>7. QED
  BY <1>3, <1>4, <1>6 DEF Agrees, w

\* A chunk is made of bytes, wherever it is taken.
LEMMA ChunkType ==
  ASSUME Sane, Inv, NEW c \in Clients
  PROVE  Chunk(c) \in Seq(Byte)
<1> DEFINE o == client[c].offset
           local == client[c].local
           end == Least(o + ChunkSize, Len(local))
<1>1. o \in Nat /\ local \in Seq(Byte) /\ Len(local) \in Nat /\ ChunkSize \in Nat
  BY Current DEF Sane
<1>2. Chunk(c) = SubSeq(local, o + 1, end)
  BY DEF Chunk
<1>3. end \in Nat /\ end <= Len(local)
  BY <1>1 DEF Least
<1> HIDE DEF o, local, end
<1>4. QED
  BY <1>1, <1>2, <1>3

\* Where it writes a chunk, to a file that may have lost its name.
LEMMA WriteIs ==
  ASSUME Sane, Inv, NEW c \in Clients, WriteChunk(c)
  PROVE  \E u : Own(c, u) /\ Shown(u) /\ OnTheWay(u)'
<1> DEFINE v == client[c]
           Fit == v.alone /\ Doable(v)
<1>1. PICK name, file, content, data :
        /\ name = v.name /\ file = v.file /\ data = Chunk(c)
        /\ content = Written(disk[file], v.offset, data)
  OBVIOUS
<1>2. v.at = "write" /\ uploads' = uploads /\ Overwrite(file, content)
  BY <1>1 DEF WriteChunk, At
<1>3. /\ file \in 1..Len(disk) /\ disk[file] \in Seq(Byte) /\ name \in FileNames
      /\ \A n \in DOMAIN dir : dir[n] = file => n = name
  <2>1. v \in Upload /\ file \in Nat /\ disk \in Seq(Seq(Byte)) /\ Len(disk) \in Nat
    BY <1>1, Current DEF Upload
  <2>2. /\ file <= Len(disk) /\ file # 0 /\ name \in FileNames
        /\ \A n \in DOMAIN dir : dir[n] = file => n = name
    BY <1>1, <1>2 DEF Inv, Based, Files, At, NoFile
  <2>3. file \in 1..Len(disk)
    BY <2>1, <2>2
  <2>4. QED
    BY <2>1, <2>2, <2>3
<1>4. data \in Seq(Byte) /\ v.offset \in Nat /\ content \in Seq(Byte)
  BY <1>1, <1>3, Current, ChunkType, WrittenIs
<1>5. Changes(name) /\ dir' = dir /\ disk'[file] = content
  <2>1. dir' = dir /\ disk' = [disk EXCEPT ![file] = content]
    BY <1>2 DEF Overwrite
  <2>2. disk'[file] = content
    BY <1>3, <2>1, Current
  <2>3. Changes(name)
    BY <1>2, <1>3, <1>4 DEF Changes
  <2>4. QED
    BY <2>1, <2>2, <2>3
<1>6. Fit => /\ v.offset < Len(v.local) /\ (Len(v.local) <= ChunkSize => v.offset = 0)
             /\ Exists(name) /\ file = dir[name] /\ Agrees(disk[file], v.local, v.offset)
  BY <1>1, <1>2, Current DEF OnTheWay, Remote
<1>7. CASE Exists(name)
  <2>1. PICK u : /\ u = IF Final(c) THEN [v EXCEPT !.offset = 0, !.file = NoFile, !.at = "size"]
                        ELSE [v EXCEPT !.offset = @ + Len(data), !.file = NoFile, !.at = "check"]
                 /\ Step(c, u)
    BY <1>1, <1>7 DEF WriteChunk
  <2>2. v.offset + Len(data) \in Nat /\ "size" \in Places /\ "check" \in Places
    BY <1>4 DEF Places
  <2>3. /\ u \in Upload /\ u.at = (IF Final(c) THEN "size" ELSE "check") /\ u.file = NoFile
        /\ u.name = name /\ u.local = v.local
        /\ ~Final(c) => u.offset = v.offset + Len(data)
        /\ u.back = v.back /\ u.before = v.before /\ u.alone = v.alone
    <3>1. v \in Upload
      BY Current
    <3>2. PICK o : o = v.offset + Len(data)
      OBVIOUS
    <3>3. CASE Final(c)
      <4>1. u = [v EXCEPT !.offset = 0, !.file = NoFile, !.at = "size"]
        BY <2>1, <3>3
      <4>2. QED
        BY <1>1, <2>2, <3>1, <3>3, <4>1 DEF Upload, NoFile
    <3>4. CASE ~Final(c)
      <4>1. u = [v EXCEPT !.offset = o, !.file = NoFile, !.at = "check"]
        BY <2>1, <3>1, <3>2, <3>4 DEF Upload
      <4>2. QED
        BY <1>1, <2>2, <3>1, <3>2, <3>4, <4>1 DEF Upload, NoFile
    <3>5. QED
      BY <3>3, <3>4
  <2>4. Own(c, u) /\ Shown(u)
    <3>1. u.at \in {"size", "check"} /\ u.back = <<>>
      BY <1>2, <2>3, Current DEF Verdict
    <3>2. QED
      BY <1>2, <1>3, <1>5, <2>1, <2>3, <3>1 DEF Own, Shown, Inv, Based, TypeOK
  <2>5. OnTheWay(u)'
    <3> SUFFICES ASSUME Fit PROVE OnTheWay(u)'
      BY <2>3 DEF OnTheWay, Doable
    <3>1. PICK end : end = Least(v.offset + ChunkSize, Len(v.local))
      OBVIOUS
    <3>2. /\ end \in Nat /\ v.offset <= end /\ end <= Len(v.local) /\ Len(data) = end - v.offset
          /\ \A i \in 1..Len(data) : data[i] = v.local[v.offset + i]
          /\ Final(c) <=> end = Len(v.local)
          /\ v.offset = 0 /\ Len(v.local) <= ChunkSize => Final(c)
      BY <1>1, <1>6, <3>1, ChunkIs
    <3>3. Agrees(content, v.local, end) /\ (end = Len(v.local) => content = v.local)
      <4>1. v.local \in Seq(Byte) /\ Agrees(disk[file], v.local, v.offset)
        BY <1>6, Current
      <4>2. PICK local, o : local = v.local /\ o = v.offset
        OBVIOUS
      <4>3. /\ disk[file] \in Seq(Byte) /\ local \in Seq(Byte) /\ o \in Nat /\ end \in Nat
            /\ o <= end /\ end <= Len(local) /\ Agrees(disk[file], local, o)
            /\ Len(data) = end - o /\ \A i \in 1..Len(data) : data[i] = local[o + i]
        BY <1>3, <1>4, <3>2, <4>1, <4>2
      <4>4. /\ Agrees(Written(disk[file], o, data), local, end)
            /\ end = Len(local) => Written(disk[file], o, data) = local
        BY <1>4, <4>3, WrittenAgrees
      <4>5. content = Written(disk[file], o, data)
        BY <1>1, <4>2
      <4>6. QED
        BY <4>2, <4>4, <4>5
    <3>4. Exists(name)' /\ Remote(name)' = content
      BY <1>5, <1>6, <1>7 DEF Exists, Remote
    <3>5. v.offset + Len(data) = end /\ Len(v.local) \in Nat
      BY <1>4, <3>2, Current
    <3>6. CASE Final(c)
      BY <1>6, <2>3, <3>2, <3>3, <3>4, <3>6 DEF OnTheWay
    <3>7. CASE ~Final(c)
      <4>1. end < Len(v.local) /\ ~(Len(v.local) <= ChunkSize)
        BY <1>6, <3>2, <3>5, <3>7
      <4>2. QED
        BY <1>6, <2>3, <3>3, <3>4, <3>5, <3>7, <4>1 DEF OnTheWay
    <3>8. QED
      BY <3>6, <3>7
  <2>6. QED
    BY <2>4, <2>5
<1>8. CASE ~Exists(name)
  <2>1. PICK u : u = FailedUpload(c) /\ Step(c, u)
    BY <1>1, <1>8 DEF WriteChunk
  <2>2. /\ u \in Upload /\ u.at = "failed" /\ u.name = name
        /\ u.local = v.local /\ u.before = v.before /\ u.alone = v.alone /\ u.file = NoFile
        /\ u.back = <<>>
    BY <1>1, <2>1, FailedIs
  <2>3. Own(c, u) /\ Shown(u)
    BY <1>1, <1>2, <1>3, <1>5, <2>1, <2>2 DEF Own, Shown, Inv, Based, TypeOK
  <2>4. OnTheWay(u)'
    BY <1>6, <1>8, <2>2 DEF OnTheWay, Doable
  <2>5. QED
    BY <2>3, <2>4
<1>9. QED
  BY <1>7, <1>8

\* Where it compares the size, and goes on to ask for the checksum.
LEMMA VerifySizeIs ==
  ASSUME Inv, NEW c \in Clients, VerifySize(c)
  PROVE  \E u : Own(c, u) /\ Shown(u) /\ OnTheWay(u)'
<1>1. client[c].at = "size" /\ SameFiles /\ uploads' = uploads
  BY DEF VerifySize, At
<1>2. CASE Len(Remote(client[c].name)) = Len(client[c].local)
  <2>1. PICK u : u = [client[c] EXCEPT !.at = "summing"] /\ Step(c, u)
    BY <1>2 DEF VerifySize
  <2>2. /\ u \in Upload /\ u.at = "summing" /\ u.name = client[c].name
        /\ u.local = client[c].local /\ u.offset = client[c].offset /\ u.file = client[c].file
        /\ u.back = client[c].back /\ u.before = client[c].before /\ u.alone = client[c].alone
    BY <2>1, Current DEF Upload, Places
  <2>3. Own(c, u) /\ (OnTheWay(u)' <=> OnTheWay(u))
    BY <1>1, <2>1, <2>2, ReadOwn
  <2>4. OnTheWay(u)
    BY <1>1, <2>2, Current DEF OnTheWay, Doable
  <2>5. QED
    BY <1>1, <2>2, <2>3, <2>4, Current DEF Shown, Verdict
<1>3. CASE Len(Remote(client[c].name)) # Len(client[c].local)
  <2>1. ~(client[c].alone /\ Doable(client[c]))
    BY <1>1, <1>3, Current DEF OnTheWay
  <2>2. QED
    BY <1>1, <1>3, <2>1, FailIs DEF VerifySize
<1>4. QED
  BY <1>2, <1>3

\* Where it opens the file for its checksum.
LEMMA OpenSumIs ==
  ASSUME Inv, NEW c \in Clients, OpenSum(c)
  PROVE  \E u : Own(c, u) /\ Shown(u) /\ OnTheWay(u)'
<1>1. client[c].at = "summing" /\ SameFiles /\ uploads' = uploads
  BY DEF OpenSum, At
<1>2. CASE Exists(client[c].name)
  <2>1. PICK f : f = dir[client[c].name]
    OBVIOUS
  <2>2. f \in Nat /\ f # NoFile
    BY <1>2, <2>1, Current DEF Exists, NoFile
  <2>3. PICK u : u = [client[c] EXCEPT !.at = "sum", !.file = f] /\ Step(c, u)
    BY <1>2, <2>1 DEF OpenSum
  <2>4. /\ u \in Upload /\ u.at = "sum" /\ u.file = f /\ u.name = client[c].name
        /\ u.local = client[c].local /\ u.offset = client[c].offset /\ u.back = client[c].back
        /\ u.before = client[c].before /\ u.alone = client[c].alone
    BY <2>2, <2>3, Current DEF Upload, Places
  <2>5. Own(c, u) /\ (OnTheWay(u)' <=> OnTheWay(u))
    <3>1. client[c].at # "idle" /\ u.at # "write" /\ u.file # NoFile
      BY <1>1, <2>2, <2>4
    <3>2. Exists(u.name) /\ u.file = dir[u.name]
      BY <1>2, <2>1, <2>4
    <3>3. QED
      BY <1>1, <2>3, <2>4, <3>1, <3>2, ReadOwn
  <2>6. OnTheWay(u)
    <3> SUFFICES ASSUME u.alone, Doable(u) PROVE OnTheWay(u)
      BY DEF OnTheWay
    <3>1. Exists(u.name) /\ Remote(u.name) = u.local /\ u.back = <<>>
      BY <1>1, <2>4, Current DEF OnTheWay, Doable, Verdict
    <3>2. u.back = SubSeq(u.local, 1, Len(u.back)) /\ Len(u.back) <= Len(u.local)
      BY <2>4, <3>1, Current
    <3>3. QED
      BY <2>1, <2>4, <3>1, <3>2 DEF OnTheWay
  <2>7. Shown(u)
    <3>1. u.back = <<>>
      BY <1>1, <2>4, Current DEF Verdict
    <3>2. Len(disk[u.file]) \in Nat /\ DOMAIN u.local \subseteq Nat \ {0}
      <4>1. disk[u.file] \in Seq(Byte) /\ u.local \in Seq(Byte)
        BY <1>2, <2>1, <2>4, Current DEF Exists
      <4>2. QED
        BY <4>1
    <3>3. Len(u.back) = 0 /\ 1..Len(u.back) = {}
      BY <3>1
    <3>4. QED
      BY <1>1, <2>4, <3>2, <3>3 DEF Shown
  <2>8. QED
    BY <2>5, <2>6, <2>7
<1>3. CASE ~Exists(client[c].name)
  <2>1. ~(client[c].alone /\ Doable(client[c]))
    BY <1>1, <1>3, Current DEF OnTheWay
  <2>2. QED
    BY <1>1, <1>3, <2>1, FailIs DEF OpenSum
<1>4. QED
  BY <1>2, <1>3

\* Where it opens the file to read it back.
LEMMA OpenStreamIs ==
  ASSUME Inv, NEW c \in Clients, OpenStream(c)
  PROVE  \E u : Own(c, u) /\ Shown(u) /\ OnTheWay(u)'
<1>1. client[c].at = "stream" /\ SameFiles /\ uploads' = uploads
  BY DEF OpenStream, At
<1>2. PICK f : f = IF Exists(client[c].name) THEN dir[client[c].name] ELSE NoFile
  OBVIOUS
<1>3. PICK u : u = [client[c] EXCEPT !.at = "back", !.file = f] /\ Step(c, u)
  BY <1>2 DEF OpenStream
<1>4. f \in Nat
  BY <1>2, Current DEF Exists, NoFile
<1>5. /\ u \in Upload /\ u.at = "back" /\ u.file = f /\ u.name = client[c].name
      /\ u.local = client[c].local /\ u.offset = client[c].offset /\ u.back = client[c].back
      /\ u.before = client[c].before /\ u.alone = client[c].alone /\ u.was = client[c].was
      /\ u.calm = client[c].calm /\ u.seen = client[c].seen
  BY <1>3, <1>4, Current DEF Upload, Places
<1>6. Own(c, u) /\ (OnTheWay(u)' <=> OnTheWay(u))
  <2>1. u.at # "write" /\ u.at # "sum" /\ client[c].at # "idle" /\ u.name = client[c].name
    BY <1>1, <1>5
  <2>2. u.file = NoFile \/ (Exists(u.name) /\ u.file = dir[u.name])
    BY <1>2, <1>5
  <2>3. u \in Upload /\ Step(c, u) /\ SameFiles /\ uploads' = uploads
    BY <1>1, <1>3, <1>5
  <2>4. QED
    BY <2>1, <2>2, <2>3, ReadOwn
<1>7. OnTheWay(u)
  <2> SUFFICES ASSUME u.alone, Doable(u) PROVE OnTheWay(u)
    BY DEF OnTheWay
  <2>1. Exists(u.name) /\ Remote(u.name) = u.local /\ u.back = <<>>
    BY <1>1, <1>5, Current DEF OnTheWay, Doable, Verdict
  <2>2. u.back = SubSeq(u.local, 1, Len(u.back)) /\ Len(u.back) <= Len(u.local)
    BY <1>5, <2>1, Current
  <2>3. QED
    BY <1>2, <1>5, <2>1, <2>2 DEF OnTheWay
<1>8. Shown(u)
  BY <1>1, <1>5, Current DEF Shown, Verdict, Matched
<1>9. QED
  BY <1>6, <1>7, <1>8

\* A stretch and the next one are one stretch.
LEMMA Stretches ==
  ASSUME NEW s \in Seq(Byte), NEW m \in Nat, NEW n \in Nat, m <= n, n <= Len(s)
  PROVE  /\ SubSeq(s, 1, m) \o SubSeq(s, m + 1, n) = SubSeq(s, 1, n)
         /\ SubSeq(s, 1, n) \in Seq(Byte) /\ Len(SubSeq(s, 1, n)) = n
<1> DEFINE a == SubSeq(s, 1, m)
           b == SubSeq(s, m + 1, n)
           t == SubSeq(s, 1, n)
<1>1. /\ a \in Seq(Byte) /\ Len(a) = m /\ \A i \in 1..m : a[i] = s[i]
      /\ b \in Seq(Byte) /\ Len(b) = n - m /\ \A i \in 1..(n - m) : b[i] = s[m + i]
      /\ t \in Seq(Byte) /\ Len(t) = n /\ \A i \in 1..n : t[i] = s[i]
  OBVIOUS
<1> HIDE DEF a, b, t
<1>2. /\ a \o b \in Seq(Byte) /\ Len(a \o b) = Len(a) + Len(b)
      /\ \A i \in 1..Len(a) + Len(b) : (a \o b)[i] = IF i <= Len(a) THEN a[i] ELSE b[i - Len(a)]
  <2>1. a \in Seq(Byte) /\ b \in Seq(Byte)
    BY <1>1
  <2>2. QED
    BY <2>1, ConcatProperties, Zenon
<1>3. Len(a) + Len(b) = n
  BY <1>1
<1>4. ASSUME NEW i \in 1..n PROVE (a \o b)[i] = t[i]
  <2>1. (a \o b)[i] = IF i <= m THEN a[i] ELSE b[i - m]
    BY <1>1, <1>2, <1>3
  <2>2. i \in Nat /\ i >= 1 /\ i <= n /\ t[i] = s[i]
    BY <1>1
  <2>3. i <= m => a[i] = s[i]
    <3>1. i <= m => i \in 1..m
      BY <2>2
    <3>2. QED
      BY <1>1, <3>1
  <2>4. ~(i <= m) => b[i - m] = s[i]
    <3>1. ~(i <= m) => i - m \in 1..(n - m) /\ m + (i - m) = i
      BY <2>2
    <3>2. QED
      BY <1>1, <3>1
  <2>5. QED
    BY <2>1, <2>2, <2>3, <2>4
<1>5. a \o b = t
  BY <1>1, <1>2, <1>3, <1>4, SeqEqual
<1>6. QED
  BY <1>1, <1>5 DEF a, b, t

\* The file a client has open is the one at the name, if others leave it alone.
LEMMA OpenedFile ==
  ASSUME Inv, NEW c \in Clients
  PROVE  /\ Opened(c) \in Seq(Byte)
         /\ client[c].file # NoFile => Opened(c) = disk[client[c].file]
         /\ client[c].alone /\ Doable(client[c]) /\ client[c].at \in {"sum", "back"} =>
              Opened(c) = client[c].local
<1>1. /\ client[c].file \in Nat /\ Len(disk) \in Nat /\ disk \in Seq(Seq(Byte))
      /\ client[c].file <= Len(disk)
  BY Current DEF Upload, Inv, Based, Files
<1>2. Opened(c) \in Seq(Byte)
  <2>1. client[c].file # 0 => disk[client[c].file] \in Seq(Byte)
    BY <1>1
  <2>2. <<>> \in Seq(Byte)
    OBVIOUS
  <2>3. QED
    BY <2>1, <2>2 DEF Opened, NoFile
<1>3. ASSUME client[c].alone, Doable(client[c]), client[c].at \in {"sum", "back"}
      PROVE  Opened(c) = client[c].local
  <2>1. /\ Exists(client[c].name) /\ client[c].file = dir[client[c].name]
        /\ Remote(client[c].name) = client[c].local
    BY <1>3, Current DEF OnTheWay
  <2>2. client[c].file # NoFile
    BY <2>1, Current DEF Exists, NoFile
  <2>3. QED
    BY <2>1, <2>2 DEF Opened, Remote
<1>4. QED
  BY <1>2, <1>3 DEF Opened

\* What a client has after another piece: what it had, and behind it what the
\* file holds now.
LEMMA PieceIs ==
  ASSUME Inv, NEW c \in Clients, NEW size \in Nat, ReadPiece(c, size),
         client[c].at \in {"sum", "back"}
  PROVE  \E u \in Upload :
           /\ Step(c, u) /\ Own(c, u) /\ OnTheWay(u)'
           /\ u.at = client[c].at /\ u.name = client[c].name /\ u.file = client[c].file
           /\ u.local = client[c].local /\ u.was = client[c].was /\ u.calm = client[c].calm
           /\ u.seen = client[c].seen
           /\ Len(client[c].back) <= Len(Opened(c)) /\ Len(u.back) <= Len(Opened(c))
           /\ \A i \in 1..Len(u.back) :
                u.back[i] = IF i <= Len(client[c].back) THEN client[c].back[i] ELSE Opened(c)[i]
<1>1. SameFiles /\ uploads' = uploads /\ ~(Len(client[c].back) >= Len(Opened(c)))
  BY DEF ReadPiece, AtEnd
<1>2. PICK m, n, file, old, piece, back :
        /\ old = client[c].back /\ m = Len(old) /\ file = Opened(c)
        /\ n = Least(m + size, Len(file)) /\ piece = SubSeq(file, m + 1, n)
        /\ back = old \o piece
  OBVIOUS
<1>3. PICK u : u = [client[c] EXCEPT !.back = back] /\ Step(c, u)
  <2>1. Step(c, [client[c] EXCEPT !.back = @ \o piece])
    BY <1>2 DEF ReadPiece
  <2>2. [client[c] EXCEPT !.back = @ \o piece] = [client[c] EXCEPT !.back = back]
    BY <1>2
  <2>3. QED
    BY <2>1, <2>2
<1>4. /\ file \in Seq(Byte) /\ Len(file) \in Nat /\ old \in Seq(Byte)
      /\ m \in Nat /\ m < Len(file)
  BY <1>1, <1>2, Current, OpenedFile
<1>5. n \in Nat /\ m <= n /\ n <= Len(file)
  BY <1>2, <1>4 DEF Least
<1>6. piece \in Seq(Byte) /\ Len(piece) = n - m /\ \A i \in 1..(n - m) : piece[i] = file[m + i]
  <2>1. piece = SubSeq(file, m + 1, n)
    BY <1>2
  <2>2. file \in Seq(Byte) /\ m \in Nat /\ n \in Nat /\ m <= n /\ n <= Len(file)
    BY <1>4, <1>5
  <2>3. QED
    BY <2>1, <2>2
<1>7. /\ back \in Seq(Byte) /\ Len(back) = n
      /\ \A i \in 1..n : back[i] = IF i <= m THEN old[i] ELSE file[i]
  <2>1. old \o piece \in Seq(Byte) /\ Len(old \o piece) = Len(old) + Len(piece)
        /\ \A i \in 1..Len(old) + Len(piece) :
             (old \o piece)[i] = IF i <= Len(old) THEN old[i] ELSE piece[i - Len(old)]
    <3>1. old \in Seq(Byte) /\ piece \in Seq(Byte)
      BY <1>4, <1>6
    <3>2. QED
      BY <3>1, ConcatProperties, Zenon
  <2>2. Len(old) + Len(piece) = n /\ Len(old) = m
    BY <1>2, <1>4, <1>5, <1>6
  <2>3. ASSUME NEW i \in 1..n, ~(i <= m) PROVE piece[i - m] = file[i]
    <3>1. i - m \in 1..(n - m) /\ m + (i - m) = i
      BY <1>4, <1>5, <2>3
    <3>2. QED
      BY <1>6, <3>1
  <2>4. ASSUME NEW i \in 1..n PROVE back[i] = IF i <= m THEN old[i] ELSE file[i]
    <3>1. back[i] = IF i <= m THEN old[i] ELSE piece[i - m]
      BY <1>2, <2>1, <2>2
    <3>2. QED
      BY <2>3, <3>1
  <2>5. QED
    BY <1>2, <2>1, <2>2, <2>4
<1>8. /\ u \in Upload /\ u.at = client[c].at /\ u.back = back /\ u.name = client[c].name
      /\ u.file = client[c].file /\ u.local = client[c].local /\ u.offset = client[c].offset
      /\ u.before = client[c].before /\ u.alone = client[c].alone /\ u.was = client[c].was
      /\ u.calm = client[c].calm /\ u.seen = client[c].seen
  BY <1>3, <1>7, Current DEF Upload
<1>9. Own(c, u) /\ (OnTheWay(u)' <=> OnTheWay(u))
  <2>1. client[c].at # "idle" /\ u.at # "write" /\ (u.at = "sum" => u.file # NoFile)
    BY <1>8 DEF Inv, Based, Files
  <2>2. QED
    BY <1>1, <1>3, <1>8, <2>1, ReadOwn
<1>10. OnTheWay(u)
  <2> SUFFICES ASSUME u.alone, Doable(u) PROVE OnTheWay(u)
    BY DEF OnTheWay
  <2>1. client[c].alone /\ Doable(client[c])
    BY <1>8 DEF Doable
  <2>2. /\ Exists(u.name) /\ Remote(u.name) = u.local /\ u.file = dir[u.name]
        /\ old = SubSeq(u.local, 1, m) /\ file = u.local
    BY <1>2, <1>8, <2>1, Current, OpenedFile DEF OnTheWay
  <2>3. back = SubSeq(u.local, 1, n)
    <3>1. SubSeq(file, 1, m) \o SubSeq(file, m + 1, n) = SubSeq(file, 1, n)
      <4>1. file \in Seq(Byte) /\ m \in Nat /\ n \in Nat /\ m <= n /\ n <= Len(file)
        BY <1>4, <1>5
      <4>2. QED
        BY <4>1, Stretches
    <3>2. QED
      BY <1>2, <2>2, <3>1
  <2>4. QED
    BY <1>5, <1>7, <1>8, <2>2, <2>3 DEF OnTheWay
<1>11. /\ Len(client[c].back) <= Len(Opened(c)) /\ Len(u.back) <= Len(Opened(c))
       /\ \A i \in 1..Len(u.back) :
            u.back[i] = IF i <= Len(client[c].back) THEN client[c].back[i] ELSE Opened(c)[i]
  BY <1>2, <1>4, <1>5, <1>7, <1>8
<1>12. QED
  BY <1>3, <1>8, <1>9, <1>10, <1>11

\* Where the checksum takes in another piece.
LEMMA ReadSumIs ==
  ASSUME Sane, Inv, NEW c \in Clients, ReadSum(c)
  PROVE  \E u : Own(c, u) /\ Shown(u) /\ OnTheWay(u)'
<1>1. client[c].at = "sum" /\ ReadPiece(c, SumPiece) /\ SameFiles
  BY DEF ReadSum, ReadPiece, At
<1>2. PICK u \in Upload :
           /\ Own(c, u) /\ OnTheWay(u)'
           /\ u.at = "sum" /\ u.file = client[c].file
           /\ u.local = client[c].local /\ u.calm = client[c].calm /\ u.seen = client[c].seen
           /\ Len(client[c].back) <= Len(Opened(c)) /\ Len(u.back) <= Len(Opened(c))
           /\ \A i \in 1..Len(u.back) :
                u.back[i] = IF i <= Len(client[c].back) THEN client[c].back[i] ELSE Opened(c)[i]
  BY <1>1, PieceIs DEF Sane
<1>3. PICK now, old : now = Opened(c) /\ old = client[c].back
  OBVIOUS
<1>4. disk[u.file] = now
  BY <1>1, <1>2, <1>3, OpenedFile DEF Inv, Based, Files
<1>5. /\ now \in Seq(Byte) /\ old \in Seq(Byte) /\ u.back \in Seq(Byte) /\ u.local \in Seq(Byte)
      /\ Len(now) \in Nat /\ Len(old) \in Nat /\ Len(u.back) \in Nat
      /\ DOMAIN u.local \subseteq Nat \ {0}
  <2>1. now \in Seq(Byte) /\ old \in Seq(Byte) /\ u.back \in Seq(Byte) /\ u.local \in Seq(Byte)
    BY <1>2, <1>3, Current, OpenedFile DEF Upload
  <2>2. QED
    BY <2>1
<1>6. /\ u.calm => \A i \in 1..Len(old) : old[i] = now[i]
      /\ \A i \in DOMAIN u.local : i <= Len(old) /\ old[i] = u.local[i] => i \in u.seen
  BY <1>1, <1>2, <1>3, <1>4, Current DEF Verdict, Reading
<1>7. /\ Len(u.back) <= Len(now)
      /\ \A i \in 1..Len(u.back) : u.back[i] = IF i <= Len(old) THEN old[i] ELSE now[i]
  BY <1>2, <1>3
<1>8. ASSUME u.calm, NEW i \in 1..Len(u.back) PROVE u.back[i] = now[i]
  BY <1>5, <1>6, <1>7, <1>8
<1>9. ASSUME NEW i \in DOMAIN u.local, i <= Len(u.back), u.back[i] = u.local[i]
      PROVE  i \in u.seen \/ (i <= Len(now) /\ now[i] = u.local[i])
  <2>1. i \in 1..Len(u.back) /\ i \in Nat
    BY <1>5, <1>9
  <2>2. i <= Len(now)
    BY <1>5, <1>7, <2>1
  <2>3. CASE i <= Len(old)
    BY <1>6, <1>7, <1>9, <2>1, <2>3
  <2>4. CASE ~(i <= Len(old))
    BY <1>7, <1>9, <2>1, <2>2, <2>4
  <2>5. QED
    BY <2>3, <2>4
<1>10. Shown(u)
  BY <1>1, <1>2, <1>4, <1>7, <1>8, <1>9 DEF Shown
<1>11. QED
  BY <1>2, <1>10

\* Where it reads another chunk back.
LEMMA StreamBackIs ==
  ASSUME Sane, Inv, NEW c \in Clients, StreamBack(c)
  PROVE  \E u : Own(c, u) /\ Shown(u) /\ OnTheWay(u)'
<1>1. client[c].at = "back" /\ ReadPiece(c, StreamChunk)
  BY DEF StreamBack, At
<1>2. PICK u \in Upload :
           /\ Own(c, u) /\ OnTheWay(u)'
           /\ u.at = "back" /\ u.local = client[c].local /\ u.was = client[c].was
           /\ u.calm = client[c].calm /\ u.seen = client[c].seen
  BY <1>1, PieceIs DEF Sane
<1>3. QED
  BY <1>1, <1>2, Current DEF Shown, Verdict, Matched

\* A client that read to the end, alone at the name, has the local file.
LEMMA AllRead ==
  ASSUME Inv, NEW c \in Clients, client[c].at \in {"sum", "back"}, AtEnd(c),
         client[c].alone, Doable(client[c])
  PROVE  client[c].back = client[c].local
<1>1. Len(client[c].back) <= Len(client[c].local)
      /\ client[c].back = SubSeq(client[c].local, 1, Len(client[c].back))
  BY Current DEF OnTheWay
<1>2. Opened(c) = client[c].local
  BY OpenedFile
<1>3. client[c].back \in Seq(Byte) /\ client[c].local \in Seq(Byte)
  BY Current
<1>4. Len(client[c].back) = Len(client[c].local)
  BY <1>1, <1>2, <1>3 DEF AtEnd
<1>5. QED
  BY <1>1, <1>3, <1>4

\* Where the checksum is compared.  If the file stayed as it was, what was read
\* is the file; every byte that was read was in the file.
LEMMA CompareSumIs ==
  ASSUME Inv, NEW c \in Clients, CompareSum(c)
  PROVE  \E u : Own(c, u) /\ Shown(u) /\ OnTheWay(u)'
<1>1. client[c].at = "sum" /\ AtEnd(c) /\ SameFiles /\ uploads' = uploads
  BY DEF CompareSum, At
<1>2. CASE client[c].back = client[c].local
  <2>1. PICK u : /\ u = [client[c] EXCEPT !.at = "stream", !.file = NoFile, !.back = <<>>]
                 /\ Step(c, u)
    BY <1>2 DEF CompareSum
  <2>2. <<>> \in Seq(Byte)
    OBVIOUS
  <2>3. /\ u \in Upload /\ u.at = "stream" /\ u.file = NoFile /\ u.name = client[c].name
        /\ u.local = client[c].local /\ u.offset = client[c].offset /\ u.back = <<>>
        /\ u.before = client[c].before /\ u.alone = client[c].alone /\ u.was = client[c].was
        /\ u.calm = client[c].calm /\ u.seen = client[c].seen
    BY <2>1, <2>2, Current DEF Upload, Places, NoFile
  <2>4. Own(c, u) /\ (OnTheWay(u)' <=> OnTheWay(u))
    BY <1>1, <2>1, <2>3, ReadOwn
  <2>5. OnTheWay(u)
    BY <1>1, <2>3, Current DEF OnTheWay, Doable
  <2>6. Matched(u)
    <3>1. PICK now, back, local : now = Opened(c) /\ back = client[c].back /\ local = client[c].local
      OBVIOUS
    <3>2. /\ now \in Seq(Byte) /\ back \in Seq(Byte) /\ local = back /\ Len(back) >= Len(now)
          /\ now = disk[client[c].file]
      BY <1>1, <1>2, <3>1, Current, OpenedFile DEF AtEnd, Inv, Based, Files
    <3>3. /\ u.calm => Len(back) <= Len(now) /\ \A i \in 1..Len(back) : back[i] = now[i]
          /\ now = local => u.was
          /\ \A i \in DOMAIN local : i <= Len(back) /\ back[i] = local[i] => i \in u.seen
      <4>1. Reading(client[c], now)
        BY <1>1, <3>2, Current DEF Verdict
      <4>2. QED
        BY <2>3, <3>1, <4>1 DEF Reading
    <3>4. DOMAIN local \subseteq u.seen
      BY <3>2, <3>3
    <3>5. u.calm => now = back
      <4>1. u.calm => Len(now) = Len(back)
        BY <3>2, <3>3
      <4>2. QED
        BY <3>2, <3>3, <4>1, SeqEqual
    <3>6. QED
      BY <2>3, <3>1, <3>2, <3>3, <3>4, <3>5 DEF Matched
  <2>7. QED
    BY <2>3, <2>4, <2>5, <2>6 DEF Shown
<1>3. CASE client[c].back # client[c].local
  <2>1. ~(client[c].alone /\ Doable(client[c]))
    BY <1>1, <1>3, AllRead
  <2>2. QED
    BY <1>1, <1>3, <2>1, FailIs DEF CompareSum
<1>4. QED
  BY <1>2, <1>3

\* Where it compares what came back and gives its verdict.
LEMMA CompareIs ==
  ASSUME Inv, NEW c \in Clients, Compare(c)
  PROVE  \E u : Own(c, u) /\ Shown(u) /\ OnTheWay(u)'
<1>1. client[c].at = "back" /\ AtEnd(c) /\ SameFiles /\ uploads' = uploads
  BY DEF Compare, At
<1>2. CASE client[c].back = client[c].local
  <2>1. PICK u : /\ u = [client[c] EXCEPT !.at = "passed", !.file = NoFile, !.back = <<>>]
                 /\ Step(c, u)
    BY <1>2 DEF Compare
  <2>2. <<>> \in Seq(Byte)
    OBVIOUS
  <2>3. /\ u \in Upload /\ u.at = "passed" /\ u.file = NoFile /\ u.name = client[c].name
        /\ u.local = client[c].local /\ u.back = <<>> /\ u.was = client[c].was
        /\ u.calm = client[c].calm /\ u.seen = client[c].seen
    BY <2>1, <2>2, Current DEF Upload, Places, NoFile
  <2>4. Own(c, u) /\ (OnTheWay(u)' <=> OnTheWay(u))
    BY <1>1, <2>1, <2>3, ReadOwn
  <2>5. OnTheWay(u)
    BY <2>3 DEF OnTheWay
  <2>6. Shown(u)
    BY <1>1, <2>3, Current DEF Shown, Verdict, Matched
  <2>7. QED
    BY <2>4, <2>5, <2>6
<1>3. CASE client[c].back # client[c].local
  <2>1. ~(client[c].alone /\ Doable(client[c]))
    BY <1>1, <1>3, AllRead
  <2>2. QED
    BY <1>1, <1>3, <2>1, FailIs DEF Compare
<1>4. QED
  BY <1>2, <1>3

\* A deletion ends the being alone of all who are at the name.
LEMMA DeleteKeeps ==
  ASSUME Inv, NEW name \in FileNames, DeleteFile(name)
  PROVE  Inv'
<1>1. /\ dir' = [n \in DOMAIN dir \ {name} |-> dir[n]] /\ disk' = disk /\ uploads' = uploads
      /\ client' = [c \in Clients |->
           IF Ended(client[c]) THEN client[c]
           ELSE [client[c] EXCEPT !.alone = @ /\ client[c].name # name]]
  BY DEF DeleteFile
<1>2. ASSUME NEW c \in Clients
      PROVE  /\ client'[c] \in Upload /\ Same(client'[c], client[c])
             /\ client'[c].alone => client[c].alone /\ (Ended(client[c]) \/ client[c].name # name)
             /\ client'[c].was = client[c].was /\ client'[c].calm = client[c].calm
             /\ client'[c].seen = client[c].seen
  <2>1. client[c] \in Upload
    BY Current
  <2>2. CASE Ended(client[c])
    BY <1>1, <2>1, <2>2 DEF Same
  <2>3. CASE ~Ended(client[c])
    <3>1. PICK a \in BOOLEAN : a = (client[c].alone /\ client[c].name # name)
      BY <2>1 DEF Upload
    <3>2. client'[c] = [client[c] EXCEPT !.alone = a]
      BY <1>1, <2>1, <2>3, <3>1 DEF Upload
    <3>3. QED
      BY <2>1, <3>1, <3>2 DEF Upload, Same
  <2>4. QED
    BY <2>2, <2>3
<1>3. /\ DOMAIN dir' = DOMAIN dir \ {name} /\ \A n \in DOMAIN dir' : dir'[n] = dir[n]
      /\ dir' \in [DOMAIN dir' -> 1..Len(disk')]
  BY <1>1 DEF Inv, Based, TypeOK
<1>4. client' \in [Clients -> Upload]
  BY <1>1, <1>2
<1>5. TypeOK'
  BY <1>1, <1>3, <1>4 DEF Inv, Based, TypeOK
<1>6. Files'
  BY <1>1, <1>2, <1>3 DEF Inv, Based, Files, Same, At
<1>7. Verdicts'
  BY <1>1, <1>2 DEF Inv, Verdicts, Verdict, Reading, Matched, Same
<1>11. ASSUME NEW c \in Clients, client'[c].alone, Doable(client'[c]), Ended(client[c])
       PROVE  OnTheWay(client[c])'
  <2>1. Same(client'[c], client[c]) /\ client[c].alone /\ OnTheWay(client[c])
    BY <1>2, <1>11, Current
  <2>2. client'[c].at \in {"idle", "passed"}
    BY <1>11, <2>1 DEF Doable, Same, OnTheWay, Ended
  <2>3. QED
    BY <2>2 DEF OnTheWay
<1>8. ASSUME NEW c \in Clients, client'[c].alone, Doable(client'[c]), ~Ended(client[c])
      PROVE  OnTheWay(client[c])'
  <2>1. PICK m : m = client[c].name
    OBVIOUS
  <2>2. client'[c].name = m /\ m # name /\ client[c].alone /\ Same(client'[c], client[c])
    BY <1>2, <1>8, <2>1 DEF Same
  <2>3. /\ Exists(m)' <=> Exists(m)
        /\ Exists(m) => dir'[m] = dir[m]
        /\ Remote(m)' = Remote(m)
    BY <1>1, <1>3, <2>2 DEF Exists, Remote
  <2>4. QED
    BY <1>8, <2>1, <2>2, <2>3, Current DEF OnTheWay, Same, Doable
<1>9. Arriving'
  BY <1>8, <1>11 DEF Arriving, OnTheWay
<1>10. QED
  BY <1>5, <1>6, <1>7, <1>9 DEF Inv, Based

-----------------------------------------------------------------------------
(* All steps                                                               *)

\* Files of an earlier time are there, and nobody has begun.
LEMMA InitInv ==
  ASSUME Sane, BackupInit
  PROVE  Inv
<1>1. PICK old \in {<<>>} \cup {<<content>> : content \in Earlier} :
        /\ disk = old
        /\ dir \in IF old = <<>> THEN {[n \in {} |-> 1]} ELSE {[n \in {m} |-> 1] : m \in FileNames}
  BY DEF BackupInit
<1>2. client = [c \in Clients |-> NoUpload] /\ uploads = 0
  BY DEF BackupInit
<1>3. /\ disk \in Seq(Seq(Byte)) /\ dir \in [DOMAIN dir -> 1..Len(disk)]
      /\ DOMAIN dir \subseteq FileNames /\ \A m, n \in DOMAIN dir : m = n
  <2>1. CASE old = <<>>
    <3>1. disk = <<>> /\ dir = [n \in {} |-> 1]
      BY <1>1, <2>1
    <3>2. DOMAIN dir = {}
      BY <3>1
    <3>3. QED
      BY <3>1, <3>2
  <2>2. ASSUME NEW content \in Earlier, old = <<content>> PROVE <1>3
    <3>1. old # <<>> /\ disk = <<content>> /\ content \in Seq(Byte)
      BY <1>1, <2>2 DEF Sane
    <3>2. PICK m \in FileNames : dir = [n \in {m} |-> 1]
      BY <1>1, <3>1
    <3>3. disk \in Seq(Seq(Byte)) /\ Len(disk) = 1
      BY <3>1
    <3>4. QED
      BY <3>2, <3>3
  <2>3. QED
    BY <1>1, <2>1, <2>2
<1>4. /\ NoUpload \in Upload /\ NoUpload.at = "idle" /\ NoUpload.file = NoFile
      /\ NoUpload.local = <<>> /\ NoUpload.back = <<>>
  BY NoUploadIs
<1>5. TypeOK
  BY <1>2, <1>3, <1>4 DEF TypeOK
<1>6. Files
  <2>1. Len(disk) \in Nat /\ \A n \in DOMAIN dir : dir[n] \in 1..Len(disk)
    BY <1>3
  <2>2. QED
    BY <1>2, <1>3, <1>4, <2>1 DEF Files, NoFile, At
<1>7. Verdicts /\ Arriving
  BY <1>2, <1>4 DEF Verdicts, Verdict, Arriving, OnTheWay, Doable
<1>8. QED
  BY <1>5, <1>6, <1>7 DEF Inv, Based

\* Every step keeps the invariant.
LEMMA StepInv ==
  ASSUME Sane, Inv, [BackupNext]_backupVars
  PROVE  Inv'
<1>1. ASSUME NEW c \in Clients, \E u : Own(c, u) /\ Shown(u) /\ OnTheWay(u)'
      PROVE  Inv'
  <2>1. PICK u : Own(c, u) /\ Shown(u) /\ OnTheWay(u)'
    BY <1>1
  <2>2. Based'
    BY <2>1, OwnBased DEF Inv
  <2>3. Verdicts'
    BY <2>1, OwnVerdicts DEF Inv
  <2>4. Arriving'
    BY <2>1, OwnArrives DEF Inv
  <2>5. QED
    BY <2>2, <2>3, <2>4 DEF Inv
<1>2. ASSUME NEW c \in Clients, NEW name \in FileNames, NEW local \in LocalContents,
             BeginUpload(c, name, local)
      PROVE  Inv'
  BY <1>1, <1>2, BeginIs
<1>3. ASSUME NEW c \in Clients, Check(c) PROVE Inv'
  BY <1>1, <1>3, CheckIs
<1>4. ASSUME NEW c \in Clients, OpenFile(c) PROVE Inv'
  BY <1>1, <1>4, OpenIs
<1>5. ASSUME NEW c \in Clients, WriteChunk(c) PROVE Inv'
  BY <1>1, <1>5, WriteIs
<1>6. ASSUME NEW c \in Clients, VerifySize(c) PROVE Inv'
  BY <1>1, <1>6, VerifySizeIs
<1>7. ASSUME NEW c \in Clients, OpenSum(c) PROVE Inv'
  BY <1>1, <1>7, OpenSumIs
<1>14. ASSUME NEW c \in Clients, ReadSum(c) PROVE Inv'
  BY <1>1, <1>14, ReadSumIs
<1>15. ASSUME NEW c \in Clients, CompareSum(c) PROVE Inv'
  BY <1>1, <1>15, CompareSumIs
<1>8. ASSUME NEW c \in Clients, OpenStream(c) PROVE Inv'
  BY <1>1, <1>8, OpenStreamIs
<1>9. ASSUME NEW c \in Clients, StreamBack(c) PROVE Inv'
  BY <1>1, <1>9, StreamBackIs
<1>10. ASSUME NEW c \in Clients, Compare(c) PROVE Inv'
  BY <1>1, <1>10, CompareIs
<1>11. ASSUME NEW name \in FileNames, DeleteFile(name) PROVE Inv'
  BY <1>11, DeleteKeeps
<1>12. ASSUME UNCHANGED backupVars PROVE Inv'
  BY <1>12 DEF backupVars, Inv, Based, TypeOK, Files, Verdicts, Verdict, Reading, Arriving, OnTheWay, Exists, Remote,
               At
<1>13. QED
  BY <1>2, <1>3, <1>4, <1>5, <1>6, <1>7, <1>8, <1>9, <1>10, <1>11, <1>12,
     <1>14, <1>15 DEF BackupNext

-----------------------------------------------------------------------------
(* The theorems                                                            *)

\* The backup client's verdict: whoever else uploads to the name or deletes it
\* while the agent, which locks nothing, takes the chunks and answers the three
\* checks, a client that prints PASSED does so after every byte of its local file
\* was, at some moment of the checksum's reading, at its place in the file that
\* was read; and if nobody wrote to that file meanwhile, after it held exactly
\* what the local one does.
THEOREM PassedIsRight ==
  ASSUME Sane
  PROVE  BackupSpec => []PassedWasThere
<1>1. BackupInit => Inv
  BY InitInv
<1>2. Inv /\ [BackupNext]_backupVars => Inv'
  BY StepInv
<1>3. Inv => PassedWasThere
  BY DEF Inv, Verdicts, Verdict, Matched, PassedWasThere, At
<1>4. QED
  BY <1>1, <1>2, <1>3, PTL DEF BackupSpec

\* receive_chunk's offsets, truncation and size checks add up: an upload during
\* which no other client uses or deletes the name does not fail, unless the
\* local file is empty or a file of several chunks went over a longer one.
THEOREM LonePasses ==
  ASSUME Sane
  PROVE  BackupSpec => []LoneUploadPasses
<1>1. BackupInit => Inv
  BY InitInv
<1>2. Inv /\ [BackupNext]_backupVars => Inv'
  BY StepInv
<1>3. Inv => LoneUploadPasses
  <2> SUFFICES ASSUME Inv, NEW c \in Clients, client[c].at = "failed", client[c].alone,
                      client[c].local # <<>>
               PROVE  /\ Len(client[c].local) > ChunkSize
                      /\ Len(client[c].before) > Len(client[c].local)
    BY DEF LoneUploadPasses, At
  <2>1. ~Doable(client[c])
    BY Current DEF OnTheWay
  <2>2. /\ Len(client[c].local) \in Nat /\ ChunkSize \in Nat /\ Len(client[c].before) \in Nat
    <3>1. client[c].before \in Seq(Byte)
      BY Current DEF Upload
    <3>2. QED
      BY <3>1, Current DEF Sane
  <2>3. QED
    BY <2>1, <2>2 DEF Doable
<1>4. QED
  BY <1>1, <1>2, <1>3, PTL DEF BackupSpec
==============================================================================
