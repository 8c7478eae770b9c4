----------------------------- MODULE SongcProofs -----------------------------
(***************************************************************************)
(* The compiler behind its parser: whatever the developer saves and        *)
(* whatever the parser makes of it, the generated proxies reach their own  *)
(* members, the header's pieces find what they need, a run that exits with *)
(* 0 has written its outputs, and the scaffold keeps what it finds and     *)
(* tells all that must be changed.                                         *)
(***************************************************************************)
EXTENDS Songc, FiniteSetTheorems, SequenceTheorems, TLAPS

-----------------------------------------------------------------------------
(* Vectors                                                                 *)

LEMMA Vectors ==
  ASSUME NEW s, IsVector(s)
  PROVE  /\ Len(s) \in Nat /\ DOMAIN s = 1..Len(s)
         /\ \A i \in 1..Len(s) : s[i] \in Range(s)
         /\ \A x : x \in Range(s) <=> \E i \in 1..Len(s) : s[i] = x
  BY DEF IsVector, Range

LEMMA Concat ==
  ASSUME NEW a, NEW b, IsVector(a), IsVector(b)
  PROVE  /\ IsVector(a \o b) /\ Range(a \o b) = Range(a) \cup Range(b)
         /\ Len(a \o b) = Len(a) + Len(b)
         /\ \A i \in 1..Len(a) : (a \o b)[i] = a[i]
         /\ \A i \in 1..Len(b) : (a \o b)[Len(a) + i] = b[i]
  <1> DEFINE S == Range(a) \cup Range(b)
  <1>1. a \in Seq(S) /\ b \in Seq(S)
    BY SeqMonotonic DEF IsVector
  <1>2. a \o b \in Seq(S) /\ Range(a \o b) = S
    BY <1>1, ConcatProperties, RangeConcatenation
  <1>3. \A i \in 1..Len(a) + Len(b) : (a \o b)[i] = IF i <= Len(a) THEN a[i] ELSE b[i - Len(a)]
    BY <1>1, ConcatProperties
  <1>4. Len(a \o b) = Len(a) + Len(b) /\ Len(a) \in Nat /\ Len(b) \in Nat
    BY <1>1, ConcatProperties, LenProperties
  <1>5. \A i \in 1..Len(b) : Len(a) + i \in 1..Len(a) + Len(b) /\ ~(Len(a) + i <= Len(a))
                             /\ Len(a) + i - Len(a) = i
    BY <1>4
  <1>6. \A i \in 1..Len(a) : i \in 1..Len(a) + Len(b) /\ i <= Len(a)
    BY <1>4
  <1> QED BY <1>2, <1>3, <1>4, <1>5, <1>6 DEF IsVector

-----------------------------------------------------------------------------
(* The definitions that resolve                                            *)

\* No name is that of two elements.
OneName(xs) == \A x, y \in xs : x.name = y.name => x = y

LEMMA RegisteredVector ==
  ASSUME NEW ns, IsNamespace(ns)
  PROVE  /\ IsVector(Registered(ns))
         /\ Definitions(ns) = Range(ns.enums) \cup Range(ns.structs) \cup Range(ns.classes)
                              \cup Range(ns.services) \cup Range(ns.errors)
  <1> DEFINE a == ns.enums \o ns.structs
             b == a \o ns.classes
             c == b \o ns.services
  <1>1. IsVector(a) /\ Range(a) = Range(ns.enums) \cup Range(ns.structs)
    BY Concat DEF IsNamespace
  <1>2. IsVector(b) /\ Range(b) = Range(a) \cup Range(ns.classes)
    <2> HIDE DEF a
    <2> QED BY <1>1, Concat DEF IsNamespace
  <1>3. IsVector(c) /\ Range(c) = Range(b) \cup Range(ns.services)
    <2> HIDE DEF b
    <2> QED BY <1>2, Concat DEF IsNamespace
  <1>4. IsVector(c \o ns.errors) /\ Range(c \o ns.errors) = Range(c) \cup Range(ns.errors)
    <2> HIDE DEF c
    <2> QED BY <1>3, Concat DEF IsNamespace
  <1> QED BY <1>1, <1>2, <1>3, <1>4 DEF Registered, Definitions

\* No two types of a resolved input have one name.
LEMMA TypesOnce ==
  ASSUME NEW ns, IsNamespace(ns), Resolve(ns)
  PROVE  OneName(Definitions(ns))
  <1>1. IsVector(Registered(ns))
    BY RegisteredVector
  <1>2. ASSUME NEW i \in DOMAIN Registered(ns), NEW j \in DOMAIN Registered(ns),
               Registered(ns)[i].name = Registered(ns)[j].name, j < i
        PROVE  FALSE
    <2>1. j \in 1..i - 1
      BY <1>1, <1>2, Vectors
    <2> QED BY <1>2, <2>1 DEF Resolve, DuplicateTypes
  <1>3. \A i, j \in DOMAIN Registered(ns) :
          Registered(ns)[i].name = Registered(ns)[j].name => i = j
    <2>1. DOMAIN Registered(ns) \subseteq Int
      BY <1>1, Vectors
    <2>2. \A i, j \in Int : i = j \/ i < j \/ j < i
      OBVIOUS
    <2> QED BY <1>2, <2>1, <2>2
  <1> QED BY <1>3 DEF OneName, Definitions, Range

\* The members a class or a service declares are named once, as are a struct's.
LEMMA MembersOnce ==
  ASSUME NEW ns, IsNamespace(ns), Resolve(ns)
  PROVE  /\ \A d \in Range(ns.services) \cup Range(ns.classes) : NoDuplicates(d.methods)
         /\ \A d \in Range(ns.structs) : NoDuplicates(d.fields)
  <1>1. \A d \in Range(ns.services) \cup Range(ns.classes) \cup Range(ns.structs) :
          ValidDefinition(ns, d)
    BY RegisteredVector DEF Resolve
  <1>2. \A d \in Range(ns.services) \cup Range(ns.classes) : NoDuplicates(d.methods)
    BY <1>1 DEF ValidDefinition, IsNamespace
  <1>3. \A d \in Range(ns.structs) : NoDuplicates(d.fields)
    BY <1>1 DEF ValidDefinition, IsNamespace, ValidFields
  <1> QED BY <1>2, <1>3

-----------------------------------------------------------------------------
(* Calls                                                                   *)

Streams(ns, s) == {r \in 1..s - 1 : HasStream(ns.services[r])}

\* The ids of services grow, by two after one with a stream.
LEMMA ServiceIdsGrow ==
  ASSUME NEW ns, NEW s \in Nat, NEW t \in Nat, s < t, s >= 1
  PROVE  /\ ServiceId(ns, s) \in Nat /\ ServiceId(ns, t) \in Nat
         /\ ServiceId(ns, s) < ServiceId(ns, t)
         /\ HasStream(ns.services[s]) => StreamId(ns, s) < ServiceId(ns, t)
  <1>1. IsFiniteSet(1..t - 1) /\ IsFiniteSet(1..s - 1)
    BY FS_Interval
  <1>2. IsFiniteSet(Streams(ns, s)) /\ IsFiniteSet(Streams(ns, t))
    BY <1>1, FS_Subset DEF Streams
  <1>3. Streams(ns, s) \subseteq Streams(ns, t)
    BY DEF Streams
  <1>4. Cardinality(Streams(ns, s)) \in Nat /\ Cardinality(Streams(ns, t)) \in Nat
    BY <1>2, FS_CardinalityType
  <1>5. Cardinality(Streams(ns, s)) <= Cardinality(Streams(ns, t))
    BY <1>2, <1>3, FS_Subset
  <1>6. ASSUME HasStream(ns.services[s])
        PROVE  Cardinality(Streams(ns, s)) + 1 <= Cardinality(Streams(ns, t))
    <2>1. Streams(ns, s) \cup {s} \subseteq Streams(ns, t) /\ s \notin Streams(ns, s)
      BY <1>6 DEF Streams
    <2>2. /\ IsFiniteSet(Streams(ns, s) \cup {s})
          /\ Cardinality(Streams(ns, s) \cup {s}) = Cardinality(Streams(ns, s)) + 1
      BY <1>2, <2>1, FS_AddElement
    <2> QED BY <1>2, <2>1, <2>2, FS_Subset
  <1>7. /\ ServiceId(ns, s) = s + Cardinality(Streams(ns, s))
        /\ ServiceId(ns, t) = t + Cardinality(Streams(ns, t))
        /\ StreamId(ns, s) = ServiceId(ns, s) + 1
    BY DEF ServiceId, StreamId, Streams
  <1> QED BY <1>4, <1>5, <1>6, <1>7

\* What is written for a type is what is read for it.
LEMMA SameCodec ==
  /\ \A t : EncodeCall(t) = DecodeCall(t)
  /\ \A ps : EncodeParams(ps) = DecodeParams(ps)
  /\ \A t : EncodeResult(t) = DecodeResult(t)
  BY DEF EncodeCall, DecodeCall, EncodeValue, DecodeValue, EncodeParams, DecodeParams,
         EncodeResult, DecodeResult

IdOf(ns, c) ==
  IF ns.services[c[1]].methods[c[2]].mode = "stream" THEN StreamId(ns, c[1]) ELSE ServiceId(ns, c[1])

LEMMA OwnMethods ==
  ASSUME NEW ns, IsNamespace(ns)
  PROVE  OwnMethod(ns)
  <1>1. ASSUME NEW c \in Calls(ns)
        PROVE  /\ \E s \in 1..Len(ns.services) : \E i \in DOMAIN ns.services[s].methods : c = <<s, i>>
               /\ c[1] \in Nat /\ c[1] >= 1
               /\ IdOf(ns, c) \in Nat
               /\ IdOf(ns, c) = ServiceId(ns, c[1])
                  \/ (IdOf(ns, c) = StreamId(ns, c[1]) /\ HasStream(ns.services[c[1]]))
    <2>1. PICK s \in DOMAIN ns.services : c \in {s} \X DOMAIN ns.services[s].methods
      BY DEF Calls
    <2>2. PICK i \in DOMAIN ns.services[s].methods : c = <<s, i>>
      BY <2>1
    <2>3. s \in 1..Len(ns.services) /\ s \in Nat /\ s >= 1
      BY Vectors DEF IsNamespace
    <2>4. ServiceId(ns, s) \in Nat /\ StreamId(ns, s) \in Nat
      BY <2>3, ServiceIdsGrow DEF StreamId
    <2>5. ns.services[s].methods[i].mode = "stream" => HasStream(ns.services[s])
      BY DEF HasStream, Range
    <2> QED BY <2>2, <2>3, <2>4, <2>5 DEF IdOf
  <1>2. ASSUME NEW c \in Calls(ns), NEW e \in Calls(ns), c[1] < e[1]
        PROVE  IdOf(ns, c) # IdOf(ns, e)
    <2>1. /\ ServiceId(ns, c[1]) \in Nat /\ ServiceId(ns, e[1]) \in Nat
          /\ ServiceId(ns, c[1]) < ServiceId(ns, e[1])
          /\ HasStream(ns.services[c[1]]) => StreamId(ns, c[1]) < ServiceId(ns, e[1])
      BY <1>1, <1>2, ServiceIdsGrow
    <2>2. StreamId(ns, c[1]) = ServiceId(ns, c[1]) + 1 /\ StreamId(ns, e[1]) = ServiceId(ns, e[1]) + 1
      BY DEF StreamId
    <2>3. IdOf(ns, c) < ServiceId(ns, e[1])
      BY <1>1, <2>1
    <2>4. IdOf(ns, e) >= ServiceId(ns, e[1])
      BY <1>1, <2>1, <2>2
    <2> QED BY <1>1, <2>1, <2>3, <2>4
  <1>3. ASSUME NEW c \in Calls(ns), NEW e \in Calls(ns), IdOf(ns, c) = IdOf(ns, e), c[2] = e[2]
        PROVE  c = e
    <2>1. c[1] = e[1]
      BY <1>1, <1>2, <1>3
    <2> QED BY <1>1, <1>3, <2>1
  <1>4. ASSUME NEW c \in Calls(ns)
        PROVE  ServiceDispatcher(ns, ServiceProxy(ns, c[1], c[2])) = {c}
    <2> DEFINE request == ServiceProxy(ns, c[1], c[2])
    <2>1. request.service = IdOf(ns, c) /\ request.method = c[2]
      BY DEF ServiceProxy, IdOf, MethodId
    <2>2. ServiceDispatcher(ns, request) = {e \in Calls(ns) : c[2] = e[2] /\ IdOf(ns, c) = IdOf(ns, e)}
      <3> HIDE DEF request
      <3> QED BY <2>1 DEF ServiceDispatcher, IdOf, MethodId
    <2> QED BY <1>3, <2>2
  <1>5. ASSUME NEW c \in Calls(ns)
        PROVE  LET request == ServiceProxy(ns, c[1], c[2])
                   case == DispatcherCase(ns.services[c[1]].methods[c[2]])
               IN case.args = request.args /\ case.reply = request.reply
    <2> DEFINE m == ns.services[c[1]].methods[c[2]]
               request == ServiceProxy(ns, c[1], c[2])
    <2>1. request.args = EncodeParams(m.params)
          /\ request.reply = IF m.mode = "stream" THEN <<DecodeCall(m.type)>> ELSE DecodeResult(m.type)
      BY DEF ServiceProxy
    <2>2. /\ DispatcherCase(m).args = DecodeParams(m.params)
          /\ DispatcherCase(m).reply = IF m.mode = "stream" THEN <<EncodeCall(m.type)>> ELSE EncodeResult(m.type)
      BY DEF DispatcherCase
    <2> QED BY <2>1, <2>2, SameCodec
  <1> QED BY <1>4, <1>5 DEF OwnMethod

LEMMA OwnMembers ==
  ASSUME NEW ns, IsNamespace(ns)
  PROVE  OwnMember(ns)
  <1>1. ASSUME NEW d, NEW i \in DOMAIN d.properties, NEW kind \in {"get", "set"},
               kind = "get" \/ ~d.properties[i].readonly
        PROVE  OwnProperty(ns, d, kind, i)
    <2>1. ClassProxy(d, kind, i).id = i /\ Skeleton(d, i).id = i
      BY DEF ClassProxy, PropertyId, Skeleton
    <2>2. i \in OwnCases(d, kind)
      BY <1>1 DEF OwnCases
    <2>3. ClassDispatcher(ns, d, kind, i) = {<<d.name, i>>}
      BY <2>2 DEF ClassDispatcher
    <2>4. MemberCase(d, kind, i).reads = ClassProxy(d, kind, i).sends
      BY SameCodec DEF MemberCase, ClassProxy
    <2>5. kind = "get" => MemberCase(d, kind, i).sends = ClassProxy(d, kind, i).expects
      BY SameCodec DEF MemberCase, ClassProxy
    <2>6. kind = "set" => Skeleton(d, i).value = ClassProxy(d, kind, i).sends
      BY DEF Skeleton, ClassProxy
    <2> QED BY <2>1, <2>3, <2>4, <2>5, <2>6 DEF OwnProperty
  <1>2. ASSUME NEW d, NEW i \in DOMAIN d.methods
        PROVE  LET request == ClassProxy(d, "call", i)
               IN /\ ClassDispatcher(ns, d, "call", request.id) = {<<d.name, i>>}
                  /\ MemberCase(d, "call", i) = [reads |-> request.sends, sends |-> request.expects]
    <2>1. ClassDispatcher(ns, d, "call", i) = {<<d.name, i>>}
      BY DEF ClassDispatcher, OwnCases
    <2>2. ClassProxy(d, "call", i) =
            [id |-> i, sends |-> EncodeParams(d.methods[i].params),
             expects |-> DecodeResult(d.methods[i].type)]
      BY DEF ClassProxy, MethodId
    <2>3. MemberCase(d, "call", i) =
            [reads |-> DecodeParams(d.methods[i].params), sends |-> EncodeResult(d.methods[i].type)]
      BY DEF MemberCase
    <2> QED BY <2>1, <2>2, <2>3, SameCodec
  <1>3. ASSUME NEW d \in Range(ns.classes), NEW i \in DOMAIN d.constructors
        PROVE  LET request == ClassProxy(d, "create", i)
               IN ClassFactory(d, request.id) = {request.sends}
    <2>1. IsVector(d.constructors)
      BY RegisteredVector DEF IsNamespace, IsDefinition
    <2>2. DOMAIN d.constructors \subseteq Int /\ d.constructors # <<>>
      BY <2>1, Vectors
    <2>3. {j \in DOMAIN d.constructors : ConstructorId(j) = ConstructorId(i)} = {i}
      BY <2>2 DEF ConstructorId
    <2>4. ClassFactory(d, ConstructorId(i)) = {DecodeParams(d.constructors[i].params)}
      BY <2>2, <2>3 DEF ClassFactory
    <2>5. /\ ClassProxy(d, "create", i).id = ConstructorId(i)
          /\ ClassProxy(d, "create", i).sends = EncodeParams(d.constructors[i].params)
      BY DEF ClassProxy
    <2> QED BY <2>4, <2>5, SameCodec
  <1> QED BY <1>1, <1>2, <1>3 DEF OwnMember

-----------------------------------------------------------------------------
(* The header                                                              *)

Provided(pieces) == UNION {pieces[i].defines : i \in DOMAIN pieces}

\* A piece finds what it needs in S or in a piece before it.
Finds(pieces, S) ==
  \A i \in DOMAIN pieces : \A n \in pieces[i].needs :
    n \in S \/ \E j \in DOMAIN pieces : j < i /\ n \in pieces[j].defines

\* Pieces after others compile when these do, and they find what they need in them.
LEMMA Appended ==
  ASSUME NEW a, NEW b, IsVector(a), IsVector(b)
  PROVE  /\ IsVector(a \o b)
         /\ Provided(a \o b) = Provided(a) \cup Provided(b)
         /\ Compiles(a \o b) <=> Compiles(a) /\ Finds(b, Provided(a))
  <1> DEFINE c == a \o b
  <1>1. /\ Len(a) \in Nat /\ Len(b) \in Nat
        /\ DOMAIN a = 1..Len(a) /\ DOMAIN b = 1..Len(b)
    BY Vectors
  <1>2. /\ IsVector(c) /\ DOMAIN c = 1..Len(a) + Len(b)
        /\ \A i \in 1..Len(a) : c[i] = a[i]
        /\ \A i \in 1..Len(b) : c[Len(a) + i] = b[i]
    BY Concat, Vectors
  <1> HIDE DEF c
  <1>3. /\ \A i \in 1..Len(a) : i \in DOMAIN c
        /\ \A i \in 1..Len(b) : Len(a) + i \in DOMAIN c
    BY <1>1, <1>2
  <1>4. ASSUME NEW i \in DOMAIN c, ~(i <= Len(a))
        PROVE  \E k \in 1..Len(b) : i = Len(a) + k
    <2>1. i - Len(a) \in 1..Len(b) /\ i = Len(a) + (i - Len(a))
      BY <1>1, <1>2, <1>4
    <2> QED BY <2>1
  <1>5. ASSUME NEW i \in DOMAIN c, i <= Len(a)
        PROVE  i \in 1..Len(a)
    BY <1>1, <1>2, <1>5
  <1>6. Provided(c) = Provided(a) \cup Provided(b)
    <2>1. ASSUME NEW n \in Provided(a)  PROVE  n \in Provided(c)
      <3>1. PICK i \in 1..Len(a) : n \in a[i].defines
        BY <1>1 DEF Provided
      <3> QED BY <1>2, <1>3, <3>1 DEF Provided
    <2>2. ASSUME NEW n \in Provided(b)  PROVE  n \in Provided(c)
      <3>1. PICK i \in 1..Len(b) : n \in b[i].defines
        BY <1>1 DEF Provided
      <3> QED BY <1>2, <1>3, <3>1 DEF Provided
    <2>3. ASSUME NEW n \in Provided(c)  PROVE  n \in Provided(a) \cup Provided(b)
      <3>1. PICK i \in DOMAIN c : n \in c[i].defines
        BY DEF Provided
      <3>2. CASE i <= Len(a)
        BY <1>1, <1>2, <1>5, <3>1, <3>2 DEF Provided
      <3>3. CASE ~(i <= Len(a))
        <4>1. PICK k \in 1..Len(b) : i = Len(a) + k
          BY <1>4, <3>3
        <4> QED BY <1>1, <1>2, <3>1, <4>1 DEF Provided
      <3> QED BY <3>2, <3>3
    <2> QED BY <2>1, <2>2, <2>3
  <1>7. ASSUME Compiles(a), Finds(b, Provided(a))
        PROVE  Compiles(c)
    <2>1. ASSUME NEW i \in 1..Len(a), NEW n \in c[i].needs
          PROVE  \E j \in 1..i - 1 : n \in c[j].defines
      <3>1. PICK j \in 1..i - 1 : n \in a[j].defines
        BY <1>1, <1>2, <1>7, <2>1 DEF Compiles
      <3>2. j \in 1..Len(a)
        BY <1>1
      <3> QED BY <1>2, <3>1, <3>2
    <2>2. ASSUME NEW k \in 1..Len(b), NEW n \in c[Len(a) + k].needs
          PROVE  \E j \in 1..Len(a) + k - 1 : n \in c[j].defines
      <3>1. n \in b[k].needs
        BY <1>2, <2>2
      <3>2. CASE n \in Provided(a)
        <4>1. PICK j \in 1..Len(a) : n \in a[j].defines
          BY <1>1, <3>2 DEF Provided
        <4>2. j \in 1..Len(a) + k - 1
          BY <1>1
        <4> QED BY <1>2, <4>1, <4>2
      <3>3. CASE n \notin Provided(a)
        <4>1. PICK j \in 1..Len(b) : j < k /\ n \in b[j].defines
          BY <1>1, <1>7, <3>1, <3>3 DEF Finds
        <4>2. Len(a) + j \in 1..Len(a) + k - 1
          BY <1>1, <4>1
        <4>3. n \in c[Len(a) + j].defines
          BY <1>2, <4>1
        <4> QED BY <4>2, <4>3
      <3> QED BY <3>2, <3>3
    <2>3. ASSUME NEW i \in DOMAIN c, NEW n \in c[i].needs
          PROVE  \E j \in 1..i - 1 : n \in c[j].defines
      <3>1. CASE i <= Len(a)
        BY <1>5, <2>1, <2>3, <3>1
      <3>2. CASE ~(i <= Len(a))
        <4>1. PICK k \in 1..Len(b) : i = Len(a) + k
          BY <1>4, <3>2
        <4>2. n \in c[Len(a) + k].needs
          BY <2>3, <4>1
        <4>3. \E j \in 1..Len(a) + k - 1 : n \in c[j].defines
          BY <2>2, <4>2
        <4> QED BY <4>1, <4>3
      <3> QED BY <3>1, <3>2
    <2> QED BY <2>3 DEF Compiles
  <1>8. ASSUME Compiles(c)
        PROVE  Compiles(a)
    <2>1. ASSUME NEW i \in 1..Len(a), NEW n \in a[i].needs
          PROVE  \E j \in 1..i - 1 : n \in a[j].defines
      <3>1. PICK j \in 1..i - 1 : n \in c[j].defines
        BY <1>2, <1>3, <1>8, <2>1 DEF Compiles
      <3>2. j \in 1..Len(a)
        BY <1>1
      <3> QED BY <1>2, <3>1, <3>2
    <2> QED BY <1>1, <2>1 DEF Compiles
  <1>9. ASSUME Compiles(c)
        PROVE  Finds(b, Provided(a))
    <2>1. ASSUME NEW k \in 1..Len(b), NEW n \in b[k].needs, n \notin Provided(a)
          PROVE  \E j \in DOMAIN b : j < k /\ n \in b[j].defines
      <3>1. Len(a) + k \in DOMAIN c /\ n \in c[Len(a) + k].needs
        BY <1>2, <1>3, <2>1
      <3>2. PICK i \in 1..Len(a) + k - 1 : n \in c[i].defines
        BY <1>9, <3>1 DEF Compiles
      <3>3. i \in DOMAIN c
        BY <1>1, <1>2
      <3>4. ~(i <= Len(a))
        BY <1>1, <1>2, <1>5, <2>1, <3>2, <3>3 DEF Provided
      <3>5. PICK j \in 1..Len(b) : i = Len(a) + j
        BY <1>4, <3>3, <3>4
      <3>6. j < k
        BY <1>1, <3>2, <3>5
      <3> QED BY <1>1, <1>2, <3>2, <3>5, <3>6
    <2> QED BY <1>1, <2>1 DEF Finds
  <1> QED BY <1>2, <1>6, <1>7, <1>8, <1>9 DEF c

LEMMA MappedVector ==
  ASSUME NEW s, IsVector(s), NEW f, f = [i \in DOMAIN s |-> f[i]]
  PROVE  IsVector(f) /\ DOMAIN f = DOMAIN s
  <1>1. Len(s) \in Nat /\ DOMAIN s = 1..Len(s)
    BY Vectors
  <1>2. DOMAIN f = 1..Len(s)
    BY <1>1
  <1>3. f \in [1..Len(s) -> Range(f)]
    BY <1>1, <1>2 DEF Range
  <1>4. f \in Seq(Range(f))
    BY <1>1, <1>3, SeqDef
  <1> QED BY <1>1, <1>2, <1>4 DEF IsVector

\* The pieces of one kind, one for each definition.
MadeOf(defs, f, P(_)) == IsVector(f) /\ DOMAIN f = DOMAIN defs /\ \A i \in DOMAIN defs : f[i] = P(defs[i])

LEMMA PiecesMapped ==
  ASSUME NEW defs, IsVector(defs)
  PROVE  /\ MadeOf(defs, Pieces(defs, StructForward), StructForward)
         /\ MadeOf(defs, Pieces(defs, EnumDef), EnumDef)
         /\ MadeOf(defs, Pieces(defs, EnumCodec), EnumCodec)
         /\ MadeOf(defs, Pieces(defs, StructDef), StructDef)
         /\ MadeOf(defs, Pieces(defs, ArrayForward), ArrayForward)
         /\ MadeOf(defs, Pieces(defs, StructCodec), StructCodec)
         /\ MadeOf(defs, Pieces(defs, ArrayCodec), ArrayCodec)
         /\ MadeOf(defs, Pieces(defs, ServicePieces), ServicePieces)
         /\ MadeOf(defs, Pieces(defs, ClassPieces), ClassPieces)
         /\ MadeOf(defs, Pieces(defs, CodecDeclared), CodecDeclared)
  <1>1. MadeOf(defs, Pieces(defs, StructForward), StructForward)
    BY MappedVector DEF MadeOf, Pieces
  <1>2. MadeOf(defs, Pieces(defs, EnumDef), EnumDef)
    BY MappedVector DEF MadeOf, Pieces
  <1>3. MadeOf(defs, Pieces(defs, EnumCodec), EnumCodec)
    BY MappedVector DEF MadeOf, Pieces
  <1>4. MadeOf(defs, Pieces(defs, StructDef), StructDef)
    BY MappedVector DEF MadeOf, Pieces
  <1>5. MadeOf(defs, Pieces(defs, ArrayForward), ArrayForward)
    BY MappedVector DEF MadeOf, Pieces
  <1>6. MadeOf(defs, Pieces(defs, StructCodec), StructCodec)
    BY MappedVector DEF MadeOf, Pieces
  <1>7. MadeOf(defs, Pieces(defs, ArrayCodec), ArrayCodec)
    BY MappedVector DEF MadeOf, Pieces
  <1>8. MadeOf(defs, Pieces(defs, ServicePieces), ServicePieces)
    BY MappedVector DEF MadeOf, Pieces
  <1>9. MadeOf(defs, Pieces(defs, ClassPieces), ClassPieces)
    BY MappedVector DEF MadeOf, Pieces
  <1>10. MadeOf(defs, Pieces(defs, CodecDeclared), CodecDeclared)
    BY MappedVector DEF MadeOf, Pieces
  <1> QED BY <1>1, <1>2, <1>3, <1>4, <1>5, <1>6, <1>7, <1>8, <1>9, <1>10

\* A kind of name, for every definition of a set.
All(kind, xs) == {<<kind, x.name>> : x \in xs}

LEMMA Provide ==
  ASSUME NEW defs, IsVector(defs)
  PROVE  /\ Provided(Pieces(defs, StructForward)) = All("name", Range(defs))
         /\ Provided(Pieces(defs, EnumDef)) = All("name", Range(defs)) \cup All("type", Range(defs))
         /\ Provided(Pieces(defs, EnumCodec)) = All("codec", Range(defs)) \cup All("arrayCodec", Range(defs))
         /\ Provided(Pieces(defs, StructDef)) = All("type", Range(defs))
         /\ Provided(Pieces(defs, ArrayForward)) = All("arrayCodec", Range(defs))
         /\ Provided(Pieces(defs, StructCodec)) = All("codec", Range(defs))
         /\ Provided(Pieces(defs, ArrayCodec)) = {}
         /\ Provided(Pieces(defs, CodecDeclared)) = All("codec", Range(defs))
         /\ Provided(Pieces(defs, ServicePieces)) = {}
  <1>1. Provided(Pieces(defs, StructForward)) = All("name", Range(defs))
    BY DEF Provided, Pieces, All, Range, StructForward, Piece
  <1>2. Provided(Pieces(defs, EnumDef)) = All("name", Range(defs)) \cup All("type", Range(defs))
    BY DEF Provided, Pieces, All, Range, EnumDef, Piece
  <1>3. Provided(Pieces(defs, EnumCodec)) = All("codec", Range(defs)) \cup All("arrayCodec", Range(defs))
    BY DEF Provided, Pieces, All, Range, EnumCodec, Piece
  <1>4. Provided(Pieces(defs, StructDef)) = All("type", Range(defs))
    BY DEF Provided, Pieces, All, Range, StructDef, Piece
  <1>5. Provided(Pieces(defs, ArrayForward)) = All("arrayCodec", Range(defs))
    BY DEF Provided, Pieces, All, Range, ArrayForward, Piece
  <1>6. Provided(Pieces(defs, StructCodec)) = All("codec", Range(defs))
    BY DEF Provided, Pieces, All, Range, StructCodec, Piece
  <1>7. Provided(Pieces(defs, ArrayCodec)) = {}
    BY DEF Provided, Pieces, ArrayCodec, Piece
  <1>8. Provided(Pieces(defs, CodecDeclared)) = All("codec", Range(defs))
    BY DEF Provided, Pieces, All, Range, CodecDeclared, Piece
  <1>9. Provided(Pieces(defs, ServicePieces)) = {}
    BY DEF Provided, Pieces, ServicePieces, Piece
  <1> QED BY <1>1, <1>2, <1>3, <1>4, <1>5, <1>6, <1>7, <1>8, <1>9

\* Pieces that need nothing, or what S has, of each definition alone.
LEMMA SimpleFind ==
  ASSUME NEW defs, IsVector(defs), NEW S
  PROVE  /\ Finds(Pieces(defs, StructForward), S)
         /\ Finds(Pieces(defs, EnumDef), S)
         /\ All("type", Range(defs)) \subseteq S => Finds(Pieces(defs, EnumCodec), S)
         /\ All("name", Range(defs)) \subseteq S => Finds(Pieces(defs, ArrayForward), S)
         /\ All("codec", Range(defs)) \subseteq S => Finds(Pieces(defs, ArrayCodec), S)
         /\ All("type", Range(defs)) \subseteq S => Finds(Pieces(defs, CodecDeclared), S)
  <1>1. Finds(Pieces(defs, StructForward), S)
    BY DEF Finds, Pieces, StructForward, Piece
  <1>2. Finds(Pieces(defs, EnumDef), S)
    BY DEF Finds, Pieces, EnumDef, Piece
  <1>3. All("type", Range(defs)) \subseteq S => Finds(Pieces(defs, EnumCodec), S)
    BY DEF Finds, Pieces, EnumCodec, Piece, All, Range
  <1>4. All("name", Range(defs)) \subseteq S => Finds(Pieces(defs, ArrayForward), S)
    BY DEF Finds, Pieces, ArrayForward, Piece, All, Range
  <1>5. All("codec", Range(defs)) \subseteq S => Finds(Pieces(defs, ArrayCodec), S)
    BY DEF Finds, Pieces, ArrayCodec, Piece, All, Range
  <1>6. All("type", Range(defs)) \subseteq S => Finds(Pieces(defs, CodecDeclared), S)
    BY DEF Finds, Pieces, CodecDeclared, Piece, All, Range
  <1> QED BY <1>1, <1>2, <1>3, <1>4, <1>5, <1>6

\* What the types in use are called.
UserTypes(ns) == Range(ns.enums) \cup Range(ns.structs)

\* What is defined before the structs, behind them, and behind their codecs.
NamesKnown(ns) ==
  All("name", UserTypes(ns)) \cup All("type", Range(ns.enums))
  \cup All("codec", Range(ns.enums)) \cup All("arrayCodec", Range(ns.enums))
TypesKnown(ns) == NamesKnown(ns) \cup All("type", Range(ns.structs))
ArraysKnown(ns) == TypesKnown(ns) \cup All("arrayCodec", Range(ns.structs))
AllKnown(ns) == ArraysKnown(ns) \cup All("codec", Range(ns.structs))
SplitKnown(ns) == TypesKnown(ns) \cup All("codec", Range(ns.structs))

LEMMA TypesCompile ==
  ASSUME NEW ns, IsNamespace(ns), NEW p,
         p = Pieces(ns.structs, StructForward) \o Pieces(ns.enums, EnumDef)
             \o Pieces(ns.enums, EnumCodec) \o Pieces(ns.structs, StructDef)
  PROVE  /\ IsVector(p) /\ Provided(p) = TypesKnown(ns)
         /\ Compiles(p) <=> Finds(Pieces(ns.structs, StructDef), NamesKnown(ns))
  <1> DEFINE a == Pieces(ns.structs, StructForward)
             b == Pieces(ns.enums, EnumDef)
             c == Pieces(ns.enums, EnumCodec)
             d == Pieces(ns.structs, StructDef)
             A == All("name", Range(ns.structs))
             B == All("name", Range(ns.enums)) \cup All("type", Range(ns.enums))
             C == All("codec", Range(ns.enums)) \cup All("arrayCodec", Range(ns.enums))
             D == All("type", Range(ns.structs))
  <1>1. IsVector(ns.structs) /\ IsVector(ns.enums)
    BY DEF IsNamespace
  <1>2. IsVector(a) /\ IsVector(b) /\ IsVector(c) /\ IsVector(d)
    BY <1>1, PiecesMapped DEF MadeOf
  <1>3. A = Provided(a) /\ B = Provided(b) /\ C = Provided(c) /\ D = Provided(d)
    BY <1>1, Provide
  <1>4. Finds(b, A) /\ Finds(c, A \cup B)
    BY <1>1, SimpleFind
  <1>5. NamesKnown(ns) = A \cup B \cup C /\ TypesKnown(ns) = A \cup B \cup C \cup D
    BY DEF NamesKnown, TypesKnown, All, UserTypes
  <1>6. Compiles(a)
    <2>1. \A i \in DOMAIN a : a[i].needs = {}
      BY DEF Pieces, StructForward, Piece
    <2> HIDE DEF a
    <2> QED BY <2>1 DEF Compiles
  <1> HIDE DEF a, b, c, d, A, B, C, D
  <1>7. IsVector(a \o b) /\ Provided(a \o b) = A \cup B /\ Compiles(a \o b)
    BY <1>2, <1>3, <1>4, <1>6, Appended
  <1>8. IsVector(a \o b \o c) /\ Provided(a \o b \o c) = A \cup B \cup C /\ Compiles(a \o b \o c)
    BY <1>2, <1>3, <1>4, <1>7, Appended
  <1> DEFINE e == a \o b \o c
  <1>9. /\ IsVector(e \o d) /\ Provided(e \o d) = A \cup B \cup C \cup D
        /\ Compiles(e \o d) <=> Finds(d, A \cup B \cup C)
    <2> HIDE DEF e
    <2>1. IsVector(e) /\ Provided(e) = A \cup B \cup C /\ Compiles(e)
      BY <1>8 DEF e
    <2>2. /\ IsVector(e \o d) /\ Provided(e \o d) = Provided(e) \cup Provided(d)
          /\ Compiles(e \o d) <=> Compiles(e) /\ Finds(d, Provided(e))
      BY <1>2, <2>1, Appended
    <2> QED BY <1>3, <2>1, <2>2, Zenon
  <1> QED BY <1>5, <1>9 DEF a, b, c, d

\* The one header compiles when four kinds of pieces find what they need.
LEMMA HeaderParts ==
  ASSUME NEW ns, IsNamespace(ns)
  PROVE  Compiles(GenerateHeader(ns)) <=>
           /\ Finds(Pieces(ns.structs, StructDef), NamesKnown(ns))
           /\ Finds(Pieces(ns.structs, StructCodec), ArraysKnown(ns))
           /\ Finds(Pieces(ns.services, ServicePieces), AllKnown(ns))
           /\ Finds(Pieces(ns.classes, ClassPieces), AllKnown(ns))
  <1> DEFINE p == Pieces(ns.structs, StructForward) \o Pieces(ns.enums, EnumDef)
                  \o Pieces(ns.enums, EnumCodec) \o Pieces(ns.structs, StructDef)
             a == Pieces(ns.structs, ArrayForward)
             b == Pieces(ns.structs, StructCodec)
             c == Pieces(ns.structs, ArrayCodec)
             d == Pieces(ns.services, ServicePieces)
             e == Pieces(ns.classes, ClassPieces)
             F == Finds(Pieces(ns.structs, StructDef), NamesKnown(ns))
             P == TypesKnown(ns)
             A == All("arrayCodec", Range(ns.structs))
             B == All("codec", Range(ns.structs))
  <1>1. IsVector(ns.structs) /\ IsVector(ns.services) /\ IsVector(ns.classes)
    BY DEF IsNamespace
  <1>2. IsVector(a) /\ IsVector(b) /\ IsVector(c) /\ IsVector(d) /\ IsVector(e)
    BY <1>1, PiecesMapped DEF MadeOf
  <1>3. Provided(a) = A /\ Provided(b) = B /\ Provided(c) = {} /\ Provided(d) = {}
    BY <1>1, Provide
  <1>4. IsVector(p) /\ Provided(p) = P /\ (Compiles(p) <=> F)
    BY TypesCompile
  <1>5. Finds(a, P) /\ Finds(c, P \cup A \cup B)
    <2>1. All("name", Range(ns.structs)) \subseteq P
      BY DEF TypesKnown, NamesKnown, All, UserTypes
    <2> QED BY <1>1, <2>1, SimpleFind
  <1>6. ArraysKnown(ns) = P \cup A /\ AllKnown(ns) = P \cup A \cup B
    BY DEF ArraysKnown, AllKnown
  <1>7. GenerateHeader(ns) = p \o a \o b \o c \o d \o e
    BY DEF GenerateHeader
  <1> HIDE DEF a, b, c, d, e, p, P, A, B, F
  <1> DEFINE p1 == p \o a
             p2 == p1 \o b
             p3 == p2 \o c
             p4 == p3 \o d
             G == Finds(b, P \cup A)
             H == Finds(d, P \cup A \cup B)
  <1>8. IsVector(p1) /\ Provided(p1) = P \cup A /\ (Compiles(p1) <=> F)
    BY <1>2, <1>3, <1>4, <1>5, Appended
  <1>9. IsVector(p2) /\ Provided(p2) = P \cup A \cup B /\ (Compiles(p2) <=> F /\ G)
    <2> HIDE DEF p1
    <2>1. /\ IsVector(p1 \o b) /\ Provided(p1 \o b) = P \cup A \cup B
          /\ Compiles(p1 \o b) <=> Compiles(p1) /\ Finds(b, Provided(p1))
      BY <1>2, <1>3, <1>8, Appended
    <2> QED BY <1>8, <2>1, Zenon
  <1>10. IsVector(p3) /\ Provided(p3) = P \cup A \cup B /\ (Compiles(p3) <=> F /\ G)
    <2> HIDE DEF p2
    <2>a. /\ IsVector(p2 \o c) /\ Provided(p2 \o c) = Provided(p2) \cup Provided(c)
          /\ Compiles(p2 \o c) <=> Compiles(p2) /\ Finds(c, Provided(p2))
      BY <1>2, <1>9, Appended
    <2>b. Provided(p2) \cup {} = Provided(p2)
      OBVIOUS
    <2>1. Provided(p2 \o c) = P \cup A \cup B
      BY <1>3, <1>9, <2>a, <2>b
    <2> QED BY <1>5, <1>9, <2>a, <2>1, Zenon
  <1>11. IsVector(p4) /\ Provided(p4) = P \cup A \cup B /\ (Compiles(p4) <=> F /\ G /\ H)
    <2> HIDE DEF p3
    <2>a. /\ IsVector(p3 \o d) /\ Provided(p3 \o d) = Provided(p3) \cup Provided(d)
          /\ Compiles(p3 \o d) <=> Compiles(p3) /\ Finds(d, Provided(p3))
      BY <1>2, <1>10, Appended
    <2>b. Provided(p3) \cup {} = Provided(p3)
      OBVIOUS
    <2>1. Provided(p3 \o d) = P \cup A \cup B
      BY <1>3, <1>10, <2>a, <2>b
    <2> QED BY <1>10, <2>a, <2>1, Zenon
  <1>12. Compiles(p4 \o e) <=> F /\ G /\ H /\ Finds(e, P \cup A \cup B)
    <2> HIDE DEF p4
    <2>1. Compiles(p4 \o e) <=> Compiles(p4) /\ Finds(e, Provided(p4))
      BY <1>2, <1>11, Appended
    <2> QED BY <1>11, <2>1, Zenon
  <1> QED BY <1>6, <1>7, <1>12 DEF b, d, e, F

\* The split headers.
LEMMA SplitParts ==
  ASSUME NEW ns, IsNamespace(ns)
  PROVE  (Compiles(GenerateWireImpl(ns)) /\ Compiles(GenerateClientHeader(ns))
            /\ Compiles(GenerateServerHeader(ns))) <=>
           /\ Finds(Pieces(ns.structs, StructDef), NamesKnown(ns))
           /\ Finds(Pieces(ns.structs, StructCodec), SplitKnown(ns))
           /\ Finds(Pieces(ns.services, ServicePieces), SplitKnown(ns))
  <1> DEFINE p == Pieces(ns.structs, StructForward) \o Pieces(ns.enums, EnumDef)
                  \o Pieces(ns.enums, EnumCodec) \o Pieces(ns.structs, StructDef)
             a == Pieces(ns.structs, CodecDeclared)
             b == Pieces(ns.structs, StructCodec)
             d == Pieces(ns.services, ServicePieces)
             F == Finds(Pieces(ns.structs, StructDef), NamesKnown(ns))
             P == TypesKnown(ns)
             A == All("codec", Range(ns.structs))
  <1>1. IsVector(ns.structs) /\ IsVector(ns.services)
    BY DEF IsNamespace
  <1>2. IsVector(a) /\ IsVector(b) /\ IsVector(d)
    BY <1>1, PiecesMapped DEF MadeOf
  <1>3. Provided(a) = A
    BY <1>1, Provide
  <1>4. IsVector(p) /\ Provided(p) = P /\ (Compiles(p) <=> F)
    BY TypesCompile
  <1>5. Finds(a, P)
    <2>1. All("type", Range(ns.structs)) \subseteq P
      BY DEF TypesKnown
    <2> QED BY <1>1, <2>1, SimpleFind
  <1>6. SplitKnown(ns) = P \cup A
    BY DEF SplitKnown
  <1>7. /\ GenerateWireImpl(ns) = p \o a \o b
        /\ GenerateClientHeader(ns) = p \o a \o d /\ GenerateServerHeader(ns) = p \o a \o d
    BY DEF GenerateWireImpl, GenerateClientHeader, GenerateServerHeader, GenerateTypesHeader
  <1> HIDE DEF a, b, d, p, P, A, F
  <1>8. IsVector(p \o a) /\ Provided(p \o a) = P \cup A /\ (Compiles(p \o a) <=> F)
    BY <1>2, <1>3, <1>4, <1>5, Appended
  <1>9. /\ Compiles(p \o a \o b) <=> F /\ Finds(b, P \cup A)
        /\ Compiles(p \o a \o d) <=> F /\ Finds(d, P \cup A)
    BY <1>2, <1>8, Appended
  <1> QED BY <1>6, <1>7, <1>9 DEF b, d, F

-----------------------------------------------------------------------------
(* What a use of a type needs                                              *)

\* The calls that are generated for a type.
LEMMA CallCases ==
  ASSUME NEW t, IsType(t)
  PROVE  /\ DecodeCall(t) = EncodeCall(t)
         /\ t.dims = 0 /\ t.opt => EncodeCall(t) = <<"optional", EncodeValue(t)>>
         /\ t.dims = 0 /\ ~t.opt => EncodeCall(t) = EncodeValue(t)
         /\ t.dims = 1 /\ ~IsPrimitive(t) => EncodeCall(t) = <<"userArray", t.base>>
         /\ t.dims > 0 /\ (t.dims # 1 \/ IsPrimitive(t)) =>
              \E e : EncodeCall(t) = <<"array", e>> /\ e.base = t.base /\ (e.opt <=> t.opt /\ t.dims = 1)
  <1>1. t \in [base : STRING, dims : Nat, opt : BOOLEAN]
    BY DEF IsType
  <1>2. ASSUME t.dims > 0, t.dims # 1 \/ IsPrimitive(t)
        PROVE  \E e : EncodeCall(t) = <<"array", e>> /\ e.base = t.base /\ (e.opt <=> t.opt /\ t.dims = 1)
    <2> DEFINE e == TypeToCpp(Elem(t))
    <2>1. EncodeCall(t) = <<"array", e>>
      BY <1>1, <1>2 DEF EncodeCall
    <2>2. Elem(t) \in [base : STRING, dims : Int, opt : BOOLEAN]
          /\ Elem(t).base = t.base /\ Elem(t).opt = t.opt /\ Elem(t).dims = t.dims - 1
      BY <1>1 DEF Elem
    <2>3. e.base = t.base /\ e.opt = (Elem(t).opt /\ Elem(t).dims = 0)
      BY <2>2 DEF TypeToCpp
    <2>4. (Elem(t).dims = 0) <=> (t.dims = 1)
      BY <1>1, <2>2
    <2> HIDE DEF e
    <2> QED BY <2>1, <2>2, <2>3, <2>4
  <1>3. DecodeCall(t) = EncodeCall(t)
    BY SameCodec
  <1>4. ASSUME t.dims = 0
        PROVE  EncodeCall(t) = IF t.opt THEN <<"optional", EncodeValue(t)>> ELSE EncodeValue(t)
    BY <1>4 DEF EncodeCall
  <1>5. t.dims = 1 /\ ~IsPrimitive(t) => EncodeCall(t) = <<"userArray", t.base>>
    BY DEF EncodeCall
  <1> QED BY <1>2, <1>3, <1>4, <1>5

\* A supported type, whatever it is called.
Good(t, refused) ==
  /\ ~IsVoid(t)
  /\ IsPrimitive(t) => (t.opt => t.dims > 1) /\ (t.dims > 0 => t.base \notin refused)
  /\ ~IsPrimitive(t) => t.dims < 2 /\ (t.opt => t.dims = 1)

UserNeeds(t) ==
  IF IsPrimitive(t) THEN {}
  ELSE IF t.dims = 0 THEN {<<"type", t.base>>, <<"codec", t.base>>}
  ELSE {<<"name", t.base>>, <<"arrayCodec", t.base>>}

\* What nothing provides.
Lacking(t) == {<<"array", t.base>>, <<"codec", "optional">>, <<"codec", "void">>}

\* What the codec of a good type needs, and what that of another one lacks.
LEMMA CallNeedsExactly ==
  ASSUME NEW t, IsType(t)
  PROVE  /\ Good(t, {"bool", "bytes"}) =>
              TypeNeeds(t) \cup CallNeeds(EncodeCall(t), EncodeArray) = UserNeeds(t)
         /\ Good(t, {"bytes"}) =>
              TypeNeeds(t) \cup CallNeeds(DecodeCall(t), DecodeArray) = UserNeeds(t)
         /\ ~Good(t, {"bool", "bytes"}) =>
              \E n \in CallNeeds(EncodeCall(t), EncodeArray) : n \in Lacking(t)
         /\ ~Good(t, {"bytes"}) =>
              \E n \in CallNeeds(DecodeCall(t), DecodeArray) : n \in Lacking(t)
  <1>1. t \in [base : STRING, dims : Nat, opt : BOOLEAN] /\ DecodeCall(t) = EncodeCall(t)
    BY CallCases DEF IsType
  <1>2. CASE t.dims = 0 /\ t.opt
    <2>1. ~Good(t, {"bool", "bytes"}) /\ ~Good(t, {"bytes"})
      BY <1>2 DEF Good
    <2>2. EncodeCall(t) = <<"optional", EncodeValue(t)>>
      BY <1>2, CallCases
    <2>3. /\ <<"codec", "optional">> \in CallNeeds(EncodeCall(t), EncodeArray)
          /\ <<"codec", "optional">> \in CallNeeds(EncodeCall(t), DecodeArray)
      BY <2>2 DEF CallNeeds
    <2> QED BY <1>1, <2>1, <2>3 DEF Lacking
  <1>3. CASE t.dims = 0 /\ ~t.opt /\ IsPrimitive(t)
    <2>1. EncodeCall(t) = <<"primitive", t.base>>
      BY <1>3, CallCases DEF EncodeValue
    <2>2. /\ CallNeeds(EncodeCall(t), EncodeArray) = IF IsVoid(t) THEN {<<"codec", "void">>} ELSE {}
          /\ CallNeeds(EncodeCall(t), DecodeArray) = IF IsVoid(t) THEN {<<"codec", "void">>} ELSE {}
      BY <2>1 DEF CallNeeds, ValueNeeds, IsVoid
    <2>3. (Good(t, {"bool", "bytes"}) <=> ~IsVoid(t)) /\ (Good(t, {"bytes"}) <=> ~IsVoid(t))
      BY <1>3 DEF Good
    <2>4. TypeNeeds(t) = {} /\ UserNeeds(t) = {}
      BY <1>3 DEF TypeNeeds, UserNeeds
    <2> QED BY <1>1, <2>2, <2>3, <2>4 DEF Lacking
  <1>4. CASE t.dims = 0 /\ ~t.opt /\ ~IsPrimitive(t)
    <2>1. EncodeCall(t) = <<"userType", t.base>>
      BY <1>4, CallCases DEF EncodeValue
    <2>2. /\ CallNeeds(EncodeCall(t), EncodeArray) = {<<"codec", t.base>>}
          /\ CallNeeds(EncodeCall(t), DecodeArray) = {<<"codec", t.base>>}
      BY <2>1 DEF CallNeeds, ValueNeeds
    <2>3. TypeNeeds(t) = {<<"type", t.base>>} /\ UserNeeds(t) = {<<"type", t.base>>, <<"codec", t.base>>}
      BY <1>4 DEF TypeNeeds, UserNeeds
    <2>4. Good(t, {"bool", "bytes"}) /\ Good(t, {"bytes"})
      BY <1>4 DEF Good, IsVoid, IsPrimitive, Primitives
    <2> QED BY <1>1, <2>2, <2>3, <2>4
  <1>5. CASE t.dims = 1 /\ ~IsPrimitive(t)
    <2>1. EncodeCall(t) = <<"userArray", t.base>>
      BY <1>5, CallCases
    <2>2. /\ CallNeeds(EncodeCall(t), EncodeArray) = {<<"arrayCodec", t.base>>}
          /\ CallNeeds(EncodeCall(t), DecodeArray) = {<<"arrayCodec", t.base>>}
      BY <2>1 DEF CallNeeds
    <2>3. TypeNeeds(t) = {<<"name", t.base>>} /\ UserNeeds(t) = {<<"name", t.base>>, <<"arrayCodec", t.base>>}
      BY <1>5 DEF TypeNeeds, UserNeeds
    <2>4. Good(t, {"bool", "bytes"}) /\ Good(t, {"bytes"})
      BY <1>5 DEF Good, IsVoid, IsPrimitive, Primitives
    <2> QED BY <1>1, <2>2, <2>3, <2>4
  <1>6. CASE t.dims > 0 /\ (t.dims # 1 \/ IsPrimitive(t))
    <2> DEFINE Writable(x) == ~x.opt /\ x.base \in EncodeArray
               Readable(x) == ~x.opt /\ x.base \in DecodeArray
    <2>1. PICK e : EncodeCall(t) = <<"array", e>> /\ e.base = t.base /\ (e.opt <=> t.opt /\ t.dims = 1)
      BY <1>6, CallCases
    <2>2. /\ CallNeeds(EncodeCall(t), EncodeArray) = IF Writable(e) THEN {} ELSE {<<"array", t.base>>}
          /\ CallNeeds(EncodeCall(t), DecodeArray) = IF Readable(e) THEN {} ELSE {<<"array", t.base>>}
      BY <2>1 DEF CallNeeds
    <2>3. (t.opt => t.dims > 1) <=> ~e.opt
      BY <1>1, <1>6, <2>1
    <2>4. IsPrimitive(t) =>
            /\ Writable(e) <=> ~e.opt /\ t.base \notin {"bool", "bytes"} /\ ~IsVoid(t)
            /\ Readable(e) <=> ~e.opt /\ t.base \notin {"bytes"} /\ ~IsVoid(t)
      BY <2>1 DEF EncodeArray, DecodeArray, IsPrimitive, IsVoid
    <2>5. ~IsPrimitive(t) => ~Writable(e) /\ ~Readable(e) /\ ~(t.dims < 2)
      BY <1>1, <1>6, <2>1 DEF EncodeArray, DecodeArray, IsPrimitive
    <2>6. (Good(t, {"bool", "bytes"}) <=> Writable(e)) /\ (Good(t, {"bytes"}) <=> Readable(e))
      BY <1>6, <2>3, <2>4, <2>5 DEF Good
    <2>7. IsPrimitive(t) => TypeNeeds(t) = {} /\ UserNeeds(t) = {}
      BY DEF TypeNeeds, UserNeeds
    <2> QED BY <1>1, <2>2, <2>5, <2>6, <2>7 DEF Lacking
  <1> QED BY <1>1, <1>2, <1>3, <1>4, <1>5, <1>6

LEMMA UsesExactly ==
  ASSUME NEW t, IsType(t)
  PROVE  /\ Good(t, {"bool", "bytes"}) => UseNeeds(t) = UserNeeds(t)
         /\ Good(t, {"bytes"}) => ReadNeeds(t) = UserNeeds(t)
         /\ ~Good(t, {"bool", "bytes"}) => \E n \in UseNeeds(t) : n \in Lacking(t)
         /\ ~Good(t, {"bytes"}) => \E n \in ReadNeeds(t) : n \in Lacking(t)
         /\ TypeNeeds(t) \subseteq UseNeeds(t)
  <1>1. Good(t, {"bool", "bytes"}) => Good(t, {"bytes"})
    BY DEF Good
  <1>2. /\ ReadNeeds(t) = TypeNeeds(t) \cup CallNeeds(DecodeCall(t), DecodeArray)
        /\ UseNeeds(t) = ReadNeeds(t) \cup CallNeeds(EncodeCall(t), EncodeArray)
    BY DEF ReadNeeds, UseNeeds
  <1> QED BY <1>1, <1>2, CallNeedsExactly

\* Where the type of a name is registered.
Named(ns, name) == {i \in DOMAIN Registered(ns) : Registered(ns)[i].name = name}

LEMMA NamedOnce ==
  ASSUME NEW ns, IsNamespace(ns), Resolve(ns), NEW name
  PROVE  Named(ns, name) \subseteq Int /\ \A k \in Named(ns, name) : Named(ns, name) = {k}
  <1>1. IsVector(Registered(ns))
    BY RegisteredVector
  <1>2. DOMAIN Registered(ns) \subseteq Int /\ \A i \in DOMAIN Registered(ns) : i >= 1
    BY <1>1, Vectors
  <1>3. \A j, k \in DOMAIN Registered(ns) :
          j < k => Registered(ns)[j].name # Registered(ns)[k].name
    BY <1>2 DEF Resolve, DuplicateTypes
  <1>4. \A j, k \in Named(ns, name) : ~(j < k)
    BY <1>3 DEF Named
  <1>5. Named(ns, name) \subseteq Int
    BY <1>2 DEF Named
  <1>6. \A j, k \in Named(ns, name) : j = k
    BY <1>4, <1>5
  <1> QED BY <1>5, <1>6

HasBase(d) == d.base # ""

\* The base of a class that resolves is a class.
LEMMA BaseIsClass ==
  ASSUME NEW ns, IsNamespace(ns), Resolve(ns), NEW d \in Range(ns.classes), HasBase(d)
  PROVE  \E c \in Range(ns.classes) : c.name = d.base
  <1> DEFINE all == Registered(ns)
             at == {k \in DOMAIN all : all[k].name = d.base}
  <1>1. ValidInheritance(ns, d) /\ d.kind = "class"
    BY RegisteredVector DEF Resolve, ValidDefinition, IsNamespace
  <1>2. TypeExists(ns, d.base) /\ Kind(Lookup(ns, d.base)) = "class"
    BY <1>1 DEF ValidInheritance, Kind, HasBase
  <1>3. PICK i \in at : TRUE
    BY <1>2 DEF TypeExists, Names, Definitions, Range
  <1>4. at \subseteq Int /\ \A k \in at : at = {k}
    <2>1. at = Named(ns, d.base)
      BY DEF Named
    <2> HIDE DEF at
    <2> QED BY <2>1, NamedOnce
  <1>5. i \in at
    OBVIOUS
  <1>6. at = {i} /\ i <= i
    <2> HIDE DEF at
    <2>1. i \in Int
      BY <1>4, <1>5
    <2>2. i <= i
      BY <2>1
    <2>3. at = {i}
      BY <1>4, <1>5, Zenon
    <2> QED BY <2>2, <2>3
  <1>7. Min(at) = i
    <2> HIDE DEF at
    <2> QED BY <1>6 DEF Min
  <1>8. Lookup(ns, d.base) = all[i] /\ all[i] \in Definitions(ns) /\ all[i].name = d.base
    BY <1>3, <1>7 DEF Lookup, Definitions, Range
  <1>9. all[i].kind = "class"
    BY <1>2, <1>8 DEF Kind
  <1>10. all[i] \in Range(ns.classes)
    <2> HIDE DEF all
    <2> QED BY <1>8, <1>9, RegisteredVector DEF IsNamespace
  <1> QED BY <1>8, <1>10

-----------------------------------------------------------------------------
(* When the pieces find what they need                                     *)

LEMMA InAll ==
  ASSUME NEW kind, NEW xs, NEW k, NEW x
  PROVE  <<k, x>> \in All(kind, xs) <=> k = kind /\ x \in Names(xs)
  BY DEF All, Names

\* What is known of a name, where.
LEMMA Known ==
  ASSUME NEW ns, NEW x
  PROVE  /\ <<"name", x>> \in NamesKnown(ns) <=> x \in Names(UserTypes(ns))
         /\ <<"type", x>> \in NamesKnown(ns) <=> x \in Names(Range(ns.enums))
         /\ <<"codec", x>> \in ArraysKnown(ns) <=> x \in Names(Range(ns.enums))
         /\ <<"arrayCodec", x>> \in SplitKnown(ns) <=> x \in Names(Range(ns.enums))
         /\ <<"name", x>> \in AllKnown(ns) <=> x \in Names(UserTypes(ns))
         /\ <<"type", x>> \in AllKnown(ns) <=> x \in Names(UserTypes(ns))
         /\ <<"codec", x>> \in AllKnown(ns) <=> x \in Names(UserTypes(ns))
         /\ <<"arrayCodec", x>> \in AllKnown(ns) <=> x \in Names(UserTypes(ns))
         /\ <<"base", x>> \notin AllKnown(ns) /\ <<"array", x>> \notin AllKnown(ns)
         /\ AllKnown(ns) = ArraysKnown(ns) \cup All("codec", Range(ns.structs))
         /\ AllKnown(ns) = SplitKnown(ns) \cup All("arrayCodec", Range(ns.structs))
  <1>1. x \in Names(UserTypes(ns)) <=> x \in Names(Range(ns.enums)) \/ x \in Names(Range(ns.structs))
    BY DEF Names, UserTypes
  <1>2. \A kind, k, xs : <<k, x>> \in All(kind, xs) <=> k = kind /\ x \in Names(xs)
    BY InAll
  <1>3. /\ <<"name", x>> \in NamesKnown(ns) <=> x \in Names(UserTypes(ns))
        /\ <<"type", x>> \in NamesKnown(ns) <=> x \in Names(Range(ns.enums))
    BY <1>2 DEF NamesKnown
  <1>4. /\ <<"codec", x>> \in ArraysKnown(ns) <=> x \in Names(Range(ns.enums))
        /\ <<"arrayCodec", x>> \in SplitKnown(ns) <=> x \in Names(Range(ns.enums))
    BY <1>2 DEF NamesKnown, TypesKnown, ArraysKnown, SplitKnown
  <1>5. /\ <<"name", x>> \in AllKnown(ns) <=> x \in Names(UserTypes(ns))
        /\ <<"type", x>> \in AllKnown(ns) <=> x \in Names(UserTypes(ns))
    BY <1>1, <1>2 DEF NamesKnown, TypesKnown, ArraysKnown, AllKnown
  <1>6. /\ <<"codec", x>> \in AllKnown(ns) <=> x \in Names(UserTypes(ns))
        /\ <<"arrayCodec", x>> \in AllKnown(ns) <=> x \in Names(UserTypes(ns))
    BY <1>1, <1>2 DEF NamesKnown, TypesKnown, ArraysKnown, AllKnown
  <1>7. <<"base", x>> \notin AllKnown(ns) /\ <<"array", x>> \notin AllKnown(ns)
    BY <1>2 DEF NamesKnown, TypesKnown, ArraysKnown, AllKnown
  <1>8. AllKnown(ns) = SplitKnown(ns) \cup All("arrayCodec", Range(ns.structs))
    BY DEF ArraysKnown, AllKnown, SplitKnown
  <1> QED BY <1>3, <1>4, <1>5, <1>6, <1>7, <1>8 DEF AllKnown

\* A user type's name is no keyword, and none of a primitive type.
LEMMA TypeNames ==
  ASSUME NEW ns, IsNamespace(ns), NEW x \in Names(UserTypes(ns))
  PROVE  x # "optional" /\ x \notin Primitives
  <1>1. PICK d \in Definitions(ns) : d.name = x
    BY RegisteredVector DEF Names, UserTypes
  <1>2. IsName(x)
    BY <1>1 DEF IsNamespace
  <1> QED BY <1>2, Zenon DEF IsName

\* The bases of classes may be known besides.
KnownIn(ns, S) == AllKnown(ns) \subseteq S /\ S \subseteq AllKnown(ns) \cup All("base", Range(ns.classes))

LEMMA NotProvided ==
  ASSUME NEW ns, IsNamespace(ns), NEW S, KnownIn(ns, S), NEW t, NEW n \in Lacking(t)
  PROVE  n \notin S
  <1>1. "void" \in Primitives
    BY DEF Primitives
  <1>2. "optional" \notin Names(UserTypes(ns)) /\ "void" \notin Names(UserTypes(ns))
    BY <1>1, TypeNames
  <1>3. n \notin AllKnown(ns)
    BY <1>2, Known DEF Lacking
  <1>4. n \notin All("base", Range(ns.classes))
    BY InAll DEF Lacking
  <1> QED BY <1>3, <1>4 DEF KnownIn

LEMMA SupportedExactly ==
  ASSUME NEW ns, NEW t, NEW R
  PROVE  SupportedType(ns, t, R) <=> Good(t, R) /\ (~IsPrimitive(t) => t.base \in Names(UserTypes(ns)))
  BY DEF SupportedType, Good, UserTypes

\* The needs of a good type are known if it is primitive or a user type.
LEMMA UserNeedsKnown ==
  ASSUME NEW ns, NEW S, KnownIn(ns, S), NEW t
  PROVE  UserNeeds(t) \subseteq S <=> (~IsPrimitive(t) => t.base \in Names(UserTypes(ns)))
  <1>1. \A k : k \in {"name", "type", "codec", "arrayCodec"} =>
          (<<k, t.base>> \in S <=> t.base \in Names(UserTypes(ns)))
    <2>1. \A k : k \in {"name", "type", "codec", "arrayCodec"} =>
            <<k, t.base>> \notin All("base", Range(ns.classes))
      BY InAll
    <2> QED BY <2>1, Known DEF KnownIn
  <1> QED BY <1>1 DEF UserNeeds

LEMMA UsesKnown ==
  ASSUME NEW ns, IsNamespace(ns), NEW S, KnownIn(ns, S), NEW t, IsType(t)
  PROVE  /\ UseNeeds(t) \subseteq S <=> SupportedType(ns, t, {"bool", "bytes"})
         /\ ReadNeeds(t) \subseteq S <=> SupportedType(ns, t, {"bytes"})
  <1>1. CASE Good(t, {"bool", "bytes"})
    BY <1>1, UsesExactly, UserNeedsKnown, SupportedExactly DEF Good
  <1>2. CASE ~Good(t, {"bool", "bytes"}) /\ Good(t, {"bytes"})
    <2>1. ~(UseNeeds(t) \subseteq S)
      BY <1>2, UsesExactly, NotProvided
    <2> QED BY <1>2, <2>1, UsesExactly, UserNeedsKnown, SupportedExactly
  <1>3. CASE ~Good(t, {"bytes"})
    <2>1. ~Good(t, {"bool", "bytes"})
      BY <1>3 DEF Good
    <2>2. ~(UseNeeds(t) \subseteq S) /\ ~(ReadNeeds(t) \subseteq S)
      BY <1>3, <2>1, UsesExactly, NotProvided
    <2> QED BY <1>3, <2>1, <2>2, SupportedExactly
  <1> QED BY <1>1, <1>2, <1>3

\* The types of a member.
LEMMA MemberTypes ==
  ASSUME NEW ns, IsNamespace(ns), NEW d \in Definitions(ns), NEW m \in Members(d)
  PROVE  /\ \A t \in TypesIn(m) : IsType(t)
         /\ ValueTypes(d, m) \subseteq TypesIn(m) /\ m.type \in TypesIn(m)
         /\ \A t \in TypesIn(m) : t \in ValueTypes(d, m) \/ (t = m.type /\ Streamed(d, m)) \/ t = NoType
  <1>1. \A t \in TypesIn(m) : IsType(t)
    BY DEF IsNamespace, IsDefinition
  <1>2. ValueTypes(d, m) \subseteq TypesIn(m) /\ m.type \in TypesIn(m)
    BY DEF ValueTypes, TypesIn
  <1>3. \A t \in TypesIn(m) : t \in ValueTypes(d, m) \/ (t = m.type /\ Streamed(d, m)) \/ t = NoType
    BY DEF ValueTypes, TypesIn
  <1> QED BY <1>1, <1>2, <1>3

\* What the members of a definition need is what their types do.
LEMMA MemberNeedsIn ==
  ASSUME NEW d, NEW S
  PROVE  MemberNeeds(d) \subseteq S <=>
           \A m \in Members(d) : /\ \A t \in ValueTypes(d, m) : UseNeeds(t) \subseteq S
                                 /\ Streamed(d, m) => ReadNeeds(m.type) \subseteq S
  <1> DEFINE values(m) == UNION {UseNeeds(t) : t \in ValueTypes(d, m)}
             streams(m) == IF Streamed(d, m) THEN ReadNeeds(m.type) ELSE {}
  <1>1. MemberNeeds(d) = UNION {values(m) \cup streams(m) : m \in Members(d)}
    BY DEF MemberNeeds
  <1>2. \A m : values(m) \subseteq S <=> \A t \in ValueTypes(d, m) : UseNeeds(t) \subseteq S
    OBVIOUS
  <1>3. \A m : streams(m) \subseteq S <=> (Streamed(d, m) => ReadNeeds(m.type) \subseteq S)
    OBVIOUS
  <1> HIDE DEF values, streams
  <1>4. MemberNeeds(d) \subseteq S <=>
          \A m \in Members(d) : values(m) \subseteq S /\ streams(m) \subseteq S
    BY <1>1
  <1> QED BY <1>2, <1>3, <1>4

\* Members find what they need if and only if they are supported.
LEMMA MembersKnown ==
  ASSUME NEW ns, IsNamespace(ns), NEW S, KnownIn(ns, S), NEW d \in Definitions(ns)
  PROVE  MemberNeeds(d) \subseteq S <=> Supported(ns, d)
  <1>1. ASSUME NEW m \in Members(d)
        PROVE  /\ \A t \in ValueTypes(d, m) :
                    UseNeeds(t) \subseteq S <=> SupportedType(ns, t, {"bool", "bytes"})
               /\ ReadNeeds(m.type) \subseteq S <=> SupportedType(ns, m.type, {"bytes"})
    <2>1. \A t \in ValueTypes(d, m) \cup {m.type} : IsType(t)
      BY MemberTypes
    <2> QED BY <2>1, UsesKnown
  <1>2. MemberNeeds(d) \subseteq S <=>
          \A m \in Members(d) : /\ \A t \in ValueTypes(d, m) : UseNeeds(t) \subseteq S
                                /\ Streamed(d, m) => ReadNeeds(m.type) \subseteq S
    BY MemberNeedsIn
  <1> QED BY <1>1, <1>2 DEF Supported

\* No enum has the name of a struct.
LEMMA EnumsApart ==
  ASSUME NEW ns, IsNamespace(ns), Resolve(ns), NEW x \in Names(Range(ns.enums))
  PROVE  x \notin Names(Range(ns.structs))
  <1>1. PICK e \in Range(ns.enums) : e.name = x
    BY DEF Names
  <1>2. e.kind # "struct"
    BY DEF IsNamespace
  <1>3. \A d \in Range(ns.structs) : d.kind = "struct"
    BY DEF IsNamespace
  <1>4. \A d \in Range(ns.structs) : d.name = e.name => d = e
    BY TypesOnce, RegisteredVector DEF OneName
  <1> QED BY <1>1, <1>2, <1>3, <1>4 DEF Names

\* The split headers declare no array codec of a struct.
LEMMA UserNeedsSplit ==
  ASSUME NEW ns, IsNamespace(ns), Resolve(ns), NEW t, IsType(t),
         ~IsPrimitive(t) => t.base \in Names(UserTypes(ns))
  PROVE  UserNeeds(t) \subseteq SplitKnown(ns) <=> ~(t.dims > 0 /\ t.base \in Names(Range(ns.structs)))
  <1>1. t.dims \in Nat
    BY DEF IsType
  <1>2. \A k : k \in {"name", "type", "codec"} => <<k, t.base>> \notin All("arrayCodec", Range(ns.structs))
    BY InAll
  <1>3. \A k : k \in {"name", "type", "codec"} /\ t.base \in Names(UserTypes(ns)) =>
          <<k, t.base>> \in SplitKnown(ns)
    BY <1>2, Known
  <1>4. t.base \in Names(UserTypes(ns)) <=>
          t.base \in Names(Range(ns.enums)) \/ t.base \in Names(Range(ns.structs))
    BY DEF Names, UserTypes
  <1>5. CASE IsPrimitive(t)
    BY <1>4, <1>5, TypeNames DEF UserNeeds, IsPrimitive
  <1>6. CASE ~IsPrimitive(t) /\ t.dims = 0
    BY <1>3, <1>6 DEF UserNeeds
  <1>7. CASE ~IsPrimitive(t) /\ t.dims > 0
    <2>1. UserNeeds(t) \subseteq SplitKnown(ns) <=> <<"arrayCodec", t.base>> \in SplitKnown(ns)
      BY <1>3, <1>7 DEF UserNeeds
    <2>2. UserNeeds(t) \subseteq SplitKnown(ns) <=> t.base \in Names(Range(ns.enums))
      BY <2>1, Known
    <2> QED BY <1>4, <1>7, <2>2, EnumsApart
  <1> QED BY <1>1, <1>5, <1>6, <1>7

\* Of the supported ones, if and only if no array of a struct is among them.
LEMMA MembersSplit ==
  ASSUME NEW ns, IsNamespace(ns), Resolve(ns), NEW d \in Definitions(ns), Supported(ns, d)
  PROVE  MemberNeeds(d) \subseteq SplitKnown(ns) <=> ~HasStructArray(ns, d)
  <1> DEFINE Held(t) == t.dims > 0 /\ t.base \in Names(Range(ns.structs))
  <1>1. ASSUME NEW m \in Members(d)
        PROVE  /\ \A t \in ValueTypes(d, m) : UseNeeds(t) \subseteq SplitKnown(ns) <=> ~Held(t)
               /\ Streamed(d, m) => (ReadNeeds(m.type) \subseteq SplitKnown(ns) <=> ~Held(m.type))
    <2>1. ASSUME NEW t \in ValueTypes(d, m)
          PROVE  UseNeeds(t) \subseteq SplitKnown(ns) <=> ~Held(t)
      <3>1. IsType(t) /\ SupportedType(ns, t, {"bool", "bytes"})
        BY MemberTypes DEF Supported
      <3> QED BY <3>1, SupportedExactly, UsesExactly, UserNeedsSplit
    <2>2. ASSUME Streamed(d, m)
          PROVE  ReadNeeds(m.type) \subseteq SplitKnown(ns) <=> ~Held(m.type)
      <3>1. IsType(m.type) /\ SupportedType(ns, m.type, {"bytes"})
        BY <2>2, MemberTypes DEF Supported
      <3> QED BY <3>1, SupportedExactly, UsesExactly, UserNeedsSplit
    <2> QED BY <2>1, <2>2
  <1>2. MemberNeeds(d) \subseteq SplitKnown(ns) <=>
          \A m \in Members(d) : /\ \A t \in ValueTypes(d, m) : UseNeeds(t) \subseteq SplitKnown(ns)
                                /\ Streamed(d, m) => ReadNeeds(m.type) \subseteq SplitKnown(ns)
    BY MemberNeedsIn
  <1>3. ~Held(NoType)
    BY DEF NoType
  <1>4. HasStructArray(ns, d) <=> \E m \in Members(d) : \E t \in TypesIn(m) : Held(t)
    BY DEF HasStructArray
  <1> HIDE DEF Held
  <1>5. ASSUME NEW m \in Members(d)
        PROVE  (\A t \in TypesIn(m) : ~Held(t)) <=>
                 (\A t \in ValueTypes(d, m) : ~Held(t)) /\ (Streamed(d, m) => ~Held(m.type))
    BY <1>3, MemberTypes
  <1> QED BY <1>1, <1>2, <1>4, <1>5

LEMMA PartsOnce ==
  ASSUME NEW a, NEW b, IsVector(a), IsVector(b), NoDuplicates(a \o b)
  PROVE  NoDuplicates(a) /\ NoDuplicates(b)
  <1>1. /\ IsVector(a \o b) /\ Len(a \o b) = Len(a) + Len(b)
        /\ \A i \in 1..Len(a) : (a \o b)[i] = a[i]
        /\ \A i \in 1..Len(b) : (a \o b)[Len(a) + i] = b[i]
    BY Concat
  <1> DEFINE c == a \o b
  <1>2. /\ DOMAIN c = 1..Len(a) + Len(b) /\ Len(a) \in Nat /\ Len(b) \in Nat
        /\ DOMAIN a = 1..Len(a) /\ DOMAIN b = 1..Len(b)
    BY <1>1, Vectors
  <1>3. \A i, j \in DOMAIN c : c[i].name = c[j].name => i = j
    BY DEF NoDuplicates
  <1>4. \A i \in 1..Len(a) : c[i] = a[i] /\ i \in DOMAIN c
    BY <1>1, <1>2
  <1>5. \A i \in 1..Len(b) : c[Len(a) + i] = b[i] /\ Len(a) + i \in DOMAIN c
    BY <1>1, <1>2
  <1> HIDE DEF c
  <1>6. NoDuplicates(a)
    BY <1>2, <1>3, <1>4 DEF NoDuplicates
  <1>7. \A i, j \in 1..Len(b) : b[i].name = b[j].name => Len(a) + i = Len(a) + j
    BY <1>3, <1>5
  <1>8. NoDuplicates(b)
    BY <1>2, <1>7 DEF NoDuplicates
  <1> QED BY <1>6, <1>8

\* A struct and a class has a place of its own.
LEMMA PlacedOnce ==
  ASSUME NEW ns, IsNamespace(ns), Resolve(ns)
  PROVE  NoDuplicates(ns.structs) /\ NoDuplicates(ns.classes)
  <1> DEFINE a == ns.enums \o ns.structs
             b == a \o ns.classes
             c == b \o ns.services
  <1>1. NoDuplicates(c \o ns.errors)
    <2>1. \A i, j \in DOMAIN Registered(ns) : Registered(ns)[i].name = Registered(ns)[j].name => i = j
      <3>1. ASSUME NEW i \in DOMAIN Registered(ns), NEW j \in DOMAIN Registered(ns),
                   Registered(ns)[i].name = Registered(ns)[j].name
            PROVE  i = j
        <4> DEFINE at == Named(ns, Registered(ns)[i].name)
        <4>1. i \in at /\ j \in at
          BY <3>1 DEF Named
        <4>2. at = {i}
          <5> HIDE DEF at
          <5>1. \A k \in Named(ns, Registered(ns)[i].name) : Named(ns, Registered(ns)[i].name) = {k}
            BY NamedOnce
          <5> QED BY <4>1, <5>1 DEF at
        <4> HIDE DEF at
        <4> QED BY <4>1, <4>2
      <3> QED BY <3>1
    <2> QED BY <2>1 DEF NoDuplicates, Registered
  <1>2. IsVector(a) /\ IsVector(ns.structs) /\ IsVector(ns.classes) /\ IsVector(ns.services)
        /\ IsVector(ns.enums) /\ IsVector(ns.errors)
    BY Concat DEF IsNamespace
  <1>3. IsVector(b)
    <2> HIDE DEF a
    <2> QED BY <1>2, Concat
  <1>4. IsVector(c)
    <2> HIDE DEF b
    <2> QED BY <1>2, <1>3, Concat
  <1>5. NoDuplicates(c)
    <2> HIDE DEF c
    <2> QED BY <1>1, <1>2, <1>4, PartsOnce
  <1>6. NoDuplicates(b)
    <2> HIDE DEF b
    <2> QED BY <1>2, <1>3, <1>5, PartsOnce
  <1>7. NoDuplicates(a) /\ NoDuplicates(ns.classes)
    <2> HIDE DEF a
    <2> QED BY <1>2, <1>6, PartsOnce
  <1> QED BY <1>2, <1>7, PartsOnce

\* A struct's codec needs what its members do, and these are its fields.
LEMMA StructMembers ==
  ASSUME NEW ns, IsNamespace(ns), NEW d \in Range(ns.structs)
  PROVE  /\ d \in Definitions(ns) /\ Members(d) = Range(d.fields)
         /\ \A f \in Range(d.fields) : IsType(f.type)
         /\ StructCodec(d).needs = MemberNeeds(d)
         /\ Supported(ns, d) <=>
              \A f \in Range(d.fields) : SupportedType(ns, f.type, {"bool", "bytes"})
  <1>1. d.kind = "struct" /\ HasFieldsOnly(d) /\ d \in Definitions(ns)
    BY RegisteredVector DEF IsNamespace
  <1>2. Range(<<>>) = {}
    BY EmptySeq DEF Range
  <1>3. Members(d) = Range(d.fields)
    BY <1>1, <1>2 DEF Members, HasFieldsOnly
  <1>4. ASSUME NEW f \in Range(d.fields)
        PROVE  ValueTypes(d, f) = {f.type} /\ ~Streamed(d, f)
    <2>1. f.kind = "field" /\ f.params = <<>> /\ ~Streamed(d, f)
      BY <1>1 DEF HasFieldsOnly, Streamed
    <2>2. {p.type : p \in Range(f.params)} = {}
      BY <1>2, <2>1
    <2> QED BY <2>1, <2>2 DEF ValueTypes
  <1>5. \A f \in Range(d.fields) : IsType(f.type)
    BY <1>1, <1>3, MemberTypes
  <1>6. StructCodec(d).needs = UNION {UseNeeds(f.type) : f \in Range(d.fields)}
    BY DEF StructCodec, Piece
  <1>7. MemberNeeds(d) = UNION {UseNeeds(f.type) : f \in Range(d.fields)}
    BY <1>3, <1>4 DEF MemberNeeds
  <1>8. Supported(ns, d) <=>
          \A f \in Range(d.fields) : SupportedType(ns, f.type, {"bool", "bytes"})
    BY <1>3, <1>4 DEF Supported
  <1> QED BY <1>1, <1>3, <1>5, <1>6, <1>7, <1>8

\* Where the structs come, and what they hold.
StructOrder(ns) ==
  \A i, j \in DOMAIN ns.structs :
    (\E f \in Range(ns.structs[i].fields) : f.type.dims = 0 /\ f.type.base = ns.structs[j].name) => j < i
ClassOrder(ns) == \A i, j \in DOMAIN ns.classes : ns.classes[i].base = ns.classes[j].name => j < i

LEMMA StructPieces ==
  ASSUME NEW ns, IsNamespace(ns), NEW S
  PROVE  /\ \A i \in DOMAIN ns.structs : ns.structs[i] \in Range(ns.structs)
         /\ Finds(Pieces(ns.structs, StructDef), S) <=>
              \A i \in DOMAIN ns.structs : \A f \in Range(ns.structs[i].fields) : \A n \in TypeNeeds(f.type) :
                n \in S \/ \E j \in DOMAIN ns.structs : j < i /\ n = <<"type", ns.structs[j].name>>
         /\ Finds(Pieces(ns.structs, StructCodec), S) <=>
              \A i \in DOMAIN ns.structs : \A n \in StructCodec(ns.structs[i]).needs :
                n \in S \/ \E j \in DOMAIN ns.structs : j < i /\ n = <<"codec", ns.structs[j].name>>
  <1>1. \A i \in DOMAIN ns.structs : ns.structs[i] \in Range(ns.structs)
    BY DEF Range
  <1> DEFINE p == Pieces(ns.structs, StructDef)
             q == Pieces(ns.structs, StructCodec)
  <1>2. /\ DOMAIN p = DOMAIN ns.structs /\ \A i \in DOMAIN ns.structs : p[i] = StructDef(ns.structs[i])
        /\ DOMAIN q = DOMAIN ns.structs /\ \A i \in DOMAIN ns.structs : q[i] = StructCodec(ns.structs[i])
    BY PiecesMapped DEF MadeOf, IsNamespace
  <1> HIDE DEF p, q
  <1>3. \A d : /\ StructDef(d).defines = {<<"type", d.name>>}
               /\ StructDef(d).needs = UNION {TypeNeeds(f.type) : f \in Range(d.fields)}
               /\ StructCodec(d).defines = {<<"codec", d.name>>}
    BY DEF StructDef, StructCodec, Piece
  <1>4. Finds(p, S) <=>
          \A i \in DOMAIN ns.structs : \A n \in StructDef(ns.structs[i]).needs :
            n \in S \/ \E j \in DOMAIN ns.structs : j < i /\ n = <<"type", ns.structs[j].name>>
    <2>1. Finds(p, S) <=>
            \A i \in DOMAIN ns.structs : \A n \in p[i].needs :
              n \in S \/ \E j \in DOMAIN ns.structs : j < i /\ n \in p[j].defines
      BY <1>2 DEF Finds
    <2>2. \A j \in DOMAIN ns.structs : \A n : n \in p[j].defines <=> n = <<"type", ns.structs[j].name>>
      BY <1>2, <1>3
    <2> QED BY <1>2, <2>1, <2>2
  <1>5. Finds(q, S) <=>
          \A i \in DOMAIN ns.structs : \A n \in StructCodec(ns.structs[i]).needs :
            n \in S \/ \E j \in DOMAIN ns.structs : j < i /\ n = <<"codec", ns.structs[j].name>>
    <2>1. Finds(q, S) <=>
            \A i \in DOMAIN ns.structs : \A n \in q[i].needs :
              n \in S \/ \E j \in DOMAIN ns.structs : j < i /\ n \in q[j].defines
      BY <1>2 DEF Finds
    <2>2. \A j \in DOMAIN ns.structs : \A n : n \in q[j].defines <=> n = <<"codec", ns.structs[j].name>>
      BY <1>2, <1>3
    <2> QED BY <1>2, <2>1, <2>2
  <1>6. \A i : \A n : n \in StructDef(ns.structs[i]).needs
                        <=> \E f \in Range(ns.structs[i].fields) : n \in TypeNeeds(f.type)
    BY <1>3
  <1>7. Finds(p, S) <=>
          \A i \in DOMAIN ns.structs : \A f \in Range(ns.structs[i].fields) : \A n \in TypeNeeds(f.type) :
            n \in S \/ \E j \in DOMAIN ns.structs : j < i /\ n = <<"type", ns.structs[j].name>>
    <2> DEFINE There(i, n) == n \in S \/ \E j \in DOMAIN ns.structs : j < i /\ n = <<"type", ns.structs[j].name>>
    <2>1. Finds(p, S) <=>
            \A i \in DOMAIN ns.structs : \A n \in StructDef(ns.structs[i]).needs : There(i, n)
      BY <1>4
    <2> HIDE DEF There
    <2>2. Finds(p, S) <=>
            \A i \in DOMAIN ns.structs : \A f \in Range(ns.structs[i].fields) : \A n \in TypeNeeds(f.type) :
              There(i, n)
      BY <1>6, <2>1
    <2> QED BY <2>2 DEF There
  <1> QED BY <1>1, <1>5, <1>7 DEF p, q

\* Structs find the types they hold only behind these.
LEMMA OrderNeeded ==
  ASSUME NEW ns, IsNamespace(ns), Resolve(ns), Finds(Pieces(ns.structs, StructDef), NamesKnown(ns))
  PROVE  StructOrder(ns)
  <1>1. ASSUME NEW i \in DOMAIN ns.structs, NEW j \in DOMAIN ns.structs,
               NEW f \in Range(ns.structs[i].fields), f.type.dims = 0, f.type.base = ns.structs[j].name
        PROVE  j < i
    <2>1. ns.structs[j].name \in Names(Range(ns.structs))
      BY StructPieces DEF Names
    <2>2. f.type.base \notin Primitives /\ f.type.base \notin Names(Range(ns.enums))
      BY <1>1, <2>1, TypeNames, EnumsApart DEF Names, UserTypes
    <2>3. <<"type", f.type.base>> \in TypeNeeds(f.type)
      BY <1>1, <2>2 DEF TypeNeeds, IsPrimitive
    <2>4. <<"type", f.type.base>> \notin NamesKnown(ns)
      BY <2>2, Known
    <2>5. PICK k \in DOMAIN ns.structs : k < i /\ <<"type", f.type.base>> = <<"type", ns.structs[k].name>>
      <3>1. \A h \in DOMAIN ns.structs : \A g \in Range(ns.structs[h].fields) : \A n \in TypeNeeds(g.type) :
              n \in NamesKnown(ns) \/ \E k \in DOMAIN ns.structs : k < h /\ n = <<"type", ns.structs[k].name>>
        BY StructPieces
      <3>2. \A n \in TypeNeeds(f.type) :
              n \in NamesKnown(ns) \/ \E k \in DOMAIN ns.structs : k < i /\ n = <<"type", ns.structs[k].name>>
        BY <3>1, Zenon
      <3> QED BY <2>3, <2>4, <3>2
    <2>6. ns.structs[k].name = ns.structs[j].name
      BY <1>1, <2>5
    <2>7. k = j
      BY <2>6, PlacedOnce DEF NoDuplicates
    <2> QED BY <2>5, <2>7
  <1> QED BY <1>1 DEF StructOrder

LEMMA StructsSupported ==
  ASSUME NEW ns, IsNamespace(ns), Finds(Pieces(ns.structs, StructCodec), ArraysKnown(ns))
  PROVE  \A d \in Range(ns.structs) : Supported(ns, d)
  <1>1. ASSUME NEW i \in DOMAIN ns.structs
        PROVE  StructCodec(ns.structs[i]).needs \subseteq AllKnown(ns)
    <2>1. \A j \in DOMAIN ns.structs : <<"codec", ns.structs[j].name>> \in AllKnown(ns)
      <3>1. \A j \in DOMAIN ns.structs : ns.structs[j].name \in Names(UserTypes(ns))
        BY StructPieces DEF Names, UserTypes
      <3> QED BY <3>1, Known
    <2>2. ArraysKnown(ns) \subseteq AllKnown(ns)
      BY DEF AllKnown
    <2>3. \A h \in DOMAIN ns.structs : \A n \in StructCodec(ns.structs[h]).needs :
            n \in ArraysKnown(ns) \/ \E j \in DOMAIN ns.structs : j < h /\ n = <<"codec", ns.structs[j].name>>
      BY StructPieces
    <2> QED BY <2>1, <2>2, <2>3
  <1>2. \A d \in Range(ns.structs) : MemberNeeds(d) \subseteq AllKnown(ns)
    BY <1>1, StructMembers DEF Range
  <1>3. KnownIn(ns, AllKnown(ns))
    BY DEF KnownIn
  <1> QED BY <1>2, <1>3, MembersKnown, StructMembers

LEMMA StructsFound ==
  ASSUME NEW ns, IsNamespace(ns), StructOrder(ns), \A d \in Range(ns.structs) : Supported(ns, d)
  PROVE  /\ Finds(Pieces(ns.structs, StructDef), NamesKnown(ns))
         /\ Finds(Pieces(ns.structs, StructCodec), ArraysKnown(ns))
  <1> DEFINE Before(tag, i, n) == \E j \in DOMAIN ns.structs : j < i /\ n = <<tag, ns.structs[j].name>>
  <1>1. ASSUME NEW i \in DOMAIN ns.structs, NEW f \in Range(ns.structs[i].fields)
        PROVE  /\ IsType(f.type) /\ UseNeeds(f.type) = UserNeeds(f.type)
               /\ ~IsPrimitive(f.type) =>
                    \/ f.type.base \in Names(Range(ns.enums))
                    \/ \E j \in DOMAIN ns.structs : f.type.base = ns.structs[j].name
    <2>1. IsType(f.type) /\ SupportedType(ns, f.type, {"bool", "bytes"})
      BY StructMembers, StructPieces
    <2>2. f.type.base \in Names(UserTypes(ns)) =>
            \/ f.type.base \in Names(Range(ns.enums))
            \/ \E j \in DOMAIN ns.structs : f.type.base = ns.structs[j].name
      BY DEF Names, UserTypes, Range
    <2> QED BY <2>1, <2>2, UsesExactly, SupportedExactly
  <1>2. ASSUME NEW i \in DOMAIN ns.structs, NEW f \in Range(ns.structs[i].fields), f.type.dims = 0,
               NEW j \in DOMAIN ns.structs, f.type.base = ns.structs[j].name
        PROVE  j < i
    BY <1>2 DEF StructOrder
  <1>3. ASSUME NEW i \in DOMAIN ns.structs, NEW f \in Range(ns.structs[i].fields), ~IsPrimitive(f.type)
        PROVE  f.type.base \in Names(UserTypes(ns))
    <2>1. \A j \in DOMAIN ns.structs : ns.structs[j].name \in Names(UserTypes(ns))
      BY StructPieces DEF Names, UserTypes
    <2>2. \A x \in Names(Range(ns.enums)) : x \in Names(UserTypes(ns))
      BY DEF Names, UserTypes
    <2> QED BY <1>1, <1>3, <2>1, <2>2
  <1>4. ASSUME NEW i \in DOMAIN ns.structs, NEW f \in Range(ns.structs[i].fields), NEW n \in TypeNeeds(f.type)
        PROVE  n \in NamesKnown(ns) \/ Before("type", i, n)
    <2>1. ~IsPrimitive(f.type) /\ f.type.dims \in Nat
      BY <1>1, <1>4 DEF TypeNeeds, IsType
    <2>2. CASE f.type.dims > 0
      <3>1. n = <<"name", f.type.base>>
        BY <1>4, <2>1, <2>2 DEF TypeNeeds
      <3> QED BY <1>3, <2>1, <3>1, Known
    <2>3. CASE f.type.dims = 0
      <3>1. n = <<"type", f.type.base>>
        BY <1>4, <2>1, <2>3 DEF TypeNeeds
      <3>2. CASE f.type.base \in Names(Range(ns.enums))
        BY <3>1, <3>2, Known
      <3>3. CASE \E j \in DOMAIN ns.structs : f.type.base = ns.structs[j].name
        BY <1>2, <2>3, <3>1, <3>3
      <3> QED BY <1>1, <2>1, <3>2, <3>3
    <2> QED BY <2>1, <2>2, <2>3
  <1>5. ASSUME NEW i \in DOMAIN ns.structs, NEW f \in Range(ns.structs[i].fields), NEW n \in UserNeeds(f.type)
        PROVE  n \in ArraysKnown(ns) \/ Before("codec", i, n)
    <2>1. ~IsPrimitive(f.type) /\ f.type.dims \in Nat
      BY <1>1, <1>5 DEF UserNeeds, IsType
    <2>2. f.type.base \in Names(UserTypes(ns))
      BY <1>3, <2>1
    <2>3. CASE n # <<"codec", f.type.base>>
      <3>1. n \in {<<"type", f.type.base>>, <<"name", f.type.base>>, <<"arrayCodec", f.type.base>>}
        BY <1>5, <2>3 DEF UserNeeds
      <3>2. n \in AllKnown(ns)
        BY <2>2, <3>1, Known
      <3>3. n \notin All("codec", Range(ns.structs))
        BY <3>1, InAll
      <3> QED BY <3>2, <3>3, Known
    <2>4. CASE n = <<"codec", f.type.base>>
      <3>1. f.type.dims = 0
        BY <1>5, <2>1, <2>4 DEF UserNeeds
      <3>2. CASE f.type.base \in Names(Range(ns.enums))
        BY <2>4, <3>2, Known
      <3>3. CASE \E j \in DOMAIN ns.structs : f.type.base = ns.structs[j].name
        BY <1>2, <2>4, <3>1, <3>3
      <3> QED BY <1>1, <2>1, <3>2, <3>3
    <2> QED BY <2>3, <2>4
  <1>6. Finds(Pieces(ns.structs, StructDef), NamesKnown(ns))
    BY <1>4, StructPieces
  <1>7. ASSUME NEW i \in DOMAIN ns.structs, NEW n \in StructCodec(ns.structs[i]).needs
        PROVE  n \in ArraysKnown(ns) \/ Before("codec", i, n)
    <2>1. PICK f \in Range(ns.structs[i].fields) : n \in UseNeeds(f.type)
      BY <1>7 DEF StructCodec, Piece
    <2> QED BY <1>1, <1>5, <2>1
  <1>8. Finds(Pieces(ns.structs, StructCodec), ArraysKnown(ns))
    BY <1>7, StructPieces
  <1> QED BY <1>6, <1>8

\* Nothing is defined by a service.
LEMMA ServicesFind ==
  ASSUME NEW ns, IsNamespace(ns), NEW S
  PROVE  Finds(Pieces(ns.services, ServicePieces), S) <=>
           \A d \in Range(ns.services) : MemberNeeds(d) \subseteq S
  <1> DEFINE f == Pieces(ns.services, ServicePieces)
  <1>1. DOMAIN f = DOMAIN ns.services /\ \A i \in DOMAIN ns.services : f[i] = ServicePieces(ns.services[i])
    BY PiecesMapped DEF MadeOf, IsNamespace
  <1>2. \A d : ServicePieces(d).defines = {} /\ ServicePieces(d).needs = MemberNeeds(d)
    BY DEF ServicePieces, Piece
  <1> HIDE DEF f
  <1>3. Finds(f, S) <=> \A i \in DOMAIN ns.services : MemberNeeds(ns.services[i]) \subseteq S
    BY <1>1, <1>2 DEF Finds
  <1> QED BY <1>3 DEF f, Range

\* Classes find their bases only behind these.
LEMMA ClassesFind ==
  ASSUME NEW ns, IsNamespace(ns), Resolve(ns)
  PROVE  Finds(Pieces(ns.classes, ClassPieces), AllKnown(ns)) <=>
           ClassOrder(ns) /\ \A d \in Range(ns.classes) : Supported(ns, d)
  <1> DEFINE f == Pieces(ns.classes, ClassPieces)
             S == AllKnown(ns)
             Before(i, n) == \E j \in DOMAIN ns.classes : j < i /\ n = <<"base", ns.classes[j].name>>
  <1>1. DOMAIN f = DOMAIN ns.classes /\ \A i \in DOMAIN ns.classes : f[i] = ClassPieces(ns.classes[i])
    BY PiecesMapped DEF MadeOf, IsNamespace
  <1>2. \A d : /\ ClassPieces(d).defines = {<<"base", d.name>>}
               /\ \A n : n \in ClassPieces(d).needs <=>
                           n \in MemberNeeds(d) \/ (HasBase(d) /\ n = <<"base", d.base>>)
    BY DEF ClassPieces, Piece, HasBase
  <1>3. \A i \in DOMAIN ns.classes : ns.classes[i] \in Range(ns.classes) /\ ns.classes[i] \in Definitions(ns)
    BY RegisteredVector DEF Range
  <1>4. Finds(f, S) <=> \A i \in DOMAIN ns.classes :
                          /\ \A n \in MemberNeeds(ns.classes[i]) : n \in S \/ Before(i, n)
                          /\ HasBase(ns.classes[i]) => Before(i, <<"base", ns.classes[i].base>>)
    <2> HIDE DEF f
    <2>1. Finds(f, S) <=> \A i \in DOMAIN ns.classes : \A n \in f[i].needs :
                            n \in S \/ \E j \in DOMAIN ns.classes : j < i /\ n \in f[j].defines
      BY <1>1 DEF Finds
    <2>2. \A j \in DOMAIN ns.classes : \A n : n \in f[j].defines <=> n = <<"base", ns.classes[j].name>>
      BY <1>1, <1>2
    <2>3. Finds(f, S) <=> \A i \in DOMAIN ns.classes : \A n \in ClassPieces(ns.classes[i]).needs :
                            n \in S \/ Before(i, n)
      BY <1>1, <2>1, <2>2
    <2>4. \A i : <<"base", ns.classes[i].base>> \notin S
      BY Known
    <2> HIDE DEF S, Before
    <2> QED BY <1>2, <2>3, <2>4
  <1>5. ASSUME Finds(f, S)
        PROVE  ClassOrder(ns) /\ \A d \in Range(ns.classes) : Supported(ns, d)
    <2>1. ASSUME NEW i \in DOMAIN ns.classes, NEW j \in DOMAIN ns.classes,
                 ns.classes[i].base = ns.classes[j].name
          PROVE  j < i
      <3>1. IsName(ns.classes[j].name)
        BY <1>3 DEF IsNamespace
      <3>2. HasBase(ns.classes[i])
        BY <2>1, <3>1, Zenon DEF IsName, HasBase
      <3>3. PICK k \in DOMAIN ns.classes : k < i /\ <<"base", ns.classes[i].base>> = <<"base", ns.classes[k].name>>
        BY <1>4, <1>5, <3>2
      <3>4. ns.classes[k].name = ns.classes[j].name
        BY <2>1, <3>3
      <3>5. k = j
        BY <3>4, PlacedOnce DEF NoDuplicates
      <3> QED BY <3>3, <3>5
    <2>2. ASSUME NEW i \in DOMAIN ns.classes
          PROVE  Supported(ns, ns.classes[i])
      <3> DEFINE T == AllKnown(ns) \cup All("base", Range(ns.classes))
      <3>1. KnownIn(ns, T)
        BY DEF KnownIn
      <3>2. MemberNeeds(ns.classes[i]) \subseteq T
        <4>1. ASSUME NEW n \in MemberNeeds(ns.classes[i])  PROVE  n \in T
          <5>1. CASE n \in S
            BY <5>1
          <5>2. CASE Before(i, n)
            BY <1>3, <5>2 DEF All
          <5> QED BY <1>4, <1>5, <5>1, <5>2
        <4> QED BY <4>1
      <3> HIDE DEF T
      <3> QED BY <1>3, <3>1, <3>2, MembersKnown
    <2> QED BY <2>1, <2>2 DEF ClassOrder, Range
  <1>6. ASSUME ClassOrder(ns), \A d \in Range(ns.classes) : Supported(ns, d)
        PROVE  Finds(f, S)
    <2>1. ASSUME NEW i \in DOMAIN ns.classes  PROVE  MemberNeeds(ns.classes[i]) \subseteq S
      <3>1. KnownIn(ns, AllKnown(ns))
        BY DEF KnownIn
      <3> QED BY <1>3, <1>6, <3>1, MembersKnown
    <2>2. ASSUME NEW i \in DOMAIN ns.classes, HasBase(ns.classes[i])
          PROVE  Before(i, <<"base", ns.classes[i].base>>)
      <3>1. PICK c \in Range(ns.classes) : c.name = ns.classes[i].base
        BY <1>3, <2>2, BaseIsClass
      <3>2. PICK j \in DOMAIN ns.classes : ns.classes[j] = c
        BY DEF Range
      <3>3. j < i
        BY <1>6, <3>1, <3>2 DEF ClassOrder
      <3> QED BY <3>1, <3>2, <3>3
    <2> HIDE DEF f, S, Before
    <2> QED BY <1>4, <2>1, <2>2
  <1> QED BY <1>5, <1>6

LEMMA Three ==
  ASSUME NEW ns, IsNamespace(ns)
  PROVE  /\ Range(ns.structs \o ns.services) = Range(ns.structs) \cup Range(ns.services)
         /\ Range(ns.structs \o ns.services \o ns.classes)
              = Range(ns.structs) \cup Range(ns.services) \cup Range(ns.classes)
         /\ Range(ns.structs) \cup Range(ns.services) \subseteq Definitions(ns)
  <1> DEFINE a == ns.structs \o ns.services
  <1>1. IsVector(a) /\ Range(a) = Range(ns.structs) \cup Range(ns.services)
    BY Concat DEF IsNamespace
  <1>2. Range(a \o ns.classes) = Range(a) \cup Range(ns.classes)
    <2> HIDE DEF a
    <2> QED BY <1>1, Concat DEF IsNamespace
  <1> QED BY <1>1, <1>2, RegisteredVector

\* When the one header compiles.
LEMMA HeaderExactly ==
  ASSUME NEW ns, IsNamespace(ns), Resolve(ns)
  PROVE  Compiles(GenerateHeader(ns)) <=>
           /\ InOrder(ns)
           /\ \A d \in Range(ns.structs \o ns.services \o ns.classes) : Supported(ns, d)
  <1>1. InOrder(ns) <=> StructOrder(ns) /\ ClassOrder(ns)
    BY DEF InOrder, StructOrder, ClassOrder
  <1>2. /\ Finds(Pieces(ns.structs, StructDef), NamesKnown(ns))
        /\ Finds(Pieces(ns.structs, StructCodec), ArraysKnown(ns))
        <=> StructOrder(ns) /\ \A d \in Range(ns.structs) : Supported(ns, d)
    BY OrderNeeded, StructsSupported, StructsFound
  <1>3. Finds(Pieces(ns.services, ServicePieces), AllKnown(ns)) <=>
          \A d \in Range(ns.services) : Supported(ns, d)
    <2>1. KnownIn(ns, AllKnown(ns))
      BY DEF KnownIn
    <2> QED BY <2>1, ServicesFind, MembersKnown, Three
  <1> QED BY <1>1, <1>2, <1>3, ClassesFind, HeaderParts, Three

\* When the split headers do too.
LEMMA SplitExactly ==
  ASSUME NEW ns, IsNamespace(ns), Resolve(ns), Compiles(GenerateHeader(ns))
  PROVE  (\A d \in Range(ns.structs \o ns.services) : ~HasStructArray(ns, d)) <=>
           /\ Compiles(GenerateWireImpl(ns))
           /\ Compiles(GenerateClientHeader(ns)) /\ Compiles(GenerateServerHeader(ns))
  <1>1. \A d \in Range(ns.structs) \cup Range(ns.services) : d \in Definitions(ns) /\ Supported(ns, d)
    BY HeaderExactly, Three
  <1>2. \A d \in Range(ns.structs) \cup Range(ns.services) :
          MemberNeeds(d) \subseteq SplitKnown(ns) <=> ~HasStructArray(ns, d)
    BY <1>1, MembersSplit
  <1>3. Finds(Pieces(ns.structs, StructDef), NamesKnown(ns))
    BY HeaderParts
  <1>4. Finds(Pieces(ns.structs, StructCodec), SplitKnown(ns)) <=>
          \A d \in Range(ns.structs) : MemberNeeds(d) \subseteq SplitKnown(ns)
    <2>1. \A d \in Range(ns.structs) : StructCodec(d).needs = MemberNeeds(d)
      BY StructMembers
    <2>2. \A j \in DOMAIN ns.structs : <<"codec", ns.structs[j].name>> \in SplitKnown(ns)
      BY StructPieces DEF SplitKnown, All
    <2>3. Finds(Pieces(ns.structs, StructCodec), SplitKnown(ns)) <=>
            \A i \in DOMAIN ns.structs : StructCodec(ns.structs[i]).needs \subseteq SplitKnown(ns)
      <3>1. Finds(Pieces(ns.structs, StructCodec), SplitKnown(ns)) <=>
              \A i \in DOMAIN ns.structs : \A n \in StructCodec(ns.structs[i]).needs :
                n \in SplitKnown(ns)
                  \/ \E j \in DOMAIN ns.structs : j < i /\ n = <<"codec", ns.structs[j].name>>
        BY StructPieces
      <3> QED BY <2>2, <3>1
    <2>4. \A i \in DOMAIN ns.structs : StructCodec(ns.structs[i]).needs = MemberNeeds(ns.structs[i])
      BY <2>1, StructPieces
    <2> QED BY <2>3, <2>4 DEF Range
  <1> QED BY <1>2, <1>3, <1>4, ServicesFind, SplitParts, Three

-----------------------------------------------------------------------------
(* The inductive invariant                                                 *)

\* What a service's implementation file declares when all is done.
Wanted(d) == {Declaration(m) : m \in Range(d.methods)}

IsImpl(c) ==
  /\ c = [methods |-> c.methods, reports |-> c.reports] /\ IsVector(c.reports)
  /\ OneName(c.methods)
  /\ \A x \in c.methods : x = [name |-> x.name, result |-> x.result, params |-> x.params]

\* An implementation is up to date, or its last report says what it lacks.
Settled(d, c) ==
  \/ /\ c.methods = Wanted(d)
     /\ c.reports # <<>> =>
          Last(c.reports).methods.removed \cap Names(Range(d.methods)) = {}
  \/ c.reports # <<>> /\ Last(c.reports).methods = Compare(d, c.methods)

\* A file that is on the disk.
IsFile(file, f) ==
  \/ f = Cut
  \/ file[1] = "generated" /\ f.is = "generated" /\ f = Generated(f.defs)
  \/ file[1] = "impl" /\ f.is = "impl" /\ f = Impl(f.content) /\ IsImpl(f.content)

Types ==
  /\ project \in Projects /\ version \in 1..Len(project.texts)
  /\ mode \in {"single", "split", "python", "scaffold"}
  /\ pass \in {"idle", "parse", "resolve", "write"}
  /\ IsNamespace(ast)

Disk == \A file \in DOMAIN outputs : IsFile(file, outputs[file])

\* An output of this run, written from its definitions.
Written(file) ==
  /\ file \in DOMAIN outputs
  /\ \/ outputs[file] = Cut
     \/ IF mode = "scaffold"
          THEN outputs[file].is = "impl" /\ Settled(ServiceOf(file), outputs[file].content)
          ELSE outputs[file] = Generated(ast)

\* The definitions are those of a text the developer saved.
Saved == \E i \in 1..version : ast = Parsed(project.texts[i]).ns

Running ==
  /\ pass # "idle" => status = "none" /\ ~followed
  /\ pass \in {"resolve", "write"} => Saved
  /\ pass = "write" =>
       /\ Resolve(ast) /\ IsVector(todo) /\ Range(todo) \subseteq Range(OutputsOf(mode, ast))
       /\ \A file \in Range(OutputsOf(mode, ast)) \ Range(todo) : Written(file)

Done ==
  status = "ok" =>
    /\ pass = "idle" /\ Saved /\ Resolve(ast)
    /\ \A file \in Range(OutputsOf(mode, ast)) : Written(file)

Obeyed ==
  followed =>
    /\ Scaffolded
    /\ \A d \in Range(ast.services) :
         /\ ImplFile(d) \in DOMAIN outputs /\ outputs[ImplFile(d)] # Cut
         /\ outputs[ImplFile(d)].content.methods = Wanted(d)

Inv == Types /\ Disk /\ Running /\ Done /\ Obeyed

-----------------------------------------------------------------------------
(* Implementation files                                                    *)

LEMMA TheOne ==
  ASSUME NEW xs, OneName(xs), NEW x \in xs
  PROVE  The(xs, x.name) = x
  BY DEF OneName, The

LEMMA MethodsOnce ==
  ASSUME NEW d, NoDuplicates(d.methods)
  PROVE  OneName(Range(d.methods)) /\ OneName(Wanted(d))
  <1>1. OneName(Range(d.methods))
    BY DEF OneName, NoDuplicates, Range
  <1>2. \A m : Declaration(m).name = m.name
    BY DEF Declaration
  <1>3. OneName(Wanted(d))
    BY <1>1, <1>2 DEF OneName, Wanted
  <1> QED BY <1>1, <1>3

LEMMA WantedNames ==
  ASSUME NEW d
  PROVE  /\ Names(Wanted(d)) = Names(Range(d.methods))
         /\ \A x \in Wanted(d) : x = [name |-> x.name, result |-> x.result, params |-> x.params]
  <1>1. \A m : Declaration(m).name = m.name
    BY DEF Declaration
  <1>2. Names(Wanted(d)) = Names(Range(d.methods))
    BY <1>1 DEF Names, Wanted
  <1>3. \A m : Declaration(m) = [name |-> Declaration(m).name, result |-> Declaration(m).result,
                                params |-> Declaration(m).params]
    BY DEF Declaration
  <1>4. \A x \in Wanted(d) : x = [name |-> x.name, result |-> x.result, params |-> x.params]
    BY <1>3 DEF Wanted
  <1> QED BY <1>2, <1>4

\* A declaration that compare() finds unchanged is the one wanted.
LEMMA SameDeclaration ==
  ASSUME NEW m, NEW x, x.name = m.name,
         x = [name |-> x.name, result |-> x.result, params |-> x.params],
         NormalizeSignature(Declaration(m)) = NormalizeSignature(x)
  PROVE  x = Declaration(m)
  <1>1. <<Declaration(m).result, Declaration(m).params>> = <<x.result, x.params>>
    BY DEF NormalizeSignature
  <1>2. Declaration(m).result = x.result /\ Declaration(m).params = x.params
    BY <1>1
  <1>3. Declaration(m) = [name |-> m.name, result |-> Declaration(m).result,
                          params |-> Declaration(m).params]
    BY DEF Declaration
  <1> QED BY <1>2, <1>3, Zenon

LEMMA Compared ==
  ASSUME NEW d, NEW xs
  PROVE  /\ Compare(d, xs).new = Names(Range(d.methods)) \ Names(xs)
         /\ Compare(d, xs).removed = Names(xs) \ Names(Range(d.methods))
         /\ Compare(d, xs).modified =
              {n \in Names(Range(d.methods)) \cap Names(xs) :
                 NormalizeSignature(Declaration(The(Range(d.methods), n))) # NormalizeSignature(The(xs, n))}
  BY DEF Compare, Difference

\* Who does what a report says has what is wanted.
LEMMA Applied ==
  ASSUME NEW d, NoDuplicates(d.methods), NEW c, IsImpl(c), Settled(d, c), c.reports # <<>>
  PROVE  /\ Apply(c, d).methods = Wanted(d)
         /\ Apply(c, d).reports = c.reports
         /\ IsImpl(Apply(c, d)) /\ Settled(d, Apply(c, d))
  <1> DEFINE r == Last(c.reports).methods
             gone == r.removed \cup r.modified
             kept == {x \in c.methods : x.name \notin r.removed \cup r.modified}
             asked == {m \in Range(d.methods) : m.name \in r.new \cup r.modified}
             all == kept \cup {Declaration(m) : m \in asked}
  <1>1. Apply(c, d) = [c EXCEPT !.methods = all]
    BY DEF Apply
  <1>2. OneName(Range(d.methods)) /\ OneName(c.methods) /\ \A m : Declaration(m).name = m.name
    BY MethodsOnce DEF IsImpl, Declaration
  <1>3. ASSUME c.methods = Wanted(d), r.removed \cap Names(Range(d.methods)) = {}
        PROVE  all = Wanted(d)
    <2>1. kept \subseteq Wanted(d) /\ \A m \in asked : Declaration(m) \in Wanted(d)
      BY <1>3 DEF Wanted
    <2>2. ASSUME NEW m \in Range(d.methods)  PROVE  Declaration(m) \in all
      <3>1. Declaration(m) \in c.methods /\ m.name \notin r.removed
        BY <1>3 DEF Wanted, Names
      <3>2. CASE m.name \in r.modified
        BY <3>2
      <3>3. CASE m.name \notin r.modified
        BY <1>2, <3>1, <3>3
      <3> QED BY <3>2, <3>3
    <2> HIDE DEF kept, asked
    <2>3. all \subseteq Wanted(d)
      BY <2>1
    <2>4. Wanted(d) \subseteq all
      BY <2>2 DEF Wanted
    <2> QED BY <2>3, <2>4
  <1>4. ASSUME r = Compare(d, c.methods)
        PROVE  all = Wanted(d)
    <2>1. ASSUME NEW n, n \in Names(Range(d.methods)), n \in Names(c.methods), n \notin r.modified
          PROVE  The(c.methods, n) = Declaration(The(Range(d.methods), n))
      <3>1. NormalizeSignature(Declaration(The(Range(d.methods), n))) = NormalizeSignature(The(c.methods, n))
        BY <1>4, <2>1, Compared
      <3>2. PICK m \in Range(d.methods), x \in c.methods : m.name = n /\ x.name = n
        BY <2>1 DEF Names
      <3>3. The(Range(d.methods), n) = m /\ The(c.methods, n) = x
        BY <1>2, <3>2, TheOne
      <3>4. x = [name |-> x.name, result |-> x.result, params |-> x.params]
        BY DEF IsImpl
      <3>5. x.name = m.name
        BY <3>2
      <3> QED BY <3>1, <3>3, <3>4, <3>5, SameDeclaration
    <2>2. ASSUME NEW x \in kept  PROVE  x \in Wanted(d)
      <3>1. x \in c.methods /\ x.name \notin r.removed /\ x.name \notin r.modified
        OBVIOUS
      <3>2. x.name \in Names(c.methods) /\ x.name \in Names(Range(d.methods))
        BY <1>4, <3>1, Compared DEF Names
      <3>3. PICK m \in Range(d.methods) : m.name = x.name
        BY <3>2 DEF Names
      <3>4. The(Range(d.methods), x.name) = m
        BY <1>2, <3>3, TheOne
      <3>5. The(c.methods, x.name) = x
        BY <1>2, <3>1, TheOne
      <3>6. x = Declaration(m)
        BY <2>1, <3>1, <3>2, <3>4, <3>5
      <3> QED BY <3>6 DEF Wanted
    <2>3. ASSUME NEW m \in Range(d.methods)  PROVE  Declaration(m) \in all
      <3>1. m.name \in Names(Range(d.methods))
        BY DEF Names
      <3>2. CASE m.name \in r.new \cup r.modified
        BY <3>2
      <3>3. CASE m.name \notin r.new \cup r.modified
        <4>1. m.name \in Names(c.methods) /\ m.name \notin r.removed
          BY <1>4, <3>1, <3>3, Compared
        <4>2. PICK x \in c.methods : x.name = m.name
          BY <4>1 DEF Names
        <4>3. The(c.methods, m.name) = x
          BY <1>2, <4>2, TheOne
        <4>4. The(Range(d.methods), m.name) = m
          BY <1>2, TheOne
        <4>5. x = Declaration(m)
          BY <2>1, <3>1, <3>3, <4>1, <4>3, <4>4
        <4>6. x \in kept
          BY <3>3, <4>1, <4>2
        <4> HIDE DEF kept, asked
        <4> QED BY <4>5, <4>6
      <3> QED BY <3>2, <3>3
    <2>4. \A m \in asked : Declaration(m) \in Wanted(d)
      BY DEF Wanted
    <2> HIDE DEF kept, asked
    <2>5. all \subseteq Wanted(d)
      BY <2>2, <2>4
    <2>6. Wanted(d) \subseteq all
      BY <2>3 DEF Wanted
    <2> QED BY <2>5, <2>6
  <1>5. all = Wanted(d)
    BY <1>3, <1>4 DEF Settled
  <1> HIDE DEF all
  <1>6. Apply(c, d) = [methods |-> Wanted(d), reports |-> c.reports]
    BY <1>1, <1>5 DEF IsImpl
  <1>7. IsImpl(Apply(c, d))
    BY <1>6, MethodsOnce, WantedNames DEF IsImpl
  <1>8. r.removed \cap Names(Range(d.methods)) = {}
    BY Compared DEF Settled
  <1>9. Settled(d, Apply(c, d))
    BY <1>6, <1>8 DEF Settled
  <1> QED BY <1>6, <1>7, <1>9

\* What the scaffold writes keeps what it found, and is settled.
LEMMA Scaffolding ==
  ASSUME NEW ns, NEW d, NoDuplicates(d.methods), NEW header,
         NEW impl, impl = <<>> \/ (impl = <<impl[1]>> /\ IsImpl(impl[1]))
  PROVE  LET c == GenerateScaffold(ns, d, impl, header)
         IN /\ IsImpl(c) /\ Settled(d, c)
            /\ impl # <<>> =>
                 c.methods = impl[1].methods /\ IsPrefix(impl[1].reports, c.reports)
  <1> DEFINE c == GenerateScaffold(ns, d, impl, header)
  <1>1. CASE impl = <<>>
    <2>1. c = [methods |-> Wanted(d), reports |-> <<>>]
      BY <1>1 DEF GenerateScaffold, GenerateSkeleton, Wanted
    <2>2. IsVector(<<>>)
      BY EmptySeq DEF IsVector
    <2> HIDE DEF c
    <2>3. IsImpl(c)
      BY <2>1, <2>2, MethodsOnce, WantedNames DEF IsImpl
    <2>4. Settled(d, c)
      BY <2>1 DEF Settled
    <2> QED BY <1>1, <2>3, <2>4 DEF c
  <1>2. CASE impl # <<>>
    <2> DEFINE old == impl[1]
               r == SyncReport(ns, d, old, header)
    <2>1. IsImpl(old)
      BY <1>2
    <2>2. c = [old EXCEPT !.reports = Append(old.reports, r)]
      BY <1>2 DEF GenerateScaffold
    <2>3. r.methods = Compare(d, old.methods)
      BY DEF SyncReport, ParseExistingImpl
    <2> HIDE DEF c, old, r
    <2>4. c = [methods |-> old.methods, reports |-> Append(old.reports, r)]
      BY <2>1, <2>2 DEF IsImpl
    <2> DEFINE S == Range(old.reports) \cup {r}
    <2>5. old.reports \in Seq(S)
      BY <2>1, SeqMonotonic DEF IsImpl, IsVector
    <2>6. /\ c.reports \in Seq(S) /\ c.reports # <<>> /\ Len(c.reports) = Len(old.reports) + 1
          /\ \A i \in 1..Len(old.reports) : c.reports[i] = old.reports[i]
          /\ c.reports[Len(old.reports) + 1] = r
      BY <2>4, <2>5, AppendProperties
    <2>7. IsVector(c.reports)
      BY <2>6, SeqOfRange DEF IsVector
    <2>8. IsImpl(c)
      BY <2>1, <2>4, <2>7 DEF IsImpl
    <2>9. Settled(d, c)
      BY <2>3, <2>4, <2>6 DEF Settled, Last
    <2>10. IsPrefix(old.reports, c.reports)
      <3>1. Len(old.reports) \in Nat /\ Len(old.reports) <= Len(c.reports)
        BY <2>5, <2>6, LenProperties
      <3>2. \A i \in 1..Len(old.reports) : c.reports[i] = old.reports[i]
        BY <2>6
      <3>3. SubSeq(old.reports, 1, Len(old.reports)) = SubSeq(c.reports, 1, Len(old.reports))
        BY <2>5, <2>6, <3>1, <3>2
      <3> QED BY <3>1, <3>3 DEF IsPrefix
    <2> QED BY <2>4, <2>8, <2>9, <2>10 DEF c, old
  <1> QED BY <1>1, <1>2

-----------------------------------------------------------------------------
(* The run                                                                 *)

LEMMA EmptyNamespace == IsNamespace(Empty)
  <1>1. IsVector(<<>>) /\ Range(<<>>) = {}
    BY EmptySeq DEF IsVector, Range
  <1>2. <<>> \o <<>> = <<>>
    BY ConcatEmptySeq, EmptySeq
  <1>3. Definitions(Empty) = {}
    BY <1>1, <1>2 DEF Empty, Definitions, Registered
  <1> QED BY <1>1, <1>3 DEF IsNamespace, Empty

\* The files of a mode, by their names.
LEMMA OutputNames ==
  ASSUME NEW ns, IsNamespace(ns), NEW md \in {"single", "split", "python", "scaffold"}
  PROVE  /\ IsVector(OutputsOf(md, ns))
         /\ md # "scaffold" => \A file \in Range(OutputsOf(md, ns)) : file[1] = "generated"
         /\ md = "scaffold" =>
              /\ \A file \in Range(OutputsOf(md, ns)) :
                   file[1] = "impl" /\ \E d \in Range(ns.services) : file = ImplFile(d)
              /\ \A d \in Range(ns.services) : ImplFile(d) \in Range(OutputsOf(md, ns))
  <1>1. CASE md = "single"
    BY <1>1 DEF OutputsOf, IsVector, Range, Output
  <1>2. CASE md = "split"
    BY <1>2 DEF OutputsOf, IsVector, Range, Output
  <1>3. CASE md = "python"
    BY <1>3 DEF OutputsOf, IsVector, Range, Output
  <1>4. CASE md = "scaffold"
    <2> DEFINE f == [i \in DOMAIN ns.services |-> ImplFile(ns.services[i])]
    <2>1. OutputsOf(md, ns) = f
      BY <1>4 DEF OutputsOf
    <2>2. IsVector(f)
      <3>1. IsVector(ns.services) /\ f = [i \in DOMAIN ns.services |-> f[i]]
        BY DEF IsNamespace
      <3> HIDE DEF f
      <3> QED BY <3>1, MappedVector
    <2>3. \A file \in Range(f) : \E d \in Range(ns.services) : file = ImplFile(d)
      BY DEF Range
    <2>4. \A d \in Range(ns.services) : ImplFile(d) \in Range(f)
      BY DEF Range
    <2>5. \A d : ImplFile(d)[1] = "impl"
      BY DEF ImplFile
    <2> HIDE DEF f
    <2> QED BY <1>4, <2>1, <2>2, <2>3, <2>4, <2>5
  <1> QED BY <1>1, <1>2, <1>3, <1>4

\* A service is known by its file.
LEMMA ServiceKnown ==
  ASSUME IsNamespace(ast), Resolve(ast), NEW d \in Range(ast.services)
  PROVE  ServiceOf(ImplFile(d)) = d
  <1>1. OneName(Range(ast.services))
    BY TypesOnce, RegisteredVector DEF OneName
  <1>2. ImplFile(d)[2] = d.name
    BY DEF ImplFile
  <1> QED BY <1>1, <1>2 DEF ServiceOf, OneName

\* What is written over a file.
LEMMA ContentFit ==
  ASSUME Types, Disk, Running, pass = "write", todo # <<>>, NEW content \in {Content(Head(todo)), Cut}
  PROVE  LET file == Head(todo)
         IN /\ IsFile(file, content)
            /\ \/ content = Cut
               \/ IF mode = "scaffold"
                    THEN content.is = "impl" /\ Settled(ServiceOf(file), content.content)
                    ELSE content = Generated(ast)
            /\ file \in DOMAIN outputs /\ outputs[file].is = "impl" /\ content # Cut =>
                 /\ content.content.methods = outputs[file].content.methods
                 /\ IsPrefix(outputs[file].content.reports, content.content.reports)
  <1> DEFINE file == Head(todo)
  <1>1. file \in Range(OutputsOf(mode, ast)) /\ Resolve(ast) /\ IsNamespace(ast)
    <2>1. IsVector(todo) /\ Range(todo) \subseteq Range(OutputsOf(mode, ast)) /\ Resolve(ast)
      BY DEF Running
    <2>2. Head(todo) \in Range(todo)
      BY <2>1, HeadTailProperties DEF IsVector
    <2> QED BY <2>1, <2>2 DEF Types
  <1>2. mode \in {"single", "split", "python", "scaffold"}
    BY DEF Types
  <1> HIDE DEF file
  <1>3. CASE content = Cut
    BY <1>3 DEF IsFile, file
  <1>4. CASE content # Cut /\ mode # "scaffold"
    <2>1. file[1] = "generated"
      BY <1>1, <1>2, <1>4, OutputNames
    <2>2. content = Generated(ast)
      BY <1>4 DEF Content
    <2>3. IsFile(file, content)
      BY <2>1, <2>2 DEF IsFile, Generated
    <2>4. file \in DOMAIN outputs => outputs[file].is # "impl"
      BY <2>1 DEF Disk, IsFile, Cut
    <2> QED BY <1>4, <2>2, <2>3, <2>4 DEF file
  <1>5. CASE content # Cut /\ mode = "scaffold"
    <2>1. file[1] = "impl"
      BY <1>1, <1>5, OutputNames
    <2>2. PICK d \in Range(ast.services) : file = ImplFile(d)
      BY <1>1, <1>5, OutputNames
    <2>3. ServiceOf(file) = d /\ NoDuplicates(d.methods)
      BY <1>1, <2>2, ServiceKnown, MembersOnce
    <2> DEFINE impl == ImplFound(file)
               c == GenerateScaffold(ast, d, impl, HeaderFound)
    <2>4. content = Impl(c)
      BY <1>5, <2>3 DEF Content, file
    <2>5. impl = <<>> \/ (impl = <<impl[1]>> /\ IsImpl(impl[1]))
      <3>1. CASE file \notin DOMAIN outputs
        BY <3>1 DEF ImplFound, File
      <3>2. CASE file \in DOMAIN outputs /\ outputs[file] = Cut
        <4> DEFINE empty == [methods |-> {}, reports |-> <<>>]
        <4>a. File(file) = Cut /\ Cut # None
          BY <3>2 DEF File, Cut, None
        <4>1. impl = <<empty>>
          <5> HIDE DEF empty
          <5>1. ImplFound(file) = IF File(file) = None THEN <<>>
                                  ELSE <<IF File(file) = Cut THEN empty ELSE File(file).content>>
            BY DEF ImplFound, empty
          <5> QED BY <4>a, <5>1
        <4>2. IsImpl([methods |-> {}, reports |-> <<>>])
          BY EmptySeq DEF IsImpl, OneName, IsVector
        <4> HIDE DEF impl
        <4> QED BY <4>1, <4>2
      <3>3. CASE file \in DOMAIN outputs /\ outputs[file] # Cut
        <4>1. outputs[file].is = "impl" /\ IsImpl(outputs[file].content)
          BY <2>1, <3>3 DEF Disk, IsFile
        <4>2. impl = <<outputs[file].content>>
          BY <3>3, <4>1 DEF ImplFound, File, None
        <4> HIDE DEF impl
        <4> QED BY <4>1, <4>2
      <3> QED BY <3>1, <3>2, <3>3
    <2>6. file \in DOMAIN outputs /\ outputs[file].is = "impl" => impl = <<outputs[file].content>>
      BY DEF ImplFound, File, None, Cut
    <2>7. /\ IsImpl(c) /\ Settled(d, c)
          /\ impl # <<>> => c.methods = impl[1].methods /\ IsPrefix(impl[1].reports, c.reports)
      <3> HIDE DEF impl
      <3> QED BY <2>3, <2>5, Scaffolding
    <2> HIDE DEF c, impl
    <2>8. IsFile(file, content) /\ content.is = "impl" /\ content.content = c
      BY <2>1, <2>4, <2>7 DEF IsFile, Impl
    <2>9. file \in DOMAIN outputs /\ outputs[file].is = "impl" =>
            /\ c.methods = outputs[file].content.methods
            /\ IsPrefix(outputs[file].content.reports, c.reports)
      <3> SUFFICES ASSUME file \in DOMAIN outputs /\ outputs[file].is = "impl"
                   PROVE  /\ c.methods = outputs[file].content.methods
                          /\ IsPrefix(outputs[file].content.reports, c.reports)
        OBVIOUS
      <3>1. impl = <<outputs[file].content>>
        BY <2>6
      <3>2. impl # <<>> /\ impl[1] = outputs[file].content
        BY <3>1
      <3> QED BY <2>7, <3>2
    <2> QED BY <1>5, <2>3, <2>7, <2>8, <2>9 DEF file
  <1> QED BY <1>3, <1>4, <1>5

LEMMA InitInv == Init => Inv
  <1> SUFFICES ASSUME Init  PROVE  Inv
    OBVIOUS
  <1>1. IsVector(project.texts) /\ project.texts # <<>>
    BY ProjectsAssumption DEF Init
  <1>2. 1 \in 1..Len(project.texts)
    BY <1>1, EmptySeq DEF IsVector
  <1>3. Types
    BY <1>2, EmptyNamespace DEF Init, Types
  <1>4. Disk
    BY DEF Init, Disk
  <1>5. Running /\ Done /\ Obeyed
    BY DEF Init, Running, Done, Obeyed
  <1> QED BY <1>3, <1>4, <1>5 DEF Inv

\* A file that stays as it is stays written.
LEMMA StillWritten ==
  ASSUME NEW file, Written(file), mode' = mode, ast' = ast, file \in DOMAIN outputs',
         outputs'[file] = outputs[file]
  PROVE  Written(file)'
  BY DEF Written, ServiceOf

LEMMA RunInv == ASSUME Inv, NEW md \in project.modes, Run(md)  PROVE  Inv'
  <1>1. Types'
    BY EmptyNamespace, ProjectsAssumption DEF Inv, Types, Run
  <1>2. Disk'
    BY DEF Inv, Disk, Run
  <1>3. Running' /\ Done' /\ Obeyed'
    BY DEF Running, Done, Obeyed, Run
  <1> QED BY <1>1, <1>2, <1>3 DEF Inv

LEMMA ExitInv == ASSUME Inv, pass # "idle", NEW s, s # "ok", Exit(s)  PROVE  Inv'
  <1>1. Types' /\ Disk'
    BY DEF Inv, Types, Disk, Exit
  <1>2. Running' /\ Done' /\ Obeyed'
    BY DEF Inv, Running, Done, Obeyed, Exit
  <1> QED BY <1>1, <1>2 DEF Inv

LEMMA ParseInputInv == ASSUME Inv, ParseInput  PROVE  Inv'
  <1> DEFINE r == Parsed(Source)
  <1>1. pass = "parse"
    BY DEF ParseInput
  <1>2. CASE r.fail = "none"
    <2>1. /\ ast' = r.ns /\ pass' = "resolve"
          /\ UNCHANGED <<project, version, outputs, followed, mode, todo, status, runs>>
      BY <1>2 DEF ParseInput
    <2>2. Source \in Range(project.texts)
      <3>1. IsVector(project.texts) /\ version \in 1..Len(project.texts)
        BY ProjectsAssumption DEF Inv, Types
      <3> QED BY <3>1, Vectors DEF Source
    <2>3. IsNamespace(r.ns)
      BY <1>2, <2>2, ParserAssumption DEF Inv, Types
    <2>4. Types' /\ Disk'
      <3> HIDE DEF r
      <3> QED BY <2>1, <2>3 DEF Inv, Types, Disk
    <2>5. Saved'
      <3>1. version \in 1..version
        <4>1. IsVector(project.texts) /\ version \in 1..Len(project.texts)
          BY ProjectsAssumption DEF Inv, Types
        <4> QED BY <4>1, Vectors
      <3> QED BY <2>1, <3>1 DEF Saved, Source
    <2>6. Running' /\ Done' /\ Obeyed'
      BY <1>1, <2>1, <2>5 DEF Inv, Running, Done, Obeyed
    <2> QED BY <2>4, <2>6 DEF Inv
  <1>3. CASE r.fail # "none"
    <2>1. Exit("abort") \/ Exit("error")
      BY <1>3 DEF ParseInput
    <2> QED BY <1>1, <2>1, ExitInv
  <1> QED BY <1>2, <1>3

LEMMA ResolveInputInv == ASSUME Inv, ResolveInput  PROVE  Inv'
  <1>1. pass = "resolve"
    BY DEF ResolveInput
  <1>2. CASE Resolve(ast)
    <2>1. /\ pass' = "write" /\ todo' = OutputsOf(mode, ast)
          /\ UNCHANGED <<project, version, outputs, followed, mode, ast, status, runs>>
      BY <1>2 DEF ResolveInput
    <2>2. Types' /\ Disk'
      BY <2>1 DEF Inv, Types, Disk
    <2>3. IsVector(OutputsOf(mode, ast))
      BY OutputNames DEF Inv, Types
    <2>4. Saved'
      BY <1>1, <2>1 DEF Inv, Running, Saved
    <2>5. Running'
      BY <1>1, <1>2, <2>1, <2>3, <2>4 DEF Inv, Running
    <2>6. Done' /\ Obeyed'
      BY <1>1, <2>1 DEF Inv, Running, Done, Obeyed
    <2> QED BY <2>2, <2>5, <2>6 DEF Inv
  <1>3. CASE ~Resolve(ast)
    BY <1>1, <1>3, ExitInv DEF ResolveInput
  <1> QED BY <1>2, <1>3

LEMMA WriteFileInv == ASSUME Inv, WriteFile  PROVE  Inv'
  <1> DEFINE file == Head(todo)
  <1>1. pass = "write" /\ todo # <<>>
    BY DEF WriteFile
  <1>2. PICK content \in {Content(file), Cut} :
          outputs' = [f \in DOMAIN outputs \cup {file} |-> IF f = file THEN content ELSE outputs[f]]
    BY DEF WriteFile
  <1>3. /\ todo' = Tail(todo)
        /\ UNCHANGED <<project, version, followed, pass, mode, ast, status, runs>>
    BY DEF WriteFile
  <1>4. /\ IsFile(file, content)
        /\ \/ content = Cut
           \/ IF mode = "scaffold"
                THEN content.is = "impl" /\ Settled(ServiceOf(file), content.content)
                ELSE content = Generated(ast)
    BY <1>1, ContentFit DEF Inv
  <1> HIDE DEF file
  <1>5. DOMAIN outputs' = DOMAIN outputs \cup {file} /\ outputs'[file] = content
        /\ \A f \in DOMAIN outputs : f # file => outputs'[f] = outputs[f]
    BY <1>2
  <1>6. Types'
    BY <1>3 DEF Inv, Types
  <1>7. Disk'
    BY <1>4, <1>5 DEF Inv, Disk
  <1>8. /\ Resolve(ast) /\ IsVector(todo) /\ Range(todo) \subseteq Range(OutputsOf(mode, ast))
        /\ Saved /\ status = "none" /\ ~followed
        /\ \A f \in Range(OutputsOf(mode, ast)) \ Range(todo) : Written(f)
    BY <1>1 DEF Inv, Running
  <1>9. IsVector(todo') /\ Range(todo') \subseteq Range(todo) /\ Range(todo) \subseteq Range(todo') \cup {file}
    <2>1. todo \in Seq(Range(todo)) /\ todo # <<>>
      BY <1>1, <1>8 DEF IsVector
    <2>2. /\ Tail(todo) \in Seq(Range(todo)) /\ Len(Tail(todo)) = Len(todo) - 1
          /\ \A i \in 1..Len(Tail(todo)) : Tail(todo)[i] = todo[i + 1]
      BY <2>1, HeadTailProperties
    <2>3. IsVector(Tail(todo)) /\ Range(Tail(todo)) \subseteq Range(todo)
      BY <2>2, SeqOfRange, RangeOfSeq DEF IsVector
    <2>4. ASSUME NEW x \in Range(todo)  PROVE  x = Head(todo) \/ x \in Range(Tail(todo))
      <3>1. PICK i \in 1..Len(todo) : todo[i] = x
        BY <1>8, Vectors
      <3>2. CASE i = 1
        BY <2>1, <3>1, <3>2
      <3>3. CASE i # 1
        <4>1. i - 1 \in 1..Len(Tail(todo)) /\ i - 1 + 1 = i
          BY <2>1, <2>2, <3>1, <3>3, LenProperties
        <4>2. Tail(todo)[i - 1] = x
          BY <2>2, <3>1, <4>1
        <4> QED BY <2>3, <4>1, <4>2, Vectors
      <3> QED BY <3>2, <3>3
    <2> QED BY <1>3, <2>3, <2>4 DEF file
  <1>10. ASSUME NEW f \in Range(OutputsOf(mode, ast)), f \notin Range(todo')
         PROVE  Written(f)'
    <2>1. CASE f = file
      BY <1>3, <1>4, <1>5, <2>1 DEF Written, ServiceOf
    <2>2. CASE f # file
      <3>1. Written(f)
        BY <1>8, <1>9, <1>10, <2>2
      <3>2. f \in DOMAIN outputs' /\ outputs'[f] = outputs[f]
        BY <1>5, <2>2, <3>1 DEF Written
      <3> QED BY <1>3, <3>1, <3>2, StillWritten
    <2> QED BY <2>1, <2>2
  <1>11. Saved'
    BY <1>3, <1>8 DEF Saved
  <1>12. Running'
    BY <1>1, <1>3, <1>8, <1>9, <1>10, <1>11 DEF Running
  <1>13. Done' /\ Obeyed'
    BY <1>3, <1>8 DEF Done, Obeyed
  <1> QED BY <1>6, <1>7, <1>12, <1>13 DEF Inv

LEMMA FinishInv == ASSUME Inv, Finish  PROVE  Inv'
  <1>1. pass = "write" /\ todo = <<>> /\ Exit("ok")
    BY DEF Finish
  <1>2. /\ pass' = "idle" /\ status' = "ok"
        /\ UNCHANGED <<project, version, outputs, followed, mode, ast, todo, runs>>
    BY <1>1 DEF Exit
  <1>3. Types' /\ Disk'
    BY <1>2 DEF Inv, Types, Disk
  <1>4. Range(todo) = {}
    BY <1>1 DEF Range
  <1>5. /\ Resolve(ast) /\ Saved /\ ~followed
        /\ \A file \in Range(OutputsOf(mode, ast)) : Written(file)
    BY <1>1, <1>4 DEF Inv, Running
  <1>6. Saved' /\ \A file \in Range(OutputsOf(mode, ast)) : Written(file)'
    BY <1>2, <1>5 DEF Saved, Written, ServiceOf
  <1>7. Running' /\ Obeyed'
    BY <1>2, <1>5 DEF Running, Obeyed
  <1>8. Done'
    BY <1>2, <1>5, <1>6 DEF Done
  <1> QED BY <1>3, <1>7, <1>8 DEF Inv

LEMMA EditInv == ASSUME Inv, Edit  PROVE  Inv'
  <1>1. /\ pass = "idle" /\ version < Len(project.texts) /\ version' = version + 1 /\ ~followed'
        /\ UNCHANGED <<project, outputs, pass, mode, ast, todo, status, runs>>
    BY DEF Edit
  <1>2. IsVector(project.texts) /\ version \in 1..Len(project.texts) /\ Len(project.texts) \in Nat
    BY ProjectsAssumption, Vectors DEF Inv, Types
  <1>3. Types' /\ Disk'
    BY <1>1, <1>2 DEF Inv, Types, Disk
  <1>4. Running' /\ Obeyed'
    BY <1>1 DEF Running, Obeyed
  <1>5. Saved => Saved'
    <2>1. \A i \in 1..version : i \in 1..version'
      BY <1>1, <1>2
    <2> QED BY <1>1, <2>1 DEF Saved
  <1>6. \A file : Written(file) => Written(file)'
    BY <1>1 DEF Written, ServiceOf
  <1>7. Done'
    BY <1>1, <1>5, <1>6 DEF Inv, Done
  <1> QED BY <1>3, <1>4, <1>7 DEF Inv

LEMMA FollowInv == ASSUME Inv, Follow  PROVE  Inv'
  <1> DEFINE files == Range(OutputsOf(mode, ast))
  <1>1. /\ Scaffolded /\ \A d \in Range(ast.services) : File(ImplFile(d)) # Cut
        /\ followed' = TRUE
        /\ UNCHANGED <<project, version, pass, mode, ast, todo, status, runs>>
        /\ outputs' = [file \in DOMAIN outputs |->
              IF file \in files /\ outputs[file].content.reports # <<>>
                THEN Impl(Apply(outputs[file].content, ServiceOf(file))) ELSE outputs[file]]
    BY DEF Follow
  <1>2. /\ mode = "scaffold" /\ Saved /\ Resolve(ast) /\ IsNamespace(ast)
        /\ \A file \in files : Written(file)
    BY <1>1 DEF Inv, Done, Scaffolded, Types
  <1>3. DOMAIN outputs' = DOMAIN outputs
    BY <1>1
  <1>4. ASSUME NEW d \in Range(ast.services)
        PROVE  LET file == ImplFile(d)
                   new == outputs'[file]
               IN /\ file \in DOMAIN outputs /\ file \in files /\ ServiceOf(file) = d
                  /\ file[1] = "impl" /\ new.is = "impl" /\ new = Impl(new.content)
                  /\ IsImpl(new.content) /\ Settled(d, new.content)
                  /\ new.content.methods = Wanted(d)
    <2> DEFINE file == ImplFile(d)
               c == outputs[file].content
    <2>1. file \in files /\ ServiceOf(file) = d /\ file[1] = "impl"
      BY <1>2, OutputNames, ServiceKnown DEF ImplFile
    <2>2. file \in DOMAIN outputs /\ outputs[file] # Cut
      BY <1>1, <1>2, <2>1 DEF Written, File
    <2>3. outputs[file].is = "impl" /\ outputs[file] = Impl(c) /\ IsImpl(c)
      BY <2>1, <2>2 DEF Inv, Disk, IsFile
    <2>4. Settled(d, c)
      BY <1>2, <2>1, <2>2 DEF Written
    <2>5. NoDuplicates(d.methods)
      BY <1>2, MembersOnce
    <2>6. CASE c.reports # <<>>
      <3>1. outputs'[file] = Impl(Apply(c, d))
        BY <1>1, <2>1, <2>2, <2>6
      <3>2. /\ Apply(c, d).methods = Wanted(d) /\ IsImpl(Apply(c, d)) /\ Settled(d, Apply(c, d))
        BY <2>3, <2>4, <2>5, <2>6, Applied
      <3> QED BY <2>1, <2>2, <3>1, <3>2 DEF Impl
    <2>7. CASE c.reports = <<>>
      <3>1. outputs'[file] = outputs[file]
        BY <1>1, <2>2, <2>7
      <3>2. c.methods = Wanted(d)
        BY <2>4, <2>7 DEF Settled
      <3> QED BY <2>1, <2>2, <2>3, <2>4, <3>1, <3>2
    <2> QED BY <2>6, <2>7
  <1>5. ASSUME NEW file \in files
        PROVE  \E d \in Range(ast.services) : file = ImplFile(d)
    BY <1>2, OutputNames
  <1>6. \A file \in DOMAIN outputs : file \notin files => outputs'[file] = outputs[file]
    BY <1>1
  <1> HIDE DEF files
  <1>7. Types'
    BY <1>1 DEF Inv, Types
  <1>8. Disk'
    <2>1. ASSUME NEW file \in DOMAIN outputs  PROVE  IsFile(file, outputs'[file])
      <3>1. CASE file \in files
        BY <1>4, <1>5, <3>1 DEF IsFile
      <3>2. CASE file \notin files
        BY <1>6, <3>2 DEF Inv, Disk
      <3> QED BY <3>1, <3>2
    <2> QED BY <1>3, <2>1 DEF Disk
  <1>9. ASSUME NEW file \in files  PROVE  Written(file)'
    <2>1. PICK d \in Range(ast.services) : file = ImplFile(d)
      BY <1>5
    <2>2. file \in DOMAIN outputs' /\ outputs'[file].is = "impl"
          /\ ServiceOf(file) = d /\ Settled(d, outputs'[file].content)
      BY <1>3, <1>4, <2>1
    <2>3. ServiceOf(file)' = d
      BY <1>1, <2>2 DEF ServiceOf
    <2> QED BY <1>1, <1>2, <2>2, <2>3 DEF Written
  <1>10. Saved'
    BY <1>1, <1>2 DEF Saved
  <1>11. Done'
    BY <1>1, <1>2, <1>9, <1>10 DEF Done, Scaffolded, files
  <1>12. Running'
    BY <1>1 DEF Running, Scaffolded
  <1>13. ASSUME NEW d \in Range(ast.services)
         PROVE  /\ ImplFile(d) \in DOMAIN outputs' /\ outputs'[ImplFile(d)] # Cut
                /\ outputs'[ImplFile(d)].content.methods = Wanted(d)
    BY <1>3, <1>4 DEF Cut
  <1>14. Obeyed'
    BY <1>1, <1>13 DEF Obeyed, Scaffolded, ImplFile
  <1> QED BY <1>7, <1>8, <1>11, <1>12, <1>14 DEF Inv

LEMMA NextInv == Inv /\ [Next]_vars => Inv'
  <1> SUFFICES ASSUME Inv, [Next]_vars  PROVE  Inv'
    OBVIOUS
  <1>1. ASSUME NEW md \in project.modes, Run(md)  PROVE  Inv'
    BY <1>1, RunInv
  <1>2. CASE ParseInput
    BY <1>2, ParseInputInv
  <1>3. CASE ResolveInput
    BY <1>3, ResolveInputInv
  <1>4. CASE WriteFile
    BY <1>4, WriteFileInv
  <1>5. CASE CannotOpen
    BY <1>5, ExitInv DEF CannotOpen
  <1>6. CASE Finish
    BY <1>6, FinishInv
  <1>7. CASE Edit
    BY <1>7, EditInv
  <1>8. CASE Follow
    BY <1>8, FollowInv
  <1>9. CASE UNCHANGED vars
    BY <1>9 DEF vars, Inv, Types, Disk, Running, Done, Obeyed, Saved, Written, Scaffolded,
                ServiceOf
  <1> QED BY <1>1, <1>2, <1>3, <1>4, <1>5, <1>6, <1>7, <1>8, <1>9 DEF Next

-----------------------------------------------------------------------------
(* A report that was followed                                              *)

\* All the elements of a vector are the vector.
LEMMA AtAll ==
  ASSUME NEW s, IsVector(s)
  PROVE  At(s, DOMAIN s) = s
  <1>1. DOMAIN s = 1..Len(s) /\ Len(s) \in Nat
    BY Vectors
  <1>2. Cardinality(DOMAIN s) = Len(s)
    <2>1. Cardinality(1..Len(s)) = IF 1 > Len(s) THEN 0 ELSE Len(s) - 1 + 1
      BY <1>1, FS_Interval
    <2> QED BY <1>1, <2>1
  <1>3. ASSUME NEW k \in 1..Len(s)
        PROVE  (CHOOSE i \in DOMAIN s : Cardinality({j \in DOMAIN s : j <= i}) = k) = k
    <2>1. ASSUME NEW i \in 1..Len(s)
          PROVE  Cardinality({j \in DOMAIN s : j <= i}) = i
      <3>1. {j \in DOMAIN s : j <= i} = 1..i
        BY <1>1
      <3>2. Cardinality(1..i) = i
        BY FS_Interval
      <3> QED BY <3>1, <3>2
    <2> QED BY <1>1, <2>1
  <1>4. At(s, DOMAIN s) = [k \in 1..Len(s) |-> s[k]]
    <2>1. At(s, DOMAIN s)
            = [k \in 1..Len(s) |->
                 s[CHOOSE i \in DOMAIN s : Cardinality({j \in DOMAIN s : j <= i}) = k]]
      BY <1>2 DEF At
    <2> QED BY <1>3, <2>1
  <1> QED BY <1>1, <1>4 DEF IsVector

LEMMA MethodsAgree ==
  ASSUME NEW d, NoDuplicates(d.methods)
  PROVE  Compare(d, Wanted(d)) = NoDifference
  <1>1. ASSUME NEW m \in Range(d.methods), NEW x \in Wanted(d), m.name = x.name
        PROVE  NormalizeSignature(Declaration(m)) = NormalizeSignature(x)
    <2>1. PICK n \in Range(d.methods) : x = Declaration(n)
      BY DEF Wanted
    <2>2. n.name = x.name
      BY <2>1 DEF Declaration
    <2>3. n = m
      BY <1>1, <2>2, MethodsOnce DEF OneName
    <2> QED BY <2>1, <2>3
  <1>2. Compare(d, Wanted(d)).modified = {}
    <2>1. ASSUME NEW n \in Names(Range(d.methods))
          PROVE  NormalizeSignature(Declaration(The(Range(d.methods), n)))
                   = NormalizeSignature(The(Wanted(d), n))
      <3>1. PICK m \in Range(d.methods), x \in Wanted(d) : m.name = n /\ x.name = n
        BY WantedNames DEF Names
      <3>2. The(Range(d.methods), n) = m /\ The(Wanted(d), n) = x
        BY <3>1, MethodsOnce, TheOne
      <3> QED BY <1>1, <3>1, <3>2
    <2> QED BY <2>1, Compared
  <1>3. Compare(d, Wanted(d)).new = {} /\ Compare(d, Wanted(d)).removed = {}
    BY Compared, WantedNames
  <1> QED BY <1>2, <1>3 DEF Compare, Difference, NoDifference

\* What parsing a struct back from its header gives is the struct, but for one with
\* a documented field, which is shorter.
LEMMA StructsAgree ==
  ASSUME NEW ns, IsNamespace(ns), OneName(Range(ns.structs))
  PROVE  CompareStructs(ns, ParseExistingStructs(ns))
           = [NoDifference EXCEPT !.modified = Names(Documented(ns.structs))]
  <1> DEFINE plain(d) == {i \in DOMAIN d.fields : d.fields[i].doc = <<>>}
             shown(d) == [name |-> d.name, fields |-> FieldsToString(At(d.fields, plain(d)))]
  <1>1. ASSUME NEW d \in Range(ns.structs)
        PROVE  FieldsToString(d.fields) = FieldsToString(At(d.fields, plain(d)))
                 <=> d \notin Documented(ns.structs)
    <2>1. IsVector(d.fields)
      BY RegisteredVector DEF IsNamespace, IsDefinition
    <2>2. DOMAIN d.fields = 1..Len(d.fields) /\ Len(d.fields) \in Nat
      BY <2>1, Vectors
    <2>3. CASE plain(d) = DOMAIN d.fields
      <3>1. At(d.fields, plain(d)) = d.fields
        BY <2>1, <2>3, AtAll
      <3>2. d \notin Documented(ns.structs)
        BY <2>3 DEF Documented, Range
      <3> QED BY <3>1, <3>2
    <2>4. CASE plain(d) # DOMAIN d.fields
      <3>1. d \in Documented(ns.structs)
        BY <2>4 DEF Documented, Range
      <3>2. IsFiniteSet(1..Len(d.fields)) /\ Cardinality(1..Len(d.fields)) = Len(d.fields)
        BY <2>2, FS_Interval
      <3>3. plain(d) \in SUBSET (1..Len(d.fields))
        BY <2>2
      <3> HIDE DEF plain
      <3>4. Cardinality(plain(d)) # Len(d.fields) /\ Cardinality(plain(d)) \in Nat
        BY <2>2, <2>4, <3>2, <3>3, FS_Subset, FS_CardinalityType
      <3>5. /\ DOMAIN FieldsToString(At(d.fields, plain(d))) = 1..Cardinality(plain(d))
            /\ DOMAIN FieldsToString(d.fields) = 1..Len(d.fields)
        BY <2>2 DEF FieldsToString, At
      <3>6. 1..Cardinality(plain(d)) # 1..Len(d.fields)
        BY <2>2, <3>4
      <3> QED BY <3>1, <3>5, <3>6
    <2> QED BY <2>3, <2>4
  <1>2. ParseExistingStructs(ns) = {shown(d) : d \in Range(ns.structs)}
    BY DEF ParseExistingStructs
  <1>3. \A d : shown(d).name = d.name /\ shown(d).fields = FieldsToString(At(d.fields, plain(d)))
    OBVIOUS
  <1> HIDE DEF shown, plain
  <1>4. OneName(ParseExistingStructs(ns))
    BY <1>2, <1>3 DEF OneName
  <1>5. Names(Range(ns.structs)) = Names(ParseExistingStructs(ns))
    BY <1>2, <1>3 DEF Names
  <1>6. ASSUME NEW n \in Names(Range(ns.structs))
        PROVE  FieldsToString(The(Range(ns.structs), n).fields) = The(ParseExistingStructs(ns), n).fields
                 <=> n \notin Names(Documented(ns.structs))
    <2>1. PICK d \in Range(ns.structs) : d.name = n
      BY DEF Names
    <2>2. shown(d) \in ParseExistingStructs(ns) /\ shown(d).name = n
      BY <1>2, <1>3, <2>1
    <2>3. The(Range(ns.structs), n) = d /\ The(ParseExistingStructs(ns), n) = shown(d)
      BY <1>4, <2>1, <2>2, TheOne
    <2>4. n \in Names(Documented(ns.structs)) <=> d \in Documented(ns.structs)
      BY <2>1 DEF Names, Documented, OneName
    <2> QED BY <1>1, <1>3, <2>3, <2>4
  <1>7. Names(Documented(ns.structs)) \subseteq Names(Range(ns.structs))
    BY DEF Names, Documented
  <1>8. CompareStructs(ns, ParseExistingStructs(ns))
          = [new |-> {}, removed |-> {}, modified |-> Names(Documented(ns.structs))]
    BY <1>5, <1>6, <1>7 DEF CompareStructs, Difference
  <1> QED BY <1>8 DEF NoDifference

\* And an enum, but for one with a documented item.
LEMMA EnumItemsAgree ==
  ASSUME NEW ns, IsNamespace(ns), OneName(Range(ns.enums))
  PROVE  CompareEnums(ns, ParseExistingEnums(ns))
           = [NoDifference EXCEPT !.modified = Names(Documented(ns.enums))]
  <1> DEFINE items(d) == [i \in DOMAIN d.fields |-> <<<<>>, d.fields[i].name, d.fields[i].value>>]
             found(d) == [i \in DOMAIN d.fields |-> <<d.fields[i].doc, d.fields[i].name, d.fields[i].value>>]
             shown(d) == [name |-> d.name, items |-> found(d)]
  <1>1. ASSUME NEW d \in Range(ns.enums)
        PROVE  found(d) = items(d) <=> d \notin Documented(ns.enums)
    <2>1. ASSUME d \notin Documented(ns.enums)  PROVE  found(d) = items(d)
      <3>1. \A i \in DOMAIN d.fields : d.fields[i].doc = <<>>
        BY <2>1 DEF Documented, Range
      <3> QED BY <3>1
    <2>2. ASSUME d \in Documented(ns.enums)  PROVE  found(d) # items(d)
      <3>1. PICK i \in DOMAIN d.fields : d.fields[i].doc # <<>>
        BY <2>2 DEF Documented, Range
      <3>2. found(d)[i][1] = d.fields[i].doc /\ items(d)[i][1] = <<>>
        OBVIOUS
      <3> HIDE DEF found, items
      <3> QED BY <3>1, <3>2
    <2> QED BY <2>1, <2>2
  <1>2. ParseExistingEnums(ns) = {shown(d) : d \in Range(ns.enums)}
    BY DEF ParseExistingEnums
  <1>3. \A d : shown(d).name = d.name /\ shown(d).items = found(d)
    OBVIOUS
  <1>a. CompareEnums(ns, ParseExistingEnums(ns))
          = [new |-> Names(Range(ns.enums)) \ Names(ParseExistingEnums(ns)),
             removed |-> Names(ParseExistingEnums(ns)) \ Names(Range(ns.enums)),
             modified |-> {n \in Names(Range(ns.enums)) \cap Names(ParseExistingEnums(ns)) :
                             ~(The(ParseExistingEnums(ns), n).items = items(The(Range(ns.enums), n)))}]
    BY DEF CompareEnums, Difference
  <1> HIDE DEF shown, found, items
  <1>4. OneName(ParseExistingEnums(ns))
    BY <1>2, <1>3 DEF OneName
  <1>5. Names(Range(ns.enums)) = Names(ParseExistingEnums(ns))
    BY <1>2, <1>3 DEF Names
  <1>6. ASSUME NEW n \in Names(Range(ns.enums))
        PROVE  The(ParseExistingEnums(ns), n).items = items(The(Range(ns.enums), n))
                 <=> n \notin Names(Documented(ns.enums))
    <2>1. PICK d \in Range(ns.enums) : d.name = n
      BY DEF Names
    <2>2. shown(d) \in ParseExistingEnums(ns) /\ shown(d).name = n
      BY <1>2, <1>3, <2>1
    <2>3. The(Range(ns.enums), n) = d /\ The(ParseExistingEnums(ns), n) = shown(d)
      BY <1>4, <2>1, <2>2, TheOne
    <2>4. n \in Names(Documented(ns.enums)) <=> d \in Documented(ns.enums)
      BY <2>1 DEF Names, Documented, OneName
    <2> QED BY <1>1, <1>3, <2>3, <2>4
  <1>7. Names(Documented(ns.enums)) \subseteq Names(Range(ns.enums))
    BY DEF Names, Documented
  <1>8. CompareEnums(ns, ParseExistingEnums(ns))
          = [new |-> {}, removed |-> {}, modified |-> Names(Documented(ns.enums))]
    BY <1>a, <1>5, <1>6, <1>7
  <1> QED BY <1>8 DEF NoDifference

\* The declaration of a method fits the interface, unless it is a stream.
LEMMA DeclarationFits ==
  ASSUME NEW m, IsVector(m.params)
  PROVE  Fits(Declaration(m), m) <=> m.mode # "stream"
  <1> DEFINE types == [i \in DOMAIN m.params |-> TypeToCpp(m.params[i].type)]
             x == Declaration(m)
             writer == <<"StreamWriter">>
  <1>1. IsVector(types) /\ DOMAIN types = DOMAIN m.params
    <2>1. types = [i \in DOMAIN m.params |-> types[i]]
      OBVIOUS
    <2> HIDE DEF types
    <2> QED BY <2>1, MappedVector
  <1>2. x.name = m.name /\ x.result = TypeToCpp(m.type) /\ x.params = ParamsToString(m.params)
    BY DEF Declaration
  <1>3. [i \in DOMAIN x.params |-> x.params[i][1]] = types
    BY <1>2 DEF ParamsToString
  <1>4. Fits(x, m) <=> ServiceInterface(m) = [name |-> m.name, result |-> TypeToCpp(m.type), params |-> types]
    <2> HIDE DEF x, types
    <2> QED BY <1>2, <1>3 DEF Fits
  <1>5. CASE m.mode # "stream"
    <2>1. types \o <<>> = types
      <3> HIDE DEF types
      <3> QED BY <1>1, ConcatEmptySeq DEF IsVector
    <2> QED BY <1>4, <1>5, <2>1 DEF ServiceInterface
  <1>6. CASE m.mode = "stream"
    <2>1. ServiceInterface(m).params = types \o writer
      BY <1>6 DEF ServiceInterface
    <2>2. IsVector(writer) /\ Len(writer) = 1
      BY DEF IsVector, Range
    <2> HIDE DEF types, writer, x
    <2>3. Len(types \o writer) = Len(types) + Len(writer) /\ Len(types) \in Nat
      <3>1. Len(types) \in Nat
        BY <1>1, Vectors
      <3> QED BY <1>1, <2>2, <3>1, Concat
    <2>4. types \o writer # types
      BY <2>2, <2>3
    <2>5. ServiceInterface(m) # [name |-> m.name, result |-> TypeToCpp(m.type), params |-> types]
      BY <2>1, <2>4
    <2> QED BY <1>4, <1>6, <2>5 DEF x
  <1> QED BY <1>5, <1>6

LEMMA FollowedFits ==
  ASSUME Inv, followed, NEW d \in Range(ast.services)
  PROVE  LET impl == File(ImplFile(d)).content
             report == SyncReport(ast, d, impl, HeaderFound)
         IN /\ Names(impl.methods) = Names(Range(d.methods))
            /\ \A m \in Range(d.methods) : Fits(The(impl.methods, m.name), m) <=> m.mode # "stream"
            /\ report.methods = NoDifference
            /\ File(Output("hpp")) = Generated(ast) =>
                 /\ report.structs = [NoDifference EXCEPT !.modified = Names(Documented(ast.structs))]
                 /\ report.enums = [NoDifference EXCEPT !.modified = Names(Documented(ast.enums))]
  <1> DEFINE impl == File(ImplFile(d)).content
             report == SyncReport(ast, d, impl, HeaderFound)
  <1>1. impl.methods = Wanted(d)
    BY DEF Inv, Obeyed, File
  <1>2. IsNamespace(ast) /\ Resolve(ast)
    BY DEF Inv, Types, Obeyed, Scaffolded, Done
  <1>3. NoDuplicates(d.methods) /\ \A m \in Range(d.methods) : IsVector(m.params)
    <2>1. NoDuplicates(d.methods)
      BY <1>2, MembersOnce
    <2>2. d \in Definitions(ast)
      BY <1>2, RegisteredVector
    <2> QED BY <1>2, <2>1, <2>2 DEF IsNamespace, IsDefinition, Members
  <1> HIDE DEF impl
  <1>4. Names(impl.methods) = Names(Range(d.methods))
    BY <1>1, WantedNames
  <1>5. ASSUME NEW m \in Range(d.methods)
        PROVE  Fits(The(impl.methods, m.name), m) <=> m.mode # "stream"
    <2>1. Declaration(m) \in Wanted(d) /\ Declaration(m).name = m.name
      BY DEF Wanted, Declaration
    <2>2. The(impl.methods, m.name) = Declaration(m)
      BY <1>1, <1>3, <2>1, MethodsOnce, TheOne
    <2> QED BY <1>3, <2>2, DeclarationFits
  <1>6. report.methods = NoDifference
    BY <1>1, <1>3, MethodsAgree DEF ParseExistingImpl, SyncReport
  <1>7. ASSUME File(Output("hpp")) = Generated(ast)
        PROVE  /\ report.structs = [NoDifference EXCEPT !.modified = Names(Documented(ast.structs))]
               /\ report.enums = [NoDifference EXCEPT !.modified = Names(Documented(ast.enums))]
    <2>1. HeaderFound = <<ast>>
      BY <1>7 DEF HeaderFound, Generated, None, Cut
    <2>2. /\ report.structs = CompareStructs(ast, ParseExistingStructs(ast))
          /\ report.enums = CompareEnums(ast, ParseExistingEnums(ast))
      BY <2>1 DEF SyncReport
    <2>3. OneName(Range(ast.structs)) /\ OneName(Range(ast.enums))
      BY <1>2, TypesOnce, RegisteredVector DEF OneName
    <2> QED BY <1>2, <2>2, <2>3, StructsAgree, EnumItemsAgree
  <1> QED BY <1>4, <1>5, <1>6, <1>7 DEF impl

\* A step of a run that changes an output writes one file.
LEMMA Kept ==
  ASSUME Inv, [Next]_vars, outputs' # outputs, pass # "idle"
  PROVE  /\ Resolve(ast)
         /\ \A file \in DOMAIN outputs :
              outputs[file].is = "impl" /\ outputs'[file] # Cut =>
                /\ outputs'[file].content.methods = outputs[file].content.methods
                /\ IsPrefix(outputs[file].content.reports, outputs'[file].content.reports)
  <1>1. WriteFile
    BY DEF Next, vars, Run, ParseInput, ResolveInput, CannotOpen, Finish, Edit, Follow,
           Exit, Scaffolded
  <1>2. pass = "write" /\ todo # <<>>
    BY <1>1 DEF WriteFile
  <1>3. PICK content \in {Content(Head(todo)), Cut} :
          outputs' = [file \in DOMAIN outputs \cup {Head(todo)} |->
                        IF file = Head(todo) THEN content ELSE outputs[file]]
    BY <1>1 DEF WriteFile
  <1>4. Head(todo) \in DOMAIN outputs /\ outputs[Head(todo)].is = "impl" /\ content # Cut =>
          /\ content.content.methods = outputs[Head(todo)].content.methods
          /\ IsPrefix(outputs[Head(todo)].content.reports, content.content.reports)
    BY <1>2, ContentFit DEF Inv
  <1>5. ASSUME NEW file \in DOMAIN outputs, outputs[file].is = "impl", outputs'[file] # Cut
        PROVE  /\ outputs'[file].content.methods = outputs[file].content.methods
               /\ IsPrefix(outputs[file].content.reports, outputs'[file].content.reports)
    <2>1. CASE file = Head(todo)
      BY <1>3, <1>4, <1>5, <2>1
    <2>2. CASE file # Head(todo)
      <3>1. outputs'[file] = outputs[file]
        BY <1>3, <2>2
      <3>2. IsVector(outputs[file].content.reports)
        BY <1>5, <3>1 DEF Inv, Disk, IsFile, IsImpl, Generated
      <3>3. IsPrefix(outputs[file].content.reports, outputs[file].content.reports)
        BY <3>2, Vectors DEF IsPrefix
      <3> QED BY <3>1, <3>3
    <2> QED BY <2>1, <2>2
  <1> QED BY <1>2, <1>5 DEF Inv, Running

-----------------------------------------------------------------------------
(* The theorems                                                            *)

\* main.cpp main: at every moment of any number of runs, whatever is saved between
\* them, the files are well formed, those of the run that are off its list are
\* written from its definitions, and an implementation file is up to date or told.
THEOREM InvHolds == Spec => []Inv
  <1>1. Init => Inv
    BY InitInv
  <1>2. Inv /\ [Next]_vars => Inv'
    BY NextInv
  <1> QED BY <1>1, <1>2, PTL DEF Spec

\* codegen.cpp generate_service_proxy, generate_service_dispatcher,
\* generate_class_proxy, generate_class_dispatcher: each proxy reaches its own
\* member, and bytes are read as they were written.
THEOREM CallsReachOwnHolds == Spec => []CallsReachOwn
  <1>1. Inv => CallsReachOwn
    BY OwnMethods, OwnMembers DEF Inv, Types, CallsReachOwn
  <1> QED BY <1>1, InvHolds, PTL

\* codegen.cpp generate_header: the header compiles if and only if structs come after
\* those they hold, classes after their bases, and every value is of a supported type;
\* the split headers then do if and only if there is no array of a struct.
THEOREM HeaderCompilesHolds == Spec => []HeaderCompiles
  <1>1. Inv => HeaderCompiles
    BY HeaderExactly, SplitExactly DEF Inv, Types, Running, HeaderCompiles
  <1> QED BY <1>1, InvHolds, PTL

\* main.cpp main: exit status 0 means that every output was written from the
\* definitions of a saved text.
THEOREM OkMeansCurrentHolds == Spec => []OkMeansCurrent
  <1>1. Inv => OkMeansCurrent
    BY DEF Inv, Done, Written, Saved, File, OkMeansCurrent
  <1> QED BY <1>1, InvHolds, PTL

\* main.cpp write_file, scaffold.cpp generate: what is written over an implementation
\* file holds all it held, except by a write that the disk cuts short, which loses it.
THEOREM KeepsImplementationHolds == Spec => KeepsImplementation
  <1>1. Inv /\ [Next]_vars =>
          [outputs' # outputs /\ pass # "idle" =>
             /\ Resolve(ast)
             /\ \A file \in DOMAIN outputs :
                  outputs[file].is = "impl" /\ outputs'[file] # Cut =>
                    /\ outputs'[file].content.methods = outputs[file].content.methods
                    /\ IsPrefix(outputs[file].content.reports, outputs'[file].content.reports)]_vars
    BY Kept
  <1> QED BY <1>1, InvHolds, PTL DEF Spec, KeepsImplementation

\* scaffold.cpp compare, generate_skeleton: who follows a report has just the methods
\* of the interface, which override them but for those of streams, and the next report
\* has nothing but the definitions with a documented field or item.
THEOREM FollowedReportHolds == Spec => []FollowedReport
  <1>1. Inv => FollowedReport
    BY FollowedFits DEF FollowedReport
  <1> QED BY <1>1, InvHolds, PTL
=============================================================================
