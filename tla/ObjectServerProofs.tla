------------------------- MODULE ObjectServerProofs -------------------------
(***************************************************************************)
(* Theorems about ObjectServer: its types, the transports of the           *)
(* subscriptions, the reference counts, the pointers that rest on them,    *)
(* the last notification, and the ids.  What ASSUMEs ~Throws, ~CrossClient *)
(* or one writer speaks of the mode the run of ObjectsOwned.cfg checks;    *)
(* the rest holds in every mode.                                           *)
(***************************************************************************)
EXTENDS ObjectServer, TLAPS, FiniteSetTheorems

\* Initial states are well typed.
LEMMA InitTyped == Init => TypeOK
BY ObjectServerAssumption DEF Init, TypeOK, Ids, Places

\* The registry's mutators keep the counts natural numbers.
LEMMA DecrementType ==
  ASSUME TypeOK, NEW id \in Ids, Decrement(id)
  PROVE  refs' \in [Ids -> Nat]
BY DEF TypeOK, Decrement, Exists

\* A thread that ends gives its locals up.
LEMMA GoneTyped ==
  ASSUME TypeOK, NEW t \in Transports, Gone(t)
  PROVE  /\ pc' \in [Transports -> Places] /\ object' \in [Transports -> Ids \cup {0}]
         /\ op' \in [Transports -> {"get", "set", "wire"}] /\ payload' \in [Transports -> Nat]
         /\ tracked' \in [Transports -> SUBSET Ids]
         /\ seen' \in [Transports -> [Ids -> Nat]] /\ since' \in [Transports -> [Ids -> Nat]]
         /\ leaked' \in [Ids -> Nat]
<1>1. leaked' \in [Ids -> Nat]
  BY DEF Gone, TypeOK
<1>2. QED
  BY <1>1 DEF Gone, Done, Go, Places, TypeOK

\* Every step of the service preserves the types.
LEMMA ServiceTyped == TypeOK /\ Service => TypeOK'
<1> SUFFICES ASSUME TypeOK, Service PROVE TypeOK'
  OBVIOUS
<1> USE ObjectServerAssumption
<1> USE DEF objectVars, threadVars, historyVars
<1>1. CASE RegisterObject
  <2>1. PICK id \in Ids : NewObject(id) /\ held' = [held EXCEPT ![id] = 1]
    BY <1>1 DEF RegisterObject
  <2>2. /\ refs' \in [Ids -> Nat] /\ nextId' \in 1..MaxObjects + 1
        /\ held' \in [Ids -> Nat]
    BY <2>1 DEF NewObject, TypeOK, Ids
  <2>3. QED
    BY <1>1, <2>2 DEF RegisterObject, TypeOK
<1>2. ASSUME NEW id \in Ids, AddRef(id) PROVE TypeOK'
  BY <1>2 DEF AddRef, TypeOK
<1>3. ASSUME NEW id \in Ids, DropRef(id) PROVE TypeOK'
  <2>1. refs' \in [Ids -> Nat]
    BY <1>3, DecrementType DEF DropRef
  <2>2. held' \in [Ids -> Nat]
    BY <1>3 DEF DropRef, TypeOK
  <2>3. QED
    BY <1>3, <2>1, <2>2 DEF DropRef, TypeOK
<1>4. QED
  BY <1>1, <1>2, <1>3 DEF Service

\* Connections come and go.
LEMMA ConnectionTyped ==
  ASSUME TypeOK, NEW t \in Transports,
         \/ Accept(t) \/ Disconnect(t) \/ Leave(t) \/ Abandon(t) \/ CleanUp(t)
  PROVE  TypeOK'
<1> USE ObjectServerAssumption
<1> USE DEF registryVars, objectVars, threadVars, historyVars, Go, At, Places
<1>1. CASE Accept(t)
  BY <1>1 DEF Accept, TypeOK
<1>2. CASE Disconnect(t)
  BY <1>2 DEF Disconnect, TypeOK
<1>3. CASE Leave(t)
  BY <1>3 DEF Leave, TypeOK
<1>4. CASE Abandon(t)
  BY <1>4, GoneTyped DEF Abandon, TypeOK
<1>5. CASE ReleaseTracked(t)
  <2>1. PICK id \in Ids : Decrement(id) /\ tracked' = [tracked EXCEPT ![t] = @ \ {id}]
    BY <1>5 DEF ReleaseTracked, TypeOK
  <2>2. refs' \in [Ids -> Nat]
    BY <2>1, DecrementType
  <2>3. QED
    BY <1>5, <2>1, <2>2 DEF ReleaseTracked, TypeOK
<1>6. CASE UnsubscribeAll(t)
  BY <1>6 DEF UnsubscribeAll, TypeOK
<1>7. CASE Close(t)
  BY <1>7, GoneTyped DEF Close, TypeOK
<1> HIDE DEF registryVars, objectVars, threadVars, historyVars, Go, At, Places
<1>8. QED
  BY <1>1, <1>2, <1>3, <1>4, <1>5, <1>6, <1>7 DEF CleanUp

\* A request is read.
LEMMA RequestTyped ==
  ASSUME TypeOK, NEW t \in Transports, Request(t)
  PROVE  TypeOK'
<1> USE ObjectServerAssumption
<1> USE DEF registryVars, objectVars, threadVars, historyVars, Go, Places
<1>1. CASE Create(t)
  <2>1. PICK id \in Ids : NewObject(id) /\ tracked' = [tracked EXCEPT ![t] = @ \cup {id}]
    BY <1>1 DEF Create
  <2>2. refs' \in [Ids -> Nat] /\ nextId' \in 1..MaxObjects + 1
    BY <2>1 DEF NewObject, TypeOK, Ids
  <2>3. QED
    BY <1>1, <2>1, <2>2 DEF Create, TypeOK
<1>2. CASE CreateFails(t)
  BY <1>2 DEF CreateFails, TypeOK
<1>3. ASSUME NEW id \in Ids, Release(t, id) PROVE TypeOK'
  <2>1. refs' \in [Ids -> Nat]
    BY <1>3, DecrementType DEF Release
  <2>2. QED
    BY <1>3, <2>1 DEF Release, TypeOK
<1>4. ASSUME NEW id \in Ids, Subscribe(t, id) PROVE TypeOK'
  BY <1>4 DEF Subscribe, TypeOK
<1>5. ASSUME NEW id \in Ids, Unsubscribe(t, id) PROVE TypeOK'
  BY <1>5 DEF Unsubscribe, TypeOK
<1>6. ASSUME NEW id \in Ids, NEW request \in {"get", "set"}, Lookup(t, id, request)
      PROVE  TypeOK'
  BY <1>6 DEF Lookup, TypeOK
<1> HIDE DEF registryVars, objectVars, threadVars, historyVars, Go, Places
<1>7. QED
  BY <1>1, <1>2, <1>3, <1>4, <1>5, <1>6 DEF Request

\* A request is handled.  A thread that follows a pointer has one.
LEMMA HandleTyped ==
  ASSUME TypeOK, NEW t \in Transports, Handle(t),
         pc[t] \in {"holding", "notifying"} => object[t] \in Ids
  PROVE  TypeOK'
<1> USE ObjectServerAssumption
<1> USE DEF registryVars, objectVars, threadVars, historyVars, Go, At, Done, Places
<1>1. CASE UseFreed(t)
  BY <1>1 DEF UseFreed, TypeOK
<1>2. CASE Get(t)
  BY <1>2 DEF Get, TypeOK
<1>3. CASE Set(t)
  BY <1>3 DEF Set, TypeOK
<1>4. CASE FindToWire(t)
  <2>1. CASE Go(t, "holding") /\ op' = [op EXCEPT ![t] = "wire"]
              /\ UNCHANGED <<object, payload>>
    BY <1>4, <2>1 DEF FindToWire, TypeOK
  <2>2. CASE Done(t, "idle")
    BY <1>4, <2>2 DEF FindToWire, TypeOK
  <2>3. QED
    BY <1>4, <2>1, <2>2 DEF FindToWire
<1>5. CASE Wire(t)
  BY <1>5 DEF Wire, TypeOK
<1>6. CASE CopyTargets(t)
  BY <1>6 DEF CopyTargets, TypeOK
<1>7. CASE Notified(t)
  BY <1>7 DEF Notified, TypeOK
<1>8. ASSUME NEW u \in Transports, SendNotify(t, u) PROVE TypeOK'
  BY <1>8 DEF SendNotify, TypeOK
<1>9. ASSUME NEW u \in Transports, SendToFreed(t, u) PROVE TypeOK'
  BY <1>9 DEF SendToFreed, TypeOK
<1>10. CASE Reply(t)
  BY <1>10 DEF Reply, TypeOK
<1>11. CASE ReplyThrows(t)
  BY <1>11, GoneTyped DEF ReplyThrows, TypeOK
<1>12. QED
  BY <1>1, <1>2, <1>3, <1>4, <1>5, <1>6, <1>7, <1>8, <1>9, <1>10, <1>11
     DEF Handle, Working, Writing

-----------------------------------------------------------------------------
(* Where the threads are, and the objects they point to.                   *)

Pointed == {"subscribed", "holding", "notifying", "sending"}

\* A thread that works on an object has its id.
Pointing == \A t \in Transports : pc[t] \in Pointed => object[t] \in Ids

\* Thread t stays where it is; leaves its object alone; goes on with it; or
\* takes one up that it may use.
Moves(t) ==
  \/ pc' = pc /\ object' = object
  \/ \E p \in Places \ Pointed :
       /\ pc' = [pc EXCEPT ![t] = p]
       /\ object' = object \/ object' = [object EXCEPT ![t] = 0]
  \/ /\ pc[t] \in Pointed /\ object' = object
     /\ \E p \in Pointed : pc' = [pc EXCEPT ![t] = p]
     /\ pc[t] = "sending" => pc'[t] = "sending"
  \/ \E id \in Usable(t), p \in {"subscribed", "holding"} :
       /\ pc' = [pc EXCEPT ![t] = p]
       /\ object' = [object EXCEPT ![t] = id]

\* A step of a thread's connection or of its clean-up is such a move.
LEMMA ConnectionMoves ==
  ASSUME NEW t \in Transports,
         \/ Accept(t) \/ Disconnect(t) \/ Leave(t) \/ Abandon(t) \/ CleanUp(t)
  PROVE  Moves(t)
<1> USE DEF Moves, threadVars, Go, Done, Gone, Places, Pointed
<1>1. CASE Accept(t) \/ Leave(t) \/ UnsubscribeAll(t)
  BY <1>1 DEF Accept, Leave, UnsubscribeAll
<1>2. CASE Disconnect(t) \/ ReleaseTracked(t)
  BY <1>2 DEF Disconnect, ReleaseTracked
<1>3. CASE Abandon(t) \/ Close(t)
  BY <1>3 DEF Abandon, Close
<1> HIDE DEF Moves
<1>4. QED
  BY <1>1, <1>2, <1>3 DEF CleanUp

\* So is the reading of a request.
LEMMA RequestMoves ==
  ASSUME NEW t \in Transports, Request(t)
  PROVE  Moves(t)
<1> USE DEF Moves, threadVars, Go, Places, Pointed
<1>1. CASE Create(t) \/ CreateFails(t)
  BY <1>1 DEF Create, CreateFails
<1>2. ASSUME NEW id \in Ids, Release(t, id) \/ Unsubscribe(t, id) PROVE Moves(t)
  BY <1>2 DEF Release, Unsubscribe
<1>3. ASSUME NEW id \in Ids, Subscribe(t, id) PROVE Moves(t)
  BY <1>3 DEF Subscribe
<1>4. ASSUME NEW id \in Ids, NEW request \in {"get", "set"}, Lookup(t, id, request)
      PROVE  Moves(t)
  BY <1>4 DEF Lookup
<1> HIDE DEF Moves
<1>5. QED
  BY <1>1, <1>2, <1>3, <1>4 DEF Request

\* So is its handling.
LEMMA HandleMoves ==
  ASSUME TypeOK, NEW t \in Transports, Handle(t)
  PROVE  Moves(t)
<1> USE DEF Moves, threadVars, Go, At, Done, Gone, Places, Pointed
<1>1. CASE UseFreed(t)
  BY <1>1 DEF UseFreed
<1>2. CASE Get(t) \/ Wire(t) \/ Notified(t)
  BY <1>2 DEF Get, Wire, Notified
<1>3. CASE Set(t) \/ CopyTargets(t)
  BY <1>3 DEF Set, CopyTargets, TypeOK
<1>4. CASE FindToWire(t)
  BY <1>4 DEF FindToWire, TypeOK
<1>5. ASSUME NEW u \in Transports, SendNotify(t, u) \/ SendToFreed(t, u) PROVE Moves(t)
  BY <1>5 DEF SendNotify, SendToFreed
<1>6. CASE Reply(t) \/ ReplyThrows(t)
  BY <1>6 DEF Reply, ReplyThrows
<1> HIDE DEF Moves
<1>7. QED
  BY <1>1, <1>2, <1>3, <1>4, <1>5, <1>6 DEF Handle, Working, Writing

\* A move keeps Pointing, as clients use no id but issued ones.
LEMMA MovePoints ==
  ASSUME TypeOK, Pointing, NEW t \in Transports, Moves(t)
  PROVE  Pointing'
<1>1. Usable(t) \subseteq Ids
  BY ObjectServerAssumption DEF Usable, Issued, Ids, TypeOK
<1>2. CASE pc' = pc /\ object' = object
  BY <1>2 DEF Pointing
<1>3. ASSUME NEW p \in Places \ Pointed, pc' = [pc EXCEPT ![t] = p],
             object' = object \/ object' = [object EXCEPT ![t] = 0]
      PROVE  Pointing'
  BY <1>3 DEF Pointing, TypeOK
<1>4. ASSUME pc[t] \in Pointed, object' = object,
             NEW p \in Pointed, pc' = [pc EXCEPT ![t] = p]
      PROVE  Pointing'
  BY <1>4 DEF Pointing, TypeOK
<1>5. ASSUME NEW id \in Usable(t), NEW p \in {"subscribed", "holding"},
             pc' = [pc EXCEPT ![t] = p], object' = [object EXCEPT ![t] = id]
      PROVE  Pointing'
  BY <1>1, <1>5 DEF Pointing, TypeOK
<1>6. QED
  BY <1>2, <1>3, <1>4, <1>5 DEF Moves

Typed == TypeOK /\ Pointing

\* Every step keeps the types.
LEMMA TypedStep == Typed /\ [Next]_vars => Typed'
<1> SUFFICES ASSUME TypeOK, Pointing, [Next]_vars PROVE TypeOK' /\ Pointing'
  BY DEF Typed
<1>1. CASE Service
  <2>1. TypeOK'
    BY <1>1, ServiceTyped
  <2>2. pc' = pc /\ object' = object
    BY <1>1 DEF Service, RegisterObject, AddRef, DropRef, threadVars
  <2>3. QED
    BY <2>1, <2>2 DEF Pointing
<1>2. ASSUME NEW t \in Transports,
             \/ Accept(t) \/ Disconnect(t) \/ Leave(t) \/ Abandon(t) \/ CleanUp(t)
      PROVE  TypeOK' /\ Pointing'
  BY <1>2, ConnectionTyped, ConnectionMoves, MovePoints
<1>3. ASSUME NEW t \in Transports, Request(t) PROVE TypeOK' /\ Pointing'
  BY <1>3, RequestTyped, RequestMoves, MovePoints
<1>4. ASSUME NEW t \in Transports, Handle(t) PROVE TypeOK' /\ Pointing'
  <2>1. pc[t] \in {"holding", "notifying"} => object[t] \in Ids
    BY DEF Pointing, Pointed
  <2>2. QED
    BY <1>4, <2>1, HandleTyped, HandleMoves, MovePoints
<1>5. CASE UNCHANGED vars
  BY <1>5 DEF vars, registryVars, objectVars, threadVars, historyVars,
              TypeOK, Pointing
<1>6. QED
  BY <1>1, <1>2, <1>3, <1>4, <1>5 DEF Next

\* The types invariant holds always, with Pointing.
LEMMA TypedAlways == Spec => []Typed
<1>1. Init => Typed
  BY InitTyped DEF Init, Typed, Pointing, Pointed
<1>2. QED
  BY <1>1, TypedStep, PTL DEF Spec

\* The registries, the objects and the threads always have their types.
THEOREM TypeCorrect == Spec => []TypeOK
<1>1. Typed => TypeOK
  BY DEF Typed
<1>2. QED
  BY <1>1, TypedAlways, PTL

-----------------------------------------------------------------------------
(* Subscriptions.  While no exception leaves client_loop, a thread drops   *)
(* its subscriptions before its transport is destroyed, and makes none in  *)
(* between.                                                                *)

NoGhosts == \A s \in subs : pc[s[2]] \notin {"free", "closing"}

\* Nothing but the clean-up moves a thread to where it must have none.
LEMMA GhostsConnection ==
  ASSUME TypeOK, NoGhosts, ~Throws, NEW t \in Transports,
         \/ Accept(t) \/ Disconnect(t) \/ Leave(t) \/ Abandon(t) \/ CleanUp(t)
  PROVE  NoGhosts'
<1> USE DEF NoGhosts, TypeOK, threadVars, Go, At
<1>1. CASE Accept(t) \/ Leave(t)
  BY <1>1 DEF Accept, Leave
<1>2. CASE Disconnect(t) \/ ReleaseTracked(t)
  BY <1>2 DEF Disconnect, ReleaseTracked
<1>3. CASE UnsubscribeAll(t)
  BY <1>3 DEF UnsubscribeAll
<1>4. CASE Close(t)
  BY <1>4 DEF Close, Gone, Done
<1> HIDE DEF NoGhosts, TypeOK
<1>5. QED
  BY <1>1, <1>2, <1>3, <1>4 DEF Abandon, CleanUp

\* A subscription is made by a thread that goes on with it.
LEMMA GhostsRequest ==
  ASSUME TypeOK, NoGhosts, NEW t \in Transports, Request(t)
  PROVE  NoGhosts'
<1> USE DEF NoGhosts, TypeOK, threadVars, Go
<1>1. CASE Create(t) \/ CreateFails(t)
  BY <1>1 DEF Create, CreateFails
<1>2. ASSUME NEW id \in Ids, Release(t, id) PROVE NoGhosts'
  BY <1>2 DEF Release
<1>3. ASSUME NEW id \in Ids, Unsubscribe(t, id) PROVE NoGhosts'
  BY <1>3 DEF Unsubscribe
<1>4. ASSUME NEW id \in Ids, Subscribe(t, id) PROVE NoGhosts'
  BY <1>4 DEF Subscribe
<1>5. ASSUME NEW id \in Ids, NEW request \in {"get", "set"}, Lookup(t, id, request)
      PROVE  NoGhosts'
  BY <1>5 DEF Lookup
<1> HIDE DEF NoGhosts, TypeOK
<1>6. QED
  BY <1>1, <1>2, <1>3, <1>4, <1>5 DEF Request

\* The handling of a request ends where the next one is read.
LEMMA GhostsHandle ==
  ASSUME TypeOK, NoGhosts, ~Throws, NEW t \in Transports, Handle(t)
  PROVE  NoGhosts'
<1> USE DEF NoGhosts, TypeOK, threadVars, Go, At, Done
<1>1. CASE UseFreed(t)
  BY <1>1 DEF UseFreed
<1>2. CASE Get(t) \/ Wire(t) \/ Notified(t)
  BY <1>2 DEF Get, Wire, Notified
<1>3. CASE Set(t) \/ CopyTargets(t)
  BY <1>3 DEF Set, CopyTargets
<1>4. CASE FindToWire(t)
  BY <1>4 DEF FindToWire
<1>5. ASSUME NEW u \in Transports, SendNotify(t, u) \/ SendToFreed(t, u) PROVE NoGhosts'
  BY <1>5 DEF SendNotify, SendToFreed
<1>6. CASE Reply(t)
  BY <1>6 DEF Reply
<1> HIDE DEF NoGhosts, TypeOK
<1>7. QED
  BY <1>1, <1>2, <1>3, <1>4, <1>5, <1>6 DEF Handle, Working, Writing, ReplyThrows

\* No subscription outlives its thread's clean-up.
LEMMA GhostsAlways ==
  ASSUME ~Throws
  PROVE  Spec => []NoGhosts
<1>1. Init => NoGhosts
  BY DEF Init, NoGhosts
<1>2. TypeOK /\ NoGhosts /\ [Next]_vars => NoGhosts'
  <2> SUFFICES ASSUME TypeOK, NoGhosts, [Next]_vars PROVE NoGhosts'
    OBVIOUS
  <2>1. CASE Service
    BY <2>1 DEF Service, RegisterObject, AddRef, DropRef, threadVars, NoGhosts
  <2>2. CASE UNCHANGED vars
    BY <2>2 DEF vars, threadVars, NoGhosts
  <2>3. QED
    BY <2>1, <2>2, GhostsConnection, GhostsRequest, GhostsHandle DEF Next
<1>3. QED
  BY <1>1, <1>2, TypeCorrect, PTL DEF Spec

\* The SubscriptionRegistry holds pointers to transports, and its header says
\* each "must outlive" its subscription: so it does, whatever the clients do,
\* while no exception leaves client_loop.
THEOREM SubscribersStayOpen ==
  ASSUME ~Throws
  PROVE  Spec => []SubscribersOpen
<1>1. NoGhosts => SubscribersOpen
  BY DEF NoGhosts, SubscribersOpen
<1>2. QED
  BY <1>1, GhostsAlways, PTL

-----------------------------------------------------------------------------
(* Reference counts, in every mode.                                        *)

Trackers(id) == {t \in Transports : id \in tracked[t]}

\* A thread tracks nothing when it gives its locals up, and nobody has an id
\* that is still to come.
Settled ==
  /\ \A t \in Transports : pc[t] \in {"free", "closing"} => tracked[t] = {}
  /\ \A id \in Ids : id >= nextId => held[id] = 0 /\ Trackers(id) = {} /\ leaked[id] = 0

Counting == RefsCounted /\ Settled

\* An object has finitely many trackers, and the references to it are numbered.
LEMMA OwnedType ==
  ASSUME TypeOK, NEW id \in Ids
  PROVE  /\ IsFiniteSet(Trackers(id)) /\ Cardinality(Trackers(id)) \in Nat
         /\ Owned(id) = Cardinality(Trackers(id)) + held[id] + leaked[id]
         /\ refs[id] \in Nat /\ held[id] \in Nat /\ leaked[id] \in Nat /\ Owned(id) \in Nat
<1>1. Trackers(id) \subseteq Transports
  BY DEF Trackers
<1>2. IsFiniteSet(Trackers(id)) /\ Cardinality(Trackers(id)) \in Nat
  BY <1>1, FS_Subset, FS_CardinalityType, ObjectServerAssumption
<1>3. Owned(id) = Cardinality(Trackers(id)) + held[id] + leaked[id]
  BY DEF Owned, Trackers
<1>4. refs[id] \in Nat /\ held[id] \in Nat /\ leaked[id] \in Nat
  BY DEF TypeOK
<1>5. QED
  BY <1>2, <1>3, <1>4

\* After a step as well.
LEMMA OwnedNext ==
  ASSUME NEW id \in Ids
  PROVE  Owned(id)' = Cardinality(Trackers(id)') + held'[id] + leaked'[id]
BY DEF Owned, Trackers

\* An object that a connection tracks or the service keeps exists, unless a
\* client that does not have it released it.
LEMMA OwnedExists ==
  ASSUME TypeOK, RefsCounted, NEW t \in Transports, NEW id \in Ids, id \notin strayed,
         id \in tracked[t] \/ held[id] > 0
  PROVE  Exists(id)
<1>1. refs[id] = Owned(id)
  BY DEF RefsCounted
<1>2. Cardinality(Trackers(id)) > 0 \/ held[id] > 0
  <2>1. CASE id \in tracked[t]
    <3>1. Trackers(id) # {}
      BY <2>1 DEF Trackers
    <3>2. Cardinality(Trackers(id)) # 0
      BY <3>1, OwnedType, FS_EmptySet
    <3>3. QED
      BY <3>2, OwnedType
  <2>2. QED
    BY <2>1
<1>3. QED
  BY <1>1, <1>2, OwnedType DEF Exists

\* Nobody has what is still to come, so the next id is fresh.
LEMMA NextIsFresh ==
  ASSUME TypeOK, Counting, NEW id \in Ids, id >= nextId
  PROVE  held[id] = 0 /\ Trackers(id) = {} /\ leaked[id] = 0 /\ refs[id] = 0
<1>1. held[id] = 0 /\ Trackers(id) = {} /\ leaked[id] = 0
  BY DEF Counting, Settled
<1>2. Owned(id) = 0
  BY <1>1, OwnedType, FS_EmptySet
<1>3. refs[id] <= 0
  BY <1>2 DEF Counting, RefsCounted
<1>4. QED
  BY <1>1, <1>3, OwnedType

\* A connection that gives up an object takes its own reference and no other;
\* when another client released the object before, there may be none to take.
LEMMA ReleaseCounts ==
  ASSUME TypeOK, Counting, NEW t \in Transports, NEW id \in tracked[t], Decrement(id),
         tracked' = [tracked EXCEPT ![t] = @ \ {id}],
         UNCHANGED <<held, nextId, pc, strayed, leaked>>
  PROVE  Counting'
<1>1. id \in Ids
  BY DEF TypeOK
<1>2. ASSUME NEW i \in Ids
      PROVE  refs'[i] <= Owned(i)' /\ (i \notin strayed' => refs'[i] = Owned(i)')
  <2>1. refs[i] <= Owned(i) /\ (i \notin strayed => refs[i] = Owned(i))
    BY DEF Counting, RefsCounted
  <2>2. held'[i] = held[i] /\ leaked'[i] = leaked[i]
    OBVIOUS
  <2>3. CASE i = id
    <3>1. Trackers(i)' = Trackers(i) \ {t} /\ t \in Trackers(i)
      BY <2>3 DEF Trackers, TypeOK
    <3>2. Cardinality(Trackers(i)') = Cardinality(Trackers(i)) - 1
      BY <3>1, OwnedType, FS_RemoveElement
    <3>3. Owned(i)' = Owned(i) - 1
      BY <2>2, <3>2, OwnedType, OwnedNext
    <3>4. Cardinality(Trackers(i)) > 0
      BY <3>1, OwnedType, FS_EmptySet
    <3>5. Owned(i) > 0
      BY <3>4, OwnedType
    <3>6. refs'[i] = IF refs[i] > 0 THEN refs[i] - 1 ELSE refs[i]
      BY <1>1, <2>3 DEF Decrement, Exists, TypeOK
    <3>7. QED
      BY <2>1, <3>3, <3>5, <3>6, OwnedType
  <2>4. CASE i # id
    <3>1. Trackers(i)' = Trackers(i)
      BY <2>4 DEF Trackers, TypeOK
    <3>2. refs'[i] = refs[i]
      BY <1>1, <2>4 DEF Decrement, TypeOK
    <3>3. Owned(i)' = Owned(i)
      BY <2>2, <3>1, OwnedType, OwnedNext
    <3>4. QED
      BY <2>1, <3>2, <3>3
  <2>5. QED
    BY <2>3, <2>4
<1>3. RefsCounted'
  BY <1>2 DEF RefsCounted
<1>4. Settled'
  BY DEF Counting, Settled, Trackers, TypeOK
<1>5. QED
  BY <1>3, <1>4 DEF Counting

\* What the service does to its own references keeps the counts.
LEMMA ServiceCounts ==
  ASSUME TypeOK, Counting, Service
  PROVE  Counting'
<1> USE DEF threadVars, historyVars
<1>1. tracked' = tracked /\ pc' = pc /\ strayed' = strayed /\ leaked' = leaked
  BY DEF Service, RegisterObject, AddRef, DropRef
<1>2. \A i \in Ids : Trackers(i)' = Trackers(i)
  BY <1>1 DEF Trackers
<1>3. ASSUME NEW id \in Ids, nextId' \in {nextId, id + 1}, nextId' >= nextId, id < nextId',
             held' = [held EXCEPT ![id] = held'[id]], refs' = [refs EXCEPT ![id] = refs'[id]],
             held'[id] \in Nat, refs'[id] \in Nat,
             \/ refs'[id] - refs[id] = held'[id] - held[id]
             \/ refs'[id] = 0 /\ refs[id] = 0 /\ id \in strayed
      PROVE  Counting'
  <2>1. ASSUME NEW i \in Ids
        PROVE  refs'[i] <= Owned(i)' /\ (i \notin strayed' => refs'[i] = Owned(i)')
    <3>1. refs[i] <= Owned(i) /\ (i \notin strayed => refs[i] = Owned(i))
      BY DEF Counting, RefsCounted
    <3>2. Owned(i)' = Cardinality(Trackers(i)) + held'[i] + leaked[i]
      BY <1>1, <1>2, OwnedNext
    <3>3. CASE i = id
      <4>1. /\ Owned(i) = Cardinality(Trackers(i)) + held[i] + leaked[i]
            /\ Cardinality(Trackers(i)) \in Nat /\ refs[i] \in Nat /\ held[i] \in Nat
            /\ leaked[i] \in Nat
        BY OwnedType
      <4>2. Owned(i)' = Owned(i) + (held'[i] - held[i]) /\ held'[i] \in Nat
        BY <1>3, <3>2, <3>3, <4>1
      <4>3. CASE refs'[i] - refs[i] = held'[i] - held[i]
        BY <1>1, <1>3, <3>1, <3>3, <4>1, <4>2, <4>3
      <4>4. CASE refs'[i] = 0 /\ i \in strayed
        BY <1>1, <1>3, <3>2, <3>3, <4>1, <4>4
      <4>5. QED
        BY <1>3, <3>3, <4>3, <4>4
    <3>4. CASE i # id
      <4>1. refs'[i] = refs[i] /\ held'[i] = held[i]
        BY <1>3, <3>4 DEF TypeOK
      <4>2. QED
        BY <1>1, <3>1, <3>2, <4>1, OwnedType
    <3>5. QED
      BY <3>3, <3>4
  <2>2. RefsCounted'
    BY <2>1 DEF RefsCounted
  <2>3. ASSUME NEW i \in Ids, i >= nextId'
        PROVE  held'[i] = 0 /\ Trackers(i)' = {} /\ leaked'[i] = 0
    <3>1. i >= nextId /\ i # id
      BY <1>3, <2>3 DEF TypeOK, Ids
    <3>2. held'[i] = held[i]
      BY <1>3, <3>1 DEF TypeOK
    <3>3. QED
      BY <1>1, <1>2, <3>1, <3>2, NextIsFresh
  <2>4. Settled'
    BY <1>1, <2>3 DEF Counting, Settled
  <2>5. QED
    BY <2>2, <2>4 DEF Counting
<1>4. CASE RegisterObject
  <2>1. PICK id \in Ids : NewObject(id) /\ held' = [held EXCEPT ![id] = 1]
    BY <1>4 DEF RegisterObject
  <2>2. refs[id] = 0 /\ held[id] = 0
    BY <2>1, NextIsFresh DEF NewObject, TypeOK, Ids
  <2>3. nextId' = id + 1 /\ nextId = id /\ refs' = [refs EXCEPT ![id] = 1]
    BY <2>1 DEF NewObject
  <2>4. /\ refs'[id] = 1 /\ held'[id] = 1
        /\ held' = [held EXCEPT ![id] = held'[id]] /\ refs' = [refs EXCEPT ![id] = refs'[id]]
    BY <2>1, <2>3 DEF TypeOK
  <2>5. nextId' \in {nextId, id + 1} /\ nextId' >= nextId /\ id < nextId'
    BY <2>3 DEF TypeOK, Ids
  <2>6. refs'[id] - refs[id] = held'[id] - held[id]
    BY <2>2, <2>4
  <2>7. QED
    BY <1>3, <2>4, <2>5, <2>6
<1>5. ASSUME NEW id \in Ids, refs[id] > 0 \/ held[id] > 0 PROVE id < nextId
  <2>1. ~(id >= nextId)
    BY <1>5, NextIsFresh DEF TypeOK
  <2>2. QED
    BY <2>1 DEF TypeOK, Ids
<1>6. ASSUME NEW id \in Ids, AddRef(id) PROVE Counting'
  <2>1. id < nextId /\ nextId' = nextId
    BY <1>5, <1>6 DEF AddRef, Exists
  <2>2. /\ refs'[id] = refs[id] + 1 /\ held'[id] = held[id] + 1
        /\ held' = [held EXCEPT ![id] = held'[id]] /\ refs' = [refs EXCEPT ![id] = refs'[id]]
    BY <1>6 DEF AddRef, TypeOK
  <2>3. held'[id] \in Nat /\ refs'[id] \in Nat /\ refs'[id] - refs[id] = held'[id] - held[id]
    BY <2>2, OwnedType
  <2>4. nextId' \in {nextId, id + 1} /\ nextId' >= nextId /\ id < nextId'
    BY <2>1 DEF TypeOK
  <2>5. QED
    BY <1>3, <2>2, <2>3, <2>4
<1>7. ASSUME NEW id \in Ids, DropRef(id) PROVE Counting'
  <2>1. id < nextId /\ nextId' = nextId /\ held[id] > 0
    BY <1>5, <1>7 DEF DropRef
  <2>2. /\ held'[id] = held[id] - 1 /\ held' = [held EXCEPT ![id] = held'[id]]
        /\ refs' = [refs EXCEPT ![id] = refs'[id]]
        /\ refs'[id] = IF refs[id] > 0 THEN refs[id] - 1 ELSE refs[id]
    BY <1>7 DEF DropRef, Decrement, Exists, TypeOK
  <2>3. refs[id] = 0 => id \in strayed
    <3>1. id \notin strayed => refs[id] = Owned(id)
      BY DEF Counting, RefsCounted
    <3>2. QED
      BY <2>1, <3>1, OwnedType
  <2>4. held'[id] \in Nat /\ refs'[id] \in Nat
    BY <2>1, <2>2, OwnedType
  <2>5. refs'[id] - refs[id] = held'[id] - held[id]
        \/ (refs'[id] = 0 /\ refs[id] = 0 /\ id \in strayed)
    BY <2>2, <2>3, OwnedType
  <2>6. QED
    BY <1>3, <2>1, <2>2, <2>4, <2>5 DEF TypeOK
<1>8. QED
  BY <1>4, <1>6, <1>7 DEF Service

\* A step that leaves the counts and who has what alone, and gives no locals up
\* while something is tracked.
LEMMA OthersCount ==
  ASSUME TypeOK, Counting, UNCHANGED <<refs, nextId, held, tracked, strayed, leaked>>,
         NEW t \in Transports, NEW p, pc' = pc \/ pc' = [pc EXCEPT ![t] = p],
         p \in {"free", "closing"} => tracked[t] = {}
  PROVE  Counting'
BY DEF Counting, RefsCounted, Owned, Settled, Trackers, TypeOK

\* A thread that ends loses what its connection tracks: those references count
\* as lost from now on.
LEMMA GoneCounts ==
  ASSUME TypeOK, Counting, NEW t \in Transports, Gone(t),
         UNCHANGED <<refs, nextId, held, strayed>>
  PROVE  Counting'
<1>1. /\ tracked' = [tracked EXCEPT ![t] = {}] /\ pc' = [pc EXCEPT ![t] = "free"]
      /\ leaked' = [i \in Ids |-> leaked[i] + IF i \in tracked[t] THEN 1 ELSE 0]
  BY DEF Gone, Done, Go
<1>2. ASSUME NEW i \in Ids PROVE Owned(i)' = Owned(i)
  <2>1. CASE i \in tracked[t]
    <3>1. Trackers(i)' = Trackers(i) \ {t} /\ t \in Trackers(i)
      BY <1>1, <2>1 DEF Trackers, TypeOK
    <3>2. Cardinality(Trackers(i)') = Cardinality(Trackers(i)) - 1
      BY <3>1, OwnedType, FS_RemoveElement
    <3>3. leaked'[i] = leaked[i] + 1 /\ held'[i] = held[i]
      BY <1>1, <2>1
    <3>4. QED
      BY <3>2, <3>3, OwnedType, OwnedNext
  <2>2. CASE i \notin tracked[t]
    <3>1. Trackers(i)' = Trackers(i)
      BY <1>1, <2>2 DEF Trackers, TypeOK
    <3>2. leaked'[i] = leaked[i] + 0 /\ held'[i] = held[i]
      BY <1>1, <2>2
    <3>3. QED
      BY <3>1, <3>2, OwnedType, OwnedNext
  <2>3. QED
    BY <2>1, <2>2
<1>3. RefsCounted'
  BY <1>2 DEF Counting, RefsCounted
<1>4. ASSUME NEW i \in Ids, i >= nextId'
      PROVE  held'[i] = 0 /\ Trackers(i)' = {} /\ leaked'[i] = 0
  <2>1. held[i] = 0 /\ Trackers(i) = {} /\ leaked[i] = 0
    BY <1>4, NextIsFresh
  <2>2. i \notin tracked[t]
    BY <2>1 DEF Trackers
  <2>3. Trackers(i)' = {}
    BY <1>1, <2>1 DEF Trackers, TypeOK
  <2>4. leaked'[i] = leaked[i] + 0
    BY <1>1, <2>2
  <2>5. QED
    BY <2>1, <2>3, <2>4
<1>5. \A u \in Transports : pc'[u] \in {"free", "closing"} => tracked'[u] = {}
  BY <1>1 DEF Counting, Settled, TypeOK
<1>6. Settled'
  BY <1>4, <1>5 DEF Settled
<1>7. QED
  BY <1>3, <1>6 DEF Counting

\* A connection's objects are given up one by one, and then its locals; or an
\* exception gives them up at once.
LEMMA ConnectionCounts ==
  ASSUME TypeOK, Counting, NEW t \in Transports,
         \/ Accept(t) \/ Disconnect(t) \/ Leave(t) \/ Abandon(t) \/ CleanUp(t)
  PROVE  Counting'
<1> USE DEF registryVars, threadVars, historyVars, Go, At
<1>1. CASE Accept(t) \/ Leave(t) \/ Disconnect(t)
  BY <1>1, OthersCount DEF Accept, Leave, Disconnect
<1>2. CASE ReleaseTracked(t)
  BY <1>2, ReleaseCounts DEF ReleaseTracked
<1>3. CASE UnsubscribeAll(t)
  BY <1>3, OthersCount DEF UnsubscribeAll
<1>4. CASE Close(t) \/ Abandon(t)
  BY <1>4, GoneCounts DEF Close, Abandon
<1>5. QED
  BY <1>1, <1>2, <1>3, <1>4 DEF CleanUp

\* A new object has one reference, of the connection that creates it.
LEMMA CreateCounts ==
  ASSUME TypeOK, Counting, NEW t \in Transports, Create(t)
  PROVE  Counting'
<1>1. PICK id \in Ids : NewObject(id) /\ tracked' = [tracked EXCEPT ![t] = @ \cup {id}]
  BY DEF Create
<1>2. held[id] = 0 /\ Trackers(id) = {} /\ leaked[id] = 0 /\ refs[id] = 0
  BY <1>1, NextIsFresh DEF NewObject, TypeOK, Ids
<1>3. /\ held' = held /\ pc' = [pc EXCEPT ![t] = "replying"]
      /\ strayed' = strayed /\ leaked' = leaked
  BY DEF Create, Go, historyVars
<1>4. ASSUME NEW i \in Ids
      PROVE  refs'[i] <= Owned(i)' /\ (i \notin strayed' => refs'[i] = Owned(i)')
  <2>1. CASE i = id
    <3>1. Trackers(i)' = {t}
      BY <1>1, <1>2, <2>1 DEF Trackers, TypeOK
    <3>2. Cardinality(Trackers(i)') = 1
      BY <3>1, FS_Singleton
    <3>3. refs'[i] = 1 /\ held'[i] = 0 /\ leaked'[i] = 0
      BY <1>1, <1>2, <1>3, <2>1 DEF NewObject, TypeOK
    <3>4. QED
      BY <3>2, <3>3, OwnedNext
  <2>2. CASE i # id
    <3>1. Trackers(i)' = Trackers(i)
      BY <1>1, <2>2 DEF Trackers, TypeOK
    <3>2. refs'[i] = refs[i] /\ held'[i] = held[i] /\ leaked'[i] = leaked[i]
      BY <1>1, <1>3, <2>2 DEF NewObject, TypeOK
    <3>3. Owned(i)' = Owned(i)
      BY <3>1, <3>2, OwnedType, OwnedNext
    <3>4. QED
      BY <1>3, <3>2, <3>3 DEF Counting, RefsCounted
  <2>3. QED
    BY <2>1, <2>2
<1>5. ASSUME NEW i \in Ids, i >= nextId'
      PROVE  held'[i] = 0 /\ Trackers(i)' = {} /\ leaked'[i] = 0
  <2>1. i >= nextId /\ i # id
    BY <1>1, <1>5 DEF NewObject, TypeOK, Ids
  <2>2. held[i] = 0 /\ Trackers(i) = {} /\ leaked[i] = 0
    BY <2>1, NextIsFresh
  <2>3. QED
    BY <1>1, <1>3, <2>1, <2>2 DEF Trackers, TypeOK
<1>6. \A u \in Transports : pc'[u] \in {"free", "closing"} => tracked'[u] = {}
  BY <1>1, <1>3 DEF Counting, Settled, TypeOK
<1>7. RefsCounted' /\ Settled'
  BY <1>4, <1>5, <1>6 DEF RefsCounted, Settled
<1>8. QED
  BY <1>7 DEF Counting

\* A client that does not have the object makes the count too low, if at all.
LEMMA StrayCounts ==
  ASSUME TypeOK, Counting, NEW id \in Ids, Decrement(id), tracked' = tracked,
         strayed' = strayed \cup {id}, UNCHANGED <<held, nextId, pc, leaked>>
  PROVE  Counting'
<1>1. \A i \in Ids : refs'[i] <= refs[i] /\ (i # id => refs'[i] = refs[i])
  BY DEF Decrement, TypeOK
<1>2. \A i \in Ids : Owned(i)' = Owned(i) /\ Trackers(i)' = Trackers(i)
  BY DEF Owned, Trackers
<1>3. \A i \in Ids : refs'[i] \in Int
  BY DecrementType
<1>4. RefsCounted'
  BY <1>1, <1>2, <1>3, OwnedType DEF Counting, RefsCounted
<1>5. Settled'
  BY <1>2 DEF Counting, Settled
<1>6. QED
  BY <1>4, <1>5 DEF Counting

\* Creates and releases count; a client's other requests do not.
LEMMA RequestCounts ==
  ASSUME TypeOK, Counting, NEW t \in Transports, Request(t)
  PROVE  Counting'
<1> USE DEF registryVars, threadVars, historyVars, Go
<1>1. CASE CreateFails(t)
  BY <1>1, OthersCount DEF CreateFails
<1>2. ASSUME NEW id \in Ids, Release(t, id) PROVE Counting'
  <2>1. CASE id \in tracked[t]
    BY <1>2, <2>1, ReleaseCounts DEF Release
  <2>2. CASE id \notin tracked[t]
    <3>1. tracked' = tracked
      BY <1>2, <2>2 DEF Release, TypeOK
    <3>2. QED
      BY <1>2, <2>2, <3>1, StrayCounts DEF Release
  <2>3. QED
    BY <2>1, <2>2
<1>3. ASSUME NEW id \in Ids, Unsubscribe(t, id) PROVE Counting'
  BY <1>3, OthersCount DEF Unsubscribe
<1>4. ASSUME NEW id \in Ids, Subscribe(t, id) PROVE Counting'
  BY <1>4, OthersCount DEF Subscribe
<1>5. ASSUME NEW id \in Ids, NEW request \in {"get", "set"}, Lookup(t, id, request)
      PROVE  Counting'
  BY <1>5, OthersCount DEF Lookup
<1>6. QED
  BY <1>1, <1>2, <1>3, <1>4, <1>5, CreateCounts DEF Request

\* Nor does the handling of a request, but for the exception of a reply.
LEMMA HandleCounts ==
  ASSUME TypeOK, Counting, NEW t \in Transports, Handle(t)
  PROVE  Counting'
<1> USE DEF registryVars, threadVars, historyVars, Go, Done
<1>1. CASE UseFreed(t)
  BY <1>1, OthersCount DEF UseFreed
<1>2. CASE Get(t) \/ Wire(t) \/ Notified(t)
  BY <1>2, OthersCount DEF Get, Wire, Notified
<1>3. CASE Set(t) \/ CopyTargets(t)
  BY <1>3, OthersCount DEF Set, CopyTargets
<1>4. CASE FindToWire(t)
  BY <1>4, OthersCount DEF FindToWire
<1>5. ASSUME NEW u \in Transports, SendNotify(t, u) \/ SendToFreed(t, u) PROVE Counting'
  BY <1>5, OthersCount DEF SendNotify, SendToFreed
<1>6. CASE Reply(t)
  BY <1>6, OthersCount DEF Reply
<1>7. CASE ReplyThrows(t)
  BY <1>7, GoneCounts DEF ReplyThrows
<1>8. QED
  BY <1>1, <1>2, <1>3, <1>4, <1>5, <1>6, <1>7 DEF Handle, Working, Writing

\* The counting invariant is preserved by every step.
LEMMA CountingStep ==
  ASSUME TypeOK, Counting, [Next]_vars
  PROVE  Counting'
<1>1. CASE UNCHANGED vars
  BY <1>1 DEF vars, registryVars, threadVars, historyVars, Counting, RefsCounted, Owned,
              Settled, Trackers
<1>2. QED
  BY <1>1, ServiceCounts, ConnectionCounts, RequestCounts, HandleCounts DEF Next

\* It holds at the start.
LEMMA CountingInit == Init => Counting
<1> SUFFICES ASSUME Init PROVE Counting
  OBVIOUS
<1>1. \A id \in Ids : Trackers(id) = {} /\ held[id] = 0 /\ refs[id] = 0 /\ leaked[id] = 0
  BY DEF Init, Trackers
<1>2. \A id \in Ids : Owned(id) = 0
  BY <1>1, FS_EmptySet DEF Owned, Trackers
<1>3. QED
  BY <1>1, <1>2 DEF Init, Counting, RefsCounted, Settled

\* The count of an object in the ObjectRegistry is that of the connections that
\* track it, the service's own references and those that an exception lost, and
\* at most that once a client released an object it does not have: whatever the
\* order of creates, releases, exceptions, disconnects and accepts.  For every
\* number of clients and objects, and in every mode.
THEOREM RefsStayCounted == Spec => []RefsCounted
<1>1. TypeOK /\ Counting /\ [Next]_vars => Counting'
  BY CountingStep
<1>2. Counting => RefsCounted
  BY DEF Counting
<1>3. QED
  BY <1>1, <1>2, CountingInit, TypeCorrect, PTL DEF Spec

\* The plain pointer ObjectRegistry::get() returned outlives its object in two
\* ways only: a client released an object it does not have, or this one works on
\* an object of another client, which let it go.  Both are what README.md:771
\* allows.  For every number of clients and objects, and in every mode.
THEOREM OwnPointersStayLive == Spec => []OwnPointersLive
<1>1. TypeOK /\ Pointing /\ RefsCounted => OwnPointersLive
  <2> SUFFICES ASSUME TypeOK, Pointing, RefsCounted, NEW t \in Transports,
                      pc[t] \in {"holding", "notifying"}, object[t] \notin strayed,
                      object[t] \in tracked[t] \/ held[object[t]] # 0
               PROVE  Exists(object[t])
    BY DEF OwnPointersLive
  <2>1. object[t] \in Ids
    BY DEF Pointing, Pointed
  <2>2. object[t] \in tracked[t] \/ held[object[t]] > 0
    BY <2>1 DEF TypeOK
  <2>3. QED
    BY <2>1, <2>2, OwnedExists
<1>2. QED
  BY <1>1, TypedAlways, RefsStayCounted, PTL DEF Typed

-----------------------------------------------------------------------------
(* While clients use what they created and what the service keeps, a       *)
(* thread works on what its own connection tracks or the service keeps     *)
(* until it is done with it, so the object stays.                          *)

Keeps ==
  \A t \in Transports : pc[t] \in {"subscribed", "holding", "notifying"} =>
    object[t] \in tracked[t] \/ held[object[t]] > 0

\* A step of thread t takes nothing from the others, nor what it works on.
Spares(t) ==
  /\ held' = held
  /\ \/ tracked' = tracked
     \/ \E S : tracked' = [tracked EXCEPT ![t] = S] /\ pc'[t] \notin Pointed

\* So of a connection and its clean-up,
LEMMA ConnectionSpares ==
  ASSUME TypeOK, NEW t \in Transports,
         \/ Accept(t) \/ Disconnect(t) \/ Leave(t) \/ Abandon(t) \/ CleanUp(t)
  PROVE  Spares(t)
<1> USE DEF Spares, threadVars
<1>1. CASE Accept(t) \/ Leave(t) \/ Disconnect(t) \/ UnsubscribeAll(t)
  BY <1>1 DEF Accept, Leave, Disconnect, UnsubscribeAll
<1>2. CASE ReleaseTracked(t)
  <2>1. pc'[t] \notin Pointed
    BY <1>2 DEF ReleaseTracked, At, Pointed
  <2>2. QED
    BY <1>2, <2>1 DEF ReleaseTracked
<1>3. CASE Abandon(t) \/ Close(t)
  <2>1. pc'[t] = "free" /\ tracked' = [tracked EXCEPT ![t] = {}] /\ held' = held
    BY <1>3 DEF Abandon, Close, Gone, Done, Go, TypeOK
  <2>2. QED
    BY <2>1 DEF Pointed
<1> HIDE DEF Spares
<1>4. QED
  BY <1>1, <1>2, <1>3 DEF CleanUp

\* of the reading of a request,
LEMMA RequestSpares ==
  ASSUME TypeOK, NEW t \in Transports, Request(t)
  PROVE  Spares(t)
<1> USE DEF Spares, threadVars
<1>1. CASE Create(t)
  <2>1. pc'[t] \notin Pointed
    BY <1>1 DEF Create, Go, Pointed, TypeOK
  <2>2. QED
    BY <1>1, <2>1 DEF Create
<1>2. ASSUME NEW id \in Ids, Release(t, id) PROVE Spares(t)
  <2>1. pc'[t] \notin Pointed
    BY <1>2 DEF Release, Reading, At, Pointed
  <2>2. QED
    BY <1>2, <2>1 DEF Release
<1>3. CASE CreateFails(t)
  BY <1>3 DEF CreateFails
<1>4. ASSUME NEW id \in Ids, Unsubscribe(t, id) \/ Subscribe(t, id) PROVE Spares(t)
  BY <1>4 DEF Unsubscribe, Subscribe
<1>5. ASSUME NEW id \in Ids, NEW request \in {"get", "set"}, Lookup(t, id, request)
      PROVE  Spares(t)
  BY <1>5 DEF Lookup
<1> HIDE DEF Spares
<1>6. QED
  BY <1>1, <1>2, <1>3, <1>4, <1>5 DEF Request

\* and of its handling.
LEMMA HandleSpares ==
  ASSUME TypeOK, NEW t \in Transports, Handle(t)
  PROVE  Spares(t)
<1> USE DEF Spares, threadVars
<1>1. CASE UseFreed(t) \/ Get(t) \/ Set(t) \/ Wire(t) \/ CopyTargets(t) \/ Notified(t)
  BY <1>1 DEF UseFreed, Get, Set, Wire, CopyTargets, Notified
<1>2. CASE FindToWire(t) \/ Reply(t)
  BY <1>2 DEF FindToWire, Reply
<1>3. ASSUME NEW u \in Transports, SendNotify(t, u) \/ SendToFreed(t, u) PROVE Spares(t)
  BY <1>3 DEF SendNotify, SendToFreed
<1>4. CASE ReplyThrows(t)
  <2>1. pc'[t] = "free" /\ tracked' = [tracked EXCEPT ![t] = {}] /\ held' = held
    BY <1>4 DEF ReplyThrows, Gone, Done, Go, TypeOK
  <2>2. QED
    BY <2>1 DEF Pointed
<1> HIDE DEF Spares
<1>5. QED
  BY <1>1, <1>2, <1>3, <1>4 DEF Handle, Working, Writing

\* Such a step, being a move too, leaves every thread what it works on.
LEMMA MoveKeeps ==
  ASSUME TypeOK, Keeps, ~CrossClient, NEW t \in Transports, Moves(t), Spares(t)
  PROVE  Keeps'
<1> SUFFICES ASSUME NEW u \in Transports, pc'[u] \in {"subscribed", "holding", "notifying"}
             PROVE  object'[u] \in tracked'[u] \/ held'[object'[u]] > 0
  BY DEF Keeps
<1>1. tracked'[u] = tracked[u] /\ held' = held
  BY DEF Spares, Pointed, TypeOK
<1>2. CASE u # t
  <2>1. pc'[u] = pc[u] /\ object'[u] = object[u]
    BY <1>2 DEF Moves, TypeOK
  <2>2. QED
    BY <1>1, <2>1 DEF Keeps
<1>3. CASE u = t
  <2>1. CASE pc' = pc /\ object' = object
    BY <1>1, <2>1 DEF Keeps
  <2>2. ASSUME NEW p \in Places \ Pointed, pc' = [pc EXCEPT ![t] = p] PROVE FALSE
    BY <1>3, <2>2 DEF TypeOK, Pointed
  <2>3. CASE /\ pc[t] \in Pointed /\ object' = object
             /\ pc[t] = "sending" => pc'[t] = "sending"
    BY <1>1, <1>3, <2>3 DEF Keeps, Pointed
  <2>4. ASSUME NEW id \in Usable(t), object' = [object EXCEPT ![t] = id]
        PROVE  object'[u] \in tracked'[u] \/ held'[object'[u]] > 0
    BY <1>1, <1>3, <2>4 DEF Usable, TypeOK
  <2>5. QED
    BY <2>1, <2>2, <2>3, <2>4 DEF Moves
<1>4. QED
  BY <1>2, <1>3

\* The service keeps its last reference.
LEMMA ServiceKeeps ==
  ASSUME TypeOK, Pointing, Keeps, ~CrossClient, Service
  PROVE  Keeps'
<1>1. pc' = pc /\ object' = object /\ tracked' = tracked
  BY DEF Service, RegisterObject, AddRef, DropRef, threadVars
<1>2. ASSUME NEW id \in Ids, held[id] > 0 PROVE held'[id] > 0
  <2>1. CASE RegisterObject
    BY <1>2, <2>1 DEF RegisterObject, TypeOK
  <2>2. ASSUME NEW i \in Ids, AddRef(i) PROVE held'[id] > 0
    BY <1>2, <2>2 DEF AddRef, TypeOK
  <2>3. ASSUME NEW i \in Ids, DropRef(i) PROVE held'[id] > 0
    BY <1>2, <2>3 DEF DropRef, TypeOK
  <2>4. QED
    BY <2>1, <2>2, <2>3 DEF Service
<1>3. QED
  BY <1>1, <1>2 DEF Keeps, Pointing, Pointed

\* So it is in every state.
LEMMA KeepsAlways ==
  ASSUME ~CrossClient, ~Throws
  PROVE  Spec => []Keeps
<1>1. Init => Keeps
  BY DEF Init, Keeps
<1>2. TypeOK /\ Pointing /\ Keeps /\ [Next]_vars => Keeps'
  <2> SUFFICES ASSUME TypeOK, Pointing, Keeps, [Next]_vars PROVE Keeps'
    OBVIOUS
  <2>1. CASE UNCHANGED vars
    BY <2>1 DEF vars, threadVars, Keeps
  <2>2. ASSUME NEW t \in Transports,
               \/ Accept(t) \/ Disconnect(t) \/ Leave(t) \/ Abandon(t) \/ CleanUp(t)
        PROVE  Keeps'
    BY <2>2, ConnectionMoves, ConnectionSpares, MoveKeeps
  <2>3. ASSUME NEW t \in Transports, Request(t) PROVE Keeps'
    BY <2>3, RequestMoves, RequestSpares, MoveKeeps
  <2>4. ASSUME NEW t \in Transports, Handle(t) PROVE Keeps'
    BY <2>4, HandleMoves, HandleSpares, MoveKeeps
  <2>5. QED
    BY <2>1, <2>2, <2>3, <2>4, ServiceKeeps DEF Next
<1>3. QED
  BY <1>1, <1>2, TypedAlways, PTL DEF Spec, Typed

\* What is tracked or kept has a count, so it exists.
LEMMA KeptExists ==
  ASSUME TypeOK, Pointing, Keeps, RefsCounted, strayed = {},
         NEW t \in Transports, pc[t] \in {"subscribed", "holding", "notifying"}
  PROVE  Exists(object[t])
<1>1. object[t] \in Ids /\ object[t] \notin strayed
  BY DEF Pointing, Pointed
<1>2. QED
  BY <1>1, OwnedExists DEF Keeps

NoStrays == strayed = {}

\* No client releases what it does not have.
LEMMA NoneStray ==
  ASSUME ~CrossClient
  PROVE  Spec => []NoStrays
<1>1. Init => NoStrays
  BY DEF Init, NoStrays
<1>2. NoStrays /\ [Next]_vars => NoStrays'
  <2> SUFFICES ASSUME NoStrays, [Next]_vars PROVE NoStrays'
    OBVIOUS
  <2> USE DEF historyVars, NoStrays
  <2>1. CASE Service \/ UNCHANGED vars
    BY <2>1 DEF Service, RegisterObject, AddRef, DropRef, vars
  <2>2. ASSUME NEW t \in Transports,
               \/ Accept(t) \/ Disconnect(t) \/ Leave(t) \/ Abandon(t) \/ CleanUp(t)
        PROVE  NoStrays'
    BY <2>2 DEF Accept, Disconnect, Leave, Abandon, CleanUp, ReleaseTracked, UnsubscribeAll,
                Close
  <2>3. ASSUME NEW t \in Transports, Request(t) PROVE NoStrays'
    <3>1. ASSUME NEW id \in Ids, Release(t, id) PROVE NoStrays'
      BY <3>1 DEF Release, Releasable
    <3>2. QED
      BY <2>3, <3>1 DEF Request, Create, CreateFails, Subscribe, Unsubscribe, Lookup
  <2>4. ASSUME NEW t \in Transports, Handle(t) PROVE NoStrays'
    BY <2>4 DEF Handle, Working, Writing, UseFreed, Get, Set, FindToWire, Wire, CopyTargets,
                Notified, SendNotify, SendToFreed, Reply, ReplyThrows
  <2>5. QED
    BY <2>1, <2>2, <2>3, <2>4 DEF Next
<1>3. QED
  BY <1>1, <1>2, PTL DEF Spec

-----------------------------------------------------------------------------
(* Notifications, with one writer.                                         *)

\* Thread t has recorded its subscription to id and has not told the object.
Wiring(t, id) == /\ object[t] = id
                 /\ pc[t] = "subscribed" \/ (pc[t] = "holding" /\ op[t] = "wire")

Latest(t, id) == seen[t][id] = value[id] \/ since[t][id] = value[id]

\* Some setter of id has still to tell t.
Underway(t, id) ==
  \E w \in Writers : /\ object[w] = id
                     /\ pc[w] = "notifying" \/ (pc[w] = "sending" /\ t \in targets[w])

\* What a subscriber has been told is current, or it will be told.
Told == \A id \in Ids, t \in Transports :
  <<id, t>> \in subs /\ peer[t] /\ ~Wiring(t, id) =>
    id \in wired /\ (Latest(t, id) \/ Underway(t, id))

\* Only writers change a property, and what a setter sends is the value it set.
Setting ==
  \A w \in Transports :
    /\ pc[w] = "holding" /\ op[w] = "set" => w \in Writers
    /\ pc[w] \in {"notifying", "sending"} =>
         w \in Writers /\ payload[w] = value[object[w]]

\* Thread t is at nothing a subscriber waits for, or stays where it is; the
\* others stay as they are.
Aside(t) ==
  /\ \A u \in Transports : u # t => /\ pc'[u] = pc[u] /\ object'[u] = object[u]
                                    /\ op'[u] = op[u]
  /\ \/ pc'[t] = pc[t] /\ object'[t] = object[t] /\ op'[t] = op[t]
     \/ pc[t] \notin {"subscribed", "notifying", "sending"} /\
        ~(pc[t] = "holding" /\ op[t] = "wire")

\* Such a step, when it adds no subscriber and changes nothing said or heard,
\* leaves every subscriber as it was.
LEMMA AsideTold ==
  ASSUME TypeOK, Told, NEW t \in Transports, Aside(t), subs' \subseteq subs,
         \A u \in Transports : peer'[u] => peer[u],
         UNCHANGED <<value, wired, targets, seen, since>>
  PROVE  Told'
<1> SUFFICES ASSUME NEW id \in Ids, NEW u \in Transports, <<id, u>> \in subs', peer'[u],
                    ~Wiring(u, id)'
             PROVE  id \in wired' /\ (Latest(u, id)' \/ Underway(u, id)')
  BY DEF Told
<1>1. ~Wiring(u, id)
  BY DEF Aside, Wiring
<1>2. id \in wired /\ (Latest(u, id) \/ Underway(u, id))
  BY <1>1 DEF Told
<1>3. Underway(u, id) => Underway(u, id)'
  BY ObjectServerAssumption DEF Underway, Aside
<1>4. QED
  BY <1>2, <1>3 DEF Latest

\* Nor does it touch a setter.
LEMMA AsideSetting ==
  ASSUME TypeOK, Setting, NEW t \in Transports, Aside(t), value' = value,
         \A u \in Transports : u # t => payload'[u] = payload[u],
         \/ /\ pc'[t] = pc[t] /\ object'[t] = object[t] /\ op'[t] = op[t]
            /\ payload'[t] = payload[t]
         \/ /\ pc'[t] \notin {"notifying", "sending"}
            /\ pc'[t] = "holding" /\ op'[t] = "set" => t \in Writers
  PROVE  Setting'
BY DEF Setting, Aside

\* A connection that opens, and one that is closed, has no subscription.
LEMMA FreshTold ==
  ASSUME TypeOK, NoGhosts, Told, Setting, NEW t \in Transports, Accept(t) \/ Close(t)
  PROVE  Told' /\ Setting'
<1>1. /\ pc[t] \in {"free", "closing"} /\ pc'[t] \in {"free", "idle"}
      /\ \A u \in Transports : u # t =>
           /\ pc'[u] = pc[u] /\ object'[u] = object[u] /\ op'[u] = op[u]
           /\ payload'[u] = payload[u] /\ peer'[u] = peer[u]
           /\ seen'[u] = seen[u] /\ since'[u] = since[u]
      /\ UNCHANGED <<value, wired, subs, targets>>
  BY DEF Accept, Close, Gone, Done, Go, At, TypeOK, objectVars, threadVars
<1>2. Setting'
  BY <1>1 DEF Setting
<1>3. Told'
  <2> SUFFICES ASSUME NEW id \in Ids, NEW u \in Transports, <<id, u>> \in subs', peer'[u],
                      ~Wiring(u, id)'
               PROVE  id \in wired' /\ (Latest(u, id)' \/ Underway(u, id)')
    BY DEF Told
  <2>1. u # t
    BY <1>1 DEF NoGhosts
  <2>2. id \in wired /\ (Latest(u, id) \/ Underway(u, id))
    BY <1>1, <2>1 DEF Told, Wiring
  <2>3. Underway(u, id) => Underway(u, id)'
    BY <1>1, ObjectServerAssumption DEF Underway
  <2>4. QED
    BY <1>1, <2>1, <2>2, <2>3 DEF Latest
<1>4. QED
  BY <1>2, <1>3

\* Steps of a connection and of its clean-up keep what subscribers were told.
LEMMA ConnectionTold ==
  ASSUME TypeOK, NoGhosts, Told, Setting, ~Throws, NEW t \in Transports,
         \/ Accept(t) \/ Disconnect(t) \/ Leave(t) \/ Abandon(t) \/ CleanUp(t)
  PROVE  Told' /\ Setting'
<1>1. CASE Accept(t) \/ Close(t)
  BY <1>1, FreshTold
<1>2. CASE Disconnect(t) \/ ReleaseTracked(t)
  <2>1. /\ Aside(t) /\ subs' = subs /\ UNCHANGED <<pc, object, op, payload>>
        /\ UNCHANGED <<value, wired, targets, seen, since>>
    BY <1>2 DEF Disconnect, ReleaseTracked, Aside, threadVars, objectVars, historyVars
  <2>2. \A u \in Transports : peer'[u] => peer[u]
    BY <1>2 DEF Disconnect, ReleaseTracked, TypeOK
  <2>3. QED
    BY <2>1, <2>2, AsideTold, AsideSetting
<1>3. CASE Leave(t) \/ UnsubscribeAll(t)
  <2>1. /\ Aside(t) /\ subs' \subseteq subs /\ UNCHANGED <<payload, peer>>
        /\ UNCHANGED <<value, wired, targets, seen, since>>
        /\ pc'[t] \in {"leaving", "closing"}
    BY <1>3 DEF Leave, UnsubscribeAll, Aside, At, Go, threadVars, objectVars, historyVars,
                TypeOK
  <2>2. QED
    BY <2>1, AsideTold, AsideSetting
<1>4. QED
  BY <1>1, <1>2, <1>3 DEF Abandon, CleanUp

\* A thread subscribes: it has still to tell the object.
LEMMA SubscribeTold ==
  ASSUME TypeOK, Told, Setting, NEW t \in Transports, NEW id \in Ids, Subscribe(t, id)
  PROVE  Told' /\ Setting'
<1>1. /\ pc[t] = "idle" /\ pc'[t] = "subscribed" /\ object'[t] = id
      /\ \A u \in Transports : u # t => pc'[u] = pc[u] /\ object'[u] = object[u]
      /\ subs' = subs \cup {<<id, t>>}
      /\ UNCHANGED <<value, wired, op, payload, targets, peer, seen, since>>
  BY DEF Subscribe, Reading, At, Go, TypeOK, objectVars, historyVars
<1>2. Setting'
  BY <1>1 DEF Setting
<1>3. Told'
  <2> SUFFICES ASSUME NEW i \in Ids, NEW u \in Transports, <<i, u>> \in subs', peer'[u],
                      ~Wiring(u, i)'
               PROVE  i \in wired' /\ (Latest(u, i)' \/ Underway(u, i)')
    BY DEF Told
  <2>1. <<i, u>> # <<id, t>>
    BY <1>1 DEF Wiring
  <2>2. <<i, u>> \in subs /\ peer[u] /\ ~Wiring(u, i)
    BY <1>1, <2>1 DEF Wiring
  <2>3. i \in wired /\ (Latest(u, i) \/ Underway(u, i))
    BY <2>2 DEF Told
  <2>4. Underway(u, i) => Underway(u, i)'
    BY <1>1, ObjectServerAssumption DEF Underway
  <2>5. QED
    BY <1>1, <2>3, <2>4 DEF Latest
<1>4. QED
  BY <1>2, <1>3

\* Reading a request keeps what subscribers were told.
LEMMA RequestTold ==
  ASSUME TypeOK, Told, Setting, NEW t \in Transports, Request(t)
  PROVE  Told' /\ Setting'
<1> USE DEF threadVars, objectVars, historyVars
<1>1. CASE Create(t) \/ CreateFails(t)
  <2>1. /\ Aside(t) /\ UNCHANGED <<subs, payload, peer, value, wired, targets, seen, since>>
        /\ pc'[t] = "replying"
    BY <1>1 DEF Create, CreateFails, Reading, Aside, At, Go, TypeOK
  <2>2. QED
    BY <2>1, AsideTold, AsideSetting
<1>2. ASSUME NEW id \in Ids, Release(t, id) \/ Unsubscribe(t, id) PROVE Told' /\ Setting'
  <2>1. /\ Aside(t) /\ subs' \subseteq subs /\ UNCHANGED <<pc, object, op, payload, peer>>
        /\ UNCHANGED <<value, wired, targets, seen, since>>
    BY <1>2 DEF Release, Unsubscribe, Aside
  <2>2. QED
    BY <2>1, AsideTold, AsideSetting
<1>3. ASSUME NEW id \in Ids, NEW request \in {"get", "set"}, Lookup(t, id, request)
      PROVE  Told' /\ Setting'
  <2>1. /\ Aside(t) /\ UNCHANGED <<subs, payload, peer, value, wired, targets, seen, since>>
        /\ pc'[t] \in {"holding", "replying"}
        /\ pc'[t] = "holding" /\ op'[t] = "set" => t \in Writers
    BY <1>3 DEF Lookup, Reading, Aside, At, Go, TypeOK
  <2>2. QED
    BY <2>1, AsideTold, AsideSetting
<1>4. QED
  BY <1>1, <1>2, <1>3, SubscribeTold DEF Request

\* The object is there to be told, and it is told what it says at that moment.
LEMMA WireTold ==
  ASSUME TypeOK, Told, Setting, NEW t \in Transports,
         pc[t] = "subscribed" => Exists(object[t]), FindToWire(t) \/ Wire(t)
  PROVE  Told' /\ Setting'
<1> USE DEF threadVars, objectVars, historyVars, At, Go
<1>1. CASE FindToWire(t)
  <2>1. /\ pc[t] = "subscribed" /\ pc'[t] = "holding" /\ op'[t] = "wire"
        /\ object' = object
        /\ \A u \in Transports : u # t => pc'[u] = pc[u] /\ op'[u] = op[u]
        /\ UNCHANGED <<subs, payload, peer, value, wired, targets, seen, since>>
    BY <1>1 DEF FindToWire, TypeOK
  <2>2. Setting'
    BY <2>1 DEF Setting
  <2>3. \A id \in Ids, u \in Transports : Wiring(u, id) => Wiring(u, id)'
    BY <2>1 DEF Wiring
  <2>4. \A id \in Ids, u \in Transports : Underway(u, id) => Underway(u, id)'
    BY <2>1, ObjectServerAssumption DEF Underway
  <2>5. QED
    BY <2>1, <2>2, <2>3, <2>4 DEF Told, Latest
<1>2. CASE Wire(t)
  <2>1. /\ pc[t] = "holding" /\ pc'[t] = "idle" /\ object' = object
        /\ \A u \in Transports : u # t => pc'[u] = pc[u] /\ since'[u] = since[u]
        /\ wired' = wired \cup {object[t]}
        /\ \A id \in Ids : since'[t][id] = IF id = object[t] THEN value[id] ELSE since[t][id]
        /\ UNCHANGED <<subs, op, payload, peer, value, targets, seen>>
    BY <1>2 DEF Wire, TypeOK
  <2>2. Setting'
    BY <2>1 DEF Setting
  <2>3. Told'
    <3> SUFFICES ASSUME NEW id \in Ids, NEW u \in Transports, <<id, u>> \in subs', peer'[u],
                        ~Wiring(u, id)'
                 PROVE  id \in wired' /\ (Latest(u, id)' \/ Underway(u, id)')
      BY DEF Told
    <3>1. CASE u = t /\ id = object[t]
      BY <2>1, <3>1 DEF Latest
    <3>2. CASE ~(u = t /\ id = object[t])
      <4>1. id \in wired /\ (Latest(u, id) \/ Underway(u, id))
        BY <2>1, <3>2 DEF Told, Wiring
      <4>2. Latest(u, id) => Latest(u, id)'
        BY <2>1, <3>2 DEF Latest
      <4>3. Underway(u, id) => Underway(u, id)'
        BY <2>1, ObjectServerAssumption DEF Underway
      <4>4. QED
        BY <2>1, <4>1, <4>2, <4>3
    <3>3. QED
      BY <3>1, <3>2
  <2>4. QED
    BY <2>2, <2>3
<1>3. QED
  BY <1>1, <1>2

\* The only writer sets a property: every subscriber of it is still to be told.
LEMMA SetTold ==
  ASSUME TypeOK, Pointing, Told, Setting, \A w1, w2 \in Writers : w1 = w2,
         NEW t \in Transports, Set(t)
  PROVE  Told' /\ Setting'
<1> DEFINE o == object[t]
<1>1. /\ pc[t] = "holding" /\ op[t] = "set" /\ pc'[t] = "notifying"
      /\ \A u \in Transports : u # t => pc'[u] = pc[u] /\ payload'[u] = payload[u]
      /\ o \in Ids /\ payload'[t] = value'[o]
      /\ \A id \in Ids : id # o => value'[id] = value[id]
      /\ UNCHANGED <<subs, object, op, peer, wired, targets, seen, since>>
  BY DEF Set, At, Go, TypeOK, Pointing, Pointed, historyVars
<1>2. t \in Writers /\ \A u \in Transports : u # t => pc[u] \notin {"notifying", "sending"}
  BY <1>1 DEF Setting
<1>3. Setting'
  BY <1>1, <1>2 DEF Setting
<1>4. Told'
  <2> SUFFICES ASSUME NEW id \in Ids, NEW u \in Transports, <<id, u>> \in subs', peer'[u],
                      ~Wiring(u, id)'
               PROVE  id \in wired' /\ (Latest(u, id)' \/ Underway(u, id)')
    BY DEF Told
  <2>1. ~Wiring(u, id)
    BY <1>1 DEF Wiring
  <2>2. id \in wired /\ (Latest(u, id) \/ Underway(u, id))
    BY <1>1, <2>1 DEF Told
  <2>3. CASE id = o
    BY <1>1, <1>2, <2>2, <2>3 DEF Underway
  <2>4. CASE id # o
    <3>1. ~Underway(u, id)
      BY <1>1, <1>2, ObjectServerAssumption DEF Underway
    <3>2. QED
      BY <1>1, <2>2, <2>4, <3>1 DEF Latest
  <2>5. QED
    BY <2>3, <2>4
<1>5. QED
  BY <1>3, <1>4

\* Every subscriber the object knows of is among the targets.
LEMMA CopyTold ==
  ASSUME TypeOK, Told, Setting, \A w1, w2 \in Writers : w1 = w2,
         NEW t \in Transports, CopyTargets(t)
  PROVE  Told' /\ Setting'
<1>1. /\ pc[t] = "notifying" /\ pc'[t] = "sending"
      /\ \A u \in Transports : u # t => pc'[u] = pc[u] /\ targets'[u] = targets[u]
      /\ targets'[t] = IF object[t] \in wired
                       THEN {u \in Transports : <<object[t], u>> \in subs} ELSE {}
      /\ UNCHANGED <<subs, object, op, payload, peer, value, wired, seen, since>>
  BY DEF CopyTargets, At, Go, TypeOK, objectVars, historyVars
<1>2. t \in Writers
  BY <1>1 DEF Setting
<1>3. Setting'
  BY <1>1, <1>2 DEF Setting
<1>4. Told'
  <2> SUFFICES ASSUME NEW id \in Ids, NEW u \in Transports, <<id, u>> \in subs', peer'[u],
                      ~Wiring(u, id)'
               PROVE  id \in wired' /\ (Latest(u, id)' \/ Underway(u, id)')
    BY DEF Told
  <2>1. ~Wiring(u, id)
    BY <1>1 DEF Wiring
  <2>2. id \in wired /\ (Latest(u, id) \/ Underway(u, id))
    BY <1>1, <2>1 DEF Told
  <2>3. Underway(u, id) => Underway(u, id)'
    <3>1. Underway(u, id) => object[t] = id
      BY <1>2 DEF Underway
    <3>2. object[t] = id => u \in targets'[t]
      BY <1>1, <2>2
    <3>3. QED
      BY <1>1, <1>2, <3>1, <3>2 DEF Underway
  <2>4. QED
    BY <1>1, <2>2, <2>3 DEF Latest
<1>5. QED
  BY <1>3, <1>4

\* A subscriber that is taken off the targets has got the current value.
LEMMA SendTold ==
  ASSUME TypeOK, Pointing, NoGhosts, Told, Setting, \A w1, w2 \in Writers : w1 = w2,
         NEW t \in Transports, NEW v \in Transports, SendNotify(t, v)
  PROVE  Told' /\ Setting'
<1> DEFINE o == object[t]
<1>1. /\ pc[t] = "sending" /\ o \in Ids
      /\ \A u \in Transports : u # t => targets'[u] = targets[u]
      /\ targets'[t] = targets[t] \ {v}
      /\ seen' = IF pc[v] # "free" /\ peer[v] THEN [seen EXCEPT ![v][o] = payload[t]]
                 ELSE seen
      /\ UNCHANGED <<subs, pc, object, op, payload, peer, value, wired, since>>
  BY DEF SendNotify, At, TypeOK, Pointing, Pointed, objectVars
<1>2. t \in Writers /\ payload[t] = value[o]
  BY <1>1 DEF Setting
<1>3. Setting'
  BY <1>1, <1>2 DEF Setting
<1>4. \A id \in Ids, u \in Transports :
        seen'[u][id] = seen[u][id] \/ (id = o /\ seen'[u][id] = value[o])
  BY <1>1, <1>2 DEF TypeOK
<1>5. Told'
  <2> SUFFICES ASSUME NEW id \in Ids, NEW u \in Transports, <<id, u>> \in subs', peer'[u],
                      ~Wiring(u, id)'
               PROVE  id \in wired' /\ (Latest(u, id)' \/ Underway(u, id)')
    BY DEF Told
  <2>1. ~Wiring(u, id)
    BY <1>1 DEF Wiring
  <2>2. id \in wired /\ (Latest(u, id) \/ Underway(u, id))
    BY <1>1, <2>1 DEF Told
  <2>3. Latest(u, id) => Latest(u, id)'
    BY <1>1, <1>4 DEF Latest
  <2>4. CASE Underway(u, id)
    <3>1. id = o /\ u \in targets[t]
      BY <1>1, <1>2, <2>4 DEF Underway
    <3>2. CASE u = v
      <4>1. pc[v] # "free" /\ peer[v]
        BY <1>1, <3>2 DEF NoGhosts
      <4>2. seen'[u][id] = value[o]
        BY <1>1, <1>2, <3>1, <3>2, <4>1 DEF TypeOK
      <4>3. QED
        BY <1>1, <2>2, <3>1, <4>2 DEF Latest
    <3>3. CASE u # v
      BY <1>1, <1>2, <2>2, <3>1, <3>3 DEF Underway
    <3>4. QED
      BY <3>2, <3>3
  <2>5. QED
    BY <1>1, <2>2, <2>3, <2>4
<1>6. QED
  BY <1>3, <1>5

\* A setter that has told everybody leaves nobody waiting.
LEMMA NotifiedTold ==
  ASSUME TypeOK, Told, Setting, \A w1, w2 \in Writers : w1 = w2,
         NEW t \in Transports, Notified(t)
  PROVE  Told' /\ Setting'
<1>1. /\ pc[t] = "sending" /\ pc'[t] = "replying" /\ targets[t] = {}
      /\ \A u \in Transports : u # t => pc'[u] = pc[u]
      /\ UNCHANGED <<subs, object, op, payload, targets, peer, value, wired, seen, since>>
  BY DEF Notified, At, Go, TypeOK, objectVars, historyVars
<1>2. t \in Writers
  BY <1>1 DEF Setting
<1>3. Setting'
  BY <1>1 DEF Setting
<1>4. \A id \in Ids, u \in Transports : ~Underway(u, id)
  BY <1>1, <1>2 DEF Underway
<1>5. \A id \in Ids, u \in Transports : Wiring(u, id) => Wiring(u, id)'
  BY <1>1 DEF Wiring
<1>6. QED
  BY <1>1, <1>3, <1>4, <1>5 DEF Told, Latest

\* The handling of requests keeps what subscribers were told, or will be.
LEMMA HandleTold ==
  ASSUME TypeOK, Pointing, NoGhosts, Told, Setting, \A w1, w2 \in Writers : w1 = w2,
         ~Throws, NEW t \in Transports,
         pc[t] = "subscribed" => Exists(object[t]), Handle(t)
  PROVE  Told' /\ Setting'
<1> USE DEF threadVars, objectVars, historyVars, At
<1>1. ASSUME NEW u \in Transports, UseFreed(t) \/ SendToFreed(t, u) PROVE Told' /\ Setting'
  BY <1>1, AsideTold, AsideSetting DEF UseFreed, SendToFreed, Aside
<1>2. CASE Get(t) \/ Reply(t)
  <2>1. /\ Aside(t) /\ UNCHANGED <<subs, peer, value, wired, targets, seen, since>>
        /\ pc'[t] \in {"idle", "replying"}
        /\ \A u \in Transports : u # t => payload'[u] = payload[u]
    BY <1>2 DEF Get, Reply, Done, Go, Aside, TypeOK
  <2>2. QED
    BY <2>1, AsideTold, AsideSetting
<1>3. CASE ReplyThrows(t)
  BY <1>3 DEF ReplyThrows
<1>4. QED
  BY <1>1, <1>2, <1>3, WireTold, SetTold, CopyTold, SendTold, NotifiedTold
     DEF Handle, Working, Writing

\* A client whose subscription stands has been notified of the current value,
\* or has found it when it subscribed, as soon as the only writer is between
\* two requests: no order of subscribing, setting, copying the targets, sending
\* and leaving loses the last change.  For every number of clients and objects.
THEOREM LastValueIsSeen ==
  ASSUME ~CrossClient, ~Throws, \A w1, w2 \in Writers : w1 = w2
  PROVE  Spec => []LastValueSeen
<1> DEFINE Live == /\ TypeOK /\ Pointing /\ NoGhosts
                   /\ Keeps /\ RefsCounted /\ NoStrays
<1>1. Init => Told /\ Setting
  BY DEF Init, Told, Setting
<1>2. Live /\ Told /\ Setting /\ [Next]_vars => Told' /\ Setting'
  <2> SUFFICES ASSUME Live, Told, Setting, [Next]_vars PROVE Told' /\ Setting'
    OBVIOUS
  <2>1. CASE Service \/ UNCHANGED vars
    <3>1. UNCHANGED <<value, wired, subs, pc, object, op, payload, targets, peer, seen, since>>
      BY <2>1 DEF Service, RegisterObject, AddRef, DropRef, vars, objectVars, threadVars,
                  historyVars
    <3>2. QED
      BY <3>1 DEF Told, Setting, Wiring, Latest, Underway
  <2>2. ASSUME NEW t \in Transports, Handle(t) PROVE Told' /\ Setting'
    <3>1. pc[t] = "subscribed" => Exists(object[t])
      BY KeptExists DEF NoStrays
    <3>2. QED
      BY <2>2, <3>1, HandleTold
  <2>3. QED
    BY <2>1, <2>2, ConnectionTold, RequestTold DEF Next
<1>3. Live /\ Told => LastValueSeen
  <2> SUFFICES ASSUME Live, Told, NEW id \in Ids, NEW t \in Transports, <<id, t>> \in subs,
                      peer[t], pc[t] \notin {"subscribed", "holding"},
                      \A w \in Writers : pc[w] \notin {"notifying", "sending"}
               PROVE  Latest(t, id)
    BY DEF LastValueSeen, TypeOK, Latest
  <2>1. ~Wiring(t, id) /\ ~Underway(t, id)
    BY DEF Wiring, Underway
  <2>2. QED
    BY <2>1 DEF Told
<1>4. Spec => []Live
  BY TypedAlways, GhostsAlways, KeepsAlways, RefsStayCounted, NoneStray, PTL DEF Typed
<1>5. QED
  BY <1>1, <1>2, <1>3, <1>4, PTL DEF Spec

-----------------------------------------------------------------------------
(* Ids.                                                                    *)

\* A deleted id stays deleted, in every mode: an id that a client kept is found
\* to be gone, never to be another object.
THEOREM IdsAreNotReused == Spec => NoReuse
<1>1. ASSUME TypeOK, Next, NEW id \in Ids, id < nextId, ~Exists(id)
      PROVE  refs'[id] = 0
  <2> USE <1>1 DEF registryVars
  <2>1. refs[id] = 0
    BY DEF Exists, TypeOK
  <2>2. ASSUME NEW i \in Ids, NewObject(i) PROVE refs'[id] = 0
    BY <2>1, <2>2 DEF NewObject, TypeOK, Ids
  <2>3. ASSUME NEW i \in Ids, Decrement(i) PROVE refs'[id] = 0
    BY <2>1, <2>3 DEF Decrement, TypeOK
  <2>4. CASE Service
    <3>1. ASSUME NEW i \in Ids, AddRef(i) PROVE refs'[id] = 0
      BY <2>1, <3>1 DEF AddRef, Exists, TypeOK
    <3>2. QED
      BY <2>2, <2>3, <2>4, <3>1 DEF Service, RegisterObject, DropRef
  <2>5. ASSUME NEW t \in Transports,
               \/ Accept(t) \/ Disconnect(t) \/ Leave(t) \/ Abandon(t) \/ CleanUp(t)
        PROVE  refs'[id] = 0
    <3>1. CASE ReleaseTracked(t)
      BY <2>3, <3>1 DEF ReleaseTracked, TypeOK
    <3>2. CASE refs' = refs
      BY <2>1, <3>2
    <3>3. QED
      BY <2>5, <3>1, <3>2 DEF Accept, Disconnect, Leave, Abandon, CleanUp,
                              UnsubscribeAll, Close
  <2>6. ASSUME NEW t \in Transports, Request(t) PROVE refs'[id] = 0
    <3>1. CASE Create(t)
      BY <2>2, <3>1 DEF Create
    <3>2. ASSUME NEW i \in Ids, Release(t, i) PROVE refs'[id] = 0
      BY <2>3, <3>2 DEF Release
    <3>3. CASE refs' = refs
      BY <2>1, <3>3
    <3>4. QED
      BY <2>6, <3>1, <3>2, <3>3
         DEF Request, CreateFails, Subscribe, Unsubscribe, Lookup
  <2>7. ASSUME NEW t \in Transports, Handle(t) PROVE refs'[id] = 0
    <3>1. refs' = refs
      BY <2>7 DEF Handle, Working, Writing, UseFreed, Get, Set, FindToWire, Wire,
                  CopyTargets, Notified, SendNotify, SendToFreed, Reply, ReplyThrows
    <3>2. QED
      BY <2>1, <3>1
  <2>8. QED
    BY <2>4, <2>5, <2>6, <2>7 DEF Next
<1>2. TypeOK /\ [Next]_vars
      => [\A id \in Ids : id < nextId /\ ~Exists(id) => refs'[id] = 0]_vars
  BY <1>1
<1>3. QED
  BY <1>2, TypeCorrect, PTL DEF Spec, NoReuse
=============================================================================
