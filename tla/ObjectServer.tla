---------------------------- MODULE ObjectServer ----------------------------
(***************************************************************************)
(* The server of src/src/runtime.cpp with one thread per client            *)
(* (run_tcp_multi), the ObjectRegistry and the SubscriptionRegistry that   *)
(* the threads share.  A step is a critical section of a registry's mutex, *)
(* a use of an object, or a message sent.                                  *)
(*                                                                         *)
(* A transport stands for its address, the SubscriberId, and for the       *)
(* thread that serves it; the address is used again once the thread is     *)
(* gone.  Ids are counted upwards; every object has one property.          *)
(***************************************************************************)
EXTENDS Integers, FiniteSets

CONSTANTS
  Transports,
  Writers,      \* the transports whose clients set properties
  CrossClient,  \* clients use ids they did not create
  Throws,       \* a receive, a decode or a send in client_loop may throw
  MaxObjects, MaxValue, MaxRefs, MaxAccepts  \* bounds

ASSUME ObjectServerAssumption ==
  /\ IsFiniteSet(Transports) /\ Writers \subseteq Transports
  /\ CrossClient \in BOOLEAN /\ Throws \in BOOLEAN
  /\ MaxObjects \in Nat /\ MaxValue \in Nat /\ MaxRefs \in Nat /\ MaxAccepts \in Nat

VARIABLES
  refs, nextId,            \* ObjectRegistry: reference counts, 0 when deleted
  value, wired,            \* of the objects: the property, sub_registry_ set
  subs,                    \* SubscriptionRegistry: pairs <<id, transport>>
  pc, object, op, payload, \* of a client thread: where it is, its Object*, the
  targets, tracked,        \*   request, what and whom to notify, tracked_objects
  peer,                    \* the client at the other end is there
  held,                    \* references of the service itself
  up, accepts,             \* the server has not crashed; clients accepted
  seen, since,             \* history: the last value sent, the first to expect,
  strayed, leaked          \*   ids released by a client that does not have them,
                           \*   references lost with a connection

registryVars == <<refs, nextId>>
objectVars == <<value, wired>>
threadVars == <<pc, object, op, payload, targets, tracked>>
historyVars == <<accepts, seen, since, strayed, leaked>>
vars == <<registryVars, objectVars, subs, threadVars, peer, held, up, historyVars>>

Ids == 1..MaxObjects
Issued == 1..nextId - 1
Exists(id) == refs[id] > 0

\* What a client may name in a request, and in a release: what it created and
\* what the service offers, unless clients pass ids to each other.
Usable(t) == IF CrossClient THEN Issued
             ELSE tracked[t] \cup {id \in Ids : held[id] > 0}
Releasable(t) == IF CrossClient THEN Issued ELSE tracked[t]

-----------------------------------------------------------------------------
(* ObjectRegistry                                                          *)

NewObject(id) == /\ id = nextId /\ id \in Ids
                 /\ nextId' = id + 1
                 /\ refs' = [refs EXCEPT ![id] = 1]

\* Mutant: the count is decremented without looking the object up.
DecrementUnchecked(id) == refs' = [refs EXCEPT ![id] = @ - 1]

\* Mutant: a release deletes the object, whatever the count.
DecrementToZero(id) == refs' = [refs EXCEPT ![id] = 0]

\* An unknown or deleted id is ignored.
Decrement(id) == refs' = IF Exists(id) THEN [refs EXCEPT ![id] = @ - 1] ELSE refs

\* The service registers an object, takes another reference, drops one.
RegisterObject ==
  /\ \E id \in Ids : /\ NewObject(id)
                     /\ held' = [held EXCEPT ![id] = 1]
  /\ UNCHANGED <<objectVars, subs, threadVars, peer, up, historyVars>>

\* Mutant: the reference is added without looking the object up.
AddRefUnchecked(id) ==
  /\ id \in Issued /\ refs[id] < MaxRefs /\ held[id] < MaxRefs
  /\ refs' = [refs EXCEPT ![id] = @ + 1]
  /\ held' = [held EXCEPT ![id] = @ + 1]
  /\ UNCHANGED <<nextId, objectVars, subs, threadVars, peer, up, historyVars>>

AddRef(id) ==
  /\ Exists(id) /\ refs[id] < MaxRefs /\ held[id] < MaxRefs
  /\ refs' = [refs EXCEPT ![id] = @ + 1]
  /\ held' = [held EXCEPT ![id] = @ + 1]
  /\ UNCHANGED <<nextId, objectVars, subs, threadVars, peer, up, historyVars>>

\* The service gives up a reference; the last one it keeps while clients rely
\* on what the service keeps.
DropRef(id) ==
  /\ held[id] > 0
  /\ CrossClient \/ held[id] > 1
  /\ Decrement(id)
  /\ held' = [held EXCEPT ![id] = @ - 1]
  /\ UNCHANGED <<nextId, objectVars, subs, threadVars, peer, up, historyVars>>

-----------------------------------------------------------------------------
(* Connections                                                             *)

At(t, place) == up /\ pc[t] = place
Go(t, place) == pc' = [pc EXCEPT ![t] = place]

Accept(t) ==
  /\ At(t, "free") /\ accepts < MaxAccepts
  /\ Go(t, "idle")
  /\ peer' = [peer EXCEPT ![t] = TRUE]
  /\ accepts' = accepts + 1
  /\ UNCHANGED <<registryVars, objectVars, subs, object, op, payload, targets, tracked,
                 held, up, seen, since, strayed, leaked>>

\* The client goes away, orderly or not, after its last request was read.
Disconnect(t) ==
  /\ up /\ pc[t] # "free" /\ peer[t]
  /\ peer' = [peer EXCEPT ![t] = FALSE]
  /\ UNCHANGED <<registryVars, objectVars, subs, threadVars, held, up, historyVars>>

\* The request is done with, and its locals are forgotten.
Done(t, place) == /\ Go(t, place)
                  /\ object' = [object EXCEPT ![t] = 0]
                  /\ op' = [op EXCEPT ![t] = "get"]
                  /\ payload' = [payload EXCEPT ![t] = 0]

\* The thread is done: its transport is destroyed, its locals are gone.
Gone(t) == /\ Done(t, "free")
           /\ tracked' = [tracked EXCEPT ![t] = {}]
           /\ seen' = [seen EXCEPT ![t] = [id \in Ids |-> 0]]
           /\ since' = [since EXCEPT ![t] = [id \in Ids |-> 0]]
           /\ leaked' = [id \in Ids |-> leaked[id] + IF id \in tracked[t] THEN 1 ELSE 0]

\* client_loop sees the end of file, the shutdown or a foreign message.
Leave(t) ==
  /\ At(t, "idle")
  /\ Go(t, "leaving")
  /\ UNCHANGED <<registryVars, objectVars, subs, object, op, payload, targets, tracked,
                 peer, held, up, historyVars>>

\* Mutant: the released object stays on the list.
ReleaseTrackedForever(t) ==
  /\ At(t, "leaving")
  /\ \E id \in tracked[t] : Decrement(id)
  /\ UNCHANGED <<nextId, objectVars, subs, threadVars, peer, held, up, historyVars>>

\* release_connection_objects, one object at a time.
ReleaseTracked(t) ==
  /\ At(t, "leaving")
  /\ \E id \in tracked[t] : /\ Decrement(id)
                            /\ tracked' = [tracked EXCEPT ![t] = @ \ {id}]
  /\ UNCHANGED <<nextId, objectVars, subs, pc, object, op, payload, targets, peer, held,
                 up, historyVars>>

\* Mutant: the subscriptions are not dropped.
UnsubscribeAllSkipped(t) ==
  /\ At(t, "leaving") /\ tracked[t] = {}
  /\ Gone(t)
  /\ UNCHANGED <<registryVars, objectVars, subs, targets, peer, held, up, accepts, strayed>>

UnsubscribeAll(t) ==
  /\ At(t, "leaving") /\ tracked[t] = {}
  /\ subs' = {s \in subs : s[2] # t}
  /\ Go(t, "closing")
  /\ UNCHANGED <<registryVars, objectVars, object, op, payload, targets, tracked, peer,
                 held, up, historyVars>>

Close(t) ==
  /\ At(t, "closing")
  /\ Gone(t)
  /\ UNCHANGED <<registryVars, objectVars, subs, targets, peer, held, up, accepts, strayed>>

\* receive() or a decode throws, and the exception leaves client_loop past
\* its clean-up.
Abandon(t) ==
  /\ Throws /\ At(t, "idle") /\ ~peer[t]
  /\ Gone(t)
  /\ UNCHANGED <<registryVars, objectVars, subs, targets, peer, held, up, accepts, strayed>>

-----------------------------------------------------------------------------
(* Requests                                                                *)

Reading(t) == At(t, "idle") /\ peer[t]

Create(t) ==
  /\ Reading(t)
  /\ \E id \in Ids : /\ NewObject(id)
                     /\ tracked' = [tracked EXCEPT ![t] = @ \cup {id}]
  /\ Go(t, "replying")
  /\ UNCHANGED <<objectVars, subs, object, op, payload, targets, peer, held, up,
                 historyVars>>

\* No factory for the type, or the factory failed.
CreateFails(t) ==
  /\ Reading(t)
  /\ Go(t, "replying")
  /\ UNCHANGED <<registryVars, objectVars, subs, object, op, payload, targets, tracked,
                 peer, held, up, historyVars>>

\* Mutant: a released object stays on the connection's list.
ReleaseStillTracked(t, id) ==
  /\ Reading(t) /\ id \in Releasable(t)
  /\ Decrement(id)
  /\ UNCHANGED <<nextId, objectVars, subs, threadVars, peer, held, up, historyVars>>

Release(t, id) ==
  /\ Reading(t) /\ id \in Releasable(t)
  /\ Decrement(id)
  /\ tracked' = [tracked EXCEPT ![t] = @ \ {id}]
  /\ strayed' = IF id \in tracked[t] THEN strayed ELSE strayed \cup {id}
  /\ UNCHANGED <<nextId, objectVars, subs, pc, object, op, payload, targets, peer, held,
                 up, accepts, seen, since, leaked>>

\* prop_get, prop_set, object_call (which may do what either does): the
\* registry's get() returns a plain pointer, to be used without the mutex.
Lookup(t, id, request) ==
  /\ Reading(t) /\ id \in Usable(t)
  /\ request = "set" => t \in Writers /\ value[id] < MaxValue
  /\ IF Exists(id)
     THEN /\ Go(t, "holding")
          /\ object' = [object EXCEPT ![t] = id]
          /\ op' = [op EXCEPT ![t] = request]
     ELSE Go(t, "replying") /\ UNCHANGED <<object, op>>
  /\ UNCHANGED <<registryVars, objectVars, subs, payload, targets, tracked, peer, held,
                 up, historyVars>>

\* The pointer is followed.  A deleted object is undefined behaviour: a crash,
\* or what the freed memory still says.
UseFreed(t) ==
  /\ At(t, "holding") \/ At(t, "notifying")
  /\ ~Exists(object[t])
  /\ up' = FALSE
  /\ UNCHANGED <<registryVars, objectVars, subs, threadVars, peer, held, historyVars>>

Get(t) ==
  /\ At(t, "holding") /\ op[t] = "get"
  /\ Go(t, "replying")
  /\ UNCHANGED <<registryVars, objectVars, subs, object, op, payload, targets, tracked,
                 peer, held, up, historyVars>>

\* The setter changes the value, then calls notify_property.
Set(t) ==
  /\ At(t, "holding") /\ op[t] = "set"
  /\ value' = [value EXCEPT ![object[t]] = @ + 1]
  /\ payload' = [payload EXCEPT ![t] = value[object[t]] + 1]
  /\ Go(t, "notifying")
  /\ UNCHANGED <<registryVars, wired, subs, object, op, targets, tracked, peer,
                 held, up, historyVars>>

\* The subscription is recorded first; then the object is looked up and told.
Subscribe(t, id) ==
  /\ Reading(t) /\ id \in Usable(t)
  /\ subs' = subs \cup {<<id, t>>}
  /\ object' = [object EXCEPT ![t] = id]
  /\ Go(t, "subscribed")
  /\ UNCHANGED <<registryVars, objectVars, op, payload, targets, tracked, peer, held, up,
                 historyVars>>

FindToWire(t) ==
  /\ At(t, "subscribed")
  /\ \/ /\ Exists(object[t])
        /\ Go(t, "holding")
        /\ op' = [op EXCEPT ![t] = "wire"]
        /\ UNCHANGED <<object, payload>>
     \/ ~Exists(object[t]) /\ Done(t, "idle")
  /\ UNCHANGED <<registryVars, objectVars, subs, targets, tracked, peer, held, up,
                 historyVars>>

\* Mutant: the object is not told.
WireNothing(t) ==
  /\ At(t, "holding") /\ op[t] = "wire"
  /\ since' = [since EXCEPT ![t][object[t]] = value[object[t]]]
  /\ Done(t, "idle")
  /\ UNCHANGED <<registryVars, objectVars, subs, targets, tracked, peer, held, up,
                 accepts, seen, strayed, leaked>>

Wire(t) ==
  /\ At(t, "holding") /\ op[t] = "wire"
  /\ wired' = wired \cup {object[t]}
  /\ since' = [since EXCEPT ![t][object[t]] = value[object[t]]]
  /\ Go(t, "idle")
  /\ UNCHANGED <<registryVars, value, subs, object, op, payload, targets, tracked, peer,
                 held, up, accepts, seen, strayed, leaked>>

Unsubscribe(t, id) ==
  /\ Reading(t) /\ id \in Issued
  /\ subs' = subs \ {<<id, t>>}
  /\ UNCHANGED <<registryVars, objectVars, threadVars, peer, held, up, historyVars>>

\* notify: the subscribers' transports are copied under the mutex.
CopyTargets(t) ==
  /\ At(t, "notifying")
  /\ targets' = [targets EXCEPT ![t] =
                   IF object[t] \in wired
                   THEN {u \in Transports : <<object[t], u>> \in subs} ELSE {}]
  /\ Go(t, "sending")
  /\ UNCHANGED <<registryVars, objectVars, subs, object, op, payload, tracked, peer, held,
                 up, historyVars>>

\* The message is sent without it; what a send throws is swallowed.
SendNotify(t, u) ==
  /\ At(t, "sending") /\ u \in targets[t]
  /\ targets' = [targets EXCEPT ![t] = @ \ {u}]
  /\ seen' = IF pc[u] # "free" /\ peer[u]
             THEN [seen EXCEPT ![u][object[t]] = payload[t]] ELSE seen
  /\ UNCHANGED <<registryVars, objectVars, subs, pc, object, op, payload, tracked, peer,
                 held, up, accepts, since, strayed, leaked>>

\* A destroyed transport is undefined behaviour, a crash among others.
SendToFreed(t, u) ==
  /\ At(t, "sending") /\ u \in targets[t] /\ pc[u] = "free"
  /\ up' = FALSE
  /\ UNCHANGED <<registryVars, objectVars, subs, threadVars, peer, held, historyVars>>

Notified(t) ==
  /\ At(t, "sending") /\ targets[t] = {}
  /\ Go(t, "replying")
  /\ UNCHANGED <<registryVars, objectVars, subs, object, op, payload, targets, tracked,
                 peer, held, up, historyVars>>

Reply(t) ==
  /\ At(t, "replying")
  /\ Done(t, "idle")
  /\ UNCHANGED <<registryVars, objectVars, subs, targets, tracked, peer, held, up,
                 historyVars>>

\* The reply cannot be sent; nor can the error reply the handler then tries.
ReplyThrows(t) ==
  /\ Throws /\ At(t, "replying") /\ ~peer[t]
  /\ Gone(t)
  /\ UNCHANGED <<registryVars, objectVars, subs, targets, peer, held, up, accepts, strayed>>

-----------------------------------------------------------------------------
Init ==
  /\ refs = [id \in Ids |-> 0] /\ nextId = 1
  /\ value = [id \in Ids |-> 0] /\ wired = {}
  /\ subs = {}
  /\ pc = [t \in Transports |-> "free"]
  /\ object = [t \in Transports |-> 0]
  /\ op = [t \in Transports |-> "get"]
  /\ payload = [t \in Transports |-> 0]
  /\ targets = [t \in Transports |-> {}]
  /\ tracked = [t \in Transports |-> {}]
  /\ peer = [t \in Transports |-> FALSE]
  /\ held = [id \in Ids |-> 0]
  /\ up = TRUE /\ accepts = 0
  /\ seen = [t \in Transports |-> [id \in Ids |-> 0]]
  /\ since = [t \in Transports |-> [id \in Ids |-> 0]]
  /\ strayed = {} /\ leaked = [id \in Ids |-> 0]

Service == RegisterObject \/ \E id \in Ids : AddRef(id) \/ DropRef(id)

Request(t) ==
  \/ Create(t) \/ CreateFails(t)
  \/ \E id \in Ids : \/ Release(t, id) \/ Subscribe(t, id) \/ Unsubscribe(t, id)
                     \/ \E request \in {"get", "set"} : Lookup(t, id, request)

\* What a thread does with a request.
Working(t) ==
  \/ UseFreed(t) \/ Get(t) \/ Set(t)
  \/ FindToWire(t) \/ Wire(t)
  \/ CopyTargets(t) \/ Notified(t)
  \/ \E u \in Transports : SendToFreed(t, u)

\* What may wait for a client to read.
Writing(t) == (\E u \in Transports : SendNotify(t, u)) \/ Reply(t) \/ ReplyThrows(t)

Handle(t) == Working(t) \/ Writing(t)

CleanUp(t) == ReleaseTracked(t) \/ UnsubscribeAll(t) \/ Close(t)

Next ==
  \/ up /\ Service
  \/ \E t \in Transports : \/ Accept(t) \/ Disconnect(t) \/ Leave(t) \/ Abandon(t)
                           \/ Request(t) \/ Handle(t) \/ CleanUp(t)

Spec == Init /\ [][Next]_vars

\* Every thread keeps running, and receive() reports the end of file.  A send to
\* a client that is there may block for ever, as long as the client does not
\* read; one to a client that is gone fails.
Unblocked(t) ==
  \/ Working(t) \/ CleanUp(t)
  \/ \E u \in Transports : ~peer[u] /\ SendNotify(t, u)
  \/ ~peer[t] /\ (Reply(t) \/ ReplyThrows(t) \/ Leave(t))
FairSpec == Spec /\ \A t \in Transports : WF_vars(Unblocked(t))

-----------------------------------------------------------------------------
(* Properties                                                              *)

Places == {"free", "idle", "replying", "holding", "subscribed", "notifying",
           "sending", "leaving", "closing"}

\* Types of the registries, the objects and the threads.
TypeOK ==
  /\ refs \in [Ids -> Nat] /\ nextId \in 1..MaxObjects + 1
  /\ value \in [Ids -> Nat] /\ wired \subseteq Ids
  /\ subs \subseteq Ids \X Transports
  /\ pc \in [Transports -> Places]
  /\ object \in [Transports -> Ids \cup {0}]
  /\ op \in [Transports -> {"get", "set", "wire"}]
  /\ payload \in [Transports -> Nat]
  /\ targets \in [Transports -> SUBSET Transports]
  /\ tracked \in [Transports -> SUBSET Ids]
  /\ peer \in [Transports -> BOOLEAN]
  /\ held \in [Ids -> Nat]
  /\ up \in BOOLEAN /\ accepts \in Nat
  /\ seen \in [Transports -> [Ids -> Nat]] /\ since \in [Transports -> [Ids -> Nat]]
  /\ strayed \subseteq Ids /\ leaked \in [Ids -> Nat]

\* The references to an object that somebody has, or that were lost.
Owned(id) == Cardinality({t \in Transports : id \in tracked[t]}) + held[id] + leaked[id]

\* The count of an object is exact: one for each connection that tracks it, the
\* service's own, and one for each connection that an exception ended before it
\* released it.  Only a client that releases an object it does not have makes the
\* count too low, and nothing makes it too high, whatever the order of creates,
\* releases, disconnects and accepts.
RefsCounted ==
  \A id \in Ids : refs[id] <= Owned(id) /\ (id \notin strayed => refs[id] = Owned(id))

\* The plain pointer get() returned is followed after the object was deleted only
\* if another client released an object it does not have, or if this client works
\* on what neither it created nor the service keeps: the object of another client,
\* who may let it go at any time.  README.md:771 lets clients do both.
OwnPointersLive ==
  \A t \in Transports : pc[t] \in {"holding", "notifying"} =>
    \/ Exists(object[t])
    \/ object[t] \in strayed
    \/ object[t] \notin tracked[t] /\ held[object[t]] = 0

\* "must outlive subscription" (subscription.hpp): every transport in the
\* registry exists.
SubscribersOpen == \A s \in subs : pc[s[2]] # "free"

\* With one writer, a subscriber's last notification carries the current value
\* once the writer is done, unless nothing changed since its object was told.
LastValueSeen ==
  \A s \in subs :
    LET id == s[1]  t == s[2]
    IN (/\ peer[t] /\ pc[t] \notin {"subscribed", "holding"}
        /\ \A w \in Writers : pc[w] \notin {"notifying", "sending"})
       => seen[t][id] = value[id] \/ since[t][id] = value[id]

\* The thread of a client that went away ends, whatever it was doing, and when it
\* has, no object exists but those that somebody has and those that an exception
\* lost.  It may wait for ever to tell a property to a client that is there and
\* does not read; and the server may crash.
CleanedUp ==
  \A t \in Transports : ~peer[t] /\ pc[t] # "free" ~>
    \/ ~up
    \/ pc[t] = "sending" /\ \E u \in targets[t] : peer[u]
    \/ /\ pc[t] = "free"
       /\ \A id \in Ids : Exists(id) =>
            held[id] > 0 \/ leaked[id] > 0 \/ \E u \in Transports : id \in tracked[u]

\* An id never comes back: what a stale reference names is found to be gone, it
\* is never another object.
NoReuse ==
  [][\A id \in Ids : id < nextId /\ ~Exists(id) => refs'[id] = 0]_vars

\* "deleted when that connection drops" (README): an object that exists belongs
\* to a connection or to the service.
CreatorScoped ==
  \A id \in Ids : Exists(id) =>
    held[id] > 0 \/ \E t \in Transports : id \in tracked[t]

\* "Thread-safe SubscriptionRegistry" (README): no notification is sent on a
\* transport that was destroyed.
TargetsOpen ==
  \A t \in Transports : pc[t] = "sending" => \A u \in targets[t] : pc[u] # "free"
=============================================================================
