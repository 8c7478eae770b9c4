------------------------ MODULE ServiceManagerProofs ------------------------
(***************************************************************************)
(* Theorems about ServiceManager: the types of its state, the ownership of *)
(* ServiceProcess objects and of the children they forked, services that   *)
(* stay stopped, and restarts that are counted before they are made.       *)
(***************************************************************************)
EXTENDS ServiceManager, TLAPS, FiniteSetTheorems

\* terminate() leaves a well-typed process table.
LEMMA KilledType ==
  ASSUME NEW table \in ProcessTable, NEW objs, NEW o
  PROVE  Killed(table, objs, o) \in ProcessTable
BY DEF Killed, ProcessTable, Free

\* The destructor leaves a well-typed object table.
LEMMA DroppedType ==
  ASSUME NEW objs \in ObjectTable, NEW o
  PROVE  Dropped(objs, o) \in ObjectTable
BY DEF Dropped, ObjectTable, Blank

\* alive() only takes zombies out of the process table.
LEMMA ReapedType ==
  ASSUME os \in ProcessTable, NEW O
  PROVE  Reaped(O) \in ProcessTable
BY DEF Reaped, ProcessTable, Free

\* Moving on to the next element of to_restart.
LEMMA NextItemType ==
  ASSUME TypeOK, NEW t \in Checkers, NextItem(t)
  PROVE  /\ todo' \in [Checkers -> [Services -> Executables \cup {NoExecutable}]]
         /\ svc' \in [Threads -> Services \cup {NoService}]
         /\ pc' \in [Threads -> {"idle", "spawn", "install", "loop", "recover"}]
<1> DEFINE left == [todo[t] EXCEPT ![svc[t]] = NoExecutable]
<1>1. left \in [Services -> Executables \cup {NoExecutable}]
  BY DEF TypeOK
<1>2. /\ todo' = [todo EXCEPT ![t] = left]
      /\ svc' = [svc EXCEPT ![t] = NoService]
      /\ pc' \in {[pc EXCEPT ![t] = "idle"], [pc EXCEPT ![t] = "loop"]}
  BY DEF NextItem
<1>3. QED
  BY <1>1, <1>2 DEF TypeOK

\* What spawn() leaves in the process table and in the objects has their types,
\* when what it is given has: it concerns start, restart, replace, connect and
\* the monitor alike.
LEMMA SpawnType ==
  ASSUME NEW o \in Objects, NEW e, NEW dead,
         NEW table \in ProcessTable, NEW objs \in ObjectTable,
         Spawn(o, e, table, objs, dead)
  PROVE  object' \in ObjectTable /\ os' \in ProcessTable
<1>1. PICK p \in Pids :
        /\ os' = Killed([table EXCEPT ![p] = [st |-> "running", by |-> o]], objs, dead)
        /\ object' = Dropped([objs EXCEPT ![o] = [pid |-> p, image |-> e]], dead)
  BY DEF Spawn
<1> e \in Executables
  BY ManagerAssumption DEF Spawn
<1>2. [table EXCEPT ![p] = [st |-> "running", by |-> o]] \in ProcessTable
  BY DEF ProcessTable
<1>3. [objs EXCEPT ![o] = [pid |-> p, image |-> e]] \in ObjectTable
  BY DEF ObjectTable
<1>4. QED
  BY <1>1, <1>2, <1>3, KilledType, DroppedType

\* The checkers with a counted restart of s to make, in this state and in the
\* next one, are finitely many:
\* carried stays a number.
LEMMA QueuedFinite ==
  ASSUME NEW s \in Services
  PROVE  /\ IsFiniteSet(Queued(s)) /\ IsFiniteSet(Queued(s)')
         /\ Cardinality(Queued(s)) \in Nat /\ Cardinality(Queued(s)') \in Nat
<1>1. Queued(s) \subseteq Checkers /\ Queued(s)' \subseteq Checkers
  BY DEF Queued
<1>2. IsFiniteSet(Queued(s)) /\ IsFiniteSet(Queued(s)')
  BY <1>1, FS_Subset, ManagerAssumption
<1>3. QED
  BY <1>2, FS_CardinalityType

\* A manager that was just constructed is well typed, and no thread is inside it.
LEMMA InitTyped == Init => TypeOK /\ Phases
BY ManagerAssumption
   DEF Init, TypeOK, Phases, Blank, Free, Threads, ObjectTable, ProcessTable

\* Every step keeps the types: one step of the proof per operation.
LEMMA StepTyped == TypeOK /\ Phases /\ [Next]_vars => TypeOK'
<1> SUFFICES ASSUME TypeOK, Phases, [Next]_vars
             PROVE  TypeOK'
  OBVIOUS
<1> USE ManagerAssumption
<1> USE DEF TypeOK, entryVars, machineVars, localVars, historyVars, Threads
<1>1. ASSUME Configure PROVE TypeOK'
  <2>1. ASSUME NEW s \in Services, ResetRestartCount(s) PROVE TypeOK'
    <3>1. /\ restartCount' = [restartCount EXCEPT ![s] = 0]
          /\ respawns' = [respawns EXCEPT ![s] = 0]
          /\ carried' = [carried EXCEPT ![s] = Cardinality(Queued(s))]
          /\ UNCHANGED <<kind, executable, autoRestart, maxRestarts, process,
                         machineVars, localVars, borrowed, open, stopped>>
      BY <2>1 DEF ResetRestartCount
    <3>2. carried' \in [Services -> Nat]
      BY <3>1, QueuedFinite
    <3>3. QED
      BY <3>1, <3>2
  <2>2. ASSUME NEW s \in Services, NEW n \in Limits, SetMaxRestarts(s, n) PROVE TypeOK'
    BY <2>2 DEF SetMaxRestarts
  <2>3. ASSUME NEW s \in Services, NEW e \in Executables, RegisterService(s, e)
        PROVE  TypeOK'
    BY <2>3 DEF RegisterService
  <2>4. ASSUME NEW s \in Services,
               RegisterRemoteService(s) \/ RegisterDiscoverableService(s)
        PROVE  TypeOK'
    BY <2>4 DEF RegisterRemoteService, RegisterDiscoverableService
  <2>5. ASSUME NEW s \in Services, NEW b \in BOOLEAN, SetAutoRestart(s, b) PROVE TypeOK'
    BY <2>5 DEF SetAutoRestart
  <2> HIDE DEF TypeOK
  <2>6. QED
    BY <1>1, <2>1, <2>2, <2>3, <2>4, <2>5 DEF Configure
<1>2. ASSUME NEW t \in Callers, Starting(t) PROVE TypeOK'
  <2>1. ASSUME NEW s \in Services, StartRunning(t, s) PROVE TypeOK'
    BY <2>1 DEF StartRunning, Lend, Alive
  <2>2. ASSUME NEW s \in Services, StartCheck(t, s) PROVE TypeOK'
    BY <2>2, ReapedType DEF StartCheck
  <2>3. CASE StartSpawn(t)
    <3>1. PICK o \in Objects : /\ Spawn(o, target[t], os, object, NoObject)
                              /\ spawned' = [spawned EXCEPT ![t] = o]
      BY <2>3 DEF StartSpawn
    <3>2. object' \in ObjectTable /\ os' \in ProcessTable
      BY <3>1, SpawnType
    <3>3. QED
      BY <2>3, <3>1, <3>2 DEF StartSpawn
  <2>4. CASE StartSpawnFails(t)
    BY <2>4 DEF StartSpawnFails, Return
  <2>5. CASE StartInstall(t)
    <3>1. object' \in ObjectTable /\ os' \in ProcessTable
      BY <2>5, KilledType, DroppedType DEF StartInstall, Destroy
    <3>2. borrowed' \subseteq Objects
      BY <2>5 DEF StartInstall, Lend, Phases
    <3>3. QED
      BY <2>5, <3>1, <3>2 DEF StartInstall, Return
  <2>6. QED
    BY <1>2, <2>1, <2>2, <2>3, <2>4, <2>5 DEF Starting
<1>3. ASSUME NEW s \in Services, Locked(s) PROVE TypeOK'
  <2>1. CASE Stop(s)
    BY <2>1, KilledType, DroppedType DEF Stop, Destroy
  <2>2. ASSUME NEW e \in Executables \cup {NoExecutable}, Respawn(s, e)
        PROVE  /\ process' \in [Services -> Objects \cup {NoObject}]
               /\ object' \in ObjectTable /\ os' \in ProcessTable
               /\ stopped' \in [Services -> BOOLEAN]
               /\ UNCHANGED <<localVars, borrowed, open, respawns, carried>>
    <3>1. CASE \E o \in Objects :
               /\ Spawn(o, e, Killed(os, object, process[s]),
                        Dropped(object, process[s]), NoObject)
               /\ process' = [process EXCEPT ![s] = o]
      <4>1. PICK o \in Objects :
               /\ Spawn(o, e, Killed(os, object, process[s]),
                        Dropped(object, process[s]), NoObject)
               /\ process' = [process EXCEPT ![s] = o]
        BY <3>1
      <4>2. /\ Killed(os, object, process[s]) \in ProcessTable
            /\ Dropped(object, process[s]) \in ObjectTable
        BY KilledType, DroppedType
      <4>3. object' \in ObjectTable /\ os' \in ProcessTable
        BY <4>1, <4>2, SpawnType
      <4>4. QED
        BY <2>2, <4>1, <4>3 DEF Respawn
    <3>2. CASE Destroy(process[s]) /\ process' = [process EXCEPT ![s] = NoObject]
      BY <2>2, <3>2, KilledType, DroppedType DEF Respawn, Destroy
    <3>3. QED
      BY <2>2, <3>1, <3>2 DEF Respawn
  <2>3. CASE Restart(s)
    BY <2>2, <2>3 DEF Restart
  <2>4. ASSUME NEW e \in Executables, Replace(s, e) PROVE TypeOK'
    BY <2>2, <2>4 DEF Replace
  <2>5. CASE Connect(s)
    <3>1. CASE Alive(process[s]) /\ Lend(process[s]) /\ UNCHANGED <<process, object, os>>
      BY <2>5, <3>1 DEF Connect, Lend, Alive
    <3>2. ASSUME NEW o \in Objects,
                 Spawn(o, executable[s], Reaped({process[s]} \ {NoObject}), object,
                       process[s]),
                 process' = [process EXCEPT ![s] = o], Lend(o)
          PROVE  TypeOK'
      <4>1. object' \in ObjectTable /\ os' \in ProcessTable
        BY <3>2, ReapedType, SpawnType
      <4>2. QED
        BY <2>5, <3>2, <4>1 DEF Connect, Lend
    <3>3. CASE os' = Reaped({process[s]} \ {NoObject}) /\
               UNCHANGED <<process, object, borrowed>>
      BY <2>5, <3>3, ReapedType DEF Connect
    <3>4. QED
      BY <2>5, <3>1, <3>2, <3>3 DEF Connect
  <2>6. CASE IsAlive(s)
    BY <2>6, ReapedType DEF IsAlive
  <2>7. QED
    BY <1>3, <2>1, <2>3, <2>4, <2>5, <2>6 DEF Locked
<1>4. ASSUME NEW t \in Checkers, Checking(t) PROVE TypeOK'
  <2>1. CASE CheckCollect(t)
    BY <2>1, ReapedType DEF CheckCollect, CountedRestarts
  <2>2. ASSUME NEW s \in Services, CheckSpawn(t, s) PROVE TypeOK'
    <3>1. object' \in ObjectTable /\ os' \in ProcessTable
          /\ spawned' \in [Threads -> Objects \cup {NoObject}]
      <4>1. CASE \E o \in Objects : /\ Spawn(o, todo[t][s], os, object, NoObject)
                                    /\ spawned' = [spawned EXCEPT ![t] = o]
        BY <4>1, SpawnType
      <4>2. CASE UNCHANGED <<object, os, spawned>>
        BY <4>2
      <4>3. QED
        BY <2>2, <4>1, <4>2 DEF CheckSpawn
    <3>2. /\ pc' \in {[pc EXCEPT ![t] = "install"], [pc EXCEPT ![t] = "recover"]}
          /\ svc' = [svc EXCEPT ![t] = s]
          /\ respawns' = [respawns EXCEPT ![s] = @ + 1]
          /\ UNCHANGED <<entryVars, process, target, todo, borrowed, open, carried, stopped>>
      BY <2>2 DEF CheckSpawn
    <3>3. respawns' \in [Services -> Nat]
      BY <3>2
    <3>4. QED
      BY <3>1, <3>2, <3>3
  <2>3. CASE CheckInstall(t)
    <3>1. object' \in ObjectTable /\ os' \in ProcessTable
      BY <2>3, KilledType, DroppedType DEF CheckInstall, Destroy
    <3>2. process' \in [Services -> Objects \cup {NoObject}]
      BY <2>3 DEF CheckInstall
    <3>3. QED
      BY <2>3, <3>1, <3>2, NextItemType DEF CheckInstall
  <2>4. CASE CheckRecover(t)
    <3>1. object' \in ObjectTable /\ os' \in ProcessTable
      BY <2>4, KilledType, DroppedType DEF CheckRecover, Destroy
    <3>2. process' \in [Services -> Objects \cup {NoObject}]
      BY <2>4 DEF CheckRecover
    <3>3. QED
      BY <2>4, <3>1, <3>2, NextItemType DEF CheckRecover
  <2>5. QED
    BY <1>4, <2>1, <2>2, <2>3, <2>4 DEF Checking
<1>5. ASSUME NEW o \in Objects, GiveBack(o) PROVE TypeOK'
  BY <1>5 DEF GiveBack
<1>6. ASSUME NEW p \in Pids, Crash(p) PROVE TypeOK'
  <2>1. os' = [os EXCEPT ![p] = [st |-> "zombie", by |-> os[p].by]]
    BY <1>6 DEF Crash
  <2>2. QED
    BY <1>6, <2>1 DEF Crash, ProcessTable
<1>7. CASE Destructor
  BY <1>7 DEF Destructor, Remaining, Blank, Free, ObjectTable, ProcessTable
<1>8. CASE UNCHANGED vars
  BY <1>8 DEF vars
<1>9. QED
  BY <1>1, <1>2, <1>3, <1>4, <1>5, <1>6, <1>7, <1>8 DEF Next

\* Every step keeps a thread's locals in line with where the thread is.
LEMMA StepPhases == TypeOK /\ Phases /\ [Next]_vars => Phases'
<1> SUFFICES ASSUME TypeOK, Phases, [Next]_vars
             PROVE  Phases'
  OBVIOUS
<1> USE ManagerAssumption DEF TypeOK, Phases, entryVars, machineVars, localVars,
        historyVars, Threads
<1>1. CASE Configure
  BY <1>1 DEF Configure, RegisterService, RegisterRemoteService,
     RegisterDiscoverableService, SetAutoRestart, SetMaxRestarts, ResetRestartCount
<1>2. ASSUME NEW t \in Callers, Starting(t) PROVE Phases'
  <2>1. ASSUME NEW s \in Services, StartRunning(t, s) PROVE Phases'
    BY <2>1 DEF StartRunning
  <2>2. ASSUME NEW s \in Services, StartCheck(t, s) PROVE Phases'
    BY <2>2 DEF StartCheck
  <2>3. CASE StartSpawn(t)
    BY <2>3 DEF StartSpawn
  <2>4. CASE StartSpawnFails(t)
    BY <2>4 DEF StartSpawnFails, Return
  <2>5. CASE StartInstall(t)
    BY <2>5 DEF StartInstall, Return
  <2>6. QED
    BY <1>2, <2>1, <2>2, <2>3, <2>4, <2>5 DEF Starting
<1>3. ASSUME NEW s \in Services, Locked(s) PROVE Phases'
  BY <1>3 DEF Locked, Stop, Restart, Replace, Respawn, Connect, IsAlive
<1>4. ASSUME NEW t \in Checkers, Checking(t) PROVE Phases'
  <2>1. CASE CheckCollect(t)
    BY <2>1 DEF CheckCollect
  <2>2. ASSUME NEW s \in Services, CheckSpawn(t, s) PROVE Phases'
    BY <2>2 DEF CheckSpawn
  <2>3. CASE CheckInstall(t)
    BY <2>3 DEF CheckInstall, NextItem
  <2>4. CASE CheckRecover(t)
    BY <2>4 DEF CheckRecover, NextItem
  <2>5. QED
    BY <1>4, <2>1, <2>2, <2>3, <2>4 DEF Checking
<1>5. ASSUME NEW o \in Objects, GiveBack(o) PROVE Phases'
  BY <1>5 DEF GiveBack
<1>6. ASSUME NEW p \in Pids, Crash(p) PROVE Phases'
  BY <1>6 DEF Crash
<1>7. CASE Destructor
  BY <1>7 DEF Destructor
<1>8. CASE UNCHANGED vars
  BY <1>8 DEF vars
<1>9. QED
  BY <1>1, <1>2, <1>3, <1>4, <1>5, <1>6, <1>7, <1>8 DEF Next

\* The state of the manager keeps its types in every step of every thread.
THEOREM TypeCorrect == Spec => [](TypeOK /\ Phases)
<1>1. TypeOK /\ Phases /\ [Next]_vars => (TypeOK /\ Phases)'
  BY StepTyped, StepPhases
<1>2. QED
  BY InitTyped, <1>1, PTL DEF Spec

-----------------------------------------------------------------------------
(* Ownership                                                               *)

\* What the invariants say of ownership, without the set Owned.
LEMMA OwnedDef ==
  ASSUME NEW o
  PROVE  o \in Owned <=> /\ o # NoObject
                         /\ \/ \E s \in Services : process[s] = o
                            \/ \E t \in Threads : spawned[t] = o
BY DEF Owned

\* The same of the next state.
LEMMA OwnedPrimeDef ==
  ASSUME NEW o
  PROVE  o \in Owned' <=> /\ o # NoObject
                          /\ \/ \E s \in Services : process'[s] = o
                             \/ \E t \in Threads : spawned'[t] = o
BY DEF Owned

\* Both directions together: an object has one owner, a child has an object.
Ownership == OneOwner /\ NoOrphan

\* A manager that was just constructed owns nothing and has no children.
LEMMA InitOwnership == Init => Ownership
BY DEF Init, Ownership, OneOwner, NoOrphan, Owned, Blank, Free

\* A step that changes neither pointer nor object, and at most takes children
\* out of the process table or turns them into zombies, keeps the ownership.
LEMMA OwnershipKept ==
  ASSUME TypeOK, Ownership, UNCHANGED <<process, object, spawned>>,
         \A p \in Pids : os'[p].st = "free" \/ (os[p].st # "free" /\ os'[p].by = os[p].by)
  PROVE  Ownership'
BY DEF TypeOK, Ownership, OneOwner, NoOrphan, Owned

\* alive() forks nothing: what is in the process table was there before.
LEMMA ReapedShrinks ==
  ASSUME TypeOK, NEW O, os' = Reaped(O)
  PROVE  \A p \in Pids : os'[p].st = "free" \/ (os[p].st # "free" /\ os'[p].by = os[p].by)
BY DEF Reaped, Free, TypeOK, ProcessTable

\* The pointer of an entry is overwritten with the object in hand (or with
\* null), and what it held is destroyed: stop, the two installs, the catch block.
LEMMA OwnershipReplaced ==
  ASSUME TypeOK, Ownership, NEW s \in Services, NEW t, NEW o,
         Destroy(process[s]), process' = [process EXCEPT ![s] = o],
         \/ o = NoObject /\ spawned' = spawned
         \/ t \in Threads /\ o = spawned[t] /\ spawned' = [spawned EXCEPT ![t] = NoObject]
  PROVE  Ownership'
<1> DEFINE old == process[s]
<1> USE ManagerAssumption
<1>1. \A x : x \in Owned' <=> x \in Owned /\ x # old
  <2>1. ASSUME NEW x, x \in Owned' PROVE x \in Owned /\ x # old
    BY <2>1, OwnedDef, OwnedPrimeDef DEF TypeOK, Ownership, OneOwner
  <2>2. ASSUME NEW x, x \in Owned, x # old PROVE x \in Owned'
    BY <2>2, OwnedDef, OwnedPrimeDef DEF TypeOK, Ownership, OneOwner
  <2>3. QED
    BY <2>1, <2>2
<1>2. \A x \in Objects : object'[x] = IF x = old THEN Blank ELSE object[x]
  BY DEF Destroy, Dropped, TypeOK, ObjectTable
<1>3. \A p \in Pids : \/ os'[p].st = "free"
                      \/ os'[p] = os[p] /\ (old = NoObject \/ object[old].pid # p)
  BY DEF Destroy, Killed, Free, TypeOK, ProcessTable
<1>4. OneOwner'
  <2>1. \A x \in Objects : (object'[x].pid # NoPid) <=> x \in Owned'
    BY <1>1, <1>2 DEF Ownership, OneOwner, Blank
  <2>2. \A s1, s2 \in Services : s1 # s2 /\ process'[s1] # NoObject => process'[s1] # process'[s2]
    BY DEF TypeOK, Ownership, OneOwner
  <2>3. \A t1, t2 \in Threads : t1 # t2 /\ spawned'[t1] # NoObject => spawned'[t1] # spawned'[t2]
    BY DEF TypeOK, Ownership, OneOwner
  <2>4. \A s1 \in Services, t1 \in Threads : process'[s1] # NoObject => process'[s1] # spawned'[t1]
    BY DEF TypeOK, Ownership, OneOwner
  <2>5. QED
    BY <2>1, <2>2, <2>3, <2>4 DEF OneOwner
<1>5. NoOrphan'
  <2> SUFFICES ASSUME NEW p \in Pids, os'[p].st # "free"
               PROVE  os'[p].by \in Owned' /\ object'[os'[p].by].pid = p
    BY DEF NoOrphan
  <2>1. os'[p] = os[p] /\ (old = NoObject \/ object[old].pid # p)
    BY <1>3
  <2>2. os[p].by \in Owned /\ object[os[p].by].pid = p /\ os[p].by \in Objects
    BY <2>1, OwnedDef DEF Ownership, NoOrphan, TypeOK, ProcessTable
  <2>3. os[p].by # old
    BY <2>1, <2>2, OwnedDef
  <2>4. QED
    BY <1>1, <1>2, <2>1, <2>2, <2>3
<1>6. QED
  BY <1>4, <1>5 DEF Ownership

\* The same without a thread's object: stop, the catch block, a spawn that
\* failed after the old process was stopped.
LEMMA OwnershipCleared ==
  ASSUME TypeOK, Ownership, NEW s \in Services, Destroy(process[s]),
         process' = [process EXCEPT ![s] = NoObject], spawned' = spawned
  PROVE  Ownership'
<1> DEFINE o == NoObject
<1>1. /\ process' = [process EXCEPT ![s] = o]
      /\ o = NoObject /\ spawned' = spawned
  OBVIOUS
<1> HIDE DEF o
<1>2. QED
  BY <1>1, OwnershipReplaced

\* The objects that hold a pid in the table objs.
Holding(objs) == {x \in Objects : objs[x].pid # NoPid}

\* What spawn() does to the children: when the table it starts from has no
\* orphan with respect to objs, neither has the table it leaves, and exactly
\* the new object joins those that hold a pid, the dead one leaves them.
LEMMA SpawnedTables ==
  ASSUME NEW table \in ProcessTable, NEW objs \in ObjectTable, NEW e,
         NEW o \in Objects, NEW dead \in Objects \cup {NoObject}, dead # o,
         Spawn(o, e, table, objs, dead), object' \in ObjectTable,
         \A p \in Pids : table[p].st # "free" =>
            table[p].by \in Objects \ {o} /\ objs[table[p].by].pid = p
  PROVE  /\ Holding(object') = (Holding(objs) \cup {o}) \ {dead}
         /\ \A p \in Pids : os'[p].st # "free" =>
              os'[p].by \in Holding(object') /\ object'[os'[p].by].pid = p
<1> USE ManagerAssumption
<1>1. PICK p \in Pids :
        /\ os' = Killed([table EXCEPT ![p] = [st |-> "running", by |-> o]], objs, dead)
        /\ object' = Dropped([objs EXCEPT ![o] = [pid |-> p, image |-> e]], dead)
  BY DEF Spawn
<1> DEFINE forked == [table EXCEPT ![p] = [st |-> "running", by |-> o]]
<1>2. \A x \in Objects : object'[x].pid = IF x = dead THEN NoPid
                                          ELSE IF x = o THEN p ELSE objs[x].pid
  BY <1>1 DEF Dropped, ObjectTable, Blank
<1>3. \A q \in Pids : forked[q] = IF q = p THEN [st |-> "running", by |-> o] ELSE table[q]
  BY DEF ProcessTable
<1>4. forked \in [Pids -> [st : {"free", "running", "zombie"}, by : Objects \cup {NoObject}]]
  BY DEF ProcessTable
<1>5. \A q \in Pids : \/ os'[q].st = "free"
                      \/ /\ os'[q] = forked[q]
                         /\ dead = NoObject \/ objs[dead].pid # q
  <2> HIDE DEF forked
  <2>1. os' = Killed(forked, objs, dead)
    BY <1>1 DEF forked
  <2>2. QED
    BY <2>1, <1>4 DEF Killed, Free
<1>6. Holding(object') = (Holding(objs) \cup {o}) \ {dead}
  BY <1>2 DEF Holding
<1>7. ASSUME NEW q \in Pids, os'[q].st # "free"
      PROVE  os'[q].by \in Holding(object') /\ object'[os'[q].by].pid = q
  <2>1. os'[q] = forked[q] /\ (dead = NoObject \/ objs[dead].pid # q)
    BY <1>5, <1>7
  <2>2. CASE q = p
    BY <2>1, <2>2, <1>2, <1>3 DEF Holding
  <2>3. CASE q # p
    <3>1. os'[q] = table[q] /\ os'[q].by \in Objects \ {o} /\ objs[os'[q].by].pid = q
      BY <2>1, <2>3, <1>3, <1>7
    <3>2. os'[q].by # dead
      BY <3>1, <2>1
    <3>3. QED
      BY <3>1, <3>2, <1>2 DEF Holding
  <2>4. QED
    BY <2>2, <2>3
<1>8. QED
  BY <1>6, <1>7

\* A freshly spawned object becomes a thread's local one: start() and the
\* monitor.
LEMMA OwnershipSpawnedLocal ==
  ASSUME TypeOK, Ownership, NEW t \in Threads, NEW o \in Objects, NEW e,
         spawned[t] = NoObject, Spawn(o, e, os, object, NoObject),
         spawned' = [spawned EXCEPT ![t] = o], process' = process
  PROVE  Ownership'
<1> USE ManagerAssumption
<1>1. o \notin Owned
  BY DEF Spawn
<1>2. object' \in ObjectTable
  BY SpawnType DEF TypeOK
<1>3. Holding(object) = Owned
  BY OwnedDef DEF Holding, Ownership, OneOwner, TypeOK
<1>4. \A p \in Pids : os[p].st # "free" =>
        os[p].by \in Objects \ {o} /\ object[os[p].by].pid = p
  BY <1>1, OwnedDef DEF Ownership, NoOrphan, TypeOK, ProcessTable
<1>5. /\ Holding(object') = (Holding(object) \cup {o}) \ {NoObject}
      /\ \A p \in Pids : os'[p].st # "free" =>
           os'[p].by \in Holding(object') /\ object'[os'[p].by].pid = p
  <2> DEFINE dead == NoObject
  <2>1. os \in ProcessTable /\ object \in ObjectTable
    BY DEF TypeOK
  <2>2. dead \in Objects \cup {NoObject} /\ dead # o /\ Spawn(o, e, os, object, dead)
    OBVIOUS
  <2> HIDE DEF dead
  <2>3. /\ Holding(object') = (Holding(object) \cup {o}) \ {dead}
        /\ \A p \in Pids : os'[p].st # "free" =>
             os'[p].by \in Holding(object') /\ object'[os'[p].by].pid = p
    BY <1>2, <1>4, <2>1, <2>2, SpawnedTables, SMTT(60)
  <2>4. QED
    BY <2>3 DEF dead
<1>6. \A x : x \in Owned' <=> x \in Owned \/ x = o
  <2>1. ASSUME NEW x, x \in Owned' PROVE x \in Owned \/ x = o
    BY <2>1, OwnedDef, OwnedPrimeDef DEF TypeOK
  <2>2. ASSUME NEW x, x \in Owned \/ x = o PROVE x \in Owned'
    BY <2>2, OwnedDef, OwnedPrimeDef DEF TypeOK
  <2>3. QED
    BY <2>1, <2>2
<1>7. Holding(object') = Owned'
  BY <1>3, <1>5, <1>6, OwnedDef
<1>8. \A x \in Objects : object'[x].pid # NoPid <=> x \in Owned'
  BY <1>7 DEF Holding
<1>9. OneOwner'
  <2>1. \A s1, s2 \in Services : s1 # s2 /\ process'[s1] # NoObject => process'[s1] # process'[s2]
    BY DEF TypeOK, Ownership, OneOwner
  <2>2. \A t1, t2 \in Threads : t1 # t2 /\ spawned'[t1] # NoObject => spawned'[t1] # spawned'[t2]
    BY <1>1, OwnedDef DEF TypeOK, Ownership, OneOwner
  <2>3. \A s1 \in Services, t1 \in Threads : process'[s1] # NoObject => process'[s1] # spawned'[t1]
    BY <1>1, OwnedDef DEF TypeOK, Ownership, OneOwner
  <2>4. QED
    BY <2>1, <2>2, <2>3, <1>8 DEF OneOwner
<1>10. NoOrphan'
  BY <1>5, <1>7 DEF NoOrphan
<1>11. QED
  BY <1>9, <1>10 DEF Ownership

\* A freshly spawned object goes straight into an entry under the mutex: in
\* restart() and replace() what the entry held was destroyed before, in
\* connect() it is destroyed after.
LEMMA OwnershipSpawnedEntry ==
  ASSUME TypeOK, Ownership, NEW s \in Services, NEW o \in Objects, NEW e,
         NEW table \in ProcessTable, NEW objs \in ObjectTable,
         NEW dead, dead = NoObject \/ dead = process[s],
         Spawn(o, e, table, objs, dead),
         process' = [process EXCEPT ![s] = o], spawned' = spawned,
         Holding(objs) \ {dead} = Owned \ {process[s]},
         \A p \in Pids : table[p].st # "free" =>
           table[p].by \in Owned /\ objs[table[p].by].pid = p
  PROVE  Ownership'
<1> USE ManagerAssumption
<1>1. o \notin Owned
  BY DEF Spawn
<1>2. object' \in ObjectTable
  BY SpawnType DEF TypeOK
<1>3. dead \in Objects \cup {NoObject} /\ dead # o
  BY <1>1, OwnedDef DEF TypeOK
<1>4. \A p \in Pids : table[p].st # "free" =>
        table[p].by \in Objects \ {o} /\ objs[table[p].by].pid = p
  BY <1>1, OwnedDef DEF ProcessTable
<1>5. /\ Holding(object') = (Holding(objs) \cup {o}) \ {dead}
      /\ \A p \in Pids : os'[p].st # "free" =>
           os'[p].by \in Holding(object') /\ object'[os'[p].by].pid = p
  BY <1>2, <1>3, <1>4, SpawnedTables
<1>6. \A x : x \in Owned' <=> (x \in Owned /\ x # process[s]) \/ x = o
  <2>1. ASSUME NEW x, x \in Owned' PROVE (x \in Owned /\ x # process[s]) \/ x = o
    BY <2>1, OwnedDef, OwnedPrimeDef DEF TypeOK, Ownership, OneOwner
  <2>2. ASSUME NEW x, (x \in Owned /\ x # process[s]) \/ x = o PROVE x \in Owned'
    BY <2>2, OwnedDef, OwnedPrimeDef DEF TypeOK
  <2>3. QED
    BY <2>1, <2>2
<1>7. Holding(object') = Owned'
  BY <1>3, <1>5, <1>6
<1>8. \A x \in Objects : object'[x].pid # NoPid <=> x \in Owned'
  BY <1>7 DEF Holding
<1>9. OneOwner'
  <2>1. \A s1, s2 \in Services : s1 # s2 /\ process'[s1] # NoObject => process'[s1] # process'[s2]
    BY <1>1, OwnedDef DEF TypeOK, Ownership, OneOwner
  <2>2. \A t1, t2 \in Threads : t1 # t2 /\ spawned'[t1] # NoObject => spawned'[t1] # spawned'[t2]
    BY DEF TypeOK, Ownership, OneOwner
  <2>3. \A s1 \in Services, t1 \in Threads : process'[s1] # NoObject => process'[s1] # spawned'[t1]
    BY <1>1, OwnedDef DEF TypeOK, Ownership, OneOwner
  <2>4. QED
    BY <2>1, <2>2, <2>3, <1>8 DEF OneOwner
<1>10. NoOrphan'
  BY <1>5, <1>7 DEF NoOrphan
<1>11. QED
  BY <1>9, <1>10 DEF Ownership

\* restart() and replace(): terminate, forget, spawn into the entry.
LEMMA OwnershipRespawned ==
  ASSUME TypeOK, Phases, Ownership, NEW s \in Services, NEW e, Respawn(s, e)
  PROVE  Ownership'
<1> USE ManagerAssumption
<1> DEFINE old == process[s]
<1>1. spawned' = spawned
  BY DEF Respawn, localVars
<1>2. ASSUME NEW o \in Objects,
             Spawn(o, e, Killed(os, object, old), Dropped(object, old), NoObject),
             process' = [process EXCEPT ![s] = o]
      PROVE  Ownership'
  <2>1. /\ Killed(os, object, old) \in ProcessTable
        /\ Dropped(object, old) \in ObjectTable
    BY KilledType, DroppedType DEF TypeOK
  <2>2. \A x \in Objects : Dropped(object, old)[x] = IF x = old THEN Blank ELSE object[x]
    BY DEF Dropped, TypeOK, ObjectTable
  <2>3. Holding(Dropped(object, old)) = Owned \ {old}
    <3>1. \A x \in Objects : object[x].pid # NoPid <=> x \in Owned
      BY DEF Ownership, OneOwner
    <3>2. \A x \in Objects : Dropped(object, old)[x].pid # NoPid <=>
                              x \in Owned /\ x # old
      BY <2>2, <3>1 DEF Blank
    <3>3. \A x \in Owned : x \in Objects
      BY OwnedDef DEF TypeOK
    <3>4. QED
      BY <3>2, <3>3 DEF Holding
  <2>4. \A p \in Pids : \/ Killed(os, object, old)[p].st = "free"
                        \/ /\ Killed(os, object, old)[p] = os[p]
                           /\ old = NoObject \/ object[old].pid # p
    <3>1. CASE old = NoObject
      BY <3>1 DEF Killed
    <3>2. CASE old # NoObject
      <4>1. Killed(os, object, old) = [os EXCEPT ![object[old].pid] = Free]
        BY <3>2 DEF Killed
      <4>2. os \in ProcessTable
        BY DEF TypeOK
      <4>3. \A p \in Pids : Killed(os, object, old)[p] =
                            IF p = object[old].pid THEN Free ELSE os[p]
        BY <4>1, <4>2 DEF ProcessTable
      <4>4. QED
        BY <4>3 DEF Free
    <3>3. QED
      BY <3>1, <3>2
  <2>5. \A p \in Pids : Killed(os, object, old)[p].st # "free" =>
          /\ Killed(os, object, old)[p].by \in Owned
          /\ Dropped(object, old)[Killed(os, object, old)[p].by].pid = p
    <3> SUFFICES ASSUME NEW p \in Pids, Killed(os, object, old)[p].st # "free"
                 PROVE  /\ Killed(os, object, old)[p].by \in Owned
                        /\ Dropped(object, old)[Killed(os, object, old)[p].by].pid = p
      OBVIOUS
    <3>1. Killed(os, object, old)[p] = os[p] /\ (old = NoObject \/ object[old].pid # p)
      BY <2>4
    <3>2. os[p].by \in Owned /\ object[os[p].by].pid = p /\ os[p].by \in Objects
      BY <3>1, OwnedDef DEF Ownership, NoOrphan, TypeOK, ProcessTable
    <3>3. os[p].by # old
      BY <3>1, <3>2, OwnedDef
    <3>4. QED
      BY <3>1, <3>2, <3>3, <2>2
  <2> DEFINE table == Killed(os, object, old)
             objs == Dropped(object, old)
             dead == NoObject
  <2>6. /\ table \in ProcessTable /\ objs \in ObjectTable
        /\ (dead = NoObject \/ dead = process[s])
        /\ Spawn(o, e, table, objs, dead)
        /\ Holding(objs) \ {dead} = Owned \ {process[s]}
        /\ \A p \in Pids : table[p].st # "free" =>
             table[p].by \in Owned /\ objs[table[p].by].pid = p
    BY <1>2, <2>1, <2>3, <2>5, OwnedDef
  <2> HIDE DEF table, objs, dead
  <2>7. QED
    BY <1>1, <1>2, <2>6, OwnershipSpawnedEntry
<1>3. ASSUME Destroy(old), process' = [process EXCEPT ![s] = NoObject]
      PROVE  Ownership'
  BY <1>1, <1>3, OwnershipCleared
<1>4. QED
  BY <1>2, <1>3 DEF Respawn

\* connect() spawns into the entry under the mutex and the overwritten pointer
\* takes the dead object with it.
LEMMA OwnershipConnected ==
  ASSUME TypeOK, Phases, Ownership, NEW s \in Services, Connect(s)
  PROVE  Ownership'
<1> USE ManagerAssumption
<1> DEFINE old == process[s]
<1>1. spawned' = spawned
  BY DEF Connect, localVars
<1>2. CASE UNCHANGED <<process, object, os>>
  BY <1>1, <1>2, OwnershipKept DEF TypeOK, ProcessTable
<1>3. CASE os' = Reaped({old} \ {NoObject}) /\ UNCHANGED <<process, object>>
  BY <1>1, <1>3, ReapedShrinks, OwnershipKept
<1>4. ASSUME NEW o \in Objects,
             Spawn(o, executable[s], Reaped({old} \ {NoObject}), object, old),
             process' = [process EXCEPT ![s] = o]
      PROVE  Ownership'
  <2> DEFINE table == Reaped({old} \ {NoObject})
             dead == old
             e == executable[s]
             objs == object
  <2>1. table \in ProcessTable
    BY ReapedType DEF TypeOK
  <2>2. Holding(object) = Owned
    BY OwnedDef DEF Holding, Ownership, OneOwner, TypeOK
  <2>3. \A p \in Pids : table[p].st # "free" => table[p] = os[p]
    BY DEF Reaped, Free
  <2>4. \A p \in Pids : table[p].st # "free" =>
          table[p].by \in Owned /\ object[table[p].by].pid = p
    <3> HIDE DEF table
    <3>1. QED
      BY <2>3 DEF Ownership, NoOrphan
  <2>5. /\ (dead = NoObject \/ dead = process[s]) /\ objs \in ObjectTable
        /\ Spawn(o, e, table, objs, dead)
        /\ Holding(objs) \ {dead} = Owned \ {process[s]}
        /\ \A p \in Pids : table[p].st # "free" =>
             table[p].by \in Owned /\ objs[table[p].by].pid = p
    BY <1>4, <2>2, <2>4 DEF TypeOK
  <2> HIDE DEF table, dead, e, objs, old
  <2>6. PICK a, b, c, d : a = table /\ b = objs /\ c = e /\ d = dead
    OBVIOUS
  <2>7. /\ a \in ProcessTable /\ b \in ObjectTable /\ (d = NoObject \/ d = process[s])
        /\ Spawn(o, c, a, b, d)
        /\ Holding(b) \ {d} = Owned \ {process[s]}
        /\ \A p \in Pids : a[p].st # "free" => a[p].by \in Owned /\ b[a[p].by].pid = p
    BY <2>1, <2>5, <2>6
  <2>8. process' = [process EXCEPT ![s] = o]
    BY <1>4
  <2>9. QED
    BY <1>1, <2>7, <2>8, OwnershipSpawnedEntry
<1>5. QED
  BY <1>2, <1>3, <1>4 DEF Connect, machineVars

\* Every step keeps the ownership: an operation either leaves the pointers and
\* at most reaps, or moves one pointer, or spawns into one.
LEMMA StepOwnership == TypeOK /\ Phases /\ Ownership /\ [Next]_vars => Ownership'
<1> SUFFICES ASSUME TypeOK, Phases, Ownership, [Next]_vars
             PROVE  Ownership'
  OBVIOUS
<1> USE ManagerAssumption DEF entryVars, machineVars, localVars, historyVars
<1>0. ASSUME UNCHANGED <<process, object, os, spawned>> PROVE Ownership'
  BY <1>0, OwnershipKept DEF TypeOK, ProcessTable
<1>1. CASE Configure
  BY <1>0, <1>1 DEF Configure, RegisterService, RegisterRemoteService,
     RegisterDiscoverableService, SetAutoRestart, SetMaxRestarts, ResetRestartCount
<1>2. ASSUME NEW t \in Callers, Starting(t) PROVE Ownership'
  <2>1. ASSUME NEW s \in Services, StartRunning(t, s) PROVE Ownership'
    BY <1>0, <2>1 DEF StartRunning
  <2>2. ASSUME NEW s \in Services, StartCheck(t, s) PROVE Ownership'
    BY <2>2, ReapedShrinks, OwnershipKept DEF StartCheck
  <2>3. CASE StartSpawn(t)
    <3>1. PICK o \in Objects : /\ Spawn(o, target[t], os, object, NoObject)
                              /\ spawned' = [spawned EXCEPT ![t] = o]
      BY <2>3 DEF StartSpawn
    <3>2. spawned[t] = NoObject
      BY <2>3 DEF StartSpawn, Phases, Threads
    <3>3. t \in Threads /\ process' = process
      BY <2>3 DEF StartSpawn, Threads
    <3>4. QED
      BY <3>1, <3>2, <3>3, OwnershipSpawnedLocal
  <2>4. CASE StartSpawnFails(t)
    BY <1>0, <2>4 DEF StartSpawnFails
  <2>5. CASE StartInstall(t)
    <3>1. t \in Threads /\ svc[t] \in Services
      BY <2>5 DEF StartInstall, Phases, Threads
    <3>2. /\ Destroy(process[svc[t]])
          /\ process' = [process EXCEPT ![svc[t]] = spawned[t]]
          /\ spawned' = [spawned EXCEPT ![t] = NoObject]
      BY <2>5 DEF StartInstall
    <3>3. QED
      BY <3>1, <3>2, OwnershipReplaced
  <2>6. QED
    BY <1>2, <2>1, <2>2, <2>3, <2>4, <2>5 DEF Starting
<1>3. ASSUME NEW s \in Services, Locked(s) PROVE Ownership'
  <2>1. CASE Stop(s)
    BY <2>1, OwnershipCleared DEF Stop
  <2>2. CASE Restart(s)
    BY <2>2, OwnershipRespawned DEF Restart
  <2>3. ASSUME NEW e \in Executables, Replace(s, e) PROVE Ownership'
    BY <2>3, OwnershipRespawned DEF Replace
  <2>4. CASE Connect(s)
    BY <2>4, OwnershipConnected
  <2>5. CASE IsAlive(s)
    BY <2>5, ReapedShrinks, OwnershipKept DEF IsAlive
  <2>6. QED
    BY <1>3, <2>1, <2>2, <2>3, <2>4, <2>5 DEF Locked
<1>4. ASSUME NEW t \in Checkers, Checking(t) PROVE Ownership'
  <2>0. t \in Threads
    BY DEF Threads
  <2>1. CASE CheckCollect(t)
    BY <2>1, ReapedShrinks, OwnershipKept DEF CheckCollect
  <2>2. ASSUME NEW s \in Services, CheckSpawn(t, s) PROVE Ownership'
    <3>1. CASE UNCHANGED <<object, os, spawned>>
      BY <1>0, <2>2, <3>1 DEF CheckSpawn
    <3>2. ASSUME NEW o \in Objects, Spawn(o, todo[t][s], os, object, NoObject),
                 spawned' = [spawned EXCEPT ![t] = o]
          PROVE  Ownership'
      <4>1. spawned[t] = NoObject /\ process' = process
        BY <2>2, <2>0 DEF CheckSpawn, Phases
      <4>2. QED
        BY <2>0, <3>2, <4>1, OwnershipSpawnedLocal
    <3>3. QED
      BY <2>2, <3>1, <3>2 DEF CheckSpawn
  <2>3. CASE CheckInstall(t)
    <3>1. svc[t] \in Services
      BY <2>3 DEF CheckInstall, Phases
    <3>2. /\ Destroy(process[svc[t]])
          /\ process' = [process EXCEPT ![svc[t]] = spawned[t]]
          /\ spawned' = [spawned EXCEPT ![t] = NoObject]
      BY <2>3 DEF CheckInstall
    <3>3. QED
      BY <2>0, <3>1, <3>2, OwnershipReplaced
  <2>4. CASE CheckRecover(t)
    <3>1. svc[t] \in Services
      BY <2>4 DEF CheckRecover, Phases
    <3>2. QED
      BY <2>4, <3>1, OwnershipCleared DEF CheckRecover
  <2>5. QED
    BY <1>4, <2>1, <2>2, <2>3, <2>4 DEF Checking
<1>5. ASSUME NEW o \in Objects, GiveBack(o) PROVE Ownership'
  BY <1>0, <1>5 DEF GiveBack
<1>6. ASSUME NEW p \in Pids, Crash(p) PROVE Ownership'
  <2>1. \A q \in Pids : os'[q].st = "free" \/ (os[q].st # "free" /\ os'[q].by = os[q].by)
    <3>1. os' = [os EXCEPT ![p] = [st |-> "zombie", by |-> os[p].by]] /\ os[p].st = "running"
      BY <1>6 DEF Crash
    <3>2. QED
      BY <3>1 DEF TypeOK, ProcessTable
  <2>2. QED
    BY <1>6, <2>1, OwnershipKept DEF Crash
<1>7. CASE Destructor
  <2>1. \A t \in Threads : spawned[t] = NoObject /\ spawned'[t] = NoObject
    BY <1>7 DEF Destructor, Phases, TypeOK
  <2>2. Owned = Remaining /\ Owned' = {}
    BY <1>7, <2>1 DEF Destructor, Owned, Remaining, TypeOK
  <2>3. \A o \in Objects : object'[o].pid = NoPid
    BY <1>7, <2>2 DEF Destructor, Blank, Ownership, OneOwner, TypeOK
  <2>4. \A p \in Pids : os'[p].st = "free"
    BY <1>7, <2>2 DEF Destructor, Free, Ownership, NoOrphan, TypeOK, ProcessTable
  <2>5. OneOwner'
    <3>1. \A s \in Services : process'[s] = NoObject
      BY <1>7 DEF Destructor
    <3>2. QED
      BY <2>1, <2>2, <2>3, <3>1 DEF OneOwner
  <2>6. QED
    BY <2>4, <2>5 DEF Ownership, NoOrphan
<1>8. CASE UNCHANGED vars
  BY <1>0, <1>8 DEF vars
<1>9. QED
  BY <1>1, <1>2, <1>3, <1>4, <1>5, <1>6, <1>7, <1>8 DEF Next

\* Whatever threads start, stop, restart, replace, connect and check at the
\* same time, a ServiceProcess has one owner and no child is left without one.
THEOREM OwnershipHolds == Spec => [](OneOwner /\ NoOrphan)
<1>1. Init => TypeOK /\ Phases /\ Ownership
  BY InitTyped, InitOwnership
<1>2. TypeOK /\ Phases /\ Ownership /\ [Next]_vars => (TypeOK /\ Phases /\ Ownership)'
  BY StepTyped, StepPhases, StepOwnership
<1>3. TypeOK /\ Phases /\ Ownership => OneOwner /\ NoOrphan
  BY DEF Ownership
<1>4. QED
  BY <1>1, <1>2, <1>3, PTL DEF Spec

\* No child is leaked: spawns that fail, entries that are overwritten and
\* operations that meet leave no process without a ServiceProcess that reaps it.
COROLLARY NoChildLeaks == Spec => []NoOrphan
<1>1. OneOwner /\ NoOrphan => NoOrphan
  OBVIOUS
<1>2. QED
  BY OwnershipHolds, <1>1, PTL

-----------------------------------------------------------------------------
(* Stopped services and the manager's end                                  *)

\* While a checker installs or recovers, the service it is at is still in its
\* list; a stopped service has no process and is in nobody's hands; a destroyed
\* manager has neither threads inside nor pointers.
Quiet ==
  /\ \A t \in Checkers : pc[t] \in {"install", "recover"} => todo[t][svc[t]] # NoExecutable
  /\ \A s \in Services : stopped[s] => process[s] = NoObject /\ ~InFlight(s)
  /\ ~open => /\ \A t \in Threads : pc[t] = "idle"
              /\ \A s \in Services : process[s] = NoObject

\* Moving on to the next element only ever shortens the list.
LEMMA NextItemQuiet ==
  ASSUME TypeOK, NEW t \in Checkers, NextItem(t)
  PROVE  /\ pc'[t] \in {"idle", "loop"}
         /\ \A t1 \in Threads : t1 # t => pc'[t1] = pc[t1] /\ svc'[t1] = svc[t1]
         /\ \A t1 \in Checkers : t1 # t => todo'[t1] = todo[t1]
         /\ \A s \in Services : todo'[t][s] # NoExecutable => todo[t][s] # NoExecutable
<1> DEFINE left == [todo[t] EXCEPT ![svc[t]] = NoExecutable]
<1>1. /\ todo' = [todo EXCEPT ![t] = left]
      /\ svc' = [svc EXCEPT ![t] = NoService]
      /\ pc' \in {[pc EXCEPT ![t] = "idle"], [pc EXCEPT ![t] = "loop"]}
  BY DEF NextItem
<1>2. t \in Threads
  BY DEF Threads
<1>3. todo'[t] = left
  BY <1>1 DEF TypeOK
<1>4. \A s \in Services : left[s] # NoExecutable => todo[t][s] # NoExecutable
  BY DEF TypeOK
<1>5. QED
  BY <1>1, <1>2, <1>3, <1>4 DEF TypeOK

\* Nothing is in flight in a manager that was just constructed.
LEMMA InitQuiet == Init => Quiet
BY ManagerAssumption DEF Init, Quiet, InFlight, Threads

\* Every step keeps a stopped service stopped until it is started, and a
\* destroyed manager empty.
LEMMA StepQuiet == TypeOK /\ Phases /\ Quiet /\ [Next]_vars => Quiet'
<1> SUFFICES ASSUME TypeOK, Phases, Quiet, [Next]_vars
             PROVE  Quiet'
  OBVIOUS
<1> USE ManagerAssumption DEF entryVars, machineVars, localVars, historyVars, Quiet, InFlight
<1>0. ASSUME UNCHANGED <<process, localVars, open, stopped>> PROVE Quiet'
  BY <1>0
<1>1. CASE Configure
  BY <1>0, <1>1 DEF Configure, RegisterService, RegisterRemoteService,
     RegisterDiscoverableService, SetAutoRestart, SetMaxRestarts, ResetRestartCount
<1>2. ASSUME NEW t \in Callers, Starting(t) PROVE Quiet'
  <2>0. t \in Threads /\ t \notin Checkers
    BY DEF Threads
  <2>1. ASSUME NEW s \in Services, StartRunning(t, s) PROVE Quiet'
    BY <1>0, <2>1 DEF StartRunning
  <2>2. ASSUME NEW s \in Services, StartCheck(t, s) PROVE Quiet'
    BY <2>0, <2>2 DEF StartCheck, TypeOK
  <2>3. CASE StartSpawn(t)
    BY <2>0, <2>3 DEF StartSpawn, TypeOK
  <2>4. CASE StartSpawnFails(t)
    BY <2>0, <2>4 DEF StartSpawnFails, Return, TypeOK
  <2>5. CASE StartInstall(t)
    <3>1. /\ process' = [process EXCEPT ![svc[t]] = spawned[t]]
          /\ pc' = [pc EXCEPT ![t] = "idle"] /\ svc' = [svc EXCEPT ![t] = NoService]
          /\ UNCHANGED <<todo, open, stopped>>
          /\ svc[t] \in Services /\ open
      BY <2>0, <2>5 DEF StartInstall, Return, Phases
    <3>2. QED
      BY <2>0, <3>1 DEF TypeOK
  <2>6. QED
    BY <1>2, <2>1, <2>2, <2>3, <2>4, <2>5 DEF Starting
<1>3. ASSUME NEW s \in Services, Locked(s) PROVE Quiet'
  <2>1. CASE Stop(s)
    BY <2>1 DEF Stop, TypeOK
  <2>2. ASSUME UNCHANGED localVars, open' = open, open,
               stopped' = [stopped EXCEPT ![s] = FALSE],
               NEW o, process' = [process EXCEPT ![s] = o] \/ process' = process
        PROVE  Quiet'
    BY <2>2 DEF TypeOK
  <2>3. ASSUME NEW e, Respawn(s, e) PROVE Quiet'
    BY <2>2, <2>3 DEF Respawn
  <2>4. CASE Connect(s)
    BY <2>2, <2>4 DEF Connect
  <2>5. CASE IsAlive(s)
    BY <1>0, <2>5 DEF IsAlive
  <2>6. QED
    BY <1>3, <2>1, <2>3, <2>4, <2>5 DEF Locked, Restart, Replace
<1>4. ASSUME NEW t \in Checkers, Checking(t) PROVE Quiet'
  <2>0. t \in Threads /\ t \notin Callers /\ Checkers \subseteq Threads
    BY DEF Threads
  <2>1. CASE CheckCollect(t)
    <3>1. \A s \in Services : todo'[t][s] # NoExecutable => process[s] # NoObject
      BY <2>1 DEF CheckCollect, Due, Examined, TypeOK
    <3>2. QED
      BY <2>0, <2>1, <3>1 DEF CheckCollect, TypeOK
  <2>2. ASSUME NEW s \in Services, CheckSpawn(t, s) PROVE Quiet'
    <3>1. /\ pc' \in {[pc EXCEPT ![t] = "install"], [pc EXCEPT ![t] = "recover"]}
          /\ svc' = [svc EXCEPT ![t] = s] /\ todo[t][s] # NoExecutable /\ pc[t] = "loop"
          /\ UNCHANGED <<process, todo, open, stopped>>
      BY <2>2 DEF CheckSpawn
    <3>2. /\ pc'[t] # "idle" /\ svc'[t] = s /\ todo'[t][s] # NoExecutable /\ open
          /\ \A t1 \in Threads : t1 # t => pc'[t1] = pc[t1] /\ svc'[t1] = svc[t1]
      BY <2>0, <3>1 DEF TypeOK
    <3> HIDE DEF InFlight
    <3>3. \A s1 \in Services : InFlight(s1)' => InFlight(s1)
      BY <2>0, <3>1, <3>2 DEF InFlight, Threads
    <3>4. QED
      BY <2>0, <3>1, <3>2, <3>3
  <2>3. ASSUME NextItem(t), pc[t] \in {"install", "recover"}, open' = open, stopped' = stopped,
               NEW o, process' = [process EXCEPT ![svc[t]] = o]
        PROVE  Quiet'
    <3>1. svc[t] \in Services /\ ~stopped[svc[t]] /\ open
      BY <2>0, <2>3 DEF Phases
    <3> HIDE DEF InFlight
    <3>2. /\ pc'[t] \in {"idle", "loop"}
          /\ \A t1 \in Threads : t1 # t => pc'[t1] = pc[t1] /\ svc'[t1] = svc[t1]
          /\ \A t1 \in Checkers : t1 # t => todo'[t1] = todo[t1]
          /\ \A s \in Services : todo'[t][s] # NoExecutable => todo[t][s] # NoExecutable
      BY <2>3, NextItemQuiet
    <3>3. \A s1 \in Services : InFlight(s1)' => InFlight(s1)
      BY <2>0, <3>2 DEF InFlight, Threads
    <3>4. \A s1 \in Services : s1 # svc[t] => process'[s1] = process[s1]
      BY <2>3 DEF TypeOK
    <3>5. QED
      BY <2>0, <2>3, <3>1, <3>2, <3>3, <3>4
  <2>4. CASE CheckInstall(t)
    <3>1. CASE NextItem(t)
      BY <2>3, <2>4, <3>1 DEF CheckInstall
    <3>2. CASE pc' = [pc EXCEPT ![t] = "recover"] /\ UNCHANGED <<svc, todo>>
      BY <2>0, <2>4, <3>2 DEF CheckInstall, TypeOK
    <3>3. QED
      BY <2>4, <3>1, <3>2 DEF CheckInstall
  <2>5. CASE CheckRecover(t)
    BY <2>3, <2>5 DEF CheckRecover
  <2>6. QED
    BY <1>4, <2>1, <2>2, <2>4, <2>5 DEF Checking
<1>5. ASSUME NEW o \in Objects, GiveBack(o) PROVE Quiet'
  BY <1>0, <1>5 DEF GiveBack
<1>6. ASSUME NEW p \in Pids, Crash(p) PROVE Quiet'
  BY <1>0, <1>6 DEF Crash
<1>7. CASE Destructor
  BY <1>7 DEF Destructor
<1>8. CASE UNCHANGED vars
  BY <1>0, <1>8 DEF vars
<1>9. QED
  BY <1>1, <1>2, <1>3, <1>4, <1>5, <1>6, <1>7, <1>8 DEF Next

\* A service stopped while nobody had it in flight stays down until somebody
\* starts it, whatever the monitor does meanwhile.
THEOREM StopIsFinal == Spec => []StopHolds
<1>1. Init => TypeOK /\ Phases /\ Quiet
  BY InitTyped, InitQuiet
<1>2. TypeOK /\ Phases /\ Quiet /\ [Next]_vars => (TypeOK /\ Phases /\ Quiet)'
  BY StepTyped, StepPhases, StepQuiet
<1>3. Quiet => StopHolds
  BY DEF Quiet, StopHolds
<1>4. QED
  BY <1>1, <1>2, <1>3, PTL DEF Spec

\* Destroying the manager leaves no child behind, running or zombie.
THEOREM NoChildOutlives == Spec => []NothingOutlives
<1>1. Init => TypeOK /\ Phases /\ Ownership /\ Quiet
  BY InitTyped, InitOwnership, InitQuiet
<1>2. TypeOK /\ Phases /\ Ownership /\ Quiet /\ [Next]_vars
        => (TypeOK /\ Phases /\ Ownership /\ Quiet)'
  BY StepTyped, StepPhases, StepOwnership, StepQuiet
<1>3. TypeOK /\ Phases /\ Ownership /\ Quiet => NothingOutlives
  <2> SUFFICES ASSUME TypeOK, Phases, Ownership, Quiet, ~open, NEW p \in Pids,
                      os[p].st # "free"
               PROVE  FALSE
    BY DEF NothingOutlives
  <2>1. os[p].by \in Owned
    BY DEF Ownership, NoOrphan
  <2>2. \A t \in Threads : spawned[t] = NoObject
    BY DEF Quiet, Phases, TypeOK
  <2>3. QED
    BY <2>1, <2>2, OwnedDef DEF Quiet
<1>4. QED
  BY <1>1, <1>2, <1>3, PTL DEF Spec

-----------------------------------------------------------------------------
(* Restarts are counted before they are made                               *)

\* With as many or fewer restarts to make, no more made and no fewer counted,
\* a service stays within its budget.
LEMMA BudgetKept ==
  ASSUME TypeOK, RespawnBudget, NEW s \in Services,
         Queued(s)' \subseteq Queued(s),
         restartCount'[s] = restartCount[s], respawns'[s] = respawns[s],
         carried'[s] = carried[s]
  PROVE  respawns'[s] + Cardinality(Queued(s)') <= restartCount'[s] + carried'[s]
<1>1. Cardinality(Queued(s)') <= Cardinality(Queued(s))
  BY QueuedFinite, FS_Subset
<1>2. /\ restartCount[s] \in Nat /\ respawns[s] \in Nat /\ carried[s] \in Nat
      /\ respawns[s] + Cardinality(Queued(s)) <= restartCount[s] + carried[s]
  BY DEF TypeOK, RespawnBudget
<1>3. QED
  BY <1>1, <1>2, QueuedFinite

\* Deciding on a restart puts one checker in line for it, and counts it.
LEMMA CollectBudget ==
  ASSUME TypeOK, RespawnBudget, NEW t \in Checkers, CheckCollect(t), NEW s \in Services
  PROVE  respawns'[s] + Cardinality(Queued(s)') <= restartCount'[s] + carried'[s]
<1>1. /\ pc' \in {[pc EXCEPT ![t] = "idle"], [pc EXCEPT ![t] = "loop"]}
      /\ todo' = [todo EXCEPT ![t] = [x \in Services |->
                   IF x \in Due THEN executable[x] ELSE NoExecutable]]
      /\ restartCount' = CountedRestarts
      /\ UNCHANGED <<svc, respawns, carried>>
  BY DEF CheckCollect, historyVars
<1>2. t \in Threads /\ Checkers \subseteq Threads
  BY DEF Threads
<1>3. /\ \A t1 \in Checkers : t1 # t => pc'[t1] = pc[t1] /\ todo'[t1] = todo[t1]
      /\ todo'[t][s] = IF s \in Due THEN executable[s] ELSE NoExecutable
  BY <1>1, <1>2 DEF TypeOK
<1>4. CASE s \notin Due
  <2>1. Queued(s)' \subseteq Queued(s)
    BY <1>1, <1>3, <1>4 DEF Queued
  <2>2. restartCount'[s] = restartCount[s]
    BY <1>1, <1>4 DEF CountedRestarts
  <2>3. QED
    BY <1>1, <2>1, <2>2, BudgetKept
<1>5. CASE s \in Due
  <2>1. Queued(s)' \subseteq Queued(s) \cup {t}
    BY <1>1, <1>3 DEF Queued
  <2>2. /\ IsFiniteSet(Queued(s) \cup {t})
        /\ Cardinality(Queued(s) \cup {t}) \in Nat
        /\ Cardinality(Queued(s) \cup {t}) <= Cardinality(Queued(s)) + 1
    <3>1. IsFiniteSet(Queued(s)) /\ Cardinality(Queued(s)) \in Nat
      BY QueuedFinite
    <3>2. /\ IsFiniteSet(Queued(s) \cup {t})
          /\ Cardinality(Queued(s) \cup {t})
               \in {Cardinality(Queued(s)), Cardinality(Queued(s)) + 1}
      BY <3>1, FS_AddElement
    <3>3. QED
      BY <3>1, <3>2
  <2>3. Cardinality(Queued(s)') <= Cardinality(Queued(s) \cup {t})
    BY <2>1, <2>2, FS_Subset
  <2>4. restartCount'[s] = restartCount[s] + 1
    BY <1>1, <1>5 DEF CountedRestarts
  <2>5. /\ restartCount[s] \in Nat /\ respawns[s] \in Nat /\ carried[s] \in Nat
        /\ respawns[s] + Cardinality(Queued(s)) <= restartCount[s] + carried[s]
    BY DEF TypeOK, RespawnBudget
  <2>6. QED
    BY <1>1, <2>2, <2>3, <2>4, <2>5, QueuedFinite
<1>6. QED
  BY <1>4, <1>5

\* A restart that is made takes its checker out of the line.
LEMMA SpawnBudget ==
  ASSUME TypeOK, RespawnBudget, NEW t \in Checkers, NEW s \in Services,
         CheckSpawn(t, s), NEW s1 \in Services
  PROVE  respawns'[s1] + Cardinality(Queued(s1)') <= restartCount'[s1] + carried'[s1]
<1>1. /\ pc' \in {[pc EXCEPT ![t] = "install"], [pc EXCEPT ![t] = "recover"]}
      /\ svc' = [svc EXCEPT ![t] = s]
      /\ respawns' = [respawns EXCEPT ![s] = @ + 1]
      /\ pc[t] = "loop" /\ todo[t][s] # NoExecutable
      /\ UNCHANGED <<todo, restartCount, carried>>
  BY DEF CheckSpawn, entryVars
<1>2. t \in Threads /\ Checkers \subseteq Threads
  BY DEF Threads
<1>3. /\ \A t1 \in Checkers : t1 # t => pc'[t1] = pc[t1] /\ svc'[t1] = svc[t1]
      /\ pc'[t] \in {"install", "recover"} /\ svc'[t] = s
  BY <1>1, <1>2 DEF TypeOK
<1>4. CASE s1 # s
  <2>1. Queued(s1)' \subseteq Queued(s1)
    BY <1>1, <1>3 DEF Queued
  <2>2. respawns'[s1] = respawns[s1]
    BY <1>1, <1>4 DEF TypeOK
  <2>3. QED
    BY <1>1, <2>1, <2>2, BudgetKept
<1>5. CASE s1 = s
  <2>1. t \in Queued(s)
    BY <1>1 DEF Queued
  <2>2. Queued(s)' \subseteq Queued(s) \ {t}
    BY <1>1, <1>3 DEF Queued
  <2>3. /\ IsFiniteSet(Queued(s) \ {t})
        /\ Cardinality(Queued(s) \ {t}) = Cardinality(Queued(s)) - 1
    BY <2>1, QueuedFinite, FS_RemoveElement
  <2>4. Cardinality(Queued(s)') <= Cardinality(Queued(s) \ {t})
    BY <2>2, <2>3, FS_Subset
  <2>5. respawns'[s] = respawns[s] + 1
    BY <1>1 DEF TypeOK
  <2>6. /\ restartCount[s] \in Nat /\ respawns[s] \in Nat /\ carried[s] \in Nat
        /\ respawns[s] + Cardinality(Queued(s)) <= restartCount[s] + carried[s]
    BY DEF TypeOK, RespawnBudget
  <2>7. QED
    BY <1>1, <1>5, <2>3, <2>4, <2>5, <2>6, QueuedFinite
<1>6. QED
  BY <1>4, <1>5

\* Being done with an element puts nobody in line.
LEMMA NextItemBudget ==
  ASSUME TypeOK, NEW t \in Checkers, svc[t] \in Services, NextItem(t), NEW s \in Services
  PROVE  Queued(s)' \subseteq Queued(s)
<1> DEFINE left == [todo[t] EXCEPT ![svc[t]] = NoExecutable]
<1>1. /\ todo' = [todo EXCEPT ![t] = left]
      /\ svc' = [svc EXCEPT ![t] = NoService]
      /\ pc' \in {[pc EXCEPT ![t] = "idle"], [pc EXCEPT ![t] = "loop"]}
  BY DEF NextItem
<1>2. t \in Threads /\ Checkers \subseteq Threads
  BY DEF Threads
<1>3. \A t1 \in Checkers : t1 # t => /\ todo'[t1] = todo[t1] /\ pc'[t1] = pc[t1]
                                      /\ svc'[t1] = svc[t1]
  BY <1>1, <1>2 DEF TypeOK
<1>4. todo'[t][s] # NoExecutable => s # svc[t] /\ todo[t][s] # NoExecutable
  <2>1. todo'[t] = left
    BY <1>1 DEF TypeOK
  <2>2. left[s] # NoExecutable => s # svc[t] /\ todo[t][s] # NoExecutable
    BY DEF TypeOK
  <2>3. QED
    BY <2>1, <2>2
<1>5. QED
  BY <1>3, <1>4 DEF Queued

\* Every step of every thread keeps every service within its budget.
LEMMA StepBudget == TypeOK /\ Phases /\ RespawnBudget /\ [Next]_vars => RespawnBudget'
<1> SUFFICES ASSUME TypeOK, Phases, RespawnBudget, [Next]_vars, NEW s \in Services
             PROVE  respawns'[s] + Cardinality(Queued(s)') <= restartCount'[s] + carried'[s]
  BY DEF RespawnBudget
<1> DEFINE Goal == respawns'[s] + Cardinality(Queued(s)') <= restartCount'[s] + carried'[s]
<1> USE DEF entryVars, machineVars, localVars, historyVars
<1>0. ASSUME UNCHANGED <<pc, svc, todo, restartCount, respawns, carried>> PROVE Goal
  <2>1. Queued(s)' \subseteq Queued(s)
    BY <1>0 DEF Queued
  <2>2. QED
    BY <1>0, <2>1, BudgetKept
<1>1. CASE Configure
  <2>1. ASSUME NEW s1 \in Services, ResetRestartCount(s1) PROVE Goal
    <3>1. /\ restartCount' = [restartCount EXCEPT ![s1] = 0]
          /\ respawns' = [respawns EXCEPT ![s1] = 0]
          /\ carried' = [carried EXCEPT ![s1] = Cardinality(Queued(s1))]
          /\ UNCHANGED <<pc, svc, todo>>
      BY <2>1 DEF ResetRestartCount
    <3>2. Queued(s)' = Queued(s)
      BY <3>1 DEF Queued
    <3>3. CASE s = s1
      <4>1. respawns'[s] = 0 /\ restartCount'[s] = 0 /\ carried'[s] = Cardinality(Queued(s))
        BY <3>1, <3>3 DEF TypeOK
      <4>2. QED
        BY <3>2, <4>1, QueuedFinite
    <3>4. CASE s # s1
      <4>1. /\ respawns'[s] = respawns[s] /\ restartCount'[s] = restartCount[s]
            /\ carried'[s] = carried[s]
        BY <3>1, <3>4 DEF TypeOK
      <4>2. QED
        BY <3>2, <4>1, BudgetKept
    <3>5. QED
      BY <3>3, <3>4
  <2>2. QED
    BY <1>0, <1>1, <2>1 DEF Configure, RegisterService, RegisterRemoteService,
       RegisterDiscoverableService, SetAutoRestart, SetMaxRestarts
<1>2. ASSUME NEW t \in Callers, Starting(t) PROVE Goal
  <2>0. t \notin Checkers
    BY ManagerAssumption
  <2>1. ASSUME NEW n, pc' = [pc EXCEPT ![t] = n], NEW m, svc' = [svc EXCEPT ![t] = m] \/ svc' = svc,
               UNCHANGED <<todo, restartCount, respawns, carried>>
        PROVE  Goal
    <3>1. \A t1 \in Checkers : pc'[t1] = pc[t1] /\ svc'[t1] = svc[t1]
      BY <2>0, <2>1 DEF TypeOK, Threads
    <3>2. Queued(s)' \subseteq Queued(s)
      BY <2>1, <3>1 DEF Queued
    <3>3. QED
      BY <2>1, <3>2, BudgetKept
  <2>2. ASSUME NEW s1 \in Services, StartRunning(t, s1) PROVE Goal
    BY <1>0, <2>2 DEF StartRunning
  <2>3. ASSUME NEW s1 \in Services, StartCheck(t, s1) PROVE Goal
    BY <2>1, <2>3 DEF StartCheck
  <2>4. CASE StartSpawn(t)
    BY <2>1, <2>4 DEF StartSpawn
  <2>5. CASE StartSpawnFails(t)
    BY <2>1, <2>5 DEF StartSpawnFails, Return
  <2>6. CASE StartInstall(t)
    BY <2>1, <2>6 DEF StartInstall, Return
  <2>7. QED
    BY <1>2, <2>2, <2>3, <2>4, <2>5, <2>6 DEF Starting
<1>3. ASSUME NEW s1 \in Services, Locked(s1) PROVE Goal
  BY <1>0, <1>3 DEF Locked, Stop, Restart, Replace, Respawn, Connect, IsAlive
<1>4. ASSUME NEW t \in Checkers, Checking(t) PROVE Goal
  <2>1. CASE CheckCollect(t)
    BY <2>1, CollectBudget
  <2>2. ASSUME NEW s1 \in Services, CheckSpawn(t, s1) PROVE Goal
    BY <2>2, SpawnBudget
  <2>3. ASSUME NextItem(t), pc[t] \in {"install", "recover"},
               UNCHANGED <<restartCount, respawns, carried>>
        PROVE  Goal
    <3>1. svc[t] \in Services
      BY <2>3 DEF Phases
    <3>2. QED
      BY <2>3, <3>1, NextItemBudget, BudgetKept
  <2>4. CASE CheckInstall(t)
    <3>1. CASE NextItem(t)
      BY <2>3, <2>4, <3>1 DEF CheckInstall
    <3>2. CASE pc' = [pc EXCEPT ![t] = "recover"] /\ UNCHANGED <<svc, todo>>
      <4>1. \A t1 \in Checkers : t1 # t => pc'[t1] = pc[t1]
        BY <3>2 DEF TypeOK, Threads
      <4>2. pc[t] = "install" /\ pc'[t] = "recover"
        BY <2>4, <3>2 DEF CheckInstall, TypeOK, Threads
      <4>3. Queued(s)' \subseteq Queued(s)
        BY <3>2, <4>1, <4>2 DEF Queued
      <4>4. QED
        BY <2>4, <4>3, BudgetKept DEF CheckInstall
    <3>3. QED
      BY <2>4, <3>1, <3>2 DEF CheckInstall
  <2>5. CASE CheckRecover(t)
    BY <2>3, <2>5 DEF CheckRecover
  <2>6. QED
    BY <1>4, <2>1, <2>2, <2>4, <2>5 DEF Checking
<1>5. ASSUME NEW o \in Objects, GiveBack(o) PROVE Goal
  BY <1>0, <1>5 DEF GiveBack
<1>6. ASSUME NEW p \in Pids, Crash(p) PROVE Goal
  BY <1>0, <1>6 DEF Crash
<1>7. CASE Destructor
  BY <1>0, <1>7 DEF Destructor
<1>8. CASE UNCHANGED vars
  BY <1>0, <1>8 DEF vars
<1>9. QED
  BY <1>1, <1>2, <1>3, <1>4, <1>5, <1>6, <1>7, <1>8 DEF Next

\* check_and_restart never spawns a service more often than it has counted,
\* however many threads run it and whenever the counter is reset under them.
THEOREM RestartsAreCounted == Spec => []RespawnBudget
<1>1. Init => TypeOK /\ Phases /\ RespawnBudget
  <2> SUFFICES ASSUME Init, NEW s \in Services
               PROVE  respawns[s] + Cardinality(Queued(s)) <= restartCount[s] + carried[s]
    BY InitTyped DEF RespawnBudget
  <2>1. Queued(s) = {}
    BY DEF Init, Queued
  <2>2. QED
    BY <2>1, FS_EmptySet DEF Init
<1>2. TypeOK /\ Phases /\ RespawnBudget /\ [Next]_vars
        => (TypeOK /\ Phases /\ RespawnBudget)'
  BY StepTyped, StepPhases, StepBudget
<1>3. QED
  BY <1>1, <1>2, PTL DEF Spec

=============================================================================
