--------------------------- MODULE ServiceManager ---------------------------
(***************************************************************************)
(* The process side of song::ServiceManager and song::ServiceProcess       *)
(* (src/src/manager.cpp, src/src/process.cpp): entries of local services,  *)
(* the ServiceProcess objects they own through unique_ptr, and the child   *)
(* processes those objects forked.                                         *)
(*                                                                         *)
(* Every operation takes mutex_, so a critical section is one action.      *)
(* start() and check_and_restart() drop the mutex around fork, exec and    *)
(* handshake: each is split there, and everything else interleaves.  The   *)
(* callers of the public operations are Callers; Checkers are the threads  *)
(* that run check_and_restart (the monitor thread, or a caller of the      *)
(* public check_and_restart).                                              *)
(*                                                                         *)
(* Abstracted: names and paths are model values, the 100 ms polls of       *)
(* terminate() are its outcome (the child is gone and reaped), an          *)
(* operation that throws before it changes anything is no step.            *)
(***************************************************************************)
EXTENDS Integers, FiniteSets

CONSTANTS
  Services,      \* names services are registered under
  Executables,   \* images a local service may be spawned from
  Working,       \* executables whose spawn may succeed
  Flaky,         \* executables whose spawn may fail (exec, timeout, version)
  Objects,       \* addresses of ServiceProcess objects
  Pids,          \* process ids of the operating system
  Callers,       \* threads calling the public operations
  Checkers,      \* threads running check_and_restart
  Limits,        \* values given to set_max_restarts (0 = unlimited)
  DefaultLimit,  \* max_restarts of a new entry (5 in the code)
  PidReuse,      \* may the OS reuse a pid some object still remembers?
  CallbackThrows,\* may the restart callback throw a std::exception?
  MaxCount,      \* bound on restart_count
  MaxBorrowed,   \* bound on the raw ServiceProcess* held by users
  NoObject, NoPid, NoExecutable, NoService

ASSUME ManagerAssumption ==
  /\ Working \cup Flaky = Executables
  /\ Limits \subseteq Nat /\ DefaultLimit \in Nat
  /\ PidReuse \in BOOLEAN /\ CallbackThrows \in BOOLEAN
  /\ MaxCount \in Nat /\ MaxBorrowed \in Nat
  /\ NoObject \notin Objects /\ NoPid \notin Pids
  /\ NoExecutable \notin Executables /\ NoService \notin Services
  /\ Callers \cap Checkers = {} /\ IsFiniteSet(Checkers)

VARIABLES
  \* ServiceEntry, one function per field
  kind, executable, autoRestart, restartCount, maxRestarts, process,
  \* ServiceProcess objects and the kernel's process table
  object, os,
  \* locals of the threads inside start() and check_and_restart()
  pc, svc, target, spawned, todo,
  \* raw pointers handed out, the manager's lifetime, and history
  borrowed, open, respawns, carried, stopped

entryVars   == <<kind, executable, autoRestart, restartCount, maxRestarts>>
machineVars == <<object, os>>
localVars   == <<pc, svc, target, spawned, todo>>
historyVars == <<respawns, carried, stopped>>
vars == <<entryVars, process, machineVars, localVars, borrowed, open, historyVars>>

Threads == Callers \cup Checkers
Free  == [st |-> "free", by |-> NoObject]
Blank == [pid |-> NoPid, image |-> NoExecutable]

ObjectTable  == [Objects -> [pid : Pids \cup {NoPid},
                             image : Executables \cup {NoExecutable}]]
ProcessTable == [Pids -> [st : {"free", "running", "zombie"},
                          by : Objects \cup {NoObject}]]

Local(s) == kind[s] = "local"

\* The objects some unique_ptr owns: an entry's, or a thread's local one.
Owned == ({process[s] : s \in Services} \cup {spawned[t] : t \in Threads})
            \ {NoObject}

-----------------------------------------------------------------------------
(* ServiceProcess                                                          *)

\* alive(): waitpid(WNOHANG) on the remembered pid, whoever runs under it.
Alive(o) == o # NoObject /\ os[object[o].pid].st = "running"

\* The process table after alive() was asked of every object of O: a child
\* that exited is reaped, the object keeps its pid_.
Reaped(O) == [p \in Pids |->
                IF os[p].st = "zombie" /\ \E o \in O : object[o].pid = p
                THEN Free ELSE os[p]]

\* terminate(): whatever runs under the object's pid is gone and reaped.
Killed(table, objs, o) == IF o = NoObject THEN table
                          ELSE [table EXCEPT ![objs[o].pid] = Free]

\* The object's destructor ran: its pid is forgotten.
Dropped(objs, o) == IF o = NoObject THEN objs ELSE [objs EXCEPT ![o] = Blank]

\* Mutant: the destructor forgets the child instead of terminating it.
DestroyDetached(o) == os' = os /\ object' = Dropped(object, o)

\* The object o, NoObject for a null pointer, is terminated and destroyed.
Destroy(o) == os' = Killed(os, object, o) /\ object' = Dropped(object, o)

\* spawn(): fork, exec and handshake of e as object o, when the process table
\* is table and the objects are objs; the object dead is destroyed afterwards.
Spawn(o, e, table, objs, dead) ==
  /\ o \in Objects \ (Owned \cup borrowed)
  /\ e \in Working
  /\ \E p \in Pids :
       LET forked == [table EXCEPT ![p] = [st |-> "running", by |-> o]]
       IN /\ table[p].st = "free"
          /\ PidReuse \/ \A x \in Objects : objs[x].pid # p
          /\ os' = Killed(forked, objs, dead)
          /\ object' = Dropped([objs EXCEPT ![o] = [pid |-> p, image |-> e]], dead)

\* A running child exits or is killed by somebody else: it stays a zombie
\* until its parent waits for it.
Crash(p) ==
  /\ os[p].st = "running"
  /\ os' = [os EXCEPT ![p] = [st |-> "zombie", by |-> os[p].by]]
  /\ UNCHANGED <<entryVars, process, object, localVars, borrowed, open,
                 historyVars>>

-----------------------------------------------------------------------------
(* Registration and configuration                                          *)

RegisterService(s, e) ==
  /\ open /\ kind[s] = "unregistered"
  /\ kind' = [kind EXCEPT ![s] = "local"]
  /\ executable' = [executable EXCEPT ![s] = e]
  /\ UNCHANGED <<autoRestart, restartCount, maxRestarts, process, machineVars,
                 localVars, borrowed, open, historyVars>>

RegisterRemoteService(s) ==
  /\ open /\ kind[s] = "unregistered"
  /\ kind' = [kind EXCEPT ![s] = "remote"]
  /\ UNCHANGED <<executable, autoRestart, restartCount, maxRestarts, process,
                 machineVars, localVars, borrowed, open, historyVars>>

\* There is no duplicate check here: a second entry under a registered name
\* is appended, and find_service keeps returning the first.
RegisterDiscoverableService(s) ==
  /\ open /\ kind[s] = "unregistered"
  /\ kind' = [kind EXCEPT ![s] = "discoverable"]
  /\ UNCHANGED <<executable, autoRestart, restartCount, maxRestarts, process,
                 machineVars, localVars, borrowed, open, historyVars>>

SetAutoRestart(s, enable) ==
  /\ open /\ Local(s)
  /\ autoRestart' = [autoRestart EXCEPT ![s] = enable]
  /\ UNCHANGED <<kind, executable, restartCount, maxRestarts, process,
                 machineVars, localVars, borrowed, open, historyVars>>

SetMaxRestarts(s, n) ==
  /\ open /\ Local(s)
  /\ maxRestarts' = [maxRestarts EXCEPT ![s] = n]
  /\ UNCHANGED <<kind, executable, autoRestart, restartCount, process,
                 machineVars, localVars, borrowed, open, historyVars>>

\* Checkers that counted a restart of s and have not spawned it yet.
Queued(s) == {t \in Checkers : todo[t][s] # NoExecutable /\
                               ~(svc[t] = s /\ pc[t] \in {"install", "recover"})}

\* Mutant: the counter is reset to one too few.
ResetBelowZero(s) ==
  /\ open /\ kind[s] # "unregistered"
  /\ restartCount' = [restartCount EXCEPT ![s] = -1]
  /\ UNCHANGED <<kind, executable, autoRestart, maxRestarts, process,
                 machineVars, localVars, borrowed, open, historyVars>>

ResetRestartCount(s) ==
  /\ open /\ kind[s] # "unregistered"
  /\ restartCount' = [restartCount EXCEPT ![s] = 0]
  /\ respawns' = [respawns EXCEPT ![s] = 0]
  /\ carried' = [carried EXCEPT ![s] = Cardinality(Queued(s))]
  /\ UNCHANGED <<kind, executable, autoRestart, maxRestarts, process,
                 machineVars, localVars, borrowed, open, stopped>>

-----------------------------------------------------------------------------
(* start(): check under the mutex, spawn without it, install under it      *)

\* A raw pointer is returned to the user, who keeps it or not.
Lend(o) == \/ UNCHANGED borrowed
           \/ /\ Cardinality(borrowed) < MaxBorrowed
              /\ borrowed' = borrowed \cup {o}

\* Some thread is between the critical sections of an operation on s.
InFlight(s) == \/ \E t \in Callers : svc[t] = s
               \/ \E t \in Checkers : todo[t][s] # NoExecutable

StartRunning(t, s) ==
  /\ open /\ pc[t] = "idle" /\ Local(s)
  /\ Alive(process[s])
  /\ Lend(process[s])
  /\ UNCHANGED <<entryVars, process, machineVars, localVars, open, historyVars>>

StartCheck(t, s) ==
  /\ open /\ pc[t] = "idle" /\ Local(s)
  /\ ~Alive(process[s])
  /\ os' = Reaped({process[s]} \ {NoObject})
  /\ pc' = [pc EXCEPT ![t] = "spawn"]
  /\ svc' = [svc EXCEPT ![t] = s]
  /\ target' = [target EXCEPT ![t] = executable[s]]
  /\ stopped' = [stopped EXCEPT ![s] = FALSE]
  /\ UNCHANGED <<entryVars, process, object, spawned, todo, borrowed, open,
                 respawns, carried>>

\* A caller leaves start().
Return(t) == /\ pc' = [pc EXCEPT ![t] = "idle"]
             /\ svc' = [svc EXCEPT ![t] = NoService]
             /\ target' = [target EXCEPT ![t] = NoExecutable]

StartSpawn(t) ==
  /\ t \in Callers /\ pc[t] = "spawn"
  /\ \E o \in Objects : /\ Spawn(o, target[t], os, object, NoObject)
                         /\ spawned' = [spawned EXCEPT ![t] = o]
  /\ pc' = [pc EXCEPT ![t] = "install"]
  /\ UNCHANGED <<entryVars, process, svc, target, todo, borrowed, open, historyVars>>

\* spawn() threw; its local object terminated whatever had been forked.
StartSpawnFails(t) ==
  /\ t \in Callers /\ pc[t] = "spawn" /\ target[t] \in Flaky
  /\ Return(t)
  /\ UNCHANGED <<entryVars, process, machineVars, spawned, todo, borrowed, open,
                 historyVars>>

\* Mutant: the local pointer is copied, not moved, into the entry.
StartInstallCopies(t) ==
  /\ t \in Callers /\ pc[t] = "install"
  /\ Destroy(process[svc[t]])
  /\ process' = [process EXCEPT ![svc[t]] = spawned[t]]
  /\ Return(t)
  /\ UNCHANGED <<entryVars, spawned, todo, borrowed, open, historyVars>>

\* The entry's pointer is overwritten without looking at it again: the object
\* it held is destroyed, its child terminated.
StartInstall(t) ==
  /\ t \in Callers /\ pc[t] = "install"
  /\ Destroy(process[svc[t]])
  /\ process' = [process EXCEPT ![svc[t]] = spawned[t]]
  /\ spawned' = [spawned EXCEPT ![t] = NoObject]
  /\ Lend(spawned[t])
  /\ Return(t)
  /\ UNCHANGED <<entryVars, todo, open, historyVars>>

-----------------------------------------------------------------------------
(* Operations that hold the mutex throughout                               *)

Stop(s) ==
  /\ open /\ Local(s)
  /\ Destroy(process[s])
  /\ process' = [process EXCEPT ![s] = NoObject]
  /\ stopped' = [stopped EXCEPT ![s] = ~InFlight(s)]
  /\ UNCHANGED <<entryVars, localVars, borrowed, open, respawns, carried>>

\* restart() and replace(): the old process is stopped first, so a spawn that
\* throws leaves the entry without one.
Respawn(s, e) ==
  LET old == process[s]
  IN /\ open /\ Local(s)
     /\ \/ \E o \in Objects :
             /\ Spawn(o, e, Killed(os, object, old), Dropped(object, old), NoObject)
             /\ process' = [process EXCEPT ![s] = o]
        \/ /\ e \in Flaky
           /\ Destroy(old)
           /\ process' = [process EXCEPT ![s] = NoObject]
     /\ stopped' = [stopped EXCEPT ![s] = FALSE]
     /\ UNCHANGED <<localVars, borrowed, open, respawns, carried>>

Restart(s) == Respawn(s, executable[s]) /\ UNCHANGED entryVars

Replace(s, e) ==
  /\ Respawn(s, e)
  /\ executable' = [executable EXCEPT ![s] = e]
  /\ UNCHANGED <<kind, autoRestart, restartCount, maxRestarts>>

\* connect() to a local service: a missing or dead process is replaced under
\* the mutex; if its spawn throws, the entry keeps the dead one.
Connect(s) ==
  LET old == process[s]
  IN /\ open /\ Local(s)
     /\ \/ /\ Alive(old)
           /\ Lend(old)
           /\ UNCHANGED <<process, machineVars>>
        \/ /\ ~Alive(old)
           /\ \E o \in Objects :
                /\ Spawn(o, executable[s], Reaped({old} \ {NoObject}), object, old)
                /\ process' = [process EXCEPT ![s] = o]
                /\ Lend(o)
        \/ /\ ~Alive(old) /\ executable[s] \in Flaky
           /\ os' = Reaped({old} \ {NoObject})
           /\ UNCHANGED <<process, object, borrowed>>
     /\ stopped' = [stopped EXCEPT ![s] = FALSE]
     /\ UNCHANGED <<entryVars, localVars, open, respawns, carried>>

\* The user's ServiceConnection, or its copy of the pointer, is gone.
GiveBack(o) ==
  /\ o \in borrowed
  /\ borrowed' = borrowed \ {o}
  /\ UNCHANGED <<entryVars, process, machineVars, localVars, open, historyVars>>

\* is_alive() reaps the child it finds dead.
IsAlive(s) ==
  /\ open /\ Local(s) /\ process[s] # NoObject
  /\ os' = Reaped({process[s]})
  /\ UNCHANGED <<entryVars, process, object, localVars, borrowed, open, historyVars>>

-----------------------------------------------------------------------------
(* check_and_restart(): collect under the mutex, then for each collected   *)
(* service spawn without it and install under it                           *)

Examined == {s \in Services : Local(s) /\ autoRestart[s] /\ process[s] # NoObject}

\* Mutant: an entry without a process counts as crashed.
DueWithoutProcess ==
  {s \in Services : /\ Local(s) /\ autoRestart[s] /\ ~Alive(process[s])
                    /\ maxRestarts[s] = 0 \/ restartCount[s] < maxRestarts[s]}

\* Mutant: the limit is off by one.
DueOneLess == {s \in Examined : /\ ~Alive(process[s])
                                /\ restartCount[s] + 1 < maxRestarts[s]}

Due == {s \in Examined : /\ ~Alive(process[s])
                         /\ maxRestarts[s] = 0 \/ restartCount[s] < maxRestarts[s]}

\* Mutant: a restart is not counted when it is decided.
UncountedRestarts == restartCount

CountedRestarts == [s \in Services |-> IF s \in Due THEN restartCount[s] + 1
                                       ELSE restartCount[s]]

CheckCollect(t) ==
  /\ open /\ pc[t] = "idle"
  /\ \A s \in Due : restartCount[s] < MaxCount
  /\ os' = Reaped({process[s] : s \in Examined})
  /\ restartCount' = CountedRestarts
  /\ todo' = [todo EXCEPT ![t] = [s \in Services |->
                IF s \in Due THEN executable[s] ELSE NoExecutable]]
  /\ pc' = [pc EXCEPT ![t] = IF Due = {} THEN "idle" ELSE "loop"]
  /\ UNCHANGED <<kind, executable, autoRestart, maxRestarts, process, object,
                 svc, target, spawned, borrowed, open, historyVars>>

CheckSpawn(t, s) ==
  /\ pc[t] = "loop" /\ todo[t][s] # NoExecutable
  /\ \/ /\ \E o \in Objects : /\ Spawn(o, todo[t][s], os, object, NoObject)
                               /\ spawned' = [spawned EXCEPT ![t] = o]
        /\ pc' = [pc EXCEPT ![t] = "install"]
     \/ /\ todo[t][s] \in Flaky
        /\ pc' = [pc EXCEPT ![t] = "recover"]
        /\ UNCHANGED <<machineVars, spawned>>
  /\ svc' = [svc EXCEPT ![t] = s]
  /\ respawns' = [respawns EXCEPT ![s] = @ + 1]
  /\ UNCHANGED <<entryVars, process, target, todo, borrowed, open, carried, stopped>>

\* The current element of to_restart is done with.
NextItem(t) ==
  LET left == [todo[t] EXCEPT ![svc[t]] = NoExecutable]
  IN /\ todo' = [todo EXCEPT ![t] = left]
     /\ svc' = [svc EXCEPT ![t] = NoService]
     /\ pc' = [pc EXCEPT ![t] = IF \A s \in Services : left[s] = NoExecutable
                               THEN "idle" ELSE "loop"]

\* The new process is installed and the callback called, still under the
\* mutex; an exception the callback throws ends in the same catch as spawn's.
CheckInstall(t) ==
  /\ t \in Checkers /\ pc[t] = "install"
  /\ Destroy(process[svc[t]])
  /\ process' = [process EXCEPT ![svc[t]] = spawned[t]]
  /\ spawned' = [spawned EXCEPT ![t] = NoObject]
  /\ \/ NextItem(t)
     \/ /\ CallbackThrows
        /\ pc' = [pc EXCEPT ![t] = "recover"]
        /\ UNCHANGED <<svc, todo>>
  /\ UNCHANGED <<entryVars, target, borrowed, open, historyVars>>

\* The catch block takes the mutex again and resets the entry's pointer,
\* whatever it points to by now.
CheckRecover(t) ==
  /\ t \in Checkers /\ pc[t] = "recover"
  /\ Destroy(process[svc[t]])
  /\ process' = [process EXCEPT ![svc[t]] = NoObject]
  /\ NextItem(t)
  /\ UNCHANGED <<entryVars, target, spawned, borrowed, open, historyVars>>

-----------------------------------------------------------------------------
\* Mutant: the destructor skips the processes that already exited.
RemainingAlive == {o \in {process[s] : s \in Services} \ {NoObject} : Alive(o)}

Remaining == {process[s] : s \in Services} \ {NoObject}

\* ~ServiceManager: the monitor thread is joined and no operation runs; every
\* process is terminated, then the entries are destroyed.
Destructor ==
  /\ open /\ \A t \in Threads : pc[t] = "idle"
  /\ open' = FALSE
  /\ os' = [p \in Pids |-> IF \E o \in Remaining : object[o].pid = p
                            THEN Free ELSE os[p]]
  /\ object' = [o \in Objects |-> IF o \in Remaining THEN Blank ELSE object[o]]
  /\ process' = [s \in Services |-> NoObject]
  /\ UNCHANGED <<entryVars, localVars, borrowed, historyVars>>

Init ==
  /\ kind = [s \in Services |-> "unregistered"]
  /\ executable = [s \in Services |-> NoExecutable]
  /\ autoRestart = [s \in Services |-> FALSE]
  /\ restartCount = [s \in Services |-> 0]
  /\ maxRestarts = [s \in Services |-> DefaultLimit]
  /\ process = [s \in Services |-> NoObject]
  /\ object = [o \in Objects |-> Blank]
  /\ os = [p \in Pids |-> Free]
  /\ pc = [t \in Threads |-> "idle"]
  /\ svc = [t \in Threads |-> NoService]
  /\ target = [t \in Threads |-> NoExecutable]
  /\ spawned = [t \in Threads |-> NoObject]
  /\ todo = [t \in Checkers |-> [s \in Services |-> NoExecutable]]
  /\ borrowed = {} /\ open = TRUE
  /\ respawns = [s \in Services |-> 0]
  /\ carried = [s \in Services |-> 0]
  /\ stopped = [s \in Services |-> FALSE]

Configure ==
  \E s \in Services :
    \/ \E e \in Executables : RegisterService(s, e)
    \/ RegisterRemoteService(s)
    \/ RegisterDiscoverableService(s)
    \/ \E enable \in BOOLEAN : SetAutoRestart(s, enable)
    \/ \E n \in Limits : SetMaxRestarts(s, n)
    \/ ResetRestartCount(s)

Starting(t) ==
  \/ \E s \in Services : StartRunning(t, s) \/ StartCheck(t, s)
  \/ StartSpawn(t) \/ StartSpawnFails(t) \/ StartInstall(t)

Locked(s) == \/ Stop(s) \/ Restart(s) \/ Connect(s) \/ IsAlive(s)
             \/ \E e \in Executables : Replace(s, e)

Checking(t) ==
  \/ CheckCollect(t)
  \/ \E s \in Services : CheckSpawn(t, s)
  \/ CheckInstall(t) \/ CheckRecover(t)

Next ==
  \/ Configure
  \/ \E t \in Callers : Starting(t)
  \/ \E s \in Services : Locked(s)
  \/ \E t \in Checkers : Checking(t)
  \/ \E o \in Objects : GiveBack(o)
  \/ \E p \in Pids : Crash(p)
  \/ Destructor

Spec == Init /\ [][Next]_vars

\* The monitor thread calls check_and_restart forever; a spawn, the lock it
\* waits for and the callback all return.
CheckerStep(t) == CheckCollect(t) \/ (\E s \in Services : CheckSpawn(t, s))
                    \/ CheckInstall(t) \/ CheckRecover(t)
FairSpec == Spec /\ \A t \in Checkers : WF_vars(CheckerStep(t))

-----------------------------------------------------------------------------
(* Properties                                                              *)

\* Types of the entries, of the objects, of the process table and of the
\* threads inside start() and check_and_restart().
TypeOK ==
  /\ kind \in [Services -> {"unregistered", "local", "remote", "discoverable"}]
  /\ executable \in [Services -> Executables \cup {NoExecutable}]
  /\ autoRestart \in [Services -> BOOLEAN]
  /\ restartCount \in [Services -> Nat]
  /\ maxRestarts \in [Services -> Nat]
  /\ process \in [Services -> Objects \cup {NoObject}]
  /\ object \in ObjectTable
  /\ os \in ProcessTable
  /\ pc \in [Threads -> {"idle", "spawn", "install", "loop", "recover"}]
  /\ svc \in [Threads -> Services \cup {NoService}]
  /\ target \in [Threads -> Executables \cup {NoExecutable}]
  /\ spawned \in [Threads -> Objects \cup {NoObject}]
  /\ todo \in [Checkers -> [Services -> Executables \cup {NoExecutable}]]
  /\ borrowed \subseteq Objects
  /\ open \in BOOLEAN
  /\ respawns \in [Services -> Nat]
  /\ carried \in [Services -> Nat]
  /\ stopped \in [Services -> BOOLEAN]

\* The locals of a thread fit the point it is at: it owns an object of its own
\* exactly between spawn() and the install, and the name it is working on is
\* set wherever it is used.
Phases ==
  /\ \A t \in Threads : pc[t] = "install" <=> spawned[t] # NoObject
  /\ \A t \in Callers : /\ pc[t] \in {"idle", "spawn", "install"}
                        /\ pc[t] # "idle" => svc[t] \in Services
  /\ \A t \in Checkers : /\ pc[t] \in {"idle", "loop", "install", "recover"}
                         /\ pc[t] \in {"install", "recover"} => svc[t] \in Services

\* A ServiceProcess is owned once: the install steps of start() and
\* check_and_restart() move the object, so no two entries, no two threads and
\* no entry and a thread hold the same one, and an object that nobody owns has
\* been destroyed.
OneOwner ==
  /\ \A s1, s2 \in Services :
       s1 # s2 /\ process[s1] # NoObject => process[s1] # process[s2]
  /\ \A t1, t2 \in Threads :
       t1 # t2 /\ spawned[t1] # NoObject => spawned[t1] # spawned[t2]
  /\ \A s \in Services, t \in Threads :
       process[s] # NoObject => process[s] # spawned[t]
  /\ \A o \in Objects : object[o].pid # NoPid <=> o \in Owned

\* No child process is leaked: whatever was forked and not yet reaped belongs
\* to the object that forked it, and that object is still owned, so some later
\* stop, overwrite or destructor will terminate it.  Overwriting the entry in
\* two racing start() calls, or in start() racing the monitor, is where a
\* process could be left behind.
NoOrphan ==
  \A p \in Pids : os[p].st # "free" =>
    os[p].by \in Owned /\ object[os[p].by].pid = p

\* Once the manager is destroyed no child of it is left, running or zombie.
NothingOutlives == ~open => \A p \in Pids : os[p].st = "free"

\* Between two resets, check_and_restart spawns a service at most
\* restart_count times, plus the attempts that were already counted when the
\* counter was reset: the counter is raised in the critical section that
\* decides, so two checkers never spawn on one count.
RespawnBudget ==
  \A s \in Services :
    respawns[s] + Cardinality(Queued(s)) <= restartCount[s] + carried[s]

\* A service that was stopped while no start() or check_and_restart() had it
\* in flight stays down until somebody starts it: the monitor takes a stopped
\* service for stopped, not for crashed.
StopHolds == \A s \in Services : stopped[s] => process[s] = NoObject

\* Crash recovery: the dead process of an auto-restart service is eventually
\* replaced by another object (or stopped), unless its auto-restart is switched
\* off or its restarts run out.  It says nothing of a service whose entry lost
\* its process: see GivesUpOnlyAtLimit.
CrashRecovered ==
  \A s \in Services, o \in Objects :
    (process[s] = o /\ ~Alive(o) /\ autoRestart[s])
      ~> (\/ process[s] # o \/ ~autoRestart[s]
          \/ (maxRestarts[s] > 0 /\ restartCount[s] >= maxRestarts[s]))

\* "Max restarts before giving up" (manager.hpp): a checker leaves an entry
\* without a process only once its restarts are used up.
GivesUpOnlyAtLimit ==
  [][\A s \in Services, t \in Checkers :
       svc[t] = s /\ pc[t] = "recover" /\ svc'[t] # s =>
         maxRestarts[s] > 0 /\ restartCount[s] >= maxRestarts[s]]_vars
=============================================================================
