-------------------------- MODULE MCServiceManager --------------------------
(* Instances of ServiceManager for TLC: objects and pids are numbers.       *)
EXTENDS ServiceManager, TLC

Symmetry == Permutations(Callers) \cup Permutations(Checkers)

\* Addresses are only ever compared for equality, so it is enough to let an
\* allocation take the least free one.  A pid that no object remembers is as
\* good as any other such pid; one that is still remembered is kept apart.
LeastFree ==
  /\ \A o \in Objects : object[o] = Blank /\ object'[o] # Blank =>
       \A x \in Objects : x < o => x \in Owned \cup borrowed
  /\ \A p \in Pids : os[p] = Free /\ os'[p] # Free =>
       \/ \E x \in Owned : object[x].pid = p
       \/ \A q \in Pids : q < p => os[q] # Free \/ \E x \in Owned : object[x].pid = q

=============================================================================
