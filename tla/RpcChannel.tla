----------------------------- MODULE RpcChannel -----------------------------
(***************************************************************************)
(* What a connection promises of the requests sent over it, whatever their *)
(* kind: the service runs a request at most once and in the order they     *)
(* were issued, and a request that ends with "ok" or "error" ends with     *)
(* what the service made of that very request.  Connection implements it.  *)
(***************************************************************************)
EXTENDS Integers

CONSTANT MaxRequests

VARIABLES executed, outcome

Requests == 1..MaxRequests
vars == <<executed, outcome>>

Init == /\ executed = [n \in Requests |-> "no"]
        /\ outcome = [n \in Requests |-> "new"]

\* A request nobody waits for is given up as it is issued.
Issue(n) ==
  /\ outcome[n] = "new"
  /\ \A k \in 1..n-1 : outcome[k] # "new"
  /\ \E o \in {"pending", "failed"} : outcome' = [outcome EXCEPT ![n] = o]
  /\ UNCHANGED executed

Execute(n) ==
  /\ outcome[n] # "new"
  /\ \A k \in n..MaxRequests : executed[k] = "no"
  /\ \E r \in {"ok", "error"} : executed' = [executed EXCEPT ![n] = r]
  /\ UNCHANGED outcome

Answer(n) ==
  /\ outcome[n] = "pending" /\ executed[n] # "no"
  /\ outcome' = [outcome EXCEPT ![n] = executed[n]]
  /\ UNCHANGED executed

GiveUp(n) ==
  /\ outcome[n] = "pending"
  /\ outcome' = [outcome EXCEPT ![n] = "failed"]
  /\ UNCHANGED executed

Next == \E n \in Requests : Issue(n) \/ Execute(n) \/ Answer(n) \/ GiveUp(n)

Spec == Init /\ [][Next]_vars
=============================================================================
