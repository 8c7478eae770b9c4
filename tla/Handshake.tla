----------------------------- MODULE Handshake -----------------------------
(***************************************************************************)
(* The versions of the protocol a service and its clients settle on: the   *)
(* init message offers a range, the C++ clients speak 1.0 and 1.1, the     *)
(* Python client 1.0 (src/src/process.cpp, init_handshake of               *)
(* ServiceProcess and of ServiceConnection; connection.py).                *)
(***************************************************************************)
EXTENDS Integers

VARIABLE offer   \* the first and the current version of the service, as init states them

FirstVersion   == 256  \* 1.0
CurrentVersion == 257  \* 1.1
Refused == 0           \* the handshake fails

\* Mutant: the two rules compare the same ends of the ranges.
NegotiateCurrent(first, current) ==
  IF current < FirstVersion \/ current > CurrentVersion THEN Refused
  ELSE IF current < CurrentVersion THEN current ELSE CurrentVersion

\* init_handshake of ServiceProcess and of ServiceConnection.
Negotiate(first, current) ==
  IF current < FirstVersion \/ first > CurrentVersion THEN Refused
  ELSE IF current < CurrentVersion THEN current ELSE CurrentVersion

\* The C++ client answers init only when both ends speak 1.1.
SendsAck(first, current) == Negotiate(first, current) >= 257

\* Python's client speaks 1.0 only.
PythonNegotiate(first, current) ==
  IF 256 < first \/ 256 > current THEN Refused ELSE 256

-----------------------------------------------------------------------------
(* Properties                                                              *)

\* The versions of a client that the service offers, and the highest of them.
Common(mine) == {v \in mine : offer[1] <= v /\ v <= offer[2]}
Best(mine) ==
  IF Common(mine) = {} THEN Refused
  ELSE CHOOSE v \in Common(mine) : \A w \in Common(mine) : w <= v

\* Whatever versions a service offers, each client that goes on speaks a version
\* in the ranges of both, the highest there is, and refuses only when there is
\* none; init_ack goes only to a service that knows it.
HandshakeAgrees ==
  /\ Negotiate(offer[1], offer[2]) = Best(FirstVersion..CurrentVersion)
  /\ PythonNegotiate(offer[1], offer[2]) = Best({FirstVersion})
  /\ SendsAck(offer[1], offer[2]) => offer[2] >= CurrentVersion
=============================================================================
