---------------------------- MODULE MCObjectServer ----------------------------
(* Instances of ObjectServer for TLC.                                         *)
EXTENDS ObjectServer
===============================================================================
