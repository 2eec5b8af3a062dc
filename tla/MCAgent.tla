------------------------------- MODULE MCAgent -------------------------------
(***************************************************************************)
(* Instances of Agent: the configurations give every constant its value.   *)
(***************************************************************************)
EXTENDS Agent
==============================================================================
