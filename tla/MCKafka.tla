------------------------------- MODULE MCKafka -------------------------------
(***************************************************************************)
(* Instances of Kafka: the configurations give every constant its value.   *)
(***************************************************************************)
EXTENDS Kafka
==============================================================================
