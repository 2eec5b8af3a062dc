------------------------------ MODULE MCIngest ------------------------------
(***************************************************************************)
(* A small instance of Ingest.  Events a1 and a2 are two contents of the   *)
(* same identity; a1, a2 and c write the same inventory row.  The batches  *)
(* share b, contradict each other in a1 and a2, and take the lock of that  *)
(* identity and the lock of the row in opposite orders, so that they can   *)
(* deadlock.  The first one holds an event twice.                          *)
(***************************************************************************)
EXTENDS Ingest

CONSTANTS a1, a2, b, c

MCEvents == {a1, a2, b, c}
MCKeys == {1, 2, 3}
MCKey == [e \in MCEvents |-> CASE e \in {a1, a2} -> 1 [] e = b -> 2 [] e = c -> 3]
MCResource == [e \in MCEvents |-> IF e = b THEN None ELSE "vm1"]
MCTime == [e \in MCEvents |-> 0]
MCBatch == [s \in Clients |-> IF s = 1 THEN <<a1, b, a1>> ELSE <<c, a2, b>>]

AllGood == [e \in MCEvents |-> "good"]
MCQualities == {AllGood, [AllGood EXCEPT ![c] = "poison"], [AllGood EXCEPT ![b] = "malformed"]}
=============================================================================
