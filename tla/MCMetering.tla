----------------------------- MODULE MCMetering -----------------------------
(***************************************************************************)
(* Small instances of Metering: one resource, of every kind in turn.       *)
(***************************************************************************)
EXTENDS Metering

MCKinds == <<"vm", "cluster", "bm">>
=============================================================================
