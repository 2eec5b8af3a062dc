-------------------------------- MODULE Sums --------------------------------
(***************************************************************************)
(* The SUM of a column over some rows, as the store's queries take it.     *)
(***************************************************************************)
EXTENDS Integers, FiniteSetsExt

Total(f, S) == MapThenSumSet(LAMBDA x : f[x], S)
=============================================================================
