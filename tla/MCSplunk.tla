------------------------------ MODULE MCSplunk ------------------------------
(***************************************************************************)
(* A small instance of Splunk, with one writer of raw_events.              *)
(***************************************************************************)
EXTENDS Splunk

MCOneWriter == [e \in Ids |-> "watcher"]
=============================================================================
