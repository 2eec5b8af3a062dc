------------------------------- MODULE Splunk -------------------------------
(***************************************************************************)
(* The forwarder of the raw_events log to Splunk: rows beyond a cursor are *)
(* posted in batches, and the cursor, a row of the database, follows after *)
(* each batch that Splunk acknowledged.                                    *)
(*                                                                         *)
(* As in Rating, ids are drawn before the transactions of different        *)
(* writers commit.                                                         *)
(***************************************************************************)
EXTENDS Integers, FiniteSetsExt

CONSTANTS
  Ids,        \* ids of raw_events
  Writer,     \* who writes each of them
  Forwarders, \* instances of the service
  BatchSize,
  SplunkFaults, MaxSplunkFaults

\* "cursor": the cursor cannot be read; "post": Splunk refuses the batch; "ack":
\* it takes the batch but the answer is lost.
SplunkFaultKinds == {"cursor", "query", "post", "ack", "advance", "crash"}

ASSUME SplunkAssumption ==
  /\ Ids \subseteq Nat \ {0} /\ \E n \in Ids \cup {0} : Ids \subseteq 1..n
  /\ IsFiniteSet(Forwarders) /\ BatchSize \in Nat \ {0}
  /\ SplunkFaults \subseteq SplunkFaultKinds /\ MaxSplunkFaults \in Nat

VARIABLES
  table,   \* rows of raw_events that are visible
  last,    \* splunk_cursor.last_sent_id
  sent,    \* how often Splunk received each row
  fwd,     \* the forwarder of each instance
  splunkFaults

splunkVars == <<table, last, sent, fwd, splunkFaults>>

Forwarder(pc, cursor, batch, errors) ==
  [pc |-> pc, cursor |-> cursor, batch |-> batch, errors |-> errors]

Idle == Forwarder("idle", 0, {}, 0)

SplunkInit ==
  /\ table = {} /\ last = 0
  /\ sent = [e \in Ids |-> 0]
  /\ fwd = [i \in Forwarders |-> Idle]
  /\ splunkFaults = 0

SplunkFault(kind) ==
  kind \in SplunkFaults /\ splunkFaults < MaxSplunkFaults /\ splunkFaults' = splunkFaults + 1

Become(i, g) == fwd' = [fwd EXCEPT ![i] = g]

\* An insert into raw_events commits.
Commit(e) ==
  /\ e \notin table
  /\ \A f \in Ids : f < e /\ Writer[f] = Writer[e] => f \in table
  /\ table' = table \cup {e}
  /\ UNCHANGED <<last, sent, fwd, splunkFaults>>

-----------------------------------------------------------------------------
(***************************************************************************)
(* Forwarder.sweep.                                                        *)
(***************************************************************************)
\* SplunkCursor turns an error into position 0.
ReadCursor(i) ==
  /\ fwd[i].pc = "idle"
  /\ \/ Become(i, Forwarder("query", last, {}, 0)) /\ UNCHANGED splunkFaults
     \/ SplunkFault("cursor") /\ Become(i, Forwarder("query", 0, {}, 0))
  /\ UNCHANGED <<table, last, sent>>

\* Bug: the row at the cursor is read once more.
RawEventsFrom(cursor) ==
  LET rows == {e \in table : e >= cursor}
  IN {e \in rows : Cardinality({f \in rows : f < e}) < BatchSize}

\* Bug: rows are only read in full batches.
RawEventsFull(cursor) ==
  LET rows == {e \in table : e > cursor}
  IN {e \in rows : /\ Cardinality({f \in rows : f < e}) < BatchSize
                   /\ Cardinality(rows) >= BatchSize}

RawEventsSince(cursor) ==
  LET rows == {e \in table : e > cursor}
  IN {e \in rows : Cardinality({f \in rows : f < e}) < BatchSize}

Query(i) ==
  /\ fwd[i].pc = "query"
  /\ LET g == fwd[i]
         rows == RawEventsSince(g.cursor)
     IN \/ /\ rows # {} /\ Become(i, Forwarder("post", g.cursor, rows, g.errors))
           /\ UNCHANGED splunkFaults
        \/ rows = {} /\ Become(i, Idle) /\ UNCHANGED splunkFaults
        \/ SplunkFault("query") /\ Become(i, Idle)
  /\ UNCHANGED <<table, last, sent>>

Received(batch) == [e \in Ids |-> IF e \in batch THEN sent[e] + 1 ELSE sent[e]]

\* The batch is read again after an error; the third in a row ends the sweep.
Failed(g) ==
  IF g.errors >= 2 THEN Idle ELSE Forwarder("query", g.cursor, {}, g.errors + 1)

Accepted(g) == Forwarder("advance", g.cursor, g.batch, 0)

\* Bug: a batch that Splunk refused counts as sent.
PostUnchecked(i) ==
  /\ fwd[i].pc = "post"
  /\ Become(i, Accepted(fwd[i]))
  /\ \/ sent' = Received(fwd[i].batch) /\ UNCHANGED splunkFaults
     \/ SplunkFault("post") /\ UNCHANGED sent
  /\ UNCHANGED <<table, last>>

Post(i) ==
  /\ fwd[i].pc = "post"
  /\ LET g == fwd[i]
     IN \/ sent' = Received(g.batch) /\ Become(i, Accepted(g)) /\ UNCHANGED splunkFaults
        \/ SplunkFault("post") /\ Become(i, Failed(g)) /\ UNCHANGED sent
        \/ SplunkFault("ack") /\ Become(i, Failed(g)) /\ sent' = Received(g.batch)
  /\ UNCHANGED <<table, last>>

Advance(i) ==
  /\ fwd[i].pc = "advance"
  /\ LET g == fwd[i]
         maxID == Max(g.batch)
     IN \/ /\ last' = maxID /\ UNCHANGED splunkFaults
           /\ Become(i, IF Cardinality(g.batch) < BatchSize THEN Idle
                        ELSE Forwarder("query", maxID, {}, 0))
        \/ SplunkFault("advance") /\ Become(i, Idle) /\ UNCHANGED last
  /\ UNCHANGED <<table, sent>>

CrashForwarder(i) ==
  /\ fwd[i].pc # "idle" /\ SplunkFault("crash") /\ Become(i, Idle)
  /\ UNCHANGED <<table, last, sent>>

Sweep(i) == ReadCursor(i) \/ Query(i) \/ Post(i) \/ Advance(i)

SplunkNext ==
  \/ \E e \in Ids : Commit(e)
  \/ \E i \in Forwarders : ReadCursor(i)
  \/ \E i \in Forwarders : Query(i)
  \/ \E i \in Forwarders : Post(i)
  \/ \E i \in Forwarders : Advance(i)
  \/ \E i \in Forwarders : CrashForwarder(i)

SplunkSpec == SplunkInit /\ [][SplunkNext]_splunkVars

\* The ticker of Forwarder.Run fires again and again, and a sweep goes on.
SplunkFairSpec == SplunkSpec /\ \A i \in Forwarders : WF_splunkVars(Sweep(i))

-----------------------------------------------------------------------------
SplunkTypeOK ==
  /\ table \subseteq Ids /\ last \in table \cup {0}
  /\ sent \in [Ids -> Nat]
  /\ \A i \in Forwarders :
       /\ fwd[i].pc \in {"idle", "query", "post", "advance"}
       /\ fwd[i].cursor \in table \cup {0} /\ fwd[i].batch \subseteq table
       /\ fwd[i].errors \in 0..2
       /\ fwd[i].pc \in {"post", "advance"} => fwd[i].batch # {}
  /\ splunkFaults \in Nat

\* The rows become visible in the order of their ids.
InOrder == \A e, f \in Ids : Writer[e] = Writer[f]

\* Whatever fails, and with several forwarders at work, the cursor never passes
\* a row that Splunk has not received, if rows become visible in order.
CursorBehindSent == InOrder => \A e \in table : e <= last => sent[e] > 0

\* One forwarder sends a row again only after a failure.
SentPerFault ==
  /\ SplunkTypeOK
  /\ Cardinality(Forwarders) = 1 => \A e \in Ids : sent[e] <= 1 + splunkFaults

\* Every row reaches Splunk in the end, if rows become visible in order.
EventuallySent == InOrder => \A e \in Ids : e \in table ~> sent[e] > 0
=============================================================================
