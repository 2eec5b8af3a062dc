-------------------------------- MODULE Kafka --------------------------------
(***************************************************************************)
(* The Kafka path: the watcher hands events to the producer instead of     *)
(* processing them, other services publish CloudEvents, and a consumer of  *)
(* each running instance polls a partition, processes the records one by   *)
(* one and commits the offsets. Brokers and the client library are         *)
(* external: at most one member of the group owns the partition, and only  *)
(* its commits are accepted.                                               *)
(***************************************************************************)
EXTENDS Integers, Sequences, FiniteSets

CONSTANTS
  Events,
  FromWatcher,   \* the events that the watcher hands over
  Consumers,     \* instances of the service, more than one during a rollout
  MaxLog,        \* bound on the records
  Faults, MaxFaults,
  None

\* "publish": a record is not written, or written twice; "process": the database fails;
\* "commit": a commit fails; "crash"; "stop": the context of an instance is cancelled.
\* "rebalance": the partition is taken from its owner.
FaultKinds == {"publish", "process", "commit", "crash", "stop", "rebalance"}

ASSUME KafkaAssumption ==
  /\ FromWatcher \subseteq Events /\ IsFiniteSet(Events) /\ IsFiniteSet(Consumers)
  /\ Consumers # {} /\ None \notin Consumers /\ MaxLog \in Nat
  /\ Faults \subseteq FaultKinds /\ MaxFaults \in Nat

VARIABLES
  pending,    \* events not yet handed over
  log,        \* the records of the partition
  committed,  \* the offset committed for the group
  owner,      \* the member that the partition is assigned to
  consumer,   \* pc, position after the last poll, next record to process, cancelled context
  done,       \* the events whose receipt and effects are in the database
  handed,     \* history: the offsets given to ProcessKafkaEvent
  refused,    \* history: the CloudEvents that processEvents refused
  failed,     \* history: how often a hand-over failed for no fault of the record
  abandoned,  \* history: the offsets a shutdown committed without handing them over
  faults

vars ==
  <<pending, log, committed, owner, consumer, done, handed, refused, failed, abandoned, faults>>

Fresh == [pc |-> "poll", position |-> 0, next |-> 1, stopping |-> FALSE]

Init ==
  /\ pending = Events /\ log = <<>> /\ committed = 0 /\ owner = None
  /\ consumer = [c \in Consumers |-> Fresh]
  /\ done = {} /\ handed = {} /\ refused = {} /\ failed = 0 /\ abandoned = {} /\ faults = 0

Fault(kind) == kind \in Faults /\ faults < MaxFaults /\ faults' = faults + 1

\* Producer.PublishEvent: asynchronous, errors are only logged.
PublishEvent(e) ==
  /\ pending' = pending \ {e}
  /\ \/ log' = Append(log, e) /\ UNCHANGED faults
     \/ Fault("publish") /\ log' \in {log, log \o <<e, e>>}
  /\ Len(log') <= MaxLog
  /\ UNCHANGED <<committed, owner, consumer, done, handed, refused, failed, abandoned>>

\* With a publisher the watcher hands the event over and does nothing else.
HandleEvent(e) == e \in pending \cap FromWatcher /\ PublishEvent(e)

\* Another service publishes a CloudEvent.
PublishCloudEvent(e) == e \in pending \ FromWatcher /\ PublishEvent(e)

\* A member joins or leaves the group; the new owner starts at the committed offset.
Assign(c) ==
  /\ owner # c /\ consumer[c].pc = "poll" /\ ~consumer[c].stopping
  /\ \/ owner = None /\ UNCHANGED faults
     \/ owner # None /\ Fault("rebalance")
  /\ owner' = c /\ consumer' = [consumer EXCEPT ![c].position = committed]
  /\ UNCHANGED <<pending, log, committed, done, handed, refused, failed, abandoned>>

-----------------------------------------------------------------------------
(***************************************************************************)
(* Consumer.Run.                                                           *)
(***************************************************************************)
PollFetches(c) ==
  /\ consumer[c].pc = "poll" /\ owner = c /\ consumer[c].position < Len(log)
  /\ \E p \in (consumer[c].position + 1)..Len(log) :
       consumer' = [consumer EXCEPT ![c].pc = "check", ![c].position = p,
                                    ![c].next = consumer[c].position + 1]
  /\ UNCHANGED <<pending, log, committed, owner, done, handed, refused, failed, abandoned, faults>>

\* The poll of a cancelled context returns without records (or with: PollFetches).
PollCancelled(c) ==
  /\ consumer[c].pc = "poll" /\ consumer[c].stopping
  /\ consumer' = [consumer EXCEPT ![c].pc = "check", ![c].next = consumer[c].position + 1]
  /\ UNCHANGED <<pending, log, committed, owner, done, handed, refused, failed, abandoned, faults>>

\* CommitUncommittedOffsets: all that was polled; only the owner's commit is accepted.
CommitOffsets(c) == committed' = IF owner = c THEN consumer[c].position ELSE committed

\* The final commit passes what the poll returned and nobody processed.
FinalCommit(c) ==
  /\ CommitOffsets(c)
  /\ abandoned' = abandoned \cup
       IF owner = c THEN consumer[c].next..consumer[c].position ELSE {}

\* Run returns on a cancelled context, after a final commit.
CheckContext(c) ==
  /\ consumer[c].pc = "check"
  /\ \/ /\ ~consumer[c].stopping /\ consumer' = [consumer EXCEPT ![c].pc = "process"]
        /\ UNCHANGED <<committed, owner, abandoned, faults>>
     \/ /\ consumer[c].stopping /\ consumer' = [consumer EXCEPT ![c] = Fresh]
        /\ owner' = IF owner = c THEN None ELSE owner
        /\ \/ FinalCommit(c) /\ UNCHANGED faults
           \/ Fault("commit") /\ UNCHANGED <<committed, abandoned>>
  /\ UNCHANGED <<pending, log, done, handed, refused, failed>>

\* Bug: the check of the envelope is inverted.
ProcessKafkaEventInverted(e) ==
  \/ e \in FromWatcher /\ done' = done \cup {e} /\ UNCHANGED <<refused, failed, faults>>
  \/ e \notin FromWatcher /\ UNCHANGED <<done, refused, failed, faults>>

\* ProcessKafkaEvent. What the watcher published is no CloudEvent. A CloudEvent is refused
\* when it is older than maxEventAge by now, when its receipt belongs to another payload or
\* when its handler returns an error: the transaction leaves nothing.
ProcessKafkaEvent(e) ==
  \/ e \notin FromWatcher /\ done' = done \cup {e} /\ UNCHANGED <<refused, failed, faults>>
  \/ e \in FromWatcher /\ UNCHANGED <<done, refused, failed, faults>>
  \/ e \notin FromWatcher /\ refused' = refused \cup {e} /\ UNCHANGED <<done, failed, faults>>
  \/ /\ e \notin FromWatcher /\ Fault("process") /\ failed' = failed + 1
     /\ UNCHANGED <<done, refused>>

\* Bug: a record that is rejected is tried again before the next one.
ProcessRecordAgain(c) ==
  /\ consumer[c].pc = "process" /\ consumer[c].next <= consumer[c].position
  /\ handed' = handed \cup {consumer[c].next}
  /\ ProcessKafkaEvent(log[consumer[c].next])
  /\ consumer' = IF log[consumer[c].next] \in done' THEN [consumer EXCEPT ![c].next = @ + 1]
                 ELSE consumer
  /\ UNCHANGED <<pending, log, committed, owner, abandoned>>

\* A cancelled context fails the transaction of every record that is left.
ProcessRecord(c) ==
  /\ consumer[c].pc = "process" /\ consumer[c].next <= consumer[c].position
  /\ consumer' = [consumer EXCEPT ![c].next = @ + 1]
  /\ handed' = handed \cup {consumer[c].next}
  /\ \/ /\ consumer[c].stopping /\ UNCHANGED <<done, refused, faults>>
        /\ failed' = failed + IF log[consumer[c].next] \in FromWatcher THEN 0 ELSE 1
     \/ ~consumer[c].stopping /\ ProcessKafkaEvent(log[consumer[c].next])
  /\ UNCHANGED <<pending, log, committed, owner, abandoned>>

\* Bug: the offsets are committed before the records are processed.
CommitBatchEarly(c) ==
  /\ consumer[c].pc = "process" /\ consumer' = [consumer EXCEPT ![c].pc = "poll"]
  /\ CommitOffsets(c)
  /\ UNCHANGED <<pending, log, owner, done, handed, refused, failed, abandoned, faults>>

CommitBatch(c) ==
  /\ consumer[c].pc = "process" /\ consumer[c].next > consumer[c].position
  /\ consumer' = [consumer EXCEPT ![c].pc = "poll"]
  /\ \/ ~consumer[c].stopping /\ CommitOffsets(c) /\ UNCHANGED faults
     \/ consumer[c].stopping /\ UNCHANGED <<committed, faults>>
     \/ Fault("commit") /\ UNCHANGED committed
  /\ UNCHANGED <<pending, log, owner, done, handed, refused, failed, abandoned>>

Run(c) ==
  PollFetches(c) \/ PollCancelled(c) \/ CheckContext(c) \/ ProcessRecord(c) \/ CommitBatch(c)

Stop(c) ==
  /\ ~consumer[c].stopping /\ Fault("stop")
  /\ consumer' = [consumer EXCEPT ![c].stopping = TRUE]
  /\ UNCHANGED <<pending, log, committed, owner, done, handed, refused, failed, abandoned>>

\* The process ends and is started again.
Crash(c) ==
  /\ Fault("crash") /\ consumer' = [consumer EXCEPT ![c] = Fresh]
  /\ owner' = IF owner = c THEN None ELSE owner
  /\ UNCHANGED <<pending, log, committed, done, handed, refused, failed, abandoned>>

-----------------------------------------------------------------------------
Next ==
  \/ \E e \in Events : HandleEvent(e) \/ PublishCloudEvent(e)
  \/ \E c \in Consumers : Assign(c) \/ Run(c) \/ Stop(c) \/ Crash(c)

Spec == Init /\ [][Next]_vars

\* Consumers run, and the group coordinator assigns a partition without owner.
FairSpec ==
  /\ Spec /\ \A c \in Consumers : WF_vars(Run(c))
  /\ WF_vars(owner = None /\ \E c \in Consumers : Assign(c))

-----------------------------------------------------------------------------
TypeOK ==
  /\ pending \subseteq Events /\ log \in Seq(Events) /\ committed \in 0..Len(log)
  /\ owner \in Consumers \cup {None} /\ done \subseteq Events \ pending
  /\ consumer \in [Consumers -> [pc: {"poll", "check", "process"}, position: 0..Len(log),
                                 next: 1..(Len(log) + 1), stopping: BOOLEAN]]
  /\ handed \subseteq 1..Len(log) /\ abandoned \subseteq 1..Len(log) /\ refused \subseteq Events
  /\ failed \in Nat /\ faults \in 0..MaxFaults

(***************************************************************************)
(* consumer.go: offsets are committed after the entire batch is processed. *)
(* Every record up to the committed offset was given to ProcessKafkaEvent, *)
(* whichever members polled it, whatever crashed and whoever the partition *)
(* was assigned to in between, unless a shutdown between a poll and the    *)
(* check of the context committed it.                                      *)
(***************************************************************************)
CommittedWasHanded == 1..committed \subseteq handed \cup abandoned

\* CloudEvents that are behind the committed offset without effects.
Lost == {e \in Events \ FromWatcher : e \notin done /\ \E i \in 1..committed : log[i] = e}

(***************************************************************************)
(* An event that reached the log and that processEvents did not refuse     *)
(* (too old by the time it is consumed, a receipt of another payload, an   *)
(* error of its handler) is lost only to a failure of the database or to a *)
(* shutdown in the middle of a batch, one for each: crashes, failed        *)
(* commits, reassignments and duplicates lose none.                        *)
(***************************************************************************)
LostPerFailure == TypeOK /\ Cardinality(Lost \ refused) <= failed + Cardinality(abandoned)

(***************************************************************************)
(* consumer.go: the consumer does not get stuck on a poison pill. In the   *)
(* end every record was given to ProcessKafkaEvent or abandoned by a       *)
(* shutdown, also when commits fail and members come and go.               *)
(***************************************************************************)
NeverStuck == <>[](1..Len(log) \subseteq handed \cup abandoned)
==============================================================================
