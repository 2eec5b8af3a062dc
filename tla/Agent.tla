-------------------------------- MODULE Agent --------------------------------
(***************************************************************************)
(* kube-cost-agent: the controller turns informer notifications and the    *)
(* pods of its cache into events, the emitter queues them in a bounded     *)
(* channel, collects batches and posts them to the consumer.               *)
(*                                                                         *)
(* Of an event the model keeps the pod and the seconds it reports; an      *)
(* event that reports none is any other lifecycle event or node heartbeat. *)
(* Retries carry the same event id, so the consumer counts an event once.  *)
(***************************************************************************)
EXTENDS Integers, Sequences, SequencesExt

CONSTANTS
  Pods,       \* namespace/name of pods
  BatchSize,  \* the channel holds twice as many
  MaxClock,   \* bound on the clock
  MaxLives,   \* bound on the pods that have one name, one after the other
  MaxOther,   \* bound on the events about nodes, volumes and services
  Faults, MaxFaults,
  None

\* "post": the consumer is not reached or answers with an error; "ack": it took
\* the event but the answer is lost; "stop": a rollout ends the agent; "crash".
FaultKinds == {"post", "ack", "stop", "crash"}

ASSUME AgentAssumption ==
  /\ BatchSize \in Nat \ {0} /\ MaxClock \in Nat /\ MaxLives \in Nat /\ MaxOther \in Nat
  /\ Faults \subseteq FaultKinds /\ MaxFaults \in Nat
  /\ None \notin Int /\ None \notin Pods

Cap == 2 * BatchSize
maxAttempts == 3

VARIABLES
  clock,
  start,         \* start time of each pod, or None
  lives, lived,  \* history: number of pods of a name, seconds that the past ones ran
  notes,         \* informer notifications about pods not yet handled
  other,         \* how many other events there were
  lastHeartbeat, \* Controller.lastHeartbeat
  beat,          \* the heartbeat loop
  eventCh, batch, \* the events of the emitter
  emitter,       \* pc, cancelled context, attempts to post the first event of the batch,
                 \* and whether the consumer took it
  credit,        \* seconds of each name the consumer received
  forfeit,       \* history: seconds dropped from a full channel or after maxAttempts
  restarts, faults

cluster == <<clock, start, lives, lived>>
controller == <<notes, other, lastHeartbeat, beat>>
vars == <<cluster, controller, eventCh, batch, emitter, credit, forfeit, restarts, faults>>

Resting == [pc |-> "idle", now |-> 0, todo |-> {}, key |-> None]
Collecting == [pc |-> "collect", stopping |-> FALSE, attempts |-> 0, taken |-> FALSE]

Init ==
  /\ clock = 0 /\ start = [k \in Pods |-> None]
  /\ lives = [k \in Pods |-> 0] /\ lived = [k \in Pods |-> 0]
  /\ notes = <<>> /\ other = 0
  /\ lastHeartbeat = [k \in Pods |-> None] /\ beat = Resting
  /\ eventCh = <<>> /\ batch = <<>> /\ emitter = Collecting
  /\ credit = [k \in Pods |-> 0] /\ forfeit = [k \in Pods |-> 0]
  /\ restarts = 0 /\ faults = 0

Fault(kind) == kind \in Faults /\ faults < MaxFaults /\ faults' = faults + 1

Running == emitter.pc # "down"

-----------------------------------------------------------------------------
(***************************************************************************)
(* The cluster: pods come and go, and the informer is told.                *)
(***************************************************************************)
Notify(note) == notes' = IF Running THEN Append(notes, note) ELSE notes

StartPod(k) ==
  /\ start[k] = None /\ lives[k] < MaxLives
  /\ start' = [start EXCEPT ![k] = clock] /\ lives' = [lives EXCEPT ![k] = @ + 1]
  /\ Notify([action |-> "CREATED", key |-> k])
  /\ UNCHANGED <<clock, lived, other, lastHeartbeat, beat, eventCh, batch, emitter, credit,
                 forfeit, restarts, faults>>

EndPod(k) ==
  /\ start[k] # None
  /\ start' = [start EXCEPT ![k] = None] /\ lived' = [lived EXCEPT ![k] = @ + clock - start[k]]
  /\ Notify([action |-> "DELETED", key |-> k])
  /\ UNCHANGED <<clock, lives, other, lastHeartbeat, beat, eventCh, batch, emitter, credit,
                 forfeit, restarts, faults>>

Tick ==
  /\ clock < MaxClock /\ clock' = clock + 1
  /\ UNCHANGED <<start, lives, lived, controller, eventCh, batch, emitter, credit, forfeit,
                 restarts, faults>>

-----------------------------------------------------------------------------
(***************************************************************************)
(* Emitter.Emit: an event that finds the channel full is dropped.          *)
(***************************************************************************)
Event(k, seconds) == [key |-> k, seconds |-> seconds]

Add(f, k, seconds) == IF k = None THEN f ELSE [f EXCEPT ![k] = @ + seconds]

\* Bug: room is made by dropping the oldest event, which is not accounted for.
EmitOverOldest(ev) ==
  /\ eventCh' = IF Len(eventCh) < Cap THEN Append(eventCh, ev) ELSE Append(Tail(eventCh), ev)
  /\ UNCHANGED forfeit

Emit(ev) ==
  \/ Len(eventCh) < Cap /\ eventCh' = Append(eventCh, ev) /\ UNCHANGED forfeit
  \/ Len(eventCh) >= Cap /\ forfeit' = Add(forfeit, ev.key, ev.seconds) /\ UNCHANGED eventCh

\* The informer handlers for pods.
Handle ==
  /\ Running /\ notes # <<>> /\ notes' = Tail(notes)
  /\ Emit(Event(Head(notes).key, 0))
  /\ lastHeartbeat' = IF Head(notes).action = "DELETED"
                      THEN [lastHeartbeat EXCEPT ![Head(notes).key] = None] ELSE lastHeartbeat
  /\ UNCHANGED <<cluster, other, beat, batch, emitter, credit, restarts, faults>>

\* A node, volume or load balancer comes, goes or is due for a heartbeat.
ChangeOther ==
  /\ Running /\ other < MaxOther /\ other' = other + 1
  /\ Emit(Event(None, 0))
  /\ UNCHANGED <<cluster, notes, lastHeartbeat, beat, batch, emitter, credit, restarts, faults>>

-----------------------------------------------------------------------------
(***************************************************************************)
(* emitPodHeartbeats: the pods are listed once, then each is reported for  *)
(* the time since its last heartbeat, which is recorded afterwards.        *)
(***************************************************************************)
\* The loop rests until the next tick when every listed pod has been reported.
Listed(now, todo) ==
  IF todo = {} THEN Resting ELSE [pc |-> "beat", now |-> now, todo |-> todo, key |-> None]

ListPods ==
  /\ Running /\ beat.pc = "idle"
  /\ beat' = Listed(clock, {p \in [key: Pods, from: 0..clock] : p.from = start[p.key]})
  /\ UNCHANGED <<cluster, notes, other, lastHeartbeat, eventCh, batch, emitter, credit, forfeit,
                 restarts, faults>>

Since(p) == IF lastHeartbeat[p.key] = None THEN p.from ELSE lastHeartbeat[p.key]

Beat ==
  /\ Running /\ beat.pc = "beat"
  /\ \E p \in beat.todo :
       /\ Emit(Event(p.key, beat.now - Since(p)))
       /\ beat' = [beat EXCEPT !.pc = "set", !.todo = @ \ {p}, !.key = p.key]
  /\ UNCHANGED <<cluster, notes, other, lastHeartbeat, batch, emitter, credit, restarts, faults>>

SetLast ==
  /\ Running /\ beat.pc = "set"
  /\ lastHeartbeat' = [lastHeartbeat EXCEPT ![beat.key] = beat.now]
  /\ beat' = Listed(beat.now, beat.todo)
  /\ UNCHANGED <<cluster, notes, other, eventCh, batch, emitter, credit, forfeit, restarts, faults>>

-----------------------------------------------------------------------------
(***************************************************************************)
(* Emitter.Start: collect a batch until it is full or the ticker fires,    *)
(* then post its events one by one; meanwhile the channel is not read.     *)
(***************************************************************************)
Collect ==
  /\ emitter.pc = "collect" /\ eventCh # <<>>
  /\ eventCh' = Tail(eventCh) /\ batch' = Append(batch, Head(eventCh))
  /\ emitter' = IF Len(batch) + 1 < BatchSize THEN emitter
                ELSE [emitter EXCEPT !.pc = "flush"]
  /\ UNCHANGED <<cluster, controller, credit, forfeit, restarts, faults>>

\* Bug: the ticker does not flush a batch that is not full.
BatchTickerFull ==
  /\ emitter.pc = "collect" /\ Len(batch) >= BatchSize
  /\ emitter' = [emitter EXCEPT !.pc = "flush"]
  /\ UNCHANGED <<cluster, controller, eventCh, batch, credit, forfeit, restarts, faults>>

BatchTicker ==
  /\ emitter.pc = "collect" /\ batch # <<>>
  /\ emitter' = [emitter EXCEPT !.pc = "flush"]
  /\ UNCHANGED <<cluster, controller, eventCh, batch, credit, forfeit, restarts, faults>>

\* Done with the first event of the batch.
NextEvent ==
  /\ batch' = Tail(batch)
  /\ emitter' = [emitter EXCEPT !.attempts = 0, !.taken = FALSE,
                    !.pc = IF Len(batch) > 1 THEN @ ELSE IF @ = "last" THEN "down" ELSE "collect"]

\* A failed attempt: try again, or give up after the third.
Retry(k, seconds) ==
  IF emitter.attempts + 1 < maxAttempts
  THEN emitter' = [emitter EXCEPT !.attempts = @ + 1] /\ UNCHANGED <<batch, forfeit>>
  ELSE NextEvent /\ forfeit' = IF emitter.taken THEN forfeit ELSE Add(forfeit, k, seconds)

\* The consumer's receipt of the event: it counts once.
Take(ev) == credit' = IF emitter.taken THEN credit ELSE Add(credit, ev.key, ev.seconds)

Send ==
  /\ emitter.pc \in {"flush", "last"}
  /\ LET ev == Head(batch)
     IN \/ Take(ev) /\ NextEvent /\ UNCHANGED <<forfeit, faults>>
        \/ Fault("post") /\ Retry(ev.key, ev.seconds) /\ UNCHANGED credit
        \/ /\ Fault("ack") /\ Take(ev) /\ UNCHANGED forfeit
           /\ IF emitter.attempts + 1 < maxAttempts
              THEN emitter' = [emitter EXCEPT !.attempts = @ + 1, !.taken = TRUE] /\ UNCHANGED batch
              ELSE NextEvent
  /\ UNCHANGED <<cluster, controller, eventCh, restarts>>

-----------------------------------------------------------------------------
\* The context is cancelled.
Stop ==
  /\ Running /\ ~emitter.stopping /\ Fault("stop")
  /\ emitter' = [emitter EXCEPT !.stopping = TRUE]
  /\ UNCHANGED <<cluster, controller, eventCh, batch, credit, forfeit, restarts>>

\* The select of Emitter.Start picks the cancelled context.
Done ==
  /\ emitter.pc = "collect" /\ emitter.stopping
  /\ emitter' = [emitter EXCEPT !.pc = IF batch = <<>> THEN "down" ELSE "last"]
  /\ UNCHANGED <<cluster, controller, eventCh, batch, credit, forfeit, restarts, faults>>

\* Bug: what was not posted survives the process and is posted under new ids.
NewProcessResending ==
  /\ restarts' = restarts + 1
  /\ notes' = <<>> /\ lastHeartbeat' = [k \in Pods |-> None] /\ beat' = Resting
  /\ eventCh' = batch /\ batch' = <<>> /\ emitter' = Collecting
  /\ UNCHANGED <<cluster, other, credit, forfeit>>

\* A new process; its informer reports the pods that exist.
NewProcess ==
  /\ restarts' = restarts + 1
  /\ notes' = SetToSeq({[action |-> "CREATED", key |-> k] : k \in {p \in Pods : start[p] # None}})
  /\ lastHeartbeat' = [k \in Pods |-> None] /\ beat' = Resting
  /\ eventCh' = <<>> /\ batch' = <<>> /\ emitter' = Collecting
  /\ UNCHANGED <<cluster, other, credit, forfeit>>

Restart == ~Running /\ NewProcess /\ UNCHANGED faults

\* The time until the process runs again adds nothing: what happens meanwhile is
\* unknown to both.
Crash == Running /\ Fault("crash") /\ NewProcess

Controller == Handle \/ ListPods \/ Beat \/ SetLast
Emitter == Collect \/ BatchTicker \/ Send \/ Done

Next ==
  \/ \E k \in Pods : StartPod(k) \/ EndPod(k)
  \/ ChangeOther \/ Tick
  \/ Controller \/ Emitter
  \/ Stop \/ Crash \/ Restart

Spec == Init /\ [][Next]_vars

\* The goroutine of the emitter runs: its ticker fires, a post ends within the timeout.
FairSpec == Spec /\ WF_vars(Emitter)

-----------------------------------------------------------------------------
Seconds(s, k) == FoldSeq(LAMBDA ev, n : IF ev.key = k THEN n + ev.seconds ELSE n, 0, s)

\* What the emitter holds of k and the consumer does not know of.
Pending(k) ==
  Seconds(eventCh, k) + Seconds(IF emitter.taken THEN Tail(batch) ELSE batch, k)

TypeOK ==
  /\ clock \in Nat /\ start \in [Pods -> Nat \cup {None}]
  /\ lives \in [Pods -> Nat] /\ lived \in [Pods -> Nat]
  /\ notes \in Seq([action: {"CREATED", "DELETED"}, key: Pods])
  /\ lastHeartbeat \in [Pods -> Nat \cup {None}]
  /\ beat \in [pc: {"idle", "beat", "set"}, now: Nat, todo: SUBSET [key: Pods, from: Nat],
               key: Pods \cup {None}]
  /\ \A s \in {eventCh, batch} : s \in Seq([key: Pods \cup {None}, seconds: Nat])
  /\ Len(eventCh) <= Cap /\ Len(batch) <= BatchSize
  /\ emitter \in [pc: {"collect", "flush", "last", "down"}, stopping: BOOLEAN,
                  attempts: 0..(maxAttempts - 1), taken: BOOLEAN]
  /\ emitter.pc \in {"flush", "last"} => batch # <<>>
  /\ credit \in [Pods -> Nat] /\ forfeit \in [Pods -> Nat]
  /\ other \in Nat /\ restarts \in Nat /\ faults \in Nat

\* Seconds that pods of this name have run.
Life(k) == lived[k] + IF start[k] = None THEN 0 ELSE clock - start[k]

(***************************************************************************)
(* Nothing is billed twice and nothing vanishes unseen: up to its last     *)
(* heartbeat every second of a pod has reached the consumer, is on its     *)
(* way, or was dropped from a full channel or given up, exactly once.      *)
(* (For one process and one pod of the name.)                              *)
(***************************************************************************)
SecondsAddUp ==
  restarts = 0 /\ Running =>
    \A k \in Pods : lives[k] = 1 /\ start[k] # None =>
      credit[k] + Pending(k) + forfeit[k] =
        IF beat.pc = "set" /\ beat.key = k THEN beat.now - start[k]
        ELSE IF lastHeartbeat[k] = None THEN 0 ELSE lastHeartbeat[k] - start[k]

(***************************************************************************)
(* What restarts, lost answers, retries and stale pod lists can add is     *)
(* bounded: each process of the agent reports a second of a running pod at *)
(* most once, and of a deleted one at most once more.                      *)
(***************************************************************************)
BilledPerProcess ==
  /\ TypeOK
  /\ \A k \in Pods : lives[k] = 1 =>
       credit[k] <= (1 + restarts) * Life(k) * IF start[k] = None THEN 2 ELSE 1

(***************************************************************************)
(* What the emitter holds is dealt with: as long as the agent runs, the    *)
(* seconds in the channel and in the batch are credited or given up in the *)
(* end, however often a post fails and even when the last batch stays      *)
(* short of full.                                                          *)
(***************************************************************************)
Delivers == \A k \in Pods : []<>(~Running \/ Pending(k) = 0)
==============================================================================
