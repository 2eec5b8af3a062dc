---------------------------- MODULE CursorsProof ----------------------------
(***************************************************************************)
(* Positions that must not run ahead of the work: the offset that the      *)
(* consumers of a partition commit, and the cursor of the Splunk           *)
(* forwarders.                                                             *)
(***************************************************************************)
EXTENDS Kafka, Splunk, FiniteSetTheorems, WellFoundedInduction, TLAPS

-----------------------------------------------------------------------------
(***************************************************************************)
(* The consumer group commits nothing that was not handed over or named as *)
(* abandoned, and loses no event without a failure, for any events,        *)
(* members, failures and reassignments.                                    *)
(***************************************************************************)
Consumer == [pc: {"poll", "check", "process"}, position: Nat, next: Nat, stopping: BOOLEAN]

Accounted(n) == \A i \in 1..n : i \in handed \cup abandoned

(***************************************************************************)
(* The member that owns the partition has accounted for all it polled      *)
(* before its present batch, and for the part of the batch before next.    *)
(* Nothing is known of the other members, whose commits are refused: they  *)
(* begin at the committed offset when the partition is theirs again.       *)
(***************************************************************************)
CommitInv ==
  /\ consumer \in [Consumers -> Consumer] /\ committed \in Nat
  /\ Accounted(committed)
  /\ owner \in Consumers =>
       /\ consumer[owner].pc = "poll" => Accounted(consumer[owner].position)
       /\ consumer[owner].pc # "poll" => Accounted(consumer[owner].next - 1)

LEMMA CommitInit == Init => CommitInv
BY KafkaAssumption DEF Init, CommitInv, Accounted, Consumer, Fresh

\* What is accounted for stays so.
LEMMA AccountedGrows ==
  ASSUME handed \subseteq handed', abandoned \subseteq abandoned', NEW n, Accounted(n)
  PROVE  Accounted(n)'
BY DEF Accounted

\* A step of member c that changes its own record only, to q.
LEMMA OwnRecord ==
  ASSUME CommitInv, NEW c \in Consumers, NEW q \in Consumer,
         consumer' = [consumer EXCEPT ![c] = q], committed' = committed, owner' = owner,
         handed \subseteq handed', abandoned \subseteq abandoned',
         owner = c => /\ q.pc = "poll" => Accounted(q.position)'
                      /\ q.pc # "poll" => Accounted(q.next - 1)'
  PROVE  CommitInv'
<1>1. consumer' \in [Consumers -> Consumer] /\ Accounted(committed)'
  BY AccountedGrows DEF CommitInv, Accounted
<1>2. ASSUME owner' \in Consumers
      PROVE  /\ consumer'[owner'].pc = "poll" => Accounted(consumer[owner].position)'
             /\ consumer'[owner'].pc # "poll" => Accounted(consumer[owner].next - 1)'
  <2>1. CASE owner = c
    <3>1. consumer'[owner'] = q BY <2>1 DEF CommitInv
    <3> QED BY <2>1, <3>1 DEF Accounted
  <2>2. CASE owner # c
    <3>1. consumer'[owner'] = consumer[owner] BY <1>2, <2>2 DEF CommitInv
    <3> QED BY <1>2, <3>1 DEF CommitInv, Accounted
  <2> QED BY <2>1, <2>2
<1> QED BY <1>1, <1>2 DEF CommitInv

\* The partition has no owner any more, or c gets it with the committed offset.
LEMMA OwnerLeaves ==
  ASSUME CommitInv, NEW c \in Consumers, consumer' = [consumer EXCEPT ![c] = Fresh],
         owner' = IF owner = c THEN None ELSE owner,
         committed' \in Nat, Accounted(committed)',
         handed \subseteq handed', abandoned \subseteq abandoned'
  PROVE  CommitInv'
<1>1. consumer' \in [Consumers -> Consumer] BY DEF CommitInv, Consumer, Fresh
<1>2. ASSUME owner' \in Consumers PROVE owner' = owner /\ consumer'[owner'] = consumer[owner]
  BY <1>2, KafkaAssumption DEF CommitInv
<1> QED BY <1>1, <1>2, AccountedGrows DEF CommitInv, Accounted

LEMMA CommitNext == ASSUME CommitInv, [Next]_vars PROVE CommitInv'
<1>1. CASE UNCHANGED vars
  BY <1>1 DEF vars, CommitInv, Accounted
<1>2. ASSUME NEW e \in Events, HandleEvent(e) \/ PublishCloudEvent(e) PROVE CommitInv'
  BY <1>2 DEF HandleEvent, PublishCloudEvent, PublishEvent, CommitInv, Accounted
<1>3. ASSUME NEW c \in Consumers, Assign(c) PROVE CommitInv'
  <2>1. /\ consumer' = [consumer EXCEPT ![c].position = committed] /\ owner' = c
        /\ consumer[c].pc = "poll" /\ UNCHANGED <<committed, handed, abandoned>>
    BY <1>3 DEF Assign
  <2>2. consumer' \in [Consumers -> Consumer] BY <2>1 DEF CommitInv, Consumer
  <2>3. consumer'[owner'].pc = "poll" /\ consumer'[owner'].position = committed
    BY <2>1 DEF CommitInv, Consumer
  <2> QED BY <2>1, <2>2, <2>3 DEF CommitInv, Accounted
<1>4. ASSUME NEW c \in Consumers, PollFetches(c) PROVE CommitInv'
  <2>1. PICK p \in (consumer[c].position + 1)..Len(log) :
          consumer' = [consumer EXCEPT ![c].pc = "check", ![c].position = p,
                                       ![c].next = consumer[c].position + 1]
    BY <1>4, Zenon DEF PollFetches
  <2>2. /\ consumer[c] \in Consumer /\ consumer[c].position \in Nat /\ p \in Nat
        /\ consumer[c].position + 1 \in Nat
    BY <2>1 DEF CommitInv, Consumer
  <2>k. PICK k \in Nat : k = consumer[c].position + 1 BY <2>2
  <2>q. PICK q : q = [consumer[c] EXCEPT !.pc = "check", !.position = p, !.next = k]
    OBVIOUS
  <2>f. q \in Consumer /\ q.pc = "check" /\ q.next = k BY <2>q, <2>2, Zenon DEF Consumer
  <2>3. q \in Consumer /\ q.pc = "check" /\ q.next - 1 = consumer[c].position
    BY <2>2, <2>k, <2>f
  <2>4. consumer' = [consumer EXCEPT ![c] = q] BY <2>k, <2>q, <2>1, <2>3 DEF CommitInv, Consumer
  <2>5. owner = c => Accounted(q.next - 1)'
    BY <1>4, <2>3 DEF PollFetches, CommitInv, Accounted
  <2> QED BY <1>4, <2>3, <2>4, <2>5, OwnRecord, Zenon DEF PollFetches
<1>5. ASSUME NEW c \in Consumers, PollCancelled(c) PROVE CommitInv'
  <2>1. consumer[c] \in Consumer /\ consumer[c].position \in Nat /\ consumer[c].position + 1 \in Nat
    BY DEF CommitInv, Consumer
  <2>k. PICK k \in Nat : k = consumer[c].position + 1 BY <2>1
  <2>q. PICK q : q = [consumer[c] EXCEPT !.pc = "check", !.next = k] OBVIOUS
  <2>f. q \in Consumer /\ q.pc = "check" /\ q.next = k BY <2>q, <2>1, Zenon DEF Consumer
  <2>2. q \in Consumer /\ q.pc = "check" /\ q.next - 1 = consumer[c].position
    BY <2>1, <2>k, <2>f
  <2>3. consumer' = [consumer EXCEPT ![c] = q]
    BY <2>k, <2>q, <1>5, <2>2, Zenon DEF PollCancelled, CommitInv, Consumer
  <2>4. owner = c => Accounted(q.next - 1)'
    BY <1>5, <2>2 DEF PollCancelled, CommitInv, Accounted
  <2> QED BY <1>5, <2>2, <2>3, <2>4, OwnRecord, Zenon DEF PollCancelled
<1>6. ASSUME NEW c \in Consumers, CheckContext(c) PROVE CommitInv'
  <2>1. CASE ~consumer[c].stopping
    <3>1. /\ consumer' = [consumer EXCEPT ![c].pc = "process"] /\ consumer[c].pc = "check"
          /\ UNCHANGED <<committed, owner, handed, abandoned>>
      BY <1>6, <2>1 DEF CheckContext
    <3>q. PICK q : q = [consumer[c] EXCEPT !.pc = "process"] BY Zenon
    <3>2. /\ q \in Consumer
          /\ q.pc = "process" /\ q.next = consumer[c].next
      BY <3>q DEF CommitInv, Consumer
    <3>3. consumer' = [consumer EXCEPT ![c] = q] BY <3>q, <3>1, <3>2 DEF CommitInv, Consumer
    <3>4. owner = c => Accounted(q.next - 1)' BY <3>1, <3>2 DEF CommitInv, Accounted
    <3> QED BY <3>1, <3>2, <3>3, <3>4, OwnRecord, Zenon
  <2>2. CASE consumer[c].stopping
    <3>1. /\ consumer' = [consumer EXCEPT ![c] = Fresh] /\ consumer[c].pc = "check"
          /\ owner' = IF owner = c THEN None ELSE owner
          /\ FinalCommit(c) \/ UNCHANGED <<committed, abandoned>>
          /\ UNCHANGED handed
      BY <1>6, <2>2 DEF CheckContext
    <3>2. committed' \in Nat /\ abandoned \subseteq abandoned'
      BY <3>1 DEF FinalCommit, CommitOffsets, CommitInv, Consumer
    <3>3. Accounted(committed)'
      <4>1. CASE FinalCommit(c) /\ owner = c
        <5>1. /\ committed' = consumer[c].position
              /\ abandoned' = abandoned \cup (consumer[c].next..consumer[c].position)
          BY <4>1 DEF FinalCommit, CommitOffsets
        <5>2. Accounted(consumer[c].next - 1) BY <3>1, <4>1 DEF CommitInv
        <5>3. consumer[c].position \in Nat /\ consumer[c].next \in Nat BY DEF CommitInv, Consumer
        <5> QED BY <3>1, <5>1, <5>2, <5>3 DEF Accounted
      <4>2. CASE ~(FinalCommit(c) /\ owner = c)
        BY <3>1, <3>2, <4>2 DEF FinalCommit, CommitOffsets, CommitInv, Accounted
      <4> QED BY <4>1, <4>2
    <3> QED BY <3>1, <3>2, <3>3, OwnerLeaves, Zenon
  <2> QED BY <2>1, <2>2
<1>7. ASSUME NEW c \in Consumers, ProcessRecord(c) PROVE CommitInv'
  <2>1. /\ consumer' = [consumer EXCEPT ![c].next = @ + 1] /\ consumer[c].pc = "process"
        /\ handed' = handed \cup {consumer[c].next} /\ UNCHANGED <<committed, owner, abandoned>>
    BY <1>7 DEF ProcessRecord
  <2>2. consumer[c] \in Consumer /\ consumer[c].next \in Nat /\ consumer[c].next + 1 \in Nat
    BY DEF CommitInv, Consumer
  <2>q. PICK q : q = [consumer[c] EXCEPT !.next = consumer[c].next + 1] BY Zenon
  <2>3. /\ q \in Consumer
        /\ q.pc = "process" /\ q.next - 1 = consumer[c].next
    BY <2>q, <2>1, <2>2 DEF Consumer
  <2>4. consumer' = [consumer EXCEPT ![c] = q] BY <2>q, <2>1, <2>3 DEF CommitInv, Consumer
  <2>5. owner = c => Accounted(q.next - 1)'
    BY <2>1, <2>2, <2>3 DEF CommitInv, Accounted
  <2> QED BY <2>1, <2>3, <2>4, <2>5, OwnRecord, Zenon
<1>8. ASSUME NEW c \in Consumers, CommitBatch(c) PROVE CommitInv'
  <2>1. /\ consumer' = [consumer EXCEPT ![c].pc = "poll"] /\ consumer[c].pc = "process"
        /\ consumer[c].next > consumer[c].position /\ UNCHANGED <<owner, handed, abandoned>>
        /\ CommitOffsets(c) \/ UNCHANGED committed
    BY <1>8 DEF CommitBatch
  <2>2. consumer[c].position \in Nat /\ consumer[c].next \in Nat BY DEF CommitInv, Consumer
  <2>3. owner = c => Accounted(consumer[c].position)
    BY <2>1, <2>2 DEF CommitInv, Accounted
  <2>4. committed' \in Nat /\ Accounted(committed)'
    BY <2>1, <2>2, <2>3 DEF CommitOffsets, CommitInv, Accounted
  <2>5. consumer' \in [Consumers -> Consumer] BY <2>1 DEF CommitInv, Consumer
  <2>6. ASSUME owner' \in Consumers
        PROVE  /\ consumer'[owner'].pc = "poll" => Accounted(consumer'[owner'].position)
               /\ consumer'[owner'].pc # "poll" => Accounted(consumer'[owner'].next - 1)
    <3>1. CASE owner = c
      BY <2>1, <2>3, <3>1 DEF CommitInv, Consumer
    <3>2. CASE owner # c
      <4>1. consumer'[owner'] = consumer[owner] BY <2>1, <2>6, <3>2 DEF CommitInv
      <4> QED BY <2>1, <2>6, <4>1, Zenon DEF CommitInv
    <3> QED BY <3>1, <3>2
  <2> QED BY <2>1, <2>4, <2>5, <2>6 DEF CommitInv, Accounted
<1>9. ASSUME NEW c \in Consumers, Stop(c) PROVE CommitInv'
  <2>1. /\ consumer' = [consumer EXCEPT ![c].stopping = TRUE]
        /\ UNCHANGED <<committed, owner, handed, abandoned>>
    BY <1>9 DEF Stop
  <2>q. PICK q : q = [consumer[c] EXCEPT !.stopping = TRUE] BY Zenon
  <2>2. /\ q \in Consumer
        /\ q.pc = consumer[c].pc /\ q.next = consumer[c].next
        /\ q.position = consumer[c].position
    BY <2>q, Zenon DEF CommitInv, Consumer
  <2>3. consumer' = [consumer EXCEPT ![c] = q] BY <2>q, <2>1, <2>2 DEF CommitInv, Consumer
  <2>4. owner = c => /\ q.pc = "poll" => Accounted(q.position)'
                     /\ q.pc # "poll" => Accounted(q.next - 1)'
    BY <2>1, <2>2 DEF CommitInv, Accounted
  <2> QED BY <2>1, <2>2, <2>3, <2>4, OwnRecord, Zenon
<1>10. ASSUME NEW c \in Consumers, Crash(c) PROVE CommitInv'
  BY <1>10, OwnerLeaves, Zenon DEF Crash, CommitInv, Accounted
<1> QED
  BY <1>1, <1>2, <1>3, <1>4, <1>5, <1>6, <1>7, <1>8, <1>9, <1>10 DEF Next, Run

(***************************************************************************)
(* Consumer.Run never commits past a record that was neither handed to     *)
(* ProcessKafkaEvent nor passed by the final commit of a shutdown.         *)
(***************************************************************************)
THEOREM CommitsOnlyHanded == Spec => []CommittedWasHanded
<1>1. CommitInv => CommittedWasHanded BY DEF CommitInv, Accounted, CommittedWasHanded
<1> QED BY <1>1, CommitInit, CommitNext, PTL DEF Spec

-----------------------------------------------------------------------------
(***************************************************************************)
(* Types.  What was processed is not pending, since no record of the log   *)
(* is.                                                                     *)
(***************************************************************************)
Typed == TypeOK /\ \A i \in 1..Len(log) : log[i] \notin pending

\* The records of the consumers in a log of length n.
Records(n) == [pc: {"poll", "check", "process"}, position: 0..n, next: 1..(n + 1), stopping: BOOLEAN]

LEMMA TypedInit == Init => Typed
<1> SUFFICES ASSUME Init PROVE Typed
  OBVIOUS
<1>1. Len(log) = 0 /\ log \in Seq(Events)
  BY DEF Init
<1>2. Fresh \in [pc: {"poll", "check", "process"}, position: 0..0, next: 1..(0 + 1), stopping: BOOLEAN]
  BY DEF Fresh
<1>3. consumer \in [Consumers -> [pc: {"poll", "check", "process"}, position: 0..Len(log),
                                  next: 1..(Len(log) + 1), stopping: BOOLEAN]]
  BY <1>1, <1>2 DEF Init
<1> QED BY <1>1, <1>3, KafkaAssumption DEF Init, Typed, TypeOK

LEMMA FaultType == ASSUME NEW kind, faults \in 0..MaxFaults, Fault(kind) PROVE faults' \in 0..MaxFaults
BY KafkaAssumption DEF Fault

LEMMA TypedNext == ASSUME Typed, [Next]_vars PROVE Typed'
<1>a. /\ log \in Seq(Events) /\ Len(log) \in Nat /\ pending \subseteq Events /\ failed \in Nat
      /\ refused \subseteq Events /\ consumer \in [Consumers -> Records(Len(log))] /\ faults \in 0..MaxFaults
      /\ committed \in 0..Len(log) /\ handed \subseteq 1..Len(log) /\ abandoned \subseteq 1..Len(log)
      /\ done \subseteq Events \ pending /\ owner \in Consumers \cup {None}
  BY DEF Typed, TypeOK, Records
<1>b. \A c \in Consumers : /\ consumer[c] \in Records(Len(log))
                           /\ consumer[c].position \in 0..Len(log) /\ consumer[c].position \in Nat
                           /\ consumer[c].next \in 1..(Len(log) + 1) /\ consumer[c].next \in Nat
  BY <1>a DEF Records
<1>0. CASE UNCHANGED vars
  BY <1>0 DEF vars, Typed, TypeOK
\* Everything but the log and the events: the consumers and what they have done.
<1>s. ASSUME UNCHANGED <<log, pending>>, consumer' \in [Consumers -> Records(Len(log))],
             committed' \in 0..Len(log), owner' \in Consumers \cup {None}, faults' \in 0..MaxFaults,
             done' \subseteq Events \ pending, handed' \subseteq 1..Len(log),
             abandoned' \subseteq 1..Len(log), refused' \subseteq Events, failed' \in Nat
      PROVE  Typed'
  BY <1>a, <1>s, Zenon DEF Typed, TypeOK, Records
<1>1. ASSUME NEW e \in Events, HandleEvent(e) \/ PublishCloudEvent(e) PROVE Typed'
  <2>1. e \in pending /\ PublishEvent(e)
    BY <1>1 DEF HandleEvent, PublishCloudEvent
  <2>2. /\ pending' = pending \ {e} /\ log' \in {log, Append(log, e), log \o <<e, e>>}
        /\ faults' \in 0..MaxFaults
        /\ UNCHANGED <<committed, owner, consumer, done, handed, refused, failed, abandoned>>
    BY <1>a, <2>1, FaultType DEF PublishEvent
  <2>3. /\ log' \in Seq(Events) /\ Len(log') \in Nat /\ Len(log) <= Len(log')
        /\ \A i \in 1..Len(log') : log'[i] = e \/ (i \in 1..Len(log) /\ log'[i] = log[i])
    <3>1. CASE log' = log
      BY <1>a, <3>1
    <3>2. CASE log' = Append(log, e)
      BY <1>a, <3>2
    <3>3. CASE log' = log \o <<e, e>>
      <4>1. <<e, e>> \in Seq(Events) /\ Len(<<e, e>>) = 2 /\ \A i \in 1..2 : <<e, e>>[i] = e
        OBVIOUS
      <4>2. PICK twice : twice = <<e, e>>
        BY Zenon
      <4>3. /\ Len(log') = Len(log) + 2
            /\ \A i \in 1..Len(log') : log'[i] = IF i <= Len(log) THEN log[i] ELSE twice[i - Len(log)]
        BY <1>a, <3>3, <4>1, <4>2
      <4>4. log' \in Seq(Events)
        BY <1>a, <3>3, <4>1
      <4>5. \A i \in 1..Len(log') : i > Len(log) => i - Len(log) \in 1..2
        <5>1. PICK n \in Nat : n = Len(log)
          BY <1>a
        <5>2. Len(log') = n + 2
          BY <4>3, <5>1
        <5> QED BY <5>1, <5>2
      <4> QED BY <1>a, <4>1, <4>2, <4>3, <4>4, <4>5
    <3> QED BY <2>2, <3>1, <3>2, <3>3
  <2>4. \A i \in 1..Len(log') : log'[i] \notin pending'
    BY <2>2, <2>3 DEF Typed
  <2>5. Records(Len(log)) \subseteq Records(Len(log'))
    BY <1>a, <2>3 DEF Records
  <2>6. consumer' \in [Consumers -> Records(Len(log'))]
    BY <1>a, <2>2, <2>5
  <2>7. /\ committed' \in 0..Len(log') /\ handed' \subseteq 1..Len(log')
        /\ abandoned' \subseteq 1..Len(log')
    BY <1>a, <2>2, <2>3
  <2> QED BY <1>a, <2>2, <2>3, <2>4, <2>6, <2>7 DEF Typed, TypeOK, Records
<1>2. ASSUME NEW c \in Consumers, Assign(c) PROVE Typed'
  <2>1. consumer' \in [Consumers -> Records(Len(log))]
    BY <1>a, <1>2, Zenon DEF Assign, Records
  <2> QED BY <1>a, <1>s, <1>2, <2>1, FaultType DEF Assign
<1>3. ASSUME NEW c \in Consumers, PollFetches(c) PROVE Typed'
  <2>1. PICK p \in (consumer[c].position + 1)..Len(log) :
          consumer' = [consumer EXCEPT ![c].pc = "check", ![c].position = p,
                                       ![c].next = consumer[c].position + 1]
    BY <1>3, Zenon DEF PollFetches
  <2>2. PICK k : k = consumer[c].position + 1
    OBVIOUS
  <2>3. p \in 0..Len(log) /\ k \in 1..(Len(log) + 1)
    BY <1>a, <1>b, <2>1, <2>2
  <2>4. consumer' \in [Consumers -> Records(Len(log))]
    BY <1>a, <2>1, <2>2, <2>3 DEF Records
  <2> QED BY <1>a, <1>s, <1>3, <2>4 DEF PollFetches
<1>4. ASSUME NEW c \in Consumers, PollCancelled(c) PROVE Typed'
  <2>1. PICK k : k = consumer[c].position + 1
    OBVIOUS
  <2>2. k \in 1..(Len(log) + 1)
    BY <1>a, <1>b, <2>1
  <2>3. consumer' \in [Consumers -> Records(Len(log))]
    BY <1>a, <1>4, <2>1, <2>2, Zenon DEF PollCancelled, Records
  <2> QED BY <1>a, <1>s, <1>4, <2>3 DEF PollCancelled
<1>5. Fresh \in Records(Len(log))
  BY <1>a DEF Fresh, Records
<1>6. ASSUME NEW c \in Consumers, CheckContext(c) PROVE Typed'
  <2>1. consumer' \in [Consumers -> Records(Len(log))]
    <3>1. CASE consumer' = [consumer EXCEPT ![c].pc = "process"]
      BY <1>a, <3>1, Zenon DEF Records
    <3>2. CASE consumer' = [consumer EXCEPT ![c] = Fresh]
      BY <1>a, <1>5, <3>2
    <3> QED BY <1>6, <3>1, <3>2 DEF CheckContext
  <2>2. consumer[c].next..consumer[c].position \subseteq 1..Len(log)
    BY <1>a, <1>b
  <2>3. committed' \in 0..Len(log) /\ abandoned' \subseteq 1..Len(log) /\ faults' \in 0..MaxFaults
    BY <1>a, <1>b, <1>6, <2>2, FaultType DEF CheckContext, FinalCommit, CommitOffsets
  <2>4. owner' \in Consumers \cup {None} /\ UNCHANGED <<pending, log, done, handed, refused, failed>>
    BY <1>a, <1>6 DEF CheckContext
  <2> QED BY <1>a, <1>s, <2>1, <2>3, <2>4
<1>7. ASSUME NEW c \in Consumers, ProcessRecord(c) PROVE Typed'
  <2>1. PICK n : n = consumer[c].next
    OBVIOUS
  <2>2. n \in 1..Len(log) /\ n + 1 \in 1..(Len(log) + 1)
    BY <1>a, <1>b, <1>7, <2>1 DEF ProcessRecord
  <2>3. PICK k : k = n + 1
    OBVIOUS
  <2>4. consumer' = [consumer EXCEPT ![c].next = k] /\ k \in 1..(Len(log) + 1)
    BY <1>7, <2>1, <2>2, <2>3 DEF ProcessRecord
  <2>5. consumer' \in [Consumers -> Records(Len(log))]
    BY <1>a, <2>4, Zenon DEF Records
  <2>6. log[n] \in Events \ pending
    BY <1>a, <2>2 DEF Typed
  <2>7. /\ done' \subseteq Events \ pending /\ refused' \subseteq Events
        /\ failed' \in Nat /\ faults' \in 0..MaxFaults
    BY <1>a, <1>7, <2>1, <2>6, FaultType DEF ProcessRecord, ProcessKafkaEvent
  <2>8. handed' \subseteq 1..Len(log) /\ UNCHANGED <<pending, log, committed, owner, abandoned>>
    BY <1>a, <1>7, <2>1, <2>2 DEF ProcessRecord
  <2> QED BY <1>a, <1>s, <2>5, <2>7, <2>8
<1>8. ASSUME NEW c \in Consumers, CommitBatch(c) PROVE Typed'
  <2>1. consumer' \in [Consumers -> Records(Len(log))]
    BY <1>a, <1>8, Zenon DEF CommitBatch, Records
  <2>2. committed' \in 0..Len(log) /\ faults' \in 0..MaxFaults
    BY <1>a, <1>b, <1>8, FaultType DEF CommitBatch, CommitOffsets
  <2> QED BY <1>a, <1>s, <1>8, <2>1, <2>2 DEF CommitBatch
<1>9. ASSUME NEW c \in Consumers, Stop(c) PROVE Typed'
  <2>1. consumer' \in [Consumers -> Records(Len(log))]
    BY <1>a, <1>9, Zenon DEF Stop, Records
  <2> QED BY <1>a, <1>s, <1>9, <2>1, FaultType DEF Stop
<1>10. ASSUME NEW c \in Consumers, Crash(c) PROVE Typed'
  <2>1. consumer' \in [Consumers -> Records(Len(log))]
    BY <1>a, <1>5, <1>10 DEF Crash
  <2> QED BY <1>a, <1>s, <1>10, <2>1, FaultType DEF Crash
<1> QED
  BY <1>0, <1>1, <1>2, <1>3, <1>4, <1>6, <1>7, <1>8, <1>9, <1>10 DEF Next, Run

-----------------------------------------------------------------------------
(***************************************************************************)
(* An event that was handed over and has no effects has failed, unless it  *)
(* was refused or no CloudEvent.  There may be more failures than such     *)
(* events, since a record that is delivered again may fail again or        *)
(* succeed.                                                                *)
(***************************************************************************)
Unprocessed ==
  {e \in Events \ FromWatcher : e \notin done \cup refused /\ \E i \in handed : log[i] = e}

FailInv == Cardinality(Unprocessed) <= failed

LEMMA EventSetsFinite ==
  ASSUME NEW S, S \subseteq Events PROVE IsFiniteSet(S) /\ Cardinality(S) \in Nat
BY KafkaAssumption, FS_Subset, FS_CardinalityType

LEMMA FailInit == Init => FailInv
<1> SUFFICES ASSUME Init PROVE FailInv
  OBVIOUS
<1>1. Unprocessed = {}
  BY DEF Init, Unprocessed
<1> QED BY <1>1, FS_EmptySet DEF Init, FailInv

LEMMA FailNext == ASSUME Typed, FailInv, [Next]_vars PROVE FailInv'
<1>a. /\ log \in Seq(Events) /\ Len(log) \in Nat /\ failed \in Nat /\ handed \subseteq 1..Len(log)
  BY DEF Typed, TypeOK
<1>b. IsFiniteSet(Unprocessed) /\ Cardinality(Unprocessed) \in Nat
  BY EventSetsFinite DEF Unprocessed
\* Fewer events without effects.
<1>c. ASSUME Unprocessed' \subseteq Unprocessed, failed' = failed PROVE FailInv'
  <2>1. Cardinality(Unprocessed') \in Nat /\ Cardinality(Unprocessed') <= Cardinality(Unprocessed)
    BY <1>b, <1>c, FS_Subset, FS_CardinalityType
  <2> QED BY <1>a, <1>b, <1>c, <2>1 DEF FailInv
\* One more, and one more failure.
<1>d. ASSUME NEW e, Unprocessed' \subseteq Unprocessed \cup {e}, failed' = failed + 1 PROVE FailInv'
  <2>1. /\ IsFiniteSet(Unprocessed \cup {e}) /\ Cardinality(Unprocessed \cup {e}) \in Nat
        /\ Cardinality(Unprocessed \cup {e}) <= Cardinality(Unprocessed) + 1
    BY <1>b, FS_AddElement, FS_CardinalityType
  <2>2. /\ Cardinality(Unprocessed') \in Nat
        /\ Cardinality(Unprocessed') <= Cardinality(Unprocessed \cup {e})
    BY <1>d, <2>1, FS_Subset, FS_CardinalityType
  <2> QED BY <1>a, <1>b, <1>d, <2>1, <2>2 DEF FailInv
<1>1. ASSUME NEW e \in Events, HandleEvent(e) \/ PublishCloudEvent(e) PROVE FailInv'
  <2>1. /\ log' \in {log, Append(log, e), log \o <<e, e>>}
        /\ UNCHANGED <<done, handed, refused, failed>>
    BY <1>1 DEF HandleEvent, PublishCloudEvent, PublishEvent
  <2>2. \A i \in 1..Len(log) : log'[i] = log[i]
    <3>1. CASE log' = Append(log, e)
      BY <1>a, <3>1
    <3>2. CASE log' = log \o <<e, e>>
      <4>1. <<e, e>> \in Seq(Events)
        OBVIOUS
      <4> QED BY <1>a, <3>2, <4>1
    <3> QED BY <2>1, <3>1, <3>2
  <2>3. Unprocessed' \subseteq Unprocessed
    BY <1>a, <2>1, <2>2 DEF Unprocessed
  <2> QED BY <1>c, <2>1, <2>3
<1>2. ASSUME NEW c \in Consumers, ProcessRecord(c) PROVE FailInv'
  <2>1. PICK e : e = log[consumer[c].next]
    OBVIOUS
  <2>2. /\ UNCHANGED log /\ handed' = handed \cup {consumer[c].next}
        /\ done \subseteq done' /\ refused \subseteq refused'
    BY <1>2 DEF ProcessRecord, ProcessKafkaEvent
  <2>3. Unprocessed' \subseteq Unprocessed \cup {e}
    BY <2>1, <2>2 DEF Unprocessed
  <2>4. CASE failed' = failed + 1
    BY <1>d, <2>3, <2>4
  <2>5. CASE failed' = failed /\ e \in done' \cup refused' \cup FromWatcher
    <3>1. e \notin Unprocessed'
      BY <2>5 DEF Unprocessed
    <3> QED BY <1>c, <2>3, <2>5, <3>1
  <2>6. failed' = failed + 1 \/ (failed' = failed /\ e \in done' \cup refused' \cup FromWatcher)
    <3>1. failed' = failed + (IF e \in FromWatcher THEN 0 ELSE 1) \/ ProcessKafkaEvent(e)
      BY <1>2, <2>1 DEF ProcessRecord
    <3>2. ASSUME failed' = failed + (IF e \in FromWatcher THEN 0 ELSE 1) PROVE failed' = failed + 1 \/ (failed' = failed /\ e \in FromWatcher)
      BY <1>a, <3>2
    <3> QED BY <1>a, <3>1, <3>2 DEF ProcessKafkaEvent
  <2> QED BY <2>4, <2>5, <2>6
<1>3. ASSUME ~\E e \in Events : HandleEvent(e) \/ PublishCloudEvent(e),
             ~\E c \in Consumers : ProcessRecord(c)
      PROVE  FailInv'
  <2>1. UNCHANGED <<log, done, handed, refused, failed>>
    BY <1>3, Zenon DEF Next, Run, Assign, PollFetches, PollCancelled, CheckContext, CommitBatch, Stop,
       Crash, vars
  <2> QED BY <2>1 DEF FailInv, Unprocessed
<1> QED BY <1>1, <1>2, <1>3

\* As many events as offsets of theirs at most.
LEMMA EventsAt ==
  ASSUME Typed, NEW S, S \subseteq 1..Len(log), NEW E, \A e \in E : \E i \in S : log[i] = e
  PROVE  IsFiniteSet(E) /\ Cardinality(E) \in Nat /\ Cardinality(E) <= Cardinality(S)
<1>1. Len(log) \in Nat
  BY DEF Typed, TypeOK
<1>2. IsFiniteSet(1..Len(log))
  BY <1>1, FS_Interval
<1>3. PICK L : L = 1..Len(log)
  OBVIOUS
<1>4. IsFiniteSet(S) /\ Cardinality(S) \in Nat
  BY <1>2, <1>3, FS_Subset, FS_CardinalityType, Zenon
<1> DEFINE T == {i \in S : log[i] \in E}
           f == [i \in T |-> log[i]]
<1>5. IsFiniteSet(T) /\ Cardinality(T) \in Nat /\ Cardinality(T) <= Cardinality(S)
  <2>1. T \in SUBSET S
    OBVIOUS
  <2> HIDE DEF T
  <2> QED BY <1>4, <2>1, FS_Subset, FS_CardinalityType, Zenon
<1>6. f \in Surjection(T, E)
  BY DEF Surjection
<1> HIDE DEF T, f
<1>7. IsFiniteSet(E) /\ Cardinality(E) <= Cardinality(T)
  BY <1>5, <1>6, FS_Surjection
<1>8. Cardinality(E) \in Nat
  BY <1>7, FS_CardinalityType
<1> QED BY <1>4, <1>5, <1>7, <1>8

(***************************************************************************)
(* An event that reached the log and that processEvents did not refuse is  *)
(* lost only by a failure of the database or by a shutdown that committed  *)
(* what it had not handed over, one for each, whatever crashes, fails to   *)
(* commit, is reassigned or delivered again.                               *)
(***************************************************************************)
THEOREM LossTakesFailure == Spec => []LostPerFailure
<1>1. Typed /\ CommitInv /\ FailInv => LostPerFailure
  <2> SUFFICES ASSUME Typed, CommitInv, FailInv PROVE LostPerFailure
    OBVIOUS
  <2> DEFINE passed == {e \in Lost \ refused : \E i \in abandoned : log[i] = e}
  <2>a. /\ TypeOK /\ failed \in Nat /\ abandoned \subseteq 1..Len(log) /\ Len(log) \in Nat
    BY DEF Typed, TypeOK
  <2>1. Lost \ refused \subseteq Unprocessed \cup passed
    BY DEF CommitInv, Accounted, Lost, Unprocessed
  <2>2. /\ IsFiniteSet(passed) /\ Cardinality(passed) \in Nat
        /\ Cardinality(passed) <= Cardinality(abandoned)
    <3>1. \A e \in passed : \E i \in abandoned : log[i] = e
      OBVIOUS
    <3> HIDE DEF passed
    <3> QED BY <2>a, <3>1, EventsAt, Zenon
  <2> HIDE DEF passed
  <2>3. IsFiniteSet(Unprocessed) /\ Cardinality(Unprocessed) \in Nat
    BY EventSetsFinite DEF Unprocessed
  <2>4. IsFiniteSet(abandoned) /\ Cardinality(abandoned) \in Nat
    <3>1. IsFiniteSet(1..Len(log))
      BY <2>a, FS_Interval
    <3> QED BY <2>a, <3>1, FS_Subset, FS_CardinalityType, Zenon
  <2>5. /\ IsFiniteSet(Unprocessed \cup passed) /\ Cardinality(Unprocessed \cup passed) \in Nat
        /\ Cardinality(Unprocessed \cup passed) <= Cardinality(Unprocessed) + Cardinality(passed)
    <3>1. IsFiniteSet(Unprocessed \cap passed) /\ Cardinality(Unprocessed \cap passed) \in Nat
      BY <2>3, FS_Intersection, FS_CardinalityType
    <3>2. IsFiniteSet(Unprocessed \cup passed)
          /\ Cardinality(Unprocessed \cup passed)
             = Cardinality(Unprocessed) + Cardinality(passed) - Cardinality(Unprocessed \cap passed)
      BY <2>2, <2>3, FS_Union
    <3> QED BY <2>2, <2>3, <3>1, <3>2, FS_CardinalityType
  <2>6. /\ Cardinality(Lost \ refused) \in Nat
        /\ Cardinality(Lost \ refused) <= Cardinality(Unprocessed \cup passed)
    BY <2>1, <2>5, FS_Subset, FS_CardinalityType
  <2> QED BY <2>a, <2>2, <2>3, <2>4, <2>5, <2>6 DEF FailInv, LostPerFailure
<1>2. Init => Typed /\ CommitInv /\ FailInv
  BY TypedInit, CommitInit, FailInit
<1>3. Typed /\ CommitInv /\ FailInv /\ [Next]_vars => Typed' /\ CommitInv' /\ FailInv'
  BY TypedNext, CommitNext, FailNext
<1> QED BY <1>1, <1>2, <1>3, PTL DEF Spec

-----------------------------------------------------------------------------
(***************************************************************************)
(* The cursor of the Splunk forwarder stays behind what Splunk received,   *)
(* for any number of rows, of forwarders and of failures, and any batch    *)
(* size, provided that rows become visible in the order of their ids.      *)
(***************************************************************************)
SentUpTo(c) == \A e \in table : e <= c => sent[e] > 0

(***************************************************************************)
(* What a forwarder holds.  All that is visible up to its cursor was       *)
(* received; the batch leaves out no visible row between the cursor and    *)
(* its own greatest one; and once posted, all of it was received.          *)
(***************************************************************************)
Holds(g) ==
  /\ g.cursor \in table \cup {0} /\ SentUpTo(g.cursor)
  /\ g.batch \subseteq table
  /\ \A e \in table, f \in g.batch : e > g.cursor /\ e <= f => e \in g.batch
  /\ g.pc \in {"post", "advance"} => g.batch # {}
  /\ g.pc = "advance" => \A e \in g.batch : sent[e] > 0

\* g has the cursor and the batch of k.
Carries(g, k) ==
  /\ g.cursor = k.cursor /\ g.batch = k.batch
  /\ g.pc \in {"post", "advance"} => k.pc \in {"post", "advance"}

CursorInv ==
  /\ table \subseteq Ids /\ last \in table \cup {0}
  /\ sent \in [Ids -> Nat]
  /\ DOMAIN fwd = Forwarders
  /\ \A e \in table, f \in Ids : f < e => f \in table
  /\ SentUpTo(last)
  /\ \A i \in Forwarders : Holds(fwd[i])

LEMMA IdsAreNat == \A e \in Ids : e \in Nat /\ e > 0
BY SplunkAssumption

LEMMA IdsFinite == \A T \in SUBSET Ids : IsFiniteSet(T)
<1>1. PICK n \in Nat : Ids \subseteq 1..n BY SplunkAssumption
<1>2. IsFiniteSet(1..n) BY FS_Interval
<1> QED BY <1>1, <1>2, FS_Subset, Zenon

\* The id at which the cursor is set is one of the batch, and no less than the rest.
LEMMA MaxOfBatch ==
  ASSUME NEW S, S \subseteq Ids, S # {}
  PROVE  Max(S) \in S /\ \A y \in S : Max(S) >= y
<1>1. PICK n \in Nat : Ids \subseteq 1..n BY SplunkAssumption
<1> DEFINE U == {b \in Nat : \A y \in S : y <= b}
<1>2. U \subseteq Nat /\ n \in U BY <1>1
<1>3. PICK b \in U : \A c \in U : ~(<<c, b>> \in OpToRel(<, Nat))
  BY <1>2, WFMin, NatLessThanWellFounded, U # {}, Zenon
<1>4. b \in Nat /\ \A y \in S : y <= b BY <1>3, Zenon
<1>5. \A c \in U : ~(c < b) BY <1>2, <1>3, <1>4, Zenon DEF OpToRel
<1>6. b \in S
  <2> SUFFICES ASSUME b \notin S PROVE FALSE OBVIOUS
  <2>1. \A y \in S : y \in Nat /\ 1 <= y /\ y < b BY <1>1, <1>4
  <2>2. b - 1 \in Nat /\ \A y \in S : y <= b - 1 BY <1>4, <2>1
  <2>3. b - 1 \in U BY <2>2
  <2> QED BY <1>4, <1>5, <2>2, <2>3
<1>7. \E x \in S : \A y \in S : x >= y
  <2>1. \A y \in S : b >= y BY <1>1, <1>4
  <2> QED BY <1>6, <2>1
<1> QED BY <1>7 DEF Max

\* ORDER BY id LIMIT leaves no row out below the last one it returns.
LEMMA BatchIsPrefix ==
  ASSUME NEW c \in Nat, table \subseteq Ids
  PROVE  /\ RawEventsSince(c) \subseteq table
         /\ \A e \in table, f \in RawEventsSince(c) :
              e > c /\ e <= f => e \in RawEventsSince(c)
<1> DEFINE rows == {e \in table : e > c}
           Below(e) == {f \in rows : f < e}
<1>1. RawEventsSince(c) = {e \in rows : Cardinality(Below(e)) < BatchSize}
  BY DEF RawEventsSince
<1>2. SUFFICES ASSUME NEW e \in table, NEW f \in RawEventsSince(c), e > c, e <= f
               PROVE  e \in RawEventsSince(c)
  BY <1>1
<1>3. e \in rows /\ f \in rows /\ Cardinality(Below(f)) < BatchSize BY <1>1, <1>2
<1>4. IsFiniteSet(Below(e)) /\ IsFiniteSet(Below(f))
  <2>1. Below(e) \in SUBSET Ids /\ Below(f) \in SUBSET Ids OBVIOUS
  <2> HIDE DEF Below
  <2> QED BY <2>1, IdsFinite
<1>5. Below(e) \in SUBSET Below(f) BY <1>2, <1>3, IdsAreNat
<1>6. Cardinality(Below(e)) <= Cardinality(Below(f)) BY <1>4, <1>5, FS_Subset
<1>7. Cardinality(Below(e)) \in Nat /\ Cardinality(Below(f)) \in Nat
  BY <1>4, FS_CardinalityType
<1>8. Cardinality(Below(e)) < BatchSize BY <1>3, <1>6, <1>7, SplunkAssumption
<1> QED BY <1>1, <1>3, <1>8

LEMMA CursorInit == SplunkInit => CursorInv
BY DEF SplunkInit, CursorInv, Holds, SentUpTo, Idle, Forwarder

\* A step of forwarder i that changes only its own record, to one that Holds.
LEMMA OwnStep ==
  ASSUME CursorInv, NEW i \in Forwarders, NEW g, Holds(g), Become(i, g),
         UNCHANGED <<table, last, sent>>
  PROVE  CursorInv'
<1>1. \A j \in Forwarders : fwd'[j] = IF j = i THEN g ELSE fwd[j]
  BY DEF CursorInv, Become
<1>2. DOMAIN fwd' = Forwarders BY DEF CursorInv, Become
<1>3. \A j \in Forwarders : Holds(fwd'[j]) BY <1>1 DEF CursorInv
<1>4. \A j \in Forwarders : Holds(fwd[j])' BY <1>3 DEF Holds, SentUpTo
<1> QED BY <1>2, <1>4 DEF CursorInv, SentUpTo

LEMMA IdleHolds == ASSUME CursorInv PROVE Holds(Idle)
BY IdsAreNat DEF CursorInv, Holds, SentUpTo, Idle, Forwarder

\* Reading again from the cursor, with nothing in hand.
LEMMA QueryHolds ==
  ASSUME CursorInv, NEW c \in table \cup {0}, SentUpTo(c), NEW n
  PROVE  Holds(Forwarder("query", c, {}, n))
BY DEF Holds, Forwarder

LEMMA CursorNext == ASSUME InOrder, CursorInv, [SplunkNext]_splunkVars PROVE CursorInv'
<1> USE IdsAreNat
<1>1. CASE UNCHANGED splunkVars
  BY <1>1 DEF splunkVars, CursorInv, Holds, SentUpTo
<1>2. ASSUME NEW e \in Ids, Commit(e) PROVE CursorInv'
  <2>1. /\ e \notin table /\ table' = table \cup {e}
        /\ \A f \in Ids : f < e => f \in table
        /\ UNCHANGED <<last, sent, fwd>>
    BY <1>2 DEF Commit, InOrder
  <2>2. \A c \in table \cup {0} : c < e BY <2>1 DEF CursorInv
  <2>3. \A c \in table \cup {0} : SentUpTo(c) => SentUpTo(c)'
    BY <2>1, <2>2 DEF SentUpTo, CursorInv
  <2>4. ASSUME NEW i \in Forwarders PROVE Holds(fwd[i])'
    <3>1. Holds(fwd[i]) BY DEF CursorInv
    <3>2. SentUpTo(fwd[i].cursor)'
      <4>1. SentUpTo(fwd[i].cursor) /\ fwd[i].cursor \in table \cup {0} BY <3>1 DEF Holds
      <4> QED BY <4>1, <2>1, <2>2 DEF SentUpTo, CursorInv
    <3> QED BY <2>1, <2>2, <3>1, <3>2 DEF Holds, CursorInv
  <2>5. SentUpTo(last)' BY <2>1, <2>2 DEF SentUpTo, CursorInv
  <2> QED BY <2>1, <2>4, <2>5 DEF CursorInv
<1>3. ASSUME NEW i \in Forwarders, ReadCursor(i) PROVE CursorInv'
  <2>1. last \in table \cup {0} /\ SentUpTo(last) /\ SentUpTo(0)
    BY DEF CursorInv, SentUpTo
  <2>2. Holds(Forwarder("query", last, {}, 0)) BY <2>1, QueryHolds
  <2>3. Holds(Forwarder("query", 0, {}, 0)) BY <2>1, QueryHolds
  <2> QED BY <1>3, <2>2, <2>3, OwnStep DEF ReadCursor
<1>4. ASSUME NEW i \in Forwarders, Query(i) PROVE CursorInv'
  <2> DEFINE c == fwd[i].cursor
             rows == RawEventsSince(c)
             g == Forwarder("post", c, rows, fwd[i].errors)
  <2>1. c \in table \cup {0} /\ SentUpTo(c) /\ table \subseteq Ids BY DEF CursorInv, Holds
  <2>2. c \in Nat BY <2>1
  <2>3. rows \subseteq table /\ \A e \in table, f \in rows : e > c /\ e <= f => e \in rows
    BY <2>1, <2>2, BatchIsPrefix
  <2>4. CASE rows # {} /\ Become(i, g)
    <3>1. /\ g.cursor = c /\ g.batch = rows /\ g.pc = "post" BY DEF Forwarder
    <3> HIDE DEF g, rows, c
    <3>2. Holds(g) BY <2>1, <2>3, <2>4, <3>1 DEF Holds
    <3> QED BY <1>4, <2>4, <3>2, OwnStep DEF Query
  <2>5. CASE Become(i, Idle) BY <1>4, <2>5, OwnStep, IdleHolds DEF Query
  <2> QED BY <1>4, <2>4, <2>5 DEF Query
<1>5. ASSUME NEW i \in Forwarders, Post(i) PROVE CursorInv'
  <2> DEFINE h == fwd[i]
  <2>1. Holds(h) /\ h.pc = "post" BY <1>5 DEF CursorInv, Post
  <2>2. Holds(Failed(h))
    <3>1. Holds(Forwarder("query", h.cursor, {}, h.errors + 1))
      BY <2>1, QueryHolds DEF Holds
    <3> QED BY <3>1, IdleHolds DEF Failed
  <2>3. CASE Become(i, Failed(h)) /\ UNCHANGED sent
    BY <1>5, <2>2, <2>3, OwnStep DEF Post
  <2>4. ASSUME sent' = Received(h.batch) PROVE
        /\ sent' \in [Ids -> Nat]
        /\ \A e \in Ids : sent[e] > 0 => sent'[e] > 0
        /\ \A e \in h.batch : sent'[e] > 0
    BY <2>1, <2>4 DEF Received, Holds, CursorInv
  <2>5. ASSUME sent' = Received(h.batch), NEW g, Become(i, g),
               g.pc = "advance" => \A e \in g.batch : sent'[e] > 0,
               \E k : Holds(k) /\ Carries(g, k)
        PROVE  CursorInv'
    <3> HIDE DEF h
    <3>1. \A j \in Forwarders : fwd'[j] = IF j = i THEN g ELSE fwd[j]
      BY <2>5 DEF CursorInv, Become
    <3>2. UNCHANGED <<table, last>> BY <1>5 DEF Post
    <3>3. \A e \in table : sent[e] > 0 => sent'[e] > 0 BY <2>4, <2>5 DEF CursorInv
    <3>4. ASSUME NEW j \in Forwarders PROVE Holds(fwd[j])'
      <4>1. CASE j # i
        <5>1. fwd'[j] = fwd[j] /\ Holds(fwd[j]) BY <3>1, <4>1 DEF CursorInv
        <5> QED BY <5>1, <3>2, <3>3 DEF Holds, SentUpTo
      <4>2. CASE j = i
        <5>1. fwd'[j] = g BY <3>1, <4>2
        <5>2. PICK k : Holds(k) /\ Carries(g, k) BY <2>5
        <5> QED BY <2>5, <5>1, <5>2, <3>2, <3>3 DEF Holds, SentUpTo, Carries
      <4> QED BY <4>1, <4>2
    <3>5. SentUpTo(last)' BY <3>2, <3>3 DEF SentUpTo, CursorInv
    <3>6. DOMAIN fwd' = Forwarders BY <2>5 DEF CursorInv, Become
    <3> QED BY <2>4, <2>5, <3>2, <3>4, <3>5, <3>6 DEF CursorInv
  <2>6. CASE sent' = Received(h.batch) /\ Become(i, Failed(h))
    <3>1. Failed(h).pc # "advance" BY DEF Failed, Forwarder, Idle
    <3>2. Carries(Failed(h), Failed(h)) BY DEF Carries
    <3> QED BY <2>2, <2>5, <2>6, <3>1, <3>2
  <2>7. CASE sent' = Received(h.batch) /\ Become(i, Accepted(h))
    <3>1. Carries(Accepted(h), h) /\ Accepted(h).batch = h.batch
      BY <2>1 DEF Carries, Accepted, Forwarder
    <3>2. \A e \in Accepted(h).batch : sent'[e] > 0 BY <2>4, <2>7, <3>1
    <3> QED BY <2>1, <2>5, <2>7, <3>1, <3>2
  <2> QED BY <1>5, <2>3, <2>6, <2>7 DEF Post
<1>6. ASSUME NEW i \in Forwarders, Advance(i) PROVE CursorInv'
  <2> DEFINE h == fwd[i]
             m == Max(h.batch)
  <2>1. Holds(h) /\ h.pc = "advance" /\ UNCHANGED <<table, sent>>
    BY <1>6 DEF CursorInv, Advance
  <2>2. h.batch \subseteq table /\ h.batch # {} /\ table \subseteq Ids
    BY <2>1 DEF Holds, CursorInv
  <2>3. m \in h.batch /\ \A y \in h.batch : m >= y BY <2>2, MaxOfBatch
  <2>4. SentUpTo(m)
    <3> SUFFICES ASSUME NEW e \in table, e <= m PROVE sent[e] > 0 BY DEF SentUpTo
    <3>1. CASE e <= h.cursor BY <2>1, <3>1 DEF Holds, SentUpTo
    <3>2. CASE e > h.cursor
      <4>1. e \in h.batch BY <2>1, <2>3, <3>2 DEF Holds
      <4> QED BY <2>1, <4>1 DEF Holds
    <3>3. e \in Nat /\ h.cursor \in Nat BY <2>1, <2>2 DEF Holds
    <3> QED BY <3>1, <3>2, <3>3
  <2>5. CASE Become(i, Idle) /\ UNCHANGED last
    BY <2>1, <2>5, OwnStep, IdleHolds
  <2>6. ASSUME NEW g, Holds(g), Become(i, g), last' = m PROVE CursorInv'
    <3>1. \A j \in Forwarders : fwd'[j] = IF j = i THEN g ELSE fwd[j]
      BY <2>6 DEF CursorInv, Become
    <3>2. \A j \in Forwarders : Holds(fwd'[j]) BY <2>6, <3>1 DEF CursorInv
    <3>3. \A j \in Forwarders : Holds(fwd[j])' BY <2>1, <3>2 DEF Holds, SentUpTo
    <3>4. DOMAIN fwd' = Forwarders BY <2>6 DEF CursorInv, Become
    <3>5. SentUpTo(last)' BY <2>1, <2>4, <2>6 DEF SentUpTo
    <3>6. last' \in table BY <2>2, <2>3, <2>6
    <3> QED BY <2>1, <3>3, <3>4, <3>5, <3>6 DEF CursorInv
  <2>7. Holds(Forwarder("query", m, {}, 0)) BY <2>2, <2>3, <2>4, QueryHolds
  <2> QED BY <1>6, <2>5, <2>6, <2>7, IdleHolds DEF Advance
<1>7. ASSUME NEW i \in Forwarders, CrashForwarder(i) PROVE CursorInv'
  BY <1>7, OwnStep, IdleHolds DEF CrashForwarder
<1> QED BY <1>1, <1>2, <1>3, <1>4, <1>5, <1>6, <1>7 DEF SplunkNext

\* The splunk_cursor row never passes a row that Splunk has not received: a
\* failed read, query, post or update, a lost answer, a crash and a second
\* forwarder included.
THEOREM CursorSafe == SplunkSpec => []CursorBehindSent
<1>1. CASE InOrder
  <2>1. CursorInv => CursorBehindSent BY DEF CursorInv, SentUpTo, CursorBehindSent
  <2> QED BY <1>1, <2>1, CursorInit, CursorNext, PTL DEF SplunkSpec
<1>2. CASE ~InOrder
  <2>1. CursorBehindSent BY <1>2 DEF CursorBehindSent
  <2> QED BY <2>1, PTL
<1> QED BY <1>1, <1>2

-----------------------------------------------------------------------------
(***************************************************************************)
(* How often a row is sent.  A lone forwarder has spent a failure on every *)
(* sending but one of each row; and of the rows that it may still send     *)
(* without a failure, those beyond the cursor and beyond its own, on every *)
(* sending.                                                                *)
(***************************************************************************)
Single == \A i, j \in Forwarders : i = j

BatchTyped(g) ==
  /\ g.pc \in {"idle", "query", "post", "advance"}
  /\ g.cursor \in table \cup {0} /\ g.batch \subseteq table /\ g.errors \in 0..2
  /\ g.pc \in {"post", "advance"} => g.batch # {}
  /\ \A e \in g.batch : e > g.cursor

Paid(g) ==
  \A e \in Ids :
    /\ sent[e] <= 1 + splunkFaults
    /\ ~(g.pc = "advance" /\ e \in g.batch) =>
         /\ e > last => sent[e] <= splunkFaults
         /\ g.pc # "idle" /\ e > g.cursor => sent[e] <= splunkFaults

Tables ==
  /\ table \subseteq Ids /\ last \in table \cup {0} /\ sent \in [Ids -> Nat] /\ splunkFaults \in Nat
  /\ DOMAIN fwd = Forwarders

SentInv ==
  /\ Tables
  /\ \A i \in Forwarders : BatchTyped(fwd[i])
  /\ Single => \A i \in Forwarders : Paid(fwd[i])

LEMMA SentInit == SplunkInit => SentInv
BY IdsAreNat DEF SplunkInit, SentInv, Tables, BatchTyped, Paid, Idle, Forwarder

\* A step of forwarder i that leaves it with record g.
LEMMA SentOwn ==
  ASSUME SentInv, NEW i \in Forwarders, NEW g, Become(i, g), UNCHANGED table,
         last' \in table \cup {0}, sent' \in [Ids -> Nat], splunkFaults' \in Nat,
         BatchTyped(g), Single => Paid(g)'
  PROVE  SentInv'
<1>1. \A j \in Forwarders : fwd'[j] = IF j = i THEN g ELSE fwd[j]
  BY DEF SentInv, Tables, Become
<1>2. Tables' BY DEF SentInv, Tables, Become
<1>3. ASSUME NEW j \in Forwarders PROVE BatchTyped(fwd[j])'
  <2>1. BatchTyped(fwd'[j]) BY <1>1 DEF SentInv
  <2> QED BY <2>1 DEF BatchTyped
<1>4. ASSUME Single, NEW j \in Forwarders PROVE Paid(fwd[j])'
  <2>1. fwd'[j] = g /\ Paid(g)' BY <1>1, <1>4 DEF Single
  <2> QED BY <2>1 DEF Paid
<1> QED BY <1>2, <1>3, <1>4 DEF SentInv

\* A failure pays for every row that may be sent again.
LEMMA FaultPays ==
  ASSUME SentInv, NEW i \in Forwarders, NEW g, Single, Paid(fwd[i]),
         splunkFaults' = splunkFaults + 1, UNCHANGED sent
  PROVE  Paid(g)'
BY DEF SentInv, Tables, Paid

\* A forwarder that holds no batch is well typed wherever it reads from.
LEMMA EmptyTyped ==
  /\ BatchTyped(Idle)
  /\ \A c \in table \cup {0}, n \in 0..2 : BatchTyped(Forwarder("query", c, {}, n))
BY DEF BatchTyped, Idle, Forwarder

LEMMA SentNext == ASSUME SentInv, [SplunkNext]_splunkVars PROVE SentInv'
<1> USE IdsAreNat
<1>1. CASE UNCHANGED splunkVars
  BY <1>1 DEF splunkVars, SentInv, Tables, BatchTyped, Paid, Single
<1>2. ASSUME NEW e \in Ids, Commit(e) PROVE SentInv'
  BY <1>2 DEF Commit, SentInv, Tables, BatchTyped, Paid, Single
<1>3. ASSUME NEW i \in Forwarders, ReadCursor(i) PROVE SentInv'
  <2>1. /\ UNCHANGED <<table, last, sent>> /\ Tables /\ fwd[i].pc = "idle"
        /\ Single => Paid(fwd[i])
    BY <1>3 DEF SentInv, ReadCursor
  <2>2. CASE Become(i, Forwarder("query", last, {}, 0)) /\ UNCHANGED splunkFaults
    <3>1. PICK g : g = Forwarder("query", last, {}, 0) OBVIOUS
    <3>2. BatchTyped(g)
      <4>1. last \in table \cup {0} /\ 0 \in 0..2 BY <2>1 DEF Tables
      <4> QED BY <3>1, <4>1, EmptyTyped, Zenon
    <3>3. g.cursor = last /\ g.pc = "query" BY <3>1 DEF Forwarder
    <3>4. Single => Paid(g)' BY <2>1, <2>2, <3>3 DEF Paid
    <3> QED BY <2>1, <2>2, <3>1, <3>2, <3>4, SentOwn DEF Tables
  <2>3. CASE SplunkFault("cursor") /\ Become(i, Forwarder("query", 0, {}, 0))
    <3>1. PICK g : g = Forwarder("query", 0, {}, 0) OBVIOUS
    <3>2. BatchTyped(g)
      <4>1. 0 \in table \cup {0} /\ 0 \in 0..2 OBVIOUS
      <4> QED BY <3>1, <4>1, EmptyTyped, Zenon
    <3>3. splunkFaults' = splunkFaults + 1 BY <2>3 DEF SplunkFault
    <3>4. Single => Paid(g)' BY <2>1, <3>3, FaultPays
    <3> QED BY <2>1, <2>3, <3>1, <3>2, <3>3, <3>4, SentOwn DEF Tables
  <2> QED BY <1>3, <2>2, <2>3 DEF ReadCursor
<1>4. ASSUME NEW i \in Forwarders, Query(i) PROVE SentInv'
  <2> DEFINE h == fwd[i]
  <2>1. /\ BatchTyped(h) /\ h.pc = "query" /\ UNCHANGED <<table, last, sent>> /\ Tables
        /\ Single => Paid(h)
    BY <1>4 DEF SentInv, Query
  <2>2. BatchTyped(Idle) BY EmptyTyped
  <2>3. CASE Become(i, Idle) /\ UNCHANGED splunkFaults
    <3>1. Single => Paid(Idle)' BY <2>1, <2>3 DEF Paid, Idle, Forwarder
    <3> QED BY <2>1, <2>2, <2>3, <3>1, SentOwn DEF Tables
  <2>4. CASE SplunkFault("query") /\ Become(i, Idle)
    <3>1. Single => Paid(Idle)' BY <2>1, <2>4, FaultPays DEF SplunkFault
    <3> QED BY <2>1, <2>2, <2>4, <3>1, SentOwn DEF Tables, SplunkFault
  <2>5. ASSUME NEW rows, rows = RawEventsSince(h.cursor), rows # {}, UNCHANGED splunkFaults,
               Become(i, Forwarder("post", h.cursor, rows, h.errors))
        PROVE  SentInv'
    <3>1. PICK g : g = Forwarder("post", h.cursor, rows, h.errors) OBVIOUS
    <3>2. rows \subseteq table /\ \A e \in rows : e > h.cursor BY <2>5 DEF RawEventsSince
    <3>3. g.pc = "post" /\ g.cursor = h.cursor /\ g.batch = rows /\ g.errors = h.errors
      BY <3>1 DEF Forwarder
    <3>4. BatchTyped(g) BY <2>1, <2>5, <3>2, <3>3 DEF BatchTyped
    <3>5. Single => Paid(g)' BY <2>1, <2>5, <3>3 DEF Paid
    <3> QED BY <2>1, <2>5, <3>1, <3>4, <3>5, SentOwn DEF Tables
  <2> QED BY <1>4, <2>3, <2>4, <2>5 DEF Query
<1>5. ASSUME NEW i \in Forwarders, Post(i) PROVE SentInv'
  <2> DEFINE h == fwd[i]
  <2>1. /\ BatchTyped(h) /\ h.pc = "post" /\ UNCHANGED <<table, last>> /\ Tables
        /\ Single => Paid(h)
    BY <1>5 DEF SentInv, Post
  <2>2. BatchTyped(Failed(h))
    <3>1. CASE h.errors >= 2 BY <3>1, EmptyTyped, Zenon DEF Failed
    <3>2. CASE ~(h.errors >= 2)
      <4>1. h.errors + 1 \in 0..2 BY <2>1, <3>2 DEF BatchTyped
      <4>2. h.cursor \in table \cup {0} BY <2>1 DEF BatchTyped
      <4> HIDE DEF h
      <4> QED BY <3>2, <4>1, <4>2, EmptyTyped, Zenon DEF Failed
    <3> QED BY <3>1, <3>2
  <2>3. PICK g : g = Failed(h) OBVIOUS
  <2>4. CASE SplunkFault("post") /\ Become(i, g) /\ UNCHANGED sent
    <3>1. Single => Paid(g)' BY <2>1, <2>4, FaultPays DEF SplunkFault
    <3> QED BY <2>1, <2>2, <2>3, <2>4, <3>1, SentOwn DEF Tables, SplunkFault
  <2>5. ASSUME sent' = Received(h.batch)
        PROVE  /\ sent' \in [Ids -> Nat]
               /\ \A e \in Ids : sent'[e] = IF e \in h.batch THEN sent[e] + 1 ELSE sent[e]
    BY <2>1, <2>5 DEF Received, Tables
  <2>6. Single => \A e \in Ids : /\ sent[e] \in Nat /\ splunkFaults \in Nat /\ sent[e] <= 1 + splunkFaults
                                 /\ e \in h.batch => sent[e] <= splunkFaults
    BY <2>1 DEF BatchTyped, Paid, Tables
  <2>7. CASE SplunkFault("ack") /\ Become(i, g) /\ sent' = Received(h.batch)
    <3>1. Single => Paid(g)' BY <2>5, <2>6, <2>7 DEF SplunkFault, Paid
    <3> QED BY <2>1, <2>2, <2>3, <2>5, <2>7, <3>1, SentOwn DEF Tables, SplunkFault
  <2>8. CASE sent' = Received(h.batch) /\ Become(i, Accepted(h)) /\ UNCHANGED splunkFaults
    <3>1. PICK k : k = Accepted(h) OBVIOUS
    <3>2. k.pc = "advance" /\ k.cursor = h.cursor /\ k.batch = h.batch /\ k.errors = 0
      BY <3>1 DEF Accepted, Forwarder
    <3>3. BatchTyped(k) BY <2>1, <3>2 DEF BatchTyped
    <3>4. Single => Paid(k)' BY <2>1, <2>5, <2>6, <2>8, <3>2 DEF Paid
    <3> QED BY <2>1, <2>5, <2>8, <3>1, <3>3, <3>4, SentOwn, Zenon DEF Tables
  <2> QED BY <1>5, <2>3, <2>4, <2>7, <2>8 DEF Post
<1>6. ASSUME NEW i \in Forwarders, Advance(i) PROVE SentInv'
  <2> DEFINE h == fwd[i]
             m == Max(h.batch)
  <2>1. /\ BatchTyped(h) /\ h.pc = "advance" /\ UNCHANGED <<table, sent>> /\ Tables
        /\ Single => Paid(h)
    BY <1>6 DEF SentInv, Advance
  <2>2. h.batch \subseteq Ids /\ h.batch # {} BY <2>1 DEF BatchTyped, Tables
  <2>3. m \in h.batch /\ \A y \in h.batch : m >= y BY <2>2, MaxOfBatch
  <2>4. CASE SplunkFault("advance") /\ Become(i, Idle) /\ UNCHANGED last
    <3>1. BatchTyped(Idle) BY DEF BatchTyped, Idle, Forwarder
    <3>2. Single => Paid(Idle)' BY <2>1, <2>4, FaultPays DEF SplunkFault
    <3> QED BY <2>1, <2>4, <3>1, <3>2, SentOwn DEF Tables, SplunkFault
  <2>5. ASSUME last' = m, UNCHANGED splunkFaults, NEW g, Become(i, g), BatchTyped(g),
               g.pc = "idle" \/ (g.pc = "query" /\ g.cursor = m)
        PROVE  SentInv'
    <3>1. m \in table /\ m > h.cursor /\ h.cursor \in Nat BY <2>1, <2>2, <2>3 DEF BatchTyped, Tables
    <3>2. ASSUME Single PROVE Paid(g)'
      <4>1. ASSUME NEW e \in Ids, e > m PROVE sent[e] <= splunkFaults
        <5>1. e \notin h.batch BY <2>2, <2>3, <4>1
        <5>2. e > h.cursor BY <2>2, <2>3, <3>1, <4>1
        <5> QED BY <2>1, <3>2, <5>1, <5>2 DEF Paid
      <4>2. \A e \in Ids : sent[e] <= 1 + splunkFaults BY <2>1, <3>2 DEF Paid
      <4> HIDE DEF m
      <4> QED BY <2>1, <2>5, <4>1, <4>2 DEF Paid
    <3> QED BY <2>1, <2>5, <3>1, <3>2, SentOwn DEF Tables
  <2>6. /\ BatchTyped(Idle) /\ Idle.pc = "idle"
        /\ BatchTyped(Forwarder("query", m, {}, 0)) /\ Forwarder("query", m, {}, 0).pc = "query"
        /\ Forwarder("query", m, {}, 0).cursor = m
    <3>1. m \in table BY <2>1, <2>3 DEF BatchTyped
    <3> HIDE DEF m
    <3> QED BY <3>1 DEF BatchTyped, Idle, Forwarder
  <2>7. \/ SplunkFault("advance") /\ Become(i, Idle) /\ UNCHANGED last
        \/ /\ last' = m /\ UNCHANGED splunkFaults
           /\ Become(i, IF Cardinality(h.batch) < BatchSize THEN Idle ELSE Forwarder("query", m, {}, 0))
    BY <1>6, Zenon DEF Advance
  <2> HIDE DEF m
  <2>8. CASE last' = m /\ UNCHANGED splunkFaults /\ Become(i, Idle)
    BY <2>5, <2>6, <2>8, Zenon
  <2>9. CASE last' = m /\ UNCHANGED splunkFaults /\ Become(i, Forwarder("query", m, {}, 0))
    BY <2>5, <2>6, <2>9, Zenon
  <2> QED BY <2>4, <2>7, <2>8, <2>9
<1>7. ASSUME NEW i \in Forwarders, CrashForwarder(i) PROVE SentInv'
  <2>1. UNCHANGED <<table, last, sent>> /\ splunkFaults' = splunkFaults + 1 /\ Become(i, Idle)
    BY <1>7 DEF CrashForwarder, SplunkFault
  <2>2. Tables /\ (Single => Paid(fwd[i])) BY DEF SentInv
  <2>3. Single => Paid(Idle)' BY <2>1, <2>2, FaultPays
  <2> QED BY <2>1, <2>2, <2>3, EmptyTyped, SentOwn DEF Tables
<1> QED BY <1>1, <1>2, <1>3, <1>4, <1>5, <1>6, <1>7 DEF SplunkNext

\* A lone forwarder sends a row at most once more than there were failures,
\* also when a failed read takes it back to the start of the log.
THEOREM SentOncePerFault == SplunkSpec => []SentPerFault
<1>1. SentInv => SentPerFault
  <2> SUFFICES ASSUME SentInv PROVE SentPerFault OBVIOUS
  <2>1. SplunkTypeOK BY DEF SentInv, Tables, BatchTyped, SplunkTypeOK
  <2>2. ASSUME Cardinality(Forwarders) = 1, NEW e \in Ids PROVE sent[e] <= 1 + splunkFaults
    <3>1. PICK i : Forwarders = {i} BY <2>2, FS_Singleton, SplunkAssumption, Zenon
    <3>2. Single /\ i \in Forwarders BY <3>1 DEF Single
    <3> QED BY <3>2 DEF SentInv, Paid
  <2> QED BY <2>1, <2>2 DEF SentPerFault
<1> QED BY <1>1, SentInit, SentNext, PTL DEF SplunkSpec

=============================================================================
