------------------------------- MODULE Ingest -------------------------------
(***************************************************************************)
(* Receipt-protected event ingestion: POST /api/v1/events and              *)
(* /api/v1/events/batch, APIHandler.processEvents and the table            *)
(* ingestion_receipts, with the retrying senders the contract describes.   *)
(*                                                                         *)
(* A request validates its batch, then runs one PostgreSQL transaction     *)
(* that, event by event, claims the receipt of the event's identity and    *)
(* processes the event.  Both steps take row locks (the receipt's key, the *)
(* inventory row of the resource) that are held to the end of the          *)
(* transaction, so concurrent requests wait for one another and may        *)
(* deadlock, which PostgreSQL resolves by aborting one of them.            *)
(***************************************************************************)
EXTENDS Integers, Sequences

CONSTANTS
  Clients,     \* senders, each with one batch to deliver
  Requests,    \* HTTP requests being served at a time
  Events,      \* distinct event contents, that is, digests
  Keys,        \* event identities (source, id)
  Key,         \* Events -> Keys
  Resource,    \* Events -> the inventory row the event writes, or None
  Time,        \* Events -> the event's timestamp
  Batch,       \* Clients -> Seq(Events), not empty
  Qualities,   \* the possible functions Events -> {"good", "malformed", "poison"}
  MaxAge, MaxFuture, \* the accepted distance of Time from the clock
  MaxClock,    \* bound on the clock
  Faults,      \* which failures may happen
  MaxFaults,   \* bound on the number of failures
  None

FaultKinds == {"error", "lostack", "timeout", "crash"}

ASSUME IngestAssumption ==
  /\ Key \in [Events -> Keys] /\ None \notin Events
  /\ Time \in [Events -> Int]
  /\ Batch \in [Clients -> Seq(Events)] /\ \A c \in Clients : Batch[c] # <<>>
  /\ Qualities \subseteq [Events -> {"good", "malformed", "poison"}]
  /\ MaxAge \in Nat /\ MaxFuture \in Nat /\ MaxClock \in Nat
  /\ Faults \subseteq FaultKinds /\ MaxFaults \in Nat

VARIABLES
  receipts,    \* committed ingestion_receipts: key -> digest, or None
  effects,     \* committed effects (raw event, inventory, metering) per event
  reqs,        \* the requests
  clients,     \* what each sender knows: "send", "wait", "acked" or "refused"
  quality,     \* what the code makes of each event, which never changes: a
               \* malformed one fails the checks that are not about its age, a
               \* poisonous one passes them all but processEvent rejects it
  clock,
  faults

vars == <<receipts, effects, reqs, clients, quality, clock, faults>>

Members(c) == {Batch[c][i] : i \in 1..Len(Batch[c])}

\* No request: nothing claimed, no transaction.
Free == [pc |-> "free", client |-> None, attached |-> FALSE, next |-> 0,
         queued |-> FALSE, claimed |-> {}, done |-> {}]

Init ==
  /\ receipts = [k \in Keys |-> None]
  /\ effects = [e \in Events |-> 0]
  /\ reqs = [r \in Requests |-> Free]
  /\ clients = [c \in Clients |-> "send"]
  /\ quality \in Qualities
  /\ clock = 0 /\ faults = 0

\* A failure of one of the kinds this instance allows, within its budget.
Fault(kind) == kind \in Faults /\ faults < MaxFaults /\ faults' = faults + 1

(***************************************************************************)
(* validateCloudEvent: everything but the age is fixed with the event.     *)
(***************************************************************************)
Valid(e) ==
  /\ quality[e] # "malformed"
  /\ clock - Time[e] <= MaxAge
  /\ Time[e] - clock <= MaxFuture

(***************************************************************************)
(* A sender posts its batch, for the first time or again, unchanged.       *)
(***************************************************************************)
Post(c, r) ==
  /\ clients[c] = "send" /\ reqs[r].pc = "free"
  /\ IF \A e \in Members(c) : Valid(e)
     THEN /\ clients' = [clients EXCEPT ![c] = "wait"]
          /\ reqs' = [reqs EXCEPT ![r] = [Free EXCEPT !.pc = "claim", !.client = c,
                                            !.attached = TRUE, !.next = 1]]
     ELSE clients' = [clients EXCEPT ![c] = "refused"] /\ UNCHANGED reqs
  /\ UNCHANGED <<receipts, effects, quality, clock, faults>>

\* The request ends; its sender, if it still listens, gets the answer.
Answer(r, verdict) ==
  /\ reqs' = [reqs EXCEPT ![r] = Free]
  /\ clients' = IF reqs[r].attached THEN [clients EXCEPT ![reqs[r].client] = verdict]
                ELSE clients

\* The effects of the events in D and the receipts of the events in C.
Store(C, D) ==
  /\ receipts' = [k \in Keys |-> IF \E e \in C : Key[e] = k THEN CHOOSE e \in C : Key[e] = k
                                 ELSE receipts[k]]
  /\ effects' = [e \in Events |-> effects[e] + (IF e \in D THEN 1 ELSE 0)]

\* Bug: the receipts are written outside the transaction and outlive it.
RollbackKeepsReceipts(r, verdict) == Answer(r, verdict) /\ Store(reqs[r].claimed, {})

\* Bug: the events before the failing one stay.
RollbackKeepsPrefix(r, verdict) == Answer(r, verdict) /\ Store(reqs[r].done, reqs[r].done)

\* The transaction rolls back: nothing of it is ever seen.
Rollback(r, verdict) == Answer(r, verdict) /\ UNCHANGED <<receipts, effects>>

-----------------------------------------------------------------------------
(***************************************************************************)
(* Locks.  A claim waits for a transaction that inserted the same key, an  *)
(* inventory write for one that wrote the same row.                        *)
(***************************************************************************)
Current(r) == Batch[reqs[r].client][reqs[r].next]

Held(r) == {<<"key", Key[e]>> : e \in reqs[r].claimed}
             \cup {<<"row", Resource[e]>> : e \in {f \in reqs[r].done : Resource[f] # None}}

\* The locks that the request's next statement takes: at most one.
Needs(r) ==
  CASE reqs[r].pc = "claim"   -> {<<"key", Key[Current(r)]>>} \ Held(r)
    [] reqs[r].pc = "process" -> {<<"row", Resource[Current(r)]>>} \ (Held(r) \cup {<<"row", None>>})
    [] OTHER                  -> {}

\* q holds what r needs, or already waits for it.
Blocks(q, r) ==
  /\ q # r
  /\ \/ Needs(r) \cap Held(q) # {}
     \/ reqs[q].queued /\ ~reqs[r].queued /\ Needs(r) \cap Needs(q) # {}

Blocked(r) == \E q \in Requests : Blocks(q, r)

\* The deadlock detector: r has been waiting, in a cycle of waiting transactions.
Deadlocked(r) ==
  \E S \in SUBSET {q \in Requests : reqs[q].queued} :
    r \in S /\ {q \in Requests : \E s \in S : Blocks(q, s)} = S

\* A transaction joins the queue of a lock that another one holds.
Wait(r) ==
  /\ ~reqs[r].queued /\ \E q \in Requests \ {r} : Needs(r) \cap Held(q) # {}
  /\ reqs' = [reqs EXCEPT ![r].queued = TRUE]
  /\ UNCHANGED <<receipts, effects, clients, quality, clock, faults>>

(***************************************************************************)
(* ClaimIngestionReceipt.  A transaction sees the committed receipts and   *)
(* the ones it inserted itself.                                            *)
(***************************************************************************)
IsNew(r) ==
  /\ receipts[Key[Current(r)]] = None
  /\ \A f \in reqs[r].claimed : Key[f] # Key[Current(r)]

IsReplay(r) == receipts[Key[Current(r)]] = Current(r) \/ Current(r) \in reqs[r].claimed

Advance(q) ==
  [q EXCEPT !.next = q.next + 1, !.queued = FALSE,
            !.pc = IF q.next = Len(Batch[q.client]) THEN "commit" ELSE "claim"]

Claim(r) ==
  /\ reqs[r].pc = "claim" /\ ~Blocked(r)
  /\ \/ /\ IsNew(r)
        /\ reqs' = [reqs EXCEPT ![r] = [reqs[r] EXCEPT !.pc = "process", !.queued = FALSE,
                                                       !.claimed = @ \cup {Current(r)}]]
        /\ UNCHANGED <<receipts, effects, clients>>
     \/ /\ IsReplay(r)
        /\ reqs' = [reqs EXCEPT ![r] = Advance(@)]
        /\ UNCHANGED <<receipts, effects, clients>>
     \/ ~IsNew(r) /\ ~IsReplay(r) /\ Rollback(r, "refused")
  /\ UNCHANGED <<quality, clock, faults>>

(***************************************************************************)
(* processEvent: the raw event, then what the event's type calls for.      *)
(***************************************************************************)
Process(r) ==
  /\ reqs[r].pc = "process" /\ ~Blocked(r)
  /\ IF quality[Current(r)] = "poison"
     THEN Rollback(r, "send")
     ELSE /\ reqs' = [reqs EXCEPT ![r] = Advance([reqs[r] EXCEPT !.done = @ \cup {Current(r)}])]
          /\ UNCHANGED <<receipts, effects, clients>>
  /\ UNCHANGED <<quality, clock, faults>>

(***************************************************************************)
(* The commit makes the whole batch visible.  Its answer may be lost.      *)
(***************************************************************************)
Commit(r) ==
  /\ reqs[r].pc = "commit"
  /\ Store(reqs[r].claimed, reqs[r].done)
  /\ \/ Answer(r, "acked") /\ UNCHANGED faults
     \/ Answer(r, "send") /\ Fault("lostack")
  /\ UNCHANGED <<quality, clock>>

\* Bug: the statement is tried again in the same transaction, which keeps its locks.
AbortStatement(r) ==
  /\ Deadlocked(r)
  /\ reqs' = [reqs EXCEPT ![r].queued = FALSE]
  /\ UNCHANGED <<receipts, effects, clients, quality, clock, faults>>

\* One transaction of a deadlock is rolled back.
Abort(r) ==
  /\ Deadlocked(r) /\ Rollback(r, "send")
  /\ UNCHANGED <<quality, clock, faults>>

\* A statement or the commit fails.
Fail(r) ==
  /\ reqs[r].pc # "free" /\ Fault("error") /\ Rollback(r, "send")
  /\ UNCHANGED <<quality, clock>>

\* The sender gives up waiting; the server may still finish the request.
Timeout(r) ==
  /\ reqs[r].attached /\ Fault("timeout")
  /\ reqs' = [reqs EXCEPT ![r].attached = FALSE]
  /\ clients' = [clients EXCEPT ![reqs[r].client] = "send"]
  /\ UNCHANGED <<receipts, effects, quality, clock>>

\* The process dies and is restarted: every open transaction rolls back.
Crash ==
  /\ Fault("crash")
  /\ reqs' = [r \in Requests |-> Free]
  /\ clients' = [c \in Clients |-> IF clients[c] = "wait" THEN "send" ELSE clients[c]]
  /\ UNCHANGED <<receipts, effects, quality, clock>>

Tick ==
  /\ clock < MaxClock /\ clock' = clock + 1
  /\ UNCHANGED <<receipts, effects, reqs, clients, quality, faults>>

Serve(r) == Wait(r) \/ Claim(r) \/ Process(r) \/ Commit(r) \/ Abort(r)

Next ==
  \/ \E c \in Clients, r \in Requests : Post(c, r)
  \/ \E r \in Requests : Serve(r) \/ Fail(r) \/ Timeout(r)
  \/ Crash \/ Tick

Spec == Init /\ [][Next]_vars

(***************************************************************************)
(* Requests are served to their end, a transaction waiting for a lock gets *)
(* it when it keeps becoming free, deadlocks are broken, and a sender      *)
(* without a final answer posts again (the contract's retry rule).         *)
(***************************************************************************)
Fairness ==
  /\ \A r \in Requests : SF_vars(Wait(r) \/ Claim(r) \/ Process(r) \/ Commit(r))
  /\ WF_vars(\E r \in Requests : Abort(r))
  /\ \A c \in Clients : SF_vars(\E r \in Requests : Post(c, r))

FairSpec == Spec /\ Fairness

-----------------------------------------------------------------------------
RequestRows ==
  [pc: {"free", "claim", "process", "commit"}, client: Clients \cup {None}, attached: BOOLEAN,
   next: Nat, queued: BOOLEAN, claimed: SUBSET Events, done: SUBSET Events]

(***************************************************************************)
(* Types, and that a sender waits exactly while one request will answer it *)
(* (the handler's goroutine of its connection).                            *)
(***************************************************************************)
TypeOK ==
  /\ receipts \in [Keys -> Events \cup {None}]
  /\ effects \in [Events -> Nat]
  /\ reqs \in [Requests -> RequestRows]
  /\ clients \in [Clients -> {"send", "wait", "acked", "refused"}]
  /\ \A c \in Clients :
       clients[c] = "wait" <=> \E r \in Requests : reqs[r].attached /\ reqs[r].client = c
  /\ quality \in Qualities /\ clock \in Nat /\ faults \in Nat

(***************************************************************************)
(* The receipts are exactly the effects: an event has had its effects once *)
(* when the receipt of its identity carries its digest, and never          *)
(* otherwise, however often and concurrently it was delivered.             *)
(***************************************************************************)
ReceiptsMatchEffects ==
  /\ TypeOK
  /\ \A e \in Events : effects[e] = IF receipts[Key[e]] = e THEN 1 ELSE 0

(***************************************************************************)
(* The transactions, locks and retries implement the event log.            *)
(***************************************************************************)
Log == INSTANCE EventLog WITH
         count <- effects,
         expired <- [c \in Clients |-> \E e \in Members(c) : clock - Time[e] > MaxAge],
         verdict <- [c \in Clients |-> IF clients[c] \in {"acked", "refused"} THEN clients[c]
                                       ELSE "pending"]

ImplementsEventLog == Log!LogSpec

(***************************************************************************)
(* Every sender gets a final answer: no wait, deadlock or failure leaves   *)
(* it retrying for ever, unless its batch has an event that processEvent   *)
(* rejects, which is answered 500 each time.                               *)
(***************************************************************************)
EveryoneAnswered ==
  \A c \in Clients : <>(\/ clients[c] \in {"acked", "refused"}
                        \/ \E e \in Members(c) : quality[e] = "poison")
=============================================================================
