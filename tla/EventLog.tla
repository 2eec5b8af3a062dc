------------------------------ MODULE EventLog ------------------------------
(***************************************************************************)
(* What batch ingestion promises its senders: each event takes effect at   *)
(* most once, an identity stands for one content, a batch takes effect as  *)
(* a whole, an acknowledged batch has taken effect and a refused one has   *)
(* not, unless the refused delivery came too late to be looked at.         *)
(* Transactions, locks, retries and crashes are not visible here.          *)
(***************************************************************************)
EXTENDS Integers, Sequences

CONSTANTS Clients, Events, Key, Batch

VARIABLES
  count,       \* how often each event has taken effect
  expired,     \* whose batch is older than is accepted (an input of the log)
  verdict      \* what each sender has been told: "pending", "acked", "refused"

Content(c) == {Batch[c][i] : i \in 1..Len(Batch[c])}

Logged(c) == \A e \in Content(c) : count[e] > 0

\* The batch contradicts neither itself nor what has taken effect.
Admissible(c) ==
  \A e \in Content(c), f \in Events :
     Key[e] = Key[f] /\ (f \in Content(c) \/ count[f] > 0) => e = f

LogInit ==
  /\ count = [e \in Events |-> 0]
  /\ verdict = [c \in Clients |-> "pending"]

TakeEffect(c) ==
  count' = [e \in Events |-> IF e \in Content(c) THEN 1 ELSE count[e]]

Tell(c, answer) == verdict[c] = "pending" /\ verdict' = [verdict EXCEPT ![c] = answer]

Deliver(c) ==
  /\ Admissible(c) /\ TakeEffect(c)
  /\ Tell(c, "acked") \/ UNCHANGED verdict

Refuse(c) == (expired[c] \/ ~Logged(c)) /\ Tell(c, "refused") /\ UNCHANGED count

LogNext == \E c \in Clients : Deliver(c) \/ Refuse(c)

LogSpec == LogInit /\ [][LogNext]_<<count, verdict>>
=============================================================================
