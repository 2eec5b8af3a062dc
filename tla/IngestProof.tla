----------------------------- MODULE IngestProof -----------------------------
(***************************************************************************)
(* Receipt-protected ingestion implements the event log, for any senders,  *)
(* batches, requests served at a time and failures.                        *)
(***************************************************************************)
EXTENDS Ingest, TLAPS

\* What validation has established of an event, and time does not undo.
Sound(e) == quality[e] # "malformed" /\ Time[e] - clock <= MaxFuture

Seen(e) == receipts[Key[e]] = e

(***************************************************************************)
(* A request that is being served.  It holds the receipts of the events it *)
(* claimed, which nobody has committed, and every event before next is     *)
(* claimed or was found committed.                                         *)
(***************************************************************************)
Served(q) ==
  /\ q.client \in Clients /\ q.next \in Nat \ {0}
  /\ q.pc # "commit" => q.next <= Len(Batch[q.client])
  /\ q.pc = "commit" => q.next = Len(Batch[q.client]) + 1
  /\ q.claimed \subseteq Members(q.client) /\ q.done \subseteq q.claimed
  /\ q.pc # "process" => q.claimed = q.done
  /\ q.pc = "process" => q.claimed = q.done \cup {Batch[q.client][q.next]}
  /\ \A e \in q.claimed : receipts[Key[e]] = None
  /\ \A e, f \in q.claimed : Key[e] = Key[f] => e = f
  /\ \A j \in 1..(q.next - 1) : Batch[q.client][j] \in q.claimed \/ Seen(Batch[q.client][j])
  /\ \A e \in Members(q.client) : Sound(e)

Apart(p, q) == \A e \in p.claimed, f \in q.claimed : Key[e] # Key[f]

Listening(r, c) == reqs[r].attached /\ reqs[r].client = c

\* Requests, and the senders that wait for them.
SenderInv ==
  /\ reqs \in [Requests -> RequestRows]
  /\ clients \in [Clients -> {"send", "wait", "acked", "refused"}]
  /\ \A c \in Clients : clients[c] = "wait" <=> \E r \in Requests : Listening(r, c)
  /\ \A c \in Clients, r, s \in Requests : Listening(r, c) /\ Listening(s, c) => r = s
  /\ \A r \in Requests : reqs[r].pc = "free" => reqs[r] = Free

\* The tables.
TableInv ==
  /\ receipts \in [Keys -> Events \cup {None}] /\ effects \in [Events -> Nat]
  /\ quality \in Qualities /\ clock \in Nat /\ faults \in Nat
  /\ \A e \in Events : effects[e] = IF receipts[Key[e]] = e THEN 1 ELSE 0
  /\ \A e \in Events : Seen(e) => Sound(e)

\* The transactions, and the locks on receipts that keep them apart.
ClaimInv ==
  /\ \A r \in Requests : reqs[r].pc # "free" => Served(reqs[r])
  /\ \A r, s \in Requests : r # s => Apart(reqs[r], reqs[s])

IngestInv == SenderInv /\ TableInv /\ ClaimInv

-----------------------------------------------------------------------------
LEMMA Batches ==
  ASSUME NEW c \in Clients
  PROVE  /\ Len(Batch[c]) \in Nat \ {0}
         /\ \A j \in 1..Len(Batch[c]) : Batch[c][j] \in Events /\ Batch[c][j] \in Members(c)
         /\ Members(c) \subseteq Events
         /\ \A e \in Members(c) : \E j \in 1..Len(Batch[c]) : e = Batch[c][j]
<1>1. Batch[c] \in Seq(Events) /\ Batch[c] # <<>> BY IngestAssumption
<1>2. Len(Batch[c]) \in Nat /\ Len(Batch[c]) # 0 BY <1>1
<1>3. \A j \in 1..Len(Batch[c]) : Batch[c][j] \in Events BY <1>1
<1> QED BY <1>2, <1>3 DEF Members

LEMMA KeysOfEvents == \A e \in Events : Key[e] \in Keys /\ e # None /\ Time[e] \in Int
BY IngestAssumption

LEMMA FreeRow == Free \in RequestRows /\ Free.claimed = {} /\ Free.pc = "free" /\ ~Free.attached
BY DEF Free, RequestRows

\* What the transactions hold depends on these tables only.
LEMMA ClaimsUnchanged ==
  ASSUME ClaimInv, UNCHANGED <<receipts, reqs, quality, clock>> PROVE ClaimInv'
<1>1. ASSUME NEW s \in Requests, reqs'[s].pc # "free" PROVE Served(reqs[s])'
  <2>1. Served(reqs'[s]) BY <1>1 DEF ClaimInv
  <2> QED BY <2>1 DEF Served, Seen, Sound
<1>2. \A s, t \in Requests : s # t => Apart(reqs'[s], reqs'[t]) BY DEF ClaimInv
<1> QED BY <1>1, <1>2 DEF ClaimInv, Apart

LEMMA IngestInit == Init => IngestInv
<1> SUFFICES ASSUME Init PROVE IngestInv OBVIOUS
<1>1. \A r \in Requests : reqs[r] = Free BY DEF Init
<1>2. SenderInv BY <1>1, FreeRow DEF Init, SenderInv, Listening
<1>3. TableInv BY KeysOfEvents DEF Init, TableInv, Seen
<1>4. ClaimInv BY <1>1, FreeRow DEF ClaimInv, Apart
<1> QED BY <1>2, <1>3, <1>4 DEF IngestInv

(***************************************************************************)
(* A statement of request r that leaves the tables and the senders alone.  *)
(***************************************************************************)
LEMMA StatementKeeps ==
  ASSUME IngestInv, NEW r \in Requests, NEW q \in RequestRows,
         reqs' = [reqs EXCEPT ![r] = q], reqs[r].pc # "free",
         q.client = reqs[r].client, q.attached = reqs[r].attached, q.pc # "free", Served(q),
         \A s \in Requests \ {r} : Apart(q, reqs[s]),
         UNCHANGED <<receipts, effects, clients, quality, clock, faults>>
  PROVE  IngestInv'
<1>1. \A s \in Requests : reqs'[s] = IF s = r THEN q ELSE reqs[s]
  BY DEF IngestInv, SenderInv
<1>2. \A s \in Requests, c \in Clients : Listening(s, c)' <=> Listening(s, c)
  BY <1>1 DEF Listening
<1>3. SenderInv'
  <2>1. reqs' \in [Requests -> RequestRows] BY DEF IngestInv, SenderInv
  <2>2. \A s \in Requests : reqs'[s].pc = "free" => reqs'[s] = Free
    BY <1>1 DEF IngestInv, SenderInv
  <2> QED BY <1>2, <2>1, <2>2 DEF IngestInv, SenderInv
<1>4. TableInv' BY DEF IngestInv, TableInv, Seen, Sound
<1>5. ClaimInv'
  <2>1. ASSUME NEW s \in Requests, reqs'[s].pc # "free" PROVE Served(reqs[s])'
    <3>1. Served(reqs'[s]) BY <1>1, <2>1 DEF IngestInv, ClaimInv
    <3> QED BY <3>1 DEF Served, Seen, Sound
  <2>2. ASSUME NEW s \in Requests, NEW t \in Requests, s # t PROVE Apart(reqs'[s], reqs'[t])
    BY <1>1, <2>2 DEF IngestInv, ClaimInv, Apart
  <2> QED BY <2>1, <2>2 DEF ClaimInv, Apart
<1> QED BY <1>3, <1>4, <1>5 DEF IngestInv

(***************************************************************************)
(* The answer to a request, whatever becomes of the tables.                *)
(***************************************************************************)
LEMMA AnswerKeeps ==
  ASSUME IngestInv, NEW r \in Requests, NEW v \in {"send", "acked", "refused"},
         reqs[r].pc # "free", Answer(r, v)
  PROVE  /\ SenderInv' /\ \A s \in Requests : reqs'[s] = IF s = r THEN Free ELSE reqs[s]
         /\ reqs[r].attached => clients' = [clients EXCEPT ![reqs[r].client] = v]
         /\ reqs[r].attached => clients[reqs[r].client] = "wait"
         /\ ~reqs[r].attached => clients' = clients
<1>1. \A s \in Requests : reqs'[s] = IF s = r THEN Free ELSE reqs[s]
  BY DEF Answer, IngestInv, SenderInv
<1>2. reqs[r].client \in Clients BY DEF IngestInv, ClaimInv, Served
<1>3. reqs[r].attached => clients[reqs[r].client] = "wait"
  BY <1>2 DEF IngestInv, SenderInv, Listening
<1>4. reqs' \in [Requests -> RequestRows] BY FreeRow DEF Answer, IngestInv, SenderInv
<1>5. \A s \in Requests, c \in Clients : Listening(s, c)' <=> s # r /\ Listening(s, c)
  BY <1>1, FreeRow DEF Listening
<1>6. clients' \in [Clients -> {"send", "wait", "acked", "refused"}]
  BY <1>2 DEF Answer, IngestInv, SenderInv
<1>7. ASSUME NEW c \in Clients
      PROVE  clients'[c] = "wait" <=> \E s \in Requests : Listening(s, c)'
  <2>1. CASE Listening(r, c)
    <3>1. clients'[c] = v BY <2>1 DEF Answer, Listening, IngestInv, SenderInv
    <3>2. \A s \in Requests : ~Listening(s, c)' BY <1>5, <2>1 DEF IngestInv, SenderInv
    <3> QED BY <3>1, <3>2
  <2>2. CASE ~Listening(r, c)
    <3>1. clients'[c] = clients[c] BY <2>2 DEF Answer, Listening, IngestInv, SenderInv
    <3> QED BY <1>5, <2>2, <3>1 DEF IngestInv, SenderInv
  <2> QED BY <2>1, <2>2
<1>8. \A s \in Requests : reqs'[s].pc = "free" => reqs'[s] = Free
  BY <1>1 DEF IngestInv, SenderInv
<1>9. \A c \in Clients, s, t \in Requests : Listening(s, c)' /\ Listening(t, c)' => s = t
  BY <1>5 DEF IngestInv, SenderInv
<1>10. SenderInv' BY <1>4, <1>6, <1>7, <1>8, <1>9 DEF SenderInv
<1> QED BY <1>1, <1>3, <1>10 DEF Answer

LEMMA RollbackKeeps ==
  ASSUME IngestInv, NEW r \in Requests, NEW v \in {"send", "acked", "refused"},
         reqs[r].pc # "free", Rollback(r, v), UNCHANGED <<quality, clock>>, faults' \in Nat
  PROVE  IngestInv'
<1>1. /\ SenderInv' /\ \A s \in Requests : reqs'[s] = IF s = r THEN Free ELSE reqs[s]
      /\ UNCHANGED <<receipts, effects>>
  BY AnswerKeeps DEF Rollback
<1>2. TableInv' BY <1>1 DEF IngestInv, TableInv, Seen, Sound
<1>3. ASSUME NEW s \in Requests, reqs'[s].pc # "free" PROVE Served(reqs[s])'
  <2>1. Served(reqs'[s]) BY <1>1, <1>3, FreeRow DEF IngestInv, ClaimInv
  <2> QED BY <1>1, <2>1 DEF Served, Seen, Sound
<1>4. \A s, t \in Requests : s # t => Apart(reqs'[s], reqs'[t])
  BY <1>1, FreeRow DEF IngestInv, ClaimInv, Apart
<1> QED BY <1>1, <1>2, <1>3, <1>4 DEF IngestInv, ClaimInv, Apart

\* What the commit of r makes of the tables.
LEMMA CommitStores ==
  ASSUME IngestInv, NEW r \in Requests, Commit(r)
  PROVE  /\ Served(reqs[r]) /\ reqs[r].claimed = reqs[r].done /\ reqs[r].claimed \subseteq Events
         /\ \A e \in reqs[r].claimed : receipts[Key[e]] = None /\ receipts'[Key[e]] = e
         /\ \A e \in Events : (\A f \in reqs[r].claimed : Key[f] # Key[e]) =>
                                receipts'[Key[e]] = receipts[Key[e]]
         /\ \A e \in Events : effects'[e] = IF e \in reqs[r].done THEN effects[e] + 1 ELSE effects[e]
         /\ receipts' \in [Keys -> Events \cup {None}] /\ effects' \in [Events -> Nat]
<1> DEFINE C == reqs[r].claimed
<1>1. /\ Served(reqs[r]) /\ C = reqs[r].done BY DEF IngestInv, ClaimInv, Served, Commit
<1>2. C \subseteq Events BY <1>1, Batches DEF Served
<1>3. \A e, f \in C : Key[e] = Key[f] => e = f BY <1>1 DEF Served
<1>4. \A e \in C : receipts[Key[e]] = None BY <1>1 DEF Served
<1>5. /\ receipts' = [k \in Keys |-> IF \E e \in C : Key[e] = k THEN CHOOSE e \in C : Key[e] = k
                                     ELSE receipts[k]]
      /\ effects' = [e \in Events |-> effects[e] + (IF e \in reqs[r].done THEN 1 ELSE 0)]
  BY DEF Commit, Store
<1> HIDE DEF C
<1>6. ASSUME NEW e \in C PROVE receipts'[Key[e]] = e
  <2>1. receipts'[Key[e]] = CHOOSE f \in C : Key[f] = Key[e] BY <1>2, <1>5, KeysOfEvents
  <2> QED BY <1>3, <2>1
<1>7. \A e \in Events : (\A f \in C : Key[f] # Key[e]) => receipts'[Key[e]] = receipts[Key[e]]
  BY <1>5, KeysOfEvents
<1>8. receipts' \in [Keys -> Events \cup {None}]
  <2>1. ASSUME NEW k \in Keys PROVE receipts'[k] \in Events \cup {None}
    <3>1. CASE \E e \in C : Key[e] = k
      <4>1. receipts'[k] = CHOOSE e \in C : Key[e] = k BY <1>5, <3>1
      <4>2. (CHOOSE e \in C : Key[e] = k) \in C BY <3>1
      <4> QED BY <1>2, <4>1, <4>2
    <3>2. CASE ~\E e \in C : Key[e] = k BY <1>5, <3>2 DEF IngestInv, TableInv
    <3> QED BY <3>1, <3>2
  <2> QED BY <1>5, <2>1
<1>9. /\ effects' \in [Events -> Nat]
      /\ \A e \in Events : effects'[e] = IF e \in reqs[r].done THEN effects[e] + 1 ELSE effects[e]
  BY <1>5 DEF IngestInv, TableInv
<1> QED BY <1>1, <1>2, <1>4, <1>6, <1>7, <1>8, <1>9 DEF C

LEMMA CommitKeeps == ASSUME IngestInv, NEW r \in Requests, Commit(r) PROVE IngestInv'
<1> DEFINE C == reqs[r].claimed
<1>1. /\ Served(reqs[r]) /\ C = reqs[r].done /\ C \subseteq Events
      /\ \A e \in C : receipts[Key[e]] = None /\ receipts'[Key[e]] = e
      /\ \A e \in Events : (\A f \in C : Key[f] # Key[e]) => receipts'[Key[e]] = receipts[Key[e]]
      /\ \A e \in Events : effects'[e] = IF e \in C THEN effects[e] + 1 ELSE effects[e]
      /\ receipts' \in [Keys -> Events \cup {None}] /\ effects' \in [Events -> Nat]
  BY CommitStores
<1>2. reqs[r].pc = "commit" /\ UNCHANGED <<quality, clock>> BY DEF Commit
<1>3. /\ SenderInv' /\ \A s \in Requests : reqs'[s] = IF s = r THEN Free ELSE reqs[s]
  BY <1>2, AnswerKeeps DEF Commit
<1>4. faults' \in Nat BY DEF Commit, Fault, IngestInv, TableInv
<1>5. \A e \in C : Sound(e) BY <1>1 DEF Served
<1> HIDE DEF C
<1>6. ASSUME NEW e \in Events, Seen(e) PROVE Seen(e)'
  <2>1. \A f \in C : Key[f] # Key[e] BY <1>1, <1>6, KeysOfEvents DEF Seen
  <2> QED BY <1>1, <1>6, <2>1 DEF Seen
<1>7. ASSUME NEW e \in Events
      PROVE  effects'[e] = (IF receipts'[Key[e]] = e THEN 1 ELSE 0) /\ (Seen(e)' => Sound(e)')
  <2>1. CASE e \in C
    BY <1>1, <1>2, <1>5, <2>1, KeysOfEvents DEF IngestInv, TableInv, Seen, Sound
  <2>2. CASE e \notin C /\ \E f \in C : Key[f] = Key[e]
    BY <1>1, <2>2, KeysOfEvents DEF IngestInv, TableInv, Seen
  <2>3. CASE \A f \in C : Key[f] # Key[e]
    BY <1>1, <1>2, <2>3 DEF IngestInv, TableInv, Seen, Sound
  <2> QED BY <2>1, <2>2, <2>3
<1>8. TableInv' BY <1>1, <1>2, <1>4, <1>7 DEF IngestInv, TableInv, Seen
<1>9. ASSUME NEW s \in Requests, reqs'[s].pc # "free" PROVE Served(reqs[s])'
  <2>1. s # r /\ reqs'[s] = reqs[s] /\ Served(reqs[s])
    BY <1>3, <1>9, FreeRow DEF IngestInv, ClaimInv
  <2>2. reqs[s].claimed \subseteq Events BY <2>1, Batches DEF Served
  <2>3. \A e \in reqs[s].claimed : \A f \in C : Key[f] # Key[e]
    BY <2>1 DEF IngestInv, ClaimInv, Apart, C
  <2>4. \A e \in reqs[s].claimed : receipts'[Key[e]] = None
    BY <1>1, <2>1, <2>2, <2>3 DEF Served
  <2>5. ASSUME NEW j \in 1..(reqs[s].next - 1)
        PROVE  Batch[reqs[s].client][j] \in reqs[s].claimed \/ Seen(Batch[reqs[s].client][j])'
    <3>1. j \in 1..Len(Batch[reqs[s].client])
      <4>1. Len(Batch[reqs[s].client]) \in Nat /\ reqs[s].next \in Nat
        BY <2>1, Batches DEF Served
      <4> QED BY <2>1, <4>1 DEF Served
    <3>2. Batch[reqs[s].client][j] \in Events BY <2>1, <3>1, Batches DEF Served
    <3> QED BY <1>6, <2>1, <3>2 DEF Served
  <2>6. \A e \in Members(reqs[s].client) : Sound(e)' BY <1>2, <2>1 DEF Served, Sound
  <2> QED BY <2>1, <2>4, <2>5, <2>6 DEF Served
<1>10. \A s, t \in Requests : s # t => Apart(reqs'[s], reqs'[t])
  BY <1>3, FreeRow DEF IngestInv, ClaimInv, Apart
<1> QED BY <1>3, <1>8, <1>9, <1>10 DEF IngestInv, ClaimInv, Apart

-----------------------------------------------------------------------------
\* The loop goes on to the next event, or to the commit.
LEMMA AdvanceServes ==
  ASSUME NEW p \in RequestRows, p.client \in Clients, p.next \in Nat \ {0},
         p.next <= Len(Batch[p.client]), p.claimed \subseteq Members(p.client), p.done = p.claimed,
         \A e \in p.claimed : receipts[Key[e]] = None,
         \A e, f \in p.claimed : Key[e] = Key[f] => e = f,
         \A j \in 1..p.next : Batch[p.client][j] \in p.claimed \/ Seen(Batch[p.client][j]),
         \A e \in Members(p.client) : Sound(e)
  PROVE  /\ Served(Advance(p)) /\ Advance(p) \in RequestRows /\ Advance(p).pc # "free"
         /\ Advance(p).client = p.client /\ Advance(p).attached = p.attached
         /\ Advance(p).claimed = p.claimed
<1>1. PICK n \in Nat \ {0} : n = p.next + 1 /\ n - 1 = p.next OBVIOUS
<1>2. PICK pc \in {"claim", "commit"} :
        pc = IF p.next = Len(Batch[p.client]) THEN "commit" ELSE "claim"
  OBVIOUS
<1>3. PICK q : q = [p EXCEPT !.next = n, !.queued = FALSE, !.pc = pc] OBVIOUS
<1>4. q = Advance(p) BY <1>1, <1>2, <1>3 DEF Advance
<1>5. /\ q \in RequestRows /\ q.pc = pc /\ q.next = n /\ q.client = p.client
      /\ q.attached = p.attached /\ q.claimed = p.claimed /\ q.done = p.done
  BY <1>3 DEF RequestRows
<1>6. Len(Batch[p.client]) \in Nat BY Batches
<1>7. /\ q.pc # "commit" => q.next <= Len(Batch[q.client])
      /\ q.pc = "commit" => q.next = Len(Batch[q.client]) + 1
  BY <1>1, <1>2, <1>5, <1>6
<1>8. Served(q) BY <1>1, <1>2, <1>5, <1>7 DEF Served
<1> QED BY <1>2, <1>4, <1>5, <1>8

\* The event a request is at.
LEMMA CurrentEvent ==
  ASSUME IngestInv, NEW r \in Requests, reqs[r].pc \in {"claim", "process"}
  PROVE  /\ reqs[r] \in RequestRows /\ Served(reqs[r])
         /\ Current(r) \in Events /\ Current(r) \in Members(reqs[r].client)
         /\ Current(r) = Batch[reqs[r].client][reqs[r].next]
<1>1. reqs[r] \in RequestRows /\ Served(reqs[r]) BY DEF IngestInv, SenderInv, ClaimInv
<1>2. reqs[r].next \in 1..Len(Batch[reqs[r].client])
  <2>1. Len(Batch[reqs[r].client]) \in Nat BY <1>1, Batches DEF Served
  <2> QED BY <1>1, <2>1 DEF Served
<1> QED BY <1>1, <1>2, Batches DEF Served, Current

\* The lock on a receipt: an event that r may claim has no claim by another one.
LEMMA ClaimsApart ==
  ASSUME IngestInv, NEW r \in Requests, reqs[r].pc = "claim", ~Blocked(r), IsNew(r),
         NEW s \in Requests, s # r, NEW f \in reqs[s].claimed
  PROVE  Key[f] # Key[Current(r)]
<1> SUFFICES ASSUME Key[f] = Key[Current(r)] PROVE FALSE OBVIOUS
<1> DEFINE lock == <<"key", Key[Current(r)]>>
<1>1. lock \in Held(s) BY DEF Held
<1>2. lock \notin Held(r) BY DEF Held, IsNew
<1>3. lock \in Needs(r) BY <1>2 DEF Needs
<1> HIDE DEF lock
<1> QED BY <1>1, <1>3 DEF Blocked, Blocks

LEMMA WaitKeeps == ASSUME IngestInv, NEW r \in Requests, Wait(r) PROVE IngestInv'
<1>1. reqs[r].pc # "free"
  <2> SUFFICES ASSUME reqs[r].pc = "free" PROVE FALSE OBVIOUS
  <2>1. Needs(r) = {} BY DEF Needs
  <2> QED BY <2>1 DEF Wait
<1>2. reqs[r] \in RequestRows /\ Served(reqs[r]) BY <1>1 DEF IngestInv, SenderInv, ClaimInv
<1>3. PICK q : q = [reqs[r] EXCEPT !.queued = TRUE] OBVIOUS
<1>4. /\ q \in RequestRows /\ q.pc = reqs[r].pc /\ q.client = reqs[r].client
      /\ q.attached = reqs[r].attached /\ q.next = reqs[r].next
      /\ q.claimed = reqs[r].claimed /\ q.done = reqs[r].done
  BY <1>2, <1>3 DEF RequestRows
<1>5. Served(q) BY <1>2, <1>4 DEF Served
<1>6. \A s \in Requests \ {r} : Apart(q, reqs[s])
  BY <1>4 DEF IngestInv, ClaimInv, Apart
<1>7. reqs' = [reqs EXCEPT ![r] = q] BY <1>3 DEF Wait, IngestInv, SenderInv
<1> QED BY <1>1, <1>4, <1>5, <1>6, <1>7, StatementKeeps DEF Wait

LEMMA ClaimKeeps == ASSUME IngestInv, NEW r \in Requests, Claim(r) PROVE IngestInv'
<1> DEFINE e == Current(r)
<1>1. /\ reqs[r] \in RequestRows /\ Served(reqs[r]) /\ e \in Events /\ e \in Members(reqs[r].client)
      /\ e = Batch[reqs[r].client][reqs[r].next] /\ reqs[r].pc = "claim" /\ ~Blocked(r)
      /\ UNCHANGED <<quality, clock, faults>>
  BY CurrentEvent DEF Claim
<1>2. CASE /\ IsNew(r) /\ UNCHANGED <<receipts, effects, clients>>
           /\ reqs' = [reqs EXCEPT ![r] = [reqs[r] EXCEPT !.pc = "process", !.queued = FALSE,
                                                          !.claimed = @ \cup {Current(r)}]]
  <2>1. PICK q : q = [reqs[r] EXCEPT !.pc = "process", !.queued = FALSE,
                                     !.claimed = reqs[r].claimed \cup {e}]
    OBVIOUS
  <2>2. /\ q \in RequestRows /\ q.pc = "process" /\ q.client = reqs[r].client
        /\ q.attached = reqs[r].attached /\ q.next = reqs[r].next
        /\ q.claimed = reqs[r].claimed \cup {e} /\ q.done = reqs[r].done
    BY <1>1, <2>1 DEF RequestRows
  <2>3. receipts[Key[e]] = None /\ \A f \in reqs[r].claimed : Key[f] # Key[e]
    BY <1>2 DEF IsNew
  <2>4. \A s \in Requests \ {r} : Apart(q, reqs[s])
    BY <1>1, <1>2, <2>2, ClaimsApart DEF IngestInv, ClaimInv, Apart
  <2>5. reqs' = [reqs EXCEPT ![r] = q] BY <1>2, <2>1 DEF IngestInv, SenderInv, RequestRows
  <2>6. Served(q)
    <3> HIDE DEF e
    <3> QED BY <1>1, <2>2, <2>3 DEF Served
  <2> QED BY <1>1, <1>2, <2>2, <2>4, <2>5, <2>6, StatementKeeps
<1>3. CASE /\ IsReplay(r) /\ UNCHANGED <<receipts, effects, clients>>
           /\ reqs' = [reqs EXCEPT ![r] = Advance(@)]
  <2>1. PICK q : q = Advance(reqs[r]) OBVIOUS
  <2>2. e \in reqs[r].claimed \/ Seen(e) BY <1>3 DEF IsReplay, Seen
  <2>3. \A j \in 1..reqs[r].next : \/ Batch[reqs[r].client][j] \in reqs[r].claimed
                                   \/ Seen(Batch[reqs[r].client][j])
    <3> SUFFICES ASSUME NEW j \in 1..reqs[r].next
                 PROVE  \/ Batch[reqs[r].client][j] \in reqs[r].claimed
                        \/ Seen(Batch[reqs[r].client][j])
      OBVIOUS
    <3>1. reqs[r].next \in Nat BY <1>1 DEF Served
    <3>2. j \in 1..(reqs[r].next - 1) \/ j = reqs[r].next BY <3>1
    <3> QED BY <1>1, <2>2, <3>2 DEF Served
  <2>4. /\ Served(q) /\ q \in RequestRows /\ q.pc # "free" /\ q.client = reqs[r].client
        /\ q.attached = reqs[r].attached /\ q.claimed = reqs[r].claimed
    <3>1. /\ reqs[r].client \in Clients /\ reqs[r].next \in Nat \ {0}
          /\ reqs[r].next <= Len(Batch[reqs[r].client])
          /\ reqs[r].claimed \subseteq Members(reqs[r].client) /\ reqs[r].done = reqs[r].claimed
          /\ \A f \in reqs[r].claimed : receipts[Key[f]] = None
          /\ \A f, g \in reqs[r].claimed : Key[f] = Key[g] => f = g
          /\ \A f \in Members(reqs[r].client) : Sound(f)
      BY <1>1 DEF Served
    <3> QED BY <1>1, <2>1, <2>3, <3>1, AdvanceServes
  <2>5. \A s \in Requests \ {r} : Apart(q, reqs[s])
    BY <2>4 DEF IngestInv, ClaimInv, Apart
  <2>6. reqs' = [reqs EXCEPT ![r] = q] BY <1>3, <2>1 DEF IngestInv, SenderInv
  <2> QED BY <1>1, <1>3, <2>4, <2>5, <2>6, StatementKeeps
<1>4. CASE Rollback(r, "refused")
  BY <1>1, <1>4, RollbackKeeps DEF IngestInv, TableInv
<1> QED BY <1>2, <1>3, <1>4 DEF Claim

LEMMA ProcessKeeps == ASSUME IngestInv, NEW r \in Requests, Process(r) PROVE IngestInv'
<1> DEFINE e == Current(r)
<1>1. /\ reqs[r] \in RequestRows /\ Served(reqs[r]) /\ e \in Events
      /\ e = Batch[reqs[r].client][reqs[r].next] /\ reqs[r].pc = "process"
      /\ UNCHANGED <<quality, clock, faults>>
  BY CurrentEvent DEF Process
<1>2. CASE Rollback(r, "send")
  BY <1>1, <1>2, RollbackKeeps DEF IngestInv, TableInv
<1>3. CASE /\ reqs' = [reqs EXCEPT ![r] = Advance([reqs[r] EXCEPT !.done = @ \cup {Current(r)}])]
           /\ UNCHANGED <<receipts, effects, clients>>
  <2>1. PICK p : p = [reqs[r] EXCEPT !.done = reqs[r].done \cup {e}] OBVIOUS
  <2>2. /\ p \in RequestRows /\ p.client = reqs[r].client /\ p.next = reqs[r].next
        /\ p.attached = reqs[r].attached /\ p.claimed = reqs[r].claimed
        /\ p.done = reqs[r].done \cup {e}
    BY <1>1, <2>1 DEF RequestRows
  <2>3. p.done = p.claimed /\ e \in p.claimed BY <1>1, <2>2 DEF Served
  <2>4. ASSUME NEW j \in 1..p.next
        PROVE  Batch[p.client][j] \in p.claimed \/ Seen(Batch[p.client][j])
    <3>1. p.next \in Nat BY <1>1, <2>2 DEF Served
    <3>2. j \in 1..(reqs[r].next - 1) \/ j = reqs[r].next BY <2>2, <3>1
    <3> QED BY <1>1, <2>2, <2>3, <3>2 DEF Served
  <2>5. PICK q : q = Advance(p) OBVIOUS
  <2>6. /\ Served(q) /\ q \in RequestRows /\ q.pc # "free" /\ q.client = p.client
        /\ q.attached = p.attached /\ q.claimed = p.claimed
    <3>1. /\ p.client \in Clients /\ p.next \in Nat \ {0} /\ p.next <= Len(Batch[p.client])
          /\ p.claimed \subseteq Members(p.client)
          /\ \A f \in p.claimed : receipts[Key[f]] = None
          /\ \A f, g \in p.claimed : Key[f] = Key[g] => f = g
          /\ \A f \in Members(p.client) : Sound(f)
      BY <1>1, <2>2 DEF Served
    <3> QED BY <2>2, <2>3, <2>4, <2>5, <3>1, AdvanceServes
  <2>7. \A s \in Requests \ {r} : Apart(q, reqs[s])
    BY <2>2, <2>6 DEF IngestInv, ClaimInv, Apart
  <2>8. reqs' = [reqs EXCEPT ![r] = q] BY <1>3, <2>1, <2>5 DEF IngestInv, SenderInv
  <2> QED BY <1>1, <1>3, <2>2, <2>6, <2>7, <2>8, StatementKeeps
<1> QED BY <1>2, <1>3 DEF Process

LEMMA PostKeeps ==
  ASSUME IngestInv, NEW c \in Clients, NEW r \in Requests, Post(c, r) PROVE IngestInv'
<1>1. /\ clients[c] = "send" /\ reqs[r].pc = "free"
      /\ UNCHANGED <<receipts, effects, quality, clock, faults>>
  BY DEF Post
<1>2. TableInv' BY <1>1 DEF IngestInv, TableInv, Seen, Sound
<1>3. \A s \in Requests : ~Listening(s, c) BY <1>1 DEF IngestInv, SenderInv
<1>4. CASE clients' = [clients EXCEPT ![c] = "refused"] /\ UNCHANGED reqs
  <2>1. SenderInv' BY <1>3, <1>4 DEF IngestInv, SenderInv, Listening
  <2>2. ClaimInv' BY <1>1, <1>4, ClaimsUnchanged DEF IngestInv
  <2> QED BY <1>2, <2>1, <2>2 DEF IngestInv
<1>5. CASE /\ \A e \in Members(c) : Valid(e)
           /\ clients' = [clients EXCEPT ![c] = "wait"]
           /\ reqs' = [reqs EXCEPT ![r] = [Free EXCEPT !.pc = "claim", !.client = c,
                                             !.attached = TRUE, !.next = 1]]
  <2>1. PICK q : q = [Free EXCEPT !.pc = "claim", !.client = c, !.attached = TRUE, !.next = 1]
    OBVIOUS
  <2>2. /\ q \in RequestRows /\ q.pc = "claim" /\ q.client = c /\ q.attached /\ q.next = 1
        /\ q.claimed = {} /\ q.done = {}
    BY <2>1 DEF Free, RequestRows
  <2>3. \A s \in Requests : reqs'[s] = IF s = r THEN q ELSE reqs[s]
    BY <1>5, <2>1 DEF IngestInv, SenderInv
  <2>4. \A s \in Requests, d \in Clients :
          Listening(s, d)' <=> IF s = r THEN d = c ELSE Listening(s, d)
    BY <2>2, <2>3 DEF Listening
  <2>5. \A d \in Clients : ~Listening(r, d)
    BY <1>1, FreeRow DEF IngestInv, SenderInv, Listening
  <2>6. reqs' \in [Requests -> RequestRows] BY <1>5, <2>1, <2>2 DEF IngestInv, SenderInv
  <2>7. \A s \in Requests : reqs'[s].pc = "free" => reqs'[s] = Free
    BY <2>2, <2>3 DEF IngestInv, SenderInv
  <2>8. \A d \in Clients : clients'[d] = IF d = c THEN "wait" ELSE clients[d]
    BY <1>5 DEF IngestInv, SenderInv
  <2>9. SenderInv'
    BY <1>3, <1>5, <2>4, <2>5, <2>6, <2>7, <2>8 DEF IngestInv, SenderInv
  <2>10. Served(q)
    <3>1. \A e \in Members(c) : Sound(e) BY <1>5 DEF Valid, Sound
    <3>2. 1 <= Len(Batch[c]) BY Batches
    <3> QED BY <2>2, <3>1, <3>2 DEF Served
  <2>11. ASSUME NEW s \in Requests, reqs'[s].pc # "free" PROVE Served(reqs[s])'
    <3>1. Served(reqs'[s]) BY <2>3, <2>10, <2>11 DEF IngestInv, ClaimInv
    <3> QED BY <1>1, <3>1 DEF Served, Seen, Sound
  <2>12. \A s, t \in Requests : s # t => Apart(reqs'[s], reqs'[t])
    BY <2>2, <2>3 DEF IngestInv, ClaimInv, Apart
  <2> QED BY <1>2, <2>9, <2>11, <2>12 DEF IngestInv, ClaimInv, Apart
<1> QED BY <1>4, <1>5 DEF Post

LEMMA TimeoutKeeps == ASSUME IngestInv, NEW r \in Requests, Timeout(r) PROVE IngestInv'
<1>1. /\ reqs[r].attached /\ UNCHANGED <<receipts, effects, quality, clock>>
      /\ reqs' = [reqs EXCEPT ![r].attached = FALSE]
      /\ clients' = [clients EXCEPT ![reqs[r].client] = "send"]
  BY DEF Timeout
<1>2. faults' \in Nat BY DEF Timeout, Fault, IngestInv, TableInv
<1>3. reqs[r].pc # "free" BY <1>1, FreeRow DEF IngestInv, SenderInv
<1>4. reqs[r] \in RequestRows /\ reqs[r].client \in Clients
  BY <1>3 DEF IngestInv, SenderInv, ClaimInv, Served
<1>5. PICK q : q = [reqs[r] EXCEPT !.attached = FALSE] OBVIOUS
<1>6. /\ q \in RequestRows /\ q.pc = reqs[r].pc /\ q.client = reqs[r].client
      /\ ~q.attached /\ q.next = reqs[r].next
      /\ q.claimed = reqs[r].claimed /\ q.done = reqs[r].done
  BY <1>4, <1>5 DEF RequestRows
<1>7. \A s \in Requests : reqs'[s] = IF s = r THEN q ELSE reqs[s]
  BY <1>1, <1>5 DEF IngestInv, SenderInv
<1>8. reqs' \in [Requests -> RequestRows] BY <1>1, <1>5, <1>6 DEF IngestInv, SenderInv
<1>9. \A s \in Requests, c \in Clients : Listening(s, c)' <=> s # r /\ Listening(s, c)
  BY <1>6, <1>7 DEF Listening
<1>10. ASSUME NEW c \in Clients
       PROVE  clients'[c] = "wait" <=> \E s \in Requests : Listening(s, c)'
  <2>1. CASE c = reqs[r].client
    <3>1. Listening(r, c) BY <1>1, <2>1 DEF Listening
    <3>2. clients'[c] = "send" BY <1>1, <2>1 DEF IngestInv, SenderInv
    <3> QED BY <1>9, <3>1, <3>2 DEF IngestInv, SenderInv
  <2>2. CASE c # reqs[r].client
    <3>1. ~Listening(r, c) BY <2>2 DEF Listening
    <3>2. clients'[c] = clients[c] BY <1>1, <2>2 DEF IngestInv, SenderInv
    <3> QED BY <1>9, <3>1, <3>2 DEF IngestInv, SenderInv
  <2> QED BY <2>1, <2>2
<1>11. SenderInv'
  <2>1. clients' \in [Clients -> {"send", "wait", "acked", "refused"}]
    BY <1>1 DEF IngestInv, SenderInv
  <2>2. \A s \in Requests : reqs'[s].pc = "free" => reqs'[s] = Free
    BY <1>3, <1>6, <1>7 DEF IngestInv, SenderInv
  <2>3. \A c \in Clients, s, t \in Requests : Listening(s, c)' /\ Listening(t, c)' => s = t
    BY <1>9 DEF IngestInv, SenderInv
  <2> QED BY <1>8, <1>10, <2>1, <2>2, <2>3 DEF SenderInv
<1>12. TableInv' BY <1>1, <1>2 DEF IngestInv, TableInv, Seen, Sound
<1>13. ASSUME NEW s \in Requests, reqs'[s].pc # "free" PROVE Served(reqs[s])'
  <2>1. Served(reqs[s]) BY <1>6, <1>7, <1>13 DEF IngestInv, ClaimInv
  <2>2. Served(reqs'[s])
    <3>1. CASE s = r
      <4>1. Served(reqs[r]) BY <2>1, <3>1
      <4>2. Served(q) BY <1>6, <4>1 DEF Served
      <4> QED BY <1>7, <3>1, <4>2
    <3>2. CASE s # r BY <1>7, <2>1, <3>2
    <3> QED BY <3>1, <3>2
  <2> QED BY <1>1, <2>2 DEF Served, Seen, Sound
<1>14. \A s, t \in Requests : s # t => Apart(reqs'[s], reqs'[t])
  BY <1>6, <1>7 DEF IngestInv, ClaimInv, Apart
<1> QED BY <1>11, <1>12, <1>13, <1>14 DEF IngestInv, ClaimInv, Apart

LEMMA CrashKeeps == ASSUME IngestInv, Crash PROVE IngestInv'
<1>1. /\ \A r \in Requests : reqs'[r] = Free
      /\ reqs' \in [Requests -> RequestRows] /\ UNCHANGED <<receipts, effects, quality, clock>>
  BY FreeRow DEF Crash
<1>2. faults' \in Nat BY DEF Crash, Fault, IngestInv, TableInv
<1>3. /\ clients' \in [Clients -> {"send", "wait", "acked", "refused"}]
      /\ \A c \in Clients : clients'[c] # "wait"
  BY DEF Crash, IngestInv, SenderInv
<1>4. SenderInv' BY <1>1, <1>3, FreeRow DEF SenderInv, Listening
<1>5. TableInv' BY <1>1, <1>2 DEF IngestInv, TableInv, Seen, Sound
<1>6. ClaimInv' BY <1>1, FreeRow DEF ClaimInv, Apart
<1> QED BY <1>4, <1>5, <1>6 DEF IngestInv

LEMMA TickKeeps == ASSUME IngestInv, Tick PROVE IngestInv'
<1>1. /\ clock' = clock + 1 /\ clock \in Nat
      /\ UNCHANGED <<receipts, effects, reqs, clients, quality, faults>>
  BY DEF Tick, IngestInv, TableInv
<1>2. \A e \in Events : Sound(e) => Sound(e)'
  BY <1>1, KeysOfEvents, IngestAssumption DEF Sound
<1>3. SenderInv' BY <1>1 DEF IngestInv, SenderInv, Listening
<1>4. TableInv' BY <1>1, <1>2 DEF IngestInv, TableInv, Seen
<1>5. ASSUME NEW r \in Requests, reqs[r].pc # "free" PROVE Served(reqs[r])'
  <2>1. Served(reqs[r]) BY <1>5 DEF IngestInv, ClaimInv
  <2>2. \A e \in Members(reqs[r].client) : Sound(e)' BY <1>2, <2>1, Batches DEF Served
  <2> QED BY <1>1, <2>1, <2>2 DEF Served, Seen
<1> QED BY <1>1, <1>3, <1>4, <1>5 DEF IngestInv, ClaimInv, Apart

\* A transaction that PostgreSQL aborts is one that waits.
LEMMA DeadlockedServed ==
  ASSUME IngestInv, NEW r \in Requests, Deadlocked(r) PROVE reqs[r].pc # "free"
BY DEF Deadlocked, IngestInv, SenderInv, Free

LEMMA IngestNext == ASSUME IngestInv, [Next]_vars PROVE IngestInv'
<1>1. CASE UNCHANGED vars
  <2>1. SenderInv' BY <1>1 DEF vars, IngestInv, SenderInv, Listening
  <2>2. TableInv' BY <1>1 DEF vars, IngestInv, TableInv, Seen, Sound
  <2>3. ClaimInv' BY <1>1, ClaimsUnchanged DEF vars, IngestInv
  <2> QED BY <2>1, <2>2, <2>3 DEF IngestInv
<1>2. ASSUME NEW r \in Requests, Abort(r) PROVE IngestInv'
  BY <1>2, DeadlockedServed, RollbackKeeps DEF Abort, IngestInv, TableInv
<1>3. ASSUME NEW r \in Requests, Fail(r) PROVE IngestInv'
  <2>1. faults' \in Nat BY <1>3 DEF Fail, Fault, IngestInv, TableInv
  <2> QED BY <1>3, <2>1, RollbackKeeps DEF Fail
<1> QED
  BY <1>1, <1>2, <1>3, PostKeeps, WaitKeeps, ClaimKeeps, ProcessKeeps, CommitKeeps, TimeoutKeeps,
     CrashKeeps, TickKeeps
  DEF Next, Serve

\* However often and concurrently an event is delivered, and whatever fails, it
\* has had its effects exactly when its receipt carries its digest, and once.
THEOREM ReceiptsAreEffects == Spec => []ReceiptsMatchEffects
<1>1. IngestInv => ReceiptsMatchEffects
  BY DEF IngestInv, SenderInv, TableInv, Listening, ReceiptsMatchEffects, TypeOK
<1> QED BY <1>1, IngestInit, IngestNext, PTL DEF Spec

-----------------------------------------------------------------------------
(***************************************************************************)
(* The refinement.  A commit is the delivery of the batch, a final answer  *)
(* without one a refusal, and all else is invisible.                       *)
(***************************************************************************)
Verdict == [c \in Clients |-> IF clients[c] \in {"acked", "refused"} THEN clients[c] ELSE "pending"]

logVars == <<effects, Verdict>>

\* What the answer to a request tells its sender.
LEMMA AnswerTells ==
  ASSUME IngestInv, NEW r \in Requests, NEW v \in {"acked", "refused"},
         reqs[r].pc # "free", Answer(r, v), reqs[r].attached,
         NEW c, c = reqs[r].client
  PROVE  Log!Tell(c, v)
<1>1. clients' = [clients EXCEPT ![c] = v] /\ clients[c] = "wait"
  BY AnswerKeeps
<1>2. c \in Clients BY DEF IngestInv, ClaimInv, Served
<1>3. \A d \in Clients : clients'[d] = IF d = c THEN v ELSE clients[d]
  BY <1>1, <1>2 DEF IngestInv, SenderInv
<1>4. Verdict[c] = "pending" BY <1>1, <1>2 DEF Verdict
<1>5. Verdict' = [Verdict EXCEPT ![c] = v] BY <1>2, <1>3 DEF Verdict
<1> QED BY <1>4, <1>5 DEF Verdict, Log!Tell

LEMMA RetryTellsNothing ==
  ASSUME IngestInv, NEW r \in Requests, reqs[r].pc # "free",
         Answer(r, "send") \/ (\E v \in {"acked", "refused"} : Answer(r, v) /\ ~reqs[r].attached)
  PROVE  UNCHANGED Verdict
<1>1. CASE reqs[r].attached
  <2>1. /\ clients' = [clients EXCEPT ![reqs[r].client] = "send"]
        /\ clients[reqs[r].client] = "wait"
    BY <1>1, AnswerKeeps
  <2>2. \A c \in Clients : \/ clients'[c] = clients[c]
                           \/ clients[c] = "wait" /\ clients'[c] = "send"
    BY <2>1 DEF IngestInv, SenderInv
  <2> QED BY <2>2 DEF Verdict
<1>2. CASE ~reqs[r].attached
  <2>1. clients' = clients BY <1>2 DEF Answer
  <2> QED BY <2>1 DEF Verdict
<1> QED BY <1>1, <1>2

\* A committed batch contradicts nothing, and all of it has taken effect once.
LEMMA CommitDelivers ==
  ASSUME IngestInv, NEW r \in Requests, Commit(r) PROVE Log!LogNext
<1> DEFINE C == reqs[r].claimed
<1>0. PICK c : c = reqs[r].client OBVIOUS
<1>1. /\ Served(reqs[r]) /\ C = reqs[r].done /\ C \subseteq Events
      /\ \A e \in C : receipts[Key[e]] = None
      /\ \A e \in Events : effects'[e] = IF e \in C THEN effects[e] + 1 ELSE effects[e]
      /\ effects' \in [Events -> Nat]
  BY CommitStores
<1>2. c \in Clients /\ C \subseteq Members(c) BY <1>0, <1>1 DEF Served
<1>3. \A e \in Members(c) : e \in Events /\ (e \in C \/ Seen(e))
  <2> SUFFICES ASSUME NEW e \in Members(c) PROVE e \in Events /\ (e \in C \/ Seen(e)) OBVIOUS
  <2>1. PICK j \in 1..Len(Batch[c]) : e = Batch[c][j] BY <1>2, Batches
  <2>2. Len(Batch[c]) \in Nat /\ reqs[r].next = Len(Batch[c]) + 1
    BY <1>0, <1>1, <1>2, Batches DEF Served, Commit
  <2>3. j \in 1..(reqs[r].next - 1) BY <2>2
  <2>4. e \in C \/ Seen(e) BY <1>0, <1>1, <2>1, <2>3 DEF Served
  <2> QED BY <1>2, <2>4, Batches
<1>4. \A e \in Events : effects[e] = IF Seen(e) THEN 1 ELSE 0 BY DEF IngestInv, TableInv, Seen
<1>5. Log!Content(c) = Members(c) BY DEF Log!Content, Members
<1>6. Log!Admissible(c)
  <2> SUFFICES ASSUME NEW e \in Members(c), NEW f \in Events, Key[e] = Key[f],
                      f \in Members(c) \/ effects[f] > 0
               PROVE  e = f
    BY <1>5 DEF Log!Admissible
  <2>1. f \in C \/ Seen(f) BY <1>3, <1>4
  <2>2. CASE e \in C /\ f \in C BY <1>1, <2>2 DEF Served
  <2>3. CASE Seen(e) /\ Seen(f) BY <2>3 DEF Seen
  <2>4. CASE e \in C /\ Seen(f) BY <1>1, <2>4, KeysOfEvents DEF Seen
  <2>5. CASE Seen(e) /\ f \in C BY <1>1, <1>3, <2>5, KeysOfEvents DEF Seen
  <2> QED BY <1>3, <2>1, <2>2, <2>3, <2>4, <2>5
<1>7. Log!TakeEffect(c)
  <2>1. ASSUME NEW e \in Events PROVE effects'[e] = IF e \in Members(c) THEN 1 ELSE effects[e]
    <3>1. CASE e \in C
      <4>1. ~Seen(e) BY <1>1, <3>1, KeysOfEvents DEF Seen
      <4> QED BY <1>1, <1>2, <1>4, <3>1, <4>1
    <3>2. CASE e \notin C BY <1>1, <1>3, <1>4, <3>2
    <3> QED BY <3>1, <3>2
  <2> QED BY <1>1, <1>5, <2>1 DEF Log!TakeEffect
<1>8. Log!Tell(c, "acked") \/ UNCHANGED Verdict
  BY <1>0, AnswerTells, RetryTellsNothing DEF Commit
<1>9. Log!Deliver(c) BY <1>6, <1>7, <1>8 DEF Log!Deliver, Verdict
<1> QED BY <1>2, <1>9 DEF Log!LogNext

\* A batch with an event that has had no effect is not logged.
LEMMA UnseenNotLogged ==
  ASSUME IngestInv, NEW c \in Clients, NEW e \in Members(c), ~Seen(e) PROVE ~Log!Logged(c)
<1>1. e \in Events /\ e \in Log!Content(c) BY Batches DEF Log!Content, Members
<1>2. effects[e] = 0 BY <1>1 DEF IngestInv, TableInv, Seen
<1> QED BY <1>1, <1>2 DEF Log!Logged

\* A conflicting event is refused, and has had no effect.
LEMMA ClaimRefuses ==
  ASSUME IngestInv, NEW r \in Requests, Claim(r) PROVE [Log!LogNext]_logVars
<1>1. CASE UNCHANGED <<effects, clients>> BY <1>1 DEF logVars, Verdict
<1>2. CASE ~IsReplay(r) /\ Rollback(r, "refused")
  <2>1. /\ reqs[r].pc = "claim" /\ Answer(r, "refused") /\ UNCHANGED effects
    BY <1>2 DEF Claim, Rollback
  <2>2. PICK c : c = reqs[r].client OBVIOUS
  <2>3. c \in Clients /\ Current(r) \in Members(c) BY <2>1, <2>2, CurrentEvent DEF Served
  <2>4. ~Log!Logged(c) BY <1>2, <2>3, UnseenNotLogged DEF IsReplay, Seen
  <2>5. CASE reqs[r].attached
    <3>1. Log!Tell(c, "refused") BY <2>1, <2>2, <2>5, AnswerTells
    <3>2. Log!Refuse(c) BY <2>1, <2>4, <3>1 DEF Log!Refuse
    <3> QED BY <2>3, <3>2 DEF Log!LogNext
  <2>6. CASE ~reqs[r].attached BY <2>1, <2>6, RetryTellsNothing DEF logVars
  <2> QED BY <2>5, <2>6
<1> QED BY <1>1, <1>2 DEF Claim

\* A batch is refused at the door before it has had effects, or too late.
LEMMA PostRefuses ==
  ASSUME IngestInv, NEW c \in Clients, NEW r \in Requests, Post(c, r)
  PROVE  Log!Refuse(c) \/ UNCHANGED logVars
<1>1. clients[c] = "send" /\ UNCHANGED <<effects, clock>> BY DEF Post
<1>2. CASE clients' = [clients EXCEPT ![c] = "wait"]
  <2>1. \A d \in Clients : clients'[d] = clients[d] \/ (clients[d] = "send" /\ clients'[d] = "wait")
    BY <1>1, <1>2 DEF IngestInv, SenderInv
  <2> QED BY <1>1, <2>1 DEF logVars, Verdict
<1>3. CASE (\E e \in Members(c) : ~Valid(e)) /\ clients' = [clients EXCEPT ![c] = "refused"]
  <2>1. \A d \in Clients : clients'[d] = IF d = c THEN "refused" ELSE clients[d]
    BY <1>3 DEF IngestInv, SenderInv
  <2>2. Verdict[c] = "pending" /\ Verdict' = [Verdict EXCEPT ![c] = "refused"]
    BY <1>1, <2>1 DEF Verdict
  <2>3. Log!Tell(c, "refused") BY <2>2 DEF Verdict, Log!Tell
  <2>4. PICK e \in Members(c) : ~Valid(e) BY <1>3
  <2>5. CASE clock - Time[e] > MaxAge BY <1>1, <2>3, <2>5 DEF Log!Refuse
  <2>6. CASE ~Sound(e)
    <3>1. ~Seen(e) BY <2>6, Batches DEF IngestInv, TableInv
    <3>2. ~Log!Logged(c) BY <3>1, UnseenNotLogged
    <3> QED BY <1>1, <2>3, <3>2 DEF Log!Refuse
  <2>7. clock - Time[e] > MaxAge \/ ~Sound(e)
    BY <2>4, Batches, KeysOfEvents, IngestAssumption DEF Valid, Sound, IngestInv, TableInv
  <2> QED BY <2>5, <2>6, <2>7
<1> QED BY <1>2, <1>3 DEF Post

\* Failures, retries and time are invisible.
LEMMA FailuresTellNothing ==
  ASSUME IngestInv,
         (\E r \in Requests : Wait(r) \/ Process(r) \/ Abort(r) \/ Fail(r) \/ Timeout(r))
           \/ Crash \/ Tick
  PROVE  UNCHANGED logVars
<1>1. CASE UNCHANGED <<effects, clients>> BY <1>1 DEF logVars, Verdict
<1>2. ASSUME NEW r \in Requests, reqs[r].pc # "free", Rollback(r, "send") PROVE UNCHANGED logVars
  BY <1>2, RetryTellsNothing DEF Rollback, logVars
<1>3. ASSUME NEW r \in Requests, Timeout(r) PROVE UNCHANGED logVars
  <2>1. reqs[r].client \in Clients /\ clients[reqs[r].client] = "wait"
    BY <1>3, FreeRow DEF Timeout, IngestInv, SenderInv, ClaimInv, Served, Listening
  <2>2. \A c \in Clients : clients'[c] = clients[c] \/ (clients[c] = "wait" /\ clients'[c] = "send")
    BY <1>3, <2>1 DEF Timeout, IngestInv, SenderInv
  <2> QED BY <1>3, <2>2 DEF Timeout, logVars, Verdict
<1>4. CASE Crash
  <2>1. \A c \in Clients : clients'[c] = clients[c] \/ (clients[c] = "wait" /\ clients'[c] = "send")
    BY <1>4 DEF Crash
  <2> QED BY <1>4, <2>1 DEF Crash, logVars, Verdict
<1>5. ASSUME NEW r \in Requests, Process(r) PROVE UNCHANGED logVars
  <2>1. CASE UNCHANGED <<effects, clients>> BY <2>1 DEF logVars, Verdict
  <2>2. CASE Rollback(r, "send") BY <1>2, <1>5, <2>2 DEF Process
  <2> QED BY <1>5, <2>1, <2>2 DEF Process
<1>6. ASSUME NEW r \in Requests, Abort(r) PROVE UNCHANGED logVars
  BY <1>2, <1>6, DeadlockedServed DEF Abort
<1>7. ASSUME NEW r \in Requests, Fail(r) PROVE UNCHANGED logVars BY <1>2, <1>7 DEF Fail
<1>8. ASSUME NEW r \in Requests, Wait(r) PROVE UNCHANGED logVars
  BY <1>1, <1>8 DEF Wait
<1>9. CASE Tick BY <1>1, <1>9 DEF Tick
<1> QED BY <1>3, <1>4, <1>5, <1>6, <1>7, <1>8, <1>9

LEMMA LogStep == ASSUME IngestInv, [Next]_vars PROVE [Log!LogNext]_logVars
<1>1. CASE UNCHANGED vars BY <1>1 DEF vars, logVars, Verdict
<1>2. ASSUME NEW r \in Requests, Commit(r) PROVE Log!LogNext BY <1>2, CommitDelivers
<1>3. ASSUME NEW r \in Requests, Claim(r) PROVE [Log!LogNext]_logVars BY <1>3, ClaimRefuses
<1>4. ASSUME NEW c \in Clients, NEW r \in Requests, Post(c, r) PROVE [Log!LogNext]_logVars
  BY <1>4, PostRefuses DEF Log!LogNext
<1>5. ASSUME Crash \/ Tick PROVE UNCHANGED logVars BY <1>5, FailuresTellNothing
<1>6. ASSUME NEW r \in Requests, Wait(r) \/ Process(r) \/ Abort(r) \/ Fail(r) \/ Timeout(r)
      PROVE  UNCHANGED logVars
  BY <1>6, FailuresTellNothing
<1> QED BY <1>1, <1>2, <1>3, <1>4, <1>5, <1>6 DEF Next, Serve

(***************************************************************************)
(* handleEvent and handleBatch with their receipts, locks, rollbacks and   *)
(* retries promise each sender what the event log promises.                *)
(***************************************************************************)
THEOREM IngestImplementsLog == Spec => ImplementsEventLog
<1>1. Init => Log!LogInit BY DEF Init, Log!LogInit
<1>2. IngestInv /\ [Next]_vars =>
        [Log!LogNext]_<<effects, [c \in Clients |-> IF clients[c] \in {"acked", "refused"}
                                                    THEN clients[c] ELSE "pending"]>>
  BY LogStep DEF logVars, Verdict
<1> QED BY <1>1, <1>2, IngestInit, IngestNext, PTL DEF Spec, ImplementsEventLog, Log!LogSpec
==============================================================================
