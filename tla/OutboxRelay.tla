----------------------------- MODULE OutboxRelay -----------------------------
(***************************************************************************)
(* MongoOutboxStore (shared/outbox/mongo-outbox-store.ts), its failure      *)
(* policy (shared/outbox/index.ts) and the cron job outbox.relay that       *)
(* empties it.  EventOutbox.relay itself is a package outside the           *)
(* repository: it claims a batch, publishes each event on the transport and *)
(* acknowledges it or fails it; every tick of the cron job is one such run. *)
(* It names itself by one consumer id per process, which the store's        *)
(* ownership checks presuppose.  The store hands out the event without its  *)
(* document's attempts (toDomainEvent), so the attempts that the policy is  *)
(* asked about are the process's own: how often it saw the event refused.   *)
(*                                                                          *)
(* Events are numbered in the order of createdAt.  A claim's lease, and the *)
(* back-off of a failed event, are over when the model says so; the claim   *)
(* loop's fixed `now` is taken as the moment of each of its claims.         *)
(***************************************************************************)
EXTENDS CronTick

CONSTANTS
    Events,    \* how many events are stored
    DeadAfter, \* the attempts after which the policy gives an event up (5)
    MaxFaults  \* bound: deaths, outrun leases, calls lost to mongo

ASSUME OutboxConstants ==
    /\ Events \in Nat
    /\ IsFiniteSet(Tick)
    /\ DeadAfter \in Nat \ {0}
    /\ MaxFaults \in Nat

Event == 1 .. Events

VARIABLES
    status,    \* of each document; "absent" before the save
    attempts,  \* how often it was claimed
    tried,     \* how often each process saw it refused by the transport
    owner,     \* leaseOwner: an instance, or Nobody
    lapsed,    \* leaseExpiresAt has passed
    backoff,   \* nextVisibleAt has not passed
    step,      \* where each tick's relay is
    batch,     \* the events it claimed and has not answered for
    published, \* history: how often the event went out on the transport
    lapses,    \* history: how often a lease on it ran out
    faults     \* how many faults have happened

docs  == <<status, attempts, owner, lapsed, backoff>>
relay == <<step, batch>>
vars  == <<cron, docs, tried, relay, published, lapses, faults>>

Step == {"none", "claiming", "publishing", "sent", "refused", "hopeless"}

Init ==
    /\ CronInit
    /\ status    = [e \in Event |-> "absent"]
    /\ attempts  = [e \in Event |-> 0]
    /\ tried     = [i \in Instance |-> [e \in Event |-> 0]]
    /\ owner     = [e \in Event |-> Nobody]
    /\ lapsed    = [e \in Event |-> FALSE]
    /\ backoff   = [e \in Event |-> FALSE]
    /\ step      = [t \in Tick |-> "none"]
    /\ batch     = [t \in Tick |-> {}]
    /\ published = [e \in Event |-> 0]
    /\ lapses    = [e \in Event |-> 0]
    /\ faults    = 0

Fault == faults < MaxFaults /\ faults' = faults + 1

Oldest(e, S) == e \in S /\ \A d \in S : e <= d
Goes(t, from, to) == step[t] = from /\ step' = [step EXCEPT ![t] = to]

-----------------------------------------------------------------------------
\* save: the event is written with the business change ...
Save(e) ==
    /\ status[e] = "absent"
    /\ \A d \in Event : d < e => status[d] # "absent"
    /\ status' = [status EXCEPT ![e] = "pending"]
    /\ UNCHANGED <<cron, tried, attempts, owner, lapsed, backoff, relay, published, lapses, faults>>

\* ... or, with mongo away, silently not.
SaveSkipped(e) ==
    /\ status[e] = "absent"
    /\ \A d \in Event : d < e => status[d] # "absent"
    /\ Fault
    /\ status' = [status EXCEPT ![e] = "lost"]
    /\ UNCHANGED <<cron, tried, attempts, owner, lapsed, backoff, relay, published, lapses>>

\* The tick has the cron lease and calls relay.
StartRelay(t) ==
    /\ Proceed(t)
    /\ step'  = [step EXCEPT ![t] = "claiming"]
    /\ batch' = [batch EXCEPT ![t] = {}]
    /\ UNCHANGED <<docs, tried, published, lapses, faults>>

\* Mutant: an expired lease is not looked at.
ClaimableUnleased(e) == status[e] = "pending" /\ ~backoff[e] /\ owner[e] = Nobody

\* claimPending: one findOneAndUpdate per event.
Claimable(e) ==
    /\ status[e] = "pending"
    /\ ~backoff[e]
    /\ owner[e] = Nobody \/ lapsed[e]

Claim(t) ==
    \E e \in Event :
        /\ Oldest(e, {d \in Event : Claimable(d)})
        /\ step[t] = "claiming"
        /\ owner'    = [owner EXCEPT ![e] = InstanceOf[t]]
        /\ lapsed'   = [lapsed EXCEPT ![e] = FALSE]
        /\ attempts' = [attempts EXCEPT ![e] = @ + 1]
        /\ batch'    = [batch EXCEPT ![t] = @ \cup {e}]
        /\ UNCHANGED <<cron, tried, status, backoff, step, published, lapses, faults>>

ClaimedAll(t) ==
    /\ \A e \in Event : ~Claimable(e)
    /\ Goes(t, "claiming", "publishing")
    /\ UNCHANGED <<cron, docs, tried, batch, published, lapses, faults>>

\* Mutant: a transport that throws is taken for a publication.
PublishIgnoringErrors(t) ==
    /\ Goes(t, "publishing", "sent")
    /\ \E e \in batch[t], out \in {0, 1} :
          /\ Oldest(e, batch[t])
          /\ published' = [published EXCEPT ![e] = @ + out]
    /\ UNCHANGED <<cron, docs, tried, batch, lapses, faults>>

\* The failure policy, asked about the attempts of this process.
Policy(i, e) == IF tried[i][e] + 1 >= DeadAfter THEN "hopeless" ELSE "refused"

\* The next event of the batch goes out, or the transport throws.
Publish(t) ==
    \E e \in batch[t] :
        /\ Oldest(e, batch[t])
        /\ \/ /\ Goes(t, "publishing", "sent")
              /\ published' = [published EXCEPT ![e] = @ + 1]
              /\ UNCHANGED tried
           \/ /\ Goes(t, "publishing", Policy(InstanceOf[t], e))
              /\ tried' = [tried EXCEPT ![InstanceOf[t]][e] = @ + 1]
              /\ UNCHANGED published
        /\ UNCHANGED <<cron, docs, batch, lapses, faults>>

\* The answer is written only where the document is still leased to us; that
\* it is not goes unnoticed.
Owns(t, e) == owner[e] = InstanceOf[t]

Answers(t, e, from) ==
    /\ Goes(t, from, "publishing")
    /\ Oldest(e, batch[t])
    /\ batch' = [batch EXCEPT ![t] = @ \ {e}]

Unlease(e) ==
    /\ owner'  = [owner EXCEPT ![e] = Nobody]
    /\ lapsed' = [lapsed EXCEPT ![e] = FALSE]

\* Mutant: the lease is given back, the status forgotten.
AcknowledgeUnlocks(t) ==
    \E e \in batch[t] :
        /\ Answers(t, e, "sent")
        /\ IF Owns(t, e) THEN Unlease(e) ELSE UNCHANGED <<owner, lapsed>>
        /\ UNCHANGED <<cron, tried, status, attempts, backoff, published, lapses, faults>>

\* acknowledge.
Acknowledge(t) ==
    \E e \in batch[t] :
        /\ Answers(t, e, "sent")
        /\ \/ Owns(t, e) /\ Unlease(e) /\ status' = [status EXCEPT ![e] = "delivered"]
           \/ ~Owns(t, e) /\ UNCHANGED <<status, owner, lapsed>>
        /\ UNCHANGED <<cron, tried, attempts, backoff, published, lapses, faults>>

\* What the policy's decision makes of the document.
PutBack(e, from) ==
    /\ Unlease(e)
    /\ status'  = [status EXCEPT ![e] = IF from = "hopeless" THEN "dead_letter" ELSE "pending"]
    /\ backoff' = [backoff EXCEPT ![e] = from = "refused"]

\* Mutant: fail looks the document up by its eventId only.
FailByEventId(t) ==
    \E e \in batch[t], from \in {"refused", "hopeless"} :
        /\ Answers(t, e, from)
        /\ PutBack(e, from)
        /\ UNCHANGED <<cron, attempts, tried, published, lapses, faults>>

\* Mutant: a status the schema does not know.
FailAsFailed(t) ==
    \E e \in batch[t], from \in {"refused", "hopeless"} :
        /\ Answers(t, e, from)
        /\ Owns(t, e) /\ Unlease(e)
        /\ status' = [status EXCEPT ![e] = "failed"]
        /\ UNCHANGED <<cron, attempts, tried, backoff, published, lapses, faults>>

\* fail, with the decision of the failure policy.
Fail(t) ==
    \E e \in batch[t], from \in {"refused", "hopeless"} :
        /\ Answers(t, e, from)
        /\ \/ Owns(t, e) /\ PutBack(e, from)
           \/ ~Owns(t, e) /\ UNCHANGED <<owner, lapsed, status, backoff>>
        /\ UNCHANGED <<cron, attempts, tried, published, lapses, faults>>

\* With mongo away both return without a word.
AnswerLost(t) ==
    \E e \in batch[t], from \in {"sent", "refused", "hopeless"} :
        /\ Answers(t, e, from)
        /\ Fault
        /\ UNCHANGED <<cron, docs, tried, published, lapses>>

EndRelay(t) ==
    /\ batch[t] = {}
    /\ Goes(t, "publishing", "none")
    /\ Finish(t)
    /\ UNCHANGED <<docs, tried, batch, published, lapses, faults>>

-----------------------------------------------------------------------------
Work(e) == {t \in Tick : e \in batch[t]}

\* The clocks.  A lease may run out on a run that is only slow.
LeaseExpires(e) ==
    /\ owner[e] # Nobody /\ ~lapsed[e]
    /\ IF Work(e) = {} THEN UNCHANGED faults ELSE Fault
    /\ lapsed' = [lapsed EXCEPT ![e] = TRUE]
    /\ lapses' = [lapses EXCEPT ![e] = @ + 1]
    /\ UNCHANGED <<cron, tried, status, attempts, owner, backoff, relay, published>>

BackoffEnds(e) ==
    /\ backoff[e]
    /\ backoff' = [backoff EXCEPT ![e] = FALSE]
    /\ UNCHANGED <<cron, tried, status, attempts, owner, lapsed, relay, published, lapses, faults>>

\* A replica dies, the last one excepted.
Dies(i) ==
    /\ Fault
    /\ Cardinality(alive) > 1
    /\ Die(i)
    /\ step'  = [t \in Tick |-> IF InstanceOf[t] = i THEN "none" ELSE step[t]]
    /\ batch' = [t \in Tick |-> IF InstanceOf[t] = i THEN {} ELSE batch[t]]
    /\ UNCHANGED <<docs, tried, published, lapses>>

TickFires(t)   == Fire(t) /\ UNCHANGED <<docs, tried, relay, published, lapses, faults>>
TickLocks(t)   == LockGranted(t) /\ UNCHANGED <<docs, tried, relay, published, lapses, faults>>
TickSkipped(t) == LockRefused(t) /\ UNCHANGED <<docs, tried, relay, published, lapses, faults>>
TickErrs(t)    == LockErrs(t) /\ Fault /\ UNCHANGED <<docs, tried, relay, published, lapses>>
CronLeaseEnds  == LeaseEnds /\ UNCHANGED <<docs, tried, relay, published, lapses, faults>>

TickStep(t) ==
    \/ TickFires(t) \/ TickLocks(t) \/ TickSkipped(t) \/ StartRelay(t)
    \/ Claim(t) \/ ClaimedAll(t) \/ Publish(t) \/ Acknowledge(t) \/ Fail(t) \/ EndRelay(t)

Next ==
    \/ \E t \in Tick : TickStep(t) \/ TickErrs(t) \/ AnswerLost(t)
    \/ \E e \in Event : Save(e) \/ SaveSkipped(e) \/ LeaseExpires(e) \/ BackoffEnds(e)
    \/ \E i \in Instance : Dies(i)
    \/ CronLeaseEnds

Spec == Init /\ [][Next]_vars

\* Fairness: timers fire, runs go on, leases and back-offs end.
FairSpec ==
    /\ Spec
    /\ \A t \in Tick : WF_vars(TickStep(t))
    /\ \A e \in Event : WF_vars(LeaseExpires(e)) /\ WF_vars(BackoffEnds(e))
    /\ WF_vars(CronLeaseEnds)

-----------------------------------------------------------------------------
TypeOK ==
    /\ CronTypeOK
    /\ status    \in [Event -> {"absent", "lost", "pending", "delivered", "dead_letter"}]
    /\ attempts  \in [Event -> Nat]
    /\ tried     \in [Instance -> [Event -> Nat]]
    /\ owner     \in [Event -> Instance \cup {Nobody}]
    /\ lapsed    \in [Event -> BOOLEAN]
    /\ backoff   \in [Event -> BOOLEAN]
    /\ step      \in [Tick -> Step]
    /\ batch     \in [Tick -> SUBSET Event]
    /\ published \in [Event -> Nat]
    /\ lapses    \in [Event -> Nat]
    /\ faults    \in 0 .. MaxFaults

\* Subscribers see an event twice only if a lease on it ran out in between:
\* overlapping ticks and concurrent replicas alone never publish it twice.
OncePerLease == \A e \in Event : published[e] <= 1 + lapses[e]

\* What the outbox calls delivered went out on the transport, and what it
\* gives up on was tried as often as the policy says; its document shows it,
\* although the policy is asked about the attempts of one process only.
SettledHonestly ==
    \A e \in Event :
        /\ status[e] = "delivered" => published[e] > 0
        /\ status[e] = "dead_letter" => attempts[e] >= DeadAfter

\* A late answer, of a run whose lease went to another or of another run of
\* the same instance, never brings a settled event back.
SettledForGood ==
    [][\A e \in Event : status[e] \in {"delivered", "dead_letter"} => status'[e] = status[e]]_vars

\* No stored event waits for ever, although replicas die, answers get lost and
\* leases end early (finitely often); with SettledForGood: each is delivered
\* or given up, and stays so.
EventsSettle == <>[](\A e \in Event : status[e] # "pending")
=============================================================================
