------------------------- MODULE OutboxRelay_proof -------------------------
(***************************************************************************)
(* The safety of OutboxRelay, for any number of replicas, ticks and events,  *)
(* any failure policy bound and any number of faults.                        *)
(*                                                                          *)
(* AloneUnlessOverrun rests on LeaseBehind: a tick that runs within its      *)
(* lease has its replica in the lock document.  OncePerLease counts: every   *)
(* lease on an event is a token; a run that claimed the event holds it until *)
(* it published the event, gave it up or put it back (Pend), and a new token *)
(* appears only when a lease runs out.  The same count bounds how often a    *)
(* process goes on trying an event its policy has given up.  SettledHonestly *)
(* compares the count of the process, which the policy is asked about, with  *)
(* the one in the document, which the claims keep (Tried).                   *)
(***************************************************************************)
EXTENDS OutboxRelay, FiniteSetTheorems, TLAPS

LeaseBehind ==
    \A t \in Tick : at[t] \in {"locked", "running"} /\ t \notin overran
        => holder = InstanceOf[t] /\ ~over

\* What the documents, the batches and the history have to do with each other.
Consistent ==
    /\ \A e \in Event : status[e] # "pending" => owner[e] = Nobody
    /\ \A e \in Event : status[e] \in {"absent", "lost"} =>
          published[e] = 0 /\ \A i \in Instance : tried[i][e] = 0
    /\ \A t \in Tick : \A e \in batch[t] : status[e] \notin {"absent", "lost"}
    /\ \A t \in Tick : \A e \in Event :
          step[t] = "sent" /\ Oldest(e, batch[t]) => published[e] > 0

\* The runs that may still publish the event on the lease they took.
Pend(e) == {t \in Tick : e \in batch[t] /\ ~(step[t] \in {"sent", "hopeless"} /\ Oldest(e, batch[t]))}

Free(e) == status[e] = "pending" /\ (owner[e] = Nobody \/ lapsed[e])

\* 1 when the present lease is out of everybody else's reach.
Held(e) == IF Free(e) THEN 0 ELSE 1

\* How often a process saw the event refused once its policy had given it up.
Over(i, e) == IF tried[i][e] < DeadAfter THEN 0 ELSE tried[i][e] - DeadAfter + 1

Fits(p, n, S, l, h) == p + n + Cardinality(S) <= l + h

Tokens ==
    \A e \in Event :
        /\ Fits(published[e], 0, Pend(e), lapses[e], Held(e))
        /\ \A i \in Instance : Fits(published[e], Over(i, e), Pend(e), lapses[e], Held(e))

\* The runs of an instance that claimed the event and have not heard of it yet.
Open(i, e) ==
    {t \in Tick : /\ InstanceOf[t] = i /\ e \in batch[t]
                  /\ ~(step[t] \in {"sent", "refused", "hopeless"} /\ Oldest(e, batch[t]))}

\* Every attempt a process counted was a claim the document counted, and what
\* a process calls hopeless it tried often enough.
Tried ==
    /\ \A i \in Instance : \A e \in Event : tried[i][e] + Cardinality(Open(i, e)) <= attempts[e]
    /\ \A t \in Tick : \A e \in Event :
          step[t] = "hopeless" /\ Oldest(e, batch[t]) => tried[InstanceOf[t]][e] >= DeadAfter

IInv == TypeOK /\ LeaseBehind /\ Consistent /\ Tried /\ SettledHonestly /\ Tokens

-----------------------------------------------------------------------------
(* Sizes of finite sets, as the counting of tokens needs them.              *)
LEMMA SmallerSet ==
  ASSUME NEW S, NEW T, IsFiniteSet(T), S \subseteq T
  PROVE  Cardinality(S) \in Nat /\ Cardinality(T) \in Nat /\ Cardinality(S) <= Cardinality(T)
  BY FS_Subset, FS_CardinalityType

(* One element more counts one more at most.                                *)
LEMMA GrownSet ==
  ASSUME NEW S, NEW T, NEW x, IsFiniteSet(T), S \subseteq T \cup {x}
  PROVE  Cardinality(S) \in Nat /\ Cardinality(S) <= Cardinality(T) + 1
  <1>0. Cardinality(T) \in Nat
    BY FS_CardinalityType
  <1>1. IsFiniteSet(T \cup {x}) /\ Cardinality(T \cup {x}) <= Cardinality(T) + 1
    <2>1. CASE x \in T
      <3>1. T \cup {x} = T
        BY <2>1
      <3>2. Cardinality(T) <= Cardinality(T) + 1
        BY <1>0
      <3> QED
        BY <3>1, <3>2, Zenon
    <2>2. CASE x \notin T
      <3>1. IsFiniteSet(T \cup {x}) /\ Cardinality(T \cup {x}) = Cardinality(T) + 1
        BY <2>2, FS_AddElement, Zenon
      <3> QED
        BY <3>1, <1>0
    <2> QED
      BY <2>1, <2>2
  <1> QED
    BY <1>1, SmallerSet, FS_CardinalityType

(* One element less counts one less at least.                               *)
LEMMA ShrunkSet ==
  ASSUME NEW S, NEW T, NEW x \in T, IsFiniteSet(T), S \subseteq T \ {x}
  PROVE  Cardinality(S) \in Nat /\ Cardinality(S) + 1 <= Cardinality(T)
  <1>1. IsFiniteSet(T \ {x}) /\ Cardinality(T \ {x}) = Cardinality(T) - 1
    BY FS_RemoveElement
  <1> QED
    BY <1>1, SmallerSet, FS_CardinalityType

(* There are finitely many ticks, hence finitely many runs with a token.    *)
LEMMA PendFinite == \A e \in Event : IsFiniteSet(Pend(e)) /\ Cardinality(Pend(e)) \in Nat
  BY OutboxConstants, FS_Subset, FS_CardinalityType DEF Pend

LEMMA OpenFinite ==
  \A i \in Instance, e \in Event : IsFiniteSet(Open(i, e)) /\ Cardinality(Open(i, e)) \in Nat
  BY OutboxConstants, FS_Subset, FS_CardinalityType DEF Open

(* A publication adds one to the count of its event.                         *)
LEMMA OneMore ==
  ASSUME NEW f \in [Event -> Nat], NEW e \in Event, NEW g,
         g = f \/ g = [f EXCEPT ![e] = f[e] + 1]
  PROVE  \A d \in Event : f[d] \in Nat /\ g[d] \in {f[d], f[d] + 1}
  OBVIOUS

(* A refusal adds one to its process's count of the event.                   *)
LEMMA OneMoreOf ==
  ASSUME NEW f \in [Instance -> [Event -> Nat]], NEW j \in Instance, NEW e \in Event, NEW g,
         g = f \/ g = [f EXCEPT ![j][e] = f[j][e] + 1]
  PROVE  \A i \in Instance, d \in Event : d # e => g[i][d] = f[i][d]
  OBVIOUS

(* At most one event of a batch is the oldest.                              *)
LEMMA OldestUnique ==
  ASSUME NEW S, S \subseteq Event, NEW d, NEW e, Oldest(d, S), Oldest(e, S)
  PROVE  d = e
  BY DEF Oldest, Event

LEMMA TokenTypes ==
  ASSUME TypeOK
  PROVE  \A e \in Event :
           /\ published[e] \in Nat /\ lapses[e] \in Nat /\ Held(e) \in {0, 1}
           /\ \A i \in Instance : tried[i][e] \in Nat /\ Over(i, e) \in Nat
  BY OutboxConstants DEF TypeOK, Held, Over

(* A step after which no more runs may publish, and no more documents are    *)
(* free, keeps the tokens.                                                   *)
LEMMA TokensKept ==
  ASSUME TypeOK, Tokens, published' = published, lapses' = lapses, tried' = tried,
         \A e \in Event : Pend(e)' \subseteq Pend(e),
         \A e \in Event : Free(e)' => Free(e)
  PROVE  Tokens'
  <1>1. \A e \in Event : Held(e)' \in {0, 1} /\ Held(e) <= Held(e)'
    BY DEF Held
  <1>2. \A i \in Instance, e \in Event : Over(i, e)' = Over(i, e)
    BY DEF Over
  <1>3. ASSUME NEW e \in Event, NEW n \in Nat, Fits(published[e], n, Pend(e), lapses[e], Held(e))
        PROVE  Fits(published'[e], n, Pend(e)', lapses'[e], Held(e)')
    <2>1. Cardinality(Pend(e)') \in Nat /\ Cardinality(Pend(e)') <= Cardinality(Pend(e))
      BY PendFinite, SmallerSet
    <2> QED
      BY <1>1, <1>3, <2>1, TokenTypes, PendFinite DEF Fits
  <1> QED
    BY <1>2, <1>3, TokenTypes DEF Tokens

-----------------------------------------------------------------------------
(* The initial states satisfy the invariant.                                *)
THEOREM InitEstablishes == Init => IInv
  <1> SUFFICES ASSUME Init PROVE IInv
    OBVIOUS
  <1> USE CronConstants, OutboxConstants
  <1>1. TypeOK
    <2>1. CronTypeOK
      BY DEF Init, CronInit, CronTypeOK
    <2>2. /\ status \in [Event -> {"absent", "lost", "pending", "delivered", "dead_letter"}]
          /\ step \in [Tick -> Step] /\ batch \in [Tick -> SUBSET Event]
      BY DEF Init, Step
    <2>3. /\ tried \in [Instance -> [Event -> Nat]]
          /\ attempts \in [Event -> Nat] /\ published \in [Event -> Nat] /\ lapses \in [Event -> Nat]
      BY DEF Init
    <2>4. owner \in [Event -> Instance \cup {Nobody}] /\ faults \in 0 .. MaxFaults
      BY DEF Init
    <2>5. lapsed \in [Event -> BOOLEAN] /\ backoff \in [Event -> BOOLEAN]
      BY DEF Init
    <2> QED
      BY <2>1, <2>2, <2>3, <2>4, <2>5 DEF TypeOK
  <1>2. LeaseBehind /\ Consistent /\ SettledHonestly
    BY DEF Init, CronInit, LeaseBehind, Consistent, SettledHonestly, Oldest
  <1>3. \A e \in Event : Pend(e) = {}
    BY DEF Init, Pend
  <1>4. Tokens
    <2>1. \A i \in Instance, e \in Event : Over(i, e) = 0
      BY DEF Init, Over
    <2>2. \A e \in Event : Held(e) = 1
      BY DEF Init, Held, Free
    <2> QED
      BY <1>3, <2>1, <2>2, FS_EmptySet DEF Init, Tokens, Fits
  <1>5. Tried
    <2>1. \A i \in Instance, e \in Event : Open(i, e) = {}
      BY DEF Init, Open
    <2> QED
      <3>1. \A i \in Instance, e \in Event : Cardinality(Open(i, e)) = 0
        BY <2>1, FS_EmptySet
      <3>2. \A i \in Instance, e \in Event : tried[i][e] = 0 /\ attempts[e] = 0
        BY DEF Init
      <3>3. \A t \in Tick : step[t] # "hopeless"
        BY DEF Init
      <3> QED
        BY <3>1, <3>2, <3>3 DEF Tried
  <1> QED
    BY <1>1, <1>2, <1>4, <1>5 DEF IInv

(* Every step keeps the types.                                              *)
THEOREM StepKeepsTypes == TypeOK /\ [Next]_vars => TypeOK'
  <1> SUFFICES ASSUME TypeOK, Next
      PROVE  TypeOK'
    BY DEF vars, cron, docs, relay, TypeOK, CronTypeOK, Step
  <1> USE CronConstants, OutboxConstants DEF
        TypeOK, CronTypeOK, Step, cron, docs, relay
  <1>1. ASSUME NEW e \in Event, Save(e) PROVE TypeOK'
    BY <1>1 DEF Save
  <1>2. ASSUME NEW e \in Event, SaveSkipped(e) PROVE TypeOK'
    BY <1>2 DEF SaveSkipped, Fault
  <1>3. ASSUME NEW t \in Tick, StartRelay(t) PROVE TypeOK'
    BY <1>3 DEF StartRelay, Proceed, Move
  <1>4. ASSUME NEW t \in Tick, Claim(t) PROVE TypeOK'
    BY <1>4 DEF Claim, Oldest, Claimable
  <1>5. ASSUME NEW t \in Tick, ClaimedAll(t) PROVE TypeOK'
    BY <1>5 DEF ClaimedAll, Goes
  <1>6. ASSUME NEW t \in Tick, Publish(t) PROVE TypeOK'
    <2> PICK e \in batch[t] : Publish(t)!(e)
      BY <1>6 DEF Publish
    <2>1. step' \in [Tick -> Step]
      BY DEF Goes, Policy
    <2>2. published' \in [Event -> Nat]
      <3>1. \/ published' = published
            \/ published' = [published EXCEPT ![e] = published[e] + 1] /\ published[e] + 1 \in Nat
        OBVIOUS
      <3> QED
        BY <3>1
    <2>3. tried' \in [Instance -> [Event -> Nat]]
      <3> DEFINE j == InstanceOf[t]
                 f == [tried[j] EXCEPT ![e] = tried[j][e] + 1]
      <3>1. f \in [Event -> Nat]
        OBVIOUS
      <3>2. tried' = tried \/ tried' = [tried EXCEPT ![j] = f]
        OBVIOUS
      <3> HIDE DEF f
      <3> QED
        BY <3>1, <3>2
    <2> QED
      BY <2>1, <2>2, <2>3
  <1>7. ASSUME NEW t \in Tick, Acknowledge(t) PROVE TypeOK'
    <2> PICK e \in batch[t] : Acknowledge(t)!(e)
      BY <1>7 DEF Acknowledge
    <2>1. step' \in [Tick -> Step] /\ batch' \in [Tick -> SUBSET Event]
      BY DEF Answers, Goes
    <2>2. owner' \in [Event -> Instance \cup {Nobody}]
      BY DEF Unlease
    <2>3. lapsed' \in [Event -> BOOLEAN]
      BY DEF Unlease
    <2>4. status' \in [Event -> {"absent", "lost", "pending", "delivered", "dead_letter"}]
      OBVIOUS
    <2> QED
      BY <2>1, <2>2, <2>3, <2>4
  <1>8. ASSUME NEW t \in Tick, Fail(t) PROVE TypeOK'
    <2> PICK e \in batch[t], from \in {"refused", "hopeless"} : Fail(t)!(e, from)
      BY <1>8 DEF Fail
    <2>1. step' \in [Tick -> Step] /\ batch' \in [Tick -> SUBSET Event]
      BY DEF Answers, Goes
    <2>2. owner' \in [Event -> Instance \cup {Nobody}]
      BY DEF PutBack, Unlease
    <2>3. lapsed' \in [Event -> BOOLEAN]
      BY DEF PutBack, Unlease
    <2>4. status' \in [Event -> {"absent", "lost", "pending", "delivered", "dead_letter"}]
      BY DEF PutBack
    <2>5. backoff' \in [Event -> BOOLEAN]
      BY DEF PutBack
    <2> QED
      BY <2>1, <2>2, <2>3, <2>4, <2>5
  <1>9. ASSUME NEW t \in Tick, AnswerLost(t) PROVE TypeOK'
    BY <1>9 DEF AnswerLost, Answers, Goes, Fault
  <1>10. ASSUME NEW t \in Tick, EndRelay(t) PROVE TypeOK'
    BY <1>10 DEF EndRelay, Goes, Finish, Move
  <1>11. ASSUME NEW e \in Event, LeaseExpires(e) PROVE TypeOK'
    BY <1>11 DEF LeaseExpires, Fault
  <1>12. ASSUME NEW e \in Event, BackoffEnds(e) PROVE TypeOK'
    BY <1>12 DEF BackoffEnds
  <1>13. ASSUME NEW i \in Instance, Dies(i) PROVE TypeOK'
    BY <1>13 DEF Dies, Die, Fault
  <1>14. ASSUME NEW t \in Tick, TickFires(t) PROVE TypeOK'
    BY <1>14 DEF TickFires, Fire, Move
  <1>15. ASSUME NEW t \in Tick, TickSkipped(t) PROVE TypeOK'
    BY <1>15 DEF TickSkipped, LockRefused, Move
  <1>16. ASSUME NEW t \in Tick, TickErrs(t) PROVE TypeOK'
    BY <1>16 DEF TickErrs, LockErrs, Move, Fault
  <1>17. CASE CronLeaseEnds
    BY <1>17 DEF CronLeaseEnds, LeaseEnds
  <1>18. ASSUME NEW t \in Tick, TickLocks(t) PROVE TypeOK'
    BY <1>18 DEF TickLocks, LockGranted, CanLock, Move
  <1> QED
    BY <1>1, <1>2, <1>3, <1>4, <1>5, <1>6, <1>7, <1>8, <1>9,
       <1>10, <1>11, <1>12, <1>13, <1>14, <1>15, <1>16, <1>17, <1>18 DEF Next, TickStep

(* The lock: a lease is taken over only when it has run out, and the ticks   *)
(* it belonged to are then known to overrun.                                 *)
THEOREM StepKeepsLease == TypeOK /\ LeaseBehind /\ [Next]_vars => LeaseBehind'
  <1> SUFFICES ASSUME TypeOK, LeaseBehind, Next
      PROVE  LeaseBehind'
    BY DEF vars, cron, docs, relay, TypeOK, CronTypeOK, LeaseBehind
  <1> USE CronConstants, OutboxConstants DEF
        TypeOK, CronTypeOK, LeaseBehind, cron, docs, relay
  <1>1. ASSUME NEW e \in Event, Save(e) PROVE LeaseBehind'
    BY <1>1 DEF Save
  <1>2. ASSUME NEW e \in Event, SaveSkipped(e) PROVE LeaseBehind'
    BY <1>2 DEF SaveSkipped, Fault
  <1>3. ASSUME NEW t \in Tick, StartRelay(t) PROVE LeaseBehind'
    BY <1>3 DEF StartRelay, Proceed, Move
  <1>4. ASSUME NEW t \in Tick, Claim(t) PROVE LeaseBehind'
    BY <1>4 DEF Claim, Oldest, Claimable
  <1>5. ASSUME NEW t \in Tick, ClaimedAll(t) PROVE LeaseBehind'
    BY <1>5 DEF ClaimedAll, Goes
  <1>6. ASSUME NEW t \in Tick, Publish(t) PROVE LeaseBehind'
    BY <1>6 DEF Publish, Goes
  <1>7. ASSUME NEW t \in Tick, Acknowledge(t) PROVE LeaseBehind'
    BY <1>7 DEF Acknowledge, Answers, Goes, Owns, Unlease
  <1>8. ASSUME NEW t \in Tick, Fail(t) PROVE LeaseBehind'
    BY <1>8 DEF Fail, Answers, Goes, Owns, PutBack, Unlease
  <1>9. ASSUME NEW t \in Tick, AnswerLost(t) PROVE LeaseBehind'
    BY <1>9 DEF AnswerLost, Answers, Goes, Fault
  <1>10. ASSUME NEW t \in Tick, EndRelay(t) PROVE LeaseBehind'
    BY <1>10 DEF EndRelay, Goes, Finish, Move
  <1>11. ASSUME NEW e \in Event, LeaseExpires(e) PROVE LeaseBehind'
    BY <1>11 DEF LeaseExpires, Fault
  <1>12. ASSUME NEW e \in Event, BackoffEnds(e) PROVE LeaseBehind'
    BY <1>12 DEF BackoffEnds
  <1>13. ASSUME NEW i \in Instance, Dies(i) PROVE LeaseBehind'
    BY <1>13 DEF Dies, Die, Fault
  <1>14. ASSUME NEW t \in Tick, TickFires(t) PROVE LeaseBehind'
    BY <1>14 DEF TickFires, Fire, Move
  <1>15. ASSUME NEW t \in Tick, TickSkipped(t) PROVE LeaseBehind'
    BY <1>15 DEF TickSkipped, LockRefused, Move
  <1>16. ASSUME NEW t \in Tick, TickErrs(t) PROVE LeaseBehind'
    BY <1>16 DEF TickErrs, LockErrs, Move, Fault
  <1>17. CASE CronLeaseEnds
    BY <1>17 DEF CronLeaseEnds, LeaseEnds
  <1>18. ASSUME NEW t \in Tick, TickLocks(t) PROVE LeaseBehind'
    BY <1>18 DEF TickLocks, LockGranted, CanLock, Move
  <1> QED
    BY <1>1, <1>2, <1>3, <1>4, <1>5, <1>6, <1>7, <1>8, <1>9,
       <1>10, <1>11, <1>12, <1>13, <1>14, <1>15, <1>16, <1>17, <1>18 DEF Next, TickStep

(* What one publication does to the counts: those of its event grow by one   *)
(* at most.                                                                 *)
LEMMA PublishCounts ==
  ASSUME TypeOK, NEW t \in Tick, NEW e \in batch[t], Publish(t)!(e)
  PROVE  /\ \A d \in Event : published[d] \in Nat /\ published'[d] \in {published[d], published[d] + 1}
         /\ step'[t] = "sent" => published'[e] = published[e] + 1
         /\ \A i \in Instance, d \in Event : d # e => tried'[i][d] = tried[i][d]
  <1>1. /\ published \in [Event -> Nat] /\ tried \in [Instance -> [Event -> Nat]]
        /\ e \in Event /\ InstanceOf[t] \in Instance /\ step \in [Tick -> Step]
    BY CronConstants DEF TypeOK
  <1>2. \/ /\ Goes(t, "publishing", "sent") /\ tried' = tried
           /\ published' = [published EXCEPT ![e] = published[e] + 1]
        \/ /\ Goes(t, "publishing", Policy(InstanceOf[t], e)) /\ published' = published
           /\ tried' = [tried EXCEPT ![InstanceOf[t]][e] = tried[InstanceOf[t]][e] + 1]
    OBVIOUS
  <1>3. published' = published \/ published' = [published EXCEPT ![e] = published[e] + 1]
    BY <1>2
  <1>4. tried' = tried \/ tried' = [tried EXCEPT ![InstanceOf[t]][e] = tried[InstanceOf[t]][e] + 1]
    BY <1>2
  <1>5. \A d \in Event : published[d] \in Nat /\ published'[d] \in {published[d], published[d] + 1}
    BY <1>1, <1>3, OneMore
  <1>6. step'[t] = "sent" => published'[e] = published[e] + 1
    BY <1>1, <1>2 DEF Goes, Policy
  <1>7. \A i \in Instance, d \in Event : d # e => tried'[i][d] = tried[i][d]
    BY <1>1, <1>4, OneMoreOf
  <1> QED
    BY <1>5, <1>6, <1>7

(* A run counts as having published only what went out.                      *)
LEMMA PublishKeepsHonest ==
  ASSUME TypeOK, Consistent, SettledHonestly, NEW t \in Tick, Publish(t)
  PROVE  Consistent' /\ SettledHonestly'
  <1>0. PICK e \in batch[t] : Publish(t)!(e)
    BY DEF Publish
  <1>1. /\ batch' = batch /\ status' = status /\ owner' = owner /\ attempts' = attempts
        /\ e \in Event /\ Oldest(e, batch[t])
    BY <1>0 DEF docs, TypeOK
  <1>2. \A u \in Tick : u # t => step'[u] = step[u]
    BY <1>0 DEF Goes, TypeOK
  <1>3. /\ \A d \in Event : published[d] \in Nat /\ published'[d] \in {published[d], published[d] + 1}
        /\ step'[t] = "sent" => published'[e] = published[e] + 1
        /\ \A i \in Instance, d \in Event : d # e => tried'[i][d] = tried[i][d]
    BY <1>0, PublishCounts
  <1>4. \A d \in Event : d # e => published'[d] = published[d]
    BY <1>0, <1>1 DEF TypeOK
  <1>5. \A d \in Event : published[d] > 0 => published'[d] > 0
    BY <1>3
  <1>6. step'[t] = "sent" => published'[e] > 0
    BY <1>1, <1>3
  <1>7. /\ \A d \in Event : status'[d] # "pending" => owner'[d] = Nobody
        /\ \A u \in Tick : \A d \in batch'[u] : status'[d] \notin {"absent", "lost"}
    BY <1>1 DEF Consistent
  <1>8. \A d \in Event : status'[d] \in {"absent", "lost"} =>
           published'[d] = 0 /\ \A i \in Instance : tried'[i][d] = 0
    <2>1. status[e] \notin {"absent", "lost"}
      BY <1>1 DEF Consistent, Oldest
    <2> QED
      BY <1>1, <1>3, <1>4, <2>1 DEF Consistent
  <1>9. ASSUME NEW u \in Tick, NEW d \in Event, step'[u] = "sent", Oldest(d, batch'[u])
         PROVE  published'[d] > 0
    <2>1. CASE u = t
      <3>1. d = e
        BY <1>1, <1>9, <2>1 DEF Oldest, Event
      <3> QED
        BY <1>6, <1>9, <2>1, <3>1
    <2>2. CASE u # t
      <3>1. published[d] > 0
        BY <1>1, <1>2, <1>9, <2>2 DEF Consistent
      <3> QED
        BY <1>5, <3>1
    <2> QED
      BY <2>1, <2>2
  <1>10. SettledHonestly'
    BY <1>1, <1>5 DEF SettledHonestly
  <1> QED
    BY <1>7, <1>8, <1>9, <1>10 DEF Consistent

(* The document of an event that its process gives up on shows the attempts.  *)
LEMMA HopelessWasTried ==
  ASSUME TypeOK, Tried, NEW t \in Tick, NEW e \in Event,
         step[t] = "hopeless", Oldest(e, batch[t])
  PROVE  attempts[e] >= DeadAfter
  <1>1. InstanceOf[t] \in Instance
    BY CronConstants
  <1>2. tried[InstanceOf[t]][e] >= DeadAfter
    BY DEF Tried
  <1>3. tried[InstanceOf[t]][e] + Cardinality(Open(InstanceOf[t], e)) <= attempts[e]
    BY <1>1 DEF Tried
  <1>4. Cardinality(Open(InstanceOf[t], e)) \in Nat
    BY <1>1, OpenFinite
  <1>5. tried[InstanceOf[t]][e] \in Nat /\ attempts[e] \in Nat /\ DeadAfter \in Nat
    BY <1>1, OutboxConstants DEF TypeOK
  <1> QED
    BY <1>2, <1>3, <1>4, <1>5

(* Answers are only written under the lease, which settled events have lost. *)
THEOREM StepKeepsConsistent ==
    TypeOK /\ Consistent /\ Tried /\ SettledHonestly /\ [Next]_vars => Consistent' /\ SettledHonestly'
  <1> SUFFICES ASSUME TypeOK, Consistent, Tried, SettledHonestly, Next
      PROVE  Consistent' /\ SettledHonestly'
    BY DEF vars, cron, docs, relay, TypeOK, Consistent, SettledHonestly, Event, Oldest
  <1> USE CronConstants, OutboxConstants DEF
        TypeOK, Consistent, SettledHonestly, Event, Oldest, cron, docs, relay
  <1>1. ASSUME NEW e \in Event, Save(e) PROVE Consistent' /\ SettledHonestly'
    BY <1>1 DEF Save
  <1>2. ASSUME NEW e \in Event, SaveSkipped(e) PROVE Consistent' /\ SettledHonestly'
    BY <1>2 DEF SaveSkipped, Fault
  <1>3. ASSUME NEW t \in Tick, StartRelay(t) PROVE Consistent' /\ SettledHonestly'
    BY <1>3 DEF StartRelay, Proceed, Move
  <1>4. ASSUME NEW t \in Tick, Claim(t) PROVE Consistent' /\ SettledHonestly'
    <2> PICK e \in Event : Claim(t)!(e)
      BY <1>4 DEF Claim
    <2>1. /\ status' = status /\ published' = published /\ tried' = tried /\ step' = step
          /\ status[e] = "pending" /\ step[t] = "claiming"
      BY DEF Claimable
    <2>2. \A d \in Event : d # e => owner'[d] = owner[d]
      OBVIOUS
    <2>3. \A u \in Tick : u # t => batch'[u] = batch[u]
      OBVIOUS
    <2>4. batch'[t] = batch[t] \cup {e}
      OBVIOUS
    <2>5. \A d \in Event : attempts[d] \in Nat /\ attempts'[d] \in {attempts[d], attempts[d] + 1}
      OBVIOUS
    <2>6. Consistent'
      <3>1. \A d \in Event : status'[d] # "pending" => owner'[d] = Nobody
        BY <2>1, <2>2
      <3>2. \A d \in Event : status'[d] \in {"absent", "lost"} =>
               published'[d] = 0 /\ \A i \in Instance : tried'[i][d] = 0
        BY <2>1
      <3>3. \A u \in Tick : \A d \in batch'[u] : status'[d] \notin {"absent", "lost"}
        BY <2>1, <2>3, <2>4
      <3>4. \A u \in Tick : \A d \in Event :
               step'[u] = "sent" /\ Oldest(d, batch'[u]) => published'[d] > 0
        BY <2>1, <2>3
      <3> QED
        BY <3>1, <3>2, <3>3, <3>4
    <2>7. SettledHonestly'
      BY <2>1, <2>5
    <2> QED
      BY <2>6, <2>7
  <1>5. ASSUME NEW t \in Tick, ClaimedAll(t) PROVE Consistent' /\ SettledHonestly'
    BY <1>5 DEF ClaimedAll, Goes
  <1>6. ASSUME NEW t \in Tick, Publish(t) PROVE Consistent' /\ SettledHonestly'
    BY <1>6, PublishKeepsHonest
  <1>7. ASSUME NEW t \in Tick, Acknowledge(t) PROVE Consistent' /\ SettledHonestly'
    <2> PICK e \in batch[t] : Acknowledge(t)!(e)
      BY <1>7 DEF Acknowledge
    <2>1. published[e] > 0 /\ status[e] \notin {"absent", "lost"}
      BY DEF Answers, Goes
    <2>2. /\ \A u \in Tick : step'[u] = "sent" => u # t /\ step[u] = "sent"
          /\ \A u \in Tick : u # t => batch'[u] = batch[u]
          /\ batch'[t] \subseteq batch[t]
      BY DEF Answers, Goes
    <2>3. /\ \A d \in Event : d # e => owner'[d] = owner[d] /\ status'[d] = status[d]
          /\ \/ owner'[e] = Nobody /\ status'[e] = "delivered"
             \/ owner'[e] = owner[e] /\ status'[e] = status[e]
      BY DEF Unlease
    <2> QED
      BY <2>1, <2>2, <2>3
  <1>8. ASSUME NEW t \in Tick, Fail(t) PROVE Consistent' /\ SettledHonestly'
    <2> PICK e \in batch[t], from \in {"refused", "hopeless"} : Fail(t)!(e, from)
      BY <1>8 DEF Fail
    <2>1. status[e] \notin {"absent", "lost"}
      OBVIOUS
    <2>2. /\ \A u \in Tick : step'[u] = "sent" => u # t /\ step[u] = "sent"
          /\ \A u \in Tick : u # t => batch'[u] = batch[u]
          /\ batch'[t] \subseteq batch[t]
      BY DEF Answers, Goes
    <2>3. /\ \A d \in Event : d # e => owner'[d] = owner[d] /\ status'[d] = status[d]
          /\ \/ owner'[e] = Nobody /\ status'[e] = "pending"
             \/ owner'[e] = Nobody /\ status'[e] = "dead_letter" /\ from = "hopeless"
             \/ owner'[e] = owner[e] /\ status'[e] = status[e]
      BY DEF PutBack, Unlease
    <2>4. ASSUME from = "hopeless" PROVE attempts[e] >= DeadAfter
      <3>1. step[t] = "hopeless" /\ Oldest(e, batch[t])
        BY <2>4 DEF Answers, Goes
      <3> QED
        BY <3>1, HopelessWasTried
    <2> QED
      BY <2>1, <2>2, <2>3, <2>4
  <1>9. ASSUME NEW t \in Tick, AnswerLost(t) PROVE Consistent' /\ SettledHonestly'
    <2> PICK e \in batch[t], from \in {"sent", "refused", "hopeless"} : AnswerLost(t)!(e, from)
      BY <1>9 DEF AnswerLost
    <2>1. /\ \A u \in Tick : step'[u] = "sent" => u # t /\ step[u] = "sent"
          /\ \A u \in Tick : u # t => batch'[u] = batch[u]
          /\ batch'[t] \subseteq batch[t]
      BY DEF Answers, Goes
    <2>2. /\ status' = status /\ owner' = owner /\ attempts' = attempts
          /\ published' = published /\ tried' = tried
      OBVIOUS
    <2> QED
      BY <2>1, <2>2
  <1>10. ASSUME NEW t \in Tick, EndRelay(t) PROVE Consistent' /\ SettledHonestly'
    BY <1>10 DEF EndRelay, Goes, Finish, Move
  <1>11. ASSUME NEW e \in Event, LeaseExpires(e) PROVE Consistent' /\ SettledHonestly'
    BY <1>11 DEF LeaseExpires, Fault
  <1>12. ASSUME NEW e \in Event, BackoffEnds(e) PROVE Consistent' /\ SettledHonestly'
    BY <1>12 DEF BackoffEnds
  <1>13. ASSUME NEW i \in Instance, Dies(i) PROVE Consistent' /\ SettledHonestly'
    BY <1>13 DEF Dies, Die, Fault
  <1>14. ASSUME NEW t \in Tick, TickFires(t) PROVE Consistent' /\ SettledHonestly'
    BY <1>14 DEF TickFires, Fire, Move
  <1>15. ASSUME NEW t \in Tick, TickSkipped(t) PROVE Consistent' /\ SettledHonestly'
    BY <1>15 DEF TickSkipped, LockRefused, Move
  <1>16. ASSUME NEW t \in Tick, TickErrs(t) PROVE Consistent' /\ SettledHonestly'
    BY <1>16 DEF TickErrs, LockErrs, Move, Fault
  <1>17. CASE CronLeaseEnds
    BY <1>17 DEF CronLeaseEnds, LeaseEnds
  <1>18. ASSUME NEW t \in Tick, TickLocks(t) PROVE Consistent' /\ SettledHonestly'
    BY <1>18 DEF TickLocks, LockGranted, CanLock, Move
  <1> QED
    BY <1>1, <1>2, <1>3, <1>4, <1>5, <1>6, <1>7, <1>8, <1>9,
       <1>10, <1>11, <1>12, <1>13, <1>14, <1>15, <1>16, <1>17, <1>18 DEF Next, TickStep

(* Publishing, and a hopeless try, spend the token of their lease; putting   *)
(* the event back returns it.                                               *)
THEOREM StepKeepsTokens ==
    TypeOK /\ Consistent /\ Tokens /\ [Next]_vars => Tokens'
  <1> SUFFICES ASSUME TypeOK, Consistent, Tokens, Next
      PROVE  Tokens'
    <2> SUFFICES ASSUME TypeOK, Tokens, UNCHANGED vars PROVE Tokens'
      OBVIOUS
    <2> QED
      BY TokensKept DEF vars, docs, relay, Pend, Free
  <1> USE CronConstants, OutboxConstants DEF TypeOK, cron, docs, relay
  <1>1. ASSUME NEW e \in Event, Save(e) PROVE Tokens'
    <2>1. \A d \in Event : Pend(d)' = Pend(d)
      BY <1>1 DEF Save, Pend
    <2>2. published' = published /\ lapses' = lapses /\ \A d \in Event : d # e => Held(d)' = Held(d)
      BY <1>1 DEF Save, Held, Free
    <2>3. \A i \in Instance, d \in Event : Over(i, d)' = Over(i, d)
      BY <1>1 DEF Save, Over
    <2>4. Pend(e) = {} /\ published[e] = 0 /\ Held(e)' \in {0, 1}
      BY <1>1 DEF Save, Pend, Consistent, Held
    <2>5. \A i \in Instance : Over(i, e) = 0
      BY <1>1 DEF Save, Consistent, Over
    <2>6. Fits(published'[e], 0, Pend(e)', lapses'[e], Held(e)')
      <3>1. Cardinality(Pend(e)') = 0
        BY <2>1, <2>4, FS_EmptySet
      <3> QED
        BY <2>2, <2>4, <3>1, TokenTypes DEF Fits
    <2>7. ASSUME NEW d \in Event
          PROVE  /\ Fits(published'[d], 0, Pend(d)', lapses'[d], Held(d)')
                 /\ \A i \in Instance : Fits(published'[d], Over(i, d)', Pend(d)', lapses'[d], Held(d)')
      <3>1. CASE d = e
        BY <2>3, <2>5, <2>6, <3>1
      <3>2. CASE d # e
        BY <2>1, <2>2, <2>3, <3>2 DEF Tokens
      <3> QED
        BY <3>1, <3>2
    <2> QED
      BY <2>7 DEF Tokens
  <1>2. ASSUME NEW e \in Event, SaveSkipped(e) PROVE Tokens'
    <2>1. \A d \in Event : Pend(d)' \subseteq Pend(d)
      BY <1>2 DEF SaveSkipped, Fault, Pend, Oldest, Event
    <2>2. /\ published' = published /\ lapses' = lapses /\ tried' = tried
          /\ \A d \in Event : Free(d)' => Free(d)
      BY <1>2 DEF SaveSkipped, Fault, Free
    <2> QED
      BY <2>1, <2>2, TokensKept
  <1>3. ASSUME NEW t \in Tick, StartRelay(t) PROVE Tokens'
    <2>1. \A d \in Event : Pend(d)' \subseteq Pend(d)
      BY <1>3 DEF StartRelay, Pend, Oldest, Event
    <2>2. /\ published' = published /\ lapses' = lapses /\ tried' = tried
          /\ \A d \in Event : Free(d)' => Free(d)
      BY <1>3 DEF StartRelay, Free
    <2> QED
      BY <2>1, <2>2, TokensKept
  <1>4. ASSUME NEW t \in Tick, Claim(t) PROVE Tokens'
    <2> PICK e \in Event : Claim(t)!(e)
      BY <1>4 DEF Claim
    <2>1. Held(e) = 0 /\ Held(e)' = 1
      BY DEF Oldest, Claimable, Held, Free
    <2>2. \A d \in Event : d # e => Pend(d)' = Pend(d) /\ Held(d)' = Held(d)
      BY DEF Pend, Held, Free, Oldest
    <2>3. Pend(e)' \subseteq Pend(e) \cup {t}
      BY DEF Pend, Oldest
    <2>4. published' = published /\ lapses' = lapses
      OBVIOUS
    <2>5. \A i \in Instance, d \in Event : Over(i, d)' = Over(i, d)
      BY DEF Over
    <2>6. ASSUME NEW n \in Nat, Fits(published[e], n, Pend(e), lapses[e], Held(e))
          PROVE  Fits(published'[e], n, Pend(e)', lapses'[e], Held(e)')
      <3>1. Cardinality(Pend(e)') \in Nat /\ Cardinality(Pend(e)') <= Cardinality(Pend(e)) + 1
        BY <2>3, PendFinite, GrownSet
      <3> QED
        BY <2>1, <2>4, <2>6, <3>1, TokenTypes, PendFinite DEF Fits
    <2>7. ASSUME NEW d \in Event
          PROVE  /\ Fits(published'[d], 0, Pend(d)', lapses'[d], Held(d)')
                 /\ \A i \in Instance : Fits(published'[d], Over(i, d)', Pend(d)', lapses'[d], Held(d)')
      <3>1. CASE d = e
        BY <2>5, <2>6, <3>1, TokenTypes DEF Tokens
      <3>2. CASE d # e
        BY <2>2, <2>4, <2>5, <3>2 DEF Tokens
      <3> QED
        BY <3>1, <3>2
    <2> QED
      BY <2>7 DEF Tokens
  <1>5. ASSUME NEW t \in Tick, ClaimedAll(t) PROVE Tokens'
    <2>1. \A d \in Event : Pend(d)' \subseteq Pend(d)
      BY <1>5 DEF ClaimedAll, Goes, Pend, Oldest, Event
    <2>2. /\ published' = published /\ lapses' = lapses /\ tried' = tried
          /\ \A d \in Event : Free(d)' => Free(d)
      BY <1>5 DEF ClaimedAll, Goes, Free
    <2> QED
      BY <2>1, <2>2, TokensKept
  <1>6. ASSUME NEW t \in Tick, Publish(t) PROVE Tokens'
    <2> PICK e \in batch[t] : Publish(t)!(e)
      BY <1>6 DEF Publish
    <2>1. \A d \in Event : Held(d)' = Held(d) /\ (d # e => Pend(d)' = Pend(d))
      <3>1. \A d \in Event : Held(d)' = Held(d)
        BY DEF docs, Held, Free
      <3>2. \A d \in Event : d # e => Pend(d)' = Pend(d)
        BY OldestUnique DEF Pend, Goes, Policy
      <3> QED
        BY <3>1, <3>2
    <2>2. lapses' = lapses /\ Pend(e)' \subseteq Pend(e)
      BY DEF Pend, Goes, Policy
    <2>3. \A i \in Instance, d \in Event : d # e => published'[d] = published[d] /\ Over(i, d)' = Over(i, d)
      BY DEF Over
    <2>4. CASE Goes(t, "publishing", "sent") /\ published' = [published EXCEPT ![e] = published[e] + 1] /\ UNCHANGED tried
      <3>1. t \in Pend(e) /\ Pend(e)' \subseteq Pend(e) \ {t}
        BY <2>4 DEF Pend, Goes
      <3>2. published'[e] = published[e] + 1 /\ \A i \in Instance : Over(i, e)' = Over(i, e)
        BY <2>4 DEF Over
      <3>3. ASSUME NEW n \in Nat, Fits(published[e], n, Pend(e), lapses[e], Held(e))
            PROVE  Fits(published'[e], n, Pend(e)', lapses'[e], Held(e)')
        <4>1. Cardinality(Pend(e)') \in Nat /\ Cardinality(Pend(e)') + 1 <= Cardinality(Pend(e))
          BY <3>1, PendFinite, ShrunkSet
        <4> QED
          BY <2>1, <2>2, <3>2, <3>3, <4>1, TokenTypes, PendFinite DEF Fits
      <3>4. /\ Fits(published'[e], 0, Pend(e)', lapses'[e], Held(e)')
            /\ \A i \in Instance : Fits(published'[e], Over(i, e)', Pend(e)', lapses'[e], Held(e)')
        BY <3>2, <3>3, TokenTypes DEF Tokens
      <3> QED
        BY <2>1, <2>2, <2>3, <3>4 DEF Tokens
    <2>5. CASE /\ Goes(t, "publishing", Policy(InstanceOf[t], e)) /\ UNCHANGED published
               /\ tried' = [tried EXCEPT ![InstanceOf[t]][e] = tried[InstanceOf[t]][e] + 1]
      <3>1. /\ \A i \in Instance : i # InstanceOf[t] => Over(i, e)' = Over(i, e)
            /\ tried'[InstanceOf[t]][e] = tried[InstanceOf[t]][e] + 1
        BY <2>5 DEF Over
      <3>2. ASSUME NEW n \in Nat, Fits(published[e], n, Pend(e), lapses[e], Held(e))
            PROVE  Fits(published'[e], n, Pend(e)', lapses'[e], Held(e)')
        <4>1. Cardinality(Pend(e)') \in Nat /\ Cardinality(Pend(e)') <= Cardinality(Pend(e))
          BY <2>2, PendFinite, SmallerSet
        <4>2. /\ published[e] \in Nat /\ lapses[e] \in Nat /\ Held(e) \in {0, 1}
              /\ Cardinality(Pend(e)) \in Nat
          BY TokenTypes, PendFinite
        <4>3. published'[e] = published[e] /\ lapses'[e] = lapses[e] /\ Held(e)' = Held(e)
          BY <2>1, <2>2, <2>5
        <4>4. published[e] + n + Cardinality(Pend(e)) <= lapses[e] + Held(e)
          BY <3>2 DEF Fits
        <4>5. published'[e] + n + Cardinality(Pend(e)') <= lapses'[e] + Held(e)'
          BY <4>1, <4>2, <4>3, <4>4
        <4> QED
          BY <4>5 DEF Fits
      <3>3. Fits(published'[e], Over(InstanceOf[t], e)', Pend(e)', lapses'[e], Held(e)')
        <4> DEFINE n == Over(InstanceOf[t], e)
        <4>1. n \in Nat /\ Fits(published[e], n, Pend(e), lapses[e], Held(e))
          BY TokenTypes DEF Tokens
        <4>2. CASE tried[InstanceOf[t]][e] + 1 < DeadAfter
          <5>1. Over(InstanceOf[t], e)' = n
            BY <3>1, <4>2, TokenTypes DEF Over
          <5> QED
            BY <5>1, <4>1, <3>2
        <4>3. CASE tried[InstanceOf[t]][e] + 1 >= DeadAfter
          <5>1. Over(InstanceOf[t], e)' = n + 1
            BY <3>1, <4>3, TokenTypes DEF Over
          <5>2. t \in Pend(e) /\ Pend(e)' \subseteq Pend(e) \ {t}
            BY <2>5, <4>3 DEF Pend, Goes, Policy
          <5>3. Fits(published[e], n + 1, Pend(e)', lapses[e], Held(e))
            <6>1. Cardinality(Pend(e)') \in Nat /\ Cardinality(Pend(e)') + 1 <= Cardinality(Pend(e))
              BY <5>2, PendFinite, ShrunkSet
            <6> HIDE DEF n
            <6> QED
              BY <4>1, <6>1, TokenTypes, PendFinite DEF Fits
          <5> QED
            BY <2>1, <2>2, <2>5, <5>1, <5>3
        <4> QED
          BY <4>2, <4>3, TokenTypes
      <3>4. /\ Fits(published'[e], 0, Pend(e)', lapses'[e], Held(e)')
            /\ \A i \in Instance : Fits(published'[e], Over(i, e)', Pend(e)', lapses'[e], Held(e)')
        BY <3>1, <3>2, <3>3, TokenTypes DEF Tokens
      <3> QED
        BY <2>1, <2>2, <2>3, <3>4 DEF Tokens
    <2> QED
      BY <2>4, <2>5
  <1>7. ASSUME NEW t \in Tick, Acknowledge(t) PROVE Tokens'
    <2> PICK e \in batch[t] : Acknowledge(t)!(e)
      BY <1>7 DEF Acknowledge
    <2>1. \A d \in Event : Pend(d)' \subseteq Pend(d)
      BY OldestUnique DEF Answers, Goes, Pend
    <2>2. \A d \in Event : Free(d)' => Free(d)
      BY DEF Unlease, Free
    <2> QED
      BY <2>1, <2>2, TokensKept
  <1>8. ASSUME NEW t \in Tick, Fail(t) PROVE Tokens'
    <2> PICK e \in batch[t], from \in {"refused", "hopeless"} : Fail(t)!(e, from)
      BY <1>8 DEF Fail
    <2>1. \A d \in Event : Pend(d)' \subseteq Pend(d)
      BY OldestUnique DEF Answers, Goes, Pend
    <2>2. CASE from = "hopeless"
      <3>1. \A d \in Event : Free(d)' => Free(d)
        BY <2>2 DEF PutBack, Unlease, Free
      <3> QED
        BY <2>1, <3>1, TokensKept
    <2>3. CASE from = "refused"
      <3>1. t \in Pend(e) /\ Pend(e)' \subseteq Pend(e) \ {t}
        BY <2>3, OldestUnique DEF Answers, Goes, Pend
      <3>2. \A d \in Event : Held(d)' \in {0, 1} /\ (d # e => Held(d)' = Held(d))
        BY DEF PutBack, Unlease, Held, Free
      <3>3. \A i \in Instance, d \in Event : Over(i, d)' = Over(i, d)
        BY DEF Over
      <3>4. published' = published /\ lapses' = lapses
        OBVIOUS
      <3>5. ASSUME NEW d \in Event, NEW n \in Nat, Fits(published[d], n, Pend(d), lapses[d], Held(d))
            PROVE  Fits(published'[d], n, Pend(d)', lapses'[d], Held(d)')
        <4>1. CASE d = e
          <5>1. Cardinality(Pend(e)') \in Nat /\ Cardinality(Pend(e)') + 1 <= Cardinality(Pend(e))
            BY <3>1, PendFinite, ShrunkSet
          <5> QED
            BY <3>2, <3>4, <3>5, <4>1, <5>1, TokenTypes, PendFinite DEF Fits
        <4>2. CASE d # e
          <5>1. Cardinality(Pend(d)') \in Nat /\ Cardinality(Pend(d)') <= Cardinality(Pend(d))
            BY <2>1, PendFinite, SmallerSet
          <5> QED
            BY <3>2, <3>4, <3>5, <4>2, <5>1, TokenTypes, PendFinite DEF Fits
        <4> QED
          BY <4>1, <4>2
      <3> QED
        BY <3>3, <3>5, TokenTypes DEF Tokens
    <2> QED
      BY <2>2, <2>3
  <1>9. ASSUME NEW t \in Tick, AnswerLost(t) PROVE Tokens'
    <2>1. \A d \in Event : Pend(d)' \subseteq Pend(d)
      BY <1>9, OldestUnique DEF AnswerLost, Answers, Goes, Pend
    <2>2. /\ published' = published /\ lapses' = lapses /\ tried' = tried
          /\ \A d \in Event : Free(d)' => Free(d)
      BY <1>9 DEF AnswerLost, Answers, Goes, Free
    <2> QED
      BY <2>1, <2>2, TokensKept
  <1>10. ASSUME NEW t \in Tick, EndRelay(t) PROVE Tokens'
    <2>1. \A d \in Event : Pend(d)' \subseteq Pend(d)
      BY <1>10 DEF EndRelay, Goes, Pend, Oldest, Event
    <2>2. /\ published' = published /\ lapses' = lapses /\ tried' = tried
          /\ \A d \in Event : Free(d)' => Free(d)
      BY <1>10 DEF EndRelay, Goes, Free
    <2> QED
      BY <2>1, <2>2, TokensKept
  <1>11. ASSUME NEW e \in Event, LeaseExpires(e) PROVE Tokens'
    <2>1. \A d \in Event : Pend(d)' = Pend(d)
      BY <1>11 DEF LeaseExpires, Pend
    <2>2. \A d \in Event : d # e => Held(d)' = Held(d) /\ lapses'[d] = lapses[d]
      BY <1>11 DEF LeaseExpires, Held, Free
    <2>3. lapses'[e] = lapses[e] + 1 /\ published' = published /\ Held(e)' \in {0, 1}
      BY <1>11 DEF LeaseExpires, Held
    <2>4. \A i \in Instance, d \in Event : Over(i, d)' = Over(i, d)
      BY <1>11 DEF LeaseExpires, Over
    <2>5. ASSUME NEW n \in Nat, Fits(published[e], n, Pend(e), lapses[e], Held(e))
          PROVE  Fits(published'[e], n, Pend(e)', lapses'[e], Held(e)')
      <3>1. Cardinality(Pend(e)') = Cardinality(Pend(e))
        BY <2>1
      <3> QED
        BY <2>3, <2>5, <3>1, TokenTypes, PendFinite DEF Fits
    <2>6. ASSUME NEW d \in Event
          PROVE  /\ Fits(published'[d], 0, Pend(d)', lapses'[d], Held(d)')
                 /\ \A i \in Instance : Fits(published'[d], Over(i, d)', Pend(d)', lapses'[d], Held(d)')
      <3>1. CASE d = e
        BY <2>4, <2>5, <3>1, TokenTypes DEF Tokens
      <3>2. CASE d # e
        BY <2>1, <2>2, <2>3, <2>4, <3>2 DEF Tokens
      <3> QED
        BY <3>1, <3>2
    <2> QED
      BY <2>6 DEF Tokens
  <1>12. ASSUME NEW e \in Event, BackoffEnds(e) PROVE Tokens'
    <2>1. \A d \in Event : Pend(d)' \subseteq Pend(d)
      BY <1>12 DEF BackoffEnds, Pend, Oldest, Event
    <2>2. /\ published' = published /\ lapses' = lapses /\ tried' = tried
          /\ \A d \in Event : Free(d)' => Free(d)
      BY <1>12 DEF BackoffEnds, Free
    <2> QED
      BY <2>1, <2>2, TokensKept
  <1>13. ASSUME NEW i \in Instance, Dies(i) PROVE Tokens'
    <2>1. \A d \in Event : Pend(d)' \subseteq Pend(d)
      BY <1>13 DEF Dies, Pend, Oldest, Event
    <2>2. /\ published' = published /\ lapses' = lapses /\ tried' = tried
          /\ \A d \in Event : Free(d)' => Free(d)
      BY <1>13 DEF Dies, Free
    <2> QED
      BY <2>1, <2>2, TokensKept
  <1>14. ASSUME NEW t \in Tick, TickFires(t) PROVE Tokens'
    <2>1. \A d \in Event : Pend(d)' \subseteq Pend(d)
      BY <1>14 DEF TickFires, Pend, Oldest, Event
    <2>2. /\ published' = published /\ lapses' = lapses /\ tried' = tried
          /\ \A d \in Event : Free(d)' => Free(d)
      BY <1>14 DEF TickFires, Free
    <2> QED
      BY <2>1, <2>2, TokensKept
  <1>15. ASSUME NEW t \in Tick, TickSkipped(t) PROVE Tokens'
    <2>1. \A d \in Event : Pend(d)' \subseteq Pend(d)
      BY <1>15 DEF TickSkipped, Pend, Oldest, Event
    <2>2. /\ published' = published /\ lapses' = lapses /\ tried' = tried
          /\ \A d \in Event : Free(d)' => Free(d)
      BY <1>15 DEF TickSkipped, Free
    <2> QED
      BY <2>1, <2>2, TokensKept
  <1>16. ASSUME NEW t \in Tick, TickErrs(t) PROVE Tokens'
    <2>1. \A d \in Event : Pend(d)' \subseteq Pend(d)
      BY <1>16 DEF TickErrs, Pend, Oldest, Event
    <2>2. /\ published' = published /\ lapses' = lapses /\ tried' = tried
          /\ \A d \in Event : Free(d)' => Free(d)
      BY <1>16 DEF TickErrs, Free
    <2> QED
      BY <2>1, <2>2, TokensKept
  <1>17. CASE CronLeaseEnds
    <2>1. \A d \in Event : Pend(d)' \subseteq Pend(d)
      BY <1>17 DEF CronLeaseEnds, Pend, Oldest, Event
    <2>2. /\ published' = published /\ lapses' = lapses /\ tried' = tried
          /\ \A d \in Event : Free(d)' => Free(d)
      BY <1>17 DEF CronLeaseEnds, Free
    <2> QED
      BY <2>1, <2>2, TokensKept
  <1>18. ASSUME NEW t \in Tick, TickLocks(t) PROVE Tokens'
    <2>1. \A d \in Event : Pend(d)' \subseteq Pend(d)
      BY <1>18 DEF TickLocks, Pend, Oldest, Event
    <2>2. /\ published' = published /\ lapses' = lapses /\ tried' = tried
          /\ \A d \in Event : Free(d)' => Free(d)
      BY <1>18 DEF TickLocks, Free
    <2> QED
      BY <2>1, <2>2, TokensKept
  <1> QED
    BY <1>1, <1>2, <1>3, <1>4, <1>5, <1>6, <1>7, <1>8, <1>9,
       <1>10, <1>11, <1>12, <1>13, <1>14, <1>15, <1>16, <1>17, <1>18 DEF Next, TickStep

(* A step that adds no run to those that have not heard of the event, and    *)
(* lets no count grow, keeps the counts in line.                            *)
LEMMA TriedKept ==
  ASSUME TypeOK, Tried, tried' = tried, attempts' = attempts,
         \A i \in Instance, e \in Event : Open(i, e)' \subseteq Open(i, e),
         \A t \in Tick, e \in Event :
            step'[t] = "hopeless" /\ Oldest(e, batch'[t]) => step[t] = "hopeless" /\ Oldest(e, batch[t])
  PROVE  Tried'
  <1>1. \A i \in Instance, e \in Event :
           /\ Cardinality(Open(i, e)') \in Nat /\ Cardinality(Open(i, e)) \in Nat
           /\ Cardinality(Open(i, e)') <= Cardinality(Open(i, e))
    BY OpenFinite, SmallerSet
  <1>2. \A i \in Instance, e \in Event : tried[i][e] \in Nat /\ attempts[e] \in Nat
    BY DEF TypeOK
  <1>3. ASSUME NEW i \in Instance, NEW e \in Event
        PROVE  tried'[i][e] + Cardinality(Open(i, e)') <= attempts'[e]
    <2>1. tried[i][e] + Cardinality(Open(i, e)) <= attempts[e]
      BY DEF Tried
    <2> QED
      BY <1>1, <1>2, <2>1
  <1>4. ASSUME NEW t \in Tick, NEW e \in Event, step'[t] = "hopeless", Oldest(e, batch'[t])
        PROVE  tried'[InstanceOf[t]][e] >= DeadAfter
    BY <1>4 DEF Tried
  <1> QED
    BY <1>3, <1>4 DEF Tried

(* The count of a process runs behind the count in the document.            *)
THEOREM StepKeepsTried == TypeOK /\ Tried /\ [Next]_vars => Tried'
  <1> SUFFICES ASSUME TypeOK, Tried, Next
      PROVE  Tried'
    <2> SUFFICES ASSUME TypeOK, Tried, UNCHANGED vars PROVE Tried'
      OBVIOUS
    <2> QED
      BY TriedKept DEF vars, docs, relay, Open
  <1> USE CronConstants, OutboxConstants DEF TypeOK, cron, docs, relay
  <1>1. ASSUME NEW e \in Event, Save(e) PROVE Tried'
    <2>1. /\ tried' = tried /\ attempts' = attempts
          /\ \A i \in Instance, d \in Event : Open(i, d)' \subseteq Open(i, d)
      BY <1>1 DEF Save, Open, Oldest, Event
    <2>2. \A u \in Tick, d \in Event :
             step'[u] = "hopeless" /\ Oldest(d, batch'[u]) => step[u] = "hopeless" /\ Oldest(d, batch[u])
      BY <1>1 DEF Save, Oldest
    <2> QED
      BY <2>1, <2>2, TriedKept
  <1>2. ASSUME NEW e \in Event, SaveSkipped(e) PROVE Tried'
    <2>1. /\ tried' = tried /\ attempts' = attempts
          /\ \A i \in Instance, d \in Event : Open(i, d)' \subseteq Open(i, d)
      BY <1>2 DEF SaveSkipped, Fault, Open, Oldest, Event
    <2>2. \A u \in Tick, d \in Event :
             step'[u] = "hopeless" /\ Oldest(d, batch'[u]) => step[u] = "hopeless" /\ Oldest(d, batch[u])
      BY <1>2 DEF SaveSkipped, Fault, Oldest
    <2> QED
      BY <2>1, <2>2, TriedKept
  <1>3. ASSUME NEW t \in Tick, StartRelay(t) PROVE Tried'
    <2>1. /\ tried' = tried /\ attempts' = attempts
          /\ \A i \in Instance, d \in Event : Open(i, d)' \subseteq Open(i, d)
      BY <1>3 DEF StartRelay, Open, Oldest, Event
    <2>2. \A u \in Tick, d \in Event :
             step'[u] = "hopeless" /\ Oldest(d, batch'[u]) => step[u] = "hopeless" /\ Oldest(d, batch[u])
      BY <1>3 DEF StartRelay, Oldest
    <2> QED
      BY <2>1, <2>2, TriedKept
  <1>4. ASSUME NEW t \in Tick, Claim(t) PROVE Tried'
    <2> PICK e \in Event : Claim(t)!(e)
      BY <1>4 DEF Claim
    <2> DEFINE j == InstanceOf[t]
    <2>1. attempts'[e] = attempts[e] + 1 /\ \A d \in Event : d # e => attempts'[d] = attempts[d]
      OBVIOUS
    <2>2. \A i \in Instance, d \in Event : i # j \/ d # e => Open(i, d)' = Open(i, d)
      BY DEF Open, Oldest
    <2>3. Open(j, e)' \subseteq Open(j, e) \cup {t}
      BY DEF Open, Oldest
    <2>4. Cardinality(Open(j, e)') \in Nat /\ Cardinality(Open(j, e)') <= Cardinality(Open(j, e)) + 1
      BY <2>3, OpenFinite, GrownSet
    <2>5. ASSUME NEW i \in Instance, NEW d \in Event
          PROVE  tried'[i][d] + Cardinality(Open(i, d)') <= attempts'[d]
      <3>1. /\ tried[i][d] + Cardinality(Open(i, d)) <= attempts[d]
            /\ tried[i][d] \in Nat /\ attempts[d] \in Nat /\ Cardinality(Open(i, d)) \in Nat
        BY OpenFinite DEF Tried
      <3>2. attempts'[d] >= attempts[d]
        BY <2>1, <3>1
      <3>3. CASE i = j /\ d = e
        BY <2>1, <2>4, <3>1, <3>3
      <3>4. CASE i # j \/ d # e
        BY <2>2, <3>1, <3>2, <3>4
      <3> QED
        BY <3>3, <3>4
    <2>6. \A u \in Tick, d \in Event :
             step'[u] = "hopeless" /\ Oldest(d, batch'[u]) => tried'[InstanceOf[u]][d] >= DeadAfter
      BY DEF Tried, Oldest
    <2> QED
      BY <2>5, <2>6 DEF Tried
  <1>5. ASSUME NEW t \in Tick, ClaimedAll(t) PROVE Tried'
    <2>1. /\ tried' = tried /\ attempts' = attempts
          /\ \A i \in Instance, d \in Event : Open(i, d)' \subseteq Open(i, d)
      BY <1>5 DEF ClaimedAll, Goes, Open, Oldest, Event
    <2>2. \A u \in Tick, d \in Event :
             step'[u] = "hopeless" /\ Oldest(d, batch'[u]) => step[u] = "hopeless" /\ Oldest(d, batch[u])
      BY <1>5 DEF ClaimedAll, Goes, Oldest
    <2> QED
      BY <2>1, <2>2, TriedKept
  <1>6. ASSUME NEW t \in Tick, Publish(t) PROVE Tried'
    <2> PICK e \in batch[t] : Publish(t)!(e)
      BY <1>6 DEF Publish
    <2> DEFINE j == InstanceOf[t]
    <2>1. \A i \in Instance, d \in Event : Open(i, d)' \subseteq Open(i, d)
      BY DEF Open, Goes, Policy
    <2>2. attempts' = attempts /\ batch' = batch
      OBVIOUS
    <2>3. CASE Goes(t, "publishing", "sent") /\ UNCHANGED tried
      <3>1. \A u \in Tick : step'[u] = "hopeless" => step[u] = "hopeless"
        BY <2>3 DEF Goes
      <3> QED
        BY <2>1, <2>2, <2>3, <3>1, TriedKept
    <2>4. CASE /\ Goes(t, "publishing", Policy(j, e))
               /\ tried' = [tried EXCEPT ![j][e] = tried[j][e] + 1]
      <3>1. t \in Open(j, e) /\ Open(j, e)' \subseteq Open(j, e) \ {t}
        BY <2>2, <2>4 DEF Open, Goes, Policy
      <3>2. Cardinality(Open(j, e)') \in Nat /\ Cardinality(Open(j, e)') + 1 <= Cardinality(Open(j, e))
        BY <3>1, OpenFinite, ShrunkSet
      <3>3. /\ tried'[j][e] = tried[j][e] + 1
            /\ \A i \in Instance, d \in Event : i # j \/ d # e => tried'[i][d] = tried[i][d]
        BY <2>4
      <3>4. ASSUME NEW i \in Instance, NEW d \in Event
            PROVE  tried'[i][d] + Cardinality(Open(i, d)') <= attempts'[d]
        <4>1. /\ tried[i][d] + Cardinality(Open(i, d)) <= attempts[d]
              /\ tried[i][d] \in Nat /\ attempts[d] \in Nat /\ Cardinality(Open(i, d)) \in Nat
          BY OpenFinite DEF Tried
        <4>2. CASE i = j /\ d = e
          BY <2>2, <3>2, <3>3, <4>1, <4>2
        <4>3. CASE i # j \/ d # e
          <5>1. Cardinality(Open(i, d)') \in Nat /\ Cardinality(Open(i, d)') <= Cardinality(Open(i, d))
            BY <2>1, OpenFinite, SmallerSet
          <5> QED
            BY <2>2, <3>3, <4>1, <4>3, <5>1
        <4> QED
          BY <4>2, <4>3
      <3>5. ASSUME NEW u \in Tick, NEW d \in Event, step'[u] = "hopeless", Oldest(d, batch'[u])
            PROVE  tried'[InstanceOf[u]][d] >= DeadAfter
        <4>0. /\ tried[InstanceOf[u]][d] \in Nat
              /\ tried'[InstanceOf[u]][d] \in {tried[InstanceOf[u]][d], tried[InstanceOf[u]][d] + 1}
          BY <3>3
        <4>1. CASE u = t
          <5>1. d = e
            BY <2>2, <3>5, <4>1 DEF Oldest, Event
          <5>2. tried[j][e] + 1 >= DeadAfter
            BY <2>4, <3>5, <4>1 DEF Goes, Policy
          <5> QED
            BY <3>3, <4>1, <5>1, <5>2
        <4>2. CASE u # t
          <5>1. tried[InstanceOf[u]][d] >= DeadAfter
            BY <2>2, <2>4, <3>5, <4>2 DEF Goes, Tried
          <5> QED
            BY <4>0, <5>1
        <4> QED
          BY <4>1, <4>2
      <3> QED
        BY <3>4, <3>5 DEF Tried
    <2> QED
      BY <2>3, <2>4
  <1>7. ASSUME NEW t \in Tick, Acknowledge(t) PROVE Tried'
    <2> PICK e \in batch[t] : Acknowledge(t)!(e)
      BY <1>7 DEF Acknowledge
    <2>1. \A i \in Instance, d \in Event : Open(i, d)' \subseteq Open(i, d)
      BY OldestUnique DEF Answers, Goes, Open
    <2>2. \A u \in Tick, d \in Event :
             step'[u] = "hopeless" /\ Oldest(d, batch'[u]) => step[u] = "hopeless" /\ Oldest(d, batch[u])
      BY DEF Answers, Goes
    <2> QED
      BY <2>1, <2>2, TriedKept
  <1>8. ASSUME NEW t \in Tick, Fail(t) PROVE Tried'
    <2> PICK e \in batch[t], from \in {"refused", "hopeless"} : Fail(t)!(e, from)
      BY <1>8 DEF Fail
    <2>1. \A i \in Instance, d \in Event : Open(i, d)' \subseteq Open(i, d)
      BY OldestUnique DEF Answers, Goes, Open
    <2>2. \A u \in Tick, d \in Event :
             step'[u] = "hopeless" /\ Oldest(d, batch'[u]) => step[u] = "hopeless" /\ Oldest(d, batch[u])
      BY DEF Answers, Goes
    <2> QED
      BY <2>1, <2>2, TriedKept
  <1>9. ASSUME NEW t \in Tick, AnswerLost(t) PROVE Tried'
    <2>1. /\ tried' = tried /\ attempts' = attempts
          /\ \A i \in Instance, d \in Event : Open(i, d)' \subseteq Open(i, d)
      BY <1>9, OldestUnique DEF AnswerLost, Answers, Goes, Open
    <2>2. \A u \in Tick, d \in Event :
             step'[u] = "hopeless" /\ Oldest(d, batch'[u]) => step[u] = "hopeless" /\ Oldest(d, batch[u])
      BY <1>9 DEF AnswerLost, Answers, Goes, Oldest
    <2> QED
      BY <2>1, <2>2, TriedKept
  <1>10. ASSUME NEW t \in Tick, EndRelay(t) PROVE Tried'
    <2>1. /\ tried' = tried /\ attempts' = attempts
          /\ \A i \in Instance, d \in Event : Open(i, d)' \subseteq Open(i, d)
      BY <1>10 DEF EndRelay, Goes, Open, Oldest, Event
    <2>2. \A u \in Tick, d \in Event :
             step'[u] = "hopeless" /\ Oldest(d, batch'[u]) => step[u] = "hopeless" /\ Oldest(d, batch[u])
      BY <1>10 DEF EndRelay, Goes, Oldest
    <2> QED
      BY <2>1, <2>2, TriedKept
  <1>11. ASSUME NEW e \in Event, LeaseExpires(e) PROVE Tried'
    <2>1. /\ tried' = tried /\ attempts' = attempts
          /\ \A i \in Instance, d \in Event : Open(i, d)' \subseteq Open(i, d)
      BY <1>11 DEF LeaseExpires, Open, Oldest, Event
    <2>2. \A u \in Tick, d \in Event :
             step'[u] = "hopeless" /\ Oldest(d, batch'[u]) => step[u] = "hopeless" /\ Oldest(d, batch[u])
      BY <1>11 DEF LeaseExpires, Oldest
    <2> QED
      BY <2>1, <2>2, TriedKept
  <1>12. ASSUME NEW e \in Event, BackoffEnds(e) PROVE Tried'
    <2>1. /\ tried' = tried /\ attempts' = attempts
          /\ \A i \in Instance, d \in Event : Open(i, d)' \subseteq Open(i, d)
      BY <1>12 DEF BackoffEnds, Open, Oldest, Event
    <2>2. \A u \in Tick, d \in Event :
             step'[u] = "hopeless" /\ Oldest(d, batch'[u]) => step[u] = "hopeless" /\ Oldest(d, batch[u])
      BY <1>12 DEF BackoffEnds, Oldest
    <2> QED
      BY <2>1, <2>2, TriedKept
  <1>13. ASSUME NEW i \in Instance, Dies(i) PROVE Tried'
    <2>1. /\ tried' = tried /\ attempts' = attempts
          /\ \A j \in Instance, d \in Event : Open(j, d)' \subseteq Open(j, d)
      BY <1>13 DEF Dies, Open, Oldest, Event
    <2>2. \A u \in Tick, d \in Event :
             step'[u] = "hopeless" /\ Oldest(d, batch'[u]) => step[u] = "hopeless" /\ Oldest(d, batch[u])
      BY <1>13 DEF Dies, Oldest
    <2> QED
      BY <2>1, <2>2, TriedKept
  <1>14. ASSUME NEW t \in Tick, TickFires(t) PROVE Tried'
    <2>1. /\ tried' = tried /\ attempts' = attempts
          /\ \A i \in Instance, d \in Event : Open(i, d)' \subseteq Open(i, d)
      BY <1>14 DEF TickFires, Open, Oldest, Event
    <2>2. \A u \in Tick, d \in Event :
             step'[u] = "hopeless" /\ Oldest(d, batch'[u]) => step[u] = "hopeless" /\ Oldest(d, batch[u])
      BY <1>14 DEF TickFires, Oldest
    <2> QED
      BY <2>1, <2>2, TriedKept
  <1>15. ASSUME NEW t \in Tick, TickSkipped(t) PROVE Tried'
    <2>1. /\ tried' = tried /\ attempts' = attempts
          /\ \A i \in Instance, d \in Event : Open(i, d)' \subseteq Open(i, d)
      BY <1>15 DEF TickSkipped, Open, Oldest, Event
    <2>2. \A u \in Tick, d \in Event :
             step'[u] = "hopeless" /\ Oldest(d, batch'[u]) => step[u] = "hopeless" /\ Oldest(d, batch[u])
      BY <1>15 DEF TickSkipped, Oldest
    <2> QED
      BY <2>1, <2>2, TriedKept
  <1>16. ASSUME NEW t \in Tick, TickErrs(t) PROVE Tried'
    <2>1. /\ tried' = tried /\ attempts' = attempts
          /\ \A i \in Instance, d \in Event : Open(i, d)' \subseteq Open(i, d)
      BY <1>16 DEF TickErrs, Open, Oldest, Event
    <2>2. \A u \in Tick, d \in Event :
             step'[u] = "hopeless" /\ Oldest(d, batch'[u]) => step[u] = "hopeless" /\ Oldest(d, batch[u])
      BY <1>16 DEF TickErrs, Oldest
    <2> QED
      BY <2>1, <2>2, TriedKept
  <1>17. CASE CronLeaseEnds
    <2>1. /\ tried' = tried /\ attempts' = attempts
          /\ \A i \in Instance, d \in Event : Open(i, d)' \subseteq Open(i, d)
      BY <1>17 DEF CronLeaseEnds, Open, Oldest, Event
    <2>2. \A u \in Tick, d \in Event :
             step'[u] = "hopeless" /\ Oldest(d, batch'[u]) => step[u] = "hopeless" /\ Oldest(d, batch[u])
      BY <1>17 DEF CronLeaseEnds, Oldest
    <2> QED
      BY <2>1, <2>2, TriedKept
  <1>18. ASSUME NEW t \in Tick, TickLocks(t) PROVE Tried'
    <2>1. /\ tried' = tried /\ attempts' = attempts
          /\ \A i \in Instance, d \in Event : Open(i, d)' \subseteq Open(i, d)
      BY <1>18 DEF TickLocks, Open, Oldest, Event
    <2>2. \A u \in Tick, d \in Event :
             step'[u] = "hopeless" /\ Oldest(d, batch'[u]) => step[u] = "hopeless" /\ Oldest(d, batch[u])
      BY <1>18 DEF TickLocks, Oldest
    <2> QED
      BY <2>1, <2>2, TriedKept
  <1> QED
    BY <1>1, <1>2, <1>3, <1>4, <1>5, <1>6, <1>7, <1>8, <1>9,
       <1>10, <1>11, <1>12, <1>13, <1>14, <1>15, <1>16, <1>17, <1>18 DEF Next, TickStep

(* The invariant, from the five of them.                                    *)
THEOREM Invariance == Spec => []IInv
  <1>1. IInv /\ [Next]_vars => IInv'
    BY StepKeepsTypes, StepKeepsLease, StepKeepsConsistent, StepKeepsTried, StepKeepsTokens DEF IInv
  <1> QED
    BY InitEstablishes, <1>1, PTL DEF Spec

(* Every state is well typed.                                               *)
THEOREM TypeCorrect == Spec => []TypeOK
  <1>1. IInv => TypeOK
    BY DEF IInv
  <1> QED
    BY Invariance, <1>1, PTL

(* The lock keeps the replicas' runs apart while their leases last.         *)
THEOREM ReplicasKeepApart == Spec => []AloneUnlessOverrun
  <1>1. IInv => AloneUnlessOverrun
    BY DEF IInv, LeaseBehind, AloneUnlessOverrun
  <1> QED
    BY Invariance, <1>1, PTL

(* An event goes out once, and once more for each lease that ran out.       *)
THEOREM OncePerLeaseAlways == Spec => []OncePerLease
  <1>1. IInv => OncePerLease
    <2> SUFFICES ASSUME IInv, NEW e \in Event PROVE published[e] <= 1 + lapses[e]
      BY DEF OncePerLease
    <2>1. /\ published[e] \in Nat /\ lapses[e] \in Nat /\ Held(e) \in {0, 1}
          /\ Cardinality(Pend(e)) \in Nat
      BY PendFinite, TokenTypes DEF IInv
    <2>2. Fits(published[e], 0, Pend(e), lapses[e], Held(e))
      BY DEF IInv, Tokens
    <2> QED
      BY <2>1, <2>2 DEF Fits
  <1> QED
    BY Invariance, <1>1, PTL

(* The statuses tell the truth about what happened to the events.           *)
THEOREM StatusesAreHonest == Spec => []SettledHonestly
  <1>1. IInv => SettledHonestly
    BY DEF IInv
  <1> QED
    BY Invariance, <1>1, PTL

SettledStay ==
    \A e \in Event : status[e] \in {"delivered", "dead_letter"} => status'[e] = status[e]

(* No step, of an owner or of a run that is none any more, moves a settled   *)
(* event: settled documents carry no lease.                                  *)
THEOREM StepKeepsSettled == TypeOK /\ Consistent /\ [Next]_vars => SettledStay
  <1> SUFFICES ASSUME TypeOK, Consistent, Next
      PROVE  SettledStay
    BY DEF vars, cron, docs, relay, TypeOK, Consistent, SettledStay
  <1> USE CronConstants, OutboxConstants DEF
        TypeOK, Consistent, SettledStay, cron, docs, relay
  <1>1. ASSUME NEW e \in Event, Save(e) PROVE SettledStay
    BY <1>1 DEF Save
  <1>2. ASSUME NEW e \in Event, SaveSkipped(e) PROVE SettledStay
    BY <1>2 DEF SaveSkipped, Fault
  <1>3. ASSUME NEW t \in Tick, StartRelay(t) PROVE SettledStay
    BY <1>3 DEF StartRelay, Proceed, Move
  <1>4. ASSUME NEW t \in Tick, Claim(t) PROVE SettledStay
    BY <1>4 DEF Claim, Oldest, Claimable
  <1>5. ASSUME NEW t \in Tick, ClaimedAll(t) PROVE SettledStay
    BY <1>5 DEF ClaimedAll, Goes
  <1>6. ASSUME NEW t \in Tick, Publish(t) PROVE SettledStay
    BY <1>6 DEF Publish, Goes
  <1>7. ASSUME NEW t \in Tick, Acknowledge(t) PROVE SettledStay
    <2> PICK e \in batch[t] : Acknowledge(t)!(e)
      BY <1>7 DEF Acknowledge
    <2>1. Owns(t, e) => status[e] = "pending"
      BY CronConstants DEF Owns, CronTypeOK
    <2> QED
      BY <2>1
  <1>8. ASSUME NEW t \in Tick, Fail(t) PROVE SettledStay
    <2> PICK e \in batch[t], from \in {"refused", "hopeless"} : Fail(t)!(e, from)
      BY <1>8 DEF Fail
    <2>1. Owns(t, e) => status[e] = "pending"
      BY CronConstants DEF Owns, CronTypeOK
    <2> QED
      BY <2>1 DEF PutBack
  <1>9. ASSUME NEW t \in Tick, AnswerLost(t) PROVE SettledStay
    BY <1>9 DEF AnswerLost, Answers, Goes, Fault
  <1>10. ASSUME NEW t \in Tick, EndRelay(t) PROVE SettledStay
    BY <1>10 DEF EndRelay, Goes, Finish, Move
  <1>11. ASSUME NEW e \in Event, LeaseExpires(e) PROVE SettledStay
    BY <1>11 DEF LeaseExpires, Fault
  <1>12. ASSUME NEW e \in Event, BackoffEnds(e) PROVE SettledStay
    BY <1>12 DEF BackoffEnds
  <1>13. ASSUME NEW i \in Instance, Dies(i) PROVE SettledStay
    BY <1>13 DEF Dies, Die, Fault
  <1>14. ASSUME NEW t \in Tick, TickFires(t) PROVE SettledStay
    BY <1>14 DEF TickFires, Fire, Move
  <1>15. ASSUME NEW t \in Tick, TickSkipped(t) PROVE SettledStay
    BY <1>15 DEF TickSkipped, LockRefused, Move
  <1>16. ASSUME NEW t \in Tick, TickErrs(t) PROVE SettledStay
    BY <1>16 DEF TickErrs, LockErrs, Move, Fault
  <1>17. CASE CronLeaseEnds
    BY <1>17 DEF CronLeaseEnds, LeaseEnds
  <1>18. ASSUME NEW t \in Tick, TickLocks(t) PROVE SettledStay
    BY <1>18 DEF TickLocks, LockGranted, CanLock, Move
  <1> QED
    BY <1>1, <1>2, <1>3, <1>4, <1>5, <1>6, <1>7, <1>8, <1>9,
       <1>10, <1>11, <1>12, <1>13, <1>14, <1>15, <1>16, <1>17, <1>18 DEF Next, TickStep

(* Delivered and dead-lettered events stay so.                              *)
THEOREM SettledEventsStay == Spec => SettledForGood
  <1>1. IInv /\ [Next]_vars => [SettledStay]_vars
    BY StepKeepsSettled DEF IInv
  <1> QED
    BY Invariance, <1>1, PTL DEF Spec, SettledForGood, SettledStay
-----------------------------------------------------------------------------
\* A process is refused an event no oftener than its policy says, plus once
\* for every lease that ran out on the event, whatever the other processes do
\* and whichever answers get lost; so its share of a poison event is bounded.
TriesBounded ==
    \A i \in Instance, e \in Event : tried[i][e] <= DeadAfter + lapses[e]

(* The failure policy (shared/outbox/index.ts) ends every process's retries   *)
(* of an event: a try beyond the limit spends the token of a lease.          *)
THEOREM RetriesBounded == Spec => []TriesBounded
  <1>1. IInv => TriesBounded
    <2> SUFFICES ASSUME IInv, NEW i \in Instance, NEW e \in Event
        PROVE  tried[i][e] <= DeadAfter + lapses[e]
      BY DEF TriesBounded
    <2>1. /\ published[e] \in Nat /\ lapses[e] \in Nat /\ Held(e) \in {0, 1}
          /\ tried[i][e] \in Nat /\ Cardinality(Pend(e)) \in Nat
      BY PendFinite, TokenTypes DEF IInv
    <2>2. Over(i, e) <= lapses[e] + 1
      <3>1. Over(i, e) \in Nat /\ Fits(published[e], Over(i, e), Pend(e), lapses[e], Held(e))
        BY TokenTypes DEF IInv, Tokens
      <3> QED
        BY <2>1, <3>1 DEF Fits
    <2> QED
      BY <2>1, <2>2, OutboxConstants DEF Over
  <1> QED
    BY <1>1, Invariance, PTL
=============================================================================
