-------------------------- MODULE RefundFlow_proof --------------------------
(***************************************************************************)
(* The safety of RefundFlow for any number of jobs, any amounts and any      *)
(* number of retries.                                                        *)
(*                                                                          *)
(* TypeOK, ShownNeverOverstates and ClosedMeansPaidBack say too little about *)
(* the jobs' snapshots to be inductive.  What makes them so is               *)
(*   StaleButCovered : a snapshot, however old, shows no more than was paid, *)
(*                     and once a job has been paid for, what it will write  *)
(*                     (its stale total plus its own amount) is covered;     *)
(*   OnlyTheCancel   : while nobody but the cancellation was paid for, the   *)
(*                     capture is untouched or back in full, and whatever    *)
(*                     the cancellation takes for an earlier refund is one;  *)
(*   PaidByStamps    : a change that may still ask the gateway was paid for  *)
(*                     no oftener than its stamps were lost.                 *)
(***************************************************************************)
EXTENDS RefundFlow, TLAPS

\* The places of a job the gateway answered with success.
Paid == {"paid", "synced", "settled", "closing"}

StaleButCovered ==
    /\ shown <= gatewayPaid
    /\ \A j \in Job : snap[j].shown <= gatewayPaid
    /\ \A j \in Job : pc[j] \in Paid => NewTotal(j) <= gatewayPaid
    /\ \A j \in Job : pc[j] = "closing" => CoversOrder(j)

OnlyTheCancel ==
    /\ \A j \in Job : pc[j] \in Paid => paidFor[j] > 0
    /\ (\A j \in Job \ {Cancel} : paidFor[j] = 0) =>
          /\ gatewayPaid \in {0, Charged}
          /\ refundedAt \/ snap[Cancel].refundedAt => gatewayPaid = Charged
          /\ pc[Cancel] \in Paid \cup {"done"} => gatewayPaid = Charged
          /\ pc[Cancel] = "refused" /\ code[Cancel] \in Terminal => gatewayPaid = Charged

IInv == TypeOK /\ StaleButCovered /\ ClosedMeansPaidBack /\ OnlyTheCancel

PaidByStamps ==
    /\ paidFor[Cancel] <= 1
    /\ paidFor[Cancel] > 0 => gatewayPaid = Charged
    /\ \A j \in AdminRefund : pc[j] \in {"idle", "queued", "loaded"} => paidFor[j] = 0
    /\ \A c \in Change :
          /\ pc[c] \in {"idle", "loaded"} => paidFor[c] <= lostStamps[c]
          /\ pc[c] \in {"queued", "thrown"} => processed[c] \/ paidFor[c] <= lostStamps[c]

-----------------------------------------------------------------------------
(* The initial states satisfy the invariant.                                *)
THEOREM InitEstablishes == Init => IInv /\ PaidByStamps /\ PaidOncePerStamp
  <1> USE RefundConstants
  <1>1. ASSUME Init PROVE TypeOK
    <2>1. \A j \in Job : snap[j] \in Snapshot
      BY <1>1 DEF Init, Snapshot
    <2>2. snap \in [Job -> Snapshot]
      BY <1>1, <2>1 DEF Init
    <2>3. /\ status \in {"placed", "canceled", "refunded"}
          /\ closedBy \in {"none", "action", "money"}
      BY <1>1 DEF Init
    <2>4. shown \in Nat /\ gatewayPaid \in 0 .. Charged
      BY <1>1 DEF Init
    <2>8. refundedAt \in BOOLEAN
      BY <1>1, Zenon DEF Init
    <2>5. /\ processed \in [Change -> BOOLEAN]
          /\ paidFor \in [Job -> Nat] /\ lostStamps \in [Job -> Nat]
      BY <1>1 DEF Init
    <2>6. pc \in [Job -> Place] /\ code \in [Job -> Code]
      BY <1>1 DEF Init, Place, Code
    <2>7. retries \in [Job -> 0 .. MaxRetries]
      BY <1>1 DEF Init
    <2> QED
      BY <2>2, <2>3, <2>4, <2>5, <2>6, <2>7, <2>8 DEF TypeOK
  <1>2. Init => StaleButCovered
    BY DEF Init, StaleButCovered, Paid
  <1>3. Init => ClosedMeansPaidBack /\ OnlyTheCancel /\ PaidByStamps /\ PaidOncePerStamp
    BY DEF Init, ClosedMeansPaidBack, OnlyTheCancel, Paid, PaidByStamps, PaidOncePerStamp, Job, Handler
  <1> QED
    BY <1>1, <1>2, <1>3 DEF IInv

(* Every step keeps the types.                                              *)
THEOREM StepKeepsTypes == TypeOK /\ [Next]_vars => TypeOK'
  <1> SUFFICES ASSUME TypeOK, Next
      PROVE  TypeOK'
    BY DEF vars, order, TypeOK, Place, Code, Snapshot, Handler, Job
  <1> USE RefundConstants DEF
        TypeOK, Place, Code, Snapshot, Handler, Job, order, GoTo
  <1>1. CASE CancelOrder
    BY <1>1 DEF CancelOrder
  <1>2. CASE RefundAction
    BY <1>2 DEF RefundAction
  <1>3. ASSUME NEW j \in Job, Ask(j) PROVE TypeOK'
    BY <1>3 DEF Ask
  <1>4. ASSUME NEW j \in Job, Load(j) PROVE TypeOK'
    BY <1>4 DEF Load
  <1>5. ASSUME NEW j \in Job, AlreadyRefunded(j) PROVE TypeOK'
    BY <1>5 DEF AlreadyRefunded, Refuse
  <1>6. ASSUME NEW j \in Job, GatewayPays(j) PROVE TypeOK'
    BY <1>6 DEF GatewayPays, FitsCapture, Pay
  <1>7. ASSUME NEW j \in Job, GatewayAtLimit(j) PROVE TypeOK'
    BY <1>7 DEF GatewayAtLimit, FitsCapture, Refuse
  <1>8. ASSUME NEW j \in Job, GatewayFails(j) PROVE TypeOK'
    BY <1>8 DEF GatewayFails, FitsCapture, Refuse, Pay
  <1>9. ASSUME NEW j \in Job, SyncPaymentState(j) PROVE TypeOK'
    BY <1>9 DEF SyncPaymentState, NewTotal
  <1>10. ASSUME NEW j \in Job, StampOrder(j) PROVE TypeOK'
    BY <1>10 DEF StampOrder
  <1>11. ASSUME NEW j \in Job, StampThrows(j) PROVE TypeOK'
    BY <1>11 DEF StampThrows
  <1>12. ASSUME NEW j \in Job, AnswerAdmin(j) PROVE TypeOK'
    BY <1>12 DEF AnswerAdmin
  <1>13. CASE EndCancel
    BY <1>13 DEF EndCancel
  <1>14. ASSUME NEW j \in Change, StampChange(j) PROVE TypeOK'
    BY <1>14 DEF StampChange
  <1>15. ASSUME NEW j \in Change, StampChangeThrows(j) PROVE TypeOK'
    BY <1>15 DEF StampChangeThrows
  <1>16. ASSUME NEW j \in Job, CloseOrder(j) PROVE TypeOK'
    BY <1>16 DEF CloseOrder
  <1>17. ASSUME NEW j \in Job, Retry(j) PROVE TypeOK'
    BY <1>17 DEF Retry
  <1>18. ASSUME NEW j \in Job, Crash(j) PROVE TypeOK'
    BY <1>18 DEF Crash
  <1> QED
    BY <1>1, <1>2, <1>3, <1>4, <1>5, <1>6, <1>7, <1>8, <1>9,
       <1>10, <1>11, <1>12, <1>13, <1>14, <1>15, <1>16, <1>17, <1>18 DEF Next, Step

(* Every step keeps the totals covered: the gateway's total only grows, and  *)
(* a job's own amount is in it before the job writes the projection.         *)
THEOREM StepKeepsTotals == TypeOK /\ StaleButCovered /\ [Next]_vars => StaleButCovered'
  <1> SUFFICES ASSUME TypeOK, StaleButCovered, Next
      PROVE  StaleButCovered'
    BY DEF vars, order, TypeOK, StaleButCovered, Snapshot, Paid, NewTotal, CoversOrder, Job
  <1> USE RefundConstants DEF
        TypeOK, StaleButCovered, Snapshot, Paid, NewTotal, CoversOrder, Job, order, GoTo
  <1>1. CASE CancelOrder
    BY <1>1 DEF CancelOrder
  <1>2. CASE RefundAction
    BY <1>2 DEF RefundAction
  <1>3. ASSUME NEW j \in Job, Ask(j) PROVE StaleButCovered'
    BY <1>3 DEF Ask
  <1>4. ASSUME NEW j \in Job, Load(j) PROVE StaleButCovered'
    BY <1>4 DEF Load
  <1>5. ASSUME NEW j \in Job, AlreadyRefunded(j) PROVE StaleButCovered'
    BY <1>5 DEF AlreadyRefunded, Refuse
  <1>6. ASSUME NEW j \in Job, GatewayPays(j) PROVE StaleButCovered'
    BY <1>6 DEF GatewayPays, FitsCapture, Pay
  <1>7. ASSUME NEW j \in Job, GatewayAtLimit(j) PROVE StaleButCovered'
    BY <1>7 DEF GatewayAtLimit, FitsCapture, Refuse
  <1>8. ASSUME NEW j \in Job, GatewayFails(j) PROVE StaleButCovered'
    BY <1>8 DEF GatewayFails, FitsCapture, Refuse, Pay
  <1>9. ASSUME NEW j \in Job, SyncPaymentState(j) PROVE StaleButCovered'
    BY <1>9 DEF SyncPaymentState
  <1>10. ASSUME NEW j \in Job, StampOrder(j) PROVE StaleButCovered'
    BY <1>10 DEF StampOrder
  <1>11. ASSUME NEW j \in Job, StampThrows(j) PROVE StaleButCovered'
    BY <1>11 DEF StampThrows
  <1>12. ASSUME NEW j \in Job, AnswerAdmin(j) PROVE StaleButCovered'
    BY <1>12 DEF AnswerAdmin
  <1>13. CASE EndCancel
    BY <1>13 DEF EndCancel
  <1>14. ASSUME NEW j \in Change, StampChange(j) PROVE StaleButCovered'
    BY <1>14 DEF StampChange
  <1>15. ASSUME NEW j \in Change, StampChangeThrows(j) PROVE StaleButCovered'
    BY <1>15 DEF StampChangeThrows
  <1>16. ASSUME NEW j \in Job, CloseOrder(j) PROVE StaleButCovered'
    BY <1>16 DEF CloseOrder
  <1>17. ASSUME NEW j \in Job, Retry(j) PROVE StaleButCovered'
    BY <1>17 DEF Retry
  <1>18. ASSUME NEW j \in Job, Crash(j) PROVE StaleButCovered'
    BY <1>18 DEF Crash
  <1> QED
    BY <1>1, <1>2, <1>3, <1>4, <1>5, <1>6, <1>7, <1>8, <1>9,
       <1>10, <1>11, <1>12, <1>13, <1>14, <1>15, <1>16, <1>17, <1>18 DEF Next, Step

(* Only a job whose refund covers the order closes it.                       *)
THEOREM StepKeepsClosed ==
    TypeOK /\ StaleButCovered /\ ClosedMeansPaidBack /\ [Next]_vars => ClosedMeansPaidBack'
  <1> SUFFICES ASSUME TypeOK, StaleButCovered, ClosedMeansPaidBack, Next
      PROVE  ClosedMeansPaidBack'
    BY DEF vars, order, TypeOK, Snapshot, ClosedMeansPaidBack
  <1> USE RefundConstants DEF
        TypeOK, Snapshot, ClosedMeansPaidBack, order, GoTo
  <1>1. CASE CancelOrder
    BY <1>1 DEF CancelOrder
  <1>2. CASE RefundAction
    BY <1>2 DEF RefundAction
  <1>3. ASSUME NEW j \in Job, Ask(j) PROVE ClosedMeansPaidBack'
    BY <1>3 DEF Ask
  <1>4. ASSUME NEW j \in Job, Load(j) PROVE ClosedMeansPaidBack'
    BY <1>4 DEF Load
  <1>5. ASSUME NEW j \in Job, AlreadyRefunded(j) PROVE ClosedMeansPaidBack'
    BY <1>5 DEF AlreadyRefunded, Refuse
  <1>6. ASSUME NEW j \in Job, GatewayPays(j) PROVE ClosedMeansPaidBack'
    BY <1>6 DEF GatewayPays, FitsCapture, Pay
  <1>7. ASSUME NEW j \in Job, GatewayAtLimit(j) PROVE ClosedMeansPaidBack'
    BY <1>7 DEF GatewayAtLimit, FitsCapture, Refuse
  <1>8. ASSUME NEW j \in Job, GatewayFails(j) PROVE ClosedMeansPaidBack'
    BY <1>8 DEF GatewayFails, FitsCapture, Refuse, Pay
  <1>9. ASSUME NEW j \in Job, SyncPaymentState(j) PROVE ClosedMeansPaidBack'
    BY <1>9 DEF SyncPaymentState
  <1>10. ASSUME NEW j \in Job, StampOrder(j) PROVE ClosedMeansPaidBack'
    BY <1>10 DEF StampOrder
  <1>11. ASSUME NEW j \in Job, StampThrows(j) PROVE ClosedMeansPaidBack'
    BY <1>11 DEF StampThrows
  <1>12. ASSUME NEW j \in Job, AnswerAdmin(j) PROVE ClosedMeansPaidBack'
    BY <1>12 DEF AnswerAdmin
  <1>13. CASE EndCancel
    BY <1>13 DEF EndCancel
  <1>14. ASSUME NEW j \in Change, StampChange(j) PROVE ClosedMeansPaidBack'
    BY <1>14 DEF StampChange
  <1>15. ASSUME NEW j \in Change, StampChangeThrows(j) PROVE ClosedMeansPaidBack'
    BY <1>15 DEF StampChangeThrows
  <1>16. ASSUME NEW j \in Job, CloseOrder(j) PROVE ClosedMeansPaidBack'
    BY <1>16 DEF CloseOrder, StaleButCovered, Paid, NewTotal, CoversOrder
  <1>17. ASSUME NEW j \in Job, Retry(j) PROVE ClosedMeansPaidBack'
    BY <1>17 DEF Retry
  <1>18. ASSUME NEW j \in Job, Crash(j) PROVE ClosedMeansPaidBack'
    BY <1>18 DEF Crash
  <1> QED
    BY <1>1, <1>2, <1>3, <1>4, <1>5, <1>6, <1>7, <1>8, <1>9,
       <1>10, <1>11, <1>12, <1>13, <1>14, <1>15, <1>16, <1>17, <1>18 DEF Next, Step

(* While nobody else was paid for, the cancellation is all or nothing.       *)
THEOREM StepKeepsCancel == TypeOK /\ OnlyTheCancel /\ [Next]_vars => OnlyTheCancel'
  <1> SUFFICES ASSUME TypeOK, OnlyTheCancel, Next
      PROVE  OnlyTheCancel'
    BY DEF vars, order, TypeOK, OnlyTheCancel, Paid, Place, Snapshot, Terminal, Job
  <1> USE RefundConstants DEF
        TypeOK, OnlyTheCancel, Paid, Place, Snapshot, Terminal, Job, order, GoTo
  <1>1. CASE CancelOrder
    BY <1>1 DEF CancelOrder
  <1>2. CASE RefundAction
    BY <1>2 DEF RefundAction
  <1>3. ASSUME NEW j \in Job, Ask(j) PROVE OnlyTheCancel'
    BY <1>3 DEF Ask
  <1>4. ASSUME NEW j \in Job, Load(j) PROVE OnlyTheCancel'
    <2>1. snap'[Cancel].refundedAt => refundedAt \/ snap[Cancel].refundedAt
      <3>1. CASE j = Cancel
        BY <1>4, <3>1, Zenon DEF Load
      <3>2. CASE j # Cancel
        BY <1>4, <3>2 DEF Load
      <3> QED
        BY <3>1, <3>2
    <2>2. UNCHANGED <<refundedAt, gatewayPaid, code, paidFor>>
      BY <1>4 DEF Load
    <2>3. \A k \in Job : pc'[k] = pc[k] \/ pc'[k] = "loaded" \/ (pc'[k] = "done" /\ k # Cancel)
      BY <1>4 DEF Load, Skips
    <2>4. \A k \in Job : pc'[k] \in Paid => pc[k] \in Paid
      BY <2>3
    <2>5. pc'[Cancel] \in Paid \cup {"done"} => pc[Cancel] \in Paid \cup {"done"}
      BY <2>3
    <2>6. pc'[Cancel] = "refused" => pc[Cancel] = "refused"
      BY <2>3
    <2> HIDE DEF Paid, Terminal, Job
    <2>7. Cancel \in Job
      BY DEF Job
    <2> QED
      BY <2>1, <2>2, <2>4, <2>5, <2>6, <2>7, Zenon
  <1>5. ASSUME NEW j \in Job, AlreadyRefunded(j) PROVE OnlyTheCancel'
    BY <1>5 DEF AlreadyRefunded, Refuse, ShortCircuits
  <1>6. ASSUME NEW j \in Job, GatewayPays(j) PROVE OnlyTheCancel'
    BY <1>6 DEF GatewayPays, FitsCapture, Pay
  <1>7. ASSUME NEW j \in Job, GatewayAtLimit(j) PROVE OnlyTheCancel'
    BY <1>7 DEF GatewayAtLimit, FitsCapture, Refuse
  <1>8. ASSUME NEW j \in Job, GatewayFails(j) PROVE OnlyTheCancel'
    BY <1>8 DEF GatewayFails, FitsCapture, Refuse, Pay
  <1>9. ASSUME NEW j \in Job, SyncPaymentState(j) PROVE OnlyTheCancel'
    BY <1>9 DEF SyncPaymentState
  <1>10. ASSUME NEW j \in Job, StampOrder(j) PROVE OnlyTheCancel'
    BY <1>10 DEF StampOrder
  <1>11. ASSUME NEW j \in Job, StampThrows(j) PROVE OnlyTheCancel'
    BY <1>11 DEF StampThrows
  <1>12. ASSUME NEW j \in Job, AnswerAdmin(j) PROVE OnlyTheCancel'
    BY <1>12 DEF AnswerAdmin
  <1>13. CASE EndCancel
    BY <1>13 DEF EndCancel
  <1>14. ASSUME NEW j \in Change, StampChange(j) PROVE OnlyTheCancel'
    BY <1>14 DEF StampChange
  <1>15. ASSUME NEW j \in Change, StampChangeThrows(j) PROVE OnlyTheCancel'
    BY <1>15 DEF StampChangeThrows
  <1>16. ASSUME NEW j \in Job, CloseOrder(j) PROVE OnlyTheCancel'
    BY <1>16 DEF CloseOrder
  <1>17. ASSUME NEW j \in Job, Retry(j) PROVE OnlyTheCancel'
    BY <1>17 DEF Retry
  <1>18. ASSUME NEW j \in Job, Crash(j) PROVE OnlyTheCancel'
    BY <1>18 DEF Crash
  <1> QED
    BY <1>1, <1>2, <1>3, <1>4, <1>5, <1>6, <1>7, <1>8, <1>9,
       <1>10, <1>11, <1>12, <1>13, <1>14, <1>15, <1>16, <1>17, <1>18 DEF Next, Step

(* Every step that pays a job again was preceded by the loss of a stamp.     *)
THEOREM StepPaysByStamps ==
    TypeOK /\ PaidByStamps /\ PaidOncePerStamp /\ [Next]_vars
        => PaidByStamps' /\ PaidOncePerStamp'
  <1> SUFFICES ASSUME TypeOK, PaidByStamps, PaidOncePerStamp, Next
      PROVE  PaidByStamps' /\ PaidOncePerStamp'
    BY DEF vars, order, TypeOK, PaidByStamps, PaidOncePerStamp, Handler, Job
  <1> USE RefundConstants DEF
        TypeOK, PaidByStamps, PaidOncePerStamp, Handler, Job, order, GoTo
  <1>1. CASE CancelOrder
    BY <1>1 DEF CancelOrder
  <1>2. CASE RefundAction
    BY <1>2 DEF RefundAction
  <1>3. ASSUME NEW j \in Job, Ask(j) PROVE PaidByStamps' /\ PaidOncePerStamp'
    BY <1>3 DEF Ask
  <1>4. ASSUME NEW j \in Job, Load(j) PROVE PaidByStamps' /\ PaidOncePerStamp'
    BY <1>4 DEF Load, Skips
  <1>5. ASSUME NEW j \in Job, AlreadyRefunded(j) PROVE PaidByStamps' /\ PaidOncePerStamp'
    BY <1>5 DEF AlreadyRefunded, Refuse
  <1>6. ASSUME NEW j \in Job, GatewayPays(j) PROVE PaidByStamps' /\ PaidOncePerStamp'
    BY <1>6 DEF GatewayPays, FitsCapture, Pay
  <1>7. ASSUME NEW j \in Job, GatewayAtLimit(j) PROVE PaidByStamps' /\ PaidOncePerStamp'
    BY <1>7 DEF GatewayAtLimit, FitsCapture, Refuse
  <1>8. ASSUME NEW j \in Job, GatewayFails(j) PROVE PaidByStamps' /\ PaidOncePerStamp'
    BY <1>8 DEF GatewayFails, FitsCapture, Refuse, Pay
  <1>9. ASSUME NEW j \in Job, SyncPaymentState(j) PROVE PaidByStamps' /\ PaidOncePerStamp'
    BY <1>9 DEF SyncPaymentState
  <1>10. ASSUME NEW j \in Job, StampOrder(j) PROVE PaidByStamps' /\ PaidOncePerStamp'
    BY <1>10 DEF StampOrder
  <1>11. ASSUME NEW j \in Job, StampThrows(j) PROVE PaidByStamps' /\ PaidOncePerStamp'
    BY <1>11 DEF StampThrows
  <1>12. ASSUME NEW j \in Job, AnswerAdmin(j) PROVE PaidByStamps' /\ PaidOncePerStamp'
    BY <1>12 DEF AnswerAdmin
  <1>13. CASE EndCancel
    BY <1>13 DEF EndCancel
  <1>14. ASSUME NEW j \in Change, StampChange(j) PROVE PaidByStamps' /\ PaidOncePerStamp'
    BY <1>14 DEF StampChange
  <1>15. ASSUME NEW j \in Change, StampChangeThrows(j) PROVE PaidByStamps' /\ PaidOncePerStamp'
    BY <1>15 DEF StampChangeThrows
  <1>16. ASSUME NEW j \in Job, CloseOrder(j) PROVE PaidByStamps' /\ PaidOncePerStamp'
    BY <1>16 DEF CloseOrder
  <1>17. ASSUME NEW j \in Job, Retry(j) PROVE PaidByStamps' /\ PaidOncePerStamp'
    BY <1>17 DEF Retry
  <1>18. ASSUME NEW j \in Job, Crash(j) PROVE PaidByStamps' /\ PaidOncePerStamp'
    BY <1>18 DEF Crash
  <1> QED
    BY <1>1, <1>2, <1>3, <1>4, <1>5, <1>6, <1>7, <1>8, <1>9,
       <1>10, <1>11, <1>12, <1>13, <1>14, <1>15, <1>16, <1>17, <1>18 DEF Next, Step

-----------------------------------------------------------------------------
(* The invariant holds in every reachable state.                            *)
THEOREM Invariance == Spec => []IInv
  <1>1. IInv /\ [Next]_vars => IInv'
    BY StepKeepsTypes, StepKeepsTotals, StepKeepsClosed, StepKeepsCancel DEF IInv
  <1> QED
    BY InitEstablishes, <1>1, PTL DEF Spec

(* TypeOK for any number of jobs: in particular the gateway never gives      *)
(* back more than was captured, and no handler outruns its retries.          *)
THEOREM TypeCorrect == Spec => []TypeOK
  <1> QED BY Invariance, PTL DEF IInv

(* paymentState.totalRefunded never shows more than the gateway gave back.   *)
THEOREM TotalsNeverOverstate == Spec => []ShownNeverOverstates
  <1>1. IInv => ShownNeverOverstates
    BY DEF IInv, StaleButCovered, ShownNeverOverstates
  <1> QED BY Invariance, <1>1, PTL

(* An order that a refund flow moved to refunded was paid back in full.      *)
THEOREM ClosedOrdersArePaidBack == Spec => []ClosedMeansPaidBack
  <1> QED BY Invariance, PTL DEF IInv

(* A cancellation that ends paid the order back, if nobody else was paid.    *)
THEOREM CanceledOrdersArePaidBack == Spec => []CanceledIsPaidBack
  <1>1. IInv => CanceledIsPaidBack
    BY DEF IInv, OnlyTheCancel, CanceledIsPaidBack
  <1> QED BY Invariance, <1>1, PTL

(* No job is paid more than once beyond the stamps it lost, whatever the      *)
(* gateway answers and however often the handlers run again.                 *)
THEOREM PaidAgainOnlyForLostStamps == Spec => []PaidOncePerStamp
  <1>1. TypeOK /\ PaidByStamps /\ PaidOncePerStamp /\ [Next]_vars
            => (PaidByStamps /\ PaidOncePerStamp)'
    BY StepPaysByStamps
  <1> QED BY InitEstablishes, TypeCorrect, <1>1, PTL DEF Spec
-----------------------------------------------------------------------------
\* How many steps a job has left at most: those of one run, and of its retries.
Countdown ==
    [idle |-> 8, queued |-> 7, loaded |-> 6, paid |-> 5, synced |-> 4, settled |-> 3,
     refused |-> 3, closing |-> 1, thrown |-> 1, done |-> 0, dead |-> 0]

StepsLeft(j) == Countdown[pc[j]] + 7 * (MaxRetries - retries[j])

\* A job gets closer to its end with each of its steps, and no other job sets
\* it back.
RunsDown ==
    \A j \in Job :
        /\ StepsLeft(j) \in Nat /\ StepsLeft(j)' \in Nat
        /\ StepsLeft(j)' <= StepsLeft(j)
        /\ Ask(j) \/ Step(j) \/ Crash(j) => StepsLeft(j)' < StepsLeft(j)

\* A step of a job lowers its own count.
LEMMA StepCounts ==
    ASSUME TypeOK, NEW j \in Job, Ask(j) \/ Step(j) \/ Crash(j)
    PROVE  StepsLeft(j)' < StepsLeft(j)
  <1> USE DEF StepsLeft, Countdown, GoTo
  <1>0. /\ pc \in [Job -> Place] /\ pc[j] \in Place /\ MaxRetries \in Nat
        /\ retries \in [Job -> 0 .. MaxRetries] /\ retries[j] \in 0 .. MaxRetries
    BY RefundConstants DEF TypeOK
  <1>1. CASE Ask(j) \/ Load(j)
    BY <1>0, <1>1 DEF Ask, Load
  <1>2. CASE AlreadyRefunded(j) \/ GatewayPays(j) \/ GatewayAtLimit(j) \/ GatewayFails(j)
    BY <1>0, <1>2 DEF AlreadyRefunded, GatewayPays, GatewayAtLimit, GatewayFails, Refuse
  <1>3. CASE SyncPaymentState(j) \/ StampOrder(j) \/ StampThrows(j)
    BY <1>0, <1>3 DEF SyncPaymentState, StampOrder, StampThrows
  <1>4. CASE AnswerAdmin(j)
    BY <1>0, <1>4 DEF AnswerAdmin
  <1>5. CASE j = Cancel /\ EndCancel
    BY <1>0, <1>5 DEF EndCancel
  <1>6. CASE StampChange(j) \/ StampChangeThrows(j)
    BY <1>0, <1>6 DEF StampChange, StampChangeThrows
  <1>7. CASE CloseOrder(j)
    BY <1>0, <1>7 DEF CloseOrder
  <1>8. CASE Retry(j)
    BY <1>0, <1>8 DEF Retry
  <1>9. CASE Crash(j)
    BY <1>0, <1>9 DEF Crash, Place
  <1> QED
    BY <1>1, <1>2, <1>3, <1>4, <1>5, <1>6, <1>7, <1>8, <1>9 DEF Step

\* ... and leaves the place and the retries of the others alone.
LEMMA OthersStay ==
    ASSUME TypeOK, NEW j \in Job, Ask(j) \/ Step(j) \/ Crash(j), NEW k \in Job, k # j
    PROVE  pc'[k] = pc[k] /\ retries'[k] = retries[k]
  BY DEF TypeOK, GoTo, Ask, Step, Crash, Load, AlreadyRefunded, GatewayPays, GatewayAtLimit,
         GatewayFails, Refuse, SyncPaymentState, StampOrder, StampThrows, AnswerAdmin, EndCancel,
         StampChange, StampChangeThrows, CloseOrder, Retry

(* A refund ends after a bounded number of steps, whatever the gateway and   *)
(* the writes do and however often it is retried (withRetry in               *)
(* lifecycle/wire-handlers.ts): the safety half of JobsEnd.                   *)
THEOREM JobsRunDown == Spec => [][RunsDown]_vars
  <1>1. ASSUME TypeOK, NEW j \in Job
        PROVE  StepsLeft(j) \in Nat
    BY <1>1, RefundConstants DEF TypeOK, Place, StepsLeft, Countdown
  <1>2. TypeOK /\ TypeOK' /\ [Next]_vars => [RunsDown]_vars
    <2> SUFFICES ASSUME TypeOK, TypeOK', Next, NEW j \in Job
        PROVE  /\ StepsLeft(j) \in Nat /\ StepsLeft(j)' \in Nat
               /\ StepsLeft(j)' <= StepsLeft(j)
               /\ Ask(j) \/ Step(j) \/ Crash(j) => StepsLeft(j)' < StepsLeft(j)
      BY DEF RunsDown
    <2>1. StepsLeft(j) \in Nat
      BY <1>1
    <2>2. StepsLeft(j)' \in Nat
      BY RefundConstants DEF TypeOK, Place, StepsLeft, Countdown
    <2>3. Ask(j) \/ Step(j) \/ Crash(j) => StepsLeft(j)' < StepsLeft(j)
      BY StepCounts
    <2>4. CASE Ask(j) \/ Step(j) \/ Crash(j)
      BY <2>1, <2>2, <2>3, <2>4
    <2>5. CASE pc'[j] = pc[j] /\ retries'[j] = retries[j]
      <3>1. StepsLeft(j)' = StepsLeft(j)
        BY <2>5 DEF StepsLeft
      <3> QED
        BY <2>1, <2>2, <2>3, <3>1
    <2>6. CASE CancelOrder
      <3>1. CASE j = Cancel
        <4>1. pc[j] = "idle" /\ pc'[j] = "queued" /\ retries'[j] = retries[j]
          BY <2>6, <3>1 DEF CancelOrder, GoTo, TypeOK
        <4>2. StepsLeft(j)' + 1 = StepsLeft(j)
          BY <4>1, RefundConstants DEF StepsLeft, Countdown, TypeOK
        <4> QED
          BY <2>1, <2>2, <2>3, <4>2
      <3>2. CASE j # Cancel
        BY <2>5, <2>6, <3>2 DEF CancelOrder, GoTo, TypeOK
      <3> QED
        BY <3>1, <3>2
    <2>7. RefundAction => pc'[j] = pc[j] /\ retries'[j] = retries[j]
      BY DEF RefundAction
    <2> QED
      BY <2>4, <2>5, <2>6, <2>7, OthersStay DEF Next
  <1> QED
    BY <1>2, TypeCorrect, PTL DEF Spec
-----------------------------------------------------------------------------
SomebodyPaid == \E j \in Job : paidFor[j] > 0

\* Half of what change-confirmed-refund.ts:70-71 says is true: a change that
\* was stamped although nothing was paid for it met a failing gateway, or
\* came after money that went back for another job.
UnpaidHasCause ==
    \A c \in Change : processed[c] /\ paidFor[c] = 0 =>
        \/ code[c] = "REVENUE_FAILED"
        \/ code[c] \in Terminal /\ \E j \in Job \ {c} : paidFor[j] > 0

\* What that takes: every sign of an earlier refund is one, and a stamped
\* change does not ask again.
Causes ==
    /\ refundedAt \/ gatewayPaid > 0 => SomebodyPaid
    /\ \A j \in Job :
          /\ snap[j].refundedAt \/ code[j] \in Terminal => SomebodyPaid
          /\ pc[j] \in {"paid", "synced", "settled"} => paidFor[j] > 0
          /\ pc[j] = "refused" => code[j] \in Terminal \cup {"REVENUE_FAILED"}
    /\ \A c \in Change : processed[c] =>
          /\ pc[c] \notin {"loaded", "paid", "synced", "settled", "refused"}
          /\ paidFor[c] = 0 => code[c] \in Terminal \cup {"REVENUE_FAILED"}

LEMMA CausesKept == TypeOK /\ Causes /\ [Next]_vars => Causes'
  <1> SUFFICES ASSUME TypeOK, Causes, Next
      PROVE  Causes'
    BY DEF vars, order, TypeOK, Causes, SomebodyPaid, Terminal
  <1> USE RefundConstants DEF TypeOK, Causes, SomebodyPaid, Terminal, Job, Handler, order, GoTo
  <1>1. CASE CancelOrder
    BY <1>1 DEF CancelOrder
  <1>2. CASE RefundAction
    BY <1>2 DEF RefundAction
  <1>3. ASSUME NEW j \in Job, Ask(j) PROVE Causes'
    BY <1>3 DEF Ask
  <1>4. ASSUME NEW j \in Job, Load(j) PROVE Causes'
    BY <1>4 DEF Load, Skips
  <1>5. ASSUME NEW j \in Job, AlreadyRefunded(j) PROVE Causes'
    BY <1>5 DEF AlreadyRefunded, Refuse, ShortCircuits
  <1>6. ASSUME NEW j \in Job, GatewayPays(j) PROVE Causes'
    BY <1>6 DEF GatewayPays, FitsCapture, Pay
  <1>7. ASSUME NEW j \in Job, GatewayAtLimit(j) PROVE Causes'
    BY <1>7 DEF GatewayAtLimit, FitsCapture, Refuse
  <1>8. ASSUME NEW j \in Job, GatewayFails(j) PROVE Causes'
    BY <1>8 DEF GatewayFails, FitsCapture, Refuse, Pay
  <1>9. ASSUME NEW j \in Job, SyncPaymentState(j) PROVE Causes'
    BY <1>9 DEF SyncPaymentState
  <1>10. ASSUME NEW j \in Job, StampOrder(j) PROVE Causes'
    BY <1>10 DEF StampOrder
  <1>11. ASSUME NEW j \in Job, StampThrows(j) PROVE Causes'
    BY <1>11 DEF StampThrows
  <1>12. ASSUME NEW j \in Job, AnswerAdmin(j) PROVE Causes'
    BY <1>12 DEF AnswerAdmin
  <1>13. CASE EndCancel
    BY <1>13 DEF EndCancel
  <1>14. ASSUME NEW j \in Change, StampChange(j) PROVE Causes'
    BY <1>14 DEF StampChange
  <1>15. ASSUME NEW j \in Change, StampChangeThrows(j) PROVE Causes'
    BY <1>15 DEF StampChangeThrows
  <1>16. ASSUME NEW j \in Job, CloseOrder(j) PROVE Causes'
    BY <1>16 DEF CloseOrder
  <1>17. ASSUME NEW j \in Job, Retry(j) PROVE Causes'
    BY <1>17 DEF Retry
  <1>18. ASSUME NEW j \in Job, Crash(j) PROVE Causes'
    BY <1>18 DEF Crash
  <1> QED
    BY <1>1, <1>2, <1>3, <1>4, <1>5, <1>6, <1>7, <1>8, <1>9,
       <1>10, <1>11, <1>12, <1>13, <1>14, <1>15, <1>16, <1>17, <1>18 DEF Next, Step

(* An RMA is never passed over for nothing: the gateway failed it, or other  *)
(* money of the same order went back first.                                  *)
THEOREM UnpaidChangesHaveCause == Spec => []UnpaidHasCause
  <1>1. Init => Causes
    BY RefundConstants DEF Init, Causes, SomebodyPaid, Terminal, Job
  <1>2. TypeOK /\ Causes => UnpaidHasCause
    <2> SUFFICES ASSUME TypeOK, Causes, NEW c \in Change, processed[c], paidFor[c] = 0,
                        code[c] # "REVENUE_FAILED"
        PROVE  code[c] \in Terminal /\ \E j \in Job \ {c} : paidFor[j] > 0
      BY DEF UnpaidHasCause
    <2>1. code[c] \in Terminal /\ c \in Job
      BY DEF Causes, Job
    <2>2. PICK j \in Job : paidFor[j] > 0
      BY <2>1 DEF Causes, SomebodyPaid
    <2> QED
      BY <2>1, <2>2
  <1> QED
    BY <1>1, <1>2, CausesKept, TypeCorrect, PTL DEF Spec
=============================================================================
