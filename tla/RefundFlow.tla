----------------------------- MODULE RefundFlow -----------------------------
(***************************************************************************)
(* The money side of one prepaid order: executeRefund                       *)
(* (sales/orders/services/refund.service.ts) and its three callers, the     *)
(* admin's POST /orders/:id/refund (handlers/refund.handler.ts), the        *)
(* handler of order:canceled (lifecycle/handlers/cancel-refund-prepaid.ts)  *)
(* and the one of order:change.confirmed (change-confirmed-refund.ts), both *)
(* run by withRetry (lifecycle/wire-handlers.ts).                           *)
(*                                                                          *)
(* A job is one run of a caller.  It loads the order once and works on that *)
(* snapshot; at every await other jobs run.  The gateway transaction        *)
(* (revenue) is a package outside the repository: it refuses to give back   *)
(* more than was captured.  The order was captured in full and its capture  *)
(* transaction resolves, so NO_CAPTURE_TXN and NO_AMOUNT_CHARGED, which     *)
(* refuse every job alike, do not occur.                                    *)
(***************************************************************************)
EXTENDS Integers

CONSTANTS
    Charged,     \* the captured amount, equal to the grand total
    Change,      \* the confirmed RMAs with a refundAmount
    AdminRefund, \* the presses of the admin's refund button
    Cancel,      \* the job of order:canceled
    Amount,      \* the amount each job asks for
    Faults,      \* what may fail: "gateway" calls, "stamp" writes
    MaxRetries   \* withRetry's maxRetries

Job == Change \cup AdminRefund \cup {Cancel}
Handler == Change \cup {Cancel}

ASSUME RefundConstants ==
    /\ Charged \in Nat \ {0}
    /\ Change \cap AdminRefund = {}
    /\ Cancel \notin Change \cup AdminRefund
    /\ Amount \in [Job -> 1 .. Charged]
    /\ Amount[Cancel] = Charged
    /\ Faults \subseteq {"gateway", "stamp"}
    /\ MaxRetries \in Nat

VARIABLES
    status,      \* the order's status, as far as refunds go
    closedBy,    \* history: what moved it to "refunded"
    refundedAt,  \* metadata.refundedAt is set
    shown,       \* paymentState.totalRefunded
    gatewayPaid, \* what the revenue transaction gave back
    processed,   \* metadata.refundProcessedAt of each change
    pc,          \* where each job is
    snap,        \* the order as it loaded it
    code,        \* the outcome of its call of executeRefund
    retries,     \* how often withRetry ran it again
    paidFor,     \* history: how often the gateway paid for the job
    lostStamps   \* history: how often a write of its idempotency stamp threw

order == <<status, closedBy, refundedAt, shown>>
vars  == <<order, gatewayPaid, processed, pc, snap, code, retries, paidFor, lostStamps>>

Place == {"idle", "queued", "loaded", "paid", "synced", "settled", "refused",
          "closing", "thrown", "done", "dead"}
Code  == {"none", "ok", "ALREADY_REFUNDED", "AT_REFUND_LIMIT", "REVENUE_FAILED"}

\* The codes a handler does not retry.
Terminal == {"ALREADY_REFUNDED", "AT_REFUND_LIMIT"}

Snapshot == [refundedAt : BOOLEAN, shown : Nat, status : {"placed", "canceled", "refunded"}]

Init ==
    /\ status      = "placed"
    /\ closedBy    = "none"
    /\ refundedAt  = FALSE
    /\ shown       = 0
    /\ gatewayPaid = 0
    /\ processed   = [c \in Change |-> FALSE]
    /\ pc          = [j \in Job |-> "idle"]
    /\ snap        = [j \in Job |-> [refundedAt |-> FALSE, shown |-> 0, status |-> "placed"]]
    /\ code        = [j \in Job |-> "none"]
    /\ retries     = [j \in Job |-> 0]
    /\ paidFor     = [j \in Job |-> 0]
    /\ lostStamps  = [j \in Job |-> 0]

GoTo(j, from, to) ==
    /\ pc[j] = from
    /\ pc' = [pc EXCEPT ![j] = to]

-----------------------------------------------------------------------------
\* An admin presses the button, or an RMA is confirmed and its event published.
Ask(j) ==
    /\ j # Cancel
    /\ GoTo(j, "idle", "queued")
    /\ UNCHANGED <<order, gatewayPaid, processed, snap, code, retries, paidFor, lostStamps>>

\* The order is canceled; order:canceled is published.
CancelOrder ==
    /\ status = "placed"
    /\ status' = "canceled"
    /\ GoTo(Cancel, "idle", "queued")
    /\ UNCHANGED <<closedBy, refundedAt, shown, gatewayPaid, processed, snap, code,
                   retries, paidFor, lostStamps>>

\* The plain FSM action `refund` of the order resource: no money is moved.
RefundAction ==
    /\ status = "placed"
    /\ status' = "refunded"
    /\ closedBy' = "action"
    /\ UNCHANGED <<refundedAt, shown, gatewayPaid, processed, pc, snap, code, retries, paidFor, lostStamps>>

\* The caller loads the order.  The button answers 409 for a refunded order;
\* a change whose refund was processed is skipped.
Skips(j) ==
    \/ j \in AdminRefund /\ refundedAt
    \/ j \in Change /\ processed[j]

Load(j) ==
    /\ GoTo(j, "queued", IF Skips(j) THEN "done" ELSE "loaded")
    /\ snap' = [snap EXCEPT ![j] =
                  [refundedAt |-> refundedAt, shown |-> shown, status |-> status]]
    /\ UNCHANGED <<order, gatewayPaid, processed, code, retries, paidFor, lostStamps>>

-----------------------------------------------------------------------------
\* executeRefund.
Refuse(j, why) ==
    /\ GoTo(j, "loaded", "refused")
    /\ code' = [code EXCEPT ![j] = why]
    /\ UNCHANGED <<order, processed, snap, retries, lostStamps>>

Pay(j) ==
    /\ gatewayPaid' = gatewayPaid + Amount[j]
    /\ paidFor' = [paidFor EXCEPT ![j] = @ + 1]

ShortCircuits(j) == snap[j].refundedAt /\ j \notin AdminRefund
FitsCapture(j) == gatewayPaid + Amount[j] <= Charged

AlreadyRefunded(j) ==
    /\ ShortCircuits(j)
    /\ Refuse(j, "ALREADY_REFUNDED")
    /\ UNCHANGED <<gatewayPaid, paidFor>>

\* revenue.transaction.refund succeeds ...
GatewayPays(j) ==
    /\ ~ShortCircuits(j)
    /\ FitsCapture(j)
    /\ GoTo(j, "loaded", "paid")
    /\ Pay(j)
    /\ UNCHANGED <<order, processed, snap, code, retries, lostStamps>>

\* Mutant: a transaction at its refund limit is taken for a refund that worked.
GatewayAtLimitIsFine(j) ==
    /\ ~ShortCircuits(j)
    /\ ~FitsCapture(j)
    /\ GoTo(j, "loaded", "paid")
    /\ UNCHANGED <<order, gatewayPaid, processed, snap, code, retries, paidFor, lostStamps>>

\* ... or is refused, the transaction being at its refund limit ...
GatewayAtLimit(j) ==
    /\ ~ShortCircuits(j)
    /\ ~FitsCapture(j)
    /\ Refuse(j, "AT_REFUND_LIMIT")
    /\ UNCHANGED <<gatewayPaid, paidFor>>

\* ... or fails (REVENUE_UNAVAILABLE counts as such), possibly after paying.
GatewayFails(j) ==
    /\ "gateway" \in Faults
    /\ ~ShortCircuits(j)
    /\ Refuse(j, "REVENUE_FAILED")
    /\ \/ UNCHANGED <<gatewayPaid, paidFor>>
       \/ FitsCapture(j) /\ Pay(j)

\* The projection is written from the snapshot; a failure is only logged.
NewTotal(j) == snap[j].shown + Amount[j]

SyncPaymentState(j) ==
    /\ GoTo(j, "paid", "synced")
    /\ shown' \in {shown, NewTotal(j)}
    /\ UNCHANGED <<status, closedBy, refundedAt, gatewayPaid, processed, snap, code,
                   retries, paidFor, lostStamps>>

\* The last step: metadata.refundedAt is stamped, or the write throws.
StampOrder(j) ==
    /\ GoTo(j, "synced", "settled")
    /\ refundedAt' = TRUE
    /\ code' = [code EXCEPT ![j] = "ok"]
    /\ UNCHANGED <<status, closedBy, shown, gatewayPaid, processed, snap, retries, paidFor, lostStamps>>

StampThrows(j) ==
    /\ "stamp" \in Faults
    /\ GoTo(j, "synced", "thrown")
    /\ lostStamps' = [lostStamps EXCEPT ![j] = @ + 1]
    /\ UNCHANGED <<order, gatewayPaid, processed, snap, code, retries, paidFor>>

-----------------------------------------------------------------------------
\* What the callers do with the outcome.
CoversOrder(j) ==
    IF j \in AdminRefund THEN Amount[j] = Charged ELSE NewTotal(j) >= Charged

\* Mutant: the button closes the order whatever the refund came to.
AnswerAdminClosesAnyway(j) ==
    /\ j \in AdminRefund
    /\ \E from \in {"refused", "settled"} :
           GoTo(j, from, IF CoversOrder(j) THEN "closing" ELSE "done")
    /\ UNCHANGED <<order, gatewayPaid, processed, snap, code, retries, paidFor, lostStamps>>

\* The button: the error is answered, a full refund closes the order.
AnswerAdmin(j) ==
    /\ j \in AdminRefund
    /\ \/ GoTo(j, "refused", "done")
       \/ GoTo(j, "settled", IF CoversOrder(j) THEN "closing" ELSE "done")
    /\ UNCHANGED <<order, gatewayPaid, processed, snap, code, retries, paidFor, lostStamps>>

\* Mutant: a failure of the gateway ends the cancellation's refund too.
EndCancelOnAnyCode ==
    /\ \/ GoTo(Cancel, "settled", "done")
       \/ GoTo(Cancel, "refused", "done")
    /\ UNCHANGED <<order, gatewayPaid, processed, snap, code, retries, paidFor, lostStamps>>

\* order:canceled: terminal codes end it, the others are thrown for a retry.
EndCancel ==
    /\ \/ GoTo(Cancel, "settled", "done")
       \/ GoTo(Cancel, "refused", IF code[Cancel] \in Terminal THEN "done" ELSE "thrown")
    /\ UNCHANGED <<order, gatewayPaid, processed, snap, code, retries, paidFor, lostStamps>>

\* Mutant: only a change whose refund is settled is stamped.
StampPaidChange(c) ==
    /\ \/ /\ GoTo(c, "refused", IF code[c] \in Terminal THEN "done" ELSE "thrown")
          /\ UNCHANGED processed
       \/ /\ GoTo(c, "settled",
                  IF CoversOrder(c) /\ snap[c].status = "placed" THEN "closing" ELSE "done")
          /\ processed' = [processed EXCEPT ![c] = TRUE]
    /\ UNCHANGED <<order, gatewayPaid, snap, code, retries, paidFor, lostStamps>>

\* order:change.confirmed: the change is stamped whatever the outcome was.
StampChange(c) ==
    /\ \/ GoTo(c, "refused", IF code[c] \in Terminal THEN "done" ELSE "thrown")
       \/ GoTo(c, "settled",
               IF CoversOrder(c) /\ snap[c].status = "placed" THEN "closing" ELSE "done")
    /\ processed' = [processed EXCEPT ![c] = TRUE]
    /\ UNCHANGED <<order, gatewayPaid, snap, code, retries, paidFor, lostStamps>>

StampChangeThrows(c) ==
    /\ "stamp" \in Faults
    /\ \/ GoTo(c, "refused", "thrown")
       \/ GoTo(c, "settled", "thrown")
    /\ lostStamps' = [lostStamps EXCEPT ![c] = @ + 1]
    /\ UNCHANGED <<order, gatewayPaid, processed, snap, code, retries, paidFor>>

\* The transition to refunded, if the FSM allows it; a failure is only logged.
CloseOrder(j) ==
    /\ GoTo(j, "closing", "done")
    /\ \/ UNCHANGED <<status, closedBy>>
       \/ status = "placed" /\ status' = "refunded" /\ closedBy' = "money"
    /\ UNCHANGED <<refundedAt, shown, gatewayPaid, processed, snap, code, retries, paidFor, lostStamps>>

\* Mutant: one retry too many.
RetryOnceMore(j) ==
    /\ GoTo(j, "thrown", IF j \in Handler /\ retries[j] <= MaxRetries THEN "queued" ELSE "dead")
    /\ retries' = [retries EXCEPT ![j] = IF j \in Handler /\ @ <= MaxRetries THEN @ + 1 ELSE @]
    /\ UNCHANGED <<order, gatewayPaid, processed, snap, code, paidFor, lostStamps>>

\* Mutant: retries are not counted.
RetryForever(j) ==
    /\ GoTo(j, "thrown", IF j \in Handler THEN "queued" ELSE "dead")
    /\ UNCHANGED <<order, gatewayPaid, processed, snap, code, retries, paidFor, lostStamps>>

\* withRetry: run the handler again, from the load, or give up.  A throw of
\* the button is a 500.
Retry(j) ==
    /\ GoTo(j, "thrown", IF j \in Handler /\ retries[j] < MaxRetries THEN "queued" ELSE "dead")
    /\ retries' = [retries EXCEPT ![j] = IF j \in Handler /\ @ < MaxRetries THEN @ + 1 ELSE @]
    /\ UNCHANGED <<order, gatewayPaid, processed, snap, code, paidFor, lostStamps>>

\* The process dies: events and retries live in its memory, so the job is lost.
Crash(j) ==
    /\ pc[j] \notin {"idle", "done", "dead"}
    /\ pc' = [pc EXCEPT ![j] = "dead"]
    /\ UNCHANGED <<order, gatewayPaid, processed, snap, code, retries, paidFor, lostStamps>>

Step(j) ==
    \/ Load(j)
    \/ AlreadyRefunded(j) \/ GatewayPays(j) \/ GatewayAtLimit(j) \/ GatewayFails(j)
    \/ SyncPaymentState(j) \/ StampOrder(j) \/ StampThrows(j)
    \/ AnswerAdmin(j)
    \/ j = Cancel /\ EndCancel
    \/ j \in Change /\ StampChange(j)
    \/ j \in Change /\ StampChangeThrows(j)
    \/ CloseOrder(j) \/ Retry(j)

Next ==
    \/ CancelOrder \/ RefundAction
    \/ \E j \in Job : Ask(j) \/ Step(j) \/ Crash(j)

Spec == Init /\ [][Next]_vars

\* Fairness: the event loop runs every pending step and timer.
FairSpec == Spec /\ \A j \in Job : WF_vars(Step(j))

-----------------------------------------------------------------------------
TypeOK ==
    /\ status \in {"placed", "canceled", "refunded"}
    /\ closedBy \in {"none", "action", "money"}
    /\ refundedAt \in BOOLEAN
    /\ shown \in Nat
    /\ gatewayPaid \in 0 .. Charged
    /\ processed \in [Change -> BOOLEAN]
    /\ pc \in [Job -> Place]
    /\ snap \in [Job -> Snapshot]
    /\ code \in [Job -> Code]
    /\ retries \in [Job -> 0 .. MaxRetries]
    /\ paidFor \in [Job -> Nat]
    /\ lostStamps \in [Job -> Nat]

\* However refunds interleave and whichever projection writes are lost, the
\* customer and the dashboards are never shown more money back than was paid.
ShownNeverOverstates == shown <= gatewayPaid

\* A refund flow closes the order as refunded only once the whole amount is
\* back, although it decides so from a snapshot and its own amount.
ClosedMeansPaidBack == closedBy = "money" => gatewayPaid = Charged

\* However the gateway misbehaves and however often a handler is retried, no
\* cancellation, RMA or press is paid a second time before one of its stamps,
\* refundedAt or refundProcessedAt, failed to be written.
PaidOncePerStamp == \A j \in Job : paidFor[j] <= 1 + lostStamps[j]

\* A canceled order gets its money back: a cancel job that ends, short of
\* exhausted retries, has refunded it, unless another refund was given.
CanceledIsPaidBack ==
    pc[Cancel] = "done" /\ (\A j \in Job \ {Cancel} : paidFor[j] = 0)
        => gatewayPaid = Charged

\* Every job ends: retries are bounded and no outcome leaves one hanging.
JobsEnd == \A j \in Job : pc[j] = "queued" ~> pc[j] \in {"done", "dead"}

\* refund.service.ts:114-116 takes several partial RMAs on one capture for
\* common, and change-confirmed-refund.ts:70-71 stamps a change that was not
\* paid only for "limit hit / dup": a processed change is paid if it fits.
ConfirmedChangesPaid ==
    \A c \in Change : processed[c] => paidFor[c] > 0 \/ ~FitsCapture(c)
=============================================================================
