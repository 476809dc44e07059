---------------------------- MODULE MCBackOffice ----------------------------
(***************************************************************************)
(* The back-office protocols that share no state, explored one at a time:   *)
(* `desk` says which one runs, the others stay in their initial states.     *)
(***************************************************************************)
EXTENDS PeriodClose, StockRequest, ApprovalChain, SubscriptionBilling,
        SettlementImport, CodReceivable, PosShift, TLC

CONSTANTS p1, p2, l1, l2, l3, k1, k2, a1, a2, a3, s1, s2

VARIABLE desk

Desk == {"period", "request", "approval", "billing", "settlement", "cod", "shift"}

MCLadder == <<"validate_drafts", "close_period", "archive">>

\* Two managers share the first step of a purchase, one director has the second.
\* One manager is enough at first; the second submission asks for both.
MCStepOf == [a \in Seat |-> IF a = a3 THEN s2 ELSE s1]
MCRequired == [n \in 1 .. MaxAttempts |-> [s \in ChainStep |-> IF s = s1 THEN n ELSE 1]]

\* Line k1 has the amount of every leg, k2 that of l2 only.
MCFits == {<<l1, k1>>, <<l2, k1>>, <<l2, k2>>, <<l3, k1>>}

vars == <<desk, periodVars, requestVars, approvalVars, billingVars, settlementVars, codVars, shiftVars>>

Init ==
    /\ desk \in Desk
    /\ PeriodInit
    /\ desk # "period" => leftOpen = {}
    /\ RequestInit
    /\ ApprovalInit
    /\ BillingInit
    /\ SettlementInit
    /\ CodInit
    /\ ShiftInit

Period ==
    /\ desk = "period"
    /\ PeriodNext
    /\ UNCHANGED <<desk, requestVars, approvalVars, billingVars, settlementVars, codVars, shiftVars>>

Request ==
    /\ desk = "request"
    /\ RequestNext
    /\ UNCHANGED <<desk, periodVars, approvalVars, billingVars, settlementVars, codVars, shiftVars>>

Approval ==
    /\ desk = "approval"
    /\ ApprovalNext
    /\ UNCHANGED <<desk, periodVars, requestVars, billingVars, settlementVars, codVars, shiftVars>>

Billing ==
    /\ desk = "billing"
    /\ BillingNext
    /\ UNCHANGED <<desk, periodVars, requestVars, approvalVars, settlementVars, codVars, shiftVars>>

\* Bound: finance pins one leg by hand, and only in a statement nobody raced on.
HandPinsOnce == PinByHand => ~pinRaced

Settlement ==
    /\ desk = "settlement"
    /\ SettlementNext
    /\ HandPinsOnce
    /\ UNCHANGED <<desk, periodVars, requestVars, approvalVars, billingVars, codVars, shiftVars>>

Cod ==
    /\ desk = "cod"
    /\ CodNext
    /\ UNCHANGED <<desk, periodVars, requestVars, approvalVars, billingVars, settlementVars, shiftVars>>

Till ==
    /\ desk = "shift"
    /\ ShiftNext
    /\ UNCHANGED <<desk, periodVars, requestVars, approvalVars, billingVars, settlementVars, codVars>>

Next == Period \/ Request \/ Approval \/ Billing \/ Settlement \/ Cod \/ Till

Spec == Init /\ [][Next]_vars

\* The ladder with nobody at another desk.
PeriodOnly == Init /\ desk = "period" /\ [][Period]_vars

\* The actors of every desk are p1, p2 and sometimes a third, so that one symmetry
\* serves them all: one desk is open at a time.  l1 and l3 fit the same line.
Alike == Permutations({p1, p2}) \cup Permutations(Call) \cup Permutations({l1, l3})
             \cup Permutations({a1, a2})

\* Every variable of every protocol stays in its type.
TypeOK ==
    /\ PeriodTypeOK
    /\ RequestTypeOK
    /\ ApprovalTypeOK
    /\ BillingTypeOK
    /\ SettlementTypeOK
    /\ CodTypeOK
    /\ ShiftTypeOK
=============================================================================
