------------------------------ MODULE PosShift ------------------------------
(***************************************************************************)
(* The shifts of one branch's register (pos/shift.handlers.ts), and the    *)
(* sale that is counted on one (pos.controller.ts createOrder, the hook of *)
(* shift-aggregation.hook.ts).  Every handler loads the shift, checks what *)
(* it loaded and then calls a verb of the shift kernel, which checks the   *)
(* state it finds and nothing else.  Cash is counted in units of one, in   *)
(* the cash row that a shift is taken to have from its opening; the        *)
(* variance of the count, and cash that is no cash (cards), are left out.  *)
(***************************************************************************)
EXTENDS Integers

CONSTANTS
    User,      \* the staff
    Call,      \* the requests that can be under way at once
    Shift,     \* the shifts that can be opened
    MaxDrawer, \* bound: cash comes in only below it
    Nobody

ASSUME ShiftConstants ==
    /\ Nobody \notin User
    /\ MaxDrawer \in Nat

VARIABLES
    shift, \* each shift, with history: who closed it by which verb, and
           \* whether it had changed its state under that request
    stale, \* the shifts of an earlier business day
    call,  \* what each request loaded, and what for
    behind \* history: shifts paid out of on a balance that had fallen since

shiftVars == <<shift, stale, call, behind>>

NoShift == [state |-> "none", drawer |-> 0, strict |-> FALSE, counter |-> Nobody,
            closer |-> Nobody, verb |-> "none", raced |-> FALSE]
NoCall  == [verb |-> "idle", user |-> Nobody, on |-> {}, state |-> "none", drawer |-> 0]

ShiftInit ==
    /\ shift = [s \in Shift |-> NoShift]
    /\ stale = {}
    /\ call  = [c \in Call |-> NoCall]
    /\ behind = {}

ActiveState == {"open", "paused", "blind_closed"}
Active      == {s \in Shift : shift[s].state \in ActiveState}

NextDay ==
    /\ Active \ stale # {}
    /\ stale' = stale \cup Active
    /\ UNCHANGED <<shift, call, behind>>

\* openShift force-closes what an earlier day left open; it may fail to.
LazyClose(s) ==
    /\ s \in Active \cap stale
    /\ shift' = [shift EXCEPT ![s].state = "orphaned_closed"]
    /\ UNCHANGED <<stale, call, behind>>

\* The index admits one active shift; the policy of the branch is frozen in it.
OpenShift(s) ==
    /\ Active = {}
    /\ shift[s] = NoShift
    /\ \E cash \in 0 .. MaxDrawer, strict \in BOOLEAN :
        shift' = [shift EXCEPT ![s] = [NoShift EXCEPT !.state = "open", !.drawer = cash,
                                                      !.strict = strict]]
    /\ UNCHANGED <<stale, call, behind>>

ShiftTo(s, from, to) ==
    /\ shift[s].state = from
    /\ shift' = [shift EXCEPT ![s].state = to]
    /\ UNCHANGED <<stale, call, behind>>

PauseAction(s)  == ShiftTo(s, "open", "paused")
ResumeAction(s) == ShiftTo(s, "paused", "open")

BlindCloseAction(s) ==
    \E u \in User :
        /\ shift[s].state = "open"
        /\ shift' = [shift EXCEPT ![s].state = "blind_closed", ![s].counter = u]
        /\ UNCHANGED <<stale, call, behind>>

CashInAction(s) ==
    /\ shift[s].state = "open"
    /\ shift[s].drawer < MaxDrawer
    /\ shift' = [shift EXCEPT ![s].drawer = @ + 1]
    /\ UNCHANGED <<stale, call, behind>>
-----------------------------------------------------------------------------
\* A request loads the shift, and keeps of it what it is going to rely on.
LoadShift(c, s, keeps) ==
    /\ call[c].verb = "idle"
    /\ shift[s].state # "none"
    /\ call' = [call EXCEPT ![c] = keeps]
    /\ UNCHANGED <<shift, stale, behind>>

ToClose(u, s, verb) ==
    [NoCall EXCEPT !.verb = verb, !.user = u, !.on = {s}, !.state = shift[s].state]

\* closeShiftAction: neither counted blind, nor open where that is mandatory.
CloseLoad(c, u, s) ==
    /\ shift[s].state # "blind_closed"
    /\ ~(shift[s].strict /\ shift[s].state = "open")
    /\ LoadShift(c, s, ToClose(u, s, "close"))

\* Mutant: whoever counted may reconcile.
ReconcileLoadAnyone(c, u, s) == LoadShift(c, s, ToClose(u, s, "reconcile"))

\* reconcileAction: not the one who counted, whatever the state.
ReconcileLoad(c, u, s) ==
    /\ shift[s].counter # u
    /\ LoadShift(c, s, ToClose(u, s, "reconcile"))

ToPay(s) == [NoCall EXCEPT !.verb = "cash_out", !.on = {s}, !.drawer = shift[s].drawer]

\* Mutant: any amount is paid out.
CashOutLoadUnchecked(c, s) == LoadShift(c, s, ToPay(s))

\* recordCashMovement("out"): the drawer covers the amount.
CashOutLoad(c, s) ==
    /\ shift[s].drawer >= 1
    /\ LoadShift(c, s, ToPay(s))

\* createOrder: the active shift is open.
SaleLoad(c, s) ==
    /\ shift[s].state = "open"
    /\ LoadShift(c, s, [NoCall EXCEPT !.verb = "sale", !.on = {s}])

Ends(c) == call' = [call EXCEPT ![c] = NoCall]

\* The kernel closes what is open or counted, for either verb.
CloseNow(c, s) ==
    /\ call[c].verb \in {"close", "reconcile"}
    /\ s \in call[c].on
    /\ shift[s].state \in {"open", "blind_closed"}
    /\ shift' = [shift EXCEPT ![s] = [@ EXCEPT !.state = "closed",
                                               !.closer = call[c].user,
                                               !.verb = call[c].verb,
                                               !.raced = shift[s].state # call[c].state]]
    /\ Ends(c)
    /\ UNCHANGED <<stale, behind>>

PayOut(c, s) ==
    /\ call[c].verb = "cash_out"
    /\ s \in call[c].on
    /\ shift[s].state = "open"
    /\ shift' = [shift EXCEPT ![s].drawer = @ - 1]
    /\ behind' = IF shift[s].drawer < call[c].drawer THEN behind \cup {s} ELSE behind
    /\ Ends(c)
    /\ UNCHANGED stale

\* The sale is stored; the hook counts its cash while the shift is open.
CountSale(c, s) ==
    /\ call[c].verb = "sale"
    /\ s \in call[c].on
    /\ shift[s].drawer < MaxDrawer
    /\ shift' = IF shift[s].state = "open" THEN [shift EXCEPT ![s].drawer = @ + 1] ELSE shift
    /\ Ends(c)
    /\ UNCHANGED <<stale, behind>>

\* The kernel refuses, the sale is no cash or is refused, the request dies.
GiveUp(c) ==
    /\ call[c].verb # "idle"
    /\ Ends(c)
    /\ UNCHANGED <<shift, stale, behind>>
-----------------------------------------------------------------------------
ShiftStep(s) ==
    \/ LazyClose(s) \/ OpenShift(s) \/ PauseAction(s) \/ ResumeAction(s)
    \/ BlindCloseAction(s) \/ CashInAction(s)

CallStep(c, s) ==
    \/ \E u \in User : CloseLoad(c, u, s) \/ ReconcileLoad(c, u, s)
    \/ CashOutLoad(c, s) \/ SaleLoad(c, s)
    \/ CloseNow(c, s) \/ PayOut(c, s) \/ CountSale(c, s)

ShiftNext ==
    \/ NextDay
    \/ \E s \in Shift : ShiftStep(s)
    \/ \E c \in Call, s \in Shift : CallStep(c, s)
    \/ \E c \in Call : GiveUp(c)

ShiftSpec == ShiftInit /\ [][ShiftNext]_shiftVars
-----------------------------------------------------------------------------
ShiftState == {"none", "closed", "orphaned_closed"} \cup ActiveState

ShiftRecord ==
    [state : ShiftState,
     drawer : Int, strict : BOOLEAN, counter : User \cup {Nobody},
     closer : User \cup {Nobody}, verb : {"none", "close", "reconcile"}, raced : BOOLEAN]

\* Every variable stays in its type.
ShiftTypeOK ==
    /\ shift \in [Shift -> ShiftRecord]
    /\ stale \subseteq Shift
    /\ call \in [Call -> [verb : {"idle", "close", "reconcile", "cash_out", "sale"},
                            user : User \cup {Nobody}, on : SUBSET Shift,
                          state : ShiftState, drawer : Int]]
    /\ behind \subseteq Shift

\* A shift that was counted blind is closed by someone else than its counter,
\* and where counting blind is mandatory a shift is not closed uncounted except
\* by reconcile, which does not ask: unless the shift was counted, paused or
\* resumed between the request's load and its close.
FourEyes ==
    \A s \in Shift :
        shift[s].state = "closed" /\ ~shift[s].raced =>
            /\ shift[s].counter # Nobody => shift[s].closer # shift[s].counter
            /\ shift[s].strict /\ shift[s].counter = Nobody => shift[s].verb = "reconcile"

\* More cash leaves a drawer than is in it only when another payment out came
\* between a request's load and its own.
DrawerCovered == \A s \in Shift : shift[s].drawer >= 0 \/ s \in behind
=============================================================================
