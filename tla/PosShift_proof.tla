--------------------------- MODULE PosShift_proof ---------------------------
(***************************************************************************)
(* Proofs about the register's shifts: that whoever counted a shift does    *)
(* not close it, and that a drawer is overdrawn only by payments out that   *)
(* overlap.  Both rest on what a request still knows, when it acts, of the  *)
(* shift it loaded.                                                         *)
(***************************************************************************)
EXTENDS PosShift, TLAPS

\* A shift has a counter from the blind close on, and not before.
Counted ==
    \A s \in Shift :
        /\ shift[s].state \in {"none", "open", "paused"} => shift[s].counter = Nobody
        /\ shift[s].state = "blind_closed" => shift[s].counter # Nobody

\* What a request checked and no other step can have undone: the shift was
\* opened, the policy of its branch, who had counted it.
CallKnows ==
    \A c \in Call : \A s \in call[c].on :
        /\ shift[s].state # "none"
        /\ call[c].verb = "close" => call[c].state # "blind_closed"
        /\ call[c].verb = "close" /\ call[c].state = "open" => ~shift[s].strict
        /\ call[c].verb = "reconcile" /\ call[c].state = "blind_closed" =>
               shift[s].state \notin {"open", "paused"} /\ shift[s].counter # call[c].user
        /\ call[c].verb = "cash_out" => call[c].drawer >= 1

ShiftInv == ShiftTypeOK /\ Counted /\ CallKnows /\ FourEyes /\ DrawerCovered

CallRecord ==
    [verb : {"idle", "close", "reconcile", "cash_out", "sale"},
     user : User \cup {Nobody}, on : SUBSET Shift, state : ShiftState, drawer : Int]

LEMMA ShiftInitOK == ShiftInit => ShiftInv
  BY ShiftConstants
  DEF ShiftInit, ShiftInv, ShiftTypeOK, ShiftRecord, ShiftState, ActiveState, NoShift, NoCall,
      Counted, CallKnows, FourEyes, DrawerCovered

\* A step that leaves the requests alone and the fixed parts of every opened
\* shift, moving it between states that keep its counter.
LEMMA ShiftMoves ==
    ASSUME ShiftInv, NEW s \in Shift, NEW r \in ShiftRecord,
           shift' = [shift EXCEPT ![s] = r], UNCHANGED <<stale, call, behind>>,
           r.state \notin {"none", "closed"},
           r.drawer >= 0 \/ r.drawer >= shift[s].drawer,
           r.state \in {"open", "paused"} => shift[s].state \in {"none", "open", "paused"},
           r.state \in {"open", "paused"} => r.counter = Nobody,
           r.state = "blind_closed" => r.counter # Nobody,
           shift[s].state # "none" => r.strict = shift[s].strict,
           shift[s].state \in {"blind_closed", "closed", "orphaned_closed"} => r.counter = shift[s].counter,
           shift[s].state # "closed"
    PROVE  ShiftInv'
  <1>1. /\ shift'[s] = r /\ \A u \in Shift : u # s => shift'[u] = shift[u]
        /\ shift' \in [Shift -> ShiftRecord]
    BY DEF ShiftInv, ShiftTypeOK
  <1>2. ShiftTypeOK'
    BY <1>1 DEF ShiftInv, ShiftTypeOK
  <1>3. Counted'
    BY <1>1 DEF ShiftInv, Counted
  <1>4. CallKnows'
    <2> SUFFICES ASSUME NEW c \in Call, NEW u \in call[c].on
                 PROVE  /\ shift'[u].state # "none"
                        /\ call[c].verb = "close" => call[c].state # "blind_closed"
                        /\ call[c].verb = "close" /\ call[c].state = "open" => ~shift'[u].strict
                        /\ call[c].verb = "reconcile" /\ call[c].state = "blind_closed" =>
                               shift'[u].state \notin {"open", "paused"} /\ shift'[u].counter # call[c].user
                        /\ call[c].verb = "cash_out" => call[c].drawer >= 1
      BY DEF CallKnows
    <2>0. u \in Shift
      BY DEF ShiftInv, ShiftTypeOK
    <2>1. CASE u # s
      BY <2>0, <2>1, <1>1 DEF ShiftInv, CallKnows
    <2>2. CASE u = s
      <3>1. /\ shift[s].state # "none"
            /\ call[c].verb = "close" => call[c].state # "blind_closed"
            /\ call[c].verb = "close" /\ call[c].state = "open" => ~shift[s].strict
            /\ call[c].verb = "reconcile" /\ call[c].state = "blind_closed" =>
                   shift[s].state \notin {"open", "paused"} /\ shift[s].counter # call[c].user
            /\ call[c].verb = "cash_out" => call[c].drawer >= 1
        BY <2>2 DEF ShiftInv, CallKnows
      <3>2. shift[s].state \in {"none", "open", "paused", "blind_closed", "closed", "orphaned_closed"}
        BY DEF ShiftInv, ShiftTypeOK, ShiftRecord, ShiftState, ActiveState
      <3> QED
        BY <3>1, <3>2, <2>2, <1>1
    <2> QED
      BY <2>1, <2>2
  <1>5. FourEyes'
    BY <1>1 DEF ShiftInv, FourEyes
  <1>6. DrawerCovered'
    BY <1>1 DEF ShiftInv, DrawerCovered, ShiftTypeOK, ShiftRecord
  <1> QED
    BY <1>2, <1>3, <1>4, <1>5, <1>6 DEF ShiftInv

LEMMA ShiftStepOK == ASSUME ShiftInv, NEW s \in Shift, ShiftStep(s) PROVE ShiftInv'
  <1>0. /\ shift \in [Shift -> ShiftRecord] /\ shift[s] \in ShiftRecord
        /\ shift[s].drawer \in Int
        /\ Nobody \notin User /\ MaxDrawer \in Nat
        /\ DOMAIN shift = Shift
    BY ShiftConstants DEF ShiftInv, ShiftTypeOK, ShiftRecord
  <1>c. /\ shift[s].state \in {"none", "open", "paused"} => shift[s].counter = Nobody
        /\ shift[s].state = "blind_closed" => shift[s].counter # Nobody
    BY DEF ShiftInv, Counted
  <1>1. ASSUME NEW to \in ShiftState, shift' = [shift EXCEPT ![s] = [@ EXCEPT !.state = to]],
               UNCHANGED <<stale, call, behind>>, shift[s].state \in ActiveState,
               to \in {"open", "paused", "orphaned_closed"},
               shift[s].state = "blind_closed" => to = "orphaned_closed"
        PROVE  ShiftInv'
    <2> DEFINE r == [shift[s] EXCEPT !.state = to]
    <2>1. r \in ShiftRecord /\ r.state = to /\ r.drawer = shift[s].drawer
          /\ r.counter = shift[s].counter /\ r.strict = shift[s].strict
      BY <1>0, <1>1 DEF ShiftRecord
    <2>2. shift' = [shift EXCEPT ![s] = r]
      BY <1>1
    <2> HIDE DEF r
    <2>3. shift[s].state \in {"open", "paused", "blind_closed"} /\ r.drawer >= shift[s].drawer
      BY <1>0, <1>1, <2>1 DEF ActiveState
    <2> QED
      BY <1>1, <1>c, <2>1, <2>2, <2>3, ShiftMoves
  <1>2. ASSUME LazyClose(s) PROVE ShiftInv'
    <2>1. /\ shift' = [shift EXCEPT ![s] = [@ EXCEPT !.state = "orphaned_closed"]]
          /\ UNCHANGED <<stale, call, behind>> /\ shift[s].state \in ActiveState
      BY <1>2 DEF LazyClose, Active
    <2> QED
      BY <2>1, <1>1 DEF ShiftState
  <1>3. ASSUME PauseAction(s) \/ ResumeAction(s) PROVE ShiftInv'
    <2>1. PICK to \in {"open", "paused"} :
              /\ shift' = [shift EXCEPT ![s] = [@ EXCEPT !.state = to]]
              /\ UNCHANGED <<stale, call, behind>> /\ shift[s].state \in {"open", "paused"}
      BY <1>3 DEF PauseAction, ResumeAction, ShiftTo
    <2> QED
      BY <2>1, <1>1 DEF ShiftState, ActiveState
  <1>4. ASSUME OpenShift(s) PROVE ShiftInv'
    <2>1. PICK cash \in 0 .. MaxDrawer, strict \in BOOLEAN :
              shift' = [shift EXCEPT ![s] = [NoShift EXCEPT !.state = "open", !.drawer = cash,
                                                            !.strict = strict]]
      BY <1>4 DEF OpenShift
    <2> DEFINE r == [NoShift EXCEPT !.state = "open", !.drawer = cash, !.strict = strict]
    <2>2. NoShift \in ShiftRecord /\ NoShift.counter = Nobody
      BY DEF NoShift, ShiftRecord, ShiftState
    <2>a. cash \in Int /\ cash >= 0 /\ "open" \in ShiftState
      BY <1>0 DEF ShiftState, ActiveState
    <2>b. r \in ShiftRecord /\ r.state = "open" /\ r.counter = Nobody /\ r.drawer >= 0
      BY <2>2, <2>a DEF ShiftRecord
    <2>3. shift' = [shift EXCEPT ![s] = r]
      BY <2>1
    <2>4. shift[s].state = "none" /\ UNCHANGED <<stale, call, behind>>
      BY <1>4 DEF OpenShift, NoShift
    <2> HIDE DEF r
    <2> QED
      BY <2>b, <2>3, <2>4, ShiftMoves
  <1>5. ASSUME BlindCloseAction(s) PROVE ShiftInv'
    <2>1. PICK u \in User :
              /\ shift' = [shift EXCEPT ![s].state = "blind_closed", ![s].counter = u]
              /\ shift[s].state = "open" /\ UNCHANGED <<stale, call, behind>>
      BY <1>5 DEF BlindCloseAction
    <2> DEFINE r == [shift[s] EXCEPT !.state = "blind_closed", !.counter = u]
    <2>2. r \in ShiftRecord /\ r.state = "blind_closed" /\ r.counter = u /\ r.counter # Nobody
          /\ r.drawer = shift[s].drawer /\ r.strict = shift[s].strict
      BY <1>0 DEF ShiftRecord, ShiftState, ActiveState
    <2>3. shift' = [shift EXCEPT ![s] = r]
      BY <1>0, <2>1
    <2>4. r.drawer >= shift[s].drawer
      BY <1>0, <2>2
    <2> HIDE DEF r
    <2> QED
      BY <2>1, <2>2, <2>3, <2>4, ShiftMoves
  <1>6. ASSUME CashInAction(s) PROVE ShiftInv'
    <2> DEFINE r == [shift[s] EXCEPT !.drawer = @ + 1]
    <2>1. r \in ShiftRecord /\ r.state = shift[s].state /\ r.counter = shift[s].counter
          /\ r.drawer = shift[s].drawer + 1 /\ r.strict = shift[s].strict
      BY <1>0 DEF ShiftRecord
    <2>2. shift' = [shift EXCEPT ![s] = r] /\ shift[s].state = "open" /\ UNCHANGED <<stale, call, behind>>
      BY <1>6 DEF CashInAction
    <2> HIDE DEF r
    <2>3. r.drawer >= shift[s].drawer
      BY <1>0, <2>1
    <2> QED
      BY <2>1, <2>2, <2>3, <1>c, ShiftMoves
  <1> QED
    BY <1>2, <1>3, <1>4, <1>5, <1>6 DEF ShiftStep
-----------------------------------------------------------------------------
\* A request loads: nothing moves but what it keeps.
LEMMA LoadOK ==
    ASSUME ShiftInv, NEW c \in Call, NEW s \in Shift, NEW keeps \in CallRecord,
           LoadShift(c, s, keeps), keeps.on = {s},
           keeps.verb = "close" => keeps.state # "blind_closed",
           keeps.verb = "close" /\ keeps.state = "open" => ~shift[s].strict,
           keeps.verb = "reconcile" /\ keeps.state = "blind_closed" =>
               shift[s].state \notin {"open", "paused"} /\ shift[s].counter # keeps.user,
           keeps.verb = "cash_out" => keeps.drawer >= 1
    PROVE  ShiftInv'
  <1>1. /\ call' = [call EXCEPT ![c] = keeps] /\ shift[s].state # "none"
        /\ UNCHANGED <<shift, stale, behind>>
    BY DEF LoadShift
  <1>2. /\ call'[c] = keeps /\ \A d \in Call : d # c => call'[d] = call[d]
        /\ call' \in [Call -> CallRecord]
    BY <1>1 DEF ShiftInv, ShiftTypeOK, CallRecord
  <1>3. ShiftTypeOK'
    BY <1>1, <1>2 DEF ShiftInv, ShiftTypeOK, CallRecord
  <1>4. CallKnows'
    BY <1>1, <1>2 DEF ShiftInv, CallKnows
  <1> QED
    BY <1>1, <1>3, <1>4 DEF ShiftInv, Counted, FourEyes, DrawerCovered

LEMMA ShiftLoadsOK ==
    ASSUME ShiftInv, NEW c \in Call, NEW s \in Shift,
           \/ \E u \in User : CloseLoad(c, u, s) \/ ReconcileLoad(c, u, s)
           \/ CashOutLoad(c, s) \/ SaleLoad(c, s)
    PROVE  ShiftInv'
  <1>0. /\ shift[s].state \in ShiftState /\ shift[s].drawer \in Int /\ 0 \in Int
        /\ "none" \in ShiftState /\ {s} \in SUBSET Shift
        /\ shift[s].state = "blind_closed" => shift[s].state \notin {"open", "paused"}
    BY DEF ShiftInv, ShiftTypeOK, ShiftRecord, ShiftState
  <1>1. ASSUME NEW u \in User, NEW verb \in {"close", "reconcile"}
        PROVE  LET keeps == ToClose(u, s, verb)
               IN  /\ keeps \in CallRecord /\ keeps.on = {s} /\ keeps.verb = verb
                   /\ keeps.state = shift[s].state /\ keeps.user = u
    BY <1>0 DEF ToClose, NoCall, CallRecord
  <1>2. ASSUME NEW u \in User, CloseLoad(c, u, s) PROVE ShiftInv'
    <2> DEFINE keeps == ToClose(u, s, "close")
    <2>1. /\ keeps \in CallRecord /\ keeps.on = {s} /\ keeps.verb = "close"
          /\ keeps.state = shift[s].state
      BY <1>1
    <2>2. /\ LoadShift(c, s, keeps) /\ shift[s].state # "blind_closed"
          /\ ~(shift[s].strict /\ shift[s].state = "open")
      BY <1>2 DEF CloseLoad
    <2> HIDE DEF keeps
    <2> QED
      BY <2>1, <2>2, LoadOK
  <1>3. ASSUME NEW u \in User, ReconcileLoad(c, u, s) PROVE ShiftInv'
    <2> DEFINE keeps == ToClose(u, s, "reconcile")
    <2>1. /\ keeps \in CallRecord /\ keeps.on = {s} /\ keeps.verb = "reconcile"
          /\ keeps.state = shift[s].state /\ keeps.user = u
      BY <1>1
    <2>2. LoadShift(c, s, keeps) /\ shift[s].counter # u
      BY <1>3 DEF ReconcileLoad
    <2> HIDE DEF keeps
    <2> QED
      BY <1>0, <2>1, <2>2, LoadOK
  <1>4. ASSUME CashOutLoad(c, s) PROVE ShiftInv'
    <2> DEFINE keeps == ToPay(s)
    <2>1. /\ keeps \in CallRecord /\ keeps.on = {s} /\ keeps.verb = "cash_out"
          /\ keeps.drawer = shift[s].drawer
      BY <1>0 DEF ToPay, NoCall, CallRecord
    <2>2. LoadShift(c, s, keeps) /\ shift[s].drawer >= 1
      BY <1>4 DEF CashOutLoad
    <2> HIDE DEF keeps
    <2> QED
      BY <2>1, <2>2, LoadOK
  <1>5. ASSUME SaleLoad(c, s) PROVE ShiftInv'
    <2> DEFINE keeps == [NoCall EXCEPT !.verb = "sale", !.on = {s}]
    <2>1. keeps \in CallRecord /\ keeps.on = {s} /\ keeps.verb = "sale"
      BY <1>0 DEF NoCall, CallRecord
    <2>2. LoadShift(c, s, keeps)
      BY <1>5 DEF SaleLoad
    <2> HIDE DEF keeps
    <2> QED
      BY <2>1, <2>2, LoadOK
  <1> QED
    BY <1>2, <1>3, <1>4, <1>5
-----------------------------------------------------------------------------
\* A request that ends knows nothing any more.
LEMMA EndsOK ==
    ASSUME ShiftInv, NEW c \in Call, Ends(c)
    PROVE  /\ call' \in [Call -> CallRecord]
           /\ call'[c] = NoCall /\ call'[c].on = {}
           /\ \A d \in Call : d # c => call'[d] = call[d]
  <1>1. NoCall \in CallRecord
    BY DEF NoCall, CallRecord, ShiftState
  <1>2. call \in [Call -> CallRecord]
    BY DEF ShiftInv, ShiftTypeOK, CallRecord
  <1> QED
    BY <1>1, <1>2 DEF Ends, NoCall

LEMMA CloseNowOK == ASSUME ShiftInv, NEW c \in Call, NEW s \in Shift, CloseNow(c, s) PROVE ShiftInv'
  <1> DEFINE r == [shift[s] EXCEPT !.state = "closed", !.closer = call[c].user,
                                   !.verb = call[c].verb, !.raced = shift[s].state # call[c].state]
  <1>1. /\ call[c].verb \in {"close", "reconcile"} /\ s \in call[c].on
        /\ shift[s].state \in {"open", "blind_closed"}
        /\ shift' = [shift EXCEPT ![s] = r]
        /\ Ends(c) /\ UNCHANGED <<stale, behind>>
    BY DEF CloseNow
  <1>2. /\ shift[s] \in ShiftRecord /\ call[c].user \in User \cup {Nobody}
        /\ "closed" \in ShiftState
    BY DEF ShiftInv, ShiftTypeOK, ShiftState
  <1>3. /\ r \in ShiftRecord /\ r.state = "closed" /\ r.closer = call[c].user
        /\ r.verb = call[c].verb
        /\ r.counter = shift[s].counter /\ r.strict = shift[s].strict /\ r.drawer = shift[s].drawer
    <2>1. (shift[s].state # call[c].state) \in BOOLEAN
      OBVIOUS
    <2> QED
      BY <1>1, <1>2, <2>1 DEF ShiftRecord
  <1>4. ~r.raced => shift[s].state = call[c].state
    BY <1>2 DEF ShiftRecord
  <1> HIDE DEF r
  <1>5. /\ shift'[s] = r /\ \A u \in Shift : u # s => shift'[u] = shift[u]
        /\ shift' \in [Shift -> ShiftRecord]
    BY <1>1, <1>3 DEF ShiftInv, ShiftTypeOK
  <1>6. ShiftTypeOK'
    BY <1>1, <1>5, EndsOK DEF ShiftInv, ShiftTypeOK, CallRecord
  <1>7. Counted'
    BY <1>3, <1>5 DEF ShiftInv, Counted
  <1>8. CallKnows'
    BY <1>1, <1>3, <1>5, EndsOK DEF ShiftInv, CallKnows, ShiftTypeOK
  <1>9. ~r.raced =>
            /\ r.counter # Nobody => r.closer # r.counter
            /\ r.strict /\ r.counter = Nobody => r.verb = "reconcile"
    BY <1>1, <1>3, <1>4 DEF ShiftInv, CallKnows, Counted
  <1>10. FourEyes'
    BY <1>5, <1>9 DEF ShiftInv, FourEyes
  <1>11. DrawerCovered'
    BY <1>1, <1>3, <1>5 DEF ShiftInv, DrawerCovered
  <1> QED
    BY <1>6, <1>7, <1>8, <1>10, <1>11 DEF ShiftInv

\* A request that only moves the cash of an open shift.
LEMMA CashOK ==
    ASSUME ShiftInv, NEW c \in Call, NEW s \in Shift, NEW cash \in Int, Ends(c), UNCHANGED stale,
           shift[s].state = "open", shift' = [shift EXCEPT ![s].drawer = cash],
           behind \subseteq behind', behind' \subseteq Shift,
           cash >= 0 \/ s \in behind'
    PROVE  ShiftInv'
  <1> DEFINE r == [shift[s] EXCEPT !.drawer = cash]
  <1>1. shift[s] \in ShiftRecord /\ shift' = [shift EXCEPT ![s] = r]
    BY DEF ShiftInv, ShiftTypeOK
  <1>2. /\ r \in ShiftRecord /\ r.state = "open" /\ r.drawer = cash
        /\ r.counter = shift[s].counter /\ r.strict = shift[s].strict
    BY <1>1 DEF ShiftRecord
  <1> HIDE DEF r
  <1>3. /\ shift'[s] = r /\ \A u \in Shift : u # s => shift'[u] = shift[u]
        /\ shift' \in [Shift -> ShiftRecord]
    BY <1>1, <1>2 DEF ShiftInv, ShiftTypeOK
  <1>4. ShiftTypeOK'
    BY <1>3, EndsOK DEF ShiftInv, ShiftTypeOK, CallRecord
  <1>5. Counted'
    BY <1>2, <1>3 DEF ShiftInv, Counted
  <1>6. CallKnows'
    BY <1>2, <1>3, EndsOK DEF ShiftInv, CallKnows, ShiftTypeOK
  <1>7. FourEyes' /\ DrawerCovered'
    BY <1>2, <1>3 DEF ShiftInv, FourEyes, DrawerCovered
  <1> QED
    BY <1>4, <1>5, <1>6, <1>7 DEF ShiftInv

LEMMA PayOutOK == ASSUME ShiftInv, NEW c \in Call, NEW s \in Shift, PayOut(c, s) PROVE ShiftInv'
  <1>1. /\ Ends(c) /\ UNCHANGED stale /\ shift[s].state = "open"
        /\ behind \subseteq behind' /\ behind' \subseteq Shift
    BY DEF PayOut, ShiftInv, ShiftTypeOK
  <1>2. /\ call[c].drawer \in Int /\ shift[s].drawer \in Int /\ call[c].drawer >= 1
    BY DEF PayOut, ShiftInv, ShiftTypeOK, ShiftRecord, CallKnows
  <1>3. shift[s].drawer - 1 >= 0 \/ s \in behind'
    BY <1>2 DEF PayOut
  <1>4. shift' = [shift EXCEPT ![s].drawer = shift[s].drawer - 1] /\ shift[s].drawer - 1 \in Int
    BY <1>2 DEF PayOut
  <1> QED
    BY <1>1, <1>3, <1>4, CashOK

LEMMA CountSaleOK == ASSUME ShiftInv, NEW c \in Call, NEW s \in Shift, CountSale(c, s) PROVE ShiftInv'
  <1>1. Ends(c) /\ UNCHANGED <<stale, behind>>
    BY DEF CountSale
  <1>2. ASSUME shift[s].state = "open" PROVE ShiftInv'
    <2>1. shift[s].drawer \in Int /\ (shift[s].drawer >= 0 \/ s \in behind) /\ behind \subseteq Shift
      BY DEF ShiftInv, ShiftTypeOK, ShiftRecord, DrawerCovered
    <2>2. shift' = [shift EXCEPT ![s].drawer = shift[s].drawer + 1] /\ shift[s].drawer + 1 \in Int
      BY <1>2, <2>1 DEF CountSale
    <2>3. /\ UNCHANGED stale /\ behind \subseteq behind' /\ behind' \subseteq Shift
          /\ shift[s].drawer + 1 >= 0 \/ s \in behind'
      BY <1>1, <2>1
    <2> QED
      BY <1>1, <1>2, <2>2, <2>3, CashOK
  <1>3. ASSUME shift[s].state # "open" PROVE ShiftInv'
    <2>1. UNCHANGED shift
      BY <1>3 DEF CountSale
    <2> QED
      BY <1>1, <2>1, EndsOK
      DEF ShiftInv, ShiftTypeOK, CallRecord, Counted, CallKnows, FourEyes, DrawerCovered
  <1> QED
    BY <1>2, <1>3

LEMMA GiveUpOK == ASSUME ShiftInv, NEW c \in Call, GiveUp(c) PROVE ShiftInv'
  <1>1. Ends(c) /\ UNCHANGED <<shift, stale, behind>>
    BY DEF GiveUp
  <1> QED
    BY <1>1, EndsOK
    DEF ShiftInv, ShiftTypeOK, CallRecord, Counted, CallKnows, FourEyes, DrawerCovered

\* Every variable of the register stays in its type; whoever counted a shift
\* blind is not who closes it, and only reconcile closes an uncounted one
\* where counting is mandatory, unless its state changed under the request
\* (shift.handlers.ts closeShiftAction, reconcileAction); and a drawer is
\* overdrawn only by overlapping payments out (recordCashMovement).
THEOREM ShiftSafe == ShiftSpec => []ShiftTypeOK /\ []FourEyes /\ []DrawerCovered
  <1>1. ShiftInit => ShiftInv
    BY ShiftInitOK
  <1>2. ShiftInv /\ [ShiftNext]_shiftVars => ShiftInv'
    <2> SUFFICES ASSUME ShiftInv, [ShiftNext]_shiftVars PROVE ShiftInv'
      OBVIOUS
    <2>1. CASE UNCHANGED shiftVars
      BY <2>1 DEF shiftVars, ShiftInv, ShiftTypeOK, Counted, CallKnows, FourEyes, DrawerCovered
    <2>2. ASSUME NextDay PROVE ShiftInv'
      BY <2>2 DEF NextDay, Active, ShiftInv, ShiftTypeOK, Counted, CallKnows, FourEyes, DrawerCovered
    <2>3. ASSUME NEW s \in Shift, ShiftStep(s) PROVE ShiftInv'
      BY <2>3, ShiftStepOK
    <2>4. ASSUME NEW c \in Call, NEW s \in Shift, CallStep(c, s) PROVE ShiftInv'
      BY <2>4, ShiftLoadsOK, CloseNowOK, PayOutOK, CountSaleOK DEF CallStep
    <2>5. ASSUME NEW c \in Call, GiveUp(c) PROVE ShiftInv'
      BY <2>5, GiveUpOK
    <2> QED
      BY <2>1, <2>2, <2>3, <2>4, <2>5 DEF ShiftNext
  <1>3. ShiftInv => ShiftTypeOK /\ FourEyes /\ DrawerCovered
    BY DEF ShiftInv
  <1> QED
    BY <1>1, <1>2, <1>3, PTL DEF ShiftSpec
-----------------------------------------------------------------------------
\* At most one shift of the branch takes sales, and what was closed stays as it
\* was counted: state, drawer, closer.
OneActive == \A s, t \in Active : s = t

ClosedStays ==
    \A s \in Shift : shift[s].state \in {"closed", "orphaned_closed"} => shift'[s] = shift[s]

LEMMA ActiveStepOK ==
    ASSUME ShiftTypeOK, OneActive, [ShiftNext]_shiftVars
    PROVE  OneActive' /\ ClosedStays
  <1>1. CASE UNCHANGED shift
    BY <1>1 DEF OneActive, Active, ClosedStays
  <1>2. ASSUME NEW s \in Shift, NEW r \in ShiftRecord, shift' = [shift EXCEPT ![s] = r],
               shift[s].state \notin {"closed", "orphaned_closed"},
               r.state \in ActiveState => s \in Active \/ Active = {}
        PROVE  OneActive' /\ ClosedStays
    <2>1. shift'[s] = r /\ \A t \in Shift : t # s => shift'[t] = shift[t]
      BY <1>2 DEF ShiftTypeOK
    <2>2. ClosedStays
      BY <1>2, <2>1 DEF ClosedStays
    <2>3. OneActive'
      BY <1>2, <2>1 DEF OneActive, Active
    <2> QED
      BY <2>2, <2>3
  <1>3. ASSUME NEW s \in Shift, ShiftStep(s) PROVE OneActive' /\ ClosedStays
    <2>0. shift[s] \in ShiftRecord
      BY DEF ShiftTypeOK
    <2>1. CASE OpenShift(s)
      <3>1. PICK cash \in 0 .. MaxDrawer, strict \in BOOLEAN :
                shift' = [shift EXCEPT ![s] = [NoShift EXCEPT !.state = "open", !.drawer = cash,
                                                              !.strict = strict]]
        BY <2>1 DEF OpenShift
      <3>2. Active = {} /\ shift[s].state = "none"
        BY <2>1 DEF OpenShift, NoShift
      <3>3. NoShift \in ShiftRecord
        BY DEF NoShift, ShiftRecord, ShiftState
      <3>4. cash \in Int /\ "open" \in ShiftState
        BY ShiftConstants DEF ShiftState, ActiveState
      <3>5. [NoShift EXCEPT !.state = "open", !.drawer = cash, !.strict = strict] \in ShiftRecord
        BY <3>3, <3>4 DEF ShiftRecord
      <3> QED
        BY <1>2, <3>1, <3>2, <3>5
    <2>2. CASE LazyClose(s) \/ PauseAction(s) \/ ResumeAction(s)
      <3>1. /\ shift[s].state \in ActiveState
            /\ \E to \in ShiftState : shift' = [shift EXCEPT ![s].state = to]
        BY <2>2 DEF LazyClose, PauseAction, ResumeAction, ShiftTo, Active, ShiftState, ActiveState
      <3>2. PICK to \in ShiftState : shift' = [shift EXCEPT ![s] = [shift[s] EXCEPT !.state = to]]
        BY <3>1
      <3>3. [shift[s] EXCEPT !.state = to] \in ShiftRecord /\ s \in Active
        BY <2>0, <3>1 DEF ShiftRecord, Active
      <3> QED
        BY <1>2, <3>1, <3>2, <3>3 DEF ActiveState
    <2>3. CASE BlindCloseAction(s)
      <3>1. PICK u \in User : shift' = [shift EXCEPT ![s].state = "blind_closed", ![s].counter = u]
        BY <2>3 DEF BlindCloseAction
      <3>2. shift' = [shift EXCEPT ![s] = [shift[s] EXCEPT !.state = "blind_closed", !.counter = u]]
        BY <2>0, <3>1 DEF ShiftTypeOK, ShiftRecord
      <3>3. /\ [shift[s] EXCEPT !.state = "blind_closed", !.counter = u] \in ShiftRecord
            /\ s \in Active /\ shift[s].state = "open"
        BY <2>0, <2>3 DEF BlindCloseAction, ShiftRecord, ShiftState, ActiveState, Active
      <3> QED
        BY <1>2, <3>2, <3>3
    <2>4. CASE CashInAction(s)
      <3>1. /\ shift' = [shift EXCEPT ![s] = [shift[s] EXCEPT !.drawer = @ + 1]]
            /\ shift[s].state = "open" /\ s \in Active
        BY <2>4 DEF CashInAction, Active, ActiveState
      <3>2. [shift[s] EXCEPT !.drawer = @ + 1] \in ShiftRecord
        BY <2>0 DEF ShiftRecord
      <3> QED
        BY <1>2, <3>1, <3>2
    <2> QED
      BY <1>3, <2>1, <2>2, <2>3, <2>4 DEF ShiftStep
  <1>4. ASSUME NEW c \in Call, NEW s \in Shift, CallStep(c, s) PROVE OneActive' /\ ClosedStays
    <2>0. shift[s] \in ShiftRecord /\ call[c] \in CallRecord
      BY DEF ShiftTypeOK, CallRecord
    <2>1. CASE CloseNow(c, s)
      <3> DEFINE r == [shift[s] EXCEPT !.state = "closed", !.closer = call[c].user,
                                       !.verb = call[c].verb, !.raced = shift[s].state # call[c].state]
      <3>1. /\ shift' = [shift EXCEPT ![s] = r] /\ shift[s].state \in {"open", "blind_closed"}
            /\ call[c].verb \in {"close", "reconcile"}
        BY <2>1 DEF CloseNow
      <3>2. r \in ShiftRecord /\ r.state = "closed"
        BY <2>0, <3>1 DEF ShiftRecord, CallRecord, ShiftState
      <3> HIDE DEF r
      <3> QED
        BY <1>2, <3>1, <3>2 DEF ActiveState
    <2>2. CASE PayOut(c, s)
      <3>1. /\ shift' = [shift EXCEPT ![s] = [shift[s] EXCEPT !.drawer = @ - 1]]
            /\ shift[s].state = "open" /\ s \in Active
        BY <2>2 DEF PayOut, Active, ActiveState
      <3>2. [shift[s] EXCEPT !.drawer = @ - 1] \in ShiftRecord
        BY <2>0 DEF ShiftRecord
      <3> QED
        BY <1>2, <3>1, <3>2
    <2>3. CASE CountSale(c, s) /\ shift[s].state = "open"
      <3>1. /\ shift' = [shift EXCEPT ![s] = [shift[s] EXCEPT !.drawer = @ + 1]]
            /\ shift[s].state = "open" /\ s \in Active
        BY <2>3 DEF CountSale, Active, ActiveState
      <3>2. [shift[s] EXCEPT !.drawer = @ + 1] \in ShiftRecord
        BY <2>0 DEF ShiftRecord
      <3> QED
        BY <1>2, <3>1, <3>2
    <2>4. CASE CountSale(c, s) /\ shift[s].state # "open"
      BY <1>1, <2>4 DEF CountSale
    <2>5. CASE \/ \E u \in User : CloseLoad(c, u, s) \/ ReconcileLoad(c, u, s)
               \/ CashOutLoad(c, s) \/ SaleLoad(c, s)
      BY <1>1, <2>5 DEF CloseLoad, ReconcileLoad, CashOutLoad, SaleLoad, LoadShift
    <2> QED
      BY <1>4, <2>1, <2>2, <2>3, <2>4, <2>5 DEF CallStep
  <1> QED
    BY <1>1, <1>3, <1>4 DEF ShiftNext, NextDay, GiveUp, shiftVars

\* Whatever requests still carry: a branch never has two shifts at once
\* (pos-shift's index on the active states), and no late payment, sale, close
\* or force-close touches a shift that was closed.
THEOREM ClosedShiftsStand == ShiftSpec => []OneActive /\ [][ClosedStays]_shiftVars
  <1>1. ShiftInit => OneActive
    BY DEF ShiftInit, OneActive, Active, NoShift, ActiveState
  <1>2. ShiftTypeOK /\ OneActive /\ [ShiftNext]_shiftVars => OneActive' /\ [ClosedStays]_shiftVars
    BY ActiveStepOK
  <1> QED
    BY <1>1, <1>2, ShiftSafe, PTL DEF ShiftSpec
=============================================================================
