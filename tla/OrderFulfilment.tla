--------------------------- MODULE OrderFulfilment ---------------------------
(***************************************************************************)
(* The goods of one stored order: its shipments, its return (RMA) and its   *)
(* refund, with the stock and cost they move.  The ship and status actions  *)
(* (orders/handlers/action.handler.ts), the fulfilment routes, the lifecycle*)
(* handlers stock-commit, ledger-cogs-bridge, stock-return,                 *)
(* ledger-restock-bridge, change-confirmed-stock-return and                 *)
(* change-confirmed-ledger-restock-bridge, and inspectChange                *)
(* (services/rma-inspect.service.ts).                                       *)
(*                                                                          *)
(* Every line stands for one unit.  The FSMs, the coverage check of         *)
(* createForOrder and the quantity check of requestChange belong to the     *)
(* order package; Flow moves goods without asking who moved them before.    *)
(* "confirmed" stands for every status before "fulfilled", "fulfilled" also *)
(* for "completed"; a delivered shipment stays "shipped" or "out", since no *)
(* handler of goods or cost listens for "delivered".                        *)
(***************************************************************************)
EXTENDS Naturals, FiniteSets

CONSTANTS
    Line,      \* the order's lines
    Shipment,  \* the fulfilments that can be created for it
    Inspector, \* the inspections that can be under way at once
    MaxFaults  \* bound: how many answers or stamps are lost, jobs die, inspections overlap

ASSUME FulfilmentConstants ==
    /\ Line # {}
    /\ IsFiniteSet(Shipment)
    /\ {"return", "restock", "inspection"} \cap Shipment = {}
    /\ MaxFaults \in Nat

Job   == Shipment \cup {"return", "restock"} \* one stock and one ledger job each
Goods == Job \cup {"inspection"}

VARIABLES
    order,     \* its status; forced: made "fulfilled" by the bare verb
    held,      \* the lines whose placement hold is active
    freed,     \* history: the lines whose hold expired or was released by a close
    closing,   \* a cancel or refund is about to release the holds
    shipment,  \* each fulfilment, and the ship action that is working on it
    stockJob,  \* the stock handlers of the lifecycle events
    ledgerJob, \* their ledger handlers
    moves,     \* how often the goods of each subject were moved
    unseen,    \* history: faults that hid a move from the next attempt
    change,    \* the RMA and its stamps
    cost,      \* the COGS event was published: one entry per order
    reversed,  \* the COGS reversals published, by their key
    skipped,   \* history: an RMA's reversal was skipped as "not shipped"
    inspector, \* where each inspection is
    faults     \* how many faults happened

orderVars == <<order, held, freed, closing>>
jobs      == <<stockJob, ledgerJob>>
goods     == <<moves, unseen>>
books     == <<cost, reversed, skipped>>
vars == <<orderVars, shipment, jobs, goods, change, books, inspector, faults>>

Unborn == [state |-> "none", kind |-> "physical", lines |-> {}, press |-> "none"]
Withdrawn == [Unborn EXCEPT !.state = "canceled", !.lines = Line]
NoChange == [state |-> "none", inspect |-> FALSE, stocked |-> FALSE, inspected |-> FALSE]

\* The shipments of `gone` were planned and withdrawn before; `spent` faults
\* happened elsewhere.
InitFor(gone, spent) ==
    /\ order     = [status |-> "confirmed", forced |-> FALSE]
    /\ held      = Line
    /\ freed     = {}
    /\ closing   = FALSE
    /\ shipment  = [f \in Shipment |-> IF f \in gone THEN Withdrawn ELSE Unborn]
    /\ stockJob  = [j \in Job |-> "none"]
    /\ ledgerJob = [j \in Job |-> "none"]
    /\ moves     = [g \in Goods |-> 0]
    /\ unseen    = [g \in Goods |-> 0]
    /\ change    = NoChange
    /\ cost      = FALSE
    /\ reversed  = {}
    /\ skipped   = FALSE
    /\ inspector = [i \in Inspector |-> "idle"]
    /\ faults    = spent

Init == InitFor({}, 0)

Live == {f \in Shipment : shipment[f].state \notin {"none", "canceled"}}
Out  == {f \in Shipment : shipment[f].state \in {"shipped", "out"}}

Planned(ls) == \E f \in Live : shipment[f].lines \cap ls # {}
Covered(ls) == ls \subseteq UNION {shipment[f].lines : f \in Out}

Moved(g)  == moves' = [moves EXCEPT ![g] = @ + 1]
Unseen(g) == unseen' = [unseen EXCEPT ![g] = @ + 1]
Fault     == faults < MaxFaults /\ faults' = faults + 1
-----------------------------------------------------------------------------
\* ship and fulfill of orderActionHandler: the guard, on the loaded order ...
ShipLoad(f) ==
    /\ shipment[f] = Unborn
    /\ order.status = "confirmed"
    /\ ~Covered(Line)
    /\ shipment' = [shipment EXCEPT ![f].press = "loaded"]
    /\ UNCHANGED <<orderVars, jobs, goods, change, books, inspector>>

\* ... a fulfilment of all lines, which the package refuses when one is planned ...
CreateByAction(f) ==
    /\ shipment[f].press = "loaded"
    /\ ~Planned(Line)
    /\ shipment' = [shipment EXCEPT ![f] =
                      [state |-> "pending", kind |-> "physical", lines |-> Line, press |-> "created"]]
    /\ UNCHANGED <<orderVars, jobs, goods, change, books, inspector>>

\* ... its transition to "shipped", whose event the two handlers listen for ...
Ships(f, press) ==
    /\ shipment[f].state = "pending"
    /\ shipment[f].kind = "physical"
    /\ shipment' = [shipment EXCEPT ![f].state = "shipped", ![f].press = press]
    /\ stockJob' = [stockJob EXCEPT ![f] = "queued"]
    /\ ledgerJob' = [ledgerJob EXCEPT ![f] = "queued"]
    /\ UNCHANGED <<orderVars, goods, change, books, inspector>>

ShipByAction(f) == shipment[f].press = "created" /\ Ships(f, "shipped")

\* ... and the order's own transition, if its FSM agrees.
Reflect(f) ==
    /\ shipment[f].press = "shipped"
    /\ shipment' = [shipment EXCEPT ![f].press = "none"]
    /\ order' = IF order.status = "confirmed" THEN [order EXCEPT !.status = "fulfilled"] ELSE order
    /\ UNCHANGED <<held, freed, closing, jobs, goods, change, books, inspector>>

\* It throws or dies at any await.
ShipActionEnds(f) ==
    /\ shipment[f].press # "none"
    /\ shipment' = [shipment EXCEPT ![f].press = "none"]
    /\ UNCHANGED <<orderVars, jobs, goods, change, books, inspector>>

\* The fulfilment routes and the carrier's webhook leave the order's status alone.
CreateByRoute(f) ==
    \E ls \in (SUBSET Line) \ {{}}, kind \in {"physical", "manual"} :
        /\ shipment[f] = Unborn
        /\ ~Planned(ls)
        /\ shipment' = [shipment EXCEPT ![f] =
                          [state |-> "pending", kind |-> kind, lines |-> ls, press |-> "none"]]
        /\ UNCHANGED <<orderVars, jobs, goods, change, books, inspector>>

ShipByRoute(f) == Ships(f, shipment[f].press)

TransitionTo(f, to) ==
    /\ shipment[f].state = "pending"
    /\ shipment' = [shipment EXCEPT ![f].state = to]
    /\ UNCHANGED <<orderVars, jobs, goods, change, books, inspector>>

\* The same handlers listen for these, and return.
SendOut(f)        == shipment[f].kind = "manual" /\ TransitionTo(f, "out")
CancelShipment(f) == TransitionTo(f, "canceled")
-----------------------------------------------------------------------------
\* The plain transitions.  A cancel is refused once a line is covered.
OrderTo(from, to) ==
    /\ order.status \in from
    /\ order' = [order EXCEPT !.status = to]
    /\ UNCHANGED <<held, freed, shipment, goods, change, books, inspector>>

CancelOrder ==
    /\ Out = {}
    /\ OrderTo({"confirmed"}, "canceled")
    /\ closing' = TRUE
    /\ UNCHANGED jobs

\* Mutant: the verb is written where the status goes.
ForceVerb ==
    /\ order.status = "confirmed"
    /\ order' = [status |-> "fulfill", forced |-> TRUE]
    /\ UNCHANGED <<held, freed, closing, shipment, jobs, goods, change, books, inspector>>

\* An action that is no verb is taken for the status itself.
ForceFulfilled ==
    /\ order.status = "confirmed"
    /\ order' = [status |-> "fulfilled", forced |-> TRUE]
    /\ UNCHANGED <<held, freed, closing, shipment, jobs, goods, change, books, inspector>>

\* The refund verb, and the refund button, which releases only when asked.
\* order:refunded starts the two handlers if the order was fulfilled.
RefundOrder ==
    /\ OrderTo({"confirmed", "fulfilled"}, "refunded")
    /\ closing' \in {closing, TRUE}
    /\ IF order.status = "confirmed" THEN UNCHANGED jobs
       ELSE /\ stockJob' = [stockJob EXCEPT !["restock"] = "queued"]
            /\ ledgerJob' = [ledgerJob EXCEPT !["restock"] = "queued"]

\* The transition of an RMA that paid the whole order back; its reason makes
\* both handlers return.
RefundByRma ==
    /\ change.state = "confirmed"
    /\ OrderTo({"confirmed", "fulfilled"}, "refunded")
    /\ UNCHANGED <<closing, jobs>>

\* releaseOrderStock, which swallows its error.
ReleaseHolds ==
    /\ closing
    /\ closing' = FALSE
    /\ \/ held' = {} /\ freed' = freed \cup held
       \/ UNCHANGED <<held, freed>>
    /\ UNCHANGED <<order, shipment, jobs, goods, change, books, inspector>>

HoldExpires ==
    \E l \in held :
        /\ held' = held \ {l}
        /\ freed' = freed \cup {l}
        /\ UNCHANGED <<order, closing, shipment, jobs, goods, change, books, inspector>>
-----------------------------------------------------------------------------
StockJobTo(j, from, to) ==
    /\ stockJob[j] = from
    /\ stockJob' = [stockJob EXCEPT ![j] = to]

\* Mutant: the holds are released before the move is received.
CommitStockAfterRelease(f) ==
    /\ StockJobTo(f, "queued", "moved")
    /\ held' = held \ shipment[f].lines
    /\ UNCHANGED <<order, freed, closing, shipment, ledgerJob, goods, change, books, inspector>>

\* stockCommitHandler: create, confirm and receive a move to the customer ...
CommitStock(f) ==
    /\ StockJobTo(f, "queued", "moved")
    /\ Moved(f)
    /\ UNCHANGED <<orderVars, shipment, ledgerJob, unseen, change, books, inspector>>

\* ... then release the holds of its lines, errors swallowed.
ReleaseShipped(f) ==
    /\ StockJobTo(f, "moved", "done")
    /\ held' \in {held, held \ shipment[f].lines}
    /\ UNCHANGED <<order, freed, closing, shipment, ledgerJob, goods, change, books, inspector>>

\* stockReturnHandler: every line, whatever an RMA brought back before.
Restock ==
    /\ StockJobTo("restock", "queued", "done")
    /\ Moved("restock")
    /\ UNCHANGED <<orderVars, shipment, ledgerJob, unseen, change, books, inspector>>

\* changeConfirmedStockReturnHandler: the lines of the change, unless stamped ...
ReturnStock ==
    /\ ~change.stocked
    /\ StockJobTo("return", "queued", "moved")
    /\ Moved("return")
    /\ UNCHANGED <<orderVars, shipment, ledgerJob, unseen, change, books, inspector>>

ReturnSeen ==
    /\ change.stocked
    /\ StockJobTo("return", "queued", "done")
    /\ UNCHANGED <<orderVars, shipment, ledgerJob, goods, change, books, inspector>>

\* ... and the stamp, which lets a required inspection begin.
StampReturn ==
    /\ StockJobTo("return", "moved", "done")
    /\ change' = [change EXCEPT !.stocked = TRUE]
    /\ UNCHANGED <<orderVars, shipment, ledgerJob, goods, books, inspector>>

\* The move is received, or the stamp written or not, and the handler throws:
\* withRetry runs it again.
ReceiveAnswerLost(j) ==
    /\ Fault
    /\ stockJob[j] = "queued"
    /\ j = "return" => ~change.stocked
    /\ Moved(j)
    /\ Unseen(j)
    /\ UNCHANGED <<orderVars, shipment, jobs, change, books, inspector>>

StampAnswerLost ==
    /\ Fault
    /\ StockJobTo("return", "moved", "queued")
    /\ \/ Unseen("return") /\ UNCHANGED change
       \/ change' = [change EXCEPT !.stocked = TRUE] /\ UNCHANGED unseen
    /\ UNCHANGED <<orderVars, shipment, ledgerJob, moves, books, inspector>>

\* Retries exhausted, or the in-memory event lost with the process.
StockJobDies(j) ==
    /\ Fault
    /\ stockJob[j] \in {"queued", "moved"}
    /\ stockJob' = [stockJob EXCEPT ![j] = "done"]
    /\ UNCHANGED <<orderVars, shipment, ledgerJob, goods, change, books, inspector>>
-----------------------------------------------------------------------------
LedgerJobDone(j) ==
    /\ ledgerJob[j] = "queued"
    /\ ledgerJob' = [ledgerJob EXCEPT ![j] = "done"]
    /\ UNCHANGED <<orderVars, shipment, stockJob, goods, change, inspector>>

\* Goods written off are no reversal of their cost.
ReversesOrWritesOff(key) == reversed' \in {reversed, reversed \cup {key}}

\* ledgerCogsBridgeHandler: the cost of the whole order, with any shipment.
BookCost(f) ==
    /\ LedgerJobDone(f)
    /\ cost' = TRUE
    /\ UNCHANGED <<reversed, skipped>>

\* ledgerRestockBridgeHandler.
BookRestock ==
    /\ LedgerJobDone("restock")
    /\ ReversesOrWritesOff("order")
    /\ UNCHANGED <<cost, skipped>>

\* Mutant: without the check that the order shipped.
BookReturnUnchecked ==
    /\ LedgerJobDone("return")
    /\ IF change.inspect THEN UNCHANGED <<reversed, skipped>>
       ELSE ReversesOrWritesOff("return") /\ UNCHANGED skipped
    /\ UNCHANGED cost

\* changeConfirmedLedgerRestockBridgeHandler: left to the inspection, or by the
\* status the order has now.
BookReturn ==
    /\ LedgerJobDone("return")
    /\ CASE change.inspect -> UNCHANGED <<reversed, skipped>>
         [] ~change.inspect /\ order.status = "fulfilled" ->
                ReversesOrWritesOff("return") /\ UNCHANGED skipped
         [] OTHER -> skipped' = TRUE /\ UNCHANGED reversed
    /\ UNCHANGED cost

LedgerJobDies(j) ==
    /\ Fault
    /\ LedgerJobDone(j)
    /\ UNCHANGED books
-----------------------------------------------------------------------------
\* requestChange: lines that were covered, once.  Which ones steers nothing here.
RequestChange ==
    \E ls \in (SUBSET Line) \ {{}}, inspect \in BOOLEAN :
        /\ change = NoChange
        /\ Covered(ls)
        /\ change' = [NoChange EXCEPT !.state = "requested", !.inspect = inspect]
        /\ UNCHANGED <<orderVars, shipment, jobs, goods, books, inspector>>

ConfirmChange ==
    /\ change.state = "requested"
    /\ change' = [change EXCEPT !.state = "confirmed"]
    /\ stockJob' = [stockJob EXCEPT !["return"] = "queued"]
    /\ ledgerJob' = [ledgerJob EXCEPT !["return"] = "queued"]
    /\ UNCHANGED <<orderVars, shipment, goods, books, inspector>>

DeclineChange ==
    /\ change.state = "requested"
    /\ change' = [change EXCEPT !.state = "declined"]
    /\ UNCHANGED <<orderVars, shipment, jobs, goods, books, inspector>>

InspectorTo(i, from, to) ==
    /\ inspector[i] = from
    /\ inspector' = [inspector EXCEPT ![i] = to]

\* Mutant: a change that was inspected is inspected again.
InspectableAgain == change.state = "confirmed" /\ change.inspect /\ change.stocked

\* Confirmed, in holding ("pending"), not inspected.
Inspectable == change.state = "confirmed" /\ change.inspect /\ change.stocked /\ ~change.inspected

\* inspectChange, alone or next to an inspection that does not show yet.
InspectLoad(i) ==
    /\ Inspectable
    /\ \A k \in Inspector : inspector[k] = "idle"
    /\ InspectorTo(i, "idle", "moving")
    /\ UNCHANGED <<orderVars, shipment, jobs, goods, change, books>>

InspectOverlap(i) ==
    /\ Fault
    /\ Inspectable
    /\ \E k \in Inspector : inspector[k] # "idle"
    /\ InspectorTo(i, "idle", "moving")
    /\ Unseen("inspection")
    /\ UNCHANGED <<orderVars, shipment, jobs, moves, change, books>>

InspectMove(i) ==
    /\ InspectorTo(i, "moving", "stamping")
    /\ Moved("inspection")
    /\ UNCHANGED <<orderVars, shipment, jobs, unseen, change, books>>

\* publishRmaLedger, without a look at the order, and the stamps.
InspectStamp(i) ==
    /\ InspectorTo(i, "stamping", "idle")
    /\ ReversesOrWritesOff("return")
    /\ change' = [change EXCEPT !.inspected = TRUE]
    /\ UNCHANGED <<orderVars, shipment, jobs, goods, cost, skipped>>

InspectFails(i) ==
    /\ InspectorTo(i, "moving", "idle")
    /\ UNCHANGED <<orderVars, shipment, jobs, goods, change, books>>

InspectCutOff(i) ==
    /\ Fault
    /\ InspectorTo(i, "stamping", "idle")
    /\ Unseen("inspection")
    /\ UNCHANGED <<orderVars, shipment, jobs, moves, change, books>>
-----------------------------------------------------------------------------
ShipmentStep(f) ==
    \/ ShipLoad(f) \/ CreateByAction(f) \/ ShipByAction(f) \/ Reflect(f) \/ ShipActionEnds(f)
    \/ CreateByRoute(f) \/ ShipByRoute(f) \/ SendOut(f) \/ CancelShipment(f)
    \/ CommitStock(f) \/ ReleaseShipped(f) \/ BookCost(f)

OrderStep ==
    \/ CancelOrder \/ ForceFulfilled \/ RefundOrder \/ RefundByRma
    \/ ReleaseHolds \/ HoldExpires \/ Restock \/ BookRestock

ChangeStep ==
    \/ RequestChange \/ ConfirmChange \/ DeclineChange
    \/ ReturnStock \/ ReturnSeen \/ StampReturn \/ BookReturn

InspectorStep(i) == InspectLoad(i) \/ InspectMove(i) \/ InspectStamp(i) \/ InspectFails(i)

FaultStep ==
    \/ \E j \in Job : ReceiveAnswerLost(j) \/ StockJobDies(j) \/ LedgerJobDies(j)
    \/ StampAnswerLost
    \/ \E i \in Inspector : InspectOverlap(i) \/ InspectCutOff(i)

Next ==
    \/ \E f \in Shipment : ShipmentStep(f) /\ UNCHANGED faults
    \/ OrderStep /\ UNCHANGED faults
    \/ ChangeStep /\ UNCHANGED faults
    \/ \E i \in Inspector : InspectorStep(i) /\ UNCHANGED faults
    \/ FaultStep

Spec == Init /\ [][Next]_vars
-----------------------------------------------------------------------------
OrderStatus == {"confirmed", "fulfilled", "canceled", "refunded"}
ShipState   == {"none", "pending", "shipped", "out", "canceled"}
ChangeState == {"none", "requested", "confirmed", "declined"}

TypeOK ==
    /\ order \in [status : OrderStatus, forced : BOOLEAN]
    /\ held \subseteq Line
    /\ freed \subseteq Line
    /\ closing \in BOOLEAN
    /\ shipment \in [Shipment -> [state : ShipState, kind : {"physical", "manual"},
                                  lines : SUBSET Line,
                                  press : {"none", "loaded", "created", "shipped"}]]
    /\ stockJob \in [Job -> {"none", "queued", "moved", "done"}]
    /\ ledgerJob \in [Job -> {"none", "queued", "done"}]
    /\ moves \in [Goods -> Nat]
    /\ unseen \in [Goods -> Nat]
    /\ change \in [state : ChangeState, inspect : BOOLEAN, stocked : BOOLEAN, inspected : BOOLEAN]
    /\ cost \in BOOLEAN
    /\ reversed \subseteq {"return", "order"}
    /\ skipped \in BOOLEAN
    /\ inspector \in [Inspector -> {"idle", "moving", "stamping"}]
    /\ faults \in 0 .. MaxFaults

\* The goods of a shipment leave once, those of a return come back once, a
\* refunded order is restocked once and a return leaves holding once, whatever
\* is retried; a second move takes an answer or a stamp that was lost after the
\* first one, or an inspection that began while another was under way.
GoodsMoved == INSTANCE EffectOnce WITH
    Subject <- Goods,
    done    <- moves,
    excused <- unseen

GoodsMovedOnce == GoodsMoved!Spec

\* No unit is offered for sale again while it waits to be shipped: a hold that
\* neither expired nor was released by a cancel or refund ends only after the
\* goods of a shipment with its line have left.
HoldUntilGone ==
    \A l \in Line \ (held \cup freed) :
        \E f \in Shipment : l \in shipment[f].lines /\ moves[f] > 0

\* A cost is reversed only for an order of which something was shipped, or
\* which was called fulfilled by hand, or by an inspection (which does not
\* look): whoever closes the order meanwhile, and whichever handler is late.
NoReversalWithoutShipment ==
    reversed # {} =>
        \/ \E f \in Shipment : shipment[f].kind = "physical" /\ f \in Out
        \/ order.forced
        \/ change.inspect

\* change-confirmed-ledger-restock-bridge.ts:105: "Skip if the order never
\* shipped - no COGS was posted, nothing to reverse."
SkippedMeansNoCost == skipped => ~cost

\* wire-handlers.ts:70-71: "Those two have RMA-aware guards so they don't
\* double-act on partial RMA -> full refund paths."
RestockedOnce == [][moves["return"] > 0 => moves'["restock"] = moves["restock"]]_vars
=============================================================================
