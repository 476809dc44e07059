------------------------ MODULE OrderFulfilment_proof ------------------------
(***************************************************************************)
(* Proofs about the goods of an order: its types, that a hold ends only     *)
(* after the goods have left, that no cost is reversed without a shipment,  *)
(* and that every move of goods happens once (a refinement of EffectOnce).  *)
(*                                                                          *)
(* The inductive invariant follows the goods: Pipeline says how far each    *)
(* shipment and its stock handler are, Returns the same of the refund and   *)
(* the RMA, Inspections of the inspections; Reasons says what must have     *)
(* happened before any handler may reverse a cost.  Two more facts follow   *)
(* from it: what no later step takes back (Stands), and, with Trail, that   *)
(* nothing comes back that never left.                                      *)
(***************************************************************************)
EXTENDS OrderFulfilment, FiniteSetTheorems, TLAPS

ShipmentRecord ==
    [state : ShipState, kind : {"physical", "manual"}, lines : SUBSET Line,
     press : {"none", "loaded", "created", "shipped"}]

ChangeRecord ==
    [state : ChangeState, inspect : BOOLEAN, stocked : BOOLEAN, inspected : BOOLEAN]

LEMMA InitTypes == Init => TypeOK
  <1> SUFFICES ASSUME Init PROVE TypeOK
    OBVIOUS
  <1>1. Unborn \in ShipmentRecord
    BY DEF Unborn, ShipmentRecord, ShipState
  <1>2. shipment \in [Shipment -> ShipmentRecord]
    BY <1>1 DEF Init, InitFor
  <1>3. change \in ChangeRecord
    BY DEF Init, InitFor, NoChange, ChangeRecord, ChangeState
  <1>4. faults \in 0 .. MaxFaults
    BY FulfilmentConstants DEF Init, InitFor
  <1>5. order \in [status : OrderStatus, forced : BOOLEAN]
    BY DEF Init, InitFor, OrderStatus
  <1>6. moves \in [Goods -> Nat] /\ unseen \in [Goods -> Nat]
    BY DEF Init, InitFor
  <1>7. stockJob \in [Job -> {"none", "queued", "moved", "done"}]
        /\ ledgerJob \in [Job -> {"none", "queued", "done"}]
    BY DEF Init, InitFor
  <1>8. inspector \in [Inspector -> {"idle", "moving", "stamping"}]
    BY DEF Init, InitFor
  <1>9. held \subseteq Line /\ freed \subseteq Line /\ closing \in BOOLEAN /\ cost \in BOOLEAN
        /\ reversed \subseteq {"return", "order"} /\ skipped \in BOOLEAN
    BY DEF Init, InitFor
  <1> QED
    BY <1>2, <1>3, <1>4, <1>5, <1>6, <1>7, <1>8, <1>9 DEF TypeOK, ShipmentRecord, ChangeRecord

LEMMA Subjects ==
    /\ Shipment \subseteq Job /\ Job \subseteq Goods
    /\ "return" \in Job /\ "restock" \in Job /\ "inspection" \in Goods
    /\ "return" \notin Shipment /\ "restock" \notin Shipment /\ "inspection" \notin Shipment
  BY FulfilmentConstants DEF Job, Goods

LEMMA ShipmentTypes ==
    ASSUME TypeOK, faults' \in 0 .. MaxFaults, NEW f \in Shipment,
           \/ ShipLoad(f) \/ CreateByAction(f) \/ ShipByAction(f) \/ Reflect(f) \/ ShipActionEnds(f)
           \/ CreateByRoute(f) \/ ShipByRoute(f) \/ SendOut(f) \/ CancelShipment(f)
    PROVE  TypeOK'
  <1>0. /\ shipment \in [Shipment -> ShipmentRecord] /\ shipment[f] \in ShipmentRecord
        /\ order \in [status : OrderStatus, forced : BOOLEAN]
    BY DEF TypeOK, ShipmentRecord
  <1>1. ASSUME NEW state \in ShipState, NEW press \in {"none", "loaded", "created", "shipped"},
               shipment' = [shipment EXCEPT ![f].state = state, ![f].press = press]
        PROVE  shipment' \in [Shipment -> ShipmentRecord]
    BY <1>0, <1>1 DEF ShipmentRecord
  <1>2. ASSUME NEW press \in {"none", "loaded", "created", "shipped"},
               shipment' = [shipment EXCEPT ![f].press = press]
        PROVE  shipment' \in [Shipment -> ShipmentRecord]
    BY <1>0, <1>2 DEF ShipmentRecord
  <1>3. ASSUME NEW to \in ShipState, shipment' = [shipment EXCEPT ![f].state = to]
        PROVE  shipment' \in [Shipment -> ShipmentRecord]
    BY <1>0, <1>3 DEF ShipmentRecord
  <1>4. ASSUME NEW ls \in SUBSET Line, NEW kind \in {"physical", "manual"},
               NEW press \in {"none", "created"},
               shipment' = [shipment EXCEPT ![f] =
                   [state |-> "pending", kind |-> kind, lines |-> ls, press |-> press]]
        PROVE  shipment' \in [Shipment -> ShipmentRecord]
    BY <1>0, <1>4 DEF ShipmentRecord, ShipState
  <1>5. ASSUME shipment' \in [Shipment -> ShipmentRecord],
               UNCHANGED <<orderVars, jobs, goods, change, books, inspector>>
        PROVE  TypeOK'
    BY <1>5 DEF TypeOK, ShipmentRecord, orderVars, jobs, goods, books
  <1>6. CASE ShipLoad(f) \/ ShipActionEnds(f)
    BY <1>6, <1>2, <1>5 DEF ShipLoad, ShipActionEnds
  <1>7. CASE CreateByAction(f)
    BY <1>7, <1>4, <1>5 DEF CreateByAction
  <1>8. CASE CreateByRoute(f)
    BY <1>8, <1>4, <1>5 DEF CreateByRoute
  <1>9. CASE SendOut(f) \/ CancelShipment(f)
    BY <1>9, <1>3, <1>5 DEF SendOut, CancelShipment, TransitionTo, ShipState
  <1>10. CASE ShipByAction(f) \/ ShipByRoute(f)
    <2>1. PICK press \in {"none", "loaded", "created", "shipped"} : Ships(f, press)
      BY <1>0, <1>10 DEF ShipByAction, ShipByRoute, ShipmentRecord
    <2>2. shipment' \in [Shipment -> ShipmentRecord]
      BY <2>1, <1>1 DEF Ships, ShipState
    <2>3. /\ stockJob' \in [Job -> {"none", "queued", "moved", "done"}]
          /\ ledgerJob' \in [Job -> {"none", "queued", "done"}]
      BY <2>1 DEF Ships, TypeOK
    <2>4. UNCHANGED <<orderVars, goods, change, books, inspector>>
      BY <2>1 DEF Ships
    <2> QED
      BY <2>2, <2>3, <2>4 DEF TypeOK, ShipmentRecord, orderVars, goods, books
  <1>11. CASE Reflect(f)
    <2>1. shipment' \in [Shipment -> ShipmentRecord]
      BY <1>11, <1>2 DEF Reflect
    <2>2. order' \in [status : OrderStatus, forced : BOOLEAN]
      BY <1>0, <1>11 DEF Reflect, OrderStatus
    <2>3. UNCHANGED <<held, freed, closing, jobs, goods, change, books, inspector>>
      BY <1>11 DEF Reflect
    <2> QED
      BY <2>1, <2>2, <2>3 DEF TypeOK, ShipmentRecord, jobs, goods, books
  <1> QED
    BY <1>6, <1>7, <1>8, <1>9, <1>10, <1>11

LEMMA OrderTypes ==
    ASSUME TypeOK, faults' \in 0 .. MaxFaults,
           CancelOrder \/ ForceFulfilled \/ RefundOrder \/ RefundByRma \/ ReleaseHolds \/ HoldExpires
    PROVE  TypeOK'
  <1>0. /\ order \in [status : OrderStatus, forced : BOOLEAN]
        /\ stockJob \in [Job -> {"none", "queued", "moved", "done"}]
        /\ ledgerJob \in [Job -> {"none", "queued", "done"}]
        /\ closing \in BOOLEAN
    BY DEF TypeOK
  <1>1. order' \in [status : OrderStatus, forced : BOOLEAN]
    <2>1. CASE ForceFulfilled
      BY <2>1 DEF ForceFulfilled, OrderStatus
    <2>2. CASE \E to \in OrderStatus : order' = [order EXCEPT !.status = to]
      BY <2>2, <1>0
    <2>3. CASE UNCHANGED order
      BY <2>3, <1>0
    <2> QED
      BY <2>1, <2>2, <2>3
      DEF CancelOrder, RefundOrder, RefundByRma, OrderTo, ReleaseHolds, HoldExpires, OrderStatus
  <1>2. /\ stockJob' \in [Job -> {"none", "queued", "moved", "done"}]
        /\ ledgerJob' \in [Job -> {"none", "queued", "done"}]
    <2>1. CASE UNCHANGED jobs
      BY <2>1, <1>0 DEF jobs
    <2>2. CASE /\ stockJob' = [stockJob EXCEPT !["restock"] = "queued"]
               /\ ledgerJob' = [ledgerJob EXCEPT !["restock"] = "queued"]
      BY <2>2, <1>0
    <2> QED
      BY <2>1, <2>2 DEF CancelOrder, ForceFulfilled, RefundOrder, RefundByRma, ReleaseHolds, HoldExpires
  <1>3. closing' \in BOOLEAN
    BY <1>0 DEF CancelOrder, ForceFulfilled, RefundOrder, RefundByRma, ReleaseHolds, HoldExpires
  <1>4. held' \subseteq Line /\ freed' \subseteq Line
    BY DEF CancelOrder, ForceFulfilled, RefundOrder, RefundByRma, OrderTo, ReleaseHolds, HoldExpires,
           TypeOK
  <1>5. UNCHANGED <<shipment, goods, change, books, inspector>>
    BY DEF CancelOrder, ForceFulfilled, RefundOrder, RefundByRma, OrderTo, ReleaseHolds, HoldExpires
  <1> QED
    BY <1>1, <1>2, <1>3, <1>4, <1>5 DEF TypeOK, goods, books

LEMMA StockTypes ==
    ASSUME TypeOK, faults' \in 0 .. MaxFaults,
           \/ \E f \in Shipment : CommitStock(f) \/ ReleaseShipped(f)
           \/ Restock \/ ReturnStock \/ ReturnSeen \/ StampReturn \/ StampAnswerLost
           \/ \E j \in Job : ReceiveAnswerLost(j) \/ StockJobDies(j)
    PROVE  TypeOK'
  <1>0. /\ stockJob \in [Job -> {"none", "queued", "moved", "done"}]
        /\ moves \in [Goods -> Nat] /\ unseen \in [Goods -> Nat]
        /\ change \in ChangeRecord /\ held \subseteq Line
    BY DEF TypeOK, ChangeRecord
  <1>1. stockJob' \in [Job -> {"none", "queued", "moved", "done"}]
    <2>1. CASE UNCHANGED stockJob
      BY <2>1, <1>0
    <2>2. CASE \E j \in Job, to \in {"queued", "moved", "done"} : stockJob' = [stockJob EXCEPT ![j] = to]
      BY <2>2, <1>0
    <2> QED
      BY <2>1, <2>2, Subjects
      DEF CommitStock, ReleaseShipped, Restock, ReturnStock, ReturnSeen, StampReturn,
          StampAnswerLost, ReceiveAnswerLost, StockJobDies, StockJobTo, jobs
  <1>2. moves' \in [Goods -> Nat]
    <2>1. CASE UNCHANGED moves
      BY <2>1, <1>0
    <2>2. CASE \E g \in Goods : Moved(g)
      BY <2>2, <1>0 DEF Moved
    <2> QED
      BY <2>1, <2>2, Subjects
      DEF CommitStock, ReleaseShipped, Restock, ReturnStock, ReturnSeen, StampReturn,
          StampAnswerLost, ReceiveAnswerLost, StockJobDies, goods
  <1>3. unseen' \in [Goods -> Nat]
    <2>1. CASE UNCHANGED unseen
      BY <2>1, <1>0
    <2>2. CASE \E g \in Goods : Unseen(g)
      BY <2>2, <1>0 DEF Unseen
    <2> QED
      BY <2>1, <2>2, Subjects
      DEF CommitStock, ReleaseShipped, Restock, ReturnStock, ReturnSeen, StampReturn,
          StampAnswerLost, ReceiveAnswerLost, StockJobDies, goods
  <1>4. change' \in ChangeRecord
    <2>1. CASE UNCHANGED change
      BY <2>1, <1>0
    <2>2. CASE change' = [change EXCEPT !.stocked = TRUE]
      BY <2>2, <1>0 DEF ChangeRecord
    <2> QED
      BY <2>1, <2>2
      DEF CommitStock, ReleaseShipped, Restock, ReturnStock, ReturnSeen, StampReturn,
          StampAnswerLost, ReceiveAnswerLost, StockJobDies
  <1>5. held' \subseteq Line
    BY <1>0
    DEF CommitStock, ReleaseShipped, Restock, ReturnStock, ReturnSeen, StampReturn,
        StampAnswerLost, ReceiveAnswerLost, StockJobDies, orderVars
  <1>6. UNCHANGED <<order, freed, closing, shipment, ledgerJob, books, inspector>>
    BY DEF CommitStock, ReleaseShipped, Restock, ReturnStock, ReturnSeen, StampReturn,
           StampAnswerLost, ReceiveAnswerLost, StockJobDies, orderVars, jobs
  <1> QED
    BY <1>1, <1>2, <1>3, <1>4, <1>5, <1>6 DEF TypeOK, ChangeRecord, books

LEMMA LedgerTypes ==
    ASSUME TypeOK, faults' \in 0 .. MaxFaults,
           \/ \E f \in Shipment : BookCost(f)
           \/ BookRestock \/ BookReturn
           \/ \E j \in Job : LedgerJobDies(j)
    PROVE  TypeOK'
  <1>1. PICK j \in Job : LedgerJobDone(j)
    BY Subjects DEF BookCost, BookRestock, BookReturn, LedgerJobDies
  <1>2. ledgerJob' \in [Job -> {"none", "queued", "done"}]
    BY <1>1 DEF LedgerJobDone, TypeOK
  <1>3. cost' \in BOOLEAN
    BY Zenon DEF BookCost, BookRestock, BookReturn, LedgerJobDies, books, TypeOK
  <1>4. reversed' \subseteq {"return", "order"}
    BY DEF BookCost, BookRestock, BookReturn, LedgerJobDies, books, TypeOK, ReversesOrWritesOff
  <1>5. skipped' \in BOOLEAN
    <2>1. CASE UNCHANGED skipped
      BY <2>1 DEF TypeOK
    <2>2. CASE skipped' = TRUE
      BY <2>2
    <2> QED
      BY <2>1, <2>2, Zenon DEF BookCost, BookRestock, BookReturn, LedgerJobDies, books
  <1>6. UNCHANGED <<orderVars, shipment, stockJob, goods, change, inspector>>
    BY <1>1 DEF LedgerJobDone
  <1> QED
    BY <1>2, <1>3, <1>4, <1>5, <1>6 DEF TypeOK, orderVars, goods

LEMMA ChangeTypes ==
    ASSUME TypeOK, faults' \in 0 .. MaxFaults, RequestChange \/ ConfirmChange \/ DeclineChange
    PROVE  TypeOK'
  <1>0. /\ stockJob \in [Job -> {"none", "queued", "moved", "done"}]
        /\ ledgerJob \in [Job -> {"none", "queued", "done"}]
        /\ change \in ChangeRecord
    BY DEF TypeOK, ChangeRecord
  <1>1. change' \in ChangeRecord
    <2>1. CASE RequestChange
      <3>1. PICK ls \in SUBSET Line, inspect \in BOOLEAN :
                change' = [NoChange EXCEPT !.state = "requested", !.inspect = inspect]
        BY <2>1 DEF RequestChange
      <3>2. NoChange \in ChangeRecord
        BY DEF NoChange, ChangeRecord, ChangeState
      <3> QED
        BY <3>1, <3>2 DEF ChangeRecord, ChangeState
    <2>2. CASE ConfirmChange \/ DeclineChange
      BY <2>2, <1>0 DEF ConfirmChange, DeclineChange, ChangeRecord, ChangeState
    <2> QED
      BY <2>1, <2>2
  <1>2. /\ stockJob' \in [Job -> {"none", "queued", "moved", "done"}]
        /\ ledgerJob' \in [Job -> {"none", "queued", "done"}]
    BY <1>0 DEF RequestChange, ConfirmChange, DeclineChange, jobs
  <1>3. UNCHANGED <<orderVars, shipment, goods, books, inspector>>
    BY DEF RequestChange, ConfirmChange, DeclineChange
  <1> QED
    BY <1>1, <1>2, <1>3 DEF TypeOK, ChangeRecord, orderVars, goods, books

LEMMA InspectorTypes ==
    ASSUME TypeOK, faults' \in 0 .. MaxFaults, NEW i \in Inspector,
           InspectorStep(i) \/ InspectOverlap(i) \/ InspectCutOff(i)
    PROVE  TypeOK'
  <1>0. /\ moves \in [Goods -> Nat] /\ unseen \in [Goods -> Nat]
        /\ change \in ChangeRecord
        /\ inspector \in [Inspector -> {"idle", "moving", "stamping"}]
    BY DEF TypeOK, ChangeRecord
  <1> USE DEF InspectorStep
  <1>1. inspector' \in [Inspector -> {"idle", "moving", "stamping"}]
    BY <1>0 DEF InspectLoad, InspectMove, InspectStamp, InspectFails, InspectOverlap, InspectCutOff,
                InspectorTo
  <1>2. moves' \in [Goods -> Nat]
    BY <1>0, Subjects DEF InspectLoad, InspectMove, InspectStamp, InspectFails, InspectOverlap,
                          InspectCutOff, Moved, goods
  <1>3. unseen' \in [Goods -> Nat]
    BY <1>0, Subjects DEF InspectLoad, InspectMove, InspectStamp, InspectFails, InspectOverlap,
                          InspectCutOff, Unseen, goods
  <1>4. change' \in ChangeRecord
    <2>1. CASE UNCHANGED change
      BY <2>1, <1>0
    <2>2. CASE change' = [change EXCEPT !.inspected = TRUE]
      BY <2>2, <1>0 DEF ChangeRecord
    <2> QED
      BY <2>1, <2>2 DEF InspectLoad, InspectMove, InspectStamp, InspectFails, InspectOverlap, InspectCutOff
  <1>5. reversed' \subseteq {"return", "order"}
    BY DEF InspectLoad, InspectMove, InspectStamp, InspectFails, InspectOverlap, InspectCutOff,
           ReversesOrWritesOff, books, TypeOK
  <1>6. UNCHANGED <<orderVars, shipment, jobs, cost, skipped>>
    BY DEF InspectLoad, InspectMove, InspectStamp, InspectFails, InspectOverlap, InspectCutOff, books
  <1> QED
    BY <1>1, <1>2, <1>3, <1>4, <1>5, <1>6 DEF TypeOK, ChangeRecord, orderVars, jobs

LEMMA TypesOK == TypeOK /\ [Next]_vars => TypeOK'
  <1> SUFFICES ASSUME TypeOK, [Next]_vars PROVE TypeOK'
    OBVIOUS
  <1>1. CASE UNCHANGED vars
    BY <1>1 DEF vars, orderVars, jobs, goods, books, TypeOK
  <1>2. ASSUME Next PROVE TypeOK'
    <2>1. faults' \in 0 .. MaxFaults
      BY <1>2, FulfilmentConstants
      DEF Next, FaultStep, Fault, ReceiveAnswerLost, StockJobDies, LedgerJobDies, StampAnswerLost,
          InspectOverlap, InspectCutOff, TypeOK
    <2>2. ASSUME NEW f \in Shipment, ShipmentStep(f) PROVE TypeOK'
      BY <2>1, <2>2, ShipmentTypes, StockTypes, LedgerTypes DEF ShipmentStep
    <2>3. ASSUME OrderStep PROVE TypeOK'
      BY <2>1, <2>3, OrderTypes, StockTypes, LedgerTypes DEF OrderStep
    <2>4. ASSUME ChangeStep PROVE TypeOK'
      BY <2>1, <2>4, ChangeTypes, StockTypes, LedgerTypes DEF ChangeStep
    <2>5. ASSUME NEW i \in Inspector, InspectorStep(i) PROVE TypeOK'
      BY <2>1, <2>5, InspectorTypes
    <2>6. ASSUME FaultStep PROVE TypeOK'
      BY <2>1, <2>6, StockTypes, LedgerTypes, InspectorTypes DEF FaultStep
    <2> QED
      BY <1>2, <2>2, <2>3, <2>4, <2>5, <2>6 DEF Next
  <1> QED
    BY <1>1, <1>2
-----------------------------------------------------------------------------
\* How far a shipment and its stock handler are.
InPipeline(f) ==
    /\ shipment[f].press = "loaded" => shipment[f].state = "none"
    /\ shipment[f].state = "shipped" => shipment[f].kind = "physical"
    /\ shipment[f].press = "shipped" => shipment[f].state = "shipped"
    /\ stockJob[f] # "none" => shipment[f].state = "shipped"
    /\ moves[f] > 0 => stockJob[f] # "none"
    /\ stockJob[f] = "moved" => moves[f] > 0
    /\ stockJob[f] \in {"none", "queued"} => moves[f] <= unseen[f]

Pipeline == \A f \in Shipment : InPipeline(f)

\* Why a cost may be reversed.
Reason ==
    \/ \E f \in Shipment : shipment[f].state = "shipped"
    \/ order.forced
    \/ change.inspect

Reasons ==
    /\ order.status = "fulfilled" \/ ledgerJob["restock"] # "none" \/ reversed # {} => Reason
    /\ \A i \in Inspector : inspector[i] # "idle" => change.inspect

Returns ==
    /\ stockJob["restock"] # "none" => order.status = "refunded"
    /\ stockJob["restock"] \in {"none", "queued"} => moves["restock"] <= unseen["restock"]
    /\ stockJob["return"] # "none" => change.state = "confirmed"
    /\ stockJob["return"] \in {"none", "queued"} /\ ~change.stocked =>
           moves["return"] <= unseen["return"]
    /\ stockJob["return"] = "moved" => moves["return"] <= unseen["return"] + 1

\* The inspections that have not moved the goods yet.
Moving == {i \in Inspector : inspector[i] = "moving"}

Inspections ==
    /\ IsFiniteSet(Moving)
    /\ moves["inspection"] + Cardinality(Moving) <= unseen["inspection"] + 1
    /\ (\A i \in Inspector : inspector[i] = "idle") /\ ~change.inspected =>
           moves["inspection"] <= unseen["inspection"]

Parts == Pipeline /\ HoldUntilGone /\ Reasons /\ Returns /\ Inspections

GoodsInv == TypeOK /\ Parts

GoodsStep == [GoodsMoved!Next]_<<moves, unseen>>

LEMMA InitParts == Init => Parts /\ GoodsMoved!Init
  <1> SUFFICES ASSUME Init PROVE Parts /\ GoodsMoved!Init
    OBVIOUS
  <1>1. Pipeline /\ HoldUntilGone
    BY Subjects DEF Init, InitFor, Pipeline, InPipeline, HoldUntilGone, Unborn
  <1>2. Reasons /\ Returns
    BY Subjects DEF Init, InitFor, Reasons, Returns
  <1>3. Moving = {} /\ moves["inspection"] = 0 /\ unseen["inspection"] = 0
    BY Subjects DEF Init, InitFor, Moving
  <1>4. Inspections
    BY <1>3, FS_EmptySet DEF Inspections
  <1>5. GoodsMoved!Init
    BY DEF GoodsMoved!Init, Init, InitFor
  <1> QED
    BY <1>1, <1>2, <1>4, <1>5 DEF Parts

LEMMA Counts == ASSUME TypeOK, NEW g \in Goods PROVE moves[g] \in Nat /\ unseen[g] \in Nat
  BY DEF TypeOK

\* What a step may do to the counters.
LEMMA NoGoods == ASSUME UNCHANGED goods PROVE GoodsStep
  BY DEF goods, GoodsStep

LEMMA GoodsMove ==
    ASSUME NEW g \in Goods, moves[g] <= unseen[g], Moved(g), UNCHANGED unseen \/ Unseen(g)
    PROVE  GoodsStep
  BY DEF GoodsStep, GoodsMoved!Next, GoodsMoved!Perform, Moved, Unseen

LEMMA GoodsExcuse == ASSUME NEW g \in Goods, Unseen(g), UNCHANGED moves PROVE GoodsStep
  BY DEF GoodsStep, GoodsMoved!Next, GoodsMoved!Excuse, Unseen

\* The parts a step does not reach stay as they are.
LEMMA PipelineStays ==
    ASSUME Pipeline, UNCHANGED shipment,
           \A f \in Shipment : stockJob'[f] = stockJob[f] /\ moves'[f] = moves[f] /\ unseen'[f] = unseen[f]
    PROVE  Pipeline'
  BY DEF Pipeline, InPipeline

LEMMA HoldStays ==
    ASSUME HoldUntilGone, held \cup freed \subseteq held' \cup freed',
           \A f \in Shipment : moves[f] > 0 => shipment'[f].lines = shipment[f].lines /\ moves'[f] > 0
    PROVE  HoldUntilGone'
  BY DEF HoldUntilGone

LEMMA ReasonsStay ==
    ASSUME Reasons, \A f \in Shipment : shipment[f].state = "shipped" => shipment'[f].state = "shipped",
           order.forced => order'.forced, change.inspect => change'.inspect,
           order'.status = "fulfilled" => order.status = "fulfilled" \/ Reason',
           ledgerJob'["restock"] # "none" => ledgerJob["restock"] # "none" \/ Reason',
           reversed' # {} => reversed # {} \/ Reason',
           \A i \in Inspector : inspector'[i] # "idle" => inspector[i] # "idle" \/ change'.inspect
    PROVE  Reasons'
  BY DEF Reasons, Reason

LEMMA ReturnsStay ==
    ASSUME Returns, order.status = "refunded" => order'.status = "refunded",
           change.state = "confirmed" => change'.state = "confirmed", change'.stocked = change.stocked,
           \A j \in {"restock", "return"} :
               stockJob'[j] = stockJob[j] /\ moves'[j] = moves[j] /\ unseen'[j] = unseen[j]
    PROVE  Returns'
  BY DEF Returns

LEMMA InspectionsStay ==
    ASSUME Inspections, UNCHANGED inspector, change'.inspected = change.inspected,
           moves'["inspection"] = moves["inspection"], unseen'["inspection"] = unseen["inspection"]
    PROVE  Inspections'
  BY DEF Inspections, Moving
-----------------------------------------------------------------------------
\* A step of a shipment that starts no job but its own.
LEMMA ShipmentMoves ==
    ASSUME GoodsInv, NEW f \in Shipment, NEW r \in ShipmentRecord,
           shipment' = [shipment EXCEPT ![f] = r],
           shipment[f].state = "shipped" => r.state = "shipped" /\ r.lines = shipment[f].lines,
           InPipeline(f)',
           \A j \in Job : j # f => stockJob'[j] = stockJob[j] /\ ledgerJob'[j] = ledgerJob[j],
           order'.forced = order.forced,
           \/ order'.status = order.status
           \/ order.status = "confirmed" /\ order'.status = "fulfilled" /\ r.state = "shipped",
           UNCHANGED <<held, freed, goods, change, books, inspector>>
    PROVE  Parts' /\ GoodsStep
  <1>0. TypeOK /\ Parts
    BY DEF GoodsInv
  <1>1. /\ shipment'[f] = r /\ \A g \in Shipment : g # f => shipment'[g] = shipment[g]
    BY <1>0 DEF TypeOK
  <1>2. UNCHANGED <<moves, unseen, reversed>> /\ GoodsStep
    BY NoGoods DEF goods, books
  <1>3. Pipeline'
    <2> SUFFICES ASSUME NEW g \in Shipment, g # f PROVE InPipeline(g)'
      BY DEF Pipeline
    <2>1. InPipeline(g) /\ stockJob'[g] = stockJob[g] /\ shipment'[g] = shipment[g]
      BY <1>0, <1>1, Subjects DEF Parts, Pipeline
    <2> QED
      BY <1>2, <2>1 DEF InPipeline
  <1>4. HoldUntilGone'
    <2>1. moves[f] > 0 => shipment[f].state = "shipped"
      BY <1>0 DEF Parts, Pipeline, InPipeline
    <2> QED
      BY <1>0, <1>1, <1>2, <2>1, HoldStays DEF Parts
  <1>5. Reasons'
    <2>1. r.state = "shipped" => Reason'
      BY <1>1 DEF Reason
    <2>2. \A g \in Shipment : shipment[g].state = "shipped" => shipment'[g].state = "shipped"
      BY <1>1
    <2>3. order'.status = "fulfilled" => order.status = "fulfilled" \/ Reason'
      BY <2>1
    <2>4. ledgerJob'["restock"] = ledgerJob["restock"]
      BY Subjects
    <2> QED
      BY <1>0, <1>2, <2>2, <2>3, <2>4, ReasonsStay DEF Parts
  <1>6. Returns'
    <2>1. \A j \in {"restock", "return"} : stockJob'[j] = stockJob[j]
      BY Subjects
    <2>2. order.status = "refunded" => order'.status = "refunded"
      OBVIOUS
    <2> QED
      BY <1>0, <1>2, <2>1, <2>2, ReturnsStay DEF Parts
  <1>7. Inspections'
    BY <1>0, <1>2, InspectionsStay DEF Parts
  <1> QED
    BY <1>2, <1>3, <1>4, <1>5, <1>6, <1>7 DEF Parts

LEMMA ShipmentOK ==
    ASSUME GoodsInv, NEW f \in Shipment,
           \/ ShipLoad(f) \/ CreateByAction(f) \/ ShipByAction(f) \/ Reflect(f) \/ ShipActionEnds(f)
           \/ CreateByRoute(f) \/ ShipByRoute(f) \/ SendOut(f) \/ CancelShipment(f)
    PROVE  Parts' /\ GoodsStep
  <1>0. /\ shipment \in [Shipment -> ShipmentRecord] /\ shipment[f] \in ShipmentRecord
        /\ InPipeline(f) /\ stockJob \in [Job -> {"none", "queued", "moved", "done"}]
        /\ ledgerJob \in [Job -> {"none", "queued", "done"}]
        /\ order \in [status : OrderStatus, forced : BOOLEAN]
        /\ f \in Job
    BY Subjects DEF GoodsInv, Parts, Pipeline, TypeOK, ShipmentRecord
  <1>1. ASSUME NEW r \in ShipmentRecord, shipment' = [shipment EXCEPT ![f] = r],
               UNCHANGED <<orderVars, jobs, goods, change, books, inspector>>,
               shipment[f].state = "shipped" => r.state = "shipped" /\ r.lines = shipment[f].lines,
               r.press = "loaded" => r.state = "none",
               r.state = "shipped" => shipment[f].state = "shipped" /\ r.kind = shipment[f].kind,
               r.press = "shipped" => shipment[f].press = "shipped" /\ r.state = shipment[f].state
        PROVE  Parts' /\ GoodsStep
    <2>1. /\ shipment'[f] = r
          /\ UNCHANGED <<order, held, freed, stockJob, ledgerJob, moves, unseen>>
      BY <1>0, <1>1 DEF orderVars, jobs, goods
    <2>2. InPipeline(f)'
      BY <1>0, <1>1, <2>1 DEF InPipeline
    <2> QED
      BY <1>1, <2>1, <2>2, ShipmentMoves
  <1>2. CASE ShipLoad(f) \/ ShipActionEnds(f)
    <2>1. PICK press \in {"none", "loaded"} :
              /\ shipment' = [shipment EXCEPT ![f] = [@ EXCEPT !.press = press]]
              /\ UNCHANGED <<orderVars, jobs, goods, change, books, inspector>>
              /\ press = "loaded" => shipment[f].state = "none"
      BY <1>2 DEF ShipLoad, ShipActionEnds, Unborn
    <2> DEFINE r == [shipment[f] EXCEPT !.press = press]
    <2>2. /\ r \in ShipmentRecord /\ r.press = press /\ r.state = shipment[f].state
          /\ r.lines = shipment[f].lines /\ r.kind = shipment[f].kind
      BY <1>0 DEF ShipmentRecord
    <2>3. shipment' = [shipment EXCEPT ![f] = r]
      BY <2>1
    <2> HIDE DEF r
    <2> QED
      BY <1>1, <2>1, <2>2, <2>3
  <1>3. CASE CreateByAction(f) \/ CreateByRoute(f)
    <2>1. PICK ls \in SUBSET Line, kind \in {"physical", "manual"}, press \in {"none", "created"} :
              /\ shipment' = [shipment EXCEPT ![f] =
                     [state |-> "pending", kind |-> kind, lines |-> ls, press |-> press]]
              /\ UNCHANGED <<orderVars, jobs, goods, change, books, inspector>>
              /\ shipment[f].state = "none"
      BY <1>0, <1>3 DEF CreateByAction, CreateByRoute, Unborn, InPipeline
    <2> DEFINE r == [state |-> "pending", kind |-> kind, lines |-> ls, press |-> press]
    <2>2. r \in ShipmentRecord /\ r.state = "pending" /\ r.press \in {"none", "created"}
      BY DEF ShipmentRecord, ShipState
    <2>3. shipment' = [shipment EXCEPT ![f] = r]
      BY <2>1
    <2> HIDE DEF r
    <2> QED
      BY <1>1, <2>1, <2>2, <2>3
  <1>4. CASE SendOut(f) \/ CancelShipment(f)
    <2>1. PICK to \in {"out", "canceled"} :
              /\ shipment' = [shipment EXCEPT ![f] = [@ EXCEPT !.state = to]]
              /\ UNCHANGED <<orderVars, jobs, goods, change, books, inspector>>
              /\ shipment[f].state = "pending"
      BY <1>4 DEF SendOut, CancelShipment, TransitionTo
    <2> DEFINE r == [shipment[f] EXCEPT !.state = to]
    <2>2. /\ r \in ShipmentRecord /\ r.press = shipment[f].press /\ r.state = to
          /\ r.lines = shipment[f].lines /\ r.kind = shipment[f].kind
      BY <1>0 DEF ShipmentRecord, ShipState
    <2>3. shipment' = [shipment EXCEPT ![f] = r]
      BY <2>1
    <2>4. shipment[f].press \notin {"loaded", "shipped"}
      BY <1>0, <2>1 DEF InPipeline
    <2> HIDE DEF r
    <2> QED
      BY <1>1, <2>1, <2>2, <2>3, <2>4
  <1>5. CASE ShipByAction(f) \/ ShipByRoute(f)
    <2>1. PICK press \in {"none", "loaded", "created", "shipped"} : Ships(f, press)
      BY <1>0, <1>5 DEF ShipByAction, ShipByRoute, ShipmentRecord
    <2>2. press = "shipped" \/ press = shipment[f].press
      BY <1>0, <1>5, <2>1 DEF ShipByAction, ShipByRoute, Ships, ShipmentRecord
    <2>3. /\ shipment[f].state = "pending" /\ shipment[f].kind = "physical"
          /\ shipment' = [shipment EXCEPT ![f].state = "shipped", ![f].press = press]
          /\ stockJob' = [stockJob EXCEPT ![f] = "queued"]
          /\ ledgerJob' = [ledgerJob EXCEPT ![f] = "queued"]
          /\ UNCHANGED <<orderVars, goods, change, books, inspector>>
      BY <2>1 DEF Ships
    <2> DEFINE r == [shipment[f] EXCEPT !.state = "shipped", !.press = press]
    <2>4. /\ r \in ShipmentRecord /\ r.press = press /\ r.state = "shipped"
          /\ r.lines = shipment[f].lines /\ r.kind = "physical"
      BY <1>0, <2>3 DEF ShipmentRecord, ShipState
    <2>5. shipment' = [shipment EXCEPT ![f] = r]
      BY <1>0, <2>3
    <2> HIDE DEF r
    <2>6. /\ shipment'[f] = r /\ stockJob'[f] = "queued" /\ UNCHANGED <<moves, unseen>>
          /\ \A j \in Job : j # f => stockJob'[j] = stockJob[j] /\ ledgerJob'[j] = ledgerJob[j]
      BY <1>0, <2>3, <2>4, <2>5 DEF goods
    <2>7. /\ stockJob[f] = "none" /\ press # "loaded"
      BY <1>0, <2>2, <2>3 DEF InPipeline
    <2>8. ~(moves[f] > 0) /\ moves[f] <= unseen[f]
      BY <1>0, <2>7 DEF InPipeline
    <2>9. InPipeline(f)'
      BY <2>4, <2>6, <2>7, <2>8 DEF InPipeline
    <2>10. UNCHANGED <<order, held, freed, goods, change, books, inspector>>
      BY <2>3 DEF orderVars
    <2> QED
      BY <2>3, <2>4, <2>5, <2>6, <2>9, <2>10, ShipmentMoves
  <1>6. CASE Reflect(f)
    <2>1. /\ shipment[f].press = "shipped"
          /\ shipment' = [shipment EXCEPT ![f] = [@ EXCEPT !.press = "none"]]
          /\ order' = IF order.status = "confirmed" THEN [order EXCEPT !.status = "fulfilled"] ELSE order
          /\ UNCHANGED <<held, freed, stockJob, ledgerJob, goods, change, books, inspector>>
      BY <1>6 DEF Reflect, jobs
    <2>2. shipment[f].state = "shipped"
      BY <1>0, <2>1 DEF InPipeline
    <2> DEFINE r == [shipment[f] EXCEPT !.press = "none"]
    <2>3. /\ r \in ShipmentRecord /\ r.press = "none" /\ r.state = "shipped"
          /\ r.lines = shipment[f].lines /\ r.kind = shipment[f].kind
      BY <1>0, <2>2 DEF ShipmentRecord
    <2>4. shipment' = [shipment EXCEPT ![f] = r]
      BY <2>1
    <2> HIDE DEF r
    <2>5. InPipeline(f)'
      <3>1. shipment'[f] = r /\ UNCHANGED <<stockJob, moves, unseen>>
        BY <1>0, <2>1, <2>4 DEF goods
      <3> QED
        BY <1>0, <2>3, <2>2, <3>1 DEF InPipeline
    <2>6. /\ order'.forced = order.forced
          /\ \/ order'.status = order.status
             \/ order.status = "confirmed" /\ order'.status = "fulfilled" /\ r.state = "shipped"
      BY <1>0, <2>1, <2>3
    <2> QED
      BY <2>1, <2>3, <2>4, <2>5, <2>6, ShipmentMoves
  <1> QED
    BY <1>2, <1>3, <1>4, <1>5, <1>6
-----------------------------------------------------------------------------
\* The order's own transitions, the release and the expiry of its holds.
LEMMA OrderOK ==
    ASSUME GoodsInv,
           CancelOrder \/ ForceFulfilled \/ RefundOrder \/ RefundByRma \/ ReleaseHolds \/ HoldExpires
    PROVE  Parts' /\ GoodsStep
  <1>0. TypeOK /\ Parts
    BY DEF GoodsInv
  <1> USE DEF CancelOrder, ForceFulfilled, RefundOrder, RefundByRma, OrderTo, ReleaseHolds, HoldExpires
  <1>1. UNCHANGED <<shipment, goods, change, books, inspector>>
    OBVIOUS
  <1>2. UNCHANGED <<shipment, moves, unseen, change, reversed, inspector>> /\ GoodsStep
    BY <1>1, NoGoods DEF goods, books
  <1>3. \A j \in Job : j # "restock" => stockJob'[j] = stockJob[j] /\ ledgerJob'[j] = ledgerJob[j]
    BY <1>0 DEF jobs, TypeOK
  <1>4. \/ order' = order
        \/ order.status = "confirmed" /\ order' = [status |-> "fulfilled", forced |-> TRUE]
        \/ \E to \in {"canceled", "refunded"} : order' = [order EXCEPT !.status = to]
    OBVIOUS
  <1>5. Pipeline'
    BY <1>0, <1>2, <1>3, Subjects, PipelineStays DEF Parts
  <1>6. HoldUntilGone'
    <2>1. held \cup freed \subseteq held' \cup freed'
      BY <1>0 DEF TypeOK
    <2> QED
      BY <1>0, <1>2, <2>1, HoldStays DEF Parts
  <1>7. Reasons'
    <2>1. order.forced => order'.forced
      BY <1>0, <1>4 DEF TypeOK
    <2>2. order'.status = "fulfilled" => order.status = "fulfilled" \/ Reason'
      BY <1>0, <1>4 DEF TypeOK, Reason
    <2>3. order.status = "fulfilled" => Reason'
      BY <1>0, <1>2, <2>1 DEF Parts, Reasons, Reason
    <2>4. ledgerJob'["restock"] # "none" => ledgerJob["restock"] # "none" \/ Reason'
      <3>1. UNCHANGED ledgerJob \/ order.status = "fulfilled"
        BY DEF jobs
      <3> QED
        BY <2>3, <3>1
    <2> QED
      BY <1>0, <1>2, <2>1, <2>2, <2>4, ReasonsStay DEF Parts
  <1>8. Returns'
    <2>1. stockJob'["return"] = stockJob["return"]
      BY <1>3, Subjects
    <2>2. CASE stockJob'["restock"] = stockJob["restock"]
      <3>1. order.status = "refunded" => order'.status = "refunded"
        BY <1>0, <1>4 DEF TypeOK
      <3>2. \A j \in {"restock", "return"} : stockJob'[j] = stockJob[j]
        BY <2>1, <2>2
      <3> QED
        BY <1>0, <1>2, <3>1, <3>2, ReturnsStay DEF Parts
    <2>3. CASE stockJob'["restock"] # stockJob["restock"]
      <3>a. /\ order.status \in {"confirmed", "fulfilled"} /\ order.status # "confirmed"
            /\ order' = [order EXCEPT !.status = "refunded"]
            /\ stockJob' = [stockJob EXCEPT !["restock"] = "queued"]
        BY <2>3 DEF jobs
      <3>1. /\ order.status = "fulfilled" /\ order'.status = "refunded"
            /\ stockJob'["restock"] = "queued"
        BY <1>0, <3>a, Subjects DEF TypeOK
      <3>2. moves["restock"] <= unseen["restock"]
        BY <1>0, <3>1 DEF Parts, Returns
      <3> QED
        BY <1>0, <1>2, <2>1, <3>1, <3>2 DEF Parts, Returns
    <2> QED
      BY <2>2, <2>3
  <1>9. Inspections'
    BY <1>0, <1>2, InspectionsStay DEF Parts
  <1> QED
    BY <1>2, <1>5, <1>6, <1>7, <1>8, <1>9 DEF Parts
-----------------------------------------------------------------------------
\* A step of the stock handler of one shipment.
LEMMA CommitOK ==
    ASSUME GoodsInv, NEW f \in Shipment,
           \/ CommitStock(f) \/ ReleaseShipped(f)
           \/ ReceiveAnswerLost(f) \/ StockJobDies(f)
    PROVE  Parts' /\ GoodsStep
  <1>0. TypeOK /\ Parts /\ InPipeline(f) /\ f \in Goods /\ f \in Job /\ f # "return"
    BY Subjects DEF GoodsInv, Parts, Pipeline
  <1> USE DEF CommitStock, ReleaseShipped, ReceiveAnswerLost, StockJobDies, StockJobTo
  <1>1. UNCHANGED <<order, freed, shipment, ledgerJob, change, reversed, inspector>>
    BY DEF orderVars, books, jobs
  <1>2. moves[f] \in Nat /\ unseen[f] \in Nat
    BY <1>0, Counts
  <1>3. /\ \A j \in Job : j # f => stockJob'[j] = stockJob[j]
        /\ \A g \in Goods : g # f => moves'[g] = moves[g] /\ unseen'[g] = unseen[g]
    BY <1>0 DEF TypeOK, jobs, goods, Moved, Unseen
  <1>4. GoodsStep
    BY <1>0, NoGoods, GoodsMove DEF InPipeline
  <1>5. InPipeline(f)' /\ (moves[f] > 0 => moves'[f] > 0)
    <2>1. CASE CommitStock(f)
      BY <1>0, <1>1, <1>2, <2>1 DEF InPipeline, TypeOK, Moved
    <2>2. CASE ReleaseShipped(f)
      BY <1>0, <1>1, <1>2, <2>2 DEF InPipeline, TypeOK, goods
    <2>3. CASE ReceiveAnswerLost(f)
      BY <1>0, <1>1, <1>2, <2>3 DEF InPipeline, TypeOK, Moved, Unseen, jobs
    <2>4. CASE StockJobDies(f)
      BY <1>0, <1>1, <1>2, <2>4 DEF InPipeline, TypeOK, goods
    <2> QED
      BY <2>1, <2>2, <2>3, <2>4
  <1>6. Pipeline'
    <2> SUFFICES ASSUME NEW g \in Shipment, g # f PROVE InPipeline(g)'
      BY <1>5 DEF Pipeline
    <2>1. InPipeline(g) /\ stockJob'[g] = stockJob[g] /\ moves'[g] = moves[g] /\ unseen'[g] = unseen[g]
      BY <1>0, <1>3, Subjects DEF Parts, Pipeline
    <2> QED
      BY <1>1, <2>1 DEF InPipeline
  <1>7. HoldUntilGone'
    <2>1. ASSUME NEW g \in Shipment PROVE moves[g] > 0 => moves'[g] > 0
      <3>1. g \in Goods
        BY Subjects
      <3> QED
        BY <1>3, <1>5, <3>1
    <2>2. CASE held' = held
      BY <1>0, <1>1, <2>1, <2>2, HoldStays DEF Parts
    <2>3. CASE held' # held
      <3>1. held' = held \ shipment[f].lines /\ stockJob[f] = "moved"
        BY <2>3 DEF orderVars
      <3>2. moves'[f] > 0
        BY <1>0, <2>1, <3>1 DEF InPipeline
      <3> QED
        BY <1>0, <1>1, <2>1, <3>1, <3>2 DEF Parts, HoldUntilGone
    <2> QED
      BY <2>2, <2>3
  <1>8. Reasons'
    BY <1>0, <1>1, ReasonsStay DEF Parts
  <1>9. Returns' /\ Inspections'
    BY <1>0, <1>1, <1>3, Subjects, ReturnsStay, InspectionsStay DEF Parts
  <1> QED
    BY <1>4, <1>6, <1>7, <1>8, <1>9 DEF Parts

\* A step of the stock handlers of the refund and of the RMA.
LEMMA ReturnOK ==
    ASSUME GoodsInv, NEW j \in {"restock", "return"},
           \/ Restock /\ j = "restock"
           \/ (ReturnStock \/ ReturnSeen \/ StampReturn \/ StampAnswerLost) /\ j = "return"
           \/ ReceiveAnswerLost(j) \/ StockJobDies(j)
    PROVE  Parts' /\ GoodsStep
  <1>0. TypeOK /\ Parts /\ j \in Goods /\ j \in Job /\ j \notin Shipment /\ j # "inspection"
    BY Subjects DEF GoodsInv
  <1> USE DEF Restock, ReturnStock, ReturnSeen, StampReturn, StampAnswerLost, ReceiveAnswerLost,
              StockJobDies, StockJobTo
  <1>1. UNCHANGED <<order, held, freed, shipment, ledgerJob, reversed, inspector>>
    BY DEF orderVars, books, jobs
  <1>2. moves[j] \in Nat /\ unseen[j] \in Nat
    BY <1>0, Counts
  <1>3. /\ \A k \in Job : k # j => stockJob'[k] = stockJob[k]
        /\ \A g \in Goods : g # j => moves'[g] = moves[g] /\ unseen'[g] = unseen[g]
    BY <1>0 DEF TypeOK, jobs, goods, Moved, Unseen
  <1>4. change' = change \/ change' = [change EXCEPT !.stocked = TRUE]
    OBVIOUS
  <1>5. /\ change'.state = change.state /\ change'.inspect = change.inspect
        /\ change'.inspected = change.inspected
    BY <1>0, <1>4 DEF TypeOK
  <1>6. GoodsStep
    BY <1>0, NoGoods, GoodsMove, GoodsExcuse DEF Parts, Returns, goods
  <1>7. Pipeline' /\ HoldUntilGone'
    BY <1>0, <1>1, <1>3, Subjects, PipelineStays, HoldStays DEF Parts
  <1>8. Reasons' /\ Inspections'
    BY <1>0, <1>1, <1>3, <1>5, Subjects, ReasonsStay, InspectionsStay DEF Parts
  <1>9. Returns'
    <2>1. ASSUME j = "restock" PROVE Returns'
      <3>1. change' = change
        BY <2>1
      <3>2. /\ stockJob'["return"] = stockJob["return"]
            /\ moves'["return"] = moves["return"] /\ unseen'["return"] = unseen["return"]
        BY <1>3, <2>1, Subjects
      <3>3. /\ stockJob["restock"] # "none"
            /\ stockJob'["restock"] \in {"none", "queued"} =>
                   moves'["restock"] <= unseen'["restock"]
        BY <1>0, <1>2, <2>1 DEF Parts, Returns, TypeOK, Moved, Unseen, jobs, goods
      <3> QED
        BY <1>0, <1>1, <3>1, <3>2, <3>3 DEF Parts, Returns
    <2>2. ASSUME j = "return" PROVE Returns'
      <3>1. /\ stockJob'["restock"] = stockJob["restock"]
            /\ moves'["restock"] = moves["restock"] /\ unseen'["restock"] = unseen["restock"]
        BY <1>3, <2>2, Subjects
      <3>2. stockJob["return"] # "none"
        BY <2>2
      <3>3. /\ stockJob'["return"] \in {"none", "queued"} /\ ~change'.stocked =>
                   moves'["return"] <= unseen'["return"]
            /\ stockJob'["return"] = "moved" => moves'["return"] <= unseen'["return"] + 1
        <4>1. CASE ReturnStock
          BY <1>0, <1>2, <2>2, <4>1 DEF Parts, Returns, TypeOK, Moved
        <4>2. CASE ReturnSeen
          BY <1>0, <1>2, <2>2, <4>2 DEF Parts, Returns, TypeOK, goods
        <4>3. CASE StampReturn
          BY <1>0, <1>2, <2>2, <4>3 DEF Parts, Returns, TypeOK, goods
        <4>4. CASE StampAnswerLost
          <5>1. /\ moves' = moves /\ stockJob'["return"] = "queued" /\ stockJob["return"] = "moved"
                /\ moves["return"] <= unseen["return"] + 1
            BY <1>0, <2>2, <4>4 DEF Parts, Returns, TypeOK
          <5>2. CASE Unseen("return")
            BY <1>0, <1>2, <2>2, <5>1, <5>2 DEF Unseen, TypeOK
          <5>3. CASE change' = [change EXCEPT !.stocked = TRUE]
            BY <1>0, <5>1, <5>3 DEF TypeOK
          <5> QED
            BY <4>4, <5>2, <5>3
        <4>5. CASE ReceiveAnswerLost(j)
          BY <1>0, <1>2, <2>2, <4>5 DEF Parts, Returns, TypeOK, Moved, Unseen, jobs
        <4>6. CASE StockJobDies(j)
          BY <1>0, <1>2, <2>2, <4>6 DEF Parts, Returns, TypeOK, goods
        <4> QED
          BY <2>2, <4>1, <4>2, <4>3, <4>4, <4>5, <4>6
      <3> QED
        BY <1>0, <1>1, <1>5, <3>1, <3>2, <3>3 DEF Parts, Returns
    <2> QED
      BY <2>1, <2>2
  <1> QED
    BY <1>6, <1>7, <1>8, <1>9 DEF Parts
-----------------------------------------------------------------------------
LEMMA LedgerOK ==
    ASSUME GoodsInv,
           \/ \E f \in Shipment : BookCost(f)
           \/ BookRestock \/ BookReturn
           \/ \E j \in Job : LedgerJobDies(j)
    PROVE  Parts' /\ GoodsStep
  <1>0. TypeOK /\ Parts
    BY DEF GoodsInv
  <1>1. PICK j \in Job : LedgerJobDone(j)
    BY Subjects DEF BookCost, BookRestock, BookReturn, LedgerJobDies
  <1>2. /\ UNCHANGED <<order, held, freed, shipment, stockJob, moves, unseen, change, inspector>>
        /\ GoodsStep
    BY <1>1, NoGoods DEF LedgerJobDone, orderVars, goods
  <1>3. Pipeline' /\ HoldUntilGone' /\ Returns' /\ Inspections'
    BY <1>0, <1>2, PipelineStays, HoldStays, ReturnsStay, InspectionsStay DEF Parts
  <1>4. Reasons'
    <2>1. ledgerJob'["restock"] # "none" => ledgerJob["restock"] # "none"
      BY <1>0, <1>1, Subjects DEF LedgerJobDone, TypeOK
    <2>2. reversed' # {} =>
              reversed # {} \/ ledgerJob["restock"] # "none" \/ order.status = "fulfilled"
      BY DEF BookCost, BookRestock, BookReturn, LedgerJobDies, LedgerJobDone, books, ReversesOrWritesOff
    <2>3. Reason' <=> Reason
      BY <1>2 DEF Reason
    <2>4. reversed' # {} => reversed # {} \/ Reason'
      BY <1>0, <2>2, <2>3 DEF Parts, Reasons
    <2> QED
      BY <1>0, <1>2, <2>1, <2>4, ReasonsStay DEF Parts
  <1> QED
    BY <1>2, <1>3, <1>4 DEF Parts

LEMMA ChangeOK ==
    ASSUME GoodsInv, RequestChange \/ ConfirmChange \/ DeclineChange
    PROVE  Parts' /\ GoodsStep
  <1>0. TypeOK /\ Parts
    BY DEF GoodsInv
  <1>1. /\ UNCHANGED <<order, held, freed, shipment, moves, unseen, reversed, inspector>>
        /\ GoodsStep
    BY NoGoods DEF RequestChange, ConfirmChange, DeclineChange, orderVars, goods, books
  <1>2. \A j \in Job : j # "return" => stockJob'[j] = stockJob[j] /\ ledgerJob'[j] = ledgerJob[j]
    <2>1. \/ UNCHANGED <<stockJob, ledgerJob>>
          \/ /\ stockJob' = [stockJob EXCEPT !["return"] = "queued"]
             /\ ledgerJob' = [ledgerJob EXCEPT !["return"] = "queued"]
      BY DEF RequestChange, ConfirmChange, DeclineChange, jobs
    <2> QED
      BY <1>0, <2>1 DEF TypeOK
  <1>3. /\ change.inspect => change'.inspect
        /\ change'.stocked = change.stocked /\ change'.inspected = change.inspected
        /\ change.state # "confirmed"
    <2>1. CASE RequestChange
      <3>1. PICK ls \in SUBSET Line, inspect \in BOOLEAN :
                change' = [NoChange EXCEPT !.state = "requested", !.inspect = inspect]
        BY <2>1 DEF RequestChange
      <3>2. change = NoChange
        BY <2>1 DEF RequestChange
      <3>3. /\ NoChange \in ChangeRecord /\ NoChange.state = "none" /\ ~NoChange.inspect
            /\ ~NoChange.stocked /\ ~NoChange.inspected
        BY DEF NoChange, ChangeRecord, ChangeState
      <3>4. change'.stocked = NoChange.stocked /\ change'.inspected = NoChange.inspected
        BY <3>1, <3>3 DEF ChangeRecord
      <3> QED
        BY <3>2, <3>3, <3>4
    <2>2. CASE ConfirmChange \/ DeclineChange
      <3>1. /\ change.state = "requested"
            /\ \E to \in {"confirmed", "declined"} : change' = [change EXCEPT !.state = to]
        BY <2>2 DEF ConfirmChange, DeclineChange
      <3> QED
        BY <1>0, <3>1 DEF TypeOK
    <2> QED
      BY <2>1, <2>2
  <1>4. Pipeline' /\ HoldUntilGone' /\ Inspections'
    BY <1>0, <1>1, <1>2, <1>3, Subjects, PipelineStays, HoldStays, InspectionsStay DEF Parts
  <1>5. Reasons'
    <2>1. ledgerJob'["restock"] = ledgerJob["restock"]
      BY <1>2, Subjects
    <2> QED
      BY <1>0, <1>1, <1>3, <2>1, ReasonsStay DEF Parts
  <1>6. Returns'
    <2>1. stockJob'["restock"] = stockJob["restock"]
      BY <1>2, Subjects
    <2>2. stockJob["return"] = "none"
      BY <1>0, <1>3 DEF Parts, Returns
    <2>3. \/ stockJob'["return"] = "none"
          \/ stockJob'["return"] = "queued" /\ change'.state = "confirmed"
      <3>1. CASE ConfirmChange
        BY <1>0, <3>1, Subjects DEF ConfirmChange, TypeOK
      <3>2. CASE RequestChange \/ DeclineChange
        BY <2>2, <3>2 DEF RequestChange, DeclineChange, jobs
      <3> QED
        BY <3>1, <3>2
    <2> QED
      BY <1>0, <1>1, <1>3, <2>1, <2>2, <2>3 DEF Parts, Returns
  <1> QED
    BY <1>1, <1>4, <1>5, <1>6 DEF Parts
-----------------------------------------------------------------------------
\* Inspections: nobody moves the goods whose move is not accounted for.
LEMMA MovingChanges ==
    ASSUME TypeOK, Inspections, NEW i \in Inspector, NEW to, InspectorTo(i, inspector[i], to)
    PROVE  /\ IsFiniteSet(Moving') /\ Cardinality(Moving) \in Nat /\ Cardinality(Moving') \in Nat
           /\ inspector[i] = "moving" /\ to # "moving" =>
                  Cardinality(Moving') = Cardinality(Moving) - 1
           /\ inspector[i] # "moving" /\ to = "moving" =>
                  Cardinality(Moving') = Cardinality(Moving) + 1
           /\ (inspector[i] = "moving" <=> to = "moving") => Moving' = Moving
           /\ inspector'[i] = to
           /\ \A k \in Inspector : k # i => inspector'[k] = inspector[k]
  <1>1. /\ Moving' = IF to = "moving" THEN Moving \cup {i} ELSE Moving \ {i}
        /\ i \in Moving <=> inspector[i] = "moving"
        /\ inspector'[i] = to
        /\ \A k \in Inspector : k # i => inspector'[k] = inspector[k]
    BY DEF InspectorTo, TypeOK, Moving
  <1>2. IsFiniteSet(Moving) /\ Cardinality(Moving) \in Nat
    BY FS_CardinalityType DEF Inspections
  <1>3. CASE to = "moving" /\ i \notin Moving
    BY <1>1, <1>2, <1>3, FS_AddElement
  <1>4. CASE to # "moving" /\ i \in Moving
    <2>1. IsFiniteSet(Moving \ {i}) /\ Cardinality(Moving \ {i}) = Cardinality(Moving) - 1
      BY <1>2, <1>4, FS_RemoveElement
    <2>2. Cardinality(Moving \ {i}) \in Nat
      BY <2>1, FS_CardinalityType
    <2> QED
      BY <1>1, <1>2, <1>4, <2>1, <2>2
  <1>5. CASE to = "moving" <=> i \in Moving
    <2>1. Moving' = Moving
      BY <1>1, <1>5
    <2> QED
      BY <1>1, <1>2, <1>5, <2>1
  <1> QED
    BY <1>3, <1>4, <1>5

LEMMA InspectorOK ==
    ASSUME GoodsInv, NEW i \in Inspector, InspectorStep(i) \/ InspectOverlap(i) \/ InspectCutOff(i)
    PROVE  Parts' /\ GoodsStep
  <1>0. TypeOK /\ Parts /\ "inspection" \in Goods
    BY Subjects DEF GoodsInv
  <1> DEFINE m == Cardinality(Moving)
             done == moves["inspection"]
             hidden == unseen["inspection"]
  <1>1. done \in Nat /\ hidden \in Nat
    BY <1>0, Counts
  <1>2. PICK to \in {"idle", "moving", "stamping"} : InspectorTo(i, inspector[i], to)
    BY DEF InspectorStep, InspectLoad, InspectMove, InspectStamp, InspectFails, InspectOverlap,
           InspectCutOff, InspectorTo
  <1>3. /\ IsFiniteSet(Moving') /\ m \in Nat /\ m' \in Nat
        /\ inspector[i] = "moving" /\ to # "moving" => m' = m - 1
        /\ inspector[i] # "moving" /\ to = "moving" => m' = m + 1
        /\ (inspector[i] = "moving" <=> to = "moving") => m' = m
        /\ inspector'[i] = to
        /\ \A k \in Inspector : k # i => inspector'[k] = inspector[k]
    BY <1>0, <1>2, MovingChanges DEF Parts
  <1>4. /\ m + done <= hidden + 1
        /\ (\A k \in Inspector : inspector[k] = "idle") /\ ~change.inspected => done <= hidden
    BY <1>0, <1>1, <1>3 DEF Parts, Inspections
  <1>5. inspector[i] = "moving" => m >= 1
    <2>1. m = 0 => Moving = {}
      BY <1>0, FS_EmptySet DEF Parts, Inspections
    <2> QED
      BY <1>3, <2>1 DEF Moving
  <1>6. UNCHANGED <<order, held, freed, shipment, stockJob, ledgerJob>>
    BY DEF InspectorStep, InspectLoad, InspectMove, InspectStamp, InspectFails, InspectOverlap,
           InspectCutOff, orderVars, jobs
  <1>7. \A g \in Goods : g # "inspection" => moves'[g] = moves[g] /\ unseen'[g] = unseen[g]
    BY <1>0 DEF InspectorStep, InspectLoad, InspectMove, InspectStamp, InspectFails, InspectOverlap,
                InspectCutOff, TypeOK, goods, Moved, Unseen
  <1>8. /\ change'.state = change.state /\ change'.stocked = change.stocked
        /\ change'.inspect = change.inspect
        /\ change.inspected => change'.inspected
    <2>1. CASE UNCHANGED change
      BY <2>1
    <2>2. CASE change' = [change EXCEPT !.inspected = TRUE]
      BY <1>0, <2>2 DEF TypeOK
    <2> QED
      BY <2>1, <2>2 DEF InspectorStep, InspectLoad, InspectMove, InspectStamp, InspectFails,
                        InspectOverlap, InspectCutOff
  <1>9. Pipeline' /\ HoldUntilGone' /\ Returns'
    BY <1>0, <1>6, <1>7, <1>8, Subjects, PipelineStays, HoldStays, ReturnsStay DEF Parts
  <1>10. Reasons'
    <2>1. inspector[i] = "idle" => change.inspect
      BY DEF InspectorStep, InspectLoad, InspectMove, InspectStamp, InspectFails, InspectOverlap,
             InspectCutOff, InspectorTo, Inspectable
    <2>2. inspector[i] # "idle" => change.inspect
      BY <1>0 DEF Parts, Reasons
    <2>3. change'.inspect /\ Reason'
      BY <1>8, <2>1, <2>2 DEF Reason
    <2> QED
      BY <1>0, <1>6, <2>3, ReasonsStay DEF Parts
  <1>11. Inspections' /\ GoodsStep
    <2>1. CASE InspectLoad(i)
      <3>a. /\ \A k \in Inspector : inspector[k] = "idle"
            /\ ~change.inspected /\ UNCHANGED goods
            /\ inspector' = [inspector EXCEPT ![i] = "moving"]
        BY <2>1 DEF InspectLoad, InspectorTo, Inspectable
      <3>b. inspector'[i] = "moving" /\ Moving = {}
        BY <1>0, <3>a DEF TypeOK, Moving
      <3>1. /\ inspector[i] = "idle" /\ to = "moving" /\ done <= hidden
            /\ UNCHANGED <<moves, unseen>> /\ UNCHANGED goods
            /\ Moving = {}
        BY <1>3, <1>4, <3>a, <3>b DEF goods
      <3>2. m = 0
        BY <3>1, FS_EmptySet
      <3> QED
        BY <1>1, <1>3, <3>1, <3>2, NoGoods DEF Inspections
    <2>2. CASE InspectOverlap(i)
      <3>1. /\ inspector[i] = "idle" /\ inspector' = [inspector EXCEPT ![i] = "moving"]
            /\ Unseen("inspection") /\ UNCHANGED moves
        BY <2>2 DEF InspectOverlap, InspectorTo
      <3>2. inspector'[i] = "moving"
        BY <1>0, <3>1 DEF TypeOK
      <3>3. hidden' = hidden + 1 /\ done' = done /\ m' = m + 1
        BY <1>0, <1>3, <3>1, <3>2 DEF Unseen, TypeOK
      <3> QED
        BY <1>0, <1>1, <1>3, <1>4, <3>1, <3>2, <3>3, GoodsExcuse DEF Inspections
    <2>3. CASE InspectMove(i)
      <3>1. /\ inspector[i] = "moving" /\ inspector' = [inspector EXCEPT ![i] = "stamping"]
            /\ Moved("inspection") /\ UNCHANGED unseen
        BY <2>3 DEF InspectMove, InspectorTo
      <3>2. inspector'[i] = "stamping"
        BY <1>0, <3>1 DEF TypeOK
      <3>3. hidden' = hidden /\ done' = done + 1 /\ m' = m - 1 /\ done <= hidden
        BY <1>0, <1>1, <1>3, <1>4, <1>5, <3>1, <3>2 DEF Moved, TypeOK
      <3> QED
        BY <1>0, <1>1, <1>3, <1>4, <3>1, <3>2, <3>3, GoodsMove DEF Inspections
    <2>4. CASE InspectStamp(i)
      <3>1. /\ inspector[i] = "stamping" /\ inspector' = [inspector EXCEPT ![i] = "idle"]
            /\ change' = [change EXCEPT !.inspected = TRUE] /\ UNCHANGED goods
        BY <2>4 DEF InspectStamp, InspectorTo
      <3>2. inspector'[i] = "idle" /\ change'.inspected
        BY <1>0, <3>1 DEF TypeOK
      <3>3. hidden' = hidden /\ done' = done /\ m' = m
        BY <1>3, <3>1, <3>2 DEF goods
      <3> QED
        BY <1>1, <1>3, <1>4, <3>1, <3>2, <3>3, NoGoods DEF Inspections
    <2>5. CASE InspectFails(i)
      <3>1. /\ inspector[i] = "moving" /\ inspector' = [inspector EXCEPT ![i] = "idle"]
            /\ UNCHANGED goods
        BY <2>5 DEF InspectFails, InspectorTo
      <3>2. inspector'[i] = "idle"
        BY <1>0, <3>1 DEF TypeOK
      <3>3. hidden' = hidden /\ done' = done /\ m' = m - 1
        BY <1>3, <3>1, <3>2 DEF goods
      <3> QED
        BY <1>1, <1>3, <1>4, <1>5, <3>1, <3>3, NoGoods DEF Inspections
    <2>6. CASE InspectCutOff(i)
      <3>1. /\ inspector[i] = "stamping" /\ inspector' = [inspector EXCEPT ![i] = "idle"]
            /\ Unseen("inspection") /\ UNCHANGED moves
        BY <2>6 DEF InspectCutOff, InspectorTo
      <3>2. inspector'[i] = "idle"
        BY <1>0, <3>1 DEF TypeOK
      <3>3. hidden' = hidden + 1 /\ done' = done /\ m' = m
        BY <1>0, <1>3, <3>1, <3>2 DEF Unseen, TypeOK
      <3> QED
        BY <1>0, <1>1, <1>3, <1>4, <3>1, <3>3, GoodsExcuse DEF Inspections
    <2> QED
      BY <2>1, <2>2, <2>3, <2>4, <2>5, <2>6 DEF InspectorStep
  <1> QED
    BY <1>9, <1>10, <1>11 DEF Parts

LEMMA GoodsStepOK == ASSUME GoodsInv, [Next]_vars PROVE GoodsInv' /\ GoodsStep
  <1>0. TypeOK'
    BY TypesOK DEF GoodsInv
  <1>1. CASE UNCHANGED vars
    <2>1. Parts' /\ GoodsStep
      BY <1>1, PipelineStays, HoldStays, ReasonsStay, ReturnsStay, InspectionsStay, NoGoods
      DEF GoodsInv, Parts, vars, orderVars, jobs, goods, books
    <2> QED
      BY <1>0, <2>1 DEF GoodsInv
  <1>2. ASSUME NEW f \in Shipment, ShipmentStep(f) PROVE Parts' /\ GoodsStep
    BY <1>2, ShipmentOK, CommitOK, LedgerOK DEF ShipmentStep
  <1>3. ASSUME OrderStep PROVE Parts' /\ GoodsStep
    BY <1>3, OrderOK, ReturnOK, LedgerOK DEF OrderStep
  <1>4. ASSUME ChangeStep PROVE Parts' /\ GoodsStep
    BY <1>4, ChangeOK, ReturnOK, LedgerOK DEF ChangeStep
  <1>5. ASSUME NEW i \in Inspector, InspectorStep(i) PROVE Parts' /\ GoodsStep
    BY <1>5, InspectorOK
  <1>6. ASSUME FaultStep PROVE Parts' /\ GoodsStep
    BY <1>6, CommitOK, ReturnOK, LedgerOK, InspectorOK DEF FaultStep, Job
  <1> QED
    BY <1>0, <1>1, <1>2, <1>3, <1>4, <1>5, <1>6 DEF Next, GoodsInv

\* Types, the holds and the reversals of cost: a unit stays held until the
\* goods of a shipment with its line have left (stock-commit.ts), and no cost
\* is reversed for an order of which nothing was shipped, except by hand or by
\* an inspection (the ledger bridges).
THEOREM GoodsSafe == Spec => []TypeOK /\ []HoldUntilGone /\ []NoReversalWithoutShipment
  <1>1. Init => GoodsInv
    BY InitTypes, InitParts DEF GoodsInv
  <1>2. GoodsInv /\ [Next]_vars => GoodsInv'
    BY GoodsStepOK
  <1>3. GoodsInv => TypeOK /\ HoldUntilGone /\ NoReversalWithoutShipment
    BY DEF GoodsInv, Parts, Reasons, Reason, Pipeline, InPipeline, NoReversalWithoutShipment, Out
  <1> QED
    BY <1>1, <1>2, <1>3, PTL DEF Spec

\* The stock handlers and the inspections implement "an effect happens once,
\* and once more per fault that hid it" (EffectOnce), for every number of
\* shipments, inspectors and faults.
THEOREM GoodsOnce == Spec => GoodsMovedOnce
  <1>1. Init => GoodsInv /\ GoodsMoved!Init
    BY InitTypes, InitParts DEF GoodsInv
  <1>2. GoodsInv /\ [Next]_vars => GoodsInv' /\ [GoodsMoved!Next]_<<moves, unseen>>
    BY GoodsStepOK DEF GoodsStep
  <1> QED
    BY <1>1, <1>2, PTL DEF Spec, GoodsMovedOnce, GoodsMoved!Spec
-----------------------------------------------------------------------------
\* What no later step takes back: goods on their way stay on their way, a hold
\* that ended is not taken again, a closed order stays closed, and is restocked
\* only if its closing asked for it; a confirmed or declined change stays so;
\* stamps, costs and reversals stay.
Stands ==
    /\ \A f \in Out : /\ shipment'[f].state = shipment[f].state
                      /\ shipment'[f].kind = shipment[f].kind
                      /\ shipment'[f].lines = shipment[f].lines
    /\ held' \subseteq held
    /\ order.status \in {"canceled", "refunded"} =>
           /\ order' = order
           /\ stockJob["restock"] = "none" =>
                  stockJob'["restock"] = "none" /\ moves'["restock"] = moves["restock"]
    /\ change.state \in {"confirmed", "declined"} =>
           change'.state = change.state /\ change'.inspect = change.inspect
    /\ change.stocked => change'.stocked
    /\ change.inspected => change'.inspected
    /\ cost => cost'
    /\ reversed \subseteq reversed'

LEMMA ShipmentsStand ==
    ASSUME GoodsInv, Next
    PROVE  \A f \in Out : /\ shipment'[f].state = shipment[f].state
                          /\ shipment'[f].kind = shipment[f].kind
                          /\ shipment'[f].lines = shipment[f].lines
  <1> SUFFICES ASSUME NEW f \in Out
               PROVE  /\ shipment'[f].state = shipment[f].state
                      /\ shipment'[f].kind = shipment[f].kind
                      /\ shipment'[f].lines = shipment[f].lines
    OBVIOUS
  <1>0. /\ shipment \in [Shipment -> ShipmentRecord] /\ f \in Shipment
        /\ shipment[f].state \in {"shipped", "out"} /\ shipment[f].press # "loaded"
    BY DEF GoodsInv, TypeOK, ShipmentRecord, Out, Parts, Pipeline, InPipeline
  <1>1. CASE UNCHANGED shipment
    BY <1>1
  <1>2. ASSUME NEW g \in Shipment,
               \/ ShipLoad(g) \/ CreateByAction(g) \/ ShipByAction(g) \/ Reflect(g) \/ ShipActionEnds(g)
               \/ CreateByRoute(g) \/ ShipByRoute(g) \/ SendOut(g) \/ CancelShipment(g)
        PROVE  /\ shipment'[f].state = shipment[f].state
               /\ shipment'[f].kind = shipment[f].kind
               /\ shipment'[f].lines = shipment[f].lines
    <2>1. CASE g # f
      <3>1. shipment'[f] = shipment[f]
        BY <1>0, <1>2, <2>1
        DEF ShipLoad, CreateByAction, ShipByAction, Reflect, ShipActionEnds, CreateByRoute, ShipByRoute,
            SendOut, CancelShipment, TransitionTo, Ships
      <3> QED
        BY <3>1
    <2>2. CASE g = f
      <3>1. ~(CreateByAction(g) \/ ShipByAction(g) \/ ShipByRoute(g) \/ SendOut(g) \/ CancelShipment(g))
        BY <1>0, <2>2 DEF CreateByAction, ShipByAction, ShipByRoute, SendOut, CancelShipment,
                          TransitionTo, Ships
      <3>2. ~(ShipLoad(g) \/ CreateByRoute(g))
        BY <1>0, <2>2 DEF ShipLoad, CreateByRoute, Unborn
      <3>3. shipment' = [shipment EXCEPT ![g].press = "none"]
        BY <1>2, <3>1, <3>2 DEF Reflect, ShipActionEnds
      <3> QED
        BY <1>0, <2>2, <3>3 DEF ShipmentRecord
    <2> QED
      BY <2>1, <2>2
  <1>3. ASSUME NEW g \in Shipment, CommitStock(g) \/ ReleaseShipped(g) \/ BookCost(g)
        PROVE  UNCHANGED shipment
    BY <1>3 DEF CommitStock, ReleaseShipped, BookCost, LedgerJobDone
  <1>4. OrderStep => UNCHANGED shipment
    BY DEF OrderStep, CancelOrder, ForceFulfilled, RefundOrder, RefundByRma, OrderTo, ReleaseHolds,
           HoldExpires, Restock, BookRestock, LedgerJobDone
  <1>5. ChangeStep => UNCHANGED shipment
    BY DEF ChangeStep, RequestChange, ConfirmChange, DeclineChange, ReturnStock, ReturnSeen,
           StampReturn, BookReturn, LedgerJobDone
  <1>6. ASSUME NEW i \in Inspector, InspectorStep(i) PROVE UNCHANGED shipment
    BY <1>6 DEF InspectorStep, InspectLoad, InspectMove, InspectStamp, InspectFails
  <1>7. FaultStep => UNCHANGED shipment
    BY DEF FaultStep, ReceiveAnswerLost, StockJobDies, LedgerJobDies, LedgerJobDone, StampAnswerLost,
           InspectOverlap, InspectCutOff
  <1> QED
    BY <1>1, <1>2, <1>3, <1>4, <1>5, <1>6, <1>7 DEF Next, ShipmentStep

\* The steps that reach the order, the holds or the jobs of a refund.
OrderStands ==
    /\ held' \subseteq held
    /\ order.status \in {"canceled", "refunded"} =>
           /\ order' = order
           /\ stockJob["restock"] = "none" =>
                  stockJob'["restock"] = "none" /\ moves'["restock"] = moves["restock"]

LEMMA OrderStandsOK == ASSUME GoodsInv, Next PROVE OrderStands
  <1>0. TypeOK /\ "restock" \in Job /\ "return" \in Job /\ "restock" \notin Shipment
        /\ "restock" \in Goods /\ "inspection" \in Goods /\ "inspection" # "restock"
        /\ Shipment \subseteq Job /\ Job \subseteq Goods
    BY Subjects DEF GoodsInv
  <1>1. ASSUME UNCHANGED <<order, held>>, stockJob'["restock"] = stockJob["restock"],
               moves'["restock"] = moves["restock"]
        PROVE  OrderStands
    BY <1>1 DEF OrderStands
  <1>2. ASSUME NEW f \in Shipment, ShipmentStep(f) PROVE OrderStands
    <2>1. held' \subseteq held
      BY <1>2 DEF ShipmentStep, ShipLoad, CreateByAction, ShipByAction, Reflect, ShipActionEnds,
                  CreateByRoute, ShipByRoute, SendOut, CancelShipment, TransitionTo, Ships, CommitStock,
                  ReleaseShipped, BookCost, LedgerJobDone, orderVars
    <2>2. order.status # "confirmed" => order' = order
      BY <1>2 DEF ShipmentStep, ShipLoad, CreateByAction, ShipByAction, Reflect, ShipActionEnds,
                  CreateByRoute, ShipByRoute, SendOut, CancelShipment, TransitionTo, Ships, CommitStock,
                  ReleaseShipped, BookCost, LedgerJobDone, orderVars
    <2>3. stockJob'["restock"] = stockJob["restock"]
      BY <1>0, <1>2
      DEF ShipmentStep, ShipLoad, CreateByAction, ShipByAction, Reflect, ShipActionEnds,
          CreateByRoute, ShipByRoute, SendOut, CancelShipment, TransitionTo, Ships, CommitStock,
          ReleaseShipped, BookCost, LedgerJobDone, StockJobTo, jobs, TypeOK
    <2>4. moves'["restock"] = moves["restock"]
      BY <1>0, <1>2
      DEF ShipmentStep, ShipLoad, CreateByAction, ShipByAction, Reflect, ShipActionEnds,
          CreateByRoute, ShipByRoute, SendOut, CancelShipment, TransitionTo, Ships, CommitStock,
          ReleaseShipped, BookCost, LedgerJobDone, Moved, goods, TypeOK
    <2> QED
      BY <2>1, <2>2, <2>3, <2>4 DEF OrderStands
  <1>3. ASSUME OrderStep PROVE OrderStands
    <2>1. held' \subseteq held
      BY <1>3 DEF OrderStep, CancelOrder, ForceFulfilled, RefundOrder, RefundByRma, OrderTo,
                  ReleaseHolds, HoldExpires, Restock, BookRestock, LedgerJobDone, orderVars
    <2>2. order.status \in {"canceled", "refunded"} =>
              order' = order /\ (stockJob' = stockJob \/ Restock)
      BY <1>3 DEF OrderStep, CancelOrder, ForceFulfilled, RefundOrder, RefundByRma, OrderTo,
                  ReleaseHolds, HoldExpires, Restock, BookRestock, LedgerJobDone, orderVars, jobs
    <2>3. moves' = moves \/ Restock
      BY <1>3 DEF OrderStep, CancelOrder, ForceFulfilled, RefundOrder, RefundByRma, OrderTo,
                  ReleaseHolds, HoldExpires, BookRestock, LedgerJobDone, goods
    <2>4. Restock => stockJob["restock"] # "none"
      BY DEF Restock, StockJobTo
    <2> QED
      BY <2>1, <2>2, <2>3, <2>4 DEF OrderStands
  <1>4. ASSUME ChangeStep PROVE OrderStands
    <2>1. UNCHANGED <<order, held>>
      BY <1>4 DEF ChangeStep, RequestChange, ConfirmChange, DeclineChange, ReturnStock, ReturnSeen,
                  StampReturn, BookReturn, LedgerJobDone, orderVars
    <2>2. stockJob'["restock"] = stockJob["restock"]
      <3>1. \/ stockJob' = stockJob
            \/ \E to : stockJob' = [stockJob EXCEPT !["return"] = to]
        BY <1>4 DEF ChangeStep, RequestChange, ConfirmChange, DeclineChange, ReturnStock, ReturnSeen,
                    StampReturn, BookReturn, LedgerJobDone, StockJobTo, jobs
      <3> QED
        BY <1>0, <3>1 DEF TypeOK
    <2>3. moves'["restock"] = moves["restock"]
      BY <1>0, <1>4 DEF ChangeStep, RequestChange, ConfirmChange, DeclineChange, ReturnStock, ReturnSeen,
                  StampReturn, BookReturn, LedgerJobDone, Moved, goods, TypeOK
    <2> QED
      BY <1>1, <2>1, <2>2, <2>3
  <1>5. ASSUME NEW i \in Inspector, InspectorStep(i) \/ InspectOverlap(i) \/ InspectCutOff(i)
        PROVE  OrderStands
    <2>1. UNCHANGED <<order, held, stockJob>>
      BY <1>5 DEF InspectorStep, InspectLoad, InspectMove, InspectStamp, InspectFails, InspectOverlap,
                  InspectCutOff, orderVars, jobs
    <2>2. moves'["restock"] = moves["restock"]
      BY <1>0, <1>5 DEF InspectorStep, InspectLoad, InspectMove, InspectStamp, InspectFails,
                        InspectOverlap, InspectCutOff, goods, Moved, TypeOK
    <2> QED
      BY <1>1, <2>1, <2>2
  <1>6. ASSUME NEW j \in Job, ReceiveAnswerLost(j) \/ StockJobDies(j) \/ LedgerJobDies(j)
        PROVE  OrderStands
    <2>1. UNCHANGED <<order, held>>
      BY <1>6 DEF ReceiveAnswerLost, StockJobDies, LedgerJobDies, LedgerJobDone, orderVars
    <2>2. stockJob["restock"] = "none" =>
              stockJob'["restock"] = "none" /\ moves'["restock"] = moves["restock"]
      BY <1>0, <1>6 DEF ReceiveAnswerLost, StockJobDies, LedgerJobDies, LedgerJobDone, Moved, jobs, goods,
                        TypeOK
    <2> QED
      BY <2>1, <2>2 DEF OrderStands
  <1>7. ASSUME StampAnswerLost PROVE OrderStands
    BY <1>0, <1>1, <1>7 DEF StampAnswerLost, StockJobTo, orderVars, TypeOK
  <1> QED
    BY <1>2, <1>3, <1>4, <1>5, <1>6, <1>7 DEF Next, FaultStep
-----------------------------------------------------------------------------
\* The steps that reach the change and the books.
RmaStands ==
    /\ change.state \in {"confirmed", "declined"} =>
           change'.state = change.state /\ change'.inspect = change.inspect
    /\ change.stocked => change'.stocked
    /\ change.inspected => change'.inspected

BooksStand == (cost => cost') /\ reversed \subseteq reversed'

LEMMA ChangeStandsOK == ASSUME GoodsInv, Next PROVE RmaStands /\ BooksStand
  <1>0. change \in ChangeRecord
    BY DEF GoodsInv, TypeOK, ChangeRecord
  <1>1. UNCHANGED change => RmaStands
    BY DEF RmaStands
  <1>2. ASSUME \/ change' = [change EXCEPT !.stocked = TRUE]
               \/ change' = [change EXCEPT !.inspected = TRUE]
        PROVE  RmaStands
    BY <1>0, <1>2 DEF ChangeRecord, RmaStands
  <1>3. UNCHANGED books => BooksStand
    BY DEF books, BooksStand
  <1>4. ASSUME NEW f \in Shipment, ShipmentStep(f) PROVE RmaStands /\ BooksStand
    <2>1. UNCHANGED change
      BY <1>4 DEF ShipmentStep, ShipLoad, CreateByAction, ShipByAction, Reflect, ShipActionEnds,
                  CreateByRoute, ShipByRoute, SendOut, CancelShipment, TransitionTo, Ships, CommitStock,
                  ReleaseShipped, BookCost, LedgerJobDone
    <2>2. CASE BookCost(f)
      <3>1. cost' = TRUE /\ UNCHANGED reversed
        BY <2>2 DEF BookCost
      <3> QED
        BY <1>1, <2>1, <3>1 DEF BooksStand
    <2>3. CASE ~BookCost(f)
      <3>1. UNCHANGED books
        BY <1>4, <2>3
        DEF ShipmentStep, ShipLoad, CreateByAction, ShipByAction, Reflect, ShipActionEnds,
            CreateByRoute, ShipByRoute, SendOut, CancelShipment, TransitionTo, Ships, CommitStock,
            ReleaseShipped
      <3> QED
        BY <1>1, <1>3, <2>1, <3>1
    <2> QED
      BY <2>2, <2>3
  <1>5. ASSUME OrderStep PROVE RmaStands /\ BooksStand
    <2>1. UNCHANGED change
      BY <1>5 DEF OrderStep, CancelOrder, ForceFulfilled, RefundOrder, RefundByRma, OrderTo,
                  ReleaseHolds, HoldExpires, Restock, BookRestock, LedgerJobDone
    <2>2. UNCHANGED cost /\ reversed \subseteq reversed'
      BY <1>5 DEF OrderStep, CancelOrder, ForceFulfilled, RefundOrder, RefundByRma, OrderTo,
                  ReleaseHolds, HoldExpires, Restock, BookRestock, ReversesOrWritesOff, books
    <2> QED
      BY <1>1, <2>1, <2>2 DEF BooksStand
  <1>6. ASSUME ChangeStep PROVE RmaStands /\ BooksStand
    <2>1. CASE RequestChange
      <3>1. ~change.stocked /\ ~change.inspected /\ change.state = "none"
        BY <2>1 DEF RequestChange, NoChange
      <3> QED
        BY <1>3, <2>1, <3>1 DEF RequestChange, RmaStands
    <2>2. CASE ConfirmChange \/ DeclineChange
      <3>1. /\ change.state = "requested" /\ UNCHANGED books
            /\ \E to \in ChangeState : change' = [change EXCEPT !.state = to]
        BY <2>2 DEF ConfirmChange, DeclineChange, ChangeState
      <3> QED
        BY <1>0, <1>3, <3>1 DEF ChangeRecord, RmaStands
    <2>3. CASE StampReturn
      BY <1>2, <1>3, <2>3 DEF StampReturn
    <2>4. CASE ReturnStock \/ ReturnSeen
      BY <1>1, <1>3, <2>4 DEF ReturnStock, ReturnSeen
    <2>5. CASE BookReturn
      <3>1. UNCHANGED change /\ UNCHANGED cost /\ reversed \subseteq reversed'
        BY <2>5 DEF BookReturn, LedgerJobDone, ReversesOrWritesOff
      <3> QED
        BY <1>1, <3>1 DEF BooksStand
    <2> QED
      BY <1>6, <2>1, <2>2, <2>3, <2>4, <2>5 DEF ChangeStep
  <1>7. ASSUME NEW i \in Inspector, InspectorStep(i) \/ InspectOverlap(i) \/ InspectCutOff(i)
        PROVE  RmaStands /\ BooksStand
    <2>1. CASE InspectStamp(i)
      <3>1. /\ change' = [change EXCEPT !.inspected = TRUE]
            /\ UNCHANGED cost /\ reversed \subseteq reversed'
        BY <2>1 DEF InspectStamp, ReversesOrWritesOff
      <3> QED
        BY <1>2, <3>1 DEF BooksStand
    <2>2. CASE ~InspectStamp(i)
      <3>1. UNCHANGED <<change, books>>
        BY <1>7, <2>2 DEF InspectorStep, InspectLoad, InspectMove, InspectFails, InspectOverlap, InspectCutOff
      <3> QED
        BY <1>1, <1>3, <3>1
    <2> QED
      BY <2>1, <2>2
  <1>8. ASSUME NEW j \in Job, ReceiveAnswerLost(j) \/ StockJobDies(j) \/ LedgerJobDies(j)
        PROVE  RmaStands /\ BooksStand
    <2>1. UNCHANGED <<change, books>>
      BY <1>8 DEF ReceiveAnswerLost, StockJobDies, LedgerJobDies, LedgerJobDone
    <2> QED
      BY <1>1, <1>3, <2>1
  <1>9. ASSUME StampAnswerLost PROVE RmaStands /\ BooksStand
    BY <1>1, <1>2, <1>3, <1>9 DEF StampAnswerLost
  <1> QED
    BY <1>4, <1>5, <1>6, <1>7, <1>8, <1>9 DEF Next, FaultStep

\* Nothing of this is taken back by any handler, action or fault: goods on
\* their way, ended holds, closed orders, decided changes, stamps, booked costs
\* and reversals.  An order that closed without a restock, as one refunded by
\* an RMA does, is never restocked (stock-return.ts).
THEOREM FulfilmentStands == Spec => [][Stands]_vars
  <1>1. Init => GoodsInv
    BY InitTypes, InitParts DEF GoodsInv
  <1>2. GoodsInv /\ [Next]_vars => GoodsInv' /\ [Stands]_vars
    BY GoodsStepOK, ShipmentsStand, OrderStandsOK, ChangeStandsOK DEF Stands, OrderStands, RmaStands, BooksStand
  <1> QED
    BY <1>1, <1>2, PTL DEF Spec
-----------------------------------------------------------------------------
\* Nothing comes back that never left: an RMA brings goods back only from a
\* shipment on its way, an inspection takes out of holding only what the return
\* put there, and a refund restocks only such an order, or one that was called
\* fulfilled by hand.
NothingUnsent ==
    /\ moves["return"] > 0 => Out # {}
    /\ moves["inspection"] > 0 => moves["return"] > 0
    /\ moves["restock"] > 0 => Out # {} \/ order.forced

\* Behind each move, the job and the stamp it takes.
Trail ==
    /\ change.state # "none" => Out # {}
    /\ stockJob["restock"] # "none" \/ order.status = "fulfilled" => Out # {} \/ order.forced
    /\ moves["restock"] > 0 => stockJob["restock"] # "none"
    /\ moves["return"] > 0 => stockJob["return"] # "none"
    /\ stockJob["return"] = "moved" \/ change.stocked => moves["return"] > 0
    /\ moves["inspection"] > 0 => change.stocked
    /\ \A i \in Inspector : inspector[i] # "idle" => change.stocked

LEMMA OutStays == ASSUME GoodsInv, Next PROVE Out \subseteq Out'
  BY ShipmentsStand DEF Out

LEMMA TrailStays ==
    ASSUME Trail, Out \subseteq Out', order.forced => order'.forced,
           order'.status = "fulfilled" => order.status = "fulfilled" \/ Out' # {} \/ order'.forced,
           change'.state # "none" => change.state # "none" \/ Out' # {},
           change'.stocked = change.stocked, UNCHANGED inspector,
           \A j \in {"restock", "return"} : stockJob'[j] = stockJob[j] /\ moves'[j] = moves[j],
           moves'["inspection"] = moves["inspection"]
    PROVE  Trail'
  BY DEF Trail

LEMMA InitTrail == Init => Trail
  <1> SUFFICES ASSUME Init PROVE Trail
    OBVIOUS
  <1> QED
    BY Subjects DEF Init, InitFor, Trail, NoChange

LEMMA ShipmentTrail == ASSUME GoodsInv, Trail, Next, NEW f \in Shipment, ShipmentStep(f) PROVE Trail'
  <1>0. TypeOK /\ Parts /\ Out \subseteq Out' /\ f # "restock" /\ f # "return" /\ f # "inspection"
    BY OutStays, Subjects DEF GoodsInv
  <1>1. UNCHANGED <<change, inspector>>
    BY DEF ShipmentStep, ShipLoad, CreateByAction, ShipByAction, Reflect, ShipActionEnds,
           CreateByRoute, ShipByRoute, SendOut, CancelShipment, TransitionTo, Ships, CommitStock,
           ReleaseShipped, BookCost, LedgerJobDone
  <1>2. CASE Reflect(f)
    <2>1. f \in Out /\ order'.forced = order.forced /\ UNCHANGED <<stockJob, moves>>
      BY <1>0, <1>2 DEF Reflect, Parts, Pipeline, InPipeline, Out, TypeOK, jobs, goods
    <2> QED
      BY <1>0, <1>1, <2>1, TrailStays
  <1>3. CASE ~Reflect(f)
    <2>1. UNCHANGED order
      BY <1>3 DEF ShipmentStep, ShipLoad, CreateByAction, ShipByAction, ShipActionEnds,
           CreateByRoute, ShipByRoute, SendOut, CancelShipment, TransitionTo, Ships, CommitStock,
           ReleaseShipped, BookCost, LedgerJobDone, orderVars
    <2>2. stockJob' = stockJob \/ \E to : stockJob' = [stockJob EXCEPT ![f] = to]
      BY <1>3 DEF ShipmentStep, ShipLoad, CreateByAction, ShipByAction, ShipActionEnds,
           CreateByRoute, ShipByRoute, SendOut, CancelShipment, TransitionTo, Ships, CommitStock,
           ReleaseShipped, BookCost, LedgerJobDone, StockJobTo, jobs
    <2>3. moves' = moves \/ Moved(f)
      BY <1>3 DEF ShipmentStep, ShipLoad, CreateByAction, ShipByAction, ShipActionEnds,
           CreateByRoute, ShipByRoute, SendOut, CancelShipment, TransitionTo, Ships, CommitStock,
           ReleaseShipped, BookCost, LedgerJobDone, goods
    <2>4. \A j \in {"restock", "return"} : stockJob'[j] = stockJob[j]
      BY <1>0, <2>2, Subjects DEF TypeOK
    <2>5. \A g \in {"restock", "return", "inspection"} : moves'[g] = moves[g]
      BY <1>0, <2>3, Subjects DEF TypeOK, Moved
    <2> QED
      BY <1>0, <1>1, <2>1, <2>4, <2>5, TrailStays
  <1> QED
    BY <1>2, <1>3

LEMMA OrderTrail == ASSUME GoodsInv, Trail, Next, OrderStep PROVE Trail'
  <1>0. TypeOK /\ Out \subseteq Out' /\ "restock" \in Job /\ "return" \in Job /\ Job \subseteq Goods
    BY OutStays, Subjects DEF GoodsInv
  <1>1. UNCHANGED <<change, inspector>>
    BY DEF OrderStep, CancelOrder, ForceFulfilled, RefundOrder, RefundByRma, OrderTo, ReleaseHolds,
           HoldExpires, Restock, BookRestock, LedgerJobDone
  <1>2. CASE RefundOrder
    <2>1. /\ order'.forced = order.forced /\ order'.status # "fulfilled" /\ moves' = moves
          /\ stockJob'["restock"] # "none" => stockJob["restock"] # "none" \/ order.status = "fulfilled"
          /\ stockJob["restock"] # "none" => stockJob'["restock"] # "none"
          /\ stockJob'["return"] = stockJob["return"]
      BY <1>0, <1>2 DEF RefundOrder, OrderTo, TypeOK, jobs, goods
    <2> QED
      BY <1>0, <1>1, <2>1 DEF Trail
  <1>3. CASE Restock
    <2>1. /\ order' = order /\ stockJob["restock"] # "none" /\ stockJob'["restock"] # "none"
          /\ stockJob'["return"] = stockJob["return"]
          /\ moves'["return"] = moves["return"] /\ moves'["inspection"] = moves["inspection"]
      BY <1>0, <1>3 DEF Restock, StockJobTo, Moved, TypeOK, orderVars
    <2> QED
      BY <1>0, <1>1, <2>1 DEF Trail
  <1>4. CASE ~RefundOrder /\ ~Restock
    <2>1. UNCHANGED <<stockJob, moves>>
      BY <1>4 DEF OrderStep, CancelOrder, ForceFulfilled, RefundByRma, OrderTo, ReleaseHolds,
                  HoldExpires, BookRestock, LedgerJobDone, jobs, goods
    <2>2. \/ order'.forced
          \/ order'.forced = order.forced /\ order'.status \in {order.status, "canceled", "refunded"}
      BY <1>0, <1>4 DEF OrderStep, CancelOrder, ForceFulfilled, RefundByRma, OrderTo, ReleaseHolds,
                  HoldExpires, BookRestock, LedgerJobDone, orderVars, TypeOK
    <2> QED
      BY <1>0, <1>1, <2>1, <2>2, TrailStays
  <1> QED
    BY <1>2, <1>3, <1>4

LEMMA ReturnTrail ==
    ASSUME GoodsInv, Trail, Next, ReturnStock \/ ReturnSeen \/ StampReturn \/ StampAnswerLost
    PROVE  Trail'
  <1>0. TypeOK /\ Out \subseteq Out' /\ "restock" \in Job /\ "return" \in Job /\ Job \subseteq Goods
        /\ "inspection" \in Goods
    BY OutStays, Subjects DEF GoodsInv
  <1>1. UNCHANGED <<order, inspector>> /\ stockJob["return"] # "none"
    BY DEF ReturnStock, ReturnSeen, StampReturn, StampAnswerLost, StockJobTo, orderVars
  <1>2. stockJob'["restock"] = stockJob["restock"] /\ stockJob'["return"] # "none"
    BY <1>0 DEF ReturnStock, ReturnSeen, StampReturn, StampAnswerLost, StockJobTo, TypeOK
  <1>3. /\ moves'["restock"] = moves["restock"] /\ moves'["inspection"] = moves["inspection"]
        /\ moves["return"] > 0 => moves'["return"] > 0
        /\ stockJob'["return"] = "moved" => moves'["return"] > 0
    <2>1. CASE ReturnStock
      BY <1>0, <2>1, Counts DEF ReturnStock, Moved, TypeOK
    <2>2. CASE ~ReturnStock
      <3>1. moves' = moves /\ stockJob'["return"] # "moved"
        BY <1>0, <2>2 DEF ReturnSeen, StampReturn, StampAnswerLost, StockJobTo, TypeOK, goods
      <3> QED
        BY <3>1
    <2> QED
      BY <2>1, <2>2
  <1>4. /\ change'.state = change.state
        /\ change.stocked => change'.stocked
        /\ change'.stocked => change.stocked \/ moves["return"] > 0
    <2>1. CASE UNCHANGED change
      BY <2>1
    <2>2. CASE change' = [change EXCEPT !.stocked = TRUE] /\ stockJob["return"] = "moved"
      BY <1>0, <2>2 DEF TypeOK, Trail
    <2> QED
      BY <2>1, <2>2 DEF ReturnStock, ReturnSeen, StampReturn, StampAnswerLost, StockJobTo
  <1> QED
    BY <1>0, <1>1, <1>2, <1>3, <1>4 DEF Trail

LEMMA ChangeTrail ==
    ASSUME GoodsInv, Trail, Next, RequestChange \/ ConfirmChange \/ DeclineChange \/ BookReturn
    PROVE  Trail'
  <1>0. TypeOK /\ change \in ChangeRecord /\ Out \subseteq Out'
        /\ "restock" \in Job /\ "return" \in Job
    BY OutStays, Subjects DEF GoodsInv, TypeOK, ChangeRecord
  <1>1. UNCHANGED <<order, moves, inspector>>
    BY DEF RequestChange, ConfirmChange, DeclineChange, BookReturn, LedgerJobDone, orderVars, goods
  <1>2. CASE RequestChange
    <2>1. PICK ls \in (SUBSET Line) \ {{}}, inspect \in BOOLEAN :
              /\ change = NoChange /\ Covered(ls)
              /\ change' = [NoChange EXCEPT !.state = "requested", !.inspect = inspect]
      BY <1>2 DEF RequestChange
    <2>2. Out # {}
      <3>1. ls \subseteq UNION {shipment[f].lines : f \in Out} /\ ls # {}
        BY <2>1 DEF Covered
      <3>2. PICK l : l \in ls
        BY <3>1
      <3> QED
        BY <3>1, <3>2
    <2>3. change'.stocked = change.stocked /\ UNCHANGED stockJob
      BY <1>0, <1>2, <2>1 DEF RequestChange, ChangeRecord, jobs
    <2> QED
      BY <1>0, <1>1, <2>2, <2>3, TrailStays
  <1>3. CASE ConfirmChange
    <2>1. /\ change.state # "none" /\ change'.stocked = change.stocked
          /\ stockJob'["return"] = "queued" /\ stockJob'["restock"] = stockJob["restock"]
      BY <1>0, <1>3 DEF ConfirmChange, ChangeRecord, TypeOK
    <2> QED
      BY <1>0, <1>1, <2>1 DEF Trail
  <1>4. CASE DeclineChange \/ BookReturn
    <2>1. /\ change'.state # "none" => change.state # "none"
          /\ change'.stocked = change.stocked /\ UNCHANGED stockJob
      BY <1>0, <1>4 DEF DeclineChange, BookReturn, LedgerJobDone, ChangeRecord, jobs
    <2> QED
      BY <1>0, <1>1, <2>1, TrailStays
  <1> QED
    BY <1>2, <1>3, <1>4

LEMMA FaultTrail ==
    ASSUME GoodsInv, Trail, Next, NEW j \in Job,
           ReceiveAnswerLost(j) \/ StockJobDies(j) \/ LedgerJobDies(j)
    PROVE  Trail'
  <1>0. TypeOK /\ Out \subseteq Out' /\ "restock" \in Job /\ "return" \in Job /\ Job \subseteq Goods
        /\ "inspection" \in Goods /\ j \in Goods /\ j # "inspection"
    BY OutStays, Subjects DEF GoodsInv, Job
  <1>1. UNCHANGED <<order, change, inspector>>
    BY DEF ReceiveAnswerLost, StockJobDies, LedgerJobDies, LedgerJobDone, orderVars
  <1>2. CASE ReceiveAnswerLost(j)
    <2>1. /\ stockJob' = stockJob /\ stockJob[j] = "queued"
          /\ moves'[j] = moves[j] + 1 /\ \A g \in Goods : g # j => moves'[g] = moves[g]
      BY <1>0, <1>2 DEF ReceiveAnswerLost, Moved, jobs, TypeOK
    <2>2. moves[j] \in Nat
      BY <1>0, Counts
    <2> QED
      BY <1>0, <1>1, <2>1, <2>2 DEF Trail
  <1>3. CASE StockJobDies(j)
    <2>1. /\ moves' = moves /\ stockJob[j] # "none" /\ stockJob'[j] = "done"
          /\ \A k \in Job : k # j => stockJob'[k] = stockJob[k]
      BY <1>0, <1>3 DEF StockJobDies, goods, TypeOK
    <2> QED
      BY <1>0, <1>1, <2>1 DEF Trail
  <1>4. CASE LedgerJobDies(j)
    BY <1>0, <1>1, <1>4, TrailStays DEF LedgerJobDies, LedgerJobDone, goods
  <1> QED
    BY <1>2, <1>3, <1>4

LEMMA InspectionTrail ==
    ASSUME GoodsInv, Trail, Next, NEW i \in Inspector,
           InspectorStep(i) \/ InspectOverlap(i) \/ InspectCutOff(i)
    PROVE  Trail'
  <1>0. TypeOK /\ Out \subseteq Out' /\ "restock" \in Goods /\ "return" \in Goods /\ "inspection" \in Goods
    BY OutStays, Subjects DEF GoodsInv
  <1>1. UNCHANGED <<order, stockJob>>
    BY DEF InspectorStep, InspectLoad, InspectMove, InspectStamp, InspectFails, InspectOverlap,
           InspectCutOff, orderVars, jobs
  <1>2. moves'["restock"] = moves["restock"] /\ moves'["return"] = moves["return"]
    BY <1>0 DEF InspectorStep, InspectLoad, InspectMove, InspectStamp, InspectFails, InspectOverlap,
           InspectCutOff, Moved, goods, TypeOK
  <1>3. change'.state = change.state /\ change'.stocked = change.stocked
    <2>1. CASE UNCHANGED change
      BY <2>1
    <2>2. CASE change' = [change EXCEPT !.inspected = TRUE]
      BY <1>0, <2>2 DEF TypeOK
    <2> QED
      BY <2>1, <2>2 DEF InspectorStep, InspectLoad, InspectMove, InspectStamp, InspectFails,
                        InspectOverlap, InspectCutOff
  <1>4. change.stocked
    BY DEF InspectorStep, InspectLoad, InspectMove, InspectStamp, InspectFails, InspectOverlap,
           InspectCutOff, InspectorTo, Inspectable, Trail
  <1> QED
    BY <1>0, <1>1, <1>2, <1>3, <1>4 DEF Trail

LEMMA TrailOK == ASSUME GoodsInv, Trail, [Next]_vars PROVE Trail'
  <1>1. CASE UNCHANGED vars
    BY <1>1 DEF vars, orderVars, jobs, goods, Trail, Out
  <1>2. CASE Next
    BY <1>2, ShipmentTrail, OrderTrail, ReturnTrail, ChangeTrail, FaultTrail, InspectionTrail
    DEF Next, ChangeStep, FaultStep
  <1> QED
    BY <1>1, <1>2

\* The invariant below the claims of rma-inspect.service.ts and stock-return.ts:
\* however retries, faults and inspections interleave, no goods appear on the
\* shelf which were not sent before.
THEOREM ComesBackAfterLeaving == Spec => []NothingUnsent
  <1>1. Init => GoodsInv /\ Trail
    BY InitTypes, InitParts, InitTrail DEF GoodsInv
  <1>2. GoodsInv /\ Trail /\ [Next]_vars => GoodsInv' /\ Trail'
    BY GoodsStepOK, TrailOK
  <1>3. GoodsInv /\ Trail => NothingUnsent
    BY DEF GoodsInv, Parts, Returns, Trail, NothingUnsent
  <1> QED
    BY <1>1, <1>2, <1>3, PTL DEF Spec
=============================================================================
