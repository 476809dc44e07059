-------------------------- MODULE EffectOnce_proof --------------------------
(***************************************************************************)
(* A stock request and a COD receivable implement the contract EffectOnce    *)
(* for any number of calls.  What links the effects that happened to the     *)
(* faults that excuse them are the calls under way: the transfers created    *)
(* and about to be created, the clearings posted, published and decided,     *)
(* exceed the noticed faults by one at most.                                 *)
(***************************************************************************)
EXTENDS StockRequest, CodReceivable, FiniteSetTheorems, TLAPS

Creating   == {c \in Clerk : clerk[c] = "creating"}
Fulfilling == {c \in Clerk : clerk[c] \in {"creating", "stamping"}}

OneAhead ==
    /\ IsFiniteSet(Creating)
    /\ transfers + Cardinality(Creating) <= unseen + 1
    /\ Fulfilling = {} /\ ~request.transfer => transfers <= unseen

RequestInv == RequestTypeOK /\ OneAhead

LEMMA RequestInitOK == RequestInit => RequestInv /\ OneTransfer!Init
  <1> SUFFICES ASSUME RequestInit PROVE RequestInv /\ OneTransfer!Init
    OBVIOUS
  <1>1. RequestTypeOK
    BY DEF RequestInit, RequestTypeOK, RequestStatus, ClerkPlace
  <1>2. Creating = {} /\ transfers = 0 /\ unseen = 0
    BY DEF RequestInit, Creating
  <1>3. OneAhead
    BY <1>2, FS_EmptySet DEF OneAhead
  <1>4. OneTransfer!Init
    BY <1>2 DEF OneTransfer!Init
  <1> QED
    BY <1>1, <1>3, <1>4 DEF RequestInv

LEMMA RequestTypesOK == RequestTypeOK /\ [RequestNext]_requestVars => RequestTypeOK'
  <1> SUFFICES ASSUME RequestTypeOK, [RequestNext]_requestVars PROVE RequestTypeOK'
    OBVIOUS
  <1> USE DEF RequestTypeOK, RequestStatus, ClerkPlace, ClerkGoTo
  <1>1. ASSUME NEW c \in Clerk, ApproveLoad(c) \/ RejectLoad(c) \/ CancelLoad(c) PROVE RequestTypeOK'
    BY <1>1 DEF ApproveLoad, RejectLoad, CancelLoad, LoadFor
  <1>2. ASSUME NEW c \in Clerk, FulfillLoad(c) PROVE RequestTypeOK'
    BY <1>2 DEF FulfillLoad, Overlap
  <1>3. ASSUME NEW c \in Clerk, Approve(c) \/ Reject(c) \/ Cancel(c) PROVE RequestTypeOK'
    <2>1. PICK from \in ClerkPlace, status \in RequestStatus : SaveAs(c, from, status)
      BY <1>3 DEF Approve, Reject, Cancel
    <2> QED
      BY <2>1 DEF SaveAs
  <1>4. ASSUME NEW c \in Clerk, CreateTransfer(c) \/ CallFails(c) \/ StampLost(c) PROVE RequestTypeOK'
    BY <1>4 DEF CreateTransfer, CallFails, StampLost
  <1>5. ASSUME NEW c \in Clerk, StampTransfer(c) PROVE RequestTypeOK'
    BY <1>5 DEF StampTransfer
  <1>6. CASE UNCHANGED requestVars
    BY <1>6 DEF requestVars
  <1> QED
    BY <1>1, <1>2, <1>3, <1>4, <1>5, <1>6 DEF RequestNext

\* How a call changes who is creating and who is fulfilling.
LEMMA ClerkMoves ==
    ASSUME RequestTypeOK, NEW c \in Clerk, NEW from, NEW to, ClerkGoTo(c, from, to)
    PROVE  /\ Creating' = IF to = "creating" THEN Creating \cup {c} ELSE Creating \ {c}
           /\ Fulfilling' = IF to \in {"creating", "stamping"} THEN Fulfilling \cup {c}
                            ELSE Fulfilling \ {c}
           /\ c \in Creating <=> from = "creating"
           /\ c \in Fulfilling <=> from \in {"creating", "stamping"}
  BY DEF ClerkGoTo, RequestTypeOK, Creating, Fulfilling

LEMMA RequestStepOK ==
    ASSUME RequestInv, [RequestNext]_requestVars
    PROVE  OneAhead' /\ [OneTransfer!Next]_<<[s \in {"request"} |-> transfers], [s \in {"request"} |-> unseen]>>
  <1> DEFINE Stutters == UNCHANGED <<transfers, unseen>>
             Maps == [OneTransfer!Next]_<<[s \in {"request"} |-> transfers], [s \in {"request"} |-> unseen]>>
  <1>a. RequestTypeOK /\ OneAhead /\ transfers \in Nat /\ unseen \in Nat /\ Cardinality(Creating) \in Nat
    BY FS_CardinalityType DEF RequestInv, OneAhead, RequestTypeOK
  <1>b. Stutters => Maps
    OBVIOUS
  <1>c. ASSUME unseen' = unseen + 1, UNCHANGED transfers PROVE Maps
    BY <1>a, <1>c DEF OneTransfer!Next, OneTransfer!Excuse
  <1>d. ASSUME transfers' = transfers + 1, transfers <= unseen, UNCHANGED unseen PROVE Maps
    BY <1>a, <1>d DEF OneTransfer!Next, OneTransfer!Perform
  \* A call that neither begins nor ends a fulfilment.
  <1>e. ASSUME NEW c \in Clerk, NEW from, NEW to, ClerkGoTo(c, from, to), Stutters,
               {from, to} \cap {"creating", "stamping"} = {}, request'.transfer = request.transfer
        PROVE  OneAhead' /\ Maps
    <2>1. Creating' = Creating /\ Fulfilling' = Fulfilling
      BY <1>a, <1>e, ClerkMoves
    <2> QED
      BY <1>a, <1>b, <1>e, <2>1 DEF OneAhead
  <1>1. ASSUME NEW c \in Clerk, ApproveLoad(c) \/ RejectLoad(c) \/ CancelLoad(c) PROVE OneAhead' /\ Maps
    <2>1. PICK to \in {"approving", "rejecting", "cancelling"} : ClerkGoTo(c, "idle", to)
      BY <1>1 DEF ApproveLoad, RejectLoad, CancelLoad, LoadFor
    <2>2. UNCHANGED <<request, transfers, unseen>>
      BY <1>1 DEF ApproveLoad, RejectLoad, CancelLoad, LoadFor
    <2> QED
      BY <1>e, <2>1, <2>2
  <1>2. ASSUME NEW c \in Clerk, FulfillLoad(c) PROVE OneAhead' /\ Maps
    <2>1. /\ Creating' = Creating \cup {c} /\ c \notin Creating
          /\ Fulfilling' = Fulfilling \cup {c}
      BY <1>2, <1>a, ClerkMoves DEF FulfillLoad
    <2>2. IsFiniteSet(Creating') /\ Cardinality(Creating') = Cardinality(Creating) + 1
      BY <1>a, <2>1, FS_AddElement DEF OneAhead
    <2>3. /\ UNCHANGED transfers /\ ~request.transfer
          /\ IF Fulfilling = {} THEN UNCHANGED unseen ELSE unseen' = unseen + 1
      BY <1>2 DEF FulfillLoad, Overlap, Fulfilling
    <2>4. Fulfilling = {} => transfers <= unseen /\ Cardinality(Creating) = 0
      <3>1. Fulfilling = {} => Creating = {}
        BY DEF Creating, Fulfilling
      <3> QED
        BY <1>a, <2>3, <3>1, FS_EmptySet DEF OneAhead
    <2>5. OneAhead'
      BY <1>a, <2>1, <2>2, <2>3, <2>4 DEF OneAhead
    <2> QED
      BY <1>b, <1>c, <2>3, <2>5
  <1>3. ASSUME NEW c \in Clerk, Approve(c) \/ Reject(c) \/ Cancel(c) PROVE OneAhead' /\ Maps
    <2>1. PICK from \in {"approving", "rejecting", "cancelling"} : ClerkGoTo(c, from, "idle")
      BY <1>3 DEF Approve, Reject, Cancel, SaveAs
    <2>2. UNCHANGED <<transfers, unseen>> /\ request'.transfer = request.transfer
      BY <1>3, <1>a DEF Approve, Reject, Cancel, SaveAs, RequestTypeOK
    <2> QED
      BY <1>e, <2>1, <2>2
  <1>4. ASSUME NEW c \in Clerk, CreateTransfer(c) PROVE OneAhead' /\ Maps
    <2>1. /\ Creating' = Creating \ {c} /\ c \in Creating
          /\ Fulfilling' = Fulfilling \cup {c}
      BY <1>4, <1>a, ClerkMoves DEF CreateTransfer
    <2>2. IsFiniteSet(Creating') /\ Cardinality(Creating') = Cardinality(Creating) - 1
      BY <1>a, <2>1, FS_RemoveElement DEF OneAhead
    <2>3. transfers' = transfers + 1 /\ UNCHANGED <<request, unseen>>
      BY <1>4 DEF CreateTransfer
    <2>4. Cardinality(Creating) >= 1
      BY <1>a, <2>1, FS_EmptySet DEF OneAhead
    <2>5. transfers <= unseen
      BY <1>a, <2>4 DEF OneAhead
    <2>6. OneAhead'
      BY <1>a, <2>1, <2>2, <2>3 DEF OneAhead
    <2> QED
      BY <1>d, <2>3, <2>5, <2>6
  <1>5. ASSUME NEW c \in Clerk, StampTransfer(c) PROVE OneAhead' /\ Maps
    <2>1. Creating' = Creating
      BY <1>5, <1>a, ClerkMoves DEF StampTransfer
    <2>2. UNCHANGED <<transfers, unseen>> /\ request'.transfer
      BY <1>5 DEF StampTransfer
    <2> QED
      BY <1>a, <1>b, <2>1, <2>2 DEF OneAhead
  <1>6. ASSUME NEW c \in Clerk, CallFails(c) PROVE OneAhead' /\ Maps
    <2>1. UNCHANGED <<request, transfers, unseen>>
      BY <1>6 DEF CallFails
    <2>2. CASE clerk[c] = "creating"
      <3>1. Creating' = Creating \ {c} /\ c \in Creating
        BY <1>6, <1>a, <2>2, ClerkMoves DEF CallFails
      <3>2. IsFiniteSet(Creating') /\ Cardinality(Creating') = Cardinality(Creating) - 1
        BY <1>a, <3>1, FS_RemoveElement DEF OneAhead
      <3>3. Cardinality(Creating) >= 1
        BY <1>a, <3>1, FS_EmptySet DEF OneAhead
      <3> QED
        BY <1>a, <1>b, <2>1, <3>2, <3>3 DEF OneAhead
    <2>3. CASE clerk[c] # "creating"
      BY <1>6, <1>e, <2>1, <2>3 DEF CallFails
    <2> QED
      BY <2>2, <2>3
  <1>7. ASSUME NEW c \in Clerk, StampLost(c) PROVE OneAhead' /\ Maps
    <2>1. Creating' = Creating
      BY <1>7, <1>a, ClerkMoves DEF StampLost
    <2>2. UNCHANGED <<request, transfers>> /\ unseen' = unseen + 1
      BY <1>7 DEF StampLost
    <2> QED
      BY <1>a, <1>c, <2>1, <2>2 DEF OneAhead
  <1>8. CASE UNCHANGED requestVars
    BY <1>a, <1>8 DEF requestVars, OneAhead, Creating, Fulfilling
  <1> QED
    BY <1>1, <1>2, <1>3, <1>4, <1>5, <1>6, <1>7, <1>8 DEF RequestNext

(* However fulfilments, approvals and cancellations of a stock request       *)
(* overlap, die or save late (stock-request.service.ts), its goods are       *)
(* transferred once, and once more for every noticed fault.                  *)
THEOREM RequestTransfersOnce == RequestSpec => []RequestTypeOK /\ TransferredOnce
  <1>1. RequestInit => RequestInv /\ OneTransfer!Init
    BY RequestInitOK
  <1>2. RequestInv /\ [RequestNext]_requestVars => RequestInv'
    BY RequestTypesOK, RequestStepOK DEF RequestInv
  <1>3. RequestInv /\ [RequestNext]_requestVars =>
          [OneTransfer!Next]_<<[s \in {"request"} |-> transfers], [s \in {"request"} |-> unseen]>>
    BY RequestStepOK
  <1>4. RequestInv => RequestTypeOK
    BY DEF RequestInv
  <1> QED
    BY <1>1, <1>2, <1>3, <1>4, PTL DEF RequestSpec, TransferredOnce, OneTransfer!Spec
-----------------------------------------------------------------------------
\* The clearings that are posted, published or decided.
Decided == clearing \cup events \cup Settling \cup {k \in {Reversal} : Reversing # {}}

Accounted ==
    /\ IsFiniteSet(Decided)
    /\ Cardinality(Decided) <= blind + 1
    /\ (clearing \cup events) \cap Teller # {} => order.settled
    /\ \A t \in Teller : teller[t] = "settled" => order.settled

CodInv == CodTypeOK /\ Accounted

ClearedPair == <<[s \in {"receivable"} |-> Cardinality(clearing)], [s \in {"receivable"} |-> blind]>>

LEMMA CodInitOK == CodInit => CodInv /\ Cleared!Init
  <1> SUFFICES ASSUME CodInit PROVE CodInv /\ Cleared!Init
    OBVIOUS
  <1>1. CodTypeOK
    BY DEF CodInit, CodTypeOK
  <1>2. Decided = {} /\ clearing = {} /\ events = {} /\ blind = 0
    BY DEF CodInit, Decided, Settling, Reversing
  <1>3. Accounted
    BY <1>2, FS_EmptySet DEF Accounted, CodInit
  <1>4. Cleared!Init
    BY <1>2, FS_EmptySet DEF Cleared!Init
  <1> QED
    BY <1>1, <1>3, <1>4 DEF CodInv

LEMMA CodTypesOK == CodTypeOK /\ [CodNext]_codVars => CodTypeOK'
  <1> SUFFICES ASSUME CodTypeOK, [CodNext]_codVars PROVE CodTypeOK'
    OBVIOUS
  <1> USE DEF CodTypeOK, TellerGoTo
  <1>0. \A condition \in BOOLEAN : Hides(condition) => blind' \in Nat
    BY DEF Hides
  <1>1. ASSUME NEW t \in Teller, SettleLoad(t) PROVE CodTypeOK'
    BY <1>1 DEF SettleLoad, Hides
  <1>2. ASSUME NEW t \in Teller, RecordSettlement(t) PROVE CodTypeOK'
    BY <1>2 DEF RecordSettlement
  <1>3. ASSUME NEW t \in Teller, PublishSettled(t) PROVE CodTypeOK'
    BY <1>3 DEF PublishSettled, Publish
  <1>4. ASSUME NEW t \in Teller, CloseAction(t) PROVE CodTypeOK'
    <2>1. PICK to \in {"done", "reversing"} : teller' = [teller EXCEPT ![t] = to]
      BY <1>4 DEF CloseAction
    <2>2. order' = [order EXCEPT !.closed = TRUE] /\ UNCHANGED <<events, clearing>>
      BY <1>4 DEF CloseAction
    <2>3. order' \in [closed : BOOLEAN, settled : BOOLEAN]
      BY <2>2
    <2>4. blind' \in Nat
      BY <1>4 DEF CloseAction, Hides
    <2>5. teller' \in [Teller -> {"idle", "recording", "settled", "reversing", "done"}]
      BY <2>1
    <2> QED
      BY <2>2, <2>3, <2>4, <2>5
  <1>5. ASSUME NEW t \in Teller, RefundLoad(t) PROVE CodTypeOK'
    BY <1>5 DEF RefundLoad, Hides
  <1>6. ASSUME NEW t \in Teller, PublishReversal(t) PROVE CodTypeOK'
    BY <1>6 DEF PublishReversal
  <1>7. ASSUME NEW t \in Teller, TellerDies(t) PROVE CodTypeOK'
    BY <1>7 DEF TellerDies
  <1>8. ASSUME NEW k \in Teller \cup {Reversal}, PostEntry(k) \/ EventEnds(k) PROVE CodTypeOK'
    BY <1>8 DEF PostEntry, EventEnds
  <1>9. CASE UNCHANGED codVars
    BY <1>9 DEF codVars
  <1> QED
    BY <1>1, <1>2, <1>3, <1>4, <1>5, <1>6, <1>7, <1>8, <1>9 DEF CodNext

\* How a call changes who is settling and who is reversing.
LEMMA TellerMoves ==
    ASSUME CodTypeOK, NEW t \in Teller, NEW from, NEW to, TellerGoTo(t, from, to)
    PROVE  /\ Settling' = IF to \in {"recording", "settled"} THEN Settling \cup {t} ELSE Settling \ {t}
           /\ Reversing' = IF to = "reversing" THEN Reversing \cup {t} ELSE Reversing \ {t}
           /\ t \in Settling <=> from \in {"recording", "settled"}
           /\ t \in Reversing <=> from = "reversing"
           /\ \A u \in Teller : u # t => teller'[u] = teller[u]
           /\ teller'[t] = to
  BY DEF TellerGoTo, CodTypeOK, Settling, Reversing

\* A step that decides nothing new, and one that decides one clearing more.
LEMMA NothingNew ==
    ASSUME CodTypeOK, Accounted, Decided' \subseteq Decided, UNCHANGED blind
    PROVE  IsFiniteSet(Decided') /\ Cardinality(Decided') <= blind' + 1
  <1>1. /\ IsFiniteSet(Decided') /\ Cardinality(Decided') <= Cardinality(Decided)
    BY FS_Subset DEF Accounted
  <1> QED
    BY <1>1, FS_CardinalityType DEF Accounted, CodTypeOK

LEMMA OneMore ==
    ASSUME CodTypeOK, Accounted, NEW k, Decided' \subseteq Decided \cup {k},
           blind' \in Nat, blind' >= blind, blind' = blind => Decided = {} \/ Decided = {k}
    PROVE  IsFiniteSet(Decided') /\ Cardinality(Decided') <= blind' + 1
  <1>0. IsFiniteSet(Decided) /\ Cardinality(Decided) \in Nat
    BY FS_CardinalityType DEF Accounted
  <1>1. /\ IsFiniteSet(Decided \cup {k}) /\ Cardinality(Decided \cup {k}) <= Cardinality(Decided) + 1
        /\ Cardinality(Decided) \in Nat
    <2>1. /\ IsFiniteSet(Decided \cup {k})
          /\ \/ Cardinality(Decided \cup {k}) = Cardinality(Decided)
             \/ Cardinality(Decided \cup {k}) = Cardinality(Decided) + 1
      BY <1>0, FS_AddElement
    <2> QED
      BY <1>0, <2>1
  <1>2. /\ IsFiniteSet(Decided') /\ Cardinality(Decided') <= Cardinality(Decided \cup {k})
        /\ Cardinality(Decided') \in Nat
    BY <1>1, FS_Subset, FS_CardinalityType
  <1>3. blind' = blind => Cardinality(Decided') <= 1
    <2>1. blind' = blind => Decided' \in SUBSET {k}
      OBVIOUS
    <2>2. IsFiniteSet({k}) /\ Cardinality({k}) = 1
      BY FS_Singleton
    <2> QED
      BY <2>1, <2>2, FS_Subset
  <1>4. Cardinality(Decided \cup {k}) \in Nat
    BY <1>1, FS_CardinalityType
  <1> QED
    BY <1>1, <1>2, <1>3, <1>4 DEF Accounted, CodTypeOK

LEMMA CodStepOK ==
    ASSUME CodInv, [CodNext]_codVars
    PROVE  Accounted' /\ [Cleared!Next]_ClearedPair
  <1>a. CodTypeOK /\ Accounted /\ blind \in Nat /\ Reversal \notin Teller
    BY TellerConstants DEF CodInv, CodTypeOK
  <1>b. UNCHANGED <<clearing, blind>> => [Cleared!Next]_ClearedPair
    BY DEF ClearedPair
  <1>c. ASSUME UNCHANGED clearing, blind' = blind + 1 PROVE [Cleared!Next]_ClearedPair
    BY <1>a, <1>c DEF Cleared!Next, Cleared!Excuse, ClearedPair
  <1>d. ASSUME NEW condition \in BOOLEAN, Hides(condition)
        PROVE  blind' \in Nat /\ blind' >= blind /\ (blind' = blind <=> ~condition)
               /\ (UNCHANGED clearing => [Cleared!Next]_ClearedPair)
    BY <1>a, <1>b, <1>c, <1>d DEF Hides
  <1>1. ASSUME NEW t \in Teller, SettleLoad(t) PROVE Accounted' /\ [Cleared!Next]_ClearedPair
    <2>1. /\ Settling' = Settling \cup {t} /\ Reversing' = Reversing \ {t} /\ t \notin Reversing
          /\ \A u \in Teller : u # t => teller'[u] = teller[u]
          /\ teller'[t] = "recording"
      BY <1>1, <1>a, TellerMoves DEF SettleLoad
    <2>2. ~order.settled /\ UNCHANGED <<order, events, clearing>>
      BY <1>1 DEF SettleLoad
    <2>3. blind' \in Nat /\ blind' >= blind /\ (blind' = blind <=> ~(Settling # {} \/ ReversalDecided))
          /\ [Cleared!Next]_ClearedPair
      BY <1>1, <1>d, <2>2 DEF SettleLoad
    <2>4. Decided' \subseteq Decided \cup {t}
      BY <2>1, <2>2 DEF Decided
    <2>5. blind' = blind => Decided = {}
      BY <1>a, <2>2, <2>3 DEF Decided, ReversalDecided, Accounted, CodTypeOK
    <2>6. IsFiniteSet(Decided') /\ Cardinality(Decided') <= blind' + 1
      BY <1>a, <2>3, <2>4, <2>5, OneMore
    <2> QED
      BY <1>a, <2>1, <2>2, <2>3, <2>6 DEF Accounted
  <1>2. ASSUME NEW t \in Teller, RecordSettlement(t) PROVE Accounted' /\ [Cleared!Next]_ClearedPair
    <2>1. Settling' = Settling /\ Reversing' = Reversing
      BY <1>2, <1>a, TellerMoves DEF RecordSettlement
    <2>2. order'.settled /\ UNCHANGED <<events, clearing, blind>>
      BY <1>2, <1>a DEF RecordSettlement, CodTypeOK
    <2>3. Decided' = Decided
      BY <2>1, <2>2 DEF Decided
    <2> QED
      BY <1>a, <1>b, <2>2, <2>3, NothingNew DEF Accounted
  <1>3. ASSUME NEW t \in Teller, PublishSettled(t) PROVE Accounted' /\ [Cleared!Next]_ClearedPair
    <2>1. /\ Settling' = Settling \ {t} /\ t \in Settling /\ Reversing' = Reversing
          /\ \A u \in Teller : u # t => teller'[u] = teller[u]
      BY <1>3, <1>a, TellerMoves DEF PublishSettled
    <2>2. events' = events \cup {t} /\ UNCHANGED <<order, clearing, blind>>
      BY <1>3 DEF PublishSettled, Publish
    <2>3. Decided' \subseteq Decided
      BY <2>1, <2>2 DEF Decided
    <2>4. order.settled
      BY <1>3, <1>a DEF PublishSettled, TellerGoTo, Accounted
    <2> QED
      BY <1>a, <1>b, <2>2, <2>3, <2>4, NothingNew DEF Accounted
  <1>4. ASSUME NEW t \in Teller, CloseAction(t) PROVE Accounted' /\ [Cleared!Next]_ClearedPair
    <2>1. order'.settled = order.settled /\ UNCHANGED <<events, clearing>>
      BY <1>4, <1>a DEF CloseAction, CodTypeOK
    <2>2. blind' \in Nat /\ blind' >= blind /\ (blind' = blind <=> ~(~order.settled /\ Settling # {}))
          /\ [Cleared!Next]_ClearedPair
      BY <1>4, <1>d, <2>1 DEF CloseAction
    <2>3. CASE order.settled
      <3>1. Settling' = Settling /\ Reversing' = Reversing
        BY <1>4, <1>a, <2>3, TellerMoves DEF CloseAction
      <3>2. Decided' = Decided
        BY <2>1, <3>1 DEF Decided
      <3>3. blind' = blind
        BY <1>a, <2>2, <2>3
      <3> QED
        BY <1>a, <2>1, <2>2, <2>3, <3>2, <3>3, NothingNew DEF Accounted
    <2>4. CASE ~order.settled
      <3>1. /\ Settling' = Settling /\ Reversing' = Reversing \cup {t}
            /\ \A u \in Teller : u # t => teller'[u] = teller[u]
            /\ teller'[t] = "reversing"
        BY <1>4, <1>a, <2>4, TellerMoves DEF CloseAction
      <3>2. Decided' \subseteq Decided \cup {Reversal}
        BY <2>1, <3>1 DEF Decided
      <3>3. blind' = blind => Decided = {} \/ Decided = {Reversal}
        BY <1>a, <2>2, <2>4 DEF Decided, Accounted, CodTypeOK
      <3>4. IsFiniteSet(Decided') /\ Cardinality(Decided') <= blind' + 1
        BY <1>a, <2>2, <3>2, <3>3, OneMore
      <3> QED
        BY <1>a, <2>1, <2>2, <3>1, <3>4 DEF Accounted
    <2> QED
      BY <2>3, <2>4
  <1>5. ASSUME NEW t \in Teller, RefundLoad(t) PROVE Accounted' /\ [Cleared!Next]_ClearedPair
    <2>1. /\ Settling' = Settling /\ Reversing' = Reversing \cup {t}
          /\ \A u \in Teller : u # t => teller'[u] = teller[u]
          /\ teller'[t] = "reversing"
      BY <1>5, <1>a, TellerMoves DEF RefundLoad
    <2>2. ~order.settled /\ UNCHANGED <<order, events, clearing>>
      BY <1>5 DEF RefundLoad
    <2>3. blind' \in Nat /\ blind' >= blind /\ (blind' = blind <=> ~(Settling # {}))
          /\ [Cleared!Next]_ClearedPair
      BY <1>5, <1>d, <2>2 DEF RefundLoad
    <2>4. Decided' \subseteq Decided \cup {Reversal}
      BY <2>1, <2>2 DEF Decided
    <2>5. blind' = blind => Decided = {} \/ Decided = {Reversal}
      BY <1>a, <2>2, <2>3 DEF Decided, Accounted, CodTypeOK
    <2>6. IsFiniteSet(Decided') /\ Cardinality(Decided') <= blind' + 1
      BY <1>a, <2>3, <2>4, <2>5, OneMore
    <2> QED
      BY <1>a, <2>1, <2>2, <2>3, <2>6 DEF Accounted
  <1>6. ASSUME NEW t \in Teller, PublishReversal(t) PROVE Accounted' /\ [Cleared!Next]_ClearedPair
    <2>1. /\ Settling' = Settling /\ Reversing # {}
          /\ \A u \in Teller : u # t => teller'[u] = teller[u]
          /\ teller'[t] = "done"
      BY <1>6, <1>a, TellerMoves DEF PublishReversal
    <2>2. events' = events \cup {Reversal} /\ UNCHANGED <<clearing, blind>>
          /\ order'.settled = order.settled
      BY <1>6, <1>a DEF PublishReversal, CodTypeOK
    <2>3. Decided' \subseteq Decided
      BY <2>1, <2>2 DEF Decided
    <2> QED
      BY <1>a, <1>b, <2>1, <2>2, <2>3, NothingNew DEF Accounted
  <1>7. ASSUME NEW t \in Teller, TellerDies(t) PROVE Accounted' /\ [Cleared!Next]_ClearedPair
    <2>1. /\ Settling' \subseteq Settling /\ Reversing' \subseteq Reversing
          /\ \A u \in Teller : u # t => teller'[u] = teller[u]
          /\ teller'[t] = "done"
      BY <1>7, <1>a, TellerMoves DEF TellerDies
    <2>2. UNCHANGED <<order, events, clearing, blind>>
      BY <1>7 DEF TellerDies
    <2>3. Decided' \subseteq Decided
      BY <2>1, <2>2 DEF Decided
    <2> QED
      BY <1>a, <1>b, <2>1, <2>2, <2>3, NothingNew DEF Accounted
  <1>8. ASSUME NEW k \in Teller \cup {Reversal}, PostEntry(k) PROVE Accounted' /\ [Cleared!Next]_ClearedPair
    <2>1. /\ k \in events /\ clearing' = clearing \cup {k}
          /\ UNCHANGED <<order, teller, events, blind>>
      BY <1>8 DEF PostEntry
    <2>2. Decided' = Decided
      BY <2>1 DEF Decided, Settling, Reversing
    <2>3. Accounted'
      BY <1>a, <2>1, <2>2 DEF Accounted
    <2>4. IsFiniteSet(clearing \cup {k}) /\ Cardinality(clearing \cup {k}) <= blind + 1
          /\ IsFiniteSet(clearing)
      <3>1. clearing \cup {k} \in SUBSET Decided /\ clearing \in SUBSET Decided
        BY <2>1 DEF Decided
      <3> QED
        BY <1>a, <3>1, FS_Subset, FS_CardinalityType DEF Accounted
    <2>5. CASE k \in clearing
      <3>1. clearing' = clearing
        BY <2>1, <2>5
      <3> QED
        BY <1>b, <2>1, <2>3, <3>1
    <2>6. CASE k \notin clearing
      <3>1. Cardinality(clearing') = Cardinality(clearing) + 1 /\ Cardinality(clearing) \in Nat
        BY <2>1, <2>4, <2>6, FS_AddElement, FS_CardinalityType
      <3>2. Cardinality(clearing) <= blind
        BY <1>a, <2>1, <2>4, <3>1
      <3>3. [Cleared!Next]_ClearedPair
        BY <2>1, <3>1, <3>2 DEF Cleared!Next, Cleared!Perform, ClearedPair
      <3> QED
        BY <2>3, <3>3
    <2> QED
      BY <2>5, <2>6
  <1>9. ASSUME NEW k \in Teller \cup {Reversal}, EventEnds(k) PROVE Accounted' /\ [Cleared!Next]_ClearedPair
    <2>1. events' = events \ {k} /\ UNCHANGED <<order, teller, clearing, blind>>
      BY <1>9 DEF EventEnds
    <2>2. Decided' \subseteq Decided
      BY <2>1 DEF Decided, Settling, Reversing
    <2> QED
      BY <1>a, <1>b, <2>1, <2>2, NothingNew DEF Accounted
  <1>10. CASE UNCHANGED codVars
    BY <1>a, <1>b, <1>10 DEF codVars, Accounted, Decided, Settling, Reversing
  <1> QED
    BY <1>1, <1>2, <1>3, <1>4, <1>5, <1>6, <1>7, <1>8, <1>9, <1>10 DEF CodNext

(* However settlements, cancellations and refunds of a COD order overlap and *)
(* in whatever order their postings run (cod-settlement.handler.ts,          *)
(* action.handler.ts, refund.handler.ts), the receivable is cleared once,    *)
(* and once more for every call that could not see another clearing.         *)
THEOREM CodClearsOnce == CodSpec => []CodTypeOK /\ ClearedOnce
  <1>1. CodInit => CodInv /\ Cleared!Init
    BY CodInitOK
  <1>2. CodInv /\ [CodNext]_codVars => CodInv'
    BY CodTypesOK, CodStepOK DEF CodInv
  <1>3. CodInv /\ [CodNext]_codVars => [Cleared!Next]_ClearedPair
    BY CodStepOK
  <1>4. CodInv => CodTypeOK
    BY DEF CodInv
  <1>5. [Cleared!Next]_ClearedPair <=>
          [Cleared!Next]_<<[s \in {"receivable"} |-> Cardinality(clearing)], [s \in {"receivable"} |-> blind]>>
    BY DEF ClearedPair
  <1> QED
    BY <1>1, <1>2, <1>3, <1>4, <1>5, PTL DEF CodSpec, ClearedOnce, Cleared!Spec
=============================================================================
