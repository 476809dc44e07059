--------------------------- MODULE OrderPlacement ---------------------------
(***************************************************************************)
(* executePlacement (sales/orders/placement.service.ts) with the helpers it *)
(* awaits: reserveOrderStock / releaseOrderStock (order-placement.ts), the  *)
(* flow bridge, reservePromo / commitPromo / rollbackPromo                  *)
(* (promotions/promo-placement.ts) and attachPaymentToOrder.                *)
(*                                                                          *)
(* A request runs alone between two awaits; at every await the others, the  *)
(* reservation clock and the cleanup cron may run, and the process may die. *)
(* A client that retries is another request with the same idempotency key.  *)
(* An order is named by the request that inserted it.                       *)
(***************************************************************************)
EXTENDS FlowStock

CONSTANTS
    Request,     \* the calls of POST /orders/place
    LineCount,   \* the number of lines of each call
    Key, NoKey,  \* the idempotency keys, and a call without one
    KeyOf,       \* the key of each call
    Coded,       \* the calls that carry a promo code
    VoucherUses, \* maxUsageTotal of the voucher behind the code
    NoOrder      \* "names no order"

ASSUME PlacementConstants ==
    /\ LineCount \in [Request -> Nat \ {0}]
    /\ Hold = UNION {{r} \X (1 .. LineCount[r]) : r \in Request}
    /\ KeyOf \in [Request -> Key \cup {NoKey}]
    /\ NoKey \notin Key
    /\ Coded \subseteq Request
    /\ VoucherUses \in Nat
    /\ NoOrder \notin Request

VARIABLES
    pc,         \* where each call is
    nextLine,   \* the line whose stock it reserves next
    promo,      \* its promo evaluation in the engine
    got,        \* the order that order.create or findOne handed it
    fate,       \* why it is compensating
    orders,     \* the calls whose order document exists
    discounted, \* those whose totals carry the promo discount
    paid,       \* those with a revenue transaction
    reply,      \* what each call was answered
    leftToTTL   \* history: holds the code gave up on and leaves to the sweeper

local == <<pc, nextLine, got, fate>>
store == <<orders, discounted, paid>>
flow  == <<onHand, holdState>>
vars  == <<flow, local, store, promo, reply, leftToTTL>>

Place == {"start", "reserving", "promo", "creating", "releasing", "undoing",
          "finding", "committing", "charging", "done", "crashed"}
Fate  == {"none", "replay", "dup", "error"}
PromoStatus == {"none", "held", "committed", "rolledback", "expired"}
Refusals    == {"rejected", "shortage", "failed"}
Accepted    == {"fresh", "replay"}

Answer(kind, order) == [kind |-> kind, order |-> order]
NoReply == Answer("none", NoOrder)

SameKey(q, r) == KeyOf[q] = KeyOf[r] /\ KeyOf[r] # NoKey

\* The orders with the key of call r: what findOne by metadata.idempotencyKey sees.
Winners(r) == {q \in orders : SameKey(q, r)}

HoldsOf(r) == {h \in Hold : h[1] = r}
Counting(H) == {h \in H : Counts(h)}

Init ==
    /\ FlowInit
    /\ pc         = [r \in Request |-> "start"]
    /\ nextLine   = [r \in Request |-> 1]
    /\ promo      = [r \in Request |-> "none"]
    /\ got        = [r \in Request |-> NoOrder]
    /\ fate       = [r \in Request |-> "none"]
    /\ orders     = {}
    /\ discounted = {}
    /\ paid       = {}
    /\ reply      = [r \in Request |-> NoReply]
    /\ leftToTTL  = {}

GoTo(r, from, to) ==
    /\ pc[r] = from
    /\ pc' = [pc EXCEPT ![r] = to]

Respond(r, kind, order) == reply' = [reply EXCEPT ![r] = Answer(kind, order)]

-----------------------------------------------------------------------------
\* 400: no lines at all, or a line whose SKU cannot be resolved.
Reject(r) ==
    /\ GoTo(r, "start", "done")
    /\ Respond(r, "rejected", NoOrder)
    /\ UNCHANGED <<flow, nextLine, got, fate, store, promo, leftToTTL>>

\* The idempotency lookup: an order with this key is answered as it is.
LookupHit(r) ==
    \E q \in Winners(r) :
        /\ GoTo(r, "start", "done")
        /\ Respond(r, "replay", q)
        /\ UNCHANGED <<flow, nextLine, got, fate, store, promo, leftToTTL>>

\* ... and a miss goes on to resolve the SKUs and reserve.
LookupMiss(r) ==
    /\ Winners(r) = {}
    /\ GoTo(r, "start", "reserving")
    /\ UNCHANGED <<flow, nextLine, got, fate, store, promo, reply, leftToTTL>>

\* One turn of the loop of bridge.reserve: an await per line.
ReserveLine(r) ==
    LET h == <<r, nextLine[r]>>
    IN  /\ GoTo(r, "reserving",
                IF nextLine[r] = LineCount[r] THEN "promo" ELSE "reserving")
        /\ Reserve(h)
        /\ nextLine' = [nextLine EXCEPT ![r] = @ + 1]
        /\ UNCHANGED <<onHand, got, fate, store, promo, reply, leftToTTL>>

\* The loop throws: InsufficientStockError is answered 409, any other error is
\* rethrown.  Either way the lines already reserved stay held until their TTL.
GiveUp(r, kind) ==
    /\ GoTo(r, "reserving", "done")
    /\ Respond(r, kind, NoOrder)
    /\ leftToTTL' = leftToTTL \cup Counting(HoldsOf(r))
    /\ UNCHANGED <<flow, nextLine, got, fate, store, promo>>

ReserveShort(r) ==
    /\ pc[r] = "reserving"
    /\ ~CanReserve(<<r, nextLine[r]>>)
    /\ GiveUp(r, "shortage")

ReserveThrows(r) == GiveUp(r, "failed")

\* Mutant: the discount is written down before there is an order.
ReservePromoEarly(r) ==
    /\ GoTo(r, "promo", "creating")
    /\ \/ UNCHANGED <<promo, discounted>>
       \/ /\ r \in Coded
          /\ promo' = [promo EXCEPT ![r] = "held"]
          /\ discounted' = discounted \cup {r}
    /\ UNCHANGED <<flow, nextLine, got, fate, orders, paid, reply, leftToTTL>>

\* reservePromo: never throws; without codes, or when all of them are refused
\* or the engine is down, the order goes on without a discount.
ReservePromo(r) ==
    /\ GoTo(r, "promo", "creating")
    /\ \/ UNCHANGED promo
       \/ r \in Coded /\ promo' = [promo EXCEPT ![r] = "held"]
    /\ UNCHANGED <<flow, nextLine, got, fate, store, reply, leftToTTL>>

-----------------------------------------------------------------------------
\* Mutant: without the unique index.
InsertTwice(r) ==
    /\ orders' = orders \cup {r}
    /\ discounted' = IF promo[r] # "none" THEN discounted \cup {r} ELSE discounted

\* order.create inserts the document.  Its discount is the one evaluated before.
Insert(r) ==
    /\ Winners(r) = {}
    /\ orders' = orders \cup {r}
    /\ discounted' = IF promo[r] # "none" THEN discounted \cup {r} ELSE discounted

CreateStored(r) ==
    /\ GoTo(r, "creating", "committing")
    /\ Insert(r)
    /\ got' = [got EXCEPT ![r] = r]
    /\ UNCHANGED <<flow, nextLine, fate, paid, promo, reply, leftToTTL>>

\* Mutant: the replay is not told apart from an order of our own.
CreateReturnsUnchecked(r) ==
    \E q \in Winners(r) :
        /\ GoTo(r, "creating", "committing")
        /\ got' = [got EXCEPT ![r] = q]
        /\ UNCHANGED <<flow, nextLine, fate, store, promo, reply, leftToTTL>>

\* The kernel lost the race for the key and returns the winner: its
\* reservationRefs are not ours, so this call is the replay.
CreateReturnsWinner(r) ==
    \E q \in Winners(r) :
        /\ GoTo(r, "creating", "releasing")
        /\ got'  = [got EXCEPT ![r] = q]
        /\ fate' = [fate EXCEPT ![r] = "replay"]
        /\ UNCHANGED <<flow, nextLine, store, promo, reply, leftToTTL>>

\* A duplicate-key error on a call with a key: from the idempotency index, or
\* from another unique index, when there is no winner to find.
CreateDuplicate(r) ==
    /\ KeyOf[r] # NoKey
    /\ GoTo(r, "creating", "releasing")
    /\ fate' = [fate EXCEPT ![r] = "dup"]
    /\ UNCHANGED <<flow, nextLine, got, store, promo, reply, leftToTTL>>

\* Any other error.  The insert may have been acknowledged to nobody.
CreateThrows(r) ==
    /\ GoTo(r, "creating", "releasing")
    /\ fate' = [fate EXCEPT ![r] = "error"]
    /\ \/ UNCHANGED <<orders, discounted>>
       \/ Insert(r)
    /\ UNCHANGED <<flow, nextLine, got, paid, promo, reply, leftToTTL>>

\* Mutant: only the first line is released.
ReleaseFirstLine(r) ==
    /\ GoTo(r, "releasing", "undoing")
    /\ Release({<<r, 1>>})
    /\ UNCHANGED <<onHand, nextLine, got, fate, store, promo, reply, leftToTTL>>

\* Mutant: the holds of the order at hand are released, be it another call's.
ReleaseHoldsOfOrder(r) ==
    /\ GoTo(r, "releasing", "undoing")
    /\ Release(HoldsOf(IF got[r] = NoOrder THEN r ELSE got[r]))
    /\ UNCHANGED <<onHand, nextLine, got, fate, store, promo, reply, leftToTTL>>

\* releaseOrderStock: per reservation, every failure swallowed.
ReleaseHolds(r) ==
    /\ GoTo(r, "releasing", "undoing")
    /\ \E failing \in SUBSET Counting(HoldsOf(r)) :
          /\ Release(HoldsOf(r) \ failing)
          /\ leftToTTL' = leftToTTL \cup failing
    /\ UNCHANGED <<onHand, nextLine, got, fate, store, promo, reply>>

\* rollbackPromo: best effort; a failure leaves the evaluation to its TTL.
UndoPromo(r) ==
    \/ UNCHANGED promo
    \/ promo[r] = "held" /\ promo' = [promo EXCEPT ![r] = "rolledback"]

RollbackPromo(r) ==
    /\ GoTo(r, "undoing", IF fate[r] = "dup" THEN "finding" ELSE "done")
    /\ UndoPromo(r)
    /\ \/ fate[r] = "replay" /\ Respond(r, "replay", got[r])
       \/ fate[r] = "error"  /\ Respond(r, "failed", NoOrder)
       \/ fate[r] = "dup"    /\ UNCHANGED reply
    /\ UNCHANGED <<flow, nextLine, got, fate, store, leftToTTL>>

\* After a duplicate-key error: answer the winner ...
FindWinner(r) ==
    \E q \in Winners(r) :
        /\ GoTo(r, "finding", "done")
        /\ got' = [got EXCEPT ![r] = q]
        /\ Respond(r, "replay", q)
        /\ UNCHANGED <<flow, nextLine, fate, store, promo, leftToTTL>>

\* Mutant: the compensated duplicate is looked up again and again.
FindNobodyAgain(r) ==
    /\ Winners(r) = {}
    /\ GoTo(r, "finding", "releasing")
    /\ UNCHANGED <<flow, nextLine, got, fate, store, promo, reply, leftToTTL>>

\* ... or, when no order has the key, compensate once more and rethrow.
FindNobody(r) ==
    /\ Winners(r) = {}
    /\ GoTo(r, "finding", "releasing")
    /\ fate' = [fate EXCEPT ![r] = "error"]
    /\ UNCHANGED <<flow, nextLine, got, store, promo, reply, leftToTTL>>

-----------------------------------------------------------------------------
Redeemed == {r \in Request : promo[r] = "committed"}

\* commitPromo: the engine counts the use if the voucher has one left; on any
\* failure the evaluation is rolled back.  The order keeps its discount.
CommitPromo(r) ==
    /\ GoTo(r, "committing", "charging")
    /\ \/ promo[r] = "none" /\ UNCHANGED promo
       \/ /\ promo[r] = "held"
          /\ Cardinality(Redeemed) < VoucherUses
          /\ promo' = [promo EXCEPT ![r] = "committed"]
       \/ promo[r] # "none" /\ UndoPromo(r)
    /\ UNCHANGED <<flow, nextLine, got, fate, store, reply, leftToTTL>>

\* attachPaymentToOrder: never throws, at most one transaction per order id;
\* then the 201.
AttachPayment(r) ==
    /\ GoTo(r, "charging", "done")
    /\ paid' \in {paid, paid \cup {got[r]}}
    /\ Respond(r, "fresh", got[r])
    /\ UNCHANGED <<flow, nextLine, got, fate, orders, discounted, promo, leftToTTL>>

\* The process dies, or the connection and the handler with it.
Crash(r) ==
    /\ pc[r] \notin {"start", "done", "crashed"}
    /\ pc' = [pc EXCEPT ![r] = "crashed"]
    /\ leftToTTL' = IF r \in orders THEN leftToTTL
                    ELSE leftToTTL \cup Counting(HoldsOf(r))
    /\ UNCHANGED <<flow, nextLine, got, fate, store, promo, reply>>

\* Mutant: the sweep of another organisation fails and ends the loop.
SweepAborts == UNCHANGED vars

\* The clocks: a hold reaches its TTL, the cron expires it, an evaluation
\* that was neither committed nor rolled back times out.
HoldLapses == \E h \in Hold : Lapse(h)
                /\ UNCHANGED <<local, store, promo, reply, leftToTTL>>
Sweep == SweepHolds /\ UNCHANGED <<local, store, promo, reply, leftToTTL>>
PromoLapses(r) ==
    /\ promo[r] = "held"
    /\ promo' = [promo EXCEPT ![r] = "expired"]
    /\ UNCHANGED <<flow, local, store, reply, leftToTTL>>

Step(r) ==
    \/ Reject(r) \/ LookupHit(r) \/ LookupMiss(r)
    \/ ReserveLine(r) \/ ReserveShort(r) \/ ReserveThrows(r)
    \/ ReservePromo(r)
    \/ CreateStored(r) \/ CreateReturnsWinner(r) \/ CreateDuplicate(r) \/ CreateThrows(r)
    \/ ReleaseHolds(r) \/ RollbackPromo(r) \/ FindWinner(r) \/ FindNobody(r)
    \/ CommitPromo(r) \/ AttachPayment(r)

Next ==
    \/ \E r \in Request : Step(r) \/ Crash(r) \/ PromoLapses(r)
    \/ HoldLapses
    \/ Sweep

Spec == Init /\ [][Next]_vars

\* Fairness: the event loop keeps serving a request, time passes, the
\* five-minute cron keeps running.
Fairness ==
    /\ \A r \in Request : WF_vars(Step(r))
    /\ \A h \in Hold : WF_vars(Lapse(h) /\ UNCHANGED <<local, store, promo, reply, leftToTTL>>)
    /\ WF_vars(Sweep)

FairSpec == Spec /\ Fairness
-----------------------------------------------------------------------------
TypeOK ==
    /\ FlowTypeOK
    /\ pc       \in [Request -> Place]
    /\ nextLine \in [Request -> Nat]
    /\ promo    \in [Request -> PromoStatus]
    /\ got      \in [Request -> Request \cup {NoOrder}]
    /\ fate     \in [Request -> Fate]
    /\ orders \subseteq Request
    /\ discounted \subseteq orders
    /\ paid \subseteq Request
    /\ reply \in [Request -> [kind  : Refusals \cup Accepted \cup {"none"},
                              order : Request \cup {NoOrder}]]
    /\ leftToTTL \subseteq Hold

\* An idempotency key names one order: every 201 for it, fresh or replayed,
\* by lookup, by the kernel's own race detection or after a duplicate-key
\* error, names the same order, and only one of them is not marked a replay.
SameKeySameOrder ==
    \A q, r \in Request :
        /\ SameKey(q, r)
        /\ reply[q].kind \in Accepted
        /\ reply[r].kind \in Accepted
        => /\ reply[q].order = reply[r].order
           /\ reply[q].kind = "fresh" /\ reply[r].kind = "fresh" => q = r

\* No stock is locked for nobody: a hold that counts belongs to a call still
\* running, to an order, or is one the code knowingly left to the sweeper
\* (the paths that log it, and a crash).
InFlight(r) == pc[r] \notin {"start", "done", "crashed"}

NoOrphanHold ==
    \A r \in Request : \A h \in HoldsOf(r) :
        Counts(h) => InFlight(r) \/ r \in orders \/ h \in leftToTTL

\* The compensation of one call never gives away the stock of an order: every
\* line of a stored order was reserved, and nothing but the TTL takes the
\* hold from it, unless its own insert was stored and reported as failed.
OrderKeepsItsHolds ==
    \A r \in orders : fate[r] # "error" =>
        \A h \in HoldsOf(r) : holdState[h] \in {"active", "lapsed", "expired"}

\* Racing and repeated calls with one key charge and redeem once: vouchers
\* and payments are consumed by calls whose own order exists, one per key, and
\* a voucher use is only spent on an order that was given the discount.
Consumed == paid \cup Redeemed

EffectsOncePerKey ==
    /\ Consumed \subseteq orders
    /\ Redeemed \subseteq discounted
    /\ \A q, r \in Consumed : SameKey(q, r) => q = r

\* The abstract promise of the endpoint.
Contract == INSTANCE PlacementContract
ImplementsContract == Contract!Spec

\* Every call that began is answered, unless its process dies: in particular
\* compensating a duplicate-key error ends, with or without a winner.
CallsEnd == \A r \in Request : InFlight(r) ~> ~InFlight(r)

\* The stock a failed, short or crashed call left reserved comes back.
HoldsComeBack ==
    \A h \in Hold : (h \in leftToTTL /\ Counts(h)) ~> ~Counts(h)

\* order-placement.ts:154-155: "Already-reserved lines from this call are
\* released before the error propagates."
NoLeakOnShortage ==
    \A r \in Request : reply[r].kind = "shortage" =>
        \A h \in HoldsOf(r) : ~Counts(h)
=============================================================================
