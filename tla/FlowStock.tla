------------------------------ MODULE FlowStock ------------------------------
(***************************************************************************)
(* The part of the @classytic/flow warehouse kernel that be-prod relies on: *)
(* one stock quant per SKU at DEFAULT_LOCATION, and the reservations        *)
(* ("holds") that orders take out against it.  The kernel is a package      *)
(* outside the repository; every operator below is read off the way         *)
(* orders/bridges/flow.bridge.ts, the lifecycle handlers and their tests    *)
(* use it.                                                                   *)
(*                                                                          *)
(* A hold that reached its TTL (30 minutes) is "lapsed": it still counts    *)
(* against the quant until the cleanup cron expires it.  Only shipments,    *)
(* receipts and counts change what is on hand; placing an order does not.   *)
(***************************************************************************)
EXTENDS Integers, FiniteSets, FiniteSetsExt

CONSTANTS
    Sku,      \* the SKUs that are stocked
    Hold,     \* the identities of the reservations
    HoldSku,  \* the SKU each reservation is for
    HoldQty,  \* the quantity it reserves
    Stock0    \* the quantity on hand at the start

ASSUME FlowConstants ==
    /\ HoldSku \in [Hold -> Sku]
    /\ HoldQty \in [Hold -> Nat \ {0}]
    /\ Stock0  \in [Sku -> Nat]

VARIABLES
    onHand,    \* quantityOnHand per SKU
    holdState  \* the status of each reservation

HoldStatus == {"none", "active", "lapsed", "released", "expired"}

FlowTypeOK ==
    /\ onHand    \in [Sku -> Nat]
    /\ holdState \in [Hold -> HoldStatus]

FlowInit ==
    /\ onHand    = Stock0
    /\ holdState = [h \in Hold |-> "none"]

\* A reservation that still subtracts from what is available.
Counts(h) == holdState[h] \in {"active", "lapsed"}

\* quantityReserved and quantityAvailable of the quant.
Reserved(s) ==
    MapThenSumSet(LAMBDA h : HoldQty[h], {h \in Hold : HoldSku[h] = s /\ Counts(h)})

Available(s) == onHand[s] - Reserved(s)

\* reservation.reserve: one atomic check-and-increment on the quant.
CanReserve(h) == holdState[h] = "none" /\ HoldQty[h] <= Available(HoldSku[h])

Reserve(h) ==
    /\ CanReserve(h)
    /\ holdState' = [holdState EXCEPT ![h] = "active"]

\* reservation.release on a set of holds: idempotent on settled ones.
Release(H) ==
    holdState' = [h \in Hold |->
                    IF h \in H /\ Counts(h) THEN "released" ELSE holdState[h]]

\* The TTL of a hold passes.
Lapse(h) ==
    /\ holdState[h] = "active"
    /\ holdState' = [holdState EXCEPT ![h] = "lapsed"]
    /\ UNCHANGED onHand

\* reservation.cleanupExpired, run by cleanupAllOrgs every five minutes.
SweepHolds ==
    /\ \E h \in Hold : holdState[h] = "lapsed"
    /\ holdState' = [h \in Hold |->
                       IF holdState[h] = "lapsed" THEN "expired" ELSE holdState[h]]
    /\ UNCHANGED onHand
=============================================================================
