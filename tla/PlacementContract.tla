-------------------------- MODULE PlacementContract --------------------------
(***************************************************************************)
(* What POST /orders/place promises its callers, whatever happens behind    *)
(* it: an idempotency key buys at most one order, and every 201 names an    *)
(* order that exists: the caller's own, or, marked idempotent, the one an   *)
(* earlier or a concurrent call with the same key placed.                   *)
(***************************************************************************)
CONSTANTS
    Request,  \* the calls of the endpoint
    Key,      \* the idempotency keys
    NoKey,    \* a call without one
    KeyOf,    \* the key each call carries
    NoOrder   \* "names no order"

VARIABLES
    orders,  \* the calls whose order was persisted; an order is named by its call
    reply    \* what each call was answered

vars == <<orders, reply>>

Refusals == {"rejected", "shortage", "failed"}
Accepted == {"fresh", "replay"}

Answer(kind, order) == [kind |-> kind, order |-> order]
NoReply == Answer("none", NoOrder)

SameKey(q, r) == KeyOf[q] = KeyOf[r] /\ KeyOf[r] # NoKey

Init ==
    /\ orders = {}
    /\ reply = [r \in Request |-> NoReply]

\* The order of call r is persisted; the unique index refuses a second one.
Accept(r) ==
    /\ reply[r] = NoReply
    /\ r \notin orders
    /\ \A q \in orders : ~SameKey(q, r)
    /\ orders' = orders \cup {r}
    /\ UNCHANGED reply

Respond(r, a) ==
    /\ reply[r] = NoReply
    /\ reply' = [reply EXCEPT ![r] = a]
    /\ UNCHANGED orders

Confirm(r) == r \in orders /\ Respond(r, Answer("fresh", r))

Replay(r) ==
    \E q \in orders : q # r /\ SameKey(q, r) /\ Respond(r, Answer("replay", q))

Refuse(r) == \E kind \in Refusals : Respond(r, Answer(kind, NoOrder))

Next == \E r \in Request : Accept(r) \/ Confirm(r) \/ Replay(r) \/ Refuse(r)

Spec == Init /\ [][Next]_vars

=============================================================================
