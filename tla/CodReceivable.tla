--------------------------- MODULE CodReceivable ---------------------------
(***************************************************************************)
(* The receivable of one cash-on-delivery order and the endpoints that      *)
(* clear it: the COD settlement (orders/handlers/cod-settlement.handler.ts),*)
(* the cancel and refund actions (handlers/action.handler.ts) and the COD   *)
(* branch of the refund button (handlers/refund.handler.ts).  Each publishes*)
(* an accounting event; registerPostingHandler posts it with retries, and   *)
(* the ledger (a package) keeps one entry per idempotency key.              *)
(***************************************************************************)
EXTENDS Naturals, FiniteSets

CONSTANT Teller \* the calls of the endpoints; each names the settlement it records

Reversal == "cod-cancelled" \* the key of the order's one reversal entry
ASSUME TellerConstants == Reversal \notin Teller

VARIABLES
    order,    \* whether the order is canceled or refunded, and codSettlement
    teller,   \* where each call is
    events,   \* published events, by the key of their entry
    clearing, \* the entries that credit the receivable, by key
    blind     \* history: calls that could not, or did not, see another clearing

codVars == <<order, teller, events, clearing, blind>>

CodInit ==
    /\ order    = [closed |-> FALSE, settled |-> FALSE]
    /\ teller   = [t \in Teller |-> "idle"]
    /\ events   = {}
    /\ clearing = {}
    /\ blind    = 0

TellerGoTo(t, from, to) ==
    /\ teller[t] = from
    /\ teller' = [teller EXCEPT ![t] = to]

Settling  == {t \in Teller : teller[t] \in {"recording", "settled"}}
Reversing == {t \in Teller : teller[t] = "reversing"}

\* Another clearing is decided that the order does not show yet, or that the
\* settlement does not look for.
ReversalDecided == Reversing # {} \/ Reversal \in events \cup clearing
Hides(condition) == blind' = IF condition THEN blind + 1 ELSE blind

Publish(t, key) ==
    /\ events' = events \cup {key}
    /\ UNCHANGED <<order, clearing, blind>>
-----------------------------------------------------------------------------
\* Mutant: an earlier settlement is not looked for.
SettleUnchecked(t) ==
    /\ TellerGoTo(t, "idle", "recording")
    /\ Hides(Settling # {} \/ ReversalDecided)
    /\ UNCHANGED <<order, events, clearing>>

\* codSettlementHandler: a settled order is a 409.  Its status is not read.
SettleLoad(t) ==
    /\ ~order.settled
    /\ TellerGoTo(t, "idle", "recording")
    /\ Hides(Settling # {} \/ ReversalDecided)
    /\ UNCHANGED <<order, events, clearing>>

RecordSettlement(t) ==
    /\ TellerGoTo(t, "recording", "settled")
    /\ order' = [order EXCEPT !.settled = TRUE]
    /\ UNCHANGED <<events, clearing, blind>>

PublishSettled(t) ==
    /\ TellerGoTo(t, "settled", "done")
    /\ Publish(t, t)

\* The cancel and refund actions: the transition, and then, by the order it
\* returned, the reversal of an unsettled one.
CloseAction(t) ==
    /\ ~order.closed
    /\ TellerGoTo(t, "idle", IF order.settled THEN "done" ELSE "reversing")
    /\ order' = [order EXCEPT !.closed = TRUE]
    /\ Hides(~order.settled /\ Settling # {})
    /\ UNCHANGED <<events, clearing>>

\* The refund button: refused for a settled order; refundedAt is never set on
\* a COD order, so it can be pressed again.
RefundLoad(t) ==
    /\ ~order.settled
    /\ TellerGoTo(t, "idle", "reversing")
    /\ Hides(Settling # {})
    /\ UNCHANGED <<order, events, clearing>>

\* The event, and for a full refund the transition, which may be refused.
PublishReversal(t) ==
    /\ TellerGoTo(t, "reversing", "done")
    /\ events' = events \cup {Reversal}
    /\ \/ UNCHANGED order
       \/ order' = [order EXCEPT !.closed = TRUE]
    /\ UNCHANGED <<clearing, blind>>

TellerDies(t) ==
    /\ teller[t] \notin {"idle", "done"}
    /\ TellerGoTo(t, teller[t], "done")
    /\ UNCHANGED <<order, events, clearing, blind>>

\* The posting handler runs, perhaps again; createPosting finds its entry.
PostEntry(k) ==
    /\ k \in events
    /\ clearing' = clearing \cup {k}
    /\ UNCHANGED <<order, teller, events, blind>>

\* Posted for good, retries exhausted, or lost with the process.
EventEnds(k) ==
    /\ k \in events
    /\ events' = events \ {k}
    /\ UNCHANGED <<order, teller, clearing, blind>>

CodNext ==
    \/ \E t \in Teller :
           \/ SettleLoad(t) \/ RecordSettlement(t) \/ PublishSettled(t)
           \/ CloseAction(t) \/ RefundLoad(t) \/ PublishReversal(t)
           \/ TellerDies(t)
    \/ \E k \in Teller \cup {Reversal} : PostEntry(k) \/ EventEnds(k)

CodSpec == CodInit /\ [][CodNext]_codVars
-----------------------------------------------------------------------------
CodTypeOK ==
    /\ order \in [closed : BOOLEAN, settled : BOOLEAN]
    /\ teller \in [Teller -> {"idle", "recording", "settled", "reversing", "done"}]
    /\ events \subseteq Teller \cup {Reversal}
    /\ clearing \subseteq Teller \cup {Reversal}
    /\ blind \in Nat

\* The receivable is cleared once, by the one settlement or by the reversal,
\* whatever order the postings run in and however often: a second clearing
\* entry takes a call that began before another one had recorded its own, or
\* a settlement of an order that had been reversed.
Cleared == INSTANCE EffectOnce WITH
    Subject <- {"receivable"},
    done    <- [s \in {"receivable"} |-> Cardinality(clearing)],
    excused <- [s \in {"receivable"} |-> blind]

ClearedOnce == Cleared!Spec
=============================================================================
