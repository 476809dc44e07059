---------------------------- MODULE StockRequest ----------------------------
(***************************************************************************)
(* One stock request of a branch to the head office: approveRequest,        *)
(* rejectRequest, fulfillRequest and cancelRequest                          *)
(* (inventory/stock-request/stock-request.service.ts).  Each loads the      *)
(* document, checks it, and saves the fields it changed over whatever is    *)
(* there by then.  A save may throw (a version conflict on the items, a     *)
(* lost connection) after the transfer of the goods was created.            *)
(***************************************************************************)
EXTENDS Naturals, FiniteSets

CONSTANTS
    Clerk,    \* the calls that can be under way at once
    MaxUnseen \* bound: how often a transfer goes unseen

ASSUME RequestConstants == MaxUnseen \in Nat

VARIABLES
    request,   \* its status and whether `transfer` is set
    clerk,     \* where each call is
    transfers, \* how many transfers were created for it
    unseen     \* history: calls that could not see another one's transfer

requestVars == <<request, clerk, transfers, unseen>>

RequestStatus == {"pending", "approved", "rejected", "fulfilled", "partial_fulfilled", "cancelled"}
ClerkPlace    == {"idle", "approving", "rejecting", "cancelling", "creating", "stamping"}

RequestInit ==
    /\ request   = [status |-> "pending", transfer |-> FALSE]
    /\ clerk     = [c \in Clerk |-> "idle"]
    /\ transfers = 0
    /\ unseen    = 0

ClerkGoTo(c, from, to) ==
    /\ clerk[c] = from
    /\ clerk' = [clerk EXCEPT ![c] = to]

\* A fulfilment that is loaded while another one is under way does not see it.
Overlap ==
    LET fulfilling == {d \in Clerk : clerk[d] \in {"creating", "stamping"}}
    IN  IF fulfilling = {} THEN UNCHANGED unseen
        ELSE unseen < MaxUnseen /\ unseen' = unseen + 1
-----------------------------------------------------------------------------
LoadFor(c, statuses, to) ==
    /\ request.status \in statuses
    /\ ClerkGoTo(c, "idle", to)
    /\ UNCHANGED <<request, transfers, unseen>>

ApproveLoad(c) == LoadFor(c, {"pending"}, "approving")
RejectLoad(c)  == LoadFor(c, {"pending"}, "rejecting")
CancelLoad(c)  == LoadFor(c, {"pending", "approved"}, "cancelling")

\* Mutant: the status alone is trusted.
FulfillLoadByStatus(c) ==
    /\ request.status = "approved"
    /\ ClerkGoTo(c, "idle", "creating")
    /\ Overlap
    /\ UNCHANGED <<request, transfers>>

\* An approved request without a transfer.
FulfillLoad(c) ==
    /\ request.status = "approved"
    /\ ~request.transfer
    /\ ClerkGoTo(c, "idle", "creating")
    /\ Overlap
    /\ UNCHANGED <<request, transfers>>

SaveAs(c, from, status) ==
    /\ ClerkGoTo(c, from, "idle")
    /\ request' = [request EXCEPT !.status = status]
    /\ UNCHANGED <<transfers, unseen>>

\* Approving nothing at all is refused before the save.
Approve(c) == SaveAs(c, "approving", "approved")
Reject(c)  == SaveAs(c, "rejecting", "rejected")
Cancel(c)  == SaveAs(c, "cancelling", "cancelled")

\* createTransfer of the transfer engine.
CreateTransfer(c) ==
    /\ ClerkGoTo(c, "creating", "stamping")
    /\ transfers' = transfers + 1
    /\ UNCHANGED <<request, unseen>>

StampTransfer(c) ==
    /\ ClerkGoTo(c, "stamping", "idle")
    /\ \E status \in {"fulfilled", "partial_fulfilled"} :
           request' = [status |-> status, transfer |-> TRUE]
    /\ UNCHANGED <<transfers, unseen>>

\* The call is refused or throws before it changed anything; or its save
\* throws, or the process dies, after the transfer exists.
CallFails(c) ==
    /\ clerk[c] \notin {"idle", "stamping"}
    /\ ClerkGoTo(c, clerk[c], "idle")
    /\ UNCHANGED <<request, transfers, unseen>>

StampLost(c) ==
    /\ ClerkGoTo(c, "stamping", "idle")
    /\ unseen < MaxUnseen
    /\ unseen' = unseen + 1
    /\ UNCHANGED <<request, transfers>>

RequestNext ==
    \E c \in Clerk :
        \/ ApproveLoad(c) \/ RejectLoad(c) \/ CancelLoad(c) \/ FulfillLoad(c)
        \/ Approve(c) \/ Reject(c) \/ Cancel(c)
        \/ CreateTransfer(c) \/ StampTransfer(c)
        \/ CallFails(c) \/ StampLost(c)

RequestSpec == RequestInit /\ [][RequestNext]_requestVars
-----------------------------------------------------------------------------
RequestTypeOK ==
    /\ request \in [status : RequestStatus, transfer : BOOLEAN]
    /\ clerk \in [Clerk -> ClerkPlace]
    /\ transfers \in Nat
    /\ unseen \in Nat

\* The goods of one request leave the head office once, whatever late saves do
\* to its status: a second transfer takes a fulfilment that loaded the request
\* while another was under way, or a save lost after the transfer was created.
OneTransfer == INSTANCE EffectOnce WITH
    Subject <- {"request"},
    done    <- [s \in {"request"} |-> transfers],
    excused <- [s \in {"request"} |-> unseen]

TransferredOnce == OneTransfer!Spec
=============================================================================
