--------------------------- MODULE ApprovalChain ---------------------------
(***************************************************************************)
(* The approval of one purchase order: submit_for_approval and decide of    *)
(* withApprovalChain (core/approval/with-approval-chain.ts), and approve of  *)
(* procurement.factory.ts, which the kernel (a package) gates on the chain  *)
(* if there is one: a draft without a chain is approved as it is.  The      *)
(* handlers write back the whole chain they computed from the one they      *)
(* loaded.                                                                  *)
(*                                                                          *)
(* The chain's transition function is a package as well.  A seat is one     *)
(* approver's place in one step; a step is passed by a quorum of its seats, *)
(* and the chain is approved when every step is.  In which order a          *)
(* sequential chain wants its steps is left out: it refuses decisions.      *)
(***************************************************************************)
EXTENDS Naturals, FiniteSets

CONSTANTS
    Seat,       \* the approvers, each in one step
    ChainStep,  \* the steps of a chain
    StepOf,     \* the step of each seat
    Required,   \* requiredApprovals of each step, in each submission
    Handler,    \* the calls that can be under way at once
    MaxAttempts \* bound: how many chains are ever built

ASSUME ApprovalConstants ==
    /\ IsFiniteSet(Seat)
    /\ ChainStep # {}
    /\ StepOf \in [Seat -> ChainStep]
    /\ MaxAttempts \in Nat
    /\ Required \in [1 .. MaxAttempts -> [ChainStep -> Nat \ {0}]]

VARIABLES
    poStatus, \* the purchase order: draft or approved
    chain,    \* its `approvals`; attempt 0: none
    handler,  \* where each call is, and the chain it is going to write
    attempts, \* how many chains were built
    sent,     \* history: who approved which attempt
    direct    \* history: the approval that found no chain went through

approvalVars == <<poStatus, chain, handler, attempts, sent, direct>>

Verdict      == {"pending", "approved", "rejected"}
Chain        == [attempt : 0 .. MaxAttempts, status : Verdict, verdict : [Seat -> Verdict]]
HandlerPlace == {"idle", "writing", "approving", "approving directly"}

Fresh(n) == [attempt |-> n, status |-> "pending", verdict |-> [a \in Seat |-> "pending"]]

\* The seats in `yes` make up the quorum of every step of the n-th submission.
Quorate(n, yes) ==
    \A s \in ChainStep : Cardinality({a \in yes : StepOf[a] = s}) >= Required[n][s]

Seats(c, v) == {a \in Seat : c.verdict[a] = v}

ApprovalInit ==
    /\ poStatus = "draft"
    /\ chain    = Fresh(0)
    /\ handler  = [h \in Handler |-> [pc |-> "idle", writes |-> Fresh(0)]]
    /\ attempts = 0
    /\ sent     = [n \in 1 .. MaxAttempts |-> {}]
    /\ direct   = FALSE

Computes(h, c) ==
    /\ handler[h].pc = "idle"
    /\ handler' = [handler EXCEPT ![h] = [pc |-> "writing", writes |-> c]]

HandlerGoTo(h, to) == handler' = [handler EXCEPT ![h] = [pc |-> to, writes |-> Fresh(0)]]

\* Mutant: the approvals of a rejected chain are carried over.
SubmitKeepsApprovals(h) ==
    /\ poStatus = "draft"
    /\ chain.attempt = 0 \/ chain.status = "rejected"
    /\ attempts < MaxAttempts
    /\ attempts' = attempts + 1
    /\ Computes(h, [Fresh(attempts + 1) EXCEPT
                        !.verdict = [a \in Seat |->
                            IF chain.verdict[a] = "rejected" THEN "pending" ELSE chain.verdict[a]]])
    /\ UNCHANGED <<poStatus, chain, sent, direct>>

\* A draft without a chain, or with a rejected one, gets a fresh chain from the
\* body or from the policy matrix.
Submit(h) ==
    /\ poStatus = "draft"
    /\ chain.attempt = 0 \/ chain.status = "rejected"
    /\ attempts < MaxAttempts
    /\ attempts' = attempts + 1
    /\ Computes(h, Fresh(attempts + 1))
    /\ UNCHANGED <<poStatus, chain, sent, direct>>

\* An approval; with it the chain may be through.
Approves(h, a) ==
    LET yes   == Seats(chain, "approved") \cup {a}
        after == IF Quorate(chain.attempt, yes) THEN "approved" ELSE "pending"
    IN  /\ Computes(h, [chain EXCEPT !.verdict[a] = "approved", !.status = after])
        /\ sent' = [sent EXCEPT ![chain.attempt] = @ \cup {a}]

\* A rejection ends the chain, which a step with a quorum to spare may survive.
Rejects(h, a) ==
    \E s \in {"pending", "rejected"} :
        /\ s = "pending" => Quorate(chain.attempt, Seat \ (Seats(chain, "rejected") \cup {a}))
        /\ Computes(h, [chain EXCEPT !.verdict[a] = "rejected", !.status = s])
        /\ UNCHANGED sent

\* applyDecision on the loaded chain: it throws unless the chain is pending.
Decide(h) ==
    /\ chain.attempt > 0
    /\ chain.status = "pending"
    /\ \E a \in Seats(chain, "pending") :
           \/ Approves(h, a)
           \/ Rejects(h, a)
    /\ UNCHANGED <<poStatus, chain, attempts, direct>>

\* repository.update(id, {approvals}): whatever chain is stored by now.
WriteChain(h) ==
    /\ handler[h].pc = "writing"
    /\ chain' = handler[h].writes
    /\ HandlerGoTo(h, "idle")
    /\ UNCHANGED <<poStatus, attempts, sent, direct>>

\* approve, of the flow package: a chain in the way must be approved ...
ApproveOrder(h) ==
    /\ poStatus = "draft"
    /\ handler[h].pc = "idle"
    /\ \E to \in {"approving", "approving directly"} :
          /\ to = "approving"          => chain.attempt > 0 /\ chain.status = "approved"
          /\ to = "approving directly" => chain.attempt = 0
          /\ HandlerGoTo(h, to)
    /\ UNCHANGED <<poStatus, chain, attempts, sent, direct>>

\* ... when it is loaded, whatever became of it by the time of the save.
SaveOrder(h) ==
    /\ handler[h].pc \in {"approving", "approving directly"}
    /\ poStatus' = "approved"
    /\ direct' = (direct \/ handler[h].pc = "approving directly")
    /\ HandlerGoTo(h, "idle")
    /\ UNCHANGED <<chain, attempts, sent>>

HandlerFails(h) ==
    /\ handler[h].pc # "idle"
    /\ HandlerGoTo(h, "idle")
    /\ UNCHANGED <<poStatus, chain, attempts, sent, direct>>

ApprovalNext ==
    \E h \in Handler :
        \/ Submit(h) \/ Decide(h) \/ WriteChain(h)
        \/ ApproveOrder(h) \/ SaveOrder(h) \/ HandlerFails(h)

ApprovalSpec == ApprovalInit /\ [][ApprovalNext]_approvalVars
-----------------------------------------------------------------------------
ApprovalTypeOK ==
    /\ poStatus \in {"draft", "approved"}
    /\ chain \in Chain
    /\ handler \in [Handler -> [pc : HandlerPlace, writes : Chain]]
    /\ attempts \in 0 .. MaxAttempts
    /\ sent \in [1 .. MaxAttempts -> SUBSET Seat]
    /\ direct \in BOOLEAN

\* Lost decisions, chains written back over newer ones and resubmissions never
\* make up a consent: unless it had no chain when its approval was asked for,
\* an order is approved only when a quorum of every step approved one and the
\* same submission of it.
ApprovedByQuorum ==
    poStatus = "approved" => direct \/ \E n \in 1 .. MaxAttempts : Quorate(n, sent[n])
=============================================================================
