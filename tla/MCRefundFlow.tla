---------------------------- MODULE MCRefundFlow ----------------------------
(***************************************************************************)
(* An order of 3 with partial RMAs of 1 and 2, its cancellation, and a press *)
(* of the refund button for the whole amount.                                *)
(***************************************************************************)
EXTENDS RefundFlow

CONSTANTS c1, c2, admin, cancel

MCAmount  == [j \in Job |-> CASE j = c1 -> 1 [] j = c2 -> 2 [] OTHER -> 3]
=============================================================================
