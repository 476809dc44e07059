------------------------- MODULE MCOrderFulfilment -------------------------
(***************************************************************************)
(* Every shipment in play and no fault, or one shipment withdrawn and the   *)
(* faults still to come.  A return is inspected only when a shipment was    *)
(* withdrawn: an inspection looks at the change and at nothing else.        *)
(***************************************************************************)
EXTENDS OrderFulfilment, TLC

MCInit ==
    \/ InitFor({}, MaxFaults)
    \/ \E f \in Shipment : InitFor({f}, 0)

InspectsLittle == change'.inspect => \E f \in Shipment : shipment[f] = Withdrawn

MCSpec == MCInit /\ [][Next /\ InspectsLittle]_vars

Alike == Permutations(Line) \cup Permutations(Shipment)
=============================================================================
