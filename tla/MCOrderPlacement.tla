-------------------------- MODULE MCOrderPlacement --------------------------
(***************************************************************************)
(* Instances of OrderPlacement for TLC.                                     *)
(*   Pair : two calls of two lines each.                                    *)
(*   Duo  : the same two calls with one line each, for the liveness run.    *)
(***************************************************************************)
EXTENDS OrderPlacement, TLC

CONSTANTS r1, r2, a, b, k1, noKey, noOrder

MCSku    == {a, b}
MCShort  == [s \in MCSku |-> IF s = a THEN 2 ELSE 1]
MCPlenty == [s \in MCSku |-> 2]

HoldsFor(lines) == UNION {{r} \X (1 .. lines[r]) : r \in DOMAIN lines}

MCPair        == {r1, r2}
MCPairSwap    == Permutations(MCPair)
MCPairLines   == [r \in MCPair |-> 2]
MCPairHold    == HoldsFor(MCPairLines)
MCPairHoldSku == [h \in MCPairHold |-> IF h[2] = 1 THEN a ELSE b]
MCPairHoldQty == [h \in MCPairHold |-> 1]
MCPairKeyOf   == [r \in MCPair |-> k1]
MCPairNoKeys  == [r \in MCPair |-> noKey]

MCDuoLines    == [r \in MCPair |-> 1]
MCDuoHold     == HoldsFor(MCDuoLines)
MCDuoHoldSku  == [h \in MCDuoHold |-> a]
MCDuoHoldQty  == [h \in MCDuoHold |-> 1]
=============================================================================
