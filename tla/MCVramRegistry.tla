--------------------------- MODULE MCVramRegistry ---------------------------
(* Three loads in two processes, for TLC. *)
EXTENDS VramRegistry

CONSTANTS p1, p2, l1, l2, l3

MCPidOf == [l \in Loads |-> IF l = l1 THEN p1 ELSE p2]
MCNeed == [l \in Loads |-> IF l = l3 THEN 1 ELSE 2]
MCStarts == {q \in [Pids -> BOOLEAN] : q[p2]}
Budget(c, d, f) == [claims |-> c, deaths |-> d, faults |-> f]
MCBudgets == {Budget(3, 0, 0), Budget(2, 1, 0), Budget(2, 0, 1)}
MCPriority == [l \in Loads |-> IF l = l2 THEN 1 ELSE 0]
=============================================================================
