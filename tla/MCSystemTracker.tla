-------------------------- MODULE MCSystemTracker ---------------------------
(* Bounds for checking SystemTracker with TLC: one request asks for the    *)
(* newest row, the other for a time range.                                 *)
EXTENDS SystemTracker

CONSTANTS r1, r2

MCRequest == {r1, r2}
MCLimit == [r \in MCRequest |-> IF r = r1 THEN 1 ELSE 0]
=============================================================================
