------------------------------ MODULE MCContext ------------------------------
(* Context for TLC: two objects, two values, one notify object.           *)
EXTENDS Context, TLC

CONSTANTS o1, o2, v1, v2, n1

MCObjs == {o1, o2}
MCVals == {v1, v2}
MCSymmetry == Permutations(MCObjs) \cup Permutations(MCVals)
==============================================================================
