----------------------------- MODULE MCArrayProof -----------------------------
(* Model-checking instance of ArrayProof: below the top level, the         *)
(* instance of MCEqRecompiler; at the top level, the instance of           *)
(* MCArrayContra (three terms, paths of up to three equalities,            *)
(* congruence runs of up to three).                                        *)
EXTENDS ArrayProof, TLC

CONSTANTS a, b, c, d, ix, iy, x1, x2, sk

MCAtoms == {a, b, c, d}
MCTopAtoms == {a, b, c}
MCLeaves == {ix, iy, x1, x2, sk}
\* The terms and the literal are written out (as EqRecompiler's Sel, Store
\* and Neg(E(..)) build them): a constant's value must not refer back into
\* the instance it is substituted into.
MCIndices == {ix, iy, <<"select", x2, ix>>}
MCArrays == {x1, x2, <<"store", x1, ix, iy>>}
MCSkolems == {sk}
MCSkDiseq == [s \in MCSkolems |-> [neg |-> TRUE, l |-> x1, r |-> x2]]
MCNegRowIndices == {ix, iy}

\* Renaming the three terms of the top-level inputs renames every input,
\* proof and result of both cases alike (d is not renamed).
MCSymmetry == Permutations(MCTopAtoms)
==============================================================================
