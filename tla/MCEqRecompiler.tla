---------------------------- MODULE MCEqRecompiler ----------------------------
(* Model-checking instance of EqRecompiler: the transitivity case over the *)
(* walks of MCTransChain, and the array rules over two index variables,   *)
(* an index that is itself a read (select x2 ix), two array variables and *)
(* a store, and one extensionality skolem.                                 *)
EXTENDS EqRecompiler, TLC

CONSTANTS a, b, c, d, ix, iy, x1, x2, sk

MCAtoms == {a, b, c, d}
MCLeaves == {ix, iy, x1, x2, sk}
MCIndices == {ix, iy, Sel(x2, ix)}
MCArrays == {x1, x2, Store(x1, ix, iy)}
MCSkolems == {sk}
MCSkDiseq == [s \in MCSkolems |-> Neg(E(x1, x2))]
\* The index variables only; MCIndices in the run that reads an index off
\* an array.
MCNegRowIndices == {ix, iy}

\* Renaming the transitivity terms renames every walk, proof and result.
MCSymmetry == Permutations(MCAtoms)
==============================================================================
