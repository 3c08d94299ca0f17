----------------------------- MODULE MCTransChain -----------------------------
(* Model-checking instance of TransChain: walks of up to four equalities   *)
(* through four terms, so that a walk can return to its start and a run  *)
(* of identical equalities can follow a chained prefix.                   *)
EXTENDS TransChain, TLC

CONSTANTS a, b, c, d

MCAtoms == {a, b, c, d}

\* Renaming the terms renames every walk, proof and result alike.
MCSymmetry == Permutations(MCAtoms)
==============================================================================
