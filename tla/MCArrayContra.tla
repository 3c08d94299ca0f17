---------------------------- MODULE MCArrayContra ----------------------------
(* ArrayContra for TLC: three terms, explanation paths of up to three      *)
(* equalities, congruence runs of up to two.                              *)
EXTENDS ArrayContra, TLC

CONSTANTS a, b, c

MCAtoms == {a, b, c}

\* Renaming the terms renames every input, proof and result alike.
MCSymmetry == Permutations(MCAtoms)
==============================================================================
