--------------------------- MODULE MCProofPreamble ---------------------------
(* ProofPreamble for TLC.  Registration: two U variables (one a skolem),  *)
(* two arrays, one Boolean variable, one function symbol.  Sharing: two   *)
(* leaves, so that subterms of height at most 2 repeat within an          *)
(* assertion, under a repeated parent, inside a UF argument and across    *)
(* assertions.                                                             *)
EXTENDS ProofPreamble

CONSTANTS x, y, sk, a, b, p, f

MCUVars == {x, sk}
MCSkolems == {sk}
MCArrVars == {a, b}
MCMarkChoices == {<<>>, <<<<x, "ARRAY">>>>}
MCLeaves == {x, y}
==============================================================================
