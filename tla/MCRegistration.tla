--------------------------- MODULE MCRegistration ---------------------------
(* Registration for TLC: two U variables (one a skolem), two arrays, one   *)
(* Boolean variable, one function symbol.                                  *)
EXTENDS Registration

CONSTANTS x, sk, a, b, p, f

MCUVars == {x, sk}
MCSkolems == {sk}
MCArrVars == {a, b}
MCMarkChoices == {<<>>, <<<<x, "ARRAY">>>>}
==============================================================================
