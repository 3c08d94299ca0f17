------------------------------- MODULE SygusUtil -------------------------------
(***************************************************************************)
(* What SygusSplit and SygusSymBreak (src/src/theory/datatypes/            *)
(* datatypes_sygus.cpp) both take from SygusUtil: the fresh variables of   *)
(* getVar, which stand for the arguments of a generic term, and           *)
(* getNormalized, the rewriter's normal form of a term.  Both are fixed    *)
(* for a run: getVar(tn, i) always gives the same variable, and the        *)
(* rewriter is a function of the term.                                     *)
(***************************************************************************)

CONSTANTS
  FreshNames,     \* the names of the fresh variables fv_T_0, fv_T_1, ... (getVar)
  Rewrite(_),     \* getNormalized: term -> [var, nf], var: nf is a fresh variable
  Null

==============================================================================
