----------------------------- MODULE ProofPreamble -----------------------------
(***************************************************************************)
(* What LFSCTheoryProofEngine (src/src/proof/theory_proof.cpp) prints     *)
(* before the theory lemmas: the declarations of every registered sort    *)
(* and symbol (Registration), and the assertions with their shared        *)
(* subterms let-bound (SharingPass).  The two passes share no state: the  *)
(* registration cache and the certifiers' tables on one side, the         *)
(* occurrence count of printLetTerm on the other.  They are checked side  *)
(* by side in one specification: the initial state picks which pass runs,*)
(* and the other keeps its initial values.                                 *)
(***************************************************************************)
CONSTANTS
  UVars, Skolems, ArrVars, BoolVars, Funs, MarkChoices,   \* of Registration
  Leaves, Ill,                                            \* of SharingPass
  NumAsserts                                              \* of both

VARIABLES
  part,                                                 \* "reg" or "share"
  assertion, marks, reg, k, phase, skolemDecls, skolemToLit, out,
  letAssertion, letK, counter, letOut

R == INSTANCE Registration
S == INSTANCE SharingPass WITH assertion <- letAssertion, k <- letK,
                               out <- letOut

rvars == <<assertion, marks, reg, k, phase, skolemDecls, skolemToLit, out>>
svars == <<letAssertion, letK, counter, letOut>>
vars == <<part, rvars, svars>>

Init ==
  \/ /\ part = "reg" /\ R!Init
     /\ letAssertion = <<>> /\ letK = 1 /\ counter = 0 /\ letOut = <<>>
  \/ /\ part = "share" /\ S!Init
     /\ assertion = <<>> /\ marks = <<>> /\ reg = <<>> /\ k = 1
     /\ phase = "done" /\ skolemDecls = {} /\ skolemToLit = <<>> /\ out = <<>>

Next ==
  \/ part = "reg" /\ R!Next /\ UNCHANGED <<part, svars>>
  \/ part = "share" /\ S!Next /\ UNCHANGED <<part, rvars>>

Spec == Init /\ [][Next]_vars

------------------------------------------------------------------------------
\* The properties of each pass, on its own behaviours.

\* The registration tables hold only what registerTerm may record
\* (Registration!TypeOK).
TypeOK == part = "reg" => R!TypeOK

\* Every variable and function symbol of an assertion is declared before
\* the assertions are printed (Registration!SymbolsDeclared).
SymbolsDeclared == part = "reg" => R!SymbolsDeclared

\* Every extensionality skolem is declared by the array certifier with its
\* own .sl literal name (Registration!SkolemsNamed).
SkolemsNamed == part = "reg" => R!SkolemsNamed

\* The let-shared text of every assertion means exactly the assertion,
\* with every let name bound before use (SharingPass!LetTermFaithful).
LetTermFaithful == part = "share" => S!LetTermFaithful

==============================================================================
