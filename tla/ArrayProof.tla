------------------------------ MODULE ArrayProof ------------------------------
(***************************************************************************)
(* ProofArray::toStreamRecLFSC (src/src/proof/array_proof.cpp) as one     *)
(* function: the top-level call (tb = 0, ArrayContra) on a conflict, and  *)
(* the calls below it (tb > 0, EqRecompiler) on one derivation each.  Both *)
(* share the transitivity case (TransChain) and the printed term.          *)
(***************************************************************************)
CONSTANTS
  Atoms, MaxLen, Ill, Leaves, Indices, Arrays, NegRowIndices,
  NegRowNodeLeft, NegRowChildLeft, Skolems, SkDiseq,   \* of EqRecompiler
  TopAtoms, TopMaxLen, MaxCong, NegKinds              \* of ArrayContra

VARIABLES pf, phase, out, ret, raw, negIdx, child, goal, i, n1, ss, ident, status

ER == INSTANCE EqRecompiler
AC == INSTANCE ArrayContra WITH Atoms <- TopAtoms, MaxLen <- TopMaxLen

vars == <<pf, phase, out, ret, raw, negIdx, child, goal, i, n1, ss, ident, status>>

\* The derivation field of a top-level call.
Top == ER!Pf("top", Ill, Ill, Ill)

\* toStreamRecLFSC is entered at tb = 0 on a conflict or at tb > 0 on a
\* derivation.
Init ==
  \/ ER!Init /\ raw = <<>> /\ negIdx = 0
  \/ AC!Init /\ pf = Top /\ ret = Ill

Below == pf # Top /\ ER!Next /\ UNCHANGED <<raw, negIdx>>
TopLevel == pf = Top /\ AC!Next /\ UNCHANGED <<pf, ret>>

Next == Below \/ TopLevel

Spec == Init /\ [][Next]_vars

------------------------------------------------------------------------------
\* The properties of the two cases, each on its own calls.

TypeOK == pf # Top => ER!TypeOK

\* Every array rule below the top level prints a term that checks and
\* concludes its derivation (EqRecompiler!RulesCheck).
RulesCheck == pf # Top => ER!RulesCheck

\* In a transitivity call below the top level, the printed prefix proves
\* exactly n1 after every child (TransChain!TransPrefixProvesN1).
TransPrefixProvesN1 == pf # Top => ER!TransPrefixProvesN1

\* A transitivity call below the top level reaches no Assert or
\* Unreachable (TransChain!TransNeverFails).
TransNeverFails == pf # Top => ER!TransNeverFails

\* The top-level call repacks the congruence runs, proves subTrans and
\* prints a contra that checks (ArrayContra!TopLevelRefutes).
TopLevelRefutes == pf = Top => AC!TopLevelRefutes

==============================================================================
