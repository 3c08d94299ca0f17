------------------------- MODULE MCLemmaAssembler -------------------------
(* Model-checking instance of LemmaAssembler: two lemmas, recipes of up to *)
(* three steps, one literal that a step may miss and that the clause of   *)
(* another lemma may contain.                                             *)
EXTENDS LemmaAssembler

CONSTANTS c1, m1, s1, s2

MCClauseLits == {<<c1, TRUE>>, <<m1, TRUE>>}
MCStepAtom == <<s1, s2>>
MCMissingLits == {<<m1, TRUE>>}
MCMaxSteps == <<3, 2>>
\* One lemma of up to two steps, for the runs that look for a single fault.
MCMaxStepsSmall == <<2>>
==============================================================================
