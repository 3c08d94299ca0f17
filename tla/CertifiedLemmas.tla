--------------------------- MODULE CertifiedLemmas --------------------------
(***************************************************************************)
(* What printTheoryLemmas promises the SAT-level proof that consumes it:   *)
(* the theory lemmas are bound in ClauseId order, each exactly once, and   *)
(* the name of lemma l stands for exactly the conflict clause of l.  A     *)
(* fatal error may stop the printing at any point.                         *)
(***************************************************************************)
EXTENDS Naturals

CONSTANTS
  LemmaIds,   \* ClauseIds of the theory lemmas, 1..n
  None        \* "no binder yet"

VARIABLES
  lemmaClause,  \* ClauseId -> its conflict clause (input)
  bound,        \* ClauseId -> the clause its name stands for, or None
  stopped       \* a fatal error ended the printing

avars == <<lemmaClause, bound, stopped>>

AInit ==
  /\ bound = [l \in LemmaIds |-> None]
  /\ stopped = FALSE

\* The next lemma in ClauseId order gets a proof of its own clause.
BindLemma(l) ==
  /\ ~stopped
  /\ bound[l] = None
  /\ \A k \in LemmaIds : k < l => bound[k] # None
  /\ bound' = [bound EXCEPT ![l] = lemmaClause[l]]
  /\ UNCHANGED <<lemmaClause, stopped>>

Stop ==
  /\ ~stopped
  /\ stopped' = TRUE
  /\ UNCHANGED <<lemmaClause, bound>>

ANext == \E l \in LemmaIds : BindLemma(l) \/ Stop

ASpec == AInit /\ [][ANext]_avars

==============================================================================
