--------------------------- MODULE LemmaAssembler ---------------------------
(***************************************************************************)
(* The theory-lemma printing loop of LFSCTheoryProofEngine                 *)
(* (src/src/proof/theory_proof.cpp): finalizeBvConflicts, then for every   *)
(* conflict clause in ClauseId order either one "satlem" (simple recipe)   *)
(* or one "satlem" per proof step followed by a right-nested R/Q           *)
(* resolution fold (composite recipe).  Around every certifier call the    *)
(* rewrite filters of the step's missing assertions are installed in the   *)
(* proof manager and cleared afterwards.                                   *)
(*                                                                         *)
(* Terms are abstracted to atoms; a literal is <<atom, polarity>>; a       *)
(* clause is a set of literals (the SAT clause and its Expr vector hold    *)
(* the same literals).  The emitted text is abstracted to a sequence of    *)
(* binders: the name a "(\ name" binds, with the clause or the resolution  *)
(* term it stands for.                                                     *)
(***************************************************************************)
EXTENDS Naturals, Sequences, FiniteSets, TLC

CONSTANTS
  NumLemmas,     \* number of theory lemmas (conflict clauses) to print
  MaxSteps,      \* MaxSteps[l]: longest recipe (proof steps) of lemma l
  ClauseLits,    \* literals a conflict clause is made of
  StepAtom,      \* StepAtom[i]: the atom of the literal step i propagates
  MissingLits,   \* pre-rewrite literals that a step may miss
  Theories,      \* theory ids that own recipe steps
  Registered,    \* theory ids for which registerTheory created a certifier
  NullLit,       \* the null Node of the final step
  Ill,           \* what a checker makes of a binder that does not check
  NoBinder       \* "this lemma has no binder yet"

ASSUME NumLemmas \in Nat \ {0} /\ MaxSteps \in [1..NumLemmas -> Nat \ {0}]
ASSUME Registered \subseteq {"UF", "ARRAY", "BV", "ARITH"}

VARIABLES
  recipe,     \* ClauseId -> LemmaProofRecipe (read-only input)
  bvBatch,    \* clauses handed to BitVectorProof::finalizeConflicts
  phase,      \* where the printing loop is
  lem,        \* the ClauseId being printed
  stp,        \* the proof step being printed (composite recipes)
  clause,     \* currentClause: the clause the satlem states
  given,      \* currentClauseExpr: the clause handed to the certifier
  filters,    \* ProofManager::d_rewriteFilters: missing literal -> explanation
  out,        \* the binders emitted so far
  error       \* the fatal error that stopped the printing, if any

vars == <<recipe, bvBatch, phase, lem, stp, clause, given, filters, out, error>>

LemmaIds == 1..NumLemmas

Lit(a, pol) == <<a, pol>>
Negate(l) == <<l[1], ~l[2]>>
StepLits == {Lit(StepAtom[i], p) : i \in DOMAIN StepAtom, p \in BOOLEAN}

(***************************************************************************)
(* A recipe: the conflict clause, and its steps in order.  Every step but  *)
(* the last proves a literal over a fresh atom; the last step's literal is *)
(* null and its theory is the owner (lemma_proof.h).  A step's missing     *)
(* assertions are pairs <<m, e>>: m is the literal the theory needs, e its *)
(* rewritten explanation, which occurs in the step's partial clause.       *)
(***************************************************************************)
Clauses == SUBSET ClauseLits \ {{}}

\* The step literals are over distinct fresh atoms; which atom is which is
\* immaterial, so step i uses StepAtom[i].
StepLitSeqs(n) ==
  {[i \in 1..n |-> Lit(StepAtom[i], pol[i])] : pol \in [1..n -> BOOLEAN]}

\* Partial clause of step i (theory_proof.cpp, the composite loop): the
\* original literals, the negation of every earlier step's literal, and the
\* step's own literal unless it is null.
PartialClause(c, steps, i) ==
  c \cup {Negate(steps[j].lit) : j \in 1..(i - 1)}
    \cup (IF steps[i].lit = NullLit THEN {} ELSE {steps[i].lit})

RecipesOf(c, maxSteps) ==
  UNION {
    LET lits == StepLitSeqs(n - 1)
    IN {[clause |-> c,
         steps  |-> [i \in 1..n |->
                       [theory  |-> th[i],
                        lit     |-> IF i < n THEN l[i] ELSE NullLit,
                        missing |-> IF i = k THEN {mi} ELSE {}]]] :
          th \in [1..n -> Theories], l \in lits, k \in 0..n,
          mi \in MissingLits \X (ClauseLits \cup StepLits)}
    : n \in 1..maxSteps}

\* Recipes whose missing assertion, if any, explains a literal of its step
\* and is not itself in it.
WellFormed(r) ==
  \A i \in DOMAIN r.steps : \A mi \in r.steps[i].missing :
    /\ mi[2] \in PartialClause(r.clause, r.steps, i)
    /\ mi[1] \notin PartialClause(r.clause, r.steps, i)
    /\ Negate(mi[1]) \notin PartialClause(r.clause, r.steps, i)

Recipes(maxSteps) ==
  {r \in UNION {RecipesOf(c, maxSteps) : c \in Clauses} : WellFormed(r)}

RecipeChoice == [l \in LemmaIds |-> Recipes(MaxSteps[l])]

NumSteps(l) == Len(recipe[l].steps)
Step(l, i) == recipe[l].steps[i]
Simple(l) == NumSteps(l) = 1

\* The clause handed to the certifier: each explanation is replaced by the
\* missing assertion it stands for (clause_expr[k] = *missingAssertion).
Replace(c, missing) ==
  (c \ {mi[2] : mi \in missing}) \cup {mi[1] : mi \in missing}

\* Mutant: the filter is keyed by the name of the explanation instead of
\* the name of the missing assertion.
MissingMapByExplanation(missing) ==
  [e \in {mi[2] : mi \in missing} |-> (CHOOSE mi \in missing : mi[2] = e)[1]]

\* The rewrite filters a step turns on, as a map (the later entry wins).
MissingMap(missing) == [m \in {mi[1] : mi \in missing} |->
                          (CHOOSE mi \in missing : mi[1] = m)[2]]

NoFilters == [m \in {} |-> m]

\* The names "<clauseName>s<i>" and "<clauseName>".
StepName(l, i) == [lemma |-> l, step |-> i]
LemmaName(l) == [lemma |-> l, step |-> 0]

\* The clauses finalizeBvConflicts collects: one per BV step of every
\* recipe, built as the partial clause of the step (no missing-assertion
\* replacement).
BvLemmas ==
  UNION {{PartialClause(recipe[l].clause, recipe[l].steps, i) :
            i \in {j \in DOMAIN recipe[l].steps :
                     recipe[l].steps[j].theory = "BV"}} : l \in LemmaIds}

\* The resolution term "(satlem_simplify _ _ _ (R _ _ s0 (R ... ) v0) ..."
\* printed for a composite recipe: step i is resolved against the fold of
\* the steps after it on the atom of step i's literal, with Q when that
\* literal is a negation.
RECURSIVE FoldTerm(_, _, _)
FoldTerm(l, i, n) ==
  IF i = n THEN StepName(l, n)
  ELSE [op |-> IF Step(l, i).lit[2] THEN "R" ELSE "Q",
        c1 |-> StepName(l, i),
        c2 |-> FoldTerm(l, i + 1, n),
        v  |-> Step(l, i).lit[1]]

(***************************************************************************)
(* The certifier of a theory (getTheoryProof and printTheoryLemmaProof):  *)
(* the proof it emits for a clause, or "abort" for a fatal error.          *)
(***************************************************************************)
CertifierOutcome(th, c) ==
  CASE th \notin Registered            -> "unregistered"
    [] th = "BV" /\ c \notin bvBatch   -> "bv_unfinalized"
    [] th \in {"UF", "ARITH"}          -> "trust"
    [] th = "BV"                       -> "bv"
    [] OTHER                           -> "replay"

Entry(n, c, g, th, f, pf, t) ==
  [name |-> n, clause |-> c, given |-> g, theory |-> th,
   filters |-> f, proof |-> pf, term |-> t]

------------------------------------------------------------------------------

Init ==
  /\ recipe \in {r \in [LemmaIds -> UNION {RecipeChoice[l] : l \in LemmaIds}] :
                  \A l \in LemmaIds : r[l] \in RecipeChoice[l]}
  /\ bvBatch = {}
  /\ phase = "finalize"
  /\ lem = 1
  /\ stp = 1
  /\ clause = {}
  /\ given = {}
  /\ filters = NoFilters
  /\ out = <<>>
  /\ error = "none"

\* finalizeBvConflicts: the BV conflicts of all lemmas are collected and
\* handed to the BV prover before any lemma is printed.
FinalizeBvConflicts ==
  /\ phase = "finalize"
  /\ bvBatch' = BvLemmas
  /\ phase' = "lemma"
  /\ UNCHANGED <<recipe, lem, stp, clause, given, filters, out, error>>

\* A simple lemma: the clause itself, the missing assertions of step 0
\* replaced and their rewrite filters turned on.
BeginSimpleLemma ==
  /\ phase = "lemma"
  /\ lem \in LemmaIds
  /\ Simple(lem)
  /\ clause' = recipe[lem].clause
  /\ given' = Replace(recipe[lem].clause, Step(lem, 1).missing)
  /\ filters' = MissingMap(Step(lem, 1).missing) @@ filters
  /\ stp' = 1
  /\ phase' = "certify"
  /\ UNCHANGED <<recipe, bvBatch, lem, out, error>>

\* One step of a composite lemma: its partial clause, its missing
\* assertions replaced and their filters turned on.
BeginStep ==
  /\ \/ phase = "lemma" /\ lem \in LemmaIds /\ ~Simple(lem) /\ stp' = 1
     \/ phase = "nextstep" /\ stp' = stp + 1
  /\ LET c == PartialClause(recipe[lem].clause, recipe[lem].steps, stp')
     IN /\ clause' = c
        /\ given' = Replace(c, Step(lem, stp').missing)
  /\ filters' = MissingMap(Step(lem, stp').missing) @@ filters
  /\ phase' = "certify"
  /\ UNCHANGED <<recipe, bvBatch, lem, out, error>>

\* Mutant: the rewrite filters are not cleared after the certifier call.
CertifyKeepingFilters ==
  /\ phase = "certify"
  /\ LET th == IF Simple(lem) THEN recipe[lem].steps[NumSteps(lem)].theory
                              ELSE Step(lem, stp).theory
         pf == CertifierOutcome(th, given)
         nm == IF Simple(lem) THEN LemmaName(lem) ELSE StepName(lem, stp)
     IN IF pf \in {"unregistered", "bv_unfinalized"}
        THEN /\ phase' = "aborted"
             /\ error' = pf
             /\ UNCHANGED <<filters, out, lem>>
        ELSE /\ out' = Append(out, Entry(nm, clause, given, th, filters, pf, nm))
             /\ filters' = filters
             /\ error' = error
             /\ phase' = CASE Simple(lem)          -> "lemma"
                           [] stp < NumSteps(lem)  -> "nextstep"
                           [] OTHER                -> "fold"
             /\ lem' = IF Simple(lem) THEN lem + 1 ELSE lem
  /\ UNCHANGED <<recipe, bvBatch, stp, clause, given>>

\* The certifier prints its proof of the clause (the owner theory of a
\* simple recipe, the step's theory otherwise), the filters are turned
\* off, and the satlem binds its name.
Certify ==
  /\ phase = "certify"
  /\ LET th == IF Simple(lem) THEN recipe[lem].steps[NumSteps(lem)].theory
                              ELSE Step(lem, stp).theory
         pf == CertifierOutcome(th, given)
         nm == IF Simple(lem) THEN LemmaName(lem) ELSE StepName(lem, stp)
     IN IF pf \in {"unregistered", "bv_unfinalized"}
        THEN /\ phase' = "aborted"
             /\ error' = pf
             /\ UNCHANGED <<filters, out, lem>>
        ELSE /\ out' = Append(out, Entry(nm, clause, given, th, filters, pf, nm))
             /\ filters' = NoFilters
             /\ error' = error
             /\ phase' = CASE Simple(lem)          -> "lemma"
                           [] stp < NumSteps(lem)  -> "nextstep"
                           [] OTHER                -> "fold"
             /\ lem' = IF Simple(lem) THEN lem + 1 ELSE lem
  /\ UNCHANGED <<recipe, bvBatch, stp, clause, given>>

\* The partial proofs are resolved into the lemma's own name.
Fold ==
  /\ phase = "fold"
  /\ out' = Append(out, Entry(LemmaName(lem), {}, {}, "none", NoFilters, "fold",
                              FoldTerm(lem, 1, NumSteps(lem))))
  /\ lem' = lem + 1
  /\ phase' = "lemma"
  /\ UNCHANGED <<recipe, bvBatch, stp, clause, given, filters, error>>

Finish ==
  /\ phase = "lemma"
  /\ lem = NumLemmas + 1
  /\ phase' = "done"
  /\ UNCHANGED <<recipe, bvBatch, lem, stp, clause, given, filters, out, error>>

\* The printing has ended (normally or by a fatal error).
Halted ==
  /\ phase \in {"done", "aborted"}
  /\ UNCHANGED vars

Next ==
  \/ FinalizeBvConflicts
  \/ BeginSimpleLemma
  \/ BeginStep
  \/ Certify
  \/ Fold
  \/ Finish
  \/ Halted

Spec == Init /\ [][Next]_vars


------------------------------------------------------------------------------
(***************************************************************************)
(* What the proof checker makes of the binders (reference semantics of the *)
(* LFSC side conditions, not of the code).                                 *)
(***************************************************************************)

\* A satlem proves the clause the certifier refuted, with every literal
\* whose name a rewrite filter redirects replaced by the explanation the
\* filter derives it from.  It checks only if that is the clause it states.
Restore(g, f) == {IF l \in DOMAIN f THEN f[l] ELSE l : l \in g}

SatlemClause(e) == IF Restore(e.given, e.filters) = e.clause THEN e.clause
                                                             ELSE Ill

\* The clause a name stands for among the first k binders (the innermost
\* binder of that name wins).
Lookup(n, k) ==
  LET js == {j \in 1..k : out[j].name = n}
  IN IF js = {} THEN Ill
     ELSE SatlemClause(out[CHOOSE j \in js : \A i \in js : i <= j])

\* (R c1 c2 v): c1 holds v, c2 holds ~v; (Q c1 c2 v): the other way round.
RECURSIVE Resolve(_, _)
Resolve(t, k) ==
  IF "op" \notin DOMAIN t THEN Lookup(t, k)
  ELSE LET a == Resolve(t.c1, k)
           b == Resolve(t.c2, k)
           p == Lit(t.v, t.op = "R")
       IN IF a = Ill \/ b = Ill THEN Ill
          ELSE IF p \notin a \/ Negate(p) \notin b THEN Ill
          ELSE (a \ {p}) \cup (b \ {Negate(p)})

BoundClause(k) ==
  IF out[k].proof = "fold" THEN Resolve(out[k].term, k - 1)
                           ELSE SatlemClause(out[k])

\* The refinement mapping: the clause the name of each lemma stands for.
BoundOf(l) ==
  LET ks == {k \in DOMAIN out : out[k].name = LemmaName(l)}
  IN IF ks = {} THEN NoBinder ELSE BoundClause(CHOOSE k \in ks : TRUE)

Abstract == INSTANCE CertifiedLemmas WITH
              LemmaIds    <- LemmaIds,
              None        <- NoBinder,
              lemmaClause <- [l \in LemmaIds |-> recipe[l].clause],
              bound       <- [l \in LemmaIds |-> BoundOf(l)],
              stopped     <- phase = "aborted"

(***************************************************************************)
(* Properties                                                              *)
(***************************************************************************)

TypeOK ==
  /\ phase \in {"finalize", "lemma", "nextstep", "certify", "fold",
                "done", "aborted"}
  /\ lem \in 1..(NumLemmas + 1)
  /\ stp \in UNION {1..MaxSteps[l] : l \in LemmaIds}
  /\ error \in {"none", "unregistered", "bv_unfinalized"}
  /\ DOMAIN filters \subseteq MissingLits

\* The printing loop implements CertifiedLemmas: lemma names are bound in
\* ClauseId order, once each, and what a checker derives for the name of a
\* lemma (its satlem under the rewrite filters active at the certifier call,
\* or the R/Q fold over its partial proofs) is exactly its conflict clause.
\* This covers the missing-assertion replacement, the filter clearing after
\* every certifier call, the partial clauses and the resolution fold.
ImplementsCertifiedLemmas == Abstract!ASpec

\* Spec, section 4.5: the BV prover is handed, before any lemma is printed,
\* every BV conflict it will later be asked to prove.
BvConflictsFinalized == error # "bv_unfinalized"

==============================================================================
