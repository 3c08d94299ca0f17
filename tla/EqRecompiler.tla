----------------------------- MODULE EqRecompiler -----------------------------
(***************************************************************************)
(* The dispatch of ProofArray::toStreamRecLFSC (src/src/proof/             *)
(* array_proof.cpp) on pf->d_id below the top level: a given literal       *)
(* (MERGED_THROUGH_EQUALITY), reflexivity, read-over-write (ROW and its    *)
(* negative form, ROW1), extensionality (MERGED_ARRAYS_EXT), and           *)
(* transitivity, which is the TransChain component.  Each case prints a   *)
(* proof term and returns the Node it claims the term proves.              *)
(*                                                                         *)
(* Array terms are variables, (select x k) and (store x i v); indices and  *)
(* values share one sort, so an index can itself be a select.             *)
(***************************************************************************)
EXTENDS Naturals, Sequences, FiniteSets

CONSTANTS
  Atoms, MaxLen, Ill,   \* of the transitivity component
  Leaves,               \* index, value and array variables, and skolems
  Indices,              \* index and value terms of ROW and ROW1 nodes
  Arrays,               \* array terms
  NegRowIndices,        \* index terms that a negative ROW equates
  NegRowNodeLeft,       \* the orientations of a negative ROW's node ...
  NegRowChildLeft,      \* ... and of its child, that the engine hands over
  Skolems,
  SkDiseq               \* skolem -> the array disequality it witnesses

VARIABLES
  pf,       \* the derivation: [id, node, term, child]
  phase,    \* "emit", "trans", "done", "assert"
  out,      \* the printed proof term
  ret,      \* the returned Node
  child, goal, i, n1, ss, ident, status   \* the transitivity case

T == INSTANCE TransChain

tvars == <<child, goal, i, n1, ss, ident, status>>
vars == <<pf, phase, out, ret, tvars>>

E(l, r) == [neg |-> FALSE, l |-> l, r |-> r]
Orient(u, v, o) == IF o THEN E(u, v) ELSE E(v, u)
Neg(e) == [e EXCEPT !.neg = TRUE]
Negate(e) == [e EXCEPT !.neg = ~e.neg]

Sel(x, k) == <<"select", x, k>>
Store(x, k, v) == <<"store", x, k, v>>
Kind(t) == IF t \in Leaves THEN "var" ELSE t[1]
\* n[j] of a select or store Node.
Arg(t, j) == t[j + 2]
IsSelStore(t) == Kind(t) = "select" /\ Kind(Arg(t, 0)) = "store"

(***************************************************************************)
(* Proof terms, and the LFSC rules they are checked by.                    *)
(***************************************************************************)
\* ProofManager::getLitName(n): the name of the clause literal, which
\* proves the negation of n.
Lit(n) == [rule |-> "lit", n |-> n]
\* ArrayProof::skolemToLiteral(sk): the .sl binder of the ext lemma.
SkLit(sk) == [rule |-> "sl", sk |-> sk]
Rule4(r, t1, t2, t3, t4, u) == [rule |-> r, i |-> t1, k |-> t2, a |-> t3, v |-> t4, u |-> u]
Or(f1, f2) == [or |-> <<f1, f2>>]

\* The literals a derivation may name: its given conclusion or child.
Hyps == CASE pf.id = "eq"            -> {pf.node}
          [] pf.id \in {"row", "ext"} -> {pf.child}
          [] OTHER                  -> {}

RECURSIVE Proves(_)
Proves(t) ==
  CASE t.rule = "lit"  -> IF Negate(t.n) \in Hyps THEN Negate(t.n) ELSE Ill
    \* ext a b (\ sk (\ .sl ...)): .sl is (or (= a b) (not (= (select a sk) (select b sk))))
    [] t.rule = "sl"   -> LET d == SkDiseq[t.sk] IN
                          Or(Negate(d), Neg(E(Sel(d.l, t.sk), Sel(d.r, t.sk))))
    [] t.rule = "refl" -> E(t.t, t.t)
    [] t.rule = "negsymm" ->
         LET a == Proves(t.p) IN
         IF a = Ill \/ ~a.neg THEN Ill ELSE [a EXCEPT !.l = a.r, !.r = a.l]
    \* row i k a v (i != k): (select (store a i v) k) = (select a k)
    [] t.rule = "row" ->
         IF Proves(t.u) # Neg(E(t.i, t.k)) THEN Ill
         ELSE E(Sel(Store(t.a, t.i, t.v), t.k), Sel(t.a, t.k))
    \* negativerow i k a v ((select (store a i v) k) != (select a k)): i = k
    [] t.rule = "negativerow" ->
         IF Proves(t.u) # Neg(E(Sel(Store(t.a, t.i, t.v), t.k), Sel(t.a, t.k))) THEN Ill
         ELSE E(t.i, t.k)
    \* row1 a i v: (select (store a i v) i) = v
    [] t.rule = "row1" -> E(Sel(Store(t.a, t.i, t.v), t.i), t.v)
    \* or_elim_1 (not f1) (or f1 f2): f2
    [] t.rule = "or_elim_1" ->
         LET a == Proves(t.p)
             b == Proves(t.q)
         IN IF a = Ill \/ b = Ill \/ "or" \notin DOMAIN b \/ a # Neg(b.or[1]) THEN Ill
            ELSE b.or[2]
    [] OTHER -> Ill

(***************************************************************************)
(* Inputs: the derivations the equality engine hands over (the engine is  *)
(* not under src/).  A ROW node equates (select (store x s v) t) and       *)
(* (select x t), its child proves s != t; a negative ROW node equates s   *)
(* and t, its child refutes the ROW equality; a ROW1 node equates         *)
(* (select (store x s v) s) and v; an EXT node refutes (select a sk) =     *)
(* (select b sk) for the skolem sk of the disequality a != b, its child.  *)
(***************************************************************************)
Pf(id, n, t, c) == [id |-> id, node |-> n, term |-> t, child |-> c]

IsRuleInput(p) ==
  \/ \E s \in Indices, t \in Indices : s # t /\ \E o \in BOOLEAN :
       \/ p = Pf("eq", Orient(s, t, o), Ill, Ill)
       \/ p = Pf("eq", Neg(Orient(s, t, o)), Ill, Ill)
  \/ \E t \in Indices \cup Arrays : p = Pf("refl", Ill, t, Ill)
  \/ \E x \in Arrays, s, t \in Indices, v \in Indices, o, oc \in BOOLEAN :
       s # t /\ p = Pf("row", Orient(Sel(Store(x, s, v), t), Sel(x, t), o), Ill,
                       Neg(Orient(s, t, oc)))
  \/ \E x \in Arrays, s, t \in NegRowIndices, v \in Indices,
        o \in NegRowNodeLeft, oc \in NegRowChildLeft :
       s # t /\ p = Pf("row", Orient(s, t, o), Ill,
                       Neg(Orient(Sel(Store(x, s, v), t), Sel(x, t), oc)))
  \/ \E x \in Arrays, s, v \in Indices, o \in BOOLEAN :
       p = Pf("row1", Orient(Sel(Store(x, s, v), s), v, o), Ill, Ill)
  \/ \E sk \in Skolems :
       LET d == SkDiseq[sk] IN
       p = Pf("ext", Neg(E(Sel(d.l, sk), Sel(d.r, sk))), Ill, d)

------------------------------------------------------------------------------

\* The transitivity case starts as TransChain starts; any other case has
\* the component idle.
Init ==
  /\ out = Ill /\ ret = Ill
  /\ \/ /\ pf = Pf("trans", Ill, Ill, Ill) /\ phase = "trans"
        /\ T!Init
     \/ /\ IsRuleInput(pf) /\ phase = "emit"
        /\ child = <<>> /\ goal = Ill /\ i = 2 /\ n1 = Ill /\ ss = Ill
        /\ ident = FALSE /\ status = "idle"

Emit(o, r) == out' = o /\ ret' = r /\ phase' = "done"
Fail == phase' = "assert" /\ UNCHANGED <<out, ret>>

\* MERGED_THROUGH_EQUALITY (lines 542-548): the literal's name.
EmitEquality ==
  /\ phase = "emit" /\ pf.id = "eq"
  /\ Emit(Lit(Negate(pf.node)), pf.node)
  /\ UNCHANGED <<pf, tvars>>

\* MERGED_THROUGH_REFLEXIVITY (lines 533-540).
EmitRefl ==
  /\ phase = "emit" /\ pf.id = "refl"
  /\ Emit([rule |-> "refl", t |-> pf.term], E(pf.term, pf.term))
  /\ UNCHANGED <<pf, tvars>>

\* Mutant of EmitRow: the child's orientation is tested on the wrong side.
EmitRowChildSideSwapped ==
  /\ phase = "emit" /\ pf.id = "row" /\ Kind(pf.node.r) = "select"
  /\ LET l == pf.node.l
         r == pf.node.r
         first == /\ IsSelStore(r) /\ Kind(l) = "select"
                  /\ Arg(l, 0) = Arg(Arg(r, 0), 0) /\ Arg(l, 1) = Arg(r, 1)
         mirror == /\ IsSelStore(l) /\ Kind(r) = "select"
                   /\ Arg(r, 0) = Arg(Arg(l, 0), 0) /\ Arg(r, 1) = Arg(l, 1)
         st == IF first THEN r ELSE l
         t1 == Arg(IF first THEN l ELSE r, 0)
         t2 == Arg(Arg(st, 0), 1)
         t3 == Arg(st, 1)
         t4 == Arg(Arg(st, 0), 2)
         sub == Lit(Negate(pf.child))
         u == IF pf.child.l = t3 THEN sub ELSE [rule |-> "negsymm", p |-> sub]
     IN IF ~first /\ ~mirror THEN Fail
        ELSE Emit(Rule4("row", t2, t3, t1, t4, u),
                  IF first THEN E(r, l) ELSE pf.node)
  /\ UNCHANGED <<pf, tvars>>

\* MERGED_ARRAYS_ROW with a select on the right (lines 829-887): the two
\* mirror shapes give t1..t4; the child's disequality is flipped with
\* negsymm unless its right side is the outer index t3.
EmitRow ==
  /\ phase = "emit" /\ pf.id = "row" /\ Kind(pf.node.r) = "select"
  /\ LET l == pf.node.l
         r == pf.node.r
         first == /\ IsSelStore(r) /\ Kind(l) = "select"
                  /\ Arg(l, 0) = Arg(Arg(r, 0), 0) /\ Arg(l, 1) = Arg(r, 1)
         mirror == /\ IsSelStore(l) /\ Kind(r) = "select"
                   /\ Arg(r, 0) = Arg(Arg(l, 0), 0) /\ Arg(r, 1) = Arg(l, 1)
         st == IF first THEN r ELSE l
         t1 == Arg(IF first THEN l ELSE r, 0)
         t2 == Arg(Arg(st, 0), 1)
         t3 == Arg(st, 1)
         t4 == Arg(Arg(st, 0), 2)
         sub == Lit(Negate(pf.child))
         u == IF pf.child.r = t3 THEN sub ELSE [rule |-> "negsymm", p |-> sub]
     IN IF ~first /\ ~mirror THEN Fail
        ELSE Emit(Rule4("row", t2, t3, t1, t4, u),
                  IF first THEN E(r, l) ELSE pf.node)
  /\ UNCHANGED <<pf, tvars>>

\* The negative ROW (lines 888-967): the node is i == k; the side of the
\* child that is the select over a store gives the array and the value;
\* the child's proof is printed as it is.
EmitNegativeRow ==
  /\ phase = "emit" /\ pf.id = "row" /\ Kind(pf.node.r) # "select"
  /\ LET c == pf.child
         side == IF IsSelStore(c.l) THEN c.l ELSE c.r
     IN IF ~IsSelStore(c.l) /\ ~IsSelStore(c.r) THEN Fail
        ELSE Emit(Rule4("negativerow", pf.node.l, pf.node.r, Arg(Arg(side, 0), 0),
                        Arg(Arg(side, 0), 2), Lit(Negate(c))),
                  pf.node)
  /\ UNCHANGED <<pf, tvars>>

\* MERGED_ARRAYS_ROW1 (lines 970-1003).
EmitRow1 ==
  /\ phase = "emit" /\ pf.id = "row1"
  /\ LET l == pf.node.l
         r == pf.node.r
         first == IsSelStore(r) /\ Arg(Arg(r, 0), 1) = Arg(r, 1) /\ Arg(Arg(r, 0), 2) = l
         mirror == IsSelStore(l) /\ Arg(Arg(l, 0), 1) = Arg(l, 1) /\ Arg(Arg(l, 0), 2) = r
         st == IF first THEN r ELSE l
     IN IF ~first /\ ~mirror THEN Fail
        ELSE Emit([rule |-> "row1", a |-> Arg(Arg(st, 0), 0), i |-> Arg(Arg(st, 0), 1),
                   v |-> IF first THEN l ELSE r],
                  IF first THEN E(r, l) ELSE pf.node)
  /\ UNCHANGED <<pf, tvars>>

\* MERGED_ARRAYS_EXT (lines 1005-1032): or_elim_1 over the child's literal
\* and the skolem's .sl binder, the skolem read off the node.
EmitExt ==
  /\ phase = "emit" /\ pf.id = "ext"
  /\ Emit([rule |-> "or_elim_1", p |-> Lit([pf.child EXCEPT !.neg = FALSE]),
           q |-> SkLit(Arg(pf.node.l, 1))],
          pf.node)
  /\ UNCHANGED <<pf, tvars>>

\* MERGED_THROUGH_TRANS: one step of the TransChain component.
TransStep ==
  /\ phase = "trans"
  /\ T!IdenticalRunStart \/ T!IdenticalRunContinue \/ T!Chain \/ T!Return
  /\ UNCHANGED <<pf, phase, out, ret>>

Stopped == phase \in {"done", "assert"} \/ status \in {"done", "assert", "unreachable"}

Halted ==
  /\ Stopped
  /\ UNCHANGED vars

Next ==
  \/ EmitEquality \/ EmitRefl \/ EmitRow \/ EmitNegativeRow \/ EmitRow1 \/ EmitExt
  \/ TransStep \/ Halted

Spec == Init /\ [][Next]_vars

------------------------------------------------------------------------------
(***************************************************************************)
(* Properties                                                              *)
(***************************************************************************)

TypeOK ==
  /\ phase \in {"emit", "trans", "done", "assert"}
  /\ pf.id \in {"eq", "refl", "row", "row1", "ext", "trans"}
  /\ pf.id = "trans" => T!TypeOK

\* What the derivation concludes: d_node, or t = t for reflexivity.
Conclusion(p) == IF p.id = "refl" THEN E(p.term, p.term) ELSE p.node

SameUpToSymm(a, b) == a.neg = b.neg /\ {a.l, a.r} = {b.l, b.r}

\* Every array rule the engine can hand over is printed without reaching
\* an Assert, and what is printed checks: it proves exactly the Node the
\* call returns, and that Node is the derivation's conclusion up to
\* symmetry.  This covers the choice between ROW and negative ROW by the
\* kind of d_node[1], the positional extraction of the four terms from
\* either mirror shape, the negsymm test against the outer index, and the
\* skolem's .sl binder in EXT.
RulesCheck ==
  /\ phase # "assert"
  /\ phase = "done" => Proves(out) = ret /\ SameUpToSymm(ret, Conclusion(pf))

\* The transitivity case: after every child, the printed prefix proves
\* exactly n1 (TransChain!TransPrefixProvesN1).
TransPrefixProvesN1 == pf.id = "trans" => T!TransPrefixProvesN1

\* The transitivity case reaches no Assert or Unreachable on a walk of
\* given equalities with at most one disequality.
TransNeverFails == pf.id = "trans" => T!TransNeverFails

==============================================================================
