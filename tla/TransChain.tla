------------------------------ MODULE TransChain ------------------------------
(***************************************************************************)
(* The MERGED_THROUGH_TRANS case of ProofArray::toStreamRecLFSC            *)
(* (src/src/proof/array_proof.cpp): an equality-engine transitivity proof  *)
(* whose children are given equalities (MERGED_THROUGH_EQUALITY, at most   *)
(* one of them a disequality) is printed as a chain of LFSC trans,         *)
(* negtrans1/2, symm and negsymm terms.  The loop keeps n1, the equality   *)
(* proven so far, and ss, the text proving it; runs of children identical *)
(* to n1 are collapsed by the parity of their length.                      *)
(*                                                                         *)
(* Terms are uninterpreted constants: no operator, no children.  An (dis)  *)
(* equality Node is a record; the printed text is the proof term it        *)
(* denotes.                                                                *)
(***************************************************************************)
EXTENDS Naturals, Sequences, FiniteSets

CONSTANTS
  Atoms,      \* the terms the equalities relate
  MaxLen,     \* most children of a transitivity proof
  Ill         \* what the checker makes of a term that does not check

ASSUME MaxLen \in Nat /\ MaxLen >= 2

VARIABLES
  child,      \* pf->d_children[k]->d_node, the given (dis)equalities
  goal,       \* pf->d_node
  i,          \* the loop index over the children
  n1,         \* Node n1: what the printed prefix proves
  ss,         \* std::stringstream ss: the printed prefix
  ident,      \* identicalEqualities
  status      \* "run", "done", or the failure that ended the call

vars == <<child, goal, i, n1, ss, ident, status>>

\* eqNode(a, b), and the polarity flip of line 812.
EqNode(a, b) == [neg |-> FALSE, l |-> a, r |-> b]
Flip(e) == [e EXCEPT !.neg = ~e.neg]

(***************************************************************************)
(* match (lines 33-90) on terms without operator: the two are equal, or    *)
(* the loop over their common children (line 80) has nothing to compare   *)
(* and match returns true.  An equality has the two sides as children.     *)
(***************************************************************************)
Arity(t) == IF t \in Atoms THEN 0 ELSE 2
Match(t1, t2) == t1 = t2 \/ Arity(t1) = 0 \/ Arity(t2) = 0

\* The first side of the goal as the code reads it: pf->d_node[0] is the
\* equality itself when d_node is a NOT.
Side(e, k) == IF e.neg THEN [neg |-> FALSE, l |-> e.l, r |-> e.r]
              ELSE IF k = 0 THEN e.l ELSE e.r

\* The test of lines 599 and 617: both are equalities with the same sides
\* in either order.  A NOT never passes it (its child 0 is an equality).
Identical(a, b) ==
  /\ ~a.neg /\ ~b.neg
  /\ \/ a.l = b.l /\ a.r = b.r
     \/ a.l = b.r /\ a.r = b.l

(***************************************************************************)
(* Proof terms: Hyp(k) is the literal name of child k (line 547).          *)
(***************************************************************************)
Hyp(k) == [rule |-> "hyp", k |-> k]
P1(r, p) == [rule |-> r, p |-> p]
P2(r, p, q) == [rule |-> r, p |-> p, q |-> q]

\* The first index at or after i + 1 whose child is not identical to n,
\* or Len(child) + 1: the lookahead loop of lines 616-630.
RunEnd(j0, n) ==
  CHOOSE j \in (j0 + 1)..(Len(child) + 1) :
    /\ \A k \in (j0 + 1)..(j - 1) : Identical(child[k], n)
    /\ j <= Len(child) => ~Identical(child[j], n)

(***************************************************************************)
(* The inputs: walks v0, v1, ..., vn through Atoms, each edge given in    *)
(* either orientation, at most one of them a disequality; the goal is the *)
(* equality of the two ends (negated if a disequality occurs).  A given  *)
(* equality relates two distinct terms.  A walk that returns to a term    *)
(* comes from the congruence repacking at tb = 0 (lines 141-217), which  *)
(* only handles positive children; a chain with a disequality is an       *)
(* explanation path of the equality engine and visits a term once.        *)
(***************************************************************************)
\* Sequences of n + 1 terms, each different from the one before.
RECURSIVE TermWalks(_)
TermWalks(n) ==
  IF n = 0 THEN {<<t>> : t \in Atoms}
  ELSE UNION {{v \o <<t>> : t \in Atoms \ {v[Len(v)]}} : v \in TermWalks(n - 1)}

IsSimple(v) == Cardinality({v[k] : k \in DOMAIN v}) = Len(v)

\* Walk v (terms v[1..n+1]) given with orientations o and the disequality
\* at position ng (0: none).
WalkInput(v, o, ng) ==
  LET n == Len(v) - 1 IN
  [w |-> [k \in 1..n |->
            [neg |-> k = ng,
             l   |-> IF o[k] THEN v[k] ELSE v[k + 1],
             r   |-> IF o[k] THEN v[k + 1] ELSE v[k]]],
   g |-> [neg |-> ng > 0, l |-> v[1], r |-> v[n + 1]]]

\* Where a walk may carry its disequality.
NegPositions(v) == IF IsSimple(v) THEN 0..(Len(v) - 1) ELSE {0}

Walks ==
  UNION {UNION {{WalkInput(v, o, ng) : o \in [1..(Len(v) - 1) -> BOOLEAN],
                                       ng \in NegPositions(v)}
                : v \in TermWalks(n)}
         : n \in 2..MaxLen}

------------------------------------------------------------------------------

Init ==
  /\ \E x \in Walks : child = x.w /\ goal = x.g
  /\ i = 2
  /\ n1 = child[1]
  /\ ss = Hyp(1)
  /\ ident = FALSE
  /\ status = "run"

\* A run of children identical to n1 begins (lines 603-690).  Odd length:
\* nothing changes.  Even length: n1 becomes a reflexive equality over the
\* hand the next child (or, at the end, pf->d_node) needs.
IdenticalRunStart ==
  /\ status = "run" /\ i <= Len(child)
  /\ Identical(n1, child[i]) /\ ~ident
  /\ LET j    == RunEnd(i, n1)
         even == (j - i - 1) % 2 = 0
         na   == [child[j] EXCEPT !.neg = FALSE]
         keepL == ss' = P2("trans", ss, P1("symm", ss)) /\ n1' = EqNode(n1.l, n1.l)
         keepR == ss' = P2("trans", P1("symm", ss), ss) /\ n1' = EqNode(n1.r, n1.r)
     IN CASE ~even -> UNCHANGED <<ss, n1, status>>
          [] j > Len(child) ->
               CASE Match(n1.l, Side(goal, 0)) -> keepL /\ UNCHANGED status
                 [] Match(n1.r, Side(goal, 1)) -> keepR /\ UNCHANGED status
                 [] OTHER -> status' = "assert" /\ UNCHANGED <<ss, n1>>
          [] n1.l \in {na.l, na.r} -> keepL /\ UNCHANGED status
          [] n1.r \in {na.l, na.r} -> keepR /\ UNCHANGED status
          [] OTHER -> status' = "assert" /\ UNCHANGED <<ss, n1>>
  /\ ident' = TRUE
  /\ i' = i + 1
  /\ UNCHANGED <<child, goal>>

\* Mutant: the index moves past the child after the run member.
IdenticalRunContinueSkip ==
  /\ status = "run" /\ i <= Len(child)
  /\ Identical(n1, child[i]) /\ ident
  /\ i' = i + 2
  /\ UNCHANGED <<child, goal, n1, ss, ident, status>>

\* Further members of the run are ignored (lines 687-693).
IdenticalRunContinue ==
  /\ status = "run" /\ i <= Len(child)
  /\ Identical(n1, child[i]) /\ ident
  /\ i' = i + 1
  /\ UNCHANGED <<child, goal, n1, ss, ident, status>>

\* The rule chaining n1 and child i (lines 720-814): the operator follows
\* which one is a NOT, the case follows the shared side.
ChainOp(fn, sn) == IF fn THEN "negtrans1" ELSE IF sn THEN "negtrans2" ELSE "trans"
Sym(isNeg, p) == P1(IF isNeg THEN "negsymm" ELSE "symm", p)

\* Mutant: case 2 applies the symmetry to the prefix instead of child i.
ChainStepSymmOnPrefix(a, b, fn, sn, pa, pb) ==
  LET op == ChainOp(fn, sn) IN
  CASE a.l = b.l -> [n |-> EqNode(a.r, b.r), pf |-> P2(op, Sym(fn, pa), pb)]
    [] a.r = b.r -> [n |-> EqNode(a.l, b.l), pf |-> P2(op, Sym(fn, pa), pb)]
    [] a.l = b.r /\ ~fn /\ ~sn -> [n |-> EqNode(b.l, a.r), pf |-> P2(op, pb, pa)]
    [] a.l = b.r /\ fn -> [n |-> EqNode(a.r, b.l),
                           pf |-> P2(op, P1("negsymm", pa), P1("symm", pb))]
    [] a.l = b.r -> [n |-> EqNode(a.r, b.l),
                     pf |-> P2(op, P1("symm", pa), P1("negsymm", pb))]
    [] a.r = b.l -> [n |-> EqNode(a.l, b.r), pf |-> P2(op, pa, pb)]
    [] OTHER -> [n |-> Ill, pf |-> Ill]

\* Mutant: the case of a shared right side (n1[1] == n2[1]) is missing.
ChainStepNoRightCase(a, b, fn, sn, pa, pb) ==
  LET op == ChainOp(fn, sn) IN
  CASE a.l = b.l -> [n |-> EqNode(a.r, b.r), pf |-> P2(op, Sym(fn, pa), pb)]
    [] a.l = b.r /\ ~fn /\ ~sn -> [n |-> EqNode(b.l, a.r), pf |-> P2(op, pb, pa)]
    [] a.l = b.r /\ fn -> [n |-> EqNode(a.r, b.l),
                           pf |-> P2(op, P1("negsymm", pa), P1("symm", pb))]
    [] a.l = b.r -> [n |-> EqNode(a.r, b.l),
                     pf |-> P2(op, P1("symm", pa), P1("negsymm", pb))]
    [] a.r = b.l -> [n |-> EqNode(a.l, b.r), pf |-> P2(op, pa, pb)]
    [] OTHER -> [n |-> Ill, pf |-> Ill]

ChainStep(a, b, fn, sn, pa, pb) ==
  LET op == ChainOp(fn, sn) IN
  CASE a.l = b.l -> [n |-> EqNode(a.r, b.r), pf |-> P2(op, Sym(fn, pa), pb)]
    [] a.r = b.r -> [n |-> EqNode(a.l, b.l), pf |-> P2(op, pa, Sym(sn, pb))]
    [] a.l = b.r /\ ~fn /\ ~sn -> [n |-> EqNode(b.l, a.r), pf |-> P2(op, pb, pa)]
    [] a.l = b.r /\ fn -> [n |-> EqNode(a.r, b.l),
                           pf |-> P2(op, P1("negsymm", pa), P1("symm", pb))]
    [] a.l = b.r -> [n |-> EqNode(a.r, b.l),
                     pf |-> P2(op, P1("symm", pa), P1("negsymm", pb))]
    [] a.r = b.l -> [n |-> EqNode(a.l, b.r), pf |-> P2(op, pa, pb)]
    [] OTHER -> [n |-> Ill, pf |-> Ill]

Chain ==
  /\ status = "run" /\ i <= Len(child)
  /\ ~Identical(n1, child[i])
  /\ ident' = FALSE
  /\ LET n2 == child[i]
         fn == n1.neg
         sn == ~n1.neg /\ n2.neg
         st == ChainStep([n1 EXCEPT !.neg = FALSE], [n2 EXCEPT !.neg = FALSE],
                         fn, sn, ss, Hyp(i))
     IN IF n1.neg /\ n2.neg THEN status' = "assert" /\ UNCHANGED <<n1, ss>>
        ELSE IF st.n = Ill THEN status' = "unreachable" /\ UNCHANGED <<n1, ss>>
        ELSE /\ n1' = IF fn \/ sn THEN Flip(st.n) ELSE st.n
             /\ ss' = st.pf
             /\ UNCHANGED status
  /\ i' = i + 1
  /\ UNCHANGED <<child, goal>>

\* The loop is over; n1 is returned (lines 818-821).
Return ==
  /\ status = "run" /\ i > Len(child)
  /\ status' = "done"
  /\ UNCHANGED <<child, goal, i, n1, ss, ident>>

Halted ==
  /\ status # "run"
  /\ UNCHANGED vars

Next == IdenticalRunStart \/ IdenticalRunContinue \/ Chain \/ Return \/ Halted

Spec == Init /\ [][Next]_vars

------------------------------------------------------------------------------
(***************************************************************************)
(* The LFSC rules of the equality signature: what a term proves.           *)
(***************************************************************************)
RECURSIVE Proves(_)
Proves(t) ==
  CASE t.rule = "hyp" -> child[t.k]
    [] t.rule \in {"symm", "negsymm"} ->
         LET a == Proves(t.p) IN
         IF a = Ill \/ a.neg # (t.rule = "negsymm") THEN Ill
         ELSE [a EXCEPT !.l = a.r, !.r = a.l]
    [] OTHER ->
         LET a == Proves(t.p)
             b == Proves(t.q)
         IN IF a = Ill \/ b = Ill THEN Ill
            ELSE IF a.r # b.l THEN Ill
            ELSE IF <<a.neg, b.neg>> # CASE t.rule = "trans"     -> <<FALSE, FALSE>>
                                         [] t.rule = "negtrans1" -> <<TRUE, FALSE>>
                                         [] OTHER                -> <<FALSE, TRUE>>
                 THEN Ill
            ELSE [neg |-> a.neg \/ b.neg, l |-> a.l, r |-> b.r]

SameUpToSymm(a, b) ==
  /\ a.neg = b.neg
  /\ {a.l, a.r} = {b.l, b.r}

(***************************************************************************)
(* Properties                                                              *)
(***************************************************************************)

TypeOK ==
  /\ i \in 2..(MaxLen + 1)
  /\ ident \in BOOLEAN
  /\ status \in {"run", "done", "assert", "unreachable"}
  /\ n1.neg \in BOOLEAN /\ n1.l \in Atoms /\ n1.r \in Atoms

\* The printed prefix proves exactly the Node the loop keeps as n1, after
\* every child: the case analysis, the symm/negsymm choice and the
\* trans/negtrans1/negtrans2 choice agree with the n1 update, through
\* runs of identical equalities and a disequality at any position.
TransPrefixProvesN1 ==
  status \in {"run", "done"} => Proves(ss) = n1

\* No given walk with at most one disequality reaches an Assert or an
\* Unreachable of the TRANS case.
TransNeverFails == status \in {"run", "done"}

\* What the call returns is pf->d_node up to symmetry: the caller builds on
\* the returned Node as the conclusion of the transitivity proof.
TransReturnsGoal == status = "done" => SameUpToSymm(n1, goal)

==============================================================================
