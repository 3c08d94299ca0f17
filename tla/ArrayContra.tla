----------------------------- MODULE ArrayContra -----------------------------
(***************************************************************************)
(* The top-level call (tb = 0) of ProofArray::toStreamRecLFSC              *)
(* (src/src/proof/array_proof.cpp): a MERGED_THROUGH_TRANS conflict whose  *)
(* children are given equalities, one negated child, and runs of dangling  *)
(* congruences (MERGED_THROUGH_CONGRUENCE with a null d_node) that turn    *)
(* an equality x0 = y0 into xk = yk side by side.  The loop copies the     *)
(* children into subTrans, repacking each congruence run around its        *)
(* target equality; the transitivity case (TransChain) proves subTrans;    *)
(* the result is contradicted with the negated child.                      *)
(***************************************************************************)
EXTENDS Naturals, SequencesExt

CONSTANTS
  Atoms,      \* the terms
  MaxLen,     \* most given equalities of a plain explanation path
  MaxCong,    \* most congruences of a run
  NegKinds,   \* proof ids of the negated child: "eq" (given), "ext"
  Ill

VARIABLES
  raw,        \* pf->d_children: the conflict's children (input)
  negIdx,     \* neg: the index of the negated child
  phase,      \* "repack", "trans", "done", "assert"
  out,        \* the printed refutation
  child, goal, i, n1, ss, ident, status   \* the transitivity call

T == INSTANCE TransChain

tvars == <<child, goal, i, n1, ss, ident, status>>
vars == <<raw, negIdx, phase, out, tvars>>

E(l, r) == [neg |-> FALSE, l |-> l, r |-> r]
Orient(u, v, o) == IF o THEN E(u, v) ELSE E(v, u)
Neg(e) == [e EXCEPT !.neg = TRUE]
Pos(e) == [e EXCEPT !.neg = FALSE]

IsNegChild(c) == c.kind # "cong" /\ c.node.neg
IsDangling(c) == c.kind = "cong"

(***************************************************************************)
(* The loop of lines 133-219 over pf->d_children, as a recursive operator *)
(* on (i, neg, subTrans).  A failed Assert gives ok = FALSE.               *)
(***************************************************************************)
\* The number of consecutive dangling congruences from index j (lines 145-153).
RECURSIVE RunLength(_, _)
RunLength(r, j) == IF j <= Len(r) /\ IsDangling(r[j]) THEN 1 + RunLength(r, j + 1) ELSE 0

\* A congruence child proved by MERGED_THROUGH_REFLEXIVITY.
Refl == [refl |-> TRUE]
NonRefl(s) == SelectSeq(s, LAMBDA e : e # Refl)

\* Lines 157-210: the ordered equalities of the run r[j..j+cnt-1] and its
\* target: the left children from the outermost congruence in, the target,
\* then the right children from the innermost congruence out.
Ordered(r, j, cnt, before) ==
  LET tgt == IF before THEN r[j - 1] ELSE r[j + cnt]
      lefts == [m \in 1..cnt |-> r[j + m - 1].c0]
      rights == [m \in 1..cnt |-> r[j + m - 1].c1]
      inner == IF before THEN lefts ELSE Reverse(lefts)
      outer == IF before THEN rights ELSE Reverse(rights)
  IN NonRefl(Reverse(inner)) \o <<tgt.node>> \o NonRefl(outer)

RECURSIVE RepackLoop(_, _, _, _)
RepackLoop(r, j, neg, sub) ==
  IF j > Len(r) THEN [ok |-> neg > 0, neg |-> neg, sub |-> sub]
  ELSE IF IsNegChild(r[j])
  THEN IF neg > 0 THEN [ok |-> FALSE, neg |-> neg, sub |-> sub]
       ELSE RepackLoop(r, j + 1, j, sub)
  ELSE IF IsDangling(r[j])
  THEN LET cnt == RunLength(r, j)
           before == ~(j = 1 \/ (j = 2 /\ neg = 1))
           after == ~(j + cnt > Len(r) \/ IsNegChild(r[j + cnt]))
       IN IF before = after THEN [ok |-> FALSE, neg |-> neg, sub |-> sub]
          ELSE RepackLoop(r, j + cnt + (IF after THEN 1 ELSE 0), neg,
                          (IF before THEN Front(sub) ELSE sub) \o Ordered(r, j, cnt, before))
  ELSE RepackLoop(r, j + 1, neg, Append(sub, r[j].node))

(***************************************************************************)
(* Inputs.  A plain conflict: an explanation path (a simple walk) from s  *)
(* to t, with the child not (s = t), in either orientation, at any        *)
(* position.  A congruence conflict: a target x0 = y0 and k congruences,  *)
(* congruence j with the children x(j-1) = xj and y(j-1) = yj             *)
(* (reflexivity when the two are the same term), and the negated child    *)
(* not (xk = yk) at either end; the run follows or precedes the target.    *)
(***************************************************************************)

PlainInputs ==
  UNION {UNION {{InsertAt(
                   [m \in 1..n |-> [kind |-> "eq", node |-> Orient(v[m], v[m + 1], o[m])]],
                   p, [kind |-> nk, node |-> Neg(Orient(v[1], v[n + 1], no))])
                 : o \in [1..n -> BOOLEAN], no \in BOOLEAN, p \in 1..(n + 1), nk \in NegKinds}
                : v \in {w \in T!TermWalks(n) : T!IsSimple(w)}}
         : n \in 1..MaxLen}

SideProof(zs, j, o) == IF zs[j - 1] = zs[j] THEN Refl ELSE Orient(zs[j - 1], zs[j], o)

Forms == {"T_C_N", "N_T_C", "C_T_N", "N_C_T"}

CongRaw(k, xs, ys, ot, o0, o1, no, f, nk) ==
  LET tg == [kind |-> "eq", node |-> Orient(xs[0], ys[0], ot)]
      ng == [kind |-> nk, node |-> Neg(Orient(xs[k], ys[k], no))]
      cs == [j \in 1..k |-> [kind |-> "cong", c0 |-> SideProof(xs, j, o0[j]),
                                               c1 |-> SideProof(ys, j, o1[j])]]
  IN CASE f = "T_C_N" -> <<tg>> \o cs \o <<ng>>
       [] f = "N_T_C" -> <<ng, tg>> \o cs
       [] f = "C_T_N" -> Reverse(cs) \o <<tg, ng>>
       [] OTHER       -> <<ng>> \o Reverse(cs) \o <<tg>>

\* The two sides: the target and the negated equality relate different terms.
SidePairs(k) == {pr \in [0..k -> Atoms] \X [0..k -> Atoms] :
                   pr[1][0] # pr[2][0] /\ pr[1][k] # pr[2][k]}

IsCongInput(r) ==
  \E k \in 1..MaxCong : \E pr \in SidePairs(k), ot, no \in BOOLEAN, f \in Forms, nk \in NegKinds :
    \E o0, o1 \in [1..k -> BOOLEAN] : r = CongRaw(k, pr[1], pr[2], ot, o0, o1, no, f, nk)

------------------------------------------------------------------------------

Init ==
  /\ \/ raw \in PlainInputs
     \/ IsCongInput(raw)
  /\ negIdx = 0
  /\ phase = "repack"
  /\ out = Ill
  /\ child = <<>> /\ goal = Ill /\ i = 1 /\ n1 = Ill /\ ss = Ill
  /\ ident = FALSE /\ status = "idle"

\* Lines 120-230: the repacking loop, then the call on subTrans (more than
\* two children) or on its unique child, which starts as TransChain starts.
Repack ==
  /\ phase = "repack"
  /\ LET rp == RepackLoop(raw, 1, 0, <<>>) IN
     IF ~rp.ok
     THEN phase' = "assert" /\ UNCHANGED <<negIdx, tvars>>
     ELSE /\ phase' = "trans"
          /\ negIdx' = rp.neg
          /\ child' = rp.sub
          /\ goal' = Pos(raw[rp.neg].node)
          /\ i' = 2 /\ n1' = rp.sub[1] /\ ss' = T!Hyp(1)
          /\ ident' = FALSE /\ status' = "run"
  /\ UNCHANGED <<raw, out>>

\* One step of the transitivity call (TransChain).
TransStep ==
  /\ phase = "trans" /\ status = "run"
  /\ T!IdenticalRunStart \/ T!IdenticalRunContinue \/ T!Chain \/ T!Return
  /\ UNCHANGED <<raw, negIdx, phase, out>>

\* Proof terms of the refutation: the negated child's proof, and contra.
NegProof == [rule |-> "negchild"]
Contra(p, q) == [rule |-> "contra", p |-> p, q |-> q]

\* Mutant: symm is applied when n1's left side is n2[0]'s left one.
ContraStepSymmLeft ==
  /\ phase = "trans" /\ status = "done"
  /\ LET n2 == raw[negIdx].node IN
     IF raw[negIdx].kind = "ext"
     THEN out' = Contra(ss, NegProof) /\ phase' = "done"
     ELSE IF ~T!SameUpToSymm(n1, Pos(n2))
     THEN phase' = "assert" /\ UNCHANGED out
     ELSE /\ out' = Contra(IF n1.l = n2.l THEN T!P1("symm", ss) ELSE ss, NegProof)
          /\ phase' = "done"
  /\ UNCHANGED <<raw, negIdx, tvars>>

\* Lines 231-285: an EXT child is contradicted with ss as it is; any other
\* with ss, or with (symm ss) when n1's right side is n2[0]'s left one.
ContraStep ==
  /\ phase = "trans" /\ status = "done"
  /\ LET n2 == raw[negIdx].node IN
     IF raw[negIdx].kind = "ext"
     THEN out' = Contra(ss, NegProof) /\ phase' = "done"
     ELSE IF ~T!SameUpToSymm(n1, Pos(n2))
     THEN phase' = "assert" /\ UNCHANGED out
     ELSE /\ out' = Contra(IF n1.r = n2.l THEN T!P1("symm", ss) ELSE ss, NegProof)
          /\ phase' = "done"
  /\ UNCHANGED <<raw, negIdx, tvars>>

\* Printing is over, or stopped at an Assert or an Unreachable (the
\* transitivity call's own, when its status says so).
Stopped == phase \in {"done", "assert"} \/ status \in {"assert", "unreachable"}

Halted ==
  /\ Stopped
  /\ UNCHANGED vars

Next == Repack \/ TransStep \/ ContraStep \/ Halted

Spec == Init /\ [][Next]_vars

------------------------------------------------------------------------------
(***************************************************************************)
(* Properties                                                              *)
(***************************************************************************)

\* What contra checks: its first argument proves an equality and its
\* second the negation of exactly that equality.
Refutes(t) ==
  LET a == T!Proves(t.p)
      b == raw[negIdx].node
  IN a # Ill /\ ~a.neg /\ a.l = b.l /\ a.r = b.r

\* Every conflict of the enumerated shapes is printed without reaching an
\* Assert, and the printed contra checks: the repacking of the congruence
\* runs, the transitivity chain over the repacked list, and the symmetry
\* placed before contra fit together.
TopLevelRefutes ==
  /\ phase # "assert"
  /\ status \notin {"assert", "unreachable"}
  /\ phase = "done" => Refutes(out)

==============================================================================
