------------------------------ MODULE SharingPass ------------------------------
(***************************************************************************)
(* The let-sharing of printed terms in LFSCTheoryProofEngine               *)
(* (src/src/proof/theory_proof.cpp): printAssertions prints every          *)
(* assertion with printLetTerm, which counts the occurrences of each       *)
(* subterm (bind), emits "(@ letK t" for each subterm seen more than       *)
(* LET_COUNT times, in the order bind finished them, and prints the        *)
(* assertion; printBoundTerm prints letK in place of such a subterm.       *)
(*                                                                         *)
(* Terms are built from leaf constants with two operators: "eq", a core    *)
(* term whose children printCoreTerm prints with printBoundTerm, and "f",  *)
(* an uninterpreted function whose argument LFSCUFProof::printTerm prints  *)
(* with the engine's map-less printTerm.  The text is abstracted to its    *)
(* tree: a leaf, an application, or the name letK.                         *)
(***************************************************************************)
EXTENDS Naturals, Sequences, FiniteSets

CONSTANTS
  Leaves,       \* variables and constants
  NumAsserts,   \* assertions printed by printAssertions
  Ill           \* the meaning of a text that uses an unbound name

ASSUME NumAsserts \in Nat \ {0}

VARIABLES
  assertion,    \* ProofManager's assertions (read-only input)
  k,            \* the assertion printAssertions prints next
  counter,      \* LetCount::counter, static, never reset
  out           \* the printed assertions: their lets and their body

vars == <<assertion, k, counter, out>>

LET_COUNT == 1

Eq(t1, t2) == <<"eq", t1, t2>>
F(t) == <<"f", t>>
IsLeaf(t) == t \in Leaves
Children(t) == IF IsLeaf(t) THEN <<>> ELSE SubSeq(t, 2, Len(t))

\* Terms of height at most 2.
Terms1 == Leaves \cup {F(t) : t \in Leaves} \cup {Eq(a, b) : a, b \in Leaves}
Terms2 == Leaves \cup {F(t) : t \in Terms1} \cup {Eq(a, b) : a, b \in Terms1}

\* A let name in printed text.
LetRef(id) == <<"let", id>>
IsRef(p) == ~IsLeaf(p) /\ p[1] = "let"

(***************************************************************************)
(* bind: post-order walk; a term met again only has its count incremented *)
(* and its children are not walked again.  st is [map, order, ctr]: the   *)
(* LetMap (term -> [id, count]), the Bindings let_order and the counter.  *)
(***************************************************************************)
RECURSIVE Bind(_, _), BindChildren(_, _, _)
Bind(t, st) ==
  IF t \in DOMAIN st.map
  THEN [st EXCEPT !.map = [st.map EXCEPT ![t].count = @ + 1]]
  ELSE LET s2 == BindChildren(t, 1, st)
       IN [map   |-> [u \in DOMAIN s2.map \cup {t} |->
                        IF u = t THEN [id |-> s2.ctr, count |-> 1] ELSE s2.map[u]],
           order |-> Append(s2.order, t),
           ctr   |-> s2.ctr + 1]

BindChildren(t, j, st) ==
  IF j > Len(Children(t)) THEN st
  ELSE BindChildren(t, j + 1, Bind(Children(t)[j], st))

(***************************************************************************)
(* Printing under a LetMap.                                                *)
(***************************************************************************)
\* The map-less printTerm of the engine, used for UF arguments.
RECURSIVE PrintPlain(_)
PrintPlain(t) ==
  IF IsLeaf(t) THEN t
  ELSE [j \in DOMAIN t |-> IF j = 1 THEN t[1] ELSE PrintPlain(t[j])]

RECURSIVE PrintTheoryTerm(_, _), PrintBoundTerm(_, _), PrintBoundTermAtLeastOnce(_, _)
\* printTheoryTerm: core terms print their children bound, UF terms plain.
PrintTheoryTerm(t, map) ==
  CASE IsLeaf(t)     -> t
    [] t[1] = "eq"   -> Eq(PrintBoundTerm(t[2], map), PrintBoundTerm(t[3], map))
    [] OTHER         -> F(PrintPlain(t[2]))

\* Mutant: a subterm seen once is also printed by its let name.
PrintBoundTermAtLeastOnce(t, map) ==
  IF t \in DOMAIN map /\ map[t].count >= LET_COUNT
  THEN LetRef(map[t].id)
  ELSE PrintTheoryTerm(t, map)

PrintBoundTerm(t, map) ==
  IF t \in DOMAIN map /\ map[t].count > LET_COUNT
  THEN LetRef(map[t].id)
  ELSE PrintTheoryTerm(t, map)

\* printLetTerm: the lets of the subterms seen more than LET_COUNT times,
\* in let_order, then the term (or its own let name).
PrintLetTerm(t, ctr) ==
  LET st == Bind(t, [map |-> [u \in {} |-> u], order |-> <<>>, ctr |-> ctr])
      lets == SelectSeq(st.order, LAMBDA u : st.map[u].count > LET_COUNT)
      root == st.order[Len(st.order)]
  IN [lets |-> [j \in 1..Len(lets) |->
                  [id |-> st.map[lets[j]].id, def |-> PrintTheoryTerm(lets[j], st.map)]],
      body |-> IF st.map[root].count <= LET_COUNT
               THEN PrintTheoryTerm(root, st.map)
               ELSE LetRef(st.map[root].id),
      ctr  |-> st.ctr]

------------------------------------------------------------------------------

Init ==
  /\ assertion \in [1..NumAsserts -> Terms2]
  /\ k = 1
  /\ counter = 0
  /\ out = <<>>

\* printAssertions: one "(% A<k> (th_holds <printLetTerm>)" per assertion.
PrintAssertion ==
  /\ k <= NumAsserts
  /\ LET p == PrintLetTerm(assertion[k], counter)
     IN /\ out' = Append(out, [lets |-> p.lets, body |-> p.body])
        /\ counter' = p.ctr
  /\ k' = k + 1
  /\ UNCHANGED assertion

Done ==
  /\ k > NumAsserts
  /\ UNCHANGED vars

Next == PrintAssertion \/ Done

Spec == Init /\ [][Next]_vars

------------------------------------------------------------------------------
(***************************************************************************)
(* What the checker reads: "(@ x t body)" binds x to t in body.            *)
(***************************************************************************)
RECURSIVE Expand(_, _)
Expand(p, env) ==
  CASE IsLeaf(p)  -> p
    [] IsRef(p)   -> IF p[2] \in DOMAIN env THEN env[p[2]] ELSE Ill
    [] OTHER      ->
         LET cs == [j \in 2..Len(p) |-> Expand(p[j], env)]
         IN IF \E j \in 2..Len(p) : cs[j] = Ill THEN Ill
            ELSE [j \in DOMAIN p |-> IF j = 1 THEN p[1] ELSE cs[j]]

RECURSIVE ExpandLets(_, _, _)
ExpandLets(lets, j, env) ==
  IF j > Len(lets) THEN env
  ELSE ExpandLets(lets, j + 1,
                  [n \in DOMAIN env \cup {lets[j].id} |->
                     IF n = lets[j].id THEN Expand(lets[j].def, env) ELSE env[n]])

Meaning(p) == Expand(p.body, ExpandLets(p.lets, 1, [n \in {} |-> n]))

(***************************************************************************)
(* Properties                                                              *)
(***************************************************************************)

\* Every printed assertion means exactly the assertion: each let name is
\* bound, before it is used, to the subterm it replaces.  This covers the
\* post-order of bind, the counts of repeated subterms whose children were
\* not walked again, the LET_COUNT tests of printLetTerm and printBoundTerm
\* agreeing, and the UF arguments printed without the map.
LetTermFaithful ==
  \A j \in DOMAIN out : Meaning(out[j]) = assertion[j]

==============================================================================
