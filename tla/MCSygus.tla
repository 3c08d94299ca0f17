-------------------------------- MODULE MCSygus ------------------------------
(***************************************************************************)
(* The sygus grammars of the run, over one vocabulary of operators, and    *)
(* the rewriter on it.                                                     *)
(*                                                                         *)
(* For the search: one datatype for S ::= x | PLUS(S, S) | UMINUS(S).      *)
(* For the splits: one datatype for                                        *)
(*   S ::= x | 0 | 1 | PLUS(S, S) | MINUS(S, S) | UMINUS(S) | MULT(S, S)  *)
(* in this constructor order.                                              *)
(*                                                                         *)
(* getNormalized: a term's normal form is its polynomial, a map from       *)
(* monomials (bags of variables) to non-zero coefficients, as              *)
(* Rewriter::rewrite makes it for PLUS, MINUS, UMINUS and MULT over        *)
(* integers; var tells whether it is one of the fresh variables.           *)
(***************************************************************************)
EXTENDS Sygus, Integers, Sequences, Bags, FiniteSetsExt

MCCons == {"x", "PLUS", "UMINUS"}
MCArity == [c \in MCCons |-> CASE c = "PLUS" -> 2 [] c = "UMINUS" -> 1 [] OTHER -> 0]

MCGrammar ==
  << [op |-> "x",      cls |-> "var",   arity |-> 0],
     [op |-> "0",      cls |-> "const", arity |-> 0],
     [op |-> "1",      cls |-> "const", arity |-> 0],
     [op |-> "PLUS",   cls |-> "kind",  arity |-> 2],
     [op |-> "MINUS",  cls |-> "kind",  arity |-> 2],
     [op |-> "UMINUS", cls |-> "kind",  arity |-> 1],
     [op |-> "MULT",   cls |-> "kind",  arity |-> 2] >>

MCFreshNames == <<"fv0", "fv1", "fv2", "fv3", "fv4", "fv5", "fv6", "fv7">>

Coef(f, a) == IF a \in DOMAIN f THEN f[a] ELSE 0
AddLin(f, g) ==
  LET D == {a \in DOMAIN f \cup DOMAIN g : Coef(f, a) + Coef(g, a) # 0}
  IN [a \in D |-> Coef(f, a) + Coef(g, a)]
PNeg(f) == [m \in DOMAIN f |-> 0 - f[m]]
PMul(f, g) ==
  FoldSet(LAMBDA pr, acc : AddLin(acc, (pr[1] (+) pr[2]) :> f[pr[1]] * g[pr[2]]),
          <<>>, (DOMAIN f) \X (DOMAIN g))
PConst(c) == IF c = 0 THEN <<>> ELSE (<<>> :> c)

RECURSIVE Poly(_)
Poly(t) ==
  CASE t[1] = "PLUS"   -> AddLin(Poly(t[2]), Poly(t[3]))
    [] t[1] = "MINUS"  -> AddLin(Poly(t[2]), PNeg(Poly(t[3])))
    [] t[1] = "UMINUS" -> PNeg(Poly(t[2]))
    [] t[1] = "MULT"   -> PMul(Poly(t[2]), Poly(t[3]))
    [] t[1] = "0"      -> PConst(0)
    [] t[1] = "1"      -> PConst(1)
    [] OTHER           -> ((t[1] :> 1) :> 1)

PolyNF(t) ==
  LET f == Poly(t)
  IN [var |-> \E i \in 1..Len(MCFreshNames) : f = ((MCFreshNames[i] :> 1) :> 1), nf |-> f]

\* The generic terms registerSygusType, registerSygusTypeConstructorArg
\* and its argument relationships build (a constructor over fresh
\* variables, alone, under a unary parent, or beside a sibling under a
\* binary one), built from the literal tables above, and their normal
\* forms, computed once.
MCCtor == {MCGrammar[i] : i \in DOMAIN MCGrammar}
GT(g, vc) == [t |-> <<g.op>> \o [j \in 1..g.arity |-> <<MCFreshNames[vc + j]>>],
              vc |-> vc + g.arity]
GenericTerms ==
  {GT(g, 0).t : g \in MCCtor}
  \cup {<<u.op, GT(g, 0).t>> : u \in {c \in MCCtor : c.arity = 1}, g \in MCCtor}
  \cup {<<b.op, GT(g, 0).t, GT(h, GT(g, 0).vc).t>> :
          b \in {c \in MCCtor : c.arity = 2}, g \in MCCtor, h \in MCCtor}
NFOf == [t \in GenericTerms |-> PolyNF(t)]

MCRewrite(t) == IF t \in DOMAIN NFOf THEN NFOf[t] ELSE PolyNF(t)

==============================================================================
