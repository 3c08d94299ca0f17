----------------------------- MODULE SygusSplit -----------------------------
(***************************************************************************)
(* SygusSplit of src/src/theory/datatypes/datatypes_sygus.cpp: the splits *)
(* the datatype solver asks for when it must choose the constructor of a  *)
(* sygus term n.  getSygusSplits keeps only the constructors that are not *)
(* redundant at n (sygusNormalForm), relates the two arguments of a       *)
(* binary parent (sygusNormalFormArg) and guards everything by the        *)
(* parent's tester, because n may be a selector of another constructor.   *)
(*                                                                         *)
(* Redundancy is decided once per type and per (parent, argument) by      *)
(* registerSygusType and registerSygusTypeConstructorArg: by the kind and *)
(* constant tables of SygusUtil, and by isGenericRedundant, which rewrites *)
(* a generic term (the constructors over fresh variables) and calls it    *)
(* redundant when an earlier generic term had the same normal form.       *)
(*                                                                         *)
(* One sygus datatype whose arguments are all of its own type.  A term is *)
(* the path of selectors <<cs, s>> (constructor, argument from 0) from the *)
(* anchor.  A formula of a split is a tuple: <<"is", n, i>> (is-i(n)),    *)
(* <<"and", fs>>, <<"or", fs>>, <<"not", f>>, <<"false">>,                *)
(* <<"leq", n, m>> (DT_SIZE(n) <= DT_SIZE(m)) and <<"szeq", n, i>> (the    *)
(* fairness equation DT_SIZE(n) = DT_SIZE(C_i(sel(n)...))).               *)
(***************************************************************************)
EXTENDS Naturals, Sequences, SequencesExt, FiniteSets, TLC, SygusUtil

CONSTANTS
  Grammar,        \* the constructors in datatype order: [op, cls, arity]
  MaxSplitDepth,  \* the deepest term the solver asks splits for
  MaxProgSize     \* the largest DT_SIZE of the programs SplitsComplete covers

VARIABLES
  opts,      \* sygusNormalForm, sygusNormalFormArg, ceGuidedInstFair = DT_SIZE
  nred,      \* d_sygus_nred[tn]: Null until registerSygusType
  pcnred,    \* d_sygus_pc_nred[tn][cs][s]: <<cs, s>> -> booleans per constructor
  argpos,    \* d_sygus_pc_arg_pos[tn][cs][i]: <<cs, i>> -> first-argument constructors
  genred,    \* d_gen_redundant[tn]: generic term -> redundant?
  genterms,  \* d_gen_terms[tn]: normal form -> the first generic term with it
  splits,    \* d_splits: term -> the split formulas
  sstatus    \* "ok", or "assert" once an Assert fails

svars == <<opts, nred, pcnred, argpos, genred, genterms, splits, sstatus>>

Ctors == 1..Len(Grammar)
NumArgs(i) == Grammar[i].arity
Sels == UNION {{<<cs, s>> : s \in 0..NumArgs(cs) - 1} : cs \in Ctors}
SplitTerms == UNION {[1..d -> Sels] : d \in 0..MaxSplitDepth}
Undef == "UNDEFINED_KIND"

\* SygusUtil::registerSygusType: the kind or constant of each constructor;
\* getKindArg is the last constructor of a kind (d_kinds[tn][sk] = i).
ArgKind(i) == IF Grammar[i].cls = "kind" THEN Grammar[i].op ELSE Undef
IsConstArg(i) == Grammar[i].cls = "const"
KindArg(k) == LET I == {i \in Ctors : ArgKind(i) = k} IN IF I = {} THEN -1 ELSE Max(I)
HasConst(c) == \E i \in Ctors : IsConstArg(i) /\ Grammar[i].op = c

\* The rows of SygusUtil's tables for integer kinds.  getTypeValue(Int, v)
\* is the constant v (an operator of the grammar is its numeral); an
\* integer type has no getTypeMaxValue.
TypeValue(v) == ToString(v)
IsAssoc(k) == k \in {"PLUS", "MULT"}
IsComm(k) == k \in {"PLUS", "MULT"}
IsIdempotentArg(c, k, arg) ==
  \/ c = TypeValue(0) /\ (k = "PLUS" \/ (k = "MINUS" /\ arg = 1))
  \/ c = TypeValue(1) /\ (k = "MULT" \/ (k = "DIVISION" /\ arg = 1))
IsSingularArg(c, k, arg) ==
  c = TypeValue(0) /\ (k = "MULT" \/ (k = "DIVISION" /\ arg = 0))

\* SygusUtil::mkGeneric: the operator of constructor i over pre[j], or over
\* the next fresh variables (var_count vc) for the arguments without one.
Generic(i, vc, pre) ==
  LET free(j) == Cardinality({k \in 0..j - 1 : k \notin DOMAIN pre})
      args == [j \in 1..NumArgs(i) |-> IF j - 1 \in DOMAIN pre THEN pre[j - 1]
                                     ELSE <<FreshNames[vc + free(j - 1) + 1]>>]
  IN [t |-> <<Grammar[i].op>> \o args, vc |-> vc + free(NumArgs(i))]

------------------------------------------------------------------------------
(***************************************************************************)
(* The work of one getSygusSplits call is a record W of the maps above,   *)
(* threaded through the calls of the code.                                 *)
(***************************************************************************)

\* isGenericRedundant (active): the first generic term of a normal form
\* wins, every later one with the same normal form is redundant; the
\* answer is cached per generic term.
CacheGeneric(W, g, gr) ==
  LET red == gr \in DOMAIN W.genterms
  IN [w |-> [W EXCEPT !.genred = (g :> red) @@ @,
                      !.genterms = IF red THEN @ ELSE (gr :> g) @@ @],
      red |-> red]

IsGenericRedundant(W, g) ==
  IF g \in DOMAIN W.genred THEN [w |-> W, red |-> W.genred[g]]
  ELSE CacheGeneric(W, g, Rewrite(g).nf)

\* SygusSplit::registerSygusType: under sygusNormalForm a constructor is
\* redundant when its generic term is.  (The antisymmetric kinds GT, GEQ
\* compare integers to a Boolean and need a second datatype.)
RegTypeStepOf(W, r) ==
  LET W1 == IF opts.nf THEN r.w ELSE W
  IN [W1 EXCEPT !.nred = Append(@, ~opts.nf \/ ~r.red)]

RegTypeStep(W, i) == RegTypeStepOf(W, IsGenericRedundant(W, Generic(i, 0, <<>>).t))

CtorSeq == [i \in Ctors |-> i]

\* The loops of the code over the constructors, from constructor i on.
RECURSIVE RegTypeLoop(_, _), PcLoop(_, _, _, _), RemLoop(_, _, _, _), RelLoop(_, _, _)
RegTypeLoop(W, i) == IF i > Len(Grammar) THEN W ELSE RegTypeLoop(RegTypeStep(W, i), i + 1)

RegisterSygusType(W) ==
  IF W.nred # Null THEN W ELSE RegTypeLoop([W EXCEPT !.nred = <<>>], 1)

\* considerSygusSplitKind: may kind k be argument arg of parent?  A
\* repeated associative kind only in the first argument (which, in one
\* datatype, is argument 0); no UMINUS under UMINUS; no PLUS under UMINUS
\* when the grammar can push the negation into both summands.
ConsiderSygusSplitKind(k, parent, arg) ==
  CASE k = parent /\ IsAssoc(k)                 -> arg = 0
    [] parent = "UMINUS" /\ k = parent          -> FALSE
    [] parent = "UMINUS" /\ k = "PLUS" /\ KindArg("PLUS") # -1 ->
         ~(NumArgs(KindArg("PLUS")) = NumArgs(KindArg(k)) /\ KindArg("UMINUS") # -1)
    [] OTHER                                    -> TRUE

\* considerSygusSplitConst: an idempotent constant of a binary parent, or
\* a singular one the grammar has, is not considered.  (hasOffsetArg is
\* about LT, whose arguments are of another type than the result.)
ConsiderSygusSplitConst(c, parent, arg) ==
  CASE IsIdempotentArg(c, parent, arg) -> NumArgs(KindArg(parent)) # 2
    [] IsSingularArg(c, parent, arg)   -> ~HasConst(c)
    [] OTHER                           -> TRUE

\* One child constructor i of registerSygusTypeConstructorArg under
\* sygusNormalForm: the tables, then, below a unary parent, the generic
\* term parent(child).
\* tab is the answer of the tables, r the redundancy of parent(child).
PcStepOf(W, cs, s, i, tab, r) ==
  LET cand == W.nred[i] /\ ArgKind(cs) # Undef
      chk == cand /\ tab /\ NumArgs(cs) = 1
      add == CASE chk  -> ~r.red
               [] cand -> tab
               [] OTHER -> W.nred[i]
      W1 == IF chk THEN r.w ELSE W
  IN [W1 EXCEPT !.pcnred[<<cs, s>>] = Append(@, add)]

PcStep(W, cs, s, i) ==
  LET pk == ArgKind(cs)
      gc == Generic(i, 0, <<>>)
  IN PcStepOf(W, cs, s, i,
              CASE ArgKind(i) # Undef -> ConsiderSygusSplitKind(ArgKind(i), pk, s)
                [] IsConstArg(i)      -> ConsiderSygusSplitConst(Grammar[i].op, pk, s)
                [] OTHER              -> TRUE,
              IsGenericRedundant(W, Generic(cs, gc.vc, (s :> gc.t)).t))

PcLoop(W, cs, s, i) == IF i > Len(Grammar) THEN W ELSE PcLoop(PcStep(W, cs, s, i), cs, s, i + 1)

\* One first-argument constructor j tried against second-argument
\* constructor i of a binary parent cs: removed by commutativity (the
\* first argument's index is not greater), by a singular constant on the
\* right or the left, or because parent(g_j, g_i) is generic-redundant.
\* R = [w, rem, argc, larg]: rem_arg, argConsider and larg_consider.
RemUpdate(R, j, w, rem) ==
  [w |-> w,
   rem |-> IF rem THEN R.rem \cup {j} ELSE R.rem,
   argc |-> R.argc \/ ~rem,
   larg |-> IF rem THEN R.larg ELSE R.larg \cup {j}]

\* quick: removed without a generic term; r: parent(g_j, g_i) redundant.
RemApply(R, j, quick, r) == RemUpdate(R, j, IF quick THEN R.w ELSE r.w, quick \/ r.red)

RemStepOf(R, cs, i, j, comm) ==
  LET pk == ArgKind(cs)
      g1 == Generic(j, 0, <<>>)
  IN IF ~R.w.pcnred[<<cs, 0>>][j] THEN R
     ELSE RemApply(R, j,
                   \/ comm
                   \/ IsConstArg(i) /\ IsSingularArg(Grammar[i].op, pk, 1) /\ R.argc
                   \/ IsConstArg(j) /\ IsSingularArg(Grammar[j].op, pk, 0) /\ j \in R.larg,
                   IsGenericRedundant(R.w, <<pk, g1.t, Generic(i, g1.vc, <<>>).t>>))

\* Mutant: commutativity removes j without asking whether j may be the
\* second argument.
RemStepCommUnguarded(R, cs, i, j) ==
  RemStepOf(R, cs, i, j, IsComm(ArgKind(cs)) /\ j > i)

RemStep(R, cs, i, j) ==
  RemStepOf(R, cs, i, j, IsComm(ArgKind(cs)) /\ j > i /\ R.w.pcnred[<<cs, 1>>][j])

RemLoop(R, cs, i, j) == IF j > Len(Grammar) THEN R ELSE RemLoop(RemStep(R, cs, i, j), cs, i, j + 1)

\* The argument relationships of a binary parent cs, computed when its
\* argument 0 is registered, for second argument i: d_sygus_pc_arg_pos[cs][i]
\* lists the first arguments left; with none left, i is redundant.
\* Q = [w, larg].
RelApply(cs, i, R) ==
  LET pos == SelectSeq(CtorSeq, LAMBDA j : R.w.pcnred[<<cs, 0>>][j] /\ j \notin R.rem)
  IN [w |-> IF R.rem = {} THEN R.w
            ELSE [R.w EXCEPT !.argpos = (<<cs, i>> :> pos) @@ @,
                             !.pcnred[<<cs, 1>>][i] = (pos # <<>>)],
      larg |-> R.larg]

RelStep(Q, cs, i) ==
  IF ~Q.w.pcnred[<<cs, 1>>][i] THEN Q
  ELSE RelApply(cs, i, RemLoop([w |-> Q.w, rem |-> {}, argc |-> FALSE, larg |-> Q.larg], cs, i, 1))

RelLoop(Q, cs, i) == IF i > Len(Grammar) THEN Q ELSE RelLoop(RelStep(Q, cs, i), cs, i + 1)

Relations(W, cs) == RelLoop([w |-> W, larg |-> {}], cs, 1).w


\* SygusSplit::registerSygusTypeConstructorArg for argument s of cs: the
\* entry is made first, so the call for the other argument of a binary
\* parent, which calls back, returns at once.
RECURSIVE RegArg(_, _, _), RegArgSibling(_, _, _)

\* The tail of the call under sygusNormalForm, once the child loop has
\* run: a binary parent with a kind registers the other argument, and
\* argument 0 computes the argument relationships.
\* Mutant: only argument 0 registers its sibling.
RegArgSiblingFromFirst(W1, cs, s) ==
  IF ArgKind(cs) # Undef /\ NumArgs(cs) = 2 /\ s = 0
  THEN Relations(RegArg(W1, cs, 1), cs)
  ELSE W1

RegArgSibling(W1, cs, s) ==
  IF ArgKind(cs) # Undef /\ NumArgs(cs) = 2
  THEN IF s = 0 THEN Relations(RegArg(W1, cs, 1), cs) ELSE RegArg(W1, cs, 0)
  ELSE W1

\* W0: the maps after the entry is made and the type registered.
RegArgBody(W0, cs, s) ==
  IF ~opts.nf
  THEN [W0 EXCEPT !.pcnred[<<cs, s>>] = [i \in Ctors |-> TRUE]]
  ELSE RegArgSibling(PcLoop(W0, cs, s, 1), cs, s)

RegArg(W, cs, s) ==
  IF <<cs, s>> \in DOMAIN W.pcnred THEN W
  ELSE RegArgBody(RegisterSygusType([W EXCEPT !.pcnred = (<<cs, s>> :> <<>>) @@ @]), cs, s)

And(fs) == <<"and", fs>>
Or(fs) == <<"or", fs>>
Is(n, i) == <<"is", n, i>>

\* The loop of getSygusSplits over the constructors of n, and the guard by
\* the parent's tester when some constructor was left out or narrowed.
SplitsOf(W, n) ==
  LET sel == IF n = <<>> THEN Null ELSE Last(n)
      cs == sel[1]
      arg1 == IF sel # Null /\ opts.arg /\ sel[2] = 1 /\ NumArgs(cs) = 2
              THEN Front(n) \o <<<<cs, 0>>>> ELSE Null
      szleq == IF arg1 # Null /\ IsComm(ArgKind(cs)) THEN <<"leq", n, arg1>> ELSE Null
      Adds(i) == W.nred[i] /\ (sel = Null \/ W.pcnred[sel][i])
      HasPos(i) == arg1 # Null /\ <<cs, i>> \in DOMAIN W.argpos
      ArgStr(i) ==
        CASE HasPos(i) ->
               LET P == W.argpos[<<cs, i>>]
               IN <<Or([m \in 1..Len(P) |-> IF P[m] = i /\ szleq # Null
                                            THEN And(<<Is(arg1, P[m]), szleq>>)
                                            ELSE Is(arg1, P[m])])>>
          [] arg1 # Null /\ szleq # Null -> <<Or(<<<<"not", Is(arg1, i)>>, szleq>>)>>
          [] OTHER -> <<>>
      Test(i) == And(<<Is(n, i)>> \o ArgStr(i)
                     \o (IF opts.fair THEN <<<<"szeq", n, i>>>> ELSE <<>>))
      kept == SelectSeq([i \in Ctors |-> i], Adds)
      tests == [m \in 1..Len(kept) |-> Test(kept[m])]
      narrow == \E i \in Ctors : ~Adds(i) \/ ArgStr(i) # <<>>
      ptest == Is(Front(n), cs)
  IN IF narrow /\ sel # Null
     THEN <<IF tests = <<>> THEN <<"false">> ELSE And(<<ptest, Or(tests)>>),
            And(<<<<"not", ptest>>, Or([i \in Ctors |-> Is(n, i)])>>)>>
     ELSE tests

------------------------------------------------------------------------------

SplitInit ==
  /\ opts \in [nf : BOOLEAN, arg : BOOLEAN, fair : BOOLEAN]
  /\ nred = Null
  /\ pcnred = <<>> /\ argpos = <<>> /\ genred = <<>> /\ genterms = <<>>
  /\ splits = <<>>
  /\ sstatus = "ok"

\* The maps after the registrations getSygusSplits makes for n.
Registered(n) ==
  LET W0 == RegisterSygusType([nred |-> nred, pcnred |-> pcnred, argpos |-> argpos,
                               genred |-> genred, genterms |-> genterms])
  IN IF n = <<>> THEN W0 ELSE RegArg(W0, Last(n)[1], Last(n)[2])

\* The maps W1 and the splits sp of n stored.
CommitSplits(n, W1, sp) ==
  /\ nred' = W1.nred /\ pcnred' = W1.pcnred /\ argpos' = W1.argpos
  /\ genred' = W1.genred /\ genterms' = W1.genterms
  /\ splits' = (n :> sp) @@ splits
  /\ sstatus' = IF sp = <<>> THEN "assert" ELSE "ok"

Commit(n, W1) == CommitSplits(n, W1, SplitsOf(W1, n))

\* SygusSplit::getSygusSplits for a term n not asked before (a repeated
\* call copies d_splits[n] and changes nothing): register the type and,
\* for a selector, the (parent, argument), then compute the splits.
GetSygusSplits(n) ==
  /\ sstatus = "ok"
  /\ n \notin DOMAIN splits
  /\ Commit(n, Registered(n))
  /\ UNCHANGED opts

SplitNext == \E n \in SplitTerms : GetSygusSplits(n)

SplitSpec == SplitInit /\ [][SplitNext]_svars

------------------------------------------------------------------------------
(***************************************************************************)
(* Properties.                                                             *)
(***************************************************************************)

SplitTypeOK ==
  /\ opts \in [nf : BOOLEAN, arg : BOOLEAN, fair : BOOLEAN]
  /\ nred = Null \/ nred \in [Ctors -> BOOLEAN]
  /\ \A k \in DOMAIN pcnred : k \in Sels /\ pcnred[k] \in [Ctors -> BOOLEAN]
  /\ \A k \in DOMAIN argpos : k[1] \in Ctors /\ k[2] \in Ctors
  /\ DOMAIN splits \subseteq SplitTerms
  /\ sstatus \in {"ok", "assert"}

\* The maps as they are now.
Now == [nred |-> nred, pcnred |-> pcnred, argpos |-> argpos,
        genred |-> genred, genterms |-> genterms]

\* d_splits[n] is computed once and handed out on every later call, while
\* the redundancy maps go on changing as other terms are registered; the
\* cached splits of every term are still the ones the maps give now, so no
\* call sees a stale split.
SplitsStable == \A n \in DOMAIN splits : splits[n] = SplitsOf(Now, n)

\* A program is a constructor tree <<i, child_0, ...>>; its term is the
\* constructors' operators applied, and DT_SIZE counts the constructors
\* that have arguments.
RECURSIVE Progs(_), Tuples(_, _)
Progs(k) == UNION {{<<i>> \o t : t \in Tuples(NumArgs(i), k - (IF NumArgs(i) = 0 THEN 0 ELSE 1))}
                   : i \in Ctors}
Tuples(a, k) ==
  IF a = 0 THEN IF k = 0 THEN {<<>>} ELSE {}
  ELSE IF k < 0 THEN {}
  ELSE UNION {{<<p>> \o t : p \in Progs(b), t \in Tuples(a - 1, k - b)} : b \in 0..k}
AllProgs == UNION {Progs(k) : k \in 0..MaxProgSize}

RECURSIVE ProgTerm(_), DtSize(_)
ProgTerm(P) == <<Grammar[P[1]].op>> \o [j \in 1..Len(P) - 1 |-> ProgTerm(P[j + 1])]
DtSize(P) == IF Len(P) = 1 THEN 0
             ELSE 1 + FoldLeft(LAMBDA a, q : a + DtSize(q), 0, Tail(P))

\* The subprogram at term n, Null where a selector does not match.
RECURSIVE SubAt(_, _)
SubAt(P, n) ==
  IF n = <<>> THEN P
  ELSE LET Q == SubAt(P, Front(n))
       IN IF Q # Null /\ Q[1] = Last(n)[1] THEN Q[Last(n)[2] + 2] ELSE Null

\* What a split can see of P: the constructor and DT_SIZE of each node of P
\* that is a term with splits (Null where a selector does not match).  A
\* split of n speaks of n, of its sibling and of its parent only.
View(P) == [n \in SplitTerms |-> LET Q == SubAt(P, n)
                                 IN IF Q = Null THEN Null ELSE <<Q[1], DtSize(Q)>>]

\* A split formula on a view.  The fairness equation holds whatever n is:
\* for n = C_i it is the definition of DT_SIZE, otherwise the selectors of
\* C_i on n are free.
RECURSIVE Holds(_, _)
Holds(v, f) ==
  CASE f[1] = "is"   -> v[f[2]][1] = f[3]
    [] f[1] = "and"  -> \A m \in DOMAIN f[2] : Holds(v, f[2][m])
    [] f[1] = "or"   -> \E m \in DOMAIN f[2] : Holds(v, f[2][m])
    [] f[1] = "not"  -> ~Holds(v, f[2])
    [] f[1] = "leq"  -> v[f[2]][2] <= v[f[3]][2]
    [] f[1] = "szeq" -> TRUE
    [] OTHER         -> FALSE

\* A program with view v satisfies the split lemma (the disjunction of the
\* splits) of every term that has splits and is a node of it.
Admitted(v) ==
  \A n \in DOMAIN splits : v[n] # Null => \E m \in DOMAIN splits[n] : Holds(v, splits[n][m])

NormalForm == [P \in AllProgs |-> Rewrite(ProgTerm(P)).nf]
Views == {View(P) : P \in AllProgs}
\* The normal forms and sizes of the programs of each view.
SizedByView == [v \in Views |-> {<<NormalForm[P], DtSize(P)>> : P \in {P \in AllProgs : View(P) = v}}]
Sized == {<<NormalForm[P], DtSize(P)>> : P \in AllProgs}

\* The splits only cut symmetries: every program up to MaxProgSize has one
\* with the same normal form and no larger DT_SIZE that satisfies all the
\* splits asked so far, whatever order the solver asks them in, so the
\* size-fair enumeration of sygus still reaches every function.
SplitsComplete ==
  LET Adm == UNION {SizedByView[v] : v \in {v \in Views : Admitted(v)}}
  IN \A p \in Sized : \E z \in 0..p[2] : <<p[1], z>> \in Adm

==============================================================================
