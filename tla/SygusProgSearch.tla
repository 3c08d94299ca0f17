--------------------------- MODULE SygusProgSearch ---------------------------
(***************************************************************************)
(* The sygus symmetry breaker of src/src/theory/datatypes/                 *)
(* datatypes_sygus.cpp: SygusSymBreak::ProgSearch, which rebuilds the      *)
(* candidate program of an anchor level by level from the tester literals *)
(* (is-C(t)) the datatype solver asserts, and processCurrentProgram, which *)
(* compares each candidate with the programs seen before that have the     *)
(* same normal form and blocks the redundant ones by a lemma.              *)
(*                                                                         *)
(* A term below the anchor is the path of selectors that leads to it      *)
(* (APPLY_SELECTOR_TOTAL chains, getAnchor); a selector is the pair of its *)
(* constructor and argument index, so the i-th child of is-plus(t) and of  *)
(* is-neg(t) are different terms.  The ProgSearch maps                     *)
(* d_testers, d_watched_terms, d_watched_count and d_prog_depth are        *)
(* context-dependent: they are saved at push and restored at pop.  The     *)
(* redundancy maps of SygusSymBreak and the reported lemmas are not.        *)
(***************************************************************************)
EXTENDS Naturals, Sequences, SequencesExt, FiniteSets, SygusUtil

CONSTANTS
  Constructors,   \* the constructors of the sygus datatype
  Arity,          \* constructor -> number of selectors
  MaxDepth,       \* the longest selector path that gets a tester
  MaxLevel,       \* the deepest context level
  MaxPops,        \* the most pops in a run
  MaxTesters      \* the most testers asserted in one branch

VARIABLES
  cd,       \* context-dependent: [testers, watched, wcount, pdepth]
  stack,    \* the saved copies of cd, one per pushed level
  nc,       \* not context-dependent: [red, orig, tsize, lemmas]
  status,   \* "ok", or "assert" once an Assert of the code fails
  terms,    \* the selector terms the datatype solver has created
  pops      \* the number of pops so far (bounded by MaxPops)

vars == <<cd, stack, nc, status, terms, pops>>

Sel == UNION {{<<k, j>> : j \in 1..Arity[k]} : k \in Constructors}
Paths == UNION {[1..n -> Sel] : n \in 0..MaxDepth}
\* APPLY_SELECTOR_TOTAL(dt[k][j-1].getSelector(), p)
Kid(p, k, j) == p \o <<<<k, j>>>>
Depths == 1..MaxDepth + 1

Tester(c, p) == IF p \in Paths THEN c.testers[p] ELSE Null
WCount(c, d) == IF d \in Depths THEN c.wcount[d] ELSE Null

\* SygusUtil::getVarInc: the i-th fresh variable, counting from 0.
FV(i) == <<FreshNames[i + 1]>>

\* SygusUtil::getTermSize: the fresh variables (isVar: those getVar made,
\* d_fv_stype) count 0, every other node 1.
RECURSIVE TermSize(_)
TermSize(t) ==
  IF Len(t) = 1 /\ t[1] \in Range(FreshNames) THEN 0
  ELSE 1 + FoldLeft(LAMBDA s, k : s + TermSize(k), 0, Tail(t))

(***************************************************************************)
(* getCandidateProgramAtDepth: the program below p, cut at depth: a node   *)
(* with a tester is its constructor (mkGeneric), over the programs of its *)
(* children above the cut and over fresh variables at the cut; a node      *)
(* without a tester makes the program Null.  vc is the var_count.          *)
(***************************************************************************)
RECURSIVE CandRec(_, _, _, _, _), KidsRec(_, _, _, _, _, _, _, _)
CandRec(c, p, cur, depth, vc) ==
  LET k == Tester(c, p)
  IN IF k = Null THEN [t |-> Null, vc |-> vc]
     ELSE IF cur < depth
          THEN LET r == KidsRec(c, p, 1, Arity[k], cur, depth, vc, <<>>)
               IN IF r.t = Null THEN r ELSE [t |-> <<k>> \o r.t, vc |-> r.vc]
          ELSE [t |-> <<k>> \o [j \in 1..Arity[k] |-> FV(vc + j - 1)],
                vc |-> vc + Arity[k]]
KidsRec(c, p, i, n, cur, depth, vc, acc) ==
  IF i > n THEN [t |-> acc, vc |-> vc]
  ELSE LET r == CandRec(c, Kid(p, Tester(c, p), i), cur + 1, depth, vc)
       IN IF r.t = Null THEN r
          ELSE KidsRec(c, p, i + 1, n, cur, depth, r.vc, Append(acc, r.t))

Cand(c, p, depth) == CandRec(c, p, 0, depth, 0).t

(***************************************************************************)
(* The work of one addTester call is a state W = [cd, nc, st] threaded     *)
(* through the recursive calls of the code.                                *)
(***************************************************************************)
TSize(n, r) == IF r \in DOMAIN n.tsize THEN n.tsize[r] ELSE 0
Erase(f, x) == [y \in DOMAIN f \ {x} |-> f[y]]

\* The end of processCurrentProgram: a redundant program gets its lemma,
\* once per anchor (d_lemmas_reported).
Report(W, a, prog, red) ==
  IF red /\ <<a, prog>> \notin W.nc.lemmas
  THEN [W EXCEPT !.nc.lemmas = @ \cup {<<a, prog>>}]
  ELSE W

\* Mutant: the size comparison with the representative is reversed.
ProcessCurrentProgramLargerWins(W, a, prog) ==
  LET n == W.nc
      r == Rewrite(prog)
      sz == TermSize(prog)
  IN CASE prog \in DOMAIN n.red -> Report(W, a, prog, n.red[prog])
       [] r \notin DOMAIN n.orig ->
            Report([W EXCEPT !.nc.orig = (r :> prog) @@ @,
                             !.nc.red = (prog :> r.var) @@ @,
                             !.nc.tsize = IF r.var THEN @ ELSE (r :> sz) @@ @],
                   a, prog, r.var)
       [] sz > TSize(n, r) ->
            Report([W EXCEPT !.nc.orig = (r :> prog) @@ @,
                             !.nc.red = (prog :> FALSE) @@ Erase(@, n.orig[r]),
                             !.nc.tsize = (r :> sz) @@ @],
                   a, prog, FALSE)
       [] OTHER ->
            Report([W EXCEPT !.nc.red = (prog :> TRUE) @@ @,
                             !.st = IF prog = n.orig[r] THEN "assert" ELSE @],
                   a, prog, TRUE)

\* Mutant: the replaced representative keeps its d_redundant entry.
ProcessCurrentProgramNoErase(W, a, prog) ==
  LET n == W.nc
      r == Rewrite(prog)
      sz == TermSize(prog)
  IN CASE prog \in DOMAIN n.red -> Report(W, a, prog, n.red[prog])
       [] r \notin DOMAIN n.orig ->
            Report([W EXCEPT !.nc.orig = (r :> prog) @@ @,
                             !.nc.red = (prog :> r.var) @@ @,
                             !.nc.tsize = IF r.var THEN @ ELSE (r :> sz) @@ @],
                   a, prog, r.var)
       [] sz < TSize(n, r) ->
            Report([W EXCEPT !.nc.orig = (r :> prog) @@ @,
                             !.nc.red = (prog :> FALSE) @@ @,
                             !.nc.tsize = (r :> sz) @@ @],
                   a, prog, FALSE)
       [] OTHER ->
            Report([W EXCEPT !.nc.red = (prog :> TRUE) @@ @,
                             !.st = IF prog = n.orig[r] THEN "assert" ELSE @],
                   a, prog, TRUE)

\* SygusSymBreak::processCurrentProgram for anchor a.
ProcessCurrentProgram(W, a, prog) ==
  LET n == W.nc
      r == Rewrite(prog)
      sz == TermSize(prog)
  IN CASE prog \in DOMAIN n.red -> Report(W, a, prog, n.red[prog])
       [] r \notin DOMAIN n.orig ->
            Report([W EXCEPT !.nc.orig = (r :> prog) @@ @,
                             !.nc.red = (prog :> r.var) @@ @,
                             !.nc.tsize = IF r.var THEN @ ELSE (r :> sz) @@ @],
                   a, prog, r.var)
       [] sz < TSize(n, r) ->
            Report([W EXCEPT !.nc.orig = (r :> prog) @@ @,
                             !.nc.red = (prog :> FALSE) @@ Erase(@, n.orig[r]),
                             !.nc.tsize = (r :> sz) @@ @],
                   a, prog, FALSE)
       [] OTHER ->
            Report([W EXCEPT !.nc.red = (prog :> TRUE) @@ @,
                             !.st = IF prog = n.orig[r] THEN "assert" ELSE @],
                   a, prog, TRUE)

\* ProgSearch::processProgramDepth: once every node above depth has its
\* tester, the anchor's program at that depth is processed, and so on.
RECURSIVE ProcessProgramDepth(_, _)
ProcessProgramDepth(W, depth) ==
  IF depth = W.cd.pdepth /\ (depth = 0 \/ WCount(W.cd, depth) = 0)
  THEN LET W1 == [W EXCEPT !.cd.pdepth = @ + 1]
           prog == Cand(W1.cd, <<>>, depth)
           W2 == CASE depth = 0    -> W1
                   [] prog = Null  -> [W1 EXCEPT !.st = "assert"]
                   [] OTHER        -> ProcessCurrentProgram(W1, <<>>, prog)
       IN ProcessProgramDepth(W2, depth + 1)
  ELSE W

\* ProgSearch::processSubprograms: the programs rooted at the ancestors of
\* the node n, cut at n's level, while they are complete.
RECURSIVE ProcessSubprograms(_, _, _, _)
ProcessSubprograms(W, n, depth, odepth) ==
  LET d == depth - 1
      anc == Front(n)
      prog == Cand(W.cd, anc, odepth - d)
  IN IF d > 0 /\ prog # Null
     THEN ProcessSubprograms(ProcessCurrentProgram(W, anc, prog), anc, d, odepth)
     ELSE W

\* ProgSearch::assignTester: watch the children that have no tester yet,
\* count them for the next level, uncount this node from its own level,
\* process, then assign the children whose testers were waiting.
RECURSIVE AssignTester(_, _, _)
\* Mutant: the node is not uncounted from its own level.
AssignTesterNoDecrement(W, p, depth) ==
  LET c == W.cd
      n == Arity[c.testers[p]]
      kids == [j \in 1..n |-> Kid(p, c.testers[p], j)]
      waiting == SelectSeq(kids, LAMBDA q : Tester(c, q) # Null)
      watch == {kids[j] : j \in 1..n} \ Range(waiting)
      cnt1 == [c.wcount EXCEPT ![depth + 1] = IF @ = Null THEN n ELSE @ + n]
      bad == depth > 0 /\ (cnt1[depth] = Null \/ cnt1[depth] <= 0)
      cnt2 == cnt1
      W1 == [W EXCEPT !.cd.watched = [q \in Paths |-> IF q \in watch THEN depth + 1 ELSE @[q]],
                      !.cd.wcount = cnt2,
                      !.st = IF bad THEN "assert" ELSE @]
      W2 == ProcessProgramDepth(ProcessSubprograms(W1, p, depth, depth), depth)
  IN FoldLeft(LAMBDA w, q : AssignTester(w, q, depth + 1), W2, waiting)

\* Mutant: the children are watched at the node's own depth.
AssignTesterWatchSameDepth(W, p, depth) ==
  LET c == W.cd
      n == Arity[c.testers[p]]
      kids == [j \in 1..n |-> Kid(p, c.testers[p], j)]
      waiting == SelectSeq(kids, LAMBDA q : Tester(c, q) # Null)
      watch == {kids[j] : j \in 1..n} \ Range(waiting)
      cnt1 == [c.wcount EXCEPT ![depth + 1] = IF @ = Null THEN n ELSE @ + n]
      bad == depth > 0 /\ (cnt1[depth] = Null \/ cnt1[depth] <= 0)
      cnt2 == IF depth > 0 /\ ~bad THEN [cnt1 EXCEPT ![depth] = @ - 1] ELSE cnt1
      W1 == [W EXCEPT !.cd.watched = [q \in Paths |-> IF q \in watch THEN depth ELSE @[q]],
                      !.cd.wcount = cnt2,
                      !.st = IF bad THEN "assert" ELSE @]
      W2 == ProcessProgramDepth(ProcessSubprograms(W1, p, depth, depth), depth)
  IN FoldLeft(LAMBDA w, q : AssignTester(w, q, depth + 1), W2, waiting)

AssignTester(W, p, depth) ==
  LET c == W.cd
      n == Arity[c.testers[p]]
      kids == [j \in 1..n |-> Kid(p, c.testers[p], j)]
      waiting == SelectSeq(kids, LAMBDA q : Tester(c, q) # Null)
      watch == {kids[j] : j \in 1..n} \ Range(waiting)
      cnt1 == [c.wcount EXCEPT ![depth + 1] = IF @ = Null THEN n ELSE @ + n]
      bad == depth > 0 /\ (cnt1[depth] = Null \/ cnt1[depth] <= 0)
      cnt2 == IF depth > 0 /\ ~bad THEN [cnt1 EXCEPT ![depth] = @ - 1] ELSE cnt1
      W1 == [W EXCEPT !.cd.watched = [q \in Paths |-> IF q \in watch THEN depth + 1 ELSE @[q]],
                      !.cd.wcount = cnt2,
                      !.st = IF bad THEN "assert" ELSE @]
      W2 == ProcessProgramDepth(ProcessSubprograms(W1, p, depth, depth), depth)
  IN FoldLeft(LAMBDA w, q : AssignTester(w, q, depth + 1), W2, waiting)

------------------------------------------------------------------------------

Init ==
  /\ cd = [testers |-> [p \in Paths |-> Null], watched |-> [p \in Paths |-> Null],
           wcount |-> [d \in Depths |-> Null], pdepth |-> 0]
  /\ stack = <<>>
  /\ nc = [red |-> <<>>, orig |-> <<>>, tsize |-> <<>>, lemmas |-> {}]
  /\ status = "ok"
  /\ terms = {<<>>}
  /\ pops = 0

Apply(W) == cd' = W.cd /\ nc' = W.nc /\ status' = W.st

\* SygusSymBreak::addTester and ProgSearch::addTester for a tester is-k(p)
\* of a term below the one anchor; the "already seen" early return leaves
\* the state as it is.  The solver splits on terms it has created: the
\* anchor, and the selectors of a constructor once a tester for it was
\* asserted, in this branch or in one that was popped since.
AddTester(p, k) ==
  /\ status = "ok"
  /\ p \in terms /\ cd.testers[p] = Null
  /\ Cardinality({q \in Paths : cd.testers[q] # Null}) < MaxTesters
  /\ terms' = terms \cup ({Kid(p, k, j) : j \in 1..Arity[k]} \cap Paths)
  /\ LET W0 == [cd |-> [cd EXCEPT !.testers[p] = k], nc |-> nc, st |-> status]
     IN Apply(CASE p = <<>>               -> AssignTester(W0, p, 0)
                [] cd.watched[p] # Null   -> AssignTester(W0, p, cd.watched[p])
                [] OTHER                  -> W0)
  /\ UNCHANGED <<stack, pops>>

\* Context::push: a new scope; the context-dependent maps are saved.
Push ==
  /\ status = "ok" /\ Len(stack) < MaxLevel
  /\ stack' = Append(stack, cd)
  /\ UNCHANGED <<cd, nc, status, terms, pops>>

\* Context::pop: the context-dependent maps get their saved values back.
Pop ==
  /\ status = "ok" /\ stack # <<>> /\ pops < MaxPops
  /\ cd' = Last(stack) /\ stack' = Front(stack)
  /\ pops' = pops + 1
  /\ UNCHANGED <<nc, status, terms>>

Next ==
  \/ \E p \in Paths, k \in Constructors : AddTester(p, k)
  \/ Push
  \/ Pop

Spec == Init /\ [][Next]_vars

------------------------------------------------------------------------------
(***************************************************************************)
(* Properties.                                                             *)
(***************************************************************************)

TypeOK ==
  /\ cd.testers \in [Paths -> Constructors \cup {Null}]
  /\ cd.watched \in [Paths -> Depths \cup {Null}]
  /\ cd.pdepth \in 0..MaxDepth + 2
  /\ Len(stack) <= MaxLevel
  /\ status \in {"ok", "assert"}

\* The nodes whose tester has been assigned: every node on the way from
\* the anchor has a tester, and each step takes a selector of the
\* constructor above it.
Assigned(T) ==
  {p \in Paths : /\ T[p] # Null
                 /\ \A j \in 1..Len(p) :
                      p[j][1] = T[SubSeq(p, 1, j - 1)]}

\* The first depth whose program is not yet known: no node of the level
\* above is assigned, or one of their children still lacks its tester.
ExpectedDepth(T) ==
  LET A == Assigned(T)
      Open(d) == \/ \A q \in A : Len(q) # d - 1
                 \/ \E q \in A : Len(q) = d - 1 /\ \E j \in 1..Arity[T[q]] : Kid(q, T[q], j) \notin A
  IN IF T[<<>>] = Null THEN 0
     ELSE CHOOSE d \in 1..MaxDepth + 2 : Open(d) /\ \A e \in 1..d - 1 : ~Open(e)

\* The watch counts of assignTester and the level walk of
\* processProgramDepth agree with the tester tree, whatever order the
\* testers arrive in and across pops: d_prog_depth is always one past the
\* deepest level whose every node has its tester, and no Assert of the
\* search (a watch count at zero, an incomplete candidate) fails.
SearchExact ==
  /\ status = "ok"
  /\ cd.pdepth = ExpectedDepth(cd.testers)

\* processCurrentProgram never blocks the representative of a normal form
\* (the smallest program seen with it), and every program it blocks
\* rewrites to a fresh variable or has a representative that is no larger.
SymBreakSound ==
  /\ \A r \in DOMAIN nc.orig : ~r.var => \A l \in nc.lemmas : l[2] # nc.orig[r]
  /\ \A l \in nc.lemmas :
       LET r == Rewrite(l[2]) IN
       r.var \/ (r \in DOMAIN nc.orig /\ nc.orig[r] # l[2]
                 /\ TermSize(nc.orig[r]) <= TermSize(l[2]))

\* The d_redundant cache, which survives pops, marks a program as not
\* redundant only while it is the representative of its normal form, so a
\* program replaced by a smaller one is blocked when it is seen again.
RedundancyCacheCurrent ==
  \A prog \in DOMAIN nc.red : ~nc.red[prog] => nc.orig[Rewrite(prog)] = prog

==============================================================================
