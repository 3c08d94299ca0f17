# TLA+ models of CVC4's LFSC proof layer

This directory holds TLA+ specifications of the parts of `src/` that TLC can
check. Most of that code is the LFSC proof-compilation layer of CVC4, which
turns the solver's internal reasoning into a proof term that a small checker
can verify. This file describes:

- the system's parts and how they interact;
- which module models which part;
- what each TLC run checks and what its result shows;
- what is not modelled, and why.

## The system

| Part | Source | What it does |
|---|---|---|
| Theory proof engine | `proof/theory_proof.cpp`, `proof/theory_proof.h` | Registers a certifier per theory (`registerTheory`, `getTheoryProof`). Registers terms and sorts (`registerTerm`). Prints declarations, assertions and let-shared terms (`bind`, `printLetTerm`, `printBoundTerm`). Prints the theory lemmas (`printTheoryLemmas`, `finalizeBvConflicts`). |
| Lemma recipes | `proof/lemma_proof.h` | A `LemmaProofRecipe` for each conflict clause. It holds proof steps, each with a theory, a literal and missing assertions, and the rewrite explanations. |
| Certifiers | `proof/theory_proof.cpp` (`TheoryProof::printTheoryLemmaProof`), `proof/uf_proof.cpp`, `proof/array_proof.cpp` | Prove one theory lemma. UF and ARITH print `trust`. ARRAY and BV replay the lemma on a fresh solver. A theory without a certifier fails an assertion. |
| Array equality-proof recompiler | `proof/array_proof.cpp` (`ProofArray::toStreamRecLFSC`) | Translates an equality-engine proof tree (congruence, transitivity, reflexivity, read-over-write, extensionality) into LFSC terms. |
| Array/UF declarations | `proof/array_proof.cpp`, `proof/uf_proof.cpp` | Registers sorts, terms and skolems, and prints their declarations. Skolem declarations are deferred. |
| Backtrackable context | `context/context.cpp` | Scopes with `push`/`pop`/`popto`. Context objects save and restore themselves per scope. Notify objects are called around a pop. |
| Sygus splits and symmetry breaking | `theory/datatypes/datatypes_sygus.cpp` | Splits and symmetry-breaking lemmas for syntax-guided synthesis datatypes. `SygusSplit` gives the datatype solver the splits of a sygus term, the constructors it may take there, after it drops those that are redundant by the grammar's kinds, constants and the rewriter. `SygusSymBreak` rebuilds each candidate program from the tester literals (`is-C(t)`) the datatype solver asserts, in context-dependent maps that a pop restores, and blocks a program whose normal form was already seen with a smaller one. Both use `SygusUtil`'s tables, fresh variables and normal forms. |
| Listeners, quantifier split | `expr/node_manager_listeners.h`, `theory/quantifiers/quant_split.h` | Declarations only. |

The proof output is produced in a fixed order:
1. Registration: every assertion's terms are registered with the certifier of their theory.
2. Declarations.
3. Assertions.
4. Theory lemmas: the BV conflicts first, as one batch, then every conflict clause in ClauseId order.

Each lemma is either one `satlem` or one `satlem` per recipe step. A composite
lemma's step satlems are then combined by a right-nested R/Q resolution into
the lemma's own name. Rewrite filters in the proof manager redirect the name of
a "missing assertion" to a derivation from its rewritten explanation. They are
set just before a certifier call and cleared just after it.

## Modules

### `CertifiedLemmas` (abstract)

This states what the lemma printing promises the SAT-level proof that uses it:
- each lemma name is bound once, in ClauseId order;
- each name stands for exactly the lemma's conflict clause;
- a fatal error may stop the printing at any point.

Variables:
- `lemmaClause`: the input;
- `bound`: what each name stands for;
- `stopped`.

### `LemmaAssembler` (detailed)

This models `LFSCTheoryProofEngine::printTheoryLemmas` and
`finalizeBvConflicts` of `theory_proof.cpp`.

State:
- `recipe`: ClauseId to recipe; read-only.
- `bvBatch`: the clauses handed to the BV prover.
- `phase`, `lem`, `stp`: the loop counters.
- `clause`: the `currentClause`.
- `given`: the `currentClauseExpr` handed to the certifier.
- `filters`: `d_rewriteFilters`.
- `out`: the binders printed so far. Each is a record with the name, the clause, the clause given to the certifier, the filters active during the call, and the proof kind or fold term.
- `error`: the fatal error that stopped printing.

Actions:

| Action | Code |
|---|---|
| `FinalizeBvConflicts` | `finalizeBvConflicts`, lines 459-563 |
| `BeginSimpleLemma` | the simple branch up to the certifier call, lines 616-701 |
| `BeginStep` | one iteration of the composite loop up to the certifier call, lines 714-814 |
| `Certify` | the certifier call, the filter clear and the binder, lines 703-712 and 816-825 |
| `Fold` | the `satlem_simplify` R/Q fold, lines 914-941 |
| `Finish` | the end of the loop |

Terms are abstracted to atoms, and a literal is `<<atom, polarity>>`. A step
literal uses a fresh atom, so step *i* uses `StepAtom[i]`.

A certifier call is abstracted to its outcome:
- `trust` for UF (`uf_proof.cpp:81`) and ARITH (`theory_proof.cpp:1109`);
- `replay` for ARRAY;
- for BV, a lookup in the batch. The BV prover is not under `src/`; its behaviour is taken from spec section 4.5.
- an abort for a theory not in `Registered`.

The module ends with a reference semantics of the proof checker:
- `SatlemClause` undoes the rewrite filters;
- `Resolve` checks R/Q resolution.

`Abstract` maps the printed binders to `CertifiedLemmas!bound`.

### `TransChain`

This models the `MERGED_THROUGH_TRANS` case of `ProofArray::toStreamRecLFSC`
(`array_proof.cpp:550-822`). Its children are given equalities, and at most
one of them is a disequality.

State, named after the code's locals:
- `child`: the children's nodes;
- `goal`: `pf->d_node`;
- `i`: the loop index;
- `n1`: the equality proven so far;
- `ss`: the printed prefix, kept as the proof term it denotes;
- `ident`: `identicalEqualities`;
- `status`: `run`, `done`, or the Assert/Unreachable that stopped the call.

Actions:

| Action | Code |
|---|---|
| `IdenticalRunStart` | a run of children identical to `n1`: the parity lookahead and the collapse, lines 586-685 |
| `IdenticalRunContinue` | skipping the rest of that run, lines 686-695 |
| `Chain` / `ChainStep` | one chaining step: the four cases, with `symm`/`negsymm` and `trans`/`negtrans1`/`negtrans2`, lines 567-585 and 720-778 |
| `Return` | the final flip and return, lines 809-821 |

`match()` (lines 33-90) is modelled on terms without operators, which is all
the terms here are. `Proves` is a small LFSC equality checker. It gives the
equality a proof term concludes, or `Ill`.

### `ArrayContra`

This models the top-level call (`tb == 0`) of `toStreamRecLFSC`, lines
121-285. It composes `TransChain` through `T == INSTANCE TransChain`, which
shares its variables.
- `RepackLoop` is the loop of lines 131-219, written as a recursive operator. It finds the negated child. It collects each run of dangling congruences (`RunLength`). It decides whether the run's target comes before or after the run. It puts the congruences' children around the target, skipping reflexive ones (`Ordered`).
- `Repack` runs that loop and starts the transitivity call on `subTrans`.
- `TransStep` is one step of that call.
- `ContraStep` prints `contra`:
  - for an EXT-proved negated child, with `ss` as it is;
  - otherwise, after the orientation Assert, with `symm` applied when `n1[1] == n2[0][0]`.

The inputs are the conflicts the equality engine can hand over (the engine is
not under `src/`):
- a simple explanation path of given equalities, each in either orientation, with the negated child inserted at any position;
- a target equality with up to `MaxCong` dangling congruences. The runs are in both nesting orders, with the target before or after them and the negated child at either end. Each side of each congruence has either orientation or is reflexive.

### `SharingPass`

This models `bind`, `printLetTerm`, `printBoundTerm` and `printTheoryTerm`, and
`printAssertions` as the loop that drives them (`theory_proof.cpp`).
- `Bind` is the post-order occurrence count.
- `PrintLetTerm` gives the lets in binding order, then the body.
- The static `LetCount::counter` is a variable, because it is never reset between assertions.
- UF arguments are printed with the engine's map-less `printTerm`.
- `Expand` and `ExpandLets` are a reference semantics of `(@ x t body)`.

### `Context`

This models `context.cpp`: `Context`, `Scope`, `ContextObj` and
`ContextNotifyObj`.

State:
- `top`: the current level;
- `val`: each object's current value;
- `scope`: the level of the object's Scope;
- `saved`: the restore chain, a sequence of saved copies `[val, scope]`;
- `links`: for each level, the objects that the Scope's list reaches. This is kept apart from `scope` and `saved`, as the code keeps the list links apart from the restore pointers. `update()` adds the object to the top list without unlinking it from the list it was in. Its copy holds those old links, and `restoreAndContinue` puts them back;
- `dying`: the object whose destructor is running;
- `pre`, `post`: the notify lists, in list order;
- `alive`, `created`, `cno`: lifetimes;
- `phase`, `target`, `cleared`: the progress of `popto` and `~Context`;
- `snap`: a history variable, the values at each push. Only `PopRestores` reads it.

Each public operation is an action:
- `CreateObj`, which joins the bottom Scope at any level;
- `SetObj`, with `Update`;
- `~ContextObj`, one turn of its loop at a time: `DestroyObj` enters it, `DestroyNext` unlinks and calls `RestoreAndContinue`, and `DestroyDone` is the last unlink, with no restore pointer left;
- `Push`;
- `Pop`, with `PopScope` restoring each object of the popped Scope's list. It includes the Assert at line 156 (`ScopeAssert`).
- `PopTo`, taken one pop at a time (`PopToStep`, `PopToEnd`);
- `AddNotifyObj`, `DestroyNotifyObj`;
- `DestroyContext`, with its loops over the notify lists (`ClearPreStep`, `ClearPostStep`).

`Scope`, `addToChain` and `makeCurrent` are in `context/context.h`, which the
repository does not contain. The model takes `makeCurrent` to call `update()`
when `d_pScope` is not the top Scope, and `addToChain` to insert into the
Scope's list. No property restates that guard.

`ClearPreStep` is the code's loop body. It unlinks the head, and it assigns the
successor to `d_pContextNotifyObj` rather than to the list head.

### `Registration`

This models term registration and the declaration passes.

State:
- `reg`: the engine's registration cache, and each certifier's `d_sorts` and `d_declarations`;
- `marks`: the extra registrations;
- `skolemDecls`, `skolemToLit`: the array certifier's deferred skolems and their `.sl` names;
- `out`: the declarations printed.

Operators:
- `EngineReg`: `TheoryProofEngine::registerTerm`, with its cache, its Boolean/ITE walk and its skolem special case;
- `TheoryReg`: the certifiers' `registerTerm`.

Actions, one per pass of the engine:
- `RegisterAssertion`;
- `PerformExtraRegistrations`;
- `PrintSortDeclarations`;
- `PrintTermDeclarations`;
- `PrintDeferredDeclarations`.

Terms are built over one uninterpreted sort `U`, from:
- `x` and the skolem `sk` of sort U, the arrays `a` and `b` of sort `(Array U U)`, and the Boolean `p`;
- a unary function `f`;
- `select`, `=`, `not` and `ite`.

### `ProofPreamble`

This module puts `Registration` and `SharingPass` side by side, through
`INSTANCE`, in one specification. The sharing part's variables are renamed
`letAssertion`, `letK` and `letOut`. The passes share no state, so the initial
state picks which one runs (`part`), and the other keeps its initial values. Its
properties are those of each pass, read on that pass's behaviours.

### `EqRecompiler`

This models the dispatch of `toStreamRecLFSC` on `pf->d_id` below the top
level (`array_proof.cpp:531-1040`). It composes `TransChain` through
`T == INSTANCE TransChain`, so the `MERGED_THROUGH_TRANS` case is the
`TransChain` walk.

State: `pf`, the derivation handed over (`id`, `node`, `child`); `phase`; `out`,
the printed proof term; `ret`, the returned Node; and the `TransChain`
variables.

| Action | Code |
|---|---|
| `EmitEquality` | `MERGED_THROUGH_EQUALITY`: the literal's name, lines 542-548 |
| `EmitRefl` | `MERGED_THROUGH_REFLEXIVITY`, lines 533-540 |
| `EmitRow` | ROW with a select on the right: the two mirror shapes, `negsymm` unless `subproof[0][1] == t3`, the Assert when neither shape matches, lines 824-887 |
| `EmitNegativeRow` | the else branch (`i == k`): the store side of the child, `negativerow`, lines 888-968 |
| `EmitRow1` | `MERGED_ARRAYS_ROW1`, lines 970-1003 |
| `EmitExt` | `MERGED_ARRAYS_EXT`: `or_elim_1` of the child's literal and the skolem's `.sl` binder, lines 1005-1032 |
| `TransStep` | `MERGED_THROUGH_TRANS`, one `TransChain` step, lines 550-822 |
| `Halted` | the end of a call; the default case is an `AlwaysAssert` that no input reaches |

`Proves` extends the LFSC checker with `row`, `negativerow`, `row1`,
`or_elim_1` and the `.sl` binder, each with the conclusion its signature gives.
The inputs (`IsRuleInput`) are the derivations the equality engine hands
over. Each one's child is a given literal.

### `ArrayProof`

This composes both levels of `toStreamRecLFSC` into one specification:
`ER == INSTANCE EqRecompiler` for the calls with `tb > 0` (the `switch` on
`pf->d_id`, line 288) and `AC == INSTANCE ArrayContra` for the call with
`tb == 0` (lines 120-123), which `toStreamLFSC` makes (line 104). The two share
the `TransChain` variables. `pf = Top` marks the top-level call; `TopLevel`
steps `ArrayContra` and `Below` steps `EqRecompiler`. Each property is the
component's own, restricted to the level it is about.

### `SygusProgSearch`

This models `SygusSymBreak::addTester` and its `ProgSearch` for one anchor
(`datatypes_sygus.cpp:647-867`, `1066-1109`). A term below the anchor is the
path of selectors that leads to it. A selector is the pair of its constructor
and argument index, so the first child of `is-PLUS(t)` and of `is-UMINUS(t)`
are different terms (`Kid`, line 698).

State:
- `cd`, the context-dependent maps: `testers` (`d_testers`), `watched` (`d_watched_terms`), `wcount` (`d_watched_count`) and `pdepth` (`d_prog_depth`);
- `stack`, the copies of `cd` a push saves;
- `nc`, what survives a pop: `red` (`d_redundant`), `orig` (`d_normalized_to_orig`), `tsize` (`d_normalized_to_term_size`) and `lemmas` (`d_lemmas_reported`, as pairs of anchor and program);
- `status`, `"assert"` once an Assert of the code fails;
- `terms`, the selector terms the datatype solver has created, and `pops`.

One call of `addTester` is one action. Its recursive calls are operators
that thread a record `W = [cd, nc, st]`:

| Operator | Code |
|---|---|
| `AddTester` | `SygusSymBreak::addTester` and `ProgSearch::addTester`, lines 647-688: the "already seen" return, the anchor, a watched term, or the wait list |
| `AssignTester` | lines 690-733: watch the children without a tester, add the arity to the next level's count, uncount the node (with the `Assert`), `processSubprograms`, `processProgramDepth`, then the waiting children |
| `ProcessProgramDepth` | lines 735-757 |
| `ProcessSubprograms` | lines 759-780 |
| `CandRec`, `KidsRec`, `Cand` | `getCandidateProgramAtDepth`, lines 782-811, with `mkGeneric`'s fresh variables (`FV`, `getVarInc`) at the cut |
| `ProcessCurrentProgram`, `Report` | `processCurrentProgram`: the cache, a new normal form, a smaller program that replaces the representative, a redundant one; the lemma once per anchor |
| `TermSize` | `getTermSize`: the fresh variables count 0 |
| `Push`, `Pop` | `Context::push` and `Context::pop` (`context.cpp:58-97`), which save and restore the context-dependent maps |

The rewriter behind `getNormalized` is not under `src/`. It is the constant
operator `Rewrite` of `SygusUtil`, which gives a term's normal form and
whether that is one fresh variable. `MCSygus` gives it as the term's
polynomial over the integers. `getSygusNormalized` returns its argument
unchanged (line 1294: the renaming after it is dead code), so the normal form
is the rewriter's alone.

### `SygusUtil`

The constants both sygus parts take from `SygusUtil`: `FreshNames`, the
variables of `getVar` that stand for the arguments of a generic term;
`Rewrite`, `getNormalized`; and `Null`.

### `SygusSplit`

This models `SygusSplit::getSygusSplits` (`datatypes_sygus.cpp:33-638`) for
one integer sygus datatype, given as `Grammar`, a sequence of constructors in
datatype order, each a variable, a constant or a kind with its arity. A term
with splits is the root or a selector chain of up to `MaxSplitDepth`
selectors. `SygusUtil`'s tables are operators: `ArgKind`, `IsConstArg`,
`KindArg` (the last constructor of a kind), `HasConst`, and the integer rows
of `isAssoc`, `isComm`, `isIdempotentArg`, `isSingularArg` and `getTypeValue`.

State:
- `opts`, the options `sygusNormalForm`, `sygusNormalFormArg` and `ceGuidedInstFair = DT_SIZE`, chosen in the initial state and fixed;
- `nred` (`d_sygus_nred`), `pcnred` (`d_sygus_pc_nred`, keyed by constructor and argument), `argpos` (`d_sygus_pc_arg_pos`);
- `genred` (`d_gen_redundant`) and `genterms` (`d_gen_terms`), the cache of `isGenericRedundant`;
- `splits` (`d_splits`), and `sstatus`, `"assert"` once `Assert(!d_splits[n].empty())` fails.

One call of `getSygusSplits` for a term not asked before is one action,
`GetSygusSplits(n)`. A repeated call only copies `d_splits[n]`. The calls it
makes thread a record `W` of the maps:

| Operator | Code |
|---|---|
| `IsGenericRedundant`, `CacheGeneric` | lines 604-638, the active branch: the first generic term of a normal form wins |
| `RegisterSygusType`, `RegTypeLoop`, `RegTypeStep` | lines 197-256: under `sygusNormalForm` a constructor is redundant when its generic term is |
| `RegArg`, `RegArgBody`, `PcLoop`, `PcStep` | `registerSygusTypeConstructorArg`, lines 258-316: the entry first, the tables `ConsiderSygusSplitKind` (401-513) and `ConsiderSygusSplitConst` (516-564), and the generic term under a unary parent |
| `RegArgSibling`, `Relations`, `RelStep`, `RemLoop`, `RemStep` | lines 317-392: a binary parent registers the other argument, and argument 0 computes which first arguments are left for each second argument, removing by commutativity, singular constants and generic redundancy; a second argument with none left is dropped |
| `SplitsOf` | lines 59-190: the tester of each constructor kept, strengthened by the first argument's testers and `DT_SIZE(n) <= DT_SIZE(arg1)` for a commutative parent, with the fairness equation, and guarded by the parent's tester when something was left out |
| `Generic` | `mkGeneric`, lines 1254-1291 |

A split formula is a tree of `"is"`, `"and"`, `"or"`, `"not"`, `"leq"` and
`"szeq"` nodes, checked against programs by `Holds`.

### `Sygus`

`Sygus` extends `SygusProgSearch` and `SygusSplit`, which share only what
`SygusUtil` gives, so the two parts run side by side in one specification.
The initial state picks the part (`part`). The search runs with
`sygusNormalForm`, `sygusNormalFormArg` and fairness on; the splits run under
every setting of the options. Each property is its part's property, stated on
that part's states.

## Runs

| Run | Cfg | Expect | Checks |
|---|---|---|---|
| `lemma_assembler` | `MCLemmaAssembler.cfg` | pass | `TypeOK`, `ImplementsCertifiedLemmas` (refinement of `CertifiedLemmas`) |
| `bv_batch` | `MCLemmaAssemblerBv.cfg` | violation | `BvConflictsFinalized` |
| `array_proof` | `MCArrayProof.cfg` | pass | `TypeOK`, `RulesCheck`, `TransPrefixProvesN1`, `TransNeverFails`, `TopLevelRefutes` |
| `negrow_select_index` | `MCEqRecompilerNegRow.cfg` | violation | `RulesCheck` |
| `negrow_symm_child` | `MCEqRecompilerNegRowSymm.cfg` | violation | `RulesCheck` |
| `trans_goal` | `MCTransChainGoal.cfg` | violation | `TransReturnsGoal` |
| `array_contra_ext` | `MCArrayContraExt.cfg` | violation | `TopLevelRefutes` |
| `context` | `MCContext.cfg` | pass | `ObjectsInLiveScopes`, `ChainsConsistent`, `PopRestores` (action property) |
| `context_destructor` | `MCContextDestroy.cfg` | violation | `ContextDestructorTerminates` (liveness) |
| `proof_preamble` | `MCProofPreamble.cfg` | pass | `TypeOK`, `SymbolsDeclared`, `SkolemsNamed`, `LetTermFaithful` |
| `sorts_declared` | `MCRegSortsDeclared.cfg` | violation | `SortsDeclared` |
| `sygus` | `MCSygus.cfg` | pass | `SygusTypeOK`, `SearchDepthExact`, `SearchSymBreakSound`, `SearchCacheCurrent`, `SplitCacheStable`, `SplitLemmasComplete` |

Each property of a passing run has a mutant in `PROJECT.json`: a plausible bug
in a mapped definition, for which TLC finds the property violated.

### Bounds and what they reach

- **`lemma_assembler`** (292k states):
  - two lemmas, of up to 3 and up to 2 steps;
  - clause literals over two atoms `c1` and `m1`;
  - one missing assertion (`m1`), whose explanation may be any literal of the step's clause;
  - step theories ARRAY and BV.

  Every recipe of that shape is an initial state. This reaches:
  - a filter set for lemma 1 leaking into lemma 2;
  - a negated step literal, which needs Q;
  - a 3-step fold, where the nesting order matters;
  - a BV step with a missing assertion.
- **`array_proof`** (1.50M states, symmetry over the three top-level terms) is the union of the two instances below. Its initial states are those of both.
- Below the top level (the `EqRecompiler` instance):
  - the TRANS case: every walk of up to 4 children, each equality in either orientation, with at most one disequality on simple walks. This reaches identical runs of length 1 to 4, odd and even, at the start, the middle and the end, and every chaining case with the disequality on either side;
  - the other cases: the indices `ix`, `iy` and the read `(select x2 ix)`; the arrays `x1`, `x2` and `(store x1 ix iy)`, so a store can be nested; one skolem for `x1 != x2`. ROW and ROW1 nodes and ROW children come in both orientations. A negative ROW node, over `ix` and `iy`, is `i = k`, as the comment at line 909 says. Its child is in the orientation `negativerow` expects. `negrow_symm_child` runs the child's symmetrical version, which the comment at lines 913-914 also allows. `array_proof` leaves it out because that version fails there.
- The top level (the `ArrayContra` instance):
  - plain paths of up to 3 equalities;
  - congruence runs of up to 3, with reflexive sides and with the target and the negated child in all four arrangements.

  Three congruences are the first size at which the front and back insertions of both sides interleave more than once.
- **`proof_preamble`** (1.04M states) runs `Registration` and `SharingPass` side by side in `ProofPreamble`; the initial state picks one. The sharing part (16k states) covers every pair of assertions of height 2 over two leaves. This reaches:
  - subterms repeated within one assertion and across assertions;
  - the shared counter;
  - UF arguments.
- **`context`** (40k states, symmetry over objects and values):
  - levels up to 3;
  - two objects and two values;
  - one notify object.

  This reaches:
  - objects created above level 0;
  - assignments at several levels;
  - `popto` across two levels;
  - objects destroyed with saved copies at up to three levels, so the destructor's loop runs several turns.
- The registration part of **`proof_preamble`** (1.02M states): every pair of formulas over the terms above, with and without an extra registration of `x` with the array theory.
- **`sygus`** (1.60M states, about 2 minutes). The search part:
  - the grammar `x | PLUS(S, S) | UMINUS(S)`, selector paths up to 2 long (`MaxDepth`);
  - up to 4 testers in a branch (`MaxTesters`);
  - one push level and one pop.

  This reaches:
  - programs that rewrite to a fresh variable (`UMINUS(UMINUS(fv0))`);
  - a smaller program replacing a representative;
  - lemmas at a subterm anchor;
  - after the pop, testers of children that arrive before their parent's, so that `assignTester` runs on the wait list.

  The split part (3,296 states):
  - the grammar `x | 0 | 1 | PLUS | MINUS | UMINUS | MULT`, in that order, which has every integer row of the tables: an associative and commutative kind, a non-commutative one, a unary one that UMINUS-over-PLUS pushing applies to, idempotent and singular constants on either side;
  - the root and its selector terms (`MaxSplitDepth` 1), asked in every order, under all eight settings of the options;
  - `SplitLemmasComplete` over every program of `DT_SIZE` up to 2 (`MaxProgSize`), which is the least size with a binary parent over a binary child.

  This reaches: children of a unary parent cut by the kind table (`UMINUS` and `PLUS` under `UMINUS`) and by generic redundancy (`UMINUS(0)`); commutativity and singular removals in the argument relationships; a second argument with no first argument left; and both winners of the first-wins cache (`MINUS(0, x)` before or after `UMINUS(x)`).

### What the runs show

- `lemma_assembler`:
  - The printing loop is correct for every recipe it enumerates.
  - The filters are cleared after every certifier call.
  - The fold's operators and pivots match the partial clauses.
- `array_proof`, below the top level: every EQUALITY, REFLEXIVITY, ROW, negative ROW, ROW1 and EXT node over these terms gets a proof term that checks and concludes its node up to symmetry. In the TRANS case, after every child, the printed prefix proves exactly `n1`, and no Assert is reached.
- `array_proof`, at the top level: for a given negated child, repacking and transitivity always reach a `contra` that checks.
- `context`:
  - Pops restore each level's values exactly. This includes objects constructed after the push, which are restored to their constructed value.
  - No object keeps a pointer to a popped Scope.
  - Every Scope's list holds exactly the live objects whose restore chain passes through that Scope, so a pop restores exactly the objects it should. The destructor's walk also unlinks a destroyed object from every list.
- `proof_preamble`: every variable and function symbol is declared, and every skolem gets its `.sl` name. The printed let terms always mean the assertions.
- `sygus`, the search:
  - Whatever order the testers arrive in, and across a pop, `d_prog_depth` is one past the deepest level whose every node has a tester, and no watch count Assert fails.
  - No lemma ever blocks the representative of a normal form.
  - Every blocked program rewrites to a fresh variable or has a representative no larger than itself.
  - `d_redundant`, which a pop does not restore, marks a program not redundant only while it is its normal form's representative.
- `sygus`, the splits:
  - Whatever order the solver asks for splits in, and whatever the options, the `d_splits` cached at a term's first call are those the final redundancy maps give: no later registration makes them stale.
  - The splits only cut symmetries: every program up to `DT_SIZE` 2 has one with the same normal form and no larger size that satisfies every split asked so far, so the size-fair enumeration still reaches every function. No `Assert(!d_splits[n].empty())` fails.
- The violation runs are the findings below.

### Fairness

Only `Context` has a liveness property. Its specification has
`WF_vars(Destructor)`: the destructor's loops run on one thread with no
blocking, so once `~Context` has started, its next step cannot stay enabled
forever without being taken. No fairness is given to the operations that
callers choose to make. The other modules check safety properties of
sequential loops and assume no fairness. `sygus` does not check for
deadlock: the solver stops asserting testers once every created term has one,
and stops asking for splits once every term has them, which are normal ends.

## Findings

1. `theory_proof.cpp:799`: the BV batch holds the partial clause from before missing-assertion replacement, and the BV certifier is given the clause after it (`bv_batch`).
2. `array_proof.cpp:640`: a transitivity proof that ends in an even run of identical equalities keeps `n1[0]`, because `match()` of two constants is always true. The returned equality is reflexive over the wrong term (`trans_goal`).
3. `context.cpp:43`: the loops of `~Context` assign the successor to `d_pContextNotifyObj` instead of the list head. They never end while a notify object is registered (`context_destructor`).
4. `array_proof.cpp:1061`: the sorts inside an array type are never registered. An assertion over arrays alone declares `(Array U U)` with `U` undeclared (`sorts_declared`).
5. `array_proof.cpp:248`: for an EXT-proved negated child, `contra` gets `ss` without the orientation test of the other branch. When the path proves `b = a` against an EXT proof of `a != b`, the contra does not check (`array_contra_ext`).
6. `array_proof.cpp:829`: ROW and negative ROW are told apart by whether the node's right side is a select. A negative ROW node `ix = (select x2 ix)`, whose index is a read, goes to the positive branch, and the Assert on the store shape fails (`negrow_select_index`).
7. `array_proof.cpp:954`: a negative ROW whose child is in its symmetrical version is accepted (lines 913-922) but printed without `negsymm`, which is commented out at lines 954-960. The `negativerow` term does not check (`negrow_symm_child`).

A further divergence is recorded as a hazard and not as a run. A skolem
registered with both the UF and the array certifier is declared twice, which
contradicts the spec's "exactly one declaration". The second declaration is a
lambda binder that shadows the first, so the printed proof still checks.

The abort for a theory without a certifier (`theory_proof.cpp:109`) is modelled
(`CertifierOutcome`) but no run checks it. The spec says two different things
about it: section 4.1 calls the lookup a fatal programming error, which is what
the code does, and section 7 asks for a trusted placeholder.

One more orientation hazard of the negative ROW case is recorded without a
run. At line 910, the node `i = k` is printed as `negativerow t1 t2` in the
engine's orientation, and nothing checks that orientation. The engine, outside
`src/`, decides it, and the comment at line 909 says it is `i == k`. With
`NegRowNodeLeft` set to `{TRUE, FALSE}`, TLC finds `RulesCheck` violated.

## Plan

1. `LemmaAssembler` + `CertifiedLemmas`: done.
2. `TransChain`: done.
3. `SharingPass`: done.
4. `Registration`: done.
5. `Context`: done.
6. `ArrayContra` (top-level repacking and contra): done, except for predicate (`APPLY_UF`) negated children.
7. `EqRecompiler` (EQUALITY, REFLEXIVITY, ROW, negative ROW, ROW1, EXT, TRANS): done, with given children.
8. `ArrayProof` (both levels of `toStreamRecLFSC` in one run): done.
9. `SygusProgSearch` (the tester search and the redundancy caches of `SygusSymBreak`): done for one anchor. `SygusSplit`: done for one integer datatype.
10. Next: nested derivations as ROW and TRANS children (a TRANS child proved by ROW), within TLC's reach.
11. Next: the Boolean/OR lemma pass and the remaining printing of `theory_proof.cpp` (assertions with rewrites, `printTheoryTerm` for ITE and Boolean terms).
12. Later: several anchors sharing the redundancy caches, and selector paths of length 3, which a subprogram completed by a shallow leaf needs (see the hazard at `datatypes_sygus.cpp:767`); `SygusSplit` over two datatypes (an integer grammar under a Boolean one), for the antisymmetric kinds and `hasOffsetArg`.

## Not modelled

- The rest of `datatypes_sygus.cpp`:
  - in `SygusSplit`, what needs a second datatype: the antisymmetric kinds `GT`/`GEQ` of `registerSygusType` (lines 215-240), `hasOffsetArg` for `LT` (lines 536-562) and the type checks of `considerSygusSplitKind`; the `ITE` constraints of `getSygusSplits` (lines 121-152); splits of terms below depth 1;
  - the inactive branch of `isGenericRedundant` (lines 625-634), which no caller in the file reaches;
  - the lemma generalisation of `processCurrentProgram` under `sygusNormalFormGlobalGen` (`isSeparation`, `getSeparationTemplate`, `processConstantArg`) and the text of a lemma: the model records which program each anchor blocks;
  - the Boolean and bit-vector rows of `SygusUtil`'s tables and `getTypeMaxValue`, which no integer grammar reaches.
- The CONGRUENCE case of `toStreamRecLFSC` (`array_proof.cpp:289-532`). It rebuilds curried `PARTIAL_APPLY_UF` chains with `NodeBuilder` and relies on how the equality engine represents applications. Neither is under `src/`, so a model of it could not be checked against the code's own inputs.
- `node_manager_listeners.h`: empty notification hooks.
- `quant_split.h`: a declaration only; the definitions are not in the repository.
- Pretty-printing: sorts, the text of declarations, parentheses. The printed text is modelled as the proof term or declaration it denotes.
- The equality engine, the CNF proof and the BV prover, which are not under `src/`. They enter the models only as the inputs they hand over.
