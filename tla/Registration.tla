----------------------------- MODULE Registration -----------------------------
(***************************************************************************)
(* Term registration and declaration printing of the proof engine          *)
(* (src/src/proof/theory_proof.cpp, uf_proof.cpp, array_proof.cpp).        *)
(*                                                                         *)
(* registerTermsFromAssertions calls TheoryProofEngine::registerTerm on    *)
(* every assertion.  The engine caches what it has seen, walks Boolean     *)
(* and ITE terms itself, and hands every other term to the certifier of    *)
(* its theory (plus the array certifier for a skolem of another theory).   *)
(* A certifier records the uninterpreted sorts and the symbols (variables, *)
(* function symbols) to declare, and registers the children through the    *)
(* engine again.  performExtraRegistrations then registers the terms that  *)
(* the theories marked for other theories.  The declarations are printed   *)
(* in three passes over the theory table (sorts, terms, deferred): the     *)
(* array certifier defers its skolems to "ext" binders with an .sl name.   *)
(*                                                                         *)
(* One uninterpreted sort "U".  Terms are variables (model values) and     *)
(* tuples: apply, select, eq, not, ite.                                    *)
(***************************************************************************)
EXTENDS Naturals, SequencesExt

CONSTANTS
  UVars,        \* variables of sort U (owned by UF)
  Skolems,      \* the array-extensionality skolems among them
  ArrVars,      \* variables of sort (Array U U)
  BoolVars,     \* Boolean variables
  Funs,         \* function symbols U -> U
  NumAsserts,   \* number of assertions
  MarkChoices   \* possible d_exprToTheoryIds: sequences of <<term, theory>>

ASSUME Skolems \subseteq UVars /\ NumAsserts \in Nat \ {0}

VARIABLES
  assertion,    \* the assertions (input)
  marks,        \* d_exprToTheoryIds (input)
  reg,          \* [cache: d_registrationCache, sorts: th -> d_sorts,
                \*  decls: th -> d_declarations]
  k,            \* next assertion to register
  phase,        \* "register", "sorts", "terms", "deferred", "done"
  skolemDecls,  \* d_skolemDeclarations of the array certifier
  skolemToLit,  \* d_skolemToLiteral: skolem -> i of ".sl<i>"
  out           \* the declarations printed, in order

vars == <<assertion, marks, reg, k, phase, skolemDecls, skolemToLit, out>>

\* The theory table in TheoryId order: BOOL is created by the engine's
\* constructor, UF and ARRAY by registerTheory.
Table == <<"BOOL", "UF", "ARRAY">>
Theories == {Table[j] : j \in DOMAIN Table}

App(g, t) == <<"apply", g, t>>
Sel(a, t) == <<"select", a, t>>
EqT(s, t) == <<"eq", s, t>>
NotT(t) == <<"not", t>>
IteT(c, s, t) == <<"ite", c, s, t>>

IsVariable(t) == t \in UVars \cup ArrVars \cup BoolVars
Kind(t) == IF IsVariable(t) THEN "var" ELSE t[1]
Children(t) ==
  CASE IsVariable(t)     -> <<>>
    [] t[1] = "apply"    -> <<t[3]>>
    [] OTHER             -> Tail(t)

\* getType(): sorts are "U", "ArrayUU", "Bool".
SortOf(t) ==
  CASE t \in UVars \/ Kind(t) \in {"apply", "select", "ite"} -> "U"
    [] t \in ArrVars                                        -> "ArrayUU"
    [] OTHER                                                -> "Bool"
IsSort(s) == s = "U"

\* Theory::theoryOf, type-based: a variable or an equality belongs to the
\* theory of its (argument) type, other terms to the theory of their kind.
TheoryOf(t) ==
  CASE t \in UVars \/ Kind(t) = "apply"    -> "UF"
    [] t \in ArrVars \/ Kind(t) = "select" -> "ARRAY"
    [] Kind(t) = "eq"                      -> IF SortOf(t[2]) = "U" THEN "UF" ELSE "ARRAY"
    [] Kind(t) = "ite"                     -> "UF"
    [] OTHER                               -> "BOOL"

SupportedTheory(th) == th \in {"ARRAY", "ARITH", "BV", "UF", "BOOL"}

(***************************************************************************)
(* Registration, as operators on reg.                                      *)
(***************************************************************************)
RECURSIVE TheoryRegAnySort(_, _, _), EngineRegNoIteChildren(_, _), EngineRegNoSkolemCase(_, _),
          EngineReg(_, _), TheoryReg(_, _, _), RegChildren(_, _, _)

\* Mutant: the certifier records the term's type as a sort whatever it is.
TheoryRegAnySort(th, t, st) ==
  IF th = "BOOL"
  THEN IF IsVariable(t) /\ t \notin st.decls[th]
       THEN [st EXCEPT !.decls[th] = @ \cup {t}]
       ELSE RegChildren(t, 1, st)
  ELSE IF t \in st.decls[th] THEN st
  ELSE RegChildren(t, 1,
         [st EXCEPT !.sorts[th] = @ \cup {SortOf(t)},
                    !.decls[th] = @ \cup (IF Kind(t) = "apply" THEN {t[2]} ELSE {})
                                    \cup (IF IsVariable(t) THEN {t} ELSE {})])

\* UFProof::registerTerm and ArrayProof::registerTerm (identical code), and
\* BooleanProof::registerTerm.
TheoryReg(th, t, st) ==
  IF th = "BOOL"
  THEN IF IsVariable(t) /\ t \notin st.decls[th]
       THEN [st EXCEPT !.decls[th] = @ \cup {t}]
       ELSE RegChildren(t, 1, st)
  ELSE IF t \in st.decls[th] THEN st
  ELSE RegChildren(t, 1,
         [st EXCEPT !.sorts[th] = @ \cup (IF IsSort(SortOf(t)) THEN {SortOf(t)} ELSE {}),
                    !.decls[th] = @ \cup (IF Kind(t) = "apply" THEN {t[2]} ELSE {})
                                    \cup (IF IsVariable(t) THEN {t} ELSE {})])

\* Mutant: an ITE term is cached without registering its children.
EngineRegNoIteChildren(t, st) ==
  IF t \in st.cache THEN st
  ELSE LET th == TheoryOf(t) IN
       IF th = "BUILTIN" \/ Kind(t) = "ite" THEN [st EXCEPT !.cache = @ \cup {t}]
       ELSE IF ~SupportedTheory(th) THEN st
       ELSE LET s1 == TheoryReg(th, t, st)
                s2 == IF t \in Skolems /\ th # "ARRAY" THEN TheoryReg("ARRAY", t, s1) ELSE s1
            IN [s2 EXCEPT !.cache = @ \cup {t}]

\* Mutant: the special case for skolems of other theories is missing.
EngineRegNoSkolemCase(t, st) ==
  IF t \in st.cache THEN st
  ELSE LET th == TheoryOf(t) IN
       IF th = "BUILTIN" \/ Kind(t) = "ite"
       THEN [RegChildren(t, 1, st) EXCEPT !.cache = @ \cup {t}]
       ELSE IF ~SupportedTheory(th) THEN st
       ELSE [TheoryReg(th, t, st) EXCEPT !.cache = @ \cup {t}]

\* TheoryProofEngine::registerTerm.
EngineReg(t, st) ==
  IF t \in st.cache THEN st
  ELSE LET th == TheoryOf(t) IN
       IF th = "BUILTIN" \/ Kind(t) = "ite"
       THEN [RegChildren(t, 1, st) EXCEPT !.cache = @ \cup {t}]
       ELSE IF ~SupportedTheory(th) THEN st
       ELSE LET s1 == TheoryReg(th, t, st)
                s2 == IF t \in Skolems /\ th # "ARRAY" THEN TheoryReg("ARRAY", t, s1) ELSE s1
            IN [s2 EXCEPT !.cache = @ \cup {t}]

\* "for each child: d_proofEngine->registerTerm(term[i])".
RegChildren(t, j, st) ==
  IF j > Len(Children(t)) THEN st
  ELSE RegChildren(t, j + 1, EngineReg(Children(t)[j], st))

\* performExtraRegistrations: a marked term that was registered is also
\* registered with every theory it was marked for.
RECURSIVE ExtraReg(_, _, _)
ExtraReg(ms, j, st) ==
  IF j > Len(ms) THEN st
  ELSE ExtraReg(ms, j + 1,
                IF ms[j][1] \in st.cache THEN TheoryReg(ms[j][2], ms[j][1], st) ELSE st)

------------------------------------------------------------------------------
(***************************************************************************)
(* The inputs: terms of height at most 2 over the variables.               *)
(***************************************************************************)
UTerms == UVars \cup {App(g, t) : g \in Funs, t \in UVars}
                \cup {Sel(a, t) : a \in ArrVars, t \in UVars}
                \cup {IteT(c, s, t) : c \in BoolVars, s, t \in UVars}
\* An equality relates two different terms (x = x is rewritten to true).
AtomSet == UNION {{EqT(s, t) : t \in UTerms \ {s}} : s \in UTerms}
             \cup UNION {{EqT(a, b) : b \in ArrVars \ {a}} : a \in ArrVars}
             \cup BoolVars
Formulas == AtomSet \cup {NotT(t) : t \in AtomSet}

Decl(what, S) == LET s == SetToSeq(S) IN [j \in DOMAIN s |-> [what |-> what, name |-> s[j]]]

Init ==
  /\ assertion \in [1..NumAsserts -> Formulas]
  /\ marks \in MarkChoices
  /\ reg = [cache |-> {}, sorts |-> [th \in Theories |-> {}],
            decls |-> [th \in Theories |-> {}]]
  /\ k = 1
  /\ phase = "register"
  /\ skolemDecls = {}
  /\ skolemToLit = [s \in {} |-> 0]
  /\ out = <<>>

\* registerTermsFromAssertions: one assertion.
RegisterAssertion ==
  /\ phase = "register" /\ k <= NumAsserts
  /\ reg' = EngineReg(assertion[k], reg)
  /\ k' = k + 1
  /\ UNCHANGED <<assertion, marks, phase, skolemDecls, skolemToLit, out>>

\* registerTermsFromAssertions: the loop is over; performExtraRegistrations.
PerformExtraRegistrations ==
  /\ phase = "register" /\ k > NumAsserts
  /\ reg' = ExtraReg(marks, 1, reg)
  /\ phase' = "sorts"
  /\ UNCHANGED <<assertion, marks, k, skolemDecls, skolemToLit, out>>

\* printSortDeclarations: every certifier prints its d_sorts (BOOL none).
PrintSortDeclarations ==
  /\ phase = "sorts"
  /\ out' = out \o FlattenSeq([j \in DOMAIN Table |-> Decl("sort", reg.sorts[Table[j]])])
  /\ phase' = "terms"
  /\ UNCHANGED <<assertion, marks, reg, k, skolemDecls, skolemToLit>>

\* printTermDeclarations: BOOL and UF print every symbol; ARRAY prints the
\* symbols that are not skolems and defers the skolems.
PrintTermDeclarations ==
  /\ phase = "terms"
  /\ out' = out \o Decl("term", reg.decls["BOOL"]) \o Decl("term", reg.decls["UF"])
                \o Decl("term", reg.decls["ARRAY"] \ Skolems)
  /\ skolemDecls' = reg.decls["ARRAY"] \cap Skolems
  /\ phase' = "deferred"
  /\ UNCHANGED <<assertion, marks, reg, k, skolemToLit>>

\* printDeferredDeclarations: an "ext" binder per deferred skolem, whose
\* literal is named ".sl" followed by the size of d_skolemToLiteral.
PrintDeferredDeclarations ==
  /\ phase = "deferred"
  /\ LET s == SetToSeq(skolemDecls) IN
     /\ skolemToLit' = [sk \in skolemDecls |->
                          CHOOSE j \in DOMAIN s : s[j] = sk]
     /\ out' = out \o [j \in DOMAIN s |-> [what |-> "ext", name |-> s[j]]]
  /\ phase' = "done"
  /\ UNCHANGED <<assertion, marks, reg, k, skolemDecls>>

Done ==
  /\ phase = "done"
  /\ UNCHANGED vars

Next ==
  \/ RegisterAssertion \/ PerformExtraRegistrations
  \/ PrintSortDeclarations \/ PrintTermDeclarations \/ PrintDeferredDeclarations
  \/ Done

Spec == Init /\ [][Next]_vars

------------------------------------------------------------------------------
(***************************************************************************)
(* Properties                                                              *)
(***************************************************************************)

\* The variables and function symbols a term mentions.
RECURSIVE Symbols(_)
Symbols(t) ==
  (IF IsVariable(t) THEN {t} ELSE {})
  \cup (IF Kind(t) = "apply" THEN {t[2]} ELSE {})
  \cup UNION {Symbols(Children(t)[j]) : j \in DOMAIN Children(t)}

\* The sorts the LFSC type of a declared symbol mentions.
SortsOfSymbol(s) == IF s \in UVars \cup ArrVars \cup Funs THEN {"U"} ELSE {}

Declared(what) == {out[j].name : j \in {j \in DOMAIN out : out[j].what \in what}}

TypeOK ==
  /\ k \in 1..(NumAsserts + 1)
  /\ phase \in {"register", "sorts", "terms", "deferred", "done"}
  /\ \A th \in Theories : reg.decls[th] \subseteq UVars \cup ArrVars \cup BoolVars \cup Funs
  /\ \A th \in Theories : reg.sorts[th] \subseteq {"U"}
  /\ skolemDecls \subseteq Skolems

\* Every variable and function symbol of every assertion is declared once
\* the declarations are printed: registration reaches every subterm through
\* the engine, the certifiers and the ITE and Boolean cases, and the
\* deferred skolems are bound by "ext".
SymbolsDeclared ==
  phase = "done" =>
    \A j \in 1..NumAsserts : Symbols(assertion[j]) \subseteq Declared({"term", "ext"})

\* Every skolem of an assertion has its ".sl" literal name, and no two
\* skolems share one: EXTENSIONALITY proofs look the skolem up in
\* d_skolemToLiteral (skolemToLiteral asserts it is there).
SkolemsNamed ==
  phase = "done" =>
    /\ \A j \in 1..NumAsserts : Symbols(assertion[j]) \cap Skolems \subseteq DOMAIN skolemToLit
    /\ \A s1, s2 \in DOMAIN skolemToLit : s1 # s2 => skolemToLit[s1] # skolemToLit[s2]

\* Every sort in the type of a declared symbol is declared: a "(term T)"
\* declaration only checks if the sorts of T are bound.
SortsDeclared ==
  phase = "done" =>
    \A s \in Declared({"term", "ext"}) : SortsOfSymbol(s) \subseteq Declared({"sort"})

==============================================================================
