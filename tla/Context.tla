------------------------------- MODULE Context -------------------------------
(***************************************************************************)
(* The backtrackable context of src/src/context/context.cpp.               *)
(*                                                                         *)
(* A Context is a stack of Scopes, levels 0 (the bottom Scope) to top.     *)
(* A ContextObj belongs to one Scope (d_pScope) and keeps a restore chain  *)
(* of saved copies (d_pContextObjRestore).  The first change at a new top  *)
(* level calls update(), which saves a copy and moves the object to the    *)
(* top Scope's chain.  pop() deletes the top Scope, which calls            *)
(* restoreAndContinue on every object of its chain.  ContextNotifyObjs sit *)
(* on a pre-pop or a post-pop list.                                        *)
(*                                                                         *)
(* An object's subclass data is abstracted to one value.  The Scopes'     *)
(* lists are kept apart from the restore pointers, as in the code: links  *)
(* of level l is the set of objects that the list of Scope l reaches.      *)
(* update() links the object into the top list without unlinking it from *)
(* the list it was in: its saved copy holds those old links, and          *)
(* restoreAndContinue puts them back.                                      *)
(* Scope and makeCurrent are in context.h, which the repository does not   *)
(* contain; their effect is folded into the actions that call them.        *)
(***************************************************************************)
EXTENDS Integers, SequencesExt

CONSTANTS
  Objs,       \* ContextObjs
  Vals,       \* values of their subclass data
  CNOs,       \* ContextNotifyObjs
  MaxLevel,   \* bound on the number of pushes
  None        \* no object data / no popto in progress

ASSUME MaxLevel \in Nat

VARIABLES
  top,        \* d_pScopeTop->getLevel(); -1 once every Scope is deleted
  created,    \* objects constructed so far
  alive,      \* objects constructed and not yet destroyed
  val,        \* subclass data of each object
  scope,      \* d_pScope of each object; -1 when in no chain
  saved,      \* the restore chain, oldest copy first: [val, scope] records
  pre,        \* d_pCNOpre, front first
  post,       \* d_pCNOpost, front first
  cno,        \* "new", "pre", "post" or "gone" for each notify object
  cleared,    \* notify objects whose links ~Context has set to NULL
  phase,      \* "run", or the step of ~Context in progress, or "done"
  target,     \* toLevel of the popto in progress, or None
  links,      \* links[l]: the objects in the list of Scope l (addToChain)
  dying,      \* the object whose ~ContextObj is running, or None
  snap        \* history: snap[l] = values of live objects when level l was
              \* pushed, or at construction for objects constructed later

vars == <<top, created, alive, val, scope, saved, pre, post, cno, cleared,
          phase, target, links, dying, snap>>

Idle == phase = "run" /\ target = None /\ dying = None

Init ==
  /\ top = 0
  /\ created = {} /\ alive = {}
  /\ val = [o \in Objs |-> None]
  /\ scope = [o \in Objs |-> -1]
  /\ saved = [o \in Objs |-> <<>>]
  /\ pre = <<>> /\ post = <<>>
  /\ cno = [n \in CNOs |-> "new"]
  /\ cleared = {}
  /\ phase = "run" /\ target = None
  /\ links = [l \in 0..MaxLevel |-> {}]
  /\ dying = None
  /\ snap = <<>>

\* ContextObj(pContext): the object joins the bottom Scope's list with no
\* restore, whatever the top level; the levels pushed so far will restore
\* it to the value it is constructed with.
CreateObj(o, v) ==
  /\ Idle /\ o \notin created
  /\ created' = created \cup {o} /\ alive' = alive \cup {o}
  /\ val' = [val EXCEPT ![o] = v]
  /\ scope' = [scope EXCEPT ![o] = 0]
  /\ links' = [links EXCEPT ![0] = @ \cup {o}]
  /\ snap' = [l \in DOMAIN snap |-> snap[l] @@ (o :> v)]
  /\ UNCHANGED <<top, saved, pre, post, cno, cleared, phase, target, dying>>

\* update(): save a copy (links and d_pScope included), point d_pScope at
\* the top Scope and add the object to its list.
Update(o) ==
  /\ saved' = [saved EXCEPT ![o] = Append(@, [val |-> val[o], scope |-> scope[o]])]
  /\ scope' = [scope EXCEPT ![o] = top]
  /\ links' = [links EXCEPT ![top] = @ \cup {o}]

\* A subclass assignment: makeCurrent (update() when d_pScope is not the
\* top Scope), then the change of the data.
SetObj(o, v) ==
  /\ Idle /\ o \in alive
  /\ IF scope[o] # top THEN Update(o) ELSE UNCHANGED <<saved, scope, links>>
  /\ val' = [val EXCEPT ![o] = v]
  /\ UNCHANGED <<top, created, alive, pre, post, cno, cleared, phase, target,
                 dying, snap>>

\* restoreAndContinue with a restore pointer: restore() the data, then the
\* base class data (d_pScope, list links, restore pointer) from the copy.
RestoreAndContinue(o) ==
  /\ val' = [val EXCEPT ![o] = Last(saved[o]).val]
  /\ scope' = [scope EXCEPT ![o] = Last(saved[o]).scope]
  /\ saved' = [saved EXCEPT ![o] = Front(@)]

\* Unlink the object from the list its own links are in: that of d_pScope.
Unlink(o) == links' = [links EXCEPT ![scope[o]] = @ \ {o}]

\* ~ContextObj is entered.
DestroyObj(o) ==
  /\ Idle /\ o \in alive
  /\ dying' = o
  /\ UNCHANGED <<top, created, alive, val, scope, saved, pre, post, cno,
                 cleared, phase, target, links, snap>>

\* Mutant: the unlink is done once, before the loop.
DestroyNextNoUnlink ==
  /\ dying # None /\ saved[dying] # <<>>
  /\ RestoreAndContinue(dying)
  /\ UNCHANGED <<top, created, alive, pre, post, cno, cleared, phase, target,
                 links, dying, snap>>

\* ~ContextObj, one turn of its loop with a restore pointer: unlink, then
\* restoreAndContinue, which relinks the object's own links to the list
\* of the Scope below.
DestroyNext ==
  /\ dying # None /\ saved[dying] # <<>>
  /\ Unlink(dying)
  /\ RestoreAndContinue(dying)
  /\ UNCHANGED <<top, created, alive, pre, post, cno, cleared, phase, target,
                 dying, snap>>

\* ~ContextObj, last turn: unlink, and the restore pointer is NULL.
DestroyDone ==
  /\ dying # None /\ saved[dying] = <<>>
  /\ Unlink(dying)
  /\ alive' = alive \ {dying}
  /\ scope' = [scope EXCEPT ![dying] = -1]
  /\ val' = [val EXCEPT ![dying] = None]
  /\ dying' = None
  /\ UNCHANGED <<top, created, saved, pre, post, cno, cleared, phase, target,
                 snap>>

\* push(): a new top Scope, with an empty list.
Push ==
  /\ Idle /\ top < MaxLevel
  /\ top' = top + 1
  /\ snap' = Append(snap, [o \in alive |-> val[o]])
  /\ UNCHANGED <<created, alive, val, scope, saved, pre, post, cno, cleared,
                 phase, target, links, dying>>

\* The objects of the top Scope's list with a restore pointer.
Restored(o) == o \in links[top] /\ saved[o] # <<>>

\* The Scope's destructor runs restoreAndContinue on each object of its
\* list; an object without a restore pointer must be in the bottom Scope.
ScopeAssert ==
  Assert(\A o \in links[top] : saved[o] = <<>> => scope[o] = 0,
         "Expected bottom scope")

\* Mutant: restoreAndContinue does not call restore() on the subclass data.
PopScopeNoRestore ==
  /\ ScopeAssert
  /\ scope' = [o \in Objs |-> IF Restored(o) THEN Last(saved[o]).scope ELSE scope[o]]
  /\ saved' = [o \in Objs |-> IF Restored(o) THEN Front(saved[o]) ELSE saved[o]]
  /\ links' = [links EXCEPT ![top] = {}]
  /\ top' = top - 1
  /\ snap' = IF top > 0 THEN Front(snap) ELSE snap
  /\ UNCHANGED val

\* Mutant: restoreAndContinue does not restore d_pScope.
PopScopeKeepScope ==
  /\ ScopeAssert
  /\ val' = [o \in Objs |-> IF Restored(o) THEN Last(saved[o]).val ELSE val[o]]
  /\ saved' = [o \in Objs |-> IF Restored(o) THEN Front(saved[o]) ELSE saved[o]]
  /\ links' = [links EXCEPT ![top] = {}]
  /\ top' = top - 1
  /\ snap' = IF top > 0 THEN Front(snap) ELSE snap
  /\ UNCHANGED scope

\* pop() without its notify loops (notify() is user code): the top Scope is
\* deleted and every object of its list restored from its newest copy.
PopScope ==
  /\ ScopeAssert
  /\ val' = [o \in Objs |-> IF Restored(o) THEN Last(saved[o]).val ELSE val[o]]
  /\ scope' = [o \in Objs |-> IF Restored(o) THEN Last(saved[o]).scope ELSE scope[o]]
  /\ saved' = [o \in Objs |-> IF Restored(o) THEN Front(saved[o]) ELSE saved[o]]
  /\ links' = [links EXCEPT ![top] = {}]
  /\ top' = top - 1
  /\ snap' = IF top > 0 THEN Front(snap) ELSE snap

\* pop() called by a client, at a level above the bottom.
Pop ==
  /\ Idle /\ top > 0
  /\ PopScope
  /\ UNCHANGED <<created, alive, pre, post, cno, cleared, phase, target, dying>>

\* popto(toLevel): entry.
PopTo(l) ==
  /\ Idle /\ l < top
  /\ target' = l
  /\ UNCHANGED <<top, created, alive, val, scope, saved, links, dying, pre,
                 post, cno,                  cleared, phase, snap>>

\* popto: one iteration of "while (top != NULL && toLevel < level) pop()".
PopToStep ==
  /\ target # None /\ top # -1 /\ target < top
  /\ PopScope
  /\ UNCHANGED <<created, alive, pre, post, cno, cleared, phase, target, dying>>

\* popto: the loop ends; for ~Context the notify lists are cleared next.
PopToEnd ==
  /\ target # None /\ ~(top # -1 /\ target < top)
  /\ target' = None
  /\ phase' = IF phase = "popall" THEN "clearPre" ELSE phase
  /\ UNCHANGED <<top, created, alive, val, scope, saved, links, dying, pre,
                 post, cno,                  cleared, snap>>

\* ContextNotifyObj(pContext, preNotify): insert at the front of a list.
AddNotifyObj(n, isPre) ==
  /\ Idle /\ cno[n] = "new"
  /\ IF isPre THEN pre' = Cons(n, pre) /\ UNCHANGED post
              ELSE post' = Cons(n, post) /\ UNCHANGED pre
  /\ cno' = [cno EXCEPT ![n] = IF isPre THEN "pre" ELSE "post"]
  /\ UNCHANGED <<top, created, alive, val, scope, saved, links, dying,
                 cleared, phase, target, snap>>

\* ~ContextNotifyObj: unlink from its list.
DestroyNotifyObj(n) ==
  /\ Idle /\ cno[n] \in {"pre", "post"}
  /\ pre' = Remove(pre, n) /\ post' = Remove(post, n)
  /\ cno' = [cno EXCEPT ![n] = "gone"]
  /\ UNCHANGED <<top, created, alive, val, scope, saved, links, dying,
                 cleared, phase, target, snap>>

\* ~Context: popto(-1) deletes every Scope, the bottom one included.
DestroyContext ==
  /\ Idle
  /\ phase' = "popall" /\ target' = -1
  /\ UNCHANGED <<top, created, alive, val, scope, saved, links, dying, pre,
                 post, cno,                  cleared, snap>>

\* ~Context, first loop: NULLs the links of the head of d_pCNOpre and
\* assigns its successor to d_pContextNotifyObj; d_pCNOpre is not advanced.
ClearPreStep ==
  /\ phase = "clearPre" /\ pre # <<>>
  /\ cleared' = cleared \cup {Head(pre)}
  /\ UNCHANGED <<top, created, alive, val, scope, saved, links, dying, pre,
                 post, cno,                  phase, target, snap>>

ClearPreDone ==
  /\ phase = "clearPre" /\ pre = <<>>
  /\ phase' = "clearPost"
  /\ UNCHANGED <<top, created, alive, val, scope, saved, links, dying, pre,
                 post, cno,                  cleared, target, snap>>

\* ~Context, second loop: the same on d_pCNOpost.
ClearPostStep ==
  /\ phase = "clearPost" /\ post # <<>>
  /\ cleared' = cleared \cup {Head(post)}
  /\ UNCHANGED <<top, created, alive, val, scope, saved, links, dying, pre,
                 post, cno,                  phase, target, snap>>

ClearPostDone ==
  /\ phase = "clearPost" /\ post = <<>>
  /\ phase' = "done"
  /\ UNCHANGED <<top, created, alive, val, scope, saved, links, dying, pre,
                 post, cno,                  cleared, target, snap>>

\* The Context is gone.
Halted ==
  /\ phase = "done"
  /\ UNCHANGED vars

Destructor ==
  PopToStep \/ PopToEnd \/ ClearPreStep \/ ClearPreDone \/ ClearPostStep
    \/ ClearPostDone

Next ==
  \/ \E o \in Objs, v \in Vals : CreateObj(o, v) \/ SetObj(o, v)
  \/ \E o \in Objs : DestroyObj(o)
  \/ DestroyNext \/ DestroyDone
  \/ Push \/ Pop \/ \E l \in 0..MaxLevel : PopTo(l)
  \/ \E n \in CNOs, isPre \in BOOLEAN : AddNotifyObj(n, isPre)
  \/ \E n \in CNOs : DestroyNotifyObj(n)
  \/ DestroyContext
  \/ Destructor
  \/ Halted

\* ~Context runs to its end once called: the program is single-threaded.
Spec == Init /\ [][Next]_vars /\ WF_vars(Destructor)

------------------------------------------------------------------------------
(***************************************************************************)
(* Properties                                                              *)
(***************************************************************************)

TypeOK ==
  /\ top \in -1..MaxLevel
  /\ alive \subseteq created /\ created \subseteq Objs
  /\ val \in [Objs -> Vals \cup {None}]
  /\ scope \in [Objs -> -1..MaxLevel]
  /\ saved \in [Objs -> Seq([val : Vals, scope : 0..MaxLevel])]
  /\ links \in [0..MaxLevel -> SUBSET Objs]
  /\ dying \in Objs \cup {None}
  /\ cno \in [CNOs -> {"new", "pre", "post", "gone"}]
  /\ phase \in {"run", "popall", "clearPre", "clearPost", "done"}

\* A pop of a client restores every live object to the value it had when
\* the popped level was pushed, however often it was changed at that level
\* and above, or, for an object constructed after that push (into the
\* bottom Scope), to the value it was constructed with
\* (update/restoreAndContinue).
PopRestores ==
  [][phase = "run" /\ top' = top - 1 =>
       \A o \in alive' : val'[o] = snap[top][o]]_vars

\* While the Context is in use, d_pScope of every live object is a Scope
\* that still exists: no pop leaves an object pointing at a deleted Scope.
ObjectsInLiveScopes ==
  phase = "run" => \A o \in alive : scope[o] \in 0..top

\* The object's restore chain, read off d_pScope and its saved copies.
InChain(o, l) == scope[o] = l \/ \E j \in DOMAIN saved[o] : saved[o][j].scope = l

\* The list of every live Scope holds exactly the live objects whose
\* d_pScope, or one of whose saved copies' d_pScope, is that Scope: the
\* lists that pop walks and the restore pointers it follows agree, through
\* update, pop, and a ~ContextObj that walks the whole restore chain.  In
\* particular no destroyed object is left in a list for a later pop.
ChainsConsistent ==
  \A l \in 0..top, o \in Objs : o \in links[l] <=> o \in alive /\ InChain(o, l)

\* ~Context, once called, returns.
ContextDestructorTerminates == phase = "popall" ~> phase = "done"

==============================================================================
