-------------------------------- MODULE Sygus --------------------------------
(***************************************************************************)
(* SygusUtil (src/src/theory/datatypes/datatypes_sygus.cpp) owns the two  *)
(* parts of the sygus support of the datatype solver: SygusSplit, which    *)
(* the solver asks for the splits of a sygus term before it chooses a      *)
(* constructor, and SygusSymBreak, which it tells every tester literal it *)
(* asserts.  The two share no state but what both take from SygusUtil    *)
(* (module SygusUtil: getVar and getNormalized), which is fixed, so a run  *)
(* checks the calls of one part at a time.                                 *)
(***************************************************************************)
EXTENDS SygusProgSearch, SygusSplit

VARIABLE part   \* "search" or "split": which part the run calls

allvars == <<cd, stack, nc, status, terms, pops, opts, nred, pcnred, argpos,
          genred, genterms, splits, sstatus, part>>

\* The solver calls addTester on one anchor's testers, or getSygusSplits
\* under any setting of the options; the search does not read them.
SygusInit ==
  /\ Init /\ SplitInit
  /\ \/ part = "search" /\ opts = [nf |-> TRUE, arg |-> TRUE, fair |-> TRUE]
     \/ part = "split"

Search == part = "search" /\ Next
          /\ UNCHANGED <<opts, nred, pcnred, argpos, genred, genterms, splits, sstatus, part>>
Split == part = "split" /\ SplitNext
         /\ UNCHANGED <<cd, stack, nc, status, terms, pops, part>>

SygusNext == Search \/ Split

SygusSpec == SygusInit /\ [][SygusNext]_allvars

------------------------------------------------------------------------------
\* The properties of the two parts, each on its own calls.

SygusTypeOK ==
  /\ part \in {"search", "split"}
  /\ part = "search" => TypeOK
  /\ part = "split" => SplitTypeOK

\* The program depth always matches the tester tree and no Assert of the
\* search fails (SygusProgSearch!SearchExact).
SearchDepthExact == part = "search" => SearchExact

\* processCurrentProgram never blocks a representative, and blocks only
\* programs with a representative no larger (SygusProgSearch!SymBreakSound).
SearchSymBreakSound == part = "search" => SymBreakSound

\* d_redundant marks a program as not redundant only while it is the
\* representative of its normal form (SygusProgSearch!RedundancyCacheCurrent).
SearchCacheCurrent == part = "search" => RedundancyCacheCurrent

\* The cached d_splits of every term are those the redundancy maps give
\* now (SygusSplit!SplitsStable).
SplitCacheStable == part = "split" => SplitsStable

\* Every program up to MaxProgSize has one of the same normal form and no
\* larger size that all splits admit (SygusSplit!SplitsComplete).
SplitLemmasComplete == part = "split" => SplitsComplete

==============================================================================
