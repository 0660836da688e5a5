------------------------------- MODULE Install -------------------------------
(***************************************************************************)
(* CmdInstall::run (src/microdnf/commands/install/install.cpp): load the   *)
(* enabled repos, union the packages every pattern resolves to into one    *)
(* PackageSet, download them, make one RpmTransactionItem per package and  *)
(* add it to a Transaction, run the transaction.                           *)
(*                                                                         *)
(* result_pset, full_solv_query and each per-pattern solv_query are        *)
(* SolvMaps; their combinators act as SolvMap.tla models them.  The       *)
(* collaborators (the repo loader, SolvQuery::resolve_pkg_spec, the        *)
(* downloader, Transaction) are not in the repository: each either         *)
(* returns or throws, and resolve_pkg_spec keeps the packages Matches      *)
(* gives for the pattern.  A throw, like the return, destroys the locals   *)
(* in the reverse of their declaration order: frame is that stack.         *)
(***************************************************************************)
EXTENDS Integers, Sequences, FiniteSets, FiniteSetsExt

CONSTANTS
  Patterns,     \* *patterns_to_install_options, in command-line order
  Matches,      \* Matches[p]: the package ids resolve_pkg_spec(p) keeps
  PoolBefore,   \* pool->nsolvables before load_rpm_repos
  PoolAfter,    \* pool->nsolvables after it
  RESULT, FULL, QUERY   \* result_pset, full_solv_query, solv_query

VARIABLES
  ibytes, ibits, icap, \* the three SolvMaps (SolvMap's nbytes, bits, cap)
  pc,          \* the statement run() is at
  pool,        \* pool->nsolvables
  next,        \* index of the next pattern of the loop
  frame,       \* the locals constructed and not yet destroyed, in order
  items,       \* packages whose RpmTransactionItem the vector owns
  tsItems,     \* packages whose item ts.install was given
  submitted    \* [ran, pkgs]: what run_transaction was called with (ghost)

ivars == <<ibytes, ibits, icap, pc, pool, next, frame, items, tsItems, submitted>>

InstallMaps == {RESULT, FULL, QUERY}

\* the ids both maps have bytes for, as in SolvMap.tla (map_or, map_and)
Shared(m, o) == 0 .. (IF ibytes[m] < ibytes[o] THEN ibytes[m] ELSE ibytes[o]) * 8 - 1

IInit ==
  /\ ibytes = [m \in InstallMaps |-> 0]
  /\ ibits = [m \in InstallMaps |-> {}]
  /\ icap = [m \in InstallMaps |-> 0]
  /\ pc = "load"
  /\ pool = PoolBefore
  /\ next = 1
  /\ frame = <<>>
  /\ items = {}
  /\ tsItems = {}
  /\ submitted = [ran |-> FALSE, pkgs |-> {}]

\* a throw: unwinding starts with the locals constructed so far
Throw == pc' = "unwind"

\* ctx.load_rpm_repos(enabled_repos, flags): the pool grows, or it throws
load_rpm_repos ==
  /\ pc = "load"
  /\ \/ /\ pool' = PoolAfter
        /\ pc' = "construct"
     \/ /\ Throw
        /\ UNCHANGED pool
  /\ UNCHANGED <<ibytes, ibits, icap, next, frame, items, tsItems, submitted>>

\* PackageSet result_pset(&solv_sack) and SolvQuery full_solv_query(&solv_sack):
\* an empty map and one holding every package, both sized to the pool now
ConstructQueries ==
  /\ pc = "construct"
  /\ ibytes' = [ibytes EXCEPT ![RESULT] = (pool + 7) \div 8, ![FULL] = (pool + 7) \div 8]
  /\ ibits' = [ibits EXCEPT ![RESULT] = {}, ![FULL] = 0 .. pool - 1]
  /\ icap' = [icap EXCEPT ![RESULT] = pool, ![FULL] = pool]
  /\ frame' = frame \o <<"result_pset", "full_solv_query">>
  /\ pc' = "patterns"
  /\ UNCHANGED <<pool, next, items, tsItems, submitted>>

\* Mutant: the loop assigns the pattern's set instead of uniting it
PatternStepAssign(p) ==
  LET copied == [ibits EXCEPT ![QUERY] = ibits[FULL]]
      filtered == [copied EXCEPT ![QUERY] = @ \cap Matches[p]]
  IN [filtered EXCEPT ![RESULT] = filtered[QUERY] \cap Shared(RESULT, FULL)]

\* one iteration: SolvQuery solv_query(full_solv_query), resolve_pkg_spec,
\* result_pset |= solv_query.get_package_set() (SolvMap's OrAssign; the copy
\* has full_solv_query's size); the bits of the three maps after it
PatternStep(p) ==
  LET copied == [ibits EXCEPT ![QUERY] = ibits[FULL]]
      filtered == [copied EXCEPT ![QUERY] = @ \cap Matches[p]]
  IN [filtered EXCEPT ![RESULT] = @ \cup (filtered[QUERY] \cap Shared(RESULT, FULL))]

\* the body of the loop over the patterns; resolve_pkg_spec may throw,
\* and solv_query is destroyed at the end of each iteration
ResolvePattern ==
  /\ pc = "patterns" /\ next <= Len(Patterns)
  /\ \/ /\ ibits' = PatternStep(Patterns[next])
        /\ ibytes' = [ibytes EXCEPT ![QUERY] = ibytes[FULL]]
        /\ icap' = [icap EXCEPT ![QUERY] = icap[FULL]]
        /\ next' = next + 1
        /\ UNCHANGED pc
     \/ /\ Throw
        /\ UNCHANGED <<ibytes, ibits, icap, next>>
  /\ UNCHANGED <<pool, frame, items, tsItems, submitted>>

\* Mutant: auto ts declared before the vector of items
TransactionLocalsSwapped == <<"ts", "transaction_items">>

\* the locals declared after the download, in declaration order
TransactionLocals == <<"transaction_items", "ts">>

\* download_packages(result_pset, nullptr) may throw; then the vector of
\* items is declared and Transaction(ctx.base) is constructed (or throws)
download_packages ==
  /\ pc = "patterns" /\ next > Len(Patterns)
  /\ \/ Throw /\ UNCHANGED frame
     \/ /\ pc' = "items"
        /\ frame' = frame \o TransactionLocals
     \/ /\ Throw
        /\ frame' = frame \o SubSeq(TransactionLocals, 1, 1)
  /\ UNCHANGED <<ibytes, ibits, icap, pool, next, items, tsItems, submitted>>

\* the ids the range-for over result_pset has not reached, ascending
Pending == ibits[RESULT] \ items

\* one iteration over result_pset: make_unique the item, keep item_ptr,
\* move the item into the vector, then ts.install(*item_ptr), which may throw
AddItem ==
  /\ pc = "items" /\ Pending # {}
  /\ LET package == Min(Pending) IN
       /\ items' = items \cup {package}
       /\ \/ tsItems' = tsItems \cup {package} /\ UNCHANGED pc
          \/ Throw /\ UNCHANGED tsItems
  /\ UNCHANGED <<ibytes, ibits, icap, pool, next, frame, submitted>>

\* run_transaction(ts); whether it returns or throws, run() then unwinds
run_transaction ==
  /\ pc = "items" /\ Pending = {}
  /\ submitted' = [ran |-> TRUE, pkgs |-> tsItems]
  /\ pc' = "unwind"
  /\ UNCHANGED <<ibytes, ibits, icap, pool, next, frame, items, tsItems>>

\* the items left after destroying local: ~vector<unique_ptr<...>> deletes
\* every item the vector owns
DestroyedItems(local) == IF local = "transaction_items" THEN {} ELSE items

\* leaving run(): the last constructed local is destroyed first; the
\* vector's destructor deletes every item, ts drops its references
Unwind ==
  /\ pc = "unwind"
  /\ IF frame = <<>>
       THEN pc' = "done" /\ UNCHANGED <<frame, items, tsItems>>
       ELSE LET local == frame[Len(frame)] IN
            /\ frame' = SubSeq(frame, 1, Len(frame) - 1)
            /\ items' = DestroyedItems(local)
            /\ tsItems' = IF local = "ts" THEN {} ELSE tsItems
            /\ UNCHANGED pc
  /\ UNCHANGED <<ibytes, ibits, icap, pool, next, submitted>>

INext ==
  \/ load_rpm_repos \/ ConstructQueries \/ ResolvePattern
  \/ download_packages \/ AddItem \/ run_transaction \/ Unwind

ISpec == IInit /\ [][INext]_ivars

(***************************************************************************)
(* Properties                                                              *)
(***************************************************************************)

\* spec.md 6 (accumulating install candidates across query patterns by
\* repeated union): when run_transaction is reached, ts holds an item for
\* exactly the packages some pattern resolved to, whatever the patterns
\* overlap, since result_pset and every solv_query were sized to the loaded
\* pool and |= dropped nothing.
TransactionHoldsEveryMatch ==
  submitted.ran =>
    submitted.pkgs = UNION {Matches[Patterns[i]] : i \in DOMAIN Patterns}

\* ts.install keeps a reference to *item_ptr: on every path out of run(),
\* the return and each throw, ts is destroyed before the vector that owns
\* the items, so ts never refers to a deleted item.
TransactionItemsAlive == tsItems \subseteq items

====
