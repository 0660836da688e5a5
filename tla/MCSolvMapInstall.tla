--------------------------- MODULE MCSolvMapInstall ---------------------------
(* The SolvMap operations on MCMaps, interleaved with CmdInstall::run, the *)
(* client in the repository that uses three SolvMaps of its own.           *)
EXTENDS MCSolvMap

CONSTANTS RESULT, FULL, QUERY, p1, p2, p3

VARIABLES ibytes, ibits, icap, pc, pool, next, frame, items, tsItems, submitted

\* three patterns on the command line: two overlap, one matches nothing
MCPatterns == <<p1, p2, p3>>
\* ids 9 and 12 lie past the pool before the repos are loaded
MCMatches == [p \in {p1, p2, p3} |-> CASE p = p1 -> {3, 9}
                                      [] p = p2 -> {9, 12}
                                      [] p = p3 -> {}]

I == INSTANCE Install WITH Patterns <- MCPatterns, Matches <- MCMatches,
                           PoolBefore <- 8, PoolAfter <- 16

ivars == <<ibytes, ibits, icap, pc, pool, next, frame, items, tsItems, submitted>>

\* run() and the generic calls touch disjoint maps, so every step of one
\* commutes with every step of the other and each interleaving reaches the
\* states of the one that runs run() to its end first: that one is checked
ComposedNext == (pc = "done" /\ Next /\ UNCHANGED ivars) \/ (I!INext /\ UNCHANGED vars)

ComposedInit == Init /\ I!IInit

ComposedSpec == ComposedInit /\ [][ComposedNext]_<<vars, ivars>>

TransactionHoldsEveryMatch == I!TransactionHoldsEveryMatch
TransactionItemsAlive == I!TransactionItemsAlive

====
