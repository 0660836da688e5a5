------------------------------- MODULE BitSet -------------------------------
(***************************************************************************)
(* What a BitSet promises (spec.md 3 and 4.1): a finite set of unit ids,   *)
(* each below the capacity fixed at construction; checked add/remove act   *)
(* only on ids in [0, capacity); union, difference and intersection are    *)
(* the set operations and require operands of the same capacity.           *)
(* SolvMap.tla is shown to implement this module.                          *)
(***************************************************************************)
EXTENDS Naturals

CONSTANTS
  Maps,    \* the BitSet objects
  Sizes,   \* capacities a BitSet is constructed with
  Ids      \* ids the callers pass

VARIABLES
  set,       \* set[m]: the ids in m
  capacity   \* capacity[m]: the capacity m was constructed with

vars == <<set, capacity>>

Init ==
  /\ capacity \in [Maps -> Sizes]
  /\ set = [m \in Maps |-> {}]

New(m, n) ==
  /\ set' = [set EXCEPT ![m] = {}]
  /\ capacity' = [capacity EXCEPT ![m] = n]

Add(m, id) ==
  /\ id \in 0 .. capacity[m] - 1
  /\ set' = [set EXCEPT ![m] = @ \cup {id}]
  /\ UNCHANGED capacity

Remove(m, id) ==
  /\ id \in 0 .. capacity[m] - 1
  /\ set' = [set EXCEPT ![m] = @ \ {id}]
  /\ UNCHANGED capacity

Clear(m) ==
  /\ set' = [set EXCEPT ![m] = {}]
  /\ UNCHANGED capacity

\* the combinators are defined for operands of one capacity only
Combine(m, o, res) ==
  /\ capacity[m] = capacity[o]
  /\ set' = [set EXCEPT ![m] = res]
  /\ UNCHANGED capacity

Clone(m, o) ==
  /\ set' = [set EXCEPT ![m] = set[o]]
  /\ capacity' = [capacity EXCEPT ![m] = capacity[o]]

Swap(m, o) ==
  /\ set' = [set EXCEPT ![m] = set[o], ![o] = set[m]]
  /\ capacity' = [capacity EXCEPT ![m] = capacity[o], ![o] = capacity[m]]

Next ==
  \/ \E m \in Maps, n \in Sizes : New(m, n)
  \/ \E m \in Maps, id \in Ids : Add(m, id) \/ Remove(m, id)
  \/ \E m \in Maps : Clear(m)
  \/ \E m, o \in Maps :
       \/ Combine(m, o, set[m] \cup set[o])
       \/ Combine(m, o, set[m] \ set[o])
       \/ Combine(m, o, set[m] \cap set[o])
       \/ Clone(m, o)
       \/ Swap(m, o)

Spec == Init /\ [][Next]_vars

=============================================================================
