-------------------------------- MODULE Sack --------------------------------
(***************************************************************************)
(* Sack<T, QueryT> (src/include/libdnf/utils/sack/Sack.hpp): the data set *)
(* of object pointers the Sack owns and deletes in ~Sack, the excludes and *)
(* includes overlays, use_includes, and the queries new_query returns by   *)
(* value (sets of the same pointers).                                      *)
(*                                                                         *)
(* Sack objects occupy the slots Sacks; an object is created by the        *)
(* subclass through get_data() and comes from Objs, never reused.  A query *)
(* records the Sack it came from.  heap is the set of live objects; fault  *)
(* records a delete of a deleted object or a read of one.  The class       *)
(* declares a destructor and no copy constructor, so the compiler's copy   *)
(* constructor copies the four members.                                    *)
(***************************************************************************)
EXTENDS FiniteSets

CONSTANTS
  Sacks,           \* Sack objects
  Objs,            \* objects (T pointers) the subclasses create
  Queries,         \* QueryT values held by callers
  Values,          \* Set<T> arguments passed to the overlay mutators
  NONE,
  AllowQueryOutliveSack   \* callers may read a query after its Sack died

VARIABLES
  salive,        \* salive[s]: the Sack object s exists
  data, excludes, includes, use_includes,
  queries,       \* queries[q]: NoQuery or [sack |-> s, objs |-> the result]
  heap,          \* objects allocated and not deleted
  allocated,     \* objects ever allocated
  fault          \* "none", "double_free" or "use_after_free"

vars == <<salive, data, excludes, includes, use_includes, queries, heap,
          allocated, fault>>

NoQuery == [sack |-> NONE, objs |-> {}]

Init ==
  /\ salive = [s \in Sacks |-> FALSE]
  /\ data = [s \in Sacks |-> {}]
  /\ excludes = [s \in Sacks |-> {}]
  /\ includes = [s \in Sacks |-> {}]
  /\ use_includes = [s \in Sacks |-> FALSE]
  /\ queries = [q \in Queries |-> NoQuery]
  /\ heap = {}
  /\ allocated = {}
  /\ fault = "none"

\* Sack(): the members are empty, use_includes = false
SackCreate(s) ==
  /\ fault = "none" /\ ~salive[s]
  /\ salive' = [salive EXCEPT ![s] = TRUE]
  /\ data' = [data EXCEPT ![s] = {}]
  /\ excludes' = [excludes EXCEPT ![s] = {}]
  /\ includes' = [includes EXCEPT ![s] = {}]
  /\ use_includes' = [use_includes EXCEPT ![s] = FALSE]
  /\ UNCHANGED <<queries, heap, allocated, fault>>

\* the implicit Sack(const Sack &): member-wise copy, data included
SackCopy(s, o) ==
  /\ fault = "none"
  /\ ~salive[s] /\ salive[o]
  /\ salive' = [salive EXCEPT ![s] = TRUE]
  /\ data' = [data EXCEPT ![s] = data[o]]
  /\ excludes' = [excludes EXCEPT ![s] = excludes[o]]
  /\ includes' = [includes EXCEPT ![s] = includes[o]]
  /\ use_includes' = [use_includes EXCEPT ![s] = use_includes[o]]
  /\ UNCHANGED <<queries, heap, allocated, fault>>

\* a subclass creates an object and inserts it through get_data()
AddObject(s, obj) ==
  /\ fault = "none" /\ salive[s]
  /\ obj \notin allocated
  /\ data' = [data EXCEPT ![s] = @ \cup {obj}]
  /\ heap' = heap \cup {obj}
  /\ allocated' = allocated \cup {obj}
  /\ UNCHANGED <<salive, excludes, includes, use_includes, queries, fault>>

\* the overlay mutators: Set::update, Set::difference and assignment
SetExcludes(s, v) ==
  /\ fault = "none" /\ salive[s]
  /\ \/ excludes' = [excludes EXCEPT ![s] = @ \cup v]   \* add_excludes
     \/ excludes' = [excludes EXCEPT ![s] = @ \ v]      \* remove_excludes
     \/ excludes' = [excludes EXCEPT ![s] = v]          \* set_excludes
  /\ UNCHANGED <<salive, data, includes, use_includes, queries, heap, allocated, fault>>

SetIncludes(s, v) ==
  /\ fault = "none" /\ salive[s]
  /\ \/ includes' = [includes EXCEPT ![s] = @ \cup v]   \* add_includes
     \/ includes' = [includes EXCEPT ![s] = @ \ v]      \* remove_includes
     \/ includes' = [includes EXCEPT ![s] = v]          \* set_includes
  /\ UNCHANGED <<salive, data, excludes, use_includes, queries, heap, allocated, fault>>

set_use_includes(s, b) ==
  /\ fault = "none" /\ salive[s]
  /\ use_includes' = [use_includes EXCEPT ![s] = b]
  /\ UNCHANGED <<salive, data, excludes, includes, queries, heap, allocated, fault>>

\* new_query(): data, intersected with includes if use_includes, minus excludes
NewQueryResult(s) ==
  (IF use_includes[s] THEN data[s] \cap includes[s] ELSE data[s]) \ excludes[s]

new_query(s, q) ==
  /\ fault = "none" /\ salive[s] /\ queries[q] = NoQuery
  /\ queries' = [queries EXCEPT ![q] = [sack |-> s, objs |-> NewQueryResult(s)]]
  /\ UNCHANGED <<salive, data, excludes, includes, use_includes, heap, allocated, fault>>

\* a caller dereferences every object of a query it holds
ReadQuery(q) ==
  /\ fault = "none" /\ queries[q] # NoQuery
  /\ fault' = IF queries[q].objs \subseteq heap THEN fault ELSE "use_after_free"
  /\ UNCHANGED <<salive, data, excludes, includes, use_includes, queries, heap, allocated>>

DropQuery(q) ==
  /\ fault = "none" /\ queries[q] # NoQuery
  /\ queries' = [queries EXCEPT ![q] = NoQuery]
  /\ UNCHANGED <<salive, data, excludes, includes, use_includes, heap, allocated, fault>>

\* the Sack is gone; callers that respect its lifetime dropped its queries
Destroyable(s) ==
  /\ fault = "none" /\ salive[s]
  /\ AllowQueryOutliveSack \/ \A q \in Queries : queries[q].sack # s

\* Mutant: ~Sack iterates includes instead of data
SackDestroyIncludes(s) ==
  /\ Destroyable(s)
  /\ salive' = [salive EXCEPT ![s] = FALSE]
  /\ heap' = heap \ includes[s]
  /\ fault' = IF includes[s] \subseteq heap THEN fault ELSE "double_free"
  /\ UNCHANGED <<data, excludes, includes, use_includes, queries, allocated>>

\* ~Sack(): delete every object of data
SackDestroy(s) ==
  /\ Destroyable(s)
  /\ salive' = [salive EXCEPT ![s] = FALSE]
  /\ heap' = heap \ data[s]
  /\ fault' = IF data[s] \subseteq heap THEN fault ELSE "double_free"
  /\ UNCHANGED <<data, excludes, includes, use_includes, queries, allocated>>

Next ==
  \/ \E s \in Sacks :
       \/ SackCreate(s) \/ SackDestroy(s)
       \/ \E obj \in Objs : AddObject(s, obj)
       \/ \E v \in Values : SetExcludes(s, v) \/ SetIncludes(s, v)
       \/ \E b \in BOOLEAN : set_use_includes(s, b)
       \/ \E q \in Queries : new_query(s, q)
  \/ \E q \in Queries : ReadQuery(q) \/ DropQuery(q)

Spec == Init /\ [][Next]_vars

\* the same calls, plus copies made through the compiler's copy constructor
CopyNext == Next \/ \E s, o \in Sacks : SackCopy(s, o)

CopySpec == Init /\ [][CopyNext]_vars

(***************************************************************************)
(* Properties                                                              *)
(***************************************************************************)

\* No ~Sack deletes an object twice and no caller reads a deleted object
\* through a query, whatever objects the overlays of one Sack borrow from
\* another.
NoUndefinedBehaviour == fault = "none"

====
