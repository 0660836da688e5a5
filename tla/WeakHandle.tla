----------------------------- MODULE WeakHandle -----------------------------
(***************************************************************************)
(* The promise of WeakPtr / WeakPtrGuard, with no registry and no          *)
(* back-pointers: every live handle is bound to a live guard (it is valid) *)
(* or to nothing (it is invalid), and only the guard operations, a move    *)
(* or an assignment change a binding.  WeakPtr.tla is shown to implement   *)
(* this module under the mapping binding[h] = guard member of h.           *)
(***************************************************************************)

CONSTANTS
  Handles,   \* addresses a handle object can occupy
  Guards,    \* addresses a guard object can occupy
  NULL,
  PtrOwner   \* owning handles can also be moved

VARIABLES
  handles,   \* live handles
  guards,    \* live guards
  binding    \* binding[h]: the guard h is valid under, or NULL

vars == <<handles, guards, binding>>

\* the binding with every handle of guard g made invalid
Unbind(b, g) == [h \in Handles |-> IF b[h] = g THEN NULL ELSE b[h]]

Init ==
  /\ handles = {}
  /\ guards = {}
  /\ binding = [h \in Handles |-> NULL]

NewGuard(g) ==
  /\ g \notin guards
  /\ guards' = guards \cup {g}
  /\ UNCHANGED <<handles, binding>>

\* clear(): every handle of g becomes invalid
ClearGuard(g) ==
  /\ g \in guards
  /\ binding' = Unbind(binding, g)
  /\ UNCHANGED <<handles, guards>>

\* destruction behaves as clear(), then the guard is gone
DropGuard(g) ==
  /\ g \in guards
  /\ binding' = Unbind(binding, g)
  /\ guards' = guards \ {g}
  /\ UNCHANGED handles

\* moving guard src into g: src's handles are now vouched for by g; the
\* handles g vouched for before can no longer be invalidated by anyone
\* and so must become invalid
MoveGuard(g, src) ==
  /\ src \in guards
  /\ g # src
  /\ guards' = guards \cup {g}
  /\ binding' = [h \in Handles |->
                   IF binding[h] = src THEN g
                   ELSE IF binding[h] = g THEN NULL
                   ELSE binding[h]]
  /\ UNCHANGED handles

NewHandle(h, g) ==
  /\ h \notin handles
  /\ g \in guards
  /\ handles' = handles \cup {h}
  /\ binding' = [binding EXCEPT ![h] = g]
  /\ UNCHANGED guards

\* copy construction or copy assignment: h ends up bound where s is
CopyHandle(h, s) ==
  /\ s \in handles
  /\ handles' = handles \cup {h}
  /\ binding' = [binding EXCEPT ![h] = binding[s]]
  /\ UNCHANGED guards

\* move construction or move assignment: h takes s's binding, s is invalid
MoveHandle(h, s) ==
  /\ PtrOwner
  /\ s \in handles
  /\ handles' = handles \cup {h}
  /\ binding' = [binding EXCEPT ![h] = binding[s], ![s] = NULL]
  /\ UNCHANGED guards

DropHandle(h) ==
  /\ h \in handles
  /\ handles' = handles \ {h}
  /\ binding' = [binding EXCEPT ![h] = NULL]
  /\ UNCHANGED guards

Next ==
  \/ \E g \in Guards : NewGuard(g) \/ ClearGuard(g) \/ DropGuard(g)
  \/ \E g, src \in Guards : MoveGuard(g, src)
  \/ \E h \in Handles, g \in Guards : NewHandle(h, g)
  \/ \E h, s \in Handles : CopyHandle(h, s) \/ MoveHandle(h, s)
  \/ \E h \in Handles : DropHandle(h)

Spec == Init /\ [][Next]_vars

=============================================================================
