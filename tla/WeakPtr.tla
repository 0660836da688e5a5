------------------------------- MODULE WeakPtr -------------------------------
(***************************************************************************)
(* WeakPtr<TPtr, ptr_owner> and WeakPtrGuard<TPtr, ptr_owner>              *)
(* (src/include/libdnf/utils/weak_ptr.hpp).                                *)
(*                                                                         *)
(* Objects are addresses: Handles are the slots WeakPtr objects occupy,    *)
(* Guards the slots of WeakPtrGuard objects, Resources the slots of TPtr   *)
(* objects.  A slot is reused once its object is destroyed, as the         *)
(* allocator does, and a destroyed object keeps its last member values.   *)
(* Each constructor, destructor, assignment operator and clear() is one    *)
(* atomic action (the code is single-threaded).  Touching a destroyed     *)
(* object is undefined behaviour; the model records it in uaf.             *)
(***************************************************************************)
EXTENDS FiniteSets

CONSTANTS
  Handles,
  Guards,
  Resources,
  NULL,
  PtrOwner,             \* the ptr_owner template argument
  AllowSelfAssign       \* the program may assign a WeakPtr to itself

ASSUME NULL \notin Handles \cup Guards \cup Resources
ASSUME {PtrOwner, AllowSelfAssign} \subseteq BOOLEAN

VARIABLES
  alive,       \* WeakPtr objects that exist
  ptr,         \* WeakPtr::ptr
  guard,       \* WeakPtr::guard
  galive,      \* WeakPtrGuard objects that exist
  registered,  \* WeakPtrGuard::registered_weak_ptrs
  heap,        \* TPtr objects allocated and owned through owning WeakPtrs
  uaf          \* a freed TPtr, a destroyed guard or a dead WeakPtr was accessed

vars == <<alive, ptr, guard, galive, registered, heap, uaf>>

(***************************************************************************)
(* Helpers                                                                 *)
(***************************************************************************)

IsValid(h) == guard[h] # NULL

register_ptr(reg, g, h) == [reg EXCEPT ![g] = @ \cup {h}]
unregister_ptr(reg, g, h) == [reg EXCEPT ![g] = @ \ {h}]

\* calling register_ptr/unregister_ptr through h's guard member
TouchesDeadGuard(h) == IsValid(h) /\ guard[h] \notin galive

\* the pointer a copy of p receives: p itself, or with ptr_owner
\* `p ? new TPtr(*p) : nullptr`, a fresh slot not allocated in heap hp
CopiedPtr(p, hp) == IF PtrOwner /\ p # NULL THEN Resources \ hp ELSE {p}
Alloc(hp, p) == IF PtrOwner /\ p # NULL THEN hp \cup {p} ELSE hp
\* `if constexpr (ptr_owner) delete ptr;`
Delete(hp, p) == IF PtrOwner THEN hp \ {p} ELSE hp
\* dereferencing or deleting p is a use after free
Freed(hp, p) == PtrOwner /\ p # NULL /\ p \notin hp

Init ==
  /\ alive = {}
  /\ ptr = [h \in Handles |-> NULL]
  /\ guard = [h \in Handles |-> NULL]
  /\ galive = {}
  /\ registered = [g \in Guards |-> {}]
  /\ heap = {}
  /\ uaf = FALSE

(***************************************************************************)
(* WeakPtrGuard                                                            *)
(***************************************************************************)

WeakPtrGuardCreate(g) ==
  /\ g \notin galive
  /\ galive' = galive \cup {g}
  /\ registered' = [registered EXCEPT ![g] = {}]
  /\ UNCHANGED <<alive, ptr, guard, heap, uaf>>

\* clear(): invalidate_guard() on every registered WeakPtr
InvalidateRegistered(g) ==
  /\ guard' = [h \in Handles |-> IF h \in registered[g] THEN NULL ELSE guard[h]]
  /\ uaf' = (uaf \/ ~(registered[g] \subseteq alive))

clear(g) ==
  /\ g \in galive
  /\ InvalidateRegistered(g)
  /\ registered' = [registered EXCEPT ![g] = {}]
  /\ UNCHANGED <<alive, ptr, galive, heap>>

\* Mutant: a destructor that releases the guard without calling clear()
WeakPtrGuardDestroyNoClear(g) ==
  /\ g \in galive
  /\ galive' = galive \ {g}
  /\ UNCHANGED <<alive, ptr, guard, registered, heap, uaf>>

\* ~WeakPtrGuard() { clear(); }
WeakPtrGuardDestroy(g) ==
  /\ g \in galive
  /\ InvalidateRegistered(g)
  /\ registered' = [registered EXCEPT ![g] = {}]
  /\ galive' = galive \ {g}
  /\ UNCHANGED <<alive, ptr, heap>>

\* registered_weak_ptrs = std::move(src.registered_weak_ptrs) and
\* it->guard = this for each; the moved-from set is left empty
TakeRegistrations(g, src) ==
  /\ registered' = [registered EXCEPT ![g] = registered[src], ![src] = {}]
  /\ guard' = [h \in Handles |-> IF h \in registered[src] THEN g ELSE guard[h]]
  /\ uaf' = (uaf \/ ~(registered[src] \subseteq alive))

WeakPtrGuardMoveConstruct(g, src) ==
  /\ g \notin galive
  /\ src \in galive
  /\ galive' = galive \cup {g}
  /\ TakeRegistrations(g, src)
  /\ UNCHANGED <<alive, ptr, heap>>

\* operator=(WeakPtrGuard &&): the WeakPtrs registered at g before are
\* overwritten in the set, not invalidated
WeakPtrGuardMoveAssign(g, src) ==
  /\ {g, src} \subseteq galive
  /\ g # src
  /\ TakeRegistrations(g, src)
  /\ UNCHANGED <<alive, ptr, galive, heap>>

(***************************************************************************)
(* WeakPtr                                                                 *)
(***************************************************************************)

\* WeakPtr(TPtr * ptr, TWeakPtrGuard * guard) with non-null arguments; with
\* ptr_owner the caller hands over a freshly allocated TPtr
WeakPtrConstruct(h, r, g) ==
  /\ h \notin alive
  /\ g \in galive
  /\ r \in (IF PtrOwner THEN Resources \ heap ELSE Resources)
  /\ alive' = alive \cup {h}
  /\ ptr' = [ptr EXCEPT ![h] = r]
  /\ guard' = [guard EXCEPT ![h] = g]
  /\ registered' = register_ptr(registered, g, h)
  /\ heap' = Alloc(heap, r)
  /\ UNCHANGED <<galive, uaf>>

WeakPtrCopyConstruct(h, s) ==
  /\ h \notin alive
  /\ s \in alive
  /\ \E np \in CopiedPtr(ptr[s], heap) :
       /\ ptr' = [ptr EXCEPT ![h] = np]
       /\ heap' = Alloc(heap, np)
  /\ alive' = alive \cup {h}
  /\ guard' = [guard EXCEPT ![h] = guard[s]]
  /\ registered' = IF IsValid(s) THEN register_ptr(registered, guard[s], h)
                   ELSE registered
  /\ uaf' = (uaf \/ Freed(heap, ptr[s]) \/ TouchesDeadGuard(s))
  /\ UNCHANGED galive

\* WeakPtr(WeakPtr && src), ptr_owner only
WeakPtrMoveConstruct(h, s) ==
  /\ PtrOwner
  /\ h \notin alive
  /\ s \in alive
  /\ alive' = alive \cup {h}
  /\ ptr' = [ptr EXCEPT ![h] = ptr[s], ![s] = NULL]
  /\ guard' = [guard EXCEPT ![h] = guard[s], ![s] = NULL]
  /\ registered' = IF IsValid(s)
                   THEN register_ptr(unregister_ptr(registered, guard[s], s), guard[s], h)
                   ELSE registered
  /\ uaf' = (uaf \/ TouchesDeadGuard(s))
  /\ UNCHANGED <<galive, heap>>

\* Mutant: a destructor that forgets guard->unregister_ptr(this)
WeakPtrDestroyNoUnregister(h) ==
  /\ h \in alive
  /\ alive' = alive \ {h}
  /\ heap' = Delete(heap, ptr[h])
  /\ uaf' = (uaf \/ Freed(heap, ptr[h]))
  /\ UNCHANGED <<ptr, guard, galive, registered>>

WeakPtrDestroy(h) ==
  /\ h \in alive
  /\ alive' = alive \ {h}
  /\ registered' = IF IsValid(h) THEN unregister_ptr(registered, guard[h], h)
                   ELSE registered
  /\ heap' = Delete(heap, ptr[h])
  /\ uaf' = (uaf \/ TouchesDeadGuard(h) \/ Freed(heap, ptr[h]))
  /\ UNCHANGED <<ptr, guard, galive>>

\* Mutant: the different-guard branch re-registers when this was valid
\* before the assignment instead of when it is valid after it
WeakPtrCopyAssignStaleCheck(h, s) ==
  /\ {h, s} \subseteq alive
  /\ h # s \/ AllowSelfAssign
  /\ LET sameGuard == guard[h] = guard[s]
         heap1 == Delete(heap, ptr[h])
         reg1 == IF ~sameGuard /\ IsValid(h)
                 THEN unregister_ptr(registered, guard[h], h) ELSE registered
     IN /\ \E np \in CopiedPtr(ptr[s], heap1) :
             /\ ptr' = [ptr EXCEPT ![h] = np]
             /\ heap' = Alloc(heap1, np)
        /\ guard' = [guard EXCEPT ![h] = guard[s]]
        /\ registered' = IF ~sameGuard /\ IsValid(h) /\ IsValid(s)
                         THEN register_ptr(reg1, guard[s], h) ELSE reg1
        /\ UNCHANGED uaf
  /\ UNCHANGED <<alive, galive>>

\* operator=(const WeakPtr &): when the guards differ, h is unregistered,
\* takes src's guard and registers again; in both branches the old TPtr is
\* deleted before *src.ptr is copied
WeakPtrCopyAssign(h, s) ==
  /\ {h, s} \subseteq alive
  /\ h # s \/ AllowSelfAssign
  /\ LET sameGuard == guard[h] = guard[s]
         heap1 == Delete(heap, ptr[h])
         reg1 == IF ~sameGuard /\ IsValid(h)
                 THEN unregister_ptr(registered, guard[h], h) ELSE registered
     IN /\ \E np \in CopiedPtr(ptr[s], heap1) :
             /\ ptr' = [ptr EXCEPT ![h] = np]
             /\ heap' = Alloc(heap1, np)
        /\ guard' = [guard EXCEPT ![h] = guard[s]]
        /\ registered' = IF ~sameGuard /\ IsValid(s)
                         THEN register_ptr(reg1, guard[s], h) ELSE reg1
        /\ uaf' = (uaf \/ Freed(heap, ptr[h]) \/ Freed(heap1, ptr[s])
                       \/ (~sameGuard /\ (TouchesDeadGuard(h) \/ TouchesDeadGuard(s))))
  /\ UNCHANGED <<alive, galive>>

\* Mutant: move assignment that overwrites ptr without `delete ptr`
WeakPtrMoveAssignNoDelete(h, s) ==
  /\ PtrOwner
  /\ {h, s} \subseteq alive
  /\ h # s \/ AllowSelfAssign
  /\ LET sameGuard == guard[h] = guard[s]
         reg1 == IF ~sameGuard /\ IsValid(h)
                 THEN unregister_ptr(registered, guard[h], h) ELSE registered
         reg2 == IF IsValid(s) THEN unregister_ptr(reg1, guard[s], s) ELSE reg1
     IN /\ guard' = [[guard EXCEPT ![h] = guard[s]] EXCEPT ![s] = NULL]
        /\ ptr' = [[ptr EXCEPT ![h] = ptr[s]] EXCEPT ![s] = NULL]
        /\ registered' = IF ~sameGuard /\ IsValid(s)
                         THEN register_ptr(reg2, guard[s], h) ELSE reg2
        /\ UNCHANGED <<heap, uaf>>
  /\ UNCHANGED <<alive, galive>>

\* operator=(WeakPtr &&), ptr_owner only; the steps are applied in the
\* code's order so that h = s behaves as the code does
WeakPtrMoveAssign(h, s) ==
  /\ PtrOwner
  /\ {h, s} \subseteq alive
  /\ h # s \/ AllowSelfAssign
  /\ LET sameGuard == guard[h] = guard[s]
         reg1 == IF ~sameGuard /\ IsValid(h)
                 THEN unregister_ptr(registered, guard[h], h) ELSE registered
         reg2 == IF IsValid(s) THEN unregister_ptr(reg1, guard[s], s) ELSE reg1
         guard1 == [guard EXCEPT ![h] = guard[s]]
         ptr1 == [ptr EXCEPT ![h] = ptr[s]]
     IN /\ guard' = [guard1 EXCEPT ![s] = NULL]
        /\ ptr' = [ptr1 EXCEPT ![s] = NULL]
        /\ heap' = Delete(heap, ptr[h])
        /\ registered' = IF ~sameGuard /\ IsValid(s)
                         THEN register_ptr(reg2, guard[s], h) ELSE reg2
        /\ uaf' = (uaf \/ Freed(heap, ptr[h]) \/ TouchesDeadGuard(s)
                       \/ (~sameGuard /\ TouchesDeadGuard(h)))
  /\ UNCHANGED <<alive, galive>>

\* check(): throws InvalidPtr("Data guard is invalid") unless is_valid()
check(h) == IsValid(h)

\* operator->() and get(): check(), then the caller uses *ptr; when check()
\* throws nothing changes, so only the valid case is a step
WeakPtrDeref(h) ==
  /\ h \in alive
  /\ check(h)
  /\ uaf' = (uaf \/ Freed(heap, ptr[h]))
  /\ UNCHANGED <<alive, ptr, guard, galive, registered, heap>>

Next ==
  \/ \E g \in Guards :
       \/ WeakPtrGuardCreate(g)
       \/ clear(g)
       \/ WeakPtrGuardDestroy(g)
  \/ \E g, src \in Guards : WeakPtrGuardMoveConstruct(g, src)
  \/ \E h \in Handles, r \in Resources, g \in Guards : WeakPtrConstruct(h, r, g)
  \/ \E h, s \in Handles :
       \/ WeakPtrCopyConstruct(h, s)
       \/ WeakPtrMoveConstruct(h, s)
       \/ WeakPtrCopyAssign(h, s)
       \/ WeakPtrMoveAssign(h, s)
  \/ \E h \in Handles : WeakPtrDestroy(h) \/ WeakPtrDeref(h)

Spec == Init /\ [][Next]_vars

\* the same calls, plus move-assignment of a guard that may be in use
GuardMoveNext == Next \/ \E g, src \in Guards : WeakPtrGuardMoveAssign(g, src)

GuardMoveSpec == Init /\ [][GuardMoveNext]_vars

(***************************************************************************)
(* Properties                                                              *)
(***************************************************************************)

TypeOK ==
  /\ alive \subseteq Handles
  /\ ptr \in [Handles -> Resources \cup {NULL}]
  /\ guard \in [Handles -> Guards \cup {NULL}]
  /\ galive \subseteq Guards
  /\ registered \in [Guards -> SUBSET Handles]
  /\ heap \subseteq Resources
  /\ uaf \in BOOLEAN

\* The guard's registry and the handles' guard members agree, across every
\* copy/move constructor and assignment branch: a live guard has registered
\* exactly the live WeakPtrs whose guard member names it, and a valid
\* WeakPtr names a live guard.  clear() relies on this to invalidate every
\* WeakPtr of the resource.
RegistryConsistent ==
  /\ \A g \in galive : registered[g] = {h \in alive : guard[h] = g}
  /\ \A h \in alive : IsValid(h) => guard[h] \in galive

\* With ptr_owner, every TPtr allocated for a WeakPtr is owned by exactly one
\* live WeakPtr and every live WeakPtr owns an allocated TPtr or nothing:
\* no copy or move shares, leaks or keeps a freed TPtr.
ExclusiveOwnership ==
  PtrOwner =>
    /\ \A r \in heap : Cardinality({h \in alive : ptr[h] = r}) = 1
    /\ \A h \in alive : ptr[h] \in heap \cup {NULL}

\* No constructor, destructor, assignment or clear() touches a freed TPtr,
\* a destroyed WeakPtrGuard or a destroyed WeakPtr.
NoUseAfterFree == ~uaf

\* WeakPtr/WeakPtrGuard implement WeakHandle: validity changes only as the
\* guard and handle operations of spec.md 4.3 say.
WH == INSTANCE WeakHandle WITH
        handles <- alive,
        guards <- galive,
        binding <- [h \in Handles |-> IF h \in alive THEN guard[h] ELSE NULL]

WeakHandleSpec == WH!Spec

=============================================================================
