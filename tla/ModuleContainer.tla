--------------------------- MODULE ModuleContainer ---------------------------
(***************************************************************************)
(* ModulePackageContainer (src/libdnf/module/ModulePackageContainer.cpp): *)
(* the std::map modules from solvable Id to shared_ptr<ModulePackage>, the *)
(* libsolv pool's solvable count and the heap Map activatedModules that    *)
(* resolveActiveModulePackages builds from the module solver's answer.     *)
(*                                                                         *)
(* modules[id] is ABSENT (no key), NULLPTR (a key holding an empty          *)
(* shared_ptr, which operator[] inserts) or the state of the package.  The *)
(* Map is mapAlloc / mapBytes / active as in SolvMap.tla.  fault records   *)
(* undefined behaviour (a null dereference or a read past the Map's        *)
(* bytes); no step is taken after one.  ModulePackage and moduleSolve are  *)
(* not in this repository; they are modelled from spec.md 4.4 and 6.       *)
(***************************************************************************)
EXTENDS Integers, FiniteSets

CONSTANTS
  Ids,          \* solvable Ids the pool can hold: 0 .. MaxPool - 1
  MaxPool,      \* bound on pool->nsolvables
  InitPool,     \* pool->nsolvables when the container is built
  ModIds,       \* Ids at which the module metadata puts a module solvable
  SystemIds,    \* Ids of the solvables of the @System repo
  Names, Streams,
  ModName,      \* ModName[id], ModStream[id]: getName(), getStream()
  ModStream,
  Pkgs,         \* packages (NEVRAs) of the package sack
  Artifacts,    \* Artifacts[id] \subseteq Pkgs: getArtifacts()
  NoDefault,    \* a name with no entry in defaultStreams
  ABSENT, NULLPTR,
  AllowUnknownLookup,  \* callers may call getModulePackage with any Id
  AllowUnresolvedQuery, \* callers may call requiresModuleEnablement first
  AllowStaleQuery      \* callers may query after the pool grew, unresolved

ASSUME /\ Ids = 0 .. MaxPool - 1 /\ InitPool \in 1 .. MaxPool
       /\ ModIds \subseteq Ids /\ SystemIds \subseteq Ids
       /\ ModIds \cap SystemIds = {}

States == {"UNKNOWN", "ENABLED", "DEFAULT"}

VARIABLES
  modules,       \* the std::map modules
  nsolvables,    \* pool->nsolvables
  mapAlloc,      \* activatedModules != nullptr
  mapBytes,      \* activatedModules->size
  active,        \* Ids whose bit is set in activatedModules
  lastSolution,  \* the Ids moduleSolve returned at the last successful call
  required,      \* the value requiresModuleEnablement last returned
  fault          \* "none" or the undefined behaviour that happened

vars == <<modules, nsolvables, mapAlloc, mapBytes, active, lastSolution,
          required, fault>>

Present == {id \in Ids : modules[id] \in States}

\* MAPTST on the Map, defined when it is allocated and id is in its bytes
Active(id) == mapAlloc /\ id \in active

Init ==
  /\ modules = [id \in Ids |-> ABSENT]
  /\ nsolvables = InitPool
  /\ mapAlloc = FALSE
  /\ mapBytes = 0
  /\ active = {}
  /\ lastSolution = {}
  /\ required = {}
  /\ fault = "none"

\* a new repo is loaded into the pool: more solvables
AddSolvable ==
  /\ fault = "none"
  /\ nsolvables < MaxPool
  /\ nsolvables' = nsolvables + 1
  /\ UNCHANGED <<modules, mapAlloc, mapBytes, active, lastSolution, required, fault>>

\* add(package), add(vector), add(map): std::map::insert, which leaves an
\* existing key (a null one included) as it is
add(id) ==
  /\ fault = "none"
  /\ id \in ModIds /\ id < nsolvables
  /\ modules' = IF modules[id] = ABSENT THEN [modules EXCEPT ![id] = "UNKNOWN"]
                ELSE modules
  /\ UNCHANGED <<nsolvables, mapAlloc, mapBytes, active, lastSolution, required, fault>>

\* getModulePackage(id): modules[id], which inserts an empty shared_ptr
getModulePackage(id) ==
  /\ fault = "none"
  /\ modules[id] # ABSENT \/ AllowUnknownLookup
  /\ modules' = IF modules[id] = ABSENT THEN [modules EXCEPT ![id] = NULLPTR]
                ELSE modules
  /\ UNCHANGED <<nsolvables, mapAlloc, mapBytes, active, lastSolution, required, fault>>

\* enable(name, stream): every module of that name and stream, through
\* modulePackage->getName(), which a null entry dereferences
enable(name, stream) ==
  /\ fault = "none"
  /\ IF \E id \in Ids : modules[id] = NULLPTR
       THEN /\ fault' = "null_module"
            /\ UNCHANGED modules
       ELSE /\ modules' = [id \in Ids |->
                             IF id \in Present /\ ModName[id] = name /\ ModStream[id] = stream
                               THEN "ENABLED" ELSE modules[id]]
            /\ UNCHANGED fault
  /\ UNCHANGED <<nsolvables, mapAlloc, mapBytes, active, lastSolution, required>>

\* isModuleActive(id): false without a Map, else MAPTST, which reads past
\* the bytes for an Id the pool gained after the Map was built
isModuleActive(id) ==
  /\ fault = "none"
  /\ id < nsolvables
  /\ ~mapAlloc \/ id < mapBytes * 8 \/ AllowStaleQuery
  /\ fault' = IF mapAlloc /\ id >= mapBytes * 8 THEN "oob_read" ELSE fault
  /\ UNCHANGED <<modules, nsolvables, mapAlloc, mapBytes, active, lastSolution, required>>

(***************************************************************************)
(* requiresModuleEnablement(packages): one pass over Ids 0 .. nsolvables-1 *)
(* carrying testQuery, the output, the modules map (operator[] inserts)    *)
(* and the first undefined behaviour met.  baseQuery is the packages set;  *)
(* testQuery.queryUnion(baseQuery) then the NEVRA filter make testQuery    *)
(* (testQuery \cup base) \cap Artifacts[id].                               *)
(***************************************************************************)
\* Mutant: the queryUnion(baseQuery) that resets testQuery is left out
ReqStepNoUnion(acc, id, base) ==
  IF ~mapAlloc THEN [acc EXCEPT !.fault = "null_map"]
  ELSE IF id >= mapBytes * 8 THEN [acc EXCEPT !.fault = "oob_read"]
  ELSE IF id \notin active THEN acc
  ELSE LET mods == IF acc.mods[id] = ABSENT THEN [acc.mods EXCEPT ![id] = NULLPTR]
                   ELSE acc.mods
           test == acc.test \cap Artifacts[id]
       IN IF mods[id] = NULLPTR THEN [acc EXCEPT !.mods = mods, !.fault = "null_module"]
          ELSE IF mods[id] = "ENABLED" THEN [acc EXCEPT !.mods = mods]
          ELSE [acc EXCEPT !.mods = mods, !.test = test,
                           !.out = IF test = {} THEN @ ELSE @ \cup {id}]

ReqStep(acc, id, base) ==
  IF ~mapAlloc THEN [acc EXCEPT !.fault = "null_map"]
  ELSE IF id >= mapBytes * 8 THEN [acc EXCEPT !.fault = "oob_read"]
  ELSE IF id \notin active THEN acc
  ELSE LET mods == IF acc.mods[id] = ABSENT THEN [acc.mods EXCEPT ![id] = NULLPTR]
                   ELSE acc.mods
           test == (acc.test \cup base) \cap Artifacts[id]
       IN IF mods[id] = NULLPTR THEN [acc EXCEPT !.mods = mods, !.fault = "null_module"]
          ELSE IF mods[id] = "ENABLED" THEN [acc EXCEPT !.mods = mods]
          ELSE [acc EXCEPT !.mods = mods, !.test = test,
                           !.out = IF test = {} THEN @ ELSE @ \cup {id}]

RECURSIVE ScanFrom(_, _, _)
ScanFrom(id, acc, base) ==
  IF id >= nsolvables \/ acc.fault # "none" THEN acc
  ELSE ScanFrom(id + 1, ReqStep(acc, id, base), base)

requiresModuleEnablement(packages) ==
  /\ fault = "none"
  /\ mapAlloc \/ AllowUnresolvedQuery
  /\ ~mapAlloc \/ nsolvables <= mapBytes * 8 \/ AllowStaleQuery
  /\ LET r == ScanFrom(0, [out |-> {}, test |-> packages, mods |-> modules,
                           fault |-> "none"], packages)
     IN /\ modules' = r.mods
        /\ required' = r.out
        /\ fault' = r.fault
  /\ UNCHANGED <<nsolvables, mapAlloc, mapBytes, active, lastSolution>>

(***************************************************************************)
(* resolveActiveModulePackages(defaultStreams): the loop over modules puts *)
(* enabled ones and, setting them DEFAULT, those whose stream is the       *)
(* default into packages; moduleSolve(packages) then either throws (the    *)
(* solver found them inconsistent) or returns a solution containing them;  *)
(* only then is the Map freed (or allocated) and built at nsolvables,      *)
(* leaving out @System solvables.                                          *)
(***************************************************************************)
DefaultOf(d, id) == d[ModName[id]] = ModStream[id]

\* map_init(activatedModules, nsolvables) and MAPSET of every non-system Id
ActivateSolution(ids) ==
  /\ mapAlloc' = TRUE
  /\ mapBytes' = (nsolvables + 7) \div 8
  /\ active' = ids \ SystemIds
  /\ lastSolution' = ids

\* Mutant: the old Map is freed and re-initialised before moduleSolve runs
resolveFreeFirst(d) ==
  /\ fault = "none"
  /\ IF \E id \in Ids : modules[id] = NULLPTR
       THEN /\ fault' = "null_module"
            /\ UNCHANGED <<modules, mapAlloc, mapBytes, active, lastSolution>>
       ELSE LET dflt == {id \in Present : modules[id] # "ENABLED" /\ DefaultOf(d, id)}
                packages == {id \in Present : modules[id] = "ENABLED"} \cup dflt
            IN /\ modules' = [id \in Ids |-> IF id \in dflt THEN "DEFAULT" ELSE modules[id]]
               /\ \/ /\ mapAlloc' = TRUE
                     /\ mapBytes' = (nsolvables + 7) \div 8
                     /\ active' = {}
                     /\ UNCHANGED lastSolution
                  \/ \E ids \in SUBSET ((Present \cup SystemIds) \cap 0 .. nsolvables - 1) :
                       /\ packages \subseteq ids
                       /\ ActivateSolution(ids)
               /\ UNCHANGED fault
  /\ UNCHANGED <<nsolvables, required>>

resolveActiveModulePackages(d) ==
  /\ fault = "none"
  /\ IF \E id \in Ids : modules[id] = NULLPTR
       THEN /\ fault' = "null_module"
            /\ UNCHANGED <<modules, mapAlloc, mapBytes, active, lastSolution>>
       ELSE LET dflt == {id \in Present : modules[id] # "ENABLED" /\ DefaultOf(d, id)}
                packages == {id \in Present : modules[id] = "ENABLED"} \cup dflt
            IN /\ modules' = [id \in Ids |-> IF id \in dflt THEN "DEFAULT" ELSE modules[id]]
               /\ \/ UNCHANGED <<mapAlloc, mapBytes, active, lastSolution>>
                  \/ \E ids \in SUBSET ((Present \cup SystemIds) \cap 0 .. nsolvables - 1) :
                       /\ packages \subseteq ids
                       /\ ActivateSolution(ids)
               /\ UNCHANGED fault
  /\ UNCHANGED <<nsolvables, required>>

DefaultStreamMaps == [Names -> Streams \cup {NoDefault}]

Next ==
  \/ AddSolvable
  \/ \E id \in Ids : add(id) \/ getModulePackage(id) \/ isModuleActive(id)
  \/ \E n \in Names, st \in Streams : enable(n, st)
  \/ \E p \in SUBSET Pkgs : requiresModuleEnablement(p)
  \/ \E d \in DefaultStreamMaps : resolveActiveModulePackages(d)

Spec == Init /\ [][Next]_vars

(***************************************************************************)
(* Properties                                                              *)
(***************************************************************************)

\* No call dereferences a null module entry or a null activatedModules, and
\* no MAPTST reads past the Map's bytes (isModuleActive, the loop of
\* requiresModuleEnablement, the loops of enable and resolve).
NoUndefinedBehaviour == fault = "none"

\* spec.md 4.4 and 8: isModuleActive answers membership in the last
\* solution the solver returned, minus the @System solvables, and a
\* resolve whose solve throws leaves those answers as they were.
ActivationIsLastSolution ==
  \A id \in Ids : Active(id) <=> id \in lastSolution \ SystemIds

\* spec.md 4.4: requiresModuleEnablement returns the active modules not
\* yet enabled that have an artifact among the given packages, whatever
\* the modules examined before them.
RequiredAreActiveWithArtifacts ==
  [][\A p \in SUBSET Pkgs :
       (requiresModuleEnablement(p) /\ fault' = "none") =>
         required' = {id \in active : modules[id] # "ENABLED" /\ Artifacts[id] \cap p # {}}]_vars

====
