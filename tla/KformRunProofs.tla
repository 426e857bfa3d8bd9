---------------------------- MODULE KformRunProofs ----------------------------
(***************************************************************************)
(* What runs of kform do to the cluster and the inventory, for every set   *)
(* of resources and packages and any number of runs.                       *)
(***************************************************************************)
EXTENDS KformRun, TLAPS

\* The only steps that change the cluster or the inventory, by what they do to it.
Acts ==
  \/ \E r \in Resources : Actuate(r) \/ ActuateError(r)
  \/ \E r \in Resources : Prune(r) \/ PruneError(r)
  \/ Save
  \/ \E o \in Objects : Lose(o)

\* What is parsed, rendered, or left by the differ is a part of what there was.
LEMMA Parts ==
  /\ \A S : \A K \in Parses(S) : K \subseteq S
  /\ \A p : \A S \in Rendered(p) : S \subseteq p
  /\ Unmatched \subseteq existing
  BY DEF Parses, Rendered, Unmatched

\* A resource describes an object.
LEMMA ObjectType == \A r \in Resources : Object[r] \in Objects
  BY RunAssumption

\* Nothing runs, and nothing exists that kform made.
LEMMA InitRun == Init => RunInv
<1>. SUFFICES ASSUME Init  PROVE RunInv
  OBVIOUS
<1>1. TypeOK
  <2>1. MaxRuns \in Nat /\ MaxLost \in Nat
    BY RunAssumption
  <2>2. runs \in 0..MaxRuns /\ lost \in 0..MaxLost
    BY <2>1 DEF Init
  <2>3. destroy \in BOOLEAN /\ dryRun \in BOOLEAN /\ torn \in BOOLEAN /\ failed \in BOOLEAN
    BY DEF Init
  <2>. QED  BY <2>2, <2>3 DEF Init, TypeOK, Phases
<1>2. PruneInv
  BY DEF Init, PruneInv
<1>. QED  BY <1>1, <1>2 DEF RunInv

\* When a command returns, or is killed, the invariant holds of what is left.
LEMMA ExitRun ==
  ASSUME RunInv, Exit, cluster' \subseteq Objects, inventory' \subseteq Resources
  PROVE  RunInv'
  BY DEF RunInv, TypeOK, PruneInv, Phases, Exit, Unmatched

\* A deletion by somebody else leaves less to prune.
LEMMA LoseRun == ASSUME RunInv, NEW o \in Objects, Lose(o) PROVE RunInv'
<1>1. TypeOK'
  BY RunAssumption DEF RunInv, TypeOK, Lose, config, memory
<1>2. Unmatched' = Unmatched
  BY DEF Lose, config, memory, Unmatched
<1>3. PruneInv'
  BY <1>2 DEF RunInv, PruneInv, Lose, config, memory
<1>. QED  BY <1>1, <1>3 DEF RunInv

\* Every step of the first execution reads what the inventory records.
LEMMA ExistingRun ==
  ASSUME RunInv,
         \/ ReadInventory
         \/ \E r \in Resources : ReadFound(r) \/ ReadError(r)
         \/ EndExisting
  PROVE  RunInv'
<1>1. CASE ReadInventory
  BY <1>1, Parts DEF RunInv, TypeOK, PruneInv, Phases, ReadInventory, config
<1>2. ASSUME NEW r \in Resources, ReadFound(r)  PROVE RunInv'
  BY <1>2 DEF RunInv, TypeOK, PruneInv, Phases, ReadFound, config
<1>3. ASSUME NEW r \in Resources, ReadError(r)  PROVE RunInv'
  BY <1>3 DEF RunInv, TypeOK, PruneInv, Phases, ReadError, config
<1>4. CASE EndExisting
  <2>1. CASE destroy
    BY <1>4, <2>1 DEF RunInv, TypeOK, PruneInv, Phases, EndExisting, config
  <2>2. CASE ~destroy
    <3>1. todo' \in Rendered(package) /\ actuated = {}
      BY <1>4, <2>2 DEF RunInv, PruneInv, EndExisting
    <3>2. todo' \subseteq package /\ todo' \cup actuated = todo'
      BY <3>1, Parts
    <3>. QED  BY <1>4, <2>2, <3>1, <3>2 DEF RunInv, TypeOK, PruneInv, Phases, EndExisting, config
  <2>. QED  BY <2>1, <2>2
<1>. QED  BY <1>1, <1>2, <1>3, <1>4

\* Unless a block fails, what is actuated and what is to do make up the package.
LEMMA ActuateRun ==
  ASSUME RunInv,
         \/ \E r \in Resources : Actuate(r) \/ ActuateError(r)
         \/ EndActuate
  PROVE  RunInv'
<1>1. ASSUME NEW r \in Resources, Actuate(r)  PROVE RunInv'
  <2>1. todo' \cup actuated' = todo \cup actuated
    BY <1>1 DEF Actuate
  <2>. QED  BY <1>1, <2>1, ObjectType
            DEF RunInv, TypeOK, PruneInv, Phases, Actuate, Applied, config
<1>2. ASSUME NEW r \in Resources, ActuateError(r)  PROVE RunInv'
  BY <1>2, ObjectType DEF RunInv, TypeOK, PruneInv, Phases, ActuateError, Applied, config
<1>3. CASE EndActuate
  <2>1. todo \cup actuated = actuated
    BY <1>3 DEF EndActuate
  <2>. QED  BY <1>3, <2>1 DEF RunInv, TypeOK, PruneInv, Phases, EndActuate, config, memory
<1>. QED  BY <1>1, <1>2, <1>3

\* What is to prune was read and has no counterpart in the package; until a
\* deletion fails, what of it still exists is to do, or was lost by the parser.
LEMMA PruneRun ==
  ASSUME RunInv,
         \/ Diff
         \/ \E r \in Resources : Prune(r) \/ PruneError(r)
         \/ EndPrune
  PROVE  RunInv'
<1>1. CASE Diff
  <2>1. CASE torn \/ dryRun
    <3>1. Exit /\ cluster' \subseteq Objects /\ inventory' \subseteq Resources
      BY <1>1, <2>1 DEF Diff, RunInv, TypeOK
    <3>. QED  BY <3>1, ExitRun
  <2>2. CASE ~(torn \/ dryRun)
    <3>1. Unmatched' = Unmatched
      BY <1>1, <2>2 DEF Diff, Unmatched
    <3>2. todo' \subseteq Unmatched /\ todo' \subseteq existing
      BY <1>1, <2>2, Parts DEF Diff
    <3>3. \A r \in Unmatched \ todo' : TwoOthers(r, Unmatched)
      BY <1>1, <2>2, <3>2 DEF Diff, Parses, TwoOthers
    <3>. QED  BY <1>1, <2>2, <3>1, <3>2, <3>3
              DEF Diff, RunInv, TypeOK, PruneInv, Phases, config
  <2>. QED  BY <2>1, <2>2
<1>2. ASSUME NEW r \in Resources, Prune(r)  PROVE RunInv'
  <2>1. Unmatched' = Unmatched
    BY <1>2 DEF Prune, Unmatched
  <2>. QED  BY <1>2, <2>1 DEF Prune, RunInv, TypeOK, PruneInv, Phases, config
<1>3. ASSUME NEW r \in Resources, PruneError(r)  PROVE RunInv'
  <2>1. Unmatched' = Unmatched
    BY <1>3 DEF PruneError, Unmatched
  <2>. QED  BY <1>3, <2>1 DEF PruneError, RunInv, TypeOK, PruneInv, Phases, config
<1>4. CASE EndPrune
  <2>1. Unmatched' = Unmatched
    BY <1>4 DEF EndPrune, memory, Unmatched
  <2>. QED  BY <1>4, <2>1 DEF EndPrune, RunInv, TypeOK, PruneInv, Phases, config, memory
<1>. QED  BY <1>1, <1>2, <1>3, <1>4

\* The command line and the package are read once, when nothing is in memory.
LEMMA StartRun ==
  ASSUME RunInv, NEW p \in Packages, NEW d \in BOOLEAN, NEW y \in BOOLEAN, Start(p, d, y)
  PROVE  RunInv'
<1>1. p \subseteq Resources
  BY RunAssumption
<1>. QED  BY <1>1, RunAssumption DEF Start, RunInv, TypeOK, PruneInv, Phases, memory

\* Every step of a run keeps the invariant.
LEMMA NextRun == RunInv /\ [Next]_vars => RunInv'
<1>. SUFFICES ASSUME RunInv, [Next]_vars  PROVE RunInv'
  OBVIOUS
<1>1. ASSUME NEW p \in Packages, NEW d \in BOOLEAN, NEW y \in BOOLEAN, Start(p, d, y)
      PROVE  RunInv'
  BY <1>1, StartRun
<1>2. CASE Save \/ Abort \/ Crash
  <2>1. Exit /\ cluster' \subseteq Objects /\ inventory' \subseteq Resources
    BY <1>2 DEF Save, ApplyInventory, DeleteInventory, Abort, Crash, RunInv, TypeOK
  <2>. QED  BY <2>1, ExitRun
<1>3. ASSUME NEW o \in Objects, Lose(o)  PROVE RunInv'
  BY <1>3, LoseRun
<1>4. CASE UNCHANGED vars
  <2>1. Unmatched' = Unmatched
    BY <1>4 DEF vars, memory, Unmatched
  <2>. QED  BY <1>4, <2>1 DEF RunInv, TypeOK, PruneInv, vars, config, memory
<1>. QED  BY <1>1, <1>2, <1>3, <1>4, ExistingRun, ActuateRun, PruneRun DEF Next

\* The bookkeeping of a run is right in every state: what it read is recorded,
\* what it prunes was read and is not in the package, and it gets to the
\* inventory only when all of the package is actuated and all of that is gone.
THEOREM RunInvariant == Spec => []RunInv
<1>. QED  BY InitRun, NextRun, PTL DEF Spec, RunInv

\* The variables keep their types, in every phase and after every failure; a destroy
\* in particular actuates nothing.
THEOREM TypeCorrect == Spec => []TypeOK
<1>. QED  BY RunInvariant, PTL DEF RunInv
-----------------------------------------------------------------------------
\* The steps that do not act on the cluster or the inventory leave both alone.
LEMMA Acting == [Next]_vars => Acts \/ UNCHANGED <<cluster, inventory>>
  BY DEF Next, vars, Acts, Start, ReadInventory, ReadFound, ReadError, EndExisting,
         EndActuate, Diff, EndPrune, Abort, Crash

\* An object that a run deletes is recorded, and unless the run is a destroy, the
\* package was rendered without what was recorded.
LEMMA DeleteStep ==
  ASSUME RunInv, [Next]_vars, lost' = lost, NEW o \in cluster \ cluster'
  PROVE  \E r \in inventory :
           Object[r] = o /\ (destroy \/ \E S \in Rendered(package) : r \notin S)
<1>1. Acts
  BY Acting
<1>2. ~\E q \in Objects : Lose(q)
  BY RunAssumption DEF Lose, RunInv, TypeOK
<1>3. PICK r \in Resources : Prune(r) \/ PruneError(r)
  BY <1>1, <1>2 DEF Acts, Actuate, ActuateError, Applied, Save, ApplyInventory, DeleteInventory
<1>4. Object[r] = o /\ phase = "prune"
  BY <1>3 DEF Prune, PruneError
<1>5. r \in Unmatched
  BY <1>3 DEF Prune, PruneError, RunInv, PruneInv
<1>6. r \in inventory
  BY <1>5 DEF Unmatched, RunInv, PruneInv
<1>7. r \notin actuated
  BY <1>5 DEF Unmatched, Same
<1>8. destroy \/ actuated \in Rendered(package)
  BY <1>4 DEF RunInv, PruneInv
<1>. QED  BY <1>4, <1>6, <1>7, <1>8

\* kform deletes only what it recorded and what its package, as it is rendered,
\* does not hold under the same block.
THEOREM OnlyUnwantedIsDeleted == Spec => DeletesOnlyUnwanted
<1>1. RunInv /\ [Next]_vars =>
        [lost' = lost =>
           \A o \in cluster \ cluster' : \E r \in inventory :
             Object[r] = o /\ (destroy \/ \E S \in Rendered(package) : r \notin S)]_vars
  BY DeleteStep
<1>. QED  BY <1>1, InitRun, NextRun, PTL DEF Spec, DeletesOnlyUnwanted

\* A dry run changes neither the cluster nor the inventory.
THEOREM DryRunIsDry == Spec => DryRunChangesNothing
<1>1. RunInv /\ [Next]_vars =>
        [dryRun /\ lost' = lost => UNCHANGED <<cluster, inventory>>]_vars
  <2>. SUFFICES ASSUME RunInv, [Next]_vars, dryRun, lost' = lost
                PROVE  UNCHANGED <<cluster, inventory>>
    OBVIOUS
  <2>1. CASE Acts
    <3>1. ~\E q \in Objects : Lose(q)
      BY RunAssumption DEF Lose, RunInv, TypeOK
    <3>2. phase \notin {"prune", "save"}
      BY DEF RunInv, PruneInv
    <3>. QED  BY <2>1, <3>1, <3>2
              DEF Acts, Actuate, ActuateError, Applied, Prune, PruneError, Save, ApplyInventory, DeleteInventory
  <2>. QED  BY <2>1, Acting
<1>. QED  BY <1>1, InitRun, NextRun, PTL DEF Spec, DryRunChangesNothing

\* Only a run that went through to its end replaces the inventory.
LEMMA SaveStep ==
  ASSUME RunInv, [Next]_vars, inventory' # inventory
  PROVE  Save
  BY Acting DEF Acts, Actuate, ActuateError, Prune, PruneError, Lose

\* The inventory is replaced by the whole package as it is rendered, or by nothing.
THEOREM PackageIsRecorded == Spec => InventoryIsPackage
<1>1. RunInv /\ [Next]_vars =>
        [inventory' # inventory =>
           inventory' \in IF destroy THEN {{}} ELSE Rendered(package)]_vars
  <2>. SUFFICES ASSUME RunInv, [Next]_vars, inventory' # inventory
                PROVE  inventory' \in IF destroy THEN {{}} ELSE Rendered(package)
    OBVIOUS
  <2>. QED  BY SaveStep DEF Save, ApplyInventory, DeleteInventory, RunInv, PruneInv
<1>. QED  BY <1>1, InitRun, NextRun, PTL DEF Spec, InventoryIsPackage

\* What a run found and no longer records is gone, unless a namesake is recorded or
\* two others of its block were to be pruned with it.
THEOREM NoneForgotten == Spec => NothingFoundIsForgotten
<1>1. RunInv /\ [Next]_vars =>
        [inventory' # inventory =>
           \A r \in existing :
             Object[r] \in cluster =>
               (\E s \in inventory' : Same(r, s)) \/ TwoOthers(r, Unmatched)]_vars
  <2>. SUFFICES ASSUME RunInv, [Next]_vars, inventory' # inventory,
                       NEW r \in existing, Object[r] \in cluster, ~TwoOthers(r, Unmatched)
                PROVE  \E s \in inventory' : Same(r, s)
    OBVIOUS
  <2>1. Save
    BY SaveStep
  <2>2. r \notin Unmatched
    BY <2>1 DEF Save, RunInv, PruneInv
  <2>3. PICK s \in actuated : Same(r, s)
    BY <2>2 DEF Unmatched
  <2>4. inventory' = actuated
    BY <2>1, <2>3 DEF Save, ApplyInventory, DeleteInventory, RunInv, TypeOK
  <2>. QED  BY <2>3, <2>4
<1>. QED  BY <1>1, InitRun, NextRun, PTL DEF Spec, NothingFoundIsForgotten
-----------------------------------------------------------------------------
\* As long as nobody else deletes, what the running command has actuated exists,
\* unless the inventory has it under another block; a dry run never gets there.
Renamed(r) == \E s \in inventory : Object[s] = Object[r] /\ Block[s] # Block[r]

ThereInv == lost = 0 /\ ~dryRun => \A r \in actuated : Object[r] \in cluster \/ Renamed(r)

LEMMA InitThere == Init => ThereInv
  BY DEF Init, ThereInv

\* What is pruned is not the counterpart of anything actuated: of one object, the
\* two are of different blocks.
LEMMA PruneThere ==
  ASSUME RunInv, NEW q \in Unmatched, NEW r \in actuated, Object[q] = Object[r]
  PROVE  Renamed(r)
<1>1. q \in inventory
  BY Parts DEF RunInv, PruneInv
<1>2. Block[q] # Block[r]
  BY DEF Unmatched, Same
<1>. QED  BY <1>1, <1>2 DEF Renamed

\* A step that changes the command begins with, or leaves, nothing actuated.
LEMMA ThereStep == RunInv /\ ThereInv /\ [Next]_vars => ThereInv'
<1>. SUFFICES ASSUME RunInv, ThereInv, [Next]_vars  PROVE ThereInv'
  OBVIOUS
<1>1. ASSUME NEW p \in Packages, NEW d \in BOOLEAN, NEW y \in BOOLEAN, Start(p, d, y)
      PROVE  ThereInv'
  BY <1>1 DEF Start, memory, RunInv, PruneInv, ThereInv
<1>2. CASE ReadInventory \/ EndExisting \/ EndActuate \/ EndPrune
  BY <1>2 DEF ReadInventory, EndExisting, EndActuate, EndPrune, config, memory, ThereInv, Renamed
<1>3. ASSUME NEW r \in Resources, ReadFound(r) \/ ReadError(r)  PROVE ThereInv'
  BY <1>3 DEF ReadFound, ReadError, config, ThereInv, Renamed
<1>4. ASSUME NEW r \in Resources, Actuate(r) \/ ActuateError(r)  PROVE ThereInv'
  BY <1>4 DEF Actuate, ActuateError, Applied, config, ThereInv, Renamed
<1>5. CASE Diff \/ Save \/ Abort \/ Crash
  BY <1>5 DEF Diff, Save, Abort, Crash, Exit, config, ThereInv, Renamed
<1>6. ASSUME NEW q \in Resources, Prune(q) \/ PruneError(q)  PROVE ThereInv'
  <2>1. q \in Unmatched
    BY <1>6 DEF Prune, PruneError, RunInv, PruneInv
  <2>2. UNCHANGED <<lost, dryRun, actuated, inventory>> /\ cluster \ {Object[q]} \subseteq cluster'
    BY <1>6 DEF Prune, PruneError, config
  <2>3. ASSUME lost = 0, ~dryRun, NEW r \in actuated  PROVE Object[r] \in cluster' \/ Renamed(r)
    BY <2>1, <2>2, <2>3, PruneThere DEF ThereInv
  <2>. QED  BY <2>2, <2>3 DEF ThereInv, Renamed
<1>7. ASSUME NEW o \in Objects, Lose(o)  PROVE ThereInv'
  <2>1. lost \in Nat /\ lost' = lost + 1
    BY <1>7, RunAssumption DEF Lose, RunInv, TypeOK
  <2>. QED  BY <2>1 DEF ThereInv
<1>8. CASE UNCHANGED vars
  BY <1>8 DEF vars, config, memory, ThereInv, Renamed
<1>. QED  BY <1>1, <1>2, <1>3, <1>4, <1>5, <1>6, <1>7, <1>8 DEF Next

\* What a successful command records exists, whatever happened to earlier ones,
\* except what the command before recorded under another block.
THEOREM WhatIsRecordedExists == Spec => RecordedExists
<1>1. RunInv /\ ThereInv /\ [Next]_vars =>
        [inventory' # inventory /\ lost = 0 =>
           \A r \in inventory' :
             \/ Object[r] \in cluster'
             \/ \E s \in inventory : Object[s] = Object[r] /\ Block[s] # Block[r]]_vars
  <2>. SUFFICES ASSUME RunInv, ThereInv, [Next]_vars, inventory' # inventory, lost = 0,
                       NEW r \in inventory'
                PROVE  Object[r] \in cluster' \/ Renamed(r)
    BY DEF Renamed
  <2>1. Save
    BY SaveStep
  <2>2. ~dryRun /\ cluster' = cluster /\ inventory' \subseteq actuated
    BY <2>1 DEF Save, ApplyInventory, DeleteInventory, RunInv, PruneInv
  <2>. QED  BY <2>2 DEF ThereInv
<1>. QED  BY <1>1, InitRun, NextRun, InitThere, ThereStep, PTL DEF Spec, RecordedExists
=============================================================================
