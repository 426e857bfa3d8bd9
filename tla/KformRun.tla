------------------------------- MODULE KformRun -------------------------------
(***************************************************************************)
(* One kform command after the other on the same package directory and     *)
(* inventory: runner.Run of pkg/exec/kform/runner, with the blocks that    *)
(* its three executions of a dag run (pkg/exec/fn/fns/run_resource.go),    *)
(* the differ (pkg/exec/diff) and the inventory client (pkg/inventory).    *)
(*                                                                         *)
(*   read      get the inventory from the cluster                          *)
(*   existing  read every recorded resource: which of them still exist     *)
(*   actuate   create or update every resource of the package              *)
(*   diff      what exists and is not in the package is to be pruned       *)
(*   prune     delete it                                                   *)
(*   save      replace the inventory, or delete it after a destroy         *)
(*                                                                         *)
(* The blocks of an execution run concurrently, in whatever order          *)
(* DagExecutor allows; here in any order.  A call to the cluster can fail, *)
(* before or after it took effect, the process can be killed between any   *)
(* two calls, and somebody else can delete a resource at any time.         *)
(*                                                                         *)
(* A resource is an object as one document of one block describes it: the  *)
(* same object can be described under another block, after its block was   *)
(* renamed, and a block can have several documents.                        *)
(***************************************************************************)
EXTENDS Naturals

CONSTANTS Objects,     \* what can be in the cluster
          Resources,   \* the instances of the documents that packages may hold
          Object,      \* Object[r]: the object that r describes
          Document,    \* Document[r]: the document that r is an instance of
          Block,       \* Block[r]: the name of the block of that document
          Orphans,     \* the resources whose document has a lifecycle annotation
          Name,        \* Name[o]: the namespace and name of o, without its kind
          Packages,    \* what the package directory may hold when a run starts
          ReadErrors,  \* whether reading a resource that exists may fail
          MaxRuns,     \* bound on the commands
          MaxLost      \* bound on the deletions by others

\* What the differ takes for one.
Same(r, s) == Block[r] = Block[s] /\ Name[Object[r]] = Name[Object[s]]

\* Two instances of one document that share a name would be one object.
ASSUME RunAssumption ==
  /\ Object \in [Resources -> Objects]
  /\ Packages \subseteq SUBSET Resources
  /\ \A p \in Packages : \A r, s \in p :
       Document[r] = Document[s] /\ Same(r, s) => r = s
  /\ ReadErrors \in BOOLEAN
  /\ MaxRuns \in Nat /\ MaxLost \in Nat

VARIABLES cluster,    \* the objects that exist
          inventory,  \* the resources that the inventory in the cluster records
          package,    \* the resources of the package that this run reads
          destroy,    \* Config.Destroy
          dryRun,     \* Config.DryRun
          phase,      \* where runner.Run is; "idle" when no command runs
          todo,       \* the resources that the running dag has still to handle
          existing,   \* existingActuatedResources
          torn,       \* a block of existing holds a nil node
          actuated,   \* newActuatedResources
          failed,     \* the recorder of the running dag holds an error
          runs, lost  \* commands and deletions by others so far

config == <<package, destroy, dryRun>>
memory == <<todo, existing, torn, actuated, failed>>
vars == <<cluster, inventory, config, phase, memory, runs, lost>>

Siblings(r) == {s \in Resources : Block[s] = Block[r]}

\* The documents of a block are added to it by goroutines that do not lock: all
\* of two are kept, of three or more the first and the last (PackageParse).
TwoOthers(r, S) == \E s, t \in (S \cap Siblings(r)) \ {r} : s # t
Parses(S) == {K \in SUBSET S : \A r \in S \ K : TwoOthers(r, K)}

\* A resource block renders its first document, whichever that is, as often as it
\* has documents; a block whose first document has a lifecycle annotation is in
\* no graph.
Rendered(p) ==
  {S \ Orphans : S \in {S \in SUBSET p :
     \A r \in p : \E s \in S \cap Siblings(r) :
       S \cap Siblings(r) = {q \in p \cap Siblings(r) : Document[q] = Document[s]}}}
-----------------------------------------------------------------------------
Init ==
  /\ cluster = {} /\ inventory = {}
  /\ package = {} /\ destroy = FALSE /\ dryRun = FALSE
  /\ phase = "idle"
  /\ todo = {} /\ existing = {} /\ torn = FALSE /\ actuated = {} /\ failed = FALSE
  /\ runs = 0 /\ lost = 0

\* The command returns, or its process is gone: nothing in memory survives.
Exit ==
  /\ phase' = "idle"
  /\ package' = {} /\ destroy' = FALSE /\ dryRun' = FALSE
  /\ todo' = {} /\ existing' = {} /\ torn' = FALSE /\ actuated' = {} /\ failed' = FALSE
  /\ UNCHANGED <<runs, lost>>

Start(p, d, y) ==
  /\ phase = "idle" /\ runs < MaxRuns
  /\ runs' = runs + 1
  /\ package' = p /\ destroy' = d /\ dryRun' = y
  /\ phase' = "read"
  /\ UNCHANGED <<cluster, inventory, memory, lost>>

\* GetClusterInventory, which is then parsed like a package, with a document for
\* every resource; an inventory that is not found is an empty one.
ReadInventory ==
  /\ phase = "read"
  /\ phase' = "existing" /\ todo' \in Parses(inventory)
  /\ UNCHANGED <<cluster, inventory, config, existing, torn, actuated, failed, runs, lost>>
-----------------------------------------------------------------------------
(* The first dag: a data block for every block of the inventory, which reads  *)
(* its resources one after the other in the order the parser added them.      *)

ReadFound(r) ==
  /\ phase = "existing" /\ r \in todo /\ Object[r] \in cluster
  /\ todo' = todo \ {r} /\ existing' = existing \cup {r}
  /\ UNCHANGED <<cluster, inventory, config, phase, torn, actuated, failed, runs, lost>>

\* The block returns without an error, and without reading its other resources.
\* Its entry, if it has one, was made with a place for each of them.
ReadError(r) ==
  /\ phase = "existing" /\ r \in todo
  /\ Object[r] \notin cluster \/ ReadErrors
  /\ todo' = todo \ Siblings(r)
  /\ torn' = (torn \/ existing \cap Siblings(r) # {})
  /\ UNCHANGED <<cluster, inventory, config, phase, existing, actuated, failed, runs, lost>>

\* Mutant: the dag of the package runs on a destroy too.
EndExistingAlways ==
  /\ phase = "existing" /\ todo = {}
  /\ phase' = "actuate" /\ todo' \in Rendered(package)
  /\ UNCHANGED <<cluster, inventory, config, existing, torn, actuated, failed, runs, lost>>

EndExisting ==
  /\ phase = "existing" /\ todo = {}
  /\ \/ destroy /\ phase' = "diff" /\ UNCHANGED todo
     \/ ~destroy /\ phase' = "actuate" /\ todo' \in Rendered(package)
  /\ UNCHANGED <<cluster, inventory, config, existing, torn, actuated, failed, runs, lost>>
-----------------------------------------------------------------------------
(* The second dag: get, then create or update.  Both end with the object in   *)
(* the cluster; a dry run asks the provider not to change anything.           *)

\* Mutant: the provider is not told that this is a dry run.
AppliedAlways(r) == cluster \cup {Object[r]}

Applied(r) == IF dryRun THEN cluster ELSE cluster \cup {Object[r]}

Actuate(r) ==
  /\ phase = "actuate" /\ r \in todo
  /\ todo' = todo \ {r} /\ actuated' = actuated \cup {r}
  /\ cluster' = Applied(r)
  /\ UNCHANGED <<inventory, config, phase, existing, torn, failed, runs, lost>>

\* Mutant: the error of a create or an update is only logged.
ActuateErrorLogged(r) ==
  /\ phase = "actuate" /\ r \in todo
  /\ todo' = todo \ {r} /\ actuated' = actuated \cup {r}
  /\ cluster' \in {cluster, Applied(r)}
  /\ UNCHANGED <<inventory, config, phase, existing, torn, failed, runs, lost>>

\* The error may be the answer to a call that did take effect.
ActuateError(r) ==
  /\ phase = "actuate" /\ r \in todo
  /\ todo' = todo \ {r} /\ failed' = TRUE
  /\ cluster' \in {cluster, Applied(r)}
  /\ UNCHANGED <<inventory, config, phase, existing, torn, actuated, runs, lost>>

\* Mutant: the error of the regular run is only logged.
EndActuateFailed ==
  /\ phase = "actuate" /\ todo = {}
  /\ phase' = "diff" /\ failed' = FALSE
  /\ UNCHANGED <<cluster, inventory, config, todo, existing, torn, actuated, runs, lost>>

EndActuate ==
  /\ phase = "actuate" /\ todo = {} /\ ~failed
  /\ phase' = "diff"
  /\ UNCHANGED <<cluster, inventory, config, memory, runs, lost>>
-----------------------------------------------------------------------------
\* Mutant: From keeps what has a counterpart.
UnmatchedAll == existing

\* What Differ.Run leaves in From: it deletes what has the block and the name of
\* a resource in To, whatever their kinds.  It does not look at other blocks.
Unmatched == {r \in existing : \A s \in actuated : ~Same(r, s)}

\* A nil node cannot be converted to be compared; a dry run prints and is done.
\* What is to be pruned is parsed like a package again.
Diff ==
  /\ phase = "diff"
  /\ IF torn \/ dryRun
     THEN Exit
     ELSE /\ phase' = "prune"
          /\ todo' \in Parses(Unmatched)
          /\ UNCHANGED <<config, existing, torn, actuated, failed, runs, lost>>
  /\ UNCHANGED <<cluster, inventory>>
-----------------------------------------------------------------------------
(* The third dag: a resource block deletes its resources one after the other. *)

Prune(r) ==
  /\ phase = "prune" /\ r \in todo
  /\ todo' = todo \ {r} /\ cluster' = cluster \ {Object[r]}
  /\ UNCHANGED <<inventory, config, phase, existing, torn, actuated, failed, runs, lost>>

PruneError(r) ==
  /\ phase = "prune" /\ r \in todo
  /\ todo' = todo \ Siblings(r) /\ failed' = TRUE
  /\ cluster' \in {cluster, cluster \ {Object[r]}}
  /\ UNCHANGED <<inventory, config, phase, existing, torn, actuated, runs, lost>>

\* Mutant: the error of the destroy run is only logged.
EndPruneFailed ==
  /\ phase = "prune" /\ todo = {}
  /\ phase' = "save" /\ failed' = FALSE
  /\ UNCHANGED <<cluster, inventory, config, todo, existing, torn, actuated, runs, lost>>

EndPrune ==
  /\ phase = "prune" /\ todo = {} /\ ~failed
  /\ phase' = "save"
  /\ UNCHANGED <<cluster, inventory, config, memory, runs, lost>>

\* Client.Apply creates the inventory or replaces the one that is there, whoever
\* wrote it; Client.Delete is content with one that is not there.
ApplyInventory == inventory' = actuated
DeleteInventory == inventory' = {}

Save ==
  /\ phase = "save"
  /\ IF destroy THEN DeleteInventory ELSE ApplyInventory
  /\ Exit
  /\ UNCHANGED cluster
-----------------------------------------------------------------------------
\* A dag that recorded an error, or that was cancelled, returns while other
\* blocks may still be busy; Run returns its error at once.
Abort ==
  /\ phase \in {"existing", "actuate", "prune"}
  /\ Exit
  /\ UNCHANGED <<cluster, inventory>>

\* The process is killed, or a call outside a dag fails and Run returns its error.
Crash ==
  /\ phase \in {"read", "diff", "save"}
  /\ Exit
  /\ UNCHANGED <<cluster, inventory>>

\* Somebody else deletes an object.
Lose(o) ==
  /\ o \in cluster /\ lost < MaxLost
  /\ cluster' = cluster \ {o} /\ lost' = lost + 1
  /\ UNCHANGED <<inventory, config, phase, memory, runs>>

Next ==
  \/ \E p \in Packages, d, y \in BOOLEAN : Start(p, d, y)
  \/ ReadInventory
  \/ \E r \in Resources : ReadFound(r) \/ ReadError(r)
  \/ EndExisting
  \/ \E r \in Resources : Actuate(r) \/ ActuateError(r)
  \/ EndActuate
  \/ Diff
  \/ \E r \in Resources : Prune(r) \/ PruneError(r)
  \/ EndPrune
  \/ Save
  \/ Abort
  \/ Crash
  \/ \E o \in Objects : Lose(o)

Spec == Init /\ [][Next]_vars
-----------------------------------------------------------------------------
Phases == {"idle", "read", "existing", "actuate", "diff", "prune", "save"}

\* The types of the variables; a destroy has no newActuatedResources at all.
TypeOK ==
  /\ cluster \subseteq Objects
  /\ inventory \subseteq Resources
  /\ package \subseteq Resources
  /\ destroy \in BOOLEAN /\ dryRun \in BOOLEAN
  /\ phase \in Phases
  /\ todo \subseteq Resources
  /\ existing \subseteq Resources
  /\ torn \in BOOLEAN /\ failed \in BOOLEAN
  /\ actuated \subseteq Resources
  /\ destroy => actuated = {}
  /\ runs \in 0..MaxRuns /\ lost \in 0..MaxLost

\* Only what the inventory records is read, and only what was read and has no
\* counterpart in the package is pruned: the links between the inventory, what a
\* run holds in memory and the cluster that the other properties rest on.
PruneInv ==
  /\ existing \subseteq inventory
  /\ phase \in {"idle", "read", "existing"} => actuated = {}
  /\ phase = "existing" => todo \subseteq inventory
  /\ phase = "actuate" => ~destroy /\ (~failed => todo \cup actuated \in Rendered(package))
  /\ phase \in {"diff", "prune", "save"} /\ ~destroy => actuated \in Rendered(package)
  /\ phase \in {"prune", "save"} => ~dryRun
  /\ phase = "prune" => todo \subseteq Unmatched
  /\ phase \in {"prune", "save"} /\ ~failed =>
       \A r \in Unmatched \ todo : Object[r] \in cluster => TwoOthers(r, Unmatched)
  /\ phase = "save" => todo = {} /\ ~failed

\* The inductive invariant of a command after the other.
RunInv == TypeOK /\ PruneInv

\* Whatever fails and whenever it is killed, kform itself deletes an object only
\* when the inventory records it under a block, and the command is a destroy or
\* renders its package without the object under that block: a run that could not
\* actuate a part of its package does not take that part for something to prune.
DeletesOnlyUnwanted ==
  [][lost' = lost =>
       \A o \in cluster \ cluster' : \E r \in inventory :
         Object[r] = o /\ (destroy \/ \E S \in Rendered(package) : r \notin S)]_vars

\* A plan or a --dry-run leaves the cluster and the inventory alone, through all
\* of its executions of a dag.
DryRunChangesNothing ==
  [][dryRun /\ lost' = lost => UNCHANGED <<cluster, inventory>>]_vars

\* The inventory is replaced as a whole: by all that one document of each block of
\* the package stands for, orphans apart, or by nothing after a destroy, never by
\* the part that an unfinished run got to.
InventoryIsPackage ==
  [][inventory' # inventory =>
       inventory' \in IF destroy THEN {{}} ELSE Rendered(package)]_vars

\* An object that the run found is deleted before the inventory that records it is
\* replaced by one without it or its namesake of another kind, unless two others of
\* its block were to be pruned with it, and it was lost when these were parsed.
NothingFoundIsForgotten ==
  [][inventory' # inventory =>
       \A r \in existing :
         Object[r] \in cluster =>
           (\E s \in inventory' : Same(r, s)) \/ TwoOthers(r, Unmatched)]_vars

\* Whatever the earlier commands left behind, half-done or unrecorded, everything
\* that the inventory is replaced by exists, unless others deleted something or the
\* old inventory has the object under another block: a command that reports success
\* has not lost a part of its package on the way.
RecordedExists ==
  [][inventory' # inventory /\ lost = 0 =>
       \A r \in inventory' :
         \/ Object[r] \in cluster'
         \/ \E s \in inventory : Object[s] = Object[r] /\ Block[s] # Block[r]]_vars

\* run_resource.go:99: an error of an inventory read may be ignored, for "it shows
\* the resource does not exist".  So what was ignored, and is not in the package
\* either, does not exist when the inventory is replaced.
IgnoredAreGone ==
  phase = "save" => \A r \in inventory \ (existing \cup package) : Object[r] \notin cluster

\* differ.go:93: what is in common is deleted from the origin "such that we dont
\* prune the item from the cluster": a run deletes no object that its package has.
PackageIsKept ==
  [][lost' = lost /\ ~destroy =>
       \A r \in package \ Orphans : Object[r] \notin cluster \ cluster']_vars
=============================================================================
