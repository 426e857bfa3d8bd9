------------------------------ MODULE ParseAndRun -----------------------------
(***************************************************************************)
(* kformContext.ParseAndRun of pkg/exec/kform/runner: validate a package,  *)
(* ask every provider for its capabilities, start and configure the        *)
(* providers in an execution of their own, execute the package, and close  *)
(* the providers.  A provider is a process.  BlockRun is what the blocks   *)
(* of the two executions do; this module says which graphs they are, and   *)
(* adds the processes.                                                     *)
(*                                                                         *)
(* A provider config has a name, and the part of the name before "_" is    *)
(* that of the provider itself (raw): a config with a longer name is an    *)
(* alias.  Names matter in one more place: the parser tells resources from *)
(* other blocks by what their name begins with, which for a resource is    *)
(* the name of its provider.                                               *)
(***************************************************************************)
EXTENDS BlockRun

CONSTANTS Packages,  \* the packages to run
          RawOf      \* the raw provider of a config

Prefixes == {"none", "input", "output", "local", "package", "provider", "backend", "resource"}

VARIABLES pkg,        \* the root package
          phase,      \* where ParseAndRun is, and what it returned
          todo,       \* the raw providers to ask for their capabilities
          asking,     \* the one whose process is running for that
          running,    \* the configs whose process is running
          instances   \* providerInstances that are not nil

providerVars == <<pkg, phase, todo, asking, running, instances>>
allVars == <<blockVars, providerVars>>

Returned == phase \in {"ok", "failed"}

\* ListProvidersFromResources: those of the blocks whose name does not begin
\* with the name of another block type.
Used(p) == {p.provider[b] : b \in {b \in p.graph.blocks : p.prefix[b] \in {"none", "resource"}}}

-----------------------------------------------------------------------------
(***************************************************************************)
(* The parser                                                              *)
(***************************************************************************)
\* ResolveResource2ProviderConfig, for which a block whose name begins with
\* "provider" is a resource too.
Unresolved(p) ==
  \E b \in p.graph.blocks :
    p.prefix[b] \in {"none", "resource", "provider"} /\ p.provider[b] \notin p.configs

ConfigMissing(p) == ~ Used(p) \subseteq p.configs

\* validateBackend counts the blocks whose name begins with "resource".
Resources(p) == {b \in p.graph.blocks : p.prefix[b] = "resource"}
BackendMissing(p) == ~p.backend /\ Resources(p) # {}

\* validateMixins: the packages a package can call are not resolved yet, so any
\* call of another package, or use of its output, is not found.
Refused(p) == Unresolved(p) \/ ConfigMissing(p) \/ p.mixin \/ BackendMissing(p)

\* listRawProviders: none at all if one of them has no config of its own name.
RawProviders(p) ==
  LET raws == {RawOf[c] : c \in Used(p)} IN IF raws \subseteq p.configs THEN raws ELSE {}

\* GetProviderConfigs: none at all if one of them is missing.
UsedConfigs(p) == IF Used(p) \subseteq p.configs THEN Used(p) ELSE {}

\* generateDAG(provider): the blocks whose name begins with "input", which a resource
\* of a provider of that name has too, and the configs that are used, which are below
\* the root (AddDependencies leaves configs out).
ProviderGraph(p) ==
  [p.graph EXCEPT
     !.blocks = {b \in @ : p.prefix[b] = "input"} \cup UsedConfigs(p),
     !.after = [b \in Blocks |-> IF b \in UsedConfigs(p) THEN {} ELSE @[b]]]

\* The configs are in a store of their own, and none has a count or a for_each.  A
\* raw provider has no "_" in its name.  The name of an input says that it is one.
ASSUME PackageAssumption ==
  /\ None \notin Blocks
  /\ RawOf \in [Blocks -> Blocks] /\ \A c \in Blocks : RawOf[RawOf[c]] = RawOf[c]
  /\ \A p \in Packages :
       /\ p.configs \subseteq Blocks
       /\ \A c \in p.configs : p.graph.type[c] = "provider" /\ p.graph.loop[c] = "single"
       /\ \A b \in p.graph.blocks : p.graph.type[b] # "provider"
       /\ p.provider \in [Blocks -> Blocks]
       /\ p.prefix \in [Blocks -> Prefixes]
       /\ \A b \in p.graph.blocks : p.graph.type[b] = "input" => p.prefix[b] = "input"
       /\ p.mixin \in BOOLEAN /\ p.backend \in BOOLEAN
       /\ p.graph \in Graphs /\ ProviderGraph(p) \in Graphs
-----------------------------------------------------------------------------
Init ==
  /\ BlockInit
  /\ pkg \in Packages
  /\ graph = pkg.graph
  /\ phase = "parse"
  /\ todo = {} /\ asking = None
  /\ running = {} /\ instances = {}

\* Parse: the errors of the package parser, or of the validators after it.
Parse ==
  /\ phase = "parse"
  /\ \/ phase' = "failed" /\ UNCHANGED todo
     \/ ~Refused(pkg) /\ phase' = "ask" /\ todo' = RawProviders(pkg)
  /\ UNCHANGED <<blockVars, pkg, asking, running, instances>>

(***************************************************************************)
(* InitProviders: one provider after the other, in any order               *)
(***************************************************************************)
\* The process starts, or it cannot be found or started.  It is left running when
\* the Initializer fails after the start (Dispense): there is nobody to close it.
Ask(r) ==
  /\ phase = "ask" /\ asking = None /\ r \in todo
  /\ \/ asking' = r /\ UNCHANGED <<phase, running>>
     \/ phase' = "failed" /\ running' \in {running, running \cup {r}} /\ UNCHANGED asking
  /\ UNCHANGED <<blockVars, pkg, todo, instances>>

\* It answers with its capabilities or not, and is closed.
Answer ==
  /\ asking # None
  /\ asking' = None
  /\ \/ todo' = todo \ {asking} /\ UNCHANGED phase
     \/ phase' = "failed" /\ UNCHANGED todo
  /\ UNCHANGED <<blockVars, pkg, running, instances>>

\* GetEmptyProviderInstances, and the execution of the provider graph begins.
BeginProviders ==
  /\ phase = "ask" /\ todo = {}
  /\ Begin(ProviderGraph(pkg))
  /\ phase' = "providers"
  /\ UNCHANGED <<pkg, todo, asking, running, instances>>

(***************************************************************************)
(* The blocks.  They go on when ParseAndRun has returned without them.     *)
(***************************************************************************)
\* What a block does without a provider.
RunBlock ==
  /\ \/ \E b \in Blocks : Start(b) \/ End(b)
     \/ \E b \in Blocks : \E i \in Instances(b) :
          \/ RunInput(b, i) \/ RenderData(b, i) \/ StoreEntry(b, i) \/ Fail(b, i)
          \/ graph.type[b] # "resource" /\ Store(b, i)
     \/ Succeed \/ GiveUp \/ Cancel
  /\ UNCHANGED providerVars

\* provider.Run looks for a raw provider of the name of the config.
StartInstance(c, i) ==
  /\ c \in RawProviders(pkg)
  /\ StartProvider(c, i)
  /\ running' = running \cup {c}
  /\ UNCHANGED <<pkg, phase, todo, asking, instances>>

\* The Initializer fails after the process was started, which nobody stops.
LoseInstance(c, i) ==
  /\ c \in RawProviders(pkg)
  /\ graph.type[c] = "provider" /\ pc[c][i] \in Rendered
  /\ Fail(c, i)
  /\ running' = running \cup {c}
  /\ UNCHANGED <<pkg, phase, todo, asking, instances>>

\* Mutant: the process is not kept.
ConfigureInstanceUnkept(c, i) ==
  /\ Configure(c, i)
  /\ UNCHANGED providerVars

ConfigureInstance(c, i) ==
  /\ Configure(c, i)
  /\ instances' = instances \cup {c}
  /\ UNCHANGED <<pkg, phase, todo, asking, running>>

\* resource.Run: the provider is one that was kept, and has not been closed.
CallProvider(b, i) ==
  /\ pkg.provider[b] \in instances \cap running
  /\ graph.type[b] = "resource" /\ Store(b, i)
  /\ UNCHANGED providerVars

(***************************************************************************)
(* The ends of the two executions                                          *)
(***************************************************************************)
\* With an error ParseAndRun returns before it has deferred the closing.
FailProviders ==
  /\ phase = "providers" /\ walk \in Final /\ errors
  /\ phase' = "failed"
  /\ UNCHANGED <<blockVars, pkg, todo, asking, running, instances>>

BeginBlocks ==
  /\ phase = "providers" /\ walk \in Final /\ ~errors
  /\ Begin(pkg.graph)
  /\ phase' = "blocks"
  /\ UNCHANGED <<pkg, todo, asking, running, instances>>

\* Mutant: with an error ParseAndRun returns before it has closed the providers.
EndBlocksOpen ==
  /\ phase = "blocks" /\ walk \in Final
  /\ phase' = IF errors THEN "failed" ELSE "ok"
  /\ running' = IF errors THEN running ELSE running \ instances
  /\ UNCHANGED <<blockVars, pkg, todo, asking, instances>>

\* runKformDAG has sent its outcome: the providers are closed, even if blocks are
\* still running, and ParseAndRun returns.
EndBlocks ==
  /\ phase = "blocks" /\ walk \in Final
  /\ phase' = IF errors THEN "failed" ELSE "ok"
  /\ running' = running \ instances
  /\ UNCHANGED <<blockVars, pkg, todo, asking, instances>>

Next ==
  \/ Parse \/ Answer \/ BeginProviders \/ RunBlock
  \/ \E r \in Blocks : Ask(r)
  \/ \E b \in Blocks : \E i \in Instances(b) :
       \/ StartInstance(b, i) \/ LoseInstance(b, i) \/ ConfigureInstance(b, i)
       \/ CallProvider(b, i)
  \/ FailProviders \/ BeginBlocks \/ EndBlocks
Spec == Init /\ [][Next]_allVars
-----------------------------------------------------------------------------
(***************************************************************************)
(* Properties                                                              *)
(***************************************************************************)
TypeOK ==
  /\ BlockTypeOK
  /\ pkg \in Packages
  /\ phase \in {"parse", "ask", "providers", "blocks", "ok", "failed"}
  /\ todo \subseteq Blocks
  /\ asking \in Blocks \cup {None}
  /\ running \subseteq Blocks /\ instances \subseteq Blocks

\* ParseAndRun returns without an error only if every block of the package was run
\* and none failed; a cancelled execution is a failure, although no block failed.
SuccessIsComplete ==
  phase = "ok" =>
    \A b \in pkg.graph.blocks :
      /\ result[b] = "ok"
      /\ \A i \in Instances(b) : pc[b][i] = "done"

\* While the package is executed, the provider of every resource that the parser
\* knows for one is started, configured and not closed, whatever the order in which
\* inputs and providers ran: no resource finds it missing or "not initialized".
ProvidersAreReady ==
  phase = "blocks" => Used(pkg) \subseteq instances \cap running

\* ParseAndRun closes what it opened: a process that was asked for its capabilities
\* when it has returned, and all processes when it had begun to execute the package,
\* although blocks may have failed and others still be running.
ProcessesAreClosed ==
  Returned =>
    /\ asking = None
    /\ graph = pkg.graph /\ walk # "idle" => running = {}
=============================================================================
