# A TLA+ model of kform

kform reads a directory of Kubernetes manifests (a *package*), annotated with what kind of *block* each document is, builds a graph of the blocks, and executes the graph: every resource block is created or updated in a cluster through a *provider* process. What a run created is recorded in an *inventory*, a ConfigMap in the cluster, so that the next run can delete what the package no longer holds.

This directory holds TLA+ modules that model the parts of that program in which order, concurrency and failure matter, the TLC configurations that check them on small instances, and TLAPS proofs for any instance. All paths below are relative to the root of the repository; `PROJECT.json` maps every definition to the lines it models.

## 1. The system

| part | where | state | operations | talks to |
|---|---|---|---|---|
| command line | `cmd/kform` | flags | apply, destroy, plan, init | runner |
| runner | `pkg/exec/kform/runner` | the inventory that was read; the resources that exist, and those actuated | `Run`: three executions of a graph, then the inventory | parser, executor, differ, inventory |
| kform parser | `pkg/syntax/parser` | packages, providers | parse, validate mixins, provider configs, backends and requirements; start providers once for their capabilities | package parser, graphs |
| package parser | `pkg/syntax/parser/pkgparser`, `pkg/syntax/types/bt_*.go`, `block.go` | the blocks of a package | one goroutine per document: create the block or add the document to it | package |
| package | `pkg/syntax/types/package.go`, `pkg/render2/deprenderer` | blocks, their dependencies | `AddDependencies`, `ResolveDAGDependencies`, `GenerateDAG` | dag |
| dag | `pkg/dag` | vertices, `downEdges`, `upEdges`, depths | connect, disconnect, `TransitiveReduction` | |
| executor | `pkg/exec/executor` | a context per vertex; a channel per edge and per vertex | `Run`: walk the graph, start a job per vertex, wait for all | block handler |
| block handler | `pkg/exec/fn/fns/block_exec_handler.go` | variables, outputs, recorder | `BlockRun`: run the instances of a block concurrently (`count`, `for_each`) | block functions |
| block functions | `pkg/exec/fn/fns/run_*.go` | stores of variables, providers, resources | read, create, update, delete; start and configure a provider; run a nested package | providers |
| differ | `pkg/exec/diff` | what exists and what was actuated | match, mask, print | block data |
| inventory | `pkg/inventory`, `apis/inv`, `pkg/pkgio/inventory_reader.go` | the ConfigMap | get, apply, delete | cluster |
| block data, variables | `pkg/data` | a list per block name | insert at an index, delete by name | |
| recorder | `pkg/recorder` | a list of diagnostics | record, has an error | everyone |
| downloads | `pkg/pkgio/grabber` | a response per download; the files | a batch of downloads by a few workers, each a chain of states in two goroutines | push |
| push | `pkg/pkgio/pkgio_push.go`, `oci`, `oras` | the package data; the registry | download the images of a release, push the package once per platform | downloads, registry |
| sources and sinks | `pkg/pkgio`, `pkg/fsys`, `pkg/syntax/address` | files, git, registries | read, write, pull, push | |

What is hard in it, and what would make each part correct:

- **Executor.** Every vertex has a job in a goroutine of its own; jobs signal each other over unbuffered channels in the random order of Go maps; the walk checks and marks a vertex in two steps. Correct: no block runs twice, or before its dependencies; no send on a closed channel; `Run` answers true only if all succeeded; it answers at all.
- **Graphs.** Edges are kept twice, and the reduction cuts them during two walks in random order. Correct: the two copies agree; every vertex stays below the root, since the executor waits for all of them; only redundant edges go; it ends.
- **Runner.** The cluster, the inventory and the memory of the run are three records of the same resources, changed at different times, by calls that can fail after they took effect, in a process that can be killed. Correct: kform deletes only what it recorded and the package does not want, also when a block was renamed; a dry run changes nothing; a resource is never off the inventory and in the cluster because of how a run ended.
- **Package parser.** Goroutines share the package, the blocks and, by accident, their context. Correct: no document is lost, or taken for a duplicate when it is not.
- **Block handler.** Instances share variable stores indexed by their number, and a failed execution goes on behind the back of its caller. Correct: all results in place, whatever the order; every error reported; what leaves an execution has no holes.
- **Providers.** Processes, started twice: once to be asked what they can do, once to work. Correct: a block finds its provider ready; each one that is started is stopped.
- **Downloads and push.** A state machine that changes goroutines half-way, can be cancelled between any two states, talks to servers that may not do what they said, and finds on disk what an earlier, killed run has left. Correct: resumed files are put together right; success means a whole file; the registry gets for each platform the image of that platform; the loop that waits for all downloads ends.

## 2. The modules

The modules follow the program from the directory to the cluster; each row builds on the ones above.

| module | models | composed of |
|---|---|---|
| `PackageParse` | reading a directory; one goroutine per document | |
| `PackageDag` | dependencies, the two graphs of a package, the transitive reduction | |
| `DagSchedule` | what the executor promises (abstract) | |
| `DagExecutor` | the executor | implements `DagSchedule` |
| `BlockRun` | what a block does when it is executed, and an execution as a whole (abstract, for the next) | |
| `ParseAndRun` | validators, provider processes, the two executions of a run | extends `BlockRun` |
| `KformRun` | apply, plan and destroy on a cluster and an inventory | |
| `Grabber` | a batch of downloads | |
| `PushPackage` | the push of a released provider, with its downloads | extends `Grabber` |

The modules `MC...` give the constants values for TLC, the modules `...Proofs` hold the theorems. A definition that begins with *Mutant:* in its comment is a plausible bug in the definition after it, used to see that a property can fail.

**`PackageParse`** has two phases. In the first, a goroutine per file puts the documents of the file into a store (`ReadDocument`); a file that cannot be read or converted loses its documents without a word, since the error is joined to a variable that is thrown away. The second is `PackageParser.validate`, one goroutine per document, and the `UpdatePackage` of all nine block types, which are three algorithms: `GetUnique` (outputs, locals, mixins, provider configs), `GetSeveral` (inputs and the three resource types; a list is reported and added) and `GetBackend`. Looking for a block, creating it (`Create`), reading its data and writing it back (`ReadData`, `WriteData`, the append of `addData`), and setting `pkg.Backend` (`SetBackend`) are separate steps, since only the stores lock, and each call by itself. A document is a type, the name of its block, and whether its resource type is well formed. The order of documents in a block is left out, but `creator` says which of them came first. File names, which the goroutines mix up in the context they share (`validator.go:53`), are left out: they only appear in diagnostics.

**`PackageDag`**: the names that occur in the data of each block, and what a `depends-on` annotation lists (`mentions`), become its dependencies; what the data contain is inserted block by block, but a part of a `depends-on` is inserted *as it is written* if the name of a listed block occurs anywhere in it (`deprenderer/renderer.go:88-95`). Such a part may be no name at all (`Strays`), a variable of a loop (`Loops`), or the name of an orphan that looks like that of a block (`Lookalikes`: `config.web-old` for a block `config.web`). `Resolve` refuses what is no block of the package and no loop variable that the block has (`Accepted`), and so lets orphans through; the others become edges in `up` and `down`, and `TransitiveReduction` cuts some. The recursion of `trwalk` is a stack of frames, each with the vertices below it that are still to visit in any order; a full stack (`MaxDepth`) ends the program. The module generates both graphs of a package, the one of its blocks and the one of its provider configs (`provider`). Nothing in the code rules out that blocks name each other, the backend, or a lookalike, so the model does not either: `NamesVertices` is the condition under which a graph has edges between vertices only, and section 4 says what happens without it.

**`DagSchedule`** is the promise of the executor in five actions: a block starts when all its dependencies have finished, at most once; `Run` succeeds only if all blocks did. It says nothing of a block whose dependency failed, because the code starts it.

**`DagExecutor`** is the executor itself. `CheckVisited` is the check of `isVisted` in `execute`, `Schedule` the rest of it up to the loop over the vertices below, so that two walkers may come between them; `calls` and `entering` count the calls of `execute` before and after the check. A job goes through `wait` (`waitDependencies`, one channel at a time in any order), `run` (`BlockRun`), `signal` (one send at a time in any order) and `report`. A channel is a pair of vertices: a send and its receipt are one step (`Signal`), since the channel is unbuffered, and closing it right after is part of it, since no other job sends on it (`NoSendOnClosed`, proved). `Up` and `Down` are the channels that `init` made from the up edges. The context of the walk is cancelled by a failure that was reported or by the caller. The jobs of a vertex are numbered by `Jobs`: a bound for TLC, not an assumption of the proofs.

**`BlockRun`** is `pkg.Run`, `ExecHandler.BlockRun` and the functions for each type of block. `Start` evaluates `count` or `for_each` (`Items`) and makes an instance for each item; an instance renders its data (`RenderData`), stores its result in the variables (`Store`) and, if it is an output or a resource, in a second store under a lock of its own (`StoreEntry`), both with the `Insert` that keeps a slice only if it has the length of this block; a provider starts and configures its process instead; an input stores its default. `End` is `runInstances` having read the error channel to its end. `Succeed` and `GiveUp` are what the executor answered and what `PostRun` recorded. A block has one document: of several the code runs and renders the first, which is what `Rendered` of `KformRun` says. After `GiveUp` the instances and blocks that are left still take steps, as in the code. The order of blocks is the one of `DagSchedule`. A text is the set of names it refers to and whether it has a special character; from that and from the store follows which of four outcomes `RenderString` has: a value, the text as it was, `<nil>`, or an error, on which the caller keeps the text. What `Eval` computes is the CEL library's, external.

**`ParseAndRun`** says which two graphs are executed, and adds the processes. `Refused` is what the validators find, as operators on a package; `RawProviders` and `UsedConfigs` are the two lists, each of which is empty if one entry is missing. The parser tells types by what a name begins with, also where a resource of a provider `input` is taken for an input and put into the graph of the providers (`prefix`). `Ask` and `Answer` start each provider, ask for its capabilities and close it; `BeginProviders` executes the graph of the configs, `BeginBlocks` the one of the blocks, `EndBlocks` closes the providers. `running` is the processes of the operating system, `instances` the map that the closing loop walks. An instance of `BlockRun` that needs a provider gets it as an extra guard (`CallProvider`) or an extra effect (`StartInstance`, `ConfigureInstance`). A process can also be started and lost: when `Dispense` fails after the start, `ProviderInitializer` returns the error and nobody has the client to close it (`Ask` may leave the process running, and `LoseInstance`).

**`KformRun`** is `runner.Run`, one command after the other: read the inventory; read every recorded resource (`ReadFound`, `ReadError`); create or update the package (`Actuate`, not in a destroy); `Diff`; delete what is left (`Prune`, not in a dry run); write or delete the inventory (`Save`, with `ApplyInventory` and `DeleteInventory`). `todo` is what the running execution has still to handle. An action `...Error` is a failed call, which may have taken effect. `Abort` is the early return of an execution that recorded an error or was cancelled, `Crash` a kill or a failed call outside an execution, `Lose` a deletion by somebody else. A resource is an object as one document of one block describes it: `Object`, `Document` and `Block` of a resource are different things, so that a package can put the same object under another block (the differ matches by block, and by name within it: `Same`), put two documents in one block, or mark a document as an orphan. The kind is what distinguishes two objects of one name. A package is executed as `Rendered` says: `resource.Run` renders the *first* document of a block as often as the block has documents (`run_resource.go:56-65`), and which one came first is up to the parser; a block whose first document has a lifecycle annotation is in no graph. What is read from the inventory and what is to be pruned is parsed like a package each time, so each of them may lose a resource that has two others of its block (`Parses`). Two more details of the code matter: an error in an inventory read ends its block without an error, and if the block had read some of its resources before, its entry keeps a nil node in the place of each of the others (`torn`), on which the conversion in the differ fails. That a nil node cannot be converted is the YAML library's doing.

**`Grabber`** is `Client.Do` and `copyFile` for each response, `DoBatch` with its workers, and the loop of `downloadImages` that counts. A response carries its next state function, as in the code (`queued`, `headRequest`, `statFileInfo`, `getRequest`, `copyFile`, `closed`), whether it found a file, how much of it is kept, and where the next block of the body goes. `ValidateLocal` is the decision between leaving, resuming, refusing and replacing a file; `OpenWriter` what opening does to it; `Copy` one read and write. A server (`Assets`) may say that it resumes or not, may do so or not when it is asked for a range (`honours`: `getRequest` takes 200 as well as 206, and then `Bodies` starts from the first block, which is written after the part that is there), and may not tell the length, in which case a connection that is closed early looks like the end (`Close`). A file is a sequence of blocks: *i* stands for block *i* of what the server has, 0 for a block of an older version. `Fail` is any failing request, status, read or write, and what a cancelled context becomes. `Tick` counts the responses that are complete, failed or not, which is what lets the loop end. Two oddities of the code are kept: the destination is opened as the directory of the name that was guessed *under* it, which is the file itself; and before the first response that directory exists, so the first look at the file decides nothing.

**`PushPackage`** is `pkgPushWriter.write` around it: `Start` lists the images of a release, `Download` is a step of the downloads, then for each image the package is built with it (`WithImage`, `Archive`) and pushed (`Push`, which may fail before or after the registry has it), the image is left out because its file cannot be read, for whatever reason (`Skip`; `skipped` remembers which, for the properties), or the program ends because it is no archive (`Refuse`). `Readable` models the archive reader: it stops at the mark that ends an archive, whatever follows or is missing after it (`need` is the number of blocks up to there). `Kill` ends the process anywhere; `Start` is then the next run, which finds the files as they are.

How they meet. An inventory is parsed like a package, as `data` blocks with a document per instance, and so is what is left to prune: `PairsAreKept` of `PackageParse` shows that a parse keeps every document with at most one namesake, and of three one can go (section 4); `Parses` of `KformRun` is this, for the read of the inventory and for the prune. That a parse can fail for no reason is one of the ends of a run `KformRun` allows (`Abort`, `Crash`). The graphs that `DagExecutor` assumes (nothing leads to the root, everything is below it) are what `PackageDag` shows of the ones it generates (`EdgesJoinVertices` and `AllReached`; `GraphsFitExecutor` puts the two together in the terms of the executor, for every package whose blocks name only vertices). `BlockRun` takes the order of blocks from `DagSchedule`, and each of the three executions of `KformRun` is one `ParseAndRun` whose blocks are seen as single steps on the cluster: `KformRun` leaves their order open and lets other blocks act after one failed, as the blocks of `ParseAndRun` do.

## 3. The runs

| run | instance | distinct states | shows |
|---|---|---|---|
| `exec_safety` | a fork, a chain, a chain beside a block and a diamond, on a root and three blocks, two jobs per vertex | 402,440 | all interleavings of walkers and jobs, with failures and cancellation: `AtMostOnce`, `DependenciesFirst`, `SuccessIsComplete`, `NoSendOnClosed`, `GivesUpToAnother`, the inductive invariant `WalkInv`, that `DagSchedule` is implemented, that on a tree the goroutines never all wait (`TreeNeverStuck`), and that `Run` returns in the end there, and on any of the graphs once the context is cancelled (`RunEnds`) |
| `exec_failed_dependency` | as `exec_safety` | | violated: a block runs after a failed dependency |
| `exec_wait` | two blocks that depend on the same two | | violated: all four wait forever |
| `package_dag` | three blocks with every acyclic set of dependencies, every choice of those that name the input, seven odd packages | 116,220 | `EdgesMirrored`, `EdgesJoinVertices`, `AllReached`, `Reduced`, `DoneIsAcyclic`, `OverflowIsACycle`, `Ends`, the inductive invariant `DagInv` |
| `dag_reduction` | as `package_dag` | | violated: a real dependency is cut |
| `package_parse` | every package of three documents with two names and a type for each way of processing, any of them unread | 33,040 (up to renaming) | `PairsAreKept`, `DuplicatesAreReported`, `ErrorsHaveReasons`, the inductive invariant `ParseInv` |
| `block_run` | packages of an input, one or two resources, an output, up to three provider configs (one an alias); every kind of loop with up to three items; a text that compiles and one that does not | 72,934 | `ResultsInPlace`, `OutputsAreWhole`, `SuccessIsComplete`, `ProvidersAreReady`, `ProcessesAreClosed` |
| `block_nil` | as `block_run` | | violated: an execution succeeds with a text replaced by `<nil>` |
| `kform_run` | four packages: a block of three instances beside another; one instance and the other block renamed; that block with two documents, of two kinds; the block as an orphan; three commands, one outside deletion, reads that may fail | 316,789 | `DeletesOnlyUnwanted`, `DryRunChangesNothing`, `InventoryIsPackage`, `NothingFoundIsForgotten`, `RecordedExists`, the inductive invariant `RunInv` |
| `kform_ignored` | a block of two instances, two commands, reads that fail only if the resource is gone | | violated: resources that exist are ignored, not pruned and no longer recorded |
| `kform_renamed` | a block that is renamed, two commands | | violated: an object of the package is pruned |
| `push_package` | two images of up to two blocks, one worker, two runs; servers that resume or not, say so and do not, and tell the length or not; archives that can be read without their last block; files of an earlier run, or of an older version that is shorter, as long or longer | 679,717 | `FilesArePrefixes`, `CompleteIsWhole`, `PushedIsTheImage`, `OkMeansPushed`, `NothingIsThrownAway`, `Ends` |

The inductive invariants include the type invariants of their modules. Those of `ParseAndRun` and `PushPackage` are not part of a run: `TypeCorrect` proves them.

Why these bounds. *Executor:* a diamond is the smallest graph in which two walkers meet, and two jobs for its last vertex are all that its two edges can start; the proofs cover the rest. The crossed graph of `exec_wait` is the smallest with a circular wait. *PackageDag:* three blocks below an input give paths of four edges and edges that shorten them by one and by two; one lookalike, one stray and one loop variable are a part of a `depends-on` of each kind; a cycle of one and one of two overflow a stack of six calls, and no acyclic package of this size needs more than five. *PackageParse:* three documents of a name are what it takes to lose one (one creates the block, two add), and each rule speaks of at most three; documents and names are interchangeable, so the run uses symmetry. *ParseAndRun:* three instances (`MaxItems`) let a result be stored between two others in any order; two configs let one start and the other fail, and the third is an alias; one package with a mixin and five prefixes reach every validator. The packages share one shape of graph, a chain and a block beside it, since `DagExecutor` looks at the others. *KformRun:* three instances are what it takes to lose one in a parse, two blocks for an object to be under both; the first command makes an inventory, the second changes it under failures, the third sees what the second left behind. *PushPackage:* two runs (`MaxRuns`) are a run that is cut short and one that goes on from what it left; two blocks are a file that can be half there; the code has three workers and as many images as a release has, so that images wait for a worker when there are more than three: with two images, one worker is what makes one wait while the other is downloaded and counted. More workers add only interleavings of images that share no state but the count, and the proofs hold for any number of workers.

The runs say `CHECK_DEADLOCK FALSE` because their systems stop: the executor when all jobs are done (or stuck, which the liveness properties tell apart), the parser when all documents are processed and when the graph is done, `ParseAndRun` when it has returned and its blocks are done, the runner and the push after `MaxRuns` commands.

**Fairness.** `DagExecutor!FairSpec` assumes weak fairness of `Step`, any step of the program: the Go scheduler runs some goroutine that can run. That a block returns is part of it; providers answer, or their calls fail. No fairness of cancellation is assumed. `PackageDag!FairSpec` assumes that the single goroutine goes on. `exec_wait` uses `QuietSpec`, which allows only behaviours in which nothing fails and nobody cancels, with the same fairness: the circular wait needs neither. `PushPackage!FairSpec` assumes that each response goes on, which includes that a server answers or the connection fails in the end (the client sets no timeout of its own, so a server that keeps a connection open in silence would hang it); that the ticker of `downloadImages` ticks; and that the loop over the images goes on. No fairness of failures, cancellation or kills is assumed, nor that a download succeeds.

## 4. What the violated properties mean

1. `FailedDependencyStops`: `waitDependencies` checks `ok` before the value, and continues on any value (`exec_context.go:147`). The branch with the comment "dependency failed" is reached only for a closed channel.
2. `WaitEnds`: blocks 1 and 2 are done; 1 wants to send to 3 first and 2 to 4, while 3 waits for 2 and 4 for 1.
3. `DependenciesKept`: 3 depends on 1 and on 2, and 2 on an input. Seen from the root, 2 is deeper than 1, so the edge from 1 to 3 is cut, although 1 is not above 2.
4. `IgnoredAreGone`: with `count: 2`, if the first object is deleted by hand, `kform destroy` does not delete the second, deletes the inventory, and reports success.
5. `PackageIsKept`: an object is recorded under block `y`; the manifest gets another resource id, so it is under block `w`. The run updates it under `w`, finds nothing of `w` in the old inventory and nothing of `y` in the new one, and deletes it.
6. `SuccessIsRendered`: a text names a block that is in the store and a word that is not. `RenderString` finds the block, so it builds an environment and compiles; that fails on the word, and what is returned is `nil, err`, where `err` is that of the call before and nil. The text is `<nil>` from then on, and the run succeeds.

The models have more behaviours that a comment of the code speaks against, or that its authors will hardly want. No run is kept for them; where a property of a passing run has to allow for one, it is named.

- *A block left out.* Two walkers come to the last block of a diamond together, and both start a job (`dag_executor.go:153`). One job takes the value of the left dependency, the other that of the right one; each then finds the other channel closed and gives up as for a failed dependency. The block is never run, and `Run` waits for its report until somebody cancels. `GivesUpToAnother` says no more than that a job gives up only on a value that another job of its vertex has received.
- *A wait that no cancellation ends.* `waitDependencies` selects between the channel and a timer that logs, although `exec_context.go:136` says "or cancel". In the crossed graph of `exec_wait` the jobs go on waiting for ever when the walk is cancelled; `RunEnds` is about `Run` only.
- *An edge from what is no vertex.* A block `b` has `depends-on: config.web-old`, which is an orphan, beside a block `config.web`. The part contains the name of a block, so it is kept, and `resolveDependencies` finds it among the blocks. The graph gets an edge from it, and `init` dereferences the context it does not have. The backend, or an `each.` that contains a block name, do the same. `EdgesJoinVertices` has the condition `NamesVertices` for this.
- *A duplicate that is none.* Inputs may have several documents (`bt_input.go:70`), but two goroutines can both find no block for the input and both create it; the store lets one of them, and the other reports a duplicate. `ErrorsHaveReasons` counts a namesake as a reason. The same holds for the instances of a block in an inventory.
- *A document lost.* Of three documents of one block one creates it; the other two read its data, and the second to write overwrites what the first added (`block.go:148`). `PairsAreKept` speaks of pairs. When the package drops a block of three instances, they are parsed to be deleted: one of them can be lost there, and the run succeeds and forgets it, which is what `NothingFoundIsForgotten` excludes.
- *Two backends.* Two backend documents with different names both find `pkg.Backend` nil (`bt_backend.go:69`); both become blocks, and the package knows the one that came last.
- *Two documents of one resource.* `bt_resource.go:80` allows several documents for inputs only, but lines 98-113 refuse lists and add everything else.
- *An orphan that is pruned.* A resource that kform created gets the annotation that should keep kform from deleting it (`package.go:94`). It is out of the graph then, so it is not actuated, and the next run prunes it: `DeletesOnlyUnwanted` compares with what the package renders (`Rendered`).
- *Providers that are left.* Provider `k` is configured and in the cache when `l` fails; `ParseAndRun` returns at `kform.go:95`, before the deferred closing. One that could not be dispensed or configured is in no cache at all. `ProcessesAreClosed` confines them to runs that fail before the package is executed.
- *Aliases.* The config `k_a` of a resource is an alias of `k`. `k` is initialized, but `provider.Run` asks the store for `k_a` (`run_provider.go:67`), so the run always fails before its blocks: `ProvidersAreReady` says nothing of a package with an alias in use.
- *A download put together wrong.* Half a file is on disk, the server says it resumes, and answers the request for the rest with 200 and all of it: the file is the half followed by the whole, without an error. `Steady` excludes such servers from `FilesArePrefixes` and `CompleteIsWhole`.

More consequences of the code show in the models and contradict nothing it says: a manifest that changes its kind under the same name leaves its old object in the cluster, off the inventory (`NothingFoundIsForgotten` has to exclude it); a run that fails after it created resources records none of them; a directory with an unreadable file is run without that file, and prunes what was in it; a push succeeds without an image whose file it could not read, or with the file of an older version that was there before; and an image whose length is not known can be pushed without what follows the end of the archive (`OkMeansPushed`, `PushedIsTheImage` and the condition `Steady` say how much is promised).

## 5. What is proved

The proofs hold for all constants that satisfy the named assumptions: any set of vertices, blocks, images or resources, finite or not unless the assumption says so, any graphs and packages, any number of jobs, items, workers and runs.

- **`DagExecutorProofs`** (assuming `DagAssumption`: no edge leads to the vertex the walk starts from, as `GenerateDAG` makes it, and there is at least one job). `AtMostOnce` is not inductive: why does the second job of a vertex not run its block? The invariant `WalkInv` answers: what a job has received (`Got`) is disjoint from what any other job of its vertex has, and everything received is closed; a job runs only when it has received from all its dependencies, so of two jobs of a vertex with a dependency one cannot; a vertex other than the root has a dependency, since it was walked along an edge; and the root is walked once. `NoSendOnClosed` is part of the invariant: a closed channel was closed by a job that finished, of which there is one. From it follow `DependenciesRunFirst`, `ChannelsAreOpen`, `SuccessMeansAll` and the refinement of `DagSchedule`, action by action. `GivenUpToAnother` needs one more invariant, `TakenInv`: the value of a closed channel was received by some job of the vertex. That job may have given up since, on a value that this one received: the theorem does not say that the block is run, and section 4 tells how it may not be.
- *Nobody waits for ever* (the end of `DagExecutorProofs`). The crossed graph of `exec_wait` shows that jobs can wait for each other in a circle; `TreesGoOn` proves that they cannot when no vertex has two dependencies (`IsTree`) and all are below the root (`AllBelow`), whatever the size. `TreeNeverStuck` is a state property, so no fairness is needed: `CanStep` collects the guards of the actions of `Step`, and where none of them holds, `Run` has returned and every block was run. The invariant `GoesOnInv` has three parts: in a tree a vertex is walked when the one above it has been scheduled, once, and gets one job (`TreeInv`); what a job waits for is above it, and what it need not send any more is sent (`ChannelsInv`); and the main walk misses no report (`VerdictInv`). Take a state in which nothing can go on. What is below a scheduled vertex is scheduled, so by `AllBelow` all are. No job is sending (`NoneIsSending`): who it would send to waits for nothing else, so it is waiting for this. So a job that waits, waits for one that has not finished, and as the root waits for nobody, by `AllBelow` again all have finished (`AllFinished`). What stays with TLC is that the program then uses its chances: `RunEnds`, under weak fairness.
- **`PackageDagProofs`** (assuming `PackageAssumption`). `DagInv` adds to the properties where edges come from: dependencies are names that occur, no edge exists before the graph is generated. It holds of every package; its part `EdgesJoinVertices` has the condition `NamesVertices`, which is about the package alone: no block names an orphan, the backend or a loop variable that is accepted. That a cut leaves the last edge above a vertex (`UpstreamKept`) holds because the deepest vertex above is never among those cut, whatever the recorded depths are, and also during a walk around a cycle.
- **`ReductionProofs`** (assuming the same) proves what the generated graph is like. These properties speak of paths of any length, for which the prover has no induction; three things take its place. *Closed sets:* what is below a vertex is what is in every set that is closed under the edges, so that a path argument is one instance of a set. *A rank:* `trwalk` looks for no cycle, but the first walk from a vertex comes back from it only if there is none below. `RankInv` says that there is always a ranking of what it has come back from, every vertex higher than all below it along the edges the graph was *generated* with, also those that an earlier walk has cut (`Uncut`: no edge is cut before its source is ranked). *The least number principle* (`Least`, `Highest`), from the well-foundedness of finite sets under inclusion in the library. `PathInv` says that the stack is a path in the generated graph. From these: `AllAreReached`, since of the vertices that are not reached the one ranked highest has a vertex above it (`KeepsUpstream`), which is ranked higher; `NoCycleIsDone`, since of the vertices of a cycle the one ranked highest is below another; `OnlyACycleOverflows`, by counting: a stack with more calls than there are vertices holds one of them twice, and the path between is a cycle; and `GraphIsReduced`, whose invariant `WalkedInv` says that when the first walk from a vertex ends it has met all below it and only those have a depth (`MetInv`), that behind the second no edge from that vertex is left beside another from below it (`CutsInv`), and that no later walk undoes that, since walks only cut (`ReducedInv`).
- **`PackageParseProofs`** (assuming `ParseAssumption`). `ParseInv` says of every document that was read and has been processed without an error that it is in its block or another document is, which added itself and did not create the block. A document that was overwritten by one that is itself overwritten later is covered too, because the last to write is always there. `PairsAreKept` follows: the creator is never overwritten, so a lost document has two namesakes. `DuplicatesAreReported` follows because a document of a type that is allowed once, and has no error, is the creator of its block.
- **`ParseAndRunProofs`** (assuming `BlockAssumption` and `PackageAssumption`). First `BlockSpec => []BlockInv`. `ResultsInPlace` is not inductive, because the `Insert` of another instance keeps a slice only if it has the right length; `InPlaceAt` adds that a slice in which an instance has stored its result has the length of its block, and no instance changes its number. `OutputsAreWhole` then needs that a block of a succeeded execution has no instance that could still write (`Flow`). Then every step of `ParseAndRun` is a step of `BlockRun` or a stutter, by the way the module is built (the lemma `StepsAreBlockSteps`), so that `BlockInv` holds of it too, and `PhaseInv` says for each phase which graph is executed and what is known of the processes: while the providers are executed, a process that runs without being in `instances` belongs to a config that is being configured or has failed, or was left by a failed question, which ends the run. When the execution of the providers succeeds none of its instances has failed, which gives `ReadyProviders` and, with the closing of all `instances`, `ProvidersEnd`.
- **`PushPackageProofs`** (assuming `GrabberAssumption` and `PushAssumption`). `FilesArePrefixes` is not inductive: the next block could go beyond the end of the file, or to the wrong place. `ImageInv` says for each state of a response where it goes: nowhere before the file was looked at, at the end of what is kept once it is resumed, and during copying next to what is there, with the same number in the file and in the body. A step of the downloads is a step of one image (`StepOf`), and leaves the others alone. `ClosedInv`, that a response closed without an error has left the whole file if its length is known, then gives `CompletedAreWhole`. All of this is for steady images; nothing is assumed of the others. `PushedImages` rests on `ReadableIsTheImage`: a beginning of an image that has all it needs to be read as an archive, and is not one of an older version, is what the registry gets. `OkPushed` is an induction over the loop: what is not in `todo` was skipped or pushed as it is on disk, where it stays. `NothingLost` is the action property: a file that the server would resume is never emptied.
- **`KformRunProofs`** (assuming `RunAssumption`). `RunInv` is the type invariant and `PruneInv`, which ties what a run has in memory to the inventory and the cluster, phase by phase. The action properties follow from it by a case distinction over the few steps that act on the cluster or the inventory. `WhatIsRecordedExists` needs one more invariant, `ThereInv`: until somebody else deletes something, all that the command has actuated exists, unless the inventory has the object under another block, because what it prunes is never a counterpart of what it actuated in the same block. `OnlyUnwantedIsDeleted` speaks of blocks too: the object under the block in the inventory is one that the package, as rendered, does not have there. That the package may have it elsewhere is `kform_renamed`.

Only model-checked: liveness (`RunEnds`, both `Ends`), since the prover does not handle fairness. The safety half of `RunEnds` on a tree is `TreeNeverStuck`. Every other property of a passing run is proved. `CanStep` spells out the guards because `ENABLED` is out of the prover's reach too; that the two agree was compared with TLC on the graphs of `exec_safety`.

## 6. What is not modelled

- *Composition of `KformRun` with `ParseAndRun`.* Each execution of a command is one step per resource in `KformRun`. Composed, the three executions of a command would multiply the states of `block_run` by those of `kform_run`; a refinement that maps `StoreEntry` of a resource to `Actuate` would be the next step of this project.
- *Two commands on one inventory.* The code has no lock, and writes the inventory without its resource version: the last to write wins. There is nothing it promises here to check.
- *Matching of a release and its images* (`GetRelease`, `GetImageData`), the push of a local package or of a module, and the pull of packages: sequences of calls to external services that keep no state between them.
- *The writers and the other readers* of `pkg/pkgio` (kform writer, memory to file, Dockerfile, ignore rules): one pass over their input, into files.
- *Lists.* A list block reads from an external store and changes nothing; `data` blocks of a package likewise.
- *What a value is*: CEL evaluation and YAML conversion are libraries; the masking and printing of differences, versions, addresses and temporary directories are pure functions or I/O.
- *`count.` and `each.` variables*: `BlockRun` has them only as what makes instances differ.
- *Mixins*, which the parser does not resolve yet (`parser.go`, "TODO Mixin"), beyond refusing them.
- *The 5 second timers* of the executor, the progress statistics, hooks, checksums and rate limiter of the downloads: they log, or nothing sets them.
