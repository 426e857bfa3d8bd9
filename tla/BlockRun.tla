------------------------------- MODULE BlockRun -------------------------------
(***************************************************************************)
(* What the blocks of a graph do when the executor runs them: pkg.Run,     *)
(* ExecHandler.BlockRun and the functions it calls for each type of block. *)
(*                                                                         *)
(* A block is run once for every item of its count or for_each, each item  *)
(* in a goroutine of its own (an instance).  An instance renders the data  *)
(* of the block with the variables that are there, and stores its result   *)
(* under the name of the block at its own index, in one store and then in  *)
(* a second.  A block holds one document here: of several, run and         *)
(* rendered is the first (KformRun).  When all instances are               *)
(* done the block is, and when all blocks are done, the execution is; it   *)
(* ends earlier at the first failure or when it is cancelled, and then the *)
(* blocks that are left go on without it.  The order of blocks is that of  *)
(* DagSchedule, which the executor implements.                             *)
(*                                                                         *)
(* Of a text that is rendered the model keeps what it refers to: the other *)
(* blocks, and identifiers that are no blocks.                             *)
(***************************************************************************)
EXTENDS Naturals, Sequences

CONSTANTS Blocks,       \* the names of blocks
          Identifiers,  \* what a text can refer to: blocks and other words
          Graphs,       \* the graphs to execute
          MaxItems,     \* how many items a loop has at most; a bound for TLC
          None          \* no value

Types == {"input", "output", "local", "resource", "provider"}
Loops == {"single", "count", "for_each"}
Texts == [refs : SUBSET Identifiers, special : BOOLEAN]

\* What a scalar is after the renderer: a value, the text as it was, or <nil>.
Rendered == {"value", "raw", "nil"}

\* An instance with this text that has stored it once, of the two times.
Kept == [value |-> "kept value", raw |-> "kept raw", nil |-> "kept nil"]
KeptPhases == {Kept[t] : t \in Rendered}

\* A result names the instance it is from.  The results of a block are a slice, or
\* there is none; it has a hole for every instance that has not stored its own.
Result(i, t) == [by |-> i, text |-> t]
Results == [by : Nat, text : Rendered]
Slices == Seq(Results \cup {None})

\* A graph: its blocks, which of them come first (after), and which inputs are given.
ASSUME BlockAssumption ==
  /\ MaxItems \in Nat \ {0}
  /\ Blocks \subseteq Identifiers
  /\ None \notin Results \cup Slices
  /\ Graphs \subseteq
       [blocks : SUBSET Blocks, given : SUBSET Blocks, type : [Blocks -> Types],
        after : [Blocks -> SUBSET Blocks], text : [Blocks -> Texts],
        loop : [Blocks -> Loops], over : [Blocks -> Texts]]

VARIABLES graph,      \* the graph in execution (vctx.DAG)
          vars,       \* varStore: the results of a block by index, or None
          entries,    \* the outputs, or the actuated resources, by index
          pc,         \* where each instance of a block is
          result,     \* where a block is, and what BlockRun returned
          walk,       \* where the execution is, and what the executor returned
          errors,     \* runRecorder has an error
          published,  \* the outputs that pkg.Run copied
          cancelled   \* the context is cancelled

blockVars == <<graph, vars, entries, pc, result, walk, errors, published, cancelled>>

Final == {"ok", "failed"}
Instances(b) == DOMAIN pc[b]
Ended(b) == result[b] = "running" /\ \A i \in Instances(b) : pc[b][i] \in {"done", "failed"}

Nothing == [b \in Blocks |-> None]

BlockInit ==
  /\ graph \in Graphs
  /\ vars = Nothing
  /\ entries = Nothing
  /\ pc = [b \in Blocks |-> <<>>]
  /\ result = [b \in Blocks |-> "none"]
  /\ walk = "idle"
  /\ errors = FALSE
  /\ published = Nothing
  /\ cancelled = FALSE

(***************************************************************************)
(* Rendering                                                               *)
(***************************************************************************)
\* getNewVars: the results in the store that a text names.
Known(text) == {a \in text.refs \cap Blocks : vars[a] # None}

\* getCelEnv and Compile: the environment declares these, and nothing else.
Compiles(text) == text.refs = Known(text)

\* RenderString: a text without a name of the store and without a special
\* character is left alone.  One that does not compile, because it refers to
\* something that is not there, gives no value and no error: the error that is
\* returned is that of an earlier call.  Evaluation fails on a missing result.
RenderString(text) ==
  IF Known(text) = {} /\ ~text.special THEN "raw"
  ELSE IF ~Compiles(text) THEN "nil"
  ELSE IF \E a \in Known(text) : vars[a][1] = None THEN "error"
  ELSE "value"

\* The walker of render2 keeps the node when RenderString returns an error.
Render(text) ==
  LET r == RenderString(text) IN IF r = "error" THEN "raw" ELSE r

\* getLoopItems: how many items there can be.  A list gives an item for each of
\* its elements, over the one that is there from the start; anything else gives
\* one; a number gives as many.
Items(b) ==
  LET r == RenderString(graph.over[b]) IN
  CASE graph.loop[b] = "single" -> {1}
    [] graph.loop[b] = "for_each" -> IF r = "value" THEN 1 .. MaxItems ELSE {1}
    [] graph.loop[b] = "count" ->
         IF r = "value" \/ (r = "raw" /\ graph.over[b].refs = {}) THEN 0 .. MaxItems
         ELSE IF r = "error" THEN {0} ELSE {}

\* It fails on a count that is not a number, and on errors it does not know.
LoopCanFail(b) ==
  LET r == RenderString(graph.over[b]) IN
  \/ graph.loop[b] = "count"
  \/ graph.loop[b] = "for_each" /\ r = "error"
-----------------------------------------------------------------------------
(***************************************************************************)
(* Storing: VarData.Insert and BlockData.Insert                            *)
(***************************************************************************)
\* Mutant: a new slice for every result.
InsertAnew(slice, positions, pos, data) ==
  [j \in positions |-> IF j = pos THEN data ELSE None]

Insert(slice, positions, pos, data) ==
  [j \in positions |->
     IF j = pos THEN data
     ELSE IF slice # None /\ DOMAIN slice = positions THEN slice[j] ELSE None]

\* UpdateVarStore and UpdateBlockStoreEntry, of instance i of block b.
Put(st, b, i, data) ==
  [st EXCEPT ![b] = Insert(@, Instances(b), i, data)]
-----------------------------------------------------------------------------
(***************************************************************************)
(* An execution                                                            *)
(***************************************************************************)
\* pkg.Run: new stores, with the variables that were given.
Reset(g) ==
  /\ graph' = g
  /\ vars' = [b \in Blocks |-> IF b \in g.given THEN <<Result(1, "value")>> ELSE None]
  /\ entries' = Nothing
  /\ pc' = [b \in Blocks |-> <<>>]
  /\ result' = [b \in Blocks |-> "none"]
  /\ walk' = "run"
  /\ errors' = FALSE
  /\ published' = Nothing
  /\ UNCHANGED cancelled

\* There is one execution at a time, and one after another only if it succeeded.
Begin(g) == walk \in {"idle", "ok"} /\ Reset(g)

\* The executor runs b when those before it returned, whatever they returned and
\* whether or not the execution is over.
Start(b) ==
  /\ walk # "idle"
  /\ b \in graph.blocks /\ result[b] = "none"
  /\ \A a \in graph.after[b] \cap graph.blocks : result[a] \in Final
  /\ \/ \E n \in Items(b) :
          /\ pc' = [pc EXCEPT ![b] = [i \in 1 .. n |-> "ready"]]
          /\ result' = [result EXCEPT ![b] = "running"]
          /\ UNCHANGED errors
     \/ /\ LoopCanFail(b)
        /\ result' = [result EXCEPT ![b] = "failed"]
        /\ errors' = TRUE
        /\ UNCHANGED pc
  /\ UNCHANGED <<graph, vars, entries, walk, published, cancelled>>

\* input.Run: the default of an input that was not given.
RunInput(b, i) ==
  /\ graph.type[b] = "input" /\ pc[b][i] = "ready"
  /\ vars' = IF vars[b] = None THEN Put(vars, b, i, Result(i, "value")) ELSE vars
  /\ pc' = [pc EXCEPT ![b][i] = "done"]
  /\ UNCHANGED <<graph, entries, result, walk, errors, published, cancelled>>

\* The data of every other type of block is rendered first.
RenderData(b, i) ==
  /\ graph.type[b] # "input" /\ pc[b][i] = "ready"
  /\ pc' = [pc EXCEPT ![b][i] = Render(graph.text[b])]
  /\ UNCHANGED <<graph, vars, entries, result, walk, errors, published, cancelled>>

\* localOrOutput.Run, resource.Run: the result is put into the variables, as what was
\* rendered or what the provider answered.  That is all for a local.
Store(b, i) ==
  /\ graph.type[b] \in {"output", "local", "resource"} /\ pc[b][i] \in Rendered
  /\ vars' = Put(vars, b, i, Result(i, pc[b][i]))
  /\ pc' = [pc EXCEPT ![b][i] = IF graph.type[b] = "local" THEN "done" ELSE Kept[@]]
  /\ UNCHANGED <<graph, entries, result, walk, errors, published, cancelled>>

\* Mutant: the second store gets no loop variables, and takes the default index.
StoreEntryAtFirst(b, i) ==
  /\ \E t \in Rendered :
       pc[b][i] = Kept[t] /\ entries' = Put(entries, b, 1, Result(i, t))
  /\ pc' = [pc EXCEPT ![b][i] = "done"]
  /\ UNCHANGED <<graph, vars, result, walk, errors, published, cancelled>>

\* An output or a resource is stored a second time, under a lock of its own.
StoreEntry(b, i) ==
  /\ \E t \in Rendered :
       pc[b][i] = Kept[t] /\ entries' = Put(entries, b, i, Result(i, t))
  /\ pc' = [pc EXCEPT ![b][i] = "done"]
  /\ UNCHANGED <<graph, vars, result, walk, errors, published, cancelled>>

\* provider.Run: the process is started, then configured.
StartProvider(b, i) ==
  /\ graph.type[b] = "provider" /\ pc[b][i] \in Rendered
  /\ pc' = [pc EXCEPT ![b][i] = "configure"]
  /\ UNCHANGED <<graph, vars, entries, result, walk, errors, published, cancelled>>

Configure(b, i) ==
  /\ pc[b][i] = "configure"
  /\ pc' = [pc EXCEPT ![b][i] = "done"]
  /\ UNCHANGED <<graph, vars, entries, result, walk, errors, published, cancelled>>

\* A conversion or a call to a provider fails: recorded, and sent on errCh.
Fail(b, i) ==
  /\ pc[b][i] \in Rendered \cup {"configure"}
  /\ pc' = [pc EXCEPT ![b][i] = "failed"]
  /\ errors' = TRUE
  /\ UNCHANGED <<graph, vars, entries, result, walk, published, cancelled>>

\* runInstances has read errCh to its end, and BlockRun records the outcome.  An
\* instance that sees the cancelled context sends nil, which is not an error.
End(b) ==
  /\ Ended(b)
  /\ IF \E i \in Instances(b) : pc[b][i] = "failed"
       THEN result' = [result EXCEPT ![b] = "failed"] /\ errors' = TRUE
       ELSE result' = [result EXCEPT ![b] = "ok"] /\ UNCHANGED errors
  /\ UNCHANGED <<graph, vars, entries, pc, walk, published, cancelled>>
-----------------------------------------------------------------------------
(***************************************************************************)
(* The end of an execution: executor.Run, PostRun, the outputs             *)
(***************************************************************************)
Succeed ==
  /\ walk = "run"
  /\ \A b \in graph.blocks : result[b] = "ok"
  /\ walk' = "ok"
  /\ published' = [b \in Blocks |-> IF graph.type[b] = "output" THEN entries[b] ELSE None]
  /\ UNCHANGED <<graph, vars, entries, pc, result, errors, cancelled>>

\* Mutant: PostRun records nothing, since the blocks record their failures.
GiveUpSilent ==
  /\ walk = "run"
  /\ cancelled \/ \E b \in graph.blocks : result[b] = "failed"
  /\ walk' = "failed"
  /\ UNCHANGED <<graph, vars, entries, pc, result, errors, published, cancelled>>

\* At the first failure, or when the context is cancelled.  pkg.Run returns nil all
\* the same: its caller finds the error of PostRun in the recorder.
GiveUp ==
  /\ walk = "run"
  /\ cancelled \/ \E b \in graph.blocks : result[b] = "failed"
  /\ walk' = "failed"
  /\ errors' = TRUE
  /\ UNCHANGED <<graph, vars, entries, pc, result, published, cancelled>>

Cancel ==
  /\ ~cancelled
  /\ cancelled' = TRUE
  /\ UNCHANGED <<graph, vars, entries, pc, result, walk, errors, published>>

BlockNext ==
  \/ \E g \in Graphs : Begin(g)
  \/ \E b \in Blocks : Start(b) \/ End(b)
  \/ \E b \in Blocks : \E i \in Instances(b) :
       \/ RunInput(b, i) \/ RenderData(b, i) \/ Store(b, i) \/ StoreEntry(b, i)
       \/ StartProvider(b, i) \/ Configure(b, i) \/ Fail(b, i)
  \/ Succeed \/ GiveUp \/ Cancel
BlockSpec == BlockInit /\ [][BlockNext]_blockVars
-----------------------------------------------------------------------------
(***************************************************************************)
(* Properties                                                              *)
(***************************************************************************)
Phases == {"ready", "configure", "done", "failed"} \cup Rendered \cup KeptPhases

\* The state is well formed; a block that was not started has no instances.
BlockTypeOK ==
  /\ graph \in Graphs
  /\ pc \in [Blocks -> Seq(Phases)]
  /\ result \in [Blocks -> {"none", "running"} \cup Final]
  /\ \A b \in Blocks : result[b] = "none" => Instances(b) = {}
  /\ vars \in [Blocks -> Slices \cup {None}]
  /\ entries \in [Blocks -> Slices \cup {None}]
  /\ published \in [Blocks -> Slices \cup {None}]
  /\ walk \in {"idle", "run"} \cup Final
  /\ errors \in BOOLEAN
  /\ cancelled \in BOOLEAN

\* A block of this type leaves one result for each of its instances.
Stored(b) == graph.type[b] \in {"output", "local", "resource"}

\* An instance that is done has its own result at its own index, in the variables
\* and in what is written or recorded, in whatever order the instances of its
\* block and those of others take the two steps of storing theirs.
ResultsInPlace ==
  \A b \in Blocks : \A i \in Instances(b) :
    Stored(b) /\ pc[b][i] = "done" =>
      /\ vars[b] # None /\ i \in DOMAIN vars[b]
      /\ vars[b][i] # None /\ vars[b][i].by = i
      /\ graph.type[b] # "local" =>
           entries[b] # None /\ i \in DOMAIN entries[b] /\ entries[b][i] = vars[b][i]

\* The outputs that leave an execution are those of all instances of all outputs:
\* pkg.Run copies them when every block is done, and no hole is among them.
OutputsAreWhole ==
  walk = "ok" =>
    \A b \in graph.blocks :
      graph.type[b] = "output" =>
        \A i \in Instances(b) :
          published[b] # None /\ published[b][i] # None /\ published[b][i].by = i

\* No execution that succeeds leaves a result in which a text was replaced by <nil>
\* ("if the BlockContext Value is defined we render the expected output").  The code
\* does not keep this: see RenderString.
SuccessIsRendered ==
  walk = "ok" =>
    \A b \in graph.blocks :
      Stored(b) => \A i \in Instances(b) : vars[b][i].text # "nil"
=============================================================================
