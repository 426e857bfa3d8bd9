--------------------------- MODULE ParseAndRunProofs ---------------------------
(***************************************************************************)
(* Proofs about BlockRun and ParseAndRun, for any set of blocks, packages  *)
(* and graphs, and any number of items.                                    *)
(*                                                                         *)
(* BlockInv is inductive for the steps of BlockRun.  ParseAndRun takes no  *)
(* others (StepsAreBlockSteps), so BlockInv holds of it too, and with it   *)
(* PhaseInv is inductive for ParseAndRun, which says what each phase knows *)
(* of the graph, of the blocks and of the processes.                       *)
(***************************************************************************)
EXTENDS ParseAndRun, SequenceTheorems, TLAPS

-----------------------------------------------------------------------------
(***************************************************************************)
(* The invariant of an execution                                           *)
(***************************************************************************)
Idle == walk = "idle" => \A b \in Blocks : result[b] = "none"

OutOfGraph == \A b \in Blocks : b \notin graph.blocks => result[b] = "none"

DoneBlocks ==
  \A b \in Blocks : result[b] = "ok" => \A i \in Instances(b) : pc[b][i] = "done"

OkWalk == walk = "ok" => \A b \in graph.blocks : result[b] = "ok"

FailedWalk == walk = "failed" => errors

\* Where an error is from.
Faulty(b) == result[b] = "failed" \/ \E i \in Instances(b) : pc[b][i] = "failed"
ErrorsFrom == errors => walk = "failed" \/ \E b \in graph.blocks : Faulty(b)

Singles ==
  \A b \in Blocks :
    graph.loop[b] = "single" /\ result[b] \in {"running", "ok"} => Instances(b) = {1}

Providers ==
  \A b \in Blocks : \A i \in Instances(b) :
    pc[b][i] = "configure" => graph.type[b] = "provider"

\* Instance i of b has stored its result once, or as often as it does: the slices have
\* the length of the block.
InVars(b, i) ==
  /\ vars[b] # None /\ DOMAIN vars[b] = Instances(b)
  /\ vars[b][i] # None /\ vars[b][i].by = i
InEntries(b, i) ==
  entries[b] # None /\ DOMAIN entries[b] = Instances(b) /\ entries[b][i] = vars[b][i]
InPlaceAt(b, i) ==
  InVars(b, i) /\ (graph.type[b] # "local" => InEntries(b, i))
KeptAt(b, i) ==
  \A t \in Rendered :
    pc[b][i] = Kept[t] => Stored(b) /\ InVars(b, i) /\ vars[b][i] = Result(i, t)
InPlace ==
  \A b \in Blocks : \A i \in Instances(b) :
    KeptAt(b, i) /\ (Stored(b) /\ pc[b][i] = "done" => InPlaceAt(b, i))

\* All that does not depend on the two stores.
Flow ==
  /\ Idle /\ OutOfGraph /\ DoneBlocks /\ OkWalk /\ FailedWalk /\ ErrorsFrom /\ Singles
  /\ Providers

BlockInv == BlockTypeOK /\ Flow /\ InPlace /\ OutputsAreWhole

\* The state of one instance changes, and with it at most the stores and errors.
InstanceStep(b, i, x) ==
  /\ pc' = [pc EXCEPT ![b][i] = x]
  /\ errors' = (errors \/ x = "failed")
  /\ x = "configure" => graph.type[b] = "provider"
  /\ UNCHANGED <<graph, result, walk, published, cancelled>>
-----------------------------------------------------------------------------
(***************************************************************************)
(* Lemmas                                                                  *)
(***************************************************************************)
\* How many items there are is a number.
LEMMA ItemsAreNumbers ==
  ASSUME NEW b \in Blocks, graph \in Graphs
  PROVE  Items(b) \subseteq Nat /\ (graph.loop[b] = "single" => Items(b) = {1})
<1>1. graph.loop[b] \in Loops /\ MaxItems \in Nat
  BY BlockAssumption
<1>2. 1 .. MaxItems \subseteq Nat /\ 0 .. MaxItems \subseteq Nat
  BY <1>1
<1>. QED  BY <1>1, <1>2 DEF Items, Loops

\* The instances of a block are numbered.
LEMMA InstancesAreNumbers ==
  ASSUME BlockTypeOK, NEW b \in Blocks
  PROVE  /\ Instances(b) = 1 .. Len(pc[b]) /\ Len(pc[b]) \in Nat
         /\ \A i \in Instances(b) : i \in Nat /\ pc[b][i] \in Phases
<1>1. pc[b] \in Seq(Phases)
  BY DEF BlockTypeOK
<1>. QED  BY <1>1, LenProperties, ElementOfSeq DEF Instances

\* A block with an instance is one of the graph, was started, and has not returned
\* without an error unless all its instances are done.
LEMMA InstanceRuns ==
  ASSUME BlockTypeOK, Flow, NEW b \in Blocks, NEW i \in Instances(b)
  PROVE  /\ result[b] # "none" /\ b \in graph.blocks /\ walk # "idle"
         /\ pc[b][i] # "done" => result[b] # "ok" /\ walk # "ok"
  BY DEF BlockTypeOK, Flow, Idle, OutOfGraph, DoneBlocks, OkWalk

\* An instance that goes on changes no other.
LEMMA InstanceFrame ==
  ASSUME BlockTypeOK, NEW b \in Blocks, NEW i \in Instances(b), NEW x \in Phases,
         InstanceStep(b, i, x)
  PROVE  /\ pc' \in [Blocks -> Seq(Phases)]
         /\ \A c \in Blocks : Instances(c)' = Instances(c)
         /\ \A c \in Blocks : \A j \in Instances(c) :
              pc'[c][j] = IF c = b /\ j = i THEN x ELSE pc[c][j]
<1>1. pc \in [Blocks -> Seq(Phases)] /\ i \in 1 .. Len(pc[b])
  BY InstancesAreNumbers DEF BlockTypeOK
<1>2. /\ [pc[b] EXCEPT ![i] = x] \in Seq(Phases)
      /\ Len([pc[b] EXCEPT ![i] = x]) = Len(pc[b])
      /\ \A j \in 1 .. Len(pc[b]) : [pc[b] EXCEPT ![i] = x][j] = IF j = i THEN x ELSE pc[b][j]
  BY <1>1, ExceptSeq
<1>3. pc' = [pc EXCEPT ![b] = [pc[b] EXCEPT ![i] = x]]
  BY DEF InstanceStep
<1>4. pc' \in [Blocks -> Seq(Phases)]
  BY <1>1, <1>2, <1>3
<1>5. \A c \in Blocks : DOMAIN pc'[c] = DOMAIN pc[c]
  BY <1>1, <1>3
<1>6. \A c \in Blocks : \A j \in DOMAIN pc[c] :
        pc'[c][j] = IF c = b /\ j = i THEN x ELSE pc[c][j]
  BY <1>1, <1>3
<1>. QED  BY <1>4, <1>5, <1>6 DEF Instances

\* Flow is kept when an instance goes on.
LEMMA InstanceFlow ==
  ASSUME BlockTypeOK, Flow, NEW b \in Blocks, NEW i \in Instances(b), NEW x \in Phases,
         InstanceStep(b, i, x), pc[b][i] \notin {"done", "failed"}
  PROVE  Flow'
<1>1. /\ \A c \in Blocks : Instances(c)' = Instances(c)
      /\ \A c \in Blocks : \A j \in Instances(c) :
           pc'[c][j] = IF c = b /\ j = i THEN x ELSE pc[c][j]
  BY InstanceFrame
<1>2. result[b] # "ok" /\ b \in graph.blocks
  BY InstanceRuns
<1>3. Idle' /\ OutOfGraph' /\ OkWalk'
  BY DEF InstanceStep, Flow, Idle, OutOfGraph, OkWalk
<1>4. DoneBlocks'
  BY <1>1, <1>2 DEF InstanceStep, Flow, DoneBlocks
<1>5. FailedWalk'
  BY DEF InstanceStep, Flow, FailedWalk
<1>6. Singles'
  BY <1>1 DEF InstanceStep, Flow, Singles
<1>7. ErrorsFrom'
  <2>1. CASE x = "failed"
    BY <1>1, <1>2, <2>1 DEF InstanceStep, ErrorsFrom, Faulty
  <2>2. CASE x # "failed"
    <3>1. \A c \in graph.blocks : Faulty(c) => Faulty(c)'
      <4>. SUFFICES ASSUME NEW c \in graph.blocks, Faulty(c), ~Faulty(c)'
                    PROVE  FALSE
        OBVIOUS
      <4>1. c \in Blocks
        BY BlockAssumption DEF BlockTypeOK
      <4>2. PICK j \in Instances(c) : pc[c][j] = "failed"
        BY DEF InstanceStep, Faulty
      <4>3. pc'[c][j] = "failed" /\ j \in Instances(c)'
        BY <1>1, <4>1, <4>2
      <4>. QED  BY <4>3 DEF Faulty
    <3>. QED  BY <2>2, <3>1 DEF InstanceStep, Flow, ErrorsFrom
  <2>. QED  BY <2>1, <2>2
<1>8. Providers'
  BY <1>1 DEF InstanceStep, Flow, Providers
<1>. QED  BY <1>3, <1>4, <1>5, <1>6, <1>7, <1>8 DEF Flow

\* What an instance puts into a slice of its block is at its index, and what others
\* have put into one of the right length stays.
LEMMA InsertKeeps ==
  ASSUME BlockTypeOK, NEW st \in [Blocks -> Slices \cup {None}], NEW b \in Blocks,
         NEW i \in Instances(b), NEW data \in Results
  PROVE  /\ Put(st, b, i, data) \in [Blocks -> Slices \cup {None}]
         /\ \A c \in Blocks : c # b => Put(st, b, i, data)[c] = st[c]
         /\ Put(st, b, i, data)[b] # None
         /\ DOMAIN Put(st, b, i, data)[b] = Instances(b)
         /\ \A j \in Instances(b) :
              Put(st, b, i, data)[b][j] =
                IF j = i THEN data
                ELSE IF st[b] # None /\ DOMAIN st[b] = Instances(b) THEN st[b][j] ELSE None
<1>. DEFINE slice == Insert(st[b], Instances(b), i, data)
            e(j) == IF j = i THEN data
                    ELSE IF st[b] # None /\ DOMAIN st[b] = Instances(b) THEN st[b][j] ELSE None
<1>1. Instances(b) = 1 .. Len(pc[b]) /\ Len(pc[b]) \in Nat
  BY InstancesAreNumbers
<1>2. slice = [j \in Instances(b) |-> e(j)]
  BY DEF Insert
<1>3. \A j \in Instances(b) : e(j) \in Results \cup {None}
  <2>. SUFFICES ASSUME NEW j \in Instances(b), st[b] # None, DOMAIN st[b] = Instances(b)
                PROVE  st[b][j] \in Results \cup {None}
    OBVIOUS
  <2>1. st[b] \in Seq(Results \cup {None})
    BY DEF Slices
  <2>. QED  BY <2>1, ElementOfSeq, LenProperties
<1>4. slice \in Slices
  <2>. HIDE DEF slice, e
  <2>1. [j \in 1 .. Len(pc[b]) |-> e(j)] \in Seq(Results \cup {None})
    BY <1>1, <1>3, IsASeq
  <2>. QED  BY <1>1, <1>2, <2>1 DEF Slices
<1>5. slice # None
  BY <1>4, BlockAssumption
<1>6. Put(st, b, i, data) = [st EXCEPT ![b] = slice]
  BY DEF Put
<1>. HIDE DEF slice
<1>. QED  BY <1>2, <1>4, <1>5, <1>6

\* The invariant is kept when an instance goes on, if its results are in place.
LEMMA InstanceKeeps ==
  ASSUME BlockInv, NEW b \in Blocks, NEW i \in Instances(b), NEW x \in Phases,
         InstanceStep(b, i, x), pc[b][i] \notin {"done", "failed"},
         vars' \in [Blocks -> Slices \cup {None}],
         entries' \in [Blocks -> Slices \cup {None}],
         InPlace'
  PROVE  BlockInv'
<1>1. BlockTypeOK /\ Flow
  BY DEF BlockInv
<1>2. Flow'
  BY <1>1, InstanceFlow
<1>3. walk # "ok" /\ result[b] # "none"
  BY <1>1, InstanceRuns
<1>4. BlockTypeOK'
  BY <1>1, <1>3, InstanceFrame DEF BlockTypeOK, InstanceStep
<1>5. OutputsAreWhole'
  BY <1>3 DEF OutputsAreWhole, InstanceStep
<1>. QED  BY <1>2, <1>4, <1>5 DEF BlockInv

\* The phases of an instance that has stored once are no others, and say what it stored.
LEMMA KeptIsKept ==
  /\ KeptPhases \subseteq Phases
  /\ \A x \in KeptPhases : x \notin Rendered \cup {"ready", "configure", "done", "failed"}
  /\ \A t, u \in Rendered : Kept[t] \in KeptPhases /\ (Kept[t] = Kept[u] => t = u)
<1>1. Kept["value"] = "kept value" /\ Kept["raw"] = "kept raw" /\ Kept["nil"] = "kept nil"
  BY DEF Kept
<1>2. KeptPhases = {"kept value", "kept raw", "kept nil"}
  BY <1>1 DEF KeptPhases, Rendered
<1>3. \A t \in Rendered : Kept[t] \in KeptPhases
  BY DEF KeptPhases
<1>4. \A t, u \in Rendered : Kept[t] = Kept[u] => t = u
  BY <1>1 DEF Rendered
<1>5. \A x \in KeptPhases : x \notin Rendered \cup {"ready", "configure", "done", "failed"}
  BY <1>2 DEF Rendered
<1>. QED  BY <1>3, <1>4, <1>5 DEF Phases

\* A step that moves no instance but new ones, and no store, keeps what is in place.
LEMMA InPlaceFrame ==
  ASSUME InPlace, UNCHANGED <<graph, vars, entries>>,
         \A c \in Blocks : \A j \in Instances(c)' :
           pc'[c][j] = "ready"
           \/ (j \in Instances(c) /\ pc'[c][j] = pc[c][j] /\ Instances(c)' = Instances(c))
  PROVE  InPlace'
<1>. SUFFICES ASSUME NEW c \in Blocks, NEW j \in Instances(c)'
              PROVE  KeptAt(c, j)' /\ (Stored(c)' /\ pc'[c][j] = "done" => InPlaceAt(c, j)')
  BY DEF InPlace
<1>1. CASE pc'[c][j] = "ready"
  <2>1. \A t \in Rendered : pc'[c][j] # Kept[t]
    BY <1>1, KeptIsKept
  <2>. QED  BY <1>1, <2>1 DEF KeptAt
<1>2. CASE j \in Instances(c) /\ pc'[c][j] = pc[c][j] /\ Instances(c)' = Instances(c)
  <2>1. KeptAt(c, j) /\ (Stored(c) /\ pc[c][j] = "done" => InPlaceAt(c, j))
    BY <1>2 DEF InPlace
  <2>2. Stored(c)' = Stored(c) /\ InVars(c, j)' = InVars(c, j) /\ InEntries(c, j)' = InEntries(c, j)
    BY <1>2 DEF Stored, InVars, InEntries
  <2>3. KeptAt(c, j)'
    <3>. SUFFICES ASSUME NEW t \in Rendered, pc'[c][j] = Kept[t]
                  PROVE  Stored(c)' /\ InVars(c, j)' /\ vars'[c][j] = Result(j, t)
      BY DEF KeptAt, Result
    <3>. QED  BY <1>2, <2>1, <2>2 DEF KeptAt
  <2>. QED  BY <1>2, <2>1, <2>2, <2>3 DEF InPlaceAt
<1>. QED  BY <1>1, <1>2

\* A step that stores nothing keeps what is in place.
LEMMA QuietStep ==
  ASSUME BlockInv, NEW b \in Blocks, NEW i \in Instances(b), NEW x \in Phases,
         InstanceStep(b, i, x), x # "done" \/ ~Stored(b), x \notin KeptPhases,
         \A c \in Blocks : Stored(c) => vars'[c] = vars[c],
         UNCHANGED entries
  PROVE  InPlace'
<1>1. /\ \A c \in Blocks : Instances(c)' = Instances(c)
      /\ \A c \in Blocks : \A j \in Instances(c) :
           pc'[c][j] = IF c = b /\ j = i THEN x ELSE pc[c][j]
  BY InstanceFrame DEF BlockInv
<1>. SUFFICES ASSUME NEW c \in Blocks, NEW j \in Instances(c)'
              PROVE  KeptAt(c, j)' /\ (Stored(c)' /\ pc'[c][j] = "done" => InPlaceAt(c, j)')
  BY DEF InPlace
<1>2. Stored(c)' = Stored(c) /\ graph' = graph /\ j \in Instances(c)
  BY <1>1 DEF Stored, InstanceStep
<1>3. KeptAt(c, j) /\ (Stored(c) /\ pc[c][j] = "done" => InPlaceAt(c, j))
  BY <1>2 DEF BlockInv, InPlace
<1>4. Instances(c)' = Instances(c)
  BY <1>1
<1>5. InVars(c, j) /\ Stored(c) => InVars(c, j)' /\ vars'[c][j] = vars[c][j]
  BY <1>4 DEF InVars
<1>6. KeptAt(c, j)'
  <2>. SUFFICES ASSUME NEW t \in Rendered, pc'[c][j] = Kept[t]
                PROVE  Stored(c)' /\ InVars(c, j)' /\ vars'[c][j] = Result(j, t)
    BY DEF KeptAt, Result
  <2>1. pc[c][j] = Kept[t]
    BY <1>1, <1>2 DEF KeptPhases
  <2>. QED  BY <1>2, <1>3, <1>5, <2>1 DEF KeptAt
<1>7. Stored(c) /\ pc'[c][j] = "done" => pc[c][j] = "done"
  BY <1>1, <1>2
<1>8. Stored(c) /\ InPlaceAt(c, j) => InPlaceAt(c, j)'
  BY <1>2, <1>4, <1>5 DEF InPlaceAt, InEntries
<1>. QED  BY <1>2, <1>3, <1>6, <1>7, <1>8

LEMMA StoreStep ==
  ASSUME BlockInv, NEW b \in Blocks, NEW i \in Instances(b), Store(b, i)
  PROVE  BlockInv'
<1>. DEFINE data == Result(i, pc[b][i])
            x == IF graph.type[b] = "local" THEN "done" ELSE Kept[pc[b][i]]
<1>1. BlockTypeOK /\ InPlace
  BY DEF BlockInv
<1>2. i \in Nat /\ pc[b][i] \in Rendered /\ data \in Results
  BY <1>1, InstancesAreNumbers DEF Store, Result, Results
<1>3. x \in Phases /\ x \notin {"failed", "configure"}
  BY <1>2, KeptIsKept DEF Phases
<1>4. InstanceStep(b, i, x)
  <2>1. pc' = [pc EXCEPT ![b][i] = x]
    BY DEF Store
  <2>. HIDE DEF x
  <2>. QED  BY <1>1, <1>3, <2>1 DEF Store, InstanceStep, BlockTypeOK
<1>5. graph' = graph /\ entries' = entries /\ vars' = Put(vars, b, i, data) /\ Stored(b)
  BY DEF Store, Stored
<1>6. data # None /\ data.by = i
  BY <1>2, BlockAssumption DEF Result
<1>7. \A t \in Rendered : x = Kept[t] => data = Result(i, t) /\ graph.type[b] # "local"
  BY <1>2, KeptIsKept
<1>8. x = "done" => graph.type[b] = "local"
  BY <1>2, KeptIsKept
<1>9. vars \in [Blocks -> Slices \cup {None}] /\ entries \in [Blocks -> Slices \cup {None}]
  BY <1>1 DEF BlockTypeOK
<1>. HIDE DEF data, x
<1>10. /\ \A c \in Blocks : Instances(c)' = Instances(c)
       /\ \A c \in Blocks : \A j \in Instances(c) :
            pc'[c][j] = IF c = b /\ j = i THEN x ELSE pc[c][j]
  BY <1>1, <1>3, <1>4, InstanceFrame
<1>11. /\ vars' \in [Blocks -> Slices \cup {None}]
       /\ \A c \in Blocks : c # b => vars'[c] = vars[c]
       /\ vars'[b] # None
       /\ DOMAIN vars'[b] = Instances(b)
       /\ \A j \in Instances(b) :
            vars'[b][j] = IF j = i THEN data
                          ELSE IF vars[b] # None /\ DOMAIN vars[b] = Instances(b) THEN vars[b][j]
                          ELSE None
  BY <1>1, <1>2, <1>5, <1>9, InsertKeeps
<1>12. InVars(b, i)' /\ vars'[b][i] = data
  BY <1>6, <1>10, <1>11 DEF InVars
<1>13. InPlace'
  <2>. SUFFICES ASSUME NEW c \in Blocks, NEW j \in Instances(c)'
                PROVE  KeptAt(c, j)' /\ (Stored(c)' /\ pc'[c][j] = "done" => InPlaceAt(c, j)')
    BY DEF InPlace
  <2>1. Stored(c)' = Stored(c) /\ j \in Instances(c) /\ Instances(c)' = Instances(c)
    BY <1>5, <1>10 DEF Stored
  <2>2. CASE c = b /\ j = i
    <3>1. pc'[c][j] = x
      BY <1>10, <2>1, <2>2
    <3>2. KeptAt(c, j)'
      <4>. SUFFICES ASSUME NEW t \in Rendered, pc'[c][j] = Kept[t]
                    PROVE  Stored(c)' /\ InVars(c, j)' /\ vars'[c][j] = Result(j, t)
        BY DEF KeptAt, Result
      <4>. QED  BY <1>5, <1>7, <1>12, <2>1, <2>2, <3>1
    <3>3. pc'[c][j] = "done" => InPlaceAt(c, j)'
      BY <1>5, <1>8, <1>12, <2>2, <3>1 DEF InPlaceAt
    <3>. QED  BY <3>2, <3>3
  <2>3. CASE ~(c = b /\ j = i)
    <3>1. pc'[c][j] = pc[c][j]
      BY <1>10, <2>1, <2>3
    <3>2. InVars(c, j) => InVars(c, j)' /\ vars'[c][j] = vars[c][j]
      BY <1>11, <2>1, <2>3 DEF InVars
    <3>3. KeptAt(c, j) /\ (Stored(c) /\ pc[c][j] = "done" => InPlaceAt(c, j))
      BY <1>1, <2>1 DEF InPlace
    <3>4. KeptAt(c, j)'
      <4>. SUFFICES ASSUME NEW t \in Rendered, pc'[c][j] = Kept[t]
                    PROVE  Stored(c)' /\ InVars(c, j)' /\ vars'[c][j] = Result(j, t)
        BY DEF KeptAt, Result
      <4>. QED  BY <2>1, <3>1, <3>2, <3>3 DEF KeptAt
    <3>5. InPlaceAt(c, j) => InPlaceAt(c, j)'
      BY <1>5, <2>1, <3>2 DEF InPlaceAt, InEntries
    <3>. QED  BY <2>1, <3>1, <3>3, <3>4, <3>5
  <2>. QED  BY <2>2, <2>3
<1>14. pc[b][i] \notin {"done", "failed"}
  BY <1>2 DEF Rendered
<1>15. entries' \in [Blocks -> Slices \cup {None}]
  BY <1>5, <1>9
<1>. QED  BY <1>3, <1>4, <1>11, <1>13, <1>14, <1>15, InstanceKeeps

LEMMA StoreEntryStep ==
  ASSUME BlockInv, NEW b \in Blocks, NEW i \in Instances(b), StoreEntry(b, i)
  PROVE  BlockInv'
<1>1. BlockTypeOK /\ InPlace
  BY DEF BlockInv
<1>2. PICK t \in Rendered : pc[b][i] = Kept[t] /\ entries' = Put(entries, b, i, Result(i, t))
  BY DEF StoreEntry
<1>. DEFINE data == Result(i, t)
<1>3. i \in Nat /\ data \in Results
  BY <1>1, <1>2, InstancesAreNumbers DEF Result, Results
<1>4. InstanceStep(b, i, "done") /\ "done" \in Phases
  BY <1>1 DEF StoreEntry, InstanceStep, BlockTypeOK, Phases
<1>5. graph' = graph /\ vars' = vars
  BY DEF StoreEntry
<1>6. Stored(b) /\ InVars(b, i) /\ vars[b][i] = data
  BY <1>1, <1>2 DEF InPlace, KeptAt
<1>7. vars \in [Blocks -> Slices \cup {None}] /\ entries \in [Blocks -> Slices \cup {None}]
  BY <1>1 DEF BlockTypeOK
<1>8. entries' = Put(entries, b, i, data)
  BY <1>2
<1>. HIDE DEF data
<1>9. /\ \A c \in Blocks : Instances(c)' = Instances(c)
      /\ \A c \in Blocks : \A j \in Instances(c) :
           pc'[c][j] = IF c = b /\ j = i THEN "done" ELSE pc[c][j]
  BY <1>1, <1>4, InstanceFrame
<1>10. /\ entries' \in [Blocks -> Slices \cup {None}]
       /\ \A c \in Blocks : c # b => entries'[c] = entries[c]
       /\ entries'[b] # None
       /\ DOMAIN entries'[b] = Instances(b)
       /\ \A j \in Instances(b) :
            entries'[b][j] =
              IF j = i THEN data
              ELSE IF entries[b] # None /\ DOMAIN entries[b] = Instances(b) THEN entries[b][j]
              ELSE None
  BY <1>1, <1>3, <1>7, <1>8, InsertKeeps
<1>11. InPlace'
  <2>. SUFFICES ASSUME NEW c \in Blocks, NEW j \in Instances(c)'
                PROVE  KeptAt(c, j)' /\ (Stored(c)' /\ pc'[c][j] = "done" => InPlaceAt(c, j)')
    BY DEF InPlace
  <2>1. Stored(c)' = Stored(c) /\ j \in Instances(c) /\ Instances(c)' = Instances(c)
    BY <1>5, <1>9 DEF Stored
  <2>2. InVars(c, j) => InVars(c, j)'
    BY <1>5, <2>1 DEF InVars
  <2>3. CASE c = b /\ j = i
    <3>1. pc'[c][j] = "done" /\ "done" \notin KeptPhases
      BY <1>9, <2>1, <2>3, KeptIsKept
    <3>2. KeptAt(c, j)'
      <4>1. \A u \in Rendered : pc'[c][j] # Kept[u]
        BY <3>1, KeptIsKept
      <4>. QED  BY <4>1 DEF KeptAt
    <3>3. InPlaceAt(c, j)'
      BY <1>5, <1>6, <1>10, <2>1, <2>2, <2>3 DEF InPlaceAt, InEntries
    <3>. QED  BY <3>2, <3>3
  <2>4. CASE ~(c = b /\ j = i)
    <3>1. pc'[c][j] = pc[c][j]
      BY <1>9, <2>1, <2>4
    <3>2. KeptAt(c, j) /\ (Stored(c) /\ pc[c][j] = "done" => InPlaceAt(c, j))
      BY <1>1, <2>1 DEF InPlace
    <3>3. KeptAt(c, j)'
      <4>. SUFFICES ASSUME NEW u \in Rendered, pc'[c][j] = Kept[u]
                    PROVE  Stored(c)' /\ InVars(c, j)' /\ vars'[c][j] = Result(j, u)
        BY DEF KeptAt, Result
      <4>. QED  BY <1>5, <2>1, <2>2, <3>1, <3>2 DEF KeptAt
    <3>4. InEntries(c, j) => InEntries(c, j)'
      BY <1>5, <1>10, <2>1, <2>4 DEF InEntries
    <3>5. InPlaceAt(c, j) => InPlaceAt(c, j)'
      BY <1>5, <2>2, <3>4 DEF InPlaceAt
    <3>. QED  BY <2>1, <3>1, <3>2, <3>3, <3>5
  <2>. QED  BY <2>3, <2>4
<1>12. pc[b][i] \notin {"done", "failed"}
  BY <1>2, KeptIsKept
<1>13. vars' \in [Blocks -> Slices \cup {None}]
  BY <1>5, <1>7
<1>. QED  BY <1>4, <1>10, <1>11, <1>12, <1>13, InstanceKeeps

LEMMA OtherInstanceSteps ==
  ASSUME BlockInv, NEW b \in Blocks, NEW i \in Instances(b),
         \/ RunInput(b, i) \/ RenderData(b, i) \/ StartProvider(b, i)
         \/ Configure(b, i) \/ Fail(b, i)
  PROVE  BlockInv'
<1>1. BlockTypeOK
  BY DEF BlockInv
<1>2. i \in Nat /\ vars \in [Blocks -> Slices \cup {None}] /\ entries \in [Blocks -> Slices \cup {None}]
  BY <1>1, InstancesAreNumbers DEF BlockTypeOK
<1>3. errors \in BOOLEAN
  BY <1>1 DEF BlockTypeOK
<1>4. CASE RunInput(b, i)
  <2>1. InstanceStep(b, i, "done") /\ "done" \in Phases \ KeptPhases /\ ~Stored(b)
    BY <1>3, <1>4, KeptIsKept DEF RunInput, InstanceStep, Phases, Stored
  <2>2. Result(i, "value") \in Results
    BY <1>2 DEF Result, Results, Rendered
  <2>3. \/ vars' = vars
        \/ vars' = Put(vars, b, i, Result(i, "value"))
    BY <1>4 DEF RunInput
  <2>4. /\ vars' \in [Blocks -> Slices \cup {None}]
        /\ \A c \in Blocks : c # b => vars'[c] = vars[c]
    BY <1>1, <1>2, <2>2, <2>3, InsertKeeps
  <2>5. pc[b][i] = "ready" /\ entries' = entries
    BY <1>4 DEF RunInput
  <2>6. InPlace'
    BY <2>1, <2>4, <2>5, QuietStep
  <2>. QED  BY <1>2, <2>1, <2>4, <2>5, <2>6, InstanceKeeps
<1>5. ASSUME NEW x \in {"value", "raw", "nil", "configure", "failed"}, InstanceStep(b, i, x),
             pc[b][i] \notin {"done", "failed"}, UNCHANGED <<vars, entries>>
      PROVE  BlockInv'
  <2>1. x \in Phases \ KeptPhases /\ x # "done"
    BY KeptIsKept DEF Phases, Rendered
  <2>2. InPlace'
    BY <1>5, <2>1, QuietStep
  <2>. QED  BY <1>2, <1>5, <2>1, <2>2, InstanceKeeps
<1>6. CASE RenderData(b, i)
  <2>1. Render(graph.text[b]) \in {"value", "raw", "nil"}
    BY DEF Render, RenderString
  <2>. QED  BY <1>3, <1>5, <1>6, <2>1 DEF RenderData, InstanceStep
<1>7. CASE StartProvider(b, i)
  BY <1>3, <1>5, <1>7 DEF StartProvider, InstanceStep, Rendered
<1>8. CASE Fail(b, i)
  BY <1>3, <1>5, <1>8 DEF Fail, InstanceStep, Rendered
<1>9. CASE Configure(b, i)
  <2>1. InstanceStep(b, i, "done") /\ "done" \in Phases \ KeptPhases
    BY <1>3, <1>9, KeptIsKept DEF Configure, InstanceStep, Phases
  <2>2. pc[b][i] = "configure" /\ UNCHANGED <<vars, entries>>
    BY <1>9 DEF Configure
  <2>3. ~Stored(b)
    BY <1>1, <2>2 DEF BlockInv, Flow, Providers, Stored
  <2>4. InPlace'
    BY <2>1, <2>2, <2>3, QuietStep
  <2>. QED  BY <1>2, <2>1, <2>2, <2>4, InstanceKeeps
<1>. QED  BY <1>4, <1>6, <1>7, <1>8, <1>9

(***************************************************************************)
(* The steps of blocks and of the execution                                *)
(***************************************************************************)
LEMMA ResetStep ==
  ASSUME BlockInv, NEW g \in Graphs, Reset(g)
  PROVE  BlockInv'
<1>1. \A b \in Blocks : Instances(b)' = {}
  BY DEF Reset, Instances
<1>2. <<Result(1, "value")>> \in Slices
  BY DEF Result, Results, Rendered, Slices
<1>3. vars' \in [Blocks -> Slices \cup {None}]
  BY <1>2 DEF Reset
<1>4. pc' \in [Blocks -> Seq(Phases)]
  BY DEF Reset
<1>5. BlockTypeOK'
  BY <1>1, <1>3, <1>4 DEF Reset, BlockTypeOK, BlockInv, Nothing
<1>6. Flow'
  BY <1>1 DEF Reset, Flow, Idle, OutOfGraph, DoneBlocks, OkWalk, FailedWalk, ErrorsFrom, Singles, Providers
<1>7. InPlace' /\ OutputsAreWhole'
  BY <1>1 DEF Reset, InPlace, OutputsAreWhole
<1>. QED  BY <1>5, <1>6, <1>7 DEF BlockInv

LEMMA StartStep ==
  ASSUME BlockInv, NEW b \in Blocks, Start(b)
  PROVE  BlockInv'
<1>1. BlockTypeOK /\ Flow /\ InPlace
  BY DEF BlockInv
<1>2. /\ Instances(b) = {} /\ b \in graph.blocks /\ result[b] = "none"
      /\ walk # "idle" /\ walk # "ok"
  BY <1>1 DEF Start, BlockTypeOK, Flow, OkWalk
<1>3. graph \in Graphs /\ pc \in [Blocks -> Seq(Phases)]
      /\ result \in [Blocks -> {"none", "running"} \cup Final]
  BY <1>1 DEF BlockTypeOK
<1>4. CASE \E n \in Items(b) :
             /\ pc' = [pc EXCEPT ![b] = [i \in 1 .. n |-> "ready"]]
             /\ result' = [result EXCEPT ![b] = "running"]
             /\ UNCHANGED errors
  <2>1. PICK n \in Items(b) :
             /\ pc' = [pc EXCEPT ![b] = [i \in 1 .. n |-> "ready"]]
             /\ result' = [result EXCEPT ![b] = "running"]
             /\ UNCHANGED errors
    BY <1>4
  <2>2. n \in Nat /\ (graph.loop[b] = "single" => n = 1)
    BY <1>3, ItemsAreNumbers
  <2>3. [i \in 1 .. n |-> "ready"] \in Seq(Phases)
    BY <2>2 DEF Phases
  <2>4. pc' \in [Blocks -> Seq(Phases)]
    BY <1>3, <2>1, <2>3
  <2>5. /\ Instances(b)' = 1 .. n
        /\ \A i \in 1 .. n : pc'[b][i] = "ready"
        /\ \A c \in Blocks : c # b => pc'[c] = pc[c] /\ Instances(c)' = Instances(c)
    BY <1>3, <2>1 DEF Instances
  <2>6. BlockTypeOK'
    BY <1>1, <2>1, <2>4, <2>5 DEF Start, BlockTypeOK
  <2>7. Idle' /\ OutOfGraph' /\ OkWalk' /\ FailedWalk'
    BY <1>1, <1>2, <2>1 DEF Start, BlockTypeOK, Flow, Idle, OutOfGraph, OkWalk, FailedWalk
  <2>8. DoneBlocks' /\ Providers'
    <3>1. \A c \in Blocks : result'[c] = "ok" => c # b /\ result[c] = "ok"
      BY <1>3, <2>1
    <3>2. DoneBlocks'
      BY <1>1, <2>5, <3>1 DEF Flow, DoneBlocks
    <3>3. \A c \in Blocks : \A j \in Instances(c)' :
            pc'[c][j] = "configure" => j \in Instances(c) /\ pc[c][j] = "configure"
      BY <2>5
    <3>. QED  BY <1>1, <3>2, <3>3 DEF Start, Flow, Providers
  <2>9. Singles'
    BY <1>1, <1>3, <2>1, <2>2, <2>5 DEF Start, Flow, Singles
  <2>10. ErrorsFrom'
    <3>1. \A c \in graph.blocks : Faulty(c) => Faulty(c)'
      <4>. SUFFICES ASSUME NEW c \in graph.blocks, Faulty(c)
                    PROVE  Faulty(c)'
        OBVIOUS
      <4>1. c \in Blocks
        BY <1>3, BlockAssumption
      <4>2. c # b
        BY <1>2 DEF Faulty
      <4>. QED  BY <1>3, <2>1, <2>5, <4>1, <4>2 DEF Faulty
    <3>. QED  BY <1>1, <2>1, <3>1 DEF Start, Flow, ErrorsFrom
  <2>11. InPlace'
    <3>1. \A c \in Blocks : \A j \in Instances(c)' :
            pc'[c][j] = "ready"
            \/ (j \in Instances(c) /\ pc'[c][j] = pc[c][j] /\ Instances(c)' = Instances(c))
      BY <2>5
    <3>2. UNCHANGED <<graph, vars, entries>>
      BY DEF Start
    <3>. QED  BY <1>1, <3>1, <3>2, InPlaceFrame
  <2>12. OutputsAreWhole'
    BY <1>2 DEF Start, OutputsAreWhole
  <2>. QED  BY <2>6, <2>7, <2>8, <2>9, <2>10, <2>11, <2>12 DEF BlockInv, Flow
<1>5. CASE /\ result' = [result EXCEPT ![b] = "failed"]
           /\ errors' = TRUE
           /\ UNCHANGED pc
  <2>1. \A c \in Blocks : Instances(c)' = Instances(c) /\ pc'[c] = pc[c]
    BY <1>5 DEF Instances
  <2>2. BlockTypeOK'
    BY <1>1, <1>5, <2>1 DEF Start, BlockTypeOK, Final
  <2>3. Idle' /\ OutOfGraph' /\ OkWalk' /\ FailedWalk'
    BY <1>1, <1>2, <1>5 DEF Start, BlockTypeOK, Flow, Idle, OutOfGraph, OkWalk, FailedWalk
  <2>4. DoneBlocks' /\ Providers' /\ Singles'
    BY <1>1, <1>3, <1>5, <2>1 DEF Start, Flow, DoneBlocks, Providers, Singles
  <2>5. ErrorsFrom'
    BY <1>2, <1>3, <1>5 DEF Start, ErrorsFrom, Faulty
  <2>6. InPlace'
    <3>1. UNCHANGED <<graph, vars, entries>>
      BY DEF Start
    <3>. QED  BY <1>1, <2>1, <3>1, InPlaceFrame
  <2>7. OutputsAreWhole'
    BY <1>2 DEF Start, OutputsAreWhole
  <2>. QED  BY <2>2, <2>3, <2>4, <2>5, <2>6, <2>7 DEF BlockInv, Flow
<1>. QED  BY <1>4, <1>5 DEF Start

LEMMA EndStep ==
  ASSUME BlockInv, NEW b \in Blocks, End(b)
  PROVE  BlockInv'
<1>1. BlockTypeOK /\ Flow /\ InPlace
  BY DEF BlockInv
<1>2. result[b] = "running" /\ b \in graph.blocks /\ walk # "idle" /\ walk # "ok"
  BY <1>1 DEF End, Ended, BlockTypeOK, Flow, Idle, OutOfGraph, OkWalk
<1>3. graph \in Graphs /\ result \in [Blocks -> {"none", "running"} \cup Final]
  BY <1>1 DEF BlockTypeOK
<1>4. \A c \in Blocks : Instances(c)' = Instances(c) /\ pc'[c] = pc[c]
  BY DEF End, Instances
<1>5. \E r \in Final : result' = [result EXCEPT ![b] = r]
  BY DEF End, Final
<1>6. BlockTypeOK'
  BY <1>1, <1>2, <1>4, <1>5 DEF End, BlockTypeOK, Final
<1>7. Idle' /\ OutOfGraph' /\ OkWalk' /\ FailedWalk'
  BY <1>1, <1>2, <1>5 DEF End, BlockTypeOK, Flow, Idle, OutOfGraph, OkWalk, FailedWalk
<1>8. DoneBlocks'
  <2>1. \A c \in Blocks : c # b /\ result'[c] = "ok" => result[c] = "ok"
    BY <1>3, <1>5
  <2>2. result'[b] = "ok" => \A i \in Instances(b) : pc[b][i] = "done"
    BY <1>3 DEF End, Ended
  <2>. QED  BY <1>1, <1>4, <2>1, <2>2 DEF Flow, DoneBlocks
<1>9. Providers' /\ Singles'
  BY <1>1, <1>2, <1>3, <1>4, <1>5 DEF End, Flow, Providers, Singles
<1>10. ErrorsFrom'
  <2>1. CASE \E i \in Instances(b) : pc[b][i] = "failed"
    BY <1>2, <1>3, <2>1 DEF End, ErrorsFrom, Faulty
  <2>2. CASE ~\E i \in Instances(b) : pc[b][i] = "failed"
    <3>1. \A c \in graph.blocks : Faulty(c) => c # b
      BY <1>2, <2>2 DEF Faulty
    <3>2. \A c \in graph.blocks : Faulty(c) => Faulty(c)'
      BY <1>3, <1>4, <1>5, <3>1, BlockAssumption DEF Faulty
    <3>. QED  BY <1>1, <2>2, <3>2 DEF End, Flow, ErrorsFrom
  <2>. QED  BY <2>1, <2>2
<1>11. InPlace'
  <2>1. UNCHANGED <<graph, vars, entries>>
    BY DEF End
  <2>. QED  BY <1>1, <1>4, <2>1, InPlaceFrame
<1>12. OutputsAreWhole'
  BY <1>2 DEF End, OutputsAreWhole
<1>. QED  BY <1>6, <1>7, <1>8, <1>9, <1>10, <1>11, <1>12 DEF BlockInv, Flow

\* The execution ends, or is cancelled; no block is changed by that.
LEMMA WalkStep ==
  ASSUME BlockInv, Succeed \/ GiveUp \/ Cancel \/ UNCHANGED blockVars
  PROVE  BlockInv'
<1>1. BlockTypeOK /\ Flow /\ InPlace
  BY DEF BlockInv
<1>2. UNCHANGED <<graph, vars, entries, pc, result>>
  BY DEF Succeed, GiveUp, Cancel, blockVars
<1>3. \A c \in Blocks : Instances(c)' = Instances(c)
  BY <1>2 DEF Instances
<1>4. InPlace'
  BY <1>1, <1>2, <1>3, InPlaceFrame
<1>5. DoneBlocks' /\ Providers' /\ Singles' /\ OutOfGraph'
  BY <1>1, <1>2, <1>3 DEF Flow, DoneBlocks, Providers, Singles, OutOfGraph
<1>6. \A c \in graph.blocks : Faulty(c)' = Faulty(c)
  BY <1>2 DEF Faulty, Instances
<1>7. CASE Succeed
  <2>1. published' \in [Blocks -> Slices \cup {None}]
    BY <1>1, <1>7 DEF Succeed, BlockTypeOK
  <2>2. BlockTypeOK'
    BY <1>1, <1>2, <1>3, <1>7, <2>1 DEF Succeed, BlockTypeOK, Final
  <2>3. Idle' /\ OkWalk' /\ FailedWalk' /\ ErrorsFrom'
    BY <1>1, <1>2, <1>6, <1>7 DEF Succeed, Flow, Idle, OkWalk, FailedWalk, ErrorsFrom
  <2>4. OutputsAreWhole'
    <3>. SUFFICES ASSUME NEW b \in graph.blocks, graph.type[b] = "output", NEW i \in Instances(b)
                  PROVE  published'[b] # None /\ published'[b][i] # None /\ published'[b][i].by = i
      BY <1>2, <1>3, BlockAssumption DEF OutputsAreWhole, BlockTypeOK, Instances
    <3>1. b \in Blocks
      BY <1>1, BlockAssumption DEF BlockTypeOK
    <3>2. pc[b][i] = "done" /\ Stored(b)
      BY <1>1, <1>7, <3>1 DEF Succeed, Flow, DoneBlocks, Stored
    <3>3. InPlaceAt(b, i)
      BY <1>1, <3>1, <3>2 DEF InPlace
    <3>4. published'[b] = entries[b]
      BY <1>7, <3>1 DEF Succeed
    <3>. QED  BY <1>7, <3>3, <3>4 DEF InPlaceAt, InVars, InEntries
  <2>. QED  BY <1>4, <1>5, <2>2, <2>3, <2>4 DEF BlockInv, Flow
<1>8. CASE GiveUp
  <2>1. BlockTypeOK'
    BY <1>1, <1>2, <1>3, <1>8 DEF GiveUp, BlockTypeOK, Final
  <2>2. Idle' /\ OkWalk' /\ FailedWalk' /\ ErrorsFrom' /\ OutputsAreWhole'
    BY <1>8 DEF GiveUp, Idle, OkWalk, FailedWalk, ErrorsFrom, OutputsAreWhole
  <2>. QED  BY <1>4, <1>5, <2>1, <2>2 DEF BlockInv, Flow
<1>9. CASE Cancel \/ UNCHANGED blockVars
  <2>1. UNCHANGED <<walk, errors, published>>
    BY <1>9 DEF Cancel, blockVars
  <2>2. BlockTypeOK'
    BY <1>1, <1>2, <1>3, <1>9, <2>1 DEF Cancel, blockVars, BlockTypeOK
  <2>3. Idle' /\ OkWalk' /\ FailedWalk' /\ ErrorsFrom'
    BY <1>1, <1>2, <1>6, <2>1 DEF Flow, Idle, OkWalk, FailedWalk, ErrorsFrom
  <2>4. OutputsAreWhole'
    BY <1>2, <2>1 DEF BlockInv, OutputsAreWhole, Instances
  <2>. QED  BY <1>4, <1>5, <2>2, <2>3, <2>4 DEF BlockInv, Flow
<1>. QED  BY <1>7, <1>8, <1>9

LEMMA InitBlock == BlockInit => BlockInv
<1>. SUFFICES ASSUME BlockInit PROVE BlockInv
  OBVIOUS
<1>1. \A b \in Blocks : Instances(b) = {}
  <2>1. pc = [b \in Blocks |-> <<>>]
    BY DEF BlockInit
  <2>2. DOMAIN <<>> = {}
    OBVIOUS
  <2>. QED  BY <2>1, <2>2 DEF Instances
<1>2. BlockTypeOK
  <2>1. pc \in [Blocks -> Seq(Phases)]
    BY DEF BlockInit
  <2>. QED  BY <1>1, <2>1 DEF BlockInit, BlockTypeOK, Nothing
<1>3. Flow
  <2>1. \A b \in Blocks : result[b] = "none"
    BY DEF BlockInit
  <2>2. Idle /\ OutOfGraph /\ DoneBlocks /\ Singles /\ Providers
    BY <1>1, <2>1 DEF Idle, OutOfGraph, DoneBlocks, Singles, Providers
  <2>3. OkWalk /\ FailedWalk /\ ErrorsFrom
    BY DEF BlockInit, OkWalk, FailedWalk, ErrorsFrom
  <2>. QED  BY <2>2, <2>3 DEF Flow
<1>. QED  BY <1>1, <1>2, <1>3 DEF BlockInit, BlockInv, InPlace, OutputsAreWhole

LEMMA NextBlock == BlockInv /\ [BlockNext]_blockVars => BlockInv'
<1>. SUFFICES ASSUME BlockInv, [BlockNext]_blockVars PROVE BlockInv'
  OBVIOUS
<1>1. CASE \E g \in Graphs : Begin(g)
  BY <1>1, ResetStep DEF Begin
<1>2. CASE \E b \in Blocks : Start(b) \/ End(b)
  BY <1>2, StartStep, EndStep
<1>3. CASE \E b \in Blocks : \E i \in Instances(b) :
             \/ RunInput(b, i) \/ RenderData(b, i) \/ Store(b, i) \/ StoreEntry(b, i)
             \/ StartProvider(b, i) \/ Configure(b, i) \/ Fail(b, i)
  BY <1>3, StoreStep, StoreEntryStep, OtherInstanceSteps
<1>4. CASE Succeed \/ GiveUp \/ Cancel \/ UNCHANGED blockVars
  BY <1>4, WalkStep
<1>. QED  BY <1>1, <1>2, <1>3, <1>4 DEF BlockNext

\* Every execution keeps its invariant, whatever its blocks do.
THEOREM BlockInvariant == BlockSpec => []BlockInv
<1>. QED  BY InitBlock, NextBlock, PTL DEF BlockSpec
-----------------------------------------------------------------------------
(***************************************************************************)
(* The steps of ParseAndRun                                                *)
(***************************************************************************)
LEMMA PackageFacts ==
  ASSUME NEW p \in Packages
  PROVE  /\ p.graph \in Graphs /\ ProviderGraph(p) \in Graphs
         /\ ProviderGraph(p).type = p.graph.type
         /\ ProviderGraph(p).loop = p.graph.loop
         /\ UsedConfigs(p) \subseteq ProviderGraph(p).blocks
         /\ UsedConfigs(p) \subseteq p.configs
         /\ \A c \in p.configs :
              c \in Blocks /\ p.graph.type[c] = "provider" /\ p.graph.loop[c] = "single"
         /\ \A b \in p.graph.blocks : p.graph.type[b] # "provider"
<1>1. p.graph \in Graphs /\ ProviderGraph(p) \in Graphs
  BY PackageAssumption
<1>2. p.graph \in [blocks : SUBSET Blocks, given : SUBSET Blocks, type : [Blocks -> Types],
                   after : [Blocks -> SUBSET Blocks], text : [Blocks -> Texts],
                   loop : [Blocks -> Loops], over : [Blocks -> Texts]]
  BY <1>1, BlockAssumption
<1>3. /\ ProviderGraph(p).type = p.graph.type
      /\ ProviderGraph(p).loop = p.graph.loop
      /\ ProviderGraph(p).blocks = {b \in p.graph.blocks : p.prefix[b] = "input"} \cup UsedConfigs(p)
  BY <1>2 DEF ProviderGraph
<1>4. UsedConfigs(p) \subseteq p.configs
  BY DEF UsedConfigs
<1>. QED  BY <1>1, <1>3, <1>4, PackageAssumption

LEMMA StepsAreBlockSteps ==
  ASSUME pkg \in Packages, [Next]_allVars
  PROVE  [BlockNext]_blockVars /\ pkg' = pkg
<1>1. CASE Parse \/ Answer \/ FailProviders \/ EndBlocks \/ \E r \in Blocks : Ask(r)
  BY <1>1 DEF Parse, Answer, FailProviders, EndBlocks, Ask
<1>2. CASE BeginProviders \/ BeginBlocks
  BY <1>2, PackageFacts DEF BeginProviders, BeginBlocks, BlockNext
<1>3. CASE RunBlock
  BY <1>3 DEF RunBlock, BlockNext, providerVars
<1>4. CASE \E b \in Blocks : \E i \in Instances(b) :
             \/ StartInstance(b, i) \/ LoseInstance(b, i)
             \/ ConfigureInstance(b, i) \/ CallProvider(b, i)
  BY <1>4 DEF StartInstance, LoseInstance, ConfigureInstance, CallProvider, BlockNext, providerVars
<1>5. CASE UNCHANGED allVars
  BY <1>5 DEF allVars, providerVars
<1>. QED  BY <1>1, <1>2, <1>3, <1>4, <1>5 DEF Next

LEMMA InitIsBlockInit == Init => BlockInit /\ pkg \in Packages
<1>. QED  BY DEF Init

-----------------------------------------------------------------------------
(***************************************************************************)
(* The invariant of ParseAndRun                                            *)
(***************************************************************************)
ProviderTypeOK ==
  /\ pkg \in Packages
  /\ phase \in {"parse", "ask", "providers", "blocks", "ok", "failed"}
  /\ todo \subseteq Blocks
  /\ asking \in Blocks \cup {None}
  /\ running \subseteq Blocks /\ instances \subseteq Blocks

\* Which graph is executed, how far it is, and that none is before the parser agreed.
PhaseGraph ==
  /\ asking # None => phase = "ask" /\ asking \in todo
  /\ phase \notin {"parse", "failed"} => ~Refused(pkg)
  /\ phase \in {"parse", "ask"} => graph = pkg.graph /\ walk = "idle" /\ running = {}
  /\ phase = "providers" => graph = ProviderGraph(pkg) /\ (graph = pkg.graph => running = {})
  /\ phase \in {"blocks", "ok"} => graph = pkg.graph
  /\ phase = "ok" => walk = "ok"
  /\ phase = "ok" => running = {}
  /\ phase = "failed" =>
       \/ graph = pkg.graph /\ (walk # "idle" => running = {})
       \/ graph = ProviderGraph(pkg) /\ walk = "failed" /\ graph # pkg.graph

\* What is known of the process of a config from the state of its only instance.
ProcessOf(c) ==
  /\ c \in running => c \in instances \/ \E i \in Instances(c) : pc[c][i] \in {"configure", "failed"}
  /\ \A i \in Instances(c) :
       graph.type[c] = "provider" /\ pc[c][i] \in {"configure", "done"} =>
         /\ c \in running /\ RawOf[c] = c
         /\ pc[c][i] = "done" => c \in instances
Processes == phase = "providers" => \A c \in Blocks : ProcessOf(c)

Ready ==
  phase = "blocks" =>
    /\ running \subseteq instances
    /\ \A c \in Used(pkg) : c \in instances \cap running /\ RawOf[c] = c

PhaseInv == ProviderTypeOK /\ PhaseGraph /\ Processes /\ Ready

\* Providers have instances only in the execution of their graph, also when it goes
\* on after ParseAndRun has returned.
LEMMA ProviderPhase ==
  ASSUME BlockInv, PhaseInv, NEW c \in Blocks, NEW i \in Instances(c), graph.type[c] = "provider"
  PROVE  /\ graph # pkg.graph
         /\ phase = "providers" \/ (phase = "failed" /\ graph = ProviderGraph(pkg) /\ walk = "failed")
<1>1. c \in graph.blocks /\ walk # "idle"
  BY InstanceRuns DEF BlockInv
<1>2. graph # pkg.graph
  BY <1>1, PackageFacts DEF PhaseInv, ProviderTypeOK
<1>. QED  BY <1>1, <1>2 DEF PhaseInv, ProviderTypeOK, PhaseGraph

\* Without a provider's own steps no process begins or ends.
LEMMA RunBlockProcess ==
  ASSUME BlockInv, RunBlock, NEW c \in Blocks, ProcessOf(c)
  PROVE  ProcessOf(c)'
<1>1. UNCHANGED <<graph, providerVars>>
  BY DEF RunBlock, Start, End, RunInput, RenderData, Fail, Store, StoreEntry, Succeed, GiveUp, Cancel
<1>2. BlockTypeOK /\ pc \in [Blocks -> Seq(Phases)]
  BY DEF BlockInv, BlockTypeOK
<1>3. CASE pc' = pc
  BY <1>1, <1>3 DEF ProcessOf, Instances, providerVars
<1>4. ASSUME NEW b \in Blocks, Start(b)
      PROVE  ProcessOf(c)'
  <2>1. Instances(b) = {}
    BY <1>2, <1>4 DEF Start, BlockTypeOK
  <2>. SUFFICES ASSUME NEW n \in Items(b), pc' = [pc EXCEPT ![b] = [i \in 1 .. n |-> "ready"]]
                PROVE  ProcessOf(c)'
    BY <1>3, <1>4 DEF Start
  <2>3. CASE c = b
    <3>1. \A i \in Instances(c)' : pc'[c][i] = "ready"
      BY <1>2, <2>3 DEF Instances
    <3>2. c \in running => c \in instances
      BY <2>1, <2>3 DEF ProcessOf
    <3>. QED  BY <1>1, <3>1, <3>2 DEF ProcessOf, providerVars
  <2>4. CASE c # b
    <3>1. pc'[c] = pc[c] /\ Instances(c)' = Instances(c)
      BY <1>2, <2>4 DEF Instances
    <3>. QED  BY <1>1, <3>1 DEF ProcessOf, providerVars
  <2>. QED  BY <2>3, <2>4
<1>5. ASSUME NEW b \in Blocks, NEW i \in Instances(b), NEW x \in Phases, InstanceStep(b, i, x),
             x # "configure", x = "done" => graph.type[b] # "provider",
             pc[b][i] = "configure" => x = "failed", pc[b][i] # "failed"
      PROVE  ProcessOf(c)'
  <2>1. /\ Instances(c)' = Instances(c)
        /\ \A j \in Instances(c) : pc'[c][j] = IF c = b /\ j = i THEN x ELSE pc[c][j]
    BY <1>2, <1>5, InstanceFrame
  <2>. QED  BY <1>1, <1>5, <2>1 DEF ProcessOf, providerVars
<1>6. ASSUME NEW b \in Blocks, NEW i \in Instances(b),
             \/ RunInput(b, i) \/ RenderData(b, i) \/ StoreEntry(b, i) \/ Fail(b, i)
             \/ graph.type[b] # "resource" /\ Store(b, i)
      PROVE  ProcessOf(c)'
  <2>1. errors \in BOOLEAN
    BY <1>2 DEF BlockTypeOK
  <2>2. CASE RunInput(b, i)
    <3>1. InstanceStep(b, i, "done") /\ pc[b][i] = "ready" /\ graph.type[b] = "input"
      BY <2>1, <2>2 DEF RunInput, InstanceStep
    <3>. QED  BY <1>5, <3>1 DEF Phases
  <2>3. CASE RenderData(b, i)
    <3>1. Render(graph.text[b]) \in Rendered
      BY DEF Render, RenderString, Rendered
    <3>2. InstanceStep(b, i, Render(graph.text[b])) /\ pc[b][i] = "ready"
      BY <2>1, <2>3, <3>1 DEF RenderData, InstanceStep, Rendered
    <3>. QED  BY <1>5, <3>1, <3>2 DEF Phases, Rendered
  <2>4. CASE Fail(b, i)
    <3>1. InstanceStep(b, i, "failed") /\ pc[b][i] \in Rendered \cup {"configure"}
      BY <2>1, <2>4 DEF Fail, InstanceStep
    <3>. QED  BY <1>5, <3>1 DEF Phases, Rendered
  <2>5. CASE Store(b, i)
    <3>. DEFINE x == IF graph.type[b] = "local" THEN "done" ELSE Kept[pc[b][i]]
    <3>1. pc[b][i] \in Rendered /\ graph.type[b] # "provider"
      BY <2>5 DEF Store
    <3>2. x \in Phases /\ x \notin {"failed", "configure"}
      BY <3>1, KeptIsKept DEF Phases
    <3>3. pc' = [pc EXCEPT ![b][i] = x]
      BY <2>5 DEF Store
    <3>. HIDE DEF x
    <3>4. InstanceStep(b, i, x)
      BY <2>1, <2>5, <3>2, <3>3 DEF Store, InstanceStep
    <3>. QED  BY <1>5, <3>1, <3>2, <3>4 DEF Rendered
  <2>6. CASE StoreEntry(b, i)
    <3>1. PICK t \in Rendered : pc[b][i] = Kept[t]
      BY <2>6 DEF StoreEntry
    <3>2. InstanceStep(b, i, "done")
      BY <2>1, <2>6 DEF StoreEntry, InstanceStep
    <3>3. graph.type[b] # "provider"
      BY <3>1 DEF BlockInv, InPlace, KeptAt, Stored
    <3>4. pc[b][i] \notin {"configure", "failed"}
      BY <3>1, KeptIsKept
    <3>. QED  BY <1>5, <3>2, <3>3, <3>4 DEF Phases
  <2>. QED  BY <1>6, <2>2, <2>3, <2>4, <2>5, <2>6
<1>7. CASE \E b \in Blocks : End(b)
  BY <1>3, <1>7 DEF End
<1>8. CASE Succeed \/ GiveUp \/ Cancel
  BY <1>3, <1>8 DEF Succeed, GiveUp, Cancel
<1>. QED  BY <1>4, <1>6, <1>7, <1>8 DEF RunBlock

LEMMA RunBlockStep ==
  ASSUME BlockInv, PhaseInv, RunBlock
  PROVE  PhaseInv'
<1>1. UNCHANGED <<graph, pkg, phase, todo, asking, running, instances>>
  BY DEF RunBlock, Start, End, RunInput, RenderData, Fail, Store, StoreEntry, Succeed, GiveUp, Cancel, providerVars
<1>2. walk' = walk \/ walk = "run"
  BY DEF RunBlock, Start, End, RunInput, RenderData, Fail, Store, StoreEntry, Succeed, GiveUp, Cancel
<1>3. ProviderTypeOK'
  BY <1>1 DEF PhaseInv, ProviderTypeOK
<1>4. PhaseGraph'
  BY <1>1, <1>2 DEF PhaseInv, PhaseGraph
<1>5. Processes'
  BY <1>1, RunBlockProcess DEF PhaseInv, Processes
<1>6. Ready'
  BY <1>1 DEF PhaseInv, Ready
<1>. QED  BY <1>3, <1>4, <1>5, <1>6 DEF PhaseInv

LEMMA StartInstanceStep ==
  ASSUME BlockInv, PhaseInv, NEW c \in Blocks, NEW i \in Instances(c), StartInstance(c, i)
  PROVE  PhaseInv'
<1>1. /\ graph.type[c] = "provider" /\ pc[c][i] \in Rendered
      /\ UNCHANGED <<graph, walk, pkg, phase, todo, asking, instances>>
      /\ running' = running \cup {c}
  BY DEF StartInstance, StartProvider
<1>2. /\ graph # pkg.graph
      /\ phase = "providers" \/ (phase = "failed" /\ graph = ProviderGraph(pkg) /\ walk = "failed")
  BY <1>1, ProviderPhase
<1>3. BlockTypeOK /\ errors \in BOOLEAN
  BY DEF BlockInv, BlockTypeOK
<1>4. InstanceStep(c, i, "configure")
  BY <1>3 DEF StartInstance, StartProvider, InstanceStep
<1>5. /\ \A b \in Blocks : Instances(b)' = Instances(b)
      /\ \A b \in Blocks : \A j \in Instances(b) :
           pc'[b][j] = IF b = c /\ j = i THEN "configure" ELSE pc[b][j]
  BY <1>3, <1>4, InstanceFrame DEF Phases
<1>6. RawOf[c] = c
  <2>1. c \in RawProviders(pkg)
    BY DEF StartInstance
  <2>2. PICK d \in Used(pkg) : c = RawOf[d]
    BY <2>1 DEF RawProviders
  <2>3. pkg \in Packages /\ pkg.graph \in Graphs
    BY PackageAssumption DEF PhaseInv, ProviderTypeOK
  <2>4. pkg.graph.blocks \subseteq Blocks /\ pkg.provider \in [Blocks -> Blocks]
    BY <2>3, BlockAssumption, PackageAssumption
  <2>5. d \in Blocks
    BY <2>2, <2>4 DEF Used
  <2>. QED  BY <2>2, <2>5, PackageAssumption
<1>7. ProviderTypeOK'
  BY <1>1 DEF PhaseInv, ProviderTypeOK
<1>8. PhaseGraph'
  BY <1>1, <1>2 DEF PhaseInv, PhaseGraph
<1>9. Processes'
  <2>. SUFFICES ASSUME phase = "providers", NEW b \in Blocks
                PROVE  ProcessOf(b)'
    BY <1>1 DEF Processes
  <2>1. ProcessOf(b)
    BY DEF PhaseInv, Processes
  <2>2. CASE b = c
    BY <1>1, <1>5, <1>6, <2>1, <2>2 DEF ProcessOf, Rendered
  <2>3. CASE b # c
    BY <1>1, <1>5, <2>1, <2>3 DEF ProcessOf
  <2>. QED  BY <2>2, <2>3
<1>10. Ready'
  BY <1>1, <1>2 DEF Ready
<1>. QED  BY <1>7, <1>8, <1>9, <1>10 DEF PhaseInv

LEMMA LoseInstanceStep ==
  ASSUME BlockInv, PhaseInv, NEW c \in Blocks, NEW i \in Instances(c), LoseInstance(c, i)
  PROVE  PhaseInv'
<1>1. /\ graph.type[c] = "provider" /\ pc[c][i] \in Rendered
      /\ UNCHANGED <<graph, walk, pkg, phase, todo, asking, instances>>
      /\ running' = running \cup {c}
  BY DEF LoseInstance, Fail
<1>2. /\ graph # pkg.graph
      /\ phase = "providers" \/ (phase = "failed" /\ graph = ProviderGraph(pkg) /\ walk = "failed")
  BY <1>1, ProviderPhase
<1>3. BlockTypeOK /\ errors \in BOOLEAN
  BY DEF BlockInv, BlockTypeOK
<1>4. InstanceStep(c, i, "failed")
  BY <1>3 DEF LoseInstance, Fail, InstanceStep
<1>5. /\ \A b \in Blocks : Instances(b)' = Instances(b)
      /\ \A b \in Blocks : \A j \in Instances(b) :
           pc'[b][j] = IF b = c /\ j = i THEN "failed" ELSE pc[b][j]
  BY <1>3, <1>4, InstanceFrame DEF Phases
<1>6. ProviderTypeOK'
  BY <1>1 DEF PhaseInv, ProviderTypeOK
<1>7. PhaseGraph'
  BY <1>1, <1>2 DEF PhaseInv, PhaseGraph
<1>8. Processes'
  <2>. SUFFICES ASSUME phase = "providers", NEW b \in Blocks
                PROVE  ProcessOf(b)'
    BY <1>1 DEF Processes
  <2>1. ProcessOf(b)
    BY DEF PhaseInv, Processes
  <2>2. CASE b = c
    BY <1>1, <1>5, <2>1, <2>2 DEF ProcessOf, Rendered
  <2>3. CASE b # c
    BY <1>1, <1>5, <2>1, <2>3 DEF ProcessOf
  <2>. QED  BY <2>2, <2>3
<1>9. Ready'
  BY <1>1, <1>2 DEF Ready
<1>. QED  BY <1>6, <1>7, <1>8, <1>9 DEF PhaseInv

LEMMA ConfigureInstanceStep ==
  ASSUME BlockInv, PhaseInv, NEW c \in Blocks, NEW i \in Instances(c), ConfigureInstance(c, i)
  PROVE  PhaseInv'
<1>1. /\ pc[c][i] = "configure"
      /\ UNCHANGED <<graph, walk, pkg, phase, todo, asking, running>>
      /\ instances' = instances \cup {c}
  BY DEF ConfigureInstance, Configure
<1>2. graph.type[c] = "provider"
  BY <1>1 DEF BlockInv, Flow, Providers
<1>3. phase = "providers" \/ (phase = "failed" /\ graph = ProviderGraph(pkg) /\ walk = "failed")
  BY <1>2, ProviderPhase
<1>4. BlockTypeOK /\ errors \in BOOLEAN
  BY DEF BlockInv, BlockTypeOK
<1>5. InstanceStep(c, i, "done")
  BY <1>4 DEF ConfigureInstance, Configure, InstanceStep
<1>6. /\ \A b \in Blocks : Instances(b)' = Instances(b)
      /\ \A b \in Blocks : \A j \in Instances(b) :
           pc'[b][j] = IF b = c /\ j = i THEN "done" ELSE pc[b][j]
  BY <1>4, <1>5, InstanceFrame DEF Phases
<1>7. ProviderTypeOK'
  BY <1>1 DEF PhaseInv, ProviderTypeOK
<1>8. PhaseGraph'
  BY <1>1 DEF PhaseInv, PhaseGraph
<1>9. Processes'
  <2>. SUFFICES ASSUME phase = "providers", NEW b \in Blocks
                PROVE  ProcessOf(b)'
    BY <1>1 DEF Processes
  <2>1. ProcessOf(b)
    BY DEF PhaseInv, Processes
  <2>2. CASE b = c
    BY <1>1, <1>2, <1>6, <2>1, <2>2 DEF ProcessOf
  <2>3. CASE b # c
    BY <1>1, <1>6, <2>1, <2>3 DEF ProcessOf
  <2>. QED  BY <2>2, <2>3
<1>10. Ready'
  BY <1>1, <1>3 DEF Ready
<1>. QED  BY <1>7, <1>8, <1>9, <1>10 DEF PhaseInv

LEMMA CallProviderStep ==
  ASSUME BlockInv, PhaseInv, NEW b \in Blocks, NEW i \in Instances(b), CallProvider(b, i)
  PROVE  PhaseInv'
<1>1. UNCHANGED <<graph, walk, pkg, phase, todo, asking, running, instances>>
  BY DEF CallProvider, Store, providerVars
<1>2. BlockTypeOK /\ errors \in BOOLEAN
  BY DEF BlockInv, BlockTypeOK
<1>3. graph.type[b] = "resource" /\ pc[b][i] \in Rendered /\ Kept[pc[b][i]] \in KeptPhases
  BY KeptIsKept DEF CallProvider, Store
<1>4. Kept[pc[b][i]] \in Phases /\ Kept[pc[b][i]] \notin {"configure", "done", "failed"}
  BY <1>3, KeptIsKept
<1>5. pc' = [pc EXCEPT ![b][i] = Kept[pc[b][i]]]
  BY <1>3 DEF CallProvider, Store
<1>6. InstanceStep(b, i, Kept[pc[b][i]])
  BY <1>1, <1>2, <1>4, <1>5 DEF CallProvider, Store, InstanceStep
<1>7. /\ \A c \in Blocks : Instances(c)' = Instances(c)
      /\ \A c \in Blocks : \A j \in Instances(c) :
           pc'[c][j] = IF c = b /\ j = i THEN Kept[pc[b][i]] ELSE pc[c][j]
  BY <1>2, <1>4, <1>6, InstanceFrame
<1>8. ProviderTypeOK' /\ PhaseGraph' /\ Ready'
  BY <1>1 DEF PhaseInv, ProviderTypeOK, PhaseGraph, Ready
<1>9. Processes'
  BY <1>1, <1>3, <1>4, <1>7 DEF PhaseInv, Processes, ProcessOf, Rendered
<1>. QED  BY <1>8, <1>9 DEF PhaseInv

\* When the execution of the provider graph has succeeded, the provider of every
\* resource the parser knows for one was started, configured and kept.
LEMMA ProvidersBecomeReady ==
  ASSUME BlockInv, PhaseInv, phase = "providers", walk = "ok"
  PROVE  /\ running \subseteq instances
         /\ \A c \in Used(pkg) : c \in instances \cap running /\ RawOf[c] = c
<1>1. pkg \in Packages /\ graph = ProviderGraph(pkg) /\ running \subseteq Blocks
  BY DEF PhaseInv, ProviderTypeOK, PhaseGraph
<1>2. BlockTypeOK /\ Flow
  BY DEF BlockInv
<1>3. \A c \in Blocks : ProcessOf(c)
  BY DEF PhaseInv, Processes
<1>4. running \subseteq instances
  <2>. SUFFICES ASSUME NEW c \in running, NEW i \in Instances(c), pc[c][i] \in {"configure", "failed"}
                PROVE  FALSE
    BY <1>1, <1>3 DEF ProcessOf
  <2>. QED  BY <1>1, <1>2, InstanceRuns
<1>5. Used(pkg) = UsedConfigs(pkg)
  <2>1. ~ConfigMissing(pkg)
    BY DEF PhaseInv, PhaseGraph, Refused
  <2>. QED  BY <2>1 DEF ConfigMissing, UsedConfigs
<1>6. ASSUME NEW c \in Used(pkg)
      PROVE  c \in instances \cap running /\ RawOf[c] = c
  <2>1. /\ c \in Blocks /\ c \in graph.blocks
        /\ graph.type[c] = "provider" /\ graph.loop[c] = "single"
    BY <1>1, <1>5, <1>6, PackageFacts
  <2>2. result[c] = "ok"
    BY <1>2, <2>1 DEF Flow, OkWalk
  <2>3. 1 \in Instances(c) /\ pc[c][1] = "done"
    BY <1>2, <2>1, <2>2 DEF Flow, Singles, DoneBlocks
  <2>. QED  BY <1>3, <2>1, <2>3 DEF ProcessOf
<1>. QED  BY <1>4, <1>6

\* The execution of the provider graph that ParseAndRun goes on from has succeeded.
LEMMA NoErrorMeansOk ==
  ASSUME BlockInv, walk \in Final, ~errors
  PROVE  walk = "ok"
  BY DEF BlockInv, Flow, FailedWalk, Final

LEMMA OkMeansNoError ==
  ASSUME BlockInv, walk = "ok"
  PROVE  ~errors
<1>1. \A b \in graph.blocks : b \in Blocks /\ result[b] = "ok"
  BY BlockAssumption DEF BlockInv, BlockTypeOK, Flow, OkWalk
<1>2. \A b \in graph.blocks : ~Faulty(b)
  BY <1>1 DEF BlockInv, Flow, DoneBlocks, Faulty
<1>. QED  BY <1>2 DEF BlockInv, Flow, ErrorsFrom

LEMMA PhaseStep ==
  ASSUME BlockInv, PhaseInv,
         \/ Parse \/ Answer \/ BeginProviders \/ FailProviders \/ BeginBlocks \/ EndBlocks
         \/ (\E r \in Blocks : Ask(r)) \/ UNCHANGED allVars
  PROVE  PhaseInv'
<1>1. ProviderTypeOK /\ PhaseGraph
  BY DEF PhaseInv
<1>2. CASE Parse
  <2>1. RawProviders(pkg) \subseteq Blocks
    <3>1. pkg.configs \subseteq Blocks
      BY <1>1, PackageAssumption DEF ProviderTypeOK
    <3>. QED  BY <3>1 DEF RawProviders
  <2>2. ProviderTypeOK'
    BY <1>1, <1>2, <2>1 DEF Parse, ProviderTypeOK
  <2>3. PhaseGraph'
    BY <1>1, <1>2 DEF Parse, PhaseGraph, blockVars
  <2>4. Processes' /\ Ready'
    BY <1>2 DEF Parse, Processes, Ready
  <2>. QED  BY <2>2, <2>3, <2>4 DEF PhaseInv
<1>3. CASE Answer \/ \E r \in Blocks : Ask(r)
  <2>1. phase = "ask" /\ phase' \in {"ask", "failed"} /\ UNCHANGED <<blockVars, pkg, instances>>
        /\ (phase' = "ask" => running' = running)
    BY <1>1, <1>3 DEF Answer, Ask, PhaseGraph
  <2>2. ProviderTypeOK'
    BY <1>1, <1>3, <2>1 DEF Answer, Ask, ProviderTypeOK
  <2>3. asking' # None => phase' = "ask" /\ asking' \in todo'
    BY <1>3, <2>1 DEF Answer, Ask
  <2>4. PhaseGraph'
    BY <1>1, <2>1, <2>3 DEF PhaseGraph, blockVars
  <2>5. Processes' /\ Ready'
    BY <2>1 DEF Processes, Ready
  <2>. QED  BY <2>2, <2>4, <2>5 DEF PhaseInv
<1>4. CASE BeginProviders
  <2>1. phase = "ask" /\ phase' = "providers" /\ graph' = ProviderGraph(pkg)
        /\ UNCHANGED <<pkg, todo, asking, running, instances>> /\ running = {}
    BY <1>1, <1>4 DEF BeginProviders, Begin, Reset, PhaseGraph
  <2>2. asking = None
    BY <1>1, <1>4 DEF BeginProviders, PhaseGraph
  <2>3. ProviderTypeOK' /\ PhaseGraph' /\ Ready'
    BY <1>1, <2>1, <2>2 DEF ProviderTypeOK, PhaseGraph, Ready
  <2>4. \A c \in Blocks : Instances(c)' = {}
    BY <1>4 DEF BeginProviders, Begin, Reset, Instances
  <2>5. Processes'
    BY <2>1, <2>4 DEF Processes, ProcessOf
  <2>. QED  BY <2>3, <2>5 DEF PhaseInv
<1>5. CASE FailProviders
  <2>1. walk = "failed"
    BY <1>5, OkMeansNoError DEF FailProviders, Final
  <2>2. ProviderTypeOK'
    BY <1>1, <1>5 DEF FailProviders, ProviderTypeOK
  <2>3. PhaseGraph'
    BY <1>1, <1>5, <2>1 DEF FailProviders, PhaseGraph, blockVars
  <2>4. Processes' /\ Ready'
    BY <1>5 DEF FailProviders, Processes, Ready
  <2>. QED  BY <2>2, <2>3, <2>4 DEF PhaseInv
<1>6. CASE BeginBlocks
  <2>1. walk = "ok" /\ phase = "providers" /\ phase' = "blocks" /\ graph' = pkg.graph
        /\ UNCHANGED <<pkg, todo, asking, running, instances>>
    BY <1>6, NoErrorMeansOk DEF BeginBlocks, Begin, Reset
  <2>2. ProviderTypeOK' /\ PhaseGraph' /\ Processes'
    BY <1>1, <2>1 DEF ProviderTypeOK, PhaseGraph, Processes
  <2>3. Used(pkg)' = Used(pkg)
    BY <2>1 DEF Used
  <2>4. Ready'
    BY <2>1, <2>3, ProvidersBecomeReady DEF Ready
  <2>. QED  BY <2>2, <2>4 DEF PhaseInv
<1>7. CASE EndBlocks
  <2>1. phase = "blocks" /\ running' = {} /\ UNCHANGED <<blockVars, pkg, todo, asking, instances>>
    BY <1>7 DEF EndBlocks, PhaseInv, Ready
  <2>2. phase' = "failed" \/ (phase' = "ok" /\ walk = "ok")
    BY <1>7, NoErrorMeansOk DEF EndBlocks
  <2>3. ProviderTypeOK' /\ PhaseGraph'
    BY <1>1, <2>1, <2>2 DEF ProviderTypeOK, PhaseGraph, blockVars
  <2>4. Processes' /\ Ready'
    BY <2>2 DEF Processes, Ready
  <2>. QED  BY <2>3, <2>4 DEF PhaseInv
<1>8. CASE UNCHANGED allVars
  <2>1. UNCHANGED <<graph, pc, walk, pkg, phase, todo, asking, running, instances>>
    BY <1>8 DEF allVars, blockVars, providerVars
  <2>. QED  BY <2>1 DEF PhaseInv, ProviderTypeOK, PhaseGraph, Processes, ProcessOf, Ready, Instances, Used
<1>. QED  BY <1>2, <1>3, <1>4, <1>5, <1>6, <1>7, <1>8
-----------------------------------------------------------------------------
(***************************************************************************)
(* Theorems                                                                *)
(***************************************************************************)
Inv == BlockInv /\ PhaseInv

LEMMA InitRun == Init => Inv
<1>. SUFFICES ASSUME Init PROVE PhaseInv
  BY InitIsBlockInit, InitBlock DEF Inv
<1>1. ProviderTypeOK /\ PhaseGraph
  BY DEF Init, BlockInit, ProviderTypeOK, PhaseGraph
<1>. QED  BY <1>1 DEF Init, PhaseInv, Processes, Ready

LEMMA NextRun == Inv /\ [Next]_allVars => Inv'
<1>. SUFFICES ASSUME BlockInv, PhaseInv, [Next]_allVars PROVE BlockInv' /\ PhaseInv'
  BY DEF Inv
<1>1. BlockInv'
  BY StepsAreBlockSteps, NextBlock DEF PhaseInv, ProviderTypeOK
<1>2. CASE RunBlock
  BY <1>1, <1>2, RunBlockStep
<1>3. CASE \E b \in Blocks : \E i \in Instances(b) :
             \/ StartInstance(b, i) \/ LoseInstance(b, i)
             \/ ConfigureInstance(b, i) \/ CallProvider(b, i)
  BY <1>1, <1>3, StartInstanceStep, LoseInstanceStep, ConfigureInstanceStep, CallProviderStep
<1>4. CASE \/ Parse \/ Answer \/ BeginProviders \/ FailProviders \/ BeginBlocks \/ EndBlocks
           \/ (\E r \in Blocks : Ask(r)) \/ UNCHANGED allVars
  BY <1>1, <1>4, PhaseStep
<1>. QED  BY <1>2, <1>3, <1>4 DEF Next

\* The invariant of ParseAndRun: what each phase knows of the graph, the blocks and
\* the processes.
THEOREM RunInvariant == Spec => []Inv
<1>. QED  BY InitRun, NextRun, PTL DEF Spec

\* The state of the two executions and of the processes is well formed.
THEOREM TypeCorrect == Spec => []TypeOK
<1>1. Inv => TypeOK
  BY DEF Inv, BlockInv, PhaseInv, ProviderTypeOK, TypeOK
<1>. QED  BY <1>1, RunInvariant, PTL

\* Every instance of a block leaves its own result at its own index, however many
\* there are and in whatever order they store theirs.
THEOREM EveryResultInPlace == Spec => []ResultsInPlace
<1>1. Inv => ResultsInPlace
  BY DEF Inv, BlockInv, InPlace, InPlaceAt, InVars, InEntries, ResultsInPlace
<1>. QED  BY <1>1, RunInvariant, PTL

\* The outputs of an execution that succeeds have no hole.
THEOREM WholeOutputs == Spec => []OutputsAreWhole
<1>1. Inv => OutputsAreWhole
  BY DEF Inv, BlockInv
<1>. QED  BY <1>1, RunInvariant, PTL

\* ParseAndRun succeeds only if every instance of every block did.
THEOREM SuccessMeansAll == Spec => []SuccessIsComplete
<1>1. Inv => SuccessIsComplete
  <2>. SUFFICES ASSUME Inv, phase = "ok", NEW b \in pkg.graph.blocks
                PROVE  result[b] = "ok" /\ \A i \in Instances(b) : pc[b][i] = "done"
    BY DEF SuccessIsComplete
  <2>1. graph = pkg.graph /\ walk = "ok"
    BY DEF Inv, PhaseInv, PhaseGraph
  <2>2. b \in Blocks
    BY <2>1, BlockAssumption DEF Inv, BlockInv, BlockTypeOK
  <2>. QED  BY <2>1, <2>2 DEF Inv, BlockInv, Flow, OkWalk, DoneBlocks
<1>. QED  BY <1>1, RunInvariant, PTL

\* No resource of a package that is executed finds its provider missing.
THEOREM ReadyProviders == Spec => []ProvidersAreReady
<1>1. Inv => ProvidersAreReady
  BY DEF Inv, PhaseInv, Ready, ProvidersAreReady
<1>. QED  BY <1>1, RunInvariant, PTL

\* ParseAndRun closes what it asked, and all providers of a package it has executed.
THEOREM ProvidersEnd == Spec => []ProcessesAreClosed
<1>1. Inv => ProcessesAreClosed
  BY DEF Inv, PhaseInv, PhaseGraph, Returned, ProcessesAreClosed
<1>. QED  BY <1>1, RunInvariant, PTL
=============================================================================
