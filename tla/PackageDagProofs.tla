--------------------------- MODULE PackageDagProofs ---------------------------
(***************************************************************************)
(* Proofs about PackageDag: whatever the package and the order of the maps *)
(* are, the reduction keeps the two maps of edges alike, leaves every      *)
(* vertex but the root something above it, and joins only vertices.  The   *)
(* invariant is DagInv; Cut is the only action that takes more than a look *)
(* at what it leaves alone.                                                *)
(***************************************************************************)
EXTENDS PackageDag, SequenceTheorems, TLAPS

USE DEF Ungenerated

\* The parts of DagInv that speak of the edges, the dependencies and the phase.
EdgeInv ==
  /\ DepsNamed
  /\ NoEdgeYet
  /\ EdgesMirrored
  /\ KeepsUpstream
  /\ EdgesJoinVertices

\* What the calls of trwalk can hold.
Calls == [vertex : Names, below : SUBSET Names]

\* The invariant holds when the parser starts.
LEMMA InitDag == Init => DagInv
<1> SUFFICES ASSUME Init PROVE DagInv
  OBVIOUS
<1>1. TypeOK
  BY PackageAssumption DEF Init, TypeOK, Names
<1>2. EdgeInv
  BY DEF Init, EdgeInv, DepsNamed, NoEdgeYet, EdgesMirrored, KeepsUpstream, EdgesJoinVertices
<1>3. CallsInWalk
  BY DEF Init, CallsInWalk
<1> QED
  BY <1>1, <1>2, <1>3 DEF DagInv, EdgeInv

\* Cut takes edges from both maps alike, and leaves those from the deepest vertex.
LEMMA CutKeeps ==
  ASSUME NEW v \in Names, TypeOK, EdgesMirrored, Cut(v)
  PROVE  /\ down' \in [Names -> SUBSET Names]
         /\ up' \in [Names -> SUBSET Names]
         /\ \A n \in Names : up'[n] \subseteq up[n]
         /\ \A n \in Names : up[n] # {} => up'[n] # {}
         /\ EdgesMirrored'
<1> PICK best \in {0} \cup {depth[u] : u \in up[v]} :
      LET gone == {u \in up[v] : depth[u] # 0 /\ depth[u] # best}
      IN  /\ \A u \in up[v] : depth[u] <= best
          /\ up' = [up EXCEPT ![v] = @ \ gone]
          /\ down' = [u \in Names |-> IF u \in gone THEN down[u] \ {v} ELSE down[u]]
  BY DEF Cut
<1> DEFINE gone == {u \in up[v] : depth[u] # 0 /\ depth[u] # best}
<1> HIDE DEF gone
<1>1. /\ up' = [up EXCEPT ![v] = @ \ gone]
      /\ down' = [u \in Names |-> IF u \in gone THEN down[u] \ {v} ELSE down[u]]
  BY DEF gone
<1>2. /\ down \in [Names -> SUBSET Names]
      /\ up \in [Names -> SUBSET Names]
      /\ \A u \in Names : depth[u] \in Nat
  BY DEF TypeOK
<1>3. up'[v] = up[v] \ gone /\ \A n \in Names : n # v => up'[n] = up[n]
  BY <1>1, <1>2
<1>4. \A n \in Names : down'[n] = IF n \in gone THEN down[n] \ {v} ELSE down[n]
  BY <1>1
<1>5. up[v] # {} => up'[v] # {}
  <2> SUFFICES ASSUME NEW u \in up[v] PROVE \E w \in up[v] : w \notin gone
    BY <1>3
  <2>1. CASE best = 0
    BY <2>1, <1>2 DEF gone
  <2>2. CASE best # 0
    BY <2>2 DEF gone
  <2> QED
    BY <2>1, <2>2
<1>6. EdgesMirrored'
  <2> SUFFICES ASSUME NEW u \in Names, NEW w \in Names PROVE w \in down'[u] <=> u \in up'[w]
    BY DEF EdgesMirrored
  <2>1. w \in down[u] <=> u \in up[w]
    BY DEF EdgesMirrored
  <2>2. u \in up'[w] <=> u \in up[w] /\ ~(w = v /\ u \in gone)
    BY <1>3
  <2>3. w \in down'[u] <=> w \in down[u] /\ ~(w = v /\ u \in gone)
    BY <1>4
  <2> QED
    BY <2>1, <2>2, <2>3
<1>7. /\ down' \in [Names -> SUBSET Names]
      /\ up' \in [Names -> SUBSET Names]
  BY <1>1, <1>2
<1> QED
  BY <1>3, <1>5, <1>6, <1>7

\* A step that only takes edges away, and never the last one above a vertex,
\* keeps what is said of the edges.
LEMMA FewerEdges ==
  ASSUME TypeOK, EdgeInv, EdgesMirrored',
         UNCHANGED <<mentions, provider, deps>>,
         phase \notin Ungenerated, phase' \notin Ungenerated,
         \A n \in Names : up'[n] \subseteq up[n],
         \A n \in Names : up[n] # {} => up'[n] # {}
  PROVE  EdgeInv'
<1>1. DepsNamed' /\ NoEdgeYet'
  BY DEF EdgeInv, DepsNamed, Dependencies, Accepted, NoEdgeYet
<1>2. Vertices' = Vertices /\ NamesVertices' = NamesVertices /\ Vertices \subseteq Names
  BY DEF Vertices, NamesVertices, Names, Listed
<1>3. KeepsUpstream'
  BY <1>2 DEF EdgeInv, KeepsUpstream
<1>4. EdgesJoinVertices'
  <2> SUFFICES ASSUME NamesVertices, NEW u \in Names, NEW v \in Names, u \in up'[v]
               PROVE  u \in Vertices /\ v \in Vertices \ {Root}
    BY <1>2 DEF EdgesJoinVertices
  <2> QED
    BY DEF EdgeInv, EdgesJoinVertices
<1> QED
  BY <1>1, <1>3, <1>4 DEF EdgeInv

\* AddDependencies keeps the invariant.
LEMMA AddDependenciesDag ==
  ASSUME DagInv, AddDependencies PROVE DagInv'
<1>1. \A n \in Names : deps'[n] = IF n \in Blocks THEN Dependencies(n) ELSE {}
  BY DEF AddDependencies
<1>2. TypeOK'
  BY DEF DagInv, TypeOK, AddDependencies, Dependencies, edges, walk
<1>3. DepsNamed'
  BY <1>1 DEF AddDependencies, DepsNamed, Dependencies, Accepted
<1>4. NoEdgeYet' /\ EdgesMirrored' /\ KeepsUpstream'
  BY DEF DagInv, AddDependencies, NoEdgeYet, EdgesMirrored, KeepsUpstream, edges
<1>5. EdgesJoinVertices'
  BY DEF DagInv, AddDependencies, NoEdgeYet, EdgesJoinVertices, edges
<1>6. CallsInWalk'
  BY DEF DagInv, AddDependencies, CallsInWalk, walk
<1> QED
  BY <1>2, <1>3, <1>4, <1>5, <1>6 DEF DagInv

\* Resolve keeps the invariant: what is not a block does not get past it.
LEMMA ResolveDag ==
  ASSUME DagInv, Resolve PROVE DagInv'
<1>1. TypeOK'
  BY DEF DagInv, TypeOK, Resolve, edges, walk
<1>2. DepsNamed'
  <2>1. ASSUME NEW n \in Names, phase' = "generate" PROVE deps[n] \subseteq Accepted(n)
    BY <2>1 DEF Resolve
  <2> QED
    BY <2>1 DEF DagInv, DepsNamed, Dependencies, Accepted, Resolve
<1>3. NoEdgeYet' /\ EdgesMirrored' /\ KeepsUpstream' /\ EdgesJoinVertices'
  BY DEF DagInv, Resolve, NoEdgeYet, EdgesMirrored, KeepsUpstream, EdgesJoinVertices, edges
<1>4. CallsInWalk'
  BY DEF DagInv, Resolve, CallsInWalk, walk
<1> QED
  BY <1>1, <1>2, <1>3, <1>4 DEF DagInv

\* GenerateDAG establishes what is said of the edges.
LEMMA GenerateDag ==
  ASSUME DagInv, GenerateDAG PROVE DagInv'
<1>1. /\ Vertices' = Vertices /\ Vertices \subseteq Names /\ Root \in Vertices
      /\ NamesVertices' = NamesVertices
  BY DEF GenerateDAG, Vertices, NamesVertices, Names, Listed
<1>2. \A n \in Names : deps[n] \subseteq Accepted(n) /\ Accepted(n) \subseteq Names
  BY PackageAssumption DEF DagInv, DepsNamed, GenerateDAG, Accepted, Names
<1>3. \A n \in Names : Upstream(n) \subseteq Names
  BY <1>1, <1>2 DEF Upstream
<1>4. /\ \A n \in Names : up'[n] = Upstream(n)
      /\ \A m \in Names : down'[m] = {n \in Names : m \in Upstream(n)}
  BY DEF GenerateDAG
<1>5. TypeOK'
  <2>1. up' \in [Names -> SUBSET Names] /\ down' \in [Names -> SUBSET Names]
    BY <1>3 DEF GenerateDAG
  <2> QED
    BY <2>1, <1>1 DEF DagInv, TypeOK, GenerateDAG
<1>6. DepsNamed' /\ NoEdgeYet'
  BY DEF DagInv, GenerateDAG, DepsNamed, Dependencies, Accepted, NoEdgeYet
<1>7. EdgesMirrored'
  BY <1>4 DEF EdgesMirrored
<1>8. KeepsUpstream'
  BY <1>1, <1>4 DEF KeepsUpstream, Upstream
<1>9. EdgesJoinVertices'
  <2> SUFFICES ASSUME NamesVertices, NEW u \in Names, NEW v \in Names, u \in Upstream(v)
               PROVE  u \in Vertices /\ v \in Vertices \ {Root}
    BY <1>1, <1>4 DEF EdgesJoinVertices
  <2>1. v \in Vertices \ {Root}
    BY DEF Upstream
  <2>2. CASE deps[v] = {}
    BY <2>1, <2>2, <1>1 DEF Upstream
  <2>3. CASE deps[v] # {}
    <3>1. u \in Dependencies(v) /\ u \in Accepted(v) /\ v \in Blocks
      BY <1>2, <2>1, <2>3 DEF Upstream, DagInv, DepsNamed
    <3>2. u \in Inputs \cup Blocks
      BY <3>1, PackageAssumption DEF NamesVertices, Dependencies, Accepted, Listed
    <3>3. v \notin Inputs /\ v \notin Configs
      BY <3>1, PackageAssumption
    <3>4. u \in Vertices
      BY <3>2, <3>3, <2>1 DEF Vertices
    <3> QED
      BY <2>1, <3>4
  <2> QED
    BY <2>2, <2>3
<1>10. CallsInWalk'
  BY DEF DagInv, GenerateDAG, CallsInWalk
<1> QED
  BY <1>5, <1>6, <1>7, <1>8, <1>9, <1>10 DEF DagInv

\* A step that leaves the edges alone keeps what is said of them.
LEMMA SameEdges ==
  ASSUME TypeOK, EdgeInv, UNCHANGED <<mentions, provider, deps, edges>>,
         phase \notin Ungenerated, phase' \notin Ungenerated
  PROVE  EdgeInv'
<1>1. EdgesMirrored' /\ up' = up /\ UNCHANGED <<mentions, provider, deps>>
  BY DEF EdgeInv, EdgesMirrored, edges
<1> QED
  BY <1>1, FewerEdges

\* What is on the stack while there is one.
LEMMA StackTop ==
  ASSUME TypeOK, stack # << >>
  PROVE  /\ Len(stack) \in Nat \ {0}
         /\ Top \in Calls
         /\ stack \in Seq(Calls)
<1>1. stack \in Seq(Calls)
  BY DEF TypeOK, Calls
<1> HIDE DEF Calls
<1>2. Len(stack) \in Nat /\ Len(stack) # 0
  BY <1>1
<1>3. stack[Len(stack)] \in Calls
  BY <1>1, <1>2
<1> QED
  BY <1>1, <1>2, <1>3 DEF Top

\* StartFrom keeps the invariant.
LEMMA StartFromDag ==
  ASSUME DagInv, NEW v \in Names, StartFrom(v) PROVE DagInv'
<1>1. TypeOK'
  <2>1. Call(v, down[v]) \in Calls
    BY DEF DagInv, TypeOK, Call, Calls
  <2>2. stack' \in Seq(Calls)
    BY <2>1 DEF StartFrom
  <2>3. depth' \in [Names -> 0 .. MaxDepth]
    BY PackageAssumption DEF StartFrom
  <2> QED
    BY <2>2, <2>3 DEF DagInv, TypeOK, StartFrom, edges, Calls
<1>2. EdgeInv'
  <2>1. TypeOK /\ EdgeInv
    BY DEF DagInv, EdgeInv
  <2> QED
    BY <2>1, SameEdges DEF StartFrom
<1>3. CallsInWalk'
  BY DEF StartFrom, CallsInWalk
<1> QED
  BY <1>1, <1>2, <1>3 DEF DagInv, EdgeInv

\* Descend keeps the invariant: in the second walk because Cut does.
LEMMA DescendDag ==
  ASSUME DagInv, NEW w \in Names, Descend(w) PROVE DagInv'
<1>1. TypeOK /\ EdgeInv
  BY DEF DagInv, EdgeInv
<1>2. /\ down' \in [Names -> SUBSET Names]
      /\ up' \in [Names -> SUBSET Names]
      /\ EdgeInv'
  <2>1. CASE Cut(w)
    BY <2>1, <1>1, CutKeeps, FewerEdges DEF Descend, EdgeInv
  <2>2. CASE UNCHANGED edges
    BY <2>2, <1>1, SameEdges DEF Descend, TypeOK, edges
  <2> QED
    BY <2>1, <2>2 DEF Descend
<1>3. depth' \in [Names -> 0 .. MaxDepth]
  <2>1. Len(stack) + 1 \in 0 .. MaxDepth
    BY <1>1, StackTop, PackageAssumption DEF Descend
  <2>2. CASE depth' = [depth EXCEPT ![w] = Len(stack) + 1]
    BY <2>1, <2>2, <1>1 DEF TypeOK
  <2>3. CASE UNCHANGED depth
    BY <2>3, <1>1 DEF TypeOK
  <2> QED
    BY <2>2, <2>3 DEF Descend
<1>4. stack' \in Seq(Calls)
  <2>1. Len(stack) \in 1 .. Len(stack) /\ stack \in Seq(Calls) /\ Top \in Calls
    BY <1>1, StackTop DEF Descend
  <2> DEFINE top == [Top EXCEPT !.below = @ \ {w}]
  <2>2. top \in Calls
    BY <2>1 DEF Calls
  <2>3. [stack EXCEPT ![Len(stack)].below = @ \ {w}] = [stack EXCEPT ![Len(stack)] = top]
    BY DEF Top
  <2> HIDE DEF top
  <2>4. [stack EXCEPT ![Len(stack)].below = @ \ {w}] \in Seq(Calls)
    <3>1. [stack EXCEPT ![Len(stack)] = top] \in Seq(Calls)
      BY <2>1, <2>2, ExceptSeq
    <3> QED
      BY <3>1, <2>3
  <2>5. Call(w, down'[w]) \in Calls
    BY <1>2 DEF Call, Calls
  <2> QED
    BY <2>4, <2>5 DEF Descend
<1>5. TypeOK'
  BY <1>1, <1>2, <1>3, <1>4 DEF TypeOK, Descend, Calls
<1>6. CallsInWalk'
  BY DEF Descend, CallsInWalk
<1> QED
  BY <1>2, <1>5, <1>6 DEF DagInv, EdgeInv

\* The actions that only move the walk keep the invariant.
LEMMA WalkMovesDag ==
  ASSUME DagInv, Overflow \/ Return \/ EndCuts \/ EndReduction PROVE DagInv'
<1>1. TypeOK /\ EdgeInv /\ CallsInWalk
  BY DEF DagInv, EdgeInv
<1>2. /\ UNCHANGED <<mentions, provider, deps, edges>>
      /\ phase \notin Ungenerated /\ phase' \notin Ungenerated
  BY <1>1 DEF CallsInWalk, Overflow, Return, EndCuts, EndReduction
<1>3. stack' \in Seq(Calls)
  <2>1. stack \in Seq(Calls)
    BY <1>1 DEF TypeOK, Calls
  <2>2. CASE Return
    <3>1. Len(stack) - 1 \in Int /\ 1 \in Int
      BY <2>1
    <3>2. \A k \in 1 .. Len(stack) - 1 : stack[k] \in Calls
      BY <2>1, <3>1
    <3>3. SubSeq(stack, 1, Len(stack) - 1) \in Seq(Calls)
      BY <3>1, <3>2, SubSeqProperties
    <3> QED
      BY <2>2, <3>3 DEF Return
  <2>3. CASE Overflow \/ EndCuts
    BY <2>3, EmptySeq DEF Overflow, EndCuts
  <2>4. CASE EndReduction
    BY <2>1, <2>4 DEF EndReduction, walk
  <2> QED
    BY <2>2, <2>3, <2>4
<1>4. TypeOK'
  BY <1>1, <1>2, <1>3 DEF TypeOK, Overflow, Return, EndCuts, EndReduction, edges, walk, Calls
<1>5. EdgeInv'
  BY <1>1, <1>2, SameEdges
<1>6. CallsInWalk'
  BY <1>1 DEF CallsInWalk, Overflow, Return, EndCuts, EndReduction, walk
<1> QED
  BY <1>4, <1>5, <1>6 DEF DagInv, EdgeInv

\* StartCuts keeps the invariant, because Cut does.
LEMMA StartCutsDag ==
  ASSUME DagInv, StartCuts PROVE DagInv'
<1>1. TypeOK /\ EdgeInv /\ stack # << >>
  <2>1. Len(stack) # 0
    BY DEF StartCuts
  <2> QED
    BY <2>1 DEF DagInv, EdgeInv
<1>2. Top \in Calls /\ Top.vertex \in Names
  BY <1>1, StackTop DEF Calls
<1>3. /\ down' \in [Names -> SUBSET Names]
      /\ up' \in [Names -> SUBSET Names]
      /\ EdgeInv'
  BY <1>1, <1>2, CutKeeps, FewerEdges DEF StartCuts, EdgeInv
<1>4. stack' \in Seq(Calls)
  <2>1. Call(Top.vertex, down'[Top.vertex]) \in Calls
    BY <1>2, <1>3 DEF Call, Calls
  <2> QED
    BY <2>1 DEF StartCuts
<1>5. TypeOK'
  BY <1>1, <1>3, <1>4 DEF TypeOK, StartCuts, Calls
<1>6. CallsInWalk'
  BY DEF StartCuts, CallsInWalk
<1> QED
  BY <1>3, <1>5, <1>6 DEF DagInv, EdgeInv

\* DagInv is an invariant: of the parser on any package, for any order of the maps.
THEOREM DagInvariant == Spec => []DagInv
<1>1. DagInv /\ [Next]_vars => DagInv'
  <2> SUFFICES ASSUME DagInv, [Next]_vars PROVE DagInv'
    OBVIOUS
  <2>1. CASE AddDependencies
    BY <2>1, AddDependenciesDag
  <2>2. CASE Resolve
    BY <2>2, ResolveDag
  <2>3. CASE GenerateDAG
    BY <2>3, GenerateDag
  <2>4. CASE \E v \in Names : StartFrom(v)
    BY <2>4, StartFromDag
  <2>5. CASE \E w \in Names : Descend(w)
    BY <2>5, DescendDag
  <2>6. CASE Overflow \/ Return \/ EndCuts \/ EndReduction
    BY <2>6, WalkMovesDag
  <2>7. CASE StartCuts
    BY <2>7, StartCutsDag
  <2>8. CASE UNCHANGED vars
    BY <2>8 DEF DagInv, TypeOK, CallsInWalk, DepsNamed, Dependencies, Accepted, NoEdgeYet, EdgesMirrored,
         KeepsUpstream, EdgesJoinVertices, Vertices, NamesVertices, vars, edges, walk
  <2> QED
    BY <2>1, <2>2, <2>3, <2>4, <2>5, <2>6, <2>7, <2>8 DEF Next
<1> QED
  BY InitDag, <1>1, PTL DEF Spec

\* The two maps of edges always hold the same edges.
THEOREM MapsMirrored == Spec => []EdgesMirrored
<1>1. DagInv => EdgesMirrored
  BY DEF DagInv
<1> QED
  BY <1>1, DagInvariant, PTL

\* The reduction never takes away all that is above a vertex.
THEOREM UpstreamKept == Spec => []KeepsUpstream
<1>1. DagInv => KeepsUpstream
  BY DEF DagInv
<1> QED
  BY <1>1, DagInvariant, PTL

\* When blocks name only vertices of the graph, no edge has an end that is not a vertex of
\* the graph and none leads to the root: what DagExecutor assumes of a graph.
THEOREM EdgesWellFormed == Spec => []EdgesJoinVertices
<1>1. DagInv => EdgesJoinVertices
  BY DEF DagInv
<1> QED
  BY <1>1, DagInvariant, PTL
===============================================================================
