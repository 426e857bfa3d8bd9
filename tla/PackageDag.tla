------------------------------ MODULE PackageDag ------------------------------
(***************************************************************************)
(* How the parser turns the blocks of a package into the graph that the    *)
(* executor walks: Package.AddDependencies and GenerateDAG of              *)
(* pkg/syntax/types, and the transitive reduction of pkg/dag/tr.go.        *)
(*                                                                         *)
(* A package gives two graphs, the one of its blocks and the one of its    *)
(* provider configs.  The reduction walks the graph twice from every       *)
(* vertex, in the random order of a Go map: the first walk records at what *)
(* depth it met each vertex last, the second cuts the edges into a vertex  *)
(* that do not come from the deepest vertex above it.  Each call of the    *)
(* recursive trwalk is a frame of the stack.  Nothing runs concurrently:   *)
(* what is nondeterministic is the order of the maps.                      *)
(***************************************************************************)
EXTENDS Naturals, FiniteSets, Sequences

CONSTANTS Root,      \* the name of the vertex that every walk starts from
          Inputs,    \* the blocks with a name that begins with input
          Blocks,    \* the resource, data, list, local, output and package blocks
          Orphans,   \* the blocks with a lifecycle annotation, never in a graph
          Lookalikes,\* the orphans whose name has that of a listed block in it
          Backends,  \* the backend block, never in a graph either
          Configs,   \* the provider configs that a resource uses
          Strays,    \* parts of a depends-on that are no name but have a listed one in them
          Loops,     \* the strays that begin with each. or count.
          Looped,    \* the blocks with the attribute, for_each or count, that Loops need
          Mentions,  \* what a package can be: who names whom in its data
          MaxDepth   \* the calls of trwalk that fit on the stack

Listed == Inputs \cup Blocks \cup Backends   \* Package.ListBlocks
Names == {Root} \cup Listed \cup Orphans \cup Configs \cup Strays

\* A block name holds a dot, the name of the root vertex does not; the type is a
\* part of a block's name, and provider configs are in a store of their own.
ASSUME PackageAssumption ==
  /\ Root \notin Listed \cup Orphans \cup Configs \cup Strays
  /\ Listed \cap Orphans = {}
  /\ (Listed \cup Orphans) \cap Strays = {}
  /\ Lookalikes \subseteq Orphans
  /\ Loops \subseteq Strays
  /\ Blocks \cap (Inputs \cup Configs) = {}
  /\ Mentions \subseteq [Names -> SUBSET (Listed \cup Orphans \cup Strays)]
  /\ MaxDepth \in Nat \ {0}

VARIABLES mentions,  \* the blocks that the data of a block name, the parts of its depends-on
          provider,  \* which of the two graphs is generated
          deps,      \* the dependencies of a block (block.dependencies)
          down, up,  \* dag.downEdges and dag.upEdges
          phase,     \* where the parser is
          todo,      \* the vertices TransitiveReduction has still to start from
          depth,     \* dag.vertexDepth; 0 for a vertex that is not in the map
          stack      \* the calls of trwalk, each with the vertices it has to visit

edges == <<down, up>>
walk == <<todo, depth, stack>>
vars == <<mentions, provider, deps, edges, phase, walk>>

Vertices == {Root} \cup Inputs \cup (IF provider THEN Configs ELSE Blocks)
-----------------------------------------------------------------------------
Init ==
  /\ mentions \in Mentions
  /\ provider \in BOOLEAN
  /\ deps = [n \in Names |-> {}]
  /\ down = [n \in Names |-> {}]
  /\ up = [n \in Names |-> {}]
  /\ phase = "parse"
  /\ todo = {}
  /\ depth = [n \in Names |-> 0]
  /\ stack = << >>

\* Mutant: a block can depend on an orphan.
AddDependenciesOrphans ==
  /\ phase = "parse"
  /\ deps' = [n \in Names |-> IF n \in Blocks THEN mentions[n] ELSE {}]
  /\ phase' = "resolve"
  /\ UNCHANGED <<mentions, provider, edges, walk>>

\* RenderString inserts the listed blocks that the data name; ResolveDependsOn
\* drops a part with no name of one in it and inserts the rest as it is written.
Dependencies(n) == mentions[n] \cap (Listed \cup Lookalikes \cup Strays)

\* Inputs have no dependencies, and provider configs, which are not among the
\* blocks of the package, are not looked at.
AddDependencies ==
  /\ phase = "parse"
  /\ deps' = [n \in Names |-> IF n \in Blocks THEN Dependencies(n) ELSE {}]
  /\ phase' = "resolve"
  /\ UNCHANGED <<mentions, provider, edges, walk>>

\* Mutant: what is not found is not recorded.
ResolveAny ==
  /\ phase = "resolve"
  /\ phase' = "generate"
  /\ UNCHANGED <<mentions, provider, deps, edges, walk>>

\* What a dependency may be: a block of the package, orphan or not, or a variable
\* of the loop of the block.
Accepted(n) == Listed \cup Orphans \cup (IF n \in Looped THEN Loops ELSE {})

\* ResolveDAGDependencies
Resolve ==
  /\ phase = "resolve"
  /\ phase' = IF \A n \in Names : deps[n] \subseteq Accepted(n)
              THEN "generate" ELSE "refused"
  /\ UNCHANGED <<mentions, provider, deps, edges, walk>>

\* Mutant: only inputs hang from the root.
UpstreamInputs(n) ==
  IF n \in Inputs THEN {Root} ELSE IF n \in Vertices THEN deps[n] ELSE {}

\* What a vertex is connected below: its dependencies, or else the root.
Upstream(n) ==
  IF n \notin Vertices \ {Root} THEN {}
  ELSE IF deps[n] = {} THEN {Root} ELSE deps[n]

GenerateDAG ==
  /\ phase = "generate"
  /\ up' = [n \in Names |-> Upstream(n)]
  /\ down' = [m \in Names |-> {n \in Names : m \in Upstream(n)}]
  /\ todo' = Vertices
  /\ phase' = "reduce"
  /\ UNCHANGED <<mentions, provider, deps, depth, stack>>

(***************************************************************************)
(* TransitiveReduction                                                     *)
(***************************************************************************)
\* Mutant: Disconnect hands its arguments to DeleteUpEdge in the order of the
\* edge, for which upEdges has no entry.
CutDownOnly(v) ==
  \E best \in {0} \cup {depth[u] : u \in up[v]} :
    /\ \A u \in up[v] : depth[u] <= best
    /\ down' = [u \in Names |-> IF u \in up[v] /\ depth[u] \notin {0, best}
                                THEN down[u] \ {v} ELSE down[u]]
    /\ UNCHANGED up

\* processTransitiveReducation: an edge into v is cut when it comes from a vertex
\* of this walk that is not as deep as the deepest one above v.
Cut(v) ==
  \E best \in {0} \cup {depth[u] : u \in up[v]} :
    LET gone == {u \in up[v] : depth[u] # 0 /\ depth[u] # best}
    IN  /\ \A u \in up[v] : depth[u] <= best
        /\ up' = [up EXCEPT ![v] = @ \ gone]
        /\ down' = [u \in Names |-> IF u \in gone THEN down[u] \ {v} ELSE down[u]]

Call(v, below) == [vertex |-> v, below |-> below]
Top == stack[Len(stack)]

\* Mutant: the depth of the first vertex is the one that stands for no depth.
StartFromZero(v) ==
  /\ phase = "reduce"
  /\ v \in todo
  /\ todo' = todo \ {v}
  /\ depth' = [n \in Names |-> 0]
  /\ stack' = <<Call(v, down[v])>>
  /\ phase' = "depths"
  /\ UNCHANGED <<mentions, provider, deps, edges>>

StartFrom(v) ==
  /\ phase = "reduce"
  /\ v \in todo
  /\ todo' = todo \ {v}
  /\ depth' = [n \in Names |-> IF n = v THEN 1 ELSE 0]
  /\ stack' = <<Call(v, down[v])>>
  /\ phase' = "depths"
  /\ UNCHANGED <<mentions, provider, deps, edges>>

\* Mutant: a vertex that is being walked is not walked again.
DescendGuarded(w) ==
  /\ stack # << >> /\ w \in Top.below
  /\ Len(stack) < MaxDepth
  /\ \/ /\ phase = "depths"
        /\ depth' = [depth EXCEPT ![w] = Len(stack) + 1]
        /\ UNCHANGED edges
     \/ /\ phase = "cuts"
        /\ Cut(w)
        /\ UNCHANGED depth
  /\ stack' = Append([stack EXCEPT ![Len(stack)].below = @ \ {w}],
                     Call(w, {v \in down'[w] : \A k \in 1 .. Len(stack) : stack[k].vertex # w}))
  /\ UNCHANGED <<mentions, provider, deps, phase, todo>>

\* Mutant: the vertices below are those of the caller.
DescendCaller(w) ==
  /\ stack # << >> /\ w \in Top.below
  /\ Len(stack) < MaxDepth
  /\ \/ /\ phase = "depths"
        /\ depth' = [depth EXCEPT ![w] = Len(stack) + 1]
        /\ UNCHANGED edges
     \/ /\ phase = "cuts"
        /\ Cut(w)
        /\ UNCHANGED depth
  /\ stack' = Append([stack EXCEPT ![Len(stack)].below = @ \ {w}], Call(w, down'[Top.vertex]))
  /\ UNCHANGED <<mentions, provider, deps, phase, todo>>

\* Mutant: the call of trwalk does not leave the vertex behind.
DescendAgain(w) ==
  /\ stack # << >> /\ w \in Top.below
  /\ Len(stack) < MaxDepth
  /\ \/ /\ phase = "depths"
        /\ depth' = [depth EXCEPT ![w] = Len(stack) + 1]
        /\ UNCHANGED edges
     \/ /\ phase = "cuts"
        /\ Cut(w)
        /\ UNCHANGED depth
  /\ stack' = Append(stack, Call(w, down'[w]))
  /\ UNCHANGED <<mentions, provider, deps, phase, todo>>

\* trwalk calls itself for any vertex below; the entry function comes first.
Descend(w) ==
  /\ stack # << >> /\ w \in Top.below
  /\ Len(stack) < MaxDepth
  /\ \/ /\ phase = "depths"
        /\ depth' = [depth EXCEPT ![w] = Len(stack) + 1]
        /\ UNCHANGED edges
     \/ /\ phase = "cuts"
        /\ Cut(w)
        /\ UNCHANGED depth
  /\ stack' = Append([stack EXCEPT ![Len(stack)].below = @ \ {w}], Call(w, down'[w]))
  /\ UNCHANGED <<mentions, provider, deps, phase, todo>>

\* A goroutine whose stack is full ends the program.
Overflow ==
  /\ stack # << >> /\ Top.below # {}
  /\ Len(stack) = MaxDepth
  /\ phase' = "overflow"
  /\ stack' = << >>
  /\ UNCHANGED <<mentions, provider, deps, edges, todo, depth>>

Return ==
  /\ Len(stack) > 1 /\ Top.below = {}
  /\ stack' = SubSeq(stack, 1, Len(stack) - 1)
  /\ UNCHANGED <<mentions, provider, deps, edges, phase, todo, depth>>

\* The first walk is over; the second begins with the same vertex.
StartCuts ==
  /\ phase = "depths"
  /\ Len(stack) = 1 /\ Top.below = {}
  /\ Cut(Top.vertex)
  /\ stack' = <<Call(Top.vertex, down'[Top.vertex])>>
  /\ phase' = "cuts"
  /\ UNCHANGED <<mentions, provider, deps, todo, depth>>

EndCuts ==
  /\ phase = "cuts"
  /\ Len(stack) = 1 /\ Top.below = {}
  /\ stack' = << >>
  /\ phase' = "reduce"
  /\ UNCHANGED <<mentions, provider, deps, edges, todo, depth>>

EndReduction ==
  /\ phase = "reduce"
  /\ todo = {}
  /\ phase' = "done"
  /\ UNCHANGED <<mentions, provider, deps, edges, walk>>
-----------------------------------------------------------------------------
Next ==
  \/ AddDependencies
  \/ Resolve
  \/ GenerateDAG
  \/ \E v \in Names : StartFrom(v)
  \/ \E w \in Names : Descend(w)
  \/ Overflow
  \/ Return
  \/ StartCuts
  \/ EndCuts
  \/ EndReduction

Spec == Init /\ [][Next]_vars

\* One goroutine that waits for nothing: it goes on until it is done.
FairSpec == Spec /\ WF_vars(Next)
-----------------------------------------------------------------------------
(***************************************************************************)
(* Properties                                                              *)
(***************************************************************************)
\* The names that a path of at least one edge leads to from m: they are in every
\* set that holds what is right below m or below a member of the set.
Below(above, m) ==
  LET Closed == {S \in SUBSET Names : \A n \in Names : above[n] \cap (S \cup {m}) # {} => n \in S}
  IN  {v \in Names : \A S \in Closed : v \in S}

\* No block depends on itself, directly or not: there is no set of blocks each of
\* which names another of them.  Nothing in the code checks it.
Acyclic == \A C \in SUBSET Blocks : (\A n \in C : mentions[n] \cap C # {}) => C = {}

\* The variables hold what the maps and the calls they stand for can hold.
TypeOK ==
  /\ mentions \in [Names -> SUBSET (Listed \cup Orphans \cup Strays)]
  /\ provider \in BOOLEAN
  /\ deps \in [Names -> SUBSET (Listed \cup Lookalikes \cup Strays)]
  /\ down \in [Names -> SUBSET Names]
  /\ up \in [Names -> SUBSET Names]
  /\ phase \in {"parse", "resolve", "refused", "generate", "reduce", "depths", "cuts", "done", "overflow"}
  /\ todo \subseteq Names
  /\ depth \in [Names -> 0 .. MaxDepth]
  /\ stack \in Seq([vertex : Names, below : SUBSET Names])

\* downEdges and upEdges, two maps under two locks, hold the same edges: the
\* executor walks along one and makes its channels from the other.
EdgesMirrored == \A u, v \in Names : v \in down[u] <=> u \in up[v]

Ungenerated == {"parse", "resolve", "refused", "generate"}

\* However much is cut, a vertex that had something above it keeps some of it,
\* so that a walk can still arrive there.
KeepsUpstream ==
  phase \notin Ungenerated => \A v \in Vertices \ {Root} : up[v] # {}

\* No block names what Resolve accepts and is no vertex: the backend, an orphan, a
\* loop variable.  Nothing in the code checks it.
NamesVertices ==
  \A n \in Blocks : mentions[n] \cap (Backends \cup Lookalikes \cup Loops) = {}

\* Where blocks name vertices, an edge joins two vertices of the graph, and none
\* leads to the root: the executor makes a channel per edge with the context of
\* either end, and dereferences nil for what is no vertex (dag_executor.go:122).
EdgesJoinVertices ==
  NamesVertices =>
    \A u, v \in Names : u \in up[v] => u \in Vertices /\ v \in Vertices \ {Root}

\* Why they hold: a block has only dependencies that its data name, no edge is
\* there before the graph is generated, and only the walks of it cut any.
DepsNamed ==
  \A n \in Names :
    /\ deps[n] \subseteq Dependencies(n)
    /\ n \notin Blocks => deps[n] = {}
    /\ phase \notin {"parse", "resolve", "refused"} => deps[n] \subseteq Accepted(n)

NoEdgeYet == phase \in Ungenerated => \A n \in Names : up[n] = {}

CallsInWalk == stack # << >> => phase \in {"depths", "cuts"}

DagInv ==
  /\ TypeOK
  /\ CallsInWalk
  /\ DepsNamed
  /\ NoEdgeYet
  /\ EdgesMirrored
  /\ KeepsUpstream
  /\ EdgesJoinVertices

\* Every vertex can be reached from the root when the graph is done: the
\* executor waits for a report of each (dag_executor.go:201) and would hang.
AllReached ==
  phase = "done" /\ NamesVertices => Vertices \ {Root} \subseteq Below(up, Root)

\* No edge from a vertex is left beside a longer path from it, whatever the order
\* of the maps was.
Reduced ==
  phase = "done" =>
    \A v \in Names : \A u \in up[v] \cap Vertices, w \in up[v] : w \notin Below(up, u)

\* Nothing looks for a cycle (tr.go:64): a package that has one must not get
\* through the reduction all the same, because the walks before cut it open or
\* never met it.
DoneIsAcyclic == phase = "done" => provider \/ Acyclic

\* A package without a cycle does not end the program, however its vertices are
\* met, if the stack has room for a call per vertex.
OverflowIsACycle ==
  phase = "overflow" /\ IsFiniteSet(Vertices) /\ Cardinality(Vertices) <= MaxDepth =>
    ~provider /\ ~Acyclic

\* A part of a depends-on that is no name is all that is refused.  Otherwise
\* the reduction ends when the dependencies have no cycle, whatever the order of
\* the maps, and always ends the program when they have one (tr.go:70).
Astray == \E n \in Blocks : (mentions[n] \cap Strays) \ Accepted(n) # {}
Ends ==
  /\ phase = "parse" /\ Astray ~> phase = "refused"
  /\ phase = "parse" /\ ~Astray /\ (Acyclic \/ provider) ~> phase = "done"
  /\ phase = "parse" /\ ~Astray /\ ~(Acyclic \/ provider) ~> phase = "overflow"

\* package.go:314 calls what it cuts "the transitive connection in the dag": a
\* block is still below everything it depends on.
DependenciesKept ==
  phase = "done" /\ ~provider =>
    \A n \in Blocks : \A d \in deps[n] : n \in Below(up, d)
=============================================================================
