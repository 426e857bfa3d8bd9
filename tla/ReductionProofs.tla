--------------------------- MODULE ReductionProofs ---------------------------
(***************************************************************************)
(* What the graph is like that PackageDag ends with, for any package and   *)
(* any order of the maps: every vertex is below the root, no edge from a   *)
(* vertex is left beside a longer path, there is a graph only for a        *)
(* package without a cycle, and only a cycle can fill a stack that has     *)
(* room for a call per vertex.                                             *)
(*                                                                         *)
(* These speak of paths of any length.  Two things stand for an induction  *)
(* over them: Below is defined by the sets that are closed under the edges *)
(* of the graph, and a walk that has come to its end has ranked what it    *)
(* met, every vertex higher than those below it (RankInv).                 *)
(***************************************************************************)
EXTENDS PackageDagProofs, FiniteSetTheorems

USE DEF Ungenerated

-----------------------------------------------------------------------------
(* Numbers and paths *)

\* A set of naturals that is not empty has a least element: of the sets 1 .. n,
\* which are finite, one holds no other.
LEMMA Least ==
  ASSUME NEW T \in SUBSET Nat, T # {}
  PROVE  \E m \in T : \A n \in T : m <= n
<1> DEFINE Initial == {1 .. n : n \in T}
<1>1. Initial \subseteq FiniteSubsetsOf(Nat) /\ Initial # {}
  <2>1. \A n \in T : IsFiniteSet(1 .. n) /\ 1 .. n \in SUBSET Nat
    BY FS_Interval
  <2> QED
    BY <2>1 DEF FiniteSubsetsOf
<1>2. IsWellFoundedOn(StrictSubsetOrdering(Nat), FiniteSubsetsOf(Nat))
  BY FS_StrictSubsetOrderingWellFounded
<1> HIDE DEF Initial
<1>3. PICK S \in Initial : \A U \in Initial : ~(<<U, S>> \in StrictSubsetOrdering(Nat))
  BY <1>1, <1>2, WFMin
<1>4. PICK m \in T : S = 1 .. m
  BY DEF Initial
<1>5. ASSUME NEW n \in T, n < m PROVE FALSE
  <2>1. 1 .. n \in Initial
    BY DEF Initial
  <2>2. 1 .. n \subseteq 1 .. m /\ m \in 1 .. m /\ m \notin 1 .. n
    BY <1>5
  <2>3. 1 .. n # S /\ 1 .. n \subseteq S /\ S \subseteq Nat
    BY <2>2, <1>4
  <2>4. <<1 .. n, S>> \in StrictSubsetOrdering(Nat)
    BY <2>3 DEF StrictSubsetOrdering
  <2> QED
    BY <1>3, <2>1, <2>4
<1> QED
  BY <1>5

\* Of some vertices with a bounded rank one is ranked highest.
LEMMA Highest ==
  ASSUME NEW U, U # {}, NEW k \in Nat, NEW r, \A u \in U : r[u] \in 0 .. k
  PROVE  \E u \in U : \A v \in U : r[v] <= r[u]
<1> DEFINE T == {k - r[u] : u \in U}
<1>1. T \in SUBSET Nat /\ T # {}
  OBVIOUS
<1> HIDE DEF T
<1>2. PICK m \in T : \A n \in T : m <= n
  BY <1>1, Least
<1>3. PICK u \in U : m = k - r[u]
  BY DEF T
<1>4. ASSUME NEW v \in U PROVE r[v] <= r[u]
  <2>1. k - r[v] \in T
    BY DEF T
  <2>2. k - r[u] <= k - r[v]
    BY <2>1, <1>2, <1>3
  <2> QED
    BY <2>2
<1> QED
  BY <1>4

\* With fewer edges less is below a vertex.
LEMMA BelowFewer ==
  ASSUME NEW f, NEW g, \A n \in Names : g[n] \subseteq f[n], NEW m
  PROVE  Below(g, m) \subseteq Below(f, m)
<1> SUFFICES ASSUME NEW v \in Below(g, m), NEW S \in SUBSET Names,
                    \A n \in Names : f[n] \cap (S \cup {m}) # {} => n \in S
             PROVE  v \in S
  BY DEF Below
<1>1. \A n \in Names : g[n] \cap (S \cup {m}) # {} => n \in S
  OBVIOUS
<1> QED
  BY <1>1 DEF Below

\* What every edge that leaves a set or its source leads back into holds all below.
LEMMA BelowInside ==
  ASSUME NEW f, NEW m, NEW S \in SUBSET Names,
         \A n \in Names : f[n] \cap (S \cup {m}) # {} => n \in S
  PROVE  Below(f, m) \subseteq S
  BY DEF Below
-----------------------------------------------------------------------------
(* The calls of trwalk *)

\* A step keeps the package, so that it does not change what the graph was like
\* before the reduction.
LEMMA SameUpstream ==
  ASSUME UNCHANGED <<mentions, provider, deps>>
  PROVE  Vertices' = Vertices /\ \A n \in Names : Upstream(n)' = Upstream(n)
  BY DEF Vertices, Upstream

\* What the stack is after a call.
LEMMA CallStack ==
  ASSUME TypeOK, TypeOK', NEW w \in Names, Descend(w)
  PROVE  /\ Len(stack) \in Nat \ {0} /\ Len(stack') = Len(stack) + 1
         /\ Top = stack[Len(stack)] /\ w \in Top.below
         /\ \A i \in 1 .. Len(stack) :
              /\ stack'[i].vertex = stack[i].vertex
              /\ stack'[i].below = IF i = Len(stack) THEN stack[i].below \ {w} ELSE stack[i].below
         /\ stack'[Len(stack) + 1].vertex = w
         /\ stack'[Len(stack) + 1].below = down'[w]
<1> DEFINE n == Len(stack)
           top == [Top EXCEPT !.below = @ \ {w}]
           left == [stack EXCEPT ![n] = top]
<1>1. n \in Nat \ {0} /\ Top \in Calls /\ stack \in Seq(Calls) /\ w \in Top.below
  BY StackTop DEF Descend
<1>2. top \in Calls /\ top.vertex = Top.vertex /\ top.below = Top.below \ {w}
  BY <1>1 DEF Calls
<1>3. stack' = Append(left, Call(w, down'[w]))
  BY DEF Descend, Top
<1>4. Call(w, down'[w]) \in Calls
  BY DEF TypeOK, Call, Calls
<1> HIDE DEF top, Calls
<1>5. left \in Seq(Calls) /\ Len(left) = n /\ \A i \in 1 .. n : left[i] = IF i = n THEN top ELSE stack[i]
  <2>1. n \in 1 .. Len(stack)
    BY <1>1
  <2> QED
    BY <1>1, <1>2, <2>1, ExceptSeq
<1> HIDE DEF left
<1>6. /\ Len(stack') = n + 1
      /\ \A i \in 1 .. n : stack'[i] = left[i]
      /\ stack'[n + 1] = Call(w, down'[w])
  BY <1>1, <1>3, <1>4, <1>5
<1>7. \A i \in 1 .. n :
        /\ stack'[i].vertex = stack[i].vertex
        /\ stack'[i].below = IF i = n THEN stack[i].below \ {w} ELSE stack[i].below
  BY <1>2, <1>5, <1>6 DEF Top
<1>8. stack'[n + 1].vertex = w /\ stack'[n + 1].below = down'[w]
  BY <1>6 DEF Call
<1>9. Top = stack[n]
  BY DEF Top
<1> QED
  BY <1>1, <1>6, <1>7, <1>8, <1>9

\* What the stack is after a return.
LEMMA ReturnStack ==
  ASSUME TypeOK, Return
  PROVE  /\ Len(stack) \in Nat /\ Len(stack) > 1
         /\ Len(stack') = Len(stack) - 1
         /\ \A i \in 1 .. Len(stack') : stack'[i] = stack[i]
<1>1. stack \in Seq(Calls) /\ Len(stack) \in Nat /\ Len(stack) > 1
  BY DEF TypeOK, Return, Calls
<1> HIDE DEF Calls
<1>2. 1 \in Int /\ Len(stack) - 1 \in Int
  BY <1>1
<1>3. \A i \in 1 .. Len(stack) - 1 : stack[i] \in Calls
  BY <1>1, <1>2
<1>4. stack' = SubSeq(stack, 1, Len(stack) - 1)
  BY DEF Return
<1> QED
  BY <1>1, <1>2, <1>3, <1>4, SubSeqProperties

\* The edges a cut takes come from vertices of the walk, and lead to one vertex;
\* the vertices of the walk that are still above it are equally deep.
LEMMA CutEdges ==
  ASSUME TypeOK, NEW v \in Names, Cut(v)
  PROVE  /\ \A n \in Names : up'[n] \subseteq up[n]
         /\ \A n \in Names : \A u \in up[n] \ up'[n] : depth[u] # 0
         /\ \A u, w \in up'[v] : depth[u] # 0 /\ depth[w] # 0 => depth[u] = depth[w]
<1> PICK best \in {0} \cup {depth[u] : u \in up[v]} :
      up' = [up EXCEPT ![v] = @ \ {u \in up[v] : depth[u] # 0 /\ depth[u] # best}]
  BY DEF Cut
<1> QED
  BY DEF TypeOK

-----------------------------------------------------------------------------
(* The path of the calls, and what fills the stack *)

\* Where the reduction is with the calls on the stack: on a path along the edges
\* that the graph had when it was generated.
Path ==
  /\ Len(stack) <= MaxDepth
  /\ \A i \in 1 .. Len(stack) :
       /\ stack[i].vertex \in Vertices
       /\ \A v \in stack[i].below : stack[i].vertex \in Upstream(v)
       /\ i > 1 => stack[i - 1].vertex \in Upstream(stack[i].vertex)

DepsExact == phase # "parse" => \A n \in Blocks : deps[n] = Dependencies(n)
OnlyCut == phase \notin Ungenerated => \A n \in Names : up[n] \subseteq Upstream(n)
Calling == phase \in {"depths", "cuts"} <=> stack # << >>
NoneLeft == phase = "done" => todo = {}

PathInv ==
  /\ DepsExact
  /\ OnlyCut
  /\ Calling
  /\ todo \subseteq Vertices
  /\ NoneLeft
  /\ Path
  /\ OverflowIsACycle

\* The actions of TransitiveReduction.
Reduces ==
  \/ \E v \in Names : StartFrom(v)
  \/ \E w \in Names : Descend(w)
  \/ Overflow
  \/ Return
  \/ StartCuts
  \/ EndCuts
  \/ EndReduction

\* The reduction keeps the package, and only takes edges away.
LEMMA ReducesEdges ==
  ASSUME DagInv, Reduces
  PROVE  /\ UNCHANGED <<mentions, provider, deps>>
         /\ phase \notin Ungenerated /\ phase' \notin Ungenerated
         /\ \A n \in Names : up'[n] \subseteq up[n]
<1>1. TypeOK /\ EdgesMirrored /\ (stack # << >> => phase \in {"depths", "cuts"})
  BY DEF DagInv, CallsInWalk
<1>2. CASE (\E v \in Names : StartFrom(v)) \/ Overflow \/ EndCuts \/ EndReduction
  BY <1>1, <1>2 DEF StartFrom, Overflow, EndCuts, EndReduction, edges, walk
<1>3. CASE Return
  <2>1. stack # << >>
    BY <1>3 DEF Return
  <2> QED
    BY <1>1, <1>3, <2>1 DEF Return, edges
<1>4. CASE \E w \in Names : Descend(w)
  <2> PICK w \in Names : Descend(w)
    BY <1>4
  <2>1. CASE Cut(w)
    BY <1>1, <2>1, CutKeeps DEF Descend
  <2>2. CASE UNCHANGED edges
    BY <1>1, <2>2 DEF Descend, edges
  <2> QED
    BY <2>1, <2>2 DEF Descend
<1>5. CASE StartCuts
  <2>1. stack # << >>
    BY <1>5 DEF StartCuts
  <2>2. Top.vertex \in Names
    BY <1>1, <2>1, StackTop DEF Calls
  <2> QED
    BY <1>1, <1>5, <2>2, CutKeeps DEF StartCuts
<1> QED
  BY <1>2, <1>3, <1>4, <1>5 DEF Reduces

\* So what is said of the edges in PathInv stays true of it.
LEMMA ReducesCuts ==
  ASSUME DagInv, PathInv, Reduces
  PROVE  /\ DepsExact' /\ OnlyCut'
         /\ Vertices' = Vertices /\ \A n \in Names : Upstream(n)' = Upstream(n)
<1>1. /\ UNCHANGED <<mentions, provider, deps>>
      /\ phase \notin Ungenerated /\ phase' \notin Ungenerated
      /\ \A n \in Names : up'[n] \subseteq up[n]
  BY ReducesEdges
<1>2. Vertices' = Vertices /\ \A n \in Names : Upstream(n)' = Upstream(n)
  BY <1>1, SameUpstream
<1>3. DepsExact'
  BY <1>1 DEF PathInv, DepsExact, Dependencies
<1>4. OnlyCut'
  BY <1>1, <1>2 DEF PathInv, OnlyCut
<1> QED
  BY <1>2, <1>3, <1>4

\* Until the walks begin there is no call.
LEMMA GenerateKeepsPath ==
  ASSUME DagInv, PathInv, AddDependencies \/ Resolve \/ GenerateDAG
  PROVE  PathInv'
<1>1. /\ UNCHANGED <<mentions, provider, stack>>
      /\ phase \in {"parse", "resolve", "generate"}
      /\ phase' \in {"resolve", "refused", "generate", "reduce"}
  BY DEF AddDependencies, Resolve, GenerateDAG, walk
<1>2. stack = << >> /\ stack' = << >>
  BY <1>1 DEF PathInv, Calling
<1>3. Vertices' = Vertices
  BY <1>1 DEF Vertices
<1>4. DepsExact'
  <2>1. CASE AddDependencies
    <3>1. \A n \in Blocks : n \in Names
      BY DEF Names, Listed
    <3> QED
      BY <2>1, <3>1 DEF AddDependencies, DepsExact, Dependencies
  <2>2. CASE Resolve \/ GenerateDAG
    BY <1>1, <2>2 DEF PathInv, DepsExact, Dependencies, Resolve, GenerateDAG
  <2> QED
    BY <2>1, <2>2
<1>5. OnlyCut'
  <2>1. CASE AddDependencies \/ Resolve
    BY <2>1 DEF AddDependencies, Resolve, OnlyCut
  <2>2. CASE GenerateDAG
    <3>1. \A n \in Names : up'[n] = Upstream(n) /\ Upstream(n)' = Upstream(n)
      BY <2>2, <1>1, <1>3 DEF GenerateDAG, Upstream
    <3> QED
      BY <3>1 DEF OnlyCut
  <2> QED
    BY <2>1, <2>2
<1>6. todo' \subseteq Vertices /\ NoneLeft'
  BY <1>1, <1>3 DEF PathInv, AddDependencies, Resolve, GenerateDAG, walk, NoneLeft
<1>7. Path'
  BY <1>2, PackageAssumption DEF Path
<1> QED
  BY <1>1, <1>2, <1>3, <1>4, <1>5, <1>6, <1>7 DEF PathInv, Calling, OverflowIsACycle

\* A vertex that has something above it is not the root; and what has a vertex
\* other than the root above it is a block that names it.
LEMMA Named ==
  ASSUME DagInv, NEW v, NEW u \in Upstream(v)
  PROVE  /\ v \in Vertices \ {Root} /\ v \in Names
         /\ u # Root => v \in Blocks /\ ~provider /\ u \in mentions[v] /\ u \in deps[v]
<1>1. v \in Vertices \ {Root} /\ v \in Names
  BY DEF Upstream, Vertices, Names, Listed
<1>2. ASSUME u # Root PROVE v \in Blocks /\ ~provider /\ u \in mentions[v] /\ u \in deps[v]
  <2>1. u \in deps[v]
    BY <1>1, <1>2 DEF Upstream
  <2>2. v \in Blocks /\ u \in mentions[v]
    BY <1>1, <2>1 DEF DagInv, DepsNamed, Dependencies
  <2>3. ~provider
    BY <1>1, <2>2, PackageAssumption DEF Vertices
  <2> QED
    BY <2>1, <2>2, <2>3
<1> QED
  BY <1>1, <1>2

\* Vertices each of which is below another of them are blocks that name each other.
LEMMA CycleOfBlocks ==
  ASSUME DagInv, NEW C, C # {}, \A v \in C : Upstream(v) \cap C # {}
  PROVE  ~provider /\ ~Acyclic
<1>1. Root \notin C
  BY Named
<1>2. \A v \in C : v \in Blocks /\ ~provider /\ mentions[v] \cap C # {}
  BY <1>1, Named
<1> QED
  BY <1>2 DEF Acyclic

\* A stack with a call for every vertex, and one to come, has a vertex twice.
LEMMA OverflowCycle ==
  ASSUME DagInv, Path, Overflow, IsFiniteSet(Vertices), Cardinality(Vertices) <= MaxDepth
  PROVE  ~provider /\ ~Acyclic
<1> DEFINE n == Len(stack)
<1>1. n \in Nat \ {0} /\ n = MaxDepth /\ Top \in Calls
  BY StackTop DEF DagInv, Overflow
<1>2. PICK w \in Names : w \in stack[n].below
  BY <1>1 DEF Overflow, Calls, Top
<1>3. stack[n].vertex \in Upstream(w)
  BY <1>1, <1>2 DEF Path
<1> DEFINE p == [k \in 1 .. n + 1 |-> IF k <= n THEN stack[k].vertex ELSE w]
<1>4. p \in [1 .. n + 1 -> Vertices]
  BY <1>1, <1>3, Named DEF Path
<1>5. ASSUME NEW k \in 2 .. n + 1 PROVE k - 1 \in 1 .. n + 1 /\ p[k - 1] \in Upstream(p[k])
  <2>1. CASE k = n + 1
    BY <1>1, <1>3, <2>1
  <2>2. CASE k \in 2 .. n
    BY <1>1, <2>2 DEF Path
  <2> QED
    BY <1>1, <2>1, <2>2
<1>6. PICK i, j \in 1 .. n + 1 : i < j /\ p[i] = p[j]
  <2> HIDE DEF p
  <2>1. IsFiniteSet(1 .. n + 1) /\ Cardinality(1 .. n + 1) = n + 1
    BY <1>1, FS_Interval
  <2>2. Cardinality(Vertices) < Cardinality(1 .. n + 1)
    <3>1. Cardinality(Vertices) \in Nat
      BY FS_CardinalityType
    <3> QED
      BY <1>1, <2>1, <3>1
  <2>3. \E i, j \in 1 .. n + 1 : i # j /\ p[i] = p[j]
    BY <1>4, <2>1, <2>2, FS_PigeonHole
  <2> QED
    BY <1>1, <2>3
<1> HIDE DEF p
<1> DEFINE C == {p[k] : k \in i .. j}
<1>7. ASSUME NEW v \in C PROVE Upstream(v) \cap C # {}
  <2>1. PICK k \in i .. j : v = p[k]
    OBVIOUS
  <2>2. CASE k > i
    <3>1. k \in 2 .. n + 1 /\ k - 1 \in i .. j
      BY <1>1, <1>6, <2>2
    <3> QED
      BY <1>5, <2>1, <3>1
  <2>3. CASE k = i
    <3>1. j \in 2 .. n + 1 /\ j - 1 \in i .. j /\ v = p[j]
      BY <1>1, <1>6, <2>1, <2>3
    <3> QED
      BY <1>5, <3>1
  <2> QED
    BY <1>1, <2>2, <2>3
<1>8. C # {}
  <2>1. i \in i .. j
    BY <1>6
  <2> QED
    BY <2>1
<1> HIDE DEF C
<1> QED
  BY <1>7, <1>8, CycleOfBlocks

\* A walk that has begun is on a path: of one vertex.
LEMMA StartPath ==
  ASSUME DagInv, PathInv, NEW v \in Names, StartFrom(v)
  PROVE  Path' /\ stack' # << >> /\ Len(stack') = 1 /\ stack'[1] = Call(v, down[v])
<1>1. stack' = <<Call(v, down[v])>> /\ v \in todo /\ UNCHANGED <<up, down>>
  BY DEF StartFrom, edges
<1>2. stack' # << >> /\ Len(stack') = 1 /\ stack'[1] = Call(v, down[v])
  BY <1>1
<1>3. stack'[1].vertex = v /\ stack'[1].below = down[v]
  BY <1>2 DEF Call
<1>4. \A w \in down[v] : v \in Upstream(w)
  BY DEF DagInv, TypeOK, EdgesMirrored, PathInv, OnlyCut, StartFrom
<1>5. Vertices' = Vertices /\ \A n \in Names : Upstream(n)' = Upstream(n)
  BY ReducesCuts DEF Reduces
<1>6. down[v] \subseteq Names /\ v \in Vertices /\ 1 <= MaxDepth
  BY <1>1, PackageAssumption DEF DagInv, TypeOK, PathInv
<1>7. \A i \in 1 .. Len(stack') : i = 1
  BY <1>2
<1>8. Path'
  BY <1>2, <1>3, <1>4, <1>5, <1>6, <1>7 DEF Path
<1> QED
  BY <1>2, <1>8

\* A call makes the path one edge longer.
LEMMA DescendPath ==
  ASSUME DagInv, DagInv', PathInv, NEW w \in Names, Descend(w)
  PROVE  Path' /\ stack' # << >>
<1> DEFINE n == Len(stack)
<1>1. /\ n \in Nat \ {0} /\ Len(stack') = n + 1
      /\ \A i \in 1 .. n :
           /\ stack'[i].vertex = stack[i].vertex
           /\ stack'[i].below \subseteq stack[i].below
      /\ stack'[n + 1].vertex = w
      /\ stack'[n + 1].below = down'[w]
      /\ w \in stack[n].below
  BY CallStack DEF DagInv
<1>2. Vertices' = Vertices /\ (\A m \in Names : Upstream(m)' = Upstream(m)) /\ OnlyCut'
  BY ReducesCuts DEF Reduces
<1>3. stack[n].vertex \in Upstream(w) /\ w \in Vertices
  BY <1>1, Named DEF PathInv, Path
<1>4. \A v \in down'[w] : v \in Names /\ w \in Upstream(v)
  BY <1>2 DEF DagInv, TypeOK, EdgesMirrored, OnlyCut, CallsInWalk, Descend
<1>5. \A i \in 1 .. n : \A v \in stack[i].below : v \in Names
  BY <1>1, Named DEF PathInv, Path
<1>6. ASSUME NEW i \in 1 .. n + 1
      PROVE  /\ stack'[i].vertex \in Vertices
             /\ \A v \in stack'[i].below : v \in Names /\ stack'[i].vertex \in Upstream(v)
             /\ i > 1 => stack'[i - 1].vertex \in Upstream(stack'[i].vertex)
                         /\ stack'[i].vertex \in Names
  <2>1. CASE i \in 1 .. n
    <3>1. /\ stack[i].vertex \in Vertices /\ stack[i].vertex \in Names
          /\ \A v \in stack[i].below : stack[i].vertex \in Upstream(v)
          /\ i > 1 => stack[i - 1].vertex \in Upstream(stack[i].vertex)
      BY <2>1 DEF PathInv, Path, Vertices, Names, Listed
    <3>2. i > 1 => i - 1 \in 1 .. n
      BY <1>1
    <3> QED
      BY <1>1, <1>5, <2>1, <3>1, <3>2
  <2>2. CASE i = n + 1
    BY <1>1, <1>3, <1>4, <2>2
  <2> QED
    BY <1>1, <2>1, <2>2
<1>7. Len(stack') <= MaxDepth /\ stack' # << >>
  BY <1>1, PackageAssumption DEF Descend
<1> QED
  BY <1>1, <1>2, <1>6, <1>7 DEF Path

\* A return, or a walk that ends or gives way to the second, leaves a path.
LEMMA ReturnPath ==
  ASSUME DagInv, DagInv', PathInv, Return \/ StartCuts \/ EndCuts \/ Overflow \/ EndReduction
  PROVE  /\ Path' /\ (phase' \in {"depths", "cuts"} <=> stack' # << >>)
<1>1. Vertices' = Vertices /\ (\A m \in Names : Upstream(m)' = Upstream(m)) /\ OnlyCut'
  BY ReducesCuts DEF Reduces
<1>2. \A i \in 1 .. Len(stack) : stack[i].vertex \in Names /\ \A v \in stack[i].below : v \in Names
  BY Named DEF PathInv, Path, Vertices, Names, Listed
<1>3. CASE Return
  <2>1. /\ Len(stack) \in Nat /\ Len(stack) > 1
        /\ Len(stack') = Len(stack) - 1
        /\ \A i \in 1 .. Len(stack') : stack'[i] = stack[i]
    BY <1>3, ReturnStack DEF DagInv
  <2>2. Len(stack) <= MaxDepth /\ MaxDepth \in Nat
    BY PackageAssumption DEF PathInv, Path
  <2>3. ASSUME NEW i \in 1 .. Len(stack')
        PROVE  /\ stack'[i].vertex \in Vertices
               /\ \A v \in stack'[i].below : v \in Names /\ stack'[i].vertex \in Upstream(v)
               /\ i > 1 => stack'[i - 1].vertex \in Upstream(stack'[i].vertex)
                           /\ stack'[i].vertex \in Names
    <3>1. i \in 1 .. Len(stack) /\ (i > 1 => i - 1 \in 1 .. Len(stack'))
      BY <2>1
    <3> QED
      BY <1>2, <2>1, <3>1 DEF PathInv, Path
  <2>4. Path'
    BY <1>1, <2>1, <2>2, <2>3 DEF Path
  <2>5. stack # << >> /\ stack' # << >> /\ phase' = phase
    <3>1. phase' = phase
      BY <1>3 DEF Return
    <3>2. Len(stack) # 0 /\ Len(stack') # 0
      BY <2>1
    <3> QED
      BY <3>1, <3>2, EmptySeq
  <2> QED
    BY <2>4, <2>5 DEF PathInv, Calling
<1>4. CASE StartCuts
  <2> DEFINE t == Top.vertex
  <2>1. Len(stack) = 1 /\ t = stack[1].vertex /\ stack' = <<Call(t, down'[t])>> /\ phase' = "cuts"
    BY <1>4 DEF StartCuts, Top
  <2>2. Len(stack') = 1 /\ stack'[1] = Call(t, down'[t]) /\ stack' # << >>
    BY <2>1
  <2>3. stack'[1].vertex = t /\ stack'[1].below = down'[t]
    BY <2>2 DEF Call
  <2>4. t \in Vertices /\ t \in Names
    BY <1>2, <2>1 DEF PathInv, Path
  <2>5. \A v \in down'[t] : v \in Names /\ t \in Upstream(v)
    BY <1>1, <2>1, <2>4 DEF DagInv, TypeOK, EdgesMirrored, OnlyCut
  <2>6. \A i \in 1 .. Len(stack') : i = 1
    BY <2>2
  <2>7. Path'
    BY <1>1, <2>2, <2>3, <2>4, <2>5, <2>6, PackageAssumption DEF Path
  <2> QED
    BY <2>1, <2>2, <2>7
<1>5. CASE EndCuts \/ Overflow
  BY <1>5, PackageAssumption DEF Path, EndCuts, Overflow
<1>6. CASE EndReduction
  <2>1. stack = << >> /\ stack' = << >> /\ phase' = "done"
    BY <1>6 DEF EndReduction, PathInv, Calling, walk
  <2> QED
    BY <2>1, PackageAssumption DEF Path
<1> QED
  BY <1>3, <1>4, <1>5, <1>6

\* A step of the reduction keeps the path; it overflows only on a cycle.
LEMMA ReducesPath ==
  ASSUME DagInv, DagInv', PathInv, Reduces PROVE PathInv'
<1>1. DepsExact' /\ OnlyCut' /\ Vertices' = Vertices /\ UNCHANGED <<mentions, provider>>
  BY ReducesCuts, ReducesEdges
<1>2. todo' \subseteq todo
  BY DEF Reduces, StartFrom, Descend, Overflow, Return, StartCuts, EndCuts, EndReduction, walk
<1>3. Path' /\ Calling'
  <2>1. CASE \E v \in Names : StartFrom(v)
    BY <2>1, StartPath DEF StartFrom, Calling
  <2>2. CASE \E w \in Names : Descend(w)
    BY <2>2, DescendPath DEF Descend, DagInv, CallsInWalk, Calling
  <2>3. CASE Return \/ StartCuts \/ EndCuts \/ Overflow \/ EndReduction
    BY <2>3, ReturnPath DEF Calling
  <2> QED
    BY <2>1, <2>2, <2>3 DEF Reduces
<1>4. OverflowIsACycle'
  <2> SUFFICES ASSUME phase' = "overflow", IsFiniteSet(Vertices), Cardinality(Vertices) <= MaxDepth
               PROVE  ~provider /\ ~Acyclic
    BY <1>1 DEF OverflowIsACycle, Acyclic
  <2>1. Overflow
    <3>1. phase # "overflow"
      <4>1. stack # << >> => phase \in {"depths", "cuts"}
        BY DEF DagInv, CallsInWalk
      <4>2. Return => stack # << >>
        BY EmptySeq DEF Return
      <4> QED
        BY <4>1, <4>2 DEF Reduces, StartFrom, Descend, Overflow, StartCuts, EndCuts, EndReduction
    <3> QED
      BY <3>1 DEF Reduces, StartFrom, Descend, Return, StartCuts, EndCuts, EndReduction
  <2> QED
    BY <2>1, OverflowCycle DEF PathInv
<1>5. NoneLeft'
  <2>1. Return => phase' = phase /\ stack # << >>
    BY EmptySeq DEF Return
  <2>2. stack # << >> => phase # "done"
    BY DEF DagInv, CallsInWalk
  <2>3. phase' = "done" => EndReduction
    BY <2>1, <2>2 DEF Reduces, StartFrom, Descend, Overflow, StartCuts, EndCuts
  <2> QED
    BY <2>3 DEF NoneLeft, EndReduction, walk
<1> QED
  BY <1>1, <1>2, <1>3, <1>4, <1>5 DEF PathInv

\* The reduction is always on a path, and what it overflows on is a cycle.
THEOREM PathInvariant == Spec => []PathInv
<1>1. Init => PathInv
  BY PackageAssumption DEF Init, PathInv, DepsExact, OnlyCut, Calling, NoneLeft, Path,
     OverflowIsACycle
<1>2. DagInv /\ DagInv' /\ PathInv /\ [Next]_vars => PathInv'
  <2> SUFFICES ASSUME DagInv, DagInv', PathInv, [Next]_vars PROVE PathInv'
    OBVIOUS
  <2>1. CASE AddDependencies \/ Resolve \/ GenerateDAG
    BY <2>1, GenerateKeepsPath
  <2>2. CASE Reduces
    BY <2>2, ReducesPath
  <2>3. CASE UNCHANGED vars
    <3>1. UNCHANGED <<mentions, provider, deps, up, phase, todo, stack>>
      BY <2>3 DEF vars, edges, walk
    <3>2. Vertices' = Vertices /\ \A n : Upstream(n)' = Upstream(n)
      BY <3>1 DEF Vertices, Upstream
    <3> QED
      BY <3>1, <3>2 DEF PathInv, DepsExact, Dependencies, OnlyCut, Calling, NoneLeft, Path,
         OverflowIsACycle, Acyclic
  <2> QED
    BY <2>1, <2>2, <2>3 DEF Next, Reduces
<1> QED
  BY <1>1, <1>2, DagInvariant, PTL DEF Spec

\* A package without a cycle does not end the program when the stack has room for
\* a call per vertex: the walks of trwalk, which look for no cycle, are never on
\* one.
THEOREM OnlyACycleOverflows == Spec => []OverflowIsACycle
<1>1. PathInv => OverflowIsACycle
  BY DEF PathInv
<1> QED
  BY <1>1, PathInvariant, PTL
-----------------------------------------------------------------------------
(* The ranks that the first walks give *)

\* The vertex that the walk has begun with.
Start == stack[1].vertex

\* What is ranked is ranked higher than all below it.
IsRanking(r) ==
  \A v \in Names : \A u \in Upstream(v) : r[u] # 0 => r[v] # 0 /\ r[v] < r[u]

\* No edge is cut before its source is ranked.
Uncut(r) == \A v \in Names : \A u \in Upstream(v) : r[u] = 0 => u \in up[v]

\* What is below a vertex of the first walk is ranked, or has to be visited yet,
\* or is being visited.
FramesRanked(r) ==
  phase = "depths" =>
    \A i \in 1 .. Len(stack) : \A v \in Names :
      stack[i].vertex \in up[v] =>
        \/ r[v] # 0
        \/ v \in stack[i].below
        \/ i < Len(stack) /\ v = stack[i + 1].vertex

\* So a vertex is ranked when the first walk from it has ended; so is what that
\* walk has met.
StartedRanked(r) ==
  \A v \in Vertices :
    \/ r[v] # 0
    \/ v \in todo
    \/ phase = "depths" /\ v = Start

MetRanked(r) ==
  stack # << >> =>
    \A v \in Names : depth[v] # 0 =>
      \/ r[v] # 0
      \/ phase = "depths" /\ \E i \in 1 .. Len(stack) : v = stack[i].vertex

Ranked(r) ==
  /\ IsRanking(r)
  /\ Uncut(r)
  /\ FramesRanked(r)
  /\ StartedRanked(r)
  /\ MetRanked(r)

Walking == {"reduce", "depths", "cuts", "done"}
RankInv == phase \in Walking => \E k \in Nat : \E r \in [Names -> 0 .. k] : Ranked(r)

\* A vertex that has only ranked ones below it can be ranked higher than all.
LEMMA Rise ==
  ASSUME DagInv, NEW k \in Nat, NEW r \in [Names -> 0 .. k], IsRanking(r), Uncut(r),
         NEW t \in Names, \A v \in Names : t \in up[v] => r[v] # 0
  PROVE  \E q \in [Names -> 0 .. k + 1] :
           IsRanking(q) /\ Uncut(q) /\ q[t] # 0 /\ \A v \in Names : r[v] # 0 => q[v] # 0
<1>1. \A v \in Names : Upstream(v) \subseteq Names
  BY PackageAssumption DEF DagInv, TypeOK, Upstream, Names
<1>2. CASE r[t] # 0
  <2>1. r \in [Names -> 0 .. k + 1]
    OBVIOUS
  <2> QED
    BY <1>2, <2>1
<1>3. CASE r[t] = 0
  <2> DEFINE q == [r EXCEPT ![t] = k + 1]
  <2>1. q \in [Names -> 0 .. k + 1] /\ q[t] = k + 1 /\ \A v \in Names : v # t => q[v] = r[v]
    OBVIOUS
  <2> HIDE DEF q
  <2>2. ASSUME NEW v \in Names, NEW u \in Upstream(v), q[u] # 0
        PROVE  q[v] # 0 /\ q[v] < q[u]
    <3>1. u \in Names /\ r[v] \in 0 .. k /\ r[u] \in 0 .. k
      BY <1>1
    <3>2. CASE u = t
      <4>1. t \in up[v]
        BY <1>3, <2>2, <3>2 DEF Uncut
      <4>2. r[v] # 0 /\ v # t
        BY <1>3, <4>1
      <4> QED
        BY <2>1, <3>1, <3>2, <4>2
    <3>3. CASE u # t
      <4>1. r[v] # 0 /\ r[v] < r[u]
        BY <2>1, <2>2, <3>1, <3>3 DEF IsRanking
      <4> QED
        BY <1>3, <2>1, <3>1, <3>3, <4>1
    <3> QED
      BY <3>2, <3>3
  <2>3. Uncut(q)
    BY <1>1, <2>1 DEF Uncut
  <2>4. IsRanking(q)
    BY <2>2 DEF IsRanking
  <2> QED
    BY <2>1, <2>3, <2>4
<1> QED
  BY <1>2, <1>3

\* The reduction keeps a ranking, if it cuts only what comes from a ranked vertex.
LEMMA SameRanking ==
  ASSUME DagInv, PathInv, Reduces, NEW r, IsRanking(r), Uncut(r),
         \A v \in Names : \A u \in up[v] \ up'[v] : r[u] # 0
  PROVE  IsRanking(r)' /\ Uncut(r)'
  BY ReducesCuts DEF IsRanking, Uncut

\* When the graph is generated nothing is ranked.
LEMMA GenerateRank ==
  ASSUME DagInv, PathInv, GenerateDAG PROVE RankInv'
<1> DEFINE r == [n \in Names |-> 0]
<1>1. r \in [Names -> 0 .. 0] /\ \A n \in Names : r[n] = 0
  OBVIOUS
<1> HIDE DEF r
<1>2. Vertices' = Vertices /\ Vertices \subseteq Names /\ \A n \in Names : up'[n] = Upstream(n) /\ Upstream(n)' = Upstream(n)
  BY DEF GenerateDAG, Upstream, Vertices, Names, Listed
<1>3. \A v \in Names : Upstream(v) \subseteq Names
  BY PackageAssumption DEF DagInv, TypeOK, Upstream, Names
<1>4. stack' = << >> /\ todo' = Vertices /\ phase' = "reduce"
  BY DEF GenerateDAG, PathInv, Calling
<1>5. Ranked(r)'
  BY <1>1, <1>2, <1>3, <1>4 DEF Ranked, IsRanking, Uncut, FramesRanked, StartedRanked, MetRanked
<1> QED
  BY <1>1, <1>5 DEF RankInv

\* A walk that begins has all below its vertex to visit.
LEMMA StartRank ==
  ASSUME DagInv, PathInv, RankInv, NEW v \in Names, StartFrom(v) PROVE RankInv'
<1> PICK k \in Nat : \E r \in [Names -> 0 .. k] : Ranked(r)
  BY DEF RankInv, StartFrom, Walking
<1>1. PICK r \in [Names -> 0 .. k] : Ranked(r)
  OBVIOUS
<1>2. /\ phase' = "depths" /\ todo' = todo \ {v} /\ Len(stack') = 1
      /\ depth' = [n \in Names |-> IF n = v THEN 1 ELSE 0]
      /\ stack'[1].vertex = v /\ stack'[1].below = down[v] /\ up' = up
  BY StartPath DEF StartFrom, Call, edges
<1>3. IsRanking(r)' /\ Uncut(r)'
  BY <1>1, <1>2, SameRanking DEF Reduces, Ranked
<1>4. FramesRanked(r)'
  <2>1. \A w \in Names : v \in up[w] => w \in down[v]
    BY DEF DagInv, EdgesMirrored
  <2> QED
    BY <1>2, <2>1 DEF FramesRanked
<1>5. StartedRanked(r)'
  <2>1. Vertices' = Vertices
    BY ReducesCuts DEF Reduces
  <2>2. phase = "reduce"
    BY DEF StartFrom
  <2> QED
    BY <1>1, <1>2, <2>1, <2>2 DEF Ranked, StartedRanked, Start
<1>6. MetRanked(r)'
  BY <1>2 DEF MetRanked
<1> QED
  BY <1>1, <1>3, <1>4, <1>5, <1>6 DEF RankInv, Ranked

\* A call in the first walk leaves the vertex it visits to the new call; one in
\* the second cuts edges from vertices that the first has met.
LEMMA DescendRank ==
  ASSUME DagInv, DagInv', PathInv, RankInv, NEW w \in Names, Descend(w) PROVE RankInv'
<1> DEFINE n == Len(stack)
<1>0. phase \in {"depths", "cuts"} /\ phase' = phase /\ todo' = todo
  BY DEF Descend
<1> PICK k \in Nat : \E r \in [Names -> 0 .. k] : Ranked(r)
  BY <1>0 DEF RankInv, Walking
<1>1. PICK r \in [Names -> 0 .. k] : Ranked(r)
  OBVIOUS
<1>2. /\ n \in Nat \ {0} /\ Len(stack') = n + 1
      /\ \A i \in 1 .. n : stack'[i].vertex = stack[i].vertex
      /\ \A i \in 1 .. n : i # n => stack'[i].below = stack[i].below
      /\ stack'[n].below = stack[n].below \ {w}
      /\ stack'[n + 1].vertex = w
      /\ stack'[n + 1].below = down'[w]
  <2>1. /\ n \in Nat \ {0} /\ Len(stack') = n + 1
        /\ \A i \in 1 .. n :
             /\ stack'[i].vertex = stack[i].vertex
             /\ stack'[i].below = IF i = n THEN stack[i].below \ {w} ELSE stack[i].below
        /\ stack'[n + 1].vertex = w
        /\ stack'[n + 1].below = down'[w]
    BY CallStack DEF DagInv
  <2>2. n \in 1 .. n
    BY <2>1
  <2> QED
    BY <2>1, <2>2
<1>3. Vertices' = Vertices /\ Start' = Start
  <2>1. 1 \in 1 .. n
    BY <1>2
  <2> QED
    BY <1>2, <2>1, ReducesCuts DEF Reduces, Start
<1>4. StartedRanked(r)'
  BY <1>0, <1>1, <1>3 DEF Ranked, StartedRanked
<1>5. CASE phase = "depths"
  <2>1. up' = up /\ down' = down /\ depth' = [depth EXCEPT ![w] = n + 1]
    BY <1>5 DEF Descend, edges
  <2>2. IsRanking(r)' /\ Uncut(r)'
    BY <1>1, <2>1, SameRanking DEF Reduces, Ranked
  <2>3. FramesRanked(r)'
    <3> SUFFICES ASSUME NEW i \in 1 .. n + 1, NEW v \in Names, stack'[i].vertex \in up[v]
                 PROVE  \/ r[v] # 0
                        \/ v \in stack'[i].below
                        \/ i < n + 1 /\ v = stack'[i + 1].vertex
      BY <1>2, <2>1 DEF FramesRanked
    <3>1. CASE i = n + 1
      <4>1. v \in down[w]
        BY <1>2, <3>1 DEF DagInv, EdgesMirrored
      <4> QED
        BY <1>2, <2>1, <3>1, <4>1
    <3>2. CASE i = n
      <4>1. i \in 1 .. n /\ ~(i < n) /\ i < n + 1
        BY <1>2, <3>2
      <4>2. r[v] # 0 \/ v \in stack[i].below
        BY <1>1, <1>2, <1>5, <4>1 DEF Ranked, FramesRanked
      <4> QED
        BY <1>2, <3>2, <4>1, <4>2
    <3>3. CASE i \in 1 .. n /\ i # n
      <4>1. i \in 1 .. n /\ i + 1 \in 1 .. n /\ i < n
        BY <1>2, <3>3
      <4>2. r[v] # 0 \/ v \in stack[i].below \/ v = stack[i + 1].vertex
        BY <1>1, <1>2, <1>5, <4>1 DEF Ranked, FramesRanked
      <4>3. stack'[i].below = stack[i].below /\ stack'[i + 1].vertex = stack[i + 1].vertex
        BY <1>2, <3>3, <4>1
      <4>4. i < n + 1
        BY <1>2, <4>1
      <4> QED
        BY <4>2, <4>3, <4>4
    <3> QED
      BY <1>2, <3>1, <3>2, <3>3
  <2>4. MetRanked(r)'
    <3> SUFFICES ASSUME NEW v \in Names, depth'[v] # 0
                 PROVE  r[v] # 0 \/ \E i \in 1 .. n + 1 : v = stack'[i].vertex
      BY <1>0, <1>2, <1>5 DEF MetRanked
    <3>1. CASE v = w
      BY <1>2, <3>1
    <3>2. CASE v # w
      <4>1. depth[v] # 0 /\ stack # << >>
        BY <2>1, <3>2 DEF Descend, DagInv, TypeOK
      <4>2. r[v] # 0 \/ \E i \in 1 .. n : v = stack[i].vertex
        BY <1>1, <4>1 DEF Ranked, MetRanked
      <4>3. \A i \in 1 .. n : i \in 1 .. n + 1 /\ stack'[i].vertex = stack[i].vertex
        BY <1>2
      <4> QED
        BY <4>2, <4>3
    <3> QED
      BY <3>1, <3>2
  <2> QED
    BY <1>1, <1>4, <2>2, <2>3, <2>4 DEF RankInv, Ranked
<1>6. CASE phase = "cuts"
  <2>1. Cut(w) /\ depth' = depth /\ stack # << >>
    BY <1>6 DEF Descend
  <2>2. \A v \in Names : depth[v] # 0 => r[v] # 0
    BY <1>1, <1>6, <2>1 DEF Ranked, MetRanked
  <2>3. \A v \in Names : \A u \in up[v] \ up'[v] : r[u] # 0
    BY <2>1, <2>2, CutEdges DEF DagInv, TypeOK
  <2>4. IsRanking(r)' /\ Uncut(r)'
    BY <1>1, <2>3, SameRanking DEF Reduces, Ranked
  <2>5. FramesRanked(r)' /\ MetRanked(r)'
    BY <1>0, <1>6, <2>1, <2>2 DEF FramesRanked, MetRanked
  <2> QED
    BY <1>1, <1>4, <2>4, <2>5 DEF RankInv, Ranked
<1> QED
  BY <1>0, <1>5, <1>6

\* A vertex is ranked when the first walk returns from it.
LEMMA ReturnRank ==
  ASSUME DagInv, PathInv, RankInv, Return PROVE RankInv'
<1> DEFINE n == Len(stack)
           t == stack[n].vertex
<1>0. /\ phase \in {"depths", "cuts"} /\ stack # << >>
      /\ UNCHANGED <<phase, todo, depth>> /\ up' = up
  <2>1. stack # << >>
    BY EmptySeq DEF Return
  <2> QED
    BY <2>1 DEF Return, PathInv, Calling, edges
<1> PICK k \in Nat : \E r \in [Names -> 0 .. k] : Ranked(r)
  BY <1>0 DEF RankInv, Walking
<1>1. PICK r \in [Names -> 0 .. k] : Ranked(r)
  OBVIOUS
<1>2. /\ n \in Nat /\ n > 1
      /\ Len(stack') = n - 1
      /\ \A i \in 1 .. n - 1 : stack'[i] = stack[i]
      /\ stack[n].below = {}
  BY ReturnStack DEF DagInv, Return, Top
<1>3. Vertices' = Vertices /\ Start' = Start
  <2>1. 1 \in 1 .. n - 1
    BY <1>2
  <2> QED
    BY <1>2, <2>1, ReducesCuts DEF Reduces, Start
<1>4. CASE phase = "depths"
  <2>1. t \in Names /\ \A v \in Names : t \in up[v] => r[v] # 0
    <3>1. n \in 1 .. n /\ ~(n < n)
      BY <1>2
    <3>2. t \in Names
      BY <1>2, <3>1 DEF PathInv, Path, Vertices, Names, Listed
    <3> QED
      BY <1>1, <1>2, <1>4, <3>1, <3>2 DEF Ranked, FramesRanked
  <2>2. PICK q \in [Names -> 0 .. k + 1] :
          IsRanking(q) /\ Uncut(q) /\ q[t] # 0 /\ \A v \in Names : r[v] # 0 => q[v] # 0
    BY <1>1, <2>1, Rise DEF Ranked
  <2>3. IsRanking(q)' /\ Uncut(q)'
    BY <1>0, <2>2, SameRanking DEF Reduces
  <2>4. FramesRanked(q)'
    <3> SUFFICES ASSUME NEW i \in 1 .. n - 1, NEW v \in Names, stack'[i].vertex \in up[v]
                 PROVE  \/ q[v] # 0
                        \/ v \in stack'[i].below
                        \/ i < n - 1 /\ v = stack'[i + 1].vertex
      BY <1>0, <1>2 DEF FramesRanked
    <3>1. i \in 1 .. n /\ stack'[i] = stack[i]
      BY <1>2
    <3>2. r[v] # 0 \/ v \in stack[i].below \/ v = stack[i + 1].vertex
      BY <1>1, <1>4, <3>1 DEF Ranked, FramesRanked
    <3>3. CASE i = n - 1
      <4>1. i + 1 = n
        BY <1>2, <3>3
      <4> QED
        BY <2>2, <3>1, <3>2, <4>1
    <3>4. CASE i < n - 1
      <4>1. i + 1 \in 1 .. n - 1
        BY <1>2, <3>4
      <4> QED
        BY <1>2, <2>2, <3>1, <3>2, <3>4, <4>1
    <3> QED
      BY <1>2, <3>3, <3>4
  <2>5. StartedRanked(q)'
    <3>1. Vertices \subseteq Names
      BY DEF Vertices, Names, Listed
    <3> QED
      BY <1>0, <1>1, <1>3, <2>2, <3>1 DEF Ranked, StartedRanked
  <2>6. MetRanked(q)'
    <3> SUFFICES ASSUME NEW v \in Names, depth[v] # 0
                 PROVE  q[v] # 0 \/ \E i \in 1 .. n - 1 : v = stack'[i].vertex
      BY <1>0, <1>2, <1>4 DEF MetRanked
    <3>1. r[v] # 0 \/ \E i \in 1 .. n : v = stack[i].vertex
      BY <1>0, <1>1 DEF Ranked, MetRanked
    <3>2. ASSUME NEW i \in 1 .. n, v = stack[i].vertex
          PROVE  q[v] # 0 \/ \E j \in 1 .. n - 1 : v = stack'[j].vertex
      <4>1. CASE i = n
        BY <2>2, <3>2, <4>1
      <4>2. CASE i # n
        <5>1. i \in 1 .. n - 1
          BY <1>2, <4>2
        <5> QED
          BY <1>2, <3>2, <5>1
      <4> QED
        BY <4>1, <4>2
    <3> QED
      BY <2>2, <3>1, <3>2
  <2>7. k + 1 \in Nat
    OBVIOUS
  <2>8. Ranked(q)'
    BY <2>3, <2>4, <2>5, <2>6 DEF Ranked
  <2> QED
    BY <2>2, <2>7, <2>8 DEF RankInv
<1>5. CASE phase = "cuts"
  <2>1. IsRanking(r)' /\ Uncut(r)'
    BY <1>0, <1>1, SameRanking DEF Reduces, Ranked
  <2>2. FramesRanked(r)' /\ MetRanked(r)' /\ StartedRanked(r)'
    BY <1>0, <1>1, <1>3, <1>5 DEF Ranked, FramesRanked, MetRanked, StartedRanked
  <2> QED
    BY <1>1, <2>1, <2>2 DEF RankInv, Ranked
<1> QED
  BY <1>0, <1>4, <1>5

\* The vertex that a walk has begun with is ranked when the first walk has ended:
\* then all that it has met is.
LEMMA StartCutsRanked ==
  ASSUME DagInv, PathInv, RankInv, StartCuts
  PROVE  \E k \in Nat : \E q \in [Names -> 0 .. k] :
           Ranked(q)' /\ \A v \in Names : depth[v] # 0 => q[v] # 0
<1>0. /\ phase = "depths" /\ phase' = "cuts" /\ stack # << >>
      /\ UNCHANGED <<todo, depth>>
      /\ Len(stack) = 1 /\ stack[1].below = {}
      /\ Cut(Start) /\ Start' = Start
  <2>1. Top = stack[1] /\ Len(stack) = 1 /\ Len(stack) # 0
    BY DEF StartCuts, Top
  <2>2. stack' = <<Call(Start, down'[Start])>>
    BY <2>1 DEF StartCuts, Start
  <2>3. Start' = Start
    BY <2>2 DEF Start, Call
  <2> QED
    BY <2>1, <2>3, EmptySeq DEF StartCuts, Start
<1> PICK k \in Nat : \E r \in [Names -> 0 .. k] : Ranked(r)
  BY <1>0 DEF RankInv, Walking
<1>1. PICK r \in [Names -> 0 .. k] : Ranked(r)
  OBVIOUS
<1>2. 1 \in 1 .. Len(stack) /\ ~(1 < Len(stack)) /\ \A i \in 1 .. Len(stack) : i = 1
  BY <1>0
<1>3. Start \in Vertices /\ Start \in Names /\ \A v \in Names : Start \in up[v] => r[v] # 0
  <2>1. Start \in Vertices
    BY <1>2 DEF PathInv, Path, Start
  <2>2. Start \in Names
    BY <2>1 DEF Vertices, Names, Listed
  <2> QED
    BY <1>0, <1>1, <1>2, <2>1, <2>2 DEF Ranked, FramesRanked, Start
<1>4. PICK q \in [Names -> 0 .. k + 1] :
        IsRanking(q) /\ Uncut(q) /\ q[Start] # 0 /\ \A v \in Names : r[v] # 0 => q[v] # 0
  BY <1>1, <1>3, Rise DEF Ranked
<1>5. \A v \in Names : depth[v] # 0 => q[v] # 0
  BY <1>0, <1>1, <1>2, <1>4 DEF Ranked, MetRanked, Start
<1>6. IsRanking(q)' /\ Uncut(q)'
  <2>1. \A v \in Names : \A u \in up[v] \ up'[v] : q[u] # 0
    BY <1>0, <1>3, <1>5, CutEdges DEF DagInv, TypeOK
  <2> QED
    BY <1>4, <2>1, SameRanking DEF Reduces
<1>7. FramesRanked(q)' /\ MetRanked(q)'
  BY <1>0, <1>5 DEF FramesRanked, MetRanked
<1>8. StartedRanked(q)'
  <2>1. Vertices' = Vertices /\ Vertices \subseteq Names
    BY ReducesCuts DEF Reduces, Vertices, Names, Listed
  <2> QED
    BY <1>0, <1>1, <1>4, <2>1 DEF Ranked, StartedRanked
<1>9. Ranked(q)' /\ k + 1 \in Nat
  BY <1>6, <1>7, <1>8 DEF Ranked
<1> QED
  BY <1>4, <1>5, <1>9

\* So the second walk begins, and ends, with a ranking.
LEMMA StartCutsRank ==
  ASSUME DagInv, PathInv, RankInv, StartCuts PROVE RankInv'
  BY StartCutsRanked DEF RankInv

\* The end of a walk, and that of all, leave the ranking alone.
LEMMA EndRank ==
  ASSUME DagInv, PathInv, RankInv, EndCuts \/ EndReduction PROVE RankInv'
<1>0. /\ phase \in {"reduce", "cuts"} /\ phase' \in {"reduce", "done"}
      /\ stack' = << >> /\ todo' = todo /\ up' = up
  BY DEF EndCuts, EndReduction, PathInv, Calling, edges, walk
<1> PICK k \in Nat : \E r \in [Names -> 0 .. k] : Ranked(r)
  BY <1>0 DEF RankInv, Walking
<1>1. PICK r \in [Names -> 0 .. k] : Ranked(r)
  OBVIOUS
<1>2. IsRanking(r)' /\ Uncut(r)'
  BY <1>0, <1>1, SameRanking DEF Reduces, Ranked
<1>3. Vertices' = Vertices
  BY ReducesCuts DEF Reduces
<1>4. FramesRanked(r)' /\ MetRanked(r)' /\ StartedRanked(r)'
  BY <1>0, <1>1, <1>3 DEF Ranked, FramesRanked, MetRanked, StartedRanked
<1> QED
  BY <1>1, <1>2, <1>4 DEF RankInv, Ranked

\* A step of the reduction keeps what is said of the ranks.
LEMMA ReducesRank ==
  ASSUME DagInv, DagInv', PathInv, RankInv, Reduces PROVE RankInv'
<1>1. Overflow => RankInv'
  BY DEF Overflow, RankInv, Walking
<1> QED
  BY <1>1, StartRank, DescendRank, ReturnRank, StartCutsRank, EndRank DEF Reduces

\* The walks rank what they have met: every vertex higher than all that is below
\* it along the edges that the graph was generated with.
THEOREM RankInvariant == Spec => []RankInv
<1>1. Init => RankInv
  BY DEF Init, RankInv, Walking
<1>2. DagInv /\ DagInv' /\ PathInv /\ RankInv /\ [Next]_vars => RankInv'
  <2> SUFFICES ASSUME DagInv, DagInv', PathInv, RankInv, [Next]_vars PROVE RankInv'
    OBVIOUS
  <2>1. CASE AddDependencies \/ Resolve
    BY <2>1 DEF AddDependencies, Resolve, RankInv, Walking
  <2>2. CASE GenerateDAG
    BY <2>2, GenerateRank
  <2>3. CASE Reduces
    BY <2>3, ReducesRank
  <2>4. CASE UNCHANGED vars
    <3>1. UNCHANGED <<mentions, provider, deps, up, phase, todo, depth, stack>>
      BY <2>4 DEF vars, edges, walk
    <3>2. Vertices' = Vertices /\ \A n : Upstream(n)' = Upstream(n)
      BY <3>1 DEF Vertices, Upstream
    <3>3. \A r : Ranked(r)' = Ranked(r)
      BY <3>1, <3>2 DEF Ranked, IsRanking, Uncut, FramesRanked, StartedRanked, MetRanked, Start
    <3> QED
      BY <3>1, <3>3 DEF RankInv
  <2> QED
    BY <2>1, <2>2, <2>3, <2>4 DEF Next, Reduces
<1> QED
  BY <1>1, <1>2, DagInvariant, PathInvariant, PTL DEF Spec

\* When there is nothing left to start from, every vertex is ranked.
LEMMA AllRanked ==
  ASSUME PathInv, RankInv, phase = "done"
  PROVE  \E k \in Nat : \E r \in [Names -> 0 .. k] :
           IsRanking(r) /\ \A v \in Vertices : r[v] # 0 /\ v \in Names
<1>1. \E k \in Nat : \E r \in [Names -> 0 .. k] : Ranked(r)
  BY DEF RankInv, Walking
<1> QED
  BY <1>1 DEF Ranked, StartedRanked, PathInv, NoneLeft, Vertices, Names, Listed

\* Every vertex of a graph that is done is below the root: what leads to one that
\* is not would be another, ranked higher.
THEOREM AllAreReached == Spec => []AllReached
<1>1. DagInv /\ PathInv /\ RankInv => AllReached
  <2> SUFFICES ASSUME DagInv, PathInv, RankInv, phase = "done", NamesVertices,
                      NEW S \in SUBSET Names,
                      \A n \in Names : up[n] \cap (S \cup {Root}) # {} => n \in S
               PROVE  Vertices \ {Root} \subseteq S
    BY DEF AllReached, Below, Vertices, Names, Listed
  <2> PICK k \in Nat : \E r \in [Names -> 0 .. k] :
             IsRanking(r) /\ \A v \in Vertices : r[v] # 0 /\ v \in Names
    BY AllRanked
  <2>1. PICK r \in [Names -> 0 .. k] : IsRanking(r) /\ \A v \in Vertices : r[v] # 0 /\ v \in Names
    OBVIOUS
  <2> DEFINE U == (Vertices \ {Root}) \ S
  <2> SUFFICES ASSUME U # {} PROVE FALSE
    OBVIOUS
  <2>2. \A u \in U : r[u] \in 0 .. k
    BY <2>1
  <2> HIDE DEF U
  <2>3. PICK u \in U : \A v \in U : r[v] <= r[u]
    BY <2>2, Highest
  <2>4. u \in Vertices \ {Root} /\ u \notin S /\ u \in Names
    BY <2>1 DEF U
  <2>5. PICK w \in up[u] : w \in Vertices
    BY <2>4 DEF DagInv, KeepsUpstream, EdgesJoinVertices, TypeOK
  <2>6. w \notin S /\ w # Root
    BY <2>4, <2>5
  <2>7. w \in U
    BY <2>5, <2>6 DEF U
  <2>8. w \in Upstream(u) /\ r[w] # 0 /\ w \in Names
    BY <2>1, <2>4, <2>5 DEF PathInv, OnlyCut
  <2>9. r[u] < r[w]
    BY <2>1, <2>4, <2>8 DEF IsRanking
  <2> QED
    BY <2>2, <2>3, <2>7, <2>9
<1> QED
  BY <1>1, DagInvariant, PathInvariant, RankInvariant, PTL

\* No package with a cycle gets through the reduction, whatever the walks that
\* come before the one that meets it have cut.
THEOREM NoCycleIsDone == Spec => []DoneIsAcyclic
<1>1. DagInv /\ PathInv /\ RankInv => DoneIsAcyclic
  <2> SUFFICES ASSUME DagInv, PathInv, RankInv, phase = "done", ~provider,
                      NEW C \in SUBSET Blocks, \A n \in C : mentions[n] \cap C # {}, C # {}
               PROVE  FALSE
    BY DEF DoneIsAcyclic, Acyclic
  <2> PICK k \in Nat : \E r \in [Names -> 0 .. k] :
             IsRanking(r) /\ \A v \in Vertices : r[v] # 0 /\ v \in Names
    BY AllRanked
  <2>1. PICK r \in [Names -> 0 .. k] : IsRanking(r) /\ \A v \in Vertices : r[v] # 0 /\ v \in Names
    OBVIOUS
  <2>2. \A n \in C : n \in Vertices /\ n \in Names /\ n # Root /\ r[n] \in 0 .. k
    BY <2>1, PackageAssumption DEF Vertices, Listed
  <2>3. PICK n \in C : \A m \in C : r[m] <= r[n]
    BY <2>2, Highest
  <2>4. PICK m \in C : m \in mentions[n]
    OBVIOUS
  <2>5. m \in deps[n]
    BY <2>4 DEF PathInv, DepsExact, Dependencies, Listed
  <2>6. m \in Upstream(n)
    BY <2>2, <2>5 DEF Upstream
  <2>7. r[n] < r[m]
    BY <2>1, <2>2, <2>6 DEF IsRanking
  <2> QED
    BY <2>2, <2>3, <2>7
<1> QED
  BY <1>1, DagInvariant, PathInvariant, RankInvariant, PTL
-----------------------------------------------------------------------------
(* What the two walks from a vertex do *)

\* The first walk has met all below its vertex when it ends, and has met every
\* other vertex below one that it has met.
MetInv ==
  phase = "depths" =>
    /\ depth[Start] # 0
    /\ \A i \in 1 .. Len(stack) :
         depth[stack[i].vertex] # 0 /\ \A v \in stack[i].below : stack[i].vertex \in up[v]
    /\ \A x, y \in Names : depth[x] # 0 /\ x \in up[y] =>
         \/ depth[y] # 0
         \/ \E i \in 1 .. Len(stack) : x = stack[i].vertex /\ y \in stack[i].below
    /\ \A x \in Names : depth[x] # 0 /\ ~(x = Start /\ depth[x] = 1) =>
         depth[x] # 1 /\ \E y \in up[x] : depth[y] # 0

\* In the second walk its vertex is the only one of depth 1.  Where it has been,
\* no edge is left beside one from that vertex but those that come from elsewhere.
Alone(v) == \A w \in up[v] : w = Start \/ depth[w] = 0
CutsInv ==
  phase = "cuts" =>
    /\ \A x \in Names : depth[x] = 1 <=> x = Start
    /\ \A x \in Below(up, Start) : depth[x] # 0
    /\ \A v \in Names : Start \in up[v] => v \in stack[1].below \/ Alone(v)

\* No edge from a vertex that the reduction has done with is left beside a longer
\* path from it.
ReducedAt(u) ==
  \A v \in Names : u \in up[v] => \A w \in up[v] : w \notin Below(up, u)

ReducedInv ==
  phase \in Walking =>
    \A u \in Vertices :
      \/ u \in todo
      \/ phase \in {"depths", "cuts"} /\ u = Start
      \/ ReducedAt(u)

\* A walk that begins has met its vertex.
LEMMA StartMet ==
  ASSUME DagInv, PathInv, NEW v \in Names, StartFrom(v) PROVE MetInv'
<1>1. /\ Len(stack') = 1 /\ stack'[1].vertex = v /\ stack'[1].below = down[v]
      /\ depth' = [n \in Names |-> IF n = v THEN 1 ELSE 0] /\ up' = up
  BY StartPath DEF StartFrom, Call, edges
<1>2. Start' = v /\ \A i \in 1 .. Len(stack') : i = 1
  BY <1>1 DEF Start
<1>3. \A w \in Names : v \in up[w] <=> w \in down[v]
  BY DEF DagInv, EdgesMirrored
<1>4. down[v] \subseteq Names
  BY DEF DagInv, TypeOK
<1>5. \A x \in Names : depth'[x] # 0 => x = v /\ depth'[x] = 1
  BY <1>1
<1>6. 1 \in 1 .. Len(stack')
  BY <1>1
<1> QED
  BY <1>1, <1>2, <1>3, <1>4, <1>5, <1>6 DEF MetInv

\* A call in the first walk meets its vertex below another that is met.
LEMMA DescendMet ==
  ASSUME DagInv, DagInv', PathInv, MetInv, NEW w \in Names, Descend(w) PROVE MetInv'
<1> SUFFICES ASSUME phase' = "depths" PROVE MetInv'
  BY DEF MetInv
<1> DEFINE n == Len(stack)
<1>1. /\ n \in Nat \ {0} /\ Len(stack') = n + 1
      /\ \A i \in 1 .. n :
           /\ stack'[i].vertex = stack[i].vertex
           /\ stack'[i].below = IF i = n THEN stack[i].below \ {w} ELSE stack[i].below
      /\ stack'[n + 1].vertex = w
      /\ stack'[n + 1].below = down'[w]
      /\ w \in stack[n].below
  BY CallStack DEF DagInv
<1>2. phase = "depths" /\ up' = up /\ down' = down /\ depth' = [depth EXCEPT ![w] = n + 1]
  BY DEF Descend, edges
<1>3. 1 \in 1 .. n /\ n \in 1 .. n /\ Start' = Start
  <2>1. 1 \in 1 .. n /\ n \in 1 .. n
    BY <1>1
  <2> QED
    BY <1>1, <2>1 DEF Start
<1>4. depth'[w] = n + 1 /\ (\A x \in Names : x # w => depth'[x] = depth[x]) /\ Start \in Names
  BY <1>2, <1>3 DEF DagInv, TypeOK, PathInv, Path, Start, Vertices, Names, Listed
<1>5. depth'[w] # 0 /\ depth'[w] # 1
  BY <1>1, <1>4
<1>6. \A x \in Names : depth[x] # 0 => depth'[x] # 0
  BY <1>4, <1>5
<1>7. \A i \in 1 .. n : stack[i].vertex \in Names
  BY DEF PathInv, Path, Vertices, Names, Listed
<1>8. depth'[Start] # 0
  BY <1>2, <1>4, <1>6 DEF MetInv
<1>9. ASSUME NEW i \in 1 .. n + 1
      PROVE  depth'[stack'[i].vertex] # 0 /\ \A v \in stack'[i].below : stack'[i].vertex \in up[v]
  <2>1. CASE i = n + 1
    BY <1>1, <1>2, <1>5, <2>1 DEF DagInv, TypeOK, EdgesMirrored
  <2>2. CASE i \in 1 .. n
    <3>1. stack'[i].vertex = stack[i].vertex /\ stack'[i].below \subseteq stack[i].below
      BY <1>1, <2>2
    <3> QED
      BY <1>2, <1>6, <1>7, <2>2, <3>1 DEF MetInv
  <2> QED
    BY <1>1, <2>1, <2>2
<1>10. ASSUME NEW x \in Names, NEW y \in Names, depth'[x] # 0, x \in up[y], depth'[y] = 0
       PROVE  \E i \in 1 .. n + 1 : x = stack'[i].vertex /\ y \in stack'[i].below
  <2>1. CASE x = w
    <3>1. y \in down'[w] /\ n + 1 \in 1 .. n + 1
      BY <1>1, <1>2, <1>10, <2>1 DEF DagInv, EdgesMirrored
    <3> QED
      BY <1>1, <2>1, <3>1
  <2>2. CASE x # w
    <3>1. depth[x] # 0 /\ depth[y] = 0 /\ y # w
      BY <1>4, <1>5, <1>10, <2>2
    <3>2. PICK i \in 1 .. n : x = stack[i].vertex /\ y \in stack[i].below
      BY <1>2, <1>10, <3>1 DEF MetInv
    <3>3. i \in 1 .. n + 1 /\ stack'[i].vertex = stack[i].vertex /\ y \in stack'[i].below
      <4>1. stack'[i].below = stack[i].below \/ stack'[i].below = stack[i].below \ {w}
        BY <1>1
      <4>2. i \in 1 .. n + 1
        BY <1>1
      <4> QED
        BY <1>1, <3>1, <3>2, <4>1, <4>2
    <3> QED
      BY <3>2, <3>3
  <2> QED
    BY <2>1, <2>2
<1>11. ASSUME NEW x \in Names, depth'[x] # 0, ~(x = Start /\ depth'[x] = 1)
       PROVE  depth'[x] # 1 /\ \E y \in up[x] : depth'[y] # 0
  <2>1. CASE x = w
    <3>1. stack[n].vertex \in up[w] /\ depth[stack[n].vertex] # 0
      BY <1>1, <1>2, <1>3 DEF MetInv
    <3> QED
      BY <1>3, <1>5, <1>6, <1>7, <2>1, <3>1
  <2>2. CASE x # w
    <3>1. depth[x] # 1 /\ \E y \in up[x] : depth[y] # 0
      BY <1>2, <1>4, <1>11, <2>2 DEF MetInv
    <3>2. up[x] \subseteq Names
      BY DEF DagInv, TypeOK
    <3> QED
      BY <1>4, <1>6, <2>2, <3>1, <3>2
  <2> QED
    BY <2>1, <2>2
<1>12. /\ depth'[Start'] # 0
       /\ \A i \in 1 .. Len(stack') :
            depth'[stack'[i].vertex] # 0 /\ \A v \in stack'[i].below : stack'[i].vertex \in up'[v]
  <2>1. Len(stack') = n + 1 /\ up' = up /\ Start' = Start
    BY <1>1, <1>2, <1>3
  <2> QED
    BY <1>8, <1>9, <2>1
<1>13. \A x, y \in Names : depth'[x] # 0 /\ x \in up'[y] =>
         \/ depth'[y] # 0
         \/ \E i \in 1 .. Len(stack') : x = stack'[i].vertex /\ y \in stack'[i].below
  BY <1>1, <1>2, <1>10
<1>14. \A x \in Names : depth'[x] # 0 /\ ~(x = Start' /\ depth'[x] = 1) =>
         depth'[x] # 1 /\ \E y \in up'[x] : depth'[y] # 0
  BY <1>2, <1>3, <1>11
<1> QED
  BY <1>12, <1>13, <1>14 DEF MetInv

\* A return in the first walk leaves nothing unmet.
LEMMA ReturnMet ==
  ASSUME DagInv, PathInv, MetInv, Return PROVE MetInv'
<1> SUFFICES ASSUME phase' = "depths" PROVE MetInv'
  BY DEF MetInv
<1> DEFINE n == Len(stack)
<1>1. /\ n \in Nat /\ n > 1
      /\ Len(stack') = n - 1
      /\ \A i \in 1 .. n - 1 : stack'[i] = stack[i]
      /\ stack[n].below = {}
  BY ReturnStack DEF DagInv, Return, Top
<1>2. phase = "depths" /\ up' = up /\ depth' = depth
  BY DEF Return, edges
<1>3. 1 \in 1 .. n - 1 /\ Start' = Start
  BY <1>1 DEF Start
<1>4. \A i \in 1 .. n - 1 : i \in 1 .. n
  BY <1>1
<1>5. ASSUME NEW i \in 1 .. n, NEW y \in stack[i].below PROVE i \in 1 .. n - 1
  BY <1>1
<1>6. ASSUME NEW x \in Names, NEW y \in Names, depth[x] # 0, x \in up[y], depth[y] = 0
      PROVE  \E i \in 1 .. n - 1 : x = stack'[i].vertex /\ y \in stack'[i].below
  BY <1>1, <1>2, <1>5, <1>6 DEF MetInv
<1>7. \A i \in 1 .. n - 1 :
        /\ depth[stack'[i].vertex] # 0
        /\ \A v \in stack'[i].below : stack'[i].vertex \in up[v]
  BY <1>1, <1>2, <1>4 DEF MetInv
<1>8. /\ depth'[Start'] # 0
      /\ \A i \in 1 .. Len(stack') :
           depth'[stack'[i].vertex] # 0 /\ \A v \in stack'[i].below : stack'[i].vertex \in up'[v]
  BY <1>1, <1>2, <1>3, <1>7 DEF MetInv
<1>9. \A x, y \in Names : depth'[x] # 0 /\ x \in up'[y] =>
        \/ depth'[y] # 0
        \/ \E i \in 1 .. Len(stack') : x = stack'[i].vertex /\ y \in stack'[i].below
  BY <1>1, <1>2, <1>6
<1>10. \A x \in Names : depth'[x] # 0 /\ ~(x = Start' /\ depth'[x] = 1) =>
         depth'[x] # 1 /\ \E y \in up'[x] : depth'[y] # 0
  BY <1>2, <1>3 DEF MetInv
<1> QED
  BY <1>8, <1>9, <1>10 DEF MetInv

\* When the first walk has ended its vertex has kept depth 1, because nothing that
\* it has met is above it: all of that is ranked, and one highest.
LEMMA StartDepth ==
  ASSUME DagInv, PathInv, RankInv, MetInv, StartCuts
  PROVE  \A x \in Names : depth[x] = 1 <=> x = Start
<1> DEFINE M == {x \in Names : depth[x] # 0}
<1>1. phase = "depths" /\ stack # << >> /\ phase \notin Ungenerated
  BY EmptySeq DEF StartCuts
<1>2. 1 \in 1 .. Len(stack)
  BY DEF StartCuts
<1>3. Start \in Names /\ Start \in M
  BY <1>1, <1>2 DEF PathInv, Path, Start, Vertices, Names, Listed, MetInv
<1>4. ASSUME NEW x \in Names, depth[x] # 0, ~(x = Start /\ depth[x] = 1)
      PROVE  depth[x] # 1 /\ \E y \in up[x] : y \in M
  <2>1. depth[x] # 1 /\ \E y \in up[x] : depth[y] # 0
    BY <1>1, <1>4 DEF MetInv
  <2> QED
    BY <2>1 DEF DagInv, TypeOK
<1>5. PICK k \in Nat : \E q \in [Names -> 0 .. k] :
             Ranked(q)' /\ \A v \in Names : depth[v] # 0 => q[v] # 0
  BY StartCutsRanked
<1>6. PICK q \in [Names -> 0 .. k] : Ranked(q)' /\ \A v \in Names : depth[v] # 0 => q[v] # 0
  BY <1>5
<1>7. IsRanking(q)
  BY <1>6, ReducesCuts DEF Reduces, Ranked, IsRanking
<1>8. PICK x \in M : \A y \in M : q[y] <= q[x]
  <2>1. M # {} /\ \A y \in M : q[y] \in 0 .. k
    BY <1>3
  <2> HIDE DEF M
  <2> QED
    BY <2>1, Highest
<1>9. ASSUME NEW y \in up[x], y \in M PROVE FALSE
  <2>1. y \in Upstream(x) /\ q[y] # 0
    BY <1>1, <1>6, <1>9 DEF PathInv, OnlyCut
  <2>2. q[x] < q[y] /\ q[y] <= q[x] /\ q[x] \in 0 .. k /\ q[y] \in 0 .. k
    BY <1>7, <1>8, <1>9, <2>1 DEF IsRanking
  <2> QED
    BY <2>2
<1>10. x = Start /\ depth[x] = 1
  BY <1>4, <1>8, <1>9
<1> QED
  BY <1>4, <1>10

\* The second walk begins with all below its vertex met, and all right below it to
\* visit.
LEMMA StartCutsCuts ==
  ASSUME DagInv, DagInv', PathInv, RankInv, MetInv, StartCuts PROVE CutsInv'
<1>1. /\ phase = "depths" /\ stack # << >> /\ depth' = depth
      /\ Len(stack) = 1 /\ stack[1].below = {}
      /\ stack' = <<Call(Start, down'[Start])>>
  BY EmptySeq DEF StartCuts, Top, Start
<1>2. Start' = Start /\ stack'[1].below = down'[Start]
  BY <1>1 DEF Start, Call
<1>3. 1 \in 1 .. Len(stack) /\ \A i \in 1 .. Len(stack) : i = 1
  BY <1>1
<1>4. Start \in Names
  BY <1>3 DEF PathInv, Path, Start, Vertices, Names, Listed
<1>5. \A x \in Names : depth[x] = 1 <=> x = Start
  BY StartDepth
<1>6. \A x \in Below(up', Start) : depth[x] # 0
  <2> DEFINE M == {x \in Names : depth[x] # 0}
  <2>1. ASSUME NEW n \in Names, NEW u \in up[n], u \in M \cup {Start} PROVE n \in M
    <3>1. u \in Names /\ depth[u] # 0
      BY <1>1, <1>4, <2>1 DEF MetInv
    <3> QED
      BY <1>1, <1>3, <2>1, <3>1 DEF MetInv
  <2>2. Below(up, Start) \subseteq M
    <3>1. \A n \in Names : up[n] \cap (M \cup {Start}) # {} => n \in M
      BY <2>1
    <3>2. M \in SUBSET Names
      OBVIOUS
    <3> HIDE DEF M
    <3> QED
      BY <3>1, <3>2, BelowInside
  <2>3. Below(up', Start) \subseteq Below(up, Start)
    BY ReducesEdges, BelowFewer DEF Reduces
  <2> QED
    BY <2>2, <2>3
<1>7. \A v \in Names : Start \in up'[v] => v \in down'[Start]
  BY <1>4 DEF DagInv, EdgesMirrored
<1> QED
  BY <1>1, <1>2, <1>5, <1>6, <1>7 DEF CutsInv

\* A call in the second walk leaves no edge beside one from its first vertex that
\* comes from a vertex of the walk: they would have to be as deep.
LEMMA DescendCuts ==
  ASSUME DagInv, DagInv', PathInv, CutsInv, NEW w \in Names, Descend(w) PROVE CutsInv'
<1> SUFFICES ASSUME phase' = "cuts" PROVE CutsInv'
  BY DEF CutsInv
<1> DEFINE n == Len(stack)
<1>1. /\ n \in Nat \ {0}
      /\ \A i \in 1 .. n :
           /\ stack'[i].vertex = stack[i].vertex
           /\ stack[i].below \ {w} \subseteq stack'[i].below
  <2>1. /\ n \in Nat \ {0}
        /\ \A i \in 1 .. n :
             /\ stack'[i].vertex = stack[i].vertex
             /\ stack'[i].below = IF i = n THEN stack[i].below \ {w} ELSE stack[i].below
    BY CallStack DEF DagInv
  <2> QED
    BY <2>1
<1>2. phase = "cuts" /\ Cut(w) /\ depth' = depth
  BY DEF Descend
<1>3. 1 \in 1 .. n
  BY <1>1
<1>4. Start' = Start /\ stack[1].below \ {w} \subseteq stack'[1].below
  BY <1>1, <1>3 DEF Start
<1>5. \A v \in Names : up'[v] \subseteq up[v]
  BY ReducesEdges DEF Reduces
<1>6. \A x \in Below(up', Start) : depth[x] # 0
  <2>1. Below(up', Start) \subseteq Below(up, Start)
    BY <1>5, BelowFewer
  <2> QED
    BY <1>2, <2>1 DEF CutsInv
<1>7. ASSUME NEW v \in Names, Start \in up'[v]
      PROVE  v \in stack'[1].below \/ \A u \in up'[v] : u = Start \/ depth[u] = 0
  <2>1. CASE v = w
    <3>1. ASSUME NEW u \in up'[v], depth[u] # 0 PROVE u = Start
      <4>1. depth[Start] = 1 /\ u \in Names
        BY <1>2, <1>5, <1>7 DEF CutsInv, DagInv, TypeOK
      <4>2. depth[u] = depth[Start]
        BY <1>2, <1>7, <2>1, <3>1, <4>1, CutEdges DEF DagInv
      <4> QED
        BY <1>2, <4>1, <4>2 DEF CutsInv
    <3> QED
      BY <3>1
  <2>2. CASE v # w
    <3>1. v \in stack[1].below \/ Alone(v)
      BY <1>2, <1>5, <1>7 DEF CutsInv
    <3> QED
      BY <1>4, <1>5, <2>2, <3>1 DEF Alone
  <2> QED
    BY <2>1, <2>2
<1>8. \A x \in Names : depth[x] = 1 <=> x = Start
  BY <1>2 DEF CutsInv
<1> QED
  BY <1>2, <1>4, <1>6, <1>7, <1>8 DEF CutsInv, Alone

\* A return changes neither the edges nor what is to be visited from the first.
LEMMA ReturnCuts ==
  ASSUME DagInv, CutsInv, Return PROVE CutsInv'
<1>1. /\ Len(stack) \in Nat /\ Len(stack) > 1
      /\ Len(stack') = Len(stack) - 1
      /\ \A i \in 1 .. Len(stack') : stack'[i] = stack[i]
  BY ReturnStack DEF DagInv
<1>2. 1 \in 1 .. Len(stack')
  BY <1>1
<1>3. stack'[1] = stack[1]
  BY <1>1, <1>2
<1>4. phase' = phase /\ depth' = depth /\ up' = up
  BY DEF Return, edges
<1> QED
  BY <1>3, <1>4 DEF CutsInv, Start, Alone

\* What is said of the two walks is true from step to step.
LEMMA ReducesWalks ==
  ASSUME DagInv, DagInv', PathInv, RankInv, MetInv, CutsInv, Reduces PROVE MetInv' /\ CutsInv'
<1>1. CASE \E v \in Names : StartFrom(v)
  BY <1>1, StartMet DEF StartFrom, CutsInv
<1>2. CASE \E w \in Names : Descend(w)
  BY <1>2, DescendMet, DescendCuts
<1>3. CASE Return
  BY <1>3, ReturnMet, ReturnCuts
<1>4. CASE StartCuts
  BY <1>4, StartCutsCuts DEF StartCuts, MetInv
<1>5. CASE Overflow \/ EndCuts \/ EndReduction
  BY <1>5 DEF Overflow, EndCuts, EndReduction, MetInv, CutsInv
<1> QED
  BY <1>1, <1>2, <1>3, <1>4, <1>5 DEF Reduces

\* What is ranked is not below itself.
LEMMA NotBelowItself ==
  ASSUME PathInv, phase \notin Ungenerated, NEW k \in Nat, NEW r \in [Names -> 0 .. k], IsRanking(r),
         NEW s \in Names, r[s] # 0
  PROVE  s \notin Below(up, s)
<1> DEFINE S == {x \in Names : r[x] # 0 /\ r[x] < r[s]}
<1>1. ASSUME NEW n \in Names, NEW u \in up[n], u \in S \cup {s} PROVE n \in S
  <2>1. u \in Upstream(n) /\ u \in Names /\ r[u] # 0 /\ r[u] <= r[s]
    BY <1>1 DEF PathInv, OnlyCut
  <2>2. r[n] # 0 /\ r[n] < r[u]
    BY <2>1 DEF IsRanking
  <2>3. r[n] \in 0 .. k /\ r[u] \in 0 .. k /\ r[s] \in 0 .. k
    BY <2>1
  <2> QED
    BY <2>1, <2>2, <2>3
<1>2. S \in SUBSET Names /\ s \notin S
  <2>1. r[s] \in 0 .. k
    OBVIOUS
  <2> QED
    BY <2>1
<1>3. \A n \in Names : up[n] \cap (S \cup {s}) # {} => n \in S
  BY <1>1
<1> HIDE DEF S
<1> QED
  BY <1>2, <1>3, BelowInside

\* What the second walk leaves when it ends.
LEMMA EndCutsReduced ==
  ASSUME DagInv, PathInv, RankInv, CutsInv, EndCuts PROVE ReducedAt(Start)
<1>1. phase = "cuts" /\ stack # << >> /\ Len(stack) = 1 /\ stack[1].below = {}
  BY EmptySeq DEF EndCuts, Top
<1>2. Start \in Names /\ depth[Start] # 0
  <2>1. 1 \in 1 .. Len(stack)
    BY <1>1
  <2>2. Start \in Names
    BY <2>1 DEF PathInv, Path, Start, Vertices, Names, Listed
  <2>3. depth[Start] = 1
    BY <1>1, <2>2 DEF CutsInv
  <2> QED
    BY <2>2, <2>3
<1> PICK k \in Nat : \E r \in [Names -> 0 .. k] : Ranked(r)
  BY <1>1 DEF RankInv, Walking
<1>3. PICK r \in [Names -> 0 .. k] : Ranked(r)
  OBVIOUS
<1>4. Start \notin Below(up, Start)
  <2>1. r[Start] # 0 /\ IsRanking(r)
    BY <1>1, <1>2, <1>3 DEF Ranked, MetRanked
  <2> QED
    BY <1>1, <1>2, <2>1, NotBelowItself
<1>5. ASSUME NEW v \in Names, Start \in up[v], NEW w \in up[v], w \in Below(up, Start)
      PROVE  FALSE
  <2>1. depth[w] # 0
    BY <1>1, <1>5 DEF CutsInv
  <2>2. Alone(v)
    BY <1>1, <1>5 DEF CutsInv
  <2>3. w = Start
    BY <1>5, <2>1, <2>2 DEF Alone
  <2> QED
    BY <1>4, <1>5, <2>3
<1> QED
  BY <1>5 DEF ReducedAt

\* What is reduced stays so: an edge that is cut later shortens no path.
LEMMA StaysReduced ==
  ASSUME DagInv, Reduces, NEW u, ReducedAt(u) PROVE ReducedAt(u)'
<1>1. \A n \in Names : up'[n] \subseteq up[n]
  BY ReducesEdges
<1>2. Below(up', u) \subseteq Below(up, u)
  BY <1>1, BelowFewer
<1> QED
  BY <1>1, <1>2 DEF ReducedAt

\* A step of the reduction keeps what it has done.
LEMMA ReducesReduced ==
  ASSUME DagInv, DagInv', PathInv, RankInv, CutsInv, ReducedInv, Reduces PROVE ReducedInv'
<1> SUFFICES ASSUME phase' \in Walking, NEW u \in Vertices
             PROVE  \/ u \in todo'
                    \/ phase' \in {"depths", "cuts"} /\ u = Start'
                    \/ ReducedAt(u)'
  BY ReducesCuts DEF ReducedInv
<1>1. ReducedAt(u) => ReducedAt(u)'
  BY StaysReduced
<1>2. CASE \E v \in Names : StartFrom(v)
  <2> PICK v \in Names : StartFrom(v)
    BY <1>2
  <2>1. phase = "reduce" /\ phase' = "depths" /\ todo' = todo \ {v}
    BY DEF StartFrom
  <2>2. Start' = v
    <3>1. stack'[1] = Call(v, down[v])
      BY StartPath
    <3> QED
      BY <3>1 DEF Start, Call
  <2> QED
    BY <1>1, <2>1, <2>2 DEF ReducedInv, Walking
<1>3. CASE \E w \in Names : Descend(w)
  <2> PICK w \in Names : Descend(w)
    BY <1>3
  <2>1. phase \in {"depths", "cuts"} /\ phase' = phase /\ todo' = todo
    BY DEF Descend
  <2>2. Start' = Start
    <3>1. /\ Len(stack) \in Nat \ {0}
          /\ \A i \in 1 .. Len(stack) : stack'[i].vertex = stack[i].vertex
      BY CallStack DEF DagInv
    <3>2. 1 \in 1 .. Len(stack)
      BY <3>1
    <3> QED
      BY <3>1, <3>2 DEF Start
  <2> QED
    BY <1>1, <2>1, <2>2 DEF ReducedInv, Walking
<1>4. CASE Return
  <2>1. stack # << >> /\ phase' = phase /\ todo' = todo
    BY <1>4, EmptySeq DEF Return
  <2>2. Start' = Start
    <3>1. /\ Len(stack) \in Nat /\ Len(stack) > 1
          /\ Len(stack') = Len(stack) - 1
          /\ \A i \in 1 .. Len(stack') : stack'[i] = stack[i]
      BY <1>4, ReturnStack DEF DagInv
    <3>2. 1 \in 1 .. Len(stack')
      BY <3>1
    <3> QED
      BY <3>1, <3>2 DEF Start
  <2> QED
    BY <1>1, <2>1, <2>2 DEF ReducedInv
<1>5. CASE StartCuts
  <2>1. /\ phase = "depths" /\ phase' = "cuts" /\ todo' = todo
        /\ stack' = <<Call(Start, down'[Start])>>
    BY <1>5 DEF StartCuts, Top, Start
  <2>2. Start' = Start
    BY <2>1 DEF Start, Call
  <2> QED
    BY <1>1, <2>1, <2>2 DEF ReducedInv, Walking
<1>6. CASE EndCuts
  <2>1. phase = "cuts" /\ todo' = todo
    BY <1>6 DEF EndCuts
  <2>2. ReducedAt(Start)
    BY <1>6, EndCutsReduced
  <2> QED
    BY <1>1, <2>1, <2>2 DEF ReducedInv, Walking
<1>7. CASE EndReduction
  BY <1>1, <1>7 DEF EndReduction, ReducedInv, Walking, walk
<1> QED
  BY <1>2, <1>3, <1>4, <1>5, <1>6, <1>7 DEF Reduces, Overflow, Walking

\* What the two walks from each vertex do.
WalkedInv == MetInv /\ CutsInv /\ ReducedInv

\* The first walk meets all that is below its vertex, the second cuts the edges
\* beside the longer paths from it, and no later walk undoes that.
THEOREM WalkedInvariant == Spec => []WalkedInv
<1>1. Init => WalkedInv
  BY DEF Init, WalkedInv, MetInv, CutsInv, ReducedInv, Walking
<1>2. DagInv /\ DagInv' /\ PathInv /\ RankInv /\ WalkedInv /\ [Next]_vars => WalkedInv'
  <2> SUFFICES ASSUME DagInv, DagInv', PathInv, RankInv, WalkedInv, [Next]_vars PROVE WalkedInv'
    OBVIOUS
  <2>1. CASE AddDependencies \/ Resolve
    BY <2>1 DEF AddDependencies, Resolve, WalkedInv, MetInv, CutsInv, ReducedInv, Walking
  <2>2. CASE GenerateDAG
    <3>1. Vertices' = Vertices /\ todo' = Vertices
      BY <2>2 DEF GenerateDAG, Vertices
    <3> QED
      BY <2>2, <3>1 DEF GenerateDAG, WalkedInv, MetInv, CutsInv, ReducedInv
  <2>3. CASE Reduces
    BY <2>3, ReducesWalks, ReducesReduced DEF WalkedInv
  <2>4. CASE UNCHANGED vars
    <3>1. UNCHANGED <<provider, up, phase, todo, depth, stack>>
      BY <2>4 DEF vars, edges, walk
    <3>2. MetInv'
      BY <3>1 DEF WalkedInv, MetInv, Start
    <3>3. CutsInv'
      BY <3>1 DEF WalkedInv, CutsInv, Start, Alone
    <3>4. ReducedInv'
      BY <3>1 DEF WalkedInv, ReducedInv, ReducedAt, Start, Vertices
    <3> QED
      BY <3>2, <3>3, <3>4 DEF WalkedInv
  <2> QED
    BY <2>1, <2>2, <2>3, <2>4 DEF Next, Reduces
<1> QED
  BY <1>1, <1>2, DagInvariant, PathInvariant, RankInvariant, PTL DEF Spec

\* No edge from a vertex is left beside a longer path from it, in whatever order
\* the maps give the vertices.
THEOREM GraphIsReduced == Spec => []Reduced
<1>1. PathInv /\ WalkedInv => Reduced
  <2> SUFFICES ASSUME PathInv, ReducedInv, phase = "done",
                      NEW v \in Names, NEW u \in up[v] \cap Vertices, NEW w \in up[v]
               PROVE  w \notin Below(up, u)
    BY DEF Reduced, WalkedInv
  <2>1. ReducedAt(u)
    BY DEF ReducedInv, Walking, PathInv, NoneLeft
  <2> QED
    BY <2>1 DEF ReducedAt
<1> QED
  BY <1>1, PathInvariant, WalkedInvariant, PTL
-----------------------------------------------------------------------------
(* The graph that the executor gets *)

\* The edges that the walk of the executor goes along.
Edges == {e \in Vertices \X Vertices : e[2] \in down[e[1]]}

\* What DagExecutor takes for granted of its graphs (DagAssumption and AllBelow):
\* every edge, in whichever of the two maps, has a vertex at both ends, none leads
\* to the root, and a walk from the root arrives everywhere.
FitsExecutor ==
  phase = "done" /\ NamesVertices =>
    /\ \A u, v \in Names : v \in down[u] \/ u \in up[v] => <<u, v>> \in Edges
    /\ \A u \in Vertices : <<u, Root>> \notin Edges
    /\ \A S \in SUBSET Vertices :
         /\ Root \in S
         /\ \A u \in S, v \in Vertices : <<u, v>> \in Edges => v \in S
         => S = Vertices

\* The graphs that are generated are graphs that the executor can run: the link
\* between PackageDag and DagExecutor.
THEOREM GraphsFitExecutor == Spec => []FitsExecutor
<1>1. DagInv /\ AllReached => FitsExecutor
  <2> SUFFICES ASSUME DagInv, AllReached, phase = "done", NamesVertices
               PROVE  /\ \A u, v \in Names : v \in down[u] \/ u \in up[v] => <<u, v>> \in Edges
                      /\ \A u \in Vertices : <<u, Root>> \notin Edges
                      /\ \A S \in SUBSET Vertices :
                           /\ Root \in S
                           /\ \A u \in S, v \in Vertices : <<u, v>> \in Edges => v \in S
                           => S = Vertices
    BY DEF FitsExecutor
  <2>1. Root \in Names /\ Vertices \subseteq Names /\ Root \in Vertices
    BY DEF Vertices, Names, Listed
  <2>2. \A u, v \in Names : v \in down[u] <=> u \in up[v]
    BY DEF DagInv, EdgesMirrored
  <2>3. \A u, v \in Names : u \in up[v] => u \in Vertices /\ v \in Vertices \ {Root}
    BY DEF DagInv, EdgesJoinVertices
  <2>4. \A u, v \in Names : v \in down[u] \/ u \in up[v] => <<u, v>> \in Edges
    BY <2>2, <2>3 DEF Edges
  <2>5. \A u \in Vertices : <<u, Root>> \notin Edges
    BY <2>1, <2>2, <2>3 DEF Edges
  <2>6. ASSUME NEW S \in SUBSET Vertices, Root \in S,
               \A u \in S, v \in Vertices : <<u, v>> \in Edges => v \in S
        PROVE  S = Vertices
    <3> DEFINE T == S \ {Root}
    <3>1. T \in SUBSET Names
      BY <2>1
    <3>2. ASSUME NEW n \in Names, up[n] \cap (T \cup {Root}) # {} PROVE n \in T
      <4>1. PICK u \in S : u \in up[n]
        BY <2>6, <3>2
      <4>2. u \in Names /\ n \in Vertices \ {Root}
        BY <2>1, <2>3, <4>1
      <4> QED
        BY <2>4, <2>6, <4>1, <4>2
    <3> HIDE DEF T
    <3>3. Below(up, Root) \subseteq T
      BY <3>1, <3>2 DEF Below
    <3>4. Vertices \ {Root} \subseteq T
      BY <3>3 DEF AllReached
    <3> QED
      BY <2>6, <3>4 DEF T
  <2> QED
    BY <2>4, <2>5, <2>6
<1> QED
  BY <1>1, DagInvariant, AllAreReached, PTL
===============================================================================
