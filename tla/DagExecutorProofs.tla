-------------------------- MODULE DagExecutorProofs --------------------------
(***************************************************************************)
(* Proofs about DagExecutor, for any graph and any number of jobs.         *)
(***************************************************************************)
EXTENDS DagExecutor, TLAPS

\* Every step of the walk and of its caller keeps the variables in their types.
LEMMA TypeStep == TypeOK /\ [Next]_vars => TypeOK'
<1> SUFFICES ASSUME TypeOK, [Next]_vars PROVE TypeOK'
  OBVIOUS
<1>a. dag \in Dags /\ calls \in [Vertices -> Nat] /\ entering \in [Vertices -> Nat]
  BY DEF TypeOK
<1>b. pc \in [Vertices -> [Jobs -> Phases]]
  BY DEF TypeOK
<1>c. left \in [Vertices -> [Jobs -> SUBSET Vertices]]
  BY DEF TypeOK
<1>d. at \in [Vertices -> [Jobs -> Vertices \cup {None}]]
  BY DEF TypeOK
<1>e. result \in [Vertices -> {"none", "ok", "failed"}]
  BY DEF TypeOK
<1>f. /\ visited \subseteq Vertices /\ closed \subseteq Vertices \X Vertices
      /\ main \in {"walk", "wait", "succeeded", "failed"}
      /\ pending \subseteq Vertices /\ awaiting \in Vertices \cup {None}
      /\ cancelled \in BOOLEAN
  BY DEF TypeOK
<1> HIDE DEF TypeOK
<1> DEFINE Types ==
      /\ dag' \in Dags /\ calls' \in [Vertices -> Nat] /\ entering' \in [Vertices -> Nat]
      /\ pc' \in [Vertices -> [Jobs -> Phases]]
      /\ left' \in [Vertices -> [Jobs -> SUBSET Vertices]]
      /\ at' \in [Vertices -> [Jobs -> Vertices \cup {None}]]
      /\ result' \in [Vertices -> {"none", "ok", "failed"}]
      /\ visited' \subseteq Vertices /\ closed' \subseteq Vertices \X Vertices
      /\ main' \in {"walk", "wait", "succeeded", "failed"}
      /\ pending' \subseteq Vertices /\ awaiting' \in Vertices \cup {None}
      /\ cancelled' \in BOOLEAN
<1>0. Types => TypeOK'
  BY DEF TypeOK
<1> USE DEF walkVars, jobVars, mainVars
<1>1. ASSUME NEW v \in Vertices, CheckVisited(v) PROVE TypeOK'
  <2>1. calls[v] \in Nat /\ calls[v] - 1 \in Nat
    BY <1>1, <1>a DEF CheckVisited
  <2>2. [calls EXCEPT ![v] = @ - 1] \in [Vertices -> Nat]
    BY <2>1, <1>a
  <2>3. calls' \in [Vertices -> Nat]
    BY <1>1, <2>2 DEF CheckVisited, Descend
  <2>4. entering' \in [Vertices -> Nat]
    BY <1>1, <1>a DEF CheckVisited
  <2> QED BY <1>1, <2>3, <2>4, <1>0, <1>a, <1>b, <1>c, <1>d, <1>e, <1>f DEF CheckVisited
<1>2. ASSUME NEW v \in Vertices, NEW j \in Jobs, Schedule(v, j) PROVE TypeOK'
  <2>1. entering' \in [Vertices -> Nat]
    BY <1>2, <1>a DEF Schedule
  <2>2. calls' \in [Vertices -> Nat]
    BY <1>2, <1>a DEF Schedule, Descend
  <2>3. pc' \in [Vertices -> [Jobs -> Phases]]
    BY <1>2, <1>b DEF Schedule, Phases
  <2>4. left' \in [Vertices -> [Jobs -> SUBSET Vertices]]
    BY <1>2, <1>c DEF Schedule, Up
  <2> QED
    BY <1>2, <2>1, <2>2, <2>3, <2>4, <1>0, <1>a, <1>d, <1>e, <1>f DEF Schedule
<1>3. ASSUME NEW v \in Vertices, NEW j \in Jobs, NextDependency(v, j) PROVE TypeOK'
  <2>1. pc' \in [Vertices -> [Jobs -> Phases]]
    BY <1>3, <1>b DEF NextDependency, Phases
  <2>2. at' \in [Vertices -> [Jobs -> Vertices \cup {None}]]
    <3>1. left[v][j] \subseteq Vertices
      BY <1>c
    <3>2. at' = at \/ \E u \in left[v][j] : at' = [at EXCEPT ![v][j] = u]
      BY <1>3 DEF NextDependency
    <3>3. ASSUME NEW u \in Vertices
          PROVE  [at EXCEPT ![v][j] = u] \in [Vertices -> [Jobs -> Vertices \cup {None}]]
      BY <1>d
    <3> QED BY <3>1, <3>2, <3>3, <1>d
  <2> QED BY <1>3, <2>1, <2>2, <1>0, <1>a, <1>c, <1>e, <1>f DEF NextDependency
<1>4. ASSUME NEW u \in Vertices, NEW v \in Vertices, NEW i \in Jobs, NEW j \in Jobs,
             Signal(u, i, v, j)
      PROVE  TypeOK'
  <2>1. left' \in [Vertices -> [Jobs -> SUBSET Vertices]]
    <3> DEFINE l == [left EXCEPT ![u][i] = @ \ {v}]
    <3>1. l \in [Vertices -> [Jobs -> SUBSET Vertices]]
      BY <1>c
    <3>2. left' = [l EXCEPT ![v][j] = @ \ {u}]
      BY <1>4 DEF Signal
    <3> HIDE DEF l
    <3> QED BY <3>1, <3>2
  <2>2. at' \in [Vertices -> [Jobs -> Vertices \cup {None}]]
    <3> DEFINE a == [at EXCEPT ![u][i] = None]
    <3>1. a \in [Vertices -> [Jobs -> Vertices \cup {None}]]
      BY <1>d
    <3>2. at' = [a EXCEPT ![v][j] = None]
      BY <1>4 DEF Signal
    <3> HIDE DEF a
    <3>3. [a EXCEPT ![v][j] = None] \in [Vertices -> [Jobs -> Vertices \cup {None}]]
      BY <3>1
    <3> QED BY <3>2, <3>3
  <2>3. closed' \subseteq Vertices \X Vertices
    BY <1>4, <1>f DEF Signal
  <2>4. UNCHANGED <<dag, calls, entering, visited, pc, result, main, pending, awaiting,
                    cancelled>>
    BY <1>4 DEF Signal
  <2> QED BY <2>1, <2>2, <2>3, <2>4, <1>0, <1>a, <1>b, <1>e, <1>f
<1>5. ASSUME NEW v \in Vertices, NEW j \in Jobs, FindClosed(v, j) PROVE TypeOK'
  <2>1. pc' \in [Vertices -> [Jobs -> Phases]]
    BY <1>5, <1>b DEF FindClosed, Phases
  <2> QED BY <1>5, <2>1, <1>0, <1>a, <1>c, <1>d, <1>e, <1>f DEF FindClosed
<1>6. ASSUME NEW v \in Vertices, NEW j \in Jobs, FinishBlock(v, j) PROVE TypeOK'
  <2>1. pc' \in [Vertices -> [Jobs -> Phases]]
    BY <1>6, <1>b DEF FinishBlock, Phases
  <2>2. left' \in [Vertices -> [Jobs -> SUBSET Vertices]]
    BY <1>6, <1>c DEF FinishBlock, Down
  <2>3. result' \in [Vertices -> {"none", "ok", "failed"}]
    BY <1>6, <1>e DEF FinishBlock
  <2> QED BY <1>6, <2>1, <2>2, <2>3, <1>0, <1>a, <1>d, <1>f DEF FinishBlock
<1>7. ASSUME NEW v \in Vertices, NEW j \in Jobs, NextSignal(v, j) PROVE TypeOK'
  <2>1. pc' \in [Vertices -> [Jobs -> Phases]]
    BY <1>7, <1>b DEF NextSignal, Phases
  <2>2. at' \in [Vertices -> [Jobs -> Vertices \cup {None}]]
    <3>1. left[v][j] \subseteq Vertices
      BY <1>c
    <3>2. at' = at \/ \E u \in left[v][j] : at' = [at EXCEPT ![v][j] = u]
      BY <1>7 DEF NextSignal
    <3>3. ASSUME NEW u \in Vertices
          PROVE  [at EXCEPT ![v][j] = u] \in [Vertices -> [Jobs -> Vertices \cup {None}]]
      BY <1>d
    <3> QED BY <3>1, <3>2, <3>3, <1>d
  <2> QED BY <1>7, <2>1, <2>2, <1>0, <1>a, <1>c, <1>e, <1>f DEF NextSignal
<1>8. ASSUME NextReport PROVE TypeOK'
  BY <1>8, <1>0, <1>a, <1>b, <1>c, <1>d, <1>e, <1>f DEF NextReport
<1>9. ASSUME NEW v \in Vertices, NEW j \in Jobs, Report(v, j) PROVE TypeOK'
  <2>1. pc' \in [Vertices -> [Jobs -> Phases]]
    BY <1>9, <1>b DEF Report, Phases
  <2> QED BY <1>9, <2>1, <1>0, <1>a, <1>c, <1>d, <1>e, <1>f DEF Report
<1>10. ASSUME SeeCancelled \/ CancelParent PROVE TypeOK'
  BY <1>10, <1>0, <1>a, <1>b, <1>c, <1>d, <1>e, <1>f DEF SeeCancelled, CancelParent
<1>11. ASSUME UNCHANGED vars PROVE TypeOK'
  BY <1>11 DEF vars, TypeOK
<1> QED
  BY <1>1, <1>2, <1>3, <1>4, <1>5, <1>6, <1>7, <1>8, <1>9, <1>10, <1>11 DEF Next, Step

\* The variables start in their types.
LEMMA InitTypes == Init => TypeOK
<1> SUFFICES ASSUME Init PROVE TypeOK
  OBVIOUS
<1>1. dag \in Dags /\ calls \in [Vertices -> Nat] /\ entering \in [Vertices -> Nat]
  BY DEF Init
<1>2. pc \in [Vertices -> [Jobs -> Phases]]
  BY DEF Init, Phases
<1>3. left \in [Vertices -> [Jobs -> SUBSET Vertices]]
  BY DEF Init
<1>4. at \in [Vertices -> [Jobs -> Vertices \cup {None}]]
  BY DEF Init
<1>5. result \in [Vertices -> {"none", "ok", "failed"}]
  BY DEF Init
<1>6. /\ visited \subseteq Vertices /\ closed \subseteq Vertices \X Vertices
      /\ main \in {"walk", "wait", "succeeded", "failed"}
      /\ pending \subseteq Vertices /\ awaiting \in Vertices \cup {None}
      /\ cancelled \in BOOLEAN
  BY DEF Init
<1> QED
  BY <1>1, <1>2, <1>3, <1>4, <1>5, <1>6 DEF TypeOK

\* The variables of every reachable state are in their types.
THEOREM TypeCorrect == Spec => []TypeOK
  BY InitTypes, TypeStep, PTL DEF Spec
-----------------------------------------------------------------------------
\* Two jobs of a vertex cannot both have called BlockRun: they would share the
\* value of a channel or, at the root, the only walk.
LEMMA OneJobRuns == WalkInv => AtMostOnce
<1> SUFFICES ASSUME WalkInv, NEW v \in Vertices, NEW j \in Jobs, NEW k \in Jobs,
                    pc[v][j] \in HasRun, pc[v][k] \in HasRun, j # k
             PROVE  FALSE
  BY DEF AtMostOnce
<1>1. pc[v][j] # "idle" /\ pc[v][k] # "idle"
  BY DEF HasRun
<1>2. v # From
  BY <1>1 DEF WalkInv, RootOnce
<1>3. Up(v) # {}
  BY <1>1, <1>2 DEF WalkInv, WalkedAlongEdge
<1>4. Got(v, j) = Up(v) /\ Got(v, k) = Up(v)
  BY DEF Got
<1>5. Got(v, j) \cap Got(v, k) = {}
  BY DEF WalkInv, GotOnce
<1> QED
  BY <1>3, <1>4, <1>5

\* A job that called BlockRun received from every dependency, which had finished.
LEMMA DependenciesHaveRun == WalkInv => DependenciesFirst
<1> SUFFICES ASSUME WalkInv, NEW v \in Vertices, NEW j \in Jobs, pc[v][j] \in HasRun,
                    NEW u \in Up(v)
             PROVE  result[u] # "none"
  BY DEF DependenciesFirst
<1>1. u \in Vertices /\ u \in Got(v, j)
  BY DEF Up, Got
<1>2. <<u, v>> \in closed
  BY <1>1 DEF WalkInv, GotOnce
<1> QED
  BY <1>1, <1>2 DEF WalkInv, ClosedByFinished, ResultOfFinished

\* Before the walk there is one walker, at the root, and no job.
LEMMA InitInv == Init => WalkInv
<1> SUFFICES ASSUME Init PROVE WalkInv
  OBVIOUS
<1>1. TypeOK
  BY InitTypes
<1>2. AtIsLeft /\ GotOnce /\ NoSendOnClosed
  BY DEF Init, AtIsLeft, GotOnce, NoSendOnClosed, Got, HasRun
<1>3. ClosedByFinished /\ ResultOfFinished /\ ReportedOk
  BY DEF Init, ClosedByFinished, ResultOfFinished, ReportedOk, HasFinished
<1>4. RootOnce /\ WalkedAlongEdge
  BY DagAssumption DEF Init, RootOnce, WalkedAlongEdge
<1> QED
  BY <1>1, <1>2, <1>3, <1>4 DEF WalkInv

\* Step CheckVisited keeps the invariant: walkers go on along edges, none to the root.
LEMMA CheckVisitedInv == ASSUME WalkInv, TypeOK', NEW v \in Vertices, CheckVisited(v) PROVE WalkInv'
<1> USE DEF WalkInv
<1>1. UNCHANGED <<dag, pc, left, at, closed, result, main, pending, awaiting>>
  BY DEF CheckVisited, jobVars, mainVars
<1>2. /\ calls \in [Vertices -> Nat] /\ entering \in [Vertices -> Nat]
      /\ dag \in Dags /\ calls[v] > 0
  BY DEF TypeOK, CheckVisited
<1>3. AtIsLeft' /\ GotOnce' /\ NoSendOnClosed' /\ ClosedByFinished' /\ ResultOfFinished' /\ ReportedOk'
  BY <1>1 DEF AtIsLeft, GotOnce, NoSendOnClosed, ClosedByFinished, ResultOfFinished,
              ReportedOk, Got, Up
<1>4. CASE v \notin visited
  <2>1. /\ entering' = [entering EXCEPT ![v] = @ + 1]
        /\ calls' = [calls EXCEPT ![v] = @ - 1]
    BY <1>4 DEF CheckVisited
  <2>2. RootOnce'
    <3>1. From \in Vertices
      BY DagAssumption
    <3>2. calls'[From] + entering'[From] = calls[From] + entering[From]
      <4>1. calls[From] \in Nat /\ entering[From] \in Nat
        BY <3>1, <1>2
      <4>2. CASE v = From
        BY <2>1, <1>2, <4>1, <4>2
      <4>3. CASE v # From
        BY <2>1, <1>2, <3>1, <4>3
      <4> QED BY <4>2, <4>3
    <3> QED BY <1>1, <3>2 DEF RootOnce
  <2>3. WalkedAlongEdge'
    BY <2>1, <1>1, <1>2 DEF WalkedAlongEdge, Up
  <2> QED BY <2>2, <2>3, <1>3
<1>5. CASE v \in visited
  <2>1. /\ entering' = entering
        /\ \A w \in Vertices : calls'[w] = (IF w = v THEN calls[w] - 1 ELSE calls[w])
                                           + (IF w \in Down(v) THEN 1 ELSE 0)
    BY <1>5, <1>2 DEF CheckVisited, Descend
  <2>2. RootOnce'
    <3>1. From \notin Down(v)
      BY <1>2, DagAssumption DEF Down
    <3> QED BY <2>1, <3>1, <1>1, <1>2, DagAssumption DEF RootOnce
  <2>3. WalkedAlongEdge'
    <3>1. \A w \in Vertices : w \in Down(v) => v \in Up(w)
      BY DEF Up, Down
    <3>2. Up(v)' = Up(v) /\ \A w \in Vertices : Up(w)' = Up(w)
      BY <1>1 DEF Up
    <3>3. ASSUME NEW w \in Vertices \ {From},
                 calls'[w] > 0 \/ entering'[w] > 0 \/ \E j \in Jobs : pc'[w][j] # "idle"
          PROVE  Up(w) # {}
      <4>1. CASE w \in Down(v)
        BY <4>1, <3>1
      <4>2. CASE w \notin Down(v)
        <5>1. calls[w] > 0 \/ entering[w] > 0 \/ \E j \in Jobs : pc[w][j] # "idle"
          BY <4>2, <3>3, <2>1, <1>1, <1>2
        <5> QED BY <5>1 DEF WalkedAlongEdge
      <4> QED BY <4>1, <4>2
    <3> QED BY <3>2, <3>3 DEF WalkedAlongEdge
  <2> QED BY <2>2, <2>3, <1>3
<1> QED BY <1>4, <1>5

\* Step Schedule keeps the invariant: a new job has received nothing yet.
LEMMA ScheduleInv == ASSUME WalkInv, TypeOK', NEW v \in Vertices, NEW j \in Jobs, Schedule(v, j) PROVE WalkInv'
<1> USE DEF WalkInv
<1>1. UNCHANGED <<dag, at, closed, result, pending, awaiting>>
  BY DEF Schedule
<1>2. /\ calls \in [Vertices -> Nat] /\ entering \in [Vertices -> Nat]
      /\ dag \in Dags /\ entering[v] > 0 /\ pc[v][j] = "idle"
  BY DEF TypeOK, Schedule
<1>3. \A w \in Vertices : \A k \in Jobs :
        /\ pc'[w][k] = IF w = v /\ k = j THEN "wait" ELSE pc[w][k]
        /\ left'[w][k] = IF w = v /\ k = j THEN Up(v) ELSE left[w][k]
  BY DEF Schedule, TypeOK
<1>4. \A w \in Vertices :
        /\ calls'[w] = calls[w] + (IF w \in Down(v) THEN 1 ELSE 0)
        /\ entering'[w] = IF w = v THEN entering[w] - 1 ELSE entering[w]
  BY <1>2 DEF Schedule, Descend
<1>5. AtIsLeft'
  BY <1>1, <1>2, <1>3 DEF AtIsLeft
<1>6. GotOnce'
  <2>1. \A w \in Vertices : \A k \in Jobs : Got(w, k)' = Got(w, k)
    BY <1>1, <1>2, <1>3 DEF Got, Up, HasRun
  <2> QED BY <2>1, <1>1 DEF GotOnce
<1>7. ClosedByFinished' /\ ResultOfFinished'
  BY <1>1, <1>2, <1>3 DEF ClosedByFinished, ResultOfFinished, HasFinished
<1>8. RootOnce'
  <2>1. From \notin Down(v)
    BY <1>2, DagAssumption DEF Down
  <2>2. calls[From] \in Nat /\ entering[From] \in Nat /\ calls'[From] = calls[From]
    BY <2>1, <1>2, <1>4, DagAssumption
  <2>3. CASE v = From
    <3>1. /\ calls[From] + entering[From] = 1
          /\ \A k \in Jobs : pc[From][k] = "idle"
          /\ entering'[From] = entering[From] - 1
      BY <2>2, <2>3, <1>2, <1>4 DEF RootOnce
    <3>2. calls'[From] + entering'[From] = 0
      BY <3>1, <2>2
    <3>3. \A k \in Jobs : pc'[From][k] # "idle" => k = j
      BY <3>1, <2>3, <1>3
    <3> QED BY <3>2, <3>3 DEF RootOnce
  <2>4. CASE v # From
    <3>1. /\ entering'[From] = entering[From] /\ main' = main
          /\ \A k \in Jobs : pc'[From][k] = pc[From][k]
      BY <2>4, <1>3, <1>4, DagAssumption DEF Schedule
    <3> QED BY <3>1, <2>2 DEF RootOnce
  <2> QED BY <2>3, <2>4
<1>9. WalkedAlongEdge'
  <2>1. \A w \in Vertices : w \in Down(v) => v \in Up(w)
    BY DEF Up, Down
  <2>2. \A w \in Vertices : Up(w)' = Up(w)
    BY <1>1 DEF Up
  <2>3. ASSUME NEW w \in Vertices \ {From},
               calls'[w] > 0 \/ entering'[w] > 0 \/ \E k \in Jobs : pc'[w][k] # "idle"
        PROVE  Up(w) # {}
    <3>1. CASE w \in Down(v)
      BY <3>1, <2>1
    <3>2. CASE w \notin Down(v)
      <4>1. calls[w] > 0 \/ entering[w] > 0 \/ \E k \in Jobs : pc[w][k] # "idle"
        BY <3>2, <2>3, <1>2, <1>3, <1>4
      <4> QED BY <4>1 DEF WalkedAlongEdge
    <3> QED BY <3>1, <3>2
  <2> QED BY <2>2, <2>3 DEF WalkedAlongEdge
<1>10. NoSendOnClosed'
  BY <1>1, <1>2, <1>3 DEF NoSendOnClosed
<1>11. ReportedOk'
  BY <1>1, DagAssumption DEF ReportedOk, Schedule
<1> QED BY <1>5, <1>6, <1>7, <1>8, <1>9, <1>10, <1>11

\* The other steps leave the walkers and the graph alone and no job becomes or
\* stops being idle: what says only that remains true.
LEMMA WalkFrame ==
  ASSUME RootOnce, WalkedAlongEdge, UNCHANGED <<dag, calls, entering>>,
         main = "walk" => main' = "walk",
         \A v \in Vertices : \A j \in Jobs : (pc'[v][j] = "idle") <=> (pc[v][j] = "idle")
  PROVE  RootOnce' /\ WalkedAlongEdge' /\ \A v \in Vertices : Up(v)' = Up(v) /\ Down(v)' = Down(v)
<1>1. RootOnce'
  BY DagAssumption DEF RootOnce
<1>2. \A v \in Vertices : Up(v)' = Up(v) /\ Down(v)' = Down(v)
  BY DEF Up, Down
<1>3. WalkedAlongEdge'
  BY <1>2 DEF WalkedAlongEdge
<1> QED BY <1>1, <1>2, <1>3

\* Neither does a job that moves on after its block returned.
LEMMA PhaseFrame ==
  ASSUME WalkInv, TypeOK', ReportedOk', NEW v \in Vertices, NEW j \in Jobs,
         UNCHANGED <<dag, calls, entering, left, at, closed, result>>,
         main = "walk" => main' = "walk",
         pc[v][j] \in {"signal", "report"}, at[v][j] = None,
         NEW after \in {"report", "exit"},
         \A w \in Vertices : \A k \in Jobs :
           pc'[w][k] = IF w = v /\ k = j THEN after ELSE pc[w][k]
  PROVE  WalkInv'
<1> USE DEF WalkInv
<1>1. RootOnce' /\ WalkedAlongEdge' /\ \A w \in Vertices : Up(w)' = Up(w)
  BY WalkFrame, DagAssumption
<1>2. \A w \in Vertices : \A k \in Jobs : Got(w, k)' = Got(w, k)
  BY <1>1 DEF Got, HasRun
<1>3. GotOnce'
  BY <1>2 DEF GotOnce
<1>4. AtIsLeft' /\ NoSendOnClosed'
  BY DEF AtIsLeft, NoSendOnClosed
<1>5. \A w \in Vertices : \A k \in Jobs :
        (pc'[w][k] \in HasFinished) <=> (pc[w][k] \in HasFinished)
  BY DEF HasFinished
<1>6. ClosedByFinished' /\ ResultOfFinished'
  BY <1>5 DEF ClosedByFinished, ResultOfFinished
<1> QED BY <1>1, <1>3, <1>4, <1>6

\* Step NextDependency keeps the invariant: a job runs when it has received all,
\* which no other job of its vertex can have.
LEMMA NextDependencyInv ==
  ASSUME WalkInv, TypeOK', NEW v \in Vertices, NEW j \in Jobs, NextDependency(v, j)
  PROVE  WalkInv'
<1> USE DEF WalkInv
<1>1. /\ UNCHANGED <<dag, calls, entering, left, closed, result, main, pending>>
      /\ pc[v][j] = "wait" /\ at[v][j] = None
  BY DEF NextDependency, walkVars, mainVars
<1>2. ASSUME NEW u \in left[v][j], at' = [at EXCEPT ![v][j] = u], pc' = pc
      PROVE  WalkInv'
  <2>1. \A w \in Vertices : \A k \in Jobs :
          at'[w][k] = IF w = v /\ k = j THEN u ELSE at[w][k]
    BY <1>2 DEF TypeOK
  <2>2. AtIsLeft'
    BY <1>1, <1>2, <2>1 DEF AtIsLeft
  <2>3. GotOnce' /\ NoSendOnClosed' /\ ClosedByFinished' /\ ResultOfFinished' /\ ReportedOk'
    BY <1>1, <1>2 DEF GotOnce, NoSendOnClosed, ClosedByFinished, ResultOfFinished,
                      ReportedOk, Got, Up
  <2> QED BY <1>1, <1>2, <2>2, <2>3, WalkFrame, DagAssumption
<1>3. ASSUME left[v][j] = {}, pc' = [pc EXCEPT ![v][j] = "run"], at' = at
      PROVE  WalkInv'
  <2>1. \A w \in Vertices : \A k \in Jobs :
          pc'[w][k] = IF w = v /\ k = j THEN "run" ELSE pc[w][k]
    BY <1>3 DEF TypeOK
  <2>2. RootOnce' /\ WalkedAlongEdge' /\ \A w \in Vertices : Up(w)' = Up(w)
    BY <1>1, <2>1, WalkFrame, DagAssumption
  <2>3. \A w \in Vertices : \A k \in Jobs : Got(w, k)' = Got(w, k)
    BY <1>1, <1>3, <2>1, <2>2 DEF Got, HasRun
  <2>4. GotOnce'
    BY <1>1, <2>3 DEF GotOnce
  <2>5. AtIsLeft' /\ NoSendOnClosed'
    BY <1>1, <1>3, <2>1 DEF AtIsLeft, NoSendOnClosed
  <2>6. \A w \in Vertices : \A k \in Jobs :
          (pc'[w][k] \in HasFinished) <=> (pc[w][k] \in HasFinished)
    BY <1>1, <2>1 DEF HasFinished
  <2>7. ClosedByFinished' /\ ResultOfFinished' /\ ReportedOk'
    BY <1>1, <2>6 DEF ClosedByFinished, ResultOfFinished, ReportedOk
  <2> QED BY <2>2, <2>4, <2>5, <2>7
<1> QED BY <1>2, <1>3 DEF NextDependency

\* Step Signal keeps the invariant: the value goes to one job, and its only
\* sender has no second one for that channel.
LEMMA SignalInv ==
  ASSUME WalkInv, TypeOK', NEW u \in Vertices, NEW i \in Jobs, NEW v \in Vertices, NEW j \in Jobs,
         Signal(u, i, v, j)
  PROVE  WalkInv'
<1> USE DEF WalkInv
<1>1. /\ UNCHANGED <<dag, calls, entering, pc, result, main, pending>>
      /\ pc[u][i] = "signal" /\ at[u][i] = v /\ pc[v][j] = "wait" /\ at[v][j] = u
      /\ closed' = closed \cup {<<u, v>>}
  BY DEF Signal, walkVars, mainVars
<1>2. v \in left[u][i] /\ <<u, v>> \notin closed
  <2>1. at[u][i] # None
    BY <1>1, DagAssumption
  <2> QED BY <1>1, <2>1 DEF AtIsLeft, NoSendOnClosed
<1>3. /\ left'[u][i] = left[u][i] \ {v} /\ at'[u][i] = None
      /\ left'[v][j] = left[v][j] \ {u} /\ at'[v][j] = None
      /\ \A w \in Vertices : \A k \in Jobs :
           ~ (w = u /\ k = i) /\ ~ (w = v /\ k = j) =>
             left'[w][k] = left[w][k] /\ at'[w][k] = at[w][k]
  <2>1. ~ (u = v /\ i = j)
    BY <1>1
  <2>2. at \in [Vertices -> [Jobs -> Vertices \cup {None}]]
        /\ left \in [Vertices -> [Jobs -> SUBSET Vertices]]
    BY DEF TypeOK
  <2>3. /\ left' = [left EXCEPT ![u][i] = @ \ {v}, ![v][j] = @ \ {u}]
        /\ at' = [at EXCEPT ![u][i] = None, ![v][j] = None]
    BY DEF Signal
  <2>4. /\ left'[u][i] = left[u][i] \ {v} /\ left'[v][j] = left[v][j] \ {u}
        /\ \A w \in Vertices : \A k \in Jobs :
             ~ (w = u /\ k = i) /\ ~ (w = v /\ k = j) => left'[w][k] = left[w][k]
    BY <2>1, <2>2, <2>3
  <2>5. /\ at'[u][i] = None /\ at'[v][j] = None
        /\ \A w \in Vertices : \A k \in Jobs :
             ~ (w = u /\ k = i) /\ ~ (w = v /\ k = j) => at'[w][k] = at[w][k]
    BY <2>1, <2>2, <2>3
  <2> QED BY <2>4, <2>5
<1>4. RootOnce' /\ WalkedAlongEdge' /\ \A w \in Vertices : Up(w)' = Up(w)
  BY <1>1, WalkFrame, DagAssumption
<1>5. AtIsLeft'
  BY <1>1, <1>3 DEF AtIsLeft
<1>6. GotOnce'
  <2>1. \A w \in Vertices : \A k \in Jobs :
          ~ (w = v /\ k = j) => Got(w, k)' = Got(w, k)
    BY <1>1, <1>3, <1>4 DEF Got, HasRun
  <2>2. Got(v, j)' \subseteq Got(v, j) \cup {u}
    BY <1>1, <1>3, <1>4 DEF Got, HasRun
  <2>3. \A k \in Jobs : u \notin Got(v, k)
    BY <1>2 DEF GotOnce
  <2>4. \A w \in Vertices : \A k \in Jobs : \A x \in Got(w, k)' : <<x, w>> \in closed'
    <3> SUFFICES ASSUME NEW w \in Vertices, NEW k \in Jobs, NEW x \in Got(w, k)'
                 PROVE  <<x, w>> \in closed'
      OBVIOUS
    <3>1. x \in Got(w, k) \/ (x = u /\ w = v)
      BY <2>1, <2>2
    <3> QED BY <3>1, <1>1 DEF GotOnce
  <2>5. \A w \in Vertices : \A k, l \in Jobs : k # l => Got(w, k)' \cap Got(w, l)' = {}
    BY <2>1, <2>2, <2>3 DEF GotOnce
  <2> QED BY <2>4, <2>5 DEF GotOnce
<1>7. NoSendOnClosed'
  <2>1. SUFFICES ASSUME NEW w \in Vertices, NEW k \in Jobs, pc[w][k] = "signal",
                        NEW x \in left'[w][k], <<w, x>> \in closed'
                 PROVE  FALSE
    BY <1>1 DEF NoSendOnClosed
  <2>2. CASE w = u /\ k = i
    BY <1>1, <1>3, <2>1, <2>2 DEF NoSendOnClosed
  <2>3. CASE w # u
    BY <1>1, <1>3, <2>1, <2>3 DEF NoSendOnClosed
  <2>4. CASE w = u /\ k # i
    BY <1>1, <2>1, <2>4, OneJobRuns DEF AtMostOnce, HasRun
  <2> QED BY <2>2, <2>3, <2>4
<1>8. ClosedByFinished'
  BY <1>1 DEF ClosedByFinished, HasFinished
<1>9. ResultOfFinished' /\ ReportedOk'
  BY <1>1 DEF ResultOfFinished, ReportedOk
<1> QED BY <1>4, <1>5, <1>6, <1>7, <1>8, <1>9

\* Step FindClosed keeps the invariant: a job that gives up has received nothing
\* that counts.
LEMMA FindClosedInv ==
  ASSUME WalkInv, TypeOK', NEW v \in Vertices, NEW j \in Jobs, FindClosed(v, j)
  PROVE  WalkInv'
<1> USE DEF WalkInv
<1>1. /\ UNCHANGED <<dag, calls, entering, left, at, closed, result, main, pending>>
      /\ pc[v][j] = "wait"
  BY DEF FindClosed, walkVars, mainVars
<1>2. \A w \in Vertices : \A k \in Jobs :
        pc'[w][k] = IF w = v /\ k = j THEN "gaveup" ELSE pc[w][k]
  BY DEF FindClosed, TypeOK
<1>3. RootOnce' /\ WalkedAlongEdge' /\ \A w \in Vertices : Up(w)' = Up(w)
  BY <1>1, <1>2, WalkFrame, DagAssumption
<1>4. \A w \in Vertices : \A k \in Jobs : Got(w, k)' \subseteq Got(w, k)
  BY <1>1, <1>2, <1>3 DEF Got, HasRun
<1>5. GotOnce'
  BY <1>1, <1>4 DEF GotOnce
<1>6. AtIsLeft' /\ NoSendOnClosed'
  BY <1>1, <1>2 DEF AtIsLeft, NoSendOnClosed
<1>7. \A w \in Vertices : \A k \in Jobs :
        (pc'[w][k] \in HasFinished) <=> (pc[w][k] \in HasFinished)
  BY <1>1, <1>2 DEF HasFinished
<1>8. ClosedByFinished' /\ ResultOfFinished' /\ ReportedOk'
  BY <1>1, <1>7 DEF ClosedByFinished, ResultOfFinished, ReportedOk
<1> QED BY <1>3, <1>5, <1>6, <1>8

\* Step FinishBlock keeps the invariant: no other job of the vertex has run, so
\* none of its channels is closed.
LEMMA FinishBlockInv ==
  ASSUME WalkInv, TypeOK', NEW v \in Vertices, NEW j \in Jobs, FinishBlock(v, j)
  PROVE  WalkInv'
<1> USE DEF WalkInv
<1>1. /\ UNCHANGED <<dag, calls, entering, at, closed, main, pending>>
      /\ pc[v][j] = "run"
      /\ \A k \in Jobs \ {j} : pc[v][k] \notin HasRun
  BY OneJobRuns DEF FinishBlock, walkVars, mainVars, AtMostOnce, HasRun
<1>2. \A w \in Vertices : \A k \in Jobs :
        /\ pc'[w][k] = IF w = v /\ k = j THEN "signal" ELSE pc[w][k]
        /\ left'[w][k] = IF w = v /\ k = j THEN Down(v) ELSE left[w][k]
  BY DEF FinishBlock, TypeOK
<1>3. \A w \in Vertices : IF w = v THEN result'[w] \in {"ok", "failed"} ELSE result'[w] = result[w]
  BY DEF FinishBlock, TypeOK
<1>4. RootOnce' /\ WalkedAlongEdge' /\ \A w \in Vertices : Up(w)' = Up(w)
  BY <1>1, <1>2, WalkFrame, DagAssumption
<1>5. GotOnce'
  <2>1. \A w \in Vertices : \A k \in Jobs : Got(w, k)' = Got(w, k)
    BY <1>1, <1>2, <1>4 DEF Got, HasRun
  <2> QED BY <2>1, <1>1 DEF GotOnce
<1>6. AtIsLeft'
  BY <1>1, <1>2 DEF AtIsLeft
<1>7. result[v] = "none" /\ \A x \in Vertices : <<v, x>> \notin closed
  <2>1. \A k \in Jobs : pc[v][k] \notin HasFinished
    BY <1>1 DEF HasRun, HasFinished
  <2> QED BY <2>1 DEF ResultOfFinished, ClosedByFinished
<1>8. NoSendOnClosed'
  BY <1>1, <1>2, <1>7 DEF NoSendOnClosed, Down
<1>9. ClosedByFinished' /\ ResultOfFinished'
  BY <1>1, <1>2, <1>3 DEF ClosedByFinished, ResultOfFinished, HasFinished
<1>10. ReportedOk'
  BY <1>1, <1>3, <1>7 DEF ReportedOk
<1> QED BY <1>4, <1>5, <1>6, <1>8, <1>9, <1>10

\* Step NextSignal keeps the invariant: a job still reports after it signalled.
LEMMA NextSignalInv ==
  ASSUME WalkInv, TypeOK', NEW v \in Vertices, NEW j \in Jobs, NextSignal(v, j)
  PROVE  WalkInv'
<1> USE DEF WalkInv
<1>1. /\ UNCHANGED <<dag, calls, entering, left, closed, result, main, pending>>
      /\ pc[v][j] = "signal" /\ at[v][j] = None
  BY DEF NextSignal, walkVars, mainVars
<1>2. ASSUME NEW w \in left[v][j], at' = [at EXCEPT ![v][j] = w], pc' = pc
      PROVE  WalkInv'
  <2>1. \A x \in Vertices : \A k \in Jobs :
          at'[x][k] = IF x = v /\ k = j THEN w ELSE at[x][k]
    BY <1>2 DEF TypeOK
  <2>2. AtIsLeft'
    BY <1>1, <1>2, <2>1 DEF AtIsLeft
  <2>3. GotOnce' /\ NoSendOnClosed' /\ ClosedByFinished' /\ ResultOfFinished' /\ ReportedOk'
    BY <1>1, <1>2 DEF GotOnce, NoSendOnClosed, ClosedByFinished, ResultOfFinished,
                      ReportedOk, Got, Up
  <2> QED BY <1>1, <1>2, <2>2, <2>3, WalkFrame, DagAssumption
<1>3. ASSUME pc' = [pc EXCEPT ![v][j] = "report"], at' = at
      PROVE  WalkInv'
  <2>1. \A w \in Vertices : \A k \in Jobs :
          pc'[w][k] = IF w = v /\ k = j THEN "report" ELSE pc[w][k]
    BY <1>3 DEF TypeOK
  <2>2. ReportedOk'
    BY <1>1 DEF ReportedOk
  <2> QED BY <1>1, <1>3, <2>1, <2>2, PhaseFrame
<1> QED BY <1>2, <1>3 DEF NextSignal

\* Step Report keeps the invariant: who is no longer pending succeeded.
LEMMA ReportInv ==
  ASSUME WalkInv, TypeOK', NEW v \in Vertices, NEW j \in Jobs, Report(v, j)
  PROVE  WalkInv'
<1> USE DEF WalkInv
<1>1. /\ UNCHANGED <<dag, calls, entering, left, at, closed, result>>
      /\ pc[v][j] = "report" /\ at[v][j] = None
  BY DEF Report, walkVars, AtIsLeft
<1>2. \A w \in Vertices : \A k \in Jobs :
        pc'[w][k] = IF w = v /\ k = j THEN "exit" ELSE pc[w][k]
  BY DEF Report, TypeOK
<1>3. ReportedOk' /\ main = "wait"
  BY <1>1 DEF ReportedOk, Report
<1> QED BY <1>1, <1>2, <1>3, PhaseFrame

\* The steps of the main walk and of its caller keep the invariant.
LEMMA MainInv ==
  ASSUME WalkInv, TypeOK', NextReport \/ SeeCancelled \/ CancelParent \/ UNCHANGED vars
  PROVE  WalkInv'
<1> USE DEF WalkInv
<1>1. UNCHANGED <<dag, calls, entering, pc, left, at, closed, result, pending>>
  BY DEF NextReport, SeeCancelled, CancelParent, walkVars, jobVars, mainVars, vars
<1>2. /\ main' = main \/ main' = "failed" \/ pending = {}
      /\ main = "walk" => main' = "walk"
  BY DEF NextReport, SeeCancelled, CancelParent, walkVars, jobVars, mainVars, vars
<1>3. RootOnce' /\ WalkedAlongEdge'
  BY <1>1, <1>2, WalkFrame, DagAssumption
<1>4. AtIsLeft' /\ GotOnce' /\ NoSendOnClosed' /\ ClosedByFinished' /\ ResultOfFinished'
  BY <1>1 DEF AtIsLeft, GotOnce, NoSendOnClosed, ClosedByFinished, ResultOfFinished, Got, Up
<1>5. ReportedOk'
  BY <1>1, <1>2 DEF ReportedOk
<1> QED BY <1>3, <1>4, <1>5

\* The inductive invariant holds in every reachable state.
THEOREM WalkInvariant == Spec => []WalkInv
<1>1. WalkInv /\ [Next]_vars => WalkInv'
  <2> SUFFICES ASSUME WalkInv, [Next]_vars PROVE WalkInv'
    OBVIOUS
  <2>1. TypeOK'
    BY TypeStep DEF WalkInv
  <2> QED
    BY <2>1, CheckVisitedInv, ScheduleInv, NextDependencyInv, SignalInv, FindClosedInv,
       FinishBlockInv, NextSignalInv, ReportInv, MainInv DEF Next, Step
<1> QED
  BY <1>1, InitInv, PTL DEF Spec

\* However many walkers schedule a vertex at the same time, BlockRun is called
\* at most once for it.
THEOREM BlockRunsAtMostOnce == Spec => []AtMostOnce
  BY WalkInvariant, OneJobRuns, PTL

\* BlockRun is called for a vertex only after it returned for all dependencies.
THEOREM DependenciesRunFirst == Spec => []DependenciesFirst
  BY WalkInvariant, DependenciesHaveRun, PTL

\* No goroutine panics by sending on a channel that is closed.
THEOREM ChannelsAreOpen == Spec => []NoSendOnClosed
<1>1. WalkInv => NoSendOnClosed
  BY DEF WalkInv
<1> QED BY WalkInvariant, <1>1, PTL

\* When Run answers true, every block of the graph ran and succeeded.
THEOREM SuccessMeansAll == Spec => []SuccessIsComplete
<1>1. WalkInv => SuccessIsComplete
  BY DEF WalkInv, ReportedOk, SuccessIsComplete
<1> QED BY WalkInvariant, <1>1, PTL

-----------------------------------------------------------------------------
\* A step that no block, verdict or cancellation takes part in leaves what
\* DagSchedule sees as it was.
LEMMA HiddenStep ==
  ASSUME UNCHANGED <<dag, result, main, cancelled>>,
         \A v \in Vertices : \A j \in Jobs : (pc'[v][j] = "run") <=> (pc[v][j] = "run")
  PROVE  UNCHANGED Promise!vars
<1>1. Running' = Running
  BY DEF Running
<1> QED BY <1>1 DEF Promise!vars

\* Every step of the executor is one of DagSchedule, or a stutter.
LEMMA RefinementStep ==
  ASSUME WalkInv, TypeOK', [Next]_vars
  PROVE  [Promise!Next]_(Promise!vars)
<1>t. pc \in [Vertices -> [Jobs -> Phases]] /\ result \in [Vertices -> {"none", "ok", "failed"}]
  BY DEF WalkInv, TypeOK
<1>1. ASSUME NEW v \in Vertices, CheckVisited(v) PROVE UNCHANGED Promise!vars
  BY <1>1, HiddenStep DEF CheckVisited, jobVars, mainVars
<1>2. ASSUME NEW v \in Vertices, NEW j \in Jobs, Schedule(v, j)
      PROVE  UNCHANGED Promise!vars
  <2>1. \A w \in Vertices : \A k \in Jobs : (pc'[w][k] = "run") <=> (pc[w][k] = "run")
    <3>1. pc[v][j] = "idle" /\ pc' = [pc EXCEPT ![v][j] = "wait"]
      BY <1>2 DEF Schedule
    <3>2. \A w \in Vertices : \A k \in Jobs :
            pc'[w][k] = IF w = v /\ k = j THEN "wait" ELSE pc[w][k]
      BY <3>1, <1>t
    <3> QED BY <3>1, <3>2
  <2>2. UNCHANGED <<dag, result, cancelled>>
    BY <1>2 DEF Schedule
  <2>3. Running' = Running
    BY <2>1 DEF Running
  <2>4. main' = main \/ (main' = "wait" /\ main = "walk")
    <3>1. CASE v = From
      <4>1. calls[From] \in Nat /\ entering[From] \in Nat /\ entering[From] > 0
        BY <1>2, <3>1 DEF Schedule, WalkInv, TypeOK
      <4>2. main = "walk"
        BY <4>1 DEF WalkInv, RootOnce
      <4> QED BY <1>2, <4>2, <3>1 DEF Schedule
    <3>2. CASE v # From
      BY <1>2, <3>2 DEF Schedule
    <3> QED BY <3>1, <3>2
  <2> QED BY <2>2, <2>3, <2>4 DEF Promise!vars
<1>3. ASSUME NEW v \in Vertices, NEW j \in Jobs, NextDependency(v, j)
      PROVE  [Promise!Next]_(Promise!vars)
  <2>1. UNCHANGED <<dag, result, main, cancelled>>
    BY <1>3 DEF NextDependency, mainVars
  <2>2. CASE pc' = pc
    BY <2>1, <2>2, HiddenStep
  <2>3. CASE left[v][j] = {} /\ pc' = [pc EXCEPT ![v][j] = "run"]
    <3>1. \A w \in Vertices : \A k \in Jobs :
            pc'[w][k] = IF w = v /\ k = j THEN "run" ELSE pc[w][k]
      BY <2>3, <1>t
    <3>2. Running' = Running \cup {v}
      BY <3>1 DEF Running
    <3>3. WalkInv'
      BY <1>3, NextDependencyInv
    <3>4. \A k \in Jobs \ {j} : pc'[v][k] \notin HasRun
      <4>1. pc'[v][j] \in HasRun
        BY <3>1 DEF HasRun
      <4>2. AtMostOnce'
        BY <3>3, OneJobRuns, PTL
      <4> QED BY <4>1, <4>2 DEF AtMostOnce
    <3>5. pc[v][j] = "wait"
      BY <1>3 DEF NextDependency
    <3>6. v \notin Running /\ result[v] = "none"
      BY <3>1, <3>4, <3>5 DEF Running, HasRun, HasFinished, WalkInv, ResultOfFinished
    <3>7. \A u \in Up(v) : result[u] # "none"
      <4>1. \A u \in Up(v) : <<u, v>> \in closed
        BY <2>3, <3>5 DEF Got, WalkInv, GotOnce
      <4> QED BY <4>1 DEF WalkInv, ClosedByFinished, ResultOfFinished, Up
    <3>8. Promise!Start(v)
      BY <2>1, <3>2, <3>6, <3>7 DEF Promise!Start, Promise!Upstream, Up
    <3> QED BY <3>8 DEF Promise!Next
  <2> QED BY <1>3, <2>2, <2>3 DEF NextDependency
<1>4. ASSUME NEW u \in Vertices, NEW v \in Vertices, NEW i \in Jobs, NEW j \in Jobs,
             Signal(u, i, v, j)
      PROVE  UNCHANGED Promise!vars
  BY <1>4, HiddenStep DEF Signal, mainVars
<1>5. ASSUME NEW v \in Vertices, NEW j \in Jobs, FindClosed(v, j)
      PROVE  UNCHANGED Promise!vars
  BY <1>5, <1>t, HiddenStep DEF FindClosed, mainVars
<1>6. ASSUME NEW v \in Vertices, NEW j \in Jobs, FinishBlock(v, j)
      PROVE  [Promise!Next]_(Promise!vars)
  <2>1. \A w \in Vertices : \A k \in Jobs :
          pc'[w][k] = IF w = v /\ k = j THEN "signal" ELSE pc[w][k]
    BY <1>6, <1>t DEF FinishBlock
  <2>2. pc[v][j] = "run" /\ \A k \in Jobs \ {j} : pc[v][k] # "run"
    BY <1>6, OneJobRuns DEF FinishBlock, AtMostOnce, HasRun
  <2>3. Running' = Running \ {v} /\ v \in Running
    BY <2>1, <2>2 DEF Running
  <2>4. PICK r \in {"ok", "failed"} : result' = [result EXCEPT ![v] = r]
    BY <1>6 DEF FinishBlock
  <2>5. UNCHANGED <<dag, main, cancelled>>
    BY <1>6 DEF FinishBlock, mainVars
  <2>6. Promise!Finish(v, r)
    BY <2>3, <2>4, <2>5 DEF Promise!Finish
  <2> QED BY <2>6 DEF Promise!Next
<1>7. ASSUME NEW v \in Vertices, NEW j \in Jobs, NextSignal(v, j)
      PROVE  UNCHANGED Promise!vars
  BY <1>7, <1>t, HiddenStep DEF NextSignal, mainVars
<1>8. ASSUME NextReport PROVE [Promise!Next]_(Promise!vars)
  <2>1. UNCHANGED <<dag, pc, result, cancelled>> /\ Running' = Running
    BY <1>8 DEF NextReport, jobVars, Running
  <2>2. CASE UNCHANGED main
    BY <2>1, <2>2, HiddenStep
  <2>3. CASE pending = {} /\ main = "wait" /\ main' = "succeeded"
    <3>1. \A v \in Vertices : result[v] = "ok"
      BY <2>3 DEF WalkInv, ReportedOk
    <3>2. Promise!Succeed
      BY <2>1, <2>3, <3>1 DEF Promise!Succeed
    <3> QED BY <3>2 DEF Promise!Next
  <2> QED BY <1>8, <2>2, <2>3 DEF NextReport
<1>9. ASSUME NEW v \in Vertices, NEW j \in Jobs, Report(v, j)
      PROVE  [Promise!Next]_(Promise!vars)
  <2>1. \A w \in Vertices : \A k \in Jobs : (pc'[w][k] = "run") <=> (pc[w][k] = "run")
    BY <1>9, <1>t DEF Report
  <2>2. UNCHANGED <<dag, result>> /\ Running' = Running
    BY <1>9, <2>1 DEF Report, Running
  <2>3. CASE UNCHANGED <<main, cancelled>>
    BY <2>1, <2>2, <2>3, HiddenStep
  <2>4. CASE result[v] = "failed" /\ main = "wait" /\ main' = "failed" /\ cancelled' = TRUE
    <3>1. Promise!Fail
      BY <2>2, <2>4 DEF Promise!Fail
    <3> QED BY <3>1 DEF Promise!Next
  <2> QED BY <1>9, <2>3, <2>4 DEF Report
<1>10. ASSUME SeeCancelled PROVE [Promise!Next]_(Promise!vars)
  <2>1. UNCHANGED <<dag, result, cancelled>> /\ Running' = Running /\ cancelled = TRUE
    BY <1>10 DEF SeeCancelled, jobVars, Running, WalkInv, TypeOK
  <2>2. main = "wait" /\ main' = "failed"
    BY <1>10 DEF SeeCancelled
  <2>3. Promise!Fail
    BY <2>1, <2>2 DEF Promise!Fail
  <2> QED BY <2>3 DEF Promise!Next
<1>11. ASSUME CancelParent PROVE [Promise!Next]_(Promise!vars)
  <2>1. UNCHANGED <<dag, result, main>> /\ Running' = Running /\ cancelled' = TRUE
    BY <1>11 DEF CancelParent, jobVars, mainVars, Running
  <2>2. Promise!Cancel
    BY <2>1 DEF Promise!Cancel
  <2> QED BY <2>2 DEF Promise!Next
<1>12. ASSUME UNCHANGED vars PROVE UNCHANGED Promise!vars
  BY <1>12, HiddenStep DEF vars, jobVars, mainVars
<1> QED
  BY <1>1, <1>2, <1>3, <1>4, <1>5, <1>6, <1>7, <1>8, <1>9, <1>10, <1>11, <1>12 DEF Next, Step

\* The concurrent walk implements DagSchedule: whoever uses the executor need
\* not know of its goroutines and channels.
THEOREM Refinement == Spec => ImplementsDagSchedule
<1>1. Init => Promise!Init
  <2> SUFFICES ASSUME Init PROVE Promise!Init
    OBVIOUS
  <2>1. Running = {}
    BY DEF Init, Running
  <2> QED BY <2>1 DEF Init, Promise!Init
<1>2. WalkInv /\ TypeOK' /\ [Next]_vars => [Promise!Next]_(Promise!vars)
  BY RefinementStep
<1> QED
  BY <1>1, <1>2, WalkInvariant, TypeCorrect, PTL DEF Spec, ImplementsDagSchedule, Promise!Spec
-----------------------------------------------------------------------------
(***************************************************************************)
(* Nobody waits for ever when no vertex has two dependencies               *)
(***************************************************************************)
Scheduled(v) == \E j \in Jobs : pc[v][j] # "idle"
Walked(v) == calls[v] > 0 \/ entering[v] > 0 \/ Scheduled(v)

\* What a job waits for is a dependency, and what it has to send leads to a vertex
\* below; what it need not send any more is sent, and it reports when all is.
ChannelsInv ==
  \A v \in Vertices : \A j \in Jobs :
    /\ pc[v][j] = "wait" => left[v][j] \subseteq Up(v)
    /\ pc[v][j] = "signal" => left[v][j] \subseteq Down(v)
    /\ pc[v][j] \in HasFinished => \A w \in Down(v) \ left[v][j] : <<v, w>> \in closed
    /\ pc[v][j] \in {"report", "exit"} => left[v][j] = {}

\* The main walk waits for reports from when the root is scheduled, of vertices it
\* has none of, and of those has every report that was given unless it has failed.
VerdictInv ==
  /\ Scheduled(From) => main # "walk"
  /\ awaiting # None => awaiting \in pending
  /\ \A v \in Vertices : \A j \in Jobs :
       pc[v][j] = "exit" => v \notin pending \/ main = "failed"

\* In a tree a vertex is walked when the one above it has been scheduled, and once.
TreeInv ==
  IsTree =>
    /\ Walked(From)
    /\ \A v \in Vertices :
         /\ calls[v] + entering[v] <= 1
         /\ calls[v] + entering[v] = 1 => ~Scheduled(v)
         /\ v \in visited => Scheduled(v)
         /\ \A j, k \in Jobs : pc[v][j] # "idle" /\ pc[v][k] # "idle" => j = k
         /\ \A u \in Up(v) : Walked(v) <=> Scheduled(u)

\* The steps of the jobs and of the main walk change nothing that TreeInv speaks of.
LEMMA TreeFrame ==
  ASSUME TreeInv, UNCHANGED <<dag, calls, entering, visited>>,
         \A v \in Vertices : \A j \in Jobs : (pc'[v][j] = "idle") <=> (pc[v][j] = "idle")
  PROVE  TreeInv' /\ (Scheduled(From)' <=> Scheduled(From))
<1>1. \A v \in Vertices : /\ Up(v)' = Up(v) /\ (Scheduled(v)' <=> Scheduled(v))
                          /\ (Walked(v)' <=> Walked(v))
  BY DEF Up, Scheduled, Walked
<1>2. IsTree' <=> IsTree
  BY <1>1 DEF IsTree
<1>3. ASSUME IsTree, NEW v \in Vertices
      PROVE  /\ calls'[v] + entering'[v] <= 1
             /\ calls'[v] + entering'[v] = 1 => ~Scheduled(v)'
             /\ v \in visited' => Scheduled(v)'
             /\ \A j, k \in Jobs : pc'[v][j] # "idle" /\ pc'[v][k] # "idle" => j = k
             /\ \A u \in Up(v)' : Walked(v)' <=> Scheduled(u)'
  <2>1. \A u \in Up(v) : u \in Vertices
    BY DEF Up
  <2> QED BY <1>1, <1>3, <2>1 DEF TreeInv
<1>4. From \in Vertices
  BY DagAssumption
<1>5. IsTree => Walked(From)'
  BY <1>1, <1>4 DEF TreeInv
<1> QED BY <1>1, <1>2, <1>3, <1>4, <1>5 DEF TreeInv

\* A walker that has not been anywhere yet notices that it is the first.
LEMMA CheckVisitedTree ==
  ASSUME WalkInv, TreeInv, NEW v \in Vertices, CheckVisited(v) PROVE TreeInv'
<1>1. UNCHANGED <<dag, visited, pc>> /\ calls[v] > 0
  BY DEF CheckVisited, jobVars
<1>2. /\ calls \in [Vertices -> Nat] /\ entering \in [Vertices -> Nat] /\ From \in Vertices
  BY DagAssumption DEF WalkInv, TypeOK
<1>3. \A w \in Vertices : Up(w)' = Up(w) /\ (Scheduled(w)' <=> Scheduled(w))
  BY <1>1 DEF Up, Scheduled
<1>4. IsTree' <=> IsTree
  BY <1>3 DEF IsTree
<1> SUFFICES ASSUME IsTree PROVE TreeInv'
  BY <1>4 DEF TreeInv
<1>5. v \notin visited
  <2>1. calls[v] + entering[v] = 1
    <3>1. calls[v] + entering[v] <= 1 /\ calls[v] \in Nat /\ entering[v] \in Nat
      BY <1>2 DEF TreeInv
    <3> QED BY <1>1, <3>1
  <2> QED BY <2>1 DEF TreeInv
<1>6. /\ entering' = [entering EXCEPT ![v] = @ + 1]
      /\ calls' = [calls EXCEPT ![v] = @ - 1]
  BY <1>5 DEF CheckVisited
<1>7. \A w \in Vertices :
        /\ calls'[w] + entering'[w] = calls[w] + entering[w]
        /\ (calls'[w] > 0 \/ entering'[w] > 0) <=> (calls[w] > 0 \/ entering[w] > 0)
  <2> SUFFICES ASSUME NEW w \in Vertices
               PROVE  /\ calls'[w] + entering'[w] = calls[w] + entering[w]
                      /\ (calls'[w] > 0 \/ entering'[w] > 0) <=> (calls[w] > 0 \/ entering[w] > 0)
    OBVIOUS
  <2>1. calls[w] \in Nat /\ entering[w] \in Nat
    BY <1>2
  <2>2. CASE w = v
    <3>1. calls'[w] = calls[w] - 1 /\ entering'[w] = entering[w] + 1 /\ calls[w] > 0
      BY <1>1, <1>2, <1>6, <2>2
    <3> QED BY <2>1, <3>1
  <2>3. CASE w # v
    BY <1>2, <1>6, <2>3
  <2> QED BY <2>2, <2>3
<1>8. \A w \in Vertices : (Walked(w)' <=> Walked(w))
  BY <1>3, <1>7 DEF Walked
<1>9. ASSUME NEW w \in Vertices
      PROVE  /\ calls'[w] + entering'[w] <= 1
             /\ calls'[w] + entering'[w] = 1 => ~Scheduled(w)'
             /\ w \in visited' => Scheduled(w)'
             /\ \A j, k \in Jobs : pc'[w][j] # "idle" /\ pc'[w][k] # "idle" => j = k
             /\ \A u \in Up(w)' : Walked(w)' <=> Scheduled(u)'
  <2>1. \A u \in Up(w) : u \in Vertices
    BY DEF Up
  <2> QED BY <1>1, <1>3, <1>7, <1>8, <1>9, <2>1 DEF TreeInv
<1>10. Walked(From)'
  BY <1>2, <1>8 DEF TreeInv
<1> QED BY <1>9, <1>10 DEF TreeInv

\* A vertex that is scheduled sends one walker to each vertex below it, to which
\* none has been sent yet.
LEMMA ScheduleTree ==
  ASSUME WalkInv, TreeInv, NEW v \in Vertices, NEW j \in Jobs, Schedule(v, j) PROVE TreeInv'
<1>1. UNCHANGED dag /\ visited' = visited \cup {v} /\ entering[v] > 0 /\ pc[v][j] = "idle"
  BY DEF Schedule
<1>2. /\ calls \in [Vertices -> Nat] /\ entering \in [Vertices -> Nat] /\ From \in Vertices
      /\ \A u \in Vertices : From \notin Down(u)
  BY DagAssumption DEF WalkInv, TypeOK, Down
<1>3. \A w \in Vertices : \A k \in Jobs :
        pc'[w][k] = IF w = v /\ k = j THEN "wait" ELSE pc[w][k]
  BY DEF Schedule, WalkInv, TypeOK
<1>4. \A w \in Vertices :
        /\ calls'[w] = calls[w] + (IF w \in Down(v) THEN 1 ELSE 0)
        /\ entering'[w] = IF w = v THEN entering[w] - 1 ELSE entering[w]
  BY <1>2 DEF Schedule, Descend
<1>5. /\ \A w \in Vertices : Up(w)' = Up(w)
      /\ \A w \in Vertices : w \in Down(v) <=> v \in Up(w)
  BY <1>1 DEF Up, Down
<1>6. Scheduled(v)' /\ \A w \in Vertices : w # v => (Scheduled(w)' <=> Scheduled(w))
  BY <1>3 DEF Scheduled
<1>7. IsTree' <=> IsTree
  BY <1>5 DEF IsTree
<1> SUFFICES ASSUME IsTree PROVE TreeInv'
  BY <1>7 DEF TreeInv
<1>8. calls[v] = 0 /\ entering[v] = 1 /\ ~Scheduled(v)
  <2>1. calls[v] + entering[v] <= 1 /\ calls[v] \in Nat /\ entering[v] \in Nat
    BY <1>2 DEF TreeInv
  <2>2. calls[v] = 0 /\ entering[v] = 1 /\ calls[v] + entering[v] = 1
    BY <1>1, <2>1
  <2> QED BY <2>2 DEF TreeInv
<1>9. ASSUME NEW w \in Down(v)
      PROVE  w \in Vertices /\ w # v /\ calls[w] = 0 /\ entering[w] = 0 /\ ~Scheduled(w)
  <2>1. w \in Vertices /\ v \in Up(w)
    BY <1>5 DEF Down
  <2>2. ~Walked(w)
    BY <1>8, <2>1 DEF TreeInv
  <2>3. calls[w] \in Nat /\ entering[w] \in Nat
    BY <1>2, <2>1
  <2> QED BY <1>1, <2>1, <2>2, <2>3 DEF Walked
<1>10. ASSUME NEW w \in Vertices
       PROVE  /\ calls'[w] + entering'[w] <= 1
              /\ calls'[w] + entering'[w] = 1 => ~Scheduled(w)'
              /\ Walked(w)' <=> Walked(w) \/ w \in Down(v)
  <2>0. calls[w] \in Nat /\ entering[w] \in Nat
    BY <1>2
  <2>1. CASE w = v
    <3>1. v \notin Down(v)
      BY <1>9
    <3>2. calls'[v] = 0 /\ entering'[v] = 0
      BY <1>4, <1>8, <3>1
    <3>3. Walked(v) /\ Walked(v)'
      BY <1>1, <1>6 DEF Walked
    <3> QED BY <2>1, <3>2, <3>3
  <2>2. CASE w \in Down(v)
    <3>1. calls'[w] = 1 /\ entering'[w] = 0 /\ w # v /\ ~Scheduled(w)'
      BY <1>4, <1>6, <1>9, <2>2
    <3> QED BY <2>2, <3>1 DEF Walked
  <2>3. CASE w \notin Down(v) /\ w # v
    <3>1. calls'[w] = calls[w] /\ entering'[w] = entering[w] /\ (Scheduled(w)' <=> Scheduled(w))
      BY <1>4, <1>6, <2>0, <2>3
    <3>2. /\ calls[w] + entering[w] <= 1
          /\ calls[w] + entering[w] = 1 => ~Scheduled(w)
      BY DEF TreeInv
    <3> QED BY <2>3, <3>1, <3>2 DEF Walked
  <2> QED BY <2>1, <2>2, <2>3
<1>11. ASSUME NEW w \in Vertices, NEW u \in Up(w) PROVE Walked(w)' <=> Scheduled(u)'
  <2>1. u \in Vertices /\ (Walked(w) <=> Scheduled(u))
    BY DEF TreeInv, Up
  <2>2. CASE u = v
    BY <1>5, <1>6, <1>10, <2>2
  <2>3. CASE u # v
    <3>1. w \notin Down(v)
      BY <1>5, <2>3 DEF IsTree
    <3> QED BY <1>6, <1>10, <2>1, <2>3, <3>1
  <2> QED BY <2>2, <2>3
<1>12. ASSUME NEW w \in Vertices, NEW i \in Jobs, NEW k \in Jobs, pc'[w][i] # "idle", pc'[w][k] # "idle"
       PROVE  i = k
  <2>1. CASE w = v
    BY <1>3, <1>8, <1>12, <2>1 DEF Scheduled
  <2>2. CASE w # v
    BY <1>3, <1>12, <2>2 DEF TreeInv
  <2> QED BY <2>1, <2>2
<1>13. \A w \in Vertices : w \in visited' => Scheduled(w)'
  BY <1>1, <1>6 DEF TreeInv
<1>14. Walked(From)'
  BY <1>2, <1>10 DEF TreeInv
<1> QED BY <1>5, <1>10, <1>11, <1>12, <1>13, <1>14 DEF TreeInv

\* The steps of a job that move it on, and at most set what it has to send.
LEMMA JobChannels ==
  ASSUME WalkInv, ChannelsInv, NEW v \in Vertices, NEW j \in Jobs, NEW p \in Phases, NEW l,
         \A w \in Vertices : \A k \in Jobs :
           /\ pc'[w][k] = IF w = v /\ k = j THEN p ELSE pc[w][k]
           /\ left'[w][k] = IF w = v /\ k = j THEN l ELSE left[w][k],
         dag' = dag, closed' = closed,
         p = "wait" => l \subseteq Up(v),
         p = "signal" => l \subseteq Down(v),
         p \in HasFinished => \A w \in Down(v) \ l : <<v, w>> \in closed,
         p \in {"report", "exit"} => l = {}
  PROVE  ChannelsInv'
<1>1. \A w \in Vertices : Up(w)' = Up(w) /\ Down(w)' = Down(w)
  BY DEF Up, Down
<1>2. ASSUME NEW w \in Vertices, NEW k \in Jobs
      PROVE  /\ pc'[w][k] = "wait" => left'[w][k] \subseteq Up(w)
             /\ pc'[w][k] = "signal" => left'[w][k] \subseteq Down(w)
             /\ pc'[w][k] \in HasFinished => \A x \in Down(w) \ left'[w][k] : <<w, x>> \in closed
             /\ pc'[w][k] \in {"report", "exit"} => left'[w][k] = {}
  <2>1. CASE w = v /\ k = j
    BY <2>1
  <2>2. CASE ~(w = v /\ k = j)
    BY <2>2 DEF ChannelsInv
  <2> QED BY <2>1, <2>2
<1> QED BY <1>1, <1>2 DEF ChannelsInv

\* A step keeps what is said of what jobs wait for and send.
LEMMA ChannelsStep == ASSUME WalkInv, ChannelsInv, [Next]_vars PROVE ChannelsInv'
<1>t. pc \in [Vertices -> [Jobs -> Phases]] /\ left \in [Vertices -> [Jobs -> SUBSET Vertices]]
  BY DEF WalkInv, TypeOK
<1>0. ASSUME UNCHANGED <<dag, pc, left, closed>> PROVE ChannelsInv'
  BY <1>0 DEF ChannelsInv, Up, Down
<1> USE DEF walkVars, jobVars, mainVars
<1>1. CASE \/ \E v \in Vertices : CheckVisited(v)
           \/ NextReport \/ SeeCancelled \/ CancelParent \/ UNCHANGED vars
  <2>1. UNCHANGED <<dag, pc, left, closed>>
    BY <1>1 DEF CheckVisited, NextReport, SeeCancelled, CancelParent, vars
  <2> QED BY <1>0, <2>1
<1>2. ASSUME NEW v \in Vertices, NEW j \in Jobs, Schedule(v, j) PROVE ChannelsInv'
  <2>1. /\ pc' = [pc EXCEPT ![v][j] = "wait"] /\ left' = [left EXCEPT ![v][j] = Up(v)]
        /\ dag' = dag /\ closed' = closed
    BY <1>2 DEF Schedule
  <2>2. \A w \in Vertices : \A k \in Jobs :
          /\ pc'[w][k] = IF w = v /\ k = j THEN "wait" ELSE pc[w][k]
          /\ left'[w][k] = IF w = v /\ k = j THEN Up(v) ELSE left[w][k]
    BY <2>1, <1>t
  <2> QED BY <2>1, <2>2, JobChannels DEF Phases, HasFinished
<1>3. ASSUME NEW v \in Vertices, NEW j \in Jobs, NEW p \in {"run", "gaveup", "report", "exit"},
             pc' = [pc EXCEPT ![v][j] = p], left' = left, dag' = dag, closed' = closed,
             p = "report" => pc[v][j] = "signal" /\ left[v][j] = {},
             p = "exit" => pc[v][j] = "report"
      PROVE  ChannelsInv'
  <2>1. \A w \in Vertices : \A k \in Jobs :
          /\ pc'[w][k] = IF w = v /\ k = j THEN p ELSE pc[w][k]
          /\ left'[w][k] = IF w = v /\ k = j THEN left[v][j] ELSE left[w][k]
    BY <1>3, <1>t
  <2>2. p \in HasFinished => \A w \in Down(v) \ left[v][j] : <<v, w>> \in closed
    BY <1>3 DEF ChannelsInv, HasFinished
  <2>3. p \in {"report", "exit"} => left[v][j] = {}
    BY <1>3 DEF ChannelsInv
  <2>4. p \in Phases /\ p # "wait" /\ p # "signal"
    BY DEF Phases
  <2> DEFINE l == left[v][j]
  <2>5. \A w \in Vertices : \A k \in Jobs :
          /\ pc'[w][k] = IF w = v /\ k = j THEN p ELSE pc[w][k]
          /\ left'[w][k] = IF w = v /\ k = j THEN l ELSE left[w][k]
    BY <2>1
  <2>6. /\ p \in HasFinished => \A w \in Down(v) \ l : <<v, w>> \in closed
        /\ p \in {"report", "exit"} => l = {}
    BY <2>2, <2>3
  <2> HIDE DEF l
  <2> QED BY <1>3, <2>4, <2>5, <2>6, JobChannels
<1>4. ASSUME NEW v \in Vertices, NEW j \in Jobs, NextDependency(v, j) PROVE ChannelsInv'
  BY <1>0, <1>3, <1>4 DEF NextDependency
<1>5. ASSUME NEW u \in Vertices, NEW v \in Vertices, NEW i \in Jobs, NEW j \in Jobs, Signal(u, i, v, j)
      PROVE  ChannelsInv'
  <2>1. /\ pc[u][i] = "signal" /\ pc[v][j] = "wait" /\ pc' = pc /\ dag' = dag
        /\ closed' = closed \cup {<<u, v>>}
        /\ left' = [left EXCEPT ![u][i] = @ \ {v}, ![v][j] = @ \ {u}]
    BY <1>5 DEF Signal
  <2>2. \A w \in Vertices : Up(w)' = Up(w) /\ Down(w)' = Down(w)
    BY <2>1 DEF Up, Down
  <2>3. left'[u][i] = left[u][i] \ {v} /\ left'[v][j] = left[v][j] \ {u}
    BY <2>1, <1>t
  <2>4. ASSUME NEW w \in Vertices, NEW k \in Jobs
        PROVE  /\ pc[w][k] = "wait" => left'[w][k] \subseteq Up(w)
               /\ pc[w][k] = "signal" => left'[w][k] \subseteq Down(w)
               /\ pc[w][k] \in HasFinished => \A x \in Down(w) \ left'[w][k] : <<w, x>> \in closed'
               /\ pc[w][k] \in {"report", "exit"} => left'[w][k] = {}
    <3>1. CASE w = u /\ k = i
      BY <2>1, <2>3, <3>1 DEF ChannelsInv
    <3>2. CASE w = v /\ k = j
      BY <2>1, <2>3, <3>2 DEF ChannelsInv, HasFinished
    <3>3. CASE ~(w = u /\ k = i) /\ ~(w = v /\ k = j)
      <4>1. left'[w][k] = left[w][k]
        BY <2>1, <3>3, <1>t
      <4> QED BY <2>1, <4>1 DEF ChannelsInv
    <3> QED BY <3>1, <3>2, <3>3
  <2>5. \A w \in Vertices : \A k \in Jobs : pc'[w][k] = pc[w][k]
    BY <2>1
  <2> QED BY <2>2, <2>4, <2>5 DEF ChannelsInv
<1>6. ASSUME NEW v \in Vertices, NEW j \in Jobs, FindClosed(v, j) PROVE ChannelsInv'
  BY <1>3, <1>6 DEF FindClosed
<1>7. ASSUME NEW v \in Vertices, NEW j \in Jobs, FinishBlock(v, j) PROVE ChannelsInv'
  <2>1. /\ pc' = [pc EXCEPT ![v][j] = "signal"] /\ left' = [left EXCEPT ![v][j] = Down(v)]
        /\ dag' = dag /\ closed' = closed
    BY <1>7 DEF FinishBlock
  <2>2. \A w \in Vertices : \A k \in Jobs :
          /\ pc'[w][k] = IF w = v /\ k = j THEN "signal" ELSE pc[w][k]
          /\ left'[w][k] = IF w = v /\ k = j THEN Down(v) ELSE left[w][k]
    BY <2>1, <1>t
  <2> QED BY <2>1, <2>2, JobChannels DEF Phases
<1>8. ASSUME NEW v \in Vertices, NEW j \in Jobs, NextSignal(v, j) PROVE ChannelsInv'
  BY <1>0, <1>3, <1>8 DEF NextSignal
<1>9. ASSUME NEW v \in Vertices, NEW j \in Jobs, Report(v, j) PROVE ChannelsInv'
  BY <1>3, <1>9 DEF Report
<1> QED BY <1>1, <1>2, <1>4, <1>5, <1>6, <1>7, <1>8, <1>9 DEF Next, Step

\* A step keeps what is said of the main walk.
LEMMA VerdictStep == ASSUME WalkInv, TypeOK', VerdictInv, [Next]_vars PROVE VerdictInv'
<1>t. pc \in [Vertices -> [Jobs -> Phases]] /\ From \in Vertices /\ None \notin Vertices
      /\ pending \subseteq Vertices
  BY DagAssumption DEF WalkInv, TypeOK
<1> USE DEF walkVars, jobVars, mainVars
\* A job that moves on, but does not exit.
<1>1. ASSUME NEW v \in Vertices, NEW j \in Jobs, NEW p \in Phases \ {"exit"}, pc[v][j] # "idle",
             pc' = pc \/ pc' = [pc EXCEPT ![v][j] = p], UNCHANGED <<main, pending, awaiting>>
      PROVE  VerdictInv'
  <2>1. \A w \in Vertices : \A k \in Jobs :
          /\ pc'[w][k] = "exit" => pc[w][k] = "exit"
          /\ pc'[w][k] # "idle" => pc[w][k] # "idle"
    BY <1>1, <1>t
  <2> QED BY <1>1, <1>t, <2>1 DEF VerdictInv, Scheduled
<1>2. CASE \E v \in Vertices, j \in Jobs :
             NextDependency(v, j) \/ FindClosed(v, j) \/ FinishBlock(v, j) \/ NextSignal(v, j)
  <2> PICK v \in Vertices, j \in Jobs :
             NextDependency(v, j) \/ FindClosed(v, j) \/ FinishBlock(v, j) \/ NextSignal(v, j)
    BY <1>2
  <2>1. CASE NextDependency(v, j)
    BY <1>1, <2>1 DEF NextDependency, Phases
  <2>2. CASE FindClosed(v, j)
    BY <1>1, <2>2 DEF FindClosed, Phases
  <2>3. CASE FinishBlock(v, j)
    BY <1>1, <2>3 DEF FinishBlock, Phases
  <2>4. CASE NextSignal(v, j)
    BY <1>1, <2>4 DEF NextSignal, Phases
  <2> QED BY <2>1, <2>2, <2>3, <2>4
<1>3. CASE \/ \E v \in Vertices : CheckVisited(v)
           \/ \E u, v \in Vertices, i, j \in Jobs : Signal(u, i, v, j)
           \/ CancelParent \/ UNCHANGED vars
  <2>1. UNCHANGED <<pc, main, pending, awaiting>>
    <3>1. ASSUME NEW v \in Vertices, CheckVisited(v) PROVE UNCHANGED <<pc, main, pending, awaiting>>
      BY <3>1 DEF CheckVisited
    <3>2. ASSUME NEW u \in Vertices, NEW v \in Vertices, NEW i \in Jobs, NEW j \in Jobs,
                 Signal(u, i, v, j)
          PROVE  UNCHANGED <<pc, main, pending, awaiting>>
      BY <3>2 DEF Signal
    <3>3. CASE CancelParent \/ UNCHANGED vars
      BY <3>3 DEF CancelParent, vars
    <3> QED BY <1>3, <3>1, <3>2, <3>3
  <2> QED BY <2>1 DEF VerdictInv, Scheduled
<1>4. ASSUME NEW v \in Vertices, NEW j \in Jobs, Schedule(v, j) PROVE VerdictInv'
  <2>1. /\ entering[v] > 0 /\ pc' = [pc EXCEPT ![v][j] = "wait"] /\ UNCHANGED <<pending, awaiting>>
        /\ main' = IF v = From THEN "wait" ELSE main
    BY <1>4 DEF Schedule
  <2>2. \A w \in Vertices : \A k \in Jobs :
          pc'[w][k] = IF w = v /\ k = j THEN "wait" ELSE pc[w][k]
    BY <2>1, <1>t
  <2>3. \A w \in Vertices : \A k \in Jobs : pc'[w][k] = "exit" => w \notin pending \/ main = "failed"
    BY <2>2 DEF VerdictInv
  <2>4. CASE v = From
    <3>1. main = "walk"
      <4>1. calls[From] \in Nat /\ entering[From] \in Nat
        BY <1>t DEF WalkInv, TypeOK
      <4>2. calls[From] + entering[From] = 1
        BY <2>1, <2>4, <4>1 DEF WalkInv, RootOnce
      <4> QED BY <4>2 DEF WalkInv, RootOnce
    <3> QED BY <2>1, <2>3, <2>4, <3>1 DEF VerdictInv
  <2>5. CASE v # From
    <3>1. Scheduled(From)' => Scheduled(From)
      BY <1>t, <2>2, <2>5 DEF Scheduled
    <3> QED BY <2>1, <2>3, <2>5, <3>1 DEF VerdictInv
  <2> QED BY <2>4, <2>5
<1>5. CASE NextReport
  BY <1>5, <1>t DEF NextReport, VerdictInv, Scheduled
<1>6. CASE SeeCancelled
  BY <1>6, <1>t DEF SeeCancelled, VerdictInv, Scheduled
<1>7. ASSUME NEW v \in Vertices, NEW j \in Jobs, Report(v, j) PROVE VerdictInv'
  <2>1. /\ pc[v][j] = "report" /\ pc' = [pc EXCEPT ![v][j] = "exit"] /\ awaiting' = None
        /\ main = "wait"
        /\ (pending' = pending \ {v} /\ main' = main) \/ (main' = "failed" /\ pending' = pending)
    BY <1>7 DEF Report
  <2>2. \A w \in Vertices : \A k \in Jobs :
          pc'[w][k] = IF w = v /\ k = j THEN "exit" ELSE pc[w][k]
    BY <2>1, <1>t
  <2>3. \A w \in Vertices : \A k \in Jobs : pc'[w][k] = "exit" => w \notin pending' \/ main' = "failed"
    BY <2>1, <2>2 DEF VerdictInv
  <2>4. main' # "walk"
    BY <2>1
  <2> QED BY <2>1, <2>3, <2>4 DEF VerdictInv
<1> QED BY <1>2, <1>3, <1>4, <1>5, <1>6, <1>7 DEF Next, Step

\* What has to hold for the goroutines of a tree not to wait for each other.
GoesOnInv == ChannelsInv /\ VerdictInv /\ TreeInv

LEMMA InitGoesOn == Init => GoesOnInv
<1> SUFFICES ASSUME Init PROVE GoesOnInv
  OBVIOUS
<1>1. From \in Vertices
  BY DagAssumption
<1>0. ASSUME NEW v \in Vertices
      PROVE  /\ calls[v] = (IF v = From THEN 1 ELSE 0) /\ entering[v] = 0
             /\ ~Scheduled(v)
  <2>1. calls[v] = (IF v = From THEN 1 ELSE 0) /\ entering[v] = 0
    BY DEF Init
  <2>2. \A j \in Jobs : pc[v][j] = "idle"
    BY DEF Init
  <2> QED BY <2>1, <2>2 DEF Scheduled
<1>2. \A v \in Vertices : ~Scheduled(v) /\ (Walked(v) <=> v = From)
  <2> SUFFICES ASSUME NEW v \in Vertices PROVE ~Scheduled(v) /\ (Walked(v) <=> v = From)
    OBVIOUS
  <2>1. CASE v = From
    BY <1>0, <2>1 DEF Walked
  <2>2. CASE v # From
    BY <1>0, <2>2 DEF Walked
  <2> QED BY <2>1, <2>2
<1>3. \A v \in Vertices : calls[v] + entering[v] <= 1
  <2> SUFFICES ASSUME NEW v \in Vertices PROVE calls[v] + entering[v] <= 1
    OBVIOUS
  <2>1. CASE v = From
    <3>1. calls[v] = 1 /\ entering[v] = 0
      BY <1>0, <2>1
    <3> QED BY <3>1
  <2>2. CASE v # From
    <3>1. calls[v] = 0 /\ entering[v] = 0
      BY <1>0, <2>2
    <3> QED BY <3>1
  <2> QED BY <2>1, <2>2
<1>4. \A v \in Vertices : \A u \in Up(v) : u \in Vertices /\ v # From
  BY DagAssumption DEF Init, Up
<1>5. visited = {} /\ \A v \in Vertices : \A j \in Jobs : pc[v][j] = "idle"
  BY DEF Init
<1>6. TreeInv
  BY <1>1, <1>2, <1>3, <1>4, <1>5 DEF TreeInv
<1>7. ChannelsInv
  BY <1>5 DEF ChannelsInv, HasFinished
<1>8. VerdictInv
  BY <1>1, <1>2, <1>5 DEF VerdictInv, Init
<1> QED BY <1>6, <1>7, <1>8 DEF GoesOnInv

\* The steps of the jobs and of the main walk keep a tree walked once.
LEMMA TreeStep == ASSUME WalkInv, TreeInv, [Next]_vars PROVE TreeInv'
<1>t. pc \in [Vertices -> [Jobs -> Phases]]
  BY DEF WalkInv, TypeOK
<1> USE DEF walkVars, jobVars, mainVars
<1>1. ASSUME NEW v \in Vertices, NEW j \in Jobs, NEW p \in Phases \ {"idle"}, pc[v][j] # "idle",
             pc' = pc \/ pc' = [pc EXCEPT ![v][j] = p], UNCHANGED <<dag, walkVars>>
      PROVE  TreeInv'
  <2>1. \A w \in Vertices : \A k \in Jobs : (pc'[w][k] = "idle") <=> (pc[w][k] = "idle")
    BY <1>1, <1>t
  <2> QED BY <1>1, <2>1, TreeFrame
<1>2. ASSUME NEW v \in Vertices, NEW j \in Jobs,
             \/ NextDependency(v, j) \/ FindClosed(v, j) \/ FinishBlock(v, j)
             \/ NextSignal(v, j) \/ Report(v, j)
      PROVE  TreeInv'
  <2>1. CASE NextDependency(v, j)
    BY <1>1, <2>1 DEF NextDependency, Phases
  <2>2. CASE FindClosed(v, j)
    BY <1>1, <2>2 DEF FindClosed, Phases
  <2>3. CASE FinishBlock(v, j)
    BY <1>1, <2>3 DEF FinishBlock, Phases
  <2>4. CASE NextSignal(v, j)
    BY <1>1, <2>4 DEF NextSignal, Phases
  <2>5. CASE Report(v, j)
    BY <1>1, <2>5 DEF Report, Phases
  <2> QED BY <1>2, <2>1, <2>2, <2>3, <2>4, <2>5
<1>3. ASSUME NEW u \in Vertices, NEW v \in Vertices, NEW i \in Jobs, NEW j \in Jobs, Signal(u, i, v, j)
      PROVE  TreeInv'
  BY <1>3, TreeFrame DEF Signal
<1>4. CASE NextReport \/ SeeCancelled \/ CancelParent \/ UNCHANGED vars
  <2>1. UNCHANGED <<dag, calls, entering, visited, pc>>
    BY <1>4 DEF NextReport, SeeCancelled, CancelParent, vars
  <2> QED BY <2>1, TreeFrame
<1> QED BY <1>2, <1>3, <1>4, CheckVisitedTree, ScheduleTree DEF Next, Step

(***************************************************************************)
(* Giving up                                                               *)
(***************************************************************************)
\* A channel is closed when a job has received its value, and nobody gives up on one
\* that another job has not.
TakenInv ==
  /\ \A u, v \in Vertices : u \in Up(v) /\ <<u, v>> \in closed => \E k \in Jobs : u \in Got(v, k)
  /\ GivesUpToAnother

\* The graph does not change.
LEMMA DagStays == [Next]_vars => dag' = dag
<1> SUFFICES ASSUME [Next]_vars PROVE dag' = dag
  OBVIOUS
<1>1. ASSUME NEW v \in Vertices, CheckVisited(v) PROVE dag' = dag
  BY <1>1 DEF CheckVisited
<1>2. ASSUME NEW v \in Vertices, NEW j \in Jobs,
             \/ Schedule(v, j) \/ NextDependency(v, j) \/ FindClosed(v, j)
             \/ FinishBlock(v, j) \/ NextSignal(v, j) \/ Report(v, j)
      PROVE  dag' = dag
  BY <1>2 DEF Schedule, NextDependency, FindClosed, FinishBlock, NextSignal, Report
<1>3. ASSUME NEW u \in Vertices, NEW v \in Vertices, NEW i \in Jobs, NEW j \in Jobs,
             Signal(u, i, v, j)
      PROVE  dag' = dag
  BY <1>3 DEF Signal
<1>4. CASE NextReport \/ SeeCancelled \/ CancelParent \/ UNCHANGED vars
  BY <1>4 DEF NextReport, SeeCancelled, CancelParent, vars
<1> QED BY <1>1, <1>2, <1>3, <1>4 DEF Next, Step

\* What a job has received it has received for good, and it does not become idle.
LEMMA TookStays ==
  ASSUME WalkInv, [Next]_vars, NEW v \in Vertices, NEW k \in Jobs
  PROVE  /\ pc[v][k] # "idle" => pc'[v][k] # "idle"
         /\ Got(v, k) \subseteq Got(v, k)'
<1>t. pc \in [Vertices -> [Jobs -> Phases]] /\ left \in [Vertices -> [Jobs -> SUBSET Vertices]]
  BY DEF WalkInv, TypeOK
<1> USE DEF walkVars, jobVars, mainVars
<1>d. Up(v)' = Up(v)
  BY DagStays DEF Up
<1>1. CASE UNCHANGED <<pc, left>>
  BY <1>1, <1>d DEF Got, HasRun
<1>2. ASSUME NEW w \in Vertices, NEW j \in Jobs,
             Schedule(w, j) \/ NextDependency(w, j) \/ FindClosed(w, j) \/ FinishBlock(w, j)
               \/ NextSignal(w, j) \/ Report(w, j)
      PROVE  /\ pc[v][k] # "idle" => pc'[v][k] # "idle"
             /\ Got(v, k) \subseteq Got(v, k)'
  <2>1. CASE Schedule(w, j)
    <3>1. /\ pc[w][j] = "idle" /\ pc' = [pc EXCEPT ![w][j] = "wait"]
          /\ left' = [left EXCEPT ![w][j] = Up(w)]
      BY <2>1 DEF Schedule
    <3>2. /\ pc'[v][k] = IF v = w /\ k = j THEN "wait" ELSE pc[v][k]
          /\ v # w \/ k # j => left'[v][k] = left[v][k]
      BY <3>1, <1>t
    <3> QED BY <3>1, <3>2, <1>d DEF Got, HasRun
  <2>2. ASSUME NEW p \in HasRun \cup {"gaveup"}, pc[w][j] # "idle", pc[w][j] # "gaveup",
               p = "gaveup" => pc[w][j] = "wait" /\ left' = left,
               pc' = pc \/ pc' = [pc EXCEPT ![w][j] = p],
               left' = left \/ (pc[w][j] = "run" /\ left' = [left EXCEPT ![w][j] = Down(w)])
        PROVE  /\ pc[v][k] # "idle" => pc'[v][k] # "idle"
               /\ Got(v, k) \subseteq Got(v, k)'
    <3>1. \/ pc'[v][k] = pc[v][k]
          \/ v = w /\ k = j /\ pc'[v][k] = p
      BY <2>2, <1>t
    <3>2. left'[v][k] = left[v][k] \/ (v = w /\ k = j /\ pc[w][j] = "run")
      BY <2>2, <1>t
    <3> QED BY <2>2, <3>1, <3>2, <1>d DEF Got, HasRun
  <2>3. CASE NextDependency(w, j)
    BY <2>2, <2>3 DEF NextDependency, HasRun
  <2>4. CASE FindClosed(w, j)
    BY <2>2, <2>4 DEF FindClosed
  <2>5. CASE FinishBlock(w, j)
    BY <2>2, <2>5 DEF FinishBlock, HasRun
  <2>6. CASE NextSignal(w, j) \/ Report(w, j)
    BY <2>2, <2>6 DEF NextSignal, Report, HasRun
  <2> QED BY <1>2, <2>1, <2>3, <2>4, <2>5, <2>6
<1>3. ASSUME NEW x \in Vertices, NEW w \in Vertices, NEW i \in Jobs, NEW j \in Jobs, Signal(x, i, w, j)
      PROVE  /\ pc[v][k] # "idle" => pc'[v][k] # "idle"
             /\ Got(v, k) \subseteq Got(v, k)'
  <2>1. pc' = pc /\ left' = [left EXCEPT ![x][i] = @ \ {w}, ![w][j] = @ \ {x}]
    BY <1>3 DEF Signal
  <2>2. left'[v][k] \subseteq left[v][k]
    BY <2>1, <1>t
  <2> QED BY <2>1, <2>2, <1>d DEF Got, HasRun
<1>4. CASE \/ \E w \in Vertices : CheckVisited(w)
           \/ NextReport \/ SeeCancelled \/ CancelParent \/ UNCHANGED vars
  <2>1. UNCHANGED <<pc, left>>
    BY <1>4 DEF CheckVisited, NextReport, SeeCancelled, CancelParent, vars
  <2> QED BY <1>1, <2>1
<1> QED BY <1>2, <1>3, <1>4 DEF Next, Step

\* A job that gave up stays where it is.
LEMMA GaveUpStays ==
  ASSUME WalkInv, [Next]_vars, NEW v \in Vertices, NEW k \in Jobs, pc[v][k] = "gaveup"
  PROVE  at'[v][k] = at[v][k]
<1>t. at \in [Vertices -> [Jobs -> Vertices \cup {None}]]
  BY DEF WalkInv, TypeOK
<1> USE DEF walkVars, jobVars, mainVars
<1>1. ASSUME NEW w \in Vertices, NEW j \in Jobs, NextDependency(w, j) \/ NextSignal(w, j)
      PROVE  at'[v][k] = at[v][k]
  <2>1. w # v \/ j # k
    BY <1>1 DEF NextDependency, NextSignal
  <2>2. CASE at' = at
    BY <2>2
  <2>3. ASSUME NEW x, at' = [at EXCEPT ![w][j] = x] PROVE at'[v][k] = at[v][k]
    BY <2>1, <2>3, <1>t
  <2> QED BY <1>1, <2>2, <2>3 DEF NextDependency, NextSignal
<1>2. ASSUME NEW x \in Vertices, NEW w \in Vertices, NEW i \in Jobs, NEW j \in Jobs, Signal(x, i, w, j)
      PROVE  at'[v][k] = at[v][k]
  <2>1. (w # v \/ j # k) /\ (x # v \/ i # k)
    BY <1>2 DEF Signal
  <2>2. at' = [at EXCEPT ![x][i] = None, ![w][j] = None]
    BY <1>2 DEF Signal
  <2> QED BY <2>1, <2>2, <1>t
<1>3. CASE \/ \E w \in Vertices : CheckVisited(w)
           \/ \E w \in Vertices, j \in Jobs :
                Schedule(w, j) \/ FindClosed(w, j) \/ FinishBlock(w, j) \/ Report(w, j)
           \/ NextReport \/ SeeCancelled \/ CancelParent \/ UNCHANGED vars
  BY <1>3 DEF CheckVisited, Schedule, FindClosed, FinishBlock, Report, NextReport, SeeCancelled,
              CancelParent, vars
<1> QED BY <1>1, <1>2, <1>3 DEF Next, Step

LEMMA TakenStep == WalkInv /\ ChannelsInv /\ TakenInv /\ [Next]_vars => TakenInv'
<1> SUFFICES ASSUME WalkInv, ChannelsInv, TakenInv, [Next]_vars PROVE TakenInv'
  OBVIOUS
<1>t. pc \in [Vertices -> [Jobs -> Phases]] /\ left \in [Vertices -> [Jobs -> SUBSET Vertices]]
      /\ closed \subseteq Vertices \X Vertices
  BY DEF WalkInv, TypeOK
<1> USE DEF walkVars, jobVars, mainVars
<1>1. ASSUME NEW u \in Vertices, NEW v \in Vertices, u \in Up(v)', <<u, v>> \in closed'
      PROVE  \E k \in Jobs : u \in Got(v, k)'
  <2>d. u \in Up(v)
    BY <1>1, DagStays DEF Up
  <2>1. CASE <<u, v>> \in closed
    BY <2>d, <2>1, TookStays DEF TakenInv
  <2>2. CASE <<u, v>> \notin closed
    <3>1. PICK i, j \in Jobs : Signal(u, i, v, j)
      <4>1. \E x, w \in Vertices, i, j \in Jobs : Signal(x, i, w, j)
        BY <1>1, <2>2
           DEF Next, Step, vars, CheckVisited, Schedule, NextDependency, FindClosed, FinishBlock,
               NextSignal, NextReport, Report, SeeCancelled, CancelParent
      <4>2. PICK x, w \in Vertices, i, j \in Jobs : Signal(x, i, w, j)
        BY <4>1
      <4>3. <<u, v>> = <<x, w>>
        BY <1>1, <2>2, <4>2 DEF Signal
      <4> QED BY <4>2, <4>3
    <3>2. /\ pc' = pc /\ pc[u][i] = "signal" /\ pc[v][j] = "wait"
          /\ left' = [left EXCEPT ![u][i] = @ \ {v}, ![v][j] = @ \ {u}]
      BY <3>1 DEF Signal
    <3>3. u \notin left'[v][j]
      BY <3>2, <1>t
    <3> QED BY <1>1, <3>2, <3>3 DEF Got
  <2> QED BY <2>1, <2>2
<1>2. ASSUME NEW v \in Vertices, NEW j \in Jobs, pc'[v][j] = "gaveup"
      PROVE  \E k \in Jobs \ {j} : at'[v][j] \in Got(v, k)'
  <2>1. CASE pc[v][j] = "gaveup"
    <3>1. PICK k \in Jobs \ {j} : at[v][j] \in Got(v, k)
      BY <2>1 DEF TakenInv, GivesUpToAnother
    <3> QED BY <2>1, <3>1, TookStays, GaveUpStays
  <2>2. CASE pc[v][j] # "gaveup"
    <3>1. FindClosed(v, j)
      <4>1. \/ \E w \in Vertices, k \in Jobs : FindClosed(w, k)
            \/ pc' = pc
            \/ \E w \in Vertices, k \in Jobs, p \in {"wait"} \cup HasRun : pc' = [pc EXCEPT ![w][k] = p]
        <5>1. ASSUME NEW w \in Vertices, NEW k \in Jobs,
                     \/ Schedule(w, k) \/ NextDependency(w, k) \/ FinishBlock(w, k)
                     \/ NextSignal(w, k) \/ Report(w, k)
              PROVE  pc' = pc \/ \E p \in {"wait"} \cup HasRun : pc' = [pc EXCEPT ![w][k] = p]
          BY <5>1 DEF Schedule, NextDependency, FinishBlock, NextSignal, Report, HasRun
        <5>2. CASE \/ \E w \in Vertices : CheckVisited(w)
                   \/ \E x, w \in Vertices, i, k \in Jobs : Signal(x, i, w, k)
                   \/ NextReport \/ SeeCancelled \/ CancelParent \/ UNCHANGED vars
          <6>1. ASSUME NEW w \in Vertices, CheckVisited(w) PROVE pc' = pc
            BY <6>1 DEF CheckVisited
          <6>2. ASSUME NEW x \in Vertices, NEW w \in Vertices, NEW i \in Jobs, NEW k \in Jobs,
                       Signal(x, i, w, k)
                PROVE  pc' = pc
            BY <6>2 DEF Signal
          <6>3. CASE NextReport \/ SeeCancelled \/ CancelParent \/ UNCHANGED vars
            BY <6>3 DEF NextReport, SeeCancelled, CancelParent, vars
          <6> QED BY <5>2, <6>1, <6>2, <6>3
        <5>3. CASE \E w \in Vertices, k \in Jobs :
                     \/ Schedule(w, k) \/ NextDependency(w, k) \/ FinishBlock(w, k)
                     \/ NextSignal(w, k) \/ Report(w, k)
          BY <5>1, <5>3
        <5>4. CASE \E w \in Vertices, k \in Jobs : FindClosed(w, k)
          BY <5>4
        <5> QED BY <5>2, <5>3, <5>4 DEF Next, Step
      <4>2. PICK w \in Vertices, k \in Jobs : FindClosed(w, k)
        BY <4>1, <1>2, <2>2, <1>t DEF HasRun
      <4>3. w = v /\ k = j
        BY <4>2, <1>2, <2>2, <1>t DEF FindClosed
      <4> QED BY <4>2, <4>3
    <3>2. pc[v][j] = "wait" /\ <<at[v][j], v>> \in closed
      BY <3>1 DEF FindClosed
    <3>3. at[v][j] \in Up(v) /\ at[v][j] \in left[v][j]
      <4>1. at[v][j] \in Vertices
        BY <3>2, <1>t
      <4>2. at[v][j] # None
        BY <4>1, DagAssumption
      <4>3. at[v][j] \in left[v][j]
        BY <4>2 DEF WalkInv, AtIsLeft
      <4> QED BY <3>2, <4>3 DEF ChannelsInv
    <3>4. PICK k \in Jobs : at[v][j] \in Got(v, k)
      BY <3>2, <3>3 DEF TakenInv, Up
    <3>5. k # j
      BY <3>2, <3>3, <3>4 DEF Got, HasRun
    <3>6. at'[v][j] = at[v][j]
      BY <3>1 DEF FindClosed
    <3> QED BY <3>4, <3>5, <3>6, TookStays
  <2> QED BY <2>1, <2>2
<1> QED BY <1>1, <1>2 DEF TakenInv, GivesUpToAnother

\* A job gives up on a channel only because another job of its vertex has its value.
THEOREM GivenUpToAnother == Spec => []GivesUpToAnother
<1>1. Init => TakenInv
  BY DEF Init, TakenInv, GivesUpToAnother
<1>2. TakenInv => GivesUpToAnother
  BY DEF TakenInv
<1>3. Init => ChannelsInv
  BY InitGoesOn DEF GoesOnInv
<1>4. WalkInv /\ ChannelsInv /\ [Next]_vars => ChannelsInv'
  BY ChannelsStep
<1> QED BY WalkInvariant, TakenStep, <1>1, <1>2, <1>3, <1>4, PTL DEF Spec

\* Where nothing can go on, every vertex has been walked to and scheduled: what is
\* below a vertex that is scheduled is scheduled.
LEMMA AllScheduled ==
  ASSUME WalkInv, TreeInv, IsTree, AllBelow, ~CanStep
  PROVE  \A v \in Vertices : Scheduled(v)
<1> DEFINE S == {v \in Vertices : Scheduled(v)}
<1>1. ASSUME NEW v \in Vertices, Walked(v) PROVE Scheduled(v)
  <2>1. calls[v] \in Nat /\ entering[v] \in Nat
    BY DEF WalkInv, TypeOK
  <2>2. calls[v] = 0
    BY <2>1 DEF CanStep
  <2>3. ASSUME ~Scheduled(v) PROVE FALSE
    <3>1. PICK j \in Jobs : pc[v][j] = "idle"
      BY <2>3, DagAssumption DEF Scheduled
    <3>2. ~(entering[v] > 0)
      BY <3>1 DEF CanStep
    <3> QED BY <1>1, <2>1, <2>2, <2>3, <3>2 DEF Walked
  <2> QED BY <2>3
<1>2. From \in S
  BY <1>1, DagAssumption DEF TreeInv
<1>3. ASSUME NEW v \in S, NEW w \in Down(v) PROVE w \in S
  <2>1. w \in Vertices /\ v \in Up(w)
    BY DEF Down, Up
  <2>2. Walked(w)
    BY <2>1 DEF TreeInv
  <2> QED BY <1>1, <2>1, <2>2
<1>4. S \in SUBSET Vertices
  OBVIOUS
<1> HIDE DEF S
<1>5. S = Vertices
  BY <1>2, <1>3, <1>4 DEF AllBelow
<1> QED BY <1>5 DEF S

\* In a tree the one job of a vertex does not give up, because there is no other
\* that it could give up to.
LEMMA HasAJob ==
  ASSUME WalkInv, TakenInv, TreeInv, IsTree, AllBelow, ~CanStep, NEW v \in Vertices
  PROVE  \E j \in Jobs : pc[v][j] # "idle" /\ pc[v][j] # "gaveup"
<1>1. PICK j \in Jobs : pc[v][j] # "idle"
  BY AllScheduled DEF Scheduled
<1>2. \A k \in Jobs \ {j} : pc[v][k] = "idle"
  BY <1>1 DEF TreeInv
<1>3. pc[v][j] # "gaveup"
  BY <1>2 DEF TakenInv, GivesUpToAnother, Got, HasRun
<1> QED BY <1>1, <1>3

\* A job that waits is blocked on the channel of a dependency.
LEMMA WaitsAbove ==
  ASSUME WalkInv, ChannelsInv, ~CanStep, NEW v \in Vertices, NEW j \in Jobs, pc[v][j] = "wait"
  PROVE  at[v][j] \in Up(v)
<1>1. at[v][j] # None
  BY DEF CanStep
<1> QED BY <1>1 DEF WalkInv, AtIsLeft, ChannelsInv

\* A job that has something to send finds somebody who waits for it, because who
\* depends on it depends on nothing else.
LEMMA NoneIsSending ==
  ASSUME WalkInv, TakenInv, GoesOnInv, IsTree, AllBelow, ~CanStep,
         NEW v \in Vertices, NEW j \in Jobs
  PROVE  pc[v][j] # "signal"
<1> SUFFICES ASSUME pc[v][j] = "signal" PROVE FALSE
  OBVIOUS
<1> DEFINE w == at[v][j]
<1>1. w # None /\ w \in Vertices
  <2>1. w # None
    BY DEF CanStep
  <2> QED BY <2>1 DEF WalkInv, TypeOK
<1>2. w \in left[v][j] /\ <<v, w>> \notin closed
  BY <1>1 DEF WalkInv, AtIsLeft, NoSendOnClosed
<1>3. v \in Up(w)
  BY <1>1, <1>2 DEF GoesOnInv, ChannelsInv, Up, Down
<1>4. PICK k \in Jobs : pc[w][k] # "idle" /\ pc[w][k] # "gaveup"
  BY <1>1, HasAJob DEF GoesOnInv
<1>5. pc[w][k] # "wait"
  <2> SUFFICES ASSUME pc[w][k] = "wait" PROVE FALSE
    OBVIOUS
  <2>1. at[w][k] = v
    BY <1>1, <1>3, WaitsAbove DEF GoesOnInv, IsTree
  <2> QED BY <1>1, <2>1 DEF CanStep
<1>6. pc[w][k] \in HasRun
  BY <1>1, <1>4, <1>5 DEF WalkInv, TypeOK, Phases, HasRun
<1>7. v \in Got(w, k)
  BY <1>3, <1>6 DEF Got
<1> QED BY <1>1, <1>2, <1>7 DEF WalkInv, GotOnce

\* So all that are waited for have finished, from the root down.
LEMMA AllFinished ==
  ASSUME WalkInv, TakenInv, GoesOnInv, IsTree, AllBelow, ~CanStep
  PROVE  \A v \in Vertices : \E j \in Jobs : pc[v][j] \in {"report", "exit"}
<1> DEFINE S == {v \in Vertices : \E j \in Jobs : pc[v][j] \in {"report", "exit"}}
<1>1. ASSUME NEW v \in Vertices,
             \A k \in Jobs : pc[v][k] = "wait" => \A u \in Up(v) : <<u, v>> \in closed
      PROVE  v \in S
  <2>1. PICK k \in Jobs : pc[v][k] # "idle" /\ pc[v][k] # "gaveup"
    BY HasAJob DEF GoesOnInv
  <2>2. pc[v][k] # "signal" /\ pc[v][k] # "run"
    BY NoneIsSending DEF CanStep
  <2>3. pc[v][k] # "wait"
    <3> SUFFICES ASSUME pc[v][k] = "wait" PROVE FALSE
      OBVIOUS
    <3>1. at[v][k] \in Up(v)
      BY WaitsAbove DEF GoesOnInv
    <3> QED BY <1>1, <3>1 DEF CanStep
  <2>4. pc[v][k] \in Phases
    BY DEF WalkInv, TypeOK
  <2> QED BY <2>1, <2>2, <2>3, <2>4 DEF Phases
<1>2. From \in S
  <2>1. From \in Vertices /\ Up(From) = {}
    BY DagAssumption DEF WalkInv, TypeOK, Up
  <2> QED BY <1>1, <2>1
<1>3. ASSUME NEW v \in S, NEW w \in Down(v) PROVE w \in S
  <2>1. w \in Vertices /\ v \in Up(w) /\ \A u \in Up(w) : u = v
    BY DEF Down, Up, IsTree
  <2>2. PICK j \in Jobs : pc[v][j] \in {"report", "exit"}
    OBVIOUS
  <2>3. <<v, w>> \in closed
    BY <2>2 DEF GoesOnInv, ChannelsInv, HasFinished
  <2> QED BY <1>1, <2>1, <2>3
<1>4. S \in SUBSET Vertices
  OBVIOUS
<1> HIDE DEF S
<1>5. S = Vertices
  BY <1>2, <1>3, <1>4 DEF AllBelow
<1> QED BY <1>5 DEF S

\* When no vertex has two dependencies no goroutine is left waiting for another:
\* when nothing can go on any more Run has returned, and every block was run.
THEOREM TreesGoOn == Spec => []TreeNeverStuck
<1>1. WalkInv /\ TakenInv /\ GoesOnInv => TreeNeverStuck
  <2> SUFFICES ASSUME WalkInv, TakenInv, GoesOnInv, IsTree, AllBelow, ~CanStep
               PROVE  main \in {"succeeded", "failed"} /\ \A v \in Vertices : result[v] # "none"
    BY DEF TreeNeverStuck
  <2>1. \A v \in Vertices : \E j \in Jobs : pc[v][j] \in {"report", "exit"}
    BY AllFinished
  <2>2. \A v \in Vertices : result[v] # "none"
    BY <2>1 DEF WalkInv, ResultOfFinished, HasFinished
  <2>3. main # "walk"
    BY AllScheduled, DagAssumption DEF GoesOnInv, VerdictInv
  <2>4. main # "wait"
    <3> SUFFICES ASSUME main = "wait" PROVE FALSE
      OBVIOUS
    <3>1. awaiting # None
      BY DEF CanStep
    <3>2. awaiting \in Vertices /\ awaiting \in pending
      BY <3>1 DEF GoesOnInv, VerdictInv, WalkInv, TypeOK
    <3>3. PICK j \in Jobs : pc[awaiting][j] \in {"report", "exit"}
      BY <2>1, <3>2
    <3>4. pc[awaiting][j] # "report"
      BY <3>2 DEF CanStep
    <3> QED BY <3>2, <3>3, <3>4 DEF GoesOnInv, VerdictInv
  <2>5. main \in {"walk", "wait", "succeeded", "failed"}
    BY DEF WalkInv, TypeOK
  <2> QED BY <2>2, <2>3, <2>4, <2>5
<1>2. WalkInv /\ TypeOK' /\ GoesOnInv /\ [Next]_vars => GoesOnInv'
  BY ChannelsStep, VerdictStep, TreeStep DEF GoesOnInv
<1>3. Init => TakenInv
  BY DEF Init, TakenInv, GivesUpToAnother
<1>4. GoesOnInv => ChannelsInv
  BY DEF GoesOnInv
<1> QED
  BY <1>1, <1>2, <1>3, <1>4, InitGoesOn, TakenStep, WalkInvariant, TypeCorrect, PTL DEF Spec
=============================================================================
