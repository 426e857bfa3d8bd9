----------------------------- MODULE DagExecutor -----------------------------
(***************************************************************************)
(* The concurrent walk of a graph of blocks, pkg/exec/executor.            *)
(*                                                                         *)
(* Run walks the graph from the root: execute(v) schedules v unless it was *)
(* visited, and starts one goroutine per downstream vertex that does the   *)
(* same, so v is walked once per path from the root.  Whether v was        *)
(* visited is read under one lock and recorded under another, hence two    *)
(* steps.  A scheduled vertex is a goroutine of its own (a job): it takes  *)
(* one value from the channel of each edge that leads to it, runs the      *)
(* block, sends the outcome on the channel of each edge that leaves, and   *)
(* reports it to the main walk, which takes the reports in an order of its *)
(* own.  No channel has a buffer: a send and its receipt are one step.  A  *)
(* channel is closed right after its only send; nobody else can send on it *)
(* and an early reader only waits for the close, so both are one step too. *)
(*                                                                         *)
(* The walkers at a vertex are alike, so they are counted, not named.  The *)
(* 5 s timers of the two select loops only log, and leave no trace here.   *)
(***************************************************************************)
EXTENDS Naturals

CONSTANTS Vertices,  \* the vertices of the graph
          From,      \* the vertex the walk starts from (Config.From)
          Dags,      \* the sets of edges <<from, to>> an executor can be given
          Jobs,      \* numbers for the goroutines of one vertex; a bound for TLC
          None       \* no vertex

\* GenerateDAG adds the root vertex and connects it to others, never the reverse.
ASSUME DagAssumption ==
  /\ From \in Vertices
  /\ None \notin Vertices
  /\ Jobs \subseteq Nat /\ Jobs # {}
  /\ Dags \subseteq SUBSET (Vertices \X Vertices)
  /\ \A d \in Dags : \A u \in Vertices : <<u, From>> \notin d

VARIABLES dag,        \* the edges of the graph (dagExecutor.d)
          calls,      \* execute(v) calls that have not read isVisted yet
          entering,   \* execute(v) calls that read it as false, not yet recorded
          visited,    \* the vertices that are recorded as visited
          pc,         \* where a job of a vertex is
          left,       \* the channels a job's range loop has still to deal with
          at,         \* the channel it is blocked on, by the vertex at its other end
          closed,     \* the edges whose channel is closed (its value is taken)
          result,     \* what BlockRun returned for a vertex
          main,       \* where Run is, and what it returned
          pending,    \* the vertices the main walk has no report of
          awaiting,   \* the vertex whose report it is blocked on
          cancelled   \* the context of the walk is cancelled

walkVars == <<calls, entering, visited>>
jobVars == <<pc, left, at, closed, result>>
mainVars == <<main, pending, awaiting>>
vars == <<dag, walkVars, jobVars, mainVars, cancelled>>

Up(v) == {u \in Vertices : <<u, v>> \in dag}
Down(v) == {w \in Vertices : <<v, w>> \in dag}

\* Where a job can be; one that called BlockRun; one whose BlockRun returned.
Phases == {"idle", "wait", "gaveup", "run", "signal", "report", "exit"}
HasRun == {"run", "signal", "report", "exit"}
HasFinished == {"signal", "report", "exit"}
-----------------------------------------------------------------------------
Init ==
  /\ dag \in Dags
  /\ calls = [v \in Vertices |-> IF v = From THEN 1 ELSE 0]
  /\ entering = [v \in Vertices |-> 0]
  /\ visited = {}
  /\ pc = [v \in Vertices |-> [j \in Jobs |-> "idle"]]
  /\ left = [v \in Vertices |-> [j \in Jobs |-> {}]]
  /\ at = [v \in Vertices |-> [j \in Jobs |-> None]]
  /\ closed = {}
  /\ result = [v \in Vertices |-> "none"]
  /\ main = "walk"
  /\ pending = Vertices
  /\ awaiting = None
  /\ cancelled = FALSE

(***************************************************************************)
(* The walk                                                                *)
(***************************************************************************)
\* One execute call is over for v and one begins for each vertex below it.
Descend(v, over) ==
  [w \in Vertices |-> over[w] + IF w \in Down(v) THEN 1 ELSE 0]

CheckVisited(v) ==
  /\ calls[v] > 0
  /\ \/ /\ v \notin visited
        /\ entering' = [entering EXCEPT ![v] = @ + 1]
        /\ calls' = [calls EXCEPT ![v] = @ - 1]
     \/ /\ v \in visited
        /\ calls' = Descend(v, [calls EXCEPT ![v] = @ - 1])
        /\ UNCHANGED entering
  /\ UNCHANGED <<dag, visited, jobVars, mainVars, cancelled>>

\* updateVisted, then the job of v starts; the first call goes on to wait for reports.
Schedule(v, j) ==
  /\ entering[v] > 0
  /\ pc[v][j] = "idle"
  /\ \A k \in Jobs : k < j => pc[v][k] # "idle"
  /\ entering' = [entering EXCEPT ![v] = @ - 1]
  /\ visited' = visited \cup {v}
  /\ calls' = Descend(v, calls)
  /\ pc' = [pc EXCEPT ![v][j] = "wait"]
  /\ left' = [left EXCEPT ![v][j] = Up(v)]
  /\ main' = IF v = From THEN "wait" ELSE main
  /\ UNCHANGED <<dag, at, closed, result, pending, awaiting, cancelled>>

(***************************************************************************)
(* A job: waitDependencies, then run                                       *)
(***************************************************************************)
\* Mutant: the first dependency that is satisfied ends the wait.
NextDependencyAny(v, j) ==
  /\ pc[v][j] = "wait"
  /\ at[v][j] = None
  /\ \/ /\ \E u \in left[v][j] : at' = [at EXCEPT ![v][j] = u]
        /\ UNCHANGED pc
     \/ /\ left[v][j] # Up(v) \/ left[v][j] = {}
        /\ pc' = [pc EXCEPT ![v][j] = "run"]
        /\ UNCHANGED at
  /\ UNCHANGED <<dag, walkVars, left, closed, result, mainVars, cancelled>>

\* The range loop of waitDependencies turns to any channel left, or ends.
NextDependency(v, j) ==
  /\ pc[v][j] = "wait"
  /\ at[v][j] = None
  /\ \/ /\ \E u \in left[v][j] : at' = [at EXCEPT ![v][j] = u]
        /\ UNCHANGED pc
     \/ /\ left[v][j] = {}
        /\ pc' = [pc EXCEPT ![v][j] = "run"]
        /\ UNCHANGED at
  /\ UNCHANGED <<dag, walkVars, left, closed, result, mainVars, cancelled>>

\* Mutant: the loop of the sender comes back to a channel it has closed.
SignalAgain(u, i, v, j) ==
  /\ pc[u][i] = "signal" /\ at[u][i] = v
  /\ pc[v][j] = "wait" /\ at[v][j] = u
  /\ closed' = closed \cup {<<u, v>>}
  /\ left' = [left EXCEPT ![v][j] = @ \ {u}]
  /\ at' = [at EXCEPT ![u][i] = None, ![v][j] = None]
  /\ UNCHANGED <<dag, walkVars, pc, result, mainVars, cancelled>>

\* The job of u sends its outcome to a job of v, which ignores the value (a
\* receipt with ok = true continues the loop), and closes the channel.
Signal(u, i, v, j) ==
  /\ pc[u][i] = "signal" /\ at[u][i] = v
  /\ pc[v][j] = "wait" /\ at[v][j] = u
  /\ closed' = closed \cup {<<u, v>>}
  /\ left' = [left EXCEPT ![u][i] = @ \ {v}, ![v][j] = @ \ {u}]
  /\ at' = [at EXCEPT ![u][i] = None, ![v][j] = None]
  /\ UNCHANGED <<dag, walkVars, pc, result, mainVars, cancelled>>

\* Mutant: a closed channel counts as a satisfied dependency.
FindClosedContinue(v, j) ==
  /\ pc[v][j] = "wait"
  /\ <<at[v][j], v>> \in closed
  /\ left' = [left EXCEPT ![v][j] = @ \ {at[v][j]}]
  /\ at' = [at EXCEPT ![v][j] = None]
  /\ UNCHANGED <<dag, walkVars, pc, closed, result, mainVars, cancelled>>

\* Mutant: the 5 s timer ends the wait for a dependency.
FindClosedTimeout(v, j) ==
  /\ pc[v][j] = "wait"
  /\ at[v][j] # None
  /\ pc' = [pc EXCEPT ![v][j] = "gaveup"]
  /\ UNCHANGED <<dag, walkVars, left, at, closed, result, mainVars, cancelled>>

\* A closed channel yields the zero value: waitDependencies returns false and
\* the job ends without running the block or telling anyone.
FindClosed(v, j) ==
  /\ pc[v][j] = "wait"
  /\ <<at[v][j], v>> \in closed
  /\ pc' = [pc EXCEPT ![v][j] = "gaveup"]
  /\ UNCHANGED <<dag, walkVars, left, at, closed, result, mainVars, cancelled>>

\* Mutant: a block that fails ends its job at once.
FinishBlockSilent(v, j) ==
  /\ pc[v][j] = "run"
  /\ \E r \in {"ok", "failed"} :
       /\ result' = [result EXCEPT ![v] = r]
       /\ pc' = [pc EXCEPT ![v][j] = IF r = "ok" THEN "signal" ELSE "exit"]
  /\ left' = [left EXCEPT ![v][j] = Down(v)]
  /\ UNCHANGED <<dag, walkVars, at, closed, mainVars, cancelled>>

FinishBlock(v, j) ==
  /\ pc[v][j] = "run"
  /\ \E r \in {"ok", "failed"} : result' = [result EXCEPT ![v] = r]
  /\ pc' = [pc EXCEPT ![v][j] = "signal"]
  /\ left' = [left EXCEPT ![v][j] = Down(v)]
  /\ UNCHANGED <<dag, walkVars, at, closed, mainVars, cancelled>>

\* The range loop of run turns to any channel left, or ends.
NextSignal(v, j) ==
  /\ pc[v][j] = "signal"
  /\ at[v][j] = None
  /\ \/ /\ \E w \in left[v][j] : at' = [at EXCEPT ![v][j] = w]
        /\ UNCHANGED pc
     \/ /\ left[v][j] = {}
        /\ pc' = [pc EXCEPT ![v][j] = "report"]
        /\ UNCHANGED at
  /\ UNCHANGED <<dag, walkVars, left, closed, result, mainVars, cancelled>>

(***************************************************************************)
(* The main walk: waitFunctionCompletion                                   *)
(***************************************************************************)
NextReport ==
  /\ main = "wait"
  /\ awaiting = None
  /\ \/ /\ awaiting' \in pending
        /\ UNCHANGED main
     \/ /\ pending = {}
        /\ main' = "succeeded"
        /\ UNCHANGED awaiting
  /\ UNCHANGED <<dag, walkVars, jobVars, pending, cancelled>>

\* Mutant: the outcome of the block is received and not looked at.
ReportUnread(v, j) ==
  /\ pc[v][j] = "report"
  /\ main = "wait" /\ awaiting = v
  /\ pc' = [pc EXCEPT ![v][j] = "exit"]
  /\ awaiting' = None
  /\ pending' = pending \ {v}
  /\ UNCHANGED <<dag, walkVars, left, at, closed, result, main, cancelled>>

\* The job of v hands its outcome to the main walk; a failure cancels and ends it.
Report(v, j) ==
  /\ pc[v][j] = "report"
  /\ main = "wait" /\ awaiting = v
  /\ pc' = [pc EXCEPT ![v][j] = "exit"]
  /\ awaiting' = None
  /\ \/ /\ result[v] = "ok"
        /\ pending' = pending \ {v}
        /\ UNCHANGED <<main, cancelled>>
     \/ /\ result[v] = "failed"
        /\ main' = "failed"
        /\ cancelled' = TRUE
        /\ UNCHANGED pending
  /\ UNCHANGED <<dag, walkVars, left, at, closed, result>>

\* Mutant: as the timer next to it, the end of the context is only logged.
SeeCancelledLogged ==
  /\ main = "wait"
  /\ awaiting # None
  /\ cancelled
  /\ UNCHANGED vars

\* The main walk waits for a report or for the end of the context.
SeeCancelled ==
  /\ main = "wait"
  /\ awaiting # None
  /\ cancelled
  /\ main' = "failed"
  /\ awaiting' = None
  /\ UNCHANGED <<dag, walkVars, jobVars, pending, cancelled>>

\* The context Run was given is cancelled: for a nested package, by the walk around it.
CancelParent ==
  /\ ~cancelled
  /\ cancelled' = TRUE
  /\ UNCHANGED <<dag, walkVars, jobVars, mainVars>>
-----------------------------------------------------------------------------
\* A step of the program, as opposed to one of its caller.
Step ==
  \/ \E v \in Vertices : CheckVisited(v)
  \/ \E v \in Vertices, j \in Jobs : Schedule(v, j)
  \/ \E v \in Vertices, j \in Jobs : NextDependency(v, j)
  \/ \E u, v \in Vertices, i, j \in Jobs : Signal(u, i, v, j)
  \/ \E v \in Vertices, j \in Jobs : FindClosed(v, j)
  \/ \E v \in Vertices, j \in Jobs : FinishBlock(v, j)
  \/ \E v \in Vertices, j \in Jobs : NextSignal(v, j)
  \/ NextReport
  \/ \E v \in Vertices, j \in Jobs : Report(v, j)
  \/ SeeCancelled

Next == Step \/ CancelParent

Spec == Init /\ [][Next]_vars

\* No goroutine that can take a step is left alone for ever, and BlockRun
\* returns.  A goroutine takes finitely many steps, so it is enough that the
\* program does not stop while one of them can go on.
FairSpec == Spec /\ WF_vars(Step)
-----------------------------------------------------------------------------
(***************************************************************************)
(* Properties                                                              *)
(***************************************************************************)
\* The variables hold what the fields, channels and goroutines they stand for can hold.
TypeOK ==
  /\ dag \in Dags
  /\ calls \in [Vertices -> Nat]
  /\ entering \in [Vertices -> Nat]
  /\ visited \subseteq Vertices
  /\ pc \in [Vertices -> [Jobs -> Phases]]
  /\ left \in [Vertices -> [Jobs -> SUBSET Vertices]]
  /\ at \in [Vertices -> [Jobs -> Vertices \cup {None}]]
  /\ closed \subseteq Vertices \X Vertices
  /\ result \in [Vertices -> {"none", "ok", "failed"}]
  /\ main \in {"walk", "wait", "succeeded", "failed"}
  /\ pending \subseteq Vertices
  /\ awaiting \in Vertices \cup {None}
  /\ cancelled \in BOOLEAN

\* BlockRun is called at most once for a vertex, although two walkers that
\* arrive together both schedule it (dag_executor.go:153-155): a job needs a
\* value of every channel and each channel carries one.
AtMostOnce ==
  \A v \in Vertices : \A j, k \in Jobs :
    pc[v][j] \in HasRun /\ pc[v][k] \in HasRun => j = k

\* When BlockRun is called for a vertex, it has returned for every dependency.
DependenciesFirst ==
  \A v \in Vertices : \A j \in Jobs :
    pc[v][j] \in HasRun => \A u \in Up(v) : result[u] # "none"

\* No job sends on a channel that is closed, which would panic.
NoSendOnClosed ==
  \A u \in Vertices : \A i \in Jobs :
    pc[u][i] = "signal" => \A v \in left[u][i] : <<u, v>> \notin closed

\* Run returns true only when every block of the graph ran and succeeded.
SuccessIsComplete ==
  main = "succeeded" => \A v \in Vertices : result[v] = "ok"

\* What a job has received, of the channels it needs, whatever it did then.
Got(v, j) ==
  {u \in Up(v) : \/ pc[v][j] \in HasRun
                 \/ pc[v][j] \in {"wait", "gaveup"} /\ u \notin left[v][j]}

\* A job gives up on a dependency only when another job of its vertex received the
\* value it waits for: without double scheduling none gives up.  The other may
\* have given up as well, on a dependency whose value went to this job.
GivesUpToAnother ==
  \A v \in Vertices : \A j \in Jobs :
    pc[v][j] = "gaveup" => \E k \in Jobs \ {j} : at[v][j] \in Got(v, k)

\* The walk implements DagSchedule: a vertex runs while a job of it is in
\* BlockRun, and the verdict is what Run returned.
Running == {v \in Vertices : \E j \in Jobs : pc[v][j] = "run"}
Promise == INSTANCE DagSchedule WITH
  running <- Running,
  verdict <- IF main \in {"succeeded", "failed"} THEN main ELSE "none"
ImplementsDagSchedule == Promise!Spec

\* Every part of the inductive invariant.  Together they say that the value
\* of an edge is received by one job, after the only job that can send it ran.
AtIsLeft ==
  \A v \in Vertices : \A j \in Jobs :
    at[v][j] # None => pc[v][j] \in {"wait", "gaveup", "signal"} /\ at[v][j] \in left[v][j]

GotOnce ==
  \A v \in Vertices : \A j \in Jobs :
    /\ \A u \in Got(v, j) : <<u, v>> \in closed
    /\ \A k \in Jobs \ {j} : Got(v, j) \cap Got(v, k) = {}

ClosedByFinished ==
  \A u, v \in Vertices :
    <<u, v>> \in closed => \E i \in Jobs : pc[u][i] \in HasFinished

ResultOfFinished ==
  \A v \in Vertices : (result[v] # "none") <=> \E j \in Jobs : pc[v][j] \in HasFinished

\* The root is walked once, before anything else; any other vertex along an edge.
RootOnce ==
  /\ calls[From] + entering[From] <= 1
  /\ calls[From] + entering[From] = 1 =>
       main = "walk" /\ \A j \in Jobs : pc[From][j] = "idle"
  /\ \A j, k \in Jobs : pc[From][j] # "idle" /\ pc[From][k] # "idle" => j = k

WalkedAlongEdge ==
  \A v \in Vertices \ {From} :
    calls[v] > 0 \/ entering[v] > 0 \/ (\E j \in Jobs : pc[v][j] # "idle") => Up(v) # {}

ReportedOk ==
  /\ \A v \in Vertices \ pending : result[v] = "ok"
  /\ main = "succeeded" => pending = {}

WalkInv ==
  /\ TypeOK
  /\ AtIsLeft
  /\ GotOnce
  /\ ClosedByFinished
  /\ ResultOfFinished
  /\ RootOnce
  /\ WalkedAlongEdge
  /\ NoSendOnClosed
  /\ ReportedOk

\* A graph in which no vertex has two dependencies, and one in which the walk from
\* the root arrives everywhere.
IsTree == \A v \in Vertices : \A u, w \in Up(v) : u = w
AllBelow ==
  \A S \in SUBSET Vertices :
    From \in S /\ (\A v \in S : Down(v) \subseteq S) => S = Vertices

\* A walker, a job or the main walk can go on: the guards of the actions of Step.
CanStep ==
  \/ \E v \in Vertices : calls[v] > 0
  \/ \E v \in Vertices, j \in Jobs :
       \/ entering[v] > 0 /\ pc[v][j] = "idle"
       \/ pc[v][j] \in {"wait", "signal"} /\ at[v][j] = None
       \/ pc[v][j] = "wait" /\ <<at[v][j], v>> \in closed
       \/ pc[v][j] = "run"
       \/ pc[v][j] = "report" /\ main = "wait" /\ awaiting = v
  \/ \E u, v \in Vertices, i, j \in Jobs :
       pc[u][i] = "signal" /\ at[u][i] = v /\ pc[v][j] = "wait" /\ at[v][j] = u
  \/ main = "wait" /\ (awaiting = None \/ cancelled)

\* When no vertex has two dependencies the goroutines never all wait for each
\* other: where nothing can go on, Run has returned and every block was run.
TreeNeverStuck ==
  IsTree /\ ~CanStep /\ AllBelow =>
    main \in {"succeeded", "failed"} /\ \A v \in Vertices : result[v] # "none"

\* Run returns where no vertex has two dependencies, whatever the blocks do; and
\* on any graph once the context is cancelled, even while jobs go on waiting for
\* each other (waitDependencies does not look at the context, the main walk does).
RunEnds == (IsTree \/ cancelled) ~> main \in {"succeeded", "failed"}

\* exec_context.go:151 calls a dependency whose outcome is false failed and
\* gives up on it: no block runs when a block it depends on has failed.
FailedDependencyStops ==
  \A v \in Vertices : \A j \in Jobs :
    pc[v][j] \in HasRun => \A u \in Up(v) : result[u] # "failed"

\* exec_context.go:136: "for each dependency wait till a it completed": no
\* job is left waiting for dependencies that have all completed.
WaitEnds ==
  []<>(\A v \in Vertices :
         (\A u \in Up(v) : result[u] # "none") => \A j \in Jobs : pc[v][j] # "wait")
=============================================================================
