----------------------------- MODULE DagSchedule -----------------------------
(***************************************************************************)
(* What the executor of pkg/exec/executor promises the code that hands it  *)
(* a graph of blocks, with no goroutine or channel in sight: a block runs  *)
(* at most once and only after every block it depends on has finished, and *)
(* Run answers true only for a graph of which every block succeeded.       *)
(*                                                                         *)
(* Nothing is promised about a block whose dependency failed: the executor *)
(* starts it all the same (the run exec_failed_dependency shows it).       *)
(***************************************************************************)
CONSTANTS Vertices,  \* the blocks, the root vertex among them
          Dags       \* the sets of edges <<from, to>> an executor can be given

VARIABLES dag,       \* the edges of the graph that is executed
          running,   \* the blocks whose BlockRun has started and not returned
          result,    \* what BlockRun returned: "ok", "failed", or "none" yet
          verdict,   \* what Run returned: "succeeded", "failed", or "none" yet
          cancelled  \* the context given to the blocks is cancelled

vars == <<dag, running, result, verdict, cancelled>>

Upstream(v) == {u \in Vertices : <<u, v>> \in dag}

Init ==
  /\ dag \in Dags
  /\ running = {}
  /\ result = [v \in Vertices |-> "none"]
  /\ verdict = "none"
  /\ cancelled = FALSE

Start(v) ==
  /\ v \notin running
  /\ result[v] = "none"
  /\ \A u \in Upstream(v) : result[u] # "none"
  /\ running' = running \cup {v}
  /\ UNCHANGED <<dag, result, verdict, cancelled>>

Finish(v, r) ==
  /\ v \in running
  /\ running' = running \ {v}
  /\ result' = [result EXCEPT ![v] = r]
  /\ UNCHANGED <<dag, verdict, cancelled>>

Succeed ==
  /\ verdict = "none"
  /\ \A v \in Vertices : result[v] = "ok"
  /\ verdict' = "succeeded"
  /\ UNCHANGED <<dag, running, result, cancelled>>

\* Run answers false for a failed block, whose context it then cancels, or
\* because the context was cancelled from outside.
Fail ==
  /\ verdict = "none"
  /\ cancelled \/ \E v \in Vertices : result[v] = "failed"
  /\ verdict' = "failed"
  /\ cancelled' = TRUE
  /\ UNCHANGED <<dag, running, result>>

Cancel ==
  /\ cancelled' = TRUE
  /\ UNCHANGED <<dag, running, result, verdict>>

Next ==
  \/ \E v \in Vertices : Start(v)
  \/ \E v \in Vertices, r \in {"ok", "failed"} : Finish(v, r)
  \/ Succeed
  \/ Fail
  \/ Cancel

Spec == Init /\ [][Next]_vars
=============================================================================
