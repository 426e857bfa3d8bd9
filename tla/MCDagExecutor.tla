---------------------------- MODULE MCDagExecutor ----------------------------
(* DagExecutor on small graphs: vertex 0 is the root, every other vertex can *)
(* be reached from it, and no edge shortens a longer path.                   *)
EXTENDS DagExecutor

\* Of the shapes that four vertices allow: a fork, a chain, a chain beside a
\* block, and a diamond.
SmallDags ==
  { {<<0, 1>>, <<1, 2>>, <<1, 3>>},
    {<<0, 1>>, <<1, 2>>, <<2, 3>>},
    {<<0, 1>>, <<0, 2>>, <<1, 3>>},
    {<<0, 1>>, <<0, 2>>, <<1, 3>>, <<2, 3>>} }

\* Two blocks that both depend on the same two blocks.
CrossedDags == {{<<0, 1>>, <<0, 2>>, <<1, 3>>, <<1, 4>>, <<2, 3>>, <<2, 4>>}}

\* The quiet behaviours, in which no block fails, nobody cancels, and the walkers
\* are done before the jobs go on: some of those FairSpec allows, and enough to
\* show what can go wrong when nothing does.
Walking == \E v \in Vertices : calls[v] + entering[v] > 0
QuietStep ==
  /\ Step
  /\ \A v \in Vertices : result'[v] # "failed"
  /\ Walking => UNCHANGED <<at, closed, result, awaiting>>
QuietSpec == Init /\ [][QuietStep]_vars /\ WF_vars(Step)
=============================================================================
