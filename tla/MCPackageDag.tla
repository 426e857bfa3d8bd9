----------------------------- MODULE MCPackageDag -----------------------------
(* PackageDag on packages of an input, an orphan, a provider config and a few *)
(* numbered blocks.                                                           *)
EXTENDS PackageDag

CONSTANTS i, o, b, c, s, q, l

\* Block n names the blocks above[n], the input if it is one of front, and the
\* orphan; the provider config names the input and block 1.
Package(above, front) ==
  [n \in Names |->
     CASE n \in Blocks -> above[n] \cup {o} \cup (IF n \in front THEN {i} ELSE {})
       [] n = c -> {i, 1}
       [] OTHER -> {}]

\* A block names only blocks with a smaller number: every graph without cycles,
\* up to renaming.
Ordered ==
  {[n \in Blocks |-> {m \in Blocks : <<m, n>> \in e}] :
     e \in SUBSET {p \in Blocks \X Blocks : p[1] < p[2]}}

\* Two blocks that name each other, a block that names itself, a block that names
\* the backend, one whose depends-on has a space before the name of block 1, one
\* that names block 1 and an orphan with that name in its own, and loops.
Odd ==
  { [n \in Blocks |-> IF n = 1 THEN {2} ELSE {1}],
    [n \in Blocks |-> IF n = 2 THEN {1, 2} ELSE {}],
    [n \in Blocks |-> IF n = 2 THEN {b} ELSE {}],
    [n \in Blocks |-> IF n = 2 THEN {1, s} ELSE {}],
    [n \in Blocks |-> IF n = 2 THEN {1, q} ELSE {}],
    [n \in Blocks |-> IF n = 2 THEN {1, l} ELSE {}],
    [n \in Blocks |-> IF n = 3 THEN {1, l} ELSE {}] }

SmallPackages ==
  {Package(above, front) : above \in Ordered, front \in SUBSET Blocks}
    \cup {Package(above, {1}) : above \in Odd}
=============================================================================
