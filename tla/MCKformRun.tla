------------------------------ MODULE MCKformRun ------------------------------
(* KformRun on a block x with up to three instances, and a block y.  The       *)
(* manifest of y may change its kind and keep its name (z), be put in the same *)
(* block twice, once with each kind, be renamed to a block w that describes    *)
(* the same object, or be marked as an orphan (o).                             *)
EXTENDS KformRun

CONSTANTS x1, x2, x3, y, z, w, o

Instances == {x1, x2, x3}
Things == Instances \cup {y, z, w, o}
ObjectOf == [r \in Things |-> IF r \in {w, o} THEN y ELSE r]
BlockOf == [r \in Things |-> IF r \in Instances THEN "x" ELSE IF r = w THEN "w" ELSE "y"]
DocumentOf == [r \in Things |-> IF r \in Instances THEN x1 ELSE r]
NameOf == [r \in Things \ {w, o} |-> IF r = z THEN y ELSE r]

\* Three instances beside y; one instance, and y under its other name; y and z as
\* two documents of one block; an orphan alone.
SmallPackages == {{x1, x2, x3, y}, {x1, w}, {y, z}, {o}}

\* A block of two instances, one of which goes; nothing.
TwoInstances == {{x1, x2}, {x1}, {}}
RenamedBlock == {{y}, {w}}
=============================================================================
