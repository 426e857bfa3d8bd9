---------------------------- MODULE MCPushPackage -----------------------------
\* Two images: one that never had another version, and one that had.
EXTENDS PushPackage

CONSTANT New  \* the first of them

Blocks(n) == [i \in 1 .. n |-> i]
OldBlocks(n) == [i \in 1 .. n |-> 0]
\* All blocks are needed to read an archive, or all but the last.
Of(size, old, needs, ranges, known, honours, file) ==
  [asset |-> [size |-> size, need |-> IF size = 0 THEN 0 ELSE size - needs,
              old |-> old, oldNeed |-> old,
              ranges |-> ranges, known |-> known, honours |-> honours],
   file |-> file]

\* Without another version: no file or a part of it, from servers that can do less.
MCNew ==
  {Of(2, 0, 1, TRUE, TRUE, TRUE, None), Of(2, 0, 0, FALSE, TRUE, TRUE, None),
   Of(2, 0, 0, TRUE, FALSE, TRUE, None), Of(2, 0, 0, TRUE, TRUE, TRUE, Blocks(1)),
   Of(2, 0, 0, TRUE, TRUE, FALSE, Blocks(1)), Of(2, 0, 0, FALSE, TRUE, TRUE, Blocks(1))}
\* With one, all of it on disk: shorter, as long as, and longer than the new one.
MCRenewed ==
  {Of(2, 1, 0, TRUE, TRUE, TRUE, OldBlocks(1)), Of(2, 2, 0, TRUE, TRUE, TRUE, OldBlocks(2)),
   Of(1, 2, 0, FALSE, TRUE, TRUE, OldBlocks(2)), Of(0, 1, 0, TRUE, TRUE, TRUE, OldBlocks(1))}

World(a, b) ==
  LET of == [m \in Images |-> IF m = New THEN a ELSE b]
  IN [asset |-> [m \in Images |-> of[m].asset], disk |-> [m \in Images |-> of[m].file]]
MCWorlds ==
  {World(a, Of(2, 1, 0, TRUE, TRUE, TRUE, OldBlocks(1))) : a \in MCNew}
  \cup {World(Of(2, 0, 0, TRUE, TRUE, TRUE, None), b) : b \in MCRenewed}
=============================================================================
