---------------------------- MODULE MCPackageParse ----------------------------
(* PackageParse on every package of a few documents and block names, with a *)
(* block type for each of the ways a document is processed: an output or a  *)
(* mixin is processed as a local is, a resource as data.                    *)
EXTENDS PackageParse, TLC

Document(types, valid) == [type : types, name : Names, valid : valid]
AllInputs ==
  [Docs -> Document({"input", "data", "list", "local", "provider", "backend", "unknown"}, {TRUE})
             \cup Document({"data"}, {FALSE})]

\* Documents and names only matter as far as they differ.
Alike == Permutations(Docs) \cup Permutations(Names)
=============================================================================
