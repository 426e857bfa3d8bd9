----------------------------- MODULE PackageParse -----------------------------
(***************************************************************************)
(* From documents to the blocks of a package: the readers of a directory   *)
(* in pkg/pkgio, pkg/syntax/parser/pkgparser and the UpdatePackage of every *)
(* block type in pkg/syntax/types.                                         *)
(*                                                                         *)
(* Every file is read by a goroutine of its own, and what goes wrong there *)
(* is joined to an error that nobody keeps: the documents that were not    *)
(* read by then are not in the package, and nothing says so.               *)
(*                                                                         *)
(* Every document is processed by a goroutine of its own.  The stores of   *)
(* the package lock each call, but looking for a block and creating it are *)
(* two calls, and the data of a block and pkg.Backend have no lock at all. *)
(*                                                                         *)
(* The order of the documents within a block is left out, except for which *)
(* of them created it, and so are the file names a block remembers.  What  *)
(* an append without a lock does is exact up to three documents of a name: *)
(* a fourth may write into an array that two slices share.                 *)
(***************************************************************************)
EXTENDS Naturals, FiniteSets

CONSTANTS Docs,    \* the documents of a package, or of an inventory
          Names,   \* the names of blocks
          Inputs,  \* what the documents may hold
          None     \* no document

\* The block types with several documents for a name, and those with one.
\* A list that is found is reported, but added as well.
Several == {"input", "resource", "data", "list"}
Unique == {"output", "local", "mixin", "provider"}
Types == Several \cup Unique \cup {"backend", "unknown"}

ASSUME ParseAssumption ==
  /\ None \notin Docs
  /\ Inputs \subseteq [Docs -> [type : Types, name : Names, valid : BOOLEAN]]

VARIABLES input,    \* what the documents hold
          pc,       \* where the goroutine of a document is
          creator,  \* the document whose goroutine created a block
          data,     \* the documents in the data of a block (block.data)
          held,     \* the data addData read
          backend,  \* pkg.Backend, by its document
          errors,   \* the documents whose goroutine recorded an error
          main      \* what the parser is doing, and its verdict

blockVars == <<creator, data>>
vars == <<input, pc, blockVars, held, backend, errors, main>>

Keys == {"Blocks", "ProviderConfigs"} \X Names

\* The store a block is kept in, and its name there.
Key(d) ==
  <<IF input[d].type = "provider" THEN "ProviderConfigs" ELSE "Blocks", input[d].name>>

\* The documents that are refused for what they hold: a block type without a
\* processor ("unknown"), or a resource type with a bad syntax.  No document is
\* refused for its annotations: validateAnnotations reports as missing only a
\* mandatory annotation that it does not expect, and there is none.
Malformed(d) ==
  \/ input[d].type = "unknown"
  \/ input[d].type \in {"resource", "data", "list"} /\ ~input[d].valid
-----------------------------------------------------------------------------
Init ==
  /\ input \in Inputs
  /\ pc = [d \in Docs |-> "unread"]
  /\ creator = [k \in Keys |-> None]
  /\ data = [k \in Keys |-> {}]
  /\ held = [d \in Docs |-> {}]
  /\ backend = None
  /\ errors = {}
  /\ main = "read"

Goto(d, p) == pc' = [pc EXCEPT ![d] = p]
Record(d) == errors' = errors \cup {d}
Found(d) == creator[Key(d)] # None

\* A goroutine of Read puts the next document of its file in the store.
ReadDocument(d) ==
  /\ main = "read"
  /\ pc[d] = "unread"
  /\ Goto(d, "get")
  /\ UNCHANGED <<input, blockVars, held, backend, errors, main>>

\* All files are read, each up to its end or to its first error: a file that
\* cannot be opened, a bad separator or bad yaml.  Read returns no error.
EndRead ==
  /\ main = "read"
  /\ main' = "parse"
  /\ UNCHANGED <<input, pc, blockVars, held, backend, errors>>

\* getPaths cannot list the files: the one error of Read that is recorded.
ListFails ==
  /\ main = "read"
  /\ \A d \in Docs : pc[d] = "unread"
  /\ main' = "refused"
  /\ UNCHANGED <<input, pc, blockVars, held, backend, errors>>

\* The goroutine of a document that was read starts.
Processes(d) == main = "parse" /\ pc[d] = "get"

Reject(d) ==
  /\ Processes(d)
  /\ Malformed(d)
  /\ Goto(d, "done")
  /\ Record(d)
  /\ UNCHANGED <<input, blockVars, held, backend, main>>

\* Locals, outputs, mixins and providers: the block must not be there yet.
GetUnique(d) ==
  /\ Processes(d)
  /\ input[d].type \in Unique
  /\ \/ /\ ~Found(d)
        /\ Goto(d, "create")
        /\ UNCHANGED errors
     \/ /\ Found(d)
        /\ Goto(d, "done")
        /\ Record(d)
  /\ UNCHANGED <<input, blockVars, held, backend, main>>

\* Mutant: a list is reported whether or not there is another one.
GetSeveralListed(d) ==
  /\ Processes(d)
  /\ input[d].type \in Several
  /\ ~Malformed(d)
  /\ Goto(d, IF Found(d) THEN "add" ELSE "create")
  /\ IF input[d].type = "list" THEN Record(d) ELSE UNCHANGED errors
  /\ UNCHANGED <<input, blockVars, held, backend, main>>

\* Inputs and resources: a block that is there gets one more document.
GetSeveral(d) ==
  /\ Processes(d)
  /\ input[d].type \in Several
  /\ ~Malformed(d)
  /\ Goto(d, IF Found(d) THEN "add" ELSE "create")
  /\ IF input[d].type = "list" /\ Found(d) THEN Record(d) ELSE UNCHANGED errors
  /\ UNCHANGED <<input, blockVars, held, backend, main>>

\* The backend: only whether the package has one counts.
GetBackend(d) ==
  /\ Processes(d)
  /\ input[d].type = "backend"
  /\ \/ /\ backend = None
        /\ Goto(d, "create")
        /\ UNCHANGED errors
     \/ /\ backend # None
        /\ Goto(d, "done")
        /\ Record(d)
  /\ UNCHANGED <<input, blockVars, held, backend, main>>

\* Mutant: the store updates the block that is there.
CreateOver(d) ==
  /\ pc[d] = "create"
  /\ creator' = [creator EXCEPT ![Key(d)] = d]
  /\ data' = [data EXCEPT ![Key(d)] = {d}]
  /\ Goto(d, IF input[d].type = "backend" THEN "set" ELSE "done")
  /\ UNCHANGED <<input, held, backend, errors, main>>

\* Mutant: the error of Create is dropped.
CreateSilent(d) ==
  /\ pc[d] = "create"
  /\ IF Found(d) THEN UNCHANGED blockVars
     ELSE /\ creator' = [creator EXCEPT ![Key(d)] = d]
          /\ data' = [data EXCEPT ![Key(d)] = {d}]
  /\ Goto(d, IF input[d].type = "backend" THEN "set" ELSE "done")
  /\ UNCHANGED <<input, held, backend, errors, main>>

\* NewBlock and Create, which fails if the block has appeared since.
Create(d) ==
  /\ pc[d] = "create"
  /\ \/ /\ ~Found(d)
        /\ creator' = [creator EXCEPT ![Key(d)] = d]
        /\ data' = [data EXCEPT ![Key(d)] = {d}]
        /\ UNCHANGED errors
     \/ /\ Found(d)
        /\ Record(d)
        /\ UNCHANGED blockVars
  /\ Goto(d, IF input[d].type = "backend" THEN "set" ELSE "done")
  /\ UNCHANGED <<input, held, backend, main>>

\* pkg.Backend is set also when Create failed.
SetBackend(d) ==
  /\ pc[d] = "set"
  /\ backend' = d
  /\ Goto(d, "done")
  /\ UNCHANGED <<input, blockVars, held, errors, main>>

\* addData: r.data = r.data.Add(rn), a read and a write.
ReadData(d) ==
  /\ pc[d] = "add"
  /\ held' = [held EXCEPT ![d] = data[Key(d)]]
  /\ Goto(d, "store")
  /\ UNCHANGED <<input, blockVars, backend, errors, main>>

WriteData(d) ==
  /\ pc[d] = "store"
  /\ data' = [data EXCEPT ![Key(d)] = held[d] \cup {d}]
  /\ Goto(d, "done")
  /\ UNCHANGED <<input, creator, held, backend, errors, main>>

\* Parse waits for all goroutines and gives up if one recorded an error.
Finish ==
  /\ main = "parse"
  /\ \A d \in Docs : pc[d] \in {"unread", "done"}
  /\ main' = IF errors = {} THEN "parsed" ELSE "refused"
  /\ UNCHANGED <<input, pc, blockVars, held, backend, errors>>

Next ==
  \/ \E d \in Docs : ReadDocument(d)
  \/ EndRead
  \/ ListFails
  \/ \E d \in Docs : Reject(d)
  \/ \E d \in Docs : GetUnique(d)
  \/ \E d \in Docs : GetSeveral(d)
  \/ \E d \in Docs : GetBackend(d)
  \/ \E d \in Docs : Create(d)
  \/ \E d \in Docs : SetBackend(d)
  \/ \E d \in Docs : ReadData(d)
  \/ \E d \in Docs : WriteData(d)
  \/ Finish

Spec == Init /\ [][Next]_vars
-----------------------------------------------------------------------------
(***************************************************************************)
(* Properties                                                              *)
(***************************************************************************)
\* The variables hold what the stores and fields they stand for can hold.
TypeOK ==
  /\ input \in Inputs
  /\ pc \in [Docs -> {"unread", "get", "create", "set", "add", "store", "done"}]
  /\ creator \in [Keys -> Docs \cup {None}]
  /\ data \in [Keys -> SUBSET Docs]
  /\ held \in [Docs -> SUBSET Docs]
  /\ backend \in Docs \cup {None}
  /\ errors \subseteq Docs
  /\ main \in {"read", "parse", "parsed", "refused"}

\* The documents that are in the package, and those of a name with one.
Read == {d \in Docs : pc[d] # "unread"}
Namesakes(d) == {e \in Read \ {d} : Key(e) = Key(d)}

\* A document can only be lost to two others of its name: in a package that
\* is accepted, one with at most one namesake is in its block (block.go:148).
PairsAreKept ==
  main = "parsed" =>
    \A d \in Read :
      (\A e, f \in Namesakes(d) : e = f) => d \in data[Key(d)]

\* A package with two documents for a name is never accepted when both are of
\* types that allow for one, whichever goroutine comes first; a list counts.
OnlyOnce == Unique \cup {"list", "backend"}
DuplicatesAreReported ==
  main = "parsed" =>
    \A d \in Read : \A e \in Namesakes(d) :
      ~(input[d].type \in OnlyOnce /\ input[e].type \in OnlyOnce)

\* A document is refused only for what it holds, or because of a namesake, or
\* because it is a backend and not the only one.
HasReason(d) ==
  \/ Malformed(d)
  \/ Namesakes(d) # {}
  \/ input[d].type = "backend" /\ \E e \in Read \ {d} : input[e].type = "backend"
ErrorsHaveReasons == \A d \in errors : HasReason(d)

\* Every part of the inductive invariant.
\* A block has the documents of its name, among them the one that created it.
BlocksOfOneName ==
  \A k \in Keys :
    /\ \A d \in data[k] : d \in Read /\ Key(d) = k
    /\ creator[k] # None =>
         /\ creator[k] \in data[k]
         /\ Key(creator[k]) = k
         /\ pc[creator[k]] \in {"set", "done"}

\* What addData is about to write keeps the document that created the block.
AddsToOthers ==
  \A d \in Docs : pc[d] \in {"add", "store"} =>
    /\ input[d].type \in Several
    /\ input[d].type = "list" => d \in errors
    /\ creator[Key(d)] \notin {None, d}
    /\ pc[d] = "store" =>
         creator[Key(d)] \in held[d] /\ \A e \in held[d] : e \in Read /\ Key(e) = Key(d)

\* A document without an error is in its block, or was overwritten by one
\* that added itself to the same data; of those allowed once it is the creator.
Accounted ==
  \A d \in Docs : pc[d] \in {"set", "done"} /\ d \notin errors =>
    /\ \/ d \in data[Key(d)]
       \/ \E e \in data[Key(d)] : e # d /\ e # creator[Key(d)]
    /\ creator[Key(d)] # None
    /\ input[d].type \in OnlyOnce => creator[Key(d)] = d

BackendsSet ==
  /\ backend # None => input[backend].type = "backend" /\ pc[backend] = "done"
  /\ \A d \in Docs :
       /\ pc[d] = "set" => input[d].type = "backend"
       /\ pc[d] = "done" /\ input[d].type = "backend" /\ d \notin errors => backend # None

\* No document is processed before all of them are read, nor after Parse.
Decided ==
  /\ main = "read" => \A d \in Docs : pc[d] \in {"unread", "get"}
  /\ main = "parsed" => errors = {} /\ \A d \in Docs : pc[d] \in {"unread", "done"}
  /\ errors \subseteq Read

ParseInv ==
  /\ TypeOK
  /\ BlocksOfOneName
  /\ AddsToOthers
  /\ Accounted
  /\ BackendsSet
  /\ ErrorsHaveReasons
  /\ Decided
=============================================================================
