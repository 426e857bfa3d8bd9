-------------------------- MODULE PackageParseProofs --------------------------
(***************************************************************************)
(* What becomes of the documents of a package, for any number of them and  *)
(* any content, whatever the order of the goroutines.                      *)
(***************************************************************************)
EXTENDS PackageParse, TLAPS

\* Every document has a key, and no document is None.
LEMMA KeyType ==
  ASSUME TypeOK
  PROVE  /\ \A d \in Docs : Key(d) \in Keys
         /\ \A d \in Docs : input[d].type \in Types
         /\ None \notin Docs
<1>1. input \in [Docs -> [type : Types, name : Names, valid : BOOLEAN]]
  BY ParseAssumption DEF TypeOK
<1>2. ASSUME NEW d \in Docs  PROVE Key(d) \in Keys /\ input[d].type \in Types
  <2>1. input[d] \in [type : Types, name : Names, valid : BOOLEAN]
    BY <1>1
  <2>2. input[d].name \in Names /\ input[d].type \in Types
    BY <2>1
  <2>. QED  BY <2>2 DEF Key, Keys
<1>. QED  BY <1>2, ParseAssumption

\* The documents do not change while they are processed.
LEMMA KeyKept ==
  ASSUME input' = input
  PROVE  \A d \in Docs : /\ Key(d)' = Key(d)
                         /\ Malformed(d)' = Malformed(d)
BY DEF Key, Malformed

\* A document stays read, so a reason to refuse another one stays: only the
\* reason of the document that records an error now is new.
LEMMA ReasonsKept ==
  ASSUME ParseInv, input' = input, Read \subseteq Read', NEW d,
         \/ errors' = errors
         \/ d \in Docs /\ HasReason(d) /\ errors' = errors \cup {d}
  PROVE  ErrorsHaveReasons'
<1>1. ASSUME NEW e \in Docs  PROVE Namesakes(e) \subseteq Namesakes(e)'
  BY KeyKept DEF Namesakes, Read
<1>2. ASSUME NEW e \in Docs, HasReason(e)  PROVE HasReason(e)'
  BY <1>1, <1>2, KeyKept DEF HasReason
<1>3. errors \subseteq Docs /\ ErrorsHaveReasons
  BY DEF ParseInv, TypeOK
<1>. QED  BY <1>2, <1>3 DEF ErrorsHaveReasons

\* Nothing is processed yet.
LEMMA InitParse == Init => ParseInv
<1>. SUFFICES ASSUME Init  PROVE ParseInv
  OBVIOUS
<1>. USE DEF Init
<1>1. TypeOK
  BY DEF TypeOK
<1>2. BlocksOfOneName /\ AddsToOthers /\ Accounted
  BY DEF BlocksOfOneName, AddsToOthers, Accounted
<1>3. BackendsSet /\ ErrorsHaveReasons /\ Decided
  BY DEF BackendsSet, ErrorsHaveReasons, Decided
<1>. QED  BY <1>1, <1>2, <1>3 DEF ParseInv

\* Step ReadDocument keeps the invariant: the document is in no block yet.
LEMMA ReadDocumentParse == ASSUME ParseInv, NEW d \in Docs, ReadDocument(d) PROVE ParseInv'
<1>. USE DEF ReadDocument, Goto, blockVars
<1>1. TypeOK'
  BY DEF ParseInv, TypeOK
<1>2. BlocksOfOneName'
  BY KeyType, KeyKept DEF ParseInv, TypeOK, BlocksOfOneName, Read
<1>3. AddsToOthers'
  BY KeyKept DEF ParseInv, TypeOK, AddsToOthers, Read
<1>4. Accounted'
  BY KeyKept DEF ParseInv, TypeOK, Accounted
<1>5. ErrorsHaveReasons'
  <2>1. Read \subseteq Read'
    BY DEF ParseInv, TypeOK, Read
  <2>. QED  BY <2>1, ReasonsKept
<1>6. BackendsSet'
  BY DEF ParseInv, TypeOK, BackendsSet
<1>7. Decided'
  BY DEF ParseInv, TypeOK, Decided, Read
<1>. QED  BY <1>1, <1>2, <1>3, <1>4, <1>5, <1>6, <1>7 DEF ParseInv

\* The end of the reading, like the end of the parsing, changes no document.
LEMMA EndReadParse == ASSUME ParseInv, EndRead \/ ListFails PROVE ParseInv'
<1>. USE DEF EndRead, ListFails, blockVars
<1>1. TypeOK'
  BY DEF ParseInv, TypeOK
<1>2. (BlocksOfOneName /\ AddsToOthers /\ Accounted)'
  BY KeyType, KeyKept DEF ParseInv, TypeOK, BlocksOfOneName, AddsToOthers, Accounted, Read
<1>3. ErrorsHaveReasons'
  <2>1. Read \subseteq Read'
    BY DEF ParseInv, TypeOK, Read
  <2>. QED  BY <2>1, ReasonsKept
<1>4. BackendsSet' /\ Decided'
  BY DEF ParseInv, TypeOK, BackendsSet, Decided, Read
<1>. QED  BY <1>1, <1>2, <1>3, <1>4 DEF ParseInv

\* Step Reject keeps the invariant: the document has a reason to be refused.
LEMMA RejectParse == ASSUME ParseInv, NEW d \in Docs, Reject(d) PROVE ParseInv'
<1>. USE DEF Reject, Processes, Goto, Record, blockVars
<1>1. TypeOK'
  BY DEF ParseInv, TypeOK
<1>2. BlocksOfOneName'
  BY KeyType, KeyKept DEF ParseInv, TypeOK, BlocksOfOneName, Read
<1>3. AddsToOthers'
  BY KeyKept DEF ParseInv, TypeOK, AddsToOthers, Read
<1>4. Accounted'
  BY KeyKept DEF ParseInv, TypeOK, Accounted
<1>5. ErrorsHaveReasons'
  <2>1. Read \subseteq Read'
    BY DEF ParseInv, TypeOK, Read
  <2>. QED  BY <2>1, ReasonsKept DEF HasReason
<1>6. BackendsSet'
  BY DEF ParseInv, TypeOK, BackendsSet
<1>7. Decided'
  BY DEF ParseInv, TypeOK, Decided, Read
<1>. QED  BY <1>1, <1>2, <1>3, <1>4, <1>5, <1>6, <1>7 DEF ParseInv

\* The block a document finds was created by a namesake.
LEMMA FoundNamesake ==
  ASSUME ParseInv, NEW d \in Docs, pc[d] \in {"get", "create"}, Found(d)
  PROVE  Namesakes(d) # {}
<1>1. Key(d) \in Keys /\ creator[Key(d)] \in Docs
  BY KeyType DEF ParseInv, TypeOK, Found
<1>2. Key(creator[Key(d)]) = Key(d) /\ creator[Key(d)] # d
  BY <1>1 DEF ParseInv, BlocksOfOneName, Found
<1>3. pc[creator[Key(d)]] # "unread"
  BY <1>1 DEF ParseInv, BlocksOfOneName, Found
<1>. QED  BY <1>1, <1>2, <1>3 DEF Namesakes, Read

\* Step GetUnique keeps the invariant: who finds the block has a namesake.
LEMMA GetUniqueParse == ASSUME ParseInv, NEW d \in Docs, GetUnique(d) PROVE ParseInv'
<1>. USE DEF GetUnique, Processes, Goto, Record, blockVars
<1>1. TypeOK'
  BY DEF ParseInv, TypeOK
<1>2. BlocksOfOneName'
  BY KeyType, KeyKept DEF ParseInv, TypeOK, BlocksOfOneName, Read
<1>3. AddsToOthers'
  BY KeyKept DEF ParseInv, TypeOK, AddsToOthers, Read
<1>4. Accounted'
  BY KeyKept DEF ParseInv, TypeOK, Accounted
<1>5. ErrorsHaveReasons'
  <2>1. Read \subseteq Read'
    BY DEF ParseInv, TypeOK, Read
  <2>. QED  BY <2>1, ReasonsKept, FoundNamesake DEF HasReason
<1>6. BackendsSet'
  BY DEF ParseInv, TypeOK, BackendsSet, Unique
<1>7. Decided'
  BY DEF ParseInv, TypeOK, Decided, Read
<1>. QED  BY <1>1, <1>2, <1>3, <1>4, <1>5, <1>6, <1>7 DEF ParseInv

\* Step GetSeveral keeps the invariant: who goes on to add found a block that
\* another document created.
LEMMA GetSeveralParse == ASSUME ParseInv, NEW d \in Docs, GetSeveral(d) PROVE ParseInv'
<1>. USE DEF GetSeveral, Processes, Goto, Record, blockVars
<1>1. TypeOK'
  BY DEF ParseInv, TypeOK
<1>2. BlocksOfOneName'
  BY KeyType, KeyKept DEF ParseInv, TypeOK, BlocksOfOneName, Read
<1>3. AddsToOthers'
  <2>1. Found(d) => creator[Key(d)] \notin {None, d}
    BY KeyType DEF ParseInv, TypeOK, BlocksOfOneName, Found
  <2>. QED  BY <2>1, KeyKept DEF ParseInv, TypeOK, AddsToOthers, Read
<1>4. Accounted'
  BY KeyKept DEF ParseInv, TypeOK, Accounted
<1>5. ErrorsHaveReasons'
  <2>1. Read \subseteq Read'
    BY DEF ParseInv, TypeOK, Read
  <2>. QED  BY <2>1, ReasonsKept, FoundNamesake DEF HasReason
<1>6. BackendsSet'
  BY DEF ParseInv, TypeOK, BackendsSet, Several
<1>7. Decided'
  BY DEF ParseInv, TypeOK, Decided, Read
<1>. QED  BY <1>1, <1>2, <1>3, <1>4, <1>5, <1>6, <1>7 DEF ParseInv

\* Step GetBackend keeps the invariant: the backend it finds is another one.
LEMMA GetBackendParse == ASSUME ParseInv, NEW d \in Docs, GetBackend(d) PROVE ParseInv'
<1>. USE DEF GetBackend, Processes, Goto, Record, blockVars
<1>1. TypeOK'
  BY DEF ParseInv, TypeOK
<1>2. BlocksOfOneName'
  BY KeyType, KeyKept DEF ParseInv, TypeOK, BlocksOfOneName, Read
<1>3. AddsToOthers'
  BY KeyKept DEF ParseInv, TypeOK, AddsToOthers, Read
<1>4. Accounted'
  BY KeyKept DEF ParseInv, TypeOK, Accounted
<1>5. ErrorsHaveReasons'
  <2>1. backend # None => backend \in Docs \ {d} /\ input[backend].type = "backend"
    BY DEF ParseInv, TypeOK, BackendsSet
  <2>2. backend # None => HasReason(d)
    BY <2>1 DEF ParseInv, BackendsSet, HasReason, Read
  <2>3. Read \subseteq Read'
    BY DEF ParseInv, TypeOK, Read
  <2>. QED  BY <2>2, <2>3, ReasonsKept
<1>6. BackendsSet'
  BY DEF ParseInv, TypeOK, BackendsSet
<1>7. Decided'
  BY DEF ParseInv, TypeOK, Decided, Read
<1>. QED  BY <1>1, <1>2, <1>3, <1>4, <1>5, <1>6, <1>7 DEF ParseInv

\* Step Create keeps the invariant: the block is created once.
LEMMA CreateParse == ASSUME ParseInv, NEW d \in Docs, Create(d) PROVE ParseInv'
<1>. USE DEF Create, Goto, Record, blockVars
<1>1. TypeOK'
  BY KeyType DEF ParseInv, TypeOK
<1>2. BlocksOfOneName'
  BY KeyType, KeyKept DEF ParseInv, TypeOK, BlocksOfOneName, Read
<1>3. AddsToOthers'
  BY KeyType, KeyKept DEF ParseInv, TypeOK, AddsToOthers, Found, Read
<1>4. Accounted'
  BY KeyType, KeyKept DEF ParseInv, TypeOK, Accounted, Found
<1>5. ErrorsHaveReasons'
  <2>1. Read \subseteq Read'
    BY DEF ParseInv, TypeOK, Read
  <2>. QED  BY <2>1, ReasonsKept, FoundNamesake DEF HasReason
<1>6. BackendsSet'
  BY DEF ParseInv, TypeOK, BackendsSet
<1>7. Decided'
  BY DEF ParseInv, TypeOK, Decided, Read
<1>. QED  BY <1>1, <1>2, <1>3, <1>4, <1>5, <1>6, <1>7 DEF ParseInv

\* Step SetBackend keeps the invariant: only a backend gets there.
LEMMA SetBackendParse == ASSUME ParseInv, NEW d \in Docs, SetBackend(d) PROVE ParseInv'
<1>. USE DEF SetBackend, Goto, blockVars
<1>1. TypeOK'
  BY DEF ParseInv, TypeOK
<1>2. BlocksOfOneName'
  BY KeyType, KeyKept DEF ParseInv, TypeOK, BlocksOfOneName, Read
<1>3. AddsToOthers'
  BY KeyKept DEF ParseInv, TypeOK, AddsToOthers, Read
<1>4. Accounted'
  BY KeyKept DEF ParseInv, TypeOK, Accounted
<1>5. ErrorsHaveReasons'
  <2>1. Read \subseteq Read'
    BY DEF ParseInv, TypeOK, Read
  <2>. QED  BY <2>1, ReasonsKept
<1>6. BackendsSet'
  BY KeyType DEF ParseInv, TypeOK, BackendsSet
<1>7. Decided'
  BY DEF ParseInv, TypeOK, Decided, Read
<1>. QED  BY <1>1, <1>2, <1>3, <1>4, <1>5, <1>6, <1>7 DEF ParseInv

\* Step ReadData keeps the invariant: what is read has the creator in it.
LEMMA ReadDataParse == ASSUME ParseInv, NEW d \in Docs, ReadData(d) PROVE ParseInv'
<1>. USE DEF ReadData, Goto, blockVars
<1>1. TypeOK'
  BY KeyType DEF ParseInv, TypeOK
<1>2. BlocksOfOneName'
  BY KeyType, KeyKept DEF ParseInv, TypeOK, BlocksOfOneName, Read
<1>3. AddsToOthers'
  <2>1. Key(d) \in Keys /\ creator[Key(d)] # None
    BY KeyType DEF ParseInv, AddsToOthers
  <2>2. creator[Key(d)] \in data[Key(d)] /\ \A e \in data[Key(d)] : Key(e) = Key(d)
    BY <2>1 DEF ParseInv, BlocksOfOneName
  <2>3. \A e \in data[Key(d)] : e \in Read'
    BY <2>1 DEF ParseInv, TypeOK, BlocksOfOneName, Read
  <2>4. held' = [held EXCEPT ![d] = data[Key(d)]] /\ data[Key(d)] \subseteq Docs
    BY <2>1 DEF ParseInv, TypeOK
  <2>5. ASSUME NEW x \in Docs, pc'[x] \in {"add", "store"}
        PROVE  /\ input[x].type \in Several
               /\ input[x].type = "list" => x \in errors
               /\ creator[Key(x)] \notin {None, x}
    BY <2>5 DEF ParseInv, TypeOK, AddsToOthers, Read
  <2>6. ASSUME NEW x \in Docs, pc'[x] = "store"
        PROVE  /\ creator[Key(x)] \in held'[x]
               /\ held'[x] \subseteq Docs
               /\ \A e \in held'[x] : e \in Read' /\ Key(e) = Key(x)
    BY <2>2, <2>4, <2>6, <2>3 DEF ParseInv, TypeOK, AddsToOthers, Read
  <2>. QED  BY <2>5, <2>6, KeyKept DEF AddsToOthers
<1>4. Accounted'
  BY KeyKept DEF ParseInv, TypeOK, Accounted
<1>5. ErrorsHaveReasons'
  <2>1. Read \subseteq Read'
    BY DEF ParseInv, TypeOK, Read
  <2>. QED  BY <2>1, ReasonsKept
<1>6. BackendsSet'
  BY DEF ParseInv, TypeOK, BackendsSet
<1>7. Decided'
  BY DEF ParseInv, TypeOK, Decided, Read
<1>. QED  BY <1>1, <1>2, <1>3, <1>4, <1>5, <1>6, <1>7 DEF ParseInv

\* Step WriteData keeps the invariant: a document that is overwritten has the
\* one that was written, which did not create the block, in its place.
LEMMA WriteDataParse == ASSUME ParseInv, NEW d \in Docs, WriteData(d) PROVE ParseInv'
<1>. USE DEF WriteData, Goto, blockVars
<1>1. TypeOK'
  BY KeyType DEF ParseInv, TypeOK
<1>2. BlocksOfOneName'
  <2>1. \A e \in held[d] \cup {d} : e \in Read /\ Key(e) = Key(d)
    BY DEF ParseInv, AddsToOthers, Read
  <2>2. creator[Key(d)] \in held[d]
    BY DEF ParseInv, AddsToOthers
  <2>. QED  BY <2>1, <2>2, KeyType, KeyKept DEF ParseInv, TypeOK, BlocksOfOneName, Read
<1>3. AddsToOthers'
  BY KeyKept DEF ParseInv, TypeOK, AddsToOthers, Read
<1>4. Accounted'
  <2>1. creator[Key(d)] \notin {None, d} /\ (input[d].type \in OnlyOnce => d \in errors)
    BY DEF ParseInv, AddsToOthers, OnlyOnce, Several, Unique
  <2>2. d \in data'[Key(d)]
    BY KeyType DEF ParseInv, TypeOK
  <2>3. data' = [data EXCEPT ![Key(d)] = held[d] \cup {d}] /\ data \in [Keys -> SUBSET Docs]
    BY DEF ParseInv, TypeOK
  <2>4. ASSUME NEW x \in Docs, pc[x] \in {"set", "done"}, x \notin errors
        PROVE  \/ x \in data'[Key(x)]
               \/ \E e \in data'[Key(x)] : e # x /\ e # creator[Key(x)]
    <3>1. Key(x) \in Keys /\ x # d
      BY <2>4, KeyType DEF ParseInv
    <3>2. CASE Key(x) = Key(d)
      BY <2>1, <2>2, <3>1, <3>2
    <3>3. CASE Key(x) # Key(d)
      BY <2>3, <2>4, <3>1, <3>3 DEF ParseInv, Accounted
    <3>. QED  BY <3>2, <3>3
  <2>5. ASSUME NEW x \in Docs, pc'[x] \in {"set", "done"}, x \notin errors
        PROVE  /\ creator[Key(x)] # None
               /\ input[x].type \in OnlyOnce => creator[Key(x)] = x
    BY <2>1, <2>5 DEF ParseInv, TypeOK, Accounted
  <2>6. \A x \in Docs : pc'[x] \in {"set", "done"} => x = d \/ pc[x] \in {"set", "done"}
    BY DEF ParseInv, TypeOK
  <2>. QED  BY <2>2, <2>4, <2>5, <2>6, KeyKept DEF Accounted
<1>5. ErrorsHaveReasons'
  <2>1. Read \subseteq Read'
    BY DEF ParseInv, TypeOK, Read
  <2>. QED  BY <2>1, ReasonsKept
<1>6. BackendsSet'
  BY DEF ParseInv, TypeOK, BackendsSet, AddsToOthers, Several
<1>7. Decided'
  BY DEF ParseInv, TypeOK, Decided, Read
<1>. QED  BY <1>1, <1>2, <1>3, <1>4, <1>5, <1>6, <1>7 DEF ParseInv

\* Step Finish keeps the invariant: nothing but the verdict changes.
LEMMA FinishParse == ASSUME ParseInv, Finish PROVE ParseInv'
<1>. USE DEF Finish, blockVars
<1>1. TypeOK'
  BY DEF ParseInv, TypeOK
<1>2. (BlocksOfOneName /\ AddsToOthers /\ Accounted)'
  BY KeyType, KeyKept DEF ParseInv, TypeOK, BlocksOfOneName, AddsToOthers, Accounted, Read
<1>3. ErrorsHaveReasons'
  <2>1. Read \subseteq Read'
    BY DEF ParseInv, TypeOK, Read
  <2>. QED  BY <2>1, ReasonsKept
<1>4. BackendsSet' /\ Decided'
  BY DEF ParseInv, TypeOK, BackendsSet, Decided, Read
<1>. QED  BY <1>1, <1>2, <1>3, <1>4 DEF ParseInv

\* A step that changes nothing keeps the invariant.
LEMMA StutterParse == ASSUME ParseInv, UNCHANGED vars PROVE ParseInv'
<1>. USE DEF vars, blockVars
<1>1. TypeOK'
  BY DEF ParseInv, TypeOK
<1>2. (BlocksOfOneName /\ AddsToOthers /\ Accounted)'
  BY KeyType, KeyKept DEF ParseInv, TypeOK, BlocksOfOneName, AddsToOthers, Accounted, Read
<1>3. ErrorsHaveReasons'
  <2>1. Read \subseteq Read'
    BY DEF ParseInv, TypeOK, Read
  <2>. QED  BY <2>1, ReasonsKept
<1>4. BackendsSet' /\ Decided'
  BY DEF ParseInv, TypeOK, BackendsSet, Decided, Read
<1>. QED  BY <1>1, <1>2, <1>3, <1>4 DEF ParseInv

\* Every document of a package is accounted for in every state.
THEOREM ParseInvariant == Spec => []ParseInv
<1>1. ParseInv /\ [Next]_vars => ParseInv'
  BY ReadDocumentParse, EndReadParse, RejectParse, GetUniqueParse, GetSeveralParse, GetBackendParse, CreateParse,
     SetBackendParse, ReadDataParse, WriteDataParse, FinishParse, StutterParse DEF Next
<1>. QED  BY <1>1, InitParse, PTL DEF Spec

\* A document of an accepted package that is not in its block has two namesakes
\* there: the one that created the block and one that was added to it.
THEOREM NoPairLoses == Spec => []PairsAreKept
<1>1. ParseInv => PairsAreKept
  <2>. SUFFICES ASSUME ParseInv, main = "parsed", NEW d \in Docs,
                       \A e, f \in Namesakes(d) : e = f,
                       pc[d] # "unread", d \notin data[Key(d)]
                PROVE  FALSE
    BY DEF PairsAreKept, Read
  <2>1. pc[d] = "done" /\ d \notin errors /\ Key(d) \in Keys
    BY KeyType DEF ParseInv, Decided
  <2>2. PICK e \in data[Key(d)] : e # d /\ e # creator[Key(d)]
    BY <2>1 DEF ParseInv, Accounted
  <2>3. creator[Key(d)] \in data[Key(d)] /\ creator[Key(d)] # d
    BY <2>1 DEF ParseInv, Accounted, BlocksOfOneName
  <2>4. creator[Key(d)] \in Namesakes(d)
    BY <2>1, <2>3 DEF ParseInv, TypeOK, BlocksOfOneName, Namesakes, Read
  <2>5. e \in Docs /\ Key(e) = Key(d) /\ pc[e] # "unread"
    BY <2>1, <2>2 DEF ParseInv, TypeOK, BlocksOfOneName, Read
  <2>6. e \in Namesakes(d)
    BY <2>2, <2>5 DEF Namesakes, Read
  <2>. QED  BY <2>2, <2>4, <2>6
<1>. QED  BY <1>1, ParseInvariant, PTL

\* Of two documents of such types both would have created the same block.
THEOREM NoSilentDuplicate == Spec => []DuplicatesAreReported
<1>1. ParseInv => DuplicatesAreReported
  <2>. SUFFICES ASSUME ParseInv, main = "parsed", NEW d \in Read, NEW e \in Namesakes(d),
                       input[d].type \in OnlyOnce, input[e].type \in OnlyOnce
                PROVE  FALSE
    BY DEF DuplicatesAreReported
  <2>1. e \in Read /\ d \in Docs /\ e \in Docs /\ e # d /\ Key(e) = Key(d)
    BY DEF Namesakes, Read
  <2>2. pc[d] = "done" /\ pc[e] = "done" /\ d \notin errors /\ e \notin errors
    BY <2>1 DEF ParseInv, Decided, Read
  <2>3. creator[Key(d)] = d /\ creator[Key(e)] = e
    BY <2>1, <2>2 DEF ParseInv, Accounted
  <2>. QED  BY <2>1, <2>3
<1>. QED  BY <1>1, ParseInvariant, PTL

\* No document is refused because of the order of the goroutines alone: it has
\* a namesake, or a second backend, or is malformed.
THEOREM RefusedForAReason == Spec => []ErrorsHaveReasons
BY ParseInvariant, PTL DEF ParseInv
=============================================================================
