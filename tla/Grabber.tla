-------------------------------- MODULE Grabber -------------------------------
(***************************************************************************)
(* pkg/pkgio/grabber: a batch of downloads.  Client.Do takes a response    *)
(* through a chain of states, until it is complete or there is something   *)
(* to copy; copyFile then copies it in a goroutine of its own.  A number   *)
(* of workers (DoBatch) each do one request at a time.  downloadImages, in *)
(* pkgio_push.go, receives the responses and counts those that completed.  *)
(*                                                                         *)
(* A file is a sequence of blocks: i is block i of what the server has, and *)
(* 0 is a block of something older.  The files are those of the current    *)
(* directory, and are still there when the program is started again.       *)
(***************************************************************************)
EXTENDS Integers, Sequences, FiniteSets

CONSTANTS Images,   \* the files to download, one request each
          Workers,  \* how many requests are worked on at a time
          Worlds,   \* what the server has, and what is on disk to begin with
          None      \* no file

\* Of an image: its blocks, those of an older version of it (0: there is none), and
\* how many from the start of either must be there for it to be read as an archive;
\* whether the server says that it resumes (Accept-Ranges), does so when it is asked
\* for a range, and tells the length.
Assets == [size : Nat, need : Nat, old : Nat, oldNeed : Nat,
           ranges : BOOLEAN, honours : BOOLEAN, known : BOOLEAN]

ASSUME GrabberAssumption ==
  /\ Workers \in Nat \ {0}
  /\ IsFiniteSet(Images)
  /\ None \notin Seq(Nat)
  /\ \A w \in Worlds :
       /\ w.asset \in [Images -> Assets]
       /\ w.disk \in [Images -> Seq(Nat) \cup {None}]
       /\ \A m \in Images :
            /\ w.asset[m].need <= w.asset[m].size /\ w.asset[m].oldNeed <= w.asset[m].old
            /\ w.asset[m].old = 0 /\ w.asset[m].honours /\ w.disk[m] # None =>
                 Len(w.disk[m]) <= w.asset[m].size /\ \A i \in DOMAIN w.disk[m] : w.disk[m][i] = i

VARIABLES asset,      \* what the server has, by image
          disk,       \* the files
          resp,       \* the responses
          seen,       \* the responses that downloadImages received
          completed,  \* and those it counted
          cancelled   \* the context is cancelled

grabVars == <<asset, disk, resp, seen, completed, cancelled>>

\* A response: the next state function, whether there was a file, how much of it is
\* kept (bytesResumed), where the next block goes, which it is, and the error.
States == {"queued", "headRequest", "statFileInfo", "getRequest", "copyFile", "closed"}
Responses == [state : States, found : BOOLEAN, resumed : Nat, pos : Nat, body : Nat, err : BOOLEAN]
Request == [state |-> "queued", found |-> FALSE, resumed |-> 0, pos |-> 1, body |-> 1, err |-> FALSE]

Active == {m \in Images : resp[m].state \notin {"queued", "closed"}}
Length(m) == IF asset[m].known THEN asset[m].size ELSE -1

GrabInit ==
  /\ \E w \in Worlds : asset = w.asset /\ disk = w.disk
  /\ resp = [m \in Images |-> [Request EXCEPT !.state = "closed"]]
  /\ seen = {} /\ completed = {}
  /\ cancelled = FALSE

\* DoBatch: all requests are queued.
Batch ==
  /\ resp' = [m \in Images |-> Request]
  /\ seen' = {} /\ completed' = {}
  /\ cancelled' = FALSE
  /\ UNCHANGED <<asset, disk>>

Set(m, r) == resp' = [resp EXCEPT ![m] = r]
-----------------------------------------------------------------------------
(***************************************************************************)
(* The state functions of a response                                       *)
(***************************************************************************)
\* DoChannel: a free worker calls Do.  The first statFileInfo looks at the directory
\* of the file, which is there, and goes on as if the name were not known.
Take(m) ==
  /\ resp[m].state = "queued"
  /\ Cardinality(Active) < Workers
  /\ Set(m, [resp[m] EXCEPT !.state = "headRequest"])
  /\ UNCHANGED <<asset, disk, seen, completed, cancelled>>

\* headRequest and its readResponse; with another status than 200 the file is not
\* looked at.
HeadRequest(m) ==
  /\ resp[m].state = "headRequest" /\ ~cancelled
  /\ \E next \in {"statFileInfo", "getRequest"} : Set(m, [resp[m] EXCEPT !.state = next])
  /\ UNCHANGED <<asset, disk, seen, completed, cancelled>>

\* Mutant: no Range is asked for.
ValidateLocalFromStart(m) ==
  LET size == Length(m)
      have == Len(disk[m])
      r == [resp[m] EXCEPT !.state = "getRequest", !.found = TRUE]
  IN IF size = 0 THEN r
     ELSE IF size = have THEN [r EXCEPT !.state = "closed", !.resumed = have]
     ELSE IF size < have THEN [r EXCEPT !.state = "closed", !.err = TRUE]
     ELSE IF asset[m].ranges THEN [r EXCEPT !.resumed = have, !.pos = have + 1]
     ELSE r

\* A file of the length of the remote one is left as it is, a longer one, and any file
\* if that length is not known, is an error, and a shorter one is resumed if it can be.
ValidateLocal(m) ==
  LET size == Length(m)
      have == Len(disk[m])
      r == [resp[m] EXCEPT !.state = "getRequest", !.found = TRUE]
  IN IF size = 0 THEN r
     ELSE IF size = have THEN [r EXCEPT !.state = "closed", !.resumed = have]
     ELSE IF size < have THEN [r EXCEPT !.state = "closed", !.err = TRUE]
     ELSE IF asset[m].ranges
       THEN [r EXCEPT !.resumed = have, !.pos = have + 1, !.body = have + 1]
     ELSE r

\* The second statFileInfo, with the name that the server gave, looks at the file.
StatFileInfo(m) ==
  /\ resp[m].state = "statFileInfo" /\ ~cancelled
  /\ Set(m, IF disk[m] = None THEN [resp[m] EXCEPT !.state = "getRequest"]
            ELSE ValidateLocal(m))
  /\ UNCHANGED <<asset, disk, seen, completed, cancelled>>

\* Mutant: a file that is resumed is emptied.
OpenWriterTruncate(m) ==
  IF disk[m] = None \/ resp[m].found THEN <<>> ELSE disk[m]

\* openWriter: the file is created, emptied if it was found, or appended to if it is
\* resumed.  One that was not looked at is written over from its start.
OpenWriter(m) ==
  IF disk[m] = None \/ (resp[m].found /\ resp[m].resumed = 0) THEN <<>> ELSE disk[m]

\* Where the body begins: any status from 200 to 299 will do, so a server that was asked
\* for the rest can send all of it.
Bodies(m) == {resp[m].body} \cup (IF asset[m].honours THEN {} ELSE {1})

\* getRequest, its readResponse, and openWriter: then Do returns the response.
GetRequest(m) ==
  /\ resp[m].state = "getRequest" /\ ~cancelled
  /\ disk' = [disk EXCEPT ![m] = OpenWriter(m)]
  /\ \E b \in Bodies(m) : Set(m, [resp[m] EXCEPT !.state = "copyFile", !.body = b])
  /\ UNCHANGED <<asset, seen, completed, cancelled>>

Write(f, p, b) ==
  [i \in 1 .. (IF p <= Len(f) THEN Len(f) ELSE p) |-> IF i = p THEN b ELSE f[i]]

\* copyFile, one read and write of transfer.copy.
Copy(m) ==
  /\ resp[m].state = "copyFile" /\ ~cancelled
  /\ resp[m].body <= asset[m].size
  /\ disk' = [disk EXCEPT ![m] = Write(@, resp[m].pos, resp[m].body)]
  /\ Set(m, [resp[m] EXCEPT !.pos = @ + 1, !.body = @ + 1])
  /\ UNCHANGED <<asset, seen, completed, cancelled>>

\* Mutant: the end of the body is taken one block early.
CloseEarly(m) ==
  /\ resp[m].state = "copyFile"
  /\ resp[m].body >= asset[m].size \/ ~asset[m].known
  /\ Set(m, [resp[m] EXCEPT !.state = "closed"])
  /\ UNCHANGED <<asset, disk, seen, completed, cancelled>>

\* The end of the body; there is no checksum.  Without a length a connection that
\* is closed early looks like it.
Close(m) ==
  /\ resp[m].state = "copyFile"
  /\ resp[m].body > asset[m].size \/ ~asset[m].known
  /\ Set(m, [resp[m] EXCEPT !.state = "closed"])
  /\ UNCHANGED <<asset, disk, seen, completed, cancelled>>

\* A request, a bad status, the body, or the file fails; or the context is found to be
\* cancelled, by run or by transfer.copy.
Fail(m) ==
  /\ m \in Active
  /\ Set(m, [resp[m] EXCEPT !.state = "closed", !.err = TRUE])
  /\ UNCHANGED <<asset, disk, seen, completed, cancelled>>
-----------------------------------------------------------------------------
(***************************************************************************)
(* downloadImages                                                          *)
(***************************************************************************)
\* A response is sent as soon as Do returns it.
Receive(m) ==
  /\ resp[m].state \in {"copyFile", "closed"} /\ m \notin seen
  /\ seen' = seen \cup {m}
  /\ UNCHANGED <<asset, disk, resp, completed, cancelled>>

\* Mutant: a response that was closed with an error is not counted.
TickErrors ==
  /\ completed' = {m \in seen : resp[m].state = "closed" /\ ~resp[m].err}
  /\ completed' # completed
  /\ UNCHANGED <<asset, disk, resp, seen, cancelled>>

\* Each tick counts the responses that are complete, with or without an error.
Tick ==
  /\ completed' = {m \in seen : resp[m].state = "closed"}
  /\ completed' # completed
  /\ UNCHANGED <<asset, disk, resp, seen, cancelled>>

Cancel ==
  /\ ~cancelled
  /\ cancelled' = TRUE
  /\ UNCHANGED <<asset, disk, resp, seen, completed>>

Step(m) ==
  \/ Take(m) \/ HeadRequest(m) \/ StatFileInfo(m) \/ GetRequest(m)
  \/ Copy(m) \/ Close(m) \/ Fail(m) \/ Receive(m)

GrabNext == Batch \/ Tick \/ Cancel \/ \E m \in Images : Step(m)
GrabSpec == GrabInit /\ [][GrabNext]_grabVars
-----------------------------------------------------------------------------
(***************************************************************************)
(* Properties                                                              *)
(***************************************************************************)
GrabTypeOK ==
  /\ \E w \in Worlds : asset = w.asset
  /\ disk \in [Images -> Seq(Nat) \cup {None}]
  /\ resp \in [Images -> Responses]
  /\ completed \subseteq seen /\ seen \subseteq Images
  /\ cancelled \in BOOLEAN

\* A file of the first blocks of what the server has, and of all of them.
IsPrefix(m, f) == \A i \in DOMAIN f : i <= asset[m].size /\ f[i] = i
Whole(m) == disk[m] = [i \in 1 .. asset[m].size |-> i]

\* There never was another version of an image, and its server sends what it is asked
\* for.
Steady(m) == asset[m].old = 0 /\ asset[m].honours

\* Of a steady image the file is the beginning, whatever fails, is cut off, cancelled
\* or killed, and however often it is tried again: resumed downloads are put together
\* right.
FilesArePrefixes ==
  \A m \in Images : Steady(m) /\ disk[m] # None => IsPrefix(m, disk[m])

\* A response that is complete without an error has left the whole file of a steady
\* image, resumed or not, if the server tells how long it is.
CompleteIsWhole ==
  \A m \in completed :
    Steady(m) /\ asset[m].known /\ ~resp[m].err => disk[m] # None /\ Whole(m)

\* No attempt loses what an earlier one has got from a server that resumes and tells
\* the length, not even of an older version.
NothingIsThrownAway ==
  [][\A m \in Images :
       asset[m].ranges /\ asset[m].known /\ asset[m].size > 0 /\ disk[m] # None =>
         disk'[m] # None /\ Len(disk'[m]) >= Len(disk[m])]_grabVars
=============================================================================
