------------------------------ MODULE PushPackage -----------------------------
(***************************************************************************)
(* pkgPushWriter.write of pkg/pkgio/pkgio_push.go, for a release of a      *)
(* provider: the images of the release are downloaded, and for each of     *)
(* them the package is pushed to the registry, with that image in it and   *)
(* under the name of its platform.  The registry is external.  The program *)
(* can be killed at any time, and is run again.                            *)
(***************************************************************************)
EXTENDS Grabber

CONSTANTS Files,       \* the files of the package
          ImageFiles,  \* those with "image" somewhere in their path
          MaxRuns      \* how often the program is run; a bound for TLC

\* A package as it is in the registry.
Pushed == [files : SUBSET Files, images : SUBSET Images, content : Seq(Nat)]

ASSUME PushAssumption == ImageFiles \subseteq Files /\ MaxRuns \in Nat /\ None \notin Pushed

VARIABLES phase,     \* where write is, and what it returned
          todo,      \* the images it has not pushed yet
          data,      \* the files and images in the package data
          skipped,   \* those of which it could not read the file (a history variable)
          registry,  \* what was pushed for each image, or None
          runs       \* how often it was run

pushVars == <<phase, todo, data, skipped, registry, runs>>
allVars == <<grabVars, pushVars>>

Running == phase \in {"download", "push"}

Init ==
  /\ GrabInit
  /\ phase = "idle"
  /\ todo = {} /\ skipped = {}
  /\ data = [files |-> Files, images |-> {}]
  /\ registry = [m \in Images |-> None]
  /\ runs = 0

\* The release is found and its images are listed, or one of these fails.
Start ==
  /\ ~Running /\ runs < MaxRuns
  /\ runs' = runs + 1
  /\ Batch
  /\ data' = [files |-> Files, images |-> {}]
  /\ skipped' = {}
  /\ \/ phase' = "download" /\ todo' = Images
     \/ phase' = "failed" /\ UNCHANGED todo
  /\ UNCHANGED registry

Download ==
  /\ phase = "download"
  /\ Tick \/ Cancel \/ \E m \in Images : Step(m)
  /\ UNCHANGED pushVars

\* The outcome of the downloads is not looked at.
Downloaded ==
  /\ phase = "download" /\ completed = Images
  /\ phase' = "push"
  /\ UNCHANGED <<grabVars, todo, data, skipped, registry, runs>>

Interrupt ==
  /\ phase = "push"
  /\ Cancel
  /\ UNCHANGED pushVars
-----------------------------------------------------------------------------
Begins(f, archive) == Len(f) >= Len(archive) /\ SubSeq(f, 1, Len(archive)) = archive

\* oci.ReadTgz: an archive of either version, up to the mark that ends it.  It does
\* not see what comes after that, nor that something is missing there.
Readable(m) ==
  \/ asset[m].size > 0 /\ Begins(disk[m], [i \in 1 .. asset[m].need |-> i])
  \/ asset[m].old > 0 /\ Begins(disk[m], [i \in 1 .. asset[m].oldNeed |-> 0])

\* An image whose file cannot be read, for whatever reason, is logged and left out.
Skip(m) ==
  /\ phase = "push" /\ m \in todo
  /\ todo' = todo \ {m} /\ skipped' = skipped \cup {m}
  /\ UNCHANGED <<grabVars, phase, data, registry, runs>>

Refuse(m) ==
  /\ phase = "push" /\ m \in todo
  /\ disk[m] # None /\ ~Readable(m)
  /\ phase' = "failed"
  /\ UNCHANGED <<grabVars, todo, data, skipped, registry, runs>>

\* Mutant: the image of the platform before is left in the package.
WithImageToo(m) == [files |-> data.files \ ImageFiles, images |-> data.images \cup {m}]

\* "delete the image data": every file with image in its path; then the image.
WithImage(m) == [files |-> data.files \ ImageFiles, images |-> {m}]

\* oci.BuildTgz: the package with one image.
Archive(m) == [images |-> data'.images, files |-> data'.files, content |-> disk[m]]

\* oras.Push, as far as it gets when it succeeds.
Upload(m) == registry' = [registry EXCEPT ![m] = Archive(m)]

\* Mutant: the loop returns what pushPackage returned for its first image.
PushAndReturn(m) ==
  /\ phase = "push" /\ m \in todo
  /\ disk[m] # None /\ Readable(m)
  /\ data' = WithImage(m)
  /\ \/ ~cancelled /\ Upload(m) /\ phase' = "ok"
     \/ (Upload(m) \/ UNCHANGED registry) /\ phase' = "failed"
  /\ UNCHANGED <<grabVars, todo, skipped, runs>>

\* pushPackage: oras.Push may fail before or after the registry has the package.
Push(m) ==
  /\ phase = "push" /\ m \in todo
  /\ disk[m] # None /\ Readable(m)
  /\ data' = WithImage(m)
  /\ \/ ~cancelled /\ Upload(m) /\ todo' = todo \ {m} /\ UNCHANGED phase
     \/ (Upload(m) \/ UNCHANGED registry) /\ phase' = "failed" /\ UNCHANGED todo
  /\ UNCHANGED <<grabVars, skipped, runs>>

Finish ==
  /\ phase = "push" /\ todo = {}
  /\ phase' = "ok"
  /\ UNCHANGED <<grabVars, todo, data, skipped, registry, runs>>

\* The files and the registry are what is left.
Kill ==
  /\ Running
  /\ phase' = "killed"
  /\ UNCHANGED <<grabVars, todo, data, skipped, registry, runs>>

Next ==
  \/ Start \/ Download \/ Downloaded \/ Interrupt \/ Finish \/ Kill
  \/ \E m \in Images : Skip(m) \/ Refuse(m) \/ Push(m)
Spec == Init /\ [][Next]_allVars

\* The goroutines are scheduled, the ticker ticks, and every request and every read is
\* answered or fails, in the end: the client sets no timeout.
FairSpec ==
  /\ Spec
  /\ \A m \in Images :
       /\ WF_allVars(phase = "download" /\ Step(m) /\ UNCHANGED pushVars)
       /\ WF_allVars(Skip(m) \/ Refuse(m) \/ Push(m))
  /\ WF_allVars(phase = "download" /\ Tick /\ UNCHANGED pushVars)
  /\ WF_allVars(Downloaded \/ Finish)
-----------------------------------------------------------------------------
(***************************************************************************)
(* Properties                                                              *)
(***************************************************************************)
TypeOK ==
  /\ GrabTypeOK
  /\ phase \in {"idle", "download", "push", "ok", "failed", "killed"}
  /\ todo \subseteq Images /\ skipped \subseteq Images
  /\ data \in [files : SUBSET Files, images : SUBSET Images]
  /\ registry \in [Images -> Pushed \cup {None}]
  /\ runs \in 0 .. MaxRuns

\* What the registry has for a platform is the image of that platform and no other,
\* although the package data is used for all of them.  Of a steady image it is what the
\* server has, up to the mark that ends the archive at least, although a download
\* that failed counts as completed.
PushedIsTheImage ==
  \A m \in Images :
    registry[m] # None =>
      /\ registry[m].images = {m}
      /\ Steady(m) =>
           IsPrefix(m, registry[m].content) /\ Len(registry[m].content) >= asset[m].need

\* If write returns no error, every image whose file it could read has been pushed by
\* it, as it is on disk.
OkMeansPushed ==
  phase = "ok" =>
    \A m \in Images \ skipped : registry[m] # None /\ registry[m].content = disk[m]

\* write ends, whatever fails and whenever it is cancelled.
Ends == phase = "download" ~> ~Running
=============================================================================
