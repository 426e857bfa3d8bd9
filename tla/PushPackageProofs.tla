--------------------------- MODULE PushPackageProofs ---------------------------
(***************************************************************************)
(* Proofs about the downloads and the push of images, for any number of    *)
(* images, workers and runs, any server and any files on disk.             *)
(*                                                                         *)
(* ImageInv(m) says, for each state of the response of m, where its next   *)
(* block goes: next to what the file holds, never beyond a gap.  A step of *)
(* the downloads is a step of one image, and leaves the others alone.      *)
(***************************************************************************)
EXTENDS PushPackage, SequenceTheorems, TLAPS

\* The server resumes this image, and tells how long it is.
Resumes(m) == asset[m].ranges /\ asset[m].known /\ asset[m].size > 0

\* No request was made yet, or only one for the headers.
FreshInv(m) ==
  resp[m].state \in {"queued", "headRequest", "statFileInfo"} =>
    resp[m].pos = 1 /\ resp[m].body = 1 /\ resp[m].resumed = 0 /\ ~resp[m].found

RequestInv(m) ==
  resp[m].state = "getRequest" =>
    /\ resp[m].pos = resp[m].body /\ resp[m].body = resp[m].resumed + 1
    /\ resp[m].resumed > 0 => resp[m].found
    /\ resp[m].found =>
         /\ disk[m] # None
         /\ resp[m].resumed > 0 \/ Resumes(m) => resp[m].resumed = Len(disk[m])

CopyInv(m) ==
  resp[m].state = "copyFile" =>
    /\ disk[m] # None
    /\ Steady(m) => resp[m].pos = resp[m].body
    /\ 1 <= resp[m].pos /\ resp[m].pos <= Len(disk[m]) + 1

ClosedInv(m) ==
  resp[m].state = "closed" /\ ~resp[m].err =>
    disk[m] # None /\ (Steady(m) /\ asset[m].known => Whole(m))

PrefixInv(m) == Steady(m) /\ disk[m] # None => IsPrefix(m, disk[m])

ImageInv(m) == FreshInv(m) /\ RequestInv(m) /\ CopyInv(m) /\ PrefixInv(m)
-----------------------------------------------------------------------------
(***************************************************************************)
(* Lemmas                                                                  *)
(***************************************************************************)
\* What a step reads of an image and of its response.
LEMMA ImageFacts ==
  ASSUME GrabTypeOK, NEW m \in Images
  PROVE  /\ asset[m].size \in Nat /\ asset[m].need \in Nat /\ asset[m].need <= asset[m].size
         /\ asset[m].ranges \in BOOLEAN /\ asset[m].known \in BOOLEAN
         /\ resp[m] \in Responses
         /\ disk[m] # None => /\ disk[m] \in Seq(Nat) /\ Len(disk[m]) \in Nat
                              /\ DOMAIN disk[m] = 1 .. Len(disk[m])
<1>1. asset \in [Images -> Assets] /\ asset[m].need <= asset[m].size
  BY GrabberAssumption DEF GrabTypeOK
<1>2. resp[m] \in Responses /\ disk[m] \in Seq(Nat) \cup {None}
  BY DEF GrabTypeOK
<1>. QED  BY <1>1, <1>2, LenProperties DEF Assets

\* A block that is written next to, or over, what is there leaves a longer file, and
\* a prefix of the image if it was one.
LEMMA WriteLemma ==
  ASSUME NEW f \in Seq(Nat), NEW p \in Nat \ {0}, NEW b \in Nat, p <= Len(f) + 1
  PROVE  /\ Write(f, p, b) \in Seq(Nat)
         /\ Len(Write(f, p, b)) \in Nat
         /\ Len(Write(f, p, b)) >= Len(f) /\ Len(Write(f, p, b)) >= p
         /\ DOMAIN Write(f, p, b) = 1 .. Len(Write(f, p, b))
         /\ \A i \in DOMAIN Write(f, p, b) :
              \/ i = p /\ Write(f, p, b)[i] = b
              \/ i \in 1 .. Len(f) /\ Write(f, p, b)[i] = f[i]
<1>. DEFINE n == IF p <= Len(f) THEN Len(f) ELSE p
            e(i) == IF i = p THEN b ELSE f[i]
<1>1. Len(f) \in Nat /\ n \in Nat /\ n >= Len(f) /\ n >= p
  BY LenProperties
<1>2. \A i \in 1 .. n : i = p \/ i \in 1 .. Len(f)
  BY <1>1
<1>3. \A i \in 1 .. n : e(i) \in Nat
  BY <1>2, ElementOfSeq
<1>4. Write(f, p, b) = [i \in 1 .. n |-> e(i)]
  BY DEF Write
<1>. HIDE DEF n, e
<1>5. Write(f, p, b) \in Seq(Nat)
  BY <1>1, <1>3, <1>4, IsASeq
<1>6. Len(Write(f, p, b)) = n /\ DOMAIN Write(f, p, b) = 1 .. n
  BY <1>1, <1>4, <1>5, LenProperties
<1>7. \A i \in 1 .. n : Write(f, p, b)[i] = e(i)
  BY <1>4
<1>. QED  BY <1>1, <1>2, <1>5, <1>6, <1>7 DEF e

\* An image of which nothing changes.
LEMMA SameImage ==
  ASSUME NEW m \in Images, resp'[m] = resp[m], disk'[m] = disk[m], asset' = asset
  PROVE  /\ ImageInv(m) => ImageInv(m)'
         /\ ClosedInv(m) => ClosedInv(m)'
  BY DEF ImageInv, FreshInv, RequestInv, CopyInv, ClosedInv, PrefixInv, Resumes, Steady, IsPrefix, Whole

\* A prefix that is as long as the image is all of it.
LEMMA LongPrefixIsWhole ==
  ASSUME GrabTypeOK, NEW m \in Images, disk[m] # None, IsPrefix(m, disk[m]),
         Len(disk[m]) >= asset[m].size
  PROVE  Whole(m) /\ Len(disk[m]) = asset[m].size
<1>1. /\ asset[m].size \in Nat /\ disk[m] \in Seq(Nat) /\ Len(disk[m]) \in Nat
      /\ DOMAIN disk[m] = 1 .. Len(disk[m])
  BY ImageFacts
<1>2. Len(disk[m]) <= asset[m].size
  BY <1>1 DEF IsPrefix
<1>3. \A i \in 1 .. asset[m].size : disk[m][i] = i
  BY <1>1, <1>2 DEF IsPrefix
<1>4. disk[m] \in [1 .. asset[m].size -> Nat]
  BY <1>1, <1>2, LenProperties
<1>. QED  BY <1>1, <1>2, <1>3, <1>4 DEF Whole

\* The response of one image is replaced by r, and no file is changed.
LEMMA SetResponse ==
  ASSUME GrabTypeOK, NEW m \in Images, NEW r \in Responses, Set(m, r),
         UNCHANGED <<asset, disk>>, PrefixInv(m)
  PROVE  /\ resp'[m] = r /\ \E q \in Responses : resp' = [resp EXCEPT ![m] = q]
         /\ PrefixInv(m)'
  BY DEF GrabTypeOK, Set, PrefixInv, Steady, IsPrefix

\* The steps that leave the file alone.
LEMMA TakeStep ==
  ASSUME GrabTypeOK, NEW m \in Images, ImageInv(m), ClosedInv(m),
         Take(m) \/ HeadRequest(m) \/ Fail(m) \/ Receive(m)
  PROVE  /\ ImageInv(m)' /\ ClosedInv(m)' /\ resp'[m] \in Responses
         /\ UNCHANGED <<asset, disk>> /\ \E r \in Responses : resp' = [resp EXCEPT ![m] = r]
<1>1. resp[m] \in Responses /\ resp \in [Images -> Responses]
  BY ImageFacts DEF GrabTypeOK
<1>2. UNCHANGED <<asset, disk>>
  BY DEF Take, HeadRequest, Fail, Receive
<1>3. CASE Take(m)
  <2>. DEFINE r == [resp[m] EXCEPT !.state = "headRequest"]
  <2>1. resp[m].state = "queued" /\ Set(m, r)
    BY <1>3 DEF Take
  <2>2. /\ r \in Responses /\ r.state = "headRequest"
        /\ r.pos = 1 /\ r.body = 1 /\ r.resumed = 0 /\ ~r.found
    BY <1>1, <2>1 DEF Responses, States, ImageInv, FreshInv
  <2>. HIDE DEF r
  <2>3. resp'[m] = r /\ PrefixInv(m)' /\ \E q \in Responses : resp' = [resp EXCEPT ![m] = q]
    BY <1>2, <2>1, <2>2, SetResponse DEF ImageInv
  <2>. QED  BY <1>2, <2>2, <2>3 DEF ImageInv, FreshInv, RequestInv, CopyInv, ClosedInv
<1>4. CASE HeadRequest(m)
  <2>. PICK next \in {"statFileInfo", "getRequest"} : Set(m, [resp[m] EXCEPT !.state = next])
    BY <1>4 DEF HeadRequest
  <2>. DEFINE r == [resp[m] EXCEPT !.state = next]
  <2>1. resp[m].state = "headRequest"
    BY <1>4 DEF HeadRequest
  <2>2. /\ r \in Responses /\ r.state = next
        /\ r.pos = 1 /\ r.body = 1 /\ r.resumed = 0 /\ ~r.found
    BY <1>1, <2>1 DEF Responses, States, ImageInv, FreshInv
  <2>3. Set(m, r)
    OBVIOUS
  <2>. HIDE DEF r
  <2>4. resp'[m] = r /\ PrefixInv(m)' /\ \E q \in Responses : resp' = [resp EXCEPT ![m] = q]
    BY <1>2, <2>2, <2>3, SetResponse DEF ImageInv
  <2>5. RequestInv(m)'
    BY <2>2, <2>4 DEF RequestInv
  <2>6. FreshInv(m)' /\ CopyInv(m)' /\ ClosedInv(m)'
    BY <2>2, <2>4 DEF FreshInv, CopyInv, ClosedInv
  <2>. QED  BY <1>2, <2>2, <2>4, <2>5, <2>6 DEF ImageInv
<1>5. CASE Fail(m)
  <2>. DEFINE r == [resp[m] EXCEPT !.state = "closed", !.err = TRUE]
  <2>1. Set(m, r)
    BY <1>5 DEF Fail
  <2>2. r \in Responses /\ r.state = "closed" /\ r.err
    BY <1>1 DEF Responses, States
  <2>. HIDE DEF r
  <2>3. resp'[m] = r /\ PrefixInv(m)' /\ \E q \in Responses : resp' = [resp EXCEPT ![m] = q]
    BY <1>2, <2>1, <2>2, SetResponse DEF ImageInv
  <2>. QED  BY <1>2, <2>2, <2>3 DEF ImageInv, FreshInv, RequestInv, CopyInv, ClosedInv
<1>6. CASE Receive(m)
  <2>1. resp' = resp
    BY <1>6 DEF Receive
  <2>2. resp' = [resp EXCEPT ![m] = resp[m]]
    BY <1>1, <2>1
  <2>. QED  BY <1>1, <1>2, <2>1, <2>2, SameImage
<1>. QED  BY <1>3, <1>4, <1>5, <1>6

LEMMA StatStep ==
  ASSUME GrabTypeOK, NEW m \in Images, ImageInv(m), ClosedInv(m), StatFileInfo(m)
  PROVE  /\ ImageInv(m)' /\ ClosedInv(m)' /\ resp'[m] \in Responses
         /\ UNCHANGED <<asset, disk>> /\ \E r \in Responses : resp' = [resp EXCEPT ![m] = r]
<1>1. resp[m] \in Responses /\ resp \in [Images -> Responses]
  BY ImageFacts DEF GrabTypeOK
<1>2. UNCHANGED <<asset, disk>> /\ resp[m].state = "statFileInfo"
  BY DEF StatFileInfo
<1>3. resp[m].pos = 1 /\ resp[m].body = 1 /\ resp[m].resumed = 0 /\ ~resp[m].found
  BY <1>2 DEF ImageInv, FreshInv
<1>4. ASSUME NEW r \in Responses, Set(m, r), FreshInv(m)', RequestInv(m)', CopyInv(m)', ClosedInv(m)'
      PROVE  /\ ImageInv(m)' /\ ClosedInv(m)' /\ resp'[m] \in Responses
             /\ \E q \in Responses : resp' = [resp EXCEPT ![m] = q]
  BY <1>2, <1>4, SetResponse DEF ImageInv
<1>5. CASE disk[m] = None
  <2>. DEFINE r == [resp[m] EXCEPT !.state = "getRequest"]
  <2>1. Set(m, r)
    BY <1>5 DEF StatFileInfo
  <2>2. /\ r \in Responses /\ r.state = "getRequest"
        /\ r.pos = 1 /\ r.body = 1 /\ r.resumed = 0 /\ ~r.found
    BY <1>1, <1>3 DEF Responses, States
  <2>. HIDE DEF r
  <2>3. resp'[m] = r
    BY <1>2, <2>1, <2>2, SetResponse DEF ImageInv
  <2>4. FreshInv(m)' /\ RequestInv(m)' /\ CopyInv(m)' /\ ClosedInv(m)'
    BY <2>2, <2>3 DEF FreshInv, RequestInv, CopyInv, ClosedInv
  <2>. QED  BY <1>2, <1>4, <2>1, <2>2, <2>4
<1>6. CASE disk[m] # None
  <2>. DEFINE have == Len(disk[m])
              q == [resp[m] EXCEPT !.state = "getRequest", !.found = TRUE]
              r == ValidateLocal(m)
  <2>1. have \in Nat /\ asset[m].size \in Nat /\ Length(m) \in Int
        /\ asset[m].known \in BOOLEAN /\ asset[m].ranges \in BOOLEAN
    BY <1>6, ImageFacts DEF Length
  <2>2. Set(m, r)
    BY <1>6 DEF StatFileInfo
  <2>3. q \in Responses /\ q.state = "getRequest" /\ q.found
        /\ q.pos = 1 /\ q.body = 1 /\ q.resumed = 0
    BY <1>1, <1>3 DEF Responses, States
  <2>4. ASSUME r \in Responses,
               \/ /\ r.state = "getRequest" /\ r.found /\ r.pos = r.body /\ r.body = r.resumed + 1
                  /\ r.resumed > 0 \/ Resumes(m) => r.resumed = have
               \/ r.state = "closed" /\ (~r.err => (Steady(m) => Whole(m)))
        PROVE  FreshInv(m)' /\ RequestInv(m)' /\ CopyInv(m)' /\ ClosedInv(m)'
    <3>1. resp'[m] = r
      BY <1>2, <2>2, <2>4, SetResponse DEF ImageInv
    <3>. HIDE DEF r
    <3>2. FreshInv(m)' /\ CopyInv(m)'
      BY <2>4, <3>1 DEF FreshInv, CopyInv
    <3>3. RequestInv(m)'
      BY <1>2, <1>6, <2>4, <3>1 DEF RequestInv, Resumes
    <3>4. ClosedInv(m)'
      BY <1>2, <1>6, <2>4, <3>1 DEF ClosedInv, Steady, Whole
    <3>. QED  BY <3>2, <3>3, <3>4
  <2>5. CASE Length(m) = 0 \/ (Length(m) > have /\ ~asset[m].ranges)
    <3>1. r = q
      BY <2>1, <2>5 DEF ValidateLocal
    <3>2. ~Resumes(m)
      BY <2>1, <2>5 DEF Resumes, Length
    <3>. QED  BY <1>2, <1>4, <2>2, <2>3, <2>4, <3>1, <3>2
  <2>6. CASE Length(m) # 0 /\ Length(m) = have
    <3>1. r = [q EXCEPT !.state = "closed", !.resumed = have]
      BY <2>6 DEF ValidateLocal
    <3>2. r \in Responses /\ r.state = "closed"
      BY <2>1, <2>3, <3>1 DEF Responses, States
    <3>3. Steady(m) => Whole(m)
      <4>1. asset[m].size = have
        BY <2>1, <2>6 DEF Length
      <4>. QED  BY <1>6, <2>1, <4>1, LongPrefixIsWhole DEF ImageInv, PrefixInv
    <3>. QED  BY <1>2, <1>4, <2>2, <2>4, <3>2, <3>3
  <2>7. CASE Length(m) # 0 /\ Length(m) < have
    <3>1. r = [q EXCEPT !.state = "closed", !.err = TRUE]
      BY <2>1, <2>7 DEF ValidateLocal
    <3>2. r \in Responses /\ r.state = "closed" /\ r.err
      BY <2>3, <3>1 DEF Responses, States
    <3>. QED  BY <1>2, <1>4, <2>2, <2>4, <3>2
  <2>8. CASE Length(m) # 0 /\ Length(m) > have /\ asset[m].ranges
    <3>1. r = [q EXCEPT !.resumed = have, !.pos = have + 1, !.body = have + 1]
      BY <2>1, <2>8 DEF ValidateLocal
    <3>2. /\ r \in Responses /\ r.state = "getRequest" /\ r.found
          /\ r.pos = have + 1 /\ r.body = have + 1 /\ r.resumed = have
      <4>. HIDE DEF q, r, have
      <4>1. have \in Nat /\ have + 1 \in Nat
        BY <2>1
      <4>. QED  BY <2>3, <3>1, <4>1 DEF Responses, States
    <3>. QED  BY <1>2, <1>4, <2>2, <2>4, <3>2
  <2>. QED  BY <2>1, <2>5, <2>6, <2>7, <2>8
<1>. QED  BY <1>5, <1>6, <1>2

\* What a step of an image does to it and to all others.
StepOf(m) ==
  /\ ImageInv(m)' /\ ClosedInv(m)' /\ asset' = asset
  /\ \E r \in Responses : resp' = [resp EXCEPT ![m] = r]
  /\ disk' = disk \/ \E f \in Seq(Nat) : disk' = [disk EXCEPT ![m] = f]
  /\ Resumes(m) /\ disk[m] # None => disk'[m] # None /\ Len(disk'[m]) >= Len(disk[m])

LEMMA GetStep ==
  ASSUME GrabTypeOK, NEW m \in Images, ImageInv(m), GetRequest(m)
  PROVE  StepOf(m)
<1>. PICK b \in Bodies(m) : Set(m, [resp[m] EXCEPT !.state = "copyFile", !.body = b])
  BY DEF GetRequest
<1>. DEFINE r == [resp[m] EXCEPT !.state = "copyFile", !.body = b]
            f == OpenWriter(m)
<1>0. b \in Nat /\ (Steady(m) => b = resp[m].body)
  <2>1. resp[m].body \in Nat /\ 1 \in Nat
    BY ImageFacts DEF Responses
  <2>. QED  BY <2>1 DEF Bodies, Steady
<1>1. /\ resp[m] \in Responses /\ resp \in [Images -> Responses]
      /\ disk \in [Images -> Seq(Nat) \cup {None}]
  BY ImageFacts DEF GrabTypeOK
<1>2. resp[m].state = "getRequest" /\ Set(m, r) /\ asset' = asset /\ disk' = [disk EXCEPT ![m] = f]
  BY DEF GetRequest
<1>3. RequestInv(m) /\ PrefixInv(m)
  BY DEF ImageInv
<1>4. <<>> \in Seq(Nat) /\ Len(<<>>) = 0 /\ DOMAIN <<>> = {}
  OBVIOUS
<1>5. (f = disk[m] /\ disk[m] # None) \/ f = <<>>
  BY DEF OpenWriter
<1>6. f \in Seq(Nat) /\ Len(f) \in Nat /\ f # None
  <2>1. f \in Seq(Nat)
    BY <1>1, <1>4, <1>5
  <2>. QED  BY <2>1, LenProperties, GrabberAssumption
<1>7. /\ r \in Responses /\ r.state = "copyFile"
      /\ r.pos = resp[m].pos /\ r.body = b
      /\ resp[m].resumed \in Nat /\ resp[m].body \in Nat
  BY <1>0, <1>1 DEF Responses, States
<1>8. resp[m].pos <= Len(f) + 1 /\ 1 <= resp[m].pos /\ resp[m].pos = resp[m].body
  <2>1. CASE resp[m].resumed > 0
    <3>1. f = disk[m] /\ resp[m].resumed = Len(disk[m])
      BY <1>2, <1>3, <1>7, <2>1 DEF RequestInv, OpenWriter
    <3>. QED  BY <1>2, <1>3, <1>6, <1>7, <3>1 DEF RequestInv
  <2>2. CASE resp[m].resumed = 0
    BY <1>2, <1>3, <1>6, <1>7, <2>2 DEF RequestInv
  <2>. QED  BY <1>7, <2>1, <2>2
<1>9. Resumes(m) /\ disk[m] # None => Len(f) >= Len(disk[m])
  <2>. SUFFICES ASSUME Resumes(m), disk[m] # None
                PROVE  Len(f) >= Len(disk[m])
    OBVIOUS
  <2>0. Len(disk[m]) \in Nat
    BY ImageFacts
  <2>1. CASE resp[m].found /\ resp[m].resumed = 0
    BY <1>2, <1>3, <1>6, <2>0, <2>1 DEF RequestInv
  <2>2. CASE ~(resp[m].found /\ resp[m].resumed = 0)
    BY <2>0, <2>2 DEF OpenWriter
  <2>. QED  BY <2>1, <2>2
<1>. HIDE DEF r, f
<1>10. resp'[m] = r /\ disk'[m] = f
  BY <1>1, <1>2 DEF Set
<1>11. CopyInv(m)'
  BY <1>0, <1>2, <1>6, <1>7, <1>8, <1>10 DEF CopyInv, Steady
<1>12. FreshInv(m)' /\ RequestInv(m)' /\ ClosedInv(m)'
  BY <1>7, <1>10 DEF FreshInv, RequestInv, ClosedInv
<1>13. PrefixInv(m)'
  BY <1>2, <1>3, <1>4, <1>5, <1>10 DEF PrefixInv, Steady, IsPrefix
<1>14. \E q \in Responses : resp' = [resp EXCEPT ![m] = q]
  BY <1>2, <1>7 DEF Set
<1>. QED  BY <1>2, <1>6, <1>9, <1>10, <1>11, <1>12, <1>13, <1>14 DEF StepOf, ImageInv

LEMMA CopyStep ==
  ASSUME GrabTypeOK, NEW m \in Images, ImageInv(m), Copy(m)
  PROVE  StepOf(m)
<1>. DEFINE p == resp[m].pos
            b == resp[m].body
            r == [resp[m] EXCEPT !.pos = p + 1, !.body = b + 1]
            f == Write(disk[m], p, b)
<1>1. /\ resp[m] \in Responses /\ resp \in [Images -> Responses]
      /\ disk \in [Images -> Seq(Nat) \cup {None}]
  BY ImageFacts DEF GrabTypeOK
<1>2. /\ resp[m].state = "copyFile" /\ b <= asset[m].size
      /\ asset' = asset /\ disk' = [disk EXCEPT ![m] = f]
  BY DEF Copy
<1>3. Set(m, r)
  BY DEF Copy
<1>4. /\ disk[m] # None /\ disk[m] \in Seq(Nat) /\ Len(disk[m]) \in Nat
      /\ p \in Nat /\ b \in Nat /\ (Steady(m) => p = b) /\ 1 <= p /\ p <= Len(disk[m]) + 1
      /\ DOMAIN disk[m] = 1 .. Len(disk[m])
  BY <1>1, <1>2, ImageFacts DEF ImageInv, CopyInv, Responses
<1>5. /\ f \in Seq(Nat) /\ Len(f) \in Nat /\ Len(f) >= Len(disk[m]) /\ Len(f) >= p
      /\ DOMAIN f = 1 .. Len(f)
      /\ \A i \in DOMAIN f : (i = p /\ f[i] = b) \/ (i \in 1 .. Len(disk[m]) /\ f[i] = disk[m][i])
  <2>1. p \in Nat \ {0}
    BY <1>4
  <2>. HIDE DEF p, b
  <2>. QED  BY <1>4, <2>1, WriteLemma
<1>6. f # None
  BY <1>5, GrabberAssumption
<1>7. r \in Responses /\ r.state = "copyFile" /\ r.pos = p + 1 /\ r.body = b + 1
  <2>1. p + 1 \in Nat /\ b + 1 \in Nat
    BY <1>4
  <2>. HIDE DEF p, b
  <2>. QED  BY <1>1, <1>2, <2>1 DEF Responses, States
<1>. HIDE DEF p, b, r, f
<1>8. resp'[m] = r /\ disk'[m] = f
  BY <1>1, <1>2, <1>3 DEF Set
<1>9. CopyInv(m)'
  BY <1>2, <1>4, <1>5, <1>6, <1>7, <1>8 DEF CopyInv, Steady
<1>10. FreshInv(m)' /\ RequestInv(m)' /\ ClosedInv(m)'
  BY <1>7, <1>8 DEF FreshInv, RequestInv, ClosedInv
<1>11. PrefixInv(m)'
  <2>. SUFFICES ASSUME Steady(m), NEW i \in DOMAIN f
                PROVE  i <= asset[m].size /\ f[i] = i
    BY <1>2, <1>8 DEF PrefixInv, Steady, IsPrefix
  <2>1. \A j \in 1 .. Len(disk[m]) : j <= asset[m].size /\ disk[m][j] = j
    BY <1>4 DEF ImageInv, PrefixInv, IsPrefix
  <2>. QED  BY <1>2, <1>4, <1>5, <2>1
<1>12. \E q \in Responses : resp' = [resp EXCEPT ![m] = q]
  BY <1>3, <1>7 DEF Set
<1>. QED  BY <1>2, <1>5, <1>6, <1>8, <1>9, <1>10, <1>11, <1>12 DEF StepOf, ImageInv

LEMMA CloseStep ==
  ASSUME GrabTypeOK, NEW m \in Images, ImageInv(m), Close(m)
  PROVE  StepOf(m)
<1>. DEFINE r == [resp[m] EXCEPT !.state = "closed"]
<1>1. /\ resp[m] \in Responses /\ resp \in [Images -> Responses]
  BY ImageFacts DEF GrabTypeOK
<1>2. /\ resp[m].state = "copyFile" /\ (asset[m].known => resp[m].body > asset[m].size)
      /\ Set(m, r) /\ UNCHANGED <<asset, disk>>
  BY DEF Close
<1>3. r \in Responses /\ r.state = "closed"
  BY <1>1 DEF Responses, States
<1>4. /\ disk[m] # None /\ Len(disk[m]) \in Nat /\ asset[m].size \in Nat
      /\ resp[m].pos \in Nat /\ resp[m].pos <= Len(disk[m]) + 1
      /\ Steady(m) => resp[m].pos = resp[m].body
  BY <1>1, <1>2, ImageFacts DEF ImageInv, CopyInv, Responses
<1>5. Steady(m) /\ asset[m].known => Whole(m)
  BY <1>2, <1>4, LongPrefixIsWhole DEF ImageInv, PrefixInv
<1>. HIDE DEF r
<1>6. resp'[m] = r /\ PrefixInv(m)' /\ \E q \in Responses : resp' = [resp EXCEPT ![m] = q]
  BY <1>2, <1>3, SetResponse DEF ImageInv
<1>7. ClosedInv(m)'
  BY <1>2, <1>4, <1>5 DEF ClosedInv, Steady, Whole
<1>8. FreshInv(m)' /\ RequestInv(m)' /\ CopyInv(m)'
  BY <1>3, <1>6 DEF FreshInv, RequestInv, CopyInv
<1>9. disk' = disk /\ asset' = asset /\ Len(disk'[m]) >= Len(disk[m])
  BY <1>2, <1>4
<1>10. ImageInv(m)'
  BY <1>6, <1>8 DEF ImageInv
<1>. QED  BY <1>6, <1>7, <1>9, <1>10 DEF StepOf

LEMMA StepLemma ==
  ASSUME GrabTypeOK, NEW m \in Images, ImageInv(m), ClosedInv(m), Step(m)
  PROVE  StepOf(m)
<1>1. CASE Take(m) \/ HeadRequest(m) \/ Fail(m) \/ Receive(m)
  <2>1. disk[m] # None => Len(disk[m]) \in Nat
    BY ImageFacts
  <2>. QED  BY <1>1, <2>1, TakeStep DEF StepOf
<1>2. CASE StatFileInfo(m)
  <2>1. disk[m] # None => Len(disk[m]) \in Nat
    BY ImageFacts
  <2>. QED  BY <1>2, <2>1, StatStep DEF StepOf
<1>. QED  BY <1>1, <1>2, GetStep, CopyStep, CloseStep DEF Step
-----------------------------------------------------------------------------
(***************************************************************************)
(* The invariant                                                           *)
(***************************************************************************)
FilesInv == \A m \in Images : ImageInv(m)
AnsweredInv == phase # "idle" => \A m \in Images : ClosedInv(m)
CompletedInv ==
  /\ phase = "idle" => completed = {}
  /\ \A m \in completed : resp[m].state = "closed"

\* What has been pushed while the loop over the images goes on.
PushedInv ==
  /\ phase = "download" => todo = Images
  /\ phase = "push" =>
       /\ completed = Images
       /\ \A m \in Images \ (todo \cup skipped) :
            registry[m] # None /\ registry[m].content = disk[m]

Inv == TypeOK /\ FilesInv /\ AnsweredInv /\ CompletedInv /\ PushedInv
       /\ PushedIsTheImage /\ OkMeansPushed

LEMMA InitInv == Init => Inv
<1>. SUFFICES ASSUME Init PROVE Inv
  OBVIOUS
<1>1. PICK w \in Worlds : asset = w.asset /\ disk = w.disk
  BY DEF Init, GrabInit
<1>2. [Request EXCEPT !.state = "closed"] \in Responses
  BY DEF Request, Responses, States
<1>3. resp = [m \in Images |-> [Request EXCEPT !.state = "closed"]]
  BY DEF Init, GrabInit
<1>4. GrabTypeOK
  <2>1. resp \in [Images -> Responses]
    BY <1>2, <1>3
  <2>. QED  BY <1>1, <2>1, GrabberAssumption DEF Init, GrabInit, GrabTypeOK
<1>5. registry = [m \in Images |-> None] /\ phase = "idle"
  BY DEF Init
<1>6. TypeOK
  BY <1>4, PushAssumption DEF Init, TypeOK
<1>7. ASSUME NEW m \in Images
      PROVE  ImageInv(m)
  <2>1. resp[m].state = "closed"
    BY <1>3 DEF Request
  <2>2. PrefixInv(m)
    <3>. SUFFICES ASSUME Steady(m), disk[m] # None, NEW i \in DOMAIN disk[m]
                  PROVE  i <= asset[m].size /\ disk[m][i] = i
      BY DEF PrefixInv, IsPrefix
    <3>1. Len(disk[m]) <= asset[m].size /\ disk[m][i] = i
      BY <1>1, GrabberAssumption DEF Steady
    <3>. QED  BY <1>4, <3>1, ImageFacts
  <2>. QED  BY <2>1, <2>2 DEF ImageInv, FreshInv, RequestInv, CopyInv
<1>. QED  BY <1>5, <1>6, <1>7
          DEF Init, GrabInit, Inv, FilesInv, AnsweredInv, CompletedInv, PushedInv,
              PushedIsTheImage, OkMeansPushed

(***************************************************************************)
(* The downloads                                                           *)
(***************************************************************************)
LEMMA StepFrame ==
  ASSUME NEW m \in Images, Step(m)
  PROVE  /\ completed' = completed /\ cancelled' = cancelled
         /\ seen' = seen \/ seen' = seen \cup {m}
         /\ resp[m].state = "closed" => resp' = resp
  BY DEF Step, Take, HeadRequest, StatFileInfo, GetRequest, Copy, Close, Fail, Receive, Active

LEMMA DownloadStep ==
  ASSUME Inv, Download
  PROVE  /\ GrabTypeOK' /\ FilesInv' /\ AnsweredInv' /\ CompletedInv' /\ asset' = asset
         /\ \A n \in Images :
              Resumes(n) /\ disk[n] # None => disk'[n] # None /\ Len(disk'[n]) >= Len(disk[n])
<1>1. /\ GrabTypeOK /\ phase = "download" /\ phase' = phase
      /\ \A n \in Images : ImageInv(n) /\ ClosedInv(n)
  BY DEF Inv, TypeOK, FilesInv, AnsweredInv, Download, pushVars
<1>2. CASE Tick \/ Cancel
  <2>1. UNCHANGED <<asset, disk, resp, seen>>
    BY <1>2 DEF Tick, Cancel
  <2>2. \A n \in Images : ImageInv(n)' /\ ClosedInv(n)'
    BY <1>1, <2>1, SameImage
  <2>3. completed' \subseteq seen /\ \A m \in completed' : resp[m].state = "closed"
    BY <1>2 DEF Tick, Cancel, Inv, GrabTypeOK, TypeOK, CompletedInv
  <2>4. cancelled' \in BOOLEAN
    BY <1>1, <1>2 DEF Tick, Cancel, GrabTypeOK
  <2>5. GrabTypeOK'
    BY <1>1, <2>1, <2>3, <2>4 DEF GrabTypeOK
  <2>6. \A n \in Images : disk[n] # None => Len(disk'[n]) >= Len(disk[n])
    BY <1>1, <2>1, ImageFacts
  <2>. QED  BY <1>1, <2>1, <2>2, <2>3, <2>5, <2>6 DEF FilesInv, AnsweredInv, CompletedInv
<1>3. ASSUME NEW m \in Images, Step(m)
      PROVE  /\ GrabTypeOK' /\ FilesInv' /\ AnsweredInv' /\ CompletedInv' /\ asset' = asset
             /\ \A n \in Images :
                  Resumes(n) /\ disk[n] # None => disk'[n] # None /\ Len(disk'[n]) >= Len(disk[n])
  <2>1. StepOf(m)
    BY <1>1, <1>3, StepLemma
  <2>2. /\ resp' \in [Images -> Responses] /\ disk' \in [Images -> Seq(Nat) \cup {None}]
        /\ \A n \in Images : n # m => resp'[n] = resp[n] /\ disk'[n] = disk[n]
    BY <1>1, <2>1 DEF StepOf, GrabTypeOK
  <2>3. /\ completed' = completed /\ cancelled' = cancelled
        /\ seen' = seen \/ seen' = seen \cup {m}
        /\ resp[m].state = "closed" => resp' = resp
    BY <1>3, StepFrame
  <2>4. asset' = asset /\ ImageInv(m)' /\ ClosedInv(m)'
    BY <2>1 DEF StepOf
  <2>5. \A n \in Images : ImageInv(n)' /\ ClosedInv(n)'
    <3>. SUFFICES ASSUME NEW n \in Images, n # m
                  PROVE  ImageInv(n)' /\ ClosedInv(n)'
      BY <2>4
    <3>. QED  BY <1>1, <2>2, <2>4, SameImage
  <2>6. GrabTypeOK'
    BY <1>1, <2>2, <2>3, <2>4 DEF GrabTypeOK
  <2>7. CompletedInv'
    BY <1>1, <2>2, <2>3 DEF Inv, CompletedInv, GrabTypeOK
  <2>8. ASSUME NEW n \in Images, Resumes(n), disk[n] # None
        PROVE  disk'[n] # None /\ Len(disk'[n]) >= Len(disk[n])
    <3>1. CASE n = m
      BY <2>1, <2>8, <3>1 DEF StepOf
    <3>2. CASE n # m
      BY <1>1, <2>2, <2>8, <3>2, ImageFacts
    <3>. QED  BY <3>1, <3>2
  <2>. QED  BY <2>4, <2>5, <2>6, <2>7, <2>8 DEF FilesInv, AnsweredInv
<1>. QED  BY <1>2, <1>3 DEF Download

LEMMA DownloadKeeps ==
  ASSUME Inv, Download
  PROVE  Inv'
<1>1. phase = "download" /\ UNCHANGED pushVars
  BY DEF Download
<1>2. /\ GrabTypeOK' /\ FilesInv' /\ AnsweredInv' /\ CompletedInv' /\ asset' = asset
  BY DownloadStep
<1>3. TypeOK'
  BY <1>1, <1>2 DEF Inv, TypeOK, pushVars
<1>4. PushedInv' /\ OkMeansPushed'
  BY <1>1 DEF Inv, PushedInv, OkMeansPushed, pushVars
<1>5. PushedIsTheImage'
  BY <1>1, <1>2 DEF Inv, PushedIsTheImage, Steady, IsPrefix, pushVars
<1>. QED  BY <1>2, <1>3, <1>4, <1>5 DEF Inv

\* A run begins with new responses, and with the files as they are.
LEMMA StartKeeps ==
  ASSUME Inv, Start
  PROVE  Inv'
<1>1. /\ resp' = [m \in Images |-> Request] /\ seen' = {} /\ completed' = {}
      /\ cancelled' = FALSE /\ UNCHANGED <<asset, disk, registry>>
      /\ \/ phase' = "download" /\ todo' = Images
         \/ phase' = "failed" /\ todo' = todo
      /\ skipped' = {} /\ runs' = runs + 1 /\ runs < MaxRuns /\ data' = [files |-> Files, images |-> {}]
  BY DEF Start, Batch
<1>2. Request \in Responses
  BY DEF Request, Responses, States
<1>3. GrabTypeOK'
  BY <1>1, <1>2 DEF Inv, TypeOK, GrabTypeOK
<1>4. runs' \in 0 .. MaxRuns
  BY <1>1, PushAssumption DEF Inv, TypeOK
<1>5. TypeOK'
  BY <1>1, <1>3, <1>4 DEF Inv, TypeOK
<1>6. ASSUME NEW m \in Images
      PROVE  ImageInv(m)' /\ ClosedInv(m)'
  <2>1. /\ resp'[m].state = "queued" /\ resp'[m].pos = 1 /\ resp'[m].body = 1
        /\ resp'[m].resumed = 0 /\ ~resp'[m].found
    BY <1>1 DEF Request
  <2>2. PrefixInv(m)'
    BY <1>1 DEF Inv, FilesInv, ImageInv, PrefixInv, Steady, IsPrefix
  <2>. QED  BY <2>1, <2>2 DEF ImageInv, FreshInv, RequestInv, CopyInv, ClosedInv
<1>7. FilesInv' /\ AnsweredInv'
  BY <1>6 DEF FilesInv, AnsweredInv
<1>8. CompletedInv' /\ PushedInv' /\ OkMeansPushed'
  BY <1>1 DEF CompletedInv, PushedInv, OkMeansPushed
<1>9. PushedIsTheImage'
  BY <1>1 DEF Inv, PushedIsTheImage, Steady, IsPrefix
<1>. QED  BY <1>5, <1>7, <1>8, <1>9 DEF Inv

\* What does not touch the downloads keeps what is known of them.
LEMMA DownloadsStay ==
  ASSUME Inv, UNCHANGED <<asset, disk, resp, seen, completed>>, cancelled' \in BOOLEAN,
         phase # "idle" \/ phase' = "idle", phase' = "idle" => phase = "idle"
  PROVE  GrabTypeOK' /\ FilesInv' /\ AnsweredInv' /\ CompletedInv'
<1>1. \A m \in Images : ImageInv(m)' /\ (ClosedInv(m) => ClosedInv(m)')
  BY SameImage DEF Inv, FilesInv
<1>. QED  BY <1>1 DEF Inv, TypeOK, GrabTypeOK, FilesInv, AnsweredInv, CompletedInv

\* An archive that can be read holds all that is needed of it, and of a steady image
\* nothing else.
LEMMA ReadableIsTheImage ==
  ASSUME Inv, NEW m \in Images, disk[m] # None, Readable(m), Steady(m)
  PROVE  IsPrefix(m, disk[m]) /\ Len(disk[m]) >= asset[m].need
<1>1. GrabTypeOK /\ IsPrefix(m, disk[m])
  BY DEF Inv, TypeOK, FilesInv, ImageInv, PrefixInv
<1>2. asset[m].need \in Nat
  BY <1>1, ImageFacts
<1>3. Len([i \in 1 .. asset[m].need |-> i]) = asset[m].need
  BY <1>2
<1>4. Begins(disk[m], [i \in 1 .. asset[m].need |-> i])
  BY DEF Readable, Steady
<1>. QED  BY <1>1, <1>3, <1>4 DEF Begins

LEMMA PushKeeps ==
  ASSUME Inv, NEW m \in Images, Push(m)
  PROVE  Inv'
<1>1. /\ phase = "push" /\ m \in todo /\ disk[m] # None /\ Readable(m)
      /\ data' = WithImage(m)
      /\ UNCHANGED <<asset, disk, resp, seen, completed, cancelled, skipped, runs>>
      /\ registry' = registry \/ registry' = [registry EXCEPT ![m] = Archive(m)]
      /\ \/ phase' = "push" /\ todo' = todo \ {m} /\ registry' = [registry EXCEPT ![m] = Archive(m)]
         \/ phase' = "failed" /\ todo' = todo
  BY DEF Push, Upload, grabVars
<1>2. TypeOK /\ registry \in [Images -> Pushed \cup {None}] /\ cancelled \in BOOLEAN
  BY DEF Inv, TypeOK, GrabTypeOK
<1>3. GrabTypeOK' /\ FilesInv' /\ AnsweredInv' /\ CompletedInv'
  BY <1>1, <1>2, DownloadsStay
<1>4. data' = [files |-> data.files \ ImageFiles, images |-> {m}]
  BY <1>1 DEF WithImage
<1>5. data' \in [files : SUBSET Files, images : SUBSET Images]
  BY <1>2, <1>4 DEF TypeOK
<1>6. disk[m] \in Seq(Nat)
  BY <1>1, <1>2, ImageFacts DEF TypeOK
<1>7. /\ Archive(m) \in Pushed /\ Archive(m) # None
      /\ Archive(m).images = {m} /\ Archive(m).content = disk[m]
  BY <1>4, <1>5, <1>6, PushAssumption DEF Archive, Pushed
<1>8. TypeOK'
  BY <1>1, <1>2, <1>3, <1>5, <1>7 DEF TypeOK
<1>9. PushedInv'
  BY <1>1, <1>2, <1>7 DEF Inv, PushedInv
<1>10. OkMeansPushed'
  BY <1>1 DEF OkMeansPushed
<1>11. PushedIsTheImage'
  <2>. SUFFICES ASSUME NEW n \in Images, registry'[n] # None
                PROVE  /\ registry'[n].images = {n}
                       /\ Steady(n) => /\ IsPrefix(n, registry'[n].content)
                                       /\ Len(registry'[n].content) >= asset[n].need
    BY <1>1 DEF PushedIsTheImage, Steady, IsPrefix
  <2>1. CASE registry'[n] = registry[n]
    BY <2>1 DEF Inv, PushedIsTheImage
  <2>2. CASE n = m /\ registry'[n] = Archive(m)
    BY <1>1, <1>7, <2>2, ReadableIsTheImage
  <2>. QED  BY <1>1, <1>2, <2>1, <2>2
<1>. QED  BY <1>3, <1>8, <1>9, <1>10, <1>11 DEF Inv

\* The steps that push nothing.
LEMMA OtherKeeps ==
  ASSUME Inv,
         \/ Downloaded \/ Interrupt \/ Finish \/ Kill \/ UNCHANGED allVars
         \/ \E m \in Images : Skip(m) \/ Refuse(m)
  PROVE  Inv'
<1>1. /\ UNCHANGED <<asset, disk, resp, seen, completed, data, registry, runs>>
      /\ cancelled' \in BOOLEAN
      /\ phase # "idle" \/ phase' = "idle"
      /\ phase' = "idle" => phase = "idle"
  BY DEF Downloaded, Interrupt, Cancel, Finish, Kill, Running, Skip, Refuse, allVars, grabVars, pushVars,
         Inv, TypeOK, GrabTypeOK
<1>2. GrabTypeOK' /\ FilesInv' /\ AnsweredInv' /\ CompletedInv'
  BY <1>1, DownloadsStay
<1>3. PushedIsTheImage'
  BY <1>1 DEF Inv, PushedIsTheImage, Steady, IsPrefix
<1>4. /\ todo' \subseteq Images /\ skipped' \subseteq Images
      /\ phase' \in {"idle", "download", "push", "ok", "failed", "killed"}
  BY DEF Downloaded, Interrupt, Finish, Kill, Skip, Refuse, allVars, pushVars, Inv, TypeOK
<1>5. TypeOK'
  BY <1>1, <1>2, <1>4 DEF Inv, TypeOK
<1>6. PushedInv' /\ OkMeansPushed'
  <2>1. CASE Downloaded
    <3>1. phase' = "push" /\ completed = Images /\ todo' = todo /\ skipped' = skipped
      BY <2>1 DEF Downloaded
    <3>2. todo = Images
      BY <2>1 DEF Downloaded, Inv, PushedInv
    <3>. QED  BY <1>1, <3>1, <3>2 DEF PushedInv, OkMeansPushed
  <2>2. CASE Interrupt \/ UNCHANGED allVars
    BY <1>1, <2>2 DEF Interrupt, allVars, pushVars, Inv, PushedInv, OkMeansPushed
  <2>3. CASE Finish
    BY <1>1, <2>3 DEF Finish, Inv, PushedInv, OkMeansPushed
  <2>4. CASE Kill \/ \E m \in Images : Refuse(m)
    BY <2>4 DEF Kill, Refuse, PushedInv, OkMeansPushed
  <2>5. ASSUME NEW m \in Images, Skip(m)
        PROVE  PushedInv' /\ OkMeansPushed'
    <3>1. /\ phase = "push" /\ phase' = "push"
          /\ todo' = todo \ {m} /\ skipped' = skipped \cup {m}
      BY <2>5 DEF Skip
    <3>. QED  BY <1>1, <3>1 DEF Inv, PushedInv, OkMeansPushed
  <2>. QED  BY <2>1, <2>2, <2>3, <2>4, <2>5
<1>. QED  BY <1>2, <1>3, <1>5, <1>6 DEF Inv

LEMMA NextInv == Inv /\ [Next]_allVars => Inv'
<1>. SUFFICES ASSUME Inv, [Next]_allVars PROVE Inv'
  OBVIOUS
<1>1. CASE Start
  BY <1>1, StartKeeps
<1>2. CASE Download
  BY <1>2, DownloadKeeps
<1>3. CASE \E m \in Images : Push(m)
  BY <1>3, PushKeeps
<1>4. CASE \/ Downloaded \/ Interrupt \/ Finish \/ Kill \/ UNCHANGED allVars
           \/ \E m \in Images : Skip(m) \/ Refuse(m)
  BY <1>4, OtherKeeps
<1>. QED  BY <1>1, <1>2, <1>3, <1>4 DEF Next
-----------------------------------------------------------------------------
(***************************************************************************)
(* Theorems                                                                *)
(***************************************************************************)
\* The inductive invariant holds of every run.
THEOREM PushInvariant == Spec => []Inv
<1>. QED  BY InitInv, NextInv, PTL DEF Spec

\* The variables keep their types: in particular, only images whose download has
\* ended are counted as completed.
THEOREM TypeCorrect == Spec => []TypeOK
<1>1. Inv => TypeOK
  BY DEF Inv
<1>. QED  BY <1>1, PushInvariant, PTL

\* If there was never another version of an image and its server honours the ranges it
\* is asked for, what is on disk is a beginning of it, whenever the downloads are cut off
\* or cancelled, fail, or the program is killed.
THEOREM PrefixFiles == Spec => []FilesArePrefixes
<1>1. Inv => FilesArePrefixes
  BY DEF Inv, FilesInv, ImageInv, PrefixInv, FilesArePrefixes
<1>. QED  BY <1>1, PushInvariant, PTL

\* A download that is counted as completed and has no error has left the whole of such
\* an image, if the server tells its length.
THEOREM CompletedAreWhole == Spec => []CompleteIsWhole
<1>1. Inv => CompleteIsWhole
  BY DEF Inv, AnsweredInv, CompletedInv, ClosedInv, CompleteIsWhole, TypeOK, GrabTypeOK
<1>. QED  BY <1>1, PushInvariant, PTL

\* What the registry has for a platform is the image of that platform alone, with all
\* that is needed to read it.
THEOREM PushedImages == Spec => []PushedIsTheImage
<1>1. Inv => PushedIsTheImage
  BY DEF Inv
<1>. QED  BY <1>1, PushInvariant, PTL

\* If write returns no error, every image whose file it could read has been pushed.
THEOREM OkPushed == Spec => []OkMeansPushed
<1>1. Inv => OkMeansPushed
  BY DEF Inv
<1>. QED  BY <1>1, PushInvariant, PTL

\* No step of the program makes a file shorter, or removes it, that the server would
\* resume: also not one of an older version.
THEOREM NothingLost == Spec => NothingIsThrownAway
<1>. DEFINE Keeps == \A m \in Images : Resumes(m) /\ disk[m] # None =>
                       disk'[m] # None /\ Len(disk'[m]) >= Len(disk[m])
<1>1. ASSUME Inv, [Next]_allVars
      PROVE  Keeps
  <2>1. CASE Download
    BY <1>1, <2>1, DownloadStep
  <2>2. CASE ~Download
    <3>1. disk' = disk
      BY <1>1, <2>2
         DEF Next, Start, Batch, Downloaded, Interrupt, Cancel, Finish, Kill, Skip, Refuse, Push,
             allVars, grabVars
    <3>2. \A m \in Images : disk[m] # None => Len(disk[m]) \in Nat
      BY <1>1, ImageFacts DEF Inv, TypeOK
    <3>. QED  BY <3>1, <3>2
  <2>. QED  BY <2>1, <2>2
<1>2. Inv /\ [Next]_allVars => [Keeps]_grabVars
  BY <1>1
<1>3. [Keeps]_grabVars
        <=> [\A m \in Images :
              asset[m].ranges /\ asset[m].known /\ asset[m].size > 0 /\ disk[m] # None =>
                disk'[m] # None /\ Len(disk'[m]) >= Len(disk[m])]_grabVars
  BY DEF Resumes
<1>. HIDE DEF Keeps
<1>. QED  BY <1>2, <1>3, PushInvariant, PTL DEF Spec, NothingIsThrownAway
=============================================================================
