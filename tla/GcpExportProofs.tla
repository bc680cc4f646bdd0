---------------------------- MODULE GcpExportProofs ----------------------------
(***************************************************************************)
(* Proofs about GcpExport, for any number of disks, logins, other jobs and  *)
(* threads of the pool, any size of disk and range, and any mix of cancel,  *)
(* logout and restart:                                                      *)
(*   - the saved record covers what exists in GCP (RecordCovers), and what  *)
(*     a task leaves behind is recorded or gone (ExitReleases);             *)
(*   - a login is never closed under a run that pinned it                   *)
(*     (ExportKeepsLogin);                                                  *)
(*   - a disk is COPIED only when all of its bytes were (CopiedIsComplete). *)
(***************************************************************************)
EXTENDS GcpExport, SequenceTheorems, TLAPS

-----------------------------------------------------------------------------
(* Where the task is.  The phase of the record and the label of the thread  *)
(* go together, and a record is created once.                               *)

Labels ==
  {"idle", "start", "snap", "snapPost", "snapWait", "obj", "objPost", "objWait", "disk", "attempt", "size", "copy",
   "objects", "snaps", "released", "teardown", "finish"}
Inside == Labels \ {"idle", "start", "teardown", "finish"}

Shapes ==
  /\ info = [snaps |-> info.snaps, objs |-> info.objs]
  /\ stored = [snaps |-> stored.snaps, objs |-> stored.objs]
  /\ request = [op |-> request.op, s |-> request.s]
Places ==
  /\ pc \in Labels /\ raised \in {"none", "failed", "cancelled"} /\ kept \in BOOLEAN
  /\ pc \in Inside => phase \in {"EXPORTING", "CANCELLED"}
  /\ pc = "finish" => phase \notin {"none", "QUEUED", "EXPORTING"}
  /\ pc = "start" => phase = "QUEUED"
  /\ pc = "teardown" => phase # "none"
  /\ phase = "none" \/ pc = "start" => info = Empty
  /\ pc \in {"idle", "start", "finish", "teardown"} => info = stored
  /\ request.op \in {"inspect", "submit"} => phase = "none" /\ request.s = Mine
  /\ request.op \in {"cancel", "put"} => phase # "none" /\ doc.phase # "none"

PlaceInv == Shapes /\ Places

-----------------------------------------------------------------------------
(* What is recorded.  RecordCovers is about the saved record, but a release *)
(* deletes by the thread's own document and saves that: it must cover all   *)
(* of GCP too, with the exports that are under way, and may name no more    *)
(* than the saved one.  It does until a cancel request puts back a document *)
(* that is out of date.                                                     *)

Covered == ~putBack =>
  /\ snaps \subseteq info.snaps
  /\ (objects \cup exporting) \ missed \subseteq info.objs
  /\ info.snaps \subseteq stored.snaps /\ info.objs \subseteq stored.objs
  /\ pc = "snapPost" => idx \in info.snaps
  /\ pc = "objPost" => idx \in info.objs

-----------------------------------------------------------------------------
(* What is left behind.  The release loops look at every recorded name, and *)
(* one that stays recorded was a failure.                                   *)

Accounted ==
  ~kept /\ ~putBack =>
    /\ pc = "objects" => info.objs \subseteq todo
    /\ pc = "snaps" => info.objs = {} /\ info.snaps \subseteq todo
    /\ pc \in {"released", "finish", "idle"} => info = Empty

RecordInv == PlaceInv /\ Covered /\ Accounted

-----------------------------------------------------------------------------
(* Logins.  A job that has a login has pinned it, and the pin is not about  *)
(* to be given back.  The cleanup of a job is excepted: it may pin the      *)
(* login again between the two halves of _finish and lose that pin.         *)

LoginTypes ==
  /\ listed \subseteq Sessions /\ closed \subseteq Sessions
  /\ pins \in [Sessions -> SUBSET Jobs] /\ held \in [Jobs -> Sessions \cup {NoSession}]
  /\ \A p \in leaving : p = <<p[1], p[2]>> /\ p[1] \in Jobs /\ p[2] \in Sessions
Pinned ==
  \A j \in Jobs, s \in Sessions :
    held[j] = s /\ Migrating(j) => j \in pins[s] /\ \A u \in Sessions : <<j, u>> \notin leaving
NewJobIsFree ==
  phase = "none" => held[Me] = NoSession /\ \A s \in Sessions : <<Me, s>> \notin leaving

LoginInv == PlaceInv /\ LoginTypes /\ Pinned /\ NewJobIsFree

-----------------------------------------------------------------------------
(* The copy of an object.  As long as no future failed, every byte of it is *)
(* written or was spoilt by an odd answer, or its range is in the hands of  *)
(* a thread or waits in the queue.                                          *)

Whole  == 0..(Size - 1)
Pieces == {r \in SUBSET Whole : r # NoRange}

CopyTypes ==
  /\ doing \in [Workers -> Pieces \cup {NoRange}]
  /\ queue \in Seq(Pieces)
AtRest == pc # "copy" => \A w \in Workers : doing[w] = NoRange
Accounts ==
  pc = "copy" /\ failures = {} =>
    \A x \in Whole :
      \/ x \in written \cup spoilt
      \/ \E w \in Workers : doing[w] # NoRange /\ x \in doing[w]
      \/ \E n \in DOMAIN queue : x \in queue[n]

CopyInv == PlaceInv /\ CopyTypes /\ AtRest /\ Accounts

LEMMA InitPlaceInv == Init => PlaceInv
<1>. SUFFICES ASSUME Init PROVE PlaceInv
  OBVIOUS
<1>1. Shapes
  BY DEF Init, Shapes, Empty, Nothing
<1>2. pc = "idle" /\ phase = "none" /\ info = Empty /\ stored = Empty /\ raised = "none" /\ kept = FALSE /\ request.op = "none"
  BY DEF Init, Nothing
<1>3. Places
  BY <1>2 DEF Places, Labels, Inside
<1>. QED
  BY <1>1, <1>3 DEF PlaceInv

\* How an attempt and the copy of a disk end.
LEMMA CopiedDoes ==
  ASSUME Copied
  PROVE  /\ pc = "copy" /\ Leave /\ UNCHANGED <<loginVars, record, gcp, outside, phase, cancel, kept>>
         /\ \/ failure = "none" /\ Goto("disk") /\ UNCHANGED <<attempt, raised, todo>>
            \/ Exit("cancelled") /\ UNCHANGED <<copied, idx, attempt>>
            \/ Exit("failed") /\ UNCHANGED <<copied, idx, attempt>>
            \/ Goto("attempt") /\ UNCHANGED <<copied, idx, raised, todo>>
            \/ Exit("failed") /\ UNCHANGED <<copied, idx, attempt>>
<1>1. CASE failure = "none"
  BY <1>1 DEF Copied
<1>2. CASE failure = "cancelled"
  BY <1>2 DEF Copied
<1>3. CASE failure = "closed"
  BY <1>3 DEF Copied
<1>4. CASE failure \notin {"none", "cancelled", "closed"}
  <2>1. AttemptFails /\ UNCHANGED <<copied, idx>>
    BY <1>4 DEF Copied
  <2>. QED
    BY <2>1 DEF Copied, AttemptFails
<1>. QED
  BY <1>1, <1>2, <1>3, <1>4

LEMMA SaveReleasedDoes ==
  ASSUME SaveReleased, phase \in {"EXPORTING", "CANCELLED"}, raised \in {"none", "failed", "cancelled"}
  PROVE  \/ Goto("finish") /\ phase' \in {"CANCELLED", "COPIED", "FAILED"}
         \/ Goto("teardown") /\ phase = "EXPORTING" /\ phase' = phase
<1>1. CASE phase = "CANCELLED"
  BY <1>1 DEF SaveReleased
<1>2. CASE phase = "EXPORTING"
  BY <1>2 DEF SaveReleased
<1>. QED
  BY <1>1, <1>2

\* Nothing in these steps moves the thread or changes the phase.
LEMMA AroundKeepsPlace ==
  ASSUME PlaceInv,
         \/ \E w \in Workers : WorkerStep(w)
         \/ MeetFailure
         \/ \E s \in Sessions : LogIn(s) \/ LogOut(s)
         \/ \E j \in Jobs, s \in Sessions : OtherStarts(j, s) \/ GiveBack(j, s)
         \/ \E j \in Jobs : OtherEnds(j)
         \/ \E i \in Disks : ExportEnds(i)
  PROVE  PlaceInv' /\ UNCHANGED <<pc, phase, info, stored, asking, kept, raised, todo, idx, missed, snaps, crashes>>
<1>1. UNCHANGED <<pc, phase, info, stored, asking, kept, raised, todo, idx, missed, snaps, crashes>>
  BY DEF WorkerStep, MeetFailure, LogIn, LogOut, OtherStarts, GiveBack, OtherEnds, ExportEnds, elsewhere, outside,
         progress, record, gcp
<1>. QED
  BY <1>1 DEF PlaceInv, Shapes, Places, asking

\* The document that is put replaces the stored one; one that is up to date changes nothing.
LEMMA PutLeaves ==
  ASSUME PutDocument
  PROVE  /\ info' = stored' /\ stored' = [snaps |-> stored'.snaps, objs |-> stored'.objs]
         /\ ~putBack' => stored' = stored /\ ~putBack
BY DEF PutDocument, Outdated

\* What the steps of a cancel request do to the record and the place of the thread.
LEMMA CancelDoes ==
  ASSUME CancelAsks \/ CancelPuts \/ CancelTeardown
  PROVE  /\ UNCHANGED <<copyVars, progress, gcp, events, crashes, todo, kept>>
         /\ \/ /\ UNCHANGED <<loginVars, record, putBack, pc, phase>> /\ request.op \in {"cancel", "put"}
               /\ \/ request' = Nothing
                  \/ request' = [op |-> "put", s |-> NoSession] /\ doc' = doc
            \/ /\ request.op \in {"cancel", "put"} /\ request' = Nothing
               /\ pc = "idle" /\ PutDocument /\ phase' = doc.phase
               /\ \/ pc' = "idle" /\ UNCHANGED loginVars
                  \/ pc' = "teardown" /\ UNCHANGED loginVars
                  \/ pc' = "teardown" /\ request.s \in Sessions /\ Pin(Me, request.s)
<1>1. CASE CancelAsks
  BY <1>1 DEF CancelAsks
<1>2. CASE CancelPuts
  BY <1>2 DEF CancelPuts
<1>3. CASE CancelTeardown
  BY <1>3 DEF CancelTeardown, Goto
<1>. QED
  BY <1>1, <1>2, <1>3

LEMMA NextPlaceInv == PlaceInv /\ [Next]_vars => PlaceInv'
<1>. SUFFICES ASSUME PlaceInv, [Next]_vars PROVE PlaceInv'
  OBVIOUS
<1>. USE DEF PlaceInv
<1>1. CASE UNCHANGED vars
  BY <1>1 DEF vars, record, outside, asking, progress, Shapes, Places
<1>2. CASE Next
  <2>. USE DEF Labels, Inside, Goto, Exit, record, outside, asking, progress
  <2>1. CASE \/ \E w \in Workers : WorkerStep(w)
             \/ MeetFailure
             \/ \E s \in Sessions : LogIn(s) \/ LogOut(s)
             \/ \E j \in Jobs, s \in Sessions : OtherStarts(j, s) \/ GiveBack(j, s)
             \/ \E j \in Jobs : OtherEnds(j)
             \/ \E i \in Disks : ExportEnds(i)
    BY <2>1, AroundKeepsPlace
  <2>2. CASE CheckSource \/ RecordSnapshot \/ PostSnapshot \/ AwaitSnapshot
    <3>1. Shapes'
      BY <2>2 DEF CheckSource, RecordSnapshot, PostSnapshot, AwaitSnapshot, Shapes
    <3>2. Places'
      BY <2>2 DEF CheckSource, RecordSnapshot, PostSnapshot, AwaitSnapshot, Places
    <3>. QED
      BY <3>1, <3>2
  <2>3. CASE RecordObject \/ PostExport \/ AwaitExport \/ NextDisk \/ OpenDevice
    <3>1. Shapes'
      BY <2>3 DEF RecordObject, PostExport, AwaitExport, NextDisk, OpenDevice, Shapes
    <3>2. Places'
      BY <2>3 DEF RecordObject, PostExport, AwaitExport, NextDisk, OpenDevice, Places
    <3>. QED
      BY <3>1, <3>2
  <2>4. CASE ReadSize
    BY <2>4 DEF ReadSize, AttemptFails, Shapes, Places
  <2>5. CASE Copied
    BY <2>5, CopiedDoes DEF Shapes, Places
  <2>6. CASE DeleteObject \/ ToSnapshots \/ DeleteSnapshot
    <3>1. Shapes'
      BY <2>6 DEF DeleteObject, ToSnapshots, DeleteSnapshot, Shapes
    <3>2. pc = "objects" \/ pc = "snaps"
      BY <2>6 DEF DeleteObject, ToSnapshots, DeleteSnapshot
    <3>3. pc' \in {"objects", "snaps"} /\ kept' \in BOOLEAN /\ UNCHANGED <<phase, raised, request, doc>>
      BY <2>6, <3>2 DEF DeleteObject, ToSnapshots, DeleteSnapshot, Places
    <3>4. Places'
      BY <3>2, <3>3 DEF Places
    <3>. QED
      BY <3>1, <3>4
  <2>7. CASE ReleaseBreaks \/ EndRelease
    BY <2>7 DEF ReleaseBreaks, EndRelease, Shapes, Places
  <2>8. CASE SaveReleased
    <3>1. pc = "released" /\ UNCHANGED <<info, request, doc, raised, kept>> /\ stored' = info
      BY <2>8 DEF SaveReleased
    <3>2. \/ pc' = "finish" /\ phase' \in {"CANCELLED", "COPIED", "FAILED"}
          \/ pc' = "teardown" /\ phase' = "EXPORTING"
      BY <2>8, <3>1, SaveReleasedDoes DEF Places
    <3>. QED
      BY <3>1, <3>2 DEF Shapes, Places
  <2>9. CASE Teardown \/ Finish
    BY <2>9 DEF Teardown, Finish, Shapes, Places
  <2>10. CASE Inspect \/ Submit
    BY <2>10 DEF Inspect, Submit, Nothing, Shapes, Places
  <2>13. CASE CancelAsks \/ CancelPuts \/ CancelTeardown
    <3>1. Shapes' /\ raised' = raised /\ kept' = kept
      BY <2>13, CancelDoes, PutLeaves DEF Nothing, Shapes
    <3>2. Places'
      BY <2>13, <3>1, CancelDoes, PutLeaves DEF Nothing, Places
    <3>. QED
      BY <3>1, <3>2
  <2>14. CASE CancelRunning
    BY <2>14 DEF CancelRunning, Shapes, Places
  <2>11. CASE Crash
    <3>1. /\ info' = stored' /\ pc' = "idle" /\ phase' # "none" /\ request' = Nothing /\ raised' = "none"
          /\ kept' \in BOOLEAN
      BY <2>11, PutLeaves DEF Crash
    <3>2. stored' = [snaps |-> stored'.snaps, objs |-> stored'.objs]
      BY <2>11, PutLeaves DEF Crash, Shapes
    <3>. QED
      BY <3>1, <3>2 DEF Nothing, Shapes, Places
  <2>12. ASSUME NEW op \in {"inspect", "cancel"}, NEW s \in Sessions \cup {NoSession}, Ask(op, s)
         PROVE  PlaceInv'
    <3>1. request' = [op |-> op, s |-> s] /\ UNCHANGED <<pc, phase, raised, kept, info, stored>>
      BY <2>12 DEF Ask
    <3>2. CASE op = "inspect"
      <4>1. phase = "none" /\ s = Mine
        BY <2>12, <3>2 DEF Ask
      <4>. QED
        BY <3>1, <3>2, <4>1 DEF Shapes, Places
    <3>3. CASE op = "cancel"
      <4>1. phase # "none" /\ doc'.phase = phase
        BY <2>12, <3>3 DEF Ask
      <4>. QED
        BY <3>1, <3>3, <4>1 DEF Shapes, Places
    <3>. QED
      BY <3>2, <3>3
  <2>. QED
    BY <1>2, <2>1, <2>2, <2>3, <2>4, <2>5, <2>6, <2>7, <2>8, <2>9, <2>10, <2>11, <2>12,
       <2>13, <2>14 DEF Next, TaskStep, HandlerStep
<1>. QED
  BY <1>1, <1>2

-----------------------------------------------------------------------------
(* The record                                                               *)

LEMMA InitRecordInv == Init => RecordInv
<1>. SUFFICES ASSUME Init PROVE RecordInv
  OBVIOUS
<1>1. Covered
  BY DEF Init, Covered, Empty
<1>2. Accounted
  BY DEF Init, Accounted
<1>. QED
  BY <1>1, <1>2, InitPlaceInv DEF RecordInv

\* The steps of __enter__ record a name, and ask GCP for it after that.
LEMMA EnterRecord ==
  ASSUME RecordInv, CheckSource \/ RecordSnapshot \/ PostSnapshot \/ AwaitSnapshot \/ RecordObject \/ PostExport
                    \/ AwaitExport
  PROVE  Covered' /\ Accounted'
<1>. USE DEF Goto, Exit, record, gcp, progress, outside, asking, RecordInv
<1>1. CASE RecordSnapshot
  <2>0. pc = "snap" /\ UNCHANGED <<snaps, exporting, objects, missed, idx, kept, putBack>>
    BY <1>1 DEF RecordSnapshot
  <2>1. CASE cancel
    <3>1. UNCHANGED record /\ pc' = "objects" /\ todo' = info.objs
      BY <1>1, <2>1 DEF RecordSnapshot
    <3>. QED
      BY <2>0, <3>1 DEF Covered, Accounted
  <2>2. CASE ~cancel
    <3>1. info' = [info EXCEPT !.snaps = @ \cup {idx}] /\ stored' = info' /\ pc' = "snapPost"
      BY <1>1, <2>2 DEF RecordSnapshot
    <3>2. info'.snaps = info.snaps \cup {idx} /\ info'.objs = info.objs
      BY <3>1 DEF PlaceInv, Shapes
    <3>. QED
      BY <2>0, <3>1, <3>2 DEF Covered, Accounted
  <2>. QED
    BY <2>1, <2>2
<1>5. CASE RecordObject
  <2>1. /\ info' = [info EXCEPT !.objs = @ \cup {idx}] /\ stored' = info' /\ pc' = "objPost"
        /\ UNCHANGED <<snaps, exporting, objects, missed, idx, kept, putBack>>
    BY <1>5 DEF RecordObject
  <2>2. info'.objs = info.objs \cup {idx} /\ info'.snaps = info.snaps
    BY <2>1 DEF PlaceInv, Shapes
  <2>. QED
    BY <2>1, <2>2 DEF Covered, Accounted
<1>2. CASE PostSnapshot \/ PostExport
  BY <1>2 DEF PostSnapshot, PostExport, Covered, Accounted
<1>3. CASE AwaitSnapshot \/ AwaitExport
  BY <1>3 DEF AwaitSnapshot, AwaitExport, Covered, Accounted
<1>4. CASE CheckSource
  BY <1>4 DEF CheckSource, Covered, Accounted, PlaceInv, Places
<1>. QED
  BY <1>1, <1>2, <1>3, <1>4, <1>5

LEMMA CopyRecord ==
  ASSUME RecordInv, NextDisk \/ OpenDevice \/ ReadSize \/ Copied
  PROVE  Covered' /\ Accounted'
<1>. USE DEF Goto, Exit, record, gcp, progress, outside, asking, RecordInv
<1>1. CASE NextDisk \/ OpenDevice \/ ReadSize
  BY <1>1 DEF NextDisk, OpenDevice, ReadSize, AttemptFails, Covered, Accounted
<1>2. CASE Copied
  BY <1>2, CopiedDoes DEF Covered, Accounted
<1>. QED
  BY <1>1, <1>2

\* A release takes a name off the document when what it names is gone, or will be missed.
LEMMA ReleaseRecord ==
  ASSUME RecordInv, DeleteObject \/ ToSnapshots \/ DeleteSnapshot \/ ReleaseBreaks \/ EndRelease \/ SaveReleased
  PROVE  Covered' /\ Accounted'
<1>. USE DEF Goto, record, gcp, progress, outside, asking, RecordInv
<1>1. CASE DeleteObject
  <2>1. PICK i : /\ todo' = todo \ {i}
                 /\ \/ /\ objects' = objects \ {i} /\ info' = [info EXCEPT !.objs = @ \ {i}]
                       /\ missed' = (IF i \in exporting THEN missed \cup {i} ELSE missed)
                       /\ UNCHANGED kept
                    \/ objects' \subseteq objects /\ kept' = TRUE /\ UNCHANGED <<info, missed>>
    BY <1>1 DEF DeleteObject
  <2>2. pc = "objects" /\ UNCHANGED <<pc, stored, snaps, exporting, putBack>>
    BY <1>1 DEF DeleteObject
  <2>3. info' = [info EXCEPT !.objs = @ \ {i}] => info'.objs = info.objs \ {i} /\ info'.snaps = info.snaps
    BY DEF PlaceInv, Shapes
  <2>4. Covered'
    BY <2>1, <2>2, <2>3 DEF Covered
  <2>5. Accounted'
    BY <2>1, <2>2, <2>3 DEF Accounted
  <2>. QED
    BY <2>4, <2>5
<1>2. CASE DeleteSnapshot
  <2>1. PICK i : /\ todo' = todo \ {i}
                 /\ \/ snaps' = snaps \ {i} /\ info' = [info EXCEPT !.snaps = @ \ {i}] /\ UNCHANGED kept
                    \/ snaps' \subseteq snaps /\ kept' = TRUE /\ UNCHANGED info
    BY <1>2 DEF DeleteSnapshot
  <2>2. pc = "snaps" /\ UNCHANGED <<pc, stored, objects, missed, exporting, putBack>>
    BY <1>2 DEF DeleteSnapshot
  <2>3. info' = [info EXCEPT !.snaps = @ \ {i}] => info'.snaps = info.snaps \ {i} /\ info'.objs = info.objs
    BY DEF PlaceInv, Shapes
  <2>4. Covered'
    BY <2>1, <2>2, <2>3 DEF Covered
  <2>5. Accounted'
    BY <2>1, <2>2, <2>3 DEF Accounted
  <2>. QED
    BY <2>4, <2>5
<1>3. CASE ToSnapshots \/ ReleaseBreaks
  BY <1>3 DEF ToSnapshots, ReleaseBreaks, Covered, Accounted
<1>4. CASE EndRelease
  <2>1. pc = "snaps" /\ todo = {} /\ pc' = "released" /\ UNCHANGED <<info, stored, snaps, exporting, objects, missed,
                                                                  kept, putBack>>
    BY <1>4 DEF EndRelease
  <2>2. ~kept /\ ~putBack => info = Empty
    BY <2>1 DEF Accounted, PlaceInv, Shapes, Empty
  <2>. QED
    BY <2>1, <2>2 DEF Covered, Accounted
<1>5. CASE SaveReleased
  <2>1. /\ pc = "released" /\ stored' = info /\ UNCHANGED <<info, snaps, exporting, objects, missed, kept, putBack>>
    BY <1>5 DEF SaveReleased
  <2>2. pc' \in {"finish", "teardown"}
    BY <1>5, <2>1, SaveReleasedDoes DEF PlaceInv, Places, Inside, Labels
  <2>. QED
    BY <2>1, <2>2 DEF Covered, Accounted
<1>. QED
  BY <1>1, <1>2, <1>3, <1>4, <1>5

LEMMA EndsRecord ==
  ASSUME RecordInv,
         \/ Teardown \/ Finish \/ Inspect \/ Submit \/ CancelAsks \/ CancelPuts \/ CancelTeardown \/ Crash
  PROVE  Covered' /\ Accounted'
<1>. USE DEF Goto, record, gcp, progress, outside, asking, RecordInv
<1>1. CASE Teardown
  BY <1>1 DEF Teardown, Covered, Accounted
<1>2. CASE Finish
  BY <1>2 DEF Finish, Covered, Accounted
<1>3. CASE Inspect \/ Submit
  BY <1>3 DEF Inspect, Submit, Covered, Accounted
<1>4. CASE Crash
  <2>1. /\ info' = stored' /\ kept' = (stored' # Empty) /\ pc' = "idle"
        /\ UNCHANGED <<snaps, exporting, objects, missed>>
        /\ ~putBack' => stored' = stored /\ ~putBack
    BY <1>4, PutLeaves DEF Crash
  <2>. QED
    BY <2>1 DEF Covered, Accounted
<1>5. CASE CancelAsks \/ CancelPuts \/ CancelTeardown
  <2>1. UNCHANGED <<snaps, exporting, objects, missed, idx, todo, kept>>
    BY <1>5, CancelDoes
  <2>2. CASE UNCHANGED <<record, putBack, pc>>
    BY <2>1, <2>2 DEF Covered, Accounted
  <2>3. CASE pc = "idle" /\ pc' \in {"idle", "teardown"} /\ PutDocument
    <3>1. ~putBack' => stored' = stored /\ info' = info /\ ~putBack
      BY <2>3, PutLeaves DEF PlaceInv, Places
    <3>. QED
      BY <2>1, <2>3, <3>1 DEF Covered, Accounted
  <2>. QED
    BY <1>5, <2>2, <2>3, CancelDoes
<1>. QED
  BY <1>1, <1>2, <1>3, <1>4, <1>5

LEMMA NextRecordInv == RecordInv /\ [Next]_vars => RecordInv'
<1>. SUFFICES ASSUME RecordInv, [Next]_vars PROVE RecordInv'
  OBVIOUS
<1>0. PlaceInv'
  BY NextPlaceInv DEF RecordInv
<1>1. Covered' /\ Accounted'
  <2>1. CASE UNCHANGED vars
    BY <2>1 DEF vars, record, gcp, progress, outside, asking, RecordInv, Covered, Accounted
  <2>2. ASSUME NEW i \in Disks, ExportEnds(i)
        PROVE  Covered' /\ Accounted'
    BY <2>2 DEF ExportEnds, record, progress, outside, asking, RecordInv, Covered, Accounted
  <2>3. CASE \/ \E w \in Workers : WorkerStep(w)
             \/ MeetFailure
             \/ \E s \in Sessions : LogIn(s) \/ LogOut(s)
             \/ \E j \in Jobs, s \in Sessions : OtherStarts(j, s) \/ GiveBack(j, s)
             \/ \E j \in Jobs : OtherEnds(j)
             \/ CancelRunning
    <3>1. UNCHANGED <<record, gcp, idx, pc, kept, todo, putBack>>
      BY <2>3 DEF WorkerStep, MeetFailure, LogIn, LogOut, OtherStarts, GiveBack, OtherEnds, CancelRunning, elsewhere,
                  progress, outside, asking
    <3>. QED
      BY <3>1 DEF record, gcp, RecordInv, Covered, Accounted
  <2>4. ASSUME NEW op \in {"inspect", "cancel"}, NEW s \in Sessions \cup {NoSession}, Ask(op, s)
        PROVE  Covered' /\ Accounted'
    <3>1. UNCHANGED <<record, gcp, idx, pc, kept, todo, putBack>>
      BY <2>4 DEF Ask, progress
    <3>. QED
      BY <3>1 DEF record, gcp, RecordInv, Covered, Accounted
  <2>. QED
    BY <2>1, <2>2, <2>3, <2>4, EnterRecord, CopyRecord, ReleaseRecord, EndsRecord DEF Next, TaskStep, HandlerStep
<1>. QED
  BY <1>0, <1>1 DEF RecordInv

LEMMA AlwaysRecordInv == Spec => []RecordInv
BY InitRecordInv, NextRecordInv, PTL DEF Spec

\* Whatever the helper had made in GCP and has not deleted is named by the saved record, through lost answers,
\* cancel, failed deletions, logout and restarts (_ensure_snapshots_and_exports saves a name before the call), until a
\* cancel request puts back a document it read before the thread's last save.
THEOREM ResourcesAreRecorded == Spec => []RecordCovers
<1>1. RecordInv => RecordCovers
  BY DEF RecordInv, Covered, RecordCovers
<1>. QED
  BY <1>1, AlwaysRecordInv, PTL

\* A task that ended, and had no failed release, left nothing in GCP but objects whose export finished after
\* they had been deleted (close, _release_gcp), unless a document that was put back took something off the record.
THEOREM ReleasedAtTheEnd == Spec => []ExitReleases
<1>1. RecordInv => ExitReleases
  BY DEF RecordInv, Covered, Accounted, ExitReleases, Empty
<1>. QED
  BY <1>1, AlwaysRecordInv, PTL

-----------------------------------------------------------------------------
(* Logins                                                                   *)

LEMMA InitLoginInv == Init => LoginInv
<1>. SUFFICES ASSUME Init PROVE LoginInv
  OBVIOUS
<1>1. LoginTypes
  BY DEF Init, LoginsInit, LoginTypes
<1>2. Pinned /\ NewJobIsFree
  BY LoginsAssumption, GcpAssumption DEF Init, LoginsInit, Pinned, NewJobIsFree
<1>. QED
  BY <1>1, <1>2, InitPlaceInv DEF LoginInv

\* A job that ends leaves its login, but not yet its pin.
LEMMA PutBackKeeps ==
  ASSUME LoginInv, NEW j \in Jobs, PutBack(j), UNCHANGED phase,
         j = Me => phase # "none" /\ ~Migrating(Me)', Migrating(Me)' => Migrating(Me)
  PROVE  LoginTypes' /\ Pinned' /\ NewJobIsFree'
<1>. USE DEF LoginInv
<1>0. /\ held' = [held EXCEPT ![j] = NoSession] /\ UNCHANGED <<listed, closed, pins>>
      /\ leaving' \subseteq leaving \cup {<<j, held[j]>>}
      /\ held[j] # NoSession \/ leaving' = leaving
      /\ held \in [Jobs -> Sessions \cup {NoSession}]
  BY DEF PutBack, LoginTypes
<1>1. LoginTypes'
  BY <1>0 DEF LoginTypes
<1>2. \A k \in Jobs, u \in Sessions : k # j => (<<k, u>> \in leaving' => <<k, u>> \in leaving)
  BY <1>0
<1>3. Pinned'
  BY <1>0, <1>2, LoginsAssumption DEF Pinned, Migrating
<1>4. NewJobIsFree'
  BY <1>0, <1>2, GcpAssumption DEF NewJobIsFree
<1>. QED
  BY <1>1, <1>3, <1>4

\* A job that starts is in neither half of another _finish of its own.
LEMMA PinKeeps ==
  ASSUME LoginInv, NEW j \in Jobs, NEW s \in Sessions, Pin(j, s), phase' # "none",
         Migrating(j)' => \A u \in Sessions : <<j, u>> \notin leaving,
         \A k \in Jobs \ {j} : Migrating(k)' => Migrating(k)
  PROVE  LoginTypes' /\ Pinned' /\ NewJobIsFree'
<1>. USE DEF LoginInv
<1>0. /\ held' = [held EXCEPT ![j] = s] /\ pins' = [pins EXCEPT ![s] = @ \cup {j}]
      /\ UNCHANGED <<listed, closed, leaving>>
      /\ held \in [Jobs -> Sessions \cup {NoSession}] /\ pins \in [Sessions -> SUBSET Jobs]
  BY DEF Pin, LoginTypes
<1>1. LoginTypes'
  BY <1>0 DEF LoginTypes
<1>2. \A u \in Sessions : pins[u] \subseteq pins'[u]
  BY <1>0
<1>3. Pinned'
  BY <1>0, <1>2 DEF Pinned
<1>. QED
  BY <1>1, <1>3 DEF NewJobIsFree

LEMMA NextLoginInv == LoginInv /\ [Next]_vars => LoginInv'
<1>. SUFFICES ASSUME LoginInv, [Next]_vars PROVE LoginInv'
  OBVIOUS
<1>. USE DEF LoginInv
<1>0. PlaceInv'
  BY NextPlaceInv
<1>. SUFFICES LoginTypes' /\ Pinned' /\ NewJobIsFree'
  BY <1>0
<1>1. ASSUME UNCHANGED loginVars, Migrating(Me)' => Migrating(Me), phase' = "none" => phase = "none"
      PROVE  LoginTypes' /\ Pinned' /\ NewJobIsFree'
  BY <1>1 DEF loginVars, LoginTypes, Pinned, NewJobIsFree, Migrating
<1>2. CASE UNCHANGED vars
  BY <1>1, <1>2 DEF vars, Migrating
<1>3. CASE \/ RecordSnapshot \/ PostSnapshot \/ AwaitSnapshot \/ RecordObject \/ PostExport \/ AwaitExport
           \/ NextDisk \/ OpenDevice \/ ReadSize \/ MeetFailure \/ Copied
           \/ DeleteObject \/ ToSnapshots \/ DeleteSnapshot \/ ReleaseBreaks \/ EndRelease \/ Inspect
           \/ (\E w \in Workers : WorkerStep(w)) \/ (\E i \in Disks : ExportEnds(i))
           \/ (\E op \in {"inspect", "cancel"}, s \in Sessions \cup {NoSession} : Ask(op, s))
           \/ CancelRunning
  <2>1. /\ UNCHANGED <<loginVars, phase>>
        /\ pc' = pc \/ pc \notin {"idle", "teardown"}
    BY <1>3 DEF RecordSnapshot, PostSnapshot, AwaitSnapshot, RecordObject, PostExport, AwaitExport, NextDisk,
                OpenDevice, ReadSize, MeetFailure, Copied, DeleteObject, ToSnapshots, DeleteSnapshot, ReleaseBreaks,
                EndRelease, Inspect, WorkerStep, ExportEnds, Ask, CancelRunning
  <2>. QED
    BY <1>1, <2>1 DEF Migrating
<1>4. CASE CheckSource \/ Teardown \/ SaveReleased
  <2>1. CASE CheckSource
    BY <1>1, <2>1 DEF CheckSource, PlaceInv, Places, Migrating
  <2>2. CASE Teardown /\ UNCHANGED loginVars
    BY <1>1, <2>2 DEF Teardown, Migrating
  <2>3. CASE SaveReleased
    <3>1. pc = "released" /\ UNCHANGED loginVars
      BY <2>3 DEF SaveReleased
    <3>2. phase' \in {"CANCELLED", "COPIED", "FAILED"} \/ (phase = "EXPORTING" /\ phase' = phase)
      BY <2>3, <3>1, SaveReleasedDoes DEF PlaceInv, Places, Inside, Labels, Goto
    <3>. QED
      BY <1>1, <3>1, <3>2 DEF Migrating
  <2>. QED
    BY <1>4, <2>1, <2>2, <2>3 DEF Teardown
<1>5. CASE Finish
  BY <1>5, GcpAssumption, PutBackKeeps DEF Finish, PlaceInv, Places, Goto, Migrating
<1>6. CASE Submit
  <2>1. request.s = Mine /\ phase = "none" /\ Pin(Me, request.s) /\ phase' = "QUEUED"
    BY <1>6 DEF Submit, PlaceInv, Places
  <2>. QED
    BY <2>1, GcpAssumption, PinKeeps DEF Migrating, NewJobIsFree
<1>7. CASE CancelAsks \/ CancelPuts \/ CancelTeardown
  <2>1. CASE UNCHANGED <<loginVars, pc, phase>>
    BY <1>1, <2>1 DEF Migrating
  <2>2. CASE pc' \in {"idle", "teardown"} /\ phase' = doc.phase /\ request.op \in {"cancel", "put"}
    <3>1. phase' # "none" /\ ~Migrating(Me)'
      BY <2>2 DEF PlaceInv, Places, Migrating
    <3>2. CASE UNCHANGED loginVars
      BY <1>1, <3>1, <3>2
    <3>3. CASE request.s \in Sessions /\ Pin(Me, request.s)
      BY <3>1, <3>3, GcpAssumption, PinKeeps DEF Migrating
    <3>. QED
      BY <1>7, <3>2, <3>3, CancelDoes
  <2>. QED
    BY <1>7, <2>1, <2>2, CancelDoes
<1>8. CASE Crash
  <2>1. /\ listed' = {} /\ closed' = {} /\ leaving' = {} /\ phase' # "none"
        /\ pins' = [s \in Sessions |-> {}] /\ held' = [j \in Jobs |-> NoSession]
    BY <1>8, PutLeaves DEF Crash, Forget
  <2>. QED
    BY <2>1, LoginsAssumption DEF LoginTypes, Pinned, NewJobIsFree
<1>9. ASSUME NEW s \in Sessions, LogIn(s) \/ LogOut(s)
      PROVE  LoginTypes' /\ Pinned' /\ NewJobIsFree'
  <2>1. /\ UNCHANGED <<pins, held, leaving, phase, pc>>
        /\ listed' \subseteq listed \cup {s} /\ closed' \subseteq closed \cup {s}
    BY <1>9 DEF LogIn, LogOut, Login, Kill, elsewhere
  <2>. QED
    BY <2>1 DEF LoginTypes, Pinned, NewJobIsFree, Migrating
<1>10. ASSUME NEW j \in Jobs, NEW s \in Sessions, OtherStarts(j, s)
       PROVE  LoginTypes' /\ Pinned' /\ NewJobIsFree'
  <2>1. /\ j # Me /\ Pin(j, s) /\ UNCHANGED <<phase, pc>> /\ \A u \in Sessions : <<j, u>> \notin leaving
    BY <1>10 DEF OtherStarts, elsewhere
  <2>2. LoginTypes' /\ Pinned'
    <3>1. CASE phase = "none"
      <4>1. /\ held' = [held EXCEPT ![j] = s] /\ pins' = [pins EXCEPT ![s] = @ \cup {j}]
            /\ UNCHANGED <<listed, closed, leaving>>
        BY <2>1 DEF Pin
      <4>. QED
        BY <2>1, <4>1 DEF LoginTypes, Pinned, Migrating
    <3>2. CASE phase # "none"
      BY <2>1, <3>2, PinKeeps DEF Migrating
    <3>. QED
      BY <3>1, <3>2
  <2>3. NewJobIsFree'
    BY <2>1 DEF Pin, LoginTypes, NewJobIsFree
  <2>. QED
    BY <2>2, <2>3
<1>11. ASSUME NEW j \in Jobs, OtherEnds(j)
       PROVE  LoginTypes' /\ Pinned' /\ NewJobIsFree'
  BY <1>11, PutBackKeeps DEF OtherEnds, elsewhere, Migrating
<1>12. ASSUME NEW j \in Jobs, NEW s \in Sessions, GiveBack(j, s)
       PROVE  LoginTypes' /\ Pinned' /\ NewJobIsFree'
  <2>1. /\ <<j, s>> \in leaving /\ leaving' = leaving \ {<<j, s>>} /\ pins' = [pins EXCEPT ![s] = @ \ {j}]
        /\ closed' \subseteq closed \cup {s} /\ UNCHANGED <<listed, held, phase, pc>>
    BY <1>12 DEF GiveBack, Unpin, elsewhere
  <2>2. Migrating(j) => held[j] \notin Sessions
    BY <2>1 DEF Pinned
  <2>3. LoginTypes' /\ NewJobIsFree'
    BY <2>1 DEF LoginTypes, NewJobIsFree
  <2>4. Pinned'
    BY <2>1, <2>2 DEF Pinned, LoginTypes, Migrating
  <2>. QED
    BY <2>3, <2>4
<1>. QED
  BY <1>2, <1>3, <1>4, <1>5, <1>6, <1>7, <1>8, <1>9, <1>10, <1>11, <1>12 DEF Next, TaskStep, HandlerStep

LEMMA AlwaysLoginInv == Spec => []LoginInv
BY InitLoginInv, NextLoginInv, PTL DEF Spec

\* No step but a restart closes a login that a queued or exporting run has, or any other job of the user: not
\* logout, not the idle sweep, and not the last of the other jobs that share it (sessions.py).
THEOREM LoginIsKept == Spec => ExportKeepsLogin
<1>1. LoginInv /\ [Next]_vars =>
        [crashes' = crashes => \A s \in closed' \ closed : ~\E j \in Jobs : held[j] = s /\ Migrating(j)]_vars
  <2>1. SUFFICES ASSUME LoginInv, Next, crashes' = crashes, NEW s \in closed' \ closed, NEW k \in Jobs,
                        held[k] = s, Migrating(k)
                 PROVE  FALSE
    OBVIOUS
  <2>. USE <2>1
  <2>2. ~Crash
    BY DEF Crash, Forget
  <2>3. CASE \E u \in Sessions : LogOut(u)
    <3>1. PICK u \in Sessions : LogOut(u)
      BY <2>3
    <3>2. s = u /\ pins[u] = {}
      BY <3>1 DEF LogOut, Kill
    <3>. QED
      BY <3>2 DEF LoginInv, Pinned
  <2>4. CASE \E j \in Jobs, u \in Sessions : GiveBack(j, u)
    <3>1. PICK j \in Jobs, u \in Sessions : GiveBack(j, u)
      BY <2>4
    <3>2. s = u /\ <<j, u>> \in leaving /\ pins'[u] = {} /\ pins' = [pins EXCEPT ![u] = @ \ {j}]
      BY <3>1 DEF GiveBack, Unpin
    <3>3. k \in pins[u] /\ k # j
      BY <3>2 DEF LoginInv, Pinned
    <3>. QED
      BY <3>2, <3>3 DEF LoginInv, LoginTypes
  <2>5. CASE closed' = closed
    BY <2>5
  <2>6. closed' = closed \/ (\E u \in Sessions : LogOut(u)) \/ (\E j \in Jobs, u \in Sessions : GiveBack(j, u))
    <3>1. CASE TaskStep
      BY <3>1 DEF TaskStep, loginVars, PutBack, CheckSource, RecordSnapshot, PostSnapshot, AwaitSnapshot, RecordObject,
                  PostExport, AwaitExport, NextDisk, OpenDevice, ReadSize, MeetFailure, Copied,
                  DeleteObject, ToSnapshots,
                  DeleteSnapshot, ReleaseBreaks, EndRelease, SaveReleased, Teardown, Finish
    <3>2. CASE HandlerStep
      BY <3>2 DEF HandlerStep, Inspect, Submit, CancelAsks, CancelPuts, CancelTeardown, Pin, loginVars
    <3>3. CASE \/ \E w \in Workers : WorkerStep(w)
               \/ \E op \in {"inspect", "cancel"}, u \in Sessions \cup {NoSession} : Ask(op, u)
               \/ \E i \in Disks : ExportEnds(i)
               \/ CancelRunning
      BY <3>3 DEF WorkerStep, Ask, ExportEnds, CancelRunning, loginVars
    <3>4. CASE \/ \E u \in Sessions : LogIn(u)
               \/ \E j \in Jobs, u \in Sessions : OtherStarts(j, u)
               \/ \E j \in Jobs : OtherEnds(j)
      BY <3>4 DEF LogIn, Login, OtherStarts, Pin, OtherEnds, PutBack
    <3>. QED
      BY <2>2, <3>1, <3>2, <3>3, <3>4 DEF Next
  <2>. QED
    BY <2>3, <2>4, <2>5, <2>6
<1>. QED
  BY <1>1, AlwaysLoginInv, PTL DEF Spec, ExportKeepsLogin

-----------------------------------------------------------------------------
(* The copy of an object                                                    *)

\* Division, as far as the provers need it.
LEMMA DivisionBounds ==
  ASSUME NEW a \in Nat, NEW c \in Nat \ {0}
  PROVE  a \div c \in Nat /\ c * (a \div c) <= a /\ a < c * (a \div c) + c
BY Z3

\* The ranges of an object tile it.
LEMMA RangesTile ==
  ASSUME NEW total \in Nat \ {0}, NEW chunk \in Nat \ {0}
  PROVE  /\ \A n \in DOMAIN Ranges(total, chunk) : Ranges(total, chunk)[n] \subseteq 0..(total - 1)
         /\ \A x \in 0..(total - 1) : \E n \in DOMAIN Ranges(total, chunk) : x \in Ranges(total, chunk)[n]
         /\ Ranges(total, chunk) \in Seq(SUBSET Nat)
<1>. DEFINE k == (total + chunk - 1) \div chunk
<1>1. k \in Nat /\ chunk * k <= total + chunk - 1 /\ total + chunk - 1 < chunk * k + chunk
  BY DivisionBounds
<1>2. Ranges(total, chunk) = [n \in 1..k |-> ((n - 1) * chunk)..(Smallest(n * chunk, total) - 1)]
  BY DEF Ranges
<1>. HIDE DEF k
<1>3. ASSUME NEW n \in 1..k
      PROVE  /\ (n - 1) * chunk \in Nat /\ n * chunk \in Nat
             /\ Ranges(total, chunk)[n] = ((n - 1) * chunk)..(Smallest(n * chunk, total) - 1)
             /\ Ranges(total, chunk)[n] \subseteq 0..(total - 1)
  <2>1. (n - 1) * chunk \in Nat /\ n * chunk \in Nat
    BY <1>1
  <2>2. Ranges(total, chunk)[n] = ((n - 1) * chunk)..(Smallest(n * chunk, total) - 1)
    BY <1>2
  <2>. QED
    BY <2>1, <2>2 DEF Smallest
<1>4. ASSUME NEW x \in 0..(total - 1)
      PROVE  \E n \in 1..k : x \in Ranges(total, chunk)[n]
  <2>. DEFINE q == x \div chunk
  <2>1. q \in Nat /\ chunk * q <= x /\ x < chunk * q + chunk
    BY <1>4, DivisionBounds
  <2>. HIDE DEF q
  <2>2. q + 1 \in 1..k
    <3>1. chunk * q < chunk * k
      BY <1>1, <2>1
    <3>2. q < k
      BY <1>1, <2>1, <3>1
    <3>. QED
      BY <1>1, <2>1, <3>2
  <2>3. (q + 1) * chunk = chunk * q + chunk /\ (q + 1 - 1) * chunk = chunk * q
    BY <2>1
  <2>4. x \in Ranges(total, chunk)[q + 1]
    BY <1>3, <2>1, <2>2, <2>3 DEF Smallest
  <2>. QED
    BY <2>2, <2>4
<1>5. Ranges(total, chunk) \in Seq(SUBSET Nat)
  <2>1. \A n \in 1..k : Ranges(total, chunk)[n] \in SUBSET Nat
    BY <1>3
  <2>2. Ranges(total, chunk) \in [1..k -> SUBSET Nat]
    BY <1>2, <2>1
  <2>. QED
    BY <1>1, <2>2, SeqDef
<1>. QED
  BY <1>2, <1>3, <1>4, <1>5

LEMMA InitCopyInv == Init => CopyInv
<1>. SUFFICES ASSUME Init PROVE CopyInv
  OBVIOUS
<1>1. CopyTypes
  BY DEF Init, CopyInit, CopyTypes
<1>2. AtRest /\ Accounts
  BY DEF Init, CopyInit, AtRest, Accounts
<1>. QED
  BY <1>1, <1>2, InitPlaceInv DEF CopyInv

LEMMA OpenCopies ==
  ASSUME CopyInv, pc # "copy", Open(Ranges(Size, ChunkBytes)), pc' = "copy"
  PROVE  CopyTypes' /\ AtRest' /\ Accounts'
<1>. DEFINE R == Ranges(Size, ChunkBytes)
<1>1. queue' = R /\ failures' = {} /\ doing' = doing
  BY DEF Open
<1>2. /\ \A n \in DOMAIN R : R[n] \in Pieces
      /\ \A x \in Whole : \E n \in DOMAIN R : x \in R[n]
      /\ R \in Seq(SUBSET Nat)
  BY RangesTile, GcpAssumption DEF Pieces, Whole
<1>. HIDE DEF R
<1>3. R \in Seq(Pieces)
  <2>1. PICK m \in Nat : R \in [1..m -> SUBSET Nat]
    BY <1>2, SeqDef
  <2>2. R \in [1..m -> Pieces]
    BY <1>2, <2>1
  <2>. QED
    BY <2>2, SeqDef
<1>. QED
  BY <1>1, <1>2, <1>3 DEF CopyInv, CopyTypes, AtRest, Accounts

\* A range goes from the queue to a thread and from the thread to the disk, or its future fails.
LEMMA WorkerCopies ==
  ASSUME CopyInv, NEW w \in Workers, WorkerStep(w)
  PROVE  CopyTypes' /\ AtRest' /\ Accounts'
<1>0. /\ pc = "copy" /\ pc' = pc /\ queue \in Seq(Pieces) /\ doing \in [Workers -> Pieces \cup {NoRange}]
      /\ \A r \in Pieces : r # NoRange /\ r \in SUBSET Whole
  BY DEF WorkerStep, CopyInv, CopyTypes, Pieces
<1>1. CASE TakeRange(w, cancel)
  <2>1. /\ queue # <<>> /\ queue' = Tail(queue) /\ Head(queue) \in Pieces /\ Tail(queue) \in Seq(Pieces)
        /\ Head(queue) = queue[1] /\ doing[w] = NoRange /\ UNCHANGED <<written, spoilt>>
    BY <1>0, <1>1 DEF TakeRange
  <2>2. CASE cancel
    <3>1. failures' # {} /\ doing' = doing
      BY <1>1, <2>2 DEF TakeRange
    <3>. QED
      BY <1>0, <2>1, <3>1 DEF CopyInv, CopyTypes, AtRest, Accounts
  <2>3. CASE ~cancel
    <3>1. doing' = [doing EXCEPT ![w] = queue[1]] /\ failures' = failures
      BY <1>1, <2>1, <2>3 DEF TakeRange
    <3>2. \A n \in DOMAIN queue : n = 1 \/ (n - 1 \in DOMAIN queue' /\ queue'[n - 1] = queue[n])
      BY <1>0, <2>1
    <3>3. CopyTypes' /\ AtRest'
      BY <1>0, <2>1, <3>1 DEF CopyInv, CopyTypes, AtRest
    <3>4. ASSUME failures = {}, NEW x \in Whole
          PROVE  \/ x \in written' \cup spoilt'
                 \/ \E v \in Workers : doing'[v] # NoRange /\ x \in doing'[v]
                 \/ \E n \in DOMAIN queue' : x \in queue'[n]
      <4>1. CASE x \in written \cup spoilt
        BY <2>1, <4>1
      <4>2. CASE \E v \in Workers : doing[v] # NoRange /\ x \in doing[v]
        BY <1>0, <2>1, <3>1, <4>2
      <4>3. CASE \E n \in DOMAIN queue : x \in queue[n]
        BY <1>0, <2>1, <3>1, <3>2, <4>3
      <4>. QED
        BY <1>0, <3>4, <4>1, <4>2, <4>3 DEF CopyInv, Accounts
    <3>. QED
      BY <3>1, <3>3, <3>4 DEF Accounts
  <2>. QED
    BY <2>2, <2>3
<1>2. ASSUME NEW odd \in BOOLEAN, Transfer(w, Size, odd)
      PROVE  CopyTypes' /\ AtRest' /\ Accounts'
  <2>1. /\ doing[w] \in Pieces /\ doing' = [doing EXCEPT ![w] = NoRange] /\ UNCHANGED <<queue, failures>>
        /\ written \cup spoilt \cup doing[w] \subseteq written' \cup spoilt'
    BY <1>0, <1>2 DEF Transfer
  <2>2. CopyTypes' /\ AtRest'
    BY <1>0, <2>1 DEF CopyInv, CopyTypes, AtRest
  <2>3. Accounts'
    BY <1>0, <2>1 DEF CopyInv, Accounts
  <2>. QED
    BY <2>2, <2>3
<1>3. ASSUME NEW kind, NEW odd \in BOOLEAN, TransferFails(w, kind, Size, odd)
      PROVE  CopyTypes' /\ AtRest' /\ Accounts'
  <2>1. /\ queue' = queue /\ written \cup spoilt \subseteq written' \cup spoilt'
        /\ \/ UNCHANGED <<doing, failures>>
           \/ doing' = [doing EXCEPT ![w] = NoRange] /\ failures' # {}
    BY <1>3 DEF TransferFails
  <2>. QED
    BY <1>0, <2>1 DEF CopyInv, CopyTypes, AtRest, Accounts
<1>4. \/ TakeRange(w, cancel)
      \/ \E odd \in BOOLEAN : Transfer(w, Size, odd)
      \/ \E odd \in BOOLEAN, kind \in {"closed", "error"} : TransferFails(w, kind, Size, odd)
  <2>1. ("answers" \in events) \in BOOLEAN
    OBVIOUS
  <2>. QED
    BY <2>1 DEF WorkerStep
<1>. QED
  BY <1>1, <1>2, <1>3, <1>4

LEMMA NextCopyInv == CopyInv /\ [Next]_vars => CopyInv'
<1>. SUFFICES ASSUME CopyInv, [Next]_vars PROVE CopyInv'
  OBVIOUS
<1>. USE DEF Goto, Exit
<1>0. PlaceInv' /\ PlaceInv
  BY NextPlaceInv DEF CopyInv
<1>. SUFFICES CopyTypes' /\ AtRest' /\ Accounts'
  BY <1>0 DEF CopyInv
<1>1. ASSUME UNCHANGED copyVars, pc # "copy", pc' # "copy"
      PROVE  CopyTypes' /\ AtRest' /\ Accounts'
  BY <1>1 DEF CopyInv, copyVars, CopyTypes, AtRest, Accounts
<1>2. ASSUME UNCHANGED <<copyVars, pc>>
      PROVE  CopyTypes' /\ AtRest' /\ Accounts'
  BY <1>2 DEF CopyInv, copyVars, CopyTypes, AtRest, Accounts
<1>3. ASSUME Stop, pc' # "copy"
      PROVE  CopyTypes' /\ AtRest' /\ Accounts'
  BY <1>3 DEF Stop, CopyTypes, AtRest, Accounts
<1>4. CASE UNCHANGED vars
  BY <1>2, <1>4 DEF vars
<1>5. CASE CheckSource \/ RecordSnapshot \/ PostSnapshot \/ AwaitSnapshot \/ RecordObject \/ PostExport \/ AwaitExport
  BY <1>1, <1>5 DEF CheckSource, RecordSnapshot, PostSnapshot, AwaitSnapshot, RecordObject, PostExport, AwaitExport
<1>6. CASE NextDisk \/ OpenDevice \/ ToSnapshots \/ ReleaseBreaks \/ EndRelease \/ Teardown \/ Finish
  BY <1>1, <1>6 DEF NextDisk, OpenDevice, ToSnapshots, ReleaseBreaks, EndRelease, Teardown, Finish
<1>7. CASE DeleteObject \/ DeleteSnapshot
  BY <1>2, <1>7 DEF DeleteObject, DeleteSnapshot
<1>8. CASE SaveReleased
  <2>1. pc = "released" /\ UNCHANGED copyVars
    BY <1>8 DEF SaveReleased
  <2>2. pc' \in {"finish", "teardown"}
    BY <1>0, <1>8, <2>1, SaveReleasedDoes DEF PlaceInv, Places, Inside, Labels
  <2>. QED
    BY <1>1, <2>1, <2>2
<1>9. CASE ReadSize
  BY <1>1, <1>9, OpenCopies DEF ReadSize, AttemptFails
<1>10. CASE MeetFailure
  BY <1>10 DEF MeetFailure, Meet, CopyInv, CopyTypes, AtRest, Accounts
<1>11. CASE Copied
  <2>1. Stop /\ pc' # "copy"
    BY <1>11, CopiedDoes DEF Leave
  <2>. QED
    BY <1>3, <2>1
<1>12. CASE Crash
  BY <1>3, <1>12 DEF Crash
<1>13. CASE Inspect \/ Submit \/ CancelAsks \/ CancelPuts \/ CancelTeardown
  <2>1. UNCHANGED copyVars /\ (UNCHANGED pc \/ (pc # "copy" /\ pc' # "copy"))
    BY <1>13, <1>0, CancelDoes DEF Inspect, Submit, PlaceInv, Places, Inside, Labels
  <2>. QED
    BY <1>1, <1>2, <2>1
<1>14. CASE \E w \in Workers : WorkerStep(w)
  BY <1>14, WorkerCopies
<1>15. CASE \/ \E op \in {"inspect", "cancel"}, s \in Sessions \cup {NoSession} : Ask(op, s)
            \/ \E s \in Sessions : LogIn(s) \/ LogOut(s)
            \/ \E j \in Jobs, s \in Sessions : OtherStarts(j, s) \/ GiveBack(j, s)
            \/ \E j \in Jobs : OtherEnds(j)
            \/ \E i \in Disks : ExportEnds(i)
            \/ CancelRunning
  BY <1>2, <1>15 DEF Ask, CancelRunning, LogIn, LogOut, OtherStarts, GiveBack, OtherEnds, ExportEnds, elsewhere
<1>. QED
  BY <1>4, <1>5, <1>6, <1>7, <1>8, <1>9, <1>10, <1>11, <1>12, <1>13, <1>14, <1>15 DEF Next, TaskStep, HandlerStep

LEMMA AlwaysCopyInv == Spec => []CopyInv
BY InitCopyInv, NextCopyInv, PTL DEF Spec

\* A disk becomes COPIED only when every byte of its object was read and written, but for those an answer of another
\* length left out or overwrote, whatever the size of the disk and of the ranges, however many threads copy and
\* whichever futures fail (copy_sequential, as_completed).
THEOREM WholeDiskIsCopied == Spec => CopiedIsComplete
<1>1. CopyInv /\ [Next]_vars => [copied' # copied => 0..(Size - 1) \subseteq written \cup spoilt]_vars
  <2>1. SUFFICES ASSUME CopyInv, Next, copied' # copied
                 PROVE  Whole \subseteq written \cup spoilt
    BY DEF Whole
  <2>2. Copied
    BY <2>1 DEF Next, TaskStep, HandlerStep, progress, CheckSource, RecordSnapshot, PostSnapshot, AwaitSnapshot,
                RecordObject, PostExport, AwaitExport, NextDisk, OpenDevice, ReadSize, MeetFailure, DeleteObject,
                ToSnapshots, DeleteSnapshot, ReleaseBreaks, EndRelease, SaveReleased, Teardown, Finish, Inspect,
                Submit, CancelAsks, CancelPuts, CancelTeardown, CancelRunning, Crash, WorkerStep, Ask, LogIn, LogOut, OtherStarts, GiveBack, OtherEnds, ExportEnds,
                elsewhere
  <2>3. pc = "copy" /\ failure = "none" /\ Leave
    BY <2>1, <2>2, CopiedDoes
  <2>4. failures = {} /\ queue = <<>> /\ \A w \in Workers : doing[w] = NoRange
    BY <2>3 DEF Leave
  <2>. QED
    BY <2>1, <2>3, <2>4 DEF CopyInv, Accounts
<1>. QED
  BY <1>1, AlwaysCopyInv, PTL DEF Spec, CopiedIsComplete
================================================================================
