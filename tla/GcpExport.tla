------------------------------- MODULE GcpExport -------------------------------
(***************************************************************************)
(* The export of a Google Cloud VM's disks, from the request to the last    *)
(* cleanup: the request that gets a login, looks at the VM and submits the  *)
(* job (api/routes_jobs.py), the context manager that snapshots the disks   *)
(* and lets GCP export the snapshots to a bucket (gcp/export.py), the       *)
(* operations it waits for (gcp/client.py), the copy of each object with    *)
(* its attempts, and the release of what is left when the job is cancelled  *)
(* now or later (jobs/runner.py).  Logins supplies the sessions the job     *)
(* shares with others, GcsCopy the thread pool that copies an object.       *)
(*                                                                          *)
(* GCP is external: an operation goes on when nobody waits for it.  A       *)
(* request to cancel reads the record, asks whether the job runs and puts   *)
(* the document it read back: the thread may have saved another in between. *)
(***************************************************************************)
EXTENDS Logins, GcsCopy

CONSTANTS
  Me,          \* the job; the others of Jobs only use logins
  Mine,        \* the login it is created with
  N,           \* disks of the VM
  Size,        \* bytes of a disk, and of the object its export makes
  ChunkBytes,  \* gcp_range_chunk_bytes
  MaxAttempts, \* disk_retry_attempts
  EventSets,   \* which of "cancel", "late", "logout", "others", "restart" and "answers" may happen together
  MaxCrashes   \* bound on restarts of the helper

ASSUME GcpAssumption ==
  /\ Me \in Jobs /\ Mine \in Sessions /\ N \in Nat \ {0} /\ MaxAttempts \in Nat \ {0} /\ MaxCrashes \in Nat
  /\ Size \in Nat \ {0} /\ ChunkBytes \in Nat \ {0}
  /\ \A n \in DOMAIN Ranges(Size, ChunkBytes) : Ranges(Size, ChunkBytes)[n] # NoRange

Disks == 1..N

VARIABLES
  events,    \* what may happen around the task in this behaviour
  request,   \* the handler at work: what it is about to do, with which session
  doc,       \* the document that the cancel request under way has read
  putBack,   \* history: a request put a document back over a later one
  pc,        \* where the job's thread is
  idx,       \* the disk it works on
  attempt,   \* the attempt to copy that disk
  raised,    \* how the `with export` block is left
  todo,      \* recorded names the release loop has still to look at
  copied,    \* disks that are COPIED
  phase,     \* the phase in the job record
  info,      \* snapshot_names and gcs_objects of the thread's document
  stored,    \* the same fields as saved
  snaps,     \* GCP: the snapshots that exist
  exporting, \* GCP: the disks whose export operation is under way
  objects,   \* GCP: the objects that exist
  missed,    \* objects that were not there when they were deleted, but on their way
  cancel,    \* the job is in _cancel_requested
  kept,      \* a release failed, or was not possible, in the last task of the job
  crashes    \* restarts so far (bounds the model)

progress == <<idx, attempt, raised, copied>>
record   == <<info, stored>>
gcp      == <<snaps, exporting, objects, missed>>
asking   == <<request, doc, putBack>>
outside  == <<events, asking, crashes>>
vars     == <<loginVars, copyVars, progress, record, gcp, outside, pc, todo, phase, cancel, kept>>

Empty      == [snaps |-> {}, objs |-> {}]
Nothing    == [op |-> "none", s |-> NoSession]
NoDocument == [snaps |-> {}, objs |-> {}, phase |-> "none"]

Least(S) == CHOOSE i \in S : \A k \in S : i <= k

Goto(l) == pc' = l

\* Leave the `with export` block by exception e, or normally: close() releases what is recorded.
Exit(e) == raised' = e /\ todo' = info.objs /\ Goto("objects")

-----------------------------------------------------------------------------
(* The handlers: one request for the job at a time                          *)

\* require_vcenter_session and require_session look the session up before the handler runs; a cancel may
\* also come from a user without a cloud login.  A cancel begins by reading the record.
Ask(op, s) ==
  /\ request = Nothing /\ (s \in Sessions => Usable(s)) /\ (s \in Sessions \ {Mine} => "others" \in events)
  /\ CASE op = "inspect" -> phase = "none" /\ s = Mine /\ UNCHANGED doc
       [] op = "cancel"  -> /\ "late" \in events \/ ("cancel" \in events /\ pc = "idle")
                            /\ phase \notin {"none", "COPIED", "CANCELLED"}
                            /\ doc' = [snaps |-> stored.snaps, objs |-> stored.objs, phase |-> phase]
  /\ request' = [op |-> op, s |-> s]
  /\ UNCHANGED <<loginVars, copyVars, progress, record, gcp, events, putBack, crashes, pc, todo, phase, cancel, kept>>

\* create_job awaits the inspection of the VM, which needs the connection ...
Inspect ==
  /\ request.op = "inspect"
  /\ \/ request.s \notin closed /\ request' = [request EXCEPT !.op = "submit"]
     \/ request' = Nothing
  /\ UNCHANGED <<loginVars, copyVars, progress, record, gcp, events, doc, putBack, crashes, pc, todo, phase, cancel,
                 kept>>

\* ... and submits the job with the session it was given.
Submit ==
  /\ request.op = "submit"
  /\ Pin(Me, request.s)
  /\ phase' = "QUEUED" /\ Goto("start") /\ request' = Nothing
  /\ UNCHANGED <<copyVars, progress, record, gcp, events, doc, putBack, crashes, todo, cancel, kept>>

\* cancel_job for a running job, over before the thread saves its document again over what it put.
CancelRunning ==
  /\ "cancel" \in events /\ pc # "idle" /\ request = Nothing /\ ~cancel /\ cancel' = TRUE
  /\ UNCHANGED <<loginVars, copyVars, progress, record, gcp, outside, pc, todo, phase, kept>>

\* One that is under way while the thread goes on finds the job running and asks it to cancel; the user's login is of no more use ...
CancelAsks ==
  /\ request.op = "cancel" /\ pc # "idle" /\ cancel' = TRUE
  /\ request' = [op |-> "put", s |-> NoSession]
  /\ UNCHANGED <<loginVars, copyVars, progress, record, gcp, events, doc, putBack, crashes, pc, todo, phase, kept>>

\* The job has ended for good since, or other resources are recorded.
Outdated == phase \in {"COPIED", "CANCELLED"} \/ stored # [snaps |-> doc.snaps, objs |-> doc.objs]

\* The document read replaces the stored one, whatever was saved since; the next task works by it.
PutDocument ==
  /\ stored' = [snaps |-> doc.snaps, objs |-> doc.objs] /\ info' = stored'
  /\ putBack' = (putBack \/ Outdated)

\* ... and puts what it read.  A thread that goes on saves its own document over that; once it has ended, what
\* was put stays.
CancelPuts ==
  /\ request.op = "put" /\ request' = Nothing /\ doc' = NoDocument
  /\ IF pc = "idle" THEN PutDocument /\ phase' = doc.phase ELSE UNCHANGED <<record, phase, putBack>>
  /\ UNCHANGED <<loginVars, copyVars, progress, gcp, events, crashes, pc, todo, cancel, kept>>

\* It finds no thread, any more or from the start: it puts what it read and has that torn down.
CancelTeardown ==
  /\ request.op = "cancel" /\ pc = "idle" /\ request' = Nothing /\ doc' = NoDocument
  /\ PutDocument /\ phase' = doc.phase
  /\ Goto("teardown")
  /\ IF request.s \in Sessions THEN Pin(Me, request.s) ELSE UNCHANGED loginVars
  /\ UNCHANGED <<copyVars, progress, gcp, events, crashes, todo, cancel, kept>>

-----------------------------------------------------------------------------
(* The start of the run                                                     *)

\* A slot, the OCI side, the source VM and its stop: each may fail or meet the cancel flag, and the VM is
\* asked for with the login's connection.
CheckSource ==
  /\ pc = "start"
  /\ \/ cancel /\ Goto("teardown") /\ UNCHANGED phase
     \/ phase' = "FAILED" /\ Goto("finish")
     \/ ~Offline(Me) /\ phase' = "EXPORTING" /\ Goto("snap")
  /\ UNCHANGED <<loginVars, copyVars, progress, record, gcp, outside, todo, cancel, kept>>

-----------------------------------------------------------------------------
(* __enter__: for each disk a snapshot and its export                       *)

\* Mutant of RecordSnapshot: the name is saved with the next save of the job.
RecordSnapshot_Unsaved ==
  /\ pc = "snap"
  /\ IF cancel THEN Exit("cancelled") /\ UNCHANGED record
     ELSE /\ info' = [info EXCEPT !.snaps = @ \cup {idx}]
          /\ Goto("snapPost") /\ UNCHANGED <<raised, todo, stored>>
  /\ UNCHANGED <<loginVars, copyVars, idx, attempt, copied, gcp, outside, phase, cancel, kept>>

\* The name of a snapshot is saved before GCP is asked to make it.
RecordSnapshot ==
  /\ pc = "snap"
  /\ IF cancel THEN Exit("cancelled") /\ UNCHANGED record
     ELSE /\ info' = [info EXCEPT !.snaps = @ \cup {idx}] /\ stored' = info'
          /\ Goto("snapPost") /\ UNCHANGED <<raised, todo>>
  /\ UNCHANGED <<loginVars, copyVars, idx, attempt, copied, gcp, outside, phase, cancel, kept>>

\* GCP refuses the snapshot, accepts it, or accepts it and the answer is lost.
PostSnapshot ==
  /\ pc = "snapPost"
  /\ \/ Exit("failed") /\ UNCHANGED snaps
     \/ ~Offline(Me) /\ snaps' = snaps \cup {idx} /\ Goto("snapWait") /\ UNCHANGED <<raised, todo>>
     \/ ~Offline(Me) /\ snaps' = snaps \cup {idx} /\ Exit("failed")
  /\ UNCHANGED <<loginVars, copyVars, idx, attempt, copied, record, exporting, objects, missed, outside, phase, cancel,
                 kept>>

\* Poll the operation and look at the snapshot; a cancel request, a failure or the deadline ends the wait.
AwaitSnapshot ==
  /\ pc = "snapWait"
  /\ \/ cancel /\ Exit("cancelled")
     \/ Exit("failed")
     \/ ~Offline(Me) /\ Goto("obj") /\ UNCHANGED <<raised, todo>>
  /\ UNCHANGED <<loginVars, copyVars, idx, attempt, copied, record, gcp, outside, phase, cancel, kept>>

\* The name of the object is saved before its export is asked for; no look at the cancel flag.
RecordObject ==
  /\ pc = "obj" /\ Goto("objPost")
  /\ info' = [info EXCEPT !.objs = @ \cup {idx}] /\ stored' = info'
  /\ UNCHANGED <<loginVars, copyVars, progress, gcp, outside, todo, phase, cancel, kept>>

PostExport ==
  /\ pc = "objPost"
  /\ \/ Exit("failed") /\ UNCHANGED exporting
     \/ ~Offline(Me) /\ exporting' = exporting \cup {idx} /\ Goto("objWait") /\ UNCHANGED <<raised, todo>>
     \/ ~Offline(Me) /\ exporting' = exporting \cup {idx} /\ Exit("failed")
  /\ UNCHANGED <<loginVars, copyVars, idx, attempt, copied, record, snaps, objects, missed, outside, phase,
                 cancel, kept>>

\* The wait for an export ends when the operation does, well or in an error, or before.
AwaitExport ==
  /\ pc = "objWait"
  /\ \/ cancel /\ Exit("cancelled") /\ UNCHANGED idx
     \/ Exit("failed") /\ UNCHANGED idx
     \/ /\ ~Offline(Me) /\ idx \in objects
        /\ IF idx < N THEN Goto("snap") /\ idx' = idx + 1 ELSE Goto("disk") /\ idx' = 1
        /\ UNCHANGED <<raised, todo>>
  /\ UNCHANGED <<loginVars, copyVars, attempt, copied, record, gcp, outside, phase, cancel, kept>>

-----------------------------------------------------------------------------
(* The copy of the disks, one after the other                               *)

\* An attempt to copy the disk failed: the next one, or the end.
AttemptFails ==
  IF attempt < MaxAttempts
    THEN attempt' = attempt + 1 /\ Goto("attempt") /\ UNCHANGED <<raised, todo>>
    ELSE Exit("failed") /\ UNCHANGED attempt

\* The loop over the disks; after the last one the block is left normally.
NextDisk ==
  /\ pc = "disk"
  /\ \/ idx > N /\ Exit("none") /\ UNCHANGED attempt
     \/ idx <= N /\ cancel /\ Exit("cancelled") /\ UNCHANGED attempt
     \/ idx <= N /\ ~cancel /\ Goto("attempt") /\ attempt' = 1 /\ UNCHANGED <<raised, todo>>
  /\ UNCHANGED <<loginVars, copyVars, idx, copied, record, gcp, outside, phase, cancel, kept>>

\* Open the device of the volume; a device that cannot be opened fails the job without another attempt.
OpenDevice ==
  /\ pc = "attempt"
  /\ \/ cancel /\ Exit("cancelled")
     \/ ~cancel /\ Exit("failed")
     \/ ~cancel /\ Goto("size") /\ UNCHANGED <<raised, todo>>
  /\ UNCHANGED <<loginVars, copyVars, idx, attempt, copied, record, gcp, outside, phase, cancel, kept>>

\* object_size, then copy_sequential on the smaller of the disk's and the object's size, which are the same;
\* a closed client raises what no except clause of the attempt expects.
ReadSize ==
  /\ pc = "size"
  /\ \/ /\ ~Offline(Me) /\ idx \in objects
        /\ Open(Ranges(Size, ChunkBytes)) /\ Goto("copy") /\ UNCHANGED <<attempt, raised, todo>>
     \/ ~Offline(Me) /\ AttemptFails /\ UNCHANGED copyVars
     \/ Offline(Me) /\ Exit("failed") /\ UNCHANGED <<copyVars, attempt>>
  /\ UNCHANGED <<loginVars, idx, copied, record, gcp, outside, phase, cancel, kept>>

\* A step of a thread of the pool.
WorkerStep(w) ==
  /\ pc = "copy"
  /\ \/ TakeRange(w, cancel)
     \/ ~Offline(Me) /\ idx \in objects /\ Transfer(w, Size, "answers" \in events)
     \/ Offline(Me) /\ TransferFails(w, "closed", Size, FALSE)
     \/ ~Offline(Me) /\ TransferFails(w, "error", Size, "answers" \in events /\ idx \in objects)
  /\ UNCHANGED <<loginVars, pc, todo, progress, record, gcp, outside, phase, cancel, kept>>

MeetFailure ==
  /\ pc = "copy" /\ Meet
  /\ UNCHANGED <<loginVars, pc, todo, progress, record, gcp, outside, phase, cancel, kept>>

\* copy_sequential returned or raised: the disk is COPIED, the job cancelled, or the attempt failed.
Copied ==
  /\ pc = "copy" /\ Leave
  /\ CASE failure = "none"      -> /\ copied' = copied \cup {idx} /\ idx' = idx + 1 /\ Goto("disk")
                                   /\ UNCHANGED <<attempt, raised, todo>>
       [] failure = "cancelled" -> Exit("cancelled") /\ UNCHANGED <<copied, idx, attempt>>
       [] failure = "closed"    -> Exit("failed") /\ UNCHANGED <<copied, idx, attempt>>
       [] OTHER                 -> AttemptFails /\ UNCHANGED <<copied, idx>>
  /\ UNCHANGED <<loginVars, record, gcp, outside, phase, cancel, kept>>

-----------------------------------------------------------------------------
(* release_gcp_resources, called by close() and by _release_gcp             *)

\* One recorded object: deleted, not there (404), or left on the record by a failure.
DeleteObject ==
  /\ pc = "objects" /\ todo # {} /\ ~Offline(Me)
  /\ LET i == Least(todo) IN
     /\ todo' = todo \ {i}
     /\ \/ /\ objects' = objects \ {i} /\ info' = [info EXCEPT !.objs = @ \ {i}]
           /\ missed' = IF i \in exporting THEN missed \cup {i} ELSE missed
           /\ UNCHANGED kept
        \/ \E left \in {objects, objects \ {i}} : objects' = left /\ kept' = TRUE /\ UNCHANGED <<info, missed>>
  /\ UNCHANGED <<loginVars, copyVars, pc, progress, stored, snaps, exporting, outside, phase, cancel>>

\* Mutant of ToSnapshots: close() deletes the objects only.
ToSnapshots_None ==
  /\ pc = "objects" /\ todo = {} /\ Goto("snaps")
  /\ UNCHANGED <<loginVars, copyVars, progress, record, gcp, outside, todo, phase, cancel, kept>>

ToSnapshots ==
  /\ pc = "objects" /\ todo = {}
  /\ todo' = info.snaps /\ Goto("snaps")
  /\ UNCHANGED <<loginVars, copyVars, progress, record, gcp, outside, phase, cancel, kept>>

\* One recorded snapshot: likewise; one that is being made or exported may be refused, deleted or both.
DeleteSnapshot ==
  /\ pc = "snaps" /\ todo # {} /\ ~Offline(Me)
  /\ LET i == Least(todo) IN
     /\ todo' = todo \ {i}
     /\ \/ snaps' = snaps \ {i} /\ info' = [info EXCEPT !.snaps = @ \ {i}] /\ UNCHANGED kept
        \/ \E left \in {snaps, snaps \ {i}} : snaps' = left /\ kept' = TRUE /\ UNCHANGED info
  /\ UNCHANGED <<loginVars, copyVars, pc, progress, stored, exporting, objects, missed, outside, phase, cancel>>

\* A closed client raises no GcpError: the loops end here, and so does the run or the cleanup.
ReleaseBreaks ==
  /\ pc \in {"objects", "snaps"} /\ todo # {} /\ Offline(Me)
  /\ todo' = {} /\ kept' = TRUE /\ raised' = "failed" /\ Goto("released")
  /\ UNCHANGED <<loginVars, copyVars, idx, attempt, copied, record, gcp, outside, phase, cancel>>

EndRelease ==
  /\ pc = "snaps" /\ todo = {} /\ Goto("released")
  /\ UNCHANGED <<loginVars, copyVars, progress, record, gcp, outside, todo, phase, cancel, kept>>

\* The record is saved, and the task goes on as the block was left; after _release_gcp it is over.
SaveReleased ==
  /\ pc = "released"
  /\ stored' = info
  /\ CASE phase = "CANCELLED"                         -> Goto("finish") /\ UNCHANGED phase
       [] phase = "EXPORTING" /\ raised = "none"      -> Goto("finish") /\ phase' = "COPIED"
       [] phase = "EXPORTING" /\ raised = "failed"    -> Goto("finish") /\ phase' = "FAILED"
       [] phase = "EXPORTING" /\ raised = "cancelled" -> Goto("teardown") /\ UNCHANGED phase
  /\ UNCHANGED <<loginVars, copyVars, progress, info, gcp, outside, todo, cancel, kept>>

\* prov.cleanup() saves CANCELLED; then _release_gcp, unless nothing is recorded or no login is at hand.
Teardown ==
  /\ pc = "teardown"
  /\ phase' = "CANCELLED"
  /\ IF info # Empty /\ held[Me] # NoSession
       THEN Goto("objects") /\ todo' = info.objs /\ kept' = FALSE
       ELSE Goto("finish") /\ UNCHANGED todo /\ kept' = (info # Empty)
  /\ UNCHANGED <<loginVars, copyVars, progress, record, gcp, outside, cancel>>

\* The first half of _finish: the job has no task any more.
Finish ==
  /\ pc = "finish" /\ Goto("idle")
  /\ PutBack(Me) /\ cancel' = FALSE
  /\ idx' = 1 /\ attempt' = 0 /\ raised' = "none"
  /\ UNCHANGED <<copyVars, copied, record, gcp, outside, todo, phase, kept>>

-----------------------------------------------------------------------------
(* What happens around the task                                             *)

elsewhere == <<copyVars, progress, record, gcp, outside, pc, todo, phase, cancel, kept>>

\* A user logs in; another login than Mine is of use to others only.
LogIn(s) == (s # Mine => "others" \in events) /\ Login(s) /\ UNCHANGED elsewhere

\* A user logs out or the session idles past its TTL; the end of a session that no request and no job has is
\* of no consequence and left out.
LogOut(s) ==
  /\ "logout" \in events /\ (request.s = s \/ pins[s] # {})
  /\ Kill(s) /\ UNCHANGED elsewhere

\* The second half of _finish.
GiveBack(j, s) == Unpin(j, s) /\ UNCHANGED elsewhere

\* Another job of the same user starts and ends.
OtherStarts(j, s) ==
  /\ "others" \in events /\ j # Me /\ Usable(s)
  /\ held[j] = NoSession /\ \A t \in Sessions : <<j, t>> \notin leaving
  /\ Pin(j, s) /\ UNCHANGED elsewhere

OtherEnds(j) == j # Me /\ held[j] # NoSession /\ PutBack(j) /\ UNCHANGED elsewhere

\* An export operation of GCP ends: the object is there, or not.
ExportEnds(i) ==
  /\ i \in exporting /\ exporting' = exporting \ {i}
  /\ objects' \in {objects, objects \cup {i}}
  /\ UNCHANGED <<loginVars, copyVars, progress, record, snaps, missed, outside, pc, todo, phase, cancel, kept>>

\* The helper stops, with the task and the request, and starts again: the record survives, and fail_stale_jobs
\* marks the job as FAILED.  What was not saved is lost, and what the request put last stays.
Crash ==
  /\ "restart" \in events /\ pc # "idle" /\ crashes < MaxCrashes /\ crashes' = crashes + 1
  /\ Forget /\ Stop
  /\ \/ /\ info' = stored /\ UNCHANGED <<stored, putBack>>
        /\ phase' = IF phase = "CANCELLED" THEN "CANCELLED" ELSE "FAILED"
     \/ request.op = "put" /\ PutDocument /\ phase' = "FAILED"
  /\ kept' = (stored' # Empty)
  /\ Goto("idle") /\ todo' = {} /\ request' = Nothing /\ doc' = NoDocument /\ cancel' = FALSE
  /\ idx' = 1 /\ attempt' = 0 /\ raised' = "none"
  /\ UNCHANGED <<events, copied, gcp>>

Init ==
  /\ LoginsInit /\ CopyInit
  /\ events \in EventSets /\ request = Nothing /\ doc = NoDocument /\ putBack = FALSE /\ crashes = 0
  /\ pc = "idle" /\ phase = "none" /\ idx = 1 /\ attempt = 0 /\ raised = "none" /\ todo = {} /\ copied = {}
  /\ info = Empty /\ stored = Empty
  /\ snaps = {} /\ exporting = {} /\ objects = {} /\ missed = {}
  /\ cancel = FALSE /\ kept = FALSE

TaskStep ==
  \/ CheckSource \/ RecordSnapshot \/ PostSnapshot \/ AwaitSnapshot \/ RecordObject \/ PostExport \/ AwaitExport
  \/ NextDisk \/ OpenDevice \/ ReadSize \/ MeetFailure \/ Copied
  \/ DeleteObject \/ ToSnapshots \/ DeleteSnapshot \/ ReleaseBreaks \/ EndRelease \/ SaveReleased
  \/ Teardown \/ Finish

HandlerStep == Inspect \/ Submit \/ CancelAsks \/ CancelPuts \/ CancelTeardown

Next ==
  \/ TaskStep \/ HandlerStep \/ CancelRunning \/ Crash
  \/ \E w \in Workers : WorkerStep(w)
  \/ \E op \in {"inspect", "cancel"}, s \in Sessions \cup {NoSession} : Ask(op, s)
  \/ \E s \in Sessions : LogIn(s) \/ LogOut(s)
  \/ \E j \in Jobs, s \in Sessions : OtherStarts(j, s) \/ GiveBack(j, s)
  \/ \E j \in Jobs : OtherEnds(j)
  \/ \E i \in Disks : ExportEnds(i)

\* The job's thread, the threads of the pool and the handlers run, and every wait for GCP has a deadline;
\* the other jobs end as this one does.
Fairness ==
  /\ WF_vars(TaskStep) /\ WF_vars(HandlerStep)
  /\ \A w \in Workers : WF_vars(WorkerStep(w))
  /\ \A j \in Jobs : WF_vars(OtherEnds(j) \/ \E s \in Sessions : GiveBack(j, s))

Spec == Init /\ [][Next]_vars /\ Fairness
-----------------------------------------------------------------------------
(* Properties                                                               *)

\* _ensure_snapshots_and_exports saves each name before the call: whatever the helper had made in GCP and has
\* not deleted is named by the saved record.  Only an object that was still on its way when it was deleted
\* (404 counts as done) may come without a name, and only a cancel request that puts back the document it read before
\* the thread's last save may take a name off it.
RecordCovers == ~putBack => snaps \subseteq stored.snaps /\ objects \ missed \subseteq stored.objs

\* When a task is over and no release failed, nothing is left in GCP but objects that came after they were
\* deleted: whatever was cancelled, failed, restarted or closed, unless a document that a cancel request put back took
\* something off the record.
ExitReleases == (pc = "idle" /\ ~kept /\ ~putBack) => snaps = {} /\ objects \subseteq missed

\* A disk becomes COPIED only when every byte of it was read from the object and written into its place
\* (copy_sequential), except for what an answer of another length left out or overwrote: nothing else gets lost.
CopiedIsComplete == [][copied' # copied => 0..(Size - 1) \subseteq written \cup spoilt]_vars

\* Another job, or this one as long as it exports and is not torn down.
Migrating(j) == j = Me => pc \notin {"idle", "teardown"} /\ phase \in {"QUEUED", "EXPORTING"}

\* sessions.py, "so a running export never loses its lease": a login is not closed under a run that has pinned
\* it, whoever logs out, however many jobs share it and in whatever order they end.
ExportKeepsLogin ==
  [][crashes' = crashes => \A s \in closed' \ closed : ~\E j \in Jobs : held[j] = s /\ Migrating(j)]_vars

\* "... the underlying connection is only closed once the last pinned job has finished": but it is closed.
DeadLoginsClose == ~(dead \subseteq closed) ~> dead \subseteq closed
================================================================================
