------------------------------ MODULE AzureExport ------------------------------
(***************************************************************************)
(* The export of an Azure VM's disks: the context manager that snapshots    *)
(* disks and grants read SAS URLs on them (azure/export.py), the long       *)
(* running operations it waits for (azure/client.py), the copy of each disk *)
(* with its attempts (jobs/runner.py), the Azure login the job has pinned   *)
(* (sessions.py), and the release of what is left when the job is cancelled *)
(* now or later.  RangeCopy supplies the download threads, PageRanges the   *)
(* chunks they share.                                                       *)
(*                                                                          *)
(* Azure itself is external: an operation takes effect when Azure accepts   *)
(* it, whether or not its answer ever arrives.  A request to cancel reads   *)
(* the record, asks whether the job runs and puts the document it read back:*)
(* the thread may have saved another in between.                            *)
(***************************************************************************)
EXTENDS RangeCopy, PageRanges, FiniteSets

CONSTANTS
  N,           \* disks of the VM
  Modes,       \* the capture modes: "deallocate", "snapshot"
  Listings,    \* what Get Page Ranges may return for a blob
  Limit,       \* disk_bytes: the bytes of the blob before the VHD footer
  ChunkBytes,  \* azure_range_chunk_bytes
  MaxAttempts, \* disk_retry_attempts
  EventSets,   \* which of "cancel", "late", "logout", "age" and "restart" may happen together
  MaxCrashes   \* bound on restarts of the helper

ASSUME AzureAssumption ==
  /\ N \in Nat \ {0} /\ MaxAttempts \in Nat \ {0} /\ MaxCrashes \in Nat
  /\ Modes \subseteq {"deallocate", "snapshot"}
  /\ Limit \in Nat /\ ChunkBytes \in Nat \ {0} /\ Listings \subseteq Seq(Nat \X Nat)
  /\ \A l \in Listings : Split(Merge(l, Limit), ChunkBytes) \in ChunkLists

Disks == 1..N

VARIABLES
  events,   \* what may happen around the task in this behaviour
  mode,     \* info.capture_mode
  pc,       \* where the job's thread is
  idx,      \* the disk it works on
  attempt,  \* the attempt to copy that disk
  raised,   \* how the `with export` block is left
  lro,      \* the access operation under way: ending, posting or awaiting a grant
  todo,     \* recorded resources the release loop has still to look at
  listing,  \* the page list of the disk being copied
  copied,   \* disks that are COPIED
  phase,    \* the phase in the job record
  info,     \* snapshot_ids and sas_granted of the thread's document
  stored,   \* the same fields as saved
  grant,    \* Azure: whose SAS is in force on the source of each disk
  age,      \* how old it is: 0 valid, 1 expires within ten minutes, 2 expired
  noted,    \* the age sas_expires_at implies
  snap,     \* Azure: the snapshots that exist
  cancel,   \* the job is in _cancel_requested
  login,    \* the Azure login in runner._sessions
  pinned,   \* the job is among its pins
  kept,     \* a release failed, or was not possible, in the last task of the job
  request,  \* the cancel request under way: none, it has read the record, it has set the cancel flag
  doc,      \* the document it read
  putBack,  \* history: a request put a document back over a later one
  crashes   \* restarts so far (bounds the model)

progress == <<idx, attempt, raised, listing, copied>>
fixed    == <<events, mode>>
asking   == <<request, doc, putBack>>
outer    == <<crashes, fixed, asking>>
outcome  == <<phase, kept, outer>>
record   == <<info, stored>>
remote   == <<grant, age, noted, snap>>
access   == <<cancel, login, pinned>>
vars     == <<copyVars, fixed, pc, idx, attempt, raised, lro, todo, listing, copied, phase, info, stored,
              grant, age, noted, snap, cancel, login, pinned, kept, request, doc,
              putBack, crashes>>

Empty      == [snaps |-> {}, sas |-> {}]
NoDocument == [snaps |-> {}, sas |-> {}, phase |-> "EXPORTING"]

Least(S) == CHOOSE i \in S : \A k \in S : i <= k

\* The URL the helper holds opens the blob.
Live(i) == grant[i] = "ours" /\ age[i] < 2

Goto(l) == pc' = l

\* Leave the `with export` block by exception e, or normally: close() releases what is recorded.
Exit(e) == raised' = e /\ todo' = info.sas /\ Goto("revoke")

-----------------------------------------------------------------------------
(* __enter__: snapshots                                                     *)

\* Mutant of RecordSnapshot: the id is put on the record, but saved only later.
RecordSnapshot_Unsaved ==
  /\ pc = "snap"
  /\ \/ cancel /\ Exit("cancelled") /\ UNCHANGED record
     \/ ~cancel /\ Exit("failed") /\ UNCHANGED record
     \/ /\ ~cancel /\ Goto("snapPut")
        /\ info' = [info EXCEPT !.snaps = @ \cup {idx}]
        /\ UNCHANGED <<raised, todo, stored>>
  /\ UNCHANGED <<copyVars, idx, attempt, listing, copied, lro, outcome, remote, access>>

\* The id of a snapshot is recorded and saved before Azure is asked to create it.
RecordSnapshot ==
  /\ pc = "snap"
  /\ \/ cancel /\ Exit("cancelled") /\ UNCHANGED record
     \/ ~cancel /\ Exit("failed") /\ UNCHANGED record
     \/ /\ ~cancel /\ Goto("snapPut")
        /\ info' = [info EXCEPT !.snaps = @ \cup {idx}]
        /\ stored' = info'
        /\ UNCHANGED <<raised, todo>>
  /\ UNCHANGED <<copyVars, idx, attempt, listing, copied, lro, outcome, remote, access>>

\* Azure refuses the snapshot, accepts it, or accepts it and the answer is lost.
PutSnapshot ==
  /\ pc = "snapPut"
  /\ \/ Exit("failed") /\ UNCHANGED snap
     \/ snap' = snap \cup {idx} /\ Goto("snapWait") /\ UNCHANGED <<raised, todo>>
     \/ snap' = snap \cup {idx} /\ Exit("failed")
  /\ UNCHANGED <<copyVars, idx, attempt, listing, copied, lro, outcome, record, grant, age, noted, access>>

\* Poll until the snapshot is usable; a cancel request, a failure or the deadline ends the wait.
AwaitSnapshot ==
  /\ pc = "snapWait"
  /\ \/ cancel /\ Exit("cancelled") /\ UNCHANGED idx
     \/ Exit("failed") /\ UNCHANGED idx
     \/ /\ IF idx < N THEN Goto("snap") /\ idx' = idx + 1 ELSE Goto("grant") /\ idx' = 1
        /\ UNCHANGED <<raised, todo>>
  /\ UNCHANGED <<copyVars, attempt, listing, copied, lro, outcome, record, remote, access>>

-----------------------------------------------------------------------------
(* Grants: __enter__ makes one per disk; refresh() replaces one, on the job's *)
(* thread before an attempt and on a download thread in the middle of one.  *)

\* An attempt to copy the disk failed: the next one, or the end.
AttemptFails ==
  IF attempt < MaxAttempts
    THEN attempt' = attempt + 1 /\ Goto("attempt") /\ UNCHANGED <<raised, todo>>
    ELSE Exit("failed") /\ UNCHANGED attempt

\* begin_get_access returned or raised: back to whoever called it.
Granted(result) ==
  \/ /\ pc = "grant" /\ result = "ok"
     /\ IF idx < N THEN idx' = idx + 1 /\ UNCHANGED pc ELSE idx' = 1 /\ Goto("disk")
     /\ UNCHANGED <<copyVars, attempt, raised, todo>>
  \/ /\ pc = "grant" /\ result # "ok"
     /\ Exit(IF result = "error" THEN "failed" ELSE "cancelled")
     /\ UNCHANGED <<copyVars, idx, attempt>>
  \/ /\ pc = "renew" /\ result = "ok"
     /\ Goto("list")
     /\ UNCHANGED <<copyVars, idx, attempt, raised, todo>>
  \/ pc = "renew" /\ result = "error" /\ AttemptFails /\ UNCHANGED <<copyVars, idx>>
  \/ pc = "renew" /\ result = "cancelled" /\ Exit("cancelled") /\ UNCHANGED <<copyVars, idx, attempt>>
  \/ pc = "copy" /\ LeaveRenewal(holder, result) /\ UNCHANGED <<pc, idx, attempt, raised, todo>>

BeginGrant ==
  /\ pc = "grant" /\ lro = "idle"
  /\ IF cancel THEN Exit("cancelled") /\ UNCHANGED lro ELSE lro' = "post" /\ UNCHANGED <<pc, raised, todo>>
  /\ UNCHANGED <<copyVars, idx, attempt, listing, copied, outcome, record, remote, access>>

\* refresh() revokes the old SAS first; a failure of that is ignored.
EndAccess ==
  /\ lro = "end" /\ lro' = "post"
  /\ \E g \in {"none", grant[idx]} : grant' = [grant EXCEPT ![idx] = g]
  /\ UNCHANGED <<copyVars, pc, todo, progress, outcome, record, age, noted, snap, access>>

\* Azure refuses the grant, accepts it, or accepts it and the answer is lost.
PostAccess ==
  /\ lro = "post"
  /\ \/ lro' = "idle" /\ Granted("error") /\ UNCHANGED <<grant, age>>
     \/ /\ grant' = [grant EXCEPT ![idx] = "other"] /\ age' = [age EXCEPT ![idx] = 0]
        /\ lro' = "wait" /\ UNCHANGED <<copyVars, pc, idx, attempt, raised, todo>>
     \/ /\ grant' = [grant EXCEPT ![idx] = "other"] /\ age' = [age EXCEPT ![idx] = 0]
        /\ lro' = "idle" /\ Granted("error")
  /\ UNCHANGED <<listing, copied, outcome, record, noted, snap, access>>

\* Poll for the URL, looking at the cancel flag; a polling error or the deadline ends the wait as well.
\* Only with the URL in hand is the grant recorded, its expiry noted and the record saved.
AwaitAccess ==
  /\ lro = "wait" /\ lro' = "idle"
  /\ \/ cancel /\ Granted("cancelled") /\ UNCHANGED <<info, stored, grant, noted>>
     \/ Granted("error") /\ UNCHANGED <<info, stored, grant, noted>>
     \/ /\ grant' = [grant EXCEPT ![idx] = IF @ = "other" THEN "ours" ELSE @]
        /\ info' = [info EXCEPT !.sas = @ \cup {idx}]
        /\ stored' = info' /\ noted' = 0
        /\ Granted("ok")
  /\ UNCHANGED <<listing, copied, outcome, age, snap, access>>

-----------------------------------------------------------------------------
(* The copy of the disks, one after the other                               *)

\* The loop over the disks; after the last one the block is left normally.
NextDisk ==
  /\ pc = "disk"
  /\ \/ idx > N /\ Exit("none") /\ UNCHANGED attempt
     \/ idx <= N /\ cancel /\ Exit("cancelled") /\ UNCHANGED attempt
     \/ idx <= N /\ ~cancel /\ Goto("attempt") /\ attempt' = 1 /\ UNCHANGED <<raised, todo>>
  /\ UNCHANGED <<copyVars, idx, listing, copied, lro, outcome, record, remote, access>>

\* Open the device of the volume; a device that cannot be opened fails the job without another attempt.
OpenDevice ==
  /\ pc = "attempt"
  /\ \/ cancel /\ Exit("cancelled")
     \/ ~cancel /\ Exit("failed")
     \/ ~cancel /\ Goto("prepare") /\ UNCHANGED <<raised, todo>>
  /\ UNCHANGED <<copyVars, idx, attempt, listing, copied, lro, outcome, record, remote, access>>

\* expires_soon looks at sas_expires_at, one value for all disks.
Prepare ==
  /\ pc = "prepare"
  /\ IF noted >= 1 THEN Goto("renew") /\ lro' = "end" ELSE Goto("list") /\ UNCHANGED lro
  /\ UNCHANGED <<copyVars, todo, progress, outcome, record, remote, access>>

\* blob_length and list_page_ranges, then copy_ranges on what they return.
List ==
  /\ pc = "list"
  /\ \/ /\ Live(idx)
        /\ listing' \in Listings
        /\ Begin(Split(Merge(listing', Limit), ChunkBytes))
        /\ Goto("copy") /\ UNCHANGED <<attempt, raised, todo>>
     \/ AttemptFails /\ UNCHANGED <<copyVars, listing>>
  /\ UNCHANGED <<idx, copied, lro, outcome, record, remote, access>>

\* A step of a download thread; the blob answers 403 exactly when the URL is not in force.
WorkerStep(w) ==
  /\ pc = "copy" /\ active
  /\ \/ (Take(w) \/ ReportFailure(w) \/ SetStop(w)) /\ UNCHANGED lro
     \/ CheckCancelled(w, cancel) /\ UNCHANGED lro
     \/ Fetch(w, IF Live(idx) THEN "data" ELSE "expired") /\ UNCHANGED lro
     \/ ~stop /\ Fetch(w, "error") /\ UNCHANGED lro
     \/ EnterRenewal(w) /\ lro' = (IF holder' = w THEN "end" ELSE lro)
     \/ \E ok \in BOOLEAN : Write(w, ok) /\ UNCHANGED lro
  /\ UNCHANGED <<pc, todo, progress, outcome, record, remote, access>>

\* copy_ranges returned or raised: the disk is COPIED, the job cancelled, or the attempt failed.  The age of
\* the SAS of a COPIED disk is of no more interest.
Copied ==
  /\ pc = "copy" /\ Return
  /\ CASE failure = "none"      -> /\ copied' = copied \cup {idx} /\ idx' = idx + 1 /\ Goto("disk")
                                   /\ age' = [age EXCEPT ![idx] = 0]
                                   /\ UNCHANGED <<attempt, raised, todo>>
       [] failure = "cancelled" -> Exit("cancelled") /\ UNCHANGED <<copied, idx, attempt, age>>
       [] OTHER                 -> AttemptFails /\ UNCHANGED <<copied, idx, age>>
  /\ listing' = <<>>
  /\ UNCHANGED <<lro, outcome, record, grant, noted, snap, access>>

-----------------------------------------------------------------------------
(* release_azure_resources, called by close() and by _release_azure         *)

\* One recorded grant: revoked, gone with its snapshot (404), or left on the record by a failure.
RevokeNext ==
  /\ pc = "revoke" /\ todo # {}
  /\ LET i == Least(todo) IN
     /\ todo' = todo \ {i}
     /\ \/ /\ grant' = [grant EXCEPT ![i] = "none"]
           /\ info' = [info EXCEPT !.sas = @ \ {i}] /\ UNCHANGED kept
        \/ \E g \in {"none", grant[i]} : grant' = [grant EXCEPT ![i] = g] /\ kept' = TRUE /\ UNCHANGED info
  /\ UNCHANGED <<copyVars, pc, lro, progress, phase, outer, stored, age, noted, snap, access>>

\* One recorded snapshot: deleted or not there (404), or left on the record by a failure.  A SAS on a
\* snapshot ends with it.
DeleteNext ==
  /\ pc = "delete" /\ todo # {}
  /\ LET i == Least(todo) IN
     /\ todo' = todo \ {i}
     /\ \/ /\ snap' = snap \ {i} /\ grant' = [grant EXCEPT ![i] = "none"]
           /\ info' = [info EXCEPT !.snaps = @ \ {i}] /\ UNCHANGED kept
        \/ kept' = TRUE /\ UNCHANGED <<snap, grant, info>>
  /\ UNCHANGED <<copyVars, pc, lro, progress, phase, outer, stored, age, noted, access>>

\* Mutant of ToSnapshots: close() only revokes.
ToSnapshots_None ==
  /\ pc = "revoke" /\ todo = {}
  /\ Goto("delete")
  /\ UNCHANGED <<copyVars, lro, todo, progress, outcome, record, remote, access>>

ToSnapshots ==
  /\ pc = "revoke" /\ todo = {}
  /\ todo' = info.snaps /\ Goto("delete")
  /\ UNCHANGED <<copyVars, lro, progress, outcome, record, remote, access>>

\* The record is saved, and the task goes on as the block was left; after _release_azure it is over.
SaveReleased ==
  /\ pc = "delete" /\ todo = {}
  /\ stored' = info
  /\ CASE phase = "CANCELLED"                           -> Goto("finish") /\ UNCHANGED phase
       [] phase = "EXPORTING" /\ raised = "none"      -> Goto("finish") /\ phase' = "EXPORTED"
       [] phase = "EXPORTING" /\ raised = "failed"    -> Goto("finish") /\ phase' = "FAILED"
       [] phase = "EXPORTING" /\ raised = "cancelled" -> Goto("teardown") /\ UNCHANGED phase
  /\ UNCHANGED <<copyVars, lro, todo, progress, kept, outer, info, remote, access>>

\* prov.cleanup() saves CANCELLED; then _release_azure, unless nothing is recorded or no login is at hand.
Teardown ==
  /\ pc = "teardown"
  /\ phase' = "CANCELLED"
  /\ IF info # Empty /\ login # "none"
       THEN Goto("revoke") /\ todo' = info.sas /\ kept' = FALSE
       ELSE Goto("finish") /\ UNCHANGED todo /\ kept' = (info # Empty)
  /\ UNCHANGED <<copyVars, lro, progress, outer, record, remote, access>>

\* _finish: the job leaves _running and _cancel_requested and unpins its login.
Finish ==
  /\ pc = "finish" /\ Goto("idle")
  /\ pinned' = FALSE /\ cancel' = FALSE
  /\ login' = IF login = "dead" THEN "closed" ELSE login
  /\ idx' = 1 /\ attempt' = 0 /\ raised' = "none" /\ listing' = <<>>
  /\ UNCHANGED <<copyVars, lro, todo, copied, outcome, record, remote>>

-----------------------------------------------------------------------------
(* What happens around the task                                             *)

\* cancel_job for a running job, over before the thread saves its document again over what it put ...
CancelRunning ==
  /\ "cancel" \in events /\ pc # "idle" /\ request = "none" /\ ~cancel /\ cancel' = TRUE
  /\ UNCHANGED <<copyVars, pc, lro, todo, progress, outcome, record, remote, login, pinned>>

\* A cleanup task is queued for a user with an Azure login or without.
StartCleanup ==
  /\ Goto("teardown")
  /\ \E azure \in BOOLEAN : login' = (IF azure THEN "open" ELSE "none") /\ pinned' = azure

\* ... and for one that has ended otherwise than by itself: a cleanup task.
CancelFailed ==
  /\ pc = "idle" /\ request = "none" /\ phase \notin {"EXPORTED", "CANCELLED"}
  /\ StartCleanup
  /\ UNCHANGED <<copyVars, lro, todo, progress, outcome, record, remote, cancel>>

\* A request that meets a running thread, step by step: it reads the record ...
LateReads ==
  /\ "late" \in events /\ pc # "idle" /\ request = "none" /\ phase \notin {"EXPORTED", "CANCELLED"}
  /\ request' = "read" /\ doc' = [snaps |-> stored.snaps, sas |-> stored.sas, phase |-> phase]
  /\ UNCHANGED <<copyVars, pc, lro, todo, progress, phase, kept, crashes, fixed, putBack, record, remote, access>>

\* ... finds the job running, and asks it to cancel ...
LateAsks ==
  /\ request = "read" /\ pc # "idle" /\ request' = "asked" /\ cancel' = TRUE
  /\ UNCHANGED <<copyVars, pc, lro, todo, progress, phase, kept, crashes, fixed, doc, putBack, record, remote, login,
                 pinned>>

\* The job has ended for good since, or other resources are recorded.
Outdated == phase \in {"EXPORTED", "CANCELLED"} \/ stored # [snaps |-> doc.snaps, sas |-> doc.sas]

\* The document read replaces the stored one, whatever was saved since; the next task works by it.
PutDocument ==
  /\ stored' = [snaps |-> doc.snaps, sas |-> doc.sas] /\ info' = stored'
  /\ putBack' = (putBack \/ Outdated)

\* ... and puts what it read.  A thread that goes on saves its own document over that; once it has ended, what
\* was put stays.
LatePuts ==
  /\ request = "asked" /\ request' = "none" /\ doc' = NoDocument
  /\ IF pc = "idle" THEN PutDocument /\ phase' = doc.phase ELSE UNCHANGED <<record, phase, putBack>>
  /\ UNCHANGED <<copyVars, pc, lro, todo, progress, kept, crashes, fixed, remote, access>>

\* It finds no thread any more: it puts what it read and has that torn down.
LateTeardown ==
  /\ request = "read" /\ pc = "idle" /\ request' = "none" /\ doc' = NoDocument
  /\ PutDocument /\ phase' = doc.phase
  /\ StartCleanup
  /\ UNCHANGED <<copyVars, lro, todo, progress, kept, crashes, fixed, remote, cancel>>

\* The user logs out or the session idles past its TTL: kill() closes the login unless a job has it pinned.
KillLogin ==
  /\ "logout" \in events /\ login = "open" /\ login' = (IF pinned THEN "dead" ELSE "closed")
  /\ UNCHANGED <<copyVars, pc, lro, todo, progress, outcome, record, remote, cancel, pinned>>

Older(a) == Smaller(a + 1, 2)

\* Time passes for the SAS URLs while disks are copied.  An access operation has a deadline of ten minutes:
\* no URL (valid for a day) comes of age while Azure is asked for one.
Tick ==
  /\ "age" \in events /\ pc \in {"disk", "attempt", "prepare", "list", "copy"} /\ lro = "idle"
  /\ age' = [i \in Disks |-> IF grant[i] = "none" \/ i \in copied THEN age[i] ELSE Older(age[i])]
  /\ noted' = IF info.sas = {} THEN noted ELSE Older(noted)
  /\ UNCHANGED <<copyVars, pc, lro, todo, progress, outcome, record, grant, snap, access>>

Forget30 ==
  /\ pc = "copy" /\ ForgetRenewal
  /\ UNCHANGED <<pc, lro, todo, progress, outcome, record, remote, access>>

\* The helper stops, with the task and the request, and starts again: the record survives, and fail_stale_jobs
\* marks the job as FAILED.  What was not saved is lost, and what the request put last stays.
Crash ==
  /\ "restart" \in events /\ pc # "idle" /\ crashes < MaxCrashes /\ crashes' = crashes + 1
  /\ Die
  /\ \/ /\ info' = stored /\ UNCHANGED <<stored, putBack>>
        /\ phase' = IF phase = "EXPORTING" THEN "FAILED" ELSE phase
     \/ request = "asked" /\ PutDocument /\ phase' = "FAILED"
  /\ request' = "none" /\ doc' = NoDocument
  /\ kept' = (stored' # Empty)
  /\ Goto("idle") /\ lro' = "idle" /\ todo' = {}
  /\ idx' = 1 /\ attempt' = 0 /\ raised' = "none" /\ listing' = <<>>
  /\ cancel' = FALSE /\ login' = "closed" /\ pinned' = FALSE
  /\ UNCHANGED <<fixed, copied, remote>>

\* The task starts to export: the job has pinned a live login and nothing exists in Azure yet.
Init ==
  /\ CopyInit
  /\ events \in EventSets
  /\ mode \in Modes /\ pc = (IF mode = "snapshot" THEN "snap" ELSE "grant")
  /\ idx = 1 /\ attempt = 0 /\ raised = "none" /\ lro = "idle" /\ todo = {} /\ listing = <<>>
  /\ copied = {} /\ phase = "EXPORTING" /\ info = Empty /\ stored = Empty
  /\ grant = [i \in Disks |-> "none"] /\ age = [i \in Disks |-> 0] /\ noted = 0 /\ snap = {}
  /\ cancel = FALSE /\ login = "open" /\ pinned = TRUE /\ kept = FALSE
  /\ request = "none" /\ doc = NoDocument /\ putBack = FALSE /\ crashes = 0

TaskStep ==
  \/ RecordSnapshot \/ PutSnapshot \/ AwaitSnapshot \/ BeginGrant
  \/ NextDisk \/ OpenDevice \/ Prepare \/ List \/ Copied
  \/ RevokeNext \/ ToSnapshots \/ DeleteNext \/ SaveReleased \/ Teardown \/ Finish

AccessStep == EndAccess \/ PostAccess \/ AwaitAccess

Next ==
  \/ TaskStep \/ AccessStep
  \/ \E w \in Workers : WorkerStep(w)
  \/ CancelRunning \/ CancelFailed \/ LateReads \/ LateAsks \/ LatePuts \/ LateTeardown \/ KillLogin \/ Tick \/ Forget30 \/ Crash

\* The job's thread and the download threads run, and every wait for Azure has a deadline.
Fairness ==
  /\ WF_vars(TaskStep) /\ WF_vars(AccessStep)
  /\ \A w \in Workers : WF_vars(WorkerStep(w))

Spec == Init /\ [][Next]_vars /\ Fairness
-----------------------------------------------------------------------------
(* Properties                                                               *)

\* "record the ID before the call so a crash mid-way still leaves a trace" (azure/export.py): whatever the
\* helper made in Azure, and every SAS whose URL it ever held, is named by the saved record.  Only a cancel request
\* that puts back the document it read before the thread's last save may take a name off it.
RecordCovers ==
  ~putBack =>
    /\ snap \subseteq stored.snaps
    /\ \A i \in Disks : grant[i] = "ours" => i \in stored.sas

\* A disk becomes COPIED only when the bytes written in this attempt are all the allocated bytes of the disk
\* and nothing of the VHD footer (list_page_ranges, merge_ranges, split_chunks, copy_ranges).
CopiedIsComplete ==
  [][\A i \in copied' \ copied :
       BytesOf([n \in written |-> chunks[n]]) = Allocated(listing, Limit)]_vars

\* While a SAS of the last 30 seconds is in force no download thread revokes it under the others.
RenewedOnce ==
  [][recent /\ recent' /\ pc = "copy" /\ lro = "idle" => lro' = "idle"]_vars

\* When a task is over and no release failed, nothing is left in Azure but what Azure granted without the
\* helper ever learning of it: whatever was cancelled, failed or restarted, unless a document that a cancel request
\* put back took something off the record.
ExitReleases ==
  (pc = "idle" /\ ~kept /\ ~putBack) =>
    snap = {} /\ \A i \in Disks : grant[i] # "ours"

\* Every task comes to its end: no thread of the copy waits for ever, for the refresh lock or for the others.
TaskEnds == pc # "idle" ~> pc = "idle"

\* The threads as they are used here are the ones RangeCopy describes, so what is proved of CopySpec holds.
UsesRangeCopy == [][CopyNext]_copyVars
================================================================================
