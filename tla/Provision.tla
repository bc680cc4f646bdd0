------------------------------- MODULE Provision -------------------------------
(***************************************************************************)
(* One migration's resources in OCI against what its record says           *)
(* (oci/provision.py): the target instance, one volume per disk, and the    *)
(* attachments of each volume to the helper and to the target.              *)
(*                                                                          *)
(* A remote call and the save that records its result are two steps: the    *)
(* helper may stop in between.  A wait that follows may time out, which     *)
(* fails the job although the resource may still get there.  A request to   *)
(* cancel reads the record, asks whether the job runs and puts the document *)
(* it read back: the thread may have saved another in between.              *)
(***************************************************************************)
EXTENDS Naturals

CONSTANTS
  N,             \* data disks; disk 0 is the boot disk
  FaultSets,     \* the sets of faults a behaviour may meet
  MaxRetries,    \* bound on cancel and retry requests
  MaxCrashes     \* bound on restarts of the helper

\* A wait may time out, an accepted attachment may end DETACHED, the helper may restart, a cancel request may be
\* under way while the thread goes on.
Fault == {"timeout", "badAttachment", "restart", "lateCancel"}

ASSUME ParamAssumption ==
  /\ N \in Nat /\ MaxRetries \in Nat /\ MaxCrashes \in Nat
  /\ FaultSets \subseteq SUBSET Fault

VARIABLES
  faults,        \* the faults that may happen in this behaviour
  shareable,     \* the job's data volumes may be attached twice (not so for emulated attachments)
  startAfter,    \* target.start_after_migration
  inst,          \* the target instance in OCI
  vol,           \* each disk's volume in OCI
  hAtt,          \* each volume's latest attachment to the helper
  tAtt,          \* each volume's latest attachment to the target
  recInst,       \* job.instance_id is set
  recVol,        \* disk.volume_id is set
  recH,          \* disk.helper_attachment_id is set
  recT,          \* disk.target_attachment_id is set
  copied,        \* every disk is COPIED
  phase,         \* job.phase
  mode,          \* which of prepare, finalize, cleanup the thread executes
  pc, i,         \* where in it, and at which disk
  started,       \* finalize's local started_for_attach
  incomplete,    \* cleanup's action list holds a "failed: ..."
  refused,       \* history: the calls OCI refused before anything had failed in the cleanup
  cancel,        \* the cancel request under way: none, it has read the record, it has set the cancel flag
  doc,           \* the document it read
  putBack,       \* history: a request put a document back over a later one
  retries, crashes

oci    == <<inst, vol, hAtt, tAtt>>
rec    == <<recInst, recVol, recH, recT>>
ends   == <<copied, phase, incomplete>>
fixed  == <<faults, shareable, startAfter>>
request == <<cancel, doc, putBack>>
outer  == <<retries, crashes, fixed, request>>
vars   == <<faults, shareable, startAfter, inst, vol, hAtt, tAtt, recInst, recVol, recH, recT, copied, phase, mode, pc,
            i, started, incomplete, refused, cancel, doc, putBack, retries, crashes>>

Disks == 0..N
Data  == 1..N
Boot  == 0

Att     == {"none", "attaching", "attached", "detaching", "detached"}
Live(a) == a \in {"attaching", "attached", "detaching"}

Goto(l)      == pc' = l /\ UNCHANGED <<mode, i, started>>
At(l, d)     == pc' = l /\ i' = d /\ UNCHANGED <<mode, started>>
Only(l)      == Goto(l) /\ UNCHANGED <<oci, rec, ends, refused, outer>>
Done(p)      == pc' = "off" /\ phase' = p /\ UNCHANGED <<mode, i, started>>
\* Save one recorded id and go on.
Record(l)    == Goto(l) /\ UNCHANGED <<oci, ends, refused, outer>>
\* A call that OCI accepted.
Accepted(l)  == Goto(l) /\ UNCHANGED <<rec, ends, refused, outer>>
-----------------------------------------------------------------------------
(* OCI (external): what it accepts, and what becomes of it                  *)

\* The calls the thread makes, by label.
Calls == {"launch", "createVol", "attTarget", "stop", "bootDetach", "attHelper", "detHelper", "attBoot",
          "start", "softStop", "detTarget", "terminate", "delVol"}
\* The waits, by label.
Waits == {"waitRunning", "waitTarget", "waitStopped", "waitBoot", "waitHelper", "waitDetHelper", "waitAttBoot",
          "waitStart", "waitSoftStop", "waitDetTarget"}

\* Whether OCI accepts the call the thread is about to make.  Data volumes attach to a running instance,
\* the boot volume to a stopped one; a second attachment needs both of them shareable; an attached volume
\* is not deleted; an instance starts with its boot volume only.
OciAccepts ==
  CASE pc = "attTarget"  -> inst = "RUNNING" /\ ~Live(hAtt[i]) /\ ~Live(tAtt[i])
    [] pc = "attHelper"  -> ~Live(hAtt[i]) /\ (Live(tAtt[i]) => i # Boot /\ recT[i])
    [] pc = "attBoot"    -> inst = "STOPPED" /\ ~Live(hAtt[Boot]) /\ ~Live(tAtt[Boot])
    [] pc = "start"      -> inst = "STOPPED" /\ tAtt[Boot] = "attached"
    [] pc = "stop"       -> inst = "RUNNING"
    [] pc = "softStop"   -> inst = "RUNNING"
    [] pc = "bootDetach" -> inst = "STOPPED" /\ tAtt[Boot] = "attached"
    [] pc = "terminate"  -> inst \notin {"none", "TERMINATING", "TERMINATED"}
    [] pc = "delVol"     -> vol[i] = "here" /\ ~Live(hAtt[i]) /\ ~Live(tAtt[i])
    [] OTHER             -> TRUE

\* Termination detaches every volume and deletes the boot volume that is attached.
Terminated ==
  /\ inst' = "TERMINATED"
  /\ tAtt' = [d \in Disks |-> IF Live(tAtt[d]) THEN "detached" ELSE tAtt[d]]
  /\ vol' = IF Live(tAtt[Boot]) THEN [vol EXCEPT ![Boot] = "deleted"] ELSE vol
  /\ UNCHANGED hAtt

InstanceSettles ==
  /\ \/ inst = "PROVISIONING" /\ inst' = "RUNNING" /\ UNCHANGED <<vol, hAtt, tAtt>>
     \/ inst = "PROVISIONING" /\ Terminated
     \/ inst = "STARTING" /\ inst' = "RUNNING" /\ UNCHANGED <<vol, hAtt, tAtt>>
     \/ inst = "STOPPING" /\ inst' = "STOPPED" /\ UNCHANGED <<vol, hAtt, tAtt>>
     \/ inst = "TERMINATING" /\ Terminated
  /\ UNCHANGED <<rec, ends, mode, pc, i, started, refused, outer>>

Settled(a, b) ==
  \/ a = "attaching" /\ b = "attached"
  \/ a = "attaching" /\ b = "detached" /\ "badAttachment" \in faults
  \/ a = "detaching" /\ b = "detached"

AttachmentSettles ==
  /\ \E d \in Disks, b \in Att :
       \/ Settled(hAtt[d], b) /\ hAtt' = [hAtt EXCEPT ![d] = b] /\ UNCHANGED tAtt
       \/ Settled(tAtt[d], b) /\ tAtt' = [tAtt EXCEPT ![d] = b] /\ UNCHANGED hAtt
  /\ UNCHANGED <<inst, vol, rec, ends, mode, pc, i, started, refused, outer>>
-----------------------------------------------------------------------------
(* prepare                                                                  *)

Launch ==
  /\ pc = "launch" /\ inst' = "PROVISIONING"
  /\ vol' = [vol EXCEPT ![Boot] = "here"]
  /\ tAtt' = [tAtt EXCEPT ![Boot] = "attached"]
  /\ Accepted("launched") /\ UNCHANGED hAtt

SaveInstance ==
  /\ pc = "launched" /\ recInst' = TRUE
  /\ Record("waitRunning") /\ UNCHANGED <<recVol, recH, recT>>

\* The wait ends; a launch that failed asynchronously raises (StepFails).
InstanceRunning ==
  /\ pc = "waitRunning" /\ inst = "RUNNING"
  /\ At(IF N = 0 THEN "stop" ELSE "createVol", 1)
  /\ UNCHANGED <<oci, rec, ends, refused, outer>>

CreateVolume ==
  /\ pc = "createVol"
  /\ vol' = [vol EXCEPT ![i] = "here"]
  /\ Accepted("volMade") /\ UNCHANGED <<inst, hAtt, tAtt>>

\* After the last volume the data disks are attached to the running target, if they can be shared.
SaveVolume ==
  /\ pc = "volMade"
  /\ recVol' = [recVol EXCEPT ![i] = TRUE]
  /\ CASE i < N              -> At("createVol", i + 1)
       [] i = N /\ shareable -> At("attTarget", 1)
       [] OTHER              -> Goto("stop")
  /\ UNCHANGED <<oci, recInst, recH, recT, ends, refused, outer>>

\* _attach_to_target, used by prepare and finalize.
AttachTarget ==
  /\ pc = "attTarget" /\ OciAccepts
  /\ tAtt' = [tAtt EXCEPT ![i] = "attaching"]
  /\ Accepted("tMade") /\ UNCHANGED <<inst, vol, hAtt>>

SaveTarget ==
  /\ pc = "tMade" /\ recT' = [recT EXCEPT ![i] = TRUE]
  /\ Record("waitTarget") /\ UNCHANGED <<recInst, recVol, recH>>

\* The data disks without a recorded attachment, in turn.
Pending     == {d \in Data : ~recT[d]}
NextPending == \E d \in Pending : (\A e \in Pending : d <= e) /\ At("attTarget", d)

TargetAttached ==
  /\ pc = "waitTarget" /\ tAtt[i] = "attached"
  /\ CASE mode = "prepare" /\ i < N          -> At("attTarget", i + 1)
       [] mode = "prepare" /\ i = N          -> Goto("stop")
       [] mode = "finalize" /\ Pending # {}  -> NextPending
       [] OTHER                              -> Goto("power")
  /\ UNCHANGED <<oci, rec, ends, refused, outer>>

StopInstance ==
  /\ pc = "stop" /\ OciAccepts
  /\ inst' = "STOPPING"
  /\ Accepted("waitStopped") /\ UNCHANGED <<vol, hAtt, tAtt>>

InstanceStopped == pc = "waitStopped" /\ inst = "STOPPED" /\ Only("boot")

\* Mutant of SaveBoot: the boot volume's id is only saved for disks that are attached elsewhere.
SaveBoot_Forgets == pc = "boot" /\ Only("bootDetach")
\* The boot volume's id is saved before it is detached.
SaveBoot ==
  /\ pc = "boot" /\ recVol' = [recVol EXCEPT ![Boot] = TRUE]
  /\ Record("bootDetach") /\ UNCHANGED <<recInst, recH, recT>>

DetachBoot ==
  /\ pc = "bootDetach" /\ OciAccepts
  /\ tAtt' = [tAtt EXCEPT ![Boot] = "detaching"]
  /\ Accepted("waitBoot") /\ UNCHANGED <<inst, vol, hAtt>>

BootDetached ==
  /\ pc = "waitBoot" /\ tAtt[Boot] = "detached" /\ At("attHelper", Boot)
  /\ UNCHANGED <<oci, rec, ends, refused, outer>>

AttachHelper ==
  /\ pc = "attHelper" /\ OciAccepts
  /\ hAtt' = [hAtt EXCEPT ![i] = "attaching"]
  /\ Accepted("hMade") /\ UNCHANGED <<inst, vol, tAtt>>

SaveHelper ==
  /\ pc = "hMade" /\ recH' = [recH EXCEPT ![i] = TRUE]
  /\ Record("waitHelper") /\ UNCHANGED <<recInst, recVol, recT>>

HelperAttached ==
  /\ pc = "waitHelper" /\ hAtt[i] = "attached"
  /\ IF i < N THEN At("attHelper", i + 1) ELSE Goto("copy")
  /\ UNCHANGED <<oci, rec, ends, refused, outer>>

-----------------------------------------------------------------------------
(* finalize                                                                 *)

Enter(m, l, d) == mode' = m /\ pc' = l /\ i' = d

\* The disks are copied, and the run goes on with finalize.
CopyDisks ==
  /\ pc = "copy" /\ copied' = TRUE /\ phase' = "FINALIZING"
  /\ Enter("finalize", "nextDetach", Boot) /\ started' = FALSE
  /\ UNCHANGED <<oci, rec, incomplete, refused, outer>>

\* _detach_all_from_helper, used by finalize and cleanup: the disks in turn, those not recorded skipped.
AfterDetach == IF mode = "finalize" THEN Goto("boot2") ELSE At("nextTarget", 1)
\* Mutant of NextDetach: the detach is awaited, but not asked for.
NextDetach_AlwaysWaits ==
  /\ pc = "nextDetach"
  /\ CASE i > N                -> AfterDetach
       [] i <= N /\ ~recH[i]   -> At("nextDetach", i + 1)
       [] OTHER                -> Goto("waitDetHelper")
  /\ UNCHANGED <<oci, rec, ends, refused, outer>>
NextDetach ==
  /\ pc = "nextDetach"
  /\ CASE i > N                -> AfterDetach
       [] i <= N /\ ~recH[i]   -> At("nextDetach", i + 1)
       [] OTHER                -> Goto(IF hAtt[i] \in {"detached", "detaching"} THEN "waitDetHelper" ELSE "detHelper")
  /\ UNCHANGED <<oci, rec, ends, refused, outer>>

DetachHelper ==
  /\ pc = "detHelper"
  /\ hAtt' = [hAtt EXCEPT ![i] = "detaching"]
  /\ Accepted("waitDetHelper") /\ UNCHANGED <<inst, vol, tAtt>>

\* Mutant of HelperDetached: the recorded attachment is dropped without waiting for DETACHED.
HelperDetached_NoWait ==
  /\ pc = "waitDetHelper"
  /\ recH' = [recH EXCEPT ![i] = FALSE]
  /\ At("nextDetach", i + 1)
  /\ UNCHANGED <<oci, recInst, recVol, recT, ends, refused, outer>>
HelperDetached ==
  /\ pc = "waitDetHelper" /\ hAtt[i] = "detached"
  /\ recH' = [recH EXCEPT ![i] = FALSE]
  /\ At("nextDetach", i + 1)
  /\ UNCHANGED <<oci, recInst, recVol, recT, ends, refused, outer>>

\* A recorded attachment is not made again, whatever became of it.
ChooseBoot == pc = "boot2" /\ Only(IF recT[Boot] THEN "pending" ELSE "attBoot")

AttachBoot ==
  /\ pc = "attBoot" /\ OciAccepts
  /\ tAtt' = [tAtt EXCEPT ![Boot] = "attaching"]
  /\ Accepted("bMade") /\ UNCHANGED <<inst, vol, hAtt>>

SaveBootAttachment ==
  /\ pc = "bMade" /\ recT' = [recT EXCEPT ![Boot] = TRUE]
  /\ Record("waitAttBoot") /\ UNCHANGED <<recInst, recVol, recH>>

BootAttached == pc = "waitAttBoot" /\ tAtt[Boot] = "attached" /\ Only("pending")

\* Data disks that could not be attached before need the target running: it is started first.
ChoosePending ==
  /\ pc = "pending"
  /\ IF Pending = {} THEN Goto("power")
     ELSE started' = TRUE /\ pc' = "startCheck" /\ UNCHANGED <<mode, i>>
  /\ UNCHANGED <<oci, rec, ends, refused, outer>>

\* _start_target: a running instance is left alone, one that starts already is waited for.
AfterStart == IF Pending = {} THEN Goto("complete") ELSE NextPending
StartCheck ==
  /\ pc = "startCheck"
  /\ CASE inst = "RUNNING"                        -> AfterStart
       [] inst \in {"STARTING", "PROVISIONING"}   -> Goto("waitStart")
       [] OTHER                                   -> Goto("start")
  /\ UNCHANGED <<oci, rec, ends, refused, outer>>

StartInstance ==
  /\ pc = "start" /\ OciAccepts
  /\ inst' = "STARTING"
  /\ Accepted("waitStart") /\ UNCHANGED <<vol, hAtt, tAtt>>

InstanceStarted ==
  /\ pc = "waitStart" /\ inst = "RUNNING" /\ AfterStart
  /\ UNCHANGED <<oci, rec, ends, refused, outer>>

\* Mutant of ChoosePower: started_for_attach is read the wrong way round.
ChoosePower_Swapped ==
  pc = "power" /\ Only(CASE startAfter /\ started   -> "startCheck"
                         [] ~startAfter /\ ~started -> "softStop"
                         [] OTHER                   -> "complete")
\* Leave the target running or stopped as the user asked.
ChoosePower ==
  pc = "power" /\ Only(CASE startAfter /\ ~started  -> "startCheck"
                         [] ~startAfter /\ started  -> "softStop"
                         [] OTHER                   -> "complete")

SoftStop ==
  /\ pc = "softStop" /\ OciAccepts
  /\ inst' = "STOPPING"
  /\ Accepted("waitSoftStop") /\ UNCHANGED <<vol, hAtt, tAtt>>

SoftStopped == pc = "waitSoftStop" /\ inst = "STOPPED" /\ Only("complete")

Complete ==
  /\ pc = "complete" /\ Done("COMPLETED")
  /\ UNCHANGED <<oci, rec, copied, incomplete, refused, outer>>

-----------------------------------------------------------------------------
(* cleanup: every step is attempted, whatever became of the one before      *)

\* Release the data volumes from the target before it is terminated.
NextTarget ==
  /\ pc = "nextTarget"
  /\ CASE i > N              -> Goto(IF recInst THEN "terminate" ELSE "nextDelete")
       [] i <= N /\ ~recT[i] -> At("nextTarget", i + 1)
       [] OTHER              -> Goto(IF tAtt[i] \in {"detached", "detaching"} THEN "waitDetTarget" ELSE "detTarget")
  /\ UNCHANGED <<oci, rec, ends, refused, outer>>

DetachTarget ==
  /\ pc = "detTarget"
  /\ tAtt' = [tAtt EXCEPT ![i] = "detaching"]
  /\ Accepted("waitDetTarget") /\ UNCHANGED <<inst, vol, hAtt>>

\* The id it clears is saved with CANCELLED at the end, and not read again: it stays in the record here.
TargetDetached ==
  /\ pc = "waitDetTarget" /\ tAtt[i] = "detached"
  /\ At("nextTarget", i + 1)
  /\ UNCHANGED <<oci, rec, ends, refused, outer>>

Terminate ==
  /\ pc = "terminate" /\ OciAccepts
  /\ inst' = "TERMINATING"
  /\ pc' = "nextDelete" /\ i' = Boot
  /\ UNCHANGED <<vol, hAtt, tAtt, rec, ends, mode, started, refused, outer>>

NextDelete ==
  /\ pc = "nextDelete"
  /\ CASE i > N                -> Done("CANCELLED")
       [] i <= N /\ ~recVol[i] -> At("nextDelete", i + 1) /\ UNCHANGED phase
       [] OTHER                -> Goto("delVol") /\ UNCHANGED phase
  /\ UNCHANGED <<oci, rec, copied, incomplete, refused, outer>>

DeleteVolume ==
  /\ pc = "delVol" /\ OciAccepts
  /\ vol' = [vol EXCEPT ![i] = "deleted"]
  /\ At("nextDelete", i + 1)
  /\ UNCHANGED <<inst, hAtt, tAtt, rec, ends, refused, outer>>
-----------------------------------------------------------------------------
(* Exceptions, cancel and retry requests, restarts                          *)

\* An exception: prepare and finalize fail the job, cleanup notes it and goes on with the next attempt.
Raise ==
  IF mode # "cleanup" THEN Done("FAILED") /\ UNCHANGED <<copied, incomplete>>
  ELSE /\ incomplete' = TRUE
       /\ UNCHANGED <<copied, phase>>
       /\ CASE pc \in {"nextDetach", "detHelper", "waitDetHelper"} -> At("nextTarget", 1)
            [] pc \in {"nextTarget", "detTarget", "waitDetTarget"} -> At("nextTarget", i + 1)
            [] pc = "terminate"                                    -> At("nextDelete", Boot)
            [] pc = "delVol"                                       -> At("nextDelete", i + 1)

\* OCI refuses a call it cannot do in the state the resources are in.
Refuse ==
  /\ pc \in Calls /\ ~OciAccepts
  /\ refused' = IF mode = "cleanup" /\ incomplete THEN refused ELSE refused \cup {<<pc, i>>}
  /\ Raise
  /\ UNCHANGED <<oci, rec, outer>>

\* Reading the state of something in OCI before acting on it.
Reads ==
  \/ pc \in {"boot", "startCheck"}
  \/ pc = "nextDetach" /\ i \in Disks /\ recH[i]
  \/ pc = "nextTarget" /\ i \in Data /\ recT[i]

\* A call fails for a reason of its own, a wait times out, or it sees the instance terminated; the copy
\* fails after its retries.
StepFails ==
  /\ \/ pc \in Calls \cup {"copy"}
     \/ Reads
     \/ pc \in Waits /\ "timeout" \in faults
     \/ pc \in {"waitRunning", "waitStopped", "waitStart", "waitSoftStop"} /\ inst = "TERMINATED"
  /\ Raise
  /\ UNCHANGED <<oci, rec, refused, outer>>

StartCleanup == Enter("cleanup", "nextDetach", Boot) /\ incomplete' = FALSE /\ UNCHANGED started

CheckPoints == {"launch", "createVol", "attTarget", "stop", "boot", "attHelper", "copy"}

\* The flag is looked at before each step of prepare and while the disks are copied; the run turns into its
\* own cleanup.  It was set by the request under way, or by one that was over before the thread went on.
CancelRun ==
  /\ pc \in CheckPoints /\ mode = "prepare"
  /\ \/ cancel = "none" /\ retries < MaxRetries /\ retries' = retries + 1
     \/ cancel = "asked" /\ UNCHANGED retries
  /\ StartCleanup
  /\ UNCHANGED <<oci, rec, copied, phase, refused, request, crashes, fixed>>

\* Cancel a job that has ended otherwise than by itself.
CancelFailed ==
  /\ pc = "off" /\ cancel = "none" /\ phase \notin {"COMPLETED", "CANCELLED"} /\ retries < MaxRetries
  /\ retries' = retries + 1
  /\ StartCleanup
  /\ UNCHANGED <<oci, rec, copied, phase, refused, request, crashes, fixed>>

NoDocument ==
  [inst |-> FALSE, vol |-> [d \in Disks |-> FALSE], h |-> [d \in Disks |-> FALSE], t |-> [d \in Disks |-> FALSE],
   copied |-> FALSE, phase |-> "PROVISIONING"]

\* A request that meets a running thread, step by step: it reads the record ...
CancelReads ==
  /\ "lateCancel" \in faults /\ pc # "off" /\ cancel = "none" /\ retries < MaxRetries
  /\ retries' = retries + 1 /\ cancel' = "read"
  /\ doc' = [inst |-> recInst, vol |-> recVol, h |-> recH, t |-> recT, copied |-> copied, phase |-> phase]
  /\ UNCHANGED <<oci, rec, ends, mode, pc, i, started, refused, putBack, crashes, fixed>>

\* ... finds the job running, and asks it to cancel ...
CancelAsks ==
  /\ cancel = "read" /\ pc # "off" /\ cancel' = "asked"
  /\ UNCHANGED <<oci, rec, ends, mode, pc, i, started, refused, doc, putBack, retries, crashes, fixed>>

\* The job has ended for good since, or other resources are recorded.
Outdated ==
  \/ phase \in {"COMPLETED", "CANCELLED"}
  \/ <<recInst, recVol, recH, recT, copied>> # <<doc.inst, doc.vol, doc.h, doc.t, doc.copied>>

\* The document read replaces the stored one, whatever was saved since.
PutDocument ==
  /\ recInst' = doc.inst /\ recVol' = doc.vol /\ recH' = doc.h /\ recT' = doc.t /\ copied' = doc.copied
  /\ putBack' = (putBack \/ Outdated)

\* ... and puts what it read.  A thread that goes on saves its own document over that; once it has ended, what
\* was put stays.
CancelPuts ==
  /\ cancel = "asked" /\ cancel' = "none" /\ doc' = NoDocument
  /\ IF pc = "off"
       THEN PutDocument /\ phase' = doc.phase
       ELSE UNCHANGED <<rec, copied, phase, putBack>>
  /\ UNCHANGED <<oci, incomplete, mode, pc, i, started, refused, retries, crashes, fixed>>

\* It finds no thread any more: it puts what it read and has that torn down.
CancelTeardown ==
  /\ cancel = "read" /\ pc = "off" /\ cancel' = "none" /\ doc' = NoDocument
  /\ PutDocument /\ phase' = doc.phase
  /\ StartCleanup
  /\ UNCHANGED <<oci, refused, retries, crashes, fixed>>

\* Retry finalize of a failed job with an instance and every disk copied.
ResumeFinalize ==
  /\ pc = "off" /\ cancel = "none" /\ phase = "FAILED" /\ recInst /\ copied /\ retries < MaxRetries
  /\ retries' = retries + 1
  /\ Enter("finalize", "nextDetach", Boot) /\ started' = FALSE
  /\ phase' = "FINALIZING"
  /\ UNCHANGED <<oci, rec, copied, incomplete, refused, request, crashes, fixed>>

\* The helper stops, with the thread and the request; the restarted one marks the job FAILED.  What was not
\* saved is lost, and what the request put last stays.
Crash ==
  /\ pc # "off" /\ "restart" \in faults /\ crashes < MaxCrashes
  /\ crashes' = crashes + 1
  /\ Done("FAILED")
  /\ \/ UNCHANGED <<rec, copied, putBack>>
     \/ cancel = "asked" /\ PutDocument
  /\ cancel' = "none" /\ doc' = NoDocument
  /\ UNCHANGED <<oci, incomplete, refused, retries, fixed>>

ThreadStep ==
  \/ Launch \/ SaveInstance \/ InstanceRunning \/ CreateVolume \/ SaveVolume
  \/ AttachTarget \/ SaveTarget \/ TargetAttached \/ StopInstance \/ InstanceStopped
  \/ SaveBoot \/ DetachBoot \/ BootDetached \/ AttachHelper \/ SaveHelper \/ HelperAttached
  \/ CopyDisks \/ NextDetach \/ DetachHelper \/ HelperDetached
  \/ ChooseBoot \/ AttachBoot \/ SaveBootAttachment \/ BootAttached
  \/ ChoosePending \/ StartCheck \/ StartInstance \/ InstanceStarted
  \/ ChoosePower \/ SoftStop \/ SoftStopped \/ Complete
  \/ NextTarget \/ DetachTarget \/ TargetDetached \/ Terminate \/ NextDelete \/ DeleteVolume
  \/ Refuse \/ StepFails

Init ==
  /\ faults \in FaultSets /\ shareable \in BOOLEAN /\ startAfter \in BOOLEAN
  /\ inst = "none" /\ recInst = FALSE
  /\ vol = [d \in Disks |-> "none"] /\ recVol = [d \in Disks |-> FALSE]
  /\ hAtt = [d \in Disks |-> "none"] /\ recH = [d \in Disks |-> FALSE]
  /\ tAtt = [d \in Disks |-> "none"] /\ recT = [d \in Disks |-> FALSE]
  /\ copied = FALSE /\ phase = "PROVISIONING"
  /\ mode = "prepare" /\ pc = "launch" /\ i = Boot /\ started = FALSE
  /\ incomplete = FALSE /\ refused = {}
  /\ cancel = "none" /\ doc = NoDocument /\ putBack = FALSE
  /\ retries = 0 /\ crashes = 0

Next ==
  \/ ThreadStep \/ CancelRun \/ CancelFailed \/ ResumeFinalize \/ Crash
  \/ CancelReads \/ CancelAsks \/ CancelPuts \/ CancelTeardown
  \/ InstanceSettles \/ AttachmentSettles

\* The thread runs, and OCI brings every operation it accepted to an end.
Fairness == WF_vars(ThreadStep) /\ WF_vars(InstanceSettles) /\ WF_vars(AttachmentSettles)

Spec == Init /\ [][Next]_vars /\ Fairness
-----------------------------------------------------------------------------
(* Properties                                                               *)

\* So far no restart has lost what the thread had in hand, and no request has put back an older document over
\* what the thread had saved.
RecordKept == crashes = 0 /\ ~putBack

\* Whatever exists in OCI for the job is in its record, or in the hands of the thread that is about to save
\* it: cleanup and finalize work from the record alone.  The boot volume needs no record while it is attached
\* to the recorded instance, which takes it along.  Only a restart in between, and a cancel request that puts back
\* the document it read before the thread's last save, may leave something without a name.
RecordCovers ==
  RecordKept =>
    /\ inst # "none" => recInst \/ pc = "launched"
    /\ \A d \in Data : vol[d] = "here" => recVol[d] \/ (pc = "volMade" /\ i = d)
    /\ vol[Boot] = "here" => recVol[Boot] \/ Live(tAtt[Boot])
    /\ \A d \in Disks : Live(hAtt[d]) => recH[d] \/ (pc = "hMade" /\ i = d)

NothingLeft ==
  /\ inst \in {"none", "TERMINATING", "TERMINATED"}
  /\ \A d \in Disks : vol[d] = "here" => d = Boot /\ inst = "TERMINATING" /\ Live(tAtt[Boot])

\* A cancelled job whose cleanup reported no failure left nothing behind in OCI ("teardown of everything this
\* job created", Provisioner.cleanup), except what the terminating instance takes along, unless a restart or
\* a document that a cancel request put back took something out of the record before.
CleanupLeavesNothing ==
  (phase = "CANCELLED" /\ ~incomplete /\ RecordKept) => NothingLeft

\* A completed job leaves the target running when the user asked for it, whatever timed out or was retried; its
\* disks are all on the target (or being attached) and none is left on the helper, unless an attachment came to
\* nothing by itself, a restart interrupted a cleanup, or a document read during one was put back after it.
CompletedMoved ==
  phase = "COMPLETED" =>
    /\ startAfter => inst = "RUNNING"
    /\ RecordKept /\ "badAttachment" \notin faults => \A d \in Disks : tAtt[d] \in {"attaching", "attached"} /\ ~Live(hAtt[d])

\* A disk has one writer: the target is stopped while the helper copies, and it does not run on copied disks
\* before the helper has given every one of them up, whatever timed out, was retried or was lost in a restart.
\* Instance states and attachments follow each other in an order in which OCI, as long as no wait times out, has
\* no reason to refuse a call of prepare or finalize, nor the release of a data volume in cleanup.
OneWriter ==
  /\ faults = {} => refused \subseteq {<<"terminate", d>> : d \in 0..N + 1} \cup {<<"delVol", Boot>>}
  /\ pc = "copy" => inst = "STOPPED"
  /\ copied /\ inst \in {"STARTING", "RUNNING"} => \A d \in Disks : ~Live(hAtt[d])

\* The thread gets to an end of prepare, finalize and cleanup, also when no wait ever times out: whatever it
\* waits for has been asked for and comes about.
Ends == []<>(pc = "off")
================================================================================
