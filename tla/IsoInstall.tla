------------------------------- MODULE IsoInstall -------------------------------
(***************************************************************************)
(* The instances of ISO jobs (oci/iso_install.py): launched from an image   *)
(* of Images, waited for, handed to the user to install on, and terminated  *)
(* when the job is cancelled.  Images describes the thread of a job up to   *)
(* the launch.  The requests of the user (api/routes_jobs.py) come one      *)
(* after the other, but the threads run on between their steps.             *)
(***************************************************************************)
EXTENDS Images

VARIABLES
  phase,    \* the phase in the record of a job, from its launch on; "PROVISIONING" before, and for seeds
  task,     \* what the job's thread does after the launch, or does to clean up
  instance, \* OCI: the job's instance
  known,    \* jobs with an instance_id in the record
  lost,     \* jobs whose launch was not recorded: its answer was lost, or the helper stopped
  unclean,  \* jobs whose instance OCI would not terminate
  request,  \* the finish or cancel under way: where it is, its job and the document it read
  putBack   \* history: jobs whose document a request put back over a later one

requests == <<request, putBack>>
isoVars  == <<phase, task, instance, known, lost, unclean, requests>>

Isos == {j \in Jobs : ~Want[j].seed}

NoRequest == [op |-> "none", job |-> NoImage, phase |-> "PROVISIONING", known |-> FALSE]

Lives(j) == instance[j] \in {"starting", "running"}

\* is_running, from the submission of a task to the end of its thread.
Running(j) == pc[j] \notin Ends \/ task[j] # "none"

Do(j, t)      == task' = [task EXCEPT ![j] = t]
Becomes(j, p) == phase' = [phase EXCEPT ![j] = p]
-----------------------------------------------------------------------------
(* IsoInstaller.run                                                         *)

\* What does not launch an instance is as Images has it.
ImageStep(j) ==
  /\ JobStep(j) /\ ~(j \in Isos /\ pc[j] # "launched" /\ pc'[j] = "launched")
  /\ cancelled' # cancelled => request = NoRequest
  /\ UNCHANGED isoVars

LaunchInstance(j) ==
  /\ j \in Isos /\ Launch(j) /\ Launchable(j)
  /\ instance' = [instance EXCEPT ![j] = "starting"] /\ Do(j, "save")
  /\ UNCHANGED <<phase, known, lost, unclean, requests>>

\* OCI launches the instance, but the helper does not get to know.
LaunchLost(j) ==
  /\ j \in Isos /\ pc[j] = "launch" /\ Launchable(j) /\ Refused(j)
  /\ instance' = [instance EXCEPT ![j] = "starting"] /\ lost' = lost \cup {j}
  /\ UNCHANGED <<phase, task, known, unclean, requests>>

\* Mutant of SaveInstance: the id is saved with the next change of phase.
SaveInstance_Late(j) ==
  /\ task[j] = "save" /\ Do(j, "boot")
  /\ UNCHANGED <<vars, phase, instance, known, lost, unclean, requests>>

\* The id is saved before anything is waited for.
SaveInstance(j) ==
  /\ task[j] = "save" /\ known' = known \cup {j} /\ Do(j, "boot")
  /\ UNCHANGED <<vars, phase, instance, lost, unclean, requests>>

\* The wait does not look at the cancel flag; the job is handed to the user.
Booted(j) ==
  /\ task[j] = "boot" /\ instance[j] = "running"
  /\ Becomes(j, "INSTALLING") /\ Do(j, "none")
  /\ UNCHANGED <<vars, instance, known, lost, unclean, requests>>

\* A launch that fails after all, a call that does, or the deadline.
NotBooted(j) ==
  /\ task[j] = "boot"
  /\ instance[j] = "gone" \/ "refuse" \in faults \/ (instance[j] = "starting" /\ "deadline" \in faults)
  /\ Becomes(j, "FAILED") /\ Do(j, "none")
  /\ UNCHANGED <<vars, instance, known, lost, unclean, requests>>
-----------------------------------------------------------------------------
(* Finish and cancel                                                        *)

Reads(op, j) == request' = [op |-> op, job |-> j, phase |-> phase[j], known |-> j \in known]

\* The job has been cancelled or completed since, or its instance recorded.
Outdated(j) == phase[j] \in {"COMPLETED", "CANCELLED"} \/ (j \in known /\ ~request.known)

\* The document read replaces the stored one, whatever was saved since.
PutKnown(j) ==
  /\ known' = IF request.known THEN known \cup {j} ELSE known \ {j}
  /\ putBack' = IF Outdated(j) THEN putBack \cup {j} ELSE putBack

PutDocument(j, p) == Becomes(j, p) /\ PutKnown(j) /\ request' = NoRequest

\* finish_installation checks the document it read, also while a cancel is being worked off ...
FinishInstallation(j) ==
  /\ j \in Isos /\ request = NoRequest /\ phase[j] = "INSTALLING" /\ Reads("finish", j)
  /\ UNCHANGED <<vars, phase, task, instance, known, lost, unclean, putBack>>

\* ... and IsoInstaller.finish saves it as completed.
Finish(j) ==
  /\ request.op = "finish" /\ request.job = j /\ PutDocument(j, "COMPLETED")
  /\ UNCHANGED <<vars, task, instance, lost, unclean>>

\* What cancel_job takes on.
Cancellable(j) == j \in Isos /\ phase[j] \notin {"COMPLETED", "CANCELLED"} /\ pc[j] # "cancelled"

\* cancel_job without a task, perhaps while a finish has checked and not saved yet: a failed job, or one in the
\* hands of its user.  A finish that comes between its steps is taken to come after them.
CancelIso(j) ==
  /\ request.op \in {"none", "finish"} /\ Cancellable(j) /\ ~Running(j) /\ Do(j, "cleanup")
  /\ UNCHANGED <<vars, phase, instance, known, lost, unclean, requests>>

\* cancel_job reads the document of a job that has a task ...
CancelReads(j) ==
  /\ "late" \in faults /\ request = NoRequest /\ Cancellable(j) /\ Running(j) /\ Reads("cancel", j)
  /\ UNCHANGED <<vars, phase, task, instance, known, lost, unclean, putBack>>

\* ... which still runs, and is asked to cancel: only what precedes the launch looks at the flag ...
CancelAsks(j) ==
  /\ request.op = "cancel" /\ request.job = j /\ Running(j)
  /\ request' = [op |-> "asked", job |-> j, phase |-> request.phase, known |-> request.known]
  /\ IF pc[j] \in Ends THEN UNCHANGED vars ELSE CancelRequest(j)
  /\ UNCHANGED <<phase, task, instance, known, lost, unclean, putBack>>

\* ... and puts what it read: a thread that goes on saves its own document over that, but one that has ended
\* does not ...
CancelPuts(j) ==
  /\ request.op = "asked" /\ request.job = j
  /\ IF Running(j)
       THEN request' = NoRequest /\ UNCHANGED <<phase, known, putBack>>
       ELSE PutDocument(j, request.phase)
  /\ UNCHANGED <<vars, task, instance, lost, unclean>>

\* ... or that has ended when it is asked for: then what was read is put and torn down.
CancelTeardown(j) ==
  /\ request.op = "cancel" /\ request.job = j /\ ~Running(j) /\ PutDocument(j, request.phase) /\ Do(j, "cleanup")
  /\ UNCHANGED <<vars, instance, lost, unclean>>

\* cleanup terminates the instance on record, if OCI lets it; one that is gone already, it does not.
Terminate(j) ==
  /\ task[j] = "cleanup" /\ Do(j, "cancelled")
  /\ \/ j \notin known /\ UNCHANGED <<instance, unclean>>
     \/ j \in known /\ Lives(j) /\ instance' = [instance EXCEPT ![j] = "gone"] /\ UNCHANGED unclean
     \/ j \in known /\ (~Lives(j) \/ "refuse" \in faults) /\ unclean' = unclean \cup {j} /\ UNCHANGED instance
  /\ UNCHANGED <<vars, phase, known, lost, requests>>

SaveCancelled(j) ==
  /\ task[j] = "cancelled" /\ Becomes(j, "CANCELLED") /\ Do(j, "none")
  /\ UNCHANGED <<vars, instance, known, lost, unclean, requests>>
-----------------------------------------------------------------------------
(* OCI, and a restart of the helper                                         *)

\* An instance comes up, or its launch fails after all.
InstanceSettles(j) ==
  /\ instance[j] = "starting"
  /\ \E s \in {"running", "gone"} : instance' = [instance EXCEPT ![j] = s]
  /\ UNCHANGED <<vars, phase, task, known, lost, unclean, requests>>

\* fail_stale_jobs: a job in INSTALLING stays as it is.  A request may have put its document just before.
RestartJobs ==
  /\ Restart
  /\ lost' = lost \cup {j \in Isos : task[j] = "save"}
  /\ phase' = [j \in Jobs |-> IF j \in Isos /\ pc[j] = "launched" /\ phase[j] = "PROVISIONING" THEN "FAILED" ELSE phase[j]]
  /\ task' = [j \in Jobs |-> "none"]
  /\ \/ UNCHANGED <<known, putBack>>
     \/ request.op = "asked" /\ PutKnown(request.job)
  /\ request' = NoRequest
  /\ UNCHANGED <<instance, unclean>>

IsoInit ==
  /\ Init
  /\ phase = [j \in Jobs |-> "PROVISIONING"] /\ task = [j \in Jobs |-> "none"]
  /\ instance = [j \in Jobs |-> "none"]
  /\ known = {} /\ lost = {} /\ unclean = {}
  /\ request = NoRequest /\ putBack = {}

IsoStep(j) ==
  \/ LaunchInstance(j) \/ LaunchLost(j) \/ SaveInstance(j) \/ Booted(j) \/ NotBooted(j)
  \/ FinishInstallation(j) \/ Finish(j)
  \/ CancelIso(j) \/ CancelReads(j) \/ CancelAsks(j) \/ CancelPuts(j) \/ CancelTeardown(j)
  \/ Terminate(j) \/ SaveCancelled(j)
  \/ InstanceSettles(j)

ImagesStep(i) == (ImportEnds(i) \/ DeleteImage(i)) /\ UNCHANGED isoVars
ListStep      == ListImages /\ UNCHANGED isoVars

IsoNext ==
  \/ \E j \in Jobs : ImageStep(j) \/ IsoStep(j)
  \/ \E i \in Images : ImagesStep(i)
  \/ ListStep \/ RestartJobs

IsoSpec == IsoInit /\ [][IsoNext]_<<vars, isoVars>>
-----------------------------------------------------------------------------
(* Properties                                                               *)

\* IsoInstaller.cleanup, "Cancel: terminate the instance (with its boot volume)": every instance that lives is on
\* the record or about to be, or its launch never was; a cancelled job has none that OCI would terminate; and a
\* job that says INSTALLING or COMPLETED when nobody works on it has its instance running, whatever was
\* finished, cancelled, refused or timed out before.  Two cases are excluded: a restart in a cleanup, after which
\* a job may say so of an instance that is terminated, and a finish or cancel that puts the document it read back
\* over one in which the instance was recorded or the cancel completed since.
InstancesAccounted ==
  \A j \in Isos \ putBack :
    /\ Lives(j) => j \in known \cup lost \/ task[j] = "save"
    /\ Lives(j) /\ phase[j] = "CANCELLED" => j \in lost \cup unclean
    /\ phase[j] \in {"INSTALLING", "COMPLETED"} /\ task[j] = "none" /\ ~crashed => instance[j] = "running"
================================================================================
