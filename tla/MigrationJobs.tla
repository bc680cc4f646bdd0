----------------------------- MODULE MigrationJobs -----------------------------
(***************************************************************************)
(* The life of a job: the HTTP handlers that create, cancel, resume, finish *)
(* and purge jobs (api/routes_jobs.py, api/routes_setup.py), the runner     *)
(* that executes them on a thread pool behind a counting gate of migration  *)
(* slots (jobs/runner.py), and the SQLite record both of them read and      *)
(* replace as a whole document (jobs/store.py).                             *)
(*                                                                          *)
(* A handler is not one step: it takes a snapshot of the record, asks the   *)
(* runner whether the job is running, and writes its snapshot back, each    *)
(* under a different lock.  A thread of the pool works on its own copy of   *)
(* the record and writes that copy back at every save.  The steps here are  *)
(* the points between which the other threads may run.                      *)
(***************************************************************************)
EXTENDS Naturals, Sequences, FiniteSets

CONSTANTS
  Jobs,         \* job ids; uuid4, so an id is used once
  NoJob,        \* what a thread or client without a job refers to
  IsoJobs,      \* the jobs of kind "iso"; the others are migrations
  Vms,          \* source virtual machines
  VmOf,         \* the VM each job exports
  Threads,      \* threads of the runner's ThreadPoolExecutor
  Clients,      \* requests the API serves at the same time
  MaxLimit,     \* MAX_CONCURRENT_JOBS
  Requests,     \* the kinds of request (and "restart") that happen in a run
  MaxRestarts   \* bound on restarts of the helper

ASSUME JobsAssumption ==
  /\ NoJob \notin Jobs
  /\ IsoJobs \subseteq Jobs
  /\ VmOf \in [Jobs -> Vms]
ASSUME ThreadsAssumption == IsFiniteSet(Threads)
ASSUME LimitAssumption == MaxLimit \in Nat \ {0}
ASSUME BoundAssumption == MaxRestarts \in Nat

VARIABLES
  store,            \* the job table: the document saved for each job
  created,          \* ids handed out so far
  queue,            \* tasks submitted to the pool and not yet taken by a thread
  pc,               \* where each thread of the pool is
  task,             \* the task the thread executes
  mem,              \* the thread's own copy of the job document
  slot,             \* the local `slot` of _run_safely: the thread holds a migration slot
  running,          \* runner._running
  cancelRequested,  \* runner._cancel_requested
  migrating,        \* runner._migrating
  limit,            \* settings.max_concurrent_jobs
  cpc,              \* where each request handler is
  cjob,             \* the job the request is about
  csnap,            \* the handler's snapshot of the job document
  restarts          \* restarts so far (bounds the model)

record   == <<store, created>>
pool     == <<queue, pc, task, mem, slot>>
registry == <<running, cancelRequested>>
gate     == <<migrating, limit>>
clients  == <<cpc, cjob, csnap>>
vars     == <<store, created, queue, pc, task, mem, slot, running, cancelRequested,
              migrating, limit, cpc, cjob, csnap, restarts>>

-----------------------------------------------------------------------------
(* Job documents: the phase, whether the target instance was launched and   *)
(* whether every disk is COPIED.  Gone stands for "no row with this id".     *)

Active   == {"QUEUED", "PROVISIONING", "EXPORTING", "FINALIZING", "INSTALLING"}
Terminal == {"COMPLETED", "FAILED", "CANCELLED"}
Phase    == Active \cup Terminal

Doc(p, i, c) == [phase |-> p, inst |-> i, copied |-> c]
Gone         == Doc("GONE", FALSE, FALSE)
NewJob       == Doc("QUEUED", FALSE, FALSE)
Docs         == [phase : Phase \cup {"GONE"}, inst : BOOLEAN, copied : BOOLEAN]

InPhase(d, p) == [d EXCEPT !.phase = p]

Task(k, j) == [kind |-> k, job |-> j]
NoTask     == Task("none", NoJob)
Kinds      == {"run", "iso", "finalize", "cleanup"}
Tasks      == [kind : Kinds, job : Jobs]

ThreadPC ==
  {"idle", "start", "slot", "waiting", "provision", "prepare", "attach", "export", "copy",
   "fixup", "finalizing", "finalize", "complete", "install", "fail", "cancelled", "teardown",
   "release", "finish"}
ClientPC ==
  {"idle", "createPut", "createSubmit", "cancelCheck", "cancelFlag", "cancelNote", "cancelPut",
   "cancelSubmit", "resumeCheck", "resumePut", "resumeSubmit", "installDone"}

\* MigrationRunner.max_concurrent and set_max_concurrent clamp the setting to 1..MAX_CONCURRENT_JOBS.
Clamp(n) == IF n < 1 THEN 1 ELSE IF n > MaxLimit THEN MaxLimit ELSE n

JobOf(t)        == task[t].job
Cancelled(j)    == j \in cancelRequested
CanResume(d)    == d.phase = "FAILED" /\ d.inst /\ d.copied
\* Mutant of ActiveForVm: a queued job does not count.
ActiveForVm_NotQueued(vm) == {j \in Jobs : VmOf[j] = vm /\ store[j].phase \in Active \ {"QUEUED"}}

\* JobStore.active_for_vm: the unfinished jobs of a VM.
ActiveForVm(vm) == {j \in Jobs : VmOf[j] = vm /\ store[j].phase \in Active}

Goto(t, l) == pc' = [pc EXCEPT ![t] = l]

\* A thread saves: it replaces the stored document by its own copy, now d.
Save(t, d) ==
  /\ mem' = [mem EXCEPT ![t] = d]
  /\ store' = [store EXCEPT ![JobOf(t)] = d]
  /\ UNCHANGED created

\* The `finally` of every task: give the slot back if there is one, then _finish.
Leave(t) == Goto(t, IF slot[t] THEN "release" ELSE "finish")

-----------------------------------------------------------------------------
(* Threads of the pool                                                      *)

\* The executor hands the oldest task to a free thread.
TakeTask(t) ==
  /\ pc[t] = "idle" /\ queue # <<>>
  /\ task' = [task EXCEPT ![t] = Head(queue)]
  /\ queue' = Tail(queue)
  /\ Goto(t, "start")
  /\ UNCHANGED <<record, mem, slot, registry, gate, clients, restarts>>

FirstStep(kind) ==
  CASE kind = "run"      -> "slot"
    [] kind = "iso"      -> "provision"
    [] kind = "finalize" -> "finalizing"
    [] kind = "cleanup"  -> "teardown"

\* Every task starts by reading the record; without one there is nothing to do but _finish.
LoadJob(t) ==
  /\ pc[t] = "start"
  /\ mem' = [mem EXCEPT ![t] = store[JobOf(t)]]
  /\ Goto(t, IF store[JobOf(t)] = Gone THEN "finish" ELSE FirstStep(task[t].kind))
  /\ UNCHANGED <<record, queue, task, slot, registry, gate, clients, restarts>>

AcquireSlot(t) ==
  /\ pc[t] \in {"slot", "waiting"} /\ migrating < limit
  /\ migrating' = migrating + 1
  /\ slot' = [slot EXCEPT ![t] = TRUE]
  /\ Goto(t, "provision")
  /\ UNCHANGED <<record, queue, task, mem, registry, limit, clients, restarts>>

\* The gate is closed: the first pass round the loop saves the "Waiting for a free slot" message.
WaitForSlot(t) ==
  /\ pc[t] = "slot" /\ migrating >= limit /\ ~Cancelled(JobOf(t))
  /\ Save(t, mem[t])
  /\ Goto(t, "waiting")
  /\ UNCHANGED <<queue, task, slot, registry, gate, clients, restarts>>

\* The waiting loop looks at the cancel flag before it sleeps again, but not when a slot is free.
CancelWaiting(t) ==
  /\ pc[t] \in {"slot", "waiting"} /\ migrating >= limit /\ Cancelled(JobOf(t))
  /\ Goto(t, "cancelled")
  /\ UNCHANGED <<record, queue, task, mem, slot, registry, gate, clients, restarts>>

\* A step of the task that only saves the document d and moves on to label l.
SaveStep(t, l, d) ==
  /\ Save(t, d)
  /\ Goto(t, l)
  /\ UNCHANGED <<queue, task, slot, registry, gate, clients, restarts>>

Provision(t) ==
  pc[t] = "provision" /\ SaveStep(t, "prepare", InPhase(mem[t], "PROVISIONING"))

\* prepare() / iso.run(): the instance id is saved once the launch call has returned.
Launch(t) ==
  /\ pc[t] = "prepare"
  /\ SaveStep(t, IF task[t].kind = "iso" THEN "install" ELSE "attach",
              [InPhase(mem[t], "PROVISIONING") EXCEPT !.inst = TRUE])

\* iso.run() hands the instance over to the user.
Install(t) ==
  /\ pc[t] = "install"
  /\ Save(t, InPhase(mem[t], "INSTALLING"))
  /\ Leave(t)
  /\ UNCHANGED <<queue, task, slot, registry, gate, clients, restarts>>

Attach(t) ==
  pc[t] = "attach" /\ SaveStep(t, "export", mem[t])

BeginExport(t) ==
  /\ pc[t] = "export" /\ ~Cancelled(JobOf(t))
  /\ SaveStep(t, "copy", InPhase(mem[t], "EXPORTING"))

CopyDisks(t) ==
  pc[t] = "copy" /\ SaveStep(t, "fixup", [mem[t] EXCEPT !.copied = TRUE])

\* Mutant of GuestFixup: the check after the copy is missing.
GuestFixup_NoCheck(t) ==
  /\ pc[t] = "fixup"
  /\ SaveStep(t, "finalizing", InPhase(mem[t], "FINALIZING"))

\* The last look at the cancel flag; the guest fix-up saves FINALIZING and cannot fail the job.
GuestFixup(t) ==
  /\ pc[t] = "fixup" /\ ~Cancelled(JobOf(t))
  /\ SaveStep(t, "finalizing", InPhase(mem[t], "FINALIZING"))

BeginFinalize(t) ==
  pc[t] = "finalizing" /\ SaveStep(t, "finalize", InPhase(mem[t], "FINALIZING"))

\* prov.finalize() saves COMPLETED, then the runner saves the document once more.
Finalize(t) ==
  pc[t] = "finalize" /\ SaveStep(t, "complete", InPhase(mem[t], "COMPLETED"))

Complete(t) ==
  /\ pc[t] = "complete"
  /\ Save(t, mem[t])
  /\ Leave(t)
  /\ UNCHANGED <<queue, task, slot, registry, gate, clients, restarts>>

\* The steps that check the cancel flag (before every OCI operation, chunk and disk) ...
CheckPoints == {"prepare", "attach", "export", "copy", "fixup"}
\* ... and the steps an exception of OCI, the source or the device can end.
Fallible == {"provision", "prepare", "attach", "copy", "install", "finalize"}

CheckCancel(t) ==
  /\ pc[t] \in CheckPoints /\ Cancelled(JobOf(t))
  /\ Goto(t, "cancelled")
  /\ UNCHANGED <<record, queue, task, mem, slot, registry, gate, clients, restarts>>

StepFails(t) ==
  /\ pc[t] \in Fallible
  /\ Goto(t, "fail")
  /\ UNCHANGED <<record, queue, task, mem, slot, registry, gate, clients, restarts>>

\* Mutant of MarkFailed: the failure path returns without giving the slot back.
MarkFailed_LeaksSlot(t) ==
  /\ pc[t] = "fail"
  /\ Save(t, InPhase(mem[t], "FAILED"))
  /\ Goto(t, "finish")
  /\ UNCHANGED <<queue, task, slot, registry, gate, clients, restarts>>

MarkFailed(t) ==
  /\ pc[t] = "fail"
  /\ Save(t, InPhase(mem[t], "FAILED"))
  /\ Leave(t)
  /\ UNCHANGED <<queue, task, slot, registry, gate, clients, restarts>>

NoteCancelled(t) ==
  pc[t] = "cancelled" /\ SaveStep(t, "teardown", mem[t])

\* prov.cleanup() is best effort and ends CANCELLED whatever the deletions did.
Teardown(t) ==
  /\ pc[t] = "teardown"
  /\ Save(t, InPhase(mem[t], "CANCELLED"))
  /\ Leave(t)
  /\ UNCHANGED <<queue, task, slot, registry, gate, clients, restarts>>

ReleaseSlot(t) ==
  /\ pc[t] = "release"
  /\ migrating' = IF migrating > 0 THEN migrating - 1 ELSE 0
  /\ slot' = [slot EXCEPT ![t] = FALSE]
  /\ Goto(t, "finish")
  /\ UNCHANGED <<record, queue, task, mem, registry, limit, clients, restarts>>

Finish(t) ==
  /\ pc[t] = "finish"
  /\ running' = running \ {JobOf(t)}
  /\ cancelRequested' = cancelRequested \ {JobOf(t)}
  /\ task' = [task EXCEPT ![t] = NoTask]
  /\ mem' = [mem EXCEPT ![t] = Gone]
  /\ Goto(t, "idle")
  /\ UNCHANGED <<record, queue, slot, gate, clients, restarts>>

ThreadStep(t) ==
  \/ TakeTask(t) \/ LoadJob(t) \/ AcquireSlot(t) \/ WaitForSlot(t) \/ CancelWaiting(t)
  \/ Provision(t) \/ Launch(t) \/ Install(t) \/ Attach(t) \/ BeginExport(t) \/ CopyDisks(t)
  \/ GuestFixup(t) \/ BeginFinalize(t) \/ Finalize(t) \/ Complete(t)
  \/ CheckCancel(t) \/ StepFails(t) \/ MarkFailed(t) \/ NoteCancelled(t) \/ Teardown(t)
  \/ ReleaseSlot(t) \/ Finish(t)

-----------------------------------------------------------------------------
(* Request handlers                                                         *)

CGoto(c, l) == cpc' = [cpc EXCEPT ![c] = l]

\* The request is answered: forget its job and snapshot.
Respond(c) ==
  /\ CGoto(c, "idle")
  /\ cjob' = [cjob EXCEPT ![c] = NoJob]
  /\ csnap' = [csnap EXCEPT ![c] = Gone]

\* store.put of the handler's snapshot as document d.
PutSnapshot(c, d) ==
  /\ store' = [store EXCEPT ![cjob[c]] = d]
  /\ UNCHANGED created

\* Hand a task to the runner: the job is in _running before the pool sees the task.
Submit(c, kind) ==
  /\ running' = running \cup {cjob[c]}
  /\ queue' = Append(queue, Task(kind, cjob[c]))
  /\ UNCHANGED cancelRequested

\* Read the job's record, the first statement of every handler that takes a job id.
ReadJob(c, j, l) ==
  /\ cpc[c] = "idle" /\ store[j] # Gone
  /\ cjob' = [cjob EXCEPT ![c] = j]
  /\ csnap' = [csnap EXCEPT ![c] = store[j]]
  /\ CGoto(c, l)
  /\ UNCHANGED <<record, pool, registry, gate, restarts>>

\* create_* run on the event loop without an await from the check to the submit, so one at a time;
\* ISO jobs have no source VM to check.
CreateCheck(c, j) ==
  /\ "create" \in Requests
  /\ cpc[c] = "idle" /\ j \notin created
  /\ \A d \in Clients : cpc[d] \notin {"createPut", "createSubmit"}
  /\ j \in IsoJobs \/ ActiveForVm(VmOf[j]) = {}
  /\ created' = created \cup {j}
  /\ cjob' = [cjob EXCEPT ![c] = j]
  /\ csnap' = [csnap EXCEPT ![c] = NewJob]
  /\ CGoto(c, "createPut")
  /\ UNCHANGED <<store, pool, registry, gate, restarts>>

CreatePut(c) ==
  /\ cpc[c] = "createPut"
  /\ PutSnapshot(c, csnap[c])
  /\ CGoto(c, "createSubmit")
  /\ UNCHANGED <<pool, registry, gate, cjob, csnap, restarts>>

CreateSubmit(c) ==
  /\ cpc[c] = "createSubmit"
  /\ Submit(c, IF cjob[c] \in IsoJobs THEN "iso" ELSE "run")
  /\ Respond(c)
  /\ UNCHANGED <<record, pc, task, mem, slot, gate, restarts>>

\* cancel_job: 409 for a job that is COMPLETED or CANCELLED ...
CancelRead(c, j) ==
  /\ "cancel" \in Requests
  /\ store[j].phase \notin {"COMPLETED", "CANCELLED"}
  /\ ReadJob(c, j, "cancelCheck")

\* ... a running job is flagged, any other is torn down by a task of its own.
CancelCheck(c) ==
  /\ cpc[c] = "cancelCheck"
  /\ CGoto(c, IF cjob[c] \in running THEN "cancelFlag" ELSE "cancelPut")
  /\ UNCHANGED <<record, pool, registry, gate, cjob, csnap, restarts>>

CancelFlag(c) ==
  /\ cpc[c] = "cancelFlag"
  /\ cancelRequested' = cancelRequested \cup {cjob[c]}
  /\ CGoto(c, "cancelNote")
  /\ UNCHANGED <<record, pool, running, gate, cjob, csnap, restarts>>

\* "Cancellation requested" is written with the snapshot read at the start of the request.
CancelNote(c) ==
  /\ cpc[c] = "cancelNote"
  /\ PutSnapshot(c, csnap[c])
  /\ Respond(c)
  /\ UNCHANGED <<pool, registry, gate, restarts>>

CancelPut(c) ==
  /\ cpc[c] = "cancelPut"
  /\ PutSnapshot(c, csnap[c])
  /\ CGoto(c, "cancelSubmit")
  /\ UNCHANGED <<pool, registry, gate, cjob, csnap, restarts>>

CancelSubmit(c) ==
  /\ cpc[c] = "cancelSubmit"
  /\ Submit(c, "cleanup")
  /\ Respond(c)
  /\ UNCHANGED <<record, pc, task, mem, slot, gate, restarts>>

ResumeRead(c, j) ==
  /\ "resume" \in Requests
  /\ j \notin IsoJobs
  /\ ReadJob(c, j, "resumeCheck")

\* Mutant of ResumeCheck: a job that runs already is resumed again.
ResumeCheck_EvenIfRunning(c) ==
  /\ cpc[c] = "resumeCheck"
  /\ IF ~CanResume(csnap[c])
       THEN Respond(c)
       ELSE CGoto(c, "resumePut") /\ UNCHANGED <<cjob, csnap>>
  /\ UNCHANGED <<record, pool, registry, gate, restarts>>

\* resume_finalize: 409 while the job runs, or unless it FAILED with an instance and copied disks.
ResumeCheck(c) ==
  /\ cpc[c] = "resumeCheck"
  /\ IF cjob[c] \in running \/ ~CanResume(csnap[c])
       THEN Respond(c)
       ELSE CGoto(c, "resumePut") /\ UNCHANGED <<cjob, csnap>>
  /\ UNCHANGED <<record, pool, registry, gate, restarts>>

ResumePut(c) ==
  /\ cpc[c] = "resumePut"
  /\ PutSnapshot(c, csnap[c])
  /\ CGoto(c, "resumeSubmit")
  /\ UNCHANGED <<pool, registry, gate, cjob, csnap, restarts>>

ResumeSubmit(c) ==
  /\ cpc[c] = "resumeSubmit"
  /\ Submit(c, "finalize")
  /\ Respond(c)
  /\ UNCHANGED <<record, pc, task, mem, slot, gate, restarts>>

\* finish_installation: the user reports an installation as done.
InstallRead(c, j) ==
  /\ "create" \in Requests
  /\ j \in IsoJobs /\ store[j].phase = "INSTALLING"
  /\ ReadJob(c, j, "installDone")

InstallDone(c) ==
  /\ cpc[c] = "installDone"
  /\ PutSnapshot(c, InPhase(csnap[c], "COMPLETED"))
  /\ Respond(c)
  /\ UNCHANGED <<pool, registry, gate, restarts>>

ClientStep(c) ==
  \/ CreatePut(c) \/ CreateSubmit(c)
  \/ CancelCheck(c) \/ CancelFlag(c) \/ CancelNote(c) \/ CancelPut(c) \/ CancelSubmit(c)
  \/ ResumeCheck(c) \/ ResumePut(c) \/ ResumeSubmit(c)
  \/ InstallDone(c)

NewRequest(c, j) ==
  CreateCheck(c, j) \/ CancelRead(c, j) \/ ResumeRead(c, j) \/ InstallRead(c, j)

\* purge_jobs: one DELETE removes the rows in the given terminal phases.
Purge(phases) ==
  /\ "purge" \in Requests
  /\ \E j \in Jobs : store[j].phase \in phases
  /\ store' = [j \in Jobs |-> IF store[j].phase \in phases THEN Gone ELSE store[j]]
  /\ UNCHANGED <<created, pool, registry, gate, clients, restarts>>

PurgeScopes == {Terminal, {"FAILED", "CANCELLED"}}

SetMaxConcurrent(n) ==
  /\ "limit" \in Requests
  /\ limit' = Clamp(n)
  /\ UNCHANGED <<record, pool, registry, migrating, clients, restarts>>

StaleAtStart == Active \ {"INSTALLING"}
\* Mutant of FailStale: only the phases in which the helper works are marked.
FailStale_NotQueued(d) ==
  IF d.phase \in StaleAtStart \ {"QUEUED"} THEN InPhase(d, "FAILED") ELSE d
\* fail_stale_jobs, for one record.
FailStale(d) == IF d.phase \in StaleAtStart THEN InPhase(d, "FAILED") ELSE d

\* The process stops and starts again: everything in memory is lost, and before it serves requests
\* fail_stale_jobs marks every stored job in flight as FAILED, except an installation under way.
Restart ==
  /\ "restart" \in Requests /\ restarts < MaxRestarts
  /\ restarts' = restarts + 1
  /\ store' = [j \in Jobs |-> FailStale(store[j])]
  /\ queue' = <<>>
  /\ pc' = [t \in Threads |-> "idle"]
  /\ task' = [t \in Threads |-> NoTask]
  /\ mem' = [t \in Threads |-> Gone]
  /\ slot' = [t \in Threads |-> FALSE]
  /\ running' = {} /\ cancelRequested' = {} /\ migrating' = 0
  /\ cpc' = [c \in Clients |-> "idle"]
  /\ cjob' = [c \in Clients |-> NoJob]
  /\ csnap' = [c \in Clients |-> Gone]
  /\ UNCHANGED <<created, limit>>

Init ==
  /\ store = [j \in Jobs |-> Gone] /\ created = {}
  /\ queue = <<>>
  /\ pc = [t \in Threads |-> "idle"]
  /\ task = [t \in Threads |-> NoTask]
  /\ mem = [t \in Threads |-> Gone]
  /\ slot = [t \in Threads |-> FALSE]
  /\ running = {} /\ cancelRequested = {}
  /\ migrating = 0 /\ limit \in 1..MaxLimit
  /\ cpc = [c \in Clients |-> "idle"]
  /\ cjob = [c \in Clients |-> NoJob]
  /\ csnap = [c \in Clients |-> Gone]
  /\ restarts = 0

Next ==
  \/ \E t \in Threads : ThreadStep(t)
  \/ \E c \in Clients : ClientStep(c)
  \/ \E c \in Clients, j \in Jobs : NewRequest(c, j)
  \/ \E phases \in PurgeScopes : Purge(phases)
  \/ \E n \in 0..MaxLimit + 1 : SetMaxConcurrent(n)
  \/ Restart

\* Pool threads run, every remote wait has a timeout, and a handler that started answers.  No new
\* request, purge, restart or change of the limit has to happen.
Fairness ==
  /\ \A t \in Threads : WF_vars(ThreadStep(t))
  /\ \A c \in Clients : WF_vars(ClientStep(c))

Spec == Init /\ [][Next]_vars /\ Fairness
-----------------------------------------------------------------------------
(* Properties                                                               *)

\* Every variable has its type: documents, labels of threads and handlers, tasks of known kinds.
TypeOK ==
  /\ store \in [Jobs -> Docs] /\ created \in SUBSET Jobs
  /\ queue \in Seq(Tasks)
  /\ pc \in [Threads -> ThreadPC]
  /\ task \in [Threads -> Tasks \cup {NoTask}]
  /\ mem \in [Threads -> Docs]
  /\ slot \in [Threads -> BOOLEAN]
  /\ running \in SUBSET Jobs /\ cancelRequested \in SUBSET Jobs
  /\ migrating \in Nat /\ limit \in 1..MaxLimit
  /\ cpc \in [Clients -> ClientPC]
  /\ cjob \in [Clients -> Jobs \cup {NoJob}]
  /\ csnap \in [Clients -> Docs]
  /\ restarts \in Nat

\* The counter of the gate is the number of threads that hold a slot, however a task ends (_acquire_slot,
\* _release_slot, the finally of _run_safely): no slot leaks and none is given back twice.
SlotsExact == migrating = Cardinality({t \in Threads : slot[t]})

\* However often the limit changes, no more than MAX_CONCURRENT_JOBS threads hold a slot: the 32 volume
\* attachments of the helper bound that number.
SlotsBounded == Cardinality({t \in Threads : slot[t]}) <= MaxLimit

\* No migration starts copying beyond the limit in force at that moment; the count may stay above a
\* limit that was lowered, since set_max_concurrent never interrupts a running migration.
SlotGrowth == [][migrating' > migrating => migrating' <= limit]_vars

Busy       == {t \in Threads : pc[t] # "idle"}
QueuedJobs == {queue[i].job : i \in DOMAIN queue}
BusyJobs   == {JobOf(t) : t \in Busy}

\* With requests served one after the other, _running names exactly the jobs with a task in the pool, and
\* each of them has one task: is_running can be trusted, no two threads work on the same job.
RegistryExact ==
  /\ running = QueuedJobs \cup BusyJobs
  /\ \A i, k \in DOMAIN queue : queue[i].job = queue[k].job => i = k
  /\ \A t, u \in Busy : JobOf(t) = JobOf(u) => t = u
  /\ QueuedJobs \cap BusyJobs = {}

Migrated ==
  {queue[i].job : i \in {n \in DOMAIN queue : queue[n].kind = "run"}} \cup
  {JobOf(t) : t \in {u \in Threads : task[u].kind = "run" /\ pc[u] \notin {"complete", "release", "finish"}}}

\* With requests served one after the other, no VM is migrated by two jobs at a time, from the submit to the
\* run's last step (active_for_vm in create_job, create_azure_job, create_gcp_job), whatever is cancelled,
\* resumed, purged or restarted.
VmExclusive == \A j, k \in Migrated : VmOf[j] = VmOf[k] => j = k

\* Without cancel requests nobody overwrites what a thread saved: until its last save the stored document
\* is the thread's copy, or the row was purged.
NoLostUpdate ==
  \A t \in Threads :
    pc[t] \notin {"idle", "start", "release", "finish"} => store[JobOf(t)] \in {mem[t], Gone}

\* A record that says the job is in flight has a task working on it (or a create request about to submit
\* it); no job is left for active_for_vm to find for ever.
ActiveIsOwned ==
  \A j \in Jobs :
    store[j].phase \in Active \ {"INSTALLING"} =>
      \/ j \in running
      \/ \E c \in Clients : cjob[c] = j /\ cpc[c] = "createSubmit"

\* Every task handed to the pool comes to its _finish, also with more jobs than slots and threads.
TasksFinish == \A j \in Jobs : j \in running ~> j \notin running

\* A run that is flagged before its last look at the cancel flag never completes: the thread that
\* executes it ends with the job CANCELLED, or FAILED when the step under way fails first.
EarlyPC == {"slot", "waiting", "provision", "prepare", "attach", "export", "copy", "fixup"}
EarlyCancelStopsRun ==
  \A j \in Jobs \ IsoJobs :
    (Cancelled(j) /\ \E t \in Threads : JobOf(t) = j /\ pc[t] \in EarlyPC)
      ~> (\E t \in Threads : JobOf(t) = j /\ mem[t].phase \in {"CANCELLED", "FAILED"})
================================================================================
