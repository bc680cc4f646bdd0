-------------------------- MODULE MigrationJobsProofs --------------------------
(***************************************************************************)
(* Proofs about MigrationJobs, for any number of jobs, threads and clients, *)
(* any limit, and any mix of requests and restarts:                         *)
(*   - type correctness;                                                    *)
(*   - the accounting of migration slots (SlotsExact), that the gate never  *)
(*     opens beyond the limit (SlotGrowth), and that at most MaxLimit       *)
(*     threads ever hold a slot;                                            *)
(*   - with requests served one at a time: the registry of running jobs     *)
(*     (RegistryExact) and one migration per VM (VmExclusive);              *)
(*   - without cancel requests besides: no lost update (NoLostUpdate), and  *)
(*     a task for every record in flight (ActiveIsOwned).                   *)
(***************************************************************************)
EXTENDS MigrationJobs, FiniteSetTheorems, TLAPS

-----------------------------------------------------------------------------
(* Type correctness.  TypeOK alone is not inductive: a thread indexes the   *)
(* job table by its task's job, which must be a job while it is busy, and a *)
(* handler submits a task for the job of its request.                       *)

BusyHasTask  == \A t \in Threads : pc[t] # "idle" => task[t] \in Tasks
RequestHasJob == \A c \in Clients : cpc[c] # "idle" => cjob[c] \in Jobs
TypeInv == TypeOK /\ BusyHasTask /\ RequestHasJob

LEMMA DocTypes ==
  /\ Gone \in Docs
  /\ NewJob \in Docs
  /\ \A d \in Docs, p \in Phase : InPhase(d, p) \in Docs
BY DEF Gone, NewJob, Doc, Docs, InPhase, Phase, Active, Terminal

LEMMA ClampType == \A n \in Nat : Clamp(n) \in 1..MaxLimit
BY LimitAssumption DEF Clamp

LEMMA InitTypeInv == Init => TypeInv
BY DocTypes, LimitAssumption
   DEF Init, TypeInv, TypeOK, BusyHasTask, RequestHasJob, ThreadPC, ClientPC, NoTask, Task

\* A save keeps the types of the table and of the thread's copy.
LEMMA SaveTypes ==
  ASSUME TypeInv, NEW t \in Threads, NEW d \in Docs, Save(t, d)
  PROVE  store' \in [Jobs -> Docs] /\ mem' \in [Threads -> Docs] /\ created' \in SUBSET Jobs
BY DEF TypeInv, TypeOK, Save

\* A step that only saves and moves the thread to another busy label.
LEMMA SaveStepTypes ==
  ASSUME TypeInv, NEW t \in Threads, pc[t] # "idle", NEW l \in ThreadPC, NEW d \in Docs, SaveStep(t, l, d)
  PROVE  TypeInv'
<1>1. store' \in [Jobs -> Docs] /\ mem' \in [Threads -> Docs] /\ created' \in SUBSET Jobs
  BY SaveTypes DEF SaveStep
<1>2. pc' \in [Threads -> ThreadPC]
  BY DEF SaveStep, Goto, TypeInv, TypeOK
<1>3. BusyHasTask'
  BY DEF SaveStep, Goto, TypeInv, TypeOK, BusyHasTask
<1>4. RequestHasJob'
  BY DEF SaveStep, clients, TypeInv, RequestHasJob
<1>. QED
  BY <1>1, <1>2, <1>3, <1>4 DEF SaveStep, registry, gate, clients, TypeInv, TypeOK

\* A step that saves and leaves the task.
LEMMA LeaveTypes ==
  ASSUME TypeInv, NEW t \in Threads, pc[t] # "idle", NEW d \in Docs, Save(t, d), Leave(t),
         UNCHANGED <<queue, task, slot, registry, gate, clients, restarts>>
  PROVE  TypeInv'
<1>1. PICK l \in ThreadPC : Goto(t, l)
  BY DEF Leave, ThreadPC
<1>. QED
  BY <1>1, SaveStepTypes DEF SaveStep

\* A step that only moves the thread to another busy label.
LEMMA GotoTypes ==
  ASSUME TypeInv, NEW t \in Threads, pc[t] # "idle", NEW l \in ThreadPC, Goto(t, l),
         UNCHANGED <<record, queue, task, mem, slot, registry, gate, clients, restarts>>
  PROVE  TypeInv'
BY DEF Goto, record, registry, gate, clients, TypeInv, TypeOK, BusyHasTask, RequestHasJob

LEMMA ThreadTypes ==
  ASSUME TypeInv, NEW t \in Threads, ThreadStep(t)
  PROVE  TypeInv'
<1>. USE DEF ThreadPC
<1>0. mem[t] \in Docs /\ store \in [Jobs -> Docs] /\ \A p \in Phase : InPhase(mem[t], p) \in Docs
  BY DocTypes DEF TypeInv, TypeOK
<1>1. CASE TakeTask(t)
  <2>1. Head(queue) \in Tasks /\ Tail(queue) \in Seq(Tasks)
    BY <1>1 DEF TakeTask, TypeInv, TypeOK
  <2>. QED
    BY <1>1, <2>1 DEF TakeTask, Goto, record, registry, gate, clients, TypeInv, TypeOK, BusyHasTask, RequestHasJob
<1>2. CASE LoadJob(t)
  <2>1. task[t] \in Tasks /\ store[JobOf(t)] \in Docs
    BY <1>2, <1>0 DEF LoadJob, TypeInv, BusyHasTask, JobOf, Tasks
  <2>2. FirstStep(task[t].kind) \in ThreadPC
    BY <2>1 DEF FirstStep, Tasks, Kinds
  <2>3. pc' \in [Threads -> ThreadPC] /\ mem' \in [Threads -> Docs]
    BY <1>2, <2>1, <2>2 DEF LoadJob, Goto, TypeInv, TypeOK
  <2>4. BusyHasTask'
    BY <1>2 DEF LoadJob, Goto, TypeInv, TypeOK, BusyHasTask
  <2>. QED
    BY <1>2, <2>3, <2>4 DEF LoadJob, record, registry, gate, clients, TypeInv, TypeOK, RequestHasJob
<1>3. CASE AcquireSlot(t)
  BY <1>3 DEF AcquireSlot, Goto, record, registry, clients, TypeInv, TypeOK, BusyHasTask, RequestHasJob
<1>4. CASE WaitForSlot(t)
  BY <1>4, <1>0, SaveStepTypes DEF WaitForSlot, SaveStep
<1>5. CASE CancelWaiting(t)
  BY <1>5, GotoTypes DEF CancelWaiting
<1>6. CASE Provision(t)
  BY <1>6, <1>0, SaveStepTypes DEF Provision, Phase, Active
<1>7. CASE Launch(t)
  <2>1. [InPhase(mem[t], "PROVISIONING") EXCEPT !.inst = TRUE] \in Docs
    BY <1>0 DEF Docs, Phase, Active
  <2>. QED
    BY <1>7, <2>1, SaveStepTypes DEF Launch
<1>8. CASE Install(t)
  BY <1>8, <1>0, LeaveTypes DEF Install, Phase, Active
<1>9. CASE Attach(t)
  BY <1>9, <1>0, SaveStepTypes DEF Attach
<1>10. CASE BeginExport(t)
  BY <1>10, <1>0, SaveStepTypes DEF BeginExport, Phase, Active
<1>11. CASE CopyDisks(t)
  <2>1. [mem[t] EXCEPT !.copied = TRUE] \in Docs
    BY <1>0 DEF Docs
  <2>. QED
    BY <1>11, <2>1, SaveStepTypes DEF CopyDisks
<1>12. CASE GuestFixup(t)
  BY <1>12, <1>0, SaveStepTypes DEF GuestFixup, Phase, Active
<1>13. CASE BeginFinalize(t)
  BY <1>13, <1>0, SaveStepTypes DEF BeginFinalize, Phase, Active
<1>14. CASE Finalize(t)
  BY <1>14, <1>0, SaveStepTypes DEF Finalize, Phase, Terminal
<1>15. CASE Complete(t)
  BY <1>15, <1>0, LeaveTypes DEF Complete
<1>16. CASE CheckCancel(t)
  BY <1>16, GotoTypes DEF CheckCancel, CheckPoints
<1>17. CASE StepFails(t)
  BY <1>17, GotoTypes DEF StepFails, Fallible
<1>18. CASE MarkFailed(t)
  BY <1>18, <1>0, LeaveTypes DEF MarkFailed, Phase, Terminal
<1>19. CASE NoteCancelled(t)
  BY <1>19, <1>0, SaveStepTypes DEF NoteCancelled
<1>20. CASE Teardown(t)
  BY <1>20, <1>0, LeaveTypes DEF Teardown, Phase, Terminal
<1>21. CASE ReleaseSlot(t)
  BY <1>21 DEF ReleaseSlot, Goto, record, registry, clients, TypeInv, TypeOK, BusyHasTask, RequestHasJob
<1>22. CASE Finish(t)
  BY <1>22, DocTypes DEF Finish, Goto, record, gate, clients, TypeInv, TypeOK, BusyHasTask, RequestHasJob
<1>. QED
  BY <1>1, <1>2, <1>3, <1>4, <1>5, <1>6, <1>7, <1>8, <1>9, <1>10, <1>11, <1>12, <1>13, <1>14, <1>15, <1>16,
     <1>17, <1>18, <1>19, <1>20, <1>21, <1>22 DEF ThreadStep

\* A request that only reads the record or moves on.
LEMMA ClientTypes ==
  ASSUME TypeInv, NEW c \in Clients, ClientStep(c)
  PROVE  TypeInv'
<1>. USE DEF ClientPC, CGoto, Respond, record, pool, registry, gate, clients, TypeInv, TypeOK, BusyHasTask,
             RequestHasJob
<1>0. csnap[c] \in Docs /\ Gone \in Docs /\ \A p \in Phase : InPhase(csnap[c], p) \in Docs
  BY DocTypes
<1>1. ASSUME NEW kind \in Kinds, cpc[c] # "idle", Submit(c, kind)
      PROVE  running' \in SUBSET Jobs /\ queue' \in Seq(Tasks) /\ cancelRequested' \in SUBSET Jobs
  <2>1. Task(kind, cjob[c]) \in Tasks
    BY <1>1 DEF Task, Tasks
  <2>. QED
    BY <1>1, <2>1 DEF Submit
<1>2. CASE CreatePut(c)
  BY <1>2, <1>0 DEF CreatePut, PutSnapshot
<1>3. CASE CreateSubmit(c)
  BY <1>3, <1>0, <1>1 DEF CreateSubmit, Kinds
<1>4. CASE CancelCheck(c)
  BY <1>4 DEF CancelCheck
<1>5. CASE CancelFlag(c)
  BY <1>5 DEF CancelFlag
<1>6. CASE CancelNote(c)
  BY <1>6, <1>0 DEF CancelNote, PutSnapshot
<1>7. CASE CancelPut(c)
  BY <1>7, <1>0 DEF CancelPut, PutSnapshot
<1>8. CASE CancelSubmit(c)
  BY <1>8, <1>0, <1>1 DEF CancelSubmit, Kinds
<1>9. CASE ResumeCheck(c)
  BY <1>9, <1>0 DEF ResumeCheck
<1>10. CASE ResumePut(c)
  BY <1>10, <1>0 DEF ResumePut, PutSnapshot
<1>11. CASE ResumeSubmit(c)
  BY <1>11, <1>0, <1>1 DEF ResumeSubmit, Kinds
<1>12. CASE InstallDone(c)
  BY <1>12, <1>0 DEF InstallDone, PutSnapshot, Phase, Terminal
<1>. QED
  BY <1>2, <1>3, <1>4, <1>5, <1>6, <1>7, <1>8, <1>9, <1>10, <1>11, <1>12 DEF ClientStep

LEMMA RequestTypes ==
  ASSUME TypeInv, NEW c \in Clients, NEW j \in Jobs, NewRequest(c, j)
  PROVE  TypeInv'
<1>. USE DEF ClientPC, CGoto, record, pool, registry, gate, clients, TypeInv, TypeOK, BusyHasTask, RequestHasJob
<1>1. CASE CreateCheck(c, j)
  BY <1>1, DocTypes DEF CreateCheck
<1>2. CASE CancelRead(c, j)
  BY <1>2 DEF CancelRead, ReadJob
<1>3. CASE ResumeRead(c, j)
  BY <1>3 DEF ResumeRead, ReadJob
<1>4. CASE InstallRead(c, j)
  BY <1>4 DEF InstallRead, ReadJob
<1>. QED
  BY <1>1, <1>2, <1>3, <1>4 DEF NewRequest

LEMMA OtherTypes ==
  ASSUME TypeInv, \/ \E phases \in PurgeScopes : Purge(phases)
                  \/ \E n \in 0..MaxLimit + 1 : SetMaxConcurrent(n)
                  \/ Restart
  PROVE  TypeInv'
<1>. USE DEF record, pool, registry, gate, clients, TypeInv, TypeOK, BusyHasTask, RequestHasJob
<1>1. ASSUME NEW phases \in PurgeScopes, Purge(phases)
      PROVE  TypeInv'
  BY <1>1, DocTypes DEF Purge
<1>2. ASSUME NEW n \in 0..MaxLimit + 1, SetMaxConcurrent(n)
      PROVE  TypeInv'
  <2>1. limit' \in 1..MaxLimit
    BY <1>2, ClampType, LimitAssumption DEF SetMaxConcurrent
  <2>2. UNCHANGED <<record, pool, registry, migrating, clients, restarts>>
    BY <1>2 DEF SetMaxConcurrent
  <2>3. QED
    BY <2>1, <2>2
<1>3. CASE Restart
  <2>1. \A d \in Docs : FailStale(d) \in Docs
    BY DocTypes DEF FailStale, Phase, Terminal
  <2>. QED
    BY <1>3, <2>1, DocTypes DEF Restart, ThreadPC, ClientPC, NoTask
<1>. QED
  BY <1>1, <1>2, <1>3

LEMMA NextTypeInv == TypeInv /\ [Next]_vars => TypeInv'
<1>1. CASE UNCHANGED vars
  BY <1>1 DEF vars, TypeInv, TypeOK, BusyHasTask, RequestHasJob
<1>2. CASE Next
  BY <1>2, ThreadTypes, ClientTypes, RequestTypes, OtherTypes DEF Next
<1>. QED
  BY <1>1, <1>2

LEMMA AlwaysTypeInv == Spec => []TypeInv
BY InitTypeInv, NextTypeInv, PTL DEF Spec

\* Every variable keeps its type, whatever requests, failures and restarts happen.
THEOREM TypeCorrect == Spec => []TypeOK
<1>1. TypeInv => TypeOK
  BY DEF TypeInv
<1>. QED
  BY <1>1, AlwaysTypeInv, PTL

-----------------------------------------------------------------------------
(* Slot accounting.  The counter alone says nothing about who holds a slot; *)
(* SlotAtLabel ties the local flag of a thread to where the thread is: no   *)
(* slot before the gate and after _release_slot, one at _release_slot.      *)

Holders == {t \in Threads : slot[t]}

SlotAtLabel ==
  \A t \in Threads :
    /\ pc[t] \in {"idle", "start", "slot", "waiting", "finish"} => ~slot[t]
    /\ pc[t] = "release" => slot[t]

SlotInv == SlotAtLabel /\ SlotsExact /\ migrating <= MaxLimit

LEMMA HoldersFinite == IsFiniteSet(Holders)
BY ThreadsAssumption, FS_Subset DEF Holders

LEMMA InitSlotInv == Init => SlotInv
<1>. SUFFICES ASSUME Init PROVE SlotInv
  OBVIOUS
<1>1. Holders = {}
  BY DEF Init, Holders
<1>2. SlotsExact
  BY <1>1, FS_EmptySet DEF Init, SlotsExact, Holders
<1>. QED
  BY <1>2, LimitAssumption DEF Init, SlotInv, SlotAtLabel

\* Moving to a label with no condition on the slot keeps SlotAtLabel.
LEMMA GotoSlot ==
  ASSUME TypeInv, SlotInv, NEW t \in Threads, NEW l \in ThreadPC, Goto(t, l),
         l \in {"idle", "start", "slot", "waiting", "finish"} => ~slot[t],
         l = "release" => slot[t],
         UNCHANGED <<slot, migrating>>
  PROVE  SlotInv'
<1>1. SlotAtLabel'
  BY DEF Goto, SlotInv, SlotAtLabel, TypeInv, TypeOK
<1>. QED
  BY <1>1 DEF SlotInv, SlotsExact

LEMMA LeaveSlot ==
  ASSUME TypeInv, SlotInv, NEW t \in Threads, Leave(t), UNCHANGED <<slot, migrating>>
  PROVE  SlotInv'
<1>1. CASE slot[t]
  BY <1>1, GotoSlot DEF Leave, ThreadPC
<1>2. CASE ~slot[t]
  BY <1>2, GotoSlot DEF Leave, ThreadPC
<1>. QED
  BY <1>1, <1>2

LEMMA AcquireSlotInv ==
  ASSUME TypeInv, SlotInv, NEW t \in Threads, AcquireSlot(t)
  PROVE  SlotInv'
<1>1. ~slot[t] /\ Holders' = Holders \cup {t}
  BY DEF AcquireSlot, SlotInv, SlotAtLabel, Holders, TypeInv, TypeOK
<1>2. Cardinality(Holders') = Cardinality(Holders) + 1
  BY <1>1, HoldersFinite, FS_AddElement DEF Holders
<1>3. SlotsExact'
  BY <1>2 DEF AcquireSlot, SlotInv, SlotsExact, Holders
<1>4. SlotAtLabel'
  BY DEF AcquireSlot, Goto, SlotInv, SlotAtLabel, TypeInv, TypeOK
<1>5. migrating' <= MaxLimit
  BY LimitAssumption DEF AcquireSlot, TypeInv, TypeOK
<1>. QED
  BY <1>3, <1>4, <1>5 DEF SlotInv

LEMMA ReleaseSlotInv ==
  ASSUME TypeInv, SlotInv, NEW t \in Threads, ReleaseSlot(t)
  PROVE  SlotInv'
<1>1. slot[t] /\ Holders' = Holders \ {t}
  BY DEF ReleaseSlot, SlotInv, SlotAtLabel, Holders, TypeInv, TypeOK
<1>2. Cardinality(Holders') = Cardinality(Holders) - 1 /\ Cardinality(Holders) \in Nat
  BY <1>1, HoldersFinite, FS_RemoveElement, FS_CardinalityType DEF Holders
<1>3. Cardinality(Holders) # 0
  BY <1>1, HoldersFinite, FS_EmptySet DEF Holders
<1>4. SlotsExact' /\ migrating' <= MaxLimit
  BY <1>2, <1>3, LimitAssumption DEF ReleaseSlot, SlotInv, SlotsExact, Holders, TypeInv, TypeOK
<1>5. SlotAtLabel'
  BY DEF ReleaseSlot, Goto, SlotInv, SlotAtLabel, TypeInv, TypeOK
<1>. QED
  BY <1>4, <1>5 DEF SlotInv

LEMMA ThreadSlotInv ==
  ASSUME TypeInv, SlotInv, NEW t \in Threads, ThreadStep(t)
  PROVE  SlotInv'
<1>. USE DEF ThreadPC, gate
<1>1. CASE TakeTask(t)
  BY <1>1, GotoSlot DEF TakeTask, SlotInv, SlotAtLabel
<1>2. CASE LoadJob(t)
  <2>1. task[t] \in Tasks /\ ~slot[t]
    BY <1>2 DEF LoadJob, TypeInv, BusyHasTask, SlotInv, SlotAtLabel
  <2>2. FirstStep(task[t].kind) \in ThreadPC /\ FirstStep(task[t].kind) # "release"
    BY <2>1 DEF FirstStep, Tasks, Kinds
  <2>. QED
    BY <1>2, <2>1, <2>2, GotoSlot DEF LoadJob
<1>3. CASE AcquireSlot(t)
  BY <1>3, AcquireSlotInv
<1>4. CASE WaitForSlot(t)
  BY <1>4, GotoSlot DEF WaitForSlot, SlotInv, SlotAtLabel
<1>5. CASE CancelWaiting(t)
  BY <1>5, GotoSlot DEF CancelWaiting
<1>6. CASE Provision(t) \/ Attach(t) \/ BeginExport(t) \/ CopyDisks(t) \/ GuestFixup(t) \/ BeginFinalize(t)
           \/ Finalize(t) \/ NoteCancelled(t)
  BY <1>6, GotoSlot DEF Provision, Attach, BeginExport, CopyDisks, GuestFixup, BeginFinalize, Finalize,
                        NoteCancelled, SaveStep
<1>7. CASE Launch(t)
  BY <1>7, GotoSlot DEF Launch, SaveStep
<1>8. CASE Install(t) \/ Complete(t) \/ MarkFailed(t) \/ Teardown(t)
  BY <1>8, LeaveSlot DEF Install, Complete, MarkFailed, Teardown
<1>9. CASE CheckCancel(t) \/ StepFails(t)
  BY <1>9, GotoSlot DEF CheckCancel, StepFails
<1>10. CASE ReleaseSlot(t)
  BY <1>10, ReleaseSlotInv
<1>11. CASE Finish(t)
  BY <1>11, GotoSlot DEF Finish, SlotInv, SlotAtLabel
<1>. QED
  BY <1>1, <1>2, <1>3, <1>4, <1>5, <1>6, <1>7, <1>8, <1>9, <1>10, <1>11 DEF ThreadStep

\* Nobody but the threads and a restart touches the gate's counter or a thread.
LEMMA OthersKeepPool ==
  ASSUME \/ \E c \in Clients : ClientStep(c)
         \/ \E c \in Clients, j \in Jobs : NewRequest(c, j)
         \/ \E phases \in PurgeScopes : Purge(phases)
         \/ \E n \in 0..MaxLimit + 1 : SetMaxConcurrent(n)
  PROVE  UNCHANGED <<pc, task, mem, slot, migrating>>
BY DEF pool, gate, ClientStep, CreatePut, CreateSubmit, CancelCheck, CancelFlag, CancelNote, CancelPut,
       CancelSubmit, ResumeCheck, ResumePut, ResumeSubmit, InstallDone, NewRequest, CreateCheck, CancelRead,
       ResumeRead, InstallRead, ReadJob, Purge, SetMaxConcurrent

LEMMA NextSlotInv == TypeInv /\ SlotInv /\ [Next]_vars => SlotInv'
<1>. SUFFICES ASSUME TypeInv, SlotInv, [Next]_vars PROVE SlotInv'
  OBVIOUS
<1>1. CASE UNCHANGED <<pc, task, mem, slot, migrating>>
  BY <1>1 DEF SlotInv, SlotAtLabel, SlotsExact
<1>2. CASE Restart
  <2>1. Holders' = {}
    BY <1>2 DEF Restart, Holders
  <2>2. SlotsExact'
    BY <1>2, <2>1, FS_EmptySet DEF Restart, SlotsExact, Holders
  <2>. QED
    BY <1>2, <2>2, LimitAssumption DEF Restart, SlotInv, SlotAtLabel
<1>3. CASE UNCHANGED vars
  BY <1>1, <1>3 DEF vars
<1>. QED
  BY <1>1, <1>2, <1>3, ThreadSlotInv, OthersKeepPool DEF Next

LEMMA AlwaysSlotInv == Spec => []SlotInv
BY InitSlotInv, NextSlotInv, AlwaysTypeInv, PTL DEF Spec

\* The counter of the gate equals the number of threads holding a slot.
THEOREM SlotsAccounted == Spec => []SlotsExact
<1>1. SlotInv => SlotsExact
  BY DEF SlotInv
<1>. QED
  BY <1>1, AlwaysSlotInv, PTL

\* At most MaxLimit threads hold a slot, whatever the limit was set to in the meantime.
THEOREM SlotsNeverExceedMax == Spec => []SlotsBounded
<1>1. SlotInv => SlotsBounded
  BY DEF SlotInv, SlotsExact, SlotsBounded
<1>. QED
  BY <1>1, AlwaysSlotInv, PTL

\* A slot is only taken below the limit in force.
THEOREM GateRespectsLimit == Spec => SlotGrowth
<1>1. TypeInv /\ [Next]_vars => [migrating' > migrating => migrating' <= limit]_vars
  <2>. SUFFICES ASSUME TypeInv, Next, migrating' > migrating PROVE migrating' <= limit
    BY DEF vars
  <2>0. migrating \in Nat /\ limit \in Nat
    BY LimitAssumption DEF TypeInv, TypeOK
  <2>1. ~UNCHANGED migrating
    BY <2>0
  <2>2. ~Restart
    BY <2>0 DEF Restart
  <2>3. PICK t \in Threads : ThreadStep(t)
    BY <2>1, <2>2, OthersKeepPool DEF Next
  <2>4. AcquireSlot(t)
    BY <2>0, <2>1, <2>3 DEF ThreadStep, TakeTask, LoadJob, WaitForSlot, CancelWaiting, Provision, Launch, Install,
          Attach, BeginExport, CopyDisks, GuestFixup, BeginFinalize, Finalize, Complete, CheckCancel, StepFails,
          MarkFailed, NoteCancelled, Teardown, ReleaseSlot, Finish, SaveStep, gate
  <2>. QED
    BY <2>0, <2>4 DEF AcquireSlot
<1>. QED
  BY <1>1, AlwaysTypeInv, PTL DEF Spec, SlotGrowth

-----------------------------------------------------------------------------
(* The registry of running jobs, when requests are served one at a time.    *)
(* RegistryExact needs three more facts: a handler that is about to submit  *)
(* still finds its job idle, an id is created before it is used anywhere,   *)
(* and (Serial) no other handler runs in between.                           *)

Serial == \A c, d \in Clients : c = d

AboutToSubmit ==
  {"createPut", "createSubmit", "cancelPut", "cancelSubmit", "resumePut", "resumeSubmit"}
SubmitsIdleJob == \A c \in Clients : cpc[c] \in AboutToSubmit => cjob[c] \notin running
IdsCreated ==
  /\ running \subseteq created
  /\ \A j \in Jobs : store[j] # Gone => j \in created
  /\ \A c \in Clients : cpc[c] # "idle" => cjob[c] \in created

RegInv == RegistryExact /\ SubmitsIdleJob /\ IdsCreated

LEMMA InitRegInv == Init => RegInv
<1>. SUFFICES ASSUME Init PROVE RegInv
  OBVIOUS
<1>1. QueuedJobs = {} /\ Busy = {} /\ BusyJobs = {}
  BY DEF Init, QueuedJobs, Busy, BusyJobs
<1>. QED
  BY <1>1 DEF Init, RegInv, RegistryExact, SubmitsIdleJob, IdsCreated, AboutToSubmit

\* Steps that neither hand over, take nor finish a task leave the registry, the queue and who is busy alone.
LEMMA SamePool ==
  ASSUME TypeInv, RegInv, UNCHANGED <<queue, task, running>>,
         \A t \in Threads : pc'[t] = "idle" <=> pc[t] = "idle"
  PROVE  RegistryExact'
<1>1. Busy' = Busy /\ BusyJobs' = BusyJobs /\ QueuedJobs' = QueuedJobs
  BY DEF Busy, BusyJobs, QueuedJobs, JobOf
<1>. QED
  BY <1>1 DEF RegInv, RegistryExact, JobOf, Busy

\* A thread that saves or only moves, from one busy label to another.
LEMMA MoveKeepsReg ==
  ASSUME TypeInv, RegInv, NEW t \in Threads, pc[t] # "idle", NEW l \in ThreadPC \ {"idle"}, Goto(t, l),
         UNCHANGED <<queue, task, created, running, clients>>,
         \A j \in Jobs : store'[j] # Gone => store[j] # Gone \/ j \in running
  PROVE  RegInv'
<1>1. RegistryExact'
  BY SamePool DEF Goto, TypeInv, TypeOK
<1>. QED
  BY <1>1 DEF clients, RegInv, SubmitsIdleJob, IdsCreated

\* Only the record of a busy thread's job changes in a save, and that job is running.
LEMMA SaveWritesRunning ==
  ASSUME TypeInv, RegInv, NEW t \in Threads, pc[t] # "idle", NEW d \in Docs, Save(t, d)
  PROVE  \A j \in Jobs : store'[j] # Gone => store[j] # Gone \/ j \in running
<1>1. JobOf(t) \in running
  BY DEF RegInv, RegistryExact, BusyJobs, Busy
<1>. QED
  BY <1>1 DEF Save, TypeInv, TypeOK

LEMMA TakeTaskReg ==
  ASSUME TypeInv, RegInv, NEW t \in Threads, TakeTask(t)
  PROVE  RegInv'
<1>0. queue \in Seq(Tasks) /\ queue # <<>> /\ queue' = Tail(queue) /\ task' = [task EXCEPT ![t] = Head(queue)]
  BY DEF TakeTask, TypeInv, TypeOK
<1>1. DOMAIN queue = 1..Len(queue) /\ DOMAIN queue' = 1..(Len(queue) - 1) /\ Len(queue) \in Nat \ {0}
  BY <1>0
<1>2. \A i \in DOMAIN queue' : queue'[i] = queue[i + 1] /\ i + 1 \in DOMAIN queue
  BY <1>0, <1>1
<1>3. Head(queue) = queue[1] /\ 1 \in DOMAIN queue
  BY <1>0, <1>1
<1>4. Busy' = Busy \cup {t} /\ t \notin Busy
  BY DEF TakeTask, Goto, Busy, TypeInv, TypeOK
<1>5. JobOf(t)' = queue[1].job /\ \A u \in Busy : JobOf(u)' = JobOf(u)
  BY <1>0, <1>3, <1>4 DEF JobOf, Busy, TypeInv, TypeOK
<1>6. BusyJobs' = BusyJobs \cup {queue[1].job}
  BY <1>4, <1>5 DEF BusyJobs
<1>7. \A i \in DOMAIN queue' : queue'[i].job # queue[1].job
  BY <1>1, <1>2, <1>3 DEF RegInv, RegistryExact
<1>8. QueuedJobs = QueuedJobs' \cup {queue[1].job}
  <2>1. \A i \in DOMAIN queue : i = 1 \/ (i - 1 \in DOMAIN queue' /\ queue'[i - 1] = queue[i])
    BY <1>1, <1>2
  <2>2. \A j \in QueuedJobs : j = queue[1].job \/ j \in QueuedJobs'
    BY <2>1 DEF QueuedJobs
  <2>3. \A j \in QueuedJobs' : j \in QueuedJobs
    BY <1>2 DEF QueuedJobs
  <2>. QED
    BY <1>3, <2>2, <2>3 DEF QueuedJobs
<1>9. queue[1].job \notin QueuedJobs'
  BY <1>7 DEF QueuedJobs
<1>10. running' = QueuedJobs' \cup BusyJobs' /\ QueuedJobs' \cap BusyJobs' = {}
  BY <1>6, <1>8, <1>9 DEF RegInv, RegistryExact, TakeTask, registry
<1>11. \A i, k \in DOMAIN queue' : queue'[i].job = queue'[k].job => i = k
  BY <1>1, <1>2 DEF RegInv, RegistryExact
<1>12. \A u \in Busy : JobOf(u) # queue[1].job
  BY <1>3 DEF RegInv, RegistryExact, QueuedJobs, BusyJobs
<1>13. \A u, v \in Busy' : JobOf(u)' = JobOf(v)' => u = v
  BY <1>4, <1>5, <1>12 DEF RegInv, RegistryExact
<1>14. RegistryExact'
  BY <1>10, <1>11, <1>13 DEF RegistryExact
<1>. QED
  BY <1>14 DEF TakeTask, record, registry, clients, RegInv, SubmitsIdleJob, IdsCreated

LEMMA FinishReg ==
  ASSUME TypeInv, RegInv, NEW t \in Threads, Finish(t)
  PROVE  RegInv'
<1>1. Busy' = Busy \ {t} /\ t \in Busy
  BY DEF Finish, Goto, Busy, TypeInv, TypeOK
<1>2. \A u \in Busy' : JobOf(u)' = JobOf(u) /\ JobOf(u) # JobOf(t)
  BY <1>1 DEF Finish, JobOf, Busy, TypeInv, TypeOK, RegInv, RegistryExact
<1>3. BusyJobs' = BusyJobs \ {JobOf(t)}
  BY <1>1, <1>2 DEF BusyJobs
<1>4. JobOf(t) \notin QueuedJobs /\ QueuedJobs' = QueuedJobs
  BY <1>1 DEF Finish, QueuedJobs, BusyJobs, RegInv, RegistryExact
<1>5. running' = QueuedJobs' \cup BusyJobs' /\ QueuedJobs' \cap BusyJobs' = {}
  BY <1>3, <1>4 DEF Finish, RegInv, RegistryExact
<1>6. \A u, v \in Busy' : JobOf(u)' = JobOf(v)' => u = v
  BY <1>1, <1>2 DEF RegInv, RegistryExact
<1>7. RegistryExact'
  BY <1>5, <1>6 DEF Finish, RegInv, RegistryExact
<1>. QED
  BY <1>7 DEF Finish, record, clients, RegInv, SubmitsIdleJob, IdsCreated

LEMMA ThreadReg ==
  ASSUME TypeInv, RegInv, NEW t \in Threads, ThreadStep(t)
  PROVE  RegInv'
<1>. USE DEF ThreadPC, registry
<1>0. mem[t] \in Docs /\ \A p \in Phase : InPhase(mem[t], p) \in Docs
  BY DocTypes DEF TypeInv, TypeOK
<1>1. ASSUME NEW d \in Docs, pc[t] # "idle", NEW l \in ThreadPC \ {"idle"}, SaveStep(t, l, d)
      PROVE  RegInv'
  <2>1. \A j \in Jobs : store'[j] # Gone => store[j] # Gone \/ j \in running
    BY <1>1, SaveWritesRunning DEF SaveStep
  <2>. QED
    BY <1>1, <2>1, MoveKeepsReg DEF SaveStep, Save
<1>2. ASSUME NEW d \in Docs, pc[t] # "idle", Save(t, d), Leave(t),
             UNCHANGED <<queue, task, slot, registry, gate, clients, restarts>>
      PROVE  RegInv'
  <2>1. PICK l \in ThreadPC \ {"idle"} : Goto(t, l)
    BY <1>2 DEF Leave
  <2>. QED
    BY <1>1, <1>2, <2>1 DEF SaveStep
<1>3. ASSUME pc[t] # "idle", NEW l \in ThreadPC \ {"idle"}, Goto(t, l),
             UNCHANGED <<record, queue, task, running, clients>>
      PROVE  RegInv'
  BY <1>3, MoveKeepsReg DEF record
<1>4. CASE TakeTask(t)
  BY <1>4, TakeTaskReg
<1>5. CASE LoadJob(t)
  <2>1. task[t] \in Tasks
    BY <1>5 DEF LoadJob, TypeInv, BusyHasTask
  <2>2. FirstStep(task[t].kind) \in ThreadPC \ {"idle"}
    BY <2>1 DEF FirstStep, Tasks, Kinds
  <2>. QED
    BY <1>3, <1>5, <2>2 DEF LoadJob
<1>6. CASE AcquireSlot(t) \/ CancelWaiting(t) \/ CheckCancel(t) \/ StepFails(t) \/ ReleaseSlot(t)
  BY <1>3, <1>6 DEF AcquireSlot, CancelWaiting, CheckCancel, CheckPoints, StepFails, Fallible, ReleaseSlot
<1>7. CASE WaitForSlot(t)
  BY <1>0, <1>1, <1>7 DEF WaitForSlot, SaveStep
<1>8. CASE Provision(t) \/ Attach(t) \/ BeginExport(t) \/ GuestFixup(t) \/ BeginFinalize(t) \/ Finalize(t)
           \/ NoteCancelled(t)
  BY <1>0, <1>1, <1>8 DEF Provision, Attach, BeginExport, GuestFixup, BeginFinalize, Finalize, NoteCancelled,
                          Phase, Active, Terminal
<1>9. CASE Launch(t)
  <2>1. [InPhase(mem[t], "PROVISIONING") EXCEPT !.inst = TRUE] \in Docs
    BY <1>0 DEF Docs, Phase, Active
  <2>. QED
    BY <1>1, <1>9, <2>1 DEF Launch
<1>10. CASE CopyDisks(t)
  <2>1. [mem[t] EXCEPT !.copied = TRUE] \in Docs
    BY <1>0 DEF Docs
  <2>. QED
    BY <1>1, <1>10, <2>1 DEF CopyDisks
<1>11. CASE Install(t) \/ Complete(t) \/ MarkFailed(t) \/ Teardown(t)
  BY <1>0, <1>2, <1>11 DEF Install, Complete, MarkFailed, Teardown, Phase, Active, Terminal
<1>12. CASE Finish(t)
  BY <1>12, FinishReg
<1>. QED
  BY <1>4, <1>5, <1>6, <1>7, <1>8, <1>9, <1>10, <1>11, <1>12 DEF ThreadStep

\* Submitting the task of an idle job keeps the registry exact.
LEMMA SubmitReg ==
  ASSUME TypeInv, RegInv, NEW c \in Clients, NEW kind \in Kinds, cjob[c] \in created \cap Jobs,
         cjob[c] \notin running, Submit(c, kind), UNCHANGED <<pc, task>>
  PROVE  RegistryExact' /\ running' = running \cup {cjob[c]}
<1>0. queue \in Seq(Tasks) /\ Task(kind, cjob[c]) \in Tasks /\ queue' = Append(queue, Task(kind, cjob[c]))
  BY DEF Submit, TypeInv, TypeOK, Task, Tasks
<1>1. /\ DOMAIN queue = 1..Len(queue) /\ DOMAIN queue' = 1..(Len(queue) + 1) /\ Len(queue) \in Nat
      /\ \A i \in DOMAIN queue : queue'[i] = queue[i]
      /\ queue'[Len(queue) + 1] = Task(kind, cjob[c])
  BY <1>0
<1>2. queue'[Len(queue) + 1].job = cjob[c]
  BY <1>1 DEF Task
<1>3. QueuedJobs' = QueuedJobs \cup {cjob[c]}
  <2>1. \A i \in DOMAIN queue' : i \in DOMAIN queue \/ i = Len(queue) + 1
    BY <1>1
  <2>2. \A i \in DOMAIN queue : i \in DOMAIN queue'
    BY <1>1
  <2>3. Len(queue) + 1 \in DOMAIN queue'
    BY <1>1
  <2>. QED
    BY <1>1, <1>2, <2>1, <2>2, <2>3 DEF QueuedJobs
<1>4. Busy' = Busy /\ BusyJobs' = BusyJobs
  BY DEF Busy, BusyJobs, JobOf
<1>5. \A i, k \in DOMAIN queue' : queue'[i].job = queue'[k].job => i = k
  <2>1. \A i \in DOMAIN queue : queue[i].job # cjob[c]
    BY DEF RegInv, RegistryExact, QueuedJobs
  <2>. QED
    BY <1>1, <1>2, <2>1 DEF RegInv, RegistryExact
<1>6. \A t, u \in Busy' : JobOf(t)' = JobOf(u)' => t = u
  BY <1>4 DEF RegInv, RegistryExact, JobOf
<1>7. running' = running \cup {cjob[c]}
  BY DEF Submit
<1>. QED
  BY <1>3, <1>4, <1>5, <1>6, <1>7 DEF RegInv, RegistryExact

\* A handler's own step, with the other handlers idle by Serial.
LEMMA ClientReg ==
  ASSUME TypeInv, RegInv, Serial, NEW c \in Clients, ClientStep(c)
  PROVE  RegInv'
<1>. USE DEF CGoto, Respond, pool, registry, AboutToSubmit
<1>0. /\ \A d \in Clients : d = c
      /\ cpc \in [Clients -> ClientPC] /\ cjob \in [Clients -> Jobs \cup {NoJob}] /\ store \in [Jobs -> Docs]
  BY DEF Serial, TypeInv, TypeOK
<1>1. cpc[c] # "idle" => cjob[c] \in created \cap Jobs
  BY DEF TypeInv, RequestHasJob, RegInv, IdsCreated
<1>2. ASSUME cpc[c] # "idle", store' = store \/ \E d : PutSnapshot(c, d)
      PROVE  \A j \in Jobs : store'[j] # Gone => j \in created
  BY <1>0, <1>1, <1>2 DEF PutSnapshot, RegInv, IdsCreated
<1>3. ASSUME NEW kind \in Kinds, cpc[c] \in AboutToSubmit, Submit(c, kind), Respond(c),
             UNCHANGED <<record, pc, task>>
      PROVE  RegInv'
  <2>1. cjob[c] \notin running /\ cjob[c] \in created \cap Jobs
    BY <1>1, <1>3 DEF RegInv, SubmitsIdleJob
  <2>2. RegistryExact' /\ running' = running \cup {cjob[c]}
    BY <1>3, <2>1, SubmitReg DEF record
  <2>. QED
    BY <1>0, <1>3, <2>1, <2>2 DEF record, RegInv, SubmitsIdleJob, IdsCreated
<1>4. ASSUME cpc[c] # "idle", UNCHANGED <<created, pool, running>>,
             store' = store \/ \E d : PutSnapshot(c, d),
             cpc'[c] # "idle" => cjob' = cjob,
             cpc'[c] \in AboutToSubmit => cjob[c] \notin running
      PROVE  RegInv'
  <2>1. RegistryExact'
    BY <1>4, SamePool
  <2>2. SubmitsIdleJob'
    BY <1>0, <1>4 DEF SubmitsIdleJob
  <2>3. IdsCreated'
    BY <1>0, <1>1, <1>2, <1>4 DEF RegInv, IdsCreated
  <2>. QED
    BY <2>1, <2>2, <2>3 DEF RegInv
<1>5. CASE CreatePut(c) \/ CancelPut(c) \/ ResumePut(c)
  BY <1>0, <1>4, <1>5 DEF CreatePut, CancelPut, ResumePut, PutSnapshot, RegInv, SubmitsIdleJob
<1>6. CASE CreateSubmit(c) \/ CancelSubmit(c) \/ ResumeSubmit(c)
  BY <1>3, <1>6 DEF CreateSubmit, CancelSubmit, ResumeSubmit, Kinds
<1>7. CASE CancelCheck(c)
  BY <1>0, <1>4, <1>7 DEF CancelCheck, record
<1>8. CASE CancelFlag(c)
  BY <1>0, <1>4, <1>8 DEF CancelFlag, record
<1>9. CASE CancelNote(c) \/ InstallDone(c)
  BY <1>0, <1>4, <1>9 DEF CancelNote, InstallDone, PutSnapshot
<1>10. CASE ResumeCheck(c)
  BY <1>0, <1>4, <1>10 DEF ResumeCheck, record
<1>. QED
  BY <1>5, <1>6, <1>7, <1>8, <1>9, <1>10 DEF ClientStep

\* A new request: an id nobody used yet, or the id of a stored record.
LEMMA RequestReg ==
  ASSUME TypeInv, RegInv, Serial, NEW c \in Clients, NEW j \in Jobs, NewRequest(c, j)
  PROVE  RegInv'
<1>. USE DEF CGoto, record, pool, registry, AboutToSubmit
<1>0. /\ \A d \in Clients : d = c
      /\ cpc \in [Clients -> ClientPC] /\ cjob \in [Clients -> Jobs \cup {NoJob}]
  BY DEF Serial, TypeInv, TypeOK
<1>1. RegistryExact'
  BY SamePool DEF NewRequest, CreateCheck, CancelRead, ResumeRead, InstallRead, ReadJob
<1>2. CASE CreateCheck(c, j)
  <2>1. j \notin running
    BY <1>2 DEF CreateCheck, RegInv, IdsCreated
  <2>. QED
    BY <1>0, <1>1, <1>2, <2>1 DEF CreateCheck, RegInv, SubmitsIdleJob, IdsCreated
<1>3. ASSUME NEW l \in {"cancelCheck", "resumeCheck", "installDone"}, ReadJob(c, j, l)
      PROVE  RegInv'
  BY <1>0, <1>1, <1>3 DEF ReadJob, RegInv, SubmitsIdleJob, IdsCreated
<1>. QED
  BY <1>2, <1>3 DEF NewRequest, CancelRead, ResumeRead, InstallRead

LEMMA OthersReg ==
  ASSUME TypeInv, RegInv, \/ \E phases \in PurgeScopes : Purge(phases)
                          \/ \E n \in 0..MaxLimit + 1 : SetMaxConcurrent(n)
                          \/ Restart
  PROVE  RegInv'
<1>1. ASSUME NEW phases \in PurgeScopes, Purge(phases)
      PROVE  RegInv'
  <2>1. RegistryExact'
    BY <1>1, SamePool DEF Purge, pool, registry
  <2>. QED
    BY <1>1, <2>1 DEF Purge, pool, registry, clients, RegInv, SubmitsIdleJob, IdsCreated
<1>2. ASSUME NEW n \in 0..MaxLimit + 1, SetMaxConcurrent(n)
      PROVE  RegInv'
  <2>1. RegistryExact'
    BY <1>2, SamePool DEF SetMaxConcurrent, pool, registry
  <2>. QED
    BY <1>2, <2>1 DEF SetMaxConcurrent, record, registry, clients, RegInv, SubmitsIdleJob, IdsCreated
<1>3. CASE Restart
  <2>1. QueuedJobs' = {} /\ Busy' = {} /\ BusyJobs' = {}
    BY <1>3 DEF Restart, QueuedJobs, Busy, BusyJobs
  <2>2. RegistryExact'
    BY <1>3, <2>1 DEF Restart, RegistryExact
  <2>3. \A j \in Jobs : store'[j] # Gone => store[j] # Gone
    BY <1>3 DEF Restart, FailStale, StaleAtStart, Active, Gone, Doc
  <2>. QED
    BY <1>3, <2>2, <2>3 DEF Restart, RegInv, SubmitsIdleJob, IdsCreated, AboutToSubmit
<1>. QED
  BY <1>1, <1>2, <1>3

LEMMA NextRegInv == ASSUME Serial PROVE TypeInv /\ RegInv /\ [Next]_vars => RegInv'
<1>. SUFFICES ASSUME TypeInv, RegInv, [Next]_vars PROVE RegInv'
  OBVIOUS
<1>1. CASE UNCHANGED vars
  <2>1. RegistryExact'
    BY <1>1, SamePool DEF vars
  <2>. QED
    BY <1>1, <2>1 DEF vars, RegInv, SubmitsIdleJob, IdsCreated
<1>2. CASE Next
  BY <1>2, ThreadReg, ClientReg, RequestReg, OthersReg DEF Next
<1>. QED
  BY <1>1, <1>2

\* When the API serves one request at a time, _running names exactly the jobs with a task in the pool, each
\* with one task only, for any number of jobs and threads, through failures, purges and restarts.
THEOREM RegistryIsExact == ASSUME Serial PROVE Spec => []RegistryExact
<1>1. RegInv => RegistryExact
  BY DEF RegInv
<1>2. TypeInv /\ RegInv /\ [Next]_vars => RegInv'
  BY NextRegInv
<1>. QED
  BY <1>1, <1>2, InitRegInv, AlwaysTypeInv, PTL DEF Spec

-----------------------------------------------------------------------------
(* One migration per VM.  active_for_vm reads the job table, so what it     *)
(* must find has to be there: while a job is migrated its record is active, *)
(* also after the note of a cancel request, and whoever is about to submit  *)
(* a job looked at the table when no other job of its VM was migrated.      *)

Leaving == {"complete", "release", "finish"}

IdleHasNoTask == \A t \in Threads : pc[t] = "idle" => task[t] = NoTask
RunIsNoIso ==
  /\ \A n \in DOMAIN queue : queue[n].kind = "run" => queue[n].job \notin IsoJobs
  /\ \A t \in Threads : task[t].kind = "run" => task[t].job \notin IsoJobs
MigratedIsActive ==
  /\ \A j \in Migrated : store[j].phase \in Active
  /\ \A t \in Threads :
       task[t].kind = "run" /\ pc[t] \notin Leaving \cup {"idle", "start"} => mem[t].phase \in Active
  /\ \A c \in Clients :
       cpc[c] \in {"cancelCheck", "cancelFlag", "cancelNote"} /\ cjob[c] \in Migrated => csnap[c].phase \in Active
Created ==
  \A c \in Clients :
    /\ cpc[c] \in {"createPut", "createSubmit"} =>
         /\ csnap[c] = NewJob
         /\ cjob[c] \notin IsoJobs => \A k \in Migrated : VmOf[k] # VmOf[cjob[c]]
    /\ cpc[c] = "createSubmit" => store[cjob[c]].phase \in Active
    /\ cpc[c] = "installDone" => cjob[c] \in IsoJobs

VmInv == IdleHasNoTask /\ RunIsNoIso /\ MigratedIsActive /\ Created /\ VmExclusive

LEMMA InitVmInv == Init => VmInv
<1>. SUFFICES ASSUME Init PROVE VmInv
  OBVIOUS
<1>1. Migrated = {}
  BY DEF Init, Migrated, NoTask, Task
<1>2. IdleHasNoTask /\ RunIsNoIso
  BY DEF Init, IdleHasNoTask, RunIsNoIso, NoTask, Task
<1>. QED
  BY <1>1, <1>2 DEF Init, VmInv, MigratedIsActive, Created, VmExclusive, NoTask, Task

\* A migrated job is one with a task in the pool, and a busy thread's job is migrated only by that thread.
LEMMA MigratedJobs ==
  ASSUME TypeInv, RegInv, VmInv
  PROVE  /\ Migrated \subseteq Jobs /\ Migrated \subseteq running /\ Migrated \cap IsoJobs = {}
         /\ \A t \in Busy : JobOf(t) \in Migrated => task[t].kind = "run" /\ pc[t] \notin Leaving
<1>1. \A n \in DOMAIN queue : queue[n] \in Tasks
  BY DEF TypeInv, TypeOK
<1>2. \A t \in Threads : task[t].kind = "run" => t \in Busy
  BY DEF VmInv, IdleHasNoTask, Busy, NoTask, Task
<1>3. \A t \in Busy : task[t] \in Tasks
  BY DEF TypeInv, BusyHasTask, Busy
<1>4. Migrated \subseteq QueuedJobs \cup BusyJobs
  BY <1>2 DEF Migrated, QueuedJobs, BusyJobs
<1>5. Migrated \subseteq Jobs /\ Migrated \subseteq running
  BY <1>1, <1>3, <1>4 DEF QueuedJobs, BusyJobs, JobOf, Tasks, RegInv, RegistryExact
<1>6. Migrated \cap IsoJobs = {}
  BY DEF Migrated, VmInv, RunIsNoIso, JobOf
<1>7. ASSUME NEW t \in Busy, JobOf(t) \in Migrated
      PROVE  task[t].kind = "run" /\ pc[t] \notin Leaving
  <2>1. JobOf(t) \notin QueuedJobs
    BY DEF RegInv, RegistryExact, BusyJobs
  <2>2. PICK u \in Threads : task[u].kind = "run" /\ pc[u] \notin Leaving /\ JobOf(u) = JobOf(t)
    BY <1>7, <2>1 DEF Migrated, QueuedJobs, Leaving
  <2>3. u = t
    BY <1>2, <2>2 DEF RegInv, RegistryExact
  <2>. QED
    BY <2>2, <2>3
<1>. QED
  BY <1>5, <1>6, <1>7

\* A busy thread that moves, and saves a document, stays at active documents until it leaves.
LEMMA MoveVm ==
  ASSUME TypeInv, RegInv, VmInv, NEW t \in Threads, pc[t] # "idle", NEW l \in ThreadPC \ {"idle", "start"},
         NEW d \in Docs, Goto(t, l), mem' = [mem EXCEPT ![t] = d],
         store' = store \/ store' = [store EXCEPT ![JobOf(t)] = d],
         task[t].kind = "run" /\ l \notin Leaving => d.phase \in Active,
         pc[t] \in Leaving => l \in Leaving,
         UNCHANGED <<queue, task, clients>>
  PROVE  VmInv'
<1>0. /\ pc' = [pc EXCEPT ![t] = l] /\ pc \in [Threads -> ThreadPC] /\ mem \in [Threads -> Docs]
      /\ store \in [Jobs -> Docs] /\ t \in Busy /\ JobOf(t) \in Jobs
  BY DEF Goto, TypeInv, TypeOK, BusyHasTask, Busy, JobOf, Tasks
<1>1. Migrated' \subseteq Migrated
  BY <1>0 DEF Migrated, JobOf, Leaving
<1>2. IdleHasNoTask' /\ RunIsNoIso'
  BY <1>0 DEF VmInv, IdleHasNoTask, RunIsNoIso
<1>3. \A j \in Migrated' : store'[j].phase \in Active
  <2>1. SUFFICES ASSUME NEW j \in Migrated' PROVE store'[j].phase \in Active
    OBVIOUS
  <2>2. store[j].phase \in Active /\ j \in Jobs
    BY <1>1, MigratedJobs DEF VmInv, MigratedIsActive
  <2>3. CASE j # JobOf(t)
    BY <1>0, <2>2, <2>3
  <2>4. CASE j = JobOf(t)
    <3>1. JobOf(t) \notin QueuedJobs
      BY <1>0 DEF RegInv, RegistryExact, BusyJobs
    <3>2. PICK u \in Threads : task[u].kind = "run" /\ pc'[u] \notin Leaving /\ JobOf(u) = JobOf(t)
      BY <2>4, <3>1 DEF Migrated, QueuedJobs, Leaving, JobOf
    <3>3. u \in Busy
      BY <3>2 DEF VmInv, IdleHasNoTask, Busy, NoTask, Task
    <3>4. u = t
      BY <1>0, <3>2, <3>3 DEF RegInv, RegistryExact
    <3>. QED
      BY <1>0, <2>2, <2>4, <3>2, <3>4
  <2>. QED
    BY <2>3, <2>4
<1>4. \A u \in Threads :
        task'[u].kind = "run" /\ pc'[u] \notin Leaving \cup {"idle", "start"} => mem'[u].phase \in Active
  BY <1>0 DEF VmInv, MigratedIsActive
<1>5. MigratedIsActive'
  BY <1>1, <1>3, <1>4 DEF MigratedIsActive, VmInv, clients
<1>6. \A c \in Clients : cpc[c] = "createSubmit" => store'[cjob[c]] = store[cjob[c]]
  <2>1. JobOf(t) \in running
    BY <1>0 DEF RegInv, RegistryExact, BusyJobs
  <2>. QED
    BY <1>0, <2>1 DEF RegInv, SubmitsIdleJob, AboutToSubmit, TypeInv, TypeOK, RequestHasJob
<1>7. Created'
  BY <1>1, <1>6 DEF Created, VmInv, clients
<1>8. VmExclusive'
  BY <1>1 DEF VmInv, VmExclusive
<1>. QED
  BY <1>2, <1>5, <1>7, <1>8 DEF VmInv

LEMMA TakeTaskVm ==
  ASSUME TypeInv, RegInv, VmInv, NEW t \in Threads, TakeTask(t)
  PROVE  VmInv'
<1>0. /\ queue \in Seq(Tasks) /\ queue # <<>> /\ queue' = Tail(queue) /\ pc' = [pc EXCEPT ![t] = "start"]
      /\ task' = [task EXCEPT ![t] = Head(queue)] /\ UNCHANGED <<record, mem, clients>>
      /\ task \in [Threads -> Tasks \cup {NoTask}] /\ pc \in [Threads -> ThreadPC]
  BY DEF TakeTask, Goto, TypeInv, TypeOK
<1>1. /\ \A n \in DOMAIN queue' : n + 1 \in DOMAIN queue /\ queue'[n] = queue[n + 1]
      /\ 1 \in DOMAIN queue /\ task'[t] = queue[1]
  BY <1>0
<1>2. Migrated' \subseteq Migrated
  <2>1. SUFFICES ASSUME NEW j \in Migrated' PROVE j \in Migrated
    OBVIOUS
  <2>2. CASE \E n \in DOMAIN queue' : queue'[n].kind = "run" /\ j = queue'[n].job
    BY <1>1, <2>2 DEF Migrated
  <2>3. CASE \E u \in Threads : task'[u].kind = "run" /\ pc'[u] \notin Leaving /\ j = task'[u].job
    BY <1>0, <1>1, <2>3 DEF Migrated, JobOf, Leaving
  <2>. QED
    BY <2>2, <2>3 DEF Migrated, JobOf, Leaving
<1>3. IdleHasNoTask'
  BY <1>0 DEF VmInv, IdleHasNoTask
<1>4. RunIsNoIso'
  BY <1>0, <1>1 DEF VmInv, RunIsNoIso
<1>5. MigratedIsActive'
  BY <1>0, <1>2 DEF MigratedIsActive, VmInv, record, clients
<1>6. Created' /\ VmExclusive'
  BY <1>0, <1>2 DEF Created, VmExclusive, VmInv, record, clients
<1>. QED
  BY <1>3, <1>4, <1>5, <1>6 DEF VmInv

LEMMA FinishVm ==
  ASSUME TypeInv, RegInv, VmInv, NEW t \in Threads, Finish(t)
  PROVE  VmInv'
<1>0. /\ pc' = [pc EXCEPT ![t] = "idle"] /\ task' = [task EXCEPT ![t] = NoTask] /\ mem' = [mem EXCEPT ![t] = Gone]
      /\ UNCHANGED <<record, queue, clients>> /\ pc \in [Threads -> ThreadPC] /\ mem \in [Threads -> Docs]
      /\ task \in [Threads -> Tasks \cup {NoTask}]
  BY DEF Finish, Goto, TypeInv, TypeOK
<1>1. task'[t].kind # "run"
  BY <1>0 DEF NoTask, Task
<1>2. Migrated' \subseteq Migrated
  BY <1>0, <1>1 DEF Migrated, JobOf
<1>3. IdleHasNoTask' /\ RunIsNoIso'
  BY <1>0, <1>1 DEF VmInv, IdleHasNoTask, RunIsNoIso
<1>4. MigratedIsActive' /\ Created' /\ VmExclusive'
  BY <1>0, <1>1, <1>2 DEF MigratedIsActive, Created, VmExclusive, VmInv, record, clients
<1>. QED
  BY <1>3, <1>4 DEF VmInv

LEMMA ThreadVm ==
  ASSUME TypeInv, RegInv, VmInv, NEW t \in Threads, ThreadStep(t)
  PROVE  VmInv'
<1>. USE DEF Leaving
<1>. DEFINE Launched == [InPhase(mem[t], "PROVISIONING") EXCEPT !.inst = TRUE]
             Done == [mem[t] EXCEPT !.copied = TRUE]
<1>0. /\ mem[t] \in Docs /\ mem = [mem EXCEPT ![t] = mem[t]]
      /\ \A p \in Phase : InPhase(mem[t], p) \in Docs /\ InPhase(mem[t], p).phase = p
      /\ Launched \in Docs /\ Launched.phase = "PROVISIONING" /\ Done \in Docs /\ Done.phase = mem[t].phase
      /\ {"PROVISIONING", "EXPORTING", "FINALIZING", "INSTALLING", "FAILED", "COMPLETED", "CANCELLED"} \subseteq Phase
  <2>1. mem[t] \in Docs /\ mem = [mem EXCEPT ![t] = mem[t]]
    BY DEF TypeInv, TypeOK
  <2>2. \A p \in Phase : InPhase(mem[t], p) \in Docs /\ InPhase(mem[t], p).phase = p
    BY <2>1 DEF Docs, InPhase
  <2>3. {"PROVISIONING", "EXPORTING", "FINALIZING", "INSTALLING", "FAILED", "COMPLETED", "CANCELLED"} \subseteq Phase
    BY DEF Phase, Active, Terminal
  <2>4. \A d \in Docs : [d EXCEPT !.inst = TRUE] \in Docs /\ [d EXCEPT !.inst = TRUE].phase = d.phase
    BY DEF Docs
  <2>5. Done \in Docs /\ Done.phase = mem[t].phase
    BY <2>1 DEF Docs
  <2>. QED
    BY <2>1, <2>2, <2>3, <2>4, <2>5
<1>1. task[t].kind = "run" /\ pc[t] \notin Leaving \cup {"idle", "start"} => mem[t].phase \in Active
  BY DEF VmInv, MigratedIsActive
<1>2. ASSUME NEW l \in ThreadPC \ {"idle", "start"}, NEW d \in Docs, pc[t] # "idle", SaveStep(t, l, d),
             task[t].kind = "run" /\ l \notin Leaving => d.phase \in Active,
             pc[t] \in Leaving => l \in Leaving
      PROVE  VmInv'
  BY <1>2, MoveVm DEF SaveStep, Save
<1>3. ASSUME NEW d \in Docs, pc[t] # "idle", Save(t, d), Leave(t),
             UNCHANGED <<queue, task, slot, registry, gate, clients, restarts>>
      PROVE  VmInv'
  <2>1. PICK l \in ThreadPC \ {"idle", "start"} : Goto(t, l) /\ l \in Leaving
    BY <1>3 DEF Leave, ThreadPC
  <2>. QED
    BY <1>2, <1>3, <2>1 DEF SaveStep
<1>4. ASSUME pc[t] \notin {"idle", "start"}, NEW l \in ThreadPC \ {"idle", "start"}, Goto(t, l),
             UNCHANGED <<record, queue, task, mem, clients>>, pc[t] \in Leaving => l \in Leaving
      PROVE  VmInv'
  BY <1>0, <1>1, <1>4, MoveVm DEF record
<1>5. CASE TakeTask(t)
  BY <1>5, TakeTaskVm
<1>6. CASE LoadJob(t)
  <2>0. task[t] \in Tasks /\ t \in Busy /\ JobOf(t) \in Jobs /\ store \in [Jobs -> Docs]
    BY <1>6 DEF LoadJob, TypeInv, TypeOK, BusyHasTask, Busy, JobOf, Tasks
  <2>1. PICK l \in ThreadPC \ {"idle", "start"} : Goto(t, l)
    BY <1>6, <2>0 DEF LoadJob, FirstStep, Tasks, Kinds, ThreadPC
  <2>2. task[t].kind = "run" => store[JobOf(t)].phase \in Active
    BY <1>6, <2>0 DEF LoadJob, VmInv, MigratedIsActive, Migrated
  <2>. QED
    BY <1>6, <2>0, <2>1, <2>2, MoveVm DEF LoadJob, record
<1>7. CASE AcquireSlot(t) \/ CancelWaiting(t) \/ CheckCancel(t) \/ StepFails(t) \/ ReleaseSlot(t)
  BY <1>4, <1>7 DEF AcquireSlot, CancelWaiting, CheckCancel, CheckPoints, StepFails, Fallible, ReleaseSlot, ThreadPC,
                    registry, gate
<1>8. CASE WaitForSlot(t)
  BY <1>0, <1>1, <1>2, <1>8 DEF WaitForSlot, SaveStep, ThreadPC
<1>9. CASE Provision(t) \/ BeginExport(t) \/ GuestFixup(t) \/ BeginFinalize(t) \/ Finalize(t)
  BY <1>0, <1>2, <1>9 DEF Provision, BeginExport, GuestFixup, BeginFinalize, Finalize, ThreadPC, Active
<1>10. CASE Attach(t) \/ NoteCancelled(t) \/ CopyDisks(t)
  BY <1>0, <1>1, <1>2, <1>10 DEF Attach, NoteCancelled, CopyDisks, ThreadPC
<1>11. CASE Launch(t)
  BY <1>0, <1>2, <1>11 DEF Launch, ThreadPC, Active
<1>12. CASE Install(t) \/ Complete(t) \/ MarkFailed(t) \/ Teardown(t)
  BY <1>0, <1>3, <1>12 DEF Install, Complete, MarkFailed, Teardown
<1>13. CASE Finish(t)
  BY <1>13, FinishVm
<1>. QED
  BY <1>5, <1>6, <1>7, <1>8, <1>9, <1>10, <1>11, <1>12, <1>13 DEF ThreadStep

\* A handler's step that leaves the pool alone and writes no record but its own.
LEMMA HandlerVm ==
  ASSUME TypeInv, RegInv, VmInv, Serial, NEW c \in Clients, UNCHANGED pool,
         \A j \in Migrated : store'[j].phase \in Active,
         cpc'[c] \in {"cancelCheck", "cancelFlag", "cancelNote"} /\ cjob'[c] \in Migrated => csnap'[c].phase \in Active,
         cpc'[c] \in {"createPut", "createSubmit"} =>
           /\ csnap'[c] = NewJob
           /\ cjob'[c] \notin IsoJobs => \A k \in Migrated : VmOf[k] # VmOf[cjob'[c]],
         cpc'[c] = "createSubmit" => store'[cjob'[c]].phase \in Active,
         cpc'[c] = "installDone" => cjob'[c] \in IsoJobs
  PROVE  VmInv'
<1>0. \A d \in Clients : d = c
  BY DEF Serial
<1>1. Migrated' = Migrated
  BY DEF pool, Migrated, JobOf
<1>2. IdleHasNoTask' /\ RunIsNoIso' /\ VmExclusive'
  BY <1>1 DEF pool, VmInv, IdleHasNoTask, RunIsNoIso, VmExclusive
<1>3. MigratedIsActive'
  BY <1>0, <1>1 DEF pool, VmInv, MigratedIsActive
<1>4. Created'
  BY <1>0, <1>1 DEF Created
<1>. QED
  BY <1>2, <1>3, <1>4 DEF VmInv

LEMMA CreateSubmitVm ==
  ASSUME TypeInv, RegInv, VmInv, Serial, NEW c \in Clients, CreateSubmit(c)
  PROVE  VmInv'
<1>0. /\ \A d \in Clients : d = c
      /\ queue \in Seq(Tasks) /\ cjob[c] \in Jobs /\ cpc'[c] = "idle"
      /\ UNCHANGED <<store, pc, task, mem>>
  BY DEF Serial, CreateSubmit, Respond, CGoto, record, TypeInv, TypeOK, RequestHasJob
<1>1. PICK kind \in {"iso", "run"} : kind = (IF cjob[c] \in IsoJobs THEN "iso" ELSE "run")
  OBVIOUS
<1>2. Task(kind, cjob[c]) \in Tasks /\ queue' = Append(queue, Task(kind, cjob[c]))
  BY <1>0, <1>1 DEF CreateSubmit, Submit, Task, Tasks, Kinds
<1>3. \A n \in DOMAIN queue' : \/ n \in DOMAIN queue /\ queue'[n] = queue[n]
                              \/ queue'[n] = Task(kind, cjob[c])
  BY <1>0, <1>2
<1>4. Migrated' \subseteq Migrated \cup {cjob[c]} /\ (cjob[c] \in IsoJobs => Migrated' \subseteq Migrated)
  BY <1>0, <1>1, <1>3 DEF Migrated, JobOf, Task
<1>5. IdleHasNoTask' /\ RunIsNoIso'
  BY <1>0, <1>1, <1>3 DEF VmInv, IdleHasNoTask, RunIsNoIso, Task
<1>6. cpc[c] = "createSubmit"
  BY DEF CreateSubmit
<1>7. MigratedIsActive' /\ Created'
  BY <1>0, <1>4, <1>6 DEF VmInv, MigratedIsActive, Created
<1>8. VmExclusive'
  BY <1>4, <1>6 DEF VmInv, Created, VmExclusive
<1>. QED
  BY <1>5, <1>7, <1>8 DEF VmInv

\* A cleanup or a finalize task migrates nothing.
LEMMA OtherSubmitVm ==
  ASSUME TypeInv, RegInv, VmInv, Serial, NEW c \in Clients, CancelSubmit(c) \/ ResumeSubmit(c)
  PROVE  VmInv'
<1>0. /\ \A d \in Clients : d = c
      /\ queue \in Seq(Tasks) /\ cjob[c] \in Jobs /\ cpc'[c] = "idle"
      /\ UNCHANGED <<store, pc, task, mem>>
  BY DEF Serial, CancelSubmit, ResumeSubmit, Respond, CGoto, record, TypeInv, TypeOK, RequestHasJob
<1>1. PICK kind \in {"cleanup", "finalize"} : queue' = Append(queue, Task(kind, cjob[c]))
  BY DEF CancelSubmit, ResumeSubmit, Submit
<1>2. Task(kind, cjob[c]) \in Tasks
  BY <1>0, <1>1 DEF Task, Tasks, Kinds
<1>3. \A n \in DOMAIN queue' : queue'[n].kind = "run" => n \in DOMAIN queue /\ queue'[n] = queue[n]
  BY <1>0, <1>1, <1>2 DEF Task
<1>4. Migrated' \subseteq Migrated
  BY <1>0, <1>3 DEF Migrated, JobOf
<1>5. IdleHasNoTask' /\ RunIsNoIso'
  BY <1>0, <1>3 DEF VmInv, IdleHasNoTask, RunIsNoIso
<1>6. MigratedIsActive' /\ Created' /\ VmExclusive'
  BY <1>0, <1>4 DEF VmInv, MigratedIsActive, Created, VmExclusive
<1>. QED
  BY <1>5, <1>6 DEF VmInv

LEMMA ClientVm ==
  ASSUME TypeInv, RegInv, VmInv, Serial, NEW c \in Clients, ClientStep(c)
  PROVE  VmInv'
<1>. USE DEF CGoto, Respond, registry
<1>0. /\ cpc \in [Clients -> ClientPC] /\ cjob \in [Clients -> Jobs \cup {NoJob}] /\ csnap \in [Clients -> Docs]
      /\ store \in [Jobs -> Docs] /\ Migrated \subseteq Jobs /\ Migrated \subseteq running /\ Migrated \cap IsoJobs = {}
      /\ \A j \in Migrated : store[j].phase \in Active
  BY MigratedJobs DEF TypeInv, TypeOK, VmInv, MigratedIsActive
<1>1. cpc[c] # "idle" => cjob[c] \in Jobs
  BY DEF TypeInv, RequestHasJob
<1>2. CASE CreatePut(c)
  <2>1. NewJob.phase \in Active
    BY DEF NewJob, Doc, Active
  <2>2. csnap[c] = NewJob
    BY <1>2 DEF CreatePut, VmInv, Created
  <2>. QED
    BY <1>0, <1>1, <1>2, <2>1, <2>2, HandlerVm DEF CreatePut, PutSnapshot, VmInv, Created
<1>3. CASE CancelPut(c) \/ ResumePut(c)
  <2>1. cjob[c] \notin Migrated
    BY <1>0, <1>3 DEF CancelPut, ResumePut, RegInv, SubmitsIdleJob, AboutToSubmit
  <2>. QED
    BY <1>0, <1>1, <1>3, <2>1, HandlerVm DEF CancelPut, ResumePut, PutSnapshot
<1>4. CASE CreateSubmit(c)
  BY <1>4, CreateSubmitVm
<1>5. CASE CancelSubmit(c) \/ ResumeSubmit(c)
  BY <1>5, OtherSubmitVm
<1>6. CASE CancelCheck(c) \/ CancelFlag(c)
  BY <1>0, <1>6, HandlerVm DEF CancelCheck, CancelFlag, record, VmInv, MigratedIsActive
<1>7. CASE CancelNote(c)
  BY <1>0, <1>1, <1>7, HandlerVm DEF CancelNote, PutSnapshot, VmInv, MigratedIsActive
<1>8. CASE ResumeCheck(c)
  BY <1>0, <1>8, HandlerVm DEF ResumeCheck, record
<1>9. CASE InstallDone(c)
  <2>1. cjob[c] \notin Migrated
    BY <1>0, <1>9 DEF InstallDone, VmInv, Created
  <2>. QED
    BY <1>0, <1>1, <1>9, <2>1, HandlerVm DEF InstallDone, PutSnapshot
<1>. QED
  BY <1>2, <1>3, <1>4, <1>5, <1>6, <1>7, <1>8, <1>9 DEF ClientStep

\* create_job finds no active record of its VM, so no job of that VM is migrated.
LEMMA RequestVm ==
  ASSUME TypeInv, RegInv, VmInv, Serial, NEW c \in Clients, NEW j \in Jobs, NewRequest(c, j)
  PROVE  VmInv'
<1>0. /\ cpc \in [Clients -> ClientPC] /\ cjob \in [Clients -> Jobs \cup {NoJob}] /\ csnap \in [Clients -> Docs]
      /\ Migrated \subseteq Jobs /\ \A k \in Migrated : store[k].phase \in Active
  BY MigratedJobs DEF TypeInv, TypeOK, VmInv, MigratedIsActive
<1>1. CASE CreateCheck(c, j)
  <2>1. j \notin IsoJobs => \A k \in Migrated : VmOf[k] # VmOf[j]
    BY <1>0, <1>1 DEF CreateCheck, ActiveForVm
  <2>. QED
    BY <1>0, <1>1, <2>1, HandlerVm DEF CreateCheck, CGoto
<1>2. CASE CancelRead(c, j) \/ ResumeRead(c, j)
  BY <1>0, <1>2, HandlerVm DEF CancelRead, ResumeRead, ReadJob, CGoto, record
<1>3. CASE InstallRead(c, j)
  BY <1>0, <1>3, HandlerVm DEF InstallRead, ReadJob, CGoto, record
<1>. QED
  BY <1>1, <1>2, <1>3 DEF NewRequest

LEMMA OthersVm ==
  ASSUME TypeInv, RegInv, VmInv, \/ \E phases \in PurgeScopes : Purge(phases)
                                 \/ \E n \in 0..MaxLimit + 1 : SetMaxConcurrent(n)
                                 \/ Restart
  PROVE  VmInv'
<1>1. ASSUME UNCHANGED <<pool, clients>>, \A j \in Jobs : store[j].phase \in Active => store'[j] = store[j]
      PROVE  VmInv'
  <2>1. Migrated' = Migrated /\ Migrated \subseteq Jobs
    BY <1>1, MigratedJobs DEF pool, Migrated, JobOf
  <2>2. \A c \in Clients : cpc[c] = "createSubmit" => cjob[c] \in Jobs
    BY DEF TypeInv, RequestHasJob
  <2>3. Created'
    BY <1>1, <2>1, <2>2 DEF clients, VmInv, Created
  <2>. QED
    BY <1>1, <2>1, <2>3 DEF pool, clients, VmInv, IdleHasNoTask, RunIsNoIso, MigratedIsActive, VmExclusive
<1>2. ASSUME NEW phases \in PurgeScopes, Purge(phases)
      PROVE  VmInv'
  BY <1>1, <1>2 DEF Purge, PurgeScopes, Terminal, Active
<1>3. ASSUME NEW n \in 0..MaxLimit + 1, SetMaxConcurrent(n)
      PROVE  VmInv'
  BY <1>1, <1>3 DEF SetMaxConcurrent, record
<1>4. CASE Restart
  <2>1. Migrated' = {} /\ IdleHasNoTask' /\ RunIsNoIso'
    BY <1>4 DEF Restart, Migrated, IdleHasNoTask, RunIsNoIso, NoTask, Task
  <2>. QED
    BY <1>4, <2>1 DEF Restart, VmInv, MigratedIsActive, Created, VmExclusive
<1>. QED
  BY <1>2, <1>3, <1>4

LEMMA NextVmInv == ASSUME Serial PROVE TypeInv /\ RegInv /\ VmInv /\ [Next]_vars => VmInv'
<1>. SUFFICES ASSUME TypeInv, RegInv, VmInv, [Next]_vars PROVE VmInv'
  OBVIOUS
<1>1. CASE UNCHANGED vars
  <2>1. Migrated' = Migrated
    BY <1>1 DEF vars, Migrated, JobOf
  <2>. QED
    BY <1>1, <2>1 DEF vars, VmInv, IdleHasNoTask, RunIsNoIso, MigratedIsActive, Created, VmExclusive
<1>2. CASE Next
  BY <1>2, ThreadVm, ClientVm, RequestVm, OthersVm DEF Next
<1>. QED
  BY <1>1, <1>2

LEMMA AlwaysRegInv == ASSUME Serial PROVE Spec => []RegInv
<1>1. TypeInv /\ RegInv /\ [Next]_vars => RegInv'
  BY NextRegInv
<1>. QED
  BY <1>1, InitRegInv, AlwaysTypeInv, PTL DEF Spec

\* When the API serves one request at a time, no two jobs of a VM are migrated at the same time: the check of
\* create_job (active_for_vm) is enough, through cancel, resume, purge, failures and restarts.
THEOREM VmIsExclusive == ASSUME Serial PROVE Spec => []VmExclusive
<1>1. VmInv => VmExclusive
  BY DEF VmInv
<1>2. TypeInv /\ RegInv /\ VmInv /\ [Next]_vars => VmInv'
  BY NextVmInv
<1>. QED
  BY <1>1, <1>2, InitVmInv, AlwaysRegInv, AlwaysTypeInv, PTL DEF Spec

-----------------------------------------------------------------------------
(* Who owns a record, without cancel requests.  A record in flight belongs  *)
(* to a task, so what a task leaves behind is not in flight any more; what  *)
(* a thread saved nobody overwrites, so an installation that the user       *)
(* reports as done must be out of the threads' hands (InstallingIsOver).    *)

InFlight == Active \ {"INSTALLING"}
Left(t)  == pc[t] \in {"release", "finish"}
HandedOver(j) == j \notin QueuedJobs /\ \A t \in Busy : JobOf(t) = j => Left(t)

LeftAtRest ==
  \A t \in Threads :
    /\ Left(t) => store[JobOf(t)].phase \notin InFlight
    /\ pc[t] = "complete" => mem[t].phase = "COMPLETED"
    /\ pc[t] \notin {"idle", "start"} /\ mem[t].phase = "INSTALLING" => Left(t)
InstallingIsOver == \A j \in Jobs : store[j].phase = "INSTALLING" => HandedOver(j)
Snapshots ==
  \A c \in Clients :
    /\ cpc[c] \notin {"cancelCheck", "cancelFlag", "cancelNote", "cancelPut", "cancelSubmit"}
    /\ cpc[c] \in {"resumePut", "resumeSubmit"} => csnap[c].phase = "FAILED"
    /\ cpc[c] = "createPut" => csnap[c] = NewJob
    /\ cpc[c] \in {"createSubmit", "resumeSubmit"} => store[cjob[c]].phase # "INSTALLING"
    /\ cpc[c] = "installDone" => HandedOver(cjob[c])

OwnInv == LeftAtRest /\ InstallingIsOver /\ Snapshots /\ NoLostUpdate /\ ActiveIsOwned

LEMMA InitOwnInv == Init => OwnInv
BY DEF Init, OwnInv, LeftAtRest, InstallingIsOver, Snapshots, NoLostUpdate, ActiveIsOwned, Left, Gone, Doc, Active

\* A busy thread that moves from a label where it may still save, and saves a document, leaves nothing in
\* flight behind when it leaves and holds no installation when it stays.
LEMMA MoveOwn ==
  ASSUME TypeInv, RegInv, OwnInv, NEW t \in Threads, pc[t] # "idle", NEW l \in ThreadPC \ {"idle", "start"},
         NEW d \in Docs, Goto(t, l), mem' = [mem EXCEPT ![t] = d],
         \/ store' = store /\ (d = store[JobOf(t)] \/ (pc[t] # "start" /\ d = mem[t]))
         \/ store' = [store EXCEPT ![JobOf(t)] = d],
         Left(t) => l \in {"release", "finish"} /\ store' = store,
         l \in {"release", "finish"} /\ ~Left(t) => d.phase \notin InFlight,
         l = "complete" => d.phase = "COMPLETED",
         d.phase = "INSTALLING" => l \in {"release", "finish"},
         UNCHANGED <<queue, task, running, clients>>
  PROVE  OwnInv'
<1>0. /\ pc' = [pc EXCEPT ![t] = l] /\ pc \in [Threads -> ThreadPC] /\ mem \in [Threads -> Docs]
      /\ store \in [Jobs -> Docs] /\ t \in Busy /\ JobOf(t) \in Jobs /\ JobOf(t) \in running
      /\ \A u \in Threads : JobOf(u)' = JobOf(u)
  BY DEF Goto, TypeInv, TypeOK, BusyHasTask, Busy, JobOf, Tasks, RegInv, RegistryExact, BusyJobs
<1>1. Busy' = Busy /\ QueuedJobs' = QueuedJobs
  BY <1>0 DEF Busy, QueuedJobs
<1>2. \A u \in Busy \ {t} : /\ JobOf(u) # JobOf(t) /\ mem'[u] = mem[u] /\ pc'[u] = pc[u]
                            /\ JobOf(u) \in Jobs /\ store'[JobOf(u)] = store[JobOf(u)]
  BY <1>0 DEF RegInv, RegistryExact, TypeInv, BusyHasTask, Busy, JobOf, Tasks
<1>3. \A j \in Jobs : j # JobOf(t) => store'[j] = store[j]
  BY <1>0
<1>4. Left(t)' <=> l \in {"release", "finish"}
  BY <1>0 DEF Left
<1>5. \A u \in Busy \ {t} : Left(u)' <=> Left(u)
  BY <1>2 DEF Left
<1>6. \A j \in Jobs : HandedOver(j) => HandedOver(j)'
  BY <1>0, <1>1, <1>4, <1>5 DEF HandedOver, Busy
<1>7. store'[JobOf(t)].phase = "INSTALLING" => HandedOver(JobOf(t))'
  <2>1. CASE store'[JobOf(t)] = d
    <3>1. JobOf(t) \notin QueuedJobs /\ \A u \in Busy : JobOf(u) = JobOf(t) => u = t
      BY <1>0, <1>2 DEF RegInv, RegistryExact, BusyJobs
    <3>. QED
      BY <1>0, <1>1, <1>4, <2>1, <3>1 DEF HandedOver, Busy
  <2>2. CASE store' = store
    BY <1>0, <1>6, <2>2 DEF OwnInv, InstallingIsOver
  <2>. QED
    BY <1>0, <2>1, <2>2
<1>8. InstallingIsOver'
  <2>1. ASSUME NEW j \in Jobs, j # JobOf(t), store'[j].phase = "INSTALLING"
        PROVE  HandedOver(j)'
    BY <1>3, <1>6, <2>1 DEF OwnInv, InstallingIsOver
  <2>. QED
    BY <1>0, <1>7, <2>1 DEF InstallingIsOver, HandedOver, Busy
<1>9. \A u \in Threads : u \notin Busy => pc'[u] = "idle"
  BY <1>1 DEF Busy
<1>10. LeftAtRest'
  <2>1. ASSUME l \in {"release", "finish"}
        PROVE  store'[JobOf(t)].phase \notin InFlight
    <3>1. CASE Left(t)
      BY <2>1, <3>1 DEF OwnInv, LeftAtRest
    <3>2. CASE ~Left(t)
      <4>1. store'[JobOf(t)] \in {d, mem[t], Gone}
        BY <1>0, <3>2 DEF OwnInv, NoLostUpdate, Left
      <4>2. (store' = store /\ d = mem[t]) \/ store'[JobOf(t)] = d
        BY <1>0
      <4>. QED
        BY <2>1, <3>2, <4>1, <4>2 DEF Gone, Doc, InFlight, Active
    <3>. QED
      BY <3>1, <3>2
  <2>. QED
    BY <1>0, <1>2, <1>4, <1>5, <1>9, <2>1 DEF OwnInv, LeftAtRest, Left
<1>11. NoLostUpdate'
  BY <1>0, <1>2, <1>9 DEF OwnInv, NoLostUpdate, Left
<1>12. ActiveIsOwned'
  BY <1>0, <1>3 DEF OwnInv, ActiveIsOwned, clients
<1>13. Snapshots'
  <2>1. \A c \in Clients : cpc[c] \in {"createSubmit", "resumeSubmit"} => cjob[c] \in Jobs /\ cjob[c] # JobOf(t)
    BY <1>0 DEF RegInv, SubmitsIdleJob, AboutToSubmit, TypeInv, RequestHasJob
  <2>2. \A c \in Clients : cpc[c] = "installDone" => cjob[c] \in Jobs
    BY DEF TypeInv, RequestHasJob
  <2>. QED
    BY <1>3, <1>6, <2>1, <2>2 DEF OwnInv, Snapshots, clients
<1>. QED
  BY <1>8, <1>10, <1>11, <1>12, <1>13 DEF OwnInv

LEMMA TakeTaskOwn ==
  ASSUME TypeInv, RegInv, OwnInv, NEW t \in Threads, TakeTask(t)
  PROVE  OwnInv'
<1>0. /\ queue \in Seq(Tasks) /\ queue # <<>> /\ queue' = Tail(queue) /\ pc' = [pc EXCEPT ![t] = "start"]
      /\ task' = [task EXCEPT ![t] = Head(queue)] /\ UNCHANGED <<store, running, mem, clients>>
      /\ task \in [Threads -> Tasks \cup {NoTask}] /\ pc \in [Threads -> ThreadPC] /\ pc[t] = "idle"
  BY DEF TakeTask, Goto, TypeInv, TypeOK, record, registry
<1>1. /\ \A n \in DOMAIN queue' : n + 1 \in DOMAIN queue /\ queue'[n] = queue[n + 1]
      /\ 1 \in DOMAIN queue /\ task'[t] = queue[1]
  BY <1>0
<1>2. /\ JobOf(t)' \in QueuedJobs /\ QueuedJobs' \subseteq QueuedJobs
      /\ Busy' = Busy \cup {t} /\ t \notin Busy /\ \A u \in Busy : JobOf(u)' = JobOf(u)
  BY <1>0, <1>1 DEF QueuedJobs, Busy, JobOf
<1>3. \A u \in Threads : u # t => pc'[u] = pc[u] /\ JobOf(u)' = JobOf(u)
  BY <1>0 DEF JobOf
<1>4. \A j \in Jobs : HandedOver(j) => HandedOver(j)'
  BY <1>0, <1>2, <1>3 DEF HandedOver, Left
<1>5. LeftAtRest' /\ NoLostUpdate'
  BY <1>0, <1>3 DEF OwnInv, LeftAtRest, NoLostUpdate, Left
<1>6. ActiveIsOwned'
  BY <1>0 DEF OwnInv, ActiveIsOwned, clients
<1>7. InstallingIsOver'
  BY <1>0, <1>4 DEF OwnInv, InstallingIsOver
<1>8. Snapshots'
  BY <1>0, <1>4 DEF OwnInv, Snapshots, clients, TypeInv, RequestHasJob
<1>. QED
  BY <1>5, <1>6, <1>7, <1>8 DEF OwnInv

LEMMA FinishOwn ==
  ASSUME TypeInv, RegInv, OwnInv, NEW t \in Threads, Finish(t)
  PROVE  OwnInv'
<1>0. /\ pc' = [pc EXCEPT ![t] = "idle"] /\ task' = [task EXCEPT ![t] = NoTask] /\ mem' = [mem EXCEPT ![t] = Gone]
      /\ running' = running \ {JobOf(t)} /\ UNCHANGED <<store, queue, clients>>
      /\ pc \in [Threads -> ThreadPC] /\ mem \in [Threads -> Docs] /\ task \in [Threads -> Tasks \cup {NoTask}]
      /\ pc[t] = "finish"
  BY DEF Finish, Goto, TypeInv, TypeOK, record
<1>1. \A u \in Threads : u # t => pc'[u] = pc[u] /\ JobOf(u)' = JobOf(u) /\ mem'[u] = mem[u]
  BY <1>0 DEF JobOf
<1>2. QueuedJobs' = QueuedJobs /\ Busy' = Busy \ {t}
  BY <1>0 DEF QueuedJobs, Busy
<1>3. \A j \in Jobs : HandedOver(j) => HandedOver(j)'
  BY <1>1, <1>2 DEF HandedOver, Left, Busy
<1>4. LeftAtRest' /\ NoLostUpdate'
  BY <1>0, <1>1 DEF OwnInv, LeftAtRest, NoLostUpdate, Left
<1>5. ActiveIsOwned'
  BY <1>0 DEF OwnInv, ActiveIsOwned, clients, LeftAtRest, Left, InFlight
<1>6. InstallingIsOver'
  BY <1>0, <1>3 DEF OwnInv, InstallingIsOver
<1>7. Snapshots'
  BY <1>0, <1>3 DEF OwnInv, Snapshots, clients, TypeInv, RequestHasJob
<1>. QED
  BY <1>4, <1>5, <1>6, <1>7 DEF OwnInv

LEMMA ThreadOwn ==
  ASSUME TypeInv, RegInv, OwnInv, NEW t \in Threads, ThreadStep(t)
  PROVE  OwnInv'
<1>. DEFINE Launched == [InPhase(mem[t], "PROVISIONING") EXCEPT !.inst = TRUE]
             Done == [mem[t] EXCEPT !.copied = TRUE]
<1>0. mem[t] \in Docs /\ mem = [mem EXCEPT ![t] = mem[t]]
  BY DEF TypeInv, TypeOK
<1>1. /\ \A p \in Phase : InPhase(mem[t], p) \in Docs /\ InPhase(mem[t], p).phase = p
      /\ Launched \in Docs /\ Launched.phase = "PROVISIONING" /\ Done \in Docs /\ Done.phase = mem[t].phase
      /\ {"PROVISIONING", "EXPORTING", "FINALIZING", "INSTALLING", "FAILED", "COMPLETED", "CANCELLED"} \subseteq Phase
  <2>1. \A p \in Phase : InPhase(mem[t], p) \in Docs /\ InPhase(mem[t], p).phase = p
    BY <1>0 DEF Docs, InPhase
  <2>2. {"PROVISIONING", "EXPORTING", "FINALIZING", "INSTALLING", "FAILED", "COMPLETED", "CANCELLED"} \subseteq Phase
    BY DEF Phase, Active, Terminal
  <2>3. \A d \in Docs : [d EXCEPT !.inst = TRUE] \in Docs /\ [d EXCEPT !.inst = TRUE].phase = d.phase
    BY DEF Docs
  <2>4. Done \in Docs /\ Done.phase = mem[t].phase
    BY <1>0 DEF Docs
  <2>. QED
    BY <2>1, <2>2, <2>3, <2>4
<1>2. pc[t] \notin {"idle", "start"} /\ ~Left(t) => mem[t].phase # "INSTALLING"
  BY DEF OwnInv, LeftAtRest
<1>3. ASSUME pc[t] \notin {"idle", "release", "finish"}, NEW l \in ThreadPC \ {"idle", "start", "release", "finish"},
             NEW d \in Docs, SaveStep(t, l, d), d.phase # "INSTALLING", l = "complete" => d.phase = "COMPLETED"
      PROVE  OwnInv'
  BY <1>3, MoveOwn DEF SaveStep, Save, Left, registry
<1>4. ASSUME pc[t] \notin {"idle", "release", "finish"}, NEW d \in Docs, d.phase \notin InFlight, Save(t, d), Leave(t),
             UNCHANGED <<queue, task, slot, registry, gate, clients, restarts>>
      PROVE  OwnInv'
  <2>1. PICK l \in {"release", "finish"} : Goto(t, l)
    BY <1>4 DEF Leave
  <2>. QED
    BY <1>4, <2>1, MoveOwn DEF Save, Left, registry, ThreadPC
<1>5. ASSUME pc[t] \notin {"idle", "start"}, NEW l \in ThreadPC \ {"idle", "start", "complete"}, Goto(t, l),
             UNCHANGED <<record, queue, task, mem, running, clients>>,
             Left(t) <=> l \in {"release", "finish"}
      PROVE  OwnInv'
  BY <1>0, <1>2, <1>5, MoveOwn DEF record, OwnInv, LeftAtRest
<1>6. CASE TakeTask(t)
  BY <1>6, TakeTaskOwn
<1>7. CASE LoadJob(t)
  <2>0. task[t] \in Tasks /\ t \in Busy /\ JobOf(t) \in Jobs /\ store \in [Jobs -> Docs] /\ ~Left(t)
    BY <1>7 DEF LoadJob, TypeInv, TypeOK, BusyHasTask, Busy, JobOf, Tasks, Left
  <2>1. PICK l \in ThreadPC \ {"idle", "start", "complete", "release"} :
          /\ Goto(t, l)
          /\ l = "finish" => store[JobOf(t)] = Gone
    BY <1>7, <2>0 DEF LoadJob, FirstStep, Tasks, Kinds, ThreadPC
  <2>2. store[JobOf(t)].phase # "INSTALLING"
    BY <2>0 DEF OwnInv, InstallingIsOver, HandedOver
  <2>3. Gone.phase \notin InFlight
    BY DEF Gone, Doc, InFlight, Active
  <2>. QED
    BY <1>7, <2>0, <2>1, <2>2, <2>3, MoveOwn DEF LoadJob, record, registry
<1>8. CASE AcquireSlot(t) \/ CancelWaiting(t) \/ CheckCancel(t) \/ StepFails(t) \/ ReleaseSlot(t)
  BY <1>5, <1>8 DEF AcquireSlot, CancelWaiting, CheckCancel, CheckPoints, StepFails, Fallible, ReleaseSlot, ThreadPC,
                    registry, gate, Left
<1>9. CASE WaitForSlot(t) \/ Attach(t) \/ NoteCancelled(t) \/ CopyDisks(t)
  BY <1>0, <1>1, <1>2, <1>3, <1>9 DEF WaitForSlot, SaveStep, Attach, NoteCancelled, CopyDisks, ThreadPC, Left
<1>10. CASE Provision(t) \/ BeginExport(t) \/ GuestFixup(t) \/ BeginFinalize(t) \/ Finalize(t)
  BY <1>1, <1>3, <1>10 DEF Provision, BeginExport, GuestFixup, BeginFinalize, Finalize, ThreadPC
<1>11. CASE Launch(t)
  BY <1>1, <1>3, <1>11 DEF Launch, ThreadPC
<1>12. CASE Install(t) \/ Complete(t) \/ MarkFailed(t) \/ Teardown(t)
  <2>1. pc[t] = "complete" => mem[t].phase = "COMPLETED"
    BY DEF OwnInv, LeftAtRest
  <2>. QED
    BY <1>0, <1>1, <1>4, <1>12, <2>1 DEF Install, Complete, MarkFailed, Teardown, InFlight, Active
<1>13. CASE Finish(t)
  BY <1>13, FinishOwn
<1>. QED
  BY <1>6, <1>7, <1>8, <1>9, <1>10, <1>11, <1>12, <1>13 DEF ThreadStep

\* A handler's step that leaves the pool alone writes only the record of a job that is in no thread's hands, and
\* leaves it in flight only on the way to its submit.
LEMMA HandlerOwn ==
  ASSUME TypeInv, RegInv, OwnInv, Serial, NEW c \in Clients, UNCHANGED <<pool, running>>,
         NEW j \in Jobs, \A k \in Jobs : k # j => store'[k] = store[k],
         \/ store' = store
         \/ /\ HandedOver(j) /\ store'[j].phase # "INSTALLING"
            /\ store'[j].phase \in InFlight => j \notin running /\ cjob'[c] = j /\ cpc'[c] = "createSubmit",
         cpc[c] # "createSubmit",
         cpc'[c] \notin {"cancelCheck", "cancelFlag", "cancelNote", "cancelPut", "cancelSubmit"},
         cpc'[c] \in {"resumePut", "resumeSubmit"} => csnap'[c].phase = "FAILED",
         cpc'[c] = "createPut" => csnap'[c] = NewJob,
         cpc'[c] \in {"createSubmit", "resumeSubmit"} => store'[cjob'[c]].phase # "INSTALLING",
         cpc'[c] = "installDone" => HandedOver(cjob'[c])
  PROVE  OwnInv'
<1>0. \A d \in Clients : d = c
  BY DEF Serial
<1>1. /\ Busy' = Busy /\ QueuedJobs' = QueuedJobs /\ pc' = pc /\ mem' = mem /\ running' = running
      /\ \A t \in Threads : JobOf(t)' = JobOf(t)
  BY DEF pool, Busy, QueuedJobs, JobOf
<1>2. \A k : HandedOver(k)' <=> HandedOver(k)
  BY <1>1 DEF HandedOver, Left, Busy
<1>3. \A t \in Busy : JobOf(t) \in Jobs /\ (store'[JobOf(t)] = store[JobOf(t)] \/ (JobOf(t) = j /\ HandedOver(j)))
  BY DEF TypeInv, BusyHasTask, Busy, JobOf, Tasks
<1>4. NoLostUpdate'
  BY <1>1, <1>3 DEF OwnInv, NoLostUpdate, HandedOver, Left, Busy
<1>5. LeftAtRest'
  <2>1. SUFFICES ASSUME NEW t \in Threads, Left(t) PROVE store'[JobOf(t)].phase \notin InFlight
    BY <1>1 DEF OwnInv, LeftAtRest, Left
  <2>2. t \in Busy /\ store[JobOf(t)].phase \notin InFlight /\ JobOf(t) \in running
    BY <2>1 DEF OwnInv, LeftAtRest, Left, Busy, RegInv, RegistryExact, BusyJobs
  <2>. QED
    BY <1>3, <2>2
<1>6. InstallingIsOver'
  BY <1>2 DEF OwnInv, InstallingIsOver
<1>7. ActiveIsOwned'
  BY <1>0 DEF OwnInv, ActiveIsOwned, InFlight
<1>8. Snapshots'
  BY <1>0, <1>2 DEF Snapshots
<1>. QED
  BY <1>4, <1>5, <1>6, <1>7, <1>8 DEF OwnInv

\* A job is submitted when its record is no installation that was handed over.
LEMMA SubmitOwn ==
  ASSUME TypeInv, RegInv, OwnInv, Serial, NEW c \in Clients, CreateSubmit(c) \/ ResumeSubmit(c)
  PROVE  OwnInv'
<1>0. /\ \A d \in Clients : d = c
      /\ queue \in Seq(Tasks) /\ cjob[c] \in Jobs /\ cpc'[c] = "idle"
      /\ cpc[c] \in {"createSubmit", "resumeSubmit"} /\ UNCHANGED <<store, pc, task, mem>>
      /\ running' = running \cup {cjob[c]}
  BY DEF Serial, CreateSubmit, ResumeSubmit, Submit, Respond, CGoto, record, TypeInv, TypeOK, RequestHasJob
<1>1. PICK kind \in {"run", "iso", "finalize"} : queue' = Append(queue, Task(kind, cjob[c]))
  BY DEF CreateSubmit, ResumeSubmit, Submit
<1>2. Task(kind, cjob[c]) \in Tasks /\ Task(kind, cjob[c]).job = cjob[c]
  BY <1>0, <1>1 DEF Task, Tasks, Kinds
<1>3. \A n \in DOMAIN queue' : queue'[n].job = cjob[c] \/ (n \in DOMAIN queue /\ queue'[n] = queue[n])
  BY <1>0, <1>1, <1>2
<1>4. QueuedJobs' \subseteq QueuedJobs \cup {cjob[c]}
  BY <1>3 DEF QueuedJobs
<1>5. \A j \in Jobs : j # cjob[c] /\ HandedOver(j) => HandedOver(j)'
  BY <1>0, <1>4 DEF HandedOver, Left, Busy, JobOf
<1>6. store[cjob[c]].phase # "INSTALLING"
  BY <1>0 DEF OwnInv, Snapshots
<1>7. InstallingIsOver'
  BY <1>0, <1>5, <1>6 DEF OwnInv, InstallingIsOver
<1>8. LeftAtRest' /\ NoLostUpdate'
  BY <1>0 DEF OwnInv, LeftAtRest, NoLostUpdate, Left, JobOf
<1>9. ActiveIsOwned'
  BY <1>0 DEF OwnInv, ActiveIsOwned
<1>10. Snapshots'
  BY <1>0 DEF Snapshots
<1>. QED
  BY <1>7, <1>8, <1>9, <1>10 DEF OwnInv

LEMMA ClientOwn ==
  ASSUME TypeInv, RegInv, OwnInv, Serial, NEW c \in Clients, ClientStep(c)
  PROVE  OwnInv'
<1>. USE DEF CGoto, Respond, registry
<1>0. /\ cpc \in [Clients -> ClientPC] /\ cjob \in [Clients -> Jobs \cup {NoJob}] /\ csnap \in [Clients -> Docs]
      /\ store \in [Jobs -> Docs]
      /\ cpc[c] # "idle" => cjob[c] \in Jobs
  BY DEF TypeInv, TypeOK, RequestHasJob
<1>1. cpc[c] \in AboutToSubmit => cjob[c] \notin running /\ HandedOver(cjob[c])
  BY DEF RegInv, SubmitsIdleJob, RegistryExact, HandedOver, BusyJobs
<1>2. CASE CreatePut(c)
  <2>1. csnap[c] = NewJob /\ NewJob.phase # "INSTALLING" /\ cjob[c] \in Jobs
    BY <1>0, <1>2 DEF CreatePut, OwnInv, Snapshots, NewJob, Doc
  <2>2. /\ \A k \in Jobs : k # cjob[c] => store'[k] = store[k]
        /\ store'[cjob[c]] = NewJob /\ cpc[c] = "createPut" /\ cpc'[c] = "createSubmit"
        /\ UNCHANGED <<pool, running, cjob, csnap>>
    BY <1>0, <1>2, <2>1 DEF CreatePut, PutSnapshot
  <2>. QED
    BY <1>1, <2>1, <2>2, HandlerOwn DEF AboutToSubmit
<1>3. CASE ResumePut(c)
  <2>1. csnap[c].phase = "FAILED" /\ "FAILED" \notin InFlight /\ cjob[c] \in Jobs
    BY <1>0, <1>3 DEF ResumePut, OwnInv, Snapshots, InFlight, Active
  <2>2. /\ \A k \in Jobs : k # cjob[c] => store'[k] = store[k]
        /\ store'[cjob[c]] = csnap[c] /\ cpc[c] = "resumePut" /\ cpc'[c] = "resumeSubmit"
        /\ UNCHANGED <<pool, running, cjob, csnap>>
    BY <1>0, <1>3, <2>1 DEF ResumePut, PutSnapshot
  <2>. QED
    BY <1>1, <2>1, <2>2, HandlerOwn DEF AboutToSubmit
<1>4. CASE CreateSubmit(c) \/ ResumeSubmit(c)
  BY <1>4, SubmitOwn
<1>5. CASE CancelCheck(c) \/ CancelFlag(c) \/ CancelNote(c) \/ CancelPut(c) \/ CancelSubmit(c)
  BY <1>5 DEF CancelCheck, CancelFlag, CancelNote, CancelPut, CancelSubmit, OwnInv, Snapshots
<1>6. CASE ResumeCheck(c)
  <2>1. cjob[c] \in Jobs /\ cpc[c] = "resumeCheck"
    BY <1>0, <1>6 DEF ResumeCheck
  <2>2. UNCHANGED <<store, pool, running>>
    BY <1>6 DEF ResumeCheck, record
  <2>3. cpc'[c] = "idle" \/ (cpc'[c] = "resumePut" /\ csnap'[c].phase = "FAILED")
    BY <1>0, <1>6 DEF ResumeCheck, CanResume
  <2>. QED
    BY <2>1, <2>2, <2>3, HandlerOwn
<1>7. CASE InstallDone(c)
  <2>1. HandedOver(cjob[c]) /\ InPhase(csnap[c], "COMPLETED").phase \notin InFlight \cup {"INSTALLING"}
    BY <1>0, <1>7 DEF InstallDone, OwnInv, Snapshots, InPhase, Docs, InFlight, Active
  <2>2. cjob[c] \in Jobs /\ cpc[c] = "installDone" /\ cpc'[c] = "idle" /\ UNCHANGED <<pool, running>>
    BY <1>0, <1>7 DEF InstallDone
  <2>3. /\ \A k \in Jobs : k # cjob[c] => store'[k] = store[k]
        /\ store'[cjob[c]].phase \notin InFlight \cup {"INSTALLING"}
    BY <1>0, <1>7, <2>1, <2>2 DEF InstallDone, PutSnapshot
  <2>. QED
    BY <2>1, <2>2, <2>3, HandlerOwn
<1>. QED
  BY <1>2, <1>3, <1>4, <1>5, <1>6, <1>7 DEF ClientStep

LEMMA RequestOwn ==
  ASSUME TypeInv, RegInv, OwnInv, Serial, "cancel" \notin Requests, NEW c \in Clients, NEW j \in Jobs,
         NewRequest(c, j)
  PROVE  OwnInv'
<1>0. /\ cpc \in [Clients -> ClientPC] /\ cjob \in [Clients -> Jobs \cup {NoJob}] /\ csnap \in [Clients -> Docs]
  BY DEF TypeInv, TypeOK
<1>1. CASE CreateCheck(c, j)
  BY <1>0, <1>1, HandlerOwn DEF CreateCheck, CGoto, registry
<1>2. CASE ResumeRead(c, j)
  BY <1>0, <1>2, HandlerOwn DEF ResumeRead, ReadJob, CGoto, record, registry
<1>3. CASE InstallRead(c, j)
  <2>1. HandedOver(j)
    BY <1>3 DEF InstallRead, OwnInv, InstallingIsOver
  <2>. QED
    BY <1>0, <1>3, <2>1, HandlerOwn DEF InstallRead, ReadJob, CGoto, record, registry
<1>. QED
  BY <1>1, <1>2, <1>3 DEF NewRequest, CancelRead

LEMMA OthersOwn ==
  ASSUME TypeInv, RegInv, OwnInv, \/ \E phases \in PurgeScopes : Purge(phases)
                                  \/ \E n \in 0..MaxLimit + 1 : SetMaxConcurrent(n)
                                  \/ Restart
  PROVE  OwnInv'
<1>1. ASSUME UNCHANGED <<pool, running, clients>>, \A j \in Jobs : store'[j] \in {store[j], Gone}
      PROVE  OwnInv'
  <2>1. /\ Busy' = Busy /\ QueuedJobs' = QueuedJobs /\ pc' = pc /\ mem' = mem
        /\ \A t \in Threads : JobOf(t)' = JobOf(t)
    BY <1>1 DEF pool, Busy, QueuedJobs, JobOf
  <2>2. \A j : HandedOver(j)' <=> HandedOver(j)
    BY <2>1 DEF HandedOver, Left, Busy
  <2>3. \A t \in Busy : JobOf(t) \in Jobs
    BY DEF TypeInv, BusyHasTask, Busy, JobOf, Tasks
  <2>4. Gone.phase = "GONE"
    BY DEF Gone, Doc
  <2>5. LeftAtRest' /\ NoLostUpdate'
    BY <1>1, <2>1, <2>3, <2>4 DEF OwnInv, LeftAtRest, NoLostUpdate, Left, Busy, InFlight, Active
  <2>6. InstallingIsOver' /\ ActiveIsOwned'
    BY <1>1, <2>2, <2>4 DEF OwnInv, InstallingIsOver, ActiveIsOwned, clients, Active
  <2>7. Snapshots'
    BY <1>1, <2>2, <2>4 DEF OwnInv, Snapshots, clients, TypeInv, RequestHasJob
  <2>. QED
    BY <2>5, <2>6, <2>7 DEF OwnInv
<1>2. ASSUME NEW phases \in PurgeScopes, Purge(phases)
      PROVE  OwnInv'
  BY <1>1, <1>2 DEF Purge, registry
<1>3. ASSUME NEW n \in 0..MaxLimit + 1, SetMaxConcurrent(n)
      PROVE  OwnInv'
  BY <1>1, <1>3 DEF SetMaxConcurrent, record, registry
<1>4. CASE Restart
  <2>1. \A j \in Jobs : store'[j].phase \notin InFlight
    <3>1. store \in [Jobs -> Docs] /\ \A d \in Docs : FailStale(d).phase \notin InFlight
      BY DEF TypeInv, TypeOK, FailStale, StaleAtStart, InFlight, InPhase, Active, Docs
    <3>. QED
      BY <1>4, <3>1 DEF Restart
  <2>2. QueuedJobs' = {} /\ Busy' = {}
    BY <1>4 DEF Restart, QueuedJobs, Busy
  <2>. QED
    BY <1>4, <2>1, <2>2 DEF Restart, OwnInv, LeftAtRest, NoLostUpdate, InstallingIsOver, HandedOver, ActiveIsOwned,
                            Snapshots, Left, InFlight
<1>. QED
  BY <1>2, <1>3, <1>4

LEMMA NextOwnInv ==
  ASSUME Serial, "cancel" \notin Requests
  PROVE  TypeInv /\ RegInv /\ OwnInv /\ [Next]_vars => OwnInv'
<1>. SUFFICES ASSUME TypeInv, RegInv, OwnInv, [Next]_vars PROVE OwnInv'
  OBVIOUS
<1>1. CASE UNCHANGED vars
  <2>1. Busy' = Busy /\ QueuedJobs' = QueuedJobs
    BY <1>1 DEF vars, Busy, QueuedJobs
  <2>2. \A j : HandedOver(j)' <=> HandedOver(j)
    BY <1>1, <2>1 DEF vars, HandedOver, Left, JobOf
  <2>3. LeftAtRest' /\ NoLostUpdate' /\ ActiveIsOwned'
    BY <1>1 DEF vars, OwnInv, LeftAtRest, NoLostUpdate, ActiveIsOwned, Left, JobOf
  <2>4. InstallingIsOver' /\ Snapshots'
    BY <1>1, <2>2 DEF vars, OwnInv, InstallingIsOver, Snapshots
  <2>. QED
    BY <2>3, <2>4 DEF OwnInv
<1>2. CASE Next
  BY <1>2, ThreadOwn, ClientOwn, RequestOwn, OthersOwn DEF Next
<1>. QED
  BY <1>1, <1>2

LEMMA AlwaysOwnInv == ASSUME Serial, "cancel" \notin Requests PROVE Spec => []OwnInv
<1>1. TypeInv /\ RegInv /\ OwnInv /\ [Next]_vars => OwnInv'
  BY NextOwnInv
<1>. QED
  BY <1>1, InitOwnInv, AlwaysRegInv, AlwaysTypeInv, PTL DEF Spec

\* Requests served one at a time and none of them a cancel: what a thread saved stays until its next save, or
\* the row is purged; no handler's put and no other thread overwrites it (JobStore.put replaces whole documents).
THEOREM NoUpdateIsLost == ASSUME Serial, "cancel" \notin Requests PROVE Spec => []NoLostUpdate
<1>1. OwnInv => NoLostUpdate
  BY DEF OwnInv
<1>. QED
  BY <1>1, AlwaysOwnInv, PTL

\* Under the same conditions a record in flight has a task, or a create request about to submit one, also when
\* steps fail and the helper restarts (fail_stale_jobs): active_for_vm never finds a job nobody works on.
THEOREM ActiveHasOwner == ASSUME Serial, "cancel" \notin Requests PROVE Spec => []ActiveIsOwned
<1>1. OwnInv => ActiveIsOwned
  BY DEF OwnInv
<1>. QED
  BY <1>1, AlwaysOwnInv, PTL
================================================================================
