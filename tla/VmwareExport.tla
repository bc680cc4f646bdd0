------------------------------ MODULE VmwareExport ------------------------------
(***************************************************************************)
(* The export of a VMware VM's disks: the source is powered off             *)
(* (vsphere/power.py), an NFC lease is opened and closed                     *)
(* (vsphere/export.py), and each disk is downloaded, decoded and written    *)
(* with its attempts (jobs/runner.py, disk/writer.py).  VmdkStream supplies *)
(* the decoder, DecodePipeline the thread it may run on.                    *)
(*                                                                          *)
(* vSphere is external: tasks and leases take effect when they like, and    *)
(* any call may be refused.                                                 *)
(***************************************************************************)
EXTENDS VmdkStream, DecodePipeline, FiniteSetsExt

CONSTANTS
  Setups,      \* what is exported, and how: see Init
  ChunkUnits,  \* nfc_chunk_bytes, in the units of VmdkStream
  MaxAttempts  \* disk_retry_attempts

ASSUME VmwareAssumption ==
  /\ ChunkUnits \in Nat \ {0} /\ MaxAttempts \in Nat \ {0}
  /\ \A s \in Setups : s.n \in Nat

ASSUME StreamsAssumption == \A s \in Setups : DOMAIN s.streams = 1..s.n /\ \A d \in 1..s.n : IsStream(s.streams[d])

\* What match_disk_urls trusts vCenter with: a URL delivers a disk of the VM, no two the same one; its key names
\* that disk or none; and of the URLs without a key, the target ids, or else the order, follow the disks.
Truthful(n, urls) ==
  LET Unnamed == {i \in DOMAIN urls : urls[i].key = 0}
      Targets == \A i, k \in Unnamed : urls[i].target # 0 /\ (i # k => urls[i].target # urls[k].target)
  IN /\ \A i \in DOMAIN urls : urls[i].disk \in 1..n /\ urls[i].key \in {0, urls[i].disk} /\ urls[i].target \in Nat
     /\ \A i, k \in DOMAIN urls : urls[i].disk = urls[k].disk => i = k
     /\ \A i, k \in Unnamed :
          urls[i].disk < urls[k].disk <=> IF Targets THEN urls[i].target < urls[k].target ELSE i < k

ASSUME LeasesAssumption ==
  \A s \in Setups : DOMAIN s.urls = 1..Len(s.urls) /\ Len(s.urls) \in Nat /\ Truthful(s.n, s.urls)

\* Not assumed, but the hypothesis of a theorem: a worker hangs only where there is no other disk to write to.
HangsAlone == \A s \in Setups : "hang" \in s.events => s.n = 1

VARIABLES
  setup,      \* the VM, its streams and the options of the job
  pc,         \* where the job's thread is
  source,     \* vSphere: the power state of the VM
  asked,      \* vSphere: the guest was asked to shut down
  task,       \* vSphere: the state of the PowerOffVM task
  touched,    \* somebody switched the VM in vCenter (bounds the model to one change)
  lease,      \* vSphere: the state of the NFC lease
  keepalive,  \* the keepalive thread was started and not told to stop
  idx,        \* the disk the job's thread works on
  attempt,    \* the attempt to copy it
  outcome,    \* how the attempt, or the `with export` block, is left
  pos,        \* chunks downloaded in this attempt
  dec,        \* the decoder of this attempt
  orphan,     \* a decoder whose worker was not waited for (at most one: bounds the model)
  fd,         \* the disk the writer's descriptor is open on, or 0
  dev,        \* the contents of the OCI volumes
  copied,     \* disks that are COPIED
  synced,     \* disks whose last writer was closed with a successful fsync
  cancel,     \* the job is in _cancel_requested
  result      \* what becomes of the job

power   == <<source, asked, task, touched>>
nfc     == <<lease, keepalive>>
loop    == <<idx, attempt, outcome>>
stream  == <<pos, dec>>
volumes == <<fd, dev, copied, synced>>
vars    == <<pipeVars, setup, pc, power, nfc, loop, stream, orphan, volumes, cancel, result>>

Disks  == 1..setup.n
Nobody == [dec |-> Fresh, disk |-> 0]
Goto(l) == pc' = l

\* The job leaves the export outside of the `with export` block.
End(r) == Goto("idle") /\ result' = r

-----------------------------------------------------------------------------
(* vsphere/power.py                                                         *)

\* The first look at the source.  A VM that is not off needs the confirmation of the operator.
CheckPower ==
  /\ pc = "check"
  /\ \/ source = "off" /\ Goto("lease") /\ UNCHANGED result
     \/ source # "off" /\ setup.confirmed /\ Goto("shutdown") /\ UNCHANGED result
     \/ source # "off" /\ ~setup.confirmed /\ End("FAILED")
  /\ UNCHANGED <<pipeVars, setup, power, nfc, loop, stream, orphan, volumes, cancel>>

\* shut_down looks again: a suspended VM is left alone; the guest is asked if VMware Tools runs and takes it.
ShutDown ==
  /\ pc = "shutdown"
  /\ \/ source = "off" /\ Goto("lease") /\ UNCHANGED <<asked, result>>
     \/ source = "suspended" /\ End("FAILED") /\ UNCHANGED asked
     \/ source = "on" /\ asked' = TRUE /\ Goto("guestWait") /\ UNCHANGED result
     \/ source = "on" /\ Goto("powerOff") /\ UNCHANGED <<asked, result>>
  /\ UNCHANGED <<pipeVars, setup, source, task, touched, nfc, loop, stream, orphan, volumes, cancel>>

\* _wait_powered_off, after ShutdownGuest and after the task: off, cancelled, or out of patience.
AwaitOff(l, late) ==
  /\ pc = l
  /\ \/ cancel /\ End("CANCELLED")
     \/ source = "off" /\ Goto("lease") /\ UNCHANGED result
     \/ source # "off" /\ late
  /\ UNCHANGED <<pipeVars, setup, power, nfc, loop, stream, orphan, volumes, cancel>>

GuestWait == AwaitOff("guestWait", Goto("powerOff") /\ UNCHANGED result)
OffWait   == AwaitOff("offWait", End("FAILED"))

\* PowerOffVM_Task is refused, or a task runs.
PowerOff ==
  /\ pc = "powerOff"
  /\ \/ End("FAILED") /\ UNCHANGED task
     \/ task' = "running" /\ Goto("taskWait") /\ UNCHANGED result
  /\ UNCHANGED <<pipeVars, setup, source, asked, touched, nfc, loop, stream, orphan, volumes, cancel>>

\* _wait_task; the deadline passes while the task runs.
TaskWait ==
  /\ pc = "taskWait"
  /\ \/ task = "success" /\ Goto("offWait") /\ UNCHANGED result
     \/ task # "success" /\ End("FAILED")
  /\ UNCHANGED <<pipeVars, setup, power, nfc, loop, stream, orphan, volumes, cancel>>

-----------------------------------------------------------------------------
(* vsphere/export.py: __enter__, __exit__ and the URLs of the lease         *)

\* ExportVm: vCenter refuses it for a VM that is not off.
OpenLease ==
  /\ pc = "lease"
  /\ \/ End("FAILED") /\ UNCHANGED lease
     \/ source = "off" /\ lease' = "initializing" /\ Goto("leaseWait") /\ UNCHANGED result
  /\ UNCHANGED <<pipeVars, setup, power, keepalive, loop, stream, orphan, volumes, cancel>>

\* An exception in __enter__ leaves the lease as it is: __exit__ is not called.
LeaseWait ==
  /\ pc = "leaseWait"
  /\ \/ lease = "ready" /\ keepalive' = TRUE /\ Goto("match") /\ UNCHANGED result
     \/ lease # "ready" /\ End("FAILED") /\ UNCHANGED keepalive
  /\ UNCHANGED <<pipeVars, setup, power, lease, loop, stream, orphan, volumes, cancel>>

\* match_disk_urls: a lease URL names the disk by the end of its key or by its target id (0: it does not);
\* `disk` is the disk it delivers.  First the keys ...
Keyed == {d \in Disks : \E i \in DOMAIN setup.urls : setup.urls[i].key = d}
KeyUrl(d) == Min({i \in DOMAIN setup.urls : setup.urls[i].key = d})
Rest == DOMAIN setup.urls \ {KeyUrl(d) : d \in Keyed}

\* ... then, for the rest, the order of the target ids if every URL has one of its own, else the given order.
HaveTargets ==
  /\ \A i \in Rest : setup.urls[i].target # 0
  /\ \A i, k \in Rest : i # k => setup.urls[i].target # setup.urls[k].target
Before(i, k) == IF HaveTargets THEN setup.urls[i].target < setup.urls[k].target ELSE i < k

\* The URL of disk d; there is one when as many URLs as disks are left: the first for the first, and so on.
CanMatch == Keyed = Disks \/ Cardinality(Rest) = Cardinality(Disks \ Keyed)
UrlOf(d) ==
  IF d \in Keyed THEN KeyUrl(d)
  ELSE CHOOSE i \in Rest : Cardinality({k \in Rest : Before(k, i)}) = Cardinality({e \in Disks \ Keyed : e < d})

\* The stream that is downloaded for disk d.
Source(d) == setup.streams[setup.urls[UrlOf(d)].disk]

Exit(o) == Goto("exit") /\ outcome' = o

MatchUrls ==
  /\ pc = "match"
  /\ IF CanMatch THEN Goto("disk") /\ UNCHANGED outcome ELSE Exit("failed")
  /\ UNCHANGED <<pipeVars, setup, power, nfc, idx, attempt, stream, orphan, volumes, cancel, result>>

\* Mutant of CloseLease: the lease is completed whatever happened.
CloseLease_Completes ==
  /\ pc = "exit"
  /\ keepalive' = FALSE
  /\ lease' = "completed"
  /\ End(IF outcome = "cancelled" \/ (outcome = "ok" /\ cancel) THEN "CANCELLED"
         ELSE IF outcome = "ok" THEN "EXPORTED" ELSE "FAILED")
  /\ UNCHANGED <<pipeVars, setup, power, loop, stream, orphan, volumes, cancel>>

\* __exit__; a failure of the call is logged.  The block is left normally: one more look at the cancel flag.
CloseLease ==
  /\ pc = "exit"
  /\ keepalive' = FALSE
  /\ lease' \in {lease, IF outcome = "ok" THEN "completed" ELSE "aborted"}
  /\ End(IF outcome = "cancelled" \/ (outcome = "ok" /\ cancel) THEN "CANCELLED"
         ELSE IF outcome = "ok" THEN "EXPORTED" ELSE "FAILED")
  /\ UNCHANGED <<pipeVars, setup, power, loop, stream, orphan, volumes, cancel>>

-----------------------------------------------------------------------------
(* jobs/runner.py: the loop over the disks and _export_disk                 *)

NextDisk ==
  /\ pc = "disk"
  /\ IF idx > setup.n THEN Exit("ok") /\ UNCHANGED <<idx, attempt>>
     ELSE IF idx \in copied THEN idx' = idx + 1 /\ UNCHANGED <<pc, attempt, outcome>>
     ELSE IF cancel THEN Exit("cancelled") /\ UNCHANGED <<idx, attempt>>
     ELSE Goto("attempt") /\ attempt' = 1 /\ UNCHANGED <<idx, outcome>>
  /\ UNCHANGED <<pipeVars, setup, power, nfc, stream, orphan, volumes, cancel, result>>

\* A new attempt: the descriptor, the decoder and, if the job asks for it, the pipeline.
Begin ==
  /\ pc = "attempt"
  /\ \/ cancel /\ Exit("cancelled") /\ UNCHANGED <<pipeVars, stream, orphan, fd>>
     \/ ~cancel /\ Exit("failed") /\ UNCHANGED <<pipeVars, stream, orphan, fd>>
     \/ /\ ~cancel /\ Goto("stream") /\ UNCHANGED outcome
        /\ fd' = idx /\ pos' = 0 /\ dec' = Fresh
        /\ IF setup.pipelined THEN Create ELSE UNCHANGED pipeVars
        /\ orphan' = IF wpc # "ended" THEN [dec |-> dec, disk |-> idx] ELSE orphan
  /\ UNCHANGED <<setup, power, nfc, idx, attempt, dev, copied, synced, cancel, result>>

\* The attempt ends, and the finally clause begins.
Leave(o) == Goto("abort") /\ outcome' = o

Chunks == (Units(Source(idx)) + ChunkUnits - 1) \div ChunkUnits
ChunkLen(k) == Min({ChunkUnits, Units(Source(idx)) - (k - 1) * ChunkUnits})

\* The next chunk of the response, its end, or an HTTP error.
Download ==
  /\ pc = "stream"
  /\ \/ Leave("failed") /\ UNCHANGED <<pipeVars, stream>>
     \/ pos < Chunks /\ cancel /\ Leave("cancelled") /\ UNCHANGED <<pipeVars, stream>>
     \/ /\ pos < Chunks /\ ~cancel /\ pos' = pos + 1 /\ UNCHANGED outcome
        /\ IF setup.pipelined
             THEN CallFeed /\ Goto("feed") /\ UNCHANGED dec
             ELSE dec' = Extend(dec, ChunkLen(pos + 1)) /\ Goto("decode") /\ UNCHANGED pipeVars
     \/ /\ pos = Chunks /\ Goto("finish") /\ UNCHANGED <<stream, outcome>>
        /\ IF setup.pipelined THEN CallFinish ELSE UNCHANGED pipeVars
  /\ UNCHANGED <<setup, power, nfc, idx, attempt, orphan, volumes, cancel, result>>

\* PipelinedDecoder.feed has returned or raised.  The except clause does not name RuntimeError.
Caught(e) == IF e = "aborted" THEN "uncaught" ELSE "failed"

FeedReturns ==
  /\ pc = "feed" /\ ppc = "out"
  /\ IF raised = "none" THEN Goto("stream") /\ UNCHANGED outcome ELSE Leave(Caught(raised))
  /\ UNCHANGED <<pipeVars, setup, power, nfc, idx, attempt, stream, orphan, volumes, cancel, result>>

\* One item of a stream is written through the descriptor, if there is one: its number may by now be that
\* of another disk's.
WriteItem(s, d) ==
  dev' = IF fd = 0 THEN dev ELSE [dev EXCEPT ![fd] = Emit(s, s.items[d.next], @)]

\* The decoder without a pipeline, on the job's thread.
Decode ==
  /\ pc = "decode"
  /\ IF CanDrain(Source(idx), dec)
       THEN \/ ~Malformed(Source(idx), dec) /\ WriteItem(Source(idx), dec)
               /\ dec' = Drained(Source(idx), dec) /\ UNCHANGED <<pc, outcome>>
            \/ Leave("failed") /\ UNCHANGED <<dev, dec>>
       ELSE Goto("stream") /\ UNCHANGED <<outcome, dev, dec>>
  /\ UNCHANGED <<pipeVars, setup, power, nfc, idx, attempt, pos, orphan, fd, copied, synced, cancel, result>>

\* The worker of the pipeline takes a chunk ...
WorkerGets ==
  /\ Get
  /\ dec' = IF hand' = EOF THEN dec ELSE Extend(dec, ChunkLen(hand'))
  /\ UNCHANGED <<setup, pc, power, nfc, loop, pos, orphan, volumes, cancel, result>>

\* ... and decodes what it can; a malformed item or a failed write ends it.
WorkerDecodes ==
  /\ wpc = "feed"
  /\ IF CanDrain(Source(idx), dec)
       THEN \/ ~Malformed(Source(idx), dec) /\ fd # 0 /\ WriteItem(Source(idx), dec)
               /\ dec' = Drained(Source(idx), dec) /\ UNCHANGED pipeVars
            \/ DecodeFails /\ UNCHANGED <<dev, dec>>
       ELSE Decoded /\ UNCHANGED <<dev, dec>>
  /\ UNCHANGED <<setup, pc, power, nfc, loop, pos, orphan, fd, copied, synced, cancel, result>>

WorkerMoves ==
  /\ WorkerLoop \/ WorkerFails \/ WorkerStops
  /\ UNCHANGED <<setup, pc, power, nfc, loop, stream, orphan, volumes, cancel, result>>

\* A worker that was not waited for: its write at last returns, and it decodes on to the end of its chunk.
OrphanDecodes ==
  /\ orphan # Nobody
  /\ LET s == Source(orphan.disk) IN
     IF CanDrain(s, orphan.dec) /\ ~Malformed(s, orphan.dec) /\ fd # 0
       THEN WriteItem(s, orphan.dec) /\ orphan' = [orphan EXCEPT !.dec = Drained(s, @)]
       ELSE orphan' = Nobody /\ UNCHANGED dev
  /\ UNCHANGED <<pipeVars, setup, pc, power, nfc, loop, stream, fd, copied, synced, cancel, result>>

\* sink.finish(): the disk is COPIED, or the stream was not complete.
Finish ==
  /\ pc = "finish" /\ ppc = "out"
  /\ IF setup.pipelined /\ raised # "none" THEN Leave(Caught(raised)) /\ UNCHANGED copied
     ELSE IF ~Ends(dec) THEN Leave("failed") /\ UNCHANGED copied
     ELSE copied' = copied \cup {idx} /\ Leave("ok")
  /\ UNCHANGED <<pipeVars, setup, power, nfc, idx, attempt, stream, orphan, fd, dev, synced, cancel, result>>

\* Mutant of Abort: the writer is closed first.
Abort_Not ==
  /\ pc = "abort" /\ Goto("close")
  /\ UNCHANGED <<pipeVars, setup, power, nfc, loop, stream, orphan, volumes, cancel, result>>

\* The finally clause: pipeline.abort() ...
Abort ==
  /\ pc = "abort"
  /\ IF setup.pipelined /\ ~done THEN CallAbort /\ Goto("aborting") ELSE Goto("close") /\ UNCHANGED pipeVars
  /\ UNCHANGED <<setup, power, nfc, loop, stream, orphan, volumes, cancel, result>>

Aborted ==
  /\ pc = "aborting" /\ ppc = "out" /\ Goto("close")
  /\ UNCHANGED <<pipeVars, setup, power, nfc, loop, stream, orphan, volumes, cancel, result>>

\* The steps of the pipeline's calls on the job's thread.  Only a worker that hangs in a write outlasts the
\* join of abort.
CallSteps ==
  /\ \/ Put \/ PutTimesOut \/ PutEof \/ Joined \/ AbortFlag \/ AbortEmpty
     \/ \E timeout \in BOOLEAN :
          /\ timeout => "hang" \in setup.events /\ wpc = "feed" /\ orphan = Nobody
          /\ AbortJoin(timeout)
  /\ UNCHANGED <<setup, pc, power, nfc, loop, stream, orphan, volumes, cancel, result>>

\* ... then writer.close().  An fsync that fails raises out of the finally clause, whatever was on its way.
Close ==
  /\ pc = "close" /\ fd' = 0
  /\ \/ /\ synced' = synced \cup {idx}
        /\ \/ outcome = "ok" /\ Goto("disk") /\ idx' = idx + 1 /\ UNCHANGED <<attempt, outcome>>
           \/ outcome = "failed" /\ attempt < MaxAttempts /\ Goto("attempt") /\ attempt' = attempt + 1
              /\ UNCHANGED <<idx, outcome>>
           \/ outcome = "failed" /\ attempt = MaxAttempts /\ Exit("failed") /\ UNCHANGED <<idx, attempt>>
           \/ outcome \in {"cancelled", "uncaught"} /\ Exit(outcome) /\ UNCHANGED <<idx, attempt>>
     \/ synced' = synced \ {idx} /\ Exit("failed") /\ UNCHANGED <<idx, attempt>>
  /\ UNCHANGED <<pipeVars, setup, power, nfc, stream, orphan, dev, copied, cancel, result>>

-----------------------------------------------------------------------------
(* What happens around the task                                             *)

CancelRunning ==
  /\ "cancel" \in setup.events /\ pc # "idle" /\ ~cancel /\ cancel' = TRUE
  /\ UNCHANGED <<pipeVars, setup, pc, power, nfc, loop, stream, orphan, volumes, result>>

\* The guest shuts down, sooner or later, or too late.
GuestStops ==
  /\ asked /\ source = "on" /\ source' = "off" /\ asked' = FALSE
  /\ UNCHANGED <<pipeVars, setup, pc, task, touched, nfc, loop, stream, orphan, volumes, cancel, result>>

\* The power-off task succeeds, or fails, as it does on a VM that is no longer on.
TaskRuns ==
  /\ task = "running"
  /\ \/ source = "on" /\ source' = "off" /\ task' = "success"
     \/ task' = "error" /\ UNCHANGED source
  /\ UNCHANGED <<pipeVars, setup, pc, asked, touched, nfc, loop, stream, orphan, volumes, cancel, result>>

\* Somebody switches the VM in vCenter, which is not possible while a lease is open.
UserSwitches ==
  /\ "user" \in setup.events /\ ~touched /\ touched' = TRUE
  /\ lease \notin {"initializing", "ready"}
  /\ source' \in {"on", "off", "suspended"} \ {source}
  /\ UNCHANGED <<pipeVars, setup, pc, asked, task, nfc, loop, stream, orphan, volumes, cancel, result>>

LeaseTurns ==
  /\ lease = "initializing" /\ lease' \in {"ready", "error"}
  /\ UNCHANGED <<pipeVars, setup, pc, power, keepalive, loop, stream, orphan, volumes, cancel, result>>

\* A job that has its OCI volumes, blank, attached to the helper.
Init ==
  /\ PipeInit
  /\ setup \in Setups
  /\ pc = "check" /\ source = setup.power /\ asked = FALSE /\ task = "none" /\ touched = FALSE
  /\ lease = "none" /\ keepalive = FALSE
  /\ idx = 1 /\ attempt = 0 /\ outcome = "none" /\ pos = 0 /\ dec = Fresh /\ orphan = Nobody
  /\ fd = 0 /\ dev = [d \in Disks |-> Blank(setup.streams[d])] /\ copied = {} /\ synced = {}
  /\ cancel = FALSE /\ result = "EXPORTING"

TaskStep ==
  \/ CheckPower \/ ShutDown \/ GuestWait \/ OffWait \/ PowerOff \/ TaskWait
  \/ OpenLease \/ LeaseWait \/ MatchUrls \/ CloseLease
  \/ NextDisk \/ Begin \/ Download \/ FeedReturns \/ Decode \/ Finish \/ Abort \/ Aborted \/ Close
  \/ CallSteps

WorkerSteps == WorkerGets \/ WorkerDecodes \/ WorkerMoves

Next ==
  \/ TaskStep \/ WorkerSteps \/ OrphanDecodes
  \/ CancelRunning \/ GuestStops \/ TaskRuns \/ UserSwitches \/ LeaseTurns

\* The two threads run, and every wait for vSphere has a deadline.
Spec == Init /\ [][Next]_vars /\ WF_vars(TaskStep) /\ WF_vars(WorkerSteps)
-----------------------------------------------------------------------------
(* Properties                                                               *)

\* A COPIED disk holds exactly what its own stream describes, and that stream was intact: whichever URL of
\* the lease, which chunks, which thread and which attempt it came by (match_disk_urls, _drain, finish).
CopiedIsComplete ==
  \A d \in copied : WellFormed(setup.streams[d]) /\ dev[d] = Image(setup.streams[d])

\* "Always call abort() ... before closing the underlying writer" (PipelinedDecoder): the descriptor goes away
\* only after the worker ended, unless a write of the worker hangs for more than 30 s.
WriterOutlivesWorker == fd = 0 /\ "hang" \notin setup.events => wpc = "ended"

\* The lease is completed only for a job all of whose disks are COPIED; an export that succeeds has flushed every
\* disk (writer.close, runner.py:858).  A block that was entered, however the job left it, leaves no lease open for
\* longer than vCenter's own time limit: it is closed the way the block ended, or, when the closing call failed,
\* ready but no longer kept alive (__exit__).  A job that never entered it leaves nothing that keeps a lease alive.
LeaseMatchesResult ==
  /\ lease = "completed" => copied = Disks /\ result \in {"EXPORTED", "CANCELLED"}
  /\ result = "EXPORTED" => copied = Disks /\ synced = Disks /\ lease \in {"ready", "completed"}
  /\ lease = "aborted" => result \in {"FAILED", "CANCELLED"}
  /\ pc = "idle" => ~keepalive
  /\ pc = "idle" /\ outcome # "none" => lease \in {"ready", IF outcome = "ok" THEN "completed" ELSE "aborted"}

\* No export hangs: not on a full queue, on a worker that waits for a chunk, on a lease or on the guest.
TaskEnds == <>(pc = "idle")

\* The pipeline as it is used here is the one of DecodePipeline, so what is proved of PipeSpec holds.
UsesPipeline == [][PipeNext]_pipeVars
================================================================================
