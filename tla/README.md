# A formal model of the migration helper

This directory is a verification development for the code under `helper/helper_app/`: TLA+ modules translated
from the source, TLC configurations that check them on small instances, and proofs that TLAPS checks for every
instance. Paths are relative to the repository; `PROJECT.json` names, for every definition, the lines it models.

    tlc -workers 2 -config MCMigrationJobs_serial.cfg MCMigrationJobs     # one run
    tlapm MigrationJobsProofs.tla                                        # the proofs of one module

## 1. The system

The helper is one Python process (FastAPI on asyncio, and threads) on a VM in OCI. It migrates virtual machines
from vSphere, Azure and GCP to OCI, and installs machines from ISO images.

| component | state it keeps | operations | talks to |
|---|---|---|---|
| job API (`api/routes_jobs.py`, `api/routes_setup.py`) | none; every handler holds a snapshot of a record | create (4 kinds), cancel, finalize again, finish an installation, purge, change the limit | store, runner |
| runner (`jobs/runner.py`) | `_running`, `_cancel_requested`, `_sessions`, `_migrating`, a thread pool and its queue | submit, cleanup, resume_finalize, four task bodies, the slot gate, fail_stale_jobs | store, provisioner, exports, sessions |
| store (`jobs/store.py`) | one SQLite row per job, a whole JSON document | put (replaces), get, delete_finished, active_for_vm | - |
| provisioner (`oci/provision.py`, `oci/clients.py`) | ids in the job record; the resources live in OCI | prepare, finalize, cleanup | OCI |
| devices (`disk/devices.py`) | `_attach_lock` of the provisioner | which disk appeared after an attachment, which path is free | Linux, OCI |
| images (`oci/seed_image.py`, `oci/image_import.py`, `oci/iso_install.py`) | none; images are found by their tags | find, create, import, pin, repair, delete | OCI |
| VMware export (`vsphere/export.py`, `vsphere/power.py`) | an NFC lease, its keepalive thread | shut down, open, match, download, close | vCenter |
| VMDK decode (`disk/vmdk_stream.py`, `disk/pipeline.py`, `disk/writer.py`) | decoder buffer and tables, a bounded queue, a descriptor | feed, finish, abort, write_at, close | block device |
| Azure export (`azure/export.py`, `azure/client.py`) | snapshots and SAS grants, in the job record | open, refresh, release | Azure |
| ranged copies (`disk/vhd_range_copy.py`, `disk/gcs_range_copy.py`) | a chunk queue, a stop event, the first failure | copy_ranges | blob service |
| GCP export (`gcp/export.py`, `gcp/client.py`) | snapshots and bucket objects, in the job record | open, copy, release | GCP |
| sessions (`sessions.py`, `auth.py`) | logins, their idle time, pins of jobs, a dead flag | create, get, logout, sweep, pin, unpin, kill | vCenter, Azure, GCP |
| consoles (`console/*.py`) | sessions by job or instance, viewers, a reaper | open, connect, release, close, reap, close_all | OCI console connections, SSH |
| guest fix-up (`guest/*.py`) | mounts of the copied disk | mount, chroot, repair, unmount | Linux tools |
| updater (`updater.py`) | a unit or a detached process, the checkout, the venv | start, status | git, pip, systemd |
| settings, logging, statistics, inventories, mapping | an override file; otherwise none | load, write, list, translate | - |
| web UI (`ui/`), Terraform (`deploy/`) | presentation; none at run time | | the API |

How they interact: a handler reads a record, asks the runner, writes the record back and submits a task. A pool
thread waits for a slot, lets the provisioner make the target (which finds or imports an image), opens the export
of its source, copies disk by disk, repairs the guest, and lets the provisioner move the disks to the target. It
saves the whole record after every step. A cancel sets a flag that the thread looks at between steps and chunks,
and then tears down; a cancel of a FAILED job submits a teardown.

What is hard here, and therefore what the properties are about:

* **whole-document records**: a handler and a thread each hold a copy of a record and write it back whole;
* **check, then act**: `is_running`, `find`, `get_bucket`, `expires_soon` are answers that age;
* **cancellation** is looked at in some steps and not in others;
* **the slot gate** is separate from the pool: waiting migrations occupy threads, and the limit changes;
* **restarts** lose queue, flags and logins, but neither the records nor what was made in OCI, Azure or vSphere;
* **processes that outlive others**: an update script, an export in GCP, a VM that goes on booting;
* **undoing** a dozen mounts and volume groups after any of them failed;
* **remote calls** that are refused, time out, or take effect although their answer is lost;
* **retries** that go by what was recorded, not by what became of it;
* **threads beside threads**: download workers, the decoder's worker, console creations, keepalives;
* **streams** cut into chunks at any byte, page lists that overlap and are out of order.

What makes each component correct:

* job life cycle: `_running` is the truth, no VM is migrated twice at a time, slots are neither lost nor given
  twice, no record is in flight without a task, a stale copy never wins, every task ends;
* provisioner: the record covers what exists, a teardown leaves nothing, a disk has one writer, a completed job's
  disks are on the target, which runs if it was asked to;
* devices: while it copies, a job writes to its own volumes and to no other job's; nobody waits for ever;
* images: placeholders go, the schema of a reused image fits, jobs do not disturb each other;
* ISO installs: every instance that lives is on a record, and a record says INSTALLING only of one that runs;
* exports and copies: a disk that counts as COPIED is complete and intact, the first failure is the one reported,
  what was snapshotted, granted or leased is released, the export ends;
* logins: a login is not closed under a migration that pinned it, and is closed once nobody needs it;
* guest fix-up: the helper is left as it was, nothing is removed over a mount, every answer is true of the guest;
* service: one update at a time, a restart only into what was fetched and installed, settings outlive the process;
* consoles: an ACTIVE console has its connection, requests are answered, unwatched consoles are reaped.

## 2. Modules

| module | models | uses |
|---|---|---|
| `MigrationJobs` | handlers, pool, slot gate, store, restart | |
| `Provision` | one job's resources in OCI against its record | |
| `Devices` | jobs that attach, copy and detach on one helper: kernel names, consistent paths, the lock | |
| `Images` | seed and ISO images shared by jobs | |
| `IsoInstall` | the instance of an ISO job, from its launch on | EXTENDS `Images` |
| `RangeCopy` | `copy_ranges`: the download threads of one copy | |
| `PageRanges` | `merge_ranges`, `split_chunks` as functions | |
| `AzureExport` | snapshots, SAS grants, disks and attempts, release, login | EXTENDS `RangeCopy`, `PageRanges` |
| `OrderedDecode` | abstract: chunks are decoded in the order of their arrival, until one fails | |
| `DecodePipeline` | the decoder's thread behind its queue | refines `OrderedDecode` |
| `VmdkStream` | the stream-optimized VMDK decoder as functions | |
| `VmwareExport` | power, lease, URLs, downloads, attempts, writer | EXTENDS `DecodePipeline`, `VmdkStream` |
| `Logins` | the session store: login, kill, pin, unpin, `runner._sessions` | |
| `GcsCopy` | the thread pool that copies a GCS object | |
| `GcpExport` | snapshots, exports to objects, disks and attempts, release, later teardown | EXTENDS `Logins`, `GcsCopy` |
| `GuestNetwork` | the network fixer as functions on what it looks at | |
| `GuestCloud` | the Azure and GCP fixers as functions | |
| `GuestFixup` | one fix-up session: activate, probe, mount, rebuild, fix, undo | EXTENDS `GuestNetwork`, INSTANCE `GuestCloud` |
| `Service` | settings file, update script, start and stop | |
| `Console` | consoles of one instance, viewers, reaper, shutdown | |
| `MC...` | constants for TLC | the module of the same name |
| `...Proofs` | theorems | the module of the same name; `HelperProofs`: `Service`, `Console`, `GuestFixup` |

The composed modules take the inner module's variables and actions and supply what it leaves open: `AzureExport` the
answers of the blob service, `VmwareExport` what becomes of a chunk, `IsoInstall` what follows a launch, `GcpExport` who
logs out, how long the object is and whether a range request may bring something else than the range. `UsesRangeCopy`
and `UsesPipeline` say that every step of the composition is a step of the inner module (or leaves it alone), so that
what is proved of the inner one holds in the composition. A definition whose name ends in `_Something`
(`ReadSchema_Trusts`) is a mutant: a plausible bug, never used by a specification; `PROJECT.json` says which property
must catch it.

### MigrationJobs

`store`, `created`: the job table and the ids handed out. `queue`, `pc`, `task`, `mem`: the executor's queue, and for
each of its threads where it is, its task and its copy of the document. `slot`, `migrating`, `limit`: the local
`slot` of `_run_safely`, `_migrating`, `max_concurrent_jobs`. `running`, `cancelRequested`: the runner's sets. `cpc`,
`cjob`, `csnap`: where each handler is, its job and its snapshot.

A document keeps what guards look at: the phase, whether an instance was launched, whether all disks are COPIED. A
thread walks `slot -> provision -> prepare -> attach -> export -> copy -> fixup -> finalizing -> finalize -> complete`,
a prefix of it for an ISO job, `finalizing -> ...` for a resumed one, `teardown` for a cleanup. A step may find the
cancel flag only where the code looks, and fail only where an exception can arise. Handlers are split where another
thread may run: after reading, after `is_running`, after `put`. `create_*` run from `active_for_vm` to `submit`
without an `await`, so two of them never overlap; the synchronous handlers do.

### Provision

`inst`, `vol`, `hAtt`, `tAtt` are OCI's truth, `recInst`, `recVol`, `recH`, `recT` the record. Each remote call, the
save after it and the wait after that are steps of their own (`CreateVolume`, `SaveVolume`, `AttachTarget`,
`SaveTarget`, `TargetAttached`, ...), because a crash, a refusal or a timeout may come between any two. `OciAccepts`
says which calls OCI refuses, `InstanceSettles` and `AttachmentSettles` move what is in transition. `finalize` and
`cleanup` are modelled the same way, with finalize's local `started_for_attach` and cleanup's list of failed actions. A
cancel request that overlaps the thread goes step by step: it reads the record (`CancelReads`, `doc`), finds the job
running and sets the flag (`CancelAsks`), and puts what it read (`CancelPuts`), or finds that the thread has ended, puts
and submits a cleanup (`CancelTeardown`). What it puts stays if the thread has ended; a thread that goes on saves its
own document over it, since it never reads the store again. `putBack` remembers that a put replaced a document with
other resources or of a job that had ended for good. `AzureExport` and `GcpExport` have the same four steps.

### Images

Threads of `get_or_create` (seed) and `get_or_create_image` (ISO) up to the launch. `state`, `schema`, `named` are OCI's
view of each image, `bucket` and `objects` the seed bucket with its placeholders. An identity stands for the tags and
launch mode an image is found by, a class for the data-volume class of its schema. `faults` says what may happen in a
behaviour: cancels, refusals, failing imports, a missing bucket, deletions of all images, a restart.

### IsoInstall

What becomes of the job whose thread `Images` has brought to its launch. `phase` and `known` are the record, `instance`
is OCI's. `LaunchInstance` and `SaveInstance` are two steps, since the helper may stop between them, and an answer may
be lost (`LaunchLost`). `Booted` hands the instance over (INSTALLING), whatever the cancel flag says; `NotBooted` is the
deadline. A finish checks the document it read (`FinishInstallation`) and saves it as COMPLETED later (`Finish`); a
cancel, a teardown or both may come in between. A cancel of a job at rest submits its teardown (`CancelIso`,
`Terminate`, `SaveCancelled`); one of a job with a task reads, asks, and puts or tears down (`CancelReads`,
`CancelAsks`, `CancelPuts`, `CancelTeardown`). `request` is the document such a request holds, `putBack` are the jobs
over whose later document one was put. `RestartJobs` is `fail_stale_jobs`.

### Devices

Two or more jobs run steps 7 and 8 of `prepare` side by side. `att`, `name` and `path` are OCI's and the kernel's view:
a volume is attaching, then visible under a name the kernel picks among the free ones, then attached, or the other way
round. A boot volume has no path: the job takes `_attach_lock`, scans (`before`), attaches, waits, and searches for the
one new disk of its size (`Matching`, `Found`, `NotFound`). A data volume gets the first free path (`PickPath`,
`NoPath`), which another job may take first (`DataRefused`). After the copy, or a failure, a job detaches disk by disk,
which frees names and paths for the others. `setup` fixes the sizes, the paths the helper's own volumes have, and
whether a wait may time out.

### RangeCopy, PageRanges, AzureExport

`RangeCopy` has one label per point of a worker at which another worker may run: take a chunk, ask for a cancel,
fetch, wait for the renewal lock, renew, write, report a failure, set the stop event. `PageRanges` computes with bytes:
`Merge` sorts, clips to the disk and joins ranges, `Split` cuts chunks. `AzureExport` adds the record (`info`), Azure's
snapshots and grants, the long running operation that is posted, accepted, answered or not, the attempts per disk, the
release on exit, in the teardown and after a restart, and the pinned login. A SAS ages by `Tick`. `LateReads`, `LateAsks`,
`LatePuts` and `LateTeardown` are a cancel request that overlaps the task, `CancelRunning` one that is over before the
task's next save.

### DecodePipeline, OrderedDecode, VmdkStream, VmwareExport

`DecodePipeline` has a label for every queue operation and event of both threads, with the timeouts of `put` and
`abort`. `VmdkStream` runs the decoder over units: a stream is a sequence of items (header, preamble, grains, tables,
end marker) of some length, and a chunk ends anywhere in them. `VmwareExport` powers the VM off, opens the lease,
matches URLs to disks as `match_disk_urls` does, and feeds every disk's stream through the decoder, on a thread of its
own or not, into the contents of a device.

### Logins, GcsCopy, GcpExport

`Logins` keeps `listed` (`SessionStore._sessions`), `dead`, `closed`, `pins` and `held` (`runner._sessions`); `leaving`
is the moment between the two halves of `_finish`, which takes the session out under the runner's lock and unpins it
afterwards. `GcsCopy` has a queue of futures, two threads, failed attempts, and the caller that raises the first failure
it meets and leaves the pool only when the threads are through. An answer has the range, or, if it is an odd one, less
of it (206) or the whole object (200): `Answers` says what of the object comes to its place and what is overwritten, and
`spoilt` keeps what an odd answer left out or overwrote. `GcpExport` adds the handler that looks at the VM with the
login (`Inspect`) and submits with it (`Submit`), the record of names saved before each call, operations in GCP that go
on when nobody waits (`ExportEnds`), the attempts per disk, the release on exit and in a later teardown, possibly with
another user's login (`CancelTeardown`), cancel requests in time (`CancelRunning`) and late (`CancelAsks`,
`CancelPuts`), and other jobs that share the logins.

### GuestNetwork, GuestCloud, GuestFixup

A guest is the record of what the code looks at: volume groups and a name clash, the partitions that may be the root,
where `/usr`, `/var`, `/boot` and the kernel modules are, the initramfs of each kernel, the network stacks, what is left
of the old cloud. `GuestFixup` runs one session: scan, activate, probe candidates, mount what fstab splits off, run the
requested steps, sync, undo. `mounts` and `vgs` are the session's lists, `mounted` and `activated` the truth; `stray` is
what a mount mounted that timed out and is on no list, `denied` what `cleanup` could not start to unmount, `rebuilds`
the kernels whose initramfs is to be rebuilt. A rebuild makes an image with the drivers, without or one that cannot be
read, and the look after it decides about the answer. `faults` says what may fail: any command (`command`), a mount that
takes effect and times out (`slow`), an activation halfway (`partial`), a deactivation (`undo`), the start of an unmount
(`start`), an unmount and the lazy one after it (`stuck`). A fixer's stages are functions in `GuestNetwork` and
`GuestCloud`, and one that fails leaves what the stages before it did.

### Service

`value` is what the process works with, `file` the overrides on disk. A save reads, truncates and writes (`ReadFile`,
`OpenFile`, `Fill`), after the change was applied to the process; a read that fails finds nothing (`ReadResults`), at a
save and at a start. `script` holds the update scripts at work, as a unit or detached: fetch, reset, pip, restart, or
without the reset if no branch was found (`Branches`: also when the lookup failed); `head`, `src` and `venv` are the
commits of the branch, the checkout and the installed package. `Stop`, `Die` and `Start` are the process: told to stop
it lets requests end, and it may also die.

### Console

`sessions` maps keys (a job's or the instance's) to sessions; `state`, `known`, `viewers`, `idle` are fields of a session,
`task` and `cancelled` its creation on a thread, `oci` and `foreign` the connections in OCI, of which an instance allows
one. A step is what runs on the event loop between two awaits. `todo` is the snapshot the reaper works through.

## 3. Runs

All runs end by themselves; deadlock is not checked where the system comes to rest when its work is done.

| run | question | instance | distinct states |
|---|---|---|---|
| `serial` | Is `_running` exact, is a VM migrated once, when requests do not overlap? | 2 jobs of one VM, 2 threads, 1 slot, 1 handler at a time (create, cancel, resume, purge), 1 restart | 1,079,534 |
| `gate` | Does no stale document win, is every record in flight owned, while migrations wait for slots? | 2 migrations and an ISO job, 2 threads, limit 0..3 asked for, MAX 2, create, resume, purge, 1 restart; no cancels | 626,480 |
| `live` | Does every task end, and does an early cancel stop its run? | 2 jobs, 2 threads, create and cancel | 436,333 |
| `resources` | Does the record cover OCI, does a teardown leave nothing, where are the disks, does the thread end? | boot and 2 data disks, 4 fault sets: none, timeouts, timeouts with bad attachments and a restart, late cancels with a restart; 2 retries | 1,825,979 |
| `disks` | Does a job write to its own volumes, does nobody wait for ever? | 2 jobs with a boot and a data disk, 3 kernel names, 2 paths, 3 setups of sizes, taken paths and timeouts | 562,705 |
| `images` | Do schemas fit, do jobs leave each other alone, is every instance accounted for? | 2 jobs of one client edition (interchangeable), 1 ISO job with its instance, an old image with any schema or none, 6 fault sets, two of them with late cancels | 4,503,681 |
| `export` | Is a COPIED Azure disk complete, is the root cause reported, is everything released, does the task end? | 2 disks, 2 workers, 2 tries, 2 attempts, 3 page lists of a 6-byte disk, both capture modes, 3 event sets, 1 restart | 656,188 |
| `gcp` | Does the record cover GCP, is a COPIED disk complete, is everything released, are logins closed in time and not before? | 2 disks, 2 workers, 2 tries, 2 attempts, 5 bytes in chunks of 2, 2 logins, another job, 4 event sets, 1 restart | 1,291,326 |
| `vmware` | Is a COPIED VMware disk its own stream, do errors surface, do threads and the export end? | 6 streams, 6 kinds of lease, queue of 2, 2 attempts, with and without the worker, hanging worker, 3 power states | 113,923 |
| `guest` | What stays mounted or active on the helper, are the answers true? | 2 kernels, guests of every layout, network configuration and cloud, 6 fault sets | 1,369,277 |
| `setup` | Is there one update at a time, is a restart safe, do settings survive? | 2 handlers, 2 scripts, 1 job, 2 values, 1 push, 5 setups | 498,010 |
| `sessions` | Is an ACTIVE console served, are requests answered, are idle consoles reaped? | 1 key, 2 requests, 2 viewers, 2 sessions, shutdown, a foreign connection | 18,106 |

### What the properties say

* `RegistryExact`, `VmExclusive`, `NoLostUpdate`, `ActiveIsOwned`, `TasksFinish`, `EarlyCancelStopsRun` (job life cycle).
  `RegistryExact` and `VmExclusive` are claimed for requests that do not overlap, `NoLostUpdate` and `ActiveIsOwned`
  without cancels: with them they are false (section 6). `SlotsExact` and `SlotGrowth` are proved and need no run.
* `RecordCovers`: what exists in OCI is in the record, but for the result of the one call under way.
  `CleanupLeavesNothing`: a teardown none of whose steps failed leaves no resource. Both, and the disks of a completed
  job in `CompletedMoved`, hold until a restart or a late cancel's put takes something off the record (`RecordKept`):
  from then on they are false, which is what section 6 says, so that they show that nothing else takes anything off.
  `OneWriter`: the target is stopped while the helper copies, runs on copied disks only after the helper gave them all
  up, and OCI has no reason to refuse a call unless a wait timed out. `CompletedMoved`: a completed job's disks are on
  the target, which runs if that was asked. `Ends`: the thread comes to an end.
* `OwnDiskIfDistinct`: as long as sizes tell the volumes of other jobs apart, a device on record is the job's own disk,
  in whatever order disks appear, go and leave their names to others. `JobsSettle`: no order of events leaves a job
  waiting for the lock or for a disk.
* `SchemaFits`, `Undisturbed` (images). `InstancesAccounted`: an instance that lives is on a record or about to be, or
  its launch was lost; a cancelled job has none that could be terminated; INSTALLING and COMPLETED mean a running
  instance. A job over whose document a finish or a cancel put an older one is left out (`putBack`): it may be COMPLETED
  with a terminated instance.
* `RecordCovers`, `RootCause`, `ExitReleases`, `CopiedIsComplete` (bytes of the disk), `RenewedOnce`, `TaskEnds` (Azure).
* `RecordCovers`, `ExitReleases`, `CopiedIsComplete` (GCP). `CopiedIsComplete` is about every byte but those that a
  range answer of another length left out or overwrote: for them it is false, since the code does not compare lengths.
  `RecordCovers` and `ExitReleases`, here and for Azure, hold until a late cancel puts back a document with other names.
  `ExportKeepsLogin`: a login is not closed under a migration that has pinned it. `DeadLoginsClose`: a login that was
  killed is closed in the end.
* `CopiedIsComplete`, `WriterOutlivesWorker`, `LeaseMatchesResult`, `TaskEnds`, `IsOrderedDecode` (VMware).
  `LeaseMatchesResult` says of a block that was entered that its lease is closed as the block ended, or, if the closing
  call failed, ready with its keepalive stopped; and of any job that no keepalive outlives it.
* `NothingLeft`: no directory is removed over a mount unless an unmount failed for good or could not be started, or a
  mount timed out after it took effect. If the root's unmount could be started and works, it takes along what other
  unmounts left, and all that may stay mounted is a candidate whose mount timed out. A volume group of which nothing is
  mounted stays active only if its own (de)activation failed. `AnswersAreTrue`: every requested step has an answer, and
  "done" or "not needed" is true of the guest: virtio in all installed kernels, an address on the network, nothing left
  of the old cloud.
* `OneUpdate`: with systemd, two scripts never work on the checkout at once. `RestartIsSafe`: a restart comes only into
  the complete package of the checkout, which is the fetched commit if the script follows a branch; and an update that
  was not forced was asked for when no job was active. It says nothing of jobs that begin later, which are restarted
  under. `SettingsSurvive`: a process starts with what was last saved without a warning, if saves neither overlap nor
  are cut short and the file can be read.
* `ActiveIsServed`, `RequestsEnd`, `IdleIsReaped` (consoles).

### Bounds, and why they are enough

* Two jobs, threads or workers: every guard of the code compares one actor with the others (a lock, a set, a queue, a
  count), and two of a kind are enough to meet; three jobs are used where a third party matters (`gate`, `images`).
* One slot makes two migrations contend (`serial`, where a job that failed still holds its slot while the next starts);
  two slots and a limit that falls and rises test the count above the limit (`gate`).
* One handler at a time in `serial`, `gate` and `live` is part of the claim, not a bound: with two, the properties fail.
  The handler still interleaves with both pool threads at every step.
* One restart: nothing survives it but the record, and every state a restart can leave is a state of the run.
* Two retries of a provisioning, late cancels among them: the second starts from what a failed retry, or what a put left.
* One late request at a time: it overlaps every step of the thread. Two that overlap each other are in `MigrationJobs`.
* Disks: the boot disk differs from data disks, and two data disks are the least that can be out of order.
* Six bytes, chunks of three: ranges that overlap, touch, reach into the footer, cross a chunk; an empty list.
* A queue of 2 is full, half full and empty; streams of at most 6 items in chunks of 3 units cut every item.
* `MaxSessions` 2: a console and the one that replaces it under its key.
* `images`: a seed image that was there before is there or not, and its schema is missing, right or wrong. The two jobs
  of one edition want the same and are symmetric; the run checks invariants only.
* `disks`: three names for four disks, so that a name that is given up is taken again by another job; boot volumes of one
  size that come in time, all sizes different with late disks, sizes equal within a job on a helper with one path left.
* `guest`: one session at a time (`_LOCK`), so one guest per behaviour. Families of guests vary one concern each
  (layouts, kernels, networks, clouds) around a plain guest; each kind of fault comes alone or beside those it meets: a
  mount that times out beside commands that fail and beside unmounts that cannot be started, these beside unmounts that
  fail for good.
* `gcp`: five bytes in chunks of two make two full ranges and a short one; events are taken in four sets (late cancel and
  restart, cancel and logout, logout and other jobs, odd answers), since a restart ends every login and answers touch only
  the copy. `export`: an ageing SAS with cancels, cancels with a logout and a restart, late cancels with a restart.
* `images`: late cancels with early ones and with a restart; refusals, deletions and failing imports have sets of their
  own.
* `setup`: two requests can meet, and a third adds nothing that a second cannot do; one push moves the branch between an
  update's fetch and the next. The five setups take saves beside updates, saves with all that goes wrong (an unreadable
  file too), and updates beside jobs on a branch with lookups that fail, at a fixed commit and without systemd.

### Fairness

`MigrationJobs`: weak fairness of every pool thread and of a handler that began, since every remote wait has a timeout
and the executor's threads are scheduled by the OS; no fairness for requests, purges, limits or restarts. `Provision`:
weak fairness of the thread and of OCI, which finishes what it accepted; so `Ends` does not rest on timeouts, and would
be violated by a wait for something that nobody asked for. `AzureExport`: weak fairness of the task and the workers;
nothing of Azure, users or time is assumed. `VmwareExport`: of the job's thread and of the worker; a worker that hangs
is excluded by its own setup, not by fairness. `Console`: of the event loop and the creation threads (every OCI call has
a timeout) and of the reaper; none for users and viewers. `Devices`: of OCI and the kernel, each volume for itself, and
of every job's next step; none for a copy to end or a failed job to be cancelled. `GuestFixup`: of its one thread, whose
commands have timeouts. `GcpExport`: of the task, its handler and its download threads, and of other jobs, which end;
nothing of GCP, users or logouts. `RangeCopy`, `DecodePipeline`, `Images`, `IsoInstall` and `Service` make no liveness
claim of their own.

## 4. Proofs

TLAPS checks every leaf of the proofs in the eight proof modules. Every theorem holds for all values of the constants
that satisfy the assumptions of the module (`JobsAssumption`, `RetriesAssumption`, `DepthAssumption`,
`ImagesAssumption`, ...), which the runs evaluate. A further hypothesis, where a theorem needs one, stands in its
statement.

**MigrationJobsProofs.** `TypeCorrect` (`TypeOK`) is proved from its parts, one lemma per variable group.
`SlotsAccounted` (`SlotsExact`) needs to know which threads hold a slot: `SlotAtLabel` ties `slot[t]` to the label and
the task of the thread, and the counter is then the cardinality of a set from which one step takes at most one thread.
`SlotsNeverExceedMax` and `GateRespectsLimit` (`SlotGrowth`) follow. `RegistryIsExact` assumes `Serial` (one handler at
a time) and proves `RegInv`, that is `RegistryExact` with `SubmitsIdleJob` (a handler about to submit has a job with no
task: true because nobody else submits meanwhile) and `IdsCreated` (a new id has no task). `VmIsExclusive`
(`VmExclusive`, `Serial`) looks at the jobs with a migration in the pool: by `VmInv` each of them is active in the
store, so that `active_for_vm` sees it, until its last save. `NoUpdateIsLost` and `ActiveHasOwner` (`Serial`, no cancel
requests, as in run `gate`) share `OwnInv`: a thread that is leaving holds a document that is at rest (`LeftAtRest`,
`InstallingIsOver`), and a handler's snapshot of a job with a task is not written back (`Snapshots`). With cancels both
are false, see section 6.

**ProvisionProofs.** One inductive invariant, `ProvisionInv`, of eighteen parts: at which label the target has which
power state (`Power`), what the record says of the instance and the volumes (`Recorded`, `Undeleted`), what the helper
has and has given up (`Helped`, `GivenUp`, `NotYetHelped`), the target's attachments (`Shared`, `Lasting`, `BootMoves`),
what a cleanup has done so far (`Released`, `Deleted`), and that without faults OCI has no reason to refuse (`Settling`,
`Welcome`). The parts that rest on the record hold under `RecordKept`; the others hold after a put-back too. The four
properties follow: `ResourcesRecorded`, `CancelledLeavesNothing`, `CompletedHasMoved`, `DiskHasOneWriter`. They cannot
be proved one by one: that a delete succeeds depends on the order of detaching, that on the power state, and that on
what the record says after a retry.

**AzureExportProofs.** First `copy_ranges` alone: `CopyInv` holds in every environment (the actions' parameters are
arbitrary): every chunk of the call is still queued, in one thread's hands, or written, or a failure is on its way
(`Taken`, `Accounted`, `ChunkOwned`); the stop event has a reason (`StopHasReason`), a thread that is done has one
(`DoneForAReason`), and an "aborted" is never the first exception (`RootCause`). Hence `CopyReturnsComplete`,
`CopyReportsRootCause`, `CopyNeverSharesChunk`. `ExportRefinesRangeCopy`: each action of the export is a `RangeCopy`
step or a stutter; the one fact it needs is that the lock's holder is where it renews (`RenewalOwned`). The theorems
carry over. `AzureResourcesRecorded` and `AzureResourcesReleased` rest on `RecordInv`: the release works by the thread's
own document and saves that, so the document must cover what exists in Azure and name no more than the saved record
(`DocumentCovers`, unless `putBack`), and what a release leaves on it was a failure (`LeftIsFailed`). `SasIsRenewedOnce`
is about the double check under the lock. `ChunksAreExact`: for any page list, limit and chunk size, the chunks carry
every allocated byte and no other. Sorting is shown to be possible (`Inserted`), and is what the merge needs: the last
range on the list starts no later than the next one (`MergedSoFar`); the pieces of a range have its bytes (`PiecesAre`,
by the bounds of integer division). `CopiedDiskIsWhole` puts it together with `CopyReturnsComplete`: for any listing,
threads, tries, renewals and cancels.

**GcpExportProofs.** `ResourcesAreRecorded` and `ReleasedAtTheEnd` rest on a `RecordInv` of the same shape (`Covered`,
`Accounted`), with the objects whose export is still on its way. `LoginIsKept`: a migrating job that holds a login has
pinned it, and no unpin of that job is pending (`Pinned`); the new job's entry is free before it starts (`NewJobIsFree`).
`WholeDiskIsCopied`: as long as no future failed, every byte of the object is written or spoilt, in a thread's
hands or queued (`Accounts`); that the ranges cover the object (`RangesTile`) is proved by arithmetic, for any size.

**VmwareExportProofs.** First the pipeline alone, `PipeInv`: chunks on the queue, in hand and decoded are consecutive
(`InOrder`, `Counted`), the worker ended for a reason, the calls' labels agree with the events (`HandOK`,
`EndedForAReason`, `CallOK`). Hence `FinishIsComplete`, `ErrorsKeepTheirType`, and the refinement
`PipelineIsOrderedDecode` with the mapping in the module. Every step of an export is a pipeline step
(`ExportUsesPipeline`), so that `ExportDecodesInOrder`, `ExportFinishIsComplete` and `ExportErrorsKeepTheirType` follow
for every VM, stream, lease and failure. `DescriptorOutlivesWorker`: outside of an attempt the pipeline is done, and
done means that the worker ended, unless it hangs (`WriterInv`). `LeaseAndResultAgree`: where the thread is says which
state the lease has (`LeaseInv`) and which disks are copied and flushed (`Progress`); so result and lease agree
(`Agreement`), and what the block leaves behind is closed or no longer kept alive (`LeftBehind`). Then the data. *The
decoder*: whatever it has taken so far was accepted (`DecOK`), and its buffer and the items it has taken add up to the
units it was given (`Took`, with `Offsets`, the sums of the items' lengths); therefore `FinishMeansIntact`. *The
volume*: every sector is blank or as the stream has it (`Sound`), and the grains that were taken are on it (`Written`);
`_emit_grain` keeps both, since no sector comes twice. *The URLs*: `UrlsFindTheirDisks` counts (the URLs without a key
and the disks without a URL are equally many, hence a disk and its URL have the same rank). *The export*: `ExportInv`
adds to the pipeline's, the writer's and the lease's invariant that all volumes are sound (`DevInv`), whose decoder is
at work (`DecInv`), who is in which call (`UseInv`), and that the decoder has been given exactly the chunks that were
downloaded, on the job's thread, or that left the queue, on the worker's (`CountInv`). Neither half is enough: that a
stream was decoded to its end needs the pipeline's count at `finish`, and that the pipeline's count means the stream
needs the decoder's. Hence `CopiedDisksAreWhole`, for any streams, leases, chunks, depth, attempts, errors and cancels.
It stands on three assumptions. `StreamsAssumption`: only a preamble is empty, the header comes first, and no sector
comes twice in a stream; streams may still be cut off, corrupt, without an end marker, or no VMDK at all.
`LeasesAssumption`: a URL's key or target says the truth about the disk it delivers. `HangsAlone`, in the theorem's
statement: a worker that hangs for more than 30 s may only be one of an export of a single disk; without it the theorem
is false (section 6). `DescriptorOutlivesWorker` and `LeaseAndResultAgree` do not need it.

**IsoInstallProofs.** First the shared images: `ImagesInv` adds to `PlaceholderReleased` that only seeds have
placeholders, that a job that imports goes on with its own image, that any other image it goes on with has the identity
it wants (`RightImage`), and that the schema fits from the moment it was looked at (`EnsuredFits`): another job may
rewrite it only if it wants the same identity, hence the same class. `JobsUndisturbed` needs more (`Steady`): the
placeholder is there as long as the import may need it, and what was AVAILABLE stays so. `IsoRefinesImages`: every step
of an ISO job with its instance is an `Images` step or a stutter, so that `SchemaFits` and `Undisturbed` hold beside
instances (`IsoSchemasFit`, `IsoUndisturbed`). `InstancesAreAccounted` is proved from `IsoInv`, which adds to
`ImagesInv` the types, that a job before its launch has no instance (`Fresh`), what the steps of a teardown have done
already (`TornDown`), and what the document of a request under way still says truly of its job (`Snapshot`).

**DevicesProofs.** `Structure` is the bookkeeping: no two disks share a name or a path, a boot volume is handled under
the lock and before any data volume (`InOrder`), what is to come is not attached (`ToCome`), what is done is attached
under its path (`DataDone`). `JobsWriteOwnDisks` needs three facts more, under the assumption on sizes: a boot disk that
was found has its name (`BootDone`), and, where disks come in time, a boot volume is visible before the lock is free
(`BootsSeen`) and so in the scan of the next job (`Noted`). The lemma `OnlyOwn` turns them into what matters: the search
can find nothing but the job's own volume.

**HelperProofs** is about three parts of the helper that share no variable.

*Service.* `UpdateIsAlone` is inductive once the shapes of requests and scripts are known. `UpdateRestartsSafely`
needs two facts about a script at work: it was asked for when no job was active, or forced (`Asked`), and once it is past
its steps, the package is the checkout's, and the checkout that of the commit it fetched if it follows a branch
(`InstalledRight`). `SavedSettingsSurvive` (`SettingsInv`): as long as saves do not overlap, none is cut short and the
file can be read, the file has what was answered, or a save is on its way that read it.

*Console.* `ActiveConsoleHasConnection` (`ActiveIsServed`) assumes one key: with two, a job's console evicts the page's
(section 6). `ConsoleInv` says that who is inside `open_target` holds the lock and meets no session that serves
(`OneOpens`); that the session under the key is not cancelled, is CREATING as long as its task runs, and has its
connection once the task has a result (`ItsSession`); that what a close or the reaper is about to delete was popped
before (`OnlyPopped`). `RoomLeft` is about the model's bound: who is inside may make a session.

*Guest fix-up.* `GuestIsLeftAlone` (`NothingLeft`): every step adds to, takes from or leaves alone the session's two
lists and what they stand for (`FixIsListStep`). Whatever is mounted below the root goes when the root is unmounted
lazily, on a list or not. So only the root matters: it is on the list, or `cleanup` could not start to unmount it, or
nothing is mounted but a candidate whose mount timed out; a group is on its list unless an excepted fault happened
(`Listed`), and the lists are empty at the end. `FixupTellsTheTruth` (`AnswersAreTrue`): a step has its answer once it
is passed and not before (`Answered`), until then its part of the guest is as it was found (`AsFound`), and after it
nothing touches that part (`TrueAnswers`). What the fixers do is proved by stages: whatever files there were, a
mechanism that is in use has its file and a file without a label is on the list of files to label (`StagesHaveFiles`,
`NetworkIsTrue`); nothing of the old cloud survives the five and three stages of the cloud fixers (`AzureIsTrue`,
`GcpIsTrue`). The hypotheses about guests are in `GuestsAssumption`: at most one of the clouds is asked for, a guest's
own files are labelled, a cloud-init drop-in lies in `cloud.cfg.d`.

*Recursion.* The sums of `VmdkStream`, the merge and the chunks of `PageRanges` are recursive functions. What they
compute for every input is an induction, and the library's induction theorems cannot be instantiated by the provers used
here; instead each proof looks at the smallest number for which the statement would fail (`LeastNat`, from the
well-foundedness of <). That a recursive function exists at all, a CHOOSE to the provers, is shown in the same way, for
ever longer prefixes.

Only model-checked: all liveness (fairness and ENABLED are out of the provers' reach), with `EarlyCancelStopsRun`,
`TasksFinish` and `DeadLoginsClose`. Every invariant and every other action property of the runs is a theorem.

## 5. Plan

Done: `MigrationJobs`, `Provision`, `Devices`, `Console`, the three exports with their copies, `Logins`, `Images` with
`IsoInstall`, `GuestFixup`, `Service`, and the proofs of section 4. Next, in this order:

1. `VmdkStream`: the encoder, and that decoding what it wrote gives the disk back.
2. An abstract job (QUEUED to COMPLETED, FAILED or CANCELLED) that `MigrationJobs` without cancel requests refines.
3. The retries of throttled requests and the renewal of tokens in the Azure and GCP clients.

The number of runs is kept small; a new module may take the place of a run whose question a proof has settled.

## 6. Known divergences

Found while modelling. The models contain these behaviours, and the properties are stated around them.

Jobs and OCI:

* `cancel_job` writes back the record it read first: COMPLETED or CANCELLED becomes an earlier phase
  (`api/routes_jobs.py:343`, against `docs/architecture.md:52`). It also writes back the ids and names that the record
  had then: if the thread saves one more and fails in between, that resource is on no record, in OCI, Azure or GCP. A
  later teardown reads this record, meets no failure, and the job ends CANCELLED with the resource left, against
  `oci/provision.py:444` and `docs/architecture.md:47`. A FAILED, PROVISIONING, EXPORTING or INSTALLING document that
  comes back after a teardown ended CANCELLED makes a job that may be retried or finished although its resources are
  gone. While the thread goes on it saves over the put; only its last save, or a restart, lets the put stay. `putBack`
  marks these behaviours.
* Two cancels, or a cancel and a resume, may both pass `is_running` and submit two tasks for one job: a teardown runs
  beside another task (`api/routes_jobs.py:340`). This is why `RegistryExact` is about requests one at a time.
* A cancel accepted while the job finalizes meets no further look at the flag; the job completes and the flag is dropped
  (`jobs/runner.py:413`).
* `resume_finalize` judges a snapshot that may be older than another resume's end (`api/routes_jobs.py:372`).
* `delete_finished` goes by the stored phase: a FAILED job whose teardown is queued is purged, against the docstring
  (`jobs/store.py:55`, `docs/install-helper.md:152`).
* A restart between `launch_instance` (or any create) and the save leaves a resource nobody knows of
  (`oci/provision.py:193`).
* A retried finalize takes a recorded attachment that timed out for done, and leaves running a target that was to be
  stopped, since `started_for_attach` is lost (`oci/provision.py:373`, `:387`).
* `cleanup` ends CANCELLED also when steps failed; an Azure job in that state cannot be cancelled again to release its
  snapshots, against `jobs/runner.py:260` and `docs/limitations.md:44`.
* Of two cancels with different logins that both pass, the second overwrites `_sessions`, and the first login stays pinned
  (`jobs/runner.py:119`).
* A boot volume's disk may be another job's data volume of the same size, attached in the same moment
  (`disk/devices.py:61`, against the comment at `:53`, `oci/provision.py:66` and `docs/architecture.md:97`). A name that
  was in the scan and is given up and taken again hides the own disk: the job fails. Two jobs may pick one free path,
  and OCI refuses the second (`oci/provision.py:350`).

Exports and logins:

* One `sas_expires_at` for all disks: after one disk's renewal another disk's copy starts, at every attempt, on an expired
  SAS (`azure/export.py:97`, against `config.py:51` and `docs/how-it-works.md:79`).
* `writer.close()` fails after the disk was saved COPIED: it is not copied again, and finalize is offered
  (`jobs/runner.py:858`, against `docs/architecture.md:121`).
* `begin_get_access` takes effect although its answer is lost: the SAS is neither recorded nor revoked
  (`azure/export.py:92`).
* `NfcExport.__enter__` raises after `ExportVm`: the lease stays open, since `__exit__` is not called
  (`vsphere/export.py:122`, `docs/architecture.md:46`).
* A decoder worker that hangs for more than 30 s outlives its writer (`disk/pipeline.py:93`). The writer is closed, but
  its descriptor's number is kept (`disk/writer.py:61`), and the next disk's writer is given the same number: what the
  worker still writes lands on another disk. `CopiedIsComplete` fails with two disks and a hang, the instance of
  `vmware` has one.
* A GCS range request that is answered with less than the range (206) leaves a hole, and one that is answered with the
  whole object (200) is written from the range's offset on, over what other threads wrote; neither is noticed, and the
  disk is COPIED (`disk/gcs_range_copy.py:73`, `gcp/client.py:396`). `CopiedIsComplete` leaves out the bytes concerned
  (`spoilt`).
* `PowerOffVM` that loses the race against the guest's own shutdown fails the job (`vsphere/power.py:86`).
* A session may be killed between `get` and `pin`: the job starts with a closed login (`sessions.py:168`). `_finish`
  takes the session out under the lock and unpins it later; a teardown that pins the same login in between loses its
  pin.
* An object that is still on its way when it is deleted counts as gone, and appears later (`gcp/export.py:29`). A release
  with a closed login ends at its first call, and what was to follow is kept for a later teardown.

Consoles, images, ISO installs:

* `release(key)` counts a viewer out of the session the key has now: a console reopened under its key may be reaped under
  its viewer (`console/manager.py:204`, against line 93). The reaper closes by key what it judged in an older snapshot.
* A console that is closed while CREATING goes on being created, and its connection stays
  (`console/manager.py:176`). A job's console evicts the Remote Console page's and the other way round.
* Two jobs that want one EMULATED image with different data-volume classes (SCSI, iSCSI) rewrite its schema under each
  other; the launch of one may be refused (`oci/image_import.py:185`).
* Two jobs that both find no bucket: the second `create_bucket` is answered 409 and its job fails
  (`oci/seed_image.py:182`).
* An import whose schema could not be created leaves an AVAILABLE image that later jobs reuse without one
  (`oci/image_import.py:171`).
* A job launches from an image that is AVAILABLE but whose importer has not applied the schema nor registered the OS
  (`oci/seed_image.py:60`, against `docs/architecture.md:77`).
* The wait for a launched ISO instance does not look at the cancel flag: the job ends INSTALLING
  (`oci/iso_install.py:234`). A `finish_installation` beside a teardown makes the job COMPLETED and then CANCELLED, or,
  if it checks before the teardown ends and saves after it, COMPLETED with a terminated instance
  (`api/routes_jobs.py:362`, `oci/iso_install.py:347`). A cancel that reads before the instance is recorded and puts
  after the job failed leaves a record without it. `InstancesAccounted` leaves out both (`putBack`). A restart in a
  teardown leaves INSTALLING with a terminated instance.

Guest fix-up and service:

* If `umount` and `umount -l` both fail, the tree below is removed while the guest is mounted in it
  (`guest/initramfs.py:495`, `:119`). So it is if an `umount` cannot be started, since the lazy one is then not tried
  (`:488`), and if a mount timed out after it took effect: it is not on `self.mounts`, and nobody unmounts it unless the
  root's lazy unmount takes it along (`:63`, `:148`).
* A `/boot` that cannot be mounted fails every step, the network's, too (`guest/initramfs.py:261`). A `vgchange` that
  fails after it activated something leaves it active.
* Legacy network scripts without systemd (RHEL 6) count as handled and are left alone (`guest/network.py:216`, against
  `docs/limitations.md:14`); a NetworkManager that is installed and not enabled counts as in use where nothing else is.
* The GCP fixer writes `cloud.cfg.d` also where there is no cloud-init, and answers "skipped" where Azure's says
  "not needed".
* Two saves that overlap lose the keys of one (`runtime_settings.py:58`, against its lines 4-5); a crash or a full disk
  after the truncation loses all overrides, though the warning speaks of the change only. A file that cannot be read for
  the moment counts as empty: the next save drops the other group's keys, and a start ignores all of them
  (`runtime_settings.py:48`).
* A branch that cannot be looked up (`updater.py:91`, `:96`) counts as a fixed commit: the update installs the old
  checkout again and restarts into it.
* A job that is created after the update looked is aborted by the restart (`updater.py:206`, against
  `docs/install-helper.md:139`). After a failed pip the checkout is at the new commit, and the page says up to date.
  Without systemd two starts may race, and the second hides the first.

## 7. Not modelled

The inventories of Azure, GCP and vSphere, the OS and shape mapping, view models and the web UI translate data and keep
no state. Statistics and diagnostics only read. Terraform and cloud-init have no run-time behaviour. vCenter's own
sessions with their keepalive are taken as given. Of the modelled parts the following are left out: wording and progress
numbers, throttling of plain requests and token renewal of the Azure and GCP clients, preflight checks, the SSH tunnel
of a console, the descriptor and the compression inside a VMDK (a grain is its contents) and the encoder, hostnames and
shapes of a launch, the text of import failures and of the files a fix-up writes, tokens and cookies of a login,
loggers, and what the Setup page shows of the remote. Of failures: an fsync in `writer.close` that fails at the end of
an Azure or a GCS copy (it is modelled for VMware), and an import that fails at `console/manager.py:153`, outside the
`try`. A put over the record of a thread that goes on is not a step of its own, since the thread's next save replaces
it; a restart that comes before that save is in the restart actions. What other handlers would read in between is in
`MigrationJobs`.
