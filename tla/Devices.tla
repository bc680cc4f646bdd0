--------------------------------- MODULE Devices ---------------------------------
(***************************************************************************)
(* Which disk of the helper is whose: jobs attach their volumes to the     *)
(* helper side by side (oci/provision.py, step 7 of prepare;               *)
(* disk/devices.py).  A data volume is attached under a consistent path.   *)
(* A boot volume gets none, and is found by comparing the disks before and *)
(* after, under a lock that keeps other boot volumes out, not data volumes. *)
(*                                                                         *)
(* A call and the save of its result are one step here; what a restart     *)
(* between them leaves is the subject of Provision.                        *)
(***************************************************************************)
EXTENDS Naturals, Sequences, FiniteSets, Functions

CONSTANTS
  Jobs,
  N,         \* data disks of a job; disk 0 is the boot disk
  Names,     \* kernel names of disks: sdb, sdc, ...
  Paths,     \* the consistent paths in the order they are tried: oraclevdb, oraclevdc, ...
  Setups,    \* sizes, paths the helper's other volumes have taken, and whether waits may time out
  None       \* no job, no name, no path

Disks   == 0..N
Boot    == 0
Volumes == Jobs \X Disks

ASSUME DevicesAssumption ==
  /\ N \in Nat /\ IsFiniteSet(Names) /\ None \notin Jobs \cup Names \cup Range(Paths)
  /\ Names \cap Range(Paths) = {}
ASSUME SetupsAssumption ==
  Setups \subseteq [size : [Volumes -> Nat], taken : SUBSET Range(Paths), slow : BOOLEAN]

VARIABLES
  setup,     \* the behaviour's setup
  att,       \* the helper attachment of a volume in OCI
  name,      \* the kernel name of a volume's disk, once the helper's kernel reports its size
  path,      \* the consistent path of a volume's attachment
  rec,       \* disk.helper_attachment_id is set
  device,    \* disk.device
  lock,      \* the holder of _attach_lock
  before,    \* the disks a job saw before it attached its boot volume
  picked,    \* the path a job picked for its next data volume
  pc, cur    \* where a job's thread is, and at which disk

cloud == <<att, name, path>>
vars  == <<setup, att, name, path, rec, device, lock, before, picked, pc, cur>>

Vol(j)     == <<j, cur[j]>>
Live(v)    == att[v] # "none"
Visible    == {v \in Volumes : name[v] # None}
\* The volumes that a write to d would reach.
DisksAt(d) == {v \in Visible : d \in {name[v], path[v]}}
-----------------------------------------------------------------------------
(* OCI and the helper's kernel (external).  That an attachment is ATTACHED   *)
(* and that the kernel reports the disk with its size are two events.        *)

Appear(v) ==
  /\ att[v] \in {"attaching", "attached"} /\ name[v] = None
  /\ \E n \in Names \ {name[w] : w \in Volumes} : name' = [name EXCEPT ![v] = n]
  /\ UNCHANGED <<setup, att, path, rec, device, lock, before, picked, pc, cur>>

Attached(v) ==
  /\ att[v] = "attaching" /\ att' = [att EXCEPT ![v] = "attached"]
  /\ UNCHANGED <<setup, name, path, rec, device, lock, before, picked, pc, cur>>

Detached(v) ==
  /\ att[v] = "detaching"
  /\ att' = [att EXCEPT ![v] = "none"]
  /\ name' = [name EXCEPT ![v] = None] /\ path' = [path EXCEPT ![v] = None]
  /\ UNCHANGED <<setup, rec, device, lock, before, picked, pc, cur>>

Oci == \E v \in Volumes : Appear(v) \/ Attached(v) \/ Detached(v)
-----------------------------------------------------------------------------
(* Attaching                                                                *)

At(j, l)   == pc' = [pc EXCEPT ![j] = l]
Go(j, l)   == At(j, l) /\ UNCHANGED cur
NextDisk(j) == At(j, "next") /\ cur' = [cur EXCEPT ![j] = @ + 1]
Fail(j)    == Go(j, "failed") /\ UNCHANGED <<rec, device>>

\* The next disk, once all are attached the copy.  _step looks for a cancel.
NextToAttach(j) ==
  /\ pc[j] = "next"
  /\ Go(j, CASE cur[j] > N     -> "copy"
             [] cur[j] = Boot  -> "lock"
             [] OTHER          -> "pick")
  /\ UNCHANGED <<setup, cloud, rec, device, lock, before, picked>>

Cancelled(j) ==
  /\ pc[j] = "next" /\ cur[j] \in Disks /\ Fail(j)
  /\ UNCHANGED <<setup, cloud, lock, before, picked>>

\* Mutant of TakeLock: boot volumes are attached without the lock.
TakeLock_Free(j) ==
  /\ pc[j] = "lock" /\ lock' = j /\ Go(j, "scan")
  /\ UNCHANGED <<setup, cloud, rec, device, before, picked>>
TakeLock(j) ==
  /\ pc[j] = "lock" /\ lock = None /\ lock' = j /\ Go(j, "scan")
  /\ UNCHANGED <<setup, cloud, rec, device, before, picked>>

\* scan_block_devices: disks whose size the kernel does not report yet are not among them.
Scan(j) ==
  /\ pc[j] = "scan" /\ before' = [before EXCEPT ![j] = {name[v] : v \in Visible}] /\ Go(j, "attach")
  /\ UNCHANGED <<setup, cloud, rec, device, lock, picked>>

AttachBoot(j) ==
  /\ pc[j] = "attach" /\ att' = [att EXCEPT ![Vol(j)] = "attaching"]
  /\ rec' = [rec EXCEPT ![Vol(j)] = TRUE] /\ Go(j, "waitBoot")
  /\ UNCHANGED <<setup, name, path, device, lock, before, picked>>

BootRefused(j) ==
  /\ pc[j] = "attach" /\ Fail(j) /\ lock' = None
  /\ UNCHANGED <<setup, cloud, before, picked>>

BootAttached(j) ==
  /\ pc[j] = "waitBoot" /\ att[Vol(j)] = "attached" /\ Go(j, "search")
  /\ UNCHANGED <<setup, cloud, rec, device, lock, before, picked>>

\* The new disks of the expected size.
Matching(j) == {v \in Visible : name[v] \notin before[j] /\ setup.size[v] = setup.size[Vol(j)]}

\* wait_for_new_device returns at the first sighting of exactly one.
Found(j) ==
  /\ pc[j] = "search"
  /\ \E v \in Volumes : Matching(j) = {v} /\ device' = [device EXCEPT ![Vol(j)] = name[v]]
  /\ lock' = None /\ NextDisk(j)
  /\ UNCHANGED <<setup, cloud, rec, before, picked>>

\* Mutant of NotFound: an exception leaves the lock taken.
NotFound_KeepsLock(j) ==
  /\ pc[j] = "search" /\ Cardinality(Matching(j)) # 1
  /\ Matching(j) = {} => Vol(j) \in Visible \/ setup.slow
  /\ Fail(j)
  /\ UNCHANGED <<setup, cloud, lock, before, picked>>
\* Several disks, or none until the deadline: the disk is slow, or came under a name that was taken before
\* and given up meanwhile.
NotFound(j) ==
  /\ pc[j] = "search" /\ Cardinality(Matching(j)) # 1
  /\ Matching(j) = {} => Vol(j) \in Visible \/ setup.slow
  /\ Fail(j) /\ lock' = None
  /\ UNCHANGED <<setup, cloud, before, picked>>

\* _pick_free_device: the first path that OCI lists as available and that no disk of the job has.
FreePaths(j) == {k \in DOMAIN Paths : /\ Paths[k] \notin setup.taken
                                      /\ \A v \in Volumes : Live(v) => path[v] # Paths[k]
                                      /\ \A d \in Disks : device[<<j, d>>] # Paths[k]}
PickPath(j) ==
  /\ pc[j] = "pick"
  /\ \E k \in FreePaths(j) :
       /\ \A l \in FreePaths(j) : k <= l
       /\ picked' = [picked EXCEPT ![j] = Paths[k]]
  /\ Go(j, "attachData")
  /\ UNCHANGED <<setup, cloud, rec, device, lock, before>>

NoPath(j) ==
  /\ pc[j] = "pick" /\ FreePaths(j) = {} /\ Fail(j)
  /\ UNCHANGED <<setup, cloud, lock, before, picked>>

\* OCI refuses a path that another job has taken since it was picked.
PathTaken(j) == \E v \in Volumes : Live(v) /\ path[v] = picked[j]

AttachData(j) ==
  /\ pc[j] = "attachData" /\ ~PathTaken(j)
  /\ att' = [att EXCEPT ![Vol(j)] = "attaching"] /\ path' = [path EXCEPT ![Vol(j)] = picked[j]]
  /\ rec' = [rec EXCEPT ![Vol(j)] = TRUE] /\ Go(j, "waitData")
  /\ UNCHANGED <<setup, name, device, lock, before, picked>>

DataRefused(j) ==
  /\ pc[j] = "attachData" /\ PathTaken(j) /\ Fail(j)
  /\ UNCHANGED <<setup, cloud, lock, before, picked>>

DataAttached(j) ==
  /\ pc[j] = "waitData" /\ att[Vol(j)] = "attached"
  /\ device' = [device EXCEPT ![Vol(j)] = picked[j]] /\ NextDisk(j)
  /\ UNCHANGED <<setup, cloud, rec, lock, before, picked>>

\* A wait for ATTACHED that times out ends the job; the volume may still come.
AttachTimesOut(j) ==
  /\ pc[j] \in {"waitBoot", "waitData"} /\ setup.slow /\ att[Vol(j)] # "attached" /\ Fail(j)
  /\ lock' = IF lock = j THEN None ELSE lock
  /\ UNCHANGED <<setup, cloud, before, picked>>
-----------------------------------------------------------------------------
(* Copying, and _detach_all_from_helper in finalize or cleanup               *)

\* The copy ends well or not; finalize follows, or a cancel of the user some time later.
BeginDetach(j) ==
  /\ pc[j] \in {"copy", "failed"} /\ At(j, "detach") /\ cur' = [cur EXCEPT ![j] = Boot]
  /\ UNCHANGED <<setup, cloud, rec, device, lock, before, picked>>

Detach(j) ==
  /\ pc[j] = "detach" /\ cur[j] \in Disks /\ rec[Vol(j)] /\ att[Vol(j)] # "attaching"
  /\ att' = [att EXCEPT ![Vol(j)] = IF @ = "attached" THEN "detaching" ELSE @]
  /\ Go(j, "waitDetached")
  /\ UNCHANGED <<setup, name, path, rec, device, lock, before, picked>>

SkipDetach(j) ==
  /\ pc[j] = "detach" /\ cur[j] \in Disks /\ ~rec[Vol(j)]
  /\ cur' = [cur EXCEPT ![j] = @ + 1] /\ UNCHANGED <<setup, cloud, rec, device, lock, before, picked, pc>>

DiskReleased(j) ==
  /\ pc[j] = "waitDetached" /\ att[Vol(j)] = "none"
  /\ rec' = [rec EXCEPT ![Vol(j)] = FALSE] /\ device' = [device EXCEPT ![Vol(j)] = None]
  /\ At(j, "detach") /\ cur' = [cur EXCEPT ![j] = @ + 1]
  /\ UNCHANGED <<setup, cloud, lock, before, picked>>

\* Done, or given up at the first error: an attachment under way is not detached, or the wait times out.
DetachEnds(j) ==
  /\ \/ pc[j] = "detach" /\ cur[j] > N
     \/ pc[j] = "detach" /\ cur[j] \in Disks /\ rec[Vol(j)] /\ att[Vol(j)] = "attaching"
     \/ pc[j] = "waitDetached" /\ setup.slow /\ att[Vol(j)] = "detaching"
  /\ Go(j, "done")
  /\ UNCHANGED <<setup, cloud, rec, device, lock, before, picked>>
-----------------------------------------------------------------------------
Init ==
  /\ setup \in Setups
  /\ att = [v \in Volumes |-> "none"]
  /\ name = [v \in Volumes |-> None] /\ path = [v \in Volumes |-> None]
  /\ rec = [v \in Volumes |-> FALSE] /\ device = [v \in Volumes |-> None]
  /\ lock = None
  /\ before = [j \in Jobs |-> {}] /\ picked = [j \in Jobs |-> None]
  /\ pc = [j \in Jobs |-> "next"] /\ cur = [j \in Jobs |-> Boot]

AttachStep(j) ==
  \/ NextToAttach(j) \/ TakeLock(j) \/ Scan(j) \/ AttachBoot(j) \/ BootAttached(j) \/ Found(j) \/ NotFound(j)
  \/ PickPath(j) \/ NoPath(j) \/ AttachData(j) \/ DataRefused(j) \/ DataAttached(j) \/ AttachTimesOut(j)
  \/ Cancelled(j) \/ BootRefused(j)
DetachStep(j) == BeginDetach(j) \/ Detach(j) \/ SkipDetach(j) \/ DiskReleased(j) \/ DetachEnds(j)

Next == Oci \/ \E j \in Jobs : AttachStep(j) \/ DetachStep(j)

\* OCI does what it accepted; a job's thread goes on.  A copy may take any time, and a user need not cancel.
Spec ==
  /\ Init /\ [][Next]_vars
  /\ \A v \in Volumes : WF_vars(Appear(v)) /\ WF_vars(Attached(v)) /\ WF_vars(Detached(v))
  /\ \A j \in Jobs : WF_vars(AttachStep(j)) /\ WF_vars(DetachStep(j) /\ pc[j] # "failed" /\ pc[j] # "copy")
-----------------------------------------------------------------------------
Labels == {"next", "lock", "scan", "attach", "waitBoot", "search", "pick", "attachData", "waitData", "copy", "failed",
           "detach", "waitDetached", "done"}
PathSet == Range(Paths)

TypeOK ==
  /\ setup \in Setups
  /\ att \in [Volumes -> {"none", "attaching", "attached", "detaching"}]
  /\ name \in [Volumes -> Names \cup {None}] /\ path \in [Volumes -> PathSet \cup {None}]
  /\ rec \in [Volumes -> BOOLEAN] /\ device \in [Volumes -> Names \cup PathSet \cup {None}]
  /\ lock \in Jobs \cup {None}
  /\ before \in [Jobs -> SUBSET Names] /\ picked \in [Jobs -> PathSet \cup {None}]
  /\ pc \in [Jobs -> Labels] /\ cur \in [Jobs -> 0..N+1]

\* Prepare's comments (oci/provision.py:66, "only one such attachment may be in flight at a time"): while a
\* job copies, what it writes to the device on record of each of its disks reaches that disk's own volume.
OwnDisk ==
  \A j \in Jobs, d \in Disks :
    pc[j] = "copy" => DisksAt(device[<<j, d>>]) \subseteq {<<j, d>>} /\ (d = Boot => DisksAt(device[<<j, d>>]) # {})

\* No other volume can be mistaken for a boot volume: data volumes of other jobs differ in size, and so do
\* their boot volumes where one may come late, that is after its job gave the lock up.
Distinct ==
  \A j, k \in Jobs, d \in Disks :
    j # k /\ setup.size[<<j, Boot>>] = setup.size[<<k, d>>] => d = Boot /\ ~setup.slow

\* wait_for_new_device and _attach_lock: where sizes tell the volumes of other jobs apart, every job writes to
\* its own volumes, in whatever order disks appear, go and leave their names to others.
OwnDiskIfDistinct == Distinct => OwnDisk

\* _attach_lock is held across two waits and a search: no order of events leaves a job waiting for ever.
JobsSettle == \A j \in Jobs : <>(pc[j] \in {"copy", "failed", "done"})
================================================================================
