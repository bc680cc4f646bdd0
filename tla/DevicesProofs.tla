----------------------------- MODULE DevicesProofs -----------------------------
(***************************************************************************)
(* A proof about the disks of the helper, for any jobs, numbers of data     *)
(* disks, names, paths and sizes: where sizes tell the volumes of other     *)
(* jobs apart, every job writes to its own volumes.                         *)
(***************************************************************************)
EXTENDS Devices, FiniteSetTheorems, TLAPS

Locking   == {"scan", "attach", "waitBoot", "search"}
Attaching == {"next", "lock", "pick", "attachData", "waitData", "copy"} \cup Locking

\* A disk of which the kernel or OCI says anything is attached.
LiveOnly == \A v \in Volumes : name[v] # None \/ path[v] # None => Live(v)

\* No two disks have a name or a path in common.
NamesDiffer == \A v, w \in Volumes : name[v] = name[w] /\ name[v] # None => v = w
PathsDiffer == \A v, w \in Volumes : path[v] = path[w] /\ path[v] # None => v = w

\* Boot volumes are attached first, under the lock; and a disk that is waited for is one of the job's.
InOrder ==
  \A j \in Jobs :
    /\ pc[j] \in Locking \cup {"lock"} => cur[j] = Boot
    /\ pc[j] \in {"pick", "attachData", "waitData"} => cur[j] \in 1..N
    /\ pc[j] = "copy" => cur[j] = N + 1
    /\ pc[j] = "waitDetached" => cur[j] \in Disks
    /\ pc[j] \in Locking => lock = j

\* What a job has still to attach is not attached.
ToCome ==
  \A j \in Jobs, d \in Disks :
    pc[j] \in Attaching /\ (d > cur[j] \/ (d = cur[j] /\ pc[j] \notin {"waitBoot", "search", "waitData"}))
      => att[<<j, d>>] = "none"

\* What it is attaching.
Current ==
  \A j \in Jobs :
    /\ pc[j] \in {"waitBoot", "waitData"} => att[Vol(j)] \in {"attaching", "attached"}
    /\ pc[j] = "search" => att[Vol(j)] = "attached"
    /\ pc[j] \in {"attachData", "waitData"} => picked[j] \in PathSet
    /\ pc[j] = "waitData" => path[Vol(j)] = picked[j]

\* What it has attached, and where it writes to.
DataDone ==
  \A j \in Jobs, d \in Disks :
    pc[j] \in Attaching /\ d < cur[j] =>
      /\ att[<<j, d>>] = "attached"
      /\ d # Boot => device[<<j, d>>] = path[<<j, d>>] /\ path[<<j, d>>] \in PathSet
BootDone ==
  \A j \in Jobs :
    pc[j] \in Attaching /\ cur[j] > Boot =>
      name[<<j, Boot>>] \in Names /\ device[<<j, Boot>>] = name[<<j, Boot>>]

\* Where boot volumes come in time, one that is attached is visible before the lock is free, and so in the scan
\* of every job that takes it afterwards.
BootsSeen == \A k \in Jobs : Live(<<k, Boot>>) /\ lock # k => name[<<k, Boot>>] # None
Noted ==
  \A j, k \in Jobs :
    j # k /\ pc[j] \in Locking \ {"scan"} /\ Live(<<k, Boot>>) => name[<<k, Boot>>] \in before[j]

Structure == TypeOK /\ LiveOnly /\ NamesDiffer /\ PathsDiffer /\ InOrder /\ ToCome /\ Current /\ DataDone
DevicesInv ==
  /\ Structure
  /\ Distinct => BootDone
  /\ Distinct /\ ~setup.slow => BootsSeen /\ Noted

LEMMA InitDevices == Init => DevicesInv
  BY DevicesAssumption
  DEF Init, DevicesInv, Structure, TypeOK, Labels, PathSet, LiveOnly, NamesDiffer, PathsDiffer, InOrder, ToCome,
    Current, DataDone, BootDone, BootsSeen, Noted, Live, Vol, Volumes, Disks, Boot, Locking, Attaching

-----------------------------------------------------------------------------
(* The steps keep the structure                                             *)

USE DEF Volumes, Disks, Boot, Vol, Live, Labels, PathSet, At, Go, NextDisk, Fail, cloud, Locking, Attaching,
  Structure, TypeOK, LiveOnly, NamesDiffer, PathsDiffer, InOrder, ToCome, Current, DataDone

LEMMA AppearStep == ASSUME Structure, NEW v \in Volumes, Appear(v) PROVE Structure'
  BY DevicesAssumption DEF Appear

LEMMA AttachedStep == ASSUME Structure, NEW v \in Volumes, Attached(v) PROVE Structure'
<1> USE DevicesAssumption DEF Attached
<1>1. TypeOK'
  OBVIOUS
<1>2. (LiveOnly /\ NamesDiffer /\ PathsDiffer /\ InOrder)'
  OBVIOUS
<1>3. ToCome'
  OBVIOUS
<1>4. Current'
  OBVIOUS
<1>5. DataDone'
  OBVIOUS
<1>6. QED
  BY <1>1, <1>2, <1>3, <1>4, <1>5

LEMMA DetachedStep == ASSUME Structure, NEW v \in Volumes, Detached(v) PROVE Structure'
<1> USE DevicesAssumption DEF Detached
<1>1. TypeOK'
  OBVIOUS
<1>2. (LiveOnly /\ NamesDiffer /\ PathsDiffer /\ InOrder)'
  OBVIOUS
<1>3. ToCome'
  OBVIOUS
<1>4. Current'
  OBVIOUS
<1>5. DataDone'
  OBVIOUS
<1>6. QED
  BY <1>1, <1>2, <1>3, <1>4, <1>5

LEMMA NextToAttachStep == ASSUME Structure, NEW i \in Jobs, NextToAttach(i) PROVE Structure'
  BY DevicesAssumption DEF NextToAttach

LEMMA CancelledStep == ASSUME Structure, NEW i \in Jobs, Cancelled(i) PROVE Structure'
  BY DevicesAssumption DEF Cancelled

LEMMA TakeLockStep == ASSUME Structure, NEW i \in Jobs, TakeLock(i) PROVE Structure'
  BY DevicesAssumption DEF TakeLock

LEMMA ScanStep == ASSUME Structure, NEW i \in Jobs, Scan(i) PROVE Structure'
  BY DevicesAssumption DEF Scan, Visible

LEMMA AttachBootStep == ASSUME Structure, NEW i \in Jobs, AttachBoot(i) PROVE Structure'
  BY DevicesAssumption DEF AttachBoot

LEMMA BootRefusedStep == ASSUME Structure, NEW i \in Jobs, BootRefused(i) PROVE Structure'
  BY DevicesAssumption DEF BootRefused

LEMMA BootAttachedStep == ASSUME Structure, NEW i \in Jobs, BootAttached(i) PROVE Structure'
<1> USE DevicesAssumption DEF BootAttached
<1>1. TypeOK'
  OBVIOUS
<1>2. (LiveOnly /\ NamesDiffer /\ PathsDiffer)'
  OBVIOUS
<1>3. InOrder'
  OBVIOUS
<1>4. ToCome'
  OBVIOUS
<1>5. Current'
  <2>1. UNCHANGED <<att, path, picked, cur>> /\ att[Vol(i)] = "attached" /\ pc'[i] = "search"
    OBVIOUS
  <2>2. \A j \in Jobs : j # i => pc'[j] = pc[j]
    OBVIOUS
  <2>3. ASSUME NEW j \in Jobs
        PROVE  /\ pc'[j] \in {"waitBoot", "waitData"} => att'[<<j, cur'[j]>>] \in {"attaching", "attached"}
               /\ pc'[j] = "search" => att'[<<j, cur'[j]>>] = "attached"
               /\ pc'[j] \in {"attachData", "waitData"} => picked'[j] \in PathSet
               /\ pc'[j] = "waitData" => path'[<<j, cur'[j]>>] = picked'[j]
    <3>1. CASE j = i
      BY <3>1, <2>1
    <3>2. CASE j # i
      BY <3>2, <2>1, <2>2
    <3>3. QED
      BY <3>1, <3>2
  <2>4. QED
    BY <2>3
<1>6. DataDone'
  OBVIOUS
<1>7. QED
  BY <1>1, <1>2, <1>3, <1>4, <1>5, <1>6

LEMMA FoundStep == ASSUME Structure, NEW i \in Jobs, Found(i) PROVE Structure'
  BY DevicesAssumption DEF Found, Matching, Visible

LEMMA NotFoundStep == ASSUME Structure, NEW i \in Jobs, NotFound(i) PROVE Structure'
  BY DevicesAssumption DEF NotFound

LEMMA PickPathStep == ASSUME Structure, NEW i \in Jobs, PickPath(i) PROVE Structure'
<1>1. \A k \in FreePaths(i) : Paths[k] \in PathSet
  BY DEF FreePaths, Range
<1>2. QED
  BY <1>1, DevicesAssumption DEF PickPath

LEMMA NoPathStep == ASSUME Structure, NEW i \in Jobs, NoPath(i) PROVE Structure'
  BY DevicesAssumption DEF NoPath

LEMMA AttachDataStep == ASSUME Structure, NEW i \in Jobs, AttachData(i) PROVE Structure'
<1> USE DevicesAssumption DEF AttachData, PathTaken
<1>1. TypeOK'
  OBVIOUS
<1>2. (LiveOnly /\ NamesDiffer /\ PathsDiffer)'
  <2>1. LiveOnly'
    OBVIOUS
  <2>2. NamesDiffer'
    OBVIOUS
  <2>3. PathsDiffer'
    <3>1. picked[i] # None
      OBVIOUS
    <3>2. \A v \in Volumes : path[v] # picked[i]
      BY <3>1
    <3>3. path' = [path EXCEPT ![Vol(i)] = picked[i]] /\ path \in [Volumes -> PathSet \cup {None}]
      OBVIOUS
    <3>4. ASSUME NEW v \in Volumes, NEW w \in Volumes, path'[v] = path'[w], path'[v] # None
          PROVE  v = w
      <4>1. CASE v = Vol(i)
        BY <3>2, <3>3, <3>4, <4>1
      <4>2. CASE v # Vol(i)
        BY <3>2, <3>3, <3>4, <4>2
      <4>3. QED
        BY <4>1, <4>2
    <3>5. QED
      BY <3>4
  <2>4. QED
    BY <2>1, <2>2, <2>3
<1>3. InOrder'
  OBVIOUS
<1>4. ToCome'
  OBVIOUS
<1>5. Current'
  OBVIOUS
<1>6. DataDone'
  OBVIOUS
<1>7. QED
  BY <1>1, <1>2, <1>3, <1>4, <1>5, <1>6

LEMMA DataRefusedStep == ASSUME Structure, NEW i \in Jobs, DataRefused(i) PROVE Structure'
  BY DevicesAssumption DEF DataRefused

LEMMA DataAttachedStep == ASSUME Structure, NEW i \in Jobs, DataAttached(i) PROVE Structure'
<1> USE DevicesAssumption DEF DataAttached
<1>1. TypeOK'
  OBVIOUS
<1>2. (LiveOnly /\ NamesDiffer /\ PathsDiffer)'
  OBVIOUS
<1>3. InOrder'
  OBVIOUS
<1>4. ToCome'
  OBVIOUS
<1>5. Current'
  OBVIOUS
<1>6. DataDone'
  OBVIOUS
<1>7. QED
  BY <1>1, <1>2, <1>3, <1>4, <1>5, <1>6

LEMMA AttachTimesOutStep == ASSUME Structure, NEW i \in Jobs, AttachTimesOut(i) PROVE Structure'
  BY DevicesAssumption DEF AttachTimesOut

LEMMA BeginDetachStep == ASSUME Structure, NEW i \in Jobs, BeginDetach(i) PROVE Structure'
  BY DevicesAssumption DEF BeginDetach

LEMMA DetachKeepsLive == ASSUME TypeOK, LiveOnly, NEW i \in Jobs, Detach(i) PROVE LiveOnly'
  BY DEF Detach

LEMMA DetachOneStep == ASSUME Structure, NEW i \in Jobs, Detach(i) PROVE Structure'
<1> USE DevicesAssumption DEF Detach
<1>1. TypeOK'
  OBVIOUS
<1>2. (LiveOnly /\ NamesDiffer /\ PathsDiffer)'
  <2>1. LiveOnly'
    BY DetachKeepsLive
  <2>2. NamesDiffer'
    OBVIOUS
  <2>3. PathsDiffer'
    OBVIOUS
  <2>4. QED
    BY <2>1, <2>2, <2>3
<1>3. InOrder'
  OBVIOUS
<1>4. ToCome'
  OBVIOUS
<1>5. Current'
  OBVIOUS
<1>6. DataDone'
  OBVIOUS
<1>7. QED
  BY <1>1, <1>2, <1>3, <1>4, <1>5, <1>6

LEMMA SkipDetachStep == ASSUME Structure, NEW i \in Jobs, SkipDetach(i) PROVE Structure'
  BY DevicesAssumption DEF SkipDetach

LEMMA DiskReleasedStep == ASSUME Structure, NEW i \in Jobs, DiskReleased(i) PROVE Structure'
<1> USE DevicesAssumption DEF DiskReleased
<1>1. TypeOK'
  <2>1. rec' \in [Volumes -> BOOLEAN]
    OBVIOUS
  <2>2. device' \in [Volumes -> Names \cup PathSet \cup {None}]
    OBVIOUS
  <2>3. cur' \in [Jobs -> 0..N+1] /\ pc' \in [Jobs -> Labels]
    OBVIOUS
  <2>4. QED
    BY <2>1, <2>2, <2>3
<1>2. (LiveOnly /\ NamesDiffer /\ PathsDiffer)'
  OBVIOUS
<1>3. InOrder'
  OBVIOUS
<1>4. ToCome'
  OBVIOUS
<1>5. Current'
  OBVIOUS
<1>6. DataDone'
  OBVIOUS
<1>7. QED
  BY <1>1, <1>2, <1>3, <1>4, <1>5, <1>6

LEMMA DetachEndsStep == ASSUME Structure, NEW i \in Jobs, DetachEnds(i) PROVE Structure'
  BY DevicesAssumption DEF DetachEnds

HIDE DEF Volumes, Disks, Boot, Vol, Live, Labels, PathSet, At, Go, NextDisk, Fail, cloud, Locking, Attaching,
  Structure, TypeOK, LiveOnly, NamesDiffer, PathsDiffer, InOrder, ToCome, Current, DataDone

LEMMA NextStructure == ASSUME Structure, [Next]_vars PROVE Structure'
<1>1. ASSUME NEW v \in Volumes, Appear(v) \/ Attached(v) \/ Detached(v) PROVE Structure'
  BY <1>1, AppearStep, AttachedStep, DetachedStep
<1>2. ASSUME NEW i \in Jobs, AttachStep(i) PROVE Structure'
  BY <1>2, NextToAttachStep, TakeLockStep, ScanStep, AttachBootStep, BootAttachedStep, FoundStep, NotFoundStep,
    PickPathStep, NoPathStep, AttachDataStep, DataRefusedStep, DataAttachedStep, AttachTimesOutStep, CancelledStep,
    BootRefusedStep
  DEF AttachStep
<1>3. ASSUME NEW i \in Jobs, DetachStep(i) PROVE Structure'
  BY <1>3, BeginDetachStep, DetachOneStep, SkipDetachStep, DiskReleasedStep, DetachEndsStep DEF DetachStep
<1>4. CASE UNCHANGED vars
  BY <1>4
  DEF vars, Structure, TypeOK, LiveOnly, NamesDiffer, PathsDiffer, InOrder, ToCome, Current, DataDone, Live, Vol
<1>5. QED
  BY <1>1, <1>2, <1>3, <1>4 DEF Next, Oci

-----------------------------------------------------------------------------
(* The search finds the job's own boot volume, or nothing                   *)

LEMMA OnlyOwn ==
  ASSUME DevicesInv, Distinct, NEW i \in Jobs, pc[i] = "search"
  PROVE  Matching(i) \subseteq {<<i, Boot>>}
<1>1. cur[i] = Boot
  BY DEF DevicesInv, Structure, InOrder, Locking
<1>2. ASSUME NEW k \in Jobs, NEW d \in Disks, <<k, d>> \in Matching(i) PROVE k = i /\ d = Boot
  <2>1. /\ Live(<<k, d>>) /\ name[<<k, d>>] \notin before[i]
        /\ setup.size[<<k, d>>] = setup.size[<<i, Boot>>]
    BY <1>1, <1>2 DEF Matching, Visible, Vol, Volumes, DevicesInv, Structure, LiveOnly
  <2>2. CASE k = i
    BY <1>1, <2>1, <2>2 DEF DevicesInv, Structure, ToCome, Attaching, Locking, Live, Disks, Boot
  <2>3. CASE k # i
    <3>1. d = Boot /\ ~setup.slow
      BY <2>1, <2>3 DEF Distinct
    <3>2. name[<<k, d>>] \in before[i]
      BY <2>1, <2>3, <3>1 DEF DevicesInv, Noted, Locking
    <3>3. QED
      BY <2>1, <3>2
  <2>4. QED
    BY <2>2, <2>3
<1>3. QED
  BY <1>2 DEF Matching, Visible, Volumes

\* A search that ends well has found the job's own boot volume.
LEMMA SearchFinds ==
  ASSUME DevicesInv, Distinct, NEW i \in Jobs, Found(i)
  PROVE  name[<<i, Boot>>] # None /\ device' = [device EXCEPT ![<<i, Boot>>] = name[<<i, Boot>>]]
<1>1. pc[i] = "search" /\ cur[i] = Boot
  BY DEF Found, DevicesInv, Structure, InOrder, Locking
<1>2. PICK v \in Volumes : Matching(i) = {v} /\ device' = [device EXCEPT ![<<i, Boot>>] = name[v]]
  BY <1>1 DEF Found, Vol
<1>3. v = <<i, Boot>>
  BY <1>1, <1>2, OnlyOwn
<1>4. QED
  BY <1>2, <1>3 DEF Matching, Visible

\* One that fails although disks come in time has seen it, under a name that was taken before.
LEMMA SearchFails ==
  ASSUME DevicesInv, Distinct, ~setup.slow, NEW i \in Jobs, NotFound(i)
  PROVE  name[<<i, Boot>>] # None
<1>1. pc[i] = "search" /\ cur[i] = Boot
  BY DEF NotFound, DevicesInv, Structure, InOrder, Locking
<1>2. Matching(i) # {<<i, Boot>>}
  <2>1. Cardinality(Matching(i)) # 1
    BY DEF NotFound
  <2>2. QED
    BY <2>1, FS_Singleton
<1>3. Matching(i) = {}
  BY <1>1, <1>2, OnlyOwn
<1>4. QED
  BY <1>1, <1>3 DEF NotFound, Visible, Vol

\* What a job knows of boot volumes, its own and those of others.
Told == (Distinct => BootDone) /\ (Distinct /\ ~setup.slow => BootsSeen /\ Noted)

\* The sizes are given.
LEMMA SetupStays == [Next]_vars => setup' = setup /\ Distinct' = Distinct
<1>1. [Next]_vars => setup' = setup
  BY
  DEF Next, Oci, AttachStep, DetachStep, vars, Appear, Attached, Detached, NextToAttach, TakeLock, Scan, AttachBoot,
    BootAttached, Found, NotFound, PickPath, NoPath, AttachData, DataRefused, DataAttached, AttachTimesOut, Cancelled,
    BootRefused, BeginDetach, Detach, SkipDetach, DiskReleased, DetachEnds
<1>2. QED
  BY <1>1 DEF Distinct

LEMMA OciTold ==
  ASSUME DevicesInv, NEW v \in Volumes, Appear(v) \/ Attached(v) \/ Detached(v), Distinct' = Distinct PROVE Told'
<1> USE DevicesAssumption
  DEF DevicesInv, Structure, TypeOK, LiveOnly, ToCome, Current, DataDone, Told, BootDone, BootsSeen, Noted, Live,
    Volumes, Disks, Boot, Attaching, Locking
<1>1. CASE Appear(v)
  BY <1>1 DEF Appear
<1>2. CASE Attached(v)
  <2>1. \A w \in Volumes : Live(w)' => Live(w)
    BY <1>2 DEF Attached
  <2>2. UNCHANGED <<setup, name, device, lock, before, pc, cur>>
    BY <1>2 DEF Attached
  <2>3. QED
    BY <2>1, <2>2
<1>3. CASE Detached(v)
  BY <1>3 DEF Detached
<1>4. QED
  BY <1>1, <1>2, <1>3

USE DevicesAssumption
  DEF DevicesInv, Structure, TypeOK, LiveOnly, InOrder, ToCome, Current, DataDone, Told, BootDone, BootsSeen, Noted,
    Live, Vol, Volumes, Disks, Boot, Attaching, Locking, Labels, PathSet, At, Go, NextDisk, Fail, cloud

LEMMA NextToAttachTold == ASSUME DevicesInv, NEW i \in Jobs, NextToAttach(i), Distinct' = Distinct PROVE Told'
  BY DEF NextToAttach

LEMMA CancelledTold == ASSUME DevicesInv, NEW i \in Jobs, Cancelled(i), Distinct' = Distinct PROVE Told'
  BY DEF Cancelled

LEMMA TakeLockTold == ASSUME DevicesInv, NEW i \in Jobs, TakeLock(i), Distinct' = Distinct PROVE Told'
  BY DEF TakeLock

LEMMA AttachBootTold == ASSUME DevicesInv, NEW i \in Jobs, AttachBoot(i), Distinct' = Distinct PROVE Told'
  BY DEF AttachBoot

LEMMA BootRefusedTold == ASSUME DevicesInv, NEW i \in Jobs, BootRefused(i), Distinct' = Distinct PROVE Told'
  BY DEF BootRefused

LEMMA BootAttachedTold == ASSUME DevicesInv, NEW i \in Jobs, BootAttached(i), Distinct' = Distinct PROVE Told'
  BY DEF BootAttached

LEMMA ScanTold == ASSUME DevicesInv, NEW i \in Jobs, Scan(i), Distinct' = Distinct PROVE Told'
  BY DEF Scan, Visible

LEMMA FoundTold == ASSUME DevicesInv, NEW i \in Jobs, Found(i), Distinct' = Distinct PROVE Told'
<1>1. cur[i] = Boot /\ lock = i
  BY DEF Found
<1>2. Distinct => name[<<i, Boot>>] # None /\ device' = [device EXCEPT ![<<i, Boot>>] = name[<<i, Boot>>]]
  BY SearchFinds
<1>3. Distinct => BootDone'
  <2>1. UNCHANGED name /\ (\A j \in Jobs : j # i => pc'[j] = pc[j] /\ cur'[j] = cur[j])
    BY DEF Found
  <2>2. Distinct => name[<<i, Boot>>] \in Names /\ device'[<<i, Boot>>] = name[<<i, Boot>>]
    BY <1>2
  <2>3. Distinct => \A j \in Jobs : j # i => device'[<<j, Boot>>] = device[<<j, Boot>>]
    BY <1>2
  <2>4. ASSUME Distinct, NEW j \in Jobs, pc'[j] \in Attaching, cur'[j] > Boot
        PROVE  name'[<<j, Boot>>] \in Names /\ device'[<<j, Boot>>] = name'[<<j, Boot>>]
    <3>1. CASE j = i
      BY <2>1, <2>2, <2>4, <3>1
    <3>2. CASE j # i
      BY <2>1, <2>3, <2>4, <3>2
    <3>3. QED
      BY <3>1, <3>2
  <2>5. QED
    BY <2>4
<1>4. Distinct /\ ~setup.slow => BootsSeen'
  BY <1>1, <1>2 DEF Found
<1>5. Distinct /\ ~setup.slow => Noted'
  BY <1>1, <1>2 DEF Found
<1>6. QED
  BY <1>3, <1>4, <1>5 DEF Found

LEMMA NotFoundTold == ASSUME DevicesInv, NEW i \in Jobs, NotFound(i), Distinct' = Distinct PROVE Told'
<1>1. cur[i] = Boot /\ lock = i
  BY DEF NotFound
<1>2. Distinct /\ ~setup.slow => name[<<i, Boot>>] # None
  BY SearchFails
<1>3. Distinct => BootDone'
  BY DEF NotFound
<1>4. Distinct /\ ~setup.slow => BootsSeen'
  BY <1>1, <1>2 DEF NotFound
<1>5. Distinct /\ ~setup.slow => Noted'
  BY DEF NotFound
<1>6. QED
  BY <1>3, <1>4, <1>5 DEF NotFound

LEMMA PickPathTold == ASSUME DevicesInv, NEW i \in Jobs, PickPath(i), Distinct' = Distinct PROVE Told'
  BY DEF PickPath

LEMMA NoPathTold == ASSUME DevicesInv, NEW i \in Jobs, NoPath(i), Distinct' = Distinct PROVE Told'
  BY DEF NoPath

LEMMA AttachDataTold == ASSUME DevicesInv, NEW i \in Jobs, AttachData(i), Distinct' = Distinct PROVE Told'
  BY DEF AttachData

LEMMA DataRefusedTold == ASSUME DevicesInv, NEW i \in Jobs, DataRefused(i), Distinct' = Distinct PROVE Told'
  BY DEF DataRefused

LEMMA DataAttachedTold == ASSUME DevicesInv, NEW i \in Jobs, DataAttached(i), Distinct' = Distinct PROVE Told'
  BY DEF DataAttached

LEMMA AttachTimesOutTold == ASSUME DevicesInv, NEW i \in Jobs, AttachTimesOut(i), Distinct' = Distinct PROVE Told'
  BY DEF AttachTimesOut

LEMMA BeginDetachTold == ASSUME DevicesInv, NEW i \in Jobs, BeginDetach(i), Distinct' = Distinct PROVE Told'
  BY DEF BeginDetach

LEMMA DetachOneTold == ASSUME DevicesInv, NEW i \in Jobs, Detach(i), Distinct' = Distinct PROVE Told'
<1>1. \A v \in Volumes : Live(v)' => Live(v)
  BY DEF Detach
<1>2. UNCHANGED <<setup, name, device, lock, before, cur>> /\ pc' = [pc EXCEPT ![i] = "waitDetached"]
  BY DEF Detach
<1>3. QED
  BY <1>1, <1>2

LEMMA SkipDetachTold == ASSUME DevicesInv, NEW i \in Jobs, SkipDetach(i), Distinct' = Distinct PROVE Told'
  BY DEF SkipDetach

LEMMA DiskReleasedTold == ASSUME DevicesInv, NEW i \in Jobs, DiskReleased(i), Distinct' = Distinct PROVE Told'
  BY DEF DiskReleased

LEMMA DetachEndsTold == ASSUME DevicesInv, NEW i \in Jobs, DetachEnds(i), Distinct' = Distinct PROVE Told'
  BY DEF DetachEnds

HIDE DEF DevicesInv, Structure, TypeOK, LiveOnly, InOrder, ToCome, Current, DataDone, Told, BootDone, BootsSeen, Noted,
  Live, Vol, Volumes, Disks, Boot, Attaching, Locking, Labels, PathSet, At, Go, NextDisk, Fail, cloud
-----------------------------------------------------------------------------
LEMMA NextDevices == ASSUME DevicesInv, [Next]_vars PROVE DevicesInv'
<1>1. Structure'
  BY NextStructure DEF DevicesInv
<1>2. Distinct' = Distinct
  BY SetupStays
<1>3. ASSUME NEW v \in Volumes, Appear(v) \/ Attached(v) \/ Detached(v) PROVE Told'
  BY <1>2, <1>3, OciTold
<1>4. ASSUME NEW i \in Jobs, AttachStep(i) PROVE Told'
  BY <1>2, <1>4, NextToAttachTold, TakeLockTold, ScanTold, AttachBootTold, BootAttachedTold, FoundTold, NotFoundTold,
    PickPathTold, NoPathTold, AttachDataTold, DataRefusedTold, DataAttachedTold, AttachTimesOutTold, CancelledTold,
    BootRefusedTold
  DEF AttachStep
<1>5. ASSUME NEW i \in Jobs, DetachStep(i) PROVE Told'
  BY <1>2, <1>5, BeginDetachTold, DetachOneTold, SkipDetachTold, DiskReleasedTold, DetachEndsTold DEF DetachStep
<1>6. ASSUME UNCHANGED vars PROVE Told'
  BY <1>2, <1>6 DEF vars, DevicesInv, Told, BootDone, BootsSeen, Noted, Live
<1>7. Told'
  BY <1>3, <1>4, <1>5, <1>6 DEF Next, Oci
<1>8. QED
  BY <1>1, <1>7 DEF DevicesInv, Told

\* While it copies, a job's devices name its own volumes, by kernel names and paths that no other volume has.
LEMMA CopiesOwn == DevicesInv => OwnDiskIfDistinct
<1>1. SUFFICES ASSUME DevicesInv, Distinct, NEW j \in Jobs, NEW d \in Disks, pc[j] = "copy"
               PROVE  DisksAt(device[<<j, d>>]) \subseteq {<<j, d>>} /\ (d = Boot => DisksAt(device[<<j, d>>]) # {})
  BY DEF OwnDiskIfDistinct, OwnDisk
<1>2. <<j, d>> \in Volumes /\ d < cur[j]
  BY <1>1, DevicesAssumption DEF Volumes, Disks, DevicesInv, Structure, InOrder
<1>3. \A v \in Volumes : name[v] \in Names \cup {None} /\ path[v] \in PathSet \cup {None}
  BY <1>1 DEF DevicesInv, Structure, TypeOK
<1>4. None \notin Names /\ None \notin PathSet /\ Names \cap PathSet = {}
  BY DevicesAssumption DEF PathSet
<1>5. CASE d = Boot
  <2>1. name[<<j, d>>] \in Names /\ device[<<j, d>>] = name[<<j, d>>]
    BY <1>1, <1>2, <1>5 DEF DevicesInv, BootDone, Attaching, Boot
  <2>2. name[<<j, d>>] # None /\ \A v \in Volumes : path[v] # name[<<j, d>>]
    BY <1>3, <1>4, <2>1
  <2>3. \A v \in Volumes : name[v] = name[<<j, d>>] => v = <<j, d>>
    BY <1>1, <1>2, <2>2 DEF DevicesInv, Structure, NamesDiffer
  <2>4. QED
    BY <1>2, <2>1, <2>2, <2>3 DEF DisksAt, Visible
<1>6. CASE d # Boot
  <2>1. path[<<j, d>>] \in PathSet /\ device[<<j, d>>] = path[<<j, d>>]
    BY <1>1, <1>2, <1>6 DEF DevicesInv, Structure, DataDone, Attaching
  <2>2. path[<<j, d>>] # None /\ \A v \in Volumes : name[v] # path[<<j, d>>]
    BY <1>3, <1>4, <2>1
  <2>3. \A v \in Volumes : path[v] = path[<<j, d>>] => v = <<j, d>>
    BY <1>1, <1>2, <2>2 DEF DevicesInv, Structure, PathsDiffer
  <2>4. QED
    BY <1>6, <2>1, <2>2, <2>3 DEF DisksAt, Visible
<1>7. QED
  BY <1>5, <1>6

\* For any jobs, disks, names, paths and sizes (devices.wait_for_new_device under _attach_lock): where sizes tell
\* the volumes of other jobs apart, every job that copies writes to its own volumes.
THEOREM JobsWriteOwnDisks == Spec => []OwnDiskIfDistinct
  BY InitDevices, NextDevices, CopiesOwn, PTL DEF Spec

\* Type correctness of attachments, names, paths and threads, for any jobs, disks and sizes.
THEOREM DevicesTypeCorrect == Spec => []TypeOK
<1>1. DevicesInv => TypeOK
  BY DEF DevicesInv, Structure
<1>2. QED
  BY <1>1, InitDevices, NextDevices, PTL DEF Spec
================================================================================
