------------------------------- MODULE GuestFixup -------------------------------
(***************************************************************************)
(* The fix-up of a copied Linux boot volume on the helper (guest/fixup.py,  *)
(* guest/initramfs.py): find the root file system, mount it, run the steps  *)
(* that were asked for, undo every mount and volume group.  One session at  *)
(* a time (_LOCK); any command may fail, and no failure may fail the job.   *)
(***************************************************************************)
EXTENDS Naturals, Sequences, SequencesExt, FiniteSets, GuestNetwork
Cloud == INSTANCE GuestCloud

CONSTANTS
  Guests,     \* the guests a behaviour may meet, see TypeOK
  Kernels,    \* kernel versions
  FaultSets   \* the sets of faults a behaviour may meet

\* "command": a command or a write fails, or dracut says it is done when it is not; "slow": a mount takes effect
\* but not in time; "partial": a vgchange -ay that fails has activated something; "undo": a deactivation fails;
\* "start": an unmount cannot even be started; "stuck": the lazy unmount that follows a failed one fails too.
Fault == {"command", "slow", "partial", "undo", "start", "stuck"}
Step  == {"initramfs", "network", "azure", "gcp"}

ImageStates == {"virtio", "plain", "unreadable", "none"}

\* Mount points of a session below self.mnt, in the order they can be mounted.
Root     == "root"
Split    == <<"usr", "var">>              \* FSTAB_SPLIT_ROOT_MOUNTS; the kernel modules may be on /usr
SystemDirs == <<"dev", "proc", "sys">>
Points   == {Root, "boot"} \cup ToSet(Split) \cup ToSet(SystemDirs)

\* A job has one source, so that one of the clouds is asked for at most (_guest_fixup); a guest's own files have
\* their labels; a drop-in is in cloud.cfg.d.
ASSUME GuestsAssumption ==
  \A g \in Guests :
    /\ g.vgs \in Seq(ToSet(g.vgs)) /\ g.clash \in BOOLEAN
    /\ g.images \in [Kernels -> ImageStates]
    /\ g.fstab \in [{"usr", "var", "boot"} -> {"here", "gone", "no"}]
    /\ g.want \subseteq Step /\ ~({"azure", "gcp"} \subseteq g.want)
    /\ g.net \in Networks /\ g.net.unlabelled = {}
    /\ g.fs \cap {"azureCfg", "googleCfg"} # {} => "cloudCfg" \in g.fs
ASSUME FaultsAssumption == FaultSets \subseteq SUBSET Fault

VARIABLES
  guest,      \* the guest's layout: volume groups, candidates for the root, fstab, requested steps
  faults,     \* the faults that may happen
  images,     \* the initramfs of every kernel
  net, fs,    \* what GuestNetwork and GuestCloud work on
  mounts,     \* self.mounts
  mounted,    \* what is mounted
  stray,      \* what was mounted by a mount that timed out
  denied,     \* history: what cleanup could not start to unmount
  vgs,        \* self.vgs
  activated,  \* the guest's volume groups that are active on the helper
  bootProblem, \* self.boot_problem is set
  rebuilds,       \* kernels whose initramfs rebuild_initramfs is to rebuild
  result,     \* the answer of every step
  pc, k,      \* where the session is, and at which candidate, mount, volume group or kernel
  wiped       \* history: cleanup removed a tree that something was mounted in

disk  == <<images, net, fs>>
sess  == <<mounts, vgs, bootProblem, rebuilds>>
tree  == <<mounted, stray, denied>>
fixed == <<guest, faults>>
fixVars  == <<guest, faults, images, net, fs, mounts, tree, vgs, activated, bootProblem, rebuilds, result,
              pc, k, wiped>>

MayFail(f)  == f \in faults
Move(l, n)  == pc' = l /\ k' = n
Stay        == UNCHANGED <<disk, sess, tree, activated, result, fixed, wiped>>
None        == "none"
\* The answer of steps that did not run: the same for all that were asked for.
AnswerAll(a) == result' = [s \in Step |-> IF s \in guest.want THEN a ELSE None]
\* An exception in open_root: Skip or Fail.
GiveUp(a)   == AnswerAll(a) /\ Move("cleanup", 0) /\ UNCHANGED <<disk, sess, activated, fixed, wiped>>
Abandon(a)  == GiveUp(a) /\ UNCHANGED tree
-----------------------------------------------------------------------------
(* open_root: scan the disk, activate its volume groups                     *)

\* lsblk and pvs with a filter on this disk.  The other pvs lists the groups of the helper and of everything
\* else attached to it.
ScanDisk ==
  /\ pc = "scan"
  /\ IF guest.vgs = <<>> THEN Move("candidate", 1) ELSE Move("activate", 1)
  /\ guest.clash => guest.vgs = <<>>
  /\ Stay

ScanFails == pc \in {"scan", "activate"} /\ MayFail("command") /\ Abandon("failed")

NameClash == pc = "scan" /\ guest.clash /\ guest.vgs # <<>> /\ Abandon("skipped")

ActivateVg ==
  /\ pc = "activate" /\ k <= Len(guest.vgs)
  /\ activated' = activated \cup {guest.vgs[k]} /\ vgs' = Append(vgs, guest.vgs[k])
  /\ Move("activate", k + 1)
  /\ UNCHANGED <<disk, mounts, bootProblem, rebuilds, tree, result, fixed, wiped>>

\* vgchange -ay that fails after some of the logical volumes are active: the group is not on self.vgs.
ActivatePartly ==
  /\ pc = "activate" /\ k <= Len(guest.vgs) /\ MayFail("partial")
  /\ activated' = activated \cup {guest.vgs[k]}
  /\ AnswerAll("failed") /\ Move("cleanup", 0)
  /\ UNCHANGED <<disk, sess, tree, fixed, wiped>>

VolumesListed == pc = "activate" /\ k > Len(guest.vgs) /\ Move("candidate", 1) /\ Stay
-----------------------------------------------------------------------------
(* find_root: the candidates in turn, logical volumes first                 *)

Candidate == guest.cands[k]

\* self.mount and self.bind.
Mount(p) == mounted' = mounted \cup {p} /\ mounts' = Append(mounts, p) /\ UNCHANGED <<stray, denied>>

\* A mount that times out when it has taken effect has failed for the session: it is not on the list.
Slow(p) == MayFail("slow") /\ stray' = stray \cup {p} /\ UNCHANGED <<mounted, denied>>

\* umount of the root fails over whatever else is mounted in it, and the lazy one takes all of that along, but
\* not what lies under the root.
Within(p) == IF p = Root THEN Points ELSE {p}

\* Mutant of Unmount: a umount that fails is not repeated.
Unmount_Once ==
  /\ mounts' = Front(mounts) /\ UNCHANGED denied
  /\ IF \E p \in mounted \cup stray : p # Last(mounts) /\ p \in Within(Last(mounts))
       THEN UNCHANGED <<mounted, stray>>
       ELSE mounted' = mounted \ {Last(mounts)} /\ UNCHANGED stray

\* self.umount(self.mounts[-1]): a failed umount is repeated lazily, and the mount point leaves the list in any
\* case.
Unmount ==
  /\ mounts' = Front(mounts) /\ UNCHANGED denied
  /\ \/ /\ mounted' = mounted \ Within(Last(mounts))
        /\ stray' = stray \ (Within(Last(mounts)) \ {Last(mounts)})
     \/ MayFail("stuck") /\ UNCHANGED <<mounted, stray>>

MountCandidate ==
  /\ pc = "candidate" /\ k <= Len(guest.cands)
  /\ Mount(Root)
  /\ pc' = (IF Candidate = "root" THEN "split" ELSE "look") /\ UNCHANGED k
  /\ UNCHANGED <<disk, vgs, bootProblem, rebuilds, activated, result, fixed, wiped>>

\* A candidate that cannot be mounted is passed over, also one that is mounted after all.
PassOver ==
  /\ pc = "candidate" /\ k <= Len(guest.cands) /\ Move("candidate", k + 1)
  /\ (MayFail("command") /\ UNCHANGED tree) \/ Slow(Root)
  /\ UNCHANGED <<disk, sess, activated, result, fixed, wiped>>

NoRoot == pc = "candidate" /\ k > Len(guest.cands) /\ Abandon("skipped")

\* mount_split_root_filesystems: the entries of the guest's fstab that resolve on this disk.
InFstab(p) == guest.fstab[p] = "here"
ToMount    == {p \in ToSet(Split) : InFstab(p)}

MountSplit ==
  /\ pc = "split" /\ \E p \in ToMount \ (ToSet(mounts) \cup stray) : Mount(p)
  /\ UNCHANGED <<disk, vgs, bootProblem, rebuilds, activated, result, fixed, wiped, pc, k>>

SplitSlow ==
  /\ pc = "split" /\ \E p \in ToMount \ (ToSet(mounts) \cup stray) : Slow(p)
  /\ UNCHANGED <<disk, sess, activated, result, fixed, wiped, pc, k>>

\* All mounted, or one could not be: that is a note, not a failure.
SplitDone ==
  /\ pc = "split" /\ (ToMount \subseteq ToSet(mounts) \cup stray \/ MayFail("command"))
  /\ pc' = "look" /\ UNCHANGED k /\ Stay

HasModules == guest.modules = Root \/ guest.modules \in mounted \cup stray

\* The remount read-write may fail unnoticed; the writes then do.
RootFound == pc = "look" /\ Candidate = "root" /\ HasModules /\ Move("boot", k) /\ Stay

NotTheRoot ==
  /\ pc = "look" /\ ~(Candidate = "root" /\ HasModules) /\ Move("pop", k) /\ Stay

\* pop_guest_mounts, children first.
PopMount ==
  /\ pc = "pop" /\ mounts # <<>> /\ Unmount
  /\ UNCHANGED <<disk, vgs, bootProblem, rebuilds, activated, result, fixed, wiped, pc, k>>

\* An unmount that cannot even be started raises.
PopRaises == pc = "pop" /\ mounts # <<>> /\ MayFail("start") /\ Abandon("failed")

Popped == pc = "pop" /\ mounts = <<>> /\ Move("candidate", k + 1) /\ Stay

\* mount_boot: a /boot that is not on this disk is a problem of the initramfs step only.
MountBoot ==
  /\ pc = "boot" /\ Move("initramfs", 0)
  /\ CASE guest.fstab["boot"] = "here" -> Mount("boot") /\ UNCHANGED bootProblem
       [] guest.fstab["boot"] = "gone" -> bootProblem' = TRUE /\ UNCHANGED <<mounts, tree>>
       [] guest.fstab["boot"] = "no"   -> UNCHANGED <<mounts, tree, bootProblem>>
  /\ UNCHANGED <<disk, vgs, rebuilds, activated, result, fixed, wiped>>

\* A mount that fails is not: it is raised out of open_root.
BootMountFails ==
  /\ pc = "boot" /\ InFstab("boot") /\ GiveUp("failed")
  /\ (MayFail("command") /\ UNCHANGED tree) \/ Slow("boot")
-----------------------------------------------------------------------------
(* The steps                                                                *)

Report(s, a) == result' = [result EXCEPT ![s] = a]
After(s) == CASE s = "initramfs" -> "network" [] s = "network" -> "azure" [] s = "azure" -> "gcp" [] s = "gcp" -> "sync"
\* The session's mounts and volume groups are as they were, the session goes on with the next step.
Proceed(s)  == Move(After(s), 0) /\ UNCHANGED <<sess, tree, activated, fixed, wiped>>

NotWanted == \E s \in Step : pc = s /\ k = 0 /\ s \notin guest.want /\ Proceed(s) /\ UNCHANGED <<disk, result>>

Installed == {v \in Kernels : images[v] # "none"}

\* rebuild_initramfs: no /boot, no dracut, no kernel with an image.
InitramfsSkips ==
  /\ pc = "initramfs" /\ k = 0 /\ "initramfs" \in guest.want
  /\ bootProblem \/ ~guest.dracut \/ Installed = {}
  /\ Report("initramfs", "skipped") /\ Proceed("initramfs") /\ UNCHANGED disk

\* /dev, /proc and /sys in turn.
Binding == pc = "initramfs" /\ k < Len(SystemDirs) /\ "initramfs" \in guest.want
           /\ ~bootProblem /\ guest.dracut /\ Installed # {}

BindSystemDir ==
  /\ Binding /\ Mount(SystemDirs[k + 1]) /\ Move("initramfs", k + 1)
  /\ UNCHANGED <<disk, vgs, bootProblem, rebuilds, activated, result, fixed, wiped>>

BindSlow ==
  /\ Binding /\ Slow(SystemDirs[k + 1]) /\ Move("network", 0) /\ Report("initramfs", "failed")
  /\ UNCHANGED <<disk, sess, activated, fixed, wiped>>

\* Mutant of Lacking: an image whose listing fails is taken to be fine.
Lacking_Trusts == {v \in Installed : images[v] = "plain"}
\* has_virtio: a listing that fails, and one that shows none, both ask for a rebuild.
Lacking == {v \in Installed : images[v] # "virtio"}

NothingToRebuild ==
  /\ pc = "initramfs" /\ k = Len(SystemDirs) /\ Lacking = {}
  /\ Report("initramfs", "not_needed") /\ Proceed("initramfs") /\ UNCHANGED disk

ToRebuild ==
  /\ pc = "initramfs" /\ k = Len(SystemDirs) /\ Lacking # {}
  /\ rebuilds' = Lacking /\ Move("initramfs", k + 1)
  /\ UNCHANGED <<disk, mounts, vgs, bootProblem, tree, activated, result, fixed, wiped>>

\* The image dracut leaves behind when it says it is done.
Made == {"virtio"} \cup IF MayFail("command") THEN {"plain", "unreadable"} ELSE {}

\* Mutant of RebuildImage: the image is not looked at again.
RebuildImage_Trusts ==
  /\ pc = "initramfs" /\ k > Len(SystemDirs)
  /\ \E v \in rebuilds, made \in Made : images' = [images EXCEPT ![v] = made] /\ rebuilds' = rebuilds \ {v}
  /\ UNCHANGED <<net, fs, mounts, vgs, bootProblem, tree, activated, result, fixed, wiped, pc, k>>
\* dracut for one kernel after the other; an image that still shows no virtio drivers ends the step.
RebuildImage ==
  /\ pc = "initramfs" /\ k > Len(SystemDirs)
  /\ \E v \in rebuilds, made \in Made :
       /\ images' = [images EXCEPT ![v] = made]
       /\ \/ made = "virtio" /\ rebuilds' = rebuilds \ {v} /\ UNCHANGED <<result, pc, k>>
          \/ made # "virtio" /\ Report("initramfs", "failed") /\ Move("network", 0) /\ UNCHANGED rebuilds
  /\ UNCHANGED <<net, fs, mounts, vgs, bootProblem, tree, activated, fixed, wiped>>

AllRebuilt ==
  /\ pc = "initramfs" /\ k > Len(SystemDirs) /\ rebuilds = {}
  /\ Report("initramfs", "done") /\ Proceed("initramfs") /\ UNCHANGED disk

\* A bind, a listing that cannot be started, the configuration file, the space in /boot or dracut, which may
\* have written an image that is no use.
InitramfsFails ==
  /\ pc = "initramfs" /\ "initramfs" \in guest.want
  /\ ~bootProblem /\ guest.dracut /\ Installed # {}
  /\ MayFail("command") /\ (k > Len(SystemDirs) => rebuilds # {})
  /\ images' = images \/ \E v \in rebuilds : k > Len(SystemDirs) /\ images' = [images EXCEPT ![v] = "unreadable"]
  /\ Report("initramfs", "failed") /\ Proceed("initramfs") /\ UNCHANGED <<net, fs>>

\* The stage at which a step's write raises, or none.
Stops(n) == {n + 1} \cup IF MayFail("command") THEN 1..n ELSE {}

FixNetwork ==
  /\ pc = "network" /\ "network" \in guest.want
  /\ \E stop \in Stops(NetworkStages), labelled \in {TRUE, ~MayFail("command")} :
       LET a == Apply(net, stop, labelled)
       IN  net' = a.net /\ Report("network", a.status)
  /\ Proceed("network") /\ UNCHANGED <<images, fs>>

FixAzure ==
  /\ pc = "azure" /\ "azure" \in guest.want
  /\ \E stop \in Stops(Cloud!AzureStages) :
       LET a == Cloud!ApplyAzure(fs, stop)
       IN  fs' = a.fs /\ Report("azure", a.status)
  /\ Proceed("azure") /\ UNCHANGED <<images, net>>

FixGcp ==
  /\ pc = "gcp" /\ "gcp" \in guest.want
  /\ \E stop \in Stops(Cloud!GcpStages) :
       LET a == Cloud!ApplyGcp(fs, stop)
       IN  fs' = a.fs /\ Report("gcp", a.status)
  /\ Proceed("gcp") /\ UNCHANGED <<images, net>>

\* Its failure is ignored.
Sync == pc = "sync" /\ Move("cleanup", 0) /\ Stay
-----------------------------------------------------------------------------
(* cleanup                                                                  *)

\* A umount that cannot be started is logged: nothing is tried lazily, and the loop goes on.
CannotStart == MayFail("start") /\ denied' = denied \cup {Last(mounts)} /\ UNCHANGED <<mounted, stray>>

\* Mutant of CleanupMount: the first one that cannot be started ends the loop.
CleanupMount_Stops ==
  /\ pc = "cleanup" /\ mounts # <<>>
  /\ Unmount \/ (CannotStart /\ mounts' = <<>>)
  /\ UNCHANGED <<disk, vgs, bootProblem, rebuilds, activated, result, fixed, wiped, pc, k>>
CleanupMount ==
  /\ pc = "cleanup" /\ mounts # <<>>
  /\ Unmount \/ (CannotStart /\ mounts' = Front(mounts))
  /\ UNCHANGED <<disk, vgs, bootProblem, rebuilds, activated, result, fixed, wiped, pc, k>>

\* A deactivation that fails is not repeated: a lazy unmount may keep the group in use, and what is still mounted
\* does if it is one of its volumes.
CleanupVg ==
  /\ pc = "cleanup" /\ mounts = <<>> /\ vgs # <<>>
  /\ vgs' = Front(vgs)
  /\ \/ activated' = activated \ {Last(vgs)}
     \/ (MayFail("undo") \/ mounted \cup stray # {}) /\ UNCHANGED activated
  /\ UNCHANGED <<disk, mounts, bootProblem, rebuilds, tree, result, fixed, wiped, pc, k>>

\* rmtree(self.mnt), whether or not everything below it could be unmounted.
RemoveTree ==
  /\ pc = "cleanup" /\ mounts = <<>> /\ vgs = <<>>
  /\ wiped' = (mounted \cup stray # {}) /\ Move("done", 0)
  /\ UNCHANGED <<disk, sess, tree, activated, result, fixed>>
-----------------------------------------------------------------------------
\* The runner calls the fixer for Linux guests with a step to run and a known boot device.
FixInit ==
  /\ guest \in Guests /\ faults \in FaultSets
  /\ images = guest.images /\ net = guest.net /\ fs = guest.fs
  /\ mounts = <<>> /\ mounted = {} /\ stray = {} /\ denied = {} /\ vgs = <<>> /\ activated = {}
  /\ bootProblem = FALSE /\ rebuilds = {}
  /\ result = [s \in Step |-> None]
  /\ pc = "scan" /\ k = 0 /\ wiped = FALSE

OpenRoot ==
  \/ ScanDisk \/ ScanFails \/ NameClash \/ ActivateVg \/ ActivatePartly \/ VolumesListed
  \/ MountCandidate \/ PassOver \/ NoRoot \/ MountSplit \/ SplitSlow \/ SplitDone \/ RootFound \/ NotTheRoot
  \/ PopMount \/ PopRaises \/ Popped \/ MountBoot \/ BootMountFails
RunSteps ==
  \/ NotWanted \/ InitramfsSkips \/ BindSystemDir \/ BindSlow
  \/ NothingToRebuild \/ ToRebuild \/ RebuildImage \/ AllRebuilt \/ InitramfsFails
  \/ FixNetwork \/ FixAzure \/ FixGcp \/ Sync
Cleanup == CleanupMount \/ CleanupVg \/ RemoveTree

FixNext == OpenRoot \/ RunSteps \/ Cleanup

\* Every command has a time limit.
FixSpec == FixInit /\ [][FixNext]_fixVars /\ WF_fixVars(FixNext)
-----------------------------------------------------------------------------
TypeOK ==
  /\ guest \in Guests /\ faults \in FaultSets
  /\ images \in [Kernels -> ImageStates]
  /\ mounts \in Seq(Points) /\ mounted \subseteq Points /\ stray \subseteq Points /\ denied \subseteq Points
  /\ rebuilds \subseteq Kernels
  /\ vgs \in Seq(ToSet(guest.vgs)) /\ activated \subseteq ToSet(guest.vgs)
  /\ bootProblem \in BOOLEAN /\ wiped \in BOOLEAN
  /\ result \in [Step -> {None, "done", "not_needed", "skipped", "failed"}]
  /\ pc \in Step \cup {"scan", "activate", "candidate", "split", "look", "pop", "boot", "sync", "cleanup", "done"}
  /\ k \in Nat

\* _Session, "One fix-up run with its mounts and activated volume groups (undone in cleanup())": whatever failed
\* on the way, the session's directory is not removed over files that are still mounted in it, unless an unmount
\* fails for good or a mount times out when it has taken effect.  If the root's own unmount is one that could be
\* started and works, all goes with it that other unmounts left behind, and what is left at most is a candidate
\* whose mount timed out.  No volume group stays active that nothing is mounted of, unless its own activation or
\* deactivation failed.
NothingLeft ==
  /\ faults \cap {"slow", "start", "stuck"} = {} => ~wiped
  /\ pc = "done" =>
       /\ "stuck" \notin faults /\ Root \notin denied => mounted = {} /\ stray \subseteq {Root}
       /\ faults \cap {"partial", "undo"} = {} /\ mounted \cup stray = {} => activated = {}

\* GuestFixer.fix, "per-step outcomes": every step that was asked for has an answer, and one that says done or
\* not needed is true of the guest when the session is over: all installed kernels have virtio drivers, a stack
\* that is started asks for an address, nothing is left of the old cloud.
Says(s)  == result[s] \in {"done", "not_needed"}
AnswersAreTrue ==
  pc = "done" =>
    /\ \A s \in Step : s \in guest.want <=> result[s] # None
    /\ Says("initramfs") => \A v \in Kernels : images[v] \in {"virtio", "none"}
    /\ Says("network") /\ Supported(net) => GetsDhcp(net)
    /\ Says("azure") => Cloud!AzureClean(fs)
    /\ Says("gcp") => Cloud!GcpClean(fs)
================================================================================
