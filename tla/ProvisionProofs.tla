---------------------------- MODULE ProvisionProofs ----------------------------
(***************************************************************************)
(* Proofs about a migration's resources in OCI, for any number of disks,    *)
(* any faults, retries and restarts: the record covers what exists, a       *)
(* cleanup without a reported failure leaves nothing, a disk has one        *)
(* writer, and a completed job has moved its disks.                         *)
(***************************************************************************)
EXTENDS Provision, TLAPS

(* The inductive invariant                                                  *)

Undisturbed == RecordKept /\ "badAttachment" \notin faults

Launching == {"launch", "launched", "waitRunning"}
Making    == {"createVol", "volMade"}
Sharing   == {"attTarget", "tMade", "waitTarget"}
Stopping  == {"stop", "waitStopped"}
Freeing   == {"boot", "bootDetach", "waitBoot"}
Helping   == {"attHelper", "hMade", "waitHelper", "copy"}
Detaching == {"nextDetach", "detHelper", "waitDetHelper"}
Booting   == {"boot2", "attBoot", "bMade", "waitAttBoot", "pending"}
Powering  == {"startCheck", "start", "waitStart", "power", "softStop", "waitSoftStop", "complete"}
Releasing == {"nextTarget", "detTarget", "waitDetTarget"}
Deleting  == {"terminate", "nextDelete", "delVol"}

Prepare  == Launching \cup Making \cup Sharing \cup Stopping \cup Freeing \cup Helping
Finalize == Detaching \cup Booting \cup Sharing \cup Powering
Cleanup  == Detaching \cup Releasing \cup Deleting

States == {"none", "PROVISIONING", "RUNNING", "STOPPING", "STOPPED", "STARTING", "TERMINATING", "TERMINATED"}

DiskTypeOK ==
  /\ vol \in [Disks -> {"none", "here", "deleted"}] /\ recVol \in [Disks -> BOOLEAN]
  /\ hAtt \in [Disks -> Att] /\ recH \in [Disks -> BOOLEAN]
  /\ tAtt \in [Disks -> Att] /\ recT \in [Disks -> BOOLEAN]

FlagTypeOK ==
  crashes \in Nat /\ recInst \in BOOLEAN /\ started \in BOOLEAN /\ copied \in BOOLEAN /\ incomplete \in BOOLEAN

ThreadTypeOK ==
  /\ inst \in States
  /\ phase \in {"PROVISIONING", "FINALIZING", "FAILED", "CANCELLED", "COMPLETED"}
  /\ mode \in {"prepare", "finalize", "cleanup"}
  /\ i \in 0..N + 1

\* Where the thread is in which of its three runs, and at which disk.
Places ==
  /\ mode = "prepare"  => pc \in Prepare \cup {"off"}
  /\ mode = "finalize" => pc \in Finalize \cup {"off"}
  /\ mode = "cleanup"  => pc \in Cleanup \cup {"off"}
  /\ pc \in {"attHelper", "hMade", "waitHelper", "detHelper", "waitDetHelper", "delVol"} => i \in Disks
  /\ pc \in Making \cup Sharing \cup {"detTarget", "waitDetTarget"} => i \in Data
  /\ pc = "nextTarget" => i >= 1

\* A run that ended says so, and what it may be followed by.
Endings ==
  /\ phase \in {"CANCELLED", "COMPLETED"} => pc = "off"
  /\ phase = "COMPLETED" => mode = "finalize"
  /\ phase = "CANCELLED" => mode = "cleanup"
  /\ mode = "prepare" => ~copied
  /\ mode = "finalize" => copied \/ (pc = "off" /\ putBack)
  /\ RecordKept /\ mode = "cleanup" /\ pc = "off" => phase = "CANCELLED"

\* The power state of the target at each step.
Power ==
  /\ pc \in Making \cup Sharing \cup {"stop", "softStop"} => inst = "RUNNING"
  /\ pc \in Freeing \cup Helping => inst = "STOPPED"
  /\ pc = "start" => inst \notin {"RUNNING", "STARTING"}
  /\ mode = "finalize" /\ pc \in Detaching \cup Booting => ~started
  /\ pc = "power" /\ started => inst = "RUNNING"
  /\ pc \in {"softStop", "waitSoftStop"} => ~startAfter
  /\ (pc = "complete" \/ phase = "COMPLETED") /\ startAfter => inst = "RUNNING"
  /\ copied => inst \notin {"none", "PROVISIONING"}
  /\ mode = "prepare" => inst # "TERMINATING"
  /\ RecordKept /\ mode = "finalize" => inst \in {"STOPPED", "STARTING", "RUNNING", "STOPPING"}

\* What the record says of the instance and the volumes.
Recorded ==
  /\ RecordKept /\ inst # "none" => recInst \/ pc = "launched"
  /\ inst = "none" => \A d \in Disks : vol[d] # "here"
  /\ RecordKept => \A d \in Data : vol[d] = "here" => recVol[d] \/ (pc = "volMade" /\ i = d)
  /\ RecordKept /\ vol[Boot] = "here" => recVol[Boot] \/ tAtt[Boot] = "attached"
  /\ pc \in {"bootDetach", "waitBoot"} \cup Helping \/ copied => recVol[Boot]
  /\ pc = "delVol" => recVol[i]
  /\ inst = "TERMINATED" => ~Live(tAtt[Boot])

\* A data volume that is recorded is there until the cleanup gets to it.
Undeleted ==
  /\ pc = "volMade" => vol[i] = "here"
  /\ RecordKept =>
       \A d \in Data : recVol[d] /\ vol[d] # "here" =>
         mode = "cleanup" /\ (pc = "off" \/ (pc \in {"nextDelete", "delVol"} /\ d < i))

\* What the helper has is recorded, and given up before anything that needs the disks elsewhere.
Helped ==
  /\ \A d \in Disks : recH[d] => hAtt[d] # "none"
  /\ pc = "hMade" => hAtt[i] # "none"
  /\ RecordKept \/ copied \/ (mode = "prepare" /\ pc # "off") =>
       \A d \in Disks : Live(hAtt[d]) => recH[d] \/ (pc = "hMade" /\ i = d)
  /\ pc \in {"detHelper", "waitDetHelper"} => recH[i]
  /\ copied /\ (pc = "detHelper" \/ \E d \in Disks : Live(hAtt[d])) => inst \notin {"STARTING", "RUNNING"}

GivenUp ==
  mode = "finalize" \/ (mode = "cleanup" /\ ~incomplete /\ RecordKept) =>
    /\ pc \in Detaching => \A d \in Disks : d < i => ~Live(hAtt[d])
    /\ pc \notin Detaching \cup {"off"} \/ phase \in {"COMPLETED", "CANCELLED"} => \A d \in Disks : ~Live(hAtt[d])

\* The helper gets the disks in turn.
NotYetHelped ==
  mode = "prepare" =>
    /\ pc \in Prepare \ Helping => \A d \in Disks : hAtt[d] = "none"
    /\ pc = "attHelper" => \A d \in Disks : d >= i => hAtt[d] = "none"
    /\ pc \in {"hMade", "waitHelper"} => \A d \in Disks : d > i => hAtt[d] = "none"

\* The attachments to the target and their records.
Shared ==
  /\ RecordKept => \A d \in Data : Live(tAtt[d]) => recT[d] \/ (pc = "tMade" /\ i = d)
  /\ inst = "PROVISIONING" => \A d \in Disks : ~recT[d]
  /\ pc \in {"attTarget", "tMade"} => ~recT[i]
  /\ pc \in {"detTarget", "waitDetTarget"} => recT[i]
  /\ mode = "prepare" =>
       /\ ~recT[Boot]
       /\ pc \in Launching \cup Making => \A d \in Data : ~recT[d]
       /\ pc \in Sharing => \A d \in Data : d > i => ~recT[d]
  /\ mode = "finalize" /\ pc \in {"waitAttBoot", "pending"} \cup Powering \cup Sharing => recT[Boot]
  /\ pc \in {"power", "softStop", "waitSoftStop", "complete"} => \A d \in Data : recT[d]
  /\ phase = "COMPLETED" => \A d \in Disks : recT[d]

\* As long as attachments hold and no restart comes between, a recorded one lasts until the cleanup.
Lasting ==
  Undisturbed /\ mode # "cleanup" =>
    \A d \in Disks :
      recT[d] \/ (pc = "tMade" /\ i = d) \/ (pc = "bMade" /\ d = Boot) => tAtt[d] \in {"attaching", "attached"}

\* The boot volume is attached to the target, then to none, then to the helper, then to the target again.
BootMoves ==
  /\ mode = "prepare" /\ pc \in Prepare \ (Helping \cup {"launch", "waitBoot"}) /\ inst # "TERMINATED" =>
       tAtt[Boot] = "attached"
  /\ pc \in Helping => ~Live(tAtt[Boot])
  /\ RecordKept /\ copied /\ ~recT[Boot] /\ pc # "bMade" => ~Live(tAtt[Boot])
  /\ pc = "attBoot" => ~recT[Boot]
  /\ RecordKept /\ mode = "finalize" /\ ~recT[Boot] => inst = "STOPPED"

\* What the cleanup has released and deleted, as long as it met no failure.
Released ==
  mode = "cleanup" /\ ~incomplete /\ RecordKept =>
    /\ pc \in Releasing => \A d \in Data : d < i => ~Live(tAtt[d])
    /\ pc \in Deleting => \A d \in Data : ~Live(tAtt[d])

Deleted ==
  mode = "cleanup" /\ ~incomplete /\ RecordKept /\ (pc \in {"nextDelete", "delVol"} \/ phase = "CANCELLED") =>
    /\ inst \in {"none", "TERMINATING", "TERMINATED"}
    /\ \A d \in Disks :
         vol[d] = "here" /\ (d < i \/ phase = "CANCELLED") => d = Boot /\ inst = "TERMINATING" /\ ~recVol[Boot]

\* Without faults no wait ends before what it waits for has come about.
Settling ==
  faults = {} =>
    /\ inst = "STOPPING" => pc \in {"waitStopped", "waitSoftStop"}
    /\ mode = "finalize" /\ recT[Boot] /\ pc # "waitAttBoot" => tAtt[Boot] = "attached"

Welcome ==
  faults = {} => refused \subseteq {<<"terminate", d>> : d \in 0..N + 1} \cup {<<"delVol", Boot>>}

\* A cancel request under way, and what the document it read may say.
RequestTypeOK ==
  /\ cancel \in {"none", "read", "asked"} /\ putBack \in BOOLEAN
  /\ doc \in [inst : BOOLEAN, vol : [Disks -> BOOLEAN], h : [Disks -> BOOLEAN], t : [Disks -> BOOLEAN],
              copied : BOOLEAN, phase : {"PROVISIONING", "FINALIZING", "FAILED"}]

Requested ==
  /\ cancel # "none" => "lateCancel" \in faults
  /\ faults = {} => RecordKept
  /\ doc.copied => copied /\ mode # "prepare" /\ doc.vol[Boot] /\ \A d \in Disks : Live(hAtt[d]) \/ recH[d] => doc.h[d]
  /\ \A d \in Disks : (doc.h[d] => hAtt[d] # "none") /\ (doc.t[d] => recT[d])

ProvisionInv ==
  /\ DiskTypeOK /\ FlagTypeOK /\ ThreadTypeOK /\ Places /\ Endings /\ Power /\ Recorded /\ Undeleted
  /\ Helped /\ GivenUp /\ NotYetHelped
  /\ Shared /\ Lasting /\ BootMoves /\ Released /\ Deleted /\ Settling /\ Welcome
  /\ RequestTypeOK /\ Requested

-----------------------------------------------------------------------------
(* The steps                                                                *)

USE ParamAssumption
USE DEF Disks, Data, Boot, Live, RecordKept, request, Goto, At, Only, Done, Record, Accepted, Enter, oci, rec, ends,
    fixed, outer,
  Launching, Making, Sharing, Stopping, Freeing, Helping, Detaching, Booting, Powering, Releasing, Deleting,
  Prepare, Finalize, Cleanup
USE DEF ProvisionInv, DiskTypeOK, FlagTypeOK, ThreadTypeOK, Places, Endings

\* The target is launched.
LEMMA LaunchSteps ==
  ASSUME ProvisionInv, Launch \/ SaveInstance \/ InstanceRunning
  PROVE  ProvisionInv'
<1> USE DEF Launch, SaveInstance, InstanceRunning
<1>1. DiskTypeOK'
  BY DEF Att, States
<1>2. FlagTypeOK'
  OBVIOUS
<1>3. ThreadTypeOK'
  BY DEF States
<1>4. Places'
  OBVIOUS
<1>5. Endings'
  OBVIOUS
<1>6. Power'
  BY DEF Power, Shared, BootMoves, States
<1>7. Recorded'
  BY DEF Recorded, Power, Shared, BootMoves, States, Att
<1>8. Undeleted'
  BY DEF Undeleted, Recorded
<1>9. Helped'
  BY DEF Helped, Power, NotYetHelped, GivenUp, Att
<1>10. GivenUp'
  BY DEF GivenUp, Helped, Att
<1>11. NotYetHelped'
  BY DEF NotYetHelped, Att
<1>12. Shared'
  BY DEF Shared, Power, Att
<1>13. Lasting'
  BY DEF Lasting, Power, Shared, BootMoves, Att, Undisturbed
<1>14. BootMoves'
  BY DEF BootMoves, Power, Shared, Att
<1>15. Released'
  BY DEF Released, Shared, Att
<1>16. Deleted'
  BY DEF Deleted, Recorded
<1>17. Settling'
  BY DEF Settling, Power, Shared, BootMoves, Lasting, Att, Undisturbed
<1>18. Welcome'
  BY DEF Welcome
<1>19. RequestTypeOK' /\ Requested'
  <2>1. RequestTypeOK'
    BY DEF RequestTypeOK
  <2>2. Requested'
    BY DEF RequestTypeOK, Requested, NotYetHelped, Shared, Helped, Att
  <2> QED
    BY <2>1, <2>2
<1> QED
  BY <1>1, <1>2, <1>3, <1>4, <1>5, <1>6, <1>7, <1>8, <1>9, <1>10, <1>11, <1>12, <1>13, <1>14, <1>15, <1>16, <1>17, <1>18,
     <1>19

\* The volumes are made, and the target shares them where it can.
LEMMA VolumeSteps ==
  ASSUME ProvisionInv, CreateVolume \/ SaveVolume
  PROVE  ProvisionInv'
<1> USE DEF CreateVolume, SaveVolume
<1>1. DiskTypeOK'
  BY DEF Att, States
<1>2. FlagTypeOK'
  OBVIOUS
<1>3. ThreadTypeOK'
  BY DEF States
<1>4. Places'
  OBVIOUS
<1>5. Endings'
  OBVIOUS
<1>6. Power'
  BY DEF Power, Shared, BootMoves, States
<1>7. Recorded'
  <2>1. CASE CreateVolume
    BY <2>1 DEF Recorded, Power, Shared, BootMoves, States, Att
  <2>2. CASE SaveVolume
    BY <2>2 DEF Recorded, Power, Shared, BootMoves, States, Att
  <2> QED
    BY <2>1, <2>2
<1>8. Undeleted'
  <2>1. CASE CreateVolume
    BY <2>1 DEF Undeleted, Recorded
  <2>2. CASE SaveVolume
    BY <2>2 DEF Undeleted, Recorded
  <2> QED
    BY <2>1, <2>2
<1>9. Helped'
  BY DEF Helped, Power, NotYetHelped, GivenUp, Att
<1>10. GivenUp'
  BY DEF GivenUp, Helped, Att
<1>11. NotYetHelped'
  BY DEF NotYetHelped, Att
<1>12. Shared'
  <2>1. CASE CreateVolume
    BY <2>1 DEF Shared, Power, Att
  <2>2. CASE SaveVolume
    BY <2>2 DEF Shared, Power, Att
  <2> QED
    BY <2>1, <2>2
<1>13. Lasting'
  BY DEF Lasting, Power, Shared, BootMoves, Att, Undisturbed
<1>14. BootMoves'
  BY DEF BootMoves, Power, Shared, Att
<1>15. Released'
  BY DEF Released, Shared, Att
<1>16. Deleted'
  BY DEF Deleted, Recorded
<1>17. Settling'
  BY DEF Settling, Power, Shared, BootMoves, Lasting, Att, Undisturbed
<1>18. Welcome'
  BY DEF Welcome
<1>19. RequestTypeOK' /\ Requested'
  <2>1. RequestTypeOK'
    BY DEF RequestTypeOK
  <2>2. Requested'
    BY DEF RequestTypeOK, Requested, NotYetHelped, Shared, Helped, Att
  <2> QED
    BY <2>1, <2>2
<1> QED
  BY <1>1, <1>2, <1>3, <1>4, <1>5, <1>6, <1>7, <1>8, <1>9, <1>10, <1>11, <1>12, <1>13, <1>14, <1>15, <1>16, <1>17, <1>18,
     <1>19

\* A data volume is attached to the target, in prepare or in finalize.
LEMMA ShareSteps ==
  ASSUME ProvisionInv, AttachTarget \/ SaveTarget \/ TargetAttached
  PROVE  ProvisionInv'
<1> USE DEF AttachTarget, SaveTarget, TargetAttached, OciAccepts, NextPending, Pending
<1>1. DiskTypeOK'
  BY DEF Att, States
<1>2. FlagTypeOK'
  OBVIOUS
<1>3. ThreadTypeOK'
  BY DEF States
<1>4. Places'
  OBVIOUS
<1>5. Endings'
  OBVIOUS
<1>6. Power'
  BY DEF Power, Shared, BootMoves, States
<1>7. Recorded'
  <2>1. CASE AttachTarget
    BY <2>1 DEF Recorded, Power, Shared, BootMoves, States, Att
  <2>2. CASE SaveTarget
    BY <2>2 DEF Recorded, Power, Shared, BootMoves, States, Att
  <2>3. CASE TargetAttached
    BY <2>3 DEF Recorded, Power, Shared, BootMoves, States, Att
  <2> QED
    BY <2>1, <2>2, <2>3
<1>8. Undeleted'
  BY DEF Undeleted, Recorded
<1>9. Helped'
  BY DEF Helped, Power, NotYetHelped, GivenUp, Att
<1>10. GivenUp'
  BY DEF GivenUp, Helped, Att
<1>11. NotYetHelped'
  BY DEF NotYetHelped, Att
<1>12. Shared'
  <2>1. CASE AttachTarget
    BY <2>1 DEF Shared, Power, Att
  <2>2. CASE SaveTarget
    BY <2>2 DEF Shared, Power, Att
  <2>3. CASE TargetAttached
    BY <2>3 DEF Shared, Power, Att
  <2> QED
    BY <2>1, <2>2, <2>3
<1>13. Lasting'
  <2>1. CASE AttachTarget
    BY <2>1 DEF Lasting, Power, Shared, BootMoves, Att, Undisturbed
  <2>2. CASE SaveTarget
    BY <2>2 DEF Lasting, Power, Shared, BootMoves, Att, Undisturbed
  <2>3. CASE TargetAttached
    BY <2>3 DEF Lasting, Power, Shared, BootMoves, Att, Undisturbed
  <2> QED
    BY <2>1, <2>2, <2>3
<1>14. BootMoves'
  BY DEF BootMoves, Power, Shared, Att
<1>15. Released'
  BY DEF Released, Shared, Att
<1>16. Deleted'
  BY DEF Deleted, Recorded
<1>17. Settling'
  <2>1. CASE AttachTarget
    BY <2>1 DEF Settling, Power, Shared, BootMoves, Lasting, Att, Undisturbed
  <2>2. CASE SaveTarget
    BY <2>2 DEF Settling, Power, Shared, BootMoves, Lasting, Att, Undisturbed
  <2>3. CASE TargetAttached
    BY <2>3 DEF Settling, Power, Shared, BootMoves, Lasting, Att, Undisturbed
  <2> QED
    BY <2>1, <2>2, <2>3
<1>18. Welcome'
  BY DEF Welcome
<1>19. RequestTypeOK' /\ Requested'
  <2>1. RequestTypeOK'
    BY DEF RequestTypeOK
  <2>2. Requested'
    <3>1. CASE AttachTarget
      BY <3>1 DEF RequestTypeOK, Requested, NotYetHelped, Shared, Helped, Att
    <3>2. CASE SaveTarget
      BY <3>2 DEF RequestTypeOK, Requested, NotYetHelped, Shared, Helped, Att
    <3>3. CASE TargetAttached
      BY <3>3 DEF RequestTypeOK, Requested, NotYetHelped, Shared, Helped, Att
    <3> QED
      BY <3>1, <3>2, <3>3
  <2> QED
    BY <2>1, <2>2
<1> QED
  BY <1>1, <1>2, <1>3, <1>4, <1>5, <1>6, <1>7, <1>8, <1>9, <1>10, <1>11, <1>12, <1>13, <1>14, <1>15, <1>16, <1>17, <1>18,
     <1>19

\* The target is stopped.
LEMMA StopSteps ==
  ASSUME ProvisionInv, StopInstance \/ InstanceStopped \/ SaveBoot
  PROVE  ProvisionInv'
<1> USE DEF StopInstance, InstanceStopped, SaveBoot, OciAccepts
<1>1. DiskTypeOK'
  BY DEF Att, States
<1>2. FlagTypeOK'
  OBVIOUS
<1>3. ThreadTypeOK'
  BY DEF States
<1>4. Places'
  OBVIOUS
<1>5. Endings'
  OBVIOUS
<1>6. Power'
  BY DEF Power, Shared, BootMoves, States
<1>7. Recorded'
  <2>1. CASE StopInstance
    BY <2>1 DEF Recorded, Power, Shared, BootMoves, States, Att
  <2>2. CASE InstanceStopped
    BY <2>2 DEF Recorded, Power, Shared, BootMoves, States, Att
  <2>3. CASE SaveBoot
    BY <2>3 DEF Recorded, Power, Shared, BootMoves, States, Att
  <2> QED
    BY <2>1, <2>2, <2>3
<1>8. Undeleted'
  <2>1. CASE StopInstance
    BY <2>1 DEF Undeleted, Recorded
  <2>2. CASE InstanceStopped
    BY <2>2 DEF Undeleted, Recorded
  <2>3. CASE SaveBoot
    BY <2>3 DEF Undeleted, Recorded
  <2> QED
    BY <2>1, <2>2, <2>3
<1>9. Helped'
  BY DEF Helped, Power, NotYetHelped, GivenUp, Att
<1>10. GivenUp'
  BY DEF GivenUp, Helped, Att
<1>11. NotYetHelped'
  BY DEF NotYetHelped, Att
<1>12. Shared'
  BY DEF Shared, Power, Att
<1>13. Lasting'
  BY DEF Lasting, Power, Shared, BootMoves, Att, Undisturbed
<1>14. BootMoves'
  BY DEF BootMoves, Power, Shared, Att
<1>15. Released'
  BY DEF Released, Shared, Att
<1>16. Deleted'
  BY DEF Deleted, Recorded
<1>17. Settling'
  BY DEF Settling, Power, Shared, BootMoves, Lasting, Att, Undisturbed
<1>18. Welcome'
  BY DEF Welcome
<1>19. RequestTypeOK' /\ Requested'
  <2>1. RequestTypeOK'
    BY DEF RequestTypeOK
  <2>2. Requested'
    BY DEF RequestTypeOK, Requested, NotYetHelped, Shared, Helped, Att
  <2> QED
    BY <2>1, <2>2
<1> QED
  BY <1>1, <1>2, <1>3, <1>4, <1>5, <1>6, <1>7, <1>8, <1>9, <1>10, <1>11, <1>12, <1>13, <1>14, <1>15, <1>16, <1>17, <1>18,
     <1>19

\* The boot volume is detached from it.
LEMMA FreeSteps ==
  ASSUME ProvisionInv, DetachBoot \/ BootDetached
  PROVE  ProvisionInv'
<1> USE DEF DetachBoot, BootDetached, OciAccepts
<1>1. DiskTypeOK'
  BY DEF Att, States
<1>2. FlagTypeOK'
  OBVIOUS
<1>3. ThreadTypeOK'
  BY DEF States
<1>4. Places'
  OBVIOUS
<1>5. Endings'
  OBVIOUS
<1>6. Power'
  BY DEF Power, Shared, BootMoves, States
<1>7. Recorded'
  BY DEF Recorded, Power, Shared, BootMoves, States, Att
<1>8. Undeleted'
  BY DEF Undeleted, Recorded
<1>9. Helped'
  BY DEF Helped, Power, NotYetHelped, GivenUp, Att
<1>10. GivenUp'
  BY DEF GivenUp, Helped, Att
<1>11. NotYetHelped'
  BY DEF NotYetHelped, Att
<1>12. Shared'
  BY DEF Shared, Power, Att
<1>13. Lasting'
  BY DEF Lasting, Power, Shared, BootMoves, Att, Undisturbed
<1>14. BootMoves'
  BY DEF BootMoves, Power, Shared, Att
<1>15. Released'
  BY DEF Released, Shared, Att
<1>16. Deleted'
  BY DEF Deleted, Recorded
<1>17. Settling'
  BY DEF Settling, Power, Shared, BootMoves, Lasting, Att, Undisturbed
<1>18. Welcome'
  BY DEF Welcome
<1>19. RequestTypeOK' /\ Requested'
  <2>1. RequestTypeOK'
    BY DEF RequestTypeOK
  <2>2. Requested'
    BY DEF RequestTypeOK, Requested, NotYetHelped, Shared, Helped, Att
  <2> QED
    BY <2>1, <2>2
<1> QED
  BY <1>1, <1>2, <1>3, <1>4, <1>5, <1>6, <1>7, <1>8, <1>9, <1>10, <1>11, <1>12, <1>13, <1>14, <1>15, <1>16, <1>17, <1>18,
     <1>19

\* The disks are attached to the helper in turn.
LEMMA HelpSteps ==
  ASSUME ProvisionInv, AttachHelper \/ SaveHelper \/ HelperAttached
  PROVE  ProvisionInv'
<1> USE DEF AttachHelper, SaveHelper, HelperAttached, OciAccepts
<1>1. DiskTypeOK'
  BY DEF Att, States
<1>2. FlagTypeOK'
  OBVIOUS
<1>3. ThreadTypeOK'
  BY DEF States
<1>4. Places'
  OBVIOUS
<1>5. Endings'
  OBVIOUS
<1>6. Power'
  BY DEF Power, Shared, BootMoves, States
<1>7. Recorded'
  BY DEF Recorded, Power, Shared, BootMoves, States, Att
<1>8. Undeleted'
  BY DEF Undeleted, Recorded
<1>9. Helped'
  <2>1. CASE AttachHelper
    BY <2>1 DEF Helped, Power, NotYetHelped, GivenUp, Att
  <2>2. CASE SaveHelper
    BY <2>2 DEF Helped, Power, NotYetHelped, GivenUp, Att
  <2>3. CASE HelperAttached
    BY <2>3 DEF Helped, Power, NotYetHelped, GivenUp, Att
  <2> QED
    BY <2>1, <2>2, <2>3
<1>10. GivenUp'
  BY DEF GivenUp, Helped, Att
<1>11. NotYetHelped'
  <2>1. CASE AttachHelper
    BY <2>1 DEF NotYetHelped, Att
  <2>2. CASE SaveHelper
    BY <2>2 DEF NotYetHelped, Att
  <2>3. CASE HelperAttached
    BY <2>3 DEF NotYetHelped, Att
  <2> QED
    BY <2>1, <2>2, <2>3
<1>12. Shared'
  BY DEF Shared, Power, Att
<1>13. Lasting'
  BY DEF Lasting, Power, Shared, BootMoves, Att, Undisturbed
<1>14. BootMoves'
  BY DEF BootMoves, Power, Shared, Att
<1>15. Released'
  BY DEF Released, Shared, Att
<1>16. Deleted'
  BY DEF Deleted, Recorded
<1>17. Settling'
  BY DEF Settling, Power, Shared, BootMoves, Lasting, Att, Undisturbed
<1>18. Welcome'
  BY DEF Welcome
<1>19. RequestTypeOK' /\ Requested'
  <2>1. RequestTypeOK'
    BY DEF RequestTypeOK
  <2>2. Requested'
    BY DEF RequestTypeOK, Requested, NotYetHelped, Shared, Helped, Att
  <2> QED
    BY <2>1, <2>2
<1> QED
  BY <1>1, <1>2, <1>3, <1>4, <1>5, <1>6, <1>7, <1>8, <1>9, <1>10, <1>11, <1>12, <1>13, <1>14, <1>15, <1>16, <1>17, <1>18,
     <1>19

\* Finalize begins, after the copy or by a retry.
LEMMA CopySteps ==
  ASSUME ProvisionInv, CopyDisks \/ ResumeFinalize
  PROVE  ProvisionInv'
<1> USE DEF CopyDisks, ResumeFinalize
<1>1. DiskTypeOK'
  BY DEF Att, States
<1>2. FlagTypeOK'
  OBVIOUS
<1>3. ThreadTypeOK'
  BY DEF States
<1>4. Places'
  OBVIOUS
<1>5. Endings'
  OBVIOUS
<1>6. Power'
  BY DEF Power, Shared, BootMoves, States
<1>7. Recorded'
  BY DEF Recorded, Power, Shared, BootMoves, States, Att
<1>8. Undeleted'
  BY DEF Undeleted, Recorded
<1>9. Helped'
  BY DEF Helped, Power, NotYetHelped, GivenUp, Att
<1>10. GivenUp'
  BY DEF GivenUp, Helped, Att
<1>11. NotYetHelped'
  BY DEF NotYetHelped, Att
<1>12. Shared'
  BY DEF Shared, Power, Att
<1>13. Lasting'
  <2>1. CASE CopyDisks
    BY <2>1 DEF Lasting, Power, Shared, BootMoves, Att, Undisturbed
  <2>2. CASE ResumeFinalize
    BY <2>2 DEF Lasting, Power, Shared, BootMoves, Att, Undisturbed
  <2> QED
    BY <2>1, <2>2
<1>14. BootMoves'
  BY DEF BootMoves, Power, Shared, Att
<1>15. Released'
  BY DEF Released, Shared, Att
<1>16. Deleted'
  BY DEF Deleted, Recorded
<1>17. Settling'
  <2>1. CASE CopyDisks
    BY <2>1 DEF Settling, Power, Shared, BootMoves, Lasting, Att, Undisturbed
  <2>2. CASE ResumeFinalize
    BY <2>2 DEF Settling, Requested
  <2> QED
    BY <2>1, <2>2
<1>18. Welcome'
  BY DEF Welcome
<1>19. RequestTypeOK' /\ Requested'
  <2>1. RequestTypeOK'
    BY DEF RequestTypeOK
  <2>2. Requested'
    BY DEF RequestTypeOK, Requested, NotYetHelped, Shared, Helped, Att
  <2> QED
    BY <2>1, <2>2
<1> QED
  BY <1>1, <1>2, <1>3, <1>4, <1>5, <1>6, <1>7, <1>8, <1>9, <1>10, <1>11, <1>12, <1>13, <1>14, <1>15, <1>16, <1>17, <1>18,
     <1>19

\* The helper gives the disks up, in finalize or in cleanup.
LEMMA DetachSteps ==
  ASSUME ProvisionInv, NextDetach \/ DetachHelper \/ HelperDetached
  PROVE  ProvisionInv'
<1> USE DEF NextDetach, DetachHelper, HelperDetached, AfterDetach
<1>1. DiskTypeOK'
  BY DEF Att, States
<1>2. FlagTypeOK'
  OBVIOUS
<1>3. ThreadTypeOK'
  BY DEF States
<1>4. Places'
  OBVIOUS
<1>5. Endings'
  OBVIOUS
<1>6. Power'
  BY DEF Power, Shared, BootMoves, States
<1>7. Recorded'
  <2>1. CASE NextDetach
    BY <2>1 DEF Recorded, Power, Shared, BootMoves, States, Att
  <2>2. CASE DetachHelper
    BY <2>2 DEF Recorded, Power, Shared, BootMoves, States, Att
  <2>3. CASE HelperDetached
    BY <2>3 DEF Recorded, Power, Shared, BootMoves, States, Att
  <2> QED
    BY <2>1, <2>2, <2>3
<1>8. Undeleted'
  BY DEF Undeleted, Recorded
<1>9. Helped'
  <2>1. CASE NextDetach
    BY <2>1 DEF Helped, Power, NotYetHelped, GivenUp, Att
  <2>2. CASE DetachHelper
    BY <2>2 DEF Helped, Power, NotYetHelped, GivenUp, Att
  <2>3. CASE HelperDetached
    BY <2>3 DEF Helped, Power, NotYetHelped, GivenUp, Att
  <2> QED
    BY <2>1, <2>2, <2>3
<1>10. GivenUp'
  BY DEF GivenUp, Helped, Att
<1>11. NotYetHelped'
  BY DEF NotYetHelped, Att
<1>12. Shared'
  <2>1. CASE NextDetach
    BY <2>1 DEF Shared, Power, Att
  <2>2. CASE DetachHelper
    BY <2>2 DEF Shared, Power, Att
  <2>3. CASE HelperDetached
    BY <2>3 DEF Shared, Power, Att
  <2> QED
    BY <2>1, <2>2, <2>3
<1>13. Lasting'
  BY DEF Lasting, Power, Shared, BootMoves, Att, Undisturbed
<1>14. BootMoves'
  BY DEF BootMoves, Power, Shared, Att
<1>15. Released'
  BY DEF Released, Shared, Att
<1>16. Deleted'
  BY DEF Deleted, Recorded
<1>17. Settling'
  BY DEF Settling, Power, Shared, BootMoves, Lasting, Att, Undisturbed
<1>18. Welcome'
  BY DEF Welcome
<1>19. RequestTypeOK' /\ Requested'
  <2>1. RequestTypeOK'
    BY DEF RequestTypeOK
  <2>2. Requested'
    <3>1. CASE NextDetach
      BY <3>1 DEF RequestTypeOK, Requested, NotYetHelped, Shared, Helped, Att
    <3>2. CASE DetachHelper
      BY <3>2 DEF RequestTypeOK, Requested, NotYetHelped, Shared, Helped, Att
    <3>3. CASE HelperDetached
      BY <3>3 DEF RequestTypeOK, Requested, NotYetHelped, Shared, Helped, Att
    <3> QED
      BY <3>1, <3>2, <3>3
  <2> QED
    BY <2>1, <2>2
<1> QED
  BY <1>1, <1>2, <1>3, <1>4, <1>5, <1>6, <1>7, <1>8, <1>9, <1>10, <1>11, <1>12, <1>13, <1>14, <1>15, <1>16, <1>17, <1>18,
     <1>19

\* The boot volume returns to the target.
LEMMA BootSteps ==
  ASSUME ProvisionInv, ChooseBoot \/ AttachBoot \/ SaveBootAttachment \/ BootAttached \/ ChoosePending
  PROVE  ProvisionInv'
<1> USE DEF ChooseBoot, AttachBoot, SaveBootAttachment, BootAttached, ChoosePending, OciAccepts, Pending
<1>1. DiskTypeOK'
  BY DEF Att, States
<1>2. FlagTypeOK'
  OBVIOUS
<1>3. ThreadTypeOK'
  BY DEF States
<1>4. Places'
  OBVIOUS
<1>5. Endings'
  OBVIOUS
<1>6. Power'
  BY DEF Power, Shared, BootMoves, States
<1>7. Recorded'
  BY DEF Recorded, Power, Shared, BootMoves, States, Att
<1>8. Undeleted'
  BY DEF Undeleted, Recorded
<1>9. Helped'
  BY DEF Helped, Power, NotYetHelped, GivenUp, Att
<1>10. GivenUp'
  BY DEF GivenUp, Helped, Att
<1>11. NotYetHelped'
  BY DEF NotYetHelped, Att
<1>12. Shared'
  <2>1. CASE ChooseBoot
    BY <2>1 DEF Shared, Power, Att
  <2>2. CASE AttachBoot
    BY <2>2 DEF Shared, Power, Att
  <2>3. CASE SaveBootAttachment
    BY <2>3 DEF Shared, Power, Att
  <2>4. CASE BootAttached
    BY <2>4 DEF Shared, Power, Att
  <2>5. CASE ChoosePending
    BY <2>5 DEF Shared, Power, Att
  <2> QED
    BY <2>1, <2>2, <2>3, <2>4, <2>5
<1>13. Lasting'
  BY DEF Lasting, Power, Shared, BootMoves, Att, Undisturbed
<1>14. BootMoves'
  BY DEF BootMoves, Power, Shared, Att
<1>15. Released'
  BY DEF Released, Shared, Att
<1>16. Deleted'
  BY DEF Deleted, Recorded
<1>17. Settling'
  BY DEF Settling, Power, Shared, BootMoves, Lasting, Att, Undisturbed
<1>18. Welcome'
  BY DEF Welcome
<1>19. RequestTypeOK' /\ Requested'
  <2>1. RequestTypeOK'
    BY DEF RequestTypeOK
  <2>2. Requested'
    <3>1. CASE ChooseBoot
      BY <3>1 DEF RequestTypeOK, Requested, NotYetHelped, Shared, Helped, Att
    <3>2. CASE AttachBoot
      BY <3>2 DEF RequestTypeOK, Requested, NotYetHelped, Shared, Helped, Att
    <3>3. CASE SaveBootAttachment
      BY <3>3 DEF RequestTypeOK, Requested, NotYetHelped, Shared, Helped, Att
    <3>4. CASE BootAttached
      BY <3>4 DEF RequestTypeOK, Requested, NotYetHelped, Shared, Helped, Att
    <3>5. CASE ChoosePending
      BY <3>5 DEF RequestTypeOK, Requested, NotYetHelped, Shared, Helped, Att
    <3> QED
      BY <3>1, <3>2, <3>3, <3>4, <3>5
  <2> QED
    BY <2>1, <2>2
<1> QED
  BY <1>1, <1>2, <1>3, <1>4, <1>5, <1>6, <1>7, <1>8, <1>9, <1>10, <1>11, <1>12, <1>13, <1>14, <1>15, <1>16, <1>17, <1>18,
     <1>19

\* The target is started.
LEMMA StartSteps ==
  ASSUME ProvisionInv, StartCheck \/ StartInstance \/ InstanceStarted
  PROVE  ProvisionInv'
<1> USE DEF StartCheck, StartInstance, InstanceStarted, AfterStart, NextPending, Pending, OciAccepts
<1>1. DiskTypeOK'
  BY DEF Att, States
<1>2. FlagTypeOK'
  OBVIOUS
<1>3. ThreadTypeOK'
  BY DEF States
<1>4. Places'
  OBVIOUS
<1>5. Endings'
  OBVIOUS
<1>6. Power'
  BY DEF Power, Shared, BootMoves, States
<1>7. Recorded'
  <2>1. CASE StartCheck
    BY <2>1 DEF Recorded, Power, Shared, BootMoves, States, Att
  <2>2. CASE StartInstance
    BY <2>2 DEF Recorded, Power, Shared, BootMoves, States, Att
  <2>3. CASE InstanceStarted
    BY <2>3 DEF Recorded, Power, Shared, BootMoves, States, Att
  <2> QED
    BY <2>1, <2>2, <2>3
<1>8. Undeleted'
  BY DEF Undeleted, Recorded
<1>9. Helped'
  BY DEF Helped, Power, NotYetHelped, GivenUp, Att
<1>10. GivenUp'
  BY DEF GivenUp, Helped, Att
<1>11. NotYetHelped'
  BY DEF NotYetHelped, Att
<1>12. Shared'
  <2>1. CASE StartCheck
    BY <2>1 DEF Shared, Power, Att
  <2>2. CASE StartInstance
    BY <2>2 DEF Shared, Power, Att
  <2>3. CASE InstanceStarted
    BY <2>3 DEF Shared, Power, Att
  <2> QED
    BY <2>1, <2>2, <2>3
<1>13. Lasting'
  BY DEF Lasting, Power, Shared, BootMoves, Att, Undisturbed
<1>14. BootMoves'
  BY DEF BootMoves, Power, Shared, Att
<1>15. Released'
  BY DEF Released, Shared, Att
<1>16. Deleted'
  BY DEF Deleted, Recorded
<1>17. Settling'
  BY DEF Settling, Power, Shared, BootMoves, Lasting, Att, Undisturbed
<1>18. Welcome'
  BY DEF Welcome
<1>19. RequestTypeOK' /\ Requested'
  <2>1. RequestTypeOK'
    BY DEF RequestTypeOK
  <2>2. Requested'
    BY DEF RequestTypeOK, Requested, NotYetHelped, Shared, Helped, Att
  <2> QED
    BY <2>1, <2>2
<1> QED
  BY <1>1, <1>2, <1>3, <1>4, <1>5, <1>6, <1>7, <1>8, <1>9, <1>10, <1>11, <1>12, <1>13, <1>14, <1>15, <1>16, <1>17, <1>18,
     <1>19

\* It is left as the user asked.
LEMMA PowerSteps ==
  ASSUME ProvisionInv, ChoosePower \/ SoftStop \/ SoftStopped \/ Complete
  PROVE  ProvisionInv'
<1> USE DEF ChoosePower, SoftStop, SoftStopped, Complete, OciAccepts
<1>1. DiskTypeOK'
  BY DEF Att, States
<1>2. FlagTypeOK'
  OBVIOUS
<1>3. ThreadTypeOK'
  BY DEF States
<1>4. Places'
  OBVIOUS
<1>5. Endings'
  OBVIOUS
<1>6. Power'
  BY DEF Power, Shared, BootMoves, States
<1>7. Recorded'
  BY DEF Recorded, Power, Shared, BootMoves, States, Att
<1>8. Undeleted'
  BY DEF Undeleted, Recorded
<1>9. Helped'
  BY DEF Helped, Power, NotYetHelped, GivenUp, Att
<1>10. GivenUp'
  BY DEF GivenUp, Helped, Att
<1>11. NotYetHelped'
  BY DEF NotYetHelped, Att
<1>12. Shared'
  BY DEF Shared, Power, Att
<1>13. Lasting'
  BY DEF Lasting, Power, Shared, BootMoves, Att, Undisturbed
<1>14. BootMoves'
  BY DEF BootMoves, Power, Shared, Att
<1>15. Released'
  BY DEF Released, Shared, Att
<1>16. Deleted'
  BY DEF Deleted, Recorded
<1>17. Settling'
  BY DEF Settling, Power, Shared, BootMoves, Lasting, Att, Undisturbed
<1>18. Welcome'
  BY DEF Welcome
<1>19. RequestTypeOK' /\ Requested'
  <2>1. RequestTypeOK'
    BY DEF RequestTypeOK
  <2>2. Requested'
    BY DEF RequestTypeOK, Requested, NotYetHelped, Shared, Helped, Att
  <2> QED
    BY <2>1, <2>2
<1> QED
  BY <1>1, <1>2, <1>3, <1>4, <1>5, <1>6, <1>7, <1>8, <1>9, <1>10, <1>11, <1>12, <1>13, <1>14, <1>15, <1>16, <1>17, <1>18,
     <1>19

\* Cleanup releases the data volumes from the target.
LEMMA ReleaseSteps ==
  ASSUME ProvisionInv, NextTarget \/ DetachTarget \/ TargetDetached
  PROVE  ProvisionInv'
<1> USE DEF NextTarget, DetachTarget, TargetDetached
<1>1. DiskTypeOK'
  BY DEF Att, States
<1>2. FlagTypeOK'
  OBVIOUS
<1>3. ThreadTypeOK'
  BY DEF States
<1>4. Places'
  OBVIOUS
<1>5. Endings'
  OBVIOUS
<1>6. Power'
  BY DEF Power, Shared, BootMoves, States
<1>7. Recorded'
  BY DEF Recorded, Power, Shared, BootMoves, States, Att
<1>8. Undeleted'
  BY DEF Undeleted, Recorded
<1>9. Helped'
  BY DEF Helped, Power, NotYetHelped, GivenUp, Att
<1>10. GivenUp'
  BY DEF GivenUp, Helped, Att
<1>11. NotYetHelped'
  BY DEF NotYetHelped, Att
<1>12. Shared'
  BY DEF Shared, Power, Att
<1>13. Lasting'
  BY DEF Lasting, Power, Shared, BootMoves, Att, Undisturbed
<1>14. BootMoves'
  BY DEF BootMoves, Power, Shared, Att
<1>15. Released'
  <2>1. CASE NextTarget
    BY <2>1 DEF Released, Shared, Att
  <2>2. CASE DetachTarget
    BY <2>2 DEF Released, Shared, Att
  <2>3. CASE TargetDetached
    BY <2>3 DEF Released, Shared, Att
  <2> QED
    BY <2>1, <2>2, <2>3
<1>16. Deleted'
  BY DEF Deleted, Recorded
<1>17. Settling'
  BY DEF Settling, Power, Shared, BootMoves, Lasting, Att, Undisturbed
<1>18. Welcome'
  BY DEF Welcome
<1>19. RequestTypeOK' /\ Requested'
  <2>1. RequestTypeOK'
    BY DEF RequestTypeOK
  <2>2. Requested'
    BY DEF RequestTypeOK, Requested, NotYetHelped, Shared, Helped, Att
  <2> QED
    BY <2>1, <2>2
<1> QED
  BY <1>1, <1>2, <1>3, <1>4, <1>5, <1>6, <1>7, <1>8, <1>9, <1>10, <1>11, <1>12, <1>13, <1>14, <1>15, <1>16, <1>17, <1>18,
     <1>19

\* It terminates the target.
LEMMA TerminateStep ==
  ASSUME ProvisionInv, Terminate
  PROVE  ProvisionInv'
<1> USE DEF Terminate, OciAccepts
<1>1. DiskTypeOK'
  BY DEF Att, States
<1>2. FlagTypeOK'
  OBVIOUS
<1>3. ThreadTypeOK'
  BY DEF States
<1>4. Places'
  OBVIOUS
<1>5. Endings'
  OBVIOUS
<1>6. Power'
  BY DEF Power, Shared, BootMoves, States
<1>7. Recorded'
  BY DEF Recorded, Power, Shared, BootMoves, States, Att
<1>8. Undeleted'
  BY DEF Undeleted, Recorded
<1>9. Helped'
  BY DEF Helped, Power, NotYetHelped, GivenUp, Att
<1>10. GivenUp'
  BY DEF GivenUp, Helped, Att
<1>11. NotYetHelped'
  BY DEF NotYetHelped, Att
<1>12. Shared'
  BY DEF Shared, Power, Att
<1>13. Lasting'
  BY DEF Lasting, Power, Shared, BootMoves, Att, Undisturbed
<1>14. BootMoves'
  BY DEF BootMoves, Power, Shared, Att
<1>15. Released'
  BY DEF Released, Shared, Att
<1>16. Deleted'
  BY DEF Deleted, Recorded
<1>17. Settling'
  BY DEF Settling, Power, Shared, BootMoves, Lasting, Att, Undisturbed
<1>18. Welcome'
  BY DEF Welcome
<1>19. RequestTypeOK' /\ Requested'
  <2>1. RequestTypeOK'
    BY DEF RequestTypeOK
  <2>2. Requested'
    BY DEF RequestTypeOK, Requested, NotYetHelped, Shared, Helped, Att
  <2> QED
    BY <2>1, <2>2
<1> QED
  BY <1>1, <1>2, <1>3, <1>4, <1>5, <1>6, <1>7, <1>8, <1>9, <1>10, <1>11, <1>12, <1>13, <1>14, <1>15, <1>16, <1>17, <1>18,
     <1>19

\* It deletes the volumes.
LEMMA DeleteSteps ==
  ASSUME ProvisionInv, NextDelete \/ DeleteVolume
  PROVE  ProvisionInv'
<1> USE DEF NextDelete, DeleteVolume, OciAccepts
<1>1. DiskTypeOK'
  BY DEF Att, States
<1>2. FlagTypeOK'
  OBVIOUS
<1>3. ThreadTypeOK'
  BY DEF States
<1>4. Places'
  OBVIOUS
<1>5. Endings'
  OBVIOUS
<1>6. Power'
  BY DEF Power, Shared, BootMoves, States
<1>7. Recorded'
  <2>1. CASE NextDelete
    BY <2>1 DEF Recorded, Power, Shared, BootMoves, States, Att
  <2>2. CASE DeleteVolume
    BY <2>2 DEF Recorded, Power, Shared, BootMoves, States, Att
  <2> QED
    BY <2>1, <2>2
<1>8. Undeleted'
  <2>1. CASE NextDelete
    BY <2>1 DEF Undeleted, Recorded
  <2>2. CASE DeleteVolume
    BY <2>2 DEF Undeleted, Recorded
  <2> QED
    BY <2>1, <2>2
<1>9. Helped'
  BY DEF Helped, Power, NotYetHelped, GivenUp, Att
<1>10. GivenUp'
  BY DEF GivenUp, Helped, Att
<1>11. NotYetHelped'
  BY DEF NotYetHelped, Att
<1>12. Shared'
  <2>1. CASE NextDelete
    BY <2>1 DEF Shared, Power, Att
  <2>2. CASE DeleteVolume
    BY <2>2 DEF Shared, Power, Att
  <2> QED
    BY <2>1, <2>2
<1>13. Lasting'
  BY DEF Lasting, Power, Shared, BootMoves, Att, Undisturbed
<1>14. BootMoves'
  BY DEF BootMoves, Power, Shared, Att
<1>15. Released'
  BY DEF Released, Shared, Att
<1>16. Deleted'
  BY DEF Deleted, Recorded
<1>17. Settling'
  BY DEF Settling, Power, Shared, BootMoves, Lasting, Att, Undisturbed
<1>18. Welcome'
  BY DEF Welcome
<1>19. RequestTypeOK' /\ Requested'
  <2>1. RequestTypeOK'
    BY DEF RequestTypeOK
  <2>2. Requested'
    BY DEF RequestTypeOK, Requested, NotYetHelped, Shared, Helped, Att
  <2> QED
    BY <2>1, <2>2
<1> QED
  BY <1>1, <1>2, <1>3, <1>4, <1>5, <1>6, <1>7, <1>8, <1>9, <1>10, <1>11, <1>12, <1>13, <1>14, <1>15, <1>16, <1>17, <1>18,
     <1>19

\* An exception ends prepare and finalize, and takes cleanup to its next attempt.
RunFails == mode # "cleanup" /\ pc' = "off" /\ phase' = "FAILED" /\ UNCHANGED <<i, incomplete>>
NextAttempt ==
  /\ mode = "cleanup" /\ incomplete' = TRUE /\ UNCHANGED phase
  /\ \/ pc \in Detaching /\ pc' = "nextTarget" /\ i' = 1
     \/ pc \in Releasing /\ pc' = "nextTarget" /\ i' = i + 1 /\ i \in Data
     \/ pc = "terminate" /\ pc' = "nextDelete" /\ i' = Boot
     \/ pc = "delVol" /\ pc' = "nextDelete" /\ i' = i + 1 /\ i \in Disks

LEMMA RaiseGoesTo ==
  ASSUME ProvisionInv, Raise, pc \in Calls \cup Waits \/ pc = "copy" \/ Reads
  PROVE  (RunFails \/ NextAttempt) /\ UNCHANGED <<mode, started, copied>>
<1> USE DEF Calls, Waits, Reads
<1>1. CASE mode # "cleanup"
  BY <1>1 DEF Raise, RunFails
<1>2. CASE mode = "cleanup"
  <2>1. /\ incomplete' = TRUE /\ UNCHANGED <<copied, phase>>
        /\ CASE pc \in {"nextDetach", "detHelper", "waitDetHelper"} -> At("nextTarget", 1)
             [] pc \in {"nextTarget", "detTarget", "waitDetTarget"} -> At("nextTarget", i + 1)
             [] pc = "terminate"                                    -> At("nextDelete", Boot)
             [] pc = "delVol"                                       -> At("nextDelete", i + 1)
    BY <1>2 DEF Raise
  <2>2. CASE pc \in Detaching
    BY <1>2, <2>1, <2>2 DEF NextAttempt
  <2>3. CASE pc \in Releasing
    BY <1>2, <2>1, <2>3 DEF NextAttempt
  <2>4. CASE pc \in {"terminate", "delVol"}
    BY <1>2, <2>1, <2>4 DEF NextAttempt
  <2> QED
    BY <1>2, <2>2, <2>3, <2>4
<1> QED
  BY <1>1, <1>2

LEMMA ExceptionStep ==
  ASSUME ProvisionInv, RunFails \/ NextAttempt, UNCHANGED <<mode, started, copied, oci, rec, outer>>,
         pc # "volMade" /\ pc # "launched" /\ pc # "tMade" /\ pc # "bMade" /\ pc # "hMade" /\ pc # "off",
         faults = {} => (pc \in {"waitStopped", "waitSoftStop"} => inst = "TERMINATED") /\ pc # "waitAttBoot",
         Welcome'
  PROVE  ProvisionInv'
<1> USE DEF RunFails, NextAttempt
<1>1. DiskTypeOK'
  BY DEF Att, States
<1>2. FlagTypeOK'
  OBVIOUS
<1>3. ThreadTypeOK'
  BY DEF States
<1>4. Places'
  <2>1. CASE RunFails
    BY <2>1
  <2>2. CASE NextAttempt
    BY <2>2
  <2> QED
    BY <2>1, <2>2
<1>5. Endings'
  OBVIOUS
<1>6. Power'
  BY DEF Power, Shared, BootMoves, States
<1>7. Recorded'
  BY DEF Recorded, Power
<1>8. Undeleted'
  BY DEF Undeleted, Recorded
<1>9. Helped'
  BY DEF Helped
<1>10. GivenUp'
  BY DEF GivenUp
<1>11. NotYetHelped'
  BY DEF NotYetHelped
<1>12. Shared'
  BY DEF Shared
<1>13. Lasting'
  BY DEF Lasting, Undisturbed
<1>14. BootMoves'
  BY DEF BootMoves, Shared
<1>15. Released'
  BY DEF Released
<1>16. Deleted'
  BY DEF Deleted
<1>17. Settling'
  BY DEF Settling, BootMoves
<1>18. RequestTypeOK' /\ Requested'
  BY DEF RequestTypeOK, Requested
<1> QED
  BY <1>1, <1>2, <1>3, <1>4, <1>5, <1>6, <1>7, <1>8, <1>9, <1>10, <1>11, <1>12, <1>13, <1>14, <1>15, <1>16, <1>17, <1>18

LEMMA FailStep == ASSUME ProvisionInv, StepFails PROVE ProvisionInv'
<1>1. /\ pc \in Calls \cup Waits \/ pc = "copy" \/ Reads
      /\ Raise /\ UNCHANGED <<oci, rec, refused, outer>>
      /\ faults = {} => (pc \in {"waitStopped", "waitSoftStop"} => inst = "TERMINATED") /\ pc # "waitAttBoot"
  BY DEF StepFails, Calls, Waits, Reads
<1>2. (RunFails \/ NextAttempt) /\ UNCHANGED <<mode, started, copied>>
  BY <1>1, RaiseGoesTo
<1>3. Welcome'
  BY <1>1 DEF Welcome
<1>4. pc # "volMade" /\ pc # "launched" /\ pc # "tMade" /\ pc # "bMade" /\ pc # "hMade" /\ pc # "off"
  BY <1>1 DEF Calls, Waits, Reads
<1> QED
  BY <1>1, <1>2, <1>3, <1>4, ExceptionStep

\* What OCI may refuse, before anything has failed in the cleanup and without faults.
LEMMA RefusedCall ==
  ASSUME ProvisionInv, pc \in Calls, ~OciAccepts, faults = {}, mode = "cleanup" => ~incomplete
  PROVE  pc = "terminate" \/ (pc = "delVol" /\ i = Boot)
<1> USE DEF Calls, OciAccepts
<1>1. RecordKept
  BY DEF Requested
<1>2. pc # "attTarget"
  BY <1>1 DEF Power, GivenUp, NotYetHelped, Shared
<1>3. pc # "attHelper"
  <2>1. pc = "attHelper" => i \in Disks /\ ~Live(hAtt[i])
    BY DEF NotYetHelped
  <2>2. pc = "attHelper" /\ Live(tAtt[i]) => i # Boot /\ recT[i]
    BY <1>1, <2>1 DEF BootMoves, Shared
  <2> QED
    BY <2>1, <2>2
<1>4. pc # "attBoot"
  BY <1>1 DEF BootMoves, GivenUp
<1>5. pc # "start"
  BY <1>1 DEF Power, Settling, Shared
<1>6. pc # "stop" /\ pc # "softStop"
  BY DEF Power
<1>7. pc # "bootDetach"
  BY DEF Power, BootMoves
<1>8. pc = "delVol" => i = Boot
  BY <1>1 DEF Undeleted, Recorded, GivenUp, Released
<1> QED
  BY <1>2, <1>3, <1>4, <1>5, <1>6, <1>7, <1>8

LEMMA RefuseStep == ASSUME ProvisionInv, Refuse PROVE ProvisionInv'
<1>1. /\ pc \in Calls /\ ~OciAccepts /\ Raise /\ UNCHANGED <<oci, rec, outer>>
      /\ refused' = IF mode = "cleanup" /\ incomplete THEN refused ELSE refused \cup {<<pc, i>>}
  BY DEF Refuse
<1>2. (RunFails \/ NextAttempt) /\ UNCHANGED <<mode, started, copied>>
  BY <1>1, RaiseGoesTo
<1>3. Welcome'
  BY <1>1, RefusedCall DEF Welcome
<1>4. /\ pc # "volMade" /\ pc # "launched" /\ pc # "tMade" /\ pc # "bMade" /\ pc # "hMade" /\ pc # "off"
      /\ pc \notin {"waitStopped", "waitSoftStop"} /\ pc # "waitAttBoot"
  BY <1>1 DEF Calls
<1> QED
  BY <1>1, <1>2, <1>3, <1>4, ExceptionStep

\* A cancelled run turns into its cleanup, a failed job is cleaned up.
LEMMA CancelSteps ==
  ASSUME ProvisionInv, CancelRun \/ CancelFailed
  PROVE  ProvisionInv'
<1> USE DEF CancelRun, CancelFailed, CheckPoints, StartCleanup
<1>1. DiskTypeOK'
  BY DEF Att, States
<1>2. FlagTypeOK'
  OBVIOUS
<1>3. ThreadTypeOK'
  BY DEF States
<1>4. Places'
  OBVIOUS
<1>5. Endings'
  OBVIOUS
<1>6. Power'
  BY DEF Power, Shared, BootMoves, States
<1>7. Recorded'
  BY DEF Recorded, Power, Shared, BootMoves, States, Att
<1>8. Undeleted'
  BY DEF Undeleted, Recorded
<1>9. Helped'
  BY DEF Helped, Power, NotYetHelped, GivenUp, Att
<1>10. GivenUp'
  BY DEF GivenUp, Helped, Att
<1>11. NotYetHelped'
  BY DEF NotYetHelped, Att
<1>12. Shared'
  BY DEF Shared, Power, Att
<1>13. Lasting'
  BY DEF Lasting, Power, Shared, BootMoves, Att, Undisturbed
<1>14. BootMoves'
  BY DEF BootMoves, Power, Shared, Att
<1>15. Released'
  BY DEF Released, Shared, Att
<1>16. Deleted'
  BY DEF Deleted, Recorded
<1>17. Settling'
  BY DEF Settling, Power, Shared, BootMoves, Lasting, Att, Undisturbed
<1>18. Welcome'
  BY DEF Welcome
<1>19. RequestTypeOK' /\ Requested'
  <2>1. RequestTypeOK'
    BY DEF RequestTypeOK
  <2>2. Requested'
    BY DEF RequestTypeOK, Requested, NotYetHelped, Shared, Helped, Att
  <2> QED
    BY <2>1, <2>2
<1> QED
  BY <1>1, <1>2, <1>3, <1>4, <1>5, <1>6, <1>7, <1>8, <1>9, <1>10, <1>11, <1>12, <1>13, <1>14, <1>15, <1>16, <1>17, <1>18,
     <1>19

\* The record after a document was put back over it, or left as it is.
Replaced ==
  /\ recInst' \in BOOLEAN /\ copied' \in BOOLEAN /\ putBack' \in BOOLEAN
  /\ recVol' \in [Disks -> BOOLEAN] /\ recH' \in [Disks -> BOOLEAN] /\ recT' \in [Disks -> BOOLEAN]
  /\ copied' => copied /\ mode # "prepare" /\ recVol'[Boot] /\ \A d \in Disks : Live(hAtt[d]) => recH'[d]
  /\ \A d \in Disks : (recH'[d] => hAtt[d] # "none") /\ (recT'[d] => recT[d])
  /\ putBack => putBack'
  /\ ~putBack' => UNCHANGED <<recInst, recVol, recH, recT, copied>> /\ phase \notin {"COMPLETED", "CANCELLED"}

LEMMA PutReplaces ==
  ASSUME ProvisionInv, PutDocument
  PROVE  Replaced
BY DEF PutDocument, Outdated, Replaced, RequestTypeOK, Requested

LEMMA KeptIsReplaced ==
  ASSUME ProvisionInv, pc # "off", UNCHANGED <<rec, copied, putBack>>
  PROVE  Replaced
<1>1. copied => mode # "prepare" /\ recVol[Boot] /\ \A d \in Disks : Live(hAtt[d]) => recH[d]
  BY DEF Recorded, Helped
<1> QED
  BY <1>1 DEF Replaced, RequestTypeOK, Helped

\* A request reads, and asks.
LEMMA ReadSteps ==
  ASSUME ProvisionInv, UNCHANGED <<oci, rec, ends, mode, pc, i, started, refused, putBack, crashes, fixed>>,
         RequestTypeOK', Requested'
  PROVE  ProvisionInv'
<1>1. DiskTypeOK'
  OBVIOUS
<1>2. FlagTypeOK'
  OBVIOUS
<1>3. ThreadTypeOK'
  OBVIOUS
<1>4. Places'
  OBVIOUS
<1>5. Endings'
  OBVIOUS
<1>6. Power'
  BY DEF Power
<1>7. Recorded'
  BY DEF Recorded
<1>8. Undeleted'
  BY DEF Undeleted
<1>9. Helped'
  BY DEF Helped
<1>10. GivenUp'
  BY DEF GivenUp
<1>11. NotYetHelped'
  BY DEF NotYetHelped
<1>12. Shared'
  BY DEF Shared
<1>13. Lasting'
  BY DEF Lasting, Undisturbed
<1>14. BootMoves'
  BY DEF BootMoves
<1>15. Released'
  BY DEF Released
<1>16. Deleted'
  BY DEF Deleted
<1>17. Settling'
  BY DEF Settling
<1>18. Welcome'
  BY DEF Welcome
<1> QED
  BY <1>1, <1>2, <1>3, <1>4, <1>5, <1>6, <1>7, <1>8, <1>9, <1>10, <1>11, <1>12, <1>13, <1>14, <1>15, <1>16, <1>17, <1>18

\* A document is put back over the record of a job without a thread, or of one whose thread ends in a restart.
LEMMA ReplacedOff ==
  ASSUME ProvisionInv, Replaced, pc' = "off", phase' \in {"PROVISIONING", "FINALIZING", "FAILED"}, crashes' \in Nat,
         UNCHANGED <<oci, incomplete, mode, i, started, refused, fixed>>,
         RecordKept' => RecordKept /\ pc = "off",
         RequestTypeOK', Requested'
  PROVE  ProvisionInv'
<1> USE DEF Replaced
<1>1. DiskTypeOK'
  OBVIOUS
<1>2. FlagTypeOK'
  OBVIOUS
<1>3. ThreadTypeOK'
  OBVIOUS
<1>4. Places'
  OBVIOUS
<1>5. Endings'
  OBVIOUS
<1>6. Power'
  BY DEF Power
<1>7. Recorded'
  BY DEF Recorded
<1>8. Undeleted'
  BY DEF Undeleted, RequestTypeOK
<1>9. Helped'
  BY DEF Helped
<1>10. GivenUp'
  BY DEF GivenUp
<1>11. NotYetHelped'
  BY DEF NotYetHelped
<1>12. Shared'
  BY DEF Shared
<1>13. Lasting'
  BY DEF Lasting, Undisturbed
<1>14. BootMoves'
  BY DEF BootMoves
<1>15. Released'
  BY DEF Released
<1>16. Deleted'
  BY DEF Deleted
<1>17. Settling'
  BY DEF Settling, Requested
<1>18. Welcome'
  BY DEF Welcome
<1> QED
  BY <1>1, <1>2, <1>3, <1>4, <1>5, <1>6, <1>7, <1>8, <1>9, <1>10, <1>11, <1>12, <1>13, <1>14, <1>15, <1>16, <1>17, <1>18

\* A document is put back, and torn down.
LEMMA ReplacedTeardown ==
  ASSUME ProvisionInv, Replaced, pc = "off", phase' \in {"PROVISIONING", "FINALIZING", "FAILED"},
         StartCleanup, UNCHANGED <<oci, refused, crashes, fixed>>,
         RequestTypeOK', Requested'
  PROVE  ProvisionInv'
<1> USE DEF Replaced, StartCleanup
<1>1. DiskTypeOK'
  OBVIOUS
<1>2. FlagTypeOK'
  OBVIOUS
<1>3. ThreadTypeOK'
  OBVIOUS
<1>4. Places'
  OBVIOUS
<1>5. Endings'
  OBVIOUS
<1>6. Power'
  BY DEF Power
<1>7. Recorded'
  BY DEF Recorded
<1>8. Undeleted'
  BY DEF Undeleted, RequestTypeOK
<1>9. Helped'
  BY DEF Helped
<1>10. GivenUp'
  BY DEF GivenUp
<1>11. NotYetHelped'
  BY DEF NotYetHelped
<1>12. Shared'
  BY DEF Shared
<1>13. Lasting'
  BY DEF Lasting, Undisturbed
<1>14. BootMoves'
  BY DEF BootMoves
<1>15. Released'
  BY DEF Released
<1>16. Deleted'
  BY DEF Deleted
<1>17. Settling'
  BY DEF Settling, Requested
<1>18. Welcome'
  BY DEF Welcome
<1> QED
  BY <1>1, <1>2, <1>3, <1>4, <1>5, <1>6, <1>7, <1>8, <1>9, <1>10, <1>11, <1>12, <1>13, <1>14, <1>15, <1>16, <1>17, <1>18

\* A cancel request that is under way while the thread goes on.
LEMMA RequestSteps ==
  ASSUME ProvisionInv, CancelReads \/ CancelAsks \/ CancelPuts \/ CancelTeardown
  PROVE  ProvisionInv'
<1>1. CASE CancelReads
  <2>1. UNCHANGED <<oci, rec, ends, mode, pc, i, started, refused, putBack, crashes, fixed>>
    BY <1>1 DEF CancelReads
  <2>2. RequestTypeOK'
    BY <1>1 DEF CancelReads, RequestTypeOK
  <2>3. copied => recVol[Boot] /\ \A d \in Disks : Live(hAtt[d]) => recH[d]
    BY DEF Recorded, Helped
  <2>4. Requested'
    BY <1>1, <2>3 DEF CancelReads, Requested, Helped
  <2> QED
    BY <2>1, <2>2, <2>4, ReadSteps
<1>2. CASE CancelAsks
  <2>1. UNCHANGED <<oci, rec, ends, mode, pc, i, started, refused, putBack, crashes, fixed>>
    BY <1>2 DEF CancelAsks
  <2>2. RequestTypeOK' /\ Requested'
    BY <1>2 DEF CancelAsks, RequestTypeOK, Requested
  <2> QED
    BY <2>1, <2>2, ReadSteps
<1>3. CASE CancelPuts
  <2>1. CASE pc = "off"
    <3>1. Replaced
      BY <1>3, <2>1, PutReplaces DEF CancelPuts, RequestTypeOK
    <3>2. RequestTypeOK'
      BY <1>3, <3>1 DEF CancelPuts, RequestTypeOK, NoDocument, Replaced
    <3>3. Requested'
      BY <1>3, <2>1 DEF CancelPuts, Requested, NoDocument
    <3>4. phase' \in {"PROVISIONING", "FINALIZING", "FAILED"}
      BY <1>3, <2>1 DEF CancelPuts, RequestTypeOK
    <3>5. UNCHANGED <<oci, incomplete, mode, pc, i, started, refused, crashes, fixed>>
      BY <1>3 DEF CancelPuts
    <3>6. RecordKept' => RecordKept /\ pc = "off"
      BY <2>1, <3>1, <3>5 DEF Replaced, RequestTypeOK
    <3> QED
      BY <2>1, <3>1, <3>2, <3>3, <3>4, <3>5, <3>6, ReplacedOff
  <2>2. CASE pc # "off"
    <3>1. UNCHANGED <<oci, rec, ends, mode, pc, i, started, refused, putBack, crashes, fixed>>
      BY <1>3, <2>2 DEF CancelPuts
    <3>2. RequestTypeOK' /\ Requested'
      BY <1>3, <3>1 DEF CancelPuts, RequestTypeOK, Requested, NoDocument
    <3> QED
      BY <3>1, <3>2, ReadSteps
  <2> QED
    BY <2>1, <2>2
<1>4. CASE CancelTeardown
  <2>1. Replaced
    BY <1>4, PutReplaces DEF CancelTeardown, RequestTypeOK
  <2>2. RequestTypeOK'
    BY <1>4, <2>1 DEF CancelTeardown, RequestTypeOK, NoDocument, Replaced
  <2>3. Requested'
    BY <1>4 DEF CancelTeardown, Requested, NoDocument
  <2>4. /\ phase' \in {"PROVISIONING", "FINALIZING", "FAILED"} /\ pc = "off"
        /\ StartCleanup /\ UNCHANGED <<oci, refused, crashes, fixed>>
    BY <1>4 DEF CancelTeardown, RequestTypeOK
  <2> QED
    BY <2>1, <2>2, <2>3, <2>4, ReplacedTeardown
<1> QED
  BY <1>1, <1>2, <1>3, <1>4

\* The helper stops.
LEMMA CrashStep ==
  ASSUME ProvisionInv, Crash
  PROVE  ProvisionInv'
<1>1. Replaced
  BY PutReplaces, KeptIsReplaced DEF Crash, RequestTypeOK
<1>2. RequestTypeOK'
  BY <1>1 DEF Crash, RequestTypeOK, NoDocument, Replaced
<1>3. Requested'
  BY DEF Crash, Requested, NoDocument
<1>4. /\ pc' = "off" /\ phase' = "FAILED" /\ crashes' \in Nat /\ ~RecordKept'
      /\ UNCHANGED <<oci, incomplete, mode, i, started, refused, fixed>>
  BY DEF Crash
<1> QED
  BY <1>1, <1>2, <1>3, <1>4, ReplacedOff

\* What OCI accepted comes about.
LEMMA InstanceStep ==
  ASSUME ProvisionInv, InstanceSettles
  PROVE  ProvisionInv'
<1> USE DEF InstanceSettles, Terminated
<1>1. DiskTypeOK'
  BY DEF Att, States
<1>2. FlagTypeOK'
  OBVIOUS
<1>3. ThreadTypeOK'
  BY DEF States
<1>4. Places'
  OBVIOUS
<1>5. Endings'
  OBVIOUS
<1>6. Power'
  BY DEF Power, Shared, BootMoves, States
<1>7. Recorded'
  BY DEF Recorded, Power, Shared, BootMoves, States, Att
<1>8. Undeleted'
  BY DEF Undeleted, Recorded
<1>9. Helped'
  BY DEF Helped, Power, NotYetHelped, GivenUp, Att
<1>10. GivenUp'
  BY DEF GivenUp, Helped, Att
<1>11. NotYetHelped'
  BY DEF NotYetHelped, Att
<1>12. Shared'
  BY DEF Shared, Power, Att
<1>13. Lasting'
  BY DEF Lasting, Power, Shared, BootMoves, Att, Undisturbed
<1>14. BootMoves'
  BY DEF BootMoves, Power, Shared, Att
<1>15. Released'
  BY DEF Released, Shared, Att
<1>16. Deleted'
  BY DEF Deleted, Recorded
<1>17. Settling'
  BY DEF Settling, Power, Requested, Att
<1>18. Welcome'
  BY DEF Welcome
<1>19. RequestTypeOK' /\ Requested'
  <2>1. RequestTypeOK'
    BY DEF RequestTypeOK
  <2>2. Requested'
    BY DEF RequestTypeOK, Requested, NotYetHelped, Shared, Helped, Att
  <2> QED
    BY <2>1, <2>2
<1> QED
  BY <1>1, <1>2, <1>3, <1>4, <1>5, <1>6, <1>7, <1>8, <1>9, <1>10, <1>11, <1>12, <1>13, <1>14, <1>15, <1>16, <1>17, <1>18,
     <1>19

LEMMA AttachmentStep ==
  ASSUME ProvisionInv, AttachmentSettles
  PROVE  ProvisionInv'
<1> USE DEF AttachmentSettles, Settled, Fault
<1>1. DiskTypeOK'
  <2>1. hAtt' \in [Disks -> Att] /\ tAtt' \in [Disks -> Att]
    OBVIOUS
  <2> QED
    BY <2>1
<1>2. FlagTypeOK'
  OBVIOUS
<1>3. ThreadTypeOK'
  BY DEF States
<1>4. Places'
  OBVIOUS
<1>5. Endings'
  OBVIOUS
<1>6. Power'
  BY DEF Power, Shared, BootMoves, States
<1>7. Recorded'
  BY DEF Recorded, Power, Shared, BootMoves, States, Att
<1>8. Undeleted'
  BY DEF Undeleted, Recorded
<1>9. Helped'
  BY DEF Helped, Power, NotYetHelped, GivenUp, Att
<1>10. GivenUp'
  BY DEF GivenUp, Helped, Att
<1>11. NotYetHelped'
  BY DEF NotYetHelped, Att
<1>12. Shared'
  BY DEF Shared, Power, Att
<1>13. Lasting'
  BY DEF Lasting, Power, Shared, BootMoves, Att, Undisturbed
<1>14. BootMoves'
  BY DEF BootMoves, Power, Shared, Att
<1>15. Released'
  BY DEF Released, Shared, Att
<1>16. Deleted'
  BY DEF Deleted, Recorded
<1>17. Settling'
  BY DEF Settling, Att
<1>18. Welcome'
  BY DEF Welcome
<1>19. RequestTypeOK' /\ Requested'
  <2>1. RequestTypeOK'
    BY DEF RequestTypeOK
  <2>2. Requested'
    BY DEF RequestTypeOK, Requested, NotYetHelped, Shared, Helped, Att
  <2> QED
    BY <2>1, <2>2
<1> QED
  BY <1>1, <1>2, <1>3, <1>4, <1>5, <1>6, <1>7, <1>8, <1>9, <1>10, <1>11, <1>12, <1>13, <1>14, <1>15, <1>16, <1>17, <1>18,
     <1>19

-----------------------------------------------------------------------------
(* What holds of every job                                                  *)

LEMMA ProvisionInit == Init => ProvisionInv
<1> SUFFICES ASSUME Init PROVE ProvisionInv
  OBVIOUS
<1> USE DEF Init
<1>1. DiskTypeOK
  BY DEF Att
<1>2. FlagTypeOK
  OBVIOUS
<1>3. ThreadTypeOK
  BY DEF States
<1>4. Places /\ Endings
  OBVIOUS
<1>5. Power /\ Recorded /\ Undeleted
  BY DEF Power, Recorded, Undeleted
<1>6. Helped /\ GivenUp /\ NotYetHelped
  BY DEF Helped, GivenUp, NotYetHelped
<1>7. Shared /\ Lasting /\ BootMoves
  BY DEF Shared, Lasting, BootMoves
<1>8. Released /\ Deleted /\ Settling /\ Welcome /\ RequestTypeOK /\ Requested
  BY DEF Released, Deleted, Settling, Welcome, RequestTypeOK, Requested, NoDocument
<1> QED
  BY <1>1, <1>2, <1>3, <1>4, <1>5, <1>6, <1>7, <1>8

LEMMA ProvisionStutters == ASSUME ProvisionInv, UNCHANGED vars PROVE ProvisionInv'
<1> USE DEF vars
<1>1. DiskTypeOK' /\ FlagTypeOK' /\ ThreadTypeOK' /\ Places' /\ Endings'
  BY DEF Att, States
<1>2. Power' /\ Recorded' /\ Undeleted'
  BY DEF Power, Recorded, Undeleted
<1>3. Helped' /\ GivenUp' /\ NotYetHelped'
  BY DEF Helped, GivenUp, NotYetHelped
<1>4. Shared' /\ Lasting' /\ BootMoves'
  BY DEF Shared, Lasting, BootMoves, Undisturbed
<1>5. Released' /\ Deleted' /\ Settling' /\ Welcome' /\ RequestTypeOK' /\ Requested'
  BY DEF Released, Deleted, Settling, Welcome, RequestTypeOK, Requested
<1> QED
  BY <1>1, <1>2, <1>3, <1>4, <1>5

LEMMA ProvisionNext == ProvisionInv /\ [Next]_vars => ProvisionInv'
<1> SUFFICES ASSUME ProvisionInv, [Next]_vars PROVE ProvisionInv'
  OBVIOUS
<1>1. CASE ThreadStep
  BY ONLY ProvisionInv, <1>1, LaunchSteps, VolumeSteps, ShareSteps, StopSteps, FreeSteps, HelpSteps, CopySteps,
      DetachSteps,
    BootSteps, StartSteps, PowerSteps, ReleaseSteps, TerminateStep, DeleteSteps, RefuseStep, FailStep
  DEF ThreadStep
<1>2. CASE CancelRun \/ CancelFailed \/ ResumeFinalize \/ Crash \/ InstanceSettles \/ AttachmentSettles
  BY <1>2, CancelSteps, CopySteps, CrashStep, InstanceStep, AttachmentStep
<1>3. CASE CancelReads \/ CancelAsks \/ CancelPuts \/ CancelTeardown
  BY <1>3, RequestSteps
<1> QED
  BY <1>1, <1>2, <1>3, ProvisionStutters DEF Next

HIDE DEF ProvisionInv

\* The inductive invariant holds of every behaviour.
THEOREM ProvisionInvariant == Spec => []ProvisionInv
BY ProvisionInit, ProvisionNext, PTL DEF Spec

\* Whatever exists in OCI for the job is in its record or in the hands of the thread that is about to save it,
\* for any number of disks and through failures, time-outs, cancels and retries (oci/provision.py, prepare).
THEOREM ResourcesRecorded == Spec => []RecordCovers
<1>1. ProvisionInv => RecordCovers
  BY DEF ProvisionInv, RecordCovers, Recorded, Helped
<1> QED
  BY <1>1, ProvisionInvariant, PTL

\* A cleanup that reported no failure leaves nothing of the job behind in OCI (Provisioner.cleanup).
THEOREM CancelledLeavesNothing == Spec => []CleanupLeavesNothing
<1>1. ProvisionInv => CleanupLeavesNothing
  BY DEF ProvisionInv, CleanupLeavesNothing, NothingLeft, Deleted, Recorded
<1> QED
  BY <1>1, ProvisionInvariant, PTL

\* A completed job has its target as the user asked and its disks on it (Provisioner.finalize).
THEOREM CompletedHasMoved == Spec => []CompletedMoved
<1>1. ProvisionInv => CompletedMoved
  BY DEF ProvisionInv, CompletedMoved, Power, Shared, Lasting, GivenUp, Undisturbed
<1> QED
  BY <1>1, ProvisionInvariant, PTL

\* The helper and the target never write a disk both, and without faults OCI refuses no call of prepare and
\* finalize.
THEOREM DiskHasOneWriter == Spec => []OneWriter
<1>1. ProvisionInv => OneWriter
  BY DEF ProvisionInv, OneWriter, Welcome, Power, Helped
<1> QED
  BY <1>1, ProvisionInvariant, PTL
================================================================================
