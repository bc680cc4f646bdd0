------------------------------- MODULE IsoInstallProofs -------------------------------
(***************************************************************************)
(* Proofs about the shared images, for any jobs, old images and wishes:     *)
(* placeholders are released, and what a job launches from fits what it     *)
(* wants; what Images promises holds with the life cycles of instances      *)
(* beside it, and every instance is accounted for.                          *)
(***************************************************************************)
EXTENDS IsoInstall, TLAPS

(* The shared images                                                        *)

Labels ==
  {"idle", "find", "schemas", "repair", "bucket", "makeBucket", "put", "create", "import", "register", "pin",
   "release", "save", "shape", "launch"} \cup Ends

ImagesTypeOK ==
  /\ pc \in [Jobs -> Labels]
  /\ img \in [Jobs -> Images \cup {NoImage}]
  /\ outcome \in [Jobs -> {"ok", "failed", "cancelled"}]
  /\ schema \in [Images -> Classes \cup {"none"}]

\* Only seeds have placeholders.
SeedsOnly == \A j \in Jobs : pc[j] \in {"bucket", "makeBucket", "put"} \/ j \in objects => Want[j].seed

\* Where a job that created its image has it.
Imported(j) == pc[j] \in {"import", "register", "pin"} \/ (pc[j] = "release" /\ outcome[j] = "ok")
OwnImage    == \A j \in Jobs : Imported(j) => img[j] = j

\* A job goes on with an image of the identity it wants.
Chosen(j)  == pc[j] \in {"schemas", "repair", "save", "shape", "launch"}
RightImage == \A j \in Jobs : Chosen(j) => img[j] \in Images /\ Want[img[j]].id = Want[j].id

\* The schema fits from the moment it was looked at, repaired or applied.
Ensured(j) == pc[j] \in {"save", "shape", "launch"} \/ (pc[j] = "release" /\ outcome[j] = "ok")
EnsuredFits == \A j \in Jobs : Ensured(j) /\ Agreed(j) => schema[img[j]] \in {"none", Want[j].class}

ImagesInv ==
  /\ ImagesTypeOK /\ SeedsOnly /\ OwnImage /\ RightImage /\ EnsuredFits
  /\ PlaceholderReleased

\* The invariant holds at the start.
LEMMA InitImages == Init => ImagesInv
  BY ImagesAssumption
  DEF Init, ImagesInv, ImagesTypeOK, Labels, Images, SeedsOnly, OwnImage, Imported, RightImage, Chosen,
    EnsuredFits, Ensured, PlaceholderReleased, Object

-----------------------------------------------------------------------------
(* The steps of a job keep the invariant                                    *)

USE DEF Goto, GotoUnlessCancelled, Leave, Matching, threads, pool, storage, around, Images, Classes,
   Labels, Ends,
  ImagesInv, ImagesTypeOK, SeedsOnly, OwnImage, Imported, RightImage, Chosen, EnsuredFits, Ensured,
  PlaceholderReleased, Object, Agreed

LEMMA BeginStep == ASSUME ImagesInv, NEW k \in Jobs, Begin(k) PROVE ImagesInv'
  BY ImagesAssumption DEF Begin

LEMMA FindStep == ASSUME ImagesInv, NEW k \in Jobs, Find(k) PROVE ImagesInv'
  BY ImagesAssumption DEF Find

LEMMA ReadSchemaStep == ASSUME ImagesInv, NEW k \in Jobs, ReadSchema(k) PROVE ImagesInv'
  BY ImagesAssumption DEF ReadSchema

LEMMA RepairSchemaStep == ASSUME ImagesInv, NEW k \in Jobs, RepairSchema(k) PROVE ImagesInv'
  BY ImagesAssumption DEF RepairSchema

LEMMA BucketStep == ASSUME ImagesInv, NEW k \in Jobs, Bucket(k) PROVE ImagesInv'
  BY ImagesAssumption DEF Bucket

LEMMA MakeBucketStep == ASSUME ImagesInv, NEW k \in Jobs, MakeBucket(k) PROVE ImagesInv'
  BY ImagesAssumption DEF MakeBucket

LEMMA PutStep == ASSUME ImagesInv, NEW k \in Jobs, Put(k) PROVE ImagesInv'
  BY ImagesAssumption DEF Put

LEMMA CreateStep == ASSUME ImagesInv, NEW k \in Jobs, Create(k) PROVE ImagesInv'
  BY ImagesAssumption DEF Create

LEMMA WaitImportStep == ASSUME ImagesInv, NEW k \in Jobs, WaitImport(k) PROVE ImagesInv'
  BY ImagesAssumption DEF WaitImport

LEMMA RegisterStep == ASSUME ImagesInv, NEW k \in Jobs, Register(k) PROVE ImagesInv'
  BY ImagesAssumption DEF Register

LEMMA PinStep == ASSUME ImagesInv, NEW k \in Jobs, Pin(k) PROVE ImagesInv'
  BY ImagesAssumption DEF Pin

LEMMA ReleaseStep == ASSUME ImagesInv, NEW k \in Jobs, Release(k) PROVE ImagesInv'
  BY ImagesAssumption DEF Release

LEMMA SaveStep == ASSUME ImagesInv, NEW k \in Jobs, Save(k) PROVE ImagesInv'
  BY ImagesAssumption DEF Save

LEMMA ShapeStep == ASSUME ImagesInv, NEW k \in Jobs, Shape(k) PROVE ImagesInv'
  BY ImagesAssumption DEF Shape

LEMMA LaunchStep == ASSUME ImagesInv, NEW k \in Jobs, Launch(k) PROVE ImagesInv'
  BY ImagesAssumption DEF Launch

LEMMA RefusedStep == ASSUME ImagesInv, NEW k \in Jobs, Refused(k) PROVE ImagesInv'
  BY ImagesAssumption DEF Refused

LEMMA AnswerLostStep == ASSUME ImagesInv, NEW k \in Jobs, AnswerLost(k) PROVE ImagesInv'
  BY ImagesAssumption DEF AnswerLost

LEMMA CancelRequestStep == ASSUME ImagesInv, NEW k \in Jobs, CancelRequest(k) PROVE ImagesInv'
  BY ImagesAssumption DEF CancelRequest

HIDE DEF Goto, GotoUnlessCancelled, Leave, Matching, threads, pool, storage, around, Images, Classes,
   Labels, Ends,
  ImagesInv, ImagesTypeOK, SeedsOnly, OwnImage, Imported, RightImage, Chosen, EnsuredFits, Ensured,
  PlaceholderReleased, Object, Agreed
-----------------------------------------------------------------------------
(* OCI, the deletions and a restart                                         *)

\* Nothing outside the jobs' threads changes what a job has or what its image's schema says.
LEMMA AroundStep ==
  ASSUME ImagesInv, UNCHANGED <<threads, schema, storage, crashed>> PROVE ImagesInv'
  BY
  DEF threads, storage, ImagesInv, ImagesTypeOK, SeedsOnly, OwnImage, Imported, RightImage, Chosen,
    EnsuredFits, Ensured, PlaceholderReleased, Object, Agreed

\* After a restart the jobs that were under way have failed.
LEMMA RestartStep == ASSUME ImagesInv, Restart PROVE ImagesInv'
  BY
  DEF Restart, pool, storage, ImagesInv, ImagesTypeOK, Labels, Ends, SeedsOnly, OwnImage, Imported,
    RightImage, Chosen, EnsuredFits, Ensured, PlaceholderReleased, Object, Agreed

LEMMA NextImages == ASSUME ImagesInv, [Next]_vars PROVE ImagesInv'
<1>1. ASSUME NEW k \in Jobs, JobStep(k) PROVE ImagesInv'
  BY <1>1, BeginStep, FindStep, ReadSchemaStep, RepairSchemaStep, BucketStep, MakeBucketStep, PutStep,
    CreateStep, WaitImportStep, RegisterStep, PinStep, ReleaseStep, SaveStep, ShapeStep, LaunchStep,
    RefusedStep, AnswerLostStep, CancelRequestStep
  DEF JobStep
<1>2. ASSUME NEW i \in Images, ImportEnds(i) \/ DeleteImage(i) PROVE ImagesInv'
  BY <1>2, AroundStep DEF ImportEnds, DeleteImage, storage, around
<1>3. CASE ListImages
  BY <1>3, AroundStep DEF ListImages, pool
<1>4. CASE Restart
  BY <1>4, RestartStep
<1>5. CASE UNCHANGED vars
  BY <1>5, AroundStep DEF vars, pool, around
<1>6. QED
  BY <1>1, <1>2, <1>3, <1>4, <1>5 DEF Next

THEOREM ImagesInvariant == Spec => []ImagesInv
  BY InitImages, NextImages, PTL DEF Spec

\* However an import ends, its placeholder is deleted (the finally clause of create), for any number of jobs
\* that import side by side.
THEOREM PlaceholdersReleased == Spec => []PlaceholderReleased
<1>1. ImagesInv => PlaceholderReleased
  BY DEF ImagesInv
<1>2. QED
  BY <1>1, ImagesInvariant, PTL

\* The image a job launches from has no schema or one of the job's own device class, for any number of jobs
\* that import, repair and reuse images, if those of one identity want one class.
THEOREM SchemasFit == Spec => []SchemaFits
<1>1. ImagesInv => SchemaFits
  BY DEF ImagesInv, EnsuredFits, Ensured, SchemaFits
<1>2. QED
  BY <1>1, ImagesInvariant, PTL
-----------------------------------------------------------------------------
(* Jobs do not disturb each other                                           *)

Calm == faults \subseteq {"cancel"}

Quiet == bucket /\ todo = {} /\ state \in [Images -> {"none", "IMPORTING", "AVAILABLE", "DELETED"}]

\* A job has not made its image yet.
Before(j)  == pc[j] \in {"idle", "find", "bucket", "makeBucket", "put", "create"}
NotYetMade == \A j \in Jobs : Before(j) => state[j] = "none"

\* The placeholder is there as long as OCI may need it, so that the import goes on.
ImportGoesOn ==
  \A j \in Jobs :
    /\ pc[j] \in {"create", "import"} /\ Want[j].seed => j \in objects
    /\ pc[j] = "import" => state[j] # "DELETED"

\* An image that was imported or found stays.
StaysAvailable ==
  \A j \in Jobs :
    /\ pc[j] \in {"register", "pin"} \/ (pc[j] = "release" /\ outcome[j] = "ok") => state[j] = "AVAILABLE"
    /\ Chosen(j) => state[img[j]] = "AVAILABLE"

NoFailure ==
  \A j \in Jobs : pc[j] # "makeBucket" /\ outcome[j] # "failed" /\ (Agreed(j) => pc[j] # "failed")

Steady == Quiet /\ NotYetMade /\ ImportGoesOn /\ StaysAvailable /\ NoFailure

CalmInv == ImagesInv /\ (Calm => Steady)

LEMMA InitCalm == Init => CalmInv
<1>1. SUFFICES ASSUME Init, Calm PROVE Steady
  BY InitImages DEF CalmInv
<1>2. "nobucket" \notin faults
  BY <1>1 DEF Calm
<1>3. bucket = ("nobucket" \notin faults)
  BY <1>1 DEF Init
<1>4. bucket
  BY <1>2, <1>3, Zenon
<1>5. /\ todo = {} /\ state \in [Images -> {"AVAILABLE", "none"}]
      /\ pc = [j \in Jobs |-> "idle"] /\ outcome = [j \in Jobs |-> "ok"]
      /\ \A j \in Jobs : state[j] = "none"
  BY <1>1 DEF Init, Images
<1>6. QED
  BY <1>4, <1>5 DEF Steady, Quiet, NotYetMade, Before, ImportGoesOn, StaysAvailable, Chosen, NoFailure

USE DEF Goto, GotoUnlessCancelled, Leave, Matching, threads, pool, storage, around, Images, Classes,
   Labels, Ends,
  ImagesInv, ImagesTypeOK, SeedsOnly, OwnImage, Imported, RightImage, Chosen, EnsuredFits, Ensured,
     Object, Agreed,
  Launchable, Calm, Steady, Quiet, NotYetMade, Before, ImportGoesOn, StaysAvailable, NoFailure

LEMMA BeginCalm == ASSUME ImagesInv, Calm, Steady, NEW k \in Jobs, Begin(k) PROVE Steady'
  BY ImagesAssumption DEF Begin

LEMMA FindCalm == ASSUME ImagesInv, Calm, Steady, NEW k \in Jobs, Find(k) PROVE Steady'
  BY ImagesAssumption DEF Find

LEMMA ReadSchemaCalm == ASSUME ImagesInv, Calm, Steady, NEW k \in Jobs, ReadSchema(k) PROVE Steady'
  BY ImagesAssumption DEF ReadSchema

LEMMA RepairSchemaCalm == ASSUME ImagesInv, Calm, Steady, NEW k \in Jobs, RepairSchema(k) PROVE Steady'
  BY ImagesAssumption DEF RepairSchema

LEMMA BucketCalm == ASSUME ImagesInv, Calm, Steady, NEW k \in Jobs, Bucket(k) PROVE Steady'
  BY ImagesAssumption DEF Bucket

LEMMA MakeBucketCalm == ASSUME ImagesInv, Calm, Steady, NEW k \in Jobs, MakeBucket(k) PROVE Steady'
  BY ImagesAssumption DEF MakeBucket

LEMMA PutCalm == ASSUME ImagesInv, Calm, Steady, NEW k \in Jobs, Put(k) PROVE Steady'
  BY ImagesAssumption DEF Put

LEMMA CreateCalm == ASSUME ImagesInv, Calm, Steady, NEW k \in Jobs, Create(k) PROVE Steady'
  BY ImagesAssumption DEF Create

LEMMA WaitImportCalm == ASSUME ImagesInv, Calm, Steady, NEW k \in Jobs, WaitImport(k) PROVE Steady'
  BY ImagesAssumption DEF WaitImport

LEMMA RegisterCalm == ASSUME ImagesInv, Calm, Steady, NEW k \in Jobs, Register(k) PROVE Steady'
  BY ImagesAssumption DEF Register

LEMMA PinCalm == ASSUME ImagesInv, Calm, Steady, NEW k \in Jobs, Pin(k) PROVE Steady'
  BY ImagesAssumption DEF Pin

LEMMA ReleaseCalm == ASSUME ImagesInv, Calm, Steady, NEW k \in Jobs, Release(k) PROVE Steady'
  BY ImagesAssumption DEF Release

LEMMA SaveCalm == ASSUME ImagesInv, Calm, Steady, NEW k \in Jobs, Save(k) PROVE Steady'
  BY ImagesAssumption DEF Save

LEMMA ShapeCalm == ASSUME ImagesInv, Calm, Steady, NEW k \in Jobs, Shape(k) PROVE Steady'
  BY ImagesAssumption DEF Shape

LEMMA LaunchCalm == ASSUME ImagesInv, Calm, Steady, NEW k \in Jobs, Launch(k) PROVE Steady'
  BY ImagesAssumption DEF Launch

LEMMA RefusedCalm == ASSUME ImagesInv, Calm, Steady, NEW k \in Jobs, Refused(k) PROVE Steady'
  BY ImagesAssumption DEF Refused

LEMMA AnswerLostCalm == ASSUME ImagesInv, Calm, Steady, NEW k \in Jobs, AnswerLost(k) PROVE Steady'
  BY ImagesAssumption DEF AnswerLost

LEMMA CancelRequestCalm == ASSUME ImagesInv, Calm, Steady, NEW k \in Jobs, CancelRequest(k) PROVE Steady'
  BY ImagesAssumption DEF CancelRequest

LEMMA ImportEndsCalm == ASSUME ImagesInv, Calm, Steady, NEW i \in Images, ImportEnds(i) PROVE Steady'
  BY ImagesAssumption DEF ImportEnds

HIDE DEF Goto, GotoUnlessCancelled, Leave, Matching, threads, pool, storage, around, Images, Classes,
   Labels, Ends,
  ImagesInv, ImagesTypeOK, SeedsOnly, OwnImage, Imported, RightImage, Chosen, EnsuredFits, Ensured,
     Object, Agreed,
  Launchable, Calm, Steady, Quiet, NotYetMade, Before, ImportGoesOn, StaysAvailable, NoFailure

LEMMA NextCalm == ASSUME CalmInv, [Next]_vars PROVE CalmInv'
<1>1. ImagesInv'
  BY NextImages DEF CalmInv
<1>2. faults' = faults
  BY
  DEF Next, JobStep, vars, around, Begin, Find, ReadSchema, RepairSchema, Bucket, MakeBucket, Put,
    Create, WaitImport, Register, Pin, Release, Save, Shape, Launch, Refused, AnswerLost, CancelRequest,
    ImportEnds, DeleteImage, ListImages, Restart
<1>3. SUFFICES ASSUME Calm PROVE Steady'
  BY <1>1, <1>2 DEF CalmInv, Calm
<1>4. ImagesInv /\ Steady
  BY <1>3 DEF CalmInv
<1>5. ASSUME NEW k \in Jobs, JobStep(k) PROVE Steady'
  BY <1>3, <1>4, <1>5, BeginCalm, FindCalm, ReadSchemaCalm, RepairSchemaCalm, BucketCalm,
    MakeBucketCalm, PutCalm, CreateCalm, WaitImportCalm, RegisterCalm, PinCalm, ReleaseCalm, SaveCalm,
    ShapeCalm, LaunchCalm, RefusedCalm, AnswerLostCalm, CancelRequestCalm
  DEF JobStep
<1>6. ASSUME NEW i \in Images, ImportEnds(i) PROVE Steady'
  BY <1>3, <1>4, <1>6, ImportEndsCalm
<1>7. ASSUME NEW i \in Images, DeleteImage(i) PROVE FALSE
  BY <1>4, <1>7 DEF DeleteImage, Steady, Quiet
<1>8. ~ListImages /\ ~Restart
  BY <1>3 DEF Calm, ListImages, Restart
<1>9. CASE UNCHANGED vars
  BY <1>4, <1>9
  DEF vars, threads, pool, storage, around, Steady, Quiet, NotYetMade, Before, ImportGoesOn,
    StaysAvailable, Chosen, NoFailure, Agreed
<1>10. QED
  BY <1>5, <1>6, <1>7, <1>8, <1>9 DEF Next

\* If OCI does what it is asked to, the jobs of one class of images do not fail, however many import, reuse,
\* repair and cancel at the same time.
THEOREM JobsUndisturbed == Spec => []Undisturbed
<1>1. CalmInv => Undisturbed
  BY DEF CalmInv, Calm, Steady, NoFailure, Undisturbed
<1>2. QED
  BY <1>1, InitCalm, NextCalm, PTL DEF Spec

-----------------------------------------------------------------------------
(* ISO jobs                                                                 *)

(* Instances are a refinement of Images                                     *)

LEMMA StepIsImagesStep == IsoNext => [Next]_vars
<1>1. ASSUME NEW j \in Jobs, ImageStep(j) PROVE [Next]_vars
  BY <1>1 DEF ImageStep, Next
<1>2. ASSUME NEW j \in Jobs, IsoStep(j) PROVE [Next]_vars
  <2>1. CASE LaunchInstance(j)
    BY <2>1 DEF LaunchInstance, JobStep, Next
  <2>2. CASE LaunchLost(j)
    BY <2>2 DEF LaunchLost, JobStep, Next
  <2>3. CASE CancelAsks(j)
    BY <2>3 DEF CancelAsks, JobStep, Next
  <2>4. ASSUME IsoStep(j), ~LaunchInstance(j), ~LaunchLost(j), ~CancelAsks(j) PROVE UNCHANGED vars
    BY <2>4
    DEF IsoStep, SaveInstance, Booted, NotBooted, FinishInstallation, Finish, CancelIso, CancelReads, CancelPuts,
      CancelTeardown, Terminate, SaveCancelled, InstanceSettles
  <2>5. QED
    BY <1>2, <2>1, <2>2, <2>3, <2>4
<1>3. ASSUME NEW i \in Images, ImagesStep(i) PROVE [Next]_vars
  BY <1>3 DEF ImagesStep, Next
<1>4. ASSUME ListStep \/ RestartJobs PROVE [Next]_vars
  BY <1>4 DEF ListStep, RestartJobs, Next
<1>5. QED
  BY <1>1, <1>2, <1>3, <1>4 DEF IsoNext

\* IsoInstaller and the handlers only add to what the shared images do: an ISO job's thread, launched or not,
\* takes no step that Images does not describe.
THEOREM IsoRefinesImages == IsoSpec => Spec
<1>1. IsoInit => Init
  BY DEF IsoInit
<1>2. [IsoNext]_<<vars, isoVars>> => [Next]_vars
  BY StepIsImagesStep
<1>3. QED
  BY <1>1, <1>2, PTL DEF IsoSpec, Spec

\* Image import beside instances that are launched, finished and cancelled: what a job launches from still fits.
THEOREM IsoSchemasFit == IsoSpec => []SchemaFits
  BY IsoRefinesImages, SchemasFit, PTL

\* ... and the jobs still do not make each other fail.
THEOREM IsoUndisturbed == IsoSpec => []Undisturbed
  BY IsoRefinesImages, JobsUndisturbed, PTL
-----------------------------------------------------------------------------
(* Instances are accounted for                                              *)

Phases == {"PROVISIONING", "INSTALLING", "COMPLETED", "FAILED", "CANCELLED"}

IsoTypeOK ==
  /\ phase \in [Jobs -> Phases]
  /\ task \in [Jobs -> {"none", "save", "boot", "cleanup", "cancelled"}]
  /\ instance \in [Jobs -> {"none", "starting", "running", "gone"}]
  /\ request \in [op : {"none", "finish", "cancel", "asked"}, job : Jobs \cup {NoImage}, phase : Phases, known : BOOLEAN]

\* Until its thread ends, a job is provisioning; until the launch nothing else works on it.
Fresh ==
  \A j \in Isos :
    /\ pc[j] \notin Ends => phase[j] = "PROVISIONING" /\ task[j] = "none"
    /\ task[j] \in {"save", "boot"} => phase[j] = "PROVISIONING"

\* A cleanup leaves an instance only where it did not know of it or was not let.
TornDown == \A j \in Isos : task[j] = "cancelled" /\ Lives(j) => j \in lost \cup unclean \cup putBack

\* A request is about an ISO job that had not ended when it was read, and that has at most been cancelled since
\* if it was in the hands of its user.
Snapshot ==
  request.op # "none" =>
    /\ request.job \in Isos /\ request.phase \notin {"COMPLETED", "CANCELLED"}
    /\ request.op = "finish" => request.phase = "INSTALLING"
    /\ request.phase = "INSTALLING" => phase[request.job] \in {"INSTALLING", "CANCELLED"}

IsoInv == ImagesInv /\ IsoTypeOK /\ Fresh /\ TornDown /\ Snapshot /\ InstancesAccounted

LEMMA InitIso == IsoInit => IsoInv
<1>1. IsoInit => ImagesInv
  BY InitImages DEF IsoInit
<1>2. QED
  BY <1>1 DEF IsoInit, Init, NoRequest, Phases, IsoInv, IsoTypeOK, Fresh, TornDown, Snapshot, InstancesAccounted, Lives, Isos, Ends

\* A step of a thread moves that thread alone, and none that has ended.
LEMMA ThreadMoves ==
  ASSUME ImagesInv, NEW k \in Jobs, JobStep(k)
  PROVE  /\ \A j \in Jobs : j # k => pc'[j] = pc[j]
         /\ pc[k] \notin Ends
         /\ crashed' = crashed
<1>1. pc \in [Jobs -> Labels]
  BY DEF ImagesInv, ImagesTypeOK
<1> USE <1>1 DEF Goto, GotoUnlessCancelled, Leave, Ends, around, threads
<1>2. CASE Begin(k) \/ Find(k) \/ ReadSchema(k) \/ RepairSchema(k) \/ Bucket(k) \/ MakeBucket(k)
  BY <1>2 DEF Begin, Find, ReadSchema, RepairSchema, Bucket, MakeBucket
<1>3. CASE Put(k) \/ Create(k) \/ WaitImport(k) \/ Register(k) \/ Pin(k) \/ Release(k)
  BY <1>3 DEF Put, Create, WaitImport, Register, Pin, Release
<1>4. CASE Save(k) \/ Shape(k) \/ Launch(k) \/ Refused(k)
  BY <1>4 DEF Save, Shape, Launch, Refused
<1>5. CASE AnswerLost(k) \/ CancelRequest(k)
  BY <1>5 DEF AnswerLost, CancelRequest
<1>6. QED
  BY <1>2, <1>3, <1>4, <1>5 DEF JobStep

\* What the record says about instances, apart from what Images keeps.
Accounts == IsoTypeOK /\ Fresh /\ TornDown /\ Snapshot /\ InstancesAccounted

LEMMA ImageKeepsAccounts == ASSUME IsoInv, NEW k \in Jobs, ImageStep(k) PROVE Accounts'
<1>1. \A j \in Jobs : pc'[j] \notin Ends => pc[j] \notin Ends
  BY ThreadMoves DEF IsoInv, ImageStep
<1>2. crashed' = crashed
  BY ThreadMoves DEF IsoInv, ImageStep
<1>3. QED
  BY <1>1, <1>2
  DEF ImageStep, isoVars, requests, IsoInv, Accounts, IsoTypeOK, Fresh, TornDown, Snapshot, InstancesAccounted, Lives, Isos

LEMMA LaunchKeepsAccounts ==
  ASSUME IsoInv, NEW k \in Jobs, LaunchInstance(k) \/ LaunchLost(k) PROVE Accounts'
<1>1. pc \in [Jobs -> Labels]
  BY DEF IsoInv, ImagesInv, ImagesTypeOK
<1>2. k \in Isos /\ pc[k] = "launch" /\ crashed' = crashed
  BY DEF LaunchInstance, LaunchLost, Launch, Refused, around
<1>3. phase[k] = "PROVISIONING" /\ task[k] = "none"
  BY <1>2 DEF IsoInv, Fresh, Ends
<1>4. pc'[k] \in Ends /\ \A j \in Jobs : j # k => pc'[j] = pc[j]
  BY <1>1, <1>2 DEF LaunchInstance, LaunchLost, Launch, Refused, Leave, Goto, Ends
<1>5. CASE LaunchInstance(k)
  BY <1>2, <1>3, <1>4, <1>5
  DEF LaunchInstance, Do, requests, IsoInv, Accounts, IsoTypeOK, Fresh, TornDown, Snapshot, InstancesAccounted, Lives, Isos
<1>6. CASE LaunchLost(k)
  BY <1>2, <1>3, <1>4, <1>6
  DEF LaunchLost, requests, IsoInv, Accounts, IsoTypeOK, Fresh, TornDown, Snapshot, InstancesAccounted, Lives, Isos
<1>7. QED
  BY <1>5, <1>6

LEMMA IsoKeepsAccounts ==
  ASSUME IsoInv, NEW k \in Jobs, IsoStep(k), ~LaunchInstance(k), ~LaunchLost(k) PROVE Accounts'
<1> USE DEF vars, threads, around, Do, Becomes, requests, IsoInv, Accounts, IsoTypeOK, Fresh, TornDown, Snapshot,
    InstancesAccounted, Lives, Isos
<1>1. CASE SaveInstance(k)
  BY <1>1 DEF SaveInstance
<1>2. CASE Booted(k)
  BY <1>2 DEF Booted, Phases
<1>3. CASE NotBooted(k)
  BY <1>3 DEF NotBooted, Phases
<1>4. CASE FinishInstallation(k)
  BY <1>4 DEF FinishInstallation, Reads, NoRequest
<1>5. CASE Finish(k)
  <2>1. /\ request.op = "finish" /\ request.job = k /\ request' = NoRequest
        /\ phase' = [phase EXCEPT ![k] = "COMPLETED"]
        /\ k \in known' <=> request.known
        /\ \A j \in Jobs : j # k => (j \in known' <=> j \in known)
        /\ k \in putBack' <=> k \in putBack \/ Outdated(k)
        /\ \A j \in Jobs : j # k => (j \in putBack' <=> j \in putBack)
        /\ UNCHANGED <<pc, crashed, task, instance, lost, unclean>>
    BY <1>5 DEF Finish, PutDocument, PutKnown
  <2>2. k \in Isos /\ phase[k] \in {"INSTALLING", "CANCELLED"} /\ pc[k] \in Ends
    BY <2>1 DEF Ends
  <2>. QED
    BY <2>1, <2>2 DEF Outdated, NoRequest, Phases
<1>6. CASE CancelIso(k)
  BY <1>6 DEF CancelIso, Cancellable, Running, Ends, NoRequest
<1>7. CASE CancelReads(k)
  BY <1>7 DEF CancelReads, Cancellable, Reads, NoRequest
<1>8. CASE CancelAsks(k)
  BY <1>8 DEF CancelAsks, CancelRequest
<1>9. CASE CancelPuts(k)
  <2>1. CASE Running(k)
    <3>1. request' = NoRequest /\ UNCHANGED <<pc, crashed, phase, known, putBack, task, instance, lost, unclean>>
      BY <1>9, <2>1 DEF CancelPuts
    <3>. QED
      BY <3>1 DEF NoRequest, Phases
  <2>2. CASE ~Running(k)
    <3>1. /\ request.op = "asked" /\ request.job = k /\ request' = NoRequest
          /\ phase' = [phase EXCEPT ![k] = request.phase]
          /\ k \in known' <=> request.known
          /\ \A j \in Jobs : j # k => (j \in known' <=> j \in known)
          /\ k \in putBack' <=> k \in putBack \/ Outdated(k)
          /\ \A j \in Jobs : j # k => (j \in putBack' <=> j \in putBack)
          /\ UNCHANGED <<pc, crashed, task, instance, lost, unclean>>
      BY <1>9, <2>2 DEF CancelPuts, PutDocument, PutKnown
    <3>. QED
      BY <2>2, <3>1 DEF Outdated, Running, NoRequest, Phases
  <2>. QED
    BY <2>1, <2>2
<1>10. CASE CancelTeardown(k)
  <2>1. /\ request.op = "cancel" /\ request.job = k /\ request' = NoRequest /\ ~Running(k)
        /\ phase' = [phase EXCEPT ![k] = request.phase] /\ task' = [task EXCEPT ![k] = "cleanup"]
        /\ k \in known' <=> request.known
        /\ \A j \in Jobs : j # k => (j \in known' <=> j \in known)
        /\ k \in putBack' <=> k \in putBack \/ Outdated(k)
        /\ \A j \in Jobs : j # k => (j \in putBack' <=> j \in putBack)
        /\ UNCHANGED <<pc, crashed, instance, lost, unclean>>
    BY <1>10 DEF CancelTeardown, PutDocument, PutKnown
  <2>. QED
    BY <2>1 DEF Outdated, Running, NoRequest, Phases
<1>11. CASE Terminate(k)
  BY <1>11 DEF Terminate
<1>12. CASE SaveCancelled(k)
  BY <1>12 DEF SaveCancelled, Phases
<1>13. CASE InstanceSettles(k)
  BY <1>13 DEF InstanceSettles
<1>14. QED
  BY <1>1, <1>2, <1>3, <1>4, <1>5, <1>6, <1>7, <1>8, <1>9, <1>10, <1>11, <1>12, <1>13 DEF IsoStep

LEMMA AroundKeepsAccounts ==
  ASSUME IsoInv, UNCHANGED <<pc, crashed, isoVars>> PROVE Accounts'
  BY DEF isoVars, requests, IsoInv, Accounts, IsoTypeOK, Fresh, TornDown, Snapshot, InstancesAccounted, Lives, Isos

LEMMA RestartKeepsAccounts == ASSUME IsoInv, RestartJobs PROVE Accounts'
<1>1. pc \in [Jobs -> Labels]
  BY DEF IsoInv, ImagesInv, ImagesTypeOK
<1>2. QED
  BY <1>1
  DEF RestartJobs, Restart, PutKnown, Outdated, NoRequest, Phases, Ends, IsoInv, Accounts, IsoTypeOK, Fresh, TornDown, Snapshot, InstancesAccounted, Lives, Isos

LEMMA NextIso == ASSUME IsoInv, [IsoNext]_<<vars, isoVars>> PROVE IsoInv'
<1>1. ImagesInv'
  BY StepIsImagesStep, NextImages DEF IsoInv
<1>2. ASSUME NEW k \in Jobs, ImageStep(k) \/ IsoStep(k) PROVE Accounts'
  BY <1>2, ImageKeepsAccounts, LaunchKeepsAccounts, IsoKeepsAccounts
<1>3. ASSUME NEW i \in Images, ImagesStep(i) PROVE Accounts'
  BY <1>3, AroundKeepsAccounts DEF ImagesStep, ImportEnds, DeleteImage, threads, around
<1>4. ASSUME ListStep PROVE Accounts'
  BY <1>4, AroundKeepsAccounts DEF ListStep, ListImages, threads
<1>5. ASSUME RestartJobs PROVE Accounts'
  BY <1>5, RestartKeepsAccounts
<1>6. ASSUME UNCHANGED <<vars, isoVars>> PROVE Accounts'
  BY <1>6, AroundKeepsAccounts DEF vars, threads, around
<1>7. QED
  BY <1>1, <1>2, <1>3, <1>4, <1>5, <1>6 DEF IsoNext, IsoInv, Accounts

\* For any jobs and wishes, every instance that lives is on record, about to be, or was lost at its launch; a
\* cancelled job has none that could be terminated; and a job nobody works on that says INSTALLING or COMPLETED
\* has its instance running, unless the helper was restarted; a job apart over whose document a request put back an
\* older one.
THEOREM InstancesAreAccounted == IsoSpec => []InstancesAccounted
<1>1. IsoInv => InstancesAccounted
  BY DEF IsoInv
<1>2. QED
  BY <1>1, InitIso, NextIso, PTL DEF IsoSpec
================================================================================
