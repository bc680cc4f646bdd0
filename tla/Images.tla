-------------------------------- MODULE Images --------------------------------
(***************************************************************************)
(* The custom images the helper imports into OCI and shares among its jobs: *)
(* seed images (oci/seed_image.py) and images of installer ISOs             *)
(* (oci/iso_install.py), with the plumbing of oci/image_import.py.  A job   *)
(* looks for an image of the identity it wants, repairs its capability      *)
(* schema or imports a new one, and launches its instance from it.          *)
(*                                                                          *)
(* An identity stands for the tags and the launch mode an image is found    *)
(* by; a class for the device class its schema gives to data volumes.  A    *)
(* job makes one image at most, so an image bears the name of its job.      *)
(***************************************************************************)
EXTENDS Naturals, FiniteSets

CONSTANTS
  Jobs,       \* the jobs, each a run of prepare (seed) or IsoInstaller.run (ISO)
  Old,        \* images from before, when the schema did not follow the launch options
  NoImage,    \* no image
  Want,       \* of a job or an old image: its identity, class, and whether it is a seed or of a client edition
  FaultSets   \* what may go wrong: see the faults of Init

Images  == Jobs \cup Old
Classes == {"PARAVIRTUALIZED", "SCSI"}   \* ISCSI is told apart from them as they are from each other

ASSUME ImagesAssumption ==
  /\ Jobs \cap Old = {} /\ NoImage \notin Images
  /\ \A i \in Images : Want[i].class \in Classes /\ Want[i].seed \in BOOLEAN /\ Want[i].client \in BOOLEAN

VARIABLES
  faults,     \* what may go wrong in this behaviour
  pc,         \* where the thread of each job is
  img,        \* the image the job goes on with (seed_image_id, iso_image_id)
  outcome,    \* how create() is left: "ok", "failed" or "cancelled"
  cancelled,  \* jobs in _cancel_requested
  state,      \* OCI: the life cycle of each image
  schema,     \* OCI: the class of data volumes in the image's capability schema, or "none"
  named,      \* OCI: the image has the operating system it is wanted for
  bucket,     \* OCI: the seed bucket exists
  objects,    \* OCI: placeholders in the bucket
  stuck,      \* jobs whose placeholder could not be deleted, or whose upload failed with it stored
  todo,       \* images a DELETE of the seed or ISO images is about to delete
  crashed     \* the helper was restarted (bounds the model to one)

threads == <<pc, img, outcome>>
pool    == <<state, schema, named>>
storage == <<bucket, objects, stuck>>
around  == <<faults, cancelled, todo, crashed>>
vars    == <<threads, pool, storage, around>>

Ends == {"launched", "failed", "cancelled"}

Goto(j, l) == pc' = [pc EXCEPT ![j] = l]

\* A step that asks check_cancel first: the job goes on at l, or ends.
GotoUnlessCancelled(j, l) == Goto(j, IF j \in cancelled THEN "cancelled" ELSE l)

\* create() is left with an outcome.  A seed's placeholder is deleted on the way out.
Leave(j, o) ==
  /\ outcome' = [outcome EXCEPT ![j] = o]
  /\ Goto(j, IF Want[j].seed THEN "release" ELSE IF o = "ok" THEN "save" ELSE o)

-----------------------------------------------------------------------------
(* get_or_create                                                            *)

Begin(j) ==
  /\ pc[j] = "idle" /\ GotoUnlessCancelled(j, "find")
  /\ UNCHANGED <<img, outcome, pool, storage, around>>

\* find, find_image: any AVAILABLE image with the tags and the launch mode.
Matching(j) == {i \in Images : state[i] = "AVAILABLE" /\ Want[i].id = Want[j].id}

Find(j) ==
  /\ pc[j] = "find"
  /\ \/ \E i \in Matching(j) : img' = [img EXCEPT ![j] = i] /\ Goto(j, "schemas")
     \/ Matching(j) = {} /\ Goto(j, IF Want[j].seed THEN "bucket" ELSE "create") /\ UNCHANGED img
  /\ UNCHANGED <<outcome, pool, storage, around>>

\* Mutant of ReadSchema: an image that has a schema is taken as it is.
ReadSchema_Trusts(j) ==
  /\ pc[j] = "schemas" /\ Goto(j, "save")
  /\ UNCHANGED <<img, outcome, pool, storage, around>>

\* ensure_data_volume_types: an image without a schema is left alone.
ReadSchema(j) ==
  /\ pc[j] = "schemas"
  /\ Goto(j, IF schema[img[j]] \in {"none", Want[j].class} THEN "save" ELSE "repair")
  /\ UNCHANGED <<img, outcome, pool, storage, around>>

RepairSchema(j) ==
  /\ pc[j] = "repair" /\ Goto(j, "save")
  /\ schema' = [schema EXCEPT ![img[j]] = Want[j].class]
  /\ UNCHANGED <<img, outcome, state, named, storage, around>>

-----------------------------------------------------------------------------
(* create, create_image                                                     *)

\* _ensure_bucket looks for the bucket ...
Bucket(j) ==
  /\ pc[j] = "bucket" /\ Goto(j, IF bucket THEN "put" ELSE "makeBucket")
  /\ UNCHANGED <<img, outcome, pool, storage, around>>

\* ... and makes it, unless another job did so in between: OCI answers 409.
MakeBucket(j) ==
  /\ pc[j] = "makeBucket" /\ bucket' = TRUE
  /\ Goto(j, IF bucket THEN "failed" ELSE "put")
  /\ UNCHANGED <<img, outcome, pool, objects, stuck, around>>

\* Mutant of Object: the placeholder is named after the image alone.
Object_Shared(j) == Want[j].id

\* The name of the placeholder, which is unique.
Object(j) == j

Put(j) ==
  /\ pc[j] = "put" /\ objects' = objects \cup {Object(j)} /\ Goto(j, "create")
  /\ UNCHANGED <<img, outcome, pool, bucket, stuck, around>>

\* CreateImage is accepted.  A report of progress, which looks at the cancel flag, follows it for a seed
\* and precedes it for an ISO.
Create(j) ==
  /\ pc[j] = "create"
  /\ IF j \in cancelled THEN Leave(j, "cancelled") ELSE Goto(j, "import") /\ UNCHANGED outcome
  /\ IF j \in cancelled /\ ~Want[j].seed
       THEN UNCHANGED <<state, img, named>>
       ELSE /\ state' = [state EXCEPT ![j] = "IMPORTING"] /\ img' = [img EXCEPT ![j] = j]
            /\ named' = [named EXCEPT ![j] = ~Want[j].client]
  /\ UNCHANGED <<schema, storage, around>>

\* wait_import, with the reports of progress that look at the cancel flag.
WaitImport(j) ==
  /\ pc[j] = "import"
  /\ \/ state[j] = "AVAILABLE" /\ j \notin cancelled /\ Goto(j, "register") /\ UNCHANGED outcome
     \/ state[j] = "DELETED" /\ Leave(j, "failed")
     \/ state[j] = "IMPORTING" /\ "deadline" \in faults /\ Leave(j, "failed")
     \/ state[j] # "DELETED" /\ j \in cancelled /\ Leave(j, "cancelled")
  /\ UNCHANGED <<img, pool, storage, around>>

\* A client edition of Windows is registered only now.
Register(j) ==
  /\ pc[j] = "register" /\ Goto(j, "pin")
  /\ named' = [named EXCEPT ![j] = TRUE]
  /\ UNCHANGED <<img, outcome, state, schema, storage, around>>

\* apply_capability_schema.
Pin(j) ==
  /\ pc[j] = "pin" /\ Leave(j, "ok")
  /\ schema' = [schema EXCEPT ![j] = Want[j].class]
  /\ UNCHANGED <<img, state, named, storage, around>>

\* The finally clause of create; a failure is logged.
Release(j) ==
  /\ pc[j] = "release" /\ Goto(j, IF outcome[j] = "ok" THEN "save" ELSE outcome[j])
  /\ \/ objects' = objects \ {Object(j)} /\ UNCHANGED stuck
     \/ "refuse" \in faults /\ stuck' = stuck \cup {j} /\ UNCHANGED objects
  /\ UNCHANGED <<img, outcome, pool, bucket, around>>

-----------------------------------------------------------------------------
(* The launch                                                               *)

\* The image is recorded; the next step looks at the cancel flag.
Save(j) ==
  /\ pc[j] = "save" /\ GotoUnlessCancelled(j, "shape")
  /\ UNCHANGED <<img, outcome, pool, storage, around>>

\* ensure_shape_compatible; the next step looks at the cancel flag.
Shape(j) ==
  /\ pc[j] = "shape"
  /\ IF state[img[j]] = "AVAILABLE" THEN GotoUnlessCancelled(j, "launch") ELSE Goto(j, "failed")
  /\ UNCHANGED <<img, outcome, pool, storage, around>>

\* OCI refuses an image that is gone, and one whose schema would mix device classes.
Launchable(j) == state[img[j]] = "AVAILABLE" /\ schema[img[j]] \in {"none", Want[j].class}

Launch(j) ==
  /\ pc[j] = "launch" /\ Goto(j, IF Launchable(j) THEN "launched" ELSE "failed")
  /\ UNCHANGED <<img, outcome, pool, storage, around>>

\* A call is refused; inside the try of create the placeholder is deleted.
Refused(j) ==
  /\ "refuse" \in faults
  /\ \/ pc[j] \in {"create", "import", "register", "pin"} /\ Leave(j, "failed")
     \/ /\ pc[j] \in {"find", "schemas", "repair", "bucket", "makeBucket", "put", "shape", "launch"}
        /\ Goto(j, "failed") /\ UNCHANGED outcome
  /\ UNCHANGED <<img, pool, storage, around>>

\* A call takes effect and its answer is lost.
AnswerLost(j) ==
  /\ "refuse" \in faults
  /\ \/ /\ pc[j] = "repair" /\ Goto(j, "failed") /\ schema' = [schema EXCEPT ![img[j]] = Want[j].class]
        /\ UNCHANGED <<outcome, state, named, storage>>
     \/ /\ pc[j] = "put" /\ Goto(j, "failed") /\ objects' = objects \cup {Object(j)} /\ stuck' = stuck \cup {j}
        /\ UNCHANGED <<outcome, pool, bucket>>
     \/ /\ pc[j] = "create" /\ Leave(j, "failed") /\ state' = [state EXCEPT ![j] = "IMPORTING"]
        /\ named' = [named EXCEPT ![j] = ~Want[j].client]
        /\ UNCHANGED <<schema, storage>>
     \/ /\ pc[j] = "pin" /\ Leave(j, "failed") /\ schema' = [schema EXCEPT ![j] = Want[j].class]
        /\ UNCHANGED <<state, named, storage>>
  /\ UNCHANGED <<img, around>>

-----------------------------------------------------------------------------
(* Around the jobs                                                          *)

CancelRequest(j) ==
  /\ "cancel" \in faults /\ pc[j] \notin Ends /\ cancelled' = cancelled \cup {j}
  /\ UNCHANGED <<threads, pool, storage, faults, todo, crashed>>

\* OCI imports the object, if it is still there; it deletes an image whose import fails.
ImportEnds(i) ==
  /\ state[i] = "IMPORTING"
  /\ \E s \in {"AVAILABLE", "DELETED"} :
       /\ s = "AVAILABLE" => ~Want[i].seed \/ Object(i) \in objects
       /\ s = "DELETED" => "import" \in faults \/ (Want[i].seed /\ Object(i) \notin objects)
       /\ state' = [state EXCEPT ![i] = s]
  /\ UNCHANGED <<threads, schema, named, storage, around>>

\* cleanup and cleanup_images list the images of their kind ...
ListImages ==
  /\ "cleanup" \in faults /\ todo = {}
  /\ \E seed \in BOOLEAN : todo' = {i \in Images : state[i] \in {"IMPORTING", "AVAILABLE"} /\ Want[i].seed = seed}
  /\ UNCHANGED <<threads, pool, storage, faults, cancelled, crashed>>

\* ... and delete one after the other; the first refusal ends it.
DeleteImage(i) ==
  /\ i \in todo
  /\ \/ todo' = todo \ {i} /\ state' = [state EXCEPT ![i] = "DELETED"]
     \/ todo' = {} /\ UNCHANGED state
  /\ UNCHANGED <<threads, schema, named, storage, faults, cancelled, crashed>>

\* fail_stale_jobs after a restart.
Restart ==
  /\ "restart" \in faults /\ ~crashed /\ crashed' = TRUE
  /\ pc' = [j \in Jobs |-> IF pc[j] \in Ends \cup {"idle"} THEN pc[j] ELSE "failed"]
  /\ todo' = {} /\ cancelled' = {}
  /\ UNCHANGED <<img, outcome, pool, storage, faults>>

\* Old images may be there or not, and have any schema.
Init ==
  /\ faults \in FaultSets
  /\ pc = [j \in Jobs |-> "idle"] /\ img = [j \in Jobs |-> NoImage] /\ outcome = [j \in Jobs |-> "ok"]
  /\ cancelled = {} /\ todo = {} /\ crashed = FALSE
  /\ state \in {s \in [Images -> {"AVAILABLE", "none"}] : \A i \in Images : i \in Jobs => s[i] = "none"}
  /\ schema \in {s \in [Images -> Classes \cup {"none"}] : \A i \in Images : state[i] = "none" => s[i] = "none"}
  /\ named = [i \in Images |-> i \in Old]
  /\ bucket = ("nobucket" \notin faults) /\ objects = {} /\ stuck = {}

JobStep(j) ==
  \/ Begin(j) \/ Find(j) \/ ReadSchema(j) \/ RepairSchema(j)
  \/ Bucket(j) \/ MakeBucket(j) \/ Put(j) \/ Create(j) \/ WaitImport(j) \/ Register(j) \/ Pin(j) \/ Release(j)
  \/ Save(j) \/ Shape(j) \/ Launch(j) \/ Refused(j) \/ AnswerLost(j)
  \/ CancelRequest(j)

Next ==
  \/ \E j \in Jobs : JobStep(j)
  \/ \E i \in Images : ImportEnds(i) \/ DeleteImage(i)
  \/ ListImages \/ Restart

Spec == Init /\ [][Next]_vars
-----------------------------------------------------------------------------
(* Properties                                                               *)

\* The placeholder of an import goes whatever becomes of the import (the finally clause of create): unless
\* its deletion was refused, its upload went unnoticed or a restart came in between, only a job that is still
\* importing has one.
PlaceholderReleased ==
  \A j \in Jobs :
    Object(j) \in objects /\ ~crashed => j \in stuck \/ pc[j] \in {"create", "import", "register", "pin", "release"}

\* All jobs and images of the identity of job j have one class, as all that launch paravirtualized have.
Agreed(j) == \A k \in Jobs : Want[k].id = Want[j].id => Want[k].class = Want[j].class

\* "A reused image with such a stale schema is repaired before the launch" (docs/architecture.md), and stays so
\* until the launch: whatever other jobs import, repair or launch meanwhile, as long as they want the same.
SchemaFits ==
  \A j \in Jobs :
    pc[j] \in {"save", "shape", "launch"} /\ Agreed(j) => schema[img[j]] \in {"none", Want[j].class}

\* Jobs do not get into each other's way: with the bucket there, and if OCI does what it is asked to, no job
\* fails, whoever else imports, cancels or reuses images at the same time.
Undisturbed == faults \subseteq {"cancel"} => \A j \in Jobs : Agreed(j) => pc[j] # "failed"
================================================================================
