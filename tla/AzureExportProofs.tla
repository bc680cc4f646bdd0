------------------------------ MODULE AzureExportProofs ------------------------------
(***************************************************************************)
(* What copy_ranges guarantees for any number of threads, chunks and tries  *)
(* and for whatever the blob service, the device, the renewal of the SAS    *)
(* and the cancel check answer: it returns normally only with every chunk   *)
(* written, it reports the first exception, and no chunk has two threads.   *)
(* The export of an Azure VM uses the download threads as RangeCopy         *)
(* describes them, whatever the disks, listings, attempts and threads: so   *)
(* what is shown of copy_ranges holds inside every export.  Of the export   *)
(* itself: the saved record covers what exists in Azure, what a task leaves *)
(* behind is recorded, an expired SAS is renewed once, the chunks of any    *)
(* listing are its allocated bytes, and a copied disk is whole.             *)
(***************************************************************************)
EXTENDS AzureExport, FiniteSetTheorems, TLAPS

(* The download threads of copy_ranges                                      *)

LEMMA ChunkListFacts == Len(<<>>) = 0 /\ \A cs \in ChunkLists : Len(cs) \in Nat
BY ChunksAssumption

CallTypeOK ==
  /\ active \in BOOLEAN /\ stop \in BOOLEAN /\ recent \in BOOLEAN
  /\ failure \in Exceptions \cup {"none"}
  /\ holder \in Workers \cup {NoWorker}

QueueTypeOK ==
  /\ Len(chunks) \in Nat
  /\ next \in 1..Len(chunks) + 1
  /\ written \in SUBSET Nat

ThreadTypeOK ==
  /\ wpc \in [Workers -> WorkerPC]
  /\ chunk \in [Workers -> Nat]
  /\ try \in [Workers -> Nat]
  /\ exc \in [Workers -> Exceptions \cup {"none"}]

CopyTypeOK == CallTypeOK /\ QueueTypeOK /\ ThreadTypeOK

Held(w) == wpc[w] \in Holding

\* Only chunks that were taken off the queue are held or written.
Taken ==
  /\ \A w \in Workers : Held(w) => chunk[w] \in 1..next - 1
  /\ written \subseteq 1..next - 1

\* A chunk that was taken off the queue is written or in some thread's hands, unless an exception is
\* known or about to be reported.
Accounted ==
  \/ failure # "none"
  \/ \E w \in Workers : wpc[w] = "fail"
  \/ \A c \in 1..next - 1 : c \in written \/ \E w \in Workers : Held(w) /\ chunk[w] = c

\* Nobody is told to stop before the reason is known, and who reports "aborted" was told to stop.
StopHasReason ==
  /\ stop => failure # "none"
  /\ \A w \in Workers : wpc[w] = "stop" => failure # "none"
  /\ \A w \in Workers : wpc[w] = "fail" => exc[w] # "none"
  /\ \A w \in Workers : wpc[w] = "fail" /\ exc[w] = "aborted" => failure # "none"

\* A thread leaves its loop because the queue is empty or because of the stop event.
DoneForAReason ==
  \A w \in Workers : active /\ wpc[w] = "done" => stop \/ next > Len(chunks)

CopyInv ==
  /\ CopyTypeOK /\ Taken /\ Accounted /\ StopHasReason /\ DoneForAReason /\ RootCause /\ ChunkOwned

USE DEF WorkerPC, Exceptions, Holding, Held

\* The invariant holds before the first call, after every return and in a new process.
LEMMA ForgetInv == Forget => CopyInv'
<1> SUFFICES ASSUME Forget PROVE CopyInv'
  OBVIOUS
<1> USE DEF Forget
<1>1. CallTypeOK' /\ QueueTypeOK' /\ ThreadTypeOK'
  <2>1. CallTypeOK'
    BY DEF CallTypeOK
  <2>2. QueueTypeOK'
    BY ChunkListFacts DEF QueueTypeOK
  <2>3. ThreadTypeOK'
    BY DEF ThreadTypeOK
  <2> QED
    BY <2>1, <2>2, <2>3
<1>2. Taken' /\ StopHasReason' /\ DoneForAReason' /\ RootCause' /\ ChunkOwned'
  BY DEF Taken, StopHasReason, DoneForAReason, RootCause, ChunkOwned
<1>3. Accounted'
  BY DEF Accounted
<1> QED
  BY <1>1, <1>2, <1>3 DEF CopyInv, CopyTypeOK

LEMMA InitInv == CopyInit => CopyInv
<1> SUFFICES ASSUME CopyInit PROVE CopyInv
  OBVIOUS
<1> USE DEF CopyInit
<1>1. CallTypeOK /\ QueueTypeOK /\ ThreadTypeOK
  <2>1. CallTypeOK
    BY DEF CallTypeOK
  <2>2. QueueTypeOK
    BY ChunkListFacts DEF QueueTypeOK
  <2>3. ThreadTypeOK
    BY DEF ThreadTypeOK
  <2> QED
    BY <2>1, <2>2, <2>3
<1>2. Taken /\ StopHasReason /\ DoneForAReason /\ RootCause /\ ChunkOwned
  BY DEF Taken, StopHasReason, DoneForAReason, RootCause, ChunkOwned
<1>3. Accounted
  BY DEF Accounted
<1> QED
  BY <1>1, <1>2, <1>3 DEF CopyInv, CopyTypeOK

\* A new call starts with every chunk in the queue.
LEMMA BeginInv == ASSUME NEW cs \in ChunkLists PROVE CopyInv /\ Begin(cs) => CopyInv'
<1> SUFFICES ASSUME CopyInv, Begin(cs) PROVE CopyInv'
  OBVIOUS
<1> USE DEF Begin
<1>1. CallTypeOK'
  BY DEF CopyInv, CopyTypeOK, CallTypeOK
<1>2. QueueTypeOK'
  BY ChunkListFacts DEF QueueTypeOK
<1>3. ThreadTypeOK'
  BY DEF ThreadTypeOK
<1>4. \A w \in Workers : wpc'[w] \in {"take", "done"} /\ (wpc'[w] = "done" => Len(chunks') = 0)
  BY ChunkListFacts
<1>5. Taken' /\ ChunkOwned' /\ StopHasReason' /\ RootCause'
  BY <1>4 DEF Taken, ChunkOwned, StopHasReason, RootCause
<1>6. Accounted' /\ DoneForAReason'
  BY <1>4 DEF Accounted, DoneForAReason
<1> QED
  BY <1>1, <1>2, <1>3, <1>5, <1>6 DEF CopyInv, CopyTypeOK

\* What a step of thread w leaves alone.
OthersStay(w) ==
  \A v \in Workers \ {w} : wpc'[v] = wpc[v] /\ chunk'[v] = chunk[v] /\ exc'[v] = exc[v]

\* A thread takes the next chunk, or leaves.
LEMMA TakeInv == ASSUME NEW w \in Workers PROVE CopyInv /\ Take(w) => CopyInv'
<1> SUFFICES ASSUME CopyInv, Take(w) PROVE CopyInv'
  OBVIOUS
<1> USE DEF Take, At
<1>0. CallTypeOK /\ QueueTypeOK /\ ThreadTypeOK
  BY DEF CopyInv, CopyTypeOK
<1>1. CallTypeOK'
  BY <1>0 DEF CallTypeOK
<1>2. QueueTypeOK'
  BY <1>0 DEF QueueTypeOK
<1>3. ThreadTypeOK'
  <2>1. (wpc \in [Workers -> WorkerPC])'
    BY <1>0 DEF ThreadTypeOK
  <2>2. (chunk \in [Workers -> Nat])'
    BY <1>0 DEF ThreadTypeOK, QueueTypeOK
  <2>3. (try \in [Workers -> Nat] /\ exc \in [Workers -> Exceptions \cup {"none"}])'
    BY <1>0 DEF ThreadTypeOK
  <2> QED
    BY <2>1, <2>2, <2>3 DEF ThreadTypeOK
<1>4. OthersStay(w)
  BY <1>0 DEF OthersStay, ThreadTypeOK
<1>5. UNCHANGED <<active, chunks, failure, stop, written, exc>>
  OBVIOUS
<1>6. \/ ~stop /\ wpc'[w] = "check" /\ chunk'[w] = next /\ next' = next + 1
      \/ (stop \/ next > Len(chunks)) /\ wpc'[w] = "done" /\ next' = next
  BY <1>0 DEF ThreadTypeOK
<1>7. wpc[w] = "take"
  OBVIOUS
<1>8. Taken' /\ Accounted' /\ StopHasReason' /\ DoneForAReason' /\ RootCause' /\ ChunkOwned'
  <2> USE <1>0, <1>4, <1>5, <1>6, <1>7 DEF OthersStay, QueueTypeOK
  <2> HIDE DEF Take, At
  <2>1. Taken'
    BY DEF CopyInv, Taken
  <2>2. Accounted'
    BY DEF CopyInv, Accounted
  <2>3. StopHasReason' /\ RootCause'
    BY DEF CopyInv, StopHasReason, RootCause
  <2>4. DoneForAReason'
    BY DEF CopyInv, DoneForAReason
  <2>5. ChunkOwned'
    BY DEF CopyInv, ChunkOwned, Taken
  <2> QED
    BY <2>1, <2>2, <2>3, <2>4, <2>5
<1> QED
  BY <1>1, <1>2, <1>3, <1>8 DEF CopyInv, CopyTypeOK

\* A thread that stays with its chunk, or leaves its loop by an exception, disturbs nothing.
Stays(w, l)  == wpc' = [wpc EXCEPT ![w] = l] /\ l \in Holding /\ exc' = exc
Throws(w, e) == /\ wpc' = [wpc EXCEPT ![w] = "fail"] /\ exc' = [exc EXCEPT ![w] = e]
                /\ e \in Exceptions /\ (e = "aborted" => stop)
OwnStep(w) ==
  /\ Held(w)
  /\ (\E l \in Holding : Stays(w, l)) \/ (\E e \in Exceptions : Throws(w, e))
  /\ try' \in [Workers -> Nat]

LEMMA OwnStepInv ==
  ASSUME NEW w \in Workers, CopyInv, OwnStep(w),
         holder' \in Workers \cup {NoWorker}, recent' \in BOOLEAN,
         UNCHANGED <<active, chunks, next, chunk, failure, stop, written>>
  PROVE  CopyInv'
<1>0. CallTypeOK /\ QueueTypeOK /\ ThreadTypeOK
  BY DEF CopyInv, CopyTypeOK
<1>1. CallTypeOK' /\ QueueTypeOK'
  BY <1>0 DEF CallTypeOK, QueueTypeOK
<1>2. ThreadTypeOK' /\ OthersStay(w)
  <2>1. CASE \E l \in Holding : Stays(w, l)
    BY <1>0, <2>1 DEF ThreadTypeOK, OthersStay, Stays, OwnStep
  <2>2. CASE \E e \in Exceptions : Throws(w, e)
    BY <1>0, <2>2 DEF ThreadTypeOK, OthersStay, Throws, OwnStep
  <2> QED
    BY <2>1, <2>2 DEF OwnStep
<1>3. \/ wpc'[w] \in Holding
      \/ wpc'[w] = "fail" /\ exc'[w] \in Exceptions /\ (exc'[w] = "aborted" => stop)
  BY <1>0 DEF OwnStep, Stays, Throws, ThreadTypeOK
<1>4. wpc[w] \in Holding
  BY DEF OwnStep
<1> USE <1>0, <1>2, <1>3, <1>4 DEF OthersStay, CopyInv
<1>5. Taken' /\ ChunkOwned'
  BY DEF Taken, ChunkOwned
<1>6. Accounted'
  BY DEF Accounted
<1>7. StopHasReason' /\ DoneForAReason' /\ RootCause'
  BY DEF StopHasReason, DoneForAReason, RootCause
<1> QED
  BY <1>1, <1>5, <1>6, <1>7 DEF CopyTypeOK

\* The end of a failed try is such a step.
LEMMA TryAgainMoves ==
  ASSUME NEW w \in Workers, CopyInv, Held(w), TryAgain(w)
  PROVE  OwnStep(w)
<1>0. ThreadTypeOK
  BY DEF CopyInv, CopyTypeOK
<1>1. CASE try[w] < Retries
  BY <1>0, <1>1 DEF TryAgain, At, OwnStep, Stays, ThreadTypeOK
<1>2. CASE ~(try[w] < Retries)
  BY <1>0, <1>2 DEF TryAgain, At, Throw, OwnStep, Throws, ThreadTypeOK
<1> QED
  BY <1>1, <1>2

LEMMA FetchingInv ==
  ASSUME NEW w \in Workers, CopyInv,
         \/ \E cancelled \in BOOLEAN : CheckCancelled(w, cancelled)
         \/ \E answer \in Answers : Fetch(w, answer)
         \/ EnterRenewal(w)
         \/ \E result \in {"ok", "error", "cancelled"} : LeaveRenewal(w, result)
  PROVE  CopyInv'
<1>0. CallTypeOK /\ ThreadTypeOK
  BY DEF CopyInv, CopyTypeOK
<1>1. CASE \E cancelled \in BOOLEAN : CheckCancelled(w, cancelled)
  <2>0. Held(w) /\ try \in [Workers -> Nat]
    BY <1>0, <1>1 DEF CheckCancelled, ThreadTypeOK
  <2>1. OwnStep(w)
    <3>1. CASE Throw(w, "cancelled") /\ UNCHANGED try
      BY <2>0, <3>1 DEF OwnStep, Throw, Throws, At
    <3>2. CASE At(w, "fetch") /\ try' = [try EXCEPT ![w] = 1] /\ UNCHANGED exc
      BY <2>0, <3>2 DEF OwnStep, Stays, At
    <3> QED
      BY <1>1, <3>1, <3>2 DEF CheckCancelled
  <2> QED
    BY <1>0, <1>1, <2>1, OwnStepInv DEF CheckCancelled, CallTypeOK
<1>2. CASE \E answer \in Answers : Fetch(w, answer)
  <2>0. Held(w) /\ try \in [Workers -> Nat]
    BY <1>0, <1>2 DEF Fetch, ThreadTypeOK
  <2>1. OwnStep(w)
    <3>1. CASE stop /\ Throw(w, "aborted") /\ UNCHANGED try
      BY <2>0, <3>1 DEF OwnStep, Throw, Throws, At
    <3>2. CASE (At(w, "write") \/ At(w, "renew")) /\ UNCHANGED <<try, exc>>
      BY <2>0, <3>2 DEF OwnStep, Stays, At
    <3>3. CASE TryAgain(w)
      BY <2>0, <3>3, TryAgainMoves
    <3> QED
      BY <1>2, <3>1, <3>2, <3>3 DEF Fetch
  <2> QED
    BY <1>0, <1>2, <2>1, OwnStepInv DEF Fetch, CallTypeOK
<1>3. CASE EnterRenewal(w)
  <2>0. Held(w) /\ try \in [Workers -> Nat]
    BY <1>0, <1>3 DEF EnterRenewal, ThreadTypeOK
  <2>1. CASE TryAgain(w) /\ UNCHANGED holder
    BY <1>0, <1>3, <2>0, <2>1, TryAgainMoves, OwnStepInv DEF EnterRenewal, CallTypeOK
  <2>2. CASE holder' = w /\ At(w, "renewing") /\ UNCHANGED <<try, exc>>
    <3>1. OwnStep(w)
      BY <2>0, <2>2 DEF OwnStep, Stays, At
    <3> QED
      BY <1>0, <1>3, <2>2, <3>1, OwnStepInv DEF EnterRenewal, CallTypeOK
  <2> QED
    BY <1>3, <2>1, <2>2 DEF EnterRenewal
<1>4. CASE \E result \in {"ok", "error", "cancelled"} : LeaveRenewal(w, result)
  <2>0. Held(w) /\ try \in [Workers -> Nat]
    BY <1>0, <1>4 DEF LeaveRenewal, ThreadTypeOK
  <2>1. OwnStep(w)
    <3>1. CASE Throw(w, "cancelled") /\ UNCHANGED try
      BY <2>0, <3>1 DEF OwnStep, Throw, Throws, At
    <3>2. CASE TryAgain(w)
      BY <2>0, <3>2, TryAgainMoves
    <3> QED
      BY <1>4, <3>1, <3>2 DEF LeaveRenewal
  <2>2. recent' \in BOOLEAN /\ holder' \in Workers \cup {NoWorker}
    BY <1>0, <1>4 DEF LeaveRenewal, CallTypeOK
  <2> QED
    BY <1>4, <2>1, <2>2, OwnStepInv DEF LeaveRenewal
<1> QED
  BY <1>1, <1>2, <1>3, <1>4

\* A chunk that leaves a thread's hands has been written, or an exception is under way.
LEMMA WriteInv == ASSUME NEW w \in Workers, NEW ok \in BOOLEAN PROVE CopyInv /\ Write(w, ok) => CopyInv'
<1> SUFFICES ASSUME CopyInv, Write(w, ok) PROVE CopyInv'
  OBVIOUS
<1>0. CallTypeOK /\ QueueTypeOK /\ ThreadTypeOK
  BY DEF CopyInv, CopyTypeOK
<1>1. UNCHANGED <<active, chunks, next, chunk, failure, stop, holder, recent>> /\ wpc[w] = "write"
  BY DEF Write
<1>2. try' \in [Workers -> Nat]
  BY <1>0 DEF Write, ThreadTypeOK
<1>3. \/ wpc' = [wpc EXCEPT ![w] = "take"] /\ written' = written \cup {chunk[w]} /\ exc' = exc
      \/ wpc' = [wpc EXCEPT ![w] = "fail"] /\ written' = written /\ exc' = [exc EXCEPT ![w] = "failed"]
  BY DEF Write, Throw, At
<1>4. ThreadTypeOK' /\ OthersStay(w)
  BY <1>0, <1>1, <1>2, <1>3 DEF ThreadTypeOK, OthersStay
<1>5. \/ wpc'[w] = "take" /\ written' = written \cup {chunk[w]}
      \/ wpc'[w] = "fail" /\ written' = written /\ exc'[w] = "failed"
  BY <1>0, <1>3 DEF ThreadTypeOK
<1>6. CallTypeOK' /\ QueueTypeOK'
  BY <1>0, <1>1, <1>5 DEF CallTypeOK, QueueTypeOK, ThreadTypeOK
<1> USE <1>0, <1>1, <1>4, <1>5 DEF OthersStay, CopyInv
<1>7. Taken' /\ ChunkOwned'
  BY DEF Taken, ChunkOwned
<1>8. Accounted'
  BY DEF Accounted
<1>9. StopHasReason' /\ DoneForAReason' /\ RootCause'
  BY DEF StopHasReason, DoneForAReason, RootCause
<1> QED
  BY <1>6, <1>7, <1>8, <1>9 DEF CopyTypeOK

\* The first exception is kept ...
LEMMA ReportInv == ASSUME NEW w \in Workers PROVE CopyInv /\ ReportFailure(w) => CopyInv'
<1> SUFFICES ASSUME CopyInv, ReportFailure(w) PROVE CopyInv'
  OBVIOUS
<1>0. CallTypeOK /\ QueueTypeOK /\ ThreadTypeOK
  BY DEF CopyInv, CopyTypeOK
<1>1. /\ UNCHANGED <<active, chunks, next, chunk, try, exc, stop, holder, recent, written>>
      /\ wpc[w] = "fail" /\ wpc' = [wpc EXCEPT ![w] = "stop"]
      /\ failure' = IF failure = "none" THEN exc[w] ELSE failure
  BY DEF ReportFailure, At
<1>2. failure' \in Exceptions /\ failure' # "aborted"
  BY <1>0, <1>1 DEF CopyInv, StopHasReason, RootCause, CallTypeOK, ThreadTypeOK
<1>3. CallTypeOK' /\ QueueTypeOK'
  BY <1>0, <1>1, <1>2 DEF CallTypeOK, QueueTypeOK
<1>4. ThreadTypeOK' /\ OthersStay(w) /\ wpc'[w] = "stop"
  BY <1>0, <1>1 DEF ThreadTypeOK, OthersStay
<1> USE <1>0, <1>1, <1>2, <1>4 DEF OthersStay, CopyInv
<1>5. Taken' /\ ChunkOwned'
  BY DEF Taken, ChunkOwned
<1>6. Accounted' /\ RootCause'
  BY DEF Accounted, RootCause
<1>7. StopHasReason' /\ DoneForAReason'
  BY DEF StopHasReason, DoneForAReason
<1> QED
  BY <1>3, <1>5, <1>6, <1>7 DEF CopyTypeOK

\* ... and only then does the thread set the event.
LEMMA SetStopInv == ASSUME NEW w \in Workers PROVE CopyInv /\ SetStop(w) => CopyInv'
<1> SUFFICES ASSUME CopyInv, SetStop(w) PROVE CopyInv'
  OBVIOUS
<1>0. CallTypeOK /\ QueueTypeOK /\ ThreadTypeOK
  BY DEF CopyInv, CopyTypeOK
<1>1. /\ UNCHANGED <<active, chunks, next, failure, holder, recent, written>>
      /\ wpc[w] = "stop" /\ stop' = TRUE
  BY DEF SetStop
<1>2. CallTypeOK' /\ QueueTypeOK'
  BY <1>0, <1>1 DEF CallTypeOK, QueueTypeOK
<1>3. (wpc \in [Workers -> WorkerPC] /\ chunk \in [Workers -> Nat])'
  BY <1>0 DEF SetStop, At, ThreadTypeOK
<1>4. (try \in [Workers -> Nat] /\ exc \in [Workers -> Exceptions \cup {"none"}])'
  BY <1>0 DEF SetStop, At, ThreadTypeOK
<1>5. OthersStay(w) /\ wpc'[w] = "done"
  BY <1>0 DEF SetStop, At, ThreadTypeOK, OthersStay
<1> USE <1>0, <1>1, <1>5 DEF OthersStay, CopyInv
<1>6. Taken' /\ ChunkOwned'
  BY DEF Taken, ChunkOwned
<1>7. StopHasReason' /\ DoneForAReason' /\ RootCause'
  BY DEF StopHasReason, DoneForAReason, RootCause
<1>8. Accounted'
  BY DEF Accounted, StopHasReason
<1> QED
  BY <1>2, <1>3, <1>4, <1>6, <1>7, <1>8 DEF CopyTypeOK, ThreadTypeOK

LEMMA StepInv == CopyInv /\ [CopyNext]_copyVars => CopyInv'
<1> SUFFICES ASSUME CopyInv, [CopyNext]_copyVars PROVE CopyInv'
  OBVIOUS
<1>1. CASE \E cs \in ChunkLists : Begin(cs)
  BY <1>1, BeginInv
<1>2. CASE \E w \in Workers :
             \/ Take(w) \/ EnterRenewal(w) \/ ReportFailure(w) \/ SetStop(w)
             \/ \E cancelled \in BOOLEAN : CheckCancelled(w, cancelled)
             \/ \E answer \in Answers : Fetch(w, answer)
             \/ \E result \in {"ok", "error", "cancelled"} : LeaveRenewal(w, result)
             \/ \E ok \in BOOLEAN : Write(w, ok)
  BY <1>2, TakeInv, FetchingInv, WriteInv, ReportInv, SetStopInv
<1>3. CASE ForgetRenewal \/ UNCHANGED copyVars
  <2>1. CallTypeOK' /\ QueueTypeOK' /\ ThreadTypeOK'
    BY <1>3 DEF CopyInv, CopyTypeOK, CallTypeOK, QueueTypeOK, ThreadTypeOK, ForgetRenewal, copyVars
  <2>2. UNCHANGED <<active, chunks, next, wpc, chunk, exc, failure, stop, written>>
    BY <1>3 DEF ForgetRenewal, copyVars
  <2>3. Taken' /\ ChunkOwned' /\ RootCause'
    BY <2>2 DEF CopyInv, Taken, ChunkOwned, RootCause
  <2>4. Accounted'
    BY <2>2 DEF CopyInv, Accounted
  <2>5. StopHasReason' /\ DoneForAReason'
    BY <2>2 DEF CopyInv, StopHasReason, DoneForAReason
  <2> QED
    BY <2>1, <2>3, <2>4, <2>5 DEF CopyInv, CopyTypeOK
<1>4. CASE Return \/ Die
  BY <1>4, ForgetInv DEF Return, Die
<1> QED
  BY <1>1, <1>2, <1>3, <1>4 DEF CopyNext

\* Threads that are all done, and no failure: the queue was empty and nothing is in anyone's hands.
LEMMA InvIsComplete == CopyInv => CopyComplete
<1> SUFFICES ASSUME CopyInv, Returned, failure = "none" PROVE written = 1..Len(chunks)
  BY DEF CopyComplete
<1>1. PICK w \in Workers : wpc[w] = "done"
  BY WorkersAssumption DEF Returned, Joined
<1>2. next = Len(chunks) + 1
  BY <1>1 DEF CopyInv, CopyTypeOK, QueueTypeOK, CallTypeOK, DoneForAReason, StopHasReason, Returned
<1>3. \A c \in 1..next - 1 : c \in written
  BY DEF CopyInv, Accounted, Returned, Joined
<1>4. written \subseteq 1..Len(chunks) /\ 1..Len(chunks) \subseteq written
  <2>1. next - 1 = Len(chunks)
    BY <1>2 DEF CopyInv, CopyTypeOK, QueueTypeOK
  <2>2. written \subseteq 1..next - 1
    BY DEF CopyInv, Taken
  <2> QED
    BY <1>3, <2>1, <2>2
<1> QED
  BY <1>4

\* copy_ranges returns normally only when every chunk of the list it was given has been written.
THEOREM CopyReturnsComplete == CopySpec => []CopyComplete
BY InvIsComplete, InitInv, StepInv, PTL DEF CopySpec

\* The exception a caller of copy_ranges sees is never the "aborted" of a thread that was told to stop.
THEOREM CopyReportsRootCause == CopySpec => []RootCause
<1>1. CopyInv => RootCause
  BY DEF CopyInv
<1> QED
  BY <1>1, InitInv, StepInv, PTL DEF CopySpec

\* No chunk is ever in the hands of two threads, so no two threads write the same bytes of the volume.
THEOREM CopyNeverSharesChunk == CopySpec => []ChunkOwned
<1>1. CopyInv => ChunkOwned
  BY DEF CopyInv
<1> QED
  BY <1>1, InitInv, StepInv, PTL DEF CopySpec

-----------------------------------------------------------------------------
(* The export around them                                                   *)

\* An access operation that is under way while a disk is copied belongs to the thread with the refresh lock.
RenewalOwned ==
  /\ lro # "idle" => pc \in {"grant", "renew", "copy"}
  /\ pc = "copy" /\ lro # "idle" => holder \in Workers /\ wpc[holder] = "renewing"

CopyStep == CopyNext \/ UNCHANGED copyVars

USE DEF Goto, Exit, WorkerPC, Exceptions

\* Granted gives the result of a renewal to the thread that asked for it.
LEMMA GrantedStep ==
  ASSUME RenewalOwned, lro # "idle", NEW result \in {"ok", "error", "cancelled"}, Granted(result)
  PROVE  CopyStep
<1>1. CASE UNCHANGED copyVars
  BY <1>1 DEF CopyStep
<1>2. CASE pc = "copy" /\ LeaveRenewal(holder, result)
  <2>1. holder \in Workers
    BY <1>2 DEF RenewalOwned
  <2> QED
    BY <1>2, <2>1 DEF CopyStep, CopyNext
<1> QED
  BY <1>1, <1>2 DEF Granted

LEMMA AccessCopyStep == RenewalOwned /\ AccessStep => CopyStep
<1>1. EndAccess => CopyStep
  BY DEF EndAccess, CopyStep
<1>2. RenewalOwned /\ PostAccess => CopyStep
  BY GrantedStep DEF PostAccess, CopyStep, copyVars
<1>3. RenewalOwned /\ AwaitAccess => CopyStep
  BY GrantedStep DEF AwaitAccess
<1> QED
  BY <1>1, <1>2, <1>3 DEF AccessStep

\* The chunks of a listing are among the lists a copy may be given.
LEMMA ListCopyStep == List => CopyStep
<1> SUFFICES ASSUME List PROVE CopyStep
  OBVIOUS
<1>1. CASE UNCHANGED copyVars
  BY <1>1 DEF CopyStep
<1>2. CASE listing' \in Listings /\ Begin(Split(Merge(listing', Limit), ChunkBytes))
  <2>1. Split(Merge(listing', Limit), ChunkBytes) \in ChunkLists
    BY <1>2, AzureAssumption
  <2> QED
    BY <1>2, <2>1 DEF CopyStep, CopyNext
<1> QED
  BY <1>1, <1>2 DEF List

LEMMA TaskCopyStep == TaskStep => CopyStep
<1>1. RecordSnapshot \/ PutSnapshot \/ AwaitSnapshot \/ BeginGrant => CopyStep
  BY DEF RecordSnapshot, PutSnapshot, AwaitSnapshot, BeginGrant, CopyStep
<1>2. NextDisk \/ OpenDevice \/ Prepare => CopyStep
  BY DEF NextDisk, OpenDevice, Prepare, CopyStep
<1>3. Copied => CopyStep
  BY DEF Copied, CopyStep, CopyNext
<1>4. RevokeNext \/ ToSnapshots \/ DeleteNext \/ SaveReleased \/ Teardown \/ Finish => CopyStep
  BY DEF RevokeNext, ToSnapshots, DeleteNext, SaveReleased, Teardown, Finish, CopyStep
<1> QED
  BY <1>1, <1>2, <1>3, <1>4, ListCopyStep DEF TaskStep

LEMMA WorkerCopyStep == ASSUME NEW w \in Workers, WorkerStep(w) PROVE CopyStep
<1>1. CASE \E answer \in Answers : Fetch(w, answer)
  BY <1>1 DEF CopyStep, CopyNext
<1>2. CASE CheckCancelled(w, cancel)
  BY <1>2 DEF CopyStep, CopyNext, CheckCancelled
<1>3. CASE Take(w) \/ ReportFailure(w) \/ SetStop(w) \/ EnterRenewal(w) \/ \E ok \in BOOLEAN : Write(w, ok)
  BY <1>3 DEF CopyStep, CopyNext
<1> QED
  BY <1>1, <1>2, <1>3 DEF WorkerStep, Answers

\* Every step of the export is one of the threads', or leaves them alone.
LEMMA NextCopyStep == RenewalOwned /\ [Next]_vars => CopyStep
<1>1. CancelRunning \/ CancelFailed \/ LateReads \/ LateAsks \/ LatePuts \/ LateTeardown \/ KillLogin \/ Tick => CopyStep
  BY DEF CancelRunning, CancelFailed, LateReads, LateAsks, LatePuts, LateTeardown, KillLogin, Tick, CopyStep
<1>2. Forget30 \/ Crash => CopyStep
  BY DEF Forget30, Crash, CopyStep, CopyNext
<1>3. UNCHANGED vars => CopyStep
  BY DEF vars, CopyStep
<1> QED
  BY <1>1, <1>2, <1>3, TaskCopyStep, AccessCopyStep, WorkerCopyStep DEF Next

-----------------------------------------------------------------------------
(* RenewalOwned is kept by every step, given the invariant of the threads.  *)

ThreadsTyped == wpc \in [Workers -> WorkerPC]

\* A step during which no access operation is under way, nor starts on a download thread.
LEMMA IdleStaysOwned ==
  ASSUME lro' = "idle" \/ (pc' \in {"grant", "renew"} /\ lro' # "idle")
  PROVE  RenewalOwned'
BY DEF RenewalOwned

\* A step that leaves the operation, its place and the threads as they are.
LEMMA SameStaysOwned ==
  ASSUME RenewalOwned, UNCHANGED <<copyVars, pc, lro>>
  PROVE  RenewalOwned'
BY DEF RenewalOwned, copyVars

LEMMA TaskKeepsOwned == RenewalOwned /\ ThreadsTyped /\ TaskStep => RenewalOwned'
<1> SUFFICES ASSUME RenewalOwned, ThreadsTyped, TaskStep PROVE RenewalOwned'
  OBVIOUS
<1>1. CASE BeginGrant
  <2>1. lro' = "idle" \/ (pc' = "grant" /\ lro' # "idle")
    BY <1>1 DEF BeginGrant
  <2> QED
    BY <2>1, IdleStaysOwned
<1>2. CASE Prepare
  <2>1. lro = "idle"
    BY <1>2 DEF Prepare, RenewalOwned
  <2>2. (pc' = "renew" /\ lro' = "end") \/ lro' = lro
    BY <1>2 DEF Prepare
  <2> QED
    BY <2>1, <2>2, IdleStaysOwned
<1>3. CASE Copied
  <2>1. pc = "copy" /\ Joined /\ lro' = lro
    BY <1>3 DEF Copied, Return
  <2>2. lro = "idle"
    BY <2>1 DEF RenewalOwned, Joined
  <2> QED
    BY <2>1, <2>2, IdleStaysOwned
<1>4. CASE RecordSnapshot \/ PutSnapshot \/ AwaitSnapshot \/ NextDisk \/ OpenDevice \/ List
  <2>1. pc \notin {"grant", "renew", "copy"} /\ lro' = lro
    BY <1>4 DEF RecordSnapshot, PutSnapshot, AwaitSnapshot, NextDisk, OpenDevice, List
  <2> QED
    BY <2>1, IdleStaysOwned DEF RenewalOwned
<1>5. CASE RevokeNext \/ ToSnapshots \/ DeleteNext \/ SaveReleased \/ Teardown \/ Finish
  <2>1. pc \notin {"grant", "renew", "copy"} /\ lro' = lro
    BY <1>5 DEF RevokeNext, ToSnapshots, DeleteNext, SaveReleased, Teardown, Finish
  <2> QED
    BY <2>1, IdleStaysOwned DEF RenewalOwned
<1> QED
  BY <1>1, <1>2, <1>3, <1>4, <1>5 DEF TaskStep

LEMMA AccessKeepsOwned == RenewalOwned /\ AccessStep => RenewalOwned'
<1> SUFFICES ASSUME RenewalOwned, AccessStep PROVE RenewalOwned'
  OBVIOUS
<1>1. CASE EndAccess
  <2>1. lro # "idle" /\ UNCHANGED <<copyVars, pc>>
    BY <1>1 DEF EndAccess
  <2> QED
    BY <2>1 DEF RenewalOwned, copyVars
<1>2. CASE PostAccess
  <2>1. lro = "post" /\ (lro' = "idle" \/ UNCHANGED <<copyVars, pc>>)
    BY <1>2 DEF PostAccess
  <2> QED
    BY <2>1, IdleStaysOwned DEF RenewalOwned, copyVars
<1>3. CASE AwaitAccess
  BY <1>3, IdleStaysOwned DEF AwaitAccess
<1> QED
  BY <1>1, <1>2, <1>3 DEF AccessStep

\* The thread in the middle of a renewal takes no step of its own, and no other gets the lock.
LEMMA WorkerKeepsOwned ==
  ASSUME NEW w \in Workers, RenewalOwned, ThreadsTyped, WorkerStep(w)
  PROVE  RenewalOwned'
<1>1. pc = "copy" /\ pc' = "copy"
  BY DEF WorkerStep
<1>2. CASE EnterRenewal(w) /\ holder' = w
  <2>1. wpc'[w] = "renewing" \/ holder = w
    BY <1>2 DEF EnterRenewal, At, ThreadsTyped
  <2>2. holder = NoWorker
    BY <1>2 DEF EnterRenewal
  <2> QED
    BY <1>1, <1>2, <2>1, <2>2, WorkersAssumption DEF RenewalOwned
<1>3. CASE ~(EnterRenewal(w) /\ holder' = w)
  <2>1. lro' = lro
    BY <1>3 DEF WorkerStep
  <2>2. wpc[w] # "renewing"
    BY DEF WorkerStep, Take, ReportFailure, SetStop, CheckCancelled, Fetch, EnterRenewal, Write
  <2>3. holder' = holder \/ holder = NoWorker
    BY DEF WorkerStep, Take, ReportFailure, SetStop, CheckCancelled, Fetch, EnterRenewal, Write
  <2>4. \E l \in WorkerPC : At(w, l)
    <3>1. CASE TryAgain(w) \/ \E e \in Exceptions : Throw(w, e)
      BY <3>1 DEF TryAgain, Throw
    <3>2. CASE Take(w) \/ ReportFailure(w) \/ SetStop(w)
      BY <3>2 DEF Take, ReportFailure, SetStop
    <3>3. CASE CheckCancelled(w, cancel) \/ EnterRenewal(w)
      BY <3>1, <3>3 DEF CheckCancelled, EnterRenewal
    <3>4. CASE \E answer \in Answers : Fetch(w, answer)
      BY <3>1, <3>4 DEF Fetch
    <3>5. CASE \E ok \in BOOLEAN : Write(w, ok)
      BY <3>1, <3>5 DEF Write
    <3> QED
      BY <3>2, <3>3, <3>4, <3>5 DEF WorkerStep, Answers
  <2>5. \A v \in Workers \ {w} : wpc'[v] = wpc[v]
    BY <2>4 DEF ThreadsTyped, At
  <2> QED
    BY <1>1, <2>1, <2>2, <2>3, <2>5, WorkersAssumption DEF RenewalOwned
<1> QED
  BY <1>2, <1>3

LEMMA NextKeepsOwned == RenewalOwned /\ ThreadsTyped /\ [Next]_vars => RenewalOwned'
<1> SUFFICES ASSUME RenewalOwned, ThreadsTyped, [Next]_vars PROVE RenewalOwned'
  OBVIOUS
<1>1. CASE CancelRunning \/ LateReads \/ LateAsks \/ LatePuts \/ KillLogin \/ Tick \/ UNCHANGED vars
  <2>1. UNCHANGED <<copyVars, pc, lro>>
    BY <1>1 DEF CancelRunning, LateReads, LateAsks, LatePuts, KillLogin, Tick, vars
  <2> QED
    BY <2>1, SameStaysOwned
<1>2. CASE CancelFailed \/ LateTeardown
  <2>1. pc = "idle" /\ lro' = lro
    BY <1>2 DEF CancelFailed, LateTeardown
  <2> QED
    BY <2>1, IdleStaysOwned DEF RenewalOwned
<1>3. CASE Forget30
  BY <1>3 DEF Forget30, ForgetRenewal, RenewalOwned
<1>4. CASE Crash
  BY <1>4, IdleStaysOwned DEF Crash
<1> QED
  BY <1>1, <1>2, <1>3, <1>4, TaskKeepsOwned, AccessKeepsOwned, WorkerKeepsOwned DEF Next

ExportInv == CopyInv /\ RenewalOwned

LEMMA ExportInvInit == Init => ExportInv
BY InitInv DEF Init, ExportInv, RenewalOwned

LEMMA ExportInvNext == ExportInv /\ [Next]_vars => ExportInv' /\ CopyStep
<1> SUFFICES ASSUME ExportInv, [Next]_vars PROVE ExportInv' /\ CopyStep
  OBVIOUS
<1>1. CopyStep
  BY NextCopyStep DEF ExportInv
<1>2. CopyInv'
  BY <1>1, StepInv DEF ExportInv, CopyStep
<1>3. ThreadsTyped
  BY DEF ExportInv, CopyInv, CopyTypeOK, ThreadTypeOK, ThreadsTyped
<1> QED
  BY <1>1, <1>2, <1>3, NextKeepsOwned DEF ExportInv

\* Every export drives the download threads exactly as RangeCopy says: jobs/runner.py, azure/export.py and
\* the blob service together are one of the environments CopySpec allows.
THEOREM ExportRefinesRangeCopy == Spec => UsesRangeCopy
<1>1. ExportInv /\ [Next]_vars => [CopyNext]_copyVars
  BY ExportInvNext DEF CopyStep
<1> QED
  BY <1>1, ExportInvInit, ExportInvNext, PTL DEF Spec, UsesRangeCopy

\* In every export, a copy that returns normally has written every chunk of the listing, whatever was
\* cancelled, renewed, refused or retried meanwhile.
THEOREM ExportCopiesAll == Spec => []CopyComplete
<1>1. Init => CopyInit
  BY DEF Init
<1> QED
  BY <1>1, ExportRefinesRangeCopy, CopyReturnsComplete, PTL DEF Spec, UsesRangeCopy, CopySpec

\* In every export, the failure that decides between CANCELLED, FAILED and another attempt is the root cause.
THEOREM ExportReportsRootCause == Spec => []RootCause
<1>1. Init => CopyInit
  BY DEF Init
<1> QED
  BY <1>1, ExportRefinesRangeCopy, CopyReportsRootCause, PTL DEF Spec, UsesRangeCopy, CopySpec

\* In every export, no two download threads ever work on the same chunk of the disk.
THEOREM ExportNeverSharesChunk == Spec => []ChunkOwned
<1>1. Init => CopyInit
  BY DEF Init
<1> QED
  BY <1>1, ExportRefinesRangeCopy, CopyNeverSharesChunk, PTL DEF Spec, UsesRangeCopy, CopySpec
-----------------------------------------------------------------------------
(* The record of what exists in Azure.  RecordCovers is about the saved     *)
(* record; the release works by the thread's own document and saves that,   *)
(* so the document must cover Azure too, and name no more than the record.  *)
(* Both hold until a cancel request puts back a document that is out of date.*)

Labels ==
  {"idle", "snap", "snapPut", "snapWait", "grant", "disk", "attempt", "prepare", "renew", "list", "copy", "revoke",
   "delete", "teardown", "finish"}

RecordShapes ==
  /\ info = [snaps |-> info.snaps, sas |-> info.sas]
  /\ stored = [snaps |-> stored.snaps, sas |-> stored.sas]
  /\ grant = [i \in Disks |-> grant[i]]

\* Where the thread is, the phase of the record goes with it.
RecordPlaces ==
  /\ pc \in Labels /\ raised \in {"none", "failed", "cancelled"} /\ kept \in BOOLEAN
  /\ pc \notin {"idle", "finish", "teardown"} => phase \in {"EXPORTING", "CANCELLED"}
  /\ pc \in {"idle", "finish", "teardown"} => info = stored

DocumentCovers == ~putBack =>
  /\ snap \subseteq info.snaps
  /\ \A i \in Disks : grant[i] = "ours" => i \in info.sas
  /\ info.snaps \subseteq stored.snaps /\ info.sas \subseteq stored.sas
  /\ pc = "snapPut" => idx \in info.snaps

\* The release loops look at every recorded resource, and one that stays recorded was a failure.
LeftIsFailed ==
  ~kept /\ ~putBack =>
    /\ pc = "revoke" => info.sas \subseteq todo
    /\ pc = "delete" => info.sas = {} /\ info.snaps \subseteq todo
    /\ pc \in {"finish", "idle"} => info = Empty

RecordInv == RecordShapes /\ RecordPlaces /\ DocumentCovers /\ LeftIsFailed

\* How an attempt ends, and the task after a release.
LEMMA AttemptFailsDoes ==
  ASSUME AttemptFails
  PROVE  (pc' = "attempt" /\ UNCHANGED <<raised, todo>>) \/ (Exit("failed") /\ UNCHANGED attempt)
BY DEF AttemptFails

LEMMA CopiedDoes ==
  ASSUME Copied
  PROVE  /\ pc = "copy" /\ UNCHANGED <<lro, outcome, record, grant, noted, snap, access>>
         /\ \/ pc' \in {"disk", "attempt"} /\ UNCHANGED <<raised, todo>>
            \/ \E e \in {"failed", "cancelled"} : Exit(e)
<1>1. CASE failure = "none"
  BY <1>1 DEF Copied
<1>2. CASE failure = "cancelled"
  BY <1>2 DEF Copied
<1>3. CASE failure \notin {"none", "cancelled"}
  <2>1. AttemptFails
    BY <1>3 DEF Copied
  <2>. QED
    BY <2>1, AttemptFailsDoes DEF Copied
<1>. QED
  BY <1>1, <1>2, <1>3

LEMMA SaveReleasedDoes ==
  ASSUME SaveReleased, phase \in {"EXPORTING", "CANCELLED"}, raised \in {"none", "failed", "cancelled"}
  PROVE  pc' \in {"finish", "teardown"}
<1>1. CASE phase = "CANCELLED"
  BY <1>1 DEF SaveReleased
<1>2. CASE phase = "EXPORTING"
  BY <1>2 DEF SaveReleased
<1>. QED
  BY <1>1, <1>2

\* An answer to a grant or a renewal never sends the task to a release that has begun.
LEMMA GrantedDoes ==
  ASSUME NEW result \in {"ok", "error", "cancelled"}, Granted(result)
  PROVE  /\ pc \in {"grant", "renew", "copy"}
         /\ \/ pc' \in {"grant", "disk", "list", "attempt", "copy"} /\ UNCHANGED <<raised, todo>>
            \/ \E e \in {"failed", "cancelled"} : Exit(e) /\ result # "ok"
<1>1. CASE pc = "renew" /\ result = "error" /\ AttemptFails
  BY <1>1, AttemptFailsDoes
<1>2. CASE ~(pc = "renew" /\ result = "error" /\ AttemptFails)
  BY <1>2 DEF Granted
<1>. QED
  BY <1>1, <1>2

LEMMA InitRecordInv == Init => RecordInv
<1>. SUFFICES ASSUME Init PROVE RecordInv
  OBVIOUS
<1>1. RecordShapes
  BY DEF Init, RecordShapes, Empty
<1>2. RecordPlaces
  BY DEF Init, RecordPlaces, Labels
<1>3. DocumentCovers
  BY DEF Init, DocumentCovers, Empty
<1>4. LeftIsFailed
  BY DEF Init, LeftIsFailed
<1>. QED
  BY <1>1, <1>2, <1>3, <1>4 DEF RecordInv

\* A step that leaves the document, Azure and the place in the release alone.
LEMMA SameRecord ==
  ASSUME RecordInv, UNCHANGED <<record, grant, snap, kept, putBack>>,
         \/ UNCHANGED <<pc, phase, raised, todo, idx>>
         \/ /\ pc \notin {"idle", "finish", "teardown"} /\ phase' = phase
            /\ \/ pc' \in Labels \ {"idle", "finish", "teardown", "revoke", "delete", "snapPut"} /\ raised' = raised
               \/ \E e \in {"none", "failed", "cancelled"} : Exit(e)
  PROVE  RecordInv'
<1>1. RecordShapes'
  BY DEF RecordInv, RecordShapes, record
<1>2. RecordPlaces'
  BY DEF RecordInv, RecordPlaces, Labels, record
<1>3. DocumentCovers'
  BY DEF RecordInv, DocumentCovers, Labels, record
<1>4. LeftIsFailed'
  BY DEF RecordInv, LeftIsFailed, Labels, record
<1>. QED
  BY <1>1, <1>2, <1>3, <1>4 DEF RecordInv

\* The steps of __enter__: a snapshot is recorded, and Azure asked for it after that.
LEMMA EnterRecord ==
  ASSUME RecordInv, RecordSnapshot \/ PutSnapshot \/ AwaitSnapshot \/ BeginGrant
  PROVE  RecordInv'
<1>. USE DEF RecordInv
<1>1. CASE RecordSnapshot
  <2>0. pc = "snap" /\ UNCHANGED <<grant, snap, kept, idx, phase, putBack>>
    BY <1>1 DEF RecordSnapshot, remote, outcome, outer, asking
  <2>1. CASE \E e \in {"failed", "cancelled"} : Exit(e) /\ UNCHANGED record
    BY <2>0, <2>1, SameRecord
  <2>2. CASE info' = [info EXCEPT !.snaps = @ \cup {idx}] /\ stored' = info' /\ pc' = "snapPut" /\ raised' = raised
    <3>1. info' = [snaps |-> info.snaps \cup {idx}, sas |-> info.sas]
      BY <2>2 DEF RecordShapes
    <3>2. info'.snaps = info.snaps \cup {idx} /\ info'.sas = info.sas
      BY <3>1
    <3>3. RecordShapes'
      BY <2>0, <2>2, <3>1, <3>2 DEF RecordShapes
    <3>4. RecordPlaces'
      BY <2>0, <2>2 DEF RecordPlaces, Labels
    <3>5. DocumentCovers' /\ LeftIsFailed'
      BY <2>0, <2>2, <3>2 DEF DocumentCovers, LeftIsFailed
    <3>. QED
      BY <3>3, <3>4, <3>5
  <2>. QED
    BY <1>1, <2>1, <2>2 DEF RecordSnapshot
<1>2. CASE PutSnapshot
  <2>0. pc = "snapPut" /\ UNCHANGED <<record, grant, kept, idx, phase, putBack>>
    BY <1>2 DEF PutSnapshot, outcome, outer, asking
  <2>1. snap' = snap \/ snap' = snap \cup {idx}
    BY <1>2 DEF PutSnapshot
  <2>2. \/ pc' = "snapWait" /\ UNCHANGED <<raised, todo>>
        \/ Exit("failed")
    BY <1>2 DEF PutSnapshot
  <2>3. RecordShapes' /\ DocumentCovers'
    BY <2>0, <2>1, <2>2 DEF RecordShapes, DocumentCovers, record
  <2>4. RecordPlaces' /\ LeftIsFailed'
    BY <2>0, <2>2 DEF RecordPlaces, LeftIsFailed, Labels, record
  <2>. QED
    BY <2>3, <2>4
<1>3. CASE AwaitSnapshot
  <2>0. pc = "snapWait" /\ UNCHANGED <<record, grant, snap, kept, phase, putBack>>
    BY <1>3 DEF AwaitSnapshot, outcome, outer, asking, remote
  <2>1. \/ pc' \in {"snap", "grant"} /\ UNCHANGED <<raised, todo>>
        \/ \E e \in {"failed", "cancelled"} : Exit(e)
    BY <1>3 DEF AwaitSnapshot
  <2>. QED
    BY <2>0, <2>1, SameRecord DEF Labels
<1>4. CASE BeginGrant
  <2>0. pc = "grant" /\ UNCHANGED <<record, grant, snap, kept, phase, putBack>>
    BY <1>4 DEF BeginGrant, outcome, outer, asking, remote
  <2>1. \/ UNCHANGED <<pc, raised, todo>>
        \/ Exit("cancelled")
    BY <1>4 DEF BeginGrant
  <2>. QED
    BY <2>0, <2>1, SameRecord DEF Labels
<1>. QED
  BY <1>1, <1>2, <1>3, <1>4

LEMMA CopyRecord ==
  ASSUME RecordInv, NextDisk \/ OpenDevice \/ Prepare \/ List \/ Copied
  PROVE  RecordInv'
<1>1. /\ pc \in {"disk", "attempt", "prepare", "list", "copy"}
      /\ UNCHANGED <<record, grant, snap, kept, phase, putBack>>
  <2>1. CASE NextDisk \/ OpenDevice \/ Prepare \/ List
    BY <2>1 DEF NextDisk, OpenDevice, Prepare, List, outcome, outer, asking, remote
  <2>2. CASE Copied
    BY <2>2, CopiedDoes DEF outcome, outer, asking
  <2>. QED
    BY <2>1, <2>2
<1>2. \/ pc' \in {"disk", "attempt", "prepare", "renew", "list", "copy"} /\ UNCHANGED <<raised, todo>>
      \/ \E e \in {"none", "failed", "cancelled"} : Exit(e)
  <2>1. CASE NextDisk \/ OpenDevice
    BY <2>1 DEF NextDisk, OpenDevice
  <2>2. CASE Prepare
    BY <2>2 DEF Prepare, progress
  <2>3. CASE List
    BY <2>3, AttemptFailsDoes DEF List
  <2>4. CASE Copied
    BY <2>4, CopiedDoes
  <2>. QED
    BY <2>1, <2>2, <2>3, <2>4
<1>. QED
  BY <1>1, <1>2, SameRecord DEF Labels

\* A release takes a name off the document when what it names is gone.
LEMMA ReleaseRecord ==
  ASSUME RecordInv, RevokeNext \/ ToSnapshots \/ DeleteNext \/ SaveReleased
  PROVE  RecordInv'
<1>. USE DEF RecordInv
<1>1. CASE RevokeNext
  <2>0. pc = "revoke" /\ UNCHANGED <<pc, stored, snap, phase, raised, idx, putBack>>
    BY <1>1 DEF RevokeNext, progress, outer, asking
  <2>1. PICK i : /\ todo' = todo \ {i}
                 /\ \/ /\ grant' = [grant EXCEPT ![i] = "none"]
                       /\ info' = [info EXCEPT !.sas = @ \ {i}] /\ UNCHANGED kept
                    \/ /\ \E g \in {"none", grant[i]} : grant' = [grant EXCEPT ![i] = g]
                       /\ kept' = TRUE /\ UNCHANGED info
    BY <1>1 DEF RevokeNext
  <2>2. \/ info' = [snaps |-> info.snaps, sas |-> info.sas \ {i}] /\ kept' = kept
        \/ info' = info /\ kept' = TRUE
    BY <2>1 DEF RecordShapes
  <2>3. /\ grant' = [k \in Disks |-> grant'[k]]
        /\ \A k \in Disks : grant'[k] = "ours" => grant[k] = "ours" /\ (k = i => info' = info)
    BY <2>1 DEF RecordShapes
  <2>4. RecordShapes'
    BY <2>0, <2>2, <2>3 DEF RecordShapes
  <2>5. RecordPlaces'
    BY <2>0, <2>2 DEF RecordPlaces
  <2>6. DocumentCovers'
    BY <2>0, <2>2, <2>3 DEF DocumentCovers
  <2>7. LeftIsFailed'
    BY <2>0, <2>1, <2>2 DEF LeftIsFailed
  <2>. QED
    BY <2>4, <2>5, <2>6, <2>7
<1>2. CASE DeleteNext
  <2>0. pc = "delete" /\ UNCHANGED <<pc, stored, phase, raised, idx, putBack>>
    BY <1>2 DEF DeleteNext, progress, outer, asking
  <2>1. PICK i : /\ todo' = todo \ {i}
                 /\ \/ /\ snap' = snap \ {i} /\ grant' = [grant EXCEPT ![i] = "none"]
                       /\ info' = [info EXCEPT !.snaps = @ \ {i}] /\ UNCHANGED kept
                    \/ kept' = TRUE /\ UNCHANGED <<snap, grant, info>>
    BY <1>2 DEF DeleteNext
  <2>2. \/ info' = [snaps |-> info.snaps \ {i}, sas |-> info.sas] /\ kept' = kept /\ snap' = snap \ {i}
        \/ info' = info /\ kept' = TRUE /\ snap' = snap
    BY <2>1 DEF RecordShapes
  <2>3. /\ grant' = [k \in Disks |-> grant'[k]]
        /\ \A k \in Disks : grant'[k] = "ours" => grant[k] = "ours"
    BY <2>1 DEF RecordShapes
  <2>4. RecordShapes'
    BY <2>0, <2>2, <2>3 DEF RecordShapes
  <2>5. RecordPlaces'
    BY <2>0, <2>2 DEF RecordPlaces
  <2>6. DocumentCovers'
    BY <2>0, <2>2, <2>3 DEF DocumentCovers
  <2>7. LeftIsFailed'
    BY <2>0, <2>1, <2>2 DEF LeftIsFailed
  <2>. QED
    BY <2>4, <2>5, <2>6, <2>7
<1>3. CASE ToSnapshots
  <2>1. /\ pc = "revoke" /\ todo = {} /\ todo' = info.snaps /\ pc' = "delete"
        /\ UNCHANGED <<record, grant, snap, kept, phase, raised, idx, putBack>>
    BY <1>3 DEF ToSnapshots, progress, outcome, outer, asking, remote
  <2>2. RecordShapes' /\ RecordPlaces' /\ DocumentCovers'
    BY <2>1 DEF RecordShapes, RecordPlaces, DocumentCovers, Labels, record
  <2>3. LeftIsFailed'
    BY <2>1 DEF LeftIsFailed, record
  <2>. QED
    BY <2>2, <2>3
<1>4. CASE SaveReleased
  <2>1. /\ pc = "delete" /\ todo = {} /\ stored' = info
        /\ UNCHANGED <<info, grant, snap, kept, raised, idx, putBack>>
    BY <1>4 DEF SaveReleased, progress, outer, asking, remote
  <2>2. pc' \in {"finish", "teardown"}
    BY <1>4, <2>1, SaveReleasedDoes DEF RecordPlaces
  <2>3. RecordShapes' /\ RecordPlaces' /\ DocumentCovers'
    BY <2>1, <2>2 DEF RecordShapes, RecordPlaces, DocumentCovers, Labels
  <2>4. ~kept /\ ~putBack => info = Empty
    BY <2>1 DEF LeftIsFailed, RecordShapes, Empty
  <2>5. LeftIsFailed'
    BY <2>1, <2>2, <2>4 DEF LeftIsFailed
  <2>. QED
    BY <2>3, <2>5
<1>. QED
  BY <1>1, <1>2, <1>3, <1>4

\* The document that is put replaces the stored one; one that is up to date changes nothing.
LEMMA PutLeaves ==
  ASSUME PutDocument
  PROVE  /\ info' = stored' /\ stored' = [snaps |-> stored'.snaps, sas |-> stored'.sas]
         /\ ~putBack' => stored' = stored /\ ~putBack
BY DEF PutDocument, Outdated

LEMMA EndsRecord ==
  ASSUME RecordInv, Teardown \/ Finish \/ CancelFailed \/ Crash
  PROVE  RecordInv'
<1>. USE DEF RecordInv
<1>1. CASE Teardown
  <2>1. /\ pc = "teardown" /\ phase' = "CANCELLED"
        /\ UNCHANGED <<record, grant, snap, raised, idx, putBack>>
        /\ \/ pc' = "revoke" /\ todo' = info.sas /\ kept' = FALSE
           \/ pc' = "finish" /\ kept' = (info # Empty)
    BY <1>1 DEF Teardown, progress, outer, asking, remote
  <2>2. RecordShapes' /\ RecordPlaces' /\ DocumentCovers'
    BY <2>1 DEF RecordShapes, RecordPlaces, DocumentCovers, Labels, record
  <2>3. LeftIsFailed'
    BY <2>1 DEF LeftIsFailed, record
  <2>. QED
    BY <2>2, <2>3
<1>2. CASE Finish
  <2>1. /\ pc = "finish" /\ pc' = "idle" /\ raised' = "none"
        /\ UNCHANGED <<record, grant, snap, kept, phase, putBack>>
    BY <1>2 DEF Finish, outcome, outer, asking, remote
  <2>2. RecordShapes' /\ RecordPlaces' /\ DocumentCovers'
    BY <2>1 DEF RecordShapes, RecordPlaces, DocumentCovers, Labels, record
  <2>3. LeftIsFailed'
    BY <2>1 DEF LeftIsFailed, record
  <2>. QED
    BY <2>2, <2>3
<1>3. CASE CancelFailed
  <2>1. pc = "idle" /\ pc' = "teardown" /\ UNCHANGED <<record, grant, snap, kept, phase, raised, idx, putBack>>
    BY <1>3 DEF CancelFailed, StartCleanup, progress, outcome, outer, asking, remote
  <2>2. RecordShapes' /\ RecordPlaces' /\ DocumentCovers' /\ LeftIsFailed'
    BY <2>1 DEF RecordShapes, RecordPlaces, DocumentCovers, LeftIsFailed, Labels, record
  <2>. QED
    BY <2>2
<1>4. CASE Crash
  <2>1. /\ pc' = "idle" /\ raised' = "none" /\ info' = stored' /\ kept' = (stored' # Empty)
        /\ stored' = [snaps |-> stored'.snaps, sas |-> stored'.sas]
        /\ UNCHANGED <<grant, snap>>
        /\ ~putBack' => stored' = stored /\ ~putBack
    BY <1>4, PutLeaves DEF Crash, remote, RecordShapes
  <2>2. RecordShapes' /\ RecordPlaces'
    BY <2>1 DEF RecordShapes, RecordPlaces, Labels
  <2>3. DocumentCovers' /\ LeftIsFailed'
    BY <2>1 DEF DocumentCovers, LeftIsFailed
  <2>. QED
    BY <2>2, <2>3
<1>. QED
  BY <1>1, <1>2, <1>3, <1>4

\* The requests: only one that finds the thread at its end changes the document the next task works by.
LEMMA RequestRecord ==
  ASSUME RecordInv, LateReads \/ LateAsks \/ LatePuts \/ LateTeardown
  PROVE  RecordInv'
<1>. USE DEF RecordInv
<1>1. CASE (LateReads \/ LateAsks \/ LatePuts) /\ UNCHANGED <<record, phase, putBack>>
  <2>1. UNCHANGED <<record, grant, snap, kept, putBack, pc, phase, raised, todo, idx>>
    BY <1>1 DEF LateReads, LateAsks, LatePuts, progress, remote
  <2>. QED
    BY <2>1, SameRecord
<1>2. CASE (LatePuts \/ LateTeardown) /\ pc = "idle"
  <2>1. PutDocument /\ pc' \in {"idle", "teardown"} /\ UNCHANGED <<grant, snap, kept, raised, idx, todo>>
    BY <1>2 DEF LatePuts, LateTeardown, StartCleanup, progress, remote
  <2>2. RecordShapes' /\ RecordPlaces'
    BY <1>2, <2>1, PutLeaves DEF RecordShapes, RecordPlaces, Labels
  <2>3. ~putBack' => stored' = stored /\ info' = info /\ ~putBack
    BY <1>2, <2>1, PutLeaves DEF RecordPlaces
  <2>4. DocumentCovers' /\ LeftIsFailed'
    BY <1>2, <2>1, <2>3 DEF DocumentCovers, LeftIsFailed
  <2>. QED
    BY <2>2, <2>4
<1>. QED
  BY <1>1, <1>2 DEF LateReads, LateAsks, LatePuts, LateTeardown, outcome, outer, asking, record

\* The grant is recorded in the step that brings its URL; until then it is not "ours".
LEMMA AccessRecord ==
  ASSUME RecordInv, RenewalOwned, AccessStep
  PROVE  RecordInv'
<1>. USE DEF RecordInv
<1>0. pc \in {"grant", "renew", "copy"} /\ UNCHANGED <<phase, kept, snap, putBack>>
  BY DEF AccessStep, EndAccess, PostAccess, AwaitAccess, RenewalOwned, outcome, outer, asking
<1>1. CASE EndAccess
  <2>1. UNCHANGED <<pc, todo, idx, raised, record>>
    BY <1>1 DEF EndAccess, progress
  <2>2. PICK g \in {"none", grant[idx]} : grant' = [grant EXCEPT ![idx] = g]
    BY <1>1 DEF EndAccess
  <2>3. RecordShapes' /\ DocumentCovers'
    BY <1>0, <2>1, <2>2 DEF RecordShapes, DocumentCovers, record
  <2>4. RecordPlaces' /\ LeftIsFailed'
    BY <1>0, <2>1 DEF RecordPlaces, LeftIsFailed, record
  <2>. QED
    BY <2>3, <2>4
<1>2. CASE PostAccess
  <2>1. /\ UNCHANGED record
        /\ grant' = grant \/ grant' = [grant EXCEPT ![idx] = "other"]
        /\ UNCHANGED <<pc, raised, todo>> \/ Granted("error")
    BY <1>2 DEF PostAccess
  <2>2. \/ pc' \in {"grant", "disk", "list", "attempt", "copy", "renew"} /\ UNCHANGED <<raised, todo>>
        \/ \E e \in {"failed", "cancelled"} : Exit(e)
    BY <1>0, <2>1, GrantedDoes
  <2>3. RecordShapes' /\ DocumentCovers'
    BY <1>0, <2>1, <2>2 DEF RecordShapes, DocumentCovers, record
  <2>4. RecordPlaces' /\ LeftIsFailed'
    BY <1>0, <2>1, <2>2 DEF RecordPlaces, LeftIsFailed, Labels, record
  <2>. QED
    BY <2>3, <2>4
<1>3. CASE AwaitAccess
  <2>1. CASE UNCHANGED <<info, stored, grant>> /\ \E r \in {"error", "cancelled"} : Granted(r)
    <3>1. \/ pc' \in {"grant", "disk", "list", "attempt", "copy"} /\ UNCHANGED <<raised, todo>>
          \/ \E e \in {"failed", "cancelled"} : Exit(e)
      BY <2>1, GrantedDoes
    <3>. QED
      BY <1>0, <2>1, <3>1, SameRecord DEF Labels, record
  <2>2. CASE /\ grant' = [grant EXCEPT ![idx] = IF @ = "other" THEN "ours" ELSE @]
             /\ info' = [info EXCEPT !.sas = @ \cup {idx}]
             /\ stored' = info' /\ Granted("ok")
    <3>1. pc' \in {"grant", "disk", "list", "attempt", "copy"} /\ UNCHANGED <<raised, todo>>
      BY <2>2, GrantedDoes
    <3>2. info' = [snaps |-> info.snaps, sas |-> info.sas \cup {idx}]
      BY <2>2 DEF RecordShapes
    <3>3. /\ grant' = [k \in Disks |-> grant'[k]]
          /\ \A k \in Disks : grant'[k] = "ours" => grant[k] = "ours" \/ k = idx
      BY <2>2 DEF RecordShapes
    <3>4. RecordShapes'
      BY <2>2, <3>2, <3>3 DEF RecordShapes
    <3>5. DocumentCovers'
      BY <1>0, <2>2, <3>1, <3>2, <3>3 DEF DocumentCovers
    <3>6. RecordPlaces' /\ LeftIsFailed'
      BY <1>0, <3>1 DEF RecordPlaces, LeftIsFailed, Labels
    <3>. QED
      BY <3>4, <3>5, <3>6
  <2>. QED
    BY <1>3, <2>1, <2>2 DEF AwaitAccess
<1>. QED
  BY <1>1, <1>2, <1>3 DEF AccessStep

LEMMA NextRecordInv == RecordInv /\ RenewalOwned /\ [Next]_vars => RecordInv'
<1>. SUFFICES ASSUME RecordInv, RenewalOwned, [Next]_vars PROVE RecordInv'
  OBVIOUS
<1>1. CASE \/ \E w \in Workers : WorkerStep(w)
           \/ CancelRunning \/ KillLogin \/ Tick \/ Forget30 \/ UNCHANGED vars
  <2>1. UNCHANGED <<record, grant, snap, kept, pc, phase, raised, todo, idx, putBack>>
    BY <1>1 DEF WorkerStep, CancelRunning, KillLogin, Tick, Forget30, vars, progress, outcome, outer, asking, record, remote
  <2>. QED
    BY <2>1, SameRecord
<1>. QED
  BY <1>1, EnterRecord, CopyRecord, ReleaseRecord, EndsRecord, RequestRecord, AccessRecord DEF Next, TaskStep

ExportRecordInv == ExportInv /\ RecordInv

LEMMA AlwaysExportRecordInv == Spec => []ExportRecordInv
<1>1. Init => ExportRecordInv
  BY ExportInvInit, InitRecordInv DEF ExportRecordInv
<1>2. ExportRecordInv /\ [Next]_vars => ExportRecordInv'
  BY ExportInvNext, NextRecordInv DEF ExportRecordInv, ExportInv
<1>. QED
  BY <1>1, <1>2, PTL DEF Spec

\* Every snapshot in Azure and every SAS whose URL the helper held is named by the saved record, through lost
\* answers, renewals on download threads, failed releases, cancel, logout and restarts (_enter, refresh), until a
\* cancel request puts back a document it read before the thread's last save.
THEOREM AzureResourcesRecorded == Spec => []RecordCovers
<1>1. ExportRecordInv => RecordCovers
  BY DEF ExportRecordInv, RecordInv, DocumentCovers, RecordCovers
<1>. QED
  BY <1>1, AlwaysExportRecordInv, PTL

\* A task that is over, and had no failed release, has left no snapshot and no SAS of its own (close,
\* release_azure_resources, _release_azure), unless a document that was put back took something off the record.
THEOREM AzureResourcesReleased == Spec => []ExitReleases
<1>1. ExportRecordInv => ExitReleases
  BY DEF ExportRecordInv, RecordInv, DocumentCovers, LeftIsFailed, ExitReleases, Empty
<1>. QED
  BY <1>1, AlwaysExportRecordInv, PTL

-----------------------------------------------------------------------------
(* Renewals                                                                 *)

LEMMA NextRenewsOnce ==
  ASSUME ExportInv, Next, recent, pc = "copy", lro = "idle"
  PROVE  lro' = "idle"
<1>1. CASE TaskStep
  <2>1. Copied
    BY <1>1 DEF TaskStep, RecordSnapshot, PutSnapshot, AwaitSnapshot, BeginGrant, NextDisk, OpenDevice, Prepare, List,
                RevokeNext, ToSnapshots, DeleteNext, SaveReleased, Teardown, Finish
  <2>. QED
    BY <2>1 DEF Copied
<1>2. CASE AccessStep
  BY <1>2 DEF AccessStep, EndAccess, PostAccess, AwaitAccess
<1>3. ASSUME NEW w \in Workers, WorkerStep(w) PROVE lro' = "idle"
  <2>1. EnterRenewal(w) => holder' # w
    BY WorkersAssumption DEF EnterRenewal
  <2>. QED
    BY <1>3, <2>1 DEF WorkerStep
<1>4. CASE \/ CancelRunning \/ CancelFailed \/ LateReads \/ LateAsks \/ LatePuts \/ LateTeardown
           \/ KillLogin \/ Tick \/ Forget30 \/ Crash
  BY <1>4 DEF CancelRunning, CancelFailed, LateReads, LateAsks, LatePuts, LateTeardown, StartCleanup, KillLogin, Tick, Forget30,
                 Crash
<1>. QED
  BY <1>1, <1>2, <1>3, <1>4 DEF Next

\* No download thread begins another renewal while one of the last thirty seconds is in force, whatever the
\* other threads, the age of the SAS and the answers of Azure (refresh_sas).
THEOREM SasIsRenewedOnce == Spec => RenewedOnce
<1>1. ExportInv /\ [Next]_vars => [recent /\ recent' /\ pc = "copy" /\ lro = "idle" => lro' = "idle"]_vars
  BY NextRenewsOnce
<1>. QED
  BY <1>1, ExportInvInit, ExportInvNext, PTL DEF Spec, RenewedOnce

-----------------------------------------------------------------------------
(* merge_ranges and split_chunks, for any listing, limit and size of chunks  *)

Ranges == Nat \X Nat

\* Recursive functions and sequences of any length: by the smallest number for which a statement fails.
LEMMA LeastNat == ASSUME NEW T \in SUBSET Nat, T # {} PROVE \E x \in T : \A y \in T : x <= y
<1> DEFINE R == {ss \in Nat \X Nat : ss[1] < ss[2]}
<1>1. IsWellFoundedOn(R, Nat)
  BY NatLessThanWellFounded DEF OpToRel
<1>2. PICK x \in T : \A y \in T : ~ (<<y, x>> \in R)
  BY <1>1, WFMin
<1>3. \A y \in T : ~ (y < x)
  BY <1>2
<1>4. QED
  BY <1>3

LEMMA SeqFacts == ASSUME NEW S, NEW q \in Seq(S)
                  PROVE  Len(q) \in Nat /\ DOMAIN q = 1..Len(q) /\ \A i \in 1..Len(q) : q[i] \in S
OBVIOUS

LEMMA SeqIs == ASSUME NEW S, NEW n \in Nat, NEW f, f = [i \in 1..n |-> f[i]], \A i \in 1..n : f[i] \in S
               PROVE  f \in Seq(S) /\ Len(f) = n /\ DOMAIN f = 1..n
OBVIOUS

LEMMA RangeIs == ASSUME NEW r \in Ranges PROVE Offset(r) \in Nat /\ Length(r) \in Nat /\ End(r) = Offset(r) + Length(r)
BY DEF Ranges, Offset, Length, End

LEMMA BeforeIsOrder ==
  ASSUME NEW a \in Ranges, NEW b \in Ranges
  PROVE  /\ Before(a, b) \/ Before(b, a)
         /\ Before(a, b) => Offset(a) <= Offset(b)
         /\ \A c \in Ranges : Before(a, b) /\ Before(b, c) => Before(a, c)
<1>1. \A c \in Ranges : Offset(c) \in Nat /\ Length(c) \in Nat
  BY RangeIs
<1>2. QED
  BY <1>1 DEF Before

\* p puts the first n ranges of q in order.
Orders(q, n, p) ==
  /\ p = [i \in 1..n |-> p[i]]
  /\ \A i \in 1..n : p[i] \in 1..n
  /\ \A k \in 1..n : \E i \in 1..n : p[i] = k
  /\ \A i, k \in 1..n : i < k => p[i] # p[k] /\ Before(q[p[i]], q[p[k]])

\* One more range finds its place among those that are in order.
LEMMA Inserted ==
  ASSUME NEW q \in Seq(Ranges), NEW n \in Nat, n + 1 <= Len(q), NEW p, Orders(q, n, p)
  PROVE  \E g : Orders(q, n + 1, g)
<1> DEFINE T == {k \in 1..(n + 1) : k = n + 1 \/ Before(q[n + 1], q[p[k]])}
<1>1. PICK j \in T : \A k \in T : j <= k
  <2>1. n + 1 \in T /\ T \in SUBSET Nat
    OBVIOUS
  <2>2. QED
    BY <2>1, LeastNat
<1>2. j \in 1..(n + 1)
  OBVIOUS
<1>3. /\ \A i \in 1..n : p[i] \in 1..n /\ p[i] \in 1..(n + 1)
      /\ \A k \in 1..n : \E i \in 1..n : p[i] = k
      /\ \A i, k \in 1..n : i < k => p[i] # p[k] /\ Before(q[p[i]], q[p[k]])
  <2>1. \A x \in 1..n : x \in 1..(n + 1)
    OBVIOUS
  <2>2. QED
    BY <2>1 DEF Orders
<1>4. \A k \in 1..(n + 1) : q[k] \in Ranges
  BY SeqFacts
<1>5. \A i \in 1..n : i < j => Before(q[p[i]], q[n + 1])
  <2> SUFFICES ASSUME NEW i \in 1..n, i < j PROVE Before(q[p[i]], q[n + 1])
    OBVIOUS
  <2>1. i \notin T
    BY <1>1, <1>2
  <2>2. ~Before(q[n + 1], q[p[i]])
    BY <2>1
  <2>3. p[i] \in 1..(n + 1)
    BY <1>3
  <2>4. QED
    BY <1>4, <2>2, <2>3, BeforeIsOrder
<1>6. \A i \in 1..n : j <= i => Before(q[n + 1], q[p[i]])
  <2> SUFFICES ASSUME NEW i \in 1..n, j <= i PROVE Before(q[n + 1], q[p[i]])
    OBVIOUS
  <2>1. j \in 1..n /\ Before(q[n + 1], q[p[j]])
    BY <1>1, <1>2
  <2>2. i = j \/ Before(q[p[j]], q[p[i]])
    BY <1>3, <2>1
  <2>3. p[i] \in 1..(n + 1) /\ p[j] \in 1..(n + 1)
    BY <1>3, <2>1
  <2>4. QED
    BY <1>4, <2>1, <2>2, <2>3, BeforeIsOrder
<1> DEFINE g == [i \in 1..(n + 1) |-> IF i < j THEN p[i] ELSE IF i = j THEN n + 1 ELSE p[i - 1]]
<1>7. \A i \in 1..(n + 1) : g[i] = IF i < j THEN p[i] ELSE IF i = j THEN n + 1 ELSE p[i - 1]
  OBVIOUS
<1>8. g = [i \in 1..(n + 1) |-> g[i]]
  OBVIOUS
<1> HIDE DEF g, T
<1>9. \A i \in 1..(n + 1) : (i < j => i \in 1..n) /\ (i > j => i - 1 \in 1..n)
  BY <1>2
<1>10. \A i \in 1..(n + 1) : g[i] \in 1..(n + 1)
  <2>1. n + 1 \in 1..(n + 1) /\ \A i \in 1..(n + 1) : i < j \/ i = j \/ i > j
    BY <1>2
  <2>2. QED
    BY <1>3, <1>7, <1>9, <2>1
<1>11. ASSUME NEW k \in 1..(n + 1) PROVE \E i \in 1..(n + 1) : g[i] = k
  <2>1. CASE k = n + 1
    BY <1>2, <1>7, <2>1
  <2>2. CASE k # n + 1
    <3>1. k \in 1..n
      BY <2>2
    <3>2. PICK i \in 1..n : p[i] = k
      BY <1>3, <3>1
    <3>3. CASE i < j
      <4>1. i \in 1..(n + 1) /\ g[i] = p[i]
        BY <1>7, <3>3
      <4>2. QED
        BY <3>2, <4>1
    <3>4. CASE ~(i < j)
      <4>1. i + 1 \in 1..(n + 1) /\ ~(i + 1 < j) /\ i + 1 # j /\ i + 1 - 1 = i
        BY <1>2, <3>4
      <4>2. g[i + 1] = p[i]
        BY <1>7, <4>1
      <4>3. QED
        BY <3>2, <4>1, <4>2
    <3>5. QED
      BY <3>3, <3>4
  <2>3. QED
    BY <2>1, <2>2
<1>12. ASSUME NEW i \in 1..(n + 1), NEW k \in 1..(n + 1), i < k PROVE g[i] # g[k] /\ Before(q[g[i]], q[g[k]])
  <2>1. CASE k < j
    <3>1. i \in 1..n /\ k \in 1..n /\ g[i] = p[i] /\ g[k] = p[k]
      BY <1>2, <1>7, <1>12, <2>1
    <3>2. QED
      BY <1>3, <1>12, <3>1
  <2>2. CASE k = j
    <3>1. i \in 1..n /\ i < j /\ g[i] = p[i] /\ g[k] = n + 1 /\ p[i] \in 1..n
      BY <1>2, <1>3, <1>7, <1>12, <2>2
    <3>2. QED
      BY <1>5, <3>1
  <2>3. CASE k > j
    <3>1. k - 1 \in 1..n /\ g[k] = p[k - 1] /\ p[k - 1] \in 1..n
      BY <1>2, <1>3, <1>7, <2>3
    <3>2. CASE i < j
      <4>1. i \in 1..n /\ i < k - 1 /\ g[i] = p[i]
        BY <1>2, <1>7, <2>3, <3>2
      <4>2. QED
        BY <1>3, <3>1, <4>1
    <3>3. CASE i = j
      <4>1. g[i] = n + 1 /\ j <= k - 1
        BY <1>2, <1>7, <2>3, <3>3
      <4>2. QED
        BY <1>6, <3>1, <4>1
    <3>4. CASE i > j
      <4>1. i - 1 \in 1..n /\ i - 1 < k - 1 /\ g[i] = p[i - 1]
        BY <1>2, <1>7, <1>12, <3>4
      <4>2. p[i - 1] # p[k - 1] /\ Before(q[p[i - 1]], q[p[k - 1]])
        BY <1>3, <3>1, <4>1
      <4>3. QED
        BY <3>1, <4>1, <4>2
    <3>5. QED
      BY <1>2, <3>2, <3>3, <3>4
  <2>4. QED
    BY <1>2, <2>1, <2>2, <2>3
<1>13. Orders(q, n + 1, g)
  BY <1>8, <1>10, <1>11, <1>12 DEF Orders
<1>14. QED
  BY <1>13

LEMMA OrderExists == ASSUME NEW q \in Seq(Ranges) PROVE \E p : Orders(q, Len(q), p)
<1> DEFINE T == {n \in 0..Len(q) : ~ \E p : Orders(q, n, p)}
<1>1. SUFFICES ASSUME T # {} PROVE FALSE
  BY SeqFacts
<1>2. T \in SUBSET Nat
  BY SeqFacts
<1>3. PICK n \in T : \A m \in T : n <= m
  BY <1>1, <1>2, LeastNat
<1>4. n # 0
  <2>1. Orders(q, 0, <<>>)
    <3>1. 1..0 = {} /\ <<>> = [i \in 1..0 |-> <<>>[i]]
      OBVIOUS
    <3>2. QED
      BY <3>1 DEF Orders
  <2>2. QED
    BY <2>1
<1>5. n - 1 \in Nat /\ n - 1 \in 0..Len(q) /\ n - 1 + 1 = n /\ n <= Len(q)
  BY <1>2, <1>4, SeqFacts
<1>6. n - 1 \notin T
  BY <1>3, <1>5
<1>7. PICK p : Orders(q, n - 1, p)
  BY <1>5, <1>6
<1>8. \E g : Orders(q, n, g)
  BY <1>5, <1>7, Inserted
<1>9. QED
  BY <1>8

\* Sorted gives the same ranges, in the order of their offsets.
LEMMA SortedIs ==
  ASSUME NEW q \in Seq(Ranges)
  PROVE  /\ Sorted(q) \in Seq(Ranges) /\ Len(Sorted(q)) = Len(q)
         /\ BytesOf(Sorted(q)) = BytesOf(q)
         /\ \A i, k \in 1..Len(q) : i < k => Offset(Sorted(q)[i]) <= Offset(Sorted(q)[k])
<1> DEFINE D == 1..Len(q)
           Fits(p) == \A i, k \in D : i < k => Before(q[p[i]], q[p[k]])
           order == CHOOSE p \in Bijection(D, D) : Fits(p)
<1>1. Len(q) \in Nat /\ DOMAIN q = D /\ \A i \in D : q[i] \in Ranges
  BY SeqFacts
<1>2. \E p \in Bijection(D, D) : Fits(p)
  <2>1. PICK p : Orders(q, Len(q), p)
    BY OrderExists
  <2>2. p \in [D -> D] /\ DOMAIN p = D
    BY <2>1 DEF Orders
  <2>3. \A a, b \in D : p[a] = p[b] => a = b
    <3>1. \A a, b \in D : a < b => p[a] # p[b]
      BY <2>1 DEF Orders
    <3>2. QED
      BY <1>1, <3>1
  <2>4. \A t \in D : \E i \in D : p[i] = t
    BY <2>1 DEF Orders
  <2>5. p \in Bijection(D, D)
    BY <2>2, <2>3, <2>4 DEF Bijection, Injection, Surjection, IsInjective
  <2>6. Fits(p)
    BY <2>1 DEF Orders
  <2>7. QED
    BY <2>5, <2>6
<1>3. order \in Bijection(D, D) /\ Fits(order)
  BY <1>2
<1>4. Sorted(q) = [i \in D |-> q[order[i]]]
  BY <1>1 DEF Sorted
<1> HIDE DEF order
<1>5. (\A i \in D : order[i] \in D) /\ \A t \in D : \E i \in D : order[i] = t
  BY <1>3 DEF Bijection, Injection, Surjection
<1>6. \A i \in D : Sorted(q)[i] = q[order[i]] /\ Sorted(q)[i] \in Ranges
  BY <1>1, <1>4, <1>5
<1>7. Sorted(q) \in Seq(Ranges) /\ Len(Sorted(q)) = Len(q) /\ DOMAIN Sorted(q) = D
  BY <1>1, <1>4, <1>6
<1>8. BytesOf(Sorted(q)) = BytesOf(q)
  <2>1. \A b : b \in BytesOf(Sorted(q)) <=> \E i \in D : b \in Bytes(q[order[i]])
    BY <1>6, <1>7 DEF BytesOf
  <2>2. \A b : b \in BytesOf(q) <=> \E t \in D : b \in Bytes(q[t])
    BY <1>1 DEF BytesOf
  <2>3. \A b : b \in BytesOf(Sorted(q)) <=> b \in BytesOf(q)
    BY <1>5, <2>1, <2>2
  <2>4. QED
    BY <2>3
<1>9. \A i, k \in D : i < k => Offset(Sorted(q)[i]) <= Offset(Sorted(q)[k])
  <2> SUFFICES ASSUME NEW i \in D, NEW k \in D, i < k PROVE Offset(Sorted(q)[i]) <= Offset(Sorted(q)[k])
    OBVIOUS
  <2>1. Before(Sorted(q)[i], Sorted(q)[k])
    BY <1>3, <1>6
  <2>2. QED
    BY <1>6, <2>1, BeforeIsOrder
<1>10. QED
  BY <1>7, <1>8, <1>9

-----------------------------------------------------------------------------
\* A recursive function is a CHOOSE to the provers: that there is one is shown for longer and longer prefixes.
AreMerging(f, q, l, n) == f = [i \in 0..n |-> IF i = 0 THEN <<>> ELSE MergeNext(f[i - 1], q[i], l)]

LEMMA MergingExists == ASSUME NEW q, NEW l, NEW top \in Nat PROVE \E f : AreMerging(f, q, l, top)
<1> DEFINE T == {n \in Nat : ~ \E f : AreMerging(f, q, l, n)}
<1>1. SUFFICES ASSUME T # {} PROVE FALSE
  OBVIOUS
<1>2. PICK n \in T : \A m \in T : n <= m
  BY <1>1, LeastNat
<1>3. n # 0
  <2>1. AreMerging([i \in 0..0 |-> <<>>], q, l, 0)
    BY DEF AreMerging
  <2>2. QED
    BY <2>1, <1>2
<1>4. PICK f : AreMerging(f, q, l, n - 1)
  BY <1>2, <1>3
<1>5. \E g : AreMerging(g, q, l, n)
  <2> DEFINE g == [i \in 0..n |-> IF i = n THEN MergeNext(f[n - 1], q[n], l) ELSE f[i]]
  <2>1. \A i \in 0..n : g[i] = IF i = 0 THEN <<>> ELSE MergeNext(g[i - 1], q[i], l)
    BY <1>3, <1>4 DEF AreMerging
  <2>2. AreMerging(g, q, l, n)
    BY <2>1 DEF AreMerging
  <2>3. QED
    BY <2>2
<1>6. QED
  BY <1>5, <1>2

LEMMA MergingIs ==
  ASSUME NEW q, Len(q) \in Nat, NEW l
  PROVE  Merging(q, l)[0] = <<>> /\ \A i \in 1..Len(q) : Merging(q, l)[i] = MergeNext(Merging(q, l)[i - 1], q[i], l)
<1>1. AreMerging(Merging(q, l), q, l, Len(q))
  BY MergingExists DEF Merging, AreMerging
<1>2. QED
  BY <1>1 DEF AreMerging

LEMMA ClipIs ==
  ASSUME NEW r \in Ranges, NEW l \in Nat, Offset(r) < l, Length(Clip(r, l)) > 0
  PROVE  /\ Clip(r, l) \in Ranges /\ Offset(Clip(r, l)) = Offset(r)
         /\ Bytes(Clip(r, l)) = Bytes(r) \cap 0..(l - 1)
<1>1. Offset(r) \in Nat /\ Length(r) \in Nat /\ End(r) = Offset(r) + Length(r)
  BY RangeIs
<1>2. Offset(Clip(r, l)) = Offset(r) /\ Length(Clip(r, l)) = IF Length(r) < l - Offset(r) THEN Length(r) ELSE l - Offset(r)
  BY DEF Clip, Smaller, Offset, Length
<1>3. Length(Clip(r, l)) \in Nat
  BY <1>1, <1>2
<1>4. Clip(r, l) \in Ranges
  BY <1>1, <1>2, <1>3 DEF Clip, Ranges, Offset, Length
<1>5. End(Clip(r, l)) = Offset(Clip(r, l)) + Length(Clip(r, l))
  BY DEF End, Offset, Length
<1>6. Bytes(Clip(r, l)) = Bytes(r) \cap 0..(l - 1)
  BY <1>1, <1>2, <1>5 DEF Bytes
<1>7. QED
  BY <1>2, <1>4, <1>6

\* A range that is left out has no byte below the limit.
LEMMA DroppedIs ==
  ASSUME NEW r \in Ranges, NEW l \in Nat, Offset(r) >= l \/ Length(Clip(r, l)) <= 0
  PROVE  Bytes(r) \cap 0..(l - 1) = {}
<1>1. Offset(r) \in Nat /\ Length(r) \in Nat /\ End(r) = Offset(r) + Length(r)
  BY RangeIs
<1>2. Length(Clip(r, l)) = IF Length(r) < l - Offset(r) THEN Length(r) ELSE l - Offset(r)
  BY DEF Clip, Smaller, Offset, Length
<1>3. QED
  BY <1>1, <1>2 DEF Bytes

\* A range that starts no earlier than the last one is absorbed byte for byte.
LEMMA AbsorbIs ==
  ASSUME NEW out \in Seq(Ranges), NEW r \in Ranges, out # <<>> => Offset(out[Len(out)]) <= Offset(r)
  PROVE  /\ Absorb(out, r) \in Seq(Ranges) /\ Absorb(out, r) # <<>>
         /\ BytesOf(Absorb(out, r)) = BytesOf(out) \cup Bytes(r)
         /\ Offset(Absorb(out, r)[Len(Absorb(out, r))]) <= Offset(r)
<1> DEFINE n == Len(out)  after == Absorb(out, r)
<1>1. n \in Nat /\ DOMAIN out = 1..n /\ (\A i \in 1..n : out[i] \in Ranges) /\ (out # <<>> => n \in 1..n)
  BY SeqFacts
<1>2. Offset(r) \in Nat /\ Length(r) \in Nat /\ End(r) = Offset(r) + Length(r)
  BY RangeIs
<1>3. CASE out # <<>> /\ End(out[n]) >= Offset(r)
  <2> DEFINE p == out[n]  e == Larger(End(p), End(r))  new == <<Offset(p), e - Offset(p)>>
  <2>1. p \in Ranges /\ n \in 1..n /\ Offset(p) \in Nat /\ Length(p) \in Nat /\ End(p) = Offset(p) + Length(p)
        /\ Offset(p) <= Offset(r) /\ End(p) >= Offset(r)
    BY <1>1, <1>3, RangeIs
  <2>2. e = IF End(p) < End(r) THEN End(r) ELSE End(p)
    BY DEF Larger
  <2>3. e - Offset(p) \in Nat /\ e \in Nat
    BY <1>2, <2>1, <2>2
  <2>4. Offset(new) = Offset(p) /\ End(new) = e /\ new \in Ranges
    BY <2>1, <2>3 DEF Offset, End, Ranges
  <2>5. Bytes(new) = Bytes(p) \cup Bytes(r)
    BY <1>2, <2>1, <2>2, <2>4 DEF Bytes
  <2>6. after = [out EXCEPT ![n] = new]
    BY <1>3 DEF Absorb
  <2> HIDE DEF new, p, e
  <2>7. after \in Seq(Ranges) /\ Len(after) = n /\ after[n] = new /\ \A i \in 1..n : i # n => after[i] = out[i]
    <3>1. after = [i \in 1..n |-> IF i = n THEN new ELSE out[i]]
      BY <1>1, <2>6
    <3>2. after = [i \in 1..n |-> after[i]] /\ \A i \in 1..n : after[i] \in Ranges
      BY <1>1, <2>4, <3>1
    <3>3. after \in Seq(Ranges) /\ Len(after) = n
      BY <1>1, <3>2, SeqIs
    <3>4. QED
      BY <2>1, <3>1, <3>3
  <2>8. BytesOf(after) = BytesOf(out) \cup Bytes(r)
    <3>1. \A b : b \in BytesOf(after) <=> \E i \in 1..n : b \in Bytes(after[i])
      BY <2>7 DEF BytesOf
    <3>2. \A b : b \in BytesOf(out) <=> \E i \in 1..n : b \in Bytes(out[i])
      BY <1>1 DEF BytesOf
    <3>3. Bytes(out[n]) = Bytes(p)
      BY DEF p
    <3>4. \A b : b \in BytesOf(after) <=> b \in BytesOf(out) \/ b \in Bytes(r)
      BY <2>1, <2>5, <2>7, <3>1, <3>2, <3>3
    <3>5. QED
      BY <3>4
  <2>9. after # <<>>
    BY <2>1, <2>7
  <2>10. QED
    BY <2>1, <2>4, <2>7, <2>8, <2>9
<1>4. CASE ~(out # <<>> /\ End(out[n]) >= Offset(r))
  <2>1. after = Append(out, r)
    BY <1>4 DEF Absorb
  <2>2. after \in Seq(Ranges) /\ Len(after) = n + 1 /\ after[n + 1] = r /\ \A i \in 1..n : after[i] = out[i]
    BY <1>1, <2>1
  <2>3. BytesOf(after) = BytesOf(out) \cup Bytes(r)
    <3>1. \A b : b \in BytesOf(after) <=> \E i \in 1..(n + 1) : b \in Bytes(after[i])
      BY <2>2 DEF BytesOf
    <3>2. \A b : b \in BytesOf(out) <=> \E i \in 1..n : b \in Bytes(out[i])
      BY <1>1 DEF BytesOf
    <3>3. n + 1 \in 1..(n + 1) /\ \A i : i \in 1..(n + 1) <=> i \in 1..n \/ i = n + 1
      BY <1>1
    <3>4. \A b : b \in BytesOf(after) <=> b \in BytesOf(out) \/ b \in Bytes(r)
      BY <2>2, <3>1, <3>2, <3>3
    <3>5. QED
      BY <3>4
  <2>4. after # <<>>
    BY <1>1, <2>2
  <2>5. QED
    BY <1>1, <1>2, <2>2, <2>3, <2>4
<1>5. QED
  BY <1>3, <1>4

\* What merge_ranges has after i of the sorted ranges.
MergedSoFar(q, l, i) ==
  LET out == Merging(q, l)[i] IN
  /\ out \in Seq(Ranges)
  /\ \A b : b \in BytesOf(out) <=> b \in 0..(l - 1) /\ \E k \in 1..i : b \in Bytes(q[k])
  /\ out # <<>> => \E k \in 1..i : Offset(out[Len(out)]) <= Offset(q[k])

LEMMA MergeNextIs ==
  ASSUME NEW q \in Seq(Ranges), NEW l \in Nat, NEW i \in 1..Len(q),
         \A j, k \in 1..Len(q) : j < k => Offset(q[j]) <= Offset(q[k]), MergedSoFar(q, l, i - 1)
  PROVE  MergedSoFar(q, l, i)
<1> DEFINE out == Merging(q, l)[i - 1]  r == q[i]  after == Merging(q, l)[i]
<1>1. Len(q) \in Nat /\ i \in Nat /\ i - 1 \in Nat /\ \A k \in 1..Len(q) : q[k] \in Ranges
  BY SeqFacts
<1>2. /\ out \in Seq(Ranges)
      /\ \A b : b \in BytesOf(out) <=> b \in 0..(l - 1) /\ \E k \in 1..(i - 1) : b \in Bytes(q[k])
      /\ out # <<>> => \E k \in 1..(i - 1) : Offset(out[Len(out)]) <= Offset(q[k])
  BY DEF MergedSoFar
<1>3. after = MergeNext(out, r, l) /\ r \in Ranges
  BY <1>1, MergingIs
<1>4. /\ i \in 1..i /\ \A k : k \in 1..i <=> k \in 1..(i - 1) \/ k = i
      /\ \A k \in 1..(i - 1) : k \in 1..Len(q) /\ k < i
  BY <1>1
<1>5. out # <<>> => Offset(out[Len(out)]) <= Offset(r)
  <2> SUFFICES ASSUME out # <<>> PROVE Offset(out[Len(out)]) <= Offset(r)
    OBVIOUS
  <2>1. PICK k \in 1..(i - 1) : Offset(out[Len(out)]) <= Offset(q[k])
    BY <1>2
  <2>2. Offset(q[k]) <= Offset(r)
    BY <1>4
  <2>3. Len(out) \in DOMAIN out /\ out[Len(out)] \in Ranges
    BY <1>2, SeqFacts
  <2>4. Offset(out[Len(out)]) \in Nat /\ Offset(q[k]) \in Nat /\ Offset(r) \in Nat
    BY <1>1, <1>3, <1>4, <2>3, RangeIs
  <2>5. QED
    BY <2>1, <2>2, <2>4
<1>6. CASE Offset(r) >= l \/ Length(Clip(r, l)) <= 0
  <2>1. after = out /\ Bytes(r) \cap 0..(l - 1) = {}
    BY <1>3, <1>6, DroppedIs DEF MergeNext
  <2>2. \A b : b \in BytesOf(after) <=> b \in 0..(l - 1) /\ \E k \in 1..i : b \in Bytes(q[k])
    BY <1>2, <1>4, <2>1
  <2>3. after # <<>> => \E k \in 1..i : Offset(after[Len(after)]) <= Offset(q[k])
    BY <1>2, <1>4, <2>1
  <2>4. QED
    BY <1>2, <2>1, <2>2, <2>3 DEF MergedSoFar
<1>7. CASE ~(Offset(r) >= l \/ Length(Clip(r, l)) <= 0)
  <2> DEFINE c == Clip(r, l)
  <2>1. after = Absorb(out, c)
    BY <1>3, <1>7 DEF MergeNext
  <2>2. c \in Ranges /\ Offset(c) = Offset(r) /\ Bytes(c) = Bytes(r) \cap 0..(l - 1)
    <3>1. Offset(r) \in Nat /\ Length(r) \in Nat
      BY <1>3, RangeIs
    <3>2. Length(c) = IF Length(r) < l - Offset(r) THEN Length(r) ELSE l - Offset(r)
      BY DEF Clip, Smaller, Offset, Length
    <3>3. Offset(r) < l /\ Length(c) > 0
      BY <1>7, <3>1, <3>2
    <3>4. QED
      BY <1>3, <3>3, ClipIs
  <2> HIDE DEF c
  <2>3. /\ after \in Seq(Ranges) /\ BytesOf(after) = BytesOf(out) \cup Bytes(c)
        /\ Offset(after[Len(after)]) <= Offset(q[i])
    BY <1>2, <1>5, <2>1, <2>2, AbsorbIs
  <2>4. \A b : b \in BytesOf(after) <=> b \in 0..(l - 1) /\ \E k \in 1..i : b \in Bytes(q[k])
    <3>1. \A b : b \in BytesOf(after) <=> b \in BytesOf(out) \/ (b \in Bytes(r) /\ b \in 0..(l - 1))
      BY <2>2, <2>3
    <3>2. QED
      BY <1>2, <1>4, <3>1
  <2>5. QED
    BY <1>4, <2>3, <2>4 DEF MergedSoFar
<1>8. QED
  BY <1>6, <1>7

\* merge_ranges keeps every byte below the limit, and no other.
LEMMA MergeIs ==
  ASSUME NEW l \in Seq(Ranges), NEW limit \in Nat
  PROVE  Merge(l, limit) \in Seq(Ranges) /\ BytesOf(Merge(l, limit)) = Allocated(l, limit)
<1> DEFINE q == Sorted(l)  T == {i \in 0..Len(q) : ~MergedSoFar(q, limit, i)}
<1>1. /\ q \in Seq(Ranges) /\ Len(q) = Len(l) /\ BytesOf(q) = BytesOf(l)
      /\ \A i, k \in 1..Len(q) : i < k => Offset(q[i]) <= Offset(q[k])
  BY SortedIs
<1> HIDE DEF q
<1>2. Len(q) \in Nat
  BY <1>1, SeqFacts
<1>3. T = {}
  <2>1. SUFFICES ASSUME T # {} PROVE FALSE
    OBVIOUS
  <2>2. PICK i \in T : \A k \in T : i <= k
    <3>1. T \in SUBSET Nat
      BY <1>2
    <3>2. QED
      BY <2>1, <3>1, LeastNat
  <2>3. MergedSoFar(q, limit, 0)
    <3>1. Merging(q, limit)[0] = <<>>
      BY <1>2, MergingIs
    <3>2. <<>> \in Seq(Ranges) /\ BytesOf(<<>>) = {} /\ 1..0 = {}
      BY DEF BytesOf
    <3>3. QED
      BY <3>1, <3>2 DEF MergedSoFar
  <2>4. i \in 1..Len(q) /\ i - 1 \in 0..Len(q) /\ i - 1 \notin T
    BY <1>2, <2>2, <2>3
  <2>5. MergedSoFar(q, limit, i - 1)
    BY <2>4
  <2>6. MergedSoFar(q, limit, i)
    BY <1>1, <2>4, <2>5, MergeNextIs
  <2>7. QED
    BY <2>6
<1>4. MergedSoFar(q, limit, Len(q)) /\ Merge(l, limit) = Merging(q, limit)[Len(q)]
  BY <1>1, <1>2, <1>3 DEF Merge, q
<1>5. \A b : b \in BytesOf(q) <=> \E k \in 1..Len(q) : b \in Bytes(q[k])
  BY <1>1 DEF BytesOf
<1>6. \A b : b \in BytesOf(Merge(l, limit)) <=> b \in Allocated(l, limit)
  BY <1>1, <1>4, <1>5 DEF MergedSoFar, Allocated
<1>7. QED
  BY <1>4, <1>6 DEF MergedSoFar

-----------------------------------------------------------------------------
\* The pieces of a range have its bytes.
LEMMA PiecesAre ==
  ASSUME NEW r \in Ranges, NEW size \in Nat \ {0}
  PROVE  Pieces(r, size) \in Seq(Ranges) /\ BytesOf(Pieces(r, size)) = Bytes(r)
<1> DEFINE o == Offset(r)  n == Length(r)  K == (n + size - 1) \div size  p == Pieces(r, size)
<1>1. o \in Nat /\ n \in Nat /\ End(r) = o + n
  BY RangeIs
<1>2. p = [k \in 1..K |-> <<o + (k - 1) * size, Smaller(size, n - (k - 1) * size)>>]
  BY DEF Pieces
<1> HIDE DEF o, n, K, p
<1>3. K \in Int /\ K * size <= n + size - 1 /\ n + size - 1 < K * size + size
  BY <1>1 DEF K
<1>4. K >= 0
  BY <1>1, <1>3
<1>5. ASSUME NEW k \in 1..K
      PROVE  /\ (k - 1) * size \in Nat /\ (k - 1) * size < n
             /\ p[k] \in Ranges /\ Offset(p[k]) = o + (k - 1) * size
             /\ End(p[k]) = IF size < n - (k - 1) * size THEN o + (k - 1) * size + size ELSE o + n
  <2> DEFINE m == (k - 1) * size
  <2>1. k - 1 \in Nat /\ k - 1 <= K - 1
    BY <1>3
  <2>2. m \in Nat /\ m <= (K - 1) * size /\ (K - 1) * size = K * size - size /\ K * size \in Int
    BY <1>3, <2>1
  <2>3. p[k] = <<o + m, Smaller(size, n - m)>>
    BY <1>2
  <2> HIDE DEF m
  <2>4. m < n
    BY <1>1, <1>3, <2>2
  <2>5. Smaller(size, n - m) = (IF size < n - m THEN size ELSE n - m) /\ Smaller(size, n - m) \in Nat
    BY <1>1, <2>2, <2>4 DEF Smaller
  <2>6. p[k] \in Ranges /\ Offset(p[k]) = o + m /\ End(p[k]) = o + m + Smaller(size, n - m)
    BY <1>1, <2>2, <2>3, <2>5 DEF Ranges, Offset, End
  <2>7. End(p[k]) = IF size < n - m THEN o + m + size ELSE o + n
    BY <1>1, <2>2, <2>5, <2>6
  <2>8. QED
    BY <2>2, <2>4, <2>6, <2>7 DEF m
<1>6. p \in Seq(Ranges) /\ DOMAIN p = 1..K
  <2>1. K \in Nat
    BY <1>3, <1>4
  <2>2. p = [k \in 1..K |-> p[k]] /\ \A k \in 1..K : p[k] \in Ranges
    BY <1>2, <1>5
  <2>3. QED
    BY <2>1, <2>2
<1>7. ASSUME NEW b \in BytesOf(p) PROVE b \in Bytes(r)
  <2>1. PICK k \in 1..K : b \in Bytes(p[k])
    BY <1>6 DEF BytesOf
  <2>2. QED
    BY <1>1, <1>5, <2>1 DEF Bytes, o
<1>8. ASSUME NEW b \in Bytes(r) PROVE b \in BytesOf(p)
  <2> DEFINE x == b - o  q == x \div size
  <2>1. b \in Int /\ o <= b /\ b <= o + n - 1
    BY <1>1, <1>8 DEF Bytes, o
  <2>2. x \in Nat /\ x <= n - 1
    BY <1>1, <2>1
  <2>3. q \in Nat /\ q * size <= x /\ x < q * size + size
    BY <2>2
  <2>4. b = o + x
    BY <1>1, <2>1
  <2> HIDE DEF q, x
  <2>5. q < K
    <3>1. SUFFICES ASSUME K <= q PROVE FALSE
      BY <1>3, <2>3
    <3>2. K * size <= q * size /\ K * size \in Int /\ q * size \in Int
      BY <1>3, <2>3, <3>1
    <3>3. QED
      BY <1>1, <1>3, <2>2, <2>3, <3>2
  <2> DEFINE k == q + 1
  <2>6. k \in 1..K /\ k - 1 = q
    BY <1>3, <2>3, <2>5
  <2> HIDE DEF k
  <2>7. b \in Bytes(p[k])
    <3>1. /\ Offset(p[k]) = o + q * size /\ q * size \in Nat
          /\ End(p[k]) = IF size < n - q * size THEN o + q * size + size ELSE o + n
      BY <1>5, <2>6
    <3>2. b \in Int /\ Offset(p[k]) <= b /\ b <= End(p[k]) - 1 /\ Offset(p[k]) \in Int /\ End(p[k]) \in Int
      BY <1>1, <2>1, <2>2, <2>3, <2>4, <3>1
    <3>3. QED
      BY <3>2 DEF Bytes
  <2>8. QED
    BY <1>6, <2>6, <2>7 DEF BytesOf
<1>9. QED
  BY <1>6, <1>7, <1>8 DEF p

AreSplitting(f, q, size, n) == f = [i \in 0..n |-> IF i = 0 THEN <<>> ELSE f[i - 1] \o Pieces(q[i], size)]

LEMMA SplittingExists == ASSUME NEW q, NEW size, NEW top \in Nat PROVE \E f : AreSplitting(f, q, size, top)
<1> DEFINE T == {n \in Nat : ~ \E f : AreSplitting(f, q, size, n)}
<1>1. SUFFICES ASSUME T # {} PROVE FALSE
  OBVIOUS
<1>2. PICK n \in T : \A m \in T : n <= m
  BY <1>1, LeastNat
<1>3. n # 0
  <2>1. AreSplitting([i \in 0..0 |-> <<>>], q, size, 0)
    BY DEF AreSplitting
  <2>2. QED
    BY <2>1, <1>2
<1>4. PICK f : AreSplitting(f, q, size, n - 1)
  BY <1>2, <1>3
<1>5. \E g : AreSplitting(g, q, size, n)
  <2> DEFINE g == [i \in 0..n |-> IF i = n THEN f[n - 1] \o Pieces(q[n], size) ELSE f[i]]
  <2>1. \A i \in 0..(n - 1) : f[i] = IF i = 0 THEN <<>> ELSE f[i - 1] \o Pieces(q[i], size)
    BY <1>3, <1>4 DEF AreSplitting
  <2>2. n \in 0..n /\ \A i \in 0..n : (i # 0 => i - 1 \in 0..n /\ i - 1 # n) /\ (i # n => i \in 0..(n - 1))
    BY <1>3
  <2>3. \A i \in 0..n : g[i] = IF i = 0 THEN <<>> ELSE g[i - 1] \o Pieces(q[i], size)
    BY <1>3, <2>1, <2>2
  <2>4. AreSplitting(g, q, size, n)
    BY <2>3 DEF AreSplitting
  <2>5. QED
    BY <2>4
<1>6. QED
  BY <1>5, <1>2

LEMMA SplittingIs ==
  ASSUME NEW q, Len(q) \in Nat, NEW size
  PROVE  /\ Splitting(q, size)[0] = <<>>
         /\ \A i \in 1..Len(q) : Splitting(q, size)[i] = Splitting(q, size)[i - 1] \o Pieces(q[i], size)
<1>1. AreSplitting(Splitting(q, size), q, size, Len(q))
  <2>1. Splitting(q, size) = CHOOSE f : AreSplitting(f, q, size, Len(q))
    BY Zenon DEF Splitting, AreSplitting
  <2>2. QED
    BY <2>1, SplittingExists
<1>2. QED
  BY <1>1 DEF AreSplitting

LEMMA JoinedBytes ==
  ASSUME NEW a \in Seq(Ranges), NEW b \in Seq(Ranges)
  PROVE  a \o b \in Seq(Ranges) /\ BytesOf(a \o b) = BytesOf(a) \cup BytesOf(b)
<1> DEFINE n == Len(a)  m == Len(b)  c == a \o b
<1>1. n \in Nat /\ m \in Nat /\ DOMAIN a = 1..n /\ DOMAIN b = 1..m
  BY SeqFacts
<1>2. c \in Seq(Ranges) /\ DOMAIN c = 1..(n + m) /\ (\A i \in 1..n : c[i] = a[i]) /\ \A i \in 1..m : c[n + i] = b[i]
  BY <1>1
<1> HIDE DEF c
<1>3. /\ \A i \in 1..n : i \in 1..(n + m)
      /\ \A i \in 1..m : n + i \in 1..(n + m)
      /\ \A i \in 1..(n + m) : i \in 1..n \/ (i - n \in 1..m /\ n + (i - n) = i)
  BY <1>1
<1>4. \A x : x \in BytesOf(a) <=> \E i \in 1..n : x \in Bytes(a[i])
  BY <1>1 DEF BytesOf
<1>5. \A x : x \in BytesOf(b) <=> \E i \in 1..m : x \in Bytes(b[i])
  BY <1>1 DEF BytesOf
<1>6. \A x : x \in BytesOf(c) <=> \E i \in 1..(n + m) : x \in Bytes(c[i])
  BY <1>2 DEF BytesOf
<1>7. ASSUME NEW x \in BytesOf(c) PROVE x \in BytesOf(a) \cup BytesOf(b)
  <2>1. PICK i \in 1..(n + m) : x \in Bytes(c[i])
    BY <1>6
  <2>2. CASE i \in 1..n
    BY <1>2, <1>4, <2>1, <2>2
  <2>3. CASE i - n \in 1..m /\ n + (i - n) = i
    <3>1. c[i] = b[i - n]
      BY <1>2, <2>3
    <3>2. QED
      BY <1>5, <2>1, <2>3, <3>1
  <2>4. QED
    BY <1>3, <2>2, <2>3
<1>8. ASSUME NEW x \in BytesOf(a) \cup BytesOf(b) PROVE x \in BytesOf(c)
  <2>1. CASE x \in BytesOf(a)
    BY <1>2, <1>3, <1>4, <1>6, <2>1
  <2>2. CASE x \in BytesOf(b)
    <3>1. PICK i \in 1..m : x \in Bytes(b[i])
      BY <1>5, <2>2
    <3>2. n + i \in 1..(n + m) /\ c[n + i] = b[i]
      BY <1>2, <1>3
    <3>3. QED
      BY <1>6, <3>1, <3>2
  <2>3. QED
    BY <2>1, <2>2
<1>9. QED
  BY <1>2, <1>7, <1>8 DEF c

\* split_chunks keeps every byte.
LEMMA SplitIs ==
  ASSUME NEW q \in Seq(Ranges), NEW size \in Nat \ {0}
  PROVE  Split(q, size) \in Seq(Ranges) /\ BytesOf(Split(q, size)) = BytesOf(q)
<1> DEFINE Cut(i) == /\ Splitting(q, size)[i] \in Seq(Ranges)
                     /\ \A b : b \in BytesOf(Splitting(q, size)[i]) <=> \E k \in 1..i : b \in Bytes(q[k])
           T == {i \in 0..Len(q) : ~Cut(i)}
<1>1. Len(q) \in Nat /\ DOMAIN q = 1..Len(q) /\ \A i \in 1..Len(q) : q[i] \in Ranges
  BY SeqFacts
<1> HIDE DEF Cut
<1>2. T = {}
  <2>1. SUFFICES ASSUME T # {} PROVE FALSE
    OBVIOUS
  <2>2. PICK i \in T : \A k \in T : i <= k
    <3>1. T \in SUBSET Nat
      BY <1>1
    <3>2. QED
      BY <2>1, <3>1, LeastNat
  <2>3. Cut(0)
    <3>1. Splitting(q, size)[0] = <<>>
      BY <1>1, SplittingIs
    <3>2. <<>> \in Seq(Ranges) /\ BytesOf(<<>>) = {} /\ 1..0 = {}
      BY DEF BytesOf
    <3>3. QED
      BY <3>1, <3>2 DEF Cut
  <2>4. i \in 1..Len(q) /\ i - 1 \in 0..Len(q) /\ i - 1 \notin T
    BY <1>1, <2>2, <2>3
  <2>5. Cut(i - 1)
    BY <2>4
  <2>6. Splitting(q, size)[i] = Splitting(q, size)[i - 1] \o Pieces(q[i], size)
    BY <1>1, <2>4, SplittingIs
  <2>7. Pieces(q[i], size) \in Seq(Ranges) /\ BytesOf(Pieces(q[i], size)) = Bytes(q[i])
    BY <1>1, <2>4, PiecesAre
  <2>8. /\ Splitting(q, size)[i] \in Seq(Ranges)
        /\ BytesOf(Splitting(q, size)[i]) = BytesOf(Splitting(q, size)[i - 1]) \cup Bytes(q[i])
    BY <2>5, <2>6, <2>7, JoinedBytes DEF Cut
  <2>9. \A k : k \in 1..i <=> k \in 1..(i - 1) \/ k = i
    BY <1>1, <2>4
  <2>10. Cut(i)
    BY <2>5, <2>8, <2>9 DEF Cut
  <2>11. QED
    BY <2>10
<1>3. Cut(Len(q))
  BY <1>1, <1>2
<1>4. \A b : b \in BytesOf(Split(q, size)) <=> b \in BytesOf(q)
  <2>1. \A b : b \in BytesOf(q) <=> \E k \in 1..Len(q) : b \in Bytes(q[k])
    BY <1>1 DEF BytesOf
  <2>2. QED
    BY <1>3, <2>1 DEF Split, Cut
<1>5. QED
  BY <1>3, <1>4 DEF Split, Cut

\* The chunks of a listing carry every allocated byte of the disk and no other, the footer's least of all, in
\* whatever order and however overlapping, empty or beyond the limit Azure lists its ranges (merge_ranges,
\* split_chunks).
THEOREM ChunksAreExact ==
  ASSUME NEW l \in Seq(Ranges), NEW limit \in Nat, NEW size \in Nat \ {0}
  PROVE  BytesOf(Split(Merge(l, limit), size)) = Allocated(l, limit)
BY MergeIs, SplitIs

-----------------------------------------------------------------------------
(* The bytes of a COPIED disk                                               *)

\* The threads work on the chunks of the listing of this attempt, and only inside a copy.
CopiesListing ==
  /\ active <=> pc = "copy"
  /\ pc = "copy" => listing \in Listings /\ chunks = Split(Merge(listing, Limit), ChunkBytes)

LEMMA NextCopiesListing == CopiesListing /\ RecordInv /\ [Next]_vars => CopiesListing'
<1>. SUFFICES ASSUME CopiesListing, RecordInv, [Next]_vars PROVE CopiesListing'
  OBVIOUS
<1>. USE DEF CopiesListing
<1>1. CASE RecordSnapshot \/ PutSnapshot \/ AwaitSnapshot \/ BeginGrant \/ NextDisk \/ OpenDevice \/ Prepare
  <2>1. pc # "copy" /\ pc' # "copy" /\ active' = active
    BY <1>1 DEF RecordSnapshot, PutSnapshot, AwaitSnapshot, BeginGrant, NextDisk, OpenDevice, Prepare, copyVars
  <2>. QED
    BY <2>1
<1>2. CASE List
  <2>1. \/ /\ listing' \in Listings /\ pc' = "copy" /\ active' = TRUE
           /\ chunks' = Split(Merge(listing', Limit), ChunkBytes)
        \/ pc = "list" /\ pc' \in {"attempt", "revoke"} /\ active' = active
    BY <1>2, AttemptFailsDoes DEF List, Begin, copyVars
  <2>. QED
    BY <2>1
<1>3. CASE Copied
  <2>1. pc' \in {"disk", "attempt", "revoke"} /\ active' = FALSE
    BY <1>3, CopiedDoes DEF Copied, Return, Forget
  <2>. QED
    BY <2>1
<1>4. CASE RevokeNext \/ ToSnapshots \/ DeleteNext \/ Teardown \/ Finish
  <2>1. pc # "copy" /\ pc' # "copy" /\ active' = active
    BY <1>4 DEF RevokeNext, ToSnapshots, DeleteNext, Teardown, Finish, copyVars
  <2>. QED
    BY <2>1
<1>5. CASE AccessStep
  <2>1. UNCHANGED <<active, chunks, listing>>
    BY <1>5 DEF AccessStep, EndAccess, PostAccess, AwaitAccess, Granted, LeaveRenewal, copyVars, progress
  <2>2. (pc = "copy" /\ pc' = "copy") \/ (pc # "copy" /\ pc' # "copy")
    <3>1. CASE UNCHANGED pc
      BY <3>1
    <3>2. CASE \E r \in {"ok", "error", "cancelled"} : Granted(r)
      <4>1. CASE pc = "copy"
        BY <3>2, <4>1 DEF Granted
      <4>2. CASE pc # "copy"
        BY <3>2, <4>2 DEF Granted, AttemptFails
      <4>. QED
        BY <4>1, <4>2
    <3>. QED
      BY <1>5, <3>1, <3>2 DEF AccessStep, EndAccess, PostAccess, AwaitAccess
  <2>. QED
    BY <2>1, <2>2
<1>6. ASSUME NEW w \in Workers, WorkerStep(w) PROVE CopiesListing'
  <2>1. UNCHANGED <<pc, listing>>
    BY <1>6 DEF WorkerStep, progress
  <2>2. UNCHANGED <<active, chunks>>
    BY <1>6 DEF WorkerStep, Take, ReportFailure, SetStop, CheckCancelled, Fetch, EnterRenewal, Write
  <2>. QED
    BY <2>1, <2>2
<1>7. CASE CancelRunning \/ LateReads \/ LateAsks \/ LatePuts \/ KillLogin \/ Tick \/ UNCHANGED vars
  BY <1>7 DEF CancelRunning, LateReads, LateAsks, LatePuts, KillLogin, Tick, vars, copyVars, progress
<1>8. CASE CancelFailed \/ LateTeardown \/ Forget30
  BY <1>8 DEF CancelFailed, LateTeardown, StartCleanup, Forget30, ForgetRenewal, copyVars, progress
<1>9. CASE Crash
  BY <1>9 DEF Crash, Die, Forget
<1>10. CASE SaveReleased
  <2>1. pc = "delete" /\ active' = active /\ raised \in {"none", "failed", "cancelled"}
    BY <1>10 DEF SaveReleased, copyVars, RecordInv, RecordPlaces
  <2>2. pc' \in {"finish", "teardown"}
    BY <1>10, <2>1, SaveReleasedDoes DEF RecordInv, RecordPlaces
  <2>. QED
    BY <2>1, <2>2
<1>. QED
  BY <1>1, <1>2, <1>3, <1>4, <1>5, <1>6, <1>7, <1>8, <1>9, <1>10 DEF Next, TaskStep

\* A disk becomes COPIED at the normal end of its copy, with every chunk of the listing written.
LEMMA CopiedWroteAll ==
  ASSUME ExportInv, CopiesListing, Next, NEW i, i \in copied' \ copied
  PROVE  /\ listing \in Listings /\ written = 1..Len(chunks)
         /\ chunks = Split(Merge(listing, Limit), ChunkBytes)
<1>1. Copied
  <2>1. CASE TaskStep
    BY <2>1 DEF TaskStep, RecordSnapshot, PutSnapshot, AwaitSnapshot, BeginGrant, NextDisk, OpenDevice, Prepare, List,
                RevokeNext, ToSnapshots, DeleteNext, SaveReleased, Teardown, Finish, progress
  <2>2. CASE AccessStep \/ \E w \in Workers : WorkerStep(w)
    BY <2>2 DEF AccessStep, EndAccess, PostAccess, AwaitAccess, WorkerStep, progress
  <2>3. CASE \/ CancelRunning \/ CancelFailed \/ LateReads \/ LateAsks \/ LatePuts \/ LateTeardown
           \/ KillLogin \/ Tick \/ Forget30 \/ Crash
    BY <2>3 DEF CancelRunning, CancelFailed, LateReads, LateAsks, LatePuts, LateTeardown, StartCleanup, KillLogin, Tick, Forget30,
                 Crash, progress
  <2>. QED
    BY <2>1, <2>2, <2>3 DEF Next
<1>2. pc = "copy" /\ Returned /\ failure = "none"
  <2>1. CASE failure = "none"
    BY <1>1, <2>1 DEF Copied, Return, Returned
  <2>2. CASE failure # "none"
    BY <1>1, <2>2 DEF Copied
  <2>. QED
    BY <2>1, <2>2
<1>3. CopyComplete
  BY InvIsComplete DEF ExportInv
<1>. QED
  BY <1>2, <1>3 DEF CopiesListing, CopyComplete

\* Whatever is cancelled, renewed, refused or tried again: a disk is COPIED only with all the allocated bytes
\* of its listing written, and none of the footer (merge_ranges, split_chunks, copy_ranges, _copy_azure_disk).
THEOREM CopiedDiskIsWhole == Spec => CopiedIsComplete
<1>1. ExportRecordInv /\ CopiesListing /\ Next =>
        \A i \in copied' \ copied : BytesOf([n \in written |-> chunks[n]]) = Allocated(listing, Limit)
  <2>. SUFFICES ASSUME ExportRecordInv, CopiesListing, Next, NEW i \in copied' \ copied
                PROVE  BytesOf([n \in written |-> chunks[n]]) = Allocated(listing, Limit)
    OBVIOUS
  <2>1. listing \in Listings /\ written = 1..Len(chunks) /\ chunks = Split(Merge(listing, Limit), ChunkBytes)
    BY CopiedWroteAll DEF ExportRecordInv
  <2>2. chunks \in Seq(Nat \X Nat)
    BY <2>1, AzureAssumption, ChunksAssumption
  <2>3. DOMAIN chunks = written
    BY <2>1, <2>2
  <2>4. BytesOf([n \in written |-> chunks[n]]) = BytesOf(chunks)
    BY <2>3 DEF BytesOf
  <2>5. listing \in Seq(Ranges) /\ Limit \in Nat /\ ChunkBytes \in Nat \ {0}
    BY <2>1, AzureAssumption DEF Ranges
  <2>. QED
    BY <2>1, <2>4, <2>5, ChunksAreExact
<1>2. Init => CopiesListing
  BY DEF Init, CopyInit, CopiesListing
<1>3. ExportRecordInv /\ CopiesListing /\ [Next]_vars => CopiesListing'
  BY NextCopiesListing DEF ExportRecordInv
<1>4. ExportRecordInv /\ CopiesListing /\ [Next]_vars =>
        [\A i \in copied' \ copied :
           BytesOf([n \in written |-> chunks[n]]) = Allocated(listing, Limit)]_vars
  BY <1>1
<1>. QED
  BY <1>2, <1>3, <1>4, AlwaysExportRecordInv, PTL DEF Spec, CopiedIsComplete
================================================================================
