------------------------------- MODULE RangeCopy -------------------------------
(***************************************************************************)
(* copy_ranges of disk/vhd_range_copy.py: a team of download threads takes  *)
(* chunks from a common queue, fetches each with a few tries and writes it  *)
(* in place.  The first exception of any thread ends the copy for all of    *)
(* them; a thread that is told its SAS is no longer valid renews it, unless *)
(* another thread did so in the last 30 seconds.                            *)
(*                                                                          *)
(* The answers of the blob service, of the cancel check, of the device and  *)
(* of the renewal are parameters of the actions: whoever uses this module   *)
(* supplies them.  The module's own Next lets them be anything.             *)
(***************************************************************************)
EXTENDS Naturals, Sequences

CONSTANTS
  Workers,    \* the download threads
  NoWorker,   \* nobody holds the refresh lock
  Retries,    \* tries for one chunk
  ChunkLists  \* the chunk sequences a copy may be given

ASSUME WorkersAssumption == Workers # {} /\ NoWorker \notin Workers
ASSUME RetriesAssumption == Retries \in Nat \ {0}
ASSUME ChunksAssumption == \A cs \in ChunkLists : cs \in Seq(Nat \X Nat)

VARIABLES
  active,   \* a call of copy_ranges is under way
  chunks,   \* its chunks, in order
  next,     \* the number of the next chunk in the queue
  wpc,      \* where each thread is
  chunk,    \* the number of the chunk a thread works on
  try,      \* which try of it
  exc,      \* the exception a thread is about to report
  failure,  \* failure[0]: the exception the caller will see
  stop,     \* the stop event
  holder,   \* who holds refresh_lock
  recent,   \* the SAS was renewed less than 30 s ago
  written   \* the chunks written by this call

copyVars == <<active, chunks, next, wpc, chunk, try, exc, failure, stop, holder, recent, written>>

WorkerPC   == {"take", "check", "fetch", "renew", "renewing", "write", "fail", "stop", "done"}
Exceptions == {"cancelled", "failed", "aborted"}
Answers    == {"data", "expired", "error"}

At(w, l) == wpc' = [wpc EXCEPT ![w] = l]

\* An exception leaves the thread's loop.
Throw(w, e) == At(w, "fail") /\ exc' = [exc EXCEPT ![w] = e]

\* A try failed: sleep and try again, or give up.
TryAgain(w) ==
  IF try[w] < Retries
    THEN At(w, "fetch") /\ try' = [try EXCEPT ![w] = @ + 1] /\ UNCHANGED exc
    ELSE Throw(w, "failed") /\ UNCHANGED try

-----------------------------------------------------------------------------
\* copy_ranges is called with the chunks cs.  Threads beyond the number of chunks are not started; here
\* they find the queue empty.
Begin(cs) ==
  /\ ~active
  /\ active' = TRUE /\ chunks' = cs /\ next' = 1
  /\ wpc' = [w \in Workers |-> IF cs = <<>> THEN "done" ELSE "take"]
  /\ chunk' = [w \in Workers |-> 0]
  /\ try' = [w \in Workers |-> 0]
  /\ exc' = [w \in Workers |-> "none"]
  /\ failure' = "none" /\ stop' = FALSE
  /\ recent' = FALSE /\ written' = {}
  /\ UNCHANGED holder

\* The head of the loop: leave when told to stop or when the queue is empty.
Take(w) ==
  /\ wpc[w] = "take"
  /\ IF stop \/ next > Len(chunks)
       THEN At(w, "done") /\ chunk' = [chunk EXCEPT ![w] = 0] /\ UNCHANGED next
       ELSE /\ At(w, "check")
            /\ chunk' = [chunk EXCEPT ![w] = next]
            /\ next' = next + 1
  /\ UNCHANGED <<active, chunks, try, exc, failure, stop, holder, recent, written>>

CheckCancelled(w, cancelled) ==
  /\ wpc[w] = "check"
  /\ IF cancelled
       THEN Throw(w, "cancelled") /\ UNCHANGED try
       ELSE At(w, "fetch") /\ try' = [try EXCEPT ![w] = 1] /\ UNCHANGED exc
  /\ UNCHANGED <<active, chunks, next, chunk, failure, stop, holder, recent, written>>

\* One try: "expired" is HTTP 403, "error" any other failed or short answer.
Fetch(w, answer) ==
  /\ wpc[w] = "fetch"
  /\ \/ stop /\ Throw(w, "aborted") /\ UNCHANGED try
     \/ ~stop /\ answer = "data" /\ At(w, "write") /\ UNCHANGED <<try, exc>>
     \/ ~stop /\ answer = "expired" /\ At(w, "renew") /\ UNCHANGED <<try, exc>>
     \/ ~stop /\ answer = "error" /\ TryAgain(w)
  /\ UNCHANGED <<active, chunks, next, chunk, failure, stop, holder, recent, written>>

\* Mutant of EnterRenewal: nobody looks whether another thread has just renewed the SAS.
EnterRenewal_Always(w) ==
  /\ wpc[w] = "renew" /\ holder = NoWorker
  /\ holder' = w /\ At(w, "renewing") /\ UNCHANGED <<try, exc>>
  /\ UNCHANGED <<active, chunks, next, chunk, failure, stop, recent, written>>

\* refresh_sas, from the lock on: a renewal of the last 30 s counts as this thread's.
EnterRenewal(w) ==
  /\ wpc[w] = "renew" /\ holder = NoWorker
  /\ IF recent
       THEN TryAgain(w) /\ UNCHANGED holder
       ELSE holder' = w /\ At(w, "renewing") /\ UNCHANGED <<try, exc>>
  /\ UNCHANGED <<active, chunks, next, chunk, failure, stop, recent, written>>

\* Mutant of LeaveRenewal: a failed renewal keeps the lock.
LeaveRenewal_KeepsLock(w, result) ==
  /\ wpc[w] = "renewing"
  /\ holder' = IF result = "ok" THEN NoWorker ELSE holder
  /\ recent' = (recent \/ result = "ok")
  /\ IF result = "cancelled" THEN Throw(w, "cancelled") /\ UNCHANGED try ELSE TryAgain(w)
  /\ UNCHANGED <<active, chunks, next, chunk, failure, stop, written>>

\* refresh() returned or raised: the lock is given back; the try that met the 403 has failed either way.
LeaveRenewal(w, result) ==
  /\ wpc[w] = "renewing"
  /\ holder' = NoWorker
  /\ recent' = (recent \/ result = "ok")
  /\ IF result = "cancelled" THEN Throw(w, "cancelled") /\ UNCHANGED try ELSE TryAgain(w)
  /\ UNCHANGED <<active, chunks, next, chunk, failure, stop, written>>

\* Thirty seconds go by.
ForgetRenewal ==
  /\ recent /\ recent' = FALSE
  /\ UNCHANGED <<active, chunks, next, wpc, chunk, try, exc, failure, stop, holder, written>>

\* write_at and the accounting after it.
Write(w, ok) ==
  /\ wpc[w] = "write"
  /\ try' = [try EXCEPT ![w] = 0]
  /\ IF ok
       THEN written' = written \cup {chunk[w]} /\ At(w, "take") /\ UNCHANGED exc
       ELSE Throw(w, "failed") /\ UNCHANGED written
  /\ UNCHANGED <<active, chunks, next, chunk, failure, stop, holder, recent>>

\* Mutant of ReportFailure: the last exception wins.
ReportFailure_Last(w) ==
  /\ wpc[w] = "fail"
  /\ failure' = exc[w]
  /\ At(w, "stop")
  /\ UNCHANGED <<active, chunks, next, chunk, try, exc, stop, holder, recent, written>>

\* fail(): the first exception is kept ...
ReportFailure(w) ==
  /\ wpc[w] = "fail"
  /\ failure' = IF failure = "none" THEN exc[w] ELSE failure
  /\ At(w, "stop")
  /\ UNCHANGED <<active, chunks, next, chunk, try, exc, stop, holder, recent, written>>

\* ... and only then are the others told to stop.
SetStop(w) ==
  /\ wpc[w] = "stop"
  /\ stop' = TRUE
  /\ At(w, "done")
  /\ chunk' = [chunk EXCEPT ![w] = 0] /\ try' = [try EXCEPT ![w] = 0] /\ exc' = [exc EXCEPT ![w] = "none"]
  /\ UNCHANGED <<active, chunks, next, failure, holder, recent, written>>

Joined == \A w \in Workers : wpc[w] = "done"

\* The locals of the call are gone.
Forget ==
  /\ active' = FALSE /\ chunks' = <<>> /\ next' = 1
  /\ wpc' = [w \in Workers |-> "done"]
  /\ chunk' = [w \in Workers |-> 0]
  /\ try' = [w \in Workers |-> 0]
  /\ exc' = [w \in Workers |-> "none"]
  /\ failure' = "none" /\ stop' = FALSE
  /\ holder' = NoWorker /\ recent' = FALSE /\ written' = {}

\* All threads are joined: copy_ranges returns, or raises failure[0].
Return == active /\ Joined /\ Forget

\* The process ends, and the daemon threads with it.
Die == Forget

CopyInit ==
  /\ active = FALSE /\ chunks = <<>> /\ next = 1
  /\ wpc = [w \in Workers |-> "done"]
  /\ chunk = [w \in Workers |-> 0]
  /\ try = [w \in Workers |-> 0]
  /\ exc = [w \in Workers |-> "none"]
  /\ failure = "none" /\ stop = FALSE
  /\ holder = NoWorker /\ recent = FALSE /\ written = {}

CopyNext ==
  \/ \E cs \in ChunkLists : Begin(cs)
  \/ \E w \in Workers :
       \/ Take(w) \/ EnterRenewal(w) \/ ReportFailure(w) \/ SetStop(w)
       \/ \E cancelled \in BOOLEAN : CheckCancelled(w, cancelled)
       \/ \E answer \in Answers : Fetch(w, answer)
       \/ \E result \in {"ok", "error", "cancelled"} : LeaveRenewal(w, result)
       \/ \E ok \in BOOLEAN : Write(w, ok)
  \/ ForgetRenewal
  \/ Return
  \/ Die

CopySpec == CopyInit /\ [][CopyNext]_copyVars

-----------------------------------------------------------------------------
(* Properties                                                               *)

Returned == active /\ Joined

\* copy_ranges returns normally only when every chunk was written: no thread may leave the loop with a
\* chunk in hand, whatever fails in the others.
CopyComplete == Returned /\ failure = "none" => written = 1..Len(chunks)

\* The exception the caller sees is the root cause (the cancel request included), never the "aborted" of a
\* thread that was merely told to stop: fail() keeps the first exception before it sets the event.
RootCause == failure # "aborted"

\* No chunk is in the hands of two threads, so two write_at calls never overlap.
Holding == {"check", "fetch", "renew", "renewing", "write"}
ChunkOwned ==
  \A v, w \in Workers : v # w /\ wpc[v] \in Holding /\ wpc[w] \in Holding => chunk[v] # chunk[w]
================================================================================
