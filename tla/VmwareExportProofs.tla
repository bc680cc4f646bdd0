------------------------------ MODULE VmwareExportProofs ------------------------------
(***************************************************************************)
(* What the export of a VMware VM guarantees for any streams, leases,       *)
(* attempts, depth of the queue and interleaving of its threads.            *)
(*                                                                          *)
(* First the pipelined decoder: it implements OrderedDecode, finish         *)
(* succeeds only when everything was decoded, errors reach the caller as    *)
(* they were raised; the export uses it as DecodePipeline describes it.     *)
(* Then the export around it: a descriptor outlives its worker, and the     *)
(* lease is completed only for a job whose disks are copied.  At last the   *)
(* data: a decoder that finishes has seen an intact stream, every disk is   *)
(* given its own URL, and so a disk that is COPIED is its own stream.       *)
(***************************************************************************)
EXTENDS VmwareExport, FiniteSetTheorems, TLAPS

(* The pipelined decoder                                                    *)

PipeTypeOK ==
  /\ queue \in Seq(Nat) /\ sent \in Nat /\ fed \in Nat /\ hand \in Nat
  /\ wpc \in WorkerPC /\ ppc \in ProducerPC /\ error \in Errors /\ raised \in Errors
  /\ failed \in BOOLEAN /\ stopped \in BOOLEAN /\ done \in BOOLEAN

\* The worker may still take a chunk; the producer has not begun to abort.
Alive   == wpc \in {"loop", "get", "feed"}
Handing == ppc \in {"out", "put", "eof", "join"} /\ ~done

\* The last chunk that left the queue.
Base == IF hand = EOF THEN fed ELSE hand

HandOK ==
  /\ hand # EOF <=> wpc \in {"feed", "failed", "stop"}
  /\ hand # EOF => hand = fed + 1
  /\ fed <= sent /\ hand <= sent

\* The chunks in the queue are the ones that follow.
InOrder ==
  Alive => \A i \in 1..Len(queue) : queue[i] # EOF => queue[i] = Base + i /\ queue[i] <= sent

\* Until an abort nothing is lost on the way, and the end marker is the last thing on the queue.
Counted ==
  Alive /\ Handing =>
    /\ ~stopped
    /\ sent + (IF ppc = "join" THEN 1 ELSE 0) = Base + Len(queue)
    /\ \A i \in 1..Len(queue) : queue[i] = EOF <=> ppc = "join" /\ i = Len(queue)

\* A worker that ended without an error took the end marker.
EndedForAReason ==
  /\ wpc = "ended" /\ Handing /\ error = "none" => ppc = "join" /\ fed = sent
  /\ wpc \in {"failed", "stop"} => error # "none"

\* Who is in the middle of a call is not done; abort leaves an error behind.
CallOK ==
  /\ done => ppc = "out"
  /\ ppc \in {"empty", "leave"} => error # "none"
  /\ error = "aborted" => done \/ ppc \in {"empty", "leave"}

PipeInv ==
  /\ PipeTypeOK /\ HandOK /\ InOrder /\ Counted /\ EndedForAReason /\ CallOK
  /\ OriginalError /\ FinishedIsComplete

USE DEF EOF, WorkerPC, ProducerPC, Errors, Alive, Handing, Base
USE DepthAssumption

LEMMA NoChunks == <<>> \in Seq(Nat) /\ Len(<<>>) = 0 /\ \A i \in 1..0 : FALSE
OBVIOUS

LEMMA PipeInitInv == PipeInit => PipeInv
<1> SUFFICES ASSUME PipeInit PROVE PipeInv
  OBVIOUS
<1>1. /\ sent = 0 /\ fed = 0 /\ hand = 0 /\ wpc = "ended" /\ error = "none" /\ failed = FALSE
      /\ stopped = FALSE /\ done = TRUE /\ raised = "none" /\ ppc = "out" /\ queue \in Seq(Nat)
  BY NoChunks DEF PipeInit
<1>2. PipeTypeOK
  BY <1>1 DEF PipeTypeOK
<1>3. HandOK
  BY <1>1 DEF HandOK
<1>4. InOrder /\ Counted /\ EndedForAReason /\ CallOK /\ OriginalError /\ FinishedIsComplete
  BY <1>1 DEF InOrder, Counted, EndedForAReason, CallOK, OriginalError, FinishedIsComplete
<1> QED
  BY <1>2, <1>3, <1>4 DEF PipeInv

\* The steps that leave the queue alone.
LEMMA CallStep == PipeInv /\ ((\E l \in {"put", "eof"} : Call(l)) \/ PutTimesOut) => PipeInv'
<1> SUFFICES ASSUME PipeInv, (\E l \in {"put", "eof"} : Call(l)) \/ PutTimesOut PROVE PipeInv'
  OBVIOUS
<1>1. /\ UNCHANGED <<queue, sent, fed, hand, wpc, error, failed, stopped, done>>
      /\ ~done /\ ppc \in {"out", "put"}
      /\ ppc' \in {"out", "put", "eof"} /\ raised' \in {"none", error}
  BY DEF Call, PutTimesOut, ReturnCall, Surfaces, worker, PipeInv, CallOK
<1>2. error # "aborted"
  BY <1>1 DEF PipeInv, CallOK
<1> QED
  BY <1>1, <1>2 DEF PipeInv, PipeTypeOK, HandOK, InOrder, Counted, EndedForAReason, CallOK,
                    OriginalError, FinishedIsComplete

LEMMA CreateStep == PipeInv /\ Create => PipeInv'
<1> SUFFICES ASSUME PipeInv, Create PROVE PipeInv'
  OBVIOUS
<1>1. /\ queue' = <<>> /\ sent' = 0 /\ fed' = 0 /\ hand' = 0 /\ wpc' = "loop" /\ error' = "none"
      /\ failed' = FALSE /\ stopped' = FALSE /\ done' = FALSE /\ raised' = "none" /\ ppc' = "out"
  BY DEF Create
<1>2. queue' \in Seq(Nat) /\ Len(queue') = 0 /\ \A i \in 1..Len(queue') : FALSE
  BY <1>1, NoChunks
<1>3. PipeTypeOK'
  BY <1>1, <1>2 DEF PipeTypeOK
<1>4. HandOK'
  BY <1>1 DEF HandOK
<1>5. InOrder' /\ Counted'
  BY <1>1, <1>2 DEF InOrder, Counted
<1>6. EndedForAReason' /\ CallOK' /\ OriginalError' /\ FinishedIsComplete'
  BY <1>1 DEF EndedForAReason, CallOK, OriginalError, FinishedIsComplete
<1> QED
  BY <1>3, <1>4, <1>5, <1>6 DEF PipeInv

\* What an Append does to the queue.
LEMMA AppendFacts ==
  ASSUME NEW q \in Seq(Nat), NEW n \in Nat
  PROVE  /\ Append(q, n) \in Seq(Nat) /\ Len(Append(q, n)) = Len(q) + 1 /\ Len(q) \in Nat
         /\ \A i \in 1..Len(q) : Append(q, n)[i] = q[i] /\ q[i] \in Nat
         /\ Append(q, n)[Len(q) + 1] = n
OBVIOUS

LEMMA PutStep == PipeInv /\ Put => PipeInv'
<1> SUFFICES ASSUME PipeInv, Put PROVE PipeInv'
  OBVIOUS
<1>1. /\ ppc = "put" /\ ppc' = "out" /\ sent' = sent + 1 /\ queue' = Append(queue, sent + 1)
      /\ UNCHANGED <<fed, hand, wpc, error, failed, stopped, done, raised>>
      /\ queue \in Seq(Nat) /\ sent \in Nat /\ sent + 1 \in Nat /\ ~done
  BY DEF Put, worker, PipeInv, PipeTypeOK, CallOK
<1>2. /\ queue' \in Seq(Nat) /\ Len(queue') = Len(queue) + 1 /\ Len(queue) \in Nat
      /\ \A i \in 1..Len(queue) : queue'[i] = queue[i] /\ queue[i] \in Nat
      /\ queue'[Len(queue) + 1] = sent + 1
  BY <1>1, AppendFacts
<1>3. PipeTypeOK'
  BY <1>1, <1>2 DEF PipeInv, PipeTypeOK
<1>4. HandOK' /\ EndedForAReason' /\ CallOK' /\ OriginalError' /\ FinishedIsComplete'
  BY <1>1 DEF PipeInv, PipeTypeOK, HandOK, EndedForAReason, CallOK, OriginalError, FinishedIsComplete
<1>5. Alive => sent = Base + Len(queue)
  BY <1>1 DEF PipeInv, Counted
<1>6. (Alive' <=> Alive) /\ Base' = Base /\ stopped' = stopped /\ Base \in Nat
  BY <1>1 DEF PipeInv, PipeTypeOK
<1>7. ASSUME Alive', NEW n \in 1..Len(queue'), queue'[n] # EOF
      PROVE  queue'[n] = Base' + n /\ queue'[n] <= sent'
  <2>1. CASE n = Len(queue) + 1
    <3>1. queue'[n] = sent + 1 /\ sent' = sent + 1 /\ sent \in Nat
      BY <1>1, <1>2, <2>1
    <3>2. sent = Base' + Len(queue)
      BY <1>5, <1>6, <1>7
    <3>3. QED
      BY <1>2, <1>6, <2>1, <3>1, <3>2
  <2>2. CASE n \in 1..Len(queue)
    <3>1. queue[n] = Base + n /\ queue[n] <= sent
      BY <1>2, <1>6, <1>7, <2>2 DEF PipeInv, InOrder
    <3>2. QED
      BY <1>1, <1>2, <1>6, <2>2, <3>1
  <2>3. QED
    BY <1>2, <2>1, <2>2
<1>8. InOrder'
  BY <1>7 DEF InOrder
<1>9. Alive => ~stopped /\ \A n \in 1..Len(queue) : queue[n] # EOF
  BY <1>1 DEF PipeInv, Counted
<1>10. Counted'
  <2>1. SUFFICES ASSUME Alive'
                 PROVE  /\ ~stopped' /\ sent' = Base' + Len(queue')
                        /\ \A n \in 1..Len(queue') : queue'[n] # EOF
    BY <1>1 DEF Counted
  <2>2. \A n \in 1..Len(queue) : queue'[n] # EOF
    BY <1>2, <1>6, <1>9, <2>1
  <2>3. QED
    BY <1>1, <1>2, <1>5, <1>6, <1>9, <2>1, <2>2
<1> QED
  BY <1>3, <1>4, <1>8, <1>10 DEF PipeInv

LEMMA PutEofStep == PipeInv /\ PutEof => PipeInv'
<1> SUFFICES ASSUME PipeInv, PutEof PROVE PipeInv'
  OBVIOUS
<1>1. /\ ppc = "eof" /\ ppc' = "join" /\ queue' = Append(queue, 0)
      /\ UNCHANGED <<sent, fed, hand, wpc, error, failed, stopped, done, raised>>
      /\ queue \in Seq(Nat) /\ ~done
  BY DEF PutEof, worker, PipeInv, PipeTypeOK, CallOK
<1>2. /\ queue' \in Seq(Nat) /\ Len(queue') = Len(queue) + 1 /\ Len(queue) \in Nat
      /\ \A i \in 1..Len(queue) : queue'[i] = queue[i] /\ queue[i] \in Nat
      /\ queue'[Len(queue) + 1] = 0
  BY <1>1, AppendFacts
<1>3. PipeTypeOK'
  BY <1>1, <1>2 DEF PipeInv, PipeTypeOK
<1>4. HandOK' /\ EndedForAReason' /\ CallOK' /\ OriginalError' /\ FinishedIsComplete'
  BY <1>1 DEF PipeInv, PipeTypeOK, HandOK, EndedForAReason, CallOK, OriginalError, FinishedIsComplete
<1>5. InOrder'
  BY <1>1, <1>2 DEF PipeInv, PipeTypeOK, InOrder
<1>6. Counted'
  BY <1>1, <1>2 DEF PipeInv, PipeTypeOK, Counted
<1> QED
  BY <1>3, <1>4, <1>5, <1>6 DEF PipeInv

\* The end of finish and the steps of abort: the queue is left alone or holds nothing but the end marker.
LEMMA EndStep ==
  PipeInv /\ (Joined \/ CallAbort \/ AbortFlag \/ \E timeout \in BOOLEAN : AbortJoin(timeout)) => PipeInv'
<1> SUFFICES ASSUME PipeInv, Joined \/ CallAbort \/ AbortFlag \/ \E timeout \in BOOLEAN : AbortJoin(timeout)
             PROVE PipeInv'
  OBVIOUS
<1>1. CASE Joined
  BY <1>1 DEF Joined, ReturnCall, Surfaces, worker, PipeInv, PipeTypeOK, HandOK, InOrder, Counted,
              EndedForAReason, CallOK, OriginalError, FinishedIsComplete
<1>2. CASE CallAbort
  BY <1>2 DEF CallAbort, worker, PipeInv, PipeTypeOK, HandOK, InOrder, Counted,
              EndedForAReason, CallOK, OriginalError, FinishedIsComplete
<1>3. CASE AbortFlag
  BY <1>3 DEF AbortFlag, worker, PipeInv, PipeTypeOK, HandOK, InOrder, Counted,
              EndedForAReason, CallOK, OriginalError, FinishedIsComplete
<1>4. CASE \E timeout \in BOOLEAN : AbortJoin(timeout)
  BY <1>4 DEF AbortJoin, worker, PipeInv, PipeTypeOK, HandOK, InOrder, Counted,
              EndedForAReason, CallOK, OriginalError, FinishedIsComplete
<1> QED
  BY <1>1, <1>2, <1>3, <1>4

LEMMA AbortEmptyStep == PipeInv /\ AbortEmpty => PipeInv'
<1> SUFFICES ASSUME PipeInv, AbortEmpty PROVE PipeInv'
  OBVIOUS
<1>1. queue' = <<0>> /\ queue' \in Seq(Nat) /\ Len(queue') = 1 /\ queue'[1] = 0
  BY DEF AbortEmpty
<1>2. /\ ppc = "empty" /\ ppc' = "leave"
      /\ UNCHANGED <<sent, fed, hand, wpc, error, failed, stopped, done, raised>>
  BY DEF AbortEmpty, worker
<1> QED
  BY <1>1, <1>2 DEF PipeInv, PipeTypeOK, HandOK, InOrder, Counted, EndedForAReason, CallOK,
                    OriginalError, FinishedIsComplete

-----------------------------------------------------------------------------
\* What is left when the head is taken off the queue.
LEMMA TailFacts ==
  ASSUME NEW q \in Seq(Nat), q # <<>>
  PROVE  /\ Tail(q) \in Seq(Nat) /\ Len(Tail(q)) = Len(q) - 1 /\ Len(q) \in Nat /\ Len(q) >= 1
         /\ \A i \in 1..Len(q) - 1 : Tail(q)[i] = q[i + 1]
         /\ Head(q) = q[1] /\ q[1] \in Nat /\ \A i \in 1..Len(q) : q[i] \in Nat
OBVIOUS

LEMMA GetStep == PipeInv /\ Get => PipeInv'
<1> SUFFICES ASSUME PipeInv, Get PROVE PipeInv'
  OBVIOUS
<1>1. /\ wpc = "get" /\ hand = 0 /\ hand' = queue[1] /\ queue[1] \in Nat
      /\ wpc' = IF hand' = 0 THEN "ended" ELSE "feed"
      /\ UNCHANGED <<sent, fed, error, failed, stopped, done, raised, ppc>>
      /\ queue \in Seq(Nat) /\ queue # <<>> /\ queue' = Tail(queue)
  BY TailFacts DEF Get, producer, PipeInv, PipeTypeOK, HandOK
<1>2. /\ queue' \in Seq(Nat) /\ Len(queue') = Len(queue) - 1 /\ Len(queue) \in Nat /\ Len(queue) >= 1
      /\ \A i \in 1..Len(queue) - 1 : queue'[i] = queue[i + 1]
      /\ \A i \in 1..Len(queue) : queue[i] \in Nat
  BY <1>1, TailFacts
<1>3. hand' # 0 => hand' = fed + 1 /\ hand' <= sent
  BY <1>1, <1>2 DEF PipeInv, PipeTypeOK, InOrder
<1>4. PipeTypeOK'
  BY <1>1, <1>2 DEF PipeInv, PipeTypeOK
<1>5. HandOK'
  BY <1>1, <1>3 DEF PipeInv, PipeTypeOK, HandOK
<1>6. InOrder'
  BY <1>1, <1>2, <1>3 DEF PipeInv, PipeTypeOK, InOrder
<1> DEFINE Extra == IF ppc = "join" THEN 1 ELSE 0
<1>a. Handing => /\ ~stopped /\ sent + Extra = fed + Len(queue)
                 /\ \A i \in 1..Len(queue) : queue[i] = 0 <=> ppc = "join" /\ i = Len(queue)
  BY <1>1 DEF PipeInv, Counted
<1>7. Counted'
  <2> SUFFICES ASSUME hand' # 0, Handing
               PROVE  /\ ~stopped /\ sent + Extra = hand' + Len(queue')
                      /\ \A i \in 1..Len(queue') : queue'[i] = 0 <=> ppc = "join" /\ i = Len(queue')
    BY <1>1 DEF Counted
  <2>1. hand' = fed + 1 /\ fed \in Nat /\ sent \in Nat
    BY <1>3 DEF PipeInv, PipeTypeOK
  <2>2. \A i \in 1..Len(queue') : i + 1 \in 1..Len(queue) /\ queue'[i] = queue[i + 1]
    BY <1>2
  <2>a. Extra \in Nat
    OBVIOUS
  <2>b. sent + Extra = fed + Len(queue)
    BY <1>a
  <2>c. Len(queue') = Len(queue) - 1 /\ Len(queue) \in Nat
    BY <1>2
  <2>d. \A e, h, l, k \in Nat : \A f, t \in Nat : t + e = f + l /\ h = f + 1 /\ k = l - 1 => t + e = h + k
    OBVIOUS
  <2>3. sent + Extra = hand' + Len(queue')
    <3>1. hand' \in Nat /\ Len(queue') \in Nat
      BY <1>2, <2>1, <1>1
    <3> QED
      BY <2>a, <2>b, <2>c, <2>d, <2>1, <3>1
  <2>4. ASSUME NEW i \in 1..Len(queue') PROVE queue'[i] = 0 <=> ppc = "join" /\ i = Len(queue')
    <3>1. i + 1 \in 1..Len(queue) /\ queue'[i] = queue[i + 1] /\ (i + 1 = Len(queue) <=> i = Len(queue'))
      BY <2>2, <1>2
    <3> QED
      BY <1>a, <3>1
  <2> QED
    BY <1>a, <2>3, <2>4 DEF Extra
<1>8. EndedForAReason'
  <2>1. CASE hand' = 0 /\ Handing
    <3>a. 1 \in 1..Len(queue) /\ queue[1] = 0 /\ Handing
      BY <1>1, <1>2, <2>1
    <3>b. queue[1] = 0 <=> ppc = "join" /\ 1 = Len(queue)
      BY <1>a, <3>a
    <3>1. ppc = "join" /\ Len(queue) = 1
      BY <3>a, <3>b
    <3> QED
      BY <1>a, <1>1, <3>1 DEF PipeInv, PipeTypeOK, EndedForAReason
  <2> QED
    BY <1>1, <2>1 DEF EndedForAReason
<1>9. CallOK' /\ OriginalError' /\ FinishedIsComplete'
  BY <1>1 DEF PipeInv, CallOK, OriginalError, FinishedIsComplete
<1> QED
  BY <1>4, <1>5, <1>6, <1>7, <1>8, <1>9 DEF PipeInv

LEMMA DecodedStep == PipeInv /\ Decoded => PipeInv'
BY DEF Decoded, producer, PipeInv, PipeTypeOK, HandOK, InOrder, Counted, EndedForAReason, CallOK,
       OriginalError, FinishedIsComplete

LEMMA WorkerStepInv == PipeInv /\ (WorkerLoop \/ DecodeFails \/ WorkerFails \/ WorkerStops) => PipeInv'
<1> SUFFICES ASSUME PipeInv, WorkerLoop \/ DecodeFails \/ WorkerFails \/ WorkerStops PROVE PipeInv'
  OBVIOUS
<1>1. CASE WorkerLoop
  BY <1>1 DEF WorkerLoop, producer, PipeInv, PipeTypeOK, HandOK, InOrder, Counted,
              EndedForAReason, CallOK, OriginalError, FinishedIsComplete
<1>2. CASE DecodeFails
  BY <1>2 DEF DecodeFails, producer, PipeInv, PipeTypeOK, HandOK, InOrder, Counted,
              EndedForAReason, CallOK, OriginalError, FinishedIsComplete
<1>3. CASE WorkerFails
  BY <1>3 DEF WorkerFails, producer, PipeInv, PipeTypeOK, HandOK, InOrder, Counted,
              EndedForAReason, CallOK, OriginalError, FinishedIsComplete
<1>4. CASE WorkerStops
  BY <1>4 DEF WorkerStops, producer, PipeInv, PipeTypeOK, HandOK, InOrder, Counted,
              EndedForAReason, CallOK, OriginalError, FinishedIsComplete
<1> QED
  BY <1>1, <1>2, <1>3, <1>4

LEMMA PipeNextInv == PipeInv /\ [PipeNext]_pipeVars => PipeInv'
<1>1. PipeInv /\ UNCHANGED pipeVars => PipeInv'
  BY DEF pipeVars, PipeInv, PipeTypeOK, HandOK, InOrder, Counted, EndedForAReason, CallOK,
         OriginalError, FinishedIsComplete
<1>2. PipeInv /\ (CallFeed \/ CallFinish) => PipeInv'
  BY CallStep DEF CallFeed, CallFinish
<1> QED
  BY <1>1, <1>2, CallStep, CreateStep, PutStep, PutEofStep, EndStep, AbortEmptyStep, GetStep, DecodedStep,
     WorkerStepInv DEF PipeNext, ProducerStep, WorkerStep

\* The invariant of the pipeline.
THEOREM PipelineInvariant == PipeSpec => []PipeInv
<1> QED
  BY PipeInitInv, PipeNextInv, PTL DEF PipeSpec

\* finish() of pipeline.py succeeds only when the decoder has taken every chunk that was fed.
THEOREM FinishIsComplete == PipeSpec => []FinishedIsComplete
<1>1. PipeInv => FinishedIsComplete
  BY DEF PipeInv
<1> QED
  BY <1>1, PipelineInvariant, PTL

\* feed() and finish() of pipeline.py raise what the decoder or the writer raised, never the error of abort().
THEOREM ErrorsKeepTheirType == PipeSpec => []OriginalError
<1>1. PipeInv => OriginalError
  BY DEF PipeInv
<1> QED
  BY <1>1, PipelineInvariant, PTL

-----------------------------------------------------------------------------
(* The refinement                                                           *)

LEMMA StartIsStart == PipeInit => Ordered!Start
BY DEF PipeInit, Ordered!Start, Verdict

LEMMA StepIsDecode ==
  PipeInv /\ [PipeNext]_pipeVars => [Ordered!DecodeNext]_(Ordered!decodeVars)
<1> SUFFICES ASSUME PipeInv, [PipeNext]_pipeVars PROVE [Ordered!DecodeNext]_(Ordered!decodeVars)
  OBVIOUS
<1> USE DEF Ordered!DecodeNext, Ordered!decodeVars, Verdict
<1>1. CASE UNCHANGED pipeVars
  BY <1>1 DEF pipeVars
<1>2. CASE Create
  BY <1>2 DEF Create, Ordered!Again
<1>3. CASE Put
  BY <1>3 DEF Put, worker, Ordered!Give, PipeInv, CallOK
<1>4. CASE Decoded
  BY <1>4 DEF Decoded, producer, Ordered!Decode, PipeInv, PipeTypeOK, HandOK
<1>5. CASE DecodeFails
  BY <1>5 DEF DecodeFails, producer, Ordered!Fail
<1>6. CASE AbortFlag
  BY <1>6 DEF AbortFlag, worker, Ordered!Fail
<1>7. CASE Joined
  BY <1>7 DEF Joined, worker, Ordered!Finish, PipeInv, CallOK, EndedForAReason
<1>8. CASE \E timeout \in BOOLEAN : AbortJoin(timeout)
  BY <1>8 DEF AbortJoin, worker, PipeInv, CallOK
<1>9. CASE CallFeed \/ CallFinish \/ PutTimesOut
  BY <1>9 DEF CallFeed, CallFinish, Call, PutTimesOut, worker
<1>10. CASE PutEof \/ CallAbort \/ AbortEmpty
  BY <1>10 DEF PutEof, CallAbort, AbortEmpty, worker
<1>11. CASE WorkerStep
  BY <1>11 DEF WorkerStep, WorkerLoop, Get, WorkerFails, WorkerStops, producer
<1> QED
  BY <1>1, <1>2, <1>3, <1>4, <1>5, <1>6, <1>7, <1>8, <1>9, <1>10, <1>11 DEF PipeNext, ProducerStep

\* "Drop-in for StreamOptimizedDecoder" (pipeline.py): the pipelined decoder implements an ordered decode.
THEOREM PipelineIsOrderedDecode == PipeSpec => Ordered!DecodeSpec
<1> QED
  BY StartIsStart, StepIsDecode, PipelineInvariant, PTL DEF PipeSpec, Ordered!DecodeSpec

\* The same, as the property the runs check.
THEOREM PipelineStepsAreOrdered == PipeSpec => IsOrderedDecode
<1> QED
  BY StepIsDecode, PipelineInvariant, PTL DEF PipeSpec, IsOrderedDecode

-----------------------------------------------------------------------------
(* The export around it                                                     *)

PipeStep == PipeNext \/ UNCHANGED pipeVars

LEMMA PowerPipeStep ==
  CheckPower \/ ShutDown \/ GuestWait \/ OffWait \/ PowerOff \/ TaskWait => UNCHANGED pipeVars
BY DEF CheckPower, ShutDown, GuestWait, OffWait, AwaitOff, PowerOff, TaskWait

LEMMA LeasePipeStep == OpenLease \/ LeaseWait \/ MatchUrls \/ CloseLease => UNCHANGED pipeVars
BY DEF OpenLease, LeaseWait, MatchUrls, CloseLease

LEMMA CopyPipeStep ==
  NextDisk \/ Begin \/ Download \/ FeedReturns \/ Decode \/ Finish \/ Abort \/ Aborted \/ Close => PipeStep
<1>1. Begin => PipeStep
  BY DEF Begin, PipeStep, PipeNext
<1>2. Download => PipeStep
  BY DEF Download, PipeStep, PipeNext
<1>3. Abort => PipeStep
  BY DEF Abort, PipeStep, PipeNext
<1>4. NextDisk \/ FeedReturns \/ Decode \/ Finish \/ Aborted \/ Close => PipeStep
  BY DEF NextDisk, FeedReturns, Decode, Finish, Aborted, Close, PipeStep
<1> QED
  BY <1>1, <1>2, <1>3, <1>4

LEMMA CallPipeStep == CallSteps => PipeStep
<1>1. CASE \E timeout \in BOOLEAN : AbortJoin(timeout)
  BY <1>1 DEF PipeStep, PipeNext, ProducerStep
<1>2. CASE Put \/ PutTimesOut \/ PutEof \/ Joined \/ AbortFlag \/ AbortEmpty
  BY <1>2 DEF PipeStep, PipeNext, ProducerStep
<1> QED
  BY <1>1, <1>2 DEF CallSteps

LEMMA WorkerPipeStep == WorkerSteps => PipeStep
<1>1. WorkerGets => PipeStep
  BY DEF WorkerGets, PipeStep, PipeNext, WorkerStep
<1>2. WorkerDecodes => PipeStep
  BY DEF WorkerDecodes, PipeStep, PipeNext
<1>3. WorkerMoves => PipeStep
  BY DEF WorkerMoves, PipeStep, PipeNext, WorkerStep
<1> QED
  BY <1>1, <1>2, <1>3 DEF WorkerSteps

LEMMA AroundPipeStep ==
  OrphanDecodes \/ CancelRunning \/ GuestStops \/ TaskRuns \/ UserSwitches \/ LeaseTurns => UNCHANGED pipeVars
BY DEF OrphanDecodes, CancelRunning, GuestStops, TaskRuns, UserSwitches, LeaseTurns

LEMMA NextPipeStep == [Next]_vars => [PipeNext]_pipeVars
<1>1. UNCHANGED vars => UNCHANGED pipeVars
  BY DEF vars
<1>2. TaskStep => PipeStep
  BY PowerPipeStep, LeasePipeStep, CopyPipeStep, CallPipeStep DEF TaskStep, PipeStep
<1>3. Next => PipeStep
  BY <1>2, WorkerPipeStep, AroundPipeStep DEF Next, PipeStep
<1> QED
  BY <1>1, <1>3 DEF PipeStep

LEMMA InitPipe == Init => PipeInit
BY DEF Init

\* _export_disk (runner.py) drives PipelinedDecoder only in the ways pipeline.py expects.
THEOREM ExportUsesPipeline == Spec => UsesPipeline
<1> QED
  BY NextPipeStep, PTL DEF Spec, UsesPipeline

\* The export implements the pipeline, and so the ordered decode.
THEOREM ExportRefinesPipeline == Spec => PipeSpec
<1> QED
  BY NextPipeStep, InitPipe, PTL DEF Spec, PipeSpec

\* In every export the pipelined decoder passes for the plain one (disk/pipeline.py).
THEOREM ExportDecodesInOrder == Spec => IsOrderedDecode
<1> QED
  BY ExportRefinesPipeline, PipelineStepsAreOrdered, PTL

\* In every export finish() succeeds only with every chunk decoded (disk/pipeline.py).
THEOREM ExportFinishIsComplete == Spec => []FinishedIsComplete
<1> QED
  BY ExportRefinesPipeline, FinishIsComplete, PTL

\* In every export the errors of the decoder and of the writer keep their type, so the attempt is retried.
THEOREM ExportErrorsKeepTheirType == Spec => []OriginalError
<1> QED
  BY ExportRefinesPipeline, ErrorsKeepTheirType, PTL

-----------------------------------------------------------------------------
(* The descriptor and the worker.  The descriptor is open exactly inside an *)
(* attempt, and the pipeline of an attempt is done before it is closed.     *)

Attempting == {"stream", "feed", "decode", "finish", "abort", "aborting"}

WriterInv ==
  /\ idx \in Nat \ {0}
  /\ fd = 0 => pc \notin Attempting \cup {"close"}
  /\ pc \notin Attempting => done
  /\ ~setup.pipelined => done
  /\ pc = "aborting" => ppc \in {"flag", "empty", "leave"} \/ (ppc = "out" /\ done)
  /\ "hang" \notin setup.events => (done => wpc = "ended")

\* These steps leave the pipeline alone and stay outside of an attempt.
Outside ==
  \/ CheckPower \/ ShutDown \/ GuestWait \/ OffWait \/ PowerOff \/ TaskWait
  \/ OpenLease \/ LeaseWait \/ MatchUrls \/ CloseLease \/ NextDisk

LEMMA OutsideWriter == WriterInv /\ Outside => WriterInv'
<1>. SUFFICES ASSUME WriterInv, Outside PROVE WriterInv'
  OBVIOUS
<1>1. CASE NextDisk
  <2>1. UNCHANGED <<pipeVars, fd, setup>> /\ pc = "disk" /\ pc' \in {"disk", "attempt", "exit"}
        /\ (idx' = idx \/ idx' = idx + 1)
    BY <1>1 DEF NextDisk, Goto, Exit, volumes
  <2>. QED
    BY <2>1 DEF WriterInv, Attempting, pipeVars
<1>2. CASE CheckPower \/ ShutDown \/ GuestWait \/ OffWait \/ PowerOff \/ TaskWait
  <2>1. /\ UNCHANGED <<pipeVars, fd, setup, idx>>
        /\ pc \notin Attempting \cup {"close"} /\ pc' \notin Attempting \cup {"close"}
    BY <1>2 DEF CheckPower, ShutDown, GuestWait, OffWait, AwaitOff, PowerOff, TaskWait, Goto, End, volumes, loop,
                Attempting
  <2>. QED
    BY <2>1 DEF WriterInv, Attempting, pipeVars
<1>3. CASE OpenLease \/ LeaseWait \/ MatchUrls \/ CloseLease
  <2>1. /\ UNCHANGED <<pipeVars, fd, setup, idx>>
        /\ pc \notin Attempting \cup {"close"} /\ pc' \notin Attempting \cup {"close"}
    BY <1>3 DEF OpenLease, LeaseWait, MatchUrls, CloseLease, Goto, End, Exit, volumes, loop, Attempting
  <2>. QED
    BY <2>1 DEF WriterInv, Attempting, pipeVars
<1>. QED
  BY <1>1, <1>2, <1>3 DEF Outside

LEMMA AttemptWriter ==
  WriterInv /\ (Begin \/ Download \/ FeedReturns \/ Decode \/ Finish \/ Abort \/ Aborted \/ Close) => WriterInv'
<1>. SUFFICES ASSUME WriterInv, Begin \/ Download \/ FeedReturns \/ Decode \/ Finish \/ Abort \/ Aborted \/ Close
              PROVE  WriterInv'
  OBVIOUS
<1>. USE DEF Goto, Attempting
<1>1. CASE Begin
  <2>1. CASE pc' = "exit" /\ UNCHANGED <<pipeVars, setup, idx, fd>>
    BY <1>1, <2>1 DEF Begin, WriterInv, pipeVars
  <2>2. CASE pc' = "stream" /\ fd' = idx /\ UNCHANGED <<setup, idx>>
             /\ IF setup.pipelined THEN Create ELSE UNCHANGED pipeVars
    BY <1>1, <2>2 DEF Begin, Create, WriterInv, pipeVars
  <2>. QED
    BY <1>1, <2>1, <2>2 DEF Begin, Exit
<1>2. CASE Download
  <2>1. /\ pc = "stream" /\ pc' \in {"abort", "feed", "decode", "finish"} /\ UNCHANGED <<setup, idx, fd>>
        /\ UNCHANGED <<done, wpc>>
    BY <1>2 DEF Download, Leave, CallFeed, CallFinish, Call, volumes, worker, pipeVars
  <2>. QED
    BY <2>1 DEF WriterInv
<1>3. CASE FeedReturns \/ Decode \/ Finish
  <2>1. pc \in Attempting /\ pc' \in Attempting \ {"aborting"} /\ UNCHANGED <<setup, idx, fd, done, wpc>>
    BY <1>3 DEF FeedReturns, Decode, Finish, Leave, volumes, pipeVars
  <2>. QED
    BY <2>1 DEF WriterInv
<1>4. CASE Abort
  <2>1. /\ pc = "abort" /\ UNCHANGED <<setup, idx, fd, done, wpc>>
        /\ (pc' = "aborting" /\ ppc' = "flag") \/ (pc' = "close" /\ (done \/ ~setup.pipelined))
    BY <1>4 DEF Abort, CallAbort, loop, volumes, worker, pipeVars
  <2>. QED
    BY <2>1 DEF WriterInv
<1>5. CASE Aborted
  BY <1>5 DEF Aborted, loop, volumes, pipeVars, WriterInv
<1>6. CASE Close
  <2>1. pc = "close" /\ pc' \in {"disk", "attempt", "exit"} /\ UNCHANGED <<setup, done, wpc>>
        /\ (idx' = idx \/ idx' = idx + 1)
    BY <1>6 DEF Close, Exit, pipeVars
  <2>. QED
    BY <2>1 DEF WriterInv
<1>. QED
  BY <1>1, <1>2, <1>3, <1>4, <1>5, <1>6

\* done is set only after the join, and the worker does not come back to life.
LEMMA PipelineWriter == WriterInv /\ (CallSteps \/ WorkerSteps) => WriterInv'
<1>. SUFFICES ASSUME WriterInv, CallSteps \/ WorkerSteps PROVE WriterInv'
  OBVIOUS
<1>0. UNCHANGED <<setup, pc, idx, fd>>
  BY DEF CallSteps, WorkerSteps, WorkerGets, WorkerDecodes, WorkerMoves, loop, volumes
<1>1. CASE CallSteps
  <2>1. CASE \E timeout \in BOOLEAN : (timeout => "hang" \in setup.events) /\ AbortJoin(timeout)
    BY <1>0, <2>1 DEF AbortJoin, worker, WriterInv
  <2>2. CASE Joined
    BY <1>0, <2>2 DEF Joined, worker, WriterInv
  <2>3. CASE Put \/ PutTimesOut \/ PutEof
    <3>1. UNCHANGED <<done, wpc>> /\ ppc \in {"put", "eof"}
      BY <2>3 DEF Put, PutTimesOut, PutEof, worker
    <3>. QED
      BY <1>0, <3>1 DEF WriterInv
  <2>4. CASE AbortFlag \/ AbortEmpty
    <3>1. UNCHANGED <<done, wpc>> /\ ppc' \in {"empty", "leave"}
      BY <2>4 DEF AbortFlag, AbortEmpty, worker
    <3>. QED
      BY <1>0, <3>1 DEF WriterInv
  <2>. QED
    BY <1>1, <2>1, <2>2, <2>3, <2>4 DEF CallSteps
<1>2. CASE WorkerSteps
  <2>1. UNCHANGED <<done, ppc>>
    BY <1>2 DEF WorkerSteps, WorkerGets, WorkerDecodes, WorkerMoves, Get, DecodeFails, Decoded, WorkerLoop, WorkerFails,
                WorkerStops, producer, pipeVars
  <2>2. wpc # "ended"
    BY <1>2 DEF WorkerSteps, WorkerGets, WorkerDecodes, WorkerMoves, Get, WorkerLoop, WorkerFails, WorkerStops
  <2>. QED
    BY <1>0, <2>1, <2>2 DEF WriterInv
<1>. QED
  BY <1>1, <1>2

LEMMA NextWriter == WriterInv /\ [Next]_vars => WriterInv'
<1>1. WriterInv /\ (OrphanDecodes \/ CancelRunning \/ GuestStops \/ TaskRuns \/ UserSwitches \/ LeaseTurns
                    \/ UNCHANGED vars) => WriterInv'
  <2>1. OrphanDecodes \/ CancelRunning \/ GuestStops \/ TaskRuns \/ UserSwitches \/ LeaseTurns \/ UNCHANGED vars
          => UNCHANGED <<pipeVars, setup, pc, idx, fd>>
    BY DEF OrphanDecodes, CancelRunning, GuestStops, TaskRuns, UserSwitches, LeaseTurns, vars, loop, volumes
  <2>. QED
    BY <2>1 DEF WriterInv, pipeVars
<1>. QED
  BY <1>1, OutsideWriter, AttemptWriter, PipelineWriter DEF Next, TaskStep, Outside

\* Unless a write hangs for more than 30 s, the descriptor of a disk is closed only after the worker that writes
\* through it has ended, whatever failed or was cancelled (_export_disk, PipelinedDecoder.abort).
THEOREM DescriptorOutlivesWorker == Spec => []WriterOutlivesWorker
<1>1. Init => WriterInv
  BY DEF Init, PipeInit, WriterInv, Attempting
<1>2. WriterInv => WriterOutlivesWorker
  BY DEF WriterInv, WriterOutlivesWorker, Attempting
<1>. QED
  BY <1>1, <1>2, NextWriter, PTL DEF Spec

-----------------------------------------------------------------------------
(* The lease and the result.  The block of the lease is entered with the    *)
(* lease ready, and in it the COPIED disks are those before idx, with the   *)
(* disk itself from finish() to the next.                                   *)

InBlock == {"match", "disk", "attempt", "stream", "feed", "decode", "finish", "abort", "aborting", "close", "exit"}
OnDisk  == {"attempt", "stream", "feed", "decode", "finish", "abort", "aborting", "close"}
Ending  == {"abort", "aborting", "close"}
Before1 == {"check", "shutdown", "guestWait", "powerOff", "taskWait", "offWait", "lease"}

LeaseInv ==
  /\ pc \in Before1 \cup {"leaseWait", "idle"} \cup InBlock
  /\ pc # "idle" => result = "EXPORTING"
  /\ pc \in Before1 => lease = "none"
  /\ pc = "leaseWait" => lease \in {"initializing", "ready", "error"}
  /\ pc \in InBlock => lease = "ready"

Progress ==
  /\ setup.n \in Nat /\ idx \in 1..setup.n + 1
  /\ pc \in OnDisk => idx <= setup.n
  /\ synced \subseteq Disks
  /\ pc \notin {"exit", "idle"} =>
       /\ 1..idx - 1 \subseteq synced
       /\ copied = IF pc \in Ending /\ outcome = "ok" THEN 1..idx ELSE 1..idx - 1
  /\ pc = "exit" /\ outcome = "ok" => copied = Disks /\ synced = Disks

\* What the lease, the disks and the result have to do with one another.
Agreement ==
  /\ lease = "completed" => copied = Disks /\ result \in {"EXPORTED", "CANCELLED"}
  /\ result = "EXPORTED" => copied = Disks /\ synced = Disks /\ lease \in {"ready", "completed"}
  /\ lease = "aborted" => result \in {"FAILED", "CANCELLED"}

ResultInv == LeaseInv /\ Progress /\ Agreement

\* A step that only moves the thread on.
LEMMA MovesOn ==
  ASSUME ResultInv, UNCHANGED <<setup, lease, idx, copied, synced, result>>, pc # "idle",
         \/ pc' = pc /\ UNCHANGED outcome
         \/ /\ pc \in Before1 /\ pc' \in Before1
         \/ /\ pc \in OnDisk \ Ending /\ pc' \in OnDisk \ Ending
         \/ /\ pc \in OnDisk \ Ending /\ pc' \in Ending /\ outcome' # "ok"
         \/ /\ pc \in Ending /\ pc' \in Ending /\ UNCHANGED outcome
         \/ /\ pc \in InBlock /\ pc' = "exit" /\ outcome' # "ok"
  PROVE  ResultInv'
<1>. USE DEF Before1, OnDisk, Ending, InBlock
<1>1. LeaseInv'
  BY DEF ResultInv, LeaseInv
<1>2. Progress'
  BY DEF ResultInv, LeaseInv, Progress, Disks
<1>3. Agreement'
  BY DEF ResultInv, Agreement, Disks
<1>. QED
  BY <1>1, <1>2, <1>3 DEF ResultInv

\* The job leaves the export before the block is entered.
LEMMA EndsEarly ==
  ASSUME ResultInv, UNCHANGED <<setup, lease, idx, copied, synced>>, pc \in Before1 \cup {"leaseWait"},
         pc' = "idle", result' \in {"FAILED", "CANCELLED"}
  PROVE  ResultInv'
<1>. USE DEF Before1, OnDisk, Ending, InBlock
<1>1. LeaseInv'
  BY DEF ResultInv, LeaseInv
<1>2. Progress'
  BY DEF ResultInv, LeaseInv, Progress, Disks
<1>3. Agreement'
  BY DEF ResultInv, LeaseInv, Agreement, Disks
<1>. QED
  BY <1>1, <1>2, <1>3 DEF ResultInv

LEMMA PowerResult ==
  ASSUME ResultInv, CheckPower \/ ShutDown \/ GuestWait \/ OffWait \/ PowerOff \/ TaskWait
  PROVE  ResultInv'
<1>1. /\ UNCHANGED <<setup, lease, idx, copied, synced>>
      /\ pc \in Before1
      /\ \/ pc' \in Before1 /\ UNCHANGED result
         \/ pc' = "idle" /\ result' \in {"FAILED", "CANCELLED"}
  BY DEF CheckPower, ShutDown, GuestWait, OffWait, AwaitOff, PowerOff, TaskWait, Goto, End, nfc, loop, volumes, Before1
<1>2. pc # "idle"
  BY <1>1 DEF Before1
<1>. QED
  BY <1>1, <1>2, MovesOn, EndsEarly

LEMMA LeaseResult ==
  ASSUME ResultInv, OpenLease \/ LeaseWait \/ MatchUrls \/ CloseLease
  PROVE  ResultInv'
<1>1. CASE OpenLease
  <2>1. pc = "lease" /\ UNCHANGED <<setup, idx, copied, synced, outcome>>
    BY <1>1 DEF OpenLease, loop, volumes
  <2>2. CASE pc' = "idle" /\ result' = "FAILED" /\ UNCHANGED lease
    BY <2>1, <2>2, EndsEarly DEF Before1
  <2>3. CASE pc' = "leaseWait" /\ lease' = "initializing" /\ UNCHANGED result
    <3>1. LeaseInv'
      BY <2>1, <2>3 DEF ResultInv, LeaseInv, Before1, InBlock
    <3>2. Progress'
      BY <2>1, <2>3 DEF ResultInv, Progress, Disks, OnDisk, Ending
    <3>3. Agreement'
      BY <2>1, <2>3 DEF ResultInv, LeaseInv, Agreement, Disks, Before1
    <3>. QED
      BY <3>1, <3>2, <3>3 DEF ResultInv
  <2>. QED
    BY <1>1, <2>2, <2>3 DEF OpenLease, End, Goto
<1>2. CASE LeaseWait
  <2>1. pc = "leaseWait" /\ UNCHANGED <<setup, lease, idx, copied, synced, outcome>>
    BY <1>2 DEF LeaseWait, loop, volumes
  <2>2. CASE pc' = "idle" /\ result' = "FAILED"
    BY <2>1, <2>2, EndsEarly
  <2>3. CASE pc' = "match" /\ lease = "ready" /\ UNCHANGED result
    <3>1. LeaseInv'
      BY <2>1, <2>3 DEF ResultInv, LeaseInv, Before1, InBlock
    <3>2. Progress'
      BY <2>1, <2>3 DEF ResultInv, Progress, Disks, OnDisk, Ending
    <3>3. Agreement'
      BY <2>1, <2>3 DEF ResultInv, Agreement, Disks
    <3>. QED
      BY <3>1, <3>2, <3>3 DEF ResultInv
  <2>. QED
    BY <1>2, <2>2, <2>3 DEF LeaseWait, End, Goto
<1>3. CASE MatchUrls
  <2>1. /\ pc = "match" /\ UNCHANGED <<setup, lease, idx, copied, synced, result>>
        /\ (pc' = "disk" /\ UNCHANGED outcome) \/ (pc' = "exit" /\ outcome' = "failed")
    BY <1>3 DEF MatchUrls, Goto, Exit, nfc, volumes
  <2>2. CASE pc' = "exit"
    BY <2>1, <2>2, MovesOn DEF InBlock
  <2>3. CASE pc' = "disk"
    <3>1. LeaseInv'
      BY <2>1, <2>3 DEF ResultInv, LeaseInv, Before1, InBlock
    <3>2. Progress'
      BY <2>1, <2>3 DEF ResultInv, Progress, Disks, OnDisk, Ending
    <3>3. Agreement'
      BY <2>1, <2>3 DEF ResultInv, Agreement, Disks
    <3>. QED
      BY <3>1, <3>2, <3>3 DEF ResultInv
  <2>. QED
    BY <2>1, <2>2, <2>3
<1>4. CASE CloseLease
  <2>1. /\ pc = "exit" /\ pc' = "idle" /\ UNCHANGED <<setup, idx, copied, synced>>
        /\ lease' \in {lease, IF outcome = "ok" THEN "completed" ELSE "aborted"}
        /\ result' = (IF outcome = "cancelled" \/ (outcome = "ok" /\ cancel) THEN "CANCELLED"
                      ELSE IF outcome = "ok" THEN "EXPORTED" ELSE "FAILED")
    BY <1>4 DEF CloseLease, End, Goto, loop, volumes
  <2>2. LeaseInv'
    BY <2>1 DEF LeaseInv, Before1, InBlock
  <2>3. Progress'
    BY <2>1 DEF ResultInv, Progress, Disks, OnDisk, Ending
  <2>4. lease = "ready"
    BY <2>1 DEF ResultInv, LeaseInv, InBlock
  <2>5. CASE outcome = "ok"
    BY <2>1, <2>2, <2>3, <2>4, <2>5 DEF ResultInv, Progress, Agreement, Disks
  <2>6. CASE outcome # "ok"
    BY <2>1, <2>2, <2>3, <2>4, <2>6 DEF ResultInv, Agreement, Disks
  <2>. QED
    BY <2>5, <2>6
<1>. QED
  BY <1>1, <1>2, <1>3, <1>4

\* The loop over the disks, and the ends of an attempt.
LEMMA LoopResult ==
  ASSUME ResultInv, NextDisk \/ Begin \/ Finish \/ Close
  PROVE  ResultInv'
<1>. USE DEF Goto, Exit, Leave, OnDisk, Ending, InBlock, Before1
<1>0. /\ UNCHANGED <<setup, lease, result>> /\ pc \in {"disk", "attempt", "finish", "close"}
  BY DEF NextDisk, Begin, Finish, Close, nfc
<1>1. CASE NextDisk
  <2>1. pc = "disk" /\ UNCHANGED <<copied, synced>> /\ setup.n \in Nat /\ idx \in 1..setup.n + 1
    BY <1>1 DEF NextDisk, volumes, ResultInv, Progress
  <2>2. copied = 1..idx - 1 /\ 1..idx - 1 \subseteq synced /\ synced \subseteq 1..setup.n /\ idx \notin copied
    BY <2>1 DEF ResultInv, Progress, Disks
  <2>3. \/ idx > setup.n /\ pc' = "exit" /\ outcome' = "ok" /\ UNCHANGED idx
        \/ idx <= setup.n /\ pc' = "exit" /\ outcome' = "cancelled" /\ UNCHANGED idx
        \/ idx <= setup.n /\ pc' = "attempt" /\ UNCHANGED <<idx, outcome>>
    BY <1>1, <2>1, <2>2 DEF NextDisk
  <2>4. LeaseInv'
    BY <1>0, <2>1, <2>3 DEF ResultInv, LeaseInv
  <2>5. Agreement'
    BY <1>0, <2>1 DEF ResultInv, Agreement, Disks
  <2>6. Progress'
    <3>1. CASE idx > setup.n /\ pc' = "exit" /\ UNCHANGED idx
      <4>1. copied = 1..setup.n /\ synced = 1..setup.n
        <5>1. idx - 1 = setup.n
          BY <2>1, <3>1
        <5>. QED
          BY <2>2, <5>1
      <4>. QED
        BY <1>0, <2>1, <3>1, <4>1 DEF Progress, Disks
    <3>2. CASE idx <= setup.n /\ pc' = "exit" /\ outcome' = "cancelled" /\ UNCHANGED idx
      BY <1>0, <2>1, <2>2, <3>2 DEF Progress, Disks
    <3>3. CASE idx <= setup.n /\ pc' = "attempt" /\ UNCHANGED <<idx, outcome>>
      BY <1>0, <2>1, <2>2, <3>3 DEF Progress, Disks
    <3>. QED
      BY <2>3, <3>1, <3>2, <3>3
  <2>. QED
    BY <2>4, <2>5, <2>6 DEF ResultInv
<1>2. CASE Begin
  <2>1. /\ pc = "attempt" /\ UNCHANGED <<idx, copied, synced>>
        /\ (pc' = "exit" /\ outcome' # "ok") \/ pc' = "stream"
    BY <1>2 DEF Begin
  <2>. QED
    BY <1>0, <2>1, MovesOn
<1>3. CASE Finish
  <2>1. /\ pc = "finish" /\ pc' = "abort" /\ UNCHANGED <<idx, synced>>
        /\ (copied' = copied /\ outcome' # "ok") \/ (copied' = copied \cup {idx} /\ outcome' = "ok")
    BY <1>3 DEF Finish, Caught
  <2>2. CASE copied' = copied /\ outcome' # "ok"
    BY <1>0, <2>1, <2>2, MovesOn
  <2>3. CASE copied' = copied \cup {idx} /\ outcome' = "ok"
    <3>1. LeaseInv'
      BY <1>0, <2>1 DEF ResultInv, LeaseInv
    <3>2. copied = 1..idx - 1 /\ idx \in 1..setup.n /\ setup.n \in Nat
      BY <2>1 DEF ResultInv, Progress
    <3>3. copied' = 1..idx
      BY <2>3, <3>2
    <3>4. Progress'
      BY <1>0, <2>1, <2>3, <3>2, <3>3 DEF ResultInv, Progress, Disks
    <3>5. Agreement'
      BY <1>0, <2>1 DEF ResultInv, LeaseInv, Agreement, Disks
    <3>. QED
      BY <3>1, <3>4, <3>5 DEF ResultInv
  <2>. QED
    BY <2>1, <2>2, <2>3
<1>4. CASE Close
  <2>0. pc = "close" /\ UNCHANGED copied /\ idx \in 1..setup.n /\ setup.n \in Nat
    BY <1>4 DEF Close, ResultInv, Progress
  <2>1. LeaseInv'
    BY <1>0, <1>4 DEF Close, ResultInv, LeaseInv
  <2>2. Agreement'
    BY <1>0, <2>0 DEF ResultInv, LeaseInv, Agreement, Disks
  <2>3. synced' \subseteq 1..setup.n /\ (pc' # "exit" => synced' = synced \cup {idx})
    BY <1>4, <2>0 DEF Close, ResultInv, Progress, Disks
  <2>4. \/ pc' = "disk" /\ idx' = idx + 1 /\ outcome = "ok"
        \/ pc' = "attempt" /\ idx' = idx /\ outcome = "failed"
        \/ pc' = "exit" /\ idx' = idx /\ outcome' # "ok"
    BY <1>4 DEF Close
  <2>5. copied = (IF outcome = "ok" THEN 1..idx ELSE 1..idx - 1) /\ 1..idx - 1 \subseteq synced
    BY <2>0 DEF ResultInv, Progress
  <2>6. Progress'
    <3>1. CASE pc' = "disk" /\ idx' = idx + 1 /\ outcome = "ok"
      BY <1>0, <2>0, <2>3, <2>5, <3>1 DEF Progress, Disks
    <3>2. CASE pc' = "attempt" /\ idx' = idx /\ outcome = "failed"
      BY <1>0, <2>0, <2>3, <2>5, <3>2 DEF Progress, Disks
    <3>3. CASE pc' = "exit" /\ idx' = idx /\ outcome' # "ok"
      BY <1>0, <2>0, <2>3, <3>3 DEF Progress, Disks
    <3>. QED
      BY <2>4, <3>1, <3>2, <3>3
  <2>. QED
    BY <2>1, <2>2, <2>6 DEF ResultInv
<1>. QED
  BY <1>1, <1>2, <1>3, <1>4

\* Inside an attempt, and around the task.
LEMMA StreamResult ==
  ASSUME ResultInv, Download \/ FeedReturns \/ Decode \/ Abort \/ Aborted
  PROVE  ResultInv'
<1>. USE DEF Goto, Leave, OnDisk, Ending
<1>1. UNCHANGED <<setup, lease, idx, copied, synced, result>>
  BY DEF Download, FeedReturns, Decode, Abort, Aborted, nfc, loop, volumes
<1>2. CASE Download
  BY <1>1, <1>2, MovesOn DEF Download
<1>3. CASE FeedReturns
  BY <1>1, <1>3, MovesOn DEF FeedReturns, Caught
<1>4. CASE Decode
  BY <1>1, <1>4, MovesOn DEF Decode
<1>5. CASE Abort \/ Aborted
  BY <1>1, <1>5, MovesOn DEF Abort, Aborted, loop
<1>. QED
  BY <1>2, <1>3, <1>4, <1>5

LEMMA AroundResult ==
  ASSUME ResultInv, \/ CallSteps \/ WorkerSteps \/ OrphanDecodes \/ CancelRunning
                    \/ GuestStops \/ TaskRuns \/ UserSwitches \/ UNCHANGED vars
  PROVE  ResultInv'
<1>1. UNCHANGED <<setup, lease, idx, copied, synced, result, pc, outcome>>
  BY DEF CallSteps, WorkerSteps, WorkerGets, WorkerDecodes, WorkerMoves, OrphanDecodes, CancelRunning, GuestStops,
         TaskRuns, UserSwitches, vars, nfc, loop, volumes
<1>. QED
  BY <1>1 DEF ResultInv, LeaseInv, Progress, Agreement, Disks

LEMMA TurnResult == ResultInv /\ LeaseTurns => ResultInv'
<1>. SUFFICES ASSUME ResultInv, LeaseTurns PROVE ResultInv'
  OBVIOUS
<1>1. /\ UNCHANGED <<setup, idx, copied, synced, result, pc, outcome>>
      /\ lease = "initializing" /\ lease' \in {"ready", "error"}
  BY DEF LeaseTurns, loop, volumes
<1>2. LeaseInv'
  BY <1>1 DEF ResultInv, LeaseInv, Before1, InBlock
<1>3. Progress' /\ Agreement'
  BY <1>1 DEF ResultInv, Progress, Agreement, Disks
<1>. QED
  BY <1>2, <1>3 DEF ResultInv

LEMMA InitResult == Init => ResultInv
<1>. SUFFICES ASSUME Init PROVE ResultInv
  OBVIOUS
<1>1. setup.n \in Nat
  BY VmwareAssumption DEF Init
<1>2. pc = "check" /\ lease = "none" /\ idx = 1 /\ outcome = "none" /\ copied = {} /\ synced = {}
      /\ result = "EXPORTING"
  BY DEF Init
<1>3. LeaseInv
  BY <1>2 DEF LeaseInv, Before1, InBlock
<1>4. Progress
  BY <1>1, <1>2 DEF Progress, OnDisk, Ending, Disks
<1>5. Agreement
  BY <1>2 DEF Agreement
<1>. QED
  BY <1>3, <1>4, <1>5 DEF ResultInv

LEMMA NextResult == ResultInv /\ [Next]_vars => ResultInv'
BY PowerResult, LeaseResult, LoopResult, StreamResult, AroundResult, TurnResult DEF Next, TaskStep

\* What a block leaves behind: the thread that keeps the lease alive is started with it and told to stop with it.
LeftBehind ==
  /\ pc \in Before1 \cup {"leaseWait"} => ~keepalive /\ outcome = "none"
  /\ pc = "idle" => ~keepalive
  /\ pc = "idle" /\ outcome # "none" => lease \in {"ready", IF outcome = "ok" THEN "completed" ELSE "aborted"}

LEMMA NextBehind == LeaseInv /\ LeftBehind /\ [Next]_vars => LeftBehind'
<1>. SUFFICES ASSUME LeaseInv, LeftBehind, Next PROVE LeftBehind'
  BY DEF LeftBehind, vars, nfc, loop
<1>. USE DEF LeftBehind, Before1
<1>1. CASE CheckPower \/ ShutDown \/ GuestWait \/ OffWait \/ PowerOff \/ TaskWait \/ OpenLease \/ LeaseWait
  <2>1. /\ pc \in Before1 \cup {"leaseWait"} /\ UNCHANGED outcome
        /\ UNCHANGED keepalive \/ pc' = "match"
    BY <1>1 DEF CheckPower, ShutDown, GuestWait, OffWait, AwaitOff, PowerOff, TaskWait, OpenLease, LeaseWait, Goto, End,
                nfc, loop
  <2>. QED
    BY <2>1
<1>2. CASE CloseLease
  BY <1>2 DEF CloseLease, End, Goto, loop, LeaseInv, InBlock
<1>3. CASE \/ MatchUrls \/ NextDisk \/ Begin \/ Download \/ FeedReturns \/ Decode \/ Finish \/ Abort \/ Aborted \/ Close
  <2>1. pc' \in InBlock
    BY <1>3 DEF MatchUrls, NextDisk, Begin, Download, FeedReturns, Decode, Finish, Abort, Aborted, Close, Goto, Exit,
                Leave, InBlock
  <2>. QED
    BY <2>1 DEF InBlock
<1>4. CASE CallSteps \/ WorkerSteps \/ OrphanDecodes \/ CancelRunning \/ GuestStops \/ TaskRuns \/ UserSwitches
  BY <1>4 DEF CallSteps, WorkerSteps, WorkerGets, WorkerDecodes, WorkerMoves, OrphanDecodes, CancelRunning, GuestStops,
              TaskRuns, UserSwitches, nfc, loop
<1>5. CASE LeaseTurns
  BY <1>5 DEF LeaseTurns, loop
<1>. QED
  BY <1>1, <1>2, <1>3, <1>4, <1>5 DEF Next, TaskStep

\* The lease is completed only for all disks COPIED, and a job is EXPORTED only with all of them flushed and the
\* lease not aborted; a block that was entered leaves the lease closed the way it ended, or ready and no longer kept
\* alive: for any number of disks, attempts, and any power state, URLs and failures (_run_export, NfcExport.__exit__).
THEOREM LeaseAndResultAgree == Spec => []LeaseMatchesResult
<1>1. Init => LeftBehind
  BY DEF Init, LeftBehind
<1>2. ResultInv /\ LeftBehind => LeaseMatchesResult
  BY DEF ResultInv, Agreement, LeftBehind, LeaseMatchesResult
<1>3. ResultInv => LeaseInv
  BY DEF ResultInv
<1>. QED
  BY <1>1, <1>2, <1>3, InitResult, NextResult, NextBehind, PTL DEF Spec

-----------------------------------------------------------------------------
(* Streams.  Recursive functions and lengths are dealt with by the smallest *)
(* number that a statement fails for.                                       *)
HIDE DEF Alive, Handing, Base

LEMMA LeastNat == ASSUME NEW T \in SUBSET Nat, T # {} PROVE \E x \in T : \A y \in T : x <= y
<1> DEFINE R == {ss \in Nat \X Nat : ss[1] < ss[2]}
<1>1. IsWellFoundedOn(R, Nat)
  BY NatLessThanWellFounded DEF OpToRel
<1>2. PICK x \in T : \A y \in T : ~ (<<y, x>> \in R)
  BY <1>1, WFMin
<1>3. \A y \in T : ~ (y < x)
  BY <1>2
<1>4. QED
  BY <1>3

\* A recursive function is a CHOOSE to the provers: that there is one is shown for longer and longer prefixes.
AreOffsets(f, s, n) == f = [i \in 0..n |-> IF i = 0 THEN 0 ELSE f[i - 1] + s.items[i].units]

LEMMA OffsetsExist == ASSUME NEW s, NEW N \in Nat PROVE \E f : AreOffsets(f, s, N)
<1> DEFINE T == {n \in Nat : ~ \E f : AreOffsets(f, s, n)}
<1>1. SUFFICES ASSUME T # {} PROVE FALSE
  OBVIOUS
<1>2. PICK n \in T : \A m \in T : n <= m
  BY <1>1, LeastNat
<1>3. n # 0
  <2>1. AreOffsets([i \in 0..0 |-> 0], s, 0)
    BY DEF AreOffsets
  <2>2. QED
    BY <2>1, <1>2
<1>4. PICK f : AreOffsets(f, s, n - 1)
  BY <1>2, <1>3
<1>5. \E g : AreOffsets(g, s, n)
  <2> DEFINE g == [i \in 0..n |-> IF i = n THEN f[n - 1] + s.items[n].units ELSE f[i]]
  <2>1. \A i \in 0..n : g[i] = IF i = 0 THEN 0 ELSE g[i - 1] + s.items[i].units
    BY <1>3, <1>4 DEF AreOffsets
  <2>2. AreOffsets(g, s, n)
    BY <2>1 DEF AreOffsets
  <2>3. QED
    BY <2>2
<1>6. QED
  BY <1>5, <1>2

LEMMA SeqFacts == ASSUME NEW S, NEW q \in Seq(S)
                  PROVE  Len(q) \in Nat /\ DOMAIN q = 1..Len(q) /\ \A i \in 1..Len(q) : q[i] \in S
OBVIOUS

LEMMA OffsetsSum ==
  ASSUME NEW s, IsStream(s)
  PROVE  /\ Len(s.items) \in Nat /\ DOMAIN s.items = 1..Len(s.items)
         /\ Offsets(s)[0] = 0
         /\ \A i \in 1..Len(s.items) : s.items[i] \in Items /\ Offsets(s)[i] = Offsets(s)[i - 1] + s.items[i].units
<1>1. Len(s.items) \in Nat /\ DOMAIN s.items = 1..Len(s.items) /\ \A i \in 1..Len(s.items) : s.items[i] \in Items
  <2>1. s.items \in Seq(Items)
    BY DEF IsStream
  <2>2. QED
    BY <2>1, SeqFacts
<1>2. AreOffsets(Offsets(s), s, Len(s.items))
  BY <1>1, OffsetsExist DEF Offsets, AreOffsets
<1>3. QED
  BY <1>1, <1>2 DEF AreOffsets

LEMMA OffsetsType == ASSUME NEW s, IsStream(s) PROVE \A i \in 0..Len(s.items) : Offsets(s)[i] \in Nat
<1> DEFINE T == {i \in 0..Len(s.items) : Offsets(s)[i] \notin Nat}
<1>1. SUFFICES ASSUME T # {} PROVE FALSE
  OBVIOUS
<1>2. T \in SUBSET Nat
  BY OffsetsSum
<1>3. PICK i \in T : \A k \in T : i <= k
  BY <1>1, <1>2, LeastNat
<1>4. i # 0
  BY OffsetsSum
<1>5. i - 1 \in 0..Len(s.items) /\ i - 1 \notin T
  BY <1>2, <1>3, <1>4, OffsetsSum
<1>6. i \in 1..Len(s.items) /\ Offsets(s)[i] = Offsets(s)[i - 1] + s.items[i].units
  BY <1>2, <1>3, <1>4, OffsetsSum
<1>7. s.items[i].units \in Nat
  BY <1>6, OffsetsSum DEF Items
<1>8. QED
  BY <1>3, <1>5, <1>6, <1>7

\* Every item but the preamble takes room.
LEMMA OffsetsGrow ==
  ASSUME NEW s, IsStream(s), NEW i \in 2..Len(s.items)
  PROVE  \A k \in i..Len(s.items) : Offsets(s)[k] >= Offsets(s)[i] + (k - i)
<1> DEFINE T == {k \in i..Len(s.items) : ~(Offsets(s)[k] >= Offsets(s)[i] + (k - i))}
<1>1. SUFFICES ASSUME T # {} PROVE FALSE
  OBVIOUS
<1>2. T \in SUBSET Nat
  BY OffsetsSum
<1>3. PICK k \in T : \A m \in T : k <= m
  BY <1>1, <1>2, LeastNat
<1>4. k # i
  BY OffsetsSum, OffsetsType
<1>5. k - 1 \in i..Len(s.items) /\ k - 1 \notin T /\ k \in 3..Len(s.items)
  BY <1>2, <1>3, <1>4, OffsetsSum
<1>6. Offsets(s)[k] = Offsets(s)[k - 1] + s.items[k].units /\ s.items[k] \in Items
  BY <1>5, OffsetsSum
<1>7. s.items[k].units \in Nat /\ s.items[k].units # 0
  <2>1. s.items[k].units \in Nat
    BY <1>6 DEF Items
  <2>2. \A j \in DOMAIN s.items : s.items[j].units = 0 => j = 2
    BY DEF IsStream
  <2>3. k \in DOMAIN s.items /\ k # 2
    BY <1>5, OffsetsSum
  <2>4. QED
    BY <2>1, <2>2, <2>3
<1>8. Offsets(s)[k - 1] >= Offsets(s)[i] + (k - 1 - i)
  BY <1>5
<1>9. Offsets(s)[i] \in Nat /\ Offsets(s)[k - 1] \in Nat /\ k \in Nat /\ i \in Nat
  BY <1>5, OffsetsType, OffsetsSum
<1>10. ASSUME NEW a \in Nat, NEW b \in Nat, NEW u \in Nat, b >= a + (k - 1 - i), u # 0 PROVE b + u >= a + (k - i)
  BY <1>9, <1>10
<1>11. Offsets(s)[k] >= Offsets(s)[i] + (k - i)
  <2>1. Offsets(s)[k - 1] + s.items[k].units >= Offsets(s)[i] + (k - i)
    BY <1>7, <1>8, <1>9, <1>10
  <2>2. QED
    BY <1>6, <2>1
<1>12. QED
  BY <1>3, <1>11

-----------------------------------------------------------------------------
\* The decoder of a stream.  What it has taken so far was accepted, and it stops at the end marker.
States == {"HEADER", "PREAMBLE", "MARKERS", "DONE"}
Accepted(s, item) == item.good /\ (item.kind = "grain" => item.lba < s.capacity)
DecOK(s, d) ==
  /\ d \in [state : States, next : 1..(Len(s.items) + 1), buf : Nat]
  /\ \A i \in 1..(d.next - 1) : Accepted(s, s.items[i]) /\ (d.state # "DONE" => s.items[i].kind # "eos")
  /\ d.state = "MARKERS" => d.next > 2
  /\ d.state = "DONE" => d.next > 1 /\ s.items[d.next - 1].kind = "eos"

\* It has been given n units of the stream; what comes behind the end marker is not counted.
Took(s, d, n) == d.state # "DONE" => d.buf + Offsets(s)[d.next - 1] = n

LEMMA FreshOK == ASSUME NEW s, IsStream(s) PROVE DecOK(s, Fresh) /\ Took(s, Fresh, 0)
<1>1. Len(s.items) \in Nat /\ Offsets(s)[0] = 0
  BY OffsetsSum
<1>2. QED
  BY <1>1 DEF DecOK, Took, Fresh, States

LEMMA ExtendOK ==
  ASSUME NEW s, IsStream(s), NEW d, DecOK(s, d), NEW n \in Nat
  PROVE  /\ DecOK(s, Extend(d, n)) /\ Extend(d, n).next = d.next
         /\ \A m \in Nat : Took(s, d, m) => Took(s, Extend(d, n), m + n)
<1>1. CASE d.state = "DONE"
  BY <1>1 DEF Extend, Took
<1>2. CASE d.state # "DONE"
  <2>1. d \in [state : States, next : 1..(Len(s.items) + 1), buf : Nat]
    BY DEF DecOK
  <2>2. /\ Extend(d, n).state = d.state /\ Extend(d, n).next = d.next /\ Extend(d, n).buf = d.buf + n
        /\ Extend(d, n) \in [state : States, next : 1..(Len(s.items) + 1), buf : Nat]
    BY <1>2, <2>1 DEF Extend
  <2>3. DecOK(s, Extend(d, n))
    BY <2>2 DEF DecOK
  <2>4. d.next - 1 \in 0..Len(s.items) /\ d.buf \in Nat
    BY <2>1, OffsetsSum
  <2>5. Offsets(s)[d.next - 1] \in Nat
    BY <2>4, OffsetsType
  <2>6. QED
    BY <2>2, <2>3, <2>4, <2>5 DEF Took
<1>3. QED
  BY <1>1, <1>2

\* The item that is taken is of the body, and the decoder has then accepted it.
LEMMA DrainedOK ==
  ASSUME NEW s, IsStream(s), NEW d, DecOK(s, d), CanDrain(s, d), ~Malformed(s, d)
  PROVE  /\ d.next \in Body(s) /\ Accepted(s, s.items[d.next])
         /\ DecOK(s, Drained(s, d)) /\ Drained(s, d).next = d.next + 1
         /\ \A m \in Nat : Took(s, d, m) => Took(s, Drained(s, d), m)
<1> DEFINE item == s.items[d.next]  e == Drained(s, d)
<1>1. /\ d \in [state : States, next : 1..(Len(s.items) + 1), buf : Nat]
      /\ \A i \in 1..(d.next - 1) : Accepted(s, s.items[i]) /\ s.items[i].kind # "eos"
      /\ d.state # "DONE" /\ d.next \in DOMAIN s.items /\ d.buf >= item.units
  BY DEF DecOK, CanDrain
<1>2. /\ Len(s.items) \in Nat /\ DOMAIN s.items = 1..Len(s.items) /\ d.next \in 1..Len(s.items)
      /\ item \in Items /\ Offsets(s)[d.next] = Offsets(s)[d.next - 1] + item.units
  BY <1>1, OffsetsSum
<1>3. item.units \in Nat /\ item.kind \in {"header", "preamble", "grain", "meta", "eos"}
  BY <1>2 DEF Items
<1>4. Accepted(s, item)
  <2>1. item.good /\ ~(item.kind = "grain" /\ item.lba >= s.capacity)
    BY DEF Malformed
  <2>2. item.lba \in Nat /\ s.capacity \in Nat
    BY <1>2 DEF Items, IsStream
  <2>3. QED
    BY <2>1, <2>2 DEF Accepted
<1>5. d.next \in Body(s)
  BY <1>1 DEF Body
<1>6. /\ e.next = d.next + 1 /\ e.buf = d.buf - item.units
      /\ e.state = CASE item.kind = "header" -> "PREAMBLE" [] item.kind = "eos" -> "DONE" [] OTHER -> "MARKERS"
      /\ e = [state |-> e.state, next |-> e.next, buf |-> e.buf]
  BY DEF Drained
<1>7. /\ item.kind = "header" => e.state = "PREAMBLE"
      /\ item.kind = "eos" => e.state = "DONE"
      /\ item.kind \notin {"header", "eos"} => e.state = "MARKERS"
  BY <1>6
<1>8. e \in [state : States, next : 1..(Len(s.items) + 1), buf : Nat]
  <2>1. e.state \in States
    BY <1>7 DEF States
  <2>2. e.next \in 1..(Len(s.items) + 1) /\ e.buf \in Nat
    BY <1>1, <1>2, <1>3, <1>6
  <2>3. QED
    BY <1>6, <2>1, <2>2
<1>9. \A i \in 1..(e.next - 1) : Accepted(s, s.items[i]) /\ (e.state # "DONE" => s.items[i].kind # "eos")
  <2>1. \A i \in 1..(e.next - 1) : i = d.next \/ i \in 1..(d.next - 1)
    BY <1>2, <1>6
  <2>2. QED
    BY <1>1, <1>4, <1>7, <2>1
<1>10. e.state = "MARKERS" => e.next > 2
  <2>1. SUFFICES ASSUME e.state = "MARKERS" PROVE d.next # 1
    BY <1>2, <1>6
  <2>2. item.kind # "header"
    BY <1>7, <2>1
  <2>3. \A i \in DOMAIN s.items : s.items[i].kind = "header" <=> i = 1
    BY DEF IsStream
  <2>4. QED
    BY <1>1, <2>2, <2>3
<1>11. e.state = "DONE" => e.next > 1 /\ s.items[e.next - 1].kind = "eos"
  BY <1>2, <1>6, <1>7
<1>12. DecOK(s, e)
  BY <1>8, <1>9, <1>10, <1>11 DEF DecOK
<1>13. ASSUME NEW m \in Nat, Took(s, d, m) PROVE Took(s, e, m)
  <2>1. d.buf + Offsets(s)[d.next - 1] = m
    BY <1>1, <1>13 DEF Took
  <2>2. e.buf + Offsets(s)[e.next - 1] = (d.buf - item.units) + (Offsets(s)[d.next - 1] + item.units)
    BY <1>2, <1>6
  <2>3. d.buf \in Nat /\ Offsets(s)[d.next - 1] \in Nat
    <3>1. d.next - 1 \in 0..Len(s.items)
      BY <1>2
    <3>2. QED
      BY <1>1, <3>1, OffsetsType
  <2>4. QED
    BY <1>3, <2>1, <2>2, <2>3 DEF Took
<1>14. QED
  BY <1>4, <1>5, <1>6, <1>12, <1>13

\* A decoder whose finish() succeeds, after all of the stream or at its end marker, has accepted an intact stream and
\* has taken every item of its body (StreamOptimizedDecoder.feed, _drain and finish), for any stream and any chunks.
THEOREM FinishMeansIntact ==
  ASSUME NEW s, IsStream(s), NEW d, DecOK(s, d), Ends(d), Took(s, d, Units(s))
  PROVE  WellFormed(s) /\ \A i \in Body(s) : i \in 1..(d.next - 1)
<1>1. /\ d \in [state : States, next : 1..(Len(s.items) + 1), buf : Nat]
      /\ \A i \in 1..(d.next - 1) : Accepted(s, s.items[i])
  BY DEF DecOK
<1>2. /\ Len(s.items) \in Nat /\ DOMAIN s.items = 1..Len(s.items) /\ d.next \in 1..(Len(s.items) + 1)
      /\ \A i \in Body(s) : i \in 1..Len(s.items) /\ \A k \in 1..(i - 1) : s.items[k].kind # "eos"
  BY <1>1, OffsetsSum DEF Body
<1>3. /\ \A i \in Body(s) : i \in 1..(d.next - 1)
      /\ s.pad > 0 => \E i \in DOMAIN s.items : s.items[i].kind = "eos"
  <2>1. CASE d.state = "DONE"
    <3>1. d.next > 1 /\ s.items[d.next - 1].kind = "eos"
      BY <2>1 DEF DecOK
    <3>2. d.next - 1 \in DOMAIN s.items
      BY <1>2, <3>1
    <3>3. ASSUME NEW i \in Body(s), i \notin 1..(d.next - 1) PROVE FALSE
      <4>1. d.next - 1 \in 1..(i - 1)
        BY <1>2, <3>1, <3>3
      <4>2. QED
        BY <1>2, <3>1, <4>1
    <3>4. QED
      BY <3>1, <3>2, <3>3
  <2>2. CASE d.state = "MARKERS" /\ d.buf = 0
    <3>1. Offsets(s)[d.next - 1] = Offsets(s)[Len(s.items)] + s.pad
      <4>1. d.next - 1 \in 0..Len(s.items)
        BY <1>2
      <4>2. Offsets(s)[d.next - 1] \in Nat
        BY <4>1, OffsetsType
      <4>3. QED
        BY <2>2, <4>2 DEF Took, Units
    <3>2. d.next > 2
      BY <2>2 DEF DecOK
    <3>3. d.next - 1 \in 2..Len(s.items) /\ Len(s.items) \in (d.next - 1)..Len(s.items)
      BY <1>2, <3>2
    <3>4. Offsets(s)[Len(s.items)] >= Offsets(s)[d.next - 1] + (Len(s.items) - (d.next - 1))
      BY <3>3, OffsetsGrow
    <3>5. Offsets(s)[Len(s.items)] \in Nat /\ Offsets(s)[d.next - 1] \in Nat /\ s.pad \in Nat
      <4>1. Len(s.items) \in 0..Len(s.items) /\ d.next - 1 \in 0..Len(s.items)
        BY <1>2
      <4>2. QED
        BY <4>1, OffsetsType DEF IsStream
    <3> DEFINE a == Offsets(s)[d.next - 1]  b == Offsets(s)[Len(s.items)]  p == s.pad  l == Len(s.items)  n == d.next
    <3>6. a = b + p /\ b >= a + (l - (n - 1)) /\ n <= l + 1
      BY <1>2, <3>1, <3>4
    <3>7. a \in Nat /\ b \in Nat /\ p \in Nat /\ l \in Nat /\ n \in Nat
      BY <1>2, <3>5
    <3> HIDE DEF a, b, p, l, n
    <3>8. p = 0 /\ n = l + 1
      BY <3>6, <3>7
    <3>9. QED
      BY <1>2, <3>8 DEF p, l, n
  <2>3. QED
    BY <2>1, <2>2 DEF Ends
<1>4. \A i \in Body(s) : s.items[i].good /\ (s.items[i].kind = "grain" => s.items[i].lba < s.capacity)
  BY <1>1, <1>3 DEF Accepted
<1>5. QED
  BY <1>3, <1>4 DEF WellFormed

-----------------------------------------------------------------------------
\* A volume under a stream: every sector is still blank or as the stream has it, and what of it the first items
\* cover is as the stream has it.
Sound(s, disk) ==
  /\ disk = [x \in 0..(s.capacity - 1) |-> disk[x]]
  /\ \A x \in 0..(s.capacity - 1) : disk[x] \in {0, Image(s)[x]}
Written(s, k, disk) ==
  \A i \in 1..(k - 1) : \A x \in 0..(s.capacity - 1) : Covers(s.items[i], x) => disk[x] = Image(s)[x]

LEMMA BlankSound == ASSUME NEW s PROVE Sound(s, Blank(s))
BY DEF Sound, Blank

LEMMA ImageAt ==
  ASSUME NEW s, IsStream(s), NEW i \in Body(s), NEW x \in 0..(s.capacity - 1), Covers(s.items[i], x)
  PROVE  Image(s)[x] = s.items[i].data[x - s.items[i].lba + 1]
<1> DEFINE k == CHOOSE j \in Body(s) : Covers(s.items[j], x)
<1>1. k \in Body(s) /\ Covers(s.items[k], x)
  OBVIOUS
<1>2. k = i
  <2>1. \A j, m \in Body(s) : \A y \in 0..(s.capacity - 1) : Covers(s.items[j], y) /\ Covers(s.items[m], y) => j = m
    BY DEF IsStream
  <2>2. QED
    BY <1>1, <2>1
<1>3. Image(s)[x] = s.items[k].data[x - s.items[k].lba + 1]
  BY DEF Image
<1>4. QED
  BY <1>2, <1>3

\* _emit_grain leaves a sector alone or makes it as the stream has it, and does so for all that the item covers.
LEMMA EmitOK ==
  ASSUME NEW s, IsStream(s), NEW i \in Body(s), NEW disk, Sound(s, disk)
  PROVE  /\ Sound(s, Emit(s, s.items[i], disk))
         /\ \A x \in 0..(s.capacity - 1) :
              /\ Emit(s, s.items[i], disk)[x] \in {disk[x], Image(s)[x]}
              /\ Covers(s.items[i], x) => Emit(s, s.items[i], disk)[x] = Image(s)[x]
<1> DEFINE item == s.items[i]  after == Emit(s, item, disk)
<1>1. /\ DOMAIN disk = 0..(s.capacity - 1)
      /\ \A x \in 0..(s.capacity - 1) : disk[x] \in {0, Image(s)[x]}
  BY DEF Sound
<1>2. item \in Items /\ s.capacity \in Nat
  <2>1. i \in DOMAIN s.items
    BY DEF Body
  <2>2. QED
    BY <2>1, OffsetsSum DEF IsStream
<1>3. item.lba \in Nat /\ Len(item.data) \in Nat /\ DOMAIN item.data = 1..Len(item.data)
  BY <1>2 DEF Items
<1>4. /\ after = [x \in 0..(s.capacity - 1) |-> IF x \in Sectors(s, item) THEN item.data[x - item.lba + 1] ELSE disk[x]]
      /\ \A x \in 0..(s.capacity - 1) :
           after[x] = IF x \in Sectors(s, item) THEN item.data[x - item.lba + 1] ELSE disk[x]
  BY <1>1 DEF Emit
<1>5. ASSUME NEW x \in 0..(s.capacity - 1), x \in Sectors(s, item)
      PROVE  after[x] = Image(s)[x]
  <2>1. item.kind = "grain" /\ x \in item.lba..(item.lba + Len(item.data) - 1)
    BY <1>5 DEF Sectors
  <2>2. x - item.lba + 1 \in 1..Len(item.data)
    BY <1>2, <1>3, <2>1
  <2>3. Covers(item, x)
    BY <1>3, <2>1, <2>2 DEF Covers
  <2>4. QED
    BY <1>4, <1>5, <2>3, ImageAt
<1>6. ASSUME NEW x \in 0..(s.capacity - 1), Covers(item, x), x \notin Sectors(s, item)
      PROVE  after[x] = Image(s)[x]
  <2>1. item.kind = "grain" /\ x - item.lba + 1 \in 1..Len(item.data)
    BY <1>3, <1>6 DEF Covers
  <2>2. x \in item.lba..(item.lba + Len(item.data) - 1)
    <3>1. x \in Int
      BY <1>2
    <3>2. QED
      BY <1>3, <2>1, <3>1
  <2>3. \A j \in DOMAIN item.data : item.data[j] = 0
    BY <1>6, <2>1, <2>2 DEF Sectors
  <2>4. Image(s)[x] = item.data[x - item.lba + 1]
    BY <1>6, ImageAt
  <2>5. Image(s)[x] = 0
    BY <1>3, <2>1, <2>3, <2>4
  <2>6. QED
    BY <1>1, <1>4, <1>6, <2>5
<1>7. ASSUME NEW x \in 0..(s.capacity - 1)
      PROVE  /\ after[x] \in {disk[x], Image(s)[x]} /\ after[x] \in {0, Image(s)[x]}
             /\ Covers(item, x) => after[x] = Image(s)[x]
  <2>1. CASE x \in Sectors(s, item)
    BY <1>5, <2>1
  <2>2. CASE x \notin Sectors(s, item)
    BY <1>1, <1>4, <1>6, <2>2
  <2>3. QED
    BY <2>1, <2>2
<1>8. after = [x \in 0..(s.capacity - 1) |-> after[x]]
  BY <1>4
<1>9. QED
  BY <1>7, <1>8 DEF Sound

\* So nothing that was written is lost, and a volume that is whole stays whole.
LEMMA EmitKeeps ==
  ASSUME NEW s, IsStream(s), NEW i \in Body(s), NEW disk, Sound(s, disk)
  PROVE  /\ \A k \in Nat : Written(s, k, disk) => Written(s, k, Emit(s, s.items[i], disk))
         /\ Written(s, i, disk) => Written(s, i + 1, Emit(s, s.items[i], disk))
         /\ disk = Image(s) => Emit(s, s.items[i], disk) = Image(s)
<1> DEFINE after == Emit(s, s.items[i], disk)
<1>1. /\ after = [x \in 0..(s.capacity - 1) |-> after[x]]
      /\ \A x \in 0..(s.capacity - 1) : /\ after[x] \in {disk[x], Image(s)[x]}
                                        /\ Covers(s.items[i], x) => after[x] = Image(s)[x]
  <2>1. Sound(s, after)
    BY EmitOK
  <2>2. after = [x \in 0..(s.capacity - 1) |-> after[x]]
    BY <2>1 DEF Sound
  <2>3. QED
    BY <2>2, EmitOK
<1> HIDE DEF after
<1>2. ASSUME NEW k \in Nat, Written(s, k, disk) PROVE Written(s, k, after)
  BY <1>1, <1>2 DEF Written
<1>3. ASSUME Written(s, i, disk) PROVE Written(s, i + 1, after)
  <2>1. i \in 1..Len(s.items) /\ Len(s.items) \in Nat
    BY OffsetsSum DEF Body
  <2>2. ASSUME NEW m \in 1..(i + 1 - 1), NEW x \in 0..(s.capacity - 1), Covers(s.items[m], x)
        PROVE  after[x] = Image(s)[x]
    <3>1. CASE m = i
      BY <1>1, <2>2, <3>1
    <3>2. CASE m \in 1..(i - 1)
      <4>1. disk[x] = Image(s)[x]
        BY <1>3, <2>2, <3>2 DEF Written
      <4>2. QED
        BY <1>1, <4>1
    <3>3. QED
      BY <2>1, <3>1, <3>2
  <2>3. QED
    BY <2>1, <2>2 DEF Written
<1>4. ASSUME disk = Image(s) PROVE after = Image(s)
  <2>1. \A x \in 0..(s.capacity - 1) : after[x] = Image(s)[x]
    BY <1>1, <1>4
  <2>2. Image(s) = [x \in 0..(s.capacity - 1) |-> Image(s)[x]]
    BY DEF Image
  <2>3. QED
    BY <1>1, <2>1, <2>2
<1>5. QED
  BY <1>2, <1>3, <1>4 DEF after

LEMMA WholeDisk ==
  ASSUME NEW s, NEW disk, NEW k, Sound(s, disk), Written(s, k, disk), \A i \in Body(s) : i \in 1..(k - 1)
  PROVE  disk = Image(s)
<1>1. ASSUME NEW x \in 0..(s.capacity - 1) PROVE disk[x] = Image(s)[x]
  <2>1. CASE \E i \in Body(s) : Covers(s.items[i], x)
    BY <2>1 DEF Written
  <2>2. CASE ~ \E i \in Body(s) : Covers(s.items[i], x)
    <3>1. Image(s)[x] = 0
      BY <2>2 DEF Image
    <3>2. QED
      BY <3>1 DEF Sound
  <2>3. QED
    BY <2>1, <2>2
<1>2. Image(s) = [x \in 0..(s.capacity - 1) |-> Image(s)[x]]
  BY DEF Image
<1>3. disk = [x \in 0..(s.capacity - 1) |-> disk[x]]
  BY DEF Sound
<1>4. QED
  BY <1>1, <1>2, <1>3

\* Sets of the same size under an injection.
LEMMA SameSize ==
  ASSUME NEW S, NEW T, IsFiniteSet(S), IsFiniteSet(T), NEW f \in [S -> T], \A a, b \in S : f[a] = f[b] => a = b
  PROVE  /\ (\A t \in T : \E a \in S : f[a] = t) => Cardinality(S) = Cardinality(T)
         /\ Cardinality(S) = Cardinality(T) => \A t \in T : \E a \in S : f[a] = t
<1> DEFINE R == {f[a] : a \in S}
<1>1. IsFiniteSet(R) /\ Cardinality(R) = Cardinality(S)
  <2>1. f \in Bijection(S, R)
    BY DEF Bijection, Injection, IsInjective, Surjection
  <2>2. ExistsBijection(S, R)
    BY <2>1 DEF ExistsBijection
  <2>3. QED
    BY <2>2, FS_Bijection
<1>2. R \in SUBSET T
  OBVIOUS
<1>3. Cardinality(R) = Cardinality(T) => R = T
  BY <1>2, FS_Subset
<1>4. QED
  BY <1>1, <1>2, <1>3

-----------------------------------------------------------------------------
\* The URLs of a lease that can be trusted.
Left == Disks \ Keyed
DiskOf(i) == setup.urls[i].disk

LEMMA LeaseFacts ==
  ASSUME setup \in Setups
  PROVE  /\ Len(setup.urls) \in Nat /\ DOMAIN setup.urls = 1..Len(setup.urls)
         /\ setup.n \in Nat
         /\ \A i \in DOMAIN setup.urls :
              DiskOf(i) \in Disks /\ setup.urls[i].key \in {0, DiskOf(i)} /\ setup.urls[i].target \in Nat
         /\ \A i, k \in DOMAIN setup.urls : DiskOf(i) = DiskOf(k) => i = k
BY VmwareAssumption, LeasesAssumption DEF Truthful, Disks, DiskOf

LEMMA KeyUrlIs ==
  ASSUME setup \in Setups, NEW d \in Keyed
  PROVE  KeyUrl(d) \in DOMAIN setup.urls /\ setup.urls[KeyUrl(d)].key = d /\ DiskOf(KeyUrl(d)) = d
<1> DEFINE T == {i \in DOMAIN setup.urls : setup.urls[i].key = d}
<1>1. T # {} /\ T \in SUBSET Nat /\ d # 0
  BY LeaseFacts DEF Keyed, Disks
<1>2. \E x \in T : \A y \in T : x <= y
  BY <1>1, LeastNat
<1>3. KeyUrl(d) \in T
  BY <1>2 DEF KeyUrl, Min
<1>4. QED
  BY <1>1, <1>3, LeaseFacts

LEMMA RestIs ==
  ASSUME setup \in Setups
  PROVE  /\ Rest = {i \in DOMAIN setup.urls : setup.urls[i].key = 0}
         /\ \A i \in Rest : DiskOf(i) \in Left
<1>1. ASSUME NEW i \in Rest PROVE i \in DOMAIN setup.urls /\ DiskOf(i) \in Left /\ setup.urls[i].key = 0
  <2>1. i \in DOMAIN setup.urls /\ \A d \in Keyed : i # KeyUrl(d)
    BY DEF Rest
  <2>2. DiskOf(i) \notin Keyed
    BY <2>1, KeyUrlIs, LeaseFacts
  <2>3. setup.urls[i].key = 0
    BY <2>1, <2>2, LeaseFacts DEF Keyed
  <2>4. QED
    BY <2>1, <2>2, <2>3, LeaseFacts DEF Left
<1>2. ASSUME NEW i \in DOMAIN setup.urls, setup.urls[i].key = 0 PROVE i \in Rest
  <2>1. \A d \in Keyed : d # 0 /\ setup.urls[KeyUrl(d)].key = d
    BY KeyUrlIs, LeaseFacts DEF Keyed, Disks
  <2>2. QED
    BY <1>2, <2>1 DEF Rest
<1>3. QED
  BY <1>1, <1>2

\* They follow the disks.
LEMMA RestInOrder ==
  ASSUME setup \in Setups
  PROVE  \A i, k \in Rest : DiskOf(i) < DiskOf(k) <=> Before(i, k)
<1> DEFINE Unnamed == {i \in DOMAIN setup.urls : setup.urls[i].key = 0}
           Targets == \A i, k \in Unnamed :
                        setup.urls[i].target # 0 /\ (i # k => setup.urls[i].target # setup.urls[k].target)
<1>1. Rest = Unnamed
  BY RestIs
<1>2. \A i, k \in Unnamed :
        setup.urls[i].disk < setup.urls[k].disk
          <=> IF Targets THEN setup.urls[i].target < setup.urls[k].target ELSE i < k
  BY LeasesAssumption DEF Truthful
<1>3. Targets <=> HaveTargets
  BY <1>1 DEF HaveTargets
<1>4. QED
  BY <1>1, <1>2, <1>3 DEF Before, DiskOf

LEMMA FiniteUrls == ASSUME setup \in Setups PROVE IsFiniteSet(Rest) /\ IsFiniteSet(Left)
<1>1. IsFiniteSet(DOMAIN setup.urls) /\ IsFiniteSet(Disks)
  <2>1. DOMAIN setup.urls = 1..Len(setup.urls) /\ Disks = 1..setup.n
    BY LeaseFacts DEF Disks
  <2>2. 1 \in Int /\ Len(setup.urls) \in Int /\ setup.n \in Int
    BY LeaseFacts
  <2>3. IsFiniteSet(1..Len(setup.urls)) /\ IsFiniteSet(1..setup.n)
    BY <2>2, FS_Interval
  <2>4. QED
    BY <2>1, <2>3
<1>2. Rest \in SUBSET DOMAIN setup.urls /\ Left \in SUBSET Disks
  BY DEF Rest, Left
<1>3. QED
  BY <1>1, <1>2, FS_Subset

\* A URL without a key has as many others before it as its disk has disks before it.
LEMMA Rank ==
  ASSUME setup \in Setups, \A d \in Left : \E i \in Rest : DiskOf(i) = d, NEW i \in Rest
  PROVE  Cardinality({k \in Rest : Before(k, i)}) = Cardinality({e \in Left : e < DiskOf(i)})
<1> DEFINE S == {k \in Rest : Before(k, i)}  T == {e \in Left : e < DiskOf(i)}  f == [k \in S |-> DiskOf(k)]
<1>1. IsFiniteSet(S) /\ IsFiniteSet(T)
  <2>1. S \in SUBSET Rest /\ T \in SUBSET Left
    OBVIOUS
  <2>2. QED
    BY <2>1, FiniteUrls, FS_Subset
<1>2. f \in [S -> T]
  <2>1. ASSUME NEW k \in S PROVE DiskOf(k) \in T
    BY RestIs, RestInOrder
  <2>2. QED
    BY <2>1
<1>3. \A a, b \in S : f[a] = f[b] => a = b
  BY LeaseFacts, RestIs
<1>4. \A t \in T : \E a \in S : f[a] = t
  <2>1. SUFFICES ASSUME NEW t \in T PROVE \E a \in S : f[a] = t
    OBVIOUS
  <2>2. PICK a \in Rest : DiskOf(a) = t
    OBVIOUS
  <2>3. a \in S
    BY <2>2, RestInOrder
  <2>4. QED
    BY <2>2, <2>3
<1> HIDE DEF S, T, f
<1>5. Cardinality(S) = Cardinality(T)
  BY <1>1, <1>2, <1>3, <1>4, SameSize
<1>6. QED
  BY <1>5 DEF S, T

\* match_disk_urls gives every disk the URL that delivers it, by key, by target or by order, for any number of disks
\* and any lease that can be trusted: no volume receives the stream of another disk.
THEOREM UrlsFindTheirDisks ==
  ASSUME setup \in Setups, CanMatch, NEW d \in Disks
  PROVE  DiskOf(UrlOf(d)) = d /\ Source(d) = setup.streams[d]
<1>1. DiskOf(UrlOf(d)) = d
  <2>1. CASE d \in Keyed
    BY <2>1, KeyUrlIs DEF UrlOf
  <2>2. CASE d \notin Keyed
    <3>1. d \in Left /\ Cardinality(Rest) = Cardinality(Left)
      BY <2>2 DEF CanMatch, Left
    <3> DEFINE f == [i \in Rest |-> DiskOf(i)]
    <3>2. f \in [Rest -> Left] /\ \A a, b \in Rest : f[a] = f[b] => a = b
      BY RestIs, LeaseFacts
    <3>3. \A e \in Left : \E i \in Rest : f[i] = e
      <4> HIDE DEF f
      <4>1. QED
        BY <3>1, <3>2, FiniteUrls, SameSize
    <3>4. \A e \in Left : \E i \in Rest : DiskOf(i) = e
      BY <3>3
    <3> DEFINE Up(i) == Cardinality({k \in Rest : Before(k, i)})
               Down(e) == Cardinality({l \in Left : l < e})
    <3>5. \A i \in Rest : Up(i) = Down(DiskOf(i))
      BY <3>4, Rank
    <3>6. ASSUME NEW a \in Left, NEW b \in Left, a < b PROVE Down(a) # Down(b)
      <4> DEFINE A == {l \in Left : l < a}  B == {l \in Left : l < b}
      <4>1. IsFiniteSet(B)
        <5>1. B \in SUBSET Left
          OBVIOUS
        <5>2. QED
          BY <5>1, FiniteUrls, FS_Subset
      <4>2. \A l \in Left : l \in Nat
        BY LeaseFacts DEF Left, Disks
      <4>3. A \in SUBSET B /\ a \in B /\ a \notin A
        BY <3>6, <4>2
      <4>4. QED
        BY <4>1, <4>3, FS_Subset
    <3>7. ASSUME NEW a \in Left, NEW b \in Left, Down(a) = Down(b) PROVE a = b
      <4>1. a \in Nat /\ b \in Nat
        BY LeaseFacts DEF Left, Disks
      <4>2. QED
        BY <3>6, <3>7, <4>1
    <3>8. UrlOf(d) = CHOOSE i \in Rest : Up(i) = Down(d)
      BY <2>2 DEF UrlOf, Left
    <3>9. \E i \in Rest : Up(i) = Down(d)
      BY <3>1, <3>4, <3>5
    <3>10. UrlOf(d) \in Rest /\ Up(UrlOf(d)) = Down(d)
      BY <3>8, <3>9
    <3>11. Down(DiskOf(UrlOf(d))) = Down(d) /\ DiskOf(UrlOf(d)) \in Left
      BY <3>5, <3>10, RestIs
    <3> HIDE DEF Down
    <3>12. QED
      BY <3>1, <3>7, <3>11
  <2>3. QED
    BY <2>1, <2>2
<1>2. QED
  BY <1>1 DEF Source, DiskOf

-----------------------------------------------------------------------------
\* The units that the first n chunks of a stream hold.
Given(s, n) == IF n * ChunkUnits <= Units(s) THEN n * ChunkUnits ELSE Units(s)

LEMMA UnitsType == ASSUME NEW s, IsStream(s) PROVE Units(s) \in Nat
<1>1. Len(s.items) \in 0..Len(s.items) /\ s.pad \in Nat
  BY OffsetsSum DEF IsStream
<1>2. Offsets(s)[Len(s.items)] \in Nat
  BY <1>1, OffsetsType
<1>3. QED
  BY <1>1, <1>2 DEF Units

LEMMA MinOfTwo == ASSUME NEW a \in Int, NEW b \in Int PROVE Min({a, b}) = IF a <= b THEN a ELSE b
<1>1. \E x \in {a, b} : \A y \in {a, b} : x <= y
  OBVIOUS
<1>2. Min({a, b}) \in {a, b} /\ \A y \in {a, b} : Min({a, b}) <= y
  BY <1>1 DEF Min
<1>3. QED
  BY <1>2

LEMMA RoundedUp ==
  ASSUME NEW u \in Nat, NEW c \in Nat \ {0}, NEW q, q = (u + c - 1) \div c
  PROVE  q \in Nat /\ q * c >= u /\ \A k \in 1..q : (k - 1) * c < u
<1>1. q \in Int /\ q * c <= u + c - 1 /\ u + c - 1 < q * c + c
  OBVIOUS
<1>2. q >= 0
  BY <1>1
<1>3. ASSUME NEW k \in 1..q PROVE (k - 1) * c < u
  <2>1. k - 1 \in Int /\ k - 1 <= q - 1
    BY <1>1
  <2>2. (k - 1) * c <= (q - 1) * c
    BY <1>1, <2>1
  <2>3. (q - 1) * c = q * c - c
    BY <1>1
  <2>4. (k - 1) * c \in Int /\ q * c \in Int
    BY <1>1, <2>1
  <2>5. QED
    BY <1>1, <2>2, <2>3, <2>4
<1>4. QED
  BY <1>1, <1>2, <1>3

\* The chunks follow each other without a gap, and the last ends with the stream.
LEMMA ChunksCover ==
  ASSUME setup \in Setups, CanMatch, idx \in Disks
  PROVE  LET s == setup.streams[idx] IN
         /\ Chunks \in Nat /\ Given(s, Chunks) = Units(s) /\ Given(s, 0) = 0
         /\ \A n \in Nat : Given(s, n) \in Nat
         /\ \A k \in 1..Chunks : ChunkLen(k) \in Nat /\ Given(s, k) = Given(s, k - 1) + ChunkLen(k)
<1> DEFINE s == setup.streams[idx]  u == Units(s)  c == ChunkUnits  q == Chunks
<1>1. u \in Nat /\ c \in Nat \ {0}
  <2>1. IsStream(s)
    BY StreamsAssumption DEF Disks
  <2>2. QED
    BY <2>1, UnitsType, VmwareAssumption
<1>2. q = (u + c - 1) \div c /\ \A k \in Nat : ChunkLen(k) = Min({c, u - (k - 1) * c})
  BY UrlsFindTheirDisks DEF Chunks, ChunkLen
<1>3. \A n \in Nat : Given(s, n) = IF n * c <= u THEN n * c ELSE u
  BY DEF Given
<1> HIDE DEF s, u, c, q
<1>4. q \in Nat /\ q * c >= u /\ \A k \in 1..q : (k - 1) * c < u
  BY <1>1, <1>2, RoundedUp
<1>5. \A n \in Nat : n * c \in Nat
  BY <1>1
<1>6. Given(s, q) = u /\ Given(s, 0) = 0 /\ \A n \in Nat : Given(s, n) \in Nat
  <2>1. 0 * c = 0
    BY <1>1
  <2>2. q * c \in Nat
    BY <1>4, <1>5
  <2>3. QED
    BY <1>1, <1>3, <1>4, <1>5, <2>1, <2>2
<1>7. ASSUME NEW k \in 1..q PROVE ChunkLen(k) \in Nat /\ Given(s, k) = Given(s, k - 1) + ChunkLen(k)
  <2> DEFINE m == (k - 1) * c
  <2>1. k \in Nat /\ k - 1 \in Nat /\ m \in Nat /\ m < u /\ k * c = m + c
    <3>1. k \in Nat /\ k - 1 \in Nat
      BY <1>4
    <3>2. QED
      BY <1>1, <1>4, <1>5, <3>1
  <2>2. ChunkLen(k) = Min({c, u - m}) /\ Given(s, k) = (IF m + c <= u THEN m + c ELSE u)
        /\ Given(s, k - 1) = IF m <= u THEN m ELSE u
    BY <1>2, <1>3, <2>1
  <2> HIDE DEF m
  <2>3. ChunkLen(k) = IF c <= u - m THEN c ELSE u - m
    BY <1>1, <2>1, <2>2, MinOfTwo
  <2>4. QED
    BY <1>1, <2>1, <2>2, <2>3
<1>8. QED
  BY <1>4, <1>6, <1>7 DEF s, u, q

LEMMA SameSetup == ASSUME UNCHANGED setup PROVE (CanMatch <=> CanMatch') /\ Disks' = Disks
BY SMT DEF CanMatch, Keyed, Rest, KeyUrl, Disks
LEMMA SameChunks == ASSUME UNCHANGED <<setup, idx>> PROVE Chunks' = Chunks
BY SMT DEF Chunks, Source, UrlOf, KeyUrl, Keyed, Rest, Before, HaveTargets, Disks

-----------------------------------------------------------------------------
(* The contents of the volumes                                              *)

\* The stream of a disk, and the places at which its decoder is still fed.
Own(d) == setup.streams[d]
Receiving == {"stream", "feed", "decode", "finish"}

\* Every volume is sound, and a COPIED one is whole.
DevInv ==
  /\ setup \in Setups /\ copied \subseteq Disks
  /\ DOMAIN dev = Disks /\ \A d \in Disks : Sound(Own(d), dev[d])
  /\ \A d \in copied : WellFormed(Own(d)) /\ dev[d] = Image(Own(d))

\* Whoever decodes has a decoder of the stream it writes, and what the job's decoder has taken is on the volume.
DecInv ==
  /\ pc \in {"disk", "attempt"} => CanMatch
  /\ fd \in {0, idx}
  /\ fd # 0 \/ wpc # "ended" => idx \in Disks /\ CanMatch /\ DecOK(Own(idx), dec)
  /\ fd # 0 => Written(Own(idx), dec.next, dev[idx])
  /\ orphan # Nobody => setup.n = 1 /\ CanMatch /\ orphan = [dec |-> orphan.dec, disk |-> 1] /\ DecOK(Own(1), orphan.dec)
  /\ wpc # "ended" => sent <= Chunks

\* Who is in which call of the pipeline, and that an error is not lost.
UseInv ==
  /\ error # "none" => failed \/ wpc = "failed"
  /\ ~setup.pipelined => wpc = "ended" /\ pc # "feed"
  /\ setup.pipelined => pc # "decode"
  /\ ppc = "put" => pc = "feed"
  /\ ppc \in {"eof", "join"} => pc = "finish"
  /\ ppc \in {"flag", "empty", "leave"} => pc = "aborting"
  /\ setup.pipelined /\ pc = "finish" /\ ppc = "out" /\ raised = "none" => done /\ error = "none"
  /\ pc \in Ending /\ outcome = "ok" => wpc = "ended"

\* The decoder has been given exactly the chunks that were downloaded, or left the queue.
CountInv ==
  pc \in Receiving =>
    /\ fd # 0 /\ pos \in 0..Chunks
    /\ pc = "finish" => pos = Chunks
    /\ setup.pipelined =>
         /\ IF ppc = "put" THEN sent + 1 = pos ELSE sent <= pos /\ (pc # "feed" \/ raised = "none" => sent = pos)
         /\ error = "none" => Took(Own(idx), dec, Given(Own(idx), Base))
    /\ ~setup.pipelined => Took(Own(idx), dec, Given(Own(idx), pos))

CopyInv == DevInv /\ DecInv /\ UseInv /\ CountInv
ExportInv == PipeInv /\ WriterInv /\ ResultInv /\ CopyInv

LEMMA OwnIs ==
  ASSUME setup \in Setups, NEW d \in Disks
  PROVE  IsStream(Own(d)) /\ (CanMatch => Source(d) = Own(d))
BY StreamsAssumption, UrlsFindTheirDisks DEF Own, Disks

\* DevInv is about four variables, and a write keeps it.
LEMMA SameDev == DevInv /\ UNCHANGED <<setup, dev, copied>> => DevInv'
BY DEF DevInv, Own, Disks

LEMMA WriteDev ==
  ASSUME DevInv, fd \in Disks, NEW i \in Body(Own(fd)), UNCHANGED <<setup, copied>>,
         dev' = [dev EXCEPT ![fd] = Emit(Own(fd), Own(fd).items[i], @)]
  PROVE  /\ DevInv'
         /\ \A k \in Nat : Written(Own(fd), k, dev[fd]) => Written(Own(fd), k, dev'[fd])
         /\ Written(Own(fd), i, dev[fd]) => Written(Own(fd), i + 1, dev'[fd])
<1> DEFINE s == Own(fd)  after == Emit(s, s.items[i], dev[fd])
<1>1. IsStream(s) /\ Sound(s, dev[fd]) /\ i \in Body(s)
  BY OwnIs DEF DevInv
<1>2. DOMAIN dev' = Disks /\ dev'[fd] = after /\ \A d \in Disks \ {fd} : dev'[d] = dev[d]
  BY DEF DevInv
<1>3. Sound(s, after)
  BY <1>1, EmitOK
<1>4. /\ \A k \in Nat : Written(s, k, dev[fd]) => Written(s, k, after)
      /\ Written(s, i, dev[fd]) => Written(s, i + 1, after)
      /\ dev[fd] = Image(s) => after = Image(s)
  BY <1>1, EmitKeeps
<1> HIDE DEF after
<1>5. \A d \in Disks : Sound(Own(d), dev'[d])
  BY <1>2, <1>3 DEF DevInv
<1>6. \A d \in copied : WellFormed(Own(d)) /\ dev'[d] = Image(Own(d))
  BY <1>2, <1>4 DEF DevInv
<1>7. Disks' = Disks /\ \A d : Own(d)' = Own(d)
  BY SameSetup DEF Own
<1>8. DevInv'
  <2>1. setup' \in Setups /\ copied' \subseteq Disks' /\ DOMAIN dev' = Disks'
    BY <1>2, <1>7 DEF DevInv
  <2>2. \A d \in Disks' : Sound(Own(d)', dev'[d])
    BY <1>5, <1>7
  <2>3. \A d \in copied' : WellFormed(Own(d)') /\ dev'[d] = Image(Own(d)')
    BY <1>6, <1>7
  <2>4. QED
    BY <2>1, <2>2, <2>3 DEF DevInv
<1>9. QED
  BY <1>2, <1>4, <1>8

\* A step that leaves the descriptor and the disk.
LEMMA MoveDec ==
  ASSUME DecInv, UNCHANGED <<setup, fd, orphan, idx>>,
         wpc' = wpc \/ wpc # "ended",
         wpc' # "ended" => sent' <= Chunks,
         pc' \in {"disk", "attempt"} => CanMatch,
         fd # 0 \/ wpc' # "ended" => DecOK(Own(idx), dec'),
         fd # 0 => Written(Own(idx), dec'.next, dev'[idx])
  PROVE  DecInv'
<1>1. /\ CanMatch' <=> CanMatch
      /\ Disks' = Disks /\ Chunks' = Chunks /\ Own(idx)' = Own(idx) /\ Own(1)' = Own(1)
  BY SameSetup, SameChunks DEF Own
<1>2. fd # 0 \/ wpc' # "ended" => idx \in Disks /\ CanMatch
  BY DEF DecInv
<1>3. orphan # Nobody => setup.n = 1 /\ CanMatch /\ orphan = [dec |-> orphan.dec, disk |-> 1] /\ DecOK(Own(1), orphan.dec)
  BY DEF DecInv
<1>4. fd \in {0, idx}
  BY DEF DecInv
<1>5. Nobody' = Nobody
  BY DEF Nobody, Fresh
<1>6. fd' # 0 \/ wpc' # "ended" => idx' \in Disks' /\ CanMatch' /\ DecOK(Own(idx)', dec')
  BY <1>1, <1>2
<1>7. fd' # 0 => Written(Own(idx)', dec'.next, dev'[idx'])
  BY <1>1
<1>8. orphan' # Nobody' => setup'.n = 1 /\ CanMatch' /\ orphan' = [dec |-> orphan'.dec, disk |-> 1] /\ DecOK(Own(1)', orphan'.dec)
  BY <1>1, <1>3, <1>5
<1>9. /\ pc' \in {"disk", "attempt"} => CanMatch'
      /\ fd' \in {0, idx'} /\ (wpc' # "ended" => sent' <= Chunks')
  BY <1>1, <1>4
<1>10. QED
  BY <1>6, <1>7, <1>8, <1>9 DEF DecInv

\* A step that leaves the decoder as well.
LEMMA AsideDec ==
  ASSUME DecInv, UNCHANGED <<setup, fd, orphan, idx, dec, dev>>,
         wpc' = wpc \/ wpc # "ended",
         sent' = sent \/ sent' <= Chunks,
         pc' \in {"disk", "attempt"} => CanMatch
  PROVE  DecInv'
<1>1. wpc' # "ended" => sent' <= Chunks
  BY DEF DecInv
<1>2. fd # 0 \/ wpc' # "ended" => DecOK(Own(idx), dec')
  BY DEF DecInv
<1>3. fd # 0 => Written(Own(idx), dec'.next, dev'[idx])
  BY DEF DecInv
<1>4. QED
  BY <1>1, <1>2, <1>3, MoveDec

\* Outside of an attempt, and around the task, CountInv says nothing or nothing new.
LEMMA SameCount == CountInv /\ UNCHANGED <<pipeVars, setup, pc, pos, idx, fd, dec>> => CountInv'
<1>1. SUFFICES ASSUME CountInv, UNCHANGED <<pipeVars, setup, pc, pos, idx, fd, dec>> PROVE CountInv'
  OBVIOUS
<1>2. /\ UNCHANGED <<pc, fd, pos, setup, idx, dec>>
      /\ UNCHANGED <<ppc, sent, raised, error, fed, hand>>
  BY <1>1 DEF pipeVars
<1>3. Chunks' = Chunks
  BY <1>2, SameChunks
<1>4. Own(idx)' = Own(idx) /\ Base' = Base
  BY <1>2 DEF Own, Base
<1>5. QED
  BY <1>1, <1>2, <1>3, <1>4 DEF CountInv, Receiving

\* Steps of the job's thread between two calls.
LEMMA ThreadUse ==
  ASSUME UseInv, UNCHANGED <<pipeVars, setup>>,
         \/ pc' = pc /\ outcome' = outcome
         \/ /\ ppc = "out" \/ pc \notin {"feed", "finish", "aborting"}
            /\ pc' \notin {"feed", "finish"}
            /\ pc' = "decode" => ~setup.pipelined
            /\ pc' \in Ending /\ outcome' = "ok" => wpc = "ended"
  PROVE  UseInv'
<1>1. UNCHANGED <<error, failed, wpc, ppc, raised, done, setup>>
  BY DEF pipeVars
<1>2. QED
  BY <1>1 DEF UseInv, Ending

LEMMA OutsideUse == UseInv /\ Outside => UseInv'
<1> SUFFICES ASSUME UseInv, Outside PROVE UseInv'
  OBVIOUS
<1>1. /\ UNCHANGED <<pipeVars, setup>>
      /\ pc \notin {"feed", "finish", "aborting"} /\ pc' \notin {"feed", "finish", "decode"} \cup Ending
  <2>1. CASE CheckPower \/ ShutDown \/ GuestWait \/ OffWait \/ PowerOff \/ TaskWait
    BY <2>1 DEF CheckPower, ShutDown, GuestWait, OffWait, AwaitOff, PowerOff, TaskWait, Goto, End, Ending
  <2>2. CASE OpenLease \/ LeaseWait \/ MatchUrls \/ CloseLease \/ NextDisk
    BY <2>2 DEF OpenLease, LeaseWait, MatchUrls, CloseLease, NextDisk, Goto, End, Exit, Ending
  <2>3. QED
    BY <2>1, <2>2 DEF Outside
<1>2. QED
  BY <1>1, ThreadUse

LEMMA AttemptUse ==
  ASSUME PipeInv, WriterInv, UseInv, Begin \/ Download \/ FeedReturns \/ Decode \/ Finish \/ Abort \/ Aborted \/ Close
  PROVE  UseInv'
<1> USE DEF Goto, Leave, Exit
<1>1. CASE Begin
  <2>1. CASE pc' = "exit" /\ UNCHANGED <<pipeVars, setup>>
    <3>1. pc = "attempt"
      BY <1>1 DEF Begin
    <3>2. QED
      BY <2>1, <3>1, ThreadUse DEF Ending
  <2>2. CASE pc' = "stream" /\ setup.pipelined /\ Create /\ UNCHANGED setup
    BY <2>2 DEF UseInv, Create, Ending
  <2>3. CASE pc' = "stream" /\ ~setup.pipelined /\ UNCHANGED <<pipeVars, setup>>
    <3>1. pc = "attempt"
      BY <1>1 DEF Begin
    <3>2. QED
      BY <2>3, <3>1, ThreadUse DEF Ending
  <2>4. QED
    BY <1>1, <2>1, <2>2, <2>3 DEF Begin
<1>2. CASE Download
  <2>1. pc = "stream" /\ UNCHANGED setup
    BY <1>2 DEF Download
  <2>2. CASE pc' = "abort" /\ outcome' # "ok" /\ UNCHANGED pipeVars
    BY <2>1, <2>2, ThreadUse
  <2>3. CASE setup.pipelined /\ CallFeed /\ pc' = "feed"
    BY <2>1, <2>3 DEF UseInv, CallFeed, Call, ReturnCall, Surfaces, worker, Ending
  <2>4. CASE setup.pipelined /\ CallFinish /\ pc' = "finish"
    BY <2>1, <2>4 DEF UseInv, CallFinish, Call, ReturnCall, Surfaces, worker, Ending
  <2>5. CASE ~setup.pipelined /\ UNCHANGED pipeVars /\ pc' = "decode"
    BY <2>1, <2>5, ThreadUse DEF Ending
  <2>6. CASE ~setup.pipelined /\ UNCHANGED pipeVars /\ pc' = "finish"
    BY <2>1, <2>6 DEF UseInv, pipeVars, Ending
  <2>7. QED
    BY <1>2, <2>2, <2>3, <2>4, <2>5, <2>6 DEF Download
<1>3. CASE FeedReturns \/ Decode
  <2>1. /\ UNCHANGED <<pipeVars, setup>> /\ (ppc = "out" \/ pc = "decode")
        /\ (pc' = "stream" \/ (pc' = pc /\ outcome' = outcome) \/ (pc' = "abort" /\ outcome' # "ok"))
    BY <1>3 DEF FeedReturns, Decode, Caught
  <2>2. QED
    BY <2>1, ThreadUse DEF Ending
<1>4. CASE Finish
  <2>1. /\ UNCHANGED <<pipeVars, setup>> /\ pc = "finish" /\ ppc = "out" /\ pc' = "abort"
        /\ outcome' = "ok" => ~setup.pipelined \/ raised = "none"
    BY <1>4 DEF Finish, Caught
  <2>2. outcome' = "ok" => wpc = "ended"
    BY <2>1 DEF UseInv, PipeInv, FinishedIsComplete
  <2>3. QED
    BY <2>1, <2>2, ThreadUse
<1>5. CASE Abort
  <2>1. pc = "abort" /\ UNCHANGED <<setup, outcome>>
    BY <1>5 DEF Abort, loop
  <2>2. CASE pc' = "close" /\ UNCHANGED pipeVars
    <3>1. pc' \in Ending /\ outcome' = "ok" => wpc = "ended"
      BY <2>1 DEF UseInv, Ending
    <3>2. QED
      BY <2>1, <2>2, <3>1, ThreadUse
  <2>3. CASE pc' = "aborting" /\ CallAbort
    BY <2>1, <2>3 DEF UseInv, CallAbort, worker, Ending
  <2>4. QED
    BY <1>5, <2>2, <2>3 DEF Abort
<1>6. CASE Aborted
  <2>1. pc = "aborting" /\ ppc = "out" /\ pc' = "close" /\ UNCHANGED <<pipeVars, setup, outcome>>
    BY <1>6 DEF Aborted, loop
  <2>2. pc' \in Ending /\ outcome' = "ok" => wpc = "ended"
    BY <2>1 DEF UseInv, Ending
  <2>3. QED
    BY <2>1, <2>2, ThreadUse
<1>7. CASE Close
  <2>1. pc = "close" /\ pc' \in {"disk", "attempt", "exit"} /\ UNCHANGED <<pipeVars, setup>>
    BY <1>7 DEF Close
  <2>2. QED
    BY <2>1, ThreadUse DEF Ending
<1>8. QED
  BY <1>1, <1>2, <1>3, <1>4, <1>5, <1>6, <1>7

LEMMA CallUse == ASSUME PipeInv, UseInv, CallSteps PROVE UseInv'
<1>1. UNCHANGED <<setup, pc, outcome>>
  BY DEF CallSteps, loop
<1>2. CASE Put \/ PutTimesOut \/ PutEof
  BY <1>1, <1>2 DEF Put, PutTimesOut, PutEof, ReturnCall, Surfaces, worker, UseInv, Ending
<1>3. CASE Joined
  BY <1>1, <1>3 DEF Joined, ReturnCall, Surfaces, worker, UseInv, Ending
<1>4. CASE AbortFlag \/ AbortEmpty
  BY <1>1, <1>4 DEF AbortFlag, AbortEmpty, worker, UseInv, Ending
<1>5. CASE \E timeout \in BOOLEAN : AbortJoin(timeout)
  BY <1>1, <1>5 DEF AbortJoin, worker, UseInv, Ending
<1>6. QED
  BY <1>2, <1>3, <1>4, <1>5 DEF CallSteps

LEMMA WorkerUse == ASSUME PipeInv, UseInv, WorkerSteps PROVE UseInv'
<1>1. UNCHANGED <<setup, pc, outcome>>
  BY DEF WorkerSteps, WorkerGets, WorkerDecodes, WorkerMoves, loop
<1>2. done /\ error = "none" => wpc = "ended"
  BY DEF PipeInv, FinishedIsComplete
<1>3. CASE WorkerGets
  BY <1>1, <1>2, <1>3 DEF WorkerGets, Get, producer, UseInv, Ending
<1>4. CASE WorkerDecodes
  <2>1. CASE UNCHANGED pipeVars
    BY <1>1, <2>1, ThreadUse
  <2>2. CASE DecodeFails \/ Decoded
    BY <1>1, <1>2, <2>2 DEF DecodeFails, Decoded, producer, UseInv, Ending
  <2>3. QED
    BY <1>4, <2>1, <2>2 DEF WorkerDecodes
<1>5. CASE WorkerMoves
  <2>1. CASE WorkerLoop
    BY <1>1, <1>2, <2>1 DEF WorkerLoop, producer, UseInv, Ending
  <2>2. CASE WorkerFails
    BY <1>1, <1>2, <2>2 DEF WorkerFails, producer, UseInv, Ending
  <2>3. CASE WorkerStops
    BY <1>1, <1>2, <2>3 DEF WorkerStops, producer, UseInv, Ending
  <2>4. QED
    BY <1>5, <2>1, <2>2, <2>3 DEF WorkerMoves
<1>6. QED
  BY <1>3, <1>4, <1>5 DEF WorkerSteps

LEMMA NextUse == ASSUME PipeInv, WriterInv, UseInv, [Next]_vars PROVE UseInv'
<1>1. CASE OrphanDecodes \/ CancelRunning \/ GuestStops \/ TaskRuns \/ UserSwitches \/ LeaseTurns \/ UNCHANGED vars
  <2>1. UNCHANGED <<pipeVars, setup, pc, outcome>>
    BY <1>1 DEF OrphanDecodes, CancelRunning, GuestStops, TaskRuns, UserSwitches, LeaseTurns, vars, loop
  <2>2. QED
    BY <2>1, ThreadUse
<1>2. QED
  BY <1>1, OutsideUse, AttemptUse, CallUse, WorkerUse DEF Next, TaskStep, Outside

\* What is known of the disk at hand while it is decoded.
LEMMA Here ==
  ASSUME DevInv, DecInv, fd # 0 \/ wpc # "ended"
  PROVE  /\ idx \in Disks /\ CanMatch /\ IsStream(Own(idx)) /\ Source(idx) = Own(idx) /\ DecOK(Own(idx), dec)
         /\ Chunks \in Nat /\ Given(Own(idx), Chunks) = Units(Own(idx))
         /\ \A n \in Nat : Given(Own(idx), n) \in Nat
         /\ \A k \in 1..Chunks : ChunkLen(k) \in Nat /\ Given(Own(idx), k) = Given(Own(idx), k - 1) + ChunkLen(k)
<1>1. setup \in Setups /\ idx \in Disks /\ CanMatch /\ DecOK(Own(idx), dec)
  BY DEF DevInv, DecInv
<1>2. IsStream(Own(idx)) /\ Source(idx) = Own(idx)
  BY <1>1, OwnIs
<1>3. QED
  BY <1>1, <1>2, ChunksCover DEF Own

LEMMA CountAgain ==
  ASSUME UNCHANGED <<setup, idx>>, fd' # 0, pos' \in 0..Chunks, pc' = "finish" => pos' = Chunks,
         setup.pipelined =>
           /\ IF ppc' = "put" THEN sent' + 1 = pos' ELSE sent' <= pos' /\ (pc' # "feed" \/ raised' = "none" => sent' = pos')
           /\ error' = "none" => Took(Own(idx), dec', Given(Own(idx), Base')),
         ~setup.pipelined => Took(Own(idx), dec', Given(Own(idx), pos'))
  PROVE  CountInv'
<1>1. Chunks' = Chunks /\ Own(idx)' = Own(idx)
  BY SameChunks DEF Own
<1>2. QED
  BY <1>1 DEF CountInv

LEMMA Quiet ==
  ASSUME DevInv, DecInv, UNCHANGED <<setup, dev, copied, fd, orphan, idx, dec>>,
         wpc' = wpc \/ wpc # "ended",
         sent' = sent \/ sent' <= Chunks,
         pc' \in {"disk", "attempt"} => CanMatch,
         pc' \notin Receiving \/ CountInv'
  PROVE  DevInv' /\ DecInv' /\ CountInv'
<1>1. DevInv' /\ DecInv'
  BY SameDev, AsideDec
<1>2. CountInv'
  BY DEF CountInv
<1>3. QED
  BY <1>1, <1>2

\* The step of a decoder that writes its next item.
LEMMA DrainStep ==
  ASSUME DevInv, DecInv, fd # 0, CanDrain(Source(idx), dec), ~Malformed(Source(idx), dec),
         WriteItem(Source(idx), dec), dec' = Drained(Source(idx), dec), UNCHANGED <<setup, copied>>
  PROVE  /\ DevInv' /\ DecOK(Own(idx), dec') /\ Written(Own(idx), dec'.next, dev'[idx])
         /\ \A m \in Nat : Took(Own(idx), dec, m) => Took(Own(idx), dec', m)
<1> DEFINE s == Own(idx)
<1>1. fd = idx /\ fd \in Disks /\ IsStream(s) /\ Source(idx) = s /\ DecOK(s, dec) /\ Written(s, dec.next, dev[fd])
  BY Here DEF DecInv
<1>2. /\ dec.next \in Body(s) /\ DecOK(s, dec') /\ dec'.next = dec.next + 1
      /\ \A m \in Nat : Took(s, dec, m) => Took(s, dec', m)
  BY <1>1, DrainedOK
<1>3. dev' = [dev EXCEPT ![fd] = Emit(s, s.items[dec.next], @)]
  BY <1>1 DEF WriteItem
<1>4. DevInv' /\ Written(s, dec.next + 1, dev'[fd])
  BY <1>1, <1>2, <1>3, WriteDev
<1>5. QED
  BY <1>1, <1>2, <1>4

LEMMA OutsideCopy == ASSUME ExportInv, Outside PROVE DevInv' /\ DecInv' /\ CountInv'
<1>1. DevInv /\ DecInv
  BY DEF ExportInv, CopyInv
<1>2. CASE CheckPower \/ ShutDown \/ GuestWait \/ OffWait \/ PowerOff \/ TaskWait
  <2>1. /\ UNCHANGED <<pipeVars, setup, dev, copied, fd, orphan, idx, dec>>
        /\ pc' \notin {"disk", "attempt"} \cup Receiving
    BY <1>2 DEF CheckPower, ShutDown, GuestWait, OffWait, AwaitOff, PowerOff, TaskWait, Goto, End, loop, stream, volumes,
                Receiving
  <2>2. wpc' = wpc /\ sent' = sent
    BY <2>1 DEF pipeVars
  <2>3. QED
    BY <1>1, <2>1, <2>2, Quiet
<1>3. CASE OpenLease \/ LeaseWait \/ MatchUrls \/ CloseLease
  <2>1. /\ UNCHANGED <<pipeVars, setup, dev, copied, fd, orphan, idx, dec>>
        /\ pc' \notin {"attempt"} \cup Receiving /\ (pc' = "disk" => CanMatch)
    BY <1>3 DEF OpenLease, LeaseWait, MatchUrls, CloseLease, Goto, End, Exit, loop, stream, volumes, Receiving
  <2>2. wpc' = wpc /\ sent' = sent
    BY <2>1 DEF pipeVars
  <2>3. QED
    BY <1>1, <2>1, <2>2, Quiet
<1>4. CASE NextDisk
  <2>1. idx \notin copied
    <3>1. pc = "disk" /\ Progress
      BY <1>4 DEF NextDisk, ExportInv, ResultInv
    <3>2. copied = 1..idx - 1 /\ idx \in Nat
      BY <3>1 DEF Progress, Ending
    <3>3. QED
      BY <3>2
  <2>2. /\ UNCHANGED <<pipeVars, setup, dev, copied, fd, orphan, idx, dec>>
        /\ pc = "disk" /\ pc' \in {"exit", "attempt"}
    BY <1>4, <2>1 DEF NextDisk, Goto, Exit, stream, volumes
  <2>3. wpc' = wpc /\ sent' = sent /\ CanMatch
    BY <1>1, <2>2 DEF pipeVars, DecInv
  <2>4. QED
    BY <1>1, <2>2, <2>3, Quiet DEF Receiving
<1>5. QED
  BY <1>2, <1>3, <1>4 DEF Outside

\* With one disk, the descriptor that a worker left behind by a hang writes to can only be that of its own disk.
LEMMA BeginCopy == ASSUME HangsAlone, ExportInv, Begin PROVE DevInv' /\ DecInv' /\ CountInv'
<1>1. DevInv /\ DecInv /\ UseInv /\ WriterInv /\ Progress
  BY DEF ExportInv, CopyInv, ResultInv
<1>2. pc = "attempt" /\ UNCHANGED <<setup, idx, dev, copied>>
  BY DEF Begin
<1>3. CASE pc' = "exit" /\ UNCHANGED <<pipeVars, stream, orphan, fd>>
  <2>1. wpc' = wpc /\ sent' = sent /\ UNCHANGED <<dec, fd, orphan>>
    BY <1>3 DEF pipeVars, stream
  <2>2. QED
    BY <1>1, <1>2, <1>3, <2>1, Quiet DEF Receiving
<1>4. CASE /\ pc' = "stream" /\ fd' = idx /\ pos' = 0 /\ dec' = Fresh
           /\ IF setup.pipelined THEN Create ELSE UNCHANGED pipeVars
           /\ orphan' = IF wpc # "ended" THEN [dec |-> dec, disk |-> idx] ELSE orphan
  <2>1. idx \in Disks /\ idx # 0 /\ CanMatch /\ setup \in Setups /\ IsStream(Own(idx))
    <3>1. idx \in Disks /\ idx # 0
      BY <1>1, <1>2 DEF Progress, OnDisk, Disks
    <3>2. QED
      BY <1>1, <1>2, <3>1, OwnIs DEF DevInv, DecInv
  <2>2. DecOK(Own(idx), Fresh) /\ Took(Own(idx), Fresh, 0) /\ Fresh.next = 1
    BY <2>1, FreshOK DEF Fresh
  <2>3. Chunks \in Nat /\ Given(Own(idx), 0) = 0
    BY <2>1, ChunksCover DEF Own
  <2>4. /\ CanMatch' <=> CanMatch
        /\ Disks' = Disks /\ Chunks' = Chunks /\ Own(idx)' = Own(idx) /\ Own(1)' = Own(1)
    BY <1>2, SameSetup, SameChunks DEF Own
  <2>5. Nobody' = Nobody
    BY DEF Nobody, Fresh
  <2>6. orphan' # Nobody => setup.n = 1 /\ CanMatch /\ orphan' = [dec |-> orphan'.dec, disk |-> 1] /\ DecOK(Own(1), orphan'.dec)
    <3>1. CASE wpc # "ended"
      <4>1. "hang" \in setup.events
        BY <1>1, <1>2, <3>1 DEF WriterInv, Attempting
      <4>2. setup.n = 1 /\ idx = 1
        BY <2>1, <4>1 DEF HangsAlone, Disks
      <4>3. DecOK(Own(1), dec) /\ orphan' = [dec |-> dec, disk |-> idx]
        BY <1>1, <1>4, <3>1, <4>2 DEF DecInv
      <4>4. QED
        BY <2>1, <4>2, <4>3
    <3>2. CASE wpc = "ended"
      BY <1>1, <1>4, <3>2 DEF DecInv
    <3>3. QED
      BY <3>1, <3>2
  <2>7. wpc' # "ended" => sent' <= Chunks
    BY <1>1, <1>4, <2>3 DEF Create, UseInv, pipeVars
  <2>8. Written(Own(idx), 1, dev[idx])
    BY DEF Written
  <2>9. DecInv'
    <3>1. fd' # 0 \/ wpc' # "ended" => idx' \in Disks' /\ CanMatch' /\ DecOK(Own(idx)', dec')
      BY <1>2, <1>4, <2>1, <2>2, <2>4
    <3>2. fd' # 0 => Written(Own(idx)', dec'.next, dev'[idx'])
      BY <1>2, <1>4, <2>2, <2>4, <2>8
    <3>3. orphan' # Nobody' => setup'.n = 1 /\ CanMatch' /\ orphan' = [dec |-> orphan'.dec, disk |-> 1] /\ DecOK(Own(1)', orphan'.dec)
      BY <1>2, <2>4, <2>5, <2>6
    <3>4. pc' \notin {"disk", "attempt"} /\ fd' \in {0, idx'} /\ (wpc' # "ended" => sent' <= Chunks')
      BY <1>2, <1>4, <2>4, <2>7
    <3>5. QED
      BY <3>1, <3>2, <3>3, <3>4 DEF DecInv
  <2>10. CountInv'
    <3>1. setup.pipelined => ppc' = "out" /\ sent' = 0 /\ Base' = 0
      BY <1>4 DEF Create, Base
    <3>2. QED
      BY <1>2, <1>4, <2>1, <2>2, <2>3, <3>1, CountAgain
  <2>11. QED
    BY <1>1, <1>2, <2>9, <2>10, SameDev
<1>5. QED
  BY <1>3, <1>4 DEF Begin, Exit, Goto

LEMMA FeedCopy == ASSUME ExportInv, FeedReturns \/ Abort \/ Aborted PROVE DevInv' /\ DecInv' /\ CountInv'
<1>1. DevInv /\ DecInv /\ UseInv /\ CountInv
  BY DEF ExportInv, CopyInv
<1>2. CASE FeedReturns
  <2>1. /\ UNCHANGED <<pipeVars, setup, dev, copied, fd, orphan, idx, dec, pos>>
        /\ pc = "feed" /\ ppc = "out" /\ ((pc' = "stream" /\ raised = "none") \/ pc' = "abort")
    BY <1>2 DEF FeedReturns, Leave, Goto, stream, volumes
  <2>2. UNCHANGED <<wpc, sent, ppc, raised, error, fed, hand>>
    BY <2>1 DEF pipeVars
  <2>3. pc' = "stream" => CountInv'
    <3>0. SUFFICES ASSUME pc' = "stream" PROVE CountInv'
      OBVIOUS
    <3>1. setup.pipelined /\ Base' = Base
      BY <1>1, <2>1, <2>2 DEF UseInv, Base
    <3>2. /\ fd # 0 /\ pos \in 0..Chunks /\ sent = pos /\ sent <= pos
          /\ error = "none" => Took(Own(idx), dec, Given(Own(idx), Base))
      BY <1>1, <2>1, <3>0, <3>1 DEF CountInv, Receiving
    <3>3. QED
      BY <2>1, <2>2, <3>0, <3>1, <3>2, CountAgain
  <2>4. QED
    BY <1>1, <2>1, <2>2, <2>3, Quiet DEF Receiving
<1>3. CASE Abort
  <2>1. /\ UNCHANGED <<setup, dev, copied, fd, orphan, idx, dec>>
        /\ pc' \in {"aborting", "close"} /\ (CallAbort \/ UNCHANGED pipeVars)
    BY <1>3 DEF Abort, Goto, loop, stream, volumes
  <2>2. wpc' = wpc /\ sent' = sent
    BY <2>1 DEF CallAbort, worker, pipeVars
  <2>3. QED
    BY <1>1, <2>1, <2>2, Quiet DEF Receiving
<1>4. CASE Aborted
  <2>1. UNCHANGED <<pipeVars, setup, dev, copied, fd, orphan, idx, dec>> /\ pc' = "close"
    BY <1>4 DEF Aborted, Goto, loop, stream, volumes
  <2>2. wpc' = wpc /\ sent' = sent
    BY <2>1 DEF pipeVars
  <2>3. QED
    BY <1>1, <2>1, <2>2, Quiet DEF Receiving
<1>5. QED
  BY <1>2, <1>3, <1>4

LEMMA DownloadCopy == ASSUME ExportInv, Download PROVE DevInv' /\ DecInv' /\ CountInv'
<1>1. DevInv /\ DecInv /\ UseInv /\ CountInv
  BY DEF ExportInv, CopyInv
<1>2. pc = "stream" /\ UNCHANGED <<setup, idx, dev, copied, fd, orphan>>
  BY DEF Download, volumes
<1>3. fd # 0 /\ pos \in 0..Chunks
  BY <1>1, <1>2 DEF CountInv, Receiving
<1>4. setup.pipelined => sent = pos /\ (error = "none" => Took(Own(idx), dec, Given(Own(idx), Base)))
  <2>1. ppc # "put"
    BY <1>1, <1>2 DEF UseInv
  <2>2. QED
    BY <1>1, <1>2, <2>1 DEF CountInv, Receiving
<1>5. ~setup.pipelined => wpc = "ended" /\ Took(Own(idx), dec, Given(Own(idx), pos))
  BY <1>1, <1>2 DEF CountInv, UseInv, Receiving
<1>6. /\ idx \in Disks /\ CanMatch /\ IsStream(Own(idx)) /\ DecOK(Own(idx), dec) /\ Chunks \in Nat
      /\ \A n \in Nat : Given(Own(idx), n) \in Nat
      /\ \A k \in 1..Chunks : ChunkLen(k) \in Nat /\ Given(Own(idx), k) = Given(Own(idx), k - 1) + ChunkLen(k)
  BY <1>1, <1>3, Here
<1>7. CASE pc' = "abort" /\ UNCHANGED <<pipeVars, stream>>
  <2>1. wpc' = wpc /\ sent' = sent /\ dec' = dec
    BY <1>7 DEF pipeVars, stream
  <2>2. QED
    BY <1>1, <1>2, <1>7, <2>1, Quiet DEF Receiving
<1>8. CASE setup.pipelined /\ \/ pos < Chunks /\ pos' = pos + 1 /\ CallFeed /\ pc' = "feed" /\ UNCHANGED dec
                              \/ pos = Chunks /\ pos' = pos /\ CallFinish /\ pc' = "finish" /\ UNCHANGED dec
  <2>1. UNCHANGED <<wpc, sent, fed, hand, error>>
    BY <1>8 DEF CallFeed, CallFinish, Call, worker
  <2>2. \/ pc' = "feed" /\ ppc' = "put"
        \/ pc' = "feed" /\ ppc' = "out" /\ raised' # "none"
        \/ pc' = "finish" /\ ppc' # "put"
    BY <1>8 DEF CallFeed, CallFinish, Call, ReturnCall, Surfaces
  <2>3. CountInv'
    <3>1. IF ppc' = "put" THEN sent' + 1 = pos' ELSE sent' <= pos' /\ (pc' # "feed" \/ raised' = "none" => sent' = pos')
      BY <1>3, <1>4, <1>6, <1>8, <2>1, <2>2
    <3>2. pos' \in 0..Chunks /\ (pc' = "finish" => pos' = Chunks)
      BY <1>3, <1>6, <1>8
    <3>3. Base' = Base
      BY <2>1 DEF Base
    <3>4. QED
      BY <1>2, <1>3, <1>4, <1>8, <2>1, <3>1, <3>2, <3>3, CountAgain
  <2>4. QED
    BY <1>1, <1>2, <1>8, <2>1, <2>3, Quiet
<1>9. CASE /\ ~setup.pipelined /\ pos < Chunks /\ pos' = pos + 1 /\ dec' = Extend(dec, ChunkLen(pos + 1))
           /\ pc' = "decode" /\ UNCHANGED pipeVars
  <2>1. pos + 1 \in 1..Chunks /\ pos \in Nat
    BY <1>3, <1>6, <1>9
  <2>2. ChunkLen(pos + 1) \in Nat /\ Given(Own(idx), pos) \in Nat
        /\ Given(Own(idx), pos + 1) = Given(Own(idx), pos) + ChunkLen(pos + 1)
    BY <1>6, <2>1
  <2>3. /\ DecOK(Own(idx), dec') /\ dec'.next = dec.next
        /\ \A m \in Nat : Took(Own(idx), dec, m) => Took(Own(idx), dec', m + ChunkLen(pos + 1))
    BY <1>6, <1>9, <2>2, ExtendOK
  <2>4. Took(Own(idx), dec', Given(Own(idx), pos'))
    BY <1>5, <1>9, <2>2, <2>3
  <2>5. wpc' = wpc /\ sent' = sent
    BY <1>9 DEF pipeVars
  <2>6. DecInv'
    <3>1. Written(Own(idx), dec'.next, dev'[idx])
      BY <1>1, <1>2, <1>3, <2>3 DEF DecInv
    <3>2. wpc' # "ended" => sent' <= Chunks
      BY <1>1, <2>5 DEF DecInv
    <3>3. QED
      BY <1>1, <1>2, <1>9, <2>3, <2>5, <3>1, <3>2, MoveDec
  <2>7. CountInv'
    BY <1>2, <1>3, <1>6, <1>9, <2>1, <2>4, CountAgain
  <2>8. QED
    BY <1>1, <1>2, <2>6, <2>7, SameDev
<1>10. CASE ~setup.pipelined /\ pos = Chunks /\ pos' = pos /\ dec' = dec /\ pc' = "finish" /\ UNCHANGED pipeVars
  <2>1. wpc' = wpc /\ sent' = sent
    BY <1>10 DEF pipeVars
  <2>2. CountInv'
    BY <1>2, <1>3, <1>5, <1>10, CountAgain
  <2>3. QED
    BY <1>1, <1>2, <1>10, <2>1, <2>2, Quiet
<1>11. QED
  BY <1>7, <1>8, <1>9, <1>10 DEF Download, Leave, Goto, stream

LEMMA DecodeCopy == ASSUME ExportInv, Decode PROVE DevInv' /\ DecInv' /\ CountInv'
<1>1. DevInv /\ DecInv /\ UseInv /\ CountInv
  BY DEF ExportInv, CopyInv
<1>2. pc = "decode" /\ UNCHANGED <<pipeVars, setup, idx, pos, orphan, fd, copied>>
  BY DEF Decode, volumes
<1>3. ~setup.pipelined /\ wpc' = wpc /\ sent' = sent
  BY <1>1, <1>2 DEF UseInv, pipeVars
<1>4. fd # 0 /\ pos \in 0..Chunks /\ Took(Own(idx), dec, Given(Own(idx), pos))
  BY <1>1, <1>2, <1>3 DEF CountInv, Receiving
<1>5. CASE /\ CanDrain(Source(idx), dec) /\ ~Malformed(Source(idx), dec) /\ WriteItem(Source(idx), dec)
           /\ dec' = Drained(Source(idx), dec) /\ pc' = pc
  <2>1. /\ DevInv' /\ DecOK(Own(idx), dec') /\ Written(Own(idx), dec'.next, dev'[idx])
        /\ \A m \in Nat : Took(Own(idx), dec, m) => Took(Own(idx), dec', m)
    BY <1>1, <1>2, <1>4, <1>5, DrainStep
  <2>2. wpc' # "ended" => sent' <= Chunks
    BY <1>1, <1>3 DEF DecInv
  <2>3. DecInv'
    BY <1>1, <1>2, <1>3, <1>5, <2>1, <2>2, MoveDec
  <2>4. Took(Own(idx), dec', Given(Own(idx), pos))
    <3>1. pos \in Nat /\ Given(Own(idx), pos) \in Nat
      BY <1>1, <1>4, Here
    <3>2. QED
      BY <1>4, <2>1, <3>1
  <2>5. CountInv'
    BY <1>2, <1>3, <1>4, <1>5, <2>4, CountAgain
  <2>6. QED
    BY <2>1, <2>3, <2>5
<1>6. CASE pc' = "abort" /\ UNCHANGED <<dev, dec>>
  BY <1>1, <1>2, <1>3, <1>6, Quiet DEF Receiving
<1>7. CASE pc' = "stream" /\ UNCHANGED <<dev, dec>>
  <2>1. CountInv'
    BY <1>2, <1>3, <1>4, <1>7, CountAgain
  <2>2. QED
    BY <1>1, <1>2, <1>3, <1>7, <2>1, Quiet
<1>8. QED
  BY <1>5, <1>6, <1>7 DEF Decode, Leave, Goto

\* finish() with success: the whole of the stream was taken, and all of it is on the volume.
LEMMA FinishCopy == ASSUME ExportInv, Finish PROVE DevInv' /\ DecInv' /\ CountInv'
<1>1. PipeInv /\ DevInv /\ DecInv /\ UseInv /\ CountInv
  BY DEF ExportInv, CopyInv
<1>2. /\ pc = "finish" /\ ppc = "out" /\ pc' = "abort"
      /\ UNCHANGED <<pipeVars, setup, idx, dec, orphan, fd, dev>>
  BY DEF Finish, Leave, Goto, stream
<1>3. wpc' = wpc /\ sent' = sent
  BY <1>2 DEF pipeVars
<1>4. DecInv' /\ CountInv'
  BY <1>1, <1>2, <1>3, AsideDec DEF CountInv, Receiving
<1>5. CASE copied' = copied
  BY <1>1, <1>2, <1>4, <1>5, SameDev
<1>6. CASE copied' = copied \cup {idx} /\ Ends(dec) /\ (setup.pipelined => raised = "none")
  <2> DEFINE s == Own(idx)
  <2>1. fd # 0 /\ pos = Chunks
    BY <1>1, <1>2 DEF CountInv, Receiving
  <2>2. idx \in Disks /\ IsStream(s) /\ DecOK(s, dec) /\ Given(s, Chunks) = Units(s)
    BY <1>1, <2>1, Here
  <2>3. Took(s, dec, Units(s))
    <3>1. CASE ~setup.pipelined
      BY <1>1, <1>2, <2>1, <2>2, <3>1 DEF CountInv, Receiving
    <3>2. CASE setup.pipelined
      <4>1. done /\ error = "none"
        BY <1>1, <1>2, <1>6, <3>2 DEF UseInv
      <4>2. fed = sent /\ wpc = "ended"
        BY <1>1, <4>1 DEF PipeInv, FinishedIsComplete
      <4>3. Base = sent
        BY <1>1, <4>2 DEF PipeInv, HandOK, Base
      <4>4. sent = pos /\ Took(s, dec, Given(s, Base))
        BY <1>1, <1>2, <3>2, <4>1 DEF CountInv, Receiving
      <4>5. QED
        BY <2>1, <2>2, <4>3, <4>4
    <3>3. QED
      BY <3>1, <3>2
  <2>4. WellFormed(s) /\ \A i \in Body(s) : i \in 1..(dec.next - 1)
    BY <1>6, <2>2, <2>3, FinishMeansIntact
  <2>5. Sound(s, dev[idx]) /\ Written(s, dec.next, dev[idx])
    BY <1>1, <2>1, <2>2 DEF DevInv, DecInv
  <2>6. dev[idx] = Image(s)
    BY <2>4, <2>5, WholeDisk
  <2>7. Disks' = Disks /\ \A d : Own(d)' = Own(d)
    BY <1>2, SameSetup DEF Own
  <2>8. \A d \in copied' : WellFormed(Own(d)') /\ dev'[d] = Image(Own(d)')
    BY <1>1, <1>2, <1>6, <2>4, <2>6, <2>7 DEF DevInv
  <2>9. /\ setup' \in Setups /\ copied' \subseteq Disks'
        /\ DOMAIN dev' = Disks' /\ \A d \in Disks' : Sound(Own(d)', dev'[d])
    BY <1>1, <1>2, <1>6, <2>2, <2>7 DEF DevInv
  <2>10. DevInv'
    BY <2>8, <2>9 DEF DevInv
  <2>11. QED
    BY <1>4, <2>10
<1>7. QED
  BY <1>5, <1>6 DEF Finish

LEMMA CloseCopy == ASSUME ExportInv, Close PROVE DevInv' /\ DecInv' /\ CountInv'
<1>1. DevInv /\ DecInv /\ UseInv /\ WriterInv
  BY DEF ExportInv, CopyInv
<1>2. /\ pc = "close" /\ fd' = 0 /\ UNCHANGED <<pipeVars, setup, dec, orphan, dev, copied>>
      /\ pc' \in {"disk", "attempt", "exit"}
      /\ idx' = idx \/ outcome = "ok"
  BY DEF Close, Goto, Exit, stream
<1>3. wpc' = wpc /\ sent' = sent
  BY <1>2 DEF pipeVars
<1>4. CanMatch /\ setup \in Setups
  BY <1>1, <1>2 DEF WriterInv, Attempting, DecInv, DevInv
<1>5. wpc # "ended" => idx' = idx
  BY <1>1, <1>2 DEF UseInv, Ending
<1>6. wpc # "ended" => /\ idx' = idx /\ Chunks' = Chunks /\ Own(idx)' = Own(idx)
                       /\ idx \in Disks /\ DecOK(Own(idx), dec) /\ sent <= Chunks
  <2>1. SUFFICES ASSUME wpc # "ended"
                 PROVE  /\ idx' = idx /\ Chunks' = Chunks /\ Own(idx)' = Own(idx)
                        /\ idx \in Disks /\ DecOK(Own(idx), dec) /\ sent <= Chunks
    OBVIOUS
  <2>2. idx' = idx
    BY <1>5, <2>1
  <2>3. Chunks' = Chunks /\ Own(idx)' = Own(idx)
    BY <1>2, <2>2, SameChunks DEF Own
  <2>4. QED
    BY <1>1, <2>1, <2>2, <2>3 DEF DecInv
<1>7. (CanMatch' <=> CanMatch) /\ Disks' = Disks /\ Own(1)' = Own(1) /\ Nobody' = Nobody
  BY <1>2, SameSetup DEF Own, Nobody, Fresh
<1>8. DecInv'
  <2>1. wpc' # "ended" => idx' \in Disks' /\ CanMatch' /\ DecOK(Own(idx)', dec') /\ sent' <= Chunks'
    BY <1>2, <1>3, <1>4, <1>6, <1>7
  <2>2. orphan' # Nobody' => setup'.n = 1 /\ CanMatch' /\ orphan' = [dec |-> orphan'.dec, disk |-> 1] /\ DecOK(Own(1)', orphan'.dec)
    BY <1>1, <1>2, <1>7 DEF DecInv
  <2>3. CanMatch' /\ fd' = 0
    BY <1>2, <1>4, <1>7
  <2>4. QED
    BY <2>1, <2>2, <2>3 DEF DecInv
<1>9. QED
  BY <1>1, <1>2, <1>8, SameDev DEF CountInv, Receiving

LEMMA CallCopy == ASSUME ExportInv, CallSteps PROVE DevInv' /\ DecInv' /\ CountInv'
<1>1. DevInv /\ DecInv /\ UseInv /\ CountInv
  BY DEF ExportInv, CopyInv
<1>2. UNCHANGED <<setup, pc, idx, pos, dec, orphan, fd, dev, copied>>
  BY DEF CallSteps, loop, stream, volumes
<1>3. UNCHANGED <<fed, hand, wpc>> /\ Base' = Base
  <2>1. UNCHANGED worker
    BY DEF CallSteps, Put, PutTimesOut, PutEof, Joined, AbortFlag, AbortEmpty, AbortJoin
  <2>2. QED
    BY <2>1 DEF worker, Base
<1>4. pc \in {"disk", "attempt"} => CanMatch
  BY <1>1 DEF DecInv
<1>5. CASE Put
  <2>1. pc = "feed" /\ setup.pipelined /\ ppc = "put" /\ ppc' = "out" /\ sent' = sent + 1 /\ UNCHANGED error
    BY <1>1, <1>5 DEF Put, UseInv
  <2>2. /\ fd # 0 /\ pos \in 0..Chunks /\ sent + 1 = pos
        /\ error = "none" => Took(Own(idx), dec, Given(Own(idx), Base))
    BY <1>1, <2>1 DEF CountInv, Receiving
  <2>3. Chunks \in Nat
    BY <1>1, <2>2, Here
  <2>4. CountInv'
    BY <1>2, <1>3, <2>1, <2>2, <2>3, CountAgain
  <2>5. sent' <= Chunks
    BY <2>1, <2>2, <2>3
  <2>6. QED
    BY <1>1, <1>2, <1>3, <1>4, <2>4, <2>5, Quiet
<1>6. CASE PutTimesOut \/ PutEof \/ Joined \/ AbortFlag \/ AbortEmpty \/ \E timeout \in BOOLEAN : AbortJoin(timeout)
  <2>1. sent' = sent
    BY <1>6 DEF PutTimesOut, PutEof, Joined, AbortFlag, AbortEmpty, AbortJoin
  <2>2. CountInv'
    <3>1. SUFFICES ASSUME pc \in Receiving PROVE CountInv'
      BY <1>2 DEF CountInv
    <3>2. fd # 0 /\ pos \in 0..Chunks /\ (pc = "finish" => pos = Chunks) /\ Chunks \in Nat
      BY <1>1, <3>1, Here DEF CountInv
    <3>3. CASE ~setup.pipelined
      BY <1>1, <1>2, <3>1, <3>2, <3>3, CountAgain DEF CountInv
    <3>4. CASE setup.pipelined
      <4>1. ppc \notin {"flag", "empty", "leave"}
        BY <1>1, <3>1 DEF UseInv, Receiving
      <4>2. \/ PutTimesOut \/ PutEof \/ Joined
        BY <1>6, <4>1 DEF AbortFlag, AbortEmpty, AbortJoin
      <4>3. UNCHANGED error /\ ppc' # "put"
        BY <4>2 DEF PutTimesOut, PutEof, Joined, ReturnCall
      <4>4. sent <= pos /\ (pc # "feed" \/ raised' = "none" => sent = pos)
        <5>1. CASE PutTimesOut
          <6>1. pc = "feed" /\ ppc = "put" /\ raised' # "none"
            BY <1>1, <5>1 DEF PutTimesOut, ReturnCall, UseInv, Surfaces
          <6>2. sent + 1 = pos /\ pos \in Nat
            BY <1>1, <3>1, <3>2, <3>4, <6>1 DEF CountInv
          <6>3. sent \in Nat
            BY DEF ExportInv, PipeInv, PipeTypeOK
          <6>4. QED
            BY <6>1, <6>2, <6>3
        <5>2. CASE PutEof \/ Joined
          <6>1. pc = "finish" /\ ppc # "put"
            BY <1>1, <5>2 DEF PutEof, Joined, UseInv
          <6>2. QED
            BY <1>1, <3>1, <3>4, <6>1 DEF CountInv
        <5>3. QED
          BY <4>2, <5>1, <5>2
      <4>5. error = "none" => Took(Own(idx), dec, Given(Own(idx), Base))
        BY <1>1, <3>1, <3>4 DEF CountInv
      <4>6. QED
        BY <1>2, <1>3, <2>1, <3>2, <3>4, <4>3, <4>4, <4>5, CountAgain
    <3>5. QED
      BY <3>3, <3>4
  <2>3. QED
    BY <1>1, <1>2, <1>3, <1>4, <2>1, <2>2, Quiet
<1>7. QED
  BY <1>5, <1>6 DEF CallSteps

\* The worker: what it takes is the next chunk, and what it decodes it has taken.
LEMMA WorkerCount ==
  ASSUME CountInv, setup.pipelined, UNCHANGED <<setup, idx, pc, pos, fd, sent, ppc, raised>>,
         pc \in Receiving /\ error' = "none" => Took(Own(idx), dec', Given(Own(idx), Base'))
  PROVE  CountInv'
<1>1. SUFFICES ASSUME pc \in Receiving PROVE CountInv'
  BY DEF CountInv
<1>2. /\ fd # 0 /\ pos \in 0..Chunks /\ (pc = "finish" => pos = Chunks)
      /\ IF ppc = "put" THEN sent + 1 = pos ELSE sent <= pos /\ (pc # "feed" \/ raised = "none" => sent = pos)
  BY <1>1 DEF CountInv
<1>3. QED
  BY <1>1, <1>2, CountAgain

LEMMA GetsCopy == ASSUME ExportInv, WorkerGets PROVE DevInv' /\ DecInv' /\ CountInv'
<1>1. PipeInv /\ DevInv /\ DecInv /\ UseInv /\ CountInv
  BY DEF ExportInv, CopyInv
<1>2. /\ Get /\ dec' = IF hand' = EOF THEN dec ELSE Extend(dec, ChunkLen(hand'))
      /\ UNCHANGED <<setup, idx, pc, pos, orphan, fd, dev, copied>>
  BY DEF WorkerGets, loop, volumes
<1>3. /\ wpc = "get" /\ hand = 0 /\ fed' = fed /\ UNCHANGED <<sent, ppc, raised, error>>
      /\ wpc' \in {"ended", "feed"}
  BY <1>1, <1>2 DEF Get, producer, PipeInv, HandOK
<1>4. pc \in {"disk", "attempt"} => CanMatch
  BY <1>1 DEF DecInv
<1>5. setup.pipelined
  BY <1>1, <1>3 DEF UseInv
<1>6. CASE hand' = EOF
  <2>1. Base' = Base /\ dec' = dec
    BY <1>2, <1>3, <1>6 DEF Base
  <2>2. pc \in Receiving /\ error' = "none" => Took(Own(idx), dec', Given(Own(idx), Base'))
    BY <1>1, <1>3, <1>5, <2>1 DEF CountInv
  <2>3. CountInv'
    BY <1>1, <1>2, <1>3, <1>5, <2>2, WorkerCount
  <2>4. QED
    BY <1>1, <1>2, <1>3, <1>4, <2>1, <2>3, Quiet
<1>7. CASE hand' # EOF
  <2>1. PipeInv'
    BY <1>1, <1>2, GetStep
  <2>2. hand' = fed + 1 /\ hand' <= sent /\ fed \in Nat /\ sent \in Nat
    BY <1>1, <1>3, <1>7, <2>1 DEF PipeInv, HandOK, PipeTypeOK
  <2>3. Base = fed /\ Base' = hand'
    BY <1>3, <1>7 DEF Base
  <2>4. /\ DecOK(Own(idx), dec) /\ IsStream(Own(idx)) /\ Chunks \in Nat
        /\ \A n \in Nat : Given(Own(idx), n) \in Nat
        /\ \A k \in 1..Chunks : ChunkLen(k) \in Nat /\ Given(Own(idx), k) = Given(Own(idx), k - 1) + ChunkLen(k)
    BY <1>1, <1>3, Here
  <2>5. sent <= Chunks
    BY <1>1, <1>3 DEF DecInv
  <2>6. hand' \in 1..Chunks /\ hand' - 1 = fed
    BY <2>2, <2>4, <2>5
  <2>7. ChunkLen(hand') \in Nat /\ Given(Own(idx), fed) \in Nat
        /\ Given(Own(idx), hand') = Given(Own(idx), fed) + ChunkLen(hand')
    BY <2>2, <2>4, <2>6
  <2>8. /\ DecOK(Own(idx), dec') /\ dec'.next = dec.next
        /\ \A m \in Nat : Took(Own(idx), dec, m) => Took(Own(idx), dec', m + ChunkLen(hand'))
    BY <1>2, <1>7, <2>4, <2>7, ExtendOK
  <2>9. pc \in Receiving /\ error' = "none" => Took(Own(idx), dec', Given(Own(idx), Base'))
    <3>1. SUFFICES ASSUME pc \in Receiving, error = "none" PROVE Took(Own(idx), dec', Given(Own(idx), hand'))
      BY <1>3, <2>3
    <3>2. Took(Own(idx), dec, Given(Own(idx), fed))
      BY <1>1, <1>5, <2>3, <3>1 DEF CountInv
    <3>3. QED
      BY <2>7, <2>8, <3>2
  <2>10. CountInv'
    BY <1>1, <1>2, <1>3, <1>5, <2>9, WorkerCount
  <2>11. fd # 0 => Written(Own(idx), dec'.next, dev'[idx])
    BY <1>1, <1>2, <2>8 DEF DecInv
  <2>12. DecInv'
    BY <1>1, <1>2, <1>3, <1>4, <2>5, <2>8, <2>11, MoveDec
  <2>13. QED
    BY <1>1, <1>2, <2>10, <2>12, SameDev
<1>8. QED
  BY <1>6, <1>7

LEMMA DecodesCopy == ASSUME ExportInv, WorkerDecodes PROVE DevInv' /\ DecInv' /\ CountInv'
<1>1. PipeInv /\ DevInv /\ DecInv /\ UseInv /\ CountInv
  BY DEF ExportInv, CopyInv
<1>2. wpc = "feed" /\ UNCHANGED <<setup, idx, pc, pos, orphan, fd, copied>>
  BY DEF WorkerDecodes, loop, volumes
<1>3. setup.pipelined /\ (pc \in {"disk", "attempt"} => CanMatch) /\ hand # 0
  BY <1>1, <1>2 DEF UseInv, DecInv, PipeInv, HandOK
<1>4. CASE /\ CanDrain(Source(idx), dec) /\ ~Malformed(Source(idx), dec) /\ fd # 0 /\ WriteItem(Source(idx), dec)
           /\ dec' = Drained(Source(idx), dec) /\ UNCHANGED pipeVars
  <2>1. /\ DevInv' /\ DecOK(Own(idx), dec') /\ Written(Own(idx), dec'.next, dev'[idx])
        /\ \A m \in Nat : Took(Own(idx), dec, m) => Took(Own(idx), dec', m)
    BY <1>1, <1>2, <1>4, DrainStep
  <2>2. UNCHANGED <<wpc, sent, ppc, raised, error, fed, hand>>
    BY <1>4 DEF pipeVars
  <2>3. Base' = Base /\ Base \in Nat /\ sent <= Chunks
    BY <1>1, <1>2, <2>2 DEF Base, PipeInv, PipeTypeOK, DecInv
  <2>4. DecInv'
    BY <1>1, <1>2, <1>3, <1>4, <2>1, <2>2, <2>3, MoveDec
  <2>5. pc \in Receiving /\ error' = "none" => Took(Own(idx), dec', Given(Own(idx), Base'))
    <3>1. SUFFICES ASSUME pc \in Receiving, error = "none" PROVE Took(Own(idx), dec', Given(Own(idx), Base))
      BY <2>2, <2>3
    <3>2. Took(Own(idx), dec, Given(Own(idx), Base))
      BY <1>1, <1>3, <3>1 DEF CountInv
    <3>3. Given(Own(idx), Base) \in Nat
      BY <1>1, <1>2, <2>3, Here
    <3>4. QED
      BY <2>1, <3>2, <3>3
  <2>6. CountInv'
    BY <1>1, <1>2, <1>3, <2>2, <2>5, WorkerCount
  <2>7. QED
    BY <2>1, <2>4, <2>6
<1>5. CASE DecodeFails /\ UNCHANGED <<dev, dec>>
  <2>1. UNCHANGED <<sent, ppc, raised>> /\ error' = "decode"
    BY <1>5 DEF DecodeFails, producer
  <2>2. CountInv'
    BY <1>1, <1>2, <1>3, <2>1, WorkerCount
  <2>3. QED
    BY <1>1, <1>2, <1>3, <1>5, <2>1, <2>2, Quiet
<1>6. CASE Decoded /\ UNCHANGED <<dev, dec>>
  <2>1. UNCHANGED <<sent, ppc, raised, error>> /\ Base' = Base
    BY <1>3, <1>6 DEF Decoded, producer, Base
  <2>2. pc \in Receiving /\ error' = "none" => Took(Own(idx), dec', Given(Own(idx), Base'))
    BY <1>1, <1>3, <1>6, <2>1 DEF CountInv
  <2>3. CountInv'
    BY <1>1, <1>2, <1>3, <2>1, <2>2, WorkerCount
  <2>4. QED
    BY <1>1, <1>2, <1>3, <1>6, <2>1, <2>3, Quiet
<1>7. QED
  BY <1>4, <1>5, <1>6 DEF WorkerDecodes

LEMMA MovesCopy == ASSUME ExportInv, WorkerMoves PROVE DevInv' /\ DecInv' /\ CountInv'
<1>1. PipeInv /\ DevInv /\ DecInv /\ UseInv /\ CountInv
  BY DEF ExportInv, CopyInv
<1>2. UNCHANGED <<setup, idx, pc, pos, dec, orphan, fd, dev, copied>>
  BY DEF WorkerMoves, loop, stream, volumes
<1>3. wpc # "ended" /\ UNCHANGED <<sent, ppc, raised, error>>
  BY DEF WorkerMoves, WorkerLoop, WorkerFails, WorkerStops, producer
<1>4. setup.pipelined /\ (pc \in {"disk", "attempt"} => CanMatch)
  BY <1>1, <1>3 DEF UseInv, DecInv
<1>5. error' = "none" => Base' = Base
  <2>1. CASE WorkerLoop \/ WorkerFails
    BY <2>1 DEF WorkerLoop, WorkerFails, Base
  <2>2. CASE WorkerStops
    BY <1>1, <1>3, <2>2 DEF WorkerStops, PipeInv, EndedForAReason
  <2>3. QED
    BY <2>1, <2>2 DEF WorkerMoves
<1>6. pc \in Receiving /\ error' = "none" => Took(Own(idx), dec', Given(Own(idx), Base'))
  BY <1>1, <1>2, <1>3, <1>4, <1>5 DEF CountInv
<1>7. CountInv'
  BY <1>1, <1>2, <1>3, <1>4, <1>6, WorkerCount
<1>8. QED
  BY <1>1, <1>2, <1>3, <1>4, <1>7, Quiet

\* A worker that was left behind writes what belongs on its disk anyhow.
LEMMA OrphanCopy == ASSUME ExportInv, OrphanDecodes PROVE DevInv' /\ DecInv' /\ CountInv'
<1>1. DevInv /\ DecInv /\ CountInv
  BY DEF ExportInv, CopyInv
<1>2. orphan # Nobody /\ UNCHANGED <<pipeVars, setup, pc, idx, pos, dec, fd, copied>>
  BY DEF OrphanDecodes, loop, stream
<1>3. setup.n = 1 /\ CanMatch /\ orphan = [dec |-> orphan.dec, disk |-> 1] /\ DecOK(Own(1), orphan.dec) /\ setup \in Setups
  BY <1>1, <1>2 DEF DecInv, DevInv
<1>4. CountInv'
  BY <1>1, <1>2, SameCount
<1>5. 1 \in Disks /\ IsStream(Own(1)) /\ Source(orphan.disk) = Own(1)
  <2>1. 1 \in Disks
    BY <1>3 DEF Disks
  <2>2. QED
    BY <1>3, <2>1, OwnIs
<1>6. wpc' = wpc /\ sent' = sent
  BY <1>2 DEF pipeVars
<1>7. /\ CanMatch' <=> CanMatch
      /\ Disks' = Disks /\ Chunks' = Chunks /\ Own(idx)' = Own(idx) /\ Own(1)' = Own(1) /\ Nobody' = Nobody
  BY <1>2, SameSetup, SameChunks DEF Own, Nobody, Fresh
<1>8. ASSUME DevInv', fd # 0 => Written(Own(idx), dec.next, dev'[idx]),
             orphan' # Nobody => orphan' = [dec |-> orphan'.dec, disk |-> 1] /\ DecOK(Own(1), orphan'.dec)
      PROVE  DevInv' /\ DecInv' /\ CountInv'
  <2>1. fd' # 0 \/ wpc' # "ended" => idx' \in Disks' /\ CanMatch' /\ DecOK(Own(idx)', dec')
    BY <1>1, <1>2, <1>6, <1>7 DEF DecInv
  <2>2. fd' # 0 => Written(Own(idx)', dec'.next, dev'[idx'])
    BY <1>2, <1>7, <1>8
  <2>3. orphan' # Nobody' => setup'.n = 1 /\ CanMatch' /\ orphan' = [dec |-> orphan'.dec, disk |-> 1] /\ DecOK(Own(1)', orphan'.dec)
    BY <1>2, <1>3, <1>7, <1>8
  <2>4. CanMatch' /\ fd' \in {0, idx'} /\ (wpc' # "ended" => sent' <= Chunks')
    BY <1>1, <1>2, <1>3, <1>6, <1>7 DEF DecInv
  <2>5. DecInv'
    BY <2>1, <2>2, <2>3, <2>4 DEF DecInv
  <2>6. QED
    BY <1>4, <1>8, <2>5
<1>9. CASE orphan' = Nobody /\ UNCHANGED dev
  <2>1. DevInv' /\ (fd # 0 => Written(Own(idx), dec.next, dev'[idx]))
    BY <1>1, <1>2, <1>9, SameDev DEF DecInv
  <2>2. QED
    BY <1>8, <1>9, <2>1
<1>10. CASE /\ CanDrain(Own(1), orphan.dec) /\ ~Malformed(Own(1), orphan.dec) /\ fd # 0
            /\ WriteItem(Own(1), orphan.dec) /\ orphan' = [orphan EXCEPT !.dec = Drained(Own(1), @)]
  <2>1. fd = 1 /\ idx = 1 /\ Written(Own(1), dec.next, dev[1]) /\ DecOK(Own(1), dec)
    BY <1>1, <1>3, <1>10 DEF DecInv, Disks
  <2>2. orphan.dec.next \in Body(Own(1)) /\ DecOK(Own(1), Drained(Own(1), orphan.dec))
    BY <1>3, <1>5, <1>10, DrainedOK
  <2>3. dev' = [dev EXCEPT ![fd] = Emit(Own(1), Own(1).items[orphan.dec.next], @)]
    BY <1>10 DEF WriteItem
  <2>4. dec.next \in Nat
    <3>1. Len(Own(1).items) \in Nat
      BY <1>5, OffsetsSum
    <3>2. QED
      BY <2>1, <3>1 DEF DecOK
  <2>5. DevInv' /\ Written(Own(1), dec.next, dev'[1])
    BY <1>1, <1>2, <1>5, <2>1, <2>2, <2>3, <2>4, WriteDev
  <2>6. orphan' # Nobody => orphan' = [dec |-> orphan'.dec, disk |-> 1] /\ DecOK(Own(1), orphan'.dec)
    <3>1. orphan' = [dec |-> Drained(Own(1), orphan.dec), disk |-> 1]
      BY <1>3, <1>10
    <3>2. QED
      BY <2>2, <3>1
  <2>7. QED
    BY <1>8, <2>1, <2>5, <2>6
<1>11. QED
  BY <1>5, <1>9, <1>10 DEF OrphanDecodes

LEMMA AroundCopy ==
  ASSUME ExportInv, CancelRunning \/ GuestStops \/ TaskRuns \/ UserSwitches \/ LeaseTurns \/ UNCHANGED vars
  PROVE  DevInv' /\ DecInv' /\ CountInv'
<1>1. DevInv /\ DecInv /\ CountInv
  BY DEF ExportInv, CopyInv
<1>2. UNCHANGED <<pipeVars, setup, pc, idx, pos, dec, orphan, fd, dev, copied>>
  BY DEF CancelRunning, GuestStops, TaskRuns, UserSwitches, LeaseTurns, vars, loop, stream, volumes
<1>3. CountInv' /\ wpc' = wpc /\ sent' = sent
  BY <1>1, <1>2, SameCount DEF pipeVars
<1>4. pc \in {"disk", "attempt"} => CanMatch
  BY <1>1 DEF DecInv
<1>5. QED
  BY <1>1, <1>2, <1>3, <1>4, Quiet

LEMMA NextCopy == ASSUME HangsAlone, ExportInv, [Next]_vars PROVE ExportInv'
<1>1. PipeInv' /\ WriterInv' /\ ResultInv' /\ UseInv'
  BY NextPipeStep, PipeNextInv, NextWriter, NextResult, NextUse DEF ExportInv, CopyInv
<1>2. DevInv' /\ DecInv' /\ CountInv'
  <2>1. CASE TaskStep
    BY <2>1, OutsideCopy, BeginCopy, DownloadCopy, FeedCopy, DecodeCopy, FinishCopy, CloseCopy, CallCopy
       DEF TaskStep, Outside
  <2>2. CASE WorkerSteps
    BY <2>2, GetsCopy, DecodesCopy, MovesCopy DEF WorkerSteps
  <2>3. QED
    BY <2>1, <2>2, OrphanCopy, AroundCopy DEF Next
<1>3. QED
  BY <1>1, <1>2 DEF ExportInv, CopyInv

LEMMA InitCopy == ASSUME Init PROVE ExportInv
<1>1. PipeInv /\ ResultInv
  BY InitPipe, PipeInitInv, InitResult
<1>2. WriterInv
  BY DEF Init, PipeInit, WriterInv, Attempting
<1>3. /\ setup \in Setups /\ pc = "check" /\ idx = 1 /\ orphan = Nobody /\ fd = 0 /\ copied = {}
      /\ dev = [d \in Disks |-> Blank(setup.streams[d])]
      /\ wpc = "ended" /\ error = "none" /\ ppc = "out"
  BY DEF Init, PipeInit
<1>4. DevInv
  BY <1>3, BlankSound DEF DevInv, Own
<1>5. DecInv
  BY <1>3 DEF DecInv
<1>6. UseInv /\ CountInv
  BY <1>3 DEF UseInv, CountInv, Receiving, Ending
<1>7. QED
  BY <1>1, <1>2, <1>4, <1>5, <1>6 DEF ExportInv, CopyInv

\* A disk that is COPIED is what its own stream describes, and that stream was intact: for every lease that can be
\* trusted, any streams, chunks, depth of the queue, attempts, errors and cancellation, with the decoder on either
\* thread (match_disk_urls, StreamOptimizedDecoder, PipelinedDecoder, _export_disk).  A worker that hangs may only
\* be one of an export of a single disk.
THEOREM CopiedDisksAreWhole == ASSUME HangsAlone PROVE Spec => []CopiedIsComplete
<1>1. ExportInv => CopiedIsComplete
  BY DEF ExportInv, CopyInv, DevInv, CopiedIsComplete, Own
<1>2. Init => ExportInv
  BY InitCopy
<1>3. ExportInv /\ [Next]_vars => ExportInv'
  BY NextCopy
<1>4. QED
  BY <1>1, <1>2, <1>3, PTL DEF Spec
=======================================================================================
