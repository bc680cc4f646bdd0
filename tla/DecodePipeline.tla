---------------------------- MODULE DecodePipeline ----------------------------
(***************************************************************************)
(* disk/pipeline.py: the decoder on a thread of its own behind a bounded    *)
(* queue.  The producer (the job's thread, which downloads) calls feed for  *)
(* every chunk, then finish, and abort when it gives up; the worker takes   *)
(* the chunks off the queue and decodes them.                               *)
(*                                                                          *)
(* Chunks are numbered in the order of the calls of feed.  What becomes of  *)
(* a chunk in the decoder is decided by whoever uses this module; here any  *)
(* chunk may be decoded or refused.                                         *)
(***************************************************************************)
EXTENDS Naturals, Sequences

CONSTANT
  Depth  \* nfc_pipeline_depth

ASSUME DepthAssumption == Depth \in Nat \ {0}

EOF == 0

VARIABLES
  queue,    \* _q: numbers of chunks, or EOF
  sent,     \* chunks put on the queue
  fed,      \* the last chunk that was decoded
  hand,     \* the chunk the worker has in hand
  wpc,      \* where the worker is
  error,    \* _error: "none", "decode" or "aborted"
  failed,   \* the event _failed
  stopped,  \* the event _stop
  ppc,      \* where the producer is inside a call, "out" between calls
  done,     \* _done
  raised    \* what the last call of feed or finish raised

pipeVars == <<queue, sent, fed, hand, wpc, error, failed, stopped, ppc, done, raised>>
worker   == <<fed, hand, wpc>>
producer == <<sent, ppc, done, raised>>

WorkerPC   == {"loop", "get", "feed", "failed", "stop", "ended"}
ProducerPC == {"out", "put", "eof", "join", "flag", "empty", "leave"}
Errors     == {"none", "decode", "aborted"}

\* _raise_if_failed raises.
Surfaces == failed /\ error # "none"

\* The call ends, with the error or without.
ReturnCall == ppc' = "out" /\ raised' = IF Surfaces THEN error ELSE "none"

-----------------------------------------------------------------------------
(* The producer                                                             *)

\* A new pipeline; the thread starts.
Create ==
  /\ ppc = "out"
  /\ queue' = <<>> /\ sent' = 0 /\ fed' = 0 /\ hand' = 0 /\ wpc' = "loop"
  /\ error' = "none" /\ failed' = FALSE /\ stopped' = FALSE /\ done' = FALSE /\ raised' = "none"
  /\ UNCHANGED ppc

\* The head of feed and of finish; neither is called once the pipeline is done.
Call(l) ==
  /\ ppc = "out" /\ ~done
  /\ IF Surfaces THEN ReturnCall ELSE ppc' = l /\ raised' = "none"
  /\ UNCHANGED <<worker, queue, sent, error, failed, stopped, done>>

CallFeed   == Call("put")
CallFinish == Call("eof")

Put ==
  /\ ppc = "put" /\ Len(queue) < Depth
  /\ queue' = Append(queue, sent + 1) /\ sent' = sent + 1
  /\ ppc' = "out" /\ UNCHANGED raised
  /\ UNCHANGED <<worker, error, failed, stopped, done>>

\* The queue stays full for half a second: feed looks whether the worker has failed.
PutTimesOut ==
  /\ ppc = "put" /\ Len(queue) >= Depth /\ Surfaces
  /\ ReturnCall
  /\ UNCHANGED <<worker, queue, sent, error, failed, stopped, done>>

PutEof ==
  /\ ppc = "eof" /\ Len(queue) < Depth
  /\ queue' = Append(queue, EOF) /\ ppc' = "join"
  /\ UNCHANGED <<worker, sent, raised, error, failed, stopped, done>>

\* finish has joined the worker.
Joined ==
  /\ ppc = "join" /\ wpc = "ended"
  /\ done' = TRUE /\ ReturnCall
  /\ UNCHANGED <<worker, queue, sent, error, failed, stopped>>

\* abort does nothing after finish or a first abort; else the stop event is set first ...
CallAbort ==
  /\ ppc = "out" /\ ~done
  /\ stopped' = TRUE /\ ppc' = "flag"
  /\ UNCHANGED <<worker, queue, sent, raised, error, failed, done>>

\* ... then the error is set, unless the worker has set one ...
AbortFlag ==
  /\ ppc = "flag" /\ ppc' = "empty"
  /\ IF error = "none" THEN error' = "aborted" /\ failed' = TRUE ELSE UNCHANGED <<error, failed>>
  /\ UNCHANGED <<worker, queue, sent, raised, stopped, done>>

\* ... what is buffered is discarded, and a worker that waits for a chunk is woken ...
AbortEmpty ==
  /\ ppc = "empty" /\ ppc' = "leave"
  /\ queue' = <<EOF>>
  /\ UNCHANGED <<worker, sent, raised, error, failed, stopped, done>>

\* ... and the worker is joined, for 30 s at most.
AbortJoin(timeout) ==
  /\ ppc = "leave" /\ (wpc = "ended" \/ timeout)
  /\ done' = TRUE /\ ppc' = "out"
  /\ UNCHANGED <<worker, queue, sent, raised, error, failed, stopped>>

-----------------------------------------------------------------------------
(* The worker                                                               *)

WorkerLoop ==
  /\ wpc = "loop" /\ wpc' = IF stopped THEN "ended" ELSE "get"
  /\ UNCHANGED <<queue, fed, hand, producer, error, failed, stopped>>

\* Mutant of Get: the newest chunk first.
Get_Last ==
  /\ wpc = "get" /\ queue # <<>>
  /\ queue' = SubSeq(queue, 1, Len(queue) - 1)
  /\ hand' = queue[Len(queue)]
  /\ wpc' = IF hand' = EOF THEN "ended" ELSE "feed"
  /\ UNCHANGED <<fed, producer, error, failed, stopped>>

Get ==
  /\ wpc = "get" /\ queue # <<>>
  /\ queue' = Tail(queue)
  /\ hand' = Head(queue)
  /\ wpc' = IF hand' = EOF THEN "ended" ELSE "feed"
  /\ UNCHANGED <<fed, producer, error, failed, stopped>>

\* decoder.feed returns ...
Decoded ==
  /\ wpc = "feed" /\ wpc' = "loop"
  /\ fed' = hand /\ hand' = 0
  /\ UNCHANGED <<queue, producer, error, failed, stopped>>

\* ... or raises.
DecodeFails ==
  /\ wpc = "feed" /\ wpc' = "failed"
  /\ error' = "decode"
  /\ UNCHANGED <<queue, fed, hand, producer, failed, stopped>>

\* Mutant of WorkerFails: the error is kept, but nobody is told.
WorkerFails_Silent ==
  /\ wpc = "failed" /\ wpc' = "stop"
  /\ UNCHANGED <<queue, fed, hand, producer, error, failed, stopped>>

WorkerFails ==
  /\ wpc = "failed" /\ wpc' = "stop"
  /\ failed' = TRUE
  /\ UNCHANGED <<queue, fed, hand, producer, error, stopped>>

\* A producer that waits for room finds it, or finds the failure.
WorkerStops ==
  /\ wpc = "stop" /\ wpc' = "ended"
  /\ stopped' = TRUE /\ queue' = <<>> /\ hand' = 0
  /\ UNCHANGED <<fed, producer, error, failed>>

\* No pipeline yet.
PipeInit ==
  /\ queue = <<>> /\ sent = 0 /\ fed = 0 /\ hand = 0 /\ wpc = "ended"
  /\ error = "none" /\ failed = FALSE /\ stopped = FALSE /\ ppc = "out" /\ done = TRUE /\ raised = "none"

ProducerStep ==
  \/ Put \/ PutTimesOut \/ PutEof \/ Joined \/ AbortFlag \/ AbortEmpty
  \/ \E timeout \in BOOLEAN : AbortJoin(timeout)

WorkerStep == WorkerLoop \/ Get \/ WorkerFails \/ WorkerStops

PipeNext ==
  \/ Create \/ CallFeed \/ CallFinish \/ CallAbort \/ ProducerStep
  \/ WorkerStep \/ Decoded \/ DecodeFails

PipeSpec == PipeInit /\ [][PipeNext]_pipeVars

-----------------------------------------------------------------------------
(* Properties                                                               *)

\* "Errors raised by the decoder or the writer surface with their original type, so retry logic stays
\* unchanged" (PipelinedDecoder): the RuntimeError with which abort wakes others never reaches the caller,
\* whose except clause does not name it.
OriginalError == raised # "aborted"

\* finish returns without an error only when every chunk was decoded: an error the worker met after the last
\* look at _failed is not lost, and no chunk is left behind in the queue.
FinishedIsComplete == done /\ error = "none" => fed = sent /\ wpc = "ended"

\* A refinement: whatever the two threads do, the decoder sees the chunks in order and is closed after the last.
Verdict == IF error # "none" THEN "failed" ELSE IF done THEN "finished" ELSE "open"
Ordered == INSTANCE OrderedDecode WITH given <- sent, fed <- fed, verdict <- Verdict
IsOrderedDecode == [][Ordered!DecodeNext]_(Ordered!decodeVars)
================================================================================
