----------------------------- MODULE OrderedDecode -----------------------------
(***************************************************************************)
(* What the caller of a decoder relies on (disk/pipeline.py promises to be  *)
(* a "drop-in for StreamOptimizedDecoder"): the chunks it hands over are    *)
(* decoded one after the other in the order in which they were handed over, *)
(* and the stream is only ever closed when all of them were decoded.        *)
(***************************************************************************)
EXTENDS Naturals

VARIABLES
  given,   \* chunks handed over
  fed,     \* chunks decoded: the first, the second, ... the fed-th
  verdict  \* "open", "finished" or "failed"

decodeVars == <<given, fed, verdict>>

\* There is no stream yet.
Start == given = 0 /\ fed = 0 /\ verdict = "finished"

Give   == verdict # "finished" /\ given' = given + 1 /\ UNCHANGED <<fed, verdict>>
Decode == fed < given /\ fed' = fed + 1 /\ UNCHANGED <<given, verdict>>
Fail   == verdict' = "failed" /\ UNCHANGED <<given, fed>>
Finish == verdict = "open" /\ fed = given /\ verdict' = "finished" /\ UNCHANGED <<given, fed>>

\* A new decoder, for the next attempt.
Again == given' = 0 /\ fed' = 0 /\ verdict' = "open"

DecodeNext == Give \/ Decode \/ Fail \/ Finish \/ Again

DecodeSpec == Start /\ [][DecodeNext]_decodeVars
================================================================================
