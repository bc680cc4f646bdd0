-------------------------------- MODULE GcsCopy --------------------------------
(***************************************************************************)
(* The parallel copy of a GCS object (disk/gcs_range_copy.py): every range  *)
(* is a future of a thread pool, tried a few times; the caller waits for    *)
(* the futures, raises the failure of the first it meets, and leaves the    *)
(* pool only when the threads have worked off all the others.  What a range *)
(* request brings is written as it is, without a look at its length.        *)
(***************************************************************************)
EXTENDS Naturals, Sequences

CONSTANTS
  Workers,  \* threads of the pool
  Retries,  \* DEFAULT_RETRIES
  NoRange   \* a thread without a range

ASSUME GcsCopyAssumption == Retries \in Nat \ {0}

VARIABLES
  queue,    \* ranges no thread has begun, in order
  doing,    \* the range of each thread
  tries,    \* failed attempts at it
  written,  \* bytes that are in their place on the disk
  spoilt,   \* bytes that an answer of another length has left out or overwritten
  failures, \* how the futures that failed did
  failure,  \* what as_completed made the caller raise
  active    \* the pool is open

copyVars == <<queue, doing, tries, written, spoilt, failures, failure, active>>

Smallest(a, b) == IF a < b THEN a ELSE b

\* The ranges of an object: all of one size but the last.
Ranges(total, chunk) ==
  [n \in 1..((total + chunk - 1) \div chunk) |-> ((n - 1) * chunk)..(Smallest(n * chunk, total) - 1)]

CopyInit ==
  /\ queue = <<>> /\ written = {} /\ spoilt = {} /\ failures = {} /\ failure = "none" /\ active = FALSE
  /\ doing = [w \in Workers |-> NoRange] /\ tries = [w \in Workers |-> 0]

Open(ranges) ==
  /\ queue' = ranges /\ written' = {} /\ spoilt' = {} /\ failures' = {} /\ failure' = "none" /\ active' = TRUE
  /\ UNCHANGED <<doing, tries>>

\* A thread begins the next range, unless the job is cancelled.
TakeRange(w, cancelled) ==
  /\ doing[w] = NoRange /\ queue # <<>>
  /\ queue' = Tail(queue)
  /\ IF cancelled
       THEN failures' = failures \cup {"cancelled"} /\ UNCHANGED doing
       ELSE doing' = [doing EXCEPT ![w] = Head(queue)] /\ UNCHANGED failures
  /\ UNCHANGED <<tries, written, spoilt, failure, active>>

\* What an answer brings into its place, and what it overwrites.  An odd one has less than the range (206), or it
\* has the whole object (200), which is written from where the range begins.
Answers(r, total, odd) ==
  {[right |-> r, over |-> {}]} \cup
    IF ~odd THEN {} ELSE
      {[right |-> {x \in r : x < y}, over |-> {}] : y \in r} \cup
      {IF 0 \in r THEN [right |-> 0..(total - 1), over |-> {}]
       ELSE [right |-> {}, over |-> {x \in 0..(total - 1) : \E y \in r : y <= x}]}

\* The range is read and written, at its own offset ...
Transfer(w, total, odd) ==
  /\ doing[w] # NoRange
  /\ \E a \in Answers(doing[w], total, odd) :
       /\ written' = (written \ a.over) \cup a.right
       /\ spoilt' = spoilt \cup a.over \cup (doing[w] \ a.right)
  /\ doing' = [doing EXCEPT ![w] = NoRange] /\ tries' = [tries EXCEPT ![w] = 0]
  /\ UNCHANGED <<queue, failures, failure, active>>

\* ... or one of the two fails, the write perhaps not before it has overwritten something: another try, or the
\* end of the future.  What a closed client raises is no GcpError and ends it at once.
TransferFails(w, kind, total, odd) ==
  /\ doing[w] # NoRange
  /\ \E a \in Answers(doing[w], total, odd) : written' = written \ a.over /\ spoilt' = spoilt \cup a.over
  /\ IF kind = "error" /\ tries[w] + 1 < Retries
       THEN tries' = [tries EXCEPT ![w] = @ + 1] /\ UNCHANGED <<doing, failures>>
       ELSE /\ doing' = [doing EXCEPT ![w] = NoRange] /\ tries' = [tries EXCEPT ![w] = 0]
            /\ failures' = failures \cup {kind}
  /\ UNCHANGED <<queue, failure, active>>

\* f.result() of a future that failed.
Meet ==
  /\ active /\ failure = "none" /\ failures # {}
  /\ failure' \in failures
  /\ UNCHANGED <<queue, doing, tries, written, spoilt, failures, active>>

\* Nothing of a copy is left.
Stop ==
  /\ queue' = <<>> /\ written' = {} /\ spoilt' = {} /\ failures' = {} /\ failure' = "none" /\ active' = FALSE
  /\ doing' = [w \in Workers |-> NoRange] /\ tries' = [w \in Workers |-> 0]

\* Mutant of Leave: the futures are waited for, but not asked how they did.
Leave_Unasked ==
  /\ active /\ queue = <<>> /\ \A w \in Workers : doing[w] = NoRange
  /\ Stop

\* The pool is left when every future is done.
Leave ==
  /\ active /\ queue = <<>> /\ \A w \in Workers : doing[w] = NoRange
  /\ failures # {} => failure # "none"
  /\ Stop
================================================================================
