------------------------------ MODULE PageRanges ------------------------------
(***************************************************************************)
(* The arithmetic of disk/vhd_range_copy.py: from the page list Azure        *)
(* returns for an export blob to the chunks the download threads fetch.     *)
(* A range is <<offset, length>>; a listing is the sequence of ranges of    *)
(* all pages, in the order in which Get Page Ranges returned them.          *)
(***************************************************************************)
EXTENDS Integers, Sequences, Functions

Offset(r) == r[1]
Length(r) == r[2]
End(r)    == r[1] + r[2]

Smaller(a, b) == IF a < b THEN a ELSE b
Larger(a, b)  == IF a < b THEN b ELSE a

\* sorted(ranges): by offset, then by length.
Before(a, b) == Offset(a) < Offset(b) \/ (Offset(a) = Offset(b) /\ Length(a) <= Length(b))
Sorted(ranges) ==
  LET order == CHOOSE p \in Bijection(DOMAIN ranges, DOMAIN ranges) :
                 \A i, k \in DOMAIN ranges : i < k => Before(ranges[p[i]], ranges[p[k]])
  IN [i \in DOMAIN ranges |-> ranges[order[i]]]

\* The part of a range below `limit`: a range that reaches into the VHD footer is shortened.
Clip(r, limit) == <<Offset(r), Smaller(Length(r), limit - Offset(r))>>

\* Mutant of Absorb: the merged range ends where the last one read ends.
Absorb_TakesLastEnd(out, r) ==
  IF out # <<>> /\ End(out[Len(out)]) >= Offset(r)
    THEN [out EXCEPT ![Len(out)] = <<Offset(@), End(r) - Offset(@)>>]
    ELSE Append(out, r)

\* A range that touches or overlaps the last one is merged into it.
Absorb(out, r) ==
  IF out # <<>> /\ End(out[Len(out)]) >= Offset(r)
    THEN [out EXCEPT ![Len(out)] = <<Offset(@), Larger(End(@), End(r)) - Offset(@)>>]
    ELSE Append(out, r)

\* merge_ranges: ranges at or beyond the limit and empty ones are dropped, the others clipped and merged.
MergeNext(out, r, limit) ==
  IF Offset(r) >= limit \/ Length(Clip(r, limit)) <= 0 THEN out ELSE Absorb(out, Clip(r, limit))
Merging(sorted, limit) ==
  LET out[i \in 0..Len(sorted)] == IF i = 0 THEN <<>> ELSE MergeNext(out[i - 1], sorted[i], limit) IN out
Merge(ranges, limit) == Merging(Sorted(ranges), limit)[Len(ranges)]

\* The chunks of one range: all of `size` bytes but the last.
Pieces(r, size) ==
  [k \in 1..(Length(r) + size - 1) \div size |->
     <<Offset(r) + (k - 1) * size, Smaller(size, Length(r) - (k - 1) * size)>>]

\* split_chunks.
Splitting(ranges, size) ==
  LET out[i \in 0..Len(ranges)] == IF i = 0 THEN <<>> ELSE out[i - 1] \o Pieces(ranges[i], size) IN out
Split(ranges, size) == Splitting(ranges, size)[Len(ranges)]

-----------------------------------------------------------------------------
(* What the two functions promise, without their code.                      *)

Bytes(r)      == Offset(r)..(End(r) - 1)
BytesOf(seq)  == UNION {Bytes(seq[i]) : i \in DOMAIN seq}

\* The bytes a copy of this listing has to fetch: all listed ones that are part of the disk.
Allocated(ranges, limit) == BytesOf(ranges) \cap 0..(limit - 1)
================================================================================
