------------------------------ MODULE VmdkStream ------------------------------
(***************************************************************************)
(* disk/vmdk_stream.py, the decoder of a stream-optimized VMDK.  A stream   *)
(* is a sequence of items (header, preamble, grains, metadata, end marker)  *)
(* of a length each, measured in units of half a sector so that the chunks  *)
(* of the download may end inside a sector.  The bytes of an item are       *)
(* abstracted to what the decoder finds in it.                              *)
(*                                                                          *)
(* A decoder is a record: its state, the number of the next item, and how   *)
(* many units wait in its buffer.                                           *)
(***************************************************************************)
EXTENDS Integers, Sequences

CONSTANT
  SkipZeroGrains  \* HELPER_SKIP_ZERO_GRAINS

SECTOR == 2

RoundUp(n) == SECTOR * ((n + SECTOR - 1) \div SECTOR)

\* The items.  `good` is FALSE for a header that unpack or _validate_header refuses, for a grain that does
\* not decompress and for a marker of unknown type.  A grain holds one value per sector, 0 for zeros; its
\* marker takes one unit, its compressed data `size`.
Item(kind, units, good) == [kind |-> kind, units |-> units, good |-> good, lba |-> 0, data |-> <<>>]

Header(good)       == Item("header", SECTOR, good)
Preamble(overhead) == Item("preamble", (overhead - 1) * SECTOR, TRUE)
Meta(val)          == Item("meta", SECTOR + val * SECTOR, TRUE)
Unknown            == Item("meta", SECTOR, FALSE)
Eos                == Item("eos", SECTOR, TRUE)
Grain(lba, data, size, good) ==
  [Item("grain", RoundUp(1 + size), good) EXCEPT !.lba = lba, !.data = data]

\* A stream: the capacity of the disk in sectors, the items, and the padding behind them.
Offsets(s) == LET to[i \in 0..Len(s.items)] == IF i = 0 THEN 0 ELSE to[i - 1] + s.items[i].units IN to
Units(s) == Offsets(s)[Len(s.items)] + s.pad

Fresh == [state |-> "HEADER", next |-> 1, buf |-> 0]

\* feed(): what comes after the end marker is not kept.
Extend(d, n) == IF d.state = "DONE" THEN d ELSE [d EXCEPT !.buf = @ + n]

\* _drain: the next item is taken as soon as all of it is in the buffer.
CanDrain(s, d) ==
  d.state # "DONE" /\ d.next \in DOMAIN s.items /\ d.buf >= s.items[d.next].units

\* What the decoder raises VmdkFormatError for.
Malformed(s, d) ==
  LET item == s.items[d.next] IN ~item.good \/ (item.kind = "grain" /\ item.lba >= s.capacity)

Drained(s, d) ==
  LET item == s.items[d.next] IN
  [state |-> CASE item.kind = "header" -> "PREAMBLE" [] item.kind = "eos" -> "DONE" [] OTHER -> "MARKERS",
   next |-> d.next + 1, buf |-> d.buf - item.units]

\* The sectors _emit_grain writes, if any: the last grain may reach beyond the disk, zeros are skipped.
Sectors(s, item) ==
  IF item.kind # "grain" \/ (SkipZeroGrains /\ \A i \in DOMAIN item.data : item.data[i] = 0)
    THEN {}
    ELSE item.lba..(item.lba + Len(item.data) - 1) \cap 0..(s.capacity - 1)

\* The contents `disk` has after _emit_grain.
Emit(s, item, disk) ==
  [x \in DOMAIN disk |-> IF x \in Sectors(s, item) THEN item.data[x - item.lba + 1] ELSE disk[x]]

\* Mutant of Ends: a stream may also end inside a marker.
Ends_Anywhere(d) == d.state \in {"DONE", "MARKERS"}

\* finish(): after the end marker, or between two markers of a stream that has none.
Ends(d) == d.state = "DONE" \/ (d.state = "MARKERS" /\ d.buf = 0)

-----------------------------------------------------------------------------
(* What a decoder promises, without its code.                               *)

Blank(s) == [x \in 0..(s.capacity - 1) |-> 0]

\* The items that count: all up to the end marker.
Body(s) ==
  {i \in DOMAIN s.items : \A k \in 1..(i - 1) : s.items[k].kind # "eos"}

\* A stream without an end marker has nothing behind its last item: what is there is the head of a lost one.
WellFormed(s) ==
  /\ \A i \in Body(s) : s.items[i].good /\ (s.items[i].kind = "grain" => s.items[i].lba < s.capacity)
  /\ s.pad > 0 => \E i \in DOMAIN s.items : s.items[i].kind = "eos"

\* The disk a well-formed stream describes: every sector as the grain that covers it says, zero elsewhere.
Covers(item, x) == item.kind = "grain" /\ x - item.lba + 1 \in DOMAIN item.data
Image(s) ==
  [x \in 0..(s.capacity - 1) |->
     IF \E i \in Body(s) : Covers(s.items[i], x)
       THEN LET i == CHOOSE i \in Body(s) : Covers(s.items[i], x) IN s.items[i].data[x - s.items[i].lba + 1]
       ELSE 0]

\* What may arrive, intact or not: only a preamble may be empty, and no sector comes twice.
Items ==
  [kind : {"header", "preamble", "grain", "meta", "eos"}, units : Nat, good : BOOLEAN, lba : Nat, data : Seq(Nat)]
IsStream(s) ==
  /\ s.capacity \in Nat /\ s.pad \in Nat /\ s.items \in Seq(Items)
  /\ \A i \in DOMAIN s.items : (s.items[i].kind = "header" <=> i = 1) /\ (s.items[i].units = 0 => i = 2)
  /\ \A i, k \in Body(s) : \A x \in 0..(s.capacity - 1) :
       Covers(s.items[i], x) /\ Covers(s.items[k], x) => i = k
================================================================================
