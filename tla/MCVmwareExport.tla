---------------------------- MODULE MCVmwareExport ----------------------------
(***************************************************************************)
(* Instances of VmwareExport for TLC.                                       *)
(***************************************************************************)
EXTENDS VmwareExport

Stream(capacity, items, pad) == [capacity |-> capacity, items |-> items, pad |-> pad]
Head2 == <<Header(TRUE), Preamble(2)>>

\* Two grains, of which the second reaches beyond the disk, tables and padding behind the end.
Full  == Stream(3, Head2 \o <<Grain(0, <<1, 0>>, 2, TRUE), Meta(1), Grain(2, <<1, 1>>, 1, TRUE), Eos>>, 1)
\* No end marker, an empty preamble, and a grain of zeros.
Open  == Stream(2, <<Header(TRUE), Preamble(1), Grain(0, <<0>>, 1, TRUE), Grain(1, <<1>>, 1, TRUE)>>, 0)
\* Cut off inside its last grain, as an exporter that fails leaves it.
Short == Stream(2, <<Header(TRUE), Preamble(1), Grain(0, <<1>>, 1, TRUE)>>, 1)
\* A grain that does not decompress, one that lies beyond the disk, no VMDK at all.
Rotten == Stream(2, <<Header(TRUE), Preamble(1), Grain(0, <<1>>, 1, FALSE), Eos>>, 0)
Beyond == Stream(2, <<Header(TRUE), Preamble(1), Grain(0, <<1>>, 1, TRUE), Grain(2, <<1>>, 1, TRUE), Eos>>, 0)
Login  == Stream(2, <<Header(FALSE)>>, 3)

Url(key, target, disk) == [key |-> key, target |-> target, disk |-> disk]
ByKeys    == <<Url(2, 0, 2), Url(1, 0, 1)>>
ByTargets == <<Url(0, 2, 2), Url(0, 1, 1)>>
OneKey    == <<Url(0, 0, 2), Url(1, 0, 1)>>
ByOrder   == <<Url(0, 0, 1), Url(0, 0, 2)>>
TooFew    == <<Url(0, 0, 1)>>
One       == <<Url(1, 0, 1)>>

Setup(streams, urls, pipelined, events, state) ==
  [n |-> Len(streams), streams |-> streams, urls |-> urls, pipelined |-> pipelined, events |-> events,
   power |-> state, confirmed |-> state = "on"]

\* One disk of every kind; two disks and every kind of lease; a worker that hangs; every way to switch off.
Kinds   == {Setup(<<s>>, One, p, {"cancel"}, "off") : s \in {Full, Open, Short, Rotten, Beyond, Login}, p \in BOOLEAN}
Leases  == {Setup(<<Open, Full>>, l, p, {}, "off") :
              l \in {ByKeys, ByTargets, OneKey, ByOrder, TooFew}, p \in BOOLEAN}
Hanging == {Setup(<<Full>>, One, TRUE, {"hang"}, "off")}
Powers  == {Setup(<<Open>>, One, FALSE, {"cancel", "user"}, p) : p \in {"on", "off", "suspended"}}
All     == Kinds \cup Leases \cup Hanging \cup Powers

ASSUME HangsAssumption == HangsAlone
================================================================================
