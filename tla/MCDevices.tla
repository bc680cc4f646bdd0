-------------------------------- MODULE MCDevices --------------------------------
(***************************************************************************)
(* The instance of Devices for TLC.                                         *)
(***************************************************************************)
EXTENDS Devices

CONSTANTS j1, j2, sdb, sdc, sdd, sde, oraclevdb, oraclevdc

TwoPaths == <<oraclevdb, oraclevdc>>

\* The sizes of j1's boot and data volume, and of j2's.
Sizes(a, b, c, d) ==
  [v \in Volumes |-> IF v[1] = j1 THEN IF v[2] = Boot THEN a ELSE b ELSE IF v[2] = Boot THEN c ELSE d]
Setup(s, taken, slow) == [size |-> s, taken |-> taken, slow |-> slow]

\* Boot volumes of one size that come in time; all sizes different, and waits that time out; sizes equal within
\* a job, and a helper with one path left.
ManySetups == {Setup(Sizes(50, 60, 50, 70), {}, FALSE), Setup(Sizes(50, 60, 70, 80), {}, TRUE),
               Setup(Sizes(50, 50, 60, 60), {oraclevdb}, TRUE)}
================================================================================
