----------------------------- MODULE MCIsoInstall -----------------------------
(***************************************************************************)
(* The instance of IsoInstall for TLC.                                      *)
(***************************************************************************)
EXTENDS IsoInstall, TLC

CONSTANTS j1, j2, j3, old

Wanted(id, class, seed, client) == [id |-> id, class |-> class, seed |-> seed, client |-> client]

\* Two jobs of one Windows client edition (of which an old image may exist), and an ISO.
Shared ==
  (j1 :> Wanted("win11", "SCSI", TRUE, TRUE)) @@ (j2 :> Wanted("win11", "SCSI", TRUE, TRUE)) @@
  (j3 :> Wanted("iso", "PARAVIRTUALIZED", FALSE, FALSE)) @@ (old :> Wanted("win11", "SCSI", TRUE, TRUE))

Every == {{"cancel"}, {"cancel", "late"}, {"late", "restart"}, {"nobucket", "refuse"}, {"cleanup", "cancel"}, {"import", "deadline", "restart"}}

\* The two jobs of the one edition are interchangeable.
Symmetry == Permutations({j1, j2})
================================================================================
