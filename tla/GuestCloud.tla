------------------------------- MODULE GuestCloud -------------------------------
(***************************************************************************)
(* guest/azure_cloud.py and guest/gcp_cloud.py: removing the boot settings  *)
(* of the old cloud.  A guest is the set of what is there:                  *)
(*   "etc", "cloudDir", "cloudCfg"   /etc, /etc/cloud, cloud.cfg.d          *)
(*   "azureCfg", "googleCfg"         cloud-init drop-ins of the old cloud   *)
(*   "sr0"                           /dev/sr0 in /etc/fstab                 *)
(*   "agent", "gceUnit"              enabled units of the old cloud's agent *)
(*   "gettyUnit", "getty"            serial-getty: installed, enabled       *)
(*   "afterAzure", "afterGcp"        our datasource drop-in                 *)
(* The work is a sequence of stages, and one may fail.                      *)
(***************************************************************************)
EXTENDS Naturals

Begun(fs)       == [fs |-> fs, changed |-> FALSE]
Drop(r, what) == IF what \in r.fs THEN [fs |-> r.fs \ {what}, changed |-> TRUE] ELSE r
Put(r, what)    == IF what \in r.fs THEN r ELSE [fs |-> r.fs \cup {what}, changed |-> TRUE]

RemoveAzureCloudCfg(r)  == IF "cloudCfg" \in r.fs THEN Drop(r, "azureCfg") ELSE r
FixFstabSr0(r)          == Drop(r, "sr0")
DisableWaagentUnits(r)  == Drop(r, "agent")
EnableSerialConsole(r)  == IF "gettyUnit" \in r.fs THEN Put(r, "getty") ELSE r
\* Only where cloud-init is installed.
WriteAzureDatasource(r) ==
  IF r.fs \cap {"cloudDir", "cloudCfg"} = {} THEN r
  ELSE Put([r EXCEPT !.fs = @ \cup {"cloudDir", "cloudCfg"}], "afterAzure")

DisableGceUnits(r)   == Drop(r, "gceUnit")
RemoveGceCloudCfg(r) == IF "cloudCfg" \in r.fs THEN Drop(r, "googleCfg") ELSE r
\* Whether cloud-init is installed or not.
WriteGcpDatasource(r) == Put([r EXCEPT !.fs = @ \cup {"cloudDir", "cloudCfg"}], "afterGcp")

AzureStages == 5
AzureUpTo(fs, n) ==
  LET r1 == IF n < 1 THEN Begun(fs) ELSE RemoveAzureCloudCfg(Begun(fs))
      r2 == IF n < 2 THEN r1 ELSE FixFstabSr0(r1)
      r3 == IF n < 3 THEN r2 ELSE DisableWaagentUnits(r2)
      r4 == IF n < 4 THEN r3 ELSE EnableSerialConsole(r3)
  IN  IF n < 5 THEN r4 ELSE WriteAzureDatasource(r4)

GcpStages == 3
GcpUpTo(fs, n) ==
  LET r1 == IF n < 1 THEN Begun(fs) ELSE DisableGceUnits(Begun(fs))
      r2 == IF n < 2 THEN r1 ELSE RemoveGceCloudCfg(r1)
  IN  IF n < 3 THEN r2 ELSE WriteGcpDatasource(r2)

\* AzureCloudFixer.apply; `stop` is the stage that raises.
ApplyAzure(fs, stop) ==
  LET r == AzureUpTo(fs, stop - 1)
  IN  IF "etc" \notin fs THEN [fs |-> fs, status |-> "skipped"]
      ELSE [fs |-> r.fs, status |-> IF stop <= AzureStages THEN "failed"
                                    ELSE IF r.changed THEN "done" ELSE "not_needed"]

\* GcpCloudFixer.apply.  Nothing to do is "skipped" here.
ApplyGcp(fs, stop) ==
  LET r == GcpUpTo(fs, stop - 1)
  IN  IF "etc" \notin fs THEN [fs |-> fs, status |-> "skipped"]
      ELSE [fs |-> r.fs, status |-> IF stop <= GcpStages THEN "failed"
                                    ELSE IF r.changed THEN "done" ELSE "skipped"]

\* What a clean guest has left nothing of, and what its cloud-init then reads.
AzureClean(fs) == fs \cap {"azureCfg", "sr0", "agent"} = {} /\ ("cloudDir" \in fs => "afterAzure" \in fs)
GcpClean(fs)   == fs \cap {"googleCfg", "gceUnit"} = {} /\ "afterGcp" \in fs
================================================================================
