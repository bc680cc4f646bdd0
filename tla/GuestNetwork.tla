------------------------------ MODULE GuestNetwork ------------------------------
(***************************************************************************)
(* guest/network.py: what the fix-up makes of a Linux guest's network       *)
(* configuration.  A guest is the record of what the fixer looks at:        *)
(*   nm        NetworkManager: "absent", "installed", "enabled"             *)
(*   legacy    the network service (network-scripts) is enabled             *)
(*   networkd, netplan, systemd, selinux    in use or not                   *)
(*   rules     a *persistent-net.rules pins names to the old MACs           *)
(*   files     the DHCP files it has, ours or its own                       *)
(*   unlabelled, relabel   files without SELinux label; /.autorelabel       *)
(* The work is a sequence of stages; a write may fail at any of them.       *)
(***************************************************************************)
EXTENDS Naturals

DhcpFiles == {"profile", "unit", "yaml", "waitOnline", "networkd"}
Networks  ==
  [nm : {"absent", "installed", "enabled"}, legacy : BOOLEAN, networkd : BOOLEAN, netplan : BOOLEAN,
   systemd : BOOLEAN, selinux : BOOLEAN, rules : BOOLEAN, files : SUBSET DhcpFiles,
   unlabelled : SUBSET DhcpFiles, relabel : BOOLEAN]

\* What the fixer has done so far: the guest, the summary, the files to label.
Begin(net) == [net |-> net, changes |-> {}, written |-> {}]

DisablePersistentRules(r) ==
  IF r.net.rules THEN [r EXCEPT !.net.rules = FALSE, !.changes = @ \cup {"rules"}] ELSE r

\* A file that is there is left alone; a new one has no label yet.
Write(r, file) ==
  IF file \in r.net.files THEN r
  ELSE [r EXCEPT !.net.files = @ \cup {file}, !.net.unlabelled = @ \cup {file},
                 !.changes = @ \cup {file}, !.written = @ \cup {file}]

\* Which of the mechanisms apply.  Legacy scripts without systemd count as handled, and nothing is done.
UsesNM(net)     == net.nm = "enabled" \/ (net.nm = "installed" /\ ~net.legacy)
UsesLegacy(net) == net.legacy /\ net.nm # "enabled"
Handled(net)    == UsesNM(net) \/ UsesLegacy(net) \/ net.netplan \/ net.networkd

\* wildcard_nm_profile: a keyfile for any Ethernet device ("profile") will do, whoever wrote it.
ConfigureNetworkManager(r) == IF UsesNM(r.net) THEN Write(r, "profile") ELSE r
InstallFirstbootUnit(r)    == IF UsesLegacy(r.net) /\ r.net.systemd THEN Write(r, "unit") ELSE r
WriteNetplan(r)            == IF r.net.netplan THEN Write(r, "yaml") ELSE r
WriteWaitOnline(r)         == IF r.net.netplan THEN Write(r, "waitOnline") ELSE r
WriteNetworkd(r)           == IF r.net.networkd THEN Write(r, "networkd") ELSE r

\* setfiles of the guest, else setfattr, else a relabel at the first boot.
LabelForSelinux(r, labelled) ==
  IF r.written = {} \/ ~r.net.selinux THEN r
  ELSE IF labelled THEN [r EXCEPT !.net.unlabelled = {}]
  ELSE [r EXCEPT !.net.relabel = TRUE, !.changes = @ \cup {"relabel"}]

NetworkStages == 7

\* The work up to stage n.
UpTo(net, n, labelled) ==
  LET r1 == IF n < 1 THEN Begin(net) ELSE DisablePersistentRules(Begin(net))
      r2 == IF n < 2 THEN r1 ELSE ConfigureNetworkManager(r1)
      r3 == IF n < 3 THEN r2 ELSE InstallFirstbootUnit(r2)
      r4 == IF n < 4 THEN r3 ELSE WriteNetplan(r3)
      r5 == IF n < 5 THEN r4 ELSE WriteWaitOnline(r4)
      r6 == IF n < 6 THEN r5 ELSE WriteNetworkd(r5)
  IN  IF n < 7 THEN r6 ELSE LabelForSelinux(r6, labelled)

\* apply: without a stack it knows it gives up after the rules; `stop` is the stage whose write raises.
Apply(net, stop, labelled) ==
  LET r == UpTo(net, IF Handled(net) THEN stop - 1 ELSE 1, labelled)
  IN  [net    |-> r.net,
       status |-> IF ~Handled(net) THEN "skipped"
                  ELSE IF stop <= NetworkStages THEN "failed"
                  ELSE IF r.changes = {} THEN "not_needed" ELSE "done"]
-----------------------------------------------------------------------------
\* Whether the guest reads a file at its first boot in OCI.
Reads(net, file) == file \in net.files /\ (net.selinux /\ file \in net.unlabelled => net.relabel)

\* Whether a stack that is started at boot asks for an address on the new interface.
GetsDhcp(net) ==
  \/ net.nm = "enabled" /\ Reads(net, "profile")
  \/ net.legacy /\ net.systemd /\ Reads(net, "unit")
  \/ net.netplan /\ Reads(net, "yaml")
  \/ net.networkd /\ Reads(net, "networkd")

\* A stack of the guest is enabled and one the fixer has a mechanism for.
Supported(net) == net.nm = "enabled" \/ (net.legacy /\ net.systemd) \/ net.netplan \/ net.networkd
================================================================================
