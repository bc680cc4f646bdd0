------------------------------ MODULE MCGuestFixup ------------------------------
(***************************************************************************)
(* Instances of GuestFixup for TLC.                                         *)
(***************************************************************************)
EXTENDS GuestFixup

\* A guest whose root is found, with a NetworkManager and an Azure agent.
Plain == [vgs |-> <<>>, clash |-> FALSE, cands |-> <<"root">>, modules |-> Root, dracut |-> TRUE,
          fstab |-> [p \in {"usr", "var", "boot"} |-> "no"], want |-> Step \ {"gcp"},
          images |-> [v \in Kernels |-> "plain"],
          net |-> [nm |-> "enabled", legacy |-> FALSE, networkd |-> FALSE, netplan |-> FALSE, systemd |-> TRUE,
                   selinux |-> TRUE, rules |-> FALSE, files |-> {}, unlabelled |-> {}, relabel |-> FALSE],
          fs |-> {"etc", "cloudDir", "cloudCfg", "azureCfg", "agent"}]

\* Every layout: none or two volume groups, a name clash, the root first, second or missing, /usr and /boot in
\* the root, on a partition of their own or lost, kernels of all kinds.
Layouts ==
  { [Plain EXCEPT !.vgs = g, !.clash = c, !.cands = s, !.modules = m, !.dracut = d,
                  !.fstab = [p \in {"usr", "var", "boot"} |-> CASE p = "usr" -> u
                                                             [] p = "boot" -> b [] p = "var" -> u]] :
      g \in {<<>>, <<"rhel", "data">>}, c \in BOOLEAN, s \in {<<"root">>, <<"boot", "root">>, <<"boot">>},
      m \in {Root, "usr"}, u \in {"no", "here", "gone"}, b \in {"no", "here", "gone"}, d \in BOOLEAN }
Images ==
  { [Plain EXCEPT !.images = f, !.want = w] :
      f \in [Kernels -> {"virtio", "plain", "unreadable", "none"}], w \in {{"initramfs"}, {"network"}, Step \ {"gcp"}} }
\* Every network configuration.
Stacks ==
  { [Plain EXCEPT !.want = {"network"},
       !.net = [nm |-> n, legacy |-> l, networkd |-> d, netplan |-> p, systemd |-> y, selinux |-> x, rules |-> r,
                files |-> f, unlabelled |-> {}, relabel |-> FALSE]] :
      n \in {"absent", "installed", "enabled"}, l \in BOOLEAN, d \in BOOLEAN, p \in BOOLEAN, y \in BOOLEAN,
      x \in BOOLEAN, r \in BOOLEAN, f \in {{}, {"profile"}} }
\* Guests of Azure and GCP with anything left of their cloud.
Clouds ==
  { [Plain EXCEPT !.want = {c}, !.fs = {"etc"} \cup f] :
      c \in {"azure", "gcp"},
      f \in {f \in SUBSET {"cloudDir", "cloudCfg", "azureCfg", "googleCfg", "sr0", "agent", "gceUnit", "gettyUnit"} :
               /\ "cloudCfg" \in f => "cloudDir" \in f
               /\ f \cap {"azureCfg", "googleCfg"} # {} => "cloudCfg" \in f} }

ManyGuests == Layouts \cup Images \cup Stacks \cup Clouds
\* From "nothing fails" to everything.
Graded == {{}, {"command"}, {"command", "slow"}, {"slow", "start", "undo"}, {"command", "partial", "undo"}, {"start", "stuck"}}
================================================================================
