--------------------------------- MODULE Service ---------------------------------
(***************************************************************************)
(* The helper as a service: what its Setup page changes for longer than a   *)
(* process lives.  Settings are applied at once and merged into one file    *)
(* that the next process starts from (runtime_settings.py,                  *)
(* logging_config.py); an update fetches, installs and restarts, in a       *)
(* script that outlives the process it was started by (updater.py); the     *)
(* handlers of both (api/routes_setup.py) run side by side; start and stop  *)
(* are main.lifespan's.                                                     *)
(***************************************************************************)
EXTENDS Naturals, FiniteSets

CONSTANTS
  Handlers,   \* requests that may be at work at a time
  Scripts,    \* update scripts that may be at work at a time (bounds the model)
  Jobs,       \* migrations that may run
  Values,     \* values of the settings of a group
  Env,        \* their value in the environment
  MaxPushes,  \* commits pushed to the branch (bounds the model)
  Setups      \* whether systemd is there, a branch is checked out, and what may happen

\* The keys in the file belong to the one or the other.
Groups == {"logging", "operation"}

\* Requests to save and to update, jobs; saves that overlap, deaths during a save, a full disk, a file that is
\* there and cannot be read for the moment; a branch that git does not tell.
Events == {"put", "update", "job", "overlap", "kill", "full", "unread", "lookup"}

ASSUME ServiceAssumption ==
  /\ Env \notin Values /\ MaxPushes \in Nat
  /\ Setups \subseteq [systemd : BOOLEAN, branch : BOOLEAN, events : SUBSET Events]

VARIABLES
  setup,      \* the behaviour's setup
  up,         \* the process: "up", "stopping" or "down"
  value,      \* the settings in force
  file,       \* what the file overrides, and whether it can be read
  answered,   \* what the last request that saved a group without a warning set it to
  active,     \* store.active()
  at, req,    \* where each handler is, and its request
  background, \* the detached script of Updater._background, or 0
  script,     \* the update scripts
  head, src, venv \* the commits of the branch, the checkout and the installed package

settings == <<value, file, answered>>
updates  == <<background, script, head, src, venv>>
vars     == <<setup, up, settings, active, at, req, updates>>

Nothing    == [g \in {} |-> Env]                 \* a file without overrides, or none
Unreadable == [readable |-> FALSE, keys |-> Nothing]
NoRequest  == [op |-> "none"]
NoScript   == [at |-> "none"]
Alive(s)   == script[s].at # "none"
UnitActive == setup.systemd /\ \E s \in Scripts : Alive(s)

Goto(h, l) == at' = [at EXCEPT ![h] = l] /\ UNCHANGED req
Reply(h)   == at' = [at EXCEPT ![h] = "idle"] /\ req' = [req EXCEPT ![h] = NoRequest]
-----------------------------------------------------------------------------
(* PUT /logging and /operation                                              *)

Saving == {"read", "open", "fill"}

\* The settings are applied, whatever becomes of the file.
Put(h, g, v) ==
  /\ "put" \in setup.events /\ up = "up" /\ at[h] = "idle"
  /\ "overlap" \in setup.events \/ \A k \in Handlers : at[k] \notin Saving
  /\ value' = [value EXCEPT ![g] = v]
  /\ req' = [req EXCEPT ![h] = [op |-> "put", group |-> g, value |-> v, data |-> Nothing]]
  /\ at' = [at EXCEPT ![h] = "read"]
  /\ UNCHANGED <<setup, up, file, answered, active, updates>>

\* An unreadable file counts as none.
Overrides == IF file.readable THEN file.keys ELSE Nothing

\* read(): an OSError of an intact file looks the same as no file.
ReadResults == {Overrides} \cup IF "unread" \in setup.events THEN {Nothing} ELSE {}

ReadFile(h) ==
  /\ at[h] = "read" /\ at' = [at EXCEPT ![h] = "open"]
  /\ \E data \in ReadResults : req' = [req EXCEPT ![h].data = data]
  /\ UNCHANGED <<setup, up, settings, active, updates>>

\* write_text truncates the file, unless it cannot be opened ...
OpenFile(h) ==
  /\ at[h] = "open"
  /\ \/ Goto(h, "fill") /\ file' = Unreadable
     \/ Reply(h) /\ UNCHANGED file
  /\ UNCHANGED <<setup, up, value, answered, active, updates>>

\* Mutant of Merged: the file gets the handler's own keys only.
Merged_Alone(r) == [g \in {r.group} |-> r.value]
\* What was read, with the request's own keys.
Merged(r) == [g \in DOMAIN r.data \cup {r.group} |-> IF g = r.group THEN r.value ELSE r.data[g]]

\* ... and writes it.  Over what another handler wrote since, only as much as it has to write; a full disk
\* leaves the file cut.
Fill(h) ==
  /\ at[h] = "fill" /\ Reply(h)
  /\ \/ /\ \/ file' = [readable |-> TRUE, keys |-> Merged(req[h])]
           \/ file.readable /\ file' = Unreadable
        /\ answered' = [answered EXCEPT ![req[h].group] = req[h].value]
     \/ "full" \in setup.events /\ UNCHANGED <<file, answered>>
  /\ UNCHANGED <<setup, up, value, active, updates>>
-----------------------------------------------------------------------------
(* POST /software/update                                                    *)

\* The active jobs are counted when the request comes.
Ask(h, force) ==
  /\ "update" \in setup.events /\ up = "up" /\ at[h] = "idle" /\ at' = [at EXCEPT ![h] = "status"]
  /\ req' = [req EXCEPT ![h] = [op |-> "update", force |-> force, jobs |-> active]]
  /\ UNCHANGED <<setup, up, settings, active, updates>>

\* running(): the script that was detached here, else the unit.
Running == (background # 0 /\ Alive(background)) \/ UnitActive

\* start() on the status it asked for; force overrides the jobs alone.
MayUpdate(r) == ~Running /\ (r.jobs = {} \/ r.force)

Status(h) ==
  /\ at[h] = "status"
  /\ IF MayUpdate(req[h]) THEN Goto(h, "start") ELSE Reply(h)
  /\ background' = IF background # 0 /\ Alive(background) THEN background ELSE 0
  /\ UNCHANGED <<setup, up, settings, active, script, head, src, venv>>

\* local_state(): a git that fails or is slow says what it says of a fixed tag, no branch.
Branches == {setup.branch} \cup IF "lookup" \in setup.events THEN {FALSE} ELSE {}

\* The script for the branch, or the one for a fixed ref.
Begun(r, s, branch) ==
  [script EXCEPT ![s] = [at |-> "fetch", force |-> r.force, jobs |-> r.jobs, branch |-> branch, got |-> src]]
BeginScript(r, s) == \E branch \in Branches : script' = Begun(r, s, branch)

\* Mutant of StartUnit: whatever systemd-run says, the script is detached instead.
StartUnit_Detaches(h) ==
  /\ at[h] = "start" /\ setup.systemd /\ Reply(h)
  /\ \E s \in Scripts : ~Alive(s) /\ BeginScript(req[h], s)
  /\ UNCHANGED <<setup, up, settings, active, background, head, src, venv>>
\* systemd-run fails, of itself or because a unit of that name is there already; or it starts one, and its
\* answer may not come within 30 seconds.
StartUnit(h) ==
  /\ at[h] = "start" /\ setup.systemd /\ Reply(h)
  /\ \/ UNCHANGED script
     \/ ~UnitActive /\ \E s \in Scripts : BeginScript(req[h], s)
  /\ UNCHANGED <<setup, up, settings, active, background, head, src, venv>>

\* Without systemd the script is a process of its own.
Detach(h) ==
  /\ at[h] = "start" /\ ~setup.systemd /\ Reply(h)
  /\ \E s \in Scripts : ~Alive(s) /\ BeginScript(req[h], s) /\ background' = s
  /\ UNCHANGED <<setup, up, settings, active, head, src, venv>>
-----------------------------------------------------------------------------
(* The script of build_script; its steps are chained with &&                *)

Continue(s, l) == script' = [script EXCEPT ![s].at = l]
Finish(s)      == script' = [script EXCEPT ![s] = NoScript]

Fetch(s) ==
  /\ script[s].at = "fetch"
  /\ script' = [script EXCEPT ![s].at = IF script[s].branch THEN "reset" ELSE "pip", ![s].got = head]
  /\ UNCHANGED <<setup, up, settings, active, at, req, background, head, src, venv>>

\* checkout --force and reset --hard.
Reset(s) ==
  /\ script[s].at = "reset" /\ Continue(s, "pip") /\ src' = script[s].got
  /\ UNCHANGED <<setup, up, settings, active, at, req, background, head, venv>>

Pip(s) ==
  /\ script[s].at = "pip" /\ Continue(s, "restart") /\ venv' = src
  /\ UNCHANGED <<setup, up, settings, active, at, req, background, head, src>>

\* systemctl stops a process that runs, and starts one.
Restart(s) ==
  /\ script[s].at = "restart" /\ setup.systemd /\ Continue(s, "restarting")
  /\ up' = IF up = "up" THEN "stopping" ELSE up
  /\ UNCHANGED <<setup, settings, active, at, req, background, head, src, venv>>

Restarted(s) ==
  /\ script[s].at = "restarting" /\ up = "up" /\ Finish(s)
  /\ UNCHANGED <<setup, up, settings, active, at, req, background, head, src, venv>>

\* Mutant of ScriptFails: set -e instead of &&, which the group's || suppresses: a failed pip is passed over.
ScriptFails_GoesOn(s) ==
  /\ script[s].at \in {"fetch", "reset", "pip", "restart"}
  /\ IF script[s].at = "pip" THEN Continue(s, "restart") ELSE Finish(s)
  /\ UNCHANGED <<setup, up, settings, active, at, req, background, head, src, venv>>
\* A step that fails is the last.
ScriptFails(s) ==
  /\ script[s].at \in {"fetch", "reset", "pip", "restart"} /\ Finish(s)
  /\ UNCHANGED <<setup, up, settings, active, at, req, background, head, src, venv>>
-----------------------------------------------------------------------------
(* The process                                                              *)

\* Told to stop, the server lets the requests at work end; the threads of jobs end with the process.
Stop ==
  /\ up = "stopping" /\ \A h \in Handlers : at[h] = "idle"
  /\ up' = "down"
  /\ UNCHANGED <<setup, settings, active, at, req, updates>>

\* The process dies, of itself or killed for not ending; in the middle of a save only where setup says so.
Die ==
  /\ up # "down" /\ up' = "down"
  /\ "kill" \in setup.events \/ \A h \in Handlers : at[h] \notin Saving
  /\ at' = [h \in Handlers |-> "idle"] /\ req' = [h \in Handlers |-> NoRequest]
  /\ UNCHANGED <<setup, settings, active, updates>>

\* lifespan: the overrides are loaded before anything is built from the settings, each group with a read of its
\* own, and the jobs that a process before left behind are failed.
Start ==
  /\ up = "down" /\ up' = "up"
  /\ \E data \in [Groups -> ReadResults] :
       value' = [g \in Groups |-> IF g \in DOMAIN data[g] THEN data[g][g] ELSE Env]
  /\ active' = {} /\ background' = 0
  /\ UNCHANGED <<setup, file, answered, at, req, script, head, src, venv>>

\* Jobs come and go; the branch moves on.
JobBegins(j) ==
  /\ "job" \in setup.events /\ up = "up" /\ active' = active \cup {j}
  /\ UNCHANGED <<setup, up, settings, at, req, updates>>

JobEnds(j) ==
  /\ up # "down" /\ j \in active /\ active' = active \ {j}
  /\ UNCHANGED <<setup, up, settings, at, req, updates>>

Push ==
  /\ head < MaxPushes /\ head' = head + 1
  /\ UNCHANGED <<setup, up, settings, active, at, req, background, script, src, venv>>

Init ==
  /\ setup \in Setups /\ up = "down"
  /\ value = [g \in Groups |-> Env] /\ file = [readable |-> TRUE, keys |-> Nothing] /\ answered = [g \in Groups |-> Env]
  /\ active = {}
  /\ at = [h \in Handlers |-> "idle"] /\ req = [h \in Handlers |-> NoRequest]
  /\ background = 0 /\ script = [s \in Scripts |-> NoScript]
  /\ head = 0 /\ src = 0 /\ venv = 0

HandlerStep(h) ==
  \/ ReadFile(h) \/ OpenFile(h) \/ Fill(h) \/ Status(h) \/ StartUnit(h) \/ Detach(h)
  \/ \E g \in Groups, v \in Values : Put(h, g, v)
  \/ \E force \in BOOLEAN : Ask(h, force)

ScriptStep(s) == Fetch(s) \/ Reset(s) \/ Pip(s) \/ Restart(s) \/ Restarted(s) \/ ScriptFails(s)

Next ==
  \/ \E h \in Handlers : HandlerStep(h)
  \/ \E s \in Scripts : ScriptStep(s)
  \/ \E j \in Jobs : JobBegins(j) \/ JobEnds(j)
  \/ Stop \/ Die \/ Start \/ Push

Spec == Init /\ [][Next]_vars
-----------------------------------------------------------------------------
(* Properties                                                               *)

\* systemd-run's unit (updater.py:206): however many requests find no update running and start one, before and
\* after the restarts an update and other things cause, two scripts never work on the checkout at once.
OneUpdate == setup.systemd => \A s, t \in Scripts : Alive(s) /\ Alive(t) => s = t

\* An update restarts the service only into the complete package of the checkout, which is the commit it fetched
\* if its script is the one for a branch; and unless it was forced, no job was active when it was asked for
\* (install-helper.md, "The update is refused while migrations are running (the restart would abort them) unless
\* forced").  That is all the refusal is worth: a job that begins later is restarted under.
RestartIsSafe ==
  [][\A s \in Scripts :
       script[s].at = "restart" /\ script'[s].at = "restarting" =>
         /\ venv = src /\ (script[s].branch => src = script[s].got)
         /\ script[s].force \/ script[s].jobs = {}]_vars

\* "The change is applied to the running process regardless" and overrides the environment on the next start:
\* every process starts with what was last saved without a warning, of the one group and of the other, as long
\* as saves do not overlap, none is cut short and the file can be read (runtime_settings.write reads, truncates and
\* writes).
SettingsSurvive ==
  [][setup.events \cap {"overlap", "kill", "full", "unread"} = {} /\ up = "down" /\ up' = "up" =>
       value' = answered]_vars
================================================================================
