------------------------------ MODULE HelperProofs ------------------------------
(***************************************************************************)
(* Proofs about what runs on the helper beside the migrations: the service  *)
(* (settings and updates), the remote consoles, and the fix-up of guests,   *)
(* for any requests, scripts, jobs, commits, setups, sessions, guests and   *)
(* faults.  The parts share no variable.                                    *)
(***************************************************************************)
EXTENDS Service, Console, GuestFixup, FiniteSetTheorems, TLAPS

-----------------------------------------------------------------------------
(* The service.  At most one update works on the checkout, it restarts the  *)
(* service only into the package it installed, and what was saved survives  *)
(* every restart.                                                           *)

Places == {"idle", "read", "open", "fill", "status", "start"}
ScriptStages == {"none", "fetch", "reset", "pip", "restart", "restarting"}

\* A handler's request has the fields its handler uses; so has a script that is at work.
Shapes ==
  /\ setup \in Setups /\ up \in {"up", "stopping", "down"}
  /\ at = [h \in Handlers |-> at[h]] /\ \A h \in Handlers : at[h] \in Places
  /\ req = [h \in Handlers |-> req[h]]
  /\ \A h \in Handlers : at[h] \in Saving =>
       /\ req[h] = [op |-> "put", group |-> req[h].group, value |-> req[h].value, data |-> req[h].data]
       /\ req[h].group \in Groups
  /\ \A h \in Handlers : at[h] \in {"status", "start"} =>
       req[h] = [op |-> "update", force |-> req[h].force, jobs |-> req[h].jobs]
  /\ script = [s \in Scripts |-> script[s]]
  /\ \A s \in Scripts :
       /\ script[s].at \in ScriptStages
       /\ Alive(s) =>
            script[s] = [at |-> script[s].at, force |-> script[s].force, jobs |-> script[s].jobs,
                         branch |-> script[s].branch, got |-> script[s].got]

\* Who goes on to start an update found no job active when it was asked for, or was forced: so was its script.
Asked ==
  /\ \A h \in Handlers : at[h] = "start" => req[h].jobs = {} \/ req[h].force
  /\ \A s \in Scripts : Alive(s) => script[s].jobs = {} \/ script[s].force

\* The checkout is the script's from the reset to the end, and the package from the installation on.
InstalledRight ==
  setup.systemd =>
    \A s \in Scripts :
      /\ script[s].at \in {"pip", "restart"} /\ script[s].branch => src = script[s].got
      /\ script[s].at = "restart" => venv = src

UpdateInv == Shapes /\ Asked /\ OneUpdate /\ InstalledRight

-----------------------------------------------------------------------------
(* Updates                                                                  *)

LEMMA UpdateInit == Init => UpdateInv
BY DEF Init, UpdateInv, Shapes, Places, ScriptStages, Saving, Asked, OneUpdate, InstalledRight, Alive, NoScript, NoRequest

\* Saving settings does not touch the updates.
LEMMA SaveKeepsUpdates ==
  ASSUME UpdateInv, NEW h \in Handlers,
         ReadFile(h) \/ OpenFile(h) \/ Fill(h) \/ \E g \in Groups, v \in Values : Put(h, g, v)
  PROVE  UpdateInv'
<1>1. /\ UNCHANGED <<setup, up, script, src, venv>>
      /\ at' = [at EXCEPT ![h] = at'[h]] /\ req' = [req EXCEPT ![h] = req'[h]]
      /\ at'[h] \in {"read", "open", "fill", "idle"}
  BY DEF UpdateInv, Shapes, ReadFile, OpenFile, Fill, Put, Goto, Reply, updates, settings
<1>2. at'[h] \in Saving =>
        /\ req'[h] = [op |-> "put", group |-> req'[h].group, value |-> req'[h].value, data |-> req'[h].data]
        /\ req'[h].group \in Groups
  BY DEF UpdateInv, Shapes, ReadFile, OpenFile, Fill, Put, Goto, Reply, updates, settings, Saving
<1>3. Shapes'
  BY <1>1, <1>2 DEF UpdateInv, Shapes, Places, Saving, Alive
<1>4. Asked' /\ OneUpdate' /\ InstalledRight'
  BY <1>1 DEF UpdateInv, Shapes, Asked, OneUpdate, InstalledRight, Alive
<1> QED
  BY <1>3, <1>4 DEF UpdateInv

\* A request for an update that does not start it.
LEMMA AskKeepsUpdates ==
  ASSUME UpdateInv, NEW h \in Handlers, Status(h) \/ \E force \in BOOLEAN : Ask(h, force)
  PROVE  UpdateInv'
<1>1. /\ UNCHANGED <<setup, up, script, src, venv>>
      /\ at' = [at EXCEPT ![h] = at'[h]] /\ req' = [req EXCEPT ![h] = req'[h]]
      /\ at'[h] \in {"status", "start", "idle"}
  BY DEF UpdateInv, Shapes, Status, Ask, Goto, Reply, updates
<1>2. /\ at'[h] # "idle" => req'[h] = [op |-> "update", force |-> req'[h].force, jobs |-> req'[h].jobs]
      /\ at'[h] = "start" => req'[h].jobs = {} \/ req'[h].force
  BY DEF UpdateInv, Shapes, Status, Ask, Goto, Reply, updates, MayUpdate
<1>3. Shapes'
  BY <1>1, <1>2 DEF UpdateInv, Shapes, Places, Saving, Alive
<1>4. Asked' /\ OneUpdate' /\ InstalledRight'
  BY <1>1, <1>2 DEF UpdateInv, Shapes, Asked, OneUpdate, InstalledRight, Alive
<1> QED
  BY <1>3, <1>4 DEF UpdateInv

\* A script begins where systemd has no unit of the name, or without systemd.
LEMMA StartKeepsUpdates ==
  ASSUME UpdateInv, NEW h \in Handlers, StartUnit(h) \/ Detach(h)
  PROVE  UpdateInv'
<1>1. /\ UNCHANGED <<setup, up, src, venv>> /\ at[h] = "start"
      /\ at' = [at EXCEPT ![h] = "idle"] /\ req' = [req EXCEPT ![h] = NoRequest]
  BY DEF StartUnit, Detach, Reply
<1>2. CASE UNCHANGED script
  BY <1>1, <1>2 DEF UpdateInv, Shapes, Asked, OneUpdate, InstalledRight, Alive, Saving, Places, NoRequest
<1>3. ASSUME NEW s \in Scripts, BeginScript(req[h], s),
             ~Alive(s) /\ (setup.systemd => \A t \in Scripts : ~Alive(t))
      PROVE  UpdateInv'
  <2>1. /\ script' = [script EXCEPT ![s] = script'[s]]
        /\ \E branch \in Branches : script'[s] = [at |-> "fetch", force |-> req[h].force, jobs |-> req[h].jobs,
                                              branch |-> branch, got |-> src]
    BY <1>3 DEF UpdateInv, Shapes, BeginScript, Begun
  <2>2. /\ script'[s].at = "fetch" /\ script'[s].force = req[h].force /\ script'[s].jobs = req[h].jobs
        /\ script'[s].got = src
        /\ \A t \in Scripts : t # s => script'[t] = script[t]
    BY <2>1 DEF UpdateInv, Shapes
  <2>3. Shapes'
    <3>1. \A t \in Scripts :
           /\ script'[t].at \in ScriptStages
           /\ script'[t].at # "none" =>
                script'[t] = [at |-> script'[t].at, force |-> script'[t].force, jobs |-> script'[t].jobs,
                              branch |-> script'[t].branch, got |-> script'[t].got]
      BY <2>1, <2>2 DEF UpdateInv, Shapes, ScriptStages, Alive
    <3>2. script' = [t \in Scripts |-> script'[t]]
      BY <2>1 DEF UpdateInv, Shapes
    <3> QED
      BY <1>1, <3>1, <3>2 DEF UpdateInv, Shapes, Places, Saving, Alive
  <2>4. Asked'
    BY <1>1, <2>2 DEF UpdateInv, Shapes, Asked, Alive
  <2>5. OneUpdate' /\ InstalledRight'
    BY <1>1, <1>3, <2>2 DEF UpdateInv, Shapes, OneUpdate, InstalledRight, Alive
  <2> QED
    BY <2>3, <2>4, <2>5 DEF UpdateInv
<1> QED
  BY <1>2, <1>3 DEF StartUnit, Detach, UnitActive

\* The steps of the script: under systemd it is the only one, so the checkout is its own.
LEMMA ScriptKeepsUpdates ==
  ASSUME UpdateInv, NEW s \in Scripts, ScriptStep(s)
  PROVE  UpdateInv'
<1>1. /\ UNCHANGED <<setup, at, req>> /\ up' \in {"up", "stopping", "down"}
      /\ script' = [script EXCEPT ![s] = script'[s]] /\ Alive(s)
  BY DEF UpdateInv, Shapes, ScriptStep, Fetch, Reset, Pip, Restart, Restarted, ScriptFails, Continue, Finish, Alive
<1>2. \/ script'[s] = NoScript
      \/ /\ script'[s].at \in ScriptStages \ {"none"} /\ script'[s].force = script[s].force
         /\ script'[s].jobs = script[s].jobs
         /\ script'[s] = [at |-> script'[s].at, force |-> script'[s].force, jobs |-> script'[s].jobs,
                         branch |-> script'[s].branch, got |-> script'[s].got]
  BY DEF UpdateInv, Shapes, ScriptStages, ScriptStep, Fetch, Reset, Pip, Restart, Restarted, ScriptFails, Continue,
     Finish, Alive
<1>3. Shapes' /\ Asked'
  BY <1>1, <1>2 DEF UpdateInv, Shapes, Asked, ScriptStages, Alive, NoScript
<1>4. OneUpdate'
  BY <1>1, <1>2 DEF UpdateInv, Shapes, OneUpdate, Alive, NoScript
<1>5. setup.systemd =>
        /\ script'[s].at \in {"pip", "restart"} /\ script'[s].branch => src' = script'[s].got
        /\ script'[s].at = "restart" => venv' = src'
  <2>1. CASE Fetch(s) \/ Reset(s) \/ Pip(s)
    BY <2>1 DEF UpdateInv, Shapes, InstalledRight, Fetch, Reset, Pip, Continue, Alive
  <2>2. CASE Restart(s)
    <3>1. script'[s].at = "restarting"
      BY <2>2 DEF UpdateInv, Shapes, Restart, Continue, Alive
    <3> QED
      BY <3>1
  <2>3. CASE Restarted(s) \/ ScriptFails(s)
    <3>1. script'[s].at = "none"
      BY <2>3 DEF UpdateInv, Shapes, Restarted, ScriptFails, Finish, NoScript
    <3> QED
      BY <3>1
  <2> QED
    BY <2>1, <2>2, <2>3 DEF ScriptStep
<1>6. InstalledRight'
  BY <1>1, <1>2, <1>5 DEF UpdateInv, Shapes, OneUpdate, InstalledRight, Alive, NoScript
<1> QED
  BY <1>3, <1>4, <1>6 DEF UpdateInv

LEMMA ProcessKeepsUpdates ==
  ASSUME UpdateInv, Stop \/ Die \/ Start \/ Push \/ UNCHANGED vars \/ \E j \in Jobs : JobBegins(j) \/ JobEnds(j)
  PROVE  UpdateInv'
<1>1. UNCHANGED <<setup, script, src, venv>> /\ up' \in {"up", "stopping", "down"}
  BY DEF UpdateInv, Shapes, Stop, Die, Start, Push, vars, JobBegins, JobEnds, updates, settings
<1>2. \/ UNCHANGED <<at, req>>
      \/ at' = [h \in Handlers |-> "idle"] /\ req' = [h \in Handlers |-> NoRequest]
  BY DEF Stop, Die, Start, Push, vars, JobBegins, JobEnds, updates, settings
<1>3. Shapes'
  BY <1>1, <1>2 DEF UpdateInv, Shapes, Places, Saving, Alive, NoRequest
<1>4. Asked' /\ OneUpdate' /\ InstalledRight'
  BY <1>1, <1>2 DEF UpdateInv, Shapes, Asked, OneUpdate, InstalledRight, Alive
<1> QED
  BY <1>3, <1>4 DEF UpdateInv

LEMMA UpdateNext == UpdateInv /\ [Next]_vars => UpdateInv'
BY SaveKeepsUpdates, AskKeepsUpdates, StartKeepsUpdates, ScriptKeepsUpdates, ProcessKeepsUpdates
DEF Next, HandlerStep

\* systemd-run's unit (updater.py:206) keeps a second script from the checkout, whatever asks for it and
\* however often the service restarts meanwhile.
THEOREM UpdateIsAlone == Spec => []OneUpdate
BY UpdateInit, UpdateNext, PTL DEF Spec, UpdateInv

LEMMA SafeRestart ==
  UpdateInv /\ [Next]_vars =>
    \A s \in Scripts :
      script[s].at = "restart" /\ script'[s].at = "restarting" =>
        /\ venv = src /\ (script[s].branch => src = script[s].got)
        /\ script[s].force \/ script[s].jobs = {}
<1> SUFFICES ASSUME UpdateInv, [Next]_vars,
                    NEW s \in Scripts, script[s].at = "restart", script'[s].at = "restarting"
             PROVE  /\ venv = src /\ (script[s].branch => src = script[s].got)
                    /\ script[s].force \/ script[s].jobs = {}
  OBVIOUS
<1>1. script[s].force \/ script[s].jobs = {}
  BY DEF UpdateInv, Asked, Alive
<1>2. setup.systemd
  <2>1. ~UNCHANGED script
    OBVIOUS
  <2>2. PICK t \in Scripts : ScriptStep(t) \/ (script' = [script EXCEPT ![t] = script'[t]] /\ script'[t].at = "fetch")
    <3>1. ASSUME NEW h \in Handlers, NEW t \in Scripts, BeginScript(req[h], t)
          PROVE  script' = [script EXCEPT ![t] = script'[t]] /\ script'[t].at = "fetch"
      BY <3>1 DEF UpdateInv, Shapes, BeginScript, Begun
    <3>2. CASE \E h \in Handlers : StartUnit(h) \/ Detach(h)
      BY <2>1, <3>1, <3>2 DEF StartUnit, Detach
    <3>3. CASE \E h \in Handlers : HandlerStep(h) /\ ~StartUnit(h) /\ ~Detach(h)
      BY <2>1, <3>3 DEF HandlerStep, ReadFile, OpenFile, Fill, Put, Ask, Status, updates
    <3>4. CASE Stop \/ Die \/ Start \/ Push \/ UNCHANGED vars \/ \E j \in Jobs : JobBegins(j) \/ JobEnds(j)
      BY <2>1, <3>4 DEF Stop, Die, Start, Push, vars, JobBegins, JobEnds, updates
    <3>5. CASE \E t \in Scripts : ScriptStep(t)
      BY <3>5
    <3> QED
      BY <3>2, <3>3, <3>4, <3>5 DEF Next
  <2>3. t = s
    <3>1. ScriptStep(t) => \A u \in Scripts : u # t => script'[u] = script[u]
      BY DEF UpdateInv, Shapes, ScriptStep, Fetch, Reset, Pip, Restart, Restarted, ScriptFails, Continue, Finish
    <3> QED
      BY <2>2, <3>1 DEF UpdateInv, Shapes
  <2>4. Restart(s)
    <3>1. Finish(s) => script'[s].at = "none"
      BY DEF UpdateInv, Shapes, Finish, NoScript
    <3> QED
      BY <2>2, <2>3, <3>1 DEF ScriptStep, Fetch, Reset, Pip, Restarted, ScriptFails
  <2> QED
    BY <2>4 DEF Restart
<1> QED
  BY <1>1, <1>2 DEF UpdateInv, InstalledRight

\* The script of an update stops the running service only after the package of the checkout is complete, which is
\* the commit it fetched if it follows a branch, and only if it was forced or no job was active when it was asked
\* for; a job that begins after that is restarted under (updater.py, build_script, start).
THEOREM UpdateRestartsSafely == Spec => RestartIsSafe
<1>1. UpdateInv /\ [Next]_vars => UpdateInv'
  BY UpdateNext
<1> QED
  BY <1>1, UpdateInit, SafeRestart, PTL DEF Spec, RestartIsSafe

-----------------------------------------------------------------------------
(* Settings                                                                 *)

\* No save overlaps another, is killed or meets a full disk.
Calm == setup.events \cap {"overlap", "kill", "full", "unread"} = {}

\* What a process would start with from these overrides.
Started(keys) == [g \in Groups |-> IF g \in DOMAIN keys THEN keys[g] ELSE Env]

\* One save at a time, while the process is there.
OneSave ==
  /\ \A h, o \in Handlers : at[h] \in Saving /\ at[o] \in Saving => h = o
  /\ up = "down" => \A h \in Handlers : at[h] \notin Saving

\* The file, or what the handler that has truncated it has read of it, is what was answered.
Kept ==
  /\ answered = [g \in Groups |-> answered[g]]
  /\ file = [readable |-> file.readable, keys |-> file.keys]
  /\ \A h \in Handlers : at[h] = "open" => req[h].data = Overrides
  /\ (\A h \in Handlers : at[h] # "fill") => file.readable /\ answered = Started(file.keys)
  /\ \A h \in Handlers : at[h] = "fill" => ~file.readable /\ answered = Started(req[h].data)

SettingsInv == Shapes /\ (Calm => OneSave /\ Kept)

LEMMA SettingsInit == Init => SettingsInv
<1> SUFFICES ASSUME Init PROVE SettingsInv
  OBVIOUS
<1>1. Shapes
  BY UpdateInit DEF UpdateInv
<1>2. OneSave
  BY DEF Init, OneSave, Saving
<1>3. Kept
  BY DEF Init, Kept, Started, Nothing
<1> QED
  BY <1>1, <1>2, <1>3 DEF SettingsInv

\* Begin of a save: no other is under way.
LEMMA PutKeepsSettings ==
  ASSUME SettingsInv, Shapes', Calm, NEW h \in Handlers, NEW g \in Groups, NEW v \in Values, Put(h, g, v)
  PROVE  OneSave' /\ Kept'
<1>1. /\ up = "up" /\ at[h] = "idle" /\ UNCHANGED <<up, file, answered>> /\ \A o \in Handlers : at[o] \notin Saving
      /\ at' = [at EXCEPT ![h] = "read"] /\ req' = [req EXCEPT ![h] = req'[h]]
  BY DEF Put, Calm, SettingsInv, Shapes
<1>2. OneSave'
  BY <1>1 DEF SettingsInv, OneSave, Saving, Shapes
<1>3. Kept'
  BY <1>1 DEF SettingsInv, Kept, Saving, Shapes, Overrides
<1> QED
  BY <1>2, <1>3

LEMMA ReadKeepsSettings ==
  ASSUME SettingsInv, Shapes', Calm, NEW h \in Handlers, ReadFile(h)
  PROVE  OneSave' /\ Kept'
<1>1. /\ UNCHANGED <<up, file, answered>> /\ at[h] = "read" /\ req'[h].data = Overrides
      /\ at' = [at EXCEPT ![h] = "open"] /\ req' = [req EXCEPT ![h] = req'[h]]
  BY DEF ReadFile, ReadResults, Calm, SettingsInv, Shapes, settings, Saving
<1>2. OneSave'
  BY <1>1 DEF SettingsInv, OneSave, Saving, Shapes
<1>3. Kept'
  BY <1>1 DEF SettingsInv, Kept, Shapes, Overrides
<1> QED
  BY <1>2, <1>3

LEMMA OpenKeepsSettings ==
  ASSUME SettingsInv, Shapes', Calm, NEW h \in Handlers, OpenFile(h)
  PROVE  OneSave' /\ Kept'
<1>1. /\ UNCHANGED <<up, answered>> /\ at[h] = "open" /\ \A o \in Handlers \ {h} : at[o] \notin Saving
  BY DEF OpenFile, SettingsInv, OneSave, Saving
<1>2. file.readable /\ answered = Started(file.keys) /\ req[h].data = file.keys
  BY <1>1 DEF SettingsInv, Kept, Overrides, Saving
<1>3. CASE Goto(h, "fill") /\ file' = Unreadable
  <2>1. at' = [at EXCEPT ![h] = "fill"] /\ req' = req
    BY <1>3 DEF Goto
  <2>2. OneSave'
    BY <1>1, <2>1 DEF SettingsInv, OneSave, Saving, Shapes
  <2>3. Kept'
    BY <1>1, <1>2, <1>3, <2>1 DEF SettingsInv, Kept, Saving, Shapes, Unreadable
  <2> QED
    BY <2>2, <2>3
<1>4. CASE Reply(h) /\ UNCHANGED file
  <2>1. at' = [at EXCEPT ![h] = "idle"] /\ req' = [req EXCEPT ![h] = NoRequest]
    BY <1>4 DEF Reply
  <2>2. OneSave'
    BY <1>1, <2>1 DEF SettingsInv, OneSave, Saving, Shapes
  <2>3. Kept'
    BY <1>1, <1>2, <1>4, <2>1 DEF SettingsInv, Kept, Saving, Shapes
  <2> QED
    BY <2>2, <2>3
<1> QED
  BY <1>3, <1>4 DEF OpenFile

\* The file is written as a whole, with the request's value over what it was before.
LEMMA FillKeepsSettings ==
  ASSUME SettingsInv, Shapes', Calm, NEW h \in Handlers, Fill(h)
  PROVE  OneSave' /\ Kept'
<1>1. /\ UNCHANGED up /\ at[h] = "fill" /\ \A o \in Handlers \ {h} : at[o] \notin Saving
      /\ at' = [at EXCEPT ![h] = "idle"] /\ req' = [req EXCEPT ![h] = NoRequest]
  BY DEF Fill, Reply, SettingsInv, OneSave, Saving
<1>2. ~file.readable /\ answered = Started(req[h].data)
  BY <1>1 DEF SettingsInv, Kept
<1>3. /\ file' = [readable |-> TRUE, keys |-> Merged(req[h])]
      /\ answered' = [answered EXCEPT ![req[h].group] = req[h].value]
  BY <1>2 DEF Fill, Calm
<1>4. req[h].group \in Groups
  BY <1>1 DEF SettingsInv, Shapes, Saving
<1>5. OneSave'
  BY <1>1 DEF SettingsInv, OneSave, Saving, Shapes
<1>6. answered' = Started(Merged(req[h]))
  BY <1>2, <1>3, <1>4 DEF Started, Merged
<1>7. file'.readable /\ answered' = Started(file'.keys)
  BY <1>3, <1>6
<1>8. \A o \in Handlers : at'[o] \notin Saving
  BY <1>1 DEF SettingsInv, Shapes, Saving
<1>9. answered' = [g \in Groups |-> answered'[g]]
  BY <1>6 DEF Started
<1>10. file' = [readable |-> file'.readable, keys |-> file'.keys]
  BY <1>3
<1>11. Kept'
  BY <1>7, <1>8, <1>9, <1>10 DEF Kept, Saving
<1> QED
  BY <1>5, <1>11

\* What is neither saved nor loaded here.
LEMMA OtherKeepsSettings ==
  ASSUME SettingsInv, Shapes', Calm, UNCHANGED <<file, answered>>,
         \/ /\ \E h \in Handlers : /\ at[h] \notin Saving /\ at' = [at EXCEPT ![h] = at'[h]] /\ at'[h] \notin Saving
                                   /\ req' = [req EXCEPT ![h] = req'[h]]
            /\ UNCHANGED up
         \/ UNCHANGED <<at, req>> /\ (up' = "down" /\ up # "down" => \A h \in Handlers : at[h] \notin Saving)
         \/ /\ \A h \in Handlers : at[h] \notin Saving
            /\ at' = [h \in Handlers |-> "idle"] /\ req' = [h \in Handlers |-> NoRequest]
  PROVE  OneSave' /\ Kept'
<1>1. OneSave'
  BY DEF SettingsInv, OneSave, Saving, Shapes
<1>2. Kept'
  BY DEF SettingsInv, Kept, Saving, Shapes, Overrides
<1> QED
  BY <1>1, <1>2

LEMMA SettingsNext == UpdateInv /\ SettingsInv /\ [Next]_vars => SettingsInv'
<1> SUFFICES ASSUME UpdateInv, SettingsInv, [Next]_vars PROVE SettingsInv'
  OBVIOUS
<1>1. Shapes' /\ (Calm' <=> Calm)
  BY UpdateNext DEF UpdateInv, Calm, Next, HandlerStep, ReadFile, OpenFile, Fill, Put, Ask, Status, StartUnit, Detach,
    ScriptStep, Fetch, Reset, Pip, Restart, Restarted, ScriptFails, Stop, Die, Start, Push, vars, JobBegins, JobEnds
<1> SUFFICES ASSUME Calm PROVE OneSave' /\ Kept'
  BY <1>1 DEF SettingsInv
<1>2. CASE \E h \in Handlers : ReadFile(h) \/ OpenFile(h) \/ Fill(h) \/ \E g \in Groups, v \in Values : Put(h, g, v)
  BY <1>1, <1>2, PutKeepsSettings, ReadKeepsSettings, OpenKeepsSettings, FillKeepsSettings
<1>3. ASSUME NEW h \in Handlers,
             Status(h) \/ StartUnit(h) \/ Detach(h) \/ \E force \in BOOLEAN : Ask(h, force)
      PROVE  OneSave' /\ Kept'
  <2>1. /\ UNCHANGED <<up, file, answered>>
        /\ at[h] \notin Saving /\ at' = [at EXCEPT ![h] = at'[h]] /\ at'[h] \notin Saving
        /\ req' = [req EXCEPT ![h] = req'[h]]
    BY <1>3 DEF SettingsInv, Shapes, Status, StartUnit, Detach, Ask, Goto, Reply, settings, Saving
  <2> QED
    BY <1>1, <2>1, OtherKeepsSettings
<1>4. ASSUME NEW s \in Scripts, ScriptStep(s) PROVE OneSave' /\ Kept'
  <2>1. UNCHANGED <<file, answered, at, req>> /\ up' \in {up, "stopping"}
    BY <1>4 DEF ScriptStep, Fetch, Reset, Pip, Restart, Restarted, ScriptFails, settings
  <2> QED
    BY <1>1, <2>1, OtherKeepsSettings
<1>5. CASE Stop \/ Start \/ Push \/ UNCHANGED vars \/ \E j \in Jobs : JobBegins(j) \/ JobEnds(j)
  <2>1. /\ UNCHANGED <<file, answered, at, req>>
        /\ up' = "down" /\ up # "down" => \A h \in Handlers : at[h] \notin Saving
    BY <1>5 DEF Stop, Start, Push, vars, JobBegins, JobEnds, updates, settings, Saving
  <2> QED
    BY <1>1, <2>1, OtherKeepsSettings
<1>6. CASE Die
  <2>1. /\ UNCHANGED <<file, answered>> /\ \A h \in Handlers : at[h] \notin Saving
        /\ at' = [h \in Handlers |-> "idle"] /\ req' = [h \in Handlers |-> NoRequest]
    BY <1>6 DEF Die, Calm, settings
  <2> QED
    BY <1>1, <2>1, OtherKeepsSettings
<1> QED
  BY <1>2, <1>3, <1>4, <1>5, <1>6 DEF Next, HandlerStep

LEMMA SettingsLoaded == SettingsInv /\ [Next]_vars => (Calm /\ up = "down" /\ up' = "up" => value' = answered)
<1> SUFFICES ASSUME SettingsInv, [Next]_vars, Calm, up = "down", up' = "up" PROVE value' = answered
  OBVIOUS
<1>1. Start
  BY DEF Next, HandlerStep, ReadFile, OpenFile, Fill, Put, Ask, Status, StartUnit, Detach,
    ScriptStep, Fetch, Reset, Pip, Restart, Restarted, ScriptFails, Stop, Die, Push, vars, JobBegins, JobEnds,
    Goto, Reply
<1>2. file.readable /\ answered = Started(file.keys)
  BY DEF SettingsInv, OneSave, Kept, Saving
<1> QED
  BY <1>1, <1>2 DEF Start, Started, Overrides, ReadResults, Calm

\* Every process starts with what was last saved of either group (runtime_settings.write merges into the file
\* that the next process reads), as long as saves do not overlap, none is cut short and the file can be read.
THEOREM SavedSettingsSurvive == Spec => SettingsSurvive
<1>1. UpdateInv /\ SettingsInv /\ [Next]_vars => (UpdateInv /\ SettingsInv)'
  BY UpdateNext, SettingsNext
<1>2. SettingsInv /\ [Next]_vars =>
        (setup.events \cap {"overlap", "kill", "full", "unread"} = {} /\ up = "down" /\ up' = "up" => value' = answered)
  BY SettingsLoaded DEF Calm
<1> QED
  BY <1>1, <1>2, UpdateInit, SettingsInit, PTL DEF Spec, SettingsSurvive

-----------------------------------------------------------------------------
(* Consoles, with one key.  The lock keeps two opens apart; the session a    *)
(* creation is for stays under its key until it is popped; what a close or   *)
(* the reaper deletes has been popped; there is room for whoever may install. *)

Current == sessions[InstanceKey]
Inside  == {"room", "evict", "install"}

ConsoleTypes ==
  /\ used \in 0..MaxSessions /\ sessions \in [Keys -> 0..used]
  /\ state \in [Sids -> {"NONE", "CREATING", "ACTIVE", "FAILED", "CLOSED"}]
  /\ task \in [Sids -> {"none", "new", "call", "wait", "result", "raise", "done"}]
  /\ cancelled \in [Sids -> BOOLEAN] /\ oci \in [Sids -> {"none", "creating", "active", "deleted"}]
  /\ upc \in [Users -> {"idle", "waiting", "room", "evict", "install", "delete"}] /\ ukey \in [Users -> Keys]
  /\ usess \in [Users -> 0..ForeignId] /\ queue \in Seq(Users)
  /\ todo \subseteq Keys \X Nat /\ rsess \in 0..MaxSessions

OneOpens ==
  /\ \A u \in Users : upc[u] \in Inside => lock = u /\ ~Serving(Current)
  /\ \A i \in 1..Len(queue) : upc[queue[i]] = "waiting"
  /\ \A i, j \in 1..Len(queue) : queue[i] = queue[j] => i = j

ItsSession ==
  /\ \A s \in Sids : s > used => ~cancelled[s]
  /\ Current # 0 =>
       /\ ~cancelled[Current] /\ state[Current] \in {"CREATING", "ACTIVE", "FAILED"}
       /\ state[Current] = "CREATING" <=> task[Current] # "done"
       /\ state[Current] = "ACTIVE" \/ task[Current] = "result" => oci[Current] = "active"

OnlyPopped ==
  /\ \A u \in Users : upc[u] = "delete" => usess[u] \in 1..used /\ usess[u] # Current
  /\ rpc \in {"delete", "deleted"} => rsess \in 1..used /\ rsess # Current

RoomLeft == used + Cardinality(Opening) <= MaxSessions

ConsoleInv == ConsoleTypes /\ OneOpens /\ ItsSession /\ OnlyPopped /\ RoomLeft

LEMMA CurrentFacts ==
  ASSUME ConsoleTypes, Keys = {InstanceKey}
  PROVE  /\ Current \in 0..used /\ used \in Nat /\ MaxSessions \in Nat /\ used <= MaxSessions
         /\ Current # 0 => Current \in Sids /\ Current \in 1..used
         /\ 0 \notin Sids /\ 1..used \subseteq Sids /\ ForeignId \notin Sids
BY SessionsAssumption DEF ConsoleTypes, Current, Sids, ForeignId

LEMMA OpeningIsFinite ==
  Opening \subseteq Users /\ IsFiniteSet(Opening) /\ Cardinality(Opening) \in Nat
<1>1. Opening \subseteq Users
  BY DEF Opening
<1>2. IsFiniteSet(Opening)
  BY <1>1, UsersAssumption, FS_Subset
<1>. QED
  BY <1>1, <1>2, FS_CardinalityType

\* What a request's step does to the number of opens under way.
LEMMA OpeningChanges ==
  ASSUME ConsoleTypes, NEW u \in Users,
         NEW w \in {"idle", "waiting", "room", "evict", "install", "delete"}, upc' = [upc EXCEPT ![u] = w]
  PROVE  /\ Cardinality(Opening') \in Nat
         /\ w \notin {"waiting", "room", "evict", "install"} =>
              /\ Cardinality(Opening') <= Cardinality(Opening)
              /\ u \in Opening => Cardinality(Opening') = Cardinality(Opening) - 1
         /\ w \in {"waiting", "room", "evict", "install"} =>
              /\ Cardinality(Opening') <= Cardinality(Opening) + 1
              /\ u \in Opening => Cardinality(Opening') = Cardinality(Opening)
<1>1. w \notin {"waiting", "room", "evict", "install"} => Opening' = Opening \ {u}
  BY DEF Opening, ConsoleTypes
<1>2. w \in {"waiting", "room", "evict", "install"} => Opening' = Opening \cup {u}
  BY DEF Opening, ConsoleTypes
<1>3. IsFiniteSet(Opening) /\ Cardinality(Opening) \in Nat
  BY OpeningIsFinite
<1>4. /\ Cardinality(Opening \ {u}) = IF u \in Opening THEN Cardinality(Opening) - 1 ELSE Cardinality(Opening)
      /\ Cardinality(Opening \cup {u}) = IF u \in Opening THEN Cardinality(Opening) ELSE Cardinality(Opening) + 1
      /\ Cardinality(Opening \ {u}) \in Nat /\ Cardinality(Opening \cup {u}) \in Nat
  BY <1>3, FS_AddElement, FS_RemoveElement, FS_CardinalityType
<1>5. CASE w \notin {"waiting", "room", "evict", "install"}
  <2>1. Cardinality(Opening') = Cardinality(Opening \ {u})
    BY <1>1, <1>5
  <2>. QED
    BY <1>3, <1>4, <1>5, <2>1
<1>6. CASE w \in {"waiting", "room", "evict", "install"}
  <2>1. Cardinality(Opening') = Cardinality(Opening \cup {u})
    BY <1>2, <1>6
  <2>. QED
    BY <1>3, <1>4, <1>6, <2>1
<1>. QED
  BY <1>5, <1>6

\* A creation's step, or the connection's own: it is about one session only.
LEMMA CreationKeeps ==
  ASSUME ConsoleInv, Keys = {InstanceKey}, NEW s \in Sids, CreateStep(s) \/ Activates(s)
  PROVE  ConsoleInv'
<1>1. UNCHANGED <<sessions, used, cancelled, lock, queue, upc, ukey, usess, rpc, todo, rsess>>
  BY DEF CreateStep, DropCall, Generate, CallCreate, CreateEnds, Created, CreateFailed, Activates, table, objects,
     creator, world, users, reaper
<1>2. \A r \in Sids \ {s} : state'[r] = state[r] /\ task'[r] = task[r] /\ oci'[r] = oci[r]
  <2>. USE DEF Set, objects, creator, world, ConsoleInv, ConsoleTypes
  <2>1. CASE DropCall(s) \/ Generate(s) \/ CreateEnds(s)
    BY <2>1 DEF DropCall, Generate, CreateEnds
  <2>2. CASE CallCreate(s) \/ Activates(s)
    BY <2>2 DEF CallCreate, Activates
  <2>3. CASE Created(s) \/ CreateFailed(s)
    BY <2>3 DEF Created, CreateFailed
  <2>. QED
    BY <2>1, <2>2, <2>3 DEF CreateStep
<1>3. /\ state' \in [Sids -> {"NONE", "CREATING", "ACTIVE", "FAILED", "CLOSED"}]
      /\ task' \in [Sids -> {"none", "new", "call", "wait", "result", "raise", "done"}]
      /\ oci' \in [Sids -> {"none", "creating", "active", "deleted"}]
  <2>. USE DEF Set, objects, creator, world, ConsoleInv, ConsoleTypes
  <2>1. CASE DropCall(s) \/ Generate(s) \/ CreateEnds(s)
    BY <2>1 DEF DropCall, Generate, CreateEnds
  <2>2. CASE CallCreate(s) \/ Activates(s)
    BY <2>2 DEF CallCreate, Activates
  <2>3. CASE Created(s) \/ CreateFailed(s)
    BY <2>3 DEF Created, CreateFailed
  <2>. QED
    BY <2>1, <2>2, <2>3 DEF CreateStep
\* Of the session under the key: it leaves CREATING with its task, with a connection if it is ACTIVE then.
<1>4. Current = s =>
        /\ state'[s] \in {"CREATING", "ACTIVE", "FAILED"}
        /\ state'[s] = "CREATING" <=> task'[s] # "done"
        /\ state'[s] = "ACTIVE" \/ task'[s] = "result" => oci'[s] = "active"
        /\ state'[s] \in {"CREATING", "ACTIVE"} => state[s] \in {"CREATING", "ACTIVE"}
  <2>. SUFFICES ASSUME Current = s
                PROVE  /\ state'[s] \in {"CREATING", "ACTIVE", "FAILED"}
                       /\ state'[s] = "CREATING" <=> task'[s] # "done"
                       /\ state'[s] = "ACTIVE" \/ task'[s] = "result" => oci'[s] = "active"
                       /\ state'[s] \in {"CREATING", "ACTIVE"} => state[s] \in {"CREATING", "ACTIVE"}
    OBVIOUS
  <2>0. /\ ~cancelled[s] /\ state[s] \in {"CREATING", "ACTIVE", "FAILED"}
        /\ state[s] = "CREATING" <=> task[s] # "done"
        /\ state[s] = "ACTIVE" \/ task[s] = "result" => oci[s] = "active"
    BY CurrentFacts DEF ConsoleInv, ItsSession
  <2>. USE DEF Set, objects, creator, world, ConsoleInv, ConsoleTypes
  <2>1. CASE DropCall(s) \/ Generate(s) \/ CreateEnds(s)
    BY <2>0, <2>1 DEF DropCall, Generate, CreateEnds
  <2>2. CASE CallCreate(s) \/ Activates(s)
    BY <2>0, <2>2 DEF CallCreate, Activates
  <2>3. CASE Created(s) \/ CreateFailed(s)
    BY <2>0, <2>3 DEF Created, CreateFailed
  <2>. QED
    BY <2>1, <2>2, <2>3 DEF CreateStep
<1>5. Current' = Current /\ (Serving(Current)' => Serving(Current))
  BY <1>1, <1>2, <1>4, CurrentFacts DEF ConsoleInv, Current, Serving
<1>6. ConsoleTypes' /\ RoomLeft'
  BY <1>1, <1>3 DEF ConsoleInv, ConsoleTypes, RoomLeft, Opening
<1>7. OneOpens' /\ OnlyPopped'
  BY <1>1, <1>5 DEF ConsoleInv, OneOpens, OnlyPopped
<1>8. ItsSession'
  BY <1>1, <1>2, <1>4, <1>5, CurrentFacts DEF ConsoleInv, ItsSession
<1>. QED
  BY <1>6, <1>7, <1>8 DEF ConsoleInv

\* The lock is taken, or the session there is reused.
LEMMA LockedKeeps ==
  ASSUME ConsoleInv, Keys = {InstanceKey}, NEW u \in Users, lock = 0, Locked(u, InstanceKey),
         upc[u] \in {"idle", "waiting"}, upc[u] = "idle" => used + Cardinality(Opening) < MaxSessions,
         UNCHANGED <<sessions, used, state, task, cancelled, oci, rpc, todo, rsess>>,
         queue' \in Seq(Users), \A i \in 1..Len(queue') : upc[queue'[i]] = "waiting" /\ queue'[i] # u,
         \A i, j \in 1..Len(queue') : queue'[i] = queue'[j] => i = j
  PROVE  ConsoleInv'
<1>. DEFINE reuse == Serving(sessions[InstanceKey])
<1>1. /\ upc' = [upc EXCEPT ![u] = IF reuse THEN "idle" ELSE "room"]
      /\ ukey' = [ukey EXCEPT ![u] = InstanceKey]
      /\ usess' = (IF reuse THEN [usess EXCEPT ![u] = 0] ELSE usess)
      /\ lock' = IF reuse THEN 0 ELSE u
  BY DEF Locked, Answer, Set, TakeLock
<1>2. ConsoleTypes'
  BY <1>1, CurrentFacts DEF ConsoleInv, ConsoleTypes, ForeignId
<1>3. \A v \in Users : upc[v] \notin Inside
  BY UsersAssumption DEF ConsoleInv, OneOpens
<1>4. Current' = Current /\ (Serving(Current)' <=> Serving(Current))
  BY DEF Current, Serving
<1>5. OneOpens'
  <2>1. \A i \in 1..Len(queue') : queue'[i] \in Users
    OBVIOUS
  <2>2. \A v \in Users \ {u} : upc'[v] = upc[v]
    BY <1>1 DEF ConsoleInv, ConsoleTypes
  <2>3. upc'[u] = IF reuse THEN "idle" ELSE "room"
    BY <1>1 DEF ConsoleInv, ConsoleTypes
  <2>4. \A v \in Users : upc'[v] \in Inside => lock' = v /\ ~Serving(Current)'
    BY <1>1, <1>3, <1>4, <2>2, <2>3 DEF Inside, Current
  <2>. QED
    BY <2>1, <2>2, <2>4 DEF OneOpens
<1>6. ItsSession' /\ OnlyPopped'
  BY <1>1, <1>4 DEF ConsoleInv, ConsoleTypes, ItsSession, OnlyPopped
<1>7. RoomLeft'
  <2>1. used \in Nat /\ MaxSessions \in Nat /\ Cardinality(Opening) \in Nat
    BY CurrentFacts, OpeningIsFinite DEF ConsoleInv
  <2>2. upc[u] = "waiting" => u \in Opening
    BY DEF Opening
  <2>3. /\ Cardinality(Opening') \in Nat /\ Cardinality(Opening') <= Cardinality(Opening) + 1
        /\ u \in Opening => Cardinality(Opening') <= Cardinality(Opening)
    <3>1. PICK w \in {"idle", "room"} : upc' = [upc EXCEPT ![u] = w]
      BY <1>1
    <3>2. /\ Cardinality(Opening') \in Nat
          /\ w = "idle" => Cardinality(Opening') <= Cardinality(Opening)
          /\ w = "room" => /\ Cardinality(Opening') <= Cardinality(Opening) + 1
                           /\ u \in Opening => Cardinality(Opening') = Cardinality(Opening)
      BY <3>1, OpeningChanges DEF ConsoleInv
    <3>. QED
      BY <2>1, <3>1, <3>2
  <2>. QED
    BY <2>1, <2>2, <2>3 DEF ConsoleInv, RoomLeft
<1>. QED
  BY <1>2, <1>5, <1>6, <1>7 DEF ConsoleInv

\* A request ends, holding the lock or not: nobody else is inside.
LEMMA UserMoves ==
  ASSUME ConsoleInv, Keys = {InstanceKey}, NEW u \in Users, upc[u] \in Inside,
         NEW w \in {"idle", "evict", "install"}, upc' = [upc EXCEPT ![u] = w],
         w = "idle" => lock' = 0, w # "idle" => lock' = lock,
         UNCHANGED <<sessions, used, state, task, cancelled, queue, rpc, todo, rsess>>,
         ukey' \in [Users -> Keys], usess' \in [Users -> 0..ForeignId],
         \A v \in Users \ {u} : usess'[v] = usess[v],
         oci' \in [Sids -> {"none", "creating", "active", "deleted"}],
         Serving(Current) => oci' = oci
  PROVE  ConsoleInv'
<1>1. u \in Opening /\ Current' = Current /\ (Serving(Current)' <=> Serving(Current)) /\ ~Serving(Current)
  BY DEF Opening, Inside, Current, Serving, ConsoleInv, OneOpens
<1>2. ConsoleTypes'
  BY DEF ConsoleInv, ConsoleTypes
<1>3. OneOpens'
  <2>1. upc'[u] = w /\ \A v \in Users \ {u} : upc'[v] = upc[v]
    BY DEF ConsoleInv, ConsoleTypes
  <2>2. lock = u /\ \A v \in Users \ {u} : upc[v] \notin Inside
    BY DEF ConsoleInv, OneOpens
  <2>3. \A v \in Users : upc'[v] \in Inside => lock' = v /\ ~Serving(Current)'
    BY <1>1, <2>1, <2>2 DEF Inside
  <2>4. \A i \in 1..Len(queue) : queue[i] \in Users /\ upc[queue[i]] = "waiting"
    BY DEF ConsoleInv, ConsoleTypes, OneOpens
  <2>5. \A i \in 1..Len(queue') : upc'[queue'[i]] = "waiting"
    BY <2>1, <2>4 DEF Inside
  <2>. QED
    BY <2>3, <2>5 DEF ConsoleInv, OneOpens
<1>4. ItsSession'
  <2>1. Current # 0 => state[Current] = "FAILED" /\ task[Current] = "done"
    BY <1>1 DEF ConsoleInv, ItsSession, Serving
  <2>. QED
    BY <1>1, <2>1 DEF ConsoleInv, ItsSession
<1>5. OnlyPopped'
  <2>1. upc'[u] # "delete" /\ \A v \in Users \ {u} : upc'[v] = upc[v]
    BY DEF ConsoleInv, ConsoleTypes
  <2>. QED
    BY <1>1, <2>1 DEF ConsoleInv, OnlyPopped
<1>6. RoomLeft'
  <2>1. used \in Nat /\ MaxSessions \in Nat /\ Cardinality(Opening) \in Nat
    BY CurrentFacts, OpeningIsFinite DEF ConsoleInv
  <2>2. Cardinality(Opening') \in Nat /\ Cardinality(Opening') <= Cardinality(Opening)
    <3>1. CASE w = "idle"
      BY <1>1, <2>1, <3>1, OpeningChanges DEF ConsoleInv
    <3>2. CASE w \in {"evict", "install"}
      <4>1. w \in {"waiting", "room", "evict", "install"}
        BY <3>2
      <4>2. Cardinality(Opening') = Cardinality(Opening)
        BY <1>1, <4>1, OpeningChanges DEF ConsoleInv
      <4>. QED
        BY <2>1, <4>2
    <3>. QED
      BY <3>1, <3>2
  <2>. QED
    BY <2>1, <2>2 DEF ConsoleInv, RoomLeft
<1>. QED
  BY <1>2, <1>3, <1>4, <1>5, <1>6 DEF ConsoleInv

LEMMA RoomKeeps ==
  ASSUME ConsoleInv, Keys = {InstanceKey}, NEW u \in Users, (\E r \in BOOLEAN : MakeRoom(u, r)) \/ Evict(u) \/ RoomFails(u)
  PROVE  ConsoleInv'
<1>. USE DEF table, objects, creator, world, reaper
<1>0. /\ ukey \in [Users -> Keys] /\ usess \in [Users -> 0..ForeignId] /\ InstanceKey \in Keys
      /\ oci \in [Sids -> {"none", "creating", "active", "deleted"}] /\ 0 \in 0..ForeignId
      /\ Exists \subseteq 0..ForeignId
  BY CurrentFacts DEF ConsoleInv, ConsoleTypes, ForeignId, Exists, Sids
<1>1. ASSUME NEW r \in BOOLEAN, MakeRoom(u, r)
      PROVE  ConsoleInv'
  <2>0. /\ upc[u] \in Inside /\ oci' = oci
        /\ UNCHANGED <<sessions, used, state, task, cancelled, queue, rpc, todo, rsess>>
    BY <1>1 DEF MakeRoom, Inside
  <2>1. CASE Set(upc, u, "install") /\ UNCHANGED <<lock, ukey, usess>>
    BY <1>0, <2>0, <2>1, UserMoves DEF Set
  <2>2. CASE Answer(u) /\ lock' = 0
    BY <1>0, <2>0, <2>2, UserMoves DEF Set, Answer
  <2>3. CASE (\E c \in Exists : Set(usess, u, c)) /\ Set(upc, u, "evict") /\ UNCHANGED <<lock, ukey>>
    BY <1>0, <2>0, <2>3, UserMoves DEF Set
  <2>. QED
    BY <1>1, <2>1, <2>2, <2>3 DEF MakeRoom
<1>2. CASE Evict(u)
  <2>1. /\ upc[u] \in Inside /\ Set(upc, u, "install") /\ Set(usess, u, 0) /\ UNCHANGED <<lock, ukey>>
        /\ UNCHANGED <<sessions, used, state, task, cancelled, queue, rpc, todo, rsess>>
        /\ oci' \in [Sids -> {"none", "creating", "active", "deleted"}]
    BY <1>0, <1>2 DEF Evict, Inside, Gone
  <2>2. ~Serving(Current)
    BY <2>1 DEF ConsoleInv, OneOpens
  <2>. QED
    BY <1>0, <2>1, <2>2, UserMoves DEF Set
<1>3. CASE RoomFails(u)
  BY <1>0, <1>3, UserMoves DEF RoomFails, Answer, Set, Inside
<1>. QED
  BY <1>1, <1>2, <1>3

LEMMA InstallKeeps ==
  ASSUME ConsoleInv, Keys = {InstanceKey}, NEW u \in Users, Install(u)
  PROVE  ConsoleInv'
<1>. USE DEF creator, world, reaper
<1>0. /\ used \in Nat /\ MaxSessions \in Nat /\ u \in Opening /\ lock = u /\ used + 1 \in Sids /\ ukey[u] = InstanceKey
      /\ Cardinality(Opening) \in Nat /\ used + Cardinality(Opening) <= MaxSessions
  <2>1. used \in Nat /\ MaxSessions \in Nat /\ u \in Opening /\ IsFiniteSet(Opening) /\ Cardinality(Opening) \in Nat
    BY CurrentFacts, OpeningIsFinite DEF ConsoleInv, Install, Opening
  <2>2. Cardinality(Opening) # 0
    BY <2>1, FS_EmptySet
  <2>. QED
    BY <2>1, <2>2 DEF ConsoleInv, ConsoleTypes, OneOpens, RoomLeft, Sids, Install, Inside
<1>1. /\ used' = used + 1 /\ sessions' = [sessions EXCEPT ![InstanceKey] = used + 1]
      /\ state' = [state EXCEPT ![used + 1] = "CREATING"] /\ task' = [task EXCEPT ![used + 1] = "new"]
      /\ upc' = [upc EXCEPT ![u] = "idle"] /\ ukey' = [ukey EXCEPT ![u] = InstanceKey]
      /\ usess' = [usess EXCEPT ![u] = 0] /\ lock' = 0
      /\ UNCHANGED <<cancelled, oci, queue, rpc, todo, rsess>>
  BY <1>0 DEF Install, Set, Answer
<1>2. Current' = used + 1
  BY <1>1 DEF Current, ConsoleInv, ConsoleTypes
<1>3. ConsoleTypes'
  BY <1>0, <1>1 DEF ConsoleInv, ConsoleTypes, ForeignId, Sids
<1>4. upc'[u] = "idle" /\ \A v \in Users \ {u} : upc'[v] = upc[v] /\ upc[v] \notin Inside /\ usess'[v] = usess[v]
  BY <1>0, <1>1 DEF ConsoleInv, ConsoleTypes, OneOpens
<1>5. OneOpens'
  <2>1. \A i \in 1..Len(queue) : queue[i] \in Users /\ upc[queue[i]] = "waiting"
    BY DEF ConsoleInv, ConsoleTypes, OneOpens
  <2>2. upc[u] = "install"
    BY DEF Install
  <2>3. \A i \in 1..Len(queue') : upc'[queue'[i]] = "waiting"
    BY <1>1, <1>4, <2>1, <2>2
  <2>. QED
    BY <1>1, <1>4, <2>3 DEF ConsoleInv, OneOpens, Inside
<1>6. ItsSession'
  <2>1. state'[used + 1] = "CREATING" /\ task'[used + 1] = "new" /\ ~cancelled[used + 1]
    BY <1>0, <1>1 DEF ConsoleInv, ConsoleTypes, ItsSession
  <2>2. \A s \in Sids : s > used' => ~cancelled'[s]
    BY <1>0, <1>1 DEF ConsoleInv, ItsSession, Sids
  <2>. QED
    BY <1>1, <1>2, <2>1, <2>2 DEF ItsSession
<1>7. OnlyPopped'
  <2>1. \A s \in 1..used : s \in 1..used' /\ s # Current'
    BY <1>0, <1>1, <1>2
  <2>. QED
    BY <1>1, <1>4, <2>1 DEF ConsoleInv, OnlyPopped
<1>8. RoomLeft'
  <2>1. Cardinality(Opening') = Cardinality(Opening) - 1
    BY <1>0, <1>1, OpeningChanges DEF ConsoleInv
  <2>. QED
    BY <1>0, <1>1, <2>1 DEF RoomLeft
<1>. QED
  BY <1>3, <1>5, <1>6, <1>7, <1>8 DEF ConsoleInv

\* Nothing that the invariant is about changes: time passes, a browser comes and goes, a session is reused.
LEMMA ConsoleQuiet ==
  ASSUME ConsoleInv, UNCHANGED <<sessions, used, state, task, cancelled, oci, lock, queue, upc, ukey, usess, rpc, todo, rsess>>
  PROVE  ConsoleInv'
BY DEF ConsoleInv, ConsoleTypes, OneOpens, ItsSession, OnlyPopped, RoomLeft, Current, Serving, Opening

LEMMA OpenKeeps ==
  ASSUME ConsoleInv, Keys = {InstanceKey}, NEW u \in Users, Open(u, InstanceKey) \/ GetLock(u)
  PROVE  ConsoleInv'
<1>. USE DEF table, creator, world, reaper
<1>0. /\ UNCHANGED <<sessions, used, state, task, cancelled, oci, rpc, todo, rsess>>
      /\ queue \in Seq(Users) /\ ukey[u] = InstanceKey
      /\ \A i \in 1..Len(queue) : queue[i] \in Users /\ upc[queue[i]] = "waiting"
      /\ \A i, j \in 1..Len(queue) : queue[i] = queue[j] => i = j
  BY DEF Open, GetLock, ConsoleInv, ConsoleTypes, OneOpens
<1>1. CASE Open(u, InstanceKey) /\ users' = users
  BY <1>0, <1>1, ConsoleQuiet DEF users
<1>2. CASE /\ upc[u] = "idle" /\ used + Cardinality(Opening) < MaxSessions
           /\ lock = 0 /\ queue = <<>> /\ Locked(u, InstanceKey) /\ UNCHANGED queue
  BY <1>0, <1>2, LockedKeeps
<1>3. CASE /\ upc[u] = "idle" /\ used + Cardinality(Opening) < MaxSessions
           /\ queue' = Append(queue, u) /\ Set(upc, u, "waiting") /\ Set(ukey, u, InstanceKey) /\ UNCHANGED <<lock, usess>>
  <2>1. /\ upc' = [upc EXCEPT ![u] = "waiting"] /\ ukey' = [ukey EXCEPT ![u] = InstanceKey]
        /\ upc'[u] = "waiting" /\ \A v \in Users \ {u} : upc'[v] = upc[v]
    BY <1>3 DEF Set, ConsoleInv, ConsoleTypes
  <2>2. /\ queue' \in Seq(Users) /\ Len(queue') = Len(queue) + 1 /\ queue'[Len(queue) + 1] = u /\ Len(queue) \in Nat
        /\ \A i \in 1..Len(queue) : queue'[i] = queue[i]
    BY <1>0, <1>3
  <2>3. ConsoleTypes'
    BY <1>0, <1>3, <2>1, <2>2 DEF ConsoleInv, ConsoleTypes
  <2>4. Current' = Current /\ (Serving(Current)' <=> Serving(Current))
    BY <1>0 DEF Current, Serving
  <2>5. OneOpens'
    <3>1. \A v \in Users : upc'[v] \in Inside => lock' = v /\ ~Serving(Current)'
      BY <1>3, <2>1, <2>4 DEF ConsoleInv, OneOpens, Inside
    <3>2. \A i \in 1..Len(queue) : queue[i] # u
      BY <1>0, <1>3
    <3>3. \A i \in 1..Len(queue') : upc'[queue'[i]] = "waiting"
      <4>1. ASSUME NEW i \in 1..Len(queue') PROVE upc'[queue'[i]] = "waiting"
        <5>1. CASE i = Len(queue) + 1
          BY <2>1, <2>2, <5>1
        <5>2. CASE i \in 1..Len(queue)
          BY <1>0, <2>1, <2>2, <3>2, <5>2
        <5>. QED
          BY <2>2, <5>1, <5>2
      <4>. QED
        BY <4>1
    <3>4. \A i, j \in 1..Len(queue') : queue'[i] = queue'[j] => i = j
      BY <1>0, <2>2, <3>2
    <3>. QED
      BY <3>1, <3>3, <3>4 DEF OneOpens
  <2>6. ItsSession' /\ OnlyPopped'
    BY <1>0, <1>3, <2>1, <2>4 DEF ConsoleInv, ItsSession, OnlyPopped
  <2>7. RoomLeft'
    <3>1. used \in Nat /\ MaxSessions \in Nat /\ Cardinality(Opening) \in Nat
      BY CurrentFacts, OpeningIsFinite DEF ConsoleInv
    <3>2. Cardinality(Opening') \in Nat /\ Cardinality(Opening') <= Cardinality(Opening) + 1
      BY <2>1, OpeningChanges DEF ConsoleInv
    <3>. QED
      BY <1>0, <1>3, <3>1, <3>2 DEF RoomLeft
  <2>. QED
    BY <2>3, <2>5, <2>6, <2>7 DEF ConsoleInv
<1>4. CASE GetLock(u)
  <2>1. lock = 0 /\ queue # <<>> /\ u = Head(queue) /\ queue' = Tail(queue) /\ Locked(u, InstanceKey)
    BY <1>0, <1>4 DEF GetLock, Locked
  <2>2. /\ Len(queue) \in Nat /\ Len(queue) # 0 /\ queue[1] = u /\ queue' \in Seq(Users) /\ Len(queue') = Len(queue) - 1
        /\ \A i \in 1..Len(queue') : queue'[i] = queue[i + 1]
    BY <1>0, <2>1
  <2>3. upc[u] = "waiting"
    BY <1>0, <2>2
  <2>4. \A i \in 1..Len(queue') : upc[queue'[i]] = "waiting" /\ queue'[i] # u
    BY <1>0, <2>2
  <2>5. \A i, j \in 1..Len(queue') : queue'[i] = queue'[j] => i = j
    <3>1. ASSUME NEW i \in 1..Len(queue'), NEW j \in 1..Len(queue'), queue'[i] = queue'[j]
          PROVE  i = j
      <4>1. i + 1 \in 1..Len(queue) /\ j + 1 \in 1..Len(queue) /\ queue[i + 1] = queue[j + 1]
        BY <2>2, <3>1
      <4>2. i + 1 = j + 1
        BY <1>0, <4>1
      <4>. QED
        BY <2>2, <4>2
    <3>. QED
      BY <3>1
  <2>. QED
    BY <1>0, <2>1, <2>2, <2>3, <2>4, <2>5, LockedKeeps
<1>. QED
  BY <1>1, <1>2, <1>3, <1>4 DEF Open

\* Whoever closes takes the session out of the table, and its creation with it.
LEMMA PopFacts ==
  ASSUME ConsoleInv, Keys = {InstanceKey}, NEW K \in SUBSET Keys, NEW C, Pop(K, C), Current \notin C
  PROVE  /\ sessions' \in [Keys -> 0..used] /\ cancelled' \in [Sids -> BOOLEAN]
         /\ state' \in [Sids -> {"NONE", "CREATING", "ACTIVE", "FAILED", "CLOSED"}]
         /\ Current' = IF InstanceKey \in K THEN 0 ELSE Current
         /\ \A s \in Sids : s > used => ~cancelled'[s]
         /\ Current' # 0 => state'[Current] = state[Current] /\ cancelled'[Current] = cancelled[Current]
<1>0. /\ Current \in 0..used /\ (Current # 0 => Current \in Sids) /\ used \in Nat /\ 0 \notin Sids /\ 0 \in 0..used
  BY CurrentFacts DEF ConsoleInv
<1>1. K = {} \/ K = {InstanceKey}
  OBVIOUS
<1>2. {sessions[o] : o \in K} = IF InstanceKey \in K THEN {Current} ELSE {}
  BY <1>1 DEF Current
<1>. DEFINE S == {sessions[o] : o \in K}
<1>3. /\ sessions' = [o \in Keys |-> IF o \in K THEN 0 ELSE sessions[o]]
      /\ cancelled' = [s \in Sids |-> cancelled[s] \/ (s \in S /\ task[s] # "done")]
      /\ state' = [s \in Sids |-> IF s \in C \/ (s \in S /\ ~known[s]) THEN "CLOSED" ELSE state[s]]
  BY DEF Pop
<1>4. S \subseteq {Current} /\ (InstanceKey \notin K => S = {})
  BY <1>2
<1>. HIDE DEF S
<1>5. /\ sessions' \in [Keys -> 0..used] /\ Current' = IF InstanceKey \in K THEN 0 ELSE Current
  BY <1>0, <1>3 DEF Current, ConsoleInv, ConsoleTypes
<1>6. /\ cancelled' \in [Sids -> BOOLEAN] /\ state' \in [Sids -> {"NONE", "CREATING", "ACTIVE", "FAILED", "CLOSED"}]
  BY <1>3 DEF ConsoleInv, ConsoleTypes
<1>7. \A s \in Sids : s > used => ~cancelled'[s]
  <2>1. ASSUME NEW s \in Sids, s > used PROVE ~cancelled'[s]
    <3>1. s # Current
      BY <1>0, <2>1 DEF Sids
    <3>2. s \notin S /\ ~cancelled[s]
      BY <1>4, <2>1, <3>1 DEF ConsoleInv, ItsSession
    <3>. QED
      BY <1>3, <3>2
  <2>. QED
    BY <2>1
<1>8. Current' # 0 => state'[Current] = state[Current] /\ cancelled'[Current] = cancelled[Current]
  BY <1>0, <1>3, <1>4, <1>5 DEF ConsoleInv, ConsoleTypes
<1>. QED
  BY <1>5, <1>6, <1>7, <1>8

LEMMA PopKeeps ==
  ASSUME ConsoleInv, Keys = {InstanceKey}, NEW K \in SUBSET Keys, NEW C, Pop(K, C), Current \notin C,
         UNCHANGED <<used, task, lock, queue, ukey>>,
         oci' \in [Sids -> {"none", "creating", "active", "deleted"}],
         Current \in Sids => oci'[Current] = oci[Current],
         upc' \in [Users -> {"idle", "waiting", "room", "evict", "install", "delete"}],
         \A u \in Users : upc'[u] = upc[u] \/ (upc[u] = "idle" /\ upc'[u] = "delete"),
         usess' \in [Users -> 0..ForeignId],
         \A u \in Users : upc'[u] = "delete" =>
           (upc[u] = "delete" /\ usess'[u] = usess[u]) \/ (InstanceKey \in K /\ Current # 0 /\ usess'[u] = Current),
         todo' \subseteq Keys \X Nat, rsess' \in 0..MaxSessions,
         rpc' \in {"delete", "deleted"} =>
           (rpc \in {"delete", "deleted"} /\ rsess' = rsess) \/ (InstanceKey \in K /\ Current # 0 /\ rsess' = Current)
  PROVE  ConsoleInv'
<1>1. /\ sessions' \in [Keys -> 0..used] /\ cancelled' \in [Sids -> BOOLEAN]
      /\ state' \in [Sids -> {"NONE", "CREATING", "ACTIVE", "FAILED", "CLOSED"}]
      /\ Current' = IF InstanceKey \in K THEN 0 ELSE Current
      /\ \A s \in Sids : s > used => ~cancelled'[s]
      /\ Current' # 0 => state'[Current] = state[Current] /\ cancelled'[Current] = cancelled[Current]
  BY PopFacts
<1>2. /\ Current \in 0..used /\ used \in Nat /\ 0 \notin 1..used
      /\ Current # 0 => Current \in Sids /\ Current \in 1..used
  BY CurrentFacts DEF ConsoleInv
<1>3. ConsoleTypes'
  BY <1>1 DEF ConsoleInv, ConsoleTypes
<1>4. OneOpens'
  <2>1. Serving(Current)' => Serving(Current)
    BY <1>1 DEF Serving
  <2>2. \A i \in 1..Len(queue) : queue[i] \in Users /\ upc[queue[i]] = "waiting"
    BY DEF ConsoleInv, ConsoleTypes, OneOpens
  <2>3. \A i \in 1..Len(queue') : upc'[queue'[i]] = "waiting"
    BY <2>2
  <2>4. \A u \in Users : upc'[u] \in Inside => lock' = u /\ ~Serving(Current)'
    BY <2>1 DEF ConsoleInv, OneOpens, Inside
  <2>. QED
    BY <2>3, <2>4 DEF ConsoleInv, OneOpens
<1>5. ItsSession'
  BY <1>1, <1>2 DEF ConsoleInv, ItsSession
<1>6. OnlyPopped'
  <2>1. \A s : (s \in 1..used /\ s # Current) \/ (InstanceKey \in K /\ Current # 0 /\ s = Current)
               => s \in 1..used' /\ s # Current'
    BY <1>1, <1>2
  <2>. QED
    BY <2>1 DEF ConsoleInv, OnlyPopped
<1>7. RoomLeft'
  <2>1. Opening' = Opening
    BY DEF Opening
  <2>. QED
    BY <2>1 DEF ConsoleInv, RoomLeft
<1>. QED
  BY <1>3, <1>4, <1>5, <1>6, <1>7 DEF ConsoleInv

\* A deletion in OCI is of one connection, if it succeeds.
LEMMA DeletedFacts ==
  ASSUME ConsoleInv, NEW s, s # Current, Deleted(s) \/ UNCHANGED world
  PROVE  /\ oci' \in [Sids -> {"none", "creating", "active", "deleted"}]
         /\ Current \in Sids => oci'[Current] = oci[Current]
BY DEF Deleted, Gone, world, ConsoleInv, ConsoleTypes

LEMMA CloseKeeps ==
  ASSUME ConsoleInv, Keys = {InstanceKey}, NEW u \in Users, Close(u, InstanceKey) \/ CloseDelete(u)
  PROVE  ConsoleInv'
<1>. USE DEF world, reaper, creator
<1>0. /\ Current \in 0..used /\ used \in Nat /\ used <= MaxSessions /\ MaxSessions \in Nat
      /\ Current # 0 => Current \in Sids /\ Current \in 1..used
      /\ 0..used \subseteq 0..ForeignId /\ ForeignId \notin Sids
  BY CurrentFacts DEF ConsoleInv, ForeignId
<1>1. CASE Close(u, InstanceKey)
  <2>1. PICK f \in KeyFor(InstanceKey) :
          /\ sessions[f] # 0 /\ Pop({f}, {})
          /\ IF known[sessions[f]] THEN Set(upc, u, "delete") /\ Set(usess, u, sessions[f]) ELSE UNCHANGED <<upc, usess>>
    BY <1>1 DEF Close
  <2>2. f = InstanceKey
    BY DEF KeyFor, FindForInstance
  <2>3. /\ upc[u] = "idle" /\ UNCHANGED <<used, task, oci, lock, queue, ukey, rpc, todo, rsess>>
    BY <1>1 DEF Close
  <2>4. Pop({InstanceKey}, {}) /\ Current # 0
    BY <2>1, <2>2 DEF Current
  <2>5. \/ UNCHANGED <<upc, usess>>
        \/ upc' = [upc EXCEPT ![u] = "delete"] /\ usess' = [usess EXCEPT ![u] = Current]
    BY <2>1, <2>2 DEF Set, Current
  <2>6. /\ upc' \in [Users -> {"idle", "waiting", "room", "evict", "install", "delete"}]
        /\ usess' \in [Users -> 0..ForeignId]
        /\ \A v \in Users : upc'[v] = upc[v] \/ (upc[v] = "idle" /\ upc'[v] = "delete")
        /\ \A v \in Users : upc'[v] = "delete" =>
             (upc[v] = "delete" /\ usess'[v] = usess[v]) \/ (Current # 0 /\ usess'[v] = Current)
    BY <1>0, <2>3, <2>4, <2>5 DEF ConsoleInv, ConsoleTypes
  <2>7. /\ oci' \in [Sids -> {"none", "creating", "active", "deleted"}]
        /\ todo' \subseteq Keys \X Nat /\ rsess' \in 0..MaxSessions /\ {InstanceKey} \in SUBSET Keys
    BY <2>3 DEF ConsoleInv, ConsoleTypes
  <2>. QED
    BY <2>3, <2>4, <2>6, <2>7, PopKeeps
<1>2. CASE CloseDelete(u)
  <2>1. /\ upc[u] = "delete" /\ Deleted(usess[u]) /\ state' = [state EXCEPT ![usess[u]] = "CLOSED"]
        /\ upc' = [upc EXCEPT ![u] = "idle"] /\ ukey' = [ukey EXCEPT ![u] = InstanceKey]
        /\ usess' = [usess EXCEPT ![u] = 0]
        /\ UNCHANGED <<sessions, used, task, cancelled, lock, queue, rpc, todo, rsess>>
    BY <1>2 DEF CloseDelete, Answer, Set, table
  <2>2. usess[u] \in 1..used /\ usess[u] # Current
    BY <2>1 DEF ConsoleInv, OnlyPopped
  <2>3. /\ oci' \in [Sids -> {"none", "creating", "active", "deleted"}]
        /\ Current \in Sids => oci'[Current] = oci[Current] /\ state'[Current] = state[Current]
    BY <2>1, <2>2, DeletedFacts DEF ConsoleInv, ConsoleTypes
  <2>4. Current' = Current /\ (Serving(Current)' <=> Serving(Current))
    BY <1>0, <2>1, <2>3 DEF Current, Serving
  <2>5. upc'[u] = "idle" /\ \A v \in Users \ {u} : upc'[v] = upc[v] /\ usess'[v] = usess[v]
    BY <2>1 DEF ConsoleInv, ConsoleTypes
  <2>6. ConsoleTypes'
    <3>1. /\ state' \in [Sids -> {"NONE", "CREATING", "ACTIVE", "FAILED", "CLOSED"}]
          /\ upc' \in [Users -> {"idle", "waiting", "room", "evict", "install", "delete"}]
      BY <2>1 DEF ConsoleInv, ConsoleTypes
    <3>2. 0 \in 0..ForeignId
      BY <1>0
    <3>3. ukey' \in [Users -> Keys] /\ usess' \in [Users -> 0..ForeignId]
      BY <2>1, <3>2 DEF ConsoleInv, ConsoleTypes
    <3>. QED
      BY <2>1, <2>3, <3>1, <3>3 DEF ConsoleInv, ConsoleTypes
  <2>7. OneOpens'
    <3>1. \A i \in 1..Len(queue) : queue[i] \in Users /\ upc[queue[i]] = "waiting"
      BY DEF ConsoleInv, ConsoleTypes, OneOpens
    <3>2. \A i \in 1..Len(queue') : upc'[queue'[i]] = "waiting"
      BY <2>1, <2>5, <3>1
    <3>3. \A v \in Users : upc'[v] \in Inside => lock' = v /\ ~Serving(Current)'
      BY <2>1, <2>4, <2>5 DEF ConsoleInv, OneOpens, Inside
    <3>. QED
      BY <2>1, <3>2, <3>3 DEF ConsoleInv, OneOpens
  <2>8. ItsSession' /\ OnlyPopped'
    BY <1>0, <2>1, <2>3, <2>4, <2>5 DEF ConsoleInv, ItsSession, OnlyPopped
  <2>9. RoomLeft'
    <3>1. Opening' = Opening
      BY <2>1, <2>5 DEF Opening
    <3>. QED
      BY <2>1, <3>1 DEF ConsoleInv, RoomLeft
  <2>. QED
    BY <2>6, <2>7, <2>8, <2>9 DEF ConsoleInv
<1>. QED
  BY <1>1, <1>2

\* The reaper's way through a snapshot, and the shutdown's: what is deleted next has just been popped.
LEMMA GoThroughKeeps ==
  ASSUME ConsoleInv, Keys = {InstanceKey}, NEW T \in SUBSET (Keys \X Nat), NEW C, Current \notin C, GoThrough(T, C),
         UNCHANGED <<used, task, lock, queue, upc, ukey, usess>>,
         oci' \in [Sids -> {"none", "creating", "active", "deleted"}],
         Current \in Sids => oci'[Current] = oci[Current]
  PROVE  ConsoleInv'
<1>0. /\ Current \in 0..used /\ used \in Nat /\ used <= MaxSessions /\ MaxSessions \in Nat
  BY CurrentFacts DEF ConsoleInv
<1>1. /\ upc' \in [Users -> {"idle", "waiting", "room", "evict", "install", "delete"}]
      /\ usess' \in [Users -> 0..ForeignId]
      /\ \A u \in Users : upc'[u] = upc[u] /\ usess'[u] = usess[u]
  BY DEF ConsoleInv, ConsoleTypes
<1>. DEFINE Chosen   == {e \in T : (shut' \/ Unwatched(e[2])) /\ sessions[e[1]] # 0}
            Deleting == {e \in Chosen : known[sessions[e[1]]]}
<1>2. CASE /\ Pop({e[1] : e \in Chosen}, C)
           /\ rpc' = (IF shut' THEN "down" ELSE "sleep") /\ todo' = {} /\ rsess' = 0
  <2>1. {e[1] : e \in Chosen} \in SUBSET Keys
    OBVIOUS
  <2>2. todo' \subseteq Keys \X Nat /\ rsess' \in 0..MaxSessions /\ rpc' \notin {"delete", "deleted"}
    BY <1>0, <1>2
  <2>. QED
    BY <1>1, <1>2, <2>1, <2>2, PopKeeps
<1>3. ASSUME NEW e \in Deleting, NEW D \in SUBSET (T \ Deleting),
             Pop({d[1] : d \in {e} \cup (D \cap Chosen)}, C),
             rpc' = "delete", todo' = T \ (D \cup {e}), rsess' = sessions[e[1]]
      PROVE  ConsoleInv'
  <2>. DEFINE K == {d[1] : d \in {e} \cup (D \cap Chosen)}
  <2>1. e[1] = InstanceKey /\ sessions[e[1]] # 0 /\ e \in T
    OBVIOUS
  <2>2. K \in SUBSET Keys /\ InstanceKey \in K
    BY <2>1
  <2>3. Pop(K, C)
    BY <1>3
  <2>. HIDE DEF K
  <2>4. /\ todo' \subseteq Keys \X Nat /\ rsess' \in 0..MaxSessions /\ Current # 0 /\ rsess' = Current
    BY <1>0, <1>3, <2>1 DEF Current
  <2>. QED
    BY <1>1, <2>2, <2>3, <2>4, PopKeeps
<1>. QED
  BY <1>2, <1>3 DEF GoThrough

LEMMA ReaperKeeps ==
  ASSUME ConsoleInv, Keys = {InstanceKey}, ReaperStep \/ Shutdown
  PROVE  ConsoleInv'
<1>. USE DEF world, users, table, objects, creator
<1>0. /\ Current \in 0..used /\ 0..used \subseteq Nat /\ InstanceKey \in Keys
      /\ oci \in [Sids -> {"none", "creating", "active", "deleted"}] /\ todo \in SUBSET (Keys \X Nat)
      /\ rpc \in {"delete", "deleted"} => rsess \in 1..used /\ rsess # Current
  BY CurrentFacts DEF ConsoleInv, ConsoleTypes, OnlyPopped
<1>1. Snapshot \in SUBSET (Keys \X Nat)
  BY <1>0 DEF Snapshot, ConsoleInv, ConsoleTypes
<1>2. CASE Reap
  <2>1. GoThrough(Snapshot, {}) /\ UNCHANGED <<used, task, oci, lock, queue, upc, ukey, usess>>
    BY <1>2 DEF Reap
  <2>. QED
    BY <1>0, <1>1, <2>1, GoThroughKeeps
<1>3. CASE ReapNext
  <2>1. /\ GoThrough(todo, {rsess}) /\ UNCHANGED <<used, task, oci, lock, queue, upc, ukey, usess>>
        /\ rpc = "deleted"
    BY <1>3 DEF ReapNext
  <2>2. Current \notin {rsess}
    BY <1>0, <2>1
  <2>. QED
    BY <1>0, <2>1, <2>2, GoThroughKeeps
<1>4. CASE Shutdown
  <2>1. /\ GoThrough(Snapshot, {}) /\ UNCHANGED <<used, task, lock, queue, upc, ukey, usess>>
        /\ IF rpc = "delete" THEN Deleted(rsess) ELSE UNCHANGED world
    BY <1>4 DEF Shutdown
  <2>2. /\ oci' \in [Sids -> {"none", "creating", "active", "deleted"}]
        /\ Current \in Sids => oci'[Current] = oci[Current]
    <3>1. CASE rpc = "delete"
      BY <1>0, <2>1, <3>1, DeletedFacts
    <3>2. CASE rpc # "delete"
      BY <1>0, <2>1, <3>2
    <3>. QED
      BY <3>1, <3>2
  <2>. QED
    BY <1>1, <2>1, <2>2, GoThroughKeeps
<1>5. CASE ReapDelete
  <2>1. /\ rpc = "delete" /\ Deleted(rsess) /\ rpc' = "deleted"
        /\ UNCHANGED <<sessions, used, state, task, cancelled, lock, queue, upc, ukey, usess, todo, rsess>>
    BY <1>5 DEF ReapDelete
  <2>2. /\ oci' \in [Sids -> {"none", "creating", "active", "deleted"}]
        /\ Current \in Sids => oci'[Current] = oci[Current]
    BY <1>0, <2>1, DeletedFacts
  <2>3. Current' = Current /\ (Serving(Current)' <=> Serving(Current)) /\ Opening' = Opening
    BY <2>1 DEF Current, Serving, Opening
  <2>4. ConsoleTypes' /\ RoomLeft' /\ OneOpens' /\ OnlyPopped'
    BY <2>1, <2>2, <2>3 DEF ConsoleInv, ConsoleTypes, RoomLeft, OneOpens, OnlyPopped
  <2>5. ItsSession'
    BY <2>1, <2>2, <2>3, CurrentFacts DEF ConsoleInv, ItsSession
  <2>. QED
    BY <2>4, <2>5 DEF ConsoleInv
<1>. QED
  BY <1>2, <1>3, <1>4, <1>5 DEF ReaperStep

LEMMA InitConsole == Keys = {InstanceKey} /\ ConsoleInit => ConsoleInv
<1>. SUFFICES ASSUME Keys = {InstanceKey}, ConsoleInit PROVE ConsoleInv
  OBVIOUS
<1>1. ConsoleTypes
  BY SessionsAssumption DEF ConsoleInit, ConsoleTypes, ForeignId
<1>2. Current = 0 /\ used = 0
  BY DEF ConsoleInit, Current
<1>3. Opening = {}
  BY DEF ConsoleInit, Opening
<1>4. RoomLeft
  BY <1>2, <1>3, FS_EmptySet, SessionsAssumption DEF RoomLeft
<1>5. OneOpens /\ ItsSession /\ OnlyPopped
  BY <1>2 DEF ConsoleInit, OneOpens, ItsSession, OnlyPopped, Inside
<1>. QED
  BY <1>1, <1>4, <1>5 DEF ConsoleInv

LEMMA NextConsole == Keys = {InstanceKey} /\ ConsoleInv /\ [ConsoleNext]_consoleVars => ConsoleInv'
<1>. SUFFICES ASSUME Keys = {InstanceKey}, ConsoleInv, [ConsoleNext]_consoleVars PROVE ConsoleInv'
  OBVIOUS
<1>1. CASE UNCHANGED consoleVars
  BY <1>1, ConsoleQuiet DEF consoleVars
<1>2. ASSUME NEW u \in Users, Open(u, InstanceKey) \/ Close(u, InstanceKey) PROVE ConsoleInv'
  BY <1>2, OpenKeeps, CloseKeeps
<1>3. ASSUME NEW u \in Users, UserStep(u) PROVE ConsoleInv'
  BY <1>3, OpenKeeps, RoomKeeps, InstallKeeps, CloseKeeps DEF UserStep
<1>4. ASSUME NEW s \in Sids, CreateStep(s) \/ Activates(s) PROVE ConsoleInv'
  BY <1>4, CreationKeeps
<1>5. CASE \/ \E s \in Sids : Idles(s)
           \/ \E v \in Viewers : Connect(v, InstanceKey) \/ TunnelUp(v) \/ Leave(v)
  BY <1>5, ConsoleQuiet DEF Idles, Connect, TunnelUp, Leave, table, objects, creator, world, users, browser, reaper
<1>6. CASE ReaperStep \/ Shutdown
  BY <1>6, ReaperKeeps
<1>7. \A o \in Keys : o = InstanceKey
  OBVIOUS
<1>. QED
  BY <1>1, <1>2, <1>3, <1>4, <1>5, <1>6, <1>7 DEF ConsoleNext

\* With one key, a console that says ACTIVE has its connection: no request, creation, reaper or shutdown has
\* deleted it or stands to delete it, whatever the order they run in.
THEOREM ActiveConsoleHasConnection ==
  ASSUME Keys = {InstanceKey}
  PROVE  ConsoleSpec => []ActiveIsServed
<1>1. ConsoleInit => ConsoleInv
  BY InitConsole
<1>2. ConsoleInv /\ [ConsoleNext]_consoleVars => ConsoleInv'
  BY NextConsole
<1>3. ConsoleInv => ActiveIsServed
  BY DEF ConsoleInv, ItsSession, ActiveIsServed, Current
<1>. QED
  BY <1>1, <1>2, <1>3, PTL DEF ConsoleSpec

-----------------------------------------------------------------------------
(* Guest fix-up.  Types first: a mount point or a volume group that is on   *)
(* a list is one of the session's.                                          *)

Searching == {"scan", "activate", "candidate", "split", "look", "pop", "boot"}

LEMMA AppendFact ==
  ASSUME NEW S, NEW s \in Seq(S), NEW e \in S
  PROVE  Append(s, e) \in Seq(S) /\ ToSet(Append(s, e)) = ToSet(s) \cup {e}
<1>1. /\ Append(s, e) \in Seq(S) /\ DOMAIN Append(s, e) = 1..Len(s) + 1
      /\ \A i \in 1..Len(s) : Append(s, e)[i] = s[i]
      /\ Append(s, e)[Len(s) + 1] = e /\ DOMAIN s = 1..Len(s) /\ Len(s) \in Nat
  OBVIOUS
<1>2. \A x : x \in ToSet(Append(s, e)) <=> \E i \in 1..Len(s) + 1 : x = Append(s, e)[i]
  BY <1>1 DEF ToSet
<1>3. \A x : x \in ToSet(s) <=> \E i \in 1..Len(s) : x = s[i]
  BY <1>1 DEF ToSet
<1>. QED
  BY <1>1, <1>2, <1>3

LEMMA FrontFact ==
  ASSUME NEW S, NEW s \in Seq(S), s # <<>>
  PROVE  Front(s) \in Seq(S) /\ ToSet(s) \ {Last(s)} \subseteq ToSet(Front(s)) /\ Last(s) \in S
<1>1. /\ Len(s) \in Nat /\ Len(s) # 0 /\ DOMAIN s = 1..Len(s)
      /\ \A i \in 1..Len(s) : s[i] \in S
  OBVIOUS
<1>2. /\ Front(s) \in Seq(S) /\ Len(Front(s)) = Len(s) - 1
      /\ \A i \in 1..Len(s) - 1 : Front(s)[i] = s[i]
  BY <1>1 DEF Front
<1>3. DOMAIN Front(s) = 1..Len(s) - 1
  BY <1>1, <1>2
<1>4. ASSUME NEW x \in ToSet(s) \ {Last(s)}
      PROVE  x \in ToSet(Front(s))
  <2>1. PICK i \in 1..Len(s) : x = s[i]
    BY <1>1 DEF ToSet
  <2>2. i \in 1..Len(s) - 1 /\ x = Front(s)[i]
    BY <1>1, <1>2, <1>4, <2>1 DEF Last
  <2>. QED
    BY <1>3, <2>2 DEF ToSet
<1>5. Last(s) \in S
  BY <1>1 DEF Last
<1>. QED
  BY <1>2, <1>4, <1>5

LEMMA EmptyFact == ToSet(<<>>) = {}
BY DEF ToSet

LEMMA PointFacts ==
  /\ Root \in Points /\ "boot" \in Points /\ ToSet(Split) \subseteq Points
  /\ Len(SystemDirs) = 3
  /\ \A n \in Nat : n < 3 => SystemDirs[n + 1] \in Points
<1>1. Len(SystemDirs) = 3 /\ DOMAIN SystemDirs = 1..3
  BY DEF SystemDirs
<1>2. \A n \in Nat : n < 3 => SystemDirs[n + 1] \in ToSet(SystemDirs)
  BY <1>1 DEF ToSet
<1>. QED
  BY <1>1, <1>2 DEF Points

\* Where the root is mounted and on the list.
Opened == {"split", "look", "boot"} \cup Step

\* What a step does to the session's lists and to what is mounted.
AddsMount ==
  \E p \in Points :
    /\ (p = Root /\ pc = "candidate") \/ pc \in Opened
    /\ Mount(p) \/ (Slow(p) /\ UNCHANGED mounts)
DropsMount ==
  /\ pc \in {"pop", "cleanup"} /\ pc' = pc /\ mounts # <<>>
  /\ Unmount \/ (CannotStart /\ mounts' = Front(mounts))
AddsVg ==
  pc = "activate" /\ \E g \in ToSet(guest.vgs) :
    /\ activated' = activated \cup {g}
    /\ vgs' = Append(vgs, g) \/ ("partial" \in faults /\ vgs' = vgs)
DropsVg ==
  /\ pc = "cleanup" /\ pc' = pc /\ mounts = <<>> /\ vgs # <<>> /\ vgs' = Front(vgs)
  /\ \/ activated' = activated \ {Last(vgs)}
     \/ ("undo" \in faults \/ mounted \cup stray # {}) /\ activated' = activated
Ends ==
  /\ pc = "cleanup" /\ pc' = "done" /\ mounts = <<>> /\ vgs = <<>> /\ wiped' = (mounted \cup stray # {})
  /\ UNCHANGED <<mounts, mounted, stray, denied, vgs, activated>>
ListStep ==
  /\ UNCHANGED <<guest, faults>>
  /\ pc' \in Opened => pc \in Opened \/ (pc = "candidate" /\ Mount(Root))
  /\ pc = "cleanup" => pc' \in {"cleanup", "done"}
  /\ \/ Ends
     \/ /\ pc # "done" /\ pc' # "done" /\ UNCHANGED wiped
        /\ UNCHANGED <<mounts, mounted, stray, denied>> \/ ((AddsMount \/ DropsMount) /\ UNCHANGED <<vgs, activated>>)
        /\ UNCHANGED <<vgs, activated>> \/ ((AddsVg \/ DropsVg) /\ UNCHANGED <<mounts, mounted, stray, denied>>)

FixTypes ==
  /\ guest \in Guests /\ faults \in FaultSets /\ k \in Nat /\ (pc = "activate" => k # 0)
  /\ mounts \in Seq(Points) /\ mounted \subseteq Points /\ stray \subseteq Points /\ denied \subseteq Points
  /\ vgs \in Seq(ToSet(guest.vgs)) /\ activated \subseteq ToSet(guest.vgs)
  /\ pc \in Searching \cup Step \cup {"sync", "cleanup", "done"}

LEMMA FixIsListStep == FixTypes /\ FixNext => ListStep
<1>. SUFFICES ASSUME FixTypes, FixNext PROVE ListStep
  OBVIOUS
<1>. USE DEF Stay, fixed, sess, tree, disk, Move, ListStep, Opened
<1>0. /\ guest.vgs \in Seq(ToSet(guest.vgs)) /\ k \in Nat
      /\ guest.fstab \in [{"usr", "var", "boot"} -> {"here", "gone", "no"}]
  BY GuestsAssumption DEF FixTypes
<1>1. CASE ScanDisk \/ ScanFails \/ NameClash \/ VolumesListed \/ NoRoot \/ SplitDone \/ RootFound
           \/ NotTheRoot \/ PopRaises \/ Popped \/ Sync
  BY <1>1 DEF ScanDisk, ScanFails, NameClash, VolumesListed, NoRoot, SplitDone, RootFound, NotTheRoot,
     PopRaises, Popped, Sync, Abandon, GiveUp, Step
<1>2. CASE ActivateVg \/ ActivatePartly
  <2>1. /\ pc = "activate" /\ k \in 1..Len(guest.vgs) /\ pc' \in {"activate", "cleanup"}
        /\ UNCHANGED <<guest, faults, wiped, mounts, mounted, stray, denied>>
    BY <1>0, <1>2 DEF ActivateVg, ActivatePartly, FixTypes
  <2>2. guest.vgs[k] \in ToSet(guest.vgs)
    BY <1>0, <2>1 DEF ToSet
  <2>3. AddsVg
    BY <1>2, <2>1, <2>2 DEF AddsVg, ActivateVg, ActivatePartly, MayFail
  <2>. QED
    BY <2>1, <2>3 DEF Step
<1>3. CASE MountCandidate \/ PassOver \/ MountSplit \/ SplitSlow \/ MountBoot \/ BootMountFails \/ BindSystemDir \/ BindSlow
  <2>1. /\ UNCHANGED <<guest, faults, wiped, vgs, activated>> /\ pc' # "done"
        /\ pc' \in Opened => pc \in Opened \/ (pc = "candidate" /\ Mount(Root))
        /\ UNCHANGED <<mounts, mounted, stray, denied>> \/ \E p \in Points :
             /\ (p = Root /\ pc = "candidate") \/ pc \in Opened
             /\ Mount(p) \/ (Slow(p) /\ UNCHANGED mounts)
        /\ pc \in {"candidate", "split", "boot", "initramfs"}
    <3>1. CASE MountCandidate
      BY <3>1, PointFacts DEF MountCandidate
    <3>2. CASE PassOver
      BY <3>2, PointFacts DEF PassOver, Step
    <3>3. CASE MountSplit \/ SplitSlow
      BY <3>3, PointFacts DEF MountSplit, SplitSlow, ToMount
    <3>4. CASE MountBoot
      <4>1. guest.fstab["boot"] \in {"here", "gone", "no"}
        BY <1>0
      <4>. QED
        BY <3>4, <4>1, PointFacts DEF MountBoot
    <3>5. CASE BootMountFails
      BY <3>5, PointFacts DEF BootMountFails, GiveUp
    <3>6. CASE BindSystemDir \/ BindSlow
      BY <1>0, <3>6, PointFacts DEF BindSystemDir, BindSlow, Binding, Step
    <3>. QED
      BY <1>3, <3>1, <3>2, <3>3, <3>4, <3>5, <3>6
  <2>. QED
    BY <2>1 DEF AddsMount, Step
<1>4. CASE PopMount \/ CleanupMount
  BY <1>4 DEF PopMount, CleanupMount, DropsMount, Step
<1>5. CASE CleanupVg
  BY <1>5 DEF CleanupVg, DropsVg, MayFail, Step
<1>6. CASE RemoveTree
  BY <1>6 DEF RemoveTree, Ends, Step
<1>7. CASE NotWanted \/ InitramfsSkips \/ NothingToRebuild \/ ToRebuild \/ RebuildImage \/ AllRebuilt \/ InitramfsFails
           \/ FixNetwork \/ FixAzure \/ FixGcp
  <2>1. /\ pc \in Step /\ pc' \in Step \cup {"sync"}
        /\ UNCHANGED <<guest, faults, wiped, mounts, mounted, stray, denied, vgs, activated>>
    BY <1>7 DEF NotWanted, InitramfsSkips, NothingToRebuild, ToRebuild, RebuildImage, AllRebuilt, InitramfsFails,
       FixNetwork, FixAzure, FixGcp, Proceed, After, Step
  <2>. QED
    BY <2>1 DEF Step
<1>. QED
  BY <1>1, <1>2, <1>3, <1>4, <1>5, <1>6, <1>7 DEF FixNext, OpenRoot, RunSteps, Cleanup

LEMMA InitFixTypes == FixInit => FixTypes
BY DEF FixInit, FixTypes, Searching

LEMMA NextFixTypes == FixTypes /\ [FixNext]_fixVars => FixTypes'
<1>. SUFFICES ASSUME FixTypes, FixNext PROVE FixTypes'
  BY DEF FixTypes, fixVars, tree
<1>1. ListStep
  BY FixIsListStep
<1>2. pc' \in Searching \cup Step \cup {"sync", "cleanup", "done"} /\ k' \in Nat /\ (pc' = "activate" => k' # 0)
  <2>. USE DEF Move, Searching, Step
  <2>0. k \in Nat /\ (pc = "activate" => k # 0)
    BY DEF FixTypes
  <2>1. CASE OpenRoot
    <3>1. CASE ScanDisk \/ ScanFails \/ NameClash \/ VolumesListed \/ PassOver \/ NoRoot \/ SplitDone \/ RootFound
               \/ NotTheRoot \/ PopRaises \/ Popped \/ BootMountFails
      BY <2>0, <3>1 DEF ScanDisk, ScanFails, NameClash, VolumesListed, PassOver, NoRoot, SplitDone, RootFound,
         NotTheRoot, PopRaises, Popped, BootMountFails, Abandon, GiveUp
    <3>2. CASE ActivateVg \/ ActivatePartly \/ MountCandidate \/ MountSplit \/ SplitSlow \/ PopMount \/ MountBoot
      <4>1. \/ pc' \in {"activate", "cleanup"} /\ k' \in {k + 1, 0} /\ (pc' = "activate" => k' = k + 1)
            \/ pc' \in {"split", "look", "pop", "initramfs"} /\ k' \in {k, 0}
        <5>1. CASE ActivateVg \/ ActivatePartly
          BY <5>1 DEF ActivateVg, ActivatePartly
        <5>2. CASE MountCandidate \/ MountSplit \/ SplitSlow
          BY <5>2 DEF MountCandidate, MountSplit, SplitSlow
        <5>3. CASE PopMount \/ MountBoot
          BY <5>3 DEF PopMount, MountBoot
        <5>. QED
          BY <3>2, <5>1, <5>2, <5>3
      <4>. QED
        BY <2>0, <4>1
    <3>. QED
      BY <2>1, <3>1, <3>2 DEF OpenRoot
  <2>2. CASE RunSteps
    <3>1. CASE BindSystemDir \/ BindSlow \/ ToRebuild \/ RebuildImage \/ Sync
      BY <2>0, <3>1, PointFacts DEF BindSystemDir, BindSlow, Binding, ToRebuild, RebuildImage, Sync
    <3>2. CASE NotWanted \/ InitramfsSkips \/ NothingToRebuild \/ AllRebuilt \/ InitramfsFails
               \/ FixNetwork \/ FixAzure \/ FixGcp
      <4>1. \E s \in Step : Proceed(s)
        BY <3>2 DEF NotWanted, InitramfsSkips, NothingToRebuild, AllRebuilt, InitramfsFails, FixNetwork, FixAzure, FixGcp
      <4>. QED
        BY <4>1 DEF Proceed, After
    <3>. QED
      BY <2>2, <3>1, <3>2 DEF RunSteps
  <2>3. CASE Cleanup
    <3>1. k' \in {k, 0} /\ pc' \in {"cleanup", "done"}
      BY <2>3 DEF Cleanup, CleanupMount, CleanupVg, RemoveTree
    <3>. QED
      BY <2>0, <3>1
  <2>. QED
    BY <2>1, <2>2, <2>3 DEF FixNext
<1>3. mounts' \in Seq(Points) /\ mounted' \subseteq Points /\ stray' \subseteq Points /\ denied' \subseteq Points
  <2>1. CASE AddsMount
    <3>1. PICK p \in Points : Mount(p) \/ (Slow(p) /\ UNCHANGED mounts)
      BY <2>1 DEF AddsMount
    <3>2. CASE Mount(p)
      BY <3>2, AppendFact DEF Mount, FixTypes
    <3>3. CASE Slow(p) /\ UNCHANGED mounts
      BY <3>3 DEF Slow, FixTypes
    <3>. QED
      BY <3>1, <3>2, <3>3
  <2>2. CASE DropsMount
    BY <2>2, FrontFact DEF DropsMount, Unmount, CannotStart, FixTypes
  <2>. QED
    BY <1>1, <2>1, <2>2 DEF ListStep, Ends, FixTypes
<1>4. vgs' \in Seq(ToSet(guest.vgs)) /\ activated' \subseteq ToSet(guest.vgs)
  <2>1. CASE AddsVg
    BY <2>1, AppendFact DEF AddsVg, FixTypes
  <2>2. CASE DropsVg
    BY <2>2, FrontFact DEF DropsVg, FixTypes
  <2>. QED
    BY <1>1, <2>1, <2>2 DEF ListStep, Ends, FixTypes
<1>. QED
  BY <1>1, <1>2, <1>3, <1>4 DEF ListStep, FixTypes

-----------------------------------------------------------------------------
(* Nothing is left.  Below the root, all goes with it when it is unmounted,  *)
(* and while anything is mounted there the root is on the list or could not  *)
(* be unmounted; what is active is on the other list as long as no           *)
(* activation breaks off and no deactivation fails; the lists are empty in   *)
(* the end.                                                                  *)

Listed ==
  /\ "stuck" \notin faults => Root \in ToSet(mounts) \cup denied \/ (mounted = {} /\ stray \subseteq {Root})
  /\ "start" \notin faults => denied = {}
  /\ "slow" \notin faults => stray = {}
  /\ faults \cap {"slow", "start", "stuck"} = {} => ~wiped
  /\ pc \in Opened => Root \in ToSet(mounts)
  /\ faults \cap {"partial", "undo"} = {} =>
       activated \subseteq ToSet(vgs) \/ (pc \in {"cleanup", "done"} /\ mounts = <<>> /\ mounted \cup stray # {})
  /\ pc = "done" => mounts = <<>> /\ vgs = <<>>

LEMMA NextListed == FixTypes /\ Listed /\ [FixNext]_fixVars => Listed'
<1>. SUFFICES ASSUME FixTypes, Listed, FixNext PROVE Listed'
  BY DEF Listed, fixVars, tree
<1>1. ListStep
  BY FixIsListStep
<1>. USE DEF ListStep, Ends, Opened, Step
<1>2. CASE Ends
  BY <1>1, <1>2, EmptyFact DEF Listed, FixTypes
<1>3. CASE AddsMount /\ UNCHANGED <<vgs, activated, wiped>> /\ pc' # "done"
  <2>1. PICK p \in Points :
          /\ (p = Root /\ pc = "candidate") \/ pc \in Opened
          /\ Mount(p) \/ (Slow(p) /\ UNCHANGED mounts)
    BY <1>3 DEF AddsMount
  <2>2. /\ denied' = denied /\ pc \notin {"cleanup", "done"}
        /\ ToSet(mounts) \subseteq ToSet(mounts')
        /\ \/ Root \in ToSet(mounts')
           \/ p = Root /\ mounted' = mounted /\ stray' = stray \cup {Root} /\ Slow(p) /\ UNCHANGED mounts
        /\ stray' = stray \/ "slow" \in faults
    <3>1. CASE Mount(p)
      <4>1. mounts \in Seq(Points)
        BY DEF FixTypes
      <4>2. ToSet(Append(mounts, p)) = ToSet(mounts) \cup {p}
        BY <4>1, AppendFact
      <4>. QED
        BY <2>1, <3>1, <4>2 DEF Mount, Listed
    <3>2. CASE Slow(p) /\ UNCHANGED mounts
      <4>1. pc \notin {"cleanup", "done"} /\ (pc \in Opened => Root \in ToSet(mounts'))
        BY <2>1, <3>2 DEF Listed
      <4>2. denied' = denied /\ mounted' = mounted /\ stray' = stray \cup {p} /\ "slow" \in faults /\ mounts' = mounts
        BY <3>2 DEF Slow, MayFail
      <4>. HIDE DEF Opened
      <4>. QED
        BY <2>1, <3>2, <4>1, <4>2
    <3>. QED
      BY <2>1, <3>1, <3>2
  <2>3. pc' \in Opened => Root \in ToSet(mounts')
    <3>1. CASE pc \in Opened
      BY <2>2, <3>1 DEF Listed
    <3>2. CASE pc = "candidate" /\ Mount(Root)
      BY <3>2, PointFacts, AppendFact DEF Mount, FixTypes
    <3>. QED
      BY <1>1, <3>1, <3>2
  <2>4. "stuck" \notin faults => Root \in ToSet(mounts') \cup denied' \/ (mounted' = {} /\ stray' \subseteq {Root})
    BY <2>2 DEF Listed
  <2>. QED
    BY <1>1, <1>3, <2>2, <2>3, <2>4 DEF Listed
<1>4. CASE DropsMount /\ UNCHANGED <<vgs, activated, wiped>> /\ pc' # "done"
  <2>1. ToSet(mounts) \ {Last(mounts)} \subseteq ToSet(mounts') /\ pc' = pc /\ pc \notin Opened /\ mounts # <<>>
    BY <1>4, FrontFact DEF DropsMount, Unmount, FixTypes
  <2>2. \/ "stuck" \in faults /\ UNCHANGED <<mounted, stray, denied>>
        \/ "start" \in faults /\ denied' = denied \cup {Last(mounts)} /\ UNCHANGED <<mounted, stray>>
        \/ /\ denied' = denied /\ mounted' = mounted \ Within(Last(mounts))
           /\ stray' = stray \ (Within(Last(mounts)) \ {Last(mounts)})
    BY <1>4 DEF DropsMount, Unmount, CannotStart, MayFail
  <2>3. "stuck" \notin faults => Root \in ToSet(mounts') \cup denied' \/ (mounted' = {} /\ stray' \subseteq {Root})
    BY <2>1, <2>2 DEF Listed, Within, FixTypes
  <2>. QED
    BY <1>1, <1>4, <2>1, <2>2, <2>3 DEF Listed
<1>5. CASE AddsVg /\ UNCHANGED <<mounts, mounted, stray, denied, wiped>> /\ pc' # "done"
  <2>1. PICK g \in ToSet(guest.vgs) :
          /\ activated' = activated \cup {g}
          /\ vgs' = Append(vgs, g) \/ ("partial" \in faults /\ vgs' = vgs)
    BY <1>5 DEF AddsVg
  <2>2. vgs \in Seq(ToSet(guest.vgs))
    BY DEF FixTypes
  <2>3. ToSet(Append(vgs, g)) = ToSet(vgs) \cup {g}
    BY <2>2, AppendFact
  <2>4. pc = "activate" /\ pc' \notin Opened
    BY <1>1, <1>5 DEF AddsVg
  <2>. QED
    BY <1>1, <1>5, <2>1, <2>3, <2>4 DEF Listed
<1>6. CASE DropsVg /\ UNCHANGED <<mounts, mounted, stray, denied, wiped>> /\ pc' # "done"
  <2>1. /\ ToSet(vgs) \ {Last(vgs)} \subseteq ToSet(vgs') /\ pc = "cleanup" /\ pc' = pc /\ mounts = <<>>
        /\ \/ activated' = activated \ {Last(vgs)}
           \/ ("undo" \in faults \/ mounted \cup stray # {}) /\ activated' = activated
    BY <1>6, FrontFact DEF DropsVg, FixTypes
  <2>. QED
    BY <1>1, <1>6, <2>1 DEF Listed
<1>7. CASE UNCHANGED <<mounts, mounted, stray, denied, vgs, activated, wiped>> /\ pc' # "done"
  <2>1. pc' \in Opened => pc \in Opened \/ Mount(Root)
    BY <1>1
  <2>2. pc' \in Opened => Root \in ToSet(mounts')
    BY <1>7, <2>1, PointFacts, AppendFact DEF Listed, Mount, FixTypes
  <2>. QED
    BY <1>1, <1>7, <2>2 DEF Listed
<1>. QED
  BY <1>1, <1>2, <1>3, <1>4, <1>5, <1>6, <1>7

\* However a fix-up ends and whatever fails on the way: if no unmount fails for good and no mount times out, no
\* tree is removed over a mount.  If the root can be unmounted, whatever other unmounts and mounts that timed out
\* left behind goes with it, but for a candidate whose own mount timed out; and the volume groups of which
\* nothing is mounted are inactive unless vgchange itself failed.
THEOREM GuestIsLeftAlone == FixSpec => []NothingLeft
<1>1. FixInit => FixTypes /\ Listed
  <2>. SUFFICES ASSUME FixInit PROVE FixTypes /\ Listed
    OBVIOUS
  <2>. QED
    BY InitFixTypes DEF FixInit, Listed, Opened, Step
<1>2. (FixTypes /\ Listed) /\ [FixNext]_fixVars => (FixTypes /\ Listed)'
  BY NextFixTypes, NextListed
<1>3. FixTypes /\ Listed => NothingLeft
  BY EmptyFact DEF FixTypes, Listed, NothingLeft
<1>. QED
  BY <1>1, <1>2, <1>3, PTL DEF FixSpec

-----------------------------------------------------------------------------
(* What the network step leaves behind.  Every file it writes is on its     *)
(* list of files to label, and a mechanism that is in use has its file.     *)

Works ==
  [net : Networks, changes : SUBSET (DhcpFiles \cup {"rules", "relabel"}), written : SUBSET DhcpFiles]
Fresh(r)   == r \in Works /\ r.net.unlabelled \subseteq r.written
SameStack(m, n) ==
  /\ m.nm = n.nm /\ m.legacy = n.legacy /\ m.networkd = n.networkd /\ m.netplan = n.netplan
  /\ m.systemd = n.systemd /\ m.selinux = n.selinux
Grows(r, q) == Fresh(q) /\ SameStack(q.net, r.net) /\ r.net.files \subseteq q.net.files

LEMMA WorkFields ==
  ASSUME NEW r \in Works
  PROVE  /\ r.net \in Networks /\ r.written \in SUBSET DhcpFiles
         /\ r.changes \in SUBSET (DhcpFiles \cup {"rules", "relabel"})
         /\ r.net.files \in SUBSET DhcpFiles /\ r.net.unlabelled \in SUBSET DhcpFiles
         /\ r.net.rules \in BOOLEAN /\ r.net.relabel \in BOOLEAN
BY DEF Works, Networks

LEMMA WriteGrows ==
  ASSUME NEW r, Fresh(r), NEW path \in DhcpFiles
  PROVE  Grows(r, Write(r, path)) /\ path \in Write(r, path).net.files
<1>1. CASE path \in r.net.files
  BY <1>1 DEF Write, Grows, SameStack
<1>2. CASE path \notin r.net.files
  <2>. DEFINE m == [r.net EXCEPT !.files = @ \cup {path}, !.unlabelled = @ \cup {path}]
              q == [r EXCEPT !.net = m, !.changes = @ \cup {path}, !.written = @ \cup {path}]
  <2>0. r.net \in Networks /\ r \in Works /\ r.net.unlabelled \subseteq r.written
    BY WorkFields DEF Fresh
  <2>1. /\ m \in Networks /\ SameStack(m, r.net)
        /\ m.files = r.net.files \cup {path} /\ m.unlabelled = r.net.unlabelled \cup {path}
    BY <2>0 DEF Networks, SameStack
  <2>. HIDE DEF m
  <2>2. q \in Works /\ q.net = m /\ q.written = r.written \cup {path}
    BY <2>0, <2>1 DEF Works
  <2>. HIDE DEF q
  <2>3. Write(r, path) = q
    BY <1>2, <2>0 DEF Write, Works, Networks, q, m
  <2>. QED
    BY <2>0, <2>1, <2>2, <2>3 DEF Grows, Fresh
<1>. QED
  BY <1>1, <1>2

LEMMA GrowsOn ==
  ASSUME NEW r, NEW q, NEW t, Grows(r, q), Grows(q, t)
  PROVE  Grows(r, t)
BY DEF Grows, SameStack

LEMMA RulesGrow == ASSUME NEW r, Fresh(r) PROVE Grows(r, DisablePersistentRules(r))
<1>1. CASE ~r.net.rules
  BY <1>1 DEF DisablePersistentRules, Grows, SameStack
<1>2. CASE r.net.rules
  <2>. DEFINE m == [r.net EXCEPT !.rules = FALSE]
              q == [r EXCEPT !.net = m, !.changes = @ \cup {"rules"}]
  <2>0. r.net \in Networks /\ r \in Works /\ r.net.unlabelled \subseteq r.written
    BY WorkFields DEF Fresh
  <2>1. m \in Networks /\ SameStack(m, r.net) /\ m.files = r.net.files /\ m.unlabelled = r.net.unlabelled
    BY <2>0 DEF Networks, SameStack
  <2>. HIDE DEF m
  <2>2. q \in Works /\ q.net = m /\ q.written = r.written
    BY <2>0, <2>1 DEF Works
  <2>. HIDE DEF q
  <2>3. DisablePersistentRules(r) = q
    BY <1>2, <2>0 DEF DisablePersistentRules, Works, Networks, q, m
  <2>. QED
    BY <2>0, <2>1, <2>2, <2>3 DEF Grows, Fresh
<1>. QED
  BY <1>1, <1>2

\* The file of every mechanism in use, whatever the others did.
HasFiles(n) ==
  /\ UsesNM(n) => "profile" \in n.files
  /\ UsesLegacy(n) /\ n.systemd => "unit" \in n.files
  /\ n.netplan => "yaml" \in n.files
  /\ n.networkd => "networkd" \in n.files

LEMMA StagesHaveFiles ==
  ASSUME NEW g \in Networks, g.unlabelled = {}, NEW labelled
  PROVE  \E r : /\ Fresh(r) /\ SameStack(r.net, g) /\ HasFiles(r.net)
                /\ UpTo(g, 7, labelled) = LabelForSelinux(r, labelled)
<1>. DEFINE r0 == Begin(g)                    r1 == DisablePersistentRules(r0)
            r2 == ConfigureNetworkManager(r1)   r3 == InstallFirstbootUnit(r2)
            r4 == WriteNetplan(r3)              r5 == WriteWaitOnline(r4)
            r6 == WriteNetworkd(r5)
<1>0. UpTo(g, 7, labelled) = LabelForSelinux(r6, labelled)
  BY DEF UpTo
<1>1. Fresh(r0) /\ SameStack(r0.net, g)
  BY DEF Begin, Fresh, Works, SameStack
<1>. HIDE DEF r0
<1>2. Grows(r0, r1)
  BY <1>1, RulesGrow
<1>. HIDE DEF r1
<1>3. Grows(r1, r2) /\ (UsesNM(r1.net) => "profile" \in r2.net.files)
  <2>1. Fresh(r1)
    BY <1>2 DEF Grows
  <2>2. Grows(r1, r1)
    BY <2>1 DEF Grows, SameStack
  <2>3. "profile" \in DhcpFiles
    BY DEF DhcpFiles
  <2>. QED
    BY <2>1, <2>2, <2>3, WriteGrows DEF ConfigureNetworkManager
<1>. HIDE DEF r2
<1>4. Grows(r2, r3) /\ (UsesLegacy(r2.net) /\ r2.net.systemd => "unit" \in r3.net.files)
  <2>1. Fresh(r2)
    BY <1>3 DEF Grows
  <2>2. Grows(r2, r2)
    BY <2>1 DEF Grows, SameStack
  <2>3. "unit" \in DhcpFiles
    BY DEF DhcpFiles
  <2>. QED
    BY <2>1, <2>2, <2>3, WriteGrows DEF InstallFirstbootUnit
<1>. HIDE DEF r3
<1>5. Grows(r3, r4) /\ (r3.net.netplan => "yaml" \in r4.net.files)
  <2>1. Fresh(r3)
    BY <1>4 DEF Grows
  <2>2. Grows(r3, r3)
    BY <2>1 DEF Grows, SameStack
  <2>3. "yaml" \in DhcpFiles
    BY DEF DhcpFiles
  <2>. QED
    BY <2>1, <2>2, <2>3, WriteGrows DEF WriteNetplan
<1>. HIDE DEF r4
<1>6. Grows(r4, r5)
  <2>1. Fresh(r4)
    BY <1>5 DEF Grows
  <2>2. Grows(r4, r4)
    BY <2>1 DEF Grows, SameStack
  <2>3. "waitOnline" \in DhcpFiles
    BY DEF DhcpFiles
  <2>. QED
    BY <2>1, <2>2, <2>3, WriteGrows DEF WriteWaitOnline
<1>. HIDE DEF r5
<1>7. Grows(r5, r6) /\ (r5.net.networkd => "networkd" \in r6.net.files)
  <2>1. Fresh(r5)
    BY <1>6 DEF Grows
  <2>2. Grows(r5, r5)
    BY <2>1 DEF Grows, SameStack
  <2>3. "networkd" \in DhcpFiles
    BY DEF DhcpFiles
  <2>. QED
    BY <2>1, <2>2, <2>3, WriteGrows DEF WriteNetworkd
<1>. HIDE DEF r6
<1>8. Fresh(r6) /\ SameStack(r6.net, g)
  BY <1>1, <1>2, <1>3, <1>4, <1>5, <1>6, <1>7 DEF Grows, SameStack
<1>9. HasFiles(r6.net)
  BY <1>1, <1>2, <1>3, <1>4, <1>5, <1>6, <1>7 DEF Grows, SameStack, HasFiles, UsesNM, UsesLegacy
<1>. QED
  BY <1>0, <1>8, <1>9

\* A stack that is supported asks for an address once the network step says done or not needed.
LEMMA NetworkIsTrue ==
  ASSUME NEW g \in Networks, g.unlabelled = {}, NEW labelled, NEW stop \in 1..NetworkStages + 1,
         Apply(g, stop, labelled).status \in {"done", "not_needed"},
         Supported(Apply(g, stop, labelled).net)
  PROVE  GetsDhcp(Apply(g, stop, labelled).net)
<1>. DEFINE a == Apply(g, stop, labelled)   t == UpTo(g, 7, labelled)
<1>1. Handled(g) /\ stop = 8 /\ a.net = t.net
  <2>1. Handled(g)
    <3>. SUFFICES ASSUME ~Handled(g) PROVE a.status = "skipped"
      OBVIOUS
    <3>. QED
      BY DEF Apply
  <2>2. stop \in Nat /\ stop <= 8 /\ NetworkStages = 7
    BY DEF NetworkStages
  <2>3. ~(stop <= 7)
    <3>. SUFFICES ASSUME stop <= 7 PROVE a.status = "failed"
      OBVIOUS
    <3>. QED
      BY <2>1, <2>2 DEF Apply
  <2>4. stop = 8
    BY <2>2, <2>3
  <2>. QED
    BY <2>1, <2>4 DEF Apply
<1>2. PICK r : /\ Fresh(r) /\ SameStack(r.net, g) /\ HasFiles(r.net) /\ t = LabelForSelinux(r, labelled)
  BY StagesHaveFiles
<1>3. r \in Works /\ r.net \in Networks /\ r.net.unlabelled \subseteq r.written
  BY <1>2, WorkFields DEF Fresh
<1>4. /\ SameStack(t.net, r.net) /\ t.net.files = r.net.files
      /\ t.net.unlabelled = {} \/ t.net.relabel \/ ~t.net.selinux
  <2>. DEFINE m1 == [r.net EXCEPT !.unlabelled = {}]   m2 == [r.net EXCEPT !.relabel = TRUE]
  <2>1. /\ SameStack(m1, r.net) /\ m1.files = r.net.files /\ m1.unlabelled = {}
        /\ SameStack(m2, r.net) /\ m2.files = r.net.files /\ m2.relabel
    BY <1>3 DEF Networks, SameStack
  <2>. HIDE DEF m1, m2
  <2>2. \/ t = r /\ (r.written = {} \/ ~r.net.selinux)
        \/ t.net = m1
        \/ t.net = m2
    BY <1>2, <1>3 DEF LabelForSelinux, Works, m1, m2
  <2>. QED
    BY <1>3, <2>1, <2>2 DEF SameStack
<1>5. HasFiles(t.net) /\ Supported(t.net)
  BY <1>1, <1>2, <1>4 DEF HasFiles, SameStack, UsesNM, UsesLegacy
<1>6. \A f \in t.net.files : Reads(t.net, f)
  BY <1>4 DEF Reads
<1>7. GetsDhcp(t.net)
  BY <1>5, <1>6 DEF GetsDhcp, HasFiles, Supported, UsesNM, UsesLegacy
<1>. QED
  BY <1>1, <1>7

-----------------------------------------------------------------------------
(* What the cloud steps leave behind.                                       *)

\* A change of a guest's files: it keeps within the files that exist at all.
Tries(S) == [fs : SUBSET S, changed : BOOLEAN]

LEMMA DropFact ==
  ASSUME NEW S, NEW r \in Tries(S), NEW what
  PROVE  Cloud!Drop(r, what) \in Tries(S) /\ Cloud!Drop(r, what).fs = r.fs \ {what}
BY DEF Cloud!Drop, Tries

LEMMA PutFact ==
  ASSUME NEW S, NEW r \in Tries(S), NEW what \in S
  PROVE  Cloud!Put(r, what) \in Tries(S) /\ Cloud!Put(r, what).fs = r.fs \cup {what}
BY DEF Cloud!Put, Tries

\* A drop-in is in cloud.cfg.d.
InCfgDir(f) == f \cap {"azureCfg", "googleCfg"} # {} => "cloudCfg" \in f

LEMMA AzureIsTrue ==
  ASSUME NEW f, InCfgDir(f), NEW stop \in 1..Cloud!AzureStages + 1,
         Cloud!ApplyAzure(f, stop).status \in {"done", "not_needed"}
  PROVE  Cloud!AzureClean(Cloud!ApplyAzure(f, stop).fs)
<1>. DEFINE S  == f \cup {"getty", "cloudDir", "cloudCfg", "afterAzure"}
            r0 == Cloud!Begun(f)                  r1 == Cloud!RemoveAzureCloudCfg(r0)
            r2 == Cloud!FixFstabSr0(r1)           r3 == Cloud!DisableWaagentUnits(r2)
            r4 == Cloud!EnableSerialConsole(r3)   r5 == Cloud!WriteAzureDatasource(r4)
<1>1. "etc" \in f /\ stop = 6 /\ Cloud!ApplyAzure(f, stop).fs = Cloud!AzureUpTo(f, 5).fs
  <2>1. "etc" \in f
    BY DEF Cloud!ApplyAzure
  <2>2. stop \in Nat /\ stop <= 6 /\ Cloud!AzureStages = 5
    BY DEF Cloud!AzureStages
  <2>3. ~(stop <= 5)
    BY <2>1, <2>2 DEF Cloud!ApplyAzure
  <2>4. stop = 6
    BY <2>2, <2>3
  <2>. QED
    BY <2>1, <2>4 DEF Cloud!ApplyAzure
<1>2. Cloud!AzureUpTo(f, 5) = r5
  BY DEF Cloud!AzureUpTo
<1>3. r0 \in Tries(S) /\ r0.fs = f
  BY DEF Cloud!Begun, Tries
<1>. HIDE DEF S, r0, r1, r2, r3, r4, r5
<1>4. r1 \in Tries(S) /\ r1.fs = f \ {"azureCfg"}
  <2>1. Cloud!Drop(r0, "azureCfg") \in Tries(S) /\ Cloud!Drop(r0, "azureCfg").fs = r0.fs \ {"azureCfg"}
    BY <1>3, DropFact
  <2>2. "azureCfg" \in r0.fs => "cloudCfg" \in r0.fs
    BY <1>3 DEF InCfgDir
  <2>. QED
    BY <1>3, <2>1, <2>2 DEF r1, Cloud!RemoveAzureCloudCfg
<1>5. r2 \in Tries(S) /\ r2.fs = r1.fs \ {"sr0"}
  BY <1>3, <1>4, DropFact DEF r2, Cloud!FixFstabSr0
<1>6. r3 \in Tries(S) /\ r3.fs = r2.fs \ {"agent"}
  BY <1>3, <1>5, DropFact DEF r3, Cloud!DisableWaagentUnits
<1>7. r4 \in Tries(S) /\ r4.fs \in {r3.fs, r3.fs \cup {"getty"}}
  <2>1. "getty" \in S
    BY DEF S
  <2>. QED
    BY <1>6, <2>1, PutFact DEF r4, Cloud!EnableSerialConsole
<1>8. r4.fs \cap {"azureCfg", "sr0", "agent"} = {}
  BY <1>4, <1>5, <1>6, <1>7
<1>9. /\ r5.fs \cap {"azureCfg", "sr0", "agent"} = {}
      /\ "cloudDir" \in r5.fs => "afterAzure" \in r5.fs
  <2>. DEFINE q == [r4 EXCEPT !.fs = @ \cup {"cloudDir", "cloudCfg"}]
  <2>0. "cloudDir" \in S /\ "cloudCfg" \in S /\ "afterAzure" \in S
    BY DEF S
  <2>1. q \in Tries(S) /\ q.fs = r4.fs \cup {"cloudDir", "cloudCfg"}
    BY <1>7, <2>0 DEF Tries
  <2>. HIDE DEF q
  <2>2. \/ r5 = r4 /\ "cloudDir" \notin r4.fs
        \/ r5 = Cloud!Put(q, "afterAzure")
    BY DEF r5, Cloud!WriteAzureDatasource, q
  <2>3. Cloud!Put(q, "afterAzure").fs = q.fs \cup {"afterAzure"}
    BY <2>0, <2>1, PutFact
  <2>. QED
    BY <1>8, <2>1, <2>2, <2>3
<1>. QED
  BY <1>1, <1>2, <1>9 DEF Cloud!AzureClean

LEMMA GcpIsTrue ==
  ASSUME NEW f, InCfgDir(f), NEW stop \in 1..Cloud!GcpStages + 1,
         Cloud!ApplyGcp(f, stop).status \in {"done", "not_needed"}
  PROVE  Cloud!GcpClean(Cloud!ApplyGcp(f, stop).fs)
<1>. DEFINE S  == f \cup {"cloudDir", "cloudCfg", "afterGcp"}
            r0 == Cloud!Begun(f)               r1 == Cloud!DisableGceUnits(r0)
            r2 == Cloud!RemoveGceCloudCfg(r1)  r3 == Cloud!WriteGcpDatasource(r2)
<1>1. "etc" \in f /\ stop = 4 /\ Cloud!ApplyGcp(f, stop).fs = Cloud!GcpUpTo(f, 3).fs
  <2>1. "etc" \in f
    BY DEF Cloud!ApplyGcp
  <2>2. stop \in Nat /\ stop <= 4 /\ Cloud!GcpStages = 3
    BY DEF Cloud!GcpStages
  <2>3. ~(stop <= 3)
    BY <2>1, <2>2 DEF Cloud!ApplyGcp
  <2>4. stop = 4
    BY <2>2, <2>3
  <2>. QED
    BY <2>1, <2>4 DEF Cloud!ApplyGcp
<1>2. Cloud!GcpUpTo(f, 3) = r3
  BY DEF Cloud!GcpUpTo
<1>3. /\ "cloudDir" \in S /\ "cloudCfg" \in S /\ "afterGcp" \in S
      /\ r0 \in Tries(S) /\ r0.fs = f
  BY DEF Cloud!Begun, Tries
<1>. HIDE DEF S, r0
<1>4. r1 \in Tries(S) /\ r1.fs = f \ {"gceUnit"}
  BY <1>3, DropFact DEF Cloud!DisableGceUnits
<1>. HIDE DEF r1
<1>5. r2 \in Tries(S) /\ r2.fs = r1.fs \ {"googleCfg"}
  <2>1. "googleCfg" \in r1.fs => "cloudCfg" \in r1.fs
    BY <1>4 DEF InCfgDir
  <2>. QED
    BY <1>3, <1>4, <2>1, DropFact DEF Cloud!RemoveGceCloudCfg
<1>. HIDE DEF r2
<1>6. r3.fs \cap {"googleCfg", "gceUnit"} = {} /\ "afterGcp" \in r3.fs
  <2>. DEFINE q == [r2 EXCEPT !.fs = @ \cup {"cloudDir", "cloudCfg"}]
  <2>1. q \in Tries(S) /\ q.fs = r2.fs \cup {"cloudDir", "cloudCfg"}
    BY <1>3, <1>5 DEF Tries
  <2>. HIDE DEF q
  <2>2. r3 = Cloud!Put(q, "afterGcp")
    BY DEF Cloud!WriteGcpDatasource, q
  <2>3. r3.fs = q.fs \cup {"afterGcp"}
    BY <1>3, <2>1, <2>2, PutFact
  <2>. QED
    BY <1>4, <1>5, <2>1, <2>3
<1>. QED
  BY <1>1, <1>2, <1>6 DEF Cloud!GcpClean

-----------------------------------------------------------------------------
(* The answers are true.  A step's answer comes with the step; until then   *)
(* its part of the guest is as it was found, after it nothing touches it.   *)

Ahead(s) ==
  Searching \cup CASE s = "initramfs" -> {"initramfs"}
                   [] s = "network"   -> {"initramfs", "network"}
                   [] s = "azure"     -> {"initramfs", "network", "azure"}
                   [] s = "gcp"       -> Step

Answered ==
  /\ result \in [Step -> {None, "done", "not_needed", "skipped", "failed"}]
  /\ \A s \in Step : IF pc \in Ahead(s) THEN result[s] = None ELSE s \in guest.want <=> result[s] # None
  /\ pc = "initramfs" /\ k # 0 => "initramfs" \in guest.want

AsFound ==
  /\ images \in [Kernels -> ImageStates]
  /\ pc \in Ahead("network") => net = guest.net
  /\ pc \in Ahead("azure") => fs = guest.fs
  /\ pc \in Ahead("gcp") /\ "azure" \notin guest.want => fs = guest.fs
  /\ pc = "initramfs" /\ k > 3 => Lacking \subseteq rebuilds

TrueAnswers ==
  /\ Says("initramfs") => \A v \in Kernels : images[v] \in {"virtio", "none"}
  /\ Says("network") /\ Supported(net) => GetsDhcp(net)
  /\ Says("azure") => Cloud!AzureClean(fs)
  /\ Says("gcp") => Cloud!GcpClean(fs)

Truth == FixTypes /\ Answered /\ AsFound /\ TrueAnswers

\* A step of the initramfs and of its images, a step that only moves on, and the end.
Rest == {"sync", "cleanup", "done"}

LEMMA AheadFacts ==
  /\ \A s \in Step : Searching \subseteq Ahead(s) /\ Rest \cap Ahead(s) = {} /\ s \in Ahead(s) /\ After(s) \notin Ahead(s)
  /\ Ahead("initramfs") = Searching \cup {"initramfs"}
  /\ Ahead("network") = Searching \cup {"initramfs", "network"}
  /\ Ahead("azure") = Searching \cup {"initramfs", "network", "azure"}
  /\ Ahead("gcp") = Searching \cup {"initramfs", "network", "azure", "gcp"}
  /\ \A s, t \in Step : s # t => (s \in Ahead(t) <=> After(s) \in Ahead(t))
<1>1. /\ Ahead("initramfs") = Searching \cup {"initramfs"}
      /\ Ahead("network") = Searching \cup {"initramfs", "network"}
      /\ Ahead("azure") = Searching \cup {"initramfs", "network", "azure"}
      /\ Ahead("gcp") = Searching \cup {"initramfs", "network", "azure", "gcp"}
  BY DEF Ahead, Step
<1>2. /\ After("initramfs") = "network" /\ After("network") = "azure" /\ After("azure") = "gcp" /\ After("gcp") = "sync"
  BY DEF After
<1>3. \A s \in Step : s = "initramfs" \/ s = "network" \/ s = "azure" \/ s = "gcp"
  BY DEF Step
<1>. QED
  BY <1>1, <1>2, <1>3 DEF Searching, Rest

LEMMA InitTruth == FixInit => Answered /\ AsFound /\ TrueAnswers
<1>. SUFFICES ASSUME FixInit PROVE Answered /\ AsFound /\ TrueAnswers
  OBVIOUS
<1>1. guest \in Guests /\ guest.images \in [Kernels -> ImageStates]
  BY GuestsAssumption DEF FixInit
<1>2. \A s \in Step : result[s] = None
  BY DEF FixInit
<1>3. pc \in Searching /\ k = 0
  BY DEF FixInit, Searching
<1>4. Answered
  BY <1>2, <1>3, AheadFacts DEF Answered, FixInit
<1>5. AsFound
  BY <1>1, <1>3 DEF AsFound, FixInit
<1>6. ~Says("initramfs") /\ ~Says("network") /\ ~Says("azure") /\ ~Says("gcp")
  BY <1>2 DEF Says, None, Step
<1>. QED
  BY <1>4, <1>5, <1>6 DEF TrueAnswers

\* Nothing is answered and nothing of the guest touched.
LEMMA QuietKeepsTruth ==
  ASSUME Truth, UNCHANGED <<guest, images, net, fs, result>>,
         \/ pc \in Searching /\ (pc' \in Searching \/ (pc' = "initramfs" /\ k' = 0))
         \/ pc \in Rest /\ pc' \in Rest
  PROVE  (Answered /\ AsFound /\ TrueAnswers)'
<1>1. \A s \in Step : pc \in Ahead(s) <=> pc' \in Ahead(s)
  <2>1. \A s \in Step : "initramfs" \in Ahead(s)
    BY AheadFacts DEF Step
  <2>. QED
    BY <2>1, AheadFacts
<1>2. Answered'
  BY <1>1 DEF Truth, Answered, Rest, Searching
<1>3. AsFound'
  BY <1>1 DEF Truth, AsFound, Step, Searching, Rest
<1>. QED
  BY <1>2, <1>3 DEF Truth, TrueAnswers, Says

\* The root is not found, and no step runs.
LEMMA AnswerAllKeepsTruth ==
  ASSUME Truth, pc \in Searching, NEW a \in {"failed", "skipped"}, pc' = "cleanup",
         UNCHANGED <<guest, images, net, fs>>, AnswerAll(a)
  PROVE  (Answered /\ AsFound /\ TrueAnswers)'
<1>1. result' = [s \in Step |-> IF s \in guest.want THEN a ELSE None]
  BY DEF AnswerAll
<1>2. \A s \in Step : pc' \notin Ahead(s)
  BY AheadFacts DEF Rest
<1>3. Answered'
  BY <1>1, <1>2 DEF Answered, None
<1>4. AsFound'
  BY <1>1, <1>2 DEF Truth, AsFound, Step
<1>5. ~Says("initramfs")' /\ ~Says("network")' /\ ~Says("azure")' /\ ~Says("gcp")'
  BY <1>1 DEF Says, None, Step
<1>. QED
  BY <1>3, <1>4, <1>5 DEF TrueAnswers

\* A step s that moves on, with or without an answer; what it does to the guest is of step s only.
LEMMA MovesOn ==
  ASSUME Truth, NEW s \in Step, pc = s, pc' = After(s), k' = 0, UNCHANGED guest,
         NEW a \in {None, "done", "not_needed", "skipped", "failed"},
         result' = [result EXCEPT ![s] = a], s \in guest.want <=> a # None
  PROVE  /\ Answered'
         /\ \A t \in Step : t # s => (pc \in Ahead(t) <=> pc' \in Ahead(t)) /\ (Says(t) <=> Says(t)')
         /\ ~Says(s) /\ pc' \notin Ahead(s) /\ UNCHANGED guest /\ k' = 0
         /\ Says(s)' => a \in {"done", "not_needed"}
<1>1. pc' = After(s) /\ k' = 0 /\ UNCHANGED guest
  OBVIOUS
<1>2. \A t \in Step : t # s => (pc \in Ahead(t) <=> pc' \in Ahead(t))
  BY <1>1, AheadFacts
<1>3. pc \in Ahead(s) /\ pc' \notin Ahead(s)
  BY <1>1, AheadFacts
<1>4. result[s] = None /\ result'[s] = a /\ \A t \in Step : t # s => result'[t] = result[t]
  BY <1>3 DEF Truth, Answered
<1>5. Answered'
  BY <1>1, <1>2, <1>3, <1>4 DEF Truth, Answered
<1>. QED
  BY <1>1, <1>2, <1>3, <1>4, <1>5 DEF Says, None

LEMMA NotWantedKeepsTruth ==
  ASSUME Truth, NotWanted
  PROVE  (Answered /\ AsFound /\ TrueAnswers)'
<1>1. PICK s \in Step : pc = s /\ s \notin guest.want /\ Proceed(s) /\ UNCHANGED <<images, net, fs, result>>
  BY DEF NotWanted, disk
<1>2. pc \in Ahead(s) /\ result[s] = None
  BY <1>1, AheadFacts DEF Truth, Answered
<1>3. result' = [result EXCEPT ![s] = None]
  BY <1>1, <1>2 DEF Truth, Answered
<1>4. /\ Answered' /\ UNCHANGED guest /\ k' = 0
      /\ \A t \in Step : t # s => (pc \in Ahead(t) <=> pc' \in Ahead(t)) /\ (Says(t) <=> Says(t)')
      /\ pc' \notin Ahead(s) /\ (Says(s)' => None \in {"done", "not_needed"})
  BY <1>1, <1>3, MovesOn DEF Proceed, Move, fixed
<1>5. \A t \in Step : (pc' \in Ahead(t) => pc \in Ahead(t)) /\ (Says(t)' => Says(t))
  BY <1>4 DEF None
<1>6. AsFound'
  BY <1>1, <1>4, <1>5 DEF Truth, AsFound, Step
<1>7. TrueAnswers'
  BY <1>1, <1>5 DEF Truth, TrueAnswers, Step
<1>. QED
  BY <1>4, <1>6, <1>7

\* The images are worked on: the step has no answer yet.
LEMMA BuildKeepsTruth ==
  ASSUME Truth, BindSystemDir \/ ToRebuild \/ RebuildImage, pc' = "initramfs"
  PROVE  (Answered /\ AsFound /\ TrueAnswers)'
<1>0. Len(SystemDirs) = 3 /\ k \in Nat /\ images \in [Kernels -> ImageStates]
  BY PointFacts DEF Truth, FixTypes, AsFound
<1>1. /\ pc = "initramfs" /\ UNCHANGED <<guest, net, fs, result>>
      /\ "initramfs" \in guest.want \/ k >= Len(SystemDirs)
  BY <1>0 DEF BindSystemDir, Binding, ToRebuild, RebuildImage, Move, disk, fixed
<1>2. "initramfs" \in guest.want
  BY <1>0, <1>1 DEF Truth, Answered
<1>3. images' \in [Kernels -> ImageStates] /\ (k' > 3 => Lacking' \subseteq rebuilds')
  <2>1. CASE BindSystemDir
    BY <1>0, <2>1 DEF BindSystemDir, Binding, Move, disk
  <2>2. CASE ToRebuild
    BY <1>0, <2>2 DEF ToRebuild, Move, disk, Lacking, Installed
  <2>3. CASE RebuildImage
    <3>1. PICK v \in rebuilds : images' = [images EXCEPT ![v] = "virtio"] /\ rebuilds' = rebuilds \ {v} /\ k' = k
      BY <1>1, <2>3 DEF RebuildImage, Move
    <3>2. Lacking \subseteq rebuilds
      BY <1>0, <1>1, <2>3 DEF RebuildImage, Truth, AsFound
    <3>. QED
      BY <1>0, <3>1, <3>2 DEF Lacking, Installed, ImageStates
  <2>. QED
    BY <2>1, <2>2, <2>3
<1>4. ~Says("initramfs") /\ Answered'
  BY <1>1, <1>2, AheadFacts DEF Truth, Answered, Says, None, Step
<1>5. AsFound'
  BY <1>1, <1>3 DEF Truth, AsFound
<1>6. TrueAnswers'
  BY <1>1, <1>4 DEF Truth, TrueAnswers, Says
<1>. QED
  BY <1>4, <1>5, <1>6

LEMMA ImagesAnswered ==
  ASSUME Truth, \/ InitramfsSkips \/ NothingToRebuild \/ AllRebuilt \/ InitramfsFails
                \/ (BindSlow \/ RebuildImage) /\ pc' # "initramfs"
  PROVE  (Answered /\ AsFound /\ TrueAnswers)'
<1>1. PICK a \in {"done", "not_needed", "skipped", "failed"} :
        /\ pc = "initramfs" /\ pc' = "network" /\ k' = 0 /\ UNCHANGED guest
        /\ Report("initramfs", a) /\ UNCHANGED <<net, fs>>
        /\ "initramfs" \in guest.want \/ k >= Len(SystemDirs)
        /\ images' \in [Kernels -> ImageStates]
        /\ a \in {"done", "not_needed"} => Lacking = {} /\ images' = images
  <2>. USE DEF disk, fixed, Move, Proceed, After
  <2>0. /\ Len(SystemDirs) = 3 /\ k \in Nat /\ images \in [Kernels -> ImageStates]
        /\ pc = "initramfs" /\ k > 3 => Lacking \subseteq rebuilds
    BY PointFacts DEF Truth, FixTypes, AsFound
  <2>1. CASE InitramfsSkips
    BY <2>0, <2>1 DEF InitramfsSkips
  <2>2. CASE NothingToRebuild \/ AllRebuilt
    BY <2>0, <2>2 DEF NothingToRebuild, AllRebuilt
  <2>3. CASE InitramfsFails
    BY <2>0, <2>3 DEF InitramfsFails, ImageStates
  <2>4. CASE BindSlow
    BY <2>0, <2>4 DEF BindSlow, Binding
  <2>5. CASE RebuildImage /\ pc' # "initramfs"
    <3>1. PICK v \in rebuilds, made \in Made :
            images' = [images EXCEPT ![v] = made] /\ Report("initramfs", "failed") /\ pc' = "network" /\ k' = 0
      BY <2>5 DEF RebuildImage
    <3>2. images' \in [Kernels -> ImageStates]
      BY <2>0, <3>1 DEF Made, ImageStates
    <3>. QED
      BY <2>0, <2>5, <3>1, <3>2 DEF RebuildImage
  <2>. QED
    BY <2>1, <2>2, <2>3, <2>4, <2>5
<1>2. "initramfs" \in guest.want
  BY <1>1, PointFacts DEF Truth, Answered, FixTypes
<1>3. "initramfs" \in Step
  BY DEF Step
<1>4. /\ Answered' /\ UNCHANGED guest /\ k' = 0
      /\ \A t \in Step : t # "initramfs" => (pc \in Ahead(t) <=> pc' \in Ahead(t)) /\ (Says(t) <=> Says(t)')
      /\ Says("initramfs")' => a \in {"done", "not_needed"}
  BY <1>1, <1>2, <1>3, MovesOn DEF Report, None, After
<1>5. AsFound'
  BY <1>1, <1>4 DEF Truth, AsFound, Step
<1>6. Says("initramfs")' => \A v \in Kernels : images'[v] \in {"virtio", "none"}
  BY <1>1, <1>4 DEF Lacking, Installed
<1>7. TrueAnswers'
  BY <1>1, <1>4, <1>6 DEF Truth, TrueAnswers, Step
<1>. QED
  BY <1>4, <1>5, <1>7

LEMMA NetworkAnswered ==
  ASSUME Truth, FixNetwork
  PROVE  (Answered /\ AsFound /\ TrueAnswers)'
<1>1. PICK stop \in Stops(NetworkStages), labelled \in {TRUE, ~MayFail("command")} :
        /\ pc = "network" /\ "network" \in guest.want /\ Proceed("network") /\ UNCHANGED <<images, fs>>
        /\ net' = Apply(net, stop, labelled).net /\ Report("network", Apply(net, stop, labelled).status)
  BY DEF FixNetwork
<1>2. stop \in 1..NetworkStages + 1
  BY DEF Stops, NetworkStages
<1>3. net = guest.net /\ net \in Networks /\ net.unlabelled = {} /\ "network" \in Step
  BY <1>1, AheadFacts, GuestsAssumption DEF Truth, AsFound, FixTypes, Step
<1>. DEFINE a == Apply(net, stop, labelled).status
<1>4. a \in {"done", "not_needed", "skipped", "failed"}
  BY DEF Apply
<1>5. a \in {"done", "not_needed"} /\ Supported(net') => GetsDhcp(net')
  BY <1>1, <1>2, <1>3, NetworkIsTrue
<1>. HIDE DEF a
<1>6. /\ Answered' /\ UNCHANGED guest /\ k' = 0
      /\ \A t \in Step : t # "network" => (pc \in Ahead(t) <=> pc' \in Ahead(t)) /\ (Says(t) <=> Says(t)')
      /\ pc' \notin Ahead("network") /\ (Says("network")' => a \in {"done", "not_needed"})
  <2>1. result' = [result EXCEPT !["network"] = a]
    BY <1>1 DEF Report, a
  <2>. QED
    BY <1>1, <1>3, <1>4, <2>1, MovesOn DEF None, Proceed, Move, fixed
<1>7. AsFound'
  BY <1>1, <1>6 DEF Truth, AsFound, Step
<1>8. TrueAnswers'
  BY <1>1, <1>5, <1>6 DEF Truth, TrueAnswers, Step
<1>. QED
  BY <1>6, <1>7, <1>8

LEMMA AzureAnswered ==
  ASSUME Truth, FixAzure
  PROVE  (Answered /\ AsFound /\ TrueAnswers)'
<1>1. PICK stop \in Stops(Cloud!AzureStages) :
        /\ pc = "azure" /\ "azure" \in guest.want /\ Proceed("azure") /\ UNCHANGED <<images, net>>
        /\ fs' = Cloud!ApplyAzure(fs, stop).fs /\ Report("azure", Cloud!ApplyAzure(fs, stop).status)
  BY DEF FixAzure
<1>2. stop \in 1..Cloud!AzureStages + 1
  BY DEF Stops, Cloud!AzureStages
<1>3. InCfgDir(fs) /\ "azure" \in Step /\ pc \in Ahead("gcp")
  BY <1>1, AheadFacts, GuestsAssumption DEF Truth, AsFound, FixTypes, InCfgDir, Step
<1>. DEFINE a == Cloud!ApplyAzure(fs, stop).status
<1>4. a \in {"done", "not_needed", "skipped", "failed"}
  BY DEF Cloud!ApplyAzure
<1>5. a \in {"done", "not_needed"} => Cloud!AzureClean(fs')
  BY <1>1, <1>2, <1>3, AzureIsTrue
<1>. HIDE DEF a
<1>6. /\ Answered' /\ UNCHANGED guest /\ k' = 0
      /\ \A t \in Step : t # "azure" => (pc \in Ahead(t) <=> pc' \in Ahead(t)) /\ (Says(t) <=> Says(t)')
      /\ pc' \notin Ahead("azure") /\ (Says("azure")' => a \in {"done", "not_needed"})
  <2>1. result' = [result EXCEPT !["azure"] = a]
    BY <1>1 DEF Report, a
  <2>. QED
    BY <1>1, <1>3, <1>4, <2>1, MovesOn DEF None, Proceed, Move, fixed
<1>7. ~Says("gcp")
  BY <1>3 DEF Truth, Answered, Says, None, Step
<1>8. AsFound'
  BY <1>1, <1>6 DEF Truth, AsFound, Step
<1>9. TrueAnswers'
  BY <1>1, <1>5, <1>6, <1>7 DEF Truth, TrueAnswers, Step
<1>. QED
  BY <1>6, <1>8, <1>9

LEMMA GcpAnswered ==
  ASSUME Truth, FixGcp
  PROVE  (Answered /\ AsFound /\ TrueAnswers)'
<1>1. PICK stop \in Stops(Cloud!GcpStages) :
        /\ pc = "gcp" /\ "gcp" \in guest.want /\ Proceed("gcp") /\ UNCHANGED <<images, net>>
        /\ fs' = Cloud!ApplyGcp(fs, stop).fs /\ Report("gcp", Cloud!ApplyGcp(fs, stop).status)
  BY DEF FixGcp
<1>2. stop \in 1..Cloud!GcpStages + 1
  BY DEF Stops, Cloud!GcpStages
<1>3. "azure" \notin guest.want
  BY <1>1, GuestsAssumption DEF Truth, FixTypes
<1>4. InCfgDir(fs) /\ "gcp" \in Step
  BY <1>1, <1>3, AheadFacts, GuestsAssumption DEF Truth, AsFound, FixTypes, InCfgDir, Step
<1>. DEFINE a == Cloud!ApplyGcp(fs, stop).status
<1>5. a \in {"done", "not_needed", "skipped", "failed"}
  BY DEF Cloud!ApplyGcp
<1>6. a \in {"done", "not_needed"} => Cloud!GcpClean(fs')
  BY <1>1, <1>2, <1>4, GcpIsTrue
<1>. HIDE DEF a
<1>7. /\ Answered' /\ UNCHANGED guest /\ k' = 0
      /\ \A t \in Step : t # "gcp" => (pc \in Ahead(t) <=> pc' \in Ahead(t)) /\ (Says(t) <=> Says(t)')
      /\ pc' \notin Ahead("gcp") /\ (Says("gcp")' => a \in {"done", "not_needed"})
  <2>1. result' = [result EXCEPT !["gcp"] = a]
    BY <1>1 DEF Report, a
  <2>. QED
    BY <1>1, <1>4, <1>5, <2>1, MovesOn DEF None, Proceed, Move, fixed
<1>8. pc \notin Ahead("azure") /\ pc \notin Ahead("network")
  BY <1>1, AheadFacts DEF Searching
<1>9. ~Says("azure")
  BY <1>3, <1>8 DEF Truth, Answered, Says, None, Step
<1>10. AsFound'
  BY <1>1, <1>7, <1>8 DEF Truth, AsFound, Step
<1>11. TrueAnswers'
  BY <1>1, <1>6, <1>7, <1>9 DEF Truth, TrueAnswers, Step
<1>. QED
  BY <1>7, <1>10, <1>11

LEMMA NextTruth == Truth /\ [FixNext]_fixVars => Truth'
<1>. SUFFICES ASSUME Truth, FixNext PROVE Truth'
  BY DEF Truth, FixTypes, Answered, AsFound, TrueAnswers, Says, Lacking, Installed, fixVars, tree
<1>1. FixTypes'
  BY NextFixTypes DEF Truth
<1>2. CASE ScanDisk \/ VolumesListed \/ PassOver \/ SplitDone \/ RootFound \/ NotTheRoot \/ Popped
  <2>1. UNCHANGED <<guest, images, net, fs, result>> /\ pc \in Searching /\ pc' \in Searching
    BY <1>2 DEF ScanDisk, VolumesListed, PassOver, SplitDone, RootFound, NotTheRoot, Popped, Stay, Move, disk, fixed,
       Searching
  <2>. QED
    BY <1>1, <2>1, QuietKeepsTruth DEF Truth
<1>3. CASE ActivateVg \/ MountCandidate \/ MountSplit \/ SplitSlow \/ PopMount \/ MountBoot
  <2>1. /\ UNCHANGED <<guest, images, net, fs, result>> /\ pc \in Searching
        /\ pc' \in Searching \/ (pc' = "initramfs" /\ k' = 0)
    <3>1. CASE ActivateVg
      BY <3>1 DEF ActivateVg, Move, disk, fixed, Searching
    <3>2. CASE MountCandidate
      BY <3>2 DEF MountCandidate, disk, fixed, Searching
    <3>3. CASE MountSplit \/ SplitSlow \/ PopMount
      BY <3>3 DEF MountSplit, SplitSlow, PopMount, disk, fixed, Searching
    <3>4. CASE MountBoot
      BY <3>4 DEF MountBoot, Move, disk, fixed, Searching
    <3>. QED
      BY <1>3, <3>1, <3>2, <3>3, <3>4
  <2>. QED
    BY <1>1, <2>1, QuietKeepsTruth DEF Truth
<1>4. CASE ScanFails \/ NameClash \/ NoRoot \/ PopRaises \/ BootMountFails \/ ActivatePartly
  <2>1. PICK a \in {"failed", "skipped"} :
          /\ pc \in Searching /\ AnswerAll(a) /\ pc' = "cleanup" /\ UNCHANGED <<guest, images, net, fs>>
    BY <1>4 DEF ScanFails, NameClash, NoRoot, PopRaises, BootMountFails, ActivatePartly, Abandon, GiveUp, Move, disk,
       fixed, Searching
  <2>. QED
    BY <1>1, <2>1, AnswerAllKeepsTruth DEF Truth
<1>5. CASE NotWanted
  BY <1>1, <1>5, NotWantedKeepsTruth DEF Truth
<1>6. CASE BindSystemDir \/ ToRebuild \/ (RebuildImage /\ pc' = "initramfs")
  <2>1. pc' = "initramfs"
    BY <1>6 DEF BindSystemDir, ToRebuild, Move
  <2>. QED
    BY <1>1, <1>6, <2>1, BuildKeepsTruth DEF Truth
<1>7. CASE \/ InitramfsSkips \/ NothingToRebuild \/ AllRebuilt \/ InitramfsFails
           \/ BindSlow \/ (RebuildImage /\ pc' # "initramfs")
  <2>1. BindSlow => pc' # "initramfs"
    BY DEF BindSlow, Move
  <2>. QED
    BY <1>1, <1>7, <2>1, ImagesAnswered DEF Truth
<1>8. CASE FixNetwork
  BY <1>1, <1>8, NetworkAnswered DEF Truth
<1>9. CASE FixAzure
  BY <1>1, <1>9, AzureAnswered DEF Truth
<1>10. CASE FixGcp
  BY <1>1, <1>10, GcpAnswered DEF Truth
<1>11. CASE Sync \/ Cleanup
  <2>1. UNCHANGED <<guest, images, net, fs, result>> /\ pc \in Rest /\ pc' \in Rest
    BY <1>11 DEF Sync, Cleanup, CleanupMount, CleanupVg, RemoveTree, Stay, Move, disk, fixed, Rest
  <2>. QED
    BY <1>1, <2>1, QuietKeepsTruth DEF Truth
<1>. QED
  BY <1>2, <1>3, <1>4, <1>5, <1>6, <1>7, <1>8, <1>9, <1>10, <1>11 DEF FixNext, OpenRoot, RunSteps

\* Every step of a fix-up that was asked for has an answer, whatever failed, and an answer that the guest is
\* fit to boot in OCI in this respect is true of the guest that is left behind.
THEOREM FixupTellsTheTruth == FixSpec => []AnswersAreTrue
<1>1. FixInit => Truth
  BY InitFixTypes, InitTruth DEF Truth
<1>2. Truth /\ [FixNext]_fixVars => Truth'
  BY NextTruth
<1>3. Truth => AnswersAreTrue
  <2>. SUFFICES ASSUME Truth, pc = "done" PROVE AnswersAreTrue
    BY DEF AnswersAreTrue
  <2>1. \A s \in Step : s \in guest.want <=> result[s] # None
    BY AheadFacts DEF Truth, Answered, Rest
  <2>. QED
    BY <2>1 DEF Truth, TrueAnswers, AnswersAreTrue
<1>. QED
  BY <1>1, <1>2, <1>3, PTL DEF FixSpec
================================================================================
