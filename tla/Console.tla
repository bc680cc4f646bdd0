-------------------------------- MODULE Console --------------------------------
(***************************************************************************)
(* Remote consoles of one instance (console/manager.py): sessions kept by   *)
(* key (a job's, or the instance's own), the OCI console connection each of *)
(* them creates on a thread of its own, the browsers that look at it, and   *)
(* the reaper.  OCI allows one connection per instance.                     *)
(*                                                                          *)
(* Everything but the OCI calls runs on the event loop: a step here is what *)
(* happens between two awaits.                                              *)
(***************************************************************************)
EXTENDS Integers, Sequences, FiniteSets

CONSTANTS
  Keys,          \* the keys under which this instance has consoles
  InstanceKey,   \* the key of the Remote Console page; the others are jobs'
  Users,         \* requests to open or close a console served at the same time
  Viewers,       \* browsers with a VNC socket
  MaxSessions,   \* bound on sessions
  Requests       \* what users do: "open", "close", "shutdown"

ASSUME KeysAssumption == IsFiniteSet(Keys)
ASSUME UsersAssumption == IsFiniteSet(Users) /\ 0 \notin Users
ASSUME SessionsAssumption == MaxSessions \in Nat

VARIABLES
  sessions,      \* ConsoleManager.sessions: the session under each key, 0 for none
  used,          \* sessions made so far
  state,         \* sess.state
  known,         \* sess.connection is set
  viewers,       \* sess.viewers
  idle,          \* sess.last_used is console_idle_timeout_s ago
  task,          \* where _create of each session is
  cancelled,     \* its asyncio task was cancelled
  oci,           \* the connection each session created, in OCI
  foreign,       \* a connection made outside the helper exists
  lock,          \* the user that holds _lock, 0 for none
  queue,         \* who waits for it: asyncio locks are first come, first served
  upc, ukey,     \* where each user's request is, and its key
  usess,         \* the session a close is about, the connection open_target makes room from
  vpc, vkey,     \* where each browser is, and its key
  vsess,         \* the session whose connection its tunnel goes through
  shut,          \* the helper shuts down
  rpc, todo,     \* where the reaper (or close_all) is, and the entries of its snapshot still to be looked at
  rsess          \* the session whose connection it deletes

table   == <<sessions, used>>
objects == <<state, known, viewers, idle>>
creator == <<task, cancelled>>
world   == <<oci, foreign>>
users   == <<lock, queue, upc, ukey, usess>>
browser == <<vpc, vkey, vsess>>
reaper  == <<shut, rpc, todo, rsess>>
consoleVars ==
  <<sessions, used, state, known, viewers, idle, task, cancelled, oci, foreign, lock, queue, upc, ukey, usess,
    vpc, vkey, vsess, shut, rpc, todo, rsess>>

Sids       == 1..MaxSessions
ForeignId  == MaxSessions + 1
Serving(s) == s # 0 /\ state[s] \in {"CREATING", "ACTIVE"}
Exists     == {s \in Sids : oci[s] \in {"creating", "active"}} \cup (IF foreign THEN {ForeignId} ELSE {})

\* A connection is deleted in OCI.
Gone(c) ==
  IF c = ForeignId THEN foreign' = FALSE /\ UNCHANGED oci
  ELSE oci' = [oci EXCEPT ![c] = "deleted"] /\ UNCHANGED foreign

Set(f, s, v) == f' = [f EXCEPT ![s] = v]
Touch(s)     == Set(idle, s, FALSE)

\* Time passes for a session; a scan of the reaper judges it by the time the scan began.
Idles(s) ==
  /\ s <= used /\ ~idle[s] /\ rpc = "sleep" /\ Set(idle, s, TRUE)
  /\ UNCHANGED <<table, state, known, viewers, creator, world, users, browser, reaper>>
-----------------------------------------------------------------------------
(* Opening                                                                  *)

\* find_for_instance: the keys of the live sessions that serve the instance.
FindForInstance == {k \in Keys : Serving(sessions[k])}

\* The request is answered.
Answer(u) == Set(upc, u, "idle") /\ Set(ukey, u, InstanceKey) /\ Set(usess, u, 0)

\* Mutant of TakeLock: open_target runs without its lock.
TakeLock_Never(u) == UNCHANGED lock
TakeLock(u) == lock' = u

\* open_target with the lock in hand: reuse what the key has, or make room first.
Locked(u, k) ==
  IF Serving(sessions[k])
  THEN /\ Touch(sessions[k]) /\ Answer(u) /\ lock' = 0
  ELSE /\ TakeLock(u) /\ Set(upc, u, "room") /\ Set(ukey, u, k)
       /\ UNCHANGED <<idle, usess>>

\* Requests that may yet make a session: they are bounded by MaxSessions.
Opening == {u \in Users : upc[u] \in {"waiting", "room", "evict", "install"}}

\* A request to open a console; the instance's page reuses any session of the instance.
Open(u, k) ==
  /\ "open" \in Requests /\ upc[u] = "idle" /\ ~shut
  /\ \/ /\ k = InstanceKey /\ FindForInstance # {}
        /\ \E f \in FindForInstance : Touch(sessions[f])
        /\ UNCHANGED users
     \/ /\ k = InstanceKey => FindForInstance = {}
        /\ used + Cardinality(Opening) < MaxSessions
        /\ IF lock = 0 /\ queue = <<>> THEN Locked(u, k) /\ UNCHANGED queue
           ELSE /\ queue' = Append(queue, u) /\ Set(upc, u, "waiting") /\ Set(ukey, u, k)
                /\ UNCHANGED <<idle, lock, usess>>
  /\ UNCHANGED <<table, state, known, viewers, creator, world, browser, reaper>>

GetLock(u) ==
  /\ lock = 0 /\ queue # <<>> /\ u = Head(queue)
  /\ queue' = Tail(queue) /\ Locked(u, ukey[u])
  /\ UNCHANGED <<table, state, known, viewers, creator, world, browser, reaper>>

\* ensure_no_other, on a thread: a foreign connection is only deleted when the user asked to replace it,
\* one of the helper's own always.
MakeRoom(u, replace) ==
  /\ upc[u] = "room"
  /\ CASE Exists = {}                           -> Set(upc, u, "install") /\ UNCHANGED <<lock, ukey, usess>>
       [] Exists = {ForeignId} /\ ~replace      -> Answer(u) /\ lock' = 0
       [] OTHER                                 -> /\ \E c \in Exists : Set(usess, u, c)
                                                   /\ Set(upc, u, "evict") /\ UNCHANGED <<lock, ukey>>
  /\ UNCHANGED <<table, objects, creator, world, queue, browser, reaper>>

Evict(u) ==
  /\ upc[u] = "evict" /\ Gone(usess[u])
  /\ Set(upc, u, "install") /\ Set(usess, u, 0)
  /\ UNCHANGED <<table, objects, creator, lock, queue, ukey, browser, reaper>>

\* Mutant of RoomFails: the lock is not given back.
RoomFails_KeepsLock(u) ==
  /\ upc[u] \in {"room", "evict"} /\ Answer(u) /\ UNCHANGED lock
  /\ UNCHANGED <<table, objects, creator, world, queue, browser, reaper>>
\* A call to OCI fails, or the deletion is not seen to end in time.
RoomFails(u) ==
  /\ upc[u] \in {"room", "evict"} /\ Answer(u) /\ lock' = 0
  /\ UNCHANGED <<table, objects, creator, world, queue, browser, reaper>>

Install(u) ==
  /\ upc[u] = "install"
  /\ used' = used + 1
  /\ Set(sessions, ukey[u], used + 1)
  /\ Set(state, used + 1, "CREATING") /\ Set(task, used + 1, "new")
  /\ Answer(u) /\ lock' = 0
  /\ UNCHANGED <<known, viewers, idle, cancelled, world, queue, browser, reaper>>
-----------------------------------------------------------------------------
(* _create                                                                  *)

\* A cancelled task does not start its call, unless the pool has begun it already.
DropCall(s) ==
  /\ task[s] \in {"new", "call"} /\ cancelled[s] /\ Set(task, s, "done")
  /\ UNCHANGED <<table, objects, cancelled, world, users, browser, reaper>>

Generate(s) ==
  /\ task[s] = "new" /\ ~cancelled[s] /\ Set(task, s, "call")
  /\ UNCHANGED <<table, objects, cancelled, world, users, browser, reaper>>

\* create_instance_console_connection: refused while the instance has a connection.
CallCreate(s) ==
  /\ task[s] = "call"
  /\ IF Exists = {} THEN Set(oci, s, "creating") /\ Set(task, s, "wait")
     ELSE Set(task, s, "raise") /\ UNCHANGED oci
  /\ UNCHANGED <<table, objects, cancelled, foreign, users, browser, reaper>>

Activates(s) ==
  /\ oci[s] = "creating" /\ Set(oci, s, "active")
  /\ UNCHANGED <<table, objects, creator, foreign, users, browser, reaper>>

\* The thread sees ACTIVE, sees the connection deleted, or waits in vain.
CreateEnds(s) ==
  /\ \/ task[s] = "wait" /\ oci[s] = "active" /\ Set(task, s, "result")
     \/ task[s] \in {"call", "wait"} /\ Set(task, s, "raise")
  /\ UNCHANGED <<table, objects, cancelled, world, users, browser, reaper>>

\* The result is taken over, unless close() cancelled the task: then it is lost.
Created(s) ==
  /\ task[s] = "result" /\ Set(task, s, "done")
  /\ IF cancelled[s] THEN UNCHANGED <<state, known, idle>>
     ELSE Set(state, s, "ACTIVE") /\ Set(known, s, TRUE) /\ Touch(s)
  /\ UNCHANGED <<table, viewers, cancelled, world, users, browser, reaper>>

CreateFailed(s) ==
  /\ task[s] = "raise" /\ Set(task, s, "done")
  /\ IF cancelled[s] THEN UNCHANGED state ELSE Set(state, s, "FAILED")
  /\ UNCHANGED <<table, known, viewers, idle, cancelled, world, users, browser, reaper>>
-----------------------------------------------------------------------------
(* Closing: by a user, the reaper and the shutdown                          *)

\* close(key) of the keys K up to its await: the sessions leave the table, their creation is cancelled.
\* Those in C are through with it.
Pop(K, C) ==
  LET S == {sessions[k] : k \in K} IN
  /\ sessions' = [k \in Keys |-> IF k \in K THEN 0 ELSE sessions[k]]
  /\ cancelled' = [s \in Sids |-> cancelled[s] \/ (s \in S /\ task[s] # "done")]
  /\ state' = [s \in Sids |-> IF s \in C \/ (s \in S /\ ~known[s]) THEN "CLOSED" ELSE state[s]]

\* The key a request about the instance is for.
KeyFor(k) ==
  IF k = InstanceKey /\ FindForInstance # {} THEN FindForInstance ELSE {k}

Close(u, k) ==
  /\ "close" \in Requests /\ upc[u] = "idle" /\ ~shut
  /\ \E f \in KeyFor(k) :
       /\ sessions[f] # 0 /\ Pop({f}, {})
       /\ IF known[sessions[f]] THEN Set(upc, u, "delete") /\ Set(usess, u, sessions[f]) ELSE UNCHANGED <<upc, usess>>
  /\ UNCHANGED <<used, known, viewers, idle, task, world, lock, queue, ukey, browser, reaper>>

\* The connection is deleted, or the deletion fails, which is only logged.
Deleted(s) == Gone(s) \/ UNCHANGED world

CloseDelete(u) ==
  /\ upc[u] = "delete" /\ Deleted(usess[u]) /\ Set(state, usess[u], "CLOSED") /\ Answer(u)
  /\ UNCHANGED <<table, known, viewers, idle, creator, lock, queue, browser, reaper>>

Snapshot == {<<k, sessions[k]>> : k \in {c \in Keys : sessions[c] # 0}}

\* Mutant of Unwatched: the reaper passes over sessions that failed.
Unwatched_NotFailed(s) == state[s] \notin {"CREATING", "FAILED"} /\ viewers[s] = 0 /\ idle[s]
\* reap_idle's judgement of a session.
Unwatched(s) == state[s] # "CREATING" /\ viewers[s] = 0 /\ idle[s]

\* The entries of the snapshot T are gone through, up to the first that has a connection to delete: the
\* session of the snapshot is judged, what its key has by now is closed.  C as in Pop.
GoThrough(T, C) ==
  LET Chosen   == {e \in T : (shut' \/ Unwatched(e[2])) /\ sessions[e[1]] # 0}
      Deleting == {e \in Chosen : known[sessions[e[1]]]} IN
  \/ /\ Deleting = {} /\ Pop({e[1] : e \in Chosen}, C)
     /\ rpc' = (IF shut' THEN "down" ELSE "sleep") /\ todo' = {} /\ rsess' = 0
  \/ \E e \in Deleting, D \in SUBSET (T \ Deleting) :
       /\ Pop({d[1] : d \in {e} \cup (D \cap Chosen)}, C)
       /\ rpc' = "delete" /\ todo' = T \ (D \cup {e}) /\ rsess' = sessions[e[1]]

Reap ==
  /\ rpc = "sleep" /\ ~shut
  /\ \E e \in Snapshot : idle[e[2]]
  /\ UNCHANGED shut /\ GoThrough(Snapshot, {})
  /\ UNCHANGED <<used, known, viewers, idle, task, world, users, browser>>

ReapDelete ==
  /\ rpc = "delete" /\ Deleted(rsess) /\ rpc' = "deleted"
  /\ UNCHANGED <<table, objects, creator, users, browser, shut, todo, rsess>>

ReapNext ==
  /\ rpc = "deleted" /\ UNCHANGED shut /\ GoThrough(todo, {rsess})
  /\ UNCHANGED <<used, known, viewers, idle, task, world, users, browser>>

\* close_all, once the requests are through: the reaper is cancelled, a deletion it has begun goes on.
Shutdown ==
  /\ "shutdown" \in Requests /\ ~shut /\ shut' = TRUE
  /\ \A u \in Users : upc[u] = "idle"
  /\ \A v \in Viewers : vpc[v] = "off"
  /\ GoThrough(Snapshot, {})
  /\ IF rpc = "delete" THEN Deleted(rsess) ELSE UNCHANGED world
  /\ UNCHANGED <<used, known, viewers, idle, task, users, browser>>
-----------------------------------------------------------------------------
(* Browsers                                                                 *)

\* connect(): the viewer counts before the tunnel is up.
Connect(v, k) ==
  /\ vpc[v] = "off" /\ ~shut
  /\ \E f \in KeyFor(k) :
       LET s == sessions[f] IN
       /\ s # 0 /\ state[s] = "ACTIVE"
       /\ viewers' = [viewers EXCEPT ![s] = @ + 1] /\ Touch(s)
       /\ Set(vpc, v, "tunnel") /\ Set(vkey, v, f) /\ Set(vsess, v, s)
  /\ UNCHANGED <<table, state, known, creator, world, users, reaper>>

TunnelUp(v) ==
  /\ vpc[v] = "tunnel" /\ oci[vsess[v]] = "active" /\ Set(vpc, v, "bridge")
  /\ UNCHANGED <<table, objects, creator, world, users, vkey, vsess, reaper>>

\* release(key): counts one viewer out of the session the key has now.
Release(k) ==
  LET s == sessions[k] IN
  IF s = 0 THEN UNCHANGED <<viewers, idle>>
  ELSE viewers' = [viewers EXCEPT ![s] = IF @ > 0 THEN @ - 1 ELSE 0] /\ Touch(s)

\* The tunnel fails, or the bridge ends at either side.
Leave(v) ==
  /\ vpc[v] # "off" /\ Release(vkey[v])
  /\ Set(vpc, v, "off") /\ Set(vkey, v, InstanceKey) /\ Set(vsess, v, 0)
  /\ UNCHANGED <<table, state, known, creator, world, users, reaper>>
-----------------------------------------------------------------------------
ConsoleInit ==
  /\ sessions = [k \in Keys |-> 0] /\ used = 0
  /\ state = [s \in Sids |-> "NONE"] /\ known = [s \in Sids |-> FALSE]
  /\ viewers = [s \in Sids |-> 0] /\ idle = [s \in Sids |-> FALSE]
  /\ task = [s \in Sids |-> "none"] /\ cancelled = [s \in Sids |-> FALSE]
  /\ oci = [s \in Sids |-> "none"] /\ foreign \in BOOLEAN
  /\ lock = 0 /\ queue = <<>> /\ upc = [u \in Users |-> "idle"]
  /\ ukey = [u \in Users |-> InstanceKey] /\ usess = [u \in Users |-> 0]
  /\ vpc = [v \in Viewers |-> "off"] /\ vkey = [v \in Viewers |-> InstanceKey] /\ vsess = [v \in Viewers |-> 0]
  /\ shut = FALSE /\ rpc = "sleep" /\ todo = {} /\ rsess = 0

UserStep(u) ==
  \/ GetLock(u) \/ (\E r \in BOOLEAN : MakeRoom(u, r)) \/ Evict(u) \/ RoomFails(u) \/ Install(u) \/ CloseDelete(u)

CreateStep(s) ==
  DropCall(s) \/ Generate(s) \/ CallCreate(s) \/ CreateEnds(s) \/ Created(s) \/ CreateFailed(s)

ReaperStep == Reap \/ ReapDelete \/ ReapNext

ConsoleNext ==
  \/ \E u \in Users, k \in Keys : Open(u, k) \/ Close(u, k)
  \/ \E u \in Users : UserStep(u)
  \/ \E s \in Sids : CreateStep(s) \/ Activates(s) \/ Idles(s)
  \/ ReaperStep \/ Shutdown
  \/ \E v \in Viewers, k \in Keys : Connect(v, k)
  \/ \E v \in Viewers : TunnelUp(v) \/ Leave(v)

\* The event loop runs what is ready, a remote call ends (with a timeout if need be), the reaper wakes up.
Fairness ==
  /\ \A u \in Users : WF_consoleVars(UserStep(u))
  /\ \A s \in Sids : WF_consoleVars(CreateStep(s))
  /\ WF_consoleVars(ReaperStep)

ConsoleSpec == ConsoleInit /\ [][ConsoleNext]_consoleVars /\ Fairness
-----------------------------------------------------------------------------
(* Properties                                                               *)

\* With one key, a console that says ACTIVE has its connection: no open, close, failed or abandoned creation
\* of another session takes it away or stands in its place.
ActiveIsServed == \A k \in Keys : sessions[k] # 0 /\ state[sessions[k]] = "ACTIVE" => oci[sessions[k]] = "active"

\* Every request is answered, the lock given back, whatever fails; and what an open began comes up or fails:
\* a session that stayed CREATING would be the answer to every later open.
RequestsEnd ==
  /\ \A u \in Users : upc[u] # "idle" ~> upc[u] = "idle"
  /\ \A s \in Sids : state[s] = "CREATING" ~> state[s] # "CREATING"

\* A console that nobody looks at is deleted in the end, unless somebody asks for it again.
IdleIsReaped ==
  \A s \in Sids :
    (\E k \in Keys : sessions[k] = s /\ idle[s] /\ state[s] \in {"ACTIVE", "FAILED"})
      ~> (~idle[s] \/ viewers[s] > 0 \/ \A k \in Keys : sessions[k] # s)
================================================================================
