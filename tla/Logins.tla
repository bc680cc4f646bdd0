--------------------------------- MODULE Logins ---------------------------------
(***************************************************************************)
(* The web UI's sessions as the jobs see them (sessions.py): a login is     *)
(* pinned by every job that uses it; logging out and idling past the TTL    *)
(* kill it, but its connection is closed only when no job has it pinned.    *)
(* runner._sessions names the login of each job; _finish takes it out under *)
(* the runner's lock and gives the pin back after it, so that a moment      *)
(* passes between the two (runner.py).                                      *)
(*                                                                          *)
(* The operations are for the modules of the jobs to compose.               *)
(***************************************************************************)
EXTENDS FiniteSets

CONSTANTS
  Sessions,  \* logins that may be made
  Jobs,      \* jobs that may use one
  NoSession  \* a job without a login

ASSUME LoginsAssumption == NoSession \notin Sessions

VARIABLES
  listed,   \* SessionStore._sessions
  dead,     \* killed sessions
  closed,   \* sessions whose connections are closed
  pins,     \* UserSession._pins: the jobs that have pinned a session
  held,     \* runner._sessions
  leaving   \* <<job, session>> between the two halves of _finish

loginVars == <<listed, dead, closed, pins, held, leaving>>

\* The users have logged in.
LoginsInit ==
  /\ listed = Sessions /\ dead = {} /\ closed = {} /\ leaving = {}
  /\ pins = [s \in Sessions |-> {}] /\ held = [j \in Jobs |-> NoSession]

\* SessionStore.get finds the session.
Usable(s) == s \in listed

\* SessionStore.create; a token is never used again.
Login(s) ==
  /\ s \notin listed \cup dead
  /\ listed' = listed \cup {s}
  /\ UNCHANGED <<dead, closed, pins, held, leaving>>

\* Mutant of Kill: the pins are not asked.
Kill_Now(s) ==
  /\ s \in listed
  /\ listed' = listed \ {s} /\ dead' = dead \cup {s} /\ closed' = closed \cup {s}
  /\ UNCHANGED <<pins, held, leaving>>

\* logout, or the sweep of an idle session: off the list, and closed unless a job has it pinned.
Kill(s) ==
  /\ s \in listed
  /\ listed' = listed \ {s} /\ dead' = dead \cup {s}
  /\ closed' = IF pins[s] = {} THEN closed \cup {s} ELSE closed
  /\ UNCHANGED <<pins, held, leaving>>

\* submit and cleanup: whoever calls has got s before, and does not look again whether it is alive.
Pin(j, s) ==
  /\ pins' = [pins EXCEPT ![s] = @ \cup {j}] /\ held' = [held EXCEPT ![j] = s]
  /\ UNCHANGED <<listed, dead, closed, leaving>>

\* The first half of _finish ...
PutBack(j) ==
  /\ held' = [held EXCEPT ![j] = NoSession]
  /\ leaving' = IF held[j] = NoSession THEN leaving ELSE leaving \cup {<<j, held[j]>>}
  /\ UNCHANGED <<listed, dead, closed, pins>>

\* Mutant of Unpin: a killed session is left to its user to close.
Unpin_KeepsOpen(j, s) ==
  /\ <<j, s>> \in leaving /\ leaving' = leaving \ {<<j, s>>}
  /\ pins' = [pins EXCEPT ![s] = @ \ {j}]
  /\ UNCHANGED <<listed, dead, closed, held>>

\* ... and the second: the last job of a killed session closes it.
Unpin(j, s) ==
  /\ <<j, s>> \in leaving /\ leaving' = leaving \ {<<j, s>>}
  /\ pins' = [pins EXCEPT ![s] = @ \ {j}]
  /\ closed' = IF s \in dead /\ pins'[s] = {} THEN closed \cup {s} ELSE closed
  /\ UNCHANGED <<listed, dead, held>>

\* close_all, or a crash: the sessions are gone with the process, and users log in anew.
Forget ==
  /\ listed' = {} /\ dead' = {} /\ closed' = {} /\ leaving' = {}
  /\ pins' = [s \in Sessions |-> {}] /\ held' = [j \in Jobs |-> NoSession]

\* The login of job j is closed (a job without one has no connection to lose).
Offline(j) == held[j] \in closed
================================================================================
