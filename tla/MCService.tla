-------------------------------- MODULE MCService --------------------------------
(***************************************************************************)
(* The instance of Service for TLC.                                         *)
(***************************************************************************)
EXTENDS Service, TLC

Setup(systemd, branch, events) == [systemd |-> systemd, branch |-> branch, events |-> events]

\* As deployed: saves beside updates; saves with all that may go wrong; updates beside jobs.  Updates beside
\* jobs at a fixed tag, and in development.
Every ==
  {Setup(TRUE, TRUE, {"put", "update"}), Setup(TRUE, TRUE, {"put", "overlap", "kill", "full", "unread"}),
   Setup(TRUE, TRUE, {"update", "job", "lookup"}), Setup(TRUE, FALSE, {"update", "job"}), Setup(FALSE, TRUE, {"update", "job"})}

\* Handlers are interchangeable, and so are the values of a group.
Symmetry == Permutations(Handlers) \cup Permutations(Values)
================================================================================
