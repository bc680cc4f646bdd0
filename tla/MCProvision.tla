------------------------------- MODULE MCProvision -------------------------------
(***************************************************************************)
(* Instances of Provision for TLC.                                          *)
(***************************************************************************)
EXTENDS Provision

\* From "only calls and the copy fail" to "waits time out, attachments come to nothing, the helper restarts"; and
\* cancel requests that are under way while the thread goes on, or while the helper stops.
Graded == {{}, {"timeout"}, {"timeout", "badAttachment", "restart"}, {"lateCancel", "restart"}}
================================================================================
