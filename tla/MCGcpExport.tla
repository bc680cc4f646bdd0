------------------------------ MODULE MCGcpExport ------------------------------
(***************************************************************************)
(* The instance of GcpExport for TLC.                                       *)
(***************************************************************************)
EXTENDS GcpExport

\* A restart ends every login and every job; what other users and their jobs do matters to the logins alone, and
\* what a range request brings to the copy alone.  A cancel request that is under way while the thread goes on may
\* also be one that is over in time, or one for a job that has ended.
Apart == {{"late", "restart"}, {"cancel", "logout"}, {"logout", "others"}, {"answers"}}
================================================================================
