------------------------------- MODULE MCJobs -------------------------------
(* One command, with a background request that comes while its call ends. *)
EXTENDS Jobs
MCLate == {[kinds |-> {"exec"}, late |-> TRUE]}
=============================================================================
