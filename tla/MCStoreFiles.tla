---------------------------- MODULE MCStoreFiles ----------------------------
(* The model-checking instances of StoreFiles: processes, sessions and blobs as model values. *)
EXTENDS StoreFiles, TLC

CONSTANTS p1, p2, p3, s1, s2, b1

Symmetry == Permutations(Procs)

Workload(c, ps, n) == [calls |-> c, procs |-> ps, faults |-> n]

\* The two disagreements
MCForkSweep == {Workload({"fork", "sweep"}, {p1, p2}, 0)}
MCCreateOpen == {Workload({"create", "open"}, {p1, p2}, 0)}
=============================================================================
