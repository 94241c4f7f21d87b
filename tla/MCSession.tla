----------------------------- MODULE MCSession ------------------------------
(* The model-checking instances of Session: one process, or two that share the store. *)
EXTENDS Session

CONSTANTS p1, p2
=============================================================================
