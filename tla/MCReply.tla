------------------------------- MODULE MCReply -------------------------------
(* The instance of Reply for chat completions alone. *)
EXTENDS Reply
MCBounds == [chat |-> 3]
=============================================================================
