----------------------------- MODULE InputQueue -----------------------------
(***************************************************************************)
(* What a session promises about its inputs (agent/src/store.rs, the       *)
(* contract of Store::accept_input, remove_input and commit): an accepted  *)
(* input waits, and it then leaves once, by a removal or into the saved    *)
(* events.  The inputs reach the events in the order of their acceptance,  *)
(* and a later input never overtakes one that still waits.                 *)
(***************************************************************************)
EXTENDS Naturals, Sequences

VARIABLES
    accepted,   \* the number of inputs that the store accepted; input n was the n-th
    waiting,    \* the inputs that wait
    log         \* the inputs that the saved events consumed, in order

vars == <<accepted, waiting, log>>

Init ==
    /\ accepted = 0
    /\ waiting = {}
    /\ log = <<>>

Accept ==
    /\ accepted' = accepted + 1
    /\ waiting' = waiting \cup {accepted + 1}
    /\ UNCHANGED log

Remove ==
    /\ \E i \in waiting : waiting' = waiting \ {i}
    /\ UNCHANGED <<accepted, log>>

\* A commit consumes the oldest inputs, at least one, in their order.
Consume ==
    /\ waiting' \subseteq waiting
    /\ LET batch == waiting \ waiting'
       IN /\ batch # {}
          /\ \A i \in batch, j \in waiting' : i < j
          /\ \A k \in 1 .. Len(log) : log'[k] = log[k]
          /\ {log'[k] : k \in Len(log) + 1 .. Len(log')} = batch
          /\ \A k \in Len(log) + 1 .. Len(log') - 1 : log'[k] < log'[k + 1]
    /\ UNCHANGED accepted

Next == Accept \/ Remove \/ Consume

Spec == Init /\ [][Next]_vars
=============================================================================
