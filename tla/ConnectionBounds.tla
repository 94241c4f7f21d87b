-------------------------- MODULE ConnectionBounds --------------------------
(* The clients and the requests of a Connection, and what a proof about it may assume of them. *)
EXTENDS Naturals

CONSTANTS
    MaxClients,     \* the clients that connect, one after another
    Askers,         \* the requests that the plugins send to a client
    QueueLimit,     \* OUTGOING_LIMIT
    Loads           \* bounds: the plugin requests, and how many requests a client sends on one connection

ASSUME ClientsAssumption == MaxClients \in Nat \ {0}
ASSUME AskersAssumption == "none" \notin Askers
=============================================================================
