------------------------------ MODULE MCLogins ------------------------------
(* The instances of Logins: an attempt of the process of the app and one of a second *)
(* process, or two attempts of the app.                                               *)
EXTENDS Logins
MCProcesses == {"app", "other"}
MCOneHome == [t \in {"a", "b"} |-> "app"]
MCTwoHomes == [t \in {"a", "b"} |-> IF t = "a" THEN "app" ELSE "other"]
=============================================================================
