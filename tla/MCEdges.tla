------------------------------- MODULE MCEdges -------------------------------
(* What must end at the edges of the process: the clients of its protocol server, and the stored *)
(* login of a provider.  A behaviour runs one of the two; the other stays in an end state.  *)
EXTENDS Logins, ConnectionBounds

VARIABLES
    part,
    load, socket, server, current, writer, pending, last_request, request, stopJobs, open, answers, behind,
    queue, writerTask

\* An attempt of the process of the app and one of a second process
MCAttempts == {"a", "b"}
MCProcesses == {"app", "other"}
MCHome == [t \in MCAttempts |-> IF t = "a" THEN "app" ELSE "other"]

\* A request of the plugins beside a request of each client
MCLoads == {[askers |-> {"p"}, asked |-> 1]}
Connection == INSTANCE Connection WITH lost <- behind, task <- writerTask
connectionVars == <<load, socket, server, current, writer, pending, last_request, request, stopJobs, open,
                    answers, behind, queue, writerTask>>

NoLogins ==
    /\ file = NoLogin /\ lock = {} /\ pc = [t \in Attempts |-> "idle"]
    /\ seen = [t \in Attempts |-> NoLogin] /\ next = seen
    /\ spent = [p \in Processes |-> {}] /\ grants = MaxGrants /\ used = {} /\ repeats = {}
    /\ app = "free" /\ earlier = 0 /\ entry = 0 /\ saving = {}
    /\ task = [i \in Tasks |-> "done"] /\ grant = [i \in Tasks |-> 0]
NoConnection ==
    /\ load = [askers |-> {}, asked |-> 0] /\ socket = FALSE /\ server = "done"
    /\ current = 0 /\ writer = 0 /\ pending = {} /\ last_request = 0
    /\ open = [c \in 1 .. MaxClients |-> "new"] /\ request = [p \in Askers |-> Connection!NoRequest]
    /\ stopJobs = {} /\ behind = {}
    /\ answers = [c \in 1 .. MaxClients |-> <<>>] /\ queue = answers
    /\ writerTask = [c \in 1 .. MaxClients |-> "runs"]

EdgesInit ==
    \/ part = "connection" /\ Connection!Init /\ NoLogins
    \/ part = "logins" /\ Init /\ NoConnection
EdgesNext ==
    /\ \/ part = "connection" /\ Connection!Next /\ UNCHANGED vars
       \/ part = "logins" /\ Next /\ UNCHANGED connectionVars
    /\ UNCHANGED part
EdgesSpec ==
    EdgesInit /\ [][EdgesNext]_<<part, vars, connectionVars>> /\ Fairness /\ Connection!Fairness

ConnectionsEnd == Connection!ConnectionsEnd
=============================================================================
