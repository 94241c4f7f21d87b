-------------------------------- MODULE MCLive --------------------------------
(* What must end in an open session: the calls and the shutdown of the session *)
(* service, the background jobs, and the MCP servers.  A behaviour runs one of *)
(* the parts; the others stay in an end state.                                 *)
EXTENDS SessionService

CONSTANT Ids

VARIABLES
    part,
    job, shown, jobPhase, ends, jobWorkload,
    server, serverTask, program, link, trust, count, tasks, close, left, stops, serverTurn, cancel, tools, toolCall

\* The countdown beside attachments and reloads, and the shutdown; the idle calls beside turns,
\* also turns that a detach wakes.
MCLiveWorkloads ==
    {[calls |-> {"open", "attach", "reload", "shutdown"}, inputs |-> 0],
     [calls |-> {"open", "attach", "input", "idle"}, inputs |-> 1]}

Jobs == INSTANCE Jobs WITH
    Workloads <- {[kinds |-> {"exec", "plugin"}, late |-> FALSE]},
    phase <- jobPhase, workload <- jobWorkload

\* A server of the user and one of the project, with entries that do not start; two
\* project servers, one of them in the place of a user server.
LOCAL Entry(name, config) == [name |-> name, config |-> config]
MCConfigs == {
    [user |-> <<Entry("a", "ok"), Entry("b", "off")>>, project |-> <<Entry("c", "bad"), Entry("d", "ok")>>],
    [user |-> <<Entry("a", "ok")>>, project |-> <<Entry("a", "ok"), Entry("c", "ok")>>]}
Servers == INSTANCE Servers WITH
    Configs <- MCConfigs,
    slot <- server, task <- serverTask, turn <- serverTurn, call <- toolCall

jobVars == <<job, shown, jobPhase, ends, jobWorkload>>
serverVars == <<server, serverTask, program, link, trust, count, tasks, close, left, stops,
                serverTurn, cancel, tools, toolCall>>
allVars == <<part, vars, jobVars, serverVars>>

NoService ==
    /\ workload = [calls |-> {}, inputs |-> 0]
    /\ phase = "stopped" /\ slot = NoSlot /\ cancelled = FALSE
    /\ holds = [c \in Callers |-> 0]
    /\ call = [c \in Callers |-> NoCall]
    /\ expiring = FALSE /\ shutting = FALSE /\ held = FALSE
    /\ task = "none" /\ closed = TRUE /\ wake = FALSE /\ turn = FALSE /\ stale = FALSE
    /\ woken = <<>> /\ seen = 0 /\ handled = 0 /\ changed = {}
    /\ born = FALSE /\ saved = FALSE /\ newest = 0 /\ pending = {} /\ refused = {}
NoJobs ==
    /\ jobWorkload = "none" /\ jobPhase = "closed"
    /\ job = [j \in Ids |-> Jobs!NoJob] /\ shown = {} /\ ends = {}
NoServers ==
    /\ server = <<>> /\ serverTask = <<>> /\ program = <<>> /\ link = <<>>
    /\ trust = "none" /\ count = 0 /\ tasks = {}
    /\ close = "closed" /\ left = {} /\ stops = {}
    /\ serverTurn = "idle" /\ cancel = FALSE /\ tools = {} /\ toolCall = <<>>

LiveInit ==
    \/ part = "service" /\ Init /\ NoJobs /\ NoServers
    \/ part = "jobs" /\ Jobs!Init /\ NoService /\ NoServers
    \/ part = "servers" /\ Servers!Init /\ NoService /\ NoJobs
LiveNext ==
    /\ \/ part = "service" /\ Next /\ UNCHANGED <<jobVars, serverVars>>
       \/ part = "jobs" /\ Jobs!Next /\ UNCHANGED <<vars, serverVars>>
       \/ part = "servers" /\ Servers!Next /\ UNCHANGED <<vars, jobVars>>
    /\ UNCHANGED part
LiveSpec == LiveInit /\ [][LiveNext]_allVars /\ Fairness /\ Jobs!Fairness /\ Servers!Fairness

StopEnds == Jobs!StopEnds
TakesAll == Servers!TakesAll
CloseLeavesNoServer == Servers!CloseLeavesNoServer
ServersEnd == Servers!ServersEnd
=============================================================================
