------------------------------ MODULE MCService ------------------------------
(* The safety of an open session, its clients and its plugins: its slot and its task with  *)
(* two callers, the updates to its client and one view, its background jobs, and the       *)
(* connections of the protocol server; the scopes of the plugins, the facts that they hear *)
(* of, and the files of their manager.  A behaviour runs one of the parts; the others stay *)
(* in their first state, so a property looks at its own part alone.                        *)
EXTENDS SessionService, TLC

CONSTANTS Observer, Views, Questions, Ids

VARIABLES
    part,
    load, socket, server, current, writer, asks, last_request, request, stopJobs, open, lost, answers, queue,
    writerTask,
    events, inputs, calls, replies, failed, settings, running, taken, gone, questions, ended, mode, kept, client,
    accepted, starts, faults, outputWorkload,
    job, shown, jobPhase, ends, jobWorkload,
    slots, live, viewsEnded, known, facts, key, lastKey, listeners, opened, frames, heard, twice, adds, changes,
    factWorkload,
    config, lock, remote, installed, staging, holder, calling, updates, edits, missing, brought, fileWorkload,
    opens, droppedOpens, scope, ownTools, aborting, run, offered, late, last, scopeWorkload

\* The callers are alike.
Alike == Permutations(Callers)

\* The slot of the session; its turns beside the changes that they exclude; its inputs.
MCWorkloads ==
    LET Workload(c, n) == [calls |-> c, inputs |-> n]
    IN {Workload({"open", "create", "remove", "close", "attach", "load", "reload", "shutdown"}, 0),
        Workload({"open", "close", "attach", "input", "settings", "reload"}, 1),
        Workload({"open", "close", "input", "drop", "idle"}, 2)}

\* The settings and the events of loads and views, the inputs that come and go, the live
\* state of turns and questions up to the close, and two inputs with a write that fails.
OutputWorkloads == {
    [calls |-> {"settings", "turn", "view", "load"}, callers |-> {"client", "task"},
     inputs |-> 0, starts |-> 3, faults |-> 0],
    [calls |-> {"input", "remove", "turn", "view", "load"}, callers |-> {"client", "task"},
     inputs |-> 1, starts |-> 3, faults |-> 0],
    [calls |-> {"turn", "ask", "view", "load", "close"}, callers |-> {"client"},
     inputs |-> 0, starts |-> 4, faults |-> 0],
    [calls |-> {"input", "remove", "turn", "view"}, callers |-> {"task"},
     inputs |-> 2, starts |-> 2, faults |-> 1]}
Output == INSTANCE Output WITH
    PageSize <- 1, MaxEvents <- 3, Workloads <- OutputWorkloads,
    pending <- inputs, stale <- failed, queue <- calls, answers <- replies, workload <- outputWorkload
outputVars == <<events, inputs, calls, replies, failed, settings, running, taken, gone, questions, ended,
                mode, kept, client, accepted, starts, faults, outputWorkload>>

Jobs == INSTANCE Jobs WITH
    Workloads <- {[kinds |-> {"exec", "process", "tool", "plugin"}, late |-> FALSE]},
    phase <- jobPhase, workload <- jobWorkload
jobVars == <<job, shown, jobPhase, ends, jobWorkload>>

\* Two requests of the plugins, or one beside a request of each client
Connection == INSTANCE Connection WITH
    MaxClients <- 2, Askers <- {"p", "q"}, QueueLimit <- 1,
    Loads <- {[askers |-> {"p", "q"}, asked |-> 0], [askers |-> {"p"}, asked |-> 1]},
    pending <- asks, task <- writerTask
connectionVars == <<load, socket, server, current, writer, asks, last_request, request, stopJobs, open, lost,
                    answers, queue, writerTask>>

\* Two sessions with two listeners; one session with a third listener
MCSessions == {"s", "t"}
FactWorkloads == {[sessions |-> MCSessions, facts |-> 2, adds |-> 2],
                  [sessions |-> {"s"}, facts |-> 2, adds |-> 3]}
Facts == INSTANCE Facts WITH
    Sessions <- MCSessions, Events <- {"session.opened", "session.closed"}, MaxAdds <- 3, MaxDepth <- 4,
    Workloads <- FactWorkloads,
    slot <- slots, ended <- viewsEnded, queue <- facts, open <- opened, facts <- changes, workload <- factWorkload
factVars == <<slots, live, viewsEnded, known, facts, key, lastKey, listeners, opened, frames, heard, twice, adds,
              changes, factWorkload>>

\* A plugin of another machine; two plugins of one name; and one with a commit that does not load
FileWorkloads ==
    LET Workload(c, e, b, o, n) == [calls |-> c, edits |-> e, brings |-> b, oneName |-> o, bad |-> n]
    IN {Workload({"add", "remove", "sync", "sync_locked"}, 1, {"a"}, {}, {}),
        Workload({"add", "remove", "sync", "check_all", "apply"}, 2, {}, {{"a", "b"}}, {}),
        Workload({"sync", "check", "apply"}, 1, {"a", "b"}, {}, {2})}
Files == INSTANCE PluginFiles WITH
    Procs <- Callers, Sources <- {"a", "b"}, Commits <- {1, 2}, Workloads <- FileWorkloads,
    call <- calling, changes <- updates, gone <- missing, workload <- fileWorkload
fileVars == <<config, lock, remote, installed, staging, holder, calling, updates, edits, missing, brought,
                fileWorkload>>

\* Two opens of one plugin; the setups, the tools and the jobs of two plugins; a run beside the
\* close, and the plans of three handlers
ScopeWorkloads ==
    LET Workload(o, p, a, h, r, b) ==
            [opens |-> o, plugins |-> p, adds |-> a, hooks |-> h, runs |-> r, blocks |-> b, heads |-> 0 .. 2]
    IN {Workload(2, {1}, {"tools", "jobs"}, 0, {}, 0), Workload(1, {1, 2}, {"tools", "jobs"}, 0, {}, 0),
        Workload(1, {1, 2}, {}, 2, {"first"}, 0), Workload(1, {1}, {}, 3, {"plan"}, 2)}
Scopes == INSTANCE Scopes WITH
    MaxOpens <- 2, Plugins <- {1, 2}, MaxJobs <- 1, HookRuns <- {1}, Workloads <- ScopeWorkloads,
    opened <- opens, dropped <- droppedOpens, tools <- ownTools, workload <- scopeWorkload
scopeVars == <<opens, droppedOpens, scope, ownTools, aborting, run, offered, late, last, scopeWorkload>>

\* The first state of a part that does not run.
SomeWorkload(workloads) == CHOOSE w \in workloads : TRUE
ServiceRests == workload = SomeWorkload(MCWorkloads) /\ ~born /\ newest = 0
OutputRests == outputWorkload = SomeWorkload(OutputWorkloads)
ConnectionRests == load.asked = 0 /\ ~socket
FactsRest == factWorkload = SomeWorkload(FactWorkloads)
ScopesRest == scopeWorkload = SomeWorkload(ScopeWorkloads)
FilesRest == fileWorkload = SomeWorkload(FileWorkloads) /\ config = {} /\ lock = Files!EmptyLock

protocolVars == <<outputVars, jobVars, connectionVars>>
pluginsVars == <<scopeVars, factVars, fileVars>>
PartsInit ==
    /\ Init /\ Connection!Init /\ Output!Init /\ Jobs!Init /\ Scopes!Init /\ Facts!Init /\ Files!Init
    /\ part \in {"service", "connection", "output", "jobs", "scopes", "facts", "files"}
    /\ part # "service" => ServiceRests
    /\ part # "connection" => ConnectionRests
    /\ part # "output" => OutputRests
    /\ part # "scopes" => ScopesRest
    /\ part # "facts" => FactsRest
    /\ part # "files" => FilesRest
PartsNext ==
    /\ \/ part = "service" /\ Next /\ UNCHANGED <<protocolVars, pluginsVars>>
       \/ part = "connection" /\ Connection!Next /\ UNCHANGED <<vars, outputVars, jobVars, pluginsVars>>
       \/ part = "output" /\ Output!Next /\ UNCHANGED <<vars, connectionVars, jobVars, pluginsVars>>
       \/ part = "jobs" /\ Jobs!Next /\ UNCHANGED <<vars, connectionVars, outputVars, pluginsVars>>
       \/ part = "scopes" /\ Scopes!Next /\ UNCHANGED <<vars, protocolVars, factVars, fileVars>>
       \/ part = "facts" /\ Facts!Next /\ UNCHANGED <<vars, protocolVars, scopeVars, fileVars>>
       \/ part = "files" /\ Files!Next /\ UNCHANGED <<vars, protocolVars, scopeVars, factVars>>
    /\ UNCHANGED part
PartsSpec == PartsInit /\ [][PartsNext]_<<part, vars, protocolVars, pluginsVars>>

RequestsTrue == part = "connection" => Connection!RequestsTrue
NothingLost == part = "connection" => Connection!NothingLost
ListenersTrue == part = "output" => Output!ListenersTrue
JobsTold == part = "jobs" => Jobs!JobsTold
ScopesTrue == part = "scopes" => Scopes!ScopesTrue
PlanTrue == part = "scopes" => Scopes!PlanTrue
FactsTrue == part = "facts" => Facts!FactsTrue
PluginsTrue == part = "files" => Files!PluginsTrue
=============================================================================
