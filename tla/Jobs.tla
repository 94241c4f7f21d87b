-------------------------------- MODULE Jobs --------------------------------
(***************************************************************************)
(* The jobs of one session: the list of js/jobs.rs, the tasks of the       *)
(* commands (js/processes.rs) and the jobs of the plugins (runJob of       *)
(* js/modules/internal/hooks.ts).                                          *)
(*                                                                         *)
(* A job is work that a tool call starts.  While the call waits for it,    *)
(* the job is hidden.  A background request moves it out of its call; then *)
(* a list shows it, a stop finds it, and its end goes to the session as a  *)
(* report.  One thread runs every task, so a step is the code between two  *)
(* awaits.  The kinds of a job:                                            *)
(*   exec     a command that its call waits for                            *)
(*   process  a command that starts as a job                               *)
(*   tool     the work of a plugin that its call waits for                 *)
(*   plugin   the work of a plugin that starts as a job                    *)
(***************************************************************************)
EXTENDS Naturals

CONSTANTS
    Ids,        \* the ids of the jobs
    Workloads   \* bound: the kinds of the jobs, and whether a background request comes while a call ends

Kinds == {"exec", "process", "tool", "plugin"}

VARIABLES
    job,        \* each job: its entry in the list, and its task
    shown,      \* the jobs that a client shows as running
    phase,      \* the close of the session: open, ending, plugins, jobs or closed
    ends,       \* the jobs that the close waits for
    workload    \* the workload of this behaviour

vars == <<job, shown, phase, ends, workload>>

InCall(kind) == kind \in {"exec", "tool"}
OfPlugin(kind) == kind \in {"tool", "plugin"}

NoJob ==
    [pc |-> "none",         \* the await of its task
     kind |-> "process",
     moved |-> FALSE,       \* no call waits for it
     stop |-> FALSE,        \* its stop token
     silenced |-> FALSE,    \* a stop of this one job came
     called |-> FALSE,      \* the cancel or the drop of its call
     group |-> FALSE,       \* the list knows its process group
     process |-> "none",    \* the processes of the group: none, runs or exited
     by |-> "none",         \* what ended the command, or what the work of the plugin gave
     answer |-> "none",     \* the answer to its call
     told |-> "none",       \* the last job update: none, running, stopped or ended
     reports |-> 0]         \* the reports that the session accepted

Init ==
    /\ workload \in Workloads
    /\ job = [j \in Ids |-> NoJob]
    /\ shown = {} /\ phase = "open" /\ ends = {}

Listed(j) == job[j].pc \notin {"none", "gone"}

\* Job::runs: a list shows it, and a stop finds it.
Runs(j) ==
    /\ Listed(j) /\ job[j].moved
    /\ IF OfPlugin(job[j].kind) THEN job[j].pc = "works" ELSE job[j].group
Running == {j \in Ids : Runs(j)}

With(r, changes) == [field \in DOMAIN r |-> IF field \in DOMAIN changes THEN changes[field] ELSE r[field]]
Becomes(j, changes) == job' = [job EXCEPT ![j] = With(@, changes)]
AllBecome(set, changes) == job' = [j \in Ids |-> IF j \in set THEN With(job[j], changes) ELSE job[j]]
-----------------------------------------------------------------------------
(***************************************************************************)
(* The calls of the session.                                               *)
(***************************************************************************)

\* The entry of a job.  The job of a plugin without a call shows at once.
Enters(j, kind) ==
    LET shows == kind = "plugin"
    IN  /\ Becomes(j, [pc |-> IF OfPlugin(kind) THEN "works" ELSE "spawns", kind |-> kind, moved |-> ~InCall(kind),
                       answer |-> IF shows THEN "running" ELSE "none", told |-> IF shows THEN "running" ELSE "none"])
        /\ shown' = IF shows THEN shown \cup {j} ELSE shown

\* Mutant: a closed session starts a job.
Start_Closed(j, kind) ==
    /\ job[j].pc = "none" /\ kind \in workload.kinds
    /\ Enters(j, kind)
    /\ UNCHANGED <<phase, ends, workload>>

\* add: the close of the session refuses it.
Start(j, kind) ==
    /\ job[j].pc = "none" /\ kind \in workload.kinds /\ phase = "open"
    /\ Enters(j, kind)
    /\ UNCHANGED <<phase, ends, workload>>

\* move_to_background
Movable == {j \in Ids : Listed(j) /\ ~job[j].moved /\ ~job[j].stop}
CallEnds(j) == job[j].pc \in {"stops", "ends"}
Background ==
    /\ Movable # {}
    /\ workload.late \/ \A j \in Movable : ~CallEnds(j)
    /\ AllBecome(Movable, [moved |-> TRUE])
    /\ UNCHANGED <<shown, phase, ends, workload>>

\* The call ends or drops.  A command sees it beside its own stop; the work of
\* a plugin gets its stop while the call still waits.
CancelCall(j) ==
    /\ Listed(j) /\ InCall(job[j].kind) /\ job[j].answer = "none" /\ ~job[j].called
    /\ Becomes(j, [called |-> TRUE, stop |-> job[j].stop \/ (job[j].kind = "tool" /\ ~job[j].moved)])
    /\ UNCHANGED <<shown, phase, ends, workload>>

\* stop: it finds a running job and silences it.  Its answer waits for the end
\* of the entry.
StopJob(j) ==
    /\ Runs(j)
    /\ Becomes(j, [silenced |-> TRUE, stop |-> TRUE])
    /\ UNCHANGED <<shown, phase, ends, workload>>

\* load: a client starts from the jobs that run now.
Load ==
    /\ shown' = Running
    /\ UNCHANGED <<job, phase, ends, workload>>

\* replace_plugins: a reload stops the jobs of the old plugins.  No call waits,
\* as no turn runs.
PluginJobs == {j \in Ids : Listed(j) /\ OfPlugin(job[j].kind)}
Reload ==
    /\ phase = "open" /\ PluginJobs # {}
    /\ \A j \in Ids : Listed(j) /\ InCall(job[j].kind) => job[j].answer # "none"
    /\ AllBecome(PluginJobs, [stop |-> TRUE])
    /\ UNCHANGED <<shown, phase, ends, workload>>

\* The close of the session: it cancels the turn and its calls, then stops the
\* jobs of the plugins and waits for their work, then stops each job.
CloseStarts ==
    /\ phase = "open"
    /\ phase' = "ending"
    /\ job' = [j \in Ids |->
                 IF Listed(j) /\ InCall(job[j].kind) /\ job[j].answer = "none"
                 THEN With(job[j], [called |-> TRUE, stop |-> job[j].stop \/ (job[j].kind = "tool" /\ ~job[j].moved)])
                 ELSE job[j]]
    /\ UNCHANGED <<shown, ends, workload>>
ClosePlugins ==
    /\ phase = "ending"
    /\ phase' = "plugins"
    /\ AllBecome(PluginJobs, [stop |-> TRUE])
    /\ UNCHANGED <<shown, ends, workload>>

\* close_session
CloseJobs ==
    /\ phase = "plugins" /\ \A j \in Ids : job[j].pc # "works"
    /\ phase' = "jobs"
    /\ ends' = {j \in Ids : Listed(j)}
    /\ AllBecome(ends', [stop |-> TRUE])
    /\ UNCHANGED <<shown, workload>>
Closed ==
    /\ phase = "jobs" /\ \A j \in ends : ~Listed(j)
    /\ phase' = "closed"
    /\ UNCHANGED <<job, shown, ends, workload>>
-----------------------------------------------------------------------------
(***************************************************************************)
(* The task of a command.                                                  *)
(***************************************************************************)

\* The processes of the group can end by themselves.
Exits(j) ==
    /\ job[j].process = "runs"
    /\ Becomes(j, [process |-> "exited"])
    /\ UNCHANGED <<shown, phase, ends, workload>>

\* start_command, then set_group.  A start without a call answers at once.
Spawned(j) ==
    /\ job[j].pc = "spawns"
    /\ \/ /\ job[j].kind = "exec"
          /\ Becomes(j, [pc |-> "race", group |-> TRUE, process |-> "runs"])
          /\ UNCHANGED shown
       \/ /\ job[j].kind = "process"
          /\ Becomes(j, [pc |-> "waits", group |-> TRUE, process |-> "runs", answer |-> "running", told |-> "running"])
          /\ shown' = shown \cup {j}
       \/ /\ Becomes(j, [pc |-> "gone", answer |-> "error"])
          /\ UNCHANGED shown
    /\ UNCHANGED <<phase, ends, workload>>

\* The select of a command in its call.  A move wins.
MoveWins(j) ==
    /\ job[j].pc = "race" /\ job[j].moved
    /\ Becomes(j, [pc |-> "waits", answer |-> "running", told |-> "running"])
    /\ shown' = shown \cup {j}
    /\ UNCHANGED <<phase, ends, workload>>
CallExits(j) ==
    /\ job[j].pc = "race" /\ ~job[j].moved /\ job[j].process = "exited"
    /\ Becomes(j, [pc |-> "ends", by |-> "exit"])
    /\ UNCHANGED <<shown, phase, ends, workload>>

\* Mutant: the command does not watch its call.
CallStops_StopOnly(j, by) ==
    /\ job[j].pc = "race" /\ ~job[j].moved /\ job[j].process = "runs"
    /\ by = "cancelled" => job[j].stop
    /\ Becomes(j, [pc |-> "stops", by |-> by])
    /\ UNCHANGED <<shown, phase, ends, workload>>

\* The deadline, the cancel or the drop of the call, or a stop.
CallStops(j, by) ==
    /\ job[j].pc = "race" /\ ~job[j].moved /\ job[j].process = "runs"
    /\ by = "cancelled" => job[j].called \/ job[j].stop
    /\ Becomes(j, [pc |-> "stops", by |-> by])
    /\ UNCHANGED <<shown, phase, ends, workload>>

\* stop_group: the grace, then a kill.
CallKilled(j) ==
    /\ job[j].pc = "stops"
    /\ Becomes(j, [pc |-> "ends", process |-> "exited"])
    /\ UNCHANGED <<shown, phase, ends, workload>>

\* finish_in_call: the rest of the output, then the answer.
CallAnswered(j) ==
    /\ job[j].pc = "ends"
    /\ Becomes(j, [pc |-> "gone", answer |-> job[j].by])
    /\ UNCHANGED <<shown, phase, ends, workload>>

\* The select of wait.  A stop wins.  A moved command has no deadline.
JobStops(j) ==
    /\ job[j].pc = "waits" /\ job[j].stop
    /\ Becomes(j, [pc |-> "halts", by |-> "stop"])
    /\ UNCHANGED <<shown, phase, ends, workload>>
JobTimesOut(j) ==
    /\ job[j].pc = "waits" /\ ~job[j].stop /\ job[j].kind = "process"
    /\ Becomes(j, [pc |-> "halts", by |-> "timeout"])
    /\ UNCHANGED <<shown, phase, ends, workload>>
JobExits(j) ==
    /\ job[j].pc = "waits" /\ ~job[j].stop /\ job[j].process = "exited"
    /\ Becomes(j, [pc |-> "reads", by |-> "exit"])
    /\ UNCHANGED <<shown, phase, ends, workload>>
JobKilled(j) ==
    /\ job[j].pc = "halts"
    /\ Becomes(j, [pc |-> "reads", process |-> "exited"])
    /\ UNCHANGED <<shown, phase, ends, workload>>

\* Mutant: only a stop before the end keeps the report back.
JobEnds_StopOnly(j) ==
    /\ job[j].pc = "reads"
    /\ shown' = shown \ {j}
    /\ Becomes(j, [group |-> FALSE, told |-> IF job[j].by = "stop" THEN "stopped" ELSE "ended",
                   pc |-> IF job[j].by = "stop" THEN "gone" ELSE "tells"])
    /\ UNCHANGED <<phase, ends, workload>>

\* The output ended: the job is no more in a list, and its report follows
\* unless a stop came.
JobEnds(j) ==
    /\ job[j].pc = "reads"
    /\ shown' = shown \ {j}
    /\ Becomes(j, [group |-> FALSE, told |-> IF job[j].by = "stop" THEN "stopped" ELSE "ended",
                   pc |-> IF job[j].by = "stop" \/ job[j].silenced THEN "gone" ELSE "tells"])
    /\ UNCHANGED <<phase, ends, workload>>

\* accept_input of the report, then the drop of the entry.
Told(j) ==
    /\ job[j].pc = "tells"
    /\ Becomes(j, [pc |-> "gone", reports |-> job[j].reports + 1])
    /\ UNCHANGED <<shown, phase, ends, workload>>
-----------------------------------------------------------------------------
(***************************************************************************)
(* The work of a plugin.                                                   *)
(***************************************************************************)

\* in_call
Waits(j) == ~job[j].moved

\* The script sees the move after the list.
Announce(j) ==
    /\ job[j].pc = "works" /\ job[j].kind = "tool" /\ job[j].moved /\ job[j].answer = "none"
    /\ Becomes(j, [answer |-> "running", told |-> "running"])
    /\ shown' = shown \cup {j}
    /\ UNCHANGED <<phase, ends, workload>>

\* PluginJob::end: the work gave a report or nothing.  The list tells whether a
\* call takes the end; the report follows unless a stop came.
WorkEnds(j) ==
    /\ job[j].pc = "works"
    /\ \E by \in {"report", "nothing"} :
         \/ /\ Waits(j)
            /\ Becomes(j, [pc |-> "gone", answer |-> "ended", by |-> by])
            /\ UNCHANGED shown
         \/ /\ ~Waits(j)
            /\ shown' = shown \ {j}
            /\ Becomes(j, [answer |-> "running", by |-> by,
                           told |-> IF job[j].stop THEN "stopped" ELSE "ended",
                           pc |-> IF by = "report" /\ ~job[j].stop THEN "tells" ELSE "gone"])
    /\ UNCHANGED <<phase, ends, workload>>
-----------------------------------------------------------------------------
\* The steps of the executor for one job.
Task(j) ==
    \/ Spawned(j) \/ MoveWins(j) \/ CallExits(j) \/ CallStops(j, "cancelled") \/ CallKilled(j) \/ CallAnswered(j)
    \/ JobStops(j) \/ JobExits(j) \/ JobKilled(j) \/ JobEnds(j) \/ Told(j) \/ Announce(j)
CloseSteps == ClosePlugins \/ CloseJobs \/ Closed

Next ==
    \/ \E j \in Ids :
         \/ \E kind \in Kinds : Start(j, kind)
         \/ CancelCall(j) \/ StopJob(j) \/ Exits(j)
         \/ CallStops(j, "timeout") \/ JobTimesOut(j) \/ WorkEnds(j)
         \/ Task(j)
    \/ Background \/ Load \/ Reload \/ CloseStarts \/ CloseSteps

Spec == Init /\ [][Next]_vars

\* The executor runs each task that is ready, and the kill of a group ends it.
\* Nothing makes a process exit, a timeout fire, or the work of a plugin end.
Fairness == (\A j \in Ids : WF_vars(Task(j))) /\ WF_vars(CloseSteps)
FairSpec == Spec /\ Fairness
-----------------------------------------------------------------------------
(***************************************************************************)
(* Properties                                                              *)
(***************************************************************************)

\* A client that follows the job updates shows no job that ended
\* (protocol/README.md:78).
ShownRuns == shown \subseteq Running

\* A client shows no job that ended, and it misses a running one only until the
\* task of the job sees its move.  The end of a job goes to one place: to the
\* call that waits, without a job update, or after a move to one update of the
\* end and, when the job ended by itself and no stop silenced it, to one report.
\* And a close leaves no job in the list and no process of one
\* (protocol/README.md:78, processes.rs:276, 379, jobs.rs:393).
Reported(j) == job[j].told = "ended" /\ job[j].by \in {"exit", "timeout", "report"} /\ ~job[j].silenced
ShownTrue ==
    /\ ShownRuns
    /\ \A j \in Running \ shown : job[j].pc \in {"race", "works"} /\ job[j].answer = "none"
EndTold ==
    \A j \in Ids : job[j].pc = "gone" =>
        /\ job[j].told \in IF job[j].answer = "running" THEN {"stopped", "ended"} ELSE {"none"}
        /\ job[j].reports = IF Reported(j) THEN 1 ELSE 0
CloseLeavesNone ==
    phase = "closed" => \A j \in Ids : ~Listed(j) /\ job[j].process # "runs"
JobsTold == ShownTrue /\ EndTold /\ CloseLeavesNone

\* A stopped command ends, and so does one whose call left before a move.  A
\* close ends when each plugin ends its work (processes.rs:169, jobs.rs:250).
CommandEnds(j) ==
    ~OfPlugin(job[j].kind) /\ (job[j].stop \/ (job[j].called /\ ~job[j].moved))
        ~> ~Listed(j) \/ (job[j].moved /\ ~job[j].stop)
StopEnds ==
    /\ \A j \in Ids : CommandEnds(j)
    /\ (\A j \in Ids : []<>(job[j].pc # "works")) => (phase = "ending" ~> phase = "closed")
=============================================================================
