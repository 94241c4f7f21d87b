-------------------------------- MODULE Scopes --------------------------------
(***************************************************************************)
(* The scopes of the plugins in the opens of one session: their setup,     *)
(* their tools, hooks and jobs, the runs of a hook point, and the close    *)
(* (js/modules/internal/hooks.ts, and the registry of js/src/tools.rs that *)
(* js/src/session.rs opens and closes with it).  A reload opens the        *)
(* plugins again beside the old open.                                      *)
(*                                                                         *)
(* The engine is one thread: a step is the script between two awaits, and  *)
(* `aborting` holds the scopes whose abort listeners still run inside the  *)
(* step of a close or of a failed setup.  A tool is the scope that defined *)
(* it.  The run of a plan keeps the context of the round as the code does, *)
(* as a head and a count of kept blocks.  How a job moves and where its    *)
(* end goes is in Jobs.                                                    *)
(***************************************************************************)
EXTENDS Naturals, Sequences

CONSTANTS
    MaxOpens,   \* bound: the opens of the session
    Plugins,    \* the loaded plugins: 1, 2 and so on, in their order
    MaxJobs,    \* bound: the running jobs of a scope
    HookRuns,   \* bound: the runs of a hook point
    Workloads   \* bound: the opens, the plugins that load, what they add, the runs, and the blocks and the answers of a plan

VARIABLES
    opened,     \* the open numbers of the registry, and of the script: both change in one step
    dropped,    \* Engine::sessions_to_close
    scope,      \* the scope of each open and plugin
    tools,      \* the scopes with a tool in the registry
    aborting,   \* the scopes whose abort listeners run now or next
    run,        \* the runs of a hook point
    offered,    \* history: the scopes whose tools a turn got
    late,       \* history: a scope that was not set up or had closed ran a handler or gave an answer
    last,       \* the open numbers so far
    workload    \* the workload of this behaviour

engine == <<opened, dropped, last, workload>>
vars == <<engine, scope, tools, aborting, run, offered, late>>

Opens == 1 .. MaxOpens
NoScope == [setup |-> "none", closed |-> FALSE, cleanup |-> "none", end |-> "open",
            hooks |-> 0, jobs |-> {}, awaited |-> {}]
NoRun == [kind |-> "none"]
NoHandlers == [p \in Plugins |-> 0]
LastOf(seq, n) == SubSeq(seq, Len(seq) - n + 1, Len(seq))
AtMost(n, bound) == IF n <= bound THEN n ELSE bound

Init ==
    /\ workload \in Workloads
    /\ opened = {} /\ dropped = {} /\ last = 0
    /\ scope = [o \in Opens |-> [p \in Plugins |-> NoScope]]
    /\ tools = {} /\ aborting = {} /\ run = [r \in HookRuns |-> NoRun]
    /\ offered = {} /\ late = FALSE

Settled(o, p) == scope[o][p].setup \in {"returned", "failed"}
Ready(o) == \A p \in workload.plugins : Settled(o, p)
\* No script runs.  A call of the host starts after the closes of the dropped sessions.
Rests == aborting = {}
HostCalls == Rests /\ dropped = {}
\* The scopes abort in the order of their plugins.
AbortsNow(s) == s \in aborting /\ \A t \in aborting : s[2] <= t[2]
\* Code of a plugin runs in its scope, or in an abort listener of it.
PluginRuns(o, p) == scope[o][p].setup # "none" /\ (Rests \/ AbortsNow(<<o, p>>))
-----------------------------------------------------------------------------
(***************************************************************************)
(* The open and the setup                                                  *)
(***************************************************************************)
\* Handle::open_session and openSession: `session` of each plugin starts.
Open ==
    /\ HostCalls /\ last < workload.opens
    /\ last' = last + 1 /\ opened' = opened \cup {last'}
    /\ scope' = [scope EXCEPT ![last'] = [p \in Plugins |->
                    IF p \in workload.plugins THEN [NoScope EXCEPT !.setup = "runs"] ELSE NoScope]]
    /\ UNCHANGED <<dropped, workload, tools, aborting, run, offered, late>>

\* `session` of a plugin returns, with or without a cleanup.
SetupReturns(o, p) ==
    /\ Rests /\ scope[o][p].setup = "runs"
    /\ \E cleanup \in {"none", "given"} :
           scope' = [scope EXCEPT ![o][p].setup = "returned", ![o][p].cleanup = cleanup]
    /\ UNCHANGED <<engine, tools, aborting, run, offered, late>>

\* Mutant: the scope of a failed setup stays open, so an abort listener of it can define a tool again.
RollBack_Open(o, p) ==
    /\ scope' = [scope EXCEPT ![o][p].setup = "failed"]
    /\ tools' = tools \ {<<o, p>>}

\* The tools of a failed setup go, and its scope closes before its abort.
RollBack(o, p) ==
    /\ scope' = [scope EXCEPT ![o][p].setup = "failed", ![o][p].closed = TRUE]
    /\ tools' = tools \ {<<o, p>>}

\* After a close nothing is left to roll back.
SetupFails(o, p) ==
    /\ Rests /\ scope[o][p].setup = "runs"
    /\ IF scope[o][p].closed
       THEN scope' = [scope EXCEPT ![o][p].setup = "failed"] /\ UNCHANGED <<tools, aborting>>
       ELSE RollBack(o, p) /\ aborting' = {<<o, p>>}
    /\ UNCHANGED <<engine, run, offered, late>>

\* ScriptSession::tools: a turn gets the tools after each setup.
Tools(o) ==
    /\ HostCalls /\ last >= o /\ Ready(o)
    /\ offered' = offered \cup {s \in tools : s[1] = o /\ o \in opened}
    /\ UNCHANGED <<engine, scope, tools, aborting, run, late>>
-----------------------------------------------------------------------------
(***************************************************************************)
(* What a plugin adds                                                      *)
(***************************************************************************)
\* define, and its remover.  The registry refuses a closed session too.
Define(o, p) ==
    /\ "tools" \in workload.adds /\ PluginRuns(o, p)
    /\ ~scope[o][p].closed /\ o \in opened
    /\ tools' = tools \cup {<<o, p>>}
    /\ UNCHANGED <<engine, scope, aborting, run, offered, late>>
Undefine(o, p) ==
    /\ PluginRuns(o, p) /\ <<o, p>> \in tools
    /\ tools' = tools \ {<<o, p>>}
    /\ UNCHANGED <<engine, scope, aborting, run, offered, late>>

\* hook, and its remover
AddHook(o, p) ==
    /\ PluginRuns(o, p) /\ ~scope[o][p].closed
    /\ scope[o][p].hooks < workload.hooks
    /\ scope' = [scope EXCEPT ![o][p].hooks = @ + 1]
    /\ UNCHANGED <<engine, tools, aborting, run, offered, late>>
RemoveHook(o, p) ==
    /\ PluginRuns(o, p) /\ scope[o][p].hooks > 0
    /\ scope' = [scope EXCEPT ![o][p].hooks = @ - 1]
    /\ UNCHANGED <<engine, tools, aborting, run, offered, late>>

\* Mutant: a closed scope starts a job.
MayStart_Always(o, p) == TRUE

MayStart(o, p) == ~scope[o][p].closed

\* runJob, and the end of its work
StartJob(o, p) ==
    /\ "jobs" \in workload.adds /\ PluginRuns(o, p) /\ MayStart(o, p)
    /\ \E j \in 1 .. MaxJobs : j \notin scope[o][p].jobs /\ scope' = [scope EXCEPT ![o][p].jobs = @ \cup {j}]
    /\ UNCHANGED <<engine, tools, aborting, run, offered, late>>
JobEnds(o, p) ==
    /\ Rests
    /\ LET s == scope[o][p] IN
       \E j \in s.jobs : scope' = [scope EXCEPT ![o][p] = [s EXCEPT !.jobs = s.jobs \ {j}, !.awaited = s.awaited \ {j}]]
    /\ UNCHANGED <<engine, tools, aborting, run, offered, late>>
-----------------------------------------------------------------------------
(***************************************************************************)
(* A run of a hook point                                                   *)
(***************************************************************************)
Before == [i \in 1 .. workload.blocks |-> i]
At(r, pc) == run[r].kind # "none" /\ run[r].pc = pc
ScopeOf(r) == scope[run[r].open][run[r].now]

\* runHandlers: a session that closed has no run.
StartRun(o, r) ==
    /\ HostCalls /\ run[r] = NoRun /\ last >= o
    /\ \E kind \in workload.runs :
           run' = [run EXCEPT ![r] = [kind |-> kind, open |-> o, pc |-> IF o \in opened THEN "waits" ELSE "done",
                                      left |-> NoHandlers, now |-> 0, head |-> <<>>, kept |-> workload.blocks,
                                      answers |-> 0, truth |-> Before]]
    /\ UNCHANGED <<engine, scope, tools, aborting, offered, late>>

\* Mutant: the lists are copied before the setups settle.
MayCopy_AtOnce(o) == TRUE

MayCopy(o) == Ready(o)

\* One copy of every list at the start; here how many handlers of each plugin are left
CopyLists(r) ==
    /\ Rests /\ At(r, "waits") /\ MayCopy(run[r].open)
    /\ run' = [run EXCEPT ![r].pc = "runs", ![r].left = [p \in Plugins |-> scope[run[r].open][p].hooks]]
    /\ UNCHANGED <<engine, scope, tools, aborting, offered, late>>

\* The next handler of a scope that is open, in the order of the plugins, if there is one
Calls(r) ==
    /\ Rests /\ At(r, "runs")
    /\ LET o == run[r].open
           open == {p \in Plugins : run[r].left[p] > 0 /\ ~scope[o][p].closed}
       IN \/ /\ open = {}
             /\ run' = [run EXCEPT ![r].pc = "done", ![r].left = NoHandlers] /\ UNCHANGED late
          \/ \E p \in open :
                /\ \A q \in open : p <= q
                /\ run' = [run EXCEPT ![r].pc = "calls", ![r].now = p, ![r].left[p] = @ - 1]
                /\ late' = (late \/ o \notin opened \/ ~Ready(o))
    /\ UNCHANGED <<engine, scope, tools, aborting, offered>>

\* Mutant: an answer of a closed scope counts.
Counts_Always(r) == TRUE

Counts(r) == ~ScopeOf(r).closed

\* Mutant: the end of the earlier head starts one block early.
HeadAfter_Early(head, kept, given, keeps) ==
    IF keeps <= kept THEN given ELSE given \o LastOf(head, AtMost(keeps - kept + 1, Len(head)))

\* A keep past the kept blocks also keeps the end of the earlier head.
HeadAfter(head, kept, given, keeps) ==
    IF keeps <= kept THEN given ELSE given \o LastOf(head, keeps - kept)

\* A handler of the plan of a round replaces the context: its answer is new blocks, and how many blocks at the end stay.
Replaces(r, given, keep) ==
    LET plan == run[r]
        keeps == AtMost(keep, Len(plan.head) + plan.kept)
    IN run' = [run EXCEPT ![r].pc = "runs", ![r].answers = @ + 1,
                          ![r].head = HeadAfter(plan.head, plan.kept, given, keeps),
                          ![r].kept = AtMost(plan.kept, keeps),
                          ![r].truth = given \o LastOf(plan.truth, AtMost(keep, Len(plan.truth)))]

\* The blocks of an answer are new ones.
Given(r, n) == [i \in 1 .. n |-> 10 * (run[r].answers + 1) + i]

\* A handler gives no answer, an answer that counts, or a failure.
Settles(r) ==
    /\ Rests /\ At(r, "calls")
    /\ \/ run' = [run EXCEPT ![r].pc = IF Counts(r) THEN "runs" ELSE "done"] /\ UNCHANGED late
       \/ /\ Counts(r) /\ late' = (late \/ ScopeOf(r).closed)
          /\ \/ run[r].kind = "first" /\ run' = [run EXCEPT ![r].pc = "done", ![r].answers = 1]
             \/ /\ run[r].kind = "plan"
                /\ \E n \in workload.heads, keep \in 0 .. workload.blocks + 2 : Replaces(r, Given(r, n), keep)
       \/ run' = [run EXCEPT ![r].pc = "failed"] /\ UNCHANGED late
    /\ UNCHANGED <<engine, scope, tools, aborting, offered>>
-----------------------------------------------------------------------------
(***************************************************************************)
(* The close                                                               *)
(***************************************************************************)
\* start_close: Registry::close and the first step of closeSession.  A second close finds nothing.
StartClose(o) ==
    IF o \notin opened THEN UNCHANGED <<opened, scope, tools, aborting>>
    ELSE /\ opened' = opened \ {o}
         /\ tools' = {s \in tools : s[1] # o}
         /\ scope' = [scope EXCEPT ![o] = [p \in Plugins |->
                         IF p \in workload.plugins THEN [@[p] EXCEPT !.closed = TRUE, !.end = "waits"] ELSE @[p]]]
         /\ aborting' = {<<o, p>> : p \in {p \in workload.plugins : ~scope[o][p].closed}}

\* ScriptSession::close
Close(o) ==
    /\ HostCalls /\ last >= o
    /\ StartClose(o)
    /\ UNCHANGED <<dropped, last, workload, run, offered, late>>

\* The drop of a session, and the close that the engine starts for it
Drop(o) ==
    /\ Rests /\ last >= o /\ o \in opened
    /\ dropped' = dropped \cup {o}
    /\ UNCHANGED <<opened, last, workload, scope, tools, aborting, run, offered, late>>
CloseDropped(o) ==
    /\ Rests /\ o \in dropped
    /\ dropped' = dropped \ {o}
    /\ StartClose(o)
    /\ UNCHANGED <<last, workload, run, offered, late>>

\* The abort listeners of a scope have run.
AbortEnds ==
    /\ \E s \in aborting : AbortsNow(s) /\ aborting' = aborting \ {s}
    /\ UNCHANGED <<engine, scope, tools, run, offered, late>>

\* Mutant: the close does not wait for a setup that still runs.
Waits_Never(o, p) == FALSE

Waits(o, p) == ~Settled(o, p)

\* The close of a scope waits for its setup, runs its cleanup, and waits for the work of its jobs.
CloseGoesOn(o, p) ==
    /\ Rests
    /\ LET s == scope[o][p] IN
       \/ /\ s.end = "waits" /\ ~Waits(o, p)
          /\ scope' = [scope EXCEPT ![o][p] =
                         IF s.cleanup = "given" THEN [s EXCEPT !.end = "cleans", !.cleanup = "runs"]
                         ELSE [s EXCEPT !.end = "works", !.awaited = s.jobs]]
       \/ /\ s.end = "cleans"
          /\ scope' = [scope EXCEPT ![o][p] = [s EXCEPT !.end = "works", !.cleanup = "ran", !.awaited = s.jobs]]
       \/ /\ s.end = "works" /\ s.awaited = {}
          /\ scope' = [scope EXCEPT ![o][p].end = "done"]
    /\ UNCHANGED <<engine, tools, aborting, run, offered, late>>

Host(o) == Tools(o) \/ Close(o) \/ Drop(o) \/ CloseDropped(o) \/ \E r \in HookRuns : StartRun(o, r)
Plugin(o, p) ==
    \/ SetupReturns(o, p) \/ SetupFails(o, p) \/ CloseGoesOn(o, p) \/ JobEnds(o, p)
    \/ Define(o, p) \/ Undefine(o, p) \/ AddHook(o, p) \/ RemoveHook(o, p) \/ StartJob(o, p)
Next ==
    \/ Open \/ AbortEnds
    \/ \E o \in Opens : Host(o) \/ \E p \in Plugins : Plugin(o, p)
    \/ \E r \in HookRuns : CopyLists(r) \/ Calls(r) \/ Settles(r)
Spec == Init /\ [][Next]_vars
-----------------------------------------------------------------------------
(***************************************************************************)
(* Properties                                                              *)
(***************************************************************************)

\* Whatever a plugin adds in its setup, in a handler, in an abort listener or in its
\* cleanup, while its session closes, fails or opens again: a failed or closed scope
\* keeps no tool; a turn gets tools only from plugins whose setup succeeded; no handler
\* runs before the setups settle or after the close, and no answer of a closed scope
\* counts; and a close that ended ran each cleanup and left no work of a job
\* (hooks.ts:42, 513, 572, 782).
ScopesTrue ==
    /\ \A s \in tools : s[1] \in opened /\ ~scope[s[1]][s[2]].closed
    /\ \A s \in offered : scope[s[1]][s[2]].setup = "returned"
    /\ ~late
    /\ \A o \in opened, p \in Plugins : scope[o][p].cleanup \in {"none", "given"} /\ scope[o][p].end = "open"
    /\ \A o \in Opens, p \in Plugins :
           scope[o][p].end = "done" =>
               Settled(o, p) /\ scope[o][p].cleanup # "given" /\ scope[o][p].jobs = {}

\* After every answer the head and the kept blocks of the plan are the context that the
\* answers give one after another, also when an answer keeps more blocks than there are
\* or the end of an earlier head (hooks.ts:376).
PlanTrue ==
    \A r \in HookRuns :
        run[r].kind = "plan" =>
            /\ run[r].kept <= workload.blocks
            /\ run[r].truth = run[r].head \o LastOf(Before, run[r].kept)
=============================================================================
