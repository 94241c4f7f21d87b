------------------------------ MODULE Servers ------------------------------
(***************************************************************************)
(* The MCP servers of one session (mcp/servers.rs): their starts, the      *)
(* trust of the project servers, the tools that a turn takes, the calls of *)
(* the tools, and the close.                                               *)
(*                                                                         *)
(* The task of a server starts its program, agrees on the protocol, holds  *)
(* the connection and tells its end.  A counter of the servers that still  *)
(* start lets the turn wait for them.  One thread runs the tasks: a step   *)
(* is the code between two awaits.  The program, the connection of the     *)
(* library and the user are external.                                      *)
(***************************************************************************)
EXTENDS Naturals, FiniteSets

CONSTANT
    Configs     \* the user and the project config: sequences of entries with a name, and whether it is
                \* ok, bad (an error of its command) or off (disabled)

VARIABLES
    slot,       \* the slots by their place in the config: state, and whether they have a peer and a stop
    task,       \* the await of the task of each server
    program,    \* the process group of each server: none, runs, exited, or dropped with its task
    link,       \* the connection of each server: none, up, ending or down
    trust,      \* the task of the trust: none, asks, yes, no or done
    count,      \* the servers that still start or wait for the trust
    tasks,      \* the tasks of the list: places, and Trust
    close,      \* the close of the session: open, stopped, closing or closed
    left,       \* the tasks that the close waits for
    stops,      \* the servers whose stop the close took
    turn,       \* idle, waits (for ready) or taken
    cancel,     \* the token of the turn
    tools,      \* the servers whose tools the turn took
    call        \* a call of a tool of each server: none, waits, answered, failed or cancelled

servers == <<slot, task, program, link, trust, count, tasks>>
closeVars == <<close, left, stops>>
turnVars == <<turn, cancel, tools, call>>
vars == <<servers, closeVars, turnVars>>
-----------------------------------------------------------------------------
\* The entries: a project server replaces a user server of its name.
Places(config) ==
    {i \in ({"user"} \X DOMAIN config.user) \cup ({"project"} \X DOMAIN config.project) :
        i[1] = "user" => \A k \in DOMAIN config.project : config.project[k].name # config.user[i[2]].name}

FirstState(source, entry) ==
    CASE entry.config = "off" -> "disabled"
      [] entry.config = "bad" -> "failed"
      [] entry.config \notin {"off", "bad"} /\ source = "user" -> "connecting"
      [] OTHER -> "untrusted"

\* The task of the trust.  The list of the tasks has the user servers before it, in config
\* order, and the project servers behind it.
Trust == <<"trust", 0>>
Before(i, j) ==
    IF i[1] = j[1] THEN i[2] < j[2] ELSE i[1] = "user" \/ j[1] = "project"
First(i, list) == \A j \in list \ {i} : Before(i, j)

Slots == DOMAIN slot
InState(state) == {i \in Slots : slot[i].state = state}

\* start
Init ==
    /\ \E config \in Configs :
         slot = [i \in Places(config) |->
                   [state |-> FirstState(i[1], config[i[1]][i[2]]), peer |-> FALSE, stop |-> FALSE]]
    /\ task = [i \in Slots |-> IF slot[i].state = "connecting" THEN "spawns" ELSE "none"]
    /\ trust = IF InState("untrusted") = {} THEN "none" ELSE "asks"
    /\ count = Cardinality(InState("connecting") \cup InState("untrusted"))
    /\ tasks = InState("connecting") \cup (IF trust = "asks" THEN {Trust} ELSE {})
    /\ program = [i \in Slots |-> "none"]
    /\ link = [i \in Slots |-> "none"]
    /\ close = "open" /\ left = {} /\ stops = {}
    /\ turn = "idle" /\ cancel = FALSE /\ tools = {}
    /\ call = [i \in Slots |-> "none"]

Closing == close \in {"closing", "closed"}
-----------------------------------------------------------------------------
(***************************************************************************)
(* The trust of the project servers.                                       *)
(***************************************************************************)

\* trust_of: a kept confirm or the answer of the user.  The close of the
\* session ends the question.
Answered(answer) ==
    /\ trust = "asks"
    /\ trust' = answer
    /\ UNCHANGED <<slot, task, program, link, count, tasks, closeVars, turnVars>>
QuestionEnds == close # "open" /\ Answered("no")

\* Mutant: the count of a gated server goes down when its start begins.
StartTrusted_CountsAll ==
    /\ trust \in {"yes", "no"}
    /\ trust' = "done"
    /\ count' = count - Cardinality(InState("untrusted"))
    /\ IF trust = "yes" /\ ~Closing
       THEN /\ slot' = [i \in Slots |-> IF slot[i].state = "untrusted" THEN [slot[i] EXCEPT !.state = "connecting"]
                                                                       ELSE slot[i]]
            /\ task' = [i \in Slots |-> IF slot[i].state = "untrusted" THEN "spawns" ELSE task[i]]
            /\ tasks' = tasks \cup InState("untrusted")
       ELSE UNCHANGED <<slot, task, tasks>>
    /\ UNCHANGED <<program, link, closeVars, turnVars>>

\* Mutant: a yes starts the servers also during the close.
StartTrusted_Closed ==
    /\ trust \in {"yes", "no"}
    /\ trust' = "done"
    /\ IF trust = "yes"
       THEN /\ slot' = [i \in Slots |-> IF slot[i].state = "untrusted" THEN [slot[i] EXCEPT !.state = "connecting"]
                                                                       ELSE slot[i]]
            /\ task' = [i \in Slots |-> IF slot[i].state = "untrusted" THEN "spawns" ELSE task[i]]
            /\ tasks' = tasks \cup InState("untrusted")
            /\ UNCHANGED count
       ELSE /\ count' = count - Cardinality(InState("untrusted"))
            /\ UNCHANGED <<slot, task, tasks>>
    /\ UNCHANGED <<program, link, closeVars, turnVars>>

\* start_trusted: each gated server starts, or its count goes down.
StartTrusted ==
    /\ trust \in {"yes", "no"}
    /\ trust' = "done"
    /\ IF trust = "yes" /\ ~Closing
       THEN /\ slot' = [i \in Slots |-> IF slot[i].state = "untrusted" THEN [slot[i] EXCEPT !.state = "connecting"]
                                                                       ELSE slot[i]]
            /\ task' = [i \in Slots |-> IF slot[i].state = "untrusted" THEN "spawns" ELSE task[i]]
            /\ tasks' = tasks \cup InState("untrusted")
            /\ UNCHANGED count
       ELSE /\ count' = count - Cardinality(InState("untrusted"))
            /\ UNCHANGED <<slot, task, tasks>>
    /\ UNCHANGED <<program, link, closeVars, turnVars>>
-----------------------------------------------------------------------------
(***************************************************************************)
(* The task of a server.                                                   *)
(***************************************************************************)
Moves(i, pc) == task' = [task EXCEPT ![i] = pc]

\* The first poll of connect: the program starts or not.
Spawned(i) ==
    /\ task[i] = "spawns"
    /\ \/ /\ Moves(i, "agrees")
          /\ program' = [program EXCEPT ![i] = "runs"]
          /\ UNCHANGED <<slot, count>>
       \/ /\ Moves(i, "done")
          /\ slot' = [slot EXCEPT ![i].state = "failed"]
          /\ count' = count - 1
          /\ UNCHANGED program
    /\ UNCHANGED <<link, trust, tasks, closeVars, turnVars>>

\* agree gave the connection and the tools.
Agreed(i) ==
    /\ task[i] = "agrees" /\ program[i] = "runs"
    /\ Moves(i, "waits")
    /\ slot' = [slot EXCEPT ![i] = [@ EXCEPT !.state = "connected", !.peer = TRUE, !.stop = TRUE]]
    /\ link' = [link EXCEPT ![i] = "up"]
    /\ count' = count - 1
    /\ UNCHANGED <<program, trust, tasks, closeVars, turnVars>>

\* agree failed: the kill of the group, then the wait for the log.
AgreeFails(i) ==
    /\ task[i] = "agrees"
    /\ Moves(i, "logs")
    /\ program' = [program EXCEPT ![i] = "exited"]
    /\ UNCHANGED <<slot, link, trust, count, tasks, closeVars, turnVars>>

\* Mutant: a failed start leaves the count.
StartFailed_KeepsCount(i) ==
    /\ task[i] = "logs"
    /\ Moves(i, "done")
    /\ slot' = [slot EXCEPT ![i].state = "failed"]
    /\ UNCHANGED <<program, link, trust, count, tasks, closeVars, turnVars>>
StartFailed(i) ==
    /\ task[i] = "logs"
    /\ Moves(i, "done")
    /\ slot' = [slot EXCEPT ![i].state = "failed"]
    /\ count' = count - 1
    /\ UNCHANGED <<program, link, trust, tasks, closeVars, turnVars>>

\* client.waiting() ends with the connection; then the kill of the group.
WaitEnds(i) ==
    /\ task[i] = "waits" /\ link[i] = "down"
    /\ Moves(i, "ends")
    /\ program' = [program EXCEPT ![i] = "exited"]
    /\ UNCHANGED <<slot, link, trust, count, tasks, closeVars, turnVars>>

\* The log ended: the slot tells that the server stopped.
Stopped(i) ==
    /\ task[i] = "ends"
    /\ Moves(i, "done")
    /\ slot' = [slot EXCEPT ![i] = [@ EXCEPT !.state = "failed", !.peer = FALSE, !.stop = FALSE]]
    /\ UNCHANGED <<program, link, trust, count, tasks, closeVars, turnVars>>

\* External: the program exits at any time.
Exits(i) ==
    /\ program[i] \in {"runs", "dropped"}
    /\ program' = [program EXCEPT ![i] = "exited"]
    /\ UNCHANGED <<slot, task, link, trust, count, tasks, closeVars, turnVars>>

\* External: the library ends a connection whose program exited, or that was
\* told to stop.
LinkEnds(i) ==
    /\ link[i] = "ending" \/ (link[i] = "up" /\ program[i] = "exited")
    /\ link' = [link EXCEPT ![i] = "down"]
    /\ UNCHANGED <<slot, task, program, trust, count, tasks, closeVars, turnVars>>
-----------------------------------------------------------------------------
(***************************************************************************)
(* The turn: it waits until no server starts, takes the tools and calls    *)
(* them.                                                                   *)
(***************************************************************************)
TurnStarts ==
    /\ turn = "idle" /\ close = "open"
    /\ turn' = "waits" /\ cancel' = FALSE
    /\ UNCHANGED <<servers, closeVars, tools, call>>

Ended(i) == IF i = Trust THEN trust = "done" ELSE task[i] \in {"done", "aborted"}
\* The tasks hold the sender of the count.
NoSender == trust \in {"none", "done"} /\ \A i \in Slots : task[i] = "none" \/ Ended(i)

\* ready, then tools
Ready ==
    /\ turn = "waits" /\ (count = 0 \/ NoSender)
    /\ turn' = "taken"
    /\ tools' = {i \in Slots : slot[i].peer}
    /\ UNCHANGED <<servers, closeVars, cancel, call>>

CancelTurn ==
    /\ turn # "idle" /\ ~cancel
    /\ cancel' = TRUE
    /\ UNCHANGED <<servers, closeVars, turn, tools, call>>
ToolsCancelled ==
    /\ turn = "waits" /\ cancel
    /\ turn' = "idle" /\ cancel' = FALSE
    /\ UNCHANGED <<servers, closeVars, tools, call>>
TurnEnds ==
    /\ turn = "taken" /\ \A i \in Slots : call[i] # "waits"
    /\ turn' = "idle" /\ cancel' = FALSE /\ tools' = {}
    /\ call' = [i \in Slots |-> "none"]
    /\ UNCHANGED <<servers, closeVars>>

\* McpTool::call
Call(i) ==
    /\ turn = "taken" /\ i \in tools /\ call[i] = "none" /\ ~cancel
    /\ call' = [call EXCEPT ![i] = IF link[i] = "up" THEN "waits" ELSE "failed"]
    /\ UNCHANGED <<servers, closeVars, turn, cancel, tools>>
CallAnswered(i) ==
    /\ call[i] = "waits" /\ link[i] = "up" /\ program[i] = "runs"
    /\ call' = [call EXCEPT ![i] = "answered"]
    /\ UNCHANGED <<servers, closeVars, turn, cancel, tools>>
CallFails(i) ==
    /\ call[i] = "waits" /\ link[i] = "down"
    /\ call' = [call EXCEPT ![i] = "failed"]
    /\ UNCHANGED <<servers, closeVars, turn, cancel, tools>>
CallCancelled(i) ==
    /\ call[i] = "waits" /\ cancel
    /\ call' = [call EXCEPT ![i] = "cancelled"]
    /\ UNCHANGED <<servers, closeVars, turn, cancel, tools>>
-----------------------------------------------------------------------------
(***************************************************************************)
(* The close.                                                              *)
(***************************************************************************)

\* LiveSession::stop: the token of the session cancels the turn.
Stop ==
    /\ close = "open"
    /\ close' = "stopped"
    /\ cancel' = (turn # "idle")
    /\ UNCHANGED <<servers, left, stops, turn, tools, call>>

\* The stop of a connection, or the abort of a task.  An aborted task drops
\* its program and its connection, which end in the background.
Signal(i, taken) ==
    IF i = Trust
    THEN /\ trust' = "done"
         /\ UNCHANGED <<task, program, link>>
    ELSE IF i \in taken
    THEN /\ link' = [link EXCEPT ![i] = IF @ = "up" THEN "ending" ELSE @]
         /\ UNCHANGED <<task, program, trust>>
    ELSE /\ task' = [task EXCEPT ![i] = IF @ = "done" THEN @ ELSE "aborted"]
         /\ program' = [program EXCEPT ![i] = IF @ = "runs" THEN "dropped" ELSE @]
         /\ link' = [link EXCEPT ![i] = IF @ = "up" THEN "ending" ELSE @]
         /\ UNCHANGED trust

\* The close waits for `rest`: the first task gets its signal.
Closes(rest, taken) ==
    /\ left' = rest
    /\ IF rest = {}
       THEN close' = "closed" /\ UNCHANGED <<task, program, link, trust>>
       ELSE close' = "closing" /\ \E i \in rest : First(i, rest) /\ Signal(i, taken)

\* close, after the task of the session ended: it takes the tasks and the stops.
CloseStarts ==
    /\ close = "stopped" /\ turn = "idle"
    /\ stops' = {i \in Slots : slot[i].stop}
    /\ slot' = [i \in Slots |-> [slot[i] EXCEPT !.stop = FALSE]]
    /\ tasks' = {}
    /\ Closes(tasks, stops')
    /\ UNCHANGED <<count, turnVars>>

\* The first task ended: the next one is the first.
CloseGoesOn ==
    /\ close = "closing"
    /\ \E i \in left : First(i, left) /\ Ended(i) /\ Closes(left \ {i}, stops)
    /\ UNCHANGED <<slot, count, tasks, stops, turnVars>>
-----------------------------------------------------------------------------
\* The steps of the executor, of the library and of a killed program.
Task(i) ==
    \/ Spawned(i) \/ StartFailed(i) \/ WaitEnds(i) \/ Stopped(i) \/ LinkEnds(i)
    \/ CallFails(i) \/ CallCancelled(i)
CloseSteps == QuestionEnds \/ CloseStarts \/ CloseGoesOn
TurnSteps == Ready \/ ToolsCancelled

Next ==
    \/ \E answer \in {"yes", "no"} : Answered(answer)
    \/ StartTrusted
    \/ \E i \in Slots :
         \/ Task(i) \/ Agreed(i) \/ AgreeFails(i) \/ Exits(i)
         \/ Call(i) \/ CallAnswered(i)
    \/ TurnSteps \/ TurnStarts \/ CancelTurn \/ TurnEnds
    \/ Stop \/ CloseSteps

Spec == Init /\ [][Next]_vars

\* A program need not answer the agreement or a call, and a user need not
\* answer the question.  A cancelled turn without a call ends.
Fairness ==
    /\ WF_vars(StartTrusted) /\ WF_vars(TurnSteps) /\ WF_vars(CloseSteps)
    /\ WF_vars(cancel /\ TurnEnds)
    /\ \A c \in Configs : \A i \in Places(c) : WF_vars(i \in Slots /\ Task(i))
FairSpec == Spec /\ Fairness
-----------------------------------------------------------------------------
(***************************************************************************)
(* Properties                                                              *)
(***************************************************************************)

\* A turn takes the tools when no server starts any more: each is connected,
\* failed or disabled, or the user did not trust it (servers.rs:189, 114).
TakesAll ==
    [][turn = "waits" /\ turn' = "taken" =>
         /\ InState("connecting") = {}
         /\ InState("untrusted") # {} => trust = "done"]_vars

\* A close leaves no task of a server, and no program but those that the abort
\* of a task dropped (servers.rs:245).
CloseLeavesNoServer ==
    close = "closed" =>
        /\ Ended(Trust) \/ trust = "none"
        /\ \A i \in Slots : task[i] \in {"none", "done", "aborted"} /\ program[i] # "runs"

\* The wait for the servers ends when each start ends and the question has its
\* answer; each call ends when its turn is cancelled or its server stops; and
\* the close ends (servers.rs:188, 246, 452).
StartsEnd ==
    /\ []<>(trust # "asks")
    /\ \A c \in Configs : \A i \in Places(c) : []<>(i \notin Slots \/ task[i] # "agrees")
ServersEnd ==
    /\ StartsEnd => (turn = "waits" ~> turn # "waits")
    /\ \A c \in Configs : \A i \in Places(c) :
         i \in Slots /\ call[i] = "waits" /\ (cancel \/ link[i] = "down")
             ~> i \notin Slots \/ call[i] # "waits"
    /\ close = "stopped" ~> close = "closed"
=============================================================================
