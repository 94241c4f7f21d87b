----------------------------- MODULE Connection -----------------------------
(***************************************************************************)
(* The protocol server and its clients (yuke/rpc.rs): one client at a      *)
(* time, its reader in the loop of the server, its writer task behind a    *)
(* bounded queue, and the requests of the plugins that wait for the active *)
(* client (app/live.rs).                                                   *)
(*                                                                         *)
(* One thread runs the loop, the writers, the plugins and the waits of     *)
(* stop_job: a step is the code between two awaits.  The methods of the    *)
(* app, the plugins and the clients are external.                          *)
(***************************************************************************)
EXTENDS ConnectionBounds, Sequences, FiniteSets, SequencesExt

Clients == 1 .. MaxClients

VARIABLES
    load,           \* the bounds of this behaviour
    socket,         \* whether the clients come from a socket; else one client is there from the start
    server,         \* starts, selects, handles, shuts, drains or done
    current,        \* the client whose lines the server reads; 0 is none
    writer,         \* ActiveClient: the client that gets the messages; 0 is none
    pending,        \* ActiveClient: the ids of the requests that wait
    last_request,   \* ActiveClient: the id of the last request
    request,        \* each request of a plugin: its wait, id, client, whether the client read it, and the
                    \* answer in its channel
    stopJobs,       \* the StopJob lines that wait in the background
    open,           \* each client: new, open, closing or closed
    answers,        \* the answers to each request of each client that the server read
    lost,           \* the clients with a message that they do not get
    queue,          \* the queue of each writer, with the lines that it writes now
    task            \* each writer task: runs, ended, or cut (broken or aborted)

loop == <<load, socket, server, current>>
active == <<writer, pending, last_request, request>>
outputs == <<lost, queue, task>>
vars == <<loop, active, stopJobs, open, answers, outputs>>

NoRequest == [state |-> "none", id |-> 0, client |-> 0, read |-> FALSE, answer |-> "none"]
Waiting(id, client) ==
    [state |-> "waits", id |-> id, client |-> client, read |-> FALSE, answer |-> "none"]

\* serve: the one client connects before the start of the app.
Init ==
    /\ load \in Loads
    /\ socket \in BOOLEAN
    /\ server = "starts"
    /\ current = (IF socket THEN 0 ELSE 1) /\ writer = current
    /\ open = [c \in Clients |-> IF c = current THEN "open" ELSE "new"]
    /\ pending = {} /\ last_request = 0
    /\ request = [p \in Askers |-> NoRequest]
    /\ stopJobs = {} /\ lost = {}
    /\ answers = [c \in Clients |-> <<>>] /\ queue = answers
    /\ task = [c \in Clients |-> "runs"]
-----------------------------------------------------------------------------
\* Mutant: a full queue drops the message and keeps the connection.
Sends_Drops(c, message) ==
    LET queued == task[c] = "runs" /\ Len(queue[c]) < QueueLimit IN
    /\ queue' = IF queued THEN [queue EXCEPT ![c] = Append(@, message)] ELSE queue
    /\ lost' = IF queued THEN lost ELSE lost \cup {c}
    /\ UNCHANGED task

\* Writer::send.  A full queue aborts the task, and the queue goes with it.
Sends(c, message) ==
    LET queued == task[c] = "runs" /\ Len(queue[c]) < QueueLimit IN
    /\ queue' = [queue EXCEPT ![c] = IF queued THEN Append(@, message) ELSE <<>>]
    /\ lost' = IF queued THEN lost ELSE lost \cup {c}
    /\ task' = IF queued \/ task[c] # "runs" THEN task ELSE [task EXCEPT ![c] = "cut"]

\* An update, a notice or an answer.
Line == [kind |-> "line"]
Answers(c, line) ==
    /\ answers' = [answers EXCEPT ![c][line] = @ + 1]
    /\ Sends(c, Line)

\* ActiveClient::notify
Notify ==
    /\ server \notin {"drains", "done"} /\ writer # 0
    /\ Sends(writer, Line)
    /\ UNCHANGED <<loop, active, stopJobs, open, answers>>
-----------------------------------------------------------------------------
(***************************************************************************)
(* The requests of the plugins.                                            *)
(***************************************************************************)

\* Host::request, ActiveClient::request
Asks(p) ==
    /\ p \in load.askers /\ server \notin {"starts", "drains", "done"} /\ request[p].state = "none"
    /\ IF writer = 0
       THEN /\ request' = [request EXCEPT ![p].state = "no_client"]
            /\ UNCHANGED <<pending, last_request, outputs>>
       ELSE /\ last_request' = last_request + 1
            /\ pending' = pending \cup {last_request'}
            /\ request' = [request EXCEPT ![p] = Waiting(last_request', writer)]
            /\ Sends(writer, [kind |-> "request", of |-> p])
    /\ UNCHANGED <<loop, writer, stopJobs, open, answers>>

\* The wait ends: with the answer of the channel, or without its sender.
AskEnds(p) ==
    /\ request[p].state = "waits"
    /\ \/ /\ request[p].answer # "none"
          /\ request' = [request EXCEPT ![p].state = "answered"]
       \/ /\ request[p].answer = "none" /\ request[p].id \notin pending
          /\ request' = [request EXCEPT ![p].state = "disconnected"]
    /\ UNCHANGED <<loop, writer, pending, last_request, stopJobs, open, answers, outputs>>

\* The plugin stops waiting: PendingRequest::drop, ActiveClient::cancel_request.
Drops(p) ==
    /\ request[p].state = "waits"
    /\ request' = [request EXCEPT ![p].state = "dropped"]
    /\ pending' = pending \ {request[p].id}
    /\ IF request[p].id \in pending /\ writer # 0
       THEN Sends(writer, [kind |-> "cancel", of |-> p])
       ELSE UNCHANGED outputs
    /\ UNCHANGED <<loop, writer, last_request, stopJobs, open, answers>>
-----------------------------------------------------------------------------
(***************************************************************************)
(* The loop of the server.                                                 *)
(***************************************************************************)

\* Mutant: the requests of the old client go on to wait.
Detach_KeepsPending == writer' = 0 /\ UNCHANGED pending

\* ActiveClient::detach; the drop of a sender fails its request.
Detach == writer' = 0 /\ pending' = {}

\* Mutant: each client counts its requests anew.
Attach_NewIds(c) ==
    /\ writer' = c
    /\ pending' = IF current = 0 THEN pending ELSE {}
    /\ last_request' = 0 /\ UNCHANGED request

\* retire of the current client, then Connection::open.
Attach(c) ==
    /\ writer' = c
    /\ pending' = IF current = 0 THEN pending ELSE {}
    /\ UNCHANGED <<last_request, request>>

\* App::start
Started ==
    /\ server = "starts"
    /\ \/ server' = "selects" /\ UNCHANGED <<current, writer, pending, open>>
       \/ /\ server' = IF current = 0 THEN "done" ELSE "drains"
          /\ Detach
          /\ open' = [c \in Clients |-> IF c = current THEN "closing" ELSE open[c]]
          /\ UNCHANGED current
    /\ UNCHANGED <<load, socket, last_request, request, stopJobs, answers, outputs>>

Accept(c) ==
    /\ server = "selects" /\ socket
    /\ open[c] = "new" /\ \A b \in 1 .. c - 1 : open[b] # "new"
    /\ Attach(c)
    /\ current' = c
    /\ open' = [b \in Clients |-> IF b = c THEN "open" ELSE IF b = current THEN "closing" ELSE open[b]]
    /\ UNCHANGED <<load, socket, server, stopJobs, answers, outputs>>

\* next_line gave no line: the client left, or its writer ended.
NoLine ==
    /\ server = "selects" /\ current # 0
    /\ IF socket
       THEN /\ Detach
            /\ current' = 0
            /\ open' = [open EXCEPT ![current] = "closing"]
            /\ UNCHANGED server
       ELSE server' = "shuts" /\ UNCHANGED <<writer, pending, current, open>>
    /\ UNCHANGED <<load, socket, last_request, request, stopJobs, answers, outputs>>

\* ActiveClient::answer
Respond(question) ==
    /\ pending' = pending \ {question.id}
    /\ request' = [p \in Askers |-> IF request[p].id = question.id /\ question.id \in pending
                                    THEN [request[p] EXCEPT !.answer = question.of] ELSE request[p]]
    /\ UNCHANGED <<writer, last_request>>

\* A line of the client is a request or an answer of one of its requests; a
\* frontend that connects again can answer what an earlier connection got.
AnswerLine ==
    /\ server = "selects" /\ current # 0
    /\ \E p \in Askers : request[p].read /\ Respond([id |-> request[p].id, of |-> p])
    /\ UNCHANGED <<loop, stopJobs, open, answers, outputs>>

\* next_line gave a request: handle up to its first await.  A request that does
\* not read, or that comes before initialize, is refused at once.
RequestLine(call) ==
    LET line == Len(answers[current]) + 1 IN
    /\ server = "selects" /\ current # 0 /\ line <= load.asked
    /\ answers' = [answers EXCEPT ![current] = Append(@, IF call = "refused" THEN 1 ELSE 0)]
    /\ server' = IF call = "method" THEN "handles" ELSE server
    /\ stopJobs' = IF call = "stop_job" THEN stopJobs \cup {[client |-> current, line |-> line]} ELSE stopJobs
    /\ IF call = "refused" THEN Sends(current, Line) ELSE UNCHANGED outputs
    /\ UNCHANGED <<load, socket, current, active, open>>

\* The method of the app ended.
Handled ==
    /\ server = "handles"
    /\ server' = "selects"
    /\ Answers(current, Len(answers[current]))
    /\ UNCHANGED <<load, socket, current, active, stopJobs, open>>

\* The wait of a StopJob ended: the answer goes to the writer of its client.
JobStopped(job) ==
    /\ job \in stopJobs /\ server # "done"
    /\ stopJobs' = stopJobs \ {job}
    /\ Answers(job.client, job.line)
    /\ UNCHANGED <<loop, active, open>>

\* The loop ended by the signal.
Shutdown ==
    /\ server = "selects"
    /\ server' = "shuts"
    /\ UNCHANGED <<load, socket, current, active, stopJobs, open, answers, outputs>>

\* App::shutdown ended: it closed the sessions, so no plugin waits.
AppEnded ==
    /\ server = "shuts" /\ \A p \in Askers : request[p].state # "waits"
    /\ server' = IF current = 0 THEN "done" ELSE "drains"
    /\ Detach
    /\ open' = [c \in Clients |-> IF c = current THEN "closing" ELSE open[c]]
    /\ UNCHANGED <<load, socket, current, last_request, request, stopJobs, answers, outputs>>

\* The close of the last connection ended.
Drained ==
    /\ server = "drains" /\ open[current] = "closed"
    /\ server' = "done"
    /\ UNCHANGED <<load, socket, current, active, stopJobs, open, answers, outputs>>
-----------------------------------------------------------------------------
(***************************************************************************)
(* The writer task and the close of a connection.                          *)
(***************************************************************************)
\* The end of the server ends the process.
Live(c) == open[c] \in {"open", "closing"} /\ server # "done"
Closing(c) == open[c] = "closing" /\ server # "done"

\* The client gets lines of the batch that the task writes.
Writes(c) ==
    /\ Live(c) /\ queue[c] # <<>>
    /\ \E n \in DOMAIN queue[c] :
         /\ queue' = [queue EXCEPT ![c] = SubSeq(@, n + 1, Len(@))]
         /\ request' = [p \in Askers |-> IF [kind |-> "request", of |-> p] \in ToSet(SubSeq(queue[c], 1, n))
                                         THEN [request[p] EXCEPT !.read = TRUE] ELSE request[p]]
    /\ UNCHANGED <<loop, writer, pending, last_request, stopJobs, open, answers, lost, task>>

\* No sender lives and the queue is empty.
WriterEnds(c) ==
    /\ task[c] = "runs" /\ Closing(c) /\ writer # c
    /\ \A job \in stopJobs : job.client # c
    /\ queue[c] = <<>>
    /\ task' = [task EXCEPT ![c] = "ended"]
    /\ UNCHANGED <<loop, active, stopJobs, open, answers, lost, queue>>

\* The output broke, or the drain limit of the close passed.
Cut(c) ==
    /\ task' = [task EXCEPT ![c] = "cut"]
    /\ lost' = IF queue[c] = <<>> THEN lost ELSE lost \cup {c}
    /\ queue' = [queue EXCEPT ![c] = <<>>]
    /\ UNCHANGED <<loop, active, stopJobs, open, answers>>
OutputBreaks(c) == Live(c) /\ task[c] = "runs" /\ queue[c] # <<>> /\ Cut(c)
DrainLimit(c) == Closing(c) /\ task[c] = "runs" /\ Cut(c)

\* Connection::close ended; its history ends with it.
Closes(c) ==
    /\ Closing(c) /\ task[c] # "runs"
    /\ open' = [open EXCEPT ![c] = "closed"]
    /\ stopJobs' = {job \in stopJobs : job.client # c}
    /\ answers' = [answers EXCEPT ![c] = <<>>]
    /\ lost' = lost \ {c}
    /\ UNCHANGED <<loop, active, queue, task>>
-----------------------------------------------------------------------------
Writing(c) == WriterEnds(c) \/ DrainLimit(c) \/ Closes(c)
Serving == Handled \/ Started \/ AppEnded \/ Drained

Next ==
    \/ Serving \/ Shutdown \/ NoLine \/ Notify \/ AnswerLine
    \/ \E call \in {"refused", "method", "stop_job"} : RequestLine(call)
    \/ \E p \in Askers : Asks(p) \/ AskEnds(p) \/ Drops(p)
    \/ \E job \in stopJobs : JobStopped(job)
    \/ \E c \in Clients :
         Accept(c) \/ Writing(c) \/ Writes(c) \/ OutputBreaks(c)

Spec == Init /\ [][Next]_vars

\* The methods of the app end, the close of the sessions drops the waits of their
\* plugins, and a client need not read.  The loop polls its waits in a random
\* order, so it takes the end of a writer that stays.
Fairness ==
    /\ WF_vars(Serving) /\ SF_vars(current # 0 /\ task[current] # "runs" /\ NoLine)
    /\ \A p \in Askers : WF_vars(AskEnds(p)) /\ WF_vars(server = "shuts" /\ Drops(p))
    /\ \A c \in Clients : WF_vars(Writing(c))
FairSpec == Spec /\ Fairness
-----------------------------------------------------------------------------
(***************************************************************************)
(* Properties                                                              *)
(***************************************************************************)

\* A request of a plugin gets the answer to itself, also when a frontend answers
\* late, twice, or over the next connection.  The requests that wait are those of
\* the active client, the client that the loop reads is the active one, and each
\* wait has its sender, its answer or its end before it (rpc.rs:193, 550, 560, 567).
RequestsTrue ==
    /\ \A p \in Askers : request[p].answer \in {"none", p}
    /\ server \in {"starts", "selects", "handles", "shuts"} => writer = current
    /\ pending = {request[p].id : p \in {q \in Askers :
                    request[q].state = "waits" /\ request[q].answer = "none" /\ request[q].client = writer}}

\* A client gets no message after one that it lost, and all its messages when
\* its writer was not cut; each cancel names a request of the same client; and
\* each request that the server read has one answer, unless its method runs
\* (rpc.rs:36, 345, 618, 691).
Runs(c, line) ==
    \/ server = "handles" /\ c = current /\ line = Len(answers[c])
    \/ [client |-> c, line |-> line] \in stopJobs
NothingLost == \A c \in Clients :
    /\ c \in lost \/ task[c] = "ended" => queue[c] = <<>>
    /\ task[c] = "ended" => c \notin lost
    /\ \A m \in ToSet(queue[c]) : m.kind = "cancel" => request[m.of].client = c
    /\ \A line \in DOMAIN answers[c] : answers[c][line] = IF Runs(c, line) THEN 0 ELSE 1

\* A request ends when its client is gone, a connection that left closes, also
\* when its client does not read, a client that fell behind loses its
\* connection, and a shutdown ends (rpc.rs:36, 144, 513, 559).
ConnectionsEnd ==
    /\ \A p \in Askers : request[p].state = "waits" /\ request[p].client # writer
                           ~> request[p].state # "waits"
    /\ \A c \in Clients : open[c] = "closing" ~> open[c] = "closed" \/ server = "done"
    /\ \A c \in Clients : c = current /\ c \in lost ~> open[c] # "open"
    /\ server = "shuts" ~> server = "done"
=============================================================================
