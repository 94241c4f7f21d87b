------------------------------- MODULE Output -------------------------------
(***************************************************************************)
(* The updates of one open session on their way to its listeners: Output   *)
(* and Host of yuke/src/app/live.rs, the loads and the views that read a   *)
(* snapshot beside them, and what the listeners keep of it (the Transcript *)
(* of js/modules/runtime/transcript.ts for a view, the rules of            *)
(* protocol/README.md for the client of the protocol).                     *)
(*                                                                         *)
(* The store serves the operations in the order of their calls, on a       *)
(* thread of its own, and the tasks go on in the order of their answers.   *)
(* Only the request of the client runs beside the queue of the tasks: its  *)
(* future is the root of the runtime, so its answer can come first.        *)
(***************************************************************************)
EXTENDS Naturals, Sequences, FiniteSets, SequencesExt, FiniteSetsExt

CONSTANTS
    Observer,   \* the listener of the client of the protocol
    Views,      \* the private views of the plugins
    Questions,  \* the questions to the user
    PageSize,   \* the number of events that a view reads at its start
    MaxEvents,  \* bound: the saved events of the session
    Workloads   \* bound: the calls, their callers, and the numbers of inputs, of turns, questions,
                \* loads and views together, and of failed writes

VARIABLES
    events,     \* the saved events, by number
    pending,    \* the saved inputs that wait
    queue,      \* the operations that wait for the store
    answers,    \* the answers of the store that no caller saw yet, in order
    stale,      \* a write of the session failed
    settings,   \* the settings of the host: the number of their event
    running,    \* a turn runs
    taken,      \* the inputs that the turn took and no commit of it consumes yet
    gone,       \* the inputs that a published update named as consumed or removed
    questions,  \* the open questions
    ended,      \* the views of the session have ended
    mode,       \* each listener: off, waiting for its snapshot, or on
    kept,       \* the updates that wait for the snapshot of each listener
    client,     \* what each listener shows
    accepted,   \* the number of the inputs so far
    starts,     \* the number of the turns, questions, loads and views so far
    faults,     \* the number of the failed writes so far
    workload    \* the workload of this behaviour

storeVars == <<events, pending, stale, settings>>
sentVars == <<running, taken, gone, questions, ended>>
listenVars == <<mode, kept, client>>
boundVars == <<accepted, starts, faults, workload>>
vars == <<storeVars, queue, answers, sentVars, listenVars, boundVars>>

Listeners == Views \cup {Observer}

Event(kind, consumed) == [settings |-> kind = "settings", consumed |-> consumed]
Consumed(numbers) == UNION {events[n].consumed : n \in numbers}

\* What a listener shows before its snapshot, with the events up to `last`.
Empty(last, set) ==
    [saved |-> 1 .. last, pending |-> {}, questions |-> {}, running |-> FALSE, settings |-> set,
     shown |-> FALSE, repeated |-> FALSE]

\* The creation saved the settings as the first event, and its client knows them.
Init ==
    /\ workload \in Workloads
    /\ events = <<Event("settings", {})>> /\ pending = {}
    /\ queue = <<>> /\ answers = <<>>
    /\ stale = FALSE /\ settings = 1 /\ running = FALSE /\ taken = {}
    /\ gone = {} /\ questions = {} /\ ended = FALSE
    /\ mode = [l \in Listeners |-> IF l = Observer THEN "on" ELSE "off"]
    /\ kept = [l \in Listeners |-> <<>>]
    /\ client = [l \in Listeners |-> [Empty(1, 1) EXCEPT !.shown = l = Observer]]
    /\ accepted = 0 /\ starts = 0 /\ faults = 0
-----------------------------------------------------------------------------
(***************************************************************************)
(* The store.                                                              *)
(***************************************************************************)

Calls(kind) == kind \in workload.calls

\* The bound of the calls that a session takes without an end.
Start(kind) ==
    /\ Calls(kind) /\ starts < workload.starts
    /\ starts' = starts + 1
    /\ UNCHANGED <<accepted, faults, workload>>
InFlight == Range(queue) \cup {a[1] : a \in Range(answers)}
Kinds == {op[1] : op \in InFlight}
Send(op) == queue' = Append(queue, op)
Served(op, result) ==
    /\ queue' = Tail(queue)
    /\ answers' = Append(answers, <<op, result>>)
Save(event) == events' = Append(events, event)
Newest == Len(events)

\* accept_input
ServeAccept(op) ==
    /\ op[1] = "accept"
    /\ pending' = pending \cup {op[2]}
    /\ Served(op, TRUE)
    /\ UNCHANGED <<events, faults>>

\* remove_input: InputNotPending for an input that left.
ServeRemove(op) ==
    /\ op[1] = "remove"
    /\ pending' = pending \ {op[2]}
    /\ Served(op, op[2] \in pending)
    /\ UNCHANGED <<events, faults>>

\* commit and set_settings, in one transaction: the number of the event, or 0
\* for an input that is not pending.
ServeWrite(op) ==
    /\ op[1] \in {"commit", "settings"}
    /\ IF op[2] \subseteq pending
       THEN /\ Save(Event(op[1], op[2]))
            /\ pending' = pending \ op[2]
            /\ Served(op, Newest + 1)
       ELSE /\ Served(op, 0)
            /\ UNCHANGED <<events, pending>>
    /\ UNCHANGED faults

\* A write fails, and it is uncertain whether the store saved it.
WriteFails(op) ==
    /\ op[1] \in {"commit", "settings"} /\ op[2] \subseteq pending
    /\ faults < workload.faults
    /\ faults' = faults + 1
    /\ \/ Save(Event(op[1], op[2])) /\ pending' = pending \ op[2]
       \/ UNCHANGED <<events, pending>>
    /\ Served(op, 0)

\* Session::recover: the store opens the session again, and ends a turn that it
\* holds as open.
ServeRecover(op) ==
    /\ op[1] = "recover"
    /\ \/ Save(Event("commit", {})) /\ Served(op, Newest + 1)
       \/ Served(op, 0) /\ UNCHANGED events
    /\ UNCHANGED <<pending, faults>>

\* load: the events of the page and the pending inputs of one moment.
ServeRead(op) ==
    /\ op[1] = "read"
    /\ LET from == IF op[2] = Observer THEN op[3] + 1
                   ELSE IF Newest > PageSize THEN Newest - PageSize + 1 ELSE 1
       IN Served(op, [page |-> from .. Newest, pending |-> pending])
    /\ UNCHANGED <<events, pending, faults>>

\* pending: the turn takes the inputs that wait.
ServeTake(op) ==
    /\ op[1] = "take"
    /\ Served(op, pending)
    /\ UNCHANGED <<events, pending, faults>>

\* The page of a gap.
ServePage(op) ==
    /\ op[1] = "page"
    /\ Served(op, op[3])
    /\ UNCHANGED <<events, pending, faults>>

Serve ==
    /\ queue # <<>>
    /\ LET op == Head(queue)
       IN \/ ServeAccept(op) \/ ServeRemove(op) \/ ServeWrite(op) \/ WriteFails(op)
          \/ ServeRecover(op) \/ ServeRead(op) \/ ServeTake(op) \/ ServePage(op)
    /\ UNCHANGED <<stale, settings, sentVars, listenVars, accepted, starts, workload>>
-----------------------------------------------------------------------------
(***************************************************************************)
(* The listeners.                                                          *)
(***************************************************************************)

\* The client of the protocol drops an event that it has; a transcript takes
\* its live events in order, and drops one up to its last.
Has(l, saved, n) == IF l = Observer THEN n \in saved ELSE \E m \in saved : n <= m

\* The newest of the new settings, with the rules of each listener.
Newer(l, set, numbers) ==
    LET new == {n \in numbers : events[n].settings /\ (l = Observer => n > set)}
    IN IF new = {} THEN set ELSE Max(new)

\* A map or a set after its changes: the pairs of a place and of what comes or
\* goes there.
Left(base, comes, goes) ==
    {x \in base : \A p \in goes : p[2] # x}
    \cup {p[2] : p \in {p \in comes : \A q \in goes : q[2] = p[2] => q[1] < p[1]}}

\* What a listener shows after the updates at some places of a sequence, in
\* their order.
Of(updates, places, kind) == {k \in places : updates[k][1] = kind}
Pairs(updates, places, kind) == {<<k, updates[k][2]>> : k \in Of(updates, places, kind)}
New(l, saved, updates, places) ==
    LET before(k) == {updates[j][2] : j \in {j \in Of(updates, places, "saved") : j < k}}
    IN {k \in Of(updates, places, "saved") : ~Has(l, saved \cup before(k), updates[k][2])}
Numbers(updates, new) == {updates[k][2] : k \in new}
Leaving(updates, places, new) ==
    Pairs(updates, places, "removed")
    \cup UNION {{<<k, i>> : i \in events[updates[k][2]].consumed} : k \in new}
ShowAll(l, c, updates, places) ==
    LET new == New(l, c.saved, updates, places)
        state == Of(updates, places, "state")
    IN [c EXCEPT
            !.saved = @ \cup Numbers(updates, new),
            !.settings = Newer(l, @, Numbers(updates, new)),
            !.pending = Left(@, Pairs(updates, places, "accepted"), Leaving(updates, places, new)),
            !.running = IF state = {} THEN @ ELSE updates[Max(state)][2],
            !.questions = Left(@, Pairs(updates, places, "asked"), Pairs(updates, places, "closed")),
            !.repeated = @ \/ new # Of(updates, places, "saved")]
Show(l, c, u) == ShowAll(l, c, <<u>>, {1})

\* Mutant: each input is accepted.
AdmitsAll(u) == TRUE

\* Sent::admit: an input that left is not accepted again.
Admits(u) == ~(u[1] = "accepted" /\ u[2] \in gone)
Leaves(u) ==
    CASE u[1] = "saved" -> Consumed({u[2]})
      [] u[1] = "removed" -> {u[2]}
      [] OTHER -> {}

\* Mutant: a listener loses the updates of the read.
PublishLoses(u) ==
    IF Admits(u)
    THEN /\ gone' = gone \cup Leaves(u)
         /\ client' = [l \in Listeners |-> IF mode[l] = "on" THEN Show(l, client[l], u) ELSE client[l]]
         /\ UNCHANGED <<mode, kept>>
    ELSE UNCHANGED <<gone, listenVars>>

\* publish: a listener without a snapshot keeps the update.
Publish(u) ==
    IF Admits(u)
    THEN /\ gone' = gone \cup Leaves(u)
         /\ kept' = [l \in Listeners |-> IF mode[l] = "waiting" THEN Append(kept[l], u) ELSE kept[l]]
         /\ client' = [l \in Listeners |-> IF mode[l] = "on" THEN Show(l, client[l], u) ELSE client[l]]
         /\ UNCHANGED mode
    ELSE UNCHANGED <<gone, listenVars>>

\* Sent::snapshot: the events and the pending inputs of the read, and the
\* state and the questions of this moment.
Snapshot(l, c, loaded) ==
    LET new == {n \in loaded.page : ~Has(l, c.saved, n)}
    IN [c EXCEPT !.saved = @ \cup new,
                 !.settings = Newer(l, @, new),
                 !.pending = (@ \ Consumed(new)) \cup loaded.pending,
                 !.questions = @ \cup questions,
                 !.running = running, !.shown = TRUE, !.repeated = FALSE]

\* after: the places of the kept updates that add to the snapshot.
Adds(loaded, u) ==
    /\ u[1] = "saved" => \A n \in loaded.page : n < u[2]
    /\ u[1] = "accepted" => u[2] \notin loaded.pending \cup Consumed(loaded.page)
After(loaded, updates) == {k \in DOMAIN updates : Adds(loaded, updates[k])}
-----------------------------------------------------------------------------
(***************************************************************************)
(* The calls.                                                              *)
(***************************************************************************)

\* A call of the client waits for its answer before the next one.
May(caller) ==
    /\ caller \in workload.callers
    /\ caller = "client" => \A op \in InFlight : op[4] # "client"

\* Host::accept: the input is saved first.
Input(caller) ==
    /\ Calls("input") /\ May(caller) /\ accepted < workload.inputs
    /\ accepted' = accepted + 1
    /\ Send(<<"accept", accepted + 1, 0, caller>>)
    /\ UNCHANGED <<storeVars, answers, sentVars, listenVars, starts, faults, workload>>

\* LiveSession::remove_input of an input that the caller knows.
RemoveInput(caller) ==
    /\ Calls("remove") /\ May(caller)
    /\ \E l \in Listeners : \E i \in client[l].pending :
        /\ \A op \in InFlight : op[1] = "remove" => op[2] # i
        /\ Send(<<"remove", i, 0, caller>>)
    /\ UNCHANGED <<storeVars, answers, sentVars, listenVars, boundVars>>

\* The holder of the session lock reads and writes one after the other.
Free == Kinds \cap {"take", "commit", "settings", "recover"} = {}

\* TurnInputs::take reads the inputs that wait.
Take ==
    /\ running /\ Free /\ ~stale /\ taken = {}
    /\ Send(<<"take", 0, 0, "task">>)
    /\ UNCHANGED <<storeVars, answers, sentVars, listenVars, boundVars>>

\* The next commit of the turn consumes the inputs that it took.
Commit ==
    /\ running /\ Free /\ ~stale /\ Newest < MaxEvents
    /\ Send(<<"commit", taken, 0, "task">>)
    /\ taken' = {}
    /\ UNCHANGED <<storeVars, answers, running, gone, questions, ended, listenVars, boundVars>>

\* set_settings: no turn runs.  It read before that no input waits, and one can
\* come since.
SetSettings(caller) ==
    /\ Calls("settings") /\ May(caller) /\ ~running /\ Free /\ ~stale /\ Newest < MaxEvents
    /\ Send(<<"settings", {}, 0, caller>>)
    /\ UNCHANGED <<storeVars, answers, sentVars, listenVars, boundVars>>

\* The next turn or change of the settings opens a stale session again.
Recover ==
    /\ stale /\ ~running /\ Free /\ Newest < MaxEvents
    /\ Send(<<"recover", 0, 0, "task">>)
    /\ UNCHANGED <<storeVars, answers, sentVars, listenVars, boundVars>>

\* start_turn and finish_turn.  The host takes the settings of the session at the
\* start of a turn.
SetState(state) ==
    /\ running' = state
    /\ taken' = {}
    /\ Publish(<<"state", state>>)
    /\ UNCHANGED <<events, pending, stale, queue, answers, questions, ended>>
StartTurn ==
    /\ Start("turn") /\ ~ended /\ ~running /\ Free /\ ~stale
    /\ settings' = Newer(Observer, settings, 1 .. Newest)
    /\ SetState(TRUE)
FinishTurn == running /\ Free /\ SetState(FALSE) /\ UNCHANGED <<settings, boundVars>>

\* ask, and its end by an answer or a cancel.
Ask(q) ==
    /\ Start("ask") /\ q \notin questions
    /\ questions' = questions \cup {q}
    /\ Publish(<<"asked", q>>)
    /\ UNCHANGED <<storeVars, queue, answers, running, taken, ended>>
CloseQuestion(q) ==
    /\ q \in questions
    /\ questions' = questions \ {q}
    /\ Publish(<<"closed", q>>)
    /\ UNCHANGED <<storeVars, queue, answers, running, taken, ended, boundVars>>

\* Hold::start: a load after the event `last`.  A client that was away starts
\* from the events that it keeps.
Load(last) ==
    /\ Start("load") /\ May("client") /\ mode[Observer] = "on"
    /\ 1 .. last \subseteq client[Observer].saved
    /\ mode' = [mode EXCEPT ![Observer] = "waiting"]
    /\ Send(<<"read", Observer, last, "client">>)
    /\ \/ UNCHANGED client
       \/ LET known == {n \in 1 .. last : events[n].settings}
          IN client' = [client EXCEPT ![Observer] = Empty(last, IF known = {} THEN 0 ELSE Max(known))]
    /\ UNCHANGED <<storeVars, answers, sentVars, kept>>

\* watch: a view starts, with the settings of the host now.
View(v) ==
    /\ Start("view") /\ mode[v] = "off" /\ ~ended
    /\ \A op \in InFlight : op[2] # v
    /\ mode' = [mode EXCEPT ![v] = "waiting"]
    /\ Send(<<"read", v, settings, "task">>)
    /\ UNCHANGED <<storeVars, answers, sentVars, kept, client>>

\* The view drops, or the close of the session ends it.
Leave(v) == mode[v] # "off" /\ mode' = [mode EXCEPT ![v] = "off"]
ForgetOff ==
    /\ kept' = [l \in Listeners |-> IF mode'[l] = "off" THEN <<>> ELSE kept[l]]
    /\ client' = [l \in Listeners |-> IF mode'[l] = "off" THEN Empty(1, 1) ELSE client[l]]
DropView(v) ==
    /\ Leave(v)
    /\ ForgetOff
    /\ UNCHANGED <<storeVars, queue, answers, sentVars, boundVars>>
EndViews ==
    /\ Calls("close") /\ ~ended /\ ~running
    /\ ended' = TRUE
    /\ mode' = [l \in Listeners |-> IF l = Observer THEN mode[l] ELSE "off"]
    /\ ForgetOff
    /\ UNCHANGED <<storeVars, queue, answers, running, taken, gone, questions, boundVars>>

\* A gap between the events of a transcript: the events below one and above
\* the one before it.
Gap(c) == {n \in 1 .. Newest \ c.saved : \E a, b \in c.saved : a < n /\ n < b}

\* loadOlderHistory: a view with a gap reads its page.
LoadGap(v) ==
    /\ mode[v] = "on" /\ Gap(client[v]) # {}
    /\ \A op \in InFlight : op[1] = "page" => op[2] # v
    /\ Send(<<"page", v, Gap(client[v]), "task">>)
    /\ UNCHANGED <<storeVars, answers, sentVars, listenVars, boundVars>>
-----------------------------------------------------------------------------
(***************************************************************************)
(* The answers of the store.                                               *)
(***************************************************************************)

\* The acceptance or the removal of an input.
InputAnswered(op, result) ==
    /\ op[1] \in {"accept", "remove"}
    /\ IF result THEN Publish(<<IF op[1] = "accept" THEN "accepted" ELSE "removed", op[2]>>)
       ELSE UNCHANGED <<gone, listenVars>>
    /\ UNCHANGED <<stale, settings, taken>>

\* The inputs of the turn.
TakeAnswered(op, inputs) ==
    /\ op[1] = "take"
    /\ taken' = inputs
    /\ UNCHANGED <<stale, settings, gone, listenVars>>

\* A write: the saved event, or a stale session.
WriteAnswered(op, n) ==
    /\ op[1] \in {"commit", "settings"}
    /\ stale' = (n = 0)
    /\ settings' = IF op[1] = "settings" /\ n > 0 THEN n ELSE settings
    /\ IF n > 0 THEN Publish(<<"saved", n>>) ELSE UNCHANGED <<gone, listenVars>>
    /\ UNCHANGED taken

\* The end of an open turn, which no observer saw.
RecoverAnswered(op, n) ==
    /\ op[1] = "recover"
    /\ stale' = FALSE
    /\ IF n > 0 THEN Publish(<<"saved", n>>) ELSE UNCHANGED <<gone, listenVars>>
    /\ UNCHANGED <<settings, taken>>

\* show: the snapshot, then the kept updates that add to it.  Nobody waits for
\* the snapshot of a view that ended.
ReadAnswered(op, loaded) ==
    /\ op[1] = "read"
    /\ LET l == op[2]
           start == IF l = Observer THEN client[l] ELSE [Empty(0, op[3]) EXCEPT !.saved = {}]
       IN IF mode[l] = "waiting"
          THEN /\ client' = [client EXCEPT ![l] =
                                ShowAll(l, Snapshot(l, start, loaded), kept[l], After(loaded, kept[l]))]
               /\ kept' = [kept EXCEPT ![l] = <<>>]
               /\ mode' = [mode EXCEPT ![l] = "on"]
          ELSE UNCHANGED listenVars
    /\ UNCHANGED <<stale, settings, taken, gone>>

\* A read fails: the load sends what it kept, and the view drops.
ReadFails(op) ==
    /\ op[1] = "read"
    /\ LET l == op[2]
       IN IF mode[l] = "waiting"
          THEN /\ client' = [client EXCEPT ![l] =
                                IF l = Observer THEN ShowAll(l, @, kept[l], DOMAIN kept[l]) ELSE Empty(1, 1)]
               /\ kept' = [kept EXCEPT ![l] = <<>>]
               /\ mode' = [mode EXCEPT ![l] = IF l = Observer THEN "on" ELSE "off"]
          ELSE UNCHANGED listenVars
    /\ UNCHANGED <<stale, settings, taken, gone>>

\* Transcript::insert, unless the view ended.
PageAnswered(op, page) ==
    /\ op[1] = "page"
    /\ LET v == op[2]
       IN client' = [client EXCEPT ![v] =
                        IF mode[v] = "on"
                        THEN [client[v] EXCEPT !.saved = @ \cup page,
                                               !.pending = @ \ Consumed(page \ client[v].saved)]
                        ELSE client[v]]
    /\ UNCHANGED <<stale, settings, taken, gone, mode, kept>>

GoOn ==
    /\ \E k \in DOMAIN answers :
        LET a == answers[k]
        IN /\ k = 1 \/ a[1][4] = "client"
           /\ answers' = RemoveAt(answers, k)
           /\ \/ InputAnswered(a[1], a[2]) \/ TakeAnswered(a[1], a[2])
              \/ WriteAnswered(a[1], a[2]) \/ RecoverAnswered(a[1], a[2])
              \/ ReadAnswered(a[1], a[2]) \/ ReadFails(a[1]) \/ PageAnswered(a[1], a[2])
    /\ UNCHANGED <<events, pending, queue, running, questions, ended, boundVars>>
-----------------------------------------------------------------------------
Next ==
    \/ Serve \/ GoOn
    \/ \E caller \in {"client", "task"} : Input(caller) \/ RemoveInput(caller) \/ SetSettings(caller)
    \/ Take \/ Commit \/ Recover \/ StartTurn \/ FinishTurn
    \/ \E q \in Questions : Ask(q) \/ CloseQuestion(q)
    \/ \E last \in 0 .. Newest : Load(last)
    \/ \E v \in Views : View(v) \/ DropView(v) \/ LoadGap(v)
    \/ EndViews

Spec == Init /\ [][Next]_vars
-----------------------------------------------------------------------------
(***************************************************************************)
(* Properties                                                              *)
(***************************************************************************)

Shows(l) == mode[l] = "on" /\ client[l].shown

\* A listener has each event from its first one on, up to the newest one that
\* an answered write did not publish yet; and a view gets each at most once: none
\* of its snapshot follows it again (live.rs:217, 458).
Unpublished == {a[2] : a \in {b \in Range(answers) : b[1][1] \in {"commit", "settings", "recover"}}}
EventsTold ==
    /\ \A l \in Listeners :
         Shows(l) /\ faults = 0 =>
            \A first \in client[l].saved : first .. Newest \ Unpublished \subseteq client[l].saved
    /\ \A v \in Views : ~client[v].repeated

\* Each listener has its events, and one that has the newest ones, beside an answer about an input that
\* no caller saw yet, shows the inputs that wait: none that left, and each of
\* them.  It shows the newest settings of its events, and the state and the open
\* questions of this moment (live.rs:235, 356, 394, 459).
InputUnseen == \E a \in Range(answers) : a[1][1] \in {"accept", "remove"}
Complete(l) == Shows(l) /\ Newest \in client[l].saved /\ Gap(client[l]) = {}
ListenersTrue ==
    /\ EventsTold
    /\ \A l \in Listeners :
         /\ Complete(l) /\ ~InputUnseen => client[l].pending = pending
         /\ Shows(l) => client[l].running = running /\ client[l].questions = questions
         /\ Complete(l) /\ faults = 0 =>
              ~\E n \in 1 .. Newest : events[n].settings /\ n > client[l].settings
=============================================================================
