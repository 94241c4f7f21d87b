-------------------------------- MODULE Facts --------------------------------
(***************************************************************************)
(* The facts of the open sessions for the listeners of the plugins: the    *)
(* watch of the app (yuke/src/app/facts.rs), the queue of the engine       *)
(* (js/src/native/delivery.rs), and the listeners of `ctx.on`              *)
(* (js/modules/internal/facts.ts).                                         *)
(*                                                                         *)
(* The app and the engine share one thread: the script runs to its end     *)
(* before the app goes on.  A callback of a listener can add and remove    *)
(* listeners, so `frames` is the stack of the loops that call them.  The   *)
(* ids of the listeners count in the order of their addition.              *)
(*                                                                         *)
(* One runtime has at most one watch, and it has the key of the script.    *)
(* Notices and the events of the runtime itself have no state and are left *)
(* out, and so are the updates that change neither the state nor a         *)
(* question.                                                               *)
(***************************************************************************)
EXTENDS Naturals, Sequences, FiniteSets

CONSTANTS
    Sessions,
    Events,     \* bound: the events of the listeners
    MaxAdds,    \* bound: the most listeners, one after another
    MaxDepth,   \* bound: the frames of the script
    Workloads   \* bound: the sessions, their changes, and the listeners

VARIABLES
    slot,       \* the slot of each session
    live,       \* the state and the open question of each session: Sent::running, Sent::questions
    ended,      \* the sessions whose views ended: Sent::ended
    known,      \* Watcher::known
    queue,      \* the facts that wait in the engine, with the key of their watch
    key,        \* the key of the watch now, or 0
    lastKey,
    listeners,  \* the listeners, each with its number and its event
    open,       \* the open sessions as the script knows them
    frames,     \* the running loops and callbacks, innermost last
    heard,      \* history: the open sessions that each listener heard of
    twice,      \* history: a listener heard of one open twice
    adds,       \* the listeners so far
    facts,      \* the changes so far
    workload    \* the workload of this behaviour

host == <<slot, live, ended>>
script == <<key, lastKey, listeners, open, frames, heard, twice, adds>>
bounds == <<facts, workload>>
vars == <<host, known, queue, script, bounds>>

Idle == [running |-> FALSE, asks |-> FALSE]
NoOpen == [s \in {} |-> Idle]
Fact(watch, event, s, data) == [key |-> watch, event |-> event, session |-> s, data |-> data]

Init ==
    /\ slot = [s \in Sessions |-> "none"] /\ live = [s \in Sessions |-> Idle] /\ ended = {}
    /\ known = {} /\ queue = <<>>
    /\ key = 0 /\ lastKey = 0 /\ listeners = {} /\ open = NoOpen /\ frames = <<>>
    /\ heard = [l \in 1 .. MaxAdds |-> {}] /\ twice = FALSE
    /\ adds = 0 /\ facts = 0 /\ workload \in Workloads
-----------------------------------------------------------------------------
(***************************************************************************)
(* The app                                                                 *)
(***************************************************************************)
HostSteps == frames = <<>> /\ UNCHANGED <<script, workload>>
Changes == facts < workload.facts /\ facts' = facts + 1

\* Output::announce, for the watch of the script: a session whose views ended is not announced.
Announced == {s \in Sessions : slot[s] = "open" /\ s \notin ended}

\* Transition::open.  Its task can run a turn already.
Opens(s) ==
    /\ slot[s] = "none" /\ s \in workload.sessions
    /\ Changes
    /\ slot' = [slot EXCEPT ![s] = "open"] /\ ended' = ended \ {s}
    /\ \E runs \in BOOLEAN : live' = [live EXCEPT ![s] = [Idle EXCEPT !.running = runs]]
    /\ IF key # 0 /\ s \notin known
       THEN known' = known \cup {s} /\ queue' = Append(queue, Fact(key, "session.opened", s, live'[s]))
       ELSE UNCHANGED <<known, queue>>
    /\ HostSteps

\* Output::publish: a turn starts or ends, a question opens or closes.
Publish(s) ==
    /\ slot[s] # "none"
    /\ Changes
    /\ \E field \in DOMAIN Idle :
           /\ live' = [live EXCEPT ![s][field] = ~@]
           /\ queue' = IF s \in known
                       THEN Append(queue, Fact(key, "session.update", s, [field |-> field, value |-> ~live[s][field]]))
                       ELSE queue
    /\ UNCHANGED <<slot, ended, known>>
    /\ HostSteps

\* SessionService::close, up to the wait for the task
CloseStarts(s) ==
    /\ slot[s] = "open"
    /\ slot' = [slot EXCEPT ![s] = "closing"]
    /\ UNCHANGED <<live, ended, known, queue, facts>>
    /\ HostSteps

\* Output::end_views and Facts::closed
EndViews(s) ==
    /\ ended' = ended \cup {s}
    /\ known' = known \ {s}
    /\ queue' = IF s \in known THEN Append(queue, Fact(key, "session.closed", s, Idle)) ELSE queue

ViewsEnd(s) ==
    /\ slot[s] = "closing" /\ s \notin ended
    /\ EndViews(s)
    /\ UNCHANGED <<slot, live, facts>>
    /\ HostSteps

\* The drop of the session, after its close
Dropped(s) ==
    /\ slot[s] = "closing" /\ s \in ended
    /\ slot' = [slot EXCEPT ![s] = "none"]
    /\ EndViews(s)
    /\ UNCHANGED <<live, facts>>
    /\ HostSteps
-----------------------------------------------------------------------------
(***************************************************************************)
(* The script                                                              *)
(***************************************************************************)
Present(id) == \E l \in listeners : l.id = id
Top == frames[Len(frames)]
Pop == SubSeq(frames, 1, Len(frames) - 1)
SetTop(frame) == [frames EXCEPT ![Len(frames)] = frame]
Runs(kind) == frames # <<>> /\ Top.kind = kind
Callback(id) == [kind |-> "callback", id |-> id]
\* Code of a plugin runs: on its own, or in a callback.
PluginRuns == frames = <<>> \/ Runs("callback")

\* track: the sessions after a fact
Track(sessions, fact) ==
    CASE fact.event = "session.opened" -> [s \in DOMAIN sessions \cup {fact.session} |->
                                              IF s = fact.session THEN fact.data ELSE sessions[s]]
      [] fact.event = "session.closed" -> [s \in DOMAIN sessions \ {fact.session} |-> sessions[s]]
      [] fact.event = "session.update" /\ fact.session \in DOMAIN sessions ->
             [sessions EXCEPT ![fact.session][fact.data.field] = fact.data.value]
      [] OTHER -> sessions

\* Mutant: a fact of an older watch counts too.
Counts_Always(fact) == TRUE

\* The key of a fact names the watch now.
Counts(fact) == fact.key = key

\* deliver: the next fact of the queue, for the listeners of its event.  They can hear of a closed session again.
Deliver ==
    /\ frames = <<>> /\ queue # <<>>
    /\ queue' = Tail(queue)
    /\ LET fact == Head(queue)
           hears == {l \in listeners : l.event = fact.event}
       IN IF Counts(fact)
          THEN /\ open' = Track(open, fact)
               /\ heard' = IF fact.event = "session.closed" THEN [l \in DOMAIN heard |-> heard[l] \ {fact.session}]
                           ELSE heard
               /\ frames' = <<[kind |-> "deliver", event |-> fact.event, session |-> fact.session,
                               left |-> {l.id : l \in hears}]>>
          ELSE UNCHANGED <<open, heard, frames>>
    /\ UNCHANGED <<host, known, key, lastKey, listeners, twice, adds, bounds>>

\* call: the callback of a listener starts.
Hears(id, event, s) ==
    IF event = "session.opened"
    THEN heard' = [heard EXCEPT ![id] = @ \cup {s}] /\ twice' = (twice \/ s \in heard[id])
    ELSE UNCHANGED <<heard, twice>>

\* The loop of deliver: the next listener of the ones at its start, if it is still there
DeliverNext ==
    /\ Runs("deliver")
    /\ \/ Top.left = {} /\ frames' = Pop /\ UNCHANGED <<heard, twice>>
       \/ \E id \in Top.left :
             LET after == SetTop([Top EXCEPT !.left = @ \ {id}]) IN
             /\ \A other \in Top.left : id <= other
             /\ IF Present(id) THEN frames' = Append(after, Callback(id)) /\ Hears(id, Top.event, Top.session)
                ELSE frames' = after /\ UNCHANGED <<heard, twice>>
    /\ UNCHANGED <<host, known, queue, key, lastKey, listeners, open, adds, bounds>>

\* The app announces its sessions to a new watch in any order.
Orders(sessions) ==
    {order \in [1 .. Cardinality(sessions) -> sessions] :
        \A s \in sessions : \E i \in DOMAIN order : order[i] = s /\ \A j \in DOMAIN order : order[j] = s => j = i}

\* on: a new listener, and the watch when none runs
On(event) ==
    /\ PluginRuns /\ adds < workload.adds /\ Len(frames) < MaxDepth
    /\ adds' = adds + 1
    /\ listeners' = listeners \cup {[id |-> adds', event |-> event]}
    /\ IF key # 0 THEN UNCHANGED <<known, queue, key, lastKey>>
       ELSE /\ lastKey' = lastKey + 1 /\ key' = lastKey'
            /\ known' = Announced
            /\ \E order \in Orders(Announced) :
                   queue' = queue \o [i \in DOMAIN order |-> Fact(key', "session.opened", order[i], live[order[i]])]
    /\ frames' = IF event = "session.opened" THEN Append(frames, [kind |-> "replay", id |-> adds', done |-> {}])
                 ELSE frames
    /\ UNCHANGED <<host, open, heard, twice, bounds>>

\* The loop of on: the next open session for a new listener of session.opened
ReplayNext ==
    /\ Runs("replay")
    /\ \/ \E s \in DOMAIN open \ Top.done :
             /\ Present(Top.id)
             /\ frames' = Append(SetTop([Top EXCEPT !.done = @ \cup {s}]), Callback(Top.id))
             /\ Hears(Top.id, "session.opened", s)
       \/ /\ DOMAIN open \subseteq Top.done \/ ~Present(Top.id)
          /\ frames' = Pop
          /\ UNCHANGED <<heard, twice>>
    /\ UNCHANGED <<host, known, queue, key, lastKey, listeners, open, adds, bounds>>

\* remove: the last removal ends the watch.
Removed(id) ==
    /\ listeners' = {l \in listeners : l.id # id}
    /\ IF listeners' = {} /\ key # 0
       THEN key' = 0 /\ open' = NoOpen /\ known' = {}
       ELSE UNCHANGED <<key, open, known>>

\* The remover of a listener, or the abort of its plugin
Off(id) ==
    /\ PluginRuns /\ Present(id)
    /\ Removed(id)
    /\ UNCHANGED <<host, queue, lastKey, frames, heard, twice, adds, bounds>>

Returns ==
    /\ Runs("callback")
    /\ frames' = Pop
    /\ UNCHANGED <<host, known, queue, key, lastKey, listeners, open, heard, twice, adds, bounds>>

\* A throw removes the listener.
Throws ==
    /\ Runs("callback") /\ Present(Top.id)
    /\ Removed(Top.id)
    /\ frames' = Pop
    /\ UNCHANGED <<host, queue, lastKey, heard, twice, adds, bounds>>

App == \E s \in Sessions : Opens(s) \/ Publish(s) \/ CloseStarts(s) \/ ViewsEnd(s) \/ Dropped(s)
Plugins == (\E event \in Events : On(event)) \/ (\E id \in 1 .. MaxAdds : Off(id)) \/ Returns \/ Throws
Next == App \/ Deliver \/ DeliverNext \/ ReplayNext \/ Plugins
Spec == Init /\ [][Next]_vars
-----------------------------------------------------------------------------
(***************************************************************************)
(* Properties                                                              *)
(***************************************************************************)

\* When no fact of its watch waits, the script knows each open session of the app with
\* its state and its question, and nothing else; and each listener of session.opened
\* heard of each of them once, whether it came before the session, after it, or from a
\* callback while another one hears of it (facts.rs:16, facts.ts:36, 81, 126).
FactsTrue ==
    /\ ~twice
    /\ key # 0 /\ frames = <<>> /\ (\A i \in DOMAIN queue : queue[i].key # key) =>
           /\ Announced \subseteq DOMAIN open
           /\ DOMAIN open \subseteq {s \in Sessions : slot[s] \in {"open", "closing"} /\ s \notin ended}
           /\ \A s \in DOMAIN open : open[s] = live[s]
           /\ \A l \in listeners : l.event = "session.opened" => heard[l.id] = DOMAIN open
=============================================================================
