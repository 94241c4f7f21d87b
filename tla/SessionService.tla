--------------------------- MODULE SessionService ---------------------------
(***************************************************************************)
(* The open sessions of the app (yuke/src/app/sessions.rs) and the task    *)
(* that runs the turns of an open session (yuke/src/app/live.rs), for one  *)
(* session id.  Everything runs on one thread: a step is the code between  *)
(* two awaits, and the calls, the countdowns and the task interleave at    *)
(* each await.                                                             *)
(*                                                                         *)
(* The store refuses a second owner of a session (StoreFiles), so at most  *)
(* one Session exists: task, closed, wake, turn and the counters below are *)
(* of that session.  The attachments name the open by its number, as the   *)
(* code compares the pointers.                                             *)
(***************************************************************************)
EXTENDS Naturals, Sequences, FiniteSets

CONSTANTS
    Callers,    \* the callers of the service: the RPC client, the plugins
    Workloads   \* bound: the calls that are made, and the number of inputs that the store accepts

AllCalls == {"open", "create", "remove", "close", "attach", "input", "drop", "load", "idle",
             "settings", "reload", "shutdown"}

ASSUME CallersAssumption == IsFiniteSet(Callers)
ASSUME WorkloadsAssumption ==
    \A w \in Workloads : w.calls \subseteq AllCalls /\ w.inputs \in Nat

VARIABLES
    phase,      \* what the registry admits
    slot,       \* the slot of the session
    cancelled,  \* a countdown that an attachment or a turn cancelled still sleeps
    holds,      \* the open that each caller's attachment holds, 0 for none
    call,       \* the call of each caller
    expiring,   \* a countdown closes the session
    shutting,   \* the shutdown closes the session
    held,       \* a reload holds the lock of the session
    task,       \* where the task of the session waits, "none" without a task
    closed,     \* the token that ends the task and its turn
    wake,       \* the permit of the task's Notify
    turn,       \* a turn runs
    stale,      \* a write of the session failed
    woken,      \* the inputs that the open session accepted, in order
    seen,       \* their number at the start of the run of the turns
    handled,    \* the number that the last run handled
    changed,    \* the idle calls that have not seen the last change of handled
    saved,      \* the session is in the store
    born,       \* the session was created
    newest,     \* the number of the inputs that the store accepted
    pending,    \* the inputs that wait
    refused,    \* history: the inputs that a failed run left waiting
    workload    \* the workload of this behaviour

registryVars == <<phase, slot, cancelled, holds>>
callVars == <<call, expiring, shutting, held>>
taskVars == <<task, closed, wake, turn, stale>>
countVars == <<woken, seen, handled, changed>>
storeVars == <<saved, born, newest, pending, refused>>
vars == <<registryVars, callVars, taskVars, countVars, storeVars, workload>>

Opens == 1 .. Cardinality(Callers) + 1
NoSlot == [kind |-> "none", open |-> 0, attachments |-> 0, armed |-> FALSE]
SlotOf(kind) == [NoSlot EXCEPT !.kind = kind]
NoCall == [op |-> "none", new |-> FALSE, n |-> 0]
At(c, op) == call[c].op = op
Go(c, op) == call' = [call EXCEPT ![c] = [@ EXCEPT !.op = op]]
Return(c) == call' = [call EXCEPT ![c] = NoCall]

\* The calls that own the Session or hold an Rc of the open session.
Owners == {"starting", "ending", "closing", "accepting", "accepted", "dropping",
           "idle", "settings", "saving", "loading"}
Leased ==
    \/ slot.kind = "open" \/ task # "none" \/ expiring \/ shutting \/ held
    \/ \E c \in Callers : call[c].op \in Owners

\* The session lock: a turn and the recovery before it hold it, a change of
\* the settings and a reload try it.  A task that waits is next.
CallerLocks == held \/ \E c \in Callers : call[c].op \in {"settings", "saving"}

TryLock == ~CallerLocks /\ task \notin {"locking", "recovering", "turn", "answering"}

Init ==
    /\ workload \in Workloads
    /\ phase = "ready" /\ slot = NoSlot /\ cancelled = FALSE
    /\ holds = [c \in Callers |-> 0]
    /\ call = [c \in Callers |-> NoCall]
    /\ expiring = FALSE /\ shutting = FALSE /\ held = FALSE
    /\ task = "none" /\ closed = FALSE /\ wake = FALSE /\ turn = FALSE /\ stale = FALSE
    /\ woken = <<>> /\ seen = 0 /\ handled = 0 /\ changed = {}
    /\ born \in BOOLEAN /\ saved = born
    /\ newest \in 0 .. (IF born /\ workload.inputs > 0 THEN 1 ELSE 0) /\ pending = 1 .. newest
    /\ refused = {}
-----------------------------------------------------------------------------
(***************************************************************************)
(* The countdown.                                                          *)
(***************************************************************************)

\* report_idle: an open session without a holder starts a countdown, and a
\* countdown that runs keeps its deadline.
ReportIdle(s) ==
    IF s.kind = "open" /\ s.attachments = 0 THEN [s EXCEPT !.armed = TRUE] ELSE s

\* An attachment or a turn clears the deadline.  The sleep itself goes on.
Disarm ==
    /\ cancelled' = (cancelled \/ slot.armed)

\* The sleep of a countdown ends.  Only the one with the deadline of the slot
\* closes the session, and a reload starts it again.
Expire ==
    /\ slot.kind = "open" /\ slot.armed
    /\ phase # "reloading"
    /\ slot' = SlotOf("closing")
    /\ expiring' = TRUE
    /\ closed' = TRUE
    /\ UNCHANGED <<phase, cancelled, holds, call, shutting, held, task, wake, turn, stale, countVars, storeVars>>

ExpireReloading ==
    /\ slot.kind = "open" /\ slot.armed /\ phase = "reloading"
    /\ slot' = ReportIdle([slot EXCEPT !.armed = FALSE])
    /\ UNCHANGED <<phase, cancelled, holds, callVars, taskVars, countVars, storeVars>>

ExpireCancelled ==
    /\ cancelled
    /\ cancelled' = FALSE
    /\ UNCHANGED <<phase, slot, holds, callVars, taskVars, countVars, storeVars>>

\* A Transition drops: an opening or closing slot goes.
DropTransition == slot' = IF slot.kind \in {"opening", "closing"} THEN NoSlot ELSE slot

ExpireEnds ==
    /\ expiring /\ task = "none"
    /\ expiring' = FALSE
    /\ DropTransition
    /\ UNCHANGED <<phase, cancelled, holds, call, shutting, held, taskVars, countVars, storeVars>>
-----------------------------------------------------------------------------
(***************************************************************************)
(* Open, create, close and remove.                                         *)
(***************************************************************************)

\* reserve.  A refused call changes nothing, and nobody knows the id of a
\* session before its creation.
Open(c) ==
    /\ "open" \in workload.calls /\ At(c, "none") /\ born /\ phase = "ready" /\ slot.kind = "none"
    /\ slot' = SlotOf("opening")
    /\ Go(c, "opening")
    /\ UNCHANGED <<phase, cancelled, holds, expiring, shutting, held, taskVars, countVars, storeVars>>

\* Session::open takes the lease and recovers the saved state.
SessionOpened(c) ==
    /\ At(c, "opening") /\ saved /\ ~Leased
    /\ Go(c, "starting")
    /\ stale' = FALSE
    /\ UNCHANGED <<registryVars, expiring, shutting, held, task, closed, wake, turn, countVars, storeVars>>

\* The session is not in the store, its lease is held, the store fails, or the
\* model of the session cannot run.
OpenFails(c) ==
    /\ At(c, "opening")
    /\ Return(c)
    /\ DropTransition
    /\ UNCHANGED <<phase, cancelled, holds, expiring, shutting, held, taskVars, countVars, storeVars>>

Create(c) ==
    /\ "create" \in workload.calls /\ At(c, "none") /\ phase = "ready" /\ ~born
    /\ call' = [call EXCEPT ![c] = [NoCall EXCEPT !.op = "creating", !.new = TRUE]]
    /\ UNCHANGED <<registryVars, expiring, shutting, held, taskVars, countVars, storeVars>>

\* The store answers the creator before it can list the session for another
\* call, so start_new goes on at once: it reserves the slot, or it drops the
\* session and deletes it again.
Created(c) ==
    /\ At(c, "creating") /\ ~born
    /\ saved' = TRUE /\ born' = TRUE
    /\ \/ /\ phase = "ready"
          /\ slot' = SlotOf("opening")
          /\ Go(c, "starting")
       \/ /\ Go(c, "undoing")
          /\ UNCHANGED slot
    /\ stale' = FALSE
    /\ UNCHANGED <<phase, cancelled, holds, expiring, shutting, held, task, closed, wake, turn, countVars, newest, pending, refused>>

CreateFails(c) ==
    /\ At(c, "creating")
    /\ Return(c)
    /\ UNCHANGED <<registryVars, expiring, shutting, held, taskVars, countVars, storeVars>>

\* The plugins open, the task starts, and the slot opens; a load then reads
\* the session.  After the shutdown started the call closes it itself.
Started(c) ==
    /\ At(c, "starting")
    /\ task' = "waiting" /\ wake' = FALSE /\ turn' = FALSE
    /\ woken' = <<>> /\ seen' = 0 /\ handled' = 0 /\ changed' = {}
    /\ refused' = {}
    /\ \/ /\ phase # "stopped"
          /\ slot' = ReportIdle([kind |-> "open", attachments |-> 0, armed |-> FALSE,
                       open |-> CHOOSE o \in Opens : \A k \in Callers : holds[k] # o])
          /\ closed' = FALSE
          /\ Return(c) \/ ("load" \in workload.calls /\ ~call[c].new /\ Go(c, "loading"))
       \/ /\ phase = "stopped"
          /\ DropTransition
          /\ closed' = TRUE
          /\ Go(c, "ending")
    /\ UNCHANGED <<phase, cancelled, holds, expiring, shutting, held, stale, saved, born, newest, pending>>

\* The plugins do not open.  A new session is deleted again.
StartFails(c) ==
    /\ At(c, "starting")
    /\ DropTransition
    /\ IF call[c].new THEN Go(c, "undoing") ELSE Return(c)
    /\ UNCHANGED <<phase, cancelled, holds, expiring, shutting, held, taskVars, countVars, storeVars>>

Ended(c) ==
    /\ At(c, "ending") /\ task = "none"
    /\ IF call[c].new THEN Go(c, "undoing") ELSE Return(c)
    /\ UNCHANGED <<registryVars, expiring, shutting, held, taskVars, countVars, storeVars>>

\* delete_session refuses a session with a lease, and it can fail.
Delete ==
    \/ /\ saved /\ ~Leased
       /\ saved' = FALSE /\ pending' = {}
    \/ UNCHANGED <<saved, pending>>

Undone(c) ==
    /\ At(c, "undoing")
    /\ Delete
    /\ Return(c)
    /\ UNCHANGED <<registryVars, expiring, shutting, held, taskVars, countVars, born, newest, refused>>

\* remove: the registry holds no slot of the session now; the deletes follow.
Remove(c) ==
    /\ "remove" \in workload.calls /\ At(c, "none") /\ saved /\ slot.kind = "none"
    /\ Go(c, "removing")
    /\ UNCHANGED <<registryVars, expiring, shutting, held, taskVars, countVars, storeVars>>

Removed(c) ==
    /\ At(c, "removing")
    /\ Delete
    /\ Return(c)
    /\ UNCHANGED <<registryVars, expiring, shutting, held, taskVars, countVars, born, newest, refused>>

Close(c) ==
    /\ "close" \in workload.calls /\ At(c, "none") /\ phase = "ready" /\ slot.kind = "open"
    /\ slot' = SlotOf("closing")
    /\ closed' = TRUE
    /\ Go(c, "closing")
    /\ UNCHANGED <<phase, cancelled, holds, expiring, shutting, held, task, wake, turn, stale, countVars, storeVars>>

\* The task has ended; the views, the plugins, the jobs and the servers end.
Closed(c) ==
    /\ At(c, "closing") /\ task = "none"
    /\ DropTransition
    /\ Return(c)
    /\ UNCHANGED <<phase, cancelled, holds, expiring, shutting, held, taskVars, countVars, storeVars>>

\* close_all.  The app is one value, so no reload runs beside it.
CloseAll ==
    /\ "shutdown" \in workload.calls /\ phase = "ready"
    /\ phase' = "stopped"
    /\ slot' = NoSlot
    /\ shutting' = (slot.kind = "open")
    /\ closed' = (closed \/ slot.kind = "open")
    /\ UNCHANGED <<cancelled, holds, call, expiring, held, task, wake, turn, stale, countVars, storeVars>>

CloseAllEnds ==
    /\ shutting /\ task = "none"
    /\ shutting' = FALSE
    /\ UNCHANGED <<registryVars, call, expiring, held, taskVars, countVars, storeVars>>
-----------------------------------------------------------------------------
(***************************************************************************)
(* The calls on the open session.  Each one finds the session by its slot. *)
(***************************************************************************)

\* An attachment replaces the earlier one of its caller, which then drops.
Attach(c) ==
    /\ "attach" \in workload.calls /\ slot.kind = "open"
    /\ LET earlier == IF holds[c] = slot.open THEN 1 ELSE 0
       IN slot' = [slot EXCEPT !.attachments = @ + 1 - earlier, !.armed = FALSE]
    /\ Disarm
    /\ holds' = [holds EXCEPT ![c] = slot.open]
    /\ UNCHANGED <<phase, callVars, taskVars, countVars, storeVars>>

\* A release that compares only the session id.
Names_AnyOpen(attachment, s) == s.kind = "open"

\* Whether the attachment is of this open, and not of an earlier one.
Names(attachment, s) == s.kind = "open" /\ s.open = attachment

\* A release without a wake.
Detach_Silent(c) ==
    /\ holds[c] # 0
    /\ holds' = [holds EXCEPT ![c] = 0]
    /\ slot' = IF Names(holds[c], slot) THEN [slot EXCEPT !.attachments = @ - 1] ELSE slot
    /\ UNCHANGED <<phase, cancelled, callVars, taskVars, countVars, storeVars>>

\* The last attachment wakes the task, which reports that it has no work.
Detach(c) ==
    /\ holds[c] # 0
    /\ holds' = [holds EXCEPT ![c] = 0]
    /\ IF Names(holds[c], slot)
       THEN /\ slot' = [slot EXCEPT !.attachments = @ - 1]
            /\ wake' = (wake \/ slot.attachments = 1)
       ELSE UNCHANGED <<slot, wake>>
    /\ UNCHANGED <<phase, cancelled, callVars, task, closed, turn, stale, countVars, storeVars>>

\* A call that takes the open session and waits for the store.
Begin(c, op) ==
    /\ At(c, "none") /\ slot.kind = "open"
    /\ Go(c, op)
    /\ UNCHANGED <<registryVars, expiring, shutting, held, taskVars, countVars, storeVars>>

\* accept: the store saves the input.
Input(c) == "input" \in workload.calls /\ Begin(c, "accepting") /\ newest < workload.inputs

InputSaved(c) ==
    /\ At(c, "accepting") /\ saved /\ newest < workload.inputs
    /\ newest' = newest + 1
    /\ pending' = pending \cup {newest + 1}
    /\ call' = [call EXCEPT ![c] = [NoCall EXCEPT !.op = "accepted", !.n = newest + 1]]
    /\ UNCHANGED <<registryVars, expiring, shutting, held, taskVars, countVars, saved, born, refused>>

\* An acceptance that wakes only a task that waits.
Accepted_WakesIdle(c) ==
    /\ At(c, "accepted")
    /\ woken' = Append(woken, call[c].n)
    /\ wake' = (wake \/ task = "waiting")
    /\ Return(c)
    /\ UNCHANGED <<registryVars, expiring, shutting, held, task, closed, turn, stale, seen, handled, changed, storeVars>>

\* The call goes on: it publishes the input, counts it, and wakes the task.
Accepted(c) ==
    /\ At(c, "accepted")
    /\ woken' = Append(woken, call[c].n)
    /\ wake' = TRUE
    /\ Return(c)
    /\ UNCHANGED <<registryVars, expiring, shutting, held, task, closed, turn, stale, seen, handled, changed, storeVars>>

\* A read, or a call that the store fails.
Fails(c) ==
    /\ call[c].op \in {"accepting", "dropping", "loading"}
    /\ Return(c)
    /\ UNCHANGED <<registryVars, expiring, shutting, held, taskVars, countVars, storeVars>>

RemoveInput(c) == "drop" \in workload.calls /\ Begin(c, "dropping")

InputRemoved(c) ==
    /\ At(c, "dropping")
    /\ \E i \in pending : pending' = pending \ {i}
    /\ Return(c)
    /\ UNCHANGED <<registryVars, expiring, shutting, held, taskVars, countVars, saved, born, newest, refused>>

Load(c) == "load" \in workload.calls /\ Begin(c, "loading")

\* idle subscribes to the handled inputs and looks at once.
Idle(c) ==
    /\ "idle" \in workload.calls /\ At(c, "none") /\ slot.kind = "open"
    /\ call' = [call EXCEPT ![c] = [NoCall EXCEPT !.op = "idle", !.n = Len(woken)]]
    /\ changed' = changed \cup {c}
    /\ UNCHANGED <<registryVars, expiring, shutting, held, taskVars, woken, seen, handled, storeVars>>

\* It looks again after each change, and the close ends it.
IdleLooks(c) ==
    /\ At(c, "idle")
    /\ c \in changed \/ closed
    /\ changed' = changed \ {c}
    /\ IF closed \/ (handled >= call[c].n /\ ~turn) THEN Return(c) ELSE UNCHANGED call
    /\ UNCHANGED <<registryVars, expiring, shutting, held, taskVars, woken, seen, handled, storeVars>>

\* set_settings: Busy without the lock, and then with an input that waits.
\* The read of the inputs and the save can fail.
SetSettings(c) == "settings" \in workload.calls /\ TryLock /\ Begin(c, "settings")

SettingsRead(c) ==
    /\ At(c, "settings")
    /\ \/ pending = {} /\ Go(c, "saving")
       \/ Return(c)
    /\ UNCHANGED <<registryVars, expiring, shutting, held, taskVars, countVars, storeVars>>

SettingsSaved(c) ==
    /\ At(c, "saving")
    /\ stale' \in BOOLEAN
    /\ Return(c)
    /\ UNCHANGED <<registryVars, expiring, shutting, held, task, closed, wake, turn, countVars, storeVars>>

\* reload: no slot opens or closes, and no turn runs or starts.
Reload ==
    /\ "reload" \in workload.calls /\ phase = "ready"
    /\ slot.kind \in {"none", "open"}
    /\ slot.kind = "open" => TryLock
    /\ phase' = "reloading"
    /\ held' = (slot.kind = "open")
    /\ UNCHANGED <<slot, cancelled, holds, call, expiring, shutting, taskVars, countVars, storeVars>>

\* It ends with the new plugins, with an error, or dropped by a quit.
ReloadEnds ==
    /\ phase = "reloading"
    /\ phase' = "ready"
    /\ held' = FALSE
    /\ UNCHANGED <<slot, cancelled, holds, call, expiring, shutting, taskVars, countVars, storeVars>>
-----------------------------------------------------------------------------
(***************************************************************************)
(* The task of the open session (Parts::run, run_waiting_turns).           *)
(***************************************************************************)
taskOnly == <<phase, holds, callVars, closed, woken>>

\* Either branch of the select can win when both are ready.
TaskEnds ==
    /\ task = "waiting" /\ closed
    /\ task' = "none"
    /\ UNCHANGED <<taskOnly, slot, cancelled, wake, turn, stale, seen, handled, changed, storeVars>>

TaskWakes ==
    /\ task = "waiting" /\ wake
    /\ wake' = FALSE
    /\ seen' = Len(woken)
    /\ task' = "checking"
    /\ UNCHANGED <<taskOnly, slot, cancelled, turn, stale, handled, changed, storeVars>>

\* The store reads the pending inputs; the task sees the answer later.
ReadPending ==
    /\ task = "checking"
    /\ task' = IF pending = {} THEN "empty" ELSE "found"
    /\ UNCHANGED <<taskOnly, slot, cancelled, wake, turn, stale, seen, handled, changed, storeVars>>

WaitLock ==
    /\ task = "found"
    /\ task' = "locking"
    /\ UNCHANGED <<taskOnly, slot, cancelled, wake, turn, stale, seen, handled, changed, storeVars>>

\* A run that counts the inputs at its end.
RunEnds_CountsLate ==
    /\ task' = "waiting"
    /\ handled' = Len(woken)
    /\ changed' = {c \in Callers : At(c, "idle")}
    /\ slot' = ReportIdle(slot)

\* A run that tells only a new number.
RunEnds_TellsNew ==
    /\ task' = "waiting"
    /\ handled' = seen
    /\ changed' = IF handled = seen THEN changed ELSE {c \in Callers : At(c, "idle")}
    /\ slot' = ReportIdle(slot)

\* The run of the turns ends: the task tells what it handled, and the
\* countdown starts when nobody holds the session.
RunEnds ==
    /\ task' = "waiting"
    /\ handled' = seen
    /\ changed' = {c \in Callers : At(c, "idle")}
    /\ slot' = ReportIdle(slot)

\* A failure leaves the inputs to the next wake.
RunFails == RunEnds /\ refused' = refused \cup pending

NothingWaits ==
    /\ task = "empty"
    /\ RunEnds
    /\ UNCHANGED <<taskOnly, cancelled, wake, turn, stale, seen, storeVars>>

CheckFails ==
    /\ task = "checking"
    /\ RunFails
    /\ UNCHANGED <<taskOnly, cancelled, wake, turn, stale, seen, saved, born, newest, pending>>

\* The lock is free for the task, and a stale session is open again.
HasLock == task = "locking" /\ ~CallerLocks
Ready == (HasLock /\ ~stale) \/ task = "recovering"

Recover ==
    /\ HasLock /\ stale
    /\ task' = "recovering"
    /\ UNCHANGED <<taskOnly, slot, cancelled, wake, turn, stale, seen, handled, changed, storeVars>>

\* The recovery fails, or the model of the settings cannot run.
PrepareFails ==
    /\ Ready
    /\ RunFails
    /\ stale' \in {stale, FALSE}
    /\ UNCHANGED <<taskOnly, cancelled, wake, turn, seen, saved, born, newest, pending>>

\* start_turn: none after the close; the turn clears the deadline.
StartTurn ==
    /\ Ready /\ ~closed
    /\ task' = "turn" /\ turn' = TRUE /\ stale' = FALSE
    /\ slot' = IF slot.kind = "open" THEN [slot EXCEPT !.armed = FALSE] ELSE slot
    /\ Disarm
    /\ UNCHANGED <<taskOnly, wake, seen, handled, changed, storeVars>>

NoTurnAfterClose ==
    /\ Ready /\ closed
    /\ RunEnds
    /\ stale' = FALSE
    /\ UNCHANGED <<taskOnly, cancelled, wake, turn, seen, storeVars>>

\* A commit of the turn consumes the oldest inputs.
Consume ==
    /\ task \in {"turn", "answering"}
    /\ \E batch \in SUBSET pending \ {{}} :
        /\ \A i \in batch, j \in pending \ batch : i < j
        /\ pending' = pending \ batch
    /\ task' = "answering"
    /\ UNCHANGED <<taskOnly, slot, cancelled, wake, turn, stale, seen, handled, changed, saved, born, newest, refused>>

\* The turn ends, also with a failed round, or without any input.  The next
\* turn follows while input waits.
TurnEnds ==
    /\ task = "answering" \/ (task = "turn" /\ pending = {})
    /\ turn' = FALSE
    /\ task' = "checking"
    /\ UNCHANGED <<taskOnly, slot, cancelled, wake, stale, seen, handled, changed, storeVars>>

\* The tools or the prompt do not build, an input hook fails, or the store
\* fails, which leaves the session stale.
TurnFails ==
    /\ task \in {"turn", "answering"}
    /\ turn' = FALSE
    /\ stale' \in BOOLEAN
    /\ RunFails
    /\ UNCHANGED <<taskOnly, cancelled, wake, seen, saved, born, newest, pending>>
-----------------------------------------------------------------------------
Countdown == Expire \/ ExpireReloading \/ ExpireCancelled \/ ExpireEnds
App == CloseAll \/ CloseAllEnds \/ Reload \/ ReloadEnds
Registry(c) ==
    \/ Open(c) \/ SessionOpened(c) \/ OpenFails(c) \/ Create(c) \/ Created(c) \/ CreateFails(c)
    \/ Started(c) \/ StartFails(c) \/ Ended(c) \/ Undone(c) \/ Remove(c) \/ Removed(c)
    \/ Close(c) \/ Closed(c)
CallOn(c) ==
    \/ Attach(c) \/ Detach(c) \/ Input(c) \/ InputSaved(c) \/ Accepted(c) \/ Fails(c)
    \/ RemoveInput(c) \/ InputRemoved(c) \/ Load(c) \/ Idle(c) \/ IdleLooks(c)
    \/ SetSettings(c) \/ SettingsRead(c) \/ SettingsSaved(c)
Task ==
    \/ TaskEnds \/ TaskWakes \/ ReadPending \/ WaitLock \/ NothingWaits \/ CheckFails
    \/ Recover \/ PrepareFails \/ StartTurn \/ NoTurnAfterClose \/ Consume \/ TurnEnds \/ TurnFails

Next ==
    /\ Countdown \/ App \/ Task \/ \E c \in Callers : Registry(c) \/ CallOn(c)
    /\ UNCHANGED workload

\* The executor polls what is ready: the answers of the store and of the
\* runtime come, a sleep ends, and the task goes on.  A turn ends for certain
\* only after its token is cancelled (Turn, CancelEnds).  Nothing makes a
\* caller call, a turn end, or a reload end.
Answers(c) ==
    \/ SessionOpened(c) \/ OpenFails(c) \/ Created(c) \/ CreateFails(c) \/ Started(c) \/ StartFails(c)
    \/ Ended(c) \/ Undone(c) \/ Removed(c) \/ Closed(c)
    \/ InputSaved(c) \/ Accepted(c) \/ Fails(c) \/ InputRemoved(c) \/ IdleLooks(c)
    \/ SettingsRead(c) \/ SettingsSaved(c)
TaskGoesOn ==
    \/ TaskEnds \/ TaskWakes \/ ReadPending \/ WaitLock \/ NothingWaits \/ CheckFails
    \/ Recover \/ PrepareFails \/ StartTurn \/ NoTurnAfterClose
Fairness ==
    /\ WF_vars(Expire /\ UNCHANGED workload)
    /\ WF_vars(ExpireEnds /\ UNCHANGED workload)
    /\ WF_vars(CloseAllEnds /\ UNCHANGED workload)
    /\ \A c \in Callers : WF_vars(Answers(c) /\ UNCHANGED workload)
    /\ WF_vars(TaskGoesOn /\ UNCHANGED workload)
    /\ WF_vars(closed /\ (TurnEnds \/ TurnFails) /\ UNCHANGED workload)

Spec == Init /\ [][Next]_vars /\ Fairness
-----------------------------------------------------------------------------
(***************************************************************************)
(* Properties                                                              *)
(***************************************************************************)

\* The slot of the session tells the truth (sessions.rs:71, 83, 176, 189, 199,
\* 449, 578, 719, live.rs:296).  Its count is the number of the attachments of this
\* open, so an attachment of an earlier open never releases it.  A countdown runs
\* only while nobody holds the session and no turn runs, so its end never closes a
\* session in use.  An open session is in the store: no delete of a remove or of a
\* failed start meets one.  Without a slot the task has ended, so the session can
\* open again, and no turn runs unseen.
SlotTrue ==
    /\ slot.kind = "open" =>
           saved /\ slot.attachments = Cardinality({c \in Callers : holds[c] = slot.open})
    /\ slot.armed => slot.attachments = 0 /\ ~turn
    /\ slot.kind \in {"none", "opening"} /\ phase # "stopped" => task = "none"

\* An input that the open session accepted never waits beside an idle task:
\* the task has a wake, or a failed run left the input (live.rs:1040, 724).
NoLostWake ==
    task = "waiting" /\ ~closed =>
        \/ wake
        \/ \A k \in 1 .. Len(woken) : woken[k] \in pending => woken[k] \in refused

\* idle returns before the close only when no turn runs and each input that
\* the session accepted before the call left, or a failed turn left it
\* (live.rs:116).
IdleAnswer ==
    \A c \in Callers :
        call[c].op = "idle" /\ call'[c].op = "none" /\ ~closed =>
            /\ ~turn
            /\ \A k \in 1 .. call[c].n : woken[k] \in pending => woken[k] \in refused
IdleTells == [][IdleAnswer]_vars

\* Unless reloads go on for ever, a session that nobody holds gets a holder
\* or a turn, or it closes.  After the shutdown starts, the task of the session
\* ends, also of one that opens meanwhile (sessions.rs:205, 311, 772, live.rs:729).
Unheld == slot.kind = "open" /\ slot.attachments = 0 /\ ~turn
SessionsClose ==
    /\ <>[](phase # "reloading") => (Unheld ~> ~Unheld)
    /\ phase = "stopped" ~> [](task = "none" /\ slot.kind = "none" /\ ~shutting)

\* Unless turns or reloads go on for ever, each idle call returns
\* (live.rs:116): it misses no change of the inputs that the task handled.
IdleReturns ==
    <>[](~turn /\ phase # "reloading") =>
        \A c \in Callers : At(c, "idle") ~> ~At(c, "idle")

=============================================================================
