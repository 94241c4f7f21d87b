------------------------------ MODULE Session -------------------------------
(***************************************************************************)
(* One stored session and the processes that open it: the turns of         *)
(* agent/src/session.rs on the store of store/src/store.rs.                *)
(*                                                                         *)
(* The database is shared.  Each process has one connection, a thread that *)
(* runs its calls in order, so a read follows every queued write of its    *)
(* process.  A caller can drop a future: the write that it waited for      *)
(* stays queued.  The owner lock is held by the lease of a process and by  *)
(* each queued write that took a clone of it.                              *)
(*                                                                         *)
(* The rounds of the driver are reduced to the commits that they send      *)
(* (module Turn has them in detail): an answer is one block, "text" when   *)
(* it ends the turn and "call" when it calls tools.                        *)
(***************************************************************************)
EXTENDS Integers, Sequences, FiniteSets, Functions

CONSTANTS
    Procs,       \* the processes that can open the session
    Creator,     \* the process that created it
    MaxInputs,   \* bound: no client input is accepted, and no note removed, from this id on
    MaxAnswers,  \* bound: answers in the saved context
    MaxFaults    \* bound: dropped futures, crashes, failed writes and failed hooks

ASSUME SessionAssumption ==
    /\ Creator \in Procs
    /\ MaxInputs \in Nat
    /\ MaxAnswers \in Nat
    /\ MaxFaults \in Nat

VARIABLES
    pending,   \* the table pending_inputs
    accepted,  \* its AUTOINCREMENT: the newest input id
    stored,    \* the context that the saved events give
    consumed,  \* the input ids in the consumed records of the saved commits
    settings,  \* the settings of the newest settings event
    newest,    \* the newest turn, as the newest saved commit shows it
    pc,        \* where each process waits in Session
    lease,     \* the processes whose session, or whose running future, has the lease
    memory,    \* Session: context, settings, newest_turn
    taken,     \* TurnInputs::taken: inputs that the turn took and no commit consumed
    todo,      \* the inputs of the last read of `pending` that take() did not reach
    queued,    \* the write of each process that its connection did not run yet
    faults,    \* the number of faults so far
    untold     \* history: since the end of the newest turn, someone removed a note

storeVars == <<pending, accepted, stored, consumed, settings, newest>>
procVars == <<pc, lease, memory, taken, todo, queued>>
vars == <<storeVars, procVars, faults, untold>>

Ends == {"completed", "stopped", "cancelled", "failed"}
NoWrite == [kind |-> "none"]

Plain(kind) == [kind |-> kind, id |-> 0]
InputBlocks(inputs) == [k \in 1 .. Len(inputs) |-> [kind |-> "input", id |-> inputs[k].id]]
Ids(inputs) == [k \in 1 .. Len(inputs) |-> inputs[k].id]

\* The store as a load reads it
Snapshot == [context |-> stored, settings |-> settings, newest |-> newest]

\* Mutant: a queued write holds no clone of the lock.
HoldsLock_LeaseOnly(p) == p \in lease

\* The owner lock: a lease, or the clone that a queued write of a commit or of settings holds
HoldsLock(p) == p \in lease \/ queued[p].kind \in {"commit", "settings"}

Idle(p) == pc[p] = "idle"
\* A call of the store reaches the connection behind the queued write of its process.
Reaches(p) == queued[p] = NoWrite
Fault == faults < MaxFaults /\ faults' = faults + 1
NoFault == UNCHANGED faults

GoTo(p, step) == pc' = [pc EXCEPT ![p] = step]
Remember(p, context, newestTurn) ==
    memory' = [memory EXCEPT ![p] =
        [context |-> context, settings |-> memory[p].settings, newest |-> newestTurn]]

-----------------------------------------------------------------------------
Init ==
    /\ pending = {}
    /\ accepted = 0
    /\ stored = <<>>
    /\ consumed = <<>>
    /\ settings = FALSE
    /\ newest = "empty"
    /\ pc = [p \in Procs |-> "idle"]
    /\ lease = {Creator}
    /\ memory = [p \in Procs |-> Snapshot]
    /\ taken = [p \in Procs |-> <<>>]
    /\ todo = [p \in Procs |-> {}]
    /\ queued = [p \in Procs |-> NoWrite]
    /\ faults = 0
    /\ untold = FALSE

-----------------------------------------------------------------------------
(* The clients: any process saves and removes inputs, with no lock. *)

AddInput(note) ==
    /\ accepted' = accepted + 1
    /\ pending' = pending \cup {[id |-> accepted + 1, note |-> note]}

AcceptInput ==
    /\ accepted < MaxInputs
    /\ AddInput(FALSE)
    /\ UNCHANGED <<stored, consumed, settings, newest, procVars, faults, untold>>

RemoveInput ==
    /\ \E i \in pending :
         /\ i.note => accepted < MaxInputs
         /\ pending' = pending \ {i}
         /\ untold' = (untold \/ i.note)
    /\ UNCHANGED <<accepted, stored, consumed, settings, newest, procVars, faults>>

-----------------------------------------------------------------------------
(* The queue of the connection *)

Commit(blocks, inputs, end, then) ==
    [kind |-> "commit", blocks |-> blocks, consumed |-> inputs, end |-> end, then |-> then,
     awaited |-> TRUE]

\* Mutant: check_consumed_blocks counts nothing.
SendCommit_Unchecked(p, blocks, inputs, end, then) ==
    /\ queued' = [queued EXCEPT ![p] = Commit(blocks, inputs, end, then)]
    /\ GoTo(p, "saving")
    /\ UNCHANGED lease

\* Store::commit: check_consumed_blocks rejects the commit before it is queued, and a rejected
\* commit of a turn drops the lease like a failed one.
SendCommit(p, blocks, inputs, end, then) ==
    IF Len(inputs) <= Len(blocks)
    THEN /\ queued' = [queued EXCEPT ![p] = Commit(blocks, inputs, end, then)]
         /\ GoTo(p, "saving")
         /\ UNCHANGED lease
    ELSE /\ GoTo(p, "idle")
         /\ lease' = lease \ {p}
         /\ UNCHANGED queued

\* Mutant: the delete of a consumed input that has no row is no error.
StillPending_Unchecked(w) == TRUE

\* save_commit: each consumed input still has its row.
StillPending(w) == Range(w.consumed) \subseteq pending

\* save_commit: one transaction for the event and the consumed inputs
SaveCommit(w) ==
    /\ stored' = stored \o w.blocks
    /\ consumed' = consumed \o Ids(w.consumed)
    /\ pending' = pending \ Range(w.consumed)
    /\ newest' = IF w.end = "none" THEN "open" ELSE w.end
    /\ untold' = (w.end = "none" /\ untold)
    /\ UNCHANGED <<accepted, settings>>

\* The waiting future goes on after its write.
Resume(p, w) ==
    CASE ~w.awaited -> UNCHANGED <<pc, memory>>
      [] w.awaited /\ w.kind = "note" -> GoTo(p, "noted") /\ UNCHANGED memory
      [] w.awaited /\ w.kind = "settings" ->
           /\ GoTo(p, "idle")
           /\ memory' = [memory EXCEPT ![p] = [context |-> memory[p].context,
                              settings |-> w.settings, newest |-> memory[p].newest]]
      [] w.awaited /\ w.kind = "commit" ->
           /\ GoTo(p, w.then)
           /\ Remember(p, memory[p].context,
                       IF w.end = "none" THEN memory[p].newest ELSE w.end)

RunWrite(p) ==
    LET w == queued[p] IN
    /\ w # NoWrite
    /\ \/ w.kind = "commit" /\ StillPending(w) /\ SaveCommit(w)
       \/ /\ w.kind = "settings"
          /\ settings' = w.settings
          /\ UNCHANGED <<pending, accepted, stored, consumed, newest, untold>>
       \/ /\ w.kind = "note"
          /\ AddInput(TRUE)
          /\ UNCHANGED <<stored, consumed, settings, newest, untold>>
    /\ queued' = [queued EXCEPT ![p] = NoWrite]
    /\ Resume(p, w)
    /\ NoFault
    /\ UNCHANGED <<lease, taken, todo>>

\* Mutant: the session gets its lease back after each write.
LosesLease_Never(w) == FALSE

\* The lease moved into the future of the write, except for a note.
LosesLease(w) == w.kind # "note"

\* A failed write saves nothing: a consumed input is not pending, or the database fails.
\* Without its lease, the session is stale.
WriteFails(p) ==
    LET w == queued[p] IN
    /\ w # NoWrite
    /\ IF w.kind = "commit" /\ ~StillPending(w) THEN NoFault ELSE Fault
    /\ queued' = [queued EXCEPT ![p] = NoWrite]
    /\ IF w.awaited
       THEN /\ GoTo(p, "idle")
            /\ taken' = [taken EXCEPT ![p] = <<>>]
            /\ lease' = IF LosesLease(w) THEN lease \ {p} ELSE lease
       ELSE UNCHANGED <<pc, taken, lease>>
    /\ UNCHANGED <<storeVars, memory, todo, untold>>

-----------------------------------------------------------------------------
(* Session::open and Session::recover *)

UserRole == {"input", "result"}

\* open_calls: the calls after the last block of the user
OpenCalls(context) ==
    {k \in DOMAIN context :
        /\ context[k].kind = "call"
        /\ \A r \in k + 1 .. Len(context) : context[r].kind \notin UserRole}

\* open_and_end_turn, after an open that took the lock and loaded the session
Repair(p) ==
    IF newest # "open"
    THEN /\ memory' = [memory EXCEPT ![p] = Snapshot]
         /\ UNCHANGED <<pc, queued>>
    ELSE LET results == [k \in 1 .. Cardinality(OpenCalls(stored)) |-> Plain("result")] IN
         /\ memory' = [memory EXCEPT ![p] = [context |-> stored \o results,
                            settings |-> settings, newest |-> newest]]
         /\ queued' = [queued EXCEPT ![p] = Commit(results, <<>>, "failed", "idle")]
         /\ GoTo(p, "saving")

\* A process without the lease opens the session: its lock is free, or the open fails as Owned.
Recover(p) ==
    /\ Idle(p)
    /\ Reaches(p)
    /\ \A q \in Procs : ~HoldsLock(q)
    /\ lease' = lease \cup {p}
    /\ Repair(p)
    /\ UNCHANGED <<storeVars, taken, todo, faults, untold>>

\* The process drops its session, and with it the lease.
Close(p) ==
    /\ Idle(p)
    /\ p \in lease
    /\ lease' = lease \ {p}
    /\ UNCHANGED <<storeVars, pc, memory, taken, todo, queued, faults, untold>>

SetSettings(p) ==
    /\ Idle(p)
    /\ p \in lease
    /\ Reaches(p)
    /\ GoTo(p, "saving")
    /\ queued' = [queued EXCEPT ![p] = [kind |-> "settings", settings |-> ~memory[p].settings,
                                        awaited |-> TRUE]]
    /\ UNCHANGED <<storeVars, lease, memory, taken, todo, faults, untold>>

-----------------------------------------------------------------------------
(* TurnInputs::take.  "starting", "noted" and "inbox" are its three calls. *)

Taking == {"starting", "with_note", "inbox"}

\* The read of the pending inputs, without those that the turn took
ReadPending(p) ==
    /\ Reaches(p)
    /\ todo' = [todo EXCEPT ![p] = pending \ Range(taken[p])]

StartTurn(p) ==
    /\ Idle(p)
    /\ p \in lease
    /\ ReadPending(p)
    /\ GoTo(p, "starting")
    /\ UNCHANGED <<storeVars, lease, memory, taken, queued, faults, untold>>

\* One input of the read: the hook decides, and then the inputs are read again.
TakeOne(p) ==
    /\ pc[p] \in Taking
    /\ \E i \in todo[p] :
         /\ \A j \in todo[p] : i.id <= j.id
         /\ todo' = [todo EXCEPT ![p] = @ \ {i}]
         /\ \/ /\ i \in pending
               /\ taken' = [taken EXCEPT ![p] = Append(@, i)]
               /\ UNCHANGED pending
            \/ /\ i \notin pending
               /\ UNCHANGED <<pending, taken>>
            \/ /\ ~i.note
               /\ pending' = pending \ {i}
               /\ UNCHANGED taken
    /\ UNCHANGED <<accepted, stored, consumed, settings, newest, pc, lease, memory, queued,
                   faults, untold>>

\* The hook or the store fails.  Before the first commit, no turn ran; at the inbox, the driver
\* ends the turn.
TakeFails(p) ==
    /\ pc[p] \in Taking
    /\ todo[p] # {}
    /\ Fault
    /\ todo' = [todo EXCEPT ![p] = {}]
    /\ IF pc[p] = "inbox"
       THEN GoTo(p, "inbox_failed") /\ UNCHANGED taken
       ELSE GoTo(p, "idle") /\ taken' = [taken EXCEPT ![p] = <<>>]
    /\ UNCHANGED <<storeVars, lease, memory, queued, untold>>

Took(p, step) == pc[p] = step /\ todo[p] = {}

NoInput(p) ==
    /\ Took(p, "starting")
    /\ taken[p] = <<>>
    /\ GoTo(p, "idle")
    /\ UNCHANGED <<storeVars, lease, memory, taken, todo, queued, faults, untold>>

\* Mutant: only a cancelled turn gives a note.
Interrupted_NotFailed(turn) == turn = "cancelled"

\* interruption_note
Interrupted(turn) == turn \in {"cancelled", "failed"}
Noted(p) == \E i \in Range(taken[p]) : i.note

\* The newest turn was interrupted, and the model does not know it yet.
AcceptNote(p) ==
    /\ Took(p, "starting")
    /\ taken[p] # <<>>
    /\ ~Noted(p)
    /\ Interrupted(memory[p].newest)
    /\ Reaches(p)
    /\ queued' = [queued EXCEPT ![p] = [kind |-> "note", awaited |-> TRUE]]
    /\ GoTo(p, "saving")
    /\ UNCHANGED <<storeVars, lease, memory, taken, todo, faults, untold>>

TakeNote(p) ==
    /\ pc[p] = "noted"
    /\ ReadPending(p)
    /\ GoTo(p, "with_note")
    /\ UNCHANGED <<storeVars, lease, memory, taken, queued, faults, untold>>

\* TurnState::send: the taken inputs join the context, and their commit consumes them.
SendInputs(p) ==
    /\ SendCommit(p, InputBlocks(taken[p]), taken[p], "none", "running")
    /\ Remember(p, memory[p].context \o InputBlocks(taken[p]), memory[p].newest)
    /\ taken' = [taken EXCEPT ![p] = <<>>]

FirstCommit(p) ==
    /\ \/ /\ Took(p, "starting")
          /\ taken[p] # <<>>
          /\ Noted(p) \/ ~Interrupted(memory[p].newest)
       \/ Took(p, "with_note")
    /\ SendInputs(p)
    /\ UNCHANGED <<storeVars, todo, faults, untold>>

-----------------------------------------------------------------------------
(* The commits of a turn, as the driver sends them *)

Answers(context) == Cardinality({k \in DOMAIN context : context[k].kind \in {"text", "call"}})

\* The commit consumes what was taken before it.
Say(p, blocks, end, then) ==
    /\ Remember(p, memory[p].context \o blocks, memory[p].newest)
    /\ SendCommit(p, blocks, taken[p], end, then)
    /\ taken' = [taken EXCEPT ![p] = <<>>]
    /\ UNCHANGED <<storeVars, todo, faults, untold>>

Answer(p) ==
    /\ pc[p] = "running"
    /\ Answers(memory[p].context) < MaxAnswers
    /\ \/ Say(p, <<Plain("text")>>, "none", "after_round")
       \/ Say(p, <<Plain("call")>>, "none", "results")

Results(p) ==
    /\ pc[p] = "results"
    /\ \/ Say(p, <<Plain("result")>>, "none", "after_round")
       \/ Say(p, <<Plain("result")>>, "cancelled", "idle")

\* The request fails or is cancelled.  A cancel keeps the text so far, and closes the calls so far.
RoundEnds(p) ==
    /\ pc[p] = "running"
    /\ \/ \E end \in {"failed", "cancelled"} : Say(p, <<>>, end, "idle")
       \/ /\ Answers(memory[p].context) < MaxAnswers
          /\ \E partial \in {<<Plain("text")>>, <<Plain("call"), Plain("result")>>} :
               Say(p, partial, "cancelled", "idle")

LastIs(context, kind) == context # <<>> /\ context[Len(context)].kind = kind

\* TurnState::stop
StopEnd(context) == IF LastIs(context, "text") THEN "completed" ELSE "stopped"

\* The hook after_round stops the turn or fails, or the cancel comes first.
AfterRound(p) ==
    /\ pc[p] = "after_round"
    /\ \E end \in {StopEnd(memory[p].context), "failed", "cancelled"} : Say(p, <<>>, end, "idle")

Proceed(p) ==
    /\ pc[p] = "after_round"
    /\ ReadPending(p)
    /\ GoTo(p, "inbox")
    /\ UNCHANGED <<storeVars, lease, memory, taken, queued, faults, untold>>

\* TurnState::proceed: new input goes on, and so does the turn after calls.
InboxTaken(p) ==
    /\ Took(p, "inbox")
    /\ \/ /\ taken[p] # <<>>
          /\ SendInputs(p)
          /\ UNCHANGED <<storeVars, todo, faults, untold>>
       \/ /\ taken[p] = <<>>
          /\ LastIs(memory[p].context, "text")
          /\ Say(p, <<>>, "completed", "idle")
       \/ /\ taken[p] = <<>>
          /\ ~LastIs(memory[p].context, "text")
          /\ GoTo(p, "running")
          /\ UNCHANGED <<storeVars, lease, memory, taken, todo, queued, faults, untold>>

\* TurnState::fail: the commit of the end has no block.
InboxFailed(p) ==
    /\ pc[p] = "inbox_failed"
    /\ Say(p, <<>>, "failed", "idle")

-----------------------------------------------------------------------------
(* A caller drops the future of a turn, of an open or of new settings.  A crash loses the queue. *)

\* Before the turn runs, the session still has its lease.
KeepsLease(p) == pc[p] \in {"starting", "noted", "with_note"} \/ queued[p].kind = "note"

DropFuture(p) ==
    /\ ~Idle(p)
    /\ Fault
    /\ GoTo(p, "idle")
    /\ lease' = IF KeepsLease(p) THEN lease ELSE lease \ {p}
    /\ queued' = [queued EXCEPT ![p] =
         IF @ = NoWrite THEN NoWrite ELSE [@ EXCEPT !.awaited = FALSE]]
    /\ taken' = [taken EXCEPT ![p] = <<>>]
    /\ todo' = [todo EXCEPT ![p] = {}]
    /\ UNCHANGED <<storeVars, memory, untold>>

Crash(p) ==
    /\ ~Idle(p) \/ p \in lease \/ queued[p] # NoWrite
    /\ Fault
    /\ GoTo(p, "idle")
    /\ lease' = lease \ {p}
    /\ queued' = [queued EXCEPT ![p] = NoWrite]
    /\ taken' = [taken EXCEPT ![p] = <<>>]
    /\ todo' = [todo EXCEPT ![p] = {}]
    /\ UNCHANGED <<storeVars, memory, untold>>

TakeStep(p) ==
    \/ StartTurn(p) \/ TakeOne(p) \/ TakeFails(p) \/ NoInput(p)
    \/ AcceptNote(p) \/ TakeNote(p) \/ FirstCommit(p)

TurnStep(p) ==
    \/ Answer(p) \/ Results(p) \/ RoundEnds(p) \/ AfterRound(p)
    \/ Proceed(p) \/ InboxTaken(p) \/ InboxFailed(p)

Step(p) ==
    \/ RunWrite(p) \/ WriteFails(p)
    \/ Recover(p) \/ Close(p) \/ SetSettings(p)
    \/ TakeStep(p) \/ TurnStep(p)
    \/ DropFuture(p) \/ Crash(p)

Next ==
    \/ AcceptInput
    \/ RemoveInput
    \/ \E p \in Procs : Step(p)

Spec == Init /\ [][Next]_vars

-----------------------------------------------------------------------------
(* Properties *)

\* A process that holds the lease between turns knows the store: the context, the settings and the
\* newest turn of Session are those of the saved events, after every dropped, failed or repaired
\* write.  A turn that it finds open was ended first.
MemoryIsStore ==
    \A p \in lease : Idle(p) => memory[p] = Snapshot /\ newest # "open"

\* A queued commit continues the context that its process had in mind: no other process saved a
\* commit since, although the caller can have dropped the write and its lease.
WritesContinue ==
    \A p \in Procs : queued[p].kind = "commit" => memory[p].context = stored \o queued[p].blocks

\* The blocks of the user among the first n blocks
InputsUpTo(context, n) == {k \in 1 .. n : context[k].kind = "input"}

\* The events tell the truth about the inputs: the blocks of the user in the saved context are those
\* of the inputs that the records of the commits name, in order.
RecordsMatchBlocks ==
    /\ Len(consumed) = Cardinality(InputsUpTo(stored, Len(stored)))
    /\ \A k \in InputsUpTo(stored, Len(stored)) :
           consumed[Cardinality(InputsUpTo(stored, k))] = stored[k].id

\* The write that this step saves, if it is a commit, consumes an input with `note`.
Consumes(note) ==
    \E p \in Procs :
        /\ queued[p].kind = "commit"
        /\ \E i \in Range(queued[p].consumed) : i.note = note

\* A turn that ran knows of the interrupted turn before it: the first commit after an interrupted
\* turn consumes the note about it, unless a client removed a note meanwhile.
Told == newest \in {"cancelled", "failed"} /\ newest' = "open" => untold \/ Consumes(TRUE)
InterruptionTold == [][Told]_vars

\* "Returns why the inbox cannot give its input. The turn then ends with [`RoundError::Inbox`]."
\* (engine/src/drive.rs, Inbox::take): the commit of that end goes to the store.
EndsAsFailed ==
    \A p \in Procs :
        pc[p] = "inbox_failed" /\ pc'[p] # "inbox_failed" /\ faults' = faults
        => queued'[p].kind = "commit" /\ queued'[p].end = "failed"
InboxFailureEnds == [][EndsAsFailed]_vars

\* Each accepted input leaves the pending inputs once, by a removal or into the saved events, in
\* the order of its acceptance (InputQueue), whatever is dropped, fails or crashes.
Inputs == INSTANCE InputQueue WITH
    waiting <- {i.id : i \in pending},
    log <- consumed

ImplementsQueue == Inputs!Spec
=============================================================================
