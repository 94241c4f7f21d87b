-------------------------------- MODULE Turn --------------------------------
(***************************************************************************)
(* One assistant turn of crates/engine: the decisions of TurnState         *)
(* (turn_state.rs) and the driver that carries them out (drive.rs).        *)
(*                                                                         *)
(* The driver is one task.  Every `await` of the code is a value of `pc`;  *)
(* the code between two awaits is one action.  Anything the driver waits   *)
(* for (a hook, the credential, the transport, a tool, the journal, the    *)
(* inbox) may answer with each of its results.  A cancel of the token may  *)
(* come between any two steps; `race` polls the token before the work, so  *)
(* a raced wait gives its result only while the token is not cancelled.    *)
(*                                                                         *)
(* `copy` is what a reader of the journal gets who replays each saved      *)
(* commit in order (Commit::apply).                                        *)
(***************************************************************************)
EXTENDS Integers, Sequences, FiniteSets

CONSTANTS
    MaxRounds,     \* bound: the hooks of the caller continue at most this often
    MaxAttempts,   \* retry::Policy::max_attempts
    MaxAnswer,     \* bound: the most blocks of one answer
    FirstContext,  \* the contexts that a turn can start with, as the session loads them
    FirstId        \* the ids of earlier calls are below it, the ids of the turn's calls are not

ASSUME BoundsAssumption ==
    /\ MaxRounds \in Nat \ {0}
    /\ MaxAttempts \in Nat \ {0}
    /\ MaxAnswer \in Nat

(***************************************************************************)
(* Blocks.  The text of a block never matters, so a block is its kind, the *)
(* id of its call, and a tag: how a call runs, or how its result came.     *)
(***************************************************************************)
Kinds == {"input", "head", "text", "reasoning", "call", "result"}
Modes == {"parallel", "serial", "refused"}
Tags == Modes \cup {"none", "ran", "not_run"}
Block == [kind : Kinds, id : Nat, tag : Tags]

Plain(kind) == [kind |-> kind, id |-> 0, tag |-> "none"]
Call(id, mode) == [kind |-> "call", id |-> id, tag |-> mode]
ToolResult(id, tag) == [kind |-> "result", id |-> id, tag |-> tag]

IsCall(b) == b.kind = "call"

\* The positions of the calls of `blocks` that have not exactly one result after them
Unanswered(blocks) ==
    {k \in DOMAIN blocks :
        /\ IsCall(blocks[k])
        /\ Cardinality({r \in k + 1 .. Len(blocks) :
                          blocks[r].kind = "result" /\ blocks[r].id = blocks[k].id}) # 1}

\* The session answers the open calls of a turn that was interrupted before the next turn starts.
ASSUME ContextAssumption ==
    /\ FirstId \in Nat \ {0}
    /\ FirstContext \subseteq Seq(Block)
    /\ \A blocks \in FirstContext :
         /\ \A k \in DOMAIN blocks : blocks[k].id < FirstId
         /\ Unanswered(blocks) = {}

\* not_executed for each of `calls`
NotExecuted(calls) == [i \in 1 .. Len(calls) |-> ToolResult(calls[i].id, "not_run")]

FinishReasons == {"stop", "tool_calls", "length", "content_filter"}
TurnEnds == {"none", "completed", "stopped", "cancelled", "failed"}

VARIABLES
    pc,         \* the await at which the driver waits
    context,    \* TurnState.context
    saved,      \* TurnState.saved
    turnEnd,    \* TurnState.turn_end: "none" or the finish reason
    commit,     \* the commit that the driver saves now, NoCommit between saves
    copy,       \* the replay of the saved commits
    cancelled,  \* the cancellation token
    rounds,     \* how often the caller let the turn send a round
    attempt,    \* `number` of Driver::send
    draft,      \* the stopped blocks of the open reply, by their kind
    open,       \* the kind of the block that streams, or "none"
    nextId,     \* the id of the next tool call of a provider
    calls,      \* the calls of the answer that call_tools runs
    status,     \* how far each of them is
    group,      \* the calls of the current group
    started     \* history: the ids of the calls whose tool started

vars == <<pc, context, saved, turnEnd, commit, copy, cancelled, rounds, attempt,
          draft, open, nextId, calls, status, group, started>>

toolVars == <<calls, status, group, started>>
replyVars == <<attempt, draft, open, nextId>>

-----------------------------------------------------------------------------
(* The open reply.  The order between the text and the calls of an answer is left out. *)

NoDraft == [reasoning |-> <<>>, text |-> <<>>, call |-> <<>>]
Answer == draft.reasoning \o draft.text \o draft.call

-----------------------------------------------------------------------------
(* Commits *)

Commit == [replaced : BOOLEAN, head : Seq(Block), keep : Nat, blocks : Seq(Block),
           end : TurnEnds, display : SUBSET [index : Int, id : Nat]]

CommitOf(blocks, end, display) ==
    [replaced |-> FALSE, head |-> <<>>, keep |-> 0, blocks |-> blocks,
     end |-> end, display |-> display]

CommitReplaced(head, keep) ==
    [replaced |-> TRUE, head |-> head, keep |-> keep, blocks |-> <<>>,
     end |-> "none", display |-> {}]

NoCommit == CommitOf(<<>>, "none", {})

SaturatingSub(a, b) == IF b < a THEN a - b ELSE 0

\* Vec::splice of the first `cut` blocks
Splice(blocks, cut, head) == head \o SubSeq(blocks, cut + 1, Len(blocks))

\* Commit::apply
Apply(c, blocks) ==
    (IF c.replaced THEN Splice(blocks, SaturatingSub(Len(blocks), c.keep), c.head) ELSE blocks)
        \o c.blocks

\* The blocks since the last commit, as take_unsaved and the slice after it give them
Unsaved(blocks) == SubSeq(blocks, saved + 1, Len(blocks))

\* The context becomes `blocks`, and the commit of `step` holds what came since the last one
TakeUnsaved(blocks, step, end, display) ==
    /\ context' = blocks
    /\ saved' = Len(blocks)
    /\ commit' = CommitOf(Unsaved(blocks), end, display)
    /\ pc' = step

AfterRound(blocks, display) == TakeUnsaved(blocks, "save_round", "none", display)
Done(blocks, end, display) == TakeUnsaved(blocks, "save_done", end, display)

\* send: the input joins the context, and without new blocks there is no commit
Send(input) ==
    /\ turnEnd' = "none"
    /\ rounds' = rounds + 1
    /\ TakeUnsaved(context \o input,
                   IF Unsaved(context \o input) = <<>> THEN "before_round" ELSE "save_input",
                   "none", {})

Stop == Done(context, IF turnEnd = "none" THEN "stopped" ELSE "completed", {})
Fail == Done(context, "failed", {})
CancelTurn == Done(context, "cancelled", {})

-----------------------------------------------------------------------------
(* The start of the turn: TurnState::new, then send of the input *)

Init ==
    /\ context \in FirstContext
    /\ copy = context
    /\ saved = Len(context)
    /\ pc = "start"
    /\ turnEnd = "none"
    /\ commit = NoCommit
    /\ cancelled = FALSE
    /\ rounds = 0
    /\ attempt = 1
    /\ draft = NoDraft
    /\ open = "none"
    /\ nextId = FirstId
    /\ calls = <<>>
    /\ status = <<>>
    /\ group = {}
    /\ started = {}

Start ==
    /\ pc = "start"
    /\ Send(<<Plain("input")>>)
    /\ UNCHANGED <<copy, cancelled, replyVars, toolVars>>

Ended == pc \in {"ended", "commit_failed"}

Cancel ==
    /\ ~Ended
    /\ ~cancelled
    /\ cancelled' = TRUE
    /\ UNCHANGED <<pc, context, saved, turnEnd, commit, copy, rounds, replyVars, toolVars>>

-----------------------------------------------------------------------------
(* Saves.  A save never races the cancel. *)

AfterSave == [save_input |-> "before_round", save_replaced |-> "credential",
              save_answer |-> "group", save_round |-> "after_round", save_done |-> "ended"]

Save ==
    /\ pc \in DOMAIN AfterSave
    /\ pc' = AfterSave[pc]
    /\ copy' = Apply(commit, copy)
    /\ commit' = NoCommit
    /\ UNCHANGED <<context, saved, turnEnd, cancelled, rounds, replyVars, toolVars>>

\* The journal did not confirm the commit.  It can still have saved it.
SaveFailed ==
    /\ pc \in DOMAIN AfterSave
    /\ pc' = "commit_failed"
    /\ \/ copy' = Apply(commit, copy) /\ commit' = NoCommit
       \/ UNCHANGED <<copy, commit>>
    /\ UNCHANGED <<context, saved, turnEnd, cancelled, rounds, replyVars, toolVars>>

-----------------------------------------------------------------------------
(* send_round: the hooks around a round *)

\* Mutant: the mark of the saved blocks stays where it was.
Replace_KeepsMark(head, keep) ==
    LET new == Splice(context, SaturatingSub(Len(context), keep), head)
    IN /\ context' = new
       /\ saved' = saved
       /\ commit' = CommitReplaced(head, Len(new) - Len(head))
       /\ pc' = "save_replaced"

\* TurnState::replace
Replace(head, keep) ==
    LET cut == SaturatingSub(Len(context), keep)
        new == Splice(context, cut, head)
    IN /\ context' = new
       /\ saved' = Len(new)
       /\ commit' = CommitReplaced(head, Len(new) - Len(head))
       /\ pc' = "save_replaced"

\* A plan with a replacement that changes something saves it before the request.
SendPlan ==
    /\ attempt' = 1
    /\ \/ /\ pc' = "credential"
          /\ UNCHANGED <<context, saved, commit>>
       \/ \E head \in {<<>>, <<Plain("head")>>}, keep \in 0 .. Len(context) + 1 :
            /\ head # <<>> \/ keep < Len(context)
            /\ Replace(head, keep)

BeforeRound ==
    /\ pc = "before_round"
    /\ ~cancelled
    /\ \/ SendPlan
       \/ Fail /\ UNCHANGED attempt
    /\ UNCHANGED <<turnEnd, copy, cancelled, rounds, draft, open, nextId, toolVars>>

\* The round failed, and the hook sends it again, ends the turn, or fails.
RetryRound ==
    /\ pc = "retry_round"
    /\ ~cancelled
    /\ \/ rounds < MaxRounds /\ rounds' = rounds + 1 /\ SendPlan
       \/ Fail /\ UNCHANGED <<attempt, rounds>>
    /\ UNCHANGED <<turnEnd, copy, cancelled, draft, open, nextId, toolVars>>

-----------------------------------------------------------------------------
(* Driver::send: one request with its retries *)

\* The credential and the encoded request are there, or one of them failed.
OpenRequest ==
    /\ pc = "credential"
    /\ ~cancelled
    /\ pc' \in {"opening", "retry_round"}
    /\ UNCHANGED <<context, saved, turnEnd, commit, copy, cancelled, rounds, replyVars, toolVars>>

ReplyOpened ==
    /\ pc = "opening"
    /\ ~cancelled
    /\ pc' = "streaming"
    /\ UNCHANGED <<context, saved, turnEnd, commit, copy, cancelled, rounds, replyVars, toolVars>>

BlockStarted ==
    /\ pc = "streaming"
    /\ ~cancelled
    /\ open = "none"
    /\ Len(Answer) < MaxAnswer
    /\ open' \in {"text", "reasoning", "call"}
    /\ UNCHANGED <<pc, context, saved, turnEnd, commit, copy, cancelled, rounds,
                   attempt, draft, nextId, toolVars>>

BlockStopped ==
    /\ pc = "streaming"
    /\ ~cancelled
    /\ open # "none"
    /\ IF open = "call"
       THEN /\ \E mode \in Modes :
                 draft' = [draft EXCEPT !.call = Append(@, Call(nextId, mode))]
            /\ nextId' = nextId + 1
       ELSE /\ draft' = [draft EXCEPT ![open] = Append(@, Plain(open))]
            /\ UNCHANGED nextId
    /\ open' = "none"
    /\ UNCHANGED <<pc, context, saved, turnEnd, commit, copy, cancelled, rounds, attempt, toolVars>>

\* retry::decide: an attempt that gave an event never repeats, and its cause decides too
MayRetry == draft = NoDraft /\ open = "none" /\ attempt < MaxAttempts

AttemptFailed ==
    /\ pc = "streaming"
    /\ ~cancelled
    /\ \/ pc' = "retry_round"
       \/ MayRetry /\ pc' = "sleeping"
    /\ draft' = NoDraft
    /\ open' = "none"
    /\ UNCHANGED <<context, saved, turnEnd, commit, copy, cancelled, rounds, attempt, nextId, toolVars>>

RetryAttempt ==
    /\ pc = "sleeping"
    /\ ~cancelled
    /\ pc' = "credential"
    /\ attempt' = attempt + 1
    /\ UNCHANGED <<context, saved, turnEnd, commit, copy, cancelled, rounds, draft, open, nextId, toolVars>>

\* Mutant: the calls run first, and the answer joins the commit of their results.
SaveAnswer_Later(blocks) ==
    context' = blocks /\ pc' = "group" /\ UNCHANGED <<saved, commit>>

\* The answer with calls is saved before a call runs.
SaveAnswer(blocks) == TakeUnsaved(blocks, "save_answer", "none", {})

\* TurnState::model_finished
ModelFinished ==
    /\ pc = "streaming"
    /\ ~cancelled
    /\ open = "none"
    /\ \E reason \in FinishReasons :
         \/ /\ draft.call = <<>>
            /\ turnEnd' = reason
            /\ AfterRound(context \o Answer, {})
            /\ UNCHANGED calls
         \/ /\ draft.call # <<>>
            /\ reason \in {"tool_calls", "stop"}
            /\ SaveAnswer(context \o Answer)
            /\ calls' = draft.call
            /\ UNCHANGED turnEnd
         \/ /\ draft.call # <<>>
            /\ reason \notin {"tool_calls", "stop"}
            /\ turnEnd' = IF reason = "length" THEN turnEnd ELSE reason
            /\ AfterRound(context \o (Answer \o NotExecuted(draft.call)), {})
            /\ UNCHANGED calls
    /\ draft' = NoDraft
    /\ UNCHANGED <<copy, cancelled, rounds, attempt, open, nextId, status, group, started>>

\* Reply::cancel: the text that streams stays, a call with incomplete arguments does not, and the
\* driver drops the reasoning.
Partial == draft.text \o (IF open = "text" THEN <<Plain("text")>> ELSE <<>>) \o draft.call

\* Mutant: a cancelled answer keeps its calls without results.
KeepPartial_NoResults ==
    /\ Done(context \o Partial, "cancelled", {})
    /\ draft' = NoDraft
    /\ open' = "none"
    /\ UNCHANGED <<turnEnd, copy, cancelled, rounds, attempt, nextId, toolVars>>

\* TurnState::model_cancelled: each call of the partial output gets a result
KeepPartial ==
    /\ Done(context \o (Partial \o NotExecuted(draft.call)), "cancelled", {})
    /\ draft' = NoDraft
    /\ open' = "none"
    /\ UNCHANGED <<turnEnd, copy, cancelled, rounds, attempt, nextId, toolVars>>

\* Mutant: the wait before a retry does not see the cancel.
ModelCancelled_NotAsleep ==
    /\ pc \in {"before_round", "credential", "opening", "streaming", "sleeping", "retry_round"}
    /\ cancelled
    /\ IF pc = "sleeping" THEN UNCHANGED vars ELSE KeepPartial

\* A cancel during a wait of send_round
ModelCancelled ==
    /\ pc \in {"before_round", "credential", "opening", "streaming", "sleeping", "retry_round"}
    /\ cancelled
    /\ KeepPartial

-----------------------------------------------------------------------------
(* call_tools: groups of calls *)

Statuses == {"waiting", "approved", "running", "returned", "ran", "not_run"}
Finished == {"ran", "not_run"}

\* Driver::concurrency: a refused call waits for no other call
Parallel(c) == c.tag # "serial"

\* Mutant: the first call of a group may be serial and still share the group.
GroupFrom_SerialFirst(first) ==
    {i \in first .. Len(calls) : \A j \in first + 1 .. i : Parallel(calls[j])}

\* A serial call is a group of its own, and consecutive parallel calls form one group.
GroupFrom(first) ==
    {i \in first .. Len(calls) : i = first \/ \A j \in first .. i : Parallel(calls[j])}

StartCalls ==
    /\ pc = "group"
    /\ group' = GroupFrom(1)
    /\ status' = [i \in 1 .. Len(calls) |-> "waiting"]
    /\ pc' = "asking"
    /\ UNCHANGED <<context, saved, turnEnd, commit, copy, cancelled, rounds, replyVars, calls, started>>

SetStatus(i, s) ==
    /\ status' = [status EXCEPT ![i] = s]
    /\ pc' = IF pc = "asking" /\ \A j \in group : j = i \/ status[j] # "waiting"
             THEN "running" ELSE pc
    /\ UNCHANGED <<context, saved, turnEnd, commit, copy, cancelled, rounds, replyVars, calls, group>>

NextIn(i, s) == i \in group /\ status[i] = s /\ \A j \in group : j < i => status[j] # s

\* The hooks decide for each call in call order.  A refused call asks no hook.
BeforeTool(i) ==
    /\ pc = "asking"
    /\ NextIn(i, "waiting")
    /\ IF calls[i].tag = "refused" \/ cancelled
       THEN SetStatus(i, "not_run")
       ELSE \E s \in {"approved", "not_run"} : SetStatus(i, s)
    /\ UNCHANGED started

\* Mutant: a cancel during the hooks does not keep the call from its start.
RunCall_AfterCancel(i) ==
    /\ pc = "running"
    /\ NextIn(i, "approved")
    /\ SetStatus(i, "running")
    /\ started' = started \cup {calls[i].id}

\* run_call: join_all polls the approved calls in call order.
RunCall(i) ==
    /\ pc = "running"
    /\ NextIn(i, "approved")
    /\ IF cancelled
       THEN SetStatus(i, "not_run") /\ UNCHANGED started
       ELSE SetStatus(i, "running") /\ started' = started \cup {calls[i].id}

\* The driver waits for each tool that runs, also after a cancel.
ToolReturns(i) ==
    /\ pc = "running"
    /\ i \in group
    /\ status[i] = "running"
    /\ SetStatus(i, "returned")
    /\ UNCHANGED started

\* Mutant: a cancel during the after_tool hook reports that the call did not run.
AfterTool_CancelDenies(i) ==
    /\ pc = "running"
    /\ i \in group
    /\ status[i] = "returned"
    /\ SetStatus(i, IF cancelled THEN "not_run" ELSE "ran")
    /\ UNCHANGED started

\* The after_tool hook may replace the outcome, and a cancel keeps it.
AfterTool(i) ==
    /\ pc = "running"
    /\ i \in group
    /\ status[i] = "returned"
    /\ SetStatus(i, "ran")
    /\ UNCHANGED started

GroupDone == pc = "running" /\ \A i \in group : status[i] \in Finished

NextGroup ==
    /\ GroupDone
    /\ \E next \in DOMAIN calls \ group :
         /\ next - 1 \in group
         /\ group' = GroupFrom(next)
    /\ pc' = "asking"
    /\ UNCHANGED <<context, saved, turnEnd, commit, copy, cancelled, rounds, replyVars,
                   calls, status, started>>

\* The outcome of each call, in call order
Outcomes == [i \in 1 .. Len(calls) |-> ToolResult(calls[i].id, status[i])]

\* add_outcomes: a call that ran has a duration, so it has a display at its block of the commit
DisplayFrom(len) ==
    {[index |-> len - saved + i - 1, id |-> calls[i].id] : i \in {k \in DOMAIN calls : status[k] = "ran"}}

\* tools_finished, or tools_cancelled
ToolsFinished ==
    /\ GroupDone
    /\ Len(calls) \in group
    /\ IF cancelled
       THEN Done(context \o Outcomes, "cancelled", DisplayFrom(Len(context)))
       ELSE AfterRound(context \o Outcomes, DisplayFrom(Len(context)))
    /\ calls' = <<>>
    /\ status' = <<>>
    /\ group' = {}
    /\ UNCHANGED <<turnEnd, copy, cancelled, rounds, replyVars, started>>

-----------------------------------------------------------------------------
(* After a round *)

\* The driver takes the input only when the turn goes on.  The engine sets no limit on that loop;
\* MaxRounds is the limit of the caller.
AfterRoundHook ==
    /\ pc = "after_round"
    /\ ~cancelled
    /\ \/ /\ rounds < MaxRounds
          /\ pc' = "inbox"
          /\ UNCHANGED <<context, saved, commit>>
       \/ Stop
       \/ Fail
    /\ UNCHANGED <<turnEnd, copy, cancelled, rounds, replyVars, toolVars>>

AfterRoundCancelled ==
    /\ pc = "after_round"
    /\ cancelled
    /\ CancelTurn
    /\ UNCHANGED <<turnEnd, copy, cancelled, rounds, replyVars, toolVars>>

\* The take does not race the cancel.  An input after the final answer continues the turn.
TakeInput ==
    /\ pc = "inbox"
    /\ \/ \E input \in {<<>>, <<Plain("input")>>} :
            IF turnEnd # "none" /\ input = <<>>
            THEN Stop /\ UNCHANGED <<turnEnd, rounds>>
            ELSE Send(input)
       \/ Fail /\ UNCHANGED <<turnEnd, rounds>>
    /\ UNCHANGED <<copy, cancelled, replyVars, toolVars>>

Terminated == Ended /\ UNCHANGED vars

ToolStep == \E i \in DOMAIN calls : BeforeTool(i) \/ RunCall(i) \/ ToolReturns(i) \/ AfterTool(i)

Next ==
    \/ Start \/ Cancel \/ Save \/ SaveFailed
    \/ BeforeRound \/ RetryRound
    \/ OpenRequest \/ ReplyOpened \/ BlockStarted \/ BlockStopped
    \/ AttemptFailed \/ RetryAttempt \/ ModelFinished \/ ModelCancelled
    \/ StartCalls \/ ToolStep \/ NextGroup \/ ToolsFinished
    \/ AfterRoundHook \/ AfterRoundCancelled \/ TakeInput
    \/ Terminated

Spec == Init /\ [][Next]_vars

(***************************************************************************)
(* Fairness of the executor only: the driver is polled, a raced wait sees  *)
(* the cancel, and the store, the inbox and a tool that runs return.  No   *)
(* hook, credential source, provider or timer is assumed to answer.        *)
(***************************************************************************)
Fairness ==
    /\ WF_vars(Start \/ Save \/ SaveFailed)
    /\ WF_vars(ModelCancelled) /\ WF_vars(AfterRoundCancelled) /\ WF_vars(TakeInput)
    /\ WF_vars(StartCalls) /\ WF_vars(NextGroup) /\ WF_vars(ToolsFinished)
    /\ WF_vars(cancelled /\ ToolStep)

FairSpec == Spec /\ Fairness

-----------------------------------------------------------------------------
(* Properties *)

Steps == DOMAIN AfterSave \cup
    {"start", "before_round", "retry_round", "credential", "opening", "streaming", "sleeping",
     "group", "asking", "running", "after_round", "inbox", "ended", "commit_failed"}

\* The types of the driver and of TurnState.  The retry policy bounds the attempts of a request, and
\* the caller bounds the rounds.
TypeOK ==
    /\ pc \in Steps
    /\ context \in Seq(Block)
    /\ saved \in Nat
    /\ turnEnd \in FinishReasons \cup {"none"}
    /\ commit \in Commit
    /\ copy \in Seq(Block)
    /\ cancelled \in BOOLEAN
    /\ rounds \in 0 .. MaxRounds
    /\ attempt \in 1 .. MaxAttempts
    /\ draft \in [reasoning : Seq(Block), text : Seq(Block), call : Seq(Block)]
    /\ open \in {"none", "text", "reasoning", "call"}
    /\ nextId \in Nat
    /\ calls \in Seq(Block)
    /\ status \in Seq(Statuses)
    /\ group \subseteq Nat
    /\ started \subseteq Nat

\* Commit's promise: who replays each commit on a copy of the context gets the context, also through
\* a replacement whose plan keeps more blocks than there are, and also when the save that failed was
\* the last one.  At every await the whole context belongs to a commit.
ReplayIsContext ==
    /\ saved = Len(context)
    /\ Apply(commit, copy) = context

\* The driver saves before it acts: a provider sees only blocks that the journal holds, and a hook or
\* a tool sees a call only after the journal holds the answer with that call.
SavedBeforeActs ==
    /\ pc \in {"opening", "streaming", "after_round", "inbox"} => copy = context
    /\ pc \in {"asking", "running"} =>
         \A i \in DOMAIN calls : \E k \in DOMAIN copy : copy[k] = calls[i]

\* A request is valid for each provider, and the context of a turn that ended too: each call has
\* exactly one result after it, however the answer, a cancel or a replacement came.  The repair of
\* an open turn (open_calls of session.rs) relies on the rest, for a crash at any moment: in the
\* journal, only calls after the last block of the user lack a result.
CallsAnswered ==
    /\ pc \in {"before_round", "credential", "opening", "streaming", "sleeping", "retry_round",
              "after_round", "inbox", "ended"} => Unanswered(context) = {}
    /\ \A k \in Unanswered(copy) : \A r \in k + 1 .. Len(copy) : copy[r].kind \notin {"input", "result"}

\* A result tells the truth.  The text "was not executed" stands exactly for the calls whose tool
\* never started; and the display of a commit names the block of its result, so a frontend never
\* shows the output of one call under another.
ResultsTruthful ==
    /\ \A k \in DOMAIN context : context[k].kind = "result" /\ context[k].id >= FirstId =>
         (context[k].tag = "ran" <=> context[k].id \in started)
    /\ \A d \in commit.display :
         d.index + 1 \in DOMAIN commit.blocks /\ commit.blocks[d.index + 1] = ToolResult(d.id, "ran")

\* A serial tool never runs beside another call of its answer: the calls before it are finished when
\* it starts, and it is finished when a call after it starts.
SerialAlone ==
    \A i, j \in DOMAIN status :
        /\ i < j
        /\ ~Parallel(calls[i]) \/ ~Parallel(calls[j])
        /\ status[j] \notin {"waiting", "not_run"}
        => status[i] \in Finished

\* After a cancel the driver opens no request, starts no tool and takes at most the input that it
\* was taking.
NoNewWork ==
    cancelled =>
        /\ started' = started
        /\ pc' = "opening" => pc = "opening"
        /\ pc' = "inbox" => pc = "inbox"
        /\ draft' # NoDraft => draft' = draft

\* A cancel ends the turn, although no hook, credential, provider or timer ever answers,
\* and nothing new starts before the end (drive.rs:904).
CancelEnds == [][NoNewWork]_vars /\ (cancelled ~> Ended)
=============================================================================
