-------------------------------- MODULE Draft --------------------------------
(***************************************************************************)
(* The block table and the end of one response, that the three reducers    *)
(* share (ai/src/stream/draft.rs).                                         *)
(*                                                                         *)
(* A draft is a record.  A step that fails leaves its error in the draft;  *)
(* the stream then ends, so nothing after the error matters.  Text is      *)
(* counted in deltas, and arguments in fragments.                          *)
(***************************************************************************)
EXTENDS Naturals, Sequences, SequencesExt

CONSTANTS
    MaxBlocks,  \* ResponseLimits::max_blocks
    MaxArgs     \* ResponseLimits::max_tool_arg_bytes, in fragments

\* The arguments that replace the fragments
Final == 1000

NewDraft ==
    [blocks |-> <<>>, events |-> <<>>, finish |-> "unknown", done |-> FALSE, error |-> "none"]

Fail(draft, error) == IF draft.error = "none" THEN [draft EXCEPT !.error = error] ELSE draft
Emit(draft, event) == [draft EXCEPT !.events = Append(@, event)]

IsOpen(draft, id) == draft.blocks[id].state = "open"
AnyOpen(draft) == \E id \in DOMAIN draft.blocks : IsOpen(draft, id)

\* Draft::start: the id of the block is its index.
Start(draft, kind) ==
    IF Len(draft.blocks) >= MaxBlocks THEN Fail(draft, "too_large")
    ELSE Emit([draft EXCEPT !.blocks = Append(@,
                  [kind |-> kind, state |-> "open", named |-> FALSE, search |-> FALSE, args |-> 0,
                   replay |-> "none"])],
              [event |-> "started", id |-> Len(draft.blocks) + 1, kind |-> kind])
NewId(draft) == Len(draft.blocks) + 1

\* Draft::open, then a change of the block.  A finished block rejects the frame.
OnOpen(draft, id, Change(_)) ==
    IF draft.error # "none" THEN draft
    ELSE IF IsOpen(draft, id) THEN Change(draft) ELSE Fail(draft, "protocol")

\* Draft::identify: the first value that names the call stays.
Identify(draft, id, named) ==
    LET Set(d) == [d EXCEPT !.blocks[id].named = @ \/ named] IN OnOpen(draft, id, Set)

Delta(draft, id) ==
    LET Add(d) == Emit(d, [event |-> "delta", id |-> id]) IN OnOpen(draft, id, Add)

\* The break before a new section is no text of the provider.
Separator(draft, id) ==
    LET Add(d) == Emit(d, [event |-> "separator", id |-> id]) IN OnOpen(draft, id, Add)

Section(draft, id) ==
    LET Add(d) == Emit(d, [event |-> "section", id |-> id]) IN OnOpen(draft, id, Add)

SetReplay(draft, id, replay) ==
    LET Set(d) == [d EXCEPT !.blocks[id].replay = replay] IN OnOpen(draft, id, Set)

ToolDelta(draft, id) ==
    LET Add(d) == IF d.blocks[id].args >= MaxArgs THEN Fail(d, "too_large")
                  ELSE Emit([d EXCEPT !.blocks[id].args = @ + 1], [event |-> "args", id |-> id])
    IN OnOpen(draft, id, Add)

FinalArgs(draft, id) ==
    LET Set(d) == [d EXCEPT !.blocks[id].args = Final] IN OnOpen(draft, id, Set)

Stop(draft, id) ==
    LET Close(d) == Emit([d EXCEPT !.blocks[id].state = "stopped"],
                         [event |-> "stopped", id |-> id])
    IN OnOpen(draft, id, Close)

StopIfOpen(draft, id) ==
    IF draft.error = "none" /\ IsOpen(draft, id) THEN Stop(draft, id) ELSE draft

DropBlock(draft, id) ==
    LET Close(d) == [d EXCEPT !.blocks[id].state = "dropped"] IN OnOpen(draft, id, Close)

\* Draft::finish: a stopped refusal turns `Stop` or `ToolCalls`.
Finish(draft) ==
    LET refused == \E id \in DOMAIN draft.blocks :
                       draft.blocks[id].kind = "refusal" /\ draft.blocks[id].state = "stopped"
    IN Emit([draft EXCEPT !.done = TRUE,
                          !.finish = IF refused /\ @ \in {"stop", "tool_calls"} THEN "refusal" ELSE @],
            [event |-> "done", id |-> 0])

\* Draft::close_and_finish
CloseAndFinish(draft, openTools) ==
    LET Close(d, id) ==
            IF ~IsOpen(d, id) THEN d
            ELSE IF openTools = "drop" /\ d.blocks[id].kind = "tool_call" THEN DropBlock(d, id)
            ELSE Stop(d, id)
    IN IF draft.error # "none" THEN draft
       ELSE Finish(FoldLeft(Close, draft, [id \in DOMAIN draft.blocks |-> id]))
=============================================================================
