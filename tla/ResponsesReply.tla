---------------------------- MODULE ResponsesReply ----------------------------
(* The reducer of OpenAI Responses (ai/src/stream/openai_responses.rs).  `outputs` gives the items *)
(* by their output index; an item has at most one current block of each kind.                      *)
EXTENDS Draft

Kinds == {"text", "refusal", "reasoning", "tool_call"}
NoOutput == [item |-> "unknown", blocks |-> [k \in Kinds |-> 0], summary |-> "none"]

ResponsesNew(indexes) == [draft |-> NewDraft, outputs |-> [i \in indexes |-> NoOutput]]

Known(r, i) == r.outputs[i].item # "unknown"
BlockOf(r, i, kind) == r.outputs[i].blocks[kind]
OnDraft(r, draft) == [r EXCEPT !.draft = draft]
Reject(r) == OnDraft(r, Fail(r.draft, "protocol"))

\* A new block of the item takes the slot of its kind.
StartIn(r, i, kind) ==
    [r EXCEPT !.draft = Start(r.draft, kind), !.outputs[i].blocks[kind] = NewId(r.draft)]

Calls == {"call", "search"}

\* A repeated index replaces the earlier item.  A search call may name its call id later.
OnItemAdded(r, p) ==
    LET i == p.index
        item == CASE p.item \in {"message", "reasoning"} -> p.item
                  [] p.item \in Calls -> "tool"
                  [] OTHER -> "ignored"
        fresh == [r EXCEPT !.outputs[i] = [NoOutput EXCEPT !.item = item]]
        started == StartIn(fresh, i, "tool_call")
        id == NewId(r.draft)
    IN IF ~Known(r, i) /\ Cardinality({j \in DOMAIN r.outputs : Known(r, j)}) >= MaxBlocks
       THEN OnDraft(r, Fail(r.draft, "too_large"))
       ELSE IF item # "tool" THEN fresh
       ELSE IF started.draft.error # "none" THEN started
       ELSE [started EXCEPT !.draft.blocks[id].named = p.named,
                            !.draft.blocks[id].search = p.item = "search"]

\* The parts of one kind come one after another.
OnPartAdded(r, p) ==
    CASE p.part \notin Kinds -> r
      [] p.part \in Kinds /\ ~Known(r, p.index) -> Reject(r)
      [] OTHER ->
           LET previous == BlockOf(r, p.index, p.part) IN
           IF previous # 0 /\ IsOpen(r.draft, previous) THEN Reject(r)
           ELSE StartIn(r, p.index, p.part)

\* The block of reasoning starts on its first use.
ReasoningBlock(r, i) == IF BlockOf(r, i, "reasoning") # 0 THEN r ELSE StartIn(r, i, "reasoning")

\* A new section starts on a paragraph of its own.
OnReasoning(r, i, summary) ==
    LET in == ReasoningBlock(r, i)
        id == BlockOf(in, i, "reasoning")
        last == in.outputs[i].summary
        apart == IF summary # "none" /\ last \notin {"none", summary}
                 THEN Separator(in.draft, id) ELSE in.draft
        opened == IF summary \notin {"none", last} THEN Section(apart, id) ELSE apart
    IN IF in.draft.error # "none" THEN in
       ELSE [in EXCEPT !.draft = Delta(opened, id),
                       !.outputs[i].summary = IF summary = "none" THEN @ ELSE summary]

OnDelta(r, p) ==
    LET i == p.index
        id == BlockOf(r, i, p.delta)
    IN CASE ~Known(r, i) -> Reject(r)
         [] Known(r, i) /\ p.delta = "reasoning" -> OnReasoning(r, i, p.summary)
         [] Known(r, i) /\ p.delta # "reasoning" ->
              IF id = 0 THEN Reject(r)
              ELSE OnDraft(r, IF p.delta = "tool_call" THEN ToolDelta(r.draft, id)
                              ELSE Delta(r.draft, id))

StopPart(r, p) ==
    CASE p.part \notin Kinds -> r
      [] p.part \in Kinds /\ ~Known(r, p.index) -> Reject(r)
      [] OTHER ->
           LET id == BlockOf(r, p.index, p.part) IN
           IF id = 0 THEN r ELSE OnDraft(r, StopIfOpen(r.draft, id))

\* A call that the model did not finish is dropped.
OnToolDone(r, id, p) ==
    LET block == r.draft.blocks[id]
        search == block.search /\ p.item = "search"
        named == IF search THEN Identify(r.draft, id, p.named) ELSE r.draft
    IN CASE ~IsOpen(r.draft, id) \/ (~search /\ p.item # "call") -> Reject(r)
         [] IsOpen(r.draft, id) /\ (search \/ p.item = "call") /\ ~p.completed ->
              OnDraft(r, DropBlock(r.draft, id))
         [] OTHER ->
              IF search /\ ~named.blocks[id].named THEN Reject(r)
              ELSE OnDraft(r, Stop(FinalArgs(named, id), id))

\* Encrypted reasoning can come with no delta.
OnReasoningDone(r, p) ==
    IF BlockOf(r, p.index, "reasoning") = 0 /\ ~p.encrypted THEN r
    ELSE LET in == ReasoningBlock(r, p.index)
             id == BlockOf(in, p.index, "reasoning")
             kept == IF in.draft.error = "none" /\ p.encrypted
                     THEN SetReplay(in.draft, id, "encrypted") ELSE in.draft
         IN OnDraft(in, StopIfOpen(kept, id))

OnItemDone(r, p) ==
    LET item == r.outputs[p.index].item IN
    CASE item = "unknown" -> Reject(r)
      [] item \in {"message", "ignored"} -> r
      [] item = "reasoning" -> OnReasoningDone(r, p)
      [] item = "tool" -> OnToolDone(r, BlockOf(r, p.index, "tool_call"), p)

\* Mutant: a call that was dropped counts.
HasToolCall_Any(draft) ==
    \E id \in DOMAIN draft.blocks : draft.blocks[id].kind = "tool_call"
HasToolCall(draft) ==
    \E id \in DOMAIN draft.blocks :
        draft.blocks[id].kind = "tool_call" /\ draft.blocks[id].state = "stopped"

OnEnd(r, p) ==
    LET reason == CASE p.type = "incomplete" -> p.reason
                    [] p.type = "completed" /\ HasToolCall(r.draft) -> "tool_calls"
                    [] p.type = "completed" /\ ~HasToolCall(r.draft) -> "stop"
    IN OnDraft(r, CloseAndFinish([r.draft EXCEPT !.finish = reason], "drop"))

ResponsesDecode(r, p) ==
    CASE p.type = "item.added" -> OnItemAdded(r, p)
      [] p.type = "part.added" -> OnPartAdded(r, p)
      [] p.type = "delta" -> OnDelta(r, p)
      [] p.type = "part.done" -> StopPart(r, p)
      [] p.type = "item.done" -> OnItemDone(r, p)
      [] p.type \in {"completed", "incomplete"} -> OnEnd(r, p)
      [] p.type = "failed" -> OnDraft(r, Fail(r.draft, "provider"))
      [] p.type = "malformed" -> Reject(r)
      [] OTHER -> r

\* What a provider sends.  A done item is of the kind that was added.
ResponsesPayloads(r) ==
    LET indexes == DOMAIN r.outputs
        done(i) == CASE r.outputs[i].item = "tool" -> Calls
                     [] r.outputs[i].item = "reasoning" -> {"reasoning"}
                     [] OTHER -> {"other"}
    IN [type : {"item.added"}, index : indexes, named : {TRUE},
        item : {"message", "reasoning", "call", "other"}]
       \cup [type : {"item.added"}, index : indexes, named : BOOLEAN, item : {"search"}]
       \cup [type : {"part.added", "part.done"}, index : indexes,
             part : {"text", "refusal", "reasoning", "other"}]
       \cup [type : {"delta"}, index : indexes, delta : Kinds, summary : {"none"}]
       \cup [type : {"delta"}, index : indexes, delta : {"reasoning"}, summary : {"s1", "s2"}]
       \cup UNION {[type : {"item.done"}, index : {i}, item : done(i), completed : BOOLEAN,
                    named : BOOLEAN, encrypted : BOOLEAN] : i \in indexes}
       \cup [type : {"incomplete"}, reason : {"length", "unknown"}]
       \cup [type : {"completed", "failed", "other", "malformed"}]

-----------------------------------------------------------------------------
(* The same payload as what the provider says about its blocks *)

Says(do, at, kind) == [do |-> do, at |-> at, kind |-> kind]

ResponsesEffects(p) ==
    CASE p.type = "item.added" ->
           <<Says("retire", <<p.index>>, "any")>>
           \o (IF p.item \in Calls THEN <<Says("open", <<p.index, "tool_call">>, "tool_call")>> ELSE <<>>)
      [] p.type = "part.added" /\ p.part \in Kinds -> <<Says("open", <<p.index, p.part>>, p.part)>>
      [] p.type = "delta" ->
           <<Says(IF p.delta = "reasoning" THEN "text" ELSE "add", <<p.index, p.delta>>, p.delta)>>
      [] p.type = "part.done" /\ p.part \in Kinds -> <<Says("close", <<p.index, p.part>>, "any")>>
      [] p.type = "item.done" /\ p.item = "reasoning" ->
           (IF p.encrypted THEN <<Says("reach", <<p.index, "reasoning">>, "reasoning")>> ELSE <<>>)
           \o <<Says("close", <<p.index, "reasoning">>, "any")>>
      [] p.type = "item.done" /\ p.item \in Calls ->
           IF p.completed THEN <<Says("final", <<p.index, "tool_call">>, "any")>>
           ELSE <<Says("drop", <<p.index, "tool_call">>, "any")>>
      [] p.type \in {"completed", "incomplete"} -> <<Says("end", <<>>, "drop")>>
      [] OTHER -> <<>>
=============================================================================
