---------------------------- MODULE MessagesReply ----------------------------
(* The reducer of Anthropic Messages (ai/src/stream/anthropic.rs): what one payload does to the *)
(* draft.  `slots` gives the block of each provider index, 0 for an ignored block.              *)
EXTENDS Draft

BlockKind == [text |-> "text", whole_text |-> "text", thinking |-> "reasoning",
              whole_thinking |-> "reasoning", redacted_thinking |-> "reasoning",
              tool_use |-> "tool_call"]
DeltaKinds == [text_delta |-> "text", thinking_delta |-> "reasoning",
               signature_delta |-> "reasoning", input_json_delta |-> "tool_call"]
FinishReasons == [end_turn |-> "stop", max_tokens |-> "length", tool_use |-> "tool_calls",
                  refusal |-> "refusal"]

MessagesNew == [draft |-> NewDraft, slots |-> <<>>]

\* An ignored block takes its slot.
IgnoreBlock(r) == [r EXCEPT !.slots = Append(@, 0)]

\* The indexes are dense.  The first payload of a block can hold its text or its whole trace.
OnBlockStart(r, p) ==
    CASE p.index # Len(r.slots) -> [r EXCEPT !.draft = Fail(@, "protocol")]
      [] p.index = Len(r.slots) /\ Len(r.slots) >= MaxBlocks ->
           [r EXCEPT !.draft = Fail(@, "too_large")]
      [] p.index = Len(r.slots) /\ Len(r.slots) < MaxBlocks /\ p.block \notin DOMAIN BlockKind ->
           IgnoreBlock(r)
      [] OTHER ->
           LET id == NewId(r.draft)
               started == Start(r.draft, BlockKind[p.block])
           IN [slots |-> Append(r.slots, id),
               draft |->
                 CASE p.block = "tool_use" -> Identify(started, id, TRUE)
                   [] p.block = "redacted_thinking" -> SetReplay(started, id, "redacted")
                   [] p.block = "thinking" -> SetReplay(started, id, "signature")
                   [] p.block = "whole_thinking" -> Delta(SetReplay(started, id, "signature"), id)
                   [] p.block = "whole_text" -> Delta(started, id)
                   [] p.block = "text" -> started]

\* The block that an index names.  An ignored block takes no event, even a malformed one.
OnSlot(r, p, Change(_, _)) ==
    IF p.index >= Len(r.slots) THEN [r EXCEPT !.draft = Fail(@, "protocol")]
    ELSE LET id == r.slots[p.index + 1] IN
         IF id = 0 THEN r ELSE [r EXCEPT !.draft = Change(@, id)]

ApplyDelta(r, p) ==
    LET Apply(d, id) ==
            CASE ~IsOpen(d, id) -> Fail(d, "protocol")
              [] IsOpen(d, id) /\ p.delta \notin DOMAIN DeltaKinds -> d
              [] OTHER ->
                   IF d.blocks[id].kind # DeltaKinds[p.delta] \/ d.blocks[id].replay = "redacted"
                   THEN Fail(d, "protocol")
                   ELSE CASE p.delta = "signature_delta" -> d
                          [] p.delta = "input_json_delta" -> ToolDelta(d, id)
                          [] OTHER -> Delta(d, id)
    IN OnSlot(r, p, Apply)

MessagesDecode(r, p) ==
    CASE p.type = "content_block_start" -> OnBlockStart(r, p)
      [] p.type = "content_block_delta" -> ApplyDelta(r, p)
      [] p.type = "content_block_stop" -> OnSlot(r, p, Stop)
      [] p.type = "message_delta" -> [r EXCEPT !.draft.finish =
             IF p.reason \in DOMAIN FinishReasons THEN FinishReasons[p.reason] ELSE "unknown"]
      [] p.type = "message_stop" -> [r EXCEPT !.draft =
             IF AnyOpen(@) THEN Fail(@, "protocol") ELSE Finish(@)]
      [] p.type = "error" -> [r EXCEPT !.draft = Fail(@, "provider")]
      [] p.type = "malformed" -> [r EXCEPT !.draft = Fail(@, "protocol")]
      [] OTHER -> r

\* What a provider sends: an index of its blocks, the next one, or a wrong one
MessagesPayloads(r) ==
    LET next == Len(r.slots) IN
    [type : {"content_block_start"}, index : {next},
     block : DOMAIN BlockKind \cup {"other"}]
    \cup [type : {"content_block_start"}, index : {next + 1}, block : {"text"}]
    \cup [type : {"content_block_delta"}, index : 0 .. next,
          delta : DOMAIN DeltaKinds \cup {"other"}]
    \cup [type : {"content_block_stop"}, index : 0 .. next]
    \cup [type : {"message_delta"}, reason : {"end_turn", "tool_use", "other"}]
    \cup [type : {"message_stop", "error", "other", "malformed"}]

-----------------------------------------------------------------------------
(* The same payload as what the provider says about its blocks *)

Says(do, at, kind) == [do |-> do, at |-> at, kind |-> kind]

MessagesEffects(p) ==
    CASE p.type = "content_block_start" /\ p.block \in DOMAIN BlockKind ->
           <<Says("open", <<p.index>>, BlockKind[p.block])>>
           \o (IF p.block \in {"whole_text", "whole_thinking"}
               THEN <<Says("text", <<p.index>>, BlockKind[p.block])>> ELSE <<>>)
      [] p.type = "content_block_delta" /\ p.delta \in DOMAIN DeltaKinds \ {"signature_delta"} ->
           <<Says("add", <<p.index>>, DeltaKinds[p.delta])>>
      [] p.type = "content_block_stop" -> <<Says("close", <<p.index>>, "any")>>
      [] p.type = "message_stop" -> <<Says("end", <<>>, "any")>>
      [] OTHER -> <<>>
=============================================================================
