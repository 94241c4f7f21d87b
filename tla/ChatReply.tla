------------------------------ MODULE ChatReply ------------------------------
(* The reducer of OpenAI Chat Completions (ai/src/stream/openai_chat.rs).  The dialect sends no    *)
(* stop of a block, so every block stays open until `[DONE]`.  A chunk holds any of the text       *)
(* channels, the details of reasoning, one fragment of a tool call, and a finish reason.           *)
EXTENDS Draft

Channels == {"text", "refusal", "reasoning"}
NoTool == [index |-> 0, function |-> FALSE, named |-> FALSE, args |-> FALSE]
Interrupted == {"aborted"}
ChatFinish == [stop |-> "stop", length |-> "length", tool_calls |-> "tool_calls"]

\* The block of each channel and of each tool index, 0 for none
ChatNew(tools) ==
    [draft |-> NewDraft, channels |-> [c \in Channels |-> 0], tools |-> [t \in tools |-> 0],
     details |-> FALSE]

\* Mutant: each delta opens a block of its own.
Channel_Always(r, kind) ==
    [r EXCEPT !.draft = Start(r.draft, kind), !.channels[kind] = NewId(r.draft)]

\* The block of a channel, started on its first use
Channel(r, kind) ==
    IF r.channels[kind] # 0 THEN r
    ELSE [r EXCEPT !.draft = Start(r.draft, kind), !.channels[kind] = NewId(r.draft)]

AppendDelta(r, kind, present) ==
    IF ~present \/ r.draft.error # "none" THEN r
    ELSE LET in == Channel(r, kind) IN [in EXCEPT !.draft = Delta(@, in.channels[kind])]

OnDetails(r, present) ==
    IF ~present \/ r.draft.error # "none" THEN r
    ELSE [Channel(r, "reasoning") EXCEPT !.details = TRUE]

\* An entry with no function adds nothing.
OnToolCall(r, call) ==
    IF ~call.function \/ r.draft.error # "none" THEN r
    ELSE LET in == IF r.tools[call.index] # 0 THEN r
                   ELSE [r EXCEPT !.draft = Start(r.draft, "tool_call"),
                                  !.tools[call.index] = NewId(r.draft)]
             id == in.tools[call.index]
             named == Identify(in.draft, id, call.named)
         IN [in EXCEPT !.draft = IF call.args THEN ToolDelta(named, id) ELSE named]

\* A server that cut the generation short fails the attempt.
OnFinish(r, reason) ==
    CASE reason = "none" -> r
      [] reason \in Interrupted -> [r EXCEPT !.draft = Fail(@, "provider")]
      [] reason \in DOMAIN ChatFinish -> [r EXCEPT !.draft.finish = ChatFinish[reason]]
      [] OTHER -> [r EXCEPT !.draft.finish = "unknown"]

OnChunk(r, p) ==
    LET thought == AppendDelta(r, "reasoning", "reasoning" \in p.has)
        detailed == OnDetails(thought, "details" \in p.has)
        spoke == AppendDelta(detailed, "text", "text" \in p.has)
        refused == AppendDelta(spoke, "refusal", "refusal" \in p.has)
    IN OnFinish(OnToolCall(refused, p.tool), p.finish)

\* store_details, and the end of every block
OnDone(r) ==
    LET stored == IF r.details THEN SetReplay(r.draft, r.channels["reasoning"], "details")
                  ELSE r.draft
    IN [r EXCEPT !.draft = CloseAndFinish(stored, "keep")]

ChatDecode(r, p) ==
    CASE p.type = "chunk" -> OnChunk(r, p)
      [] p.type = "[DONE]" -> OnDone(r)
      [] p.type = "error" -> [r EXCEPT !.draft = Fail(@, "provider")]
      [] p.type = "malformed" -> [r EXCEPT !.draft = Fail(@, "protocol")]

\* What a provider sends: one or two members of a delta, or one of them with a finish reason
ChatPayloads(r) ==
    LET members == {{m} : m \in Channels \cup {"details"}}
        pairs == {{"reasoning", "text"}, {"reasoning", "details"}, {"text", "refusal"}}
        calls == {[index |-> t, function |-> f, named |-> n, args |-> a] :
                     t \in DOMAIN r.tools, f \in {TRUE}, n \in BOOLEAN, a \in BOOLEAN}
    IN [type : {"chunk"}, has : members \cup pairs, tool : {NoTool}, finish : {"none"}]
       \cup [type : {"chunk"}, has : {{}, {"text"}}, tool : calls \cup {NoTool}, finish : {"none"}]
       \cup [type : {"chunk"}, has : {{}, {"text"}}, tool : {NoTool},
             finish : {"stop", "tool_calls", "length", "other"} \cup Interrupted]
       \cup [type : {"[DONE]", "error", "malformed"}]

-----------------------------------------------------------------------------
(* The same payload as what the provider says about its blocks *)

Says(do, at, kind) == [do |-> do, at |-> at, kind |-> kind]

ChatEffects(p) ==
    IF p.type = "[DONE]" THEN <<Says("end", <<>>, "any")>>
    ELSE IF p.type # "chunk" THEN <<>>
    ELSE LET text(c) == IF c \in p.has THEN <<Says("text", <<c>>, c)>> ELSE <<>>
         IN text("reasoning")
            \o (IF "details" \in p.has THEN <<Says("reach", <<"reasoning">>, "reasoning")>> ELSE <<>>)
            \o text("text") \o text("refusal")
            \o (IF ~p.tool.function THEN <<>>
                ELSE <<Says(IF p.tool.args THEN "text" ELSE "reach", <<"tool", p.tool.index>>,
                            "tool_call")>>)
=============================================================================
