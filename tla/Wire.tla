-------------------------------- MODULE Wire --------------------------------
(***************************************************************************)
(* How the three protocols write the blocks of a context into the elements *)
(* of a request (ai/src/wire.rs, wire/anthropic.rs, openai_chat.rs and     *)
(* openai_responses.rs).                                                   *)
(*                                                                         *)
(* A request is a sequence of tokens: the opening and the close of each    *)
(* object that holds parts, one token for a part or a small object, and    *)
(* the commas.  A block is its kind: the content of a block never decides  *)
(* where an element ends.  A "missing" attachment fails its write: its     *)
(* blob is gone, or the protocol does not carry it.                        *)
(***************************************************************************)
EXTENDS Naturals, Sequences, SequencesExt

Media == {"image", "missing"}
UserContent == {"user"} \cup Media
Results == {"result", "image_result"}
Reasoning == {"state", "thought"}           \* with and without the state of a provider
Calls == {"call", "search"}                 \* of one call id, which the results name
Assistant == {"text"} \cup Reasoning \cup Calls

Role(block) == IF block \in Assistant THEN "assistant" ELSE "user"
OfRole(role) == IF role = "assistant" THEN Assistant ELSE UserContent \cup Results

\* Reasoning::replay_to: the model and the protocol of the target made the state.
Replays(target, block) == block = "state" /\ target.own

\* Whether a protocol writes the block
Writes(target, block) == block \notin Reasoning \/ Replays(target, block)

\* The first position from `start` on with a block of none of the kinds
RunEnd(blocks, start, kinds) ==
    LET ends == {i \in start .. Len(blocks) : blocks[i] \notin kinds}
    IN IF ends = {} THEN Len(blocks) + 1 ELSE CHOOSE i \in ends : \A j \in ends : i <= j
Positions(start, end) == [i \in 1 .. end - start |-> start + i - 1]
-----------------------------------------------------------------------------
(***************************************************************************)
(* JsonWriter: the output, whether the next value needs a comma, whether a *)
(* write failed, and the blobs that were read.                             *)
(***************************************************************************)
Comma == <<"comma">>
Close == <<"close">>

Writer(out) == [out |-> out, comma |-> out # <<>>, failed |-> FALSE, reads |-> 0]

Put(w, token) ==
    IF w.failed THEN w
    ELSE [w EXCEPT !.out = @ \o (IF w.comma THEN <<Comma, token>> ELSE <<token>>), !.comma = TRUE]
PutIf(condition, w, token) == IF condition THEN Put(w, token) ELSE w
PutAll(w, tokens) == FoldLeft(Put, w, tokens)

\* A message, whose parts come before its close
Begin(w, kind) == [Put(w, <<"open", kind>>) EXCEPT !.comma = FALSE]
End(w) == IF w.failed THEN w ELSE [w EXCEPT !.out = Append(@, Close), !.comma = TRUE]

\* write_media: read_blob comes before the end of the part.
PutMedia(w, block, token) ==
    IF w.failed THEN w
    ELSE LET read == [w EXCEPT !.reads = @ + 1]
         IN IF block = "missing" THEN [read EXCEPT !.failed = TRUE] ELSE Put(read, token)

Marked(block, marked) == IF marked THEN <<block, "marked">> ELSE <<block>>
-----------------------------------------------------------------------------
(***************************************************************************)
(* Anthropic Messages: one message for each run of blocks of one role.     *)
(***************************************************************************)
MessagesBlock(w, request, block, marked) ==
    CASE block \in Media -> PutMedia(w, block, Marked(block, marked))
      [] block \in Reasoning -> PutIf(Replays(request.target, block), w, <<block>>)
      [] block \in Results ->
            LET result == Put(w, Marked(block, marked))
                media == IF block = "image_result" THEN PutMedia(result, "image", <<"image">>) ELSE result
            IN PutIf(request.defers, media, <<"references">>)
      [] OTHER -> Put(w, Marked(block, marked))

MessagesGroup(w, request, start, marker) ==
    LET blocks == request.blocks
        role == Role(blocks[start])
        end == RunEnd(blocks, start, OfRole(role))
        Add(writer, i) == MessagesBlock(writer, request, blocks[i], i = marker)
    IN [end |-> end,
        writer |-> IF \E i \in start .. end - 1 : Writes(request.target, blocks[i])
                   THEN End(FoldLeft(Add, Begin(w, role), Positions(start, end)))
                   ELSE w]
-----------------------------------------------------------------------------
(***************************************************************************)
(* OpenAI Chat Completions: a message for each user run, assistant run and *)
(* result; the images of results lead the user message that follows.       *)
(***************************************************************************)
ChatUser(w, results, blocks) ==
    LET AddImage(writer, result) ==
            IF result = "image_result" THEN PutMedia(Put(writer, <<"label">>), "image", <<"image">>) ELSE writer
        AddBlock(writer, block) ==
            IF block \in Media THEN PutMedia(writer, block, <<block>>) ELSE Put(writer, <<block>>)
    IN End(FoldLeft(AddBlock, FoldLeft(AddImage, Begin(w, "user"), results), blocks))

\* The texts join, then the reasoning that the host takes back, then the calls.
ChatAssistant(w, target, blocks) ==
    LET texts == SelectSeq(blocks, LAMBDA b : b = "text")
        reasoning == SelectSeq(blocks, LAMBDA b : \/ target.replay = "content" /\ b \in Reasoning
                                                  \/ target.replay = "details" /\ Replays(target, b))
        calls == SelectSeq(blocks, LAMBDA b : b \in Calls)
        parts == texts \o reasoning \o calls
    IN End(PutAll(Begin(w, "assistant"), [i \in DOMAIN parts |-> <<parts[i]>>]))

ChatGroup(w, request, start) ==
    LET blocks == request.blocks
        first == blocks[start]
        Run(end) == SubSeq(blocks, start, end - 1)
    IN  IF first \in Results THEN
            LET results == RunEnd(blocks, start, Results)
                tools == PutAll(w, [i \in 1 .. results - start |-> <<blocks[start + i - 1]>>])
                end == RunEnd(blocks, results, UserContent)
            IN IF "image_result" \in Range(Run(results))
               THEN [end |-> end, writer |-> ChatUser(tools, Run(results), SubSeq(blocks, results, end - 1))]
               ELSE [end |-> results, writer |-> tools]
        ELSE IF first \in UserContent THEN
            LET end == RunEnd(blocks, start, UserContent)
            IN [end |-> end, writer |-> ChatUser(w, <<>>, Run(end))]
        ELSE
            LET end == RunEnd(blocks, start, Assistant)
            IN [end |-> end,
                writer |-> IF Range(Run(end)) \subseteq Reasoning THEN w
                           ELSE ChatAssistant(w, request.target, Run(end))]
-----------------------------------------------------------------------------
(***************************************************************************)
(* OpenAI Responses: an item for each block, except that a message holds a *)
(* run of text and attachments of one role.                                *)
(***************************************************************************)
InMessage == UserContent \cup {"text"}

\* group_end: a block that is not written leaves the message open.
ItemEnd(request, start) ==
    LET blocks == request.blocks
        unwritten == {b \in Reasoning : ~Writes(request.target, b)}
    IN IF blocks[start] \notin InMessage THEN start + 1
       ELSE RunEnd(blocks, start, (InMessage \cap OfRole(Role(blocks[start]))) \cup unwritten)

\* Whether the last call before the result is the tool search
AnswersSearch(before) ==
    LET calls == SelectSeq(before, LAMBDA b : b \in Calls)
    IN calls # <<>> /\ Last(calls) = "search"

Item(w, request, start) ==
    LET block == request.blocks[start]
        before == SubSeq(request.blocks, 1, start - 1)
    IN CASE block \in Reasoning -> PutIf(Replays(request.target, block), w, <<block>>)
         [] block = "search" -> Put(w, IF request.defers THEN <<block, "native">> ELSE <<block>>)
         [] block \in Results ->
               IF request.defers /\ AnswersSearch(before) THEN Put(w, <<block, "native">>)
               ELSE IF block = "image_result"
               THEN End(PutMedia(Begin(w, "output"), "image", <<block>>))
               ELSE Put(w, <<block>>)
         [] OTHER -> Put(w, <<block>>)

ItemGroup(w, request, start, marker) ==
    LET blocks == request.blocks
        end == ItemEnd(request, start)
        Add(writer, i) ==
            IF blocks[i] \in Reasoning THEN writer
            ELSE IF blocks[i] \in Media THEN PutMedia(writer, blocks[i], <<blocks[i]>>)
            ELSE Put(writer, Marked(blocks[i], i = marker))
    IN [end |-> end,
        writer |-> IF blocks[start] \in InMessage
                   THEN End(FoldLeft(Add, Begin(w, Role(blocks[start])), Positions(start, end)))
                   ELSE Item(w, request, start)]
-----------------------------------------------------------------------------
\* cache_index: the last block that the protocol can mark, 0 for none
CacheIndex(request) ==
    LET target == request.target
        cacheable == IF ~target.cache THEN {}
                     ELSE CASE target.protocol = "messages" -> (Assistant \cup UserContent \cup Results) \ Reasoning
                            [] target.protocol = "responses" -> {"user"}
                            [] target.protocol = "chat" -> {}
    IN SelectLastInSeq(request.blocks, LAMBDA b : b \in cacheable)

\* write_group: the element from `start`, and the end of its blocks
Group(w, request, start, marker) ==
    CASE request.target.protocol = "messages" -> MessagesGroup(w, request, start, marker)
      [] request.target.protocol = "chat" -> ChatGroup(w, request, start)
      [] request.target.protocol = "responses" -> ItemGroup(w, request, start, marker)

\* write_head: the Chat system message is an element of the open array.
WriteHead(request) ==
    IF request.target.protocol = "chat" /\ request.system THEN <<<<"head">>, <<"system">>>> ELSE <<<<"head">>>>
=============================================================================
