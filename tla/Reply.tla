-------------------------------- MODULE Reply --------------------------------
(***************************************************************************)
(* One attempt, from the payloads of the provider to the response of the   *)
(* reader (ai/src/stream.rs and ai/src/reply.rs).                          *)
(*                                                                         *)
(* The stream decodes a payload only when each event of the payload before *)
(* it was handed out; the reply keeps what each event says.  Beside them,  *)
(* `said` records what the provider said about each of its own blocks,     *)
(* under the address that the wire gives it.                               *)
(***************************************************************************)
EXTENDS Naturals, Sequences, SequencesExt

CONSTANTS
    MaxBlocks, MaxArgs,  \* ResponseLimits
    Bounds               \* bound: the payloads of one attempt, for each protocol

VARIABLES
    protocol,  \* the protocol of the target
    reducer,   \* Stream::reducer, with the pending events of its payload in the draft
    given,     \* Stream::next_event: the events of the payload that were handed out
    state,     \* Stream::state
    cut,       \* Sse::cut: the body ended within the last payload
    parts,     \* Reply::parts
    end,       \* Reply::end
    said,      \* history: the blocks of the provider, in start order
    sent       \* the number of payloads so far

vars == <<protocol, reducer, given, state, cut, parts, end, said, sent>>

Messages == INSTANCE MessagesReply
Chat == INSTANCE ChatReply
Responses == INSTANCE ResponsesReply

Indexes == {0, 1}
New == [messages |-> Messages!MessagesNew, chat |-> Chat!ChatNew(Indexes),
        responses |-> Responses!ResponsesNew(Indexes)]

Decode(r, p) ==
    CASE protocol = "messages" -> Messages!MessagesDecode(r, p)
      [] protocol = "chat" -> Chat!ChatDecode(r, p)
      [] protocol = "responses" -> Responses!ResponsesDecode(r, p)
Payloads(r) ==
    CASE protocol = "messages" -> Messages!MessagesPayloads(r)
      [] protocol = "chat" -> Chat!ChatPayloads(r)
      [] protocol = "responses" -> Responses!ResponsesPayloads(r)
Effects(p) ==
    CASE protocol = "messages" -> Messages!MessagesEffects(p)
      [] protocol = "chat" -> Chat!ChatEffects(p)
      [] protocol = "responses" -> Responses!ResponsesEffects(p)

draft == reducer.draft
Pending == given < Len(draft.events)

-----------------------------------------------------------------------------
(* What the provider said: a block has its address, its kind, and the number of its texts. *)

SaidAt(blocks, at) == {k \in DOMAIN blocks : blocks[k].at = at}
Block(at, kind, text) == [at |-> at, kind |-> kind, text |-> text, state |-> "open"]
More(text) == IF text = Responses!Final THEN text ELSE text + 1

Hear(blocks, e) ==
    LET known == SaidAt(blocks, e.at)
        k == CHOOSE n \in known : \A m \in known : m <= n
        first == IF e.do = "text" THEN 1 ELSE 0
        Open(change) ==
            IF blocks[k].state = "open" THEN [blocks EXCEPT ![k] = change] ELSE blocks
    IN CASE e.do = "open" -> Append(blocks, Block(e.at, e.kind, 0))
         [] e.do \in {"text", "reach"} /\ known = {} -> Append(blocks, Block(e.at, e.kind, first))
         [] e.do \in {"text", "add"} /\ known # {} ->
              Open([blocks[k] EXCEPT !.text = More(@)])
         [] e.do = "close" /\ known # {} ->
              Open([blocks[k] EXCEPT !.state = "closed"])
         [] e.do = "final" /\ known # {} ->
              Open([blocks[k] EXCEPT !.state = "closed", !.text = Responses!Final])
         [] e.do = "drop" /\ known # {} ->
              Open([blocks[k] EXCEPT !.state = "dropped"])
         [] e.do = "retire" ->
              [n \in DOMAIN blocks |-> IF blocks[n].at # <<>> /\ blocks[n].at[1] = e.at[1]
                                       THEN [blocks[n] EXCEPT !.at = <<>>] ELSE blocks[n]]
         [] e.do = "end" ->
              [n \in DOMAIN blocks |->
                 IF blocks[n].state # "open" THEN blocks[n]
                 ELSE [blocks[n] EXCEPT !.state =
                         IF e.kind = "drop" /\ blocks[n].kind = "tool_call" THEN "dropped"
                         ELSE "closed"]]
         [] OTHER -> blocks

-----------------------------------------------------------------------------
Init ==
    /\ protocol \in DOMAIN Bounds
    /\ reducer = New[protocol]
    /\ given = 0
    /\ state \in {"streaming", "refused"}
    /\ cut = FALSE
    /\ parts = <<>>
    /\ end = "open"
    /\ said = <<>>
    /\ sent = 0

Ends(failure) == state' = "ended" /\ end' = failure

\* Stream::open failed, or its answer was not 200: the first event is the failure.
OpenFails ==
    /\ state = "refused"
    /\ \E failure \in {"transport", "provider"} : Ends(failure)
    /\ UNCHANGED <<protocol, reducer, given, cut, parts, said, sent>>

Reading == state = "streaming" /\ ~Pending /\ ~draft.done

\* A payload that the end of the stream cut short is a truncation.
Failure(error, isCut) == IF error = "protocol" /\ isCut THEN "incomplete" ELSE error

\* fill: the next payload.  Its events are lost when the decode fails.
Payload ==
    /\ Reading
    /\ ~cut
    /\ sent < Bounds[protocol]
    /\ sent' = sent + 1
    /\ \E p \in Payloads(reducer), isCut \in BOOLEAN :
         /\ cut' = isCut
         /\ LET decoded == Decode([reducer EXCEPT !.draft.events = <<>>], p) IN
              /\ reducer' = decoded
              /\ IF decoded.draft.error = "none" THEN UNCHANGED <<state, end>>
                 ELSE Ends(Failure(decoded.draft.error, isCut))
         /\ said' = FoldLeft(Hear, said, Effects(p))
    /\ given' = 0
    /\ UNCHANGED <<protocol, parts>>

\* The body ends or fails, or a line or the response passes its bound.  Nothing comes after a cut.
ReadFails ==
    /\ Reading
    /\ \E failure \in IF cut THEN {"incomplete"} ELSE {"incomplete", "transport", "too_large"} :
         Ends(failure)
    /\ UNCHANGED <<protocol, reducer, given, cut, parts, said, sent>>

\* keep
Keep(e) ==
    CASE e.event = "started" ->
           parts' = Append(parts, [kind |-> e.kind, open |-> TRUE, text |-> 0]) /\ UNCHANGED end
      [] e.event = "delta" ->
           parts' = [parts EXCEPT ![e.id].text = IF parts[e.id].open THEN @ + 1 ELSE @] /\ UNCHANGED end
      [] e.event = "stopped" ->
           /\ parts' = [parts EXCEPT ![e.id] =
                  [@ EXCEPT !.open = FALSE,
                            !.text = IF parts[e.id].kind = "tool_call" THEN draft.blocks[e.id].args
                                     ELSE @]]
           /\ UNCHANGED end
      [] e.event = "done" -> end' = "done" /\ UNCHANGED parts
      [] e.event \in {"separator", "section", "args"} -> UNCHANGED <<parts, end>>

\* next: hand out one event.
Deliver ==
    /\ state = "streaming"
    /\ Pending
    /\ Keep(draft.events[given + 1])
    /\ given' = given + 1
    /\ UNCHANGED <<protocol, reducer, state, cut, said, sent>>

\* Nothing after the end of an answer counts.
AnswerEnds ==
    /\ state = "streaming"
    /\ ~Pending
    /\ draft.done
    /\ state' = "ended"
    /\ UNCHANGED <<protocol, reducer, given, cut, parts, end, said, sent>>

\* Reply::cancel, in place of any next event
Cancel ==
    /\ state = "streaming"
    /\ state' = "cancelled"
    /\ UNCHANGED <<protocol, reducer, given, cut, parts, end, said, sent>>

Done == state \in {"ended", "cancelled"} /\ UNCHANGED vars

Next == OpenFails \/ Payload \/ ReadFails \/ Deliver \/ AnswerEnds \/ Cancel \/ Done

Spec == Init /\ [][Next]_vars

-----------------------------------------------------------------------------
(* Properties *)

Complete(blocks) == LET Stopped(b) == ~b.open IN SelectSeq(blocks, Stopped)
Spoken(blocks) == LET Closed(b) == b.state = "closed" IN SelectSeq(blocks, Closed)
Plain(blocks) == [k \in DOMAIN blocks |-> [kind |-> blocks[k].kind, text |-> blocks[k].text]]

\* The reader sees one end: an attempt that ended has its answer or its failure ("a stream ends with
\* `done` or a failure").  An answer asks for calls only when it has one, and a refusal is never
\* taken for an answer; and a payload that the end of the body cut is a truncation, which a retry
\* may send again.
EndTrue ==
    /\ state = "ended" => end # "open"
    /\ cut => end # "protocol"
    /\ end = "done" =>
         LET content == Complete(parts)
             Has(kind) == \E k \in DOMAIN content : content[k].kind = kind
         IN /\ Has("refusal") => draft.finish \notin {"stop", "tool_calls"}
            /\ protocol = "responses" /\ draft.finish = "tool_calls" => Has("tool_call")

\* However the blocks interleave, close out of order or reuse an address, the response holds what
\* the provider said: each block once, in start order, with all of its text and no unfinished call.
\* What is kept of a failed or cancelled attempt is no more than what the provider said so far, and
\* a call in it is complete.  Its end is true as well.
ReplyTrue ==
    /\ EndTrue
    /\ end = "done" => Plain(Complete(parts)) = Plain(Spoken(said))
    /\ Len(parts) <= Len(said)
    /\ \A k \in DOMAIN parts :
         /\ parts[k].kind = said[k].kind
         /\ parts[k].kind = "tool_call" /\ ~parts[k].open =>
              said[k].state = "closed" /\ parts[k].text = said[k].text
         /\ parts[k].kind # "tool_call" => parts[k].text <= said[k].text

\* "start 0 text\ntext_delta 0 \"cut\"\nfailed server_error" (openai_chat.rs, the test of a chunk with
\* text and an interrupted finish reason): the text of the failing chunk comes before its failure.
TextBeforeFailure ==
    end = "provider" =>
        \A k \in DOMAIN said :
            said[k].kind = "text" => k \in DOMAIN parts /\ parts[k].text = said[k].text
=============================================================================
