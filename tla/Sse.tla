--------------------------------- MODULE Sse ---------------------------------
(***************************************************************************)
(* The parser of server-sent events (ai/src/stream/sse.rs): the body of an *)
(* answer comes in chunks, and the parser gives the payload of each event. *)
(*                                                                         *)
(* A byte is one of few tokens: the field "data:", any other text, the     *)
(* byte-order mark, and the two terminators.  One action is one pass of    *)
(* the loop in read_line; nothing else runs between two of them.           *)
(***************************************************************************)
EXTENDS Naturals, Sequences, FiniteSets, SequencesExt

CONSTANTS
    MaxTotal,   \* ResponseLimits::max_response_bytes
    MaxEvent,   \* ResponseLimits::max_event_bytes
    MaxChunk    \* bound: the bytes of one chunk

VARIABLES
    body,      \* history: every byte that came
    ended,     \* Stream::body_ended
    rest,      \* Sse::chunk from Sse::pos on
    line,      \* Sse::line
    data,      \* Sse::data
    dataSeen,  \* Sse::data_seen
    total,     \* Sse::total
    atStart,   \* Sse::at_start
    sawCr,     \* Sse::saw_cr
    cut,       \* Sse::cut
    step,      \* what the last call of `next` found, or "runs" inside a call
    payloads   \* history: the payloads that were taken

lineVars == <<line, total, sawCr, rest>>
eventVars == <<data, dataSeen, atStart>>
vars == <<body, ended, lineVars, eventVars, cut, step, payloads>>

Terminators == {"CR", "LF"}
Text == {"data:", "x"}
\* A chunk, with the mark only where the body starts
Chunks ==
    LET plain == UNION {[1 .. n -> Text \cup Terminators] : n \in 1 .. MaxChunk}
    IN IF body # <<>> THEN plain ELSE plain \cup {<<"BOM">> \o Tail(c) : c \in plain}

Init ==
    /\ body = <<>> /\ ended = FALSE
    /\ rest = <<>> /\ line = <<>> /\ total = 0 /\ sawCr = FALSE
    /\ data = <<>> /\ dataSeen = FALSE /\ atStart = TRUE
    /\ cut = FALSE /\ step = "runs" /\ payloads = <<>>

-----------------------------------------------------------------------------
(* The source *)

Feed ==
    /\ step = "need_more"
    /\ ~ended
    /\ Len(body) <= MaxTotal
    /\ \E chunk \in Chunks : rest' = chunk /\ body' = body \o chunk
    /\ step' = "runs"
    /\ UNCHANGED <<ended, line, total, sawCr, eventVars, cut, payloads>>

BodyEnds ==
    /\ step = "need_more"
    /\ ~ended
    /\ ended' = TRUE
    /\ step' = "runs"
    /\ UNCHANGED <<body, lineVars, eventVars, cut, payloads>>

\* take_payload, and the next call
TakePayload ==
    /\ step = "payload"
    /\ payloads' = Append(payloads, data)
    /\ data' = <<>>
    /\ dataSeen' = FALSE
    /\ step' = "runs"
    /\ UNCHANGED <<body, ended, lineVars, atStart, cut>>

-----------------------------------------------------------------------------
(* The parser *)

TooLarge ==
    /\ step' = "too_large"
    /\ UNCHANGED <<body, ended, lineVars, eventVars, cut, payloads>>

\* consume, which fails past the bound of the response
Consume(count) ==
    /\ total' = total + count
    /\ rest' = SubSeq(rest, count + 1, Len(rest))

NeedMore ==
    /\ step = "runs" /\ rest = <<>> /\ ~ended
    /\ step' = "need_more"
    /\ UNCHANGED <<body, ended, lineVars, eventVars, cut, payloads>>

\* A pending payload still counts, but the stream may have cut it.
StreamEnds ==
    /\ step = "runs" /\ rest = <<>> /\ ended /\ line = <<>>
    /\ cut' = dataSeen
    /\ step' = IF dataSeen THEN "payload" ELSE "end"
    /\ UNCHANGED <<body, ended, lineVars, eventVars, payloads>>

\* The LF after a CR is the second half of a terminator.
SecondHalf == sawCr /\ rest[1] = "LF"
SkipLf ==
    /\ step = "runs" /\ rest # <<>> /\ SecondHalf
    /\ IF total + 1 > MaxTotal THEN TooLarge
       ELSE /\ Consume(1)
            /\ sawCr' = FALSE
            /\ UNCHANGED <<body, ended, line, eventVars, cut, step, payloads>>

\* The bytes before the next terminator
LineEnd == CHOOSE n \in 0 .. Len(rest) :
    /\ \A k \in 1 .. n : rest[k] \notin Terminators
    /\ n < Len(rest) => rest[n + 1] \in Terminators

\* The line without the mark, and the data of its event with it
Unmarked(raw) == IF atStart /\ raw # <<>> /\ raw[1] = "BOM" THEN Tail(raw) ELSE raw
HoldsData(text) == text # <<>> /\ text[1] = "data:"
WithLine(text) ==
    IF HoldsData(text) THEN (IF dataSeen THEN data \o <<"LF">> ELSE data) \o Tail(text) ELSE data

\* One line: a blank one ends the event, and a data line joins it.
OnLine(raw) ==
    LET text == Unmarked(raw) IN
    /\ atStart' = FALSE
    /\ line' = <<>>
    /\ data' = WithLine(text)
    /\ dataSeen' = (dataSeen \/ HoldsData(text))
    /\ step' = IF text = <<>> /\ dataSeen THEN "payload" ELSE "runs"
    /\ UNCHANGED <<body, ended, cut, payloads>>

\* Mutant: a terminator that the chunk ends with has no second half.
EndsWithCr_InChunk(n) == rest[n] = "CR" /\ n < Len(rest)
EndsWithCr(n) == rest[n] = "CR"

\* read_line, for bytes up to the end of their chunk: the line is copied.
CopyLine ==
    /\ step = "runs" /\ rest # <<>> /\ ~SecondHalf /\ LineEnd = Len(rest)
    /\ IF Len(line) + LineEnd > MaxEvent \/ total + LineEnd > MaxTotal THEN TooLarge
       ELSE /\ line' = line \o rest
            /\ Consume(LineEnd)
            /\ sawCr' = FALSE
            /\ UNCHANGED <<body, ended, eventVars, cut, step, payloads>>

\* read_line, for a line that ends in its chunk
ReadLine ==
    /\ step = "runs" /\ rest # <<>> /\ ~SecondHalf /\ LineEnd < Len(rest)
    /\ LET raw == line \o SubSeq(rest, 1, LineEnd) IN
         IF \/ Len(raw) > MaxEvent \/ total + LineEnd + 1 > MaxTotal
            \/ Len(WithLine(Unmarked(raw))) > MaxEvent
         THEN TooLarge
         ELSE Consume(LineEnd + 1) /\ sawCr' = EndsWithCr(LineEnd + 1) /\ OnLine(raw)

\* A last line without its terminator still counts.
LastLine ==
    /\ step = "runs" /\ rest = <<>> /\ ended /\ line # <<>>
    /\ IF Len(WithLine(Unmarked(line))) > MaxEvent THEN TooLarge
       ELSE OnLine(line) /\ UNCHANGED <<total, sawCr, rest>>

Stopped == step \in {"end", "too_large"} /\ UNCHANGED vars

Next ==
    \/ Feed \/ BodyEnds \/ TakePayload
    \/ NeedMore \/ StreamEnds \/ SkipLf \/ CopyLine \/ ReadLine \/ LastLine
    \/ Stopped

Spec == Init /\ [][Next]_vars

-----------------------------------------------------------------------------
(* The same body read as one text, without chunks *)

\* Where each line ends.  The LF of a CRLF ends none.
LineEnds == {p \in DOMAIN body : body[p] = "CR" \/ (body[p] = "LF" /\ (p = 1 \/ body[p - 1] # "CR"))}
Before(p) == {q \in LineEnds : q < p}
LineStart(p) ==
    IF Before(p) = {} THEN 1
    ELSE LET q == CHOOSE q \in Before(p) : \A r \in Before(p) : r <= q
         IN IF q < Len(body) /\ body[q] = "CR" /\ body[q + 1] = "LF" THEN q + 2 ELSE q + 1
RawLine(p) == SubSeq(body, LineStart(p), p - 1)
LineAt(p) == IF Before(p) = {} /\ RawLine(p) # <<>> /\ RawLine(p)[1] = "BOM"
             THEN Tail(RawLine(p)) ELSE RawLine(p)
\* The end of the body ends a line that has text.
Ends == LineEnds \cup (IF ended THEN {Len(body) + 1} ELSE {})

IsBlank(p) == p <= Len(body) /\ LineAt(p) = <<>>
IsData(p) == LineAt(p) # <<>> /\ LineAt(p)[1] = "data:"
\* The data lines of the event that the line at p ends or belongs to
DataOf(p) == {q \in Ends : q <= p /\ IsData(q) /\ \A r \in Before(p) : q < r => ~IsBlank(r)}
Joined(p) ==
    LET lines == SetToSortSeq(DataOf(p), <)
    IN FlattenSeq([k \in DOMAIN lines |-> (IF k = 1 THEN <<>> ELSE <<"LF">>) \o Tail(LineAt(lines[k]))])

PayloadEnds == {p \in Ends : (IsBlank(p) \/ p = Len(body) + 1) /\ DataOf(p) # {}}
Frames == LET at == SetToSortSeq(PayloadEnds, <) IN [k \in DOMAIN at |-> Joined(at[k])]

Fits ==
    /\ Len(body) <= MaxTotal
    /\ \A p \in LineEnds \cup {Len(body) + 1} : Len(RawLine(p)) <= MaxEvent
    /\ \A p \in Ends : Len(Joined(p)) <= MaxEvent

\* However the transport cuts the body into chunks, between the bytes of a terminator, inside a line
\* or after the mark, the parser gives the payloads that the whole text holds, no more and no fewer,
\* and it stops with an error exactly when the text passes a bound.  Only a payload that the end of
\* the body closed counts as cut.
FramesTrue ==
    /\ step \in {"need_more", "end"} => Fits /\ payloads = Frames
    /\ step = "too_large" => ~Fits /\ IsPrefix(payloads, Frames)
    /\ step = "payload" =>
         (cut <=> Len(body) + 1 \in PayloadEnds /\ Len(payloads) + 1 = Cardinality(PayloadEnds))
=============================================================================
