------------------------------- MODULE Encode -------------------------------
(***************************************************************************)
(* The encoder of one turn (ai/src/encoder.rs): it keeps the elements of   *)
(* the last request and encodes only what changed.  The driver encodes the *)
(* whole context at each attempt; hooks replace the context and change the *)
(* model, and an attachment that does not resolve fails the encode half    *)
(* way.                                                                    *)
(*                                                                         *)
(* The wide hashes are the values that they hash.  The checks before the   *)
(* first write (sampling, header, deferred tools) change no element and    *)
(* are left out, and so is the share of the buffer with a request in       *)
(* flight, which copies.                                                   *)
(***************************************************************************)
EXTENDS Wire, FiniteSets

CONSTANT Workloads  \* bound: the targets, the deferrals, the kinds and the most blocks of the requests

VARIABLES
    items,      \* Encoder::items, as tokens
    hashes,     \* Encoder::hashes
    elements,   \* Encoder::elements: the first block, and the length of the items before it
    key,        \* Encoder::key
    complete,   \* whether Encoder::elements_end has a value: the last encode succeeded
    end,        \* that value
    workload,   \* the bounds of this behaviour
    request,    \* the last request
    rereads     \* history: the blobs that a retry of a complete request read

encoder == <<items, hashes, elements, key, complete, end>>
vars == <<encoder, workload, request, rereads>>

NoKey == <<"none">>
NoRequest == [blocks |-> <<>>]
-----------------------------------------------------------------------------
\* element_key: what the elements read of the target and the tools
ElementKey(r) == <<r.target.protocol, r.target.own, r.defers,
                   IF r.target.protocol = "chat" THEN r.target.replay ELSE "none">>

\* Mutant: a hash without the cache marker
Hashes_Unmarked(r) == [i \in 1 .. Len(r.blocks) |-> <<r.blocks[i], FALSE>>]

\* hash_block for each block
Hashes(r) == [i \in 1 .. Len(r.blocks) |-> <<r.blocks[i], i = CacheIndex(r)>>]

\* An encoder that keeps no element
Nothing == [items |-> <<>>, elements |-> <<>>, from |-> 1]

\* keep: the encoder with the elements that stay, and the block to encode from
Keep(e, r) ==
    LET new == Hashes(r)
        same == Cardinality({n \in DOMAIN new : n <= Len(e.hashes) /\ SubSeq(e.hashes, 1, n) = SubSeq(new, 1, n)})
        kept == {i \in DOMAIN e.elements : e.elements[i].block <= same}
        last == Cardinality(kept)
    IN  IF e.key # ElementKey(r) THEN Nothing
        ELSE IF e.complete /\ e.hashes = new
        THEN [items |-> SubSeq(e.items, 1, e.end), elements |-> e.elements, from |-> same + 1]
        ELSE IF kept = {} THEN Nothing
        ELSE [items |-> SubSeq(e.items, 1, e.elements[last].offset),
              elements |-> SubSeq(e.elements, 1, last - 1), from |-> e.elements[last].block]

\* An element, when its group wrote something
AddElement(state, i, group) ==
    [writer |-> group.writer, next |-> group.end,
     elements |-> IF group.writer.failed \/ group.writer.out # state.writer.out
                  THEN Append(state.elements, [block |-> i, offset |-> Len(state.writer.out)])
                  ELSE state.elements]

\* serialize, the elements: each group from where the last one ended
WriteElements(kept, r) ==
    LET Write(state, i) ==
            IF state.writer.failed \/ i # state.next THEN state
            ELSE AddElement(state, i, Group(state.writer, r, i, CacheIndex(r)))
    IN FoldLeft(Write, [writer |-> Writer(kept.items), next |-> kept.from, elements |-> kept.elements],
                Positions(1, Len(r.blocks) + 1))

\* The head, with a comma between its own element and the first one
HeadBefore(r, out) == WriteHead(r) \o (IF Len(WriteHead(r)) > 1 /\ out # <<>> THEN <<Comma>> ELSE <<>>)

\* serialize: the encoder after the elements of a request
Encoded(r, new, out, failed) ==
    [items |-> IF failed THEN out ELSE out \o HeadBefore(r, out),
     hashes |-> Hashes(r), elements |-> new, key |-> ElementKey(r),
     complete |-> ~failed, end |-> IF failed THEN 0 ELSE Len(out)]

\* The body of a request: the head, then the elements
Body == SubSeq(items, end + 1, Len(items)) \o SubSeq(items, 1, end)
-----------------------------------------------------------------------------
Now == [items |-> items, hashes |-> hashes, elements |-> elements, key |-> key,
        complete |-> complete, end |-> end]
Becomes(e) ==
    /\ items' = e.items /\ hashes' = e.hashes /\ elements' = e.elements
    /\ key' = e.key /\ complete' = e.complete /\ end' = e.end

Requests(w) ==
    {[target |-> t, defers |-> d, system |-> w.system, blocks |-> b] :
        t \in w.targets, d \in w.defers, b \in SeqOf(w.kinds, w.length)}

Init ==
    /\ workload \in Workloads /\ request = NoRequest /\ rereads = 0
    /\ items = <<>> /\ hashes = <<>> /\ elements = <<>> /\ key = NoKey /\ complete = FALSE /\ end = 0

Encode(r) ==
    /\ \E written \in {WriteElements(Keep(Now, r), r)} :
           /\ Becomes(Encoded(r, written.elements, written.writer.out, written.writer.failed))
           /\ rereads' = IF complete /\ r = request THEN written.writer.reads ELSE 0
    /\ request' = r
    /\ UNCHANGED workload

Next == \E r \in Requests(workload) : Encode(r)
Spec == Init /\ [][Next]_vars
-----------------------------------------------------------------------------
(***************************************************************************)
(* Properties                                                              *)
(***************************************************************************)

\* What a new encoder writes
Fresh(r) == LET out == WriteElements(Nothing, r).writer.out IN HeadBefore(r, out) \o out

\* One comma between two values, and none elsewhere
Delimited(body) ==
    LET opens(t) == t[1] \in {"open", "head"}
        closes(t) == t = Close
    IN \A i \in DOMAIN body :
           /\ body[i] = Comma => /\ i \in 2 .. Len(body) - 1
                                 /\ body[i - 1] # Comma /\ ~opens(body[i - 1])
                                 /\ body[i + 1] # Comma /\ ~closes(body[i + 1])
           /\ i # 1 /\ body[i] # Comma /\ body[i - 1] # Comma => opens(body[i - 1]) \/ closes(body[i])

\* The blocks of some kinds are in the body once each, in their order.
Holds(body, kinds) ==
    LET parts == SelectSeq(body, LAMBDA t : t[1] \in kinds)
    IN [i \in DOMAIN parts |-> parts[i][1]] =
           SelectSeq(request.blocks, LAMBDA b : b \in kinds /\ Writes(request.target, b))

\* Each image is there, also one that left its result for a user message.
HoldsImages(body) ==
    LET own == IF request.target.protocol = "responses" THEN {"image"} ELSE {"image", "image_result"}
    IN Len(SelectSeq(body, LAMBDA t : t[1] = "image")) = Len(SelectSeq(request.blocks, LAMBDA b : b \in own))

\* A body is what a new encoder writes for the request, whatever the encoder wrote
\* before and wherever a write failed; its values are delimited; it holds each block
\* that the protocol takes once and in order (Chat Completions joins the text of a run
\* before its calls, and moves images); and a retry of the same request reads no blob
\* (encoder.rs:1, 165, 192, 254, wire/openai_responses.rs:84, drive.rs:733).
BodiesTrue ==
    /\ rereads = 0
    /\ complete =>
        LET body == Body IN
        /\ body = Fresh(request)
        /\ Delimited(body)
        /\ \A kinds \in {{"user"} \cup Results, {"text"}, Calls} : Holds(body, kinds)
        /\ HoldsImages(body)
        /\ request.target.protocol # "chat" =>
               Holds(body, {"user"} \cup Results \cup Assistant)
=============================================================================
