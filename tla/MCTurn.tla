------------------------------- MODULE MCTurn -------------------------------
(* The model-checking instance of a turn, of what it sends and of what it reads: the     *)
(* driver, the encoder of its requests, the reply of one attempt in each protocol, and   *)
(* the parser of its body.  A behaviour runs one of the parts; the others stay in their  *)
(* first state.                                                                          *)
EXTENDS Turn, Functions

\* Calls of earlier turns have the id 0.
MCFirstContext ==
    {<<>>, <<Plain("input"), Call(0, "parallel"), ToolResult(0, "ran")>>}

VARIABLES
    part,
    protocol, reducer, given, state, replyCut, parts, end, said, sent,
    body, ended, rest, line, data, dataSeen, total, atStart, sawCr, cut, step, payloads,
    items, hashes, elements, key, complete, itemsEnd, workload, request, rereads

\* Two short rounds with a retry, or one round with up to three blocks in its answer
Rounds == INSTANCE Turn WITH MaxAnswer <- 1
Tools == INSTANCE Turn WITH MaxRounds <- 1, MaxAttempts <- 1

Reply == INSTANCE Reply WITH
    MaxBlocks <- 3, MaxArgs <- 2, Bounds <- [messages |-> 4, chat |-> 3, responses |-> 4],
    cut <- replyCut
attemptVars == <<protocol, reducer, given, state, replyCut, parts, end, said, sent>>

Sse == INSTANCE Sse WITH MaxTotal <- 5, MaxEvent <- 2, MaxChunk <- 2
sseVars == <<body, ended, rest, line, data, dataSeen, total, atStart, sawCr, cut, step, payloads>>

\* The models of the plans: the one that made the states in the context, and others
Target(wire, own, cache, replay) == [protocol |-> wire, own |-> own, cache |-> cache, replay |-> replay]
Requests(targets, defers, kinds, length, system) ==
    [targets |-> targets, defers |-> defers, kinds |-> kinds, length |-> length, system |-> system]
\* Each protocol with the blocks that share its elements, a change of the model or of the protocol, of
\* what the host takes back, and of the deferral of the tools
MCWorkloads == <<
    Requests({Target("messages", TRUE, TRUE, "none"), Target("messages", FALSE, FALSE, "none")},
             {FALSE}, {"user", "text", "state"}, 4, FALSE),
    Requests({Target("messages", TRUE, TRUE, "none"), Target("responses", FALSE, TRUE, "none")},
             {FALSE}, {"user", "state", "missing"}, 3, FALSE),
    Requests({Target("messages", TRUE, TRUE, "none")}, BOOLEAN, {"call", "image_result"}, 3, FALSE),
    Requests({Target("chat", TRUE, FALSE, "details"), Target("chat", TRUE, FALSE, "content")},
             {FALSE}, {"image_result", "missing", "text", "state"}, 3, TRUE),
    Requests({Target("chat", FALSE, FALSE, "none")}, {FALSE}, {"user", "text", "thought"}, 4, TRUE),
    Requests({Target("responses", TRUE, TRUE, "none")}, BOOLEAN, {"search", "call", "result"}, 4, FALSE),
    Requests({Target("responses", TRUE, TRUE, "none")}, {FALSE}, {"user", "thought", "image_result"}, 4, FALSE)>>
Encode == INSTANCE Encode WITH Workloads <- Range(MCWorkloads), end <- itemsEnd
encodeVars == <<items, hashes, elements, key, complete, itemsEnd, workload, request, rereads>>

PartsInit ==
    /\ Init /\ Encode!Init /\ Reply!Init /\ Sse!Init
    /\ part \in {"rounds", "tools", "encode", "reply", "sse"}
    /\ part \notin {"rounds", "tools"} => context = <<>>
    /\ part # "encode" => workload = MCWorkloads[1]
    /\ part # "reply" => protocol = "chat" /\ state = "streaming"
PartsNext ==
    /\ \/ part = "rounds" /\ Rounds!Next /\ UNCHANGED <<encodeVars, attemptVars, sseVars>>
       \/ part = "tools" /\ Tools!Next /\ UNCHANGED <<encodeVars, attemptVars, sseVars>>
       \/ part = "encode" /\ Encode!Next /\ UNCHANGED <<vars, attemptVars, sseVars>>
       \/ part = "reply" /\ Reply!Next /\ UNCHANGED <<vars, encodeVars, sseVars>>
       \/ part = "sse" /\ Sse!Next /\ UNCHANGED <<vars, encodeVars, attemptVars>>
    /\ UNCHANGED part
\* No fair action depends on a bound.
PartsSpec == PartsInit /\ [][PartsNext]_<<part, vars, encodeVars, attemptVars, sseVars>> /\ Fairness

BodiesTrue == Encode!BodiesTrue
ReplyTrue == Reply!ReplyTrue
FramesTrue == Sse!FramesTrue
=============================================================================
