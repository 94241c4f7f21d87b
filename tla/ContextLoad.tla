----------------------------- MODULE ContextLoad ----------------------------
(***************************************************************************)
(* The saved events of one session, and what a load makes of them          *)
(* (store/src/context.rs on the queries of store/src/queries.rs).          *)
(*                                                                         *)
(* A running session applies each commit to the context that it has in     *)
(* memory.  A load reads no commit before the newest replacement, except   *)
(* those that the walk back needs for the blocks that the replacement      *)
(* keeps.  A fork copies the events up to the end of a completed turn.     *)
(* A block is <<event, part, index>>, so each block is a block of its own. *)
(***************************************************************************)
EXTENDS Integers, Sequences

CONSTANTS
    Histories  \* bound: the number of events, and the sizes and the ends of their commits

VARIABLES
    events,   \* the table events, in the order of seq
    row,      \* the column settings of the row of the session
    running,  \* what the running session has in memory
    history   \* the bound of this behaviour

vars == <<events, row, running, history>>

LastOf(s, n) == IF n >= Len(s) THEN s ELSE SubSeq(s, Len(s) - n + 1, Len(s))
Part(seq, part, n) == [k \in 1 .. n |-> <<seq, part, k>>]

Settings(value) == [kind |-> "settings", settings |-> value]
Commit(blocks, end) ==
    [kind |-> "commit", replaced |-> FALSE, head |-> <<>>, keep |-> 0, blocks |-> blocks,
     answered |-> FALSE, input |-> "none", end |-> end]

IsCommit(event) == event.kind = "commit"
\* The commits of `log`, by seq
Commits(log) == {k \in DOMAIN log : IsCommit(log[k])}
Newest(set) == CHOOSE k \in set : \A j \in set : j <= k
Oldest(set) == CHOOSE k \in set : \A j \in set : k <= j

-----------------------------------------------------------------------------
(* The session in memory: Commit::apply, and the tokens as the journal keeps them *)

Apply(state, event) ==
    IF event.kind = "settings" THEN [state EXCEPT !.settings = event.settings]
    ELSE [state EXCEPT
            !.context = (IF event.replaced THEN event.head \o LastOf(@, event.keep) ELSE @)
                        \o event.blocks,
            !.newest = IF event.end = "none" THEN "open" ELSE event.end,
            !.tokens = CASE event.answered -> event.input
                         [] ~event.answered /\ event.replaced -> "none"
                         [] OTHER -> @]

Fresh == [context |-> <<>>, newest |-> "empty", tokens |-> "none", settings |-> "none"]

\* The session in memory after the first n events, for each n
Replayed(log) ==
    LET after[n \in 0 .. Len(log)] == IF n = 0 THEN Fresh ELSE Apply(after[n - 1], log[n]) IN after

-----------------------------------------------------------------------------
(* kept: the last `count` blocks of the context before event `before` *)

\* One commit of the walk, while blocks are missing
TakeBack(walk, commit) ==
    LET part == LastOf(commit.blocks, walk.missing)
        missing == walk.missing - Len(part)
        parts == part \o walk.parts
        head == [head |-> commit.head, missing |-> missing, at |-> Len(parts)]
    IN CASE walk.missing = 0 -> walk
         [] walk.missing > 0 /\ commit.replaced /\ missing > 0 ->
              [parts |-> parts, missing |-> IF commit.keep < missing THEN commit.keep ELSE missing,
               heads |-> Append(walk.heads, head)]
         [] OTHER -> [walk EXCEPT !.parts = parts, !.missing = missing]

\* The walk back over the commits before event `before`, newest first: one previous_commit after the
\* other.  `heads` has for each replacement on the way: its head, the number of blocks that are still
\* missing, and the number collected.
WalkBack(log, before, count) ==
    LET walk[n \in 0 .. before - 1] ==
            IF n = 0 THEN [parts |-> <<>>, missing |-> count, heads |-> <<>>]
            ELSE IF IsCommit(log[before - n]) THEN TakeBack(walk[n - 1], log[before - n])
            ELSE walk[n - 1]
    IN walk

\* Mutant: the blocks that the walk collected after the head do not count.
FromHead_All(missing, collected, at) == missing
FromHead(missing, collected, at) == missing - (collected - at)

\* The heads, in reverse walk order.  The number of blocks from a head is unsigned.
WithHead(h, parts) ==
    LET n == FromHead(h.missing, Len(parts), h.at)
    IN (IF n < 0 THEN <<"underflow">> ELSE LastOf(h.head, n)) \o parts

WithHeads(parts, heads) ==
    LET with[n \in 0 .. Len(heads)] ==
            IF n = 0 THEN parts ELSE WithHead(heads[Len(heads) - n + 1], with[n - 1])
    IN with

Kept(log, before, count) ==
    LET walk == WalkBack(log, before, count)[before - 1]
    IN WithHeads(walk.parts, walk.heads)[Len(walk.heads)]

-----------------------------------------------------------------------------
(* load *)

\* newest_input_tokens: a replacement row has no usage.
NewestTokens(log) ==
    LET telling == {k \in Commits(log) : log[k].answered \/ log[k].replaced}
    IN IF telling = {} THEN "none" ELSE log[Newest(telling)].input

\* newest_replacement: the event that a load starts at, 0 for the first of all
LoadFrom(log) ==
    LET replacements == {k \in Commits(log) : log[k].replaced}
    IN IF replacements = {} THEN 0 ELSE Newest(replacements)

\* The rows from event `first` on, after the start of the context
ReadFrom(log, first, start) ==
    LET read[n \in 0 .. Len(log)] ==
            IF n = 0 THEN start
            ELSE IF n >= first /\ IsCommit(log[n]) THEN read[n - 1] \o log[n].blocks
            ELSE read[n - 1]
    IN read

\* The head of the replacement, the blocks that it keeps, and those of the commits from it on
ContextFrom(log, first) ==
    LET start == IF first = 0 THEN <<>> ELSE log[first].head \o Kept(log, first, log[first].keep)
    IN ReadFrom(log, first, start)[Len(log)]

\* What the last commit from the replacement on says of its turn
NewestFrom(log, first) ==
    LET commits == {k \in Commits(log) : k >= first} IN
    CASE commits = {} -> "empty"
      [] commits # {} /\ log[Newest(commits)].end = "none" -> "open"
      [] OTHER -> log[Newest(commits)].end

Load(log, settings) ==
    LET first == LoadFrom(log) IN
    [context |-> ContextFrom(log, first), newest |-> NewestFrom(log, first),
     tokens |-> NewestTokens(log), settings |-> settings]

-----------------------------------------------------------------------------
Init ==
    /\ history \in Histories
    /\ events = <<Settings("first")>>
    /\ row = "first"
    /\ running = [Fresh EXCEPT !.settings = "first"]

Room == Len(events) < history.events
Seq1 == Len(events) + 1
Save(event) ==
    /\ Room
    /\ events' = Append(events, event)
    /\ running' = Apply(running, event)
    /\ UNCHANGED history

\* Session::set_settings, between turns
SetSettings ==
    /\ history.settings
    /\ running.newest # "open"
    /\ LET value == IF running.settings = "first" THEN "second" ELSE "first" IN
         /\ Save(Settings(value))
         /\ row' = value

\* The first commit of a turn, and the input of a later round
SaveInput ==
    /\ \E n \in history.blocks : Save(Commit(Part(Seq1, "block", n), "none"))
    /\ UNCHANGED row

InTurn == running.newest = "open"

\* An answer, that ends the turn or calls tools
SaveAnswer ==
    /\ InTurn
    /\ \E n \in history.blocks, input \in history.tokens, end \in {"none", "completed"} :
         Save([Commit(Part(Seq1, "block", n), end) EXCEPT !.answered = TRUE, !.input = input])
    /\ UNCHANGED row

\* The commit of an end, with what a cancelled answer left
SaveEnd ==
    /\ InTurn
    /\ \E n \in {0} \cup history.blocks, end \in history.ends :
         Save(Commit(Part(Seq1, "block", n), end))
    /\ UNCHANGED row

\* TurnState::replace: the commit has no block of its own, and keeps what the context has.
SaveReplaced ==
    /\ InTurn
    /\ \E n \in history.heads, keep \in 0 .. Len(running.context) :
         /\ n > 0 \/ keep < Len(running.context)
         /\ Save([Commit(<<>>, "none") EXCEPT
                    !.replaced = TRUE, !.head = Part(Seq1, "head", n), !.keep = keep])
    /\ UNCHANGED row

-----------------------------------------------------------------------------
(* Fork *)

Completed(log) == {k \in Commits(log) : log[k].end = "completed"}

\* Mutant: with no `through`, the end of any turn is a cut.
ForkCut_AnyEnd(log) ==
    LET ended == {k \in Commits(log) : log[k].end # "none"} IN
    CASE ended # {} -> Newest(ended)
      [] ended = {} /\ Commits(log) # {} -> Oldest(Commits(log)) - 1
      [] OTHER -> Len(log)

\* fork_cut: the cut with no `through`
ForkCut(log) ==
    CASE Completed(log) # {} -> Newest(Completed(log))
      [] Completed(log) = {} /\ Commits(log) # {} -> Oldest(Commits(log)) - 1
      [] OTHER -> Len(log)

\* copy_session: the newest settings event at the cut
SettingsAt(log, cut) ==
    log[Newest({k \in 1 .. cut : log[k].kind = "settings"})].settings

\* fork_point, copy_rows, and the load of the copy.  The fork goes on as the session of this module;
\* a client can ask for it in the middle of a turn of the source.
Fork ==
    /\ history.forks
    /\ \E cut \in Completed(events) \cup {ForkCut(events)} :
         /\ cut < Len(events)
         /\ events' = SubSeq(events, 1, cut)
         /\ row' = SettingsAt(events, cut)
         /\ running' = Load(events', row')
    /\ UNCHANGED history

Done == ~Room /\ UNCHANGED vars

Next == SetSettings \/ SaveInput \/ SaveAnswer \/ SaveEnd \/ SaveReplaced \/ Fork \/ Done

Spec == Init /\ [][Next]_vars

-----------------------------------------------------------------------------
(* Properties *)

\* A load gives what the running session has in memory, whatever replacements, answers and ends came
\* before it, and what a replay of every event gives (store.rs of the agent: "replay the commits in
\* order").  The walk back over replacements takes no block twice and misses none.
LoadIsReplay ==
    /\ Load(events, row) = running
    /\ running = Replayed(events)[Len(events)]

\* A fork starts between turns, although it repairs none: it has no open and no interrupted turn.
Forks == Len(events') < Len(events) => running'.newest \in {"empty", "completed"}
ForksAtEnd == [][Forks]_vars
=============================================================================
