----------------------------- MODULE TurnProofs -----------------------------
(***************************************************************************)
(* Theorems about Turn, for every bound and every first context.           *)
(*                                                                         *)
(* The commits of a turn replay to its context, whatever the answers, the  *)
(* replacements, the cancels and the failed saves were, and no provider,   *)
(* hook or tool acts on a block that the journal does not hold.  Neither   *)
(* is inductive: a commit holds the blocks after `saved`, so the step that *)
(* takes it must know that nothing waits to be saved yet (Quiet), and the  *)
(* results of the calls are blocks only when each call of every earlier    *)
(* group is finished (GroupInv).                                           *)
(***************************************************************************)
EXTENDS Turn, SequenceTheorems, FiniteSetTheorems, TLAPS

\* Between two saves no commit waits.
Quiet == pc \notin DOMAIN AfterSave \cup {"commit_failed"} => commit = NoCommit

\* The counters stay below their bounds where a step counts on.
Counters ==
    /\ pc = "start" => rounds = 0
    /\ pc = "inbox" => rounds < MaxRounds
    /\ pc = "sleeping" => attempt < MaxAttempts

\* A group is an interval of the calls, and each call before it is finished.
GroupInv ==
    pc \in {"asking", "running"} =>
        /\ Len(status) = Len(calls)
        /\ group \subseteq DOMAIN calls
        /\ \A i, k \in group : \A j \in DOMAIN calls : i <= j /\ j <= k => j \in group
        /\ \A j \in DOMAIN calls : (\A i \in group : j < i) => status[j] \in Finished

\* The calls that the driver handles are blocks of the context.
CallsInContext ==
    pc \in {"save_answer", "group", "asking", "running"} =>
        \A i \in DOMAIN calls : \E k \in DOMAIN context : context[k] = calls[i]

IInv == TypeOK /\ ReplayIsContext /\ Quiet /\ Counters /\ GroupInv /\ CallsInContext

-----------------------------------------------------------------------------
(* Lemmas about commits *)

\* The blocks after the first Len(s) blocks of s \o t are t.
LEMMA UnsavedOfConcat ==
    ASSUME NEW S, NEW s \in Seq(S), NEW t \in Seq(S)
    PROVE  SubSeq(s \o t, Len(s) + 1, Len(s \o t)) = t
<1>1. s \o t \in Seq(S) /\ Len(s \o t) = Len(s) + Len(t)
  BY ConcatProperties
<1>2. CASE Len(t) = 0
  <2>1. t = <<>>
    BY <1>2, EmptySeq
  <2>2. SubSeq(s \o t, Len(s) + 1, Len(s \o t)) = <<>>
    BY <1>1, <1>2, SubSeqEmpty, LenProperties
  <2> QED
    BY <2>1, <2>2
<1>3. CASE Len(t) # 0
  <2>1. Len(s) \in Nat /\ Len(t) \in Nat
    BY LenProperties
  <2>2. SubSeq(s \o t, Len(s) + 1, Len(s) + Len(t))
          = SubSeq(t, Len(s) + 1 - Len(s), Len(s) + Len(t) - Len(s))
    BY <1>3, <2>1, SubSeqOfConcat2
  <2>3. SubSeq(t, 1, Len(t)) = t
    BY SubSeqFull
  <2> QED
    BY <1>1, <2>1, <2>2, <2>3
<1> QED
  BY <1>2, <1>3

\* A splice puts the head before the blocks after the cut.
LEMMA SpliceProperties ==
    ASSUME NEW S, NEW s \in Seq(S), NEW head \in Seq(S), NEW cut \in 0 .. Len(s)
    PROVE  /\ Splice(s, cut, head) \in Seq(S)
           /\ Len(Splice(s, cut, head)) = Len(head) + Len(s) - cut
<1>1. Len(s) \in Nat /\ \A i \in 1 .. Len(s) : s[i] \in S
  BY LenProperties, ElementOfSeq
<1>2. cut + 1 \in Int /\ \A i \in cut + 1 .. Len(s) : s[i] \in S
  BY <1>1
<1>3. /\ SubSeq(s, cut + 1, Len(s)) \in Seq(S)
      /\ Len(SubSeq(s, cut + 1, Len(s))) = Len(s) - cut
  BY <1>1, <1>2, SubSeqProperties
<1> QED
  BY <1>1, <1>3, ConcatProperties, LenProperties DEF Splice

\* A replacement replays: the commit keeps as many blocks as the splice kept, also when the plan asks
\* for more than there are.
LEMMA ReplaceReplays ==
    ASSUME NEW s \in Seq(Block), NEW head \in Seq(Block), NEW keep \in Nat
    PROVE  LET new == Splice(s, SaturatingSub(Len(s), keep), head)
           IN /\ new \in Seq(Block)
              /\ Len(new) - Len(head) \in Nat
              /\ Apply(CommitReplaced(head, Len(new) - Len(head)), s) = new
<1> DEFINE cut == SaturatingSub(Len(s), keep)
           new == Splice(s, cut, head)
           c == CommitReplaced(head, Len(new) - Len(head))
<1>1. Len(s) \in Nat /\ Len(head) \in Nat
  BY LenProperties
<1>2. cut \in 0 .. Len(s)
  BY <1>1 DEF SaturatingSub
<1> HIDE DEF cut, new, c
<1>3. new \in Seq(Block) /\ Len(new) = Len(head) + Len(s) - cut
  BY <1>2, SpliceProperties DEF new
<1>4. c.replaced = TRUE /\ c.head = head /\ c.keep = Len(s) - cut /\ c.blocks = <<>>
  BY <1>1, <1>2, <1>3 DEF c, CommitReplaced
<1>5. SaturatingSub(Len(s), c.keep) = cut
  BY <1>1, <1>2, <1>4 DEF SaturatingSub
<1>6. Apply(c, s) = Splice(s, cut, head) \o <<>>
  BY <1>4, <1>5 DEF Apply
<1>7. Splice(s, cut, head) = new
  BY DEF new
<1>8. new \o <<>> = new
  BY <1>3, ConcatEmptySeq
<1> QED
  BY <1>1, <1>2, <1>3, <1>6, <1>7, <1>8 DEF c, new, cut

\* The commit without blocks changes no replay.
LEMMA ApplyNoCommit ==
    ASSUME NEW S, NEW s \in Seq(S)
    PROVE  Apply(NoCommit, s) = s
  BY ConcatEmptySeq DEF Apply, NoCommit, CommitOf

\* Every step of TurnState that appends blocks leaves a commit that replays to the new context.
LEMMA TakeUnsavedReplays ==
    ASSUME context \in Seq(Block), copy \in Seq(Block), ReplayIsContext, commit = NoCommit,
           NEW X \in Seq(Block), NEW new, new = context \o X,
           NEW step, NEW end \in TurnEnds, NEW display \in SUBSET [index : Int, id : Nat],
           TakeUnsaved(new, step, end, display), copy' = copy
    PROVE  /\ context' = context \o X
           /\ context' \in Seq(Block)
           /\ saved' \in Nat
           /\ commit' \in Commit
           /\ pc' = step
           /\ ReplayIsContext'
<1>1. copy = context
  BY ApplyNoCommit DEF ReplayIsContext
<1>2. new \in Seq(Block) /\ Len(new) \in Nat
  BY ConcatProperties, LenProperties
<1>3. Unsaved(new) = X
  BY UnsavedOfConcat DEF Unsaved, ReplayIsContext
<1>5. commit' = [replaced |-> FALSE, head |-> <<>>, keep |-> 0, blocks |-> X,
                 end |-> end, display |-> display]
  BY <1>3 DEF TakeUnsaved, CommitOf
<1>6. <<>> \in Seq(Block)
  BY EmptySeq
<1>7. commit' \in Commit
  BY <1>5, <1>6 DEF Commit
<1>8. commit'.replaced = FALSE /\ commit'.blocks = X
  BY <1>5
<1>9. Apply(commit', copy') = context'
  BY <1>1, <1>8 DEF Apply, TakeUnsaved
<1> QED
  BY <1>2, <1>7, <1>9 DEF ReplayIsContext, TakeUnsaved

-----------------------------------------------------------------------------
(* Lemmas about blocks *)

LEMMA PlainBlock ==
    \A kind \in Kinds : Plain(kind) \in Block
  BY DEF Plain, Block, Tags

LEMMA NotExecutedBlocks ==
    ASSUME NEW answered \in Seq(Block)
    PROVE  NotExecuted(answered) \in Seq(Block)
<1>1. Len(answered) \in Nat /\ \A i \in 1 .. Len(answered) : answered[i] \in Block
  BY LenProperties, ElementOfSeq
<1>2. \A i \in 1 .. Len(answered) : ToolResult(answered[i].id, "not_run") \in Block
  BY <1>1 DEF ToolResult, Block, Kinds, Tags
<1> QED
  BY <1>1, <1>2, IsASeq DEF NotExecuted

LEMMA AnswerBlocks ==
    ASSUME TypeOK
    PROVE  /\ Answer \in Seq(Block)
           /\ Partial \in Seq(Block)
           /\ draft.call \in Seq(Block)
           /\ NotExecuted(draft.call) \in Seq(Block)
           /\ Answer \o NotExecuted(draft.call) \in Seq(Block)
           /\ Partial \o NotExecuted(draft.call) \in Seq(Block)
<1>1. draft.reasoning \in Seq(Block) /\ draft.text \in Seq(Block) /\ draft.call \in Seq(Block)
  BY DEF TypeOK
<1>2. <<>> \in Seq(Block)
  BY EmptySeq
<1>3. Plain("text") \in Block
  BY PlainBlock DEF Kinds
<1>4. <<Plain("text")>> \in Seq(Block)
  BY <1>3
<1>5. Answer \in Seq(Block)
  BY <1>1, ConcatProperties DEF Answer
<1>6. Partial \in Seq(Block)
  BY <1>1, <1>2, <1>4, ConcatProperties DEF Partial
<1> QED
  BY <1>1, <1>5, <1>6, NotExecutedBlocks, ConcatProperties

\* Each call of an answer is a block of the context that the answer joins.
LEMMA AnswerHoldsCalls ==
    ASSUME TypeOK
    PROVE  \A i \in DOMAIN draft.call :
             \E k \in DOMAIN (context \o Answer) : (context \o Answer)[k] = draft.call[i]
<1> DEFINE said == draft.reasoning \o draft.text
<1>1. /\ draft.reasoning \in Seq(Block) /\ draft.text \in Seq(Block)
      /\ draft.call \in Seq(Block) /\ context \in Seq(Block)
  BY DEF TypeOK
<1>2. said \in Seq(Block)
  BY <1>1, ConcatProperties
<1>3. Answer = said \o draft.call
  BY DEF Answer
<1> HIDE DEF said
<1>4. /\ Answer \in Seq(Block)
      /\ Len(Answer) = Len(said) + Len(draft.call)
      /\ \A i \in 1 .. Len(said) + Len(draft.call) :
            Answer[i] = IF i <= Len(said) THEN said[i] ELSE draft.call[i - Len(said)]
  BY <1>1, <1>2, <1>3, ConcatProperties
<1>5. /\ context \o Answer \in Seq(Block)
      /\ Len(context \o Answer) = Len(context) + Len(Answer)
      /\ \A i \in 1 .. Len(context) + Len(Answer) :
            (context \o Answer)[i] = IF i <= Len(context) THEN context[i] ELSE Answer[i - Len(context)]
  <2>1. context \in Seq(Block) /\ Answer \in Seq(Block)
    BY <1>1, <1>4
  <2> QED
    BY <2>1, ConcatProperties
<1>6. Len(context) \in Nat /\ Len(said) \in Nat /\ Len(draft.call) \in Nat
  BY <1>1, <1>2, LenProperties
<1>7. DOMAIN draft.call = 1 .. Len(draft.call)
      /\ DOMAIN (context \o Answer) = 1 .. Len(context \o Answer)
  BY <1>1, <1>5, LenProperties
<1>8. ASSUME NEW i \in 1 .. Len(draft.call)
      PROVE  \E k \in DOMAIN (context \o Answer) : (context \o Answer)[k] = draft.call[i]
  <2> DEFINE k == Len(context) + Len(said) + i
  <2>1. k \in 1 .. Len(context \o Answer)
    BY <1>4, <1>5, <1>6
  <2>2. (context \o Answer)[k] = Answer[Len(said) + i]
    BY <1>4, <1>5, <1>6
  <2>3. Answer[Len(said) + i] = draft.call[i]
    BY <1>4, <1>6
  <2> QED
    BY <1>7, <2>1, <2>2, <2>3
<1> QED
  BY <1>7, <1>8

\* A group starts at its first call, and it is an interval of the calls.
LEMMA GroupInterval ==
    ASSUME calls \in Seq(Block), NEW first \in Nat \ {0}
    PROVE  /\ GroupFrom(first) \subseteq first .. Len(calls)
           /\ \A i, k \in GroupFrom(first) : \A j \in DOMAIN calls :
                i <= j /\ j <= k => j \in GroupFrom(first)
<1>1. Len(calls) \in Nat /\ DOMAIN calls = 1 .. Len(calls)
  BY LenProperties
<1> QED
  BY <1>1 DEF GroupFrom

\* When the last group is finished, each call is, and the outcomes are results.
LEMMA OutcomesReady ==
    ASSUME TypeOK, GroupInv, GroupDone, Len(calls) \in group
    PROVE  /\ \A i \in 1 .. Len(calls) : status[i] \in Finished
           /\ Outcomes \in Seq(Block)
<1>1. /\ Len(calls) \in Nat /\ DOMAIN calls = 1 .. Len(calls)
      /\ \A i \in 1 .. Len(calls) : calls[i] \in Block
  BY LenProperties, ElementOfSeq DEF TypeOK
<1>2. /\ \A i, k \in group : \A j \in DOMAIN calls : i <= j /\ j <= k => j \in group
      /\ \A j \in DOMAIN calls : (\A i \in group : j < i) => status[j] \in Finished
      /\ group \subseteq DOMAIN calls
      /\ \A i \in group : status[i] \in Finished
  BY DEF GroupInv, GroupDone
<1>3. ASSUME NEW j \in DOMAIN calls, NEW i \in group, ~ (j < i)
      PROVE  j \in group
  <2>1. i <= j /\ j <= Len(calls)
    BY <1>1, <1>2, <1>3
  <2> QED
    BY <1>2, <2>1
<1>4. \A i \in 1 .. Len(calls) : status[i] \in Finished
  BY <1>1, <1>2, <1>3
<1>5. \A i \in 1 .. Len(calls) : ToolResult(calls[i].id, status[i]) \in Block
  BY <1>1, <1>4 DEF ToolResult, Block, Kinds, Tags, Finished
<1> QED
  BY <1>1, <1>4, <1>5, IsASeq DEF Outcomes

-----------------------------------------------------------------------------
(* The inductive invariant *)

LEMMA InitInv == Init => IInv
<1> SUFFICES ASSUME Init PROVE IInv
  OBVIOUS
<1>1. context \in Seq(Block)
  BY ContextAssumption DEF Init
<1>2. <<>> \in Seq(Block) /\ <<>> \in Seq(Statuses)
  BY EmptySeq
<1>3. NoCommit \in Commit
  BY <1>2 DEF NoCommit, CommitOf, Commit, TurnEnds
<1>4. TypeOK
  <2>1. saved \in Nat /\ copy \in Seq(Block)
    BY <1>1, LenProperties DEF Init
  <2>2. draft \in [reasoning : Seq(Block), text : Seq(Block), call : Seq(Block)]
    BY <1>2 DEF Init, NoDraft
  <2>3. rounds \in 0 .. MaxRounds /\ attempt \in 1 .. MaxAttempts /\ nextId \in Nat
    BY BoundsAssumption, ContextAssumption DEF Init
  <2>4. calls \in Seq(Block) /\ status \in Seq(Statuses)
    BY <1>2 DEF Init
  <2> QED
    BY <1>1, <1>3, <2>1, <2>2, <2>3, <2>4 DEF Init, TypeOK, Steps
<1>5. ReplayIsContext
  BY <1>1, ApplyNoCommit DEF Init, ReplayIsContext
<1> QED
  BY <1>4, <1>5 DEF Init, IInv, Quiet, Counters, GroupInv, CallsInContext

\* What every step leaves alone that appends blocks and hands their commit to a save.
LEMMA AppendStep ==
    ASSUME IInv, pc \notin DOMAIN AfterSave \cup {"commit_failed"},
           NEW X \in Seq(Block), NEW new, new = context \o X,
           NEW step, NEW end \in TurnEnds, NEW display \in SUBSET [index : Int, id : Nat],
           TakeUnsaved(new, step, end, display), copy' = copy
    PROVE  /\ context' \in Seq(Block)
           /\ saved' \in Nat
           /\ commit' \in Commit
           /\ copy' \in Seq(Block)
           /\ pc' = step
           /\ ReplayIsContext'
<1>1. context \in Seq(Block) /\ copy \in Seq(Block) /\ ReplayIsContext /\ commit = NoCommit
  BY DEF IInv, TypeOK, Quiet
<1> QED
  BY <1>1, TakeUnsavedReplays

\* The end of a turn, and a commit of the context as it is
LEMMA DoneStep ==
    ASSUME IInv, pc \notin DOMAIN AfterSave \cup {"commit_failed"},
           NEW end \in TurnEnds, Done(context, end, {}), copy' = copy
    PROVE  /\ context' \in Seq(Block)
           /\ saved' \in Nat
           /\ commit' \in Commit
           /\ copy' \in Seq(Block)
           /\ pc' = "save_done"
           /\ ReplayIsContext'
<1>1. <<>> \in Seq(Block) /\ context = context \o <<>>
  BY EmptySeq, ConcatEmptySeq DEF IInv, TypeOK
<1>2. TakeUnsaved(context, "save_done", end, {})
  BY DEF Done
<1>3. {} \in SUBSET [index : Int, id : Nat]
  OBVIOUS
<1> QED
  BY <1>1, <1>2, <1>3, AppendStep

\* A plan sends the request, or its replacement is saved first.
LEMMA PlanStep ==
    ASSUME IInv, pc \in {"before_round", "retry_round"}, SendPlan, copy' = copy
    PROVE  /\ context' \in Seq(Block)
           /\ saved' \in Nat
           /\ commit' \in Commit
           /\ copy' \in Seq(Block)
           /\ attempt' = 1
           /\ \/ pc' = "save_replaced"
              \/ pc' = "credential" /\ commit' = NoCommit
           /\ ReplayIsContext'
<1>1. context \in Seq(Block) /\ copy = context /\ commit = NoCommit /\ saved \in Nat
  BY ApplyNoCommit DEF IInv, TypeOK, Quiet, ReplayIsContext, AfterSave
<1>2. CASE pc' = "credential" /\ UNCHANGED <<context, saved, commit>>
  BY <1>1, <1>2 DEF IInv, TypeOK, ReplayIsContext, SendPlan
<1>3. ASSUME NEW head \in {<<>>, <<Plain("head")>>}, NEW keep \in 0 .. Len(context) + 1,
             Replace(head, keep)
      PROVE  /\ context' \in Seq(Block) /\ saved' \in Nat /\ commit' \in Commit
             /\ pc' = "save_replaced" /\ ReplayIsContext'
  <2>1. Plain("head") \in Block
    BY PlainBlock DEF Kinds
  <2>2. head \in Seq(Block)
    <3>1. <<>> \in Seq(Block) /\ <<Plain("head")>> \in Seq(Block)
      BY <2>1, EmptySeq
    <3> QED
      BY <3>1
  <2>3. keep \in Nat
    BY <1>1, LenProperties
  <2>4. /\ context' = Splice(context, SaturatingSub(Len(context), keep), head)
        /\ saved' = Len(context')
        /\ commit' = CommitReplaced(head, Len(context') - Len(head))
        /\ pc' = "save_replaced"
    BY <1>3 DEF Replace
  <2>5. /\ context' \in Seq(Block)
        /\ Len(context') - Len(head) \in Nat
        /\ Apply(commit', context) = context'
    <3>1. context \in Seq(Block)
      BY <1>1
    <3> QED
      BY <3>1, <2>2, <2>3, <2>4, ReplaceReplays
  <2>6. commit' \in Commit
    BY <2>2, <2>4, <2>5, EmptySeq DEF CommitReplaced, Commit, TurnEnds
  <2> QED
    BY <1>1, <2>4, <2>5, <2>6, LenProperties DEF ReplayIsContext
<1> QED
  BY <1>1, <1>2, <1>3 DEF SendPlan

\* No step breaks the invariant: one step per action of Next.
LEMMA StepInv == IInv /\ [Next]_vars => IInv'
<1> SUFFICES ASSUME IInv, [Next]_vars PROVE IInv'
  OBVIOUS
<1> USE DEF replyVars, toolVars
<1>typ. TypeOK /\ ReplayIsContext
  BY DEF IInv
<1>fact. /\ {} \in SUBSET [index : Int, id : Nat]
         /\ <<>> \in Seq(Block) /\ <<>> \in Seq(Statuses)
         /\ NoDraft \in [reasoning : Seq(Block), text : Seq(Block), call : Seq(Block)]
         /\ BoundsAssumption
  BY EmptySeq, BoundsAssumption DEF NoDraft
<1>start. CASE Start
  <2>1. Plain("input") \in Block
    BY PlainBlock DEF Kinds
  <2>2. <<Plain("input")>> \in Seq(Block)
    BY <2>1
  <2> DEFINE step == IF Unsaved(context \o <<Plain("input")>>) = <<>>
                     THEN "before_round" ELSE "save_input"
  <2>3. /\ turnEnd' = "none" /\ rounds' = rounds + 1 /\ copy' = copy
        /\ TakeUnsaved(context \o <<Plain("input")>>, step, "none", {})
    BY <1>start DEF Start, Send
  <2>4. "none" \in TurnEnds /\ pc \notin DOMAIN AfterSave \cup {"commit_failed"}
    BY <1>start DEF Start, TurnEnds, AfterSave
  <2>5. /\ context' \in Seq(Block) /\ saved' \in Nat /\ commit' \in Commit
        /\ copy' \in Seq(Block) /\ pc' = step /\ ReplayIsContext'
    BY <2>2, <2>3, <2>4, <1>fact, AppendStep
  <2>6. step = "save_input"
    BY <1>typ, <2>2, UnsavedOfConcat DEF Unsaved, ReplayIsContext, TypeOK
  <2>7. rounds' \in 0 .. MaxRounds
    BY <1>start, <1>fact, <2>3 DEF Start, IInv, Counters, BoundsAssumption
  <2> QED
    BY <1>start, <1>typ, <2>3, <2>5, <2>6, <2>7
       DEF Start, IInv, TypeOK, Steps, AfterSave, Quiet, Counters, GroupInv, CallsInContext
<1>cancel. CASE Cancel
  BY <1>cancel DEF Cancel, IInv, TypeOK, ReplayIsContext, Quiet, Counters, GroupInv, CallsInContext
<1>save. CASE Save
  <2>1. copy' = context /\ commit' = NoCommit /\ context' = context /\ saved' = saved
    BY <1>save, <1>typ DEF Save, ReplayIsContext
  <2>2. NoCommit \in Commit
    BY <1>fact DEF NoCommit, CommitOf, Commit, TurnEnds
  <2>3. ReplayIsContext'
    BY <1>typ, <2>1, ApplyNoCommit DEF ReplayIsContext, TypeOK
  <2>4. pc' \in {"before_round", "credential", "group", "after_round", "ended"}
        /\ (pc' = "group" => pc = "save_answer")
    BY <1>save DEF Save, AfterSave
  <2> QED
    BY <1>save, <1>typ, <2>1, <2>2, <2>3, <2>4
       DEF Save, IInv, TypeOK, Steps, Quiet, Counters, GroupInv, CallsInContext
<1>failed. CASE SaveFailed
  <2>1. context' = context /\ saved' = saved /\ pc' = "commit_failed"
    BY <1>failed DEF SaveFailed
  <2>2. NoCommit \in Commit
    BY <1>fact DEF NoCommit, CommitOf, Commit, TurnEnds
  <2>3. ReplayIsContext' /\ copy' \in Seq(Block) /\ commit' \in Commit
    BY <1>failed, <1>typ, <2>1, <2>2, ApplyNoCommit DEF SaveFailed, ReplayIsContext, TypeOK
  <2> QED
    BY <1>failed, <1>typ, <2>1, <2>3
       DEF SaveFailed, IInv, TypeOK, Steps, Quiet, Counters, GroupInv, CallsInContext
<1>before. CASE BeforeRound
  <2>1. pc \in {"before_round", "retry_round"} /\ copy' = copy
        /\ pc \notin DOMAIN AfterSave \cup {"commit_failed"} /\ "failed" \in TurnEnds
    BY <1>before DEF BeforeRound, AfterSave, TurnEnds
  <2>2. CASE SendPlan
    <3>1. /\ context' \in Seq(Block) /\ saved' \in Nat /\ commit' \in Commit
          /\ copy' \in Seq(Block) /\ attempt' = 1 /\ ReplayIsContext'
          /\ \/ pc' = "save_replaced"
             \/ pc' = "credential" /\ commit' = NoCommit
      BY <2>1, <2>2, PlanStep
    <3>2. attempt' \in 1 .. MaxAttempts /\ rounds' \in 0 .. MaxRounds
      BY <1>before, <1>typ, <1>fact, <2>2, <3>1 DEF BeforeRound, TypeOK, BoundsAssumption
    <3> QED
      BY <1>before, <1>typ, <3>1, <3>2
         DEF BeforeRound, IInv, TypeOK, Steps, AfterSave, Quiet, Counters, GroupInv, CallsInContext
  <2>3. CASE Fail /\ UNCHANGED attempt
    BY <1>before, <1>typ, <2>1, <2>3, DoneStep
       DEF BeforeRound, Fail, IInv, TypeOK, Steps, AfterSave, Quiet, Counters, GroupInv, CallsInContext
  <2> QED
    BY <1>before, <2>2, <2>3 DEF BeforeRound
<1>retry. CASE RetryRound
  <2>1. pc \in {"before_round", "retry_round"} /\ copy' = copy
        /\ pc \notin DOMAIN AfterSave \cup {"commit_failed"} /\ "failed" \in TurnEnds
    BY <1>retry DEF RetryRound, AfterSave, TurnEnds
  <2>2. CASE rounds < MaxRounds /\ rounds' = rounds + 1 /\ SendPlan
    <3>1. /\ context' \in Seq(Block) /\ saved' \in Nat /\ commit' \in Commit
          /\ copy' \in Seq(Block) /\ attempt' = 1 /\ ReplayIsContext'
          /\ \/ pc' = "save_replaced"
             \/ pc' = "credential" /\ commit' = NoCommit
      BY <2>1, <2>2, PlanStep
    <3>2. attempt' \in 1 .. MaxAttempts /\ rounds' \in 0 .. MaxRounds
      BY <1>retry, <1>typ, <1>fact, <2>2, <3>1 DEF RetryRound, TypeOK, BoundsAssumption
    <3> QED
      BY <1>retry, <1>typ, <3>1, <3>2
         DEF RetryRound, IInv, TypeOK, Steps, AfterSave, Quiet, Counters, GroupInv, CallsInContext
  <2>3. CASE Fail /\ UNCHANGED <<attempt, rounds>>
    BY <1>retry, <1>typ, <2>1, <2>3, DoneStep
       DEF RetryRound, Fail, IInv, TypeOK, Steps, AfterSave, Quiet, Counters, GroupInv, CallsInContext
  <2> QED
    BY <1>retry, <2>2, <2>3 DEF RetryRound
<1>openr. CASE OpenRequest
  BY <1>openr DEF OpenRequest, IInv, TypeOK, Steps, ReplayIsContext, AfterSave, Quiet, Counters,
                  GroupInv, CallsInContext
<1>reply. CASE ReplyOpened
  BY <1>reply DEF ReplyOpened, IInv, TypeOK, Steps, ReplayIsContext, AfterSave, Quiet, Counters,
                  GroupInv, CallsInContext
<1>started. CASE BlockStarted
  BY <1>started DEF BlockStarted, IInv, TypeOK, ReplayIsContext, Quiet, Counters, GroupInv,
                    CallsInContext
<1>stopped. CASE BlockStopped
  <2>1. /\ draft' \in [reasoning : Seq(Block), text : Seq(Block), call : Seq(Block)]
        /\ nextId' \in Nat
    <3>1. CASE open = "call"
      <4>1. PICK mode \in Modes : draft' = [draft EXCEPT !.call = Append(@, Call(nextId, mode))]
        BY <1>stopped, <3>1 DEF BlockStopped
      <4>2. Call(nextId, mode) \in Block
        BY <1>typ DEF Call, Block, Kinds, Tags, TypeOK
      <4>3. Append(draft.call, Call(nextId, mode)) \in Seq(Block)
        BY <1>typ, <4>2, AppendProperties DEF TypeOK
      <4>4. draft' = [draft EXCEPT !.call = Append(draft.call, Call(nextId, mode))]
        BY <4>1
      <4>5. nextId' = nextId + 1
        BY <1>stopped, <3>1 DEF BlockStopped
      <4>6. draft \in [reasoning : Seq(Block), text : Seq(Block), call : Seq(Block)]
            /\ nextId \in Nat
        BY <1>typ DEF TypeOK
      <4>7. draft' \in [reasoning : Seq(Block), text : Seq(Block), call : Seq(Block)]
        BY <4>3, <4>4, <4>6
      <4> QED
        BY <4>5, <4>6, <4>7
    <3>2. CASE open # "call"
      <4>1. draft' = [draft EXCEPT ![open] = Append(draft[open], Plain(open))] /\ nextId' = nextId
        BY <1>stopped, <3>2 DEF BlockStopped
      <4>2. open \in {"text", "reasoning"}
        BY <1>stopped, <1>typ, <3>2 DEF BlockStopped, TypeOK
      <4>3. Plain(open) \in Block
        BY <4>2, PlainBlock DEF Kinds
      <4>4. draft[open] \in Seq(Block)
        BY <1>typ, <4>2 DEF TypeOK
      <4>5. Append(draft[open], Plain(open)) \in Seq(Block)
        BY <4>3, <4>4, AppendProperties
      <4> QED
        BY <1>typ, <4>1, <4>2, <4>5 DEF TypeOK
    <3> QED
      BY <3>1, <3>2
  <2> QED
    BY <1>stopped, <2>1 DEF BlockStopped, IInv, TypeOK, ReplayIsContext, Quiet, Counters, GroupInv,
                            CallsInContext
<1>attemptFailed. CASE AttemptFailed
  BY <1>attemptFailed, <1>fact
     DEF AttemptFailed, MayRetry, IInv, TypeOK, Steps, ReplayIsContext, AfterSave, Quiet, Counters,
         GroupInv, CallsInContext
<1>again. CASE RetryAttempt
  BY <1>again, <1>fact
     DEF RetryAttempt, IInv, TypeOK, Steps, ReplayIsContext, AfterSave, Quiet, Counters, GroupInv,
         CallsInContext, BoundsAssumption
<1>answered. CASE ModelFinished
  <2> DEFINE NA == NotExecuted(draft.call)
  <2>1. /\ pc \notin DOMAIN AfterSave \cup {"commit_failed"} /\ "none" \in TurnEnds
        /\ copy' = copy /\ draft' = NoDraft
    BY <1>answered DEF ModelFinished, AfterSave, TurnEnds
  <2>2. PICK reason \in FinishReasons :
          \/ /\ turnEnd' = reason
             /\ TakeUnsaved(context \o Answer, "save_round", "none", {})
             /\ UNCHANGED calls
          \/ /\ TakeUnsaved(context \o Answer, "save_answer", "none", {})
             /\ calls' = draft.call
             /\ UNCHANGED turnEnd
          \/ /\ turnEnd' = IF reason = "length" THEN turnEnd ELSE reason
             /\ TakeUnsaved(context \o (Answer \o NA), "save_round", "none", {})
             /\ UNCHANGED calls
    BY <1>answered DEF ModelFinished, AfterRound, SaveAnswer
  <2>3. Answer \in Seq(Block) /\ Answer \o NA \in Seq(Block) /\ draft.call \in Seq(Block)
    BY <1>typ, AnswerBlocks
  <2>4. /\ context' \in Seq(Block) /\ saved' \in Nat /\ commit' \in Commit
        /\ copy' \in Seq(Block) /\ ReplayIsContext'
        /\ \/ pc' = "save_round" /\ calls' = calls
           \/ pc' = "save_answer" /\ calls' = draft.call /\ context' = context \o Answer
    <3> HIDE DEF NA
    <3>1. CASE TakeUnsaved(context \o Answer, "save_round", "none", {}) /\ UNCHANGED calls
      BY <3>1, <2>1, <2>3, <1>fact, AppendStep
    <3>2. CASE TakeUnsaved(context \o Answer, "save_answer", "none", {}) /\ calls' = draft.call
      <4>1. context' = context \o Answer
        BY <3>2 DEF TakeUnsaved
      <4> QED
        BY <3>2, <4>1, <2>1, <2>3, <1>fact, AppendStep
    <3>3. CASE TakeUnsaved(context \o (Answer \o NA), "save_round", "none", {}) /\ UNCHANGED calls
      BY <3>3, <2>1, <2>3, <1>fact, AppendStep
    <3> QED
      BY <2>2, <3>1, <3>2, <3>3
  <2>5. turnEnd' \in FinishReasons \cup {"none"}
    BY <1>typ, <2>2 DEF TypeOK
  <2>6. CallsInContext'
    BY <1>typ, <2>4, AnswerHoldsCalls DEF CallsInContext
  <2>7. calls' \in Seq(Block)
    BY <1>typ, <2>3, <2>4 DEF TypeOK
  <2> QED
    BY <1>answered, <1>typ, <1>fact, <2>1, <2>4, <2>5, <2>6, <2>7
       DEF ModelFinished, IInv, TypeOK, Steps, AfterSave, Quiet, Counters, GroupInv
<1>modelCancelled. CASE ModelCancelled
  <2> DEFINE kept == Partial \o NotExecuted(draft.call)
  <2>1. /\ pc \notin DOMAIN AfterSave \cup {"commit_failed"} /\ "cancelled" \in TurnEnds
        /\ TakeUnsaved(context \o kept, "save_done", "cancelled", {}) /\ copy' = copy
    BY <1>modelCancelled DEF ModelCancelled, KeepPartial, Done, AfterSave, TurnEnds
  <2>2. kept \in Seq(Block)
    BY <1>typ, AnswerBlocks
  <2> HIDE DEF kept
  <2>3. /\ context' \in Seq(Block) /\ saved' \in Nat /\ commit' \in Commit
        /\ copy' \in Seq(Block) /\ pc' = "save_done" /\ ReplayIsContext'
    BY <2>1, <2>2, <1>fact, AppendStep
  <2> QED
    BY <1>modelCancelled, <1>typ, <1>fact, <2>3
       DEF ModelCancelled, KeepPartial, IInv, TypeOK, Steps, AfterSave, Quiet, Counters, GroupInv,
           CallsInContext
<1>calls. CASE StartCalls
  <2>1. /\ status' \in Seq(Statuses) /\ Len(status') = Len(calls)
        /\ DOMAIN calls = 1 .. Len(calls) /\ Len(calls) \in Nat
    <3>1. Len(calls) \in Nat /\ DOMAIN calls = 1 .. Len(calls)
      BY <1>typ, LenProperties DEF TypeOK
    <3>2. status' = [i \in 1 .. Len(calls) |-> "waiting"]
      BY <1>calls DEF StartCalls
    <3> QED
      BY <3>1, <3>2 DEF Statuses
  <2>2. /\ group' \subseteq 1 .. Len(calls)
        /\ \A i, k \in group' : \A j \in DOMAIN calls : i <= j /\ j <= k => j \in group'
    BY <1>calls, <1>typ, GroupInterval DEF StartCalls, TypeOK
  <2>3. \A j \in DOMAIN calls : ~ (\A i \in group' : j < i)
    BY <1>calls, <2>1 DEF StartCalls, GroupFrom
  <2>4. group' \subseteq Nat
    BY <2>1, <2>2
  <2>5. GroupInv'
    BY <1>calls, <2>1, <2>2, <2>3 DEF StartCalls, GroupInv
  <2> QED
    BY <1>calls, <1>typ, <2>1, <2>4, <2>5
       DEF StartCalls, IInv, TypeOK, Steps, ReplayIsContext, AfterSave, Quiet, Counters, CallsInContext
<1>tool. CASE ToolStep
  <2>1. PICK i \in DOMAIN calls, s \in Statuses \ {"waiting"} :
          /\ pc \in {"asking", "running"}
          /\ i \in group
          /\ status[i] \notin Finished
          /\ SetStatus(i, s)
          /\ started' \in {started, started \cup {calls[i].id}}
    <3>1. PICK i \in DOMAIN calls : BeforeTool(i) \/ RunCall(i) \/ ToolReturns(i) \/ AfterTool(i)
      BY <1>tool DEF ToolStep
    <3>2. CASE BeforeTool(i)
      BY <3>2 DEF BeforeTool, NextIn, Statuses, Finished
    <3>3. CASE RunCall(i)
      BY <3>3 DEF RunCall, NextIn, Statuses, Finished
    <3>4. CASE ToolReturns(i)
      BY <3>4 DEF ToolReturns, Statuses, Finished
    <3>5. CASE AfterTool(i)
      BY <3>5 DEF AfterTool, Statuses, Finished
    <3> QED
      BY <3>1, <3>2, <3>3, <3>4, <3>5
  <2>2. /\ status' = [status EXCEPT ![i] = s]
        /\ pc' \in {"asking", "running"}
        /\ UNCHANGED <<context, saved, turnEnd, commit, copy, cancelled, rounds, attempt, draft, open,
                       nextId, calls, group>>
    BY <2>1 DEF SetStatus
  <2>3. calls[i].id \in Nat
    <3>1. calls \in Seq(Block) /\ i \in 1 .. Len(calls)
      BY <1>typ, <2>1, LenProperties DEF TypeOK
    <3>2. calls[i] \in Block
      BY <3>1, ElementOfSeq
    <3> QED
      BY <3>2 DEF Block
  <2>4. GroupInv
    BY DEF IInv
  <2>5. Len(status) = Len(calls) /\ DOMAIN status = 1 .. Len(calls) /\ DOMAIN calls = 1 .. Len(calls)
    BY <1>typ, <2>1, <2>4, LenProperties DEF TypeOK, GroupInv
  <2>6. /\ status' \in Seq(Statuses) /\ Len(status') = Len(calls)
        /\ \A j \in DOMAIN calls : j # i => status'[j] = status[j]
    BY <1>typ, <2>2, <2>5, ExceptSeq DEF TypeOK
  <2>7. GroupInv'
    <3>1. /\ group \subseteq DOMAIN calls
          /\ \A h, k \in group : \A j \in DOMAIN calls : h <= j /\ j <= k => j \in group
          /\ \A j \in DOMAIN calls : (\A h \in group : j < h) => status[j] \in Finished
      BY <2>1, <2>4 DEF GroupInv
    <3>2. ASSUME NEW j \in DOMAIN calls, \A h \in group : j < h
          PROVE  status'[j] \in Finished
      <4>1. j # i
        BY <2>1, <2>5, <3>2
      <4> QED
        BY <2>6, <3>1, <3>2, <4>1
    <3> QED
      BY <2>2, <2>6, <3>1, <3>2 DEF GroupInv
  <2>8. started' \subseteq Nat
    BY <1>typ, <2>1, <2>3 DEF TypeOK
  <2> QED
    BY <1>typ, <2>1, <2>2, <2>6, <2>7, <2>8
       DEF IInv, TypeOK, Steps, ReplayIsContext, AfterSave, Quiet, Counters, CallsInContext
<1>next. CASE NextGroup
  <2>1. PICK first \in DOMAIN calls \ group : first - 1 \in group /\ group' = GroupFrom(first)
    BY <1>next DEF NextGroup
  <2>2. /\ pc = "running" /\ pc' = "asking" /\ \A i \in group : status[i] \in Finished
        /\ UNCHANGED <<context, saved, turnEnd, commit, copy, cancelled, rounds, attempt, draft, open,
                       nextId, calls, status, started>>
    BY <1>next DEF NextGroup, GroupDone
  <2>3. Len(calls) \in Nat /\ DOMAIN calls = 1 .. Len(calls)
    BY <1>typ, LenProperties DEF TypeOK
  <2>4. /\ group' \subseteq first .. Len(calls)
        /\ \A i, k \in group' : \A j \in DOMAIN calls : i <= j /\ j <= k => j \in group'
    BY <1>typ, <2>1, <2>3, GroupInterval DEF TypeOK
  <2>5. /\ Len(status) = Len(calls)
        /\ group \subseteq DOMAIN calls
        /\ \A i, k \in group : \A j \in DOMAIN calls : i <= j /\ j <= k => j \in group
        /\ \A j \in DOMAIN calls : (\A i \in group : j < i) => status[j] \in Finished
    BY <2>2 DEF IInv, GroupInv
  <2>6. ASSUME NEW j \in DOMAIN calls, \A i \in group' : j < i
        PROVE  status[j] \in Finished
    <3>1. first \in group'
      BY <2>1, <2>3 DEF GroupFrom
    <3>2. j <= first - 1
      BY <2>1, <2>3, <2>6, <3>1
    <3>3. CASE \A i \in group : j < i
      BY <2>5, <3>3
    <3>4. CASE \E i \in group : ~ (j < i)
      <4>1. PICK i \in group : i <= j
        BY <2>3, <2>5, <3>4
      <4>2. j \in group
        BY <2>1, <2>5, <3>2, <4>1
      <4> QED
        BY <2>2, <4>2
    <3> QED
      BY <3>3, <3>4
  <2>7. group' \subseteq Nat /\ group' \subseteq DOMAIN calls
    BY <2>1, <2>3, <2>4
  <2>8. GroupInv'
    BY <2>2, <2>4, <2>5, <2>6, <2>7 DEF GroupInv
  <2> QED
    BY <1>typ, <2>2, <2>7, <2>8
       DEF IInv, TypeOK, Steps, ReplayIsContext, AfterSave, Quiet, Counters, CallsInContext
<1>finished. CASE ToolsFinished
  <2> DEFINE display == DisplayFrom(Len(context))
  <2>1. /\ pc = "running" /\ \A i \in group : status[i] \in Finished
        /\ Len(calls) \in group
        /\ calls' = <<>> /\ status' = <<>> /\ group' = {} /\ started' = started
        /\ UNCHANGED <<turnEnd, copy, cancelled, rounds, attempt, draft, open, nextId>>
    BY <1>finished DEF ToolsFinished, GroupDone
  <2>2. \/ TakeUnsaved(context \o Outcomes, "save_done", "cancelled", display)
        \/ TakeUnsaved(context \o Outcomes, "save_round", "none", display)
    BY <1>finished DEF ToolsFinished, Done, AfterRound
  <2>3. /\ Len(calls) \in Nat /\ DOMAIN calls = 1 .. Len(calls) /\ Len(context) \in Nat
        /\ \A i \in 1 .. Len(calls) : calls[i] \in Block
    BY <1>typ, LenProperties, ElementOfSeq DEF TypeOK
  <2>4. \A i \in DOMAIN calls : status[i] \in Finished
    BY <1>typ, <2>1, <2>3, OutcomesReady DEF IInv, GroupDone
  <2>5. Outcomes \in Seq(Block)
    BY <1>typ, <2>1, OutcomesReady DEF IInv, GroupDone
  <2>6. display \in SUBSET [index : Int, id : Nat]
    <3>1. saved \in Nat
      BY <1>typ DEF TypeOK
    <3>2. \A i \in DOMAIN calls : calls[i].id \in Nat
      BY <2>3 DEF Block
    <3> QED
      BY <2>3, <3>1, <3>2 DEF DisplayFrom
  <2> HIDE DEF display
  <2>7. /\ pc \notin DOMAIN AfterSave \cup {"commit_failed"}
        /\ "none" \in TurnEnds /\ "cancelled" \in TurnEnds
    BY <2>1 DEF AfterSave, TurnEnds
  <2>8. /\ context' \in Seq(Block) /\ saved' \in Nat /\ commit' \in Commit /\ copy' \in Seq(Block)
        /\ pc' \in {"save_done", "save_round"} /\ ReplayIsContext'
    BY <2>1, <2>2, <2>5, <2>6, <2>7, AppendStep
  <2> QED
    BY <1>typ, <1>fact, <2>1, <2>8
       DEF IInv, TypeOK, Steps, AfterSave, Quiet, Counters, GroupInv, CallsInContext
<1>hook. CASE AfterRoundHook
  <2>1. /\ pc = "after_round" /\ UNCHANGED <<turnEnd, copy, cancelled, rounds, attempt, draft, open,
                                              nextId, calls, status, group, started>>
        /\ pc \notin DOMAIN AfterSave \cup {"commit_failed"}
        /\ {"stopped", "completed", "failed"} \subseteq TurnEnds
    BY <1>hook DEF AfterRoundHook, AfterSave, TurnEnds
  <2>2. CASE rounds < MaxRounds /\ pc' = "inbox" /\ UNCHANGED <<context, saved, commit>>
    BY <1>typ, <2>1, <2>2
       DEF IInv, TypeOK, Steps, ReplayIsContext, AfterSave, Quiet, Counters, GroupInv, CallsInContext
  <2>3. CASE Stop \/ Fail
    <3>1. PICK end \in TurnEnds : Done(context, end, {})
      BY <2>1, <2>3 DEF Stop, Fail
    <3>2. /\ context' \in Seq(Block) /\ saved' \in Nat /\ commit' \in Commit /\ copy' \in Seq(Block)
          /\ pc' = "save_done" /\ ReplayIsContext'
      BY <2>1, <3>1, DoneStep
    <3> QED
      BY <1>typ, <2>1, <3>2
         DEF IInv, TypeOK, Steps, AfterSave, Quiet, Counters, GroupInv, CallsInContext
  <2> QED
    BY <1>hook, <2>2, <2>3 DEF AfterRoundHook
<1>roundCancelled. CASE AfterRoundCancelled
  <2>1. /\ pc \notin DOMAIN AfterSave \cup {"commit_failed"} /\ "cancelled" \in TurnEnds
        /\ Done(context, "cancelled", {}) /\ copy' = copy
    BY <1>roundCancelled DEF AfterRoundCancelled, CancelTurn, AfterSave, TurnEnds
  <2>2. /\ context' \in Seq(Block) /\ saved' \in Nat /\ commit' \in Commit /\ copy' \in Seq(Block)
        /\ pc' = "save_done" /\ ReplayIsContext'
    BY <2>1, DoneStep
  <2> QED
    BY <1>roundCancelled, <1>typ, <2>2
       DEF AfterRoundCancelled, IInv, TypeOK, Steps, AfterSave, Quiet, Counters, GroupInv, CallsInContext
<1>inbox. CASE TakeInput
  <2>1. /\ pc = "inbox" /\ UNCHANGED <<copy, cancelled, attempt, draft, open, nextId, calls, status,
                                        group, started>>
        /\ pc \notin DOMAIN AfterSave \cup {"commit_failed"}
        /\ {"stopped", "completed", "failed", "none"} \subseteq TurnEnds
        /\ rounds < MaxRounds
    BY <1>inbox DEF TakeInput, AfterSave, TurnEnds, IInv, Counters
  <2>2. CASE (Stop \/ Fail) /\ UNCHANGED <<turnEnd, rounds>>
    <3>1. PICK end \in TurnEnds : Done(context, end, {})
      BY <2>1, <2>2 DEF Stop, Fail
    <3>2. /\ context' \in Seq(Block) /\ saved' \in Nat /\ commit' \in Commit /\ copy' \in Seq(Block)
          /\ pc' = "save_done" /\ ReplayIsContext'
      BY <2>1, <3>1, DoneStep
    <3> QED
      BY <1>typ, <2>1, <2>2, <3>2
         DEF IInv, TypeOK, Steps, AfterSave, Quiet, Counters, GroupInv, CallsInContext
  <2>3. ASSUME NEW input \in {<<>>, <<Plain("input")>>}, Send(input)
        PROVE  IInv'
    <3>1. input \in Seq(Block)
      <4>1. Plain("input") \in Block
        BY PlainBlock DEF Kinds
      <4>2. <<Plain("input")>> \in Seq(Block)
        BY <4>1
      <4> QED
        BY <1>fact, <4>2
    <3> DEFINE step == IF Unsaved(context \o input) = <<>> THEN "before_round" ELSE "save_input"
    <3>2. /\ turnEnd' = "none" /\ rounds' = rounds + 1
          /\ TakeUnsaved(context \o input, step, "none", {})
      BY <2>3 DEF Send
    <3>3. /\ context' \in Seq(Block) /\ saved' \in Nat /\ commit' \in Commit
          /\ copy' \in Seq(Block) /\ pc' = step /\ ReplayIsContext'
      BY <2>1, <3>1, <3>2, <1>fact, AppendStep
    <3>4. Unsaved(context \o input) = <<>> => commit' = NoCommit
      BY <3>2 DEF TakeUnsaved, NoCommit
    <3>5. rounds' \in 0 .. MaxRounds
      BY <1>typ, <1>fact, <2>1, <3>2 DEF TypeOK, BoundsAssumption
    <3> QED
      BY <1>typ, <2>1, <3>2, <3>3, <3>4, <3>5
         DEF IInv, TypeOK, Steps, AfterSave, Quiet, Counters, GroupInv, CallsInContext
  <2> QED
    BY <1>inbox, <2>2, <2>3 DEF TakeInput
<1>done. CASE Terminated \/ UNCHANGED vars
  <2>1. UNCHANGED vars
    BY <1>done DEF Terminated
  <2> QED
    <3>1. /\ pc' = pc /\ context' = context /\ saved' = saved /\ turnEnd' = turnEnd
          /\ commit' = commit /\ copy' = copy /\ cancelled' = cancelled /\ rounds' = rounds
          /\ attempt' = attempt /\ draft' = draft /\ open' = open /\ nextId' = nextId
          /\ calls' = calls /\ status' = status /\ group' = group /\ started' = started
      BY <2>1 DEF vars
    <3>2. TypeOK'
      BY <3>1 DEF IInv, TypeOK
    <3>3. ReplayIsContext' /\ Quiet' /\ Counters'
      BY <3>1 DEF IInv, ReplayIsContext, Quiet, Counters
    <3>4. GroupInv' /\ CallsInContext'
      BY <3>1 DEF IInv, GroupInv, CallsInContext
    <3> QED
      BY <3>2, <3>3, <3>4 DEF IInv
<1> QED
  BY <1>start, <1>cancel, <1>save, <1>failed, <1>before, <1>retry, <1>openr, <1>reply, <1>started,
     <1>stopped, <1>attemptFailed, <1>again, <1>answered, <1>modelCancelled, <1>calls, <1>tool,
     <1>next, <1>finished, <1>hook, <1>roundCancelled, <1>inbox, <1>done DEF Next

-----------------------------------------------------------------------------
(* The theorems *)

\* The inductive invariant holds in every state of a turn.
THEOREM Invariant == Spec => []IInv
<1>1. Init => IInv
  BY InitInv
<1>2. IInv /\ [Next]_vars => IInv'
  BY StepInv
<1> QED
  BY <1>1, <1>2, PTL DEF Spec

\* Every field of the driver and of TurnState keeps its type, a request makes at most MaxAttempts
\* attempts, and the caller's limit bounds the rounds.
THEOREM TypeCorrect == Spec => []TypeOK
<1>1. IInv => TypeOK
  BY DEF IInv
<1> QED
  BY <1>1, Invariant, PTL

\* Commit::apply keeps its promise: the saved commits and the one that is being saved replay to the
\* context of the turn, at every await.
THEOREM CommitsReplay == Spec => []ReplayIsContext
<1>1. IInv => ReplayIsContext
  BY DEF IInv
<1> QED
  BY <1>1, Invariant, PTL

\* The driver saves before it acts: a request, a hook and a tool see only what the journal holds.
THEOREM SavesBeforeActs == Spec => []SavedBeforeActs
<1>1. IInv => SavedBeforeActs
  <2> SUFFICES ASSUME IInv PROVE SavedBeforeActs
    OBVIOUS
  <2>1. context \in Seq(Block) /\ copy \in Seq(Block) /\ Apply(commit, copy) = context
    BY DEF IInv, TypeOK, ReplayIsContext
  <2>2. pc \in {"opening", "streaming", "after_round", "inbox", "asking", "running"} => copy = context
    BY <2>1, ApplyNoCommit DEF IInv, Quiet, AfterSave
  <2> QED
    BY <2>2 DEF IInv, CallsInContext, SavedBeforeActs
<1> QED
  BY <1>1, Invariant, PTL
-----------------------------------------------------------------------------
(***************************************************************************)
(* Theorems about the calls of a turn: each gets exactly one result, the   *)
(* results tell the truth, and a serial tool runs alone.                   *)
(*                                                                         *)
(* The results depend on the ids, and the ids only keep calls apart        *)
(* because the ids of a turn grow: a new call has a greater id than every  *)
(* block of the context and every call before it (CallIds).  Between the   *)
(* save of an answer and the save of its results the calls are the last    *)
(* blocks of the context (Asked), and whether the tool of a call started   *)
(* shows in its status (StartsShow).                                       *)
(***************************************************************************)
\* Block `r` answers call `k`.
Answers(blocks, r, k) == blocks[r].kind = "result" /\ blocks[r].id = blocks[k].id

\* Block `r` is the one answer to call `k`.
OneAnswer(blocks, r, k) ==
    /\ r \in k + 1 .. Len(blocks)
    /\ Answers(blocks, r, k)
    /\ \A s \in k + 1 .. Len(blocks) : Answers(blocks, s, k) => s = r

\* Each call of `blocks` up to block `n` has exactly one result after it.
AnsweredUpTo(blocks, n) ==
    \A k \in 1 .. Len(blocks) : k <= n /\ IsCall(blocks[k]) => \E r \in 1 .. Len(blocks) : OneAnswer(blocks, r, k)

\* The last blocks of `blocks` are the calls of `asked`, which are newer than the blocks before them, and
\* every other call is answered.
Asked(blocks, asked) ==
    /\ Len(asked) <= Len(blocks)
    /\ \A i \in 1 .. Len(asked) : blocks[Len(blocks) - Len(asked) + i] = asked[i]
    /\ \A k \in 1 .. Len(blocks) - Len(asked) : \A i \in 1 .. Len(asked) : blocks[k].id < asked[i].id
    /\ AnsweredUpTo(blocks, Len(blocks) - Len(asked))

\* Calls of this turn with growing ids
CallIds(asked) ==
    /\ \A i \in 1 .. Len(asked) : IsCall(asked[i]) /\ FirstId <= asked[i].id /\ asked[i].id < nextId
    /\ \A i, j \in 1 .. Len(asked) : i < j => asked[i].id < asked[j].id

\* Text and reasoning of an answer
Said(blocks) == \A k \in 1 .. Len(blocks) : blocks[k].kind \notin {"call", "result"} /\ blocks[k].id = 0

\* The calls of the open reply are new, and only a reply that streams has blocks.
ReplyCalls ==
    /\ pc # "streaming" => draft = NoDraft
    /\ Said(draft.reasoning) /\ Said(draft.text) /\ CallIds(draft.call)
    /\ \A i \in 1 .. Len(draft.call) :
         /\ draft.call[i].id \notin started
         /\ \A k \in 1 .. Len(context) : context[k].id < draft.call[i].id

\* The next id is new.
NewIds ==
    /\ nextId \in Nat /\ FirstId <= nextId
    /\ \A k \in 1 .. Len(context) : context[k].id < nextId
    /\ \A id \in started : id < nextId

\* The driver has calls to answer.
Handling == pc \in {"save_answer", "group", "asking", "running"}

\* The context ends with the calls that the driver handles, and no other call waits.
CallsLast ==
    /\ Handling => Asked(context, calls) /\ CallIds(calls)
    /\ ~Handling /\ pc # "commit_failed" => Asked(context, <<>>)

\* Whether the tool of a call started shows in its status.
StartsShow ==
    /\ pc \in {"save_answer", "group"} => \A i \in 1 .. Len(calls) : calls[i].id \notin started
    /\ pc \in {"asking", "running"} =>
         \A i \in 1 .. Len(calls) :
            calls[i].id \in started <=> status[i] \in {"running", "returned", "ran"}

\* The calls after the group wait, and a group with several calls has only parallel ones.
GroupAlone ==
    /\ pc \notin {"asking", "running"} => status = <<>>
    /\ pc \in {"asking", "running"} =>
         /\ \A j \in DOMAIN calls : (\A i \in group : i < j) => status[j] = "waiting"
         /\ \A i, j \in group : i < j => Parallel(calls[i]) /\ Parallel(calls[j])

\* In the journal, only calls after the last block of the user lack a result.
OpenAtEnd(blocks) ==
    \A k \in Unanswered(blocks) : \A r \in k + 1 .. Len(blocks) : blocks[r].kind \notin {"input", "result"}

\* What each result of `blocks` says of its call is true.
Truth(blocks, ran) ==
    \A k \in 1 .. Len(blocks) :
        blocks[k].kind = "result" /\ blocks[k].id >= FirstId => (blocks[k].tag = "ran" <=> blocks[k].id \in ran)

\* Each display of a commit is at the block of its result.
ShownTrue(c) ==
    \A d \in c.display :
        d.index + 1 \in DOMAIN c.blocks /\ c.blocks[d.index + 1] = ToolResult(d.id, "ran")

\* The ids of `blocks` are below `n`.
Below(blocks, n) == \A k \in 1 .. Len(blocks) : blocks[k].id < n

CInv ==
    /\ ReplyCalls /\ NewIds /\ CallsLast /\ StartsShow /\ GroupAlone /\ OpenAtEnd(copy)
    /\ Truth(context, started) /\ ShownTrue(commit)

-----------------------------------------------------------------------------
(* Lemmas about sequences of blocks *)

\* A block of a concatenation is a block of one of its parts.
LEMMA ConcatBlocks ==
    ASSUME NEW s \in Seq(Block), NEW t \in Seq(Block)
    PROVE  /\ s \o t \in Seq(Block)
           /\ Len(s) \in Nat /\ Len(t) \in Nat
           /\ Len(s \o t) = Len(s) + Len(t)
           /\ \A k \in 1 .. Len(s) : (s \o t)[k] = s[k]
           /\ \A k \in 1 .. Len(t) : (s \o t)[Len(s) + k] = t[k]
           /\ \A k \in 1 .. Len(s) + Len(t) : k <= Len(s) \/ k - Len(s) \in 1 .. Len(t)
<1>1. Len(s) \in Nat /\ Len(t) \in Nat
  BY LenProperties
<1>2. /\ s \o t \in Seq(Block)
      /\ Len(s \o t) = Len(s) + Len(t)
      /\ \A k \in 1 .. Len(s) + Len(t) : (s \o t)[k] = IF k <= Len(s) THEN s[k] ELSE t[k - Len(s)]
  BY ConcatProperties
<1> QED
  BY <1>1, <1>2

\* The fields of the blocks of a sequence
LEMMA BlockFields ==
    ASSUME NEW s \in Seq(Block)
    PROVE  /\ Len(s) \in Nat /\ DOMAIN s = 1 .. Len(s)
           /\ \A k \in 1 .. Len(s) : s[k] \in Block /\ s[k].id \in Nat
<1>1. Len(s) \in Nat /\ DOMAIN s = 1 .. Len(s) /\ \A k \in 1 .. Len(s) : s[k] \in Block
  BY LenProperties, ElementOfSeq
<1> QED
  BY <1>1 DEF Block

\* What is true of the ids and of the results of two sequences is true of their concatenation.
LEMMA ConcatKeeps ==
    ASSUME NEW s \in Seq(Block), NEW t \in Seq(Block), NEW n, NEW ran
    PROVE  /\ Below(s, n) /\ Below(t, n) => Below(s \o t, n)
           /\ Truth(s, ran) /\ Truth(t, ran) => Truth(s \o t, ran)
<1> DEFINE st == s \o t
<1>1. /\ Len(s) \in Nat /\ Len(t) \in Nat
      /\ Len(st) = Len(s) + Len(t)
      /\ \A k \in 1 .. Len(s) : st[k] = s[k]
      /\ \A k \in 1 .. Len(t) : st[Len(s) + k] = t[k]
      /\ \A k \in 1 .. Len(s) + Len(t) : k <= Len(s) \/ k - Len(s) \in 1 .. Len(t)
  BY ConcatBlocks
<1> HIDE DEF st
<1>2. ASSUME NEW k \in 1 .. Len(st)
      PROVE  (\E i \in 1 .. Len(s) : st[k] = s[i]) \/ (\E i \in 1 .. Len(t) : st[k] = t[i])
  <2>1. CASE k <= Len(s)
    BY <1>1, <2>1
  <2>2. CASE k - Len(s) \in 1 .. Len(t)
    <3>1. k = Len(s) + (k - Len(s))
      BY <1>1, <1>2
    <3> QED
      BY <1>1, <2>2, <3>1
  <2> QED
    BY <1>1, <2>1, <2>2
<1>3. Below(s, n) /\ Below(t, n) => Below(st, n)
  BY <1>2 DEF Below
<1>4. Truth(s, ran) /\ Truth(t, ran) => Truth(st, ran)
  BY <1>2 DEF Truth
<1> QED
  BY <1>3, <1>4 DEF st

\* Text after text is text.
LEMMA SaidConcat ==
    ASSUME NEW s \in Seq(Block), Said(s), NEW t \in Seq(Block), Said(t)
    PROVE  s \o t \in Seq(Block) /\ Said(s \o t)
<1> DEFINE st == s \o t
<1>1. /\ st \in Seq(Block)
      /\ Len(s) \in Nat /\ Len(t) \in Nat
      /\ Len(st) = Len(s) + Len(t)
      /\ \A k \in 1 .. Len(s) : st[k] = s[k]
      /\ \A k \in 1 .. Len(t) : st[Len(s) + k] = t[k]
  BY ConcatBlocks
<1> HIDE DEF st
<1>2. ASSUME NEW k \in 1 .. Len(st)
      PROVE  st[k].kind \notin {"call", "result"} /\ st[k].id = 0
  <2>1. CASE k <= Len(s)
    BY <1>1, <2>1 DEF Said
  <2>2. CASE ~ (k <= Len(s))
    <3>1. k - Len(s) \in 1 .. Len(t) /\ Len(s) + (k - Len(s)) = k
      BY <1>1, <2>2
    <3>2. st[k] = t[k - Len(s)]
      BY <1>1, <3>1
    <3> QED
      BY <3>1, <3>2 DEF Said
  <2> QED
    BY <2>1, <2>2
<1> QED
  BY <1>1, <1>2 DEF Said, st

\* The call at `k` has not exactly one result after it.
LEMMA UnansweredIff ==
    ASSUME NEW blocks \in Seq(Block), NEW k \in 1 .. Len(blocks)
    PROVE  k \in Unanswered(blocks) <=>
             IsCall(blocks[k]) /\ ~ \E r \in 1 .. Len(blocks) : OneAnswer(blocks, r, k)
<1> DEFINE R == {r \in k + 1 .. Len(blocks) : blocks[r].kind = "result" /\ blocks[r].id = blocks[k].id}
<1>1. Len(blocks) \in Nat /\ DOMAIN blocks = 1 .. Len(blocks)
  BY LenProperties
<1>2. IsFiniteSet(R)
  <2>1. IsFiniteSet(k + 1 .. Len(blocks))
    BY <1>1, FS_Interval
  <2>2. R \subseteq k + 1 .. Len(blocks)
    OBVIOUS
  <2> QED
    BY <2>1, <2>2, FS_Subset
<1>3. k \in Unanswered(blocks) <=> IsCall(blocks[k]) /\ Cardinality(R) # 1
  BY <1>1 DEF Unanswered
<1>4. ASSUME Cardinality(R) = 1
      PROVE  \E r \in 1 .. Len(blocks) : OneAnswer(blocks, r, k)
  <2> HIDE DEF R
  <2>1. \E r : R = {r}
    BY <1>2, <1>4, FS_Singleton
  <2>2. PICK r : R = {r}
    BY <2>1
  <2>3. r \in R /\ \A s \in R : s = r
    BY <2>2
  <2>4. r \in k + 1 .. Len(blocks) /\ Answers(blocks, r, k)
    BY <2>3 DEF R, Answers
  <2>5. \A s \in k + 1 .. Len(blocks) : Answers(blocks, s, k) => s \in R
    BY DEF R, Answers
  <2>6. OneAnswer(blocks, r, k)
    BY <2>3, <2>4, <2>5 DEF OneAnswer
  <2>7. r \in 1 .. Len(blocks)
    BY <1>1, <2>4
  <2> QED
    BY <2>6, <2>7
<1>5. ASSUME NEW r \in 1 .. Len(blocks), OneAnswer(blocks, r, k)
      PROVE  Cardinality(R) = 1
  <2>1. R = {r}
    BY <1>5 DEF OneAnswer, Answers
  <2> QED
    BY <2>1, FS_Singleton
<1> QED
  BY <1>3, <1>4, <1>5

\* No call waits when no call is asked.
LEMMA AskedNone ==
    ASSUME NEW blocks \in Seq(Block)
    PROVE  Asked(blocks, <<>>) <=> Unanswered(blocks) = {}
<1>1. Len(blocks) \in Nat /\ DOMAIN blocks = 1 .. Len(blocks) /\ Len(<<>>) = 0
  BY LenProperties
<1>2. Asked(blocks, <<>>) <=> AnsweredUpTo(blocks, Len(blocks))
  BY <1>1 DEF Asked
<1>3. Unanswered(blocks) \subseteq 1 .. Len(blocks)
  BY <1>1 DEF Unanswered
<1> QED
  BY <1>1, <1>2, <1>3, UnansweredIff DEF AnsweredUpTo

\* The calls that wait are at the end.
LEMMA AskedOpen ==
    ASSUME NEW blocks \in Seq(Block), NEW asked \in Seq(Block), Asked(blocks, asked),
           \A i \in 1 .. Len(asked) : IsCall(asked[i])
    PROVE  OpenAtEnd(blocks)
<1>1. Len(blocks) \in Nat /\ DOMAIN blocks = 1 .. Len(blocks) /\ Len(asked) \in Nat
  BY LenProperties
<1> DEFINE n == Len(blocks) - Len(asked)
<1>2. n \in Nat /\ \A i \in 1 .. Len(asked) : blocks[n + i] = asked[i]
  BY <1>1 DEF Asked
<1>3. AnsweredUpTo(blocks, n)
  BY DEF Asked
<1> HIDE DEF n
<1>4. ASSUME NEW k \in Unanswered(blocks), NEW r \in k + 1 .. Len(blocks)
      PROVE  blocks[r].kind = "call"
  <2>1. k \in 1 .. Len(blocks)
    BY <1>1, <1>4 DEF Unanswered
  <2>2. ~ (k <= n)
    BY <1>3, <1>4, <2>1, UnansweredIff DEF AnsweredUpTo
  <2>3. r - n \in 1 .. Len(asked) /\ n + (r - n) = r
    BY <1>1, <1>2, <1>4, <2>1, <2>2 DEF n
  <2>4. blocks[r] = asked[r - n]
    BY <1>2, <2>3
  <2> QED
    BY <2>3, <2>4 DEF IsCall
<1> QED
  BY <1>4 DEF OpenAtEnd

-----------------------------------------------------------------------------
(* Lemmas about the answers to calls *)

\* An answer to a call stays its only one when blocks join that do not answer it.
LEMMA AnswerStays ==
    ASSUME NEW blocks \in Seq(Block), NEW more \in Seq(Block), NEW k \in 1 .. Len(blocks),
           NEW r \in 1 .. Len(blocks), OneAnswer(blocks, r, k),
           \A i \in 1 .. Len(more) : more[i].kind = "result" => more[i].id # blocks[k].id
    PROVE  OneAnswer(blocks \o more, r, k)
<1> DEFINE both == blocks \o more
<1>1. /\ Len(blocks) \in Nat /\ Len(more) \in Nat /\ Len(both) = Len(blocks) + Len(more)
      /\ \A i \in 1 .. Len(blocks) : both[i] = blocks[i]
      /\ \A i \in 1 .. Len(more) : both[Len(blocks) + i] = more[i]
      /\ \A i \in 1 .. Len(blocks) + Len(more) : i <= Len(blocks) \/ i - Len(blocks) \in 1 .. Len(more)
  BY ConcatBlocks
<1> HIDE DEF both
<1>2. r \in k + 1 .. Len(both) /\ Answers(both, r, k)
  BY <1>1 DEF OneAnswer, Answers
<1>3. ASSUME NEW s \in k + 1 .. Len(both), Answers(both, s, k)
      PROVE  s = r
  <2>1. CASE s <= Len(blocks)
    BY <1>1, <1>3, <2>1 DEF OneAnswer, Answers
  <2>2. CASE s - Len(blocks) \in 1 .. Len(more)
    <3>1. s = Len(blocks) + (s - Len(blocks))
      BY <1>1
    <3>2. both[s] = more[s - Len(blocks)]
      BY <1>1, <2>2, <3>1
    <3> QED
      BY <1>1, <1>3, <2>2, <3>2 DEF Answers
  <2> QED
    BY <1>1, <2>1, <2>2
<1> QED
  BY <1>2, <1>3 DEF OneAnswer, both

\* An answer joins a context in which no call waits: its calls are the ones that wait.
LEMMA AnswerJoins ==
    ASSUME NEW blocks \in Seq(Block), Asked(blocks, <<>>),
           NEW said \in Seq(Block), Said(said), NEW asked \in Seq(Block),
           \A i \in 1 .. Len(asked) : IsCall(asked[i]) /\ 0 < asked[i].id,
           \A k \in 1 .. Len(blocks) : \A i \in 1 .. Len(asked) : blocks[k].id < asked[i].id
    PROVE  Asked(blocks \o (said \o asked), asked)
<1> DEFINE new == said \o asked
           all == blocks \o new
<1>1. /\ new \in Seq(Block) /\ Len(said) \in Nat /\ Len(asked) \in Nat
      /\ Len(new) = Len(said) + Len(asked)
      /\ \A k \in 1 .. Len(said) : new[k] = said[k]
      /\ \A k \in 1 .. Len(asked) : new[Len(said) + k] = asked[k]
      /\ \A k \in 1 .. Len(said) + Len(asked) : k <= Len(said) \/ k - Len(said) \in 1 .. Len(asked)
  BY ConcatBlocks
<1> HIDE DEF new
<1>2. /\ all \in Seq(Block) /\ Len(blocks) \in Nat /\ Len(new) \in Nat
      /\ Len(all) = Len(blocks) + Len(new)
      /\ \A k \in 1 .. Len(blocks) : all[k] = blocks[k]
      /\ \A k \in 1 .. Len(new) : all[Len(blocks) + k] = new[k]
  BY <1>1, ConcatBlocks
<1>3. Len(all) - Len(asked) = Len(blocks) + Len(said) /\ Len(<<>>) = 0
  BY <1>1, <1>2
<1>4. ASSUME NEW i \in 1 .. Len(asked)
      PROVE  all[Len(blocks) + Len(said) + i] = asked[i]
  <2>1. Len(said) + i \in 1 .. Len(new)
    BY <1>1
  <2>2. all[Len(blocks) + (Len(said) + i)] = new[Len(said) + i]
    BY <1>2, <2>1
  <2>3. Len(blocks) + (Len(said) + i) = Len(blocks) + Len(said) + i
    BY <1>1, <1>2
  <2> QED
    BY <1>1, <2>2, <2>3
<1>5. ASSUME NEW k \in 1 .. Len(blocks) + Len(said), ~ (k <= Len(blocks))
      PROVE  all[k].kind \notin {"call", "result"} /\ all[k].id = 0
  <2>1. k - Len(blocks) \in 1 .. Len(said) /\ k = Len(blocks) + (k - Len(blocks))
    BY <1>1, <1>2, <1>5
  <2>2. k - Len(blocks) \in 1 .. Len(new)
    BY <1>1, <2>1
  <2>3. all[k] = said[k - Len(blocks)]
    BY <1>1, <1>2, <2>1, <2>2
  <2> QED
    BY <2>1, <2>3 DEF Said
<1>6. ASSUME NEW i \in 1 .. Len(new)
      PROVE  new[i].kind # "result"
  <2>1. CASE i <= Len(said)
    BY <1>1, <2>1 DEF Said
  <2>2. CASE i - Len(said) \in 1 .. Len(asked)
    <3>1. i = Len(said) + (i - Len(said))
      BY <1>1
    <3>2. new[i] = asked[i - Len(said)]
      BY <1>1, <2>2, <3>1
    <3> QED
      BY <2>2, <3>2 DEF IsCall
  <2> QED
    BY <1>1, <2>1, <2>2
<1>7. ASSUME NEW k \in 1 .. Len(all), k <= Len(blocks) + Len(said), IsCall(all[k])
      PROVE  \E r \in 1 .. Len(all) : OneAnswer(all, r, k)
  <2>1. k \in 1 .. Len(blocks) /\ IsCall(blocks[k])
    BY <1>1, <1>2, <1>5, <1>7 DEF IsCall
  <2>2. AnsweredUpTo(blocks, Len(blocks))
    BY <1>2, <1>3 DEF Asked
  <2>3. PICK r \in 1 .. Len(blocks) : OneAnswer(blocks, r, k)
    BY <1>2, <2>1, <2>2 DEF AnsweredUpTo
  <2>4. OneAnswer(all, r, k)
    BY <1>1, <1>6, <2>1, <2>3, AnswerStays
  <2> QED
    BY <1>1, <1>2, <2>4
<1>8. ASSUME NEW k \in 1 .. Len(blocks) + Len(said), NEW i \in 1 .. Len(asked)
      PROVE  all[k].id < asked[i].id
  BY <1>1, <1>2, <1>5
<1>9. Len(asked) <= Len(all)
  BY <1>1, <1>2
<1> HIDE DEF all
<1> QED
  BY <1>3, <1>4, <1>7, <1>8, <1>9 DEF Asked, AnsweredUpTo, all, new

\* The results of the calls that wait join, and no call waits.
LEMMA ResultsJoin ==
    ASSUME NEW blocks \in Seq(Block), NEW asked \in Seq(Block), Asked(blocks, asked),
           \A i \in 1 .. Len(asked) : IsCall(asked[i]),
           \A i, j \in 1 .. Len(asked) : i < j => asked[i].id < asked[j].id,
           NEW results \in Seq(Block), Len(results) = Len(asked),
           \A i \in 1 .. Len(asked) : results[i].kind = "result" /\ results[i].id = asked[i].id
    PROVE  Asked(blocks \o results, <<>>)
<1> DEFINE all == blocks \o results
           n == Len(blocks) - Len(asked)
<1>1. /\ all \in Seq(Block) /\ Len(blocks) \in Nat /\ Len(asked) \in Nat
      /\ Len(all) = Len(blocks) + Len(asked)
      /\ \A k \in 1 .. Len(blocks) : all[k] = blocks[k]
      /\ \A k \in 1 .. Len(asked) : all[Len(blocks) + k] = results[k]
  <2>1. /\ all \in Seq(Block) /\ Len(blocks) \in Nat
        /\ Len(all) = Len(blocks) + Len(results)
        /\ \A k \in 1 .. Len(blocks) : all[k] = blocks[k]
        /\ \A k \in 1 .. Len(results) : all[Len(blocks) + k] = results[k]
    BY ConcatBlocks
  <2> QED
    BY <2>1, LenProperties
<1>2. /\ n \in Nat /\ n + Len(asked) = Len(blocks)
      /\ \A i \in 1 .. Len(asked) : blocks[n + i] = asked[i]
      /\ \A k \in 1 .. n : \A i \in 1 .. Len(asked) : blocks[k].id < asked[i].id
      /\ AnsweredUpTo(blocks, n)
  BY <1>1 DEF Asked
<1>3. /\ \A i \in 1 .. Len(asked) : asked[i].id \in Nat
      /\ \A k \in 1 .. Len(blocks) : blocks[k].id \in Nat
      /\ Len(<<>>) = 0
  BY BlockFields
<1>d. \A i, j \in 1 .. Len(asked) : asked[i].id = asked[j].id => i = j
  BY <1>1, <1>3
<1> HIDE DEF all, n
<1>4. ASSUME NEW k \in 1 .. Len(blocks), k <= n, IsCall(blocks[k])
      PROVE  \E r \in 1 .. Len(all) : OneAnswer(all, r, k)
  <2>1. PICK r \in 1 .. Len(blocks) : OneAnswer(blocks, r, k)
    BY <1>2, <1>4 DEF AnsweredUpTo
  <2>2. \A i \in 1 .. Len(results) : results[i].id # blocks[k].id
    BY <1>2, <1>3, <1>4
  <2>3. OneAnswer(all, r, k)
    BY <2>1, <2>2, AnswerStays DEF all
  <2> QED
    BY <1>1, <2>3
<1>5. ASSUME NEW i \in 1 .. Len(asked)
      PROVE  OneAnswer(all, Len(blocks) + i, n + i)
  <2>0. n + i \in 1 .. Len(blocks)
    BY <1>1, <1>2
  <2>1. all[n + i] = asked[i] /\ all[Len(blocks) + i] = results[i]
    BY <1>1, <1>2, <2>0
  <2>2. Len(blocks) + i \in n + i + 1 .. Len(all)
    BY <1>1, <1>2
  <2>3. ASSUME NEW s \in n + i + 1 .. Len(all), Answers(all, s, n + i)
        PROVE  s = Len(blocks) + i
    <3>1. CASE s <= Len(blocks)
      <4>1. s - n \in 1 .. Len(asked) /\ n + (s - n) = s
        BY <1>1, <1>2, <3>1
      <4>2. all[s] = blocks[s] /\ blocks[n + (s - n)] = asked[s - n]
        <5>1. s \in 1 .. Len(blocks)
          BY <1>1, <1>2, <3>1
        <5> QED
          BY <1>1, <1>2, <4>1, <5>1
      <4>3. all[s] = asked[s - n]
        BY <4>1, <4>2
      <4> QED
        BY <2>3, <4>1, <4>3 DEF Answers, IsCall
    <3>2. CASE ~ (s <= Len(blocks))
      <4>1. s - Len(blocks) \in 1 .. Len(asked) /\ Len(blocks) + (s - Len(blocks)) = s
        BY <1>1, <1>2, <3>2
      <4>2. all[s].id = asked[s - Len(blocks)].id
        BY <1>1, <4>1
      <4>3. asked[s - Len(blocks)].id = asked[i].id
        BY <2>1, <2>3, <4>2 DEF Answers
      <4>4. s - Len(blocks) = i
        BY <1>d, <4>1, <4>3
      <4> QED
        BY <1>1, <4>1, <4>4
    <3> QED
      BY <3>1, <3>2
  <2>4. Answers(all, Len(blocks) + i, n + i)
    BY <2>1 DEF Answers
  <2> QED
    BY <2>2, <2>3, <2>4 DEF OneAnswer
<1>6. ASSUME NEW k \in 1 .. Len(all), IsCall(all[k])
      PROVE  \E r \in 1 .. Len(all) : OneAnswer(all, r, k)
  <2>1. CASE k <= n
    <3>1. k \in 1 .. Len(blocks)
      BY <1>1, <1>2, <2>1
    <3>2. IsCall(blocks[k])
      BY <1>1, <1>6, <3>1
    <3> QED
      BY <1>4, <2>1, <3>1, <3>2
  <2>2. CASE n < k /\ k <= Len(blocks)
    <3>1. k - n \in 1 .. Len(asked) /\ n + (k - n) = k
      BY <1>1, <1>2, <2>2
    <3>2. OneAnswer(all, Len(blocks) + (k - n), k)
      BY <1>5, <3>1
    <3>3. Len(blocks) + (k - n) \in 1 .. Len(all)
      BY <1>1, <1>2, <3>1
    <3> QED
      BY <3>2, <3>3
  <2>3. CASE Len(blocks) < k
    <3>1. k - Len(blocks) \in 1 .. Len(asked) /\ Len(blocks) + (k - Len(blocks)) = k
      BY <1>1, <2>3
    <3>2. all[k] = results[k - Len(blocks)]
      BY <1>1, <3>1
    <3> QED
      BY <1>6, <3>1, <3>2 DEF IsCall
  <2> QED
    BY <1>1, <1>2, <2>1, <2>2, <2>3
<1>7. Asked(all, <<>>)
  BY <1>1, <1>3, <1>6 DEF Asked, AnsweredUpTo
<1> QED
  BY <1>7 DEF all

\* A replacement leaves no call without its result: a result comes after its call.
LEMMA SpliceAnswered ==
    ASSUME NEW blocks \in Seq(Block), Asked(blocks, <<>>), NEW top \in Seq(Block), Said(top),
           NEW cut \in 0 .. Len(blocks), NEW n \in Nat, 0 < n, NEW ran
    PROVE  /\ Asked(Splice(blocks, cut, top), <<>>)
           /\ Below(blocks, n) => Below(Splice(blocks, cut, top), n)
           /\ Truth(blocks, ran) => Truth(Splice(blocks, cut, top), ran)
<1> DEFINE tail == SubSeq(blocks, cut + 1, Len(blocks))
           new == top \o tail
<1>1. Len(blocks) \in Nat /\ \A k \in 1 .. Len(blocks) : blocks[k] \in Block /\ blocks[k].id \in Nat
  BY BlockFields
<1>2. /\ tail \in Seq(Block) /\ Len(tail) = Len(blocks) - cut
      /\ \A i \in 1 .. Len(blocks) - cut : tail[i] = blocks[cut + i]
  <2>1. cut + 1 \in Int /\ Len(blocks) \in Int /\ \A i \in cut + 1 .. Len(blocks) : blocks[i] \in Block
    BY <1>1
  <2>2. /\ SubSeq(blocks, cut + 1, Len(blocks)) \in Seq(Block)
        /\ Len(tail) = IF cut + 1 <= Len(blocks) THEN Len(blocks) - (cut + 1) + 1 ELSE 0
        /\ \A i \in 1 .. Len(blocks) - (cut + 1) + 1 : tail[i] = blocks[cut + 1 + i - 1]
    BY <2>1, SubSeqProperties
  <2>3. \A i \in 1 .. Len(blocks) - cut : cut + 1 + i - 1 = cut + i
    BY <1>1
  <2> QED
    BY <1>1, <2>2, <2>3
<1> HIDE DEF tail
<1>3. /\ new \in Seq(Block) /\ Len(top) \in Nat /\ Len(new) = Len(top) + Len(tail)
      /\ \A k \in 1 .. Len(top) : new[k] = top[k]
      /\ \A k \in 1 .. Len(tail) : new[Len(top) + k] = tail[k]
  BY <1>2, ConcatBlocks
<1>4. new = Splice(blocks, cut, top)
  BY DEF Splice, tail
<1> DEFINE d == cut - Len(top)
<1>5. d \in Int /\ cut = d + Len(top)
  BY <1>3
<1>6. ASSUME NEW k \in 1 .. Len(new), Len(top) < k
      PROVE  k + d \in 1 .. Len(blocks) /\ cut < k + d /\ new[k] = blocks[k + d]
  <2>1. k - Len(top) \in 1 .. Len(tail) /\ Len(top) + (k - Len(top)) = k
    BY <1>1, <1>2, <1>3, <1>6
  <2>2. new[k] = tail[k - Len(top)]
    BY <1>3, <2>1
  <2>3. tail[k - Len(top)] = blocks[cut + (k - Len(top))]
    BY <1>2, <2>1
  <2>4. cut + (k - Len(top)) = k + d
    BY <1>3
  <2>5. cut < k + d /\ k + d \in 1 .. Len(blocks)
    BY <1>1, <1>2, <1>3, <2>1
  <2> QED
    BY <2>2, <2>3, <2>4, <2>5
<1> HIDE DEF new, d
<1>7. \A k \in 1 .. Len(new) : k <= Len(top) => new[k].kind \notin {"call", "result"} /\ new[k].id = 0
  BY <1>3 DEF Said
<1>8. AnsweredUpTo(blocks, Len(blocks)) /\ Len(<<>>) = 0
  BY <1>1 DEF Asked
<1>9. ASSUME NEW k \in 1 .. Len(new), IsCall(new[k])
      PROVE  \E r \in 1 .. Len(new) : OneAnswer(new, r, k)
  <2>1. Len(top) < k /\ k + d \in 1 .. Len(blocks) /\ IsCall(blocks[k + d]) /\ new[k] = blocks[k + d]
    BY <1>3, <1>6, <1>7, <1>9 DEF IsCall
  <2>2. PICK r \in 1 .. Len(blocks) : OneAnswer(blocks, r, k + d)
    BY <1>1, <1>8, <2>1 DEF AnsweredUpTo
  <2>3. r \in k + d + 1 .. Len(blocks)
    BY <2>2 DEF OneAnswer
  <2>4. r - d \in k + 1 .. Len(new) /\ Len(top) < r - d /\ r - d \in 1 .. Len(new) /\ (r - d) + d = r
    BY <1>1, <1>2, <1>3, <1>5, <2>1, <2>3
  <2>5. new[r - d] = blocks[r]
    BY <1>6, <2>4
  <2>6. Answers(new, r - d, k)
    BY <2>1, <2>2, <2>5 DEF OneAnswer, Answers
  <2>7. ASSUME NEW s \in k + 1 .. Len(new), Answers(new, s, k)
        PROVE  s = r - d
    <3>1. s \in 1 .. Len(new) /\ Len(top) < s
      BY <1>3, <2>1
    <3>2. new[s] = blocks[s + d] /\ s + d \in k + d + 1 .. Len(blocks)
      BY <1>1, <1>5, <1>6, <3>1
    <3>3. Answers(blocks, s + d, k + d)
      BY <2>1, <2>7, <3>2 DEF Answers
    <3>4. s + d = r
      BY <2>2, <3>2, <3>3 DEF OneAnswer
    <3> QED
      BY <1>5, <3>4
  <2>8. OneAnswer(new, r - d, k)
    BY <2>4, <2>6, <2>7 DEF OneAnswer
  <2> QED
    BY <2>4, <2>8
<1>10. Asked(new, <<>>)
  <2>1. Len(new) \in Nat
    BY <1>3, LenProperties
  <2> QED
    BY <1>8, <1>9, <2>1 DEF Asked, AnsweredUpTo
<1>11. Below(blocks, n) => Below(new, n)
  <2> SUFFICES ASSUME Below(blocks, n), NEW k \in 1 .. Len(new)
               PROVE  new[k].id < n
    BY DEF Below
  <2>1. CASE k <= Len(top)
    BY <1>7, <2>1
  <2>2. CASE Len(top) < k
    BY <1>6, <2>2 DEF Below
  <2> QED
    BY <1>3, <2>1, <2>2
<1>12. Truth(blocks, ran) => Truth(new, ran)
  BY <1>3, <1>6, <1>7 DEF Truth
<1> QED
  BY <1>4, <1>10, <1>11, <1>12

-----------------------------------------------------------------------------
(* The inductive invariant about the calls *)

\* A reply without blocks has no calls.
LEMMA NoCalls ==
    /\ Said(NoDraft.reasoning) /\ Said(NoDraft.text)
    /\ NoDraft.call = <<>> /\ Len(<<>>) = 0
    /\ \A blocks : blocks = <<>> => Said(blocks) /\ CallIds(blocks)
  BY DEF NoDraft, Said, CallIds

LEMMA InitCalls == Init => CInv
<1> SUFFICES ASSUME Init PROVE CInv
  OBVIOUS
<1>1. /\ context \in Seq(Block) /\ Unanswered(context) = {} /\ copy = context
      /\ \A k \in DOMAIN context : context[k].id < FirstId
      /\ FirstId \in Nat \ {0}
  BY ContextAssumption DEF Init
<1>2. /\ DOMAIN context = 1 .. Len(context)
      /\ \A k \in 1 .. Len(context) : context[k].id \in Nat
  BY <1>1, BlockFields
<1>3. ReplyCalls
  BY NoCalls DEF Init, ReplyCalls, NoDraft
<1>4. NewIds
  BY <1>1, <1>2 DEF Init, NewIds
<1>5. CallsLast
  BY <1>1, AskedNone DEF Init, CallsLast, Handling
<1>6. StartsShow /\ GroupAlone
  BY DEF Init, StartsShow, GroupAlone
<1>7. OpenAtEnd(copy)
  BY <1>1 DEF OpenAtEnd
<1>8. Truth(context, started) /\ ShownTrue(commit)
  BY <1>1, <1>2 DEF Truth, ShownTrue, Init, NoCommit, CommitOf
<1> QED
  BY <1>3, <1>4, <1>5, <1>6, <1>7, <1>8 DEF CInv

\* A step that leaves no reply open
LEMMA NoReply ==
    ASSUME draft' = NoDraft
    PROVE  ReplyCalls'
  BY NoCalls DEF ReplyCalls, NoDraft, CallIds, Said

\* A step that leaves no call waiting and no reply open keeps the invariant.
LEMMA Settles ==
    ASSUME CInv, pc' \notin {"save_answer", "group", "asking", "running"},
           context' \in Seq(Block), Asked(context', <<>>), Below(context', nextId),
           Truth(context', started), ShownTrue(commit'),
           draft' = NoDraft, copy' = copy, nextId' = nextId, started' = started, status' = <<>>
    PROVE  CInv'
<1>1. ReplyCalls'
  BY NoReply
<1>2. NewIds'
  BY DEF CInv, NewIds, Below
<1>3. CallsLast' /\ StartsShow' /\ GroupAlone'
  BY DEF CallsLast, StartsShow, GroupAlone, Handling
<1>4. OpenAtEnd(copy)' /\ Truth(context, started)' /\ ShownTrue(commit)'
  BY DEF CInv
<1> QED
  BY <1>1, <1>2, <1>3, <1>4 DEF CInv

\* What the invariant says between the rounds
LEMMA Settled ==
    ASSUME IInv, CInv, ~Handling, pc # "commit_failed"
    PROVE  /\ context \in Seq(Block) /\ Asked(context, <<>>) /\ Below(context, nextId)
           /\ Truth(context, started) /\ ShownTrue(commit) /\ status = <<>>
           /\ pc # "streaming" => draft = NoDraft
           /\ nextId \in Nat /\ 0 < nextId
<1>1. FirstId \in Nat \ {0}
  BY ContextAssumption
<1> QED
  BY <1>1 DEF IInv, TypeOK, CInv, CallsLast, NewIds, Below, GroupAlone, Handling, ReplyCalls

\* A commit without displays shows nothing wrong.
LEMMA NothingShown ==
    ASSUME NEW blocks, NEW end
    PROVE  ShownTrue(CommitOf(blocks, end, {})) /\ ShownTrue(NoCommit)
  BY DEF ShownTrue, CommitOf, NoCommit

\* The fields of a result
LEMMA ResultFields ==
    \A id, tag : LET res == ToolResult(id, tag) IN res.kind = "result" /\ res.id = id /\ res.tag = tag
  BY DEF ToolResult

\* The turn ends with the context that it has.
LEMMA EndSettles ==
    ASSUME IInv, CInv, ~Handling, pc # "commit_failed", pc # "streaming",
           NEW end, Done(context, end, {}),
           UNCHANGED <<copy, draft, nextId, calls, status, group, started>>
    PROVE  CInv'
<1>1. context' = context /\ pc' = "save_done" /\ commit' = CommitOf(Unsaved(context), end, {})
  BY DEF Done, TakeUnsaved
<1>2. ShownTrue(commit')
  BY <1>1, NothingShown
<1>3. /\ context \in Seq(Block) /\ Asked(context, <<>>) /\ Below(context, nextId)
      /\ Truth(context, started) /\ status = <<>> /\ draft = NoDraft
  BY Settled
<1> QED
  BY <1>1, <1>2, <1>3, Settles

\* The answer of an open reply joins the context, with and without results for its calls.
LEMMA AnswerStep ==
    ASSUME IInv, CInv, ~Handling, pc # "commit_failed",
           NEW said \in Seq(Block), Said(said)
    PROVE  LET all == context \o (said \o draft.call)
               answered == context \o ((said \o draft.call) \o NotExecuted(draft.call))
           IN /\ all \in Seq(Block) /\ Asked(all, draft.call)
              /\ Below(all, nextId) /\ Truth(all, started)
              /\ answered \in Seq(Block) /\ Asked(answered, <<>>)
              /\ Below(answered, nextId) /\ Truth(answered, started)
<1> DEFINE asked == draft.call
           given == said \o asked
           all == context \o given
           results == NotExecuted(asked)
<1>1. /\ context \in Seq(Block) /\ Asked(context, <<>>) /\ Below(context, nextId)
      /\ Truth(context, started) /\ nextId \in Nat /\ 0 < nextId
  BY Settled
<1>2. /\ asked \in Seq(Block) /\ results \in Seq(Block) /\ Len(asked) \in Nat
      /\ CallIds(asked) /\ FirstId \in Nat /\ 0 < FirstId
      /\ \A i \in 1 .. Len(asked) :
           /\ asked[i].id \in Nat /\ asked[i].id \notin started
           /\ \A k \in 1 .. Len(context) : context[k].id < asked[i].id
  <2>1. asked \in Seq(Block)
    BY DEF IInv, TypeOK
  <2> QED
    BY <2>1, NotExecutedBlocks, BlockFields, ContextAssumption DEF CInv, ReplyCalls
<1>3. /\ Len(results) = Len(asked)
      /\ \A i \in 1 .. Len(asked) : results[i] = ToolResult(asked[i].id, "not_run")
  BY <1>2 DEF NotExecuted
<1> HIDE DEF asked, results
<1>4. given \in Seq(Block) /\ all \in Seq(Block)
  BY <1>1, <1>2, ConcatProperties
<1>5. \A i \in 1 .. Len(asked) : IsCall(asked[i]) /\ 0 < asked[i].id /\ asked[i].id < nextId
  BY <1>2 DEF CallIds
<1>6. Asked(all, asked)
  BY <1>1, <1>2, <1>5, AnswerJoins
<1>7. Below(given, nextId) /\ Truth(given, started)
  <2>1. Below(said, nextId) /\ Truth(said, started)
    BY <1>1 DEF Said, Below, Truth
  <2>2. Below(asked, nextId) /\ Truth(asked, started)
    BY <1>5 DEF Below, Truth, IsCall
  <2> QED
    BY <1>2, <2>1, <2>2, ConcatKeeps
<1>8. Below(results, nextId) /\ Truth(results, started)
  <2>1. \A i \in 1 .. Len(asked) :
          results[i].id = asked[i].id /\ results[i].tag = "not_run"
    BY <1>3, ResultFields
  <2>2. Below(results, nextId)
    BY <1>3, <1>5, <2>1 DEF Below
  <2>3. Truth(results, started)
    BY <1>2, <1>3, <2>1 DEF Truth
  <2> QED
    BY <2>2, <2>3
<1>9. Below(all, nextId) /\ Truth(all, started)
  BY <1>1, <1>4, <1>7, ConcatKeeps
<1>10. all \o results = context \o (given \o results)
  <2> HIDE DEF given
  <2>1. context \in Seq(Block) /\ given \in Seq(Block) /\ results \in Seq(Block)
    BY <1>1, <1>2, <1>4
  <2>2. (context \o given) \o results = context \o (given \o results)
    BY <2>1, ConcatAssociative
  <2> QED
    BY <2>2
<1> HIDE DEF all, given
<1>11. Asked(all \o results, <<>>)
  <2>1. \A i \in 1 .. Len(asked) : results[i].kind = "result" /\ results[i].id = asked[i].id
    BY <1>3, ResultFields
  <2>2. \A i, j \in 1 .. Len(asked) : i < j => asked[i].id < asked[j].id
    BY <1>2 DEF CallIds
  <2> QED
    BY <1>2, <1>3, <1>4, <1>5, <1>6, <2>1, <2>2, ResultsJoin
<1>12. /\ all \o results \in Seq(Block) /\ Below(all \o results, nextId)
       /\ Truth(all \o results, started)
  BY <1>2, <1>4, <1>8, <1>9, ConcatKeeps, ConcatProperties
<1> QED
  BY <1>4, <1>6, <1>9, <1>10, <1>11, <1>12 DEF all, given, asked, results

\* The input of the user joins the context.
LEMMA InputStep ==
    ASSUME IInv, CInv, ~Handling, pc # "commit_failed", pc # "streaming",
           NEW input \in {<<>>, <<Plain("input")>>}
    PROVE  /\ context \o input \in Seq(Block) /\ Asked(context \o input, <<>>)
           /\ Below(context \o input, nextId) /\ Truth(context \o input, started)
<1>1. Plain("input") \in Block
  BY PlainBlock DEF Kinds
<1>2. input \in Seq(Block)
  <2>1. <<>> \in Seq(Block) /\ <<Plain("input")>> \in Seq(Block)
    BY <1>1, EmptySeq
  <2> QED
    BY <2>1
<1>3. Said(input)
  BY DEF Said, Plain
<1>4. draft.call = <<>>
  BY Settled DEF NoDraft
<1>5. input \o draft.call = input
  BY <1>2, <1>4, ConcatEmptySeq
<1> QED
  BY <1>2, <1>3, <1>4, <1>5, AnswerStep

\* A plan replaces blocks of the context, or none.
LEMMA PlanSettles ==
    ASSUME IInv, CInv, pc \in {"before_round", "retry_round"}, SendPlan,
           UNCHANGED <<copy, draft, nextId, calls, status, group, started>>
    PROVE  CInv'
<1>1. /\ context \in Seq(Block) /\ Asked(context, <<>>) /\ Below(context, nextId)
      /\ Truth(context, started) /\ ShownTrue(commit) /\ status = <<>>
      /\ draft = NoDraft /\ nextId \in Nat /\ 0 < nextId
  BY Settled DEF Handling
<1>2. CASE pc' = "credential" /\ UNCHANGED <<context, saved, commit>>
  BY <1>1, <1>2, Settles
<1>3. ASSUME NEW head \in {<<>>, <<Plain("head")>>}, NEW keep \in 0 .. Len(context) + 1,
             Replace(head, keep)
      PROVE  CInv'
  <2>1. Plain("head") \in Block
    BY PlainBlock DEF Kinds
  <2>2. head \in Seq(Block) /\ Said(head)
    <3>1. <<>> \in Seq(Block) /\ <<Plain("head")>> \in Seq(Block)
      BY <2>1, EmptySeq
    <3>2. Said(<<>>) /\ Said(<<Plain("head")>>)
      BY DEF Said, Plain
    <3> QED
      BY <3>1, <3>2
  <2> DEFINE cut == SaturatingSub(Len(context), keep)
  <2>3. cut \in 0 .. Len(context)
    BY <1>1, LenProperties DEF SaturatingSub
  <2> HIDE DEF cut
  <2>4. /\ context' = Splice(context, cut, head)
        /\ pc' = "save_replaced"
        /\ commit' = CommitReplaced(head, Len(context') - Len(head))
    BY <1>3 DEF Replace, cut
  <2>5. ShownTrue(commit')
    BY <2>4 DEF ShownTrue, CommitReplaced
  <2>6. context' \in Seq(Block)
    BY <1>1, <2>2, <2>3, <2>4, SpliceProperties
  <2>7. /\ Asked(context', <<>>) /\ Below(context', nextId) /\ Truth(context', started)
    BY <1>1, <2>2, <2>3, <2>4, SpliceAnswered
  <2> QED
    BY <1>1, <2>4, <2>5, <2>6, <2>7, Settles
<1> QED
  BY <1>2, <1>3 DEF SendPlan

\* A group starts with its first call, and several calls share it only when they are parallel.
LEMMA GroupShared ==
    ASSUME calls \in Seq(Block), NEW first \in 1 .. Len(calls)
    PROVE  /\ first \in GroupFrom(first)
           /\ \A i, j \in GroupFrom(first) : i < j => Parallel(calls[i]) /\ Parallel(calls[j])
<1>1. Len(calls) \in Nat
  BY LenProperties
<1> QED
  BY <1>1 DEF GroupFrom

\* What a step changes of the calls: no tool starts, or the tool of one approved call.
LEMMA ToolStepMoves ==
    ASSUME ToolStep
    PROVE  \E i \in DOMAIN calls, s \in Statuses :
             /\ pc \in {"asking", "running"} /\ i \in group /\ SetStatus(i, s)
             /\ \/ started' = started /\ (s \in {"running", "returned", "ran"}
                                            <=> status[i] \in {"running", "returned", "ran"})
                \/ /\ started' = started \cup {calls[i].id}
                   /\ s = "running" /\ status[i] = "approved"
<1>1. PICK i \in DOMAIN calls : BeforeTool(i) \/ RunCall(i) \/ ToolReturns(i) \/ AfterTool(i)
  BY DEF ToolStep
<1>2. CASE BeforeTool(i)
  BY <1>2 DEF BeforeTool, NextIn, Statuses
<1>3. CASE RunCall(i)
  BY <1>3 DEF RunCall, NextIn, Statuses
<1>4. CASE ToolReturns(i)
  BY <1>4 DEF ToolReturns, Statuses
<1>5. CASE AfterTool(i)
  BY <1>5 DEF AfterTool, Statuses
<1> QED
  BY <1>1, <1>2, <1>3, <1>4, <1>5

\* A step of a call keeps the invariant.
LEMMA ToolStepCalls ==
    ASSUME IInv, CInv, ToolStep
    PROVE  CInv'
<1>1. PICK i \in DOMAIN calls, s \in Statuses :
        /\ pc \in {"asking", "running"} /\ i \in group /\ SetStatus(i, s)
        /\ \/ started' = started /\ (s \in {"running", "returned", "ran"}
                                       <=> status[i] \in {"running", "returned", "ran"})
           \/ /\ started' = started \cup {calls[i].id}
              /\ s = "running" /\ status[i] = "approved"
  BY ToolStepMoves
<1>2. /\ status' = [status EXCEPT ![i] = s]
      /\ pc' \in {"asking", "running"}
      /\ UNCHANGED <<context, commit, copy, draft, nextId, calls, group>>
  BY <1>1 DEF SetStatus, replyVars
<1>3. /\ Len(calls) \in Nat /\ DOMAIN calls = 1 .. Len(calls) /\ i \in 1 .. Len(calls)
      /\ \A j \in 1 .. Len(calls) : calls[j].id \in Nat
      /\ Len(status) = Len(calls) /\ group \subseteq 1 .. Len(calls)
      /\ Len(context) \in Nat /\ \A k \in 1 .. Len(context) : context[k].id \in Nat
  <2>1. calls \in Seq(Block) /\ context \in Seq(Block) /\ Len(status) = Len(calls) /\ group \subseteq DOMAIN calls
    BY <1>1 DEF IInv, TypeOK, GroupInv
  <2> QED
    BY <1>1, <2>1, BlockFields
<1>4. /\ status'[i] = s
      /\ \A j \in 1 .. Len(calls) : j # i => status'[j] = status[j]
  <2>1. status \in Seq(Statuses) /\ DOMAIN status = 1 .. Len(calls)
    BY <1>3, LenProperties DEF IInv, TypeOK
  <2> QED
    BY <1>2, <1>3, <2>1
<1>5. Asked(context, calls) /\ CallIds(calls) /\ draft = NoDraft
  BY <1>1 DEF CInv, CallsLast, Handling, ReplyCalls
<1>6. \A j \in 1 .. Len(calls) : j # i => calls[j].id # calls[i].id
  BY <1>3, <1>5 DEF CallIds
<1>7. \A j \in 1 .. Len(calls) : calls[j].id \in started <=> status[j] \in {"running", "returned", "ran"}
  BY <1>1 DEF CInv, StartsShow
<1>8. StartsShow'
  <2>1. ASSUME NEW j \in 1 .. Len(calls)
        PROVE  calls[j].id \in started' <=> status'[j] \in {"running", "returned", "ran"}
    <3>1. CASE j = i
      BY <1>1, <1>3, <1>4, <1>7, <3>1
    <3>2. CASE j # i
      BY <1>1, <1>3, <1>4, <1>6, <1>7, <3>2
    <3> QED
      BY <3>1, <3>2
  <2> QED
    BY <1>2, <2>1 DEF StartsShow
<1>9. GroupAlone'
  <2>1. ASSUME NEW j \in 1 .. Len(calls), \A g \in group : g < j
        PROVE  status'[j] = "waiting"
    <3>1. i < j /\ j # i
      BY <1>1, <1>3, <2>1
    <3>2. status[j] = "waiting"
      BY <1>1, <1>3, <2>1 DEF CInv, GroupAlone
    <3> QED
      BY <1>4, <3>1, <3>2
  <2>2. \A g, j \in group : g < j => Parallel(calls[g]) /\ Parallel(calls[j])
    BY <1>1 DEF CInv, GroupAlone
  <2> QED
    BY <1>2, <1>3, <2>1, <2>2 DEF GroupAlone
<1>10. NewIds'
  <2>1. calls[i].id < nextId
    BY <1>3, <1>5 DEF CallIds
  <2> QED
    BY <1>1, <1>2, <2>1 DEF CInv, NewIds
<1>11. ReplyCalls'
  BY <1>2, <1>5, NoReply
<1>12. CallsLast'
  BY <1>1, <1>2, <1>5 DEF CallsLast, Handling, CallIds
<1>13. Truth(context, started)'
  <2>1. ASSUME NEW k \in 1 .. Len(context), context[k].kind = "result"
        PROVE  context[k].id # calls[i].id
    <3> DEFINE n == Len(context) - Len(calls)
    <3>1. CASE k <= n
      <4>1. context[k].id < calls[i].id
        BY <1>3, <1>5, <3>1 DEF Asked
      <4> QED
        BY <1>3, <4>1
    <3>2. CASE ~ (k <= n)
      <4>1. k - n \in 1 .. Len(calls) /\ n + (k - n) = k
        BY <1>3, <3>2
      <4>2. context[k] = calls[k - n]
        BY <1>5, <4>1 DEF Asked
      <4> QED
        BY <1>5, <2>1, <4>1, <4>2 DEF CallIds, IsCall
    <3> QED
      BY <3>1, <3>2
  <2>2. Truth(context, started)
    BY DEF CInv
  <2> QED
    BY <1>1, <1>2, <2>1, <2>2 DEF Truth
<1>14. OpenAtEnd(copy)' /\ ShownTrue(commit)'
  BY <1>2 DEF CInv
<1> QED
  BY <1>8, <1>9, <1>10, <1>11, <1>12, <1>13, <1>14 DEF CInv

\* The outcomes of the calls join the context.
LEMMA OutcomesStep ==
    ASSUME IInv, CInv, ToolsFinished
    PROVE  CInv'
<1> DEFINE display == DisplayFrom(Len(context))
           all == context \o Outcomes
<1>1. /\ pc = "running" /\ \A i \in group : status[i] \in Finished
      /\ Len(calls) \in group /\ status' = <<>>
      /\ UNCHANGED <<copy, draft, nextId, started>>
      /\ \E end \in TurnEnds :
            TakeUnsaved(all, "save_done", end, display) \/ TakeUnsaved(all, "save_round", end, display)
  BY DEF ToolsFinished, GroupDone, Done, AfterRound, replyVars, TurnEnds
<1>2. /\ \A i \in 1 .. Len(calls) : status[i] \in Finished
      /\ Outcomes \in Seq(Block)
  BY <1>1, OutcomesReady DEF IInv, GroupDone
<1>3. /\ context \in Seq(Block) /\ calls \in Seq(Block) /\ saved = Len(context)
      /\ Len(calls) \in Nat /\ Len(context) \in Nat /\ DOMAIN calls = 1 .. Len(calls)
  BY LenProperties DEF IInv, TypeOK, ReplayIsContext
<1>4. /\ Len(Outcomes) = Len(calls) /\ DOMAIN Outcomes = 1 .. Len(calls)
      /\ \A i \in 1 .. Len(calls) : Outcomes[i] = ToolResult(calls[i].id, status[i])
  BY <1>3 DEF Outcomes
<1>5. PICK end \in TurnEnds :
        /\ context' = all
        /\ commit' = CommitOf(Unsaved(all), end, display)
        /\ pc' \in {"save_done", "save_round"}
  BY <1>1 DEF TakeUnsaved
<1>6. Unsaved(all) = Outcomes
  BY <1>2, <1>3, UnsavedOfConcat DEF Unsaved
<1>7. commit'.display = display /\ commit'.blocks = Outcomes
  BY <1>5, <1>6 DEF CommitOf
<1> HIDE DEF display, all
<1>8. ASSUME NEW d \in display
      PROVE  d.index + 1 \in DOMAIN Outcomes /\ Outcomes[d.index + 1] = ToolResult(d.id, "ran")
  <2>1. PICK i \in 1 .. Len(calls) :
          status[i] = "ran" /\ d = [index |-> Len(context) - saved + i - 1, id |-> calls[i].id]
    BY <1>3, <1>8 DEF display, DisplayFrom
  <2>2. d.index = Len(context) - saved + i - 1 /\ d.id = calls[i].id
    BY <2>1
  <2>3. d.index + 1 = i
    BY <1>3, <2>2
  <2> QED
    BY <1>4, <2>1, <2>2, <2>3
<1>9. ShownTrue(commit')
  BY <1>7, <1>8 DEF ShownTrue
<1>10. /\ Asked(context, calls) /\ CallIds(calls) /\ Below(context, nextId) /\ Truth(context, started)
       /\ draft = NoDraft
       /\ \A i \in 1 .. Len(calls) : calls[i].id \in started <=> status[i] \in {"running", "returned", "ran"}
  BY <1>1 DEF CInv, CallsLast, Handling, ReplyCalls, StartsShow, NewIds, Below
<1>11. \A i \in 1 .. Len(calls) :
         /\ Outcomes[i].kind = "result" /\ Outcomes[i].id = calls[i].id
         /\ Outcomes[i].tag = status[i]
  BY <1>4, ResultFields
<1>12. Asked(all, <<>>)
  BY <1>2, <1>3, <1>4, <1>10, <1>11, ResultsJoin DEF CallIds, all
<1>13. Below(Outcomes, nextId) /\ Truth(Outcomes, started)
  <2>1. Below(Outcomes, nextId)
    BY <1>4, <1>10, <1>11 DEF Below, CallIds
  <2>2. Truth(Outcomes, started)
    BY <1>2, <1>4, <1>10, <1>11 DEF Truth, Finished
  <2> QED
    BY <2>1, <2>2
<1>14. Below(all, nextId) /\ Truth(all, started)
  BY <1>2, <1>3, <1>10, <1>13, ConcatKeeps DEF all
<1>15. all \in Seq(Block)
  BY <1>2, <1>3, ConcatProperties DEF all
<1> QED
  BY <1>1, <1>5, <1>9, <1>10, <1>12, <1>14, <1>15, Settles

\* A block of the open reply stops: a call gets the next id.
LEMMA BlockStoppedCalls ==
    ASSUME IInv, CInv, BlockStopped
    PROVE  CInv'
<1>1. /\ pc = "streaming" /\ pc' = pc
      /\ UNCHANGED <<context, commit, copy, calls, status, group, started>>
  BY DEF BlockStopped, toolVars
<1>2. /\ draft \in [reasoning : Seq(Block), text : Seq(Block), call : Seq(Block)]
      /\ nextId \in Nat /\ open \in {"none", "text", "reasoning", "call"}
      /\ context \in Seq(Block) /\ FirstId <= nextId /\ FirstId \in Nat
  BY ContextAssumption DEF IInv, TypeOK, CInv, NewIds
<1>3. /\ Said(draft.reasoning) /\ Said(draft.text) /\ CallIds(draft.call)
      /\ \A i \in 1 .. Len(draft.call) :
           /\ draft.call[i].id \notin started
           /\ \A k \in 1 .. Len(context) : context[k].id < draft.call[i].id
  BY DEF CInv, ReplyCalls
<1>4. /\ \A k \in 1 .. Len(context) : context[k].id < nextId
      /\ \A id \in started : id < nextId
      /\ \A k \in 1 .. Len(context) : context[k].id \in Nat
      /\ started \subseteq Nat
  BY <1>2, BlockFields DEF CInv, NewIds, IInv, TypeOK
<1>5. ReplyCalls' /\ nextId' \in Nat /\ nextId <= nextId'
  <2>1. CASE open = "call"
    <3>1. PICK mode \in Modes : draft' = [draft EXCEPT !.call = Append(draft.call, Call(nextId, mode))]
      BY <2>1 DEF BlockStopped
    <3>2. nextId' = nextId + 1
      BY <2>1 DEF BlockStopped
    <3> DEFINE new == Call(nextId, mode)
               asked == draft.call
               more == Append(asked, new)
    <3>3. new.kind = "call" /\ new.id = nextId /\ new \in Block
      BY <1>2 DEF Call, Block, Kinds, Tags
    <3>4. asked \in Seq(Block) /\ Len(asked) \in Nat /\ \A i \in 1 .. Len(asked) : asked[i].id \in Nat
      BY <1>2, BlockFields
    <3> HIDE DEF new
    <3>5. /\ Len(more) = Len(asked) + 1
          /\ \A i \in 1 .. Len(asked) : more[i] = asked[i]
          /\ more[Len(asked) + 1] = new
      BY <3>3, <3>4, AppendProperties
    <3>6. draft'.call = more /\ draft'.text = draft.text /\ draft'.reasoning = draft.reasoning
      BY <1>2, <3>1 DEF new
    <3> HIDE DEF asked, more
    <3>7. ASSUME NEW i \in 1 .. Len(more)
          PROVE  /\ IsCall(more[i]) /\ FirstId <= more[i].id /\ more[i].id < nextId'
                 /\ more[i].id \notin started
                 /\ \A k \in 1 .. Len(context) : context[k].id < more[i].id
                 /\ i <= Len(asked) => more[i].id < nextId
      <4>1. CASE i <= Len(asked)
        <5>1. i \in 1 .. Len(asked) /\ more[i] = asked[i]
          BY <3>4, <3>5, <4>1
        <5>2. /\ IsCall(asked[i]) /\ FirstId <= asked[i].id /\ asked[i].id < nextId
              /\ asked[i].id \notin started
              /\ \A k \in 1 .. Len(context) : context[k].id < asked[i].id
          BY <1>3, <5>1 DEF CallIds, asked
        <5> QED
          BY <1>2, <3>2, <3>4, <5>1, <5>2
      <4>2. CASE i = Len(asked) + 1
        <5>1. more[i] = new
          BY <3>5, <4>2
        <5>2. nextId \notin started
          BY <1>2, <1>4
        <5> QED
          BY <1>2, <1>4, <3>2, <3>3, <3>4, <4>2, <5>1, <5>2 DEF IsCall
      <4> QED
        BY <3>4, <3>5, <4>1, <4>2
    <3>8. ASSUME NEW i \in 1 .. Len(more), NEW j \in 1 .. Len(more), i < j
          PROVE  more[i].id < more[j].id
      <4>1. i \in 1 .. Len(asked)
        BY <3>4, <3>5, <3>8
      <4>2. CASE j <= Len(asked)
        <5>1. j \in 1 .. Len(asked) /\ more[j] = asked[j] /\ more[i] = asked[i]
          BY <3>4, <3>5, <4>1, <4>2
        <5> QED
          BY <1>3, <3>8, <4>1, <5>1 DEF CallIds, asked
      <4>3. CASE j = Len(asked) + 1
        BY <3>3, <3>5, <3>7, <4>1, <4>3
      <4> QED
        BY <3>4, <3>5, <4>2, <4>3
    <3>9. CallIds(draft.call)'
      BY <3>6, <3>7, <3>8 DEF CallIds
    <3>10. Said(draft.text)' /\ Said(draft.reasoning)'
      BY <1>3, <3>6
    <3>11. \A i \in 1 .. Len(draft'.call) :
             /\ draft'.call[i].id \notin started'
             /\ \A k \in 1 .. Len(context') : context'[k].id < draft'.call[i].id
      BY <1>1, <3>6, <3>7
    <3>12. pc' # "streaming" => draft' = NoDraft
      BY <1>1
    <3>13. ReplyCalls'
      BY <3>9, <3>10, <3>11, <3>12 DEF ReplyCalls
    <3>14. nextId' \in Nat /\ nextId <= nextId'
      BY <1>2, <3>2
    <3> QED
      BY <3>13, <3>14
  <2>2. CASE open \in {"text", "reasoning"}
    <3>1. draft' = [draft EXCEPT ![open] = Append(draft[open], Plain(open))] /\ nextId' = nextId
      BY <2>2 DEF BlockStopped
    <3> DEFINE old == draft[open]
               more == Append(old, Plain(open))
    <3>2. old \in Seq(Block) /\ Len(old) \in Nat /\ Said(old) /\ Plain(open) \in Block
      <4>1. old \in Seq(Block) /\ Said(old)
        BY <1>2, <1>3, <2>2
      <4>2. Plain(open) \in Block
        BY <2>2, PlainBlock DEF Kinds
      <4> QED
        BY <4>1, <4>2, LenProperties
    <3>3. /\ Len(more) = Len(old) + 1
          /\ \A i \in 1 .. Len(old) : more[i] = old[i]
          /\ more[Len(old) + 1] = Plain(open)
      BY <3>2, AppendProperties
    <3>4. Plain(open).kind \notin {"call", "result"} /\ Plain(open).id = 0
      BY <2>2 DEF Plain
    <3> HIDE DEF old, more
    <3>5. Said(more)
      BY <3>2, <3>3, <3>4 DEF Said
    <3>6. /\ draft'.call = draft.call
          /\ draft'.text \in {draft.text, more} /\ draft'.reasoning \in {draft.reasoning, more}
      BY <1>2, <2>2, <3>1 DEF old, more
    <3>7. CallIds(draft.call)'
      BY <1>3, <3>1, <3>6 DEF CallIds
    <3>8. Said(draft'.text) /\ Said(draft'.reasoning)
      BY <1>3, <3>5, <3>6
    <3>9. \A i \in 1 .. Len(draft'.call) :
            /\ draft'.call[i].id \notin started'
            /\ \A k \in 1 .. Len(context') : context'[k].id < draft'.call[i].id
      BY <1>1, <1>3, <3>6
    <3>10. ReplyCalls'
      BY <1>1, <3>7, <3>8, <3>9 DEF ReplyCalls
    <3> QED
      BY <1>2, <3>1, <3>10
  <2> QED
    BY <1>2, <2>1, <2>2 DEF BlockStopped
<1>6. NewIds'
  <2>1. \A n \in Nat : n < nextId => n < nextId'
    BY <1>2, <1>5
  <2>2. FirstId <= nextId'
    BY <1>2, <1>5
  <2>3. \A k \in 1 .. Len(context) : context[k].id < nextId'
    BY <1>4, <2>1
  <2>4. \A id \in started : id < nextId'
    BY <1>4, <2>1
  <2> QED
    BY <1>1, <1>5, <2>2, <2>3, <2>4 DEF NewIds
<1>7. /\ CallsLast' /\ StartsShow' /\ GroupAlone' /\ OpenAtEnd(copy)'
      /\ Truth(context, started)' /\ ShownTrue(commit)'
  BY <1>1 DEF CInv, CallsLast, Handling, StartsShow, GroupAlone
<1> QED
  BY <1>5, <1>6, <1>7 DEF CInv

\* The model answered.
LEMMA ModelFinishedCalls ==
    ASSUME IInv, CInv, ModelFinished
    PROVE  CInv'
<1> DEFINE said == draft.reasoning \o draft.text
           all == context \o (said \o draft.call)
           answered == context \o ((said \o draft.call) \o NotExecuted(draft.call))
<1>1. /\ pc = "streaming" /\ draft' = NoDraft
      /\ UNCHANGED <<copy, nextId, status, group, started>>
  BY DEF ModelFinished
<1>2. \/ /\ draft.call = <<>> /\ context' = all /\ pc' = "save_round" /\ calls' = calls
         /\ \E blocks : commit' = CommitOf(blocks, "none", {})
      \/ /\ context' = all /\ pc' = "save_answer" /\ calls' = draft.call
         /\ \E blocks : commit' = CommitOf(blocks, "none", {})
      \/ /\ context' = answered /\ pc' = "save_round"
         /\ \E blocks : commit' = CommitOf(blocks, "none", {})
  BY DEF ModelFinished, AfterRound, SaveAnswer, TakeUnsaved, Answer
<1>3. ShownTrue(commit')
  BY <1>2, NothingShown
<1>4. said \in Seq(Block) /\ Said(said)
  <2>1. draft.reasoning \in Seq(Block) /\ draft.text \in Seq(Block)
    BY DEF IInv, TypeOK
  <2>2. Said(draft.reasoning) /\ Said(draft.text)
    BY DEF CInv, ReplyCalls
  <2> QED
    BY <2>1, <2>2, SaidConcat
<1> HIDE DEF said
<1>5. ~Handling /\ pc # "commit_failed" /\ status = <<>>
  BY <1>1, Settled DEF Handling
<1>6. /\ all \in Seq(Block) /\ Asked(all, draft.call) /\ Below(all, nextId) /\ Truth(all, started)
      /\ answered \in Seq(Block) /\ Asked(answered, <<>>)
      /\ Below(answered, nextId) /\ Truth(answered, started)
  BY <1>4, <1>5, AnswerStep
<1> HIDE DEF all, answered
<1>7. CASE pc' = "save_round" /\ Asked(context', <<>>)
  BY <1>1, <1>2, <1>3, <1>5, <1>6, <1>7, Settles
<1>8. CASE context' = all /\ pc' = "save_answer" /\ calls' = draft.call
  <2>1. CallIds(draft.call) /\ \A i \in 1 .. Len(draft.call) : draft.call[i].id \notin started
    BY DEF CInv, ReplyCalls
  <2>2. CallIds(calls)'
    BY <1>1, <1>8, <2>1 DEF CallIds
  <2>3. CallsLast'
    BY <1>6, <1>8, <2>2 DEF CallsLast, Handling
  <2>4. StartsShow' /\ GroupAlone'
    BY <1>1, <1>5, <1>8, <2>1 DEF StartsShow, GroupAlone
  <2>5. NewIds'
    BY <1>1, <1>6, <1>8 DEF NewIds, Below, CInv
  <2>6. OpenAtEnd(copy)' /\ Truth(context, started)' /\ ReplyCalls'
    BY <1>1, <1>6, <1>8, NoReply DEF CInv
  <2> QED
    BY <1>3, <2>3, <2>4, <2>5, <2>6 DEF CInv
<1> QED
  BY <1>2, <1>6, <1>7, <1>8

\* A cancel keeps the partial answer.
LEMMA ModelCancelledCalls ==
    ASSUME IInv, CInv, ModelCancelled
    PROVE  CInv'
<1> DEFINE said == draft.text \o (IF open = "text" THEN <<Plain("text")>> ELSE <<>>)
           answered == context \o ((said \o draft.call) \o NotExecuted(draft.call))
<1>1. /\ pc \in {"before_round", "credential", "opening", "streaming", "sleeping", "retry_round"}
      /\ draft' = NoDraft /\ pc' = "save_done"
      /\ context' = answered
      /\ \E blocks : commit' = CommitOf(blocks, "cancelled", {})
      /\ UNCHANGED <<copy, nextId, status, group, started>>
  BY DEF ModelCancelled, KeepPartial, Done, TakeUnsaved, Partial, toolVars
<1>2. said \in Seq(Block) /\ Said(said)
  <2>1. draft.text \in Seq(Block) /\ Said(draft.text)
    BY DEF IInv, TypeOK, CInv, ReplyCalls
  <2>2. Plain("text") \in Block
    BY PlainBlock DEF Kinds
  <2>3. <<>> \in Seq(Block) /\ <<Plain("text")>> \in Seq(Block)
    BY <2>2, EmptySeq
  <2>4. Said(<<>>) /\ Said(<<Plain("text")>>)
    BY DEF Said, Plain
  <2> QED
    BY <2>1, <2>3, <2>4, SaidConcat
<1> HIDE DEF said
<1>3. ~Handling /\ pc # "commit_failed" /\ status = <<>>
  BY <1>1, Settled DEF Handling
<1>4. /\ answered \in Seq(Block) /\ Asked(answered, <<>>)
      /\ Below(answered, nextId) /\ Truth(answered, started)
  BY <1>2, <1>3, AnswerStep
<1>5. ShownTrue(commit')
  BY <1>1, NothingShown
<1> HIDE DEF answered
<1> QED
  BY <1>1, <1>3, <1>4, <1>5, Settles

\* A save puts the whole context into the journal, or it fails.
LEMMA SaveCalls ==
    ASSUME IInv, CInv, Save \/ SaveFailed
    PROVE  CInv'
<1>1. /\ pc \in DOMAIN AfterSave
      /\ UNCHANGED <<context, draft, nextId, calls, status, group, started>>
      /\ copy' \in {copy, context} /\ ShownTrue(commit')
      /\ \/ pc' = "commit_failed"
         \/ pc' \in {"before_round", "credential", "after_round", "ended"} /\ pc # "save_answer"
         \/ pc' = "group" /\ pc = "save_answer"
  BY NothingShown DEF Save, SaveFailed, AfterSave, CInv, replyVars, toolVars, IInv, ReplayIsContext
<1>2. context \in Seq(Block) /\ calls \in Seq(Block)
  BY DEF IInv, TypeOK
<1>3. OpenAtEnd(context)
  <2>1. CASE pc = "save_answer"
    BY <1>2, <2>1, AskedOpen DEF CInv, CallsLast, Handling, CallIds
  <2>2. CASE pc # "save_answer"
    <3>1. Asked(context, <<>>)
      BY <1>1, <2>2 DEF CInv, CallsLast, Handling, AfterSave
    <3> QED
      BY <1>2, <3>1, AskedNone DEF OpenAtEnd
  <2> QED
    BY <2>1, <2>2
<1>4. ReplyCalls'
  <2>1. draft' = NoDraft
    BY <1>1 DEF CInv, ReplyCalls, AfterSave
  <2> QED
    BY <2>1, NoReply
<1>5. NewIds' /\ Truth(context, started)' /\ GroupAlone'
  BY <1>1 DEF CInv, NewIds, GroupAlone, AfterSave
<1>6. CallsLast' /\ StartsShow'
  <2>1. CallIds(calls) => CallIds(calls)'
    BY <1>1 DEF CallIds
  <2> QED
    BY <1>1, <2>1 DEF CInv, CallsLast, StartsShow, Handling, AfterSave
<1>7. OpenAtEnd(copy)'
  BY <1>1, <1>3 DEF CInv
<1> QED
  BY <1>1, <1>4, <1>5, <1>6, <1>7 DEF CInv

\* No step breaks the invariant: one step per action of Next.
LEMMA StepCalls == IInv /\ CInv /\ [Next]_vars => CInv'
<1> SUFFICES ASSUME IInv, CInv, [Next]_vars PROVE CInv'
  OBVIOUS
<1> USE DEF replyVars, toolVars
<1>start. CASE Start
  <2>1. ~Handling /\ pc # "commit_failed" /\ pc # "streaming"
    BY <1>start DEF Start, Handling
  <2>2. /\ context' = context \o <<Plain("input")>> /\ pc' \in {"before_round", "save_input"}
        /\ \E blocks : commit' = CommitOf(blocks, "none", {})
        /\ UNCHANGED <<copy, draft, nextId, calls, status, group, started>>
    BY <1>start DEF Start, Send, TakeUnsaved
  <2>3. /\ context' \in Seq(Block) /\ Asked(context', <<>>)
        /\ Below(context', nextId) /\ Truth(context', started)
    BY <2>1, <2>2, InputStep
  <2>4. ShownTrue(commit')
    BY <2>2, NothingShown
  <2>5. draft = NoDraft /\ status = <<>>
    BY <2>1, Settled
  <2> QED
    BY <2>2, <2>3, <2>4, <2>5, Settles
<1>cancel. CASE Cancel
  BY <1>cancel DEF Cancel, CInv, ReplyCalls, NewIds, CallsLast, Handling, CallIds, StartsShow, GroupAlone
<1>save. CASE Save \/ SaveFailed
  BY <1>save, SaveCalls
<1>before. CASE BeforeRound
  <2>1. CASE SendPlan
    BY <1>before, <2>1, PlanSettles DEF BeforeRound
  <2>2. CASE Fail
    BY <1>before, <2>2, EndSettles DEF BeforeRound, Fail, Handling
  <2> QED
    BY <1>before, <2>1, <2>2 DEF BeforeRound
<1>retry. CASE RetryRound
  <2>1. CASE SendPlan
    BY <1>retry, <2>1, PlanSettles DEF RetryRound
  <2>2. CASE Fail
    BY <1>retry, <2>2, EndSettles DEF RetryRound, Fail, Handling
  <2> QED
    BY <1>retry, <2>1, <2>2 DEF RetryRound
<1>waits. CASE OpenRequest \/ AttemptFailed \/ RetryAttempt
  <2>1. /\ ~Handling /\ pc # "commit_failed" /\ (pc # "streaming" \/ draft' = NoDraft)
        /\ pc' \in {"opening", "retry_round", "sleeping", "credential"}
        /\ draft' \in {draft, NoDraft}
        /\ UNCHANGED <<context, commit, copy, nextId, status, started>>
    BY <1>waits DEF OpenRequest, AttemptFailed, RetryAttempt, Handling
  <2>2. /\ context \in Seq(Block) /\ Asked(context, <<>>) /\ Below(context, nextId)
        /\ Truth(context, started) /\ ShownTrue(commit) /\ status = <<>>
        /\ pc # "streaming" => draft = NoDraft
    BY <2>1, Settled
  <2> QED
    BY <2>1, <2>2, Settles
<1>opened. CASE ReplyOpened
  <2>1. draft' = NoDraft
    BY <1>opened DEF ReplyOpened, CInv, ReplyCalls
  <2> QED
    BY <1>opened, <2>1, NoReply
       DEF ReplyOpened, CInv, NewIds, CallsLast, Handling, StartsShow, GroupAlone
<1>started. CASE BlockStarted
  <2>1. ReplyCalls'
    BY <1>started DEF BlockStarted, CInv, ReplyCalls, CallIds
  <2> QED
    BY <1>started, <2>1 DEF BlockStarted, CInv, NewIds, CallsLast, Handling, StartsShow, GroupAlone
<1>stopped. CASE BlockStopped
  BY <1>stopped, BlockStoppedCalls
<1>answered. CASE ModelFinished
  BY <1>answered, ModelFinishedCalls
<1>modelCancelled. CASE ModelCancelled
  BY <1>modelCancelled, ModelCancelledCalls
<1>calls. CASE StartCalls
  <2>1. /\ pc = "group" /\ pc' = "asking" /\ group' = GroupFrom(1)
        /\ status' = [i \in 1 .. Len(calls) |-> "waiting"]
        /\ UNCHANGED <<context, commit, copy, draft, nextId, calls, started>>
    BY <1>calls DEF StartCalls
  <2>2. calls \in Seq(Block) /\ Len(calls) \in Nat /\ DOMAIN calls = 1 .. Len(calls)
    BY LenProperties DEF IInv, TypeOK
  <2>3. Asked(context, calls) /\ CallIds(calls) /\ draft = NoDraft
    BY <2>1 DEF CInv, CallsLast, Handling, ReplyCalls
  <2>4. \A i \in 1 .. Len(calls) : calls[i].id \notin started
    BY <2>1 DEF CInv, StartsShow
  <2>5. StartsShow'
    BY <2>1, <2>4 DEF StartsShow
  <2>6. \A i, j \in GroupFrom(1) : i < j => Parallel(calls[i]) /\ Parallel(calls[j])
    <3>1. CASE Len(calls) = 0
      BY <2>2, <3>1 DEF GroupFrom
    <3>2. CASE Len(calls) # 0
      <4>1. 1 \in 1 .. Len(calls)
        BY <2>2, <3>2
      <4> QED
        BY <2>2, <4>1, GroupShared
    <3> QED
      BY <3>1, <3>2
  <2>7. GroupAlone'
    BY <2>1, <2>2, <2>6 DEF GroupAlone
  <2>8. CallsLast'
    BY <2>1, <2>3 DEF CallsLast, Handling, CallIds
  <2>9. ReplyCalls'
    BY <2>1, <2>3, NoReply
  <2> QED
    BY <2>1, <2>5, <2>7, <2>8, <2>9 DEF CInv, NewIds
<1>tool. CASE ToolStep
  BY <1>tool, ToolStepCalls
<1>next. CASE NextGroup
  <2>1. PICK first \in DOMAIN calls \ group : first - 1 \in group /\ group' = GroupFrom(first)
    BY <1>next DEF NextGroup
  <2>2. /\ pc = "running" /\ pc' = "asking"
        /\ UNCHANGED <<context, commit, copy, draft, nextId, calls, status, started>>
    BY <1>next DEF NextGroup, GroupDone
  <2>3. calls \in Seq(Block) /\ Len(calls) \in Nat /\ DOMAIN calls = 1 .. Len(calls)
    BY LenProperties DEF IInv, TypeOK
  <2>4. Asked(context, calls) /\ CallIds(calls) /\ draft = NoDraft
    BY <2>2 DEF CInv, CallsLast, Handling, ReplyCalls
  <2>5. first \in group' /\ \A i, j \in group' : i < j => Parallel(calls[i]) /\ Parallel(calls[j])
    BY <2>1, <2>3, GroupShared
  <2>6. ASSUME NEW j \in DOMAIN calls, \A i \in group' : i < j
        PROVE  status[j] = "waiting"
    <3>1. /\ group \subseteq DOMAIN calls
          /\ \A i, k \in group : \A h \in DOMAIN calls : i <= h /\ h <= k => h \in group
          /\ \A h \in DOMAIN calls : (\A i \in group : i < h) => status[h] = "waiting"
      BY <2>2 DEF IInv, GroupInv, CInv, GroupAlone
    <3>2. \A i \in group : i < first
      BY <2>1, <2>3, <3>1
    <3>3. \A i \in group : i < j
      BY <2>3, <2>5, <2>6, <3>1, <3>2
    <3> QED
      BY <3>1, <3>3
  <2>7. GroupAlone'
    BY <2>2, <2>5, <2>6 DEF GroupAlone
  <2>8. StartsShow' /\ CallsLast'
    BY <2>2, <2>4 DEF CInv, StartsShow, CallsLast, Handling, CallIds
  <2>9. ReplyCalls'
    BY <2>2, <2>4, NoReply
  <2> QED
    BY <2>2, <2>7, <2>8, <2>9 DEF CInv, NewIds
<1>finished. CASE ToolsFinished
  BY <1>finished, OutcomesStep
<1>hook. CASE AfterRoundHook
  <2>1. CASE pc' = "inbox" /\ UNCHANGED <<context, saved, commit>>
    <3>1. /\ ~Handling /\ pc # "commit_failed" /\ pc # "streaming"
          /\ UNCHANGED <<copy, draft, nextId, status, started>>
      BY <1>hook DEF AfterRoundHook, Handling
    <3>2. /\ context \in Seq(Block) /\ Asked(context, <<>>) /\ Below(context, nextId)
          /\ Truth(context, started) /\ ShownTrue(commit) /\ status = <<>> /\ draft = NoDraft
      BY <3>1, Settled
    <3> QED
      BY <2>1, <3>1, <3>2, Settles
  <2>2. CASE Stop \/ Fail
    BY <1>hook, <2>2, EndSettles DEF AfterRoundHook, Stop, Fail, Handling
  <2> QED
    BY <1>hook, <2>1, <2>2 DEF AfterRoundHook
<1>roundCancelled. CASE AfterRoundCancelled
  BY <1>roundCancelled, EndSettles DEF AfterRoundCancelled, CancelTurn, Handling
<1>inbox. CASE TakeInput
  <2>1. /\ ~Handling /\ pc # "commit_failed" /\ pc # "streaming"
        /\ UNCHANGED <<copy, draft, nextId, calls, status, group, started>>
    BY <1>inbox DEF TakeInput, Handling
  <2>2. CASE Stop \/ Fail
    BY <2>1, <2>2, EndSettles DEF Stop, Fail
  <2>3. ASSUME NEW input \in {<<>>, <<Plain("input")>>}, Send(input)
        PROVE  CInv'
    <3>1. /\ context' = context \o input /\ pc' \in {"before_round", "save_input"}
          /\ \E blocks : commit' = CommitOf(blocks, "none", {})
      BY <2>3 DEF Send, TakeUnsaved
    <3>2. /\ context' \in Seq(Block) /\ Asked(context', <<>>)
          /\ Below(context', nextId) /\ Truth(context', started)
      BY <2>1, <3>1, InputStep
    <3>3. ShownTrue(commit')
      BY <3>1, NothingShown
    <3>4. draft = NoDraft /\ status = <<>>
      BY <2>1, Settled
    <3> QED
      BY <2>1, <3>1, <3>2, <3>3, <3>4, Settles
  <2> QED
    BY <1>inbox, <2>2, <2>3 DEF TakeInput
<1>done. CASE Terminated \/ UNCHANGED vars
  <2>1. UNCHANGED vars
    BY <1>done DEF Terminated
  <2>2. /\ pc' = pc /\ context' = context /\ commit' = commit /\ copy' = copy
        /\ draft' = draft /\ nextId' = nextId
        /\ calls' = calls /\ status' = status /\ group' = group /\ started' = started
    BY <2>1 DEF vars
  <2> QED
    BY <2>2 DEF CInv, ReplyCalls, NewIds, CallsLast, Handling, CallIds, StartsShow, GroupAlone
<1> QED
  BY <1>start, <1>cancel, <1>save, <1>before, <1>retry, <1>waits, <1>opened, <1>started,
     <1>stopped, <1>answered, <1>modelCancelled, <1>calls, <1>tool,
     <1>next, <1>finished, <1>hook, <1>roundCancelled, <1>inbox, <1>done DEF Next

-----------------------------------------------------------------------------
(* The theorems *)

\* The invariant about the calls holds in every state of a turn.
LEMMA CallsInvariant == Spec => [](IInv /\ CInv)
<1>1. Init => IInv /\ CInv
  BY InitInv, InitCalls
<1>2. IInv /\ CInv /\ [Next]_vars => (IInv /\ CInv)'
  BY StepInv, StepCalls
<1> QED
  BY <1>1, <1>2, PTL DEF Spec

\* Each call of a request, and of the context of a turn that ended, has exactly one result after it; and
\* in the journal only calls after the last block of the user lack one, which is what open_calls of
\* session.rs repairs after a crash.
THEOREM CallsGetOneResult == Spec => []CallsAnswered
<1>1. IInv /\ CInv => CallsAnswered
  <2> SUFFICES ASSUME IInv, CInv PROVE CallsAnswered
    OBVIOUS
  <2>1. context \in Seq(Block)
    BY DEF IInv, TypeOK
  <2>2. ~Handling /\ pc # "commit_failed" => Unanswered(context) = {}
    BY <2>1, AskedNone DEF CInv, CallsLast
  <2>3. OpenAtEnd(copy)
    BY DEF CInv
  <2> QED
    BY <2>2, <2>3 DEF CallsAnswered, Handling, OpenAtEnd
<1> QED
  BY <1>1, CallsInvariant, PTL

\* A result says that its call ran exactly when its tool started, and each display of a commit is at the
\* block of its result (add_outcomes).
THEOREM ResultsTellTruth == Spec => []ResultsTruthful
<1>1. IInv /\ CInv => ResultsTruthful
  <2> SUFFICES ASSUME IInv, CInv PROVE ResultsTruthful
    OBVIOUS
  <2>1. DOMAIN context = 1 .. Len(context)
    BY LenProperties DEF IInv, TypeOK
  <2> QED
    BY <2>1 DEF CInv, Truth, ShownTrue, ResultsTruthful
<1> QED
  BY <1>1, CallsInvariant, PTL

\* A serial tool runs beside no other call of its answer, whatever the hooks and the cancel decide.
THEOREM SerialToolsAlone == Spec => []SerialAlone
<1>1. IInv /\ CInv => SerialAlone
  <2> SUFFICES ASSUME IInv, CInv,
                      NEW i \in DOMAIN status, NEW j \in DOMAIN status, i < j,
                      ~Parallel(calls[i]) \/ ~Parallel(calls[j]),
                      status[j] \notin {"waiting", "not_run"}
               PROVE  status[i] \in Finished
    BY DEF SerialAlone
  <2>1. pc \in {"asking", "running"}
    BY DEF CInv, GroupAlone
  <2>2. /\ DOMAIN calls = 1 .. Len(calls) /\ Len(calls) \in Nat /\ DOMAIN status = DOMAIN calls
        /\ group \subseteq DOMAIN calls
        /\ \A h, k \in group : \A m \in DOMAIN calls : h <= m /\ m <= k => m \in group
        /\ \A m \in DOMAIN calls : (\A h \in group : m < h) => status[m] \in Finished
        /\ \A m \in DOMAIN calls : (\A h \in group : h < m) => status[m] = "waiting"
        /\ \A h, k \in group : h < k => Parallel(calls[h]) /\ Parallel(calls[k])
    <3>1. calls \in Seq(Block) /\ status \in Seq(Statuses) /\ Len(status) = Len(calls)
      BY <2>1 DEF IInv, TypeOK, GroupInv
    <3> QED
      BY <2>1, <3>1, LenProperties DEF IInv, GroupInv, CInv, GroupAlone
  <2>3. PICK k \in group : j <= k
    <3>1. ~ \A h \in group : h < j
      BY <2>2
    <3> QED
      BY <2>2, <3>1
  <2>4. i \notin group
    <3>1. i \in group => j \in group
      BY <2>2, <2>3
    <3> QED
      BY <2>2, <3>1
  <2>5. \A h \in group : i < h
    BY <2>2, <2>3, <2>4
  <2> QED
    BY <2>2, <2>5
<1> QED
  BY <1>1, CallsInvariant, PTL

-----------------------------------------------------------------------------
(* The cancel *)

\* A step keeps the started tools, opens no request, takes no input and adds nothing to the reply.
Rests ==
    /\ started' = started
    /\ pc' \in {"opening", "inbox"} => pc' = pc
    /\ draft' \in {draft, NoDraft}

\* A commit ends at its save, so it opens no request.
LEMMA CommitRests ==
    ASSUME NEW blocks, NEW end, NEW display, NEW step \in DOMAIN AfterSave,
           TakeUnsaved(blocks, step, end, display), started' = started, draft' \in {draft, NoDraft}
    PROVE  Rests
BY DEF TakeUnsaved, Rests, AfterSave

\* No step that a cancelled turn can still take starts anything new.
LEMMA CancelledRests ==
    ASSUME cancelled, [Next]_vars
    PROVE  Rests
<1>start. CASE Start
  <2>1. started' = started /\ draft' = draft /\ pc' \in {"before_round", "save_input"}
    BY <1>start DEF Start, Send, TakeUnsaved, toolVars, replyVars
  <2> QED
    BY <2>1 DEF Rests
<1>cancel. CASE Cancel \/ Terminated \/ UNCHANGED vars
  BY <1>cancel DEF Cancel, Terminated, vars, Rests, toolVars, replyVars
<1>save. CASE Save \/ SaveFailed
  <2>1. started' = started /\ draft' = draft
    BY <1>save DEF Save, SaveFailed, toolVars, replyVars
  <2>2. pc \in DOMAIN AfterSave /\ pc' \in {AfterSave[pc], "commit_failed"}
    BY <1>save DEF Save, SaveFailed
  <2>3. \A step \in DOMAIN AfterSave :
          AfterSave[step] \in {"before_round", "credential", "group", "after_round", "ended"}
    BY DEF AfterSave
  <2>4. pc' \in {"before_round", "credential", "group", "after_round", "ended", "commit_failed"}
    BY <2>2, <2>3
  <2> QED
    BY <2>1, <2>4 DEF Rests
<1>model. CASE ModelCancelled
  BY <1>model, CommitRests DEF ModelCancelled, KeepPartial, Done, AfterSave, toolVars
<1>calls. CASE StartCalls \/ NextGroup
  BY <1>calls DEF StartCalls, NextGroup, Rests, replyVars
<1>tool. CASE ToolStep
  <2>1. PICK i \in DOMAIN calls : BeforeTool(i) \/ RunCall(i) \/ ToolReturns(i) \/ AfterTool(i)
    BY <1>tool DEF ToolStep
  <2>2. started' = started
    BY <2>1 DEF BeforeTool, RunCall, ToolReturns, AfterTool
  <2>3. \E s : SetStatus(i, s)
    BY <2>1 DEF BeforeTool, RunCall, ToolReturns, AfterTool
  <2>4. pc' \in {pc, "running"} /\ draft' = draft
    BY <2>3 DEF SetStatus, replyVars
  <2> QED
    BY <2>2, <2>4 DEF Rests
<1>finished. CASE ToolsFinished
  BY <1>finished, CommitRests DEF ToolsFinished, Done, AfterSave, replyVars
<1>round. CASE AfterRoundCancelled
  BY <1>round, CommitRests DEF AfterRoundCancelled, CancelTurn, Done, AfterSave, replyVars, toolVars
<1>input. CASE TakeInput
  <2>1. started' = started /\ draft' = draft
    BY <1>input DEF TakeInput, replyVars, toolVars
  <2>2. Stop \/ Fail \/ \E input \in {<<>>, <<Plain("input")>>} : Send(input)
    BY <1>input DEF TakeInput
  <2>3. pc' \in {"before_round", "save_input", "save_done"}
    BY <2>2 DEF Stop, Fail, Done, Send, TakeUnsaved
  <2> QED
    BY <2>1, <2>3 DEF Rests
<1> QED
  BY <1>start, <1>cancel, <1>save, <1>model, <1>calls, <1>tool, <1>finished, <1>round, <1>input
     DEF Next, BeforeRound, RetryRound, OpenRequest, ReplyOpened, BlockStarted, BlockStopped, AttemptFailed,
         RetryAttempt, ModelFinished, AfterRoundHook

\* After a cancel the driver opens no request, starts no tool, takes at most the input that it was
\* taking, and keeps nothing more of a reply (drive.rs:904): the safety part of CancelEnds.
THEOREM CancelStartsNothing == Spec => [][NoNewWork]_vars
<1>1. [Next]_vars => [NoNewWork]_vars
  BY CancelledRests DEF NoNewWork, Rests
<1> QED
  BY <1>1, PTL DEF Spec
=============================================================================
