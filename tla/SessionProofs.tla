--------------------------- MODULE SessionProofs ---------------------------
(***************************************************************************)
(* Theorems about Session, for every set of processes and every bound.     *)
(*                                                                         *)
(* None of the properties is inductive.  What a process remembers of the   *)
(* store stays true only because nobody else writes: the lock has one      *)
(* holder (LockInv), a turn runs with the lease, and a write that its      *)
(* caller dropped still holds the lock while the process that sent it has  *)
(* no lease (Waits).  A commit then continues the saved context because    *)
(* each step of a turn knows that context (Remembers).  The order of the   *)
(* inputs needs what the turn took, what its read still holds, and what    *)
(* came later, in this order (Takes), and the records need that a commit   *)
(* adds the blocks of all the inputs that it consumes, or consumes none    *)
(* (Consumed); the check of the number of blocks keeps that when the inbox *)
(* of a turn fails.  The note about an interrupted turn is followed from   *)
(* its acceptance to the commit that consumes it (Notes).                  *)
(***************************************************************************)
EXTENDS Session, FiniteSetTheorems, SequenceTheorems, TLAPS

\* The steps of Session and of TurnInputs: before the first commit of a turn, and after it
Begins == {"starting", "noted", "with_note"}
Rounds == {"running", "results", "after_round", "inbox", "inbox_failed"}
Steps == {"idle", "saving"} \cup Begins \cup Rounds

\* The types of the store's tables, of what a session remembers, and of the queued writes
Turns == Ends \cup {"empty", "open"}

Input == [id : Nat, note : BOOLEAN]
Block == [kind : {"input", "text", "call", "result"}, id : Nat]
Memory == [context : Seq(Block), settings : BOOLEAN, newest : Turns]
CommitWrite ==
    [kind : {"commit"}, blocks : Seq(Block), consumed : Seq(Input), end : Ends \cup {"none"},
     then : {"idle", "running", "results", "after_round"}, awaited : BOOLEAN]
SettingsWrite == [kind : {"settings"}, settings : BOOLEAN, awaited : BOOLEAN]
NoteWrite == [kind : {"note"}, awaited : BOOLEAN]
Write == {NoWrite} \cup CommitWrite \cup SettingsWrite \cup NoteWrite

\* The types of the shared state and of the state of each process
StoreTypeOK ==
    /\ pending \in SUBSET Input
    /\ accepted \in Nat
    /\ stored \in Seq(Block)
    /\ consumed \in Seq(Nat)
    /\ settings \in BOOLEAN
    /\ newest \in Turns
    /\ faults \in Nat
    /\ untold \in BOOLEAN

ProcTypeOK ==
    /\ pc \in [Procs -> Steps]
    /\ lease \in SUBSET Procs
    /\ memory \in [Procs -> Memory]
    /\ taken \in [Procs -> Seq(Input)]
    /\ todo \in [Procs -> SUBSET Input]
    /\ queued \in [Procs -> Write]

TypeOK == StoreTypeOK /\ ProcTypeOK

\* A commit of p is queued.
Commits(p) == queued[p].kind = "commit"

\* The owner lock has one holder, and a turn, an open or new settings run with the lease.
LockInv ==
    /\ \A p, q \in Procs : HoldsLock(p) /\ HoldsLock(q) => p = q
    /\ \A p \in Procs : ~Idle(p) => p \in lease

\* A process waits for its queued write, or its caller dropped the write, and with it the lease
\* that a commit or the settings need.
Waits(p) ==
    /\ pc[p] = "saving" => queued[p] # NoWrite /\ queued[p].awaited
    /\ pc[p] # "saving" /\ queued[p] # NoWrite =>
          Idle(p) /\ ~queued[p].awaited /\ (queued[p].kind # "note" => p \notin lease)
    /\ Commits(p) => (queued[p].end = "none" <=> queued[p].then # "idle")

\* What a process with the lease remembers at each step of a turn.  Its queued commit continues the
\* saved context.
Remembers(p) ==
    /\ p \in lease /\ (pc[p] \in {"idle"} \cup Begins \/ (pc[p] = "saving" /\ ~Commits(p))) =>
          memory[p] = Snapshot /\ newest # "open"
    /\ pc[p] \in Rounds =>
          memory[p].context = stored /\ memory[p].settings = settings /\ newest = "open"
    /\ Commits(p) => memory[p].context = stored \o queued[p].blocks
    /\ Commits(p) /\ p \in lease => memory[p].settings = settings

\* A read of the inputs is taken oldest first, and what it does not hold is newer.
Takes(p) ==
    /\ taken[p] # <<>> => pc[p] \in Taking \cup {"noted", "inbox_failed"}
                           \/ (pc[p] = "saving" /\ queued[p].kind = "note")
    /\ todo[p] # {} => pc[p] \in Taking
    /\ \A i \in todo[p] \cup Range(taken[p]) : i.id <= accepted
    /\ \A i, j \in todo[p] : i.id = j.id => i = j
    /\ \A a, b \in DOMAIN taken[p] : a < b => taken[p][a].id < taken[p][b].id
    /\ \A i \in Range(taken[p]) : \A j \in todo[p] \cup (pending \ Range(taken[p])) : i.id < j.id
    /\ \A i \in todo[p] : \A j \in pending \ (todo[p] \cup Range(taken[p])) : i.id < j.id

\* So is a queued commit, which adds a block for each input that it consumes, or consumes none.
Consumed(w) ==
    /\ \A i \in Range(w.consumed) : i.id <= accepted
    /\ \A a, b \in DOMAIN w.consumed : a < b => w.consumed[a].id < w.consumed[b].id
    /\ \A i \in Range(w.consumed) : \A j \in pending \ Range(w.consumed) : i.id < j.id
    /\ \/ w.blocks = InputBlocks(w.consumed)
       \/ /\ w.consumed = <<>>
          /\ \A k \in DOMAIN w.blocks : w.blocks[k].kind # "input"

\* After the note about an interrupted turn was accepted, the turn takes it, or a client removed it.
Notes(p) ==
    /\ pc[p] = "noted" => untold \/ \E i \in pending : i.note
    /\ pc[p] = "with_note" => untold \/ Noted(p) \/ \E i \in todo[p] \cap pending : i.note
    /\ Commits(p) /\ queued[p].end = "none" /\ newest \in {"cancelled", "failed"} =>
          untold \/ \E i \in Range(queued[p].consumed) : i.note

\* What holds of each process
ProcInv(p) ==
    Waits(p) /\ Remembers(p) /\ Takes(p) /\ (Commits(p) => Consumed(queued[p])) /\ Notes(p)

\* The ids of inputs count up, so no two inputs have the same.
IdInv ==
    /\ \A i \in pending : i.id <= accepted
    /\ \A i, j \in pending : i.id = j.id => i = j

\* The inductive invariant
IInv == TypeOK /\ LockInv /\ IdInv /\ RecordsMatchBlocks /\ \A p \in Procs : ProcInv(p)

-----------------------------------------------------------------------------
(* Lemmas about sequences and writes *)

\* An empty sequence holds nothing, and Append adds its element.
LEMMA RangeFacts ==
    /\ Range(<<>>) = {}
    /\ \A S : \A s \in Seq(S), e \in S : Range(Append(s, e)) = Range(s) \cup {e}
<1>1. Range(<<>>) = {}
  BY DEF Range
<1>2. ASSUME NEW S, NEW s \in Seq(S), NEW e \in S
      PROVE  Range(Append(s, e)) = Range(s) \cup {e}
  <2>1. /\ Append(s, e) \in Seq(S) /\ Len(s) \in Nat
        /\ Len(Append(s, e)) = Len(s) + 1
        /\ \A i \in 1 .. Len(s) : Append(s, e)[i] = s[i]
        /\ Append(s, e)[Len(s) + 1] = e
    BY AppendProperties, LenProperties
  <2>2. Range(Append(s, e)) = {Append(s, e)[i] : i \in 1 .. Len(s) + 1}
    BY <2>1, RangeEquality
  <2>3. Range(s) = {s[i] : i \in 1 .. Len(s)}
    BY RangeEquality
  <2> QED
    BY <2>1, <2>2, <2>3
<1> QED
  BY <1>1, <1>2

\* The kind of a queued write tells its fields.
LEMMA WriteKinds ==
    ASSUME TypeOK, NEW p \in Procs
    PROVE  /\ queued[p].kind \in {"none", "commit", "settings", "note"}
           /\ queued[p].kind = "none" <=> queued[p] = NoWrite
           /\ Commits(p) => queued[p] \in CommitWrite
           /\ queued[p].kind = "settings" => queued[p] \in SettingsWrite
           /\ queued[p].kind = "note" => queued[p] \in NoteWrite
<1>1. queued[p] \in {NoWrite} \cup CommitWrite \cup SettingsWrite \cup NoteWrite
  BY DEF TypeOK, ProcTypeOK, Write
<1>2. NoWrite.kind = "none" /\ \A w \in CommitWrite : w.kind = "commit"
  BY DEF NoWrite, CommitWrite
<1>3. (\A w \in SettingsWrite : w.kind = "settings") /\ \A w \in NoteWrite : w.kind = "note"
  BY DEF SettingsWrite, NoteWrite
<1> QED
  BY <1>1, <1>2, <1>3 DEF Commits

\* The inputs of a sequence have ids.
LEMMA InputIds == ASSUME NEW s \in Seq(Input) PROVE \A j \in Range(s) : j.id \in Nat
<1>1. Range(s) \in SUBSET Input
  BY RangeOfSeq
<1> QED
  BY <1>1 DEF Input

\* The blocks of inputs are blocks of the user, one for each.
LEMMA InputBlocksType ==
    ASSUME NEW inputs \in Seq(Input)
    PROVE  /\ InputBlocks(inputs) \in Seq(Block) /\ Len(InputBlocks(inputs)) = Len(inputs)
           /\ Ids(inputs) \in Seq(Nat) /\ Len(Ids(inputs)) = Len(inputs)
           /\ \A k \in 1 .. Len(inputs) :
                 /\ InputBlocks(inputs)[k] = [kind |-> "input", id |-> inputs[k].id]
                 /\ Ids(inputs)[k] = inputs[k].id
<1>1. Len(inputs) \in Nat /\ \A k \in 1 .. Len(inputs) : inputs[k].id \in Nat
  <2>1. Len(inputs) \in Nat /\ \A k \in 1 .. Len(inputs) : inputs[k] \in Input
    BY LenProperties, ElementOfSeq
  <2> QED
    BY <2>1 DEF Input
<1>2. \A k \in 1 .. Len(inputs) : [kind |-> "input", id |-> inputs[k].id] \in Block
  BY <1>1 DEF Block
<1>3. InputBlocks(inputs) \in Seq(Block) /\ Ids(inputs) \in Seq(Nat)
  <2>1. [k \in 1 .. Len(inputs) |-> [kind |-> "input", id |-> inputs[k].id]] \in Seq(Block)
    BY <1>1, <1>2, IsASeq
  <2>2. [k \in 1 .. Len(inputs) |-> inputs[k].id] \in Seq(Nat)
    BY <1>1, IsASeq
  <2> QED
    BY <2>1, <2>2 DEF InputBlocks, Ids
<1> QED
  BY <1>1, <1>3, LenProperties DEF InputBlocks, Ids

-----------------------------------------------------------------------------
(* Steps *)

\* No input and no write waits at the start.
LEMMA InitInv == Init => IInv
<1> SUFFICES ASSUME Init PROVE IInv
  OBVIOUS
<1>1. <<>> \in Seq(Block) /\ <<>> \in Seq(Nat) /\ <<>> \in Seq(Input)
  BY EmptySeq
<1>2. StoreTypeOK
  BY <1>1 DEF Init, StoreTypeOK, Turns
<1>3. Snapshot \in Memory
  BY <1>1 DEF Init, Snapshot, Memory, Turns
<1>4. ProcTypeOK
  BY <1>1, <1>3, SessionAssumption DEF Init, ProcTypeOK, Steps, Write
<1>5. \A p \in Procs : queued[p] = NoWrite /\ queued[p].kind = "none" /\ Idle(p)
  BY DEF Init, NoWrite, Idle
<1>6. LockInv /\ IdInv
  BY <1>5 DEF Init, LockInv, HoldsLock, IdInv
<1>7. ASSUME NEW p \in Procs PROVE ProcInv(p)
  <2>1. Waits(p) /\ ~Commits(p)
    BY <1>5 DEF Waits, Commits, Idle
  <2>2. Remembers(p)
    BY <1>5, <2>1 DEF Init, Remembers, Idle, Rounds
  <2>3. Takes(p)
    BY RangeFacts DEF Init, Takes
  <2>4. Notes(p)
    BY <1>5, <2>1 DEF Notes, Idle
  <2> QED
    BY <2>1, <2>2, <2>3, <2>4 DEF ProcInv
<1>8. RecordsMatchBlocks
  <2>1. InputsUpTo(stored, Len(stored)) = {}
    BY EmptySeq DEF Init, InputsUpTo
  <2>2. Len(consumed) = 0
    BY EmptySeq DEF Init
  <2> QED
    BY <2>1, <2>2, FS_EmptySet DEF RecordsMatchBlocks
<1> QED
  BY <1>2, <1>4, <1>6, <1>7, <1>8 DEF IInv, TypeOK

\* The state of a process does not change in this step.
Stays(q) ==
    /\ pc'[q] = pc[q] /\ memory'[q] = memory[q] /\ taken'[q] = taken[q]
    /\ todo'[q] = todo[q] /\ queued'[q] = queued[q]
    /\ q \in lease' <=> q \in lease

\* Of the store, at most inputs that wait are removed, and a note only with the fact that it was.
Removes ==
    /\ UNCHANGED <<accepted, stored, consumed, settings, newest>>
    /\ pending' \subseteq pending
    /\ untold => untold'
    /\ \A i \in pending \ pending' : i.note => untold'

\* A removal does not break what holds of a process that stays.
LEMMA RemovalKeeps ==
    ASSUME TypeOK, NEW q \in Procs, ProcInv(q), Removes, Stays(q)
    PROVE  ProcInv(q)' /\ (HoldsLock(q)' <=> HoldsLock(q))
<1>1. Waits(q)' /\ (Commits(q)' <=> Commits(q)) /\ (HoldsLock(q)' <=> HoldsLock(q))
  BY DEF ProcInv, Waits, Commits, Idle, Stays, HoldsLock
<1>2. Remembers(q)'
  BY <1>1 DEF ProcInv, Remembers, Snapshot, Stays, Removes
<1>3. Takes(q)'
  BY DEF ProcInv, Takes, Stays, Removes
<1>4. Commits(q)' => Consumed(queued[q])'
  BY <1>1 DEF ProcInv, Consumed, Stays, Removes
<1>5. Notes(q)'
  BY <1>1 DEF ProcInv, Notes, Noted, Stays, Removes
<1> QED
  BY <1>1, <1>2, <1>3, <1>4, <1>5 DEF ProcInv

\* The store keeps its inputs and records.
LEMMA RemovalStore == ASSUME IInv, Removes PROVE IdInv' /\ RecordsMatchBlocks'
BY DEF IInv, IdInv, RecordsMatchBlocks, Removes

\* A step of one process that at most removes inputs from the store
LEMMA OwnStep ==
    ASSUME IInv, NEW p \in Procs, Removes, TypeOK', \A q \in Procs \ {p} : Stays(q),
           HoldsLock(p)' => HoldsLock(p) \/ \A q \in Procs : ~HoldsLock(q),
           Idle(p)' \/ p \in lease',
           ProcInv(p)'
    PROVE  IInv'
<1>1. \A q \in Procs \ {p} : ProcInv(q)' /\ (HoldsLock(q)' <=> HoldsLock(q))
  BY RemovalKeeps DEF IInv
<1>2. LockInv'
  BY <1>1 DEF IInv, LockInv, Idle, Stays
<1> QED
  BY <1>1, <1>2, RemovalStore DEF IInv

\* The process p goes to `step`, with memory m, the inputs t and d of its turn, and the write w.
Moves(p, step, m, t, d, w) ==
    /\ pc' = [pc EXCEPT ![p] = step] /\ memory' = [memory EXCEPT ![p] = m]
    /\ taken' = [taken EXCEPT ![p] = t] /\ todo' = [todo EXCEPT ![p] = d]
    /\ queued' = [queued EXCEPT ![p] = w]
    /\ lease' \in SUBSET Procs
    /\ \A q \in Procs \ {p} : q \in lease' <=> q \in lease

\* The state of a process that took a step
LEMMA MoveType ==
    ASSUME TypeOK, StoreTypeOK', NEW p \in Procs, NEW step, NEW m, NEW t, NEW d, NEW w,
           Moves(p, step, m, t, d, w),
           step \in Steps, m \in Memory, t \in Seq(Input), d \in SUBSET Input, w \in Write
    PROVE  /\ TypeOK'
           /\ pc'[p] = step /\ memory'[p] = m /\ taken'[p] = t /\ todo'[p] = d /\ queued'[p] = w
           /\ \A q \in Procs \ {p} : Stays(q)
<1>1. ProcTypeOK'
  BY DEF TypeOK, ProcTypeOK, Moves
<1> QED
  BY <1>1 DEF TypeOK, ProcTypeOK, Stays, Moves

\* The store of a step that removes nothing
LEMMA StoreStays ==
    ASSUME TypeOK, UNCHANGED storeVars, faults' \in Nat, untold' = untold
    PROVE  /\ StoreTypeOK' /\ Removes
           /\ UNCHANGED <<pending, accepted, stored, consumed, settings, newest>>
BY DEF TypeOK, StoreTypeOK, storeVars, Removes

\* A function that does not change is one with the same value at p.
LEMMA Same ==
    ASSUME TypeOK, NEW p \in Procs
    PROVE  /\ pc[p] \in Steps /\ pc = [pc EXCEPT ![p] = pc[p]]
           /\ memory[p] \in Memory /\ memory = [memory EXCEPT ![p] = memory[p]]
           /\ taken[p] \in Seq(Input) /\ taken = [taken EXCEPT ![p] = taken[p]]
           /\ todo[p] \in SUBSET Input /\ todo = [todo EXCEPT ![p] = todo[p]]
           /\ queued[p] \in Write /\ queued = [queued EXCEPT ![p] = queued[p]]
BY DEF TypeOK, ProcTypeOK

\* A step between turns, and the start of one
LEMMA IdleStep ==
    ASSUME IInv, NEW p \in Procs, Close(p) \/ SetSettings(p) \/ StartTurn(p)
    PROVE  IInv'
<1> USE DEF Idle
<1>1. TypeOK /\ ProcInv(p) /\ pc[p] = "idle" /\ p \in lease
  BY DEF IInv, Close, SetSettings, StartTurn
<1>2. /\ StoreTypeOK' /\ Removes /\ UNCHANGED <<pending, accepted, stored, consumed, settings, newest>>
      /\ untold' = untold
  BY <1>1, StoreStays DEF Close, SetSettings, StartTurn, TypeOK, StoreTypeOK
<1>3. lease' \in SUBSET Procs /\ \A q \in Procs \ {p} : q \in lease' <=> q \in lease
  BY <1>1 DEF Close, SetSettings, StartTurn, TypeOK, ProcTypeOK
<1>4. HoldsLock(p)
  BY <1>1 DEF HoldsLock
<1>5. CASE Close(p)
  <2>0. Moves(p, pc[p], memory[p], taken[p], todo[p], queued[p])
    BY <1>1, <1>3, <1>5, Same DEF Close, Moves
  <2>1. TypeOK' /\ \A q \in Procs \ {p} : Stays(q)
    BY <1>1, <1>2, <2>0, Same, MoveType
  <2>2. /\ p \notin lease'
        /\ UNCHANGED <<pc, memory, taken, todo, queued>>
    BY <1>5 DEF Close
  <2>3. Waits(p)' /\ Remembers(p)' /\ Takes(p)' /\ Notes(p)'
    BY <1>1, <1>2, <2>1, <2>2
    DEF ProcInv, Waits, Remembers, Takes, Notes, Commits, Noted, Begins, Rounds
  <2>4. Commits(p)' => Consumed(queued[p])'
    BY <1>1, <1>2, <2>2 DEF ProcInv, Commits, Consumed
  <2> QED
    BY <1>1, <1>2, <1>4, <2>1, <2>2, <2>3, <2>4, OwnStep DEF ProcInv
<1>6. CASE SetSettings(p)
  <2> DEFINE w == [kind |-> "settings", settings |-> ~memory[p].settings, awaited |-> TRUE]
  <2>1. w \in Write /\ "saving" \in Steps
    BY DEF Write, SettingsWrite, Steps
  <2>2. /\ TypeOK' /\ (\A q \in Procs \ {p} : Stays(q))
        /\ pc'[p] = "saving" /\ memory'[p] = memory[p] /\ taken'[p] = taken[p]
        /\ todo'[p] = todo[p] /\ queued'[p] = w
    <3>1. Moves(p, "saving", memory[p], taken[p], todo[p], w)
      BY <1>1, <1>3, <1>6, Same DEF SetSettings, GoTo, Moves
    <3> QED
      BY <1>1, <1>2, <2>1, <3>1, Same, MoveType
  <2>3. w.kind = "settings" /\ w.awaited /\ w # NoWrite /\ lease' = lease
    BY <1>6 DEF SetSettings, NoWrite
  <2> HIDE DEF w
  <2>4. Waits(p)' /\ Remembers(p)' /\ Takes(p)' /\ Notes(p)' /\ ~Commits(p)'
    BY <1>1, <1>2, <2>2, <2>3
    DEF ProcInv, Waits, Remembers, Takes, Notes, Commits, Noted, Begins, Rounds, Snapshot, Taking
  <2> QED
    BY <1>1, <1>2, <1>4, <2>2, <2>3, <2>4, OwnStep DEF ProcInv
<1>7. CASE StartTurn(p)
  <2> DEFINE d == pending \ Range(taken[p])
  <2>1. d \in SUBSET Input /\ "starting" \in Steps
    BY <1>1 DEF TypeOK, StoreTypeOK, Steps, Begins
  <2>2. /\ TypeOK' /\ (\A q \in Procs \ {p} : Stays(q))
        /\ pc'[p] = "starting" /\ memory'[p] = memory[p] /\ taken'[p] = taken[p]
        /\ todo'[p] = d /\ queued'[p] = queued[p]
    <3>1. Moves(p, "starting", memory[p], taken[p], d, queued[p])
      BY <1>1, <1>3, <1>7, Same DEF StartTurn, GoTo, ReadPending, Moves
    <3> QED
      BY <1>1, <1>2, <2>1, <3>1, Same, MoveType
  <2>3. queued[p] = NoWrite /\ queued[p].kind = "none" /\ lease' = lease /\ taken[p] = <<>>
    BY <1>1, <1>7 DEF StartTurn, ReadPending, Reaches, NoWrite, ProcInv, Takes, Taking
  <2>4. Waits(p)' /\ Remembers(p)' /\ ~Commits(p)' /\ Notes(p)'
    BY <1>1, <1>2, <2>2, <2>3
    DEF ProcInv, Waits, Remembers, Notes, Commits, Begins, Rounds, Snapshot
  <2>5. Takes(p)'
    BY <1>1, <1>2, <2>2, <2>3, RangeFacts DEF IInv, IdInv, Takes, Taking
  <2> QED
    BY <1>1, <1>2, <1>4, <2>2, <2>3, <2>4, <2>5, OwnStep DEF ProcInv
<1> QED
  BY <1>5, <1>6, <1>7

\* The steps of the turn that only read, wait or go on, and the note about an interruption
LEMMA QuietStep ==
    ASSUME IInv, NEW p \in Procs,
           TakeFails(p) \/ NoInput(p) \/ AcceptNote(p) \/ TakeNote(p) \/ Proceed(p)
    PROVE  IInv'
<1> DEFINE note == [kind |-> "note", awaited |-> TRUE]
<1> USE DEF Idle
<1>1. TypeOK /\ ProcInv(p) /\ pc[p] # "idle" /\ p \in lease /\ pc[p] # "saving"
  BY DEF IInv, LockInv, TakeFails, NoInput, AcceptNote, TakeNote, Proceed, Taking, Took
<1>2. /\ StoreTypeOK' /\ Removes /\ UNCHANGED <<pending, accepted, stored, consumed, settings, newest>>
      /\ untold' = untold
  <2>1. UNCHANGED storeVars /\ untold' = untold /\ faults' \in Nat
    BY <1>1 DEF TakeFails, NoInput, AcceptNote, TakeNote, Proceed, TypeOK, StoreTypeOK, Fault
  <2> QED
    BY <1>1, <2>1, StoreStays
<1>3. lease' = lease /\ memory' = memory /\ lease' \in SUBSET Procs
  BY <1>1 DEF TakeFails, NoInput, AcceptNote, TakeNote, Proceed, TypeOK, ProcTypeOK
<1>4. HoldsLock(p) /\ queued[p] = NoWrite /\ queued[p].kind = "none" /\ ~Commits(p)
  BY <1>1 DEF HoldsLock, ProcInv, Waits, NoWrite, Commits
<1>5. /\ <<>> \in Seq(Input) /\ note \in Write /\ note # NoWrite /\ note.kind = "note" /\ note.awaited
      /\ {"idle", "saving", "with_note", "inbox", "inbox_failed"} \subseteq Steps
  BY EmptySeq DEF Write, NoteWrite, NoWrite, Steps, Begins, Rounds
<1>6. pending \ Range(taken[p]) \in SUBSET Input
  BY <1>1 DEF TypeOK, StoreTypeOK
<1> HIDE DEF note
<1>7. CASE TakeFails(p)
  <2>1. pc[p] \in Taking
    BY <1>7 DEF TakeFails
  <2>2. CASE pc[p] = "inbox"
    <3>1. Moves(p, "inbox_failed", memory[p], taken[p], {}, queued[p])
      BY <1>1, <1>3, <1>7, <2>2, Same DEF TakeFails, GoTo, Moves
    <3>2. /\ TypeOK' /\ (\A q \in Procs \ {p} : Stays(q))
          /\ pc'[p] = "inbox_failed" /\ memory'[p] = memory[p] /\ taken'[p] = taken[p]
          /\ todo'[p] = {} /\ queued'[p] = queued[p]
      BY <1>1, <1>2, <1>5, <3>1, Same, MoveType
    <3>3. Waits(p)' /\ Remembers(p)' /\ ~Commits(p)' /\ Notes(p)'
      BY <1>1, <1>2, <1>3, <1>4, <2>2, <3>2
      DEF ProcInv, Waits, Remembers, Notes, Commits, Begins, Rounds, Snapshot
    <3>4. Takes(p)'
      BY <1>1, <1>2, <3>2 DEF ProcInv, Takes, Taking
    <3> QED
      BY <1>1, <1>2, <1>3, <1>4, <3>2, <3>3, <3>4, OwnStep DEF ProcInv
  <2>3. CASE pc[p] # "inbox"
    <3>1. Moves(p, "idle", memory[p], <<>>, {}, queued[p])
      BY <1>1, <1>3, <1>7, <2>3, Same DEF TakeFails, GoTo, Moves
    <3>2. /\ TypeOK' /\ (\A q \in Procs \ {p} : Stays(q))
          /\ pc'[p] = "idle" /\ memory'[p] = memory[p] /\ taken'[p] = <<>>
          /\ todo'[p] = {} /\ queued'[p] = queued[p]
      <4>1. /\ "idle" \in Steps /\ memory[p] \in Memory /\ <<>> \in Seq(Input)
            /\ {} \in SUBSET Input /\ queued[p] \in Write
        BY <1>1, <1>5, Same
      <4> QED
        BY <1>1, <1>2, <3>1, <4>1, MoveType
    <3>3. Waits(p)' /\ Remembers(p)' /\ ~Commits(p)' /\ Notes(p)'
      BY <1>1, <1>2, <1>3, <1>4, <2>1, <2>3, <3>2
      DEF ProcInv, Waits, Remembers, Notes, Commits, Begins, Rounds, Snapshot, Taking
    <3>4. Takes(p)'
      BY <1>2, <3>2, RangeFacts DEF Takes
    <3> QED
      BY <1>1, <1>2, <1>3, <1>4, <3>2, <3>3, <3>4, OwnStep DEF ProcInv
  <2> QED
    BY <2>2, <2>3
<1>8. CASE NoInput(p)
  <2>1. pc[p] = "starting" /\ taken[p] = <<>> /\ todo[p] = {}
    BY <1>8 DEF NoInput, Took
  <2>2. Moves(p, "idle", memory[p], taken[p], todo[p], queued[p])
    BY <1>1, <1>3, <1>8, Same DEF NoInput, GoTo, Moves
  <2>3. /\ TypeOK' /\ (\A q \in Procs \ {p} : Stays(q))
        /\ pc'[p] = "idle" /\ memory'[p] = memory[p] /\ taken'[p] = taken[p]
        /\ todo'[p] = todo[p] /\ queued'[p] = queued[p]
    BY <1>1, <1>2, <1>5, <2>2, Same, MoveType
  <2>4. Waits(p)' /\ Remembers(p)' /\ ~Commits(p)' /\ Notes(p)'
    BY <1>1, <1>2, <1>3, <1>4, <2>1, <2>3
    DEF ProcInv, Waits, Remembers, Notes, Commits, Begins, Rounds, Snapshot
  <2>5. Takes(p)'
    BY <1>2, <2>1, <2>3, RangeFacts DEF Takes
  <2> QED
    BY <1>1, <1>2, <1>3, <1>4, <2>3, <2>4, <2>5, OwnStep DEF ProcInv
<1>9. CASE AcceptNote(p)
  <2>1. pc[p] = "starting" /\ todo[p] = {}
    BY <1>9 DEF AcceptNote, Took
  <2>2. Moves(p, "saving", memory[p], taken[p], todo[p], note)
    BY <1>1, <1>3, <1>9, Same DEF AcceptNote, GoTo, Moves, note
  <2>3. /\ TypeOK' /\ (\A q \in Procs \ {p} : Stays(q))
        /\ pc'[p] = "saving" /\ memory'[p] = memory[p] /\ taken'[p] = taken[p]
        /\ todo'[p] = todo[p] /\ queued'[p] = note
    BY <1>1, <1>2, <1>5, <2>2, Same, MoveType
  <2>4. Waits(p)' /\ Remembers(p)' /\ ~Commits(p)' /\ Notes(p)'
    BY <1>1, <1>2, <1>3, <1>4, <1>5, <2>1, <2>3
    DEF ProcInv, Waits, Remembers, Notes, Commits, Begins, Rounds, Snapshot
  <2>5. Takes(p)'
    BY <1>1, <1>2, <1>5, <2>1, <2>3 DEF ProcInv, Takes
  <2> QED
    BY <1>1, <1>2, <1>3, <1>4, <2>3, <2>4, <2>5, OwnStep DEF ProcInv
<1>10. ASSUME NEW step \in {"with_note", "inbox"}, ReadPending(p), GoTo(p, step),
              step = "with_note" => pc[p] = "noted", step = "inbox" => pc[p] = "after_round",
              taken' = taken, queued' = queued
       PROVE  IInv'
  <2> DEFINE d == pending \ Range(taken[p])
  <2>1. Moves(p, step, memory[p], taken[p], d, queued[p])
    BY <1>1, <1>3, <1>10, Same DEF GoTo, ReadPending, Moves
  <2>2. /\ TypeOK' /\ (\A q \in Procs \ {p} : Stays(q))
        /\ pc'[p] = step /\ memory'[p] = memory[p] /\ taken'[p] = taken[p]
        /\ todo'[p] = d /\ queued'[p] = queued[p]
    BY <1>1, <1>2, <1>5, <1>6, <2>1, Same, MoveType
  <2>3. Waits(p)' /\ Remembers(p)' /\ ~Commits(p)'
    BY <1>1, <1>2, <1>3, <1>4, <1>10, <2>2
    DEF ProcInv, Waits, Remembers, Commits, Begins, Rounds, Snapshot
  <2>4. Notes(p)'
    BY <1>1, <1>2, <1>10, <2>2, <2>3 DEF ProcInv, Notes, Noted
  <2>5. Takes(p)'
    BY <1>1, <1>2, <1>10, <2>2 DEF IInv, IdInv, ProcInv, Takes, Taking
  <2> QED
    BY <1>1, <1>2, <1>3, <1>4, <1>10, <2>2, <2>3, <2>4, <2>5, OwnStep DEF ProcInv
<1>11. CASE TakeNote(p)
  BY <1>10, <1>11 DEF TakeNote
<1>12. CASE Proceed(p)
  BY <1>10, <1>12 DEF Proceed
<1> QED
  BY <1>7, <1>8, <1>9, <1>11, <1>12

\* The hook sees the oldest input of the read: it stays, was removed meanwhile, or is blocked.
LEMMA TakeOneStep == ASSUME IInv, NEW p \in Procs, TakeOne(p) PROVE IInv'
<1> USE DEF Idle
<1>1. TypeOK /\ ProcInv(p) /\ pc[p] \in Taking /\ p \in lease
  BY DEF IInv, LockInv, TakeOne, Taking
<1>2. PICK i \in todo[p] :
        /\ \A j \in todo[p] : i.id <= j.id
        /\ todo' = [todo EXCEPT ![p] = @ \ {i}]
        /\ \/ /\ i \in pending
              /\ taken' = [taken EXCEPT ![p] = Append(@, i)]
              /\ UNCHANGED pending
           \/ /\ i \notin pending
              /\ UNCHANGED <<pending, taken>>
           \/ /\ ~i.note
              /\ pending' = pending \ {i}
              /\ UNCHANGED taken
  BY DEF TakeOne
<1>3. /\ UNCHANGED <<accepted, stored, consumed, settings, newest, pc, lease, memory, queued, faults>>
      /\ untold' = untold
  BY DEF TakeOne
<1>4. StoreTypeOK' /\ Removes
  BY <1>1, <1>2, <1>3 DEF TypeOK, StoreTypeOK, Removes
<1>5. i \in Input /\ todo[p] \in SUBSET Input /\ taken[p] \in Seq(Input)
  BY <1>1, Same
<1>6. HoldsLock(p) /\ queued[p] = NoWrite /\ queued[p].kind = "none" /\ ~Commits(p)
  BY <1>1 DEF HoldsLock, ProcInv, Waits, NoWrite, Commits, Taking
<1> DEFINE t == taken'[p]
<1>10. \/ /\ i \in pending /\ pending' = pending /\ t = Append(taken[p], i)
          /\ Range(t) = Range(taken[p]) \cup {i}
       \/ /\ t = taken[p] /\ pending' = pending \ {i}
          /\ i \in pending => ~i.note
  <2>1. taken \in [Procs -> Seq(Input)]
    BY <1>1 DEF TypeOK, ProcTypeOK
  <2>2. CASE i \in pending /\ taken' = [taken EXCEPT ![p] = Append(@, i)] /\ UNCHANGED pending
    <3>1. t = Append(taken[p], i)
      BY <2>1, <2>2
    <3> HIDE DEF t
    <3>2. Range(Append(taken[p], i)) = Range(taken[p]) \cup {i}
      BY <1>5, RangeFacts
    <3> QED
      BY <2>2, <3>1, <3>2
  <2>3. CASE i \notin pending /\ UNCHANGED <<pending, taken>>
    BY <2>3
  <2>4. CASE ~i.note /\ pending' = pending \ {i} /\ UNCHANGED taken
    BY <2>4
  <2> QED
    BY <1>2, <2>2, <2>3, <2>4
<1>7. /\ t \in Seq(Input)
      /\ taken' = [taken EXCEPT ![p] = t]
  <2>1. t \in Seq(Input)
    <3> HIDE DEF t
    <3> QED
      BY <1>5, <1>10, AppendProperties
  <2>2. taken \in [Procs -> Seq(Input)]
    BY <1>1 DEF TypeOK, ProcTypeOK
  <2> QED
    BY <1>2, <2>1, <2>2
<1>8. /\ TypeOK' /\ (\A q \in Procs \ {p} : Stays(q))
      /\ pc'[p] = pc[p] /\ memory'[p] = memory[p] /\ taken'[p] = t
      /\ todo'[p] = todo[p] \ {i} /\ queued'[p] = queued[p]
  <2>1. Moves(p, pc[p], memory[p], t, todo[p] \ {i}, queued[p])
    BY <1>1, <1>2, <1>3, <1>7, Same DEF Moves, TypeOK, ProcTypeOK
  <2> HIDE DEF t
  <2> QED
    BY <1>1, <1>4, <1>5, <1>7, <2>1, Same, MoveType
<1> HIDE DEF t
<1>9. Waits(p)' /\ Remembers(p)' /\ ~Commits(p)'
  BY <1>1, <1>3, <1>6, <1>8 DEF ProcInv, Waits, Remembers, Commits, Snapshot
<1>11. Notes(p)'
  <2>1. pc[p] = "with_note" => untold \/ Noted(p) \/ \E j \in todo[p] \cap pending : j.note
    BY <1>1 DEF ProcInv, Notes
  <2>2. ASSUME pc[p] = "with_note", ~untold PROVE Noted(p)' \/ \E j \in todo'[p] \cap pending' : j.note
    BY <1>8, <1>10, <2>1, <2>2 DEF Noted
  <2> QED
    BY <1>1, <1>3, <1>8, <1>9, <2>2 DEF Notes, Taking
<1>12. Takes(p)'
  <2>1. /\ \A j \in todo[p] \ {i} : i.id < j.id
        /\ \A j \in pending \ (todo[p] \cup Range(taken[p])) : i.id < j.id
        /\ \A k \in Range(taken[p]) : k.id < i.id
        /\ i.id \in Nat /\ i.id <= accepted /\ \A j \in todo[p] : j.id \in Nat
    BY <1>1, <1>2, <1>5 DEF ProcInv, Takes, Input
  <2>2. \A a, b \in DOMAIN t : a < b => t[a].id < t[b].id
    <3>1. CASE t = taken[p]
      BY <1>1, <3>1 DEF ProcInv, Takes
    <3>2. CASE t = Append(taken[p], i)
      <4>1. /\ DOMAIN t = 1 .. Len(taken[p]) + 1 /\ Len(taken[p]) \in Nat
            /\ DOMAIN taken[p] = 1 .. Len(taken[p])
            /\ \A k \in 1 .. Len(taken[p]) : t[k] = taken[p][k] /\ taken[p][k] \in Range(taken[p])
            /\ t[Len(taken[p]) + 1] = i
        BY <1>5, <3>2, AppendProperties, LenProperties, RangeEquality
      <4>2. \A a, b \in DOMAIN taken[p] : a < b => taken[p][a].id < taken[p][b].id
        BY <1>1 DEF ProcInv, Takes
      <4>3. SUFFICES ASSUME NEW a \in DOMAIN t, NEW b \in DOMAIN t, a < b
                     PROVE  t[a].id < t[b].id
        OBVIOUS
      <4>4. a \in 1 .. Len(taken[p]) /\ t[a] = taken[p][a] /\ t[a] \in Range(taken[p])
        BY <4>1, <4>3
      <4>5. CASE b = Len(taken[p]) + 1
        BY <2>1, <4>1, <4>4, <4>5
      <4>6. CASE b \in 1 .. Len(taken[p])
        BY <4>1, <4>2, <4>3, <4>4, <4>6
      <4> QED
        BY <4>1, <4>3, <4>5, <4>6
    <3> QED
      BY <1>10, <3>1, <3>2
  <2>3. \A j \in todo'[p] \cup Range(t) : j.id <= accepted'
    BY <1>1, <1>3, <1>8, <1>10, <2>1 DEF ProcInv, Takes
  <2>4. \A k \in Range(t) : \A j \in todo'[p] \cup (pending' \ Range(t)) : k.id < j.id
    <3>1. \A k \in Range(taken[p]) : \A j \in todo[p] \cup (pending \ Range(taken[p])) : k.id < j.id
      BY <1>1 DEF ProcInv, Takes
    <3> QED
      BY <1>8, <1>10, <2>1, <3>1
  <2>5. \A k \in todo'[p] : \A j \in pending' \ (todo'[p] \cup Range(t)) : k.id < j.id
    <3>1. \A k \in todo[p] : \A j \in pending \ (todo[p] \cup Range(taken[p])) : k.id < j.id
      BY <1>1 DEF ProcInv, Takes
    <3> QED
      BY <1>8, <1>10, <3>1
  <2> QED
    BY <1>1, <1>8, <2>2, <2>3, <2>4, <2>5 DEF ProcInv, Takes
<1> QED
  BY <1>1, <1>3, <1>4, <1>6, <1>8, <1>9, <1>11, <1>12, OwnStep DEF ProcInv

\* A turn sends a commit: of its inputs, or of other blocks when it took none, or one that the store
\* rejects.
LEMMA SayStep ==
    ASSUME IInv, NEW p \in Procs, pc[p] \in Begins \cup Rounds, todo[p] = {},
           NEW blocks \in Seq(Block), NEW end \in Ends \cup {"none"},
           NEW then \in {"idle", "running", "results", "after_round"},
           end = "none" <=> then # "idle",
           Len(taken[p]) <= Len(blocks) =>
               \/ blocks = InputBlocks(taken[p])
               \/ taken[p] = <<>> /\ \A k \in DOMAIN blocks : blocks[k].kind # "input",
           end = "none" /\ newest \in {"cancelled", "failed"} => untold \/ Noted(p),
           Say(p, blocks, end, then)
    PROVE  IInv'
<1> USE DEF Idle
<1> DEFINE w == Commit(blocks, taken[p], end, then)
           m == [context |-> memory[p].context \o blocks, settings |-> memory[p].settings,
                 newest |-> memory[p].newest]
<1>1. TypeOK /\ ProcInv(p) /\ p \in lease /\ pc[p] # "idle" /\ pc[p] # "saving"
  BY DEF IInv, LockInv, Begins, Rounds
<1>2. /\ StoreTypeOK' /\ Removes /\ UNCHANGED <<pending, accepted, stored, consumed, settings, newest>>
      /\ untold' = untold
  <2>1. UNCHANGED storeVars /\ untold' = untold /\ faults' \in Nat
    BY <1>1 DEF Say, TypeOK, StoreTypeOK
  <2> QED
    BY <1>1, <2>1, StoreStays
<1>3. HoldsLock(p) /\ queued[p] = NoWrite /\ queued[p].kind = "none" /\ ~Commits(p)
  BY <1>1 DEF HoldsLock, ProcInv, Waits, NoWrite, Commits
<1>4. /\ memory[p].context = stored /\ memory[p].settings = settings
      /\ memory[p] \in Memory /\ taken[p] \in Seq(Input)
  BY <1>1, Same DEF ProcInv, Remembers, Snapshot
<1>5. m \in Memory /\ m.context = stored \o blocks /\ m.settings = settings
  <2>1. stored \o blocks \in Seq(Block)
    BY <1>1, ConcatProperties DEF TypeOK, StoreTypeOK
  <2> QED
    BY <1>4, <2>1 DEF Memory
<1>6. w \in CommitWrite /\ w.kind = "commit" /\ w.blocks = blocks /\ w.consumed = taken[p]
      /\ w.end = end /\ w.then = then /\ w.awaited /\ w # NoWrite
  BY <1>4 DEF Commit, CommitWrite, NoWrite
<1>7. w \in Write /\ <<>> \in Seq(Input) /\ {} \in SUBSET Input /\ "saving" \in Steps /\ "idle" \in Steps
      /\ NoWrite \in Write
  BY <1>6, EmptySeq DEF Write, Steps
<1>8. memory' = [memory EXCEPT ![p] = m] /\ taken' = [taken EXCEPT ![p] = <<>>] /\ todo' = todo
  BY DEF Say, Remember
<1>9. CASE Len(taken[p]) <= Len(blocks)
  <2>1. queued' = [queued EXCEPT ![p] = w] /\ pc' = [pc EXCEPT ![p] = "saving"] /\ lease' = lease
    BY <1>9 DEF Say, SendCommit, GoTo
  <2> HIDE DEF w, m
  <2>2. Moves(p, "saving", m, <<>>, {}, w)
    BY <1>1, <1>8, <2>1, Same DEF Moves, TypeOK, ProcTypeOK
  <2>3. /\ TypeOK' /\ (\A q \in Procs \ {p} : Stays(q))
        /\ pc'[p] = "saving" /\ memory'[p] = m /\ taken'[p] = <<>> /\ todo'[p] = {} /\ queued'[p] = w
    BY <1>1, <1>2, <1>5, <1>7, <2>2, MoveType
  <2>4. Waits(p)' /\ Remembers(p)'
    BY <1>1, <1>2, <1>5, <1>6, <2>1, <2>3 DEF Waits, Remembers, Commits, Begins, Rounds
  <2>5. Takes(p)'
    BY <1>2, <2>3, RangeFacts DEF Takes
  <2>6. Notes(p)'
    BY <1>2, <1>6, <2>3 DEF Notes, Commits, Noted
  <2>7. Consumed(queued[p])'
    <3>1. Consumed(w)
      BY <1>1, <1>6, <1>9 DEF ProcInv, Takes, Consumed
    <3> QED
      BY <1>2, <2>3, <3>1 DEF Consumed
  <2> QED
    BY <1>1, <1>2, <1>3, <2>1, <2>3, <2>4, <2>5, <2>6, <2>7, OwnStep DEF ProcInv
<1>10. CASE ~(Len(taken[p]) <= Len(blocks))
  <2>1. queued' = queued /\ pc' = [pc EXCEPT ![p] = "idle"] /\ lease' = lease \ {p}
    BY <1>10 DEF Say, SendCommit, GoTo
  <2> HIDE DEF w, m
  <2>2. Moves(p, "idle", m, <<>>, {}, queued[p])
    BY <1>1, <1>8, <2>1, Same DEF Moves, TypeOK, ProcTypeOK
  <2>3. /\ TypeOK' /\ (\A q \in Procs \ {p} : Stays(q))
        /\ pc'[p] = "idle" /\ memory'[p] = m /\ taken'[p] = <<>> /\ todo'[p] = {} /\ queued'[p] = NoWrite
    <3>1. TypeOK' /\ (\A q \in Procs \ {p} : Stays(q)) /\ pc'[p] = "idle" /\ memory'[p] = m
          /\ taken'[p] = <<>> /\ todo'[p] = {} /\ queued'[p] = queued[p]
      BY <1>1, <1>2, <1>5, <1>7, <2>2, Same DEF Moves, Stays, TypeOK, ProcTypeOK
    <3> QED
      BY <1>3, <3>1
  <2>4. Waits(p)' /\ Remembers(p)' /\ Notes(p)' /\ ~Commits(p)'
    BY <1>2, <1>3, <2>1, <2>3 DEF Waits, Remembers, Notes, Commits, Begins, Rounds, NoWrite
  <2>5. Takes(p)'
    BY <1>2, <2>3, RangeFacts DEF Takes
  <2> QED
    BY <1>1, <1>2, <1>3, <2>1, <2>3, <2>4, <2>5, OwnStep DEF ProcInv
<1> QED
  BY <1>9, <1>10

\* The inputs that the turn took join the context with their commit.
LEMMA SendInputsStep ==
    ASSUME IInv, NEW p \in Procs, pc[p] \in Begins \cup Rounds, todo[p] = {},
           newest \in {"cancelled", "failed"} => untold \/ Noted(p),
           SendInputs(p), UNCHANGED <<storeVars, todo, faults, untold>>
    PROVE  IInv'
<1>1. taken[p] \in Seq(Input)
  BY Same DEF IInv
<1>2. InputBlocks(taken[p]) \in Seq(Block)
  BY <1>1, InputBlocksType
<1>3. Say(p, InputBlocks(taken[p]), "none", "running")
  BY DEF SendInputs, Say
<1> QED
  BY <1>2, <1>3, SayStep DEF Ends

\* The first commit of a turn tells of the interrupted turn before it.
LEMMA FirstCommitStep == ASSUME IInv, NEW p \in Procs, FirstCommit(p) PROVE IInv'
<1>1. TypeOK /\ ProcInv(p) /\ SendInputs(p) /\ UNCHANGED <<storeVars, todo, faults, untold>>
  BY DEF IInv, FirstCommit
<1>2. pc[p] \in Begins /\ todo[p] = {}
  BY DEF FirstCommit, Took, Begins
<1>3. p \in lease
  BY <1>2 DEF IInv, LockInv, Idle, Begins
<1>4. CASE pc[p] = "with_note"
  BY <1>1, <1>2, <1>4, SendInputsStep DEF ProcInv, Notes
<1>5. CASE pc[p] # "with_note"
  <2>1. Noted(p) \/ ~Interrupted(memory[p].newest)
    BY <1>5 DEF FirstCommit, Took
  <2>2. memory[p].newest = newest
    BY <1>1, <1>2, <1>3 DEF ProcInv, Remembers, Snapshot
  <2> QED
    BY <1>1, <1>2, <2>1, <2>2, SendInputsStep DEF Interrupted
<1> QED
  BY <1>4, <1>5

\* In a running turn, the newest turn is open.
LEMMA TurnStepKeeps == ASSUME IInv, NEW p \in Procs, TurnStep(p) PROVE IInv'
<1>1. TypeOK /\ ProcInv(p) /\ taken[p] \in Seq(Input)
  BY Same DEF IInv
<1>2. /\ pc[p] \in Rounds => newest = "open" /\ p \in lease
      /\ pc[p] \in {"running", "results", "after_round"} => taken[p] = <<>> /\ todo[p] = {}
      /\ pc[p] = "inbox_failed" => todo[p] = {}
  BY <1>1 DEF IInv, LockInv, ProcInv, Remembers, Takes, Taking, Idle, Rounds
<1>3. /\ <<>> \in Seq(Block) /\ <<Plain("text")>> \in Seq(Block) /\ <<Plain("call")>> \in Seq(Block)
      /\ <<Plain("result")>> \in Seq(Block) /\ <<Plain("call"), Plain("result")>> \in Seq(Block)
  BY DEF Plain, Block
<1> DEFINE Own == {<<>>, <<Plain("text")>>, <<Plain("call")>>, <<Plain("result")>>,
                   <<Plain("call"), Plain("result")>>}
<1>4. Own \subseteq Seq(Block) /\ \A blocks \in Own : \A k \in DOMAIN blocks : blocks[k].kind # "input"
  BY <1>3 DEF Plain
<1>5. ASSUME NEW blocks \in Own, NEW end \in Ends \cup {"none"},
             NEW then \in {"idle", "running", "results", "after_round"},
             end = "none" <=> then # "idle",
             pc[p] \in Rounds, todo[p] = {}, taken[p] = <<>> \/ blocks = <<>>,
             Say(p, blocks, end, then)
      PROVE  IInv'
  <2>1. Len(taken[p]) <= Len(blocks) => taken[p] = <<>>
    BY <1>1, <1>5, EmptySeq
  <2> HIDE DEF Own
  <2> QED
    BY <1>2, <1>4, <1>5, <2>1, SayStep
<1>6. CASE Answer(p)
  BY <1>2, <1>5, <1>6 DEF Answer, Ends, Rounds
<1>7. CASE Results(p)
  BY <1>2, <1>5, <1>7 DEF Results, Ends, Rounds
<1>8. CASE RoundEnds(p)
  BY <1>2, <1>5, <1>8 DEF RoundEnds, Ends, Rounds
<1>9. CASE AfterRound(p)
  BY <1>2, <1>5, <1>9 DEF AfterRound, StopEnd, Ends, Rounds
<1>10. CASE InboxFailed(p)
  BY <1>2, <1>5, <1>10 DEF InboxFailed, Ends, Rounds
<1>11. CASE InboxTaken(p)
  <2>1. pc[p] = "inbox" /\ todo[p] = {} /\ newest = "open" /\ p \in lease
    BY <1>2, <1>11 DEF InboxTaken, Took, Rounds
  <2>2. CASE SendInputs(p) /\ UNCHANGED <<storeVars, todo, faults, untold>>
    BY <2>1, <2>2, SendInputsStep DEF Rounds
  <2>3. CASE taken[p] = <<>> /\ Say(p, <<>>, "completed", "idle")
    BY <1>5, <2>1, <2>3 DEF Ends, Rounds
  <2>4. CASE /\ taken[p] = <<>> /\ GoTo(p, "running")
             /\ UNCHANGED <<storeVars, lease, memory, taken, todo, queued, faults, untold>>
    <3>1. /\ StoreTypeOK' /\ Removes /\ untold' = untold
          /\ UNCHANGED <<pending, accepted, stored, consumed, settings, newest>>
      BY <1>1, <2>4, StoreStays DEF TypeOK, StoreTypeOK
    <3>2. Moves(p, "running", memory[p], taken[p], todo[p], queued[p])
      BY <1>1, <2>4, Same DEF GoTo, Moves, TypeOK, ProcTypeOK
    <3>3. /\ TypeOK' /\ (\A q \in Procs \ {p} : Stays(q))
          /\ pc'[p] = "running" /\ memory'[p] = memory[p] /\ taken'[p] = taken[p]
          /\ todo'[p] = todo[p] /\ queued'[p] = queued[p]
      <4>1. "running" \in Steps
        BY DEF Steps, Rounds
      <4> QED
        BY <1>1, <3>1, <3>2, <4>1, Same, MoveType
    <3>4. queued[p] = NoWrite /\ ~Commits(p) /\ HoldsLock(p) /\ lease' = lease
      BY <1>1, <2>1, <2>4 DEF ProcInv, Waits, Idle, NoWrite, Commits, HoldsLock
    <3>5. Waits(p)' /\ Remembers(p)' /\ ~Commits(p)' /\ Notes(p)'
      BY <1>1, <2>1, <3>1, <3>3, <3>4
      DEF ProcInv, Waits, Remembers, Commits, Notes, Begins, Rounds, Idle
    <3>6. Takes(p)'
      BY <2>1, <2>4, <3>1, <3>3, RangeFacts DEF Takes
    <3> QED
      BY <2>1, <3>1, <3>3, <3>4, <3>5, <3>6, OwnStep DEF ProcInv
  <2> QED
    BY <1>11, <2>2, <2>3, <2>4 DEF InboxTaken
<1>12. CASE Proceed(p)
  BY <1>12, QuietStep
<1> QED
  BY <1>6, <1>7, <1>8, <1>9, <1>10, <1>11, <1>12 DEF TurnStep

\* A dropped future, a crash or a failed write ends the turn, and its inputs wait again.
LEMMA LossStep ==
    ASSUME IInv, NEW p \in Procs, WriteFails(p) \/ DropFuture(p) \/ Crash(p)
    PROVE  IInv'
<1> USE DEF Idle
<1>1. TypeOK /\ ProcInv(p)
  BY DEF IInv
<1>2. /\ StoreTypeOK' /\ Removes /\ UNCHANGED <<pending, accepted, stored, consumed, settings, newest>>
      /\ untold' = untold /\ memory' = memory
  <2>1. UNCHANGED storeVars /\ untold' = untold /\ faults' \in Nat
    BY <1>1 DEF WriteFails, DropFuture, Crash, TypeOK, StoreTypeOK, Fault, NoFault
  <2> QED
    BY <1>1, <2>1, StoreStays DEF WriteFails, DropFuture, Crash
<1>3. <<>> \in Seq(Input) /\ {} \in SUBSET Input /\ "idle" \in Steps /\ NoWrite \in Write
      /\ NoWrite.kind = "none"
  BY EmptySeq DEF Write, Steps, NoWrite
<1> DEFINE dropped == IF queued[p] = NoWrite THEN NoWrite ELSE [queued[p] EXCEPT !.awaited = FALSE]
<1>4. /\ dropped \in Write
      /\ dropped = NoWrite <=> queued[p] = NoWrite
      /\ dropped.kind = queued[p].kind
      /\ dropped # NoWrite => ~dropped.awaited
      /\ Commits(p) => /\ dropped.blocks = queued[p].blocks /\ dropped.consumed = queued[p].consumed
                       /\ dropped.end = queued[p].end /\ dropped.then = queued[p].then
  <2>1. CASE queued[p] = NoWrite
    BY <1>3, <2>1 DEF Commits
  <2>2. CASE queued[p] \in CommitWrite
    <3>1. dropped \in CommitWrite /\ dropped = [queued[p] EXCEPT !.awaited = FALSE]
      BY <1>3, <2>2 DEF CommitWrite
    <3> QED
      BY <1>3, <2>2, <3>1 DEF CommitWrite, Write
  <2>3. CASE queued[p] \in SettingsWrite
    <3>1. dropped \in SettingsWrite /\ dropped = [queued[p] EXCEPT !.awaited = FALSE]
      BY <1>3, <2>3 DEF SettingsWrite
    <3> QED
      BY <1>3, <2>3, <3>1 DEF SettingsWrite, Write, Commits
  <2>4. CASE queued[p] \in NoteWrite
    <3>1. dropped \in NoteWrite /\ dropped = [queued[p] EXCEPT !.awaited = FALSE]
      BY <1>3, <2>4 DEF NoteWrite
    <3> QED
      BY <1>3, <2>4, <3>1 DEF NoteWrite, Write, Commits
  <2> QED
    BY <1>1, <2>1, <2>2, <2>3, <2>4 DEF TypeOK, ProcTypeOK, Write
<1> HIDE DEF dropped
<1>5. ASSUME NEW w \in {NoWrite, dropped}, Moves(p, "idle", memory[p], <<>>, {}, w),
             p \in lease' => /\ p \in lease /\ pc[p] \in Begins \cup {"saving"}
                             /\ queued[p].kind \in {"none", "note"}
      PROVE  IInv'
  <2>1. /\ TypeOK' /\ (\A q \in Procs \ {p} : Stays(q))
        /\ pc'[p] = "idle" /\ memory'[p] = memory[p] /\ taken'[p] = <<>> /\ todo'[p] = {} /\ queued'[p] = w
    <3>1. /\ "idle" \in Steps /\ memory[p] \in Memory /\ <<>> \in Seq(Input)
          /\ {} \in SUBSET Input /\ w \in Write
      BY <1>1, <1>3, <1>4, Same
    <3> QED
      BY <1>1, <1>2, <1>5, <3>1 DEF Moves, Stays, TypeOK, ProcTypeOK
  <2>2. Commits(p)' => Commits(p) /\ w = dropped
    BY <1>3, <1>4, <1>5, <2>1 DEF Commits
  <2>3. HoldsLock(p)' => HoldsLock(p)
    BY <1>3, <1>4, <1>5, <2>1 DEF HoldsLock
  <2>4. Waits(p)'
    BY <1>1, <1>4, <1>5, <2>1, <2>2, WriteKinds DEF ProcInv, Waits
  <2>5. Remembers(p)'
    BY <1>1, <1>2, <1>3, <1>4, <1>5, <2>1, <2>2
    DEF ProcInv, Remembers, Commits, Snapshot, Rounds, Begins
  <2>6. Takes(p)'
    BY <1>2, <2>1, RangeFacts DEF Takes
  <2>7. Commits(p)' => Consumed(queued[p])'
    BY <1>1, <1>2, <1>4, <2>1, <2>2 DEF ProcInv, Consumed
  <2>8. Notes(p)'
    BY <1>1, <1>2, <1>4, <2>1, <2>2 DEF ProcInv, Notes
  <2> QED
    BY <1>2, <2>1, <2>3, <2>4, <2>5, <2>6, <2>7, <2>8, OwnStep DEF ProcInv
<1>6. CASE DropFuture(p)
  <2>1. lease' \in SUBSET Procs /\ \A q \in Procs \ {p} : q \in lease' <=> q \in lease
    BY <1>1, <1>6 DEF DropFuture, TypeOK, ProcTypeOK
  <2>2. Moves(p, "idle", memory[p], <<>>, {}, dropped)
    BY <1>1, <1>6, <2>1, Same DEF DropFuture, GoTo, Moves, dropped
  <2>3. p \in lease' => p \in lease /\ pc[p] \in Begins \cup {"saving"}
                        /\ queued[p].kind \in {"none", "note"}
    BY <1>1, <1>3, <1>6 DEF DropFuture, KeepsLease, Begins, ProcInv, Waits
  <2> QED
    BY <1>5, <2>2, <2>3
<1>7. CASE Crash(p)
  <2>1. Moves(p, "idle", memory[p], <<>>, {}, NoWrite) /\ p \notin lease'
    BY <1>1, <1>7, Same DEF Crash, GoTo, Moves, TypeOK, ProcTypeOK
  <2> QED
    BY <1>5, <2>1
<1>8. CASE WriteFails(p)
  <2>1. queued[p] # NoWrite
    BY <1>8 DEF WriteFails
  <2>2. CASE queued[p].awaited
    <3>1. pc[p] = "saving" /\ todo[p] = {}
      BY <1>1, <2>1, <2>2 DEF ProcInv, Waits, Takes, Taking
    <3>2. lease' \in SUBSET Procs /\ \A q \in Procs \ {p} : q \in lease' <=> q \in lease
      BY <1>1, <1>8, <2>2 DEF WriteFails, TypeOK, ProcTypeOK
    <3>3. Moves(p, "idle", memory[p], <<>>, {}, NoWrite)
      BY <1>1, <1>8, <2>2, <3>1, <3>2, Same DEF WriteFails, GoTo, Moves
    <3>4. p \in lease' => p \in lease /\ queued[p].kind = "note"
      BY <1>8, <2>2 DEF WriteFails, LosesLease
    <3> QED
      BY <1>4, <1>5, <2>1, <3>1, <3>3, <3>4
  <2>3. CASE ~queued[p].awaited
    <3>1. UNCHANGED <<pc, lease, taken, todo>> /\ queued' = [queued EXCEPT ![p] = NoWrite]
      BY <1>8, <2>3 DEF WriteFails
    <3>2. Moves(p, pc[p], memory[p], taken[p], todo[p], NoWrite)
      BY <1>1, <1>2, <3>1, Same DEF Moves, TypeOK, ProcTypeOK
    <3>3. /\ TypeOK' /\ (\A q \in Procs \ {p} : Stays(q))
          /\ pc'[p] = pc[p] /\ memory'[p] = memory[p] /\ taken'[p] = taken[p]
          /\ todo'[p] = todo[p] /\ queued'[p] = NoWrite
      BY <1>1, <1>2, <1>3, <3>2, Same, MoveType
    <3>4. pc[p] = "idle"
      BY <1>1, <2>1, <2>3 DEF ProcInv, Waits
    <3>5. Waits(p)' /\ Remembers(p)' /\ Notes(p)' /\ ~Commits(p)'
      BY <1>1, <1>2, <1>3, <3>1, <3>3, <3>4
      DEF ProcInv, Waits, Remembers, Notes, Commits, Snapshot, Rounds, Begins
    <3>6. Takes(p)'
      BY <1>1, <1>2, <3>3, <3>4 DEF ProcInv, Takes, Taking
    <3>7. HoldsLock(p)' => HoldsLock(p)
      BY <1>3, <3>1, <3>3 DEF HoldsLock
    <3> QED
      BY <1>2, <3>3, <3>4, <3>5, <3>6, <3>7, OwnStep DEF ProcInv
  <2> QED
    BY <2>2, <2>3
<1> QED
  BY <1>6, <1>7, <1>8

\* An open takes a free lock and loads the session; a turn that it finds open is ended first.
LEMMA RecoverStep == ASSUME IInv, NEW p \in Procs, Recover(p) PROVE IInv'
<1> USE DEF Idle
<1> DEFINE results == [k \in 1 .. Cardinality(OpenCalls(stored)) |-> Plain("result")]
           w == Commit(results, <<>>, "failed", "idle")
           m == IF newest # "open" THEN Snapshot
                ELSE [context |-> stored \o results, settings |-> settings, newest |-> newest]
           step == IF newest # "open" THEN "idle" ELSE "saving"
           write == IF newest # "open" THEN NoWrite ELSE w
<1>1. TypeOK /\ ProcInv(p) /\ pc[p] = "idle" /\ queued[p] = NoWrite
      /\ taken[p] = <<>> /\ todo[p] = {}
  BY DEF IInv, Recover, Reaches, ProcInv, Takes, Taking, NoWrite
<1>2. /\ StoreTypeOK' /\ Removes /\ UNCHANGED <<pending, accepted, stored, consumed, settings, newest>>
      /\ untold' = untold
  <2>1. UNCHANGED storeVars /\ untold' = untold /\ faults' \in Nat
    BY <1>1 DEF Recover, TypeOK, StoreTypeOK
  <2> QED
    BY <1>1, <2>1, StoreStays
<1>3. results \in Seq(Block) /\ \A k \in DOMAIN results : results[k].kind # "input"
  <2>1. OpenCalls(stored) \subseteq 1 .. Len(stored) /\ Len(stored) \in Nat
    BY <1>1, LenProperties DEF TypeOK, StoreTypeOK, OpenCalls
  <2>2. Cardinality(OpenCalls(stored)) \in Nat
    <3>1. IsFiniteSet(1 .. Len(stored))
      BY <2>1, FS_Interval
    <3>2. IsFiniteSet(OpenCalls(stored))
      BY <2>1, <3>1, FS_Subset
    <3> QED
      BY <3>2, FS_CardinalityType
  <2>3. Plain("result") \in Block /\ Plain("result").kind # "input"
    BY DEF Plain, Block
  <2> QED
    BY <2>2, <2>3, IsASeq
<1> HIDE DEF results
<1>4. m \in Memory
  <2>1. stored \o results \in Seq(Block)
    BY <1>1, <1>3, ConcatProperties DEF TypeOK, StoreTypeOK
  <2> QED
    BY <1>1, <2>1 DEF Memory, Snapshot, TypeOK, StoreTypeOK
<1>5. /\ w \in CommitWrite /\ w.kind = "commit" /\ w.blocks = results /\ w.consumed = <<>>
      /\ w.end = "failed" /\ w.then = "idle" /\ w.awaited /\ w # NoWrite
  BY <1>3, EmptySeq DEF Commit, CommitWrite, NoWrite, Ends
<1>6. step \in Steps /\ write \in Write
  BY <1>5 DEF Steps, Write
<1>7. Moves(p, step, m, taken[p], todo[p], write) /\ p \in lease'
  <2>1. lease' = lease \cup {p} /\ UNCHANGED <<taken, todo>> /\ Repair(p)
    BY DEF Recover
  <2>2. pc' = [pc EXCEPT ![p] = step] /\ memory' = [memory EXCEPT ![p] = m]
        /\ queued' = [queued EXCEPT ![p] = write]
    BY <1>1, <2>1, Same DEF Repair, GoTo, results
  <2> HIDE DEF m, write, step
  <2> QED
    BY <1>1, <2>1, <2>2, Same DEF Moves, TypeOK, ProcTypeOK
<1>8. /\ TypeOK' /\ (\A q \in Procs \ {p} : Stays(q))
      /\ pc'[p] = step /\ memory'[p] = m /\ taken'[p] = <<>> /\ todo'[p] = {} /\ queued'[p] = write
  <2>1. taken[p] \in Seq(Input) /\ todo[p] \in SUBSET Input
    BY <1>1, Same
  <2> HIDE DEF m, write, step
  <2>2. TypeOK' /\ (\A q \in Procs \ {p} : Stays(q)) /\ pc'[p] = step /\ memory'[p] = m
        /\ taken'[p] = taken[p] /\ todo'[p] = todo[p] /\ queued'[p] = write
    BY <1>1, <1>2, <1>4, <1>6, <1>7, <2>1 DEF Moves, Stays, TypeOK, ProcTypeOK
  <2> QED
    BY <1>1, <2>2
<1>9. Commits(p)' <=> newest = "open"
  BY <1>5, <1>8 DEF Commits, NoWrite
<1>10. /\ newest = "open" => m.context = stored \o results /\ m.settings = settings
       /\ newest # "open" => m = Snapshot
  OBVIOUS
<1> HIDE DEF m, w
<1>11. Waits(p)'
  BY <1>5, <1>8, <1>9 DEF Waits
<1>12. Remembers(p)'
  BY <1>2, <1>5, <1>7, <1>8, <1>9, <1>10 DEF Remembers, Snapshot, Begins, Rounds
<1>13. Takes(p)'
  BY <1>2, <1>8, RangeFacts DEF Takes
<1>14. Notes(p)'
  BY <1>5, <1>8, <1>9 DEF Notes
<1>15. Commits(p)' => Consumed(queued[p])'
  BY <1>3, <1>5, <1>8, <1>9, RangeFacts DEF Consumed
<1>16. \A q \in Procs : ~HoldsLock(q)
  BY DEF Recover
<1> QED
  BY <1>2, <1>7, <1>8, <1>11, <1>12, <1>13, <1>14, <1>15, <1>16, OwnStep DEF ProcInv

-----------------------------------------------------------------------------
(* The records of the consumed inputs *)

\* The blocks of the user in a context are finitely many, and an extension of the context keeps them.
LEMMA InputsOfConcat ==
    ASSUME NEW s \in Seq(Block), NEW t \in Seq(Block)
    PROVE  /\ \A k \in 0 .. Len(s) : /\ InputsUpTo(s \o t, k) = InputsUpTo(s, k)
                                     /\ IsFiniteSet(InputsUpTo(s, k))
                                     /\ Cardinality(InputsUpTo(s, k)) \in Nat
           /\ (\A k \in DOMAIN t : t[k].kind # "input") =>
                  InputsUpTo(s \o t, Len(s \o t)) = InputsUpTo(s, Len(s))
           /\ (\A k \in DOMAIN t : t[k].kind = "input") =>
                  \A k \in 0 .. Len(t) :
                      Cardinality(InputsUpTo(s \o t, Len(s) + k)) = Cardinality(InputsUpTo(s, Len(s))) + k
<1>1. /\ Len(s) \in Nat /\ Len(t) \in Nat /\ DOMAIN t = 1 .. Len(t)
      /\ Len(s \o t) = Len(s) + Len(t)
      /\ \A k \in 1 .. Len(s) : (s \o t)[k] = s[k]
      /\ \A k \in Len(s) + 1 .. Len(s) + Len(t) : (s \o t)[k] = t[k - Len(s)]
  BY ConcatProperties, LenProperties
<1>2. ASSUME NEW k \in 0 .. Len(s)
      PROVE  /\ InputsUpTo(s \o t, k) = InputsUpTo(s, k)
             /\ IsFiniteSet(InputsUpTo(s, k)) /\ Cardinality(InputsUpTo(s, k)) \in Nat
  <2>1. InputsUpTo(s \o t, k) = InputsUpTo(s, k) /\ InputsUpTo(s, k) \subseteq 1 .. k
    BY <1>1 DEF InputsUpTo
  <2>2. IsFiniteSet(1 .. k)
    BY FS_Interval
  <2>3. IsFiniteSet(InputsUpTo(s, k))
    BY <2>1, <2>2, FS_Subset
  <2> QED
    BY <2>1, <2>3, FS_CardinalityType
<1>3. ASSUME \A k \in DOMAIN t : t[k].kind # "input"
      PROVE  InputsUpTo(s \o t, Len(s \o t)) = InputsUpTo(s, Len(s))
  BY <1>1, <1>3 DEF InputsUpTo
<1>4. ASSUME \A k \in DOMAIN t : t[k].kind = "input", NEW k \in 0 .. Len(t)
      PROVE  Cardinality(InputsUpTo(s \o t, Len(s) + k)) = Cardinality(InputsUpTo(s, Len(s))) + k
  <2> DEFINE A == InputsUpTo(s, Len(s))
             B == Len(s) + 1 .. Len(s) + k
  <2>1. InputsUpTo(s \o t, Len(s) + k) = A \cup B /\ A \cap B = {}
    BY <1>1, <1>4 DEF InputsUpTo
  <2>2. IsFiniteSet(B) /\ Cardinality(B) = k
    <3> DEFINE a == Len(s) + 1
               b == Len(s) + k
    <3>1. a \in Int /\ b \in Int /\ k \in Nat /\ b - a + 1 = k /\ (a > b <=> k = 0)
      BY <1>1
    <3> HIDE DEF a, b
    <3>2. IsFiniteSet(a .. b) /\ Cardinality(a .. b) = IF a > b THEN 0 ELSE b - a + 1
      BY <3>1, FS_Interval
    <3> QED
      BY <3>1, <3>2 DEF a, b
  <2>3. IsFiniteSet(A) /\ Cardinality(A) \in Nat
    BY <1>1, <1>2
  <2> HIDE DEF A, B
  <2>4. Cardinality(A \cup B) = Cardinality(A) + Cardinality(B) - Cardinality(A \cap B)
    BY <2>2, <2>3, FS_Union
  <2>5. Cardinality(A \cap B) = 0
    BY <2>1, FS_EmptySet
  <2>6. Cardinality(InputsUpTo(s \o t, Len(s) + k)) = Cardinality(A) + k
    <3>1. k \in Nat
      BY <1>1
    <3>2. Cardinality(A \cup B) = Cardinality(A) + k
      BY <2>2, <2>3, <2>4, <2>5, <3>1
    <3> QED
      BY <2>1, <3>2, Zenon
  <2> QED
    BY <2>6 DEF A
<1> QED
  BY <1>2, <1>3, <1>4

\* The records name the blocks of the user in a context.
Records(context, ids) ==
    /\ Len(ids) = Cardinality(InputsUpTo(context, Len(context)))
    /\ \A k \in InputsUpTo(context, Len(context)) :
           ids[Cardinality(InputsUpTo(context, k))] = context[k].id

\* A commit adds the records of the blocks of the user that it adds.
LEMMA RecordsOfCommit ==
    ASSUME NEW s \in Seq(Block), NEW t \in Seq(Block), NEW ids \in Seq(Nat), NEW new \in Seq(Nat),
           Records(s, ids),
           \/ new = <<>> /\ \A k \in DOMAIN t : t[k].kind # "input"
           \/ Len(new) = Len(t) /\ \A k \in DOMAIN t : t[k].kind = "input" /\ t[k].id = new[k]
    PROVE  Records(s \o t, ids \o new)
<1> DEFINE all == Cardinality(InputsUpTo(s, Len(s)))
           all2 == ids \o new
           st == s \o t
<1>1. /\ Len(s) \in Nat /\ Len(t) \in Nat /\ DOMAIN t = 1 .. Len(t)
      /\ Len(st) = Len(s) + Len(t)
      /\ \A k \in 1 .. Len(s) : st[k] = s[k]
      /\ \A k \in Len(s) + 1 .. Len(s) + Len(t) : st[k] = t[k - Len(s)]
  BY ConcatProperties, LenProperties
<1>2. /\ Len(ids) \in Nat /\ Len(new) \in Nat
      /\ Len(all2) = Len(ids) + Len(new)
      /\ \A n \in 1 .. Len(ids) : all2[n] = ids[n]
      /\ \A n \in 1 .. Len(new) : all2[Len(ids) + n] = new[n]
  <2>1. Len(ids) \in Nat /\ Len(new) \in Nat /\ Len(all2) = Len(ids) + Len(new)
        /\ \A n \in 1 .. Len(ids) + Len(new) :
              all2[n] = IF n <= Len(ids) THEN ids[n] ELSE new[n - Len(ids)]
    BY ConcatProperties, LenProperties
  <2> HIDE DEF all2
  <2>2. ASSUME NEW n \in 1 .. Len(new) PROVE all2[Len(ids) + n] = new[n]
    <3>1. /\ Len(ids) + n \in 1 .. Len(ids) + Len(new) /\ ~(Len(ids) + n <= Len(ids))
          /\ Len(ids) + n - Len(ids) = n
      BY <2>1
    <3> QED
      BY <2>1, <3>1
  <2> QED
    BY <2>1, <2>2
<1>3. \A k \in 0 .. Len(s) : /\ InputsUpTo(st, k) = InputsUpTo(s, k)
                             /\ IsFiniteSet(InputsUpTo(s, k))
                             /\ Cardinality(InputsUpTo(s, k)) \in Nat
  BY InputsOfConcat
<1>4. (\A k \in DOMAIN t : t[k].kind # "input") => InputsUpTo(st, Len(st)) = InputsUpTo(s, Len(s))
  BY InputsOfConcat
<1>5. (\A k \in DOMAIN t : t[k].kind = "input") =>
          \A k \in 0 .. Len(t) : Cardinality(InputsUpTo(st, Len(s) + k)) = all + k
  BY InputsOfConcat
<1> HIDE DEF all2, st
<1>6. all \in Nat /\ all = Len(ids)
  BY <1>1, <1>3 DEF Records
<1>7. ASSUME NEW k \in InputsUpTo(s, Len(s))
      PROVE  all2[Cardinality(InputsUpTo(st, k))] = st[k].id
  <2>1. k \in 1 .. Len(s) /\ s[k].kind = "input"
    BY DEF InputsUpTo
  <2>2. InputsUpTo(s, k) \subseteq InputsUpTo(s, Len(s)) /\ k \in InputsUpTo(s, k)
    BY <1>1, <2>1 DEF InputsUpTo
  <2>3. Cardinality(InputsUpTo(s, k)) \in 1 .. all
    <3>1. IsFiniteSet(InputsUpTo(s, Len(s))) /\ IsFiniteSet(InputsUpTo(s, k))
          /\ Cardinality(InputsUpTo(s, k)) \in Nat
      BY <1>1, <1>3, <2>1
    <3>2. Cardinality(InputsUpTo(s, k)) <= all
      BY <2>2, <3>1, FS_Subset
    <3>3. Cardinality(InputsUpTo(s, k)) # 0
      BY <2>2, <3>1, FS_EmptySet
    <3> QED
      BY <1>6, <3>1, <3>2, <3>3
  <2>4. Cardinality(InputsUpTo(st, k)) = Cardinality(InputsUpTo(s, k))
    BY <1>1, <1>3, <2>1
  <2>5. ids[Cardinality(InputsUpTo(s, k))] = s[k].id
    BY DEF Records
  <2> HIDE DEF all
  <2> QED
    BY <1>1, <1>2, <1>6, <2>1, <2>3, <2>4, <2>5
<1>8. CASE new = <<>> /\ \A k \in DOMAIN t : t[k].kind # "input"
  <2>1. Len(all2) = all
    BY <1>2, <1>6, <1>8, EmptySeq
  <2> QED
    BY <1>4, <1>7, <1>8, <2>1 DEF Records, all2, st
<1>9. CASE Len(new) = Len(t) /\ \A k \in DOMAIN t : t[k].kind = "input" /\ t[k].id = new[k]
  <2>1. \A k \in 0 .. Len(t) : Cardinality(InputsUpTo(st, Len(s) + k)) = all + k
    BY <1>5, <1>9
  <2> HIDE DEF all
  <2>2. Len(all2) = Cardinality(InputsUpTo(st, Len(st)))
    BY <1>1, <1>2, <1>6, <1>9, <2>1
  <2>3. ASSUME NEW k \in Len(s) + 1 .. Len(s) + Len(t)
        PROVE  all2[Cardinality(InputsUpTo(st, k))] = st[k].id
    <3> DEFINE n == k - Len(s)
    <3>1. n \in 1 .. Len(t) /\ k = Len(s) + n
      BY <1>1
    <3>2. st[k] = t[n]
      BY <1>1
    <3> HIDE DEF n
    <3>3. Cardinality(InputsUpTo(st, k)) = all + n
      BY <1>1, <2>1, <3>1
    <3>4. all2[all + n] = new[n] /\ t[n].id = new[n]
      BY <1>1, <1>2, <1>6, <1>9, <3>1
    <3> QED
      BY <3>2, <3>3, <3>4
  <2>4. \A k \in InputsUpTo(st, Len(st)) : k \in InputsUpTo(s, Len(s)) \/ k \in Len(s) + 1 .. Len(s) + Len(t)
    BY <1>1 DEF InputsUpTo
  <2> QED
    BY <1>7, <2>2, <2>3, <2>4 DEF Records, all2, st
<1> QED
  BY <1>8, <1>9

-----------------------------------------------------------------------------
(* The steps of the store *)

\* The next id is new, and later than each id that a process knows.
LEMMA AddKeeps ==
    ASSUME TypeOK, NEW q \in Procs, ProcInv(q), NEW note \in BOOLEAN, AddInput(note), Stays(q),
           UNCHANGED <<stored, consumed, settings, newest, untold>>
    PROVE  ProcInv(q)'
<1> DEFINE i == [id |-> accepted + 1, note |-> note]
<1>1. /\ accepted' = accepted + 1 /\ accepted \in Nat /\ pending' = pending \cup {i}
      /\ i.id = accepted + 1
      /\ todo[q] \in SUBSET Input /\ taken[q] \in Seq(Input)
  BY Same DEF AddInput, TypeOK, StoreTypeOK
<1> HIDE DEF i
<1>2. Waits(q)' /\ Remembers(q)' /\ (Commits(q)' <=> Commits(q))
  BY DEF ProcInv, Waits, Remembers, Commits, Idle, Stays, Snapshot
<1>3. \A j \in todo[q] \cup Range(taken[q]) : j.id \in Nat
  BY <1>1, InputIds DEF Input
<1>4. Takes(q)'
  BY <1>1, <1>3 DEF ProcInv, Takes, Stays
<1>5. Commits(q)' => Consumed(queued[q])'
  <2>1. Commits(q) => \A j \in Range(queued[q].consumed) : j.id \in Nat
    <3>1. Commits(q) => queued[q].consumed \in Seq(Input)
      BY WriteKinds DEF CommitWrite
    <3> QED
      BY <3>1, InputIds
  <2> QED
    BY <1>1, <1>2, <2>1 DEF ProcInv, Consumed, Stays
<1>6. Notes(q)'
  BY <1>1, <1>2 DEF ProcInv, Notes, Noted, Stays
<1> QED
  BY <1>2, <1>4, <1>5, <1>6 DEF ProcInv

\* A new input keeps the ids apart, and the records as they are.
LEMMA AddStore ==
    ASSUME IInv, NEW note \in BOOLEAN, AddInput(note),
           UNCHANGED <<stored, consumed, settings, newest, untold>>, faults' = faults
    PROVE  StoreTypeOK' /\ IdInv' /\ RecordsMatchBlocks'
<1> DEFINE i == [id |-> accepted + 1, note |-> note]
<1>1. TypeOK /\ accepted' = accepted + 1 /\ accepted \in Nat /\ pending' = pending \cup {i}
      /\ i.id = accepted + 1 /\ i \in Input
  BY DEF IInv, AddInput, TypeOK, StoreTypeOK, Input
<1> HIDE DEF i
<1>2. StoreTypeOK'
  BY <1>1 DEF TypeOK, StoreTypeOK
<1>3. \A j \in pending : j.id \in Nat
  BY <1>1 DEF TypeOK, StoreTypeOK, Input
<1>4. IdInv'
  BY <1>1, <1>3 DEF IInv, IdInv
<1>5. RecordsMatchBlocks'
  BY DEF IInv, RecordsMatchBlocks
<1> QED
  BY <1>2, <1>4, <1>5

\* A process without the lock knows nothing that a write of another process changes.
LEMMA OtherWrites ==
    ASSUME IInv, NEW q \in Procs, ~HoldsLock(q), Stays(q), accepted' = accepted, pending' \subseteq pending
    PROVE  ProcInv(q)'
<1>1. /\ ProcInv(q) /\ pc[q] = "idle" /\ q \notin lease /\ ~Commits(q)
      /\ queued[q].kind # "settings"
  BY DEF IInv, LockInv, Idle, HoldsLock, Commits
<1>2. Waits(q)' /\ ~Commits(q)'
  BY <1>1 DEF ProcInv, Waits, Commits, Stays, Idle
<1>3. Remembers(q)' /\ Notes(q)'
  BY <1>1, <1>2 DEF Remembers, Notes, Stays, Rounds
<1>4. Takes(q)'
  BY <1>1 DEF ProcInv, Takes, Stays
<1> QED
  BY <1>2, <1>3, <1>4 DEF ProcInv

\* Clients save and remove inputs.
LEMMA ClientStep == ASSUME IInv, AcceptInput \/ RemoveInput PROVE IInv'
<1>1. TypeOK /\ \A q \in Procs : ProcInv(q) /\ Stays(q)
  BY DEF IInv, AcceptInput, RemoveInput, procVars, Stays
<1>2. UNCHANGED <<pc, lease, memory, taken, todo, queued>>
  BY DEF AcceptInput, RemoveInput, procVars
<1>3. ProcTypeOK' /\ LockInv'
  BY <1>1, <1>2 DEF IInv, TypeOK, ProcTypeOK, LockInv, HoldsLock, Idle
<1>4. CASE AcceptInput
  <2>1. AddInput(FALSE) /\ UNCHANGED <<stored, consumed, settings, newest, untold>> /\ faults' = faults
    BY <1>4 DEF AcceptInput
  <2>2. StoreTypeOK' /\ IdInv' /\ RecordsMatchBlocks'
    BY <2>1, AddStore
  <2>3. \A q \in Procs : ProcInv(q)'
    BY <1>1, <2>1, AddKeeps
  <2> QED
    BY <1>3, <2>2, <2>3 DEF IInv, TypeOK
<1>5. CASE RemoveInput
  <2>1. Removes
    BY <1>1, <1>5 DEF RemoveInput, Removes
  <2>2. StoreTypeOK'
    BY <1>1, <1>5 DEF RemoveInput, TypeOK, StoreTypeOK
  <2>3. \A q \in Procs : ProcInv(q)'
    BY <1>1, <2>1, RemovalKeeps
  <2> QED
    BY <1>3, <2>1, <2>2, <2>3, RemovalStore DEF IInv, TypeOK
<1> QED
  BY <1>4, <1>5

\* The connection runs the queued write of a process, and the waiting future goes on.
LEMMA RunWriteStep == ASSUME IInv, NEW p \in Procs, RunWrite(p) PROVE IInv'
<1> USE DEF Idle
<1> DEFINE w == queued[p]
           step == IF ~w.awaited THEN pc[p]
                   ELSE CASE w.kind = "note" -> "noted"
                          [] w.kind = "settings" -> "idle"
                          [] w.kind = "commit" -> w.then
           m == IF ~w.awaited \/ w.kind = "note" THEN memory[p]
                ELSE IF w.kind = "settings"
                     THEN [context |-> memory[p].context, settings |-> w.settings,
                           newest |-> memory[p].newest]
                     ELSE [context |-> memory[p].context, settings |-> memory[p].settings,
                           newest |-> IF w.end = "none" THEN memory[p].newest ELSE w.end]
<1>1. /\ TypeOK /\ ProcInv(p) /\ w # NoWrite /\ Resume(p, w)
      /\ queued' = [queued EXCEPT ![p] = NoWrite] /\ UNCHANGED <<lease, taken, todo, faults>>
  BY DEF IInv, RunWrite, NoFault
<1>2. /\ w.kind \in {"commit", "settings", "note"}
      /\ w.kind = "commit" => w \in CommitWrite /\ Commits(p)
      /\ w.kind = "settings" => w \in SettingsWrite /\ ~Commits(p)
      /\ w.kind = "note" => w \in NoteWrite /\ ~Commits(p)
  BY <1>1, WriteKinds DEF Commits
<1>3. /\ w.awaited => pc[p] = "saving" /\ p \in lease
      /\ ~w.awaited => pc[p] = "idle" /\ (w.kind # "note" => p \notin lease)
  BY <1>1 DEF ProcInv, Waits, IInv, LockInv
<1>4. taken[p] = <<>> \/ w.kind = "note"
  BY <1>1, <1>2, <1>3 DEF ProcInv, Takes, Taking
<1>5. todo[p] = {}
  BY <1>1, <1>3 DEF ProcInv, Takes, Taking
<1>6. memory[p] \in Memory /\ taken[p] \in Seq(Input) /\ pc[p] \in Steps /\ NoWrite \in Write
      /\ NoWrite.kind = "none"
  BY <1>1, Same DEF Write, NoWrite
<1>7. step \in Steps /\ m \in Memory
  <2>1. CASE ~w.awaited
    BY <1>6, <2>1
  <2>2. CASE w.awaited /\ w.kind = "note"
    BY <1>6, <2>2 DEF Steps, Begins
  <2>3. CASE w.awaited /\ w.kind = "settings"
    BY <1>2, <1>6, <2>3 DEF Steps, SettingsWrite, Memory
  <2>4. CASE w.awaited /\ w.kind = "commit"
    BY <1>2, <1>6, <2>4 DEF Steps, Rounds, CommitWrite, Memory, Turns
  <2> QED
    BY <1>2, <2>1, <2>2, <2>3, <2>4
<1>8. pc' = [pc EXCEPT ![p] = step] /\ memory' = [memory EXCEPT ![p] = m]
  <2>1. CASE ~w.awaited
    <3>1. UNCHANGED <<pc, memory>>
      BY <1>1, <2>1 DEF Resume
    <3> QED
      BY <1>1, <2>1, <3>1, Same
  <2>2. CASE w.awaited /\ w.kind = "note"
    <3>1. pc' = [pc EXCEPT ![p] = "noted"] /\ memory' = memory
      BY <1>1, <2>2 DEF Resume, GoTo
    <3> QED
      BY <1>1, <2>2, <3>1, Same
  <2>3. CASE w.awaited /\ w.kind = "settings"
    BY <1>1, <2>3 DEF Resume, GoTo
  <2>4. CASE w.awaited /\ w.kind = "commit"
    BY <1>1, <2>4 DEF Resume, GoTo, Remember
  <2> QED
    BY <1>2, <2>1, <2>2, <2>3, <2>4
<1>9. Moves(p, step, m, taken[p], todo[p], NoWrite)
  <2> HIDE DEF step, m
  <2> QED
    BY <1>1, <1>8, Same DEF Moves, TypeOK, ProcTypeOK
<1>10. /\ ProcTypeOK' /\ (\A q \in Procs \ {p} : Stays(q))
       /\ pc'[p] = step /\ memory'[p] = m /\ taken'[p] = taken[p] /\ todo'[p] = {} /\ queued'[p] = NoWrite
  <2> HIDE DEF step, m
  <2> QED
    BY <1>1, <1>5, <1>6, <1>7, <1>9 DEF Moves, Stays, TypeOK, ProcTypeOK
<1>11. LockInv'
  <2>1. \A q \in Procs : HoldsLock(q)' => HoldsLock(q)
    BY <1>1, <1>6, <1>10 DEF HoldsLock, Stays
  <2>2. pc'[p] # "idle" => p \in lease
    BY <1>3, <1>10
  <2> QED
    BY <1>1, <1>10, <2>1, <2>2 DEF IInv, LockInv, Stays
<1>12. Waits(p)' /\ ~Commits(p)'
  <2>1. step # "saving"
    BY <1>2, <1>3 DEF CommitWrite
  <2> HIDE DEF step, m
  <2> QED
    BY <1>6, <1>10, <2>1 DEF Waits, Commits
<1>13. CASE w.kind = "note"
  <2>1. AddInput(TRUE) /\ UNCHANGED <<stored, consumed, settings, newest, untold>>
    BY <1>13 DEF RunWrite
  <2>2. StoreTypeOK' /\ IdInv' /\ RecordsMatchBlocks'
    BY <1>1, <2>1, AddStore
  <2>3. \A q \in Procs \ {p} : ProcInv(q)'
    BY <1>1, <1>10, <2>1, AddKeeps DEF IInv
  <2>4. step \in {"idle", "noted"} /\ m = memory[p]
        /\ (p \in lease => memory[p] = Snapshot /\ newest # "open")
    BY <1>1, <1>2, <1>3, <1>13 DEF ProcInv, Remembers
  <2> HIDE DEF step, m
  <2>5. Remembers(p)'
    BY <1>1, <1>10, <1>12, <2>1, <2>4 DEF Remembers, Snapshot, Rounds
  <2>6. Notes(p)'
    <3>1. \E i \in pending' : i.note
      <4>1. [id |-> accepted + 1, note |-> TRUE] \in pending'
        BY <2>1 DEF AddInput
      <4> QED
        BY <4>1
    <3> QED
      BY <1>10, <1>12, <2>4, <3>1 DEF Notes
  <2>7. Takes(p)'
    <3>1. /\ accepted \in Nat /\ accepted' = accepted + 1
          /\ \A j \in pending' : j \in pending \/ j.id = accepted + 1
      BY <1>1, <2>1 DEF AddInput, TypeOK, StoreTypeOK
    <3>2. \A j \in Range(taken[p]) : j.id \in Nat
      BY <1>6, InputIds
    <3>3. taken[p] # <<>> => step = "noted"
      BY <1>1, <1>3, <1>13 DEF ProcInv, Takes, Taking, step
    <3> QED
      BY <1>1, <1>5, <1>10, <3>1, <3>2, <3>3 DEF ProcInv, Takes
  <2> QED
    BY <1>10, <1>11, <1>12, <2>2, <2>3, <2>5, <2>6, <2>7 DEF IInv, TypeOK, ProcInv
<1>14. ASSUME w.kind # "note", accepted' = accepted, pending' \subseteq pending,
              StoreTypeOK', RecordsMatchBlocks', Remembers(p)'
       PROVE  IInv'
  <2>1. \A q \in Procs \ {p} : ~HoldsLock(q)
    BY <1>2, <1>14 DEF IInv, LockInv, HoldsLock
  <2>2. \A q \in Procs \ {p} : ProcInv(q)'
    BY <1>10, <1>14, <2>1, OtherWrites
  <2>3. Takes(p)'
    BY <1>4, <1>10, <1>14, RangeFacts DEF Takes
  <2>4. step \notin {"noted", "with_note"}
    BY <1>2, <1>3, <1>14 DEF CommitWrite
  <2>5. Notes(p)'
    <3> HIDE DEF step, m
    <3> QED
      BY <1>10, <1>12, <2>4 DEF Notes
  <2>6. IdInv'
    BY <1>14 DEF IInv, IdInv
  <2> QED
    BY <1>10, <1>11, <1>12, <1>14, <2>2, <2>3, <2>5, <2>6 DEF IInv, TypeOK, ProcInv
<1>15. CASE w.kind = "settings"
  <2>1. settings' = w.settings /\ UNCHANGED <<pending, accepted, stored, consumed, newest, untold>>
    BY <1>15 DEF RunWrite
  <2>2. StoreTypeOK' /\ RecordsMatchBlocks'
    BY <1>1, <1>2, <1>15, <2>1 DEF IInv, TypeOK, StoreTypeOK, RecordsMatchBlocks, SettingsWrite
  <2>3. Remembers(p)'
    <3>1. step = "idle"
      BY <1>3, <1>15
    <3>2. p \in lease => m = [context |-> stored, settings |-> w.settings, newest |-> newest]
                         /\ newest # "open"
      BY <1>1, <1>2, <1>3, <1>15 DEF ProcInv, Remembers, Snapshot
    <3> HIDE DEF step, m
    <3> QED
      BY <1>1, <1>10, <1>12, <2>1, <3>1, <3>2 DEF Remembers, Snapshot, Rounds
  <2> QED
    BY <1>14, <1>15, <2>1, <2>2, <2>3
<1>16. CASE w.kind = "commit"
  <2>1. SaveCommit(w)
    BY <1>16 DEF RunWrite
  <2>2. /\ w \in CommitWrite /\ w.blocks \in Seq(Block) /\ w.consumed \in Seq(Input)
        /\ w.end \in Ends \cup {"none"} /\ Consumed(w)
    BY <1>1, <1>2, <1>16 DEF CommitWrite, ProcInv
  <2>3. /\ Ids(w.consumed) \in Seq(Nat) /\ Len(Ids(w.consumed)) = Len(w.consumed)
        /\ \A k \in 1 .. Len(w.consumed) : Ids(w.consumed)[k] = w.consumed[k].id
    BY <2>2, InputBlocksType
  <2>4. accepted' = accepted /\ pending' \subseteq pending /\ settings' = settings
        /\ stored' = stored \o w.blocks /\ consumed' = consumed \o Ids(w.consumed)
        /\ newest' = (IF w.end = "none" THEN "open" ELSE w.end) /\ untold' = (w.end = "none" /\ untold)
    BY <2>1 DEF SaveCommit
  <2>5. StoreTypeOK'
    <3>1. stored \o w.blocks \in Seq(Block) /\ consumed \o Ids(w.consumed) \in Seq(Nat)
      BY <1>1, <2>2, <2>3, ConcatProperties DEF TypeOK, StoreTypeOK
    <3> QED
      BY <1>1, <2>2, <2>4, <3>1 DEF TypeOK, StoreTypeOK, Turns
  <2>6. RecordsMatchBlocks'
    <3>1. Records(stored, consumed) /\ stored \in Seq(Block) /\ consumed \in Seq(Nat)
      BY <1>1 DEF IInv, TypeOK, StoreTypeOK, Records, RecordsMatchBlocks
    <3>2. CASE w.blocks = InputBlocks(w.consumed)
      <4>1. Len(w.blocks) = Len(w.consumed) /\ DOMAIN w.blocks = 1 .. Len(w.consumed)
            /\ \A k \in 1 .. Len(w.consumed) : w.blocks[k] = [kind |-> "input", id |-> w.consumed[k].id]
        BY <2>2, <3>2, InputBlocksType, LenProperties
      <4>2. \A k \in DOMAIN w.blocks : w.blocks[k].kind = "input" /\ w.blocks[k].id = Ids(w.consumed)[k]
        <5>1. ASSUME NEW k \in 1 .. Len(w.consumed)
              PROVE  w.blocks[k].kind = "input" /\ w.blocks[k].id = w.consumed[k].id
          <6>1. w.blocks[k] = [kind |-> "input", id |-> w.consumed[k].id]
            BY <4>1
          <6> QED
            BY <6>1
        <5> QED
          BY <2>3, <4>1, <5>1
      <4>3. Records(stored \o w.blocks, consumed \o Ids(w.consumed))
        BY <2>2, <2>3, <3>1, <4>1, <4>2, RecordsOfCommit
      <4> QED
        BY <2>4, <4>3 DEF Records, RecordsMatchBlocks
    <3>3. CASE w.consumed = <<>> /\ \A k \in DOMAIN w.blocks : w.blocks[k].kind # "input"
      <4>1. Ids(w.consumed) = <<>>
        BY <2>3, <3>3, EmptySeq
      <4>2. Records(stored \o w.blocks, consumed \o Ids(w.consumed))
        BY <2>2, <2>3, <3>1, <3>3, <4>1, RecordsOfCommit
      <4> QED
        BY <2>4, <4>2 DEF Records, RecordsMatchBlocks
    <3> QED
      BY <2>2, <3>2, <3>3 DEF Consumed
  <2>7. Remembers(p)'
    <3>1. memory[p].context = stored \o w.blocks /\ (p \in lease => memory[p].settings = settings)
      BY <1>1, <1>2, <1>16 DEF ProcInv, Remembers
    <3>2. w.end = "none" <=> w.then # "idle"
      BY <1>1, <1>2, <1>16 DEF ProcInv, Waits
    <3>3. CASE w.awaited
      <4>1. step = w.then /\ w.then \in {"idle", "running", "results", "after_round"}
        BY <1>2, <1>16, <3>3 DEF CommitWrite
      <4>2. m.context = stored' /\ m.settings = settings'
            /\ (w.end # "none" => m = [context |-> stored', settings |-> settings', newest |-> w.end])
        BY <1>3, <1>16, <2>4, <3>1, <3>3
      <4> HIDE DEF step, m
      <4> QED
        BY <1>1, <1>10, <1>12, <2>2, <2>4, <3>2, <4>1, <4>2 DEF Remembers, Snapshot, Rounds, Begins, Ends
    <3>4. CASE ~w.awaited
      <4>1. step = "idle" /\ p \notin lease'
        BY <1>1, <1>3, <1>16, <3>4
      <4> HIDE DEF step, m
      <4> QED
        BY <1>10, <1>12, <4>1 DEF Remembers, Rounds
    <3> QED
      BY <3>3, <3>4
  <2> QED
    BY <1>14, <1>16, <2>4, <2>5, <2>6, <2>7
<1> QED
  BY <1>2, <1>13, <1>15, <1>16

-----------------------------------------------------------------------------
(* Theorems *)

\* Each step keeps the invariant.
LEMMA StepInv == IInv /\ [Next]_vars => IInv'
<1> SUFFICES ASSUME IInv, [Next]_vars PROVE IInv'
  OBVIOUS
<1>1. CASE AcceptInput \/ RemoveInput
  BY <1>1, ClientStep
<1>2. ASSUME NEW p \in Procs, Step(p) PROVE IInv'
  <2>1. CASE RunWrite(p)
    BY <2>1, RunWriteStep
  <2>2. CASE Recover(p)
    BY <2>2, RecoverStep
  <2>3. CASE Close(p) \/ SetSettings(p) \/ StartTurn(p)
    BY <2>3, IdleStep
  <2>4. CASE TakeOne(p)
    BY <2>4, TakeOneStep
  <2>5. CASE TakeFails(p) \/ NoInput(p) \/ AcceptNote(p) \/ TakeNote(p)
    BY <2>5, QuietStep
  <2>6. CASE FirstCommit(p)
    BY <2>6, FirstCommitStep
  <2>7. CASE TurnStep(p)
    BY <2>7, TurnStepKeeps
  <2>8. CASE WriteFails(p) \/ DropFuture(p) \/ Crash(p)
    BY <2>8, LossStep
  <2> QED
    BY <1>2, <2>1, <2>2, <2>3, <2>4, <2>5, <2>6, <2>7, <2>8 DEF Step, TakeStep
<1>3. CASE UNCHANGED vars
  <2>1. UNCHANGED <<pending, accepted, stored, consumed, settings, newest, pc, lease, memory, taken,
                    todo, queued, faults, untold>>
    BY <1>3 DEF vars, storeVars, procVars
  <2>2. TypeOK' /\ LockInv' /\ IdInv' /\ RecordsMatchBlocks'
    BY <2>1 DEF IInv, TypeOK, StoreTypeOK, ProcTypeOK, LockInv, HoldsLock, Idle, IdInv, RecordsMatchBlocks
  <2>3. \A q \in Procs : ProcInv(q)'
    <3>1. Removes /\ \A q \in Procs : Stays(q)
      BY <2>1 DEF Removes, Stays
    <3> QED
      BY <3>1, RemovalKeeps DEF IInv
  <2> QED
    BY <2>2, <2>3 DEF IInv
<1> QED
  BY <1>1, <1>2, <1>3 DEF Next

\* The invariant holds in every state.
LEMMA SpecInv == Spec => []IInv
BY InitInv, StepInv, PTL DEF Spec

\* Every variable of the session has its type (store/src/store.rs, agent/src/session.rs).
THEOREM TypeCorrect == Spec => []TypeOK
<1>1. IInv => TypeOK
  BY DEF IInv
<1> QED
  BY <1>1, SpecInv, PTL

\* One process owns the session: a lease, or a queued write with a clone of its lock, excludes both in
\* every other process (store/src/owner.rs), though a caller drops the future that holds the lease.
OneHolder ==
    \A p, q \in Procs : HoldsLock(p) /\ HoldsLock(q) => p = q

\* The owner lock has one holder (OneHolder), in every state.
THEOREM OneHolderHolds == Spec => []OneHolder
<1>1. IInv => OneHolder
  BY DEF IInv, LockInv, OneHolder
<1> QED
  BY <1>1, SpecInv, PTL

\* A process that holds the lease between turns knows the store (Session::open, Session::commit).
THEOREM MemoryIsStoreHolds == Spec => []MemoryIsStore
<1>1. IInv => MemoryIsStore
  BY DEF IInv, TypeOK, ProcTypeOK, ProcInv, Remembers, MemoryIsStore, Idle
<1> QED
  BY <1>1, SpecInv, PTL

\* A queued commit continues the context that its process had in mind (Store::commit).
THEOREM WritesContinueHolds == Spec => []WritesContinue
<1>1. IInv => WritesContinue
  BY DEF IInv, ProcInv, Remembers, Commits, WritesContinue
<1> QED
  BY <1>1, SpecInv, PTL

\* The saved blocks of the user are those of the consumed inputs, in order (save_commit).
THEOREM RecordsHold == Spec => []RecordsMatchBlocks
<1>1. IInv => RecordsMatchBlocks
  BY DEF IInv
<1> QED
  BY <1>1, SpecInv, PTL

\* What a step does to the inputs: nothing, it adds one, removes one, or saves a queued commit.
LEMMA InputStep ==
    ASSUME [Next]_vars
    PROVE  \/ UNCHANGED <<pending, accepted, consumed, newest>>
           \/ \E note \in BOOLEAN : AddInput(note) /\ UNCHANGED <<consumed, newest>>
           \/ \E i \in pending : pending' = pending \ {i} /\ UNCHANGED <<accepted, consumed, newest>>
           \/ \E p \in Procs : Commits(p) /\ StillPending(queued[p]) /\ SaveCommit(queued[p])
<1>1. CASE AcceptInput
  BY <1>1 DEF AcceptInput
<1>2. CASE RemoveInput
  BY <1>2 DEF RemoveInput
<1>3. ASSUME NEW p \in Procs, RunWrite(p)
      PROVE  \/ UNCHANGED <<pending, accepted, consumed, newest>>
             \/ \E note \in BOOLEAN : AddInput(note) /\ UNCHANGED <<consumed, newest>>
             \/ Commits(p) /\ StillPending(queued[p]) /\ SaveCommit(queued[p])
  BY <1>3 DEF RunWrite, Commits
<1>4. ASSUME NEW p \in Procs, TakeOne(p)
      PROVE  /\ UNCHANGED <<accepted, consumed, newest>>
             /\ pending' = pending \/ \E i \in todo[p] : pending' = pending \ {i}
  BY <1>4 DEF TakeOne
<1>5. ASSUME NEW p \in Procs, Step(p), ~RunWrite(p), ~TakeOne(p)
      PROVE  UNCHANGED <<pending, accepted, consumed, newest>>
  <2>1. UNCHANGED storeVars
    BY <1>5
    DEF Step, WriteFails, Recover, Close, SetSettings, TakeStep, TurnStep, DropFuture, Crash, StartTurn,
        TakeFails, NoInput, AcceptNote, TakeNote, FirstCommit, Answer, Results, RoundEnds, AfterRound,
        Proceed, InboxTaken, InboxFailed, Say
  <2> QED
    BY <2>1 DEF storeVars
<1>6. CASE UNCHANGED vars
  BY <1>6 DEF vars, storeVars
<1>7. ASSUME NEW p \in Procs, NEW i \in todo[p], pending' = pending \ {i}
      PROVE  pending' = pending \/ \E j \in pending : pending' = pending \ {j}
  BY <1>7
<1> QED
  BY <1>1, <1>2, <1>3, <1>4, <1>5, <1>6, <1>7 DEF Next

\* The first commit after an interrupted turn consumes the note about it, unless a client removed a
\* note meanwhile (interruption_note of agent/src/session.rs).
THEOREM InterruptionToldHolds == Spec => InterruptionTold
<1>1. ASSUME IInv, [Next]_vars PROVE Told
  <2> SUFFICES ASSUME newest \in {"cancelled", "failed"}, newest' = "open"
               PROVE  untold \/ Consumes(TRUE)
    BY DEF Told
  <2>1. newest' # newest
    OBVIOUS
  <2>2. PICK p \in Procs : Commits(p) /\ SaveCommit(queued[p])
    BY <1>1, <2>1, InputStep
  <2>3. queued[p].end = "none"
    <3>1. queued[p] \in CommitWrite
      BY <1>1, <2>2, WriteKinds DEF IInv
    <3>2. queued[p].end \in Ends \cup {"none"}
      BY <3>1 DEF CommitWrite
    <3> QED
      BY <2>2, <3>2 DEF SaveCommit, Ends
  <2>4. untold \/ \E i \in Range(queued[p].consumed) : i.note
    BY <1>1, <2>2, <2>3 DEF IInv, ProcInv, Notes
  <2>5. ASSUME NEW i \in Range(queued[p].consumed), i.note PROVE i.note = TRUE
    <3>1. i \in Input
      <4>1. queued[p] \in CommitWrite
        BY <1>1, <2>2, WriteKinds DEF IInv
      <4>2. queued[p].consumed \in Seq(Input)
        BY <4>1 DEF CommitWrite
      <4> QED
        BY <4>2, RangeOfSeq
    <3>2. i.note \in BOOLEAN
      BY <3>1 DEF Input
    <3> QED
      BY <2>5, <3>2
  <2> QED
    BY <2>2, <2>4, <2>5 DEF Consumes, Commits
<1> QED
  BY <1>1, SpecInv, PTL DEF Spec, InterruptionTold

\* A commit takes the ids of its inputs out of those that wait, all older than the rest.
LEMMA CommitConsumes ==
    ASSUME IInv, NEW p \in Procs, Commits(p), StillPending(queued[p]), SaveCommit(queued[p])
    PROVE  [Inputs!Next]_(Inputs!vars)
<1> DEFINE inputs == queued[p].consumed
           n == Len(inputs)
           ids == Ids(inputs)
           wait == {i.id : i \in pending}
           wait2 == {i.id : i \in pending'}
           batch == wait \ wait2
<1>1. TypeOK /\ IdInv /\ ProcInv(p) /\ consumed \in Seq(Nat)
  BY DEF IInv, TypeOK, StoreTypeOK
<1>2. inputs \in Seq(Input) /\ Consumed(queued[p])
  BY <1>1, WriteKinds DEF CommitWrite, ProcInv
<1>3. /\ accepted' = accepted /\ pending' = pending \ Range(inputs) /\ Range(inputs) \subseteq pending
      /\ consumed' = consumed \o ids
  BY DEF SaveCommit, StillPending
<1>4. /\ n \in Nat /\ ids \in Seq(Nat) /\ Len(ids) = n /\ \A k \in 1 .. n : ids[k] = inputs[k].id
      /\ DOMAIN inputs = 1 .. n
      /\ Range(inputs) = {inputs[k] : k \in 1 .. n}
  <2>1. n \in Nat /\ DOMAIN inputs = 1 .. n
    BY <1>2, LenProperties
  <2>2. Range(inputs) = {inputs[k] : k \in 1 .. n}
    BY <1>2, RangeEquality
  <2>3. ids \in Seq(Nat) /\ Len(ids) = n /\ \A k \in 1 .. n : ids[k] = inputs[k].id
    BY <1>2, InputBlocksType
  <2> QED
    BY <2>1, <2>2, <2>3
<1>5. \A k \in 1 .. n - 1 : ids[k] < ids[k + 1]
  <2>1. \A a, b \in 1 .. n : a < b => inputs[a].id < inputs[b].id
    BY <1>2, <1>4 DEF Consumed
  <2>2. ASSUME NEW k \in 1 .. n - 1
        PROVE  ids[k] < ids[k + 1]
    <3>1. k \in 1 .. n /\ k + 1 \in 1 .. n /\ k < k + 1
      BY <1>4
    <3>2. inputs[k].id < inputs[k + 1].id
      BY <2>1, <3>1
    <3>3. ids[k] = inputs[k].id /\ ids[k + 1] = inputs[k + 1].id
      BY <1>4, <3>1
    <3> QED
      BY <3>2, <3>3
  <2> QED
    BY <2>2
<1>7. batch = {ids[k] : k \in 1 .. n}
  <2>1. ASSUME NEW k \in 1 .. n PROVE ids[k] \in batch
    <3>1. inputs[k] \in pending /\ inputs[k] \notin pending' /\ ids[k] = inputs[k].id
      BY <1>3, <1>4
    <3>2. \A j \in pending' : j.id # inputs[k].id
      BY <1>1, <1>3, <3>1 DEF IdInv
    <3> QED
      BY <3>1, <3>2
  <2>2. ASSUME NEW x \in batch PROVE \E k \in 1 .. n : x = ids[k]
    <3>1. PICK i \in pending : x = i.id
      OBVIOUS
    <3>2. i \in Range(inputs)
      BY <1>3, <3>1
    <3> QED
      BY <1>4, <3>1, <3>2
  <2> HIDE DEF batch, ids
  <2> QED
    BY <2>1, <2>2
<1>8. wait2 \subseteq wait /\ \A i \in batch, j \in wait2 : i < j
  <2>1. wait2 \subseteq wait
    BY <1>3
  <2>2. ASSUME NEW k \in 1 .. n, NEW j \in pending' PROVE ids[k] < j.id
    <3>1. inputs[k] \in Range(inputs) /\ j \in pending \ Range(inputs)
      BY <1>3, <1>4
    <3> QED
      BY <1>2, <1>4, <3>1 DEF Consumed
  <2>3. ASSUME NEW i \in batch, NEW j \in wait2 PROVE i < j
    <3>1. PICK k \in 1 .. n : i = ids[k]
      BY <1>7
    <3>2. PICK k2 \in pending' : j = k2.id
      OBVIOUS
    <3> HIDE DEF batch, ids, n
    <3> QED
      BY <2>2, <3>1, <3>2
  <2> QED
    BY <2>1, <2>3
<1>9. /\ Len(consumed') = Len(consumed) + n /\ Len(consumed) \in Nat
      /\ \A k \in 1 .. Len(consumed) : consumed'[k] = consumed[k]
      /\ \A k \in Len(consumed) + 1 .. Len(consumed) + n : consumed'[k] = ids[k - Len(consumed)]
  BY <1>1, <1>3, <1>4, ConcatProperties, LenProperties
<1>10. CASE n = 0
  <2>1. inputs = <<>> /\ ids = <<>> /\ Range(inputs) = {}
    BY <1>2, <1>4, <1>10, EmptySeq, RangeFacts
  <2>2. UNCHANGED <<pending, accepted, consumed>>
    BY <1>1, <1>3, <2>1, ConcatEmptySeq
  <2> QED
    BY <2>2 DEF Inputs!vars
<1>11. CASE n # 0
  <2>1. batch # {}
    <3>1. 1 \in 1 .. n
      BY <1>4, <1>11
    <3> HIDE DEF batch, ids, n
    <3> QED
      BY <1>7, <3>1
  <2>3. {consumed'[k] : k \in Len(consumed) + 1 .. Len(consumed')} = batch
    <3> HIDE DEF batch, ids, n
    <3>1. \A k \in 1 .. n : Len(consumed) + k \in Len(consumed) + 1 .. Len(consumed')
                            /\ consumed'[Len(consumed) + k] = ids[k]
      <4>1. \A k \in 1 .. n : Len(consumed) + k \in Len(consumed) + 1 .. Len(consumed) + n
                              /\ Len(consumed) + k - Len(consumed) = k
        BY <1>4, <1>9
      <4> QED
        BY <1>9, <4>1
    <3>2. \A k \in Len(consumed) + 1 .. Len(consumed') :
             k - Len(consumed) \in 1 .. n /\ consumed'[k] = ids[k - Len(consumed)]
      BY <1>4, <1>9
    <3> QED
      BY <1>7, <3>1, <3>2
  <2>4. \A k \in Len(consumed) + 1 .. Len(consumed') - 1 : consumed'[k] < consumed'[k + 1]
    <3> HIDE DEF ids, n
    <3> SUFFICES ASSUME NEW k \in Len(consumed) + 1 .. Len(consumed') - 1
                 PROVE  consumed'[k] < consumed'[k + 1]
      OBVIOUS
    <3>1. /\ k - Len(consumed) \in 1 .. n - 1 /\ k + 1 - Len(consumed) = (k - Len(consumed)) + 1
          /\ k \in Len(consumed) + 1 .. Len(consumed) + n /\ k + 1 \in Len(consumed) + 1 .. Len(consumed) + n
      BY <1>4, <1>9
    <3>2. consumed'[k] = ids[k - Len(consumed)] /\ consumed'[k + 1] = ids[(k - Len(consumed)) + 1]
      BY <1>9, <3>1
    <3> QED
      BY <1>5, <3>1, <3>2
  <2>5. Inputs!Consume
    BY <1>3, <1>8, <1>9, <2>1, <2>3, <2>4, Zenon DEF Inputs!Consume
  <2> QED
    BY <2>5 DEF Inputs!Next
<1> QED
  BY <1>10, <1>11

\* Each accepted input leaves the pending inputs once, by a removal or into the saved events, in the
\* order of its acceptance: the steps of the store are steps of InputQueue, or stutter.
THEOREM QueueImplemented == Spec => ImplementsQueue
<1>1. Init => Inputs!Init
  BY DEF Init, Inputs!Init
<1>2. ASSUME IInv, [Next]_vars PROVE [Inputs!Next]_(Inputs!vars)
  <2>1. CASE UNCHANGED <<pending, accepted, consumed, newest>>
    BY <2>1 DEF Inputs!vars
  <2>2. ASSUME NEW note \in BOOLEAN, AddInput(note), UNCHANGED <<consumed, newest>>
        PROVE  Inputs!Accept
    <3> DEFINE i == [id |-> accepted + 1, note |-> note]
    <3>1. accepted' = accepted + 1 /\ pending' = pending \cup {i} /\ i.id = accepted + 1
      BY <2>2 DEF AddInput
    <3> HIDE DEF i
    <3>2. {j.id : j \in pending'} = {j.id : j \in pending} \cup {accepted + 1}
      BY <3>1
    <3> QED
      BY <2>2, <3>1, <3>2 DEF Inputs!Accept
  <2>3. ASSUME NEW i \in pending, pending' = pending \ {i}, UNCHANGED <<accepted, consumed, newest>>
        PROVE  Inputs!Remove
    <3>1. {j.id : j \in pending'} = {j.id : j \in pending} \ {i.id}
      BY <1>2, <2>3 DEF IInv, IdInv
    <3> QED
      BY <2>3, <3>1 DEF Inputs!Remove
  <2>4. ASSUME NEW p \in Procs, Commits(p), StillPending(queued[p]), SaveCommit(queued[p])
        PROVE  [Inputs!Next]_(Inputs!vars)
    BY <1>2, <2>4, CommitConsumes
  <2> QED
    BY <1>2, <2>1, <2>2, <2>3, <2>4, InputStep DEF Inputs!Next
<1> QED
  BY <1>1, <1>2, SpecInv, PTL DEF Spec, ImplementsQueue, Inputs!Spec
=============================================================================
