------------------------ MODULE SessionServiceProofs ------------------------
(***************************************************************************)
(* Theorems about SessionService, for any number of callers and of inputs. *)
(*                                                                         *)
(* The slot of a session tells the truth although calls, countdowns, the   *)
(* shutdown and the task of the session interleave at each await: whoever  *)
(* moves a slot that opens or closes is alone (Transitions), and whoever   *)
(* has the session keeps it in the store (LeaseKeeps).  The task loses no  *)
(* wake because each input after the start of its run has left a permit    *)
(* (WakeInv), and an idle call believes the number that a run counted at   *)
(* its start.                                                              *)
(***************************************************************************)
EXTENDS SessionService, FiniteSetTheorems, SequenceTheorems, TLAPS

Ops == {"none", "opening", "starting", "creating", "undoing", "ending", "removing", "closing",
        "accepting", "accepted", "dropping", "loading", "idle", "settings", "saving"}
TaskSteps == {"none", "waiting", "checking", "empty", "found", "locking", "recovering", "turn",
              "answering"}
Slot == [kind : {"none", "opening", "open", "closing"}, open : Nat, attachments : Int, armed : BOOLEAN]
CallOf == [op : Ops, new : BOOLEAN, n : Nat]

\* The types of the registry, of the calls and of the task
TypeOK ==
    /\ phase \in {"ready", "reloading", "stopped"}
    /\ slot \in Slot
    /\ holds \in [Callers -> Nat]
    /\ call \in [Callers -> CallOf]
    /\ task \in TaskSteps
    /\ cancelled \in BOOLEAN /\ expiring \in BOOLEAN /\ shutting \in BOOLEAN /\ held \in BOOLEAN
    /\ closed \in BOOLEAN /\ wake \in BOOLEAN /\ turn \in BOOLEAN /\ stale \in BOOLEAN
    /\ saved \in BOOLEAN /\ born \in BOOLEAN
    /\ woken \in Seq(Nat) /\ seen \in Nat /\ handled \in Nat
    /\ newest \in Nat /\ pending \subseteq Nat /\ refused \subseteq Nat

\* The attachments of the open session
Held == {c \in Callers : holds[c] = slot.open}

\* Whoever has the session keeps it in the store, and nobody has one before its creation.
LeaseKeeps ==
    /\ Leased => saved
    /\ saved => born
    /\ slot.kind # "none" => born
    /\ \A c \in Callers : At(c, "opening") => born

\* A slot that opens or closes has exactly one mover, until the shutdown empties the registry.
Transitions ==
    /\ phase = "stopped" => slot = NoSlot
    /\ phase # "stopped" =>
         /\ \A c \in Callers : call[c].op \in {"opening", "starting"} => slot.kind = "opening"
         /\ \A c \in Callers : At(c, "closing") => slot.kind = "closing" /\ ~expiring
         /\ expiring => slot.kind = "closing"
         /\ \A c, d \in Callers :
              call[c].op \in {"opening", "starting", "closing"} /\ call[d].op \in {"opening", "starting", "closing"}
                => c = d

\* Only an open slot has attachments and a countdown, and its count is the number of its attachments.
Counts ==
    /\ slot.kind # "open" => slot = SlotOf(slot.kind)
    /\ slot.kind = "open" => slot.open # 0 /\ slot.attachments = Cardinality(Held)
    /\ slot.armed => slot.attachments = 0 /\ ~turn

\* The task lives beside an open or a closing slot, and only its turn runs.
TaskInv ==
    /\ slot.kind \in {"none", "opening"} /\ phase # "stopped" => task = "none"
    /\ turn => task \in {"turn", "answering"}

\* Each accepted input is saved; the ones after the start of the run left a permit, and the ones that
\* the last run handled left the inbox, or a failed run left them.
WakeInv ==
    /\ seen <= Len(woken) /\ handled <= Len(woken)
    /\ \A k \in 1 .. Len(woken) : woken[k] <= newest
    /\ \A c \in Callers : At(c, "accepted") => call[c].n <= newest
    /\ seen < Len(woken) => wake
    /\ task = "empty" => \A k \in 1 .. seen : woken[k] \notin pending
    /\ ~closed =>
         /\ task = "waiting" => \A k \in 1 .. seen : woken[k] \in pending => woken[k] \in refused
         /\ \A k \in 1 .. handled : woken[k] \in pending => woken[k] \in refused

RInv == TypeOK /\ LeaseKeeps /\ Transitions /\ Counts /\ TaskInv
IInv == RInv /\ WakeInv

-----------------------------------------------------------------------------
(* Lemmas about the calls of the callers *)

\* One caller goes on with `op`.
Sets(c, op) ==
    /\ call' \in [Callers -> CallOf]
    /\ call'[c].op = op
    /\ \A d \in Callers : d # c => call'[d] = call[d]

\* A step of a call changes what its caller does and keeps its number.
LEMMA GoSets ==
    ASSUME TypeOK, NEW c \in Callers, NEW op \in Ops, Go(c, op)
    PROVE  Sets(c, op) /\ call'[c].n = call[c].n /\ call'[c].new = call[c].new
<1>1. call \in [Callers -> CallOf] /\ call[c] \in CallOf
  BY DEF TypeOK
<1>2. [call[c] EXCEPT !.op = op] \in CallOf
  BY <1>1 DEF CallOf
<1>3. call' = [call EXCEPT ![c] = [call[c] EXCEPT !.op = op]]
  BY DEF Go
<1>4. call'[c] = [call[c] EXCEPT !.op = op]
  BY <1>1, <1>3
<1>5. call'[c].op = op /\ call'[c].n = call[c].n /\ call'[c].new = call[c].new
  BY <1>1, <1>4 DEF CallOf
<1> QED
  BY <1>1, <1>2, <1>3, <1>5 DEF Sets

\* A call that returns leaves its caller with no call.
LEMMA ReturnSets ==
    ASSUME TypeOK, NEW c \in Callers, Return(c)
    PROVE  Sets(c, "none")
<1>1. call \in [Callers -> CallOf]
  BY DEF TypeOK
<1>2. NoCall \in CallOf /\ NoCall.op = "none"
  BY DEF NoCall, CallOf, Ops
<1> QED
  BY <1>1, <1>2 DEF Return, Sets

\* A new call gives its caller the operation of that call.
LEMMA NewSets ==
    ASSUME TypeOK, NEW c \in Callers, NEW new \in CallOf, call' = [call EXCEPT ![c] = new]
    PROVE  Sets(c, new.op) /\ call'[c] = new
<1>1. call \in [Callers -> CallOf]
  BY DEF TypeOK
<1> QED
  BY <1>1 DEF Sets

\* The records of new calls have their type and the fields they were given.
LEMMA NewCalls ==
    ASSUME NEW op \in Ops, NEW new \in BOOLEAN, NEW n \in Nat
    PROVE  /\ [NoCall EXCEPT !.op = op, !.n = n] \in CallOf
           /\ [NoCall EXCEPT !.op = op, !.n = n].op = op
           /\ [NoCall EXCEPT !.op = op, !.n = n].n = n
           /\ [NoCall EXCEPT !.op = op, !.new = new] \in CallOf
           /\ [NoCall EXCEPT !.op = op, !.new = new].op = op
<1>1. NoCall \in CallOf
  BY DEF NoCall, CallOf, Ops
<1> QED
  BY <1>1 DEF CallOf

\* The fields of the slots that the registry writes
LEMMA Slots ==
    /\ \A kind \in {"none", "opening", "open", "closing"} :
         /\ SlotOf(kind) \in Slot /\ SlotOf(kind).kind = kind
         /\ SlotOf(kind).armed = FALSE /\ SlotOf(kind).attachments = 0
    /\ NoSlot = SlotOf("none")
<1>1. NoSlot \in Slot
  BY DEF NoSlot, Slot
<1>2. ASSUME NEW kind \in {"none", "opening", "open", "closing"}
      PROVE  /\ SlotOf(kind) \in Slot /\ SlotOf(kind).kind = kind
             /\ SlotOf(kind).armed = FALSE /\ SlotOf(kind).attachments = 0
  <2>1. SlotOf(kind) = [NoSlot EXCEPT !.kind = kind]
    BY DEF SlotOf
  <2>2. NoSlot.armed = FALSE /\ NoSlot.attachments = 0
    BY DEF NoSlot
  <2> QED
    BY <1>1, <2>1, <2>2 DEF Slot
<1>3. NoSlot = SlotOf("none")
  <2>1. NoSlot.kind = "none"
    BY DEF NoSlot
  <2> QED
    BY <1>1, <2>1 DEF SlotOf, Slot
<1> QED
  BY <1>2, <1>3

-----------------------------------------------------------------------------
(* The invariant of the registry *)

\* A step of one call that moves no slot and takes no session that it had not.
LEMMA CallStep ==
    ASSUME RInv, NEW c \in Callers, NEW op \in Ops \ {"opening", "starting", "closing"}, Sets(c, op),
           op \in Owners => call[c].op \in Owners \/ slot.kind = "open",
           UNCHANGED <<registryVars, expiring, shutting, held, task, closed, turn, saved, born>>,
           wake' \in BOOLEAN, stale' \in BOOLEAN, woken' \in Seq(Nat), seen' \in Nat, handled' \in Nat,
           newest' \in Nat, pending' \subseteq Nat, refused' \subseteq Nat
    PROVE  RInv'
<1>1. UNCHANGED <<phase, slot, cancelled, holds, expiring, shutting, held, task, closed, turn, saved, born>>
  BY DEF registryVars
<1>2. TypeOK'
  BY <1>1 DEF RInv, TypeOK, Sets
<1>3. LeaseKeeps'
  <2>1. Leased' => Leased
    BY <1>1 DEF Leased, Sets
  <2>2. \A d \in Callers : At(d, "opening")' => At(d, "opening")
    BY DEF At, Sets
  <2> QED
    BY <1>1, <2>1, <2>2 DEF RInv, LeaseKeeps
<1>4. Transitions'
  <2>1. \A d \in Callers : call'[d].op \in {"opening", "starting", "closing"} => call'[d] = call[d]
    BY DEF Sets
  <2> QED
    BY <1>1, <2>1 DEF RInv, Transitions, At
<1>5. Counts'
  BY <1>1 DEF RInv, Counts, Held
<1>6. TaskInv'
  BY <1>1 DEF RInv, TaskInv
<1> QED
  BY <1>2, <1>3, <1>4, <1>5, <1>6 DEF RInv

\* A step of the task: it clears the deadline for a turn, or it reports that it has no work.
LEMMA TaskStep ==
    ASSUME RInv, task # "none", task' \in TaskSteps,
           UNCHANGED <<phase, holds, callVars, saved, born>>,
           \/ slot' = slot /\ (turn' => turn)
           \/ slot' = ReportIdle(slot) /\ ~turn'
           \/ slot' = IF slot.kind = "open" THEN [slot EXCEPT !.armed = FALSE] ELSE slot,
           turn' => task' \in {"turn", "answering"},
           cancelled' \in BOOLEAN, closed' \in BOOLEAN, wake' \in BOOLEAN, turn' \in BOOLEAN,
           stale' \in BOOLEAN, woken' \in Seq(Nat), seen' \in Nat, handled' \in Nat,
           newest' \in Nat, pending' \subseteq Nat, refused' \subseteq Nat
    PROVE  RInv'
<1>1. UNCHANGED <<phase, holds, call, expiring, shutting, held, saved, born>>
  BY DEF callVars
<1>2. /\ slot' \in Slot /\ slot'.kind = slot.kind /\ slot'.open = slot.open
      /\ slot'.attachments = slot.attachments
      /\ slot.kind # "open" => slot' = slot
      /\ slot'.armed => (slot.armed /\ (turn' => turn)) \/ (slot.attachments = 0 /\ ~turn')
  <2>1. slot \in Slot
    BY DEF RInv, TypeOK
  <2>2. slot.kind # "open" => ~slot.armed
    BY Slots, <2>1 DEF RInv, Counts, Slot
  <2>3. CASE slot' = slot /\ (turn' => turn)
    BY <2>1, <2>3
  <2>4. CASE slot' = ReportIdle(slot) /\ ~turn'
    BY <2>1, <2>4 DEF ReportIdle, Slot, RInv, Counts
  <2>5. CASE slot' = IF slot.kind = "open" THEN [slot EXCEPT !.armed = FALSE] ELSE slot
    BY <2>1, <2>2, <2>5 DEF Slot
  <2> QED
    BY <2>3, <2>4, <2>5
<1>3. TypeOK'
  BY <1>1, <1>2 DEF RInv, TypeOK
<1>4. LeaseKeeps'
  <2>1. saved
    BY DEF RInv, LeaseKeeps, Leased
  <2> QED
    BY <1>1, <1>2, <2>1 DEF RInv, LeaseKeeps, At
<1>5. Transitions'
  <2>1. slot = NoSlot => slot' = NoSlot
    BY <1>2 DEF NoSlot
  <2> QED
    BY <1>1, <1>2, <2>1 DEF RInv, Transitions, At
<1>6. Counts'
  <2>1. Held' = Held
    BY <1>1, <1>2 DEF Held
  <2> QED
    BY <1>2, <2>1 DEF RInv, Counts
<1>7. TaskInv'
  BY <1>1, <1>2 DEF RInv, TaskInv
<1> QED
  BY <1>3, <1>4, <1>5, <1>6, <1>7 DEF RInv

\* A dropped transition empties a slot that opens or closes.
LEMMA Dropped ==
    ASSUME RInv, DropTransition
    PROVE  /\ slot' \in Slot
           /\ slot.kind \in {"opening", "closing"} => slot' = NoSlot
           /\ slot.kind \notin {"opening", "closing"} => slot' = slot
           /\ NoSlot.kind = "none" /\ NoSlot.armed = FALSE /\ NoSlot.attachments = 0
  BY Slots DEF DropTransition, RInv, TypeOK

\* The steps of a call that move no slot.
CallSteps(c) ==
    \/ Create(c) \/ CreateFails(c) \/ Ended(c) \/ Remove(c) \/ Input(c) \/ InputSaved(c) \/ Accepted(c)
    \/ Fails(c) \/ RemoveInput(c) \/ InputRemoved(c) \/ Load(c) \/ Idle(c) \/ IdleLooks(c)
    \/ SetSettings(c) \/ SettingsRead(c) \/ SettingsSaved(c)

\* Begin takes the open session.
LEMMA Begins ==
    ASSUME RInv, NEW c \in Callers,
           NEW op \in {"accepting", "dropping", "loading", "settings"}, Begin(c, op)
    PROVE  RInv'
<1>1. op \in Ops /\ op \notin {"opening", "starting", "closing"}
  BY DEF Ops
<1>2. Sets(c, op)
  BY <1>1, GoSets DEF Begin, RInv
<1> QED
  BY <1>1, <1>2, CallStep DEF Begin, RInv, TypeOK, registryVars, callVars, taskVars, countVars, storeVars

\* The calls that move no slot keep the invariant: creations, inputs, loads, idle and settings.
LEMMA CallStepsKeep ==
    ASSUME RInv, NEW c \in Callers, CallSteps(c)
    PROVE  RInv'
<1> USE DEF registryVars, callVars, taskVars, countVars, storeVars
<1>o. {"none", "creating", "undoing", "removing", "accepted", "idle", "saving"} \subseteq Ops \ {"opening", "starting", "closing"}
  BY DEF Ops
<1>t. TypeOK
  BY DEF RInv
<1>create. CASE Create(c)
  <2> DEFINE new == [NoCall EXCEPT !.op = "creating", !.new = TRUE]
  <2>2. new \in CallOf /\ new.op = "creating"
    BY <1>o, NewCalls
  <2>3. call' = [call EXCEPT ![c] = new]
    BY <1>create DEF Create
  <2> HIDE DEF new
  <2>4. Sets(c, "creating")
    BY <1>t, <2>2, <2>3, NewSets
  <2> QED
    BY <1>o, <1>t, <1>create, <2>4, CallStep DEF Create, TypeOK, Owners
<1>createFails. CASE CreateFails(c)
  <2>1. Sets(c, "none")
    BY <1>o, <1>t, <1>createFails, ReturnSets DEF CreateFails
  <2> QED
    BY <1>o, <1>t, <1>createFails, <2>1, CallStep DEF CreateFails, TypeOK, At, Owners
<1>ended. CASE Ended(c)
  <2>1. CASE call[c].new
    <3>1. Sets(c, "undoing")
      BY <1>o, <1>t, <1>ended, <2>1, GoSets DEF Ended
    <3> QED
      BY <1>o, <1>t, <1>ended, <3>1, CallStep DEF Ended, TypeOK, At, Owners
  <2>2. CASE ~call[c].new
    <3>1. Sets(c, "none")
      BY <1>o, <1>t, <1>ended, <2>2, ReturnSets DEF Ended
    <3> QED
      BY <1>o, <1>t, <1>ended, <3>1, CallStep DEF Ended, TypeOK, At, Owners
  <2> QED
    BY <2>1, <2>2
<1>remove. CASE Remove(c)
  <2>1. Sets(c, "removing")
    BY <1>o, <1>t, <1>remove, GoSets DEF Remove
  <2> QED
    BY <1>o, <1>t, <1>remove, <2>1, CallStep DEF Remove, TypeOK, At, Owners
<1>input. CASE Input(c)
  BY <1>input, Begins DEF Input
<1>removeInput. CASE RemoveInput(c)
  BY <1>removeInput, Begins DEF RemoveInput
<1>load. CASE Load(c)
  BY <1>load, Begins DEF Load
<1>settings. CASE SetSettings(c)
  BY <1>settings, Begins DEF SetSettings
<1>saved. CASE InputSaved(c)
  <2>1. newest + 1 \in Nat
    BY <1>t DEF TypeOK
  <2> DEFINE new == [NoCall EXCEPT !.op = "accepted", !.n = newest + 1]
  <2>2. new \in CallOf /\ new.op = "accepted"
    BY <1>o, <2>1, NewCalls
  <2>3. call' = [call EXCEPT ![c] = new]
    BY <1>saved DEF InputSaved
  <2> HIDE DEF new
  <2>4. Sets(c, "accepted")
    BY <1>t, <2>2, <2>3, NewSets
  <2> QED
    BY <1>o, <1>t, <1>saved, <2>1, <2>4, CallStep DEF InputSaved, TypeOK, At, Owners
<1>accepted. CASE Accepted(c)
  <2>1. Sets(c, "none")
    BY <1>t, <1>accepted, ReturnSets DEF Accepted
  <2>2. woken' \in Seq(Nat)
    <3>1. call[c].n \in Nat
      BY <1>t DEF TypeOK, CallOf
    <3> QED
      BY <1>t, <1>accepted, <3>1, AppendProperties DEF Accepted, TypeOK
  <2> QED
    BY <1>o, <1>t, <1>accepted, <2>1, <2>2, CallStep DEF Accepted, TypeOK, Owners
<1>fails. CASE Fails(c)
  <2>1. Sets(c, "none")
    BY <1>o, <1>t, <1>fails, ReturnSets DEF Fails
  <2> QED
    BY <1>o, <1>t, <1>fails, <2>1, CallStep DEF Fails, TypeOK, At, Owners
<1>removed. CASE InputRemoved(c)
  <2>1. Sets(c, "none")
    BY <1>o, <1>t, <1>removed, ReturnSets DEF InputRemoved
  <2> QED
    BY <1>o, <1>t, <1>removed, <2>1, CallStep DEF InputRemoved, TypeOK, At, Owners
<1>idle. CASE Idle(c)
  <2>1. Len(woken) \in Nat
    BY <1>t, LenProperties DEF TypeOK
  <2> DEFINE new == [NoCall EXCEPT !.op = "idle", !.n = Len(woken)]
  <2>2. new \in CallOf /\ new.op = "idle"
    BY <1>o, <2>1, NewCalls
  <2>3. call' = [call EXCEPT ![c] = new]
    BY <1>idle DEF Idle
  <2> HIDE DEF new
  <2>4. Sets(c, "idle")
    BY <1>t, <2>2, <2>3, NewSets
  <2> QED
    BY <1>o, <1>t, <1>idle, <2>4, CallStep DEF Idle, TypeOK, Owners
<1>looks. CASE IdleLooks(c)
  <2>1. Sets(c, "none") \/ Sets(c, "idle")
    <3>1. CASE Return(c)
      BY <1>t, <3>1, ReturnSets
    <3>2. CASE UNCHANGED call
      BY <1>t, <1>looks, <3>2 DEF IdleLooks, Sets, At, TypeOK
    <3> QED
      BY <1>looks, <3>1, <3>2 DEF IdleLooks
  <2> QED
    BY <1>o, <1>t, <1>looks, <2>1, CallStep DEF IdleLooks, TypeOK, At, Owners
<1>read. CASE SettingsRead(c)
  <2>1. Sets(c, "none") \/ Sets(c, "saving")
    BY <1>o, <1>t, <1>read, ReturnSets, GoSets DEF SettingsRead
  <2> QED
    BY <1>o, <1>t, <1>read, <2>1, CallStep DEF SettingsRead, TypeOK, At, Owners
<1>set. CASE SettingsSaved(c)
  <2>1. Sets(c, "none")
    BY <1>t, <1>set, ReturnSets DEF SettingsSaved
  <2> QED
    BY <1>o, <1>t, <1>set, <2>1, CallStep DEF SettingsSaved, TypeOK, Owners
<1> QED
  BY <1>create, <1>createFails, <1>ended, <1>remove, <1>input, <1>removeInput, <1>load, <1>settings,
     <1>saved, <1>accepted, <1>fails, <1>removed, <1>idle, <1>looks, <1>read, <1>set DEF CallSteps

\* The steps of the task
LEMMA TaskKeeps ==
    ASSUME RInv, Task
    PROVE  RInv'
<1> USE DEF taskOnly, callVars, storeVars, countVars, taskVars
<1> USE DEF TypeOK, TaskInv, TaskSteps, RunFails, RunEnds, Ready, HasLock, Disarm
<1>t. TypeOK /\ TaskInv
  BY DEF RInv
<1>n. Len(woken) \in Nat
  BY <1>t, LenProperties DEF TypeOK
<1>a. slot.armed \in BOOLEAN
  BY <1>t DEF TypeOK, Slot
<1>TaskEnds. CASE TaskEnds
  BY <1>t, <1>n, <1>a, <1>TaskEnds, TaskStep DEF TaskEnds
<1>TaskWakes. CASE TaskWakes
  BY <1>t, <1>n, <1>a, <1>TaskWakes, TaskStep DEF TaskWakes
<1>ReadPending. CASE ReadPending
  BY <1>t, <1>n, <1>a, <1>ReadPending, TaskStep DEF ReadPending
<1>WaitLock. CASE WaitLock
  BY <1>t, <1>n, <1>a, <1>WaitLock, TaskStep DEF WaitLock
<1>NothingWaits. CASE NothingWaits
  BY <1>t, <1>n, <1>a, <1>NothingWaits, TaskStep DEF NothingWaits
<1>CheckFails. CASE CheckFails
  BY <1>t, <1>n, <1>a, <1>CheckFails, TaskStep DEF CheckFails
<1>Recover. CASE Recover
  BY <1>t, <1>n, <1>a, <1>Recover, TaskStep DEF Recover
<1>PrepareFails. CASE PrepareFails
  BY <1>t, <1>n, <1>a, <1>PrepareFails, TaskStep DEF PrepareFails
<1>StartTurn. CASE StartTurn
  BY <1>t, <1>n, <1>a, <1>StartTurn, TaskStep DEF StartTurn
<1>NoTurnAfterClose. CASE NoTurnAfterClose
  BY <1>t, <1>n, <1>a, <1>NoTurnAfterClose, TaskStep DEF NoTurnAfterClose
<1>Consume. CASE Consume
  BY <1>t, <1>n, <1>a, <1>Consume, TaskStep DEF Consume
<1>TurnEnds. CASE TurnEnds
  BY <1>t, <1>n, <1>a, <1>TurnEnds, TaskStep DEF TurnEnds
<1>TurnFails. CASE TurnFails
  BY <1>t, <1>n, <1>a, <1>TurnFails, TaskStep DEF TurnFails
<1> QED
  BY <1>TaskEnds, <1>TaskWakes, <1>ReadPending, <1>WaitLock, <1>NothingWaits, <1>CheckFails, <1>Recover,
     <1>PrepareFails, <1>StartTurn, <1>NoTurnAfterClose, <1>Consume, <1>TurnEnds, <1>TurnFails DEF Task

\* The calls that move a slot, and the calls that the counts of the slot depend on
Moving == {"opening", "starting", "closing"}

\* The mover of a slot ends its transition, and no task runs: the slot is free again.
LEMMA MoverEnds ==
    ASSUME RInv, NEW c \in Callers, call[c].op \in Moving, DropTransition,
           NEW op \in {"none", "undoing", "ending"}, Sets(c, op),
           op = "ending" => call[c].op = "starting",
           phase # "stopped" => task = "none",
           task' = task \/ (phase = "stopped" /\ task' = "waiting"),
           call[c].op = "starting" \/ task' = task,
           turn' = turn \/ turn' = FALSE,
           UNCHANGED <<phase, cancelled, holds, expiring, shutting, held, saved, born>>,
           closed' \in BOOLEAN, wake' \in BOOLEAN, stale' \in BOOLEAN, woken' \in Seq(Nat), seen' \in Nat,
           handled' \in Nat, newest' \in Nat, pending' \subseteq Nat, refused' \subseteq Nat,
           turn' => task' = task
    PROVE  RInv'
<1>1. /\ slot' \in Slot /\ slot'.kind \notin {"opening", "closing"}
      /\ slot' = slot \/ slot' = NoSlot
      /\ NoSlot = SlotOf("none") /\ NoSlot.kind = "none" /\ NoSlot.armed = FALSE
  BY Dropped, Slots DEF Slot
<1>2. TypeOK'
  <2>1. turn' \in BOOLEAN /\ task' \in TaskSteps
    BY DEF RInv, TypeOK, TaskSteps
  <2> QED
    BY <1>1, <2>1 DEF RInv, TypeOK, Sets
<1>3. \A d \in Callers : call'[d].op \in Moving => call'[d] = call[d] /\ d # c
  BY DEF Sets, Moving
<1>4. phase # "stopped" => slot' = NoSlot /\ ~expiring /\ \A d \in Callers : call[d].op \in Moving => d = c
  <2>1. phase # "stopped" => slot.kind \in {"opening", "closing"} /\ ~expiring
    BY DEF RInv, Transitions, Moving, At
  <2> QED
    BY <2>1, Dropped DEF RInv, Transitions, Moving
<1>5. LeaseKeeps'
  <2>1. Leased' => Leased
    BY <1>1 DEF Leased, Sets, Owners
  <2>2. \A d \in Callers : At(d, "opening")' => At(d, "opening")
    BY <1>3 DEF At, Moving
  <2> QED
    BY <1>1, <2>1, <2>2 DEF RInv, LeaseKeeps
<1>6. Transitions'
  <2>1. phase = "stopped" => slot' = NoSlot
    BY <1>1 DEF RInv, Transitions
  <2>2. phase # "stopped" => \A d \in Callers : call'[d].op \notin Moving
    BY <1>3, <1>4
  <2> QED
    BY <1>1, <1>4, <2>1, <2>2 DEF Transitions, Moving, At
<1>7. Counts'
  <2>1. CASE slot' = NoSlot
    BY <1>1, <2>1 DEF Counts
  <2>2. CASE slot' = slot /\ phase = "stopped"
    BY <1>1, <2>2 DEF Counts, RInv, Transitions
  <2> QED
    BY <1>1, <1>4, <2>1, <2>2
<1>8. TaskInv'
  BY <1>1, <1>4 DEF RInv, TaskInv
<1> QED
  BY <1>2, <1>5, <1>6, <1>7, <1>8 DEF RInv

\* The opens outnumber the callers, so one of them has no attachment.
LEMMA FreeOpen ==
    ASSUME TypeOK
    PROVE  \E o \in Opens : \A k \in Callers : holds[k] # o
<1> DEFINE named == {holds[k] : k \in Callers}
<1>1. IsFiniteSet(Callers) /\ Cardinality(Callers) \in Nat
  BY CallersAssumption, FS_CardinalityType
<1>2. IsFiniteSet(named) /\ Cardinality(named) <= Cardinality(Callers)
  <2>1. holds \in [Callers -> named]
    BY DEF TypeOK
  <2>2. \A o \in named : \E k \in Callers : holds[k] = o
    OBVIOUS
  <2>3. holds \in Surjection(Callers, named)
    BY <2>1, <2>2 DEF Surjection
  <2> QED
    BY <1>1, <2>3, FS_Surjection
<1>3. IsFiniteSet(Opens) /\ Cardinality(Opens) = Cardinality(Callers) + 1
  BY <1>1, FS_Interval DEF Opens
<1>4. ~ (Opens \subseteq named)
  <2>1. SUFFICES ASSUME Opens \subseteq named
                 PROVE  FALSE
    OBVIOUS
  <2>2. Cardinality(Opens) <= Cardinality(named)
    BY <1>2, <2>1, FS_Subset
  <2>3. Cardinality(named) \in Nat
    BY <1>2, FS_CardinalityType
  <2> HIDE DEF named
  <2> QED
    BY <1>1, <1>2, <1>3, <2>2, <2>3
<1> QED
  BY <1>4

\* An open takes an empty slot, so its caller is the only one that moves it.
LEMMA OpenKeeps ==
    ASSUME RInv, NEW c \in Callers, Open(c)
    PROVE  RInv'
<1> USE DEF Open, taskVars, countVars, storeVars
<1>1. Sets(c, "opening")
  BY GoSets DEF RInv, Ops
<1>2. slot' \in Slot /\ slot'.kind = "opening" /\ slot'.armed = FALSE
  BY Slots
<1>3. TypeOK'
  BY <1>1, <1>2 DEF RInv, TypeOK, Sets
<1>4. LeaseKeeps'
  BY <1>1, <1>2 DEF RInv, LeaseKeeps, Leased, Sets, Owners
<1>5. Transitions'
  BY <1>1, <1>2 DEF RInv, Transitions, Sets, At
<1>6. Counts'
  BY <1>2 DEF Counts
<1>7. TaskInv'
  BY <1>2 DEF RInv, TaskInv
<1> QED
  BY <1>3, <1>4, <1>5, <1>6, <1>7 DEF RInv

\* The store gave the lease of a saved session to a caller whose slot still opens.
LEMMA SessionOpenedKeeps ==
    ASSUME RInv, NEW c \in Callers, SessionOpened(c)
    PROVE  RInv'
<1> USE DEF SessionOpened, registryVars, taskVars, countVars, storeVars
<1>1. Sets(c, "starting")
  BY GoSets DEF RInv, Ops
<1>2. TypeOK'
  BY <1>1 DEF RInv, TypeOK, Sets
<1>3. LeaseKeeps'
  BY <1>1 DEF RInv, LeaseKeeps, Sets, At
<1>4. Transitions'
  BY <1>1 DEF RInv, Transitions, Sets, At
<1>5. Counts'
  BY DEF RInv, Counts, Held
<1>6. TaskInv'
  BY DEF RInv, TaskInv
<1> QED
  BY <1>2, <1>3, <1>4, <1>5, <1>6 DEF RInv

\* A created session has no slot and no task yet, since nobody could name its id before.
LEMMA CreatedKeeps ==
    ASSUME RInv, NEW c \in Callers, Created(c)
    PROVE  RInv'
<1> USE DEF Created, countVars
<1>1. /\ slot.kind = "none" /\ task = "none" /\ ~expiring
      /\ \A d \in Callers : call[d].op \notin Moving
  BY DEF RInv, LeaseKeeps, Leased, Transitions, Moving, Owners, At
<1>2. CASE phase = "ready" /\ slot' = SlotOf("opening") /\ Go(c, "starting")
  <2>1. Sets(c, "starting")
    BY <1>2, GoSets DEF RInv, Ops
  <2>2. slot' \in Slot /\ slot'.kind = "opening" /\ slot'.armed = FALSE
    BY <1>2, Slots
  <2>3. TypeOK'
    BY <2>1, <2>2 DEF RInv, TypeOK, Sets
  <2>4. LeaseKeeps'
    BY DEF LeaseKeeps
  <2>5. Transitions'
    BY <1>1, <1>2, <2>1, <2>2 DEF RInv, Transitions, Sets, At, Moving
  <2>6. Counts'
    BY <1>2, <2>2 DEF Counts
  <2>7. TaskInv'
    BY <1>1 DEF RInv, TaskInv
  <2> QED
    BY <2>3, <2>4, <2>5, <2>6, <2>7 DEF RInv
<1>3. CASE Go(c, "undoing") /\ UNCHANGED slot
  <2>1. Sets(c, "undoing")
    BY <1>3, GoSets DEF RInv, Ops
  <2>3. TypeOK'
    BY <1>3, <2>1 DEF RInv, TypeOK, Sets
  <2>4. LeaseKeeps'
    BY DEF LeaseKeeps
  <2>5. Transitions'
    BY <1>1, <1>3, <2>1 DEF RInv, Transitions, Sets, At, Moving
  <2>6. Counts'
    BY <1>3 DEF RInv, Counts, Held
  <2>7. TaskInv'
    BY <1>1, <1>3 DEF RInv, TaskInv
  <2> QED
    BY <2>3, <2>4, <2>5, <2>6, <2>7 DEF RInv
<1> QED
  BY <1>2, <1>3

\* The end of an open starts the task, or ends the session when the app stopped meanwhile.
LEMMA StartedKeeps ==
    ASSUME RInv, NEW c \in Callers, Started(c)
    PROVE  RInv'
<1> USE DEF Started
<1>t. TypeOK /\ "none" \in Ops /\ "ending" \in Ops /\ "loading" \in Ops
  BY DEF RInv, Ops
<1>e. <<>> \in Seq(Nat) /\ Len(<<>>) = 0
  BY EmptySeq
<1>1. CASE phase = "stopped"
  <2>1. DropTransition /\ Go(c, "ending") /\ closed' = TRUE
    BY <1>1
  <2>2. Sets(c, "ending")
    BY <1>t, <2>1, GoSets
  <2> QED
    BY <1>1, <1>t, <1>e, <2>1, <2>2, MoverEnds DEF At, Moving, TypeOK
<1>2. CASE phase # "stopped"
  <2> DEFINE o == CHOOSE o \in Opens : \A k \in Callers : holds[k] # o
  <2> DEFINE new == [kind |-> "open", attachments |-> 0, armed |-> FALSE, open |-> o]
  <2>1. o \in Opens /\ \A k \in Callers : holds[k] # o
    BY <1>t, FreeOpen
  <2>2. o \in Nat /\ o # 0
    <3>1. Cardinality(Callers) + 1 \in Nat
      BY CallersAssumption, FS_CardinalityType
    <3> QED
      BY <2>1, <3>1 DEF Opens
  <2>3. slot' = ReportIdle(new) /\ closed' = FALSE /\ (Return(c) \/ Go(c, "loading"))
    BY <1>2
  <2> HIDE DEF o
  <2>4. new \in Slot /\ new.kind = "open" /\ new.attachments = 0 /\ new.open = o
    BY <2>2 DEF Slot
  <2> HIDE DEF new
  <2>5. slot' \in Slot /\ slot'.kind = "open" /\ slot'.attachments = 0 /\ slot'.open = o
    BY <2>3, <2>4 DEF ReportIdle, Slot
  <2>6. Sets(c, "none") \/ Sets(c, "loading")
    BY <1>t, <2>3, ReturnSets, GoSets
  <2>7. /\ slot.kind = "opening" /\ ~expiring /\ saved /\ born
        /\ \A d \in Callers : call[d].op \in Moving => d = c
    BY <1>2 DEF RInv, Transitions, LeaseKeeps, Leased, Owners, Moving, At
  <2>8. TypeOK'
    BY <1>t, <1>e, <2>3, <2>5, <2>6 DEF TypeOK, Sets, TaskSteps
  <2>9. LeaseKeeps'
    BY <2>6, <2>7 DEF LeaseKeeps
  <2>10. Transitions'
    BY <1>2, <2>6, <2>7 DEF Transitions, Sets, Moving, At
  <2>11. Counts'
    <3>1. Held' = {}
      BY <2>1, <2>5 DEF Held
    <3>2. Cardinality(Held') = 0
      BY <3>1, FS_EmptySet
    <3> QED
      BY <2>2, <2>5, <3>2 DEF Counts
  <2>12. TaskInv'
    BY <2>5 DEF TaskInv
  <2> QED
    BY <2>8, <2>9, <2>10, <2>11, <2>12 DEF RInv
<1> QED
  BY <1>1, <1>2

\* The mover of the slot fails or ends the close.
LEMMA FailsKeep ==
    ASSUME RInv, NEW c \in Callers, OpenFails(c) \/ StartFails(c) \/ Closed(c)
    PROVE  RInv'
<1> USE DEF taskVars, countVars, storeVars
<1>t. TypeOK /\ "none" \in Ops /\ "undoing" \in Ops
  BY DEF RInv, Ops
<1>f. call[c].op \in {"opening", "starting"} /\ phase # "stopped" => task = "none"
  BY DEF RInv, Transitions, TaskInv
<1>1. CASE OpenFails(c)
  <2>1. Sets(c, "none")
    BY <1>t, <1>1, ReturnSets DEF OpenFails
  <2> QED
    BY <1>t, <1>f, <1>1, <2>1, MoverEnds DEF OpenFails, At, Moving, TypeOK
<1>2. CASE StartFails(c)
  <2>1. Sets(c, "none") \/ Sets(c, "undoing")
    BY <1>t, <1>2, ReturnSets, GoSets DEF StartFails
  <2> QED
    BY <1>t, <1>f, <1>2, <2>1, MoverEnds DEF StartFails, At, Moving, TypeOK
<1>3. CASE Closed(c)
  <2>1. Sets(c, "none")
    BY <1>t, <1>3, ReturnSets DEF Closed
  <2> QED
    BY <1>t, <1>3, <2>1, MoverEnds DEF Closed, At, Moving, TypeOK
<1> QED
  BY <1>1, <1>2, <1>3

\* A delete removes the session only when nobody has it.
LEMMA DeletesKeep ==
    ASSUME RInv, NEW c \in Callers, Undone(c) \/ Removed(c)
    PROVE  RInv'
<1> USE DEF Undone, Removed, registryVars, taskVars, countVars
<1>1. Sets(c, "none")
  BY ReturnSets DEF RInv
<1>0. Delete /\ UNCHANGED <<phase, slot, cancelled, holds, expiring, shutting, held, task, closed, wake, turn,
                          stale, woken, seen, handled, born, newest, refused>>
  OBVIOUS
<1>2. saved' \in BOOLEAN /\ pending' \subseteq Nat /\ (saved' => saved) /\ (Leased => saved')
  <2>1. CASE saved /\ ~Leased /\ saved' = FALSE /\ pending' = {}
    BY <2>1
  <2>2. CASE UNCHANGED <<saved, pending>>
    BY <2>2 DEF RInv, TypeOK, LeaseKeeps
  <2> QED
    BY <1>0, <2>1, <2>2 DEF Delete
<1>3. TypeOK'
  BY <1>0, <1>1, <1>2 DEF RInv, TypeOK, Sets
<1>4. LeaseKeeps'
  BY <1>1, <1>2 DEF RInv, LeaseKeeps, Leased, Sets, Owners, At
<1>5. Transitions'
  BY <1>1 DEF RInv, Transitions, Sets, At
<1>6. Counts'
  BY DEF RInv, Counts, Held
<1>7. TaskInv'
  BY DEF RInv, TaskInv
<1> QED
  BY <1>3, <1>4, <1>5, <1>6, <1>7 DEF RInv

\* A close takes an open slot, so its caller is the only one that moves it.
LEMMA CloseKeeps ==
    ASSUME RInv, NEW c \in Callers, Close(c)
    PROVE  RInv'
<1> USE DEF Close, countVars, storeVars
<1>1. Sets(c, "closing")
  BY GoSets DEF RInv, Ops
<1>2. slot' \in Slot /\ slot'.kind = "closing" /\ slot'.armed = FALSE
  BY Slots
<1>3. TypeOK'
  BY <1>1, <1>2 DEF RInv, TypeOK, Sets
<1>4. LeaseKeeps'
  BY <1>1, <1>2 DEF RInv, LeaseKeeps, Leased, Sets, At
<1>5. Transitions'
  BY <1>1, <1>2 DEF RInv, Transitions, Sets, At
<1>6. Counts'
  BY <1>2 DEF Counts
<1>7. TaskInv'
  BY <1>2 DEF RInv, TaskInv
<1> QED
  BY <1>3, <1>4, <1>5, <1>6, <1>7 DEF RInv

\* The shutdown empties the registry under the movers; a reload changes the phase alone.
LEMMA AppKeeps ==
    ASSUME RInv, App
    PROVE  RInv'
<1> USE DEF registryVars, callVars, taskVars, countVars, storeVars
<1>1. CASE CloseAll
  <2> USE DEF CloseAll
  <2>1. NoSlot \in Slot /\ NoSlot.kind = "none" /\ NoSlot.armed = FALSE /\ NoSlot = SlotOf("none")
    BY Slots
  <2>2. TypeOK'
    BY <1>1, <2>1 DEF RInv, TypeOK
  <2>3. LeaseKeeps'
    BY <1>1, <2>1 DEF RInv, LeaseKeeps, Leased, At
  <2>4. Transitions'
    BY <1>1 DEF Transitions
  <2>5. Counts'
    BY <1>1, <2>1 DEF Counts
  <2>6. TaskInv'
    BY <1>1 DEF RInv, TaskInv
  <2> QED
    BY <2>2, <2>3, <2>4, <2>5, <2>6 DEF RInv
<1>2. ASSUME phase' \in {"ready", "reloading"}, phase \in {"ready", "reloading"},
             held' \in BOOLEAN, held' => slot.kind = "open",
             UNCHANGED <<slot, cancelled, holds, call, expiring, shutting, taskVars, countVars, storeVars>>
      PROVE  RInv'
  <2>2. TypeOK'
    BY <1>2 DEF RInv, TypeOK
  <2>3. LeaseKeeps'
    BY <1>2 DEF RInv, LeaseKeeps, Leased, At
  <2>4. Transitions'
    BY <1>2 DEF RInv, Transitions, At
  <2>5. Counts'
    BY <1>2 DEF RInv, Counts, Held
  <2>6. TaskInv'
    BY <1>2 DEF RInv, TaskInv
  <2> QED
    BY <2>2, <2>3, <2>4, <2>5, <2>6 DEF RInv
<1>3. CASE CloseAllEnds
  <2> USE DEF CloseAllEnds
  <2>2. TypeOK'
    BY <1>3 DEF RInv, TypeOK
  <2>3. LeaseKeeps'
    BY <1>3 DEF RInv, LeaseKeeps, Leased, At
  <2>4. Transitions'
    BY <1>3 DEF RInv, Transitions, At
  <2>5. Counts'
    BY <1>3 DEF RInv, Counts, Held
  <2>6. TaskInv'
    BY <1>3 DEF RInv, TaskInv
  <2> QED
    BY <2>2, <2>3, <2>4, <2>5, <2>6 DEF RInv
<1>4. CASE Reload
  BY <1>2, <1>4 DEF Reload
<1>5. CASE ReloadEnds
  BY <1>2, <1>5 DEF ReloadEnds
<1> QED
  BY <1>1, <1>3, <1>4, <1>5 DEF App

\* The attachments of the open session can be counted.
LEMMA HeldFinite ==
    ASSUME TypeOK
    PROVE  IsFiniteSet(Held) /\ Cardinality(Held) \in Nat
<1>1. Held \subseteq Callers
  BY DEF Held
<1> QED
  BY <1>1, CallersAssumption, FS_Subset, FS_CardinalityType

\* An attach counts its caller once and cancels the countdown.
LEMMA AttachKeeps ==
    ASSUME RInv, NEW c \in Callers, Attach(c)
    PROVE  RInv'
<1> USE DEF Attach, callVars, taskVars, countVars, storeVars
<1>t. TypeOK /\ slot \in Slot /\ holds \in [Callers -> Nat] /\ slot.kind = "open" /\ slot.open \in Nat
  BY DEF RInv, TypeOK, Slot
<1>1. /\ slot' \in Slot /\ slot'.kind = "open" /\ slot'.open = slot.open /\ slot'.armed = FALSE
      /\ slot'.attachments = slot.attachments + 1 - (IF holds[c] = slot.open THEN 1 ELSE 0)
  <2> DEFINE count == slot.attachments + 1 - (IF holds[c] = slot.open THEN 1 ELSE 0)
  <2>1. slot' = [slot EXCEPT !.attachments = count, !.armed = FALSE]
    OBVIOUS
  <2>2. count \in Int
    BY <1>t DEF Slot
  <2> HIDE DEF count
  <2>3. /\ slot' \in Slot /\ slot'.kind = slot.kind /\ slot'.open = slot.open /\ slot'.armed = FALSE
        /\ slot'.attachments = count
    BY <1>t, <2>1, <2>2 DEF Slot
  <2> QED
    BY <1>t, <2>3 DEF count
<1>2. holds' \in [Callers -> Nat] /\ cancelled' \in BOOLEAN
  BY <1>t DEF Disarm, TypeOK, Slot
<1>3. TypeOK'
  BY <1>t, <1>1, <1>2 DEF TypeOK
<1>4. LeaseKeeps'
  BY <1>t, <1>1 DEF RInv, LeaseKeeps, Leased, At
<1>5. Transitions'
  BY <1>t, <1>1 DEF RInv, Transitions, At, NoSlot
<1>6. Counts'
  <2>1. Held' = Held \cup {c}
    BY <1>t, <1>1 DEF Held
  <2>2. Cardinality(Held \cup {c}) = IF c \in Held THEN Cardinality(Held) ELSE Cardinality(Held) + 1
    BY <1>t, HeldFinite, FS_AddElement
  <2>3. c \in Held <=> holds[c] = slot.open
    BY DEF Held
  <2>4. Cardinality(Held') = Cardinality(Held \cup {c})
    BY <2>1
  <2>5. slot.open # 0 /\ slot.attachments = Cardinality(Held) /\ Cardinality(Held) \in Nat
    BY <1>t, HeldFinite DEF RInv, Counts
  <2>6. slot'.attachments = Cardinality(Held')
    BY <1>1, <2>2, <2>3, <2>4, <2>5
  <2> QED
    BY <1>1, <2>5, <2>6 DEF Counts
<1>7. TaskInv'
  BY <1>1 DEF RInv, TaskInv
<1> QED
  BY <1>3, <1>4, <1>5, <1>6, <1>7 DEF RInv

\* A detach gives back its own attachment, and one of an older open changes nothing.
LEMMA DetachKeeps ==
    ASSUME RInv, NEW c \in Callers, Detach(c)
    PROVE  RInv'
<1> USE DEF Detach, callVars, taskVars, countVars, storeVars
<1>t. TypeOK /\ slot \in Slot /\ holds \in [Callers -> Nat] /\ slot.open \in Nat
  BY DEF RInv, TypeOK, Slot
<1>1. CASE Names(holds[c], slot)
  <2>1. slot.kind = "open" /\ slot.open = holds[c] /\ slot.open # 0
    BY <1>1 DEF Names
  <2>2. /\ slot' \in Slot /\ slot'.kind = "open" /\ slot'.open = slot.open /\ slot'.armed = slot.armed
        /\ slot'.attachments = slot.attachments - 1
    BY <1>1, <1>t, <2>1 DEF Slot
  <2>3. wake' \in BOOLEAN /\ holds' \in [Callers -> Nat]
    BY <1>1, <1>t DEF TypeOK
  <2>4. TypeOK'
    BY <1>1, <2>2, <2>3 DEF RInv, TypeOK
  <2>5. LeaseKeeps'
    BY <2>1, <2>2 DEF RInv, LeaseKeeps, Leased, At
  <2>6. Transitions'
    BY <2>1, <2>2 DEF RInv, Transitions, At, NoSlot
  <2>7. Counts'
    <3>1. Held' = Held \ {c}
      BY <1>t, <2>1, <2>2 DEF Held
    <3>2. c \in Held
      BY <2>1 DEF Held
    <3>3. Cardinality(Held \ {c}) = Cardinality(Held) - 1
      BY <1>t, <3>2, HeldFinite, FS_RemoveElement
    <3>4. Cardinality(Held') = Cardinality(Held \ {c})
      BY <3>1
    <3>5. slot.attachments = Cardinality(Held) /\ Cardinality(Held) \in Nat /\ Cardinality(Held \ {c}) \in Nat
      <4>1. IsFiniteSet(Held \ {c})
        BY <1>t, HeldFinite, FS_RemoveElement
      <4> QED
        BY <1>t, <2>1, <4>1, HeldFinite, FS_CardinalityType DEF RInv, Counts
    <3>6. ~slot.armed
      BY <3>3, <3>5 DEF RInv, Counts
    <3> QED
      BY <2>1, <2>2, <3>3, <3>4, <3>5, <3>6 DEF Counts
  <2>8. TaskInv'
    BY <2>2 DEF RInv, TaskInv
  <2> QED
    BY <2>4, <2>5, <2>6, <2>7, <2>8 DEF RInv
<1>2. CASE ~Names(holds[c], slot)
  <2>1. slot' = slot /\ wake' = wake
    BY <1>2
  <2>2. holds' \in [Callers -> Nat]
    BY <1>t
  <2>4. TypeOK'
    BY <2>1, <2>2 DEF RInv, TypeOK
  <2>5. LeaseKeeps'
    BY <2>1 DEF RInv, LeaseKeeps, Leased, At
  <2>6. Transitions'
    BY <2>1 DEF RInv, Transitions, At
  <2>7. Counts'
    <3>1. CASE slot.kind = "open"
      <4>1. holds[c] # slot.open /\ slot.open # 0
        BY <1>2, <3>1 DEF Names, RInv, Counts
      <4>2. Held' = Held
        BY <1>t, <2>1, <4>1 DEF Held
      <4> QED
        BY <2>1, <3>1, <4>2 DEF RInv, Counts
    <3>2. CASE slot.kind # "open"
      BY <2>1, <3>2 DEF RInv, Counts
    <3> QED
      BY <3>1, <3>2
  <2>8. TaskInv'
    BY <2>1 DEF RInv, TaskInv
  <2> QED
    BY <2>4, <2>5, <2>6, <2>7, <2>8 DEF RInv
<1> QED
  BY <1>1, <1>2

\* A countdown closes a slot only while nobody holds it, and its close is a mover of its own.
LEMMA CountdownKeeps ==
    ASSUME RInv, Countdown
    PROVE  RInv'
<1> USE DEF callVars, taskVars, countVars, storeVars
<1>1. CASE Expire
  <2> USE DEF Expire
  <2>1. slot' \in Slot /\ slot'.kind = "closing" /\ slot'.armed = FALSE
    BY <1>1, Slots
  <2>2. TypeOK'
    BY <1>1, <2>1 DEF RInv, TypeOK
  <2>3. LeaseKeeps'
    BY <1>1, <2>1 DEF RInv, LeaseKeeps, Leased, At
  <2>4. Transitions'
    BY <1>1, <2>1, Slots DEF RInv, Transitions, At
  <2>5. Counts'
    BY <1>1, <2>1 DEF Counts
  <2>6. TaskInv'
    BY <1>1, <2>1 DEF RInv, TaskInv
  <2> QED
    BY <2>2, <2>3, <2>4, <2>5, <2>6 DEF RInv
<1>2. CASE ExpireReloading
  <2> USE DEF ExpireReloading
  <2>t. slot \in Slot /\ slot.kind = "open" /\ slot.armed /\ slot.attachments = 0 /\ ~turn
    BY <1>2 DEF RInv, TypeOK, Counts
  <2> DEFINE off == [slot EXCEPT !.armed = FALSE]
  <2>0. /\ off \in Slot /\ off.kind = "open" /\ off.open = slot.open /\ off.attachments = slot.attachments
    BY <2>t DEF Slot
  <2>z. slot' = ReportIdle(off)
    BY <1>2
  <2> HIDE DEF off
  <2>1. slot' \in Slot /\ slot'.kind = "open" /\ slot'.open = slot.open /\ slot'.attachments = slot.attachments
    BY <2>0, <2>z DEF ReportIdle, Slot
  <2>2. TypeOK'
    BY <1>2, <2>1 DEF RInv, TypeOK
  <2>3. LeaseKeeps'
    BY <1>2, <2>1 DEF RInv, LeaseKeeps, Leased, At
  <2>4. Transitions'
    BY <1>2, <2>1 DEF RInv, Transitions, At
  <2>5. Counts'
    <3>1. Held' = Held
      BY <1>2, <2>1 DEF Held
    <3> QED
      BY <1>2, <2>t, <2>1, <3>1 DEF RInv, Counts
  <2>6. TaskInv'
    BY <1>2, <2>1 DEF RInv, TaskInv
  <2> QED
    BY <2>2, <2>3, <2>4, <2>5, <2>6 DEF RInv
<1>3. CASE ExpireCancelled
  <2> USE DEF ExpireCancelled
  <2>2. TypeOK'
    BY <1>3 DEF RInv, TypeOK
  <2>3. LeaseKeeps'
    BY <1>3 DEF RInv, LeaseKeeps, Leased, At
  <2>4. Transitions'
    BY <1>3 DEF RInv, Transitions, At
  <2>5. Counts'
    BY <1>3 DEF RInv, Counts, Held
  <2>6. TaskInv'
    BY <1>3 DEF RInv, TaskInv
  <2> QED
    BY <2>2, <2>3, <2>4, <2>5, <2>6 DEF RInv
<1>4. CASE ExpireEnds
  <2> USE DEF ExpireEnds
  <2>0. /\ slot' \in Slot /\ slot'.kind \notin {"opening", "closing"}
        /\ slot' = slot \/ slot' = NoSlot
        /\ slot.kind = "closing" => slot' = NoSlot
        /\ NoSlot = SlotOf("none") /\ NoSlot.kind = "none" /\ NoSlot.armed = FALSE
    BY <1>4, Dropped, Slots DEF Slot
  <2>1. phase # "stopped" =>
          slot.kind = "closing" /\ slot' = NoSlot /\ \A d \in Callers : call[d].op \notin {"opening", "starting", "closing"}
    BY <1>4, <2>0 DEF RInv, Transitions, At
  <2>2. TypeOK'
    BY <1>4, <2>0 DEF RInv, TypeOK
  <2>3. LeaseKeeps'
    BY <1>4, <2>0 DEF RInv, LeaseKeeps, Leased, At
  <2>4. Transitions'
    BY <1>4, <2>0, <2>1 DEF RInv, Transitions, At
  <2>5. Counts'
    <3>1. CASE slot' = NoSlot
      BY <2>0, <3>1 DEF Counts
    <3>2. CASE slot' = slot /\ phase = "stopped"
      BY <2>0, <3>2, Slots DEF Counts, RInv, Transitions
    <3> QED
      BY <2>0, <2>1, <3>1, <3>2
  <2>6. TaskInv'
    BY <1>4, <2>0 DEF RInv, TaskInv
  <2> QED
    BY <2>2, <2>3, <2>4, <2>5, <2>6 DEF RInv
<1> QED
  BY <1>1, <1>2, <1>3, <1>4 DEF Countdown

\* Every step keeps the invariant of the registry.
LEMMA RegistryStep ==
    ASSUME RInv, [Next]_vars
    PROVE  RInv'
<1>1. CASE UNCHANGED vars
  <2> USE DEF vars, registryVars, callVars, taskVars, countVars, storeVars
  <2>2. TypeOK'
    BY <1>1 DEF RInv, TypeOK
  <2>3. LeaseKeeps'
    BY <1>1 DEF RInv, LeaseKeeps, Leased, At
  <2>4. Transitions'
    BY <1>1 DEF RInv, Transitions, At
  <2>5. Counts'
    BY <1>1 DEF RInv, Counts, Held
  <2>6. TaskInv'
    BY <1>1 DEF RInv, TaskInv
  <2> QED
    BY <2>2, <2>3, <2>4, <2>5, <2>6 DEF RInv
<1>2. CASE Countdown
  BY <1>2, CountdownKeeps
<1>3. CASE App
  BY <1>3, AppKeeps
<1>4. CASE Task
  BY <1>4, TaskKeeps
<1>5. ASSUME NEW c \in Callers, Registry(c) \/ CallOn(c)
      PROVE  RInv'
  <2>1. CASE CallSteps(c)
    BY <2>1, CallStepsKeep
  <2>2. CASE OpenFails(c) \/ StartFails(c) \/ Closed(c)
    BY <2>2, FailsKeep
  <2>3. CASE Undone(c) \/ Removed(c)
    BY <2>3, DeletesKeep
  <2>4. CASE Open(c) \/ SessionOpened(c) \/ Created(c) \/ Started(c)
    BY <2>4, OpenKeeps, SessionOpenedKeeps, CreatedKeeps, StartedKeeps
  <2>5. CASE Close(c) \/ Attach(c) \/ Detach(c)
    BY <2>5, CloseKeeps, AttachKeeps, DetachKeeps
  <2> QED
    BY <1>5, <2>1, <2>2, <2>3, <2>4, <2>5 DEF Registry, CallOn, CallSteps
<1> QED
  BY <1>1, <1>2, <1>3, <1>4, <1>5 DEF Next

-----------------------------------------------------------------------------
(* The invariant of the wakes *)

\* A call that is not accepted now counts no input.
Counted == \A d \in Callers : call'[d] = call[d] \/ ~At(d, "accepted")'

\* A step that moves neither the counts nor the end of a run; inputs may leave, and a wake may come.
LEMMA WakeFrame ==
    ASSUME TypeOK, WakeInv, Counted,
           task' = task \/ task' \notin {"waiting", "empty"}, closed => closed', wake => wake',
           UNCHANGED <<woken, seen, handled, newest, refused>>, pending' \subseteq pending
    PROVE  WakeInv'
<1>1. \A d \in Callers : At(d, "accepted")' => call'[d].n <= newest'
  BY DEF Counted, WakeInv, At
<1> QED
  BY <1>1 DEF WakeInv

\* The run of the turns ends, after the inputs before it left or a failure left them.
LEMMA WakeRunEnds ==
    ASSUME TypeOK, WakeInv, RunEnds, UNCHANGED <<woken, seen, closed, call, wake, pending, newest>>,
           refused \subseteq refused',
           closed \/ \A k \in 1 .. seen : woken[k] \in pending => woken[k] \in refused'
    PROVE  WakeInv'
<1>1. handled' = seen /\ task' = "waiting"
  BY DEF RunEnds
<1>2. \A d \in Callers : At(d, "accepted")' => call'[d].n <= newest'
  BY DEF WakeInv, At
<1> QED
  BY <1>1, <1>2 DEF WakeInv

\* No step but a saved input makes a call that waits to wake the task.
LEMMA CallsCounted ==
    ASSUME TypeOK, NEW c \in Callers, Registry(c) \/ CallOn(c), ~InputSaved(c)
    PROVE  Counted
<1>o. Ops \ {"accepted"} = {"none", "opening", "starting", "creating", "undoing", "ending", "removing",
            "closing", "accepting", "dropping", "loading", "idle", "settings", "saving"}
  BY DEF Ops
<1>s. ASSUME NEW op \in Ops \ {"accepted"}, Sets(c, op)
      PROVE  Counted
  BY <1>s DEF Sets, Counted, At
<1>r. Return(c) => Counted
  BY <1>o, <1>s, ReturnSets
<1>g. ASSUME NEW op \in Ops \ {"accepted"}, Go(c, op)
      PROVE  Counted
  BY <1>g, <1>s, GoSets
<1>u. UNCHANGED call => Counted
  BY DEF Counted
<1>Open. CASE Open(c)
  BY <1>o, <1>g, <1>Open DEF Open
<1>SessionOpened. CASE SessionOpened(c)
  BY <1>o, <1>g, <1>SessionOpened DEF SessionOpened
<1>OpenFails. CASE OpenFails(c)
  BY <1>o, <1>r, <1>OpenFails DEF OpenFails
<1>CreateFails. CASE CreateFails(c)
  BY <1>o, <1>r, <1>CreateFails DEF CreateFails
<1>Created. CASE Created(c)
  BY <1>o, <1>g, <1>Created DEF Created
<1>Started. CASE Started(c)
  BY <1>o, <1>r, <1>g, <1>Started DEF Started
<1>StartFails. CASE StartFails(c)
  BY <1>o, <1>r, <1>g, <1>StartFails DEF StartFails
<1>Ended. CASE Ended(c)
  BY <1>o, <1>r, <1>g, <1>Ended DEF Ended
<1>Undone. CASE Undone(c)
  BY <1>o, <1>r, <1>Undone DEF Undone
<1>Remove. CASE Remove(c)
  BY <1>o, <1>g, <1>Remove DEF Remove
<1>Removed. CASE Removed(c)
  BY <1>o, <1>r, <1>Removed DEF Removed
<1>Close. CASE Close(c)
  BY <1>o, <1>g, <1>Close DEF Close
<1>Closed. CASE Closed(c)
  BY <1>o, <1>r, <1>Closed DEF Closed
<1>Attach. CASE Attach(c)
  BY <1>o, <1>u, <1>Attach DEF Attach, callVars
<1>Detach. CASE Detach(c)
  BY <1>o, <1>u, <1>Detach DEF Detach, callVars
<1>Input. CASE Input(c)
  BY <1>o, <1>g, <1>Input DEF Input, Begin
<1>Accepted. CASE Accepted(c)
  BY <1>o, <1>r, <1>Accepted DEF Accepted
<1>Fails. CASE Fails(c)
  BY <1>o, <1>r, <1>Fails DEF Fails
<1>RemoveInput. CASE RemoveInput(c)
  BY <1>o, <1>g, <1>RemoveInput DEF RemoveInput, Begin
<1>InputRemoved. CASE InputRemoved(c)
  BY <1>o, <1>r, <1>InputRemoved DEF InputRemoved
<1>Load. CASE Load(c)
  BY <1>o, <1>g, <1>Load DEF Load, Begin
<1>IdleLooks. CASE IdleLooks(c)
  BY <1>o, <1>r, <1>u, <1>IdleLooks DEF IdleLooks
<1>SetSettings. CASE SetSettings(c)
  BY <1>o, <1>g, <1>SetSettings DEF SetSettings, Begin
<1>SettingsRead. CASE SettingsRead(c)
  BY <1>o, <1>r, <1>g, <1>SettingsRead DEF SettingsRead
<1>SettingsSaved. CASE SettingsSaved(c)
  BY <1>o, <1>r, <1>SettingsSaved DEF SettingsSaved
<1>Create. CASE Create(c)
  <2> DEFINE new == [NoCall EXCEPT !.op = "creating", !.new = TRUE]
  <2>1. Len(woken) \in Nat
    BY LenProperties DEF TypeOK
  <2>2. new \in CallOf /\ new.op = "creating"
    BY <1>o, <2>1, NewCalls
  <2>3. call' = [call EXCEPT ![c] = new]
    BY <1>Create DEF Create
  <2> HIDE DEF new
  <2> QED
    BY <1>o, <1>s, <2>2, <2>3, NewSets
<1>Idle. CASE Idle(c)
  <2> DEFINE new == [NoCall EXCEPT !.op = "idle", !.n = Len(woken)]
  <2>1. Len(woken) \in Nat
    BY LenProperties DEF TypeOK
  <2>2. new \in CallOf /\ new.op = "idle"
    BY <1>o, <2>1, NewCalls
  <2>3. call' = [call EXCEPT ![c] = new]
    BY <1>Idle DEF Idle
  <2> HIDE DEF new
  <2> QED
    BY <1>o, <1>s, <2>2, <2>3, NewSets
<1> QED
  BY <1>Open, <1>SessionOpened, <1>OpenFails, <1>CreateFails, <1>Created, <1>Started, <1>StartFails,
     <1>Ended, <1>Undone, <1>Remove, <1>Removed, <1>Close, <1>Closed, <1>Attach, <1>Detach, <1>Input,
     <1>Accepted, <1>Fails, <1>RemoveInput, <1>InputRemoved, <1>Load, <1>IdleLooks, <1>SetSettings,
     <1>SettingsRead, <1>SettingsSaved, <1>Create, <1>Idle DEF Registry, CallOn

\* A saved input is newer than each one that woke the task.
LEMMA SavedWakes ==
    ASSUME TypeOK, WakeInv, NEW c \in Callers, InputSaved(c)
    PROVE  WakeInv'
<1>1. /\ newest' = newest + 1 /\ pending' = pending \cup {newest + 1}
      /\ UNCHANGED <<task, closed, wake, woken, seen, handled, refused>>
  BY DEF InputSaved, taskVars, countVars
<1>2. newest \in Nat /\ \A k \in 1 .. Len(woken) : woken[k] \in Nat /\ woken[k] <= newest
  BY ElementOfSeq DEF TypeOK, WakeInv
<1>3. \A k \in 1 .. Len(woken) : woken'[k] \in pending' => woken[k] \in pending
  BY <1>1, <1>2
<1>4. \A d \in Callers : At(d, "accepted")' => call'[d].n <= newest'
  <2> DEFINE new == [NoCall EXCEPT !.op = "accepted", !.n = newest + 1]
  <2>1. new \in CallOf /\ new.n = newest + 1
    <3>1. newest + 1 \in Nat /\ "accepted" \in Ops
      BY <1>2 DEF Ops
    <3> QED
      BY <3>1, NewCalls
  <2>2. call' = [call EXCEPT ![c] = new]
    BY DEF InputSaved
  <2> HIDE DEF new
  <2>3. call'[c] = new /\ \A d \in Callers : d # c => call'[d] = call[d]
    BY <2>1, <2>2 DEF TypeOK
  <2>4. \A d \in Callers : call[d].n \in Nat
    BY DEF TypeOK, CallOf
  <2> QED
    BY <1>1, <1>2, <2>1, <2>3, <2>4 DEF WakeInv, At
<1>5. \A k \in 1 .. Len(woken) : woken'[k] <= newest'
  BY <1>1, <1>2
<1>6. seen \in Nat /\ handled \in Nat /\ Len(woken) \in Nat
  BY LenProperties DEF TypeOK
<1> QED
  BY <1>1, <1>3, <1>4, <1>5, <1>6 DEF WakeInv

\* An accepted input leaves a permit after the inputs that the task has seen.
LEMMA AcceptedWakes ==
    ASSUME TypeOK, WakeInv, NEW c \in Callers, Accepted(c)
    PROVE  WakeInv'
<1>1. /\ wake' /\ UNCHANGED <<task, closed, seen, handled, newest, pending, refused>>
      /\ At(c, "accepted") /\ woken' = Append(woken, call[c].n)
  BY DEF Accepted, storeVars
<1>2. call[c].n \in Nat /\ call[c].n <= newest /\ Len(woken) \in Nat /\ seen \in Nat /\ handled \in Nat
  BY <1>1, LenProperties DEF TypeOK, CallOf, WakeInv
<1>3. Len(woken') = Len(woken) + 1 /\ \A k \in 1 .. Len(woken) : woken'[k] = woken[k]
  BY <1>1, <1>2, AppendProperties DEF TypeOK
<1>4. woken'[Len(woken) + 1] = call[c].n
  BY <1>1, <1>2, AppendProperties DEF TypeOK
<1>5. \A k \in 1 .. Len(woken') : woken'[k] <= newest'
  BY <1>1, <1>2, <1>3, <1>4 DEF WakeInv
<1>6. Counted
  BY CallsCounted DEF CallOn, InputSaved, At, Accepted
<1>7. \A d \in Callers : At(d, "accepted")' => call'[d].n <= newest'
  BY <1>1, <1>6 DEF Counted, WakeInv, At
<1>8. seen <= Len(woken) /\ handled <= Len(woken)
  BY DEF WakeInv
<1>9. \A k \in 1 .. seen : woken'[k] = woken[k]
  BY <1>2, <1>3, <1>8
<1>10. \A k \in 1 .. handled : woken'[k] = woken[k]
  BY <1>2, <1>3, <1>8
<1> QED
  BY <1>1, <1>2, <1>3, <1>5, <1>7, <1>8, <1>9, <1>10 DEF WakeInv

\* A new task starts with no permit to remember.
LEMMA StartedWakes ==
    ASSUME TypeOK, WakeInv, NEW c \in Callers, Started(c)
    PROVE  WakeInv'
<1>1. task' = "waiting" /\ woken' = <<>> /\ seen' = 0 /\ handled' = 0 /\ newest' = newest
  BY DEF Started
<1>2. Len(woken') = 0
  BY <1>1, EmptySeq
<1>3. Counted
  BY CallsCounted DEF Registry, InputSaved, At, Started
<1>4. \A d \in Callers : At(d, "accepted")' => call'[d].n <= newest'
  BY <1>1, <1>3 DEF Counted, WakeInv, At
<1> QED
  BY <1>1, <1>2, <1>4 DEF WakeInv

\* The task sees every permit when it wakes, and handles what it saw before it waits again.
LEMMA TaskWakesInv ==
    ASSUME TypeOK, WakeInv, Task
    PROVE  WakeInv'
<1> USE DEF taskOnly, callVars, storeVars, countVars, taskVars
<1>n. seen \in Nat /\ handled \in Nat /\ Len(woken) \in Nat
  BY LenProperties DEF TypeOK
<1>c. UNCHANGED <<call, closed, woken>> /\ Counted
  BY DEF Task, TaskEnds, TaskWakes, ReadPending, WaitLock, NothingWaits, CheckFails, Recover, PrepareFails,
         StartTurn, NoTurnAfterClose, Consume, TurnEnds, TurnFails, Counted
<1>1. CASE TaskEnds \/ WaitLock \/ Recover \/ StartTurn \/ Consume \/ TurnEnds
  BY <1>1, <1>c, WakeFrame DEF TaskEnds, WaitLock, Recover, StartTurn, Consume, TurnEnds
<1>2. CASE TaskWakes
  <2>1. /\ task' = "checking" /\ seen' = Len(woken)
        /\ UNCHANGED <<call, woken, handled, newest, closed, pending, refused>>
    BY <1>2, <1>c DEF TaskWakes
  <2>2. \A d \in Callers : At(d, "accepted")' => call'[d].n <= newest'
    BY <2>1 DEF WakeInv, At
  <2> QED
    BY <1>n, <2>1, <2>2 DEF WakeInv
<1>3. CASE ReadPending
  <2>1. /\ task' \in {"empty", "found"}
        /\ task' = "empty" => pending = {}
        /\ UNCHANGED <<call, woken, seen, handled, newest, closed, pending, refused, wake>>
    BY <1>3, <1>c DEF ReadPending
  <2>2. \A d \in Callers : At(d, "accepted")' => call'[d].n <= newest'
    BY <2>1 DEF WakeInv, At
  <2> QED
    BY <1>n, <2>1, <2>2 DEF WakeInv
<1>4. CASE NothingWaits
  BY <1>4, <1>c, WakeRunEnds DEF NothingWaits, WakeInv
<1>5. CASE NoTurnAfterClose
  BY <1>5, <1>c, WakeRunEnds DEF NoTurnAfterClose
<1>6. CASE CheckFails
  BY <1>6, <1>c, WakeRunEnds DEF CheckFails, RunFails
<1>7. CASE PrepareFails
  BY <1>7, <1>c, WakeRunEnds DEF PrepareFails, RunFails
<1>8. CASE TurnFails
  BY <1>8, <1>c, WakeRunEnds DEF TurnFails, RunFails
<1> QED
  BY <1>1, <1>2, <1>3, <1>4, <1>5, <1>6, <1>7, <1>8 DEF Task

\* Every step keeps the invariant of the wakes.
LEMMA WakeStep ==
    ASSUME IInv, [Next]_vars
    PROVE  WakeInv'
<1> USE DEF registryVars, callVars, taskVars, countVars, storeVars
<1>t. TypeOK /\ WakeInv
  BY DEF IInv, RInv
<1>1. CASE UNCHANGED vars
  BY <1>1, <1>t, WakeFrame DEF vars, Counted
<1>2. CASE Countdown
  <2>1. Counted
    BY <1>2 DEF Countdown, Expire, ExpireReloading, ExpireCancelled, ExpireEnds, Counted
  <2> QED
    BY <1>2, <1>t, <2>1, WakeFrame DEF Countdown, Expire, ExpireReloading, ExpireCancelled, ExpireEnds
<1>3. CASE App
  <2>1. Counted
    BY <1>3 DEF App, CloseAll, CloseAllEnds, Reload, ReloadEnds, Counted
  <2>2. /\ UNCHANGED <<task, wake, woken, seen, handled, newest, refused, pending>>
        /\ closed => closed'
    <3>1. CASE CloseAll
      <4>1. closed' = (closed \/ slot.kind = "open")
        BY <3>1 DEF CloseAll
      <4>2. closed => closed'
        BY <4>1
      <4> QED
        BY <3>1, <4>2 DEF CloseAll
    <3>2. CASE CloseAllEnds \/ Reload \/ ReloadEnds
      BY <3>2 DEF CloseAllEnds, Reload, ReloadEnds
    <3> QED
      BY <1>3, <3>1, <3>2 DEF App
  <2> QED
    BY <1>t, <2>1, <2>2, WakeFrame
<1>4. CASE Task
  BY <1>4, <1>t, TaskWakesInv
<1>5. ASSUME NEW c \in Callers, Registry(c) \/ CallOn(c)
      PROVE  WakeInv'
  <2>1. CASE InputSaved(c)
    BY <1>t, <2>1, SavedWakes
  <2>2. CASE Accepted(c)
    BY <1>t, <2>2, AcceptedWakes
  <2>3. CASE Started(c)
    BY <1>t, <2>3, StartedWakes
  <2>4. CASE ~InputSaved(c) /\ ~Accepted(c) /\ ~Started(c)
    <3>1. Counted
      BY <1>5, <1>t, <2>4, CallsCounted
    <3>2. CASE Registry(c)
      BY <1>t, <2>4, <3>1, <3>2, WakeFrame
         DEF Registry, Open, SessionOpened, OpenFails, Create, Created, CreateFails, StartFails, Ended,
             Undone, Remove, Removed, Delete, Close, Closed
    <3>3. CASE CallOn(c)
      <4>1. CASE Detach(c)
        <5>1. /\ UNCHANGED <<task, closed, woken, seen, handled, newest, refused, pending>>
              /\ wake => wake'
          BY <4>1 DEF Detach
        <5> QED
          BY <1>t, <3>1, <5>1, WakeFrame
      <4>2. CASE ~Detach(c)
        <5>1. UNCHANGED <<task, closed, woken, seen, handled, newest, refused, wake>> /\ pending' \subseteq pending
          BY <2>4, <3>3, <4>2
             DEF CallOn, Attach, Input, Fails, RemoveInput, InputRemoved, Load, Idle, IdleLooks,
                 SetSettings, SettingsRead, SettingsSaved, Begin
        <5> QED
          BY <1>t, <3>1, <5>1, WakeFrame
      <4> QED
        BY <4>1, <4>2
    <3> QED
      BY <1>5, <3>2, <3>3
  <2> QED
    BY <2>1, <2>2, <2>3, <2>4
<1> QED
  BY <1>1, <1>2, <1>3, <1>4, <1>5 DEF Next

-----------------------------------------------------------------------------
(* The theorems *)

LEMMA InitHolds == Init => IInv
<1> SUFFICES ASSUME Init
             PROVE  IInv
  OBVIOUS
<1> USE DEF Init
<1>1. NoSlot \in Slot /\ NoSlot.kind = "none" /\ NoSlot.armed = FALSE /\ NoSlot = SlotOf("none")
  BY Slots
<1>2. NoCall \in CallOf /\ NoCall.op = "none"
  BY DEF NoCall, CallOf, Ops
<1>3. \A c \in Callers : call[c] = NoCall
  OBVIOUS
<1>4. woken \in Seq(Nat) /\ Len(woken) = 0
  BY EmptySeq
<1>5. newest \in Nat /\ pending \subseteq Nat
  OBVIOUS
<1>6. TypeOK
  BY <1>1, <1>2, <1>4, <1>5 DEF TypeOK, TaskSteps
<1>7. LeaseKeeps
  BY <1>1, <1>2, <1>3 DEF LeaseKeeps, Leased, Owners, At
<1>8. Transitions
  BY <1>2, <1>3 DEF Transitions, At
<1>9. Counts
  BY <1>1 DEF Counts
<1>10. TaskInv
  BY DEF TaskInv
<1>11. WakeInv
  BY <1>2, <1>3, <1>4 DEF WakeInv, At
<1> QED
  BY <1>6, <1>7, <1>8, <1>9, <1>10, <1>11 DEF IInv, RInv

LEMMA StepHolds == IInv /\ [Next]_vars => IInv'
  BY RegistryStep, WakeStep DEF IInv

LEMMA Inductive == Spec => []IInv
  BY InitHolds, StepHolds, PTL DEF Spec

\* The slot of a session tells the truth (sessions.rs:71, 83, 176, 189, 199, 449, 578, 719, live.rs:296):
\* its count is the number of the attachments of this open, its countdown runs only while nobody holds
\* the session and no turn runs, an open session is in the store, and no task lives without a slot.
THEOREM SlotsTrue == Spec => []SlotTrue
<1>1. IInv => SlotTrue
  BY DEF IInv, RInv, LeaseKeeps, Leased, Counts, TaskInv, SlotTrue, Held
<1> QED
  BY <1>1, Inductive, PTL

\* An input that the open session accepted never waits beside an idle task (live.rs:1040, 724).
THEOREM NoWakeIsLost == Spec => []NoLostWake
<1>1. IInv => NoLostWake
  <2> SUFFICES ASSUME IInv, task = "waiting", ~closed, ~wake
               PROVE  \A k \in 1 .. Len(woken) : woken[k] \in pending => woken[k] \in refused
    BY DEF NoLostWake
  <2>1. seen = Len(woken)
    BY LenProperties DEF IInv, WakeInv, RInv, TypeOK
  <2> QED
    BY <2>1 DEF IInv, WakeInv
<1> QED
  BY <1>1, Inductive, PTL

\* idle returns before the close only when no turn runs and each input before the call left, or a
\* failed turn left it (live.rs:116).
THEOREM IdleTellsTruth == Spec => IdleTells
<1>1. IInv /\ [Next]_vars => [IdleAnswer]_vars
  <2> SUFFICES ASSUME IInv, Next, NEW c \in Callers, call[c].op = "idle", call'[c].op = "none", ~closed
               PROVE  /\ ~turn
                      /\ \A k \in 1 .. call[c].n : woken[k] \in pending => woken[k] \in refused
    BY DEF IdleAnswer
  <2>t. TypeOK
    BY DEF IInv, RInv
  <2>1. PICK d \in Callers : Registry(d) \/ CallOn(d)
    BY DEF Next, Countdown, Expire, ExpireReloading, ExpireCancelled, ExpireEnds, App, CloseAll,
           CloseAllEnds, Reload, ReloadEnds, Task, TaskEnds, TaskWakes, ReadPending, WaitLock,
           NothingWaits, CheckFails, Recover, PrepareFails, StartTurn, NoTurnAfterClose, Consume, TurnEnds,
           TurnFails, taskOnly, callVars
  <2>2. c = d
    <3>1. call' = call \/ \E v : call' = [call EXCEPT ![d] = v]
      BY <2>1 DEF Registry, CallOn, Open, SessionOpened, OpenFails, Create, Created, CreateFails, Started,
             StartFails, Ended, Undone, Remove, Removed, Close, Closed, Attach, Detach, Input, InputSaved,
             Accepted, Fails, RemoveInput, InputRemoved, Load, Idle, IdleLooks, SetSettings, SettingsRead,
             SettingsSaved, Begin, Go, Return, callVars
    <3> QED
      BY <2>t, <3>1 DEF TypeOK
  <2>3. IdleLooks(c)
    BY <2>1, <2>2 DEF Registry, CallOn, Open, SessionOpened, OpenFails, Create, Created, CreateFails,
           Started, StartFails, Ended, Undone, Remove, Removed, Close, Closed, Attach, Detach, Input,
           InputSaved, Accepted, Fails, RemoveInput, InputRemoved, Load, Idle, SetSettings, SettingsRead,
           SettingsSaved, Begin, At, callVars
  <2>4. handled >= call[c].n /\ ~turn
    BY <2>3 DEF IdleLooks
  <2>5. call[c].n \in Nat /\ handled \in Nat
    BY <2>t DEF TypeOK, CallOf
  <2>6. \A k \in 1 .. call[c].n : k \in 1 .. handled
    BY <2>4, <2>5
  <2> QED
    BY <2>4, <2>6 DEF IInv, WakeInv
<1> QED
  BY <1>1, Inductive, PTL DEF IdleTells, Spec
=============================================================================
