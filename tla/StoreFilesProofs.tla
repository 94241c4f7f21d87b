-------------------------- MODULE StoreFilesProofs --------------------------
(***************************************************************************)
(* Theorems about StoreFiles, for any number of processes, sessions, blobs *)
(* and faults, and any mix of calls but those of the disagreements.        *)
(***************************************************************************)
EXTENDS StoreFiles, Sequences, WellFoundedInduction, TLAPS

Ops == {"none", "create", "fork", "open", "delete", "put", "sweep"}
AllSteps == {"none", "insert", "point", "ensure", "next", "mkdir", "lock", "own", "copy", "copy_rows", "load",
             "delete_rows", "unlock", "undo_rows", "remove", "write"}
CallOf == [op : Ops, step : AllSteps, id : Sessions \cup {"none"}, source : Sessions \cup {"none"},
           cut : SUBSET Blobs]

\* A call that a process may make: its steps, and what it works on
WellFormed(c) ==
    /\ c.op = "none" => c = NoCall
    /\ c.step = "none" => c = NoCall
    /\ c.step \notin {"none", "next"} => c.id \in Sessions
    /\ c.op = "fork" => c.source \in Sessions
    /\ c.step = "insert" => c.op = "create"
    /\ c.step \in {"point", "copy", "copy_rows"} => c.op = "fork"
    /\ c.step = "ensure" => c.op \in {"open", "delete", "put"}
    /\ c.step = "next" => c.op = "sweep"
    /\ c.step \in {"mkdir", "lock"} => c.op \in {"create", "fork", "open", "delete", "sweep"}
    /\ c.step = "load" => c.op \in {"fork", "open"}
    /\ c.step = "own" => c.op \in {"create", "fork", "open"}
    /\ c.step = "delete_rows" => c.op = "delete"
    /\ c.step = "unlock" => c.op \in {"delete", "sweep"}
    /\ c.step = "undo_rows" => c.op \in {"create", "fork"}
    /\ c.step = "remove" => c.op \in {"create", "fork", "delete", "sweep"}
    /\ c.step = "write" => c.op = "put"

TypeOK ==
    /\ rows \subseteq Sessions /\ used \subseteq Sessions /\ folders \subseteq Sessions
    /\ named \in [Sessions -> SUBSET Blobs]
    /\ ready \subseteq Sessions \X Blobs
    /\ files \in [Sessions -> SUBSET (Blobs \cup {"lock"})]
    /\ locked \subseteq Procs \X Sessions /\ lease \subseteq Procs \X Sessions
    /\ call \in [Procs -> CallOf] /\ \A p \in Procs : WellFormed(call[p])
    /\ listed \in [Procs -> SUBSET Sessions]
    /\ faults \in Nat

\* The calls are those of the workload, and only a sweep has folders to check.
Allowed ==
    \A p \in Procs :
        /\ call[p].op # "none" => call[p].op \in workload.calls
        /\ listed[p] # {} => "sweep" \in workload.calls

\* The call of `q` works on the session `s`, copies it, or will check its folder.
Refers(q, s) ==
    \/ call[q].step \notin {"none", "next"} /\ call[q].id = s
    \/ call[q].op = "fork" /\ call[q].source = s
    \/ s \in listed[q]

\* Nothing saved names `s`, and none of `group` knows of it.
Unknown(s, group) ==
    /\ s \notin rows /\ named[s] = {}
    /\ \A r \in ready : r[1] # s
    /\ \A l \in lease : l[2] # s
    /\ \A q \in group : <<q, s>> \notin locked /\ ~Refers(q, s)

\* A creation that has not saved its rows yet
Unborn(p) ==
    \/ At(p, "insert")
    \/ call[p].op = "fork" /\ call[p].step \in {"point", "mkdir", "lock", "copy", "copy_rows"}

NewInv ==
    /\ \A s \in Sessions \ used : Unknown(s, Procs) /\ s \notin folders
    /\ \A p \in Procs : Unborn(p) =>
         /\ Unknown(Id(p), Procs \ {p}) /\ Id(p) \in used
         /\ Id(p) \notin listed[p]
         /\ At(p, "insert") => Id(p) \notin folders

\* What is removed has no row, and will have none.
RemoveInv ==
    \A p \in Procs :
        call[p].step \in {"unlock", "remove"} \/ (call[p].op = "sweep" /\ call[p].step \in {"mkdir", "lock"})
            => Id(p) \notin rows

\* The work under a lock holds it while its session has a row, and so does an owner.
Working == {"copy", "copy_rows", "load", "own", "delete_rows"}
LockInv ==
    /\ \A k, l \in locked : k[2] = l[2] => k = l
    /\ \A l \in lease : l[2] \in rows => l \in locked
    /\ \A p \in Procs : call[p].step \in Working /\ (Id(p) \in rows \/ Unborn(p)) =>
         <<p, Id(p)>> \in locked /\ <<p, Id(p)>> \notin lease

\* The blobs of a fork are in the folder of its source until they are in its own.
BlobInv ==
    /\ BlobsKept
    /\ \A r \in ready : r[1] \in rows => r[2] \in files[r[1]]
    /\ \A p \in Procs : call[p].op = "fork" /\ call[p].source \in rows =>
         /\ call[p].step \in {"mkdir", "lock", "copy"} => call[p].cut \subseteq named[call[p].source]
         /\ At(p, "copy_rows") => call[p].cut \subseteq files[Id(p)]

\* The calls that agree: no sweep starts beside a fork.
NoForkSweep == ~({"fork", "sweep"} \subseteq workload.calls)
KInv == NewInv /\ RemoveInv /\ LockInv /\ BlobInv
IInv == TypeOK /\ Allowed /\ (NoForkSweep => KInv)

\* And no creation that can fail beside an open.
NoCreateOpen ==
    "open" \in workload.calls =>
        /\ "create" \notin workload.calls
        /\ "fork" \in workload.calls => workload.faults = 0
OwnerInv ==
    /\ \A p, q \in Procs :
         call[p].op \in {"create", "fork"} /\ call[q].op \in {"create", "fork"} /\ p # q => Id(p) # Id(q)
    /\ "open" \notin workload.calls =>
         \A p \in Procs : call[p].op \in {"create", "fork"} => \A l \in lease : l[2] # Id(p)
    /\ workload.faults = 0 =>
         \A p \in Procs : call[p].op = "fork" /\ At(p, "undo_rows") => Id(p) \notin rows

-----------------------------------------------------------------------------
(* Lemmas about the calls *)

\* Only the call of `p` changes.
Others(p) ==
    /\ call' \in [Procs -> CallOf]
    /\ \A q \in Procs : q # p => call'[q] = call[q]

\* A call that goes on changes its step alone.
LEMMA Goes ==
    ASSUME TypeOK, NEW p \in Procs, NEW step \in AllSteps, Go(p, step)
    PROVE  /\ Others(p)
           /\ call'[p].step = step /\ call'[p].op = call[p].op /\ call'[p].id = call[p].id
           /\ call'[p].source = call[p].source /\ call'[p].cut = call[p].cut
<1>1. call \in [Procs -> CallOf] /\ call[p] \in CallOf
  BY DEF TypeOK
<1>2. [call[p] EXCEPT !.step = step] \in CallOf
  BY <1>1 DEF CallOf
<1>3. call' = [call EXCEPT ![p] = [call[p] EXCEPT !.step = step]]
  BY DEF Go
<1>4. call'[p] = [call[p] EXCEPT !.step = step]
  BY <1>1, <1>3
<1>5. /\ call'[p].step = step /\ call'[p].op = call[p].op /\ call'[p].id = call[p].id
      /\ call'[p].source = call[p].source /\ call'[p].cut = call[p].cut
  BY <1>1, <1>4 DEF CallOf
<1> QED
  BY <1>1, <1>2, <1>3, <1>5 DEF Others

\* A new call, or none, replaces the call of its process.
LEMMA Starts ==
    ASSUME TypeOK, NEW p \in Procs, NEW c \in CallOf, call' = [call EXCEPT ![p] = c]
    PROVE  Others(p) /\ call'[p] = c
<1>1. call \in [Procs -> CallOf]
  BY DEF TypeOK
<1> QED
  BY <1>1 DEF Others

\* The fields of a new call and of none
LEMMA Calls ==
    /\ NoCall \in CallOf /\ NoCall.op = "none" /\ NoCall.step = "none" /\ WellFormed(NoCall)
    /\ \A op \in Ops, step \in AllSteps, s \in Sessions \cup {"none"} :
         /\ New(op, step, s) \in CallOf
         /\ New(op, step, s).op = op /\ New(op, step, s).step = step /\ New(op, step, s).id = s
         /\ New(op, step, s).source = "none" /\ New(op, step, s).cut = {}
<1>1. NoCall \in CallOf /\ NoCall.op = "none" /\ NoCall.step = "none"
  BY DEF NoCall, CallOf, Ops, AllSteps
<1>2. WellFormed(NoCall)
  BY <1>1 DEF WellFormed
<1> QED
  BY <1>1, <1>2 DEF New, CallOf

\* The call of `p` is over, or what is left of it undoes its rows.
Ends(p) ==
    /\ Others(p)
    /\ \/ call'[p] = NoCall
       \/ call[p].op = "sweep" /\ call'[p] = New("sweep", "next", "none")
       \/ /\ call[p].op \in {"create", "fork"} /\ call[p].step \notin {"none", "next"}
          /\ call'[p].step = "undo_rows" /\ call'[p].op = call[p].op /\ call'[p].id = call[p].id
          /\ call'[p].source = call[p].source /\ call'[p].cut = call[p].cut

\* A call that returns ends.
LEMMA ReturnEnds ==
    ASSUME TypeOK, NEW p \in Procs, Return(p)
    PROVE  Ends(p) /\ call'[p] = NoCall
<1>1. Others(p) /\ call'[p] = NoCall
  BY Starts, Calls DEF Return
<1> QED
  BY <1>1 DEF Ends

\* A call that fails ends.
LEMMA ErrorEnds ==
    ASSUME TypeOK, NEW p \in Procs, NEW owned, call[p].step \notin {"none", "next"}, AfterError(p, owned)
    PROVE  Ends(p)
<1>1. CASE call[p].op \in {"create", "fork"}
  <2>1. Go(p, "undo_rows")
    BY <1>1 DEF AfterError
  <2> QED
    BY <1>1, <2>1, Goes DEF Ends, AllSteps
<1>2. CASE call[p].op = "sweep" /\ call' = [call EXCEPT ![p] = New("sweep", "next", "none")]
  <2>1. New("sweep", "next", "none") \in CallOf
    BY Calls DEF Ops, AllSteps
  <2> QED
    BY <1>2, <2>1, Starts DEF Ends
<1>3. CASE Return(p)
  BY <1>3, ReturnEnds
<1> QED
  BY <1>1, <1>2, <1>3 DEF AfterError

\* A call that ends is well formed, refers to nothing new, and works on nothing.
LEMMA EndsWell ==
    ASSUME TypeOK, NEW p \in Procs, Ends(p)
    PROVE  /\ WellFormed(call'[p])
           /\ call'[p].step \in {"none", "next", "undo_rows"}
           /\ call'[p].op # "none" => call'[p].op = call[p].op
           /\ call'[p].step \notin {"none", "next"} => call'[p].id = call[p].id /\ call[p].step \notin {"none", "next"}
           /\ call'[p].op = "fork" => call'[p].source = call[p].source /\ call[p].op = "fork"
<1>1. CASE call'[p] = NoCall
  BY <1>1, Calls
<1>2. CASE call[p].op = "sweep" /\ call'[p] = New("sweep", "next", "none")
  <2>1. call'[p].op = "sweep" /\ call'[p].step = "next"
    BY <1>2, Calls DEF Ops, AllSteps
  <2> QED
    BY <1>2, <2>1 DEF WellFormed
<1>3. CASE /\ call[p].op \in {"create", "fork"} /\ call[p].step \notin {"none", "next"}
           /\ call'[p].step = "undo_rows" /\ call'[p].op = call[p].op /\ call'[p].id = call[p].id
           /\ call'[p].source = call[p].source /\ call'[p].cut = call[p].cut
  BY <1>3 DEF TypeOK, WellFormed
<1> QED
  BY <1>1, <1>2, <1>3 DEF Ends

-----------------------------------------------------------------------------
(* What a step keeps that saves no rows and begins no call *)

\* The call of `p` works on a session.
Works(p) == call[p].step \notin {"none", "next"}

\* It changes what is saved and the folders only for its own session.
Shared(p) ==
    /\ \A q \in Procs : listed'[q] \subseteq listed[q]
    /\ rows' \subseteq rows /\ used' = used /\ named' = named /\ workload' = workload
    /\ lease' \subseteq lease \cup {<<p, Id(p)>>} /\ (lease' \subseteq lease \/ (~Unborn(p) /\ Works(p)))
    /\ \A r \in ready' : r \in ready \/ (Works(p) /\ ~Unborn(p) /\ r[1] = Id(p) /\ r[2] \in files'[Id(p)])
    /\ \A f \in folders' : f \in folders \/ (Works(p) /\ f = Id(p))
    /\ \A l \in locked' : l \in locked \/ (Works(p) /\ l = <<p, Id(p)>>)
    /\ \A s \in Sessions : files[s] \subseteq files'[s] \/ (At(p, "remove") /\ s = Id(p))

\* And its call learns of no session.
Frame(p) ==
    /\ Others(p) /\ Shared(p)
    /\ \A s \in Sessions : Refers(p, s)' => Refers(p, s)
    /\ Unborn(p)' =>
         /\ Unborn(p) /\ call'[p].step # "insert"
         /\ call'[p].id = call[p].id

\* Nobody learns of a session that has no row yet.
LEMMA FrameNew ==
    ASSUME TypeOK, NewInv, NEW p \in Procs, Frame(p)
    PROVE  NewInv'
<1>1. \A q \in Procs, s \in Sessions : Refers(q, s)' => Refers(q, s)
  <2> SUFFICES ASSUME NEW q \in Procs, NEW s \in Sessions, Refers(q, s)'
               PROVE  Refers(q, s)
    OBVIOUS
  <2>1. CASE q = p
    BY <2>1 DEF Frame, Shared
  <2>2. CASE q # p
    BY <2>2 DEF Frame, Shared, Others, Refers
  <2> QED
    BY <2>1, <2>2
\* A session that nobody but `group` knows of stays so.
<1>2. ASSUME NEW s \in Sessions, NEW group \in SUBSET Procs, Unknown(s, group),
             Works(p) /\ ~Unborn(p) => Id(p) # s, p \in group /\ Works(p) => Id(p) # s
      PROVE  Unknown(s, group)'
  <2>1. s \notin rows' /\ named'[s] = {} /\ \A r \in ready' : r[1] # s
    BY <1>2 DEF Unknown, Frame, Shared
  <2>2. \A l \in lease' : l[2] # s
    BY <1>2 DEF Unknown, Frame, Shared
  <2>3. \A q \in group : <<q, s>> \notin locked' /\ ~Refers(q, s)'
    BY <1>1, <1>2 DEF Unknown, Frame, Shared
  <2> QED
    BY <2>1, <2>2, <2>3 DEF Unknown
<1>3. ASSUME NEW s \in Sessions, s \notin used'
      PROVE  Unknown(s, Procs)' /\ s \notin folders'
  <2>1. Unknown(s, Procs) /\ s \notin folders
    BY <1>3 DEF Frame, Shared, NewInv
  <2>2. Works(p) => Id(p) # s
    BY <2>1 DEF Unknown, Refers, Works, Id
  <2> QED
    BY <1>2, <2>1, <2>2 DEF Frame, Shared
<1>4. ASSUME NEW q \in Procs, Unborn(q)'
      PROVE  /\ Unknown(Id(q), Procs \ {q})' /\ Id(q)' \in used'
             /\ Id(q)' \notin listed'[q]
             /\ At(q, "insert")' => Id(q)' \notin folders'
  <2>1. /\ Unborn(q) /\ Id(q)' = Id(q)
        /\ At(q, "insert")' => At(q, "insert") /\ q # p
    BY <1>4 DEF Frame, Shared, Others, Unborn, At, Id
  <2>2. /\ Unknown(Id(q), Procs \ {q}) /\ Id(q) \in used
        /\ Id(q) \notin listed[q]
        /\ At(q, "insert") => Id(q) \notin folders
    BY <2>1 DEF NewInv
  <2>3. q # p /\ Works(p) => Id(p) # Id(q)
    BY <2>2 DEF Unknown, Refers, Works, Id
  <2>4. Id(q) \in Sessions
    BY <2>2 DEF TypeOK
  <2>5. Unknown(Id(q), Procs \ {q})'
    BY <1>2, <2>1, <2>2, <2>3, <2>4
  <2>6. At(q, "insert")' => Id(q) \notin folders'
    BY <2>1, <2>2, <2>3 DEF Frame, Shared
  <2> QED
    BY <2>1, <2>2, <2>5, <2>6 DEF Frame, Shared
<1> QED
  BY <1>3, <1>4 DEF NewInv

\* What is removed stays without a row.
LEMMA FrameRemove ==
    ASSUME TypeOK, RemoveInv, NEW p \in Procs, Frame(p),
           call'[p].step \in {"unlock", "remove"} \/ (call'[p].op = "sweep" /\ call'[p].step \in {"mkdir", "lock"})
               => call'[p].id \notin rows'
    PROVE  RemoveInv'
BY DEF RemoveInv, Frame, Shared, Others, Id

\* The locks that a step takes away guarded nothing.
LEMMA FrameLock ==
    ASSUME TypeOK, NewInv, LockInv, NEW p \in Procs, Frame(p), lease' \subseteq lease, locked' \subseteq locked,
           \A l \in locked \ locked' : l[2] \in rows' => l[1] = p /\ l \notin lease',
           \A l \in locked \ locked' : l[1] = p \/ (At(p, "remove") /\ l[2] = Id(p)),
           call'[p].step \in Working /\ (call'[p].id \in rows' \/ Unborn(p)') =>
               <<p, call'[p].id>> \in locked' /\ <<p, call'[p].id>> \notin lease'
    PROVE  LockInv'
<1>1. \A k, l \in locked' : k[2] = l[2] => k = l
  BY DEF LockInv
<1>2. \A l \in lease' : l[2] \in rows' => l \in locked'
  <2> SUFFICES ASSUME NEW l \in lease', l[2] \in rows'
               PROVE  l \in locked'
    OBVIOUS
  <2> QED
    BY DEF LockInv, Frame, Shared
<1>3. ASSUME NEW q \in Procs, q # p, call'[q].step \in Working, Id(q)' \in rows' \/ Unborn(q)'
      PROVE  <<q, Id(q)'>> \in locked' /\ <<q, Id(q)'>> \notin lease'
  <2>1. call'[q] = call[q] /\ Id(q)' = Id(q)
    BY <1>3 DEF Frame, Shared, Others, Id
  <2>2. Id(q) \in rows \/ Unborn(q)
    BY <1>3, <2>1 DEF Frame, Shared, Unborn, At
  <2>3. <<q, Id(q)>> \in locked /\ <<q, Id(q)>> \notin lease
    BY <1>3, <2>1, <2>2 DEF LockInv
  <2>4. Id(q) \in rows' => <<q, Id(q)>> \in locked'
    BY <1>3, <2>3
  <2>5. ASSUME Unborn(q), <<q, Id(q)>> \notin locked'
        PROVE  FALSE
    <3>1. At(p, "remove") /\ Id(q) = Id(p)
      BY <1>3, <2>3, <2>5
    <3>2. ~Refers(p, Id(q))
      BY <1>3, <2>5 DEF NewInv, Unknown
    <3> QED
      BY <3>1, <3>2 DEF Refers, At, Id
  <2> QED
    BY <1>3, <2>1, <2>3, <2>4, <2>5 DEF Unborn, At
<1> QED
  BY <1>1, <1>2, <1>3 DEF LockInv, Id

\* A lock that a step takes guards the session that no other holds.
LEMMA FrameTake ==
    ASSUME TypeOK, LockInv, NEW p \in Procs, Frame(p), lease' = lease, rows' = rows,
           ~Locked(Id(p)), locked' = locked \cup {<<p, Id(p)>>},
           call'[p].id = Id(p), Unborn(p) => \A l \in lease : l[2] # Id(p)
    PROVE  LockInv'
<1>1. ASSUME NEW l \in locked, l[2] = Id(p)
      PROVE  FALSE
  <2>1. l[1] \in Procs /\ l = <<l[1], Id(p)>>
    BY <1>1 DEF TypeOK
  <2> QED
    BY <2>1 DEF Locked
<1>2. \A l \in lease : l[2] = Id(p) => Id(p) \notin rows /\ ~Unborn(p)
  BY <1>1 DEF LockInv
<1>3. Unborn(p)' => Unborn(p)
  BY DEF Frame, Shared
<1>4. \A k, l \in locked' : k[2] = l[2] => k = l
  BY <1>1 DEF LockInv
<1>5. \A l \in lease' : l[2] \in rows' => l \in locked'
  BY DEF LockInv
<1>6. ASSUME NEW q \in Procs, call'[q].step \in Working, Id(q)' \in rows' \/ Unborn(q)'
      PROVE  <<q, Id(q)'>> \in locked' /\ <<q, Id(q)'>> \notin lease'
  <2>1. CASE q = p
    <3>1. Id(q)' = Id(p) /\ (Id(p) \in rows \/ Unborn(p))
      BY <1>3, <1>6, <2>1 DEF Id
    <3> QED
      BY <1>2, <2>1, <3>1
  <2>2. CASE q # p
    <3>1. call'[q] = call[q] /\ Id(q)' = Id(q) /\ (Unborn(q)' => Unborn(q))
      BY <2>2 DEF Frame, Shared, Others, Id, Unborn, At
    <3> QED
      BY <1>6, <3>1 DEF LockInv
  <2> QED
    BY <2>1, <2>2
<1> QED
  BY <1>4, <1>5, <1>6 DEF LockInv, Id

\* No named blob of a session with a row, and none of a copy, leaves its folder.
LEMMA FrameBlobs ==
    ASSUME TypeOK, NewInv, RemoveInv, BlobInv, NEW p \in Procs, Frame(p),
           call'[p].op = "fork" => call[p].op = "fork" /\ call'[p].source = call[p].source /\ call'[p].id = call[p].id,
           call'[p].op = "fork" /\ call[p].source \in rows =>
               /\ call'[p].step \in {"mkdir", "lock", "copy"} => call'[p].cut \subseteq named[call[p].source]
               /\ call'[p].step = "copy_rows" => call'[p].cut \subseteq files'[Id(p)]
    PROVE  BlobInv'
<1>1. \A s \in rows : files[s] \subseteq files'[s]
  BY DEF Frame, Shared, RemoveInv, At, Id, TypeOK
<1>2. BlobsKept'
  BY <1>1 DEF BlobInv, BlobsKept, Frame, Shared, TypeOK
<1>3. \A r \in ready' : r[1] \in rows' => r[2] \in files'[r[1]]
  BY <1>1 DEF BlobInv, Frame, Shared
<1>4. ASSUME NEW q \in Procs, call'[q].op = "fork", call'[q].source \in rows'
      PROVE  /\ call'[q].step \in {"mkdir", "lock", "copy"} => call'[q].cut \subseteq named'[call'[q].source]
             /\ At(q, "copy_rows")' => call'[q].cut \subseteq files'[Id(q)']
  <2>1. CASE q = p
    BY <1>4, <2>1 DEF Frame, Shared, At, Id
  <2>2. CASE q # p
    <3>1. call'[q] = call[q] /\ Id(q)' = Id(q) /\ call[q].source \in rows
      BY <1>4, <2>2 DEF Frame, Shared, Others, Id
    <3>2. ASSUME At(q, "copy_rows")
          PROVE  files[Id(q)] \subseteq files'[Id(q)]
      <4>1. Unborn(q) /\ Id(q) \in Sessions
        BY <1>4, <3>1, <3>2 DEF Unborn, At, TypeOK, WellFormed, Id
      <4>2. ~Refers(p, Id(q))
        BY <2>2, <4>1 DEF NewInv, Unknown
      <4>3. At(p, "remove") => Id(p) # Id(q)
        BY <4>2 DEF Refers, At, Id
      <4> QED
        BY <4>1, <4>3 DEF Frame, Shared
    <3> QED
      BY <1>4, <3>1, <3>2 DEF BlobInv, Frame, Shared, At
  <2> QED
    BY <2>1, <2>2
<1> QED
  BY <1>2, <1>3, <1>4 DEF BlobInv

-----------------------------------------------------------------------------
(* The types *)

\* Each step makes of the call of its process a well-formed call of the workload.
CallSteps(p) ==
    /\ Others(p) /\ WellFormed(call'[p])
    /\ call'[p].op \in {"none", call[p].op} \cup workload.calls

\* A call that goes on with a step of its operation stays well formed.
LEMMA GoSteps ==
    ASSUME TypeOK, Allowed, NEW p \in Procs, NEW step \in AllSteps, Go(p, step), call[p].step \notin {"none", "next"},
           <<call[p].op, step>> \in
               ({"create", "fork", "open"} \X {"own"}) \cup ({"fork", "open"} \X {"load"})
               \cup ({"create", "fork", "open", "delete", "sweep"} \X {"mkdir", "lock"})
               \cup ({"fork"} \X {"copy", "copy_rows"}) \cup ({"delete"} \X {"delete_rows"})
               \cup ({"delete", "sweep"} \X {"unlock"}) \cup ({"create", "fork"} \X {"undo_rows"})
               \cup ({"create", "fork", "delete", "sweep"} \X {"remove"}) \cup ({"put"} \X {"write"})
    PROVE  CallSteps(p)
<1>1. /\ Others(p)
      /\ call'[p].step = step /\ call'[p].op = call[p].op /\ call'[p].id = call[p].id
      /\ call'[p].source = call[p].source
  BY Goes
<1>2. WellFormed(call[p]) /\ call[p].op # "none" /\ step \notin {"none", "next"}
  BY DEF TypeOK
<1>3. WellFormed(call'[p])
  BY <1>1, <1>2 DEF WellFormed
<1> QED
  BY <1>1, <1>3 DEF CallSteps

\* A call that ends stays well formed.
LEMMA EndSteps ==
    ASSUME TypeOK, NEW p \in Procs, Ends(p)
    PROVE  CallSteps(p)
BY EndsWell DEF CallSteps, Ends

\* A call after its lock
LEMMA AfterLocks ==
    /\ AfterLock["create"] = "own" /\ AfterLock["fork"] = "copy" /\ AfterLock["open"] = "load"
    /\ AfterLock["delete"] = "delete_rows" /\ AfterLock["sweep"] = "unlock"
BY DEF AfterLock

\* Each step of a process makes a well-formed call of it.
LEMMA StepCalls ==
    ASSUME TypeOK, Allowed, NEW p \in Procs, Step(p)
    PROVE  CallSteps(p)
<1>w. call \in [Procs -> CallOf] /\ WellFormed(call[p]) /\ call[p] \in CallOf
  BY DEF TypeOK
<1>n. /\ \A s \in Sessions \cup {"none"}, step \in AllSteps : New("sweep", step, s) \in CallOf
      /\ New("sweep", "next", "none").op = "sweep" /\ New("sweep", "next", "none").step = "next"
  BY Calls DEF Ops, AllSteps
<1>same. ASSUME call' = call
         PROVE  CallSteps(p)
  BY <1>w, <1>same DEF CallSteps, Others
<1>next. ASSUME call' = [call EXCEPT ![p] = New("sweep", "next", "none")], call[p].op = "sweep"
         PROVE  CallSteps(p)
  <2>1. Others(p) /\ call'[p] = New("sweep", "next", "none")
    BY <1>n, <1>next, Starts DEF AllSteps
  <2> QED
    BY <1>n, <1>next, <2>1 DEF CallSteps, WellFormed
<1>ret. ASSUME Return(p)
        PROVE  CallSteps(p)
  BY <1>ret, ReturnEnds, EndSteps
<1>err. ASSUME NEW owned, AfterError(p, owned), call[p].step \notin {"none", "next"}
        PROVE  CallSteps(p)
  BY <1>err, ErrorEnds, EndSteps
<1>1. CASE Begin(p)
  <2>1. ASSUME NEW s \in Sessions, call' = [call EXCEPT ![p] = New("create", "insert", s)], "create" \in workload.calls
        PROVE  CallSteps(p)
    <3>1. /\ New("create", "insert", s) \in CallOf /\ New("create", "insert", s).op = "create"
          /\ New("create", "insert", s).step = "insert" /\ New("create", "insert", s).id = s
      BY Calls DEF Ops, AllSteps
    <3>2. WellFormed(New("create", "insert", s))
      BY <3>1 DEF WellFormed
    <3> QED
      BY <2>1, <3>1, <3>2, Starts DEF CallSteps
  <2>2. ASSUME NEW s \in Sessions, NEW source \in Sessions, "fork" \in workload.calls,
               call' = [call EXCEPT ![p] = [New("fork", "point", s) EXCEPT !.source = source]]
        PROVE  CallSteps(p)
    <3> DEFINE new == [New("fork", "point", s) EXCEPT !.source = source]
    <3>1. /\ New("fork", "point", s) \in CallOf /\ New("fork", "point", s).op = "fork"
          /\ New("fork", "point", s).step = "point" /\ New("fork", "point", s).id = s
      BY Calls DEF Ops, AllSteps
    <3>2. new \in CallOf /\ new.op = "fork" /\ new.step = "point" /\ new.id = s /\ new.source = source
      BY <3>1 DEF CallOf
    <3> HIDE DEF new
    <3>3. WellFormed(new)
      BY <3>2 DEF WellFormed
    <3>4. Others(p) /\ call'[p] = new
      BY <2>2, <3>2, Starts DEF new
    <3> QED
      BY <2>2, <3>2, <3>3, <3>4 DEF CallSteps
  <2>3. ASSUME NEW op \in workload.calls \cap {"open", "delete", "put"}, NEW s \in Sessions,
               call' = [call EXCEPT ![p] = New(op, "ensure", s)]
        PROVE  CallSteps(p)
    <3>1. /\ New(op, "ensure", s) \in CallOf /\ New(op, "ensure", s).op = op
          /\ New(op, "ensure", s).step = "ensure" /\ New(op, "ensure", s).id = s
      BY Calls DEF Ops, AllSteps
    <3>2. WellFormed(New(op, "ensure", s))
      BY <3>1 DEF WellFormed
    <3> QED
      BY <2>3, <3>1, <3>2, Starts DEF CallSteps
  <2> QED
    BY <1>1, <2>1, <2>2, <2>3 DEF Begin, TypeOK
<1>2. CASE BeginSweep(p)
  <2>1. call' = [call EXCEPT ![p] = New("sweep", "next", "none")] /\ "sweep" \in workload.calls
    BY <1>2 DEF BeginSweep
  <2>2. Others(p) /\ call'[p] = New("sweep", "next", "none")
    BY <1>n, <2>1, Starts DEF AllSteps
  <2> QED
    BY <1>n, <2>1, <2>2 DEF CallSteps, WellFormed
<1>3. CASE SweepNext(p)
  <2>1. PICK s \in listed[p] :
          call' = [call EXCEPT ![p] = IF s \in rows THEN New("sweep", "next", "none") ELSE New("sweep", "mkdir", s)]
    BY <1>3 DEF SweepNext
  <2>2. call[p].op = "sweep" /\ s \in Sessions
    BY <1>3, <1>w DEF SweepNext, At, WellFormed, TypeOK
  <2>3. CASE s \in rows
    BY <1>next, <2>1, <2>2, <2>3
  <2>4. CASE s \notin rows
    <3>1. /\ New("sweep", "mkdir", s) \in CallOf /\ New("sweep", "mkdir", s).op = "sweep"
          /\ New("sweep", "mkdir", s).step = "mkdir" /\ New("sweep", "mkdir", s).id = s
      BY <2>2, Calls DEF Ops, AllSteps
    <3>2. WellFormed(New("sweep", "mkdir", s))
      BY <2>2, <3>1 DEF WellFormed
    <3> QED
      BY <2>1, <2>2, <2>4, <3>1, <3>2, Starts DEF CallSteps
  <2> QED
    BY <2>3, <2>4
<1>4. CASE ForkPoint(p)
  <2>1. CASE call[p].source \in rows
    <3> DEFINE new == [call[p] EXCEPT !.step = "mkdir", !.cut = named[call[p].source]]
    <3>1. call[p].op = "fork" /\ call[p].id \in Sessions /\ call[p].source \in Sessions
      BY <1>4, <1>w DEF ForkPoint, At, WellFormed
    <3>2. call' = [call EXCEPT ![p] = new]
      BY <1>4, <2>1, <1>w DEF ForkPoint
    <3>3. new \in CallOf /\ new.op = "fork" /\ new.step = "mkdir" /\ new.id = call[p].id /\ new.source = call[p].source
      BY <1>w, <3>1 DEF CallOf, AllSteps, TypeOK
    <3> HIDE DEF new
    <3>4. WellFormed(new)
      BY <3>1, <3>3 DEF WellFormed
    <3>5. Others(p) /\ call'[p] = new
      BY <3>2, <3>3, Starts
    <3> QED
      BY <3>1, <3>3, <3>4, <3>5 DEF CallSteps
  <2> QED
    BY <1>4, <1>ret, <2>1 DEF ForkPoint
<1>5. CASE TakeLock(p)
  <2>1. call[p].op \in {"create", "fork", "open", "delete", "sweep"} /\ call[p].step = "lock"
    BY <1>5, <1>w DEF TakeLock, At, WellFormed
  <2>2. CASE Go(p, AfterLock[call[p].op])
    BY <2>1, <2>2, AfterLocks, GoSteps DEF AllSteps
  <2> QED
    BY <1>5, <1>err, <2>1, <2>2 DEF TakeLock
<1>6. CASE Ensure(p)
  BY <1>6, <1>w, <1>ret, GoSteps DEF Ensure, At, WellFormed, AllSteps
<1>7. CASE InsertRows(p) \/ MakeFolder(p) \/ CopyBlobs(p) \/ CopyRows(p) \/ DeleteRows(p) \/ DropLock(p) \/ UndoRows(p)
  BY <1>7, <1>w, GoSteps DEF InsertRows, MakeFolder, CopyBlobs, CopyRows, DeleteRows, DropLock, UndoRows, At, WellFormed,
                             AllSteps
<1>8. CASE Load(p)
  BY <1>8, <1>w, <1>err, GoSteps DEF Load, At, WellFormed, AllSteps
<1>9. CASE SweepEnds(p) \/ Own(p) \/ WriteBlob(p) \/ Crash(p)
  BY <1>9, <1>ret DEF SweepEnds, Own, WriteBlob, Crash
<1>10. CASE NoFolder(p)
  BY <1>10, <1>err DEF NoFolder, At
<1>11. CASE RemoveFile(p) \/ Close(p)
  BY <1>11, <1>same DEF RemoveFile, Close
<1>12. CASE RemoveFolder(p)
  BY <1>12, <1>next, <1>ret DEF RemoveFolder, AfterRemove
<1>13. CASE CallFails(p)
  BY <1>13, <1>err, <1>ret DEF CallFails
<1> QED
  BY <1>1, <1>2, <1>3, <1>4, <1>5, <1>6, <1>7, <1>8, <1>9, <1>10, <1>11, <1>12, <1>13 DEF Step

\* A step of a process keeps the types, and the calls those of the workload.
LEMMA TypeStep ==
    ASSUME TypeOK, Allowed, NEW p \in Procs, p \in workload.procs, Step(p)
    PROVE  TypeOK' /\ Allowed' /\ workload' = workload
<1>c. CallSteps(p)
  BY StepCalls
<1>w. WellFormed(call[p]) /\ call[p].cut \subseteq Blobs /\ (call[p].step \notin {"none", "next"} => Id(p) \in Sessions)
  BY DEF TypeOK, WellFormed, Id, CallOf
<1>1. workload' = workload /\ faults' \in Nat
  <2> USE DEF TypeOK, Fault, saved, disk
  <2>1. CASE CallFails(p) \/ Crash(p)
    <3>1. faults' = faults + 1 /\ workload' = workload
      BY <2>1 DEF CallFails, Crash
    <3> QED
      BY <3>1
  <2> QED
    BY <2>1 DEF Step, Begin, BeginSweep, InsertRows, ForkPoint, Ensure, SweepNext, SweepEnds, MakeFolder, TakeLock,
                NoFolder, Own, CopyBlobs, CopyRows, Load, DeleteRows, DropLock, UndoRows, RemoveFile, RemoveFolder,
                WriteBlob, Close
<1>2. listed' \in [Procs -> SUBSET Sessions] /\ \A q \in Procs : listed'[q] # {} => listed[q] # {} \/ "sweep" \in workload.calls
  <2> USE DEF TypeOK, saved, disk
  <2>1. CASE BeginSweep(p)
    BY <2>1 DEF BeginSweep
  <2>2. CASE SweepNext(p)
    BY <2>2 DEF SweepNext
  <2>3. CASE CallFails(p) \/ Crash(p)
    BY <2>3 DEF CallFails, Crash
  <2> QED
    BY <2>1, <2>2, <2>3
       DEF Step, Begin, InsertRows, ForkPoint, Ensure, SweepEnds, MakeFolder, TakeLock,
           NoFolder, Own, CopyBlobs, CopyRows, Load, DeleteRows, DropLock, UndoRows, RemoveFile, RemoveFolder,
           WriteBlob, Close
<1>3. locked' \subseteq Procs \X Sessions /\ lease' \subseteq Procs \X Sessions
  <2> USE DEF TypeOK, saved, disk, Unlock
  <2>1. CASE TakeLock(p)
    <3>1. Id(p) \in Sessions /\ lease' = lease /\ (locked' = locked \/ locked' = locked \cup {<<p, Id(p)>>})
      BY <1>w, <2>1 DEF TakeLock, At
    <3> QED
      BY <3>1
  <2>2. CASE Own(p)
    <3>1. Id(p) \in Sessions /\ locked' = locked /\ lease' = lease \cup {<<p, Id(p)>>}
      BY <1>w, <2>2 DEF Own, At
    <3> QED
      BY <3>1
  <2> QED
    BY <2>1, <2>2
       DEF Step, Begin, BeginSweep, InsertRows, ForkPoint, Ensure, SweepNext, SweepEnds, MakeFolder,
           NoFolder, CopyBlobs, CopyRows, Load, DeleteRows, DropLock, UndoRows, RemoveFile, RemoveFolder,
                WriteBlob, Close, CallFails, Crash
<1>4. folders' \subseteq Sessions /\ files' \in [Sessions -> SUBSET (Blobs \cup {"lock"})]
  <2> USE DEF TypeOK, saved, disk
  <2>1. CASE MakeFolder(p) \/ WriteBlob(p)
    BY <1>w, <2>1 DEF MakeFolder, WriteBlob, At, Id
  <2>2. CASE TakeLock(p)
    BY <1>w, <2>2 DEF TakeLock, At, Id
  <2>3. CASE CopyBlobs(p)
    BY <1>w, <2>3 DEF CopyBlobs, At, Id
  <2>4. CASE RemoveFile(p)
    BY <1>w, <2>4 DEF RemoveFile, At, Id
  <2> QED
    BY <2>1, <2>2, <2>3, <2>4
       DEF Step, Begin, BeginSweep, InsertRows, ForkPoint, Ensure, SweepNext, SweepEnds,
           NoFolder, Own, CopyRows, Load, DeleteRows, DropLock, UndoRows, RemoveFolder, Close, CallFails, Crash
<1>5. /\ rows' \subseteq Sessions /\ used' \subseteq Sessions
      /\ named' \in [Sessions -> SUBSET Blobs] /\ ready' \subseteq Sessions \X Blobs
  <2> USE DEF TypeOK, saved, disk
  <2>1. CASE Begin(p)
    BY <2>1 DEF Begin
  <2>2. CASE InsertRows(p) \/ CopyRows(p)
    BY <1>w, <2>2 DEF InsertRows, CopyRows, At, Id
  <2>3. CASE WriteBlob(p)
    BY <1>w, <2>3 DEF WriteBlob, At, Id
  <2> QED
    BY <2>1, <2>2, <2>3
       DEF Step, BeginSweep, ForkPoint, Ensure, SweepNext, SweepEnds, MakeFolder, TakeLock, NoFolder, Own, CopyBlobs,
           Load, DeleteRows, DropLock, UndoRows, RemoveFile, RemoveFolder, Close, CallFails, Crash
<1>6. call' \in [Procs -> CallOf] /\ \A q \in Procs : WellFormed(call'[q])
  BY <1>c DEF CallSteps, Others, TypeOK
<1>7. TypeOK'
  BY <1>1, <1>2, <1>3, <1>4, <1>5, <1>6 DEF TypeOK
<1>8. Allowed'
  BY <1>1, <1>2, <1>c DEF Allowed, CallSteps, Others
<1> QED
  BY <1>1, <1>7, <1>8

-----------------------------------------------------------------------------
(* The steps that end a call or keep it *)

\* A call that ends keeps what the others have.
LEMMA FrameEnds ==
    ASSUME TypeOK, KInv, NEW p \in Procs, Ends(p), Shared(p), lease' \subseteq lease, locked' \subseteq locked,
           \A l \in locked \ locked' : l[2] \in rows' => l[1] = p /\ l \notin lease',
           \A l \in locked \ locked' : l[1] = p
    PROVE  KInv'
<1>1. /\ WellFormed(call'[p])
      /\ call'[p].step \in {"none", "next", "undo_rows"}
      /\ call'[p].op # "none" => call'[p].op = call[p].op
      /\ call'[p].step \notin {"none", "next"} => call'[p].id = call[p].id /\ call[p].step \notin {"none", "next"}
      /\ call'[p].op = "fork" => call'[p].source = call[p].source /\ call[p].op = "fork"
  BY EndsWell
<1>2. Frame(p)
  <2>1. \A s \in Sessions : Refers(p, s)' => Refers(p, s)
    BY <1>1 DEF Refers, Shared
  <2>2. ~Unborn(p)'
    BY <1>1 DEF Unborn, At
  <2> QED
    BY <2>1, <2>2 DEF Frame, Ends
<1>3. NewInv'
  BY <1>2, FrameNew DEF KInv
<1>4. RemoveInv'
  BY <1>1, <1>2, FrameRemove DEF KInv
<1>5. LockInv'
  BY <1>1, <1>2, FrameLock DEF KInv, Working
<1>6. BlobInv'
  <2>1. call'[p].op = "fork" => call'[p].step = "undo_rows" /\ call'[p].id = call[p].id
    BY <1>1 DEF WellFormed, NoCall
  <2> QED
    BY <1>1, <1>2, <2>1, FrameBlobs DEF KInv
<1> QED
  BY <1>3, <1>4, <1>5, <1>6 DEF KInv

\* A step that leaves the calls alone
LEMMA FrameStays ==
    ASSUME TypeOK, KInv, NEW p \in Procs, call' = call, Shared(p), lease' \subseteq lease, locked' \subseteq locked,
           \A l \in locked \ locked' : l[2] \in rows' => l[1] = p /\ l \notin lease',
           \A l \in locked \ locked' : l[1] = p \/ (At(p, "remove") /\ l[2] = Id(p)),
           call[p].step \notin Working \cup {"insert"}, ~Unborn(p)
    PROVE  KInv'
<1>1. Frame(p)
  BY DEF Frame, Others, Shared, TypeOK, Refers, Unborn, At
<1>2. NewInv'
  BY <1>1, FrameNew DEF KInv
<1>3. RemoveInv'
  BY <1>1, FrameRemove DEF KInv, RemoveInv, Shared, Id
<1>4. LockInv'
  BY <1>1, FrameLock DEF KInv
<1>5. BlobInv'
  <2>1. call[p].op = "fork" => call[p].step \notin {"mkdir", "lock", "copy", "copy_rows"}
    BY DEF Unborn
  <2> QED
    BY <1>1, <2>1, FrameBlobs DEF KInv
<1> QED
  BY <1>2, <1>3, <1>4, <1>5 DEF KInv

-----------------------------------------------------------------------------
(* Each step keeps the invariant *)

\* A call that ends with its lock or gives it up
LEMMA EndsKeep ==
    ASSUME TypeOK, KInv, NEW p \in Procs, Ends(p), Shared(p), lease' = lease,
           \/ locked' = locked
           \/ Unlock(p) /\ call[p].step \in {"copy", "copy_rows", "load"}
    PROVE  KInv'
<1>1. ASSUME Unlock(p), call[p].step \in {"copy", "copy_rows", "load"}, Id(p) \in rows
      PROVE  <<p, Id(p)>> \notin lease
  BY <1>1 DEF KInv, LockInv, Working
<1>2. \A l \in locked \ locked' : l[2] \in rows' => l[1] = p /\ l \notin lease'
  BY <1>1 DEF Unlock, Shared
<1>3. \A l \in locked \ locked' : l[1] = p
  BY DEF Unlock
<1>4. locked' \subseteq locked
  BY DEF Unlock
<1> QED
  BY <1>2, <1>3, <1>4, FrameEnds

\* The steps that end a call
LEMMA EndingSteps ==
    ASSUME TypeOK, KInv, NEW p \in Procs,
           \/ SweepEnds(p) \/ (ForkPoint(p) /\ call[p].source \notin rows) \/ (Ensure(p) /\ Id(p) \notin rows)
           \/ NoFolder(p) \/ (TakeLock(p) /\ Locked(Id(p)))
           \/ (CopyBlobs(p) /\ ~(call[p].source \in folders /\ Id(p) \in folders))
           \/ (CopyRows(p) /\ call[p].source \notin rows) \/ (Load(p) /\ Id(p) \notin rows)
           \/ RemoveFolder(p) \/ WriteBlob(p) \/ CallFails(p) \/ Crash(p)
    PROVE  KInv'
<1>w. WellFormed(call[p]) /\ (call[p].step \notin {"none", "next"} => Id(p) \in Sessions)
  BY DEF TypeOK, WellFormed, Id
<1>f. files \in [Sessions -> SUBSET (Blobs \cup {"lock"})] /\ listed \in [Procs -> SUBSET Sessions]
  BY DEF TypeOK
<1>1. CASE SweepEnds(p) \/ (ForkPoint(p) /\ call[p].source \notin rows) \/ (Ensure(p) /\ Id(p) \notin rows)
  <2>1. Return(p) /\ UNCHANGED <<saved, disk, locked, lease, listed, workload>>
    BY <1>1 DEF SweepEnds, ForkPoint, Ensure
  <2>2. Shared(p)
    BY <2>1 DEF Shared, saved, disk
  <2> QED
    BY <2>1, <2>2, ReturnEnds, EndsKeep
<1>2. CASE NoFolder(p) \/ (TakeLock(p) /\ Locked(Id(p)))
  <2>1. /\ \E owned : AfterError(p, owned)
        /\ call[p].step = "lock" /\ UNCHANGED <<saved, folders, locked, lease, listed, workload>>
    BY <1>2 DEF NoFolder, TakeLock, At, disk
  <2>2. \A s \in Sessions : files[s] \subseteq files'[s]
    BY <1>2, <1>f DEF NoFolder, TakeLock, disk
  <2>3. Shared(p)
    BY <2>1, <2>2 DEF Shared, saved
  <2> QED
    BY <2>1, <2>3, ErrorEnds, EndsKeep
<1>3. CASE \/ (CopyBlobs(p) /\ ~(call[p].source \in folders /\ Id(p) \in folders))
           \/ (CopyRows(p) /\ call[p].source \notin rows)
  <2>1. /\ Go(p, "undo_rows") /\ Unlock(p) /\ call[p].step \in {"copy", "copy_rows"}
        /\ UNCHANGED <<saved, disk, lease, listed, workload>>
    BY <1>3 DEF CopyBlobs, CopyRows, At, saved, disk
  <2>2. call[p].op = "fork"
    BY <1>w, <2>1 DEF WellFormed
  <2>3. AfterError(p, FALSE)
    BY <2>1, <2>2 DEF AfterError
  <2>4. Shared(p)
    BY <2>1 DEF Shared, Unlock, saved, disk
  <2> QED
    BY <2>1, <2>3, <2>4, ErrorEnds, EndsKeep
<1>4. CASE Load(p) /\ Id(p) \notin rows
  <2>1. AfterError(p, FALSE) /\ Unlock(p) /\ call[p].step = "load" /\ UNCHANGED <<saved, disk, lease, listed, workload>>
    BY <1>4 DEF Load, At
  <2>2. Shared(p)
    BY <2>1 DEF Shared, Unlock, saved, disk
  <2> QED
    BY <2>1, <2>2, ErrorEnds, EndsKeep
<1>5. CASE RemoveFolder(p)
  <2>1. /\ AfterRemove(p) /\ call[p].step = "remove" /\ folders' \subseteq folders
        /\ UNCHANGED <<saved, files, locked, lease, listed, workload>>
    BY <1>5 DEF RemoveFolder, At
  <2>2. Ends(p)
    <3>1. CASE Return(p)
      BY <3>1, ReturnEnds
    <3>2. CASE call[p].op = "sweep" /\ call' = [call EXCEPT ![p] = New("sweep", "next", "none")]
      <4>1. New("sweep", "next", "none") \in CallOf
        BY Calls DEF Ops, AllSteps
      <4> QED
        BY <3>2, <4>1, Starts DEF Ends
    <3> QED
      BY <2>1, <3>1, <3>2 DEF AfterRemove
  <2>3. Shared(p)
    BY <2>1 DEF Shared, saved
  <2> QED
    BY <2>1, <2>2, <2>3, EndsKeep
<1>6. CASE WriteBlob(p)
  <2>1. /\ Return(p) /\ call[p].step = "write" /\ Works(p) /\ folders' = folders \cup {Id(p)}
        /\ UNCHANGED <<rows, named, used, locked, lease, listed, workload>>
    BY <1>6 DEF WriteBlob, At, Works
  <2>2. PICK b \in Blobs : /\ files' = [files EXCEPT ![Id(p)] = @ \cup {b}]
                           /\ ready' = ready \cup {<<Id(p), b>>}
    BY <1>6 DEF WriteBlob
  <2>3. Id(p) \in Sessions /\ ~Unborn(p)
    BY <1>w, <2>1 DEF Unborn, At
  <2>4. (\A s \in Sessions : files[s] \subseteq files'[s]) /\ b \in files'[Id(p)]
    BY <1>f, <2>2, <2>3
  <2>5. Shared(p)
    BY <2>1, <2>2, <2>3, <2>4 DEF Shared
  <2> QED
    BY <2>1, <2>5, ReturnEnds, EndsKeep
<1>7. CASE CallFails(p)
  <2>1. /\ call[p].step \notin {"none", "next"} /\ UNCHANGED <<saved, disk, lease, workload>>
        /\ \A q \in Procs : listed'[q] \subseteq listed[q]
    BY <1>7, <1>f DEF CallFails, Fault
  <2>2. Ends(p)
    BY <1>7, <2>1, ReturnEnds, ErrorEnds DEF CallFails
  <2>3. locked' = locked \/ (Unlock(p) /\ call[p].step \in {"copy", "copy_rows", "load"})
    BY <1>7 DEF CallFails
  <2>4. Shared(p)
    BY <2>1, <2>3 DEF Shared, Unlock, saved, disk
  <2> QED
    BY <2>1, <2>2, <2>3, <2>4, EndsKeep
<1>8. CASE Crash(p)
  <2>1. /\ Return(p) /\ UNCHANGED <<saved, disk, workload>>
        /\ locked' = {l \in locked : l[1] # p} /\ lease' = {l \in lease : l[1] # p}
        /\ \A q \in Procs : listed'[q] \subseteq listed[q]
    BY <1>8, <1>f DEF Crash, Fault
  <2>2. Shared(p)
    BY <2>1 DEF Shared, saved, disk
  <2> QED
    BY <2>1, <2>2, ReturnEnds, FrameEnds
<1> QED
  BY <1>1, <1>2, <1>3, <1>4, <1>5, <1>6, <1>7, <1>8

\* The steps that leave the calls alone
LEMMA StayingSteps ==
    ASSUME TypeOK, KInv, NEW p \in Procs, Close(p) \/ RemoveFile(p)
    PROVE  KInv'
<1>w. WellFormed(call[p]) /\ (call[p].step \notin {"none", "next"} => Id(p) \in Sessions)
  BY DEF TypeOK, WellFormed, Id
<1>1. CASE Close(p)
  <2>1. call[p].step = "none" /\ call[p].op = "none"
    BY <1>1, Calls DEF Close, Idle
  <2>2. PICK s \in Sessions : lease' = lease \ {<<p, s>>} /\ locked' = locked \ {<<p, s>>}
    BY <1>1 DEF Close
  <2>3. UNCHANGED <<saved, disk, call, listed, workload>>
    BY <1>1 DEF Close
  <2>4. Shared(p) /\ ~Unborn(p)
    BY <2>1, <2>2, <2>3 DEF Shared, Unborn, At, saved, disk
  <2> QED
    BY <2>1, <2>2, <2>3, <2>4, FrameStays DEF Working
<1>2. CASE RemoveFile(p)
  <2>1. /\ call[p].step = "remove" /\ At(p, "remove") /\ UNCHANGED <<saved, folders, lease, call, listed, workload>>
    BY <1>2 DEF RemoveFile, At
  <2>2. Id(p) \notin rows
    BY <2>1 DEF KInv, RemoveInv
  <2>3. locked' \subseteq locked /\ \A l \in locked \ locked' : l[2] = Id(p)
    BY <1>2 DEF RemoveFile
  <2>4. \A s \in Sessions : files[s] \subseteq files'[s] \/ s = Id(p)
    BY <1>2 DEF RemoveFile, TypeOK
  <2>5. Shared(p) /\ ~Unborn(p)
    BY <2>1, <2>3, <2>4 DEF Shared, Unborn, At, saved
  <2>6. \A l \in locked \ locked' : ~(l[2] \in rows')
    BY <2>1, <2>2, <2>3 DEF saved
  <2> QED
    BY <2>1, <2>3, <2>5, <2>6, FrameStays DEF Working
<1> QED
  BY <1>1, <1>2

\* A call that goes on with a later step learns of no session.
LEMMA GoFrame ==
    ASSUME TypeOK, NEW p \in Procs, NEW step \in AllSteps \ {"none", "next", "insert"}, Go(p, step), Works(p), Shared(p),
           call[p].op = "fork" /\ step \in {"point", "mkdir", "lock", "copy", "copy_rows"} => Unborn(p)
    PROVE  /\ Frame(p)
           /\ call'[p].step = step /\ call'[p].op = call[p].op /\ call'[p].id = call[p].id /\ Id(p)' = Id(p)
           /\ call'[p].source = call[p].source /\ call'[p].cut = call[p].cut
<1>1. /\ Others(p)
      /\ call'[p].step = step /\ call'[p].op = call[p].op /\ call'[p].id = call[p].id /\ Id(p)' = Id(p)
      /\ call'[p].source = call[p].source /\ call'[p].cut = call[p].cut
  BY Goes DEF Id
<1>2. \A s \in Sessions : Refers(p, s)' => Refers(p, s)
  BY <1>1 DEF Refers, Works, Shared
<1>3. Unborn(p)' => Unborn(p) /\ call'[p].step # "insert"
  BY <1>1 DEF Unborn, At
<1> QED
  BY <1>1, <1>2, <1>3 DEF Frame

\* A call that goes on with a step that removes nothing keeps its lock.
LEMMA GoesOn ==
    ASSUME TypeOK, KInv, NEW p \in Procs, NEW step \in AllSteps \ {"none", "next", "insert", "unlock", "remove"},
           Go(p, step), Works(p), Shared(p),
           call[p].op = "fork" /\ step \in {"point", "mkdir", "lock", "copy", "copy_rows"} => Unborn(p),
           lease' = lease, rows' = rows, locked' = locked,
           call[p].op = "sweep" => call[p].step \in {"mkdir", "lock"},
           step \in Working => call[p].step \in Working,
           call[p].op = "fork" /\ call[p].source \in rows /\ step \in {"mkdir", "lock", "copy"} =>
               call[p].cut \subseteq named[call[p].source],
           call[p].op = "fork" /\ call[p].source \in rows /\ step = "copy_rows" => call[p].cut \subseteq files'[Id(p)]
    PROVE  KInv'
<1>1. /\ Frame(p)
      /\ call'[p].step = step /\ call'[p].op = call[p].op /\ call'[p].id = call[p].id /\ Id(p)' = Id(p)
      /\ call'[p].source = call[p].source /\ call'[p].cut = call[p].cut
  BY GoFrame
<1>2. NewInv'
  BY <1>1, FrameNew DEF KInv
<1>3. RemoveInv'
  <2>1. call[p].op = "sweep" => Id(p) \notin rows
    BY DEF KInv, RemoveInv
  <2> QED
    BY <1>1, <2>1, FrameRemove DEF KInv, Id
<1>4. LockInv'
  <2>1. step \in Working /\ (Id(p) \in rows \/ Unborn(p)') => <<p, Id(p)>> \in locked /\ <<p, Id(p)>> \notin lease
    BY <1>1 DEF KInv, LockInv, Frame
  <2> QED
    BY <1>1, <2>1, FrameLock DEF KInv, Id
<1>5. BlobInv'
  BY <1>1, FrameBlobs DEF KInv
<1> QED
  BY <1>2, <1>3, <1>4, <1>5 DEF KInv

\* A call that goes on to remove
LEMMA GoesAway ==
    ASSUME TypeOK, KInv, NEW p \in Procs, NEW step \in {"unlock", "remove"}, Go(p, step), Works(p), Shared(p),
           lease' = lease, files' = files, locked' = locked \/ Unlock(p), Id(p) \notin rows'
    PROVE  KInv'
<1>1. /\ Frame(p)
      /\ call'[p].step = step /\ call'[p].op = call[p].op /\ call'[p].id = call[p].id /\ Id(p)' = Id(p)
      /\ call'[p].source = call[p].source /\ call'[p].cut = call[p].cut
  BY GoFrame DEF AllSteps
<1>2. NewInv'
  BY <1>1, FrameNew DEF KInv
<1>3. RemoveInv'
  BY <1>1, FrameRemove DEF KInv, Id
<1>4. LockInv'
  <2>1. locked' \subseteq locked /\ \A l \in locked \ locked' : l = <<p, Id(p)>>
    BY DEF Unlock
  <2>2. \A l \in locked \ locked' : l[2] \in rows' => l[1] = p /\ l \notin lease'
    BY <2>1
  <2>3. \A l \in locked \ locked' : l[1] = p \/ (At(p, "remove") /\ l[2] = Id(p))
    BY <2>1
  <2> QED
    BY <1>1, <2>1, <2>2, <2>3, FrameLock DEF KInv, Working
<1>5. BlobInv'
  BY <1>1, FrameBlobs DEF KInv
<1> QED
  BY <1>2, <1>3, <1>4, <1>5 DEF KInv

\* The steps that go on with a call
LEMMA GoingSteps ==
    ASSUME TypeOK, KInv, NEW p \in Procs,
           \/ (Ensure(p) /\ Id(p) \in rows) \/ MakeFolder(p)
           \/ (CopyBlobs(p) /\ call[p].source \in folders /\ Id(p) \in folders)
           \/ (Load(p) /\ Id(p) \in rows) \/ DeleteRows(p) \/ DropLock(p) \/ UndoRows(p)
    PROVE  KInv'
<1>w. WellFormed(call[p]) /\ (call[p].step \notin {"none", "next"} => Id(p) \in Sessions)
  BY DEF TypeOK, WellFormed, Id
<1>f. files \in [Sessions -> SUBSET (Blobs \cup {"lock"})] /\ named \in [Sessions -> SUBSET Blobs]
  BY DEF TypeOK
<1>1. CASE Ensure(p) /\ Id(p) \in rows
  <2>1. /\ call[p].step = "ensure" /\ call[p].op \in {"open", "delete", "put"}
        /\ UNCHANGED <<saved, disk, locked, lease, listed, workload>>
    BY <1>1, <1>w DEF Ensure, At, WellFormed
  <2>2. Shared(p) /\ Works(p)
    BY <2>1 DEF Shared, Works, saved, disk
  <2>3. \E step \in {"write", "mkdir"} : Go(p, step)
    BY <1>1 DEF Ensure
  <2>4. lease' = lease /\ rows' = rows /\ locked' = locked
    BY <2>1 DEF saved
  <2> QED
    BY <2>1, <2>2, <2>3, <2>4, GoesOn DEF Working, AllSteps
<1>2. CASE MakeFolder(p)
  <2>1. /\ call[p].step = "mkdir" /\ Works(p) /\ folders' = folders \cup {Id(p)} /\ Go(p, "lock")
        /\ UNCHANGED <<saved, files, locked, lease, listed, workload>>
    BY <1>2 DEF MakeFolder, At, Works
  <2>2. Shared(p)
    BY <2>1 DEF Shared, saved
  <2>3. /\ call[p].op = "fork" => Unborn(p)
        /\ call[p].op = "fork" /\ call[p].source \in rows => call[p].cut \subseteq named[call[p].source]
    BY <2>1 DEF Unborn, At, KInv, BlobInv
  <2>4. lease' = lease /\ rows' = rows /\ locked' = locked
    BY <2>1 DEF saved
  <2> QED
    BY <2>1, <2>2, <2>3, <2>4, GoesOn DEF Working, AllSteps
<1>3. CASE CopyBlobs(p) /\ call[p].source \in folders /\ Id(p) \in folders
  <2>1. /\ call[p].step = "copy" /\ Works(p) /\ Go(p, "copy_rows")
        /\ files' = [files EXCEPT ![Id(p)] = @ \cup (files[call[p].source] \cap Blobs)]
        /\ UNCHANGED <<saved, folders, locked, lease, listed, workload>>
    BY <1>3 DEF CopyBlobs, At, Works
  <2>2. call[p].op = "fork" /\ Unborn(p) /\ call[p].source \in Sessions /\ Id(p) \in Sessions
    BY <1>w, <2>1 DEF WellFormed, Unborn
  <2>3. Shared(p)
    BY <1>f, <2>1, <2>2 DEF Shared, saved
  <2>4. ASSUME call[p].source \in rows
        PROVE  call[p].cut \subseteq files'[Id(p)]
    <3>1. call[p].cut \subseteq named[call[p].source] /\ named[call[p].source] \subseteq files[call[p].source]
      BY <2>1, <2>2, <2>4 DEF KInv, BlobInv, BlobsKept
    <3>2. named[call[p].source] \subseteq Blobs
      BY <1>f, <2>2
    <3>3. files'[Id(p)] = files[Id(p)] \cup (files[call[p].source] \cap Blobs)
      BY <1>f, <2>1, <2>2
    <3> QED
      BY <3>1, <3>2, <3>3
  <2>5. lease' = lease /\ rows' = rows /\ locked' = locked
    BY <2>1 DEF saved
  <2> QED
    BY <2>1, <2>2, <2>3, <2>4, <2>5, GoesOn DEF Working, AllSteps
<1>4. CASE Load(p) /\ Id(p) \in rows
  <2>1. /\ call[p].step = "load" /\ Works(p) /\ Go(p, "own") /\ call[p].op # "sweep"
        /\ UNCHANGED <<saved, disk, locked, lease, listed, workload>>
    BY <1>4, <1>w DEF Load, At, Works, WellFormed
  <2>2. Shared(p)
    BY <2>1 DEF Shared, saved, disk
  <2>3. lease' = lease /\ rows' = rows /\ locked' = locked
    BY <2>1 DEF saved
  <2> QED
    BY <2>1, <2>2, <2>3, GoesOn DEF Working, AllSteps
<1>5. CASE DeleteRows(p) \/ UndoRows(p)
  <2>1. /\ Works(p) /\ rows' = rows \ {Id(p)} /\ \E step \in {"unlock", "remove"} : Go(p, step)
        /\ UNCHANGED <<named, ready, used, disk, locked, lease, listed, workload>>
    BY <1>5 DEF DeleteRows, UndoRows, At, Works
  <2>2. Shared(p)
    BY <2>1 DEF Shared, disk
  <2>3. lease' = lease /\ files' = files /\ locked' = locked /\ Id(p) \notin rows'
    BY <2>1 DEF disk
  <2> QED
    BY <2>1, <2>2, <2>3, GoesAway
<1>6. CASE DropLock(p)
  <2>1. /\ Works(p) /\ call[p].step = "unlock" /\ Go(p, "remove") /\ Unlock(p)
        /\ UNCHANGED <<saved, disk, lease, listed, workload>>
    BY <1>6 DEF DropLock, At, Works
  <2>2. Shared(p)
    BY <2>1 DEF Shared, saved, disk, Unlock
  <2>3. lease' = lease /\ files' = files /\ Id(p) \notin rows'
    BY <2>1 DEF saved, disk, KInv, RemoveInv
  <2> QED
    BY <2>1, <2>2, <2>3, GoesAway
<1> QED
  BY <1>1, <1>2, <1>3, <1>4, <1>5, <1>6

\* The cut of a fork
LEMMA ForkPointStep ==
    ASSUME TypeOK, KInv, NEW p \in Procs, ForkPoint(p), call[p].source \in rows
    PROVE  KInv'
<1> DEFINE new == [call[p] EXCEPT !.step = "mkdir", !.cut = named[call[p].source]]
<1>1. call[p] \in CallOf /\ call[p].step = "point" /\ call[p].op = "fork" /\ call[p].source \in Sessions
  BY DEF ForkPoint, At, TypeOK, WellFormed
<1>2. named[call[p].source] \in SUBSET Blobs
  BY <1>1 DEF TypeOK
<1>3. /\ new \in CallOf /\ new.op = "fork" /\ new.step = "mkdir" /\ new.id = call[p].id
      /\ new.source = call[p].source /\ new.cut = named[call[p].source]
  BY <1>1, <1>2 DEF CallOf, AllSteps
<1>4. call' = [call EXCEPT ![p] = new]
  BY DEF ForkPoint, TypeOK
<1> HIDE DEF new
<1>5. Others(p) /\ call'[p] = new
  BY <1>3, <1>4, Starts
<1>6. UNCHANGED <<saved, disk, locked, lease, listed, workload>>
  BY DEF ForkPoint
<1>7. Frame(p)
  <2>1. Shared(p)
    BY <1>6 DEF Shared, saved, disk
  <2>2. \A s \in Sessions : Refers(p, s)' => Refers(p, s)
    BY <1>1, <1>3, <1>5, <1>6 DEF Refers
  <2>3. Unborn(p)
    BY <1>1 DEF Unborn
  <2> QED
    BY <1>3, <1>5, <2>1, <2>2, <2>3 DEF Frame
<1>8. NewInv' /\ RemoveInv'
  BY <1>3, <1>5, <1>7, FrameNew, FrameRemove DEF KInv
<1>9. LockInv'
  BY <1>3, <1>5, <1>6, <1>7, FrameLock DEF KInv, Working
<1>10. BlobInv'
  BY <1>1, <1>3, <1>5, <1>7, FrameBlobs DEF KInv
<1> QED
  BY <1>8, <1>9, <1>10 DEF KInv

\* The lock of a session that no process has locked
LEMMA TakeLockStep ==
    ASSUME TypeOK, KInv, NEW p \in Procs, TakeLock(p), ~Locked(Id(p))
    PROVE  KInv'
<1>1. /\ call[p].step = "lock" /\ Works(p) /\ Id(p) \in Sessions
      /\ call[p].op \in {"create", "fork", "open", "delete", "sweep"}
  BY DEF TakeLock, At, TypeOK, WellFormed, Works, Id
<1>2. PICK step \in {"own", "copy", "load", "delete_rows", "unlock"} :
        /\ Go(p, step) /\ step = AfterLock[call[p].op]
        /\ step = "copy" => call[p].op = "fork"
        /\ step = "unlock" <=> call[p].op = "sweep"
  BY <1>1, AfterLocks DEF TakeLock
<1>3. /\ locked' = locked \cup {<<p, Id(p)>>} /\ UNCHANGED <<saved, folders, lease, listed, workload>>
      /\ files' = [files EXCEPT ![Id(p)] = @ \cup {"lock"}]
  BY DEF TakeLock
<1>4. Shared(p)
  <2>1. \A s \in Sessions : files[s] \subseteq files'[s]
    BY <1>1, <1>3 DEF TypeOK
  <2> QED
    BY <1>1, <1>3, <2>1 DEF Shared, saved
<1>5. call[p].op = "fork" => Unborn(p)
  BY <1>1 DEF Unborn
<1>6. /\ Frame(p)
      /\ call'[p].step = step /\ call'[p].op = call[p].op /\ call'[p].id = call[p].id /\ Id(p)' = Id(p)
      /\ call'[p].source = call[p].source /\ call'[p].cut = call[p].cut
  BY <1>1, <1>2, <1>4, <1>5, GoFrame DEF AllSteps
<1>7. NewInv'
  BY <1>6, FrameNew DEF KInv
<1>8. RemoveInv'
  <2>1. call[p].op = "sweep" => Id(p) \notin rows'
    BY <1>1, <1>3 DEF KInv, RemoveInv, saved
  <2> QED
    BY <1>2, <1>6, <2>1, FrameRemove DEF KInv, Id
<1>9. LockInv'
  <2>1. Unborn(p) => \A l \in lease : l[2] # Id(p)
    BY DEF KInv, NewInv, Unknown
  <2>2. lease' = lease /\ rows' = rows /\ call'[p].id = Id(p)
    BY <1>3, <1>6 DEF saved, Id
  <2> QED
    BY <1>3, <1>6, <2>1, <2>2, FrameTake DEF KInv
<1>10. BlobInv'
  <2>1. call[p].op = "fork" /\ call[p].source \in rows => call[p].cut \subseteq named[call[p].source]
    BY <1>1 DEF KInv, BlobInv
  <2> QED
    BY <1>2, <1>6, <2>1, FrameBlobs DEF KInv
<1> QED
  BY <1>7, <1>8, <1>9, <1>10 DEF KInv

\* The next folder of a sweep
LEMMA SweepNextStep ==
    ASSUME TypeOK, KInv, NEW p \in Procs, SweepNext(p)
    PROVE  KInv'
<1>1. PICK s \in listed[p] :
        /\ listed' = [listed EXCEPT ![p] = @ \ {s}]
        /\ call' = [call EXCEPT ![p] = IF s \in rows THEN New("sweep", "next", "none") ELSE New("sweep", "mkdir", s)]
  BY DEF SweepNext
<1>2. s \in Sessions /\ \A q \in Procs : listed'[q] \subseteq listed[q]
  BY <1>1 DEF TypeOK
<1>3. PICK c \in CallOf :
        /\ call' = [call EXCEPT ![p] = c] /\ c.op = "sweep"
        /\ c.step = "next" \/ (c.step = "mkdir" /\ c.id = s /\ s \notin rows)
  <2>1. CASE s \in rows
    <3>1. /\ New("sweep", "next", "none") \in CallOf /\ New("sweep", "next", "none").op = "sweep"
          /\ New("sweep", "next", "none").step = "next"
      BY Calls DEF Ops, AllSteps
    <3>2. call' = [call EXCEPT ![p] = New("sweep", "next", "none")]
      BY <1>1, <2>1
    <3> QED
      BY <3>1, <3>2
  <2>2. CASE s \notin rows
    <3>1. /\ New("sweep", "mkdir", s) \in CallOf /\ New("sweep", "mkdir", s).op = "sweep"
          /\ New("sweep", "mkdir", s).step = "mkdir" /\ New("sweep", "mkdir", s).id = s
      BY <1>2, Calls DEF Ops, AllSteps
    <3>2. call' = [call EXCEPT ![p] = New("sweep", "mkdir", s)]
      BY <1>1, <2>2
    <3> QED
      BY <2>2, <3>1, <3>2
  <2> QED
    BY <2>1, <2>2
<1>4. Others(p) /\ call'[p] = c
  BY <1>3, Starts
<1>5. UNCHANGED <<saved, disk, locked, lease, workload>>
  BY DEF SweepNext
<1>6. Frame(p)
  <2>1. Shared(p)
    BY <1>2, <1>5 DEF Shared, saved, disk
  <2>2. \A r \in Sessions : Refers(p, r)' => Refers(p, r)
    BY <1>1, <1>2, <1>3, <1>4 DEF Refers
  <2>3. ~Unborn(p)'
    BY <1>3, <1>4 DEF Unborn, At
  <2> QED
    BY <1>4, <2>1, <2>2, <2>3 DEF Frame
<1>7. NewInv'
  BY <1>6, FrameNew DEF KInv
<1>8. RemoveInv'
  BY <1>3, <1>4, <1>5, <1>6, FrameRemove DEF KInv, saved
<1>9. LockInv'
  BY <1>3, <1>4, <1>5, <1>6, FrameLock DEF KInv, Working
<1>10. BlobInv'
  BY <1>3, <1>4, <1>6, FrameBlobs DEF KInv
<1> QED
  BY <1>7, <1>8, <1>9, <1>10 DEF KInv

\* The session becomes its caller's.
LEMMA OwnStep ==
    ASSUME TypeOK, KInv, NEW p \in Procs, Own(p)
    PROVE  KInv'
<1>1. call[p].step = "own" /\ Works(p) /\ Id(p) \in Sessions /\ ~Unborn(p)
  BY DEF Own, At, TypeOK, WellFormed, Works, Id, Unborn
<1>2. Others(p) /\ call'[p] = NoCall
  BY ReturnEnds DEF Own, Ends
<1>3. lease' = lease \cup {<<p, Id(p)>>} /\ UNCHANGED <<saved, disk, locked, listed, workload>>
  BY DEF Own
<1>4. call'[p].op = "none" /\ call'[p].step = "none"
  BY <1>2, Calls
<1>5. Frame(p)
  <2>1. Shared(p)
    BY <1>1, <1>3 DEF Shared, saved, disk
  <2> QED
    BY <1>2, <1>3, <1>4, <2>1 DEF Frame, Refers, Unborn, At
<1>6. NewInv'
  BY <1>5, FrameNew DEF KInv
<1>7. RemoveInv'
  BY <1>4, <1>5, FrameRemove DEF KInv
<1>8. LockInv'
  <2>1. Id(p) \in rows => <<p, Id(p)>> \in locked
    BY <1>1 DEF KInv, LockInv, Working
  <2>2. \A l \in lease' : l[2] \in rows' => l \in locked'
    BY <1>3, <2>1 DEF KInv, LockInv, saved
  <2>3. ASSUME NEW q \in Procs, call'[q].step \in Working, Id(q)' \in rows' \/ Unborn(q)'
        PROVE  <<q, Id(q)'>> \in locked' /\ <<q, Id(q)'>> \notin lease'
    <3>1. q # p
      BY <1>4, <2>3 DEF Working
    <3>2. call'[q] = call[q] /\ Id(q)' = Id(q) /\ (Unborn(q)' => Unborn(q))
      BY <1>2, <3>1 DEF Others, Id, Unborn, At
    <3> QED
      BY <1>3, <2>3, <3>1, <3>2 DEF KInv, LockInv, saved
  <2> QED
    BY <1>3, <2>2, <2>3 DEF KInv, LockInv, Id
<1>9. BlobInv'
  BY <1>4, <1>5, FrameBlobs DEF KInv
<1> QED
  BY <1>6, <1>7, <1>8, <1>9 DEF KInv

\* The rows of a session that only its creation knows
LEMMA Births ==
    ASSUME TypeOK, KInv, NEW p \in Procs, Unborn(p), Others(p), Id(p)' = Id(p), call'[p].op = call[p].op,
           call'[p].source = call[p].source,
           \/ call[p].op = "create" /\ call'[p].step = "mkdir"
           \/ At(p, "copy_rows") /\ call'[p].step = "load",
           rows' = rows \cup {Id(p)},
           named' \in [Sessions -> SUBSET Blobs], named'[Id(p)] \subseteq files[Id(p)],
           \A s \in Sessions : s # Id(p) => named'[s] = named[s],
           UNCHANGED <<ready, used, disk, locked, lease, listed, workload>>
    PROVE  KInv'
<1>1. Unknown(Id(p), Procs \ {p}) /\ Id(p) \in used /\ Id(p) \notin listed[p]
  BY DEF KInv, NewInv
<1>2. \A q \in Procs : q # p => call'[q] = call[q] /\ Id(q)' = Id(q) /\ (Unborn(q)' <=> Unborn(q))
  BY DEF Others, Id, Unborn, At
<1>3. ~Unborn(p)' /\ Works(p) /\ Id(p) \in Sessions /\ call[p].op \in {"create", "fork"} /\ call[p].op # "sweep"
  BY DEF Unborn, At, Works, TypeOK, WellFormed, Id
<1>4. \A q \in Procs, s \in Sessions : q # p => (Refers(q, s)' <=> Refers(q, s))
  BY <1>2 DEF Refers
<1>5. \A q \in Procs, s \in Sessions : Refers(q, s)' => Refers(q, s)
  BY <1>3, <1>4 DEF Refers, Id, Works
<1>6. \A q \in Procs : q # p => ~Refers(q, Id(p)) /\ <<q, Id(p)>> \notin locked
  BY <1>1 DEF Unknown
<1>7. NewInv'
  <2>1. ASSUME NEW s \in Sessions, NEW group \in SUBSET Procs, Unknown(s, group), s # Id(p)
        PROVE  Unknown(s, group)'
    BY <1>5, <2>1 DEF Unknown
  <2>2. ASSUME NEW s \in Sessions \ used'
        PROVE  Unknown(s, Procs)' /\ s \notin folders'
    <3>1. Unknown(s, Procs) /\ s \notin folders /\ s # Id(p)
      BY <1>1, <2>2 DEF KInv, NewInv
    <3> QED
      BY <2>1, <2>2, <3>1 DEF disk
  <2>3. ASSUME NEW q \in Procs, Unborn(q)'
        PROVE  /\ Unknown(Id(q), Procs \ {q})' /\ Id(q)' \in used' /\ Id(q)' \notin listed'[q]
               /\ At(q, "insert")' => Id(q)' \notin folders'
    <3>1. q # p /\ Unborn(q) /\ Id(q)' = Id(q) /\ (At(q, "insert")' <=> At(q, "insert"))
      BY <1>2, <1>3, <2>3 DEF At
    <3>2. /\ Unknown(Id(q), Procs \ {q}) /\ Id(q) \in used /\ Id(q) \notin listed[q]
          /\ At(q, "insert") => Id(q) \notin folders
      BY <3>1 DEF KInv, NewInv
    <3>3. ~Refers(p, Id(q)) /\ Id(q) \in Sessions
      BY <3>1, <3>2 DEF Unknown, TypeOK
    <3>4. Id(q) # Id(p)
      BY <1>3, <3>3 DEF Refers, Works, Id
    <3>5. Unknown(Id(q), Procs \ {q})'
      BY <2>1, <3>1, <3>2, <3>3, <3>4
    <3> QED
      BY <3>1, <3>2, <3>5 DEF disk
  <2> QED
    BY <2>2, <2>3 DEF NewInv
<1>8. RemoveInv'
  <2> SUFFICES ASSUME NEW q \in Procs,
                      call'[q].step \in {"unlock", "remove"} \/ (call'[q].op = "sweep" /\ call'[q].step \in {"mkdir", "lock"})
               PROVE  Id(q)' \notin rows'
    BY DEF RemoveInv
  <2>1. q # p
    BY <1>3 DEF At
  <2>2. call'[q] = call[q] /\ Id(q)' = Id(q) /\ Id(q) \notin rows
    BY <1>2, <2>1 DEF KInv, RemoveInv
  <2>3. Id(q) # Id(p)
    BY <1>6, <2>1, <2>2 DEF Refers, Id
  <2> QED
    BY <2>2, <2>3
<1>9. LockInv'
  <2>1. \A l \in lease' : l[2] \in rows' => l \in locked'
    BY <1>1 DEF KInv, LockInv, Unknown
  <2>2. ASSUME NEW q \in Procs, call'[q].step \in Working, Id(q)' \in rows' \/ Unborn(q)'
        PROVE  <<q, Id(q)'>> \in locked' /\ <<q, Id(q)'>> \notin lease'
    <3>1. CASE q = p
      <4>1. At(p, "copy_rows")
        BY <2>2, <3>1 DEF Working
      <4> QED
        BY <3>1, <4>1 DEF KInv, LockInv, Working, At
    <3>2. CASE q # p
      <4>1. call'[q] = call[q] /\ Id(q)' = Id(q) /\ (Unborn(q)' <=> Unborn(q))
        BY <1>2, <3>2
      <4>2. Id(q) # Id(p)
        BY <1>6, <2>2, <3>2, <4>1 DEF Refers, Id, Working
      <4> QED
        BY <2>2, <4>1, <4>2 DEF KInv, LockInv
    <3> QED
      BY <3>1, <3>2
  <2> QED
    BY <2>1, <2>2 DEF KInv, LockInv, Id
<1>10. BlobInv'
  <2>1. BlobsKept'
    BY <1>3 DEF TypeOK, KInv, BlobInv, BlobsKept, disk
  <2>2. \A r \in ready' : r[1] \in rows' => r[2] \in files'[r[1]]
    BY <1>1 DEF KInv, BlobInv, Unknown, disk
  <2>3. ASSUME NEW q \in Procs, call'[q].op = "fork", call'[q].source \in rows'
        PROVE  /\ call'[q].step \in {"mkdir", "lock", "copy"} => call'[q].cut \subseteq named'[call'[q].source]
               /\ At(q, "copy_rows")' => call'[q].cut \subseteq files'[Id(q)']
    <3>1. CASE q = p
      BY <2>3, <3>1 DEF At
    <3>2. CASE q # p
      <4>1. call'[q] = call[q] /\ Id(q)' = Id(q)
        BY <1>2, <3>2
      <4>2. call[q].source # Id(p)
        BY <1>6, <2>3, <3>2, <4>1 DEF Refers
      <4> QED
        BY <2>3, <4>1, <4>2 DEF KInv, BlobInv, TypeOK, At, disk
    <3> QED
      BY <3>1, <3>2
  <2> QED
    BY <2>1, <2>2, <2>3 DEF BlobInv
<1> QED
  BY <1>7, <1>8, <1>9, <1>10 DEF KInv

\* The two steps that save the rows of a new session
LEMMA BirthSteps ==
    ASSUME TypeOK, KInv, NEW p \in Procs, InsertRows(p) \/ (CopyRows(p) /\ call[p].source \in rows)
    PROVE  KInv'
<1>1. CASE InsertRows(p)
  <2>1. /\ call[p].step = "insert" /\ Go(p, "mkdir") /\ rows' = rows \cup {Id(p)}
        /\ UNCHANGED <<named, ready, used, disk, locked, lease, listed, workload>>
    BY <1>1 DEF InsertRows, At
  <2>2. call[p].op = "create" /\ Unborn(p) /\ Id(p) \in Sessions
    BY <2>1 DEF TypeOK, WellFormed, Unborn, At, Id
  <2>3. /\ Others(p) /\ call'[p].step = "mkdir" /\ call'[p].op = call[p].op /\ Id(p)' = Id(p)
        /\ call'[p].source = call[p].source
    BY <2>1, Goes DEF Id, AllSteps
  <2>4. named' \in [Sessions -> SUBSET Blobs] /\ named'[Id(p)] \subseteq files[Id(p)]
    BY <2>1, <2>2 DEF TypeOK, KInv, NewInv, Unknown
  <2>5. \A s \in Sessions : s # Id(p) => named'[s] = named[s]
    BY <2>1
  <2> QED
    BY <2>1, <2>2, <2>3, <2>4, <2>5, Births
<1>2. CASE CopyRows(p) /\ call[p].source \in rows
  <2>1. /\ call[p].step = "copy_rows" /\ Go(p, "load") /\ rows' = rows \cup {Id(p)}
        /\ named' = [named EXCEPT ![Id(p)] = call[p].cut]
        /\ UNCHANGED <<ready, used, disk, locked, lease, listed, workload>>
    BY <1>2 DEF CopyRows, At
  <2>2. call[p].op = "fork" /\ Unborn(p) /\ Id(p) \in Sessions /\ call[p].cut \subseteq Blobs
    BY <2>1 DEF TypeOK, WellFormed, Unborn, At, Id, CallOf
  <2>3. /\ Others(p) /\ call'[p].step = "load" /\ call'[p].op = call[p].op /\ Id(p)' = Id(p)
        /\ call'[p].source = call[p].source
    BY <2>1, Goes DEF Id, AllSteps
  <2>4. call[p].cut \subseteq files[Id(p)]
    BY <1>2, <2>1, <2>2 DEF KInv, BlobInv, At
  <2>5. /\ named' \in [Sessions -> SUBSET Blobs] /\ named'[Id(p)] \subseteq files[Id(p)]
        /\ \A s \in Sessions : s # Id(p) => named'[s] = named[s]
    BY <2>1, <2>2, <2>4 DEF TypeOK
  <2> QED
    BY <2>1, <2>2, <2>3, <2>5, Births DEF At
<1> QED
  BY <1>1, <1>2

\* A new call: of a session that nobody knows, or of one with a row
LEMMA Begins ==
    ASSUME TypeOK, KInv, NEW p \in Procs, Idle(p), NEW c \in CallOf, call' = [call EXCEPT ![p] = c], c.id \in Sessions,
           \/ /\ c.id \notin used /\ used' = used \cup {c.id}
              /\ <<c.op, c.step>> \in {<<"create", "insert">>, <<"fork", "point">>} /\ (c.op = "fork" => c.source \in rows)
           \/ c.id \in rows /\ used' = used /\ c.step = "ensure" /\ c.op \notin {"fork", "sweep"},
           UNCHANGED <<rows, named, ready, disk, locked, lease, listed, workload>>
    PROVE  KInv'
<1>1. Others(p) /\ call'[p] = c
  BY Starts
<1>2. \A q \in Procs : q # p => call'[q] = call[q] /\ Id(q)' = Id(q) /\ (Unborn(q)' <=> Unborn(q))
  BY <1>1 DEF Others, Id, Unborn, At
<1>3. \A q \in Procs, s \in Sessions : q # p => (Refers(q, s)' <=> Refers(q, s))
  BY <1>2 DEF Refers
<1>4. \A s \in Sessions : Refers(p, s)' => Refers(p, s) \/ s = c.id \/ s \in rows
  BY <1>1 DEF Refers
<1>5. Id(p)' = c.id /\ c.step \notin Working /\ c.step \in {"insert", "point", "ensure"} /\ c.op # "sweep"
  BY <1>1 DEF Id, Working
<1>6. NewInv'
  <2>1. ASSUME NEW s \in Sessions, NEW group \in SUBSET Procs, Unknown(s, group), s # c.id
        PROVE  Unknown(s, group)'
    <3>1. \A q \in group : Refers(q, s)' => Refers(q, s)
      BY <1>3, <1>4, <2>1 DEF Unknown
    <3> QED
      BY <2>1, <3>1 DEF Unknown
  <2>2. ASSUME NEW s \in Sessions \ used'
        PROVE  Unknown(s, Procs)' /\ s \notin folders'
    <3>1. Unknown(s, Procs) /\ s \notin folders /\ s # c.id
      BY <2>2 DEF KInv, NewInv, Unknown
    <3> QED
      BY <2>1, <3>1 DEF disk
  <2>3. ASSUME NEW q \in Procs, Unborn(q)'
        PROVE  /\ Unknown(Id(q), Procs \ {q})' /\ Id(q)' \in used' /\ Id(q)' \notin listed'[q]
               /\ At(q, "insert")' => Id(q)' \notin folders'
    <3>1. CASE q # p
      <4>1. Unborn(q) /\ Id(q)' = Id(q) /\ (At(q, "insert")' <=> At(q, "insert"))
        BY <1>2, <2>3, <3>1 DEF At
      <4>2. /\ Unknown(Id(q), Procs \ {q}) /\ Id(q) \in used /\ Id(q) \notin listed[q] /\ Id(q) \in Sessions
            /\ At(q, "insert") => Id(q) \notin folders
        BY <4>1 DEF KInv, NewInv, TypeOK
      <4>3. Id(q) # c.id
        BY <4>2 DEF Unknown
      <4>4. Unknown(Id(q), Procs \ {q})'
        BY <2>1, <4>1, <4>2, <4>3
      <4> QED
        BY <4>1, <4>2, <4>4 DEF disk
    <3>2. CASE q = p
      <4>1. c.id \notin used /\ used' = used \cup {c.id}
        BY <1>1, <2>3, <3>2 DEF Unborn, At
      <4>2. Unknown(c.id, Procs) /\ c.id \notin folders
        BY <4>1 DEF KInv, NewInv
      <4>3. c.id \notin listed[p]
        BY <4>2 DEF Unknown, Refers
      <4>4. Unknown(c.id, Procs \ {p})'
        BY <1>3, <4>2 DEF Unknown
      <4> QED
        BY <1>5, <3>2, <4>1, <4>2, <4>3, <4>4 DEF disk
    <3> QED
      BY <3>1, <3>2
  <2> QED
    BY <2>2, <2>3 DEF NewInv
<1>7. RemoveInv'
  BY <1>1, <1>2, <1>5 DEF KInv, RemoveInv
<1>8. LockInv'
  BY <1>1, <1>2, <1>5 DEF KInv, LockInv
<1>9. BlobInv'
  <2>1. BlobsKept' /\ \A r \in ready' : r[1] \in rows' => r[2] \in files'[r[1]]
    BY DEF KInv, BlobInv, BlobsKept, disk
  <2>2. ASSUME NEW q \in Procs, call'[q].op = "fork", call'[q].source \in rows'
        PROVE  /\ call'[q].step \in {"mkdir", "lock", "copy"} => call'[q].cut \subseteq named'[call'[q].source]
               /\ At(q, "copy_rows")' => call'[q].cut \subseteq files'[Id(q)']
    BY <1>1, <1>2, <1>5, <2>2 DEF KInv, BlobInv, At, disk
  <2> QED
    BY <2>1, <2>2 DEF BlobInv
<1> QED
  BY <1>6, <1>7, <1>8, <1>9 DEF KInv

\* The calls that a client begins
LEMMA BeginStep ==
    ASSUME TypeOK, KInv, NEW p \in Procs, Begin(p)
    PROVE  KInv'
<1>1. Idle(p) /\ UNCHANGED <<rows, named, ready, disk, locked, lease, listed, workload>>
  BY DEF Begin
<1>2. ASSUME NEW s \in Sessions \ used, used' = used \cup {s}, call' = [call EXCEPT ![p] = New("create", "insert", s)]
      PROVE  KInv'
  <2> DEFINE new == New("create", "insert", s)
  <2>1. new \in CallOf /\ new.op = "create" /\ new.step = "insert" /\ new.id = s
    BY Calls DEF Ops, AllSteps
  <2> HIDE DEF new
  <2>2. call' = [call EXCEPT ![p] = new]
    BY <1>2 DEF new
  <2> QED
    BY <1>1, <1>2, <2>1, <2>2, Begins
<1>3. ASSUME NEW s \in Sessions \ used, NEW source \in rows, used' = used \cup {s},
             call' = [call EXCEPT ![p] = [New("fork", "point", s) EXCEPT !.source = source]]
      PROVE  KInv'
  <2> DEFINE new == [New("fork", "point", s) EXCEPT !.source = source]
  <2>1. New("fork", "point", s) \in CallOf /\ New("fork", "point", s).op = "fork"
        /\ New("fork", "point", s).step = "point" /\ New("fork", "point", s).id = s
    BY Calls DEF Ops, AllSteps
  <2>2. source \in Sessions
    BY DEF TypeOK
  <2>3. new \in CallOf /\ new.op = "fork" /\ new.step = "point" /\ new.id = s /\ new.source = source
    BY <2>1, <2>2 DEF CallOf
  <2> HIDE DEF new
  <2>4. call' = [call EXCEPT ![p] = new]
    BY <1>3 DEF new
  <2> QED
    BY <1>1, <1>3, <2>3, <2>4, Begins
<1>4. ASSUME NEW op \in {"open", "delete", "put"}, NEW s \in rows, used' = used,
             call' = [call EXCEPT ![p] = New(op, "ensure", s)]
      PROVE  KInv'
  <2> DEFINE new == New(op, "ensure", s)
  <2>1. s \in Sessions
    BY DEF TypeOK
  <2>2. new \in CallOf /\ new.op = op /\ new.step = "ensure" /\ new.id = s
    BY <2>1, Calls DEF Ops, AllSteps
  <2> HIDE DEF new
  <2>3. call' = [call EXCEPT ![p] = new]
    BY <1>4 DEF new
  <2> QED
    BY <1>1, <1>4, <2>1, <2>2, <2>3, Begins
<1> QED
  BY <1>2, <1>3, <1>4 DEF Begin

\* A sweep begins while no fork runs.
LEMMA BeginSweepStep ==
    ASSUME TypeOK, KInv, Allowed, NoForkSweep, NEW p \in Procs, BeginSweep(p)
    PROVE  KInv'
<1>1. /\ Idle(p) /\ "sweep" \in workload.calls /\ listed' = [listed EXCEPT ![p] = folders]
      /\ UNCHANGED <<saved, disk, locked, lease, workload>>
  BY DEF BeginSweep
<1>2. Others(p) /\ call'[p].op = "sweep" /\ call'[p].step = "next"
  <2>1. /\ New("sweep", "next", "none") \in CallOf /\ New("sweep", "next", "none").op = "sweep"
        /\ New("sweep", "next", "none").step = "next"
    BY Calls DEF Ops, AllSteps
  <2>2. call' = [call EXCEPT ![p] = New("sweep", "next", "none")]
    BY DEF BeginSweep
  <2> QED
    BY <2>1, <2>2, Starts
<1>3. \A q \in Procs : q # p => /\ call'[q] = call[q] /\ Id(q)' = Id(q) /\ (Unborn(q)' <=> Unborn(q))
                                /\ listed'[q] = listed[q]
  BY <1>1, <1>2 DEF Others, Id, Unborn, At, TypeOK
<1>4. ~Unborn(p)' /\ listed'[p] = folders
  BY <1>1, <1>2 DEF Unborn, At, TypeOK
<1>5. \A q \in Procs, s \in Sessions : Refers(q, s)' => Refers(q, s) \/ (q = p /\ s \in folders)
  BY <1>2, <1>3, <1>4 DEF Refers
<1>6. \A q \in Procs : call[q].op # "fork"
  BY <1>1 DEF Allowed, NoForkSweep
<1>7. NewInv'
  <2>1. ASSUME NEW s \in Sessions, NEW group \in SUBSET Procs, Unknown(s, group), s \notin folders
        PROVE  Unknown(s, group)'
    BY <1>1, <1>5, <2>1 DEF Unknown, saved
  <2>2. ASSUME NEW s \in Sessions \ used'
        PROVE  Unknown(s, Procs)' /\ s \notin folders'
    <3>1. Unknown(s, Procs) /\ s \notin folders
      BY <1>1, <2>2 DEF KInv, NewInv, saved
    <3> QED
      BY <1>1, <2>1, <3>1 DEF disk
  <2>3. ASSUME NEW q \in Procs, Unborn(q)'
        PROVE  /\ Unknown(Id(q), Procs \ {q})' /\ Id(q)' \in used' /\ Id(q)' \notin listed'[q]
               /\ At(q, "insert")' => Id(q)' \notin folders'
    <3>1. q # p /\ Unborn(q) /\ Id(q)' = Id(q) /\ (At(q, "insert")' <=> At(q, "insert"))
      BY <1>3, <1>4, <2>3 DEF At
    <3>2. At(q, "insert")
      BY <1>6, <3>1 DEF Unborn
    <3>3. /\ Unknown(Id(q), Procs \ {q}) /\ Id(q) \in used /\ Id(q) \notin listed[q] /\ Id(q) \in Sessions
          /\ Id(q) \notin folders
      BY <3>1, <3>2 DEF KInv, NewInv, TypeOK
    <3>4. Unknown(Id(q), Procs \ {q})'
      BY <2>1, <3>1, <3>3
    <3> QED
      BY <1>1, <1>3, <3>1, <3>3, <3>4 DEF saved, disk
  <2> QED
    BY <2>2, <2>3 DEF NewInv
<1>8. RemoveInv'
  BY <1>1, <1>2, <1>3 DEF KInv, RemoveInv, saved
<1>9. LockInv'
  BY <1>1, <1>2, <1>3 DEF KInv, LockInv, saved, Working
<1>10. BlobInv'
  <2>1. BlobsKept' /\ \A r \in ready' : r[1] \in rows' => r[2] \in files'[r[1]]
    BY <1>1 DEF KInv, BlobInv, BlobsKept, disk, saved
  <2>2. \A q \in Procs : call'[q].op # "fork"
    BY <1>2, <1>3, <1>6
  <2> QED
    BY <2>1, <2>2 DEF BlobInv
<1> QED
  BY <1>7, <1>8, <1>9, <1>10 DEF KInv

\* An input names a blob that a put made durable.
LEMMA NameBlobStep ==
    ASSUME TypeOK, KInv, NameBlob
    PROVE  TypeOK' /\ KInv'
<1>1. PICK r \in ready : r[1] \in rows /\ named' = [named EXCEPT ![r[1]] = @ \cup {r[2]}] /\ ready' = ready \ {r}
  BY DEF NameBlob
<1>2. UNCHANGED <<rows, used, disk, locked, lease, call, listed, faults, workload>>
  BY DEF NameBlob
<1>3. r[1] \in Sessions /\ r[2] \in Blobs /\ r[2] \in files[r[1]]
  BY <1>1 DEF TypeOK, KInv, BlobInv
<1>4. /\ \A s \in Sessions : s # r[1] => named'[s] = named[s]
      /\ named'[r[1]] = named[r[1]] \cup {r[2]} /\ named' \in [Sessions -> SUBSET Blobs]
  BY <1>1, <1>3 DEF TypeOK
<1>5. TypeOK'
  BY <1>1, <1>2, <1>4 DEF TypeOK, disk
<1>6. NewInv'
  <2>1. \A s \in Sessions : \A group \in SUBSET Procs : Unknown(s, group) => Unknown(s, group)'
    BY <1>1, <1>2, <1>4 DEF Unknown, Refers
  <2>2. \A q \in Procs : Unborn(q)' => Unborn(q) /\ Id(q) \in Sessions
    BY <1>2 DEF Unborn, At, TypeOK, WellFormed, Id
  <2> QED
    BY <1>2, <2>1, <2>2 DEF KInv, NewInv, Id, At, disk
<1>7. RemoveInv' /\ LockInv'
  BY <1>2 DEF KInv, RemoveInv, LockInv, Id, At, Unborn
<1>8. BlobInv'
  <2>1. BlobsKept'
    BY <1>2, <1>3, <1>4 DEF KInv, BlobInv, BlobsKept, TypeOK, disk
  <2>2. \A m \in ready' : m[1] \in rows' => m[2] \in files'[m[1]]
    BY <1>1, <1>2 DEF KInv, BlobInv, disk
  <2>3. \A s \in Sessions : named[s] \subseteq named'[s]
    BY <1>4
  <2>4. ASSUME NEW q \in Procs, call'[q].op = "fork", call'[q].source \in rows'
        PROVE  /\ call'[q].step \in {"mkdir", "lock", "copy"} => call'[q].cut \subseteq named'[call'[q].source]
               /\ At(q, "copy_rows")' => call'[q].cut \subseteq files'[Id(q)']
    BY <1>2, <2>3, <2>4 DEF KInv, BlobInv, TypeOK, Id, At, disk
  <2> QED
    BY <2>1, <2>2, <2>4 DEF BlobInv
<1> QED
  BY <1>5, <1>6, <1>7, <1>8 DEF KInv

\* Every step of a process keeps the invariant.
LEMMA KeepStep ==
    ASSUME TypeOK, KInv, Allowed, NoForkSweep, NEW p \in Procs, Step(p)
    PROVE  KInv'
<1>1. CASE Begin(p) \/ BeginSweep(p) \/ SweepNext(p) \/ SweepEnds(p)
  BY <1>1, BeginStep, BeginSweepStep, SweepNextStep, EndingSteps
<1>2. CASE InsertRows(p) \/ ForkPoint(p) \/ Ensure(p) \/ CopyRows(p)
  BY <1>2, BirthSteps, ForkPointStep, EndingSteps, GoingSteps
<1>3. CASE MakeFolder(p) \/ TakeLock(p) \/ NoFolder(p) \/ Own(p) \/ CopyBlobs(p) \/ Load(p)
  BY <1>3, GoingSteps, TakeLockStep, EndingSteps, OwnStep
<1>4. CASE DeleteRows(p) \/ DropLock(p) \/ UndoRows(p) \/ RemoveFile(p) \/ RemoveFolder(p)
  BY <1>4, GoingSteps, StayingSteps, EndingSteps
<1>5. CASE WriteBlob(p) \/ Close(p) \/ CallFails(p) \/ Crash(p)
  BY <1>5, EndingSteps, StayingSteps
<1> QED
  BY <1>1, <1>2, <1>3, <1>4, <1>5 DEF Step

-----------------------------------------------------------------------------
(* The theorems *)

\* The first states
LEMMA Starting ==
    ASSUME Existing \subseteq Sessions, Init
    PROVE  IInv
<1>1. PICK blobs \in SUBSET Blobs :
        /\ named = [s \in Sessions |-> IF s \in Existing THEN blobs ELSE {}]
        /\ files = [s \in Sessions |-> IF s \in Existing THEN blobs \cup {"lock"} ELSE {}]
  BY DEF Init
<1>2. /\ rows = Existing /\ used = Existing /\ folders = Existing /\ ready = {} /\ locked = {} /\ lease = {}
      /\ call = [q \in Procs |-> NoCall] /\ listed = [q \in Procs |-> {}] /\ faults = 0
  BY DEF Init
<1>3. \A q \in Procs : /\ call[q] = NoCall /\ call[q] \in CallOf /\ WellFormed(call[q])
                       /\ call[q].op = "none" /\ call[q].step = "none" /\ listed[q] = {}
  BY <1>2, Calls
<1>4. TypeOK
  <2>1. named \in [Sessions -> SUBSET Blobs]
    BY <1>1
  <2>2. files \in [Sessions -> SUBSET (Blobs \cup {"lock"})]
    BY <1>1
  <2>3. call \in [Procs -> CallOf] /\ listed \in [Procs -> SUBSET Sessions]
    BY <1>2, <1>3
  <2> QED
    BY <1>2, <1>3, <2>1, <2>2, <2>3 DEF TypeOK
<1>5. Allowed
  BY <1>3 DEF Allowed
<1>6. NewInv
  BY <1>1, <1>2, <1>3 DEF NewInv, Unknown, Refers, Unborn, At
<1>7. RemoveInv /\ LockInv
  BY <1>2, <1>3 DEF RemoveInv, LockInv, Working
<1>8. BlobInv
  BY <1>1, <1>2, <1>3 DEF BlobInv, BlobsKept
<1> QED
  BY <1>4, <1>5, <1>6, <1>7, <1>8 DEF IInv, KInv

\* Every step keeps the invariant.
LEMMA Keeping ==
    ASSUME IInv, [Next]_vars
    PROVE  IInv' /\ (NoForkSweep' <=> NoForkSweep)
<1>1. CASE UNCHANGED vars
  <2> USE <1>1 DEF vars
  <2>1. TypeOK' /\ Allowed' /\ (NoForkSweep' <=> NoForkSweep)
    BY DEF IInv, TypeOK, Allowed, NoForkSweep
  <2>2. ASSUME KInv
        PROVE  KInv'
    <3>1. NewInv'
      BY <2>2 DEF KInv, NewInv, Unknown, Refers, Unborn, At, Id
    <3>2. RemoveInv' /\ LockInv'
      BY <2>2 DEF KInv, RemoveInv, LockInv, Unborn, At, Id
    <3>3. BlobInv'
      BY <2>2 DEF KInv, BlobInv, BlobsKept, At, Id
    <3> QED
      BY <3>1, <3>2, <3>3 DEF KInv
  <2> QED
    BY <2>1, <2>2 DEF IInv
<1>2. CASE NameBlob
  <2>1. call' = call /\ listed' = listed /\ workload' = workload
    BY <1>2 DEF NameBlob
  <2>2. Allowed' /\ (NoForkSweep' <=> NoForkSweep)
    BY <2>1 DEF IInv, Allowed, NoForkSweep
  <2>3. TypeOK'
    <3>1. PICK r \in ready : named' = [named EXCEPT ![r[1]] = @ \cup {r[2]}] /\ ready' = ready \ {r}
      BY <1>2 DEF NameBlob
    <3> QED
      BY <1>2, <3>1 DEF IInv, TypeOK, NameBlob, disk
  <2> QED
    BY <1>2, <2>2, <2>3, NameBlobStep DEF IInv
<1>3. ASSUME NEW p \in Procs, p \in workload.procs, Step(p)
      PROVE  IInv' /\ (NoForkSweep' <=> NoForkSweep)
  <2>1. TypeOK' /\ Allowed' /\ workload' = workload
    BY <1>3, TypeStep DEF IInv
  <2>2. NoForkSweep' <=> NoForkSweep
    BY <2>1 DEF NoForkSweep
  <2> QED
    BY <1>3, <2>1, <2>2, KeepStep DEF IInv
<1> QED
  BY <1>1, <1>2, <1>3 DEF Next, Done

\* The inductive invariant of the rows, the folders and the locks
THEOREM StoreInvariant ==
    ASSUME Existing \subseteq Sessions
    PROVE  Spec => []IInv
<1>1. Init => IInv
  BY Starting
<1>2. IInv /\ [Next]_vars => IInv'
  BY Keeping
<1> QED
  BY <1>1, <1>2, PTL DEF Spec

\* No two processes own a session that has its row, and its owner holds the lock of the file that
\* the next open tries (SessionLock in files.rs), unless a sweep starts beside a fork.
THEOREM OneOwnerHolds ==
    ASSUME Existing \subseteq Sessions
    PROVE  Spec => [](NoForkSweep => OneOwner)
<1>1. IInv => (NoForkSweep => OneOwner)
  BY DEF IInv, KInv, LockInv, OneOwner
<1> QED
  BY <1>1, StoreInvariant, PTL

\* Each blob that a saved event or input names is in the folder of its session (write_blob,
\* copy_blobs), unless a sweep starts beside a fork.
THEOREM BlobsHold ==
    ASSUME Existing \subseteq Sessions
    PROVE  Spec => [](NoForkSweep => BlobsKept)
<1>1. IInv => (NoForkSweep => BlobsKept)
  BY DEF IInv, KInv, BlobInv
<1> QED
  BY <1>1, StoreInvariant, PTL

\* Only a removal takes files away, and only those of a session without a row.
LEMMA FilesStay ==
    ASSUME IInv, NoForkSweep, [Next]_vars
    PROVE  FolderLives
<1> SUFFICES ASSUME NEW s \in Sessions, s \in rows, s \in rows'
             PROVE  files[s] \subseteq files'[s]
  BY DEF FolderLives
<1>f. files \in [Sessions -> SUBSET (Blobs \cup {"lock"})]
  BY DEF IInv, TypeOK
<1>1. CASE files' = files
  BY <1>1
<1>2. ASSUME NEW p \in Procs, TakeLock(p) \/ CopyBlobs(p) \/ WriteBlob(p)
      PROVE  files[s] \subseteq files'[s]
  BY <1>f, <1>2 DEF TakeLock, CopyBlobs, WriteBlob
<1>3. ASSUME NEW p \in Procs, RemoveFile(p)
      PROVE  files[s] \subseteq files'[s]
  <2>1. s # Id(p)
    BY <1>3 DEF RemoveFile, At, IInv, KInv, RemoveInv
  <2> QED
    BY <1>f, <1>3, <2>1 DEF RemoveFile
<1>4. \/ files' = files
      \/ \E p \in Procs : TakeLock(p) \/ CopyBlobs(p) \/ WriteBlob(p) \/ RemoveFile(p)
  BY DEF Next, NameBlob, Done, vars, disk, Step, Begin, BeginSweep, InsertRows, ForkPoint, Ensure, SweepNext, SweepEnds,
         MakeFolder, NoFolder, Own, CopyRows, Load, DeleteRows, DropLock, UndoRows, RemoveFolder, Close, CallFails, Crash
<1> QED
  BY <1>1, <1>2, <1>3, <1>4

\* "A session folder lives as long as its session" (read_blob in files.rs): no step takes a file of a
\* session that has its row and keeps it, unless a sweep starts beside a fork.
THEOREM FoldersLive ==
    ASSUME Existing \subseteq Sessions
    PROVE  Spec => [][NoForkSweep => FolderLives]_vars
<1>1. IInv /\ [Next]_vars => [NoForkSweep => FolderLives]_vars
  BY FilesStay
<1> QED
  BY <1>1, StoreInvariant, PTL DEF Spec

-----------------------------------------------------------------------------
(* Deletes and owners *)

Creates(p) == call[p].op \in {"create", "fork"}

\* A creation keeps its session; a new one has a session that nobody knows.
LEMMA CreationSteps ==
    ASSUME TypeOK, NEW p \in Procs, Step(p)
    PROVE  Creates(p)' => (Creates(p) /\ Id(p)' = Id(p)) \/ Id(p)' \in Sessions \ used
<1>c. call \in [Procs -> CallOf] /\ call[p] \in CallOf
  BY DEF TypeOK
<1>end. ASSUME Ends(p)
        PROVE  Creates(p)' => Creates(p) /\ Id(p)' = Id(p)
  BY <1>end, EndsWell, Calls DEF Ends, Creates, Id, Ops, AllSteps
<1>go. ASSUME NEW step \in AllSteps, Go(p, step)
       PROVE  Creates(p)' => Creates(p) /\ Id(p)' = Id(p)
  BY <1>go, Goes DEF Creates, Id
<1>sweep. ASSUME NEW step \in AllSteps, NEW s \in Sessions \cup {"none"}, call' = [call EXCEPT ![p] = New("sweep", step, s)]
          PROVE  ~Creates(p)'
  <2>1. New("sweep", step, s) \in CallOf /\ New("sweep", step, s).op = "sweep"
    BY Calls DEF Ops
  <2> QED
    BY <1>sweep, <2>1, Starts DEF Creates
<1>1. CASE Begin(p)
  <2>1. ASSUME NEW s \in Sessions \ used, call' = [call EXCEPT ![p] = New("create", "insert", s)]
        PROVE  Id(p)' = s
    <3>1. New("create", "insert", s) \in CallOf /\ New("create", "insert", s).id = s
      BY Calls DEF Ops, AllSteps
    <3> QED
      BY <2>1, <3>1, Starts DEF Id
  <2>2. ASSUME NEW s \in Sessions \ used, NEW source \in rows,
               call' = [call EXCEPT ![p] = [New("fork", "point", s) EXCEPT !.source = source]]
        PROVE  Id(p)' = s
    <3>1. New("fork", "point", s) \in CallOf /\ New("fork", "point", s).id = s /\ source \in Sessions
      BY Calls DEF Ops, AllSteps, TypeOK
    <3>2. /\ [New("fork", "point", s) EXCEPT !.source = source] \in CallOf
          /\ [New("fork", "point", s) EXCEPT !.source = source].id = s
      BY <3>1 DEF CallOf
    <3> QED
      BY <2>2, <3>2, Starts DEF Id
  <2>3. ASSUME NEW op \in {"open", "delete", "put"}, NEW s \in rows, call' = [call EXCEPT ![p] = New(op, "ensure", s)]
        PROVE  ~Creates(p)'
    <3>1. New(op, "ensure", s) \in CallOf /\ New(op, "ensure", s).op = op
      BY Calls DEF Ops, AllSteps, TypeOK
    <3> QED
      BY <2>3, <3>1, Starts DEF Creates
  <2> QED
    BY <1>1, <2>1, <2>2, <2>3 DEF Begin
<1>2. CASE BeginSweep(p) \/ SweepNext(p)
  <2>1. CASE BeginSweep(p)
    BY <1>sweep, <2>1 DEF BeginSweep, AllSteps
  <2>2. CASE SweepNext(p)
    <3>1. PICK s \in listed[p] :
            call' = [call EXCEPT ![p] = IF s \in rows THEN New("sweep", "next", "none") ELSE New("sweep", "mkdir", s)]
      BY <2>2 DEF SweepNext
    <3>2. s \in Sessions
      BY DEF TypeOK
    <3>3. \/ call' = [call EXCEPT ![p] = New("sweep", "next", "none")]
          \/ call' = [call EXCEPT ![p] = New("sweep", "mkdir", s)]
      BY <3>1
    <3> QED
      BY <1>sweep, <3>2, <3>3 DEF AllSteps
  <2> QED
    BY <1>2, <2>1, <2>2
<1>3. CASE ForkPoint(p)
  <2>1. CASE call[p].source \in rows
    BY <1>3, <1>c, <2>1 DEF ForkPoint, Creates, Id, CallOf
  <2> QED
    BY <1>3, <1>end, <2>1, ReturnEnds DEF ForkPoint
<1>4. CASE TakeLock(p)
  <2>1. call[p].step = "lock" /\ call[p].op \in {"create", "fork", "open", "delete", "sweep"}
    BY <1>4 DEF TakeLock, At, TypeOK, WellFormed
  <2>2. AfterLock[call[p].op] \in AllSteps
    BY <2>1, AfterLocks DEF AllSteps
  <2> QED
    BY <1>4, <1>end, <1>go, <2>1, <2>2, ErrorEnds DEF TakeLock
<1>5. CASE \/ InsertRows(p) \/ Ensure(p) \/ MakeFolder(p) \/ CopyBlobs(p) \/ CopyRows(p)
           \/ DeleteRows(p) \/ DropLock(p) \/ UndoRows(p)
  BY <1>5, <1>end, <1>go, ReturnEnds
     DEF InsertRows, Ensure, MakeFolder, CopyBlobs, CopyRows, DeleteRows, DropLock, UndoRows, AllSteps
<1>6. CASE Load(p) \/ NoFolder(p)
  <2>1. call[p].step \in {"load", "lock"}
    BY <1>6 DEF Load, NoFolder, At
  <2> QED
    BY <1>6, <1>end, <1>go, <2>1, ErrorEnds DEF Load, NoFolder, AllSteps
<1>7. CASE SweepEnds(p) \/ Own(p) \/ WriteBlob(p) \/ Crash(p)
  BY <1>7, <1>end, ReturnEnds DEF SweepEnds, Own, WriteBlob, Crash
<1>8. CASE RemoveFolder(p)
  BY <1>8, <1>end, <1>sweep, ReturnEnds DEF RemoveFolder, AfterRemove, AllSteps
<1>9. CASE CallFails(p)
  BY <1>9, <1>end, ReturnEnds, ErrorEnds DEF CallFails
<1>10. CASE RemoveFile(p) \/ Close(p)
  BY <1>10 DEF RemoveFile, Close, Creates, Id
<1> QED
  BY <1>1, <1>2, <1>3, <1>4, <1>5, <1>6, <1>7, <1>8, <1>9, <1>10 DEF Step

\* A fork undoes its rows after a fault, or while it has none.
LEMMA UndoSteps ==
    ASSUME TypeOK, KInv, NEW p \in Procs, Step(p), call'[p].op = "fork", call'[p].step = "undo_rows"
    PROVE  faults < workload.faults \/ (Id(p)' \notin rows' /\ Id(p)' = Id(p))
<1>w. call \in [Procs -> CallOf] /\ call[p] \in CallOf /\ WellFormed(call[p])
  BY DEF TypeOK
<1>go. ASSUME NEW step \in AllSteps \ {"undo_rows"}, Go(p, step)
       PROVE  FALSE
  BY <1>go, Goes
<1>ret. ASSUME Return(p)
        PROVE  FALSE
  BY <1>ret, ReturnEnds, Calls
<1>new. ASSUME NEW op \in Ops, NEW step \in AllSteps \ {"undo_rows"}, NEW s \in Sessions \cup {"none"},
               call' = [call EXCEPT ![p] = New(op, step, s)]
        PROVE  FALSE
  <2>1. New(op, step, s) \in CallOf /\ New(op, step, s).step = step
    BY Calls
  <2> QED
    BY <1>new, <2>1, Starts
<1>none. ASSUME Unborn(p)
         PROVE  Id(p) \notin rows
  BY <1>none DEF KInv, NewInv, Unknown
<1>err. ASSUME NEW owned, AfterError(p, owned), call[p].step \notin {"none", "next"}
        PROVE  call[p].op = "fork" /\ Id(p)' = Id(p)
  <2>1. Ends(p)
    BY <1>err, ErrorEnds
  <2> QED
    BY <2>1, Calls DEF Ends, Id, Ops, AllSteps
<1>1. CASE CallFails(p) \/ Crash(p)
  BY <1>1 DEF CallFails, Crash, Fault
<1>2. CASE TakeLock(p) \/ NoFolder(p)
  <2>1. call[p].step = "lock" /\ call[p].op \in {"create", "fork", "open", "delete", "sweep"} /\ rows' = rows
    BY <1>2, <1>w DEF TakeLock, NoFolder, At, WellFormed, saved
  <2>2. AfterLock[call[p].op] \in AllSteps \ {"undo_rows"}
    BY <2>1, AfterLocks DEF AllSteps
  <2>3. \E owned : AfterError(p, owned)
    BY <1>2, <1>go, <2>2 DEF TakeLock, NoFolder
  <2>4. call[p].op = "fork" /\ Id(p)' = Id(p)
    BY <1>err, <2>1, <2>3
  <2> QED
    BY <1>none, <2>1, <2>4 DEF Unborn
<1>3. CASE CopyBlobs(p) \/ CopyRows(p)
  <2>1. call[p].step \in {"copy", "copy_rows"} /\ call[p].op = "fork"
    BY <1>3, <1>w DEF CopyBlobs, CopyRows, At, WellFormed
  <2>2. Go(p, "undo_rows") /\ rows' = rows
    BY <1>3, <1>go DEF CopyBlobs, CopyRows, AllSteps, saved
  <2>3. Id(p)' = Id(p)
    BY <2>2, Goes DEF AllSteps, Id
  <2> QED
    BY <1>none, <2>1, <2>2, <2>3 DEF Unborn
<1>4. CASE Load(p)
  <2>1. call[p].step = "load" /\ Id(p) \notin rows /\ AfterError(p, FALSE) /\ rows' = rows
    BY <1>4, <1>go DEF Load, At, AllSteps, saved
  <2> QED
    BY <1>err, <2>1
<1>5. CASE ForkPoint(p)
  BY <1>5, <1>w, <1>ret DEF ForkPoint, CallOf
<1>6. CASE Ensure(p) \/ InsertRows(p) \/ MakeFolder(p) \/ DeleteRows(p) \/ DropLock(p) \/ UndoRows(p)
  BY <1>6, <1>go, <1>ret DEF Ensure, InsertRows, MakeFolder, DeleteRows, DropLock, UndoRows, AllSteps
<1>7. CASE SweepEnds(p) \/ Own(p) \/ WriteBlob(p)
  BY <1>7, <1>ret DEF SweepEnds, Own, WriteBlob
<1>8. CASE RemoveFolder(p) \/ BeginSweep(p)
  BY <1>8, <1>ret, <1>new DEF RemoveFolder, AfterRemove, BeginSweep, Ops, AllSteps
<1>9. CASE RemoveFile(p) \/ Close(p)
  BY <1>9, <1>w, Calls DEF RemoveFile, Close, At, Idle
<1>10. CASE SweepNext(p)
  <2>1. PICK s \in listed[p] :
          call' = [call EXCEPT ![p] = IF s \in rows THEN New("sweep", "next", "none") ELSE New("sweep", "mkdir", s)]
    BY <1>10 DEF SweepNext
  <2>2. s \in Sessions
    BY DEF TypeOK
  <2>3. \/ call' = [call EXCEPT ![p] = New("sweep", "next", "none")]
        \/ call' = [call EXCEPT ![p] = New("sweep", "mkdir", s)]
    BY <2>1
  <2> QED
    BY <1>new, <2>2, <2>3 DEF Ops, AllSteps
<1>11. CASE Begin(p)
  <2>1. ASSUME NEW s \in Sessions, NEW source \in rows,
               call' = [call EXCEPT ![p] = [New("fork", "point", s) EXCEPT !.source = source]]
        PROVE  FALSE
    <3>1. New("fork", "point", s) \in CallOf /\ New("fork", "point", s).step = "point" /\ source \in Sessions
      BY Calls DEF Ops, AllSteps, TypeOK
    <3>2. /\ [New("fork", "point", s) EXCEPT !.source = source] \in CallOf
          /\ [New("fork", "point", s) EXCEPT !.source = source].step = "point"
      BY <3>1 DEF CallOf
    <3> QED
      BY <2>1, <3>2, Starts
  <2> QED
    BY <1>11, <1>new, <2>1 DEF Begin, Ops, AllSteps, TypeOK
<1> QED
  BY <1>1, <1>2, <1>3, <1>4, <1>5, <1>6, <1>7, <1>8, <1>9, <1>10, <1>11 DEF Step

\* A step of a process keeps what deletes rely on.
LEMMA OwnerStep ==
    ASSUME TypeOK, KInv, Allowed, OwnerInv, NEW p \in Procs, Step(p), workload' = workload
    PROVE  OwnerInv'
<1>t. call \in [Procs -> CallOf] /\ \A q \in Procs : WellFormed(call[q]) /\ faults \in Nat
  BY DEF TypeOK
<1>c. Others(p) /\ \A q \in Procs : q # p => call'[q] = call[q] /\ Id(q)' = Id(q) /\ (Creates(q)' <=> Creates(q))
  BY StepCalls DEF CallSteps, Others, Id, Creates
<1>p. Creates(p)' => (Creates(p) /\ Id(p)' = Id(p)) \/ Id(p)' \in Sessions \ used
  BY CreationSteps
<1>n. ASSUME NEW q \in Procs, Creates(q)
      PROVE  Id(q) \in Sessions /\ \A s \in Sessions \ used : Id(q) # s
  <2>1. call[q].step \notin {"none", "next"}
    BY <1>t, <1>n, Calls DEF Creates, WellFormed
  <2>2. Id(q) \in Sessions
    BY <1>t, <2>1 DEF WellFormed, Id
  <2>3. Refers(q, Id(q))
    BY <2>1 DEF Refers, Id
  <2> QED
    BY <2>2, <2>3 DEF KInv, NewInv, Unknown
<1>1. \A m, n \in Procs : Creates(m)' /\ Creates(n)' /\ m # n => Id(m)' # Id(n)'
  BY <1>c, <1>p, <1>n DEF OwnerInv, Creates
<1>2. ASSUME "open" \notin workload.calls, NEW q \in Procs, Creates(q)', NEW l \in lease'
      PROVE  l[2] # Id(q)'
  <2>1. CASE l \in lease
    <3>1. CASE Creates(q) /\ Id(q)' = Id(q)
      BY <1>2, <2>1, <3>1 DEF OwnerInv, Creates
    <3>2. CASE Id(q)' \in Sessions \ used
      BY <2>1, <3>2 DEF KInv, NewInv, Unknown
    <3> QED
      BY <1>2, <1>c, <1>p, <3>1, <3>2
  <2>2. CASE l \notin lease
    <3>1. Own(p) /\ l = <<p, Id(p)>>
      BY <1>2, <2>2
         DEF saved, disk, Step, Begin, BeginSweep, InsertRows, ForkPoint, Ensure, SweepNext, SweepEnds,
             MakeFolder, TakeLock, NoFolder, Own, CopyBlobs, CopyRows, Load, DeleteRows, DropLock, UndoRows, RemoveFile,
             RemoveFolder, WriteBlob, Close, CallFails, Crash
    <3>2. Creates(p)
      BY <1>2, <1>t, <3>1 DEF Own, At, WellFormed, Creates, Allowed
    <3>3. q # p
      BY <1>2, <3>1, ReturnEnds, Calls DEF Own, Creates
    <3> QED
      BY <1>2, <1>c, <3>1, <3>2, <3>3 DEF OwnerInv, Creates
  <2> QED
    BY <2>1, <2>2
<1>3. ASSUME workload.faults = 0, NEW q \in Procs, call'[q].op = "fork", call'[q].step = "undo_rows"
      PROVE  Id(q)' \notin rows'
  <2>1. CASE q = p
    BY <1>3, <1>t, <2>1, UndoSteps
  <2>2. CASE q # p
    <3>1. Creates(q) /\ Id(q)' = Id(q) /\ Id(q) \notin rows
      BY <1>3, <1>c, <2>2 DEF Creates, OwnerInv, At
    <3>2. ASSUME rows' \subseteq rows
          PROVE  Id(q) \notin rows'
      BY <3>1, <3>2
    <3>3. ASSUME InsertRows(p) \/ CopyRows(p)
          PROVE  Id(q) \notin rows'
      <4>1. Creates(p) /\ rows' \subseteq rows \cup {Id(p)}
        BY <1>t, <3>3 DEF InsertRows, CopyRows, At, WellFormed, Creates
      <4> QED
        BY <2>2, <3>1, <4>1 DEF OwnerInv, Creates
    <3>4. rows' \subseteq rows \/ InsertRows(p) \/ CopyRows(p)
      BY DEF saved, disk, Step, Begin, BeginSweep, ForkPoint, Ensure, SweepNext, SweepEnds,
             MakeFolder, TakeLock, NoFolder, Own, CopyBlobs, Load, DeleteRows, DropLock, UndoRows, RemoveFile,
             RemoveFolder, WriteBlob, Close, CallFails, Crash
    <3> QED
      BY <3>1, <3>2, <3>3, <3>4
  <2> QED
    BY <2>1, <2>2
<1> QED
  BY <1>1, <1>2, <1>3 DEF OwnerInv, Creates, At

\* Every step of the store keeps both invariants.
LEMMA OwnerKeeping ==
    ASSUME IInv, NoForkSweep => OwnerInv, [Next]_vars
    PROVE  NoForkSweep' => OwnerInv'
<1>1. CASE UNCHANGED vars \/ NameBlob
  <2>1. call' = call /\ lease' = lease /\ rows' = rows /\ workload' = workload
    BY <1>1 DEF vars, NameBlob
  <2> QED
    BY <2>1 DEF OwnerInv, NoForkSweep, Id, At
<1>2. ASSUME NEW p \in Procs, p \in workload.procs, Step(p)
      PROVE  NoForkSweep' => OwnerInv'
  <2>1. workload' = workload
    BY <1>2, TypeStep DEF IInv
  <2> QED
    BY <1>2, <2>1, OwnerStep DEF IInv, NoForkSweep
<1> QED
  BY <1>1, <1>2 DEF Next, Done

\* Rows go only under a lock that no owner has, or with the creation that failed.
LEMMA RowsStay ==
    ASSUME IInv, NoForkSweep, NoCreateOpen, OwnerInv, [Next]_vars
    PROVE  DeletesOnlyFree
<1> SUFFICES ASSUME NEW s \in rows \ rows', NEW q \in Procs, <<q, s>> \in lease
             PROVE  FALSE
  BY DEF DeletesOnlyFree
<1>1. PICK p \in Procs : DeleteRows(p) \/ UndoRows(p)
  BY DEF saved, disk, vars, Next, NameBlob, Done, Step, Begin, BeginSweep, InsertRows, ForkPoint, Ensure, SweepNext,
         SweepEnds, MakeFolder, TakeLock, NoFolder, Own, CopyBlobs, CopyRows, Load, DropLock, RemoveFile, RemoveFolder,
         WriteBlob, Close, CallFails, Crash
<1>2. s = Id(p) /\ s \in rows
  BY <1>1 DEF DeleteRows, UndoRows
<1>3. CASE DeleteRows(p)
  <2>1. <<p, s>> \in locked /\ <<p, s>> \notin lease
    BY <1>2, <1>3 DEF DeleteRows, At, IInv, KInv, LockInv, Working
  <2>2. <<q, s>> \in locked
    BY <1>2 DEF IInv, KInv, LockInv
  <2>3. <<q, s>> = <<p, s>>
    BY <2>1, <2>2 DEF IInv, KInv, LockInv
  <2> QED
    BY <2>1, <2>3
<1>4. CASE UndoRows(p)
  <2>1. call[p].op \in {"create", "fork"} /\ call[p].op \in workload.calls /\ At(p, "undo_rows")
    BY <1>4 DEF UndoRows, At, IInv, TypeOK, WellFormed, Allowed
  <2>2. CASE "open" \notin workload.calls
    BY <1>2, <2>1, <2>2 DEF OwnerInv
  <2>3. CASE "open" \in workload.calls
    BY <1>2, <2>1, <2>3 DEF OwnerInv, NoCreateOpen
  <2> QED
    BY <2>2, <2>3
<1> QED
  BY <1>1, <1>3, <1>4

\* No call deletes the rows of a session that a process owns (delete_session takes the lock, a failed
\* creation undoes its own), unless a sweep starts beside a fork or an open beside a creation that
\* can fail.
THEOREM OwnedRowsStay ==
    ASSUME Existing \subseteq Sessions
    PROVE  Spec => [][NoForkSweep /\ NoCreateOpen => DeletesOnlyFree]_vars
<1>1. Init => (NoForkSweep => OwnerInv)
  <2> SUFFICES ASSUME Init
               PROVE  OwnerInv
    OBVIOUS
  <2>1. lease = {} /\ \A q \in Procs : call[q].op = "none"
    BY Calls DEF Init
  <2> QED
    BY <2>1 DEF OwnerInv
<1>2. IInv /\ (NoForkSweep => OwnerInv) /\ [Next]_vars => (NoForkSweep' => OwnerInv')
  BY OwnerKeeping
<1>3. IInv /\ (NoForkSweep => OwnerInv) /\ [Next]_vars => [NoForkSweep /\ NoCreateOpen => DeletesOnlyFree]_vars
  BY RowsStay
<1> QED
  BY <1>1, <1>2, <1>3, StoreInvariant, PTL DEF Spec

(***************************************************************************)
(* Theorems about the saved events (ContextLoad), for every history        *)
(***************************************************************************)
CONSTANT Histories
VARIABLES events, row, running, history
Context == INSTANCE ContextLoad

\* A load is a loop over the events, and the walk back another: each is a recursive function of the
\* number of rounds.  What holds before a loop and after each round holds at its end (EachRound).
\* The invariant of the walk back is that a load makes of it, and of the context before it, the same
\* blocks after each event (WalkStep, Rest).

(* Loops *)

\* The order of the numbers of events
Before == {p \in Nat \X Nat : p[1] < p[2]}

\* A set of numbers that is not empty has a least number.
LEMMA OldestOf ==
    ASSUME NEW S \in SUBSET Nat, S # {}
    PROVE  Context!Oldest(S) \in S /\ \A j \in S : Context!Oldest(S) <= j
<1>1. IsWellFoundedOn(Before, Nat)
  <2>1. Before = OpToRel(<, Nat)
    BY DEF Before, OpToRel
  <2> QED
    BY <2>1, NatLessThanWellFounded
<1>2. PICK x \in S : \A y \in S : ~(<<y, x>> \in Before)
  BY <1>1, WFMin
<1>3. ASSUME NEW y \in S
      PROVE  x <= y
  <2>1. x \in Nat /\ y \in Nat /\ <<y, x>> \notin Before
    BY <1>2
  <2> QED
    BY <2>1 DEF Before
<1> QED
  BY <1>3 DEF Context!Oldest

\* What holds before a loop and after each round of it holds in each round.
LEMMA EachRound ==
    ASSUME NEW N \in Nat, NEW S, 0 \in S, \A n \in 1 .. N : n - 1 \in S => n \in S
    PROVE  \A n \in 0 .. N : n \in S
<1> DEFINE others == {n \in 0 .. N : n \notin S}
<1> SUFFICES ASSUME others # {}
             PROVE  FALSE
  OBVIOUS
<1>1. others \in SUBSET Nat
  OBVIOUS
<1>2. PICK x \in others : \A y \in others : x <= y
  BY <1>1, OldestOf
<1>3. x \in 1 .. N /\ x - 1 \in 0 .. N
  BY <1>2
<1>4. x - 1 \in S
  BY <1>2, <1>3
<1> QED
  BY <1>2, <1>3, <1>4

\* `step` gives the value after round n from the value before it, and g the value after each round.
IsStep(step, N, V) == step \in [(1 .. N) \X V -> V]
IsLoop(g, N, V, base, step) ==
    g \in [0 .. N -> V] /\ g[0] = base /\ \A n \in 1 .. N : g[n] = step[<<n, g[n - 1]>>]

\* A loop of N rounds gives a value after each of them.
LEMMA LoopExists ==
    ASSUME NEW N \in Nat, NEW V, NEW base \in V, NEW step, IsStep(step, N, V)
    PROVE  \E g : IsLoop(g, N, V, base, step)
<1>0. step \in [(1 .. N) \X V -> V]
  BY DEF IsStep
<1> DEFINE Loop(m, g) == g \in [0 .. m -> V] /\ g[0] = base /\ \A n \in 1 .. m : g[n] = step[<<n, g[n - 1]>>]
           S == {m \in 0 .. N : \E g : Loop(m, g)}
<1>1. 0 \in S
  <2> DEFINE h == [n \in 0 .. 0 |-> base]
  <2>1. Loop(0, h)
    OBVIOUS
  <2> HIDE DEF h, Loop
  <2> QED
    BY <2>1
<1>2. ASSUME NEW m \in 1 .. N, m - 1 \in S
      PROVE  m \in S
  <2>1. PICK g : Loop(m - 1, g)
    BY <1>2
  <2> DEFINE h == [n \in 0 .. m |-> IF n < m THEN g[n] ELSE step[<<m, g[m - 1]>>]]
  <2>2. g[m - 1] \in V /\ step[<<m, g[m - 1]>>] \in V
    BY <1>0, <2>1
  <2>3. h \in [0 .. m -> V]
    BY <2>1, <2>2
  <2>4. h[0] = base
    BY <2>1
  <2>5. ASSUME NEW n \in 1 .. m
        PROVE  h[n] = step[<<n, h[n - 1]>>]
    <3>1. n - 1 \in 0 .. m /\ n - 1 < m /\ h[n - 1] = g[n - 1]
      OBVIOUS
    <3>2. CASE n < m
      BY <2>1, <3>1, <3>2
    <3>3. CASE n = m
      BY <3>1, <3>3
    <3> QED
      BY <3>2, <3>3
  <2>6. Loop(m, h)
    BY <2>3, <2>4, <2>5
  <2> HIDE DEF h, Loop
  <2> QED
    BY <2>6
<1>3. N \in S
  <2> HIDE DEF S
  <2> QED
    BY <1>1, <1>2, EachRound
<1> QED
  BY <1>3 DEF IsLoop

\* A function that follows the step where its values are of the type is a loop of that type.
LEMMA LoopTyped ==
    ASSUME NEW N \in Nat, NEW V, NEW base \in V, NEW step, IsStep(step, N, V),
           NEW f, f = [n \in 0 .. N |-> f[n]], f[0] = base,
           \A n \in 1 .. N : f[n - 1] \in V => f[n] = step[<<n, f[n - 1]>>]
    PROVE  IsLoop(f, N, V, base, step)
<1> DEFINE S == {n \in 0 .. N : f[n] \in V}
<1>1. ASSUME NEW n \in 1 .. N, n - 1 \in S
      PROVE  n \in S
  <2>1. f[n - 1] \in V
    BY <1>1
  <2>2. step[<<n, f[n - 1]>>] \in V
    BY <2>1 DEF IsStep
  <2>3. f[n] \in V
    BY <2>1, <2>2
  <2> QED
    BY <2>3
<1>2. 0 \in S
  OBVIOUS
<1>3. \A n \in 0 .. N : n \in S
  <2> HIDE DEF S
  <2> QED
    BY <1>1, <1>2, EachRound
<1>4. \A n \in 0 .. N : f[n] \in V
  BY <1>3
<1>5. f \in [0 .. N -> V]
  BY <1>4
<1>6. \A n \in 1 .. N : n - 1 \in 0 .. N
  OBVIOUS
<1> QED
  BY <1>4, <1>5, <1>6 DEF IsLoop

-----------------------------------------------------------------------------
(* Types *)

\* What a list of blocks has, the mark of a wrong count included
Block == Nat \X {"block", "head"} \X Nat \cup {"underflow"}
EndsOf(h) == {"none", "completed"} \cup h.ends
InputsOf(h) == {"none"} \cup h.tokens

CommitOf(h) ==
    {e \in [kind : {"commit"}, replaced : BOOLEAN, head : Seq(Block), keep : Nat, blocks : Seq(Block),
            answered : BOOLEAN, input : InputsOf(h), end : EndsOf(h)] : ~e.answered => e.input = "none"}
EventOf(h) == [kind : {"settings"}, settings : {"first", "second"}] \cup CommitOf(h)

\* What a session has in memory
MemoryOf(h) ==
    [context : Seq(Block), newest : EndsOf(h) \cup {"open", "empty"}, tokens : InputsOf(h),
     settings : {"none", "first", "second"}]

HeadOf == [head : Seq(Block), missing : Nat, at : Nat]
WalkOf == [parts : Seq(Block), missing : Nat, heads : Seq(HeadOf)]

\* The last n of a sequence
LEMMA LastOfType ==
    ASSUME NEW s \in Seq(Block), NEW n \in Nat
    PROVE  Context!LastOf(s, n) \in Seq(Block) /\ Len(Context!LastOf(s, n)) = IF n >= Len(s) THEN Len(s) ELSE n
<1>1. CASE n >= Len(s)
  BY <1>1 DEF Context!LastOf
<1>2. CASE n < Len(s)
  <2>1. Len(s) - n + 1 \in 1 .. Len(s) + 1
    BY <1>2
  <2> QED
    BY <1>2, <2>1 DEF Context!LastOf
<1> QED
  BY <1>1, <1>2

\* The blocks of the last n, by their places
LEMMA LastOfAt ==
    ASSUME NEW s \in Seq(Block), NEW n \in 0 .. Len(s), NEW i \in 1 .. n
    PROVE  Context!LastOf(s, n)[i] = s[Len(s) - n + i]
<1>1. CASE n = Len(s)
  BY <1>1 DEF Context!LastOf
<1>2. CASE n < Len(s)
  <2>1. Len(s) - n + 1 \in 1 .. Len(s) + 1
    BY <1>2
  <2> QED
    BY <1>2, <2>1 DEF Context!LastOf
<1> QED
  BY <1>1, <1>2

\* The last n of no more than n are all.
LEMMA LastOfAll ==
    ASSUME NEW s \in Seq(Block), NEW n \in Nat, n >= Len(s)
    PROVE  Context!LastOf(s, n) = s
BY DEF Context!LastOf

\* The last n are at the end, for any n.
LEMMA LastOfEach ==
    ASSUME NEW s \in Seq(Block), NEW n \in Nat, NEW a, a = Context!LastOf(s, n)
    PROVE  \A i \in 1 .. Len(a) : a[i] = s[Len(s) - Len(a) + i]
<1>1. CASE n >= Len(s)
  BY <1>1, LastOfAll
<1>2. CASE n < Len(s)
  <2>1. Len(a) = n /\ n \in 0 .. Len(s)
    BY <1>2, LastOfType
  <2> SUFFICES ASSUME NEW i \in 1 .. n
               PROVE  a[i] = s[Len(s) - n + i]
    BY <2>1
  <2> QED
    BY <2>1, LastOfAt
<1> QED
  BY <1>1, <1>2

\* A fact of the sequences: what makes two of them equal
LEMMA SameSeq ==
    ASSUME NEW s \in Seq(Block), NEW t \in Seq(Block), Len(s) = Len(t), \A i \in 1 .. Len(s) : s[i] = t[i]
    PROVE  s = t
OBVIOUS

\* A fact of the sequences: the blocks of two of them in a row
LEMMA Joined ==
    ASSUME NEW s \in Seq(Block), NEW t \in Seq(Block)
    PROVE  /\ s \o t \in Seq(Block) /\ Len(s \o t) = Len(s) + Len(t)
           /\ \A i \in 1 .. Len(s) : (s \o t)[i] = s[i]
           /\ \A i \in 1 .. Len(t) : (s \o t)[Len(s) + i] = t[i]
OBVIOUS

\* The last n of two sequences: those of the second, and what is still missing of the first.
LEMMA LastOfJoin ==
    ASSUME NEW s \in Seq(Block), NEW t \in Seq(Block), NEW n \in Nat
    PROVE  /\ n - Len(Context!LastOf(t, n)) \in Nat
           /\ Context!LastOf(s \o t, n) =
                 Context!LastOf(s, n - Len(Context!LastOf(t, n))) \o Context!LastOf(t, n)
<1>1. PICK u \in Seq(Block) : u = s \o t
  BY Joined
<1>2. /\ u \in Seq(Block) /\ Len(u) = Len(s) + Len(t)
      /\ \A i \in 1 .. Len(s) : u[i] = s[i]
      /\ \A i \in 1 .. Len(t) : u[Len(s) + i] = t[i]
  BY <1>1, Joined
<1>3. PICK b : b = Context!LastOf(t, n)
  OBVIOUS
<1>4. b \in Seq(Block) /\ Len(b) = IF n >= Len(t) THEN Len(t) ELSE n
  BY <1>3, LastOfType
<1>5. PICK m \in Nat : m = n - Len(b)
  <2>1. n - Len(b) \in Nat
    BY <1>4
  <2> QED
    BY <2>1
<1>6. m \in Nat /\ Len(s) \in Nat /\ Len(t) \in Nat
  BY <1>4, <1>5
<1>7. PICK a : a = Context!LastOf(s, m)
  OBVIOUS
<1>8. a \in Seq(Block) /\ Len(a) = IF m >= Len(s) THEN Len(s) ELSE m
  BY <1>6, <1>7, LastOfType
<1>9. PICK c : c = Context!LastOf(u, n)
  OBVIOUS
<1>10. c \in Seq(Block) /\ Len(c) = IF n >= Len(u) THEN Len(u) ELSE n
  BY <1>2, <1>9, LastOfType
<1>11. Len(c) = Len(a) + Len(b)
  <2>1. CASE n >= Len(t)
    <3>1. Len(b) = Len(t) /\ m = n - Len(t)
      BY <1>4, <1>5, <2>1
    <3>2. n >= Len(u) <=> m >= Len(s)
      BY <1>2, <1>6, <3>1
    <3> QED
      BY <1>2, <1>6, <1>8, <1>10, <3>1, <3>2
  <2>2. CASE n < Len(t)
    <3>1. Len(b) = n /\ m = 0
      BY <1>4, <1>5, <1>6, <2>2
    <3>2. Len(a) = 0
      BY <1>6, <1>8, <3>1
    <3>3. n < Len(u)
      BY <1>2, <1>6, <2>2
    <3> QED
      BY <1>2, <1>6, <1>10, <3>1, <3>2, <3>3
  <2> QED
    BY <1>6, <2>1, <2>2
<1>12. PICK d : d = a \o b
  OBVIOUS
<1>13. /\ d \in Seq(Block) /\ Len(d) = Len(a) + Len(b)
       /\ \A i \in 1 .. Len(a) : d[i] = a[i]
       /\ \A i \in 1 .. Len(b) : d[Len(a) + i] = b[i]
  BY <1>4, <1>8, <1>12, Joined
<1>14. \A i \in 1 .. Len(c) : c[i] = u[Len(u) - Len(c) + i]
  BY <1>9, LastOfEach
<1>15. \A i \in 1 .. Len(b) : b[i] = t[Len(t) - Len(b) + i]
  BY <1>3, LastOfEach
<1>16. \A i \in 1 .. Len(a) : a[i] = s[Len(s) - Len(a) + i]
  BY <1>6, <1>7, LastOfEach
<1>17. ASSUME NEW i \in 1 .. Len(c)
       PROVE  c[i] = d[i]
  <2>1. Len(a) \in Nat /\ Len(b) \in Nat /\ Len(a) <= Len(s) /\ Len(b) <= Len(t)
    BY <1>4, <1>6, <1>8
  <2>2. CASE i <= Len(a)
    <3>1. d[i] = a[i] /\ a[i] = s[Len(s) - Len(a) + i]
      BY <1>13, <1>16, <2>1, <2>2
    <3>2. Len(b) = Len(t)
      BY <1>4, <1>5, <1>6, <1>8, <2>2
    <3>3. Len(u) - Len(c) + i = Len(s) - Len(a) + i /\ Len(s) - Len(a) + i \in 1 .. Len(s)
      BY <1>2, <1>11, <1>6, <2>1, <2>2, <3>2
    <3> QED
      BY <1>2, <1>14, <3>1, <3>3
  <2>3. CASE i > Len(a)
    <3> DEFINE j == i - Len(a)
    <3>1. j \in 1 .. Len(b) /\ i = Len(a) + j
      BY <1>11, <2>1, <2>3
    <3>2. d[i] = b[j] /\ b[j] = t[Len(t) - Len(b) + j]
      BY <1>13, <1>15, <3>1
    <3>3. Len(u) - Len(c) + i = Len(s) + (Len(t) - Len(b) + j) /\ Len(t) - Len(b) + j \in 1 .. Len(t)
      BY <1>2, <1>6, <1>11, <2>1, <3>1
    <3>4. u[Len(s) + (Len(t) - Len(b) + j)] = t[Len(t) - Len(b) + j]
      BY <1>2, <3>3
    <3> QED
      BY <1>14, <3>2, <3>3, <3>4
  <2> QED
    BY <2>1, <2>2, <2>3, <1>10
<1>18. c = d
  BY <1>10, <1>11, <1>13, <1>17, SameSeq
<1> QED
  BY <1>1, <1>3, <1>5, <1>6, <1>7, <1>9, <1>12, <1>18

\* The last n of the last k
LEMMA LastOfLast ==
    ASSUME NEW s \in Seq(Block), NEW k \in Nat, NEW n \in Nat
    PROVE  Context!LastOf(Context!LastOf(s, k), n) = Context!LastOf(s, IF k < n THEN k ELSE n)
<1>1. CASE k >= Len(s)
  BY <1>1 DEF Context!LastOf
<1>2. CASE k < Len(s)
  <2>1. PICK a \in Seq(Block) : a = Context!LastOf(s, k)
    BY LastOfType
  <2>2. a \in Seq(Block) /\ Len(a) = k
    BY <1>2, <2>1, LastOfType
  <2>3. CASE n >= k
    <3>1. Context!LastOf(a, n) = a
      BY <2>2, <2>3, LastOfAll
    <3> QED
      BY <2>1, <2>3, <3>1
  <2>4. CASE n < k
    <3>1. PICK b : b = Context!LastOf(a, n)
      OBVIOUS
    <3>2. PICK c : c = Context!LastOf(s, n)
      OBVIOUS
    <3>3. b \in Seq(Block) /\ Len(b) = n
      BY <2>2, <2>4, <3>1, LastOfType
    <3>4. c \in Seq(Block) /\ Len(c) = n
      BY <1>2, <2>4, <3>2, LastOfType
    <3>5. ASSUME NEW i \in 1 .. n
          PROVE  b[i] = c[i]
      <4>1. b[i] = a[k - n + i]
        <5>1. \A j \in 1 .. Len(b) : b[j] = a[Len(a) - Len(b) + j]
          BY <3>1, LastOfEach
        <5> QED
          BY <2>2, <3>3, <5>1
      <4>2. k - n + i \in 1 .. k /\ k \in 0 .. Len(s) /\ n \in 0 .. Len(s)
        BY <1>2, <2>4
      <4>3. a[k - n + i] = s[Len(s) - k + (k - n + i)]
        BY <2>1, <4>2, LastOfAt
      <4>4. c[i] = s[Len(s) - n + i]
        BY <3>2, <4>2, LastOfAt
      <4> QED
        BY <4>1, <4>3, <4>4
    <3>6. b = c
      BY <3>3, <3>4, <3>5, SameSeq
    <3> QED
      BY <2>1, <2>4, <3>1, <3>2, <3>6
  <2> QED
    BY <2>2, <2>3, <2>4
<1> QED
  BY <1>1, <1>2

-----------------------------------------------------------------------------
(* What each loop does in a round *)

\* Two lists of blocks in a row, as one term
Join(a, b) == a \o b

\* t is what a session has in memory after event e, where it had s before it.
IsApplied(t, s, e) ==
    /\ ~Context!IsCommit(e) =>
         /\ t.context = s.context /\ t.newest = s.newest /\ t.tokens = s.tokens /\ t.settings = e.settings
    /\ Context!IsCommit(e) =>
         /\ t.context = Join(IF e.replaced THEN Join(e.head, Context!LastOf(s.context, e.keep)) ELSE s.context,
                              e.blocks)
         /\ t.newest = IF e.end = "none" THEN "open" ELSE e.end
         /\ t.tokens = IF e.answered THEN e.input ELSE IF e.replaced THEN "none" ELSE s.tokens
         /\ t.settings = s.settings

\* An event applied to what a session has in memory
LEMMA Applied ==
    ASSUME NEW h, NEW s \in MemoryOf(h), NEW e \in EventOf(h)
    PROVE  Context!Apply(s, e) \in MemoryOf(h) /\ IsApplied(Context!Apply(s, e), s, e)
<1>1. CASE e.kind = "settings"
  <2>1. e \in [kind : {"settings"}, settings : {"first", "second"}]
    BY <1>1 DEF EventOf, CommitOf
  <2>2. Context!Apply(s, e) = [s EXCEPT !.settings = e.settings]
    BY <1>1 DEF Context!Apply
  <2> QED
    BY <1>1, <2>1, <2>2 DEF MemoryOf, Context!IsCommit, IsApplied
<1>2. CASE e.kind # "settings"
  <2>1. e \in CommitOf(h) /\ Context!IsCommit(e)
    BY <1>2 DEF EventOf, CommitOf, Context!IsCommit
  <2> DEFINE kept == IF e.replaced THEN e.head \o Context!LastOf(s.context, e.keep) ELSE s.context
             newest == IF e.end = "none" THEN "open" ELSE e.end
             tokens == IF e.answered THEN e.input ELSE IF e.replaced THEN "none" ELSE s.tokens
  <2>2. Context!Apply(s, e) = [s EXCEPT !.context = kept \o e.blocks, !.newest = newest, !.tokens = tokens]
    BY <1>2, <2>1 DEF Context!Apply, CommitOf
  <2>3. Context!LastOf(s.context, e.keep) \in Seq(Block)
    BY <2>1, LastOfType DEF CommitOf, MemoryOf
  <2>4. kept \o e.blocks \in Seq(Block)
    <3>1. kept \in Seq(Block)
      BY <2>1, <2>3 DEF CommitOf, MemoryOf
    <3> HIDE DEF kept
    <3> QED
      BY <2>1, <3>1 DEF CommitOf
  <2>5. newest \in EndsOf(h) \cup {"open", "empty"}
    BY <2>1 DEF CommitOf
  <2>6. tokens \in InputsOf(h)
    BY <2>1 DEF CommitOf, MemoryOf, InputsOf
  <2> HIDE DEF kept, newest, tokens
  <2>7. /\ Context!Apply(s, e) \in MemoryOf(h)
        /\ Context!Apply(s, e).context = kept \o e.blocks /\ Context!Apply(s, e).newest = newest
        /\ Context!Apply(s, e).tokens = tokens /\ Context!Apply(s, e).settings = s.settings
    BY <2>2, <2>4, <2>5, <2>6 DEF MemoryOf
  <2>8. Context!Apply(s, e).context =
          Join(IF e.replaced THEN Join(e.head, Context!LastOf(s.context, e.keep)) ELSE s.context, e.blocks)
    BY <2>7 DEF kept, Join
  <2> QED
    BY <2>1, <2>7, <2>8 DEF newest, tokens, IsApplied
<1> QED
  BY <1>1, <1>2

\* The replay of the events
LEMMA ReplayedLoop ==
    ASSUME NEW h, NEW log \in Seq(EventOf(h))
    PROVE  /\ Context!Replayed(log) \in [0 .. Len(log) -> MemoryOf(h)]
           /\ Context!Replayed(log)[0] = Context!Fresh
           /\ \A n \in 1 .. Len(log) :
                Context!Replayed(log)[n] = Context!Apply(Context!Replayed(log)[n - 1], log[n])
<1> DEFINE N == Len(log)
           V == MemoryOf(h)
           step == [p \in (1 .. N) \X V |-> Context!Apply(p[2], log[p[1]])]
           Body(f) == [n \in 0 .. N |-> IF n = 0 THEN Context!Fresh ELSE Context!Apply(f[n - 1], log[n])]
<1>1. Context!Fresh \in V
  BY DEF Context!Fresh, MemoryOf, InputsOf
<1>2. \A n \in 1 .. N : log[n] \in EventOf(h)
  OBVIOUS
<1>3. \A v \in V, n \in 1 .. N : Context!Apply(v, log[n]) \in V
  BY <1>2, Applied
<1>4. N \in Nat
  OBVIOUS
<1> HIDE DEF V, N
<1>5. IsStep(step, N, V)
  BY <1>3 DEF IsStep
<1> HIDE DEF step
<1>6. PICK g : IsLoop(g, N, V, Context!Fresh, step)
  BY <1>1, <1>4, <1>5, LoopExists
<1>7. g = Body(g)
  <2>1. \A n \in 1 .. N : g[n] = Context!Apply(g[n - 1], log[n])
    <3> TAKE n \in 1 .. N
    <3>1. n - 1 \in 0 .. N
      BY <1>4
    <3>2. <<n, g[n - 1]>> \in (1 .. N) \X V
      BY <1>6, <3>1 DEF IsLoop
    <3> QED
      BY <1>6, <3>2 DEF step, IsLoop
  <2> QED
    BY <1>4, <1>6, <2>1 DEF IsLoop
<1>8. Context!Replayed(log) = CHOOSE f : f = Body(f)
  BY DEF Context!Replayed, N
<1>9. Context!Replayed(log) = Body(Context!Replayed(log))
  <2> HIDE DEF Body
  <2> QED
    BY <1>7, <1>8
<1>10. /\ Context!Replayed(log) = [n \in 0 .. N |-> Context!Replayed(log)[n]]
       /\ Context!Replayed(log)[0] = Context!Fresh
       /\ \A n \in 1 .. N : Context!Replayed(log)[n] = Context!Apply(Context!Replayed(log)[n - 1], log[n])
  <2> DEFINE R == Context!Replayed(log)
  <2>1. R = [n \in 0 .. N |-> IF n = 0 THEN Context!Fresh ELSE Context!Apply(R[n - 1], log[n])]
    BY <1>9
  <2> HIDE DEF R
  <2>2. /\ R = [n \in 0 .. N |-> R[n]] /\ R[0] = Context!Fresh
        /\ \A n \in 1 .. N : R[n] = Context!Apply(R[n - 1], log[n])
    BY <1>4, <2>1
  <2> QED
    BY <2>2 DEF R
<1>11. \A n \in 1 .. N : Context!Replayed(log)[n - 1] \in V =>
         Context!Replayed(log)[n] = step[<<n, Context!Replayed(log)[n - 1]>>]
  BY <1>10 DEF step
<1>12. IsLoop(Context!Replayed(log), N, V, Context!Fresh, step)
  BY <1>1, <1>4, <1>5, <1>10, <1>11, LoopTyped
<1> QED
  BY <1>10, <1>12 DEF N, V, IsLoop

\* A commit taken on the walk back
LEMMA TakenBack ==
    ASSUME NEW h, NEW w \in WalkOf, NEW e \in CommitOf(h),
           NEW part, part = Context!LastOf(e.blocks, w.missing),
           NEW missing, missing = w.missing - Len(part),
           NEW parts, parts = Join(part, w.parts)
    PROVE  /\ Context!TakeBack(w, e) \in WalkOf
           /\ part \in Seq(Block) /\ missing \in Nat /\ parts \in Seq(Block)
           /\ w.missing = 0 => Context!TakeBack(w, e) = w
           /\ w.missing > 0 /\ ~(e.replaced /\ missing > 0) =>
                /\ Context!TakeBack(w, e).parts = parts
                /\ Context!TakeBack(w, e).missing = missing
                /\ Context!TakeBack(w, e).heads = w.heads
           /\ w.missing > 0 /\ e.replaced /\ missing > 0 =>
                /\ Context!TakeBack(w, e).parts = parts
                /\ Context!TakeBack(w, e).missing = IF e.keep < missing THEN e.keep ELSE missing
                /\ Context!TakeBack(w, e).heads =
                     Append(w.heads, [head |-> e.head, missing |-> missing, at |-> Len(parts)])
<1>1. part \in Seq(Block) /\ w.missing \in Nat /\ missing \in Nat
  <2>1. e.blocks \in Seq(Block) /\ w.missing \in Nat
    BY DEF CommitOf, WalkOf
  <2>2. part \in Seq(Block) /\ Len(part) = IF w.missing >= Len(e.blocks) THEN Len(e.blocks) ELSE w.missing
    BY <2>1, LastOfType
  <2>3. Len(e.blocks) \in Nat
    BY <2>1
  <2> QED
    BY <2>1, <2>2, <2>3
<1>2. parts \in Seq(Block)
  BY <1>1, Joined DEF WalkOf, Join
<1>3. PICK head \in HeadOf : head = [head |-> e.head, missing |-> missing, at |-> Len(parts)]
  <2>1. e.head \in Seq(Block)
    BY DEF CommitOf
  <2>2. Len(parts) \in Nat
    BY <1>2
  <2> QED
    BY <1>1, <2>1, <2>2 DEF HeadOf
<1>4. w.heads \in Seq(HeadOf) /\ Append(w.heads, head) \in Seq(HeadOf) /\ e.keep \in Nat
        /\ e.replaced \in BOOLEAN
  BY DEF WalkOf, CommitOf
<1> DEFINE keep == IF e.keep < missing THEN e.keep ELSE missing
           heads == Append(w.heads, head)
<1>5. Context!TakeBack(w, e) =
        CASE w.missing = 0 -> w
          [] w.missing > 0 /\ e.replaced /\ missing > 0 ->
               [parts |-> parts, missing |-> keep, heads |-> heads]
          [] OTHER -> [w EXCEPT !.parts = parts, !.missing = missing]
  BY <1>3 DEF Context!TakeBack, Join
<1>6. keep \in Nat
  BY <1>1, <1>4
<1> HIDE DEF keep, heads
<1>7. CASE w.missing = 0
  <2>1. Context!TakeBack(w, e) = w
    BY <1>1, <1>5, <1>7
  <2> QED
    BY <1>1, <1>2, <1>7, <2>1
<1>8. CASE w.missing > 0 /\ e.replaced /\ missing > 0
  <2>1. Context!TakeBack(w, e) = [parts |-> parts, missing |-> keep, heads |-> heads]
    BY <1>1, <1>5, <1>8
  <2>2. Context!TakeBack(w, e) \in WalkOf
    BY <1>2, <1>4, <1>6, <2>1 DEF WalkOf, heads
  <2>3. /\ Context!TakeBack(w, e).parts = parts /\ Context!TakeBack(w, e).missing = keep
        /\ Context!TakeBack(w, e).heads = heads
    BY <2>1
  <2>4. w.missing # 0
    BY <1>1, <1>8
  <2> QED
    BY <1>1, <1>2, <1>3, <1>8, <2>2, <2>3, <2>4 DEF keep, heads
<1>9. CASE w.missing > 0 /\ ~(e.replaced /\ missing > 0)
  <2>1. Context!TakeBack(w, e) = [w EXCEPT !.parts = parts, !.missing = missing]
    BY <1>1, <1>5, <1>9
  <2>2. /\ Context!TakeBack(w, e) \in WalkOf /\ Context!TakeBack(w, e).parts = parts
        /\ Context!TakeBack(w, e).missing = missing /\ Context!TakeBack(w, e).heads = w.heads
    BY <1>1, <1>2, <2>1 DEF WalkOf
  <2>3. w.missing # 0
    BY <1>1, <1>9
  <2> QED
    BY <1>1, <1>2, <1>9, <2>2, <2>3
<1>10. w.missing = 0 \/ w.missing > 0
  BY <1>1
<1> QED
  BY <1>7, <1>8, <1>9, <1>10

\* The walk back
LEMMA WalkBackLoop ==
    ASSUME NEW h, NEW log \in Seq(EventOf(h)), NEW before \in 1 .. Len(log) + 1, NEW count \in Nat
    PROVE  /\ Context!WalkBack(log, before, count) \in [0 .. before - 1 -> WalkOf]
           /\ Context!WalkBack(log, before, count)[0] = [parts |-> <<>>, missing |-> count, heads |-> <<>>]
           /\ \A n \in 1 .. before - 1 :
                Context!WalkBack(log, before, count)[n] =
                  IF Context!IsCommit(log[before - n])
                        THEN Context!TakeBack(Context!WalkBack(log, before, count)[n - 1], log[before - n])
                  ELSE Context!WalkBack(log, before, count)[n - 1]
<1> DEFINE N == before - 1
           base == [parts |-> <<>>, missing |-> count, heads |-> <<>>]
           Round(w, n) == IF Context!IsCommit(log[before - n]) THEN Context!TakeBack(w, log[before - n]) ELSE w
           step == [p \in (1 .. N) \X WalkOf |-> Round(p[2], p[1])]
           Body(f) == [n \in 0 .. N |-> IF n = 0 THEN base ELSE Round(f[n - 1], n)]
           W == Context!WalkBack(log, before, count)
<1>1. base \in WalkOf
  BY DEF WalkOf
<1>2. \A n \in 1 .. N : Context!IsCommit(log[before - n]) => log[before - n] \in CommitOf(h)
  <2> SUFFICES ASSUME NEW n \in 1 .. N, Context!IsCommit(log[before - n])
               PROVE  log[before - n] \in CommitOf(h)
    OBVIOUS
  <2>1. before - n \in 1 .. Len(log)
    OBVIOUS
  <2>2. log[before - n] \in EventOf(h)
    BY <2>1
  <2> QED
    BY <2>2 DEF EventOf, Context!IsCommit
<1>3. \A w \in WalkOf, n \in 1 .. N : Round(w, n) \in WalkOf
  BY <1>2, TakenBack
<1>4. N \in Nat
  OBVIOUS
<1>5. W = CHOOSE f : f = Body(f)
  BY DEF Context!WalkBack
<1> HIDE DEF N, base, Round, W
<1>6. IsStep(step, N, WalkOf)
  BY <1>3 DEF IsStep
<1> HIDE DEF step
<1>7. PICK g : IsLoop(g, N, WalkOf, base, step)
  BY <1>1, <1>4, <1>6, LoopExists
<1>8. g = Body(g)
  <2>1. \A n \in 1 .. N : g[n] = Round(g[n - 1], n)
    <3> TAKE n \in 1 .. N
    <3>1. n - 1 \in 0 .. N
      BY <1>4
    <3>2. <<n, g[n - 1]>> \in (1 .. N) \X WalkOf
      BY <1>7, <3>1 DEF IsLoop
    <3> QED
      BY <1>7, <3>2 DEF step, IsLoop
  <2> QED
    BY <1>4, <1>7, <2>1 DEF IsLoop
<1>9. W = Body(W)
  <2> HIDE DEF Body
  <2> QED
    BY <1>5, <1>8
<1>10. /\ W = [n \in 0 .. N |-> W[n]] /\ W[0] = base
       /\ \A n \in 1 .. N : W[n] = Round(W[n - 1], n)
  BY <1>4, <1>9
<1>11. \A n \in 1 .. N : W[n - 1] \in WalkOf => W[n] = step[<<n, W[n - 1]>>]
  BY <1>10 DEF step
<1>12. IsLoop(W, N, WalkOf, base, step)
  BY <1>1, <1>4, <1>6, <1>10, <1>11, LoopTyped
<1> QED
  BY <1>10, <1>12 DEF N, W, base, Round, IsLoop

\* The part of a head that a load takes
LEMMA WithHeadType ==
    ASSUME NEW e \in HeadOf, NEW parts \in Seq(Block)
    PROVE  /\ Context!WithHead(e, parts) \in Seq(Block)
           /\ Len(parts) - e.at <= e.missing =>
                Context!WithHead(e, parts) =
                      Join(Context!LastOf(e.head, e.missing - (Len(parts) - e.at)), parts)
<1>1. e.head \in Seq(Block) /\ e.missing \in Nat /\ e.at \in Nat
  BY DEF HeadOf
<1>2. PICK n \in Int : n = e.missing - (Len(parts) - e.at)
  <2>1. Len(parts) \in Nat
    OBVIOUS
  <2>2. e.missing - (Len(parts) - e.at) \in Int
    BY <1>1, <2>1
  <2> QED
    BY <2>2
<1>3. Context!FromHead(e.missing, Len(parts), e.at) = n
  BY <1>2 DEF Context!FromHead
<1>4. CASE n < 0
  <2>1. Context!WithHead(e, parts) = <<"underflow">> \o parts
    BY <1>3, <1>4 DEF Context!WithHead
  <2>2. <<"underflow">> \in Seq(Block)
    BY DEF Block
  <2>3. Context!WithHead(e, parts) \in Seq(Block)
    BY <2>1, <2>2, Joined
  <2>4. ~(Len(parts) - e.at <= e.missing)
    <3>1. Len(parts) \in Nat
      OBVIOUS
    <3> QED
      BY <1>1, <1>2, <1>4, <3>1
  <2> QED
    BY <2>3, <2>4
<1>5. CASE n >= 0
  <2>1. Context!LastOf(e.head, n) \in Seq(Block)
    BY <1>1, <1>5, LastOfType
  <2>2. Context!WithHead(e, parts) = Join(Context!LastOf(e.head, n), parts)
    <3> DEFINE m == Context!FromHead(e.missing, Len(parts), e.at)
    <3>1. Context!WithHead(e, parts) = Join(IF m < 0 THEN <<"underflow">> ELSE Context!LastOf(e.head, m), parts)
      BY DEF Context!WithHead, Join
    <3> HIDE DEF m
    <3>2. m = n
      BY <1>3 DEF m
    <3> QED
      BY <1>5, <3>1, <3>2
  <2>3. Context!WithHead(e, parts) \in Seq(Block)
    BY <2>1, <2>2, Joined DEF Join
  <2> QED
    BY <1>2, <2>2, <2>3
<1> QED
  BY <1>4, <1>5

\* The heads, the last one of the walk first
LEMMA WithHeadsLoop ==
    ASSUME NEW parts \in Seq(Block), NEW heads \in Seq(HeadOf)
    PROVE  /\ Context!WithHeads(parts, heads) \in [0 .. Len(heads) -> Seq(Block)]
           /\ Context!WithHeads(parts, heads)[0] = parts
           /\ \A n \in 1 .. Len(heads) :
                Context!WithHeads(parts, heads)[n] =
                      Context!WithHead(heads[Len(heads) - n + 1], Context!WithHeads(parts, heads)[n - 1])
<1> DEFINE N == Len(heads)
           V == Seq(Block)
           Round(w, n) == Context!WithHead(heads[N - n + 1], w)
           step == [p \in (1 .. N) \X V |-> Round(p[2], p[1])]
           Body(f) == [n \in 0 .. N |-> IF n = 0 THEN parts ELSE Round(f[n - 1], n)]
           W == Context!WithHeads(parts, heads)
<1>1. parts \in V
  OBVIOUS
<1>2. \A n \in 1 .. N : heads[N - n + 1] \in HeadOf
  OBVIOUS
<1>3. \A w \in V, n \in 1 .. N : Round(w, n) \in V
  BY <1>2, WithHeadType
<1>4. N \in Nat
  OBVIOUS
<1>5. W = CHOOSE f : f = Body(f)
  BY DEF Context!WithHeads
<1> HIDE DEF N, V, Round, W
<1>6. IsStep(step, N, V)
  BY <1>3 DEF IsStep
<1> HIDE DEF step
<1>7. PICK g : IsLoop(g, N, V, parts, step)
  BY <1>1, <1>4, <1>6, LoopExists
<1>8. g = Body(g)
  <2>1. \A n \in 1 .. N : g[n] = Round(g[n - 1], n)
    <3> TAKE n \in 1 .. N
    <3>1. n - 1 \in 0 .. N
      BY <1>4
    <3>2. <<n, g[n - 1]>> \in (1 .. N) \X V
      BY <1>7, <3>1 DEF IsLoop
    <3> QED
      BY <1>7, <3>2 DEF step, IsLoop
  <2> QED
    BY <1>4, <1>7, <2>1 DEF IsLoop
<1>9. W = Body(W)
  <2> HIDE DEF Body
  <2> QED
    BY <1>5, <1>8
<1>10. /\ W = [n \in 0 .. N |-> W[n]] /\ W[0] = parts
       /\ \A n \in 1 .. N : W[n] = Round(W[n - 1], n)
  BY <1>4, <1>9
<1>11. \A n \in 1 .. N : W[n - 1] \in V => W[n] = step[<<n, W[n - 1]>>]
  BY <1>10 DEF step
<1>12. IsLoop(W, N, V, parts, step)
  BY <1>1, <1>4, <1>6, <1>10, <1>11, LoopTyped
<1> QED
  BY <1>10, <1>12 DEF N, V, W, Round, IsLoop

\* The head that comes last is taken first.
LEMMA WithHeadsAppend ==
    ASSUME NEW parts \in Seq(Block), NEW heads \in Seq(HeadOf), NEW e \in HeadOf
    PROVE  Context!WithHeads(parts, Append(heads, e))[Len(heads) + 1] =
             Context!WithHeads(Context!WithHead(e, parts), heads)[Len(heads)]
<1>1. PICK more \in Seq(HeadOf) : more = Append(heads, e)
  <2>1. Append(heads, e) \in Seq(HeadOf)
    OBVIOUS
  <2> QED
    BY <2>1
<1>2. /\ Len(more) = Len(heads) + 1 /\ Len(heads) \in Nat /\ more[Len(heads) + 1] = e
      /\ \A k \in 1 .. Len(heads) : more[k] = heads[k]
  BY <1>1
<1>3. Context!WithHead(e, parts) \in Seq(Block)
  BY WithHeadType
<1> DEFINE A == Context!WithHeads(parts, more)
           B == Context!WithHeads(Context!WithHead(e, parts), heads)
           S == {n \in 0 .. Len(heads) : A[n + 1] = B[n]}
<1>4. A[0] = parts /\ \A n \in 1 .. Len(more) : A[n] = Context!WithHead(more[Len(more) - n + 1], A[n - 1])
  BY WithHeadsLoop
<1>5. /\ B[0] = Context!WithHead(e, parts)
      /\ \A n \in 1 .. Len(heads) : B[n] = Context!WithHead(heads[Len(heads) - n + 1], B[n - 1])
  BY <1>3, WithHeadsLoop
<1> HIDE DEF A, B
<1>6. 0 \in S
  <2>1. A[1] = Context!WithHead(more[Len(more) - 1 + 1], A[1 - 1])
    BY <1>2, <1>4
  <2>2. A[1] = Context!WithHead(e, parts)
    BY <1>2, <1>4, <2>1
  <2> QED
    BY <1>2, <1>5, <2>2
<1>7. ASSUME NEW n \in 1 .. Len(heads), n - 1 \in S
      PROVE  n \in S
  <2>1. A[n] = B[n - 1]
    BY <1>2, <1>7
  <2>2. A[n + 1] = Context!WithHead(more[Len(more) - (n + 1) + 1], A[n + 1 - 1])
    <3>1. n + 1 \in 1 .. Len(more)
      BY <1>2
    <3> QED
      BY <1>4, <3>1
  <2>3. Len(more) - (n + 1) + 1 = Len(heads) - n + 1 /\ Len(heads) - n + 1 \in 1 .. Len(heads) /\ n + 1 - 1 = n
    BY <1>2
  <2>4. A[n + 1] = Context!WithHead(heads[Len(heads) - n + 1], B[n - 1])
    BY <1>2, <2>1, <2>2, <2>3
  <2>5. A[n + 1] = B[n]
    BY <1>5, <2>4
  <2> QED
    BY <1>2, <2>5
<1>8. Len(heads) \in S
  <2> HIDE DEF S
  <2>1. \A n \in 0 .. Len(heads) : n \in S
    BY <1>2, <1>6, <1>7, EachRound
  <2> QED
    BY <1>2, <2>1
<1> QED
  BY <1>1, <1>8 DEF A, B

\* The rows from the replacement on
LEMMA ReadFromLoop ==
    ASSUME NEW h, NEW log \in Seq(EventOf(h)), NEW first \in Nat, NEW start \in Seq(Block)
    PROVE  /\ Context!ReadFrom(log, first, start)[0] = start
           /\ \A n \in 1 .. Len(log) :
                Context!ReadFrom(log, first, start)[n] =
                  IF n >= first /\ Context!IsCommit(log[n])
                        THEN Join(Context!ReadFrom(log, first, start)[n - 1], log[n].blocks)
                  ELSE Context!ReadFrom(log, first, start)[n - 1]
<1> DEFINE N == Len(log)
           V == Seq(Block)
           Round(w, n) == IF n >= first /\ Context!IsCommit(log[n]) THEN Join(w, log[n].blocks) ELSE w
           step == [p \in (1 .. N) \X V |-> Round(p[2], p[1])]
           Body(f) == [n \in 0 .. N |-> IF n = 0 THEN start ELSE Round(f[n - 1], n)]
           W == Context!ReadFrom(log, first, start)
<1>1. start \in V
  OBVIOUS
<1>2. \A n \in 1 .. N : Context!IsCommit(log[n]) => log[n].blocks \in V
  <2> SUFFICES ASSUME NEW n \in 1 .. N, Context!IsCommit(log[n])
               PROVE  log[n].blocks \in V
    OBVIOUS
  <2>1. log[n] \in EventOf(h)
    OBVIOUS
  <2>2. log[n] \in CommitOf(h)
    BY <2>1 DEF EventOf, Context!IsCommit
  <2> QED
    BY <2>2 DEF CommitOf
<1>3. \A w \in V, n \in 1 .. N : Round(w, n) \in V
  BY <1>2, Joined DEF Join
<1>4. N \in Nat
  OBVIOUS
<1>5. W = CHOOSE f : f = Body(f)
  BY DEF Context!ReadFrom, Join
<1> HIDE DEF N, V, Round, W
<1>6. IsStep(step, N, V)
  BY <1>3 DEF IsStep
<1> HIDE DEF step
<1>7. PICK g : IsLoop(g, N, V, start, step)
  BY <1>1, <1>4, <1>6, LoopExists
<1>8. g = Body(g)
  <2>1. \A n \in 1 .. N : g[n] = Round(g[n - 1], n)
    <3> TAKE n \in 1 .. N
    <3>1. n - 1 \in 0 .. N
      BY <1>4
    <3>2. <<n, g[n - 1]>> \in (1 .. N) \X V
      BY <1>7, <3>1 DEF IsLoop
    <3> QED
      BY <1>7, <3>2 DEF step, IsLoop
  <2> QED
    BY <1>4, <1>7, <2>1 DEF IsLoop
<1>9. W = Body(W)
  <2> HIDE DEF Body
  <2> QED
    BY <1>5, <1>8
<1>10. /\ W = [n \in 0 .. N |-> W[n]] /\ W[0] = start
       /\ \A n \in 1 .. N : W[n] = Round(W[n - 1], n)
  <2>1. 0 \in 0 .. N /\ \A n \in 1 .. N : n \in 0 .. N /\ n # 0
    BY <1>4
  <2>2. PICK w : w = W
    OBVIOUS
  <2>3. w = [n \in 0 .. N |-> IF n = 0 THEN start ELSE Round(w[n - 1], n)]
    BY <1>9, <2>2
  <2>4. /\ w = [n \in 0 .. N |-> w[n]] /\ w[0] = start
        /\ \A n \in 1 .. N : w[n] = Round(w[n - 1], n)
    BY <2>1, <2>3
  <2> QED
    BY <2>2, <2>4
<1>11. \A n \in 1 .. N : W[n - 1] \in V => W[n] = step[<<n, W[n - 1]>>]
  BY <1>10 DEF step
<1>12. IsLoop(W, N, V, start, step)
  BY <1>1, <1>4, <1>6, <1>10, <1>11, LoopTyped
<1> QED
  BY <1>10 DEF N, W, Round

-----------------------------------------------------------------------------
(* The walk back *)

\* The type and the length of two lists in a row
LEMMA JoinType ==
    ASSUME NEW a \in Seq(Block), NEW b \in Seq(Block)
    PROVE  Join(a, b) \in Seq(Block) /\ Len(Join(a, b)) = Len(a) + Len(b) /\ Len(a) \in Nat /\ Len(b) \in Nat
BY Joined DEF Join

\* An empty list adds nothing.
LEMMA JoinEmpty ==
    ASSUME NEW a \in Seq(Block)
    PROVE  Join(<<>>, a) = a /\ Join(a, <<>>) = a
BY DEF Join

\* The order in which lists are put in a row does not matter.
LEMMA JoinJoin ==
    ASSUME NEW a \in Seq(Block), NEW b \in Seq(Block), NEW c \in Seq(Block)
    PROVE  Join(Join(a, b), c) = Join(a, Join(b, c))
BY DEF Join

\* The last none
LEMMA LastOfNone ==
    ASSUME NEW a \in Seq(Block)
    PROVE  Context!LastOf(a, 0) = <<>>
<1>1. Context!LastOf(a, 0) \in Seq(Block) /\ Len(Context!LastOf(a, 0)) = 0
  BY LastOfType
<1> QED
  BY <1>1

\* LastOfJoin, with two lists in a row as one term
LEMMA LastOfJoined ==
    ASSUME NEW a \in Seq(Block), NEW b \in Seq(Block), NEW n \in Nat
    PROVE  Context!LastOf(Join(a, b), n) =
             Join(Context!LastOf(a, n - Len(Context!LastOf(b, n))), Context!LastOf(b, n))
BY LastOfJoin DEF Join

\* What the rest of a load makes of a walk that has `context` before it
Rest(context, w) == Context!WithHeads(Join(Context!LastOf(context, w.missing), w.parts), w.heads)[Len(w.heads)]

\* A replacement on the walk: its head waits, and what it keeps is walked on.
LEMMA HeadStep ==
    ASSUME NEW w \in WalkOf, NEW context \in Seq(Block), NEW e \in HeadOf, NEW keep \in Nat,
           NEW parts \in Seq(Block), e.at = Len(parts),
           NEW next \in WalkOf, next.parts = parts, next.heads = Append(w.heads, e),
           next.missing = IF keep < e.missing THEN keep ELSE e.missing
    PROVE  Rest(context, next) =
             Context!WithHeads(Join(Context!LastOf(Join(e.head, Context!LastOf(context, keep)), e.missing),
                   parts), w.heads)[Len(w.heads)]
<1>1. e.head \in Seq(Block) /\ e.missing \in Nat /\ next.missing \in Nat /\ w.heads \in Seq(HeadOf)
  BY DEF HeadOf, WalkOf
<1>2. PICK kept \in Seq(Block) : kept = Context!LastOf(context, keep)
  BY LastOfType
<1>3. PICK got \in Seq(Block) : got = Context!LastOf(context, next.missing)
  BY <1>1, LastOfType
<1>4. Context!LastOf(kept, e.missing) = got
  BY <1>1, <1>2, <1>3, LastOfLast
<1>5. Len(got) \in Nat /\ e.missing - Len(got) \in Nat
  <2>1. Len(got) = IF next.missing >= Len(context) THEN Len(context) ELSE next.missing
    BY <1>1, <1>3, LastOfType
  <2>2. next.missing <= e.missing
    BY <1>1
  <2>3. Len(got) \in Nat /\ Len(context) \in Nat
    OBVIOUS
  <2> QED
    BY <1>1, <2>1, <2>2, <2>3
<1>6. PICK taken \in Seq(Block) : taken = Context!LastOf(e.head, e.missing - Len(got))
  BY <1>1, <1>5, LastOfType
<1>7. Context!LastOf(Join(e.head, kept), e.missing) = Join(taken, got)
  <2>1. PICK head \in Seq(Block) : head = e.head
    BY <1>1
  <2>2. PICK n \in Nat : n = e.missing
    BY <1>1
  <2>3. Context!LastOf(Join(head, kept), n) =
          Join(Context!LastOf(head, n - Len(Context!LastOf(kept, n))), Context!LastOf(kept, n))
    BY LastOfJoined
  <2> QED
    BY <1>4, <1>6, <2>1, <2>2, <2>3
<1>8. PICK all \in Seq(Block) : all = Join(got, parts)
  BY JoinType
<1>9. Context!WithHead(e, all) = Join(taken, all) /\ Context!WithHead(e, all) \in Seq(Block)
  <2>1. Len(all) = Len(got) + Len(parts) /\ Len(parts) \in Nat
    BY <1>8, JoinType
  <2>2. Len(all) - e.at = Len(got)
    BY <1>5, <2>1
  <2>3. Len(all) - e.at <= e.missing
    BY <1>1, <1>5, <2>2
  <2>4. Context!WithHead(e, all) = Join(Context!LastOf(e.head, e.missing - (Len(all) - e.at)), all)
    BY <2>3, WithHeadType
  <2> QED
    BY <1>6, <2>2, <2>4, WithHeadType
<1>10. Rest(context, next) = Context!WithHeads(all, Append(w.heads, e))[Len(w.heads) + 1]
  <2>1. Len(Append(w.heads, e)) = Len(w.heads) + 1
    BY <1>1
  <2> QED
    BY <1>3, <1>8, <2>1 DEF Rest
<1>11. Rest(context, next) = Context!WithHeads(Context!WithHead(e, all), w.heads)[Len(w.heads)]
  BY <1>1, <1>10, WithHeadsAppend
<1>12. Join(Join(taken, got), parts) = Join(taken, all)
  BY <1>8, JoinJoin
<1> QED
  BY <1>2, <1>7, <1>9, <1>11, <1>12

\* One event further back, a load still gets the same blocks.
LEMMA WalkStep ==
    ASSUME NEW h, NEW w \in WalkOf, NEW s \in MemoryOf(h), NEW e \in EventOf(h)
    PROVE  Rest(Context!Apply(s, e).context, w) =
             Rest(s.context, IF Context!IsCommit(e) THEN Context!TakeBack(w, e) ELSE w)
<1>1. CASE ~Context!IsCommit(e)
  BY <1>1, Applied DEF IsApplied
<1>2. CASE Context!IsCommit(e)
  <2>1. e \in CommitOf(h)
    BY <1>2 DEF EventOf, Context!IsCommit
  <2>2. /\ e.blocks \in Seq(Block) /\ e.head \in Seq(Block) /\ e.keep \in Nat /\ e.replaced \in BOOLEAN
        /\ s.context \in Seq(Block)
        /\ w.missing \in Nat /\ w.parts \in Seq(Block) /\ w.heads \in Seq(HeadOf)
    BY <2>1 DEF CommitOf, MemoryOf, WalkOf
  <2>3. PICK part : part = Context!LastOf(e.blocks, w.missing)
    OBVIOUS
  <2>4. PICK missing : missing = w.missing - Len(part)
    OBVIOUS
  <2>5. PICK parts : parts = Join(part, w.parts)
    OBVIOUS
  <2> DEFINE next == Context!TakeBack(w, e)
             past == IF e.replaced THEN Join(e.head, Context!LastOf(s.context, e.keep)) ELSE s.context
  <2>6. /\ next \in WalkOf
        /\ part \in Seq(Block) /\ missing \in Nat /\ parts \in Seq(Block)
        /\ w.missing = 0 => next = w
        /\ w.missing > 0 /\ ~(e.replaced /\ missing > 0) =>
             next.parts = parts /\ next.missing = missing /\ next.heads = w.heads
        /\ w.missing > 0 /\ e.replaced /\ missing > 0 =>
             /\ next.parts = parts /\ next.missing = IF e.keep < missing THEN e.keep ELSE missing
             /\ next.heads = Append(w.heads, [head |-> e.head, missing |-> missing, at |-> Len(parts)])
    BY <2>1, <2>3, <2>4, <2>5, TakenBack
  <2> HIDE DEF next
  <2>7. past \in Seq(Block)
    BY <2>2, LastOfType, JoinType
  <2>8. Context!Apply(s, e).context = Join(past, e.blocks)
    BY <1>2, Applied DEF IsApplied
  <2> HIDE DEF past
  <2>9. Rest(Context!Apply(s, e).context, w) =
          Context!WithHeads(Join(Context!LastOf(past, missing), parts), w.heads)[Len(w.heads)]
    <3>1. Context!LastOf(Join(past, e.blocks), w.missing) = Join(Context!LastOf(past, missing), part)
      BY <2>2, <2>3, <2>4, <2>7, LastOfJoined
    <3>2. Context!LastOf(past, missing) \in Seq(Block)
      BY <2>6, <2>7, LastOfType
    <3>3. Join(Join(Context!LastOf(past, missing), part), w.parts) = Join(Context!LastOf(past, missing), parts)
      BY <2>2, <2>5, <2>6, <3>2, JoinJoin
    <3> QED
      BY <2>8, <3>1, <3>3 DEF Rest
  <2>10. CASE w.missing = 0
    <3>1. next = w
      BY <2>6, <2>10
    <3>2. Context!Apply(s, e).context \in Seq(Block)
      BY <2>2, <2>7, <2>8, JoinType
    <3>3. Context!LastOf(Context!Apply(s, e).context, 0) = Context!LastOf(s.context, 0)
      BY <2>2, <3>2, LastOfNone
    <3> QED
      BY <1>2, <2>10, <3>1, <3>3 DEF Rest, next
  <2>11. CASE w.missing > 0 /\ ~(e.replaced /\ missing > 0)
    <3>1. Context!LastOf(past, missing) = Context!LastOf(s.context, missing)
      <4>1. CASE ~e.replaced
        BY <4>1 DEF past
      <4>2. CASE missing = 0
        BY <2>2, <2>7, <4>2, LastOfNone
      <4> QED
        BY <2>6, <2>11, <4>1, <4>2
    <3>2. next.parts = parts /\ next.missing = missing /\ next.heads = w.heads
      BY <2>6, <2>11
    <3> QED
      BY <1>2, <2>9, <3>1, <3>2 DEF Rest, next
  <2>12. CASE w.missing > 0 /\ e.replaced /\ missing > 0
    <3>1. PICK head \in HeadOf : head = [head |-> e.head, missing |-> missing, at |-> Len(parts)]
      <4>1. Len(parts) \in Nat
        BY <2>6
      <4> QED
        BY <2>2, <2>6, <4>1 DEF HeadOf
    <3>2. head.head = e.head /\ head.missing = missing /\ head.at = Len(parts)
      BY <3>1
    <3>3. /\ next.parts = parts /\ next.heads = Append(w.heads, head)
          /\ next.missing = IF e.keep < head.missing THEN e.keep ELSE head.missing
      BY <2>6, <2>12, <3>1, <3>2
    <3>4. Rest(s.context, next) =
            Context!WithHeads(Join(Context!LastOf(Join(head.head, Context!LastOf(s.context, e.keep)),
                  head.missing), parts), w.heads)[Len(w.heads)]
      <4>1. PICK keep \in Nat : keep = e.keep
        BY <2>2
      <4>2. PICK context \in Seq(Block) : context = s.context
        BY <2>2
      <4>3. PICK n \in WalkOf : n = next
        BY <2>6
      <4>4. PICK ps \in Seq(Block) : ps = parts
        BY <2>6
      <4>5. /\ n.parts = ps /\ n.heads = Append(w.heads, head) /\ head.at = Len(ps)
            /\ n.missing = IF keep < head.missing THEN keep ELSE head.missing
        BY <3>2, <3>3, <4>1, <4>3, <4>4
      <4>6. Rest(context, n) =
              Context!WithHeads(Join(Context!LastOf(Join(head.head, Context!LastOf(context, keep)),
                    head.missing), ps), w.heads)[Len(w.heads)]
        BY <4>5, HeadStep
      <4> QED
        BY <4>1, <4>2, <4>3, <4>4, <4>6
    <3>5. past = Join(e.head, Context!LastOf(s.context, e.keep))
      BY <2>12 DEF past
    <3> QED
      BY <1>2, <2>9, <3>2, <3>4, <3>5 DEF next
  <2> QED
    BY <2>2, <2>10, <2>11, <2>12
<1> QED
  BY <1>1, <1>2

\* The walk back gives the last blocks of the context before an event, whatever replacements it meets:
\* it takes no block twice and misses none.
LEMMA KeptIsLast ==
    ASSUME NEW h, NEW log \in Seq(EventOf(h)), NEW before \in 1 .. Len(log) + 1, NEW count \in Nat
    PROVE  Context!Kept(log, before, count) = Context!LastOf(Context!Replayed(log)[before - 1].context, count)
<1> DEFINE W == Context!WalkBack(log, before, count)
           R == Context!Replayed(log)
           N == before - 1
           S == {n \in 0 .. N : Rest(R[N - n].context, W[n]) = Context!LastOf(R[N].context, count)}
<1>1. /\ W \in [0 .. N -> WalkOf] /\ W[0] = [parts |-> <<>>, missing |-> count, heads |-> <<>>]
      /\ \A n \in 1 .. N : W[n] = IF Context!IsCommit(log[before - n])
            THEN Context!TakeBack(W[n - 1], log[before - n]) ELSE W[n - 1]
  BY WalkBackLoop
<1>2. /\ R \in [0 .. Len(log) -> MemoryOf(h)] /\ R[0] = Context!Fresh
      /\ \A n \in 1 .. Len(log) : R[n] = Context!Apply(R[n - 1], log[n])
  BY ReplayedLoop
<1>3. N \in 0 .. Len(log) /\ before = N + 1 /\ Len(log) \in Nat
  OBVIOUS
<1>4. Context!Kept(log, before, count) = Context!WithHeads(W[N].parts, W[N].heads)[Len(W[N].heads)]
  BY DEF Context!Kept
<1> HIDE DEF W, R, N
<1>5. 0 \in S
  <2>1. R[N].context \in Seq(Block)
    BY <1>2, <1>3 DEF MemoryOf
  <2>2. PICK last \in Seq(Block) : last = Context!LastOf(R[N].context, count)
    BY <2>1, LastOfType
  <2>3. <<>> \in Seq(HeadOf) /\ Len(<<>>) = 0
    OBVIOUS
  <2>4. Rest(R[N].context, W[0]) = Context!WithHeads(Join(last, <<>>), <<>>)[Len(<<>>)]
    BY <1>1, <2>2 DEF Rest
  <2>5. Join(last, <<>>) = last
    BY JoinEmpty
  <2>6. Context!WithHeads(last, <<>>)[0] = last
    BY <2>3, WithHeadsLoop
  <2>7. N - 0 = N /\ 0 \in 0 .. N
    BY <1>3
  <2> QED
    BY <2>2, <2>3, <2>4, <2>5, <2>6, <2>7
<1>6. ASSUME NEW n \in 1 .. N, n - 1 \in S
      PROVE  n \in S
  <2>1. N - (n - 1) = before - n /\ before - n \in 1 .. Len(log) /\ before - n - 1 = N - n
          /\ n \in 0 .. N /\ n - 1 \in 0 .. N
    BY <1>3
  <2>2. R[before - n] = Context!Apply(R[N - n], log[before - n])
    BY <1>2, <2>1
  <2>3. R[N - n] \in MemoryOf(h) /\ log[before - n] \in EventOf(h) /\ W[n - 1] \in WalkOf
    <3>1. N - n \in 0 .. Len(log)
      BY <1>3
    <3> QED
      BY <1>1, <1>2, <2>1, <3>1
  <2>4. Rest(Context!Apply(R[N - n], log[before - n]).context, W[n - 1]) =
          Rest(R[N - n].context, IF Context!IsCommit(log[before - n])
                THEN Context!TakeBack(W[n - 1], log[before - n]) ELSE W[n - 1])
    BY <2>3, WalkStep
  <2>5. Rest(R[before - n].context, W[n - 1]) = Rest(R[N - n].context, W[n])
    BY <1>1, <2>2, <2>4
  <2>6. Rest(R[before - n].context, W[n - 1]) = Context!LastOf(R[N].context, count)
    BY <1>6, <2>1
  <2> QED
    BY <2>1, <2>5, <2>6
<1>7. N \in S
  <2> HIDE DEF S
  <2>0. N \in Nat
    BY <1>3
  <2>1. \A n \in 0 .. N : n \in S
    BY <2>0, <1>5, <1>6, EachRound
  <2> QED
    BY <1>3, <2>1
<1>8. Rest(R[0].context, W[N]) = Context!LastOf(R[N].context, count)
  <2>1. N - N = 0
    BY <1>3
  <2> QED
    BY <1>7, <2>1
<1>9. Rest(R[0].context, W[N]) = Context!WithHeads(W[N].parts, W[N].heads)[Len(W[N].heads)]
  <2>1. W[N] \in WalkOf
    BY <1>1, <1>3
  <2>2. W[N].parts \in Seq(Block) /\ W[N].missing \in Nat
    BY <2>1 DEF WalkOf
  <2>3. R[0].context = <<>>
    BY <1>2 DEF Context!Fresh
  <2>4. Context!LastOf(<<>>, W[N].missing) = <<>>
    <3>1. <<>> \in Seq(Block) /\ Len(<<>>) = 0
      OBVIOUS
    <3>2. PICK none \in Seq(Block) : none = <<>>
      BY <3>1
    <3>3. PICK n \in Nat : n = W[N].missing
      BY <2>2
    <3>4. n >= Len(none)
      BY <3>1, <3>2, <3>3
    <3>5. Context!LastOf(none, n) = none
      BY <3>4, LastOfAll
    <3> QED
      BY <3>2, <3>3, <3>5
  <2>5. Join(<<>>, W[N].parts) = W[N].parts
    BY <2>2, JoinEmpty
  <2> QED
    BY <2>3, <2>4, <2>5 DEF Rest
<1> QED
  BY <1>4, <1>8, <1>9 DEF R, N

-----------------------------------------------------------------------------
(* What a load reads *)

\* A round of a replay
LEMMA ReplayedStep ==
    ASSUME NEW h, NEW log \in Seq(EventOf(h)), NEW n \in 1 .. Len(log)
    PROVE  IsApplied(Context!Replayed(log)[n], Context!Replayed(log)[n - 1], log[n])
<1>1. n - 1 \in 0 .. Len(log)
  OBVIOUS
<1>2. /\ Context!Replayed(log) \in [0 .. Len(log) -> MemoryOf(h)]
      /\ Context!Replayed(log)[n] = Context!Apply(Context!Replayed(log)[n - 1], log[n])
  BY ReplayedLoop
<1>3. PICK s \in MemoryOf(h) : s = Context!Replayed(log)[n - 1]
  BY <1>1, <1>2
<1>4. PICK e \in EventOf(h) : e = log[n]
  <2>1. log[n] \in EventOf(h)
    OBVIOUS
  <2> QED
    BY <2>1
<1>5. PICK t : t = Context!Apply(s, e)
  OBVIOUS
<1>6. IsApplied(t, s, e)
  BY <1>5, Applied
<1> QED
  BY <1>2, <1>3, <1>4, <1>5, <1>6

\* A bounded set of numbers that is not empty has a greatest number.
LEMMA NewestOf ==
    ASSUME NEW n \in Nat, NEW S \in SUBSET (1 .. n), S # {}
    PROVE  Context!Newest(S) \in S /\ \A j \in S : j <= Context!Newest(S)
<1> DEFINE above == {m \in Nat : \A j \in S : j <= m}
<1>1. n \in above
  OBVIOUS
<1>2. above \in SUBSET Nat /\ above # {}
  BY <1>1
<1>3. PICK x \in above : \A y \in above : x <= y
  BY <1>2, OldestOf
<1>4. x \in S
  <2> SUFFICES ASSUME x \notin S
               PROVE  FALSE
    OBVIOUS
  <2>1. ASSUME NEW j \in S
        PROVE  j <= x - 1 /\ x - 1 \in Nat
    <3>1. j \in Nat /\ 1 <= j /\ x \in Nat /\ j <= x /\ j # x
      BY <1>3
    <3> QED
      BY <3>1
  <2>2. x - 1 \in above
    BY <2>1
  <2> QED
    BY <2>2, <1>3
<1>5. \A j \in S : j <= x
  BY <1>3
<1> QED
  BY <1>4, <1>5 DEF Context!Newest

\* The greatest number of a set is the newest.
LEMMA NewestIs ==
    ASSUME NEW S \in SUBSET Nat, NEW m \in S, \A j \in S : j <= m
    PROVE  Context!Newest(S) = m
<1>1. \A k \in S : (\A j \in S : j <= k) => k = m
  <2> SUFFICES ASSUME NEW k \in S, \A j \in S : j <= k
               PROVE  k = m
    OBVIOUS
  <2>1. k <= m /\ m <= k /\ k \in Nat /\ m \in Nat
    OBVIOUS
  <2> QED
    BY <2>1
<1> QED
  BY <1>1 DEF Context!Newest

\* f[n] is written in the rounds C, and kept in the others; and what that gives after the last round
Writes(f, N, C, value) == \A n \in 1 .. N : f[n] = IF n \in C THEN value[n] ELSE f[n - 1]
LastValue(f, C, value) == IF C = {} THEN f[0] ELSE value[Context!Newest(C)]

\* What is written in some rounds, and kept in the others, is what the newest of those wrote.
LEMMA LastWritten ==
    ASSUME NEW N \in Nat, NEW C \in SUBSET (1 .. N), NEW f, NEW value, Writes(f, N, C, value)
    PROVE  f[N] = LastValue(f, C, value)
<1>0. \A n \in 1 .. N : f[n] = IF n \in C THEN value[n] ELSE f[n - 1]
  BY DEF Writes
<1>1. CASE C = {}
  <2> DEFINE S == {n \in 0 .. N : f[n] = f[0]}
  <2>1. ASSUME NEW n \in 1 .. N, n - 1 \in S
        PROVE  n \in S
    <3>1. f[n] = f[n - 1] /\ f[n - 1] = f[0] /\ n \in 0 .. N
      BY <1>0, <1>1, <2>1
    <3> QED
      BY <3>1
  <2>2. 0 \in S
    OBVIOUS
  <2> HIDE DEF S
  <2>3. \A n \in 0 .. N : n \in S
    BY <2>1, <2>2, EachRound
  <2>4. N \in S
    BY <2>3
  <2> QED
    BY <1>1, <2>4 DEF S, LastValue
<1>2. CASE C # {}
  <2>1. PICK m \in C : m = Context!Newest(C) /\ \A j \in C : j <= m
    BY <1>2, NewestOf
  <2> DEFINE S == {n \in 0 .. N : n >= m => f[n] = value[m]}
  <2>2. m \in 1 .. N
    OBVIOUS
  <2>3. ASSUME NEW n \in 1 .. N, n - 1 \in S
        PROVE  n \in S
    <3>1. CASE n < m
      BY <2>2, <3>1
    <3>2. CASE n = m
      BY <1>0, <3>2
    <3>3. CASE n > m
      <4>1. n \notin C
        BY <2>1, <2>2, <3>3
      <4>2. n - 1 >= m
        BY <2>2, <3>3
      <4>3. f[n] = f[n - 1] /\ f[n - 1] = value[m]
        BY <1>0, <2>3, <4>1, <4>2
      <4> QED
        BY <4>3
    <3> QED
      BY <2>2, <3>1, <3>2, <3>3
  <2>4. 0 \in S
    BY <2>2
  <2> HIDE DEF S
  <2>5. \A n \in 0 .. N : n \in S
    BY <2>3, <2>4, EachRound
  <2>6. N \in S /\ N >= m
    BY <2>2, <2>5
  <2> QED
    BY <1>2, <2>1, <2>6 DEF S, LastValue
<1> QED
  BY <1>1, <1>2

\* The commits of a table of events
LEMMA CommitsOf ==
    ASSUME NEW h, NEW log \in Seq(EventOf(h))
    PROVE  /\ Len(log) \in Nat /\ Context!Commits(log) \in SUBSET (1 .. Len(log))
           /\ \A n \in 1 .. Len(log) :
                (n \in Context!Commits(log) <=> Context!IsCommit(log[n])) /\ log[n] \in EventOf(h)
           /\ \A n \in Context!Commits(log) : log[n] \in CommitOf(h)
<1>1. DOMAIN log = 1 .. Len(log) /\ Len(log) \in Nat
  OBVIOUS
<1>2. \A n \in 1 .. Len(log) : log[n] \in EventOf(h)
  OBVIOUS
<1>3. \A n \in 1 .. Len(log) : n \in Context!Commits(log) <=> Context!IsCommit(log[n])
  BY <1>1 DEF Context!Commits
<1>4. Context!Commits(log) \in SUBSET (1 .. Len(log))
  BY <1>1 DEF Context!Commits
<1>5. \A n \in Context!Commits(log) : log[n] \in CommitOf(h)
  BY <1>2, <1>3, <1>4 DEF EventOf, Context!IsCommit
<1> QED
  BY <1>1, <1>2, <1>3, <1>4, <1>5

\* A load starts at the newest replacement, or at the first of all events.
LEMMA LoadFromIs ==
    ASSUME NEW h, NEW log \in Seq(EventOf(h))
    PROVE  /\ Context!LoadFrom(log) \in 0 .. Len(log)
           /\ Context!LoadFrom(log) # 0 =>
                Context!LoadFrom(log) \in Context!Commits(log) /\ log[Context!LoadFrom(log)].replaced
           /\ \A k \in Context!Commits(log) : k > Context!LoadFrom(log) => ~log[k].replaced
<1> DEFINE replacements == {k \in Context!Commits(log) : log[k].replaced}
<1>1. Len(log) \in Nat /\ Context!Commits(log) \in SUBSET (1 .. Len(log))
  BY CommitsOf
<1>2. CASE replacements = {}
  BY <1>1, <1>2 DEF Context!LoadFrom
<1>3. CASE replacements # {}
  <2>1. PICK m \in replacements : m = Context!Newest(replacements) /\ \A j \in replacements : j <= m
    <3>1. replacements \in SUBSET (1 .. Len(log))
      BY <1>1
    <3> HIDE DEF replacements
    <3> QED
      BY <1>1, <1>3, <3>1, NewestOf
  <2>2. Context!LoadFrom(log) = m
    BY <1>3, <2>1 DEF Context!LoadFrom
  <2>3. m \in 1 .. Len(log) /\ m \in Context!Commits(log) /\ log[m].replaced
    BY <1>1
  <2>4. \A k \in Context!Commits(log) : k > m => ~log[k].replaced
    <3> SUFFICES ASSUME NEW k \in Context!Commits(log), k > m, log[k].replaced
                 PROVE  FALSE
      OBVIOUS
    <3>1. k \in replacements
      OBVIOUS
    <3>2. k <= m
      BY <2>1, <3>1
    <3> QED
      BY <1>1, <2>3, <3>2
  <2> QED
    BY <1>1, <2>2, <2>3, <2>4
<1> QED
  BY <1>2, <1>3

\* The context of a load is that of a replay.
LEMMA ContextIs ==
    ASSUME NEW h, NEW log \in Seq(EventOf(h))
    PROVE  Context!ContextFrom(log, Context!LoadFrom(log)) = Context!Replayed(log)[Len(log)].context
<1> DEFINE first == Context!LoadFrom(log)
           start == IF first = 0 THEN <<>> ELSE log[first].head \o Context!Kept(log, first, log[first].keep)
           W == Context!ReadFrom(log, first, start)
           R == Context!Replayed(log)
           N == Len(log)
           S == {n \in 0 .. N : W[n] = IF n < first THEN start ELSE R[n].context}
<1>1. /\ N \in Nat /\ first \in 0 .. N
      /\ first # 0 => first \in Context!Commits(log) /\ log[first].replaced
      /\ \A k \in Context!Commits(log) : k > first => ~log[k].replaced
  BY CommitsOf, LoadFromIs
<1>2. /\ R \in [0 .. N -> MemoryOf(h)] /\ R[0] = Context!Fresh
      /\ \A n \in 1 .. N : R[n] = Context!Apply(R[n - 1], log[n])
  BY ReplayedLoop
<1>3. /\ \A n \in 1 .. N : (n \in Context!Commits(log) <=> Context!IsCommit(log[n])) /\ log[n] \in EventOf(h)
      /\ \A n \in Context!Commits(log) : log[n] \in CommitOf(h)
  BY CommitsOf
<1>4. Context!ContextFrom(log, first) = W[N]
  BY DEF Context!ContextFrom
<1>5. first # 0 => start = Join(log[first].head, Context!LastOf(R[first - 1].context, log[first].keep))
  <2> SUFFICES ASSUME first # 0
               PROVE  start = Join(log[first].head, Context!LastOf(R[first - 1].context, log[first].keep))
    OBVIOUS
  <2>1. log[first] \in CommitOf(h) /\ first \in 1 .. N + 1
    BY <1>1, <1>3
  <2>2. log[first].keep \in Nat
    BY <2>1 DEF CommitOf
  <2>3. PICK at : at = first
    OBVIOUS
  <2>4. PICK keep \in Nat : keep = log[at].keep
    BY <2>2, <2>3
  <2>5. Context!Kept(log, at, keep) = Context!LastOf(R[at - 1].context, keep)
    BY <2>1, <2>3, KeptIsLast
  <2> QED
    BY <2>3, <2>4, <2>5 DEF Join
<1>6. start \in Seq(Block)
  <2>1. CASE first = 0
    <3>1. <<>> \in Seq(Block)
      OBVIOUS
    <3> QED
      BY <2>1, <3>1
  <2>2. CASE first # 0
    <3>1. log[first] \in CommitOf(h) /\ first - 1 \in 0 .. N
      BY <1>1, <1>3, <2>2
    <3>2. log[first].head \in Seq(Block) /\ log[first].keep \in Nat /\ R[first - 1].context \in Seq(Block)
      BY <1>2, <3>1 DEF CommitOf, MemoryOf
    <3>3. Context!LastOf(R[first - 1].context, log[first].keep) \in Seq(Block)
      BY <3>2, LastOfType
    <3> QED
      BY <1>5, <2>2, <3>2, <3>3, JoinType
  <2> QED
    BY <2>1, <2>2
<1> HIDE DEF start
<1>7. /\ W[0] = start
      /\ \A n \in 1 .. N : W[n] = IF n >= first /\ Context!IsCommit(log[n])
            THEN Join(W[n - 1], log[n].blocks) ELSE W[n - 1]
  <2>1. PICK st \in Seq(Block) : st = start
    BY <1>6
  <2>2. PICK at \in Nat : at = first
    BY <1>1
  <2>3. /\ Context!ReadFrom(log, at, st)[0] = st
        /\ \A n \in 1 .. N : Context!ReadFrom(log, at, st)[n] =
              IF n >= at /\ Context!IsCommit(log[n])
                    THEN Join(Context!ReadFrom(log, at, st)[n - 1], log[n].blocks)
              ELSE Context!ReadFrom(log, at, st)[n - 1]
    BY ReadFromLoop
  <2> QED
    BY <2>1, <2>2, <2>3
<1> HIDE DEF W, R, N, first
<1>8. 0 \in S
  <2>1. CASE first = 0
    <3>1. start = <<>>
      BY <2>1 DEF start
    <3>2. R[0].context = <<>>
      BY <1>2 DEF Context!Fresh
    <3> QED
      BY <1>1, <1>7, <2>1, <3>1, <3>2
  <2>2. CASE first # 0
    BY <1>1, <1>7, <2>2
  <2> QED
    BY <2>1, <2>2
<1>9. ASSUME NEW n \in 1 .. N, n - 1 \in S
      PROVE  n \in S
  <2>0. IsApplied(R[n], R[n - 1], log[n])
    BY ReplayedStep DEF R, N
  <2>1. n \in 0 .. N /\ n - 1 \in 0 .. N /\ W[n - 1] = IF n - 1 < first THEN start ELSE R[n - 1].context
    BY <1>1, <1>9
  <2>2. R[n - 1] \in MemoryOf(h) /\ log[n] \in EventOf(h) /\ R[n] = Context!Apply(R[n - 1], log[n])
    BY <1>2, <1>3, <2>1
  <2>3. /\ ~Context!IsCommit(log[n]) => R[n].context = R[n - 1].context
        /\ Context!IsCommit(log[n]) =>
             R[n].context = (IF log[n].replaced
                   THEN log[n].head \o Context!LastOf(R[n - 1].context, log[n].keep)
                             ELSE R[n - 1].context) \o log[n].blocks
    BY <2>0, <2>0 DEF IsApplied, Join
  <2>4. CASE n < first
    BY <1>1, <1>7, <2>1, <2>4
  <2>5. CASE n = first
    <3>1. Context!IsCommit(log[n]) /\ log[n].replaced
      BY <1>1, <1>3, <2>5
    <3>2. W[n] = Join(start, log[n].blocks)
      BY <1>1, <1>7, <2>1, <2>5, <3>1
    <3>3. start = Join(log[n].head, Context!LastOf(R[n - 1].context, log[n].keep))
      <4>1. first # 0
        BY <1>1, <2>5
      <4>2. start = Join(log[first].head, Context!LastOf(R[first - 1].context, log[first].keep))
        BY <1>5, <4>1
      <4> QED
        BY <2>5, <4>2
    <3>4. R[n].context = Join(start, log[n].blocks)
      <4>1. R[n].context = (log[n].head \o Context!LastOf(R[n - 1].context, log[n].keep)) \o log[n].blocks
        BY <2>3, <3>1
      <4> QED
        BY <3>3, <4>1 DEF Join
    <3>5. W[n] = R[n].context /\ ~(n < first)
      <4>1. ~(n < first)
        BY <1>1, <2>5
      <4> QED
        BY <3>2, <3>4, <4>1
    <3> QED
      BY <2>1, <3>5
  <2>6. CASE n > first
    <3>1. W[n - 1] = R[n - 1].context
      BY <1>1, <2>1, <2>6
    <3>2. CASE Context!IsCommit(log[n])
      <4>1. ~log[n].replaced
        BY <1>1, <1>3, <2>6, <3>2
      <4>2. R[n].context = Join(R[n - 1].context, log[n].blocks)
        <5>1. R[n].context = R[n - 1].context \o log[n].blocks
          BY <2>3, <3>2, <4>1
        <5> QED
          BY <5>1 DEF Join
      <4>3. n >= first /\ ~(n < first)
        BY <1>1, <2>6
      <4>4. W[n] = Join(W[n - 1], log[n].blocks)
        BY <1>7, <3>2, <4>3
      <4> QED
        BY <2>1, <3>1, <4>2, <4>3, <4>4
    <3>3. CASE ~Context!IsCommit(log[n])
      BY <1>1, <1>7, <2>1, <2>3, <2>6, <3>1, <3>3
    <3> QED
      BY <3>2, <3>3
  <2> QED
    BY <1>1, <2>1, <2>4, <2>5, <2>6
<1> HIDE DEF S
<1>10. \A n \in 0 .. N : n \in S
  BY <1>1, <1>8, <1>9, EachRound
<1>11. W[N] = R[N].context
  <2>1. N \in S /\ ~(N < first)
    BY <1>1, <1>10
  <2> QED
    BY <2>1 DEF S
<1> QED
  BY <1>4, <1>11 DEF R, N, first

\* What a load says of the newest turn is what a replay says.
LEMMA NewestFromIs ==
    ASSUME NEW h, NEW log \in Seq(EventOf(h))
    PROVE  Context!NewestFrom(log, Context!LoadFrom(log)) = Context!Replayed(log)[Len(log)].newest
<1> DEFINE R == Context!Replayed(log)
           N == Len(log)
           C == Context!Commits(log)
           f == [n \in 0 .. N |-> R[n].newest]
           value == [n \in C |-> IF log[n].end = "none" THEN "open" ELSE log[n].end]
           from == {k \in C : k >= Context!LoadFrom(log)}
<1>1. /\ N \in Nat /\ C \in SUBSET (1 .. N)
      /\ \A n \in 1 .. N : (n \in C <=> Context!IsCommit(log[n])) /\ log[n] \in EventOf(h)
  BY CommitsOf
<1>2. /\ R \in [0 .. N -> MemoryOf(h)] /\ R[0] = Context!Fresh
      /\ \A n \in 1 .. N : R[n] = Context!Apply(R[n - 1], log[n])
  BY ReplayedLoop
<1>3. Context!LoadFrom(log) \in 0 .. N /\ (Context!LoadFrom(log) # 0 => Context!LoadFrom(log) \in C)
  BY LoadFromIs
<1>4. Context!NewestFrom(log, Context!LoadFrom(log)) =
        CASE from = {} -> "empty"
          [] from # {} /\ log[Context!Newest(from)].end = "none" -> "open"
          [] OTHER -> log[Context!Newest(from)].end
  BY DEF Context!NewestFrom
<1> HIDE DEF R, N, C
<1>5. \A n \in 1 .. N : f[n] = IF n \in C THEN value[n] ELSE f[n - 1]
  <2> TAKE n \in 1 .. N
  <2>0. IsApplied(R[n], R[n - 1], log[n])
    BY ReplayedStep DEF R, N
  <2>1. n \in 0 .. N /\ n - 1 \in 0 .. N
    BY <1>1
  <2>2. R[n - 1] \in MemoryOf(h) /\ log[n] \in EventOf(h) /\ R[n] = Context!Apply(R[n - 1], log[n])
    BY <1>1, <1>2, <2>1
  <2>3. R[n].newest = IF Context!IsCommit(log[n]) THEN (IF log[n].end = "none" THEN "open" ELSE log[n].end)
          ELSE R[n - 1].newest
    BY <2>0, <2>0 DEF IsApplied
  <2> QED
    BY <1>1, <2>1, <2>3
<1>6. f[N] = IF C = {} THEN f[0] ELSE value[Context!Newest(C)]
  <2>1. PICK n \in Nat : n = N
    BY <1>1
  <2>2. PICK c \in SUBSET (1 .. n) : c = C
    BY <1>1, <2>1
  <2>3. PICK g : g = f
    OBVIOUS
  <2>4. PICK v : v = value
    OBVIOUS
  <2> HIDE DEF f, value
  <2>5. Writes(g, n, c, v)
    BY <1>5, <2>1, <2>2, <2>3, <2>4 DEF Writes
  <2>6. g[n] = LastValue(g, c, v)
    BY <2>5, LastWritten
  <2> QED
    BY <2>1, <2>2, <2>3, <2>4, <2>6 DEF LastValue
<1>7. f[N] = R[N].newest /\ f[0] = "empty"
  BY <1>1, <1>2 DEF Context!Fresh
<1>8. CASE C = {}
  BY <1>4, <1>6, <1>7, <1>8 DEF R, N
<1>9. CASE C # {}
  <2>1. PICK m \in C : m = Context!Newest(C) /\ \A j \in C : j <= m
    BY <1>1, <1>9, NewestOf
  <2>2. m \in from
    BY <1>1, <1>3, <2>1
  <2>3. Context!Newest(from) = m
    <3>1. from \in SUBSET C /\ C \in SUBSET Nat
      BY <1>1
    <3>2. from \in SUBSET Nat /\ \A j \in from : j <= m
      BY <2>1, <3>1
    <3> HIDE DEF from
    <3> QED
      BY <2>2, <3>2, NewestIs
  <2>4. value[m] = IF log[m].end = "none" THEN "open" ELSE log[m].end
    OBVIOUS
  <2>5. Context!NewestFrom(log, Context!LoadFrom(log)) = value[m]
    <3> HIDE DEF from, value
    <3> QED
      BY <1>4, <2>2, <2>3, <2>4
  <2> QED
    BY <1>6, <1>7, <1>9, <2>1, <2>5 DEF R, N
<1> QED
  BY <1>8, <1>9

\* The tokens of a load are those of a replay.
LEMMA NewestTokensIs ==
    ASSUME NEW h, NEW log \in Seq(EventOf(h))
    PROVE  Context!NewestTokens(log) = Context!Replayed(log)[Len(log)].tokens
<1> DEFINE R == Context!Replayed(log)
           N == Len(log)
           C == {k \in Context!Commits(log) : log[k].answered \/ log[k].replaced}
           f == [n \in 0 .. N |-> R[n].tokens]
           value == [n \in C |-> log[n].input]
<1>1. /\ N \in Nat /\ Context!Commits(log) \in SUBSET (1 .. N)
      /\ \A n \in 1 .. N : (n \in Context!Commits(log) <=> Context!IsCommit(log[n])) /\ log[n] \in EventOf(h)
      /\ \A n \in Context!Commits(log) : log[n] \in CommitOf(h)
  BY CommitsOf
<1>2. /\ R \in [0 .. N -> MemoryOf(h)] /\ R[0] = Context!Fresh
      /\ \A n \in 1 .. N : R[n] = Context!Apply(R[n - 1], log[n])
  BY ReplayedLoop
<1>3. Context!NewestTokens(log) = IF C = {} THEN "none" ELSE log[Context!Newest(C)].input
  BY DEF Context!NewestTokens
<1> HIDE DEF R, N
<1>4. \A n \in 1 .. N : f[n] = IF n \in C THEN value[n] ELSE f[n - 1]
  <2> TAKE n \in 1 .. N
  <2>0. IsApplied(R[n], R[n - 1], log[n])
    BY ReplayedStep DEF R, N
  <2>1. n \in 0 .. N /\ n - 1 \in 0 .. N
    BY <1>1
  <2>2. R[n - 1] \in MemoryOf(h) /\ log[n] \in EventOf(h) /\ R[n] = Context!Apply(R[n - 1], log[n])
    BY <1>1, <1>2, <2>1
  <2>3. CASE ~Context!IsCommit(log[n])
    <3>1. R[n].tokens = R[n - 1].tokens
      BY <2>3, <2>0 DEF IsApplied
    <3>2. n \notin C
      BY <1>1, <2>3
    <3> QED
      BY <2>1, <3>1, <3>2
  <2>4. CASE Context!IsCommit(log[n])
    <3>1. n \in Context!Commits(log) /\ (~log[n].answered => log[n].input = "none")
      <4>1. n \in Context!Commits(log) /\ log[n] \in CommitOf(h)
        BY <1>1, <2>4
      <4> QED
        BY <4>1 DEF CommitOf
    <3>2. R[n].tokens = IF log[n].answered THEN log[n].input ELSE IF log[n].replaced THEN "none"
            ELSE R[n - 1].tokens
      BY <2>4, <2>0 DEF IsApplied
    <3>3. n \in C <=> log[n].answered \/ log[n].replaced
      BY <3>1
    <3>4. n \in C => value[n] = log[n].input
      OBVIOUS
    <3>5. f[n] = R[n].tokens /\ f[n - 1] = R[n - 1].tokens
      BY <2>1
    <3> HIDE DEF C, value, f
    <3> QED
      BY <3>1, <3>2, <3>3, <3>4, <3>5
  <2> QED
    BY <2>3, <2>4
<1>5. f[N] = IF C = {} THEN f[0] ELSE value[Context!Newest(C)]
  <2>1. C \in SUBSET (1 .. N)
    BY <1>1
  <2> HIDE DEF f, value, C
  <2>2. PICK n \in Nat : n = N
    BY <1>1
  <2>3. PICK c \in SUBSET (1 .. n) : c = C
    BY <2>1, <2>2
  <2>4. PICK g : g = f
    OBVIOUS
  <2>5. PICK v : v = value
    OBVIOUS
  <2>6. Writes(g, n, c, v)
    BY <1>4, <2>2, <2>3, <2>4, <2>5 DEF Writes
  <2>7. g[n] = LastValue(g, c, v)
    BY <2>6, LastWritten
  <2> QED
    BY <2>2, <2>3, <2>4, <2>5, <2>7 DEF LastValue
<1>6. f[N] = R[N].tokens /\ f[0] = "none"
  BY <1>1, <1>2 DEF Context!Fresh
<1>7. CASE C = {}
  BY <1>3, <1>5, <1>6, <1>7 DEF R, N
<1>8. CASE C # {}
  <2>1. Context!Newest(C) \in C
    <3>1. C \in SUBSET (1 .. N)
      BY <1>1
    <3> HIDE DEF C
    <3> QED
      BY <1>1, <1>8, <3>1, NewestOf
  <2>2. value[Context!Newest(C)] = log[Context!Newest(C)].input
    BY <2>1
  <2> QED
    BY <1>3, <1>5, <1>6, <1>8, <2>2 DEF R, N
<1> QED
  BY <1>7, <1>8

\* The settings of a replay are those of the newest settings event, where the first event is one.
LEMMA SettingsAtIs ==
    ASSUME NEW h, NEW log \in Seq(EventOf(h)), Len(log) >= 1, log[1].kind = "settings"
    PROVE  Context!SettingsAt(log, Len(log)) = Context!Replayed(log)[Len(log)].settings
<1> DEFINE R == Context!Replayed(log)
           N == Len(log)
           C == {k \in 1 .. N : log[k].kind = "settings"}
           f == [n \in 0 .. N |-> R[n].settings]
           value == [n \in C |-> log[n].settings]
<1>1. N \in Nat /\ N >= 1 /\ \A n \in 1 .. N : log[n] \in EventOf(h)
  BY CommitsOf
<1>2. /\ R \in [0 .. N -> MemoryOf(h)] /\ R[0] = Context!Fresh
      /\ \A n \in 1 .. N : R[n] = Context!Apply(R[n - 1], log[n])
  BY ReplayedLoop
<1>3. Context!SettingsAt(log, N) = log[Context!Newest(C)].settings
  BY DEF Context!SettingsAt
<1> HIDE DEF R, N
<1>4. \A n \in 1 .. N : f[n] = IF n \in C THEN value[n] ELSE f[n - 1]
  <2> TAKE n \in 1 .. N
  <2>0. IsApplied(R[n], R[n - 1], log[n])
    BY ReplayedStep DEF R, N
  <2>1. n \in 0 .. N /\ n - 1 \in 0 .. N
    BY <1>1
  <2>2. R[n - 1] \in MemoryOf(h) /\ log[n] \in EventOf(h) /\ R[n] = Context!Apply(R[n - 1], log[n])
    BY <1>1, <1>2, <2>1
  <2>3. Context!IsCommit(log[n]) <=> log[n].kind # "settings"
    BY <2>2 DEF EventOf, CommitOf, Context!IsCommit
  <2>4. R[n].settings = IF Context!IsCommit(log[n]) THEN R[n - 1].settings ELSE log[n].settings
    BY <2>0, <2>0 DEF IsApplied
  <2> QED
    BY <2>1, <2>3, <2>4
<1>5. f[N] = IF C = {} THEN f[0] ELSE value[Context!Newest(C)]
  <2>1. C \in SUBSET (1 .. N)
    OBVIOUS
  <2> HIDE DEF f, value, C
  <2>2. PICK n \in Nat : n = N
    BY <1>1
  <2>3. PICK c \in SUBSET (1 .. n) : c = C
    BY <2>1, <2>2
  <2>4. PICK g : g = f
    OBVIOUS
  <2>5. PICK v : v = value
    OBVIOUS
  <2>6. Writes(g, n, c, v)
    BY <1>4, <2>2, <2>3, <2>4, <2>5 DEF Writes
  <2>7. g[n] = LastValue(g, c, v)
    BY <2>6, LastWritten
  <2> QED
    BY <2>2, <2>3, <2>4, <2>5, <2>7 DEF LastValue
<1>6. 1 \in C
  BY <1>1
<1>7. Context!Newest(C) \in C
  <2>1. C \in SUBSET (1 .. N) /\ C # {}
    BY <1>6
  <2> HIDE DEF C
  <2> QED
    BY <1>1, <2>1, NewestOf
<1>8. f[N] = R[N].settings
  BY <1>1
<1>9. value[Context!Newest(C)] = log[Context!Newest(C)].settings
  BY <1>7
<1>10. R[N].settings = log[Context!Newest(C)].settings
  <2>1. C # {}
    BY <1>6
  <2> HIDE DEF C, f, value
  <2> QED
    BY <1>5, <1>8, <1>9, <2>1
<1> QED
  BY <1>3, <1>10 DEF R, N

\* A load, with the settings of the newest settings event, is a replay of every event.
LEMMA LoadIs ==
    ASSUME NEW h, NEW log \in Seq(EventOf(h)), Len(log) >= 1, log[1].kind = "settings"
    PROVE  Context!Load(log, Context!SettingsAt(log, Len(log))) = Context!Replayed(log)[Len(log)]
<1> DEFINE r == Context!Replayed(log)[Len(log)]
<1>1. r \in MemoryOf(h)
  <2>1. Len(log) \in Nat
    OBVIOUS
  <2>2. Context!Replayed(log) \in [0 .. Len(log) -> MemoryOf(h)]
    BY ReplayedLoop
  <2> QED
    BY <2>1, <2>2
<1>2. /\ Context!ContextFrom(log, Context!LoadFrom(log)) = r.context
      /\ Context!NewestFrom(log, Context!LoadFrom(log)) = r.newest
      /\ Context!NewestTokens(log) = r.tokens /\ Context!SettingsAt(log, Len(log)) = r.settings
  BY ContextIs, NewestFromIs, NewestTokensIs, SettingsAtIs
<1>3. Context!Load(log, Context!SettingsAt(log, Len(log))) =
        [context |-> Context!ContextFrom(log, Context!LoadFrom(log)),
         newest |-> Context!NewestFrom(log, Context!LoadFrom(log)),
         tokens |-> Context!NewestTokens(log), settings |-> Context!SettingsAt(log, Len(log))]
  BY DEF Context!Load
<1> HIDE DEF r
<1>4. r = [context |-> r.context, newest |-> r.newest, tokens |-> r.tokens, settings |-> r.settings]
  BY <1>1 DEF MemoryOf
<1> QED
  BY <1>2, <1>3, <1>4 DEF r

-----------------------------------------------------------------------------
(* Forks *)

\* The table of events is a sequence.
EventsOK == events \in Seq({events[k] : k \in DOMAIN events})

\* A copy that ends with the commit of a completed turn loads as a completed turn, whatever
\* replacement the load starts at.
LEMMA CompletedCopy ==
    ASSUME EventsOK, NEW cut \in Context!Completed(events)
    PROVE  \A settings : Context!Load(SubSeq(events, 1, cut), settings).newest = "completed"
<1> DEFINE copy == SubSeq(events, 1, cut)
<1>1. cut \in DOMAIN events /\ Context!IsCommit(events[cut]) /\ events[cut].end = "completed"
  BY DEF Context!Completed, Context!Commits
<1>2. cut \in Nat /\ 1 <= cut /\ cut <= Len(events)
  BY <1>1 DEF EventsOK
<1>3. Len(copy) = cut /\ DOMAIN copy = 1 .. cut /\ \A k \in 1 .. cut : copy[k] = events[k]
  BY <1>2 DEF EventsOK
<1> HIDE DEF copy
<1>4. Context!Commits(copy) \subseteq 1 .. cut /\ cut \in Context!Commits(copy)
  BY <1>1, <1>2, <1>3 DEF Context!Commits
<1>5. Context!LoadFrom(copy) \in 0 .. cut
  <2> DEFINE replacements == {k \in Context!Commits(copy) : copy[k].replaced}
  <2>1. CASE replacements = {}
    BY <2>1, <1>2 DEF Context!LoadFrom
  <2>2. CASE replacements # {}
    <3>1. Context!Newest(replacements) \in replacements
      BY <2>2, <1>2, <1>4, NewestOf
    <3> QED
      BY <3>1, <2>2, <1>2, <1>4 DEF Context!LoadFrom
  <2> QED
    BY <2>1, <2>2
<1> DEFINE ends == {k \in Context!Commits(copy) : k >= Context!LoadFrom(copy)}
<1>6. cut \in ends /\ ends \in SUBSET (1 .. cut)
  BY <1>2, <1>4, <1>5
<1>7. Context!Newest(ends) = cut
  <2>1. Context!Newest(ends) \in ends /\ \A j \in ends : j <= Context!Newest(ends)
    BY <1>2, <1>6, NewestOf
  <2> QED
    BY <1>2, <1>6, <2>1
<1>8. Context!NewestFrom(copy, Context!LoadFrom(copy)) = "completed"
  BY <1>1, <1>2, <1>3, <1>6, <1>7 DEF Context!NewestFrom
<1> QED
  BY <1>8 DEF Context!Load, copy

\* A copy with no commit loads as a session with no turn.
LEMMA EmptyCopy ==
    ASSUME NEW log, Context!Commits(log) = {}
    PROVE  \A settings : Context!Load(log, settings).newest = "empty"
<1>1. \A first : Context!NewestFrom(log, first) = "empty"
  BY DEF Context!NewestFrom
<1> QED
  BY <1>1 DEF Context!Load

\* The cut of a fork with no `through` is the end of a completed turn, or comes before each commit.
LEMMA CutOf ==
    ASSUME EventsOK
    PROVE  \/ Context!ForkCut(events) \in Context!Completed(events)
           \/ /\ Context!ForkCut(events) \in 0 .. Len(events)
              /\ \A k \in Context!Commits(events) : Context!ForkCut(events) < k
<1>1. Len(events) \in Nat /\ DOMAIN events = 1 .. Len(events)
  BY DEF EventsOK
<1>2. Context!Commits(events) \in SUBSET (1 .. Len(events))
  BY <1>1 DEF Context!Commits
<1>3. Context!Completed(events) \in SUBSET (1 .. Len(events))
  BY <1>2 DEF Context!Completed
<1>4. CASE Context!Completed(events) # {}
  BY <1>1, <1>3, <1>4, NewestOf DEF Context!ForkCut
<1>5. CASE Context!Completed(events) = {} /\ Context!Commits(events) # {}
  <2> DEFINE oldest == Context!Oldest(Context!Commits(events))
  <2>1. oldest \in Context!Commits(events) /\ \A k \in Context!Commits(events) : oldest <= k
    BY <1>2, <1>5, OldestOf
  <2>2. Context!ForkCut(events) = oldest - 1
    BY <1>5 DEF Context!ForkCut
  <2> QED
    BY <1>1, <1>2, <2>1, <2>2
<1>6. CASE Context!Completed(events) = {} /\ Context!Commits(events) = {}
  BY <1>1, <1>6 DEF Context!ForkCut
<1> QED
  BY <1>4, <1>5, <1>6

\* A fork loads a session with no turn or a completed one.
LEMMA ForkAtEnd ==
    ASSUME EventsOK, Context!Fork
    PROVE  running'.newest \in {"empty", "completed"}
<1>1. PICK cut \in Context!Completed(events) \cup {Context!ForkCut(events)} :
        events' = SubSeq(events, 1, cut) /\ running' = Context!Load(events', row')
  BY DEF Context!Fork
<1>2. CASE cut \in Context!Completed(events)
  BY <1>1, <1>2, CompletedCopy
<1>3. CASE cut \notin Context!Completed(events)
  <2>1. cut \in 0 .. Len(events) /\ \A k \in Context!Commits(events) : cut < k
    BY <1>1, <1>3, CutOf
  <2>2. Len(events) \in Nat /\ DOMAIN events = 1 .. Len(events)
    BY DEF EventsOK
  <2>3. DOMAIN events' = 1 .. cut /\ \A k \in 1 .. cut : events'[k] = events[k]
    BY <1>1, <2>1, <2>2 DEF EventsOK
  <2>4. Context!Commits(events') = {}
    BY <2>1, <2>2, <2>3 DEF Context!Commits
  <2> QED
    BY <1>1, <2>4, EmptyCopy
<1> QED
  BY <1>2, <1>3

\* A save makes the table longer by one event, so only a fork makes it shorter.
LEMMA SaveKeeps ==
    ASSUME EventsOK, NEW event, Context!Save(event)
    PROVE  EventsOK' /\ Len(events') = Len(events) + 1
<1> DEFINE all == {events[k] : k \in DOMAIN events} \cup {event}
<1>1. events \in Seq(all)
  BY DEF EventsOK
<1>2. events' = Append(events, event)
  BY DEF Context!Save
<1>3. Len(events') = Len(events) + 1 /\ DOMAIN events' = 1 .. Len(events) + 1
  BY <1>1, <1>2
<1>4. events' \in Seq(all)
  BY <1>1, <1>2
<1> QED
  BY <1>1, <1>3, <1>4 DEF EventsOK

\* A fork keeps a prefix of the table.
LEMMA ForkKeeps ==
    ASSUME EventsOK, Context!Fork
    PROVE  EventsOK'
<1>1. PICK cut \in Context!Completed(events) \cup {Context!ForkCut(events)} : events' = SubSeq(events, 1, cut)
  BY DEF Context!Fork
<1>2. Len(events) \in Nat /\ DOMAIN events = 1 .. Len(events)
  BY DEF EventsOK
<1>3. cut \in 0 .. Len(events)
  BY <1>1, <1>2, CutOf DEF Context!Completed, Context!Commits
<1>4. events' \in Seq({events[k] : k \in DOMAIN events})
  BY <1>1, <1>2, <1>3 DEF EventsOK
<1> QED
  BY <1>4 DEF EventsOK

\* A step saves an event, forks, or leaves the table alone.
LEMMA EventsStep ==
    ASSUME EventsOK, [Context!Next]_Context!vars
    PROVE  EventsOK' /\ Context!Forks
<1>1. ASSUME NEW event, Context!Save(event)
      PROVE  EventsOK' /\ Context!Forks
  <2>1. Len(events) \in Nat
    BY DEF EventsOK
  <2> QED
    BY <1>1, <2>1, SaveKeeps DEF Context!Forks
<1>2. CASE Context!Fork
  BY <1>2, ForkKeeps, ForkAtEnd DEF Context!Forks
<1>3. CASE Context!Done \/ UNCHANGED Context!vars
  <2>1. events' = events
    BY <1>3 DEF Context!Done, Context!vars
  <2>2. Len(events) \in Nat
    BY DEF EventsOK
  <2> QED
    BY <2>1, <2>2 DEF EventsOK, Context!Forks
<1> QED
  BY <1>1, <1>2, <1>3
     DEF Context!Next, Context!SetSettings, Context!SaveInput, Context!SaveAnswer, Context!SaveEnd,
           Context!SaveReplaced

\* A fork starts between turns (fork_cut): whatever the source runs, and whatever replacements its
\* events have, the copy loads with no turn or with a completed one.
THEOREM ForksStartAtEnd == Context!Spec => Context!ForksAtEnd
<1>1. Context!Init => EventsOK
  BY DEF Context!Init, EventsOK
<1>2. EventsOK /\ [Context!Next]_Context!vars => EventsOK' /\ [Context!Forks]_Context!vars
  BY EventsStep
<1> QED
  BY <1>1, <1>2, PTL DEF Context!Spec, Context!ForksAtEnd

-----------------------------------------------------------------------------
(* Steps *)

\* The replay of one more event
LEMMA ReplayedMore ==
    ASSUME NEW h, NEW log \in Seq(EventOf(h)), NEW e \in EventOf(h), NEW more, more = Append(log, e)
    PROVE  Context!Replayed(more)[Len(more)] = Context!Apply(Context!Replayed(log)[Len(log)], e)
<1> DEFINE A == Context!Replayed(more)
           B == Context!Replayed(log)
           N == Len(log)
           S == {n \in 0 .. N : A[n] = B[n]}
<1>1. /\ more \in Seq(EventOf(h)) /\ Len(more) = N + 1 /\ N \in Nat /\ more[N + 1] = e
      /\ \A n \in 1 .. N : more[n] = log[n]
  OBVIOUS
<1>2. A[0] = Context!Fresh /\ \A n \in 1 .. Len(more) : A[n] = Context!Apply(A[n - 1], more[n])
  BY <1>1, ReplayedLoop
<1>3. B[0] = Context!Fresh /\ \A n \in 1 .. N : B[n] = Context!Apply(B[n - 1], log[n])
  BY ReplayedLoop
<1> HIDE DEF A, B, N
<1>4. 0 \in S
  BY <1>1, <1>2, <1>3
<1>5. ASSUME NEW n \in 1 .. N, n - 1 \in S
      PROVE  n \in S
  <2>1. n \in 1 .. Len(more) /\ n \in 0 .. N /\ A[n - 1] = B[n - 1] /\ more[n] = log[n]
    BY <1>1, <1>5
  <2> QED
    BY <1>2, <1>3, <2>1
<1> HIDE DEF S
<1>6. \A n \in 0 .. N : n \in S
  BY <1>1, <1>4, <1>5, EachRound
<1>7. A[N] = B[N]
  BY <1>1, <1>6 DEF S
<1>8. N + 1 \in 1 .. Len(more) /\ N + 1 - 1 = N
  BY <1>1
<1>9. A[N + 1] = Context!Apply(A[N], e)
  BY <1>1, <1>2, <1>8
<1> QED
  BY <1>1, <1>7, <1>9 DEF A, B, N

\* The bounds of a history are numbers of blocks.
SaneHistories == \A h \in Histories : h.blocks \subseteq Nat /\ h.heads \subseteq Nat

\* The events start with the settings, and the session has in memory what a replay of them gives.
LoadInv ==
    /\ history \in Histories
    /\ events \in Seq(EventOf(history)) /\ Len(events) >= 1 /\ events[1].kind = "settings"
    /\ running = Context!Replayed(events)[Len(events)]
    /\ row = running.settings

\* The memory of a session has its type.
LEMMA RunningType ==
    ASSUME LoadInv
    PROVE  running \in MemoryOf(history) /\ Len(events) \in Nat
<1>1. Len(events) \in Nat /\ events \in Seq(EventOf(history))
  BY DEF LoadInv
<1>2. Context!Replayed(events) \in [0 .. Len(events) -> MemoryOf(history)]
  BY <1>1, ReplayedLoop
<1> QED
  BY <1>1, <1>2 DEF LoadInv

\* The invariant is what a load needs.
LEMMA LoadInvIs ==
    ASSUME LoadInv
    PROVE  Context!LoadIsReplay
<1>1. events \in Seq(EventOf(history)) /\ Len(events) >= 1 /\ events[1].kind = "settings"
  BY DEF LoadInv
<1>2. running = Context!Replayed(events)[Len(events)]
  BY DEF LoadInv
<1>3. Context!SettingsAt(events, Len(events)) = row
  BY <1>1, <1>2, SettingsAtIs DEF LoadInv
<1>4. Context!Load(events, Context!SettingsAt(events, Len(events))) = running
  BY <1>1, <1>2, LoadIs
<1> QED
  BY <1>2, <1>3, <1>4 DEF Context!LoadIsReplay

\* What a list of new blocks is
LEMMA PartType ==
    ASSUME NEW seq \in Nat, NEW part \in {"block", "head"}, NEW n \in Nat
    PROVE  Context!Part(seq, part, n) \in Seq(Block)
BY DEF Context!Part, Block

\* A save of an event of the right type keeps the invariant.
LEMMA SaveStep ==
    ASSUME LoadInv, NEW e \in EventOf(history), Context!Save(e),
           row' = IF Context!IsCommit(e) THEN row ELSE e.settings
    PROVE  LoadInv'
<1>1. /\ events' = Append(events, e) /\ running' = Context!Apply(running, e) /\ history' = history
      /\ events \in Seq(EventOf(history)) /\ Len(events) >= 1 /\ events[1].kind = "settings"
  BY DEF LoadInv, Context!Save
<1>2. events' \in Seq(EventOf(history')) /\ Len(events') >= 1 /\ events'[1] = events[1]
  BY <1>1
<1>3. running' = Context!Replayed(events')[Len(events')]
  BY <1>1, ReplayedMore DEF LoadInv
<1>4. IsApplied(running', running, e)
  BY <1>1, RunningType, Applied
<1>5. row' = running'.settings
  BY <1>4 DEF LoadInv, IsApplied
<1> QED
  BY <1>1, <1>2, <1>3, <1>5 DEF LoadInv

\* A commit that a turn saves is an event of the history.
LEMMA SavedCommit ==
    ASSUME NEW h, NEW blocks \in Seq(Block), NEW end \in EndsOf(h)
    PROVE  /\ Context!Commit(blocks, end) \in EventOf(h)
           /\ \A input \in h.tokens :
                [Context!Commit(blocks, end) EXCEPT !.answered = TRUE, !.input = input] \in EventOf(h)
           /\ \A head \in Seq(Block), keep \in Nat :
                [Context!Commit(blocks, end) EXCEPT !.replaced = TRUE, !.head = head,
                                              !.keep = keep] \in EventOf(h)
<1> DEFINE Fields == [kind : {"commit"}, replaced : BOOLEAN, head : Seq(Block), keep : Nat, blocks : Seq(Block),
                      answered : BOOLEAN, input : InputsOf(h), end : EndsOf(h)]
<1>1. PICK c : c = Context!Commit(blocks, end)
  OBVIOUS
<1>2. c \in Fields /\ c.answered = FALSE /\ c.input = "none"
  <2>1. <<>> \in Seq(Block) /\ "none" \in InputsOf(h)
    BY DEF InputsOf
  <2> QED
    BY <1>1, <2>1 DEF Context!Commit
<1>3. \A e \in Fields : (~e.answered => e.input = "none") => e \in EventOf(h)
  BY DEF EventOf, CommitOf
<1>4. ASSUME NEW input \in h.tokens
      PROVE  [c EXCEPT !.answered = TRUE, !.input = input] \in EventOf(h)
  <2>1. input \in InputsOf(h)
    BY DEF InputsOf
  <2>2. PICK d : d = [c EXCEPT !.answered = TRUE]
    OBVIOUS
  <2>3. d \in Fields /\ d.answered = TRUE
    BY <1>2, <2>2
  <2>4. PICK e : e = [d EXCEPT !.input = input]
    OBVIOUS
  <2>5. e \in Fields /\ e.answered = TRUE
    BY <2>1, <2>3, <2>4
  <2> HIDE DEF Fields
  <2>6. e \in EventOf(h)
    BY <1>3, <2>5
  <2> QED
    BY <2>2, <2>4, <2>6
<1>5. ASSUME NEW head \in Seq(Block), NEW keep \in Nat
      PROVE  [c EXCEPT !.replaced = TRUE, !.head = head, !.keep = keep] \in EventOf(h)
  <2>1. PICK d : d = [c EXCEPT !.replaced = TRUE]
    OBVIOUS
  <2>2. d \in Fields /\ d.input = "none"
    BY <1>2, <2>1
  <2>3. PICK k : k = [d EXCEPT !.head = head]
    OBVIOUS
  <2>4. k \in Fields /\ k.input = "none"
    BY <2>2, <2>3
  <2>5. PICK e : e = [k EXCEPT !.keep = keep]
    OBVIOUS
  <2>6. e \in Fields /\ e.input = "none"
    BY <2>4, <2>5
  <2> HIDE DEF Fields
  <2>7. e \in EventOf(h)
    BY <1>3, <2>6
  <2> QED
    BY <2>1, <2>3, <2>5, <2>7
<1> HIDE DEF Fields
<1>6. c \in EventOf(h)
  BY <1>2, <1>3
<1> QED
  BY <1>1, <1>4, <1>5, <1>6

\* The saves of a session keep the invariant.
LEMMA SavesStep ==
    ASSUME SaneHistories, LoadInv,
             Context!SetSettings \/ Context!SaveInput \/ Context!SaveAnswer \/ Context!SaveEnd \/ Context!SaveReplaced
    PROVE  LoadInv'
<1>1. /\ Context!Seq1 \in Nat /\ history.blocks \subseteq Nat /\ history.heads \subseteq Nat
      /\ running.context \in Seq(Block)
  BY RunningType DEF Context!Seq1, SaneHistories, LoadInv, MemoryOf
<1>2. CASE Context!SetSettings
  <2>1. PICK value \in {"first", "second"} : Context!Save(Context!Settings(value)) /\ row' = value
    BY <1>2 DEF Context!SetSettings
  <2>2. /\ Context!Settings(value) \in EventOf(history)
        /\ ~Context!IsCommit(Context!Settings(value)) /\ Context!Settings(value).settings = value
    BY DEF Context!Settings, EventOf, Context!IsCommit
  <2> QED
    BY <2>1, <2>2, SaveStep
<1>3. ASSUME NEW blocks \in Seq(Block), NEW end \in EndsOf(history),
               Context!Save(Context!Commit(blocks, end)), row' = row
      PROVE  LoadInv'
  <2>1. Context!Commit(blocks, end) \in EventOf(history)
    BY SavedCommit
  <2>2. Context!IsCommit(Context!Commit(blocks, end))
    BY DEF Context!Commit, Context!IsCommit
  <2> QED
    BY <1>3, <2>1, <2>2, SaveStep
<1>4. CASE Context!SaveInput
  <2>1. PICK n \in history.blocks : Context!Save(Context!Commit(Context!Part(Context!Seq1, "block", n), "none"))
    BY <1>4 DEF Context!SaveInput
  <2>2. Context!Part(Context!Seq1, "block", n) \in Seq(Block) /\ "none" \in EndsOf(history)
    BY <1>1, PartType DEF EndsOf
  <2>3. row' = row
    BY <1>4 DEF Context!SaveInput
  <2> QED
    BY <1>3, <2>1, <2>2, <2>3
<1>5. CASE Context!SaveAnswer
  <2>1. PICK n \in history.blocks, input \in history.tokens, end \in {"none", "completed"} :
          Context!Save([Context!Commit(Context!Part(Context!Seq1, "block", n), end) EXCEPT !.answered = TRUE,
                !.input = input])
    BY <1>5 DEF Context!SaveAnswer
  <2> DEFINE e == [Context!Commit(Context!Part(Context!Seq1, "block", n), end) EXCEPT !.answered = TRUE,
               !.input = input]
  <2>2. Context!Part(Context!Seq1, "block", n) \in Seq(Block) /\ end \in EndsOf(history)
    BY <1>1, PartType DEF EndsOf
  <2>3. e \in EventOf(history)
    BY <2>2, SavedCommit
  <2>4. Context!IsCommit(e)
    BY DEF Context!Commit, Context!IsCommit
  <2>5. row' = row
    BY <1>5 DEF Context!SaveAnswer
  <2> HIDE DEF e
  <2>6. Context!Save(e)
    BY <2>1 DEF e
  <2> QED
    BY <2>3, <2>4, <2>5, <2>6, SaveStep
<1>6. CASE Context!SaveEnd
  <2>1. PICK n \in {0} \cup history.blocks, end \in history.ends :
               Context!Save(Context!Commit(Context!Part(Context!Seq1, "block", n), end))
    BY <1>6 DEF Context!SaveEnd
  <2>2. Context!Part(Context!Seq1, "block", n) \in Seq(Block) /\ end \in EndsOf(history)
    BY <1>1, PartType DEF EndsOf
  <2>3. row' = row
    BY <1>6 DEF Context!SaveEnd
  <2> QED
    BY <1>3, <2>1, <2>2, <2>3
<1>7. CASE Context!SaveReplaced
  <2>1. PICK n \in history.heads, keep \in 0 .. Len(running.context) :
          Context!Save([Context!Commit(<<>>, "none") EXCEPT !.replaced = TRUE,
                !.head = Context!Part(Context!Seq1, "head", n), !.keep = keep])
    BY <1>7 DEF Context!SaveReplaced
  <2> DEFINE e == [Context!Commit(<<>>, "none") EXCEPT !.replaced = TRUE,
               !.head = Context!Part(Context!Seq1, "head", n), !.keep = keep]
  <2>2. Context!Part(Context!Seq1, "head", n) \in Seq(Block) /\ keep \in Nat /\ <<>> \in Seq(Block)
          /\ "none" \in EndsOf(history)
    <3>1. PICK m \in Nat : m = n
      BY <1>1
    <3>2. Context!Part(Context!Seq1, "head", m) \in Seq(Block)
      BY <1>1, PartType
    <3>3. keep \in Nat /\ <<>> \in Seq(Block)
      BY <1>1
    <3> QED
      BY <3>1, <3>2, <3>3 DEF EndsOf
  <2>3. e \in EventOf(history)
    BY <2>2, SavedCommit
  <2>4. Context!IsCommit(e)
    BY DEF Context!Commit, Context!IsCommit
  <2>5. row' = row
    BY <1>7 DEF Context!SaveReplaced
  <2> HIDE DEF e
  <2>6. Context!Save(e)
    BY <2>1 DEF e
  <2> QED
    BY <2>3, <2>4, <2>5, <2>6, SaveStep
<1> QED
  BY <1>2, <1>4, <1>5, <1>6, <1>7

\* A fork keeps at least the first event, and what it loads is a replay of what it copied.
LEMMA ForkStep ==
    ASSUME LoadInv, Context!Fork
    PROVE  LoadInv'
<1>1. PICK cut \in Context!Completed(events) \cup {Context!ForkCut(events)} :
        /\ cut < Len(events) /\ events' = SubSeq(events, 1, cut)
        /\ row' = Context!SettingsAt(events, cut) /\ running' = Context!Load(events', row')
  BY DEF Context!Fork
<1>2. /\ history' = history /\ Len(events) \in Nat
      /\ events \in Seq(EventOf(history)) /\ Len(events) >= 1 /\ events[1].kind = "settings"
  BY RunningType DEF LoadInv, Context!Fork
<1>3. Context!Commits(events) \in SUBSET (1 .. Len(events)) /\ 1 \notin Context!Commits(events)
  <2>1. ~Context!IsCommit(events[1])
    BY <1>2 DEF Context!IsCommit
  <2> QED
    BY <1>2, <2>1, CommitsOf
<1>4. cut \in 1 .. Len(events)
  <2>1. Context!Completed(events) \in SUBSET (1 .. Len(events))
    BY <1>3 DEF Context!Completed
  <2>2. Context!ForkCut(events) \in 1 .. Len(events)
    <3>1. CASE Context!Completed(events) # {}
      <4>1. Context!Newest(Context!Completed(events)) \in Context!Completed(events)
        BY <1>2, <2>1, <3>1, NewestOf
      <4> QED
        BY <2>1, <3>1, <4>1 DEF Context!ForkCut
    <3>2. CASE Context!Completed(events) = {} /\ Context!Commits(events) # {}
      <4>1. Context!Oldest(Context!Commits(events)) \in Context!Commits(events)
        BY <1>2, <1>3, <3>2, OldestOf
      <4>2. Context!Oldest(Context!Commits(events)) \in 1 .. Len(events)
              /\ Context!Oldest(Context!Commits(events)) # 1
        BY <1>3, <4>1
      <4>3. Context!ForkCut(events) = Context!Oldest(Context!Commits(events)) - 1
        BY <3>2 DEF Context!ForkCut
      <4> QED
        BY <1>2, <4>2, <4>3
    <3>3. CASE Context!Completed(events) = {} /\ Context!Commits(events) = {}
      BY <1>2, <3>3 DEF Context!ForkCut
    <3> QED
      BY <3>1, <3>2, <3>3
  <2> QED
    BY <2>1, <2>2
<1>5. /\ events' \in Seq(EventOf(history)) /\ Len(events') = cut /\ cut >= 1
      /\ \A k \in 1 .. cut : events'[k] = events[k]
  BY <1>1, <1>2, <1>4
<1>6. events'[1].kind = "settings"
  BY <1>2, <1>4, <1>5
<1>7. Context!SettingsAt(events, cut) = Context!SettingsAt(events', Len(events'))
  <2> DEFINE here == {k \in 1 .. cut : events[k].kind = "settings"}
             there == {k \in 1 .. cut : events'[k].kind = "settings"}
  <2>1. here = there /\ here \in SUBSET (1 .. cut) /\ 1 \in here
    BY <1>2, <1>4, <1>5
  <2>2. Context!SettingsAt(events, cut) = events[Context!Newest(here)].settings
    BY DEF Context!SettingsAt
  <2>3. Context!SettingsAt(events', Len(events')) = events'[Context!Newest(there)].settings
    BY <1>5 DEF Context!SettingsAt
  <2> HIDE DEF here, there
  <2>4. Context!Newest(here) \in 1 .. cut
    <3>1. cut \in Nat /\ here # {}
      BY <1>4, <2>1
    <3>2. Context!Newest(here) \in here
      BY <2>1, <3>1, NewestOf
    <3> QED
      BY <2>1, <3>2
  <2> QED
    BY <1>5, <2>1, <2>2, <2>3, <2>4
<1>8. PICK copy \in Seq(EventOf(history)) : copy = events'
  BY <1>5
<1>9. Context!Load(copy, Context!SettingsAt(copy, Len(copy))) = Context!Replayed(copy)[Len(copy)]
  BY <1>5, <1>6, <1>8, LoadIs
<1>10. Context!SettingsAt(copy, Len(copy)) = Context!Replayed(copy)[Len(copy)].settings
  BY <1>5, <1>6, <1>8, SettingsAtIs
<1>11. row' = Context!SettingsAt(copy, Len(copy)) /\ running' = Context!Replayed(copy)[Len(copy)]
  BY <1>1, <1>7, <1>8, <1>9
<1> QED
  BY <1>2, <1>5, <1>6, <1>8, <1>10, <1>11 DEF LoadInv

\* The events of a new session are its first settings.
LEMMA LoadInit ==
    ASSUME Context!Init
    PROVE  LoadInv
<1>1. PICK e : e = Context!Settings("first")
  OBVIOUS
<1>2. e \in EventOf(history) /\ ~Context!IsCommit(e) /\ e.kind = "settings" /\ e.settings = "first"
  BY <1>1 DEF Context!Settings, EventOf, Context!IsCommit
<1>3. events = <<e>> /\ row = "first" /\ running = [Context!Fresh EXCEPT !.settings = "first"]
        /\ history \in Histories
  BY <1>1 DEF Context!Init
<1>4. events \in Seq(EventOf(history)) /\ Len(events) = 1 /\ events[1] = e
  BY <1>2, <1>3
<1>5. Context!Replayed(events)[0] = Context!Fresh /\ \A n \in 1 .. Len(events) :
        Context!Replayed(events)[n] = Context!Apply(Context!Replayed(events)[n - 1], events[n])
  BY <1>4, ReplayedLoop
<1>6. Context!Replayed(events)[1] = Context!Apply(Context!Fresh, e)
  <2>1. 1 \in 1 .. Len(events) /\ 1 - 1 = 0
    BY <1>4
  <2> QED
    BY <1>4, <1>5, <2>1
<1>7. Context!Apply(Context!Fresh, e) = [Context!Fresh EXCEPT !.settings = "first"]
  BY <1>2 DEF Context!Apply
<1>8. running.settings = "first"
  BY <1>3 DEF Context!Fresh
<1> QED
  BY <1>2, <1>3, <1>4, <1>6, <1>7, <1>8 DEF LoadInv

\* A load gives what the running session has in memory, and what a replay of every event gives: in a
\* session and in each fork of one, after any number of replacements, each of which keeps any number
\* of blocks.  The walk back over them takes no block twice and misses none.
THEOREM LoadsReplay == SaneHistories => (Context!Spec => []Context!LoadIsReplay)
<1> SUFFICES ASSUME SaneHistories
             PROVE  Context!Spec => []Context!LoadIsReplay
  OBVIOUS
<1>1. Context!Init => LoadInv
  BY LoadInit
<1>2. LoadInv /\ [Context!Next]_Context!vars => LoadInv'
  <2> SUFFICES ASSUME LoadInv, [Context!Next]_Context!vars
               PROVE  LoadInv'
    OBVIOUS
  <2>1. CASE Context!SetSettings \/ Context!SaveInput \/ Context!SaveAnswer \/ Context!SaveEnd \/ Context!SaveReplaced
    BY <2>1, SavesStep
  <2>2. CASE Context!Fork
    BY <2>2, ForkStep
  <2>3. CASE Context!Done \/ UNCHANGED Context!vars
    BY <2>3 DEF Context!Done, Context!vars, LoadInv
  <2> QED
    BY <2>1, <2>2, <2>3 DEF Context!Next
<1>3. LoadInv => Context!LoadIsReplay
  BY LoadInvIs
<1> QED
  BY <1>1, <1>2, <1>3, PTL DEF Context!Spec

=============================================================================
