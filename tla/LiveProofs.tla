------------------------------ MODULE LiveProofs ------------------------------
(***************************************************************************)
(* Theorems about what runs beside the turns of an open session: its jobs, *)
(* for every set of jobs and every workload, and its MCP servers, for      *)
(* every finite config.                                                    *)
(*                                                                         *)
(* A step changes the record of one job, or one token of several: so the   *)
(* invariant of the jobs is about one record (JobOK), about a record and   *)
(* its place in the list that a client shows (ShownOK), and about the      *)
(* close.  What a client shows is true only when no background request     *)
(* comes while a call ends (NoLateMove): the run jobs_move shows what      *)
(* happens then.  The end of a job and the close do not need this.         *)
(*                                                                         *)
(* The invariant of the servers counts those that start while the close    *)
(* took no task (StartInv), and names those that the close waits for       *)
(* (EndInv).                                                               *)
(***************************************************************************)
EXTENDS Jobs, FiniteSetTheorems, TLAPS

\* No background request comes while a call ends.
NoLateMove == ~workload.late
-----------------------------------------------------------------------------
(***************************************************************************)
(* The invariant                                                           *)
(***************************************************************************)
Pcs == {"none", "spawns", "race", "stops", "ends", "waits", "halts", "reads", "tells", "works", "gone"}
JobType ==
    [pc : Pcs, kind : Kinds, moved : BOOLEAN, stop : BOOLEAN, silenced : BOOLEAN, called : BOOLEAN,
     group : BOOLEAN, process : {"none", "runs", "exited"},
     by : {"none", "exit", "timeout", "cancelled", "stop", "report", "nothing"},
     answer : {"none", "running", "error", "exit", "timeout", "cancelled", "ended"},
     told : {"none", "running", "stopped", "ended"}, reports : {0, 1}]
\* The type of each variable.
TypeOK ==
    /\ job \in [Ids -> JobType]
    /\ shown \subseteq Ids /\ ends \subseteq Ids
    /\ phase \in {"open", "ending", "plugins", "jobs", "closed"}

\* What each await of the task of a job knows of its record: whether a call still waits, what the
\* updates told, what runs, and that the end was told once, in one place.
JobOK(r) ==
    /\ r.pc \in {"none", "spawns"} => ~r.group /\ r.process = "none"
    /\ r.pc = "none" => ~r.stop /\ ~r.silenced
    /\ r.pc \in {"spawns", "race", "stops", "ends", "waits", "halts", "reads"} => ~OfPlugin(r.kind)
    /\ r.pc \in {"race", "stops", "ends"} => r.kind = "exec" /\ r.group
    /\ r.pc \in {"spawns", "race", "stops", "ends"} => r.answer = "none" /\ r.told = "none"
    /\ r.pc = "stops" => r.by \in {"timeout", "cancelled"}
    /\ r.pc = "ends" => r.by \in {"exit", "timeout", "cancelled"}
    /\ r.pc \in {"waits", "halts", "reads"} => r.moved /\ r.group /\ r.answer = "running" /\ r.told = "running"
    /\ r.pc = "halts" => r.by \in {"stop", "timeout"}
    /\ r.pc = "reads" => r.by \in {"stop", "timeout", "exit"}
    /\ r.pc \in {"ends", "reads"} => r.process = "exited"
    /\ r.pc = "works" =>
         /\ OfPlugin(r.kind) /\ r.process = "none"
         /\ r.silenced => r.stop
         /\ \/ r.answer = "none" /\ r.told = "none" /\ r.kind = "tool"
            \/ r.answer = "running" /\ r.told = "running" /\ r.moved
    /\ r.pc = "tells" =>
         /\ r.moved /\ r.answer = "running" /\ r.told = "ended" /\ r.by \in {"exit", "timeout", "report"}
         /\ ~r.silenced /\ (~OfPlugin(r.kind) => ~r.group)
    /\ r.pc \in {"tells", "gone"} => r.process # "runs"
    /\ r.pc \notin {"none", "gone"} /\ ~InCall(r.kind) => r.moved
    /\ r.pc # "gone" => r.reports = 0
    /\ r.pc = "gone" =>
         /\ r.told \in IF r.answer = "running" THEN {"stopped", "ended"} ELSE {"none"}
         /\ r.reports = IF r.told = "ended" /\ r.by \in {"exit", "timeout", "report"} /\ ~r.silenced THEN 1 ELSE 0

\* The close knows each job of the list: none starts after it took them.
CloseInv ==
    /\ phase = "jobs" => \A j \in Ids : Listed(j) => j \in ends
    /\ phase = "closed" => \A j \in Ids : ~Listed(j)
JobsInv == TypeOK /\ (\A j \in Ids : JobOK(job[j])) /\ CloseInv

\* A list shows the job of this record: Runs of one job.
RecordRuns(r) ==
    /\ r.pc \notin {"none", "gone"} /\ r.moved
    /\ IF OfPlugin(r.kind) THEN r.pc = "works" ELSE r.group

\* A client shows a job only while a list does, and misses one only until its task sees the move.
ShownOK(r, isShown) ==
    /\ isShown => RecordRuns(r)
    /\ RecordRuns(r) /\ ~isShown => r.pc \in {"race", "works"} /\ r.answer = "none"
    /\ r.pc \in {"stops", "ends"} => ~r.moved

ShownInv == NoLateMove => \A j \in Ids : ShownOK(job[j], j \in shown)

\* What a step of the job j may make of its record, and of what a client shows.
Fits(j, next) ==
    /\ next \in JobType /\ JobOK(next)
    /\ ShownOK(job[j], j \in shown) => ShownOK(next, j \in shown')
    /\ Listed(j) \/ phase = "open"
    /\ shown' \subseteq Ids /\ shown' \ {j} = shown \ {j}

-----------------------------------------------------------------------------
(***************************************************************************)
(* The steps of one job                                                    *)
(***************************************************************************)

(* A step that makes of one record what Fits allows keeps the invariant. *)
LEMMA OneJob ==
    ASSUME JobsInv, ShownInv, NEW j \in Ids, NEW changes, Becomes(j, changes), Fits(j, With(job[j], changes)),
           UNCHANGED <<phase, ends, workload>>
    PROVE  JobsInv' /\ ShownInv'
<1>1. job' \in [Ids -> JobType] /\ job'[j] = With(job[j], changes) /\ \A i \in Ids \ {j} : job'[i] = job[i]
  BY DEF JobsInv, TypeOK, Becomes, Fits
<1>2. JobsInv'
  BY <1>1 DEF JobsInv, TypeOK, CloseInv, Listed, Fits
<1>3. ASSUME NoLateMove, NEW i \in Ids
      PROVE  ShownOK(job'[i], i \in shown')
  <2>1. ShownOK(job[i], i \in shown)
    BY <1>3 DEF ShownInv
  <2>2. CASE i = j
    BY <1>1, <2>1, <2>2 DEF Fits
  <2>3. CASE i # j
    <3>1. (i \in shown') = (i \in shown)
      BY <2>3 DEF Fits
    <3> QED
      BY <1>1, <2>1, <2>3, <3>1 DEF ShownOK
  <2> QED
    BY <2>2, <2>3
<1> QED
  BY <1>2, <1>3 DEF ShownInv, NoLateMove

(* A step of the session that changes only tokens of jobs, and the phase of the close. *)
LEMMA EachJob ==
    ASSUME JobsInv, ShownInv, job' \in [Ids -> JobType],
           \A i \in Ids : /\ JobOK(job'[i])
                          /\ NoLateMove /\ ShownOK(job[i], i \in shown) => ShownOK(job'[i], i \in shown),
           UNCHANGED <<shown, workload>>, ends' \subseteq Ids,
           phase' \in {"open", "ending", "plugins", "jobs", "closed"}, CloseInv'
    PROVE  JobsInv' /\ ShownInv'
<1>1. JobsInv'
  BY DEF JobsInv, TypeOK
<1>2. (NoLateMove)' => NoLateMove
  BY DEF NoLateMove
<1>3. ASSUME NoLateMove, NEW i \in Ids
      PROVE  ShownOK(job'[i], i \in shown)
  BY <1>3 DEF ShownInv
<1> QED
  BY <1>1, <1>2, <1>3 DEF ShownInv

(* The steps of the executor for one command. *)
LEMMA CommandKeeps ==
    ASSUME JobsInv, ShownInv, NEW j \in Ids,
           \/ Exits(j) \/ MoveWins(j) \/ CallExits(j) \/ CallKilled(j) \/ CallAnswered(j)
           \/ JobStops(j) \/ JobTimesOut(j) \/ JobExits(j) \/ JobKilled(j) \/ JobEnds(j) \/ Told(j)
           \/ CallStops(j, "timeout") \/ CallStops(j, "cancelled")
    PROVE  JobsInv' /\ ShownInv'
<1>0. job[j] \in JobType /\ JobOK(job[j]) /\ shown \subseteq Ids
  BY DEF JobsInv, TypeOK
<1>1. CASE Exits(j)
  <2> DEFINE changes == [process |-> "exited"]
  <2>1. /\ Becomes(j, changes) /\ job[j].process = "runs"
        /\ UNCHANGED shown /\ UNCHANGED <<phase, ends, workload>>
    BY <1>1 DEF Exits
  <2>2. Fits(j, With(job[j], changes))
    BY <1>0, <2>1 DEF Fits, Listed, ShownOK, RecordRuns, With, JobType, Kinds, Pcs, JobOK, OfPlugin, InCall
  <2> QED
    BY <2>1, <2>2, OneJob
<1>2. CASE MoveWins(j)
  <2> DEFINE changes == [pc |-> "waits", answer |-> "running", told |-> "running"]
  <2>1. /\ Becomes(j, changes) /\ job[j].pc = "race" /\ job[j].moved
        /\ shown' = shown \cup {j} /\ UNCHANGED <<phase, ends, workload>>
    BY <1>2 DEF MoveWins
  <2>2. Fits(j, With(job[j], changes))
    BY <1>0, <2>1 DEF Fits, Listed, ShownOK, RecordRuns, With, JobType, Kinds, Pcs, JobOK, OfPlugin, InCall
  <2> QED
    BY <2>1, <2>2, OneJob
<1>3. CASE CallExits(j)
  <2> DEFINE changes == [pc |-> "ends", by |-> "exit"]
  <2>1. /\ Becomes(j, changes) /\ job[j].pc = "race" /\ ~job[j].moved /\ job[j].process = "exited"
        /\ UNCHANGED shown /\ UNCHANGED <<phase, ends, workload>>
    BY <1>3 DEF CallExits
  <2>2. Fits(j, With(job[j], changes))
    BY <1>0, <2>1 DEF Fits, Listed, ShownOK, RecordRuns, With, JobType, Kinds, Pcs, JobOK, OfPlugin, InCall
  <2> QED
    BY <2>1, <2>2, OneJob
<1>4. CASE CallStops(j, "timeout")
  <2> DEFINE changes == [pc |-> "stops", by |-> "timeout"]
  <2>1. /\ Becomes(j, changes) /\ job[j].pc = "race" /\ ~job[j].moved
        /\ UNCHANGED shown /\ UNCHANGED <<phase, ends, workload>>
    BY <1>4 DEF CallStops
  <2>2. Fits(j, With(job[j], changes))
    BY <1>0, <2>1 DEF Fits, Listed, ShownOK, RecordRuns, With, JobType, Kinds, Pcs, JobOK, OfPlugin, InCall
  <2> QED
    BY <2>1, <2>2, OneJob
<1>5. CASE CallStops(j, "cancelled")
  <2> DEFINE changes == [pc |-> "stops", by |-> "cancelled"]
  <2>1. /\ Becomes(j, changes) /\ job[j].pc = "race" /\ ~job[j].moved
        /\ UNCHANGED shown /\ UNCHANGED <<phase, ends, workload>>
    BY <1>5 DEF CallStops
  <2>2. Fits(j, With(job[j], changes))
    BY <1>0, <2>1 DEF Fits, Listed, ShownOK, RecordRuns, With, JobType, Kinds, Pcs, JobOK, OfPlugin, InCall
  <2> QED
    BY <2>1, <2>2, OneJob
<1>6. CASE CallKilled(j)
  <2> DEFINE changes == [pc |-> "ends", process |-> "exited"]
  <2>1. /\ Becomes(j, changes) /\ job[j].pc = "stops"
        /\ UNCHANGED shown /\ UNCHANGED <<phase, ends, workload>>
    BY <1>6 DEF CallKilled
  <2>2. Fits(j, With(job[j], changes))
    BY <1>0, <2>1 DEF Fits, Listed, ShownOK, RecordRuns, With, JobType, Kinds, Pcs, JobOK, OfPlugin, InCall
  <2> QED
    BY <2>1, <2>2, OneJob
<1>7. CASE CallAnswered(j)
  <2> DEFINE changes == [pc |-> "gone", answer |-> job[j].by]
  <2>1. /\ Becomes(j, changes) /\ job[j].pc = "ends"
        /\ UNCHANGED shown /\ UNCHANGED <<phase, ends, workload>>
    BY <1>7 DEF CallAnswered
  <2>2. Fits(j, With(job[j], changes))
    BY <1>0, <2>1 DEF Fits, Listed, ShownOK, RecordRuns, With, JobType, Kinds, Pcs, JobOK, OfPlugin, InCall
  <2> QED
    BY <2>1, <2>2, OneJob
<1>8. CASE JobStops(j)
  <2> DEFINE changes == [pc |-> "halts", by |-> "stop"]
  <2>1. /\ Becomes(j, changes) /\ job[j].pc = "waits"
        /\ UNCHANGED shown /\ UNCHANGED <<phase, ends, workload>>
    BY <1>8 DEF JobStops
  <2>2. Fits(j, With(job[j], changes))
    BY <1>0, <2>1 DEF Fits, Listed, ShownOK, RecordRuns, With, JobType, Kinds, Pcs, JobOK, OfPlugin, InCall
  <2> QED
    BY <2>1, <2>2, OneJob
<1>9. CASE JobTimesOut(j)
  <2> DEFINE changes == [pc |-> "halts", by |-> "timeout"]
  <2>1. /\ Becomes(j, changes) /\ job[j].pc = "waits"
        /\ UNCHANGED shown /\ UNCHANGED <<phase, ends, workload>>
    BY <1>9 DEF JobTimesOut
  <2>2. Fits(j, With(job[j], changes))
    BY <1>0, <2>1 DEF Fits, Listed, ShownOK, RecordRuns, With, JobType, Kinds, Pcs, JobOK, OfPlugin, InCall
  <2> QED
    BY <2>1, <2>2, OneJob
<1>10. CASE JobExits(j)
  <2> DEFINE changes == [pc |-> "reads", by |-> "exit"]
  <2>1. /\ Becomes(j, changes) /\ job[j].pc = "waits" /\ job[j].process = "exited"
        /\ UNCHANGED shown /\ UNCHANGED <<phase, ends, workload>>
    BY <1>10 DEF JobExits
  <2>2. Fits(j, With(job[j], changes))
    BY <1>0, <2>1 DEF Fits, Listed, ShownOK, RecordRuns, With, JobType, Kinds, Pcs, JobOK, OfPlugin, InCall
  <2> QED
    BY <2>1, <2>2, OneJob
<1>11. CASE JobKilled(j)
  <2> DEFINE changes == [pc |-> "reads", process |-> "exited"]
  <2>1. /\ Becomes(j, changes) /\ job[j].pc = "halts"
        /\ UNCHANGED shown /\ UNCHANGED <<phase, ends, workload>>
    BY <1>11 DEF JobKilled
  <2>2. Fits(j, With(job[j], changes))
    BY <1>0, <2>1 DEF Fits, Listed, ShownOK, RecordRuns, With, JobType, Kinds, Pcs, JobOK, OfPlugin, InCall
  <2> QED
    BY <2>1, <2>2, OneJob
<1>12. CASE JobEnds(j)
  <2> DEFINE changes == [group |-> FALSE, told |-> IF job[j].by = "stop" THEN "stopped" ELSE "ended",
                   pc |-> IF job[j].by = "stop" \/ job[j].silenced THEN "gone" ELSE "tells"]
             next == With(job[j], changes)
  <2>1. /\ Becomes(j, changes) /\ job[j].pc = "reads"
        /\ shown' = shown \ {j} /\ UNCHANGED <<phase, ends, workload>>
    BY <1>12 DEF JobEnds
  <2>2. Fits(j, next)
    <3>1. next \in JobType
      BY <1>0, <2>1 DEF With, JobType, Pcs, JobOK, Kinds
    <3>2. JobOK(next)
      BY <1>0, <2>1 DEF With, JobType, Pcs, JobOK, Kinds, OfPlugin, InCall
    <3>3. ShownOK(job[j], j \in shown) => ShownOK(next, j \in shown')
      BY <1>0, <2>1 DEF ShownOK, RecordRuns, With, JobType, Pcs, Kinds, JobOK, OfPlugin, InCall
    <3>4. Listed(j) \/ phase = "open"
      BY <1>0, <2>1 DEF Listed, JobOK, JobType, Pcs
    <3> QED
      BY <1>0, <2>1, <3>1, <3>2, <3>3, <3>4 DEF Fits
  <2> QED
    BY <2>1, <2>2, OneJob
<1>13. CASE Told(j)
  <2> DEFINE changes == [pc |-> "gone", reports |-> job[j].reports + 1]
  <2>1. /\ Becomes(j, changes) /\ job[j].pc = "tells"
        /\ UNCHANGED shown /\ UNCHANGED <<phase, ends, workload>>
    BY <1>13 DEF Told
  <2>2. Fits(j, With(job[j], changes))
    BY <1>0, <2>1 DEF Fits, Listed, ShownOK, RecordRuns, With, JobType, Kinds, Pcs, JobOK, OfPlugin, InCall
  <2> QED
    BY <2>1, <2>2, OneJob
<1> QED
  BY <1>1, <1>2, <1>3, <1>4, <1>5, <1>6, <1>7, <1>8, <1>9, <1>10, <1>11, <1>12, <1>13

(* The steps of the calls of one job, and of the work of a plugin. *)
LEMMA CallKeeps ==
    ASSUME JobsInv, ShownInv, NEW j \in Ids,
           \/ Spawned(j) \/ Announce(j) \/ WorkEnds(j) \/ CancelCall(j) \/ StopJob(j)
           \/ \E kind \in Kinds : Start(j, kind)
    PROVE  JobsInv' /\ ShownInv'
<1>0. job[j] \in JobType /\ JobOK(job[j]) /\ shown \subseteq Ids
  BY DEF JobsInv, TypeOK
<1>1. CASE Announce(j)
  <2> DEFINE changes == [answer |-> "running", told |-> "running"]
  <2>1. /\ Becomes(j, changes) /\ job[j].pc = "works" /\ job[j].moved
        /\ shown' = shown \cup {j} /\ UNCHANGED <<phase, ends, workload>>
    BY <1>1 DEF Announce
  <2>2. Fits(j, With(job[j], changes))
    BY <1>0, <2>1 DEF Fits, Listed, ShownOK, RecordRuns, With, JobType, Kinds, Pcs, JobOK, OfPlugin, InCall
  <2> QED
    BY <2>1, <2>2, OneJob
<1>2. CASE CancelCall(j)
  <2> DEFINE changes == [called |-> TRUE, stop |-> job[j].stop \/ (job[j].kind = "tool" /\ ~job[j].moved)]
             next == With(job[j], changes)
  <2>1. /\ Becomes(j, changes) /\ job[j].pc \notin {"none", "gone"}
        /\ UNCHANGED shown /\ UNCHANGED <<phase, ends, workload>>
    BY <1>2 DEF CancelCall, Listed
  <2>2. Fits(j, next)
    <3>1. next \in JobType
      <4>1. PICK c : c = changes
        OBVIOUS
      <4>2. DOMAIN c = {"called", "stop"} /\ c.called \in BOOLEAN /\ c.stop \in BOOLEAN
        BY <4>1
      <4>3. With(job[j], c) \in JobType
        BY <1>0, <4>2 DEF With, JobType
      <4> QED
        BY <4>1, <4>3
    <3>2. JobOK(next)
      <4>1. /\ next.pc = job[j].pc /\ next.kind = job[j].kind /\ next.by = job[j].by /\ next.group = job[j].group
            /\ next.process = job[j].process /\ next.answer = job[j].answer /\ next.told = job[j].told
            /\ next.moved = job[j].moved /\ next.silenced = job[j].silenced /\ next.reports = job[j].reports
            /\ job[j].stop => next.stop
        BY <1>0 DEF With, JobType
      <4> HIDE DEF next
      <4> QED
        BY <1>0, <2>1, <4>1 DEF JobType, Pcs, JobOK, Kinds, OfPlugin, InCall
    <3>3. ShownOK(job[j], j \in shown) => ShownOK(next, j \in shown')
      BY <1>0, <2>1 DEF ShownOK, RecordRuns, With, JobType, Pcs, Kinds, JobOK, OfPlugin, InCall
    <3>4. Listed(j) \/ phase = "open"
      BY <1>0, <2>1 DEF Listed, JobOK, JobType, Pcs
    <3> QED
      BY <1>0, <2>1, <3>1, <3>2, <3>3, <3>4 DEF Fits
  <2> QED
    BY <2>1, <2>2, OneJob
<1>3. CASE StopJob(j)
  <2> DEFINE changes == [silenced |-> TRUE, stop |-> TRUE]
             next == With(job[j], changes)
  <2>1. /\ Becomes(j, changes) /\ job[j].pc \notin {"none", "gone"}
        /\ (OfPlugin(job[j].kind) => job[j].pc = "works") /\ (~OfPlugin(job[j].kind) => job[j].group)
        /\ UNCHANGED shown /\ UNCHANGED <<phase, ends, workload>>
    BY <1>3 DEF StopJob, Runs, Listed
  <2>2. Fits(j, next)
    <3>1. next \in JobType
      <4>1. PICK c : c = changes
        OBVIOUS
      <4>2. DOMAIN c = {"silenced", "stop"} /\ c.silenced \in BOOLEAN /\ c.stop \in BOOLEAN
        BY <4>1
      <4>3. With(job[j], c) \in JobType
        BY <1>0, <4>2 DEF With, JobType
      <4> QED
        BY <4>1, <4>3
    <3>2. JobOK(next)
      BY <1>0, <2>1 DEF With, JobType, Pcs, JobOK, Kinds, OfPlugin, InCall
    <3>3. ShownOK(job[j], j \in shown) => ShownOK(next, j \in shown')
      BY <1>0, <2>1 DEF ShownOK, RecordRuns, With, JobType, Pcs, Kinds, JobOK, OfPlugin, InCall
    <3>4. Listed(j) \/ phase = "open"
      BY <1>0, <2>1 DEF Listed, JobOK, JobType, Pcs
    <3> QED
      BY <1>0, <2>1, <3>1, <3>2, <3>3, <3>4 DEF Fits
  <2> QED
    BY <2>1, <2>2, OneJob
<1>4. CASE Spawned(j)
  <2> DEFINE exec == [pc |-> "race", group |-> TRUE, process |-> "runs"]
             starts == [pc |-> "waits", group |-> TRUE, process |-> "runs",
                        answer |-> "running", told |-> "running"]
             fails == [pc |-> "gone", answer |-> "error"]
  <2>1. job[j].pc = "spawns" /\ UNCHANGED <<phase, ends, workload>>
    BY <1>4 DEF Spawned
  <2>2. CASE job[j].kind = "exec" /\ Becomes(j, exec) /\ UNCHANGED shown
    <3>1. Fits(j, With(job[j], exec))
      <4>1. With(job[j], exec) \in JobType
        BY <1>0, <2>1, <2>2 DEF With, JobType, Pcs, JobOK, Kinds
      <4>2. JobOK(With(job[j], exec))
        BY <1>0, <2>1, <2>2 DEF With, JobType, Pcs, JobOK, Kinds, OfPlugin, InCall
      <4>3. ShownOK(job[j], j \in shown) => ShownOK(With(job[j], exec), j \in shown')
        BY <1>0, <2>1, <2>2 DEF ShownOK, RecordRuns, With, JobType, Pcs, Kinds, JobOK, OfPlugin, InCall
      <4>4. Listed(j) \/ phase = "open"
        BY <1>0, <2>1, <2>2 DEF Listed, JobOK, JobType, Pcs
      <4> QED
        BY <1>0, <2>1, <2>2, <4>1, <4>2, <4>3, <4>4 DEF Fits
    <3> QED
      BY <2>1, <2>2, <3>1, OneJob
  <2>3. CASE job[j].kind = "process" /\ Becomes(j, starts) /\ shown' = shown \cup {j}
    <3>1. Fits(j, With(job[j], starts))
      <4>1. With(job[j], starts) \in JobType
        BY <1>0, <2>1, <2>3 DEF With, JobType, Pcs, JobOK, Kinds
      <4>2. JobOK(With(job[j], starts))
        BY <1>0, <2>1, <2>3 DEF With, JobType, Pcs, JobOK, Kinds, OfPlugin, InCall
      <4>3. ShownOK(job[j], j \in shown) => ShownOK(With(job[j], starts), j \in shown')
        BY <1>0, <2>1, <2>3 DEF ShownOK, RecordRuns, With, JobType, Pcs, Kinds, JobOK, OfPlugin, InCall
      <4>4. Listed(j) \/ phase = "open"
        BY <1>0, <2>1, <2>3 DEF Listed, JobOK, JobType, Pcs
      <4> QED
        BY <1>0, <2>1, <2>3, <4>1, <4>2, <4>3, <4>4 DEF Fits
    <3> QED
      BY <2>1, <2>3, <3>1, OneJob
  <2>4. CASE Becomes(j, fails) /\ UNCHANGED shown
    <3>1. Fits(j, With(job[j], fails))
      BY <1>0, <2>1, <2>4 DEF Fits, Listed, ShownOK, RecordRuns, With, JobType, Kinds, Pcs, JobOK, OfPlugin, InCall
    <3> QED
      BY <2>1, <2>4, <3>1, OneJob
  <2> QED
    BY <1>4, <2>2, <2>3, <2>4 DEF Spawned
<1>5. CASE WorkEnds(j)
  <2>1. job[j].pc = "works" /\ UNCHANGED <<phase, ends, workload>>
    BY <1>5 DEF WorkEnds
  <2>2. PICK by \in {"report", "nothing"} :
          \/ /\ Waits(j) /\ UNCHANGED shown
             /\ Becomes(j, [pc |-> "gone", answer |-> "ended", by |-> by])
          \/ /\ ~Waits(j) /\ shown' = shown \ {j}
             /\ Becomes(j, [answer |-> "running", by |-> by, told |-> IF job[j].stop THEN "stopped" ELSE "ended",
                            pc |-> IF by = "report" /\ ~job[j].stop THEN "tells" ELSE "gone"])
    BY <1>5 DEF WorkEnds
  <2> DEFINE toCall == [pc |-> "gone", answer |-> "ended", by |-> by]
             toSession == [answer |-> "running", by |-> by, told |-> IF job[j].stop THEN "stopped" ELSE "ended",
                           pc |-> IF by = "report" /\ ~job[j].stop THEN "tells" ELSE "gone"]
  <2>3. CASE Waits(j) /\ UNCHANGED shown /\ Becomes(j, toCall)
    <3>1. Fits(j, With(job[j], toCall))
      BY <1>0, <2>1, <2>3
        DEF Waits, Fits, Listed, ShownOK, RecordRuns, With, JobType, Kinds, Pcs, JobOK, OfPlugin, InCall
    <3> QED
      BY <2>1, <2>3, <3>1, OneJob
  <2>4. CASE ~Waits(j) /\ shown' = shown \ {j} /\ Becomes(j, toSession)
    <3>1. Fits(j, With(job[j], toSession))
      <4> DEFINE next == With(job[j], toSession)
      <4>0. job[j].kind \in Kinds /\ OfPlugin(job[j].kind) /\ job[j].process = "none" /\ job[j].reports = 0
        BY <1>0, <2>1 DEF JobType, JobOK
      <4>1. /\ next.pc = toSession.pc /\ next.answer = "running" /\ next.by = by /\ next.told = toSession.told
            /\ next.kind = job[j].kind /\ next.group = job[j].group /\ next.process = job[j].process
            /\ next.moved = job[j].moved /\ next.silenced = job[j].silenced /\ next.stop = job[j].stop
            /\ next.reports = job[j].reports
        BY <1>0 DEF With, JobType
      <4>2. next \in JobType
        BY <1>0, <2>2 DEF With, JobType, Pcs
      <4> HIDE DEF next
      <4>3. job[j].moved /\ (job[j].silenced => job[j].stop)
        BY <1>0, <2>1, <2>4 DEF Waits, JobType, Kinds, JobOK, OfPlugin, InCall
      <4>4. JobOK(next)
        BY <4>0, <4>1, <4>3 DEF JobOK, OfPlugin, InCall
      <4>5. ShownOK(job[j], j \in shown) => ShownOK(next, j \in shown')
        BY <2>4, <4>0, <4>1 DEF ShownOK, RecordRuns
      <4>6. Listed(j)
        BY <2>1 DEF Listed
      <4> QED
        BY <1>0, <2>4, <4>2, <4>4, <4>5, <4>6 DEF Fits, next
    <3> QED
      BY <2>1, <2>4, <3>1, OneJob
  <2> QED
    BY <2>2, <2>3, <2>4
<1>6. CASE \E kind \in Kinds : Start(j, kind)
  <2>1. PICK kind \in Kinds : Start(j, kind)
    BY <1>6
  <2> DEFINE shows == kind = "plugin"
             entry == [pc |-> IF OfPlugin(kind) THEN "works" ELSE "spawns", kind |-> kind, moved |-> ~InCall(kind),
                       answer |-> IF shows THEN "running" ELSE "none", told |-> IF shows THEN "running" ELSE "none"]
  <2>2. /\ job[j].pc = "none" /\ phase = "open" /\ UNCHANGED <<phase, ends, workload>>
        /\ Becomes(j, entry) /\ shown' = IF shows THEN shown \cup {j} ELSE shown
    BY <2>1 DEF Start, Enters
  <2>3. Fits(j, With(job[j], entry))
    <3>1. With(job[j], entry) \in JobType
      BY <1>0, <2>2 DEF With, JobType, Pcs, JobOK, Kinds
    <3>2. JobOK(With(job[j], entry))
      BY <1>0, <2>2 DEF With, JobType, Pcs, JobOK, Kinds, OfPlugin, InCall
    <3>3. ShownOK(job[j], j \in shown) => ShownOK(With(job[j], entry), j \in shown')
      BY <1>0, <2>2 DEF ShownOK, RecordRuns, With, JobType, Pcs, Kinds, JobOK, OfPlugin, InCall
    <3>4. Listed(j) \/ phase = "open"
      BY <1>0, <2>2 DEF Listed, JobOK, JobType, Pcs
    <3> QED
      BY <1>0, <2>2, <3>1, <3>2, <3>3, <3>4 DEF Fits
  <2> QED
    BY <2>2, <2>3, OneJob
<1> QED
  BY <1>1, <1>2, <1>3, <1>4, <1>5, <1>6

-----------------------------------------------------------------------------
(***************************************************************************)
(* The steps of the session                                                *)
(***************************************************************************)

(* A stop changes what no list and no client shows. *)
LEMMA StopKeeps ==
    ASSUME NEW r \in JobType, JobOK(r), r.pc \notin {"none", "gone"}
    PROVE  LET next == With(r, [stop |-> TRUE])
           IN  /\ next \in JobType /\ JobOK(next) /\ next.pc = r.pc
               /\ \A isShown \in BOOLEAN : ShownOK(r, isShown) => ShownOK(next, isShown)
<1> DEFINE next == With(r, [stop |-> TRUE])
<1>1. next \in JobType
  <2>1. PICK c : c = [stop |-> TRUE]
    OBVIOUS
  <2>2. DOMAIN c = {"stop"} /\ c.stop \in BOOLEAN
    BY <2>1
  <2>3. With(r, c) \in JobType
    BY <2>2 DEF With, JobType
  <2> QED
    BY <2>1, <2>3
<1>0. next.pc = r.pc
  BY DEF With, JobType
<1>2. JobOK(next)
  BY DEF With, JobType, Kinds, Pcs, JobOK, OfPlugin, InCall
<1>3. ASSUME NEW isShown \in BOOLEAN, ShownOK(r, isShown)
      PROVE  ShownOK(next, isShown)
  BY <1>3 DEF ShownOK, RecordRuns, With, JobType, Kinds, Pcs, JobOK, OfPlugin, InCall
<1> QED
  BY <1>0, <1>1, <1>2, <1>3

(* And so does the end of a call. *)
LEMMA CancelKeeps ==
    ASSUME NEW r \in JobType, JobOK(r), r.pc \notin {"none", "gone"}, NEW stops \in BOOLEAN, r.stop => stops
    PROVE  LET next == With(r, [called |-> TRUE, stop |-> stops])
           IN  /\ next \in JobType /\ JobOK(next) /\ next.pc = r.pc
               /\ \A isShown \in BOOLEAN : ShownOK(r, isShown) => ShownOK(next, isShown)
<1> DEFINE next == With(r, [called |-> TRUE, stop |-> stops])
<1>1. next \in JobType
  <2>1. PICK c : c = [called |-> TRUE, stop |-> stops]
    OBVIOUS
  <2>2. DOMAIN c = {"called", "stop"} /\ c.called \in BOOLEAN /\ c.stop \in BOOLEAN
    BY <2>1
  <2>3. With(r, c) \in JobType
    BY <2>2 DEF With, JobType
  <2> QED
    BY <2>1, <2>3
<1>0. next.pc = r.pc
  BY DEF With, JobType
<1>2. JobOK(next)
  BY DEF With, JobType, Kinds, Pcs, JobOK, OfPlugin, InCall
<1>3. ASSUME NEW isShown \in BOOLEAN, ShownOK(r, isShown)
      PROVE  ShownOK(next, isShown)
  BY <1>3 DEF ShownOK, RecordRuns, With, JobType, Kinds, Pcs, JobOK, OfPlugin, InCall
<1> QED
  BY <1>0, <1>1, <1>2, <1>3

(* A move shows only a job that a client shows later. *)
LEMMA MoveKeeps ==
    ASSUME NEW r \in JobType, JobOK(r), r.pc \notin {"none", "gone"}, ~r.moved
    PROVE  LET next == With(r, [moved |-> TRUE])
           IN  /\ next \in JobType /\ JobOK(next) /\ next.pc = r.pc
               /\ r.pc \notin {"stops", "ends"} =>
                    \A isShown \in BOOLEAN : ShownOK(r, isShown) => ShownOK(next, isShown)
<1> DEFINE next == With(r, [moved |-> TRUE])
<1>1. next \in JobType
  <2>1. PICK c : c = [moved |-> TRUE]
    OBVIOUS
  <2>2. DOMAIN c = {"moved"} /\ c.moved \in BOOLEAN
    BY <2>1
  <2>3. With(r, c) \in JobType
    BY <2>2 DEF With, JobType
  <2> QED
    BY <2>1, <2>3
<1>2. next.pc = r.pc
  BY DEF With, JobType
<1>3. JobOK(next)
  BY DEF With, JobType, Kinds, Pcs, JobOK, OfPlugin, InCall
<1>4. ASSUME r.pc \notin {"stops", "ends"}, NEW isShown \in BOOLEAN, ShownOK(r, isShown)
      PROVE  ShownOK(next, isShown)
  BY <1>4 DEF ShownOK, RecordRuns, With, JobType, Kinds, Pcs, JobOK, OfPlugin, InCall
<1> QED
  BY <1>1, <1>2, <1>3, <1>4

(* The background request, the load, the reload and the steps of the close. *)
LEMMA SessionKeeps ==
    ASSUME JobsInv, ShownInv, Background \/ Load \/ Reload \/ CloseStarts \/ CloseSteps
    PROVE  JobsInv' /\ ShownInv'
<1>0. \A i \in Ids : job[i] \in JobType /\ JobOK(job[i]) /\ (i \in shown) \in BOOLEAN
  BY DEF JobsInv, TypeOK
<1> DEFINE Stopped(set) == [i \in Ids |-> IF i \in set THEN With(job[i], [stop |-> TRUE]) ELSE job[i]]
<1>1. ASSUME NEW set, \A i \in set : i \in Ids /\ Listed(i), job' = Stopped(set), NEW i \in Ids
      PROVE  /\ job'[i] \in JobType /\ JobOK(job'[i]) /\ job'[i].pc = job[i].pc
             /\ ShownOK(job[i], i \in shown) => ShownOK(job'[i], i \in shown)
  <2>1. CASE i \in set
    <3>1. job'[i] = With(job[i], [stop |-> TRUE]) /\ job[i].pc \notin {"none", "gone"}
      BY <1>1, <2>1 DEF Listed
    <3> QED
      BY <1>0, <3>1, StopKeeps
  <2>2. CASE i \notin set
    BY <1>0, <1>1, <2>2
  <2> QED
    BY <2>1, <2>2
<1>2. CASE Background
  <2>1. job' = [i \in Ids |-> IF i \in Movable THEN With(job[i], [moved |-> TRUE]) ELSE job[i]]
        /\ (workload.late \/ \A i \in Movable : ~CallEnds(i)) /\ UNCHANGED <<shown, phase, ends, workload>>
    BY <1>2 DEF Background, AllBecome
  <2>2. ASSUME NEW i \in Ids
        PROVE  /\ job'[i] \in JobType /\ JobOK(job'[i]) /\ job'[i].pc = job[i].pc
               /\ NoLateMove /\ ShownOK(job[i], i \in shown) => ShownOK(job'[i], i \in shown)
    <3>1. CASE i \in Movable
      <4>1. job'[i] = With(job[i], [moved |-> TRUE]) /\ job[i].pc \notin {"none", "gone"} /\ ~job[i].moved
        BY <2>1, <3>1 DEF Movable, Listed
      <4>2. NoLateMove => job[i].pc \notin {"stops", "ends"}
        BY <2>1, <3>1 DEF CallEnds, NoLateMove
      <4> QED
        BY <1>0, <4>1, <4>2, MoveKeeps
    <3>2. CASE i \notin Movable
      BY <1>0, <2>1, <3>2
    <3> QED
      BY <3>1, <3>2
  <2>3. job' \in [Ids -> JobType] /\ CloseInv'
    BY <2>1, <2>2 DEF JobsInv, CloseInv, Listed
  <2> QED
    BY <2>1, <2>2, <2>3, EachJob DEF JobsInv, TypeOK
<1>3. CASE Load
  <2>1. shown' = Running /\ UNCHANGED <<job, phase, ends, workload>>
    BY <1>3 DEF Load
  <2>2. JobsInv'
    BY <2>1 DEF JobsInv, TypeOK, CloseInv, Listed, Running
  <2>3. ASSUME NoLateMove, NEW i \in Ids
        PROVE  ShownOK(job[i], i \in Running)
    <3>1. ShownOK(job[i], i \in shown)
      BY <2>3 DEF ShownInv
    <3>2. i \in Running <=> RecordRuns(job[i])
      BY DEF Running, Runs, Listed, RecordRuns
    <3> QED
      BY <3>1, <3>2 DEF ShownOK
  <2> QED
    BY <2>1, <2>2, <2>3 DEF ShownInv, NoLateMove
<1>4. CASE Reload
  <2>1. job' = Stopped(PluginJobs) /\ UNCHANGED <<shown, phase, ends, workload>>
        /\ \A i \in PluginJobs : i \in Ids /\ Listed(i)
    BY <1>4 DEF Reload, AllBecome, PluginJobs
  <2>2. job' \in [Ids -> JobType] /\ CloseInv'
    BY <1>1, <2>1 DEF JobsInv, CloseInv, Listed
  <2> QED
    BY <1>1, <2>1, <2>2, EachJob DEF JobsInv, TypeOK
<1>5. CASE CloseStarts
  <2> DEFINE Cancelled(i) == Listed(i) /\ InCall(job[i].kind) /\ job[i].answer = "none"
             stops(i) == job[i].stop \/ (job[i].kind = "tool" /\ ~job[i].moved)
  <2>1. job' = [i \in Ids |-> IF Cancelled(i) THEN With(job[i], [called |-> TRUE, stop |-> stops(i)]) ELSE job[i]]
        /\ phase' = "ending" /\ UNCHANGED <<shown, ends, workload>>
    BY <1>5 DEF CloseStarts
  <2>2. ASSUME NEW i \in Ids
        PROVE  /\ job'[i] \in JobType /\ JobOK(job'[i])
               /\ ShownOK(job[i], i \in shown) => ShownOK(job'[i], i \in shown)
    <3>1. CASE Cancelled(i)
      <4>1. job'[i] = With(job[i], [called |-> TRUE, stop |-> stops(i)]) /\ job[i].pc \notin {"none", "gone"}
        BY <2>1, <3>1 DEF Listed
      <4>2. stops(i) \in BOOLEAN /\ (job[i].stop => stops(i))
        OBVIOUS
      <4> HIDE DEF stops
      <4> QED
        BY <1>0, <4>1, <4>2, CancelKeeps
    <3>2. CASE ~Cancelled(i)
      BY <1>0, <2>1, <3>2
    <3> QED
      BY <3>1, <3>2
  <2>3. job' \in [Ids -> JobType] /\ CloseInv'
    BY <2>1, <2>2 DEF CloseInv
  <2> QED
    BY <2>1, <2>2, <2>3, EachJob DEF JobsInv, TypeOK
<1>6. CASE ClosePlugins
  <2>1. job' = Stopped(PluginJobs) /\ phase' = "plugins" /\ UNCHANGED <<shown, ends, workload>>
        /\ \A i \in PluginJobs : i \in Ids /\ Listed(i)
    BY <1>6 DEF ClosePlugins, AllBecome, PluginJobs
  <2>2. job' \in [Ids -> JobType] /\ CloseInv'
    BY <1>1, <2>1 DEF CloseInv
  <2> QED
    BY <1>1, <2>1, <2>2, EachJob DEF JobsInv, TypeOK
<1>7. CASE CloseJobs
  <2>1. job' = Stopped(ends') /\ phase' = "jobs" /\ ends' = {i \in Ids : Listed(i)} /\ UNCHANGED <<shown, workload>>
    BY <1>7 DEF CloseJobs, AllBecome
  <2>2. \A i \in ends' : i \in Ids /\ Listed(i)
    BY <2>1
  <2>3. job' \in [Ids -> JobType] /\ CloseInv'
    BY <1>1, <2>1, <2>2 DEF CloseInv, Listed
  <2> QED
    BY <1>1, <2>1, <2>2, <2>3, EachJob
<1>8. CASE Closed
  <2>1. phase = "jobs" /\ phase' = "closed" /\ (\A i \in ends : ~Listed(i))
        /\ UNCHANGED <<job, shown, ends, workload>>
    BY <1>8 DEF Closed
  <2>2. CloseInv'
    BY <2>1 DEF JobsInv, CloseInv, Listed
  <2> QED
    BY <1>0, <2>1, <2>2, EachJob DEF JobsInv, TypeOK
<1> QED
  BY <1>2, <1>3, <1>4, <1>5, <1>6, <1>7, <1>8 DEF CloseSteps

(* The first states satisfy it: no job is there. *)
LEMMA InitKeeps == Init => JobsInv /\ ShownInv
<1> SUFFICES ASSUME Init PROVE JobsInv /\ ShownInv
  OBVIOUS
<1>1. \A i \in Ids : job[i] = NoJob
  BY DEF Init
<1>2. NoJob \in JobType
  BY DEF NoJob, JobType, Pcs, Kinds
<1>3. JobOK(NoJob) /\ ShownOK(NoJob, FALSE)
  BY DEF NoJob, JobOK, ShownOK, RecordRuns, OfPlugin, InCall
<1>4. job \in [Ids -> JobType] /\ shown = {} /\ ends = {} /\ phase = "open"
  BY <1>2 DEF Init
<1>5. ASSUME NEW i \in Ids PROVE ShownOK(job[i], i \in shown)
  BY <1>1, <1>3, <1>4 DEF ShownOK
<1> QED
  BY <1>1, <1>2, <1>3, <1>4, <1>5 DEF JobsInv, TypeOK, CloseInv, ShownInv

-----------------------------------------------------------------------------
(***************************************************************************)
(* The theorems                                                            *)
(***************************************************************************)

(* The invariant holds in every step of the session, of the tasks and of the close. *)
THEOREM JobsInvariant == Spec => [](JobsInv /\ ShownInv)
<1>1. ASSUME JobsInv, ShownInv, [Next]_vars
      PROVE  JobsInv' /\ ShownInv'
  <2>1. CASE UNCHANGED vars
    BY <1>1, <2>1 DEF vars, JobsInv, TypeOK, CloseInv, ShownInv, NoLateMove, Listed
  <2>2. ASSUME NEW j \in Ids, \/ \E kind \in Kinds : Start(j, kind)
                              \/ CancelCall(j) \/ StopJob(j) \/ Exits(j)
                              \/ CallStops(j, "timeout") \/ JobTimesOut(j) \/ WorkEnds(j)
                              \/ Task(j)
        PROVE  JobsInv' /\ ShownInv'
    BY <1>1, <2>2, CommandKeeps, CallKeeps DEF Task
  <2>3. CASE Background \/ Load \/ Reload \/ CloseStarts \/ CloseSteps
    BY <1>1, <2>3, SessionKeeps
  <2> QED
    BY <1>1, <2>1, <2>2, <2>3 DEF Next
<1> QED
  BY <1>1, InitKeeps, PTL DEF Spec

(* The end of a job goes to one place: to the call that waits, or after a move to one update and, when    *)
(* the job ended by itself and no stop silenced it, to one report; also when a move comes while the call  *)
(* ends (processes.rs:276, 379).                                                                          *)
THEOREM EndsTold == Spec => []EndTold
<1>1. JobsInv => EndTold
  BY DEF JobsInv, TypeOK, JobType, JobOK, EndTold, Reported
<1> QED
  BY <1>1, JobsInvariant, PTL

(* A close leaves no job in the list and no process of one (jobs.rs:393). *)
THEOREM ClosesLeaveNone == Spec => []CloseLeavesNone
<1>1. JobsInv => CloseLeavesNone
  BY DEF JobsInv, TypeOK, JobType, JobOK, CloseInv, CloseLeavesNone, Listed
<1> QED
  BY <1>1, JobsInvariant, PTL

(* A client shows no job that ended, and misses a running one only until its task sees the move; with the *)
(* two theorems above, all of JobsTold (protocol/README.md:78).                                           *)
THEOREM JobsToldHolds == Spec => [](NoLateMove => JobsTold)
<1>1. JobsInv /\ ShownInv /\ NoLateMove => ShownTrue
  <2> SUFFICES ASSUME JobsInv, ShownInv, NoLateMove PROVE ShownTrue
    OBVIOUS
  <2>1. ASSUME NEW i \in Ids
        PROVE  /\ i \in shown => i \in Running
               /\ i \in Running \ shown => job[i].pc \in {"race", "works"} /\ job[i].answer = "none"
    <3>1. ShownOK(job[i], i \in shown)
      BY DEF ShownInv
    <3>2. i \in Running <=> RecordRuns(job[i])
      BY DEF Running, Runs, Listed, RecordRuns
    <3> QED
      BY <3>1, <3>2 DEF ShownOK
  <2>2. shown \subseteq Ids /\ Running \subseteq Ids
    BY DEF JobsInv, TypeOK, Running
  <2> QED
    BY <2>1, <2>2 DEF ShownTrue, ShownRuns
<1> QED
  BY <1>1, JobsInvariant, EndsTold, ClosesLeaveNone, PTL DEF JobsTold
-----------------------------------------------------------------------------
(***************************************************************************)
(* The MCP servers                                                         *)
(***************************************************************************)
CONSTANT Configs
VARIABLES slot, task, program, link, trust, count, tasks, close, left, stops, turn, cancel, tools, call
Mcp == INSTANCE Servers

\* A config is two finite lists of entries.
FiniteConfigs == \A c \in Configs : IsFiniteSet(DOMAIN c.user) /\ IsFiniteSet(DOMAIN c.project)

Starting == {"spawns", "agrees", "logs"}
Asking == {"asks", "yes", "no"}
ServersType ==
    /\ IsFiniteSet(Mcp!Slots) /\ Mcp!Trust \notin Mcp!Slots
    /\ slot \in [Mcp!Slots -> [state : {"disabled", "failed", "connecting", "untrusted", "connected"},
                               peer : BOOLEAN, stop : BOOLEAN]]
    /\ task \in [Mcp!Slots -> Starting \cup {"none", "waits", "ends", "done", "aborted"}]
    /\ program \in [Mcp!Slots -> {"none", "runs", "exited", "dropped"}]
    /\ link \in [Mcp!Slots -> {"none", "up", "ending", "down"}]
    /\ tasks \subseteq Mcp!Slots \cup {Mcp!Trust} /\ left \subseteq Mcp!Slots \cup {Mcp!Trust}
    /\ trust \in Asking \cup {"none", "done"}
    /\ close \in {"open", "stopped", "closing", "closed"}

\* The close did not take the list of the tasks yet.
Kept == close \in {"open", "stopped"}

\* The servers that the count counts.
Counted == Mcp!InState("connecting") \cup (IF trust \in Asking THEN Mcp!InState("untrusted") ELSE {})

\* Until the close the count is that of the servers that start, or wait for the trust.
StartInv ==
    /\ turn # "idle" => Kept
    /\ Kept =>
         /\ count = Cardinality(Counted)
         /\ \A i \in Mcp!Slots :
              /\ task[i] # "aborted"
              /\ slot[i].state = "connecting" <=> task[i] \in Starting
              /\ slot[i].state = "untrusted" => task[i] = "none"
         /\ trust = "none" => Mcp!InState("untrusted") = {}

\* The tasks that the close waits for, or will wait for.
Awaited == IF Kept THEN tasks ELSE left

\* Each task that did not end is one of them, and each program has a task that will end it.
EndInv ==
    /\ \A i \in Mcp!Slots : i \in Awaited \/ task[i] \in {"none", "done", "aborted"}
    /\ Mcp!Trust \in Awaited \/ trust \in {"none", "done"}
    /\ \A i \in Mcp!Slots : program[i] = "runs" => task[i] \in {"agrees", "waits"}
    /\ close = "closed" => left = {}
ServersInv == ServersType /\ StartInv /\ EndInv
-----------------------------------------------------------------------------
(* The instance counts as FiniteSets does. *)
LEMMA CardinalityIs == \A S : Mcp!Cardinality(S) = Cardinality(S)
  BY DEF Mcp!Cardinality, Cardinality

(* The first states. *)
LEMMA ServersInit ==
    ASSUME FiniteConfigs, Mcp!Init
    PROVE  ServersInv
<1>1. PICK config \in Configs :
         slot = [i \in Mcp!Places(config) |->
                   [state |-> Mcp!FirstState(i[1], config[i[1]][i[2]]), peer |-> FALSE, stop |-> FALSE]]
  BY DEF Mcp!Init
<1> DEFINE All == ({"user"} \X DOMAIN config.user) \cup ({"project"} \X DOMAIN config.project)
<1>2. IsFiniteSet(All)
  <2>1. IsFiniteSet({"user"} \X DOMAIN config.user) /\ IsFiniteSet({"project"} \X DOMAIN config.project)
    BY FS_Product, FS_Singleton DEF FiniteConfigs
  <2> QED
    BY <2>1, FS_Union
<1>3. Mcp!Slots = Mcp!Places(config) /\ Mcp!Places(config) \subseteq All
  BY <1>1 DEF Mcp!Slots, Mcp!Places
<1>4. IsFiniteSet(Mcp!Slots)
  BY <1>2, <1>3, FS_Subset
<1>5. Mcp!Trust \notin Mcp!Slots
  BY <1>3 DEF Mcp!Trust
<1>6. \A i \in Mcp!Slots :
         slot[i] \in [state : {"disabled", "failed", "connecting", "untrusted"}, peer : {FALSE}, stop : {FALSE}]
  BY <1>1, <1>3 DEF Mcp!FirstState
<1>7. slot \in [Mcp!Slots -> [state : {"disabled", "failed", "connecting", "untrusted", "connected"},
                              peer : BOOLEAN, stop : BOOLEAN]]
  BY <1>1, <1>3, <1>6
<1>8. ServersType
  BY <1>4, <1>5, <1>7 DEF Mcp!Init, ServersType, Starting, Asking, Mcp!InState
<1>9. count = Cardinality(Counted)
  <2>1. Counted = Mcp!InState("connecting") \cup Mcp!InState("untrusted")
    BY DEF Counted, Mcp!Init, Asking
  <2> QED
    BY <2>1, CardinalityIs DEF Mcp!Init
<1>10. StartInv
  BY <1>9 DEF Mcp!Init, StartInv, Kept, Starting
<1>11. EndInv
  BY DEF Mcp!Init, EndInv, Awaited, Kept, Mcp!InState
<1> QED
  BY <1>8, <1>10, <1>11 DEF ServersInv

(* The trust ends: the gated servers start, or leave the count. *)
LEMMA StartTrustedKeeps ==
    ASSUME ServersInv, Mcp!StartTrusted
    PROVE  ServersInv'
<1> DEFINE gated == Mcp!InState("untrusted")
<1>0. trust \in Asking /\ trust' = "done" /\ UNCHANGED <<program, link, Mcp!closeVars, Mcp!turnVars>>
  BY DEF Mcp!StartTrusted, Asking
<1>1. gated \subseteq Mcp!Slots /\ Mcp!InState("connecting") \subseteq Mcp!Slots
  BY DEF Mcp!InState
<1>2. CASE trust = "yes" /\ ~Mcp!Closing
  <2>1. /\ slot' = [i \in Mcp!Slots |-> IF slot[i].state = "untrusted" THEN [slot[i] EXCEPT !.state = "connecting"]
                                                                       ELSE slot[i]]
        /\ task' = [i \in Mcp!Slots |-> IF slot[i].state = "untrusted" THEN "spawns" ELSE task[i]]
        /\ tasks' = tasks \cup gated /\ count' = count
    BY <1>2 DEF Mcp!StartTrusted
  <2>2. Mcp!Slots' = Mcp!Slots /\ Kept /\ Kept'
    BY <1>0, <1>2, <2>1 DEF Mcp!Slots, Kept, Mcp!Closing, ServersInv, ServersType, Mcp!closeVars
  <2>3. ServersType'
    BY <1>0, <1>1, <2>1, <2>2 DEF ServersInv, ServersType, Starting, Mcp!closeVars
  <2>4. \A i \in Mcp!Slots : slot'[i].state = (IF slot[i].state = "untrusted" THEN "connecting" ELSE slot[i].state)
    BY <2>1 DEF ServersInv, ServersType
  <2>5. Counted' = Counted
    BY <1>0, <2>2, <2>4 DEF Counted, Mcp!InState, Asking
  <2>6. StartInv'
    BY <1>0, <2>1, <2>2, <2>4, <2>5 DEF ServersInv, StartInv, Starting
  <2>7. EndInv'
    <3>1. Awaited' = Awaited \cup gated /\ close' = close /\ left' = left
      BY <1>0, <2>1, <2>2 DEF Awaited, Mcp!closeVars
    <3>2. \A i \in Mcp!Slots : i \in gated <=> slot[i].state = "untrusted"
      BY DEF Mcp!InState
    <3>3. \A i \in Mcp!Slots : i \in gated => task[i] = "none"
      BY <2>2, <3>2 DEF ServersInv, StartInv
    <3> QED
      BY <1>0, <2>1, <2>2, <3>1, <3>2, <3>3 DEF ServersInv, EndInv, Starting
  <2> QED
    BY <2>3, <2>6, <2>7 DEF ServersInv
<1>3. CASE ~(trust = "yes" /\ ~Mcp!Closing)
  <2>1. UNCHANGED <<slot, task, tasks>> /\ count' = count - Cardinality(gated)
    BY <1>3, CardinalityIs DEF Mcp!StartTrusted
  <2>2. Mcp!Slots' = Mcp!Slots /\ Kept' = Kept /\ Awaited' = Awaited
    BY <1>0, <2>1 DEF Mcp!Slots, Kept, Awaited, Mcp!closeVars
  <2>3. Cardinality(Mcp!InState("connecting")) = Cardinality(Counted) - Cardinality(gated)
    <3>1. Counted = Mcp!InState("connecting") \cup gated /\ Mcp!InState("connecting") \cap gated = {}
      BY <1>0 DEF Counted, Mcp!InState
    <3>2. IsFiniteSet(Counted)
      BY <1>1, <3>1, FS_Subset DEF ServersInv, ServersType
    <3>3. Counted \ gated = Mcp!InState("connecting") /\ Counted \cap gated = gated
      BY <3>1
    <3>4. Cardinality(Counted \ gated) = Cardinality(Counted) - Cardinality(Counted \cap gated)
      BY <3>2, FS_Difference
    <3> QED
      BY <3>3, <3>4
  <2>4. Counted' = Mcp!InState("connecting")
    BY <1>0, <2>1, <2>2 DEF Counted, Mcp!InState, Asking
  <2>5. StartInv'
    BY <1>0, <2>1, <2>2, <2>3, <2>4 DEF ServersInv, StartInv, Mcp!turnVars
  <2>6. ServersType' /\ EndInv'
    BY <1>0, <2>1, <2>2 DEF ServersInv, ServersType, EndInv, Mcp!closeVars
  <2> QED
    BY <2>5, <2>6 DEF ServersInv
<1> QED
  BY <1>2, <1>3

(* A step that changes no slot and starts or ends no start: the count stays. *)
LEMMA QuietKeeps ==
    ASSUME ServersInv, UNCHANGED <<slot, count, close, tasks, left>>, ServersType',
           turn' # "idle" => turn # "idle" \/ Kept,
           trust' = trust \/ (trust \in Asking /\ trust' \in Asking),
           \A i \in Mcp!Slots : task'[i] = task[i] \/ (task[i] # "done" /\ task[i] \notin {"none", "aborted"}
                                                  /\ (task[i] \in Starting <=> task'[i] \in Starting)
                                                  /\ task'[i] # "aborted"),
           \A i \in Mcp!Slots : program'[i] = "runs" => task'[i] \in {"agrees", "waits"}
    PROVE  ServersInv'
<1>1. Mcp!Slots' = Mcp!Slots /\ Kept' = Kept /\ Awaited' = Awaited /\ Counted' = Counted
  BY DEF Mcp!Slots, Kept, Awaited, Counted, Mcp!InState
<1>2. StartInv'
  BY <1>1 DEF ServersInv, StartInv, Mcp!InState, Asking
<1>3. EndInv'
  BY <1>1 DEF ServersInv, EndInv, Asking
<1> QED
  BY <1>2, <1>3 DEF ServersInv

(* A step of a server that is no longer connecting: its start failed, or it agreed. *)
LEMMA StartEndsKeeps ==
    ASSUME ServersInv, NEW i \in Mcp!Slots, task[i] \in Starting, NEW next \in {"waits", "done"},
           task' = [task EXCEPT ![i] = next], count' = count - 1,
           UNCHANGED <<program, trust, tasks, Mcp!closeVars, Mcp!turnVars>>, ServersType', Mcp!Slots' = Mcp!Slots,
           program[i] = "runs" => next = "waits",
           slot'[i].state \in {"failed", "connected"}, \A k \in Mcp!Slots \ {i} : slot'[k] = slot[k]
    PROVE  ServersInv'
<1>1. Kept' = Kept /\ Awaited' = Awaited
  BY DEF Kept, Awaited, Mcp!closeVars
<1>2. \A k \in Mcp!Slots : task'[k] = IF k = i THEN next ELSE task[k]
  BY DEF ServersInv, ServersType
<1>3. Kept => Cardinality(Counted') = count - 1
  <2> SUFFICES ASSUME Kept PROVE Cardinality(Counted') = count - 1
    OBVIOUS
  <2>1. slot[i].state = "connecting"
    BY DEF ServersInv, StartInv
  <2>2. Counted' = Counted \ {i} /\ i \in Counted
    BY <2>1 DEF Counted, Mcp!InState
  <2>3. Counted \subseteq Mcp!Slots
    BY DEF Counted, Mcp!InState
  <2>4. IsFiniteSet(Counted)
    BY <2>3, FS_Subset DEF ServersInv, ServersType
  <2> QED
    BY <2>2, <2>4, FS_RemoveElement DEF ServersInv, StartInv
<1>4. StartInv'
  <2>1. Mcp!InState("untrusted")' \subseteq Mcp!InState("untrusted")
    BY DEF Mcp!InState
  <2> QED
    BY <1>1, <1>2, <1>3, <2>1 DEF ServersInv, StartInv, Starting, Mcp!turnVars
<1>5. EndInv'
  BY <1>1, <1>2 DEF ServersInv, EndInv, Starting, Mcp!closeVars
<1> QED
  BY <1>4, <1>5 DEF ServersInv

(* The close signals the first task of `rest`, and waits for no other one than those that did not end. *)
LEMMA ClosesKeeps ==
    ASSUME ServersInv, NEW rest \in SUBSET (Mcp!Slots \cup {Mcp!Trust}), NEW taken, Mcp!Closes(rest, taken),
           \A i \in Mcp!Slots : i \in rest \/ task[i] \in {"none", "done", "aborted"},
           Mcp!Trust \in rest \/ trust \in {"none", "done"},
           Mcp!Slots' = Mcp!Slots, turn' = "idle", tasks' \subseteq Mcp!Slots \cup {Mcp!Trust},
           slot' \in [Mcp!Slots -> [state : {"disabled", "failed", "connecting", "untrusted", "connected"},
                                    peer : BOOLEAN, stop : BOOLEAN]]
    PROVE  ServersInv'
<1>1. /\ left' = rest /\ close' \in {"closing", "closed"} /\ (close' = "closed" => rest = {})
      /\ \/ UNCHANGED <<task, program, link, trust>>
         \/ \E i \in rest : Mcp!Signal(i, taken)
  BY DEF Mcp!Closes
<1>2. ~Kept' /\ Awaited' = rest
  BY <1>1 DEF Kept, Awaited
<1>3. CASE UNCHANGED <<task, program, link, trust>>
  BY <1>1, <1>2, <1>3 DEF ServersInv, ServersType, StartInv, EndInv
<1>4. CASE \E i \in rest : Mcp!Signal(i, taken)
  <2>1. PICK i \in rest : Mcp!Signal(i, taken)
    BY <1>4
  <2>2. CASE i = Mcp!Trust
    <3>1. trust' = "done" /\ UNCHANGED <<task, program, link>>
      BY <2>1, <2>2 DEF Mcp!Signal
    <3> QED
      BY <1>1, <1>2, <3>1 DEF ServersInv, ServersType, StartInv, EndInv
  <2>3. CASE i # Mcp!Trust /\ i \in taken
    <3>1. /\ link' = [link EXCEPT ![i] = IF @ = "up" THEN "ending" ELSE @]
          /\ UNCHANGED <<task, program, trust>>
      BY <2>1, <2>3 DEF Mcp!Signal
    <3> QED
      BY <1>1, <1>2, <3>1 DEF ServersInv, ServersType, StartInv, EndInv
  <2>4. CASE i # Mcp!Trust /\ i \notin taken
    <3>1. /\ task' = [task EXCEPT ![i] = IF @ = "done" THEN @ ELSE "aborted"]
          /\ program' = [program EXCEPT ![i] = IF @ = "runs" THEN "dropped" ELSE @]
          /\ link' = [link EXCEPT ![i] = IF @ = "up" THEN "ending" ELSE @]
          /\ trust' = trust /\ i \in Mcp!Slots
      BY <2>1, <2>4 DEF Mcp!Signal
    <3>2. ServersType'
      BY <1>1, <3>1 DEF ServersInv, ServersType
    <3>3. /\ \A k \in Mcp!Slots : task'[k] = task[k] \/ task'[k] = "aborted"
          /\ \A k \in Mcp!Slots : program'[k] = "runs" => program[k] = "runs" /\ k # i
          /\ \A k \in Mcp!Slots \ {i} : task'[k] = task[k]
      BY <3>1 DEF ServersInv, ServersType
    <3>4. EndInv'
      BY <1>1, <1>2, <3>1, <3>3 DEF ServersInv, EndInv
    <3> QED
      BY <1>2, <3>2, <3>4 DEF ServersInv, StartInv
  <2> QED
    BY <2>1, <2>2, <2>3, <2>4
<1> QED
  BY <1>1, <1>3, <1>4

(* The steps of the close. *)
LEMMA CloseKeeps ==
    ASSUME ServersInv, Mcp!CloseStarts \/ Mcp!CloseGoesOn
    PROVE  ServersInv'
<1>1. CASE Mcp!CloseStarts
  <2>1. /\ close = "stopped" /\ turn = "idle" /\ turn' = "idle"
        /\ slot' = [i \in Mcp!Slots |-> [slot[i] EXCEPT !.stop = FALSE]]
        /\ Mcp!Closes(tasks, stops') /\ tasks' = {}
    BY <1>1 DEF Mcp!CloseStarts, Mcp!turnVars
  <2>2. Mcp!Slots' = Mcp!Slots
    BY <2>1 DEF Mcp!Slots
  <2>3. slot' \in [Mcp!Slots -> [state : {"disabled", "failed", "connecting", "untrusted", "connected"},
                                 peer : BOOLEAN, stop : BOOLEAN]]
    BY <2>1 DEF ServersInv, ServersType
  <2>4. Awaited = tasks /\ tasks \in SUBSET (Mcp!Slots \cup {Mcp!Trust})
    BY <2>1 DEF Awaited, Kept, ServersInv, ServersType
  <2> QED
    BY <2>1, <2>2, <2>3, <2>4, ClosesKeeps DEF ServersInv, EndInv
<1>2. CASE Mcp!CloseGoesOn
  <2>1. PICK i \in left : Mcp!Ended(i) /\ Mcp!Closes(left \ {i}, stops)
    BY <1>2 DEF Mcp!CloseGoesOn
  <2>2. close = "closing" /\ UNCHANGED <<slot, tasks, Mcp!turnVars>>
    BY <1>2 DEF Mcp!CloseGoesOn
  <2>3. Mcp!Slots' = Mcp!Slots /\ turn' = "idle"
    BY <2>2 DEF Mcp!Slots, Mcp!turnVars, ServersInv, StartInv, Kept
  <2>4. Awaited = left /\ left \ {i} \in SUBSET (Mcp!Slots \cup {Mcp!Trust}) /\ Mcp!Trust \notin Mcp!Slots
    BY <2>2 DEF Awaited, Kept, ServersInv, ServersType
  <2>5. /\ \A k \in Mcp!Slots : k \in left \ {i} \/ task[k] \in {"none", "done", "aborted"}
        /\ Mcp!Trust \in left \ {i} \/ trust \in {"none", "done"}
    BY <2>1, <2>4 DEF Mcp!Ended, ServersInv, EndInv
  <2> QED
    BY <2>1, <2>2, <2>3, <2>4, <2>5, ClosesKeeps DEF ServersInv, ServersType
<1> QED
  BY <1>1, <1>2

(* The steps of a server. *)
LEMMA ServerKeeps ==
    ASSUME ServersInv, NEW i \in Mcp!Slots,
           Mcp!Task(i) \/ Mcp!Agreed(i) \/ Mcp!AgreeFails(i) \/ Mcp!Exits(i) \/ Mcp!Call(i) \/ Mcp!CallAnswered(i)
    PROVE  ServersInv'
<1> USE DEF Mcp!closeVars, Mcp!turnVars
<1>1. CASE Mcp!Spawned(i)
  <2>1. CASE Mcp!Moves(i, "agrees") /\ program' = [program EXCEPT ![i] = "runs"] /\ UNCHANGED <<slot, count>>
    <3>1. ServersType'
      BY <1>1, <2>1 DEF Mcp!Spawned, Mcp!Moves, ServersInv, ServersType, Mcp!Slots, Starting
    <3>2. \A k \in Mcp!Slots : program'[k] = "runs" => task'[k] \in {"agrees", "waits"}
      BY <1>1, <2>1 DEF Mcp!Spawned, Mcp!Moves, ServersInv, ServersType, EndInv, Starting
    <3>3. \A k \in Mcp!Slots : task'[k] = IF k = i THEN "agrees" ELSE task[k]
      BY <2>1 DEF Mcp!Moves, ServersInv, ServersType
    <3> QED
      BY <1>1, <2>1, <3>1, <3>2, <3>3, QuietKeeps DEF Mcp!Spawned, Starting
  <2>2. CASE /\ Mcp!Moves(i, "done") /\ slot' = [slot EXCEPT ![i].state = "failed"]
             /\ count' = count - 1 /\ UNCHANGED program
    <3>1. ServersType' /\ Mcp!Slots' = Mcp!Slots
      BY <1>1, <2>2 DEF Mcp!Spawned, Mcp!Moves, ServersInv, ServersType, Mcp!Slots
    <3>2. slot'[i].state = "failed" /\ \A k \in Mcp!Slots \ {i} : slot'[k] = slot[k]
      BY <2>2 DEF ServersInv, ServersType
    <3>3. task[i] \in Starting /\ program[i] # "runs"
      BY <1>1 DEF Mcp!Spawned, Starting, ServersInv, EndInv
    <3> QED
      BY <1>1, <2>2, <3>1, <3>2, <3>3, StartEndsKeeps DEF Mcp!Spawned, Mcp!Moves
  <2> QED
    BY <1>1, <2>1, <2>2 DEF Mcp!Spawned
<1>2. CASE Mcp!StartFailed(i)
  <2>1. ServersType' /\ Mcp!Slots' = Mcp!Slots
    BY <1>2 DEF Mcp!StartFailed, Mcp!Moves, ServersInv, ServersType, Mcp!Slots
  <2>2. slot'[i].state = "failed" /\ \A k \in Mcp!Slots \ {i} : slot'[k] = slot[k]
    BY <1>2 DEF Mcp!StartFailed, ServersInv, ServersType
  <2>3. task[i] \in Starting /\ program[i] # "runs"
    BY <1>2 DEF Mcp!StartFailed, Starting, ServersInv, EndInv
  <2> QED
    BY <1>2, <2>1, <2>2, <2>3, StartEndsKeeps DEF Mcp!StartFailed, Mcp!Moves
<1>3. CASE Mcp!Agreed(i)
  <2>1. ServersType' /\ Mcp!Slots' = Mcp!Slots
    BY <1>3 DEF Mcp!Agreed, Mcp!Moves, ServersInv, ServersType, Mcp!Slots
  <2>2. slot'[i].state = "connected" /\ \A k \in Mcp!Slots \ {i} : slot'[k] = slot[k]
    BY <1>3 DEF Mcp!Agreed, ServersInv, ServersType
  <2>3. task[i] \in Starting
    BY <1>3 DEF Mcp!Agreed, Starting
  <2> QED
    BY <1>3, <2>1, <2>2, <2>3, StartEndsKeeps DEF Mcp!Agreed, Mcp!Moves
<1>4. CASE Mcp!AgreeFails(i)
  <2>1. ServersType'
    BY <1>4 DEF Mcp!AgreeFails, Mcp!Moves, ServersInv, ServersType, Mcp!Slots, Starting
  <2>2. \A k \in Mcp!Slots : /\ task'[k] = IF k = i THEN "logs" ELSE task[k]
                         /\ program'[k] = IF k = i THEN "exited" ELSE program[k]
    BY <1>4 DEF Mcp!AgreeFails, Mcp!Moves, ServersInv, ServersType
  <2>3. \A k \in Mcp!Slots : program'[k] = "runs" => task'[k] \in {"agrees", "waits"}
    BY <2>2 DEF ServersInv, EndInv
  <2> QED
    BY <1>4, <2>1, <2>2, <2>3, QuietKeeps DEF Mcp!AgreeFails, Starting
<1>5. CASE Mcp!WaitEnds(i)
  <2>1. ServersType'
    BY <1>5 DEF Mcp!WaitEnds, Mcp!Moves, ServersInv, ServersType, Mcp!Slots, Starting
  <2>2. \A k \in Mcp!Slots : /\ task'[k] = IF k = i THEN "ends" ELSE task[k]
                         /\ program'[k] = IF k = i THEN "exited" ELSE program[k]
    BY <1>5 DEF Mcp!WaitEnds, Mcp!Moves, ServersInv, ServersType
  <2>3. \A k \in Mcp!Slots : program'[k] = "runs" => task'[k] \in {"agrees", "waits"}
    BY <2>2 DEF ServersInv, EndInv
  <2> QED
    BY <1>5, <2>1, <2>2, <2>3, QuietKeeps DEF Mcp!WaitEnds, Starting
<1>6. CASE Mcp!Stopped(i)
  <2>1. ServersType' /\ Mcp!Slots' = Mcp!Slots /\ Kept' = Kept /\ Awaited' = Awaited
    BY <1>6 DEF Mcp!Stopped, Mcp!Moves, ServersInv, ServersType, Mcp!Slots, Kept, Awaited
  <2>2. /\ \A k \in Mcp!Slots : task'[k] = IF k = i THEN "done" ELSE task[k]
        /\ slot'[i].state = "failed" /\ \A k \in Mcp!Slots \ {i} : slot'[k] = slot[k]
    BY <1>6 DEF Mcp!Stopped, Mcp!Moves, ServersInv, ServersType
  <2>3. Kept => slot[i].state \notin {"connecting", "untrusted"}
    BY <1>6 DEF Mcp!Stopped, ServersInv, StartInv, Starting
  <2>4. Kept => /\ Mcp!InState("connecting")' = Mcp!InState("connecting")
                /\ Mcp!InState("untrusted")' = Mcp!InState("untrusted")
                /\ Counted' = Counted
    BY <1>6, <2>1, <2>2, <2>3 DEF Mcp!Stopped, Mcp!InState, Counted
  <2>5. StartInv'
    BY <1>6, <2>1, <2>2, <2>3, <2>4 DEF Mcp!Stopped, ServersInv, StartInv, Starting
  <2>6. EndInv'
    BY <1>6, <2>1, <2>2 DEF Mcp!Stopped, ServersInv, EndInv
  <2> QED
    BY <2>1, <2>5, <2>6 DEF ServersInv
<1>7. CASE Mcp!Exits(i)
  <2>1. ServersType'
    BY <1>7 DEF Mcp!Exits, ServersInv, ServersType, Mcp!Slots
  <2>2. \A k \in Mcp!Slots : program'[k] = "runs" => task'[k] \in {"agrees", "waits"}
    BY <1>7 DEF Mcp!Exits, ServersInv, ServersType, EndInv
  <2> QED
    BY <1>7, <2>1, <2>2, QuietKeeps DEF Mcp!Exits
<1>8. CASE Mcp!LinkEnds(i)
  <2>1. ServersType'
    BY <1>8 DEF Mcp!LinkEnds, ServersInv, ServersType, Mcp!Slots
  <2> QED
    BY <1>8, <2>1, QuietKeeps DEF Mcp!LinkEnds, ServersInv, EndInv
<1>9. CASE Mcp!Call(i) \/ Mcp!CallAnswered(i) \/ Mcp!CallFails(i) \/ Mcp!CallCancelled(i)
  <2>1. UNCHANGED <<Mcp!servers, Mcp!closeVars, turn>>
    BY <1>9 DEF Mcp!Call, Mcp!CallAnswered, Mcp!CallFails, Mcp!CallCancelled
  <2>2. ServersType'
    BY <2>1 DEF Mcp!servers, ServersInv, ServersType, Mcp!Slots
  <2> QED
    BY <2>1, <2>2, QuietKeeps DEF Mcp!servers, ServersInv, EndInv
<1> QED
  BY <1>1, <1>2, <1>3, <1>4, <1>5, <1>6, <1>7, <1>8, <1>9 DEF Mcp!Task

(* The steps of the turn, the answer of the user, and the stop of the session. *)
LEMMA TurnKeeps ==
    ASSUME ServersInv,
           \/ \E answer \in {"yes", "no"} : Mcp!Answered(answer)
           \/ Mcp!QuestionEnds \/ Mcp!TurnSteps \/ Mcp!TurnStarts \/ Mcp!CancelTurn \/ Mcp!TurnEnds \/ Mcp!Stop
    PROVE  ServersInv'
<1> USE DEF Mcp!closeVars, Mcp!turnVars
<1>1. CASE Mcp!QuestionEnds \/ \E answer \in {"yes", "no"} : Mcp!Answered(answer)
  <2>1. /\ trust = "asks" /\ trust' \in {"yes", "no"}
        /\ UNCHANGED <<slot, task, program, link, count, tasks, Mcp!closeVars, Mcp!turnVars>>
    BY <1>1 DEF Mcp!QuestionEnds, Mcp!Answered
  <2>2. ServersType'
    BY <2>1 DEF ServersInv, ServersType, Mcp!Slots, Asking
  <2> QED
    BY <2>1, <2>2, QuietKeeps DEF ServersInv, EndInv, Asking
<1>2. CASE Mcp!TurnSteps \/ Mcp!TurnStarts \/ Mcp!CancelTurn \/ Mcp!TurnEnds
  <2>1. UNCHANGED <<Mcp!servers, Mcp!closeVars>> /\ (turn' # "idle" => turn # "idle" \/ Kept)
    BY <1>2 DEF Mcp!TurnSteps, Mcp!Ready, Mcp!ToolsCancelled, Mcp!TurnStarts, Mcp!CancelTurn, Mcp!TurnEnds, Kept
  <2>2. ServersType'
    BY <2>1 DEF Mcp!servers, ServersInv, ServersType, Mcp!Slots
  <2> QED
    BY <2>1, <2>2, QuietKeeps DEF Mcp!servers, ServersInv, EndInv
<1>3. CASE Mcp!Stop
  <2>1. close = "open" /\ close' = "stopped" /\ UNCHANGED <<Mcp!servers, left, stops, turn, tools, call>>
    BY <1>3 DEF Mcp!Stop
  <2>2. Kept /\ Kept' /\ Awaited' = Awaited /\ Counted' = Counted /\ Mcp!Slots' = Mcp!Slots
    BY <2>1 DEF Kept, Awaited, Counted, Mcp!InState, Mcp!Slots, Mcp!servers
  <2> QED
    BY <2>1, <2>2 DEF Mcp!servers, ServersInv, ServersType, StartInv, EndInv, Mcp!InState
<1> QED
  BY <1>1, <1>2, <1>3
-----------------------------------------------------------------------------
(* The count is that of the servers that start until the close, and each task and program is one   *)
(* that the close waits for (servers.rs:172, 245).                                                 *)
THEOREM ServersInvariant ==
    ASSUME FiniteConfigs
    PROVE  Mcp!Spec => []ServersInv
<1>1. Mcp!Init => ServersInv
  BY ServersInit
<1>2. ServersInv /\ [Mcp!Next]_(Mcp!vars) => ServersInv'
  <2>1. CASE UNCHANGED Mcp!vars
    BY <2>1 DEF Mcp!vars, Mcp!servers, Mcp!closeVars, Mcp!turnVars, ServersInv, ServersType, StartInv, EndInv,
                Kept, Awaited, Counted,
                Mcp!InState, Mcp!Slots
  <2> QED
    BY <2>1, StartTrustedKeeps, CloseKeeps, ServerKeeps, TurnKeeps DEF Mcp!Next, Mcp!CloseSteps
<1> QED
  BY <1>1, <1>2, PTL DEF Mcp!Spec

(* A close leaves no task of a server, and no program but those that the abort of a task dropped  *)
(* (servers.rs:245).                                                                              *)
THEOREM ServersLeaveNone ==
    ASSUME FiniteConfigs
    PROVE  Mcp!Spec => []Mcp!CloseLeavesNoServer
<1>1. ServersInv => Mcp!CloseLeavesNoServer
  BY DEF ServersInv, EndInv, Mcp!CloseLeavesNoServer, Awaited, Kept, Mcp!Ended
<1> QED
  BY <1>1, ServersInvariant, PTL

(* A turn takes the tools when no server starts any more and the trust is known (servers.rs:189). *)
THEOREM TurnsTakeAll ==
    ASSUME FiniteConfigs
    PROVE  Mcp!Spec => Mcp!TakesAll
<1> DEFINE All == Mcp!InState("connecting") = {} /\ (Mcp!InState("untrusted") # {} => trust = "done")
<1>1. ServersInv /\ [Mcp!Next]_(Mcp!vars) => (turn = "waits" /\ turn' = "taken" => All)
  <2> SUFFICES ASSUME ServersInv, [Mcp!Next]_(Mcp!vars), turn = "waits", turn' = "taken" PROVE All
    OBVIOUS
  <2>1. count = 0 \/ Mcp!NoSender
    BY DEF Mcp!vars, Mcp!Next, Mcp!Task, Mcp!TurnSteps, Mcp!CloseSteps, Mcp!Answered, Mcp!StartTrusted,
           Mcp!Spawned, Mcp!StartFailed, Mcp!WaitEnds, Mcp!Stopped,
           Mcp!LinkEnds, Mcp!CallFails, Mcp!CallCancelled, Mcp!Agreed, Mcp!AgreeFails, Mcp!Exits, Mcp!Call,
           Mcp!CallAnswered, Mcp!Ready, Mcp!ToolsCancelled,
           Mcp!TurnStarts, Mcp!CancelTurn, Mcp!TurnEnds, Mcp!Stop, Mcp!QuestionEnds, Mcp!CloseStarts,
           Mcp!CloseGoesOn, Mcp!turnVars
  <2>2. Kept /\ Counted \subseteq Mcp!Slots
    BY DEF ServersInv, StartInv, Counted, Mcp!InState
  <2>3. CASE count = 0
    <3>1. IsFiniteSet(Counted) /\ Cardinality(Counted) = 0
      BY <2>2, <2>3, FS_Subset DEF ServersInv, StartInv, ServersType
    <3>2. Counted = {}
      BY <3>1, FS_EmptySet
    <3> QED
      BY <2>2, <3>2 DEF Counted, ServersInv, ServersType, StartInv
  <2>4. CASE Mcp!NoSender
    <3>1. \A i \in Mcp!Slots : slot[i].state # "connecting"
      BY <2>2, <2>4 DEF Mcp!NoSender, Mcp!Ended, ServersInv, ServersType, StartInv, Starting
    <3> QED
      BY <2>2, <2>4, <3>1 DEF Mcp!NoSender, Mcp!InState, ServersInv, StartInv
  <2> QED
    BY <2>1, <2>3, <2>4
<1> QED
  BY <1>1, ServersInvariant, PTL DEF Mcp!Spec, Mcp!TakesAll
==============================================================================
