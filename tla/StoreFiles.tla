----------------------------- MODULE StoreFiles -----------------------------
(***************************************************************************)
(* The rows and the folders of the sessions, shared by the processes that  *)
(* open one store (store/src/store.rs and store/src/files.rs).             *)
(*                                                                         *)
(* A call of the store runs on the one connection thread of its process,   *)
(* step by step: each SQL transaction and each file operation is atomic,   *)
(* and the calls of other processes run between the steps.  The database   *)
(* and the folders change apart.  A lock belongs to the lock file: when a  *)
(* removal unlinks that file, a holder keeps a lock that guards nothing.   *)
(***************************************************************************)
EXTENDS Naturals, FiniteSets

CONSTANTS
    Procs,      \* the processes
    Sessions,   \* the session ids; each is generated at most once
    Blobs,      \* the contents that a client can put
    Existing,   \* the sessions that earlier runs saved
    Workloads   \* bound: the calls that are made, the processes that make them, and the number
                \* of crashes and failed file operations

VARIABLES
    rows,     \* the sessions with a row
    named,    \* the blobs that the saved events and inputs of a session name
    ready,    \* the blobs that a put returned to a client
    used,     \* the ids that a call generated
    folders,  \* the session folders
    files,    \* their files: the lock file and the blobs
    locked,   \* <<process, session>>: the process holds the lock of the linked lock file
    lease,    \* <<process, session>>: the process has the lease of the session
    call,     \* the call of each process: operation, step, session, source, and the cut of a fork
    listed,   \* the folders of a sweep that are still to check
    faults,   \* the number of faults so far
    workload  \* the workload of this behaviour

saved == <<rows, named, ready, used>>
disk == <<folders, files>>
vars == <<rows, named, ready, used, folders, files, locked, lease, call, listed, faults, workload>>

NoCall == [op |-> "none", step |-> "none", id |-> "none", source |-> "none", cut |-> {}]
New(op, step, id) == [op |-> op, step |-> step, id |-> id, source |-> "none", cut |-> {}]

Idle(p) == call[p] = NoCall
At(p, step) == call[p].step = step
Id(p) == call[p].id
Go(p, step) == call' = [call EXCEPT ![p].step = step]
Return(p) == call' = [call EXCEPT ![p] = NoCall]

\* Mutant: the lock of another process does not count.
Locked_Never(s) == FALSE
Locked(s) == \E q \in Procs : <<q, s>> \in locked

-----------------------------------------------------------------------------
Init ==
    /\ rows = Existing
    /\ \E blobs \in SUBSET Blobs :
         /\ named = [s \in Sessions |-> IF s \in Existing THEN blobs ELSE {}]
         /\ files = [s \in Sessions |-> IF s \in Existing THEN blobs \cup {"lock"} ELSE {}]
    /\ ready = {}
    /\ used = Existing
    /\ folders = Existing
    /\ locked = {}
    /\ lease = {}
    /\ call = [p \in Procs |-> NoCall]
    /\ listed = [p \in Procs |-> {}]
    /\ faults = 0
    /\ workload \in Workloads

-----------------------------------------------------------------------------
(* The first step of each call *)

\* A list gives the id of each row, so a client can name every session with a row.
Begin(p) ==
    /\ Idle(p)
    /\ \/ /\ "create" \in workload.calls
          /\ \E s \in Sessions \ used :
               used' = used \cup {s} /\ call' = [call EXCEPT ![p] = New("create", "insert", s)]
       \/ /\ "fork" \in workload.calls
          /\ \E s \in Sessions \ used, source \in rows :
               /\ used' = used \cup {s}
               /\ call' = [call EXCEPT ![p] = [New("fork", "point", s) EXCEPT !.source = source]]
       \/ /\ \E op \in workload.calls \cap {"open", "delete", "put"}, s \in rows :
               call' = [call EXCEPT ![p] = New(op, "ensure", s)]
          /\ UNCHANGED used
    /\ UNCHANGED <<rows, named, ready, disk, locked, lease, listed, faults, workload>>

\* SqliteStore::open of a new process: the sweep reads the names of the folders.
BeginSweep(p) ==
    /\ Idle(p)
    /\ "sweep" \in workload.calls
    /\ \A s \in Sessions : <<p, s>> \notin lease
    /\ folders # {}
    /\ listed' = [listed EXCEPT ![p] = folders]
    /\ call' = [call EXCEPT ![p] = New("sweep", "next", "none")]
    /\ UNCHANGED <<saved, disk, locked, lease, faults, workload>>

\* create_session: the rows come first.
InsertRows(p) ==
    /\ At(p, "insert")
    /\ rows' = rows \cup {Id(p)}
    /\ Go(p, "mkdir")
    /\ UNCHANGED <<named, ready, used, disk, locked, lease, listed, faults, workload>>

\* fork_point: the cut of the source, or NotFound
ForkPoint(p) ==
    /\ At(p, "point")
    /\ IF call[p].source \in rows
       THEN call' = [call EXCEPT ![p].step = "mkdir", ![p].cut = named[call[p].source]]
       ELSE Return(p)
    /\ UNCHANGED <<saved, disk, locked, lease, listed, faults, workload>>

\* ensure_session
Ensure(p) ==
    /\ At(p, "ensure")
    /\ IF Id(p) \in rows
       THEN Go(p, IF call[p].op = "put" THEN "write" ELSE "mkdir")
       ELSE Return(p)
    /\ UNCHANGED <<saved, disk, locked, lease, listed, faults, workload>>

\* Mutant: the sweep relies on the lock alone.
SweepNext_LockOnly(p) ==
    /\ At(p, "next")
    /\ \E s \in listed[p] :
         /\ listed' = [listed EXCEPT ![p] = @ \ {s}]
         /\ call' = [call EXCEPT ![p] = New("sweep", "mkdir", s)]
    /\ UNCHANGED <<saved, disk, locked, lease, faults, workload>>

\* The sweep passes over each session that has a row.
SweepNext(p) ==
    /\ At(p, "next")
    /\ \E s \in listed[p] :
         /\ listed' = [listed EXCEPT ![p] = @ \ {s}]
         /\ call' = [call EXCEPT ![p] =
                IF s \in rows THEN New("sweep", "next", "none") ELSE New("sweep", "mkdir", s)]
    /\ UNCHANGED <<saved, disk, locked, lease, faults, workload>>

SweepEnds(p) ==
    /\ At(p, "next")
    /\ listed[p] = {}
    /\ Return(p)
    /\ UNCHANGED <<saved, disk, locked, lease, listed, faults, workload>>

-----------------------------------------------------------------------------
(* take_lock: the folder, then the lock file in it *)

MakeFolder(p) ==
    /\ At(p, "mkdir")
    /\ folders' = folders \cup {Id(p)}
    /\ Go(p, "lock")
    /\ UNCHANGED <<saved, files, locked, lease, listed, faults, workload>>

AfterLock == [create |-> "own", fork |-> "copy", open |-> "load", delete |-> "delete_rows",
              sweep |-> "unlock"]

\* A failed creation or fork undoes its rows and its folder; another call only returns its error,
\* and a sweep goes on when the lock is held.
AfterError(p, owned) ==
    CASE call[p].op \in {"create", "fork"} -> Go(p, "undo_rows")
      [] call[p].op = "sweep" /\ owned ->
           call' = [call EXCEPT ![p] = New("sweep", "next", "none")]
      [] OTHER -> Return(p)

TakeLock(p) ==
    /\ At(p, "lock")
    /\ Id(p) \in folders
    /\ files' = [files EXCEPT ![Id(p)] = @ \cup {"lock"}]
    /\ IF Locked(Id(p))
       THEN AfterError(p, TRUE) /\ UNCHANGED locked
       ELSE Go(p, AfterLock[call[p].op]) /\ locked' = locked \cup {<<p, Id(p)>>}
    /\ UNCHANGED <<saved, folders, lease, listed, faults, workload>>

\* The folder went after its creation, so the lock file does not open.
NoFolder(p) ==
    /\ At(p, "lock")
    /\ Id(p) \notin folders
    /\ AfterError(p, FALSE)
    /\ UNCHANGED <<saved, disk, locked, lease, listed, faults, workload>>

Unlock(p) == locked' = locked \ {<<p, Id(p)>>}

-----------------------------------------------------------------------------
(* The work under the lock *)

\* The call returns the session with its lease.
Own(p) ==
    /\ At(p, "own")
    /\ lease' = lease \cup {<<p, Id(p)>>}
    /\ Return(p)
    /\ UNCHANGED <<saved, disk, locked, listed, faults, workload>>

\* copy_blobs: each blob that the source folder has now
CopyBlobs(p) ==
    /\ At(p, "copy")
    /\ IF call[p].source \in folders /\ Id(p) \in folders
       THEN /\ files' = [files EXCEPT ![Id(p)] = @ \cup (files[call[p].source] \cap Blobs)]
            /\ Go(p, "copy_rows")
            /\ UNCHANGED locked
       ELSE Go(p, "undo_rows") /\ Unlock(p) /\ UNCHANGED files
    /\ UNCHANGED <<saved, folders, lease, listed, faults, workload>>

\* Mutant: the rows are copied up to the newest event, not up to the cut.
CopyRows_Newest(p) ==
    /\ At(p, "copy_rows")
    /\ IF call[p].source \in rows
       THEN /\ rows' = rows \cup {Id(p)}
            /\ named' = [named EXCEPT ![Id(p)] = named[call[p].source]]
            /\ Go(p, "load")
            /\ UNCHANGED locked
       ELSE Go(p, "undo_rows") /\ Unlock(p) /\ UNCHANGED <<rows, named>>
    /\ UNCHANGED <<ready, used, disk, lease, listed, faults, workload>>

\* copy_rows: one transaction, NotFound when the source is gone
CopyRows(p) ==
    /\ At(p, "copy_rows")
    /\ IF call[p].source \in rows
       THEN /\ rows' = rows \cup {Id(p)}
            /\ named' = [named EXCEPT ![Id(p)] = call[p].cut]
            /\ Go(p, "load")
            /\ UNCHANGED locked
       ELSE Go(p, "undo_rows") /\ Unlock(p) /\ UNCHANGED <<rows, named>>
    /\ UNCHANGED <<ready, used, disk, lease, listed, faults, workload>>

\* The load of an open or of a fork: another process can have deleted the rows.
Load(p) ==
    /\ At(p, "load")
    /\ IF Id(p) \in rows
       THEN Go(p, "own") /\ UNCHANGED locked
       ELSE AfterError(p, FALSE) /\ Unlock(p)
    /\ UNCHANGED <<saved, disk, lease, listed, faults, workload>>

DeleteRows(p) ==
    /\ At(p, "delete_rows")
    /\ rows' = rows \ {Id(p)}
    /\ Go(p, "unlock")
    /\ UNCHANGED <<named, ready, used, disk, locked, lease, listed, faults, workload>>

\* The lock closes before the folder goes.
DropLock(p) ==
    /\ At(p, "unlock")
    /\ Unlock(p)
    /\ Go(p, "remove")
    /\ UNCHANGED <<saved, disk, lease, listed, faults, workload>>

\* delete_new_session
UndoRows(p) ==
    /\ At(p, "undo_rows")
    /\ rows' = rows \ {Id(p)}
    /\ Go(p, "remove")
    /\ UNCHANGED <<named, ready, used, disk, locked, lease, listed, faults, workload>>

AfterRemove(p) ==
    IF call[p].op = "sweep" THEN call' = [call EXCEPT ![p] = New("sweep", "next", "none")]
    ELSE Return(p)

\* remove_session_folder: file after file in any order, then the folder.  The lock file takes the
\* lock of its holder with it.
RemoveFile(p) ==
    /\ At(p, "remove")
    /\ \E f \in files[Id(p)] :
         /\ files' = [files EXCEPT ![Id(p)] = @ \ {f}]
         /\ locked' = IF f = "lock" THEN {l \in locked : l[2] # Id(p)} ELSE locked
    /\ UNCHANGED <<saved, folders, lease, call, listed, faults, workload>>

RemoveFolder(p) ==
    /\ At(p, "remove")
    /\ files[Id(p)] = {}
    /\ folders' = folders \ {Id(p)}
    /\ AfterRemove(p)
    /\ UNCHANGED <<saved, files, locked, lease, listed, faults, workload>>

-----------------------------------------------------------------------------
(* Blobs, the end of a lease, faults *)

\* write_blob makes a missing folder, and the file is durable before the return.
WriteBlob(p) ==
    /\ At(p, "write")
    /\ folders' = folders \cup {Id(p)}
    /\ \E b \in Blobs :
         /\ files' = [files EXCEPT ![Id(p)] = @ \cup {b}]
         /\ ready' = ready \cup {<<Id(p), b>>}
    /\ Return(p)
    /\ UNCHANGED <<rows, named, used, locked, lease, listed, faults, workload>>

\* A client sends an input with the blob; the store saves it while the session has its row.
NameBlob ==
    /\ \E r \in ready :
         /\ r[1] \in rows
         /\ named' = [named EXCEPT ![r[1]] = @ \cup {r[2]}]
         /\ ready' = ready \ {r}
    /\ UNCHANGED <<rows, used, disk, locked, lease, call, listed, faults, workload>>

Close(p) ==
    /\ Idle(p)
    /\ \E s \in Sessions :
         /\ <<p, s>> \in lease
         /\ lease' = lease \ {<<p, s>>}
         /\ locked' = locked \ {<<p, s>>}
    /\ UNCHANGED <<saved, disk, call, listed, faults, workload>>

Fault == faults < workload.faults /\ faults' = faults + 1 /\ UNCHANGED workload

\* A file operation or a query of the call fails.
CallFails(p) ==
    /\ call[p].step \in {"mkdir", "lock", "copy", "copy_rows", "load", "undo_rows", "remove"}
    /\ Fault
    /\ IF call[p].step \in {"undo_rows", "remove"} THEN Return(p) ELSE AfterError(p, FALSE)
    /\ IF call[p].step \in {"copy", "copy_rows", "load"} THEN Unlock(p) ELSE UNCHANGED locked
    /\ listed' = [listed EXCEPT ![p] = {}]
    /\ UNCHANGED <<saved, disk, lease>>

Crash(p) ==
    /\ ~Idle(p) \/ \E s \in Sessions : <<p, s>> \in lease
    /\ Fault
    /\ Return(p)
    /\ locked' = {l \in locked : l[1] # p}
    /\ lease' = {l \in lease : l[1] # p}
    /\ listed' = [listed EXCEPT ![p] = {}]
    /\ UNCHANGED <<saved, disk>>

Done == (\A p \in Procs : Idle(p)) /\ UNCHANGED vars

Step(p) ==
    \/ Begin(p) \/ BeginSweep(p) \/ InsertRows(p) \/ ForkPoint(p) \/ Ensure(p)
    \/ SweepNext(p) \/ SweepEnds(p)
    \/ MakeFolder(p) \/ TakeLock(p) \/ NoFolder(p)
    \/ Own(p) \/ CopyBlobs(p) \/ CopyRows(p) \/ Load(p) \/ DeleteRows(p) \/ DropLock(p)
    \/ UndoRows(p) \/ RemoveFile(p) \/ RemoveFolder(p)
    \/ WriteBlob(p) \/ Close(p) \/ CallFails(p) \/ Crash(p)

Next == NameBlob \/ Done \/ \E p \in Procs : p \in workload.procs /\ Step(p)

Spec == Init /\ [][Next]_vars

-----------------------------------------------------------------------------
(* Properties *)

\* One writer owns a session: no second process has its lease, and the owner holds the lock of the
\* file that the next open tries.
OneOwner ==
    \A l \in lease : l[2] \in rows => l \in locked /\ \A m \in lease : m[2] = l[2] => m = l

\* A saved event never names a blob that the folder of its session lacks.
BlobsKept == \A s \in rows : named[s] \subseteq files[s]

\* No removal of a folder takes a file of a session that has its row: "a session folder lives as
\* long as its session" (read_blob).
FolderLives == \A s \in Sessions : s \in rows /\ s \in rows' => files[s] \subseteq files'[s]
LiveFoldersKept == [][FolderLives]_vars

\* No call deletes the rows of a session that a process owns.
DeletesOnlyFree == \A s \in rows \ rows' : \A q \in Procs : <<q, s>> \notin lease
OwnedRowsKept == [][DeletesOnlyFree]_vars

\* Both, for the calls that the disagreements do not concern.
LiveSessionsKept == [][FolderLives /\ DeletesOnlyFree]_vars
=============================================================================
