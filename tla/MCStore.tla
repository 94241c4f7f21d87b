------------------------------ MODULE MCStore -------------------------------
(* What the store keeps: the session of two processes, the rows and folders of sessions, and the *)
(* load of a context.  A behaviour runs one of the three; the others stay where they are.        *)
EXTENDS Session, TLC

CONSTANTS p1, p2, q1, q2, q3, s1, s2, b1

VARIABLES
    part,
    rows, named, ready, used, folders, files, locked, fileLease, call, listed, fileFaults, workload,
    events, row, running, history

fileVars == <<rows, named, ready, used, folders, files, locked, fileLease, call, listed, fileFaults,
              workload>>
contextVars == <<events, row, running, history>>
allVars == <<part, vars, fileVars, contextVars>>

FileProcs == {q1, q2, q3}
Symmetry == Permutations(FileProcs)

Workload(c, ps, n) == [calls |-> c, procs |-> ps, faults |-> n]

\* Owners, deleters and starting processes of one session; creations beside the sweep; forks beside
\* the delete of their source.
MCWorkloads ==
    {Workload({"open", "delete", "put", "sweep"}, {q1, q2, q3}, 1),
     Workload({"create", "delete", "put", "sweep"}, {q1, q2}, 1),
     Workload({"fork", "delete", "put"}, {q1, q2}, 1),
     Workload({"fork", "open", "delete", "put"}, {q1, q2}, 0)}

Files == INSTANCE StoreFiles WITH
    Procs <- FileProcs, Sessions <- {s1, s2}, Blobs <- {b1}, Existing <- {s1},
    Workloads <- MCWorkloads, lease <- fileLease, faults <- fileFaults

\* Replacements of replacements; and turns, settings and tokens beside one replacement
MCHistories ==
    {[events |-> 7, blocks |-> {2}, heads |-> {0, 2}, tokens |-> {}, ends |-> {},
      settings |-> FALSE, forks |-> FALSE],
     [events |-> 6, blocks |-> {1}, heads |-> {1}, tokens |-> {"none", "some"},
      ends |-> {"completed", "cancelled"}, settings |-> TRUE, forks |-> TRUE]}

Context == INSTANCE ContextLoad WITH Histories <- MCHistories

NoFiles ==
    /\ rows = {} /\ named = [s \in {s1, s2} |-> {}] /\ ready = {} /\ used = {}
    /\ folders = {} /\ files = [s \in {s1, s2} |-> {}] /\ locked = {} /\ fileLease = {}
    /\ call = [p \in FileProcs |-> Files!NoCall] /\ listed = [p \in FileProcs |-> {}]
    /\ fileFaults = 0 /\ workload = Workload({}, {}, 0)
NoContext ==
    /\ history = "none" /\ row = "none" /\ events = <<>> /\ running = [Context!Fresh EXCEPT !.settings = "none"]

StoreInit ==
    \/ part = "session" /\ Init /\ NoFiles /\ NoContext
    \/ part = "files" /\ Files!Init /\ Init /\ NoContext
    \/ part = "context" /\ Context!Init /\ Init /\ NoFiles
StoreNext ==
    /\ \/ part = "session" /\ Next /\ UNCHANGED <<fileVars, contextVars>>
       \/ part = "files" /\ Files!Next /\ UNCHANGED <<vars, contextVars>>
       \/ part = "context" /\ Context!Next /\ UNCHANGED <<vars, fileVars>>
    /\ UNCHANGED part
StoreSpec == StoreInit /\ [][StoreNext]_allVars

OneOwner == Files!OneOwner
BlobsKept == Files!BlobsKept
LiveSessionsKept == Files!LiveSessionsKept
LoadIsReplay == Context!LoadIsReplay
ForksAtEnd == Context!ForksAtEnd
=============================================================================
