---------------------------- MODULE PluginProofs ----------------------------
(***************************************************************************)
(* Theorems about what a plugin leaves: its installs (PluginFiles), its    *)
(* scopes and runs in the sessions (Scopes), and what its listeners hear   *)
(* of the sessions (Facts), for every instance of the constants and every  *)
(* workload.                                                               *)
(*                                                                         *)
(* The lock of the plugin manager makes a call alone (Alone): the lock     *)
(* file and the installs are at its write what they were at its start,     *)
(* only config.json can have other hand edits.  So the invariant says what *)
(* the one call at work knows at each of its steps (CallOK), and that a    *)
(* stop after any step leaves FilesInv.                                    *)
(*                                                                         *)
(* The parts of Scopes and of Facts have a heading of their own.           *)
(***************************************************************************)
EXTENDS PluginFiles, Sequences, SequenceTheorems, FiniteSetTheorems, TLAPS

LockType == UNION {[set -> Commits] : set \in SUBSET Sources}
FilesType ==
    /\ config \subseteq Sources /\ gone \subseteq Sources
    /\ lock \in LockType
    /\ remote \in [Sources -> Commits]
    /\ installed \in [Sources \X Commits -> {"none", "whole"}]
    /\ staging \in [Sources \X Commits -> {"none", "part", "whole"}]
    /\ changes \subseteq Sources \X Commits
    /\ workload.calls \subseteq Kinds

\* Resolve and install of the plugin that the call names.
Busy == {"install", "export", "rename"}
Loops == Syncs \cup Checks
CallType ==
    [kind : Kinds, source : Sources, new : Commits, commits : LockType, config : SUBSET Sources, lock : LockType,
     todo : SUBSET Sources, pc : {"resolve", "config", "lock"} \cup Busy]

FilesInv ==
    /\ \A i \in Sources \X Commits : installed[i] = "whole" => i[2] \notin workload.bad
    /\ \A s \in DOMAIN lock : <<s, lock[s]>> \in brought \/ Whole(s, lock[s])
    /\ \A s \in Sources, c \in Commits : <<s, c>> \in changes => Whole(s, c)
    /\ DOMAIN lock \subseteq config \cup gone

\* What the call read at its start is so at each of its steps.
ReadOK(c) ==
    /\ c.config \subseteq config \cup gone
    /\ c.lock = lock \/ (c.config = {} /\ DOMAIN c.lock = {})
    /\ c.kind = "sync_locked" => DOMAIN c.lock = c.config
    /\ c.pc = "rename" => staging[Folder(c)] = "whole"
    /\ c.kind \in Loops => \A s \in DOMAIN c.commits : Whole(s, c.commits[s])
AddOK(c) ==
    /\ c.source \notin c.config
    /\ c.pc = "resolve" => c.todo = {c.source}
    /\ c.pc \in {"config", "lock"} => Whole(c.source, c.new)
    /\ c.pc = "lock" =>
         /\ DOMAIN c.commits = (DOMAIN lock \cap c.config) \cup {c.source}
         /\ c.source \in config \cup gone
         /\ \A s \in DOMAIN c.commits : c.commits[s] = IF s = c.source THEN c.new ELSE lock[s]
RemoveOK(c) ==
    /\ c.pc \in {"config", "lock"}
    /\ c.pc = "lock" =>
         /\ DOMAIN c.commits \subseteq DOMAIN c.lock
         /\ \A s \in DOMAIN c.commits : c.commits[s] = c.lock[s]
ApplyOK(c) == c.pc = "lock" /\ Whole(c.source, c.new)
SyncOK(c) ==
    /\ c.todo \subseteq c.config
    /\ c.pc \in Busy => c.source \in c.config \ c.todo
    /\ DOMAIN c.commits = c.config \ (c.todo \cup IF c.pc \in Busy THEN {c.source} ELSE {})
    /\ \A s \in DOMAIN c.commits \cap DOMAIN c.lock : c.commits[s] = c.lock[s]
    /\ c.pc \in Busy /\ c.source \in DOMAIN c.lock => c.new = c.lock[c.source]
    /\ c.pc = "lock" => c.todo = {}
CallOK(c) ==
    /\ c \in CallType
    /\ ReadOK(c)
    /\ c.kind = "add" => AddOK(c)
    /\ c.kind = "remove" => RemoveOK(c)
    /\ c.kind = "apply" => ApplyOK(c)
    /\ c.kind \in Loops => c.pc # "config"
    /\ c.kind \in Syncs => SyncOK(c)

Alone == \A p \in Procs : call[p].kind # "none" => holder = p
CallsInv ==
    /\ call = [p \in Procs |-> call[p]]
    /\ \A p \in Procs : call[p].kind # "none" => CallOK(call[p])
PluginsInv == FilesType /\ FilesInv /\ Alone /\ CallsInv

(* A step of the call that is at work: no other one has a step to keep. *)
LEMMA OneCall ==
    ASSUME PluginsInv, NEW p \in Procs, call[p].kind # "none",
           \A q \in Procs \ {p} : call'[q] = call[q], call' = [q \in Procs |-> call'[q]],
           holder' = holder \/ call'[p].kind = "none",
           call'[p].kind # "none" => CallOK(call[p])', FilesType', FilesInv'
    PROVE  PluginsInv'
<1>1. \A q \in Procs \ {p} : call[q].kind = "none"
  BY DEF PluginsInv, Alone
<1>2. holder = p
  BY DEF PluginsInv, Alone
<1> QED
  BY <1>1, <1>2 DEF PluginsInv, Alone, CallsInv

(* Put is a lock that has one more commit. *)
LEMMA PutType ==
    ASSUME NEW l \in LockType, NEW s \in Sources, NEW k \in Commits
    PROVE  /\ Put(l, s, k) \in LockType /\ DOMAIN Put(l, s, k) = DOMAIN l \cup {s}
           /\ Put(l, s, k)[s] = k /\ \A t \in DOMAIN l \ {s} : Put(l, s, k)[t] = l[t]
<1>1. PICK set \in SUBSET Sources : l \in [set -> Commits]
  BY DEF LockType
<1>2. Put(l, s, k) \in [set \cup {s} -> Commits] /\ set \cup {s} \in SUBSET Sources
  BY <1>1 DEF Put
<1> QED
  BY <1>1, <1>2 DEF LockType, Put

(* A call whose folder is whole goes on as Installed says. *)
LEMMA InstalledOK ==
    ASSUME PluginsInv, NEW p \in Procs, call[p].kind # "none", CallOK(call[p]), call[p].pc \in Busy,
           call'[p] = Installed(call[p]), UNCHANGED <<config, lock, workload, gone>>,
           \A s \in Sources, k \in Commits : installed[<<s, k>>] = "whole" => installed'[<<s, k>>] = "whole",
           installed'[Folder(call[p])] = "whole"
    PROVE  CallOK(call[p])' /\ call'[p].kind # "none"
<1> DEFINE c == call[p]
<1>1. c \in CallType /\ c.kind \in Loops \cup {"add"}
  BY DEF CallOK, CallType, RemoveOK, ApplyOK, Busy, Loops, Kinds
<1>2. CASE c.kind = "add"
  <2>1. call'[p] = [c EXCEPT !.pc = "config"]
    BY <1>2 DEF Installed
  <2> QED
    BY <1>1, <1>2, <2>1 DEF CallOK, CallType, ReadOK, AddOK, RemoveOK, ApplyOK, SyncOK, Busy, Loops, Syncs, Checks, Whole, Folder
<1>3. CASE c.kind \in Loops
  <2> DEFINE commits == Put(c.commits, c.source, c.new)
  <2>1. call'[p] = [c EXCEPT !.pc = "resolve", !.commits = commits]
    BY <1>3 DEF Installed, Loops, Syncs, Checks
  <2>2. /\ commits \in LockType /\ DOMAIN commits = DOMAIN c.commits \cup {c.source}
        /\ commits[c.source] = c.new /\ \A t \in DOMAIN c.commits \ {c.source} : commits[t] = c.commits[t]
    <3>1. c.commits \in LockType /\ c.source \in Sources /\ c.new \in Commits
      BY <1>1 DEF CallType
    <3> QED
      BY <3>1, PutType
  <2> HIDE DEF commits
  <2>3. ASSUME NEW s \in DOMAIN commits
        PROVE  installed'[<<s, commits[s]>>] = "whole"
    <3>1. CASE s = c.source
      BY <2>2, <3>1 DEF Folder
    <3>2. CASE s # c.source
      <4>1. s \in DOMAIN c.commits /\ commits[s] = c.commits[s] /\ Whole(s, c.commits[s])
        BY <1>3, <2>2, <3>2 DEF CallOK, ReadOK, Whole
      <4>2. c.commits \in LockType
        BY <1>1 DEF CallType
      <4>3. s \in Sources /\ c.commits[s] \in Commits
        BY <4>1, <4>2 DEF LockType
      <4> QED
        BY <4>1, <4>3 DEF Whole
    <3> QED
      BY <3>1, <3>2
  <2>4. call'[p] \in CallType
    BY <1>1, <2>1, <2>2 DEF CallType
  <2>6. ReadOK(call[p])'
    <3>1. /\ call'[p].kind = c.kind /\ call'[p].config = c.config /\ call'[p].lock = c.lock
          /\ call'[p].commits = commits /\ call'[p].pc = "resolve"
      BY <1>1, <2>1 DEF CallType
    <3> QED
      BY <2>3, <3>1 DEF CallOK, ReadOK, Whole
  <2>5. c.kind \in Syncs => SyncOK(call[p])'
    BY <1>1, <1>3, <2>1, <2>2 DEF CallOK, CallType, SyncOK, Busy
  <2> QED
    BY <1>1, <1>3, <2>1, <2>4, <2>5, <2>6 DEF CallOK, CallType, Loops, Syncs, Checks
<1> QED
  BY <1>1, <1>2, <1>3

(* The commit of the next plugin. *)
LEMMA ResolvesKeeps ==
    ASSUME PluginsInv, NEW p \in Procs, Resolves(p)
    PROVE  PluginsInv'
<1> DEFINE c == call[p]
<1>1. c.kind # "none" /\ c.pc = "resolve" /\ CallOK(c)
      /\ UNCHANGED <<config, lock, remote, installed, staging, edits, workload, brought, changes, gone, holder>>
  BY DEF Resolves, At, PluginsInv, CallsInv, Goes, files, world
<1>2. FilesType' /\ FilesInv'
  BY <1>1 DEF PluginsInv, FilesType, FilesInv, Whole
<1>3. call' = [q \in Procs |-> call'[q]] /\ \A q \in Procs \ {p} : call'[q] = call[q]
  BY DEF PluginsInv, CallsInv, Resolves, Goes
<1>4. c \in CallType
  BY <1>1 DEF CallOK
<1>5. CASE c.todo = {}
  <2>1. call'[p] = [c EXCEPT !.pc = "lock"]
    BY <1>5 DEF PluginsInv, CallsInv, Resolves, Goes
  <2>2. CallOK(call[p])'
    BY <1>1, <1>4, <1>5, <2>1 DEF CallOK, CallType, ReadOK, AddOK, RemoveOK, ApplyOK, SyncOK, Busy, Loops, Syncs, Checks, Whole, Folder
  <2> QED
    BY <1>1, <1>2, <1>3, <2>2, OneCall
<1>6. CASE c.todo # {}
  <2>1. PICK s \in c.todo :
          LET new == IF c.kind \in Syncs /\ s \in DOMAIN c.lock THEN c.lock[s] ELSE remote[s]
              next == [c EXCEPT !.source = s, !.new = new, !.todo = @ \ {s}]
          IN  \/ c.kind \in Checks /\ call'[p] = next
              \/ call'[p] = [next EXCEPT !.pc = "install"]
    BY <1>6 DEF PluginsInv, CallsInv, Resolves, Goes
  <2> DEFINE new == IF c.kind \in Syncs /\ s \in DOMAIN c.lock THEN c.lock[s] ELSE remote[s]
  <2>2. s \in Sources /\ new \in Commits
    BY <1>4 DEF PluginsInv, FilesType, CallType, LockType
  <2>3. CASE c.kind \in Checks /\ call'[p] = [c EXCEPT !.source = s, !.new = new, !.todo = @ \ {s}]
    <3>1. call'[p] \in CallType /\ call'[p].kind = c.kind
      BY <1>4, <2>2, <2>3 DEF CallType
    <3>2. ReadOK(call[p])'
      BY <1>1, <1>4, <2>2, <2>3 DEF CallOK, CallType, ReadOK, Folder, Whole
    <3> QED
      BY <1>1, <1>2, <1>3, <1>4, <2>3, <3>1, <3>2, OneCall DEF CallOK, CallType, Loops, Syncs, Checks, Kinds
  <2>4. CASE call'[p] = [c EXCEPT !.source = s, !.new = new, !.todo = @ \ {s}, !.pc = "install"]
    <3> HIDE DEF new
    <3>1. call'[p] \in CallType
      BY <1>4, <2>2, <2>4 DEF CallType, Busy
    <3>2. /\ call'[p].kind = c.kind /\ call'[p].config = c.config /\ call'[p].lock = c.lock /\ call'[p].pc = "install"
          /\ call'[p].commits = c.commits /\ call'[p].source = s /\ call'[p].new = new /\ call'[p].todo = c.todo \ {s}
      BY <1>4, <2>4 DEF CallType
    <3>3. ReadOK(call[p])'
      BY <1>1, <3>2 DEF CallOK, ReadOK, Whole
    <3>4. c.kind = "add" => AddOK(call[p])'
      BY <1>1, <3>2 DEF CallOK, AddOK, Whole
    <3>5. c.kind \in Syncs => SyncOK(call[p])'
      BY <1>1, <2>1, <3>2 DEF CallOK, SyncOK, Busy, new
    <3> QED
      BY <1>1, <1>2, <1>3, <1>4, <3>1, <3>2, <3>3, <3>4, <3>5, OneCall
         DEF CallOK, CallType, RemoveOK, ApplyOK, Loops, Syncs, Checks, Kinds
  <2> QED
    BY <2>1, <2>3, <2>4
<1> QED
  BY <1>5, <1>6

(* The folder of the next plugin is there, or its staging folder starts. *)
LEMMA InstallsKeeps ==
    ASSUME PluginsInv, NEW p \in Procs, Installs(p)
    PROVE  PluginsInv'
<1> DEFINE c == call[p]
<1>1. c.kind # "none" /\ c.pc = "install" /\ CallOK(c)
      /\ UNCHANGED <<config, lock, remote, installed, edits, workload, brought, changes, gone, holder>>
  BY DEF Installs, At, PluginsInv, CallsInv, Goes, world
<1>2. call' = [q \in Procs |-> call'[q]] /\ \A q \in Procs \ {p} : call'[q] = call[q]
  BY DEF PluginsInv, CallsInv, Installs, Goes
<1>3. c \in CallType /\ Folder(c) \in Sources \X Commits
  BY <1>1 DEF CallOK, CallType, Folder
<1>4. CASE installed[Folder(c)] # "none" /\ UNCHANGED staging
  <2>1. FilesType' /\ FilesInv' /\ Whole(c.source, c.new)
    BY <1>1, <1>3, <1>4 DEF PluginsInv, FilesType, FilesInv, Whole, Folder
  <2>2. call'[p] = Installed(c)
    BY <1>4 DEF PluginsInv, CallsInv, Installs, Goes
  <2>3. CallOK(call[p])' /\ call'[p].kind # "none"
    <3>1. c.pc \in Busy /\ installed'[Folder(c)] = "whole"
      BY <1>1, <2>1 DEF Whole, Busy, Folder
    <3> QED
      BY <1>1, <2>2, <3>1, InstalledOK
  <2> QED
    BY <1>1, <1>2, <2>1, <2>3, OneCall
<1>5. CASE staging' = [staging EXCEPT ![Folder(c)] = "part"] /\ call'[p] = [c EXCEPT !.pc = "export"]
  <2>1. FilesType' /\ FilesInv'
    BY <1>1, <1>3, <1>5 DEF PluginsInv, FilesType, FilesInv, Whole
  <2>2. CallOK(call[p])'
    BY <1>1, <1>3, <1>5 DEF CallOK, CallType, ReadOK, AddOK, RemoveOK, ApplyOK, SyncOK, Busy, Loops, Syncs, Checks, Whole, Folder
  <2> QED
    BY <1>1, <1>2, <1>3, <1>5, <2>1, <2>2, OneCall DEF CallType
<1> QED
  BY <1>4, <1>5 DEF PluginsInv, CallsInv, Installs, Goes

(* The export fills the staging folder. *)
LEMMA ExportsKeeps ==
    ASSUME PluginsInv, NEW p \in Procs, Exports(p)
    PROVE  PluginsInv'
<1> DEFINE c == call[p]
<1>1. c.kind # "none" /\ c.pc = "export" /\ CallOK(c)
      /\ UNCHANGED <<config, lock, remote, installed, edits, workload, brought, changes, gone, holder>>
  BY DEF Exports, At, PluginsInv, CallsInv, Goes, world
<1>2. /\ call' = [q \in Procs |-> call'[q]] /\ \A q \in Procs \ {p} : call'[q] = call[q]
      /\ call'[p] = [c EXCEPT !.pc = "rename"]
      /\ staging' = [staging EXCEPT ![Folder(c)] = "whole"]
  BY DEF PluginsInv, CallsInv, Exports, Goes
<1>3. c \in CallType /\ Folder(c) \in Sources \X Commits
  BY <1>1 DEF CallOK, CallType, Folder
<1>4. FilesType' /\ FilesInv'
  BY <1>1, <1>2, <1>3 DEF PluginsInv, FilesType, FilesInv, Whole
<1>5. staging'[Folder(c)] = "whole"
  BY <1>2, <1>3 DEF PluginsInv, FilesType
<1>6. CallOK(call[p])'
  BY <1>1, <1>2, <1>3, <1>5 DEF CallOK, CallType, ReadOK, AddOK, RemoveOK, ApplyOK, SyncOK, Busy, Loops, Syncs, Checks, Whole, Folder
<1> QED
  BY <1>1, <1>2, <1>3, <1>4, <1>6, OneCall DEF CallType

(* The rename shows a whole folder that loads. *)
LEMMA RenamesKeeps ==
    ASSUME PluginsInv, NEW p \in Procs, Renames(p)
    PROVE  PluginsInv'
<1> DEFINE c == call[p]
<1>1. c.kind # "none" /\ c.pc = "rename" /\ CallOK(c) /\ c.new \notin workload.bad
      /\ UNCHANGED <<config, lock, remote, edits, workload, brought, changes, gone, holder>>
  BY DEF Renames, At, PluginsInv, CallsInv, Goes, world
<1>2. /\ call' = [q \in Procs |-> call'[q]] /\ \A q \in Procs \ {p} : call'[q] = call[q]
      /\ call'[p] = Installed(c)
      /\ installed' = [installed EXCEPT ![Folder(c)] = staging[Folder(c)]]
      /\ staging' = [staging EXCEPT ![Folder(c)] = "none"]
  BY DEF PluginsInv, CallsInv, Renames, Goes
<1>3. Folder(c) \in Sources \X Commits /\ Folder(c)[2] = c.new
  BY <1>1 DEF CallOK, CallType, Folder
<1>4. staging[Folder(c)] = "whole"
  BY <1>1 DEF CallOK, ReadOK
<1>5. /\ installed' \in [Sources \X Commits -> {"none", "whole"}] /\ installed'[Folder(c)] = "whole"
      /\ \A i \in Sources \X Commits : installed'[i] = IF i = Folder(c) THEN "whole" ELSE installed[i]
  BY <1>2, <1>3, <1>4 DEF PluginsInv, FilesType
<1>6. \A s \in Sources, k \in Commits : installed[<<s, k>>] = "whole" => installed'[<<s, k>>] = "whole"
  BY <1>5
<1>7. FilesType'
  BY <1>1, <1>2, <1>3, <1>5 DEF PluginsInv, FilesType
<1>8. FilesInv'
  <2>1. \A s \in DOMAIN lock : s \in Sources /\ lock[s] \in Commits
    BY DEF PluginsInv, FilesType, LockType
  <2> QED
    BY <1>1, <1>3, <1>5, <1>6, <2>1 DEF PluginsInv, FilesInv, Whole
<1>9. CallOK(call[p])' /\ call'[p].kind # "none"
  <2>1. c.pc \in Busy
    BY <1>1 DEF Busy
  <2> QED
    BY <1>1, <1>2, <1>5, <1>6, <2>1, InstalledOK
<1> QED
  BY <1>1, <1>2, <1>7, <1>8, <1>9, OneCall

(* The edit of config.json: the plugins that are or were in it never get fewer. *)
LEMMA WritesConfigKeeps ==
    ASSUME PluginsInv, NEW p \in Procs, WritesConfig(p)
    PROVE  PluginsInv'
<1> DEFINE c == call[p]
<1>1. c.kind # "none" /\ c.pc = "config" /\ CallOK(c)
      /\ UNCHANGED <<lock, remote, installed, staging, edits, workload, brought, changes>>
  BY DEF WritesConfig, At, PluginsInv, CallsInv, world
<1>2. call' = [q \in Procs |-> call'[q]] /\ \A q \in Procs \ {p} : call'[q] = call[q]
  BY DEF PluginsInv, CallsInv, WritesConfig, Goes, Returns
<1>3. c \in CallType /\ c.kind \in {"add", "remove"}
  BY <1>1 DEF CallOK, CallType, ApplyOK, Loops, Kinds
<1>4. lock \in LockType
  BY DEF PluginsInv, FilesType
<1>5. CASE Returns(p) /\ UNCHANGED <<config, gone>>
  <2>1. FilesType' /\ FilesInv' /\ call'[p].kind = "none"
    BY <1>1, <1>5 DEF PluginsInv, CallsInv, Returns, NoCall, FilesType, FilesInv, Whole
  <2> QED
    BY <1>1, <1>2, <2>1, OneCall
<1>6. CASE /\ c.kind = "add" /\ config' = config \cup {c.source} /\ gone' = gone \ {c.source}
           /\ Goes(p, [c EXCEPT !.pc = "lock",
                                !.commits = Put(Restrict(lock, DOMAIN lock \cap c.config), c.source, c.new)])
  <2> DEFINE kept == Restrict(lock, DOMAIN lock \cap c.config)
             commits == Put(kept, c.source, c.new)
  <2>1. /\ kept \in LockType /\ DOMAIN kept = DOMAIN lock \cap c.config
        /\ \A s \in DOMAIN kept : kept[s] = lock[s]
    BY <1>4 DEF LockType, Restrict
  <2> HIDE DEF kept
  <2>2. /\ commits \in LockType /\ DOMAIN commits = DOMAIN kept \cup {c.source}
        /\ commits[c.source] = c.new /\ \A t \in DOMAIN kept \ {c.source} : commits[t] = kept[t]
    <3>1. c.source \in Sources /\ c.new \in Commits
      BY <1>3 DEF CallType
    <3> QED
      BY <2>1, <3>1, PutType
  <2>3. call'[p] = [c EXCEPT !.pc = "lock", !.commits = commits] /\ UNCHANGED holder
    BY <1>6 DEF PluginsInv, CallsInv, Goes, kept
  <2> HIDE DEF commits
  <2>4. call'[p] \in CallType
    BY <1>3, <2>2, <2>3 DEF CallType
  <2>5. /\ call'[p].kind = "add" /\ call'[p].config = c.config /\ call'[p].lock = c.lock /\ call'[p].pc = "lock"
        /\ call'[p].commits = commits /\ call'[p].source = c.source /\ call'[p].new = c.new
    BY <1>3, <1>6, <2>3 DEF CallType
  <2>6. FilesType' /\ FilesInv'
    BY <1>1, <1>3, <1>6 DEF PluginsInv, FilesType, FilesInv, Whole, CallType
  <2>7. ReadOK(call[p])'
    BY <1>1, <1>6, <2>5 DEF CallOK, ReadOK, Loops, Syncs, Checks
  <2>8. AddOK(call[p])'
    <3>1. AddOK(c)
      BY <1>1, <1>6 DEF CallOK
    <3>2. installed'[<<c.source, c.new>>] = "whole"
      BY <1>1, <3>1 DEF AddOK, Whole
    <3> QED
      BY <1>1, <1>6, <2>1, <2>2, <2>5, <3>1, <3>2 DEF AddOK, Whole
  <2>9. CallOK(call[p])'
    BY <2>4, <2>5, <2>7, <2>8 DEF CallOK, Loops, Syncs, Checks
  <2> QED
    BY <1>1, <1>2, <2>3, <2>6, <2>9, OneCall
<1>7. CASE /\ c.kind = "remove" /\ config' = config \ {c.source} /\ gone' = gone \cup {c.source}
           /\ Goes(p, [c EXCEPT !.pc = "lock", !.commits = Restrict(c.lock, DOMAIN c.lock \ {c.source})])
  <2> DEFINE commits == Restrict(c.lock, DOMAIN c.lock \ {c.source})
  <2>1. c.lock \in LockType
    BY <1>3 DEF CallType
  <2>2. /\ commits \in LockType /\ DOMAIN commits = DOMAIN c.lock \ {c.source}
        /\ \A s \in DOMAIN commits : commits[s] = c.lock[s]
    BY <2>1 DEF LockType, Restrict
  <2>3. call'[p] = [c EXCEPT !.pc = "lock", !.commits = commits] /\ UNCHANGED holder
    BY <1>7 DEF PluginsInv, CallsInv, Goes
  <2> HIDE DEF commits
  <2>4. call'[p] \in CallType
    BY <1>3, <2>2, <2>3 DEF CallType
  <2>5. /\ call'[p].kind = "remove" /\ call'[p].config = c.config /\ call'[p].lock = c.lock /\ call'[p].pc = "lock"
        /\ call'[p].commits = commits
    BY <1>3, <1>7, <2>3 DEF CallType
  <2>6. FilesType' /\ FilesInv'
    BY <1>1, <1>3, <1>7 DEF PluginsInv, FilesType, FilesInv, Whole, CallType
  <2>7. ReadOK(call[p])'
    BY <1>1, <1>7, <2>5 DEF CallOK, ReadOK, Loops, Syncs, Checks
  <2>8. RemoveOK(call[p])'
    BY <2>2, <2>5 DEF RemoveOK
  <2>9. CallOK(call[p])'
    BY <2>4, <2>5, <2>7, <2>8 DEF CallOK, Loops, Syncs, Checks
  <2> QED
    BY <1>1, <1>2, <2>3, <2>6, <2>9, OneCall
<1> QED
  BY <1>3, <1>5, <1>6, <1>7 DEF WritesConfig

(* The call writes plugins.lock or keeps its changes, and returns. *)
LEMMA WritesLockKeeps ==
    ASSUME PluginsInv, NEW p \in Procs, WritesLock(p)
    PROVE  PluginsInv'
<1> DEFINE c == call[p]
<1>1. c.kind # "none" /\ c.pc = "lock" /\ CallOK(c)
      /\ UNCHANGED <<config, remote, installed, staging, edits, workload, brought, gone>>
  BY DEF WritesLock, At, PluginsInv, CallsInv, world
<1>2. call' = [q \in Procs |-> call'[q]] /\ (\A q \in Procs \ {p} : call'[q] = call[q]) /\ call'[p].kind = "none"
  BY DEF PluginsInv, CallsInv, WritesLock, Returns, NoCall
<1>3. c \in CallType /\ c.commits \in LockType /\ c.source \in Sources /\ c.new \in Commits /\ ReadOK(c)
  BY <1>1 DEF CallOK, CallType
<1>4. lock \in LockType /\ DOMAIN lock \subseteq config \cup gone
  BY DEF PluginsInv, FilesType, FilesInv
<1>5. /\ lock' \in LockType /\ DOMAIN lock' \subseteq config \cup gone
      /\ \A s \in DOMAIN lock' : <<s, lock'[s]>> \in brought \/ Whole(s, lock'[s])
  <2>1. CASE lock' = lock
    BY <1>4, <2>1 DEF PluginsInv, FilesInv
  <2>2. CASE c.kind = "apply" /\ lock' = Applied(c)
    <3>1. lock' \in LockType /\ DOMAIN lock' = DOMAIN lock
          /\ \A s \in DOMAIN lock : lock'[s] = IF s = c.source THEN c.new ELSE lock[s]
      BY <1>3, <1>4, <2>2 DEF Applied, LockType
    <3>2. Whole(c.source, c.new)
      BY <1>1, <2>2 DEF CallOK, ApplyOK
    <3> QED
      BY <1>4, <3>1, <3>2 DEF PluginsInv, FilesInv
  <2>3. CASE c.kind = "add" /\ lock' = c.commits
    <3>1. AddOK(c)
      BY <1>1, <2>3 DEF CallOK
    <3> QED
      BY <1>1, <1>3, <1>4, <2>3, <3>1 DEF AddOK, PluginsInv, FilesInv
  <2>4. CASE c.kind = "remove" /\ lock' = c.commits
    <3>1. RemoveOK(c)
      BY <1>1, <2>4 DEF CallOK
    <3> QED
      BY <1>1, <1>3, <1>4, <2>4, <3>1 DEF RemoveOK, ReadOK, PluginsInv, FilesInv
  <2>5. CASE c.kind = "sync" /\ lock' = c.commits
    <3>1. SyncOK(c) /\ c.kind \in Loops
      BY <1>1, <2>5 DEF CallOK, Syncs, Loops
    <3> QED
      BY <1>1, <1>3, <1>4, <2>5, <3>1 DEF SyncOK, ReadOK
  <2> QED
    BY <1>3, <2>1, <2>2, <2>3, <2>4, <2>5 DEF WritesLock, CallType, Kinds, Syncs, Checks
<1>6. changes' \subseteq Sources \X Commits /\ \A s \in Sources, k \in Commits : <<s, k>> \in changes' => Whole(s, k)
  <2>1. CASE UNCHANGED changes
    BY <2>1 DEF PluginsInv, FilesType, FilesInv
  <2>2. CASE c.kind \in Checks /\ changes' = changes \cup Entries(c.commits)
    <3>1. \A s \in DOMAIN c.commits : s \in Sources /\ c.commits[s] \in Commits /\ Whole(s, c.commits[s])
      BY <1>3, <2>2 DEF ReadOK, Loops, LockType
    <3>2. Entries(c.commits) \subseteq Sources \X Commits
      BY <3>1 DEF Entries
    <3>3. \A s \in Sources, k \in Commits : <<s, k>> \in Entries(c.commits) => Whole(s, k)
      BY <3>1 DEF Entries
    <3> QED
      BY <2>2, <3>2, <3>3 DEF PluginsInv, FilesType, FilesInv
  <2> QED
    BY <2>1, <2>2 DEF WritesLock
<1>7. FilesType' /\ FilesInv'
  BY <1>1, <1>5, <1>6 DEF PluginsInv, FilesType, FilesInv, Whole
<1> QED
  BY <1>1, <1>2, <1>7, OneCall

(* A call stops, and its files stay as they are. *)
LEMMA StopsKeeps ==
    ASSUME PluginsInv, NEW p \in Procs, Stops(p)
    PROVE  PluginsInv'
<1>1. /\ call' = [q \in Procs |-> call'[q]] /\ (\A q \in Procs \ {p} : call'[q] = call[q]) /\ call'[p].kind = "none"
      /\ call[p].kind # "none" /\ UNCHANGED <<files, world, changes, gone>>
  BY DEF PluginsInv, CallsInv, Stops, NoCall
<1>2. FilesType' /\ FilesInv'
  BY <1>1 DEF PluginsInv, FilesType, FilesInv, Whole, files, world
<1> QED
  BY <1>1, <1>2, OneCall

(* A call starts while no other one works, and reads files that are true. *)
LEMMA StartsKeeps ==
    ASSUME PluginsInv, NEW p \in Procs, Starts(p), "none" \notin Procs, 1 \in Commits
    PROVE  PluginsInv'
<1> USE DEF files, world
<1>1. /\ call' = [q \in Procs |-> call'[q]] /\ (\A q \in Procs \ {p} : call'[q] = call[q])
      /\ holder' = p /\ UNCHANGED <<files, world, changes, gone>>
  BY DEF PluginsInv, CallsInv, Starts
<1>2. \A q \in Procs : call[q].kind = "none"
  BY DEF PluginsInv, Alone, Starts, Free
<1>3. PICK kind \in workload.calls, change \in Sources \X Commits :
         LET c == [kind |-> kind, source |-> change[1], new |-> change[2], commits |-> EmptyLock,
                   config |-> config, lock |-> IF config = {} THEN EmptyLock ELSE lock,
                   todo |-> IF kind \in Syncs \cup {"check_all"} THEN config ELSE {change[1]},
                   pc |-> CASE kind = "apply" -> "lock" [] kind = "remove" -> "config" [] OTHER -> "resolve"]
         IN /\ IF kind = "apply" THEN change \in changes ELSE change[2] = 1
            /\ ~Refused(c)
            /\ call'[p] = c
  BY DEF PluginsInv, CallsInv, Starts
<1> DEFINE c == call'[p]
<1>4. kind \in Kinds /\ change[1] \in Sources /\ change[2] \in Commits /\ change = <<change[1], change[2]>>
  BY DEF PluginsInv, FilesType
<1>5. EmptyLock \in LockType /\ DOMAIN EmptyLock = {}
  <2>1. EmptyLock \in [{} -> Commits]
    BY DEF EmptyLock
  <2> QED
    BY <2>1 DEF LockType
<1>6. /\ c.kind = kind /\ c.source = change[1] /\ c.new = change[2] /\ c.commits = EmptyLock /\ c.config = config
      /\ c.lock = (IF config = {} THEN EmptyLock ELSE lock)
      /\ c.todo = (IF kind \in Syncs \cup {"check_all"} THEN config ELSE {change[1]})
      /\ c.pc = (CASE kind = "apply" -> "lock" [] kind = "remove" -> "config" [] OTHER -> "resolve")
      /\ ~Refused(c)
  BY <1>3
<1>7. c \in CallType
  BY <1>3, <1>4, <1>5 DEF CallType, PluginsInv, FilesType, Kinds, Syncs, Checks
<1>8. ReadOK(call[p])'
  <2>1. kind = "sync_locked" => DOMAIN c.lock = config
    BY <1>6 DEF Refused
  <2>2. c.pc # "rename"
    BY <1>4, <1>6 DEF Kinds, Syncs, Checks
  <2> QED
    BY <1>1, <1>5, <1>6, <2>1, <2>2 DEF ReadOK
<1>9. kind = "add" => AddOK(call[p])'
  <2>1. kind = "add" => change[1] \notin config
    BY <1>6 DEF Refused
  <2> QED
    BY <1>6, <2>1 DEF AddOK, Syncs
<1>10. kind = "remove" => RemoveOK(call[p])'
  BY <1>6 DEF RemoveOK
<1>11. kind = "apply" => ApplyOK(call[p])'
  <2>1. kind = "apply" => change \in changes
    BY <1>3
  <2>2. kind = "apply" => Whole(change[1], change[2])'
    BY <1>1, <1>4, <2>1 DEF PluginsInv, FilesInv, Whole
  <2> QED
    BY <1>6, <2>2 DEF ApplyOK
<1>12. kind \in Syncs => SyncOK(call[p])'
  BY <1>5, <1>6 DEF SyncOK, Busy, Syncs
<1>13. kind \in Loops => c.pc # "config"
  BY <1>6 DEF Loops, Syncs, Checks
<1>14. CallOK(call[p])'
  BY <1>6, <1>7, <1>8, <1>9, <1>10, <1>11, <1>12, <1>13 DEF CallOK
<1>15. FilesType' /\ FilesInv'
  BY <1>1 DEF PluginsInv, FilesType, FilesInv, Whole
<1> QED
  BY <1>1, <1>2, <1>14, <1>15 DEF PluginsInv, Alone, CallsInv

(* An edit of the user keeps the plugins that are or were in config.json; a ref that moves changes no file. *)
LEMMA UserKeeps ==
    ASSUME PluginsInv, Edits \/ RefMoves
    PROVE  PluginsInv'
<1>1. /\ config' \subseteq Sources /\ gone' \subseteq Sources /\ remote' \in [Sources -> Commits]
      /\ config \cup gone \subseteq config' \cup gone'
      /\ UNCHANGED <<lock, installed, staging, workload, brought, holder, call, changes>>
  <2>1. CASE Edits
    BY <2>1 DEF Edits, PluginsInv, FilesType
  <2>2. CASE RefMoves
    BY <2>2 DEF RefMoves, PluginsInv, FilesType, files
  <2> QED
    BY <2>1, <2>2
<1>2. FilesType' /\ FilesInv'
  BY <1>1 DEF PluginsInv, FilesType, FilesInv, Whole
<1>3. ASSUME NEW q \in Procs, call[q].kind # "none"
      PROVE  CallOK(call[q])'
  <2>1. CallOK(call[q])
    BY <1>3 DEF PluginsInv, CallsInv
  <2>2. ReadOK(call[q])'
    BY <1>1, <2>1 DEF CallOK, ReadOK, Whole, Folder
  <2>3. call[q].kind = "add" => AddOK(call[q])'
    BY <1>1, <2>1 DEF CallOK, AddOK, Whole
  <2>4. call[q].kind = "apply" => ApplyOK(call[q])'
    BY <1>1, <2>1 DEF CallOK, ApplyOK, Whole
  <2>5. call[q].kind = "remove" => RemoveOK(call[q])'
    BY <1>1, <2>1 DEF CallOK, RemoveOK
  <2>6. call[q].kind \in Syncs => SyncOK(call[q])'
    BY <1>1, <2>1 DEF CallOK, SyncOK
  <2> QED
    BY <1>1, <2>1, <2>2, <2>3, <2>4, <2>5, <2>6 DEF CallOK
<1> QED
  BY <1>1, <1>2, <1>3 DEF PluginsInv, Alone, CallsInv
-----------------------------------------------------------------------------
(* The workloads give calls and plugins that there are, and a ref is at the first commit. *)
Sane ==
    /\ "none" \notin Procs /\ 1 \in Commits
    /\ \A w \in Workloads : w.calls \subseteq Kinds /\ w.brings \subseteq Sources

(* The first files. *)
LEMMA InitInv ==
    ASSUME Sane, Init
    PROVE  PluginsInv
<1>1. workload \in Workloads /\ workload.calls \subseteq Kinds /\ workload.brings \subseteq Sources
  BY DEF Init, Sane
<1>2. PICK locked \in SUBSET config : lock \in [locked -> Commits]
  BY DEF Init
<1>3. config \subseteq Sources /\ locked \in SUBSET Sources /\ lock \in LockType /\ DOMAIN lock \subseteq config
  BY <1>1, <1>2 DEF Init, LockType
<1>4. FilesType
  BY <1>1, <1>3 DEF Init, Sane, FilesType
<1>5. \A s \in DOMAIN lock : <<s, lock[s]>> \in brought
  BY DEF Init, Entries
<1>6. FilesInv
  BY <1>3, <1>5 DEF Init, FilesInv
<1> QED
  BY <1>4, <1>6 DEF Init, NoCall, PluginsInv, Alone, CallsInv

(* The calls take turns, and each step of one, of the user and of the repositories keeps what the    *)
(* files and the read text of a call say of each other (manager.rs:75, 103, 149, 196, 253, 281).     *)
THEOREM PluginsInvariant ==
    ASSUME Sane
    PROVE  Spec => []PluginsInv
<1>1. Init => PluginsInv
  BY InitInv
<1>2. PluginsInv /\ [Next]_vars => PluginsInv'
  <2> SUFFICES ASSUME PluginsInv, [Next]_vars PROVE PluginsInv'
    OBVIOUS
  <2>1. ASSUME NEW p \in Procs, Steps(p) PROVE PluginsInv'
    BY <2>1, StartsKeeps, ResolvesKeeps, InstallsKeeps, ExportsKeeps, RenamesKeeps, WritesConfigKeeps,
       WritesLockKeeps, StopsKeeps DEF Steps, Sane
  <2>2. CASE Edits \/ RefMoves
    BY <2>2, UserKeeps
  <2>3. CASE UNCHANGED vars
    BY <2>3 DEF vars, files, world, PluginsInv, FilesType, FilesInv, Whole, Alone, CallsInv, CallOK, CallType, ReadOK, AddOK, RemoveOK, ApplyOK, SyncOK, Busy, Loops, Syncs, Checks, Folder
  <2> QED
    BY <2>1, <2>2, <2>3 DEF Next
<1> QED
  BY <1>1, <1>2, PTL DEF Spec

(* What a reload finds: whole installs that load, of the locked commits, for plugins of config.json  *)
(* alone (manager.rs:283, 298, 345).                                                                 *)
LEMMA InvFilesTrue ==
    ASSUME PluginsInv
    PROVE  FilesTrue
<1>1. DOMAIN installed = Sources \X Commits /\ \A i \in DOMAIN installed : installed[i] \in {"none", "whole"}
  BY DEF PluginsInv, FilesType
<1> QED
  BY <1>1 DEF PluginsInv, FilesInv, FilesTrue

(* The lock that a sync writes has each plugin that it read, and moves none. *)
LEMMA InvSyncsTrue ==
    ASSUME PluginsInv
    PROVE  SyncsTrue
<1> SUFFICES ASSUME NEW p \in Procs, At(p, "lock"), call[p].kind \in Syncs
             PROVE  LET c == call[p] IN
                    /\ DOMAIN c.commits = c.config
                    /\ \A s \in c.config : Whole(s, c.commits[s]) /\ (s \in DOMAIN c.lock => c.commits[s] = c.lock[s])
                    /\ c.kind = "sync_locked" /\ c.config # {} => c.commits = lock
  BY DEF SyncsTrue
<1> DEFINE c == call[p]
<1>1. c \in CallType /\ ReadOK(c) /\ SyncOK(c) /\ c.pc = "lock" /\ c.kind \in Loops
  BY DEF At, PluginsInv, CallsInv, CallOK, Loops
<1>2. DOMAIN c.commits = c.config
  BY <1>1 DEF SyncOK, Busy
<1>3. \A s \in c.config : Whole(s, c.commits[s]) /\ (s \in DOMAIN c.lock => c.commits[s] = c.lock[s])
  BY <1>1, <1>2 DEF ReadOK, SyncOK
<1>4. ASSUME c.kind = "sync_locked", c.config # {}
      PROVE  c.commits = lock
  <2>1. c.lock = lock /\ DOMAIN lock = c.config
    BY <1>1, <1>4 DEF ReadOK
  <2>2. \A s \in c.config : c.commits[s] = lock[s]
    BY <1>3, <2>1
  <2>3. c.commits \in [c.config -> Commits] /\ lock \in [c.config -> Commits]
    BY <1>1, <1>2, <2>1 DEF CallType, LockType, PluginsInv, FilesType
  <2> QED
    BY <2>2, <2>3
<1> QED
  BY <1>2, <1>3, <1>4

(* The lock that a call writes moves no locked plugin. *)
LEMMA InvNoneMoves ==
    ASSUME PluginsInv
    PROVE  NoneMoves
<1> SUFFICES ASSUME NEW p \in Procs, At(p, "lock"), call[p].kind \in {"add", "remove"} \cup Syncs,
                    NEW s \in DOMAIN call[p].commits \cap DOMAIN lock
             PROVE  LET c == call[p] IN
                    c.commits[s] = lock[s] \/ (c.kind = "add" /\ s = c.source /\ s \notin c.config)
  BY DEF NoneMoves
<1> DEFINE c == call[p]
<1>1. CallOK(c) /\ ReadOK(c) /\ c.pc = "lock"
  BY DEF At, PluginsInv, CallsInv, CallOK
<1>2. CASE c.kind = "add"
  BY <1>1, <1>2 DEF CallOK, AddOK
<1>3. CASE c.kind = "remove"
  BY <1>1, <1>3 DEF CallOK, RemoveOK, ReadOK
<1>4. CASE c.kind \in Syncs
  <2>1. SyncOK(c) /\ DOMAIN c.commits = c.config
    BY <1>1, <1>4 DEF CallOK, SyncOK, Busy
  <2> QED
    BY <1>1, <2>1 DEF SyncOK, ReadOK
<1> QED
  BY <1>2, <1>3, <1>4

(* PluginsTrue in every state: whatever stops a call and whatever the user edits meanwhile, a reload *)
(* finds whole installs of the locked commits, a sync repairs the rest, and a locked plugin moves    *)
(* only by an apply, or by an add of a plugin that config.json lost (manager.rs:54, 153, 259, 283).  *)
THEOREM PluginsTrueHolds ==
    ASSUME Sane
    PROVE  Spec => []PluginsTrue
<1>1. PluginsInv => PluginsTrue
  BY InvFilesTrue, InvSyncsTrue, InvNoneMoves DEF PluginsTrue
<1> QED
  BY <1>1, PluginsInvariant, PTL
-----------------------------------------------------------------------------
(***************************************************************************)
(* The scopes of the plugins                                               *)
(***************************************************************************)
CONSTANTS MaxOpens, Plugins, MaxJobs, HookRuns, ScopeWorkloads
VARIABLES opened, dropped, scope, tools, aborting, run, offered, late, last, scopeWorkload
Hooks == INSTANCE Scopes WITH Workloads <- ScopeWorkloads, workload <- scopeWorkload

\* A workload opens no more than there are opens and loads plugins that there are; a plugin is its number.
SaneScopes ==
    /\ MaxOpens \in Nat /\ Plugins \subseteq Nat
    /\ \A w \in ScopeWorkloads :
         /\ w.opens \in 0 .. MaxOpens /\ w.plugins \subseteq Plugins
         /\ w.blocks \in Nat /\ w.heads \subseteq Nat

ScopeType ==
    [setup : {"none", "runs", "returned", "failed"}, closed : BOOLEAN, cleanup : {"none", "given", "runs", "ran"},
     end : {"open", "waits", "cleans", "works", "done"}, hooks : Nat,
     jobs : SUBSET (1 .. MaxJobs), awaited : SUBSET (1 .. MaxJobs)]
RunType ==
    [kind : scopeWorkload.runs, open : 1 .. MaxOpens, pc : {"waits", "runs", "calls", "done", "failed"},
     left : [Plugins -> Nat], now : Nat, head : Seq(Nat), kept : Nat, answers : Nat, truth : Seq(Nat)]
HooksType ==
    /\ scope \in [1 .. MaxOpens -> [Plugins -> ScopeType]]
    /\ scopeWorkload \in ScopeWorkloads
    /\ last \in 0 .. MaxOpens /\ opened \subseteq 1 .. last
    /\ tools \subseteq (1 .. MaxOpens) \X Plugins /\ offered \subseteq (1 .. MaxOpens) \X Plugins
    /\ run = [r \in HookRuns |-> run[r]]
    /\ \A r \in HookRuns : run[r].kind # "none" => run[r] \in RunType

\* What a scope is at each step of its setup and of its close, `is_open` while its session is open.
ScopeOK(s, is_open) ==
    /\ s.setup = "none" => s = Hooks!NoScope
    /\ s.setup = "failed" => s.closed
    /\ s.setup = "runs" => s.cleanup = "none" /\ s.end \in {"open", "waits"}
    /\ is_open => s.end = "open" /\ s.cleanup \in {"none", "given"}
    /\ ~is_open /\ s.setup # "none" => s.closed /\ s.end # "open"
    /\ s.cleanup = "given" => s.end \in {"open", "waits"}
    /\ s.end = "works" => s.awaited = s.jobs
    /\ s.end = "done" => s.jobs = {}
ScopesInv ==
    \A o \in 1 .. MaxOpens, p \in Plugins :
        /\ ScopeOK(scope[o][p], o \in opened)
        /\ scope[o][p].setup # "none" <=> o <= last /\ p \in scopeWorkload.plugins

\* A tool has an open scope; a turn got those of a setup that succeeded.
ToolsInv ==
    /\ \A s \in tools : s[1] \in opened /\ ~scope[s[1]][s[2]].closed /\ scope[s[1]][s[2]].setup # "none"
    /\ \A s \in offered : scope[s[1]][s[2]].setup = "returned"

\* A run copied its handlers after the setups, from scopes that there are.
RunOK(q) ==
    /\ q.open <= last
    /\ q.pc \in {"runs", "calls"} =>
         /\ Hooks!Ready(q.open)
         /\ \A p \in Plugins : q.left[p] > 0 => scope[q.open][p].setup # "none"
    /\ q.pc = "calls" => q.now \in Plugins
RunsInv ==
    /\ ~late
    /\ \A r \in HookRuns : run[r].kind # "none" => RunOK(run[r])

\* The head and the kept blocks of a plan are its context.
PlanOK(q) ==
    /\ q.kept <= scopeWorkload.blocks
    /\ q.truth = q.head \o Hooks!LastOf(Hooks!Before, q.kept)
PlanInv == \A r \in HookRuns : run[r].kind # "none" => PlanOK(run[r])

HooksInv == HooksType /\ ScopesInv /\ ToolsInv /\ RunsInv
-----------------------------------------------------------------------------
(* The first states. *)
LEMMA HooksInit ==
    ASSUME SaneScopes, Hooks!Init
    PROVE  HooksInv /\ PlanInv
<1>1. Hooks!NoScope \in ScopeType
  BY DEF Hooks!NoScope, ScopeType
<1>2. HooksType
  BY <1>1 DEF Hooks!Init, HooksType, SaneScopes, Hooks!Opens, Hooks!NoRun
<1>3. ScopesInv
  BY <1>2 DEF Hooks!Init, ScopesInv, ScopeOK, Hooks!NoScope, Hooks!Opens, HooksType
<1>4. ToolsInv /\ RunsInv /\ PlanInv
  BY DEF Hooks!Init, ToolsInv, RunsInv, PlanInv, Hooks!NoRun
<1> QED
  BY <1>2, <1>3, <1>4 DEF HooksInv

(* A setup goes on and never back, so what a run knows of the scopes stays. *)
LEMMA RunsStay ==
    ASSUME HooksInv, HooksType', UNCHANGED <<run, late, scopeWorkload>>, last <= last',
           \A o \in 1 .. last, p \in Plugins :
               /\ scope[o][p].setup # "none" => scope'[o][p].setup # "none"
               /\ scope[o][p].setup \in {"returned", "failed"} => scope'[o][p].setup = scope[o][p].setup,
           scopeWorkload.plugins \subseteq Plugins
    PROVE  RunsInv'
<1> SUFFICES ASSUME NEW r \in HookRuns, run[r].kind # "none"
             PROVE  RunOK(run[r])'
  BY DEF HooksInv, RunsInv
<1> DEFINE q == run[r]
<1>1. q \in RunType /\ RunOK(q) /\ q.open \in 1 .. last /\ q.open <= last'
  BY DEF HooksInv, HooksType, RunsInv, RunOK, RunType
<1>2. ASSUME Hooks!Ready(q.open) PROVE Hooks!Ready(q.open)'
  BY <1>1, <1>2 DEF Hooks!Ready, Hooks!Settled
<1> QED
  BY <1>1, <1>2 DEF RunOK

(* What the steps of a scope set. *)
LEMMA ScopeFields ==
    ASSUME NEW s \in ScopeType
    PROVE  /\ [s EXCEPT !.closed = TRUE, !.end = "waits"] \in ScopeType
           /\ \A jobs \in SUBSET s.jobs, awaited \in SUBSET s.awaited :
                [s EXCEPT !.jobs = jobs, !.awaited = awaited] \in ScopeType
  BY DEF ScopeType

(* A step of one scope. *)
LEMMA ScopeStep ==
    ASSUME HooksInv, SaneScopes, NEW o \in 1 .. MaxOpens, NEW p \in Plugins, NEW s \in ScopeType,
           scope[o][p].setup # "none",
           scope' = [scope EXCEPT ![o][p] = s],
           ScopeOK(s, o \in opened), s.setup # "none",
           scope[o][p].setup # "runs" => s.setup = scope[o][p].setup,
           tools' \subseteq tools, s.closed => <<o, p>> \notin tools',
           UNCHANGED <<Hooks!engine, run, offered, late>>
    PROVE  HooksInv'
<1>1. \A o2 \in 1 .. MaxOpens, p2 \in Plugins :
         scope'[o2][p2] = IF o2 = o /\ p2 = p THEN s ELSE scope[o2][p2]
  BY DEF HooksInv, HooksType
<1>2. HooksType'
  BY DEF HooksInv, HooksType, Hooks!engine, RunType
<1>3. ScopesInv'
  BY <1>1 DEF HooksInv, ScopesInv, HooksType, Hooks!engine
<1>4. ToolsInv'
  BY <1>1, <1>2 DEF HooksInv, ToolsInv, HooksType, Hooks!engine
<1>5. scopeWorkload.plugins \subseteq Plugins
  BY DEF SaneScopes, HooksInv, HooksType
<1>6. \A o2 \in 1 .. last, p2 \in Plugins :
         /\ scope[o2][p2].setup # "none" => scope'[o2][p2].setup # "none"
         /\ scope[o2][p2].setup \in {"returned", "failed"} => scope'[o2][p2].setup = scope[o2][p2].setup
  BY <1>1 DEF HooksInv, HooksType
<1>7. RunsInv'
  BY <1>2, <1>5, <1>6, RunsStay DEF Hooks!engine, HooksInv, HooksType
<1> QED
  BY <1>2, <1>3, <1>4, <1>7 DEF HooksInv

(* The setup, the hooks, the jobs and the close of one scope. *)
LEMMA PluginKeeps ==
    ASSUME HooksInv, SaneScopes, NEW o \in 1 .. MaxOpens, NEW p \in Plugins, Hooks!Plugin(o, p)
    PROVE  HooksInv'
<1> DEFINE s == scope[o][p]
<1>0. /\ s \in ScopeType /\ ScopeOK(s, o \in opened)
      /\ scope \in [1 .. MaxOpens -> [Plugins -> ScopeType]]
      /\ <<o, p>> \in tools => ~s.closed
  BY DEF HooksInv, HooksType, ScopesInv, ToolsInv
<1>1. CASE Hooks!SetupReturns(o, p)
  <2>1. PICK cleanup \in {"none", "given"} :
          scope' = [scope EXCEPT ![o][p] = [s EXCEPT !.setup = "returned", !.cleanup = cleanup]]
    BY <1>0, <1>1 DEF Hooks!SetupReturns
  <2> DEFINE t == [s EXCEPT !.setup = "returned", !.cleanup = cleanup]
  <2>2. t \in ScopeType /\ ScopeOK(t, o \in opened) /\ s.setup = "runs" /\ t.setup = "returned" /\ t.closed = s.closed
    BY <1>0, <1>1 DEF Hooks!SetupReturns, ScopeType, ScopeOK
  <2> QED
    BY <1>0, <1>1, <2>1, <2>2, ScopeStep DEF Hooks!SetupReturns
<1>2. CASE Hooks!SetupFails(o, p)
  <2> DEFINE t == [s EXCEPT !.setup = "failed", !.closed = TRUE]
  <2>1. scope' = [scope EXCEPT ![o][p] = t]
    <3>1. CASE s.closed
      <4>1. t = [s EXCEPT !.setup = "failed"]
        BY <1>0, <3>1 DEF ScopeType
      <4> QED
        BY <1>0, <1>2, <3>1, <4>1 DEF Hooks!SetupFails
    <3>2. CASE ~s.closed
      BY <1>0, <1>2, <3>2 DEF Hooks!SetupFails, Hooks!RollBack
    <3> QED
      BY <3>1, <3>2
  <2>2. t \in ScopeType /\ ScopeOK(t, o \in opened) /\ s.setup = "runs" /\ t.setup = "failed"
    BY <1>0, <1>2 DEF Hooks!SetupFails, ScopeType, ScopeOK
  <2>3. tools' \subseteq tools /\ <<o, p>> \notin tools'
    BY <1>0, <1>2 DEF Hooks!SetupFails, Hooks!RollBack
  <2> QED
    BY <1>2, <2>1, <2>2, <2>3, ScopeStep DEF Hooks!SetupFails
<1>3. CASE Hooks!CloseGoesOn(o, p)
  <2>1. PICK t \in {[s EXCEPT !.end = "cleans", !.cleanup = "runs"], [s EXCEPT !.end = "works", !.awaited = s.jobs],
                    [s EXCEPT !.end = "works", !.cleanup = "ran", !.awaited = s.jobs], [s EXCEPT !.end = "done"]} :
          /\ scope' = [scope EXCEPT ![o][p] = t]
          /\ s.end # "open" /\ t.end \in {"cleans", "works", "done"}
          /\ t.end = "cleans" => s.end = "waits" /\ s.cleanup = "given" /\ Hooks!Settled(o, p)
          /\ t.end = "works" => s.end = "cleans" \/ (s.end = "waits" /\ s.cleanup # "given" /\ Hooks!Settled(o, p))
          /\ t.end = "done" => s.end = "works" /\ s.awaited = {}
    BY <1>0, <1>3 DEF Hooks!CloseGoesOn, Hooks!Waits, ScopeType
  <2>2. t \in ScopeType /\ t.setup = s.setup /\ t.closed = s.closed
    BY <1>0, <2>1 DEF ScopeType
  <2>3. s.setup # "none" /\ ScopeOK(t, o \in opened)
    <3>1. s.setup # "none" /\ s.end # "open"
      BY <1>0, <2>1 DEF ScopeOK, Hooks!NoScope
    <3>2. CASE t.end = "cleans"
      BY <1>0, <2>1, <3>1, <3>2 DEF ScopeOK, ScopeType, Hooks!Settled
    <3>3. CASE t.end = "works"
      <4>1. t.jobs = s.jobs /\ t.awaited = s.jobs /\ s.setup # "runs"
        BY <1>0, <2>1, <3>3 DEF ScopeOK, ScopeType, Hooks!Settled
      <4>2. t.cleanup # "given" /\ o \notin opened
        BY <1>0, <2>1, <3>1, <3>3 DEF ScopeOK, ScopeType
      <4> QED
        BY <1>0, <2>2, <3>1, <3>3, <4>1, <4>2 DEF ScopeOK
    <3>4. CASE t.end = "done"
      BY <1>0, <2>1, <3>1, <3>4 DEF ScopeOK, ScopeType
    <3> QED
      BY <2>1, <3>1, <3>2, <3>3, <3>4
  <2> QED
    BY <1>0, <1>3, <2>1, <2>2, <2>3, ScopeStep DEF Hooks!CloseGoesOn
<1>4. CASE Hooks!JobEnds(o, p)
  <2>1. PICK j \in s.jobs : scope' = [scope EXCEPT ![o][p] = [s EXCEPT !.jobs = s.jobs \ {j}, !.awaited = s.awaited \ {j}]]
    BY <1>4 DEF Hooks!JobEnds
  <2> DEFINE t == [s EXCEPT !.jobs = s.jobs \ {j}, !.awaited = s.awaited \ {j}]
  <2>2. t \in ScopeType /\ t.setup = s.setup /\ t.closed = s.closed
    BY <1>0, ScopeFields DEF ScopeType
  <2>3. s.setup # "none" /\ ScopeOK(t, o \in opened)
    BY <1>0 DEF ScopeType, ScopeOK, Hooks!NoScope
  <2> QED
    BY <1>0, <1>4, <2>1, <2>2, <2>3, ScopeStep DEF Hooks!JobEnds
<1>5. CASE Hooks!Define(o, p) \/ Hooks!Undefine(o, p)
  <2>1. /\ tools' \subseteq tools \cup {<<o, p>>} /\ UNCHANGED <<Hooks!engine, scope, run, offered, late>>
        /\ <<o, p>> \in tools' => <<o, p>> \in tools \/ (o \in opened /\ ~s.closed /\ s.setup # "none")
    BY <1>5 DEF Hooks!Define, Hooks!Undefine, Hooks!PluginRuns
  <2>2. HooksType'
    BY <2>1 DEF HooksInv, HooksType, Hooks!engine, RunType
  <2>4. ScopesInv'
    BY <2>1 DEF HooksInv, ScopesInv, ScopeOK, Hooks!engine
  <2>5. ToolsInv'
    BY <2>1 DEF HooksInv, ToolsInv, Hooks!engine
  <2>3. RunsInv'
    BY <2>1 DEF HooksInv, RunsInv, RunOK, Hooks!Ready, Hooks!Settled, Hooks!engine
  <2> QED
    BY <2>2, <2>3, <2>4, <2>5 DEF HooksInv
<1>6. CASE Hooks!AddHook(o, p) \/ Hooks!RemoveHook(o, p)
  <2> DEFINE t(n) == [s EXCEPT !.hooks = n]
  <2>1. s.hooks \in Nat /\ s.setup # "none"
    BY <1>0, <1>6 DEF ScopeType, ScopeOK, Hooks!AddHook, Hooks!RemoveHook, Hooks!PluginRuns, Hooks!NoScope
  <2>2. ASSUME NEW n \in Nat, scope' = [scope EXCEPT ![o][p] = t(n)]
        PROVE  HooksInv'
    <3>1. t(n) \in ScopeType /\ ScopeOK(t(n), o \in opened) /\ t(n).setup = s.setup /\ t(n).closed = s.closed
      BY <1>0, <2>1 DEF ScopeType, ScopeOK
    <3> QED
      BY <1>0, <1>6, <2>1, <2>2, <3>1, ScopeStep DEF Hooks!AddHook, Hooks!RemoveHook
  <2>3. CASE Hooks!AddHook(o, p)
    <3>1. scope' = [scope EXCEPT ![o][p] = t(s.hooks + 1)] /\ s.hooks + 1 \in Nat
      BY <1>0, <2>1, <2>3 DEF Hooks!AddHook
    <3> QED
      BY <2>2, <3>1
  <2>4. CASE Hooks!RemoveHook(o, p)
    <3>1. scope' = [scope EXCEPT ![o][p] = t(s.hooks - 1)] /\ s.hooks - 1 \in Nat
      BY <1>0, <2>1, <2>4 DEF Hooks!RemoveHook
    <3> QED
      BY <2>2, <3>1
  <2> QED
    BY <1>6, <2>3, <2>4
<1>7. CASE Hooks!StartJob(o, p)
  <2>1. PICK j \in 1 .. MaxJobs : scope' = [scope EXCEPT ![o][p] = [s EXCEPT !.jobs = @ \cup {j}]]
    BY <1>0, <1>7 DEF Hooks!StartJob
  <2> DEFINE t == [s EXCEPT !.jobs = @ \cup {j}]
  <2>2. s.setup # "none" /\ ~s.closed /\ t \in ScopeType /\ t.setup = s.setup /\ t.closed = s.closed
    BY <1>0, <1>7 DEF Hooks!StartJob, Hooks!MayStart, Hooks!PluginRuns, ScopeType
  <2>3. ScopeOK(t, o \in opened)
    BY <1>0, <2>2 DEF ScopeOK, ScopeType
  <2> QED
    BY <1>0, <1>7, <2>1, <2>2, <2>3, ScopeStep DEF Hooks!StartJob
<1> QED
  BY <1>1, <1>2, <1>3, <1>4, <1>5, <1>6, <1>7 DEF Hooks!Plugin

(* The close of a session closes each scope of it and takes its tools. *)
LEMMA StartCloseKeeps ==
    ASSUME HooksInv, SaneScopes, NEW o \in 1 .. MaxOpens, Hooks!StartClose(o),
           UNCHANGED <<last, scopeWorkload, run, offered, late>>
    PROVE  HooksInv'
<1>1. CASE o \notin opened
  BY <1>1 DEF Hooks!StartClose, HooksInv, HooksType, ScopesInv, ToolsInv, RunsInv, RunType, RunOK, Hooks!Ready,
              Hooks!Settled
<1>2. CASE o \in opened
  <2>1. /\ opened' = opened \ {o} /\ tools' = {s \in tools : s[1] # o}
        /\ scope' = [scope EXCEPT ![o] = [p \in Plugins |->
                        IF p \in scopeWorkload.plugins THEN [scope[o][p] EXCEPT !.closed = TRUE, !.end = "waits"]
                        ELSE scope[o][p]]]
    BY <1>2 DEF Hooks!StartClose, HooksInv, HooksType
  <2>2. \A o2 \in 1 .. MaxOpens, p \in Plugins :
          /\ scope[o2][p] \in ScopeType
          /\ scope'[o2][p] = IF o2 = o /\ p \in scopeWorkload.plugins
                             THEN [scope[o2][p] EXCEPT !.closed = TRUE, !.end = "waits"] ELSE scope[o2][p]
    BY <2>1 DEF HooksInv, HooksType
  <2>3. \A o2 \in 1 .. MaxOpens, p \in Plugins :
          /\ scope'[o2][p] \in ScopeType /\ scope'[o2][p].setup = scope[o2][p].setup
          /\ o2 # o => scope'[o2][p] = scope[o2][p]
    <3> SUFFICES ASSUME NEW o2 \in 1 .. MaxOpens, NEW p \in Plugins
                 PROVE  /\ scope'[o2][p] \in ScopeType /\ scope'[o2][p].setup = scope[o2][p].setup
                        /\ o2 # o => scope'[o2][p] = scope[o2][p]
      OBVIOUS
    <3>1. scope[o2][p] \in ScopeType /\ [scope[o2][p] EXCEPT !.closed = TRUE, !.end = "waits"] \in ScopeType
      BY <2>2, ScopeFields
    <3>2. [scope[o2][p] EXCEPT !.closed = TRUE, !.end = "waits"].setup = scope[o2][p].setup
      BY <3>1 DEF ScopeType
    <3> QED
      BY <2>2, <3>1, <3>2
  <2>4. HooksType'
    BY <2>1, <2>3 DEF HooksInv, HooksType, RunType
  <2>5. ScopesInv'
    <3> SUFFICES ASSUME NEW o2 \in 1 .. MaxOpens, NEW p \in Plugins
                 PROVE  /\ ScopeOK(scope'[o2][p], o2 \in opened')
                        /\ scope'[o2][p].setup # "none" <=> o2 <= last /\ p \in scopeWorkload.plugins
      BY DEF ScopesInv
    <3>1. /\ ScopeOK(scope[o2][p], o2 \in opened)
          /\ scope[o2][p].setup # "none" <=> o2 <= last /\ p \in scopeWorkload.plugins
      BY DEF HooksInv, ScopesInv
    <3>2. CASE o2 # o
      BY <2>1, <2>3, <3>1, <3>2 DEF ScopeOK
    <3>3. CASE o2 = o
      <4>1. o <= last /\ o \notin opened'
        <5>1. opened' = opened \ {o} /\ opened \subseteq 1 .. last /\ last \in Nat
          <6>1. last \in 0 .. MaxOpens /\ MaxOpens \in Nat /\ opened \subseteq 1 .. last
            BY DEF HooksInv, HooksType, SaneScopes
          <6>2. opened' = opened \ {o}
            BY <2>1
          <6>3. last \in Nat
            BY <6>1
          <6> QED
            BY <6>1, <6>2, <6>3
        <5> QED
          BY <1>2, <5>1
      <4>2. scope'[o2][p] = IF p \in scopeWorkload.plugins
                            THEN [scope[o2][p] EXCEPT !.closed = TRUE, !.end = "waits"] ELSE scope[o2][p]
        BY <2>2, <3>3
      <4> QED
        <5>1. CASE p \in scopeWorkload.plugins
          <6>1. scope'[o][p] = [scope[o][p] EXCEPT !.closed = TRUE, !.end = "waits"] /\ scope[o][p] \in ScopeType
            BY <2>2, <4>2, <5>1
          <6>2. /\ scope'[o][p].closed /\ scope'[o][p].end = "waits" /\ scope'[o][p].setup = scope[o][p].setup
                /\ scope'[o][p].cleanup = scope[o][p].cleanup
            BY <6>1 DEF ScopeType
          <6> QED
            BY <1>2, <3>1, <3>3, <4>1, <5>1, <6>2 DEF ScopeOK
        <5>2. CASE p \notin scopeWorkload.plugins
          BY <3>1, <3>3, <4>1, <4>2, <5>2 DEF ScopeOK, Hooks!NoScope
        <5> QED
          BY <5>1, <5>2
    <3> QED
      BY <3>2, <3>3
  <2>6. ToolsInv'
    <3>1. ASSUME NEW s \in tools'
          PROVE  s[1] \in opened' /\ ~scope'[s[1]][s[2]].closed /\ scope'[s[1]][s[2]].setup # "none"
      <4>1. s \in tools /\ s[1] # o
        BY <2>1, <3>1
      <4>2. s[1] \in 1 .. MaxOpens /\ s[2] \in Plugins
        BY <4>1 DEF HooksInv, HooksType
      <4>3. s[1] \in opened /\ ~scope[s[1]][s[2]].closed /\ scope[s[1]][s[2]].setup # "none"
        BY <4>1 DEF HooksInv, ToolsInv
      <4> QED
        BY <2>1, <2>3, <4>1, <4>2, <4>3
    <3>2. ASSUME NEW s \in offered' PROVE scope'[s[1]][s[2]].setup = "returned"
      <4>1. s[1] \in 1 .. MaxOpens /\ s[2] \in Plugins
        BY <3>2 DEF HooksInv, HooksType
      <4>2. scope[s[1]][s[2]].setup = "returned"
        BY <3>2 DEF HooksInv, ToolsInv
      <4> QED
        BY <2>3, <4>1, <4>2
    <3> QED
      BY <3>1, <3>2 DEF ToolsInv
  <2>7. scopeWorkload.plugins \subseteq Plugins
    BY DEF SaneScopes, HooksInv, HooksType
  <2>8. RunsInv'
    <3>1. last' = last /\ last \in 0 .. MaxOpens
      BY DEF HooksInv, HooksType
    <3>2. \A o2 \in 1 .. last, p \in Plugins : scope'[o2][p].setup = scope[o2][p].setup
      <4>1. MaxOpens \in Nat
        BY DEF SaneScopes
      <4>2. \A o2 \in 1 .. last : o2 \in 1 .. MaxOpens
        BY <3>1, <4>1
      <4> QED
        BY <2>3, <4>2
    <3>3. /\ UNCHANGED <<run, late, scopeWorkload>> /\ last <= last'
          /\ \A o2 \in 1 .. last, p \in Plugins :
                /\ scope[o2][p].setup # "none" => scope'[o2][p].setup # "none"
                /\ scope[o2][p].setup \in {"returned", "failed"} => scope'[o2][p].setup = scope[o2][p].setup
      BY <3>1, <3>2
    <3> QED
      BY <2>4, <2>7, <3>3, RunsStay
  <2> QED
    BY <2>4, <2>5, <2>6, <2>8 DEF HooksInv
<1> QED
  BY <1>1, <1>2

(* The open starts the setups of a new number. *)
LEMMA OpenKeeps ==
    ASSUME HooksInv, SaneScopes, Hooks!Open
    PROVE  HooksInv'
<1> DEFINE s(p) == IF p \in scopeWorkload.plugins THEN [Hooks!NoScope EXCEPT !.setup = "runs"] ELSE Hooks!NoScope
<1>1. /\ last \in Nat /\ last' = last + 1 /\ last' \in 1 .. MaxOpens /\ opened' = opened \cup {last'}
      /\ scope' = [scope EXCEPT ![last'] = [p \in Plugins |-> s(p)]]
      /\ UNCHANGED <<scopeWorkload, tools, run, offered, late>>
  BY DEF Hooks!Open, SaneScopes, HooksInv, HooksType
<1>2. \A p \in Plugins : s(p) \in ScopeType
  BY DEF Hooks!NoScope, ScopeType
<1>3. \A o \in 1 .. MaxOpens, p \in Plugins : scope'[o][p] = IF o = last' THEN s(p) ELSE scope[o][p]
  BY <1>1 DEF HooksInv, HooksType
<1>4. HooksType'
  <2>1. scope' \in [1 .. MaxOpens -> [Plugins -> ScopeType]]
    BY <1>1, <1>2 DEF HooksInv, HooksType
  <2>2. opened' \subseteq 1 .. last' /\ last' \in 0 .. MaxOpens
    BY <1>1 DEF HooksInv, HooksType, SaneScopes
  <2> QED
    BY <1>1, <2>1, <2>2 DEF HooksInv, HooksType, RunType
<1>5. ScopesInv'
  <2> SUFFICES ASSUME NEW o \in 1 .. MaxOpens, NEW p \in Plugins
               PROVE  /\ ScopeOK(scope'[o][p], o \in opened')
                      /\ scope'[o][p].setup # "none" <=> o <= last' /\ p \in scopeWorkload'.plugins
    BY DEF ScopesInv
  <2>1. CASE o = last'
    BY <1>1, <1>3, <2>1 DEF ScopeOK, Hooks!NoScope
  <2>2. CASE o # last'
    BY <1>1, <1>3, <2>2 DEF HooksInv, ScopesInv
  <2> QED
    BY <2>1, <2>2
<1>6. ToolsInv'
  <2>1. \A t \in tools \cup offered : t[1] \in 1 .. MaxOpens /\ t[2] \in Plugins
    BY DEF HooksInv, HooksType
  <2>2. \A t \in tools : scope'[t[1]][t[2]] = scope[t[1]][t[2]]
    BY <1>1, <1>3, <2>1 DEF HooksInv, HooksType, ToolsInv
  <2>3. \A t \in offered : t[1] # last'
    BY <1>1, <2>1 DEF HooksInv, ToolsInv, ScopesInv
  <2>4. \A t \in offered : scope'[t[1]][t[2]] = scope[t[1]][t[2]]
    BY <1>3, <2>1, <2>3
  <2> QED
    BY <1>1, <2>2, <2>4 DEF HooksInv, ToolsInv
<1>7. RunsInv'
  <2>1. scopeWorkload.plugins \subseteq Plugins
    BY DEF SaneScopes, HooksInv, HooksType
  <2>2. \A o \in 1 .. last, p \in Plugins : scope'[o][p] = scope[o][p]
    BY <1>1, <1>3 DEF HooksInv, HooksType
  <2> QED
    BY <1>1, <1>4, <2>1, <2>2, RunsStay
<1> QED
  BY <1>4, <1>5, <1>6, <1>7 DEF HooksInv

(* The calls of the host that change no scope. *)
LEMMA HostKeeps ==
    ASSUME HooksInv, SaneScopes, NEW o \in 1 .. MaxOpens,
           Hooks!Tools(o) \/ Hooks!Close(o) \/ Hooks!Drop(o) \/ Hooks!CloseDropped(o)
    PROVE  HooksInv'
<1>1. CASE Hooks!Close(o) \/ Hooks!CloseDropped(o)
  BY <1>1, StartCloseKeeps DEF Hooks!Close, Hooks!CloseDropped
<1>2. CASE Hooks!Tools(o) \/ Hooks!Drop(o)
  <2>1. /\ UNCHANGED <<opened, last, scopeWorkload, scope, tools, run, late>>
        /\ offered' = offered \/ (Hooks!Tools(o) /\ offered' = offered \cup {s \in tools : s[1] = o /\ o \in opened})
    BY <1>2 DEF Hooks!Tools, Hooks!Drop, Hooks!engine
  <2>2. HooksType' /\ ScopesInv'
    BY <2>1 DEF HooksInv, HooksType, ScopesInv, ScopeOK, RunType
  <2>3. RunsInv'
    BY <2>1 DEF HooksInv, RunsInv, RunOK, Hooks!Ready, Hooks!Settled
  <2>4. ASSUME NEW s \in tools, s[1] = o, Hooks!Tools(o)
        PROVE  scope[s[1]][s[2]].setup = "returned"
    <3>1. /\ s[1] \in 1 .. MaxOpens /\ s[2] \in Plugins
          /\ ~scope[s[1]][s[2]].closed /\ scope[s[1]][s[2]].setup # "none"
      BY DEF HooksInv, HooksType, ToolsInv
    <3>2. ScopeOK(scope[s[1]][s[2]], s[1] \in opened) /\ s[2] \in scopeWorkload.plugins
      BY <3>1 DEF HooksInv, ScopesInv
    <3>3. Hooks!Settled(s[1], s[2])
      BY <2>4, <3>2 DEF Hooks!Tools, Hooks!Ready
    <3> QED
      BY <3>1, <3>2, <3>3 DEF ScopeOK, Hooks!Settled
  <2>5. ToolsInv'
    BY <2>1, <2>4 DEF HooksInv, ToolsInv
  <2> QED
    BY <2>2, <2>3, <2>5 DEF HooksInv
<1> QED
  BY <1>1, <1>2

(* A run goes on: the other runs and the scopes stay. *)
LEMMA RunStep ==
    ASSUME HooksInv, NEW r \in HookRuns, NEW q \in RunType, run' = [run EXCEPT ![r] = q],
           RunOK(q), ~late', UNCHANGED <<Hooks!engine, scope, tools, aborting, offered>>
    PROVE  HooksInv'
<1>1. \A r2 \in HookRuns : run'[r2] = IF r2 = r THEN q ELSE run[r2]
  BY DEF HooksInv, HooksType
<1>2. HooksType'
  <2>1. \A r2 \in HookRuns : run'[r2].kind # "none" => run'[r2] \in RunType'
    BY <1>1 DEF HooksInv, HooksType, RunType, Hooks!engine
  <2>2. run' = [r2 \in HookRuns |-> run'[r2]]
    BY DEF HooksInv, HooksType
  <2> QED
    BY <2>1, <2>2 DEF HooksInv, HooksType, Hooks!engine
<1>3. ScopesInv' /\ ToolsInv'
  BY DEF HooksInv, ScopesInv, ScopeOK, ToolsInv, Hooks!engine
<1>4. \A x \in HookRuns : run'[x].kind # "none" => RunOK(run'[x])
  BY <1>1 DEF HooksInv, RunsInv
<1>5. RunsInv'
  BY <1>4 DEF RunsInv, RunOK, Hooks!Ready, Hooks!Settled, Hooks!engine
<1> QED
  BY <1>2, <1>3, <1>5 DEF HooksInv

(* A run starts, copies its handlers and calls the next one of an open scope. *)
LEMMA RunKeeps ==
    ASSUME HooksInv, SaneScopes, NEW r \in HookRuns, Hooks!CopyLists(r) \/ Hooks!Calls(r)
    PROVE  HooksInv'
<1> DEFINE q == run[r]
           o == run[r].open
<1>1. q \in RunType /\ RunOK(q) /\ o \in 1 .. last /\ o \in 1 .. MaxOpens /\ run = [x \in HookRuns |-> run[x]]
  <2>1. q \in RunType /\ RunOK(q) /\ run = [x \in HookRuns |-> run[x]]
    BY DEF HooksInv, HooksType, RunsInv, Hooks!CopyLists, Hooks!Calls, Hooks!At
  <2> QED
    BY <2>1 DEF RunType, RunOK, HooksInv, HooksType, SaneScopes
<1>2. CASE Hooks!CopyLists(r)
  <2> DEFINE t == [q EXCEPT !.pc = "runs", !.left = [p \in Plugins |-> scope[o][p].hooks]]
  <2>1. run' = [run EXCEPT ![r] = t] /\ Hooks!Ready(o)
    BY <1>1, <1>2 DEF Hooks!CopyLists, Hooks!MayCopy
  <2>2. \A p \in Plugins : scope[o][p].hooks \in Nat /\ ScopeOK(scope[o][p], o \in opened)
    BY <1>1 DEF HooksInv, HooksType, ScopesInv, ScopeType
  <2>3. t \in RunType /\ t.open = o /\ t.pc = "runs" /\ \A p \in Plugins : t.left[p] = scope[o][p].hooks
    BY <1>1, <2>2 DEF RunType
  <2>4. \A p \in Plugins : scope[o][p].hooks > 0 => scope[o][p].setup # "none"
    BY <2>2 DEF ScopeOK, Hooks!NoScope
  <2>5. RunOK(t)
    BY <1>1, <2>1, <2>3, <2>4 DEF RunOK
  <2> QED
    BY <1>2, <2>1, <2>3, <2>5, RunStep DEF Hooks!CopyLists, HooksInv, RunsInv
<1>3. CASE Hooks!Calls(r)
  <2> DEFINE open == {p \in Plugins : q.left[p] > 0 /\ ~scope[o][p].closed}
  <2>1. q.pc = "runs" /\ Hooks!Ready(o)
    BY <1>1, <1>3 DEF Hooks!Calls, Hooks!At, RunOK
  <2>2. CASE run' = [run EXCEPT ![r].pc = "done", ![r].left = Hooks!NoHandlers] /\ UNCHANGED late
    <3> DEFINE t == [q EXCEPT !.pc = "done", !.left = Hooks!NoHandlers]
    <3>1. run' = [run EXCEPT ![r] = t]
      BY <1>1, <2>2
    <3>2. t \in RunType /\ RunOK(t)
      BY <1>1 DEF RunType, RunOK, Hooks!NoHandlers
    <3> QED
      BY <1>3, <2>2, <3>1, <3>2, RunStep DEF Hooks!Calls, HooksInv, RunsInv
  <2>3. ASSUME NEW p \in open,
               run' = [run EXCEPT ![r].pc = "calls", ![r].now = p, ![r].left[p] = @ - 1],
               late' = (late \/ o \notin opened \/ ~Hooks!Ready(o))
        PROVE  HooksInv'
    <3> DEFINE t == [q EXCEPT !.pc = "calls", !.now = p, !.left = [q.left EXCEPT ![p] = q.left[p] - 1]]
    <3>1. run' = [run EXCEPT ![r] = t]
      BY <1>1, <2>3 DEF RunType
    <3>2. q.left \in [Plugins -> Nat] /\ q.left[p] > 0 /\ [q.left EXCEPT ![p] = q.left[p] - 1] \in [Plugins -> Nat]
      BY <1>1, <2>3 DEF RunType
    <3>3. t \in RunType /\ t.open = o /\ t.pc = "calls" /\ t.now = p
      BY <1>1, <2>3, <3>2 DEF RunType, SaneScopes
    <3>4. \A x \in Plugins : t.left[x] > 0 => q.left[x] > 0
      BY <1>1, <3>2 DEF RunType
    <3>5. RunOK(t)
      BY <1>1, <2>1, <2>3, <3>3, <3>4 DEF RunOK
    <3>6. o \in opened
      <4>1. ScopeOK(scope[o][p], o \in opened) /\ scope[o][p].setup # "none" /\ ~scope[o][p].closed
        BY <1>1, <2>1, <2>3, <3>2 DEF HooksInv, ScopesInv, RunOK
      <4> QED
        BY <4>1 DEF ScopeOK
    <3> QED
      BY <1>3, <2>1, <2>3, <3>1, <3>3, <3>5, <3>6, RunStep DEF Hooks!Calls, HooksInv, RunsInv
  <2> QED
    BY <1>3, <2>2, <2>3 DEF Hooks!Calls
<1> QED
  BY <1>2, <1>3
-----------------------------------------------------------------------------
(* The end of a sequence, element by element. *)
LEMMA LastOfIs ==
    ASSUME NEW seq \in Seq(Nat), NEW n \in 0 .. Len(seq)
    PROVE  /\ Hooks!LastOf(seq, n) \in Seq(Nat) /\ Len(Hooks!LastOf(seq, n)) = n
           /\ \A i \in 1 .. n : Hooks!LastOf(seq, n)[i] = seq[Len(seq) - n + i]
<1>1. Len(seq) \in Nat /\ \A i \in 1 .. Len(seq) : seq[i] \in Nat
  BY LenProperties
<1> DEFINE m == Len(seq) - n + 1
<1>2. m \in Int /\ \A i \in m .. Len(seq) : seq[i] \in Nat
  BY <1>1
<1>3. /\ SubSeq(seq, m, Len(seq)) \in Seq(Nat)
      /\ Len(SubSeq(seq, m, Len(seq))) = IF m <= Len(seq) THEN Len(seq) - m + 1 ELSE 0
      /\ \A i \in 1 .. Len(seq) - m + 1 : SubSeq(seq, m, Len(seq))[i] = seq[m + i - 1]
  BY <1>1, <1>2, SubSeqProperties
<1>4. Len(seq) - m + 1 = n /\ (m <= Len(seq) <=> n > 0) /\ \A i \in 1 .. n : m + i - 1 = Len(seq) - n + i
  BY <1>1
<1> QED
  BY <1>1, <1>3, <1>4 DEF Hooks!LastOf

(* The end of two sequences, where the second one is itself an end. *)
LEMMA LastOfBoth ==
    ASSUME NEW head \in Seq(Nat), NEW base \in Seq(Nat), NEW kept \in 0 .. Len(base),
           NEW keeps \in 0 .. Len(head) + kept
    PROVE  Hooks!LastOf(head \o Hooks!LastOf(base, kept), keeps) =
             IF keeps <= kept THEN Hooks!LastOf(base, keeps)
             ELSE Hooks!LastOf(head, keeps - kept) \o Hooks!LastOf(base, kept)
<1> DEFINE end == Hooks!LastOf(base, kept)
<1>1. /\ end \in Seq(Nat) /\ Len(end) = kept /\ Len(base) \in Nat /\ Len(head) \in Nat
      /\ \A i \in 1 .. kept : end[i] = base[Len(base) - kept + i]
  BY LastOfIs, LenProperties
<1> HIDE DEF end
<1> DEFINE both == head \o end
<1>2. /\ both \in Seq(Nat) /\ Len(both) = Len(head) + kept
      /\ \A i \in 1 .. Len(head) + kept : both[i] = IF i <= Len(head) THEN head[i] ELSE end[i - Len(head)]
  <2>1. end \in Seq(Nat) /\ Len(end) = kept
    BY <1>1
  <2> QED
    BY <2>1, ConcatProperties
<1> HIDE DEF both
<1> DEFINE left == Hooks!LastOf(both, keeps)
<1>3. /\ left \in Seq(Nat) /\ Len(left) = keeps
      /\ \A i \in 1 .. keeps : left[i] = both[Len(head) + kept - keeps + i]
  <2>1. both \in Seq(Nat) /\ Len(both) = Len(head) + kept
    BY <1>2
  <2>2. keeps \in 0 .. Len(both)
    BY <2>1
  <2>3. /\ left \in Seq(Nat) /\ Len(left) = keeps
        /\ \A i \in 1 .. keeps : left[i] = both[Len(both) - keeps + i]
    BY <2>1, <2>2, LastOfIs
  <2> QED
    BY <2>1, <2>3
<1> HIDE DEF left
<1>4. CASE keeps <= kept
  <2> DEFINE right == Hooks!LastOf(base, keeps)
  <2>1. /\ right \in Seq(Nat) /\ Len(right) = keeps
        /\ \A i \in 1 .. keeps : right[i] = base[Len(base) - keeps + i]
    <3>1. keeps \in 0 .. Len(base)
      BY <1>1, <1>4
    <3> QED
      BY <3>1, LastOfIs
  <2> HIDE DEF right
  <2>2. ASSUME NEW i \in 1 .. keeps PROVE left[i] = right[i]
    <3> DEFINE x == Len(head) + kept - keeps + i
    <3>1. left[i] = both[x]
      BY <1>3
    <3>2. x \in 1 .. Len(head) + kept /\ ~(x <= Len(head)) /\ x - Len(head) = kept - keeps + i
      BY <1>1, <1>4
    <3> HIDE DEF x
    <3>3. left[i] = end[kept - keeps + i]
      BY <1>2, <3>1, <3>2
    <3>4. kept - keeps + i \in 1 .. kept /\ Len(base) - kept + (kept - keeps + i) = Len(base) - keeps + i
      BY <1>1, <1>4
    <3>5. end[kept - keeps + i] = base[Len(base) - keeps + i]
      BY <1>1, <3>4
    <3> QED
      BY <2>1, <3>3, <3>5
  <2>3. left = right
    BY <1>3, <2>1, <2>2, SeqEqual
  <2> QED
    BY <1>4, <2>3 DEF left, right, both, end
<1>5. CASE keeps > kept
  <2> DEFINE first == Hooks!LastOf(head, keeps - kept)
  <2>1. /\ first \in Seq(Nat) /\ Len(first) = keeps - kept /\ keeps - kept \in Nat
        /\ \A i \in 1 .. keeps - kept : first[i] = head[Len(head) - (keeps - kept) + i]
    <3>1. keeps - kept \in 0 .. Len(head) /\ keeps - kept \in Nat
      BY <1>1, <1>5
    <3> QED
      BY <3>1, LastOfIs
  <2> HIDE DEF first
  <2> DEFINE right == first \o end
  <2>2. /\ right \in Seq(Nat) /\ Len(right) = keeps
        /\ \A i \in 1 .. keeps : right[i] = IF i <= keeps - kept THEN first[i] ELSE end[i - (keeps - kept)]
    <3>1. Len(first) + Len(end) = keeps /\ Len(first) = keeps - kept
      BY <1>1, <2>1
    <3>2. first \in Seq(Nat) /\ end \in Seq(Nat)
      BY <1>1, <2>1
    <3>3. /\ right \in Seq(Nat) /\ Len(right) = Len(first) + Len(end)
          /\ \A i \in 1 .. Len(first) + Len(end) : right[i] = IF i <= Len(first) THEN first[i] ELSE end[i - Len(first)]
      BY <3>2, ConcatProperties
    <3> QED
      BY <3>1, <3>3
  <2> HIDE DEF right
  <2>3. ASSUME NEW i \in 1 .. keeps PROVE left[i] = right[i]
    <3> DEFINE x == Len(head) + kept - keeps + i
    <3>1. left[i] = both[x]
      BY <1>3
    <3>2. /\ x \in 1 .. Len(head) + kept
          /\ x <= Len(head) <=> i <= keeps - kept
          /\ x = Len(head) - (keeps - kept) + i /\ x - Len(head) = i - (keeps - kept)
      BY <1>1, <1>5
    <3> HIDE DEF x
    <3>3. CASE i <= keeps - kept
      <4>1. left[i] = head[x]
        BY <1>2, <3>1, <3>2, <3>3
      <4>2. i \in 1 .. keeps - kept
        BY <1>1, <1>5, <3>3
      <4>3. first[i] = head[x]
        BY <2>1, <3>2, <4>2
      <4> QED
        BY <2>2, <3>3, <4>1, <4>3
    <3>4. CASE ~(i <= keeps - kept)
      BY <1>2, <2>2, <3>1, <3>2, <3>4
    <3> QED
      BY <3>3, <3>4
  <2>4. left = right
    BY <1>3, <2>2, <2>3, SeqEqual
  <2>5. ~(keeps <= kept)
    BY <1>1, <1>5
  <2> QED
    BY <2>4, <2>5 DEF left, right, first, both, end
<1> QED
  BY <1>1, <1>4, <1>5

(* The blocks before a plan. *)
LEMMA BeforeIs ==
    ASSUME HooksInv, SaneScopes
    PROVE  /\ scopeWorkload.blocks \in Nat /\ Hooks!Before \in Seq(Nat) /\ Len(Hooks!Before) = scopeWorkload.blocks
<1>1. scopeWorkload.blocks \in Nat
  BY DEF HooksInv, HooksType, SaneScopes
<1> QED
  BY <1>1 DEF Hooks!Before

(* A run starts with the context before it. *)
LEMMA StartRunKeeps ==
    ASSUME HooksInv, PlanInv, SaneScopes, NEW o \in 1 .. MaxOpens, NEW r \in HookRuns, Hooks!StartRun(o, r)
    PROVE  HooksInv' /\ PlanInv'
<1>1. PICK kind \in scopeWorkload.runs :
        run' = [run EXCEPT ![r] = [kind |-> kind, open |-> o, pc |-> IF o \in opened THEN "waits" ELSE "done",
                                   left |-> Hooks!NoHandlers, now |-> 0, head |-> <<>>, kept |-> scopeWorkload.blocks,
                                   answers |-> 0, truth |-> Hooks!Before]]
  BY DEF Hooks!StartRun
<1> DEFINE q == [kind |-> kind, open |-> o, pc |-> IF o \in opened THEN "waits" ELSE "done",
                 left |-> Hooks!NoHandlers, now |-> 0, head |-> <<>>, kept |-> scopeWorkload.blocks,
                 answers |-> 0, truth |-> Hooks!Before]
<1>2. <<>> \in Seq(Nat) /\ Hooks!NoHandlers \in [Plugins -> Nat]
  BY DEF Hooks!NoHandlers
<1>3. q \in RunType
  BY <1>2, BeforeIs DEF RunType
<1>4. RunOK(q)
  BY DEF RunOK, Hooks!StartRun
<1>5. PlanOK(q)
  <2>1. Hooks!LastOf(Hooks!Before, scopeWorkload.blocks) = Hooks!Before
    BY BeforeIs, SubSeqFull DEF Hooks!LastOf
  <2>2. <<>> \o Hooks!Before = Hooks!Before
    BY BeforeIs, ConcatEmptySeq
  <2> QED
    BY <2>1, <2>2, BeforeIs DEF PlanOK
<1>6. run' = [run EXCEPT ![r] = q]
  BY <1>1
<1> HIDE DEF q
<1>7. HooksInv'
  BY <1>3, <1>4, <1>6, RunStep DEF Hooks!StartRun, HooksInv, RunsInv
<1>8. PlanInv'
  BY <1>5, <1>6 DEF PlanInv, PlanOK, Hooks!StartRun, Hooks!engine, Hooks!Before, HooksInv, HooksType
<1> QED
  BY <1>7, <1>8

(* An answer that replaces the context joins its blocks and the end of the context before it. *)
LEMMA ReplacesKeeps ==
    ASSUME HooksInv, PlanInv, SaneScopes, NEW r \in HookRuns, run[r].kind # "none",
           NEW given \in Seq(Nat), NEW keep \in Nat, Hooks!Replaces(r, given, keep)
    PROVE  \E q \in RunType : run' = [run EXCEPT ![r] = q] /\ q.open = run[r].open /\ q.pc = "runs"
                              /\ q.left = run[r].left /\ PlanOK(q)
<1> DEFINE plan == run[r]
           keeps == Hooks!AtMost(keep, Len(plan.head) + plan.kept)
           head == Hooks!HeadAfter(plan.head, plan.kept, given, keeps)
           kept == Hooks!AtMost(plan.kept, keeps)
           truth == given \o Hooks!LastOf(plan.truth, Hooks!AtMost(keep, Len(plan.truth)))
           q == [plan EXCEPT !.pc = "runs", !.answers = plan.answers + 1, !.head = head, !.kept = kept, !.truth = truth]
<1>1. plan \in RunType /\ PlanOK(plan)
  BY DEF HooksInv, HooksType, PlanInv
<1>2. /\ plan.head \in Seq(Nat) /\ plan.kept \in 0 .. Len(Hooks!Before) /\ plan.truth \in Seq(Nat)
      /\ Hooks!Before \in Seq(Nat)
      /\ plan.truth = plan.head \o Hooks!LastOf(Hooks!Before, plan.kept)
  <2>1. plan.head \in Seq(Nat) /\ plan.kept \in Nat /\ plan.truth \in Seq(Nat)
    BY <1>1 DEF RunType
  <2> QED
    BY <1>1, <2>1, BeforeIs DEF PlanOK
<1>3. Len(plan.head) \in Nat /\ plan.kept \in Nat
  BY <1>2, LenProperties
<1>4. /\ Hooks!LastOf(Hooks!Before, plan.kept) \in Seq(Nat) /\ Len(plan.truth) = Len(plan.head) + plan.kept
  <2>1. Hooks!LastOf(Hooks!Before, plan.kept) \in Seq(Nat) /\ Len(Hooks!LastOf(Hooks!Before, plan.kept)) = plan.kept
    BY <1>2, LastOfIs
  <2>2. Len(plan.head \o Hooks!LastOf(Hooks!Before, plan.kept)) =
          Len(plan.head) + Len(Hooks!LastOf(Hooks!Before, plan.kept))
    BY <1>2, <2>1, ConcatProperties
  <2> QED
    BY <1>2, <2>1, <2>2
<1>5. keeps \in 0 .. Len(plan.head) + plan.kept
  BY <1>3 DEF Hooks!AtMost
<1>6. truth = given \o (IF keeps <= plan.kept THEN Hooks!LastOf(Hooks!Before, keeps)
                        ELSE Hooks!LastOf(plan.head, keeps - plan.kept) \o Hooks!LastOf(Hooks!Before, plan.kept))
  <2>1. Hooks!AtMost(keep, Len(plan.truth)) = keeps
    BY <1>4
  <2>2. Hooks!LastOf(plan.truth, keeps) =
          Hooks!LastOf(plan.head \o Hooks!LastOf(Hooks!Before, plan.kept), keeps)
    BY <1>2
  <2> HIDE DEF keeps
  <2>3. Hooks!LastOf(plan.head \o Hooks!LastOf(Hooks!Before, plan.kept), keeps) =
          IF keeps <= plan.kept THEN Hooks!LastOf(Hooks!Before, keeps)
          ELSE Hooks!LastOf(plan.head, keeps - plan.kept) \o Hooks!LastOf(Hooks!Before, plan.kept)
    BY <1>2, <1>5, LastOfBoth
  <2> QED
    BY <2>1, <2>2, <2>3
<1>7. head \in Seq(Nat) /\ kept \in Nat /\ kept <= plan.kept /\ truth = head \o Hooks!LastOf(Hooks!Before, kept)
  <2>1. CASE keeps <= plan.kept
    <3>1. head = given /\ kept = keeps
      BY <1>3, <1>5, <2>1 DEF Hooks!HeadAfter, Hooks!AtMost
    <3> QED
      BY <1>3, <1>5, <1>6, <2>1, <3>1
  <2>2. CASE ~(keeps <= plan.kept)
    <3>1. head = given \o Hooks!LastOf(plan.head, keeps - plan.kept) /\ kept = plan.kept
      BY <1>3, <1>5, <2>2 DEF Hooks!HeadAfter, Hooks!AtMost
    <3>2. Hooks!LastOf(plan.head, keeps - plan.kept) \in Seq(Nat)
      <4>1. keeps - plan.kept \in 0 .. Len(plan.head)
        BY <1>3, <1>5, <2>2
      <4> QED
        BY <1>2, <4>1, LastOfIs
    <3> DEFINE first == Hooks!LastOf(plan.head, keeps - plan.kept)
               end == Hooks!LastOf(Hooks!Before, plan.kept)
    <3>3. truth = given \o (first \o end) /\ head = given \o first /\ first \in Seq(Nat) /\ end \in Seq(Nat)
      BY <1>4, <1>6, <2>2, <3>1, <3>2
    <3> HIDE DEF first, end, truth, head
    <3>4. (given \o first) \o end = given \o (first \o end) /\ given \o first \in Seq(Nat)
      <4>1. given \in Seq(Nat) /\ first \in Seq(Nat) /\ end \in Seq(Nat)
        BY <3>3
      <4>2. (given \o first) \o end = given \o (first \o end)
        BY <4>1, ConcatAssociative
      <4>3. given \o first \in Seq(Nat)
        BY <4>1, ConcatProperties
      <4> QED
        BY <4>2, <4>3
    <3>5. truth = head \o end /\ head \in Seq(Nat)
      BY <3>3, <3>4
    <3>6. kept = plan.kept
      BY <3>1
    <3> HIDE DEF kept
    <3>7. end = Hooks!LastOf(Hooks!Before, kept)
      BY <3>6 DEF end
    <3>8. kept \in Nat /\ kept <= plan.kept
      BY <1>3, <3>6
    <3> QED
      BY <3>5, <3>7, <3>8
  <2> QED
    BY <2>1, <2>2
<1>8. truth \in Seq(Nat)
  <2>1. Hooks!AtMost(keep, Len(plan.truth)) \in 0 .. Len(plan.truth)
    BY <1>3, <1>4 DEF Hooks!AtMost
  <2> QED
    BY <1>2, <2>1, LastOfIs, ConcatProperties
<1>9. run' = [run EXCEPT ![r] = q]
  BY DEF Hooks!Replaces, HooksInv, HooksType
<1> HIDE DEF keeps, head, kept, truth
<1>10. q \in RunType /\ q.open = plan.open /\ q.pc = "runs" /\ q.left = plan.left
       /\ q.head = head /\ q.kept = kept /\ q.truth = truth
  <2>1. plan.answers + 1 \in Nat
    BY <1>1 DEF RunType
  <2> QED
    BY <1>1, <1>7, <1>8, <2>1 DEF RunType
<1>11. PlanOK(q)
  BY <1>1, <1>2, <1>3, <1>7, <1>10, BeforeIs DEF PlanOK
<1> QED
  BY <1>9, <1>10, <1>11

(* A handler gives no answer, an answer or a failure. *)
LEMMA SettlesKeeps ==
    ASSUME HooksInv, PlanInv, SaneScopes, NEW r \in HookRuns, Hooks!Settles(r)
    PROVE  HooksInv' /\ PlanInv'
<1>1. run[r] \in RunType /\ RunOK(run[r]) /\ PlanOK(run[r]) /\ run[r].kind # "none" /\ run[r].pc = "calls"
  BY DEF HooksInv, HooksType, RunsInv, PlanInv, Hooks!Settles, Hooks!At
<1>2. \E q \in RunType : run' = [run EXCEPT ![r] = q] /\ q.open = run[r].open /\ q.pc \in {"runs", "done", "failed"}
                         /\ q.left = run[r].left /\ PlanOK(q)
  <2>1. ASSUME NEW pc \in {"runs", "done", "failed"}, run' = [run EXCEPT ![r].pc = pc]
        PROVE  \E q \in RunType : run' = [run EXCEPT ![r] = q] /\ q.open = run[r].open
                                  /\ q.pc \in {"runs", "done", "failed"} /\ q.left = run[r].left /\ PlanOK(q)
    <3> DEFINE q == [run[r] EXCEPT !.pc = pc]
    <3>1. run' = [run EXCEPT ![r] = q] /\ q \in RunType /\ q.open = run[r].open /\ q.pc = pc /\ q.left = run[r].left
      BY <1>1, <2>1 DEF RunType, HooksInv, HooksType
    <3>2. PlanOK(q)
      BY <1>1 DEF PlanOK, RunType
    <3> QED
      BY <3>1, <3>2
  <2>2. CASE run' = [run EXCEPT ![r].pc = "done", ![r].answers = 1]
    <3> DEFINE q == [run[r] EXCEPT !.pc = "done", !.answers = 1]
    <3>1. run' = [run EXCEPT ![r] = q] /\ q \in RunType /\ q.open = run[r].open /\ q.pc = "done" /\ q.left = run[r].left
      BY <1>1, <2>2 DEF RunType, HooksInv, HooksType
    <3>2. PlanOK(q)
      BY <1>1 DEF PlanOK, RunType
    <3> QED
      BY <3>1, <3>2
  <2>3. ASSUME NEW n \in scopeWorkload.heads, NEW keep \in 0 .. scopeWorkload.blocks + 2,
               Hooks!Replaces(r, Hooks!Given(r, n), keep)
        PROVE  \E q \in RunType : run' = [run EXCEPT ![r] = q] /\ q.open = run[r].open
                                  /\ q.pc \in {"runs", "done", "failed"} /\ q.left = run[r].left /\ PlanOK(q)
    <3>1. n \in Nat /\ keep \in Nat /\ run[r].answers \in Nat
      <4>1. n \in Nat /\ scopeWorkload.blocks \in Nat
        BY DEF HooksInv, HooksType, SaneScopes
      <4>2. run[r].answers \in Nat
        BY <1>1 DEF RunType
      <4> QED
        BY <4>1, <4>2
    <3>2. Hooks!Given(r, n) \in Seq(Nat)
      BY <3>1 DEF Hooks!Given
    <3> QED
      BY <1>1, <2>3, <3>1, <3>2, ReplacesKeeps
  <2> QED
    BY <2>1, <2>2, <2>3 DEF Hooks!Settles
<1>3. PICK q \in RunType : run' = [run EXCEPT ![r] = q] /\ q.open = run[r].open /\ q.pc \in {"runs", "done", "failed"}
                           /\ q.left = run[r].left /\ PlanOK(q)
  BY <1>2
<1>4. RunOK(q)
  BY <1>1, <1>3 DEF RunOK
<1>5. ~late'
  BY DEF Hooks!Settles, Hooks!Counts, HooksInv, RunsInv
<1>6. HooksInv'
  BY <1>3, <1>4, <1>5, RunStep DEF Hooks!Settles
<1>7. PlanInv'
  BY <1>3 DEF PlanInv, PlanOK, Hooks!Settles, Hooks!engine, Hooks!Before, HooksInv, HooksType
<1> QED
  BY <1>6, <1>7

(* A step of the scopes keeps the plans. *)
LEMMA PlansStay ==
    ASSUME PlanInv, UNCHANGED <<run, scopeWorkload>>
    PROVE  PlanInv'
  BY DEF PlanInv, PlanOK, Hooks!Before

(* A copy of the lists and a call of a handler keep the plans too. *)
LEMMA SamePlan ==
    ASSUME HooksInv, PlanInv, NEW r \in HookRuns, Hooks!CopyLists(r) \/ Hooks!Calls(r)
    PROVE  PlanInv'
<1>1. run = [x \in HookRuns |-> run[x]] /\ run[r].kind # "none" /\ run[r] \in RunType
  BY DEF HooksInv, HooksType, Hooks!CopyLists, Hooks!Calls, Hooks!At
<1>2. UNCHANGED scopeWorkload
  BY DEF Hooks!CopyLists, Hooks!Calls, Hooks!engine
<1> DEFINE q == run[r]
<1>3. \E t : /\ run' = [run EXCEPT ![r] = t] /\ t.kind = q.kind
            /\ t.kept = q.kept /\ t.head = q.head /\ t.truth = q.truth
  <2>1. CASE Hooks!CopyLists(r)
    <3> DEFINE left == [p \in Plugins |-> scope[run[r].open][p].hooks]
    <3>1. run' = [run EXCEPT ![r] = [q EXCEPT !.pc = "runs", !.left = left]]
      BY <1>1, <2>1 DEF Hooks!CopyLists
    <3> HIDE DEF left
    <3> DEFINE t == [q EXCEPT !.pc = "runs", !.left = left]
    <3>2. t.kind = q.kind /\ t.kept = q.kept /\ t.head = q.head /\ t.truth = q.truth
      BY <1>1 DEF RunType
    <3>3. run' = [run EXCEPT ![r] = t]
      BY <3>1
    <3> HIDE DEF t
    <3> QED
      BY <3>2, <3>3
  <2>2. CASE run' = [run EXCEPT ![r].pc = "done", ![r].left = Hooks!NoHandlers]
    <3>1. run' = [run EXCEPT ![r] = [q EXCEPT !.pc = "done", !.left = Hooks!NoHandlers]]
      BY <1>1, <2>2
    <3> DEFINE t == [q EXCEPT !.pc = "done", !.left = Hooks!NoHandlers]
    <3>2. t.kind = q.kind /\ t.kept = q.kept /\ t.head = q.head /\ t.truth = q.truth
      BY <1>1 DEF RunType
    <3>3. run' = [run EXCEPT ![r] = t]
      BY <3>1
    <3> HIDE DEF t
    <3> QED
      BY <3>2, <3>3
  <2>3. ASSUME NEW p \in Plugins, run' = [run EXCEPT ![r].pc = "calls", ![r].now = p, ![r].left[p] = @ - 1]
        PROVE  \E t : /\ run' = [run EXCEPT ![r] = t] /\ t.kind = q.kind
                     /\ t.kept = q.kept /\ t.head = q.head /\ t.truth = q.truth
    <3> DEFINE left == [q.left EXCEPT ![p] = q.left[p] - 1]
    <3>1. run' = [run EXCEPT ![r] = [q EXCEPT !.pc = "calls", !.now = p, !.left = left]]
      BY <1>1, <2>3 DEF RunType
    <3> HIDE DEF left
    <3> DEFINE t == [q EXCEPT !.pc = "calls", !.now = p, !.left = left]
    <3>2. t.kind = q.kind /\ t.kept = q.kept /\ t.head = q.head /\ t.truth = q.truth
      BY <1>1 DEF RunType
    <3>3. run' = [run EXCEPT ![r] = t]
      BY <3>1
    <3> HIDE DEF t
    <3> QED
      BY <3>2, <3>3
  <2> QED
    BY <2>1, <2>2, <2>3 DEF Hooks!Calls
<1>4. PICK t : /\ run' = [run EXCEPT ![r] = t] /\ t.kind = q.kind
               /\ t.kept = q.kept /\ t.head = q.head /\ t.truth = q.truth
  BY <1>3
<1>5. \A x \in HookRuns : run'[x] = IF x = r THEN t ELSE run[x]
  BY <1>1, <1>4
<1> QED
  BY <1>2, <1>4, <1>5 DEF PlanInv, PlanOK, Hooks!Before

(* An abort listener has run. *)
LEMMA AbortEndsKeeps ==
    ASSUME HooksInv, UNCHANGED <<opened, last, scopeWorkload, scope, tools, run, offered, late>>
    PROVE  HooksInv'
<1>1. HooksType' /\ ScopesInv' /\ ToolsInv'
  BY DEF HooksInv, HooksType, ScopesInv, ScopeOK, ToolsInv, RunType
<1>2. RunsInv'
  BY DEF HooksInv, RunsInv, RunOK, Hooks!Ready, Hooks!Settled
<1> QED
  BY <1>1, <1>2 DEF HooksInv

(* Each step keeps the scopes, the runs and the plans. *)
LEMMA HooksInvariant ==
    ASSUME SaneScopes
    PROVE  Hooks!Spec => [](HooksInv /\ PlanInv)
<1>1. Hooks!Init => HooksInv /\ PlanInv
  BY HooksInit
<1>2. HooksInv /\ PlanInv /\ [Hooks!Next]_Hooks!vars => (HooksInv /\ PlanInv)'
  <2> SUFFICES ASSUME HooksInv, PlanInv, [Hooks!Next]_Hooks!vars
               PROVE  HooksInv' /\ PlanInv'
    OBVIOUS
  <2>1. CASE Hooks!Open
    BY <2>1, OpenKeeps, PlansStay DEF Hooks!Open
  <2>2. CASE Hooks!AbortEnds
    BY <2>2, AbortEndsKeeps, PlansStay DEF Hooks!AbortEnds, Hooks!engine
  <2>3. ASSUME NEW o \in 1 .. MaxOpens, Hooks!Host(o) PROVE HooksInv' /\ PlanInv'
    <3>1. CASE Hooks!Tools(o) \/ Hooks!Close(o) \/ Hooks!Drop(o) \/ Hooks!CloseDropped(o)
      <4>1. UNCHANGED <<run, scopeWorkload>>
        BY <3>1 DEF Hooks!Tools, Hooks!Close, Hooks!Drop, Hooks!CloseDropped, Hooks!engine
      <4> QED
        BY <3>1, <4>1, HostKeeps, PlansStay
    <3>2. ASSUME NEW r \in HookRuns, Hooks!StartRun(o, r) PROVE HooksInv' /\ PlanInv'
      BY <3>2, StartRunKeeps
    <3> QED
      BY <2>3, <3>1, <3>2 DEF Hooks!Host
  <2>4. ASSUME NEW o \in 1 .. MaxOpens, NEW p \in Plugins, Hooks!Plugin(o, p) PROVE HooksInv' /\ PlanInv'
    <3>1. UNCHANGED <<run, scopeWorkload>>
      BY <2>4 DEF Hooks!Plugin, Hooks!SetupReturns, Hooks!SetupFails, Hooks!CloseGoesOn, Hooks!JobEnds,
                  Hooks!Define, Hooks!Undefine, Hooks!AddHook, Hooks!RemoveHook, Hooks!StartJob, Hooks!engine
    <3> QED
      BY <2>4, <3>1, PluginKeeps, PlansStay
  <2>5. ASSUME NEW r \in HookRuns, Hooks!CopyLists(r) \/ Hooks!Calls(r) PROVE HooksInv' /\ PlanInv'
    BY <2>5, RunKeeps, SamePlan
  <2>6. ASSUME NEW r \in HookRuns, Hooks!Settles(r) PROVE HooksInv' /\ PlanInv'
    BY <2>6, SettlesKeeps
  <2>7. CASE UNCHANGED Hooks!vars
    BY <2>7, AbortEndsKeeps, PlansStay DEF Hooks!vars, Hooks!engine
  <2> QED
    BY <2>1, <2>2, <2>3, <2>4, <2>5, <2>6, <2>7 DEF Hooks!Next, Hooks!Opens
<1> QED
  BY <1>1, <1>2, PTL DEF Hooks!Spec

\* Whatever the plugins of a session add, in whatever order its setups, failures, closes and
\* reopens come: a failed or closed scope keeps no tool, a turn gets the tools of the setups
\* that succeeded, no handler runs early or late, and a close that ended left nothing (hooks.ts:42, 513, 572, 782).
THEOREM ScopesTrueHolds ==
    ASSUME SaneScopes
    PROVE  Hooks!Spec => []Hooks!ScopesTrue
<1>1. HooksInv => Hooks!ScopesTrue
  <2> SUFFICES ASSUME HooksInv PROVE Hooks!ScopesTrue
    OBVIOUS
  <2>1. \A s \in tools : s[1] \in opened /\ ~scope[s[1]][s[2]].closed
    BY DEF HooksInv, ToolsInv
  <2>2. \A s \in offered : scope[s[1]][s[2]].setup = "returned"
    BY DEF HooksInv, ToolsInv
  <2>3. ~late
    BY DEF HooksInv, RunsInv
  <2>4. ASSUME NEW o \in opened, NEW p \in Plugins
        PROVE  scope[o][p].cleanup \in {"none", "given"} /\ scope[o][p].end = "open"
    <3>1. o \in 1 .. MaxOpens
      BY DEF HooksInv, HooksType, SaneScopes
    <3> QED
      BY <3>1 DEF HooksInv, ScopesInv, ScopeOK
  <2>5. ASSUME NEW o \in 1 .. MaxOpens, NEW p \in Plugins, scope[o][p].end = "done"
        PROVE  Hooks!Settled(o, p) /\ scope[o][p].cleanup # "given" /\ scope[o][p].jobs = {}
    <3>1. ScopeOK(scope[o][p], o \in opened) /\ scope[o][p] \in ScopeType
      BY DEF HooksInv, ScopesInv, HooksType
    <3> QED
      BY <2>5, <3>1 DEF ScopeOK, ScopeType, Hooks!Settled, Hooks!NoScope
  <2> QED
    BY <2>1, <2>2, <2>3, <2>4, <2>5 DEF Hooks!ScopesTrue, Hooks!Opens
<1> QED
  BY <1>1, HooksInvariant, PTL

\* After every answer of a handler the head and the kept blocks of a plan are its context,
\* however many blocks an answer gives or keeps (hooks.ts:376).
THEOREM PlanTrueHolds ==
    ASSUME SaneScopes
    PROVE  Hooks!Spec => []Hooks!PlanTrue
<1>1. PlanInv => Hooks!PlanTrue
  BY DEF PlanInv, PlanOK, Hooks!PlanTrue
<1> QED
  BY <1>1, HooksInvariant, PTL
-----------------------------------------------------------------------------
(***************************************************************************)
(* The facts of the open sessions                                          *)
(***************************************************************************)
CONSTANTS Sessions, Events, MaxAdds, MaxDepth, FactWorkloads
VARIABLES slot, live, ended, known, queue, key, lastKey, listeners, open, frames, heard, twice, adds, facts, factWorkload
Listen == INSTANCE Facts WITH Workloads <- FactWorkloads, workload <- factWorkload

\* The sessions are finitely many; a workload adds no more listeners than there are.
SaneFacts ==
    /\ IsFiniteSet(Sessions) /\ MaxAdds \in Nat
    /\ \A w \in FactWorkloads : w.adds \in 0 .. MaxAdds

Live == [running : BOOLEAN, asks : BOOLEAN]
Updates == [field : {"running", "asks"}, value : BOOLEAN]
Kinds3 == {"session.opened", "session.closed", "session.update"}
FactType == [key : Nat, event : Kinds3, session : Sessions, data : Live \cup Updates]
FrameType ==
    [kind : {"deliver"}, event : Kinds3, session : Sessions, left : SUBSET (1 .. MaxAdds)]
        \cup [kind : {"replay"}, id : 1 .. MaxAdds, done : SUBSET Sessions]
        \cup [kind : {"callback"}, id : 1 .. MaxAdds]
ListenType ==
    /\ slot \in [Sessions -> {"none", "open", "closing"}] /\ live \in [Sessions -> Live]
    /\ ended \subseteq Sessions /\ known \subseteq Sessions
    /\ queue \in Seq(FactType) /\ frames \in Seq(FrameType)
    /\ key \in Nat /\ lastKey \in Nat /\ adds \in 0 .. MaxAdds
    /\ listeners \subseteq [id : 1 .. MaxAdds, event : Events]
    /\ DOMAIN open \subseteq Sessions
    /\ heard \in [1 .. MaxAdds -> SUBSET Sessions]
    /\ factWorkload \in FactWorkloads

\* What a watch knows, and what it has no more after its end
WatchInv ==
    /\ \A s \in known : slot[s] # "none" /\ s \notin ended
    /\ key # 0 => Listen!Announced \subseteq known
    /\ key = 0 => known = {} /\ open = Listen!NoOpen
    /\ key = 0 <=> listeners = {}
    /\ key <= lastKey
    /\ \A i \in 1 .. Len(queue) : queue[i].key \in 1 .. lastKey

\* The sessions of the script after each fact of a queue, from those now to those at its end.
\* After the last fact that counts they are those of the end.
Trace(h, facts_left, watch, now, end) ==
    /\ h[0] = now /\ h[Len(facts_left)] = end
    /\ \A i \in 1 .. Len(facts_left) :
          /\ facts_left[i].key = watch =>
               /\ h[i] = Listen!Track(h[i - 1], facts_left[i])
               /\ facts_left[i].event = "session.opened" => facts_left[i].session \notin DOMAIN h[i - 1]
          /\ facts_left[i].key # watch => h[i] = h[i - 1]
    /\ \A i \in 0 .. Len(facts_left) :
          (\A j \in i + 1 .. Len(facts_left) : facts_left[j].key # watch) => h[i] = end
KnownNow == [s \in known |-> live[s]]
QueueInv == \E h : Trace(h, queue, key, open, KnownNow)

\* A frame of a delivery is the first one; a frame of a replay is the only one of its listener.
Replays(i, id) == frames[i].kind = "replay" /\ frames[i].id = id
Awaits(id) == frames # <<>> /\ frames[1].kind = "deliver" /\ id \in frames[1].left
FramesInv ==
    /\ \A i \in 1 .. Len(frames) : frames[i].kind = "deliver" => i = 1
    /\ \A id \in 1 .. MaxAdds : Awaits(id) => id <= adds
    /\ \A i \in 1 .. Len(frames), id \in 1 .. MaxAdds : Replays(i, id) =>
          /\ id <= adds /\ ~Awaits(id)
          /\ \A j \in 1 .. Len(frames) : Replays(j, id) => j = i
ListenersInv ==
    /\ \A l \in listeners : l.id <= adds
    /\ \A l, m \in listeners : l.id = m.id => l = m
    /\ \A l \in listeners : Awaits(l.id) => l.event = frames[1].event
    /\ \A l \in listeners, i \in 1 .. Len(frames) : Replays(i, l.id) => l.event = "session.opened"

\* What a listener of session.opened heard of: all but what its replay or the running delivery still brings
HeardOK(id) ==
    /\ \A i \in 1 .. Len(frames) : Replays(i, id) => heard[id] = frames[i].done /\ frames[i].done \subseteq DOMAIN open
    /\ (\A i \in 1 .. Len(frames) : ~Replays(i, id)) =>
          IF Awaits(id) THEN /\ frames[1].session \in DOMAIN open
                             /\ heard[id] = DOMAIN open \ {frames[1].session}
          ELSE heard[id] = DOMAIN open
HeardInv ==
    /\ ~twice
    /\ \A id \in 1 .. MaxAdds : id > adds => heard[id] = {}
    /\ \A l \in listeners : l.event = "session.opened" => HeardOK(l.id)

ListenInv == ListenType /\ WatchInv /\ QueueInv /\ FramesInv /\ ListenersInv /\ HeardInv
-----------------------------------------------------------------------------
(* A fact at the end of a queue. *)
LEMMA TraceAppend ==
    ASSUME NEW q \in Seq(FactType), NEW k \in Nat, NEW a, NEW b, NEW h, Trace(h, q, k, a, b),
           NEW f \in FactType, f.key = k, f.event = "session.opened" => f.session \notin DOMAIN b
    PROVE  \E g : Trace(g, Append(q, f), k, a, Listen!Track(b, f))
<1> DEFINE n == Len(q)
           g == [i \in 0 .. n + 1 |-> IF i <= n THEN h[i] ELSE Listen!Track(b, f)]
           p == Append(q, f)
<1>1. n \in Nat
  BY LenProperties
<1>2. Len(p) = n + 1 /\ p[n + 1] = f /\ \A i \in 1 .. n : p[i] = q[i]
  BY AppendProperties
<1> HIDE DEF p
<1>3. g[n + 1] = Listen!Track(b, f) /\ \A i \in 0 .. n : g[i] = h[i]
  BY <1>1
<1>4. 0 \in 0 .. n /\ n \in 0 .. n /\ \A i \in 1 .. n : i \in 0 .. n /\ i - 1 \in 0 .. n
  BY <1>1
<1> HIDE DEF g
<1>5. g[0] = a /\ g[n] = b
  BY <1>3, <1>4 DEF Trace
<1>6. ASSUME NEW i \in 1 .. n + 1
      PROVE  /\ p[i].key = k =>
                  /\ g[i] = Listen!Track(g[i - 1], p[i])
                  /\ p[i].event = "session.opened" => p[i].session \notin DOMAIN g[i - 1]
             /\ p[i].key # k => g[i] = g[i - 1]
  <2>1. CASE i = n + 1
    <3>1. i - 1 = n
      BY <1>1, <2>1
    <3> QED
      BY <1>2, <1>3, <1>5, <2>1, <3>1
  <2>2. CASE i \in 1 .. n
    <3>1. g[i] = h[i] /\ g[i - 1] = h[i - 1] /\ p[i] = q[i]
      BY <1>2, <1>3, <1>4, <2>2
    <3> QED
      BY <2>2, <3>1 DEF Trace
  <2> QED
    BY <1>1, <2>1, <2>2
<1>7. ASSUME NEW i \in 0 .. n + 1, \A j \in i + 1 .. n + 1 : p[j].key # k
      PROVE  g[i] = Listen!Track(b, f)
  <2>1. i = n + 1
    BY <1>1, <1>2, <1>7
  <2> QED
    BY <1>3, <2>1
<1> QED
  BY <1>2, <1>3, <1>5, <1>6, <1>7 DEF Trace, p

(* The first fact of a queue. *)
LEMMA TraceTail ==
    ASSUME NEW q \in Seq(FactType), q # <<>>, NEW k \in Nat, NEW a, NEW b, NEW h, Trace(h, q, k, a, b)
    PROVE  /\ \E g : Trace(g, Tail(q), k, IF Head(q).key = k THEN Listen!Track(a, Head(q)) ELSE a, b)
           /\ Head(q).key = k /\ Head(q).event = "session.opened" => Head(q).session \notin DOMAIN a
<1> DEFINE n == Len(q) - 1
           g == [i \in 0 .. n |-> h[i + 1]]
           p == Tail(q)
           f == Head(q)
<1>1. n \in Nat /\ n = Len(q) - 1 /\ Len(q) = n + 1
  BY EmptySeq, LenProperties
<1>2. Len(p) = n /\ f = q[1] /\ \A i \in 1 .. n : p[i] = q[i + 1]
  BY <1>1, HeadTailProperties
<1> HIDE DEF p, n, f
<1>3. \A i \in 0 .. n : g[i] = h[i + 1]
  OBVIOUS
<1> HIDE DEF g
<1>4. h[1] = IF f.key = k THEN Listen!Track(a, f) ELSE a
  <2>1. 1 \in 1 .. Len(q) /\ 1 - 1 = 0
    BY <1>1
  <2> QED
    BY <1>2, <2>1 DEF Trace
<1>5. g[0] = h[1] /\ g[n] = b
  BY <1>1, <1>3 DEF Trace
<1>6. ASSUME NEW i \in 1 .. n
      PROVE  /\ p[i].key = k =>
                  /\ g[i] = Listen!Track(g[i - 1], p[i])
                  /\ p[i].event = "session.opened" => p[i].session \notin DOMAIN g[i - 1]
             /\ p[i].key # k => g[i] = g[i - 1]
  <2>1. i + 1 \in 1 .. Len(q) /\ i \in 0 .. n /\ i - 1 \in 0 .. n /\ (i + 1) - 1 = i /\ (i - 1) + 1 = i
    BY <1>1
  <2>2. p[i] = q[i + 1] /\ g[i] = h[i + 1] /\ g[i - 1] = h[i]
    BY <1>2, <1>3, <2>1
  <2> QED
    BY <2>1, <2>2 DEF Trace
<1>7. ASSUME NEW i \in 0 .. n, \A j \in i + 1 .. n : p[j].key # k
      PROVE  g[i] = b
  <2>1. i + 1 \in 0 .. Len(q)
    BY <1>1
  <2>2. ASSUME NEW j \in (i + 1) + 1 .. Len(q) PROVE q[j].key # k
    <3>1. j - 1 \in i + 1 .. n /\ j - 1 \in 1 .. n /\ (j - 1) + 1 = j
      BY <1>1
    <3> QED
      BY <1>2, <1>7, <3>1
  <2>3. h[i + 1] = b
    BY <2>1, <2>2 DEF Trace
  <2> QED
    BY <1>3, <2>3
<1>8. f.key = k /\ f.event = "session.opened" => f.session \notin DOMAIN a
  <2>1. 1 \in 1 .. Len(q) /\ 1 - 1 = 0
    BY <1>1
  <2> QED
    BY <1>2, <2>1 DEF Trace
<1>9. Trace(g, p, k, IF f.key = k THEN Listen!Track(a, f) ELSE a, b)
  BY <1>2, <1>4, <1>5, <1>6, <1>7 DEF Trace
<1> QED
  BY <1>8, <1>9 DEF p, f

(* No fact of a queue counts. *)
LEMMA TraceStale ==
    ASSUME NEW q \in Seq(FactType), NEW k, NEW a, \A i \in 1 .. Len(q) : q[i].key # k
    PROVE  \E g : Trace(g, q, k, a, a)
<1> DEFINE g == [i \in 0 .. Len(q) |-> a]
<1>1. Len(q) \in Nat
  BY LenProperties
<1>2. \A i \in 0 .. Len(q) : g[i] = a
  OBVIOUS
<1> HIDE DEF g
<1>3. 0 \in 0 .. Len(q) /\ Len(q) \in 0 .. Len(q) /\ \A i \in 1 .. Len(q) : i \in 0 .. Len(q) /\ i - 1 \in 0 .. Len(q)
  BY <1>1
<1>4. Trace(g, q, k, a, a)
  BY <1>2, <1>3 DEF Trace
<1> QED
  BY <1>4

(* Two queues, one after the other. *)
LEMMA ConcatIs ==
    ASSUME NEW q \in Seq(FactType), NEW r \in Seq(FactType)
    PROVE  /\ Len(q \o r) = Len(q) + Len(r)
           /\ \A i \in 1 .. Len(q) + Len(r) : (q \o r)[i] = IF i <= Len(q) THEN q[i] ELSE r[i - Len(q)]
  BY ConcatProperties

LEMMA LastOne ==
    ASSUME NEW n \in Nat, NEW i \in 0 .. n, ~(n \in i + 1 .. n)
    PROVE  i = n
  OBVIOUS

\* A new watch announces the sessions of a set in some order, after facts that do not count.
Announces(q, k, set, m, order, lives, opens) ==
    /\ q \in Seq(FactType) /\ k \in Nat /\ m \in Nat /\ set \in SUBSET Sessions /\ lives \in [Sessions -> Live]
    /\ order \in [1 .. m -> set] /\ opens \in Seq(FactType) /\ Len(opens) = m
    /\ \A i \in 1 .. Len(q) : q[i].key # k
    /\ \A s \in set : \E i \in 1 .. m : order[i] = s /\ \A j \in 1 .. m : order[j] = s => j = i
    /\ \A i \in 1 .. m : opens[i] = Listen!Fact(k, "session.opened", order[i], lives[order[i]])

(* The opens that a new watch brings, after the facts of older watches. *)
LEMMA TraceOpens ==
    ASSUME NEW q, NEW k, NEW set, NEW m, NEW order, NEW lives, NEW opens, Announces(q, k, set, m, order, lives, opens)
    PROVE  \E g : Trace(g, q \o opens, k, Listen!NoOpen, [s \in set |-> lives[s]])
<1> DEFINE sessions == [s \in set |-> lives[s]]
<1>0. /\ q \in Seq(FactType) /\ k \in Nat /\ m \in Nat /\ set \in SUBSET Sessions /\ lives \in [Sessions -> Live]
      /\ order \in [1 .. m -> set] /\ opens \in Seq(FactType) /\ Len(opens) = m
      /\ \A i \in 1 .. Len(q) : q[i].key # k
      /\ \A s \in set : \E i \in 1 .. m : order[i] = s /\ \A j \in 1 .. m : order[j] = s => j = i
      /\ \A i \in 1 .. m : opens[i] = Listen!Fact(k, "session.opened", order[i], lives[order[i]])
  BY DEF Announces
<1> DEFINE n == Len(q)
           S(x) == {order[j] : j \in 1 .. x}
           M(x) == [s \in S(x) |-> lives[s]]
           g == [i \in 0 .. n + m |-> IF i <= n THEN Listen!NoOpen ELSE M(i - n)]
           p == q \o opens
           none == Listen!NoOpen
<1>1. n \in Nat /\ m \in Nat
  BY <1>0, LenProperties
<1>2. Len(p) = n + m /\ \A i \in 1 .. n + m : p[i] = IF i <= n THEN q[i] ELSE opens[i - n]
  <2>1. /\ Len(q \o opens) = Len(q) + Len(opens)
        /\ \A i \in 1 .. Len(q) + Len(opens) : (q \o opens)[i] = IF i <= Len(q) THEN q[i] ELSE opens[i - Len(q)]
    BY <1>0, ConcatIs
  <2> QED
    BY <1>0, <2>1
<1> HIDE DEF p
<1>3. M(0) = none
  BY DEF Listen!NoOpen
<1>4. M(m) = sessions
  <2>1. S(m) = set
    BY <1>0
  <2> QED
    BY <2>1
<1>5. ASSUME NEW x \in 1 .. m
      PROVE  M(x) = Listen!Track(M(x - 1), opens[x]) /\ opens[x].session \notin DOMAIN M(x - 1) /\ opens[x].key = k
  <2>1. opens[x].event = "session.opened" /\ opens[x].session = order[x] /\ opens[x].data = lives[order[x]]
        /\ opens[x].key = k
    BY <1>0 DEF Listen!Fact
  <2>2. S(x) = S(x - 1) \cup {order[x]}
    <3>1. 1 .. x = (1 .. x - 1) \cup {x}
      BY <1>1
    <3> QED
      BY <3>1
  <2>3. order[x] \notin S(x - 1)
    BY <1>0
  <2>4. Listen!Track(M(x - 1), opens[x]) =
          [s \in S(x - 1) \cup {order[x]} |-> IF s = order[x] THEN lives[order[x]] ELSE M(x - 1)[s]]
    BY <2>1 DEF Listen!Track
  <2> QED
    BY <2>1, <2>2, <2>3, <2>4
<1>6. \A i \in 0 .. n + m : g[i] = IF i <= n THEN none ELSE M(i - n)
  OBVIOUS
<1> HIDE DEF g, M, none
<1>7. g[0] = none /\ g[n + m] = M(m)
  <2>1. 0 \in 0 .. n + m /\ 0 <= n /\ n + m \in 0 .. n + m /\ (n + m) - n = m /\ (n + m <= n <=> m = 0)
    BY <1>1
  <2>2. g[0] = none
    BY <1>6, <2>1
  <2>3. CASE m = 0
    BY <1>3, <1>6, <2>1, <2>3
  <2>4. CASE m # 0
    BY <1>6, <2>1, <2>4
  <2> QED
    BY <2>2, <2>3, <2>4
<1>8. ASSUME NEW i \in 1 .. n + m
      PROVE  /\ p[i].key = k =>
                  /\ g[i] = Listen!Track(g[i - 1], p[i])
                  /\ p[i].event = "session.opened" => p[i].session \notin DOMAIN g[i - 1]
             /\ p[i].key # k => g[i] = g[i - 1]
  <2>1. CASE i <= n
    <3>1. i \in 1 .. n /\ i \in 0 .. n + m /\ i - 1 \in 0 .. n + m /\ i - 1 <= n
      BY <1>1, <2>1
    <3> QED
      BY <1>0, <1>2, <1>6, <2>1, <3>1
  <2>2. CASE ~(i <= n)
    <3> DEFINE x == i - n
    <3>1. x \in 1 .. m /\ i \in 0 .. n + m /\ i - 1 \in 0 .. n + m /\ (i - 1) - n = x - 1 /\ (i - 1 <= n <=> x - 1 = 0)
      BY <1>1, <2>2
    <3>2. g[i] = M(x) /\ p[i] = opens[x]
      BY <1>2, <1>6, <2>2, <3>1
    <3>3. g[i - 1] = M(x - 1)
      BY <1>3, <1>6, <3>1
    <3> QED
      BY <1>5, <3>1, <3>2, <3>3
  <2> QED
    BY <2>1, <2>2
<1>9. ASSUME NEW i \in 0 .. n + m, \A j \in i + 1 .. n + m : p[j].key # k
      PROVE  g[i] = M(m)
  <2>1. CASE m = 0
    BY <1>1, <1>3, <1>6, <2>1
  <2>2. CASE m # 0
    <3>1. n + m \in 1 .. n + m /\ ~(n + m <= n) /\ (n + m) - n = m /\ m \in 1 .. m
      BY <1>1, <2>2
    <3>2. p[n + m] = opens[m] /\ opens[m].key = k
      BY <1>2, <1>5, <3>1
    <3>3. ~(n + m \in i + 1 .. n + m)
      BY <1>9, <3>2
    <3>4. n + m \in Nat
      BY <1>1
    <3>5. i = n + m
      BY <3>3, <3>4, LastOne
    <3> QED
      BY <1>7, <3>5
  <2> QED
    BY <2>1, <2>2
<1>10. Trace(g, p, k, none, M(m))
  BY <1>2, <1>7, <1>8, <1>9 DEF Trace
<1>11. Trace(g, p, k, none, sessions)
  BY <1>4, <1>10
<1> QED
  BY <1>11 DEF p, none

OpensTrace(q, k, set, lives, opens) == \E g : Trace(g, q \o opens, k, Listen!NoOpen, [s \in set |-> lives[s]])
LEMMA OpensTraced == \A q, k, set, m, order, lives, opens :
    Announces(q, k, set, m, order, lives, opens) => OpensTrace(q, k, set, lives, opens)
  BY TraceOpens DEF OpensTrace

(* What follows when no fact that counts waits. *)
LEMMA TraceQuiet ==
    ASSUME NEW q \in Seq(FactType), NEW k, NEW a, NEW b, NEW h, Trace(h, q, k, a, b),
           \A i \in 1 .. Len(q) : q[i].key # k
    PROVE  a = b
<1>1. 0 \in 0 .. Len(q)
  BY LenProperties
<1> QED
  BY <1>1 DEF Trace
-----------------------------------------------------------------------------
(* The frames after a step at their top. *)
LEMMA PopIs ==
    ASSUME frames \in Seq(FrameType), frames # <<>>
    PROVE  /\ Listen!Pop \in Seq(FrameType) /\ Len(frames) \in Nat \ {0} /\ Len(Listen!Pop) = Len(frames) - 1
           /\ \A i \in 1 .. Len(frames) - 1 : Listen!Pop[i] = frames[i]
           /\ Listen!Top = frames[Len(frames)] /\ Listen!Top \in FrameType
<1>1. Len(frames) \in Nat \ {0} /\ \A i \in 1 .. Len(frames) : frames[i] \in FrameType
  BY EmptySeq, LenProperties
<1>2. Listen!Top = frames[Len(frames)] /\ Listen!Top \in FrameType
  BY <1>1 DEF Listen!Top
<1> DEFINE n == Len(frames) - 1
<1>3. n \in Nat /\ n = Len(frames) - 1 /\ \A i \in 1 .. n : frames[i] \in FrameType
  BY <1>1
<1> HIDE DEF n
<1>4. /\ SubSeq(frames, 1, n) \in Seq(FrameType)
      /\ Len(SubSeq(frames, 1, n)) = IF 1 <= n THEN n - 1 + 1 ELSE 0
      /\ \A i \in 1 .. n - 1 + 1 : SubSeq(frames, 1, n)[i] = frames[1 + i - 1]
  BY <1>3, SubSeqProperties
<1>5. n - 1 + 1 = n /\ (IF 1 <= n THEN n - 1 + 1 ELSE 0) = n /\ \A i \in 1 .. n : 1 + i - 1 = i
  BY <1>3
<1> QED
  BY <1>1, <1>2, <1>3, <1>4, <1>5 DEF Listen!Pop

LEMMA SetTopIs ==
    ASSUME frames \in Seq(FrameType), frames # <<>>, NEW t \in FrameType
    PROVE  /\ Listen!SetTop(t) \in Seq(FrameType) /\ Len(Listen!SetTop(t)) = Len(frames)
           /\ \A i \in 1 .. Len(frames) : Listen!SetTop(t)[i] = IF i = Len(frames) THEN t ELSE frames[i]
<1>1. Len(frames) \in Nat /\ frames = [i \in 1 .. Len(frames) |-> frames[i]] /\ \A i \in 1 .. Len(frames) : frames[i] \in FrameType
  BY LenProperties
<1> QED
  BY <1>1, ExceptSeq DEF Listen!SetTop

LEMMA CallIs ==
    ASSUME frames \in Seq(FrameType), frames # <<>>, NEW t \in FrameType, NEW id \in 1 .. MaxAdds
    PROVE  LET called == Append(Listen!SetTop(t), Listen!Callback(id)) IN
           /\ called \in Seq(FrameType) /\ Len(called) = Len(frames) + 1
           /\ called[Len(frames) + 1] = Listen!Callback(id)
           /\ \A i \in 1 .. Len(frames) : called[i] = IF i = Len(frames) THEN t ELSE frames[i]
<1>1. Listen!Callback(id) \in FrameType
  BY DEF Listen!Callback, FrameType
<1> QED
  BY <1>1, SetTopIs, AppendProperties
-----------------------------------------------------------------------------
(* The app sends a fact of a session, or none. *)
LEMMA FactSent ==
    ASSUME ListenType, QueueInv, NEW f \in FactType, f.key = key, queue' = Append(queue, f), UNCHANGED <<key, open>>,
           KnownNow' = Listen!Track(KnownNow, f), f.event = "session.opened" => f.session \notin known
    PROVE  QueueInv'
<1>1. PICK h : Trace(h, queue, key, open, KnownNow)
  BY DEF QueueInv
<1>2. queue \in Seq(FactType) /\ key \in Nat /\ DOMAIN KnownNow = known
  BY DEF ListenType, KnownNow
<1> HIDE DEF KnownNow
<1>3. \E g : Trace(g, Append(queue, f), key, open, Listen!Track(KnownNow, f))
  BY <1>1, <1>2, TraceAppend
<1> QED
  BY <1>3 DEF QueueInv

LEMMA NoFact ==
    ASSUME QueueInv, UNCHANGED <<queue, key, open>>, KnownNow' = KnownNow
    PROVE  QueueInv'
  BY DEF QueueInv

(* Only the app goes on. *)
LEMMA ScriptStays ==
    ASSUME ListenInv, ListenType', WatchInv', QueueInv', UNCHANGED <<listeners, open, frames, heard, twice, adds>>
    PROVE  ListenInv'
  BY DEF ListenInv, FramesInv, ListenersInv, HeardInv, HeardOK, Awaits, Replays

(* The keys of the queue stay when a fact of the watch comes. *)
LEMMA KeysStay ==
    ASSUME ListenType, WatchInv, NEW f \in FactType, f.key = key, key # 0, queue' = Append(queue, f), UNCHANGED lastKey
    PROVE  queue' \in Seq(FactType) /\ \A i \in 1 .. Len(queue') : queue'[i].key \in 1 .. lastKey'
<1>1. Len(queue) \in Nat /\ key \in 1 .. lastKey
  BY LenProperties DEF ListenType, WatchInv
<1>2. /\ queue' \in Seq(FactType) /\ Len(queue') = Len(queue) + 1
      /\ \A i \in 1 .. Len(queue) : queue'[i] = queue[i]
      /\ queue'[Len(queue) + 1] = f
  BY AppendProperties DEF ListenType
<1> QED
  BY <1>1, <1>2 DEF WatchInv

(* A session opens. *)
LEMMA OpensKeeps ==
    ASSUME ListenInv, NEW s \in Sessions, Listen!Opens(s)
    PROVE  ListenInv'
<1>1. /\ ListenType /\ WatchInv /\ QueueInv
      /\ UNCHANGED <<key, lastKey, listeners, open, frames, heard, twice, adds, factWorkload>>
  BY DEF ListenInv, Listen!Opens, Listen!HostSteps, Listen!script
<1>2. PICK runs \in BOOLEAN : live' = [live EXCEPT ![s] = [Listen!Idle EXCEPT !.running = runs]]
  BY DEF Listen!Opens
<1>3. live' \in [Sessions -> Live] /\ live'[s] \in Live /\ \A x \in Sessions : x # s => live'[x] = live[x]
  BY <1>1, <1>2 DEF ListenType, Live, Listen!Idle
<1>4. /\ slot[s] = "none" /\ slot' = [slot EXCEPT ![s] = "open"] /\ ended' = ended \ {s} /\ s \notin known
  BY <1>1 DEF Listen!Opens, WatchInv
<1>5. CASE key = 0
  <2>1. UNCHANGED <<known, queue>>
    BY <1>5 DEF Listen!Opens
  <2>2. KnownNow' = KnownNow
    BY <1>1, <1>5, <2>1 DEF KnownNow, WatchInv
  <2>3. ListenType' /\ WatchInv'
    BY <1>1, <1>3, <1>4, <1>5, <2>1 DEF ListenType, WatchInv, Listen!Announced, Listen!NoOpen
  <2> QED
    BY <1>1, <2>1, <2>2, <2>3, NoFact, ScriptStays
<1>6. CASE key # 0
  <2> DEFINE f == Listen!Fact(key, "session.opened", s, live'[s])
  <2>1. known' = known \cup {s} /\ queue' = Append(queue, f)
    BY <1>4, <1>6 DEF Listen!Opens
  <2>2. f \in FactType /\ f.key = key /\ f.event = "session.opened" /\ f.session = s /\ f.data = live'[s]
    BY <1>1, <1>3 DEF FactType, Listen!Fact, ListenType, Kinds3
  <2> HIDE DEF f
  <2>3. KnownNow' = Listen!Track(KnownNow, f)
    BY <1>1, <1>3, <1>4, <2>1, <2>2 DEF KnownNow, Listen!Track, ListenType
  <2>4. QueueInv'
    BY <1>1, <1>4, <2>1, <2>2, <2>3, FactSent
  <2>5. queue' \in Seq(FactType) /\ \A i \in 1 .. Len(queue') : queue'[i].key \in 1 .. lastKey'
    BY <1>1, <1>6, <2>1, <2>2, KeysStay
  <2>6. ListenType'
    BY <1>1, <1>3, <1>4, <2>1, <2>5 DEF ListenType
  <2>7. WatchInv'
    BY <1>1, <1>4, <1>6, <2>1, <2>5 DEF ListenType, WatchInv, Listen!Announced
  <2> QED
    BY <1>1, <2>4, <2>6, <2>7, ScriptStays
<1> QED
  BY <1>5, <1>6

LEMMA LiveIs ==
    ASSUME NEW x \in Live, NEW v \in BOOLEAN
    PROVE  [x EXCEPT !.running = v] \in Live /\ [x EXCEPT !.asks = v] \in Live
  BY DEF Live

LEMMA NotIs ==
    ASSUME NEW v \in BOOLEAN
    PROVE  (~v) \in BOOLEAN
  OBVIOUS

(* A turn starts or ends, a question opens or closes. *)
LEMMA PublishKeeps ==
    ASSUME ListenInv, NEW s \in Sessions, Listen!Publish(s)
    PROVE  ListenInv'
<1>1. /\ ListenType /\ WatchInv /\ QueueInv
      /\ UNCHANGED <<slot, ended, known, key, lastKey, listeners, open, frames, heard, twice, adds, factWorkload>>
  BY DEF ListenInv, Listen!Publish, Listen!HostSteps, Listen!script
<1>2. PICK field \in {"running", "asks"} :
        /\ live' = [live EXCEPT ![s][field] = ~@]
        /\ queue' = IF s \in known
                    THEN Append(queue, Listen!Fact(key, "session.update", s, [field |-> field, value |-> ~live[s][field]]))
                    ELSE queue
  BY DEF Listen!Publish, Listen!Idle
<1> DEFINE now == [live[s] EXCEPT ![field] = ~live[s][field]]
<1>3. live[s] \in Live /\ now \in Live /\ (~live[s][field]) \in BOOLEAN
  <2>1. live[s] \in Live
    BY <1>1 DEF ListenType
  <2>2. CASE field = "running"
    <3>1. now = [live[s] EXCEPT !.running = ~live[s].running] /\ (~live[s][field]) = (~live[s].running)
      BY <2>2
    <3> HIDE DEF now
    <3>2. live[s].running \in BOOLEAN
      BY <2>1 DEF Live
    <3>3. (~live[s].running) \in BOOLEAN
      BY <3>2, NotIs
    <3>4. [live[s] EXCEPT !.running = ~live[s].running] \in Live
      BY <2>1, <3>3, LiveIs
    <3> QED
      BY <2>1, <3>1, <3>3, <3>4, Zenon
  <2>3. CASE field = "asks"
    <3>1. now = [live[s] EXCEPT !.asks = ~live[s].asks] /\ (~live[s][field]) = (~live[s].asks)
      BY <2>3
    <3> HIDE DEF now
    <3>2. live[s].asks \in BOOLEAN
      BY <2>1 DEF Live
    <3>3. (~live[s].asks) \in BOOLEAN
      BY <3>2, NotIs
    <3>4. [live[s] EXCEPT !.asks = ~live[s].asks] \in Live
      BY <2>1, <3>3, LiveIs
    <3> QED
      BY <2>1, <3>1, <3>3, <3>4, Zenon
  <2> QED
    BY <2>1, <2>2, <2>3
<1>4. live' = [live EXCEPT ![s] = now]
  BY <1>2
<1> HIDE DEF now
<1>5. live' \in [Sessions -> Live] /\ live'[s] = now /\ \A x \in Sessions : x # s => live'[x] = live[x]
  BY <1>1, <1>3, <1>4 DEF ListenType
<1>6. CASE s \notin known
  <2>1. KnownNow' = KnownNow
    BY <1>1, <1>5, <1>6 DEF KnownNow, ListenType
  <2>2. ListenType' /\ WatchInv'
    BY <1>1, <1>2, <1>5, <1>6 DEF ListenType, WatchInv, Listen!Announced, Listen!NoOpen
  <2> QED
    BY <1>1, <1>2, <1>6, <2>1, <2>2, NoFact, ScriptStays
<1>7. CASE s \in known
  <2> DEFINE f == Listen!Fact(key, "session.update", s, [field |-> field, value |-> ~live[s][field]])
  <2>1. queue' = Append(queue, f) /\ key # 0
    BY <1>1, <1>2, <1>7 DEF WatchInv
  <2>2. [field |-> field, value |-> ~live[s][field]] \in Updates
    BY <1>3 DEF Updates
  <2>3. /\ f \in FactType /\ f.key = key /\ f.event = "session.update" /\ f.session = s
        /\ f.data.field = field /\ f.data.value = ~live[s][field]
    BY <1>1, <2>2 DEF FactType, Listen!Fact, ListenType, Kinds3
  <2> HIDE DEF f
  <2>4. KnownNow' = Listen!Track(KnownNow, f)
    <3>1. Listen!Track(KnownNow, f) = [KnownNow EXCEPT ![s][field] = ~live[s][field]]
      BY <1>7, <2>3 DEF Listen!Track, KnownNow
    <3>2. [KnownNow EXCEPT ![s][field] = ~live[s][field]] = [KnownNow EXCEPT ![s] = now]
      BY <1>7 DEF KnownNow, now
    <3>3. [KnownNow EXCEPT ![s] = now] = KnownNow'
      BY <1>1, <1>5, <1>7 DEF KnownNow, ListenType
    <3> QED
      BY <3>1, <3>2, <3>3
  <2>5. QueueInv'
    BY <1>1, <2>1, <2>3, <2>4, FactSent
  <2>6. queue' \in Seq(FactType) /\ \A i \in 1 .. Len(queue') : queue'[i].key \in 1 .. lastKey'
    BY <1>1, <2>1, <2>3, KeysStay
  <2>7. ListenType' /\ WatchInv'
    BY <1>1, <1>5, <2>1, <2>6 DEF ListenType, WatchInv, Listen!Announced
  <2> QED
    BY <1>1, <2>5, <2>7, ScriptStays
<1> QED
  BY <1>6, <1>7

(* The views of a session end, at its close or its drop. *)
LEMMA EndKeeps ==
    ASSUME ListenInv, NEW s \in Sessions, Listen!CloseStarts(s) \/ Listen!ViewsEnd(s) \/ Listen!Dropped(s)
    PROVE  ListenInv'
<1>1. /\ ListenType /\ WatchInv /\ QueueInv
      /\ UNCHANGED <<live, key, lastKey, listeners, open, frames, heard, twice, adds, factWorkload>>
  BY DEF ListenInv, Listen!CloseStarts, Listen!ViewsEnd, Listen!Dropped, Listen!HostSteps, Listen!script
<1>2. /\ slot' \in [Sessions -> {"none", "open", "closing"}]
      /\ \A x \in Sessions : x # s => slot'[x] = slot[x]
      /\ slot'[s] # "open"
  BY <1>1 DEF Listen!CloseStarts, Listen!ViewsEnd, Listen!Dropped, ListenType
<1>3. CASE s \notin known \/ Listen!CloseStarts(s)
  <2>1. UNCHANGED <<known, queue>> /\ ended \subseteq ended' /\ ended' \subseteq ended \cup {s}
        /\ (s \in known => UNCHANGED ended /\ slot'[s] # "none")
    BY <1>1, <1>3 DEF Listen!CloseStarts, Listen!ViewsEnd, Listen!Dropped, Listen!EndViews, ListenType
  <2>2. KnownNow' = KnownNow
    BY <1>1, <2>1 DEF KnownNow
  <2>3. ListenType' /\ WatchInv'
    BY <1>1, <1>2, <2>1 DEF ListenType, WatchInv, Listen!Announced, Listen!NoOpen
  <2> QED
    BY <1>1, <2>1, <2>2, <2>3, NoFact, ScriptStays
<1>4. CASE s \in known /\ ~Listen!CloseStarts(s)
  <2> DEFINE f == Listen!Fact(key, "session.closed", s, Listen!Idle)
  <2>1. queue' = Append(queue, f) /\ key # 0 /\ known' = known \ {s} /\ ended' = ended \cup {s}
    BY <1>1, <1>4 DEF Listen!ViewsEnd, Listen!Dropped, Listen!EndViews, WatchInv
  <2>2. f \in FactType /\ f.key = key /\ f.event = "session.closed" /\ f.session = s
    BY <1>1 DEF FactType, Listen!Fact, ListenType, Kinds3, Listen!Idle, Live
  <2> HIDE DEF f
  <2>3. KnownNow' = Listen!Track(KnownNow, f)
    <3>1. DOMAIN KnownNow = known
      BY DEF KnownNow
    <3>2. Listen!Track(KnownNow, f) = [x \in known \ {s} |-> KnownNow[x]]
      <4>1. f.event = "session.closed" /\ f.session = s
        BY <2>2
      <4> QED
        BY <3>1, <4>1 DEF Listen!Track
    <3>3. KnownNow' = [x \in known \ {s} |-> live[x]]
      BY <1>1, <2>1 DEF KnownNow
    <3>4. \A x \in known \ {s} : KnownNow[x] = live[x]
      BY DEF KnownNow
    <3> QED
      BY <3>2, <3>3, <3>4
  <2>4. QueueInv'
    BY <1>1, <2>1, <2>2, <2>3, FactSent
  <2>5. queue' \in Seq(FactType) /\ \A i \in 1 .. Len(queue') : queue'[i].key \in 1 .. lastKey'
    BY <1>1, <2>1, <2>2, KeysStay
  <2>6. ListenType' /\ WatchInv'
    BY <1>1, <1>2, <2>1, <2>5 DEF ListenType, WatchInv, Listen!Announced
  <2> QED
    BY <1>1, <2>4, <2>6, ScriptStays
<1> QED
  BY <1>3, <1>4
-----------------------------------------------------------------------------
(* The sessions after a fact. *)
LEMMA TrackIs ==
    ASSUME NEW sessions, NEW fact \in FactType
    PROVE  DOMAIN Listen!Track(sessions, fact) =
             IF fact.event = "session.opened" THEN DOMAIN sessions \cup {fact.session}
             ELSE IF fact.event = "session.closed" THEN DOMAIN sessions \ {fact.session}
             ELSE DOMAIN sessions
<1>1. fact.event \in {"session.opened", "session.closed", "session.update"}
  BY DEF FactType, Kinds3
<1>2. CASE fact.event = "session.opened"
  BY <1>2 DEF Listen!Track
<1>3. CASE fact.event = "session.closed"
  BY <1>3 DEF Listen!Track
<1>4. CASE fact.event = "session.update" /\ fact.session \in DOMAIN sessions
  <2>1. Listen!Track(sessions, fact) = [sessions EXCEPT ![fact.session][fact.data.field] = fact.data.value]
    BY <1>4 DEF Listen!Track
  <2> QED
    BY <1>4, <2>1
<1>5. CASE fact.event = "session.update" /\ fact.session \notin DOMAIN sessions
  BY <1>5 DEF Listen!Track
<1> QED
  BY <1>1, <1>2, <1>3, <1>4, <1>5

(* A fact comes, and the listeners of its event are those that wait for it. *)
LEMMA DeliverKeeps ==
    ASSUME ListenInv, Listen!Deliver
    PROVE  ListenInv'
<1> DEFINE fact == Head(queue)
           loop == [kind |-> "deliver", event |-> fact.event, session |-> fact.session,
                    left |-> {l.id : l \in {l \in listeners : l.event = fact.event}}]
<1>1. /\ ListenType /\ WatchInv /\ QueueInv /\ FramesInv /\ ListenersInv /\ HeardInv
      /\ frames = <<>> /\ queue # <<>> /\ queue' = Tail(queue)
      /\ UNCHANGED <<slot, live, ended, known, key, lastKey, listeners, twice, adds, factWorkload>>
  BY DEF ListenInv, Listen!Deliver, Listen!host, Listen!bounds
<1>2. /\ queue' \in Seq(FactType) /\ Len(queue') = Len(queue) - 1 /\ Len(queue) \in Nat /\ fact = queue[1]
      /\ Len(queue') \in Nat
      /\ \A i \in 1 .. Len(queue') : queue'[i] = queue[i + 1]
  BY <1>1, EmptySeq, LenProperties, HeadTailProperties DEF ListenType
<1>3. fact \in FactType /\ fact.key \in 1 .. lastKey
  <2>1. 1 \in 1 .. Len(queue)
    BY <1>2
  <2> QED
    BY <1>1, <1>2, <2>1, ElementOfSeq DEF ListenType, WatchInv
<1>4. \A i \in 1 .. Len(queue') : queue'[i].key \in 1 .. lastKey
  <2>1. \A i \in 1 .. Len(queue') : i + 1 \in 1 .. Len(queue)
    BY <1>2
  <2> QED
    BY <1>1, <1>2, <2>1 DEF WatchInv
<1>5. PICK h : Trace(h, queue, key, open, KnownNow)
  BY <1>1 DEF QueueInv
<1> DEFINE after == IF fact.key = key THEN Listen!Track(open, fact) ELSE open
<1>6. /\ \E g : Trace(g, queue', key, after, KnownNow)
      /\ fact.key = key /\ fact.event = "session.opened" => fact.session \notin DOMAIN open
  <2>1. queue \in Seq(FactType) /\ key \in Nat
    BY <1>1 DEF ListenType
  <2> HIDE DEF KnownNow
  <2>2. /\ \E g : Trace(g, Tail(queue), key, after, KnownNow)
        /\ fact.key = key /\ fact.event = "session.opened" => fact.session \notin DOMAIN open
    BY <1>1, <1>5, <2>1, TraceTail
  <2> QED
    BY <1>1, <2>2
<1>7. open' = after /\ KnownNow' = KnownNow
  BY <1>1 DEF Listen!Deliver, Listen!Counts, KnownNow
<1>8. QueueInv'
  <2>1. \E g : Trace(g, queue', key', open', KnownNow')
    BY <1>1, <1>6, <1>7
  <2> QED
    BY <2>1 DEF QueueInv
<1> HIDE DEF fact
<1>9. CASE fact.key # key
  <2>1. UNCHANGED <<open, heard, frames>>
    BY <1>9 DEF Listen!Deliver, Listen!Counts, fact
  <2>2. ListenType'
    BY <1>1, <1>2, <2>1 DEF ListenType
  <2>3. WatchInv'
    BY <1>1, <1>4, <2>1 DEF WatchInv, Listen!Announced, Listen!NoOpen
  <2> QED
    BY <1>1, <1>8, <2>1, <2>2, <2>3, ScriptStays
<1>10. CASE fact.key = key
  <2>1. /\ frames' = <<loop>> /\ open' = Listen!Track(open, fact)
        /\ heard' = IF fact.event = "session.closed" THEN [l \in DOMAIN heard |-> heard[l] \ {fact.session}] ELSE heard
    BY <1>10 DEF Listen!Deliver, Listen!Counts, fact
  <2>2. loop.left \subseteq 1 .. adds /\ loop.left \subseteq 1 .. MaxAdds
        /\ \A l \in listeners : l.id \in loop.left <=> l.event = fact.event
    <3>1. \A l \in listeners : l.id \in 1 .. adds /\ l.id \in 1 .. MaxAdds
      BY <1>1 DEF ListenType, ListenersInv
    <3>2. \A l, m \in listeners : l.id = m.id => l = m
      BY <1>1 DEF ListenersInv
    <3> QED
      BY <3>1, <3>2
  <2>3. loop \in FrameType /\ loop.kind = "deliver" /\ loop.event = fact.event /\ loop.session = fact.session
    BY <1>3, <2>2 DEF FrameType, FactType
  <2> HIDE DEF loop
  <2>4. frames' \in Seq(FrameType) /\ Len(frames') = 1 /\ frames'[1] = loop /\ frames' # <<>>
    BY <2>1, <2>3
  <2>5. DOMAIN open' = IF fact.event = "session.opened" THEN DOMAIN open \cup {fact.session}
                       ELSE IF fact.event = "session.closed" THEN DOMAIN open \ {fact.session} ELSE DOMAIN open
    BY <1>3, <2>1, TrackIs
  <2>6. ListenType'
    <3>1. heard' \in [1 .. MaxAdds -> SUBSET Sessions]
      BY <1>1, <2>1 DEF ListenType
    <3>2. DOMAIN open' \subseteq Sessions
      BY <1>1, <1>3, <2>5 DEF ListenType, FactType
    <3> QED
      BY <1>1, <1>2, <2>4, <3>1, <3>2 DEF ListenType
  <2>7. WatchInv'
    BY <1>1, <1>3, <1>4, <1>10 DEF WatchInv, Listen!Announced, Listen!NoOpen
  <2>8. (\A id : Awaits(id)' <=> id \in loop.left) /\ \A i \in 1 .. Len(frames'), id \in 1 .. MaxAdds : ~Replays(i, id)'
    BY <2>3, <2>4 DEF Awaits, Replays
  <2>9. FramesInv' /\ ListenersInv'
    BY <1>1, <2>2, <2>3, <2>4, <2>8 DEF FramesInv, ListenersInv, ListenType
  <2>10. HeardInv'
    <3>1. \A id \in 1 .. MaxAdds : heard'[id] = IF fact.event = "session.closed" THEN heard[id] \ {fact.session} ELSE heard[id]
      BY <1>1, <2>1 DEF ListenType
    <3>2. ASSUME NEW l \in listeners, l.event = "session.opened" PROVE HeardOK(l.id)'
      <4>1. heard[l.id] = DOMAIN open /\ l.id \in 1 .. MaxAdds
        BY <1>1, <3>2, EmptySeq DEF HeardInv, HeardOK, Awaits, ListenType
      <4>2. \A i \in 1 .. Len(frames') : ~Replays(i, l.id)'
        BY <2>8, <4>1
      <4>3. CASE fact.event = "session.opened"
        <5>1. heard'[l.id] = DOMAIN open' \ {fact.session} /\ fact.session \in DOMAIN open'
          BY <1>6, <1>10, <2>5, <3>1, <4>1, <4>3
        <5> QED
          BY <2>2, <2>3, <2>4, <2>8, <3>2, <4>2, <4>3, <5>1 DEF HeardOK
      <4>4. CASE fact.event # "session.opened"
        <5>1. heard'[l.id] = DOMAIN open' /\ ~Awaits(l.id)'
          BY <2>2, <2>5, <2>8, <3>1, <3>2, <4>1, <4>4
        <5> QED
          BY <4>2, <5>1 DEF HeardOK
      <4> QED
        BY <4>3, <4>4
    <3> QED
      BY <1>1, <3>1, <3>2 DEF HeardInv
  <2> QED
    BY <1>8, <2>6, <2>7, <2>9, <2>10 DEF ListenInv
<1> QED
  BY <1>9, <1>10

(* The loop of a delivery calls its next listener. *)
LEMMA DeliverNextKeeps ==
    ASSUME ListenInv, Listen!DeliverNext
    PROVE  ListenInv'
<1> DEFINE loop == frames[1]
<1>1. /\ ListenType /\ WatchInv /\ QueueInv /\ FramesInv /\ ListenersInv /\ HeardInv
      /\ UNCHANGED <<slot, live, ended, known, queue, key, lastKey, listeners, open, adds, factWorkload>>
  BY DEF ListenInv, Listen!DeliverNext, Listen!host, Listen!bounds
<1>2. /\ frames \in Seq(FrameType) /\ frames # <<>> /\ Len(frames) = 1 /\ Listen!Top = loop
      /\ loop \in FrameType /\ loop.kind = "deliver"
  <2>1. frames \in Seq(FrameType) /\ frames # <<>> /\ Listen!Top.kind = "deliver"
    BY <1>1 DEF ListenType, Listen!DeliverNext, Listen!Runs
  <2>2. Len(frames) \in 1 .. Len(frames) /\ Listen!Top = frames[Len(frames)] /\ Listen!Top \in FrameType
    BY <2>1, PopIs
  <2>3. Len(frames) = 1
    BY <1>1, <2>1, <2>2 DEF FramesInv
  <2> QED
    BY <2>1, <2>2, <2>3
<1>3. loop.left \in SUBSET (1 .. MaxAdds) /\ loop.event \in Kinds3 /\ loop.session \in Sessions
  BY <1>2 DEF FrameType
<1>4. /\ \A id \in 1 .. MaxAdds : Awaits(id) <=> id \in loop.left
      /\ \A i \in 1 .. Len(frames), id \in 1 .. MaxAdds : ~Replays(i, id)
  BY <1>2 DEF Awaits, Replays
<1>5. \A l \in listeners : l.id \in 1 .. MaxAdds
  BY <1>1 DEF ListenType
<1> HIDE DEF loop
<1>6. \A l \in listeners : l.event = "session.opened" =>
         IF l.id \in loop.left THEN loop.session \in DOMAIN open /\ heard[l.id] = DOMAIN open \ {loop.session}
         ELSE heard[l.id] = DOMAIN open
  BY <1>1, <1>4, <1>5 DEF HeardInv, HeardOK, loop
<1>7. \A l \in listeners : l.id \in loop.left => l.event = loop.event
  BY <1>1, <1>4, <1>5 DEF ListenersInv, loop
<1>8. QueueInv' /\ WatchInv'
  BY <1>1 DEF QueueInv, WatchInv, KnownNow, Listen!Announced, Listen!NoOpen
<1>9. ASSUME NEW rest \in SUBSET loop.left, rest # loop.left \/ rest = {}, frames' \in Seq(FrameType), ~twice',
             heard' \in [1 .. MaxAdds -> SUBSET Sessions], \A id \in 1 .. MaxAdds : id > adds => heard'[id] = {},
             \A id \in 1 .. MaxAdds : Awaits(id)' <=> id \in rest,
             \A i \in 1 .. Len(frames'), id \in 1 .. MaxAdds : ~Replays(i, id)',
             \A i \in 1 .. Len(frames') : frames'[i].kind = "deliver" => i = 1,
             rest # {} => frames'[1].event = loop.event /\ frames'[1].session = loop.session,
             \A l \in listeners : l.event = "session.opened" =>
                heard'[l.id] = IF l.id \in loop.left \ rest THEN heard[l.id] \cup {loop.session} ELSE heard[l.id]
      PROVE  ListenInv'
  <2>1. ListenType'
    BY <1>1, <1>9 DEF ListenType
  <2>2. FramesInv'
    BY <1>1, <1>4, <1>9 DEF FramesInv
  <2>3. ListenersInv'
    BY <1>1, <1>5, <1>7, <1>9 DEF ListenersInv
  <2>4. ASSUME NEW l \in listeners, l.event = "session.opened" PROVE HeardOK(l.id)'
    <3>1. \A i \in 1 .. Len(frames') : ~Replays(i, l.id)'
      BY <1>5, <1>9
    <3>2. CASE l.id \in rest
      <4>1. Awaits(l.id)' /\ frames'[1].session = loop.session
        BY <1>5, <1>9, <3>2
      <4>2. loop.session \in DOMAIN open /\ heard'[l.id] = DOMAIN open \ {loop.session}
        BY <1>6, <1>9, <2>4, <3>2
      <4> QED
        BY <1>1, <3>1, <4>1, <4>2 DEF HeardOK
    <3>3. CASE l.id \notin rest
      <4>1. ~Awaits(l.id)'
        BY <1>5, <1>9, <3>3
      <4>2. heard'[l.id] = DOMAIN open
        BY <1>6, <1>9, <2>4, <3>3
      <4> QED
        BY <1>1, <3>1, <4>1, <4>2 DEF HeardOK
    <3> QED
      BY <3>2, <3>3
  <2>5. HeardInv'
    BY <1>1, <1>9, <2>4 DEF HeardInv
  <2> QED
    BY <1>8, <2>1, <2>2, <2>3, <2>5 DEF ListenInv
<1>10. CASE loop.left = {} /\ frames' = Listen!Pop /\ UNCHANGED <<heard, twice>>
  <2>1. frames' \in Seq(FrameType) /\ Len(frames') = 0
    BY <1>2, <1>10, PopIs
  <2>2. frames' = <<>> /\ 1 .. Len(frames') = {}
    BY <2>1, EmptySeq
  <2>3. \A id \in 1 .. MaxAdds : ~Awaits(id)'
    BY <2>2 DEF Awaits
  <2> QED
    BY <1>1, <1>9, <1>10, <2>1, <2>2, <2>3 DEF HeardInv, ListenType
<1>11. ASSUME NEW id \in loop.left,
              LET next == Listen!SetTop([loop EXCEPT !.left = loop.left \ {id}]) IN
              IF Listen!Present(id)
              THEN frames' = Append(next, Listen!Callback(id)) /\ Listen!Hears(id, loop.event, loop.session)
              ELSE frames' = next /\ UNCHANGED <<heard, twice>>
       PROVE  ListenInv'
  <2> DEFINE rest == loop.left \ {id}
             t == [loop EXCEPT !.left = rest]
  <2>1. t \in FrameType /\ t.kind = "deliver" /\ t.event = loop.event /\ t.session = loop.session /\ t.left = rest
    BY <1>2, <1>3 DEF FrameType
  <2>2. id \in 1 .. MaxAdds /\ rest \in SUBSET loop.left /\ rest # loop.left
    BY <1>3
  <2> HIDE DEF t
  <2>3. /\ frames' \in Seq(FrameType) /\ frames' # <<>> /\ Len(frames') \in Nat
        /\ 1 \in 1 .. Len(frames') /\ frames'[1] = t
        /\ \A i \in 1 .. Len(frames') : i # 1 => frames'[i] = Listen!Callback(id)
    <3>1. CASE Listen!Present(id)
      <4>1. frames' = Append(Listen!SetTop(t), Listen!Callback(id))
        BY <1>11, <3>1 DEF t
      <4>2. /\ frames' \in Seq(FrameType) /\ Len(frames') = 2 /\ frames'[2] = Listen!Callback(id) /\ frames'[1] = t
        BY <1>2, <2>1, <2>2, <4>1, CallIs
      <4>3. frames' # <<>>
        BY <4>2
      <4>4. \A i \in 1 .. 2 : i # 1 => frames'[i] = Listen!Callback(id)
        <5>1. \A i \in 1 .. 2 : i # 1 => i = 2
          OBVIOUS
        <5> QED
          BY <4>2, <5>1
      <4> QED
        BY <4>2, <4>3, <4>4
    <3>2. CASE ~Listen!Present(id)
      <4>1. frames' = Listen!SetTop(t)
        BY <1>11, <3>2 DEF t
      <4>2. frames' \in Seq(FrameType) /\ Len(frames') = 1 /\ frames'[1] = t
        BY <1>2, <2>1, <4>1, SetTopIs
      <4>3. frames' # <<>>
        BY <4>2
      <4>4. \A i \in 1 .. 1 : i = 1
        OBVIOUS
      <4> QED
        BY <4>2, <4>3, <4>4
    <3> QED
      BY <3>1, <3>2
  <2>4. Listen!Callback(id).kind = "callback"
    BY DEF Listen!Callback
  <2>5. /\ \A x \in 1 .. MaxAdds : Awaits(x)' <=> x \in rest
        /\ \A i \in 1 .. Len(frames'), x \in 1 .. MaxAdds : ~Replays(i, x)'
        /\ \A i \in 1 .. Len(frames') : frames'[i].kind = "deliver" => i = 1
    BY <2>1, <2>3, <2>4 DEF Awaits, Replays
  <2>6. CASE Listen!Present(id) /\ loop.event = "session.opened"
    <3>1. heard' = [heard EXCEPT ![id] = heard[id] \cup {loop.session}] /\ twice' = (twice \/ loop.session \in heard[id])
      BY <1>11, <2>6 DEF Listen!Hears
    <3>2. PICK l \in listeners : l.id = id
      BY <2>6 DEF Listen!Present
    <3>3. loop.session \notin heard[id]
      BY <1>6, <1>7, <2>6, <3>2
    <3>4. id <= adds
      BY <1>1, <3>2 DEF ListenersInv
    <3>5. heard' \in [1 .. MaxAdds -> SUBSET Sessions]
          /\ \A x \in 1 .. MaxAdds : heard'[x] = IF x = id THEN heard[x] \cup {loop.session} ELSE heard[x]
      BY <1>1, <1>3, <3>1 DEF ListenType
    <3>6. \A x \in 1 .. MaxAdds : x > adds => heard'[x] = {}
      BY <1>1, <2>2, <3>4, <3>5 DEF HeardInv, ListenType
    <3>7. ~twice'
      BY <1>1, <3>1, <3>3 DEF HeardInv
    <3>8. \A m \in listeners : m.event = "session.opened" =>
            heard'[m.id] = IF m.id \in loop.left \ rest THEN heard[m.id] \cup {loop.session} ELSE heard[m.id]
      BY <1>5, <3>5
    <3> QED
      BY <1>9, <2>1, <2>2, <2>3, <2>5, <3>5, <3>6, <3>7, <3>8
  <2>7. CASE ~Listen!Present(id) \/ loop.event # "session.opened"
    <3>1. UNCHANGED <<heard, twice>>
      BY <1>11, <2>7 DEF Listen!Hears
    <3>2. \A l \in listeners : l.event = "session.opened" => l.id # id
      BY <1>7, <2>7 DEF Listen!Present
    <3>3. \A l \in listeners : l.event = "session.opened" =>
            heard'[l.id] = IF l.id \in loop.left \ rest THEN heard[l.id] \cup {loop.session} ELSE heard[l.id]
      BY <3>1, <3>2
    <3>4. heard' \in [1 .. MaxAdds -> SUBSET Sessions] /\ ~twice' /\ \A x \in 1 .. MaxAdds : x > adds => heard'[x] = {}
      BY <1>1, <3>1 DEF HeardInv, ListenType
    <3> QED
      BY <1>9, <2>1, <2>2, <2>3, <2>5, <3>3, <3>4
  <2> QED
    BY <2>6, <2>7
<1> QED
  BY <1>2, <1>10, <1>11 DEF Listen!DeliverNext

(* A call of a listener ends, or the frames stay. *)
LEMMA StackStays ==
    ASSUME ListenType, FramesInv, frames' = frames \/ (Listen!Runs("callback") /\ frames' = Listen!Pop)
    PROVE  /\ frames' \in Seq(FrameType) /\ (adds' = adds => FramesInv')
           /\ \A id : Awaits(id)' <=> Awaits(id)
           /\ \A id : Awaits(id) => frames'[1] = frames[1]
           /\ \A i \in 1 .. Len(frames') : \A id : Replays(i, id)' => i \in 1 .. Len(frames) /\ Replays(i, id) /\ frames'[i] = frames[i]
           /\ \A i \in 1 .. Len(frames) : \A id : Replays(i, id) => i \in 1 .. Len(frames') /\ Replays(i, id)'
<1>1. CASE frames' = frames
  BY <1>1 DEF Awaits, Replays, FramesInv, ListenType
<1>2. CASE Listen!Runs("callback") /\ frames' = Listen!Pop
  <2>1. /\ frames \in Seq(FrameType) /\ frames # <<>> /\ Listen!Top.kind = "callback"
    BY <1>2 DEF ListenType, Listen!Runs
  <2>2. /\ frames' \in Seq(FrameType) /\ Len(frames) \in Nat \ {0} /\ Len(frames') = Len(frames) - 1
        /\ \A i \in 1 .. Len(frames) - 1 : frames'[i] = frames[i]
        /\ frames[Len(frames)].kind = "callback"
    BY <1>2, <2>1, PopIs
  <2>3. /\ \A i \in 1 .. Len(frames') : i \in 1 .. Len(frames) /\ frames'[i] = frames[i]
        /\ \A i \in 1 .. Len(frames) : i \in 1 .. Len(frames') \/ i = Len(frames)
    BY <2>2
  <2>4. /\ \A i \in 1 .. Len(frames') : \A id : Replays(i, id)' => i \in 1 .. Len(frames) /\ Replays(i, id) /\ frames'[i] = frames[i]
        /\ \A i \in 1 .. Len(frames) : \A id : Replays(i, id) => i \in 1 .. Len(frames') /\ Replays(i, id)'
    BY <2>2, <2>3 DEF Replays
  <2>5. (frames[1].kind = "deliver" => frames' # <<>> /\ frames'[1] = frames[1])
        /\ (frames' # <<>> => frames'[1] = frames[1])
    <3>1. CASE Len(frames) = 1
      <4>1. frames[1].kind = "callback" /\ Len(frames') = 0
        BY <2>2, <3>1
      <4> QED
        BY <2>2, <4>1, EmptySeq
    <3>2. CASE Len(frames) # 1
      <4>1. 1 \in 1 .. Len(frames) - 1 /\ Len(frames') # 0
        BY <2>2, <3>2
      <4> QED
        BY <2>2, <4>1
    <3> QED
      BY <3>1, <3>2
  <2>6. (\A id : Awaits(id)' <=> Awaits(id)) /\ \A id : Awaits(id) => frames'[1] = frames[1]
    BY <2>1, <2>5 DEF Awaits
  <2>7. adds' = adds => FramesInv'
    BY <2>3, <2>4, <2>6 DEF FramesInv
  <2> QED
    BY <2>2, <2>4, <2>6, <2>7
<1> QED
  BY <1>1, <1>2

(* A listener goes, or only a call ends. *)
LEMMA RemovesKeep ==
    ASSUME ListenInv, Listen!Returns \/ Listen!Throws \/ \E id \in 1 .. MaxAdds : Listen!Off(id)
    PROVE  ListenInv'
<1>1. /\ ListenType /\ WatchInv /\ QueueInv /\ FramesInv /\ ListenersInv /\ HeardInv
      /\ UNCHANGED <<slot, live, ended, queue, lastKey, heard, twice, adds, factWorkload>>
      /\ frames' = frames \/ (Listen!Runs("callback") /\ frames' = Listen!Pop)
  BY DEF ListenInv, Listen!Returns, Listen!Throws, Listen!Off, Listen!host, Listen!bounds
<1>2. \/ UNCHANGED <<listeners, key, open, known>>
      \/ listeners # {} /\ \E id : Listen!Removed(id)
  BY DEF Listen!Returns, Listen!Throws, Listen!Off, Listen!Present
<1>3. /\ listeners' \subseteq listeners
      /\ \/ UNCHANGED <<key, open, known>> /\ (listeners' = {} <=> key = 0)
         \/ listeners' = {} /\ key' = 0 /\ open' = Listen!NoOpen /\ known' = {}
  <2>1. CASE UNCHANGED <<listeners, key, open, known>>
    BY <1>1, <2>1 DEF WatchInv
  <2>2. ASSUME NEW id, listeners # {}, Listen!Removed(id)
        PROVE  /\ listeners' \subseteq listeners
               /\ \/ UNCHANGED <<key, open, known>> /\ (listeners' = {} <=> key = 0)
                  \/ listeners' = {} /\ key' = 0 /\ open' = Listen!NoOpen /\ known' = {}
    BY <1>1, <2>2 DEF Listen!Removed, WatchInv
  <2> QED
    BY <1>2, <2>1, <2>2
<1>4. /\ frames' \in Seq(FrameType) /\ FramesInv'
      /\ \A id : Awaits(id)' <=> Awaits(id)
      /\ \A id : Awaits(id) => frames'[1] = frames[1]
      /\ \A i \in 1 .. Len(frames') : \A id : Replays(i, id)' => i \in 1 .. Len(frames) /\ Replays(i, id) /\ frames'[i] = frames[i]
      /\ \A i \in 1 .. Len(frames) : \A id : Replays(i, id) => i \in 1 .. Len(frames') /\ Replays(i, id)'
  BY <1>1, StackStays
<1>5. ListenersInv'
  <2>1. \A l \in listeners' : l \in listeners
    BY <1>3
  <2>2. \A l \in listeners' : Awaits(l.id)' => l.event = frames'[1].event
    BY <1>1, <1>4, <2>1 DEF ListenersInv
  <2>3. ASSUME NEW l \in listeners', NEW i \in 1 .. Len(frames'), Replays(i, l.id)' PROVE l.event = "session.opened"
    <3>1. i \in 1 .. Len(frames) /\ Replays(i, l.id) /\ l \in listeners
      BY <1>4, <2>1, <2>3 DEF Replays
    <3> QED
      BY <1>1, <3>1 DEF ListenersInv
  <2> QED
    BY <1>1, <2>1, <2>2, <2>3 DEF ListenersInv
<1>6. CASE UNCHANGED <<key, open, known>> /\ (listeners' = {} <=> key = 0)
  <2>1. ListenType' /\ WatchInv' /\ QueueInv'
    BY <1>1, <1>3, <1>4, <1>6 DEF ListenType, WatchInv, QueueInv, KnownNow, Listen!Announced, Listen!NoOpen
  <2>2. ASSUME NEW l \in listeners, l.event = "session.opened" PROVE HeardOK(l.id)'
    <3>1. HeardOK(l.id)
      BY <1>1, <2>2 DEF HeardInv
    <3>2. ASSUME NEW i \in 1 .. Len(frames'), Replays(i, l.id)'
          PROVE  heard'[l.id] = frames'[i].done /\ frames'[i].done \subseteq DOMAIN open'
      <4>1. i \in 1 .. Len(frames) /\ Replays(i, l.id) /\ frames'[i] = frames[i]
        BY <1>4, <3>2 DEF Replays
      <4> QED
        BY <1>1, <1>6, <3>1, <4>1 DEF HeardOK
    <3>3. ASSUME \A i \in 1 .. Len(frames') : ~Replays(i, l.id)'
          PROVE  IF Awaits(l.id)' THEN /\ frames'[1].session \in DOMAIN open'
                                       /\ heard'[l.id] = DOMAIN open' \ {frames'[1].session}
                 ELSE heard'[l.id] = DOMAIN open'
      <4>1. ASSUME NEW i \in 1 .. Len(frames), Replays(i, l.id) PROVE FALSE
        <5>1. i \in 1 .. Len(frames') /\ Replays(i, l.id)'
          BY <1>4, <4>1 DEF Replays
        <5> QED
          BY <3>3, <5>1
      <4>2. IF Awaits(l.id) THEN frames[1].session \in DOMAIN open /\ heard[l.id] = DOMAIN open \ {frames[1].session}
            ELSE heard[l.id] = DOMAIN open
        BY <3>1, <4>1 DEF HeardOK
      <4>3. (Awaits(l.id)' <=> Awaits(l.id)) /\ (Awaits(l.id) => frames'[1] = frames[1])
        BY <1>4 DEF Awaits
      <4> QED
        BY <1>1, <1>6, <4>2, <4>3
    <3> QED
      BY <3>2, <3>3 DEF HeardOK
  <2>3. HeardInv'
    BY <1>1, <1>3, <2>2 DEF HeardInv
  <2> QED
    BY <1>4, <1>5, <2>1, <2>3 DEF ListenInv
<1>7. CASE listeners' = {} /\ key' = 0 /\ open' = Listen!NoOpen /\ known' = {}
  <2>1. ListenType' /\ WatchInv' /\ HeardInv'
    BY <1>1, <1>4, <1>7 DEF ListenType, WatchInv, HeardInv, Listen!Announced, Listen!NoOpen
  <2>2. KnownNow' = Listen!NoOpen
    BY <1>7 DEF KnownNow, Listen!NoOpen
  <2>3. \A i \in 1 .. Len(queue) : queue[i].key # 0
    BY <1>1 DEF WatchInv
  <2>4. \E g : Trace(g, queue, 0, Listen!NoOpen, Listen!NoOpen)
    BY <1>1, <2>3, TraceStale DEF ListenType
  <2>5. QueueInv'
    BY <1>1, <1>7, <2>2, <2>4 DEF QueueInv
  <2> QED
    BY <1>4, <1>5, <2>1, <2>5 DEF ListenInv
<1> QED
  BY <1>3, <1>6, <1>7

(* The sessions of a new watch, counted as in the operators of the instance. *)
LEMMA CountIs == \A S : Listen!Cardinality(S) = Cardinality(S)
  BY DEF Listen!Cardinality, Cardinality

(* A watch starts: the open of each announced session comes after the facts of older watches. *)
LEMMA WatchStarts ==
    ASSUME ListenType, WatchInv, SaneFacts, key = 0, UNCHANGED <<slot, live, ended, open>>,
           lastKey' = lastKey + 1, key' = lastKey', known' = Listen!Announced, listeners' # {},
           NEW order \in Listen!Orders(Listen!Announced),
           queue' = queue \o [i \in DOMAIN order |-> Listen!Fact(key', "session.opened", order[i], live[order[i]])]
    PROVE  queue' \in Seq(FactType) /\ key' \in Nat /\ lastKey' \in Nat /\ known' \subseteq Sessions /\ WatchInv' /\ QueueInv'
<1> DEFINE set == Listen!Announced
           m == Cardinality(set)
           opens == [i \in DOMAIN order |-> Listen!Fact(key', "session.opened", order[i], live[order[i]])]
<1>1. set \in SUBSET Sessions /\ m \in Nat
  <2>1. set \subseteq Sessions
    BY DEF Listen!Announced
  <2>2. IsFiniteSet(set)
    BY <2>1, FS_Subset DEF SaneFacts
  <2> QED
    BY <2>1, <2>2, FS_CardinalityType
<1>2. /\ order \in [1 .. m -> set]
      /\ \A s \in set : \E i \in 1 .. m : order[i] = s /\ \A j \in 1 .. m : order[j] = s => j = i
  <2>1. Listen!Cardinality(set) = m
    BY CountIs
  <2> HIDE DEF set, m
  <2> QED
    BY <2>1 DEF Listen!Orders, set
<1>3. lastKey \in Nat /\ key' = lastKey + 1 /\ key' \in Nat /\ lastKey' = lastKey + 1 /\ lastKey' \in Nat
  BY DEF ListenType
<1>4. live \in [Sessions -> Live] /\ queue \in Seq(FactType)
  BY DEF ListenType
<1> HIDE DEF m
<1>5. \A i \in 1 .. m : order[i] \in Sessions /\ Listen!Fact(key', "session.opened", order[i], live[order[i]]) \in FactType
  <2>1. ASSUME NEW i \in 1 .. m
        PROVE  order[i] \in Sessions /\ Listen!Fact(key', "session.opened", order[i], live[order[i]]) \in FactType
    <3>1. order[i] \in Sessions /\ live[order[i]] \in Live
      BY <1>1, <1>2, <1>4
    <3> QED
      BY <1>3, <3>1 DEF Listen!Fact, FactType, Kinds3
  <2> QED
    BY <2>1
<1>6. /\ opens = [i \in 1 .. m |-> Listen!Fact(key', "session.opened", order[i], live[order[i]])]
      /\ \A i \in 1 .. m : opens[i] = Listen!Fact(key', "session.opened", order[i], live[order[i]])
  BY <1>2
<1>7. opens \in Seq(FactType) /\ Len(opens) = m
  BY <1>1, <1>5, <1>6
<1>8. queue' = queue \o opens
  OBVIOUS
<1> HIDE DEF opens, set
<1>9. /\ queue' \in Seq(FactType) /\ Len(queue') = Len(queue) + m /\ Len(queue) \in Nat
      /\ \A i \in 1 .. Len(queue) + m : queue'[i] = IF i <= Len(queue) THEN queue[i] ELSE opens[i - Len(queue)]
  <2>1. queue \o opens \in Seq(FactType) /\ Len(queue) \in Nat
    BY <1>4, <1>7, ConcatProperties, LenProperties
  <2> QED
    BY <1>4, <1>7, <1>8, <2>1, ConcatIs
<1>10. \A i \in 1 .. Len(queue) : queue[i].key # key' /\ queue[i].key \in 1 .. lastKey
  BY <1>3 DEF WatchInv
<1>11. \A i \in 1 .. m : opens[i].key = key'
  BY <1>6 DEF Listen!Fact
<1>12. \A i \in 1 .. Len(queue') : queue'[i].key \in 1 .. lastKey'
  <2>1. ASSUME NEW i \in 1 .. Len(queue) + m PROVE queue'[i].key \in 1 .. lastKey'
    <3>1. CASE i <= Len(queue)
      <4>1. i \in 1 .. Len(queue)
        BY <1>9, <3>1
      <4>2. queue'[i].key \in 1 .. lastKey
        BY <1>9, <1>10, <3>1, <4>1
      <4>3. \A k \in 1 .. lastKey : k \in 1 .. lastKey + 1
        BY <1>3
      <4> QED
        BY <1>3, <4>2, <4>3
    <3>2. CASE ~(i <= Len(queue))
      <4>1. i - Len(queue) \in 1 .. m
        BY <1>1, <1>9, <3>2
      <4>2. queue'[i].key = key'
        BY <1>9, <1>11, <3>2, <4>1
      <4>3. lastKey + 1 \in 1 .. lastKey + 1
        BY <1>3
      <4> QED
        BY <1>3, <4>2, <4>3
    <3> QED
      BY <3>1, <3>2
  <2> QED
    BY <1>9, <2>1
<1>13. set = Listen!Announced /\ Listen!Announced' = Listen!Announced
  BY DEF set, Listen!Announced
<1>14. WatchInv'
  BY <1>3, <1>12, <1>13 DEF WatchInv, Listen!Announced
<1>15. open = Listen!NoOpen
  BY DEF WatchInv
<1>16. \E g : Trace(g, queue \o opens, key', Listen!NoOpen, [s \in set |-> live[s]])
  <2>1. \A i \in 1 .. Len(queue) : queue[i].key # key'
    BY <1>10
  <2>2. PICK k \in Nat : k = key'
    BY <1>3
  <2>3. \A i \in 1 .. m : opens[i] = Listen!Fact(k, "session.opened", order[i], live[order[i]])
    BY <1>6, <2>2
  <2>4. \A i \in 1 .. Len(queue) : queue[i].key # k
    BY <2>1, <2>2
  <2>5. Announces(queue, k, set, m, order, live, opens)
    BY <1>1, <1>2, <1>4, <1>7, <2>3, <2>4 DEF Announces
  <2>6. OpensTrace(queue, k, set, live, opens)
    BY <2>5, OpensTraced
  <2> QED
    BY <2>2, <2>6 DEF OpensTrace
<1>17. KnownNow' = [s \in set |-> live[s]]
  BY <1>13 DEF KnownNow
<1>18. \E g : Trace(g, queue', key', open', KnownNow')
  BY <1>8, <1>15, <1>16, <1>17
<1>19. QueueInv'
  BY <1>18 DEF QueueInv
<1> QED
  BY <1>1, <1>3, <1>9, <1>13, <1>14, <1>19

(* A new listener, with a replay of the open sessions for session.opened. *)
LEMMA OnKeeps ==
    ASSUME ListenInv, SaneFacts, NEW event \in Events, Listen!On(event)
    PROVE  ListenInv'
<1> DEFINE id == adds + 1
           entry == [id |-> id, event |-> event]
           replay == [kind |-> "replay", id |-> id, done |-> {}]
<1>1. /\ ListenType /\ WatchInv /\ QueueInv /\ FramesInv /\ ListenersInv /\ HeardInv
      /\ UNCHANGED <<slot, live, ended, open, heard, twice, factWorkload>>
      /\ adds' = id /\ listeners' = listeners \cup {entry}
      /\ frames' = IF event = "session.opened" THEN Append(frames, replay) ELSE frames
  BY DEF ListenInv, Listen!On, Listen!host, Listen!bounds
<1>2. adds \in Nat /\ id \in 1 .. MaxAdds /\ id > adds /\ MaxAdds \in Nat
  <2>1. factWorkload.adds \in 0 .. MaxAdds /\ adds < factWorkload.adds /\ adds \in 0 .. MaxAdds /\ MaxAdds \in Nat
    BY <1>1 DEF SaneFacts, ListenType, Listen!On
  <2> QED
    BY <2>1
<1>3. queue' \in Seq(FactType) /\ key' \in Nat /\ lastKey' \in Nat /\ known' \subseteq Sessions /\ WatchInv' /\ QueueInv'
  <2>1. CASE key # 0
    <3>1. UNCHANGED <<known, queue, key, lastKey>>
      BY <2>1 DEF Listen!On
    <3> QED
      BY <1>1, <2>1, <3>1 DEF ListenType, WatchInv, QueueInv, KnownNow, Listen!Announced, Listen!NoOpen
  <2>2. CASE key = 0
    <3>1. /\ lastKey' = lastKey + 1 /\ key' = lastKey' /\ known' = Listen!Announced
          /\ \E order \in Listen!Orders(Listen!Announced) :
               queue' = queue \o [i \in DOMAIN order |->
                                    Listen!Fact(key', "session.opened", order[i], live[order[i]])]
      BY <2>2 DEF Listen!On
    <3>2. listeners' # {}
      BY <1>1
    <3> QED
      BY <1>1, <2>2, <3>1, <3>2, WatchStarts
  <2> QED
    BY <2>1, <2>2
<1>4. replay \in FrameType /\ replay.kind = "replay" /\ replay.id = id /\ replay.done = {}
  BY <1>2 DEF FrameType
<1>5. entry \in [id : 1 .. MaxAdds, event : Events] /\ entry.id = id /\ entry.event = event
  BY <1>2
<1>6. frames \in Seq(FrameType) /\ Len(frames) \in Nat
  BY <1>1, LenProperties DEF ListenType
<1> HIDE DEF id, entry, replay
<1>7. /\ frames' \in Seq(FrameType) /\ \A i \in 1 .. Len(frames) : i \in 1 .. Len(frames') /\ frames'[i] = frames[i]
      /\ \A i \in 1 .. Len(frames') : i \in 1 .. Len(frames) \/ (i = Len(frames) + 1 /\ event = "session.opened" /\ frames'[i] = replay)
      /\ event = "session.opened" => Len(frames) + 1 \in 1 .. Len(frames') /\ frames'[Len(frames) + 1] = replay
  <2>1. CASE event = "session.opened"
    <3>1. /\ frames' \in Seq(FrameType) /\ Len(frames') = Len(frames) + 1 /\ frames'[Len(frames) + 1] = replay
          /\ \A i \in 1 .. Len(frames) : frames'[i] = frames[i]
      BY <1>1, <1>4, <1>6, <2>1, AppendProperties
    <3>2. /\ \A i \in 1 .. Len(frames) : i \in 1 .. Len(frames')
          /\ \A i \in 1 .. Len(frames') : i \in 1 .. Len(frames) \/ i = Len(frames) + 1
          /\ Len(frames) + 1 \in 1 .. Len(frames')
      BY <1>6, <3>1
    <3> QED
      BY <2>1, <3>1, <3>2
  <2>2. CASE event # "session.opened"
    BY <1>1, <1>6, <2>2
  <2> QED
    BY <2>1, <2>2
<1>8. \A x \in 1 .. MaxAdds : Awaits(x)' <=> Awaits(x)
  <2>1. CASE frames = <<>>
    <3>1. ~(frames' # <<>> /\ frames'[1].kind = "deliver")
      <4>1. CASE event = "session.opened"
        <5>1. frames'[1] = replay
          BY <1>1, <1>4, <2>1, <4>1
        <5> QED
          BY <1>4, <5>1
      <4>2. CASE event # "session.opened"
        BY <1>1, <2>1, <4>2
      <4> QED
        BY <4>1, <4>2
    <3> QED
      BY <2>1, <3>1 DEF Awaits
  <2>2. CASE frames # <<>>
    <3>1. 1 \in 1 .. Len(frames)
      BY <1>6, <2>2, EmptySeq
    <3>2. frames'[1] = frames[1] /\ frames' # <<>>
      <4>1. frames'[1] = frames[1] /\ 1 \in 1 .. Len(frames')
        BY <1>7, <3>1
      <4> QED
        BY <4>1
    <3> QED
      BY <2>2, <3>2 DEF Awaits
  <2> QED
    BY <2>1, <2>2
<1>9. \A x \in 1 .. MaxAdds : Awaits(x) => frames'[1] = frames[1]
  <2>1. \A x \in 1 .. MaxAdds : Awaits(x) => 1 \in 1 .. Len(frames)
    BY <1>6, EmptySeq DEF Awaits
  <2> QED
    BY <1>7, <2>1
<1>10. \A i \in 1 .. Len(frames'), x \in 1 .. MaxAdds :
         Replays(i, x)' <=> IF i \in 1 .. Len(frames) THEN Replays(i, x) ELSE x = id /\ event = "session.opened"
  BY <1>4, <1>7 DEF Replays
<1>11. ~Awaits(id) /\ \A i \in 1 .. Len(frames) : ~Replays(i, id)
  BY <1>1, <1>2 DEF FramesInv
<1>12. FramesInv'
  <2>1. ASSUME NEW i \in 1 .. Len(frames'), frames'[i].kind = "deliver" PROVE i = 1
    BY <1>1, <1>4, <1>7, <2>1 DEF FramesInv
  <2>2. \A x \in 1 .. MaxAdds : Awaits(x)' => x <= adds'
    BY <1>1, <1>2, <1>8 DEF FramesInv, id
  <2>3. ASSUME NEW i \in 1 .. Len(frames'), NEW x \in 1 .. MaxAdds, Replays(i, x)'
        PROVE  x <= adds' /\ ~Awaits(x)' /\ \A j \in 1 .. Len(frames') : Replays(j, x)' => j = i
    <3>1. CASE i \in 1 .. Len(frames)
      <4>1. Replays(i, x) /\ x # id
        BY <1>10, <1>11, <2>3, <3>1
      <4>2. x <= adds /\ ~Awaits(x) /\ \A j \in 1 .. Len(frames) : Replays(j, x) => j = i
        BY <1>1, <3>1, <4>1 DEF FramesInv
      <4>3. x <= adds'
        BY <1>1, <1>2, <4>2 DEF id
      <4> QED
        BY <1>8, <1>10, <4>1, <4>2, <4>3
    <3>2. CASE i \notin 1 .. Len(frames)
      <4>1. x = id /\ i = Len(frames) + 1
        BY <1>7, <1>10, <2>3, <3>2
      <4>2. x <= adds'
        BY <1>1, <1>2, <4>1
      <4>3. ASSUME NEW j \in 1 .. Len(frames'), Replays(j, x)' PROVE j = i
        <5>1. j \notin 1 .. Len(frames)
          BY <1>10, <1>11, <4>1, <4>3
        <5> QED
          BY <1>7, <4>1, <5>1
      <4> QED
        BY <1>8, <1>11, <4>1, <4>2, <4>3
    <3> QED
      BY <3>1, <3>2
  <2> QED
    BY <2>1, <2>2, <2>3 DEF FramesInv
<1>13. \A l \in listeners : l.id \in 1 .. MaxAdds /\ l.id <= adds /\ l.id # id
  BY <1>1, <1>2 DEF ListenType, ListenersInv
<1>14. ListenersInv'
  <2>1. \A l \in listeners' : l \in listeners \/ l = entry
    BY <1>1
  <2>2. \A l \in listeners' : l.id <= adds'
    BY <1>1, <1>2, <1>5, <1>13, <2>1 DEF id
  <2>3. \A l, n \in listeners' : l.id = n.id => l = n
    BY <1>1, <1>5, <1>13, <2>1 DEF ListenersInv
  <2>4. ASSUME NEW l \in listeners', Awaits(l.id)' PROVE l.event = frames'[1].event
    <3>1. l.id \in 1 .. MaxAdds
      BY <1>2, <1>5, <1>13, <2>1
    <3>2. Awaits(l.id)
      BY <1>8, <2>4, <3>1
    <3>3. l \in listeners
      BY <1>5, <1>11, <2>1, <3>2
    <3> QED
      BY <1>1, <1>9, <3>1, <3>2, <3>3 DEF ListenersInv
  <2>5. ASSUME NEW l \in listeners', NEW i \in 1 .. Len(frames'), Replays(i, l.id)' PROVE l.event = "session.opened"
    <3>1. CASE l = entry
      BY <1>2, <1>5, <1>10, <1>11, <2>5, <3>1
    <3>2. CASE l \in listeners
      <4>1. i \in 1 .. Len(frames) /\ Replays(i, l.id)
        BY <1>10, <1>13, <2>5, <3>2
      <4> QED
        BY <1>1, <3>2, <4>1 DEF ListenersInv
    <3> QED
      BY <2>1, <3>1, <3>2
  <2> QED
    BY <2>2, <2>3, <2>4, <2>5 DEF ListenersInv
<1>15. heard[id] = {}
  BY <1>1, <1>2 DEF HeardInv
<1>16. ASSUME NEW l \in listeners', l.event = "session.opened" PROVE HeardOK(l.id)'
  <2>1. CASE l = entry
    <3>1. l.id = id /\ event = "session.opened"
      BY <1>5, <1>16, <2>1
    <3>2. PICK n \in 1 .. Len(frames') : frames'[n] = replay
      BY <1>7, <3>1
    <3>3. Replays(n, l.id)'
      BY <1>4, <3>1, <3>2 DEF Replays
    <3>4. ASSUME NEW i \in 1 .. Len(frames'), Replays(i, l.id)'
          PROVE  heard'[l.id] = frames'[i].done /\ frames'[i].done \subseteq DOMAIN open'
      <4>1. i \notin 1 .. Len(frames)
        BY <1>2, <1>10, <1>11, <3>1, <3>4
      <4>2. frames'[i] = replay
        BY <1>7, <4>1
      <4> QED
        BY <1>1, <1>4, <1>15, <3>1, <4>2
    <3> QED
      BY <3>2, <3>3, <3>4 DEF HeardOK
  <2>2. CASE l \in listeners
    <3>1. HeardOK(l.id) /\ l.id \in 1 .. MaxAdds /\ l.id # id
      BY <1>1, <1>13, <1>16, <2>2 DEF HeardInv
    <3>2. ASSUME NEW i \in 1 .. Len(frames'), Replays(i, l.id)'
          PROVE  heard'[l.id] = frames'[i].done /\ frames'[i].done \subseteq DOMAIN open'
      <4>1. i \in 1 .. Len(frames) /\ Replays(i, l.id)
        BY <1>10, <3>1, <3>2
      <4>2. heard[l.id] = frames[i].done /\ frames[i].done \subseteq DOMAIN open
        BY <3>1, <4>1 DEF HeardOK
      <4> QED
        BY <1>1, <1>7, <4>1, <4>2
    <3>3. ASSUME \A i \in 1 .. Len(frames') : ~Replays(i, l.id)'
          PROVE  IF Awaits(l.id)' THEN /\ frames'[1].session \in DOMAIN open'
                                       /\ heard'[l.id] = DOMAIN open' \ {frames'[1].session}
                 ELSE heard'[l.id] = DOMAIN open'
      <4>1. \A i \in 1 .. Len(frames) : ~Replays(i, l.id)
        BY <1>7, <1>10, <3>1, <3>3
      <4>2. IF Awaits(l.id) THEN frames[1].session \in DOMAIN open /\ heard[l.id] = DOMAIN open \ {frames[1].session}
            ELSE heard[l.id] = DOMAIN open
        BY <3>1, <4>1 DEF HeardOK
      <4>3. (Awaits(l.id)' <=> Awaits(l.id)) /\ (Awaits(l.id) => frames'[1] = frames[1])
        BY <1>8, <1>9, <3>1
      <4> QED
        BY <1>1, <4>2, <4>3
    <3> QED
      BY <3>2, <3>3 DEF HeardOK
  <2> QED
    BY <1>1, <2>1, <2>2
<1>17. HeardInv'
  <2>1. \A x \in 1 .. MaxAdds : x > adds' => heard'[x] = {}
    BY <1>1, <1>2 DEF HeardInv, id
  <2> QED
    BY <1>1, <1>16, <2>1 DEF HeardInv
<1>18. ListenType'
  <2>1. adds' \in 0 .. MaxAdds
    BY <1>1, <1>2
  <2> QED
    BY <1>1, <1>3, <1>5, <1>7, <2>1 DEF ListenType
<1> QED
  BY <1>3, <1>12, <1>14, <1>17, <1>18 DEF ListenInv

\* The frames below the loop of a replay stay, and so does the loop while it goes on.
LoopMoves(n, id, goes) ==
    /\ n \in Nat \ {0} /\ n = Len(frames) /\ Listen!Top.id = id /\ goes \in BOOLEAN
    /\ frames' \in Seq(FrameType) /\ adds' = adds
    /\ \A i \in 1 .. n - 1 : i \in 1 .. Len(frames') /\ frames'[i] = frames[i]
    /\ goes => n \in 1 .. Len(frames') /\ frames'[n].kind = "replay" /\ frames'[n].id = id
    /\ \A i \in 1 .. Len(frames') : i \in 1 .. n - 1 \/ (goes /\ i = n) \/ frames'[i].kind = "callback"

(* What the loop of a replay leaves as it is. *)
LEMMA LoopStays ==
    ASSUME ListenType, FramesInv, Listen!Runs("replay"), NEW n, NEW id, NEW goes, LoopMoves(n, id, goes)
    PROVE  /\ FramesInv'
           /\ id \in 1 .. MaxAdds /\ id <= adds /\ ~Awaits(id) /\ Replays(n, id) /\ n \in 1 .. Len(frames)
           /\ \A x \in 1 .. MaxAdds : Awaits(x)' <=> Awaits(x)
           /\ \A x \in 1 .. MaxAdds : Awaits(x) => frames'[1] = frames[1]
           /\ \A i \in 1 .. Len(frames'), x \in 1 .. MaxAdds : Replays(i, x)' =>
                 \/ i \in 1 .. n - 1 /\ Replays(i, x) /\ x # id
                 \/ goes /\ i = n /\ x = id
           /\ \A i \in 1 .. Len(frames), x \in 1 .. MaxAdds : Replays(i, x) =>
                 \/ i \in 1 .. n - 1 /\ Replays(i, x)' /\ x # id
                 \/ i = n /\ x = id
<1>0. /\ n \in Nat \ {0} /\ n = Len(frames) /\ Listen!Top.id = id /\ goes \in BOOLEAN
      /\ frames' \in Seq(FrameType) /\ adds' = adds
      /\ \A i \in 1 .. n - 1 : i \in 1 .. Len(frames') /\ frames'[i] = frames[i]
      /\ goes => n \in 1 .. Len(frames') /\ frames'[n].kind = "replay" /\ frames'[n].id = id
      /\ \A i \in 1 .. Len(frames') : i \in 1 .. n - 1 \/ (goes /\ i = n) \/ frames'[i].kind = "callback"
  BY DEF LoopMoves
<1>1. /\ frames \in Seq(FrameType) /\ frames # <<>> /\ frames[n] = Listen!Top /\ frames[n] \in FrameType
      /\ frames[n].kind = "replay" /\ n \in 1 .. Len(frames)
  BY <1>0, PopIs DEF ListenType, Listen!Runs
<1>2. id \in 1 .. MaxAdds /\ Replays(n, id)
  BY <1>0, <1>1 DEF FrameType, Replays
<1>3. id <= adds /\ ~Awaits(id) /\ \A j \in 1 .. n : Replays(j, id) => j = n
  BY <1>0, <1>1, <1>2 DEF FramesInv
<1>4. \A i \in 1 .. n : i \in 1 .. n - 1 \/ i = n
  BY <1>0
<1>5. \A i \in 1 .. n - 1 : i \in 1 .. n /\ i # n
  BY <1>0
<1>6. \A i \in 1 .. Len(frames'), x \in 1 .. MaxAdds : Replays(i, x)' =>
         \/ i \in 1 .. n - 1 /\ Replays(i, x) /\ x # id
         \/ goes /\ i = n /\ x = id
  BY <1>0, <1>3, <1>5 DEF Replays
<1>7. \A i \in 1 .. Len(frames), x \in 1 .. MaxAdds : Replays(i, x) =>
         \/ i \in 1 .. n - 1 /\ Replays(i, x)' /\ x # id
         \/ i = n /\ x = id
  BY <1>0, <1>1, <1>2, <1>3, <1>4, <1>5 DEF Replays
<1>8. /\ \A x \in 1 .. MaxAdds : Awaits(x)' <=> Awaits(x)
      /\ \A x \in 1 .. MaxAdds : Awaits(x) => frames'[1] = frames[1]
  <2>1. CASE n = 1
    <3>1. \A x \in 1 .. MaxAdds : ~Awaits(x)
      BY <1>0, <1>1, <2>1 DEF Awaits
    <3>2. frames' # <<>> => frames'[1].kind # "deliver"
      <4>1. frames' # <<>> => 1 \in 1 .. Len(frames')
        BY <1>0, EmptySeq, LenProperties
      <4>2. 1 \notin 1 .. n - 1
        BY <1>0, <2>1
      <4> QED
        BY <1>0, <2>1, <4>1, <4>2
    <3> QED
      BY <1>0, <3>1, <3>2 DEF Awaits
  <2>2. CASE n # 1
    <3>1. 1 \in 1 .. n - 1
      BY <1>0, <2>2
    <3>2. frames'[1] = frames[1] /\ 1 \in 1 .. Len(frames')
      BY <1>0, <3>1
    <3>3. frames' # <<>>
      BY <1>0, <3>2
    <3> QED
      BY <1>0, <1>1, <3>2, <3>3 DEF Awaits
  <2> QED
    BY <1>0, <2>1, <2>2
<1>9. FramesInv'
  <2>1. \A i \in 1 .. Len(frames') : frames'[i].kind = "deliver" => i = 1
    BY <1>0, <1>1, <1>5 DEF FramesInv
  <2>2. \A x \in 1 .. MaxAdds : Awaits(x)' => x <= adds'
    BY <1>0, <1>8 DEF FramesInv
  <2>3. ASSUME NEW i \in 1 .. Len(frames'), NEW x \in 1 .. MaxAdds, Replays(i, x)'
        PROVE  x <= adds' /\ ~Awaits(x)' /\ \A j \in 1 .. Len(frames') : Replays(j, x)' => j = i
    <3>1. CASE x = id
      BY <1>0, <1>3, <1>6, <1>8, <2>3, <3>1
    <3>2. CASE x # id
      <4>1. i \in 1 .. Len(frames) /\ Replays(i, x)
        BY <1>0, <1>1, <1>5, <1>6, <2>3, <3>2
      <4>2. x <= adds /\ ~Awaits(x) /\ \A j \in 1 .. Len(frames) : Replays(j, x) => j = i
        BY <1>0, <4>1 DEF FramesInv
      <4>3. \A j \in 1 .. Len(frames') : Replays(j, x)' => j \in 1 .. Len(frames) /\ Replays(j, x)
        BY <1>0, <1>1, <1>5, <1>6, <3>2
      <4> QED
        BY <1>0, <1>8, <4>2, <4>3
    <3> QED
      BY <1>0, <3>1, <3>2
  <2> QED
    BY <1>0, <2>1, <2>2, <2>3 DEF FramesInv
<1> QED
  BY <1>0, <1>1, <1>2, <1>3, <1>6, <1>7, <1>8, <1>9

(* The loop of a replay calls its listener for the next open session, or ends. *)
LEMMA ReplayNextKeeps ==
    ASSUME ListenInv, Listen!ReplayNext
    PROVE  ListenInv'
<1>1. /\ ListenType /\ WatchInv /\ QueueInv /\ FramesInv /\ ListenersInv /\ HeardInv /\ Listen!Runs("replay")
      /\ UNCHANGED <<slot, live, ended, known, queue, key, lastKey, listeners, open, adds, factWorkload>>
  BY DEF ListenInv, Listen!ReplayNext, Listen!host, Listen!bounds
<1> PICK id : id = Listen!Top.id
  OBVIOUS
<1> PICK n : n = Len(frames)
  OBVIOUS
<1>2. /\ frames \in Seq(FrameType) /\ frames # <<>> /\ n \in Nat \ {0} /\ frames[n] = Listen!Top /\ n = Len(frames)
      /\ Listen!Top \in FrameType /\ Listen!Top.kind = "replay" /\ id = Listen!Top.id
  BY <1>1, PopIs DEF ListenType, Listen!Runs
<1>3. id \in 1 .. MaxAdds /\ Listen!Top.done \in SUBSET Sessions
  BY <1>2 DEF FrameType
<1>4. n \in 1 .. Len(frames) /\ Replays(n, id)
  BY <1>2 DEF Replays
<1>5. QueueInv' /\ WatchInv'
  BY <1>1 DEF QueueInv, WatchInv, KnownNow, Listen!Announced, Listen!NoOpen
<1>6. \A l \in listeners : l.id \in 1 .. MaxAdds /\ l.id <= adds
  BY <1>1 DEF ListenType, ListenersInv
<1>7. \A l \in listeners : l.id = id =>
         l.event = "session.opened" /\ heard[id] = Listen!Top.done /\ Listen!Top.done \subseteq DOMAIN open
  BY <1>1, <1>2, <1>4 DEF ListenersInv, HeardInv, HeardOK
<1>8. ASSUME NEW goes \in BOOLEAN, frames' \in Seq(FrameType), ~twice',
             heard' \in [1 .. MaxAdds -> SUBSET Sessions], \A x \in 1 .. MaxAdds : x # id => heard'[x] = heard[x],
             \A x \in 1 .. MaxAdds : x > adds => heard'[x] = {},
             \A i \in 1 .. n - 1 : i \in 1 .. Len(frames') /\ frames'[i] = frames[i],
             goes => n \in 1 .. Len(frames') /\ frames'[n].kind = "replay" /\ frames'[n].id = id,
             \A i \in 1 .. Len(frames') : i \in 1 .. n - 1 \/ (goes /\ i = n) \/ frames'[i].kind = "callback",
             goes => heard'[id] = frames'[n].done /\ frames'[n].done \subseteq DOMAIN open,
             ~goes => \A l \in listeners : l.id = id => heard'[id] = DOMAIN open
      PROVE  ListenInv'
  <2>1. /\ FramesInv'
        /\ ~Awaits(id)
        /\ \A x \in 1 .. MaxAdds : Awaits(x)' <=> Awaits(x)
        /\ \A x \in 1 .. MaxAdds : Awaits(x) => frames'[1] = frames[1]
        /\ \A i \in 1 .. Len(frames'), x \in 1 .. MaxAdds : Replays(i, x)' =>
              \/ i \in 1 .. n - 1 /\ Replays(i, x) /\ x # id
              \/ goes /\ i = n /\ x = id
        /\ \A i \in 1 .. Len(frames), x \in 1 .. MaxAdds : Replays(i, x) =>
              \/ i \in 1 .. n - 1 /\ Replays(i, x)' /\ x # id
              \/ i = n /\ x = id
    <3>1. Listen!Top.id = id /\ n = Len(frames) /\ n \in Nat \ {0} /\ adds' = adds
      BY <1>1, <1>2
    <3>2. ListenType /\ FramesInv /\ Listen!Runs("replay") /\ frames' \in Seq(FrameType) /\ goes \in BOOLEAN
      BY <1>1, <1>8
    <3>3. /\ \A i \in 1 .. n - 1 : i \in 1 .. Len(frames') /\ frames'[i] = frames[i]
          /\ goes => n \in 1 .. Len(frames') /\ frames'[n].kind = "replay" /\ frames'[n].id = id
          /\ \A i \in 1 .. Len(frames') : i \in 1 .. n - 1 \/ (goes /\ i = n) \/ frames'[i].kind = "callback"
      BY <1>8
    <3>4. LoopMoves(n, id, goes)
      BY <3>1, <3>2, <3>3 DEF LoopMoves
    <3> QED
      BY <3>2, <3>4, LoopStays
  <2>2. \A i \in 1 .. n - 1 : i \in 1 .. Len(frames)
    BY <1>2
  <2>3. ListenType'
    BY <1>1, <1>8 DEF ListenType
  <2>4. ListenersInv'
    <3>1. \A l \in listeners' : Awaits(l.id)' => l.event = frames'[1].event
      BY <1>1, <1>6, <2>1 DEF ListenersInv
    <3>2. ASSUME NEW l \in listeners', NEW i \in 1 .. Len(frames'), Replays(i, l.id)' PROVE l.event = "session.opened"
      <4>1. CASE l.id = id
        BY <1>1, <1>7, <4>1
      <4>2. CASE l.id # id
        <5>1. i \in 1 .. Len(frames) /\ Replays(i, l.id)
          BY <1>1, <1>6, <2>1, <2>2, <3>2, <4>2
        <5> QED
          BY <1>1, <5>1 DEF ListenersInv
      <4> QED
        BY <4>1, <4>2
    <3> QED
      BY <1>1, <3>1, <3>2 DEF ListenersInv
  <2>5. ASSUME NEW l \in listeners, l.event = "session.opened" PROVE HeardOK(l.id)'
    <3>1. CASE l.id = id /\ goes
      <4>1. ASSUME NEW i \in 1 .. Len(frames'), Replays(i, l.id)'
            PROVE  heard'[l.id] = frames'[i].done /\ frames'[i].done \subseteq DOMAIN open'
        BY <1>1, <1>3, <1>8, <2>1, <3>1, <4>1
      <4>2. n \in 1 .. Len(frames') /\ Replays(n, l.id)'
        BY <1>8, <3>1 DEF Replays
      <4> QED
        BY <4>1, <4>2 DEF HeardOK
    <3>2. CASE l.id = id /\ ~goes
      <4>1. \A i \in 1 .. Len(frames') : ~Replays(i, l.id)'
        BY <1>3, <2>1, <3>2
      <4>2. ~Awaits(l.id)' /\ heard'[l.id] = DOMAIN open'
        BY <1>1, <1>3, <1>8, <2>1, <3>2
      <4> QED
        BY <4>1, <4>2 DEF HeardOK
    <3>3. CASE l.id # id
      <4>1. HeardOK(l.id) /\ l.id \in 1 .. MaxAdds /\ heard'[l.id] = heard[l.id]
        BY <1>1, <1>6, <1>8, <2>5, <3>3 DEF HeardInv
      <4>2. ASSUME NEW i \in 1 .. Len(frames'), Replays(i, l.id)'
            PROVE  heard'[l.id] = frames'[i].done /\ frames'[i].done \subseteq DOMAIN open'
        <5>1. i \in 1 .. n - 1 /\ i \in 1 .. Len(frames) /\ Replays(i, l.id)
          BY <2>1, <2>2, <3>3, <4>1, <4>2
        <5>2. frames'[i] = frames[i]
          BY <1>8, <5>1
        <5> QED
          BY <1>1, <4>1, <5>1, <5>2 DEF HeardOK
      <4>3. ASSUME \A i \in 1 .. Len(frames') : ~Replays(i, l.id)'
            PROVE  IF Awaits(l.id)' THEN /\ frames'[1].session \in DOMAIN open'
                                         /\ heard'[l.id] = DOMAIN open' \ {frames'[1].session}
                   ELSE heard'[l.id] = DOMAIN open'
        <5>1. ASSUME NEW i \in 1 .. Len(frames), Replays(i, l.id) PROVE FALSE
          <6>1. i \in 1 .. n - 1 /\ Replays(i, l.id)'
            BY <2>1, <3>3, <4>1, <5>1
          <6>2. i \in 1 .. Len(frames')
            BY <1>8, <6>1
          <6> QED
            BY <4>3, <6>1, <6>2
        <5>2. IF Awaits(l.id) THEN frames[1].session \in DOMAIN open /\ heard[l.id] = DOMAIN open \ {frames[1].session}
              ELSE heard[l.id] = DOMAIN open
          BY <4>1, <5>1 DEF HeardOK
        <5>3. (Awaits(l.id)' <=> Awaits(l.id)) /\ (Awaits(l.id) => frames'[1] = frames[1])
          BY <2>1, <4>1
        <5> QED
          BY <1>1, <4>1, <5>2, <5>3
      <4> QED
        BY <4>2, <4>3 DEF HeardOK
    <3> QED
      BY <3>1, <3>2, <3>3
  <2>6. HeardInv'
    BY <1>1, <1>8, <2>5 DEF HeardInv
  <2> QED
    BY <1>5, <2>1, <2>3, <2>4, <2>6 DEF ListenInv
<1>9. ASSUME NEW s \in DOMAIN open \ Listen!Top.done, Listen!Present(id),
             frames' = Append(Listen!SetTop([Listen!Top EXCEPT !.done = Listen!Top.done \cup {s}]), Listen!Callback(id)),
             Listen!Hears(id, "session.opened", s)
      PROVE  ListenInv'
  <2> DEFINE t == [Listen!Top EXCEPT !.done = Listen!Top.done \cup {s}]
  <2>1. s \in Sessions
    BY <1>1, <1>9 DEF ListenType
  <2>2. t \in FrameType /\ t.kind = "replay" /\ t.id = id /\ t.done = Listen!Top.done \cup {s}
    BY <1>2, <1>3, <2>1 DEF FrameType
  <2>3. frames' = Append(Listen!SetTop(t), Listen!Callback(id))
    BY <1>9
  <2> HIDE DEF t
  <2>3a. LET called == Append(Listen!SetTop(t), Listen!Callback(id)) IN
         /\ called \in Seq(FrameType) /\ Len(called) = Len(frames) + 1
         /\ called[Len(frames) + 1] = Listen!Callback(id)
         /\ \A i \in 1 .. Len(frames) : called[i] = IF i = Len(frames) THEN t ELSE frames[i]
    BY <1>2, <1>3, <2>2, CallIs
  <2>4. /\ frames' \in Seq(FrameType) /\ Len(frames') = n + 1 /\ frames'[n + 1] = Listen!Callback(id)
        /\ \A i \in 1 .. n : frames'[i] = IF i = n THEN t ELSE frames[i]
    BY <1>2, <2>3, <2>3a
  <2>5. Listen!Callback(id).kind = "callback"
    BY DEF Listen!Callback
  <2>6. /\ \A i \in 1 .. n - 1 : i \in 1 .. n /\ i # n /\ i \in 1 .. n + 1
        /\ n \in 1 .. n /\ n \in 1 .. n + 1
        /\ \A i \in 1 .. n + 1 : i \in 1 .. n - 1 \/ i = n \/ i = n + 1
    BY <1>2
  <2>7. heard' = [heard EXCEPT ![id] = heard[id] \cup {s}] /\ twice' = (twice \/ s \in heard[id])
    BY <1>9 DEF Listen!Hears
  <2>8. PICK l \in listeners : l.id = id
    BY <1>9 DEF Listen!Present
  <2>9. heard[id] = Listen!Top.done /\ Listen!Top.done \subseteq DOMAIN open /\ id <= adds
    BY <1>6, <1>7, <2>8
  <2>10. ~twice'
    BY <1>1, <1>9, <2>7, <2>9 DEF HeardInv
  <2>11. heard' \in [1 .. MaxAdds -> SUBSET Sessions]
         /\ \A x \in 1 .. MaxAdds : heard'[x] = IF x = id THEN heard[x] \cup {s} ELSE heard[x]
    BY <1>1, <1>3, <2>1, <2>7 DEF ListenType
  <2>12. \A x \in 1 .. MaxAdds : x > adds => heard'[x] = {}
    BY <1>1, <1>3, <2>9, <2>11 DEF HeardInv, ListenType
  <2>13. heard'[id] = frames'[n].done /\ frames'[n].done \subseteq DOMAIN open
    <3>1. frames'[n] = t
      BY <2>4, <2>6
    <3>2. heard'[id] = Listen!Top.done \cup {s}
      BY <1>3, <2>9, <2>11
    <3>3. Listen!Top.done \cup {s} \subseteq DOMAIN open
      BY <1>9, <2>9
    <3> QED
      BY <2>2, <3>1, <3>2, <3>3
  <2>14. \A x \in 1 .. MaxAdds : x # id => heard'[x] = heard[x]
    BY <2>11
  <2>15. /\ \A i \in 1 .. n - 1 : i \in 1 .. Len(frames') /\ frames'[i] = frames[i]
         /\ n \in 1 .. Len(frames') /\ frames'[n].kind = "replay" /\ frames'[n].id = id
    BY <2>2, <2>4, <2>6
  <2>16. \A i \in 1 .. Len(frames') : i \in 1 .. n - 1 \/ i = n \/ frames'[i].kind = "callback"
    BY <2>4, <2>5, <2>6
  <2> QED
    BY <1>8, <2>4, <2>10, <2>11, <2>12, <2>13, <2>14, <2>15, <2>16
<1>10. CASE (DOMAIN open \subseteq Listen!Top.done \/ ~Listen!Present(id)) /\ frames' = Listen!Pop /\ UNCHANGED <<heard, twice>>
  <2>1. /\ frames' \in Seq(FrameType) /\ Len(frames') = n - 1
        /\ \A i \in 1 .. n - 1 : frames'[i] = frames[i]
    BY <1>2, <1>10, PopIs
  <2>2. heard' \in [1 .. MaxAdds -> SUBSET Sessions] /\ ~twice' /\ \A x \in 1 .. MaxAdds : x > adds => heard'[x] = {}
    BY <1>1, <1>10 DEF HeardInv, ListenType
  <2>3. \A l \in listeners : l.id = id => heard'[id] = DOMAIN open
    <3>1. ASSUME NEW l \in listeners, l.id = id PROVE heard'[id] = DOMAIN open
      <4>1. DOMAIN open \subseteq Listen!Top.done
        BY <1>10, <3>1 DEF Listen!Present
      <4> QED
        BY <1>7, <1>10, <3>1, <4>1
    <3> QED
      BY <3>1
  <2> QED
    BY <1>8, <1>10, <2>1, <2>2, <2>3
<1> QED
  BY <1>2, <1>9, <1>10 DEF Listen!ReplayNext

LEMMA ListenInit == SaneFacts /\ Listen!Init => ListenInv
<1> SUFFICES ASSUME SaneFacts, Listen!Init PROVE ListenInv
  OBVIOUS
<1>1. /\ slot = [s \in Sessions |-> "none"] /\ live = [s \in Sessions |-> Listen!Idle] /\ ended = {}
      /\ known = {} /\ queue = <<>>
      /\ key = 0 /\ lastKey = 0 /\ listeners = {} /\ open = Listen!NoOpen /\ frames = <<>>
      /\ heard = [l \in 1 .. MaxAdds |-> {}] /\ twice = FALSE
      /\ adds = 0 /\ factWorkload \in FactWorkloads
  BY DEF Listen!Init
<1>2. queue \in Seq(FactType) /\ frames \in Seq(FrameType) /\ Len(queue) = 0 /\ Len(frames) = 0
  BY <1>1, EmptySeq
<1>3. 1 .. Len(queue) = {} /\ 1 .. Len(frames) = {}
  BY <1>2
<1>4. Listen!Idle \in Live
  BY DEF Listen!Idle, Live
<1>5. ListenType
  <2>1. slot \in [Sessions -> {"none", "open", "closing"}] /\ live \in [Sessions -> Live]
    BY <1>1, <1>4
  <2>2. DOMAIN open = {} /\ heard \in [1 .. MaxAdds -> SUBSET Sessions] /\ adds \in 0 .. MaxAdds
    BY <1>1 DEF SaneFacts, Listen!NoOpen
  <2> QED
    BY <1>1, <1>2, <2>1, <2>2 DEF ListenType
<1>6. WatchInv
  BY <1>1, <1>3 DEF WatchInv
<1>7. QueueInv
  <2>1. \A i \in 1 .. Len(queue) : queue[i].key # key
    BY <1>3
  <2>2. \E g : Trace(g, queue, key, open, open)
    BY <1>2, <2>1, TraceStale
  <2>3. KnownNow = open
    BY <1>1 DEF KnownNow, Listen!NoOpen
  <2> QED
    BY <2>2, <2>3 DEF QueueInv
<1>8. FramesInv /\ ListenersInv /\ HeardInv
  <2>1. \A id : ~Awaits(id)
    BY <1>1 DEF Awaits
  <2> QED
    BY <1>1, <1>3, <2>1 DEF FramesInv, ListenersInv, HeardInv
<1> QED
  BY <1>5, <1>6, <1>7, <1>8 DEF ListenInv

LEMMA ListenInvariant == ASSUME SaneFacts PROVE Listen!Spec => []ListenInv
<1>1. Listen!Init => ListenInv
  BY ListenInit
<1>2. ListenInv /\ [Listen!Next]_(Listen!vars) => ListenInv'
  <2> SUFFICES ASSUME ListenInv, [Listen!Next]_(Listen!vars) PROVE ListenInv'
    OBVIOUS
  <2>1. CASE UNCHANGED Listen!vars
    <3>1. UNCHANGED <<slot, live, ended, known, queue, key, lastKey, listeners, open, frames, heard, twice, adds, factWorkload>>
      BY <2>1 DEF Listen!vars, Listen!host, Listen!script, Listen!bounds
    <3>2. ListenType' /\ WatchInv'
      BY <3>1 DEF ListenInv, ListenType, WatchInv, Listen!Announced, Listen!NoOpen
    <3>3. QueueInv'
      BY <3>1, NoFact DEF ListenInv, KnownNow
    <3> QED
      BY <3>1, <3>2, <3>3, ScriptStays
  <2>2. CASE Listen!App
    BY <2>2, OpensKeeps, PublishKeeps, EndKeeps DEF Listen!App
  <2>3. CASE Listen!Deliver
    BY <2>3, DeliverKeeps
  <2>4. CASE Listen!DeliverNext
    BY <2>4, DeliverNextKeeps
  <2>5. CASE Listen!ReplayNext
    BY <2>5, ReplayNextKeeps
  <2>6. CASE Listen!Plugins
    BY <2>6, OnKeeps, RemovesKeep DEF Listen!Plugins
  <2> QED
    BY <2>1, <2>2, <2>3, <2>4, <2>5, <2>6 DEF Listen!Next
<1> QED
  BY <1>1, <1>2, PTL DEF Listen!Spec

\* However many sessions open, ask and close while facts of older watches wait, and whatever the callbacks of the
\* listeners add and remove: once no fact of its watch waits, the script knows each open session as it is,
\* and each listener of session.opened heard of each of them, once (facts.rs:16, facts.ts:36, 81, 126).
THEOREM FactsTrueHolds ==
    ASSUME SaneFacts
    PROVE  Listen!Spec => []Listen!FactsTrue
<1>1. ListenInv => Listen!FactsTrue
  <2> SUFFICES ASSUME ListenInv PROVE Listen!FactsTrue
    OBVIOUS
  <2>1. ListenType /\ WatchInv /\ QueueInv /\ HeardInv
    BY DEF ListenInv
  <2>2. SUFFICES ASSUME key # 0, frames = <<>>, \A i \in DOMAIN queue : queue[i].key # key
                 PROVE  /\ Listen!Announced \subseteq DOMAIN open
                        /\ DOMAIN open \subseteq {s \in Sessions : slot[s] \in {"open", "closing"} /\ s \notin ended}
                        /\ \A s \in DOMAIN open : open[s] = live[s]
                        /\ \A l \in listeners : l.event = "session.opened" => heard[l.id] = DOMAIN open
    BY <2>1 DEF HeardInv, Listen!FactsTrue
  <2>3. \A i \in 1 .. Len(queue) : queue[i].key # key
    BY <2>1, <2>2, LenProperties DEF ListenType
  <2>4. open = [s \in known |-> live[s]]
    <3>1. PICK h : Trace(h, queue, key, open, KnownNow)
      BY <2>1 DEF QueueInv
    <3>2. queue \in Seq(FactType)
      BY <2>1 DEF ListenType
    <3> HIDE DEF KnownNow
    <3>3. open = KnownNow
      BY <2>3, <3>1, <3>2, TraceQuiet
    <3> QED
      BY <3>3 DEF KnownNow
  <2>5. \A s \in known : s \in Sessions /\ slot[s] \in {"open", "closing"} /\ s \notin ended
    BY <2>1 DEF ListenType, WatchInv
  <2>6. ASSUME NEW l \in listeners, l.event = "session.opened" PROVE heard[l.id] = DOMAIN open
    <3>1. HeardOK(l.id)
      BY <2>1, <2>6 DEF HeardInv
    <3>2. 1 .. Len(frames) = {}
      BY <2>2, EmptySeq
    <3> QED
      BY <2>2, <3>1, <3>2 DEF HeardOK, Awaits
  <2> QED
    BY <2>1, <2>2, <2>4, <2>5, <2>6 DEF WatchInv
<1> QED
  BY <1>1, ListenInvariant, PTL
=============================================================================
