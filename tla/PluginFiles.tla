----------------------------- MODULE PluginFiles -----------------------------
(***************************************************************************)
(* The files of the plugin manager (yuke/src/plugins/manager.rs, lock.rs): *)
(* the Git plugins of config.json, their commits in plugins.lock, and the  *)
(* installs.  Calls of several processes take turns under one file lock,   *)
(* and stop at any step: an error, a dropped future, a crash.  The user    *)
(* edits config.json at any time, and the refs of the plugins move.        *)
(*                                                                         *)
(* A plugin is its source; one plugin has one repository.  Each write of a *)
(* file is one rename (config.rs:145), and the read of the text that it    *)
(* edits comes right before it, so the two are one step.  A fetch into the *)
(* cache has no effect here but that it can fail.  The user brings another *)
(* plugins.lock with the dotfiles only while no call runs: the first lock. *)
(***************************************************************************)
EXTENDS Naturals, Functions

CONSTANTS
    Procs,      \* bound: the processes, with one call each
    Sources,    \* the Git plugins
    Commits,    \* bound: the commits of each one, from 1 on
    Workloads   \* bound: the calls, the edits, the plugins of the first files, those of one name, and the commits that do not load

VARIABLES
    config,     \* the plugins of config.json
    lock,       \* plugins.lock
    remote,     \* the commit of the ref of each plugin
    installed,  \* <data>/git: what each folder of a commit holds
    staging,    \* what each staging folder holds
    holder,     \* who holds manager.lock
    call,       \* the call of each process
    changes,    \* what checks told the clients: the plugin and its new commit
    edits,      \* the hand edits and the moves of refs so far
    gone,       \* history: the plugins that an edit, or a removal that stopped, took out of config.json only
    brought,    \* history: the commits that came with the first lock
    workload    \* the workload of this behaviour

files == <<config, lock, installed, staging>>
world == <<remote, edits, workload, brought>>
vars == <<files, world, holder, call, changes, gone>>

NoCall == [kind |-> "none"]
EmptyLock == [s \in {} |-> 1]
Put(l, s, c) == [t \in DOMAIN l \cup {s} |-> IF t = s THEN c ELSE l[t]]
Entries(l) == {<<s, l[s]>> : s \in DOMAIN l}

\* A user brings config.json and plugins.lock from another machine, and nothing is installed.
Init ==
    /\ workload \in Workloads
    /\ config \in SUBSET workload.brings
    /\ \E locked \in SUBSET config : lock \in [locked -> Commits]
    /\ brought = Entries(lock)
    /\ remote = [s \in Sources |-> 1]
    /\ installed = [i \in Sources \X Commits |-> "none"] /\ staging = installed
    /\ holder = "none" /\ call = [p \in Procs |-> NoCall]
    /\ changes = {} /\ edits = 0 /\ gone = {}
-----------------------------------------------------------------------------
(***************************************************************************)
(* The parts of a call                                                     *)
(***************************************************************************)
At(p, pc) == call[p].kind # "none" /\ call[p].pc = pc
Goes(p, c) == call' = [call EXCEPT ![p] = c] /\ UNCHANGED holder
Returns(p) == call' = [call EXCEPT ![p] = NoCall] /\ holder' = "none"

\* name_of: the manifest of the locked and installed commit
Readable(l, s) == s \in DOMAIN l /\ installed[<<s, l[s]>>] # "none"
Clash(c) == \E s \in c.config : Readable(lock, s) /\ {s, c.source} \in workload.oneName

\* An error, a drop or a crash of the call: nothing more happens, and the file lock is free.
Stops(p) ==
    /\ call[p].kind # "none"
    /\ call' = [call EXCEPT ![p] = NoCall]
    /\ holder' = IF holder = p THEN "none" ELSE holder
    /\ UNCHANGED <<files, world, changes, gone>>

\* Mutant: a call does not wait for another one.
Free_Always == TRUE

Free == holder = "none"

Syncs == {"sync", "sync_locked"}
Checks == {"check", "check_all"}
Kinds == {"add", "remove", "apply"} \cup Syncs \cup Checks

Refused(c) ==
    CASE c.kind = "add" -> c.source \in config
      [] c.kind \in {"remove", "check"} -> c.source \notin config \/ ~Readable(c.lock, c.source)
      [] c.kind = "check_all" -> \E s \in config : ~Readable(c.lock, s)
      [] c.kind = "sync_locked" -> DOMAIN c.lock # config
      [] OTHER -> FALSE

\* A call takes the lock, reads the files, and goes on.  A config.json without a Git plugin has an empty lock.
Starts(p) ==
    /\ call[p].kind = "none" /\ Free
    /\ \E kind \in workload.calls, change \in Sources \X Commits :
           LET c == [kind |-> kind, source |-> change[1], new |-> change[2], commits |-> EmptyLock,
                     config |-> config, lock |-> IF config = {} THEN EmptyLock ELSE lock,
                     todo |-> IF kind \in Syncs \cup {"check_all"} THEN config ELSE {change[1]},
                     pc |-> CASE kind = "apply" -> "lock" [] kind = "remove" -> "config" [] OTHER -> "resolve"]
           IN /\ IF kind = "apply" THEN change \in changes ELSE change[2] = 1
              /\ ~Refused(c)
              /\ call' = [call EXCEPT ![p] = c]
    /\ holder' = p
    /\ UNCHANGED <<files, world, changes, gone>>
-----------------------------------------------------------------------------
(***************************************************************************)
(* Resolve and install                                                     *)
(***************************************************************************)
\* The commit of the next plugin
Resolves(p) ==
    /\ At(p, "resolve")
    /\ LET c == call[p] IN
       IF c.todo = {} THEN Goes(p, [c EXCEPT !.pc = "lock"])
       ELSE \E s \in c.todo :
                LET new == IF c.kind \in Syncs /\ s \in DOMAIN c.lock THEN c.lock[s] ELSE remote[s]
                    next == [c EXCEPT !.source = s, !.new = new, !.todo = @ \ {s}]
                IN IF c.kind \in Checks /\ new = c.lock[s] THEN Goes(p, next)
                   ELSE Goes(p, [next EXCEPT !.pc = "install"])
    /\ UNCHANGED <<files, world, changes, gone>>

Folder(c) == <<c.source, c.new>>

\* The install is done: the next plugin, or the files of an add.
Installed(c) ==
    IF c.kind = "add" THEN [c EXCEPT !.pc = "config"]
    ELSE [c EXCEPT !.pc = "resolve", !.commits = Put(@, c.source, c.new)]

\* install: the folder is there, or a staging folder starts empty after the fetch.
Installs(p) ==
    /\ At(p, "install")
    /\ LET c == call[p] IN
       IF installed[Folder(c)] # "none"
       THEN Goes(p, Installed(c)) /\ UNCHANGED staging
       ELSE staging' = [staging EXCEPT ![Folder(c)] = "part"] /\ Goes(p, [c EXCEPT !.pc = "export"])
    /\ UNCHANGED <<config, lock, installed, world, changes, gone>>

Exports(p) ==
    /\ At(p, "export")
    /\ staging' = [staging EXCEPT ![Folder(call[p])] = "whole"]
    /\ Goes(p, [call[p] EXCEPT !.pc = "rename"])
    /\ UNCHANGED <<config, lock, installed, world, changes, gone>>

\* The manifest loads, and the rename shows the folder.
Renames(p) ==
    /\ At(p, "rename") /\ call[p].new \notin workload.bad
    /\ installed' = [installed EXCEPT ![Folder(call[p])] = staging[Folder(call[p])]]
    /\ staging' = [staging EXCEPT ![Folder(call[p])] = "none"]
    /\ Goes(p, Installed(call[p]))
    /\ UNCHANGED <<config, lock, world, changes, gone>>
-----------------------------------------------------------------------------
(***************************************************************************)
(* The writes                                                              *)
(***************************************************************************)
\* The new text of config.json is the text now with one edit.  An add reads plugins.lock here, before the write.
WritesConfig(p) ==
    /\ At(p, "config")
    /\ LET c == call[p] IN
       IF c.kind = "add"
       THEN IF Clash(c) THEN Returns(p) /\ UNCHANGED <<config, gone>>
            ELSE /\ config' = config \cup {c.source} /\ gone' = gone \ {c.source}
                 /\ Goes(p, [c EXCEPT !.pc = "lock",
                                      !.commits = Put(Restrict(lock, DOMAIN lock \cap c.config), c.source, c.new)])
       ELSE /\ config' = config \ {c.source} /\ gone' = gone \cup {c.source}
            /\ Goes(p, [c EXCEPT !.pc = "lock", !.commits = Restrict(c.lock, DOMAIN c.lock \ {c.source})])
    /\ UNCHANGED <<lock, installed, staging, world, changes>>

\* apply: a change of a plugin that the lock does not have writes nothing.
Applied(c) == [s \in DOMAIN lock |-> IF s = c.source THEN c.new ELSE lock[s]]

WritesLock(p) ==
    /\ At(p, "lock")
    /\ LET c == call[p] IN
       /\ lock' = CASE c.kind \in Checks \cup {"sync_locked"} -> lock
                    [] c.kind = "apply" -> Applied(c)
                    [] OTHER -> c.commits
       /\ changes' = IF c.kind \in Checks THEN changes \cup Entries(c.commits) ELSE changes
    /\ Returns(p)
    /\ UNCHANGED <<config, installed, staging, world, gone>>
-----------------------------------------------------------------------------
(***************************************************************************)
(* The user, and the repositories                                          *)
(***************************************************************************)
Edits ==
    /\ edits < workload.edits /\ edits' = edits + 1
    /\ \E s \in Sources :
           /\ config' = IF s \in config THEN config \ {s} ELSE config \cup {s}
           /\ gone' = IF s \in config THEN gone \cup {s} ELSE gone \ {s}
    /\ UNCHANGED <<lock, installed, staging, remote, workload, brought, holder, call, changes>>

RefMoves ==
    /\ edits < workload.edits /\ edits' = edits + 1
    /\ \E s \in Sources, c \in Commits : remote' = [remote EXCEPT ![s] = c]
    /\ UNCHANGED <<files, workload, brought, holder, call, changes, gone>>

Steps(p) ==
    \/ Starts(p) \/ Resolves(p) \/ Installs(p) \/ Exports(p) \/ Renames(p)
    \/ WritesConfig(p) \/ WritesLock(p) \/ Stops(p)
Next == (\E p \in Procs : Steps(p)) \/ Edits \/ RefMoves
Spec == Init /\ [][Next]_vars
-----------------------------------------------------------------------------
(***************************************************************************)
(* Properties                                                              *)
(***************************************************************************)
Whole(s, c) == installed[<<s, c>>] = "whole"

\* What a reload can load: each install is whole and loads, each locked commit that did
\* not come with the files of the user is installed, and the lock has only plugins of
\* config.json, unless an edit or a stopped removal took one out.
FilesTrue ==
    /\ \A i \in DOMAIN installed : installed[i] = "none" \/ (installed[i] = "whole" /\ i[2] \notin workload.bad)
    /\ \A s \in DOMAIN lock : <<s, lock[s]>> \in brought \/ Whole(s, lock[s])
    /\ DOMAIN lock \subseteq config \cup gone

\* A sync is about to leave each plugin that it read locked and installed, and to move none.
SyncsTrue ==
    \A p \in Procs : At(p, "lock") /\ call[p].kind \in Syncs =>
        LET c == call[p] IN
        /\ DOMAIN c.commits = c.config
        /\ \A s \in c.config : Whole(s, c.commits[s]) /\ (s \in DOMAIN c.lock => c.commits[s] = c.lock[s])
        /\ c.kind = "sync_locked" /\ c.config # {} => c.commits = lock

\* The lock that a call is about to write moves no locked plugin, but one that an edit took
\* out of config.json and this call adds again.
NoneMoves ==
    \A p \in Procs : At(p, "lock") /\ call[p].kind \in {"add", "remove"} \cup Syncs =>
        LET c == call[p] IN
        \A s \in DOMAIN c.commits \cap DOMAIN lock :
            c.commits[s] = lock[s] \/ (c.kind = "add" /\ s = c.source /\ s \notin c.config)

\* Whatever stops a call, and whatever the user edits meanwhile, a reload finds whole
\* installs of the locked commits and a sync repairs the rest; a locked plugin moves only
\* when a client applies a change, or when it is added again (manager.rs:54, 153, 259, 283).
PluginsTrue == FilesTrue /\ SyncsTrue /\ NoneMoves
=============================================================================
