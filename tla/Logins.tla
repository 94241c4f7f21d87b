------------------------------- MODULE Logins -------------------------------
(***************************************************************************)
(* The stored login of one provider (yuke/auth.rs, ai/oauth.rs): the       *)
(* attempts of model requests read auth.json and refresh a login that ends *)
(* soon, the app (app.rs) logs in and out, and each write holds auth.lock. *)
(*                                                                         *)
(* Several processes share the files.  A step is the code between two      *)
(* awaits of a task, or one closure of a blocking thread.  A refresh runs  *)
(* in a task of its own, so only a crash cuts it.  The provider and the    *)
(* clock are external.  A pushed token takes no part: an attempt with one  *)
(* reads no file.                                                          *)
(***************************************************************************)
EXTENDS Naturals, FiniteSets

CONSTANTS
    Processes,
    Attempts,       \* the tasks that ask for a credential
    Home,           \* the process of each attempt
    AppProcess,     \* the process whose app logs in and out
    MaxGrants,      \* the grants of the provider
    MaxLogins       \* the logins that the app starts

NoLogin == [access |-> 0, refresh |-> 0, age |-> "none"]
Ages == {"fresh", "ending", "expired"}      \* ending: within MARGIN

VARIABLES
    file,           \* auth.json: the login of the provider
    lock,           \* auth.lock: the attempt that holds it, if one does
    pc,             \* each attempt
    seen,           \* the login that each attempt read last
    next,           \* the login that each attempt saves
    spent,          \* Login::spent of each process
    grants,         \* the grants so far; the number of a grant names its tokens
    used,           \* the refresh tokens that can be used up at the provider
    repeats,        \* those whose last exchange allows another: it was refused for now, its new
                    \* login was not saved, or its process crashed
    app,            \* the method of the app: free, starts, waits or removes
    earlier,        \* the login task that a logout waits for
    task,           \* the login tasks of the app: none, polls, stops, saves or done
    grant,          \* the grant that each login task saves, or 0
    entry,          \* pending_logins: the login in progress, or 0
    saving          \* the login tasks whose save started before the last logout

attempts == <<pc, seen, next, spent>>
provider == <<grants, used, repeats>>
appVars == <<app, earlier, task, grant, entry, saving>>
vars == <<file, lock, attempts, provider, appVars>>

Tasks == 1 .. MaxLogins
Login(number, refresh) == [access |-> number, refresh |-> refresh, age |-> "fresh"]

Init ==
    /\ file \in {Login(1, 1), NoLogin}
    /\ lock = {}
    /\ pc = [t \in Attempts |-> "idle"]
    /\ seen = [t \in Attempts |-> NoLogin] /\ next = seen
    /\ spent = [p \in Processes |-> {}]
    /\ grants = 1 /\ used = {} /\ repeats = {}
    /\ app = "free" /\ earlier = 0 /\ entry = 0 /\ saving = {}
    /\ task = [i \in Tasks |-> "none"] /\ grant = [i \in Tasks |-> 0]

\* External: the clock.
AccessAges ==
    /\ file.age \in {"fresh", "ending"}
    /\ file' = [file EXCEPT !.age = IF @ = "fresh" THEN "ending" ELSE "expired"]
    /\ UNCHANGED <<lock, attempts, provider, appVars>>
-----------------------------------------------------------------------------
(***************************************************************************)
(* An attempt.                                                             *)
(***************************************************************************)
At(t, state) == pc' = [pc EXCEPT ![t] = state]
\* The attempt has its login or its error; what it knew is gone.
Ends(t) ==
    /\ At(t, "idle")
    /\ seen' = [seen EXCEPT ![t] = NoLogin]
    /\ next' = [next EXCEPT ![t] = NoLogin]

\* credential, current: a login that lasts, or none, ends the attempt at once.
Reads(t) ==
    /\ pc[t] = "idle" /\ file.age \in {"ending", "expired"}
    /\ At(t, "locks")
    /\ UNCHANGED <<file, lock, seen, next, spent, provider, appVars>>

Locks(t) ==
    /\ pc[t] = "locks" /\ lock = {}
    /\ lock' = {t}
    /\ At(t, "refreshes")
    /\ UNCHANGED <<file, seen, next, spent, provider, appVars>>

\* The lock limit passed: only a valid token serves.
LockLimit(t) ==
    /\ pc[t] = "locks" /\ lock # {}
    /\ Ends(t)
    /\ UNCHANGED <<file, lock, spent, provider, appVars>>

\* refresh, up to the exchange: the file holds the truth, and a token that can
\* be spent does not go out.
SendsOrEnds(t) ==
    /\ pc[t] = "refreshes"
    /\ IF file.age \in {"none", "fresh"} \/ file.refresh \in spent[Home[t]]
       THEN Ends(t) /\ lock' = {}
       ELSE /\ seen' = [seen EXCEPT ![t] = file]
            /\ At(t, "sent")
            /\ UNCHANGED <<next, lock>>
    /\ UNCHANGED <<file, spent, provider, appVars>>

\* What an exchange tells of its token.  It left and brought no word of a refusal that may pass: a
\* fault after the send, an answer without a grant, or an end of the login.
UsesUp(t) == used' = used \cup {seen[t].refresh} /\ repeats' = repeats \ {seen[t].refresh}
\* A fault before the connection carried it.
NeverLeft == UNCHANGED <<used, repeats>>
\* An answer such as a 503 or an unknown code.  The exchange left, so the token can be used up.
MayPass(t) == used' = used \cup {seen[t].refresh} /\ repeats' = repeats \cup {seen[t].refresh}

\* A grant, with a new refresh token or with the old one, which then serves.
Granted(t) ==
    /\ pc[t] = "sent" /\ grants < MaxGrants
    /\ grants' = grants + 1
    /\ \/ next' = [next EXCEPT ![t] = Login(grants', grants')] /\ UsesUp(t)
       \/ /\ next' = [next EXCEPT ![t] = Login(grants', seen[t].refresh)]
          /\ used' = used \ {seen[t].refresh} /\ repeats' = repeats \ {seen[t].refresh}
    /\ At(t, "saves")
    /\ UNCHANGED <<file, lock, seen, spent, appVars>>

\* Mutant: a fault after the send counts as one before it.
RefreshFails_AllTransient(t) ==
    /\ pc[t] = "sent"
    /\ UsesUp(t) \/ NeverLeft \/ MayPass(t)
    /\ Ends(t) /\ lock' = {}
    /\ UNCHANGED <<file, spent, grants, appVars>>

\* A fault before the send and a refusal that may pass keep the login, and its token can go out
\* again.  Any other fault or answer ends the login.
RefreshFails(t) ==
    /\ pc[t] = "sent"
    /\ \/ /\ Ends(t) /\ lock' = {}
          /\ NeverLeft \/ MayPass(t)
       \/ /\ At(t, "saves") /\ next' = [next EXCEPT ![t] = NoLogin]
          /\ UsesUp(t)
          /\ UNCHANGED <<seen, lock>>
    /\ UNCHANGED <<file, spent, grants, appVars>>

\* save: the closure writes, or fails, and releases the lock.
Saves(t) ==
    /\ pc[t] = "saves"
    /\ lock' = {}
    /\ \/ file' = next[t] /\ Ends(t) /\ UNCHANGED repeats
       \/ /\ At(t, "unsaved")
          /\ repeats' = repeats \cup {seen[t].refresh}
          /\ UNCHANGED <<file, seen, next>>
    /\ UNCHANGED <<spent, grants, used, appVars>>

\* The task learns that the save failed.
Spends(t) ==
    /\ pc[t] = "unsaved"
    /\ spent' = [spent EXCEPT ![Home[t]] = @ \cup {seen[t].refresh}]
    /\ Ends(t)
    /\ UNCHANGED <<file, lock, provider, appVars>>

\* A crash of a process: its lock ends with it, and its exchange can arrive.
Crash(p) ==
    LET own == {t \in Attempts : Home[t] = p}
        cut == {seen[t].refresh : t \in {u \in own : pc[u] \in {"sent", "saves", "unsaved"}}}
    IN  /\ pc' = [t \in Attempts |-> IF t \in own THEN "idle" ELSE pc[t]]
        /\ seen' = [t \in Attempts |-> IF t \in own THEN NoLogin ELSE seen[t]]
        /\ next' = [t \in Attempts |-> IF t \in own THEN NoLogin ELSE next[t]]
        /\ lock' = lock \ own
        /\ spent' = [spent EXCEPT ![p] = {}]
        /\ used' = used \cup cut /\ repeats' = repeats \cup cut
        /\ IF p # AppProcess THEN UNCHANGED appVars
           ELSE /\ app' = "free" /\ entry' = 0 /\ earlier' = 0
                /\ task' = [i \in Tasks |-> IF task[i] = "none" THEN "none" ELSE "done"]
                /\ grant' = [i \in Tasks |-> 0] /\ saving' = {}
        /\ UNCHANGED <<file, grants>>
-----------------------------------------------------------------------------
(***************************************************************************)
(* The app: one method at a time, and the tasks of the device logins.      *)
(***************************************************************************)

\* The token of a login task; a save that started goes on.
Stop(i) == task' = [j \in Tasks |-> IF j = i /\ task[j] = "polls" THEN "stops" ELSE task[j]]

\* App::login, up to the answer of the provider: the earlier login is told to stop.
LoginStarts ==
    /\ app = "free" /\ \E i \in Tasks : task[i] = "none"
    /\ app' = "starts"
    /\ entry' = 0 /\ Stop(entry)
    /\ UNCHANGED <<file, lock, attempts, provider, earlier, grant, saving>>
LoginStarted ==
    /\ app = "starts"
    /\ app' = "free"
    /\ \/ \E i \in Tasks :
            /\ task[i] = "none" /\ \A j \in 1 .. i - 1 : task[j] # "none"
            /\ task' = [task EXCEPT ![i] = "polls"]
            /\ entry' = i
       \/ UNCHANGED <<task, entry>>
    /\ UNCHANGED <<file, lock, attempts, provider, earlier, grant, saving>>

\* App::cancel_login
CancelLogin ==
    /\ app = "free" /\ entry # 0
    /\ Stop(entry)
    /\ UNCHANGED <<file, lock, attempts, provider, app, earlier, grant, entry, saving>>

\* The polls: the user approved, or they ended.
Approved(i) ==
    /\ task[i] \in {"polls", "stops"} /\ grants < MaxGrants
    /\ grants' = grants + 1
    /\ task' = [task EXCEPT ![i] = "saves"]
    /\ grant' = [grant EXCEPT ![i] = grants']
    /\ UNCHANGED <<file, lock, attempts, used, repeats, app, earlier, entry, saving>>

\* A newer login keeps its entry.
TaskEnds(i) ==
    /\ task' = [task EXCEPT ![i] = "done"]
    /\ grant' = [grant EXCEPT ![i] = 0]
    /\ entry' = IF entry = i THEN 0 ELSE entry
    /\ saving' = saving \ {i}
    /\ UNCHANGED <<lock, attempts, provider, app, earlier>>
PollsEnd(i) == task[i] \in {"polls", "stops"} /\ TaskEnds(i) /\ UNCHANGED file

\* Mutant: a login saves without the lock.
LoginSaved_NoLock(i) ==
    /\ task[i] = "saves"
    /\ file' = Login(grant[i], grant[i])
    /\ TaskEnds(i)

\* save_login: the closure takes the lock and writes, or fails.
LoginSaved(i) ==
    /\ task[i] = "saves" /\ lock = {}
    /\ file' = Login(grant[i], grant[i])
    /\ TaskEnds(i)
LoginUnsaved(i) == task[i] = "saves" /\ TaskEnds(i) /\ UNCHANGED file

\* Mutant: a logout waits for the login in progress and does not stop it.
LogoutStarts_NoStop ==
    /\ app = "free"
    /\ app' = IF entry = 0 THEN "removes" ELSE "waits"
    /\ earlier' = entry /\ entry' = 0
    /\ saving' = {i \in Tasks : task[i] = "saves"}
    /\ UNCHANGED <<file, lock, attempts, provider, task, grant>>

\* App::logout: the login in progress ends, then the removal.
LogoutStarts ==
    /\ app = "free"
    /\ app' = IF entry = 0 THEN "removes" ELSE "waits"
    /\ earlier' = entry /\ entry' = 0
    /\ saving' = {i \in Tasks : task[i] = "saves"}
    /\ Stop(entry)
    /\ UNCHANGED <<file, lock, attempts, provider, grant>>
LogoutWaited ==
    /\ app = "waits" /\ task[earlier] = "done"
    /\ app' = "removes" /\ earlier' = 0
    /\ UNCHANGED <<file, lock, attempts, provider, task, grant, entry, saving>>
LogoutEnds ==
    /\ app = "removes"
    /\ app' = "free"
    /\ saving' = {}
    /\ (lock = {} /\ file' = NoLogin) \/ UNCHANGED file
    /\ UNCHANGED <<lock, attempts, provider, earlier, task, grant, entry>>
-----------------------------------------------------------------------------
Attempt(t) ==
    \/ Reads(t) \/ Locks(t) \/ LockLimit(t) \/ SendsOrEnds(t)
    \/ Granted(t) \/ RefreshFails(t) \/ Saves(t) \/ Spends(t)
LoginTask(i) == Approved(i) \/ PollsEnd(i) \/ LoginSaved(i) \/ LoginUnsaved(i)
AppSteps == LoginStarted \/ LogoutWaited \/ LogoutEnds

Next ==
    \/ AccessAges
    \/ \E t \in Attempts : Attempt(t)
    \/ \E p \in Processes : Crash(p)
    \/ LoginStarts \/ CancelLogin \/ LogoutStarts \/ AppSteps
    \/ \E i \in Tasks : LoginTask(i)

Spec == Init /\ [][Next]_vars

\* The lock and the exchange have limits, and a stopped login ends its polls.
Fairness ==
    /\ \A t \in Attempts : WF_vars(pc[t] # "idle" /\ Attempt(t))
    /\ \A i \in Tasks :
         WF_vars((task[i] = "stops" /\ PollsEnd(i)) \/ LoginSaved(i) \/ LoginUnsaved(i))
    /\ WF_vars(AppSteps)
FairSpec == Spec /\ Fairness
-----------------------------------------------------------------------------
(***************************************************************************)
(* Properties                                                              *)
(***************************************************************************)
Sends(t) == pc[t] = "refreshes" /\ pc'[t] = "sent"

\* A refresh token that can be used up goes out again only when the save of its
\* new login failed, its process crashed, or the provider itself answered its last
\* exchange with a refusal that may pass (auth.rs:2, 442, 454; oauth.rs:188, 384).
\* An exchange without an answer never repeats.
RefreshOnce == [][\A t \in Attempts : Sends(t) => file.refresh \notin used \ repeats]_vars

\* The save of a refresh replaces the login that it sent, and never a new login
\* or a logout of another writer (auth.rs:230, 469).
SaveReplacesOwn ==
    [][\A t \in Attempts : pc[t] = "saves" /\ pc'[t] = "idle" /\ file'.access # file.access
         => file.access = seen[t].access]_vars

\* An attempt ends, and a method of the app ends, also when the user never
\* approves the login that it waits for (auth.rs:29, app.rs:642).
LoginsEnd ==
    /\ \A t \in Attempts : pc[t] # "idle" ~> pc[t] = "idle"
    /\ app # "free" ~> app = "free"

\* The comment at auth.rs:381: a token that a refresh can have spent while the
\* file still holds it never goes out again.
UsedUp(p) == spent[p] \cup {seen[t].refresh : t \in {u \in Attempts : Home[u] = p /\ pc[u] = "unsaved"}}
SpentStays == [][\A t \in Attempts : Sends(t) => file.refresh \notin UsedUp(Home[t])]_vars

\* The comment at app.rs:634: the removal of a logout comes after each save that
\* started before it.
LogoutRemoves == [][app = "removes" /\ app' = "free" /\ file' = NoLogin => saving = {}]_vars
=============================================================================
