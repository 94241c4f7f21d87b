----------------------------- MODULE EdgesProofs -----------------------------
(***************************************************************************)
(* Theorems about the two edges of the program, its logins and its         *)
(* connections (the run `edges` has both).                                 *)
(*                                                                         *)
(* Logins, for every set of processes and attempts and every bound: no     *)
(* assumption about the constants is needed.                               *)
(* What an attempt read stays in the file while it holds the lock          *)
(* (LockInv).  A refresh token that the provider can have used up, and     *)
(* that may not go out again, is in the file only while an attempt saves   *)
(* what its exchange brought (FileUnused), and no attempt saves such a     *)
(* token (NextUnused).  A login task brings a token that nobody else knows *)
(* (GrantsNew), so its save keeps both.                                    *)
(***************************************************************************)
EXTENDS Logins, ConnectionBounds, SequenceTheorems, TLAPS

Logged == [access : Nat, refresh : Nat, age : Ages \cup {"none"}]
Exchanging == {"sent", "saves", "unsaved"}

TypeOK ==
    /\ file \in Logged
    /\ lock \subseteq Attempts
    /\ pc \in [Attempts -> {"idle", "locks", "refreshes"} \cup Exchanging]
    /\ seen \in [Attempts -> Logged] /\ next \in [Attempts -> Logged]
    /\ grants \in Nat /\ used \subseteq Nat /\ repeats \subseteq Nat
    /\ task \in [Tasks -> {"none", "polls", "stops", "saves", "done"}]
    /\ grant \in [Tasks -> Nat]

\* An attempt holds the lock from its read to its save, and the file keeps the login that it sent.
LockInv ==
    \A t \in Attempts :
        /\ pc[t] \in {"refreshes", "sent", "saves"} => lock = {t}
        /\ pc[t] \in {"sent", "saves"} =>
               file.access = seen[t].access /\ file.refresh = seen[t].refresh

\* The grants are counted, so a new one has a number that no one knows.
Known ==
    /\ file.refresh <= grants
    /\ \A t \in Attempts : seen[t].refresh <= grants /\ next[t].refresh <= grants
    /\ \A i \in Tasks : grant[i] <= grants
    /\ \A n \in used : n <= grants

\* No login has the number 0.
NoToken ==
    /\ 0 \notin used
    /\ file.age # "none" => file.refresh # 0
    /\ \A t \in Attempts :
        /\ pc[t] \in Exchanging => seen[t].refresh # 0
        /\ next[t].age # "none" => next[t].refresh # 0

FileUnused ==
    file.refresh \in used \ repeats =>
        \E t \in Attempts : pc[t] = "saves" /\ seen[t].refresh = file.refresh

NextUnused == \A t \in Attempts : pc[t] = "saves" => next[t].refresh \notin used \ repeats

\* The token of a login task is known to that task alone.
GrantsNew ==
    \A i \in Tasks : task[i] = "saves" =>
        /\ grant[i] # 0 /\ grant[i] \notin used /\ grant[i] # file.refresh
        /\ \A t \in Attempts : grant[i] # seen[t].refresh /\ grant[i] # next[t].refresh
        /\ \A j \in Tasks : task[j] = "saves" /\ j # i => grant[i] # grant[j]

IInv == TypeOK /\ LockInv /\ Known /\ NoToken /\ FileUnused /\ NextUnused /\ GrantsNew

-----------------------------------------------------------------------------
(* Steps *)

\* No attempt and no login runs at the start.
LEMMA InitInv == Init => IInv
<1> SUFFICES ASSUME Init PROVE IInv
  OBVIOUS
<1>1. NoLogin \in Logged /\ Login(1, 1) \in Logged
  BY DEF NoLogin, Login, Logged, Ages
<1>2. TypeOK
  BY <1>1 DEF Init, TypeOK
<1>3. LockInv /\ FileUnused /\ NextUnused /\ GrantsNew
  BY DEF Init, LockInv, FileUnused, NextUnused, GrantsNew
<1>4. Known /\ NoToken
  BY DEF Init, Known, NoToken, NoLogin, Login, Exchanging
<1> QED
  BY <1>2, <1>3, <1>4 DEF IInv

\* A step of the app that writes no login and brings no grant.
LEMMA AppStep ==
    ASSUME IInv, UNCHANGED <<file, lock, attempts, provider>>,
           task' \in [Tasks -> {"none", "polls", "stops", "saves", "done"}],
           grant' \in [Tasks -> Nat],
           \A i \in Tasks : grant'[i] \in {0, grant[i]},
           \A i \in Tasks : task'[i] = "saves" => task[i] = "saves" /\ grant'[i] = grant[i]
    PROVE  IInv'
<1>1. UNCHANGED <<file, lock, pc, seen, next, grants, used, repeats>>
  BY DEF attempts, provider
<1>2. TypeOK' /\ LockInv' /\ NoToken' /\ FileUnused' /\ NextUnused'
  BY <1>1 DEF IInv, TypeOK, LockInv, NoToken, FileUnused, NextUnused
<1>3. Known'
  BY <1>1 DEF IInv, TypeOK, Known
<1>4. GrantsNew'
  BY <1>1 DEF IInv, GrantsNew
<1> QED
  BY <1>2, <1>3, <1>4 DEF IInv

\* An attempt that goes on, or ends, before its exchange or after its save.
LEMMA AttemptStep ==
    ASSUME IInv, NEW t \in Attempts, NEW state \in {"idle", "locks", "refreshes"}, At(t, state),
           seen' \in {seen, [seen EXCEPT ![t] = NoLogin]},
           next' \in {next, [next EXCEPT ![t] = NoLogin]},
           lock' \subseteq Attempts,
           state = "refreshes" => lock' = {t},
           \A u \in Attempts \ {t} : pc[u] \in {"refreshes", "sent", "saves"} => lock' = lock,
           pc[t] \notin {"sent", "saves"},
           UNCHANGED <<file, provider, appVars>>
    PROVE  IInv'
<1>1. UNCHANGED <<file, grants, used, repeats, task, grant>>
  BY DEF provider, appVars
<1>2. NoLogin \in Logged /\ NoLogin.refresh = 0 /\ NoLogin.age = "none"
  BY DEF NoLogin, Logged
<1>3. /\ pc' \in [Attempts -> {"idle", "locks", "refreshes"} \cup Exchanging]
      /\ pc'[t] = state /\ \A u \in Attempts \ {t} : pc'[u] = pc[u]
  BY DEF At, IInv, TypeOK
<1>4. /\ seen' \in [Attempts -> Logged] /\ seen'[t] \in {seen[t], NoLogin}
      /\ \A u \in Attempts \ {t} : seen'[u] = seen[u]
  BY <1>2 DEF IInv, TypeOK
<1>5. /\ next' \in [Attempts -> Logged] /\ next'[t] \in {next[t], NoLogin}
      /\ \A u \in Attempts \ {t} : next'[u] = next[u]
  BY <1>2 DEF IInv, TypeOK
<1>6. TypeOK'
  BY <1>1, <1>3, <1>4, <1>5 DEF IInv, TypeOK
<1>7. LockInv'
  BY <1>1, <1>3, <1>4 DEF IInv, LockInv
<1>8. Known'
  BY <1>1, <1>2, <1>4, <1>5 DEF IInv, TypeOK, Known
<1>9. NoToken'
  BY <1>1, <1>2, <1>3, <1>4, <1>5 DEF IInv, NoToken, Exchanging
<1>10. FileUnused' /\ NextUnused'
  BY <1>1, <1>3, <1>4, <1>5 DEF IInv, FileUnused, NextUnused
<1>11. GrantsNew'
  BY <1>1, <1>2, <1>4, <1>5 DEF IInv, GrantsNew
<1> QED
  BY <1>6, <1>7, <1>8, <1>9, <1>10, <1>11 DEF IInv

\* A step that writes a login of a new owner, or none, while no attempt exchanges.
LEMMA WriteStep ==
    ASSUME IInv, lock = {}, file' \in Logged, UNCHANGED <<lock, attempts, provider>>,
           file'.refresh <= grants, file'.refresh \notin used,
           file'.age # "none" => file'.refresh # 0,
           task' \in [Tasks -> {"none", "polls", "stops", "saves", "done"}],
           grant' \in [Tasks -> Nat],
           \A i \in Tasks : grant'[i] \in {0, grant[i]},
           \A i \in Tasks : task'[i] = "saves" =>
               task[i] = "saves" /\ grant'[i] = grant[i] /\ grant[i] # file'.refresh
    PROVE  IInv'
<1>1. UNCHANGED <<lock, pc, seen, next, grants, used, repeats>>
  BY DEF attempts, provider
<1>2. TypeOK'
  BY <1>1 DEF IInv, TypeOK
<1>3. LockInv'
  BY <1>1 DEF IInv, LockInv
<1>4. Known'
  BY <1>1 DEF IInv, TypeOK, Known
<1>5. NoToken' /\ FileUnused' /\ NextUnused'
  BY <1>1 DEF IInv, NoToken, FileUnused, NextUnused
<1>6. GrantsNew'
  BY <1>1 DEF IInv, GrantsNew
<1> QED
  BY <1>2, <1>3, <1>4, <1>5, <1>6 DEF IInv

\* The answer of an exchange is saved: a new login with a new token or the old one, or the end of the
\* login.
LEMMA AnswerStep ==
    ASSUME IInv, NEW t \in Attempts, pc[t] = "sent", At(t, "saves"),
           NEW new \in Logged, next' = [next EXCEPT ![t] = new],
           grants' \in {grants, grants + 1}, new.refresh <= grants',
           new.age # "none" => new.refresh # 0,
           \/ new.refresh = 0 /\ UsesUp(t)
           \/ new.refresh = grants + 1 /\ UsesUp(t)
           \/ /\ new.refresh = seen[t].refresh
              /\ used' = used \ {seen[t].refresh} /\ repeats' = repeats \ {seen[t].refresh},
           UNCHANGED <<file, lock, seen, appVars>>
    PROVE  IInv'
<1>1. UNCHANGED <<task, grant>>
  BY DEF appVars
<1>2. /\ pc' \in [Attempts -> {"idle", "locks", "refreshes"} \cup Exchanging]
      /\ pc'[t] = "saves" /\ \A u \in Attempts \ {t} : pc'[u] = pc[u]
  BY DEF At, IInv, TypeOK, Exchanging
<1>3. /\ next' \in [Attempts -> Logged] /\ next'[t] = new
      /\ \A u \in Attempts \ {t} : next'[u] = next[u]
  BY DEF IInv, TypeOK
<1>4. /\ lock = {t} /\ file.refresh = seen[t].refresh
      /\ \A u \in Attempts \ {t} : pc[u] \notin {"refreshes", "sent", "saves"}
  BY DEF IInv, LockInv
<1>5. seen[t] \in Logged /\ seen[t].refresh \in Nat /\ seen[t].refresh # 0
  BY DEF IInv, TypeOK, Logged, NoToken, Exchanging
<1>6. used' \subseteq used \cup {seen[t].refresh} /\ repeats' = repeats \ {seen[t].refresh}
  BY DEF UsesUp
<1>7. TypeOK'
  <2>1. used \subseteq Nat /\ repeats \subseteq Nat /\ grants \in Nat
    BY DEF IInv, TypeOK
  <2>2. grants' \in Nat
    BY <2>1
  <2>3. used' \subseteq Nat /\ repeats' \subseteq Nat
    BY <1>5, <1>6, <2>1, Zenon
  <2>4. UNCHANGED <<file, lock, seen>>
    OBVIOUS
  <2> QED
    BY <1>1, <1>2, <1>3, <2>2, <2>3, <2>4 DEF IInv, TypeOK
<1>8. LockInv'
  BY <1>2, <1>4 DEF IInv, LockInv
<1>9. Known'
  BY <1>1, <1>3, <1>6, <1>7 DEF IInv, TypeOK, Known, Logged
<1>10. NoToken'
  BY <1>2, <1>3, <1>5, <1>6 DEF IInv, NoToken, Exchanging
<1>11. FileUnused'
  BY <1>2, <1>4, <1>6 DEF IInv, FileUnused
<1>12. new.refresh \notin used' \ repeats'
  BY <1>5 DEF UsesUp, IInv, TypeOK, Known, NoToken
<1>13. NextUnused'
  BY <1>2, <1>3, <1>4, <1>12 DEF NextUnused
<1>14. GrantsNew'
  BY <1>1, <1>3, <1>6 DEF IInv, TypeOK, Known, GrantsNew
<1> QED
  BY <1>7, <1>8, <1>9, <1>10, <1>11, <1>13, <1>14 DEF IInv

\* A save writes the login, or its failure gives the token up.
LEMMA SavesStep ==
    ASSUME IInv, NEW t \in Attempts, Saves(t)
    PROVE  IInv'
<1>1. UNCHANGED <<grants, used, task, grant>> /\ lock' = {}
  BY DEF Saves, appVars
<1>2. /\ lock = {t} /\ file.refresh = seen[t].refresh
      /\ \A u \in Attempts \ {t} : pc[u] \notin {"refreshes", "sent", "saves"}
  BY DEF IInv, LockInv, Saves
<1>3. NoLogin \in Logged /\ NoLogin.refresh = 0 /\ NoLogin.age = "none"
  BY DEF NoLogin, Logged
<1>4. seen[t] \in Logged /\ next[t] \in Logged /\ seen[t].refresh \in Nat
  BY DEF IInv, TypeOK, Logged
<1>5. CASE file' = next[t] /\ Ends(t) /\ UNCHANGED repeats
  <2>1. /\ pc' \in [Attempts -> {"idle", "locks", "refreshes"} \cup Exchanging]
        /\ pc'[t] = "idle" /\ \A u \in Attempts \ {t} : pc'[u] = pc[u]
    BY <1>5 DEF Ends, At, IInv, TypeOK
  <2>2. /\ seen' \in [Attempts -> Logged] /\ seen'[t] = NoLogin
        /\ next' \in [Attempts -> Logged] /\ next'[t] = NoLogin
        /\ \A u \in Attempts \ {t} : seen'[u] = seen[u] /\ next'[u] = next[u]
    BY <1>3, <1>5 DEF Ends, IInv, TypeOK
  <2>3. TypeOK'
    BY <1>1, <1>4, <1>5, <2>1, <2>2 DEF IInv, TypeOK
  <2>4. LockInv'
    BY <1>2, <2>1 DEF LockInv
  <2>5. Known'
    BY <1>1, <1>3, <1>5, <2>2 DEF IInv, TypeOK, Known
  <2>6. NoToken'
    BY <1>1, <1>3, <1>5, <2>1, <2>2 DEF IInv, NoToken, Exchanging
  <2>7. FileUnused' /\ NextUnused'
    BY <1>1, <1>2, <1>5, <2>1 DEF IInv, FileUnused, NextUnused, Saves
  <2>8. GrantsNew'
    BY <1>1, <1>3, <1>5, <2>2 DEF IInv, GrantsNew
  <2> QED
    BY <2>3, <2>4, <2>5, <2>6, <2>7, <2>8 DEF IInv
<1>6. CASE At(t, "unsaved") /\ repeats' = repeats \cup {seen[t].refresh} /\ UNCHANGED <<file, seen, next>>
  <2>1. /\ pc' \in [Attempts -> {"idle", "locks", "refreshes"} \cup Exchanging]
        /\ pc'[t] = "unsaved" /\ \A u \in Attempts \ {t} : pc'[u] = pc[u]
    BY <1>6 DEF At, IInv, TypeOK, Exchanging
  <2>2. TypeOK'
    BY <1>1, <1>4, <1>6, <2>1 DEF IInv, TypeOK
  <2>3. LockInv' /\ Known'
    BY <1>1, <1>2, <1>6, <2>1 DEF IInv, LockInv, Known
  <2>4. NoToken'
    BY <1>1, <1>6, <2>1 DEF IInv, NoToken, Exchanging, Saves
  <2>5. FileUnused' /\ NextUnused' /\ GrantsNew'
    BY <1>1, <1>2, <1>6, <2>1 DEF IInv, FileUnused, NextUnused, GrantsNew
  <2> QED
    BY <2>2, <2>3, <2>4, <2>5 DEF IInv
<1> QED
  BY <1>5, <1>6 DEF Saves

\* A crash gives up what the exchanges of the process can use up.
LEMMA CrashStep ==
    ASSUME IInv, NEW p \in Processes, Crash(p)
    PROVE  IInv'
<1> DEFINE own == {t \in Attempts : Home[t] = p}
           cut == {seen[t].refresh : t \in {u \in own : pc[u] \in Exchanging}}
<1>1. /\ pc' = [t \in Attempts |-> IF t \in own THEN "idle" ELSE pc[t]]
      /\ seen' = [t \in Attempts |-> IF t \in own THEN NoLogin ELSE seen[t]]
      /\ next' = [t \in Attempts |-> IF t \in own THEN NoLogin ELSE next[t]]
      /\ lock' = lock \ own /\ used' = used \cup cut /\ repeats' = repeats \cup cut
      /\ UNCHANGED <<file, grants>>
  BY DEF Crash, Exchanging
<1>2. /\ task' \in [Tasks -> {"none", "polls", "stops", "saves", "done"}] /\ grant' \in [Tasks -> Nat]
      /\ \A i \in Tasks : grant'[i] \in {0, grant[i]}
      /\ \A i \in Tasks : task'[i] = "saves" => task[i] = "saves" /\ grant'[i] = grant[i]
  BY DEF Crash, appVars, IInv, TypeOK
<1>3. NoLogin \in Logged /\ NoLogin.refresh = 0 /\ NoLogin.age = "none"
  BY DEF NoLogin, Logged
<1>4. \A n \in cut : n \in Nat /\ n # 0 /\ n <= grants
                     /\ \A i \in Tasks : task[i] = "saves" => n # grant[i]
  BY DEF IInv, TypeOK, NoToken, Known, Logged, GrantsNew
<1>5. \A t \in Attempts : pc[t] = "saves" => t \notin own \/ seen[t].refresh \in cut
  BY DEF Exchanging
<1> HIDE DEF own, cut
<1>6. TypeOK'
  BY <1>1, <1>2, <1>3, <1>4 DEF IInv, TypeOK
<1>7. LockInv'
  BY <1>1 DEF IInv, LockInv
<1>8. Known'
  BY <1>1, <1>2, <1>3, <1>4 DEF IInv, TypeOK, Known
<1>9. NoToken'
  BY <1>1, <1>3, <1>4 DEF IInv, NoToken, Exchanging
<1>10. FileUnused' /\ NextUnused'
  BY <1>1, <1>5 DEF IInv, FileUnused, NextUnused
<1>11. GrantsNew'
  BY <1>1, <1>2, <1>3, <1>4 DEF IInv, GrantsNew
<1> QED
  BY <1>6, <1>7, <1>8, <1>9, <1>10, <1>11 DEF IInv

\* The grant of a login task has a new number.
LEMMA ApprovedStep ==
    ASSUME IInv, NEW i \in Tasks, Approved(i)
    PROVE  IInv'
<1>1. UNCHANGED <<file, lock, pc, seen, next, used, repeats>> /\ grants' = grants + 1
  BY DEF Approved, attempts
<1>2. /\ task' \in [Tasks -> {"none", "polls", "stops", "saves", "done"}] /\ grant' \in [Tasks -> Nat]
      /\ grant'[i] = grants + 1
      /\ \A j \in Tasks \ {i} : task'[j] = task[j] /\ grant'[j] = grant[j]
  BY DEF Approved, IInv, TypeOK
<1>3. TypeOK'
  BY <1>1, <1>2 DEF IInv, TypeOK
<1>4. LockInv' /\ NoToken' /\ FileUnused' /\ NextUnused'
  BY <1>1 DEF IInv, LockInv, NoToken, FileUnused, NextUnused
<1>5. Known'
  BY <1>1, <1>2 DEF IInv, TypeOK, Known, Logged
<1>6. GrantsNew'
  BY <1>1, <1>2 DEF IInv, TypeOK, Known, Logged, GrantsNew
<1> QED
  BY <1>3, <1>4, <1>5, <1>6 DEF IInv

\* Every step of an attempt keeps the invariant.
LEMMA AttemptInv ==
    ASSUME IInv, NEW t \in Attempts, Attempt(t)
    PROVE  IInv'
<1>typ. /\ lock \subseteq Attempts /\ file \in Logged /\ used \subseteq Nat
        /\ NoLogin \in Logged /\ NoLogin.refresh = 0 /\ NoLogin.age = "none"
  BY DEF IInv, TypeOK, NoLogin, Logged
<1>reads. CASE Reads(t)
  BY <1>reads, <1>typ, AttemptStep DEF Reads
<1>locks. CASE Locks(t)
  <2>1. \A u \in Attempts \ {t} : pc[u] \notin {"refreshes", "sent", "saves"}
    BY <1>locks DEF Locks, IInv, LockInv
  <2> QED
    BY <1>locks, <1>typ, <2>1, AttemptStep DEF Locks
<1>limit. CASE LockLimit(t)
  BY <1>limit, <1>typ, AttemptStep DEF LockLimit, Ends
<1>sends. CASE SendsOrEnds(t)
  <2>1. /\ pc[t] = "refreshes" /\ lock = {t}
        /\ \A u \in Attempts \ {t} : pc[u] \notin {"refreshes", "sent", "saves"}
    BY <1>sends DEF SendsOrEnds, IInv, LockInv
  <2>2. CASE Ends(t) /\ lock' = {}
    BY <1>sends, <1>typ, <2>1, <2>2, AttemptStep DEF SendsOrEnds, Ends
  <2>3. CASE /\ file.age # "none" /\ seen' = [seen EXCEPT ![t] = file]
             /\ At(t, "sent") /\ UNCHANGED <<next, lock>>
    <3>1. UNCHANGED <<file, grants, used, repeats, task, grant>>
      BY <1>sends DEF SendsOrEnds, provider, appVars
    <3>2. /\ pc' \in [Attempts -> {"idle", "locks", "refreshes"} \cup Exchanging]
          /\ pc'[t] = "sent" /\ \A u \in Attempts \ {t} : pc'[u] = pc[u]
      BY <2>3 DEF At, IInv, TypeOK, Exchanging
    <3>3. /\ seen' \in [Attempts -> Logged] /\ seen'[t] = file
          /\ \A u \in Attempts \ {t} : seen'[u] = seen[u]
      BY <1>typ, <2>3 DEF IInv, TypeOK
    <3>4. TypeOK' /\ LockInv'
      BY <2>1, <2>3, <3>1, <3>2, <3>3 DEF IInv, TypeOK, LockInv
    <3>5. Known' /\ NoToken'
      BY <2>3, <3>1, <3>2, <3>3 DEF IInv, Known, NoToken, Exchanging
    <3>6. FileUnused' /\ NextUnused' /\ GrantsNew'
      BY <2>1, <2>3, <3>1, <3>2, <3>3 DEF IInv, FileUnused, NextUnused, GrantsNew
    <3> QED
      BY <3>4, <3>5, <3>6 DEF IInv
  <2> QED
    BY <1>sends, <2>2, <2>3 DEF SendsOrEnds
<1>granted. CASE Granted(t)
  <2>1. grants \in Nat /\ seen[t].refresh \in Nat /\ seen[t].refresh <= grants /\ seen[t].refresh # 0
    BY <1>granted DEF Granted, IInv, TypeOK, Logged, Known, NoToken, Exchanging
  <2>2. PICK n \in Nat :
          /\ next' = [next EXCEPT ![t] = Login(grants + 1, n)]
          /\ \/ n = grants + 1 /\ UsesUp(t)
             \/ /\ n = seen[t].refresh
                /\ used' = used \ {seen[t].refresh} /\ repeats' = repeats \ {seen[t].refresh}
    BY <1>granted, <2>1 DEF Granted
  <2> DEFINE new == Login(grants + 1, n)
  <2>3. new \in Logged /\ new.refresh = n
    BY <2>1 DEF Login, Logged, Ages
  <2>4. next' = [next EXCEPT ![t] = new]
    BY <2>2
  <2> HIDE DEF new
  <2>5. new.refresh <= grants + 1 /\ new.refresh # 0
    BY <2>1, <2>2, <2>3
  <2>6. /\ pc[t] = "sent" /\ At(t, "saves") /\ grants' = grants + 1
        /\ UNCHANGED <<file, lock, seen, appVars>>
    BY <1>granted DEF Granted
  <2> QED
    BY <2>2, <2>3, <2>4, <2>5, <2>6, AnswerStep
<1>fails. CASE RefreshFails(t)
  <2>1. CASE Ends(t) /\ lock' = {} /\ (NeverLeft \/ MayPass(t))
    <3>1. /\ lock = {t} /\ file.refresh = seen[t].refresh
          /\ seen[t].refresh \in Nat /\ seen[t].refresh # 0 /\ seen[t].refresh <= grants
      BY <1>fails DEF RefreshFails, IInv, TypeOK, LockInv, Logged, Known, NoToken, Exchanging
    <3>2. \/ used' = used /\ repeats' = repeats
          \/ used' = used \cup {seen[t].refresh} /\ repeats' = repeats \cup {seen[t].refresh}
      BY <2>1 DEF NeverLeft, MayPass
    <3>3. \A u \in Attempts \ {t} : pc[u] \notin {"refreshes", "sent", "saves"}
      BY <1>fails DEF RefreshFails, IInv, LockInv
    <3>4. UNCHANGED <<file, grants, task, grant>>
      BY <1>fails, <2>1 DEF RefreshFails, appVars
    <3>5. /\ pc' \in [Attempts -> {"idle", "locks", "refreshes"} \cup Exchanging]
          /\ pc'[t] = "idle" /\ \A u \in Attempts \ {t} : pc'[u] = pc[u]
      BY <2>1 DEF Ends, At, IInv, TypeOK
    <3>6. /\ seen' \in [Attempts -> Logged] /\ seen'[t] = NoLogin
          /\ next' \in [Attempts -> Logged] /\ next'[t] = NoLogin
          /\ \A u \in Attempts \ {t} : seen'[u] = seen[u] /\ next'[u] = next[u]
      BY <1>typ, <2>1 DEF Ends, IInv, TypeOK
    <3>7. TypeOK' /\ LockInv'
      BY <2>1, <3>1, <3>2, <3>3, <3>4, <3>5, <3>6 DEF IInv, TypeOK, LockInv
    <3>8. Known'
      <4>1. NoLogin.refresh <= grants
        BY <1>typ DEF IInv, TypeOK
      <4>2. \A u \in Attempts : seen'[u].refresh <= grants /\ next'[u].refresh <= grants
        BY <3>6, <4>1 DEF IInv, Known
      <4>3. \A n \in used' : n <= grants
        BY <3>1, <3>2 DEF IInv, Known
      <4> QED
        BY <3>4, <4>2, <4>3 DEF IInv, Known
    <3>9. NoToken'
      BY <1>typ, <3>1, <3>2, <3>4, <3>5, <3>6 DEF IInv, NoToken, Exchanging
    <3>10. file.refresh \notin used' \ repeats'
      BY <1>fails, <3>1, <3>2, <3>3 DEF RefreshFails, IInv, FileUnused
    <3>11. FileUnused' /\ NextUnused'
      BY <1>fails, <3>3, <3>4, <3>5, <3>10 DEF RefreshFails, FileUnused, NextUnused
    <3>12. GrantsNew'
      BY <1>typ, <3>2, <3>4, <3>6 DEF IInv, GrantsNew
    <3> QED
      BY <3>7, <3>8, <3>9, <3>11, <3>12 DEF IInv
  <2>2. CASE At(t, "saves") /\ next' = [next EXCEPT ![t] = NoLogin] /\ UsesUp(t)
             /\ UNCHANGED <<seen, lock>>
    <3>1. NoLogin.refresh <= grants' /\ grants' = grants
      BY <1>fails, <1>typ DEF RefreshFails, IInv, TypeOK
    <3>2. pc[t] = "sent" /\ UNCHANGED <<file, lock, seen, appVars>>
      BY <1>fails, <2>2 DEF RefreshFails
    <3> QED
      BY <1>typ, <2>2, <3>1, <3>2, AnswerStep
  <2> QED
    BY <1>fails, <2>1, <2>2 DEF RefreshFails
<1>saves. CASE Saves(t)
  BY <1>saves, SavesStep
<1>spends. CASE Spends(t)
  BY <1>spends, <1>typ, AttemptStep DEF Spends, Ends
<1> QED
  BY <1>reads, <1>locks, <1>limit, <1>sends, <1>granted, <1>fails, <1>saves, <1>spends DEF Attempt

\* Every step keeps the invariant.
LEMMA StepInv == IInv /\ [Next]_vars => IInv'
<1> SUFFICES ASSUME IInv, [Next]_vars PROVE IInv'
  OBVIOUS
<1> DEFINE TaskStates == {"none", "polls", "stops", "saves", "done"}
<1>typ. task \in [Tasks -> TaskStates] /\ grant \in [Tasks -> Nat] /\ grants \in Nat
  BY DEF IInv, TypeOK
<1>stop. \A i : Stop(i) => /\ task' \in [Tasks -> TaskStates]
                           /\ \A j \in Tasks : task'[j] = "saves" => task[j] = "saves"
  BY <1>typ DEF Stop
<1>ends. ASSUME NEW i \in Tasks, TaskEnds(i)
         PROVE  /\ task' \in [Tasks -> TaskStates] /\ grant' \in [Tasks -> Nat]
                /\ \A j \in Tasks : grant'[j] \in {0, grant[j]}
                /\ \A j \in Tasks : task'[j] = "saves" => j # i /\ task[j] = "saves" /\ grant'[j] = grant[j]
                /\ UNCHANGED <<lock, attempts, provider>>
  BY <1>ends, <1>typ DEF TaskEnds
<1>ages. CASE AccessAges
  <2>1. /\ file' \in Logged /\ file'.access = file.access /\ file'.refresh = file.refresh
        /\ file.age # "none"
        /\ UNCHANGED <<lock, pc, seen, next, grants, used, repeats, task, grant>>
    BY <1>ages DEF AccessAges, attempts, provider, appVars, IInv, TypeOK, Logged, Ages
  <2> QED
    BY <2>1 DEF IInv, TypeOK, LockInv, Known, NoToken, FileUnused, NextUnused, GrantsNew
<1>attempt. CASE \E t \in Attempts : Attempt(t)
  BY <1>attempt, AttemptInv
<1>crash. CASE \E p \in Processes : Crash(p)
  BY <1>crash, CrashStep
<1>app. CASE LoginStarts \/ CancelLogin \/ LogoutStarts
  BY <1>app, <1>typ, <1>stop, AppStep DEF LoginStarts, CancelLogin, LogoutStarts
<1>started. CASE LoginStarted
  <2>1. task' \in [Tasks -> TaskStates] /\ \A j \in Tasks : task'[j] = "saves" => task[j] = "saves"
    BY <1>started, <1>typ DEF LoginStarted
  <2> QED
    BY <1>started, <1>typ, <2>1, AppStep DEF LoginStarted
<1>waited. CASE LogoutWaited
  BY <1>waited, <1>typ, AppStep DEF LogoutWaited
<1>logout. CASE LogoutEnds
  <2>1. UNCHANGED <<lock, attempts, provider, task, grant>>
    BY <1>logout DEF LogoutEnds
  <2>2. CASE UNCHANGED file
    BY <1>typ, <2>1, <2>2, AppStep
  <2>3. CASE lock = {} /\ file' = NoLogin
    <3>1. NoLogin \in Logged /\ NoLogin.refresh = 0 /\ NoLogin.age = "none"
      BY DEF NoLogin, Logged
    <3>2. 0 \notin used /\ \A i \in Tasks : task[i] = "saves" => grant[i] # 0
      BY DEF IInv, NoToken, GrantsNew
    <3> QED
      BY <1>typ, <2>1, <2>3, <3>1, <3>2, WriteStep
  <2> QED
    BY <1>logout, <2>2, <2>3 DEF LogoutEnds
<1>task. CASE \E i \in Tasks : LoginTask(i)
  <2>1. PICK i \in Tasks : LoginTask(i)
    BY <1>task
  <2>2. CASE Approved(i)
    BY <2>2, ApprovedStep
  <2>3. CASE PollsEnd(i) \/ LoginUnsaved(i)
    BY <1>ends, <2>3, AppStep DEF PollsEnd, LoginUnsaved
  <2>4. CASE LoginSaved(i)
    <3> DEFINE new == Login(grant[i], grant[i])
    <3>1. /\ grant[i] \in Nat /\ grant[i] <= grants /\ grant[i] # 0 /\ grant[i] \notin used
          /\ \A j \in Tasks : task[j] = "saves" /\ j # i => grant[j] # grant[i]
      BY <1>typ, <2>4 DEF LoginSaved, IInv, Known, GrantsNew
    <3>2. new \in Logged /\ new.refresh = grant[i]
      BY <3>1 DEF Login, Logged, Ages
    <3>3. lock = {} /\ file' = new /\ TaskEnds(i)
      BY <2>4 DEF LoginSaved
    <3> HIDE DEF new
    <3> QED
      BY <1>ends, <3>1, <3>2, <3>3, WriteStep
  <2> QED
    BY <2>1, <2>2, <2>3, <2>4 DEF LoginTask
<1>same. CASE UNCHANGED vars
  BY <1>same DEF vars, attempts, provider, appVars, IInv, TypeOK, LockInv, Known, NoToken, FileUnused,
                NextUnused, GrantsNew
<1> QED
  BY <1>ages, <1>attempt, <1>crash, <1>app, <1>started, <1>waited, <1>logout, <1>task, <1>same
     DEF Next, AppSteps

-----------------------------------------------------------------------------
(* The theorems *)

\* The inductive invariant holds in every state.
THEOREM Invariant == Spec => []IInv
<1>1. Init => IInv
  BY InitInv
<1>2. IInv /\ [Next]_vars => IInv'
  BY StepInv
<1> QED
  BY <1>1, <1>2, PTL DEF Spec

\* A refresh token that can be used up goes out again only when the save of its new login failed, its
\* process crashed, or its last exchange was answered by a refusal that may pass, whatever the
\* processes and the app do (auth.rs:453-491).
THEOREM RefreshesOnce == Spec => RefreshOnce
<1>1. IInv => (\A t \in Attempts : Sends(t) => file.refresh \notin used \ repeats)
  BY DEF IInv, LockInv, FileUnused, Sends
<1> QED
  BY <1>1, Invariant, PTL DEF RefreshOnce

\* The save of a refresh replaces the login that it sent: the lock keeps every other writer out
\* between the read and the write.
THEOREM SavesReplaceOwn == Spec => SaveReplacesOwn
<1>1. IInv => (\A t \in Attempts :
                 pc[t] = "saves" /\ pc'[t] = "idle" /\ file'.access # file.access
                   => file.access = seen[t].access)
  BY DEF IInv, LockInv
<1> QED
  BY <1>1, Invariant, PTL DEF SaveReplacesOwn

-----------------------------------------------------------------------------
(***************************************************************************)
(* Connection, for every number of clients, every set of plugin requests   *)
(* and every limit of the queue.                                           *)
(*                                                                         *)
(* An answer finds its request by its id alone, so the proof needs that    *)
(* each id is of one request (IdsCount) and that the ids that wait are     *)
(* those of the active client (PendingInv).  A message finds its place     *)
(* because a writer that ended has no sender any more (SendersGone), and   *)
(* an answer because each job that waits has a line of its own, before     *)
(* the line of the method that runs (AnswerInv).                           *)
(***************************************************************************)
VARIABLES load, socket, server, current, writer, pending, last_request, request, stopJobs, open, answers, missed, queue,
          writerTask
Rpc == INSTANCE Connection WITH lost <- missed, task <- writerTask

Waits == {"none", "no_client", "waits", "answered", "disconnected", "dropped"}
Request == [state : Waits, id : Nat, client : Rpc!Clients \cup {0}, read : BOOLEAN,
            answer : Askers \cup {"none"}]
Message == {Rpc!Line} \cup [kind : {"request", "cancel"}, of : Askers]

ServerType ==
    /\ server \in {"starts", "selects", "handles", "shuts", "drains", "done"}
    /\ server = "handles" => current # 0
    /\ current \in Rpc!Clients \cup {0} /\ writer \in Rpc!Clients \cup {0}
    /\ pending \subseteq Nat /\ last_request \in Nat
    /\ request \in [Askers -> Request]
    /\ stopJobs \subseteq [client : Rpc!Clients, line : Nat]
    /\ open \in [Rpc!Clients -> {"new", "open", "closing", "closed"}]
    /\ answers \in [Rpc!Clients -> Seq(Nat)]
    /\ missed \subseteq Rpc!Clients
    /\ queue \in [Rpc!Clients -> Seq(Message)]
    /\ writerTask \in [Rpc!Clients -> {"runs", "ended", "cut"}]

\* The client that the loop reads is connected, and is the one that the plugins ask.
ServerEnds == {"drains", "done"}
ReadsActive ==
    /\ server \notin ServerEnds => writer = current /\ (current # 0 => open[current] = "open")
    /\ server \in ServerEnds => writer = 0

\* The ids count the requests, and a request names a client that connected.
IdsCount ==
    \A p \in Askers :
        /\ request[p].id <= last_request
        /\ request[p].state = "none" => request[p].id = 0
        /\ request[p].state = "waits" => request[p].id # 0 /\ request[p].client # 0
        /\ request[p].client # 0 => open[request[p].client] # "new"
        /\ \A q \in Askers : request[p].id = request[q].id /\ request[p].id # 0 => p = q
        /\ request[p].answer \in {"none", p}

\* A request that the active client can still answer.
Unanswered(p) ==
    request[p].state = "waits" /\ request[p].answer = "none" /\ request[p].client = writer
PendingInv ==
    /\ \A n \in pending : \E p \in Askers : Unanswered(p) /\ request[p].id = n
    /\ \A p \in Askers : Unanswered(p) => request[p].id \in pending

RInv == ReadsActive /\ IdsCount /\ PendingInv

\* What a writer lost is gone with its task, and an ended task wrote all.
QueueInv == \A c \in Rpc!Clients :
    /\ c \in missed => writerTask[c] = "cut" /\ queue[c] = <<>>
    /\ writerTask[c] = "ended" => queue[c] = <<>>

\* A writer that ended has no sender any more.
SendersGone == \A c \in Rpc!Clients :
    writerTask[c] = "ended" => open[c] \in {"closing", "closed"} /\ \A job \in stopJobs : job.client # c

Names(of, p, c) == of[p].client = c /\ of[p].state # "none"
CancelInv == \A c \in Rpc!Clients : \A i \in 1 .. Len(queue[c]) :
    queue[c][i].kind = "cancel" => Names(request, queue[c][i].of, c)

QInv == QueueInv /\ SendersGone /\ CancelInv

\* A method answers the last line of its client, and a wait of a job a line before it.
AnswerInv ==
    /\ \A c \in Rpc!Clients : \A line \in 1 .. Len(answers[c]) :
           answers[c][line] = IF Rpc!Runs(c, line) THEN 0 ELSE 1
    /\ \A job \in stopJobs : job.line \in 1 .. Len(answers[job.client])
    /\ server = "handles" =>
           /\ Len(answers[current]) # 0
           /\ [client |-> current, line |-> Len(answers[current])] \notin stopJobs

ServerInv == ServerType /\ RInv /\ QInv /\ AnswerInv

-----------------------------------------------------------------------------
(* Types *)

\* A message that is sent keeps the types of the writers.
LEMMA SendsTypes ==
    ASSUME ServerType, NEW c \in Rpc!Clients, NEW m \in Message, Rpc!Sends(c, m)
    PROVE  /\ missed' \subseteq Rpc!Clients /\ queue' \in [Rpc!Clients -> Seq(Message)]
           /\ writerTask' \in [Rpc!Clients -> {"runs", "ended", "cut"}]
<1>1. queue[c] \in Seq(Message) /\ Append(queue[c], m) \in Seq(Message) /\ <<>> \in Seq(Message)
  BY DEF ServerType
<1>2. queue' \in {[queue EXCEPT ![c] = Append(queue[c], m)], [queue EXCEPT ![c] = <<>>]}
  BY DEF Rpc!Sends
<1>3. queue' \in [Rpc!Clients -> Seq(Message)]
  BY <1>1, <1>2 DEF ServerType
<1>4. missed' \in {missed, missed \cup {c}} /\ writerTask' \in {writerTask, [writerTask EXCEPT ![c] = "cut"]}
  BY DEF Rpc!Sends
<1> QED
  BY <1>3, <1>4 DEF ServerType

\* An answer counts for a line of its client, when the client has the line.
LEMMA AnswersTypes ==
    ASSUME ServerType, NEW c \in Rpc!Clients, NEW line, Rpc!Answers(c, line)
    PROVE  answers' \in [Rpc!Clients -> Seq(Nat)]
<1>1. answers[c] \in Seq(Nat) /\ answers' = [answers EXCEPT ![c][line] = @ + 1]
  BY DEF ServerType, Rpc!Answers
<1>2. [answers[c] EXCEPT ![line] = @ + 1] \in Seq(Nat)
  <2>1. CASE line \in 1 .. Len(answers[c])
    <3>1. answers[c][line] + 1 \in Nat
      BY <1>1, <2>1, ElementOfSeq
    <3> QED
      BY <1>1, <2>1, <3>1, ExceptSeq
  <2>2. CASE line \notin 1 .. Len(answers[c])
    <3>1. [answers[c] EXCEPT ![line] = @ + 1] = answers[c]
      BY <1>1, <2>2, LenProperties
    <3> QED
      BY <1>1, <3>1
  <2> QED
    BY <2>1, <2>2
<1> QED
  BY <1>1, <1>2 DEF ServerType

\* The first state has its types.
LEMMA TypeInit == Rpc!Init => ServerType
<1> SUFFICES ASSUME Rpc!Init PROVE ServerType
  OBVIOUS
<1>1. 1 \in Rpc!Clients
  BY ClientsAssumption DEF Rpc!Clients
<1>2. current \in Rpc!Clients \cup {0}
  BY <1>1 DEF Rpc!Init
<1>3. <<>> \in Seq(Nat) /\ <<>> \in Seq(Message)
  OBVIOUS
<1> QED
  BY <1>2, <1>3 DEF Rpc!Init, ServerType, Request, Rpc!NoRequest, Waits

\* Every step keeps the types.
LEMMA TypeStep == ServerType /\ [Rpc!Next]_(Rpc!vars) => ServerType'
<1> SUFFICES ASSUME ServerType, [Rpc!Next]_(Rpc!vars) PROVE ServerType'
  OBVIOUS
<1>line. Rpc!Line \in Message
  BY DEF Rpc!Line, Message
<1>req. \A p \in Askers : /\ request[p] \in Request
                         /\ \A s \in Waits : [request[p] EXCEPT !.state = s] \in Request
                         /\ \A q \in Askers : [request[p] EXCEPT !.answer = q] \in Request
                         /\ [request[p] EXCEPT !.read = TRUE] \in Request
  BY DEF ServerType, Request
<1>started. CASE Rpc!Started
  BY <1>started DEF Rpc!Started, ServerType, Rpc!Detach, Rpc!outputs
<1>ended. CASE Rpc!AppEnded
  BY <1>ended DEF Rpc!AppEnded, ServerType, Rpc!Detach, Rpc!outputs
<1>drained. CASE Rpc!Drained \/ Rpc!Shutdown
  BY <1>drained DEF Rpc!Drained, Rpc!Shutdown, ServerType, Rpc!active, Rpc!outputs
<1>handled. CASE Rpc!Handled
  <2>1. current \in Rpc!Clients
    BY <1>handled DEF Rpc!Handled, ServerType
  <2>2. /\ missed' \subseteq Rpc!Clients /\ queue' \in [Rpc!Clients -> Seq(Message)]
        /\ writerTask' \in [Rpc!Clients -> {"runs", "ended", "cut"}]
    BY <1>handled, <1>line, <2>1, SendsTypes DEF Rpc!Handled, Rpc!Answers
  <2>3. answers' \in [Rpc!Clients -> Seq(Nat)]
    BY <1>handled, <2>1, AnswersTypes DEF Rpc!Handled, ServerType
  <2> QED
    BY <1>handled, <2>2, <2>3 DEF Rpc!Handled, ServerType, Rpc!active
<1>noline. CASE Rpc!NoLine
  BY <1>noline DEF Rpc!NoLine, ServerType, Rpc!Detach, Rpc!outputs
<1>notify. CASE Rpc!Notify
  <2>1. writer \in Rpc!Clients
    BY <1>notify DEF Rpc!Notify, ServerType
  <2>2. /\ missed' \subseteq Rpc!Clients /\ queue' \in [Rpc!Clients -> Seq(Message)]
        /\ writerTask' \in [Rpc!Clients -> {"runs", "ended", "cut"}]
    BY <1>notify, <1>line, <2>1, SendsTypes DEF Rpc!Notify
  <2> QED
    BY <1>notify, <2>2 DEF Rpc!Notify, ServerType, Rpc!loop, Rpc!active
<1>answerline. CASE Rpc!AnswerLine
  <2>1. PICK p \in Askers : Rpc!Respond([id |-> request[p].id, of |-> p])
    BY <1>answerline DEF Rpc!AnswerLine
  <2>2. request' = [q \in Askers |-> request'[q]]
    BY <2>1 DEF Rpc!Respond
  <2>3. ASSUME NEW q \in Askers PROVE request'[q] \in Request
    <3>1. request'[q] = request[q] \/ request'[q] = [request[q] EXCEPT !.answer = p]
      BY <2>1 DEF Rpc!Respond
    <3>2. request[q] \in Request /\ [request[q] EXCEPT !.answer = p] \in Request
      BY DEF ServerType, Request
    <3> QED
      BY <3>1, <3>2
  <2>4. request' \in [Askers -> Request]
    BY <2>2, <2>3
  <2> QED
    BY <1>answerline, <2>1, <2>4 DEF Rpc!AnswerLine, Rpc!Respond, ServerType, Rpc!loop, Rpc!outputs
<1>asks. CASE \E p \in Askers : Rpc!Asks(p)
  <2>1. PICK p \in Askers : Rpc!Asks(p)
    BY <1>asks
  <2>2. CASE writer = 0
    <3>1. request' \in [Askers -> Request]
      BY <1>req, <2>1, <2>2 DEF Rpc!Asks, ServerType, Waits
    <3> QED
      BY <2>1, <2>2, <3>1 DEF Rpc!Asks, ServerType, Rpc!loop, Rpc!outputs
  <2>3. CASE writer # 0
    <3>1. writer \in Rpc!Clients /\ [kind |-> "request", of |-> p] \in Message
      BY <2>3 DEF ServerType, Message
    <3>2. /\ missed' \subseteq Rpc!Clients /\ queue' \in [Rpc!Clients -> Seq(Message)]
          /\ writerTask' \in [Rpc!Clients -> {"runs", "ended", "cut"}]
      BY <2>1, <2>3, <3>1, SendsTypes DEF Rpc!Asks
    <3>3. last_request' = last_request + 1 /\ pending' = pending \cup {last_request'}
      BY <2>1, <2>3 DEF Rpc!Asks
    <3>4. Rpc!Waiting(last_request', writer) \in Request
      <4>1. last_request' \in Nat
        BY <3>3 DEF ServerType
      <4> QED
        BY <3>1, <4>1 DEF Rpc!Waiting, Request, Waits
    <3>5. request' \in [Askers -> Request]
      BY <2>1, <2>3, <3>4 DEF Rpc!Asks, ServerType
    <3> QED
      BY <2>1, <2>3, <3>2, <3>3, <3>5 DEF Rpc!Asks, ServerType, Rpc!loop
  <2> QED
    BY <2>2, <2>3
<1>askends. CASE \E p \in Askers : Rpc!AskEnds(p)
  <2>1. request' \in [Askers -> Request]
    BY <1>req, <1>askends DEF Rpc!AskEnds, ServerType, Waits
  <2> QED
    BY <1>askends, <2>1 DEF Rpc!AskEnds, ServerType, Rpc!loop, Rpc!outputs
<1>drops. CASE \E p \in Askers : Rpc!Drops(p)
  <2>1. PICK p \in Askers : Rpc!Drops(p)
    BY <1>drops
  <2>2. [kind |-> "cancel", of |-> p] \in Message
    BY DEF Message
  <2>3. /\ missed' \subseteq Rpc!Clients /\ queue' \in [Rpc!Clients -> Seq(Message)]
        /\ writerTask' \in [Rpc!Clients -> {"runs", "ended", "cut"}]
    BY <2>1, <2>2, SendsTypes DEF Rpc!Drops, ServerType, Rpc!outputs
  <2> QED
    <3>1. request' \in [Askers -> Request]
      BY <1>req, <2>1 DEF Rpc!Drops, ServerType, Waits
    <3> QED
      BY <2>1, <2>3, <3>1 DEF Rpc!Drops, ServerType, Rpc!loop
<1>accept. CASE \E c \in Rpc!Clients : Rpc!Accept(c)
  BY <1>accept DEF Rpc!Accept, Rpc!Attach, ServerType, Rpc!outputs
<1>request. CASE \E call \in {"refused", "method", "stop_job"} : Rpc!RequestLine(call)
  <2>1. PICK call \in {"refused", "method", "stop_job"} : Rpc!RequestLine(call)
    BY <1>request
  <2>2. current \in Rpc!Clients
    BY <2>1 DEF Rpc!RequestLine, ServerType
  <2>3. answers[current] \in Seq(Nat) /\ Len(answers[current]) + 1 \in Nat
    <3>1. answers[current] \in Seq(Nat)
      BY <2>2 DEF ServerType
    <3>2. Len(answers[current]) \in Nat
      BY <3>1, LenProperties
    <3> QED
      BY <3>1, <3>2
  <2>4. \A n \in {0, 1} : Append(answers[current], n) \in Seq(Nat)
    BY <2>3, AppendProperties
  <2>6. answers' \in [Rpc!Clients -> Seq(Nat)]
    BY <2>1, <2>4 DEF Rpc!RequestLine, ServerType
  <2>7. stopJobs' \subseteq [client : Rpc!Clients, line : Nat]
    <3>1. [client |-> current, line |-> Len(answers[current]) + 1] \in [client : Rpc!Clients, line : Nat]
      BY <2>2, <2>3
    <3> QED
      BY <2>1, <3>1 DEF Rpc!RequestLine, ServerType
  <2>5. /\ missed' \subseteq Rpc!Clients /\ queue' \in [Rpc!Clients -> Seq(Message)]
        /\ writerTask' \in [Rpc!Clients -> {"runs", "ended", "cut"}]
    BY <1>line, <2>1, <2>2, SendsTypes DEF Rpc!RequestLine, ServerType, Rpc!outputs
  <2> QED
    BY <2>1, <2>2, <2>5, <2>6, <2>7 DEF Rpc!RequestLine, ServerType, Rpc!active
<1>stopped. CASE \E job \in stopJobs : Rpc!JobStopped(job)
  <2>1. PICK job \in stopJobs : Rpc!JobStopped(job)
    BY <1>stopped
  <2>2. job.client \in Rpc!Clients /\ Rpc!Answers(job.client, job.line)
    BY <2>1 DEF Rpc!JobStopped, ServerType
  <2>3. /\ missed' \subseteq Rpc!Clients /\ queue' \in [Rpc!Clients -> Seq(Message)]
        /\ writerTask' \in [Rpc!Clients -> {"runs", "ended", "cut"}]
    BY <1>line, <2>2, SendsTypes DEF Rpc!Answers
  <2>4. answers' \in [Rpc!Clients -> Seq(Nat)]
    BY <2>2, AnswersTypes
  <2> QED
    BY <2>1, <2>3, <2>4 DEF Rpc!JobStopped, ServerType, Rpc!loop, Rpc!active
<1>closes. CASE \E c \in Rpc!Clients : Rpc!Closes(c)
  <2>1. <<>> \in Seq(Nat)
    OBVIOUS
  <2> QED
    BY <1>closes, <2>1 DEF Rpc!Closes, ServerType, Rpc!loop, Rpc!active
<1>writes. CASE \E c \in Rpc!Clients : Rpc!Writes(c)
  <2>1. PICK c \in Rpc!Clients : Rpc!Writes(c)
    BY <1>writes
  <2>2. PICK n \in DOMAIN queue[c] :
          queue' = [queue EXCEPT ![c] = SubSeq(queue[c], n + 1, Len(queue[c]))]
    BY <2>1 DEF Rpc!Writes
  <2>3. queue[c] \in Seq(Message)
    BY DEF ServerType
  <2>4. SubSeq(queue[c], n + 1, Len(queue[c])) \in Seq(Message)
    BY <2>3, SubSeqProperties, ElementOfSeq, LenProperties
  <2>5. queue' \in [Rpc!Clients -> Seq(Message)]
    BY <2>2, <2>4 DEF ServerType
  <2>6. request' = [p \in Askers |-> request'[p]]
    BY <2>1 DEF Rpc!Writes
  <2>7. ASSUME NEW p \in Askers PROVE request'[p] \in Request
    <3>1. request'[p] = request[p] \/ request'[p] = [request[p] EXCEPT !.read = TRUE]
      BY <2>1 DEF Rpc!Writes
    <3>2. request[p] \in Request /\ [request[p] EXCEPT !.read = TRUE] \in Request
      BY DEF ServerType, Request
    <3> QED
      BY <3>1, <3>2
  <2>8. request' \in [Askers -> Request]
    BY <2>6, <2>7
  <2> QED
    BY <2>1, <2>5, <2>8 DEF Rpc!Writes, ServerType, Rpc!loop
<1>writerends. CASE \E c \in Rpc!Clients : Rpc!WriterEnds(c)
  BY <1>writerends DEF Rpc!WriterEnds, ServerType, Rpc!loop, Rpc!active
<1>cut. CASE \E c \in Rpc!Clients : Rpc!DrainLimit(c) \/ Rpc!OutputBreaks(c)
  <2>1. <<>> \in Seq(Message)
    OBVIOUS
  <2> QED
    <3>1. PICK c \in Rpc!Clients : Rpc!Cut(c)
      BY <1>cut DEF Rpc!DrainLimit, Rpc!OutputBreaks
    <3>2. queue' \in [Rpc!Clients -> Seq(Message)] /\ missed' \in {missed, missed \cup {c}}
      BY <2>1, <3>1 DEF Rpc!Cut, ServerType
    <3> QED
      BY <3>1, <3>2 DEF Rpc!Cut, ServerType, Rpc!loop, Rpc!active
<1>same. CASE UNCHANGED Rpc!vars
  BY <1>same DEF ServerType, Rpc!vars, Rpc!loop, Rpc!active, Rpc!outputs
<1> QED
  BY <1>started, <1>ended, <1>drained, <1>handled, <1>noline, <1>notify, <1>answerline, <1>asks,
     <1>askends, <1>drops, <1>accept, <1>request, <1>stopped, <1>closes, <1>writes, <1>writerends,
     <1>cut, <1>same DEF Rpc!Next, Rpc!Serving, Rpc!Writing

-----------------------------------------------------------------------------
(* The requests of the plugins *)

\* No request waits at the start.
LEMMA RequestsInit == Rpc!Init => RInv
<1> SUFFICES ASSUME Rpc!Init PROVE RInv
  OBVIOUS
<1>1. 1 \in Rpc!Clients
  BY ClientsAssumption DEF Rpc!Clients
<1>2. ReadsActive
  BY <1>1 DEF Rpc!Init, ReadsActive, ServerEnds
<1>3. IdsCount /\ PendingInv
  BY DEF Rpc!Init, IdsCount, PendingInv, Unanswered, Rpc!NoRequest
<1> QED
  BY <1>2, <1>3 DEF RInv

\* A step that leaves the active client and its requests.
LEMMA OtherStep ==
    ASSUME ServerType, RInv, UNCHANGED <<current, Rpc!active>>, server' \in ServerEnds <=> server \in ServerEnds,
           \A c \in Rpc!Clients : open'[c] # open[c] => open[c] = "closing" /\ open'[c] = "closed"
    PROVE  RInv'
<1>1. UNCHANGED <<current, writer, pending, last_request, request>>
  BY DEF Rpc!active
<1>2. ReadsActive'
  BY <1>1 DEF RInv, ReadsActive, ServerType
<1>3. \A p \in Askers : request[p].client \in Rpc!Clients \cup {0}
  BY DEF ServerType, Request
<1>4. \A p \in Askers : request[p].client # 0 => open'[request[p].client] # "new"
  BY <1>3 DEF RInv, IdsCount
<1>5. IdsCount' /\ PendingInv'
  BY <1>1, <1>4 DEF RInv, IdsCount, PendingInv, Unanswered
<1> QED
  BY <1>2, <1>5 DEF RInv

\* The active client leaves, or a new one comes: the requests of the old one wait no more.
LEMMA ClientStep ==
    ASSUME ServerType, RInv, server \notin ServerEnds,
           pending' = {} \/ (current = 0 /\ pending' = pending), UNCHANGED <<last_request, request>>,
           server' \in ServerEnds => writer' = 0,
           server' \notin ServerEnds => writer' = current',
           writer' # 0 => writer' \in Rpc!Clients /\ open[writer'] = "new" /\ open'[writer'] = "open",
           \A c \in Rpc!Clients : open[c] # "new" => open'[c] # "new"
    PROVE  RInv'
<1>1. ReadsActive'
  BY DEF ReadsActive
<1>2. \A p \in Askers : request[p].client \in Rpc!Clients \cup {0}
  BY DEF ServerType, Request
<1>3. IdsCount'
  BY <1>2 DEF RInv, IdsCount
<1>4. \A p \in Askers : request[p].state = "waits" => request[p].client # 0 /\ request[p].client # writer'
  BY <1>2 DEF RInv, IdsCount
<1>5. pending' = {}
  BY DEF RInv, ReadsActive, IdsCount, PendingInv, Unanswered
<1>6. PendingInv'
  BY <1>4, <1>5 DEF PendingInv, Unanswered
<1> QED
  BY <1>1, <1>3, <1>6 DEF RInv

\* A step of one request.
LEMMA AskStep ==
    ASSUME ServerType, RInv, NEW p \in Askers, NEW new \in Request, request' = [request EXCEPT ![p] = new],
           UNCHANGED <<server, current, writer, open>>,
           new.answer \in {"none", p},
           \/ /\ new.id = request[p].id /\ new.client = request[p].client
              /\ new.state # "waits" /\ new.state # "none" /\ pending' = pending \ {new.id}
              /\ last_request' = last_request
           \/ /\ request[p].state = "none" /\ writer # 0 /\ last_request' = last_request + 1
              /\ new.state = "waits" /\ new.id = last_request' /\ new.client = writer
              /\ new.answer = "none" /\ pending' = pending \cup {last_request'}
    PROVE  RInv'
<1>1. request'[p] = new /\ \A q \in Askers \ {p} : request'[q] = request[q]
  BY DEF ServerType
<1>2. last_request \in Nat /\ \A q \in Askers : request[q].id \in Nat
  BY DEF ServerType, Request
<1>3. ReadsActive'
  BY DEF RInv, ReadsActive
<1>4. writer # 0 => open[writer] # "new"
  BY DEF RInv, ReadsActive
<1>5. IdsCount'
  BY <1>1, <1>2, <1>4 DEF RInv, IdsCount
<1>6. PendingInv'
  BY <1>1, <1>2 DEF RInv, IdsCount, PendingInv, Unanswered
<1> QED
  BY <1>3, <1>5, <1>6 DEF RInv

\* A request that no longer waits for its answer has an id that does not wait.
LEMMA NotPending ==
    ASSUME ServerType, RInv, NEW p \in Askers, ~ Unanswered(p)
    PROVE  pending \ {request[p].id} = pending
<1>1. 0 \notin pending
  BY DEF RInv, PendingInv, IdsCount, Unanswered
<1>2. request[p].id \notin pending
  BY <1>1 DEF RInv, PendingInv, IdsCount, Unanswered
<1> QED
  BY <1>2

\* Every step keeps the requests of the plugins.
LEMMA RequestsStep ==
    ASSUME ServerType, RInv, [Rpc!Next]_(Rpc!vars)
    PROVE  RInv'
<1>typ. /\ \A c \in Rpc!Clients : open[c] \in {"new", "open", "closing", "closed"} /\ c # 0
        /\ \A p \in Askers : request[p] \in Request
  BY DEF ServerType, Rpc!Clients
<1>started. CASE Rpc!Started
  <2>1. CASE server' = "selects" /\ UNCHANGED <<current, writer, pending, open>>
    BY <1>started, <2>1, OtherStep DEF Rpc!Started, ServerEnds, Rpc!active
  <2>2. CASE /\ server' \in ServerEnds /\ Rpc!Detach
             /\ open' = [c \in Rpc!Clients |-> IF c = current THEN "closing" ELSE open[c]]
    BY <1>started, <2>2, ClientStep DEF Rpc!Started, Rpc!Detach, ServerEnds
  <2> QED
    BY <1>started, <2>1, <2>2 DEF Rpc!Started, ServerEnds
<1>ended. CASE Rpc!AppEnded
  BY <1>ended, ClientStep DEF Rpc!AppEnded, Rpc!Detach, ServerEnds
<1>loop. CASE Rpc!Drained \/ Rpc!Shutdown \/ Rpc!Handled \/ Rpc!Notify
  <2>1. UNCHANGED <<current, Rpc!active, open>> /\ (server' \in ServerEnds <=> server \in ServerEnds)
    BY <1>loop DEF Rpc!Drained, Rpc!Shutdown, Rpc!Handled, Rpc!Notify, ServerEnds, Rpc!loop
  <2> QED
    BY <2>1, OtherStep
<1>noline. CASE Rpc!NoLine
  <2>1. CASE socket
    <3>1. /\ server \notin ServerEnds /\ server' = server /\ pending' = {} /\ writer' = 0 /\ current' = 0
          /\ UNCHANGED <<last_request, request>> /\ open' = [open EXCEPT ![current] = "closing"]
      BY <1>noline, <2>1 DEF Rpc!NoLine, Rpc!Detach, ServerEnds
    <3>2. \A c \in Rpc!Clients : open[c] # "new" => open'[c] # "new"
      BY <3>1 DEF ServerType
    <3> QED
      BY <3>1, <3>2, ClientStep
  <2>2. CASE ~socket
    BY <1>noline, <2>2, OtherStep DEF Rpc!NoLine, ServerEnds, Rpc!active
  <2> QED
    BY <2>1, <2>2
<1>answerline. CASE Rpc!AnswerLine
  <2>1. PICK p \in Askers : Rpc!Respond([id |-> request[p].id, of |-> p])
    BY <1>answerline DEF Rpc!AnswerLine
  <2>2. CASE request[p].id \in pending
    <3>1. PICK q \in Askers : Unanswered(q) /\ request[q].id = request[p].id
      BY <2>2 DEF RInv, PendingInv
    <3>2. q = p /\ \A r \in Askers : request[r].id = request[p].id => r = p
      BY <3>1 DEF RInv, IdsCount, Unanswered
    <3>3. pending' = pending \ {request[p].id} /\ UNCHANGED <<writer, last_request>>
      BY <2>1 DEF Rpc!Respond
    <3>4. /\ \A r \in Askers \ {p} : request'[r] = request[r]
          /\ request'[p] = [request[p] EXCEPT !.answer = p]
      BY <2>1, <2>2, <3>2 DEF Rpc!Respond
    <3>5. /\ request'[p].answer = p /\ request'[p].state = request[p].state
          /\ request'[p].id = request[p].id /\ request'[p].client = request[p].client
      BY <3>4 DEF ServerType, Request
    <3>6. UNCHANGED <<server, current, open>>
      BY <1>answerline DEF Rpc!AnswerLine, Rpc!loop
    <3>7. ReadsActive'
      BY <3>3, <3>6 DEF RInv, ReadsActive
    <3>8. \A r \in Askers :
            /\ request'[r].state = request[r].state /\ request'[r].id = request[r].id
            /\ request'[r].client = request[r].client
            /\ request'[r].answer = IF r = p THEN p ELSE request[r].answer
      BY <3>4, <3>5
    <3>9. IdsCount'
      BY <3>3, <3>6, <3>8 DEF RInv, IdsCount
    <3>10. \A r \in Askers : Unanswered(r)' <=> Unanswered(r) /\ r # p
      BY <3>2, <3>3, <3>8, AskersAssumption DEF Unanswered
    <3>11. PendingInv'
      BY <3>1, <3>2, <3>3, <3>8, <3>10 DEF RInv, PendingInv
    <3> QED
      BY <3>7, <3>9, <3>11 DEF RInv
  <2>3. CASE request[p].id \notin pending
    <3>1. pending' = pending /\ UNCHANGED <<writer, last_request>>
      BY <2>1, <2>3 DEF Rpc!Respond
    <3>2. request' = request
      BY <2>1, <2>3 DEF Rpc!Respond, ServerType
    <3> QED
      BY <1>answerline, <3>1, <3>2, OtherStep DEF Rpc!AnswerLine, Rpc!loop, Rpc!active
  <2> QED
    BY <2>2, <2>3
<1>request. CASE \E call \in {"refused", "method", "stop_job"} : Rpc!RequestLine(call)
  BY <1>request, OtherStep DEF Rpc!RequestLine, ServerEnds
<1>asks. CASE \E p \in Askers : Rpc!Asks(p)
  <2>1. PICK p \in Askers : Rpc!Asks(p)
    BY <1>asks
  <2>2. CASE writer = 0
    <3> DEFINE new == [request[p] EXCEPT !.state = "no_client"]
    <3>1. /\ new \in Request /\ new.state = "no_client" /\ new.id = request[p].id
          /\ new.client = request[p].client /\ new.answer = request[p].answer
      BY <1>typ DEF Request, Waits
    <3>2. /\ request' = [request EXCEPT ![p] = new] /\ request[p].state = "none"
          /\ UNCHANGED <<server, current, writer, open, pending, last_request>>
      BY <2>1, <2>2 DEF Rpc!Asks, Rpc!loop
    <3>3. new.answer \in {"none", p}
      BY <3>1 DEF RInv, IdsCount
    <3>4. pending \ {new.id} = pending
      BY <3>1, <3>2, NotPending DEF Unanswered
    <3> HIDE DEF new
    <3> QED
      BY <3>1, <3>2, <3>3, <3>4, AskStep
  <2>3. CASE writer # 0
    <3> DEFINE new == Rpc!Waiting(last_request', writer)
    <3>1. /\ last_request' = last_request + 1 /\ pending' = pending \cup {last_request'}
          /\ request' = [request EXCEPT ![p] = new] /\ request[p].state = "none"
          /\ UNCHANGED <<server, current, writer, open>>
      BY <2>1, <2>3 DEF Rpc!Asks, Rpc!loop
    <3>2. last_request' \in Nat /\ writer \in Rpc!Clients
      BY <2>3, <3>1 DEF ServerType
    <3>3. /\ new \in Request /\ new.state = "waits" /\ new.id = last_request' /\ new.client = writer
          /\ new.answer = "none"
      BY <3>2 DEF Rpc!Waiting, Request, Waits
    <3> HIDE DEF new
    <3> QED
      BY <2>3, <3>1, <3>3, AskStep
  <2> QED
    BY <2>2, <2>3
<1>askends. CASE \E p \in Askers : Rpc!AskEnds(p)
  <2>1. PICK p \in Askers : Rpc!AskEnds(p)
    BY <1>askends
  <2>2. PICK s \in {"answered", "disconnected"} : request' = [request EXCEPT ![p].state = s]
    BY <2>1 DEF Rpc!AskEnds
  <2> DEFINE new == [request[p] EXCEPT !.state = s]
  <2>3. /\ new \in Request /\ new.state = s /\ new.id = request[p].id
        /\ new.client = request[p].client /\ new.answer = request[p].answer
    BY <1>typ DEF Request, Waits
  <2>4. /\ request' = [request EXCEPT ![p] = new]
        /\ UNCHANGED <<server, current, writer, open, pending, last_request>>
    BY <2>1, <2>2 DEF Rpc!AskEnds, Rpc!loop
  <2>5. new.answer \in {"none", p}
    BY <2>3 DEF RInv, IdsCount
  <2>6. pending \ {new.id} = pending
    <3>1. ~ Unanswered(p) \/ request[p].id \notin pending
      BY <2>1 DEF Rpc!AskEnds, Unanswered
    <3> QED
      BY <2>3, <3>1, NotPending
  <2> HIDE DEF new
  <2> QED
    BY <2>2, <2>3, <2>4, <2>5, <2>6, AskStep
<1>drops. CASE \E p \in Askers : Rpc!Drops(p)
  <2>1. PICK p \in Askers : Rpc!Drops(p)
    BY <1>drops
  <2> DEFINE new == [request[p] EXCEPT !.state = "dropped"]
  <2>2. /\ new \in Request /\ new.state = "dropped" /\ new.id = request[p].id
        /\ new.client = request[p].client /\ new.answer = request[p].answer
    BY <1>typ DEF Request, Waits
  <2>3. /\ request' = [request EXCEPT ![p] = new] /\ pending' = pending \ {request[p].id}
        /\ UNCHANGED <<server, current, writer, open, last_request>>
    BY <2>1 DEF Rpc!Drops, Rpc!loop
  <2>4. new.answer \in {"none", p}
    BY <2>2 DEF RInv, IdsCount
  <2> HIDE DEF new
  <2> QED
    BY <2>2, <2>3, <2>4, AskStep
<1>accept. CASE \E c \in Rpc!Clients : Rpc!Accept(c)
  <2>1. PICK c \in Rpc!Clients : Rpc!Accept(c)
    BY <1>accept
  <2>2. /\ server' = server /\ server \notin ServerEnds /\ writer' = c /\ current' = c
        /\ (pending' = {} \/ (current = 0 /\ pending' = pending))
        /\ open[c] = "new" /\ UNCHANGED <<last_request, request>>
        /\ open' = [b \in Rpc!Clients |-> IF b = c THEN "open" ELSE IF b = current THEN "closing" ELSE open[b]]
    BY <2>1 DEF Rpc!Accept, Rpc!Attach, ServerEnds
  <2> QED
    BY <2>2, ClientStep
<1>tasks. CASE \/ \E job \in stopJobs : Rpc!JobStopped(job)
               \/ \E c \in Rpc!Clients : Rpc!WriterEnds(c) \/ Rpc!DrainLimit(c) \/ Rpc!OutputBreaks(c)
  <2>1. UNCHANGED <<server, current, Rpc!active, open>>
    BY <1>tasks DEF Rpc!JobStopped, Rpc!WriterEnds, Rpc!DrainLimit, Rpc!OutputBreaks, Rpc!Cut, Rpc!loop
  <2> QED
    BY <2>1, OtherStep
<1>closes. CASE \E c \in Rpc!Clients : Rpc!Closes(c)
  BY <1>closes, OtherStep DEF Rpc!Closes, Rpc!Closing, Rpc!loop
<1>writes. CASE \E c \in Rpc!Clients : Rpc!Writes(c)
  <2>1. UNCHANGED <<server, current, writer, pending, last_request, open>>
    BY <1>writes DEF Rpc!Writes, Rpc!loop
  <2>2. ASSUME NEW p \in Askers
        PROVE  /\ request'[p].state = request[p].state /\ request'[p].id = request[p].id
               /\ request'[p].client = request[p].client /\ request'[p].answer = request[p].answer
    <3>1. request'[p] = request[p] \/ request'[p] = [request[p] EXCEPT !.read = TRUE]
      BY <1>writes DEF Rpc!Writes
    <3> QED
      BY <1>typ, <3>1 DEF Request
  <2>3. ReadsActive'
    BY <2>1 DEF RInv, ReadsActive
  <2>4. IdsCount' /\ PendingInv'
    BY <2>1, <2>2 DEF RInv, IdsCount, PendingInv, Unanswered
  <2> QED
    BY <2>3, <2>4 DEF RInv
<1>same. CASE UNCHANGED Rpc!vars
  BY <1>same, OtherStep DEF Rpc!vars, Rpc!loop
<1> QED
  BY <1>started, <1>ended, <1>loop, <1>noline, <1>answerline, <1>asks, <1>askends, <1>drops, <1>accept,
     <1>request, <1>tasks, <1>closes, <1>writes, <1>same DEF Rpc!Next, Rpc!Serving, Rpc!Writing

-----------------------------------------------------------------------------
(* The messages of the clients *)

\* No message and no answer is there at the start.
LEMMA MessagesInit == Rpc!Init => QInv /\ AnswerInv
<1> SUFFICES ASSUME Rpc!Init PROVE QInv /\ AnswerInv
  OBVIOUS
<1>1. \A c \in Rpc!Clients : queue[c] = <<>> /\ answers[c] = <<>> /\ writerTask[c] = "runs"
  BY DEF Rpc!Init
<1>2. QInv
  BY <1>1 DEF Rpc!Init, QInv, QueueInv, SendersGone, CancelInv
<1>3. AnswerInv
  BY <1>1 DEF Rpc!Init, AnswerInv
<1> QED
  BY <1>2, <1>3

\* Every request keeps its client.
Keeps == \A p \in Askers, c \in Rpc!Clients : Names(request, p, c) => Names(request', p, c)

\* A message that is sent to a writer with a sender keeps the queues.
LEMMA SendStep ==
    ASSUME ServerType, QInv, NEW c \in Rpc!Clients, NEW m \in Message, writerTask[c] # "ended", Rpc!Sends(c, m),
           m.kind = "cancel" => Names(request', m.of, c), Keeps
    PROVE  QueueInv' /\ CancelInv' /\ \A d \in Rpc!Clients : writerTask'[d] = "ended" => writerTask[d] = "ended"
<1>1. queue[c] \in Seq(Message) /\ \A d \in Rpc!Clients : queue[d] \in Seq(Message)
  BY DEF ServerType
<1>2. CASE writerTask[c] = "runs" /\ Len(queue[c]) < QueueLimit
  <2>1. /\ queue'[c] = Append(queue[c], m) /\ \A d \in Rpc!Clients \ {c} : queue'[d] = queue[d]
        /\ missed' = missed /\ writerTask' = writerTask
    BY <1>2 DEF Rpc!Sends, ServerType
  <2>2. /\ Len(queue'[c]) = Len(queue[c]) + 1 /\ Len(queue[c]) \in Nat
        /\ queue'[c][Len(queue[c]) + 1] = m
        /\ \A i \in 1 .. Len(queue[c]) : queue'[c][i] = queue[c][i]
    BY <1>1, <2>1, AppendProperties, LenProperties
  <2>3. QueueInv'
    BY <1>2, <2>1 DEF QInv, QueueInv
  <2>4. ASSUME NEW d \in Rpc!Clients, NEW i \in 1 .. Len(queue'[d]), queue'[d][i].kind = "cancel"
        PROVE  Names(request', queue'[d][i].of, d)
    <3>1. CASE d = c /\ i = Len(queue[c]) + 1
      BY <2>2, <2>4, <3>1
    <3>2. CASE d # c \/ i # Len(queue[c]) + 1
      <4>1. i \in 1 .. Len(queue[d]) /\ queue'[d][i] = queue[d][i]
        BY <2>1, <2>2, <3>2
      <4>2. queue[d][i] \in Message
        BY <1>1, <4>1, ElementOfSeq
      <4>3. Names(request, queue[d][i].of, d) /\ queue[d][i].of \in Askers
        BY <2>4, <4>1, <4>2 DEF QInv, CancelInv, Message, Rpc!Line
      <4> QED
        BY <4>1, <4>3 DEF Keeps
    <3> QED
      BY <3>1, <3>2
  <2> QED
    BY <2>1, <2>3, <2>4 DEF CancelInv
<1>3. CASE ~ (writerTask[c] = "runs" /\ Len(queue[c]) < QueueLimit)
  <2>1. /\ queue'[c] = <<>> /\ \A d \in Rpc!Clients \ {c} : queue'[d] = queue[d]
        /\ missed' = missed \cup {c} /\ writerTask'[c] = "cut" /\ \A d \in Rpc!Clients \ {c} : writerTask'[d] = writerTask[d]
    BY <1>3 DEF Rpc!Sends, ServerType
  <2>2. QueueInv'
    BY <2>1 DEF QInv, QueueInv
  <2>3. ASSUME NEW d \in Rpc!Clients, NEW i \in 1 .. Len(queue'[d]), queue'[d][i].kind = "cancel"
        PROVE  Names(request', queue'[d][i].of, d)
    <3>1. d # c
      BY <2>1, <2>3
    <3>2. i \in 1 .. Len(queue[d]) /\ queue'[d][i] = queue[d][i]
      BY <2>1, <3>1
    <3>3. queue[d][i] \in Message
      BY <1>1, <3>2, ElementOfSeq
    <3>4. Names(request, queue[d][i].of, d) /\ queue[d][i].of \in Askers
      BY <2>3, <3>2, <3>3 DEF QInv, CancelInv, Message, Rpc!Line
    <3> QED
      BY <3>2, <3>4 DEF Keeps
  <2> QED
    BY <2>1, <2>2, <2>3 DEF CancelInv
<1> QED
  BY <1>2, <1>3

\* A step that sends nothing: each queue keeps a part.
LEMMA RestStep ==
    ASSUME ServerType, QInv, UNCHANGED Rpc!outputs, Keeps
    PROVE  QueueInv' /\ CancelInv' /\ \A d \in Rpc!Clients : writerTask'[d] = "ended" => writerTask[d] = "ended"
<1>1. UNCHANGED <<missed, queue, writerTask>>
  BY DEF Rpc!outputs
<1>2. \A d \in Rpc!Clients : queue[d] \in Seq(Message)
  BY DEF ServerType
<1>3. ASSUME NEW d \in Rpc!Clients, NEW i \in 1 .. Len(queue[d]), queue[d][i].kind = "cancel"
      PROVE  Names(request', queue[d][i].of, d)
  <2>1. queue[d][i] \in Message
    BY <1>2, ElementOfSeq
  <2>2. Names(request, queue[d][i].of, d) /\ queue[d][i].of \in Askers
    BY <1>3, <2>1 DEF QInv, CancelInv, Message, Rpc!Line
  <2> QED
    BY <2>2 DEF Keeps
<1>4. CancelInv'
  BY <1>1, <1>3 DEF CancelInv
<1> QED
  BY <1>1, <1>4 DEF QInv, QueueInv

\* No step changes the client of a request that was sent.
LEMMA RequestsKept ==
    ASSUME ServerType, [Rpc!Next]_(Rpc!vars)
    PROVE  Keeps
<1> SUFFICES ASSUME NEW p \in Askers, NEW c \in Rpc!Clients, Names(request, p, c)
             PROVE  Names(request', p, c)
  BY DEF Keeps
<1>typ. request[p] \in Request
  BY DEF ServerType
<1>same. CASE UNCHANGED request
  BY <1>same DEF Names
<1>answerline. CASE Rpc!AnswerLine
  <2>1. PICK q \in Askers : Rpc!Respond([id |-> request[q].id, of |-> q])
    BY <1>answerline DEF Rpc!AnswerLine
  <2>2. request'[p] = request[p] \/ request'[p] = [request[p] EXCEPT !.answer = q]
    BY <2>1 DEF Rpc!Respond
  <2> QED
    BY <1>typ, <2>2 DEF Names, Request
<1>asks. CASE \E q \in Askers : Rpc!Asks(q)
  <2>1. PICK q \in Askers : Rpc!Asks(q)
    BY <1>asks
  <2>2. q # p
    BY <2>1 DEF Rpc!Asks, Names
  <2>3. request'[p] = request[p]
    BY <2>1, <2>2 DEF Rpc!Asks, ServerType
  <2> QED
    BY <2>3 DEF Names
<1>ends. CASE \E q \in Askers : Rpc!AskEnds(q) \/ Rpc!Drops(q)
  <2>1. PICK q \in Askers, state \in {"answered", "disconnected", "dropped"} :
          request' = [request EXCEPT ![q].state = state]
    BY <1>ends DEF Rpc!AskEnds, Rpc!Drops
  <2>2. request'[p] = request[p] \/ request'[p] = [request[p] EXCEPT !.state = state]
    BY <2>1 DEF ServerType
  <2> QED
    BY <1>typ, <2>2 DEF Names, Request
<1>writes. CASE \E d \in Rpc!Clients : Rpc!Writes(d)
  <2>1. request'[p] = request[p] \/ request'[p] = [request[p] EXCEPT !.read = TRUE]
    BY <1>writes DEF Rpc!Writes
  <2> QED
    BY <1>typ, <2>1 DEF Names, Request
<1>others. CASE \/ Rpc!Serving \/ Rpc!Shutdown \/ Rpc!NoLine \/ Rpc!Notify \/ UNCHANGED Rpc!vars
                \/ \E call \in {"refused", "method", "stop_job"} : Rpc!RequestLine(call)
                \/ \E job \in stopJobs : Rpc!JobStopped(job)
                \/ \E d \in Rpc!Clients : Rpc!Accept(d) \/ Rpc!Writing(d) \/ Rpc!OutputBreaks(d)
  <2>1. UNCHANGED request
    BY <1>others DEF Rpc!Serving, Rpc!Handled, Rpc!Started, Rpc!AppEnded, Rpc!Drained, Rpc!Shutdown,
                     Rpc!NoLine, Rpc!Notify, Rpc!RequestLine,
                     Rpc!JobStopped, Rpc!Accept, Rpc!Attach, Rpc!Writing, Rpc!WriterEnds, Rpc!DrainLimit,
                     Rpc!Closes, Rpc!OutputBreaks, Rpc!Cut,
                     Rpc!vars, Rpc!active
  <2> QED
    BY <1>same, <2>1
<1> QED
  BY <1>answerline, <1>asks, <1>ends, <1>writes, <1>others DEF Rpc!Next

\* A writer that ended stays without a sender while its client stays away.
LEMMA GoneStep ==
    ASSUME ServerType, QInv, \A d \in Rpc!Clients : writerTask'[d] = "ended" => writerTask[d] = "ended",
           \A d \in Rpc!Clients : open[d] \in {"closing", "closed"} => open'[d] \in {"closing", "closed"},
           \A job \in stopJobs' : job \in stopJobs \/ open[job.client] = "open"
    PROVE  SendersGone'
  BY DEF QInv, SendersGone

\* Every step keeps the queues.
LEMMA QueuesStep ==
    ASSUME ServerType, RInv, QInv, [Rpc!Next]_(Rpc!vars)
    PROVE  QInv'
<1>keeps. Keeps
  BY RequestsKept
<1>line. Rpc!Line \in Message /\ Rpc!Line.kind = "line"
  BY DEF Rpc!Line, Message
<1>typ. \A c \in Rpc!Clients : open[c] \in {"new", "open", "closing", "closed"} /\ queue[c] \in Seq(Message)
  BY DEF ServerType
<1>current. current # 0 /\ server \notin ServerEnds =>
              current \in Rpc!Clients /\ writer = current /\ open[current] = "open" /\ writerTask[current] # "ended"
  BY DEF ServerType, RInv, ReadsActive, QInv, SendersGone
<1>writer. writer # 0 => writer = current /\ server \notin ServerEnds
  BY DEF RInv, ReadsActive
<1>rest. CASE \/ Rpc!Started \/ Rpc!AppEnded \/ Rpc!Drained \/ Rpc!Shutdown \/ Rpc!NoLine \/ Rpc!AnswerLine
              \/ UNCHANGED Rpc!vars
              \/ \E p \in Askers : Rpc!AskEnds(p)
              \/ \E c \in Rpc!Clients : Rpc!Accept(c)
  <2>1. UNCHANGED <<stopJobs, Rpc!outputs>>
    BY <1>rest DEF Rpc!Started, Rpc!AppEnded, Rpc!Drained, Rpc!Shutdown, Rpc!NoLine, Rpc!AnswerLine, Rpc!vars,
                   Rpc!AskEnds, Rpc!Accept
  <2>2. ASSUME NEW d \in Rpc!Clients, open[d] \in {"closing", "closed"}
        PROVE  open'[d] \in {"closing", "closed"}
    BY <1>current, <1>rest, <2>2 DEF Rpc!Started, Rpc!AppEnded, Rpc!Drained, Rpc!Shutdown, Rpc!NoLine,
                                     Rpc!AnswerLine, Rpc!vars, Rpc!AskEnds,
                                     Rpc!Accept, Rpc!loop, ServerType, ServerEnds
  <2> QED
    BY <1>keeps, <2>1, <2>2, RestStep, GoneStep DEF QInv
<1>handled. CASE Rpc!Handled
  <2>1. current # 0 /\ server \notin ServerEnds /\ Rpc!Sends(current, Rpc!Line) /\ UNCHANGED <<open, stopJobs>>
    BY <1>handled DEF Rpc!Handled, Rpc!Answers, ServerType, ServerEnds
  <2>2. QueueInv' /\ CancelInv' /\ \A d \in Rpc!Clients : writerTask'[d] = "ended" => writerTask[d] = "ended"
    BY <1>current, <1>keeps, <1>line, <2>1, SendStep
  <2> QED
    BY <2>1, <2>2, GoneStep DEF QInv
<1>notify. CASE Rpc!Notify
  <2>1. writer # 0 /\ Rpc!Sends(writer, Rpc!Line) /\ UNCHANGED <<open, stopJobs>>
    BY <1>notify DEF Rpc!Notify
  <2>2. QueueInv' /\ CancelInv' /\ \A d \in Rpc!Clients : writerTask'[d] = "ended" => writerTask[d] = "ended"
    BY <1>current, <1>writer, <1>keeps, <1>line, <2>1, SendStep
  <2> QED
    BY <2>1, <2>2, GoneStep DEF QInv
<1>request. CASE \E call \in {"refused", "method", "stop_job"} : Rpc!RequestLine(call)
  <2>1. /\ current # 0 /\ server \notin ServerEnds /\ UNCHANGED open
        /\ \/ Rpc!Sends(current, Rpc!Line) \/ UNCHANGED Rpc!outputs
        /\ \A job \in stopJobs' : job \in stopJobs \/ job.client = current
    BY <1>request DEF Rpc!RequestLine, ServerEnds
  <2>2. QueueInv' /\ CancelInv' /\ \A d \in Rpc!Clients : writerTask'[d] = "ended" => writerTask[d] = "ended"
    BY <1>current, <1>keeps, <1>line, <2>1, SendStep, RestStep
  <2> QED
    BY <1>current, <2>1, <2>2, GoneStep DEF QInv
<1>asks. CASE \E p \in Askers : Rpc!Asks(p)
  <2>1. PICK p \in Askers : Rpc!Asks(p)
    BY <1>asks
  <2> DEFINE m == [kind |-> "request", of |-> p]
  <2>2. m \in Message /\ m.kind # "cancel"
    BY DEF Message
  <2>3. /\ (writer # 0 /\ Rpc!Sends(writer, m)) \/ UNCHANGED Rpc!outputs
        /\ UNCHANGED <<open, stopJobs>>
    BY <2>1 DEF Rpc!Asks
  <2> HIDE DEF m
  <2>4. QueueInv' /\ CancelInv' /\ \A d \in Rpc!Clients : writerTask'[d] = "ended" => writerTask[d] = "ended"
    BY <1>current, <1>writer, <1>keeps, <2>2, <2>3, SendStep, RestStep
  <2> QED
    BY <2>3, <2>4, GoneStep DEF QInv
<1>drops. CASE \E p \in Askers : Rpc!Drops(p)
  <2>1. PICK p \in Askers : Rpc!Drops(p)
    BY <1>drops
  <2> DEFINE m == [kind |-> "cancel", of |-> p]
  <2>2. m \in Message /\ m.of = p
    BY DEF Message
  <2>3. UNCHANGED <<open, stopJobs>>
    BY <2>1 DEF Rpc!Drops
  <2>4. CASE request[p].id \in pending /\ writer # 0
    <3>1. Rpc!Sends(writer, m)
      BY <2>1, <2>4 DEF Rpc!Drops
    <3>2. Unanswered(p)
      BY <2>4 DEF RInv, PendingInv, IdsCount, Unanswered
    <3>3. Names(request, p, writer)
      BY <3>2 DEF Unanswered, Names
    <3>4. Names(request', m.of, writer)
      BY <1>current, <1>keeps, <1>writer, <2>2, <2>4, <3>3 DEF Keeps
    <3> HIDE DEF m
    <3>5. QueueInv' /\ CancelInv' /\ \A d \in Rpc!Clients : writerTask'[d] = "ended" => writerTask[d] = "ended"
      BY <1>current, <1>keeps, <1>writer, <2>2, <2>4, <3>1, <3>4, SendStep
    <3> QED
      BY <2>3, <3>5, GoneStep DEF QInv
  <2>5. CASE ~ (request[p].id \in pending /\ writer # 0)
    <3>1. UNCHANGED Rpc!outputs
      BY <2>1, <2>5 DEF Rpc!Drops
    <3> QED
      BY <1>keeps, <2>3, <3>1, RestStep, GoneStep DEF QInv
  <2> QED
    BY <2>4, <2>5
<1>stopped. CASE \E job \in stopJobs : Rpc!JobStopped(job)
  <2>1. PICK job \in stopJobs : Rpc!JobStopped(job)
    BY <1>stopped
  <2>2. /\ job.client \in Rpc!Clients /\ writerTask[job.client] # "ended" /\ Rpc!Sends(job.client, Rpc!Line)
        /\ UNCHANGED open /\ stopJobs' \subseteq stopJobs
    BY <2>1 DEF Rpc!JobStopped, Rpc!Answers, ServerType, QInv, SendersGone
  <2>3. QueueInv' /\ CancelInv' /\ \A d \in Rpc!Clients : writerTask'[d] = "ended" => writerTask[d] = "ended"
    BY <1>keeps, <1>line, <2>2, SendStep
  <2> QED
    BY <2>2, <2>3, GoneStep DEF QInv
<1>writes. CASE \E c \in Rpc!Clients : Rpc!Writes(c)
  <2>1. PICK c \in Rpc!Clients : Rpc!Writes(c)
    BY <1>writes
  <2>2. PICK n \in 1 .. Len(queue[c]) :
          queue' = [queue EXCEPT ![c] = SubSeq(queue[c], n + 1, Len(queue[c]))]
    BY <1>typ, <2>1, LenProperties DEF Rpc!Writes
  <2>3. UNCHANGED <<missed, writerTask, open, stopJobs>> /\ queue[c] # <<>>
    BY <2>1 DEF Rpc!Writes
  <2>4. /\ queue'[c] = SubSeq(queue[c], n + 1, Len(queue[c]))
        /\ \A d \in Rpc!Clients \ {c} : queue'[d] = queue[d]
    BY <2>2 DEF ServerType
  <2>5. \A i \in 1 .. Len(queue'[c]) :
           n + i \in 1 .. Len(queue[c]) /\ queue'[c][i] = queue[c][n + i]
    <3>1. Len(queue[c]) \in Nat /\ \A i \in n + 1 .. Len(queue[c]) : queue[c][i] \in Message
      BY <1>typ, LenProperties, ElementOfSeq
    <3>2. /\ Len(queue'[c]) = IF n + 1 <= Len(queue[c]) THEN Len(queue[c]) - n ELSE 0
          /\ \A i \in 1 .. Len(queue[c]) - n : queue'[c][i] = queue[c][n + i]
      <4>1. n + 1 \in Int /\ Len(queue[c]) \in Int
        BY <3>1
      <4>2. /\ Len(queue'[c]) = IF n + 1 <= Len(queue[c]) THEN Len(queue[c]) - (n + 1) + 1 ELSE 0
            /\ \A i \in 1 .. Len(queue[c]) - (n + 1) + 1 : queue'[c][i] = queue[c][n + 1 + i - 1]
        BY <2>4, <3>1, <4>1, SubSeqProperties
      <4> QED
        BY <3>1, <4>2
    <3> QED
      BY <3>1, <3>2
  <2>6. QueueInv'
    BY <2>3, <2>4 DEF QInv, QueueInv
  <2>7. ASSUME NEW d \in Rpc!Clients, NEW i \in 1 .. Len(queue'[d]), queue'[d][i].kind = "cancel"
        PROVE  Names(request', queue'[d][i].of, d)
    <3>1. PICK k \in 1 .. Len(queue[d]) : queue'[d][i] = queue[d][k]
      BY <2>4, <2>5
    <3>2. queue[d][k] \in Message
      BY <1>typ, ElementOfSeq
    <3>3. Names(request, queue[d][k].of, d) /\ queue[d][k].of \in Askers
      BY <2>7, <3>1, <3>2 DEF QInv, CancelInv, Message, Rpc!Line
    <3> QED
      BY <1>keeps, <3>1, <3>3 DEF Keeps
  <2>8. CancelInv'
    BY <2>7 DEF CancelInv
  <2> QED
    BY <2>3, <2>6, <2>8, GoneStep DEF QInv
<1>writerends. CASE \E c \in Rpc!Clients : Rpc!WriterEnds(c)
  <2>1. PICK c \in Rpc!Clients : Rpc!WriterEnds(c)
    BY <1>writerends
  <2>2. /\ UNCHANGED <<missed, queue, open, stopJobs, request>> /\ writerTask[c] = "runs" /\ queue[c] = <<>>
        /\ open[c] = "closing" /\ \A job \in stopJobs : job.client # c
        /\ writerTask'[c] = "ended" /\ \A d \in Rpc!Clients \ {c} : writerTask'[d] = writerTask[d]
    BY <2>1 DEF Rpc!WriterEnds, Rpc!Closing, ServerType, Rpc!active
  <2>3. QueueInv' /\ SendersGone' /\ CancelInv'
    BY <2>2 DEF QInv, QueueInv, SendersGone, CancelInv
  <2> QED
    BY <2>3 DEF QInv
<1>cut. CASE \E c \in Rpc!Clients : Rpc!DrainLimit(c) \/ Rpc!OutputBreaks(c)
  <2>1. PICK c \in Rpc!Clients : Rpc!Cut(c)
    BY <1>cut DEF Rpc!DrainLimit, Rpc!OutputBreaks
  <2>2. /\ UNCHANGED <<open, stopJobs, request>> /\ missed' \subseteq missed \cup {c}
        /\ queue'[c] = <<>> /\ \A d \in Rpc!Clients \ {c} : queue'[d] = queue[d]
        /\ writerTask'[c] = "cut" /\ \A d \in Rpc!Clients \ {c} : writerTask'[d] = writerTask[d]
    BY <2>1 DEF Rpc!Cut, ServerType, Rpc!active
  <2>3. QueueInv' /\ SendersGone' /\ CancelInv'
    BY <2>2 DEF QInv, QueueInv, SendersGone, CancelInv
  <2> QED
    BY <2>3 DEF QInv
<1>closes. CASE \E c \in Rpc!Clients : Rpc!Closes(c)
  <2>1. /\ UNCHANGED <<queue, writerTask, request>> /\ missed' \subseteq missed /\ stopJobs' \subseteq stopJobs
        /\ \A d \in Rpc!Clients : open'[d] \in {open[d], "closed"}
    BY <1>closes DEF Rpc!Closes, ServerType, Rpc!active
  <2>2. QueueInv' /\ SendersGone' /\ CancelInv'
    BY <2>1 DEF QInv, QueueInv, SendersGone, CancelInv
  <2> QED
    BY <2>2 DEF QInv
<1> QED
  BY <1>rest, <1>handled, <1>notify, <1>request, <1>asks, <1>drops, <1>stopped, <1>writes, <1>writerends,
     <1>cut, <1>closes DEF Rpc!Next, Rpc!Serving, Rpc!Writing

\* Every step keeps one answer for each request, or the one that is still due.
LEMMA AnswersStep ==
    ASSUME ServerType, RInv, QInv, AnswerInv, [Rpc!Next]_(Rpc!vars)
    PROVE  AnswerInv'
<1>typ. /\ \A c \in Rpc!Clients : answers[c] \in Seq(Nat) /\ Len(answers[c]) \in Nat
        /\ \A job \in stopJobs : /\ job.client \in Rpc!Clients /\ job.line \in Nat
                                 /\ job = [client |-> job.client, line |-> job.line]
        /\ server = "handles" => current \in Rpc!Clients /\ open[current] = "open"
  <2>1. \A c \in Rpc!Clients : answers[c] \in Seq(Nat)
    BY DEF ServerType
  <2>2. \A c \in Rpc!Clients : Len(answers[c]) \in Nat
    BY <2>1, LenProperties
  <2>3. server = "handles" => current \in Rpc!Clients /\ open[current] = "open"
    BY DEF ServerType, RInv, ReadsActive, ServerEnds
  <2> QED
    BY <2>1, <2>2, <2>3 DEF ServerType
<1>rest. CASE /\ UNCHANGED <<answers, stopJobs>>
              /\ UNCHANGED <<server, current>> \/ (server # "handles" /\ server' # "handles")
  BY <1>rest DEF AnswerInv, Rpc!Runs
<1>others. CASE \/ Rpc!Started \/ Rpc!AppEnded \/ Rpc!Drained \/ Rpc!Shutdown \/ Rpc!NoLine
                \/ Rpc!AnswerLine \/ Rpc!Notify
                \/ UNCHANGED Rpc!vars
                \/ \E p \in Askers : Rpc!AskEnds(p) \/ Rpc!Asks(p) \/ Rpc!Drops(p)
                \/ \E c \in Rpc!Clients : \/ Rpc!Accept(c) \/ Rpc!Writes(c) \/ Rpc!WriterEnds(c)
                                          \/ Rpc!DrainLimit(c)
                                      \/ Rpc!OutputBreaks(c)
  <2>1. /\ UNCHANGED <<answers, stopJobs>>
        /\ UNCHANGED <<server, current>> \/ (server # "handles" /\ server' # "handles")
    BY <1>others DEF Rpc!Started, Rpc!AppEnded, Rpc!Drained, Rpc!Shutdown, Rpc!NoLine, Rpc!AnswerLine,
                     Rpc!Notify, Rpc!AskEnds, Rpc!Asks, Rpc!Drops,
                     Rpc!Accept, Rpc!Writes, Rpc!WriterEnds, Rpc!DrainLimit, Rpc!OutputBreaks, Rpc!Cut,
                     Rpc!vars, Rpc!loop
  <2> QED
    BY <1>rest, <2>1
<1>handled. CASE Rpc!Handled
  <2> DEFINE last == Len(answers[current])
  <2>1. /\ current \in Rpc!Clients /\ server = "handles" /\ server' = "selects"
        /\ UNCHANGED <<current, stopJobs>>
        /\ answers' = [answers EXCEPT ![current][last] = @ + 1]
    BY <1>handled, <1>typ DEF Rpc!Handled, Rpc!Answers
  <2>2. /\ last # 0 /\ last \in 1 .. Len(answers[current]) /\ [client |-> current, line |-> last] \notin stopJobs
    BY <1>typ, <2>1 DEF AnswerInv
  <2>3. /\ answers'[current] = [answers[current] EXCEPT ![last] = @ + 1]
        /\ \A c \in Rpc!Clients \ {current} : answers'[c] = answers[c]
    BY <2>1 DEF ServerType
  <2>4. answers[current][last] = 0
    BY <2>1, <2>2 DEF AnswerInv, Rpc!Runs
  <2>5. /\ Len(answers'[current]) = last /\ answers'[current][last] = 1
        /\ \A line \in 1 .. last : line # last => answers'[current][line] = answers[current][line]
    BY <1>typ, <2>1, <2>2, <2>3, <2>4, ExceptSeq
  <2>6. \A c \in Rpc!Clients : \A line \in 1 .. Len(answers[c]) :
          Rpc!Runs(c, line)' <=> Rpc!Runs(c, line) /\ ~ (c = current /\ line = last)
    BY <2>1, <2>2 DEF Rpc!Runs
  <2> HIDE DEF last
  <2>7. \A c \in Rpc!Clients : Len(answers'[c]) = Len(answers[c])
    BY <2>3, <2>5 DEF last
  <2>8. \A c \in Rpc!Clients : \A line \in 1 .. Len(answers'[c]) :
          answers'[c][line] = IF Rpc!Runs(c, line)' THEN 0 ELSE 1
    BY <2>1, <2>3, <2>5, <2>6, <2>7 DEF AnswerInv, last
  <2> QED
    BY <1>typ, <2>1, <2>7, <2>8 DEF AnswerInv
<1>request. CASE \E call \in {"refused", "method", "stop_job"} : Rpc!RequestLine(call)
  <2>1. PICK call \in {"refused", "method", "stop_job"} : Rpc!RequestLine(call)
    BY <1>request
  <2> DEFINE line == Len(answers[current]) + 1
             job == [client |-> current, line |-> line]
             count == IF call = "refused" THEN 1 ELSE 0
  <2>2. /\ current \in Rpc!Clients /\ server = "selects" /\ UNCHANGED current
        /\ answers' = [answers EXCEPT ![current] = Append(@, count)]
        /\ server' = (IF call = "method" THEN "handles" ELSE server)
        /\ stopJobs' = (IF call = "stop_job" THEN stopJobs \cup {job} ELSE stopJobs)
    BY <2>1 DEF Rpc!RequestLine, ServerType
  <2>3. /\ answers'[current] = Append(answers[current], count)
        /\ \A c \in Rpc!Clients \ {current} : answers'[c] = answers[c]
    BY <2>2 DEF ServerType
  <2>4. count \in Nat /\ line \in Nat /\ line # 0
    BY <1>typ, <2>2
  <2>5. /\ Len(answers'[current]) = line /\ answers'[current][line] = count
        /\ \A l \in 1 .. Len(answers[current]) : answers'[current][l] = answers[current][l]
    BY <1>typ, <2>2, <2>3, <2>4, AppendProperties
  <2>6. job \notin stopJobs
    BY <1>typ, <2>2 DEF AnswerInv
  <2>7. \A c \in Rpc!Clients : \A l \in Nat :
          Rpc!Runs(c, l)' <=> Rpc!Runs(c, l) \/ (c = current /\ l = line /\ call # "refused")
    BY <2>2, <2>5 DEF Rpc!Runs
  <2>8. ~ Rpc!Runs(current, line)
    BY <2>2, <2>6 DEF Rpc!Runs
  <2> HIDE DEF line, job, count
  <2>9. \A c \in Rpc!Clients : \A l \in 1 .. Len(answers'[c]) :
          answers'[c][l] = IF Rpc!Runs(c, l)' THEN 0 ELSE 1
    <3> SUFFICES ASSUME NEW c \in Rpc!Clients, NEW l \in 1 .. Len(answers'[c])
                 PROVE  answers'[c][l] = IF Rpc!Runs(c, l)' THEN 0 ELSE 1
      OBVIOUS
    <3>1. CASE c = current /\ l = line
      BY <2>4, <2>5, <2>7, <2>8, <3>1 DEF count
    <3>2. CASE ~ (c = current /\ l = line)
      <4>1. l \in 1 .. Len(answers[c]) /\ answers'[c][l] = answers[c][l]
        BY <1>typ, <2>2, <2>3, <2>5, <3>2 DEF line
      <4> QED
        BY <1>typ, <2>7, <3>2, <4>1 DEF AnswerInv
    <3> QED
      BY <3>1, <3>2
  <2>10. \A j \in stopJobs' : j.line \in 1 .. Len(answers'[j.client])
    BY <1>typ, <2>2, <2>3, <2>4, <2>5 DEF AnswerInv, job, line
  <2>11. server' = "handles" => Len(answers'[current]) # 0 /\ job \notin stopJobs'
    BY <2>2, <2>4, <2>5, <2>6
  <2> QED
    BY <2>2, <2>5, <2>9, <2>10, <2>11 DEF AnswerInv, job
<1>stopped. CASE \E job \in stopJobs : Rpc!JobStopped(job)
  <2>1. PICK job \in stopJobs : Rpc!JobStopped(job)
    BY <1>stopped
  <2> DEFINE b == job.client
             last == job.line
  <2>2. /\ b \in Rpc!Clients /\ last \in 1 .. Len(answers[b]) /\ job = [client |-> b, line |-> last]
        /\ stopJobs' = stopJobs \ {job} /\ UNCHANGED <<server, current>>
        /\ answers' = [answers EXCEPT ![b][last] = @ + 1]
    BY <1>typ, <2>1 DEF Rpc!JobStopped, Rpc!Answers, AnswerInv, Rpc!loop
  <2>3. Rpc!Runs(b, last) /\ ~ (server = "handles" /\ b = current /\ last = Len(answers[b]))
    BY <2>2, <2>1 DEF AnswerInv, Rpc!Runs
  <2> HIDE DEF b, last
  <2>4. /\ answers'[b] = [answers[b] EXCEPT ![last] = @ + 1]
        /\ \A c \in Rpc!Clients \ {b} : answers'[c] = answers[c]
    BY <2>2 DEF ServerType
  <2>5. answers[b][last] = 0
    BY <2>2, <2>3 DEF AnswerInv
  <2>6. /\ Len(answers'[b]) = Len(answers[b]) /\ answers'[b][last] = 1
        /\ \A l \in 1 .. Len(answers[b]) : l # last => answers'[b][l] = answers[b][l]
    BY <1>typ, <2>2, <2>4, <2>5, ExceptSeq
  <2>7. \A c \in Rpc!Clients : Len(answers'[c]) = Len(answers[c])
    BY <2>4, <2>6
  <2>8. \A c \in Rpc!Clients : \A l \in 1 .. Len(answers[c]) :
          Rpc!Runs(c, l)' <=> Rpc!Runs(c, l) /\ ~ (c = b /\ l = last)
    BY <2>2, <2>3, <2>7 DEF Rpc!Runs
  <2>9. \A c \in Rpc!Clients : \A l \in 1 .. Len(answers'[c]) :
          answers'[c][l] = IF Rpc!Runs(c, l)' THEN 0 ELSE 1
    BY <2>4, <2>6, <2>7, <2>8 DEF AnswerInv
  <2>10. \A j \in stopJobs' : j.line \in 1 .. Len(answers'[j.client])
    BY <1>typ, <2>2, <2>7 DEF AnswerInv
  <2>11. server' = "handles" =>
           /\ Len(answers'[current]) # 0
           /\ [client |-> current, line |-> Len(answers'[current])] \notin stopJobs'
    BY <1>typ, <2>2, <2>7 DEF AnswerInv
  <2> QED
    BY <2>2, <2>9, <2>10, <2>11 DEF AnswerInv
<1>closes. CASE \E c \in Rpc!Clients : Rpc!Closes(c)
  <2>1. PICK c \in Rpc!Clients : Rpc!Closes(c)
    BY <1>closes
  <2>2. /\ stopJobs' = {job \in stopJobs : job.client # c} /\ UNCHANGED <<server, current>>
        /\ answers'[c] = <<>> /\ \A d \in Rpc!Clients \ {c} : answers'[d] = answers[d]
        /\ open[c] = "closing"
    BY <2>1 DEF Rpc!Closes, Rpc!Closing, ServerType, Rpc!loop
  <2>3. \A d \in Rpc!Clients \ {c} : \A l \in Nat : Rpc!Runs(d, l)' <=> Rpc!Runs(d, l)
    BY <2>2 DEF Rpc!Runs
  <2>4. \A d \in Rpc!Clients : \A l \in 1 .. Len(answers'[d]) :
          d # c /\ answers'[d][l] = IF Rpc!Runs(d, l)' THEN 0 ELSE 1
    BY <1>typ, <2>2, <2>3 DEF AnswerInv
  <2>5. server = "handles" => current # c
    BY <1>typ, <2>2
  <2> QED
    BY <1>typ, <2>2, <2>4, <2>5 DEF AnswerInv
<1> QED
  BY <1>others, <1>handled, <1>request, <1>stopped, <1>closes DEF Rpc!Next, Rpc!Serving, Rpc!Writing

-----------------------------------------------------------------------------
(* The theorems *)

\* The inductive invariant holds in every state.
THEOREM ServerInvariant == Rpc!Spec => []ServerInv
<1>1. Rpc!Init => ServerInv
  BY TypeInit, RequestsInit, MessagesInit DEF ServerInv
<1>2. ServerInv /\ [Rpc!Next]_(Rpc!vars) => ServerInv'
  BY TypeStep, RequestsStep, QueuesStep, AnswersStep DEF ServerInv
<1> QED
  BY <1>1, <1>2, PTL DEF Rpc!Spec

\* A request of a plugin gets the answer to itself, and waits only for the active client, whatever
\* the frontends answer and whoever connects.
THEOREM RequestsStayTrue == Rpc!Spec => []Rpc!RequestsTrue
<1>1. ServerInv => Rpc!RequestsTrue
  <2> SUFFICES ASSUME ServerType, RInv PROVE Rpc!RequestsTrue
    BY DEF ServerInv
  <2>1. \A p \in Askers : request[p].answer \in {"none", p}
    BY DEF RInv, IdsCount
  <2>2. server \in {"starts", "selects", "handles", "shuts"} => writer = current
    BY DEF RInv, ReadsActive, ServerEnds
  <2>3. pending = {request[p].id : p \in {q \in Askers :
                     request[q].state = "waits" /\ request[q].answer = "none" /\ request[q].client = writer}}
    BY DEF RInv, PendingInv, Unanswered
  <2> QED
    BY <2>1, <2>2, <2>3 DEF Rpc!RequestsTrue
<1> QED
  BY <1>1, ServerInvariant, PTL

\* A client gets no message after one that it lost, and all of them when its writer ended by itself;
\* each cancel names a request of its client, and each request that the server read has one answer,
\* unless its method runs.
THEOREM MessagesStay == Rpc!Spec => []Rpc!NothingLost
<1>1. ServerInv => Rpc!NothingLost
  <2> SUFFICES ASSUME ServerType, QInv, AnswerInv, NEW c \in Rpc!Clients
               PROVE  /\ c \in missed \/ writerTask[c] = "ended" => queue[c] = <<>>
                      /\ writerTask[c] = "ended" => c \notin missed
                      /\ \A m \in Rpc!ToSet(queue[c]) : m.kind = "cancel" => request[m.of].client = c
                      /\ \A line \in DOMAIN answers[c] :
                           answers[c][line] = IF Rpc!Runs(c, line) THEN 0 ELSE 1
    BY DEF ServerInv, Rpc!NothingLost
  <2>1. /\ c \in missed \/ writerTask[c] = "ended" => queue[c] = <<>>
        /\ writerTask[c] = "ended" => c \notin missed
    BY DEF QInv, QueueInv
  <2>2. queue[c] \in Seq(Message) /\ answers[c] \in Seq(Nat)
    BY DEF ServerType
  <2>3. DOMAIN queue[c] = 1 .. Len(queue[c]) /\ DOMAIN answers[c] = 1 .. Len(answers[c])
    BY <2>2, LenProperties
  <2>4. \A m \in Rpc!ToSet(queue[c]) : m.kind = "cancel" => request[m.of].client = c
    BY <2>3 DEF Rpc!ToSet, QInv, CancelInv, Names
  <2> QED
    BY <2>1, <2>3, <2>4 DEF AnswerInv
<1> QED
  BY <1>1, ServerInvariant, PTL

=============================================================================
