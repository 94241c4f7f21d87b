---------------------------- MODULE OutputProofs ----------------------------
(***************************************************************************)
(* Theorems about Output, for any views and questions, every page size and *)
(* every bound and mix of calls: what each listener shows is what the      *)
(* session is (ListenersTrueHolds).                                        *)
(*                                                                         *)
(* A listener gets no update at once: one that waits keeps it, and an      *)
(* answer of the store is seen later than the store served it.  So each    *)
(* part of the invariant says where a fact is that a listener does not     *)
(* show yet.  An event is shown, kept, or in the one answer of a write     *)
(* that nobody saw (LastUnseen, EventOf); the settings of the host are the *)
(* newest but for that event (HostOK).  An input is in the queue, pending  *)
(* or gone, and gone is final (InputInv); it is published before a commit  *)
(* can consume it (TakeInv).  A listener that shows an input which is not  *)
(* pending lacks the event or the removal that takes it away (PendingOf),  *)
(* and one that kept an acceptance keeps what takes the input away after   *)
(* it (KeptOf).                                                            *)
(* The snapshot of a read is that of an earlier moment, after m events:    *)
(* ReadOf says what came since, and that the listener keeps it or that it  *)
(* is on its way (lemmas Gets...).                                         *)
(***************************************************************************)
EXTENDS Output, SequenceTheorems, WellFoundedInduction, TLAPS

\* The types of an event, of an update and of what a listener shows.
Records == [settings : BOOLEAN, consumed : SUBSET Nat]
Update ==
    ({"saved", "accepted", "removed"} \X Nat) \cup ({"state"} \X BOOLEAN) \cup ({"asked", "closed"} \X Questions)
Shown ==
    [saved : SUBSET Nat, pending : SUBSET Nat, questions : SUBSET Questions, running : BOOLEAN, settings : Nat,
     shown : BOOLEAN, repeated : BOOLEAN]
Fresh(u) == u \in Update /\ (u[1] = "saved" => u[2] \in 1 .. Newest)

\* The operations that save an event, and those of the holder of the session lock.
Writes == {"commit", "settings", "recover"}
Writers == Writes \cup {"take"}

\* The operations of the store and their answers.
Ops ==
    ({"accept", "remove"} \X Nat \X {0} \X {"client", "task"})
    \cup ({"commit"} \X (SUBSET Nat) \X {0} \X {"task"})
    \cup ({"settings"} \X {{}} \X {0} \X {"client", "task"})
    \cup ({"take", "recover"} \X {0} \X {0} \X {"task"})
    \cup ({"read"} \X {Observer} \X Nat \X {"client"})
    \cup ({"read"} \X Views \X Nat \X {"task"})
    \cup ({"page"} \X Views \X (SUBSET Nat) \X {"task"})
Loaded == [page : SUBSET Nat, pending : SUBSET Nat]
Results == Nat \cup BOOLEAN \cup (SUBSET Nat) \cup Loaded
ResultOK(op, r) ==
    /\ op[1] = "accept" => r = TRUE
    /\ op[1] = "remove" => r \in BOOLEAN
    /\ op[1] \in Writes => r \in 0 .. Newest
    /\ op[1] = "take" => r \in SUBSET Nat
    /\ op[1] = "read" => r \in Loaded
    /\ op[1] = "page" => r = op[3]

OutType ==
    /\ events \in Seq(Records) /\ Newest >= 1
    /\ pending \subseteq Nat /\ taken \subseteq Nat /\ gone \subseteq Nat
    /\ queue \in Seq(Ops)
    /\ answers \in Seq(Ops \X Results)
    /\ \A k \in DOMAIN answers : ResultOK(answers[k][1], answers[k][2])
    /\ settings \in 0 .. Newest
    /\ running \in BOOLEAN
    /\ questions \subseteq Questions
    /\ mode \in [Listeners -> {"off", "waiting", "on"}]
    /\ kept \in [Listeners -> Seq(Update)]
    /\ client \in [Listeners -> Shown]
    /\ accepted \in Nat /\ faults \in Nat

\* One writer is in flight, and one read of a listener.
Same(a, b) ==
    \/ a[1] \in Writers /\ b[1] \in Writers
    \/ a[1] = "read" /\ b[1] = "read" /\ a[2] = b[2]
    \/ a[1] = "accept" /\ b[1] = "accept" /\ a[2] = b[2]
Alone ==
    /\ \A j, k \in DOMAIN queue : j # k => ~Same(queue[j], queue[k])
    /\ \A j, k \in DOMAIN answers : j # k => ~Same(answers[j][1], answers[k][1])
    /\ \A j \in DOMAIN queue, k \in DOMAIN answers : ~Same(queue[j], answers[k][1])

\* The operations of a listener in flight, beside its mode.
FlightOK(op) ==
    /\ op[1] = "read" => mode[op[2]] # "on"
    /\ op[1] = "page" =>
         /\ mode[op[2]] # "waiting"
         /\ mode[op[2]] = "on" => \A n \in op[3] : \E a, b \in client[op[2]].saved : a < n /\ n < b
Flights ==
    /\ \A j \in DOMAIN queue : FlightOK(queue[j])
    /\ \A k \in DOMAIN answers : FlightOK(answers[k][1])

\* A listener, beside its mode.
ModeOK(l) ==
    /\ mode[l] # "waiting" => kept[l] = <<>>
    /\ client[l].saved \subseteq 1 .. Newest
    /\ client[l].settings <= Newest
    /\ l = Observer => mode[l] # "off"
    /\ l # Observer /\ mode[l] # "on" => client[l] = Empty(1, 1)
    /\ l # Observer /\ mode[l] = "on" => client[l].shown /\ client[l].saved # {}

\* An input on its way.
InQueue(i) == \E j \in DOMAIN queue : queue[j][1] = "accept" /\ queue[j][2] = i
Answered(i) == \E k \in DOMAIN answers : answers[k][1][1] = "accept" /\ answers[k][1][2] = i
Removing(i) == \E k \in DOMAIN answers : answers[k][1][1] = "remove" /\ answers[k][1][2] = i /\ answers[k][2]
Consumes(i) == \E n \in 1 .. Newest : i \in events[n].consumed
InCommit(i) == \E j \in DOMAIN queue : queue[j][1] = "commit" /\ i \in queue[j][2]
Carried(i) == i \in taken \/ InCommit(i)
Taken(i) == \E k \in DOMAIN answers : answers[k][1][1] = "take" /\ i \in answers[k][2]
Gone(i) == i \in gone \/ Removing(i) \/ Consumes(i)
InputInv ==
    \A i \in Nat :
        /\ i \in pending => i <= accepted /\ i # 0 /\ ~InQueue(i) /\ ~Gone(i)
        /\ InQueue(i) => i <= accepted /\ i # 0 /\ ~Answered(i) /\ ~Gone(i) /\ ~Carried(i) /\ ~Taken(i)
        /\ Answered(i) \/ Gone(i) \/ Carried(i) \/ Taken(i) => i <= accepted /\ i # 0
        /\ Answered(i) => ~Carried(i) /\ ~Consumes(i)
        /\ i # 0 /\ i <= accepted => InQueue(i) \/ i \in pending \/ Gone(i)

\* An input is published as accepted before the take that holds it is answered.
TakeInv ==
    \A j, k \in DOMAIN answers :
        answers[j][1][1] = "accept" /\ answers[k][1][1] = "take" /\ answers[j][1][2] \in answers[k][2] => j < k

\* The saved events, published and on their way.
Unseen(n) == \E k \in DOMAIN answers : answers[k][1][1] \in Writes /\ answers[k][2] = n
Kept(l, u) == \E k \in DOMAIN kept[l] : kept[l][k] = u
Keeps(l, n) == \E k \in DOMAIN kept[l] : kept[l][k] = <<"saved", n>>

\* Only the newest event can be unpublished, and only set_settings saves settings.
LastUnseen ==
    /\ \A n \in Nat : Unseen(n) => n = 0 \/ n = Newest
    /\ \A k \in DOMAIN answers : answers[k][1][1] \in {"commit", "recover"} /\ answers[k][2] # 0 =>
         ~events[answers[k][2]].settings

\* The events of a listener that shows `c`: each one is shown, kept or on its way.
EventOf(l, c) ==
    /\ \A k \in DOMAIN kept[l] : kept[l][k][1] = "saved" =>
         /\ kept[l][k][2] \in 1 .. Newest
         /\ ~Unseen(kept[l][k][2])
         /\ \A j \in DOMAIN kept[l] : j < k /\ kept[l][j][1] = "saved" => kept[l][j][2] < kept[l][k][2]
    /\ c.shown /\ faults = 0 =>
         \A a \in c.saved : \A n \in a .. Newest : n \in c.saved \/ Unseen(n) \/ Keeps(l, n)
    /\ l = Observer /\ c.shown => 1 \in c.saved
    /\ l # Observer => ~c.repeated
EventOK(l) ==
    /\ EventOf(l, client[l])
    /\ l # Observer /\ mode[l] = "on" => \A n \in client[l].saved : ~Unseen(n)

\* The live state and the questions, after the kept updates.
OpenOf(l, c, q) ==
    \/ q \in c.questions /\ ~Kept(l, <<"closed", q>>)
    \/ \E k \in DOMAIN kept[l] :
         kept[l][k] = <<"asked", q>> /\ \A j \in DOMAIN kept[l] : kept[l][j] = <<"closed", q>> => j < k
StateKept(l) == \E k \in DOMAIN kept[l] : kept[l][k][1] = "state"
LiveOf(l, c) ==
    /\ \A k \in DOMAIN kept[l] : kept[l][k][1] = "state" =>
         \/ kept[l][k][2] = running
         \/ \E j \in DOMAIN kept[l] : j > k /\ kept[l][j][1] = "state"
    /\ c.shown => c.running = running \/ StateKept(l)
    /\ \A q \in Questions : OpenOf(l, c, q) => q \in questions
    /\ \A q \in questions : c.shown \/ Kept(l, <<"closed", q>>) => OpenOf(l, c, q)

\* The settings of the host, and those of a listener.
HostOK == faults = 0 => \A n \in 1 .. Newest : events[n].settings => n <= settings \/ Unseen(n)
SettingsOf(l, c) ==
    faults = 0 =>
    /\ \A n \in c.saved : events[n].settings => n <= c.settings
    /\ c.shown => \A n \in 1 .. Newest :
         events[n].settings => n <= c.settings \/ Unseen(n) \/ Keeps(l, n)

\* The inputs that a listener keeps and shows.
KeptOf(l, c) ==
    \A k \in DOMAIN kept[l] :
        /\ kept[l][k][1] = "accepted" =>
             LET i == kept[l][k][2]
             IN /\ i \in pending \/ Removing(i) \/ Kept(l, <<"removed", i>>) \/ Consumes(i)
                /\ \A n \in c.saved : i \notin events[n].consumed
        /\ kept[l][k][1] = "removed" => kept[l][k][2] \in gone
        /\ kept[l][k][1] = "saved" => events[kept[l][k][2]].consumed \subseteq gone
        /\ \A j \in DOMAIN kept[l] :
             kept[l][j][1] = "accepted"
             /\ (kept[l][k] = <<"removed", kept[l][j][2]>>
                 \/ (kept[l][k][1] = "saved" /\ kept[l][j][2] \in events[kept[l][k][2]].consumed)) => j < k
PendingOf(l, c) ==
    \A i \in Nat :
        /\ c.shown /\ i \in pending =>
             i \in c.pending \/ Answered(i) \/ Kept(l, <<"accepted", i>>)
        /\ i \in c.pending =>
             \/ i \in pending \/ Removing(i) \/ Kept(l, <<"removed", i>>)
             \/ \E n \in 1 .. Newest :
                  /\ i \in events[n].consumed /\ n \notin c.saved
                  /\ l # Observer => \E a \in c.saved : a < n

Open(l, q) == OpenOf(l, client[l], q)
LiveOK(l) == LiveOf(l, client[l])
SettingsOK(l) == SettingsOf(l, client[l])
KeptOK(l) == KeptOf(l, client[l])
PendingOK(l) == PendingOf(l, client[l])

\* A read of a listener that waits, in the queue and in the answers.
Unread(j) ==
    LET l == queue[j][2]
        mark == queue[j][3]
    IN  /\ mark <= Newest
        /\ l = Observer => 1 .. mark \subseteq client[l].saved
        /\ \A k \in DOMAIN kept[l] : kept[l][k][1] = "accepted" =>
             /\ ~Consumes(kept[l][k][2])
             /\ \A h \in 1 .. j - 1 : queue[h][1] = "commit" => kept[l][k][2] \notin queue[h][2]
        /\ l # Observer => \A k \in DOMAIN kept[l] : kept[l][k][1] = "saved" =>
             kept[l][k][2] = Newest /\ \A h \in 1 .. j - 1 : queue[h][1] \notin Writers
        /\ l # Observer /\ faults = 0 =>
             \/ \A n \in 1 .. Newest : events[n].settings => n <= mark
             \/ /\ \A h \in 1 .. j - 1 : queue[h][1] \notin Writers
                /\ \A n \in 1 .. Newest : events[n].settings => n <= mark \/ n = Newest

\* A read that the store answered after `m` events, beside what its listener keeps.
From(l, mark, m) == IF l = Observer THEN mark + 1 ELSE IF m > PageSize THEN m - PageSize + 1 ELSE 1
ReadOf(l, mark, loaded, k, m) ==
    /\ mark <= m
    /\ loaded.page = From(l, mark, m) .. m
    /\ l = Observer => 1 .. mark \subseteq client[l].saved /\ client[l].saved \subseteq 1 .. m
    /\ faults = 0 => \A n \in m + 1 .. Newest : Unseen(n) \/ Keeps(l, n)
    /\ l # Observer =>
         /\ \A j \in DOMAIN answers : answers[j][1][1] \in Writes /\ answers[j][2] # 0 =>
              (j < k => answers[j][2] <= m) /\ (j > k => answers[j][2] > m)
         /\ \A h \in DOMAIN kept[l] : kept[l][h][1] = "saved" => kept[l][h][2] >= m
         /\ faults = 0 => \A n \in 1 .. m : events[n].settings => n <= mark \/ n \in loaded.page
    /\ \A i \in pending : i \in loaded.pending \/ Answered(i) \/ Kept(l, <<"accepted", i>>)
    /\ \A i \in loaded.pending :
         i \in pending \/ Removing(i) \/ Kept(l, <<"removed", i>>)
             \/ \E n \in m + 1 .. Newest : i \in events[n].consumed
    /\ \A h \in DOMAIN kept[l] : kept[l][h][1] = "accepted" =>
         \A n \in 1 .. m : kept[l][h][2] \notin events[n].consumed
ReadAt(k, m) == ReadOf(answers[k][1][2], answers[k][1][3], answers[k][2], k, m)

\* The reads of the listeners that wait.
ReadInv ==
    /\ \A j \in DOMAIN queue : queue[j][1] = "read" /\ mode[queue[j][2]] = "waiting" => Unread(j)
    /\ \A k \in DOMAIN answers : answers[k][1][1] = "read" /\ mode[answers[k][1][2]] = "waiting" =>
         \E m \in 1 .. Newest : ReadAt(k, m)

\* The inductive invariant.
ListenerOK(l) == ModeOK(l) /\ EventOK(l) /\ LiveOK(l) /\ SettingsOK(l) /\ KeptOK(l) /\ PendingOK(l)
ListenersOK == \A l \in Listeners : ListenerOK(l)
OutInv ==
    /\ OutType /\ Alone /\ Flights /\ InputInv /\ TakeInv /\ LastUnseen /\ HostOK
    /\ ListenersOK
    /\ ReadInv
-----------------------------------------------------------------------------
\* The client of the protocol is no view, and a view reads a page.
OutSane == Observer \notin Views /\ PageSize \in Nat \ {0}

\* The numbers of a set have a least one, and those of a bounded set a greatest one.
Less == {p \in Nat \X Nat : p[1] < p[2]}

\* A set of numbers that is not empty has a least number.
LEMMA LeastOf ==
    ASSUME NEW S \in SUBSET Nat, S # {}
    PROVE  \E x \in S : \A y \in S : x <= y
<1>1. IsWellFoundedOn(Less, Nat)
  <2>1. Less = OpToRel(<, Nat)
    BY DEF Less, OpToRel
  <2> QED
    BY <2>1, NatLessThanWellFounded
<1>2. PICK x \in S : \A y \in S : ~(<<y, x>> \in Less)
  BY <1>1, WFMin
<1>3. ASSUME NEW y \in S PROVE x <= y
  <2>1. x \in Nat /\ y \in Nat /\ <<y, x>> \notin Less
    BY <1>2
  <2> QED
    BY <2>1 DEF Less
<1> QED
  BY <1>3

\* A bounded set of numbers that is not empty has a greatest number, and Max names it.
LEMMA GreatestOf ==
    ASSUME NEW n \in Nat, NEW S \in SUBSET (0 .. n), S # {}
    PROVE  Max(S) \in S /\ \A y \in S : y <= Max(S)
<1> DEFINE T == {m \in 0 .. n : n - m \in S}
<1>1. T \in SUBSET Nat
  OBVIOUS
<1>2. T # {}
  <2>1. PICK x \in S : TRUE
    OBVIOUS
  <2>2. n - x \in 0 .. n /\ n - (n - x) = x
    OBVIOUS
  <2> QED
    BY <2>1, <2>2
<1>3. PICK t \in T : \A y \in T : t <= y
  <2> HIDE DEF T
  <2> QED
    BY <1>1, <1>2, LeastOf
<1>4. ASSUME NEW y \in S PROVE n - t >= y
  <2>1. n - y \in 0 .. n /\ n - (n - y) = y
    OBVIOUS
  <2>2. n - y \in T
    BY <2>1
  <2>3. t <= n - y
    BY <2>2, <1>3
  <2> QED
    BY <2>1, <2>3
<1>5. \E x \in S : \A y \in S : x >= y
  BY <1>4
<1>6. Max(S) \in S /\ \A y \in S : Max(S) >= y
  BY <1>5 DEF Max
<1> QED
  BY <1>6

\* The events are records, and there is at least the one of the creation.
LEMMA NewestType ==
    ASSUME OutType
    PROVE  /\ Newest \in Nat /\ Newest >= 1 /\ DOMAIN events = 1 .. Newest
           /\ \A n \in 1 .. Newest : events[n] \in Records
BY DEF OutType, Newest

\* The parts of an update.
LEMMA UpdateParts ==
    ASSUME NEW u \in Update
    PROVE  /\ u = <<u[1], u[2]>>
           /\ u[1] \in {"saved", "accepted", "removed", "state", "asked", "closed"}
           /\ u[1] \in {"saved", "accepted", "removed"} => u[2] \in Nat
           /\ u[1] = "state" => u[2] \in BOOLEAN
           /\ u[1] \in {"asked", "closed"} => u[2] \in Questions
BY DEF Update

\* What is in a set after its changes.
LEMMA LeftMembers ==
    ASSUME NEW base, NEW comes, NEW goes, NEW x
    PROVE  x \in Left(base, comes, goes) <=>
             \/ x \in base /\ \A p \in goes : p[2] # x
             \/ \E p \in comes : p[2] = x /\ \A q \in goes : q[2] = x => q[1] < p[1]
<1>1. x \in {y \in base : \A p \in goes : p[2] # y} <=> x \in base /\ \A p \in goes : p[2] # x
  OBVIOUS
<1> DEFINE last == {p \in comes : \A q \in goes : q[2] = p[2] => q[1] < p[1]}
<1>2. x \in {p[2] : p \in last} <=> \E p \in comes : p[2] = x /\ \A q \in goes : q[2] = x => q[1] < p[1]
  OBVIOUS
<1> QED
  BY <1>1, <1>2 DEF Left

\* The newest new settings are those of one of the numbers, or the settings stay.
LEMMA NewerOf ==
    ASSUME OutType, NEW l, NEW set \in Nat, NEW numbers \in SUBSET (1 .. Newest)
    PROVE  LET new == {n \in numbers : events[n].settings /\ (l = Observer => n > set)}
           IN \/ new = {} /\ Newer(l, set, numbers) = set
              \/ /\ Newer(l, set, numbers) \in new
                 /\ \A n \in new : n <= Newer(l, set, numbers)
<1> DEFINE new == {n \in numbers : events[n].settings /\ (l = Observer => n > set)}
<1>1. CASE new = {}
  BY <1>1 DEF Newer
<1>2. CASE new # {}
  <2>1. new \in SUBSET (0 .. Newest) /\ Newest \in Nat
    <3>1. new \subseteq numbers
      OBVIOUS
    <3>2. Newest \in Nat /\ numbers \subseteq 0 .. Newest
      BY NewestType
    <3> QED
      BY <3>1, <3>2
  <2>2. Max(new) \in new /\ \A n \in new : n <= Max(new)
    <3> HIDE DEF new
    <3> QED
      BY <2>1, <1>2, GreatestOf
  <2>3. Newer(l, set, numbers) = Max(new)
    BY <1>2 DEF Newer
  <2> QED
    BY <2>2, <2>3
<1> QED
  BY <1>1, <1>2
-----------------------------------------------------------------------------
(***************************************************************************)
(* What a listener shows after some updates.                               *)
(***************************************************************************)

\* A set of pairs of places.
Places(ks, pairs) == \A p \in pairs : p = <<p[1], p[2]>> /\ p[1] \in ks

\* What a map holds, by the places of its changes.
LEMMA LeftPlaces ==
    ASSUME NEW base, NEW ks, NEW comes, NEW goes, NEW x, Places(ks, comes), Places(ks, goes)
    PROVE  x \in Left(base, comes, goes) <=>
             \/ x \in base /\ \A k \in ks : <<k, x>> \notin goes
             \/ \E k \in ks : <<k, x>> \in comes /\ \A j \in ks : <<j, x>> \in goes => j < k
<1>1. (\A p \in goes : p[2] # x) <=> \A k \in ks : <<k, x>> \notin goes
  <2>1. ASSUME NEW p \in goes, p[2] = x PROVE p[1] \in ks /\ <<p[1], x>> \in goes
    BY <2>1 DEF Places
  <2>2. ASSUME NEW k \in ks, <<k, x>> \in goes PROVE \E p \in goes : p[2] = x
    <3>1. <<k, x>>[2] = x
      OBVIOUS
    <3> QED
      BY <2>2, <3>1
  <2> QED
    BY <2>1, <2>2
<1>2. ASSUME NEW k \in ks
      PROVE  (\A q \in goes : q[2] = x => q[1] < k) <=> \A j \in ks : <<j, x>> \in goes => j < k
  <2>1. ASSUME \A q \in goes : q[2] = x => q[1] < k, NEW j \in ks, <<j, x>> \in goes PROVE j < k
    <3>1. <<j, x>>[2] = x /\ <<j, x>>[1] = j
      OBVIOUS
    <3> QED
      BY <2>1, <3>1
  <2>2. ASSUME \A j \in ks : <<j, x>> \in goes => j < k, NEW q \in goes, q[2] = x PROVE q[1] < k
    BY <2>2 DEF Places
  <2> QED
    BY <2>1, <2>2
<1>3. ASSUME NEW p \in comes, p[2] = x, \A q \in goes : q[2] = x => q[1] < p[1]
      PROVE  \E k \in ks : <<k, x>> \in comes /\ \A j \in ks : <<j, x>> \in goes => j < k
  BY <1>3, <1>2 DEF Places
<1>4. ASSUME NEW k \in ks, <<k, x>> \in comes, \A j \in ks : <<j, x>> \in goes => j < k
      PROVE  \E p \in comes : p[2] = x /\ \A q \in goes : q[2] = x => q[1] < p[1]
  <2>1. <<k, x>>[2] = x /\ <<k, x>>[1] = k
    OBVIOUS
  <2> QED
    BY <1>4, <1>2, <2>1
<1>5. (\E p \in comes : p[2] = x /\ \A q \in goes : q[2] = x => q[1] < p[1]) <=>
        \E k \in ks : <<k, x>> \in comes /\ \A j \in ks : <<j, x>> \in goes => j < k
  BY <1>3, <1>4
<1>6. x \in Left(base, comes, goes) <=>
        \/ x \in base /\ \A p \in goes : p[2] # x
        \/ \E p \in comes : p[2] = x /\ \A q \in goes : q[2] = x => q[1] < p[1]
  BY ONLY LeftMembers
<1> QED
  BY <1>1, <1>5, <1>6

\* The places of the updates of one kind.
LEMMA PairsMembers ==
    ASSUME NEW us, NEW ks, NEW kind
    PROVE  /\ Places(ks, Pairs(us, ks, kind))
           /\ \A k, x : <<k, x>> \in Pairs(us, ks, kind) <=> k \in ks /\ us[k][1] = kind /\ us[k][2] = x
BY DEF Pairs, Of, Places

\* An update takes an input away.
Goes(us, new, k, i) == (us[k][1] = "removed" /\ us[k][2] = i) \/ (k \in new /\ i \in events[us[k][2]].consumed)

\* The places where an input leaves: its removal, or a new event that consumes it.
LEMMA LeavingMembers ==
    ASSUME NEW us, NEW ks, NEW new, new \subseteq ks
    PROVE  /\ Places(ks, Leaving(us, ks, new))
           /\ \A k, x : <<k, x>> \in Leaving(us, ks, new) <=> k \in ks /\ Goes(us, new, k, x)
<1> DEFINE consumed == UNION {{<<k, i>> : i \in events[us[k][2]].consumed} : k \in new}
<1>1. Places(ks, consumed) /\ \A k, x : <<k, x>> \in consumed <=> k \in new /\ x \in events[us[k][2]].consumed
  BY DEF Places
<1>2. Leaving(us, ks, new) = Pairs(us, ks, "removed") \cup consumed
  BY DEF Leaving
<1> HIDE DEF consumed
<1>3. Places(ks, Leaving(us, ks, new))
  BY <1>1, <1>2, PairsMembers DEF Places
<1>4. ASSUME NEW k, NEW x PROVE <<k, x>> \in Leaving(us, ks, new) <=> k \in ks /\ Goes(us, new, k, x)
  BY <1>1, <1>2, PairsMembers DEF Goes
<1> QED
  BY <1>3, <1>4

\* The inputs that a listener shows after some updates.
LEMMA PendingAfter ==
    ASSUME NEW us, NEW ks, NEW new, new \subseteq ks, NEW base, NEW i
    PROVE  i \in Left(base, Pairs(us, ks, "accepted"), Leaving(us, ks, new)) <=>
             \/ i \in base /\ \A k \in ks : ~Goes(us, new, k, i)
             \/ \E k \in ks : /\ us[k][1] = "accepted" /\ us[k][2] = i
                              /\ \A j \in ks : Goes(us, new, j, i) => j < k
<1> DEFINE comes == Pairs(us, ks, "accepted")
           goes == Leaving(us, ks, new)
<1>1. Places(ks, comes) /\ \A k \in ks : <<k, i>> \in comes <=> us[k][1] = "accepted" /\ us[k][2] = i
  BY PairsMembers
<1>2. Places(ks, goes)
  BY LeavingMembers
<1>3. \A k \in ks : <<k, i>> \in goes <=> Goes(us, new, k, i)
  BY LeavingMembers
<1>4. i \in Left(base, comes, goes) <=>
             \/ i \in base /\ \A k \in ks : <<k, i>> \notin goes
             \/ \E k \in ks : <<k, i>> \in comes /\ \A j \in ks : <<j, i>> \in goes => j < k
  <2> HIDE DEF comes, goes
  <2> QED
    BY ONLY <1>1, <1>2, LeftPlaces
<1>5. i \in Left(base, comes, goes) <=>
             \/ i \in base /\ \A k \in ks : ~Goes(us, new, k, i)
             \/ \E k \in ks : /\ us[k][1] = "accepted" /\ us[k][2] = i
                              /\ \A j \in ks : Goes(us, new, j, i) => j < k
  <2> HIDE DEF comes, goes
  <2> QED
    BY <1>1, <1>3, <1>4
<1> QED
  BY <1>5

\* The questions that a listener shows after some updates.
LEMMA QuestionsAfter ==
    ASSUME NEW us, NEW ks, NEW base, NEW q
    PROVE  q \in Left(base, Pairs(us, ks, "asked"), Pairs(us, ks, "closed")) <=>
             \/ q \in base /\ \A k \in ks : ~(us[k][1] = "closed" /\ us[k][2] = q)
             \/ \E k \in ks : /\ us[k][1] = "asked" /\ us[k][2] = q
                              /\ \A j \in ks : us[j][1] = "closed" /\ us[j][2] = q => j < k
<1> DEFINE comes == Pairs(us, ks, "asked")
           goes == Pairs(us, ks, "closed")
<1>1. Places(ks, comes) /\ \A k \in ks : <<k, q>> \in comes <=> us[k][1] = "asked" /\ us[k][2] = q
  BY PairsMembers
<1>2. Places(ks, goes) /\ \A k \in ks : <<k, q>> \in goes <=> us[k][1] = "closed" /\ us[k][2] = q
  BY PairsMembers
<1>3. q \in Left(base, comes, goes) <=>
             \/ q \in base /\ \A k \in ks : <<k, q>> \notin goes
             \/ \E k \in ks : <<k, q>> \in comes /\ \A j \in ks : <<j, q>> \in goes => j < k
  <2> HIDE DEF comes, goes
  <2> QED
    BY <1>1, <1>2, LeftPlaces
<1>4. q \in Left(base, comes, goes) <=>
             \/ q \in base /\ \A k \in ks : ~(us[k][1] = "closed" /\ us[k][2] = q)
             \/ \E k \in ks : /\ us[k][1] = "asked" /\ us[k][2] = q
                              /\ \A j \in ks : us[j][1] = "closed" /\ us[j][2] = q => j < k
  <2> HIDE DEF comes, goes
  <2> QED
    BY <1>1, <1>2, <1>3
<1> QED
  BY <1>4

\* The new places, and the numbers of their events.
LEMMA NewMembers ==
    ASSUME NEW l, NEW saved, NEW us, NEW ks \in SUBSET Nat
    PROVE  LET new == New(l, saved, us, ks)
           IN /\ new \subseteq ks
              /\ \A k \in new : us[k][1] = "saved"
              /\ \A n : n \in Numbers(us, new) <=> \E k \in new : us[k][2] = n
              /\ l = Observer => \A k \in ks : us[k][1] = "saved" =>
                   us[k][2] \in saved \cup Numbers(us, new)
<1> DEFINE new == New(l, saved, us, ks)
<1>1. new \subseteq ks /\ \A k \in new : us[k][1] = "saved"
  BY DEF New, Of
<1>2. \A n : n \in Numbers(us, new) <=> \E k \in new : us[k][2] = n
  BY DEF Numbers
<1>3. ASSUME l = Observer, NEW k \in ks, us[k][1] = "saved", us[k][2] \notin saved
      PROVE  us[k][2] \in Numbers(us, new)
  <2> DEFINE of == Of(us, ks, "saved")
             Before(x) == {us[j][2] : j \in {j \in of : j < x}}
  <2>1. new = {x \in of : us[x][2] \notin saved \cup Before(x)}
    BY <1>3 DEF New, Has
  <2>2. of = {x \in ks : us[x][1] = "saved"}
    BY DEF Of
  <2>3. PICK x \in {x \in of : us[x][2] = us[k][2]} : \A y \in {y \in of : us[y][2] = us[k][2]} : x <= y
    <3> DEFINE same == {x \in of : us[x][2] = us[k][2]}
    <3>1. same \in SUBSET Nat
      BY <2>2
    <3>2. k \in same
      BY <1>3, <2>2
    <3> HIDE DEF same
    <3> QED
      BY <3>1, <3>2, LeastOf DEF same
  <2>4. us[x][2] \notin Before(x)
    <3>1. ASSUME NEW j \in of, j < x PROVE us[j][2] # us[x][2]
      <4>1. us[j][2] = us[x][2] => x <= j
        BY <2>3
      <4>2. j \in Nat /\ x \in Nat
        BY <2>2
      <4> QED
        BY <3>1, <4>1, <4>2
    <3> QED
      BY <3>1
  <2>5. x \in new
    BY <2>1, <2>3, <2>4, <1>3
  <2> QED
    BY <2>5, <2>3, <1>2
<1> QED
  BY <1>1, <1>2, <1>3

\* What a listener shows, field by field.
SeenOK(us, ks) == \A k \in ks : us[k][1] = "saved" => us[k][2] \in 1 .. Newest

\* What a listener shows after some updates, field by field.
LEMMA ShowAllFields ==
    ASSUME OutType, NEW l \in Listeners, NEW c \in Shown, NEW us \in Seq(Update), NEW ks \in SUBSET DOMAIN us,
           SeenOK(us, ks)
    PROVE  LET r == ShowAll(l, c, us, ks)
               new == New(l, c.saved, us, ks)
               state == Of(us, ks, "state")
           IN /\ r \in Shown
              /\ r.saved = c.saved \cup Numbers(us, new)
              /\ r.settings = Newer(l, c.settings, Numbers(us, new))
              /\ r.pending = Left(c.pending, Pairs(us, ks, "accepted"), Leaving(us, ks, new))
              /\ state = {} => r.running = c.running
              /\ state # {} => r.running = us[Max(state)][2]
              /\ r.questions = Left(c.questions, Pairs(us, ks, "asked"), Pairs(us, ks, "closed"))
              /\ r.repeated = (c.repeated \/ new # Of(us, ks, "saved"))
              /\ r.shown = c.shown
<1> DEFINE new == New(l, c.saved, us, ks)
           state == Of(us, ks, "state")
           numbers == Numbers(us, new)
           pend == Left(c.pending, Pairs(us, ks, "accepted"), Leaving(us, ks, new))
           asks == Left(c.questions, Pairs(us, ks, "asked"), Pairs(us, ks, "closed"))
           runs == IF state = {} THEN c.running ELSE us[Max(state)][2]
           rep == c.repeated \/ new # Of(us, ks, "saved")
<1>0. \A k \in ks : us[k] \in Update
  OBVIOUS
<1>01. ks \in SUBSET Nat
  OBVIOUS
<1>1. numbers \in SUBSET (1 .. Newest) /\ numbers \in SUBSET Nat
  <2>1. numbers \subseteq 1 .. Newest
    BY <1>01, NewMembers DEF SeenOK
  <2> QED
    BY <2>1, NewestType
<1>2. c.saved \in SUBSET Nat /\ c.pending \in SUBSET Nat /\ c.questions \in SUBSET Questions /\ c.settings \in Nat
      /\ c.running \in BOOLEAN /\ c.repeated \in BOOLEAN
  BY DEF Shown
<1>3. Newer(l, c.settings, numbers) \in Nat
  <2> HIDE DEF numbers
  <2>1. numbers \subseteq Nat
    BY <1>1
  <2> QED
    BY <1>1, <1>2, <2>1, NewerOf
<1>4. pend \in SUBSET Nat
  <2>1. ASSUME NEW i \in pend PROVE i \in Nat
    <3>1. i \in c.pending \/ \E k \in ks : us[k][1] = "accepted" /\ us[k][2] = i
      <4>1. new \subseteq ks
        BY <1>01, NewMembers
      <4> HIDE DEF new
      <4> QED
        BY <2>1, <4>1, PendingAfter
    <3> QED
      BY <3>1, <1>0, <1>2, UpdateParts
  <2> QED
    BY <2>1
<1>5. asks \in SUBSET Questions
  <2>1. ASSUME NEW q \in asks PROVE q \in Questions
    <3>1. q \in c.questions \/ \E k \in ks : us[k][1] = "asked" /\ us[k][2] = q
      BY <2>1, QuestionsAfter
    <3> QED
      BY <3>1, <1>0, <1>2, UpdateParts
  <2> QED
    BY <2>1
<1>6. runs \in BOOLEAN
  <2>1. CASE state # {}
    <3>1. state \in SUBSET (0 .. Len(us)) /\ Len(us) \in Nat
      BY DEF Of
    <3>2. Max(state) \in state
      <4> HIDE DEF state
      <4> QED
        BY <2>1, <3>1, GreatestOf
    <3>3. Max(state) \in ks /\ us[Max(state)][1] = "state"
      BY <3>2 DEF Of
    <3> QED
      BY <3>3, <1>0, <1>2, UpdateParts
  <2> QED
    BY <2>1, <1>2
<1>7. rep \in BOOLEAN
  BY <1>2
<1>8. ShowAll(l, c, us, ks) =
        [c EXCEPT !.saved = c.saved \cup numbers, !.settings = Newer(l, c.settings, numbers), !.pending = pend,
                  !.running = runs, !.questions = asks, !.repeated = rep]
  BY Zenon DEF ShowAll
<1> HIDE DEF new, state, numbers, pend, asks, runs, rep
<1>9. c.saved \cup numbers \in SUBSET Nat
  BY <1>1, <1>2
<1>10. LET r == ShowAll(l, c, us, ks)
       IN /\ r \in Shown
          /\ r.saved = c.saved \cup numbers /\ r.settings = Newer(l, c.settings, numbers) /\ r.pending = pend
          /\ r.running = runs /\ r.questions = asks /\ r.repeated = rep /\ r.shown = c.shown
  <2>1. LET r == [c EXCEPT !.saved = c.saved \cup numbers, !.settings = Newer(l, c.settings, numbers), !.pending = pend,
                           !.running = runs, !.questions = asks, !.repeated = rep]
        IN /\ r \in Shown
           /\ r.saved = c.saved \cup numbers /\ r.settings = Newer(l, c.settings, numbers) /\ r.pending = pend
           /\ r.running = runs /\ r.questions = asks /\ r.repeated = rep /\ r.shown = c.shown
    <3> DEFINE a == c.saved \cup numbers
                 s == Newer(l, c.settings, numbers)
    <3>1. a \in SUBSET Nat /\ s \in Nat
      BY <1>3, <1>9
    <3> HIDE DEF a, s
    <3>2. LET r == [c EXCEPT !.saved = a, !.settings = s, !.pending = pend,
                           !.running = runs, !.questions = asks, !.repeated = rep]
                 IN /\ r \in Shown
                    /\ r.saved = a /\ r.settings = s /\ r.pending = pend
                    /\ r.running = runs /\ r.questions = asks /\ r.repeated = rep /\ r.shown = c.shown
      BY <3>1, <1>4, <1>5, <1>6, <1>7 DEF Shown
    <3> QED
      BY <3>2 DEF a, s
  <2> QED
    BY <2>1, <1>8
<1> QED
  BY <1>10 DEF new, state, numbers, pend, asks, runs, rep

\* What one update does to what a listener shows.
OneShown(l, c, u, r) ==
    LET n == u[2]
        add == u[1] = "saved" /\ ~Has(l, c.saved, n)
    IN  /\ r \in Shown /\ r.shown = c.shown
        /\ r.saved = IF add THEN c.saved \cup {n} ELSE c.saved
        /\ r.repeated = (c.repeated \/ (u[1] = "saved" /\ Has(l, c.saved, n)))
        /\ r.settings = IF add /\ events[n].settings /\ (l = Observer => n > c.settings) THEN n ELSE c.settings
        /\ \A i : i \in r.pending <=>
             \/ u = <<"accepted", i>>
             \/ i \in c.pending /\ u # <<"removed", i>> /\ ~(add /\ i \in events[n].consumed)
        /\ r.running = IF u[1] = "state" THEN u[2] ELSE c.running
        /\ \A q : q \in r.questions <=>
             u = <<"asked", q>> \/ (q \in c.questions /\ u # <<"closed", q>>)

\* What a listener shows after one update.
LEMMA ShowOne ==
    ASSUME OutType, NEW l \in Listeners, NEW c \in Shown, NEW u, Fresh(u)
    PROVE  OneShown(l, c, u, Show(l, c, u))
<1> USE DEF Fresh
<1> DEFINE us == <<u>>
           r == Show(l, c, u)
           n == u[2]
           add == u[1] = "saved" /\ ~Has(l, c.saved, n)
           new == New(l, c.saved, us, {1})
<1>1. us \in Seq(Update) /\ {1} \in SUBSET DOMAIN us /\ us[1] = u /\ {1} \in SUBSET Nat /\ 1 \in {1}
  OBVIOUS
<1>2. u = <<u[1], u[2]>>
  BY UpdateParts
<1>3. SeenOK(us, {1})
  BY DEF SeenOK
<1>4. new = IF add THEN {1} ELSE {}
  <2>1. Of(us, {1}, "saved") = IF u[1] = "saved" THEN {1} ELSE {}
    BY DEF Of
  <2>2. {us[j][2] : j \in {j \in Of(us, {1}, "saved") : j < 1}} = {}
    BY <2>1
  <2>3. new = {k \in Of(us, {1}, "saved") :
                 ~Has(l, c.saved \cup {us[j][2] : j \in {j \in Of(us, {1}, "saved") : j < k}}, us[k][2])}
    BY DEF New
  <2>4. CASE u[1] = "saved"
    <3>1. 1 \in new <=> ~Has(l, c.saved \cup {}, u[2])
      BY <2>1, <2>2, <2>3, <2>4
    <3>2. c.saved \cup {} = c.saved
      OBVIOUS
    <3>3. new \subseteq {1}
      BY <2>1, <2>3
    <3> HIDE DEF new
    <3>4. 1 \in new <=> add
      BY <3>1, <3>2, <2>4
    <3> QED
      BY <3>3, <3>4
  <2>5. CASE u[1] # "saved"
    BY <2>1, <2>3, <2>5
  <2> QED
    BY <2>4, <2>5
<1>5. Numbers(us, new) = IF add THEN {n} ELSE {}
  BY <1>1, <1>4 DEF Numbers
<1>6. Of(us, {1}, "saved") = IF u[1] = "saved" THEN {1} ELSE {}
  BY DEF Of
<1>7. Of(us, {1}, "state") = IF u[1] = "state" THEN {1} ELSE {}
  BY DEF Of
<1>8. Max({1}) = 1
  BY GreatestOf
<1>9. ShowAll(l, c, us, {1}) = r
  BY DEF Show
<1>10. /\ r \in Shown /\ r.shown = c.shown
       /\ r.saved = c.saved \cup Numbers(us, new)
       /\ r.settings = Newer(l, c.settings, Numbers(us, new))
       /\ r.pending = Left(c.pending, Pairs(us, {1}, "accepted"), Leaving(us, {1}, new))
       /\ Of(us, {1}, "state") = {} => r.running = c.running
       /\ Of(us, {1}, "state") # {} => r.running = us[Max(Of(us, {1}, "state"))][2]
       /\ r.questions = Left(c.questions, Pairs(us, {1}, "asked"), Pairs(us, {1}, "closed"))
       /\ r.repeated = (c.repeated \/ new # Of(us, {1}, "saved"))
  <2> HIDE DEF r, us
  <2> QED
    BY <1>1, <1>3, <1>9, ShowAllFields DEF new
<1>11. r.saved = IF add THEN c.saved \cup {n} ELSE c.saved
  BY <1>5, <1>10
<1>12. r.repeated = (c.repeated \/ (u[1] = "saved" /\ Has(l, c.saved, n)))
  <2>1. (new # Of(us, {1}, "saved")) = (u[1] = "saved" /\ Has(l, c.saved, n))
    BY <1>4, <1>6
  <2> QED
    BY <1>10, <2>1
<1>13. r.settings = IF add /\ events[n].settings /\ (l = Observer => n > c.settings) THEN n ELSE c.settings
  <2>1. c.settings \in Nat
    BY DEF Shown
  <2>2. Numbers(us, new) \in SUBSET (1 .. Newest)
    BY <1>5
  <2> DEFINE numbers == Numbers(us, new)
             some == {m \in numbers : events[m].settings /\ (l = Observer => m > c.settings)}
  <2>3. \/ some = {} /\ Newer(l, c.settings, numbers) = c.settings
        \/ Newer(l, c.settings, numbers) \in some
    <3> HIDE DEF numbers
    <3> QED
      BY <2>1, <2>2, NewerOf DEF numbers
  <2>4. some = IF add /\ events[n].settings /\ (l = Observer => n > c.settings) THEN {n} ELSE {}
    BY <1>5
  <2> QED
    BY <2>3, <2>4, <1>10
<1>14. ASSUME NEW i PROVE i \in r.pending <=>
         \/ u = <<"accepted", i>>
         \/ i \in c.pending /\ u # <<"removed", i>> /\ ~(add /\ i \in events[n].consumed)
  <2>1. new \subseteq {1}
    BY <1>4
  <2>2. i \in r.pending <=>
             \/ i \in c.pending /\ \A k \in {1} : ~Goes(us, new, k, i)
             \/ \E k \in {1} : /\ us[k][1] = "accepted" /\ us[k][2] = i
                               /\ \A j \in {1} : Goes(us, new, j, i) => j < k
    <3> DEFINE ks == {1}
    <3>1. new \subseteq ks /\ r.pending = Left(c.pending, Pairs(us, ks, "accepted"), Leaving(us, ks, new))
      BY <1>10, <2>1
    <3> HIDE DEF new, r, us, ks
    <3>2. i \in r.pending <=>
             \/ i \in c.pending /\ \A k \in ks : ~Goes(us, new, k, i)
             \/ \E k \in ks : /\ us[k][1] = "accepted" /\ us[k][2] = i
                               /\ \A j \in ks : Goes(us, new, j, i) => j < k
      BY <3>1, PendingAfter
    <3> QED
      BY <3>2 DEF ks
  <2>3. Goes(us, new, 1, i) <=> (u[1] = "removed" /\ u[2] = i) \/ (add /\ i \in events[n].consumed)
    BY <1>1, <1>4 DEF Goes
  <2>4. i \in r.pending <=>
             \/ i \in c.pending /\ ~Goes(us, new, 1, i)
             \/ u[1] = "accepted" /\ u[2] = i /\ ~Goes(us, new, 1, i)
    BY <2>2, <1>1
  <2>5. u[1] = "accepted" => ~Goes(us, new, 1, i)
    BY <2>3
  <2>6. /\ u[1] = "accepted" /\ u[2] = i <=> u = <<"accepted", i>>
        /\ u[1] = "removed" /\ u[2] = i <=> u = <<"removed", i>>
    BY <1>2
  <2> QED
    BY <2>3, <2>4, <2>5, <2>6
<1>15. r.running = IF u[1] = "state" THEN u[2] ELSE c.running
  BY <1>1, <1>7, <1>8, <1>10
<1>16. ASSUME NEW q PROVE q \in r.questions <=>
         u = <<"asked", q>> \/ (q \in c.questions /\ u # <<"closed", q>>)
  <2>1. q \in r.questions <=>
             \/ q \in c.questions /\ \A k \in {1} : ~(us[k][1] = "closed" /\ us[k][2] = q)
             \/ \E k \in {1} : /\ us[k][1] = "asked" /\ us[k][2] = q
                               /\ \A j \in {1} : us[j][1] = "closed" /\ us[j][2] = q => j < k
    <3> HIDE DEF r, us
    <3> QED
      BY <1>10, QuestionsAfter
  <2>2. q \in r.questions <=>
             \/ q \in c.questions /\ ~(u[1] = "closed" /\ u[2] = q)
             \/ u[1] = "asked" /\ u[2] = q /\ ~(u[1] = "closed" /\ u[2] = q)
    BY <2>1, <1>1
  <2>3. /\ u[1] = "asked" /\ u[2] = q <=> u = <<"asked", q>>
        /\ u[1] = "closed" /\ u[2] = q <=> u = <<"closed", q>>
    BY <1>2
  <2> QED
    BY <2>2, <2>3
<1> QED
  BY <1>10, <1>11, <1>12, <1>13, <1>14, <1>15, <1>16 DEF OneShown
-----------------------------------------------------------------------------
(***************************************************************************)
(* The operations on their way.                                            *)
(***************************************************************************)

\* The parts of an operation, by its kind, and who calls it.
LEMMA OpParts ==
    ASSUME OutSane, NEW op \in Ops
    PROVE  /\ op[1] \in {"accept", "remove", "commit", "settings", "take", "recover", "read", "page"}
           /\ op[1] \in {"accept", "remove"} => op[2] \in Nat
           /\ op[1] = "commit" => op[2] \in SUBSET Nat
           /\ op[1] = "settings" => op[2] = {}
           /\ op[1] = "read" => op[2] \in Listeners /\ op[3] \in Nat
           /\ op[1] = "page" => op[2] \in Views /\ op[3] \in SUBSET Nat
           /\ op[1] \in {"take", "recover", "page", "commit"} => op[4] = "task"
           /\ op[1] = "read" /\ op[2] # Observer => op[4] = "task"
BY DEF Ops, OutSane, Listeners

\* The operations of the queue and of the answers have their types.
LEMMA FlightType ==
    ASSUME OutType
    PROVE  /\ Len(queue) \in Nat /\ DOMAIN queue = 1 .. Len(queue)
           /\ Len(answers) \in Nat /\ DOMAIN answers = 1 .. Len(answers)
           /\ \A j \in DOMAIN queue : queue[j] \in Ops
           /\ \A k \in DOMAIN answers : answers[k][1] \in Ops /\ answers[k] = <<answers[k][1], answers[k][2]>>
<1>1. queue \in Seq(Ops) /\ answers \in Seq(Ops \X Results)
  BY DEF OutType
<1> QED
  BY <1>1

\* A call goes to the end of the queue.
LEMMA SendFacts ==
    ASSUME OutType, NEW op \in Ops, Send(op)
    PROVE  /\ queue' \in Seq(Ops) /\ Len(queue') = Len(queue) + 1
           /\ DOMAIN queue' = DOMAIN queue \cup {Len(queue) + 1}
           /\ \A j \in DOMAIN queue : queue'[j] = queue[j] /\ j < Len(queue) + 1
           /\ queue'[Len(queue) + 1] = op
<1>1. queue \in Seq(Ops) /\ queue' = Append(queue, op)
  BY DEF OutType, Send
<1> QED
  BY <1>1

\* The store moves the head of the queue to the end of the answers.
LEMMA ServedFacts ==
    ASSUME OutType, queue # <<>>, NEW r \in Results, Served(Head(queue), r)
    PROVE  /\ 1 \in DOMAIN queue /\ Head(queue) = queue[1] /\ Head(queue) \in Ops
           /\ queue' \in Seq(Ops) /\ Len(queue') = Len(queue) - 1
           /\ \A j \in DOMAIN queue' : j + 1 \in DOMAIN queue /\ queue'[j] = queue[j + 1] /\ j \in Nat \ {0}
           /\ \A j \in DOMAIN queue : j # 1 => j - 1 \in DOMAIN queue' /\ queue'[j - 1] = queue[j]
           /\ answers' \in Seq(Ops \X Results) /\ Len(answers') = Len(answers) + 1
           /\ DOMAIN answers' = DOMAIN answers \cup {Len(answers) + 1}
           /\ \A k \in DOMAIN answers : answers'[k] = answers[k] /\ k < Len(answers) + 1
           /\ answers'[Len(answers) + 1] = <<Head(queue), r>>
<1>1. queue \in Seq(Ops) /\ answers \in Seq(Ops \X Results)
  BY DEF OutType
<1>2. queue' = Tail(queue) /\ answers' = Append(answers, <<Head(queue), r>>)
  BY DEF Served
<1>3. Head(queue) \in Ops /\ Head(queue) = queue[1] /\ 1 \in DOMAIN queue /\ Len(queue) \in Nat /\ Len(queue) >= 1
  BY <1>1
<1>4. /\ queue' \in Seq(Ops) /\ Len(queue') = Len(queue) - 1
      /\ \A j \in 1 .. Len(queue) - 1 : queue'[j] = queue[j + 1]
  BY <1>1, <1>2
<1>5. DOMAIN queue' = 1 .. Len(queue) - 1 /\ DOMAIN queue = 1 .. Len(queue)
  BY <1>1, <1>4
<1>6. /\ \A j \in DOMAIN queue' : j + 1 \in DOMAIN queue /\ queue'[j] = queue[j + 1] /\ j \in Nat \ {0}
      /\ \A j \in DOMAIN queue : j # 1 => j - 1 \in DOMAIN queue' /\ queue'[j - 1] = queue[j]
  <2>1. ASSUME NEW j \in DOMAIN queue, j # 1 PROVE j - 1 \in DOMAIN queue' /\ queue'[j - 1] = queue[j]
    <3>1. j - 1 \in 1 .. Len(queue) - 1 /\ (j - 1) + 1 = j
      BY <2>1, <1>5, <1>3
    <3> QED
      BY <3>1, <1>4, <1>5
  <2> QED
    BY <1>3, <1>4, <1>5, <2>1
<1>7. <<Head(queue), r>> \in Ops \X Results
  BY <1>3
<1>8. /\ answers' \in Seq(Ops \X Results) /\ Len(answers') = Len(answers) + 1
      /\ DOMAIN answers' = DOMAIN answers \cup {Len(answers) + 1}
      /\ \A k \in DOMAIN answers : answers'[k] = answers[k] /\ k < Len(answers) + 1
      /\ answers'[Len(answers) + 1] = <<Head(queue), r>>
  <2> DEFINE a == <<Head(queue), r>>
  <2>1. a \in Ops \X Results /\ answers' = Append(answers, a)
    BY <1>2, <1>7
  <2> HIDE DEF a
  <2>2. /\ answers' \in Seq(Ops \X Results) /\ Len(answers') = Len(answers) + 1
        /\ DOMAIN answers' = DOMAIN answers \cup {Len(answers) + 1}
        /\ \A k \in DOMAIN answers : answers'[k] = answers[k] /\ k < Len(answers) + 1
        /\ answers'[Len(answers) + 1] = a
    BY <1>1, <2>1
  <2> QED
    BY <2>2 DEF a
<1> QED
  BY <1>3, <1>4, <1>6, <1>8

\* The place of an answer before the one at `k` leaves.
Old(k, j) == IF j < k THEN j ELSE j + 1

\* An answer leaves the answers.
Goes1(k) == k \in DOMAIN answers /\ answers' = RemoveAt(answers, k)

\* An answer that reaches its caller leaves the order of the others.
LEMMA GoFacts ==
    ASSUME OutType, NEW k, Goes1(k)
    PROVE  /\ k \in Nat /\ answers' \in Seq(Ops \X Results) /\ Len(answers') = Len(answers) - 1
           /\ \A j \in DOMAIN answers' :
                /\ j \in Nat /\ Old(k, j) \in DOMAIN answers /\ Old(k, j) # k
                /\ answers'[j] = answers[Old(k, j)]
           /\ \A i, j \in DOMAIN answers' : i < j <=> Old(k, i) < Old(k, j)
           /\ \A m \in DOMAIN answers : m # k => \E j \in DOMAIN answers' : Old(k, j) = m
<1> DEFINE S == Ops \X Results
<1>1. answers \in Seq(S) /\ k \in 1 .. Len(answers) /\ Len(answers) \in Nat
  BY DEF OutType, Goes1
<1> HIDE DEF S
<1>2. answers' = SubSeq(answers, 1, k - 1) \o SubSeq(answers, k + 1, Len(answers))
  BY DEF Goes1, RemoveAt
<1>3. SubSeq(answers, 1, k - 1) \in Seq(S) /\ Len(SubSeq(answers, 1, k - 1)) = k - 1
      /\ \A j \in 1 .. k - 1 : SubSeq(answers, 1, k - 1)[j] = answers[j]
  BY <1>1
<1>4. SubSeq(answers, k + 1, Len(answers)) \in Seq(S) /\ Len(SubSeq(answers, k + 1, Len(answers))) = Len(answers) - k
      /\ \A j \in 1 .. Len(answers) - k : SubSeq(answers, k + 1, Len(answers))[j] = answers[j + k]
  BY <1>1
<1>5. /\ answers' \in Seq(S) /\ Len(answers') = Len(answers) - 1
      /\ \A j \in 1 .. Len(answers) - 1 : answers'[j] = answers[Old(k, j)]
  <2> DEFINE a == SubSeq(answers, 1, k - 1)
             b == SubSeq(answers, k + 1, Len(answers))
  <2> HIDE DEF a, b
  <2>1. a \in Seq(S) /\ b \in Seq(S) /\ Len(a) = k - 1 /\ Len(b) = Len(answers) - k /\ answers' = a \o b
    BY <1>2, <1>3, <1>4 DEF a, b
  <2>2. answers' \in Seq(S) /\ Len(answers') = Len(answers) - 1
    BY <2>1, <1>1
  <2>3. ASSUME NEW j \in 1 .. Len(answers) - 1 PROVE answers'[j] = answers[Old(k, j)]
    <3>1. CASE j < k
      <4>1. answers'[j] = a[j]
        BY <2>1, <1>1, <3>1
      <4> QED
        BY <4>1, <1>1, <1>3, <3>1 DEF a, Old
    <3>2. CASE ~(j < k)
      <4>1. answers'[j] = b[j - (k - 1)] /\ j - (k - 1) \in 1 .. Len(answers) - k
        BY <2>1, <1>1, <3>2
      <4>2. b[j - (k - 1)] = answers[(j - (k - 1)) + k]
        BY <4>1, <1>4 DEF b
      <4>3. (j - (k - 1)) + k = j + 1
        BY <1>1
      <4> QED
        BY <4>1, <4>2, <4>3, <3>2 DEF Old
    <3> QED
      BY <3>1, <3>2
  <2> QED
    BY <2>2, <2>3
<1>6. DOMAIN answers' = 1 .. Len(answers) - 1 /\ DOMAIN answers = 1 .. Len(answers)
  BY <1>1, <1>5
<1>7. ASSUME NEW m \in DOMAIN answers, m # k PROVE \E j \in DOMAIN answers' : Old(k, j) = m
  <2>1. CASE m < k
    <3>1. m \in DOMAIN answers' /\ Old(k, m) = m
      BY <2>1, <1>1, <1>6 DEF Old
    <3> QED
      BY <3>1
  <2>2. CASE m > k
    <3>1. m - 1 \in DOMAIN answers' /\ Old(k, m - 1) = m
      BY <2>2, <1>1, <1>6 DEF Old
    <3> QED
      BY <3>1
  <2> QED
    BY <2>1, <2>2, <1>1, <1>6, <1>7
<1>8. ASSUME NEW j \in DOMAIN answers'
      PROVE  j \in Nat /\ Old(k, j) \in DOMAIN answers /\ Old(k, j) # k /\ answers'[j] = answers[Old(k, j)]
  BY <1>1, <1>5, <1>6 DEF Old
<1>9. \A i, j \in DOMAIN answers' : i < j <=> Old(k, i) < Old(k, j)
  BY <1>1, <1>6 DEF Old
<1> QED
  BY <1>1, <1>5, <1>7, <1>8, <1>9 DEF S

\* What an answer says.
Tells(a, n) == a[1][1] \in Writes /\ a[2] = n
Removes(a, i) == a[1][1] = "remove" /\ a[1][2] = i /\ a[2]
Accepts(a, i) == a[1][1] = "accept" /\ a[1][2] = i
Takes(a, i) == a[1][1] = "take" /\ i \in a[2]
Commits(a, i) == a[1][1] = "commit" /\ i \in a[1][2]

\* What the queue and the answers say after the store served an operation.
LEMMA ServedSays ==
    ASSUME OutType, queue # <<>>, NEW r \in Results, Served(Head(queue), r)
    PROVE  LET a == <<Head(queue), r>>
           IN /\ \A n : Unseen(n)' <=> Unseen(n) \/ Tells(a, n)
              /\ \A i : Removing(i)' <=> Removing(i) \/ Removes(a, i)
              /\ \A i : Answered(i)' <=> Answered(i) \/ Accepts(a, i)
              /\ \A i : Taken(i)' <=> Taken(i) \/ Takes(a, i)
              /\ \A i : InQueue(i) <=> InQueue(i)' \/ Accepts(a, i)
              /\ \A i : InCommit(i) <=> InCommit(i)' \/ Commits(a, i)
<1> DEFINE a == <<Head(queue), r>>
<1>1. /\ DOMAIN answers' = DOMAIN answers \cup {Len(answers) + 1}
      /\ \A k \in DOMAIN answers : answers'[k] = answers[k]
      /\ answers'[Len(answers) + 1] = a
  BY ServedFacts
<1> HIDE DEF a
<1>2. /\ \A n : Unseen(n)' <=> Unseen(n) \/ Tells(a, n)
      /\ \A i : Removing(i)' <=> Removing(i) \/ Removes(a, i)
      /\ \A i : Answered(i)' <=> Answered(i) \/ Accepts(a, i)
      /\ \A i : Taken(i)' <=> Taken(i) \/ Takes(a, i)
  BY <1>1 DEF Unseen, Removing, Answered, Taken, Tells, Removes, Accepts, Takes
<1>3. /\ 1 \in DOMAIN queue /\ Head(queue) = queue[1] /\ a[1] = queue[1]
      /\ \A j \in DOMAIN queue' : j + 1 \in DOMAIN queue /\ queue'[j] = queue[j + 1]
      /\ \A j \in DOMAIN queue : j # 1 => j - 1 \in DOMAIN queue' /\ queue'[j - 1] = queue[j]
  BY ServedFacts DEF a
<1>4. /\ \A j \in DOMAIN queue : queue[j] = a[1] \/ \E h \in DOMAIN queue' : queue'[h] = queue[j]
      /\ \A h \in DOMAIN queue' : \E j \in DOMAIN queue : queue'[h] = queue[j]
      /\ \E j \in DOMAIN queue : queue[j] = a[1]
  BY <1>3
<1>5. \A i : InQueue(i) <=> InQueue(i)' \/ Accepts(a, i)
  BY <1>4 DEF InQueue, Accepts
<1>6. \A i : InCommit(i) <=> InCommit(i)' \/ Commits(a, i)
  BY <1>4 DEF InCommit, Commits
<1> QED
  BY <1>2, <1>5, <1>6 DEF a

\* What the answers say after one of them reached its caller.
LEMMA GoSays ==
    ASSUME OutType, NEW k, Goes1(k)
    PROVE  /\ \A n : Unseen(n) <=> Unseen(n)' \/ Tells(answers[k], n)
           /\ \A i : Removing(i) <=> Removing(i)' \/ Removes(answers[k], i)
           /\ \A i : Answered(i) <=> Answered(i)' \/ Accepts(answers[k], i)
           /\ \A i : Taken(i) <=> Taken(i)' \/ Takes(answers[k], i)
<1>1. /\ k \in DOMAIN answers
      /\ \A j \in DOMAIN answers' : Old(k, j) \in DOMAIN answers /\ answers'[j] = answers[Old(k, j)]
      /\ \A m \in DOMAIN answers : m # k => \E j \in DOMAIN answers' : Old(k, j) = m
  BY GoFacts DEF Goes1
<1>2. \A m \in DOMAIN answers : m = k \/ \E j \in DOMAIN answers' : answers'[j] = answers[m]
  BY <1>1
<1>3. \A j \in DOMAIN answers' : \E m \in DOMAIN answers : answers'[j] = answers[m]
  BY <1>1
<1>4. \A n : Unseen(n) <=> Unseen(n)' \/ Tells(answers[k], n)
  BY <1>1, <1>2, <1>3 DEF Unseen, Tells
<1>5. \A i : Removing(i) <=> Removing(i)' \/ Removes(answers[k], i)
  BY <1>1, <1>2, <1>3 DEF Removing, Removes
<1>6. \A i : Answered(i) <=> Answered(i)' \/ Accepts(answers[k], i)
  BY <1>1, <1>2, <1>3 DEF Answered, Accepts
<1>7. \A i : Taken(i) <=> Taken(i)' \/ Takes(answers[k], i)
  BY <1>1, <1>2, <1>3 DEF Taken, Takes
<1> QED
  BY <1>4, <1>5, <1>6, <1>7

\* What the queue says after a call.
LEMMA SendSays ==
    ASSUME OutType, NEW op \in Ops, Send(op)
    PROVE  /\ \A i : InQueue(i)' <=> InQueue(i) \/ (op[1] = "accept" /\ op[2] = i)
           /\ \A i : InCommit(i)' <=> InCommit(i) \/ (op[1] = "commit" /\ i \in op[2])
<1>1. /\ DOMAIN queue' = DOMAIN queue \cup {Len(queue) + 1}
      /\ \A j \in DOMAIN queue : queue'[j] = queue[j]
      /\ queue'[Len(queue) + 1] = op
  BY SendFacts
<1> QED
  BY <1>1 DEF InQueue, InCommit

\* The answers, when they stay.
LEMMA StaySays ==
    ASSUME UNCHANGED answers
    PROVE  /\ \A n : Unseen(n)' <=> Unseen(n)
           /\ \A i : Removing(i)' <=> Removing(i)
           /\ \A i : Answered(i)' <=> Answered(i)
           /\ \A i : Taken(i)' <=> Taken(i)
BY DEF Unseen, Removing, Answered, Taken

\* The queue says the same while it does not change.
LEMMA QueueStays ==
    ASSUME UNCHANGED queue
    PROVE  /\ \A i : InQueue(i)' <=> InQueue(i)
           /\ \A i : InCommit(i)' <=> InCommit(i)
BY DEF InQueue, InCommit

\* One more event.
LEMMA SaveFacts ==
    ASSUME OutType, NEW e \in Records, Save(e)
    PROVE  /\ events' \in Seq(Records) /\ Newest' = Newest + 1
           /\ \A n \in 1 .. Newest : events'[n] = events[n]
           /\ events'[Newest + 1] = e
           /\ \A i : Consumes(i)' <=> Consumes(i) \/ i \in e.consumed
<1>1. events \in Seq(Records) /\ events' = Append(events, e)
  BY DEF OutType, Save
<1>2. /\ events' \in Seq(Records) /\ Newest' = Newest + 1 /\ Newest \in Nat
      /\ \A n \in 1 .. Newest : events'[n] = events[n]
      /\ events'[Newest + 1] = e
  BY <1>1 DEF Newest
<1>3. \A i : Consumes(i)' <=> Consumes(i) \/ i \in e.consumed
  <2>1. 1 .. Newest' = (1 .. Newest) \cup {Newest + 1}
    BY <1>2
  <2> QED
    BY <1>2, <2>1 DEF Consumes
<1> QED
  BY <1>2, <1>3

\* The saved events consume the same inputs while they do not change.
LEMMA EventsStay ==
    ASSUME UNCHANGED events
    PROVE  Newest' = Newest /\ \A i : Consumes(i)' <=> Consumes(i)
BY DEF Newest, Consumes

\* The operations of the queue and of the answers are in flight.
LEMMA FlightMembers ==
    /\ \A j \in DOMAIN queue : queue[j] \in InFlight
    /\ \A k \in DOMAIN answers : answers[k][1] \in InFlight
BY DEF InFlight, Range

\* The operations in flight stay apart while none moves.
LEMMA AloneStays ==
    ASSUME Alone, UNCHANGED <<queue, answers>>
    PROVE  Alone'
BY DEF Alone, Same

\* A call that is like none in flight keeps them apart.
LEMMA AloneSends ==
    ASSUME OutType, Alone, NEW op \in Ops, Send(op), UNCHANGED answers,
           \A o \in InFlight : ~Same(o, op)
    PROVE  Alone'
<1>1. /\ DOMAIN queue' = DOMAIN queue \cup {Len(queue) + 1}
      /\ \A j \in DOMAIN queue : queue'[j] = queue[j]
      /\ queue'[Len(queue) + 1] = op
  BY SendFacts
<1>2. \A j \in DOMAIN queue : ~Same(queue[j], op) /\ ~Same(op, queue[j])
  BY FlightMembers DEF Same
<1>3. \A k \in DOMAIN answers : ~Same(op, answers[k][1])
  BY FlightMembers DEF Same
<1>4. \A j, k \in DOMAIN queue' : j # k => ~Same(queue'[j], queue'[k])
  BY <1>1, <1>2 DEF Alone
<1>5. \A j \in DOMAIN queue', k \in DOMAIN answers : ~Same(queue'[j], answers[k][1])
  BY <1>1, <1>3 DEF Alone
<1>6. \A a, b : Same(a, b)' <=> Same(a, b)
  BY DEF Same
<1> QED
  BY <1>4, <1>5 DEF Alone, Same

\* The operations stay apart when the store serves one.
LEMMA AloneServed ==
    ASSUME OutType, Alone, queue # <<>>, NEW r \in Results, Served(Head(queue), r)
    PROVE  Alone'
<1>1. /\ 1 \in DOMAIN queue /\ Head(queue) = queue[1]
      /\ \A j \in DOMAIN queue' : j + 1 \in DOMAIN queue /\ queue'[j] = queue[j + 1] /\ j \in Nat \ {0}
      /\ DOMAIN answers' = DOMAIN answers \cup {Len(answers) + 1}
      /\ \A k \in DOMAIN answers : answers'[k] = answers[k] /\ k < Len(answers) + 1
      /\ answers'[Len(answers) + 1] = <<Head(queue), r>>
  BY ServedFacts
<1>2. \A k \in DOMAIN answers' : k # Len(answers) + 1 => k \in DOMAIN answers
  BY <1>1
<1>3. answers'[Len(answers) + 1][1] = queue[1]
  BY <1>1
<1>4. ASSUME NEW j \in DOMAIN queue', NEW k \in DOMAIN queue', j # k PROVE ~Same(queue'[j], queue'[k])
  <2>1. j + 1 # k + 1
    BY <1>1, <1>4
  <2> QED
    BY <1>1, <2>1 DEF Alone
<1>5. ASSUME NEW j \in DOMAIN answers', NEW k \in DOMAIN answers', j # k
      PROVE  ~Same(answers'[j][1], answers'[k][1])
  <2>1. \A m \in DOMAIN answers : ~Same(queue[1], answers[m][1]) /\ ~Same(answers[m][1], queue[1])
    BY <1>1 DEF Alone, Same
  <2> QED
    BY <1>1, <1>2, <1>3, <1>5, <2>1 DEF Alone
<1>6. ASSUME NEW j \in DOMAIN queue', NEW k \in DOMAIN answers' PROVE ~Same(queue'[j], answers'[k][1])
  <2>1. j + 1 \in DOMAIN queue /\ queue'[j] = queue[j + 1] /\ j + 1 # 1
    BY <1>1
  <2> QED
    BY <1>1, <1>2, <1>3, <2>1 DEF Alone
<1> QED
  BY <1>4, <1>5, <1>6 DEF Alone, Same

\* The operations stay apart when an answer reaches its caller.
LEMMA AloneGoes ==
    ASSUME OutType, Alone, NEW k, Goes1(k), UNCHANGED queue
    PROVE  Alone'
<1>1. \A j \in DOMAIN answers' : j \in Nat /\ Old(k, j) \in DOMAIN answers /\ answers'[j] = answers[Old(k, j)]
  BY GoFacts
<1>2. \A i, j \in DOMAIN answers' : i # j => Old(k, i) # Old(k, j)
  BY GoFacts DEF Old
<1>3. \A i, j \in DOMAIN answers' : i # j => ~Same(answers'[i][1], answers'[j][1])
  BY <1>1, <1>2 DEF Alone
<1>4. \A i \in DOMAIN queue, j \in DOMAIN answers' : ~Same(queue[i], answers'[j][1])
  BY <1>1 DEF Alone
<1> QED
  BY <1>3, <1>4 DEF Alone, Same
-----------------------------------------------------------------------------
(***************************************************************************)
(* A published update.                                                     *)
(***************************************************************************)

\* publish: who keeps the update, who shows it, and which inputs leave.
LEMMA PublishFacts ==
    ASSUME OutType, NEW u, Fresh(u), Publish(u)
    PROVE  /\ UNCHANGED mode
           /\ kept' \in [Listeners -> Seq(Update)] /\ client' \in [Listeners -> Shown] /\ gone' \subseteq Nat
           /\ gone' = IF Admits(u) THEN gone \cup Leaves(u) ELSE gone
           /\ \A l \in Listeners :
                /\ Admits(u) /\ mode[l] = "waiting" => kept'[l] = Append(kept[l], u)
                /\ ~Admits(u) \/ mode[l] # "waiting" => kept'[l] = kept[l]
                /\ Admits(u) /\ mode[l] = "on" => client'[l] = Show(l, client[l], u)
                /\ ~Admits(u) \/ mode[l] # "on" => client'[l] = client[l]
<1>1. kept \in [Listeners -> Seq(Update)] /\ client \in [Listeners -> Shown] /\ gone \subseteq Nat /\ u \in Update
  BY DEF OutType, Fresh
<1>2. Leaves(u) \subseteq Nat
  <2>1. CASE u[1] = "saved"
    <3>1. Leaves(u) = UNION {events[n].consumed : n \in {u[2]}} /\ u[2] \in 1 .. Newest
      BY <2>1 DEF Leaves, Fresh, Consumed
    <3>2. events[u[2]].consumed \in SUBSET Nat
      BY <3>1, NewestType DEF Records
    <3> QED
      BY <3>1, <3>2
  <2>2. CASE u[1] = "removed"
    BY <2>2, <1>1, UpdateParts DEF Leaves
  <2>3. CASE u[1] \notin {"saved", "removed"}
    BY <2>3 DEF Leaves
  <2> QED
    BY <2>1, <2>2, <2>3
<1>3. CASE ~Admits(u)
  BY <1>1, <1>3 DEF Publish, listenVars
<1>4. CASE Admits(u)
  <2>1. /\ gone' = gone \cup Leaves(u) /\ UNCHANGED mode
        /\ kept' = [l \in Listeners |-> IF mode[l] = "waiting" THEN Append(kept[l], u) ELSE kept[l]]
        /\ client' = [l \in Listeners |-> IF mode[l] = "on" THEN Show(l, client[l], u) ELSE client[l]]
    BY <1>4 DEF Publish
  <2>2. ASSUME NEW l \in Listeners PROVE Show(l, client[l], u) \in Shown
    <3>1. client[l] \in Shown
      BY <1>1
    <3> QED
      BY <3>1, ShowOne DEF OneShown
  <2>3. ASSUME NEW l \in Listeners PROVE Append(kept[l], u) \in Seq(Update) /\ kept[l] \in Seq(Update)
    BY <1>1
  <2>4. kept' \in [Listeners -> Seq(Update)]
    BY <2>1, <2>3
  <2>5. client' \in [Listeners -> Shown]
    BY <2>1, <2>2, <1>1
  <2> QED
    BY <2>1, <2>4, <2>5, <1>1, <1>2, <1>4
<1> QED
  BY <1>3, <1>4

\* A kept update comes after the others.
LEMMA KeptGrows ==
    ASSUME OutType, NEW l \in Listeners, NEW u, kept'[l] = Append(kept[l], u)
    PROVE  /\ Len(kept[l]) \in Nat /\ DOMAIN kept[l] = 1 .. Len(kept[l])
           /\ DOMAIN kept'[l] = DOMAIN kept[l] \cup {Len(kept[l]) + 1}
           /\ \A k \in DOMAIN kept[l] : kept'[l][k] = kept[l][k] /\ k < Len(kept[l]) + 1 /\ k \in Nat
           /\ kept'[l][Len(kept[l]) + 1] = u
           /\ \A x : Kept(l, x)' <=> Kept(l, x) \/ x = u
           /\ \A n : Keeps(l, n)' <=> Keeps(l, n) \/ u = <<"saved", n>>
<1>1. kept[l] \in Seq(Update)
  BY DEF OutType
<1>2. /\ Len(kept[l]) \in Nat /\ DOMAIN kept[l] = 1 .. Len(kept[l])
      /\ DOMAIN kept'[l] = DOMAIN kept[l] \cup {Len(kept[l]) + 1}
      /\ \A k \in DOMAIN kept[l] : kept'[l][k] = kept[l][k] /\ k < Len(kept[l]) + 1 /\ k \in Nat
      /\ kept'[l][Len(kept[l]) + 1] = u
  BY <1>1
<1>3. \A x : Kept(l, x)' <=> Kept(l, x) \/ x = u
  BY <1>2 DEF Kept
<1>4. \A n : Keeps(l, n)' <=> Keeps(l, n) \/ u = <<"saved", n>>
  BY <1>2 DEF Keeps
<1> QED
  BY <1>2, <1>3, <1>4

\* What a listener keeps says the same while it does not change.
LEMMA KeptStays ==
    ASSUME NEW l, kept'[l] = kept[l]
    PROVE  /\ \A x : Kept(l, x)' <=> Kept(l, x)
           /\ \A n : Keeps(l, n)' <=> Keeps(l, n)
BY DEF Kept, Keeps

\* The kept updates and what a listener shows have their types.
LEMMA KeptType ==
    ASSUME OutType, NEW l \in Listeners
    PROVE  /\ kept[l] \in Seq(Update) /\ client[l] \in Shown
           /\ Len(kept[l]) \in Nat /\ DOMAIN kept[l] = 1 .. Len(kept[l])
           /\ \A k \in DOMAIN kept[l] : kept[l][k] \in Update
<1>1. kept[l] \in Seq(Update) /\ client[l] \in Shown
  BY DEF OutType
<1> QED
  BY <1>1
-----------------------------------------------------------------------------
(***************************************************************************)
(* The live state and the questions.                                       *)
(***************************************************************************)

\* What an update says of the live state.
LiveStep(u) ==
    \/ u[1] = "state" /\ running' = u[2] /\ UNCHANGED questions
    \/ u[1] = "asked" /\ questions' = questions \cup {u[2]} /\ UNCHANGED running
    \/ u[1] = "closed" /\ questions' = questions \ {u[2]} /\ UNCHANGED running
    \/ u[1] \in {"saved", "accepted", "removed"} /\ UNCHANGED <<running, questions>>

\* The live state of a listener is right while nothing of it changes.
LEMMA LiveSame ==
    ASSUME NEW l, LiveOK(l), kept'[l] = kept[l], client'[l] = client[l], UNCHANGED <<running, questions>>
    PROVE  LiveOK(l)'
BY DEF LiveOK, LiveOf, Open, OpenOf, Kept, StateKept

\* The live state stays right when a listener keeps an update.
LEMMA LiveGrows ==
    ASSUME OutType, NEW l \in Listeners, LiveOK(l), NEW u \in Update, LiveStep(u),
           kept'[l] = Append(kept[l], u), client'[l] = client[l]
    PROVE  LiveOK(l)'
<1> DEFINE m == Len(kept[l]) + 1
<1>1. /\ DOMAIN kept'[l] = DOMAIN kept[l] \cup {m}
      /\ \A k \in DOMAIN kept[l] : kept'[l][k] = kept[l][k] /\ k < m /\ k \in Nat
      /\ kept'[l][m] = u /\ m \in Nat
      /\ \A x : Kept(l, x)' <=> Kept(l, x) \/ x = u
  <2> HIDE DEF m
  <2>1. /\ Len(kept[l]) \in Nat
        /\ DOMAIN kept'[l] = DOMAIN kept[l] \cup {Len(kept[l]) + 1}
        /\ \A k \in DOMAIN kept[l] : kept'[l][k] = kept[l][k] /\ k < Len(kept[l]) + 1 /\ k \in Nat
        /\ kept'[l][Len(kept[l]) + 1] = u
        /\ \A x : Kept(l, x)' <=> Kept(l, x) \/ x = u
    BY KeptGrows
  <2> QED
    BY <2>1 DEF m
<1> HIDE DEF m
<1>2. u = <<u[1], u[2]>>
  BY UpdateParts
<1>3. ASSUME NEW k \in DOMAIN kept'[l], kept'[l][k][1] = "state"
      PROVE  kept'[l][k][2] = running' \/ \E j \in DOMAIN kept'[l] : j > k /\ kept'[l][j][1] = "state"
  <2>1. CASE u[1] = "state"
    BY <1>1, <2>1 DEF LiveStep
  <2>2. CASE u[1] # "state"
    <3>1. k \in DOMAIN kept[l] /\ running' = running
      BY <1>1, <1>3, <2>2 DEF LiveStep
    <3>2. kept[l][k][2] = running \/ \E j \in DOMAIN kept[l] : j > k /\ kept[l][j][1] = "state"
      BY <3>1, <1>1, <1>3 DEF LiveOK, LiveOf
    <3> QED
      BY <3>1, <3>2, <1>1
  <2> QED
    BY <2>1, <2>2
<1>4. ASSUME client'[l].shown PROVE client'[l].running = running' \/ StateKept(l)'
  <2>1. StateKept(l)' <=> StateKept(l) \/ u[1] = "state"
    BY <1>1 DEF StateKept
  <2>2. u[1] # "state" => running' = running
    BY DEF LiveStep
  <2> QED
    BY <1>4, <2>1, <2>2 DEF LiveOK, LiveOf
<1>5. ASSUME NEW q
      PROVE  Open(l, q)' <=> u = <<"asked", q>> \/ (Open(l, q) /\ u # <<"closed", q>>)
  <2>1. Kept(l, <<"closed", q>>)' <=> Kept(l, <<"closed", q>>) \/ u = <<"closed", q>>
    BY <1>1
  <2>2. client'[l].questions = client[l].questions
    OBVIOUS
  <2>3. CASE u = <<"asked", q>>
    <3>1. \A j \in DOMAIN kept'[l] : kept'[l][j] = <<"closed", q>> => j < m
      BY <1>1, <2>3
    <3> QED
      BY <1>1, <2>3, <3>1 DEF Open, OpenOf
  <2>4. CASE u = <<"closed", q>>
    <3>1. ASSUME NEW k \in DOMAIN kept'[l], kept'[l][k] = <<"asked", q>>,
                 \A j \in DOMAIN kept'[l] : kept'[l][j] = <<"closed", q>> => j < k
          PROVE  FALSE
      <4>1. m < k
        BY <1>1, <2>4, <3>1
      <4>2. k = m \/ (k < m /\ k \in Nat)
        BY <1>1
      <4> QED
        BY <4>1, <4>2, <1>1
    <3>2. ~Open(l, q)'
      BY <2>1, <2>4, <3>1 DEF Open, OpenOf
    <3> QED
      BY <3>2, <2>4
  <2>5. CASE u # <<"asked", q>> /\ u # <<"closed", q>>
    <3>1. (\E k \in DOMAIN kept[l] : kept[l][k] = <<"asked", q>>
          /\ \A j \in DOMAIN kept[l] : kept[l][j] = <<"closed", q>> => j < k)
          <=> \E k \in DOMAIN kept'[l] : kept'[l][k] = <<"asked", q>>
              /\ \A j \in DOMAIN kept'[l] : kept'[l][j] = <<"closed", q>> => j < k
      BY <1>1, <2>5
    <3> QED
      BY <3>1, <2>1, <2>2, <2>5 DEF Open, OpenOf
  <2> QED
    BY <2>3, <2>4, <2>5
<1>6. ASSUME NEW q \in Questions, Open(l, q)' PROVE q \in questions'
  <2>1. CASE u = <<"asked", q>>
    BY <2>1 DEF LiveStep
  <2>2. CASE Open(l, q) /\ u # <<"closed", q>>
    <3>1. q \in questions
      BY <2>2 DEF LiveOK, LiveOf, Open
    <3> QED
      BY <3>1, <2>2, <1>2 DEF LiveStep
  <2> QED
    BY <1>5, <1>6, <2>1, <2>2
<1>7. ASSUME NEW q \in questions', client'[l].shown \/ Kept(l, <<"closed", q>>)' PROVE Open(l, q)'
  <2>1. u # <<"closed", q>>
    BY <1>7 DEF LiveStep
  <2>2. CASE u = <<"asked", q>>
    BY <1>5, <2>2
  <2>3. CASE u # <<"asked", q>>
    <3>1. q \in questions
      BY <1>7, <2>3, <1>2 DEF LiveStep
    <3>2. client[l].shown \/ Kept(l, <<"closed", q>>)
      BY <1>7, <1>1, <2>1
    <3> QED
      BY <3>1, <3>2, <1>5, <2>1 DEF LiveOK, LiveOf, Open
  <2> QED
    BY <2>2, <2>3
<1> QED
  BY <1>3, <1>4, <1>6, <1>7 DEF LiveOK, LiveOf, Open

\* The live state stays right when a listener shows an update.
LEMMA LiveShows ==
    ASSUME OutType, NEW l \in Listeners, LiveOK(l), kept[l] = <<>>, NEW u, Fresh(u), LiveStep(u),
           kept'[l] = kept[l], client'[l] = Show(l, client[l], u)
    PROVE  LiveOK(l)'
<1>1. DOMAIN kept[l] = {}
  OBVIOUS
<1>2. client[l] \in Shown
  BY KeptType
<1>3. /\ client'[l].shown = client[l].shown
      /\ client'[l].running = IF u[1] = "state" THEN u[2] ELSE client[l].running
      /\ \A q : q \in client'[l].questions <=> u = <<"asked", q>>
          \/ (q \in client[l].questions /\ u # <<"closed", q>>)
  <2>1. OneShown(l, client[l], u, client'[l])
    BY <1>2, ShowOne
  <2> QED
    BY <2>1 DEF OneShown
<1>4. /\ client[l].shown => client[l].running = running
      /\ \A q \in Questions : q \in client[l].questions => q \in questions
      /\ \A q \in questions : client[l].shown => q \in client[l].questions
  BY <1>1 DEF LiveOK, LiveOf, Open, OpenOf, Kept, StateKept
<1>5. u = <<u[1], u[2]>>
  BY UpdateParts DEF Fresh
<1>6. client'[l].shown => client'[l].running = running'
  BY <1>3, <1>4 DEF LiveStep
<1>7. ASSUME NEW q \in Questions, q \in client'[l].questions PROVE q \in questions'
  <2>1. CASE u = <<"asked", q>>
    BY <2>1 DEF LiveStep
  <2>2. CASE q \in client[l].questions /\ u # <<"closed", q>>
    BY <2>2, <1>4, <1>5 DEF LiveStep
  <2> QED
    BY <1>3, <1>7, <2>1, <2>2
<1>8. ASSUME NEW q \in questions', client'[l].shown PROVE q \in client'[l].questions
  <2>1. u # <<"closed", q>>
    BY <1>8 DEF LiveStep
  <2>2. CASE u = <<"asked", q>>
    BY <1>3, <2>2
  <2>3. CASE u # <<"asked", q>>
    <3>1. q \in questions
      BY <1>8, <2>3, <1>5 DEF LiveStep
    <3> QED
      BY <3>1, <1>3, <1>4, <1>8, <2>1
  <2> QED
    BY <2>2, <2>3
<1> QED
  BY <1>1, <1>6, <1>7, <1>8 DEF LiveOK, LiveOf, Open, OpenOf, Kept, StateKept

\* A view that is off shows nothing.
LEMMA LiveOff ==
    ASSUME NEW l, kept'[l] = <<>>, client'[l].shown = FALSE, client'[l].questions = {}
    PROVE  LiveOK(l)'
<1>1. DOMAIN kept'[l] = {}
  OBVIOUS
<1> QED
  BY <1>1 DEF LiveOK, LiveOf, Open, OpenOf, Kept, StateKept
-----------------------------------------------------------------------------
(***************************************************************************)
(* A listener that a step leaves alone.                                    *)
(***************************************************************************)

\* A step of the store, as the listeners know it.
StoreStep ==
    /\ Newest' \in Newest .. Newest + 1
    /\ \A n \in 1 .. Newest : events'[n] = events[n] /\ (Unseen(n)' <=> Unseen(n))
    /\ faults' = 0 => faults = 0 /\ \A n \in Newest + 1 .. Newest' : Unseen(n)'
    /\ \A i : i \in pending' => i \in pending \/ Answered(i)'
    /\ \A i : i \in pending =>
         i \in pending' \/ Removing(i)' \/ \E n \in Newest + 1 .. Newest' : i \in events'[n].consumed
    /\ \A i \in pending' : Answered(i) => Answered(i)'
    /\ \A i : Removing(i) => Removing(i)'
    /\ \A i : Consumes(i) => Consumes(i)'
    /\ gone \subseteq gone'
StaysAt(l) ==
    /\ kept'[l] = kept[l] /\ client'[l] = client[l]
    /\ mode'[l] = mode[l] \/ (l = Observer /\ mode'[l] = "waiting")

\* A step of the store keeps the mode of a listener that it leaves alone.
LEMMA ModeStays ==
    ASSUME OutType, NEW l \in Listeners, ModeOK(l), StoreStep, StaysAt(l)
    PROVE  ModeOK(l)'
<1>1. Newest \in Nat /\ Newest' \in Nat /\ Newest <= Newest' /\ client[l].settings \in Nat
  BY NewestType, KeptType DEF StoreStep, Shown
<1>2. 1 .. Newest \subseteq 1 .. Newest'
  BY <1>1
<1> QED
  BY <1>1, <1>2 DEF ModeOK, StaysAt, Empty

\* A step of the store keeps the events of a listener that it leaves alone.
LEMMA EventStays ==
    ASSUME OutType, NEW l \in Listeners, ModeOK(l), EventOK(l), StoreStep, StaysAt(l)
    PROVE  EventOK(l)'
<1>1. Newest \in Nat /\ Newest' \in Nat /\ Newest <= Newest' /\ client[l].saved \subseteq 1 .. Newest
  BY NewestType DEF StoreStep, ModeOK
<1>2. \A n : Keeps(l, n)' <=> Keeps(l, n)
  BY KeptStays DEF StaysAt
<1>3. ASSUME NEW k \in DOMAIN kept[l], kept[l][k][1] = "saved", NEW n, n = kept[l][k][2]
      PROVE  n \in 1 .. Newest' /\ ~Unseen(n)'
  <2>1. n \in 1 .. Newest /\ ~Unseen(n)
    BY <1>3 DEF EventOK, EventOf
  <2> QED
    BY <1>1, <2>1 DEF StoreStep
<1>6. \A k \in DOMAIN kept'[l] : kept'[l][k][1] = "saved" =>
        /\ kept'[l][k][2] \in 1 .. Newest'
        /\ ~Unseen(kept[l][k][2])'
        /\ \A j \in DOMAIN kept'[l] : j < k /\ kept'[l][j][1] = "saved" => kept'[l][j][2] < kept'[l][k][2]
  BY <1>3 DEF EventOK, EventOf, StaysAt
<1>4. ASSUME client'[l].shown, faults' = 0, NEW a \in client'[l].saved, NEW n \in a .. Newest'
      PROVE  n \in client'[l].saved \/ Unseen(n)' \/ Keeps(l, n)'
  <2>1. client'[l] = client[l] /\ faults = 0 /\ a \in 1 .. Newest
    BY <1>1, <1>4 DEF StaysAt, StoreStep
  <2>2. CASE n <= Newest
    <3>1. n \in a .. Newest /\ n \in 1 .. Newest
      BY <1>1, <2>1, <2>2
    <3>2. n \in client[l].saved \/ Unseen(n) \/ Keeps(l, n)
      BY <1>4, <2>1, <3>1 DEF EventOK, EventOf
    <3> QED
      BY <3>1, <3>2, <1>2, <2>1 DEF StoreStep
  <2>3. CASE n > Newest
    <3>1. n \in Newest + 1 .. Newest'
      BY <1>1, <2>1, <2>3
    <3> QED
      BY <3>1, <1>4 DEF StoreStep
  <2> QED
    BY <1>1, <2>1, <2>2, <2>3
<1>5. \A n \in client[l].saved : Unseen(n)' <=> Unseen(n)
  BY <1>1 DEF StoreStep
<1> QED
  BY <1>4, <1>5, <1>6 DEF EventOK, EventOf, StaysAt

\* A step of the store keeps the settings of a listener that it leaves alone.
LEMMA SettingsStays ==
    ASSUME OutType, NEW l \in Listeners, ModeOK(l), SettingsOK(l), StoreStep, StaysAt(l)
    PROVE  SettingsOK(l)'
<1>1. Newest \in Nat /\ Newest' \in Nat /\ Newest <= Newest' /\ client[l].saved \subseteq 1 .. Newest
  BY NewestType DEF StoreStep, ModeOK
<1>2. \A n : Keeps(l, n)' <=> Keeps(l, n)
  BY KeptStays DEF StaysAt
<1> SUFFICES ASSUME faults' = 0
             PROVE  /\ \A n \in client'[l].saved : events'[n].settings => n <= client'[l].settings
                    /\ client'[l].shown => \A n \in 1 .. Newest' :
                         events'[n].settings => n <= client'[l].settings \/ Unseen(n)' \/ Keeps(l, n)'
  BY DEF SettingsOK, SettingsOf
<1>3. faults = 0 /\ client'[l] = client[l]
  BY DEF StoreStep, StaysAt
<1>4. \A n \in client[l].saved : events'[n].settings => n <= client[l].settings
  <2>1. \A n \in client[l].saved : events[n].settings => n <= client[l].settings
    BY <1>3 DEF SettingsOK, SettingsOf
  <2> QED
    BY <2>1, <1>1 DEF StoreStep
<1>5. ASSUME client[l].shown, NEW n \in 1 .. Newest', events'[n].settings
      PROVE  n <= client[l].settings \/ Unseen(n)' \/ Keeps(l, n)
  <2>1. CASE n <= Newest
    <3>1. n \in 1 .. Newest
      BY <2>1, <1>1
    <3>2. events[n].settings /\ (Unseen(n)' <=> Unseen(n))
      BY <3>1, <1>5 DEF StoreStep
    <3> QED
      BY <3>1, <3>2, <1>3, <1>5 DEF SettingsOK, SettingsOf
  <2>2. CASE n > Newest
    <3>1. n \in Newest + 1 .. Newest'
      BY <1>1, <2>2
    <3> QED
      BY <3>1 DEF StoreStep
  <2> QED
    BY <1>1, <2>1, <2>2
<1> QED
  BY <1>2, <1>3, <1>4, <1>5

\* A step of the store keeps what a listener that it leaves alone kept of the inputs.
LEMMA KeptOKStays ==
    ASSUME OutType, NEW l \in Listeners, ModeOK(l), EventOK(l), KeptOK(l), StoreStep, StaysAt(l)
    PROVE  KeptOK(l)'
<1>1. Newest \in Nat /\ Newest' \in Nat /\ Newest <= Newest' /\ client[l].saved \subseteq 1 .. Newest
  BY NewestType DEF StoreStep, ModeOK
<1>2. \A x : Kept(l, x)' <=> Kept(l, x)
  BY KeptStays DEF StaysAt
<1>3. kept'[l] = kept[l] /\ client'[l] = client[l]
  BY DEF StaysAt
<1>4. ASSUME NEW n \in 1 .. Newest PROVE events'[n].consumed = events[n].consumed
  BY DEF StoreStep
<1>5. ASSUME NEW k \in DOMAIN kept[l], kept[l][k][1] = "accepted", NEW i, i = kept[l][k][2]
      PROVE  /\ i \in pending' \/ Removing(i)' \/ Kept(l, <<"removed", i>>)' \/ Consumes(i)'
             /\ \A n \in client[l].saved : i \notin events'[n].consumed
  <2>1. /\ i \in pending \/ Removing(i) \/ Kept(l, <<"removed", i>>) \/ Consumes(i)
        /\ \A n \in client[l].saved : i \notin events[n].consumed
    BY <1>5 DEF KeptOK, KeptOf
  <2>2. ASSUME NEW n \in Newest + 1 .. Newest', i \in events'[n].consumed PROVE Consumes(i)'
    BY <2>2, <1>1 DEF Consumes
  <2>3. i \in pending => i \in pending' \/ Removing(i)' \/ Consumes(i)'
    BY <2>2 DEF StoreStep
  <2>4. (Removing(i) => Removing(i)') /\ (Consumes(i) => Consumes(i)')
    BY DEF StoreStep
  <2>5. \A n \in client[l].saved : i \notin events'[n].consumed
    BY <2>1, <1>1, <1>4
  <2> QED
    BY <2>1, <2>3, <2>4, <2>5, <1>2
<1>6. ASSUME NEW k \in DOMAIN kept[l], kept[l][k][1] = "saved"
      PROVE  events'[kept[l][k][2]].consumed = events[kept[l][k][2]].consumed
  <2>1. kept[l][k][2] \in 1 .. Newest
    BY <1>6 DEF EventOK, EventOf
  <2> QED
    BY <2>1, <1>4
<1>7. ASSUME NEW k \in DOMAIN kept[l]
      PROVE  /\ kept[l][k][1] = "removed" => kept[l][k][2] \in gone'
             /\ kept[l][k][1] = "saved" => events'[kept[l][k][2]].consumed \subseteq gone'
             /\ \A j \in DOMAIN kept[l] :
                  kept[l][j][1] = "accepted"
                  /\ (kept[l][k] = <<"removed", kept[l][j][2]>>
                      \/ (kept[l][k][1] = "saved" /\ kept[l][j][2] \in events'[kept[l][k][2]].consumed)) => j < k
  <2>1. /\ kept[l][k][1] = "removed" => kept[l][k][2] \in gone
        /\ kept[l][k][1] = "saved" => events[kept[l][k][2]].consumed \subseteq gone
        /\ \A j \in DOMAIN kept[l] :
             kept[l][j][1] = "accepted"
             /\ (kept[l][k] = <<"removed", kept[l][j][2]>>
                 \/ (kept[l][k][1] = "saved" /\ kept[l][j][2] \in events[kept[l][k][2]].consumed)) => j < k
    BY DEF KeptOK, KeptOf
  <2>2. gone \subseteq gone'
    BY DEF StoreStep
  <2> QED
    BY <2>1, <2>2, <1>6
<1> QED
  BY <1>3, <1>5, <1>7 DEF KeptOK, KeptOf

\* A step of the store keeps the inputs that a listener that it leaves alone shows.
LEMMA PendingStays ==
    ASSUME OutType, NEW l \in Listeners, ModeOK(l), PendingOK(l), StoreStep, StaysAt(l)
    PROVE  PendingOK(l)'
<1>1. Newest \in Nat /\ Newest' \in Nat /\ Newest <= Newest' /\ client[l].saved \subseteq 1 .. Newest
  BY NewestType DEF StoreStep, ModeOK
<1>2. \A x : Kept(l, x)' <=> Kept(l, x)
  BY KeptStays DEF StaysAt
<1>3. client'[l] = client[l]
  BY DEF StaysAt
<1>4. ASSUME NEW i \in Nat, client[l].shown, i \in pending'
      PROVE  i \in client[l].pending \/ Answered(i)' \/ Kept(l, <<"accepted", i>>)
  <2>1. i \in pending \/ Answered(i)'
    BY <1>4 DEF StoreStep
  <2>2. i \in pending => i \in client[l].pending \/ Answered(i) \/ Kept(l, <<"accepted", i>>)
    BY <1>4 DEF PendingOK, PendingOf
  <2>3. Answered(i) => Answered(i)'
    BY <1>4 DEF StoreStep
  <2> QED
    BY <2>1, <2>2, <2>3
<1>5. ASSUME NEW i \in Nat, i \in client[l].pending
      PROVE  \/ i \in pending' \/ Removing(i)' \/ Kept(l, <<"removed", i>>)
             \/ \E n \in 1 .. Newest' :
                  /\ i \in events'[n].consumed /\ n \notin client[l].saved
                  /\ l # Observer => \E a \in client[l].saved : a < n
  <2>1. \/ i \in pending \/ Removing(i) \/ Kept(l, <<"removed", i>>)
        \/ \E n \in 1 .. Newest :
             /\ i \in events[n].consumed /\ n \notin client[l].saved
             /\ l # Observer => \E a \in client[l].saved : a < n
    BY <1>5 DEF PendingOK, PendingOf
  <2>2. Removing(i) => Removing(i)'
    BY DEF StoreStep
  <2>3. ASSUME NEW n \in 1 .. Newest, i \in events[n].consumed PROVE n \in 1 .. Newest' /\ i \in events'[n].consumed
    BY <2>3, <1>1 DEF StoreStep
  <2>4. ASSUME NEW n \in Newest + 1 .. Newest', i \in events'[n].consumed
        PROVE  /\ n \in 1 .. Newest' /\ n \notin client[l].saved
               /\ l # Observer => \E a \in client[l].saved : a < n
    <3>1. n \in 1 .. Newest' /\ \A a \in client[l].saved : a < n
      BY <1>1
    <3>2. l # Observer => client[l].saved # {}
      <4>1. client[l].pending # {}
        BY <1>5
      <4> QED
        BY <4>1 DEF ModeOK, Empty
    <3> QED
      BY <3>1, <3>2
  <2>5. i \in pending => i \in pending' \/ Removing(i)' \/ \E n \in Newest + 1 .. Newest' : i \in events'[n].consumed
    BY DEF StoreStep
  <2> QED
    BY <2>1, <2>2, <2>3, <2>4, <2>5
<1> QED
  BY <1>2, <1>3, <1>4, <1>5 DEF PendingOK, PendingOf

\* A step of the store keeps each part of a listener that it leaves alone.
LEMMA ListenerStays ==
    ASSUME OutType, NEW l \in Listeners, ListenerOK(l), StoreStep, StaysAt(l), UNCHANGED <<running, questions>>
    PROVE  ListenerOK(l)'
<1>1. LiveOK(l)'
  BY LiveSame DEF ListenerOK, StaysAt
<1>2. ModeOK(l) /\ EventOK(l) /\ SettingsOK(l) /\ KeptOK(l) /\ PendingOK(l)
  BY DEF ListenerOK
<1>3. ModeOK(l)' /\ EventOK(l)' /\ SettingsOK(l)'
  BY <1>2, ModeStays, EventStays, SettingsStays
<1>4. KeptOK(l)' /\ PendingOK(l)'
  BY <1>2, KeptOKStays, PendingStays
<1> QED
  BY <1>1, <1>3, <1>4 DEF ListenerOK
-----------------------------------------------------------------------------
(***************************************************************************)
(* A listener and a published update.                                      *)
(***************************************************************************)

\* A view without a snapshot has nothing kept.
LEMMA ListenerQuiet ==
    ASSUME NEW l \in Listeners, l # Observer, mode'[l] # "on", kept'[l] = <<>>, client'[l] = Empty(1, 1),
           Newest' \in Nat, Newest' >= 1
    PROVE  ListenerOK(l)'
<1>1. DOMAIN kept'[l] = {}
  OBVIOUS
<1>2. client'[l] = [saved |-> 1 .. 1, pending |-> {}, questions |-> {}, running |-> FALSE, settings |-> 1,
                    shown |-> FALSE, repeated |-> FALSE]
  BY DEF Empty
<1>3. LiveOK(l)'
  <2>1. client'[l].shown = FALSE /\ client'[l].questions = {}
    BY <1>2
  <2> QED
    BY <2>1, LiveOff
<1>4. ModeOK(l)'
  <2>1. Empty(1, 1)' = Empty(1, 1)
    BY DEF Empty
  <2>2. client'[l].saved \subseteq 1 .. Newest' /\ client'[l].settings <= Newest'
    BY <1>2
  <2> QED
    BY <2>1, <2>2 DEF ModeOK
<1>5. EventOK(l)'
  BY <1>1, <1>2 DEF EventOK, EventOf
<1>6. SettingsOK(l)'
  BY <1>2 DEF SettingsOK, SettingsOf
<1>7. KeptOK(l)'
  BY <1>1 DEF KeptOK, KeptOf
<1>8. PendingOK(l)'
  BY <1>2 DEF PendingOK, PendingOf
<1> QED
  BY <1>3, <1>4, <1>5, <1>6, <1>7, <1>8 DEF ListenerOK

\* A step that publishes an update, as the listeners know it.
Said(u) ==
    /\ Fresh(u) /\ Publish(u) /\ LiveStep(u)
    /\ UNCHANGED <<events, pending, faults>>
    /\ \A n \in 1 .. Newest : Unseen(n)' <=> Unseen(n) /\ u # <<"saved", n>>
    /\ u[1] = "saved" => Unseen(u[2])
    /\ u[1] = "accepted" => Answered(u[2])
    /\ u[1] = "removed" => Removing(u[2])
    /\ \A i : Answered(i) => Answered(i)' \/ u = <<"accepted", i>>
    /\ \A i : Removing(i) => Removing(i)' \/ u = <<"removed", i>>

\* What the other parts of the invariant say of the update.
LEMMA SaidFacts ==
    ASSUME OutType, InputInv, LastUnseen, NEW u, Said(u)
    PROVE  /\ u \in Update /\ u = <<u[1], u[2]>>
           /\ u[1] = "saved" => u[2] = Newest
           /\ u[1] = "accepted" => ~Consumes(u[2]) /\ u[2] \in Nat
               /\ (u[2] \in gone \/ u[2] \in pending \/ Removing(u[2]))
           /\ u[1] = "removed" => u[2] \notin pending
           /\ Newest' = Newest /\ \A i : Consumes(i)' <=> Consumes(i)
           /\ Newest \in Nat /\ Newest >= 1
<1>1. u \in Update /\ u = <<u[1], u[2]>> /\ (u[1] \in {"saved", "accepted", "removed"} => u[2] \in Nat)
  BY UpdateParts DEF Said, Fresh
<1>2. u[1] = "saved" => u[2] = Newest
  <2>1. u[1] = "saved" => u[2] # 0
    BY NewestType DEF Said, Fresh
  <2> QED
    BY <1>1, <2>1 DEF Said, LastUnseen
<1>3. ASSUME u[1] = "accepted" PROVE ~Consumes(u[2]) /\ u[2] \in Nat
             /\ (u[2] \in gone \/ u[2] \in pending \/ Removing(u[2]))
  <2> DEFINE i == u[2]
  <2>1. Answered(i) /\ i \in Nat
    BY <1>1, <1>3 DEF Said
  <2> HIDE DEF i
  <2>2. i <= accepted /\ i # 0 /\ ~Consumes(i) /\ ~InQueue(i)
    BY <2>1 DEF InputInv
  <2>3. i \in pending \/ Gone(i)
    BY <2>1, <2>2 DEF InputInv
  <2>4. ~Consumes(i) /\ i \in Nat /\ (i \in gone \/ i \in pending \/ Removing(i))
    BY <2>1, <2>2, <2>3 DEF Gone
  <2> QED
    BY <2>4 DEF i
<1>4. ASSUME u[1] = "removed" PROVE u[2] \notin pending
  <2> DEFINE i == u[2]
  <2>1. Removing(i) /\ i \in Nat
    BY <1>1, <1>4 DEF Said
  <2> HIDE DEF i
  <2>2. i \notin pending
    BY <2>1 DEF InputInv, Gone
  <2> QED
    BY <2>2 DEF i
<1>5. Newest' = Newest /\ \A i : Consumes(i)' <=> Consumes(i)
  BY EventsStay DEF Said
<1> QED
  BY <1>1, <1>2, <1>3, <1>4, <1>5, NewestType

\* An update that is not admitted changes no listener.
LEMMA ListenerRefuses ==
    ASSUME OutType, InputInv, LastUnseen, NEW l \in Listeners, ListenerOK(l), NEW u, Said(u), ~Admits(u)
    PROVE  ListenerOK(l)'
<1>1. u[1] = "accepted" /\ u[2] \in gone
  BY DEF Admits
<1>2. UNCHANGED <<gone, mode, kept, client, running, questions>>
  BY <1>1 DEF Said, Publish, listenVars, LiveStep
<1>3. StaysAt(l)
  BY <1>2 DEF StaysAt
<1>4. \A i \in pending' : Answered(i) => Answered(i)'
  <2> SUFFICES ASSUME NEW i \in pending', Answered(i), u = <<"accepted", i>> PROVE FALSE
    BY DEF Said
  <2>1. i \in pending /\ i \in Nat /\ i \in gone
    BY <1>1 DEF Said, OutType
  <2> QED
    BY <2>1 DEF InputInv, Gone
<1>5. \A i : Removing(i) => Removing(i)'
  BY <1>1 DEF Said
<1>6. \A n \in 1 .. Newest : Unseen(n)' <=> Unseen(n)
  BY <1>1 DEF Said
<1>7. /\ UNCHANGED <<events, pending, faults>>
      /\ Newest' = Newest /\ Newest \in Nat /\ \A i : Consumes(i)' <=> Consumes(i)
  BY SaidFacts DEF Said
<1>8. StoreStep
  <2>1. Newest' \in Newest .. Newest + 1 /\ Newest + 1 .. Newest' = {}
    BY <1>7
  <2> QED
    BY <1>2, <1>4, <1>5, <1>6, <1>7, <2>1 DEF StoreStep
<1> QED
  BY <1>2, <1>3, <1>8, ListenerStays

\* The facts of an update that a listener keeps.
Grows(l, u) == Said(u) /\ Admits(u) /\ mode[l] = "waiting" /\ mode'[l] = mode[l]
               /\ kept'[l] = Append(kept[l], u) /\ client'[l] = client[l]

\* The mode of a listener that keeps an update.
LEMMA ModeGrows ==
    ASSUME OutType, InputInv, LastUnseen, NEW l \in Listeners, ModeOK(l), NEW u, Grows(l, u)
    PROVE  ModeOK(l)'
<1>1. Newest' = Newest /\ Empty(1, 1)' = Empty(1, 1)
  BY SaidFacts DEF Grows, Empty
<1> QED
  BY <1>1 DEF ModeOK, Grows

\* The events of a listener that keeps an update.
LEMMA EventGrows ==
    ASSUME OutType, InputInv, LastUnseen, NEW l \in Listeners, ModeOK(l), EventOK(l), NEW u, Grows(l, u)
    PROVE  EventOK(l)'
<1> DEFINE m == Len(kept[l]) + 1
<1> HIDE DEF m
<1>1. /\ DOMAIN kept'[l] = DOMAIN kept[l] \cup {m}
      /\ \A k \in DOMAIN kept[l] : kept'[l][k] = kept[l][k] /\ k < m /\ k \in Nat
      /\ kept'[l][m] = u /\ m \in Nat
  BY KeptGrows DEF m, Grows
<1>2. \A n : Keeps(l, n)' <=> Keeps(l, n) \/ u = <<"saved", n>>
  BY KeptGrows DEF Grows
<1>3. /\ u = <<u[1], u[2]>> /\ Newest' = Newest /\ Newest \in Nat /\ client'[l] = client[l]
      /\ u[1] = "saved" => u[2] = Newest /\ u[2] \in 1 .. Newest /\ Unseen(u[2])
      /\ client[l].saved \subseteq 1 .. Newest
      /\ mode'[l] = "waiting" /\ faults' = faults
      /\ \A n \in 1 .. Newest : Unseen(n)' <=> Unseen(n) /\ u # <<"saved", n>>
  BY SaidFacts DEF Said, Grows, Fresh, ModeOK
<1>4. \A k \in DOMAIN kept[l] : kept[l][k][1] = "saved" =>
        /\ kept[l][k][2] \in 1 .. Newest
        /\ ~Unseen(kept[l][k][2])
        /\ \A j \in DOMAIN kept[l] : j < k /\ kept[l][j][1] = "saved" => kept[l][j][2] < kept[l][k][2]
  BY DEF EventOK, EventOf
<1>5. ASSUME NEW k \in DOMAIN kept'[l], kept'[l][k][1] = "saved", NEW n, n = kept'[l][k][2]
      PROVE  n \in 1 .. Newest /\ ~Unseen(n)'
  <2>1. CASE k \in DOMAIN kept[l]
    <3>1. n \in 1 .. Newest /\ ~Unseen(n)
      BY <2>1, <1>1, <1>4, <1>5
    <3> QED
      BY <3>1, <1>3
  <2>2. CASE k = m
    <3>1. n \in 1 .. Newest /\ u = <<"saved", n>>
      BY <2>2, <1>1, <1>3, <1>5
    <3> QED
      BY <3>1, <1>3
  <2> QED
    BY <2>1, <2>2, <1>1
<1>6. ASSUME NEW k \in DOMAIN kept'[l], NEW j \in DOMAIN kept'[l],
             kept'[l][k][1] = "saved", j < k, kept'[l][j][1] = "saved"
      PROVE  kept'[l][j][2] < kept'[l][k][2]
  <2>1. j \in DOMAIN kept[l]
    BY <1>1, <1>6
  <2>2. CASE k \in DOMAIN kept[l]
    BY <1>1, <1>4, <1>6, <2>1, <2>2
  <2>3. CASE k = m
    <3>1. kept[l][j][2] \in 1 .. Newest /\ kept[l][j][2] # Newest
      BY <1>1, <1>3, <1>4, <1>6, <2>1, <2>3
    <3> QED
      BY <1>1, <1>3, <1>6, <2>1, <2>3, <3>1
  <2> QED
    BY <2>2, <2>3, <1>1
<1>7. \A k \in DOMAIN kept'[l] : kept'[l][k][1] = "saved" =>
        /\ kept'[l][k][2] \in 1 .. Newest'
        /\ ~Unseen(kept[l][k][2])'
        /\ \A j \in DOMAIN kept'[l] : j < k /\ kept'[l][j][1] = "saved" => kept'[l][j][2] < kept'[l][k][2]
  BY <1>3, <1>5, <1>6
<1>8. ASSUME client'[l].shown, faults' = 0, NEW a \in client'[l].saved, NEW n \in a .. Newest'
      PROVE  n \in client'[l].saved \/ Unseen(n)' \/ Keeps(l, n)'
  <2>1. n \in 1 .. Newest /\ a \in client[l].saved /\ n \in a .. Newest
    BY <1>3, <1>8
  <2>2. n \in client[l].saved \/ Unseen(n) \/ Keeps(l, n)
    BY <2>1, <1>3, <1>8 DEF EventOK, EventOf
  <2> QED
    BY <2>1, <2>2, <1>2, <1>3
<1> QED
  BY <1>3, <1>7, <1>8 DEF EventOK, EventOf

\* The settings of a listener that keeps an update.
LEMMA SettingsGrows ==
    ASSUME OutType, InputInv, LastUnseen, NEW l \in Listeners, ModeOK(l), SettingsOK(l), NEW u, Grows(l, u)
    PROVE  SettingsOK(l)'
<1>1. \A n : Keeps(l, n)' <=> Keeps(l, n) \/ u = <<"saved", n>>
  BY KeptGrows DEF Grows
<1>2. /\ Newest' = Newest /\ client'[l] = client[l] /\ events' = events /\ faults' = faults
      /\ \A n \in 1 .. Newest : Unseen(n)' <=> Unseen(n) /\ u # <<"saved", n>>
  BY SaidFacts DEF Said, Grows
<1> QED
  BY <1>1, <1>2 DEF SettingsOK, SettingsOf

\* The inputs that a listener shows while it keeps an update.
LEMMA PendingGrows ==
    ASSUME OutType, InputInv, LastUnseen, NEW l \in Listeners, ModeOK(l), PendingOK(l), NEW u, Grows(l, u)
    PROVE  PendingOK(l)'
<1>1. \A x : Kept(l, x)' <=> Kept(l, x) \/ x = u
  BY KeptGrows DEF Grows
<1>2. /\ Newest' = Newest /\ client'[l] = client[l] /\ events' = events /\ pending' = pending
      /\ \A i : Answered(i) => Answered(i)' \/ u = <<"accepted", i>>
      /\ \A i : Removing(i) => Removing(i)' \/ u = <<"removed", i>>
  BY SaidFacts DEF Said, Grows
<1> QED
  BY <1>1, <1>2 DEF PendingOK, PendingOf

\* The kept inputs of a listener that keeps an update.
LEMMA KeptOKGrows ==
    ASSUME OutType, InputInv, LastUnseen, NEW l \in Listeners, ModeOK(l), EventOK(l), KeptOK(l), NEW u, Grows(l, u)
    PROVE  KeptOK(l)'
<1> DEFINE m == Len(kept[l]) + 1
<1> HIDE DEF m
<1>1. /\ DOMAIN kept'[l] = DOMAIN kept[l] \cup {m}
      /\ \A k \in DOMAIN kept[l] : kept'[l][k] = kept[l][k] /\ k < m /\ k \in Nat
      /\ kept'[l][m] = u /\ m \in Nat
  BY KeptGrows DEF m, Grows
<1>2. \A x : Kept(l, x)' <=> Kept(l, x) \/ x = u
  BY KeptGrows DEF Grows
<1>3. /\ u \in Update /\ u = <<u[1], u[2]>> /\ client'[l] = client[l] /\ events' = events /\ pending' = pending
      /\ u[1] = "accepted" => ~Consumes(u[2]) /\ (u[2] \in gone \/ u[2] \in pending \/ Removing(u[2]))
      /\ client[l].saved \subseteq 1 .. Newest
      /\ \A i : Consumes(i)' <=> Consumes(i)
  BY SaidFacts DEF Said, Grows, ModeOK
<1>4. /\ u[1] = "accepted" => u[2] \notin gone
      /\ u[1] = "removed" => u[2] \in gone'
      /\ u[1] = "saved" => events[u[2]].consumed \subseteq gone'
      /\ gone \subseteq gone'
  <2>1. gone' = gone \cup Leaves(u) /\ (u[1] = "accepted" => u[2] \notin gone)
    BY PublishFacts DEF Grows, Said, Admits
  <2>2. u[1] = "removed" => Leaves(u) = {u[2]}
    BY DEF Leaves
  <2>3. u[1] = "saved" => Leaves(u) = events[u[2]].consumed
    BY DEF Leaves, Consumed
  <2> QED
    BY <2>1, <2>2, <2>3
<1>5. \A i : Removing(i) => Removing(i)' \/ Kept(l, <<"removed", i>>)'
  BY <1>2 DEF Grows, Said
<1>6. ASSUME NEW k \in DOMAIN kept'[l], kept'[l][k][1] = "accepted", NEW i, i = kept'[l][k][2]
      PROVE  /\ i \in pending' \/ Removing(i)' \/ Kept(l, <<"removed", i>>)' \/ Consumes(i)'
             /\ \A n \in client'[l].saved : i \notin events'[n].consumed
  <2>1. CASE k \in DOMAIN kept[l]
    <3>1. /\ i \in pending \/ Removing(i) \/ Kept(l, <<"removed", i>>) \/ Consumes(i)
          /\ \A n \in client[l].saved : i \notin events[n].consumed
      BY <2>1, <1>1, <1>6 DEF KeptOK, KeptOf
    <3> QED
      BY <3>1, <1>2, <1>3, <1>5
  <2>2. CASE k = m
    <3>1. u[1] = "accepted" /\ i = u[2]
      BY <2>2, <1>1, <1>6
    <3>2. (i \in pending \/ Removing(i)) /\ ~Consumes(i)
      BY <3>1, <1>3, <1>4
    <3>3. \A n \in client[l].saved : i \notin events[n].consumed
      BY <3>2, <1>3 DEF Consumes
    <3> QED
      BY <3>2, <3>3, <1>3, <1>5
  <2> QED
    BY <2>1, <2>2, <1>1
<1>7. ASSUME NEW k \in DOMAIN kept'[l]
      PROVE  /\ kept'[l][k][1] = "removed" => kept'[l][k][2] \in gone'
             /\ kept'[l][k][1] = "saved" => events'[kept'[l][k][2]].consumed \subseteq gone'
  <2>1. CASE k \in DOMAIN kept[l]
    <3>1. /\ kept[l][k][1] = "removed" => kept[l][k][2] \in gone
          /\ kept[l][k][1] = "saved" => events[kept[l][k][2]].consumed \subseteq gone
      BY <2>1 DEF KeptOK, KeptOf
    <3> QED
      BY <3>1, <2>1, <1>1, <1>3, <1>4
  <2>2. CASE k = m
    BY <2>2, <1>1, <1>3, <1>4
  <2> QED
    BY <2>1, <2>2, <1>1
<1>8. ASSUME NEW k \in DOMAIN kept'[l], NEW j \in DOMAIN kept'[l], kept'[l][j][1] = "accepted",
             NEW i, i = kept'[l][j][2],
             kept'[l][k] = <<"removed", i>> \/ (kept'[l][k][1] = "saved" /\ i \in events[kept'[l][k][2]].consumed)
      PROVE  j < k
  <2>1. CASE k \in DOMAIN kept[l] /\ j \in DOMAIN kept[l]
    BY <2>1, <1>1, <1>8 DEF KeptOK, KeptOf
  <2>2. CASE k = m /\ j \in DOMAIN kept[l]
    BY <2>2, <1>1
  <2>3. CASE j = m /\ k \in DOMAIN kept[l]
    <3>1. u[1] = "accepted" /\ i = u[2]
      BY <2>3, <1>1, <1>8
    <3>2. i \notin gone
      BY <3>1, <1>4
    <3>3. /\ kept[l][k][1] = "removed" => kept[l][k][2] \in gone
          /\ kept[l][k][1] = "saved" => events[kept[l][k][2]].consumed \subseteq gone
      BY <2>3 DEF KeptOK, KeptOf
    <3> QED
      BY <3>2, <3>3, <2>3, <1>1, <1>8
  <2>4. CASE j = m /\ k = m
    BY <2>4, <1>1, <1>8
  <2> QED
    BY <2>1, <2>2, <2>3, <2>4, <1>1
<1>9. \A k \in DOMAIN kept'[l] :
        /\ kept'[l][k][1] = "accepted" =>
             LET i == kept[l][k][2]
             IN (/\ i \in pending \/ Removing(i) \/ Kept(l, <<"removed", i>>) \/ Consumes(i)
                 /\ \A n \in client[l].saved : i \notin events[n].consumed)'
  BY <1>6
<1>10. \A k, j \in DOMAIN kept'[l] :
             kept'[l][j][1] = "accepted"
             /\ (kept'[l][k] = <<"removed", kept'[l][j][2]>>
                 \/ (kept'[l][k][1] = "saved" /\ kept'[l][j][2] \in events'[kept'[l][k][2]].consumed)) => j < k
  BY <1>3, <1>8
<1> QED
  BY <1>7, <1>9, <1>10 DEF KeptOK, KeptOf

\* Each part of a listener that keeps an update stays right.
LEMMA ListenerKeeps ==
    ASSUME OutType, InputInv, LastUnseen, NEW l \in Listeners, ListenerOK(l), NEW u, Grows(l, u)
    PROVE  ListenerOK(l)'
<1>1. ModeOK(l) /\ EventOK(l) /\ LiveOK(l) /\ SettingsOK(l) /\ KeptOK(l) /\ PendingOK(l)
  BY DEF ListenerOK
<1>2. u \in Update /\ LiveStep(u) /\ kept'[l] = Append(kept[l], u) /\ client'[l] = client[l]
  BY SaidFacts DEF Grows, Said
<1>3. LiveOK(l)'
  BY <1>1, <1>2, LiveGrows
<1>4. ModeOK(l)' /\ EventOK(l)' /\ SettingsOK(l)'
  BY <1>1, ModeGrows, EventGrows, SettingsGrows
<1>5. KeptOK(l)' /\ PendingOK(l)'
  BY <1>1, KeptOKGrows, PendingGrows
<1> QED
  BY <1>3, <1>4, <1>5 DEF ListenerOK

\* The facts of an update that a listener shows.
Shows1(l, u) == Said(u) /\ Admits(u) /\ mode[l] = "on" /\ mode'[l] = mode[l]
                /\ kept[l] = <<>> /\ kept'[l] = kept[l] /\ client'[l] = Show(l, client[l], u)

\* A saved event is new for each listener but the client that has it.
LEMMA ShowsFacts ==
    ASSUME OutType, InputInv, LastUnseen, NEW l \in Listeners, ModeOK(l), EventOK(l), NEW u, Shows1(l, u)
    PROVE  /\ OneShown(l, client[l], u, client'[l])
           /\ client[l] \in Shown /\ client[l].saved \subseteq 1 .. Newest
           /\ u[1] = "saved" =>
                /\ u[2] = Newest /\ Unseen(u[2]) /\ u[2] \in 1 .. Newest
                /\ Has(l, client[l].saved, u[2]) <=> u[2] \in client[l].saved
                /\ l # Observer => u[2] \notin client[l].saved
           /\ DOMAIN kept[l] = {} /\ DOMAIN kept'[l] = {}
           /\ u = <<u[1], u[2]>> /\ UNCHANGED <<events, pending, faults>> /\ Newest' = Newest
           /\ \A x : ~Kept(l, x) /\ ~Kept(l, x)'
           /\ \A n : ~Keeps(l, n) /\ ~Keeps(l, n)'
<1>1. client[l] \in Shown /\ Fresh(u)
  BY KeptType DEF Shows1, Said
<1>2. OneShown(l, client[l], u, client'[l])
  BY <1>1, ShowOne DEF Shows1
<1>3. client[l].saved \subseteq 1 .. Newest /\ Newest \in Nat
  BY NewestType DEF ModeOK
<1>4. ASSUME u[1] = "saved"
      PROVE  /\ u[2] = Newest /\ Unseen(u[2]) /\ u[2] \in 1 .. Newest
             /\ Has(l, client[l].saved, u[2]) <=> u[2] \in client[l].saved
             /\ l # Observer => u[2] \notin client[l].saved
  <2>1. u[2] = Newest /\ Unseen(u[2]) /\ u[2] \in 1 .. Newest
    BY <1>4, SaidFacts DEF Shows1, Said, Fresh
  <2>2. l # Observer => u[2] \notin client[l].saved
    BY <2>1 DEF EventOK, Shows1
  <2>3. CASE l = Observer
    BY <2>1, <2>3 DEF Has
  <2>4. CASE l # Observer
    <3>1. \A a \in client[l].saved : ~(u[2] <= a)
      BY <1>3, <2>1, <2>2, <2>4
    <3> QED
      BY <2>1, <2>2, <2>4, <3>1 DEF Has
  <2> QED
    BY <2>1, <2>2, <2>3, <2>4
<1>5. DOMAIN kept[l] = {} /\ DOMAIN kept'[l] = {}
  BY DEF Shows1
<1>6. u = <<u[1], u[2]>> /\ UNCHANGED <<events, pending, faults>> /\ Newest' = Newest
  BY SaidFacts DEF Shows1, Said
<1> QED
  BY <1>1, <1>2, <1>3, <1>4, <1>5, <1>6 DEF Kept, Keeps

\* The mode of a listener that shows an update.
LEMMA ModeShows ==
    ASSUME OutType, InputInv, LastUnseen, NEW l \in Listeners, ModeOK(l), EventOK(l), NEW u, Shows1(l, u)
    PROVE  ModeOK(l)'
<1>1. /\ client[l].saved \subseteq 1 .. Newest /\ Newest' = Newest
      /\ u[1] = "saved" => u[2] \in 1 .. Newest
      /\ OneShown(l, client[l], u, client'[l])
  BY ShowsFacts
<1>2. client'[l].saved \subseteq 1 .. Newest /\ client[l].saved \subseteq client'[l].saved
      /\ client'[l].shown = client[l].shown
  BY <1>1 DEF OneShown
<1>3. client'[l].settings <= Newest
  <2>1. client'[l].settings = client[l].settings \/ client'[l].settings \in 1 .. Newest
    BY <1>1 DEF OneShown
  <2>2. client[l].settings <= Newest
    BY DEF ModeOK
  <2> QED
    BY <2>1, <2>2, NewestType
<1> QED
  BY <1>1, <1>2, <1>3 DEF ModeOK, Shows1

\* The events of a listener that shows an update.
LEMMA EventShows ==
    ASSUME OutType, InputInv, LastUnseen, NEW l \in Listeners, ModeOK(l), EventOK(l), NEW u, Shows1(l, u)
    PROVE  EventOK(l)'
<1>1. /\ client[l].saved \subseteq 1 .. Newest /\ Newest' = Newest /\ Newest \in Nat
      /\ u[1] = "saved" =>
                /\ u[2] = Newest /\ u[2] \in 1 .. Newest
                /\ Has(l, client[l].saved, u[2]) <=> u[2] \in client[l].saved
                /\ l # Observer => u[2] \notin client[l].saved
      /\ DOMAIN kept'[l] = {} /\ u = <<u[1], u[2]>> /\ faults' = faults
      /\ \A n : ~Keeps(l, n) /\ ~Keeps(l, n)'
  BY ShowsFacts, NewestType
<1>2. OneShown(l, client[l], u, client'[l])
  BY ShowsFacts
<1>3. /\ client'[l].shown = client[l].shown
      /\ client'[l].saved = IF u[1] = "saved" THEN client[l].saved \cup {u[2]} ELSE client[l].saved
      /\ l # Observer => (client'[l].repeated => client[l].repeated)
  <2>1. /\ client'[l].shown = client[l].shown
        /\ client'[l].saved = IF u[1] = "saved" THEN client[l].saved \cup {u[2]} ELSE client[l].saved
    BY <1>1, <1>2 DEF OneShown
  <2>2. ASSUME l # Observer PROVE client'[l].repeated => client[l].repeated
    <3>1. ~(u[1] = "saved" /\ Has(l, client[l].saved, u[2]))
      BY <1>1, <2>2
    <3>2. client'[l].repeated = (client[l].repeated \/ (u[1] = "saved" /\ Has(l, client[l].saved, u[2])))
      BY <1>2 DEF OneShown
    <3> QED
      BY <3>1, <3>2
  <2> QED
    BY <2>1, <2>2
<1>4. \A n \in 1 .. Newest : Unseen(n)' <=> Unseen(n) /\ u # <<"saved", n>>
  BY DEF Shows1, Said
<1>5. ASSUME client'[l].shown, faults' = 0, NEW a \in client'[l].saved, NEW n \in a .. Newest
      PROVE  n \in client'[l].saved \/ Unseen(n)' \/ Keeps(l, n)'
  <2>1. CASE a \in client[l].saved
    <3>1. n \in 1 .. Newest /\ (n \in client[l].saved \/ Unseen(n))
      BY <1>1, <1>3, <1>5, <2>1 DEF EventOK, EventOf
    <3> QED
      BY <1>1, <1>3, <1>4, <3>1
  <2>2. CASE a \notin client[l].saved
    <3>1. n = a
      BY <1>1, <1>3, <1>5, <2>2
    <3> QED
      BY <3>1, <1>5
  <2> QED
    BY <2>1, <2>2
<1>6. ASSUME l # Observer, NEW n \in client'[l].saved PROVE ~Unseen(n)'
  <2>1. CASE n \in client[l].saved
    BY <1>1, <1>4, <1>6, <2>1 DEF EventOK, Shows1
  <2>2. CASE n \notin client[l].saved
    BY <1>1, <1>3, <1>4, <1>6, <2>2
  <2> QED
    BY <2>1, <2>2
<1>7. (l = Observer /\ client'[l].shown => 1 \in client'[l].saved) /\ (l # Observer => ~client'[l].repeated)
  BY <1>3 DEF EventOK, EventOf
<1> QED
  BY <1>1, <1>5, <1>6, <1>7 DEF EventOK, EventOf

\* The settings of a listener that shows an update.
LEMMA SettingsShows ==
    ASSUME OutType, InputInv, LastUnseen, NEW l \in Listeners, ModeOK(l), EventOK(l), SettingsOK(l),
           NEW u, Shows1(l, u)
    PROVE  SettingsOK(l)'
<1>1. /\ client[l].saved \subseteq 1 .. Newest /\ Newest' = Newest /\ Newest \in Nat
      /\ u[1] = "saved" =>
                /\ u[2] = Newest
                /\ Has(l, client[l].saved, u[2]) <=> u[2] \in client[l].saved
      /\ u = <<u[1], u[2]>> /\ faults' = faults /\ events' = events
      /\ \A n : ~Keeps(l, n) /\ ~Keeps(l, n)'
  BY ShowsFacts, NewestType
<1>2. OneShown(l, client[l], u, client'[l]) /\ client[l].settings \in Nat
  BY ShowsFacts DEF Shown
<1>3. client[l].settings <= Newest
  BY DEF ModeOK
<1>4. /\ client'[l].shown = client[l].shown
      /\ client'[l].saved = IF u[1] = "saved" THEN client[l].saved \cup {u[2]} ELSE client[l].saved
  BY <1>1, <1>2 DEF OneShown
<1>5. \A n \in 1 .. Newest : Unseen(n)' <=> Unseen(n) /\ u # <<"saved", n>>
  BY DEF Shows1, Said
<1> SUFFICES ASSUME faults' = 0
             PROVE  /\ \A n \in client'[l].saved : events'[n].settings => n <= client'[l].settings
                    /\ client'[l].shown => \A n \in 1 .. Newest' :
                         events'[n].settings => n <= client'[l].settings \/ Unseen(n)' \/ Keeps(l, n)'
  BY DEF SettingsOK, SettingsOf
<1>6. /\ \A n \in client[l].saved : events[n].settings => n <= client[l].settings
      /\ client[l].shown => \A n \in 1 .. Newest : events[n].settings => n <= client[l].settings \/ Unseen(n)
  BY <1>1 DEF SettingsOK, SettingsOf
<1>7. CASE u[1] # "saved"
  <2>1. client'[l].settings = client[l].settings
    BY <1>2, <1>7 DEF OneShown
  <2>2. \A n \in 1 .. Newest : Unseen(n)' <=> Unseen(n)
    BY <1>5, <1>7
  <2> QED
    BY <1>1, <1>4, <1>6, <1>7, <2>1, <2>2
<1>8. CASE u[1] = "saved"
  <2>1. client'[l].settings \in Nat /\ client[l].settings <= client'[l].settings
        /\ (events[Newest].settings => Newest <= client'[l].settings)
    <3>1. CASE u[2] \in client[l].saved
      BY <1>1, <1>2, <1>6, <1>8, <3>1 DEF OneShown
    <3>2. CASE u[2] \notin client[l].saved
      <4>1. client'[l].settings = IF events[Newest].settings /\ (l = Observer => Newest > client[l].settings)
                                  THEN Newest ELSE client[l].settings
        BY <1>1, <1>2, <1>8, <3>2 DEF OneShown
      <4> QED
        BY <4>1, <1>1, <1>2, <1>3
    <3> QED
      BY <3>1, <3>2
  <2>2. \A n \in 1 .. Newest : n # Newest => (Unseen(n)' <=> Unseen(n))
    BY <1>5, <1>1, <1>8
  <2>3. \A n \in client'[l].saved : n \in client[l].saved \/ n = Newest
    BY <1>1, <1>4, <1>8
  <2>4. \A n \in client'[l].saved : events[n].settings => n <= client'[l].settings
    BY <2>1, <2>3, <1>1, <1>2, <1>6
  <2>5. client[l].shown => \A n \in 1 .. Newest : events[n].settings => n <= client'[l].settings \/ Unseen(n)'
    BY <2>1, <2>2, <1>1, <1>2, <1>6
  <2> QED
    BY <1>1, <1>4, <2>4, <2>5
<1> QED
  BY <1>7, <1>8

\* The inputs of a listener that shows an update.
LEMMA PendingShows ==
    ASSUME OutType, InputInv, LastUnseen, NEW l \in Listeners, ModeOK(l), EventOK(l), PendingOK(l),
           NEW u, Shows1(l, u)
    PROVE  PendingOK(l)'
<1>1. /\ client[l].saved \subseteq 1 .. Newest /\ Newest' = Newest /\ Newest \in Nat
      /\ u[1] = "saved" =>
                /\ u[2] \in 1 .. Newest
                /\ Has(l, client[l].saved, u[2]) <=> u[2] \in client[l].saved
      /\ u = <<u[1], u[2]>> /\ pending' = pending /\ events' = events
      /\ \A x : ~Kept(l, x) /\ ~Kept(l, x)'
  BY ShowsFacts, NewestType
<1>2. OneShown(l, client[l], u, client'[l]) /\ client[l].pending \subseteq Nat
  BY ShowsFacts DEF Shown
<1>3. /\ client'[l].shown = client[l].shown
      /\ client'[l].saved = IF u[1] = "saved" THEN client[l].saved \cup {u[2]} ELSE client[l].saved
      /\ \A i : i \in client'[l].pending <=>
             \/ u = <<"accepted", i>>
             \/ /\ i \in client[l].pending /\ u # <<"removed", i>>
                /\ ~(u[1] = "saved" /\ u[2] \notin client[l].saved /\ i \in events[u[2]].consumed)
  BY <1>1, <1>2 DEF OneShown
<1>4. /\ u[1] = "accepted" => u[2] \in pending \/ Removing(u[2])
      /\ u[1] = "removed" => u[2] \notin pending
      /\ \A i : Answered(i) => Answered(i)' \/ u = <<"accepted", i>>
      /\ \A i : Removing(i) => Removing(i)' \/ u = <<"removed", i>>
  BY SaidFacts DEF Shows1, Said, Admits
<1>5. ASSUME NEW i \in Nat, client[l].shown, i \in pending PROVE i \in client'[l].pending \/ Answered(i)'
  <2>1. i \in client[l].pending \/ Answered(i)
    BY <1>1, <1>5 DEF PendingOK, PendingOf
  <2>2. Answered(i) => Answered(i)' \/ i \in client'[l].pending
    BY <1>3, <1>4
  <2>3. u # <<"removed", i>>
    BY <1>4, <1>5
  <2>4. u[1] = "saved" => i \notin events[u[2]].consumed
    BY <1>1, <1>5 DEF InputInv, Gone, Consumes
  <2> QED
    BY <2>1, <2>2, <2>3, <2>4, <1>3
<1>6. ASSUME NEW i \in Nat, i \in client'[l].pending
      PROVE  \/ i \in pending \/ Removing(i)'
             \/ \E n \in 1 .. Newest :
                  /\ i \in events[n].consumed /\ n \notin client'[l].saved
                  /\ l # Observer => \E a \in client'[l].saved : a < n
  <2>1. CASE u = <<"accepted", i>>
    <3>1. i \in pending \/ Removing(i)
      BY <2>1, <1>4
    <3> QED
      BY <3>1, <2>1, <1>4
  <2>2. CASE i \in client[l].pending /\ u # <<"accepted", i>>
    <3>1. \/ i \in pending \/ Removing(i)
          \/ \E n \in 1 .. Newest :
               /\ i \in events[n].consumed /\ n \notin client[l].saved
               /\ l # Observer => \E a \in client[l].saved : a < n
      BY <2>2, <1>1 DEF PendingOK, PendingOf
    <3>2. Removing(i) => Removing(i)'
      BY <1>3, <1>4, <1>6, <2>2
    <3>3. ASSUME NEW n \in 1 .. Newest, i \in events[n].consumed, n \notin client[l].saved,
                 l # Observer => \E a \in client[l].saved : a < n
          PROVE  n \notin client'[l].saved /\ (l # Observer => \E a \in client'[l].saved : a < n)
      <4>1. ~(u[1] = "saved" /\ u[2] = n)
        BY <3>3, <1>3, <1>6, <2>2
      <4> QED
        BY <4>1, <3>3, <1>3
    <3> QED
      BY <3>1, <3>2, <3>3
  <2> QED
    BY <2>1, <2>2, <1>3, <1>6
<1> QED
  BY <1>1, <1>3, <1>5, <1>6 DEF PendingOK, PendingOf

\* Each part of a listener that shows an update stays right.
LEMMA ListenerShows ==
    ASSUME OutType, InputInv, LastUnseen, NEW l \in Listeners, ListenerOK(l), NEW u, Shows1(l, u)
    PROVE  ListenerOK(l)'
<1>1. ModeOK(l) /\ EventOK(l) /\ LiveOK(l) /\ SettingsOK(l) /\ KeptOK(l) /\ PendingOK(l)
  BY DEF ListenerOK
<1>2. Fresh(u) /\ LiveStep(u) /\ kept[l] = <<>> /\ kept'[l] = kept[l] /\ client'[l] = Show(l, client[l], u)
  BY DEF Shows1, Said
<1>3. LiveOK(l)'
  BY <1>1, <1>2, LiveShows
<1>4. ModeOK(l)' /\ EventOK(l)' /\ SettingsOK(l)'
  BY <1>1, ModeShows, EventShows, SettingsShows
<1>5. KeptOK(l)'
  <2>1. DOMAIN kept'[l] = {}
    BY <1>2
  <2> QED
    BY <2>1 DEF KeptOK, KeptOf
<1>6. PendingOK(l)'
  BY <1>1, PendingShows
<1> QED
  BY <1>3, <1>4, <1>5, <1>6 DEF ListenerOK

\* Each listener is right after a published update.
LEMMA ListenersSaid ==
    ASSUME OutSane, OutType, InputInv, LastUnseen, ListenersOK, NEW u, Said(u)
    PROVE  ListenersOK'
<1> SUFFICES ASSUME NEW l \in Listeners PROVE ListenerOK(l)'
  BY DEF ListenersOK, Listeners
<1>1. ListenerOK(l)
  BY DEF ListenersOK
<1>2. /\ UNCHANGED mode
      /\ Admits(u) /\ mode[l] = "waiting" => kept'[l] = Append(kept[l], u)
      /\ ~Admits(u) \/ mode[l] # "waiting" => kept'[l] = kept[l]
      /\ Admits(u) /\ mode[l] = "on" => client'[l] = Show(l, client[l], u)
      /\ ~Admits(u) \/ mode[l] # "on" => client'[l] = client[l]
  BY PublishFacts DEF Said
<1>3. mode[l] \in {"off", "waiting", "on"}
  BY DEF OutType
<1>4. CASE ~Admits(u)
  BY <1>1, <1>4, ListenerRefuses
<1>5. CASE Admits(u) /\ mode[l] = "waiting"
  <2>1. Grows(l, u)
    BY <1>2, <1>5 DEF Grows
  <2> QED
    BY <1>1, <2>1, ListenerKeeps
<1>6. CASE Admits(u) /\ mode[l] = "on"
  <2>1. kept[l] = <<>>
    BY <1>1, <1>6 DEF ListenerOK, ModeOK
  <2>2. Shows1(l, u)
    BY <1>2, <1>6, <2>1 DEF Shows1
  <2> QED
    BY <1>1, <2>2, ListenerShows
<1>7. CASE mode[l] = "off"
  <2>1. l # Observer /\ client[l] = Empty(1, 1) /\ kept[l] = <<>>
    BY <1>1, <1>7 DEF ListenerOK, ModeOK
  <2>2. mode'[l] # "on" /\ kept'[l] = <<>> /\ client'[l] = Empty(1, 1)
    BY <1>2, <1>7, <2>1
  <2>3. Newest' \in Nat /\ Newest' >= 1
    BY SaidFacts
  <2> QED
    BY <2>1, <2>2, <2>3, ListenerQuiet
<1> QED
  BY <1>3, <1>4, <1>5, <1>6, <1>7
-----------------------------------------------------------------------------
(***************************************************************************)
(* A listener that shows what it kept, on what it showed or on its         *)
(* snapshot.                                                               *)
(***************************************************************************)

\* The kept updates that a listener does not show again add nothing.
FlushOK(l, c, ks) ==
    /\ ks \subseteq DOMAIN kept[l]
    /\ \A k \in DOMAIN kept[l] \ ks :
         \/ kept[l][k][1] = "saved" /\ kept[l][k][2] \in c.saved
         \/ kept[l][k][1] = "accepted" /\ kept[l][k][2] \in c.pending
    /\ l # Observer => \A k \in ks : kept[l][k][1] = "saved" =>
         c.settings < kept[l][k][2] /\ \A a \in c.saved : a < kept[l][k][2]

\* What it shows then.
Flushed(l, c, ks, r) ==
    LET us == kept[l]
        new == New(l, c.saved, us, ks)
        state == Of(us, ks, "state")
    IN  /\ r \in Shown /\ r.shown = c.shown
        /\ new \subseteq ks /\ \A k \in new : us[k][1] = "saved"
        /\ \A n : n \in r.saved <=> n \in c.saved \/ Keeps(l, n)
        /\ \A n : n \in r.saved => n \in c.saved \/ \E k \in new : us[k][2] = n
        /\ l # Observer => (r.repeated => c.repeated)
        /\ r.settings = Newer(l, c.settings, Numbers(us, new))
        /\ \A n : n \in Numbers(us, new) <=> \E k \in new : us[k][2] = n
        /\ \A i : i \in r.pending <=>
             \/ i \in c.pending /\ \A k \in ks : ~Goes(us, new, k, i)
             \/ \E k \in ks : us[k][1] = "accepted" /\ us[k][2] = i /\ \A j \in ks : Goes(us, new, j, i) => j < k
        /\ state = {} => r.running = c.running
        /\ state # {} => r.running = us[Max(state)][2]
        /\ \A q : q \in r.questions <=>
             \/ q \in c.questions /\ \A k \in ks : ~(us[k][1] = "closed" /\ us[k][2] = q)
             \/ \E k \in ks : us[k][1] = "asked" /\ us[k][2] = q
                              /\ \A j \in ks : us[j][1] = "closed" /\ us[j][2] = q => j < k

\* What a listener shows after the updates that it kept.
LEMMA FlushFacts ==
    ASSUME OutType, NEW l \in Listeners, NEW c \in Shown, NEW ks, FlushOK(l, c, ks), EventOf(l, c)
    PROVE  Flushed(l, c, ks, ShowAll(l, c, kept[l], ks))
<1> DEFINE us == kept[l]
           new == New(l, c.saved, us, ks)
           state == Of(us, ks, "state")
           r == ShowAll(l, c, us, ks)
<1>1. /\ us \in Seq(Update) /\ Len(us) \in Nat /\ DOMAIN us = 1 .. Len(us)
      /\ \A k \in DOMAIN us : us[k] \in Update /\ us[k] = <<us[k][1], us[k][2]>>
  BY KeptType, UpdateParts
<1>2. ks \subseteq DOMAIN us /\ ks \in SUBSET Nat /\ ks \in SUBSET DOMAIN us
  BY <1>1 DEF FlushOK
<1>3. \A k \in DOMAIN us : us[k][1] = "saved" =>
        us[k][2] \in 1 .. Newest /\ \A j \in DOMAIN us : j < k /\ us[j][1] = "saved" => us[j][2] < us[k][2]
  BY DEF EventOf
<1>4. SeenOK(us, ks)
  BY <1>2, <1>3 DEF SeenOK
<1>5. /\ new \subseteq ks /\ \A k \in new : us[k][1] = "saved"
      /\ \A n : n \in Numbers(us, new) <=> \E k \in new : us[k][2] = n
      /\ l = Observer => \A k \in ks : us[k][1] = "saved" => us[k][2] \in c.saved \cup Numbers(us, new)
  <2> HIDE DEF us
  <2> QED
    BY <1>2, NewMembers
<1>6. /\ r \in Shown
      /\ r.saved = c.saved \cup Numbers(us, new)
      /\ r.settings = Newer(l, c.settings, Numbers(us, new))
      /\ r.pending = Left(c.pending, Pairs(us, ks, "accepted"), Leaving(us, ks, new))
      /\ state = {} => r.running = c.running
      /\ state # {} => r.running = us[Max(state)][2]
      /\ r.questions = Left(c.questions, Pairs(us, ks, "asked"), Pairs(us, ks, "closed"))
      /\ r.repeated = (c.repeated \/ new # Of(us, ks, "saved"))
      /\ r.shown = c.shown
  <2> HIDE DEF us
  <2> QED
    BY <1>1, <1>2, <1>4, ShowAllFields
<1>7. ASSUME l # Observer, NEW k \in ks, us[k][1] = "saved" PROVE k \in new
  <2> DEFINE of == Of(us, ks, "saved")
             Before(x) == {us[j][2] : j \in {j \in of : j < x}}
  <2>1. new = {x \in of : ~\E a \in c.saved \cup Before(x) : us[x][2] <= a}
    BY <1>7 DEF New, Has
  <2>2. of = {x \in ks : us[x][1] = "saved"}
    BY DEF Of
  <2>3. us[k][2] \in Nat /\ \A a \in c.saved : a \in Nat /\ a < us[k][2]
    BY <1>2, <1>3, <1>7, NewestType DEF FlushOK, Shown
  <2>4. ASSUME NEW j \in of, j < k PROVE us[j][2] \in Nat /\ us[j][2] < us[k][2]
    <3>1. j \in DOMAIN us /\ k \in DOMAIN us /\ us[j][1] = "saved"
      BY <1>2, <2>2, <2>4
    <3>2. us[j][2] \in 1 .. Newest /\ us[j][2] < us[k][2]
      BY <1>3, <1>7, <2>4, <3>1
    <3> QED
      BY <3>2, NewestType
  <2>5. \A a \in c.saved \cup Before(k) : a \in Nat /\ a < us[k][2]
    BY <2>3, <2>4
  <2>6. \A a \in c.saved \cup Before(k) : ~(us[k][2] <= a)
    BY <2>3, <2>5
  <2>7. k \in of
    BY <1>7, <2>2
  <2> HIDE DEF of, Before
  <2> QED
    BY <2>1, <2>6, <2>7
<1>8. ASSUME NEW n PROVE n \in r.saved <=> n \in c.saved \/ Keeps(l, n)
  <2>1. ASSUME NEW k \in DOMAIN us, us[k] = <<"saved", n>> PROVE n \in r.saved
    <3>1. us[k][1] = "saved" /\ us[k][2] = n
      BY <2>1
    <3>2. CASE k \notin ks
      <4>1. n \in c.saved
        BY <2>1, <3>1, <3>2 DEF FlushOK
      <4> QED
        BY <4>1, <1>6
    <3>3. CASE k \in ks /\ l = Observer
      BY <1>5, <1>6, <3>1, <3>3
    <3>4. CASE k \in ks /\ l # Observer
      BY <1>5, <1>6, <1>7, <3>1, <3>4
    <3> QED
      BY <3>2, <3>3, <3>4
  <2>2. ASSUME NEW k \in new PROVE us[k][2] = n => Keeps(l, n)
    <3>1. k \in DOMAIN us /\ us[k] = <<us[k][1], us[k][2]>> /\ us[k][1] = "saved"
      BY <1>1, <1>2, <1>5
    <3> QED
      BY <3>1 DEF Keeps
  <2>3. Keeps(l, n) <=> \E k \in DOMAIN us : us[k] = <<"saved", n>>
    BY DEF Keeps
  <2>4. n \in r.saved <=> n \in c.saved \/ \E k \in new : us[k][2] = n
    BY <1>5, <1>6
  <2> HIDE DEF us, new, r
  <2> QED
    BY <2>1, <2>2, <2>3, <2>4
<1>9. \A n : n \in r.saved => n \in c.saved \/ \E k \in new : us[k][2] = n
  BY <1>5, <1>6
<1>10. ASSUME l # Observer PROVE r.repeated => c.repeated
  <2>1. new = Of(us, ks, "saved")
    BY <1>5, <1>7, <1>10 DEF Of
  <2> QED
    BY <1>6, <2>1
<1>11. ASSUME NEW i
       PROVE  i \in r.pending <=>
             \/ i \in c.pending /\ \A k \in ks : ~Goes(us, new, k, i)
             \/ \E k \in ks : us[k][1] = "accepted" /\ us[k][2] = i /\ \A j \in ks : Goes(us, new, j, i) => j < k
  <2> HIDE DEF us, new, r
  <2> QED
    BY <1>5, <1>6, PendingAfter
<1>12. ASSUME NEW q
       PROVE  q \in r.questions <=>
             \/ q \in c.questions /\ \A k \in ks : ~(us[k][1] = "closed" /\ us[k][2] = q)
             \/ \E k \in ks : us[k][1] = "asked" /\ us[k][2] = q
                              /\ \A j \in ks : us[j][1] = "closed" /\ us[j][2] = q => j < k
  <2> HIDE DEF us, r
  <2> QED
    BY <1>6, QuestionsAfter
<1> HIDE DEF r
<1>13. Flushed(l, c, ks, r)
  BY <1>5, <1>6, <1>8, <1>9, <1>10, <1>11, <1>12 DEF Flushed
<1> QED
  BY <1>13 DEF r

\* A step of a listener alone.
Idle ==
    /\ UNCHANGED <<events, pending, faults, gone, running, questions>>
    /\ \A n \in 1 .. Newest : Unseen(n)' <=> Unseen(n)
    /\ \A i : Removing(i)' <=> Removing(i)
    /\ \A i : Answered(i)' <=> Answered(i)

\* A step that changes nothing that the listeners know is a step of the store.
LEMMA IdleStep ==
    ASSUME OutType, Idle
    PROVE  StoreStep /\ Newest' = Newest /\ \A i : Consumes(i)' <=> Consumes(i)
<1>1. Newest' = Newest /\ Newest \in Nat /\ \A i : Consumes(i)' <=> Consumes(i)
  BY EventsStay, NewestType DEF Idle
<1>2. Newest + 1 .. Newest = {} /\ Newest \in Newest .. Newest + 1
  BY <1>1
<1> QED
  BY <1>1, <1>2 DEF Idle, StoreStep

\* The listener shows all that it kept, on `c`.
Shows2(l, c, ks) ==
    /\ Idle /\ FlushOK(l, c, ks)
    /\ mode'[l] = "on" /\ kept'[l] = <<>> /\ client'[l] = ShowAll(l, c, kept[l], ks)
    /\ c \in Shown /\ c.saved \subseteq 1 .. Newest /\ c.settings <= Newest
    /\ l # Observer =>
         /\ c.shown /\ c.saved # {} /\ \A n \in c.saved : ~Unseen(n)
         /\ \A k \in DOMAIN kept[l] : kept[l][k][1] = "accepted" =>
              \A n \in 1 .. Newest : kept[l][k][2] \in events[n].consumed => \E a \in c.saved : a < n

\* The live state after the kept updates.
LEMMA FlushLive ==
    ASSUME OutType, NEW l \in Listeners, NEW c, NEW ks, Shows2(l, c, ks), EventOf(l, c), LiveOf(l, c)
    PROVE  LiveOK(l)'
<1> DEFINE us == kept[l]
           r == ShowAll(l, c, us, ks)
<1>1. Flushed(l, c, ks, r)
  BY FlushFacts DEF Shows2
<1>2. /\ Len(us) \in Nat /\ DOMAIN us = 1 .. Len(us)
      /\ \A k \in DOMAIN us : us[k] \in Update /\ us[k] = <<us[k][1], us[k][2]>>
  BY KeptType, UpdateParts
<1>3. client'[l] = r /\ kept'[l] = <<>> /\ running' = running /\ questions' = questions
  BY DEF Shows2, Idle
<1>4. \A k \in DOMAIN us : us[k][1] \in {"state", "asked", "closed"} => k \in ks
  BY DEF Shows2, FlushOK
<1>5. ks \subseteq DOMAIN us
  BY DEF Shows2, FlushOK
<1> HIDE DEF us, r
<1>6. r.shown = c.shown
  BY <1>1 DEF Flushed
<1>7. ASSUME r.shown PROVE r.running = running
  <2> DEFINE state == Of(us, ks, "state")
  <2>1. state = {k \in ks : us[k][1] = "state"}
    BY DEF Of
  <2>2. (state = {} => r.running = c.running) /\ (state # {} => r.running = us[Max(state)][2])
    BY <1>1 DEF Flushed, us
  <2>3. CASE state = {}
    <3>1. ~StateKept(l)
      BY <1>4, <2>1, <2>3 DEF StateKept, us
    <3> QED
      BY <1>6, <1>7, <2>2, <2>3, <3>1 DEF LiveOf
  <2>4. CASE state # {}
    <3>1. state \in SUBSET (0 .. Len(us))
      BY <1>2, <1>5, <2>1
    <3> HIDE DEF state
    <3>2. Max(state) \in state /\ \A k \in state : k <= Max(state)
      BY <1>2, <2>4, <3>1, GreatestOf
    <3>3. Max(state) \in DOMAIN us /\ us[Max(state)][1] = "state" /\ Max(state) \in Nat
      BY <1>2, <1>5, <2>1, <3>2
    <3>4. \/ us[Max(state)][2] = running
          \/ \E j \in DOMAIN us : j > Max(state) /\ us[j][1] = "state"
      BY <3>3 DEF LiveOf, us
    <3>5. \A j \in DOMAIN us : us[j][1] = "state" => j \in state /\ j \in Nat
      BY <1>2, <1>4, <2>1
    <3> QED
      BY <2>2, <2>4, <3>2, <3>3, <3>4, <3>5
  <2> QED
    BY <2>3, <2>4
<1>8. ASSUME NEW q PROVE q \in r.questions <=> OpenOf(l, c, q)
  <2>1. q \in r.questions <=>
             \/ q \in c.questions /\ \A k \in ks : ~(us[k][1] = "closed" /\ us[k][2] = q)
             \/ \E k \in ks : us[k][1] = "asked" /\ us[k][2] = q
                              /\ \A j \in ks : us[j][1] = "closed" /\ us[j][2] = q => j < k
    BY <1>1 DEF Flushed, us
  <2>2. \A k \in ks : (us[k][1] = "closed" /\ us[k][2] = q <=> us[k] = <<"closed", q>>)
                      /\ (us[k][1] = "asked" /\ us[k][2] = q <=> us[k] = <<"asked", q>>)
    BY <1>2, <1>5
  <2>3. \A k \in DOMAIN us : us[k] = <<"closed", q>> \/ us[k] = <<"asked", q>> => k \in ks
    BY <1>4
  <2>4. OpenOf(l, c, q) <=>
             \/ q \in c.questions /\ ~\E k \in DOMAIN us : us[k] = <<"closed", q>>
             \/ \E k \in DOMAIN us : us[k] = <<"asked", q>> /\ \A j \in DOMAIN us : us[j] = <<"closed", q>> => j < k
    BY DEF OpenOf, Kept, us
  <2>5. q \in r.questions <=>
             \/ q \in c.questions /\ \A k \in ks : us[k] # <<"closed", q>>
             \/ \E k \in ks : us[k] = <<"asked", q>> /\ \A j \in ks : us[j] = <<"closed", q>> => j < k
    BY <2>1, <2>2
  <2> QED
    BY <2>3, <2>4, <2>5, <1>5
<1>9. \A q \in Questions : q \in r.questions => q \in questions
  BY <1>8 DEF LiveOf
<1>10. r.shown => \A q \in questions : q \in r.questions
  BY <1>6, <1>8 DEF LiveOf
<1>11. DOMAIN kept'[l] = {}
  BY <1>3
<1> QED
  BY <1>3, <1>7, <1>9, <1>10, <1>11 DEF LiveOK, LiveOf, OpenOf, Kept, StateKept

\* The mode after the kept updates.
LEMMA FlushMode ==
    ASSUME OutType, NEW l \in Listeners, NEW c, NEW ks, Shows2(l, c, ks), EventOf(l, c)
    PROVE  ModeOK(l)' /\ Numbers(kept[l], New(l, c.saved, kept[l], ks)) \in SUBSET (1 .. Newest)
<1> DEFINE r == ShowAll(l, c, kept[l], ks)
           N == Numbers(kept[l], New(l, c.saved, kept[l], ks))
<1>1. Flushed(l, c, ks, r)
  BY FlushFacts DEF Shows2
<1>2. client'[l] = r /\ kept'[l] = <<>> /\ mode'[l] = "on" /\ Newest' = Newest
  BY IdleStep DEF Shows2
<1> HIDE DEF r
<1>3. \A n : Keeps(l, n) => n \in 1 .. Newest
  BY DEF EventOf, Keeps
<1>4. r.saved \subseteq 1 .. Newest /\ c.saved \subseteq r.saved /\ r.shown = c.shown
  BY <1>1, <1>3 DEF Flushed, Shows2
<1>5. N \in SUBSET (1 .. Newest)
  <2>1. \A n \in N : \E k \in DOMAIN kept[l] : kept[l][k][1] = "saved" /\ kept[l][k][2] = n
    BY <1>1 DEF Flushed, Shows2, FlushOK
  <2>2. \A k \in DOMAIN kept[l] : kept[l][k][1] = "saved" => kept[l][k][2] \in 1 .. Newest
    BY DEF EventOf
  <2> HIDE DEF N
  <2> QED
    BY <2>1, <2>2
<1>6. r.settings = Newer(l, c.settings, N)
  BY <1>1 DEF Flushed
<1> HIDE DEF N
<1>7. r.settings <= Newest
  <2>1. c.settings \in Nat /\ c.settings <= Newest
    BY DEF Shows2, Shown
  <2>2. r.settings = c.settings \/ r.settings \in N
    BY <1>5, <1>6, <2>1, NewerOf
  <2>3. Newest \in Nat /\ \A n \in N : n \in Nat /\ n <= Newest
    BY <1>5, NewestType
  <2>4. CASE r.settings = c.settings
    BY <2>1, <2>4
  <2>5. CASE r.settings \in N
    BY <2>3, <2>5
  <2> QED
    BY <2>2, <2>4, <2>5
<1> QED
  BY <1>2, <1>4, <1>5, <1>7 DEF ModeOK, Shows2, N

\* The events after the kept updates.
LEMMA FlushEvent ==
    ASSUME OutType, NEW l \in Listeners, NEW c, NEW ks, Shows2(l, c, ks), EventOf(l, c)
    PROVE  EventOK(l)'
<1> DEFINE r == ShowAll(l, c, kept[l], ks)
<1>1. Flushed(l, c, ks, r)
  BY FlushFacts DEF Shows2
<1>2. client'[l] = r /\ kept'[l] = <<>> /\ mode'[l] = "on" /\ Newest' = Newest /\ Newest \in Nat /\ faults' = faults
  BY IdleStep, NewestType DEF Shows2, Idle
<1> HIDE DEF r
<1>3. \A n : Keeps(l, n) => n \in 1 .. Newest /\ ~Unseen(n)
  BY DEF EventOf, Keeps
<1>4. /\ \A n : n \in r.saved <=> n \in c.saved \/ Keeps(l, n)
      /\ r.shown = c.shown
      /\ l # Observer => (r.repeated => c.repeated)
  BY <1>1 DEF Flushed
<1>5. c.saved \subseteq 1 .. Newest
  BY DEF Shows2
<1>6. \A n \in 1 .. Newest : Unseen(n)' <=> Unseen(n)
  BY DEF Shows2, Idle
<1>7. ASSUME r.shown, faults = 0, NEW a \in r.saved, NEW n \in a .. Newest
      PROVE  n \in r.saved \/ Unseen(n)'
  <2>1. n \in 1 .. Newest /\ a \in 1 .. Newest
    BY <1>3, <1>4, <1>5, <1>7, <1>2
  <2>2. CASE a \in c.saved
    <3>1. n \in c.saved \/ Unseen(n) \/ Keeps(l, n)
      BY <1>4, <1>7, <2>2 DEF EventOf
    <3> QED
      BY <3>1, <2>1, <1>4, <1>6
  <2>3. CASE l = Observer
    <3>1. 1 \in c.saved /\ n \in 1 .. Newest
      BY <1>4, <1>7, <2>1, <2>3 DEF EventOf
    <3>2. n \in c.saved \/ Unseen(n) \/ Keeps(l, n)
      BY <3>1, <1>4, <1>7 DEF EventOf
    <3> QED
      BY <3>2, <2>1, <1>4, <1>6
  <2>4. CASE l # Observer /\ a \notin c.saved
    <3>1. PICK b \in c.saved : TRUE
      BY <2>4 DEF Shows2
    <3>2. PICK k \in New(l, c.saved, kept[l], ks) : kept[l][k][2] = a
      BY <1>1, <1>7, <2>4 DEF Flushed
    <3>3. b < a
      BY <1>1, <2>4, <3>2 DEF Flushed, Shows2, FlushOK
    <3>4. n \in b .. Newest
      BY <1>2, <1>5, <1>7, <2>1, <3>1, <3>3
    <3>5. n \in c.saved \/ Unseen(n) \/ Keeps(l, n)
      BY <3>4, <1>4, <1>7 DEF EventOf
    <3> QED
      BY <3>5, <2>1, <1>4, <1>6
  <2> QED
    BY <2>2, <2>3, <2>4
<1>8. l # Observer => \A n \in r.saved : ~Unseen(n)'
  <2>1. l # Observer => \A n \in c.saved : ~Unseen(n)
    BY DEF Shows2
  <2> QED
    BY <2>1, <1>3, <1>4, <1>5, <1>6
<1>9. (l = Observer /\ r.shown => 1 \in r.saved) /\ (l # Observer => ~r.repeated)
  BY <1>4 DEF EventOf
<1>10. DOMAIN kept'[l] = {}
  BY <1>2
<1> QED
  BY <1>2, <1>7, <1>8, <1>9, <1>10 DEF EventOK, EventOf

\* The settings after the kept updates.
LEMMA FlushSettings ==
    ASSUME OutType, NEW l \in Listeners, NEW c, NEW ks, Shows2(l, c, ks), EventOf(l, c), SettingsOf(l, c)
    PROVE  SettingsOK(l)'
<1> DEFINE r == ShowAll(l, c, kept[l], ks)
           N == Numbers(kept[l], New(l, c.saved, kept[l], ks))
<1>1. Flushed(l, c, ks, r)
  BY FlushFacts DEF Shows2
<1>2. /\ client'[l] = r /\ kept'[l] = <<>> /\ Newest' = Newest /\ Newest \in Nat /\ faults' = faults
          /\ events' = events
      /\ \A n \in 1 .. Newest : Unseen(n)' <=> Unseen(n)
  BY IdleStep, NewestType DEF Shows2, Idle
<1> HIDE DEF r
<1>3. /\ \A n : n \in r.saved <=> n \in c.saved \/ Keeps(l, n)
      /\ \A n \in r.saved : n \in c.saved \/ n \in N
      /\ r.shown = c.shown
      /\ r.settings = Newer(l, c.settings, N)
  BY <1>1 DEF Flushed
<1>4. N \in SUBSET (1 .. Newest)
  BY FlushMode
<1>5. c.saved \subseteq 1 .. Newest /\ c.settings \in Nat
  BY DEF Shows2, Shown
<1>6. l # Observer => \A n \in N : c.settings < n /\ \A a \in c.saved : a < n
  BY <1>1 DEF Flushed, Shows2, FlushOK
<1> HIDE DEF N
<1> DEFINE new == {n \in N : events[n].settings /\ (l = Observer => n > c.settings)}
<1>7. \/ new = {} /\ r.settings = c.settings
      \/ r.settings \in new /\ \A n \in new : n <= r.settings
  BY <1>3, <1>4, <1>5, NewerOf
<1>8. r.settings \in Nat /\ c.settings <= r.settings
      /\ \A n \in N : events[n].settings => n <= r.settings
  <2>1. \A n \in N : n \in Nat
    BY <1>4
  <2>2. CASE l = Observer
    BY <1>5, <1>7, <2>1, <2>2
  <2>3. CASE l # Observer
    BY <1>5, <1>6, <1>7, <2>1, <2>3
  <2> QED
    BY <2>2, <2>3
<1>9. ASSUME faults = 0, NEW n \in r.saved, events[n].settings PROVE n <= r.settings
  <2>1. CASE n \in N
    BY <1>8, <1>9, <2>1
  <2>2. CASE n \in c.saved
    <3>1. n <= c.settings /\ n \in Nat
      BY <1>5, <1>9, <2>2 DEF SettingsOf
    <3> QED
      BY <3>1, <1>5, <1>8
  <2> QED
    BY <1>3, <2>1, <2>2
<1>10. ASSUME faults = 0, r.shown, NEW n \in 1 .. Newest, events[n].settings PROVE n <= r.settings \/ Unseen(n)'
  <2>1. n <= c.settings \/ Unseen(n) \/ Keeps(l, n)
    BY <1>3, <1>10 DEF SettingsOf
  <2>2. n <= c.settings => n <= r.settings
    BY <1>5, <1>8
  <2>3. Keeps(l, n) => n <= r.settings
    BY <1>3, <1>9, <1>10
  <2> QED
    BY <2>1, <2>2, <2>3, <1>2
<1> QED
  BY <1>2, <1>9, <1>10 DEF SettingsOK, SettingsOf

\* The inputs after the kept updates.
LEMMA FlushPending ==
    ASSUME OutType, InputInv, NEW l \in Listeners, NEW c, NEW ks, Shows2(l, c, ks),
           EventOf(l, c), KeptOf(l, c), PendingOf(l, c)
    PROVE  PendingOK(l)'
<1> DEFINE us == kept[l]
           r == ShowAll(l, c, us, ks)
           new == New(l, c.saved, us, ks)
<1>1. Flushed(l, c, ks, r)
  BY FlushFacts DEF Shows2
<1>2. /\ client'[l] = r /\ kept'[l] = <<>> /\ Newest' = Newest /\ Newest \in Nat /\ pending' = pending
          /\ events' = events
      /\ \A i : Removing(i)' <=> Removing(i)
      /\ \A i : Answered(i)' <=> Answered(i)
  BY IdleStep, NewestType DEF Shows2, Idle
<1>3. /\ Len(us) \in Nat /\ DOMAIN us = 1 .. Len(us)
      /\ \A k \in DOMAIN us : us[k] \in Update /\ us[k] = <<us[k][1], us[k][2]>>
  BY KeptType, UpdateParts
<1>4. /\ ks \subseteq DOMAIN us
      /\ \A k \in DOMAIN us : us[k][1] = "removed" => k \in ks
      /\ \A k \in DOMAIN us : us[k][1] = "accepted" => k \in ks \/ us[k][2] \in c.pending
      /\ l # Observer => \A k \in ks : us[k][1] = "saved" => \A a \in c.saved : a < us[k][2]
  BY DEF Shows2, FlushOK
<1>5. /\ new \subseteq ks /\ \A k \in new : us[k][1] = "saved"
      /\ \A n : n \in r.saved <=> n \in c.saved \/ Keeps(l, n)
      /\ \A n : n \in r.saved => n \in c.saved \/ \E k \in new : us[k][2] = n
      /\ \A i : i \in r.pending <=>
             \/ i \in c.pending /\ \A k \in ks : ~Goes(us, new, k, i)
             \/ \E k \in ks : us[k][1] = "accepted" /\ us[k][2] = i /\ \A j \in ks : Goes(us, new, j, i) => j < k
      /\ r.shown = c.shown
  BY <1>1 DEF Flushed
<1> HIDE DEF r, new
<1>6. ASSUME NEW i, NEW k \in ks, Goes(us, new, k, i) PROVE i \in gone
  <2>1. CASE us[k][1] = "removed" /\ us[k][2] = i
    BY <2>1, <1>4 DEF KeptOf
  <2>2. CASE k \in new /\ i \in events[us[k][2]].consumed
    BY <2>2, <1>4, <1>5 DEF KeptOf
  <2> QED
    BY <1>6, <2>1, <2>2 DEF Goes
<1>7. ASSUME NEW i \in Nat, c.shown, i \in pending PROVE i \in r.pending \/ Answered(i)
  <2>1. i \notin gone
    BY <1>7 DEF InputInv, Gone
  <2>2. \A k \in ks : ~Goes(us, new, k, i)
    BY <2>1, <1>6
  <2>3. i \in c.pending \/ Answered(i) \/ Kept(l, <<"accepted", i>>)
    BY <1>7 DEF PendingOf
  <2>4. ASSUME Kept(l, <<"accepted", i>>) PROVE i \in r.pending
    <3>1. PICK k \in DOMAIN us : us[k] = <<"accepted", i>>
      BY <2>4 DEF Kept
    <3>2. us[k][1] = "accepted" /\ us[k][2] = i
      BY <3>1
    <3>3. k \in ks \/ i \in c.pending
      BY <1>4, <3>2
    <3> HIDE DEF us
    <3> QED
      BY <2>2, <3>2, <3>3, <1>5
  <2>5. i \in c.pending => i \in r.pending
    BY <2>2, <1>5
  <2> QED
    BY <2>3, <2>4, <2>5
<1>8. ASSUME NEW i \in Nat, i \in r.pending
      PROVE  \/ i \in pending \/ Removing(i)
             \/ \E n \in 1 .. Newest :
                  /\ i \in events[n].consumed /\ n \notin r.saved
                  /\ l # Observer => \E a \in r.saved : a < n
  <2>1. ASSUME NEW k \in DOMAIN us, us[k] = <<"removed", i>> PROVE k \in ks /\ Goes(us, new, k, i)
    BY <2>1, <1>4 DEF Goes
  <2>2. ASSUME NEW n, n \in r.saved, n \notin c.saved, i \in events[n].consumed
        PROVE  \E k \in new : us[k][1] = "saved" /\ us[k][2] = n /\ Goes(us, new, k, i)
    BY <2>2, <1>5 DEF Goes
  <2>3. CASE i \in c.pending /\ \A k \in ks : ~Goes(us, new, k, i)
    <3>1. ~Kept(l, <<"removed", i>>)
      BY <2>1, <2>3 DEF Kept
    <3>2. \/ i \in pending \/ Removing(i)
          \/ \E n \in 1 .. Newest :
               /\ i \in events[n].consumed /\ n \notin c.saved
               /\ l # Observer => \E a \in c.saved : a < n
      BY <2>3, <3>1 DEF PendingOf
    <3>3. \A n : i \in events[n].consumed /\ n \notin c.saved => n \notin r.saved
      BY <2>2, <2>3, <1>5
    <3> QED
      BY <3>2, <3>3, <1>5
  <2>4. ASSUME NEW k \in ks, us[k][1] = "accepted", us[k][2] = i, \A j \in ks : Goes(us, new, j, i) => j < k
        PROVE  \/ i \in pending \/ Removing(i)
               \/ \E n \in 1 .. Newest :
                    /\ i \in events[n].consumed /\ n \notin r.saved
                    /\ l # Observer => \E a \in r.saved : a < n
    <3>1. k \in DOMAIN us /\ k \in Nat
      BY <1>3, <1>4
    <3>2. /\ i \in pending \/ Removing(i) \/ Kept(l, <<"removed", i>>) \/ Consumes(i)
          /\ \A n \in c.saved : i \notin events[n].consumed
      BY <2>4, <3>1 DEF KeptOf
    <3>3. \A j \in DOMAIN us :
            us[j] = <<"removed", i>> \/ (us[j][1] = "saved" /\ i \in events[us[j][2]].consumed) => k < j
      BY <2>4, <3>1 DEF KeptOf
    <3>4. ~Kept(l, <<"removed", i>>)
      <4> SUFFICES ASSUME NEW j \in DOMAIN us, us[j] = <<"removed", i>> PROVE FALSE
        BY DEF Kept
      <4>1. j < k /\ k < j /\ j \in Nat
        BY <1>3, <2>1, <2>4, <3>3
      <4> QED
        BY <4>1, <3>1
    <3>5. ASSUME NEW n \in 1 .. Newest, i \in events[n].consumed PROVE n \notin r.saved
      <4>1. n \notin c.saved
        BY <3>2, <3>5
      <4> SUFFICES ASSUME n \in r.saved PROVE FALSE
        OBVIOUS
      <4>2. PICK j \in new : us[j][1] = "saved" /\ us[j][2] = n /\ Goes(us, new, j, i)
        BY <2>2, <3>5, <4>1
      <4>3. j \in ks /\ j \in DOMAIN us /\ j \in Nat
        BY <1>3, <1>4, <1>5
      <4>4. j < k /\ k < j
        BY <2>4, <3>3, <3>5, <4>2, <4>3
      <4> QED
        BY <4>3, <4>4, <3>1
    <3>6. ASSUME l # Observer, NEW n \in 1 .. Newest, i \in events[n].consumed PROVE \E a \in r.saved : a < n
      BY <1>5, <2>4, <3>1, <3>6 DEF Shows2
    <3> QED
      BY <3>2, <3>4, <3>5, <3>6 DEF Consumes
  <2> QED
    BY <1>5, <1>8, <2>3, <2>4
<1>9. ~\E x : Kept(l, x)'
  BY <1>2 DEF Kept
<1> QED
  BY <1>2, <1>5, <1>7, <1>8 DEF PendingOK, PendingOf

\* Each part of a listener is right after the updates that it kept.
LEMMA ListenerFlushes ==
    ASSUME OutType, InputInv, NEW l \in Listeners, NEW c, NEW ks, Shows2(l, c, ks),
           EventOf(l, c), LiveOf(l, c), SettingsOf(l, c), KeptOf(l, c), PendingOf(l, c)
    PROVE  ListenerOK(l)'
<1>1. ModeOK(l)' /\ EventOK(l)'
  BY FlushMode, FlushEvent
<1>2. LiveOK(l)'
  BY FlushLive
<1>3. SettingsOK(l)'
  BY FlushSettings
<1>4. PendingOK(l)'
  BY FlushPending
<1>5. KeptOK(l)'
  <2>1. DOMAIN kept'[l] = {}
    BY DEF Shows2
  <2> QED
    BY <2>1 DEF KeptOK, KeptOf
<1> QED
  BY <1>1, <1>2, <1>3, <1>4, <1>5 DEF ListenerOK

\* The read of the client fails: it shows what it kept.
LEMMA ObserverFlushes ==
    ASSUME OutType, InputInv, ListenerOK(Observer), Idle,
           mode'[Observer] = "on", kept'[Observer] = <<>>,
           client'[Observer] = ShowAll(Observer, client[Observer], kept[Observer], DOMAIN kept[Observer])
    PROVE  ListenerOK(Observer)'
<1> DEFINE l == Observer
           c == client[l]
           ks == DOMAIN kept[l]
<1>1. l \in Listeners
  BY DEF Listeners
<1>2. c \in Shown
  BY <1>1, KeptType
<1>3. FlushOK(l, c, ks)
  BY DEF FlushOK
<1>4. Shows2(l, c, ks)
  BY <1>2, <1>3 DEF Shows2, ListenerOK, ModeOK
<1>5. EventOf(l, c) /\ LiveOf(l, c) /\ SettingsOf(l, c) /\ KeptOf(l, c) /\ PendingOf(l, c)
  BY DEF ListenerOK, EventOK, LiveOK, SettingsOK, KeptOK, PendingOK
<1> HIDE DEF c, ks, l
<1>6. ListenerOK(l)'
  BY <1>1, <1>4, <1>5, ListenerFlushes
<1> QED
  BY <1>6 DEF l
-----------------------------------------------------------------------------
(***************************************************************************)
(* The snapshot of a listener.                                             *)
(***************************************************************************)

\* What a listener shows before its snapshot, and with it.
Base(l, mark) == IF l = Observer THEN client[l] ELSE [Empty(0, mark) EXCEPT !.saved = {}]
Snapped(l, base, loaded, c) ==
    /\ c \in Shown /\ c.shown = TRUE /\ c.repeated = FALSE /\ c.running = running
    /\ c.saved = base.saved \cup loaded.page
    /\ c.settings = Newer(l, base.settings, loaded.page \ base.saved)
    /\ c.pending = (base.pending \ Consumed(loaded.page \ base.saved)) \cup loaded.pending
    /\ c.questions = base.questions \cup questions

\* What the snapshot of a read holds, field by field.
LEMMA SnapshotFacts ==
    ASSUME OutType, NEW l \in Listeners, NEW base \in Shown, l # Observer => base.saved = {},
           NEW loaded \in Loaded, loaded.page \subseteq 1 .. Newest
    PROVE  Snapped(l, base, loaded, Snapshot(l, base, loaded))
<1> DEFINE new == {n \in loaded.page : ~Has(l, base.saved, n)}
           a == base.saved \cup new
           s == Newer(l, base.settings, new)
           p == (base.pending \ Consumed(new)) \cup loaded.pending
           q == base.questions \cup questions
<1>1. new = loaded.page \ base.saved
  BY DEF Has
<1>2. /\ base.saved \in SUBSET Nat /\ base.pending \in SUBSET Nat /\ base.questions \in SUBSET Questions
      /\ base.settings \in Nat /\ loaded.page \in SUBSET Nat /\ loaded.pending \in SUBSET Nat
      /\ questions \in SUBSET Questions /\ running \in BOOLEAN
  BY DEF Shown, Loaded, OutType
<1>3. Snapshot(l, base, loaded) =
        [base EXCEPT !.saved = a, !.settings = s, !.pending = p, !.questions = q,
                     !.running = running, !.shown = TRUE, !.repeated = FALSE]
  BY Zenon DEF Snapshot
<1>4. a \in SUBSET Nat /\ p \in SUBSET Nat /\ q \in SUBSET Questions
  BY <1>2
<1>5. s \in Nat
  <2>1. new \in SUBSET (1 .. Newest)
    OBVIOUS
  <2>2. new \in SUBSET Nat
    BY <1>2
  <2> HIDE DEF new
  <2> QED
    BY <1>2, <2>1, <2>2, NewerOf
<1>6. a = base.saved \cup loaded.page
  BY <1>1
<1> HIDE DEF a, s, p, q
<1>7. LET c == [base EXCEPT !.saved = a, !.settings = s, !.pending = p, !.questions = q,
                     !.running = running, !.shown = TRUE, !.repeated = FALSE]
      IN /\ c \in Shown /\ c.shown = TRUE /\ c.repeated = FALSE /\ c.running = running
         /\ c.saved = a /\ c.settings = s /\ c.pending = p /\ c.questions = q
  BY <1>2, <1>4, <1>5 DEF Shown
<1> DEFINE c == Snapshot(l, base, loaded)
<1>8. /\ c \in Shown /\ c.shown = TRUE /\ c.repeated = FALSE /\ c.running = running
      /\ c.saved = a /\ c.settings = s /\ c.pending = p /\ c.questions = q
  BY <1>3, <1>7
<1> HIDE DEF c
<1>9. Snapped(l, base, loaded, c)
  BY <1>1, <1>6, <1>8 DEF Snapped, s, p, q
<1> QED
  BY <1>9 DEF c

\* What a listener shows before its snapshot.
LEMMA BaseFacts ==
    ASSUME OutType, NEW l \in Listeners, NEW mark \in Nat, mark <= Newest, ModeOK(l), mode[l] = "waiting"
    PROVE  /\ Base(l, mark) \in Shown
           /\ Base(l, mark).saved \subseteq 1 .. Newest /\ Base(l, mark).settings <= Newest
           /\ l = Observer => Base(l, mark) = client[l]
           /\ l # Observer => /\ Base(l, mark).saved = {} /\ Base(l, mark).pending = {}
                              /\ Base(l, mark).questions = {} /\ Base(l, mark).settings = mark
           /\ Base(l, mark).questions = client[l].questions
<1>1. CASE l = Observer
  BY <1>1, KeptType DEF Base, ModeOK
<1>2. CASE l # Observer
  <2>1. Base(l, mark) = [saved |-> {}, pending |-> {}, questions |-> {}, running |-> FALSE, settings |-> mark,
                         shown |-> FALSE, repeated |-> FALSE]
    BY <1>2 DEF Base, Empty
  <2>2. client[l].questions = {}
    BY <1>2 DEF ModeOK, Empty
  <2> QED
    BY <1>2, <2>1, <2>2 DEF Shown
<1> QED
  BY <1>1, <1>2

\* The answer of a read, at the moment of `m` events.
Reads(l, k, m, c, ks) ==
    /\ l \in Listeners /\ mode[l] = "waiting"
    /\ k \in DOMAIN answers /\ answers[k][1][1] = "read" /\ answers[k][1][2] = l
    /\ m \in 1 .. Newest /\ ReadAt(k, m)
    /\ l # Observer => k = 1
    /\ c = Snapshot(l, Base(l, answers[k][1][3]), answers[k][2])
    /\ ks = After(answers[k][2], kept[l])

\* The snapshot of a read that was answered after `m` events.
LEMMA ReadsFacts ==
    ASSUME OutSane, OutType, NEW l, NEW k, NEW m, NEW c, NEW ks, Reads(l, k, m, c, ks), ModeOK(l), EventOK(l)
    PROVE  LET loaded == answers[k][2]
               base == Base(l, answers[k][1][3])
           IN /\ answers[k][1][3] \in Nat /\ answers[k][1][3] <= m /\ m \in Nat /\ Newest \in Nat /\ m <= Newest
              /\ loaded \in Loaded /\ loaded.page = From(l, answers[k][1][3], m) .. m
              /\ Snapped(l, base, loaded, c)
              /\ l = Observer => c.saved = 1 .. m
              /\ l # Observer => /\ c.saved = loaded.page /\ m \in c.saved /\ k = 1
                                 /\ \A n \in 1 .. m : n \notin c.saved => \A a \in c.saved : n < a
              /\ c.saved \subseteq 1 .. m /\ m >= 1
<1> DEFINE loaded == answers[k][2]
           mark == answers[k][1][3]
           base == Base(l, mark)
<1>1. answers[k][1] \in Ops /\ ResultOK(answers[k][1], loaded)
  BY FlightType DEF Reads, OutType
<1>2. mark \in Nat /\ loaded \in Loaded
  BY <1>1, OpParts DEF Reads, ResultOK
<1>3. Newest \in Nat /\ m \in 1 .. Newest
  BY NewestType DEF Reads
<1>4. /\ mark <= m /\ loaded.page = From(l, mark, m) .. m
      /\ l = Observer => 1 .. mark \subseteq client[l].saved /\ client[l].saved \subseteq 1 .. m
  BY DEF Reads, ReadAt, ReadOf
<1> HIDE DEF loaded, mark
<1>5. From(l, mark, m) \in Nat /\ From(l, mark, m) >= 1
      /\ (l = Observer => From(l, mark, m) = mark + 1) /\ (l # Observer => From(l, mark, m) <= m)
  <2>1. PageSize \in Nat \ {0}
    BY DEF OutSane
  <2> QED
    BY <1>2, <1>3, <2>1 DEF From
<1>6. loaded.page \subseteq 1 .. m /\ loaded.page \subseteq 1 .. Newest
  BY <1>3, <1>4, <1>5
<1>7. l \in Listeners /\ mode[l] = "waiting" /\ mark <= Newest
  BY <1>2, <1>3, <1>4 DEF Reads
<1>8. base \in Shown /\ (l # Observer => base.saved = {}) /\ (l = Observer => base = client[l])
  BY <1>2, <1>7, BaseFacts
<1>9. c = Snapshot(l, base, loaded)
  BY DEF Reads, loaded, mark
<1> HIDE DEF base
<1>10. Snapped(l, base, loaded, c)
  BY <1>2, <1>6, <1>7, <1>8, <1>9, SnapshotFacts
<1>11. c.saved = base.saved \cup loaded.page
  BY <1>10 DEF Snapped
<1>12. ASSUME l = Observer PROVE c.saved = 1 .. m
  <2>1. ASSUME NEW n \in 1 .. m PROVE n \in c.saved
    <3>1. CASE n <= mark
      BY <1>2, <1>4, <1>8, <1>11, <1>12, <2>1, <3>1
    <3>2. CASE n > mark
      <4>1. n \in mark + 1 .. m
        BY <1>2, <1>3, <2>1, <3>2
      <4> QED
        BY <4>1, <1>4, <1>5, <1>11, <1>12
    <3> QED
      BY <1>2, <2>1, <3>1, <3>2
  <2>2. c.saved \subseteq 1 .. m
    BY <1>4, <1>6, <1>8, <1>11, <1>12
  <2> QED
    BY <2>1, <2>2
<1>13. ASSUME l # Observer
       PROVE  /\ c.saved = loaded.page /\ m \in c.saved /\ k = 1
              /\ \A n \in 1 .. m : n \notin c.saved => \A a \in c.saved : n < a
  <2>1. c.saved = loaded.page /\ k = 1
    BY <1>8, <1>11, <1>13 DEF Reads
  <2>2. c.saved = From(l, mark, m) .. m
    BY <2>1, <1>4
  <2> QED
    BY <2>1, <2>2, <1>3, <1>5, <1>13
<1>14. c.saved \subseteq 1 .. m
  BY <1>6, <1>12, <1>13
<1> QED
  BY <1>2, <1>3, <1>4, <1>10, <1>12, <1>13, <1>14 DEF base, loaded, mark

\* The events of a snapshot, beside the kept updates.
LEMMA ReadsEvent ==
    ASSUME OutSane, OutType, NEW l, NEW k, NEW m, NEW c, NEW ks, Reads(l, k, m, c, ks), ModeOK(l), EventOK(l)
    PROVE  EventOf(l, c) /\ (l # Observer => \A n \in c.saved : ~Unseen(n))
<1>1. /\ m \in Nat /\ Newest \in Nat /\ m <= Newest /\ m >= 1
      /\ l = Observer => c.saved = 1 .. m
      /\ l # Observer => m \in c.saved /\ k = 1 /\ \A n \in 1 .. m : n \notin c.saved => \A a \in c.saved : n < a
      /\ c.saved \subseteq 1 .. m
  BY ReadsFacts
<1>2. c.repeated = FALSE /\ c.shown = TRUE
  <2>1. Snapped(l, Base(l, answers[k][1][3]), answers[k][2], c)
    BY ReadsFacts
  <2> QED
    BY <2>1 DEF Snapped
<1>3. ASSUME faults = 0, NEW a \in c.saved, NEW n \in a .. Newest
      PROVE  n \in c.saved \/ Unseen(n) \/ Keeps(l, n)
  <2>1. CASE n <= m
    <3>1. n \in 1 .. m /\ a <= n /\ a \in Nat /\ n \in Nat
      BY <1>1, <1>3, <2>1
    <3> QED
      BY <3>1, <1>1
  <2>2. CASE n > m
    <3>1. n \in m + 1 .. Newest
      BY <1>1, <1>3, <2>2
    <3> QED
      BY <3>1, <1>3 DEF Reads, ReadAt, ReadOf
  <2> QED
    BY <1>1, <1>3, <2>1, <2>2
<1>4. ASSUME l # Observer, NEW n \in c.saved PROVE ~Unseen(n)
  <2>1. n \in Nat /\ n # 0 /\ n <= m
    BY <1>1
  <2>2. ASSUME NEW j \in DOMAIN answers, answers[j][1][1] \in Writes, answers[j][2] = n PROVE FALSE
    <3>1. j \in Nat /\ j >= 1
      BY FlightType
    <3>2. j # k
      BY <2>2 DEF Reads, Writes
    <3>3. j > k
      BY <1>1, <1>4, <3>1, <3>2
    <3>4. n > m
      BY <1>4, <2>1, <2>2, <3>3 DEF Reads, ReadAt, ReadOf
    <3> QED
      BY <1>1, <2>1, <3>4
  <2> QED
    BY <2>2 DEF Unseen
<1>5. \A j \in DOMAIN kept[l] : kept[l][j][1] = "saved" =>
         /\ kept[l][j][2] \in 1 .. Newest
         /\ ~Unseen(kept[l][j][2])
         /\ \A h \in DOMAIN kept[l] : h < j /\ kept[l][h][1] = "saved" => kept[l][h][2] < kept[l][j][2]
  BY DEF EventOK, EventOf
<1>6. l = Observer => 1 \in c.saved
  BY <1>1
<1> QED
  BY <1>2, <1>3, <1>4, <1>5, <1>6 DEF EventOf

\* The live state of a snapshot, beside the kept updates.
LEMMA ReadsLive ==
    ASSUME OutSane, OutType, NEW l, NEW k, NEW m, NEW c,
           NEW ks, Reads(l, k, m, c, ks), ModeOK(l), EventOK(l), LiveOK(l)
    PROVE  LiveOf(l, c)
<1>1. c.running = running /\ c.questions = Base(l, answers[k][1][3]).questions \cup questions
  <2>1. Snapped(l, Base(l, answers[k][1][3]), answers[k][2], c)
    BY ReadsFacts
  <2> QED
    BY <2>1 DEF Snapped
<1>2. /\ answers[k][1][3] \in Nat /\ answers[k][1][3] <= m /\ m \in Nat /\ Newest \in Nat /\ m <= Newest
      /\ l \in Listeners /\ mode[l] = "waiting"
  BY ReadsFacts DEF Reads
<1>3. c.questions = client[l].questions \cup questions
  <2>1. answers[k][1][3] <= Newest
    BY <1>2
  <2> QED
    BY <1>1, <1>2, <2>1, BaseFacts
<1>4. ASSUME NEW q \in Questions, OpenOf(l, c, q) PROVE q \in questions
  <2>1. CASE q \in c.questions /\ ~Kept(l, <<"closed", q>>)
    <3>1. q \in questions \/ OpenOf(l, client[l], q)
      BY <1>3, <2>1 DEF OpenOf
    <3> QED
      BY <3>1, <1>4 DEF LiveOK, LiveOf
  <2>2. CASE \E j \in DOMAIN kept[l] :
         kept[l][j] = <<"asked", q>> /\ \A h \in DOMAIN kept[l] : kept[l][h] = <<"closed", q>> => h < j
    BY <2>2, <1>4 DEF LiveOK, LiveOf, OpenOf
  <2> QED
    BY <1>4, <2>1, <2>2 DEF OpenOf
<1>5. ASSUME NEW q \in questions PROVE OpenOf(l, c, q)
  <2>1. CASE ~Kept(l, <<"closed", q>>)
    BY <1>3, <2>1 DEF OpenOf
  <2>2. CASE Kept(l, <<"closed", q>>)
    <3>1. OpenOf(l, client[l], q)
      BY <2>2 DEF LiveOK, LiveOf
    <3> QED
      BY <2>2, <3>1 DEF OpenOf
  <2> QED
    BY <2>1, <2>2
<1> QED
  BY <1>1, <1>4, <1>5 DEF LiveOK, LiveOf

\* The settings of a snapshot, beside the kept updates.
LEMMA ReadsSettings ==
    ASSUME OutSane, OutType, NEW l, NEW k, NEW m, NEW c, NEW ks, Reads(l, k, m, c, ks),
           ModeOK(l), EventOK(l), SettingsOK(l)
    PROVE  /\ c.settings \in Nat /\ c.settings <= Newest /\ (l # Observer => c.settings <= m)
           /\ SettingsOf(l, c)
<1> DEFINE loaded == answers[k][2]
           mark == answers[k][1][3]
           base == Base(l, mark)
           N == loaded.page \ base.saved
           new == {n \in N : events[n].settings /\ (l = Observer => n > base.settings)}
<1>1. /\ mark \in Nat /\ mark <= m /\ m \in Nat /\ Newest \in Nat /\ m <= Newest /\ m >= 1
      /\ l = Observer => c.saved = 1 .. m
      /\ l # Observer => /\ c.saved = loaded.page /\ m \in c.saved
                         /\ \A n \in 1 .. m : n \notin c.saved => \A a \in c.saved : n < a
      /\ c.saved \subseteq 1 .. m
      /\ Snapped(l, base, loaded, c)
  BY ReadsFacts
<1>2. c.settings = Newer(l, base.settings, N) /\ c.shown = TRUE /\ c.saved = base.saved \cup loaded.page
  BY <1>1 DEF Snapped
<1>3. /\ base \in Shown /\ base.settings <= Newest
      /\ l = Observer => base = client[l]
      /\ l # Observer => base.saved = {} /\ base.settings = mark
  <2>1. mark <= Newest /\ l \in Listeners /\ mode[l] = "waiting"
    BY <1>1 DEF Reads
  <2> HIDE DEF mark
  <2> QED
    BY <1>1, <2>1, BaseFacts
<1>4. base.settings \in Nat
  BY <1>3 DEF Shown
<1> HIDE DEF loaded, base, mark
<1>5. N \in SUBSET (1 .. m) /\ N \in SUBSET (1 .. Newest)
  BY <1>1, <1>2
<1>6. \/ new = {} /\ c.settings = base.settings
      \/ c.settings \in new /\ \A n \in new : n <= c.settings
  <2> HIDE DEF N
  <2> QED
    BY <1>2, <1>4, <1>5, NewerOf
<1>7. c.settings \in Nat /\ c.settings <= Newest /\ (l # Observer => c.settings <= m)
  <2>1. c.settings = base.settings \/ c.settings \in N
    BY <1>6
  <2> HIDE DEF N
  <2>2. CASE c.settings = base.settings
    BY <2>2, <1>1, <1>3, <1>4
  <2>3. CASE c.settings \in N
    <3>1. \A x \in N : x \in Nat /\ x <= m /\ x <= Newest
      BY <1>1, <1>5
    <3> QED
      BY <2>3, <3>1
  <2> QED
    BY <2>1, <2>2, <2>3
<1>8. ASSUME l = Observer, faults = 0, NEW n \in c.saved, events[n].settings PROVE n <= c.settings
  <2>1. base.settings <= c.settings
    BY <1>4, <1>6, <1>5, <1>8
  <2>2. CASE n \in base.saved
    <3>1. n <= base.settings /\ n \in Nat
      BY <1>1, <1>3, <1>8, <2>2 DEF SettingsOK, SettingsOf
    <3> QED
      BY <1>4, <1>7, <2>1, <3>1
  <2>3. CASE n \notin base.saved
    <3>1. n \in N /\ n \in Nat
      BY <1>1, <1>2, <1>8, <2>3
    <3>2. CASE n > base.settings
      BY <1>6, <1>8, <3>1, <3>2
    <3>3. CASE n <= base.settings
      BY <1>4, <1>7, <2>1, <3>1, <3>3
    <3> QED
      BY <1>4, <3>1, <3>2, <3>3
  <2> QED
    BY <2>2, <2>3
<1>9. ASSUME l # Observer, faults = 0, NEW n \in 1 .. m, events[n].settings PROVE n <= c.settings
  <2>1. N = loaded.page /\ new = {x \in loaded.page : events[x].settings} /\ c.saved = loaded.page
    BY <1>1, <1>3, <1>9
  <2>2. n <= mark \/ n \in loaded.page
    BY <1>9 DEF Reads, ReadAt, ReadOf, loaded, mark
  <2>3. CASE n \in loaded.page
    BY <1>6, <1>9, <2>1, <2>3
  <2>4. CASE n \notin loaded.page
    <3>1. n <= base.settings
      BY <1>3, <1>9, <2>2, <2>4
    <3>2. \A a \in loaded.page : n < a
      BY <1>1, <1>9, <2>1, <2>4
    <3>3. CASE c.settings = base.settings
      BY <3>1, <3>3
    <3>4. CASE c.settings \in new
      BY <1>7, <2>1, <3>2, <3>4
    <3> QED
      BY <1>6, <3>3, <3>4
  <2> QED
    BY <2>3, <2>4
<1>10. ASSUME faults = 0, NEW n \in c.saved, events[n].settings PROVE n <= c.settings
  BY <1>1, <1>8, <1>9, <1>10
<1>11. ASSUME faults = 0, NEW n \in 1 .. Newest, events[n].settings PROVE n <= c.settings \/ Unseen(n) \/ Keeps(l, n)
  <2>1. CASE n <= m
    <3>1. n \in 1 .. m
      BY <1>1, <2>1
    <3> QED
      BY <3>1, <1>1, <1>9, <1>10, <1>11
  <2>2. CASE n > m
    <3>1. n \in m + 1 .. Newest
      BY <1>1, <2>2
    <3> QED
      BY <3>1, <1>11 DEF Reads, ReadAt, ReadOf
  <2> QED
    BY <1>1, <2>1, <2>2
<1> QED
  BY <1>7, <1>10, <1>11 DEF SettingsOf

\* The kept inputs, beside the events of a snapshot.
LEMMA ReadsKept ==
    ASSUME OutSane, OutType, NEW l, NEW k, NEW m, NEW c, NEW ks, Reads(l, k, m, c, ks),
           ModeOK(l), EventOK(l), KeptOK(l)
    PROVE  /\ KeptOf(l, c)
           /\ \A h \in DOMAIN kept[l] : kept[l][h][1] = "accepted" =>
                \A n \in 1 .. m : kept[l][h][2] \notin events[n].consumed
<1>1. c.saved \subseteq 1 .. m
  BY ReadsFacts
<1>2. \A h \in DOMAIN kept[l] : kept[l][h][1] = "accepted"
      => \A n \in 1 .. m : kept[l][h][2] \notin events[n].consumed
  BY DEF Reads, ReadAt, ReadOf
<1>3. \A h \in DOMAIN kept[l] : kept[l][h][1] = "accepted"
      => \A n \in c.saved : kept[l][h][2] \notin events[n].consumed
  BY <1>1, <1>2
<1> QED
  BY <1>2, <1>3 DEF KeptOK, KeptOf

\* after: the kept updates that the snapshot drops are in it already.
LEMMA ReadsFlush ==
    ASSUME OutSane, OutType, NEW l, NEW k, NEW m, NEW c, NEW ks, Reads(l, k, m, c, ks),
           ModeOK(l), EventOK(l), SettingsOK(l), KeptOK(l)
    PROVE  FlushOK(l, c, ks)
<1> DEFINE loaded == answers[k][2]
           base == Base(l, answers[k][1][3])
           us == kept[l]
<1>1. /\ m \in Nat /\ m >= 1 /\ loaded \in Loaded
      /\ l = Observer => c.saved = 1 .. m
      /\ l # Observer => c.saved = loaded.page /\ m \in c.saved
      /\ c.saved \subseteq 1 .. m
      /\ Snapped(l, base, loaded, c)
  BY ReadsFacts
<1>2. c.saved = base.saved \cup loaded.page /\ loaded.pending \subseteq c.pending
  BY <1>1 DEF Snapped
<1>3. ks = {h \in DOMAIN us : Adds(loaded, us[h])}
  BY DEF Reads, After
<1>4. /\ \A h \in DOMAIN us : us[h][1] = "saved" => us[h][2] \in 1 .. Newest
      /\ Newest \in Nat
  BY NewestType DEF EventOK, EventOf
<1>5. l # Observer => c.settings \in Nat /\ c.settings <= m
  BY ReadsSettings
<1> HIDE DEF loaded, base
<1>6. ASSUME NEW h \in DOMAIN us, h \notin ks
      PROVE  \/ us[h][1] = "saved" /\ us[h][2] \in c.saved
             \/ us[h][1] = "accepted" /\ us[h][2] \in c.pending
  <2>1. ~Adds(loaded, us[h])
    BY <1>3, <1>6
  <2>2. CASE us[h][1] = "saved" /\ \E n \in loaded.page : ~(n < us[h][2])
    <3>1. PICK n \in loaded.page : ~(n < us[h][2])
      BY <2>2
    <3>2. n \in 1 .. m /\ us[h][2] \in 1 .. Newest
      BY <1>1, <1>2, <1>4, <2>2
    <3>3. us[h][2] \in 1 .. m
      BY <1>1, <1>4, <3>1, <3>2
    <3>4. CASE l = Observer
      BY <1>1, <2>2, <3>3, <3>4
    <3>5. CASE l # Observer
      <4>1. us[h][2] >= m
        BY <2>2, <3>5 DEF Reads, ReadAt, ReadOf
      <4>2. us[h][2] = m
        BY <1>1, <3>3, <4>1
      <4> QED
        BY <1>1, <2>2, <3>5, <4>2
    <3> QED
      BY <3>4, <3>5
  <2>3. CASE us[h][1] = "accepted" /\ us[h][2] \in loaded.pending \cup Consumed(loaded.page)
    <3>1. us[h][2] \notin Consumed(loaded.page)
      <4>1. \A n \in 1 .. m : us[h][2] \notin events[n].consumed
        BY <2>3, ReadsKept
      <4>2. loaded.page \subseteq 1 .. m
        BY <1>1, <1>2
      <4> QED
        BY <4>1, <4>2 DEF Consumed
    <3> QED
      BY <1>2, <2>3, <3>1
  <2> QED
    BY <2>1, <2>2, <2>3 DEF Adds
<1>7. ASSUME l # Observer, NEW h \in ks, us[h][1] = "saved"
      PROVE  c.settings < us[h][2] /\ \A a \in c.saved : a < us[h][2]
  <2>1. h \in DOMAIN us /\ Adds(loaded, us[h])
    BY <1>3
  <2>2. \A a \in c.saved : a < us[h][2]
    BY <1>1, <1>7, <2>1 DEF Adds
  <2>3. m < us[h][2] /\ us[h][2] \in Nat
    BY <1>1, <1>4, <1>7, <2>1, <2>2
  <2> QED
    BY <1>1, <1>5, <1>7, <2>2, <2>3
<1> QED
  BY <1>3, <1>6, <1>7 DEF FlushOK

\* The inputs of a snapshot, beside the kept updates.
LEMMA ReadsPending ==
    ASSUME OutSane, OutType, InputInv, NEW l, NEW k, NEW m, NEW c, NEW ks, Reads(l, k, m, c, ks),
           ModeOK(l), EventOK(l), PendingOK(l)
    PROVE  PendingOf(l, c)
<1> DEFINE loaded == answers[k][2]
           mark == answers[k][1][3]
           base == Base(l, mark)
<1>1. /\ mark \in Nat /\ mark <= m /\ m \in Nat /\ Newest \in Nat /\ m <= Newest /\ m >= 1
      /\ l = Observer => c.saved = 1 .. m
      /\ l # Observer => m \in c.saved
      /\ c.saved \subseteq 1 .. m
      /\ Snapped(l, base, loaded, c)
  BY ReadsFacts
<1>2. c.saved = base.saved \cup loaded.page
      /\ c.pending = (base.pending \ Consumed(loaded.page \ base.saved)) \cup loaded.pending
  BY <1>1 DEF Snapped
<1>3. (l = Observer => base = client[l]) /\ (l # Observer => base.pending = {})
  <2>1. mark <= Newest /\ l \in Listeners /\ mode[l] = "waiting"
    BY <1>1 DEF Reads
  <2> HIDE DEF mark
  <2> QED
    BY <1>1, <2>1, BaseFacts
<1>4. /\ \A i \in pending : i \in loaded.pending \/ Answered(i) \/ Kept(l, <<"accepted", i>>)
      /\ \A i \in loaded.pending :
             i \in pending \/ Removing(i) \/ Kept(l, <<"removed", i>>)
                 \/ \E n \in m + 1 .. Newest : i \in events[n].consumed
  BY DEF Reads, ReadAt, ReadOf
<1> HIDE DEF loaded, base, mark
<1>5. ASSUME NEW n \in m + 1 .. Newest
      PROVE  n \in 1 .. Newest /\ n \notin c.saved /\ (l # Observer => \E a \in c.saved : a < n)
  <2>1. n \in 1 .. Newest /\ n \notin c.saved /\ m < n
    BY <1>1
  <2> QED
    BY <1>1, <2>1
<1>6. ASSUME NEW i \in Nat, i \in c.pending
      PROVE  \/ i \in pending \/ Removing(i) \/ Kept(l, <<"removed", i>>)
             \/ \E n \in 1 .. Newest :
                  /\ i \in events[n].consumed /\ n \notin c.saved
                  /\ l # Observer => \E a \in c.saved : a < n
  <2>1. CASE i \in loaded.pending
    BY <1>4, <1>5, <2>1
  <2>2. CASE i \in base.pending /\ i \notin Consumed(loaded.page \ base.saved)
    <3>1. l = Observer /\ base = client[l]
      BY <1>3, <2>2
    <3>2. \/ i \in pending \/ Removing(i) \/ Kept(l, <<"removed", i>>)
          \/ \E n \in 1 .. Newest : i \in events[n].consumed /\ n \notin client[l].saved
      BY <2>2, <3>1 DEF PendingOK, PendingOf
    <3>3. ASSUME NEW n \in 1 .. Newest, i \in events[n].consumed, n \notin client[l].saved PROVE n \notin c.saved
      <4>1. n \notin loaded.page \ base.saved
        BY <2>2, <3>3 DEF Consumed
      <4> QED
        BY <4>1, <3>1, <3>3, <1>2
    <3> QED
      BY <3>1, <3>2, <3>3
  <2> QED
    BY <1>2, <1>6, <2>1, <2>2
<1>7. \A i \in pending : i \in c.pending \/ Answered(i) \/ Kept(l, <<"accepted", i>>)
  BY <1>2, <1>4
<1> QED
  BY <1>6, <1>7 DEF PendingOf

\* A listener that gets its snapshot.
LEMMA ListenerReads ==
    ASSUME OutSane, OutType, InputInv, NEW l, NEW k, NEW m, NEW c, NEW ks, Reads(l, k, m, c, ks), ListenerOK(l), Idle,
           mode'[l] = "on", kept'[l] = <<>>, client'[l] = ShowAll(l, c, kept[l], ks)
    PROVE  ListenerOK(l)'
<1>1. ModeOK(l) /\ EventOK(l) /\ LiveOK(l) /\ SettingsOK(l) /\ KeptOK(l) /\ PendingOK(l) /\ l \in Listeners
  BY DEF ListenerOK, Reads
<1>2. EventOf(l, c) /\ (l # Observer => \A n \in c.saved : ~Unseen(n))
  BY <1>1, ReadsEvent
<1>3. LiveOf(l, c) /\ KeptOf(l, c) /\ PendingOf(l, c) /\ FlushOK(l, c, ks)
  BY <1>1, ReadsLive, ReadsKept, ReadsPending, ReadsFlush
<1>4. SettingsOf(l, c) /\ c.settings <= Newest
  BY <1>1, ReadsSettings
<1>5. /\ m \in Nat /\ m <= Newest /\ Newest \in Nat
      /\ Snapped(l, Base(l, answers[k][1][3]), answers[k][2], c)
      /\ l # Observer => m \in c.saved
      /\ c.saved \subseteq 1 .. m
  BY <1>1, ReadsFacts
<1>6. c \in Shown /\ c.shown = TRUE
  BY <1>5 DEF Snapped
<1>7. c.saved \subseteq 1 .. Newest
  BY <1>5
<1>8. ASSUME l # Observer, NEW h \in DOMAIN kept[l], kept[l][h][1] = "accepted",
             NEW n \in 1 .. Newest, kept[l][h][2] \in events[n].consumed
      PROVE  \E a \in c.saved : a < n
  <2>1. ~(n \in 1 .. m)
    BY <1>1, <1>8, ReadsKept
  <2>2. m < n
    BY <1>5, <2>1
  <2> QED
    BY <1>5, <1>8, <2>2
<1>9. Shows2(l, c, ks)
  BY <1>2, <1>3, <1>4, <1>5, <1>6, <1>7, <1>8 DEF Shows2
<1> QED
  BY <1>1, <1>2, <1>3, <1>4, <1>9, ListenerFlushes
-----------------------------------------------------------------------------
(***************************************************************************)
(* The page of a gap, and a load.                                          *)
(***************************************************************************)

\* Transcript::insert: a page in a gap keeps each part of a view right.
LEMMA ListenerPages ==
    ASSUME OutType, InputInv, LastUnseen, NEW v \in Listeners, v # Observer, ListenerOK(v), Idle,
           mode[v] = "on", mode'[v] = mode[v], kept'[v] = kept[v], NEW page \in SUBSET Nat,
           \A n \in page : \E a, b \in client[v].saved : a < n /\ n < b,
           client'[v] = [client[v] EXCEPT !.saved = client[v].saved \cup page,
                                          !.pending = client[v].pending \ Consumed(page \ client[v].saved)]
    PROVE  ListenerOK(v)'
<1> DEFINE c == client[v]
           r == client'[v]
           gap == Consumed(page \ c.saved)
<1>1. c \in Shown
  BY KeptType
<1>2. c.saved \in SUBSET Nat /\ c.pending \in SUBSET Nat
  BY <1>1 DEF Shown
<1>3. /\ r.saved = c.saved \cup page /\ r.pending = c.pending \ gap
      /\ r.questions = c.questions /\ r.running = c.running /\ r.settings = c.settings
      /\ r.shown = c.shown /\ r.repeated = c.repeated
  <2> HIDE DEF c, gap
  <2>1. LET x == [c EXCEPT !.saved = c.saved \cup page, !.pending = c.pending \ gap]
        IN /\ x.saved = c.saved \cup page /\ x.pending = c.pending \ gap
           /\ x.questions = c.questions /\ x.running = c.running /\ x.settings = c.settings
           /\ x.shown = c.shown /\ x.repeated = c.repeated
    BY <1>1 DEF Shown
  <2>2. r = [c EXCEPT !.saved = c.saved \cup page, !.pending = c.pending \ gap]
    BY DEF c, gap
  <2> HIDE DEF r
  <2> QED
    BY <2>1, <2>2
<1>4. /\ Newest' = Newest /\ Newest \in Nat /\ UNCHANGED <<events, pending, faults, running, questions>>
      /\ \A n \in 1 .. Newest : Unseen(n)' <=> Unseen(n)
      /\ \A i : (Removing(i)' <=> Removing(i)) /\ (Answered(i)' <=> Answered(i))
  BY IdleStep, NewestType DEF Idle
<1>5. kept[v] = <<>> /\ DOMAIN kept[v] = {} /\ kept'[v] = <<>> /\ DOMAIN kept'[v] = {}
  BY DEF ListenerOK, ModeOK
<1>6. c.saved \subseteq 1 .. Newest /\ c.settings <= Newest /\ c.shown /\ c.saved # {}
  BY DEF ListenerOK, ModeOK
<1>7. ASSUME NEW n \in page PROVE n \in 1 .. Newest /\ n # Newest /\ n # 0 /\ ~Unseen(n) /\ \E a \in c.saved : a < n
  <2>1. PICK a \in c.saved, b \in c.saved : a < n /\ n < b
    OBVIOUS
  <2>2. a \in 1 .. Newest /\ b \in 1 .. Newest
    BY <1>6
  <2>3. n \in 1 .. Newest /\ n # Newest /\ n # 0
    BY <1>4, <2>1, <2>2
  <2> QED
    BY <2>1, <2>3 DEF LastUnseen
<1>8. \A n : ~Keeps(v, n) /\ ~Keeps(v, n)'
  BY <1>5 DEF Keeps
<1>9. \A x : ~Kept(v, x) /\ ~Kept(v, x)'
  BY <1>5 DEF Kept
<1> HIDE DEF c, r, gap
<1>10. ModeOK(v)'
  <2>1. r.saved \subseteq 1 .. Newest /\ r.saved # {}
    BY <1>3, <1>6, <1>7
  <2> QED
    BY <2>1, <1>3, <1>4, <1>5, <1>6 DEF ModeOK, r
<1>11. EventOK(v)'
  <2>1. \A n \in c.saved : ~Unseen(n)
    BY DEF ListenerOK, EventOK, c
  <2>2. \A n \in r.saved : ~Unseen(n)'
    BY <2>1, <1>3, <1>4, <1>6, <1>7
  <2>3. ASSUME faults = 0, NEW a \in r.saved, NEW n \in a .. Newest PROVE n \in r.saved \/ Unseen(n)'
    <3>1. PICK b \in c.saved : b <= a
      BY <1>2, <1>3, <1>7, <2>3
    <3>2. a \in 1 .. Newest /\ b \in 1 .. Newest
      BY <1>3, <1>6, <1>7
    <3>3. n \in b .. Newest /\ n \in 1 .. Newest
      BY <1>4, <2>3, <3>1, <3>2
    <3>4. n \in c.saved \/ Unseen(n)
      BY <3>3, <2>3, <1>6, <1>8 DEF ListenerOK, EventOK, EventOf, c
    <3> QED
      BY <3>3, <3>4, <1>3, <1>4
  <2>4. ~c.repeated
    BY DEF ListenerOK, EventOK, EventOf, c
  <2> QED
    BY <2>2, <2>3, <2>4, <1>3, <1>4, <1>5 DEF EventOK, EventOf, r
<1>12. LiveOK(v)'
  <2>1. LiveOf(v, c)
    BY DEF ListenerOK, LiveOK, c
  <2> QED
    BY <2>1, <1>3, <1>4, <1>5 DEF LiveOK, LiveOf, OpenOf, Kept, StateKept, r
<1>13. SettingsOK(v)'
  <2>1. SettingsOf(v, c)
    BY DEF ListenerOK, SettingsOK, c
  <2> QED
    BY <2>1, <1>3, <1>4, <1>6, <1>7, <1>8 DEF SettingsOK, SettingsOf, r
<1>14. KeptOK(v)'
  BY <1>5 DEF KeptOK, KeptOf
<1>15. PendingOK(v)'
  <2>1. PendingOf(v, c)
    BY DEF ListenerOK, PendingOK, c
  <2>2. ASSUME NEW i \in Nat, i \in pending PROVE i \in r.pending \/ Answered(i)
    <3>1. i \in c.pending \/ Answered(i)
      BY <2>1, <2>2, <1>6, <1>9 DEF PendingOf
    <3>2. i \notin gap
      BY <2>2, <1>7 DEF gap, Consumed, InputInv, Gone, Consumes
    <3> QED
      BY <3>1, <3>2, <1>3
  <2>3. ASSUME NEW i \in Nat, i \in r.pending
        PROVE  \/ i \in pending \/ Removing(i)
               \/ \E n \in 1 .. Newest : i \in events[n].consumed /\ n \notin r.saved /\ \E a \in r.saved : a < n
    <3>1. i \in c.pending /\ i \notin gap
      BY <2>3, <1>3
    <3>2. \/ i \in pending \/ Removing(i)
          \/ \E n \in 1 .. Newest : i \in events[n].consumed /\ n \notin c.saved /\ \E a \in c.saved : a < n
      BY <3>1, <2>1, <1>9 DEF PendingOf
    <3>3. \A n : i \in events[n].consumed /\ n \notin c.saved => n \notin page
      BY <3>1 DEF gap, Consumed
    <3> QED
      BY <3>2, <3>3, <1>3
  <2> QED
    BY <2>2, <2>3, <1>3, <1>4 DEF PendingOK, PendingOf, r
<1> QED
  BY <1>10, <1>11, <1>12, <1>13, <1>14, <1>15 DEF ListenerOK

\* A load that starts from the events up to `last`.
LEMMA ListenerLoads ==
    ASSUME OutType, ListenerOK(Observer), Idle, mode[Observer] = "on", mode'[Observer] = "waiting",
           kept'[Observer] = kept[Observer], NEW last \in 0 .. Newest, NEW set,
           1 .. last \subseteq client[Observer].saved,
           set = LET known == {n \in 1 .. last : events[n].settings} IN IF known = {} THEN 0 ELSE Max(known),
           client'[Observer] = Empty(last, set)
    PROVE  ListenerOK(Observer)'
<1> DEFINE known == {n \in 1 .. last : events[n].settings}
<1>1. LET r == client'[Observer]
      IN /\ r.saved = 1 .. last /\ r.pending = {} /\ r.questions = {} /\ r.settings = set
         /\ r.shown = FALSE /\ r.repeated = FALSE
  BY DEF Empty
<1>2. kept'[Observer] = <<>> /\ DOMAIN kept'[Observer] = {}
  BY DEF ListenerOK, ModeOK
<1>3. Newest' = Newest /\ Newest \in Nat /\ events' = events
  BY IdleStep, NewestType DEF Idle
<1>4. set \in 0 .. last /\ \A n \in 1 .. last : events[n].settings => n <= set
  <2>1. CASE known = {}
    BY <2>1, <1>3
  <2>2. CASE known # {}
    <3>1. known \in SUBSET (0 .. last) /\ last \in Nat
      BY <1>3
    <3>2. set = Max(known)
      BY <2>2
    <3> HIDE DEF known
    <3>3. Max(known) \in known /\ \A n \in known : n <= Max(known)
      BY <2>2, <3>1, GreatestOf
    <3> QED
      BY <3>1, <3>2, <3>3 DEF known
  <2> QED
    BY <2>1, <2>2
<1>5. ModeOK(Observer)'
  <2>1. client'[Observer].saved \subseteq 1 .. Newest' /\ client'[Observer].settings <= Newest'
    <3>1. 1 .. last \subseteq 1 .. Newest /\ set <= Newest
      BY <1>3, <1>4
    <3> QED
      BY <1>1, <1>3, <3>1
  <2> QED
    BY <2>1, <1>2 DEF ModeOK
<1>6. EventOK(Observer)'
  BY <1>1, <1>2 DEF EventOK, EventOf
<1>7. LiveOK(Observer)'
  <2>1. client'[Observer].shown = FALSE /\ client'[Observer].questions = {} /\ kept'[Observer] = <<>>
    BY <1>1, <1>2
  <2> QED
    BY <2>1, LiveOff
<1>8. SettingsOK(Observer)'
  BY <1>1, <1>3, <1>4 DEF SettingsOK, SettingsOf
<1>9. KeptOK(Observer)'
  BY <1>2 DEF KeptOK, KeptOf
<1>10. PendingOK(Observer)'
  BY <1>1 DEF PendingOK, PendingOf
<1> QED
  BY <1>5, <1>6, <1>7, <1>8, <1>9, <1>10 DEF ListenerOK
-----------------------------------------------------------------------------
(***************************************************************************)
(* The store serves an operation.                                          *)
(***************************************************************************)

\* The operation at the head of the queue, and its answer `r`.
Writing(op, e, r) ==
    /\ op[1] \in Writes /\ e \in Records /\ Save(e)
    /\ e.consumed \subseteq pending /\ pending' = pending \ e.consumed
    /\ e.consumed = (IF op[1] = "commit" THEN op[2] ELSE {})
    /\ e.settings => op[1] = "settings"
    /\ \/ r = Newest + 1 /\ faults' = faults
       \/ r = 0 /\ faults' = faults + 1
Serves(op, r) ==
    /\ queue # <<>> /\ op = Head(queue) /\ op \in Ops /\ r \in Results /\ Served(op, r)
    /\ UNCHANGED <<settings, running, taken, gone, questions, mode, kept, client, accepted>>
    /\ \/ /\ op[1] = "accept" /\ r = TRUE /\ pending' = pending \cup {op[2]}
          /\ UNCHANGED <<events, faults>>
       \/ /\ op[1] = "remove" /\ r = (op[2] \in pending) /\ pending' = pending \ {op[2]}
          /\ UNCHANGED <<events, faults>>
       \/ \E e : Writing(op, e, r)
       \/ /\ op[1] \in Writes /\ r = 0 /\ faults' \in {faults, faults + 1}
          /\ UNCHANGED <<events, pending>>
       \/ /\ op[1] = "read" /\ r = [page |-> From(op[2], op[3], Newest) .. Newest, pending |-> pending]
          /\ UNCHANGED <<events, pending, faults>>
       \/ /\ op[1] = "take" /\ r = pending
          /\ UNCHANGED <<events, pending, faults>>
       \/ /\ op[1] = "page" /\ r = op[3]
          /\ UNCHANGED <<events, pending, faults>>

\* Each way in which the store serves the head of the queue.
LEMMA ServeCases ==
    ASSUME OutSane, OutType, Serve
    PROVE  \E op, r : Serves(op, r)
<1> DEFINE op == Head(queue)
<1>1. queue # <<>> /\ op \in Ops
  BY DEF Serve, OutType
<1>2. /\ op[1] \in {"accept", "remove", "commit", "settings", "take", "recover", "read", "page"}
      /\ op[1] \in {"accept", "remove"} => op[2] \in Nat
      /\ op[1] = "commit" => op[2] \in SUBSET Nat
      /\ op[1] = "settings" => op[2] = {}
      /\ op[1] = "read" => op[2] \in Listeners /\ op[3] \in Nat
      /\ op[1] = "page" => op[2] \in Views /\ op[3] \in SUBSET Nat
  BY <1>1, OpParts
<1>3. UNCHANGED <<settings, running, taken, gone, questions, mode, kept, client, accepted>>
  BY DEF Serve, sentVars, listenVars
<1>4. Newest \in Nat /\ pending \subseteq Nat
  BY NewestType DEF OutType
<1>5. \/ ServeAccept(op) \/ ServeRemove(op) \/ ServeWrite(op) \/ WriteFails(op)
      \/ ServeRecover(op) \/ ServeRead(op) \/ ServeTake(op) \/ ServePage(op)
  BY DEF Serve
<1> HIDE DEF op
<1>15. /\ TRUE \in Results /\ (op[2] \in pending) \in Results /\ 0 \in Results /\ Newest + 1 \in Results
       /\ pending \in Results /\ (op[1] = "page" => op[3] \in Results)
  <2>1. TRUE \in BOOLEAN /\ (op[2] \in pending) \in BOOLEAN /\ 0 \in Nat /\ Newest + 1 \in Nat
        /\ pending \in SUBSET Nat /\ (op[1] = "page" => op[3] \in SUBSET Nat)
    BY <1>2, <1>4
  <2> QED
    BY <2>1 DEF Results
<1>6. op = Head(queue)
  BY DEF op
<1>7. CASE ServeAccept(op)
  <2>1. Serves(op, TRUE)
    BY <1>1, <1>3, <1>6, <1>7, <1>15 DEF Serves, ServeAccept
  <2> QED
    BY <2>1
<1>8. CASE ServeRemove(op)
  <2>1. Serves(op, op[2] \in pending)
    BY <1>1, <1>3, <1>6, <1>8, <1>15 DEF Serves, ServeRemove
  <2> QED
    BY <2>1
<1>9. CASE ServeWrite(op)
  <2>1. CASE op[2] \subseteq pending
    <3> DEFINE e == Event(op[1], op[2])
    <3>1. Writing(op, e, Newest + 1) /\ Served(op, Newest + 1)
      BY <1>2, <1>4, <1>9, <2>1 DEF ServeWrite, Writing, Writes, Event, Records
    <3> HIDE DEF e
    <3> DEFINE n == Newest + 1
    <3> HIDE DEF n
    <3>2. Writing(op, e, n) /\ Served(op, n) /\ n \in Results
      BY <3>1, <1>15 DEF n
    <3>3. Serves(op, n)
      BY <1>1, <1>3, <1>6, <3>2 DEF Serves
    <3> QED
      BY <3>3
  <2>2. CASE ~(op[2] \subseteq pending)
    <3>1. Serves(op, 0)
      BY <1>1, <1>3, <1>6, <1>9, <1>15, <2>2 DEF Serves, ServeWrite, Writes
    <3> QED
      BY <3>1
  <2> QED
    BY <2>1, <2>2
<1>10. CASE WriteFails(op)
  <2>1. CASE Save(Event(op[1], op[2])) /\ pending' = pending \ op[2]
    <3> DEFINE e == Event(op[1], op[2])
    <3>1. Writing(op, e, 0) /\ Served(op, 0)
      BY <1>2, <1>4, <1>10, <2>1 DEF WriteFails, Writing, Writes, Event, Records
    <3> HIDE DEF e
    <3>2. Serves(op, 0)
      BY <1>1, <1>3, <1>6, <1>15, <3>1 DEF Serves
    <3> QED
      BY <3>2
  <2>2. CASE UNCHANGED <<events, pending>>
    <3>1. Serves(op, 0)
      BY <1>1, <1>3, <1>6, <1>10, <1>15, <2>2 DEF Serves, WriteFails, Writes
    <3> QED
      BY <3>1
  <2> QED
    BY <1>10, <2>1, <2>2 DEF WriteFails
<1>11. CASE ServeRecover(op)
  <2>1. CASE Save(Event("commit", {})) /\ Served(op, Newest + 1)
    <3> DEFINE e == Event("commit", {})
    <3>1. Writing(op, e, Newest + 1) /\ Served(op, Newest + 1)
      BY <1>2, <1>4, <1>11, <2>1 DEF ServeRecover, Writing, Writes, Event, Records
    <3> HIDE DEF e
    <3> DEFINE n == Newest + 1
    <3> HIDE DEF n
    <3>2. Writing(op, e, n) /\ Served(op, n) /\ n \in Results
      BY <3>1, <1>15 DEF n
    <3>3. Serves(op, n)
      BY <1>1, <1>3, <1>6, <3>2 DEF Serves
    <3> QED
      BY <3>3
  <2>2. CASE Served(op, 0) /\ UNCHANGED events
    <3>1. Serves(op, 0)
      BY <1>1, <1>3, <1>6, <1>11, <1>15, <2>2 DEF Serves, ServeRecover, Writes
    <3> QED
      BY <3>1
  <2> QED
    BY <1>11, <2>1, <2>2 DEF ServeRecover
<1>12. CASE ServeRead(op)
  <2> DEFINE r == [page |-> From(op[2], op[3], Newest) .. Newest, pending |-> pending]
  <2>1. Served(op, r) /\ op[1] = "read" /\ UNCHANGED <<events, pending, faults>>
    BY <1>12 DEF ServeRead, From
  <2>2. r \in Loaded
    <3>1. From(op[2], op[3], Newest) \in Nat
      <4>1. PageSize \in Nat
        BY DEF OutSane
      <4> QED
        BY <4>1, <1>2, <1>4, <2>1 DEF From
    <3>2. From(op[2], op[3], Newest) .. Newest \subseteq Nat
      BY <3>1, <1>4
    <3> QED
      BY <3>2, <1>4 DEF Loaded
  <2>4. r = [page |-> From(op[2], op[3], Newest) .. Newest, pending |-> pending]
    OBVIOUS
  <2> HIDE DEF r
  <2>3. Serves(op, r)
    <3>1. r \in Results
      BY <2>2 DEF Results
    <3> QED
      BY <1>1, <1>3, <1>6, <2>1, <2>4, <3>1 DEF Serves
  <2> QED
    BY <2>3
<1>13. CASE ServeTake(op)
  <2>1. Serves(op, pending)
    BY <1>1, <1>3, <1>4, <1>6, <1>13, <1>15 DEF Serves, ServeTake
  <2> QED
    BY <2>1
<1>14. CASE ServePage(op)
  <2>1. Serves(op, op[3])
    BY <1>1, <1>2, <1>3, <1>6, <1>14, <1>15 DEF Serves, ServePage
  <2> QED
    BY <2>1
<1> QED
  BY <1>5, <1>7, <1>8, <1>9, <1>10, <1>11, <1>12, <1>13, <1>14

\* What a served operation says of the store.
LEMMA ServesData ==
    ASSUME OutSane, OutType, NEW op, NEW r, Serves(op, r)
    PROVE  /\ op \in Ops /\ r \in Results /\ queue # <<>> /\ Served(Head(queue), r) /\ op = Head(queue)
           /\ UNCHANGED <<settings, running, taken, gone, questions, mode, kept, client, accepted>>
           /\ events' \in Seq(Records) /\ Newest' \in Newest .. Newest + 1 /\ Newest \in Nat /\ Newest >= 1
           /\ \A n \in 1 .. Newest : events'[n] = events[n]
           /\ pending' \subseteq Nat /\ faults' \in Nat
           /\ Newest' = Newest + 1 => \E e : Writing(op, e, r) /\ events'[Newest + 1] = e
           /\ Newest' = Newest => UNCHANGED events
           /\ faults' = 0 => faults = 0
           /\ op[1] \notin Writes => UNCHANGED <<events, faults>>
<1>1. op \in Ops /\ r \in Results /\ queue # <<>> /\ Served(Head(queue), r) /\ op = Head(queue)
      /\ UNCHANGED <<settings, running, taken, gone, questions, mode, kept, client, accepted>>
  BY DEF Serves
<1>2. /\ events \in Seq(Records) /\ Newest \in Nat /\ Newest >= 1 /\ pending \subseteq Nat /\ faults \in Nat
  BY NewestType DEF OutType
<1>3. op[1] \in {"accept", "remove"} => op[2] \in Nat
  BY <1>1, OpParts
<1>4. CASE \E e : Writing(op, e, r)
  <2>1. PICK e : Writing(op, e, r)
    BY <1>4
  <2>2. /\ events' \in Seq(Records) /\ Newest' = Newest + 1 /\ events'[Newest + 1] = e
        /\ \A n \in 1 .. Newest : events'[n] = events[n]
    BY <2>1, SaveFacts DEF Writing
  <2>3. pending' \subseteq Nat /\ op[1] \in Writes /\ (faults' = faults \/ faults' = faults + 1)
    BY <1>2, <2>1 DEF Writing
  <2>4. faults' \in Nat /\ (faults' = 0 => faults = 0)
    BY <1>2, <2>3
  <2> QED
    BY <1>1, <1>2, <2>1, <2>2, <2>3, <2>4
<1>5. CASE ~\E e : Writing(op, e, r)
  <2>1. UNCHANGED events
    BY <1>5 DEF Serves
  <2>2. Newest' = Newest
    BY <2>1 DEF Newest
  <2>3. pending' \subseteq Nat
    <3>1. CASE op[1] = "accept"
      <4>1. pending' = pending \cup {op[2]}
        BY <1>5, <3>1 DEF Serves, Writes
      <4> QED
        BY <1>2, <1>3, <3>1, <4>1
    <3>2. CASE op[1] # "accept"
      <4>1. pending' \subseteq pending
        BY <1>5, <3>2 DEF Serves, Writes
      <4> QED
        BY <1>2, <4>1
    <3> QED
      BY <3>1, <3>2
  <2>5. faults' = faults \/ (faults' = faults + 1 /\ op[1] \in Writes)
    BY <1>5 DEF Serves
  <2>4. faults' \in Nat /\ (faults' = 0 => faults = 0) /\ (op[1] \notin Writes => faults' = faults)
    BY <1>2, <2>5
  <2> QED
    BY <1>1, <1>2, <2>1, <2>2, <2>3, <2>4
<1> QED
  BY <1>4, <1>5

\* A writer in the queue is the only one in flight.
LEMMA WriterAlone ==
    ASSUME OutType, Alone, NEW j \in DOMAIN queue, queue[j][1] \in Writers
    PROVE  /\ \A k \in DOMAIN answers : answers[k][1][1] \notin Writers
           /\ \A h \in DOMAIN queue : h # j => queue[h][1] \notin Writers
           /\ \A n : ~Unseen(n)
<1>1. \A k \in DOMAIN answers : answers[k][1][1] \notin Writers
  BY DEF Alone, Same
<1>2. \A h \in DOMAIN queue : h # j => queue[h][1] \notin Writers
  BY DEF Alone, Same
<1>3. \A n : ~Unseen(n)
  BY <1>1 DEF Unseen, Writers
<1> QED
  BY <1>1, <1>2, <1>3

\* The store keeps the types.
LEMMA ServesType ==
    ASSUME OutSane, OutType, NEW op, NEW r, Serves(op, r)
    PROVE  OutType'
<1>1. /\ op \in Ops /\ r \in Results /\ queue # <<>> /\ Served(Head(queue), r) /\ op = Head(queue)
      /\ UNCHANGED <<settings, running, taken, gone, questions, mode, kept, client, accepted>>
      /\ events' \in Seq(Records) /\ Newest' \in Newest .. Newest + 1 /\ Newest \in Nat /\ Newest >= 1
      /\ pending' \subseteq Nat /\ faults' \in Nat
  BY ServesData
<1>2. /\ queue' \in Seq(Ops) /\ answers' \in Seq(Ops \X Results)
      /\ DOMAIN answers' = DOMAIN answers \cup {Len(answers) + 1}
      /\ \A k \in DOMAIN answers : answers'[k] = answers[k]
      /\ answers'[Len(answers) + 1] = <<op, r>>
  BY <1>1, ServedFacts
<1>3. /\ op[1] = "accept" => r = TRUE
      /\ op[1] = "remove" => r \in BOOLEAN
      /\ op[1] \in Writes => r \in 0 .. Newest'
      /\ op[1] = "take" => r \in SUBSET Nat
      /\ op[1] = "read" => r \in Loaded
      /\ op[1] = "page" => r = op[3]
  <2>1. op[1] \in Writes => r \in 0 .. Newest'
    <3>1. CASE \E e : Writing(op, e, r)
      <4>1. PICK e : Writing(op, e, r)
        BY <3>1
      <4>2. Newest' = Newest + 1 /\ (r = Newest + 1 \/ r = 0)
        BY <4>1, SaveFacts DEF Writing
      <4> QED
        BY <1>1, <4>2
    <3>2. CASE ~\E e : Writing(op, e, r)
      <4>1. op[1] \in Writes => r = 0
        BY <3>2 DEF Serves, Writes
      <4> QED
        BY <1>1, <4>1
    <3> QED
      BY <3>1, <3>2
  <2>2. op[1] = "read" => r \in Loaded
    <3> SUFFICES ASSUME op[1] = "read" PROVE r \in Loaded
      OBVIOUS
    <3>1. r = [page |-> From(op[2], op[3], Newest) .. Newest, pending |-> pending]
      BY DEF Serves, Writing, Writes
    <3>2. From(op[2], op[3], Newest) \in Nat
      <4>1. PageSize \in Nat /\ op[3] \in Nat
        BY <1>1, OpParts DEF OutSane
      <4> QED
        BY <4>1, <1>1 DEF From
    <3>3. From(op[2], op[3], Newest) .. Newest \subseteq Nat
      BY <3>2, <1>1
    <3> QED
      BY <3>1, <3>3 DEF Loaded, OutType
  <2>3. /\ op[1] = "accept" => r = TRUE
        /\ op[1] = "remove" => r \in BOOLEAN
        /\ op[1] = "take" => r = pending
        /\ op[1] = "page" => r = op[3]
    <3>1. op[1] = "accept" => r = TRUE
      BY DEF Serves, Writing, Writes
    <3>2. op[1] = "remove" => r \in BOOLEAN
      <4>1. op[1] = "remove" => r = (op[2] \in pending)
        BY DEF Serves, Writing, Writes
      <4> QED
        BY <4>1
    <3>3. op[1] = "take" => r = pending
      BY DEF Serves, Writing, Writes
    <3>4. op[1] = "page" => r = op[3]
      BY DEF Serves, Writing, Writes
    <3> QED
      BY <3>1, <3>2, <3>3, <3>4
  <2> QED
    BY <2>1, <2>2, <2>3 DEF OutType
<1>4. ASSUME NEW k \in DOMAIN answers' PROVE ResultOK(answers[k][1], answers[k][2])'
  <2>1. CASE k \in DOMAIN answers
    <3>1. ResultOK(answers[k][1], answers[k][2]) /\ answers'[k] = answers[k]
      BY <1>2, <2>1 DEF OutType
    <3>2. 0 .. Newest \subseteq 0 .. Newest'
      BY <1>1
    <3> QED
      BY <3>1, <3>2 DEF ResultOK
  <2>2. CASE k = Len(answers) + 1
    <3>1. answers'[k][1] = op /\ answers'[k][2] = r
      BY <1>2, <2>2
    <3> QED
      BY <3>1, <1>3 DEF ResultOK
  <2> QED
    BY <1>2, <2>1, <2>2
<1>5. settings' \in 0 .. Newest' /\ Newest' >= 1
  BY <1>1 DEF OutType
<1> QED
  BY <1>1, <1>2, <1>4, <1>5 DEF OutType

\* No other writer is in flight when the store serves one.
LEMMA ServesHead ==
    ASSUME OutSane, OutType, Alone, NEW op, NEW r, Serves(op, r)
    PROVE  /\ 1 \in DOMAIN queue /\ queue[1] = op
           /\ op[1] \in Writers =>
                /\ \A k \in DOMAIN answers : answers[k][1][1] \notin Writers
                /\ \A h \in DOMAIN queue : h # 1 => queue[h][1] \notin Writers
                /\ \A n : ~Unseen(n)
           /\ op[1] = "accept" => ~InQueue(op[2])'
           /\ op[1] = "accept" => InQueue(op[2])
<1>1. op = Head(queue) /\ queue # <<>> /\ r \in Results /\ Served(Head(queue), r)
  BY ServesData
<1>2. /\ 1 \in DOMAIN queue /\ queue[1] = op
      /\ \A j \in DOMAIN queue' : j + 1 \in DOMAIN queue /\ queue'[j] = queue[j + 1] /\ j \in Nat \ {0}
  BY <1>1, ServedFacts
<1>3. op[1] = "accept" => ~InQueue(op[2])'
  <2> SUFFICES ASSUME op[1] = "accept", NEW j \in DOMAIN queue', queue'[j][1] = "accept", queue'[j][2] = op[2]
               PROVE  FALSE
    BY DEF InQueue
  <2>1. j + 1 \in DOMAIN queue /\ j + 1 # 1 /\ Same(queue[j + 1], queue[1])
    BY <1>2 DEF Same
  <2> QED
    BY <2>1, <1>2 DEF Alone
<1>4. op[1] = "accept" => InQueue(op[2])
  BY <1>2 DEF InQueue
<1>5. op[1] \in Writers =>
                /\ \A k \in DOMAIN answers : answers[k][1][1] \notin Writers
                /\ \A h \in DOMAIN queue : h # 1 => queue[h][1] \notin Writers
                /\ \A n : ~Unseen(n)
  BY <1>2, WriterAlone
<1> QED
  BY <1>2, <1>3, <1>4, <1>5

\* The store changes what the listeners know only in its ways.
LEMMA ServesStore ==
    ASSUME OutSane, OutType, Alone, NEW op, NEW r, Serves(op, r)
    PROVE  StoreStep
<1>1. /\ op \in Ops /\ r \in Results /\ queue # <<>> /\ Served(Head(queue), r) /\ op = Head(queue)
      /\ UNCHANGED gone
      /\ Newest' \in Newest .. Newest + 1 /\ Newest \in Nat /\ Newest >= 1
      /\ \A n \in 1 .. Newest : events'[n] = events[n]
      /\ Newest' = Newest + 1 => \E e : Writing(op, e, r) /\ events'[Newest + 1] = e
      /\ Newest' = Newest => UNCHANGED events
      /\ faults' = 0 => faults = 0
  BY ServesData
<1> DEFINE a == <<op, r>>
<1>2. /\ \A n : Unseen(n)' <=> Unseen(n) \/ Tells(a, n)
      /\ \A i : Removing(i)' <=> Removing(i) \/ Removes(a, i)
      /\ \A i : Answered(i)' <=> Answered(i) \/ Accepts(a, i)
  BY <1>1, ServedSays
<1>3. a[1] = op /\ a[2] = r
  OBVIOUS
<1> HIDE DEF a
<1>4. ASSUME NEW n \in 1 .. Newest PROVE Unseen(n)' <=> Unseen(n)
  <2>1. ~Tells(a, n)
    <3> SUFFICES ASSUME op[1] \in Writes, r = n PROVE FALSE
      BY <1>3 DEF Tells
    <3>1. n \in Nat /\ n # 0 /\ n # Newest + 1
      BY <1>1
    <3> QED
      BY <3>1 DEF Serves, Writing, Writes
  <2> QED
    BY <1>2, <2>1
<1>5. ASSUME faults' = 0, NEW n \in Newest + 1 .. Newest' PROVE Unseen(n)'
  <2>1. Newest' = Newest + 1 /\ n = Newest + 1
    BY <1>1, <1>5
  <2>2. PICK e : Writing(op, e, r)
    BY <1>1, <2>1
  <2>3. r = Newest + 1 /\ op[1] \in Writes
    BY <1>5, <2>2 DEF Writing, OutType
  <2> QED
    BY <1>2, <1>3, <2>1, <2>3 DEF Tells
<1>6. ASSUME NEW i, i \in pending' PROVE i \in pending \/ Answered(i)'
  <2>1. i \in pending \/ (op[1] = "accept" /\ op[2] = i)
    BY <1>6 DEF Serves, Writing
  <2> QED
    BY <1>2, <1>3, <2>1 DEF Accepts
<1>7. ASSUME NEW i, i \in pending
      PROVE  i \in pending' \/ Removing(i)' \/ \E n \in Newest + 1 .. Newest' : i \in events'[n].consumed
  <2>1. CASE \E e : Writing(op, e, r)
    <3>1. PICK e : Writing(op, e, r)
      BY <2>1
    <3>2. Newest' = Newest + 1 /\ events'[Newest + 1] = e
      BY <3>1, SaveFacts DEF Writing
    <3>3. i \in pending' \/ i \in e.consumed
      BY <1>7, <3>1 DEF Writing
    <3> QED
      BY <1>1, <3>2, <3>3
  <2>2. CASE ~\E e : Writing(op, e, r)
    <3>1. i \in pending' \/ (op[1] = "remove" /\ op[2] = i /\ r = TRUE)
      BY <1>7, <2>2 DEF Serves
    <3> QED
      BY <1>2, <1>3, <3>1 DEF Removes
  <2> QED
    BY <2>1, <2>2
<1>8. \A i : Consumes(i) => Consumes(i)'
  <2>1. 1 .. Newest \subseteq 1 .. Newest'
    BY <1>1
  <2> QED
    BY <1>1, <2>1 DEF Consumes
<1> QED
  BY <1>1, <1>2, <1>4, <1>5, <1>6, <1>7, <1>8 DEF StoreStep

\* The newest event is the only one that an answer can still tell.
LEMMA ServesLast ==
    ASSUME OutSane, OutType, Alone, LastUnseen, HostOK, NEW op, NEW r, Serves(op, r)
    PROVE  LastUnseen' /\ HostOK'
<1>1. /\ op \in Ops /\ r \in Results /\ queue # <<>> /\ Served(Head(queue), r) /\ op = Head(queue)
      /\ UNCHANGED settings
      /\ Newest' \in Newest .. Newest + 1 /\ Newest \in Nat /\ Newest >= 1
      /\ \A n \in 1 .. Newest : events'[n] = events[n]
      /\ Newest' = Newest + 1 => \E e : Writing(op, e, r) /\ events'[Newest + 1] = e
      /\ op[1] \notin Writes => UNCHANGED events
  BY ServesData
<1> DEFINE a == <<op, r>>
<1>2. \A n : Unseen(n)' <=> Unseen(n) \/ Tells(a, n)
  BY <1>1, ServedSays
<1>3. a[1] = op /\ a[2] = r
  OBVIOUS
<1> HIDE DEF a
<1>4. op[1] \in Writes => /\ \A n : ~Unseen(n)
                          /\ \A k \in DOMAIN answers : answers[k][1][1] \notin Writers
  BY ServesHead DEF Writers
<1>5. op[1] \in Writes => r = 0 \/ (r = Newest' /\ r = Newest + 1 /\ \E e : Writing(op, e, r) /\ events'[r] = e)
  <2>1. CASE \E e : Writing(op, e, r)
    <3>1. PICK e : Writing(op, e, r)
      BY <2>1
    <3>2. Newest' = Newest + 1 /\ events'[Newest + 1] = e
      BY <3>1, SaveFacts DEF Writing
    <3> QED
      BY <3>1, <3>2 DEF Writing
  <2>2. CASE ~\E e : Writing(op, e, r)
    BY <2>2 DEF Serves, Writes
  <2> QED
    BY <2>1, <2>2
<1>6. ASSUME NEW n \in Nat, Unseen(n)' PROVE n = 0 \/ n = Newest'
  <2>1. CASE op[1] \in Writes
    <3>1. n = r
      BY <1>2, <1>3, <1>4, <1>6, <2>1 DEF Tells
    <3> QED
      BY <3>1, <1>5, <2>1
  <2>2. CASE op[1] \notin Writes
    <3>1. Unseen(n)
      BY <1>2, <1>3, <1>6, <2>2 DEF Tells
    <3>2. Newest' = Newest
      BY <1>1, <2>2 DEF Newest
    <3> QED
      BY <3>1, <3>2 DEF LastUnseen
  <2> QED
    BY <2>1, <2>2
<1>7. ASSUME NEW k \in DOMAIN answers', answers'[k][1][1] \in {"commit", "recover"}, answers'[k][2] # 0
      PROVE  ~events'[answers'[k][2]].settings
  <2>1. /\ DOMAIN answers' = DOMAIN answers \cup {Len(answers) + 1}
        /\ \A h \in DOMAIN answers : answers'[h] = answers[h]
        /\ answers'[Len(answers) + 1] = a
    BY <1>1, ServedFacts DEF a
  <2>2. CASE k \in DOMAIN answers
    <3>1. answers[k][1][1] \in {"commit", "recover"} /\ answers[k][2] # 0 /\ answers'[k] = answers[k]
      BY <1>7, <2>1, <2>2
    <3>2. op[1] \notin Writes
      BY <1>4, <2>2, <3>1 DEF Writers, Writes
    <3> QED
      BY <1>1, <2>2, <3>1, <3>2 DEF LastUnseen
  <2>3. CASE k = Len(answers) + 1
    <3>1. op[1] \in {"commit", "recover"} /\ r # 0 /\ answers'[k][2] = r
      BY <1>3, <1>7, <2>1, <2>3
    <3> QED
      BY <1>5, <3>1 DEF Writing, Writes
  <2> QED
    BY <2>1, <2>2, <2>3
<1>8. HostOK'
  <2> SUFFICES ASSUME faults' = 0, NEW n \in 1 .. Newest', events'[n].settings
               PROVE  n <= settings' \/ Unseen(n)'
    BY DEF HostOK
  <2>1. StoreStep
    BY ServesStore
  <2>2. CASE n <= Newest
    <3>1. n \in 1 .. Newest
      BY <1>1, <2>2
    <3>2. n <= settings \/ Unseen(n)
      BY <3>1, <1>1, <2>1 DEF HostOK, StoreStep
    <3> QED
      BY <3>2, <1>1, <1>2
  <2>3. CASE n > Newest
    <3>1. n \in Newest + 1 .. Newest'
      BY <1>1, <2>3
    <3> QED
      BY <3>1, <2>1 DEF StoreStep
  <2> QED
    BY <1>1, <2>2, <2>3
<1> QED
  BY <1>6, <1>7, <1>8 DEF LastUnseen

\* The inputs, after an operation of the store.
LEMMA ServesInput ==
    ASSUME OutSane, OutType, Alone, InputInv, NEW op, NEW r, Serves(op, r)
    PROVE  InputInv'
<1>1. /\ op \in Ops /\ r \in Results /\ queue # <<>> /\ Served(Head(queue), r) /\ op = Head(queue)
      /\ UNCHANGED <<taken, gone, accepted>>
  BY ServesData
<1> DEFINE a == <<op, r>>
<1>2. /\ \A i : Removing(i)' <=> Removing(i) \/ Removes(a, i)
      /\ \A i : Answered(i)' <=> Answered(i) \/ Accepts(a, i)
      /\ \A i : Taken(i)' <=> Taken(i) \/ Takes(a, i)
      /\ \A i : InQueue(i) <=> InQueue(i)' \/ Accepts(a, i)
      /\ \A i : InCommit(i) <=> InCommit(i)' \/ Commits(a, i)
  BY <1>1, ServedSays
<1>3. a[1] = op /\ a[2] = r
  OBVIOUS
<1> HIDE DEF a
<1>4. /\ op[1] = "accept" => ~InQueue(op[2])'
      /\ op[1] = "accept" => InQueue(op[2])
  BY ServesHead
<1>5. /\ \A i : Removing(i)' <=> Removing(i) \/ (op[1] = "remove" /\ op[2] = i /\ r)
      /\ \A i : Answered(i)' <=> Answered(i) \/ (op[1] = "accept" /\ op[2] = i)
      /\ \A i : Taken(i)' <=> Taken(i) \/ (op[1] = "take" /\ i \in r)
      /\ \A i : InQueue(i) <=> InQueue(i)' \/ (op[1] = "accept" /\ op[2] = i)
      /\ \A i : InCommit(i) <=> InCommit(i)' \/ (op[1] = "commit" /\ i \in op[2])
  BY <1>2, <1>3 DEF Removes, Accepts, Takes, Commits
<1>6. \A i : Carried(i)' => Carried(i)
  BY <1>1, <1>5 DEF Carried
<1>20. ASSUME UNCHANGED <<events, pending>>, op[1] \notin {"accept", "remove", "take"} PROVE InputInv'
  <2>1. \A i : Consumes(i)' <=> Consumes(i)
    BY <1>20, EventsStay
  <2>2. \A i : Gone(i)' <=> Gone(i)
    BY <1>1, <1>5, <1>20, <2>1 DEF Gone
  <2> QED
    BY <1>1, <1>5, <1>6, <1>20, <2>1, <2>2 DEF InputInv
<1>7. CASE op[1] = "accept"
  <2>1. pending' = pending \cup {op[2]} /\ UNCHANGED events
    BY <1>7 DEF Serves, Writing, Writes
  <2>2. \A i : Consumes(i)' <=> Consumes(i)
    BY <2>1, EventsStay
  <2>3. \A i : Gone(i)' <=> Gone(i)
    BY <1>1, <1>5, <1>7, <2>2 DEF Gone
  <2>4. op[2] \in Nat
    BY <1>1, <1>7, OpParts
  <2>5. op[2] <= accepted /\ op[2] # 0 /\ ~Answered(op[2]) /\ ~Gone(op[2]) /\ ~Carried(op[2])
    BY <1>4, <1>7, <2>4 DEF InputInv
  <2>6. ~Consumes(op[2])
    BY <2>5 DEF Gone
  <2>7. ASSUME NEW i \in Nat
        PROVE  /\ i \in pending' => i <= accepted /\ i # 0 /\ ~InQueue(i)' /\ ~Gone(i)'
               /\ InQueue(i)' => i <= accepted /\ i # 0 /\ ~Answered(i)' /\ ~Gone(i)' /\ ~Carried(i)' /\ ~Taken(i)'
               /\ Answered(i)' \/ Gone(i)' \/ Carried(i)' \/ Taken(i)' => i <= accepted /\ i # 0
               /\ Answered(i)' => ~Carried(i)' /\ ~Consumes(i)'
               /\ i # 0 /\ i <= accepted => InQueue(i)' \/ i \in pending' \/ Gone(i)'
    <3>1. CASE i = op[2]
      BY <3>1, <1>4, <1>5, <1>6, <1>7, <2>1, <2>2, <2>3, <2>5, <2>6
    <3>2. CASE i # op[2]
      <4>1. /\ (i \in pending' <=> i \in pending) /\ (InQueue(i)' <=> InQueue(i)) /\ (Answered(i)' <=> Answered(i))
            /\ (Taken(i)' <=> Taken(i)) /\ (Carried(i)' => Carried(i)) /\ (Gone(i)' <=> Gone(i))
            /\ (Consumes(i)' <=> Consumes(i))
        BY <3>2, <1>5, <1>6, <1>7, <2>1, <2>2, <2>3
      <4> QED
        BY <4>1 DEF InputInv
    <3> QED
      BY <3>1, <3>2
  <2> QED
    BY <2>7, <1>1 DEF InputInv
<1>8. CASE op[1] = "remove"
  <2>1. pending' = pending \ {op[2]} /\ r = (op[2] \in pending) /\ UNCHANGED events
    BY <1>8 DEF Serves, Writing, Writes
  <2>2. \A i : Consumes(i)' <=> Consumes(i)
    BY <2>1, EventsStay
  <2>3. \A i : Gone(i)' <=> Gone(i) \/ (op[2] = i /\ i \in pending)
    BY <1>1, <1>5, <1>8, <2>1, <2>2 DEF Gone
  <2>4. \A i : (InQueue(i)' <=> InQueue(i)) /\ (Answered(i)' <=> Answered(i)) /\ (Taken(i)' <=> Taken(i))
    BY <1>5, <1>8
  <2>7. ASSUME NEW i \in Nat
        PROVE  /\ i \in pending' => i <= accepted /\ i # 0 /\ ~InQueue(i)' /\ ~Gone(i)'
               /\ InQueue(i)' => i <= accepted /\ i # 0 /\ ~Answered(i)' /\ ~Gone(i)' /\ ~Carried(i)' /\ ~Taken(i)'
               /\ Answered(i)' \/ Gone(i)' \/ Carried(i)' \/ Taken(i)' => i <= accepted /\ i # 0
               /\ Answered(i)' => ~Carried(i)' /\ ~Consumes(i)'
               /\ i # 0 /\ i <= accepted => InQueue(i)' \/ i \in pending' \/ Gone(i)'
    <3>1. /\ (i \in pending' <=> i \in pending /\ i # op[2]) /\ (Carried(i)' => Carried(i))
          /\ (Gone(i)' <=> Gone(i) \/ (op[2] = i /\ i \in pending))
      BY <1>6, <2>1, <2>3
    <3> QED
      BY <3>1, <2>2, <2>4 DEF InputInv
  <2> QED
    BY <2>7, <1>1 DEF InputInv
<1>9. CASE op[1] = "take"
  <2>1. r = pending /\ UNCHANGED <<events, pending>>
    BY <1>9 DEF Serves, Writing, Writes
  <2>2. \A i : Consumes(i)' <=> Consumes(i)
    BY <2>1, EventsStay
  <2>3. \A i : Gone(i)' <=> Gone(i)
    BY <1>1, <1>5, <1>9, <2>2 DEF Gone
  <2>4. \A i : (InQueue(i)' <=> InQueue(i)) /\ (Answered(i)' <=> Answered(i))
        /\ (Taken(i)' <=> Taken(i) \/ i \in pending)
    BY <1>5, <1>9, <2>1
  <2>7. ASSUME NEW i \in Nat
        PROVE  /\ i \in pending' => i <= accepted /\ i # 0 /\ ~InQueue(i)' /\ ~Gone(i)'
               /\ InQueue(i)' => i <= accepted /\ i # 0 /\ ~Answered(i)' /\ ~Gone(i)' /\ ~Carried(i)' /\ ~Taken(i)'
               /\ Answered(i)' \/ Gone(i)' \/ Carried(i)' \/ Taken(i)' => i <= accepted /\ i # 0
               /\ Answered(i)' => ~Carried(i)' /\ ~Consumes(i)'
               /\ i # 0 /\ i <= accepted => InQueue(i)' \/ i \in pending' \/ Gone(i)'
    <3>1. (i \in pending' <=> i \in pending) /\ (Carried(i)' => Carried(i)) /\ (Gone(i)' <=> Gone(i))
      BY <1>6, <2>1, <2>3
    <3> QED
      BY <3>1, <2>2, <2>4 DEF InputInv
  <2> QED
    BY <2>7, <1>1 DEF InputInv
<1>10. CASE \E e : Writing(op, e, r)
  <2>1. PICK e : Writing(op, e, r)
    BY <1>10
  <2>2. /\ op[1] \in Writes /\ e.consumed \subseteq pending /\ pending' = pending \ e.consumed
        /\ \A i : i \in e.consumed => op[1] = "commit" /\ i \in op[2]
    BY <2>1 DEF Writing
  <2>3. \A i : Consumes(i)' <=> Consumes(i) \/ i \in e.consumed
    BY <2>1, SaveFacts DEF Writing
  <2>4. \A i : (InQueue(i)' <=> InQueue(i)) /\ (Answered(i)' <=> Answered(i)) /\ (Taken(i)' <=> Taken(i))
               /\ (Removing(i)' <=> Removing(i))
    BY <1>5, <2>2 DEF Writes
  <2>5. \A i : Gone(i)' <=> Gone(i) \/ i \in e.consumed
    BY <1>1, <2>3, <2>4 DEF Gone
  <2>7. ASSUME NEW i \in Nat
        PROVE  /\ i \in pending' => i <= accepted /\ i # 0 /\ ~InQueue(i)' /\ ~Gone(i)'
               /\ InQueue(i)' => i <= accepted /\ i # 0 /\ ~Answered(i)' /\ ~Gone(i)' /\ ~Carried(i)' /\ ~Taken(i)'
               /\ Answered(i)' \/ Gone(i)' \/ Carried(i)' \/ Taken(i)' => i <= accepted /\ i # 0
               /\ Answered(i)' => ~Carried(i)' /\ ~Consumes(i)'
               /\ i # 0 /\ i <= accepted => InQueue(i)' \/ i \in pending' \/ Gone(i)'
    <3>1. (i \in pending' <=> i \in pending /\ i \notin e.consumed) /\ (i \in e.consumed => i \in pending)
      BY <2>2
    <3>2. i \in e.consumed => Carried(i)
      BY <2>2, <1>5 DEF Carried
    <3>3. Carried(i)' => Carried(i)
      BY <1>6
    <3> QED
      BY <3>1, <3>2, <3>3, <2>3, <2>4, <2>5 DEF InputInv
  <2> QED
    BY <2>7, <1>1 DEF InputInv
<1>11. CASE ~(\E e : Writing(op, e, r)) /\ op[1] \notin {"accept", "remove", "take"}
  <2>1. UNCHANGED <<events, pending>>
    BY <1>11 DEF Serves
  <2> QED
    BY <2>1, <1>11, <1>20
<1> QED
  BY <1>7, <1>8, <1>9, <1>10, <1>11

\* A take is answered before the inputs that it does not hold.
LEMMA ServesTake ==
    ASSUME OutSane, OutType, Alone, InputInv, TakeInv, NEW op, NEW r, Serves(op, r)
    PROVE  TakeInv'
<1>1. /\ op \in Ops /\ r \in Results /\ queue # <<>> /\ Served(Head(queue), r) /\ op = Head(queue)
  BY ServesData
<1> DEFINE m == Len(answers) + 1
<1>2. /\ DOMAIN answers' = DOMAIN answers \cup {m}
      /\ \A k \in DOMAIN answers : answers'[k] = answers[k] /\ k < m
      /\ answers'[m] = <<op, r>>
  BY <1>1, ServedFacts
<1> HIDE DEF m
<1>3. answers'[m][1] = op /\ answers'[m][2] = r
  BY <1>2
<1> SUFFICES ASSUME NEW j \in DOMAIN answers', NEW k \in DOMAIN answers', answers'[j][1][1] = "accept",
                    answers'[k][1][1] = "take", answers'[j][1][2] \in answers'[k][2]
             PROVE  j < k
  BY DEF TakeInv
<1>4. CASE k = m
  BY <1>2, <1>4
<1>5. CASE k # m /\ j # m
  BY <1>2, <1>5 DEF TakeInv
<1>6. CASE k # m /\ j = m
  <2>1. op[1] = "accept" /\ k \in DOMAIN answers /\ answers[k][1][1] = "take" /\ op[2] \in answers[k][2]
    BY <1>2, <1>3, <1>6
  <2>2. Taken(op[2]) /\ InQueue(op[2]) /\ op[2] \in Nat
    BY <2>1, <1>1, ServesHead, OpParts DEF Taken
  <2> QED
    BY <2>2 DEF InputInv
<1> QED
  BY <1>4, <1>5, <1>6

\* The reads and the pages in flight fit the modes after the store served one.
LEMMA ServesFlights ==
    ASSUME OutSane, OutType, Flights, NEW op, NEW r, Serves(op, r)
    PROVE  Flights'
<1>1. /\ op \in Ops /\ r \in Results /\ queue # <<>> /\ Served(Head(queue), r) /\ op = Head(queue)
      /\ UNCHANGED <<mode, client>>
  BY ServesData
<1>2. /\ 1 \in DOMAIN queue /\ Head(queue) = queue[1]
      /\ \A j \in DOMAIN queue' : j + 1 \in DOMAIN queue /\ queue'[j] = queue[j + 1]
      /\ DOMAIN answers' = DOMAIN answers \cup {Len(answers) + 1}
      /\ \A k \in DOMAIN answers : answers'[k] = answers[k]
      /\ answers'[Len(answers) + 1] = <<op, r>>
  BY <1>1, ServedFacts
<1>3. answers'[Len(answers) + 1][1] = queue[1]
  BY <1>1, <1>2
<1>4. ASSUME NEW o, FlightOK(o) PROVE (o[1] = "read" => mode'[o[2]] # "on")
        /\ (o[1] = "page" => /\ mode'[o[2]] # "waiting"
                             /\ mode'[o[2]] = "on" => \A n \in o[3] : \E x, y \in client'[o[2]].saved : x < n /\ n < y)
  BY <1>1, <1>4 DEF FlightOK
<1>5. \A j \in DOMAIN queue' : FlightOK(queue[j])'
  BY <1>2, <1>4 DEF Flights, FlightOK
<1>6. \A k \in DOMAIN answers' : FlightOK(answers[k][1])'
  <2> TAKE k \in DOMAIN answers'
  <2>1. PICK o : o = answers'[k][1] /\ FlightOK(o)
    BY <1>2, <1>3 DEF Flights
  <2> QED
    BY <2>1, <1>4 DEF FlightOK
<1> QED
  BY <1>5, <1>6 DEF Flights

\* The listeners stay right when the store serves an operation.
LEMMA ServesListeners ==
    ASSUME OutSane, OutType, Alone, ListenersOK, NEW op, NEW r, Serves(op, r)
    PROVE  ListenersOK'
<1>1. StoreStep /\ UNCHANGED <<running, questions, mode, kept, client>>
  BY ServesStore, ServesData
<1>2. ASSUME NEW l \in Listeners PROVE ListenerOK(l)'
  <2>1. StaysAt(l) /\ ListenerOK(l)
    BY <1>1 DEF StaysAt, ListenersOK
  <2> QED
    BY <2>1, <1>1, ListenerStays
<1>3. Listeners' = Listeners
  BY DEF Listeners
<1> QED
  BY <1>2, <1>3 DEF ListenersOK
-----------------------------------------------------------------------------
(***************************************************************************)
(* The reads, after an operation of the store.                             *)
(***************************************************************************)
LEMMA ServesEvents ==
    ASSUME OutSane, OutType, NEW op, NEW r, Serves(op, r)
    PROVE  /\ Newest \in Nat /\ Newest >= 1 /\ (Newest' = Newest \/ Newest' = Newest + 1)
           /\ \A n \in 1 .. Newest : events'[n] = events[n]
           /\ op[1] \notin Writes => Newest' = Newest /\ UNCHANGED <<events, faults>>
           /\ \A i : Consumes(i)' => Consumes(i) \/ (op[1] = "commit" /\ i \in op[2])
           /\ faults' = 0 => faults = 0
<1>1. /\ Newest' \in Newest .. Newest + 1 /\ Newest \in Nat /\ Newest >= 1
      /\ \A n \in 1 .. Newest : events'[n] = events[n]
      /\ Newest' = Newest + 1 => \E e : Writing(op, e, r) /\ events'[Newest + 1] = e
      /\ Newest' = Newest => UNCHANGED events
      /\ faults' = 0 => faults = 0
      /\ op[1] \notin Writes => UNCHANGED <<events, faults>>
  BY ServesData
<1>2. Newest' = Newest \/ Newest' = Newest + 1
  BY <1>1
<1>3. op[1] \notin Writes => Newest' = Newest
  BY <1>1 DEF Newest
<1>4. ASSUME NEW i, Consumes(i)' PROVE Consumes(i) \/ (op[1] = "commit" /\ i \in op[2])
  <2>1. CASE Newest' = Newest
    <3>1. UNCHANGED events
      BY <1>1, <2>1
    <3> QED
      BY <3>1, <1>4, EventsStay
  <2>2. CASE Newest' = Newest + 1
    <3>1. PICK e : Writing(op, e, r)
      BY <1>1, <2>2
    <3>2. Consumes(i) \/ i \in e.consumed
      BY <3>1, <1>4, SaveFacts DEF Writing
    <3> QED
      BY <3>1, <3>2 DEF Writing
  <2> QED
    BY <1>2, <2>1, <2>2
<1> QED
  BY <1>1, <1>2, <1>3, <1>4

\* A read that waits in the queue moves up.
LEMMA ServesUnread ==
    ASSUME OutSane, OutType, Alone, NEW op, NEW r, Serves(op, r), NEW j \in DOMAIN queue',
           queue'[j][1] = "read", Unread(j + 1)
    PROVE  Unread(j)'
<1>1. /\ op \in Ops /\ r \in Results /\ queue # <<>> /\ Served(Head(queue), r) /\ op = Head(queue)
      /\ UNCHANGED <<mode, kept, client>>
  BY ServesData
<1>2. /\ 1 \in DOMAIN queue /\ queue[1] = op
      /\ \A h \in DOMAIN queue' : h + 1 \in DOMAIN queue /\ queue'[h] = queue[h + 1]
      /\ DOMAIN queue' = 1 .. Len(queue) - 1 /\ DOMAIN queue = 1 .. Len(queue) /\ Len(queue) \in Nat
  <2>1. /\ 1 \in DOMAIN queue /\ Head(queue) = queue[1]
        /\ \A h \in DOMAIN queue' : h + 1 \in DOMAIN queue /\ queue'[h] = queue[h + 1]
        /\ queue' \in Seq(Ops) /\ Len(queue') = Len(queue) - 1
    BY <1>1, ServedFacts
  <2>2. DOMAIN queue' = 1 .. Len(queue')
    BY <2>1
  <2> QED
    BY <2>1, <2>2, <1>1, FlightType
<1>3. /\ Newest \in Nat /\ Newest >= 1 /\ (Newest' = Newest \/ Newest' = Newest + 1)
      /\ \A n \in 1 .. Newest : events'[n] = events[n]
      /\ op[1] \notin Writes => Newest' = Newest /\ UNCHANGED <<events, faults>>
      /\ \A i : Consumes(i)' => Consumes(i) \/ (op[1] = "commit" /\ i \in op[2])
      /\ faults' = 0 => faults = 0
  BY ServesEvents
<1>4. PICK l, mark : l = queue'[j][2] /\ mark = queue'[j][3]
  OBVIOUS
<1>5. queue[j + 1][2] = l /\ queue[j + 1][3] = mark /\ j \in Nat /\ j >= 1 /\ queue[j + 1] \in Ops
      /\ queue[j + 1][1] = "read" /\ mark \in Nat /\ (j + 1) - 1 = j
  <2>1. queue[j + 1][2] = l /\ queue[j + 1][3] = mark /\ j \in Nat /\ j >= 1 /\ queue[j + 1] \in Ops
        /\ queue[j + 1][1] = "read" /\ (j + 1) - 1 = j
    BY <1>2, <1>4, FlightType
  <2> QED
    BY <2>1, OpParts
<1>6. /\ mark <= Newest
      /\ l = Observer => 1 .. mark \subseteq client[l].saved
      /\ \A k \in DOMAIN kept[l] : kept[l][k][1] = "accepted" =>
           /\ ~Consumes(kept[l][k][2])
           /\ \A h \in 1 .. j : queue[h][1] = "commit" => kept[l][k][2] \notin queue[h][2]
      /\ l # Observer => \A k \in DOMAIN kept[l] : kept[l][k][1] = "saved" =>
           kept[l][k][2] = Newest /\ \A h \in 1 .. j : queue[h][1] \notin Writers
      /\ l # Observer /\ faults = 0 =>
           \/ \A n \in 1 .. Newest : events[n].settings => n <= mark
           \/ /\ \A h \in 1 .. j : queue[h][1] \notin Writers
              /\ \A n \in 1 .. Newest : events[n].settings => n <= mark \/ n = Newest
  BY <1>5 DEF Unread
<1>7. \A h \in 1 .. j - 1 : h + 1 \in 1 .. j /\ queue'[h] = queue[h + 1] /\ h + 1 \in DOMAIN queue /\ h + 1 # 1
  BY <1>2, <1>5
<1>8. 1 \in 1 .. j
  BY <1>5
<1>9. mark <= Newest'
  BY <1>3, <1>5, <1>6
<1>10. ASSUME NEW k \in DOMAIN kept[l], kept[l][k][1] = "accepted"
       PROVE  /\ ~Consumes(kept[l][k][2])'
              /\ \A h \in 1 .. j - 1 : queue'[h][1] = "commit" => kept[l][k][2] \notin queue'[h][2]
  <2>1. PICK i : i = kept[l][k][2]
    OBVIOUS
  <2>2. ~Consumes(i) /\ \A h \in 1 .. j : queue[h][1] = "commit" => i \notin queue[h][2]
    BY <1>6, <1>10, <2>1
  <2>3. ~Consumes(i)'
    BY <2>2, <1>2, <1>3, <1>8
  <2>4. kept'[l][k][2] = i
    BY <1>1, <2>1
  <2>5. \A h \in 1 .. j - 1 : queue'[h][1] = "commit" => i \notin queue'[h][2]
    BY <2>2, <1>7
  <2> QED
    BY <2>1, <2>3, <2>4, <2>5
<1>11. ASSUME l # Observer, NEW k \in DOMAIN kept[l], kept[l][k][1] = "saved"
       PROVE  kept[l][k][2] = Newest' /\ \A h \in 1 .. j - 1 : queue'[h][1] \notin Writers
  <2>1. kept[l][k][2] = Newest /\ \A h \in 1 .. j : queue[h][1] \notin Writers
    BY <1>6, <1>11
  <2>2. op[1] \notin Writes
    BY <2>1, <1>2, <1>8 DEF Writers
  <2> QED
    BY <2>1, <2>2, <1>3, <1>7
<1>12. ASSUME l # Observer, faults' = 0
       PROVE  \/ \A n \in 1 .. Newest' : events'[n].settings => n <= mark
              \/ /\ \A h \in 1 .. j - 1 : queue'[h][1] \notin Writers
                 /\ \A n \in 1 .. Newest' : events'[n].settings => n <= mark \/ n = Newest'
  <2>1. CASE op[1] \in Writes
    <3>1. \A h \in DOMAIN queue : h # 1 => queue[h][1] \notin Writers
      BY <1>2, <2>1, ServesHead DEF Writers
    <3>2. \A h \in 1 .. j - 1 : queue'[h][1] \notin Writers
      BY <3>1, <1>7
    <3>3. \A n \in 1 .. Newest : events[n].settings => n <= mark
      BY <1>2, <1>3, <1>6, <1>8, <1>12, <2>1 DEF Writers
    <3>4. ASSUME NEW n \in 1 .. Newest', events'[n].settings PROVE n <= mark \/ n = Newest'
      <4>1. CASE n \in 1 .. Newest
        BY <4>1, <3>3, <3>4, <1>3
      <4>2. CASE n \notin 1 .. Newest
        BY <4>2, <1>3
      <4> QED
        BY <4>1, <4>2
    <3> QED
      BY <3>2, <3>4
  <2>2. CASE op[1] \notin Writes
    <3>1. Newest' = Newest /\ UNCHANGED <<events, faults>>
      BY <2>2, <1>3
    <3>2. (\A h \in 1 .. j : queue[h][1] \notin Writers) => \A h \in 1 .. j - 1 : queue'[h][1] \notin Writers
      BY <1>7
    <3> QED
      BY <3>1, <3>2, <1>6, <1>12
  <2> QED
    BY <2>1, <2>2
<1>13. l = Observer => 1 .. mark \subseteq client'[l].saved
  BY <1>1, <1>6
<1>14. /\ mark <= Newest'
       /\ l = Observer => 1 .. mark \subseteq client'[l].saved
       /\ \A k \in DOMAIN kept'[l] : kept'[l][k][1] = "accepted" =>
            /\ ~Consumes(kept[l][k][2])'
            /\ \A h \in 1 .. j - 1 : queue'[h][1] = "commit" => kept'[l][k][2] \notin queue'[h][2]
       /\ l # Observer => \A k \in DOMAIN kept'[l] : kept'[l][k][1] = "saved" =>
            kept'[l][k][2] = Newest' /\ \A h \in 1 .. j - 1 : queue'[h][1] \notin Writers
       /\ l # Observer /\ faults' = 0 =>
            \/ \A n \in 1 .. Newest' : events'[n].settings => n <= mark
            \/ /\ \A h \in 1 .. j - 1 : queue'[h][1] \notin Writers
               /\ \A n \in 1 .. Newest' : events'[n].settings => n <= mark \/ n = Newest'
  BY <1>1, <1>9, <1>10, <1>11, <1>12, <1>13
<1> QED
  BY <1>4, <1>14 DEF Unread

\* A read that the store answered stays beside a later operation.
LEMMA ServesReadAt ==
    ASSUME OutSane, OutType, Alone, NEW op, NEW r, Serves(op, r), NEW k \in DOMAIN answers, NEW m \in 1 .. Newest,
           ReadAt(k, m), answers[k][1][1] = "read"
    PROVE  ReadAt(k, m)'
<1>1. /\ op \in Ops /\ r \in Results /\ queue # <<>> /\ Served(Head(queue), r) /\ op = Head(queue)
      /\ UNCHANGED <<mode, kept, client>>
  BY ServesData
<1> DEFINE z == Len(answers) + 1
<1>2. /\ DOMAIN answers' = DOMAIN answers \cup {z}
      /\ \A j \in DOMAIN answers : answers'[j] = answers[j] /\ j < z
      /\ answers'[z] = <<op, r>>
  BY <1>1, ServedFacts
<1>3. z \in Nat /\ DOMAIN answers \subseteq Nat
  BY FlightType
<1> HIDE DEF z
<1>4. /\ Newest \in Nat /\ Newest >= 1 /\ (Newest' = Newest \/ Newest' = Newest + 1)
      /\ \A n \in 1 .. Newest : events'[n] = events[n]
      /\ faults' = 0 => faults = 0
  BY ServesEvents
<1>5. StoreStep
  BY ServesStore
<1>6. PICK l, mark, loaded : l = answers[k][1][2] /\ mark = answers[k][1][3] /\ loaded = answers[k][2]
  OBVIOUS
<1>7. answers'[k][1][2] = l /\ answers'[k][1][3] = mark /\ answers'[k][2] = loaded
  BY <1>2, <1>6
<1>8. /\ mark <= m
      /\ loaded.page = From(l, mark, m) .. m
      /\ l = Observer => 1 .. mark \subseteq client[l].saved /\ client[l].saved \subseteq 1 .. m
      /\ faults = 0 => \A n \in m + 1 .. Newest : Unseen(n) \/ Keeps(l, n)
      /\ l # Observer =>
           /\ \A j \in DOMAIN answers : answers[j][1][1] \in Writes /\ answers[j][2] # 0 =>
                (j < k => answers[j][2] <= m) /\ (j > k => answers[j][2] > m)
           /\ \A h \in DOMAIN kept[l] : kept[l][h][1] = "saved" => kept[l][h][2] >= m
           /\ faults = 0 => \A n \in 1 .. m : events[n].settings => n <= mark \/ n \in loaded.page
      /\ \A i \in pending : i \in loaded.pending \/ Answered(i) \/ Kept(l, <<"accepted", i>>)
      /\ \A i \in loaded.pending :
           i \in pending \/ Removing(i) \/ Kept(l, <<"removed", i>>)
               \/ \E n \in m + 1 .. Newest : i \in events[n].consumed
      /\ \A h \in DOMAIN kept[l] : kept[l][h][1] = "accepted" =>
           \A n \in 1 .. m : kept[l][h][2] \notin events[n].consumed
  BY <1>6 DEF ReadAt, ReadOf
<1>9. kept'[l] = kept[l] /\ client'[l] = client[l]
  BY <1>1
<1>10. (\A x : Kept(l, x)' <=> Kept(l, x)) /\ (\A n : Keeps(l, n)' <=> Keeps(l, n))
  BY <1>9, KeptStays
<1>11. m \in Nat /\ m >= 1 /\ m <= Newest /\ Newest \in Nat
  BY <1>4
<1>12. ASSUME faults' = 0, NEW n \in m + 1 .. Newest' PROVE Unseen(n)' \/ Keeps(l, n)'
  <2>1. CASE n \in m + 1 .. Newest
    <3>1. n \in 1 .. Newest /\ (Unseen(n) \/ Keeps(l, n))
      BY <2>1, <1>4, <1>8, <1>11, <1>12
    <3> QED
      BY <3>1, <1>5, <1>10 DEF StoreStep
  <2>2. CASE n \notin m + 1 .. Newest
    <3>1. n \in Newest + 1 .. Newest'
      BY <2>2, <1>4, <1>11
    <3> QED
      BY <3>1, <1>5, <1>12 DEF StoreStep
  <2> QED
    BY <2>1, <2>2
<1>13. ASSUME l # Observer, NEW j \in DOMAIN answers', answers'[j][1][1] \in Writes, answers'[j][2] # 0
       PROVE  (j < k => answers'[j][2] <= m) /\ (j > k => answers'[j][2] > m)
  <2>1. CASE j \in DOMAIN answers
    BY <2>1, <1>2, <1>8, <1>13
  <2>2. CASE j = z
    <3>1. op[1] \in Writes /\ r # 0
      BY <2>2, <1>2, <1>13
    <3>2. r = Newest + 1
      BY <3>1 DEF Serves, Writing, Writes
    <3>3. answers'[j][2] > m
      BY <3>2, <2>2, <1>2, <1>11
    <3>4. ~(j < k)
      BY <2>2, <1>2, <1>3
    <3> QED
      BY <3>3, <3>4
  <2> QED
    BY <2>1, <2>2, <1>2
<1>14. ASSUME faults' = 0, l # Observer, NEW n \in 1 .. m, events'[n].settings PROVE n <= mark \/ n \in loaded.page
  <2>1. n \in 1 .. Newest
    BY <1>11
  <2> QED
    BY <2>1, <1>4, <1>8, <1>14
<1>15. ASSUME NEW i \in pending' PROVE i \in loaded.pending \/ Answered(i)' \/ Kept(l, <<"accepted", i>>)'
  <2>1. i \in pending \/ Answered(i)'
    BY <1>5 DEF StoreStep
  <2>2. Answered(i) => Answered(i)'
    BY <1>5 DEF StoreStep
  <2> QED
    BY <2>1, <2>2, <1>8, <1>10
<1>16. ASSUME NEW i \in loaded.pending
       PROVE  i \in pending' \/ Removing(i)' \/ Kept(l, <<"removed", i>>)'
              \/ \E n \in m + 1 .. Newest' : i \in events'[n].consumed
  <2>1. CASE i \in pending
    <3>1. i \in pending' \/ Removing(i)' \/ \E n \in Newest + 1 .. Newest' : i \in events'[n].consumed
      BY <2>1, <1>5 DEF StoreStep
    <3>2. \A n \in Newest + 1 .. Newest' : n \in m + 1 .. Newest'
      BY <1>4, <1>11
    <3> QED
      BY <3>1, <3>2
  <2>2. CASE \E n \in m + 1 .. Newest : i \in events[n].consumed
    <3>1. PICK n \in m + 1 .. Newest : i \in events[n].consumed
      BY <2>2
    <3>2. n \in m + 1 .. Newest' /\ n \in 1 .. Newest
      BY <1>4, <1>11
    <3> QED
      BY <3>1, <3>2, <1>4
  <2>3. Removing(i) => Removing(i)'
    BY <1>5 DEF StoreStep
  <2> QED
    BY <2>1, <2>2, <2>3, <1>8, <1>10
<1>17. \A h \in DOMAIN kept[l] : kept[l][h][1] = "accepted" =>
           \A n \in 1 .. m : kept[l][h][2] \notin events'[n].consumed
  <2>1. \A n \in 1 .. m : n \in 1 .. Newest
    BY <1>11
  <2> QED
    BY <2>1, <1>4, <1>8
<1>18. /\ mark <= m
       /\ loaded.page = From(l, mark, m) .. m
       /\ l = Observer => 1 .. mark \subseteq client'[l].saved /\ client'[l].saved \subseteq 1 .. m
       /\ faults' = 0 => \A n \in m + 1 .. Newest' : Unseen(n)' \/ Keeps(l, n)'
       /\ l # Observer =>
            /\ \A j \in DOMAIN answers' : answers'[j][1][1] \in Writes /\ answers'[j][2] # 0 =>
                 (j < k => answers'[j][2] <= m) /\ (j > k => answers'[j][2] > m)
            /\ \A h \in DOMAIN kept'[l] : kept'[l][h][1] = "saved" => kept'[l][h][2] >= m
            /\ faults' = 0 => \A n \in 1 .. m : events'[n].settings => n <= mark \/ n \in loaded.page
       /\ \A i \in pending' : i \in loaded.pending \/ Answered(i)' \/ Kept(l, <<"accepted", i>>)'
       /\ \A i \in loaded.pending :
            i \in pending' \/ Removing(i)' \/ Kept(l, <<"removed", i>>)'
                \/ \E n \in m + 1 .. Newest' : i \in events'[n].consumed
       /\ \A h \in DOMAIN kept'[l] : kept'[l][h][1] = "accepted" =>
            \A n \in 1 .. m : kept'[l][h][2] \notin events'[n].consumed
  BY <1>8, <1>9, <1>12, <1>13, <1>14, <1>15, <1>16, <1>17
<1>19. From(l, mark, m)' = From(l, mark, m)
  BY DEF From
<1>20. ReadOf(l, mark, loaded, k, m)'
  BY <1>18, <1>19 DEF ReadOf
<1> QED
  BY <1>7, <1>20 DEF ReadAt

\* load: the read holds the events and the inputs of this moment.
LEMMA ServesNewRead ==
    ASSUME OutSane, OutType, NEW op, NEW r, Serves(op, r), op[1] = "read", 1 \in DOMAIN queue, queue[1] = op,
           Unread(1), ModeOK(op[2]), NEW z, z = Len(answers) + 1, NEW m, m = Newest
    PROVE  ReadAt(z, m)'
<1>1. /\ op \in Ops /\ r \in Results /\ queue # <<>> /\ Served(Head(queue), r) /\ op = Head(queue)
      /\ UNCHANGED <<mode, kept, client>> /\ UNCHANGED <<events, faults>>
  BY ServesData DEF Writes
<1>2. /\ DOMAIN answers' = DOMAIN answers \cup {z}
      /\ \A j \in DOMAIN answers : answers'[j] = answers[j] /\ j < z
      /\ answers'[z] = <<op, r>>
  BY <1>1, ServedFacts
<1>3. z \in Nat /\ DOMAIN answers \subseteq Nat
  BY FlightType
<1>5. PICK l, mark : l = op[2] /\ mark = op[3]
  OBVIOUS
<1>6. m \in Nat /\ m >= 1 /\ mark \in Nat /\ l \in Listeners /\ Newest' = m
  BY <1>1, <1>5, NewestType, OpParts DEF Newest
<1>7. r = [page |-> From(l, mark, m) .. m, pending |-> pending] /\ pending' = pending
  BY <1>5 DEF Serves, Writing, Writes
<1>8. answers'[z][1][1] = "read" /\ answers'[z][1][2] = l /\ answers'[z][1][3] = mark
      /\ answers'[z][2].page = From(l, mark, m) .. m /\ answers'[z][2].pending = pending
  BY <1>2, <1>5, <1>7
<1>9. /\ mark <= m
      /\ l = Observer => 1 .. mark \subseteq client[l].saved
      /\ \A k \in DOMAIN kept[l] : kept[l][k][1] = "accepted" => ~Consumes(kept[l][k][2])
      /\ l # Observer => \A k \in DOMAIN kept[l] : kept[l][k][1] = "saved" => kept[l][k][2] = m
      /\ l # Observer /\ faults = 0 => \A n \in 1 .. m : events[n].settings => n <= mark \/ n = m
  BY <1>5 DEF Unread
<1>10. client[l].saved \subseteq 1 .. m
  BY <1>5 DEF ModeOK
<1>11. m \in From(l, mark, m) .. m \/ l = Observer
  <2>1. PageSize \in Nat /\ PageSize >= 1
    BY DEF OutSane
  <2> QED
    BY <2>1, <1>6 DEF From
<1>12. ASSUME NEW j \in DOMAIN answers', answers'[j][1][1] \in Writes, answers'[j][2] # 0
       PROVE  (j < z => answers'[j][2] <= m) /\ (j > z => answers'[j][2] > m)
  <2>1. j # z
    BY <1>8, <1>12 DEF Writes
  <2>2. j \in DOMAIN answers /\ answers'[j] = answers[j] /\ j < z /\ j \in Nat
    BY <2>1, <1>2, <1>3
  <2>3. answers[j][2] \in 0 .. m
    BY <2>2, <1>5, <1>12 DEF OutType, ResultOK
  <2> QED
    BY <2>2, <2>3, <1>3, <1>6
<1>13. m + 1 .. Newest' = {}
  BY <1>6
<1>14. ASSUME NEW h \in DOMAIN kept[l], kept[l][h][1] = "accepted", NEW n \in 1 .. m
       PROVE  kept[l][h][2] \notin events[n].consumed
  BY <1>5, <1>9, <1>14 DEF Consumes
<1>15. l # Observer => \A h \in DOMAIN kept[l] : kept[l][h][1] = "saved" => kept[l][h][2] >= m
  <2>1. m >= m
    BY <1>6
  <2> QED
    BY <2>1, <1>9
<1>16. /\ mark <= m
       /\ l = Observer => 1 .. mark \subseteq client'[l].saved /\ client'[l].saved \subseteq 1 .. m
       /\ \A n \in m + 1 .. Newest' : Unseen(n)' \/ Keeps(l, n)'
       /\ l # Observer =>
            /\ \A j \in DOMAIN answers' : answers'[j][1][1] \in Writes /\ answers'[j][2] # 0 =>
                 (j < z => answers'[j][2] <= m) /\ (j > z => answers'[j][2] > m)
            /\ \A h \in DOMAIN kept'[l] : kept'[l][h][1] = "saved" => kept'[l][h][2] >= m
            /\ faults' = 0 => \A n \in 1 .. m : events'[n].settings => n <= mark \/ n \in From(l, mark, m) .. m
       /\ \A i \in pending' : i \in pending
       /\ \A i \in pending : i \in pending'
       /\ \A h \in DOMAIN kept'[l] : kept'[l][h][1] = "accepted" =>
            \A n \in 1 .. m : kept'[l][h][2] \notin events'[n].consumed
  BY <1>1, <1>7, <1>9, <1>10, <1>11, <1>12, <1>13, <1>14, <1>15
<1>17. From(l, mark, m)' = From(l, mark, m)
  BY DEF From
<1>18. PICK loaded : loaded = answers'[z][2] /\ loaded.page = From(l, mark, m) .. m /\ loaded.pending = pending
  BY <1>8
<1>19. ReadOf(l, mark, loaded, z, m)'
  BY <1>16, <1>17, <1>18 DEF ReadOf
<1> QED
  BY <1>8, <1>18, <1>19 DEF ReadAt

\* The reads stay right when the store serves an operation.
LEMMA ServesReadInv ==
    ASSUME OutSane, OutType, Alone, ListenersOK, ReadInv, NEW op, NEW r, Serves(op, r)
    PROVE  ReadInv'
<1>1. /\ op \in Ops /\ r \in Results /\ queue # <<>> /\ Served(Head(queue), r) /\ op = Head(queue)
      /\ UNCHANGED <<mode, kept, client>>
  BY ServesData
<1> DEFINE z == Len(answers) + 1
<1>2. /\ 1 \in DOMAIN queue /\ queue[1] = op
      /\ \A j \in DOMAIN queue' : j + 1 \in DOMAIN queue /\ queue'[j] = queue[j + 1]
      /\ DOMAIN answers' = DOMAIN answers \cup {z}
      /\ \A k \in DOMAIN answers : answers'[k] = answers[k]
      /\ answers'[z] = <<op, r>>
  BY <1>1, ServedFacts
<1>3. z = Len(answers) + 1
  OBVIOUS
<1> HIDE DEF z
<1>4. Newest \in Nat /\ Newest >= 1 /\ (Newest' = Newest \/ Newest' = Newest + 1)
  BY ServesEvents
<1>5. ASSUME NEW j \in DOMAIN queue', queue'[j][1] = "read", mode'[queue'[j][2]] = "waiting" PROVE Unread(j)'
  <2>1. Unread(j + 1)
    BY <1>1, <1>2, <1>5 DEF ReadInv
  <2> QED
    BY <2>1, <1>5, ServesUnread
<1>6. ASSUME NEW k \in DOMAIN answers', answers'[k][1][1] = "read", mode'[answers'[k][1][2]] = "waiting"
      PROVE  \E m \in 1 .. Newest' : ReadAt(k, m)'
  <2>1. CASE k \in DOMAIN answers
    <3>1. answers[k][1][1] = "read" /\ mode[answers[k][1][2]] = "waiting"
      BY <1>1, <1>2, <1>6, <2>1
    <3>2. PICK m \in 1 .. Newest : ReadAt(k, m)
      BY <2>1, <3>1 DEF ReadInv
    <3>3. ReadAt(k, m)'
      BY <2>1, <3>1, <3>2, ServesReadAt
    <3>4. m \in 1 .. Newest'
      BY <1>4
    <3> QED
      BY <3>3, <3>4
  <2>2. CASE k = z
    <3>1. op[1] = "read" /\ mode[op[2]] = "waiting"
      BY <1>1, <1>2, <1>6, <2>2
    <3>2. Unread(1)
      BY <1>2, <3>1 DEF ReadInv
    <3>3. op[2] \in Listeners
      BY <1>1, <3>1, OpParts
    <3>4. ModeOK(op[2])
      BY <3>3 DEF ListenersOK, ListenerOK
    <3>5. PICK m : m = Newest
      OBVIOUS
    <3>6. ReadAt(k, m)'
      <4>1. 1 \in DOMAIN queue /\ queue[1] = op /\ op[1] = "read" /\ k = Len(answers) + 1
        BY <1>2, <1>3, <2>2, <3>1
      <4> QED
        BY ONLY OutSane, OutType, Serves(op, r), <3>2, <3>4, <3>5, <4>1, ServesNewRead
    <3>7. m \in 1 .. Newest'
      BY <1>4, <3>5
    <3> QED
      BY <3>6, <3>7
  <2> QED
    BY <1>2, <2>1, <2>2
<1> QED
  BY <1>5, <1>6 DEF ReadInv

\* The store keeps the invariant.
LEMMA ServeKeeps ==
    ASSUME OutSane, OutInv, Serve
    PROVE  OutInv'
<1>1. PICK op, r : Serves(op, r)
  BY ServeCases DEF OutInv
<1>2. OutType /\ Alone /\ Flights /\ InputInv /\ TakeInv /\ LastUnseen /\ HostOK /\ ListenersOK /\ ReadInv
  BY DEF OutInv
<1>3. OutType' /\ Flights' /\ InputInv' /\ TakeInv'
  BY <1>1, <1>2, ServesType, ServesFlights, ServesInput, ServesTake
<1>4. Alone'
  <2>1. queue # <<>> /\ r \in Results /\ Served(Head(queue), r)
    BY <1>1, <1>2, ServesData
  <2> QED
    BY <1>2, <2>1, AloneServed
<1>5. LastUnseen' /\ HostOK'
  BY <1>1, <1>2, ServesLast
<1>6. ListenersOK' /\ ReadInv'
  BY <1>1, <1>2, ServesListeners, ServesReadInv
<1> QED
  BY <1>3, <1>4, <1>5, <1>6 DEF OutInv
-----------------------------------------------------------------------------
(***************************************************************************)
(* The reads of a listener that goes on to wait.                           *)
(***************************************************************************)

\* Each answer that leaves is among what the listener keeps.
NewKept(x) ==
    /\ x[1] = "saved" => x[2] = Newest /\ \A h \in DOMAIN queue : queue[h][1] \notin Writers
    /\ x[1] = "accepted" => ~Consumes(x[2]) /\ ~InCommit(x[2])
Waits(l) ==
    /\ UNCHANGED <<events, pending, faults>>
    /\ l \in Listeners /\ client'[l] = client[l]
    /\ \A n \in 1 .. Newest : Unseen(n) => Unseen(n)' \/ Keeps(l, n)'
    /\ \A i \in pending : Answered(i) => Answered(i)' \/ Kept(l, <<"accepted", i>>)'
    /\ \A i : Removing(i) => Removing(i)' \/ Kept(l, <<"removed", i>>)'
    /\ \A x : Kept(l, x) => Kept(l, x)'
    /\ \A h \in DOMAIN kept'[l] : Kept(l, kept'[l][h]) \/ NewKept(kept'[l][h])

\* A read in the queue stays right while its listener goes on to wait.
LEMMA UnreadWaits ==
    ASSUME OutType, NEW l, Waits(l), NEW j \in DOMAIN queue, queue[j][2] = l, Unread(j),
           \A h \in 1 .. j : queue'[h] = queue[h]
    PROVE  Unread(j)'
<1>1. Newest' = Newest /\ \A i : Consumes(i)' <=> Consumes(i)
  BY EventsStay DEF Waits
<1>2. j \in 1 .. Len(queue) /\ Len(queue) \in Nat /\ DOMAIN queue = 1 .. Len(queue)
  BY FlightType
<1>3. \A h \in 1 .. j - 1 : h \in 1 .. j /\ h \in DOMAIN queue /\ queue'[h] = queue[h]
  BY <1>2
<1>4. queue'[j] = queue[j]
  BY <1>2
<1>5. PICK mark : mark = queue[j][3]
  OBVIOUS
<1>6. /\ mark <= Newest
      /\ l = Observer => 1 .. mark \subseteq client[l].saved
      /\ \A k \in DOMAIN kept[l] : kept[l][k][1] = "accepted" =>
           /\ ~Consumes(kept[l][k][2])
           /\ \A h \in 1 .. j - 1 : queue[h][1] = "commit" => kept[l][k][2] \notin queue[h][2]
      /\ l # Observer => \A k \in DOMAIN kept[l] : kept[l][k][1] = "saved" =>
           kept[l][k][2] = Newest /\ \A h \in 1 .. j - 1 : queue[h][1] \notin Writers
      /\ l # Observer /\ faults = 0 =>
           \/ \A n \in 1 .. Newest : events[n].settings => n <= mark
           \/ /\ \A h \in 1 .. j - 1 : queue[h][1] \notin Writers
              /\ \A n \in 1 .. Newest : events[n].settings => n <= mark \/ n = Newest
  BY <1>5 DEF Unread
<1>7. ASSUME NEW k \in DOMAIN kept'[l], NEW x, x = kept'[l][k]
      PROVE  /\ x[1] = "accepted" =>
                  /\ ~Consumes(x[2])
                  /\ \A h \in 1 .. j - 1 : queue[h][1] = "commit" => x[2] \notin queue[h][2]
             /\ l # Observer /\ x[1] = "saved" => x[2] = Newest /\ \A h \in 1 .. j - 1 : queue[h][1] \notin Writers
  <2>1. CASE Kept(l, x)
    BY <2>1, <1>6 DEF Kept
  <2>2. CASE NewKept(x)
    BY <2>2, <1>3 DEF NewKept, InCommit
  <2> QED
    BY <1>7, <2>1, <2>2 DEF Waits
<1>8. ASSUME NEW k \in DOMAIN kept'[l]
      PROVE  /\ kept'[l][k][1] = "accepted" =>
                  /\ ~Consumes(kept[l][k][2])'
                  /\ \A h \in 1 .. j - 1 : queue'[h][1] = "commit" => kept'[l][k][2] \notin queue'[h][2]
             /\ l # Observer /\ kept'[l][k][1] = "saved" =>
                  kept'[l][k][2] = Newest' /\ \A h \in 1 .. j - 1 : queue'[h][1] \notin Writers
  <2>1. PICK x, y : x = kept'[l][k] /\ y = x[2]
    OBVIOUS
  <2>2. ~Consumes(y) => ~Consumes(y)'
    BY <1>1
  <2>3. kept'[l][k][1] = "accepted" => ~Consumes(y)'
    BY <1>7, <2>1, <2>2
  <2>4. kept'[l][k][1] = "accepted" => ~Consumes(kept[l][k][2])'
    BY <2>1, <2>3 DEF Consumes
  <2> QED
    BY <1>1, <1>3, <1>7, <2>1, <2>4
<1>9. UNCHANGED <<events, faults>> /\ client'[l] = client[l]
  BY DEF Waits
<1>10. /\ mark <= Newest'
       /\ l = Observer => 1 .. mark \subseteq client'[l].saved
       /\ l # Observer /\ faults' = 0 =>
            \/ \A n \in 1 .. Newest' : events'[n].settings => n <= mark
            \/ /\ \A h \in 1 .. j - 1 : queue'[h][1] \notin Writers
               /\ \A n \in 1 .. Newest' : events'[n].settings => n <= mark \/ n = Newest'
  BY <1>1, <1>3, <1>6, <1>9
<1>11. queue'[j][2] = l /\ queue'[j][3] = mark
  BY <1>4, <1>5
<1> QED
  BY <1>8, <1>10, <1>11 DEF Unread

\* An answered read stays right while its listener goes on to wait.
LEMMA ReadAtWaits ==
    ASSUME OutType, NEW l, Waits(l), NEW k \in Nat,
           \A i \in DOMAIN answers' : i \in Nat /\ Old(k, i) \in DOMAIN answers /\ answers'[i] = answers[Old(k, i)],
           \A h, i \in DOMAIN answers' : h < i <=> Old(k, h) < Old(k, i),
           NEW j \in DOMAIN answers', NEW g \in DOMAIN answers, g = Old(k, j), answers[g][1][2] = l,
           NEW m \in 1 .. Newest, ReadAt(g, m)
    PROVE  ReadAt(j, m)'
<1>1. Newest' = Newest
  BY EventsStay DEF Waits
<1>2. PICK mark, loaded : mark = answers[g][1][3] /\ loaded = answers[g][2]
  OBVIOUS
<1>3. answers'[j][1][2] = l /\ answers'[j][1][3] = mark /\ answers'[j][2] = loaded
  BY <1>2
<1>4. UNCHANGED <<events, pending, faults>> /\ client'[l] = client[l]
  BY DEF Waits
<1>5. m \in Nat /\ m >= 1 /\ m <= Newest /\ Newest \in Nat
  BY NewestType
<1>6. ReadOf(l, mark, loaded, g, m)
  BY <1>2 DEF ReadAt
<1>7. \A n : Keeps(l, n) => Keeps(l, n)'
  <2>1. ASSUME NEW n PROVE (Keeps(l, n) <=> Kept(l, <<"saved", n>>)) /\ (Keeps(l, n)' <=> Kept(l, <<"saved", n>>)')
    BY DEF Keeps, Kept
  <2> QED
    BY <2>1 DEF Waits
<1>8. ASSUME faults' = 0, NEW n \in m + 1 .. Newest PROVE Unseen(n)' \/ Keeps(l, n)'
  <2>1. Unseen(n) \/ Keeps(l, n)
    BY <1>4, <1>6, <1>8 DEF ReadOf
  <2>2. n \in 1 .. Newest
    BY <1>5
  <2> QED
    BY <2>1, <2>2, <1>7 DEF Waits
<1>9. ASSUME l # Observer, NEW i \in DOMAIN answers', answers'[i][1][1] \in Writes, answers'[i][2] # 0
      PROVE  (i < j => answers'[i][2] <= m) /\ (i > j => answers'[i][2] > m)
  <2>1. PICK h : h = Old(k, i)
    OBVIOUS
  <2>2. h \in DOMAIN answers /\ answers[h] = answers'[i] /\ (i < j <=> h < g) /\ (j < i <=> g < h)
    BY <2>1
  <2>3. h \in Nat /\ g \in Nat /\ i \in Nat /\ j \in Nat
    BY <2>2, FlightType
  <2>4. (h < g => answers[h][2] <= m) /\ (h > g => answers[h][2] > m)
    BY <1>6, <1>9, <2>2 DEF ReadOf
  <2>5. (i > j <=> j < i) /\ (h > g <=> g < h)
    BY <2>3
  <2> QED
    BY <2>2, <2>4, <2>5
<1>10. ASSUME NEW h \in DOMAIN kept'[l], NEW x, x = kept'[l][h]
       PROVE  /\ l # Observer /\ x[1] = "saved" => x[2] >= m
              /\ x[1] = "accepted" => \A n \in 1 .. m : x[2] \notin events[n].consumed
  <2>1. CASE Kept(l, x)
    BY <2>1, <1>6 DEF Kept, ReadOf
  <2>2. CASE NewKept(x)
    <3>1. x[1] = "saved" => x[2] >= m
      BY <2>2, <1>5 DEF NewKept
    <3>2. \A n \in 1 .. m : n \in 1 .. Newest
      BY <1>5
    <3> QED
      BY <2>2, <3>1, <3>2 DEF NewKept, Consumes
  <2> QED
    BY <1>10, <2>1, <2>2 DEF Waits
<1>11. ASSUME NEW i \in pending PROVE i \in loaded.pending \/ Answered(i)' \/ Kept(l, <<"accepted", i>>)'
  BY <1>6 DEF ReadOf, Waits
<1>12. ASSUME NEW i \in loaded.pending
       PROVE  i \in pending \/ Removing(i)' \/ Kept(l, <<"removed", i>>)'
              \/ \E n \in m + 1 .. Newest : i \in events[n].consumed
  BY <1>6 DEF ReadOf, Waits
<1>13. From(l, mark, m)' = From(l, mark, m)
  BY DEF From
<1>14. /\ mark <= m
       /\ loaded.page = From(l, mark, m) .. m
       /\ l = Observer => 1 .. mark \subseteq client[l].saved /\ client[l].saved \subseteq 1 .. m
       /\ l # Observer /\ faults = 0 => \A n \in 1 .. m : events[n].settings => n <= mark \/ n \in loaded.page
  BY <1>6 DEF ReadOf
<1>15. ReadOf(l, mark, loaded, j, m)'
  BY <1>1, <1>4, <1>8, <1>9, <1>10, <1>11, <1>12, <1>13, <1>14 DEF ReadOf
<1> QED
  BY <1>3, <1>15 DEF ReadAt

\* A listener whose kept updates stay, with the answers.
LEMMA WaitsStill ==
    ASSUME NEW l \in Listeners, UNCHANGED <<events, pending, faults, answers>>, kept'[l] = kept[l], client'[l] = client[l]
    PROVE  Waits(l)
<1>1. /\ \A n : Unseen(n)' <=> Unseen(n)
      /\ \A i : Removing(i)' <=> Removing(i)
      /\ \A i : Answered(i)' <=> Answered(i)
  BY StaySays
<1>2. \A x : Kept(l, x)' <=> Kept(l, x)
  BY KeptStays
<1>3. \A h \in DOMAIN kept'[l] : Kept(l, kept'[l][h])
  BY DEF Kept
<1> QED
  BY <1>1, <1>2, <1>3 DEF Waits

\* A read of a listener is on its way.
Reading(l) ==
    \/ \E j \in DOMAIN queue : queue[j][1] = "read" /\ queue[j][2] = l
    \/ \E k \in DOMAIN answers : answers[k][1][1] = "read" /\ answers[k][1][2] = l

\* Each listener that goes on to wait for its read.
AllWait == \A l \in Listeners : Reading(l) /\ mode'[l] = "waiting" => mode[l] = "waiting" /\ Waits(l)

\* Each read in the queue stays right.
LEMMA QueueWaits ==
    ASSUME OutSane, OutType, ReadInv, AllWait, \A j \in DOMAIN queue : queue'[j] = queue[j],
           NEW j \in DOMAIN queue, queue[j][1] = "read", mode'[queue[j][2]] = "waiting"
    PROVE  Unread(j)'
<1>1. PICK l : l = queue[j][2]
  OBVIOUS
<1>2. l \in Listeners
  BY <1>1, FlightType, OpParts
<1>3. mode[l] = "waiting" /\ Waits(l)
  BY <1>1, <1>2 DEF AllWait, Reading
<1>4. Unread(j)
  BY <1>1, <1>3 DEF ReadInv
<1>5. \A h \in 1 .. j : queue'[h] = queue[h]
  <2>1. DOMAIN queue = 1 .. Len(queue) /\ Len(queue) \in Nat
    BY FlightType
  <2> QED
    BY <2>1
<1> QED
  BY <1>1, <1>3, <1>4, <1>5, UnreadWaits

\* Each answered read stays right when an answer leaves.
LEMMA AnswerWaits ==
    ASSUME OutSane, OutType, ReadInv, AllWait, NEW k \in Nat,
           \A i \in DOMAIN answers' : i \in Nat /\ Old(k, i) \in DOMAIN answers /\ answers'[i] = answers[Old(k, i)],
           \A h, i \in DOMAIN answers' : h < i <=> Old(k, h) < Old(k, i),
           NEW j \in DOMAIN answers', answers'[j][1][1] = "read", mode'[answers'[j][1][2]] = "waiting"
    PROVE  \E m \in 1 .. Newest' : ReadAt(j, m)'
<1>1. PICK l, g : l = answers'[j][1][2] /\ g = Old(k, j)
  OBVIOUS
<1>2. g \in DOMAIN answers /\ answers[g] = answers'[j]
  BY <1>1
<1>3. l \in Listeners
  BY <1>1, <1>2, FlightType, OpParts
<1>4. mode[l] = "waiting" /\ Waits(l)
  BY <1>1, <1>2, <1>3 DEF AllWait, Reading
<1>5. PICK m \in 1 .. Newest : ReadAt(g, m)
  BY <1>1, <1>2, <1>4 DEF ReadInv
<1>6. Newest' = Newest
  BY <1>4, EventsStay DEF Waits
<1>7. answers[g][1][2] = l
  BY <1>1, <1>2
<1>8. ReadAt(j, m)'
  BY <1>1, <1>2, <1>4, <1>5, <1>7, ReadAtWaits
<1> QED
  BY <1>6, <1>8

\* Each answered read stays right while no answer leaves.
LEMMA AnswersWait ==
    ASSUME OutSane, OutType, ReadInv, AllWait, UNCHANGED answers,
           NEW j \in DOMAIN answers', answers'[j][1][1] = "read", mode'[answers'[j][1][2]] = "waiting"
    PROVE  \E m \in 1 .. Newest' : ReadAt(j, m)'
<1>1. Len(answers) \in Nat /\ DOMAIN answers = 1 .. Len(answers)
  BY FlightType
<1>2. PICK k : k = Len(answers) + 1
  OBVIOUS
<1>3. k \in Nat /\ \A i \in DOMAIN answers : Old(k, i) = i /\ i \in Nat
  BY <1>1, <1>2 DEF Old
<1>4. /\ \A i \in DOMAIN answers' : i \in Nat /\ Old(k, i) \in DOMAIN answers /\ answers'[i] = answers[Old(k, i)]
      /\ \A h, i \in DOMAIN answers' : h < i <=> Old(k, h) < Old(k, i)
  BY <1>3
<1> QED
  BY <1>3, <1>4, AnswerWaits

\* The queue and the answers stay.
LEMMA ReadInvStays ==
    ASSUME OutSane, OutType, ReadInv, AllWait, UNCHANGED <<queue, answers>>
    PROVE  ReadInv'
<1>1. ASSUME NEW j \in DOMAIN queue', queue'[j][1] = "read", mode'[queue'[j][2]] = "waiting" PROVE Unread(j)'
  BY <1>1, QueueWaits
<1>2. ASSUME NEW k \in DOMAIN answers', answers'[k][1][1] = "read", mode'[answers'[k][1][2]] = "waiting"
      PROVE  \E m \in 1 .. Newest' : ReadAt(k, m)'
  BY <1>2, AnswersWait
<1> QED
  BY <1>1, <1>2 DEF ReadInv

\* An answer goes.
LEMMA ReadInvGoes ==
    ASSUME OutSane, OutType, ReadInv, AllWait, UNCHANGED queue, NEW k, Goes1(k)
    PROVE  ReadInv'
<1>1. ASSUME NEW j \in DOMAIN queue', queue'[j][1] = "read", mode'[queue'[j][2]] = "waiting" PROVE Unread(j)'
  BY <1>1, QueueWaits
<1>2. ASSUME NEW j \in DOMAIN answers', answers'[j][1][1] = "read", mode'[answers'[j][1][2]] = "waiting"
      PROVE  \E m \in 1 .. Newest' : ReadAt(j, m)'
  <2>1. /\ k \in Nat
        /\ \A i \in DOMAIN answers' : i \in Nat /\ Old(k, i) \in DOMAIN answers /\ answers'[i] = answers[Old(k, i)]
        /\ \A h, i \in DOMAIN answers' : h < i <=> Old(k, h) < Old(k, i)
    BY GoFacts
  <2> QED
    BY <1>2, <2>1, AnswerWaits
<1> QED
  BY <1>1, <1>2 DEF ReadInv

\* An operation joins the queue.
LEMMA ReadInvSends ==
    ASSUME OutSane, OutType, ReadInv, AllWait, UNCHANGED answers, NEW op \in Ops, Send(op), NEW z, z = Len(queue) + 1,
           op[1] = "read" /\ mode'[op[2]] = "waiting" => Unread(z)'
    PROVE  ReadInv'
<1>1. /\ DOMAIN queue' = DOMAIN queue \cup {z}
      /\ \A j \in DOMAIN queue : queue'[j] = queue[j]
      /\ queue'[z] = op
  BY SendFacts
<1>2. ASSUME NEW j \in DOMAIN queue', queue'[j][1] = "read", mode'[queue'[j][2]] = "waiting" PROVE Unread(j)'
  <2>1. CASE j \in DOMAIN queue
    <3>1. queue[j][1] = "read" /\ mode'[queue[j][2]] = "waiting"
      BY <1>1, <1>2, <2>1
    <3> QED
      BY <1>1, <2>1, <3>1, QueueWaits
  <2>2. CASE j = z
    <3>1. op[1] = "read" /\ mode'[op[2]] = "waiting"
      BY <1>1, <1>2, <2>2
    <3> QED
      BY <3>1, <2>2
  <2> QED
    BY <1>1, <2>1, <2>2
<1>3. ASSUME NEW k \in DOMAIN answers', answers'[k][1][1] = "read", mode'[answers'[k][1][2]] = "waiting"
      PROVE  \E m \in 1 .. Newest' : ReadAt(k, m)'
  BY <1>3, AnswersWait
<1> QED
  BY <1>2, <1>3 DEF ReadInv
-----------------------------------------------------------------------------
(***************************************************************************)
(* A call joins the queue.                                                 *)
(***************************************************************************)
LEMMA InputSame ==
    ASSUME InputInv, UNCHANGED <<pending, accepted>>,
           \A i : /\ InQueue(i)' <=> InQueue(i)
                  /\ Gone(i)' <=> Gone(i)
                  /\ Consumes(i)' => Consumes(i)
                  /\ Answered(i)' => Answered(i)
                  /\ Carried(i)' => Carried(i)
                  /\ Taken(i)' => Taken(i)
    PROVE  InputInv'
BY DEF InputInv

\* A call of the store, as the invariant knows it.
Sends(op) ==
    /\ op \in Ops /\ Send(op)
    /\ \A o \in InFlight : ~Same(o, op)
    /\ UNCHANGED <<events, pending, faults, settings, answers, running, gone, questions>>
    /\ IF op[1] = "accept" THEN op[2] = accepted + 1 /\ accepted' = accepted + 1 ELSE accepted' = accepted
    /\ IF op[1] = "commit" THEN op[2] = taken /\ taken' = {} ELSE taken' = taken

\* A call keeps the places of the inputs.
LEMMA SendsInput ==
    ASSUME OutSane, OutType, InputInv, NEW op, Sends(op)
    PROVE  InputInv' /\ accepted' \in Nat
<1>1. /\ \A i : InQueue(i)' <=> InQueue(i) \/ (op[1] = "accept" /\ op[2] = i)
      /\ \A i : InCommit(i)' <=> InCommit(i) \/ (op[1] = "commit" /\ i \in op[2])
  BY SendSays DEF Sends
<1>2. /\ \A i : Removing(i)' <=> Removing(i)
      /\ \A i : Answered(i)' <=> Answered(i)
      /\ \A i : Taken(i)' <=> Taken(i)
  BY StaySays DEF Sends
<1>3. \A i : Consumes(i)' <=> Consumes(i)
  BY EventsStay DEF Sends
<1>4. \A i : Gone(i)' <=> Gone(i)
  BY <1>2, <1>3 DEF Gone, Sends
<1>5. \A i : Carried(i)' => Carried(i)
  BY <1>1 DEF Carried, Sends
<1>6. accepted \in Nat
  BY DEF OutType
<1>7. CASE op[1] # "accept"
  <2>1. UNCHANGED <<pending, accepted>> /\ \A i : InQueue(i)' <=> InQueue(i)
    BY <1>1, <1>7 DEF Sends
  <2> QED
    BY <2>1, <1>2, <1>3, <1>4, <1>5, <1>6, InputSame
<1>8. CASE op[1] = "accept"
  <2>1. op[2] = accepted + 1 /\ accepted' = accepted + 1 /\ pending' = pending
    BY <1>8 DEF Sends
  <2>2. PICK x : x = accepted + 1
    OBVIOUS
  <2>3. x \in Nat /\ ~(x <= accepted) /\ \A i \in Nat : i <= accepted => i <= x
    BY <1>6, <2>2
  <2>4. ~(x \in pending) /\ ~InQueue(x) /\ ~Answered(x) /\ ~Gone(x) /\ ~Carried(x) /\ ~Taken(x) /\ ~Consumes(x)
    BY <2>3 DEF InputInv, Gone
  <2>5. \A i : InQueue(i)' <=> InQueue(i) \/ i = x
    BY <1>1, <1>8, <2>1, <2>2
  <2>6. ASSUME NEW i \in Nat
        PROVE  /\ i \in pending => i <= x /\ i # 0 /\ ~InQueue(i)' /\ ~Gone(i)'
               /\ InQueue(i)' => i <= x /\ i # 0 /\ ~Answered(i)' /\ ~Gone(i)' /\ ~Carried(i)' /\ ~Taken(i)'
               /\ Answered(i)' \/ Gone(i)' \/ Carried(i)' \/ Taken(i)' => i <= x /\ i # 0
               /\ Answered(i)' => ~Carried(i)' /\ ~Consumes(i)'
               /\ i # 0 /\ i <= x => InQueue(i)' \/ i \in pending \/ Gone(i)'
    <3>1. CASE i = x
      <4>1. x <= x /\ x # 0
        BY <1>6, <2>2
      <4> QED
        BY <3>1, <4>1, <1>2, <1>3, <1>4, <1>5, <2>4, <2>5
    <3>2. CASE i # x
      <4>1. (InQueue(i)' <=> InQueue(i)) /\ (i <= x <=> i <= accepted)
        BY <3>2, <1>6, <2>2, <2>5
      <4>2. /\ (Answered(i)' <=> Answered(i)) /\ (Taken(i)' <=> Taken(i)) /\ (Carried(i)' => Carried(i))
            /\ (Gone(i)' <=> Gone(i)) /\ (Consumes(i)' <=> Consumes(i))
        BY <1>2, <1>3, <1>4, <1>5
      <4> QED
        BY <4>1, <4>2 DEF InputInv
    <3> QED
      BY <3>1, <3>2
  <2>7. x \in Nat /\ accepted' = x /\ pending' = pending
    BY <2>1, <2>2, <2>3
  <2> QED
    BY <2>6, <2>7 DEF InputInv
<1> QED
  BY <1>7, <1>8

\* A call keeps the types.
LEMMA SendsType ==
    ASSUME OutSane, OutType, NEW op, Sends(op), accepted' \in Nat,
           mode' \in [Listeners -> {"off", "waiting", "on"}], kept' \in [Listeners -> Seq(Update)],
           client' \in [Listeners -> Shown]
    PROVE  OutType'
<1>1. queue' \in Seq(Ops)
  BY SendFacts DEF Sends
<1>2. UNCHANGED <<events, pending, faults, settings, answers, running, gone, questions>> /\ Newest' = Newest
  BY DEF Sends, Newest
<1>3. taken' \subseteq Nat
  BY DEF Sends, OutType
<1>4. ASSUME NEW k \in DOMAIN answers' PROVE ResultOK(answers[k][1], answers[k][2])'
  BY <1>2, <1>4 DEF OutType, ResultOK
<1> QED
  BY <1>1, <1>2, <1>3, <1>4 DEF OutType

\* A call keeps the operations in flight apart, and says nothing.
LEMMA SendsQueue ==
    ASSUME OutSane, OutType, Alone, InputInv, TakeInv, LastUnseen, NEW op, Sends(op)
    PROVE  Alone' /\ TakeInv' /\ LastUnseen' /\ Idle
<1>1. Alone'
  BY AloneSends DEF Sends
<1>2. UNCHANGED <<events, answers>>
  BY DEF Sends
<1>3. TakeInv'
  BY <1>2 DEF TakeInv
<1>4. /\ \A n : Unseen(n)' <=> Unseen(n)
      /\ \A i : Removing(i)' <=> Removing(i)
      /\ \A i : Answered(i)' <=> Answered(i)
  BY <1>2, StaySays
<1>5. Newest' = Newest
  BY <1>2 DEF Newest
<1>6. LastUnseen'
  BY <1>2, <1>4, <1>5 DEF LastUnseen
<1>7. Idle
  BY <1>4 DEF Idle, Sends
<1> QED
  BY <1>1, <1>3, <1>6, <1>7

\* The settings of the host stay right while no event changes.
LEMMA HostStays ==
    ASSUME HostOK, UNCHANGED <<events, faults, settings>>, \A n \in 1 .. Newest : Unseen(n)' <=> Unseen(n)
    PROVE  HostOK'
<1>1. Newest' = Newest
  BY DEF Newest
<1> QED
  BY <1>1 DEF HostOK

\* The listeners stay.
LEMMA SendsKeep ==
    ASSUME OutSane, OutInv, NEW op, Sends(op), op[1] # "read", FlightOK(op), UNCHANGED <<mode, kept, client>>
    PROVE  OutInv'
<1>1. OutType /\ Alone /\ Flights /\ InputInv /\ TakeInv /\ LastUnseen /\ HostOK /\ ListenersOK /\ ReadInv
  BY DEF OutInv
<1>2. InputInv' /\ accepted' \in Nat
  BY <1>1, SendsInput
<1>3. OutType'
  <2>1. /\ mode' \in [Listeners -> {"off", "waiting", "on"}] /\ kept' \in [Listeners -> Seq(Update)]
        /\ client' \in [Listeners -> Shown]
    BY <1>1 DEF OutType
  <2> QED
    BY <1>1, <1>2, <2>1, SendsType
<1>4. Alone' /\ TakeInv' /\ LastUnseen' /\ Idle
  BY <1>1, SendsQueue
<1>5. HostOK'
  BY <1>1, <1>4, HostStays DEF Sends, Idle
<1>6. Flights'
  <2>1. /\ DOMAIN queue' = DOMAIN queue \cup {Len(queue) + 1}
        /\ \A j \in DOMAIN queue : queue'[j] = queue[j]
        /\ queue'[Len(queue) + 1] = op
    BY <1>1, SendFacts DEF Sends
  <2>2. \A j \in DOMAIN queue' : \E o : o = queue'[j] /\ FlightOK(o)
    BY <1>1, <2>1 DEF Flights, Sends
  <2>3. ASSUME NEW j \in DOMAIN queue' PROVE FlightOK(queue[j])'
    BY <2>2 DEF FlightOK
  <2>4. ASSUME NEW k \in DOMAIN answers' PROVE FlightOK(answers[k][1])'
    BY <1>1 DEF Flights, FlightOK, Sends
  <2> QED
    BY <2>3, <2>4 DEF Flights
<1>7. ListenersOK'
  <2>1. StoreStep /\ UNCHANGED <<running, questions>>
    BY <1>1, <1>4, IdleStep DEF Idle
  <2>2. ASSUME NEW l \in Listeners PROVE ListenerOK(l)'
    <3>1. StaysAt(l) /\ ListenerOK(l)
      BY <1>1 DEF StaysAt, ListenersOK
    <3> QED
      BY <3>1, <1>1, <2>1, ListenerStays
  <2>3. Listeners' = Listeners
    BY DEF Listeners
  <2> QED
    BY <2>2, <2>3 DEF ListenersOK
<1>8. ReadInv'
  <2>1. UNCHANGED <<events, pending, faults, answers>> /\ op \in Ops /\ Send(op)
    BY DEF Sends
  <2>2. AllWait
    BY <2>1, WaitsStill DEF AllWait
  <2>3. PICK z : z = Len(queue) + 1
    OBVIOUS
  <2> QED
    BY <1>1, <2>1, <2>2, <2>3, ReadInvSends
<1> QED
  BY <1>2, <1>3, <1>4, <1>5, <1>6, <1>7, <1>8 DEF OutInv

\* An operation in flight is in the queue or in the answers.
LEMMA InFlightIs ==
    ASSUME NEW o \in InFlight
    PROVE  (\E j \in DOMAIN queue : queue[j] = o) \/ (\E k \in DOMAIN answers : answers[k][1] = o)
BY DEF InFlight, Range

\* The holder of the session lock finds no other writer in flight.
LEMMA FreeFacts ==
    ASSUME Free, NEW op, op[1] \in Writers
    PROVE  \A o \in InFlight : ~Same(o, op)
<1>1. ASSUME NEW o \in InFlight PROVE o[1] \notin Writers
  BY DEF Free, Kinds, Writers, Writes
<1>2. ASSUME NEW o \in InFlight, Same(o, op) PROVE FALSE
  <2>1. o[1] \notin Writers
    BY <1>1
  <2>2. op[1] # "read" /\ op[1] # "accept"
    BY DEF Writers, Writes
  <2> QED
    BY <1>2, <2>1, <2>2 DEF Same
<1> QED
  BY <1>2

\* Host::accept keeps the invariant.
LEMMA InputKeeps ==
    ASSUME OutSane, OutInv, NEW caller \in {"client", "task"}, Input(caller)
    PROVE  OutInv'
<1>1. PICK op : op = <<"accept", accepted + 1, 0, caller>>
  OBVIOUS
<1>2. op[1] = "accept" /\ op[2] = accepted + 1 /\ accepted \in Nat
  BY <1>1 DEF OutInv, OutType
<1>3. op \in Ops
  BY <1>1, <1>2 DEF Ops
<1>4. ASSUME NEW o \in InFlight, Same(o, op) PROVE FALSE
  <2>1. PICK x : x = accepted + 1
    OBVIOUS
  <2>2. o[1] = "accept" /\ o[2] = x
    BY <1>2, <1>4, <2>1 DEF Same, Writers, Writes
  <2>3. InQueue(x) \/ Answered(x)
    BY <2>2, InFlightIs DEF InQueue, Answered
  <2>4. x \in Nat /\ ~(x <= accepted)
    BY <1>2, <2>1
  <2> QED
    BY <2>3, <2>4 DEF OutInv, InputInv
<1>5. FlightOK(op)
  BY <1>2 DEF FlightOK
<1>6. /\ Send(op) /\ accepted' = accepted + 1
      /\ UNCHANGED <<events, pending, faults, settings, answers, running, taken, gone, questions, mode, kept, client>>
  BY <1>1 DEF Input, storeVars, sentVars, listenVars
<1>7. Sends(op)
  BY <1>2, <1>3, <1>4, <1>5, <1>6 DEF Sends
<1> QED
  BY <1>2, <1>5, <1>6, <1>7, SendsKeep

\* remove_input keeps the invariant.
LEMMA RemoveKeeps ==
    ASSUME OutSane, OutInv, NEW caller \in {"client", "task"}, RemoveInput(caller)
    PROVE  OutInv'
<1>1. PICK l \in Listeners : \E i \in client[l].pending : Send(<<"remove", i, 0, caller>>)
  BY DEF RemoveInput
<1>2. PICK i \in client[l].pending : Send(<<"remove", i, 0, caller>>)
  BY <1>1
<1>3. PICK op : op = <<"remove", i, 0, caller>>
  OBVIOUS
<1>4. i \in Nat
  <2>1. client[l] \in Shown
    BY KeptType DEF OutInv
  <2> QED
    BY <2>1 DEF Shown
<1>5. op \in Ops /\ op[1] = "remove"
  BY <1>3, <1>4 DEF Ops
<1>6. (\A o \in InFlight : ~Same(o, op)) /\ FlightOK(op)
  BY <1>5 DEF Same, FlightOK, Writers, Writes
<1>7. /\ Send(op) /\ accepted' = accepted
      /\ UNCHANGED <<events, pending, faults, settings, answers, running, taken, gone, questions, mode, kept, client>>
  BY <1>2, <1>3 DEF RemoveInput, storeVars, sentVars, listenVars, boundVars
<1>8. Sends(op)
  BY <1>5, <1>6, <1>7 DEF Sends
<1> QED
  BY <1>5, <1>6, <1>7, <1>8, SendsKeep

\* TurnInputs::take keeps the invariant.
LEMMA TakeKeeps ==
    ASSUME OutSane, OutInv, Take
    PROVE  OutInv'
<1>1. PICK op : op = <<"take", 0, 0, "task">>
  OBVIOUS
<1>2. op \in Ops /\ op[1] = "take"
  BY <1>1 DEF Ops
<1>3. (\A o \in InFlight : ~Same(o, op)) /\ FlightOK(op)
  BY <1>2, FreeFacts DEF Take, FlightOK, Writers, Writes
<1>4. /\ Send(op) /\ accepted' = accepted
      /\ UNCHANGED <<events, pending, faults, settings, answers, running, taken, gone, questions, mode, kept, client>>
  BY <1>1 DEF Take, storeVars, sentVars, listenVars, boundVars
<1>5. Sends(op)
  BY <1>2, <1>3, <1>4 DEF Sends
<1> QED
  BY <1>2, <1>3, <1>4, <1>5, SendsKeep

\* The call of a commit keeps the invariant.
LEMMA CommitKeeps ==
    ASSUME OutSane, OutInv, Commit
    PROVE  OutInv'
<1>1. PICK op : op = <<"commit", taken, 0, "task">>
  OBVIOUS
<1>2. op \in Ops /\ op[1] = "commit" /\ op[2] = taken
  <2>1. taken \in SUBSET Nat
    BY DEF OutInv, OutType
  <2> QED
    BY <1>1, <2>1 DEF Ops
<1>3. (\A o \in InFlight : ~Same(o, op)) /\ FlightOK(op)
  BY <1>2, FreeFacts DEF Commit, FlightOK, Writers, Writes
<1>4. /\ Send(op) /\ accepted' = accepted /\ taken' = {}
      /\ UNCHANGED <<events, pending, faults, settings, answers, running, gone, questions, mode, kept, client>>
  BY <1>1 DEF Commit, storeVars, listenVars, boundVars
<1>5. Sends(op)
  BY <1>2, <1>3, <1>4 DEF Sends
<1> QED
  BY <1>2, <1>3, <1>4, <1>5, SendsKeep

\* The call of set_settings keeps the invariant.
LEMMA SetSettingsKeeps ==
    ASSUME OutSane, OutInv, NEW caller \in {"client", "task"}, SetSettings(caller)
    PROVE  OutInv'
<1>1. PICK op : op = <<"settings", {}, 0, caller>>
  OBVIOUS
<1>2. op \in Ops /\ op[1] = "settings"
  BY <1>1 DEF Ops
<1>3. (\A o \in InFlight : ~Same(o, op)) /\ FlightOK(op)
  BY <1>2, FreeFacts DEF SetSettings, FlightOK, Writers, Writes
<1>4. /\ Send(op) /\ accepted' = accepted
      /\ UNCHANGED <<events, pending, faults, settings, answers, running, taken, gone, questions, mode, kept, client>>
  BY <1>1 DEF SetSettings, storeVars, sentVars, listenVars, boundVars
<1>5. Sends(op)
  BY <1>2, <1>3, <1>4 DEF Sends
<1> QED
  BY <1>2, <1>3, <1>4, <1>5, SendsKeep

\* The call of a recovery keeps the invariant.
LEMMA RecoverKeeps ==
    ASSUME OutSane, OutInv, Recover
    PROVE  OutInv'
<1>1. PICK op : op = <<"recover", 0, 0, "task">>
  OBVIOUS
<1>2. op \in Ops /\ op[1] = "recover"
  BY <1>1 DEF Ops
<1>3. (\A o \in InFlight : ~Same(o, op)) /\ FlightOK(op)
  BY <1>2, FreeFacts DEF Recover, FlightOK, Writers, Writes
<1>4. /\ Send(op) /\ accepted' = accepted
      /\ UNCHANGED <<events, pending, faults, settings, answers, running, taken, gone, questions, mode, kept, client>>
  BY <1>1 DEF Recover, storeVars, sentVars, listenVars, boundVars
<1>5. Sends(op)
  BY <1>2, <1>3, <1>4 DEF Sends
<1> QED
  BY <1>2, <1>3, <1>4, <1>5, SendsKeep

\* loadOlderHistory keeps the invariant.
LEMMA LoadGapKeeps ==
    ASSUME OutSane, OutInv, NEW v \in Views, LoadGap(v)
    PROVE  OutInv'
<1>1. PICK page, op : page = Gap(client[v]) /\ op = <<"page", v, page, "task">>
  OBVIOUS
<1>2. \A n \in page : n \in Nat /\ \E a, b \in client[v].saved : a < n /\ n < b
  <2>1. Newest \in Nat
    BY NewestType DEF OutInv
  <2> QED
    BY <1>1, <2>1 DEF Gap
<1>3. op \in Ops /\ op[1] = "page" /\ op[2] = v /\ op[3] = page
  <2>1. page \in SUBSET Nat
    BY <1>2
  <2> QED
    BY <1>1, <2>1 DEF Ops
<1>4. \A o \in InFlight : ~Same(o, op)
  BY <1>3 DEF Same, Writers, Writes
<1>5. FlightOK(op)
  BY <1>2, <1>3 DEF FlightOK, LoadGap
<1>6. /\ Send(op) /\ accepted' = accepted
      /\ UNCHANGED <<events, pending, faults, settings, answers, running, taken, gone, questions, mode, kept, client>>
  BY <1>1 DEF LoadGap, storeVars, sentVars, listenVars, boundVars
<1>7. Sends(op)
  BY <1>3, <1>4, <1>5, <1>6 DEF Sends
<1> QED
  BY <1>3, <1>5, <1>6, <1>7, SendsKeep

\* A read of a listener that starts to wait.
LEMMA SendsRead ==
    ASSUME OutSane, OutInv, NEW op, Sends(op), op[1] = "read", NEW l \in Listeners, op[2] = l,
           \A o \in InFlight : o[1] = "page" => o[2] # l,
           mode' = [mode EXCEPT ![l] = "waiting"], kept' = kept, client' \in [Listeners -> Shown],
           \A x \in Listeners : x # l => client'[x] = client[x],
           ListenerOK(l)', NEW z, z = Len(queue) + 1, Unread(z)'
    PROVE  OutInv'
<1>1. OutType /\ Alone /\ Flights /\ InputInv /\ TakeInv /\ LastUnseen /\ HostOK /\ ListenersOK /\ ReadInv
  BY DEF OutInv
<1>2. InputInv' /\ accepted' \in Nat
  BY <1>1, SendsInput
<1>3. OutType'
  <2>1. mode \in [Listeners -> {"off", "waiting", "on"}] /\ kept \in [Listeners -> Seq(Update)]
    BY <1>1 DEF OutType
  <2>2. mode' \in [Listeners -> {"off", "waiting", "on"}] /\ kept' \in [Listeners -> Seq(Update)]
    BY <2>1
  <2> QED
    BY <1>1, <1>2, <2>2, SendsType
<1>4. Alone' /\ TakeInv' /\ LastUnseen' /\ Idle
  BY <1>1, SendsQueue
<1>5. HostOK'
  BY <1>1, <1>4, HostStays DEF Sends, Idle
<1>6. mode'[l] = "waiting" /\ \A x \in Listeners : x # l => mode'[x] = mode[x]
  BY <1>1 DEF OutType
<1>7. /\ \A j \in DOMAIN queue : ~(queue[j][1] = "read" /\ queue[j][2] = l)
          /\ ~(queue[j][1] = "page" /\ queue[j][2] = l)
      /\ \A k \in DOMAIN answers : ~(answers[k][1][1] = "read" /\ answers[k][1][2] = l)
                                   /\ ~(answers[k][1][1] = "page" /\ answers[k][1][2] = l)
  <2>1. ASSUME NEW o \in InFlight PROVE ~(o[1] = "read" /\ o[2] = l) /\ ~(o[1] = "page" /\ o[2] = l)
    BY DEF Sends, Same
  <2> QED
    BY <2>1, FlightMembers
<1>8. Flights'
  <2>1. /\ DOMAIN queue' = DOMAIN queue \cup {Len(queue) + 1}
        /\ \A j \in DOMAIN queue : queue'[j] = queue[j]
        /\ queue'[Len(queue) + 1] = op
    BY <1>1, SendFacts DEF Sends
  <2>2. ASSUME NEW o \in Ops, FlightOK(o), ~(o[1] = "page" /\ o[2] = l)
        PROVE  /\ o[1] = "read" => mode'[o[2]] # "on"
               /\ o[1] = "page" =>
                    /\ mode'[o[2]] # "waiting"
                    /\ mode'[o[2]] = "on" => \A n \in o[3] : \E a, b \in client'[o[2]].saved : a < n /\ n < b
    <3>1. o[1] \in {"read", "page"} => o[2] \in Listeners
      BY OpParts DEF Listeners
    <3>2. CASE o[1] = "read"
      <4>1. o[2] \in Listeners /\ mode[o[2]] # "on"
        BY <2>2, <3>1, <3>2 DEF FlightOK
      <4>2. mode'[o[2]] # "on"
        BY <4>1, <1>6
      <4> QED
        BY <4>2, <3>2
    <3>3. CASE o[1] = "page"
      <4>1. o[2] \in Listeners /\ o[2] # l
        BY <2>2, <3>1, <3>3
      <4>2. mode'[o[2]] = mode[o[2]] /\ client'[o[2]] = client[o[2]]
        BY <4>1, <1>6
      <4> QED
        BY <2>2, <3>3, <4>2 DEF FlightOK
    <3> QED
      BY <3>2, <3>3
  <2>3. ASSUME NEW j \in DOMAIN queue' PROVE FlightOK(queue[j])'
    <3>1. CASE j \in DOMAIN queue
      <4>1. PICK o : o = queue[j]
        OBVIOUS
      <4>2. o \in Ops /\ FlightOK(o) /\ ~(o[1] = "page" /\ o[2] = l) /\ queue'[j] = o
        BY <1>1, <1>7, <2>1, <3>1, <4>1, FlightType DEF Flights
      <4> QED
        BY <4>2, <2>2 DEF FlightOK
    <3>2. CASE j = Len(queue) + 1
      <4>1. queue'[j] = op
        BY <2>1, <3>2
      <4> QED
        BY <4>1, <1>6 DEF FlightOK
    <3> QED
      BY <2>1, <3>1, <3>2
  <2>4. ASSUME NEW k \in DOMAIN answers' PROVE FlightOK(answers[k][1])'
    <3>1. PICK o : o = answers'[k][1]
      OBVIOUS
    <3>2. answers' = answers
      BY DEF Sends
    <3>3. o \in Ops /\ FlightOK(o) /\ ~(o[1] = "page" /\ o[2] = l)
      BY <1>1, <1>7, <3>1, <3>2, FlightType DEF Flights
    <3> QED
      BY <3>1, <3>3, <2>2 DEF FlightOK
  <2> QED
    BY <2>3, <2>4 DEF Flights
<1>9. ListenersOK'
  <2>1. StoreStep /\ UNCHANGED <<running, questions>>
    BY <1>1, <1>4, IdleStep DEF Idle
  <2>2. ASSUME NEW x \in Listeners, x # l PROVE ListenerOK(x)'
    <3>1. StaysAt(x) /\ ListenerOK(x)
      BY <1>1, <1>6, <2>2 DEF StaysAt, ListenersOK
    <3> QED
      BY <3>1, <1>1, <2>1, ListenerStays
  <2>3. Listeners' = Listeners
    BY DEF Listeners
  <2>4. \A x \in Listeners : ListenerOK(x)'
    BY <2>2
  <2> QED
    BY <2>3, <2>4 DEF ListenersOK
<1>10. ReadInv'
  <2>1. UNCHANGED <<events, pending, faults, answers>> /\ op \in Ops /\ Send(op)
    BY DEF Sends
  <2>2. ~Reading(l)
    BY <1>7 DEF Reading
  <2>3. ASSUME NEW x \in Listeners, Reading(x), mode'[x] = "waiting" PROVE mode[x] = "waiting" /\ Waits(x)
    <3>1. x # l
      BY <2>2, <2>3
    <3>2. mode[x] = "waiting" /\ client'[x] = client[x]
      BY <3>1, <1>6, <2>3
    <3> QED
      BY <3>2, <2>1, WaitsStill
  <2>4. AllWait
    BY <2>3 DEF AllWait
  <2> QED
    BY <1>1, <2>1, <2>4, ReadInvSends
<1> QED
  BY <1>2, <1>3, <1>4, <1>5, <1>8, <1>9, <1>10 DEF OutInv

\* Hold::start keeps the invariant.
LEMMA LoadKeeps ==
    ASSUME OutSane, OutInv, NEW last \in 0 .. Newest, Load(last)
    PROVE  OutInv'
<1>1. OutType /\ Alone /\ Flights /\ InputInv /\ TakeInv /\ LastUnseen /\ HostOK /\ ListenersOK /\ ReadInv
  BY DEF OutInv
<1>2. PICK op : op = <<"read", Observer, last, "client">>
  OBVIOUS
<1>3. Newest \in Nat /\ last \in Nat /\ last <= Newest /\ Observer \in Listeners
  BY <1>1, NewestType DEF Listeners
<1>4. op \in Ops /\ op[1] = "read" /\ op[2] = Observer /\ op[3] = last
  BY <1>2, <1>3 DEF Ops
<1>5. /\ Send(op) /\ accepted' = accepted /\ mode[Observer] = "on" /\ 1 .. last \subseteq client[Observer].saved
      /\ mode' = [mode EXCEPT ![Observer] = "waiting"] /\ kept' = kept
      /\ UNCHANGED <<events, pending, faults, settings, answers, running, taken, gone, questions>>
  BY <1>2 DEF Load, Start, storeVars, sentVars
<1>6. ASSUME NEW o \in InFlight PROVE ~Same(o, op) /\ (o[1] = "page" => o[2] # Observer)
  <2>1. FlightOK(o) /\ o \in Ops
    BY <1>1, InFlightIs, FlightType DEF Flights
  <2>2. ~(o[1] = "read" /\ o[2] = Observer)
    BY <2>1, <1>5 DEF FlightOK
  <2>3. o[1] = "page" => o[2] # Observer
    BY <2>1, OpParts DEF OutSane
  <2> QED
    BY <2>2, <2>3, <1>4 DEF Same, Writers, Writes
<1>7. Sends(op)
  BY <1>4, <1>5, <1>6 DEF Sends
<1> DEFINE known == {n \in 1 .. last : events[n].settings}
<1>8. PICK set : set = IF known = {} THEN 0 ELSE Max(known)
  OBVIOUS
<1>9. set \in Nat
  <2>1. CASE known = {}
    BY <1>8, <2>1
  <2>2. CASE known # {}
    <3>1. known \in SUBSET (0 .. last)
      BY <1>3
    <3>2. Max(known) \in known
      <4> HIDE DEF known
      <4> QED
        BY <1>3, <2>2, <3>1, GreatestOf
    <3> QED
      BY <1>8, <2>2, <3>2, <1>3
  <2> QED
    BY <2>1, <2>2
<1>10. client' = client \/ client' = [client EXCEPT ![Observer] = Empty(last, set)]
  BY <1>8 DEF Load
<1>16. set = LET k == {n \in 1 .. last : events[n].settings} IN IF k = {} THEN 0 ELSE Max(k)
  BY <1>8
<1> HIDE DEF known
<1>11. client \in [Listeners -> Shown] /\ mode \in [Listeners -> {"off", "waiting", "on"}]
  BY <1>1 DEF OutType
<1>12. client' \in [Listeners -> Shown] /\ \A x \in Listeners : x # Observer => client'[x] = client[x]
  <2>1. Empty(last, set) \in Shown
    BY <1>3, <1>9 DEF Empty, Shown
  <2> QED
    BY <1>10, <1>11, <2>1
<1>13. 1 .. last \subseteq client'[Observer].saved
  <2>1. CASE client' = client
    BY <1>5, <2>1
  <2>2. CASE client' = [client EXCEPT ![Observer] = Empty(last, set)]
    <3>1. client'[Observer] = Empty(last, set)
      BY <2>2, <1>3, <1>11
    <3> QED
      BY <3>1 DEF Empty
  <2> QED
    BY <1>10, <2>1, <2>2
<1>14. ListenerOK(Observer)'
  <2>1. Idle /\ ListenerOK(Observer)
    BY <1>1, <1>3, <1>7, SendsQueue DEF ListenersOK
  <2>2. mode'[Observer] = "waiting" /\ kept'[Observer] = kept[Observer]
    BY <1>3, <1>5, <1>11
  <2>3. CASE client' = client
    <3>1. StoreStep /\ UNCHANGED <<running, questions>>
      BY <1>1, <2>1, IdleStep DEF Idle
    <3>2. StaysAt(Observer)
      BY <2>2, <2>3 DEF StaysAt
    <3> QED
      BY <1>1, <1>3, <2>1, <3>1, <3>2, ListenerStays
  <2>4. CASE client' = [client EXCEPT ![Observer] = Empty(last, set)]
    <3>1. client'[Observer] = Empty(last, set)
      BY <2>4, <1>3, <1>11
    <3> QED
      BY <1>1, <1>5, <1>16, <2>1, <2>2, <3>1, ListenerLoads
  <2> QED
    BY <1>10, <2>3, <2>4
<1>15. PICK z : z = Len(queue) + 1
  OBVIOUS
<1>17. Unread(z)'
  <2>1. queue'[z] = op
    BY <1>1, <1>4, <1>5, <1>15, SendFacts
  <2>2. DOMAIN kept'[Observer] = {}
    <3>1. kept[Observer] = <<>>
      BY <1>1, <1>3, <1>5 DEF ListenersOK, ListenerOK, ModeOK
    <3> QED
      BY <3>1, <1>5
  <2>3. Newest' = Newest
    BY <1>5 DEF Newest
  <2> QED
    BY <1>3, <1>4, <1>13, <2>1, <2>2, <2>3 DEF Unread
<1> QED
  BY <1>3, <1>4, <1>5, <1>6, <1>7, <1>12, <1>14, <1>15, <1>17, SendsRead

\* watch keeps the invariant.
LEMMA ViewKeeps ==
    ASSUME OutSane, OutInv, NEW v \in Views, View(v)
    PROVE  OutInv'
<1>1. OutType /\ Alone /\ Flights /\ InputInv /\ TakeInv /\ LastUnseen /\ HostOK /\ ListenersOK /\ ReadInv
  BY DEF OutInv
<1>2. PICK op : op = <<"read", v, settings, "task">>
  OBVIOUS
<1>3. Newest \in Nat /\ Newest >= 1 /\ settings \in Nat /\ settings <= Newest /\ v \in Listeners /\ v # Observer
  BY <1>1, NewestType DEF Listeners, OutType, OutSane
<1>4. op \in Ops /\ op[1] = "read" /\ op[2] = v /\ op[3] = settings
  BY <1>2, <1>3 DEF Ops
<1>5. /\ Send(op) /\ accepted' = accepted /\ mode[v] = "off" /\ client' = client
      /\ mode' = [mode EXCEPT ![v] = "waiting"] /\ kept' = kept
      /\ UNCHANGED <<events, pending, faults, settings, answers, running, taken, gone, questions>>
  BY <1>2 DEF View, Start, storeVars, sentVars
<1>6. ASSUME NEW o \in InFlight PROVE ~Same(o, op) /\ (o[1] = "page" => o[2] # v)
  <2>1. o[2] # v
    BY DEF View
  <2> QED
    BY <2>1, <1>4 DEF Same, Writers, Writes
<1>7. Sends(op)
  BY <1>4, <1>5, <1>6 DEF Sends
<1>8. client' \in [Listeners -> Shown] /\ \A x \in Listeners : x # v => client'[x] = client[x]
  BY <1>1, <1>5 DEF OutType
<1>9. kept[v] = <<>> /\ client[v] = Empty(1, 1)
  BY <1>1, <1>3, <1>5 DEF ListenersOK, ListenerOK, ModeOK
<1>10. Newest' = Newest
  BY <1>5 DEF Newest
<1>11. ListenerOK(v)'
  <2>1. mode'[v] # "on"
    BY <1>1, <1>3, <1>5 DEF OutType
  <2>2. kept'[v] = <<>> /\ client'[v] = Empty(1, 1) /\ Newest' \in Nat /\ Newest' >= 1
    BY <1>3, <1>5, <1>9, <1>10
  <2> QED
    BY <1>3, <2>1, <2>2, ListenerQuiet
<1>12. PICK z, mark : z = Len(queue) + 1 /\ mark = settings
  OBVIOUS
<1>13. /\ DOMAIN queue' = DOMAIN queue \cup {z} /\ DOMAIN queue = 1 .. Len(queue) /\ Len(queue) \in Nat
       /\ \A j \in DOMAIN queue : queue'[j] = queue[j]
       /\ queue'[z] = op
  BY <1>1, <1>4, <1>5, <1>12, SendFacts, FlightType
<1>14. ASSUME faults = 0
       PROVE  \/ \A n \in 1 .. Newest : events[n].settings => n <= mark
              \/ /\ \A h \in 1 .. z - 1 : queue'[h][1] \notin Writers
                 /\ \A n \in 1 .. Newest : events[n].settings => n <= mark \/ n = Newest
  <2>1. \A n \in 1 .. Newest : events[n].settings => n <= mark \/ Unseen(n)
    BY <1>1, <1>12, <1>14 DEF HostOK
  <2>2. \A n \in 1 .. Newest : Unseen(n) => n = Newest
    BY <1>1, <1>3 DEF LastUnseen
  <2>3. CASE \E n \in 1 .. Newest : Unseen(n)
    <3>1. PICK k \in DOMAIN answers : answers[k][1][1] \in Writers
      BY <2>3 DEF Unseen, Writers
    <3>2. \A j \in DOMAIN queue : queue[j][1] \notin Writers
      BY <1>1, <3>1 DEF Alone, Same
    <3>3. \A h \in 1 .. z - 1 : h \in DOMAIN queue
      BY <1>12, <1>13
    <3> QED
      BY <2>1, <2>2, <3>2, <3>3, <1>13
  <2>4. CASE ~\E n \in 1 .. Newest : Unseen(n)
    BY <2>1, <2>4
  <2> QED
    BY <2>3, <2>4
<1>15. Unread(z)'
  <2>1. DOMAIN kept'[v] = {}
    BY <1>5, <1>9
  <2>2. queue'[z][2] = v /\ queue'[z][3] = mark
    BY <1>4, <1>12, <1>13
  <2>3. mark <= Newest'
    BY <1>3, <1>10, <1>12
  <2>4. UNCHANGED <<events, faults>>
    BY <1>5
  <2> QED
    BY <1>3, <1>10, <1>14, <2>1, <2>2, <2>3, <2>4 DEF Unread
<1> QED
  BY <1>3, <1>4, <1>5, <1>6, <1>7, <1>8, <1>11, <1>12, <1>15, SendsRead
-----------------------------------------------------------------------------
(***************************************************************************)
(* An update is published.                                                 *)
(***************************************************************************)

\* Nothing of a listener is in flight.
Away(l) ==
    /\ \A j \in DOMAIN queue : ~(queue[j][1] \in {"read", "page"} /\ queue[j][2] = l)
    /\ \A k \in DOMAIN answers : ~(answers[k][1][1] \in {"read", "page"} /\ answers[k][1][2] = l)

\* A listener that leaves, or stays with its events.
Lands(l) == mode'[l] = "off" \/ (mode'[l] = mode[l] /\ client[l].saved \subseteq client'[l].saved)

\* The reads and the pages in flight fit the listeners that stay or leave.
LEMMA FlightsStay ==
    ASSUME OutSane, OutType, Flights, UNCHANGED queue,
           \A i \in DOMAIN answers' : \E k \in DOMAIN answers : answers'[i] = answers[k],
           \A l \in Listeners : Lands(l) \/ Away(l)'
    PROVE  Flights'
<1>1. ASSUME NEW o \in Ops, FlightOK(o), o[1] \in {"read", "page"} => ~Away(o[2])'
      PROVE  /\ o[1] = "read" => mode'[o[2]] # "on"
             /\ o[1] = "page" =>
                  /\ mode'[o[2]] # "waiting"
                  /\ mode'[o[2]] = "on" => \A n \in o[3] : \E a, b \in client'[o[2]].saved : a < n /\ n < b
  <2>1. o[1] \in {"read", "page"} => o[2] \in Listeners
    BY OpParts DEF Listeners
  <2>2. o[1] \in {"read", "page"} => Lands(o[2])
    BY <1>1, <2>1
  <2>3. CASE o[1] = "read"
    BY <1>1, <2>2, <2>3 DEF FlightOK, Lands
  <2>4. CASE o[1] = "page"
    <3>1. PICK l : l = o[2]
      OBVIOUS
    <3>2. mode'[l] # "waiting"
      BY <1>1, <2>2, <2>4, <3>1 DEF FlightOK, Lands
    <3>3. ASSUME mode'[l] = "on", NEW n \in o[3] PROVE \E a, b \in client'[l].saved : a < n /\ n < b
      <4>1. mode[l] = "on" /\ client[l].saved \subseteq client'[l].saved
        BY <2>2, <2>4, <3>1, <3>3 DEF Lands
      <4>2. \E a, b \in client[l].saved : a < n /\ n < b
        BY <1>1, <2>4, <3>1, <3>3, <4>1 DEF FlightOK
      <4> QED
        BY <4>1, <4>2
    <3> QED
      BY <2>4, <3>1, <3>2, <3>3
  <2> QED
    BY <2>3, <2>4
<1>2. ASSUME NEW j \in DOMAIN queue' PROVE FlightOK(queue[j])'
  <2>1. PICK o, l : o = queue'[j] /\ l = o[2]
    OBVIOUS
  <2>2. o \in Ops /\ FlightOK(o)
    BY <1>2, <2>1, FlightType DEF Flights
  <2>3. o[1] \in {"read", "page"} => ~Away(l)'
    BY <1>2, <2>1 DEF Away
  <2>4. o[1] \in {"read", "page"} => ~Away(o[2])'
    BY <2>1, <2>3 DEF Away
  <2> QED
    BY <1>1, <2>1, <2>2, <2>4 DEF FlightOK
<1>3. ASSUME NEW i \in DOMAIN answers' PROVE FlightOK(answers[i][1])'
  <2>1. PICK o, l : o = answers'[i][1] /\ l = o[2]
    OBVIOUS
  <2>2. o \in Ops /\ FlightOK(o)
    BY <1>3, <2>1, FlightType DEF Flights
  <2>4. o[1] \in {"read", "page"} => ~Away(o[2])'
    BY <1>3, <2>1 DEF Away
  <2> QED
    BY <1>1, <2>1, <2>2, <2>4 DEF FlightOK
<1> QED
  BY <1>2, <1>3 DEF Flights

\* A listener that waits keeps what an answer says.
LEMMA SaidWaits ==
    ASSUME OutSane, OutType, Alone, InputInv, LastUnseen, NEW u, Said(u), NEW l \in Listeners, mode[l] = "waiting"
    PROVE  Waits(l)
<1>1. /\ Admits(u) => kept'[l] = Append(kept[l], u)
      /\ ~Admits(u) => kept'[l] = kept[l]
      /\ client'[l] = client[l]
  <2>1. Fresh(u) /\ Publish(u)
    BY DEF Said
  <2> QED
    BY <2>1, PublishFacts
<1>2. /\ u \in Update /\ u = <<u[1], u[2]>>
      /\ u[1] = "saved" => u[2] = Newest
      /\ u[1] = "accepted" => ~Consumes(u[2]) /\ u[2] \in Nat
  BY SaidFacts
<1>3. /\ \A x : Kept(l, x) => Kept(l, x)'
      /\ Admits(u) => Kept(l, u)'
      /\ \A h \in DOMAIN kept'[l] : Kept(l, kept'[l][h]) \/ (Admits(u) /\ kept'[l][h] = u)
  <2>1. CASE Admits(u)
    <3>1. kept'[l] = Append(kept[l], u)
      BY <1>1, <2>1
    <3>2. /\ DOMAIN kept'[l] = DOMAIN kept[l] \cup {Len(kept[l]) + 1}
          /\ \A k \in DOMAIN kept[l] : kept'[l][k] = kept[l][k]
          /\ kept'[l][Len(kept[l]) + 1] = u
          /\ \A x : Kept(l, x)' <=> Kept(l, x) \/ x = u
      BY <3>1, KeptGrows
    <3> QED
      BY <3>2, <2>1 DEF Kept
  <2>2. CASE ~Admits(u)
    <3>1. kept'[l] = kept[l]
      BY <1>1, <2>2
    <3> QED
      BY <3>1, <2>2, KeptStays DEF Kept
  <2> QED
    BY <2>1, <2>2
<1>4. u[1] # "accepted" => Admits(u)
  BY DEF Admits
<1>5. ASSUME NEW n \in 1 .. Newest, Unseen(n), ~Unseen(n)' PROVE Keeps(l, n)'
  <2>1. u = <<"saved", n>>
    BY <1>5 DEF Said
  <2>2. Kept(l, <<"saved", n>>)'
    BY <2>1, <1>3, <1>4 DEF Kept
  <2> QED
    BY <2>2 DEF Kept, Keeps
<1>6. ASSUME NEW i \in pending, Answered(i), ~Answered(i)' PROVE Kept(l, <<"accepted", i>>)'
  <2>1. u = <<"accepted", i>>
    BY <1>6 DEF Said
  <2>2. i \notin gone
    <3>1. i \in Nat
      BY DEF OutType
    <3> QED
      BY <3>1 DEF InputInv, Gone
  <2>3. Admits(u)
    BY <2>1, <2>2 DEF Admits
  <2> QED
    BY <2>1, <2>3, <1>3 DEF Kept
<1>7. ASSUME NEW i, Removing(i), ~Removing(i)' PROVE Kept(l, <<"removed", i>>)'
  <2>1. u = <<"removed", i>>
    BY <1>7 DEF Said
  <2> QED
    BY <2>1, <1>3, <1>4 DEF Kept
<1>8. NewKept(u)
  <2>1. ASSUME u[1] = "saved" PROVE \A h \in DOMAIN queue : queue[h][1] \notin Writers
    <3>1. PICK k \in DOMAIN answers : answers[k][1][1] \in Writers
      BY <2>1 DEF Said, Unseen, Writers
    <3> QED
      BY <3>1 DEF Alone, Same
  <2>2. ASSUME u[1] = "accepted" PROVE ~InCommit(u[2])
    <3>1. Answered(u[2]) /\ u[2] \in Nat
      BY <2>2, <1>2 DEF Said
    <3> QED
      BY <3>1 DEF InputInv, Carried
  <2> QED
    BY <1>2, <2>1, <2>2 DEF NewKept
<1>9. \A h \in DOMAIN kept'[l] : Kept(l, kept'[l][h]) \/ NewKept(kept'[l][h])
  BY <1>3, <1>8
<1> QED
  BY <1>1, <1>3, <1>5, <1>6, <1>7, <1>9 DEF Waits, Said

\* What a published update keeps.
LEMMA SaidKeeps ==
    ASSUME OutSane, OutInv, NEW u, Said(u)
    PROVE  /\ ListenersOK' /\ AllWait
           /\ mode' \in [Listeners -> {"off", "waiting", "on"}]
           /\ kept' \in [Listeners -> Seq(Update)] /\ client' \in [Listeners -> Shown] /\ gone' \subseteq Nat
           /\ \A l \in Listeners : Lands(l)
           /\ gone' = IF Admits(u) THEN gone \cup Leaves(u) ELSE gone
<1>1. OutType /\ Alone /\ Flights /\ InputInv /\ TakeInv /\ LastUnseen /\ HostOK /\ ListenersOK /\ ReadInv
  BY DEF OutInv
<1>2. Fresh(u) /\ Publish(u)
  BY DEF Said
<1>3. /\ UNCHANGED mode
      /\ kept' \in [Listeners -> Seq(Update)] /\ client' \in [Listeners -> Shown] /\ gone' \subseteq Nat
      /\ gone' = IF Admits(u) THEN gone \cup Leaves(u) ELSE gone
      /\ \A l \in Listeners :
           /\ Admits(u) /\ mode[l] = "on" => client'[l] = Show(l, client[l], u)
           /\ ~Admits(u) \/ mode[l] # "on" => client'[l] = client[l]
  BY <1>1, <1>2, PublishFacts
<1>4. mode' \in [Listeners -> {"off", "waiting", "on"}]
  BY <1>1, <1>3 DEF OutType
<1>5. AllWait
  BY <1>1, <1>3, SaidWaits DEF AllWait
<1>6. ASSUME NEW l \in Listeners PROVE Lands(l)
  <2>1. client[l].saved \subseteq client'[l].saved
    <3>1. CASE client'[l] = client[l]
      BY <3>1
    <3>2. CASE client'[l] = Show(l, client[l], u)
      <4>1. client[l] \in Shown
        BY <1>1, KeptType
      <4>2. OneShown(l, client[l], u, client'[l])
        BY <1>1, <1>2, <3>2, <4>1, ShowOne
      <4> QED
        BY <4>2 DEF OneShown
    <3> QED
      BY <1>3, <3>1, <3>2
  <2> QED
    BY <2>1, <1>3 DEF Lands
<1>7. ListenersOK'
  BY <1>1, ListenersSaid
<1> QED
  BY <1>3, <1>4, <1>5, <1>6, <1>7

\* An update of the live state.
LiveUpdate(u) ==
    /\ Fresh(u) /\ u[1] \in {"state", "asked", "closed"} /\ Publish(u) /\ LiveStep(u)
    /\ UNCHANGED <<events, pending, faults, queue, answers, accepted>>
    /\ taken' = taken \/ taken' = {}
    /\ running' \in BOOLEAN /\ questions' \subseteq Questions /\ settings' \in 0 .. Newest

\* An update of the live state or of a question keeps the invariant.
LEMMA LiveKeeps ==
    ASSUME OutSane, OutInv, NEW u, LiveUpdate(u), HostOK'
    PROVE  OutInv'
<1>1. OutType /\ Alone /\ Flights /\ InputInv /\ TakeInv /\ LastUnseen /\ HostOK /\ ListenersOK /\ ReadInv
  BY DEF OutInv
<1>2. UNCHANGED <<events, pending, faults, queue, answers, accepted>> /\ Newest' = Newest
  BY DEF LiveUpdate, Newest
<1>3. /\ \A n : Unseen(n)' <=> Unseen(n)
      /\ \A i : Removing(i)' <=> Removing(i)
      /\ \A i : Answered(i)' <=> Answered(i)
      /\ \A i : Taken(i)' <=> Taken(i)
  BY <1>2, StaySays
<1>4. Said(u)
  <2>1. u[1] \notin {"saved", "accepted", "removed"}
    BY DEF LiveUpdate
  <2>2. \A n : u # <<"saved", n>>
    BY <2>1
  <2> QED
    BY <1>3, <2>1, <2>2 DEF Said, LiveUpdate
<1>5. /\ ListenersOK' /\ AllWait
      /\ mode' \in [Listeners -> {"off", "waiting", "on"}]
      /\ kept' \in [Listeners -> Seq(Update)] /\ client' \in [Listeners -> Shown] /\ gone' \subseteq Nat
      /\ \A l \in Listeners : Lands(l)
      /\ gone' = IF Admits(u) THEN gone \cup Leaves(u) ELSE gone
  BY <1>4, SaidKeeps
<1>6. gone' = gone
  <2>1. Leaves(u) = {}
    BY DEF LiveUpdate, Leaves
  <2> QED
    BY <1>5, <2>1
<1>7. OutType'
  <2>1. ASSUME NEW k \in DOMAIN answers' PROVE ResultOK(answers[k][1], answers[k][2])'
    BY <1>1, <1>2, <2>1 DEF OutType, ResultOK
  <2>2. taken' \subseteq Nat /\ running' \in BOOLEAN /\ questions' \subseteq Questions /\ settings' \in 0 .. Newest'
    BY <1>1, <1>2 DEF LiveUpdate, OutType
  <2> QED
    BY <1>1, <1>2, <1>5, <2>1, <2>2 DEF OutType
<1>8. Alone' /\ TakeInv' /\ LastUnseen'
  BY <1>1, <1>2, <1>3, AloneStays DEF TakeInv, LastUnseen
<1>9. InputInv'
  <2>1. \A i : InQueue(i)' <=> InQueue(i)
    BY <1>2, QueueStays
  <2>2. \A i : Consumes(i)' <=> Consumes(i)
    BY <1>2, EventsStay
  <2>3. \A i : Gone(i)' <=> Gone(i)
    BY <1>3, <1>6, <2>2 DEF Gone
  <2>4. \A i : InCommit(i)' <=> InCommit(i)
    BY <1>2, QueueStays
  <2>5. \A i : Carried(i)' => Carried(i)
    BY <2>4 DEF Carried, LiveUpdate
  <2> QED
    BY <1>1, <1>2, <1>3, <2>1, <2>2, <2>3, <2>5, InputSame
<1>10. Flights'
  BY <1>1, <1>2, <1>5, FlightsStay
<1>11. ReadInv'
  BY <1>1, <1>2, <1>5, ReadInvStays
<1> QED
  BY <1>5, <1>7, <1>8, <1>9, <1>10, <1>11 DEF OutInv

\* The settings of the host stay right while nothing of the store changes.
LEMMA HostKeeps ==
    ASSUME OutInv, UNCHANGED <<events, faults, settings, answers>>
    PROVE  HostOK'
BY StaySays, HostStays DEF OutInv

\* An update of the live state is an update.
LEMMA StateFresh ==
    ASSUME NEW state \in BOOLEAN
    PROVE  Fresh(<<"state", state>>)
BY DEF Fresh, Update

\* An update of a question is an update.
LEMMA QuestionFresh ==
    ASSUME NEW q \in Questions
    PROVE  Fresh(<<"asked", q>>) /\ Fresh(<<"closed", q>>)
BY DEF Fresh, Update

\* start_turn keeps the invariant: the host takes its settings from the saved events.
LEMMA StartTurnKeeps ==
    ASSUME OutSane, OutInv, StartTurn
    PROVE  OutInv'
<1>1. PICK u : u = <<"state", TRUE>>
  OBVIOUS
<1>2. Fresh(u) /\ u[1] = "state" /\ u[2] = TRUE
  BY <1>1, StateFresh
<1>3. /\ Publish(u) /\ running' = TRUE /\ taken' = {} /\ settings' = Newer(Observer, settings, 1 .. Newest)
      /\ UNCHANGED <<events, pending, faults, queue, answers, accepted, questions>>
  BY <1>1 DEF StartTurn, SetState, Start
<1>4. OutType /\ Newest \in Nat /\ settings \in 0 .. Newest /\ questions \subseteq Questions
  BY NewestType DEF OutInv, OutType
<1>5. /\ settings' \in 0 .. Newest
      /\ \A n \in 1 .. Newest : events[n].settings => n <= settings'
  <2> DEFINE new == {n \in 1 .. Newest : events[n].settings /\ (Observer = Observer => n > settings)}
  <2>1. \A n : n \in new <=> n \in 1 .. Newest /\ events[n].settings /\ n > settings
    OBVIOUS
  <2>2. \/ new = {} /\ Newer(Observer, settings, 1 .. Newest) = settings
        \/ /\ Newer(Observer, settings, 1 .. Newest) \in new
           /\ \A n \in new : n <= Newer(Observer, settings, 1 .. Newest)
    <3>1. settings \in Nat /\ 1 .. Newest \in SUBSET (1 .. Newest) /\ OutType
      BY <1>4
    <3> QED
      BY ONLY <3>1, NewerOf
  <2> HIDE DEF new
  <2>3. ASSUME NEW n \in 1 .. Newest, events[n].settings PROVE n \in new \/ n <= settings
    BY <1>4, <2>1, <2>3
  <2>4. \A n \in new : n \in 1 .. Newest /\ n > settings
    BY <2>1
  <2>5. CASE new = {}
    BY <1>3, <1>4, <2>2, <2>3, <2>5
  <2>6. CASE new # {}
    <3>1. settings' \in new /\ \A n \in new : n <= settings'
      BY <1>3, <2>2, <2>6
    <3>2. settings' \in Nat /\ settings' > settings /\ settings' <= Newest
      BY <3>1, <2>4, <1>4
    <3> QED
      BY <3>1, <3>2, <2>3, <1>4
  <2> QED
    BY <2>5, <2>6
<1>6. LiveUpdate(u)
  BY <1>2, <1>3, <1>4, <1>5 DEF LiveUpdate, LiveStep
<1>7. HostOK'
  <2>1. Newest' = Newest /\ UNCHANGED events
    BY <1>3 DEF Newest
  <2> QED
    BY <2>1, <1>5 DEF HostOK
<1> QED
  BY <1>6, <1>7, LiveKeeps

\* finish_turn keeps the invariant.
LEMMA FinishTurnKeeps ==
    ASSUME OutSane, OutInv, FinishTurn
    PROVE  OutInv'
<1>1. PICK u : u = <<"state", FALSE>>
  OBVIOUS
<1>2. Fresh(u) /\ u[1] = "state" /\ u[2] = FALSE
  BY <1>1, StateFresh
<1>3. /\ Publish(u) /\ running' = FALSE /\ taken' = {}
      /\ UNCHANGED <<events, pending, faults, settings, queue, answers, accepted, questions>>
  BY <1>1 DEF FinishTurn, SetState, boundVars
<1>4. settings \in 0 .. Newest /\ questions \subseteq Questions
  BY DEF OutInv, OutType
<1>5. LiveUpdate(u)
  BY <1>2, <1>3, <1>4 DEF LiveUpdate, LiveStep
<1> QED
  BY <1>3, <1>5, HostKeeps, LiveKeeps

\* ask keeps the invariant.
LEMMA AskKeeps ==
    ASSUME OutSane, OutInv, NEW q \in Questions, Ask(q)
    PROVE  OutInv'
<1>1. PICK u : u = <<"asked", q>>
  OBVIOUS
<1>2. Fresh(u) /\ u[1] = "asked" /\ u[2] = q
  BY <1>1, QuestionFresh
<1>3. /\ Publish(u) /\ questions' = questions \cup {q}
      /\ UNCHANGED <<events, pending, faults, settings, queue, answers, accepted, running, taken>>
  BY <1>1 DEF Ask, Start, storeVars
<1>4. settings \in 0 .. Newest /\ questions \subseteq Questions /\ running \in BOOLEAN
  BY DEF OutInv, OutType
<1>5. LiveUpdate(u)
  BY <1>2, <1>3, <1>4 DEF LiveUpdate, LiveStep
<1> QED
  BY <1>3, <1>5, HostKeeps, LiveKeeps

\* The end of a question keeps the invariant.
LEMMA CloseKeeps ==
    ASSUME OutSane, OutInv, NEW q \in Questions, CloseQuestion(q)
    PROVE  OutInv'
<1>1. PICK u : u = <<"closed", q>>
  OBVIOUS
<1>2. Fresh(u) /\ u[1] = "closed" /\ u[2] = q
  BY <1>1, QuestionFresh
<1>3. /\ Publish(u) /\ questions' = questions \ {q}
      /\ UNCHANGED <<events, pending, faults, settings, queue, answers, accepted, running, taken>>
  BY <1>1 DEF CloseQuestion, storeVars, boundVars
<1>4. settings \in 0 .. Newest /\ questions \subseteq Questions /\ running \in BOOLEAN
  BY DEF OutInv, OutType
<1>5. LiveUpdate(u)
  BY <1>2, <1>3, <1>4 DEF LiveUpdate, LiveStep
<1> QED
  BY <1>3, <1>5, HostKeeps, LiveKeeps
-----------------------------------------------------------------------------
(***************************************************************************)
(* The views leave.                                                        *)
(***************************************************************************)
Quiet(l) == l # Observer /\ mode'[l] = "off" /\ kept'[l] = <<>> /\ client'[l] = Empty(1, 1)
Same1(l) == mode'[l] = mode[l] /\ kept'[l] = kept[l] /\ client'[l] = client[l]

\* Views that leave keep the invariant.
LEMMA LeaveKeeps ==
    ASSUME OutSane, OutInv,
           UNCHANGED <<events, pending, faults, settings, queue, answers, running, taken, gone, questions, accepted>>,
           mode' \in [Listeners -> {"off", "waiting", "on"}], ForgetOff, mode'[Observer] = mode[Observer],
           \A l \in Listeners : mode'[l] = "off" \/ mode'[l] = mode[l]
    PROVE  OutInv'
<1>1. OutType /\ Alone /\ Flights /\ InputInv /\ TakeInv /\ LastUnseen /\ HostOK /\ ListenersOK /\ ReadInv
  BY DEF OutInv
<1>2. Newest' = Newest /\ Newest \in Nat /\ Newest >= 1 /\ Observer \in Listeners
  BY <1>1, NewestType DEF Newest, Listeners
<1>3. /\ kept' = [l \in Listeners |-> IF mode'[l] = "off" THEN <<>> ELSE kept[l]]
      /\ client' = [l \in Listeners |-> IF mode'[l] = "off" THEN Empty(1, 1) ELSE client[l]]
  BY DEF ForgetOff
<1>4. ASSUME NEW l \in Listeners PROVE Quiet(l) \/ Same1(l)
  <2>1. CASE mode'[l] = "off"
    <3>1. kept'[l] = <<>> /\ client'[l] = Empty(1, 1)
      BY <1>3, <2>1
    <3>2. l # Observer
      BY <1>1, <1>2, <2>1 DEF ListenersOK, ListenerOK, ModeOK
    <3> QED
      BY <2>1, <3>1, <3>2 DEF Quiet
  <2>2. CASE mode'[l] # "off"
    BY <1>3, <2>2 DEF Same1
  <2> QED
    BY <2>1, <2>2
<1>5. kept' \in [Listeners -> Seq(Update)] /\ client' \in [Listeners -> Shown]
  <2>1. Empty(1, 1) \in Shown
    BY DEF Empty, Shown
  <2>2. kept \in [Listeners -> Seq(Update)] /\ client \in [Listeners -> Shown]
    BY <1>1 DEF OutType
  <2> QED
    BY <1>3, <2>1, <2>2
<1>6. OutType'
  <2>1. ASSUME NEW k \in DOMAIN answers' PROVE ResultOK(answers[k][1], answers[k][2])'
    BY <1>1, <1>2, <2>1 DEF OutType, ResultOK
  <2> QED
    BY <1>1, <1>2, <1>5, <2>1 DEF OutType
<1>7. /\ \A n : Unseen(n)' <=> Unseen(n)
      /\ \A i : Removing(i)' <=> Removing(i)
      /\ \A i : Answered(i)' <=> Answered(i)
      /\ \A i : Taken(i)' <=> Taken(i)
  BY StaySays
<1>8. Alone' /\ TakeInv' /\ LastUnseen'
  BY <1>1, <1>2, <1>7, AloneStays DEF TakeInv, LastUnseen
<1>9. InputInv'
  <2>1. \A i : (InQueue(i)' <=> InQueue(i)) /\ (InCommit(i)' <=> InCommit(i))
    BY QueueStays
  <2>2. \A i : Consumes(i)' <=> Consumes(i)
    BY EventsStay
  <2>3. \A i : Gone(i)' <=> Gone(i)
    BY <1>7, <2>2 DEF Gone
  <2>4. \A i : Carried(i)' => Carried(i)
    BY <2>1 DEF Carried
  <2> QED
    BY <1>1, <1>7, <2>1, <2>2, <2>3, <2>4, InputSame
<1>10. Flights'
  <2>1. \A l \in Listeners : Lands(l)
    BY <1>4 DEF Lands, Quiet, Same1
  <2> QED
    BY <1>1, <2>1, FlightsStay
<1>11. Idle
  BY <1>7 DEF Idle
<1>12. ASSUME NEW l \in Listeners PROVE ListenerOK(l)'
  <2>1. CASE Quiet(l)
    <3>1. l # Observer /\ mode'[l] # "on" /\ kept'[l] = <<>> /\ client'[l] = Empty(1, 1)
          /\ Newest' \in Nat /\ Newest' >= 1
      BY <1>2, <2>1 DEF Quiet
    <3> QED
      BY <3>1, ListenerQuiet
  <2>2. CASE Same1(l)
    <3>1. StoreStep /\ UNCHANGED <<running, questions>>
      BY <1>1, <1>11, IdleStep
    <3>2. StaysAt(l) /\ ListenerOK(l)
      BY <1>1, <2>2 DEF StaysAt, Same1, ListenersOK
    <3> QED
      BY <1>1, <3>1, <3>2, ListenerStays
  <2> QED
    BY <1>4, <2>1, <2>2
<1>13. Listeners' = Listeners
  BY DEF Listeners
<1>14. ReadInv'
  <2>1. ASSUME NEW l \in Listeners, Reading(l), mode'[l] = "waiting" PROVE mode[l] = "waiting" /\ Waits(l)
    <3>1. Same1(l)
      BY <1>4, <2>1 DEF Quiet
    <3> QED
      BY <2>1, <3>1, WaitsStill DEF Same1
  <2>2. AllWait
    BY <2>1 DEF AllWait
  <2> QED
    BY <1>1, <2>2, ReadInvStays
<1>15. HostOK'
  BY HostKeeps
<1>16. ListenersOK'
  BY <1>12, <1>13 DEF ListenersOK
<1> QED
  BY <1>6, <1>8, <1>9, <1>10, <1>14, <1>15, <1>16 DEF OutInv

\* A view that drops keeps the invariant.
LEMMA DropViewKeeps ==
    ASSUME OutSane, OutInv, NEW v \in Views, DropView(v)
    PROVE  OutInv'
<1>1. /\ UNCHANGED <<events, pending, faults, settings, queue, answers, running, taken, gone, questions, accepted>>
      /\ mode' = [mode EXCEPT ![v] = "off"] /\ ForgetOff
  BY DEF DropView, Leave, storeVars, sentVars, boundVars
<1>2. mode \in [Listeners -> {"off", "waiting", "on"}] /\ v \in Listeners /\ v # Observer /\ Observer \in Listeners
  BY DEF OutInv, OutType, Listeners, OutSane
<1>3. /\ mode' \in [Listeners -> {"off", "waiting", "on"}] /\ mode'[Observer] = mode[Observer]
      /\ \A l \in Listeners : mode'[l] = "off" \/ mode'[l] = mode[l]
  BY <1>1, <1>2
<1> QED
  BY <1>1, <1>3, LeaveKeeps

\* The close of a session ends its views and keeps the invariant.
LEMMA EndViewsKeeps ==
    ASSUME OutSane, OutInv, EndViews
    PROVE  OutInv'
<1>1. /\ UNCHANGED <<events, pending, faults, settings, queue, answers, running, taken, gone, questions, accepted>>
      /\ mode' = [l \in Listeners |-> IF l = Observer THEN mode[l] ELSE "off"] /\ ForgetOff
  BY DEF EndViews, storeVars, boundVars
<1>2. mode \in [Listeners -> {"off", "waiting", "on"}] /\ Observer \in Listeners
  BY DEF OutInv, OutType, Listeners
<1>3. /\ mode' \in [Listeners -> {"off", "waiting", "on"}] /\ mode'[Observer] = mode[Observer]
      /\ \A l \in Listeners : mode'[l] = "off" \/ mode'[l] = mode[l]
  BY <1>1, <1>2
<1> QED
  BY <1>1, <1>3, LeaveKeeps
-----------------------------------------------------------------------------
(***************************************************************************)
(* An answer reaches its caller.                                           *)
(***************************************************************************)
GoesOn(k) ==
    /\ Goes1(k) /\ (k = 1 \/ answers[k][1][4] = "client")
    /\ UNCHANGED <<events, pending, queue, running, questions, accepted, faults>>

\* The parts of the invariant that no caller of an answer disturbs.
LEMMA GoesKeep ==
    ASSUME OutSane, OutInv, NEW k, GoesOn(k),
           mode' \in [Listeners -> {"off", "waiting", "on"}], kept' \in [Listeners -> Seq(Update)],
           client' \in [Listeners -> Shown], gone' \subseteq Nat, settings' \in 0 .. Newest, taken' \subseteq Nat,
           ListenersOK', AllWait, HostOK', InputInv', \A l \in Listeners : Lands(l) \/ Away(l)'
    PROVE  OutInv'
<1>1. OutType /\ Alone /\ Flights /\ InputInv /\ TakeInv /\ LastUnseen /\ HostOK /\ ListenersOK /\ ReadInv
  BY DEF OutInv
<1>2. Goes1(k) /\ UNCHANGED <<events, pending, queue, running, questions, accepted, faults>> /\ Newest' = Newest
  BY DEF GoesOn, Newest
<1>3. /\ k \in Nat /\ answers' \in Seq(Ops \X Results)
      /\ \A j \in DOMAIN answers' : j \in Nat /\ Old(k, j) \in DOMAIN answers /\ answers'[j] = answers[Old(k, j)]
      /\ \A i, j \in DOMAIN answers' : i < j <=> Old(k, i) < Old(k, j)
  BY <1>1, <1>2, GoFacts
<1>4. OutType'
  <2>1. ASSUME NEW j \in DOMAIN answers' PROVE ResultOK(answers[j][1], answers[j][2])'
    <3>1. PICK g \in DOMAIN answers : answers'[j] = answers[g]
      BY <1>3, <2>1
    <3>2. ResultOK(answers[g][1], answers[g][2])
      BY <1>1 DEF OutType
    <3> QED
      BY <1>2, <3>1, <3>2 DEF ResultOK
  <2> QED
    BY <1>1, <1>2, <1>3, <2>1 DEF OutType
<1>5. Alone'
  BY <1>1, <1>2, AloneGoes
<1>6. TakeInv'
  BY <1>1, <1>3 DEF TakeInv
<1>7. LastUnseen'
  <2>1. \A n : Unseen(n)' => Unseen(n)
    BY <1>1, <1>2, GoSays
  <2>2. ASSUME NEW j \in DOMAIN answers', answers'[j][1][1] \in {"commit", "recover"}, answers'[j][2] # 0
        PROVE  ~events'[answers'[j][2]].settings
    <3>1. PICK g \in DOMAIN answers : answers'[j] = answers[g]
      BY <1>3, <2>2
    <3> QED
      BY <1>1, <1>2, <2>2, <3>1 DEF LastUnseen
  <2> QED
    BY <1>1, <1>2, <2>1, <2>2 DEF LastUnseen
<1>8. Flights'
  <2>1. \A i \in DOMAIN answers' : \E g \in DOMAIN answers : answers'[i] = answers[g]
    BY <1>3
  <2> QED
    BY <1>1, <1>2, <2>1, FlightsStay
<1>9. ReadInv'
  BY <1>1, <1>2, ReadInvGoes
<1> QED
  BY <1>4, <1>5, <1>6, <1>7, <1>8, <1>9 DEF OutInv

\* The inputs that left are the same after a published answer.
LEMMA GoneSaid ==
    ASSUME OutSane, OutInv, NEW u, Said(u), \A i : Removing(i)' => Removing(i)
    PROVE  \A i : Gone(i)' <=> Gone(i)
<1>1. OutType /\ InputInv /\ LastUnseen
  BY DEF OutInv
<1>2. gone' = IF Admits(u) THEN gone \cup Leaves(u) ELSE gone
  BY SaidKeeps
<1>3. \A i : Consumes(i)' <=> Consumes(i)
  BY <1>1, SaidFacts
<1>4. ASSUME NEW i \in Leaves(u) PROVE Consumes(i) \/ Removing(i)
  <2>1. CASE u[1] = "saved"
    <3>1. u[2] \in 1 .. Newest /\ i \in UNION {events[n].consumed : n \in {u[2]}}
      BY <1>4, <2>1 DEF Said, Fresh, Leaves, Consumed
    <3> QED
      BY <3>1 DEF Consumes
  <2>2. CASE u[1] = "removed"
    <3>1. i = u[2]
      BY <1>4, <2>2 DEF Leaves
    <3> QED
      BY <3>1, <2>2 DEF Said
  <2>3. CASE u[1] \notin {"saved", "removed"}
    BY <1>4, <2>3 DEF Leaves
  <2> QED
    BY <2>1, <2>2, <2>3
<1>5. ASSUME NEW i, Removing(i), ~Removing(i)' PROVE i \in gone'
  <2>1. u = <<"removed", i>>
    BY <1>5 DEF Said
  <2>2. Admits(u) /\ Leaves(u) = {i}
    BY <2>1 DEF Admits, Leaves
  <2> QED
    BY <1>2, <2>2
<1>6. \A i : i \in gone' => i \in gone \/ Consumes(i) \/ Removing(i)
  BY <1>2, <1>4
<1>7. \A i : i \in gone => i \in gone'
  BY <1>2
<1> QED
  BY <1>3, <1>5, <1>6, <1>7 DEF Gone

\* The places of the inputs after an answer that moves none.
LEMMA GoesInput ==
    ASSUME OutInv, NEW k, GoesOn(k), taken' = taken, \A i : Gone(i)' <=> Gone(i)
    PROVE  InputInv'
<1>1. OutType /\ InputInv /\ UNCHANGED <<events, pending, queue, accepted>> /\ Goes1(k)
  BY DEF OutInv, GoesOn
<1>2. \A i : (InQueue(i)' <=> InQueue(i)) /\ (InCommit(i)' <=> InCommit(i))
  BY <1>1, QueueStays
<1>3. \A i : Consumes(i)' <=> Consumes(i)
  BY <1>1, EventsStay
<1>4. \A i : (Answered(i)' => Answered(i)) /\ (Taken(i)' => Taken(i))
  BY <1>1, GoSays
<1>5. \A i : Carried(i)' => Carried(i)
  BY <1>2 DEF Carried
<1> QED
  BY <1>1, <1>2, <1>3, <1>4, <1>5, InputSame

\* A published answer keeps the invariant.
LEMMA GoesSaid ==
    ASSUME OutSane, OutInv, NEW k, GoesOn(k), NEW u, Said(u), taken' = taken, settings' \in 0 .. Newest, HostOK'
    PROVE  OutInv'
<1>1. OutType /\ Goes1(k)
  BY DEF OutInv, GoesOn
<1>2. /\ ListenersOK' /\ AllWait
      /\ mode' \in [Listeners -> {"off", "waiting", "on"}]
      /\ kept' \in [Listeners -> Seq(Update)] /\ client' \in [Listeners -> Shown] /\ gone' \subseteq Nat
      /\ \A l \in Listeners : Lands(l)
  BY SaidKeeps
<1>3. \A i : Removing(i)' => Removing(i)
  BY <1>1, GoSays
<1>4. InputInv'
  BY <1>3, GoneSaid, GoesInput
<1>5. taken' \subseteq Nat
  BY <1>1 DEF OutType
<1> QED
  BY <1>2, <1>4, <1>5, GoesKeep

\* One listener changes, and it does not wait afterwards.
LEMMA GoesOne ==
    ASSUME OutSane, OutInv, NEW k, GoesOn(k), Idle, UNCHANGED settings, taken' \subseteq Nat, InputInv',
           mode' \in [Listeners -> {"off", "waiting", "on"}], kept' \in [Listeners -> Seq(Update)],
           client' \in [Listeners -> Shown], NEW l \in Listeners, ListenerOK(l)', mode'[l] # "waiting",
           Lands(l) \/ Away(l)', \A x \in Listeners : x # l => Same1(x)
    PROVE  OutInv'
<1>1. OutType /\ HostOK /\ ListenersOK /\ Goes1(k)
  BY DEF OutInv, GoesOn
<1>2. StoreStep /\ UNCHANGED <<events, pending, faults, running, questions, gone>>
  BY <1>1, IdleStep DEF Idle
<1>3. ASSUME NEW x \in Listeners, x # l PROVE ListenerOK(x)' /\ Lands(x)
  <2>1. StaysAt(x) /\ ListenerOK(x) /\ Lands(x)
    BY <1>1, <1>3 DEF StaysAt, Same1, ListenersOK, Lands
  <2> QED
    BY <1>1, <1>2, <2>1, ListenerStays
<1>4. ListenersOK'
  <2>1. Listeners' = Listeners
    BY DEF Listeners
  <2>2. \A x \in Listeners : ListenerOK(x)'
    BY <1>3
  <2> QED
    BY <2>1, <2>2 DEF ListenersOK
<1>5. AllWait
  <2>1. ASSUME NEW x \in Listeners, mode'[x] = "waiting" PROVE mode[x] = "waiting" /\ Waits(x)
    <3>1. Same1(x)
      BY <2>1
    <3>2. \A y : Kept(x, y)' <=> Kept(x, y)
      BY <3>1, KeptStays DEF Same1
    <3>3. \A h \in DOMAIN kept'[x] : Kept(x, kept'[x][h])
      BY <3>1 DEF Kept, Same1
    <3>4. Waits(x)
      BY <1>2, <3>1, <3>2, <3>3 DEF Waits, Same1, Idle
    <3> QED
      BY <2>1, <3>1, <3>4 DEF Same1
  <2> QED
    BY <2>1 DEF AllWait
<1>6. HostOK'
  BY <1>1, <1>2, HostStays DEF Idle
<1>7. gone' \subseteq Nat /\ settings' \in 0 .. Newest
  BY <1>1, <1>2 DEF OutType
<1>8. \A x \in Listeners : Lands(x) \/ Away(x)'
  BY <1>3
<1> QED
  BY <1>4, <1>5, <1>6, <1>7, <1>8, GoesKeep

\* No listener changes.
LEMMA GoesIdle ==
    ASSUME OutSane, OutInv, NEW k, GoesOn(k), Idle, UNCHANGED <<settings, mode, kept, client>>,
           taken' \subseteq Nat, InputInv'
    PROVE  OutInv'
<1>1. OutType /\ HostOK /\ ListenersOK
  BY DEF OutInv
<1>2. StoreStep /\ UNCHANGED <<events, pending, faults, running, questions, gone>>
  BY <1>1, IdleStep DEF Idle
<1>3. ASSUME NEW x \in Listeners PROVE ListenerOK(x)' /\ Lands(x)
  <2>1. StaysAt(x) /\ ListenerOK(x) /\ Lands(x)
    BY <1>1 DEF StaysAt, ListenersOK, Lands
  <2> QED
    BY <1>1, <1>2, <2>1, ListenerStays
<1>4. ListenersOK'
  <2>1. Listeners' = Listeners
    BY DEF Listeners
  <2> QED
    BY <1>3, <2>1 DEF ListenersOK
<1>5. AllWait
  <2>1. ASSUME NEW x \in Listeners PROVE Waits(x)
    <3>1. \A y : Kept(x, y)' <=> Kept(x, y)
      BY KeptStays
    <3>2. \A h \in DOMAIN kept'[x] : Kept(x, kept'[x][h])
      BY DEF Kept
    <3> QED
      BY <1>2, <3>1, <3>2 DEF Waits, Idle
  <2> QED
    BY <2>1 DEF AllWait
<1>6. HostOK'
  BY <1>1, <1>2, HostStays DEF Idle
<1>7. /\ gone' \subseteq Nat /\ settings' \in 0 .. Newest
      /\ mode' \in [Listeners -> {"off", "waiting", "on"}] /\ kept' \in [Listeners -> Seq(Update)]
      /\ client' \in [Listeners -> Shown]
  BY <1>1, <1>2 DEF OutType
<1>8. \A x \in Listeners : Lands(x) \/ Away(x)'
  BY <1>3
<1> QED
  BY <1>4, <1>5, <1>6, <1>7, <1>8, GoesKeep

\* An operation and its answer that reach their caller.
Gets(k, op, r) == GoesOn(k) /\ op = answers[k][1] /\ r = answers[k][2]

\* What the invariant says of the operation and of its answer.
LEMMA GetsFacts ==
    ASSUME OutSane, OutInv, NEW k, NEW op, NEW r, Gets(k, op, r)
    PROVE  /\ k \in DOMAIN answers /\ k \in Nat /\ k >= 1 /\ op \in Ops /\ ResultOK(op, r) /\ FlightOK(op)
           /\ \A n : Unseen(n) <=> Unseen(n)' \/ (op[1] \in Writes /\ r = n)
           /\ \A i : Removing(i) <=> Removing(i)' \/ Removes(answers[k], i)
           /\ \A i : Answered(i) <=> Answered(i)' \/ (op[1] = "accept" /\ op[2] = i)
           /\ \A i : Taken(i) <=> Taken(i)' \/ (op[1] = "take" /\ i \in r)
           /\ op[4] = "task" => k = 1
           /\ Newest \in Nat /\ Newest >= 1 /\ Newest' = Newest /\ UNCHANGED events
<1>1. OutType /\ Alone /\ Flights
  BY DEF OutInv
<1>2. Goes1(k) /\ k \in DOMAIN answers /\ (k = 1 \/ op[4] = "client") /\ UNCHANGED events
  BY DEF Gets, GoesOn, Goes1
<1>3. op = answers[k][1] /\ r = answers[k][2]
  BY DEF Gets
<1>4. k \in Nat /\ k >= 1 /\ op \in Ops
  BY <1>1, <1>2, <1>3, FlightType
<1>5. ResultOK(op, r) /\ FlightOK(op)
  BY <1>1, <1>2, <1>3 DEF OutType, Flights
<1>6. /\ \A n : Unseen(n) <=> Unseen(n)' \/ Tells(answers[k], n)
      /\ \A i : Removing(i) <=> Removing(i)' \/ Removes(answers[k], i)
      /\ \A i : Answered(i) <=> Answered(i)' \/ Accepts(answers[k], i)
      /\ \A i : Taken(i) <=> Taken(i)' \/ Takes(answers[k], i)
  BY <1>1, <1>2, GoSays
<1>7. op[4] = "task" => k = 1
  BY <1>2
<1>8. Newest \in Nat /\ Newest >= 1 /\ Newest' = Newest
  BY <1>1, <1>2, NewestType DEF Newest
<1> QED
  BY <1>2, <1>3, <1>4, <1>5, <1>6, <1>7, <1>8 DEF Tells, Accepts, Takes

\* No answer of another write is left beside the answer of a write.
LEMMA GetsTold ==
    ASSUME OutSane, OutInv, NEW k, NEW op, NEW r, Gets(k, op, r), op[1] \in Writes
    PROVE  \A n : ~Unseen(n)'
<1>1. OutType /\ Alone
  BY DEF OutInv
<1>2. Goes1(k) /\ k \in DOMAIN answers /\ op = answers[k][1]
  BY DEF Gets, GoesOn, Goes1
<1>3. ASSUME NEW j \in DOMAIN answers, j # k, answers[j][1][1] \in Writes PROVE FALSE
  BY <1>1, <1>2, <1>3 DEF Alone, Same, Writers
<1>4. ASSUME NEW j \in DOMAIN answers', answers'[j][1][1] \in Writes PROVE FALSE
  <2>1. Old(k, j) \in DOMAIN answers /\ Old(k, j) # k /\ answers'[j] = answers[Old(k, j)]
    BY <1>1, <1>2, GoFacts
  <2> QED
    BY <1>3, <1>4, <2>1
<1> QED
  BY <1>4 DEF Unseen

\* The answer says nothing of the events and the inputs.
LEMMA GetsIdle ==
    ASSUME OutSane, OutInv, NEW k, NEW op, NEW r, Gets(k, op, r), UNCHANGED gone,
           op[1] \in {"take", "read", "page"} \/ (op[1] \in Writes /\ r = 0) \/ (op[1] = "remove" /\ r = FALSE)
    PROVE  Idle
<1>1. /\ \A n : Unseen(n) <=> Unseen(n)' \/ (op[1] \in Writes /\ r = n)
      /\ \A i : Removing(i) <=> Removing(i)' \/ Removes(answers[k], i)
      /\ \A i : Answered(i) <=> Answered(i)' \/ (op[1] = "accept" /\ op[2] = i)
      /\ op = answers[k][1] /\ r = answers[k][2]
  BY GetsFacts DEF Gets
<1>2. \A i : ~Removes(answers[k], i)
  BY <1>1 DEF Removes, Writes
<1>3. op[1] # "accept"
  BY DEF Writes
<1>4. \A n \in 1 .. Newest : ~(op[1] \in Writes /\ r = n)
  BY DEF Writes
<1>5. UNCHANGED <<events, pending, faults, gone, running, questions>>
  BY DEF Gets, GoesOn
<1>6. \A i : Removing(i)' <=> Removing(i)
  BY <1>1, <1>2
<1>7. \A i : Answered(i)' <=> Answered(i)
  BY <1>1, <1>3
<1>8. \A n \in 1 .. Newest : Unseen(n)' <=> Unseen(n)
  BY <1>1, <1>4
<1> QED
  BY <1>5, <1>6, <1>7, <1>8 DEF Idle

\* No input moves.
LEMMA GetsInput ==
    ASSUME OutInv, NEW k, NEW op, NEW r, Gets(k, op, r), Idle, UNCHANGED taken
    PROVE  InputInv' /\ taken' \subseteq Nat
<1>1. GoesOn(k) /\ OutType
  BY DEF Gets, OutInv
<1>2. \A i : Consumes(i)' <=> Consumes(i)
  BY <1>1, EventsStay DEF GoesOn
<1>3. \A i : Gone(i)' <=> Gone(i)
  BY <1>2 DEF Gone, Idle
<1> QED
  BY <1>1, <1>3, GoesInput DEF OutType

\* The answer of an accept or of a removal keeps the invariant.
LEMMA InputAnsweredKeeps ==
    ASSUME OutSane, OutInv, NEW k, NEW op, NEW r, Gets(k, op, r), InputAnswered(op, r)
    PROVE  OutInv'
<1>1. OutType /\ HostOK /\ GoesOn(k) /\ op = answers[k][1] /\ r = answers[k][2]
  BY DEF OutInv, Gets
<1>2. /\ op \in Ops /\ ResultOK(op, r)
      /\ \A n : Unseen(n) <=> Unseen(n)' \/ (op[1] \in Writes /\ r = n)
      /\ \A i : Removing(i) <=> Removing(i)' \/ Removes(answers[k], i)
      /\ \A i : Answered(i) <=> Answered(i)' \/ (op[1] = "accept" /\ op[2] = i)
      /\ k \in DOMAIN answers
  BY GetsFacts
<1>3. op[1] \in {"accept", "remove"} /\ UNCHANGED <<stale, settings, taken>> /\ op[2] \in Nat
  BY <1>2, OpParts DEF InputAnswered
<1>4. \A n : Unseen(n)' <=> Unseen(n)
  BY <1>2, <1>3 DEF Writes
<1>5. r \in BOOLEAN /\ (op[1] = "accept" => r = TRUE)
  BY <1>2, <1>3 DEF ResultOK
<1>6. CASE r = TRUE
  <2>1. PICK u : u = <<IF op[1] = "accept" THEN "accepted" ELSE "removed", op[2]>>
    OBVIOUS
  <2>2. /\ u[2] = op[2] /\ u[1] \in {"accepted", "removed"}
        /\ (u[1] = "accepted" <=> op[1] = "accept") /\ (u[1] = "removed" <=> op[1] = "remove")
        /\ u = <<u[1], u[2]>>
    BY <1>3, <2>1
  <2>3. Publish(u)
    BY <1>6, <2>1 DEF InputAnswered
  <2>4. Fresh(u)
    <3>1. u \in {"saved", "accepted", "removed"} \X Nat
      BY <1>3, <2>2
    <3> QED
      BY <2>2, <3>1 DEF Fresh, Update
  <2>5. UNCHANGED <<events, pending, faults, running, questions>>
    BY <1>1 DEF GoesOn
  <2>6. LiveStep(u)
    BY <2>2, <2>5 DEF LiveStep
  <2>7. \A i : Removes(answers[k], i) <=> op[1] = "remove" /\ op[2] = i
    BY <1>1, <1>6 DEF Removes
  <2>8. \A i : (Removing(i) => Removing(i)' \/ u = <<"removed", i>>)
        /\ (Answered(i) => Answered(i)' \/ u = <<"accepted", i>>)
    BY <1>2, <2>2, <2>7
  <2>9. (u[1] = "accepted" => Answered(u[2])) /\ (u[1] = "removed" => Removing(u[2]))
    BY <1>2, <2>2, <2>7
  <2>10. \A n \in 1 .. Newest : Unseen(n)' <=> Unseen(n) /\ u # <<"saved", n>>
    BY <1>4, <2>2
  <2>11. Said(u)
    BY <2>2, <2>3, <2>4, <2>5, <2>6, <2>8, <2>9, <2>10 DEF Said
  <2>12. HostOK'
    BY <1>1, <1>3, <1>4, <2>5, HostStays
  <2>13. settings' \in 0 .. Newest /\ taken' = taken
    BY <1>1, <1>3 DEF OutType
  <2> QED
    BY <1>1, <2>11, <2>12, <2>13, GoesSaid
<1>7. CASE r = FALSE
  <2>1. UNCHANGED <<gone, mode, kept, client>>
    BY <1>7 DEF InputAnswered, listenVars
  <2>2. op[1] = "remove"
    BY <1>3, <1>5, <1>7
  <2>3. Idle
    BY <1>7, <2>1, <2>2, GetsIdle
  <2> QED
    BY <1>1, <1>3, <2>1, <2>3, GetsInput, GoesIdle
<1> QED
  BY <1>5, <1>6, <1>7

\* The answer of a take keeps the invariant: no input that it holds is still to be accepted.
LEMMA TakeAnsweredKeeps ==
    ASSUME OutSane, OutInv, NEW k, NEW op, NEW r, Gets(k, op, r), TakeAnswered(op, r)
    PROVE  OutInv'
<1>1. OutType /\ InputInv /\ TakeInv /\ GoesOn(k) /\ op = answers[k][1] /\ r = answers[k][2]
  BY DEF OutInv, Gets
<1>2. op[1] = "take" /\ taken' = r /\ UNCHANGED <<settings, gone, mode, kept, client>>
  BY DEF TakeAnswered, listenVars
<1>3. /\ op \in Ops /\ ResultOK(op, r) /\ k \in DOMAIN answers
      /\ \A i : Taken(i) <=> Taken(i)' \/ (op[1] = "take" /\ i \in r)
      /\ op[4] = "task" => k = 1
  BY GetsFacts
<1>4. Idle
  BY <1>2, GetsIdle
<1>5. r \subseteq Nat /\ k = 1
  BY <1>2, <1>3, OpParts DEF ResultOK
<1>6. UNCHANGED <<events, pending, queue, accepted>>
  BY <1>1 DEF GoesOn
<1>7. \A i : (InQueue(i)' <=> InQueue(i)) /\ (InCommit(i)' <=> InCommit(i))
  BY <1>6, QueueStays
<1>8. \A i : Consumes(i)' <=> Consumes(i)
  BY <1>6, EventsStay
<1>9. \A i : (Gone(i)' <=> Gone(i)) /\ (Answered(i)' <=> Answered(i))
  BY <1>4, <1>8 DEF Gone, Idle
<1>10. \A i : i \in r => Taken(i) /\ ~Answered(i)
  <2>1. ASSUME NEW i, i \in r PROVE Taken(i) /\ ~Answered(i)
    <3>1. Taken(i)
      BY <1>2, <1>3, <2>1
    <3>2. ASSUME NEW j \in DOMAIN answers, answers[j][1][1] = "accept", answers[j][1][2] = i PROVE FALSE
      <4>1. answers[k][1][1] = "take" /\ answers[j][1][2] \in answers[k][2]
        BY <1>1, <1>2, <2>1, <3>2
      <4>2. j < k
        BY <1>1, <1>3, <3>2, <4>1 DEF TakeInv
      <4> QED
        BY <1>1, <1>5, <4>2, FlightType
    <3> QED
      BY <3>1, <3>2 DEF Answered
  <2> QED
    BY <2>1
<1>11. \A i : Carried(i)' => i \in r \/ Carried(i)
  BY <1>2, <1>7 DEF Carried
<1>12. \A i : Taken(i)' => Taken(i)
  BY <1>3
<1>13. InputInv'
  BY <1>1, <1>6, <1>7, <1>8, <1>9, <1>10, <1>11, <1>12 DEF InputInv
<1> QED
  BY <1>1, <1>2, <1>4, <1>5, <1>13, GoesIdle

\* The answer of a write publishes its event.
LEMMA SavedKeeps ==
    ASSUME OutSane, OutInv, NEW k, NEW op, NEW r, Gets(k, op, r), op[1] \in Writes, UNCHANGED taken,
           settings' = IF op[1] = "settings" /\ r > 0 THEN r ELSE settings,
           IF r > 0 THEN Publish(<<"saved", r>>) ELSE UNCHANGED <<gone, listenVars>>
    PROVE  OutInv'
<1>1. OutType /\ HostOK /\ LastUnseen /\ GoesOn(k) /\ op = answers[k][1] /\ r = answers[k][2]
  BY DEF OutInv, Gets
<1>2. /\ op \in Ops /\ ResultOK(op, r) /\ k \in DOMAIN answers
      /\ \A n : Unseen(n) <=> Unseen(n)' \/ (op[1] \in Writes /\ r = n)
      /\ \A i : Removing(i) <=> Removing(i)' \/ Removes(answers[k], i)
      /\ \A i : Answered(i) <=> Answered(i)' \/ (op[1] = "accept" /\ op[2] = i)
      /\ Newest \in Nat /\ Newest >= 1 /\ Newest' = Newest /\ UNCHANGED events
  BY GetsFacts
<1>6. \A n : ~Unseen(n)'
  BY GetsTold
<1>3. r \in 0 .. Newest
  BY <1>2 DEF ResultOK
<1>4. CASE r = 0
  <2>1. UNCHANGED <<gone, mode, kept, client>> /\ settings' = settings
    BY <1>4 DEF listenVars
  <2>2. Idle
    BY <1>4, <2>1, GetsIdle DEF Writers
  <2> QED
    BY <1>1, <2>1, <2>2, GetsInput, GoesIdle
<1>5. CASE r # 0
  <2>1. PICK u : u = <<"saved", r>>
    OBVIOUS
  <2>2. u[1] = "saved" /\ u[2] = r /\ r > 0 /\ r \in 1 .. Newest
    BY <1>3, <1>5, <2>1
  <2>3. Publish(u)
    BY <2>1, <2>2
  <2>4. Fresh(u)
    <3>1. u \in {"saved", "accepted", "removed"} \X Nat
      BY <1>3, <2>1
    <3> QED
      BY <2>2, <3>1 DEF Fresh, Update
  <2>5. UNCHANGED <<events, pending, faults, running, questions>>
    BY <1>1 DEF GoesOn
  <2>6. LiveStep(u)
    BY <2>2, <2>5 DEF LiveStep
  <2>7. (\A i : Removing(i) => Removing(i)') /\ (\A i : Answered(i) => Answered(i)')
    BY <1>1, <1>2 DEF Removes, Writes
  <2>8. \A n : Unseen(n) <=> n = r
    BY <1>2, <1>6
  <2>9. \A n \in 1 .. Newest : Unseen(n)' <=> Unseen(n) /\ u # <<"saved", n>>
    BY <1>6, <2>1, <2>8
  <2>10. Said(u)
    BY <2>2, <2>3, <2>4, <2>5, <2>6, <2>7, <2>8, <2>9 DEF Said
  <2>11. settings' \in 0 .. Newest /\ (op[1] = "settings" => settings' = r)
         /\ (op[1] # "settings" => settings' = settings)
    BY <1>1, <1>3, <2>2 DEF OutType
  <2>12. r = Newest
    BY <1>1, <1>3, <1>5, <2>8 DEF LastUnseen
  <2>13. ASSUME faults' = 0, NEW n \in 1 .. Newest, events[n].settings PROVE n <= settings'
    <3>1. CASE op[1] = "settings"
      BY <1>2, <2>11, <2>12, <3>1
    <3>2. CASE op[1] # "settings"
      <4>1. n <= settings \/ n = r
        BY <1>1, <2>5, <2>8, <2>13 DEF HostOK
      <4>2. op[1] \in {"commit", "recover"}
        BY <3>2 DEF Writes
      <4>3. ~events[r].settings
        BY <1>1, <1>2, <1>5, <4>2 DEF LastUnseen
      <4> QED
        BY <2>11, <2>13, <3>2, <4>1, <4>3
    <3> QED
      BY <3>1, <3>2
  <2>14. HostOK'
    BY <1>2, <2>13 DEF HostOK
  <2> QED
    BY <1>1, <2>10, <2>11, <2>14, GoesSaid
<1> QED
  BY <1>4, <1>5

\* The answer of a commit or of set_settings keeps the invariant.
LEMMA WriteAnsweredKeeps ==
    ASSUME OutSane, OutInv, NEW k, NEW op, NEW r, Gets(k, op, r), WriteAnswered(op, r)
    PROVE  OutInv'
<1>1. op[1] \in Writes /\ UNCHANGED taken
  BY DEF WriteAnswered, Writes
<1>2. settings' = IF op[1] = "settings" /\ r > 0 THEN r ELSE settings
  BY DEF WriteAnswered
<1>3. IF r > 0 THEN Publish(<<"saved", r>>) ELSE UNCHANGED <<gone, listenVars>>
  BY DEF WriteAnswered
<1> QED
  BY <1>1, <1>2, <1>3, SavedKeeps

\* The answer of a recovery keeps the invariant.
LEMMA RecoverAnsweredKeeps ==
    ASSUME OutSane, OutInv, NEW k, NEW op, NEW r, Gets(k, op, r), RecoverAnswered(op, r)
    PROVE  OutInv'
<1>1. op[1] \in Writes /\ UNCHANGED taken
  BY DEF RecoverAnswered, Writes
<1>2. settings' = IF op[1] = "settings" /\ r > 0 THEN r ELSE settings
  BY DEF RecoverAnswered
<1>3. IF r > 0 THEN Publish(<<"saved", r>>) ELSE UNCHANGED <<gone, listenVars>>
  BY DEF RecoverAnswered
<1> QED
  BY <1>1, <1>2, <1>3, SavedKeeps

\* No read or page of a listener is left when its read is answered.
LEMMA ReadAlone ==
    ASSUME OutSane, OutInv, NEW k, NEW op, NEW r, Gets(k, op, r), op[1] = "read", mode[op[2]] = "waiting"
    PROVE  \A l : l = op[2] => Away(l)'
<1>1. OutType /\ Alone /\ Flights /\ Goes1(k) /\ UNCHANGED queue /\ op = answers[k][1] /\ k \in DOMAIN answers
  BY GetsFacts DEF OutInv, Gets, GoesOn
<1>2. ASSUME NEW l, l = op[2] PROVE Away(l)'
  <2>1. ASSUME NEW j \in DOMAIN queue' PROVE ~(queue'[j][1] \in {"read", "page"} /\ queue'[j][2] = l)
    BY <1>1, <1>2, <2>1 DEF Alone, Same, Flights, FlightOK
  <2>2. ASSUME NEW j \in DOMAIN answers' PROVE ~(answers'[j][1][1] \in {"read", "page"} /\ answers'[j][1][2] = l)
    <3>1. PICK g \in DOMAIN answers : g # k /\ answers'[j] = answers[g]
      BY <1>1, <2>2, GoFacts
    <3>2. FlightOK(answers[g][1]) /\ ~Same(answers[g][1], answers[k][1])
      BY <1>1, <3>1 DEF Alone, Flights
    <3> QED
      BY <1>1, <1>2, <3>1, <3>2 DEF Same, FlightOK
  <2> QED
    BY <2>1, <2>2 DEF Away
<1> QED
  BY <1>2

\* show: the snapshot and the kept updates keep the invariant.
LEMMA ReadAnsweredKeeps ==
    ASSUME OutSane, OutInv, NEW k, NEW op, NEW r, Gets(k, op, r), ReadAnswered(op, r)
    PROVE  OutInv'
<1>1. OutType /\ InputInv /\ ListenersOK /\ ReadInv /\ GoesOn(k) /\ op = answers[k][1] /\ r = answers[k][2]
  BY DEF OutInv, Gets
<1>2. op[1] = "read" /\ UNCHANGED <<settings, taken, gone>>
  BY DEF ReadAnswered
<1>3. /\ op \in Ops /\ ResultOK(op, r) /\ k \in DOMAIN answers /\ (op[4] = "task" => k = 1)
  BY GetsFacts
<1>4. Idle /\ InputInv' /\ taken' \subseteq Nat
  BY <1>2, GetsIdle, GetsInput
<1>5. CASE mode[op[2]] # "waiting"
  <2>1. UNCHANGED <<mode, kept, client>>
    BY <1>5 DEF ReadAnswered, listenVars
  <2> QED
    BY <1>1, <1>2, <1>4, <2>1, GoesIdle
<1>6. CASE mode[op[2]] = "waiting"
  <2>1. PICK l : l = op[2]
    OBVIOUS
  <2>2. l \in Listeners /\ (l # Observer => k = 1) /\ mode[l] = "waiting" /\ ListenerOK(l)
    BY <1>1, <1>2, <1>3, <1>6, <2>1, OpParts DEF ListenersOK
  <2>3. PICK m \in 1 .. Newest : ReadAt(k, m)
    BY <1>1, <1>2, <1>3, <1>6 DEF ReadInv
  <2>4. PICK c : c = Snapshot(l, Base(l, op[3]), r)
    OBVIOUS
  <2>5. PICK ks : ks = After(r, kept[l])
    OBVIOUS
  <2>6. Reads(l, k, m, c, ks)
    BY <1>1, <1>2, <1>3, <2>1, <2>2, <2>3, <2>4, <2>5 DEF Reads
  <2>7. ModeOK(l) /\ EventOK(l) /\ SettingsOK(l) /\ KeptOK(l)
    BY <2>2 DEF ListenerOK
  <2>8. EventOf(l, c) /\ FlushOK(l, c, ks)
    BY <1>1, <2>6, <2>7, ReadsEvent, ReadsFlush
  <2>9. c \in Shown
    <3>1. Snapped(l, Base(l, answers[k][1][3]), answers[k][2], c)
      BY <1>1, <2>6, <2>7, ReadsFacts
    <3> QED
      BY <3>1 DEF Snapped
  <2>10. PICK shown : shown = ShowAll(l, c, kept[l], ks)
    OBVIOUS
  <2>11. shown \in Shown
    <3>1. Flushed(l, c, ks, ShowAll(l, c, kept[l], ks))
      BY <1>1, <2>2, <2>8, <2>9, FlushFacts
    <3> QED
      BY <2>10, <3>1 DEF Flushed
  <2>12. /\ client' = [client EXCEPT ![l] = shown]
         /\ kept' = [kept EXCEPT ![l] = <<>>]
         /\ mode' = [mode EXCEPT ![l] = "on"]
    BY <1>6, <2>1, <2>4, <2>5, <2>10 DEF ReadAnswered, Base
  <2>13. /\ mode \in [Listeners -> {"off", "waiting", "on"}] /\ kept \in [Listeners -> Seq(Update)]
         /\ client \in [Listeners -> Shown]
    BY <1>1 DEF OutType
  <2>14. /\ mode' \in [Listeners -> {"off", "waiting", "on"}] /\ kept' \in [Listeners -> Seq(Update)]
         /\ client' \in [Listeners -> Shown]
    <3>1. <<>> \in Seq(Update)
      OBVIOUS
    <3>2. kept' \in [Listeners -> Seq(Update)]
      BY <2>12, <2>13, <3>1
    <3>3. client' \in [Listeners -> Shown]
      BY <2>11, <2>12, <2>13
    <3> QED
      BY <2>12, <2>13, <3>2, <3>3
  <2>15. mode'[l] = "on" /\ kept'[l] = <<>> /\ client'[l] = shown
    BY <2>2, <2>12, <2>13
  <2>16. \A x \in Listeners : x # l => Same1(x)
    BY <2>12, <2>13 DEF Same1
  <2>17. ListenerOK(l)'
    BY <1>1, <1>4, <2>2, <2>6, <2>10, <2>15, ListenerReads
  <2>18. Away(l)'
    BY <1>2, <1>6, <2>1, ReadAlone
  <2> QED
    BY <1>1, <1>2, <1>4, <2>2, <2>14, <2>15, <2>16, <2>17, <2>18, GoesOne
<1> QED
  BY <1>5, <1>6

\* A read that fails keeps the invariant.
LEMMA ReadFailsKeeps ==
    ASSUME OutSane, OutInv, NEW k, NEW op, NEW r, Gets(k, op, r), ReadFails(op)
    PROVE  OutInv'
<1>1. OutType /\ InputInv /\ ListenersOK /\ GoesOn(k)
  BY DEF OutInv, Gets
<1>2. op[1] = "read" /\ UNCHANGED <<settings, taken, gone>>
  BY DEF ReadFails
<1>3. op \in Ops /\ Newest \in Nat /\ Newest >= 1 /\ Newest' = Newest
  BY GetsFacts
<1>4. Idle /\ InputInv' /\ taken' \subseteq Nat
  BY <1>2, GetsIdle, GetsInput
<1>5. CASE mode[op[2]] # "waiting"
  <2>1. UNCHANGED <<mode, kept, client>>
    BY <1>5 DEF ReadFails, listenVars
  <2> QED
    BY <1>1, <1>2, <1>4, <2>1, GoesIdle
<1>6. CASE mode[op[2]] = "waiting"
  <2>1. PICK l : l = op[2]
    OBVIOUS
  <2>2. l \in Listeners /\ ListenerOK(l)
    BY <1>1, <1>2, <1>3, <2>1, OpParts DEF ListenersOK
  <2>3. PICK shown, state : /\ shown = (IF l = Observer THEN ShowAll(l, client[l], kept[l], DOMAIN kept[l]) ELSE Empty(1, 1))
                            /\ state = (IF l = Observer THEN "on" ELSE "off")
    OBVIOUS
  <2>4. /\ client' = [client EXCEPT ![l] = shown]
        /\ kept' = [kept EXCEPT ![l] = <<>>]
        /\ mode' = [mode EXCEPT ![l] = state]
    BY <1>6, <2>1, <2>3 DEF ReadFails
  <2>5. /\ mode \in [Listeners -> {"off", "waiting", "on"}] /\ kept \in [Listeners -> Seq(Update)]
        /\ client \in [Listeners -> Shown]
    BY <1>1 DEF OutType
  <2>6. mode'[l] = state /\ kept'[l] = <<>> /\ client'[l] = shown
    BY <2>2, <2>4, <2>5
  <2>7. shown \in Shown
    <3>1. CASE l # Observer
      BY <2>3, <3>1 DEF Empty, Shown
    <3>2. CASE l = Observer
      <4>1. client[l] \in Shown /\ kept[l] \in Seq(Update) /\ EventOK(l)
        BY <2>2, <2>5 DEF ListenerOK
      <4>2. PICK us, ks : us = kept[l] /\ ks = DOMAIN kept[l]
        OBVIOUS
      <4>3. SeenOK(us, ks)
        BY <4>1, <4>2 DEF SeenOK, EventOK, EventOf
      <4>4. shown = ShowAll(l, client[l], us, ks)
        BY <2>3, <3>2, <4>2
      <4>5. ShowAll(l, client[l], us, ks) \in Shown
        BY <1>1, <2>2, <4>1, <4>2, <4>3, ShowAllFields
      <4> QED
        BY <4>4, <4>5
    <3> QED
      BY <3>1, <3>2
  <2>8. state \in {"off", "on"}
    BY <2>3
  <2>9. /\ mode' \in [Listeners -> {"off", "waiting", "on"}] /\ kept' \in [Listeners -> Seq(Update)]
        /\ client' \in [Listeners -> Shown]
    <3>1. <<>> \in Seq(Update)
      OBVIOUS
    <3>2. kept' \in [Listeners -> Seq(Update)]
      BY <2>4, <2>5, <3>1
    <3>3. client' \in [Listeners -> Shown]
      BY <2>4, <2>5, <2>7
    <3> QED
      BY <2>4, <2>5, <2>8, <3>2, <3>3
  <2>10. \A x \in Listeners : x # l => Same1(x)
    BY <2>4, <2>5 DEF Same1
  <2>11. ListenerOK(l)'
    <3>1. CASE l = Observer
      <4>1. /\ mode'[Observer] = "on" /\ kept'[Observer] = <<>>
            /\ client'[Observer] = ShowAll(Observer, client[Observer], kept[Observer], DOMAIN kept[Observer])
        BY <2>3, <2>6, <3>1
      <4>2. ListenerOK(Observer)
        BY <2>2, <3>1
      <4>3. ListenerOK(Observer)'
        BY <1>1, <1>4, <4>1, <4>2, ObserverFlushes
      <4> QED
        BY <3>1, <4>3
    <3>2. CASE l # Observer
      <4>1. mode'[l] # "on" /\ client'[l] = Empty(1, 1)
        BY <2>3, <2>6, <3>2
      <4> QED
        BY <1>3, <2>2, <2>6, <3>2, <4>1, ListenerQuiet
    <3> QED
      BY <3>1, <3>2
  <2>12. Away(l)'
    BY <1>2, <1>6, <2>1, ReadAlone
  <2> QED
    BY <1>1, <1>2, <1>4, <2>2, <2>6, <2>8, <2>9, <2>10, <2>11, <2>12, GoesOne
<1> QED
  BY <1>5, <1>6

\* The page of a gap keeps the invariant.
LEMMA PageAnsweredKeeps ==
    ASSUME OutSane, OutInv, NEW k, NEW op, NEW r, Gets(k, op, r), PageAnswered(op, r)
    PROVE  OutInv'
<1>1. OutType /\ InputInv /\ LastUnseen /\ ListenersOK /\ GoesOn(k)
  BY DEF OutInv, Gets
<1>2. op[1] = "page" /\ UNCHANGED <<settings, taken, gone, mode, kept>>
  BY DEF PageAnswered
<1>3. op \in Ops /\ ResultOK(op, r) /\ FlightOK(op)
  BY GetsFacts
<1>4. Idle /\ InputInv' /\ taken' \subseteq Nat
  BY <1>2, GetsIdle, GetsInput
<1>5. PICK v : v = op[2]
  OBVIOUS
<1>6. v \in Listeners /\ v # Observer /\ r \in SUBSET Nat /\ r = op[3]
  BY <1>2, <1>3, <1>5, OpParts DEF Listeners, OutSane, ResultOK
<1>7. /\ mode \in [Listeners -> {"off", "waiting", "on"}] /\ kept \in [Listeners -> Seq(Update)]
      /\ client \in [Listeners -> Shown]
  BY <1>1 DEF OutType
<1>8. CASE mode[v] = "on"
  <2>1. PICK shown : shown = [client[v] EXCEPT !.saved = client[v].saved \cup r,
                                               !.pending = client[v].pending \ Consumed(r \ client[v].saved)]
    OBVIOUS
  <2>2. client' = [client EXCEPT ![v] = shown]
    <3>1. client' = [client EXCEPT ![v] =
                        IF mode[v] = "on"
                        THEN [client[v] EXCEPT !.saved = @ \cup r, !.pending = @ \ Consumed(r \ client[v].saved)]
                        ELSE client[v]]
      BY <1>5 DEF PageAnswered
    <3>2. client[v] \in Shown
      BY <1>6, <1>7
    <3>3. PICK p : p = Consumed(r \ client[v].saved)
      OBVIOUS
    <3>4. PICK c : c = client[v]
      OBVIOUS
    <3>5. [c EXCEPT !.saved = @ \cup r, !.pending = @ \ p]
            = [c EXCEPT !.saved = c.saved \cup r, !.pending = c.pending \ p]
      BY <3>2, <3>4 DEF Shown
    <3>6. shown = [client[v] EXCEPT !.saved = @ \cup r, !.pending = @ \ Consumed(r \ client[v].saved)]
      BY <2>1, <3>3, <3>4, <3>5
    <3> QED
      BY <1>8, <3>1, <3>6
  <2>3. client[v] \in Shown
    BY <1>6, <1>7
  <2>4. shown \in Shown
    <3>1. PICK p : p = client[v].pending \ Consumed(r \ client[v].saved)
      OBVIOUS
    <3>2. p \in SUBSET Nat
      BY <2>3, <3>1 DEF Shown
    <3>3. shown = [client[v] EXCEPT !.saved = client[v].saved \cup r, !.pending = p]
      BY <2>1, <3>1
    <3> QED
      BY <1>6, <2>3, <3>2, <3>3 DEF Shown
  <2>5. client'[v] = shown /\ client' \in [Listeners -> Shown] /\ \A x \in Listeners : x # v => client'[x] = client[x]
    BY <1>6, <1>7, <2>2, <2>4
  <2>6. \A n \in r : \E a, b \in client[v].saved : a < n /\ n < b
    BY <1>2, <1>3, <1>5, <1>6, <1>8 DEF FlightOK
  <2>7. ListenerOK(v) /\ mode'[v] = mode[v] /\ kept'[v] = kept[v]
    BY <1>1, <1>2, <1>6 DEF ListenersOK
  <2>8. ListenerOK(v)'
    BY <1>1, <1>4, <1>6, <1>8, <2>1, <2>5, <2>6, <2>7, ListenerPages
  <2>9. Lands(v)
    <3>1. shown.saved = client[v].saved \cup r
      BY <2>1, <2>3 DEF Shown
    <3> QED
      BY <2>5, <2>7, <3>1 DEF Lands
  <2>10. \A x \in Listeners : x # v => Same1(x)
    BY <1>2, <2>5 DEF Same1
  <2>11. mode' \in [Listeners -> {"off", "waiting", "on"}] /\ kept' \in [Listeners -> Seq(Update)]
         /\ mode'[v] # "waiting"
    BY <1>2, <1>7, <1>8
  <2> QED
    BY <1>1, <1>2, <1>4, <1>6, <2>5, <2>8, <2>9, <2>10, <2>11, GoesOne
<1>9. CASE mode[v] # "on"
  <2>1. client' = client
    BY <1>5, <1>6, <1>7, <1>9 DEF PageAnswered
  <2> QED
    BY <1>1, <1>2, <1>4, <2>1, GoesIdle
<1> QED
  BY <1>8, <1>9

\* An answer that reaches its caller keeps the invariant.
LEMMA GoOnKeeps ==
    ASSUME OutSane, OutInv, GoOn
    PROVE  OutInv'
<1>1. PICK k \in DOMAIN answers :
        /\ k = 1 \/ answers[k][1][4] = "client"
        /\ answers' = RemoveAt(answers, k)
        /\ \/ InputAnswered(answers[k][1], answers[k][2]) \/ TakeAnswered(answers[k][1], answers[k][2])
           \/ WriteAnswered(answers[k][1], answers[k][2]) \/ RecoverAnswered(answers[k][1], answers[k][2])
           \/ ReadAnswered(answers[k][1], answers[k][2]) \/ ReadFails(answers[k][1])
           \/ PageAnswered(answers[k][1], answers[k][2])
  BY DEF GoOn
<1>2. GoesOn(k)
  BY <1>1 DEF GoesOn, Goes1, GoOn, boundVars
<1>3. Gets(k, answers[k][1], answers[k][2])
  BY <1>2 DEF Gets
<1> QED
  BY <1>1, <1>3, InputAnsweredKeeps, TakeAnsweredKeeps, WriteAnsweredKeeps, RecoverAnsweredKeeps, ReadAnsweredKeeps,
     ReadFailsKeeps, PageAnsweredKeeps
-----------------------------------------------------------------------------
(***************************************************************************)
(* The listeners show what is so.                                          *)
(***************************************************************************)
LEMMA OutStays ==
    ASSUME OutInv, UNCHANGED vars
    PROVE  OutInv'
<1>1. /\ UNCHANGED <<events, pending, stale, settings, queue, answers, running, taken, gone, questions, ended>>
      /\ UNCHANGED <<mode, kept, client, accepted, starts, faults, workload>>
  BY DEF vars, storeVars, sentVars, listenVars, boundVars
<1>2. Newest' = Newest /\ Listeners' = Listeners
  BY <1>1 DEF Newest, Listeners
<1>3. OutType'
  BY <1>1, <1>2 DEF OutInv, OutType, ResultOK
<1>4. Alone' /\ Flights'
  BY <1>1 DEF OutInv, Alone, Flights, FlightOK
<1>5. /\ \A n : Unseen(n)' <=> Unseen(n)
      /\ \A i : Removing(i)' <=> Removing(i)
      /\ \A i : Answered(i)' <=> Answered(i)
      /\ \A i : Taken(i)' <=> Taken(i)
  BY <1>1, StaySays
<1>6. InputInv'
  <2>1. \A i : (InQueue(i)' <=> InQueue(i)) /\ (InCommit(i)' <=> InCommit(i))
    BY <1>1, QueueStays
  <2>2. \A i : Consumes(i)' <=> Consumes(i)
    BY <1>1, EventsStay
  <2>3. \A i : Gone(i)' <=> Gone(i)
    BY <1>1, <1>5, <2>2 DEF Gone
  <2>4. \A i : Carried(i)' => Carried(i)
    BY <1>1, <2>1 DEF Carried
  <2> QED
    BY <1>1, <1>5, <2>1, <2>2, <2>3, <2>4, InputSame DEF OutInv
<1>7. TakeInv' /\ LastUnseen' /\ HostOK'
  BY <1>1, <1>2, <1>5 DEF OutInv, TakeInv, LastUnseen, HostOK
<1>8. Idle
  BY <1>1, <1>5 DEF Idle
<1>9. ListenersOK'
  <2>1. OutType /\ StoreStep /\ UNCHANGED <<running, questions>>
    BY <1>1, <1>8, IdleStep DEF OutInv
  <2>2. ASSUME NEW l \in Listeners PROVE ListenerOK(l)'
    <3>1. ListenerOK(l) /\ StaysAt(l)
      BY <1>1 DEF OutInv, ListenersOK, StaysAt
    <3> QED
      BY <2>1, <3>1, ListenerStays
  <2> QED
    BY <1>2, <2>2 DEF ListenersOK
<1>10. ReadInv'
  <2>1. ASSUME NEW j \in DOMAIN queue, Unread(j) PROVE Unread(j)'
    BY <1>1, <1>2, <2>1 DEF Unread, Consumes
  <2>2. ASSUME NEW j, NEW m, ReadAt(j, m) PROVE ReadAt(j, m)'
    BY <1>1, <1>2, <2>2 DEF ReadAt, ReadOf, From, Unseen, Keeps, Kept, Answered, Removing
  <2> QED
    BY <1>1, <1>2, <2>1, <2>2 DEF OutInv, ReadInv
<1> QED
  BY <1>3, <1>4, <1>6, <1>7, <1>9, <1>10 DEF OutInv

\* Every step keeps the invariant.
LEMMA OutStep ==
    ASSUME OutSane, OutInv, [Next]_vars
    PROVE  OutInv'
<1>1. CASE UNCHANGED vars
  BY <1>1, OutStays
<1>2. CASE Serve
  BY <1>2, ServeKeeps
<1>3. CASE GoOn
  BY <1>3, GoOnKeeps
<1>4. CASE \E caller \in {"client", "task"} : Input(caller) \/ RemoveInput(caller) \/ SetSettings(caller)
  BY <1>4, InputKeeps, RemoveKeeps, SetSettingsKeeps
<1>5. CASE Take \/ Commit \/ Recover
  BY <1>5, TakeKeeps, CommitKeeps, RecoverKeeps
<1>6. CASE StartTurn \/ FinishTurn
  BY <1>6, StartTurnKeeps, FinishTurnKeeps
<1>7. CASE \E q \in Questions : Ask(q) \/ CloseQuestion(q)
  BY <1>7, AskKeeps, CloseKeeps
<1>8. CASE \E last \in 0 .. Newest : Load(last)
  BY <1>8, LoadKeeps
<1>9. CASE \E v \in Views : View(v) \/ DropView(v) \/ LoadGap(v)
  BY <1>9, ViewKeeps, DropViewKeeps, LoadGapKeeps
<1>10. CASE EndViews
  BY <1>10, EndViewsKeeps
<1> QED
  BY <1>1, <1>2, <1>3, <1>4, <1>5, <1>6, <1>7, <1>8, <1>9, <1>10 DEF Next

\* The invariant holds at the creation of the session.
LEMMA OutInit ==
    ASSUME OutSane, Init
    PROVE  OutInv
<1>1. /\ events = <<Event("settings", {})>> /\ pending = {} /\ queue = <<>> /\ answers = <<>>
      /\ stale = FALSE /\ settings = 1 /\ running = FALSE /\ taken = {} /\ gone = {} /\ questions = {}
      /\ accepted = 0 /\ faults = 0
  BY DEF Init
<1>2. PICK e : e = Event("settings", {})
  OBVIOUS
<1>3. e \in Records /\ e.settings = TRUE /\ e.consumed = {}
  BY <1>2 DEF Event, Records
<1>4. events \in Seq(Records) /\ Newest = 1 /\ events[1] = e
  BY <1>1, <1>2, <1>3 DEF Newest
<1>5. Observer \in Listeners
  BY DEF Listeners
<1>6. /\ mode = [l \in Listeners |-> IF l = Observer THEN "on" ELSE "off"]
      /\ kept = [l \in Listeners |-> <<>>]
      /\ client = [l \in Listeners |-> [Empty(1, 1) EXCEPT !.shown = (l = Observer)]]
  BY DEF Init
<1>7. ASSUME NEW l \in Listeners
      PROVE  /\ mode[l] = (IF l = Observer THEN "on" ELSE "off") /\ kept[l] = <<>> /\ client[l] \in Shown
             /\ client[l].saved = 1 .. 1 /\ client[l].pending = {} /\ client[l].questions = {}
             /\ client[l].running = FALSE /\ client[l].settings = 1 /\ client[l].repeated = FALSE
             /\ client[l].shown = (l = Observer)
             /\ l # Observer => client[l] = Empty(1, 1)
  <2>1. client[l] = [Empty(1, 1) EXCEPT !.shown = (l = Observer)]
    BY <1>6
  <2>2. PICK first, told : first = 1 .. 1 /\ told = (l = Observer)
    OBVIOUS
  <2>3. PICK r : r = Empty(1, 1)
    OBVIOUS
  <2>4. r = [saved |-> first, pending |-> {}, questions |-> {}, running |-> FALSE, settings |-> 1,
             shown |-> FALSE, repeated |-> FALSE]
    BY <2>2, <2>3 DEF Empty
  <2>5. first \in SUBSET Nat /\ told \in BOOLEAN
    BY <2>2
  <2>6. r \in Shown
    BY <2>4, <2>5 DEF Shown
  <2>7. client[l] = [r EXCEPT !.shown = told]
    BY <2>1, <2>2, <2>3
  <2>9. /\ client[l] \in Shown /\ client[l].shown = told /\ client[l].saved = r.saved /\ client[l].pending = r.pending
        /\ client[l].questions = r.questions /\ client[l].running = r.running /\ client[l].settings = r.settings
        /\ client[l].repeated = r.repeated
    BY <2>5, <2>6, <2>7 DEF Shown
  <2>10. r.saved = first /\ r.pending = {} /\ r.questions = {} /\ r.running = FALSE /\ r.settings = 1
         /\ r.shown = FALSE /\ r.repeated = FALSE
    BY <2>4
  <2>11. l # Observer => client[l] = r
    BY <2>2, <2>6, <2>7, <2>10 DEF Shown
  <2>8. mode[l] = (IF l = Observer THEN "on" ELSE "off") /\ kept[l] = <<>>
    BY <1>6
  <2> QED
    BY <2>2, <2>3, <2>8, <2>9, <2>10, <2>11
<1>8. OutType
  <2>1. queue \in Seq(Ops) /\ answers \in Seq(Ops \X Results) /\ DOMAIN answers = {}
    BY <1>1
  <2>2. kept \in [Listeners -> Seq(Update)]
    BY <1>6
  <2>3. client \in [Listeners -> Shown] /\ mode \in [Listeners -> {"off", "waiting", "on"}]
    BY <1>6, <1>7
  <2>4. settings \in 0 .. Newest /\ Newest >= 1
    BY <1>1, <1>4
  <2>5. pending \subseteq Nat /\ taken \subseteq Nat /\ gone \subseteq Nat /\ questions \subseteq Questions
    BY <1>1
  <2>6. running \in BOOLEAN /\ accepted \in Nat /\ faults \in Nat
    BY <1>1
  <2>7. events \in Seq(Records)
    BY <1>4
  <2> QED
    BY <2>1, <2>2, <2>3, <2>4, <2>5, <2>6, <2>7 DEF OutType
<1>9. DOMAIN queue = {} /\ DOMAIN answers = {}
  BY <1>1
<1>10. Alone /\ Flights /\ TakeInv /\ LastUnseen /\ ReadInv
  BY <1>9 DEF Alone, Flights, TakeInv, LastUnseen, ReadInv, Unseen
<1>11. InputInv
  BY <1>1, <1>3, <1>4, <1>9 DEF InputInv, InQueue, Answered, Removing, Consumes, InCommit, Carried, Taken, Gone
<1>12. HostOK
  BY <1>1, <1>4 DEF HostOK
<1>13. ASSUME NEW l \in Listeners PROVE ListenerOK(l)
  <2>1. DOMAIN kept[l] = {}
    <3>1. kept[l] = <<>>
      BY <1>7, <1>13
    <3> QED
      BY <3>1
  <2>7. \A a : a \in client[l].saved <=> a = 1
    <3>1. client[l].saved = 1 .. 1
      BY <1>7, <1>13
    <3> QED
      BY <3>1
  <2>8. /\ (l = Observer => mode[l] = "on") /\ (l # Observer => mode[l] = "off") /\ kept[l] = <<>>
        /\ client[l].settings = 1 /\ client[l].repeated = FALSE
        /\ client[l].shown => l = Observer
        /\ l # Observer => client[l] = Empty(1, 1)
    BY <1>7, <1>13
  <2>2. ModeOK(l)
    BY <1>4, <2>7, <2>8 DEF ModeOK
  <2>3. EventOK(l)
    BY <1>4, <1>9, <2>1, <2>7, <2>8 DEF EventOK, EventOf, Unseen, Keeps
  <2>4. LiveOK(l)
    BY <1>1, <1>7, <2>1 DEF LiveOK, LiveOf, OpenOf, Kept, StateKept
  <2>5. SettingsOK(l)
    BY <1>4, <2>7, <2>8 DEF SettingsOK, SettingsOf
  <2>6. KeptOK(l) /\ PendingOK(l)
    BY <1>1, <1>7, <2>1 DEF KeptOK, KeptOf, PendingOK, PendingOf
  <2> QED
    BY <2>2, <2>3, <2>4, <2>5, <2>6 DEF ListenerOK
<1> QED
  BY <1>8, <1>10, <1>11, <1>12, <1>13 DEF OutInv, ListenersOK

\* The invariant says what a reader of the updates relies on.
LEMMA OutShows ==
    ASSUME OutSane, OutInv
    PROVE  ListenersTrue
<1>1. OutType /\ InputInv /\ LastUnseen /\ ListenersOK /\ Newest \in Nat /\ Newest >= 1
  BY NewestType DEF OutInv
<1>2. \A n \in 1 .. Newest : Unseen(n) => n \in Unpublished
  <2>1. ASSUME NEW n \in 1 .. Newest, Unseen(n) PROVE n \in Unpublished
    <3>1. PICK k \in DOMAIN answers : answers[k][1][1] \in Writes /\ answers[k][2] = n
      BY <2>1 DEF Unseen
    <3>2. answers[k] \in Range(answers)
      BY <1>1 DEF Range, OutType
    <3> QED
      BY <3>1, <3>2 DEF Unpublished, Writes
  <2> QED
    BY <2>1
<1>3. ASSUME NEW l \in Listeners, mode[l] = "on", NEW x PROVE ~Kept(l, x) /\ (\A n : ~Keeps(l, n)) /\ ~StateKept(l)
  <2>1. kept[l] = <<>>
    BY <1>1, <1>3 DEF ListenersOK, ListenerOK, ModeOK
  <2>2. DOMAIN kept[l] = {}
    BY <2>1
  <2> QED
    BY <2>2 DEF Kept, Keeps, StateKept
<1>4. EventsTold
  <2>1. ASSUME NEW l \in Listeners, Shows(l), faults = 0, NEW first \in client[l].saved, NEW n \in first .. Newest,
               n \notin Unpublished
        PROVE  n \in client[l].saved
    <3>1. EventOf(l, client[l]) /\ client[l].shown /\ mode[l] = "on" /\ client[l].saved \subseteq 1 .. Newest
      BY <1>1, <2>1 DEF ListenersOK, ListenerOK, EventOK, Shows, ModeOK
    <3>2. n \in client[l].saved \/ Unseen(n) \/ Keeps(l, n)
      BY <2>1, <3>1 DEF EventOf
    <3>3. n \in 1 .. Newest
      BY <1>1, <2>1, <3>1
    <3> QED
      BY <1>2, <1>3, <2>1, <3>1, <3>2, <3>3
  <2>2. ASSUME NEW v \in Views PROVE ~client[v].repeated
    BY <1>1 DEF ListenersOK, ListenerOK, EventOK, EventOf, Listeners, OutSane
  <2> QED
    BY <2>1, <2>2 DEF EventsTold
<1>5. ASSUME NEW l \in Listeners, Shows(l)
      PROVE  client[l].running = running /\ client[l].questions = questions
  <2>1. LiveOf(l, client[l]) /\ client[l].shown /\ mode[l] = "on"
    BY <1>1, <1>5 DEF ListenersOK, ListenerOK, LiveOK, Shows
  <2>2. DOMAIN kept[l] = {}
    BY <1>1, <2>1 DEF ListenersOK, ListenerOK, ModeOK
  <2>3. client[l].running = running
    BY <1>3, <2>1 DEF LiveOf
  <2>4. client[l].questions \subseteq Questions /\ questions \subseteq Questions
    BY <1>1, KeptType DEF OutType, Shown
  <2>5. \A q : OpenOf(l, client[l], q) <=> q \in client[l].questions
    BY <2>2 DEF OpenOf, Kept
  <2>6. \A q : q \in client[l].questions <=> q \in questions
    BY <2>1, <2>4, <2>5 DEF LiveOf
  <2> QED
    BY <2>3, <2>6
<1>6. ASSUME NEW l \in Listeners, Complete(l)
      PROVE  \A a \in client[l].saved : \A n \in a .. Newest : n \in client[l].saved
  <2>1. client[l].saved \subseteq 1 .. Newest /\ Newest \in client[l].saved /\ Gap(client[l]) = {}
    BY <1>1, <1>6 DEF ListenersOK, ListenerOK, ModeOK, Complete
  <2>2. ASSUME NEW a \in client[l].saved, NEW n \in a .. Newest, n \notin client[l].saved PROVE FALSE
    <3>1. a \in Nat /\ a >= 1 /\ n \in Nat /\ a <= n /\ n <= Newest
      BY <1>1, <2>1, <2>2
    <3>2. n \in 1 .. Newest \ client[l].saved /\ a < n /\ n < Newest
      BY <1>1, <2>1, <2>2, <3>1
    <3> QED
      BY <2>1, <3>2 DEF Gap
  <2> QED
    BY <2>2
<1>7. ASSUME NEW l \in Listeners, Complete(l), ~InputUnseen PROVE client[l].pending = pending
  <2>1. PendingOf(l, client[l]) /\ client[l].shown /\ mode[l] = "on" /\ client[l].saved \subseteq 1 .. Newest
    BY <1>1, <1>7 DEF ListenersOK, ListenerOK, PendingOK, Complete, Shows, ModeOK
  <2>2. \A i : ~Answered(i) /\ ~Removing(i)
    <3>1. \A k \in DOMAIN answers : answers[k] \in Range(answers)
      BY <1>1 DEF Range, OutType
    <3> QED
      BY <1>7, <3>1 DEF InputUnseen, Answered, Removing
  <2>3. client[l].pending \subseteq Nat /\ pending \subseteq Nat
    BY <1>1, KeptType DEF OutType, Shown
  <2>4. ASSUME NEW i \in pending PROVE i \in client[l].pending
    BY <1>3, <2>1, <2>2, <2>3 DEF PendingOf
  <2>5. ASSUME NEW i \in client[l].pending PROVE i \in pending
    <3>1. i \in Nat
      BY <2>3
    <3>2. \/ i \in pending
          \/ \E n \in 1 .. Newest :
               /\ i \in events[n].consumed /\ n \notin client[l].saved
               /\ l # Observer => \E a \in client[l].saved : a < n
      BY <1>3, <2>1, <2>2, <2>5, <3>1 DEF PendingOf
    <3>3. l = Observer => 1 \in client[l].saved
      BY <1>1, <2>1 DEF ListenersOK, ListenerOK, EventOK, EventOf
    <3>4. ASSUME NEW n \in 1 .. Newest, n \notin client[l].saved, NEW a \in client[l].saved, a <= n PROVE FALSE
      <4>1. n \in a .. Newest
        BY <1>1, <2>1, <3>4
      <4> QED
        BY <1>6, <1>7, <3>4, <4>1
    <3> QED
      BY <1>1, <2>1, <3>2, <3>3, <3>4
  <2> QED
    BY <2>4, <2>5
<1>8. ASSUME NEW l \in Listeners, Complete(l), faults = 0, NEW n \in 1 .. Newest, events[n].settings
      PROVE  ~(n > client[l].settings)
  <2>1. /\ SettingsOf(l, client[l]) /\ client[l].shown /\ mode[l] = "on" /\ client[l].saved \subseteq 1 .. Newest
        /\ Newest \in client[l].saved
    BY <1>1, <1>8 DEF ListenersOK, ListenerOK, SettingsOK, Complete, Shows, ModeOK
  <2>2. n <= client[l].settings \/ Unseen(n)
    BY <1>3, <1>8, <2>1 DEF SettingsOf
  <2>3. Unseen(n) => n = Newest
    BY <1>1, <1>8 DEF LastUnseen
  <2>4. n <= client[l].settings
    BY <1>8, <2>1, <2>2, <2>3 DEF SettingsOf
  <2>5. client[l].settings \in Nat
    BY <1>1, KeptType DEF Shown
  <2> QED
    BY <1>1, <2>4, <2>5
<1> QED
  BY <1>4, <1>5, <1>7, <1>8 DEF ListenersTrue

\* The inductive invariant holds in every state.
THEOREM OutputInvariant ==
    ASSUME OutSane
    PROVE  Spec => []OutInv
<1>1. Init => OutInv
  BY OutInit
<1>2. OutInv /\ [Next]_vars => OutInv'
  BY OutStep
<1> QED
  BY <1>1, <1>2, PTL DEF Spec

\* Each listener gets every event once, and one that has them all shows the inputs that wait, the live
\* state, the open questions and the newest settings (live.rs:235, 356, 394, 459): whatever the views,
\* the calls and the failed writes.
THEOREM ListenersTrueHolds ==
    ASSUME OutSane
    PROVE  Spec => []ListenersTrue
<1>1. OutInv => ListenersTrue
  BY OutShows
<1> QED
  BY <1>1, OutputInvariant, PTL

=============================================================================
