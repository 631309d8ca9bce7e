------------------------------ MODULE RestoreProofs ------------------------------
(***************************************************************************)
(* Proofs about WriteRestoreLog, for any places and values, and any number *)
(* of writes, entries and sessions.                                        *)
(***************************************************************************)
EXTENDS WriteRestoreLog, SequenceTheorems, NaturalsInduction, WellFoundedInduction, TLAPS

-----------------------------------------------------------------------------
(* What holds whatever goes wrong *)

(* An entry that marks a write names one that is in the log. *)
MarkersInv ==
    \A k \in 1..Here : \A n \in DOMAIN logs[k] :
        logs[k][n].kind = "restore" => logs[k][n].src \in 1..Here /\ logs[k][n].from \in DOMAIN logs[logs[k][n].src]

(* A restore works through entries of one log, and its item is what the entry says. *)
ItemInv ==
    /\ pc \in {"prompt", "next"} => ~Restoring
    /\ pc = "mark" => Restoring
    /\ pc = "next" \/ Restoring => item.src \in 1..Here /\ plan \subseteq DOMAIN logs[item.src]
    /\ pc = "next" => plan # {}
    /\ Restoring =>
        /\ item.from \in DOMAIN logs[item.src]
        /\ item.place = logs[item.src][item.from].place /\ item.want = logs[item.src][item.from].before

(* Only what was read back counts as applied. *)
ReadBackInv ==
    /\ pc \in {"prompt", "write", "verify"} => ~applied
    /\ pc \in {"log", "mark"} /\ applied => value[item.place] = item.want

BaseInv == TypeOK /\ MarkersInv /\ ItemInv /\ ReadBackInv

-----------------------------------------------------------------------------
(* What holds while restores and the log are in order *)

InOrderOnly ==
    /\ {"lost-reply", "restore-fails", "verify-fails", "crash-before-log", "restore-again", "restore-earlier"} \cap Faults = {}
    /\ Unchecked = {} \/ "last-restore-fails" \notin Faults

(* The item is the newest entry that its session is still owed, and the plan the others. *)
ItemIsNewest ==
    /\ Owed(item.src) = plan \cup {item.from}
    /\ \A i \in plan : i < item.from

PlanInv ==
    /\ pc = "next" \/ Restoring => \A j \in item.src + 1 .. Here : Owed(j) = {}
    /\ pc = "next" => plan = Owed(item.src)
    /\ pc = "write" /\ Restoring => ItemIsNewest
    /\ pc \in {"verify", "log", "mark"} /\ Restoring /\ (ok \/ plan # {}) => ItemIsNewest
    /\ pc \in {"verify", "log", "mark"} /\ Restoring /\ plan # {} => ok /\ value[item.place] = item.want
    /\ pc \in {"log", "mark"} /\ Restoring /\ ok =>
         IF item.place \in Unchecked THEN value[item.place] = item.want ELSE applied = (value[item.place] = item.want)
    /\ pc = "verify" => item.place \notin Unchecked
    /\ pc = "write" /\ ~Restoring => before = value[item.place]

RestoreInv == PlanInv /\ LeadsBackToStart

-----------------------------------------------------------------------------
(* The log *)

(* The entry that the item in progress leaves. *)
NewEntry(kind, well) ==
    [kind |-> kind, place |-> item.place, before |-> before, ok |-> well, from |-> item.from, src |-> item.src]

(* A log only grows at its end. *)
LEMMA LogGrows ==
    ASSUME TypeOK, NEW kind \in {"write", "restore"}, NEW well \in BOOLEAN, LogEntry(kind, well)
    PROVE  /\ logs' \in Seq(Seq(Entries)) /\ logs' # <<>> /\ Here' = Here /\ Here \in Nat /\ Here >= 1
           /\ NewEntry(kind, well) \in Entries
           /\ \A k \in 1..Here : k # Here => logs'[k] = logs[k]
           /\ logs'[Here] = Append(logs[Here], NewEntry(kind, well))
           /\ DOMAIN logs'[Here] = DOMAIN logs[Here] \cup {Len(logs[Here]) + 1}
           /\ Len(logs[Here]) + 1 \notin DOMAIN logs[Here]
           /\ logs'[Here][Len(logs[Here]) + 1] = NewEntry(kind, well)
           /\ \A n \in DOMAIN logs[Here] : logs'[Here][n] = logs[Here][n]
           /\ \A k \in 1..Here : \A n \in DOMAIN logs[k] : n \in DOMAIN logs'[k] /\ logs'[k][n] = logs[k][n]
<1> DEFINE e == NewEntry(kind, well)
<1>1. e \in Entries
  BY DEF NewEntry, Entries, TypeOK
<1>2. logs \in Seq(Seq(Entries)) /\ Here \in Nat /\ Here >= 1 /\ Here \in DOMAIN logs /\ DOMAIN logs = 1..Here
  BY DEF TypeOK, Here
<1>3. logs[Here] \in Seq(Entries)
  BY <1>2
<1>4. /\ Append(logs[Here], e) \in Seq(Entries)
      /\ Len(Append(logs[Here], e)) = Len(logs[Here]) + 1
      /\ \A n \in 1..Len(logs[Here]) : Append(logs[Here], e)[n] = logs[Here][n]
      /\ Append(logs[Here], e)[Len(logs[Here]) + 1] = e
  BY <1>1, <1>3, AppendProperties
<1>5. logs' = [logs EXCEPT ![Here] = Append(logs[Here], e)]
  BY DEF LogEntry, NewEntry
<1> HIDE DEF e
<1>6. /\ logs' \in Seq(Seq(Entries)) /\ Len(logs') = Len(logs) /\ logs'[Here] = Append(logs[Here], e)
      /\ \A k \in 1..Here : k # Here => logs'[k] = logs[k]
  BY <1>2, <1>4, <1>5, ExceptSeq
<1>7. logs' # <<>> /\ Here' = Here
  <2>1. Len(logs') = Len(logs) /\ Here # 0
    BY <1>2, <1>6
  <2>2. Here' = Here
    BY <2>1 DEF Here
  <2>3. Len(logs') # 0
    BY <2>1 DEF Here
  <2>4. QED
    BY <2>2, <2>3
<1>8. /\ Len(logs[Here]) \in Nat /\ DOMAIN logs[Here] = 1..Len(logs[Here])
      /\ DOMAIN logs'[Here] = 1..(Len(logs[Here]) + 1)
  BY <1>3, <1>4, <1>6
<1>9. /\ DOMAIN logs'[Here] = DOMAIN logs[Here] \cup {Len(logs[Here]) + 1} /\ Len(logs[Here]) + 1 \notin DOMAIN logs[Here]
      /\ \A n \in DOMAIN logs[Here] : logs'[Here][n] = logs[Here][n]
      /\ logs'[Here][Len(logs[Here]) + 1] = e
  <2> DEFINE m == Len(logs[Here])
  <2>1. m \in Nat /\ 1..(m + 1) = (1..m) \cup {m + 1} /\ m + 1 \notin 1..m
    BY <1>8
  <2> HIDE DEF m
  <2>2. QED
    BY <1>4, <1>6, <1>8, <2>1 DEF m
<1>10. \A k \in 1..Here : \A n \in DOMAIN logs[k] : n \in DOMAIN logs'[k] /\ logs'[k][n] = logs[k][n]
  BY <1>6, <1>9
<1>11. QED
  BY <1>1, <1>2, <1>6, <1>7, <1>9, <1>10 DEF e

(* The next session starts a log of its own. *)
LEMMA LogStarts ==
    ASSUME TypeOK, logs' = Append(logs, <<>>)
    PROVE  /\ logs' \in Seq(Seq(Entries)) /\ logs' # <<>> /\ Here' = Here + 1 /\ Here \in Nat /\ Here >= 1
           /\ \A k \in 1..Here : logs'[k] = logs[k]
           /\ logs'[Here + 1] = <<>>
<1>1. logs \in Seq(Seq(Entries)) /\ <<>> \in Seq(Entries) /\ Here \in Nat /\ Here >= 1
  BY DEF TypeOK, Here
<1>2. QED
  BY <1>1, AppendProperties DEF Here

Items == [place : Places, want : Values, from : Nat, src : Nat]

(* The command holds no entry before its first item and after its last. *)
LEMMA NoItemIs ==
    NoItem \in Items /\ NoItem.from = 0 /\ NoItem.want \in Values
<1>1. (CHOOSE p \in Places : TRUE) \in Places /\ (CHOOSE v \in Values : TRUE) \in Values
  BY PlacesAssumption
<1>2. QED
  BY <1>1 DEF NoItem, Items

LEMMA SourceItem ==
    ASSUME NEW k \in Nat, NEW i, i = [NoItem EXCEPT !.src = k]
    PROVE  i \in Items /\ i.from = 0 /\ i.src = k
BY NoItemIs DEF Items

LEMMA NewestIs ==
    ASSUME NEW n \in Nat, NEW S \in SUBSET (1..n), S # {}
    PROVE  Newest(S) \in S /\ \A j \in S : j <= Newest(S)
<1> DEFINE T == {n - i : i \in S}
           Less == {pair \in Nat \X Nat : pair[1] < pair[2]}
<1>1. T \in SUBSET Nat /\ T # {}
  <2>1. \A i \in S : n - i \in Nat
    OBVIOUS
  <2>2. QED
    BY <2>1 DEF T
<1>2. IsWellFoundedOn(Less, Nat)
  BY NatLessThanWellFounded DEF OpToRel
<1>3. \A i, j \in Nat : j < i => <<j, i>> \in Less
  OBVIOUS
<1> HIDE DEF Less, T
<1>4. PICK t \in T : \A u \in T : ~(<<u, t>> \in Less)
  BY <1>1, <1>2, WFMin
<1>5. PICK i \in S : t = n - i
  BY <1>4 DEF T
<1>6. ASSUME NEW j \in S PROVE j <= i
  <2>1. n - j \in T /\ n - j \in Nat /\ t \in Nat
    BY <1>1 DEF T
  <2>2. ~(n - j < t)
    BY <1>3, <1>4, <2>1
  <2>3. QED
    BY <1>5, <2>2
<1>7. QED
  BY <1>6 DEF Newest

-----------------------------------------------------------------------------
(* Every step keeps what holds whatever goes wrong *)

LEMMA AtPrompt ==
    ASSUME TypeOK, Prompt
    PROVE  /\ ItemInv' /\ ReadBackInv'
           /\ pc' = "prompt" /\ plan' \subseteq Nat /\ item' \in Items /\ before' \in Values
           /\ ok' = FALSE /\ applied' = FALSE /\ item'.from = 0 /\ ~Restoring'
<1>1. pc' = "prompt" /\ plan' = {} /\ item' = NoItem /\ before' = NoItem.want /\ ok' = FALSE /\ applied' = FALSE
  BY DEF Prompt
<1>2. item' \in Items /\ item'.from = 0 /\ before' \in Values
  BY <1>1, NoItemIs
<1>3. QED
  BY <1>1, <1>2 DEF ItemInv, ReadBackInv, Restoring

LEMMA TypeFacts ==
    ASSUME TypeOK
    PROVE  /\ value \in [Places -> Values] /\ start \in [Places -> Values]
           /\ logs \in Seq(Seq(Entries)) /\ logs # <<>> /\ Here \in Nat /\ Here >= 1
           /\ \A k \in 1..Here : logs[k] \in Seq(Entries) /\ DOMAIN logs[k] \subseteq Nat \ {0}
           /\ plan \subseteq Nat /\ item \in Items /\ item.place \in Places /\ item.want \in Values
           /\ item.from \in Nat /\ item.src \in Nat
           /\ before \in Values /\ ok \in BOOLEAN /\ applied \in BOOLEAN
<1>1. logs \in Seq(Seq(Entries)) /\ logs # <<>> /\ Here \in Nat /\ Here >= 1
  BY DEF TypeOK, Here
<1>2. \A k \in 1..Here : logs[k] \in Seq(Entries)
  BY <1>1 DEF Here
<1>3. \A s \in Seq(Entries) : DOMAIN s \subseteq Nat \ {0}
  OBVIOUS
<1>4. QED
  BY <1>1, <1>2, <1>3 DEF TypeOK, Items

LEMMA MarkersKept ==
    ASSUME TypeOK, MarkersInv, ItemInv, NEW kind \in {"write", "restore"}, NEW well \in BOOLEAN,
           LogEntry(kind, well), kind = "restore" => Restoring
    PROVE  MarkersInv'
<1> DEFINE n0 == Len(logs[Here]) + 1
           e0 == NewEntry(kind, well)
<1>1. /\ Here' = Here
      /\ \A k \in 1..Here : k # Here => logs'[k] = logs[k]
      /\ DOMAIN logs'[Here] = DOMAIN logs[Here] \cup {n0} /\ logs'[Here][n0] = e0
      /\ \A n \in DOMAIN logs[Here] : logs'[Here][n] = logs[Here][n]
      /\ \A k \in 1..Here : \A n \in DOMAIN logs[k] : n \in DOMAIN logs'[k] /\ logs'[k][n] = logs[k][n]
  BY LogGrows
<1>2. e0.kind = kind /\ e0.src = item.src /\ e0.from = item.from
  BY DEF NewEntry
<1>3. kind = "restore" => item.src \in 1..Here /\ item.from \in DOMAIN logs[item.src]
  BY DEF ItemInv
<1> HIDE DEF n0, e0
<1>4. ASSUME NEW k \in 1..Here', NEW n \in DOMAIN logs'[k], logs'[k][n].kind = "restore"
      PROVE  logs'[k][n].src \in 1..Here' /\ logs'[k][n].from \in DOMAIN logs'[logs'[k][n].src]
  <2>1. k \in 1..Here
    BY <1>1, <1>4
  <2>2. CASE k = Here /\ n = n0
    BY <1>1, <1>2, <1>3, <1>4, <2>2
  <2>3. CASE ~(k = Here /\ n = n0)
    <3>1. n \in DOMAIN logs[k] /\ logs'[k][n] = logs[k][n]
      BY <1>1, <2>1, <2>3, <1>4
    <3>2. logs[k][n].src \in 1..Here /\ logs[k][n].from \in DOMAIN logs[logs[k][n].src]
      BY <1>4, <2>1, <3>1 DEF MarkersInv
    <3>3. QED
      BY <1>1, <3>1, <3>2
  <2>4. QED
    BY <2>2, <2>3
<1>5. QED
  BY <1>4 DEF MarkersInv

LEMMA StartWriteBase ==
    ASSUME BaseInv, NEW p \in Places, NEW v \in Values, StartWrite(p, v)
    PROVE  BaseInv'
<1>1. /\ item' = [NoItem EXCEPT !.place = p, !.want = v] /\ before' = value[p] /\ pc' = "write" /\ pc = "prompt"
      /\ value' = value /\ logs' = logs /\ plan' = plan /\ ok' = ok /\ applied' = applied /\ start' = start
  BY DEF StartWrite
<1>2. item' \in Items /\ item'.from = 0
  <2>1. item' = [NoItem EXCEPT !.place = p, !.want = v]
    BY <1>1
  <2>2. QED
    BY <2>1, NoItemIs DEF Items
<1>3. before' \in Values
  BY <1>1, TypeFacts DEF BaseInv
<1>4. TypeOK'
  BY <1>1, <1>2, <1>3 DEF BaseInv, TypeOK, Items
<1>5. MarkersInv'
  BY <1>1 DEF BaseInv, MarkersInv, Here
<1>6. ItemInv' /\ ReadBackInv'
  BY <1>1, <1>2 DEF BaseInv, ItemInv, ReadBackInv, Restoring
<1>7. QED
  BY <1>4, <1>5, <1>6 DEF BaseInv

LEMMA DeclineBase ==
    ASSUME BaseInv, Decline
    PROVE  BaseInv'
<1>1. Prompt /\ value' = value /\ logs' = logs /\ start' = start
  BY DEF Decline
<1>2. ItemInv' /\ ReadBackInv' /\ pc' = "prompt" /\ plan' \subseteq Nat /\ item' \in Items /\ before' \in Values
      /\ ok' = FALSE /\ applied' = FALSE
  BY <1>1, AtPrompt DEF BaseInv
<1>3. TypeOK'
  BY <1>1, <1>2 DEF BaseInv, TypeOK, Items
<1>4. MarkersInv'
  BY <1>1 DEF BaseInv, MarkersInv, Here
<1>5. QED
  BY <1>2, <1>3, <1>4 DEF BaseInv

LEMMA RestoreBase ==
    ASSUME BaseInv, NEW k \in 1..MaxSessions, Restore(k)
    PROVE  BaseInv'
<1>1. /\ pc = "prompt" /\ k \in 1..Here /\ Plan(k) # {} /\ plan' = Plan(k) /\ item' = [NoItem EXCEPT !.src = k] /\ pc' = "next"
      /\ value' = value /\ logs' = logs /\ before' = before /\ ok' = ok /\ applied' = applied /\ start' = start
  BY DEF Restore
<1>2. k \in Nat
  BY <1>1, TypeFacts DEF BaseInv
<1>3. item' \in Items /\ item'.from = 0 /\ item'.src = k
  BY <1>1, <1>2, SourceItem
<1>4. plan' \subseteq DOMAIN logs[k]
  BY <1>1 DEF Plan, Restorable
<1>5. plan' \subseteq Nat
  BY <1>1, <1>4, TypeFacts DEF BaseInv
<1>6. TypeOK'
  BY <1>1, <1>3, <1>5 DEF BaseInv, TypeOK, Items
<1>7. MarkersInv'
  BY <1>1 DEF BaseInv, MarkersInv, Here
<1>8. ItemInv' /\ ReadBackInv'
  BY <1>1, <1>3, <1>4 DEF BaseInv, ItemInv, ReadBackInv, Restoring, Here
<1>9. QED
  BY <1>6, <1>7, <1>8 DEF BaseInv

(* The item that a restore takes next. *)
LEMMA NextItemIs ==
    ASSUME BaseInv, NextItem
    PROVE  LET i == Newest(plan)
               k == item.src
           IN  /\ pc = "next" /\ k \in 1..Here /\ i \in plan /\ plan \subseteq DOMAIN logs[k] /\ \A j \in plan : j <= i
               /\ i \in Nat \ {0}
               /\ logs[k][i] \in Entries
               /\ item' \in Items /\ item'.from = i /\ item'.src = k /\ item'.place = logs[k][i].place
               /\ item'.want = logs[k][i].before
               /\ before' \in Values
               /\ ok' = FALSE /\ applied' = FALSE /\ value' = value /\ logs' = logs /\ start' = start
               /\ Restoring'
               /\ \/ pc' = "write" /\ plan' = plan \ {i}
                  \/ pc' = "mark" /\ plan' = {}
                  \/ pc' = "mark" /\ plan' = plan \ {i} /\ RestoreFails(plan \ {i})
<1> DEFINE i == Newest(plan)
           k == item.src
<1>1. /\ pc = "next" /\ ok' = FALSE /\ applied' = FALSE /\ value' = value /\ logs' = logs /\ start' = start
      /\ item' = [place |-> logs[k][i].place, want |-> logs[k][i].before, from |-> i, src |-> k]
      /\ before' = value[logs[k][i].place]
  BY DEF NextItem
<1>2. PICK o \in Outcomes(plan \ {i}) :
        /\ pc' = IF o = "ok" THEN "write" ELSE "mark"
        /\ plan' = PlanAfter(o, plan \ {i})
  BY DEF NextItem
<1>3. k \in 1..Here /\ plan \subseteq DOMAIN logs[k] /\ plan # {}
  BY <1>1 DEF BaseInv, ItemInv
<1>4. logs[k] \in Seq(Entries)
  BY <1>3, TypeFacts DEF BaseInv
<1>5. Len(logs[k]) \in Nat /\ plan \in SUBSET (1..Len(logs[k]))
  BY <1>3, <1>4
<1> HIDE DEF i, k
<1>6. i \in plan /\ \A j \in plan : j <= i
  BY <1>3, <1>5, NewestIs DEF i
<1>7. i \in Nat \ {0} /\ logs[k][i] \in Entries
  BY <1>4, <1>5, <1>6
<1>8. logs[k][i].place \in Places /\ logs[k][i].before \in Values
  BY <1>7 DEF Entries
<1>9. before' \in Values /\ k \in Nat
  BY <1>1, <1>3, <1>8, TypeFacts DEF BaseInv
<1>10. /\ item' \in Items /\ item'.from = i /\ item'.src = k
       /\ item'.place = logs[k][i].place /\ item'.want = logs[k][i].before
  BY <1>1, <1>7, <1>8, <1>9 DEF Items
<1>11. Restoring'
  BY <1>7, <1>10 DEF Restoring
<1>12. o \in {"ok"} \/ o \in {"dropped"} \/ (o = "refused" /\ RestoreFails(plan \ {i}))
  BY <1>2, <1>11 DEF Outcomes
<1>13. \/ pc' = "write" /\ plan' = plan \ {i}
       \/ pc' = "mark" /\ plan' = {}
       \/ pc' = "mark" /\ plan' = plan \ {i} /\ RestoreFails(plan \ {i})
  BY <1>2, <1>12 DEF PlanAfter
<1>14. QED
  BY <1>1, <1>3, <1>6, <1>7, <1>9, <1>10, <1>11, <1>13 DEF i, k

LEMMA NextItemBase ==
    ASSUME BaseInv, NextItem
    PROVE  BaseInv'
<1> DEFINE i == Newest(plan)
           k == item.src
<1>1. /\ pc = "next" /\ k \in 1..Here /\ i \in plan /\ plan \subseteq DOMAIN logs[k]
      /\ item' \in Items /\ item'.from = i /\ item'.src = k /\ item'.place = logs[k][i].place /\ item'.want = logs[k][i].before
      /\ before' \in Values
      /\ ok' = FALSE /\ applied' = FALSE /\ value' = value /\ logs' = logs /\ start' = start /\ Restoring'
      /\ pc' \in {"write", "mark"} /\ plan' \subseteq plan
  BY NextItemIs
<1> HIDE DEF i, k
<1>2. TypeOK'
  BY <1>1 DEF BaseInv, TypeOK, Items
<1>3. MarkersInv'
  BY <1>1 DEF BaseInv, MarkersInv, Here
<1>4. ItemInv'
  BY <1>1 DEF BaseInv, ItemInv, Restoring, Here
<1>5. ReadBackInv'
  BY <1>1 DEF ReadBackInv
<1>6. QED
  BY <1>2, <1>3, <1>4, <1>5 DEF BaseInv

(* How the requests of an item may end. *)
LEMMA WriteItemIs ==
    ASSUME TypeOK, WriteItem
    PROVE  /\ pc = "write" /\ pc' \in {"verify", "log"} /\ (pc' = "verify" => item.place \notin Unchecked)
           /\ logs' = logs /\ item' = item /\ before' = before /\ start' = start /\ applied' = applied
           /\ value' \in [Places -> Values] /\ ok' \in BOOLEAN /\ plan' \subseteq plan
           /\ Restoring' = Restoring
           /\ \/ value' = [value EXCEPT ![item.place] = item.want] /\ (ok' \/ (~Restoring /\ "lost-reply" \in Faults))
              \/ value' = value /\ (ok' /\ Restoring => RestoreFails(plan))
           /\ Restoring =>
                /\ ok' => plan' = plan /\ pc' = IF item.place \in Unchecked THEN "log" ELSE "verify"
                /\ ~ok' => plan' = {} \/ (plan' = plan /\ RestoreFails(plan))
<1>1. /\ pc = "write" /\ logs' = logs /\ item' = item /\ before' = before /\ start' = start /\ applied' = applied
  BY DEF WriteItem
<1>2. PICK o \in Outcomes(plan),
           sticks \in {TRUE} \cup {b \in {FALSE} : IF Restoring THEN RestoreFails(plan) ELSE "not-applied" \in Faults} :
        /\ value' = IF TakesEffect(o) /\ sticks THEN [value EXCEPT ![item.place] = item.want] ELSE value
        /\ ok' = (o = "ok")
        /\ plan' = PlanAfter(o, plan)
        /\ pc' \in IF o # "ok" \/ item.place \in Unchecked THEN {"log"}
                   ELSE IF Restoring THEN {"verify"} ELSE {"verify", "log"}
  BY DEF WriteItem
<1>3. Restoring' = Restoring
  BY <1>1 DEF Restoring
<1>4. sticks \in BOOLEAN /\ (~sticks /\ Restoring => RestoreFails(plan))
  BY <1>2
<1>5. /\ Restoring => o \in {"ok", "dropped"} \/ (o = "refused" /\ RestoreFails(plan))
      /\ ~Restoring => o \in {"ok", "late", "refused", "dropped"} /\ (o = "late" => "lost-reply" \in Faults)
  BY <1>2, <1>3 DEF Outcomes, Ends
<1>6. [value EXCEPT ![item.place] = item.want] \in [Places -> Values]
  BY TypeFacts
<1>7. /\ value' \in [Places -> Values] /\ ok' \in BOOLEAN /\ plan' \subseteq plan
      /\ pc' \in {"verify", "log"} /\ (pc' = "verify" => item.place \notin Unchecked)
  BY <1>2, <1>6, TypeFacts DEF PlanAfter
<1>8. \/ value' = [value EXCEPT ![item.place] = item.want] /\ (ok' \/ (~Restoring /\ "lost-reply" \in Faults))
      \/ value' = value /\ (ok' /\ Restoring => RestoreFails(plan))
  <2>1. CASE TakesEffect(o) /\ sticks
    <3>1. o \in {"ok", "late"}
      BY <2>1 DEF TakesEffect
    <3>2. value' = [value EXCEPT ![item.place] = item.want]
      BY <1>2, <2>1
    <3>3. ok' \/ (~Restoring /\ "lost-reply" \in Faults)
      BY <1>2, <1>5, <3>1
    <3>4. QED
      BY <3>2, <3>3
  <2>2. CASE ~(TakesEffect(o) /\ sticks)
    <3>1. value' = value
      BY <1>2, <2>2
    <3>2. ok' /\ Restoring => RestoreFails(plan)
      BY <1>2, <1>4, <2>2 DEF TakesEffect
    <3>3. QED
      BY <3>1, <3>2
  <2>3. QED
    BY <2>1, <2>2
<1>9. Restoring =>
        /\ ok' => plan' = plan /\ pc' = IF item.place \in Unchecked THEN "log" ELSE "verify"
        /\ ~ok' => plan' = {} \/ (plan' = plan /\ RestoreFails(plan))
  BY <1>2, <1>5 DEF PlanAfter
<1>10. QED
  BY <1>1, <1>3, <1>7, <1>8, <1>9

LEMMA WriteItemBase ==
    ASSUME BaseInv, WriteItem
    PROVE  BaseInv'
<1>1. /\ pc = "write" /\ pc' \in {"verify", "log"}
      /\ logs' = logs /\ item' = item /\ before' = before /\ start' = start /\ applied' = applied
      /\ value' \in [Places -> Values] /\ ok' \in BOOLEAN /\ plan' \subseteq plan
  BY WriteItemIs DEF BaseInv
<1>2. TypeOK'
  BY <1>1 DEF BaseInv, TypeOK
<1>3. MarkersInv'
  BY <1>1 DEF BaseInv, MarkersInv, Here
<1>4. ItemInv' /\ ReadBackInv'
  BY <1>1 DEF BaseInv, ItemInv, ReadBackInv, Restoring, Here
<1>5. QED
  BY <1>2, <1>3, <1>4 DEF BaseInv

LEMMA VerifyItemBase ==
    ASSUME BaseInv, VerifyItem
    PROVE  BaseInv'
<1>1. pc = "verify" /\ value' = value /\ logs' = logs /\ start' = start
  BY DEF VerifyItem
<1>2. MarkersInv'
  BY <1>1 DEF BaseInv, MarkersInv, Here
<1>3. CASE applied' = (value[item.place] = item.want) /\ pc' = "log" /\ UNCHANGED <<plan, item, before, ok>>
  <2>1. TypeOK'
    BY <1>1, <1>3 DEF BaseInv, TypeOK
  <2>2. ItemInv' /\ ReadBackInv'
    BY <1>1, <1>3 DEF BaseInv, ItemInv, ReadBackInv, Restoring, Here
  <2>3. QED
    BY <1>2, <2>1, <2>2 DEF BaseInv
<1>4. CASE Restoring /\ pc' = "mark" /\ ok' = FALSE /\ UNCHANGED <<plan, item, before, applied>>
  <2>1. TypeOK'
    BY <1>1, <1>4 DEF BaseInv, TypeOK
  <2>2. ItemInv' /\ ReadBackInv'
    BY <1>1, <1>4 DEF BaseInv, ItemInv, ReadBackInv, Restoring, Here
  <2>3. QED
    BY <1>2, <2>1, <2>2 DEF BaseInv
<1>5. CASE Prompt
  <2>1. ItemInv' /\ ReadBackInv' /\ pc' = "prompt" /\ plan' \subseteq Nat /\ item' \in Items /\ before' \in Values
        /\ ok' = FALSE /\ applied' = FALSE
    BY <1>5, AtPrompt DEF BaseInv
  <2>2. TypeOK'
    BY <1>1, <2>1 DEF BaseInv, TypeOK, Items
  <2>3. QED
    BY <1>2, <2>1, <2>2 DEF BaseInv
<1>6. QED
  BY <1>3, <1>4, <1>5 DEF VerifyItem

(* A command that only adds to the log goes on with its item, which the log still holds. *)
LEMMA GoesOn ==
    ASSUME TypeOK, ItemInv, NEW kind \in {"write", "restore"}, NEW well \in BOOLEAN, LogEntry(kind, well), Restoring,
           item'.src = item.src, plan' = plan
    PROVE  /\ item'.src \in 1..Here' /\ plan' \subseteq DOMAIN logs'[item'.src]
           /\ item' = item =>
                /\ item'.from \in DOMAIN logs'[item'.src]
                /\ item'.place = logs'[item'.src][item'.from].place
                /\ item'.want = logs'[item'.src][item'.from].before
<1>1. /\ Here' = Here
      /\ \A k \in 1..Here : \A n \in DOMAIN logs[k] : n \in DOMAIN logs'[k] /\ logs'[k][n] = logs[k][n]
  BY LogGrows
<1>2. /\ item.src \in 1..Here /\ plan \subseteq DOMAIN logs[item.src] /\ item.from \in DOMAIN logs[item.src]
      /\ item.place = logs[item.src][item.from].place /\ item.want = logs[item.src][item.from].before
  BY DEF ItemInv
<1>3. QED
  BY <1>1, <1>2

LEMMA LogItemBase ==
    ASSUME BaseInv, LogItem
    PROVE  BaseInv'
<1>1. pc = "log" /\ LogEntry("write", ok) /\ value' = value /\ start' = start
  BY DEF LogItem
<1>2. "write" \in {"write", "restore"} /\ ok \in BOOLEAN
  BY TypeFacts DEF BaseInv
<1>3. MarkersInv'
  BY <1>1, <1>2, MarkersKept DEF BaseInv
<1>4. logs' \in Seq(Seq(Entries)) /\ logs' # <<>>
  BY <1>1, <1>2, LogGrows DEF BaseInv
<1>5. CASE Restoring /\ pc' = "mark" /\ UNCHANGED <<plan, item, before, ok, applied>>
  <2>1. TypeOK'
    BY <1>1, <1>4, <1>5 DEF BaseInv, TypeOK
  <2>2. ItemInv'
    BY <1>1, <1>2, <1>5, GoesOn DEF BaseInv, ItemInv, Restoring
  <2>3. ReadBackInv'
    BY <1>1, <1>5 DEF BaseInv, ReadBackInv
  <2>4. QED
    BY <1>3, <2>1, <2>2, <2>3 DEF BaseInv
<1>6. CASE Prompt
  <2>1. ItemInv' /\ ReadBackInv' /\ pc' = "prompt" /\ plan' \subseteq Nat /\ item' \in Items /\ before' \in Values
        /\ ok' = FALSE /\ applied' = FALSE
    BY <1>6, AtPrompt DEF BaseInv
  <2>2. TypeOK'
    BY <1>1, <1>4, <2>1 DEF BaseInv, TypeOK, Items
  <2>3. QED
    BY <1>3, <2>1, <2>2 DEF BaseInv
<1>7. QED
  BY <1>5, <1>6 DEF LogItem

LEMMA MarkItemBase ==
    ASSUME BaseInv, MarkItem
    PROVE  BaseInv'
<1>1. pc = "mark" /\ LogEntry("restore", PutBack) /\ value' = value /\ start' = start
  BY DEF MarkItem
<1>2. "restore" \in {"write", "restore"} /\ PutBack \in BOOLEAN /\ Restoring
  BY <1>1, TypeFacts DEF BaseInv, PutBack, ItemInv
<1>3. MarkersInv'
  BY <1>1, <1>2, MarkersKept DEF BaseInv
<1>4. logs' \in Seq(Seq(Entries)) /\ logs' # <<>>
  BY <1>1, <1>2, LogGrows DEF BaseInv
<1>5. CASE plan # {} /\ pc' = "next" /\ item' = [NoItem EXCEPT !.src = item.src] /\ UNCHANGED <<plan, before, ok, applied>>
  <2>1. item' \in Items /\ item'.from = 0 /\ item'.src = item.src
    BY <1>5, SourceItem, TypeFacts DEF BaseInv
  <2>2. TypeOK'
    BY <1>1, <1>4, <1>5, <2>1 DEF BaseInv, TypeOK, Items
  <2>3. ItemInv'
    BY <1>1, <1>2, <1>5, <2>1, GoesOn DEF BaseInv, ItemInv, Restoring
  <2>4. ReadBackInv'
    BY <1>1, <1>5 DEF ReadBackInv
  <2>5. QED
    BY <1>3, <2>2, <2>3, <2>4 DEF BaseInv
<1>6. CASE Prompt
  <2>1. ItemInv' /\ ReadBackInv' /\ pc' = "prompt" /\ plan' \subseteq Nat /\ item' \in Items /\ before' \in Values
        /\ ok' = FALSE /\ applied' = FALSE
    BY <1>6, AtPrompt DEF BaseInv
  <2>2. TypeOK'
    BY <1>1, <1>4, <2>1 DEF BaseInv, TypeOK, Items
  <2>3. QED
    BY <1>3, <2>1, <2>2 DEF BaseInv
<1>7. QED
  BY <1>5, <1>6 DEF MarkItem

LEMMA NewSessionBase ==
    ASSUME BaseInv, NewSession
    PROVE  BaseInv'
<1>1. logs' = Append(logs, <<>>) /\ Prompt /\ value' = value /\ start' = start
  BY DEF NewSession
<1>2. /\ logs' \in Seq(Seq(Entries)) /\ logs' # <<>> /\ Here' = Here + 1 /\ Here \in Nat
      /\ \A k \in 1..Here : logs'[k] = logs[k]
      /\ logs'[Here + 1] = <<>>
  BY <1>1, LogStarts DEF BaseInv
<1>3. ItemInv' /\ ReadBackInv' /\ pc' = "prompt" /\ plan' \subseteq Nat /\ item' \in Items /\ before' \in Values
      /\ ok' = FALSE /\ applied' = FALSE
  BY <1>1, AtPrompt DEF BaseInv
<1>4. TypeOK'
  BY <1>1, <1>2, <1>3 DEF BaseInv, TypeOK, Items
<1>5. ASSUME NEW k \in 1..Here', NEW n \in DOMAIN logs'[k], logs'[k][n].kind = "restore"
      PROVE  logs'[k][n].src \in 1..Here' /\ logs'[k][n].from \in DOMAIN logs'[logs'[k][n].src]
  <2>1. k # Here + 1
    BY <1>2, <1>5
  <2>2. k \in 1..Here /\ logs'[k] = logs[k]
    BY <1>2, <1>5, <2>1
  <2>3. logs[k][n].src \in 1..Here /\ logs[k][n].from \in DOMAIN logs[logs[k][n].src]
    BY <1>5, <2>2 DEF BaseInv, MarkersInv
  <2>4. 1..Here \subseteq 1..Here'
    BY <1>2
  <2>5. QED
    BY <1>2, <2>2, <2>3, <2>4
<1>6. MarkersInv'
  BY <1>5 DEF MarkersInv
<1>7. QED
  BY <1>3, <1>4, <1>6 DEF BaseInv

LEMMA BaseInit ==
    ASSUME Init
    PROVE  BaseInv
<1>1. /\ value \in [Places -> Values] /\ start = value /\ logs = << <<>> >> /\ pc = "prompt" /\ plan = {} /\ item = NoItem
      /\ before = NoItem.want /\ ok = FALSE /\ applied = FALSE
  BY DEF Init
<1>2. item \in Items /\ item.from = 0 /\ before \in Values
  BY <1>1, NoItemIs
<1>3. logs \in Seq(Seq(Entries)) /\ logs # <<>> /\ Here = 1 /\ logs[1] = <<>>
  BY <1>1 DEF Here
<1>4. TypeOK
  BY <1>1, <1>2, <1>3 DEF TypeOK, Items
<1>5. MarkersInv
  BY <1>3 DEF MarkersInv
<1>6. ItemInv /\ ReadBackInv
  BY <1>1, <1>2 DEF ItemInv, ReadBackInv, Restoring
<1>7. QED
  BY <1>4, <1>5, <1>6 DEF BaseInv

LEMMA BaseStep ==
    ASSUME BaseInv, [Next]_vars
    PROVE  BaseInv'
<1>1. CASE UNCHANGED vars
  BY <1>1 DEF vars, command, BaseInv, TypeOK, MarkersInv, ItemInv, ReadBackInv, Restoring, Here
<1>2. QED
  BY <1>1, StartWriteBase, DeclineBase, RestoreBase, NextItemBase, WriteItemBase, VerifyItemBase, LogItemBase,
     MarkItemBase, NewSessionBase DEF Next

(* Every variable keeps its type, whatever goes wrong. *)
THEOREM WriteRestoreTypes == Spec => []TypeOK
<1>1. Init => BaseInv
  BY BaseInit
<1>2. BaseInv /\ [Next]_vars => BaseInv'
  BY BaseStep
<1>3. BaseInv => TypeOK
  BY DEF BaseInv
<1>4. QED
  BY <1>1, <1>2, <1>3, PTL DEF Spec

(* LOG-2 (core/restore.py:117-133): whatever fails or crashes, a value that is read back is marked as restored only    *)
(* when it is really back.                                                                                           *)
THEOREM MarkedWasPutBack == Spec => MarkedIsBack
<1> DEFINE marked == logs'[Here][Len(logs'[Here])]
           A == pc = "mark" /\ logs' # logs /\ Len(logs') = Len(logs) /\ marked.ok /\ item.place \notin Unchecked
                  => value[item.place] = item.want
<1>1. Init => BaseInv
  BY BaseInit
<1>2. BaseInv /\ [Next]_vars => BaseInv'
  BY BaseStep
<1>3. ASSUME BaseInv, [Next]_vars, pc = "mark", logs' # logs, Len(logs') = Len(logs), marked.ok, item.place \notin Unchecked
      PROVE  value[item.place] = item.want
  <2>1. Next
    BY <1>3 DEF vars
  <2>2. ~NewSession
    <3>1. ASSUME NewSession PROVE FALSE
      <4>1. logs' = Append(logs, <<>>)
        BY <3>1 DEF NewSession
      <4>2. Here' = Here + 1 /\ Here \in Nat
        BY <4>1, LogStarts, <1>3 DEF BaseInv
      <4>3. QED
        BY <1>3, <4>2 DEF Here
    <3>2. QED
      BY <3>1
  <2>3. MarkItem
    BY <1>3, <2>1, <2>2
       DEF Next, StartWrite, Decline, Restore, NextItem, WriteItem, VerifyItem, LogItem
  <2>4. LogEntry("restore", PutBack)
    BY <2>3 DEF MarkItem
  <2>5. "restore" \in {"write", "restore"} /\ PutBack \in BOOLEAN
    BY <1>3, TypeFacts DEF BaseInv, PutBack
  <2>6. /\ logs'[Here] = Append(logs[Here], NewEntry("restore", PutBack))
        /\ Here \in Nat /\ Here >= 1 /\ NewEntry("restore", PutBack) \in Entries
    BY <1>3, <2>4, <2>5, LogGrows DEF BaseInv
  <2>7. logs[Here] \in Seq(Entries)
    BY <1>3, <2>6, TypeFacts DEF BaseInv
  <2>8. marked = NewEntry("restore", PutBack)
    BY <2>6, <2>7, AppendProperties
  <2>9. PutBack
    BY <1>3, <2>8 DEF NewEntry
  <2>10. applied
    BY <1>3, <2>9 DEF PutBack
  <2>11. QED
    BY <1>3, <2>10 DEF BaseInv, ReadBackInv
<1>4. BaseInv /\ [Next]_vars => [A]_vars
  BY <1>3 DEF A
<1>5. QED
  BY <1>1, <1>2, <1>4, PTL DEF Spec, MarkedIsBack

-----------------------------------------------------------------------------
(* What a session is still owed *)

Written(k) == {i \in DOMAIN logs[k] : logs[k][i].kind = "write" /\ logs[k][i].ok /\ logs[k][i].from = 0}

LEMMA OwedIs ==
    ASSUME NEW k
    PROVE  Owed(k) = Written(k) \ Done(k) /\ Owed(k) \subseteq DOMAIN logs[k]
BY DEF Owed, Restorable, Written

(* An entry n of log j marks entry i of log k as put back. *)
Marks(j, n, k, i) ==
    n \in DOMAIN logs[j] /\ logs[j][n].kind = "restore" /\ logs[j][n].ok /\ logs[j][n].src = k /\ logs[j][n].from = i

LEMMA DoneIs ==
    ASSUME NEW k, NEW i
    PROVE  i \in Done(k) <=> \E j \in k..Here : \E n \in DOMAIN logs[j] : Marks(j, n, k, i)
BY DEF Done, Restored, Range, Marks

(* Only what is in a log has been put back. *)
LEMMA DoneInLog ==
    ASSUME TypeOK, MarkersInv, NEW k \in 1..Here
    PROVE  Done(k) \subseteq DOMAIN logs[k]
<1>1. ASSUME NEW i \in Done(k) PROVE i \in DOMAIN logs[k]
  <2>1. PICK j \in k..Here : \E n \in DOMAIN logs[j] : Marks(j, n, k, i)
    BY DoneIs
  <2>2. j \in 1..Here
    BY TypeFacts
  <2>3. QED
    BY <2>1, <2>2 DEF MarkersInv, Marks
<1>2. QED
  BY <1>1

(* Where the logs are the same, so is what is owed. *)
LEMMA OwedSame ==
    ASSUME logs' = logs, NEW k
    PROVE  Owed(k)' = Owed(k)
BY DEF Owed, Restorable, Done, Restored, Here

(* An entry in the current log changes what is written and what is done as it says. *)
LEMMA WrittenGrows ==
    ASSUME TypeOK, NEW kind \in {"write", "restore"}, NEW well \in BOOLEAN, LogEntry(kind, well), NEW k \in 1..Here
    PROVE  Written(k)' = Written(k) \cup {n \in {Len(logs[Here]) + 1} : k = Here /\ kind = "write" /\ well /\ item.from = 0}
<1> DEFINE n0 == Len(logs[Here]) + 1
           e0 == NewEntry(kind, well)
<1>1. /\ k # Here => logs'[k] = logs[k]
      /\ DOMAIN logs'[Here] = DOMAIN logs[Here] \cup {n0} /\ logs'[Here][n0] = e0
      /\ \A n \in DOMAIN logs[Here] : logs'[Here][n] = logs[Here][n]
      /\ n0 \notin DOMAIN logs[Here]
  BY LogGrows
<1>2. e0.kind = kind /\ e0.ok = well /\ e0.from = item.from
  BY DEF NewEntry
<1> HIDE DEF n0, e0
<1>3. CASE k # Here
  BY <1>1, <1>3 DEF Written
<1>4. CASE k = Here
  <2>1. ASSUME NEW n PROVE n \in Written(k)' <=> n \in Written(k) \/ (n = n0 /\ kind = "write" /\ well /\ item.from = 0)
    <3>1. n \in Written(k)' <=> n \in DOMAIN logs'[k] /\ logs'[k][n].kind = "write" /\ logs'[k][n].ok /\ logs'[k][n].from = 0
      BY DEF Written
    <3>2. n \in Written(k) <=> n \in DOMAIN logs[k] /\ logs[k][n].kind = "write" /\ logs[k][n].ok /\ logs[k][n].from = 0
      BY DEF Written
    <3>3. CASE n = n0
      BY <1>1, <1>2, <1>4, <3>1, <3>2, <3>3
    <3>4. CASE n # n0
      <4>1. n \in DOMAIN logs'[k] <=> n \in DOMAIN logs[k]
        BY <1>1, <1>4, <3>4
      <4>2. n \in DOMAIN logs[k] => logs'[k][n] = logs[k][n]
        BY <1>1, <1>4
      <4>3. QED
        BY <3>1, <3>2, <3>4, <4>1, <4>2
    <3>5. QED
      BY <3>3, <3>4
  <2> DEFINE New == {n \in {n0} : k = Here /\ kind = "write" /\ well /\ item.from = 0}
  <2>2. \A n : n \in New <=> n = n0 /\ kind = "write" /\ well /\ item.from = 0
    BY <1>4
  <2> HIDE DEF New
  <2>3. Written(k)' = Written(k) \cup New
    BY <2>1, <2>2
  <2>4. QED
    BY <2>3 DEF New, n0
<1>5. QED
  BY <1>3, <1>4 DEF n0

LEMMA DoneGrows ==
    ASSUME TypeOK, NEW kind \in {"write", "restore"}, NEW well \in BOOLEAN, LogEntry(kind, well), NEW k \in 1..Here
    PROVE  Done(k)' = Done(k) \cup {i \in {item.from} : k = item.src /\ kind = "restore" /\ well}
<1> DEFINE n0 == Len(logs[Here]) + 1
           e0 == NewEntry(kind, well)
<1>1. /\ \A j \in 1..Here : j # Here => logs'[j] = logs[j]
      /\ Here' = Here /\ Here \in Nat /\ Here >= 1
      /\ DOMAIN logs'[Here] = DOMAIN logs[Here] \cup {n0} /\ logs'[Here][n0] = e0
      /\ \A n \in DOMAIN logs[Here] : logs'[Here][n] = logs[Here][n]
      /\ n0 \notin DOMAIN logs[Here]
  BY LogGrows
<1>2. e0.kind = kind /\ e0.ok = well /\ e0.from = item.from /\ e0.src = item.src
  BY DEF NewEntry
<1>3. Here \in k..Here /\ k..Here \subseteq 1..Here
  BY <1>1
<1> HIDE DEF n0, e0
<1>4. \A i : i \in Done(k)' <=> \E j \in k..Here : \E n \in DOMAIN logs'[j] : Marks(j, n, k, i)'
  BY <1>1 DEF Done, Restored, Range, Marks
<1>5. \A i : \A j \in k..Here : \A n \in DOMAIN logs[j] : n \in DOMAIN logs'[j] /\ (Marks(j, n, k, i)' <=> Marks(j, n, k, i))
  BY <1>1, <1>3 DEF Marks
<1>6. \A i : \A j \in k..Here : \A n \in DOMAIN logs'[j] : n \in DOMAIN logs[j] \/ (j = Here /\ n = n0)
  BY <1>1, <1>3
<1>7. \A i, j, n : j = Here /\ n = n0 =>
        (Marks(j, n, k, i)' <=> kind = "restore" /\ well /\ item.src = k /\ item.from = i)
  BY <1>1, <1>2 DEF Marks
<1>8. \A i : i \in Done(k)' <=> i \in Done(k) \/ (kind = "restore" /\ well /\ item.src = k /\ item.from = i)
  <2>1. ASSUME NEW i PROVE i \in Done(k)' <=> i \in Done(k) \/ (kind = "restore" /\ well /\ item.src = k /\ item.from = i)
    <3>1. i \in Done(k) <=> \E j \in k..Here : \E n \in DOMAIN logs[j] : Marks(j, n, k, i)
      BY DoneIs
    <3>2. Here \in k..Here /\ n0 \in DOMAIN logs'[Here]
      BY <1>1, <1>3
    <3>3. i \in Done(k)' => i \in Done(k) \/ (kind = "restore" /\ well /\ item.src = k /\ item.from = i)
      BY <1>4, <1>5, <1>6, <1>7, <3>1
    <3>4. i \in Done(k) => i \in Done(k)'
      BY <1>4, <1>5, <3>1
    <3>5. kind = "restore" /\ well /\ item.src = k /\ item.from = i => i \in Done(k)'
      BY <1>4, <1>7, <3>2
    <3>6. QED
      BY <3>3, <3>4, <3>5
  <2>2. QED
    BY <2>1
<1>9. QED
  BY <1>8

LEMMA OwedGrows ==
    ASSUME TypeOK, MarkersInv, NEW kind \in {"write", "restore"}, NEW well \in BOOLEAN, LogEntry(kind, well), NEW k \in 1..Here
    PROVE  /\ kind = "write" => Owed(k)' = Owed(k) \cup {n \in {Len(logs[Here]) + 1} : k = Here /\ well /\ item.from = 0}
           /\ kind = "restore" => Owed(k)' = Owed(k) \ {i \in {item.from} : k = item.src /\ well}
<1> DEFINE n0 == Len(logs[Here]) + 1
<1>1. Written(k)' = Written(k) \cup {n \in {n0} : k = Here /\ kind = "write" /\ well /\ item.from = 0}
  BY WrittenGrows
<1>2. Done(k)' = Done(k) \cup {i \in {item.from} : k = item.src /\ kind = "restore" /\ well}
  BY DoneGrows
<1>3. k = Here => n0 \notin Done(k)
  BY DoneInLog, LogGrows
<1>4. Owed(k) = Written(k) \ Done(k)
  BY OwedIs
<1>5. Owed(k)' = Written(k)' \ Done(k)'
  BY DEF Owed, Restorable, Written
<1> HIDE DEF n0
<1>6. QED
  BY <1>1, <1>2, <1>3, <1>4, <1>5 DEF n0

(* A new log changes nothing of what the others are owed, and is owed nothing. *)
LEMMA OwedByNew ==
    ASSUME TypeOK, MarkersInv, logs' = Append(logs, <<>>)
    PROVE  /\ \A k \in 1..Here : Owed(k)' = Owed(k)
           /\ \A k : k = Here + 1 => Owed(k)' = {}
<1>1. /\ Here' = Here + 1 /\ Here \in Nat /\ Here >= 1 /\ logs'[Here + 1] = <<>>
      /\ \A k \in 1..Here : logs'[k] = logs[k]
  BY LogStarts
<1>2. ASSUME NEW k \in 1..Here PROVE Owed(k)' = Owed(k)
  <2>1. k..Here \subseteq 1..Here /\ k..Here' = (k..Here) \cup {Here + 1}
    BY <1>1
  <2>2. ASSUME NEW i PROVE i \in Done(k)' <=> i \in Done(k)
    <3>1. i \in Done(k)' <=> \E j \in k..Here' : \E n \in DOMAIN logs'[j] : Marks(j, n, k, i)'
      <4>1. i \in Done(k)' <=> \E j \in k..Here' : i \in Restored(logs'[j], k)
        BY DEF Done
      <4>2. \A j : i \in Restored(logs'[j], k) <=> \E n \in DOMAIN logs'[j] : Marks(j, n, k, i)'
        BY DEF Restored, Range, Marks
      <4>3. QED
        BY <4>1, <4>2
    <3>2. \A n : n \notin DOMAIN logs'[Here + 1]
      <4>1. DOMAIN <<>> = {}
        OBVIOUS
      <4>2. QED
        BY <1>1, <4>1
    <3>3. \A j \in k..Here : logs'[j] = logs[j] /\ \A n : Marks(j, n, k, i)' <=> Marks(j, n, k, i)
      BY <1>1, <2>1 DEF Marks
    <3>4. i \in Done(k) <=> \E j \in k..Here : \E n \in DOMAIN logs[j] : Marks(j, n, k, i)
      BY DoneIs
    <3>5. QED
      BY <2>1, <3>1, <3>2, <3>3, <3>4
  <2>3. Written(k)' = Written(k)
    BY <1>1 DEF Written
  <2>4. Owed(k)' = Written(k)' \ Done(k)' /\ Owed(k) = Written(k) \ Done(k)
    BY DEF Owed, Restorable, Written
  <2>5. QED
    BY <2>2, <2>3, <2>4
<1>3. ASSUME NEW k, k = Here + 1 PROVE Owed(k)' = {}
  <2>1. DOMAIN logs'[k] = DOMAIN <<>>
    BY <1>1, <1>3
  <2>2. DOMAIN <<>> = {}
    OBVIOUS
  <2>3. QED
    BY <2>1, <2>2 DEF Owed, Restorable
<1>4. QED
  BY <1>2, <1>3

-----------------------------------------------------------------------------
(* Every step leads back, while restores and the log are in order *)

StartAt(p) == IF Unlogged /\ item.place = p THEN before ELSE value[p]
First(p, d) == d \in Due(p) /\ \A e \in Due(p) : NoLater(d, e)
LeadsBackAt(p) ==
    \/ Due(p) = {} /\ start[p] = StartAt(p)
    \/ \E d \in Due(p) : First(p, d) /\ logs[d[1]][d[2]].before = start[p]

LEMMA LeadsBackIs ==
    LeadsBackToStart <=> \A p \in Places : LeadsBackAt(p)
<1>1. ASSUME NEW p
      PROVE  LeadsBackAt(p) <=>
               IF Due(p) = {} THEN start[p] = IF Unlogged /\ item.place = p THEN before ELSE value[p]
               ELSE \E d \in Due(p) : (\A e \in Due(p) : NoLater(d, e)) /\ logs[d[1]][d[2]].before = start[p]
  BY DEF LeadsBackAt, First, StartAt
<1>2. QED
  BY <1>1 DEF LeadsBackToStart

LEMMA LeadsBackThen ==
    LeadsBackToStart' <=> \A p \in Places : LeadsBackAt(p)'
<1>1. ASSUME NEW p
      PROVE  LeadsBackAt(p)' <=>
               IF Due(p)' = {} THEN start'[p] = IF Unlogged' /\ item'.place = p THEN before' ELSE value'[p]
               ELSE \E d \in Due(p)' : (\A e \in Due(p)' : NoLater(d, e)) /\ logs'[d[1]][d[2]].before = start'[p]
  BY DEF LeadsBackAt, First, StartAt, NoLater
<1>2. QED
  BY <1>1 DEF LeadsBackToStart, NoLater

LEMMA DueIs ==
    ASSUME NEW p
    PROVE  /\ \A d \in Due(p) : d = <<d[1], d[2]>>
           /\ \A k, i : <<k, i>> \in Due(p) <=> k \in 1..Here /\ i \in Outstanding(k) /\ logs[k][i].place = p
<1>1. \A d : d \in Due(p) <=> \E k \in 1..Here : \E i \in Outstanding(k) : logs[k][i].place = p /\ d = <<k, i>>
  BY DEF Due
<1>2. QED
  BY <1>1

(* The same after a step. *)
LEMMA DueThen ==
    ASSUME NEW p
    PROVE  /\ \A d \in Due(p)' : d = <<d[1], d[2]>>
           /\ \A k, i : <<k, i>> \in Due(p)' <=> k \in 1..Here' /\ i \in Outstanding(k)' /\ logs'[k][i].place = p
<1>1. \A d : d \in Due(p)' <=> \E k \in 1..Here' : \E i \in Outstanding(k)' : logs'[k][i].place = p /\ d = <<k, i>>
  BY DEF Due
<1>2. QED
  BY <1>1

(* Where nothing due changes, the entries due stay as they are. *)
LEMMA LeadsBackKept ==
    ASSUME TypeOK, TypeOK', NEW p \in Places, LeadsBackAt(p), start' = start,
           \A k \in 1..Here : k \in 1..Here' /\ Outstanding(k)' = Outstanding(k),
           \A k \in 1..Here' : k \notin 1..Here => Outstanding(k)' = {},
           \A k \in 1..Here : \A i \in Outstanding(k) : logs'[k][i] = logs[k][i],
           StartAt(p)' = StartAt(p)
    PROVE  LeadsBackAt(p)'
<1>1. \A d : d \in Due(p)' <=> \E k \in 1..Here' : \E i \in Outstanding(k)' : logs'[k][i].place = p /\ d = <<k, i>>
  BY DEF Due
<1>2. \A d : d \in Due(p) <=> \E k \in 1..Here : \E i \in Outstanding(k) : logs[k][i].place = p /\ d = <<k, i>>
  BY DEF Due
<1>3. \A d : d \in Due(p)' <=> d \in Due(p)
  BY <1>1, <1>2
<1>4. Due(p)' = Due(p)
  BY <1>3
<1>5. CASE Due(p) = {} /\ start[p] = StartAt(p)
  BY <1>4, <1>5 DEF LeadsBackAt
<1>6. CASE \E d \in Due(p) : First(p, d) /\ logs[d[1]][d[2]].before = start[p]
  <2>1. PICK d \in Due(p) : First(p, d) /\ logs[d[1]][d[2]].before = start[p]
    BY <1>6
  <2>2. d[1] \in 1..Here /\ d[2] \in Outstanding(d[1])
    BY <1>2
  <2>3. logs'[d[1]][d[2]].before = start'[p]
    BY <2>1, <2>2
  <2>4. First(p, d)'
    BY <1>4, <2>1 DEF First, NoLater
  <2>5. QED
    BY <1>4, <2>3, <2>4 DEF LeadsBackAt
<1>7. QED
  BY <1>5, <1>6 DEF LeadsBackAt

(* Outside of an item that took effect, what is due is what is owed. *)
LEMMA OutstandingIs ==
    ASSUME NEW k
    PROVE  /\ ~Back \/ item.src # k => Outstanding(k) = Owed(k)
           /\ Back /\ item.src = k => Outstanding(k) = Owed(k) \ {item.from}
           /\ Outstanding(k) \subseteq Owed(k) /\ Outstanding(k) \subseteq DOMAIN logs[k]
BY DEF Outstanding, Owed, Restorable

LEMMA OutstandingThen ==
    ASSUME NEW k
    PROVE  /\ ~Back' \/ item'.src # k => Outstanding(k)' = Owed(k)'
           /\ Back' /\ item'.src = k => Outstanding(k)' = Owed(k)' \ {item'.from}
BY DEF Outstanding

-----------------------------------------------------------------------------
(* What is still to be put back, as a stack *)

LEMMA PendingIs ==
    \A d : d \in Pending <=>
        \/ \E k \in 1..Here : \E i \in Outstanding(k) : d = Undone(k, i, logs[k][i])
        \/ Unlogged /\ d = Undone(Here, Len(Log) + 1, [place |-> item.place, before |-> before])
<1> DEFINE logged == { {Undone(k, i, logs[k][i]) : i \in Outstanding(k)} : k \in 1..Here }
           top == Undone(Here, Len(Log) + 1, [place |-> item.place, before |-> before])
<1>1. Pending = (UNION logged) \cup {d \in {top} : Unlogged}
  BY DEF Pending
<1>2. \A d : d \in UNION logged <=> \E k \in 1..Here : \E i \in Outstanding(k) : d = Undone(k, i, logs[k][i])
  OBVIOUS
<1> HIDE DEF logged, top
<1>3. \A d : d \in Pending <=> d \in UNION logged \/ (Unlogged /\ d = top)
  BY <1>1
<1>4. QED
  BY <1>2, <1>3 DEF top

LEMMA PendingThen ==
    \A d : d \in Pending' <=>
        \/ \E k \in 1..Here' : \E i \in Outstanding(k)' : d = Undone(k, i, logs'[k][i])
        \/ Unlogged' /\ d = Undone(Here', Len(Log)' + 1, [place |-> item'.place, before |-> before'])
<1> DEFINE logged == { {Undone(k, i, logs'[k][i]) : i \in Outstanding(k)'} : k \in 1..Here' }
           top == Undone(Here', Len(Log)' + 1, [place |-> item'.place, before |-> before'])
<1>1. Pending' = (UNION logged) \cup {d \in {top} : Unlogged'}
  BY DEF Pending, Undone
<1>2. \A d : d \in UNION logged <=> \E k \in 1..Here' : \E i \in Outstanding(k)' : d = Undone(k, i, logs'[k][i])
  OBVIOUS
<1> HIDE DEF logged, top
<1>3. \A d : d \in Pending' <=> d \in UNION logged \/ (Unlogged' /\ d = top)
  BY <1>1
<1>4. QED
  BY <1>2, <1>3 DEF top

(* Where nothing outstanding changes, the stack stays as it is. *)
LEMMA PendingKept ==
    ASSUME \A k \in 1..Here : k \in 1..Here' /\ Outstanding(k)' = Outstanding(k),
           \A k \in 1..Here' : k \notin 1..Here => Outstanding(k)' = {},
           \A k \in 1..Here : \A i \in Outstanding(k) : logs'[k][i] = logs[k][i],
           Unlogged' <=> Unlogged,
           Unlogged => Here' = Here /\ Len(Log)' = Len(Log) /\ item' = item /\ before' = before
    PROVE  Pending' = Pending
<1>1. ASSUME NEW d PROVE d \in Pending' <=> d \in Pending
  <2>1. (\E k \in 1..Here' : \E i \in Outstanding(k)' : d = Undone(k, i, logs'[k][i]))
          <=> \E k \in 1..Here : \E i \in Outstanding(k) : d = Undone(k, i, logs[k][i])
    <3>1. ASSUME NEW k \in 1..Here', NEW i \in Outstanding(k)', d = Undone(k, i, logs'[k][i])
          PROVE  \E k2 \in 1..Here : \E i2 \in Outstanding(k2) : d = Undone(k2, i2, logs[k2][i2])
      <4>1. k \in 1..Here
        BY <3>1
      <4>2. i \in Outstanding(k) /\ logs'[k][i] = logs[k][i]
        BY <4>1
      <4>3. d = Undone(k, i, logs[k][i])
        BY <3>1, <4>2
      <4>4. QED
        BY <4>1, <4>2, <4>3
    <3>2. ASSUME NEW k \in 1..Here, NEW i \in Outstanding(k), d = Undone(k, i, logs[k][i])
          PROVE  \E k2 \in 1..Here' : \E i2 \in Outstanding(k2)' : d = Undone(k2, i2, logs'[k2][i2])
      <4>1. k \in 1..Here' /\ i \in Outstanding(k)' /\ logs'[k][i] = logs[k][i]
        OBVIOUS
      <4>2. d = Undone(k, i, logs'[k][i])
        BY <3>2, <4>1
      <4>3. QED
        BY <4>1, <4>2
    <3>3. QED
      BY <3>1, <3>2
  <2>2. (Unlogged' /\ d = Undone(Here', Len(Log)' + 1, [place |-> item'.place, before |-> before']))
          <=> Unlogged /\ d = Undone(Here, Len(Log) + 1, [place |-> item.place, before |-> before])
    OBVIOUS
  <2>3. QED
    BY <2>1, <2>2, PendingIs, PendingThen
<1>2. QED
  BY <1>1

(* A step of the program is one of the stack, or none. *)
StackStep == [Stack!StackNext]_<<value, Pending>>

LEMMA StackIdle ==
    ASSUME value' = value, Pending' = Pending
    PROVE  StackStep
BY DEF StackStep

-----------------------------------------------------------------------------
(* A step that touches neither the logs nor the device, with no write unmarked before or after it. *)
LEMMA QuietStep ==
    ASSUME TypeOK, TypeOK', LeadsBackToStart, logs' = logs, value' = value, start' = start, ~Unmarked, ~Unmarked'
    PROVE  LeadsBackToStart' /\ StackStep
<1>1. ~Back /\ ~Unlogged /\ ~Back' /\ ~Unlogged'
  BY DEF Back, Unlogged
<1>2. ASSUME NEW k PROVE Outstanding(k)' = Outstanding(k)
  BY <1>1, OwedSame, OutstandingIs, OutstandingThen
<1>3. ASSUME NEW p \in Places PROVE LeadsBackAt(p)'
  <2>1. LeadsBackAt(p)
    BY LeadsBackIs
  <2>2. StartAt(p)' = StartAt(p)
    BY <1>1 DEF StartAt
  <2>3. Here' = Here
    BY DEF Here
  <2>4. \A k \in 1..Here : k \in 1..Here' /\ Outstanding(k)' = Outstanding(k)
    BY <1>2, <2>3
  <2>5. QED
    BY <1>2, <2>1, <2>2, <2>3, <2>4, LeadsBackKept
<1>4. Pending' = Pending
  BY <1>1, <1>2, PendingKept DEF Here
<1>5. QED
  BY <1>3, <1>4, LeadsBackThen, StackIdle

LEMMA OwedBySource ==
    ASSUME NEW k, item'.src = k
    PROVE  Owed(item.src)' = Owed(k)'
BY DEF Owed, Restorable, Done, Restored

LEMMA UnmarkedIs ==
    /\ Unmarked => pc \in {"verify", "log", "mark"} /\ ok
    /\ pc \in {"prompt", "next", "write"} => ~Unmarked
BY DEF Unmarked

LEMMA UnmarkedThen ==
    /\ pc' \in {"prompt", "next", "write"} => ~Unmarked'
    /\ ok' = FALSE => ~Unmarked'
BY DEF Unmarked

LEMMA StartWriteLeads ==
    ASSUME BaseInv, BaseInv', RestoreInv, NEW p \in Places, NEW v \in Values, StartWrite(p, v)
    PROVE  RestoreInv' /\ StackStep
<1>1. /\ item' = [NoItem EXCEPT !.place = p, !.want = v] /\ before' = value[p] /\ pc' = "write" /\ pc = "prompt"
      /\ value' = value /\ logs' = logs /\ plan' = plan /\ ok' = ok /\ applied' = applied /\ start' = start
  BY DEF StartWrite
<1>2. item'.from = 0 /\ item'.place = p
  BY <1>1, NoItemIs DEF Items
<1>3. PlanInv'
  BY <1>1, <1>2 DEF PlanInv, Restoring
<1>4. LeadsBackToStart' /\ StackStep
  BY <1>1, QuietStep, UnmarkedIs, UnmarkedThen DEF BaseInv, RestoreInv
<1>5. QED
  BY <1>3, <1>4 DEF RestoreInv

(* No plan is left at the prompt. *)
LEMMA PlanAtPrompt ==
    ASSUME Prompt
    PROVE  PlanInv'
BY NoItemIs DEF Prompt, PlanInv, Restoring

LEMMA DeclineLeads ==
    ASSUME BaseInv, BaseInv', RestoreInv, Decline
    PROVE  RestoreInv' /\ StackStep
<1>1. Prompt /\ pc = "write" /\ pc' = "prompt" /\ value' = value /\ logs' = logs /\ start' = start
  BY DEF Decline, Prompt
<1>2. PlanInv'
  BY <1>1, PlanAtPrompt
<1>3. LeadsBackToStart' /\ StackStep
  BY <1>1, QuietStep, UnmarkedIs, UnmarkedThen DEF BaseInv, RestoreInv
<1>4. QED
  BY <1>2, <1>3 DEF RestoreInv

(* A restore plans all that its session is still owed, after the sessions that came later. *)
LEMMA RestoreLeads ==
    ASSUME InOrderOnly, BaseInv, BaseInv', RestoreInv, NEW k \in 1..MaxSessions, Restore(k)
    PROVE  RestoreInv' /\ StackStep
<1>1. /\ pc = "prompt" /\ k \in 1..Here /\ plan' = Plan(k) /\ item' = [NoItem EXCEPT !.src = k] /\ pc' = "next"
      /\ value' = value /\ logs' = logs /\ start' = start
      /\ \A j \in k + 1 .. Here : Owed(j) = {}
      /\ KnownRestored(k) = Done(k)
  BY DEF Restore, InOrderOnly
<1>2. k \in Nat
  BY <1>1, TypeFacts DEF BaseInv
<1>3. item'.from = 0 /\ item'.src = k
  BY <1>1, <1>2, SourceItem
<1>4. Plan(k) = Owed(k)
  BY <1>1 DEF Plan, Owed
<1>5. Here' = Here /\ \A j : Owed(j)' = Owed(j)
  BY <1>1, OwedSame DEF Here
<1>6. plan' = Owed(item.src)'
  <2>1. Owed(item.src)' = Owed(k)'
    BY <1>3, OwedBySource
  <2>2. QED
    BY <1>1, <1>4, <1>5, <2>1
<1>7. PlanInv'
  <2>1. \A j \in item'.src + 1 .. Here' : Owed(j)' = {}
    BY <1>1, <1>3, <1>5
  <2>2. ~Restoring'
    BY <1>3 DEF Restoring
  <2>3. QED
    BY <1>1, <1>6, <2>1, <2>2 DEF PlanInv
<1>8. LeadsBackToStart' /\ StackStep
  BY <1>1, QuietStep, UnmarkedIs, UnmarkedThen DEF BaseInv, RestoreInv
<1>9. QED
  BY <1>7, <1>8 DEF RestoreInv

LEMMA NextItemLeads ==
    ASSUME InOrderOnly, BaseInv, BaseInv', RestoreInv, NextItem
    PROVE  RestoreInv' /\ StackStep
<1>1. PICK k, i : k = item.src /\ i = Newest(plan)
  OBVIOUS
<1>2. /\ pc = "next" /\ k \in 1..Here /\ i \in plan /\ i \in Nat \ {0} /\ \A j \in plan : j <= i
      /\ item'.from = i /\ item'.src = k /\ ok' = FALSE /\ value' = value /\ logs' = logs /\ start' = start /\ Restoring'
      /\ \/ pc' = "write" /\ plan' = plan \ {i}
         \/ pc' = "mark" /\ plan' = {}
         \/ pc' = "mark" /\ plan' = plan \ {i} /\ RestoreFails(plan \ {i})
  BY <1>1, NextItemIs
<1>3. plan \subseteq Nat
  BY TypeFacts DEF BaseInv
<1>4. plan = Owed(k) /\ \A j \in k + 1 .. Here : Owed(j) = {}
  BY <1>1, <1>2 DEF RestoreInv, PlanInv
<1>5. RestoreFails(plan \ {i}) => plan \ {i} = {}
  BY DEF RestoreFails, InOrderOnly
<1>6. Here' = Here /\ (\A j : Owed(j)' = Owed(j)) /\ Owed(item.src)' = Owed(k)
  BY <1>2, OwedSame, OwedBySource DEF Here
<1>7. \A j \in item'.src + 1 .. Here' : Owed(j)' = {}
  BY <1>2, <1>4, <1>6
<1>8. CASE pc' = "write" /\ plan' = plan \ {i}
  <2>1. Owed(item.src)' = plan' \cup {i}
    BY <1>2, <1>4, <1>6, <1>8
  <2>2. \A j \in plan' : j < i
    BY <1>2, <1>3, <1>8
  <2>3. ItemIsNewest'
    BY <1>2, <2>1, <2>2 DEF ItemIsNewest
  <2>4. PlanInv'
    BY <1>2, <1>7, <1>8, <2>3 DEF PlanInv
  <2>5. QED
    BY <1>2, <2>4, <1>8, QuietStep, UnmarkedIs, UnmarkedThen DEF BaseInv, RestoreInv
<1>9. CASE pc' = "mark" /\ plan' = {}
  <2>1. PlanInv'
    BY <1>2, <1>7, <1>9 DEF PlanInv
  <2>2. QED
    BY <1>2, <2>1, QuietStep, UnmarkedIs, UnmarkedThen DEF BaseInv, RestoreInv
<1>10. QED
  BY <1>2, <1>5, <1>8, <1>9

(* An item is put back: it is the last that is due, and if it was the only one at its place, the place is as it was. *)
LEMMA ItemPutBack ==
    ASSUME TypeOK, ItemInv, LeadsBackToStart, ItemIsNewest, \A j \in item.src + 1 .. Here : Owed(j) = {}, Restoring,
           ~Unmarked, Back', logs' = logs, item' = item, start' = start, value' = [value EXCEPT ![item.place] = item.want]
    PROVE  LeadsBackToStart' /\ StackStep
<1>1. PICK k, f, d0 : k = item.src /\ f = item.from /\ d0 = <<k, f>>
  OBVIOUS
<1>2. /\ k \in 1..Here /\ f \in DOMAIN logs[k] /\ item.place = logs[k][f].place /\ item.want = logs[k][f].before
      /\ plan \subseteq Nat /\ f \in Nat /\ k \in Nat /\ Here \in Nat
  BY <1>1, TypeFacts DEF ItemInv
<1>3. Owed(k) = plan \cup {f} /\ \A i \in plan : i < f
  BY <1>1 DEF ItemIsNewest
<1>4. ~Back /\ ~Unlogged /\ ~Unlogged' /\ Here' = Here
  BY DEF Back, Unlogged, Here, Restoring
<1>5. \A j : Outstanding(j) = Owed(j)
  BY <1>4, OutstandingIs
<1>6. \A j : Outstanding(j)' = Owed(j) \ {i \in {f} : j = k}
  <2>1. ASSUME NEW j PROVE Outstanding(j)' = Owed(j) \ {i \in {f} : j = k}
    <3>1. Owed(j)' = Owed(j) /\ Owed(item.src)' = Owed(k)'
      BY <1>1, OwedSame, OwedBySource
    <3>2. item'.src = k /\ item'.from = f
      BY <1>1
    <3>3. j = k => Outstanding(j)' = Owed(j)' \ {f}
      BY <3>2, OutstandingThen
    <3>4. j # k => Outstanding(j)' = Owed(j)'
      BY <3>2, OutstandingThen
    <3>5. QED
      BY <3>1, <3>3, <3>4
  <2>2. QED
    BY <2>1
<1>7. \A p : \A d : d \in Due(p) <=> \E j \in 1..Here : \E i \in Owed(j) : logs[j][i].place = p /\ d = <<j, i>>
  BY <1>5 DEF Due
<1>8. \A p : \A d : d \in Due(p)' <=> \E j \in 1..Here : \E i \in Owed(j) \ {f2 \in {f} : j = k} : logs[j][i].place = p /\ d = <<j, i>>
  <2>1. \A p : \A d : d \in Due(p)' <=> \E j \in 1..Here' : \E i \in Outstanding(j)' : logs'[j][i].place = p /\ d = <<j, i>>
    BY DEF Due
  <2>2. QED
    BY <1>4, <1>6, <2>1
<1>9. \A p : \A d : d \in Due(p)' <=> d \in Due(p) /\ d # d0
  BY <1>1, <1>7, <1>8
<1>10. d0 \in Due(item.place)
  BY <1>1, <1>2, <1>3, <1>7
<1>11. \A p : p # item.place => d0 \notin Due(p)
  BY <1>1, <1>2, <1>7
<1>12. \A p : \A e \in Due(p) : e[1] \in Nat /\ e[2] \in Nat /\ (e[1] < k \/ (e[1] = k /\ e[2] <= f)) /\ e = <<e[1], e[2]>>
  <2>1. ASSUME NEW p, NEW e \in Due(p)
        PROVE  e[1] \in Nat /\ e[2] \in Nat /\ (e[1] < k \/ (e[1] = k /\ e[2] <= f)) /\ e = <<e[1], e[2]>>
    <3>1. PICK j \in 1..Here : \E i \in Owed(j) : logs[j][i].place = p /\ e = <<j, i>>
      BY <1>7
    <3>2. PICK i \in Owed(j) : logs[j][i].place = p /\ e = <<j, i>>
      BY <3>1
    <3>3. j <= k
      <4>1. j \notin k + 1 .. Here
        BY <1>1, <3>2
      <4>2. QED
        BY <1>2, <4>1
    <3>4. i \in Nat
      <4>1. i \in DOMAIN logs[j] /\ DOMAIN logs[j] \subseteq Nat \ {0}
        BY <3>2, OwedIs, TypeFacts
      <4>2. QED
        BY <4>1
    <3>5. j = k => i <= f
      BY <1>2, <1>3, <3>2, <3>4
    <3>6. QED
      BY <1>2, <3>2, <3>3, <3>4, <3>5
  <2>2. QED
    BY <2>1
<1>13. ASSUME NEW p \in Places PROVE LeadsBackAt(p)'
  <2>1. LeadsBackAt(p)
    BY LeadsBackIs
  <2>2. StartAt(p) = value[p] /\ StartAt(p)' = value'[p]
    BY <1>4 DEF StartAt
  <2>3. p # item.place => value'[p] = value[p]
    BY TypeFacts
  <2>4. p = item.place => value'[p] = item.want
    BY TypeFacts
  <2>5. CASE Due(p) = {} /\ start[p] = StartAt(p)
    <3>1. p # item.place /\ Due(p)' = {}
      BY <1>9, <1>10, <2>5
    <3>2. QED
      BY <2>2, <2>3, <2>5, <3>1 DEF LeadsBackAt
  <2>6. CASE \E d \in Due(p) : First(p, d) /\ logs[d[1]][d[2]].before = start[p]
    <3>1. PICK d \in Due(p) : First(p, d) /\ logs[d[1]][d[2]].before = start[p]
      BY <2>6
    <3>2. CASE d # d0
      <4>1. d \in Due(p)' /\ \A e \in Due(p)' : NoLater(d, e)
        BY <1>9, <3>1, <3>2 DEF First
      <4>2. First(p, d)'
        BY <4>1 DEF First, NoLater
      <4>3. QED
        BY <3>1, <4>1, <4>2 DEF LeadsBackAt
    <3>3. CASE d = d0
      <4>1. p = item.place
        BY <1>11, <3>3
      <4>2. \A e \in Due(p) : e = d0
        <5>1. ASSUME NEW e \in Due(p) PROVE e = d0
          <6>1. d[1] < e[1] \/ (d[1] = e[1] /\ d[2] <= e[2])
            BY <3>1 DEF First, NoLater
          <6>2. d[1] = k /\ d[2] = f
            BY <1>1, <3>3
          <6>3. e[1] \in Nat /\ e[2] \in Nat /\ (e[1] < k \/ (e[1] = k /\ e[2] <= f)) /\ e = <<e[1], e[2]>>
            BY <1>12
          <6>4. e[1] = k /\ e[2] = f
            BY <1>2, <6>1, <6>2, <6>3
          <6>5. QED
            BY <1>1, <6>3, <6>4
        <5>2. QED
          BY <5>1
      <4>3. Due(p)' = {}
        BY <1>9, <4>2
      <4>4. start[p] = item.want
        BY <1>1, <1>2, <3>1, <3>3
      <4>5. start'[p] = StartAt(p)'
        BY <2>2, <2>4, <4>1, <4>4
      <4>6. QED
        BY <4>3, <4>5 DEF LeadsBackAt
    <3>4. QED
      BY <3>2, <3>3
  <2>7. QED
    BY <2>1, <2>5, <2>6 DEF LeadsBackAt
<1>14. Stack!PutBack
  <2>1. PICK top : top = Undone(k, f, logs[k][f])
    OBVIOUS
  <2>2. top.at = d0 /\ top.place = item.place /\ top.before = item.want
    BY <1>1, <1>2, <2>1 DEF Undone
  <2>3. \A d : d \in Pending <=> \E j \in 1..Here : \E i \in Owed(j) : d = Undone(j, i, logs[j][i])
    BY <1>4, <1>5, PendingIs
  <2>4. \A d : d \in Pending' <=>
          \E j \in 1..Here : \E i \in Owed(j) \ {f2 \in {f} : j = k} : d = Undone(j, i, logs[j][i])
    <3>1. \A d : d \in Pending' <=> \E j \in 1..Here' : \E i \in Outstanding(j)' : d = Undone(j, i, logs'[j][i])
      BY <1>4, PendingThen
    <3>2. QED
      BY <1>4, <1>6, <3>1
  <2>5. top \in Pending
    BY <1>2, <1>3, <2>1, <2>3
  <2>6. ASSUME NEW d \in Pending, d # top
        PROVE  d \in Pending' /\ Stack!Later(top.at, d.at)
    <3>1. PICK j \in 1..Here : \E i \in Owed(j) : d = Undone(j, i, logs[j][i])
      BY <2>3
    <3>2. PICK i \in Owed(j) : d = Undone(j, i, logs[j][i])
      BY <3>1
    <3>3. ~(j = k /\ i = f)
      BY <2>1, <2>6, <3>2
    <3>4. d \in Pending'
      BY <2>4, <3>2, <3>3
    <3>5. d.at = <<j, i>> /\ d.at[1] = j /\ d.at[2] = i /\ d0[1] = k /\ d0[2] = f
      BY <1>1, <3>2 DEF Undone
    <3>6. <<j, i>> \in Due(logs[j][i].place)
      BY <1>7
    <3>7. j \in Nat /\ i \in Nat /\ (j < k \/ (j = k /\ i <= f))
      BY <1>12, <3>6
    <3>8. j < k \/ (j = k /\ i < f)
      BY <1>2, <3>3, <3>7
    <3>9. QED
      BY <2>2, <3>4, <3>5, <3>8 DEF Stack!Later
  <2>7. ASSUME NEW d \in Pending' PROVE d \in Pending /\ d # top
    <3>1. PICK j \in 1..Here : \E i \in Owed(j) \ {f2 \in {f} : j = k} : d = Undone(j, i, logs[j][i])
      BY <2>4
    <3>2. PICK i \in Owed(j) \ {f2 \in {f} : j = k} : d = Undone(j, i, logs[j][i])
      BY <3>1
    <3>3. d.at = <<j, i>> /\ <<j, i>> # d0
      BY <1>1, <3>2 DEF Undone
    <3>4. QED
      BY <2>2, <2>3, <3>2, <3>3
  <2>8. Pending' = Pending \ {top}
    BY <2>6, <2>7
  <2>9. QED
    BY <2>2, <2>5, <2>6, <2>8 DEF Stack!PutBack, Stack!OnTop
<1>15. QED
  BY <1>13, <1>14, LeadsBackThen DEF StackStep, Stack!StackNext

(* A write that takes effect comes on top, with the value before it. *)
LEMMA WriteOnTop ==
    ASSUME TypeOK, logs' = logs, item' = item, ~Unlogged, Unlogged', \A k : Outstanding(k)' = Outstanding(k),
           before' = value[item.place],
           value' = value \/ value' = [value EXCEPT ![item.place] = item.want]
    PROVE  StackStep
<1>1. PICK h, n0, top : h = Here /\ n0 = Len(Log) + 1 /\ top = Undone(h, n0, [place |-> item.place, before |-> before'])
  OBVIOUS
<1>2. top.at[1] = h /\ top.at[2] = n0 /\ top.place = item.place /\ top.before = value[item.place]
  BY <1>1 DEF Undone
<1>3. Here' = Here /\ Len(Log)' = Len(Log) /\ Here \in Nat /\ Here >= 1
  BY TypeFacts DEF Here, Log
<1>4. \A d : d \in Pending' <=> d \in Pending \/ d = top
  BY <1>1, <1>3, PendingIs, PendingThen
<1>5. Pending' = Pending \cup {top}
  BY <1>4
<1>6. ASSUME NEW d \in Pending PROVE Stack!Later(top.at, d.at)
  <2>1. PICK k \in 1..Here : \E i \in Outstanding(k) : d = Undone(k, i, logs[k][i])
    BY PendingIs
  <2>2. PICK i \in Outstanding(k) : d = Undone(k, i, logs[k][i])
    BY <2>1
  <2>3. d.at[1] = k /\ d.at[2] = i
    BY <2>2 DEF Undone
  <2>4. i \in DOMAIN logs[k] /\ logs[k] \in Seq(Entries)
    BY OutstandingIs, TypeFacts
  <2>5. k = h => i < n0
    BY <1>1, <2>4 DEF Log
  <2>6. k < h \/ k = h
    BY <1>1, <1>3
  <2>7. QED
    BY <1>2, <2>3, <2>5, <2>6 DEF Stack!Later
<1>7. \E p \in Places, v \in Values : Stack!Write(p, v)
  <2>1. PICK v \in Values : value' = [value EXCEPT ![item.place] = v]
    BY TypeFacts
  <2>2. item.place \in Places
    BY TypeFacts
  <2>3. Stack!Write(item.place, v)
    BY <1>2, <1>5, <1>6, <2>1 DEF Stack!Write, Stack!OnTop
  <2>4. QED
    BY <2>2, <2>3
<1>8. QED
  BY <1>7 DEF StackStep, Stack!StackNext

(* The requests of an item, under the faults that restores and the log put up with. *)
LEMMA WriteItemPlan ==
    ASSUME InOrderOnly, BaseInv, BaseInv', RestoreInv, WriteItem
    PROVE  /\ PlanInv'
           /\ Restoring => /\ ItemIsNewest /\ \A j \in item.src + 1 .. Here : Owed(j) = {}
                           /\ value' = [value EXCEPT ![item.place] = item.want] \/ (value' = value /\ ~Back')
           /\ ~Restoring => /\ before = value[item.place]
                            /\ value' = value \/ (ok' /\ value' = [value EXCEPT ![item.place] = item.want])
<1>1. /\ pc = "write" /\ pc' \in {"verify", "log"} /\ (pc' = "verify" => item.place \notin Unchecked)
      /\ logs' = logs /\ item' = item /\ before' = before /\ start' = start /\ applied' = applied
      /\ value' \in [Places -> Values] /\ ok' \in BOOLEAN /\ plan' \subseteq plan /\ Restoring' = Restoring
      /\ \/ value' = [value EXCEPT ![item.place] = item.want] /\ (ok' \/ (~Restoring /\ "lost-reply" \in Faults))
         \/ value' = value /\ (ok' /\ Restoring => RestoreFails(plan))
      /\ Restoring =>
           /\ ok' => plan' = plan /\ pc' = IF item.place \in Unchecked THEN "log" ELSE "verify"
           /\ ~ok' => plan' = {} \/ (plan' = plan /\ RestoreFails(plan))
  BY WriteItemIs DEF BaseInv
<1>2. "lost-reply" \notin Faults
  BY DEF InOrderOnly
<1>3. RestoreFails(plan) => plan = {} /\ Unchecked = {}
  BY DEF RestoreFails, InOrderOnly
<1>4. ~Restoring => before = value[item.place]
  BY <1>1 DEF RestoreInv, PlanInv
<1>5. Here' = Here /\ \A j : Owed(j)' = Owed(j)
  BY <1>1, OwedSame DEF Here
<1>6. CASE ~Restoring
  <2>1. PlanInv'
    BY <1>1, <1>6 DEF PlanInv
  <2>2. QED
    BY <1>1, <1>2, <1>4, <1>6, <2>1
<1>7. CASE Restoring
  <2>1. ItemIsNewest /\ \A j \in item.src + 1 .. Here : Owed(j) = {}
    BY <1>1, <1>7 DEF RestoreInv, PlanInv
  <2>2. \A j \in item'.src + 1 .. Here' : Owed(j)' = {}
    BY <1>1, <1>5, <2>1
  <2>3. plan' = plan => ItemIsNewest'
    <3>1. PICK k : k = item.src
      OBVIOUS
    <3>2. Owed(item.src)' = Owed(k)
      BY <1>1, <1>5, <3>1, OwedBySource
    <3>3. Owed(k) = plan \cup {item.from} /\ \A i \in plan : i < item.from
      BY <2>1, <3>1 DEF ItemIsNewest
    <3>4. QED
      BY <1>1, <3>2, <3>3 DEF ItemIsNewest
  <2>4. item.place \in Places
    BY TypeFacts DEF BaseInv
  <2>5. value' = [value EXCEPT ![item.place] = item.want] => value'[item'.place] = item'.want
    BY <1>1, <2>4, TypeFacts DEF BaseInv
  <2>6. CASE value' = [value EXCEPT ![item.place] = item.want] /\ ok'
    <3>1. plan' = plan /\ value'[item'.place] = item'.want /\ (pc' = "log" => item'.place \in Unchecked)
      BY <1>1, <1>7, <2>5, <2>6
    <3>2. PlanInv'
      BY <1>1, <1>7, <2>2, <2>3, <2>6, <3>1 DEF PlanInv
    <3>3. QED
      BY <1>7, <2>1, <2>6, <3>2
  <2>7. CASE value' = value /\ (ok' => RestoreFails(plan))
    <3>1. plan' = {} /\ (ok' => plan' = plan /\ pc' = "verify")
      BY <1>1, <1>3, <1>7, <2>7
    <3>2. PlanInv'
      BY <1>1, <1>7, <2>2, <2>3, <3>1 DEF PlanInv
    <3>3. value'[item.place] = item.want => value' = [value EXCEPT ![item.place] = item.want]
      BY <2>4, <2>7, TypeFacts DEF BaseInv
    <3>4. Back' => value'[item.place] = item.want
      BY <1>1 DEF Back
    <3>5. QED
      BY <1>7, <2>1, <2>7, <3>2, <3>3, <3>4
  <2>8. QED
    BY <1>1, <1>7, <2>6, <2>7
<1>8. QED
  BY <1>6, <1>7

LEMMA WriteItemLeads ==
    ASSUME InOrderOnly, BaseInv, BaseInv', RestoreInv, WriteItem
    PROVE  RestoreInv' /\ StackStep
<1>1. /\ pc = "write" /\ pc' \in {"verify", "log"}
      /\ logs' = logs /\ item' = item /\ before' = before /\ start' = start /\ Restoring' = Restoring
      /\ value' \in [Places -> Values]
  BY WriteItemIs DEF BaseInv
<1>2. ~Unmarked /\ ~Back /\ ~Unlogged /\ Here' = Here
  BY <1>1, UnmarkedIs DEF Back, Unlogged, Here
<1>3. PlanInv'
  BY WriteItemPlan
<1>4. CASE Back'
  <2>1. Restoring
    BY <1>1, <1>4 DEF Back
  <2>2. /\ ItemIsNewest /\ \A j \in item.src + 1 .. Here : Owed(j) = {}
        /\ value' = [value EXCEPT ![item.place] = item.want]
    BY <1>4, <2>1, WriteItemPlan
  <2>3. LeadsBackToStart' /\ StackStep
    BY <1>1, <1>2, <1>4, <2>1, <2>2, ItemPutBack DEF BaseInv, RestoreInv
  <2>4. QED
    BY <1>3, <2>3 DEF RestoreInv
<1>5. CASE ~Back'
  <2>1. \A k : Outstanding(k)' = Outstanding(k)
    BY <1>1, <1>2, <1>5, OwedSame, OutstandingIs, OutstandingThen
  <2>2. Restoring => ~Unlogged' /\ value' = value
    <3>1. SUFFICES ASSUME Restoring PROVE ~Unlogged' /\ value' = value
      OBVIOUS
    <3>2. ~Unlogged'
      BY <1>1, <3>1 DEF Unlogged
    <3>3. CASE value' = [value EXCEPT ![item.place] = item.want]
      <4>1. value'[item'.place] = item'.want
        BY <1>1, <3>3, TypeFacts DEF BaseInv
      <4>2. ~ok'
        BY <1>1, <1>5, <3>1, <4>1 DEF Back, Unmarked
      <4>3. QED
        BY <3>1, <3>2, <4>2, WriteItemIs DEF BaseInv
    <3>4. QED
      BY <3>1, <3>2, <3>3, WriteItemPlan
  <2>3. ~Restoring => /\ before' = value[item.place] /\ (Unlogged' <=> ok')
                      /\ value' = value \/ (ok' /\ value' = [value EXCEPT ![item.place] = item.want])
    BY <1>1, WriteItemPlan DEF Unlogged, Unmarked
  <2>4. ASSUME NEW p \in Places PROVE StartAt(p)' = StartAt(p)
    <3>1. StartAt(p) = value[p]
      BY <1>2 DEF StartAt
    <3>2. CASE Restoring
      BY <2>2, <3>1, <3>2 DEF StartAt
    <3>3. CASE ~Restoring
      <4>1. p # item.place => value'[p] = value[p]
        BY <2>3, <3>3, TypeFacts DEF BaseInv
      <4>2. StartAt(p)' = IF ok' /\ item.place = p THEN before' ELSE value'[p]
        BY <1>1, <2>3, <3>3 DEF StartAt
      <4>3. QED
        BY <2>3, <3>1, <3>3, <4>1, <4>2
    <3>4. QED
      BY <3>2, <3>3
  <2>5. ASSUME NEW p \in Places PROVE LeadsBackAt(p)'
    <3>1. LeadsBackAt(p)
      BY LeadsBackIs DEF RestoreInv
    <3>2. TypeOK /\ TypeOK'
      BY DEF BaseInv
    <3>3. \A k \in 1..Here : k \in 1..Here' /\ Outstanding(k)' = Outstanding(k)
      BY <1>2, <2>1
    <3>4. \A k \in 1..Here' : k \notin 1..Here => Outstanding(k)' = {}
      BY <1>2
    <3>5. \A k \in 1..Here : \A i \in Outstanding(k) : logs'[k][i] = logs[k][i]
      BY <1>1
    <3>6. QED
      BY <1>1, <2>4, <3>1, <3>2, <3>3, <3>4, <3>5, LeadsBackKept
  <2>6. LeadsBackToStart'
    BY <2>5, LeadsBackThen
  <2>7. StackStep
    <3>1. CASE ~Unlogged'
      <4>1. value' = value
        BY <2>2, <2>3, <3>1
      <4>2. Pending' = Pending
        BY <1>1, <1>2, <2>1, <3>1, PendingKept
      <4>3. QED
        BY <4>1, <4>2, StackIdle
    <3>2. CASE Unlogged'
      BY <1>1, <1>2, <2>1, <2>2, <2>3, <3>2, WriteOnTop DEF BaseInv
    <3>3. QED
      BY <3>1, <3>2
  <2>8. QED
    BY <1>3, <2>6, <2>7 DEF RestoreInv
<1>6. QED
  BY <1>4, <1>5

LEMMA VerifyItemLeads ==
    ASSUME InOrderOnly, BaseInv, BaseInv', RestoreInv, VerifyItem
    PROVE  RestoreInv' /\ StackStep
<1>1. /\ pc = "verify" /\ pc' = "log" /\ applied' = (value[item.place] = item.want)
      /\ value' = value /\ logs' = logs /\ start' = start /\ plan' = plan /\ item' = item /\ before' = before /\ ok' = ok
  BY DEF VerifyItem, InOrderOnly
<1>2. /\ Here' = Here /\ Restoring' = Restoring /\ Unmarked' = Unmarked
      /\ Back' = Back /\ Unlogged' = Unlogged
  BY <1>1 DEF Here, Restoring, Unmarked, Back, Unlogged
<1>3. \A k : Owed(k)' = Owed(k) /\ Outstanding(k)' = Outstanding(k)
  BY <1>1, <1>2, OwedSame DEF Outstanding
<1>4. PlanInv'
  <2>1. CASE ~Restoring
    BY <1>1, <1>2, <2>1 DEF PlanInv
  <2>2. CASE Restoring
    <3>1. \A j \in item'.src + 1 .. Here' : Owed(j)' = {}
      BY <1>1, <1>2, <1>3, <2>2 DEF RestoreInv, PlanInv
    <3>2. ItemIsNewest => ItemIsNewest'
      <4>1. PICK k : k = item.src
        OBVIOUS
      <4>2. Owed(item.src)' = Owed(k)
        BY <1>1, <1>3, <4>1, OwedBySource
      <4>3. QED
        BY <1>1, <4>1, <4>2 DEF ItemIsNewest
    <3>3. (ok \/ plan # {} => ItemIsNewest) /\ (plan # {} => ok /\ value[item.place] = item.want)
      BY <1>1, <2>2 DEF RestoreInv, PlanInv
    <3>4. item.place \notin Unchecked
      BY <1>1 DEF RestoreInv, PlanInv
    <3>5. QED
      BY <1>1, <1>2, <2>2, <3>1, <3>2, <3>3, <3>4 DEF PlanInv
  <2>3. QED
    BY <2>1, <2>2
<1>5. ASSUME NEW p \in Places PROVE LeadsBackAt(p)'
  <2>1. LeadsBackAt(p) /\ TypeOK /\ TypeOK'
    BY LeadsBackIs DEF RestoreInv, BaseInv
  <2>2. StartAt(p)' = StartAt(p)
    BY <1>1, <1>2 DEF StartAt
  <2>3. \A k \in 1..Here : k \in 1..Here' /\ Outstanding(k)' = Outstanding(k)
    BY <1>2, <1>3
  <2>4. \A k \in 1..Here' : k \notin 1..Here => Outstanding(k)' = {}
    BY <1>2
  <2>5. \A k \in 1..Here : \A i \in Outstanding(k) : logs'[k][i] = logs[k][i]
    BY <1>1
  <2>6. QED
    BY <1>1, <2>1, <2>2, <2>3, <2>4, <2>5, LeadsBackKept
<1>6. LeadsBackToStart'
  BY <1>5, LeadsBackThen
<1>7. StackStep
  <2>1. Pending' = Pending
    BY <1>1, <1>2, <1>3, PendingKept DEF Log, Here
  <2>2. QED
    BY <1>1, <2>1, StackIdle
<1>8. QED
  BY <1>4, <1>6, <1>7 DEF RestoreInv

(* A write that took effect is logged: its entry is the newest, and says what was there before. *)
LEMMA WriteLogged ==
    ASSUME TypeOK, TypeOK', MarkersInv, LeadsBackToStart, LogEntry("write", TRUE), ~Restoring, Unmarked, ~Unmarked',
           value' = value, start' = start
    PROVE  LeadsBackToStart' /\ StackStep
<1>1. PICK h, n0, d0 : h = Here /\ n0 = Len(logs[Here]) + 1 /\ d0 = <<h, n0>>
  OBVIOUS
<1>2. "write" \in {"write", "restore"} /\ TRUE \in BOOLEAN
  OBVIOUS
<1>3. /\ Here' = Here /\ Here \in Nat /\ Here >= 1
      /\ logs'[h][n0] = NewEntry("write", TRUE)
      /\ \A k \in 1..Here : \A n \in DOMAIN logs[k] : n \in DOMAIN logs'[k] /\ logs'[k][n] = logs[k][n]
  BY <1>1, <1>2, LogGrows
<1>4. logs'[h][n0].place = item.place /\ logs'[h][n0].before = before
  BY <1>3 DEF NewEntry
<1>5. ~Back /\ ~Back' /\ ~Unlogged' /\ Unlogged /\ item.from = 0
  BY DEF Back, Unlogged, Restoring
<1>6. \A k \in 1..Here : Outstanding(k) = Owed(k) /\ Outstanding(k)' = Owed(k) \cup {n \in {n0} : k = h}
  <2>1. ASSUME NEW k \in 1..Here
        PROVE  Outstanding(k) = Owed(k) /\ Outstanding(k)' = Owed(k) \cup {n \in {n0} : k = h}
    <3>1. Outstanding(k)' = Owed(k)' /\ Outstanding(k) = Owed(k)
      BY <1>5, OutstandingIs, OutstandingThen
    <3>2. Owed(k)' = Owed(k) \cup {n \in {Len(logs[Here]) + 1} : k = Here /\ TRUE /\ item.from = 0}
      BY <1>2, OwedGrows
    <3>3. Owed(k)' = Owed(k) \cup {n \in {n0} : k = h}
      BY <1>1, <1>5, <3>2
    <3>4. QED
      BY <3>1, <3>3
  <2>2. QED
    BY <2>1
<1>7. \A k \in 1..Here : \A i \in Owed(k) : i \in DOMAIN logs[k]
  BY OwedIs
<1>8. \A p : \A d : d \in Due(p) <=> \E k \in 1..Here : \E i \in Owed(k) : logs[k][i].place = p /\ d = <<k, i>>
  BY <1>6 DEF Due
<1>9. \A p : \A d : d \in Due(p)' <=>
        \E k \in 1..Here : \E i \in Owed(k) \cup {n \in {n0} : k = h} : logs'[k][i].place = p /\ d = <<k, i>>
  <2>1. \A p : \A d : d \in Due(p)' <=> \E k \in 1..Here' : \E i \in Outstanding(k)' : logs'[k][i].place = p /\ d = <<k, i>>
    BY DEF Due
  <2>2. QED
    BY <1>3, <1>6, <2>1
<1>10. \A p : \A d : d \in Due(p)' <=> d \in Due(p) \/ (d = d0 /\ p = item.place)
  <2>1. ASSUME NEW p, NEW d PROVE d \in Due(p)' <=> d \in Due(p) \/ (d = d0 /\ p = item.place)
    <3>1. h \in 1..Here
      BY <1>1, <1>3
    <3>2. d \in Due(p) => d \in Due(p)'
      BY <1>3, <1>7, <1>8, <1>9
    <3>3. d = d0 /\ p = item.place => d \in Due(p)'
      BY <1>1, <1>4, <1>9, <3>1
    <3>4. d \in Due(p)' => d \in Due(p) \/ (d = d0 /\ p = item.place)
      <4>1. ASSUME NEW k \in 1..Here, NEW i \in Owed(k) \cup {n \in {n0} : k = h}, logs'[k][i].place = p, d = <<k, i>>
            PROVE  d \in Due(p) \/ (d = d0 /\ p = item.place)
        <5>1. CASE i \in Owed(k)
          BY <1>3, <1>7, <1>8, <4>1, <5>1
        <5>2. CASE i = n0 /\ k = h
          BY <1>1, <1>4, <4>1, <5>2
        <5>3. QED
          BY <5>1, <5>2
      <4>2. QED
        BY <1>9, <4>1
    <3>5. QED
      BY <3>2, <3>3, <3>4
  <2>2. QED
    BY <2>1
<1>11. \A p : \A e \in Due(p) : NoLater(e, d0) /\ logs'[e[1]][e[2]] = logs[e[1]][e[2]]
  <2>1. ASSUME NEW p, NEW e \in Due(p) PROVE NoLater(e, d0) /\ logs'[e[1]][e[2]] = logs[e[1]][e[2]]
    <3>1. PICK k \in 1..Here : \E i \in Owed(k) : logs[k][i].place = p /\ e = <<k, i>>
      BY <1>8
    <3>2. PICK i \in Owed(k) : e = <<k, i>>
      BY <3>1
    <3>3. i \in DOMAIN logs[k]
      BY <1>7, <3>2
    <3>4. logs[k] \in Seq(Entries)
      BY TypeFacts
    <3>5. k = h => i <= n0
      BY <1>1, <3>3, <3>4
    <3>6. k < h \/ k = h
      BY <1>1, <1>3
    <3>7. NoLater(e, d0)
      BY <1>1, <3>2, <3>5, <3>6 DEF NoLater
    <3>8. QED
      BY <1>3, <3>2, <3>3, <3>7
  <2>2. QED
    BY <2>1
<1>12. NoLater(d0, d0)
  <2>1. n0 \in Nat
    <3>1. logs[Here] \in Seq(Entries)
      BY TypeFacts
    <3>2. QED
      BY <1>1, <3>1
  <2>2. QED
    BY <1>1, <2>1 DEF NoLater
<1>13. ASSUME NEW p \in Places PROVE LeadsBackAt(p)'
  <2>1. LeadsBackAt(p)
    BY LeadsBackIs
  <2>2. StartAt(p) = (IF item.place = p THEN before ELSE value[p]) /\ StartAt(p)' = value'[p]
    BY <1>5 DEF StartAt
  <2>3. CASE Due(p) = {} /\ start[p] = StartAt(p)
    <3>1. CASE p # item.place
      <4>1. Due(p)' = {}
        BY <1>10, <2>3, <3>1
      <4>2. QED
        BY <2>2, <2>3, <3>1, <4>1 DEF LeadsBackAt
    <3>2. CASE p = item.place
      <4>1. \A e : e \in Due(p)' <=> e = d0
        BY <1>10, <2>3, <3>2
      <4>2. First(p, d0)'
        BY <4>1, <1>12 DEF First, NoLater
      <4>3. logs'[d0[1]][d0[2]].before = start'[p]
        BY <1>1, <1>4, <2>2, <2>3, <3>2
      <4>4. QED
        BY <4>1, <4>2, <4>3 DEF LeadsBackAt
    <3>3. QED
      BY <3>1, <3>2
  <2>4. CASE \E d \in Due(p) : First(p, d) /\ logs[d[1]][d[2]].before = start[p]
    <3>1. PICK d \in Due(p) : First(p, d) /\ logs[d[1]][d[2]].before = start[p]
      BY <2>4
    <3>2. d \in Due(p)' /\ logs'[d[1]][d[2]].before = start'[p]
      BY <1>10, <1>11, <3>1
    <3>3. \A e \in Due(p)' : NoLater(d, e)
      BY <1>10, <1>11, <3>1 DEF First
    <3>4. First(p, d)'
      BY <3>2, <3>3 DEF First, NoLater
    <3>5. QED
      BY <3>2, <3>4 DEF LeadsBackAt
  <2>5. QED
    BY <2>1, <2>3, <2>4 DEF LeadsBackAt
<1>14. Pending' = Pending
  <2>1. h \in 1..Here /\ Log = logs[h] /\ n0 = Len(Log) + 1
    BY <1>1, <1>3 DEF Log
  <2>2. Undone(h, n0, logs'[h][n0]) = Undone(Here, Len(Log) + 1, [place |-> item.place, before |-> before])
    BY <1>1, <1>4, <2>1 DEF Undone
  <2>3. \A k \in 1..Here : \A i \in Owed(k) : logs'[k][i] = logs[k][i]
    BY <1>3, <1>7
  <2>4. ASSUME NEW d PROVE d \in Pending' <=> d \in Pending
    <3>1. d \in Pending <=> (\E k \in 1..Here : \E i \in Owed(k) : d = Undone(k, i, logs[k][i]))
                             \/ d = Undone(h, n0, logs'[h][n0])
      BY <1>5, <1>6, <2>2, PendingIs
    <3>2. d \in Pending' <=> \E k \in 1..Here : \E i \in Owed(k) \cup {n \in {n0} : k = h} : d = Undone(k, i, logs'[k][i])
      BY <1>3, <1>5, <1>6, PendingThen
    <3>3. (\E k \in 1..Here : \E i \in Owed(k) : d = Undone(k, i, logs'[k][i]))
            <=> \E k \in 1..Here : \E i \in Owed(k) : d = Undone(k, i, logs[k][i])
      BY <2>3
    <3>4. QED
      BY <2>1, <3>1, <3>2, <3>3
  <2>5. QED
    BY <2>4
<1>15. QED
  BY <1>13, <1>14, LeadsBackThen, StackIdle

(* An entry that neither asks for a restore nor marks one leaves what is outstanding as it is. *)
LEMMA QuietEntry ==
    ASSUME TypeOK, TypeOK', LeadsBackToStart, NEW kind \in {"write", "restore"}, NEW well \in BOOLEAN, LogEntry(kind, well),
           value' = value, start' = start,
           \A k \in 1..Here : Outstanding(k)' = Outstanding(k),
           ~Unlogged, ~Unlogged'
    PROVE  LeadsBackToStart' /\ StackStep
<1>1. /\ Here' = Here
      /\ \A k \in 1..Here : \A n \in DOMAIN logs[k] : n \in DOMAIN logs'[k] /\ logs'[k][n] = logs[k][n]
  BY LogGrows
<1>2. \A k \in 1..Here : \A i \in Outstanding(k) : logs'[k][i] = logs[k][i]
  BY <1>1, OutstandingIs
<1>3. ASSUME NEW p \in Places PROVE LeadsBackAt(p)'
  <2>1. LeadsBackAt(p)
    BY LeadsBackIs
  <2>2. StartAt(p)' = StartAt(p)
    BY DEF StartAt
  <2>3. \A k \in 1..Here : k \in 1..Here' /\ Outstanding(k)' = Outstanding(k)
    BY <1>1
  <2>4. \A k \in 1..Here' : k \notin 1..Here => Outstanding(k)' = {}
    BY <1>1
  <2>5. QED
    BY <1>2, <2>1, <2>2, <2>3, <2>4, LeadsBackKept
<1>4. Pending' = Pending
  BY <1>1, <1>2, PendingKept
<1>5. QED
  BY <1>3, <1>4, LeadsBackThen, StackIdle

LEMMA LogItemLeads ==
    ASSUME InOrderOnly, BaseInv, BaseInv', RestoreInv, LogItem
    PROVE  RestoreInv' /\ StackStep
<1>1. pc = "log" /\ LogEntry("write", ok) /\ value' = value /\ start' = start
  BY DEF LogItem
<1>2. "write" \in {"write", "restore"} /\ ok \in BOOLEAN /\ TypeOK /\ TypeOK' /\ MarkersInv
  BY TypeFacts DEF BaseInv
<1>3. Here' = Here
  BY <1>1, <1>2, LogGrows
<1>4. CASE Restoring /\ pc' = "mark" /\ UNCHANGED <<plan, item, before, ok, applied>>
  <2>1. /\ Restoring' /\ Unmarked' = Unmarked /\ Back' = Back /\ ~Unlogged /\ ~Unlogged'
        /\ plan' = plan /\ item' = item /\ ok' = ok
    BY <1>1, <1>4 DEF Restoring, Unmarked, Back, Unlogged
  <2>2. \A k \in 1..Here : Owed(k)' = Owed(k)
    <3>1. ASSUME NEW k \in 1..Here PROVE Owed(k)' = Owed(k)
      <4>1. Owed(k)' = Owed(k) \cup {n \in {Len(logs[Here]) + 1} : k = Here /\ ok /\ item.from = 0}
        BY <1>1, <1>2, OwedGrows
      <4>2. QED
        BY <1>4, <4>1 DEF Restoring
    <3>2. QED
      BY <3>1
  <2>3. PICK k : k = item.src
    OBVIOUS
  <2>4. k \in 1..Here
    BY <1>4, <2>3 DEF BaseInv, ItemInv
  <2>5. Owed(item.src)' = Owed(k)
    BY <2>1, <2>2, <2>3, <2>4, OwedBySource
  <2>6. ItemIsNewest => ItemIsNewest'
    BY <2>1, <2>3, <2>5 DEF ItemIsNewest
  <2>7. \A j \in item'.src + 1 .. Here' : Owed(j)' = {}
    <3>1. \A j \in k + 1 .. Here : Owed(j) = {}
      BY <1>4, <2>3 DEF RestoreInv, PlanInv
    <3>2. k + 1 .. Here \subseteq 1..Here
      BY <2>4
    <3>3. QED
      BY <1>3, <2>1, <2>2, <2>3, <3>1, <3>2
  <2>8. PlanInv'
    BY <1>1, <1>4, <2>1, <2>6, <2>7 DEF RestoreInv, PlanInv
  <2>9. \A j \in 1..Here : Outstanding(j)' = Outstanding(j)
    BY <2>1, <2>2 DEF Outstanding
  <2>10. LeadsBackToStart' /\ StackStep
    BY <1>1, <1>2, <2>1, <2>9, QuietEntry DEF RestoreInv
  <2>11. QED
    BY <2>8, <2>10 DEF RestoreInv
<1>5. CASE ~Restoring /\ Prompt
  <2>1. PlanInv' /\ pc' = "prompt" /\ ok' = FALSE /\ ~Unmarked' /\ ~Back' /\ ~Unlogged'
    BY <1>5, PlanAtPrompt DEF Prompt, Unmarked, Back, Unlogged
  <2>2. CASE ok
    <3>1. Unmarked /\ ok = TRUE
      BY <1>1, <1>2, <2>2 DEF Unmarked
    <3>2. LogEntry("write", TRUE)
      BY <1>1, <3>1 DEF LogEntry
    <3>3. LeadsBackToStart' /\ StackStep
      BY <1>1, <1>2, <1>5, <2>1, <3>1, <3>2, WriteLogged DEF RestoreInv
    <3>4. QED
      BY <2>1, <3>3 DEF RestoreInv
  <2>3. CASE ~ok
    <3>1. ~Back /\ ~Unlogged
      BY <2>3 DEF Back, Unlogged, Unmarked
    <3>2. \A k \in 1..Here : Outstanding(k)' = Outstanding(k)
      <4>1. ASSUME NEW k \in 1..Here PROVE Outstanding(k)' = Outstanding(k)
        <5>1. Owed(k)' = Owed(k) \cup {n \in {Len(logs[Here]) + 1} : k = Here /\ ok /\ item.from = 0}
          BY <1>1, <1>2, OwedGrows
        <5>2. Owed(k)' = Owed(k)
          BY <2>3, <5>1
        <5>3. QED
          BY <2>1, <3>1, <5>2, OutstandingIs, OutstandingThen
      <4>2. QED
        BY <4>1
    <3>3. LeadsBackToStart' /\ StackStep
      BY <1>1, <1>2, <2>1, <3>1, <3>2, QuietEntry DEF RestoreInv
    <3>4. QED
      BY <2>1, <3>3 DEF RestoreInv
  <2>4. QED
    BY <2>2, <2>3
<1>6. QED
  BY <1>4, <1>5 DEF LogItem

LEMMA MarkItemLeads ==
    ASSUME InOrderOnly, BaseInv, BaseInv', RestoreInv, MarkItem
    PROVE  RestoreInv' /\ StackStep
<1>1. pc = "mark" /\ LogEntry("restore", PutBack) /\ value' = value /\ start' = start
  BY DEF MarkItem
<1>2. "restore" \in {"write", "restore"} /\ PutBack \in BOOLEAN /\ TypeOK /\ TypeOK' /\ MarkersInv
  BY TypeFacts DEF BaseInv, PutBack
<1>3. PICK k, f : k = item.src /\ f = item.from
  OBVIOUS
<1>4. Restoring /\ k \in 1..Here /\ f # 0
  BY <1>1, <1>3 DEF BaseInv, ItemInv, Restoring
<1>5. /\ Here' = Here
      /\ pc' \in {"next", "prompt"}
      /\ plan # {} => pc' = "next" /\ plan' = plan /\ item' = [NoItem EXCEPT !.src = k]
      /\ plan = {} => Prompt
  BY <1>1, <1>2, <1>3, LogGrows DEF MarkItem, Prompt
<1>6. ~Unmarked' /\ ~Back' /\ ~Unlogged' /\ ~Unlogged
  BY <1>4, <1>5 DEF Unmarked, Back, Unlogged
<1>7. PutBack <=> ok /\ value[item.place] = item.want
  <2>1. applied \in BOOLEAN /\ ok \in BOOLEAN
    BY <1>2, TypeFacts
  <2>2. ok => IF item.place \in Unchecked THEN value[item.place] = item.want ELSE applied = (value[item.place] = item.want)
    BY <1>1, <1>4 DEF RestoreInv, PlanInv
  <2>3. QED
    BY <2>1, <2>2 DEF PutBack
<1>8. Back <=> PutBack
  BY <1>1, <1>4, <1>7 DEF Back, Unmarked
<1>9. \A j \in 1..Here : Owed(j)' = Owed(j) \ {i \in {f} : j = k /\ PutBack}
  <2>1. ASSUME NEW j \in 1..Here PROVE Owed(j)' = Owed(j) \ {i \in {f} : j = k /\ PutBack}
    <3>1. Owed(j)' = Owed(j) \ {i \in {item.from} : j = item.src /\ PutBack}
      BY <1>1, <1>2, OwedGrows
    <3>2. QED
      BY <1>3, <3>1
  <2>2. QED
    BY <2>1
<1>10. \A j \in 1..Here : Outstanding(j)' = Outstanding(j)
  <2>1. ASSUME NEW j \in 1..Here PROVE Outstanding(j)' = Outstanding(j)
    <3>1. Outstanding(j)' = Owed(j)'
      BY <1>6, OutstandingThen
    <3>2. Outstanding(j) = Owed(j) \ {i \in {f} : j = k /\ PutBack}
      BY <1>3, <1>8, OutstandingIs
    <3>3. QED
      BY <1>9, <3>1, <3>2
  <2>2. QED
    BY <2>1
<1>11. LeadsBackToStart' /\ StackStep
  BY <1>1, <1>2, <1>6, <1>10, QuietEntry DEF RestoreInv
<1>12. CASE plan = {}
  <2>1. PlanInv'
    BY <1>5, <1>12, PlanAtPrompt
  <2>2. QED
    BY <1>11, <2>1 DEF RestoreInv
<1>13. CASE plan # {}
  <2>1. PutBack /\ ItemIsNewest /\ \A j \in k + 1 .. Here : Owed(j) = {}
    BY <1>1, <1>3, <1>4, <1>7, <1>13 DEF RestoreInv, PlanInv
  <2>2. item'.from = 0 /\ item'.src = k
    BY <1>2, <1>3, <1>5, <1>13, SourceItem, TypeFacts
  <2>3. plan \subseteq Nat /\ f \in Nat
    BY <1>2, <1>3, TypeFacts
  <2>4. Owed(k)' = plan
    <3>1. Owed(k) = plan \cup {f} /\ \A i \in plan : i < f
      BY <1>3, <2>1 DEF ItemIsNewest
    <3>2. f \notin plan
      BY <2>3, <3>1
    <3>3. QED
      BY <1>4, <1>9, <2>1, <3>1, <3>2
  <2>5. Owed(item.src)' = plan
    BY <2>2, <2>4, OwedBySource
  <2>6. \A j \in item'.src + 1 .. Here' : Owed(j)' = {}
    <3>1. k + 1 .. Here \subseteq 1..Here
      BY <1>4
    <3>2. QED
      BY <1>5, <1>9, <2>1, <2>2, <3>1
  <2>7. ~Restoring'
    BY <2>2 DEF Restoring
  <2>8. PlanInv'
    BY <1>5, <1>13, <2>5, <2>6, <2>7 DEF PlanInv
  <2>9. QED
    BY <1>11, <2>8 DEF RestoreInv
<1>14. QED
  BY <1>12, <1>13

LEMMA NewSessionLeads ==
    ASSUME InOrderOnly, BaseInv, BaseInv', RestoreInv, NewSession
    PROVE  RestoreInv' /\ StackStep
<1>1. logs' = Append(logs, <<>>) /\ Prompt /\ value' = value /\ start' = start /\ pc \in {"prompt", "next", "write"}
  BY DEF NewSession, InOrderOnly
<1>2. TypeOK /\ TypeOK' /\ MarkersInv
  BY DEF BaseInv
<1>3. /\ Here' = Here + 1 /\ Here \in Nat /\ Here >= 1 /\ \A k \in 1..Here : logs'[k] = logs[k]
  BY <1>1, <1>2, LogStarts
<1>4. PlanInv' /\ ~Unmarked' /\ ~Back' /\ ~Unlogged' /\ ~Unmarked /\ ~Back /\ ~Unlogged
  BY <1>1, PlanAtPrompt DEF Prompt, Unmarked, Back, Unlogged
<1>5. \A k \in 1..Here : k \in 1..Here' /\ Outstanding(k)' = Outstanding(k)
  BY <1>1, <1>2, <1>3, <1>4, OwedByNew, OutstandingIs, OutstandingThen
<1>6. \A k \in 1..Here' : k \notin 1..Here => Outstanding(k)' = {}
  <2>1. ASSUME NEW k \in 1..Here', k \notin 1..Here PROVE Outstanding(k)' = {}
    <3>1. k = Here + 1
      BY <1>3, <2>1
    <3>2. Owed(k)' = {}
      BY <1>1, <1>2, <3>1, OwedByNew
    <3>3. QED
      BY <1>4, <3>2, OutstandingThen
  <2>2. QED
    BY <2>1
<1>7. ASSUME NEW p \in Places PROVE LeadsBackAt(p)'
  <2>1. LeadsBackAt(p)
    BY LeadsBackIs DEF RestoreInv
  <2>2. StartAt(p)' = StartAt(p)
    BY <1>1, <1>4 DEF StartAt
  <2>3. \A k \in 1..Here : \A i \in Outstanding(k) : logs'[k][i] = logs[k][i]
    BY <1>3
  <2>4. QED
    BY <1>1, <1>2, <1>5, <1>6, <2>1, <2>2, <2>3, LeadsBackKept
<1>8. LeadsBackToStart'
  BY <1>7, LeadsBackThen
<1>9. StackStep
  <2>1. Pending' = Pending
    BY <1>3, <1>4, <1>5, <1>6, OutstandingIs, PendingKept
  <2>2. QED
    BY <1>1, <2>1, StackIdle
<1>10. QED
  BY <1>4, <1>8, <1>9 DEF RestoreInv

LEMMA RestoreInit ==
    ASSUME Init
    PROVE  RestoreInv
<1>1. /\ value \in [Places -> Values] /\ start = value /\ logs = << <<>> >> /\ pc = "prompt" /\ item.from = 0
  BY NoItemIs DEF Init
<1>2. PlanInv
  BY <1>1 DEF PlanInv, Restoring
<1>3. Here = 1 /\ logs[1] = <<>>
  BY <1>1 DEF Here
<1>4. \A k \in 1..Here : Outstanding(k) = {}
  <2>1. DOMAIN <<>> = {}
    OBVIOUS
  <2>2. ASSUME NEW k \in 1..Here PROVE Outstanding(k) = {}
    <3>1. k = 1 /\ Outstanding(k) \subseteq DOMAIN logs[k]
      BY <1>3, <2>2, OutstandingIs
    <3>2. QED
      BY <1>3, <2>1, <3>1
  <2>3. QED
    BY <2>2
<1>5. \A p : Due(p) = {}
  BY <1>4 DEF Due
<1>6. ~Unlogged
  BY <1>1 DEF Unlogged, Unmarked
<1>7. LeadsBackToStart
  BY <1>1, <1>5, <1>6 DEF LeadsBackToStart
<1>8. QED
  BY <1>2, <1>7 DEF RestoreInv

LEMMA StackStarts ==
    ASSUME Init
    PROVE  Stack!StackInit
<1>1. value \in [Places -> Values] /\ logs = << <<>> >> /\ pc = "prompt"
  BY DEF Init
<1>2. Here = 1 /\ logs[1] = <<>> /\ DOMAIN <<>> = {}
  BY <1>1 DEF Here
<1>3. \A k \in 1..Here : Outstanding(k) = {}
  <2>1. ASSUME NEW k \in 1..Here PROVE Outstanding(k) = {}
    <3>1. k = 1 /\ Outstanding(k) \subseteq DOMAIN logs[k]
      BY <1>2, OutstandingIs
    <3>2. QED
      BY <1>2, <3>1
  <2>2. QED
    BY <2>1
<1>4. ~Unlogged
  BY <1>1 DEF Unlogged, Unmarked
<1>5. Pending = {}
  BY <1>3, <1>4, PendingIs
<1>6. QED
  BY <1>1, <1>5 DEF Stack!StackInit

LEMMA RestoreIdle ==
    ASSUME BaseInv, BaseInv', RestoreInv, UNCHANGED vars
    PROVE  RestoreInv' /\ StackStep
<1>1. /\ logs' = logs /\ value' = value /\ start' = start /\ pc' = pc /\ plan' = plan /\ item' = item /\ before' = before
      /\ ok' = ok /\ applied' = applied
  BY DEF vars, command
<1>2. \A k : Owed(k)' = Owed(k)
  BY <1>1, OwedSame
<1>3. /\ Here' = Here /\ Restoring' = Restoring /\ Unmarked' = Unmarked /\ Back' = Back /\ Unlogged' = Unlogged
  BY <1>1 DEF Here, Restoring, Unmarked, Back, Unlogged
<1>4. PICK k : k = item.src
  OBVIOUS
<1>5. Owed(item.src)' = Owed(k)
  BY <1>1, <1>2, <1>4, OwedBySource
<1>6. ItemIsNewest' <=> ItemIsNewest
  BY <1>1, <1>4, <1>5 DEF ItemIsNewest
<1>7. PlanInv'
  BY <1>1, <1>2, <1>3, <1>4, <1>5, <1>6 DEF RestoreInv, PlanInv
<1>8. \A j : Outstanding(j)' = Outstanding(j)
  BY <1>1, <1>2, <1>3 DEF Outstanding
<1>9. ASSUME NEW p \in Places PROVE LeadsBackAt(p)'
  <2>1. LeadsBackAt(p) /\ TypeOK /\ TypeOK'
    BY LeadsBackIs DEF RestoreInv, BaseInv
  <2>2. StartAt(p)' = StartAt(p)
    BY <1>1, <1>3 DEF StartAt
  <2>3. \A j \in 1..Here : j \in 1..Here' /\ Outstanding(j)' = Outstanding(j)
    BY <1>3, <1>8
  <2>4. \A j \in 1..Here' : j \notin 1..Here => Outstanding(j)' = {}
    BY <1>3
  <2>5. \A j \in 1..Here : \A i \in Outstanding(j) : logs'[j][i] = logs[j][i]
    BY <1>1
  <2>6. QED
    BY <1>1, <2>1, <2>2, <2>3, <2>4, <2>5, LeadsBackKept
<1>10. LeadsBackToStart'
  BY <1>9, LeadsBackThen
<1>11. StackStep
  <2>1. Pending' = Pending
    BY <1>1, <1>3, <1>8, PendingKept DEF Log, Here
  <2>2. QED
    BY <1>1, <2>1, StackIdle
<1>12. QED
  BY <1>7, <1>10, <1>11 DEF RestoreInv

LEMMA RestoreStep ==
    ASSUME InOrderOnly, BaseInv, BaseInv', RestoreInv, [Next]_vars
    PROVE  RestoreInv' /\ StackStep
BY RestoreIdle, StartWriteLeads, DeclineLeads, RestoreLeads, NextItemLeads, WriteItemLeads, VerifyItemLeads, LogItemLeads,
   MarkItemLeads, NewSessionLeads DEF Next

(* LOG-2 (core/restore.py, core/sessionlog.py): while only the last item of a restore may fail, every value that was      *)
(* written is logged and read back, and sessions are restored from the last one, by the session or by the next one       *)
(* alone, restoring all that the logs say is outstanding leads back to the values that the first session found, however  *)
(* many sessions, crashes and interrupted restores there were.                                                           *)
THEOREM RestoringLeadsBack ==
    ASSUME {"lost-reply", "restore-fails", "verify-fails", "crash-before-log", "restore-again", "restore-earlier"} \cap Faults = {},
           Unchecked = {} \/ "last-restore-fails" \notin Faults
    PROVE  Spec => []LeadsBackToStart
<1> DEFINE Inv == BaseInv /\ RestoreInv
<1>1. InOrderOnly
  BY DEF InOrderOnly
<1>2. Init => Inv
  BY BaseInit, RestoreInit
<1>3. Inv /\ [Next]_vars => Inv'
  BY <1>1, BaseStep, RestoreStep
<1>4. Inv => LeadsBackToStart
  BY DEF RestoreInv
<1> HIDE DEF Inv
<1>5. QED
  BY <1>2, <1>3, <1>4, PTL DEF Spec
(* LOG-2 (core/restore.py): under the same conditions, the writes of the operator and what restores put back, over all   *)
(* sessions and their logs, are those of a stack of values: each write adds what it replaced, and a restore takes off    *)
(* what was added last, puts it back, and takes nothing off twice.                                                       *)
THEOREM RestoreImplementsStack ==
    ASSUME {"lost-reply", "restore-fails", "verify-fails", "crash-before-log", "restore-again", "restore-earlier"} \cap Faults = {},
           Unchecked = {} \/ "last-restore-fails" \notin Faults
    PROVE  Spec => RestoresAreAStack
<1> DEFINE Inv == BaseInv /\ RestoreInv
<1>1. InOrderOnly
  BY DEF InOrderOnly
<1>2. Init => Inv /\ Stack!StackInit
  BY BaseInit, RestoreInit, StackStarts
<1>3. Inv /\ [Next]_vars => Inv' /\ [Stack!StackNext]_<<value, Pending>>
  BY <1>1, BaseStep, RestoreStep DEF StackStep
<1> HIDE DEF Inv
<1>4. QED
  BY <1>2, <1>3, PTL DEF Spec, RestoresAreAStack, Stack!StackSpec
===============================================================================
