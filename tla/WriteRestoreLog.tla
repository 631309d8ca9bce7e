--------------------------- MODULE WriteRestoreLog ----------------------------
(***************************************************************************)
(* Writing to a device, the session log, and `restore` (core/readwrite.py, *)
(* core/sessionlog.py, core/restore.py), over several sessions of the      *)
(* tool.                                                                   *)
(*                                                                         *)
(* A write reads the value before, writes, reads back, and only then is    *)
(* logged.  Restoring plans over the log of this session or of an earlier  *)
(* one, and each of its items is such a write, followed by a `restore`     *)
(* entry that says whether the value is back.                              *)
(***************************************************************************)
EXTENDS Naturals, FiniteSets, SequencesExt, Requests

CONSTANTS
    Places,       \* attributes that are written: data attributes, settings, ActSG
    Unchecked,    \* those whose restoring is not checked against the value read back (ActSG)
    Values,
    MaxWrites,    \* bound on the writes of the operator
    MaxEntries,   \* bound on the entries of all logs together
    MaxSessions   \* bound on the number of sessions

FaultKinds ==
    { "refused",             \* the device refuses a write of the operator
      "loss",                \* the association drops under a request
      "lost-reply",          \* a write of the operator takes effect although its request reports an error
      "not-applied",         \* a write of the operator is acknowledged and has no effect
      "last-restore-fails",  \* the last item of a restore is refused, or acknowledged and has no effect
      "restore-fails",       \* any item of a restore
      "verify-fails",        \* a value cannot be read back after a write
      "crash",               \* the process ends before a write
      "crash-before-log",    \* the process ends between a write and its entries in the log
      "restore-again",       \* a third session restores what a second has restored from a first
      "restore-earlier" }    \* an earlier session is restored before the writes that came after it

ASSUME PlacesAssumption ==
    /\ Places # {} /\ Values # {} /\ Unchecked \subseteq Places
    /\ MaxWrites \in Nat /\ MaxEntries \in Nat /\ MaxSessions \in Nat /\ Faults \subseteq FaultKinds

VARIABLES
    value,    \* the device
    logs,     \* the logs of all sessions, the current one last
    pc, plan, \* the command: where it is, the entries still to restore
    item,     \* the write in progress: its place and value; the entry it restores (0: none), of which session's log
    before,   \* the value read before it
    ok, applied,  \* was it acknowledged, was it read back
    start     \* ghost: the values the first session found

command == <<pc, plan, item, before, ok, applied>>
vars == <<value, logs, command, start>>

Here == Len(logs)
Log == logs[Here]
Used == Len(FlattenSeq(logs))
Writes == Len(SelectSeq(FlattenSeq(logs), LAMBDA e : e.from = 0))
NoItem == [place |-> CHOOSE p \in Places : TRUE, want |-> CHOOSE v \in Values : TRUE, from |-> 0, src |-> 0]
Restoring == item.from # 0

Entries == [kind : {"write", "restore"}, place : Places, before : Values, ok : BOOLEAN, from : Nat, src : Nat]

TypeOK ==
    /\ value \in [Places -> Values] /\ start \in [Places -> Values]
    /\ logs \in Seq(Seq(Entries)) /\ logs # <<>>
    /\ pc \in {"prompt", "next", "write", "verify", "log", "mark"}
    /\ plan \subseteq Nat
    /\ item \in [place : Places, want : Values, from : Nat, src : Nat]
    /\ before \in Values /\ ok \in BOOLEAN /\ applied \in BOOLEAN

Init ==
    /\ value \in [Places -> Values] /\ start = value
    /\ logs = << <<>> >>
    /\ pc = "prompt" /\ plan = {} /\ item = NoItem /\ before = NoItem.want
    /\ ok = FALSE /\ applied = FALSE

-----------------------------------------------------------------------------
(* The log *)

(* Appended under the log's lock and flushed: it survives the process. *)
LogEntry(kind, well) ==
    logs' = [logs EXCEPT ![Here] = Append(@, [kind |-> kind, place |-> item.place, before |-> before, ok |-> well,
                                               from |-> item.from, src |-> item.src])]

(* seeded bug (version 1.0): what a restore has put back is not remembered *)
RestoredNone(markers, k) == {}

(* restored_seqs: the writes of session k that `markers` say have been put back. *)
Restored(markers, k) ==
    { m.from : m \in {e \in Range(markers) : e.kind = "restore" /\ e.ok /\ e.src = k} }

(* Those that a restore knows of: it looks in the log it restores and in that of its own session. *)
KnownRestored(k) == Restored(logs[k], k) \cup IF k = Here THEN {} ELSE Restored(Log, k)

Restorable(k, done) ==
    {i \in DOMAIN logs[k] : logs[k][i].kind = "write" /\ logs[k][i].ok /\ logs[k][i].from = 0} \ done

(* seeded bug: the oldest write is restored first *)
Oldest(S) == CHOOSE i \in S : \A j \in S : i <= j

(* plan_restore: what is not restored yet; the newest of it comes first. *)
Plan(k) == Restorable(k, KnownRestored(k))
Newest(S) == CHOOSE i \in S : \A j \in S : j <= i

(* Everything that has been put back, in whatever log it says so, and what has not. *)
Done(k) == UNION {Restored(logs[j], k) : j \in k..Here}
Owed(k) == Restorable(k, Done(k))

-----------------------------------------------------------------------------
(* Commands *)

Prompt == pc' = "prompt" /\ plan' = {} /\ item' = NoItem /\ before' = NoItem.want /\ ok' = FALSE /\ applied' = FALSE

(* `write`: the value before is read and shown with the new one; any failure so far ends the command. *)
StartWrite(p, v) ==
    /\ pc = "prompt" /\ Writes < MaxWrites /\ Used < MaxEntries
    /\ item' = [NoItem EXCEPT !.place = p, !.want = v]
    /\ before' = value[p]
    /\ pc' = "write"
    /\ UNCHANGED <<value, logs, plan, ok, applied, start>>

Decline ==
    /\ pc = "write" /\ ~Restoring
    /\ Prompt
    /\ UNCHANGED <<value, logs, start>>

Restore(k) ==
    /\ pc = "prompt" /\ k \in 1..Here
    /\ Plan(k) # {} /\ Used + 2 * Cardinality(Plan(k)) <= MaxEntries
    /\ "restore-earlier" \in Faults \/ \A j \in k + 1 .. Here : Owed(j) = {}
    /\ "restore-again" \in Faults \/ KnownRestored(k) = Done(k)
    /\ plan' = Plan(k)
    /\ item' = [NoItem EXCEPT !.src = k]
    /\ pc' = "next"
    /\ UNCHANGED <<value, logs, before, ok, applied, start>>

(* An item of a restore may fail: `rest` are the items after it. *)
RestoreFails(rest) == "restore-fails" \in Faults \/ ("last-restore-fails" \in Faults /\ rest = {})

(* How the requests of the item end; a lost association makes the next item raise, out of the restore. *)
Outcomes(rest) ==
    IF Restoring' THEN {"ok"} \cup {o \in {"dropped"} : "loss" \in Faults} \cup {o \in {"refused"} : RestoreFails(rest)}
    ELSE Ends(TRUE, TRUE, "lost-reply")
PlanAfter(o, rest) == IF o = "dropped" THEN {} ELSE rest

(* The next item reads the value before, as any write does; an error is caught and the item marked. *)
NextItem ==
    /\ pc = "next"
    /\ LET i == Newest(plan)
           old == logs[item.src][i]
       IN  /\ item' = [place |-> old.place, want |-> old.before, from |-> i, src |-> item.src]
           /\ before' = value[old.place]
           /\ \E o \in Outcomes(plan \ {i}) :
                /\ pc' = IF o = "ok" THEN "write" ELSE "mark"
                /\ plan' = PlanAfter(o, plan \ {i})
    /\ ok' = FALSE /\ applied' = FALSE
    /\ UNCHANGED <<value, logs, start>>

(* The value is read back unless the operator asked not to; that of ActSG is only shown. *)
WriteItem ==
    /\ pc = "write"
    /\ UNCHANGED <<logs, item, before, start>>
    /\ \E o \in Outcomes(plan),
          sticks \in {TRUE} \cup {b \in {FALSE} : IF Restoring THEN RestoreFails(plan) ELSE "not-applied" \in Faults} :
        /\ value' = IF TakesEffect(o) /\ sticks THEN [value EXCEPT ![item.place] = item.want] ELSE value
        /\ ok' = (o = "ok")
        /\ plan' = PlanAfter(o, plan)
        /\ pc' \in IF o # "ok" \/ item.place \in Unchecked THEN {"log"}
                   ELSE IF Restoring THEN {"verify"} ELSE {"verify", "log"}
    /\ UNCHANGED applied

(* The value is read back; an error here skips the log, and only a restore catches it. *)
VerifyItem ==
    /\ pc = "verify"
    /\ \/ /\ applied' = (value[item.place] = item.want)
          /\ pc' = "log"
          /\ UNCHANGED <<plan, item, before, ok>>
       \/ /\ "verify-fails" \in Faults
          /\ IF Restoring THEN pc' = "mark" /\ ok' = FALSE /\ UNCHANGED <<plan, item, before, applied>> ELSE Prompt
    /\ UNCHANGED <<value, logs, start>>

LogItem ==
    /\ pc = "log"
    /\ LogEntry("write", ok)
    /\ IF Restoring THEN pc' = "mark" /\ UNCHANGED <<plan, item, before, ok, applied>> ELSE Prompt
    /\ UNCHANGED <<value, start>>

(* seeded bug: an accepted write counts as put back, whatever was read *)
PutBackAccepted == ok

PutBack == ok /\ (applied \/ item.place \in Unchecked)

MarkItem ==
    /\ pc = "mark"
    /\ LogEntry("restore", PutBack)
    /\ IF plan = {} THEN Prompt
       ELSE pc' = "next" /\ item' = [NoItem EXCEPT !.src = item.src] /\ UNCHANGED <<plan, before, ok, applied>>
    /\ UNCHANGED <<value, start>>

(* The tool ends, in order or not, and is started again. *)
NewSession ==
    /\ Here < MaxSessions
    /\ \/ pc = "prompt"
       \/ "crash" \in Faults /\ pc \in {"next", "write"}
       \/ "crash-before-log" \in Faults /\ pc \in {"verify", "log", "mark"}
    /\ logs' = Append(logs, <<>>)
    /\ Prompt
    /\ UNCHANGED <<value, start>>

Next ==
    \/ \E p \in Places, v \in Values : StartWrite(p, v)
    \/ Decline
    \/ \E k \in 1..MaxSessions : Restore(k)
    \/ NextItem \/ WriteItem \/ VerifyItem \/ LogItem \/ MarkItem
    \/ NewSession

Spec == Init /\ [][Next]_vars

-----------------------------------------------------------------------------
(* Properties *)

Unmarked == pc \in {"verify", "log", "mark"} /\ ok
Back == Unmarked /\ Restoring /\ value[item.place] = item.want
Unlogged == Unmarked /\ ~Restoring

(* What is still to be put back: the entries of session k that no ok `restore` entry names, less the one that is     *)
(* back and not yet marked.                                                                                          *)
Outstanding(k) == Owed(k) \ {i \in {item.from} : Back /\ item.src = k}

(* All of it, at its position in the order of writing, with the write in progress that took effect and is not yet   *)
(* logged, at the position of its entry.                                                                             *)
Undone(k, i, e) == [at |-> <<k, i>>, place |-> e.place, before |-> e.before]
Pending ==
    (UNION { {Undone(k, i, logs[k][i]) : i \in Outstanding(k)} : k \in 1..Here })
      \cup {d \in {Undone(Here, Len(Log) + 1, [place |-> item.place, before |-> before])} : Unlogged}

(* LOG-2: writes and restores, over all sessions, are those of a stack of values: each is put back once, newest first. *)
Stack == INSTANCE ValueStack WITH stack <- Pending
RestoresAreAStack == Stack!StackSpec

(* LOG-2: restoring all that the logs say is still to be restored leads back to the values the first session found:  *)
(* at each place the oldest entry outstanding holds that value, and the device (or what a write in progress read of  *)
(* it before) does where none is.                                                                                    *)
Due(p) == UNION { {<<k, i>> : i \in {j \in Outstanding(k) : logs[k][j].place = p}} : k \in 1..Here }
NoLater(d, e) == d[1] < e[1] \/ (d[1] = e[1] /\ d[2] <= e[2])
LeadsBackToStart ==
    \A p \in Places :
        IF Due(p) = {} THEN start[p] = IF Unlogged /\ item.place = p THEN before ELSE value[p]
        ELSE \E d \in Due(p) : (\A e \in Due(p) : NoLater(d, e)) /\ logs[d[1]][d[2]].before = start[p]

(* An ok `restore` entry proves that the value was put back, where the value is read back at all; later restores     *)
(* trust it and leave the place alone.                                                                               *)
MarkedIsBack ==
    [][ LET marked == logs'[Here][Len(logs'[Here])]
        IN  pc = "mark" /\ logs' # logs /\ Len(logs') = Len(logs) /\ marked.ok /\ item.place \notin Unchecked
              => value[item.place] = item.want ]_vars
===============================================================================
