--------------------------- MODULE SchedulerProofs ---------------------------
(***************************************************************************)
(* Proofs about Scheduler, for every set of tasks and configurations, any  *)
(* numbers of engines, requests and manual runs, and every cron            *)
(* expression: the inductive invariant IInv and what follows from it.      *)
(***************************************************************************)
EXTENDS Scheduler, TLAPS

LEMMA Runners ==
  /\ Engine \subseteq Runner /\ Manual \subseteq Runner /\ 1 \in Engine
  /\ Engine \subseteq Nat /\ 0 \notin Engine
  /\ \A r \in Runner : r \in Engine \/ r \in Manual
  /\ \A m \in Manual : m \notin Engine
BY NumbersAssumption DEF Engine, Manual, Runner

LEMMA NextRunType ==
  ASSUME NEW c \in Config, NEW ref \in 0 .. MaxTime
  PROVE  NextRun(c, ref) \in Nat /\ NextRun(c, ref) > ref
<1>1. PICK s \in ref + 1 .. ref + Hour : IsNextRun(c, ref, s)
  BY ConfigAssumption
<1>2. NextRun(c, ref) \in ref + 1 .. ref + Hour
  BY <1>1 DEF NextRun
<1>3. QED
  BY <1>2, NumbersAssumption

LEMMA NormalizeType ==
  ASSUME NEW rec \in Record
  PROVE  /\ Normalize(rec) \in Record
         /\ Normalize(rec).config = rec.config /\ Normalize(rec).enabled = rec.enabled
         /\ Normalize(rec).next = rec.next /\ Normalize(rec).rev = rec.rev
         /\ Normalize(rec).status = "running" => rec.status = "running"
BY DEF Normalize, Record, Status

LEMMA RefreshType ==
  ASSUME NEW st \in [Task -> Record \cup {Absent}], now \in 0 .. MaxTime
  PROVE  /\ Refresh(st) \in [Task -> Record \cup {Absent}]
         /\ \A t \in Task :
              IF st[t] = Absent THEN Refresh(st)[t] = Absent
              ELSE /\ Refresh(st)[t] \in Record
                   /\ Refresh(st)[t].rev = st[t].rev
                   /\ Refresh(st)[t].next > now
                   /\ Refresh(st)[t].status = "running" => st[t].status = "running"
<1>1. ASSUME NEW t \in Task, st[t] # Absent
      PROVE  /\ Refresh(st)[t] \in Record
             /\ Refresh(st)[t].rev = st[t].rev
             /\ Refresh(st)[t].next > now
             /\ Refresh(st)[t].status = "running" => st[t].status = "running"
  <2>1. st[t] \in Record /\ Normalize(st[t]) \in Record /\ st[t].config \in Config
    BY <1>1, NormalizeType DEF Record
  <2>2. Refresh(st)[t] = [Normalize(st[t]) EXCEPT !.next = NextRun(st[t].config, now)]
    BY <1>1 DEF Refresh
  <2>3. NextRun(st[t].config, now) \in Nat /\ NextRun(st[t].config, now) > now
    BY <2>1, NextRunType
  <2>4. QED
    BY <2>1, <2>2, <2>3, NormalizeType DEF Record
<1>2. \A t \in Task : st[t] = Absent => Refresh(st)[t] = Absent
  BY DEF Refresh
<1>3. Refresh(st) \in [Task -> Record \cup {Absent}]
  BY <1>1, <1>2 DEF Refresh
<1>4. QED
  BY <1>1, <1>2, <1>3, CreatedAssumption

Outcome == {"success", "failed", "skipped_conflict", "skipped_missing_session"}

(* What is written back: of the same configuration, not running, and       *)
(* planned behind the slot it was triggered for.                           *)
LEMMA FinalizedType ==
  ASSUME NEW rec \in Record, NEW outcome \in Outcome, NEW kind \in {"cron", "manual_run"},
         now \in 0 .. MaxTime, kind = "cron" => rec.next <= now
  PROVE  /\ Finalized(rec, outcome, kind, rec.next) \in Record
         /\ Finalized(rec, outcome, kind, rec.next).rev = rec.rev
         /\ Finalized(rec, outcome, kind, rec.next).status # "running"
         /\ Finalized(rec, outcome, kind, rec.next).next > IF kind = "cron" THEN rec.next ELSE now
<1> DEFINE enabled == rec.enabled /\ outcome # "skipped_missing_session"
           fin == Finalized(rec, outcome, kind, rec.next)
           nxt == NextAfter([rec EXCEPT !.enabled = enabled], kind, rec.next)
<1>1. nxt \in Nat /\ nxt > IF kind = "cron" THEN rec.next ELSE now
  <2>1. rec.config \in Config /\ rec.next \in Nat
    BY DEF Record
  <2>2. NextRun(rec.config, now) \in Nat /\ NextRun(rec.config, now) > now
    BY <2>1, NextRunType
  <2>3. kind = "cron" => NextRun(rec.config, rec.next) \in Nat /\ NextRun(rec.config, rec.next) > rec.next
    BY <2>1, NextRunType, NumbersAssumption
  <2>4. QED
    BY <2>1, <2>2, <2>3, NumbersAssumption DEF NextAfter, Record
<1>2. QED
  BY <1>1 DEF Finalized, Record, Status, Outcome

-----------------------------------------------------------------------------
(* Type correctness and the shape of executions.                           *)

StoreType == store \in [Task -> Record \cup {Absent}] /\ cutOff \subseteq Task

RunType ==
  /\ active \in [Engine -> SUBSET Task]
  /\ sessions \in [Engine -> SUBSET {Session[c] : c \in Config}]
  /\ place \in [Runner -> {"idle", "turn", "backoff", "done"}]
  /\ by \in [Runner -> 0 .. MaxEngines]
  /\ task \in [Runner -> Task \cup {Absent}]
  /\ copy \in [Runner -> Record \cup {Absent}]
  /\ attempt \in [Runner -> 0 .. MaxAttempts]

LEMMA UpsertType ==
  ASSUME TypeOK, NEW t \in Task, NEW rec \in Record, Upsert(t, rec)
  PROVE  StoreType'
BY DEF TypeOK, Upsert, StoreType

LEMMA SkipType ==
  ASSUME TypeOK, NEW r \in Runner, NEW e \in Engine, NEW t \in Task, NEW rec \in Record,
         r \in Engine => rec.next <= now,
         Skip(r, e, t, rec)
  PROVE  /\ StoreType'
         /\ \E fin \in Record : /\ Upsert(t, fin)
                                /\ fin.rev = rec.rev /\ fin.status # "running"
                                /\ fin.next > IF r \in Engine THEN rec.next ELSE now
         /\ UNCHANGED <<engineVars, runVars>>
<1>1. Kind(r) = IF r \in Engine THEN "cron" ELSE "manual_run"
  BY DEF Kind
<1>2. PICK outcome \in {"skipped_conflict", "skipped_missing_session"} :
        Upsert(t, Finalized(rec, outcome, Kind(r), rec.next))
  BY DEF Skip
<1> DEFINE fin == Finalized(rec, outcome, Kind(r), rec.next)
<1>3. /\ fin \in Record /\ fin.rev = rec.rev /\ fin.status # "running"
      /\ fin.next > IF Kind(r) = "cron" THEN rec.next ELSE now
  BY <1>1, FinalizedType DEF TypeOK, Outcome
<1> HIDE DEF fin
<1>4. Upsert(t, fin)
  BY <1>2 DEF fin
<1>5. StoreType'
  BY <1>3, <1>4, UpsertType
<1>6. fin.next > IF r \in Engine THEN rec.next ELSE now
  BY <1>1, <1>3
<1>7. QED
  BY <1>3, <1>4, <1>5, <1>6 DEF Skip

LEMMA StartType ==
  ASSUME TypeOK, NEW r \in Runner, NEW e \in Engine, NEW t \in Task, NEW rec \in Record,
         Start(r, e, t, rec)
  PROVE  StoreType' /\ RunType'
<1>1. [rec EXCEPT !.status = "running"] \in Record
  BY DEF Record, Status
<1>2. StoreType'
  BY <1>1, UpsertType DEF Start
<1>3. Session[rec.config] \in {Session[c] : c \in Config}
  BY DEF Record
<1>4. active' \in [Engine -> SUBSET Task]
  BY DEF Start, TypeOK
<1>5. sessions' \in [Engine -> SUBSET {Session[c] : c \in Config}]
  BY <1>3 DEF Start, TypeOK
<1>6. e \in 0 .. MaxEngines /\ 1 \in 0 .. MaxAttempts
  BY NumbersAssumption DEF Engine
<1>7. QED
  BY <1>1, <1>2, <1>4, <1>5, <1>6 DEF Start, TypeOK, RunType

LEMMA LeaveType ==
  ASSUME TypeOK, NEW r \in Runner, by[r] \in Engine, Discard(r), Leave(r)
  PROVE  RunType'
BY NumbersAssumption DEF TypeOK, Discard, Leave, Forget, RunType

LEMMA CutOffType ==
  ASSUME TypeOK, RunsAreWhole, NEW r \in Runner, CutOff(r)
  PROVE  RunType' /\ cutOff' \subseteq Task
<1>1. by[r] \in Engine /\ task[r] \in Task
  BY NumbersAssumption DEF CutOff, RunsAreWhole, TypeOK, Engine
<1>2. RunType'
  BY <1>1, LeaveType DEF CutOff
<1>3. QED
  BY <1>1, <1>2 DEF CutOff, TypeOK

LEMMA CompleteType ==
  ASSUME TypeOK, RunsAreWhole, NEW r \in Runner, Complete(r)
  PROVE  /\ StoreType' /\ RunType'
         /\ \E fin \in Record :
              /\ Upsert(task[r], fin)
              /\ fin.rev = copy[r].rev /\ fin.status # "running"
              /\ fin.next > IF r \in Engine THEN copy[r].next ELSE now
<1>1. /\ by[r] \in Engine /\ task[r] \in Task /\ copy[r] \in Record
      /\ r \in Engine => copy[r].next <= now
  <2>1. AtWork(r)
    BY DEF Complete, AtWork
  <2>2. by[r] \in Engine
    BY <2>1, NumbersAssumption DEF RunsAreWhole, TypeOK, Engine
  <2>3. QED
    BY <2>1, <2>2 DEF RunsAreWhole
<1>2. Kind(r) = IF r \in Engine THEN "cron" ELSE "manual_run"
  BY DEF Kind
<1>3. PICK outcome \in {"success", "failed"} :
        Upsert(task[r], Finalized(copy[r], outcome, Kind(r), copy[r].next))
  BY DEF Complete
<1> DEFINE fin == Finalized(copy[r], outcome, Kind(r), copy[r].next)
<1>4. /\ fin \in Record /\ fin.rev = copy[r].rev /\ fin.status # "running"
      /\ fin.next > IF Kind(r) = "cron" THEN copy[r].next ELSE now
  <2>1. now \in 0 .. MaxTime /\ outcome \in Outcome
    BY DEF TypeOK, Outcome
  <2>2. Kind(r) \in {"cron", "manual_run"} /\ (Kind(r) = "cron" => copy[r].next <= now)
    BY <1>1, <1>2
  <2>3. QED
    BY <1>1, <2>1, <2>2, FinalizedType
<1> HIDE DEF fin
<1>5. Upsert(task[r], fin)
  BY <1>3 DEF fin
<1>6. StoreType'
  BY <1>1, <1>4, <1>5, UpsertType
<1>7. RunType'
  BY <1>1, LeaveType DEF Complete
<1>8. fin.next > IF r \in Engine THEN copy[r].next ELSE now
  BY <1>2, <1>4
<1>9. QED
  BY <1>4, <1>5, <1>6, <1>7, <1>8

(* What the loop triggers.                                                 *)
LEMMA TriggeredType ==
  ASSUME TypeOK, RunsAreWhole, NEW e \in Engine, NEW t \in Task, TickTriggers(e, t)
  PROVE  /\ snapshot[e][t] \in Record /\ Normalize(snapshot[e][t]) \in Record
         /\ snapshot[e][t].next \in Nat /\ snapshot[e][t].next <= now
         /\ Normalize(snapshot[e][t]).next = snapshot[e][t].next
         /\ Normalize(snapshot[e][t]).rev = snapshot[e][t].rev
         /\ ~ AtWork(e)
<1>1. snapshot[e][t] \in Record
  BY DEF TickTriggers, TypeOK
<1>2. tickTime[e] <= now /\ snapshot[e][t].next <= tickTime[e] /\ ~ AtWork(e)
  BY DEF TickTriggers, Due, RunsAreWhole
<1>3. snapshot[e][t].next \in Nat
  BY <1>1 DEF Record
<1>4. tickTime[e] \in Int /\ now \in Int
  BY DEF TypeOK
<1>5. QED
  BY <1>1, <1>2, <1>3, <1>4, NormalizeType

LEMMA RequestFrame ==
  RequestStep => UNCHANGED <<now, tickVars, engineVars, runVars, switchVars, cutOff, lastSlot>>
<1>1. \A t \in Task : Edits(t) =>
        UNCHANGED <<now, tickVars, engineVars, runVars, switchVars, cutOff, lastSlot>>
  BY DEF Edits
<1>2. ASSUME NEW t \in Task, CreateTask(t) \/ UpdateTask(t) \/ SwitchTask(t) \/ DeleteTask(t)
      PROVE  Edits(t)
  <2>1. CASE CreateTask(t)
    BY <2>1 DEF CreateTask
  <2>2. CASE UpdateTask(t)
    BY <2>2 DEF UpdateTask
  <2>3. CASE SwitchTask(t)
    BY <2>3 DEF SwitchTask
  <2>4. CASE DeleteTask(t)
    BY <2>4 DEF DeleteTask
  <2>5. QED
    BY <1>2, <2>1, <2>2, <2>3, <2>4
<1>3. ListTasks => UNCHANGED <<now, tickVars, engineVars, runVars, switchVars, cutOff, lastSlot>>
  BY DEF ListTasks
<1>4. QED
  BY <1>1, <1>2, <1>3 DEF RequestStep

LEMMA TickType ==
  ASSUME TypeOK, RunsAreWhole, NEW e \in Engine, TickStep(e)
  PROVE  TypeOK'
<1> USE Runners
<1>1. ASSUME NEW t \in Task, TickPasses(e, t)
      PROVE  TypeOK'
  <2>1. snapshot[e][t] \in Record
    BY <1>1 DEF TickPasses, TypeOK
  <2>2. StoreType'
    BY <1>1, <2>1, NormalizeType, UpsertType DEF TickPasses, TypeOK, StoreType
  <2>3. snapshot' \in [Engine -> [Task -> Record \cup {Absent}]]
    BY <1>1 DEF TickPasses, TypeOK
  <2>4. QED
    BY <1>1, <2>2, <2>3 DEF TickPasses, TypeOK, StoreType, engineVars, runVars, switchVars, editVars
<1>2. ASSUME NEW t \in Task, TickTriggers(e, t)
      PROVE  TypeOK'
  <2>1. /\ snapshot[e][t] \in Record /\ Normalize(snapshot[e][t]) \in Record
        /\ Normalize(snapshot[e][t]).next <= now
        /\ snapshot[e][t].next \in Nat
    BY <1>2, TriggeredType
  <2>2. /\ snapshot' \in [Engine -> [Task -> Record \cup {Absent}]]
        /\ lastSlot' \in [Task -> Nat]
        /\ loop' \in [Engine -> {"none", "asleep", "ticking", "executing", "off"}]
    BY <1>2, <2>1 DEF TickTriggers, TypeOK
  <2>3. StoreType' /\ RunType'
    <3>1. CASE Skip(e, e, t, Normalize(snapshot[e][t]))
      <4>1. StoreType' /\ UNCHANGED <<engineVars, runVars>>
        BY <2>1, <3>1, SkipType
      <4>2. QED
        BY <4>1 DEF TypeOK, RunType, engineVars, runVars
    <3>2. CASE Start(e, e, t, Normalize(snapshot[e][t]))
      BY <2>1, <3>2, StartType
    <3>3. QED
      BY <1>2, <3>1, <3>2 DEF TickTriggers
  <2>4. QED
    BY <1>2, <2>2, <2>3 DEF TickTriggers, TypeOK, StoreType, RunType, switchVars, editVars
<1>3. CASE TickEnds(e)
  BY <1>3, NumbersAssumption
  DEF TickEnds, TypeOK, engineVars, runVars, switchVars, editVars
<1>4. QED
  BY <1>1, <1>2, <1>3 DEF TickStep

LEMMA EmptyList == [t \in Task |-> Absent] \in [Task -> Record \cup {Absent}]
OBVIOUS

LEMMA LoopType ==
  ASSUME TypeOK, RunsAreWhole, NEW e \in Engine, LoopStep(e)
  PROVE  TypeOK'
<1> USE Runners, EmptyList
<1>1. CASE TickBegins(e)
  BY <1>1 DEF TickBegins, TypeOK, engineVars, runVars, switchVars, editVars
<1>2. CASE LoopEnds(e)
  <2>1. RunType' /\ cutOff' \subseteq Task
    <3>1. CASE CutOff(e)
      BY <3>1, CutOffType
    <3>2. CASE UNCHANGED <<engineVars, runVars, cutOff>>
      BY <3>2 DEF TypeOK, RunType, engineVars, runVars
    <3>3. QED
      BY <1>2, <3>1, <3>2 DEF LoopEnds
  <2>2. /\ loop' \in [Engine -> {"none", "asleep", "ticking", "executing", "off"}]
        /\ snapshot' \in [Engine -> [Task -> Record \cup {Absent}]]
        /\ tickTime' \in [Engine -> 0 .. MaxTime] /\ flagged' \subseteq Engine
    BY <1>2, NumbersAssumption DEF LoopEnds, TypeOK
  <2>3. QED
    BY <1>2, <2>1, <2>2 DEF LoopEnds, TypeOK, RunType, editVars
<1>3. CASE CancelDropped(e)
  BY <1>3 DEF CancelDropped, TypeOK, tickVars, engineVars, runVars, editVars
<1>4. QED
  BY <1>1, <1>2, <1>3 DEF LoopStep

LEMMA RunStepType ==
  ASSUME TypeOK, RunsAreWhole, NEW r \in Runner, RunStep(r)
  PROVE  TypeOK'
<1>1. CASE BackOff(r)
  BY <1>1 DEF BackOff, TypeOK, tickVars, engineVars, switchVars, editVars
<1>2. CASE Retry(r)
  <2>1. attempt[r] < MaxAttempts
    BY <1>2 DEF Retry, RunsAreWhole, AtWork
  <2>2. attempt' \in [Runner -> 0 .. MaxAttempts]
    BY <1>2, <2>1, NumbersAssumption DEF Retry, TypeOK
  <2>3. QED
    BY <1>2, <2>2 DEF Retry, TypeOK, tickVars, engineVars, switchVars, editVars
<1>3. CASE Complete(r)
  <2>1. StoreType' /\ RunType'
    BY <1>3, CompleteType
  <2>2. loop' \in [Engine -> {"none", "asleep", "ticking", "executing", "off"}]
    BY <1>3 DEF Complete, TypeOK
  <2>3. QED
    BY <1>3, <2>1, <2>2 DEF Complete, TypeOK, StoreType, RunType, switchVars, editVars
<1>4. QED
  BY <1>1, <1>2, <1>3 DEF RunStep

LEMMA ManualType ==
  ASSUME TypeOK, RunsAreWhole, NEW m \in Manual, ManualStep(m)
  PROVE  TypeOK'
<1> USE Runners
<1>1. ASSUME NEW t \in Task, RunNow(m, t)
      PROVE  TypeOK'
  <2>1. Normalize(store[t]) \in Record
    BY <1>1, NormalizeType DEF RunNow, Exists, TypeOK
  <2>2. PICK e \in {current, origin} :
          Skip(m, e, t, Normalize(store[t])) \/ Start(m, e, t, Normalize(store[t]))
    BY <1>1 DEF RunNow
  <2>3. e \in Engine
    BY <2>2 DEF TypeOK
  <2>4. StoreType' /\ RunType'
    <3>1. CASE Skip(m, e, t, Normalize(store[t]))
      <4>1. StoreType' /\ UNCHANGED <<engineVars, runVars>>
        BY <2>1, <2>3, <3>1, SkipType
      <4>2. QED
        BY <4>1 DEF TypeOK, RunType, engineVars, runVars
    <3>2. CASE Start(m, e, t, Normalize(store[t]))
      BY <2>1, <2>3, <3>2, StartType
    <3>3. QED
      BY <2>2, <3>1, <3>2
  <2>5. QED
    BY <1>1, <2>4 DEF RunNow, TypeOK, StoreType, RunType, tickVars, switchVars, editVars
<1>2. CASE ManualCancelled(m)
  <2>1. RunType' /\ cutOff' \subseteq Task
    BY <1>2, CutOffType DEF ManualCancelled
  <2>2. QED
    BY <1>2, <2>1 DEF ManualCancelled, TypeOK, RunType, tickVars, switchVars, editVars
<1>3. QED
  BY <1>1, <1>2 DEF ManualStep

LEMMA Edited ==
  ASSUME TypeOK, NEW t \in Task, Edits(t), store' \in [Task -> Record \cup {Absent}],
         latest' \in [Task -> -1 .. MaxRequests]
  PROVE  TypeOK'
<1>1. requests' \in 1 .. MaxRequests
  BY NumbersAssumption DEF Edits, TypeOK
<1>2. touched' \subseteq Task
  BY DEF Edits, TypeOK
<1>3. QED
  BY <1>1, <1>2 DEF TypeOK, Edits, tickVars, engineVars, runVars, switchVars

LEMMA LatestType ==
  ASSUME TypeOK, NEW t \in Task, NEW n \in 1 .. MaxRequests
  PROVE  [latest EXCEPT ![t] = n] \in [Task -> -1 .. MaxRequests]
<1>1. n \in -1 .. MaxRequests
  BY NumbersAssumption
<1>2. QED
  BY <1>1 DEF TypeOK

LEMMA RefreshedType ==
  ASSUME TypeOK, NEW st \in [Task -> Record \cup {Absent}], Refreshed(st)
  PROVE  store' \in [Task -> Record \cup {Absent}]
BY RefreshType DEF Refreshed, TypeOK

(* The record a request writes.                                            *)
LEMMA WrittenType ==
  ASSUME TypeOK, NEW t \in Task, Edits(t), NEW c \in Config, NEW enabled \in BOOLEAN
  PROVE  /\ requests' \in 1 .. MaxRequests /\ NextRun(c, now) \in Nat
         /\ [config |-> c, enabled |-> enabled, status |-> "pending",
             next |-> NextRun(c, now), rev |-> requests'] \in Record
         /\ \A rec \in Record :
              /\ [rec EXCEPT !.config = c, !.enabled = enabled, !.next = NextRun(c, now),
                             !.rev = requests'] \in Record
              /\ [rec EXCEPT !.enabled = enabled, !.rev = requests'] \in Record
<1>1. requests' \in 1 .. MaxRequests
  BY NumbersAssumption DEF Edits, TypeOK
<1>2. NextRun(c, now) \in Nat
  BY NextRunType DEF TypeOK
<1>3. QED
  BY <1>1, <1>2 DEF Record, Status

LEMMA RequestType ==
  ASSUME TypeOK, RequestStep
  PROVE  TypeOK'
<1>1. ASSUME NEW t \in Task, CreateTask(t)
      PROVE  TypeOK'
  <2>1. PICK c \in Config, enabled \in BOOLEAN :
          Refreshed([store EXCEPT ![t] =
            [config |-> c, enabled |-> enabled, status |-> "pending",
             next |-> NextRun(c, now), rev |-> requests']])
    BY <1>1 DEF CreateTask
  <2>2. store' \in [Task -> Record \cup {Absent}] /\ requests' \in 1 .. MaxRequests
    BY <1>1, <2>1, WrittenType, RefreshedType DEF CreateTask, TypeOK
  <2>3. QED
    BY <1>1, <2>2, Edited, LatestType DEF CreateTask
<1>2. ASSUME NEW t \in Task, UpdateTask(t)
      PROVE  TypeOK'
  <2>1. PICK c \in Config, enabled \in BOOLEAN :
          Refreshed([store EXCEPT ![t] =
            [@ EXCEPT !.config = c, !.enabled = enabled, !.next = NextRun(c, now),
                      !.rev = requests']])
    BY <1>2 DEF UpdateTask
  <2>2. store[t] \in Record
    BY <1>2 DEF UpdateTask, Exists, TypeOK
  <2>3. store' \in [Task -> Record \cup {Absent}] /\ requests' \in 1 .. MaxRequests
    BY <1>2, <2>1, <2>2, WrittenType, RefreshedType DEF UpdateTask, TypeOK
  <2>4. QED
    BY <1>2, <2>3, Edited, LatestType DEF UpdateTask
<1>3. ASSUME NEW t \in Task, SwitchTask(t)
      PROVE  TypeOK'
  <2>1. PICK enabled \in BOOLEAN :
          store' = Refresh([store EXCEPT ![t] = [@ EXCEPT !.enabled = enabled, !.rev = requests']])
    BY <1>3 DEF SwitchTask
  <2>2. store[t] \in Record /\ store[t].config \in Config
    BY <1>3 DEF SwitchTask, Exists, TypeOK, Record
  <2>3. [store EXCEPT ![t] = [@ EXCEPT !.enabled = enabled, !.rev = requests']]
          \in [Task -> Record \cup {Absent}] /\ requests' \in 1 .. MaxRequests
    BY <1>3, <2>2, WrittenType DEF SwitchTask, TypeOK
  <2>4. store' \in [Task -> Record \cup {Absent}]
    BY <2>1, <2>3, RefreshType DEF TypeOK
  <2>5. QED
    BY <1>3, <2>3, <2>4, Edited, LatestType DEF SwitchTask
<1>4. ASSUME NEW t \in Task, DeleteTask(t)
      PROVE  TypeOK'
  <2>1. store' \in [Task -> Record \cup {Absent}]
    BY <1>4, RefreshedType DEF DeleteTask, TypeOK
  <2>2. latest' \in [Task -> -1 .. MaxRequests]
    BY <1>4, NumbersAssumption DEF DeleteTask, TypeOK
  <2>3. QED
    BY <1>4, <2>1, <2>2, Edited DEF DeleteTask
<1>5. CASE ListTasks
  <2>1. store' \in [Task -> Record \cup {Absent}] /\ requests' \in 1 .. MaxRequests
    BY <1>5, RefreshType, NumbersAssumption DEF ListTasks, TypeOK
  <2>2. QED
    BY <1>5, <2>1 DEF ListTasks, TypeOK, tickVars, engineVars, runVars, switchVars
<1>6. QED
  BY <1>1, <1>2, <1>3, <1>4, <1>5 DEF RequestStep

LEMMA SwitchType ==
  ASSUME TypeOK, RunsAreWhole, SwitchStep
  PROVE  TypeOK'
<1> USE Runners, EmptyList
<1>1. CASE ReloadBegins
  <2>1. store' \in [Task -> Record \cup {Absent}]
    BY <1>1, RefreshType DEF ReloadBegins, TypeOK
  <2>2. engines' \in Engine /\ current \in 0 .. MaxEngines
    BY <1>1, NumbersAssumption DEF ReloadBegins, TypeOK, Engine
  <2>3. QED
    BY <1>1, <2>1, <2>2 DEF ReloadBegins, TypeOK, tickVars, engineVars, runVars, editVars
<1>2. ASSUME NEW n \in Engine, ReloadEnds(n) \/ ReloadAborts(n)
      PROVE  TypeOK'
  <2>1. waits' \in [Engine -> 0 .. MaxEngines]
    <3>1. 0 \in 0 .. MaxEngines
      BY NumbersAssumption
    <3>2. QED
      BY <1>2, <3>1 DEF ReloadEnds, ReloadAborts, TypeOK
  <2>2. QED
    BY <1>2, <2>1 DEF ReloadEnds, ReloadAborts, TypeOK, tickVars, engineVars, runVars, editVars
<1>3. CASE Restart
  <2>1. store' \in [Task -> Record \cup {Absent}]
    BY <1>3, RefreshType DEF Restart, TypeOK
  <2>2. engines + 1 \in Engine
    <3>1. engines < MaxEngines
      BY <1>3 DEF Restart
    <3>2. QED
      BY <3>1, NumbersAssumption DEF TypeOK, Engine
  <2>3. cutOff' \subseteq Task
    BY <1>3 DEF Restart, RunsAreWhole, TypeOK
  <2>4. /\ active' \in [Engine -> SUBSET Task]
        /\ sessions' \in [Engine -> SUBSET {Session[c] : c \in Config}]
        /\ place' \in [Runner -> {"idle", "turn", "backoff", "done"}]
        /\ loop' \in [Engine -> {"none", "asleep", "ticking", "executing", "off"}]
    BY <1>3 DEF Restart
  <2>5. 0 \in 0 .. MaxTime /\ 0 \in 0 .. MaxEngines /\ 0 \in 0 .. MaxAttempts
    BY NumbersAssumption
  <2>6. QED
    BY <1>3, <2>1, <2>2, <2>3, <2>4, <2>5 DEF Restart, TypeOK, editVars
<1>4. QED
  BY <1>1, <1>2, <1>3 DEF SwitchStep

LEMMA TypeStep == TypeOK /\ RunsAreWhole /\ [Next]_vars => TypeOK'
<1> SUFFICES ASSUME TypeOK, RunsAreWhole, [Next]_vars
             PROVE  TypeOK'
  OBVIOUS
<1>1. CASE Elapse
  BY <1>1, NumbersAssumption
  DEF Elapse, TypeOK, tickVars, engineVars, runVars, switchVars, editVars
<1>2. CASE UNCHANGED vars
  BY <1>2 DEF TypeOK, vars, tickVars, engineVars, runVars, switchVars, editVars
<1>3. QED
  BY <1>1, <1>2, TickType, LoopType, RunStepType, ManualType, RequestType, SwitchType DEF Next

-----------------------------------------------------------------------------
(* The shape of executions.                                                *)

LEMMA NextRunner == \A r \in Runner : AtWork(r)' <=> place'[r] \in {"turn", "backoff"}
BY DEF AtWork

(* Who leaves is not at work; nobody else is touched.                      *)
LEMMA LeaveFrame ==
  ASSUME TypeOK, NEW r \in Runner, Leave(r)
  PROVE  /\ ~ AtWork(r)'
         /\ \A q \in Runner : q # r =>
              /\ AtWork(q)' <=> AtWork(q)
              /\ by'[q] = by[q] /\ task'[q] = task[q] /\ copy'[q] = copy[q]
              /\ attempt'[q] = attempt[q] /\ place'[q] = place[q]
BY DEF TypeOK, Leave, Forget, AtWork

(* Who starts is at work for e on t.                                       *)
LEMMA StartFrame ==
  ASSUME TypeOK, NEW r \in Runner, NEW e \in Engine, NEW t \in Task, NEW rec \in Record,
         Start(r, e, t, rec)
  PROVE  /\ AtWork(r)' /\ place'[r] = "turn" /\ by'[r] = e /\ task'[r] = t
         /\ attempt'[r] = 1
         /\ copy'[r] \in Record /\ copy'[r].rev = rec.rev /\ copy'[r].next = rec.next
         /\ copy'[r].config = rec.config
         /\ \A q \in Runner : q # r =>
              /\ AtWork(q)' <=> AtWork(q)
              /\ by'[q] = by[q] /\ task'[q] = task[q] /\ copy'[q] = copy[q]
              /\ attempt'[q] = attempt[q] /\ place'[q] = place[q]
<1>1. [rec EXCEPT !.status = "running"] \in Record
  BY DEF Record, Status
<1>2. QED
  BY <1>1 DEF TypeOK, Start, AtWork, Record

RunnersWhole ==
  \A r \in Runner : AtWork(r) =>
    /\ by[r] \in 1 .. engines /\ task[r] \in Task /\ copy[r] \in Record
    /\ attempt[r] > 0
    /\ place[r] = "backoff" => attempt[r] < MaxAttempts

InstalledWhole == current \in 1 .. engines /\ origin \in 1 .. engines

EngineWhole(e) ==
  /\ AtWork(e) <=> loop[e] = "executing"
  /\ AtWork(e) => by[e] = e /\ copy[e].next <= now
  /\ tickTime[e] <= now
  /\ e \in flagged => loop[e] \in {"asleep", "executing"} /\ e \in stopped
  /\ e > engines => loop[e] = "none" /\ e \notin stopped /\ waits[e] = 0
  /\ waits[e] # 0 => loop[e] = "none"
  /\ \A t \in Task : snapshot[e][t] # Absent => loop[e] \in {"ticking", "executing"}

LEMMA WholeParts ==
  /\ RunsAreWhole => InstalledWhole /\ RunnersWhole /\ \A e \in Engine : EngineWhole(e)
  /\ InstalledWhole' /\ RunnersWhole' /\ (\A e \in Engine : EngineWhole(e)') => RunsAreWhole'
<1>1. RunsAreWhole => InstalledWhole /\ RunnersWhole /\ \A e \in Engine : EngineWhole(e)
  BY DEF RunsAreWhole, InstalledWhole, RunnersWhole, EngineWhole
<1>2. InstalledWhole' /\ RunnersWhole' /\ (\A e \in Engine : EngineWhole(e)') => RunsAreWhole'
  BY DEF RunsAreWhole, InstalledWhole, RunnersWhole, EngineWhole
<1>3. QED
  BY <1>1, <1>2

LEMMA LeaveWhole ==
  ASSUME TypeOK, RunnersWhole, NEW r \in Runner, Leave(r), UNCHANGED engines
  PROVE  RunnersWhole'
<1> SUFFICES ASSUME NEW q \in Runner, AtWork(q)'
             PROVE  /\ by'[q] \in 1 .. engines' /\ task'[q] \in Task /\ copy'[q] \in Record
                    /\ attempt'[q] > 0
                    /\ place'[q] = "backoff" => attempt'[q] < MaxAttempts
  BY DEF RunnersWhole
<1>1. q # r
  BY LeaveFrame
<1>2. QED
  BY <1>1, LeaveFrame DEF RunnersWhole

LEMMA StartWhole ==
  ASSUME TypeOK, RunnersWhole, NEW r \in Runner, NEW e \in Engine, NEW t \in Task,
         NEW rec \in Record, Start(r, e, t, rec), e <= engines, UNCHANGED engines
  PROVE  RunnersWhole'
<1> SUFFICES ASSUME NEW q \in Runner, AtWork(q)'
             PROVE  /\ by'[q] \in 1 .. engines' /\ task'[q] \in Task /\ copy'[q] \in Record
                    /\ attempt'[q] > 0
                    /\ place'[q] = "backoff" => attempt'[q] < MaxAttempts
  BY DEF RunnersWhole
<1>1. CASE q = r
  <2>1. e \in 1 .. engines'
    BY NumbersAssumption DEF Engine, TypeOK
  <2>2. QED
    BY <1>1, <2>1, StartFrame
<1>2. CASE q # r
  BY <1>2, StartFrame DEF RunnersWhole
<1>3. QED
  BY <1>1, <1>2

(* Nothing about the runner changes, the set of engines may grow.          *)
LEMMA StillWhole ==
  ASSUME TypeOK, RunnersWhole, UNCHANGED runVars, engines' \in Engine, engines' >= engines
  PROVE  RunnersWhole'
BY DEF TypeOK, RunnersWhole, AtWork, runVars, Engine

LEMMA TickWhole ==
  ASSUME TypeOK, RunsAreWhole, NEW e \in Engine, TickStep(e)
  PROVE  RunsAreWhole'
<1> USE Runners
<1>1. ASSUME NEW t \in Task, TickPasses(e, t)
      PROVE  RunsAreWhole'
  BY <1>1 DEF TickPasses, RunsAreWhole, TypeOK, AtWork, engineVars, runVars, switchVars
<1>2. ASSUME NEW t \in Task, TickTriggers(e, t)
      PROVE  RunsAreWhole'
  <2>1. /\ snapshot[e][t] \in Record /\ Normalize(snapshot[e][t]) \in Record
        /\ Normalize(snapshot[e][t]).next <= now
    BY <1>2, TriggeredType
  <2>2. CASE Skip(e, e, t, Normalize(snapshot[e][t])) /\ UNCHANGED loop
    <3>1. UNCHANGED <<engineVars, runVars>>
      BY <2>1, <2>2, SkipType
    <3>2. QED
      BY <1>2, <2>2, <3>1 DEF TickTriggers, RunsAreWhole, TypeOK, AtWork, runVars, switchVars
  <2>3. CASE Start(e, e, t, Normalize(snapshot[e][t])) /\ loop' = [loop EXCEPT ![e] = "executing"]
    <3>1. e <= engines /\ loop[e] = "ticking" /\ e \notin flagged /\ waits[e] = 0
      <4>1. loop[e] = "ticking" /\ EngineWhole(e)
        BY <1>2, WholeParts DEF TickTriggers
      <4>2. e \in Nat /\ engines \in Nat
        BY DEF TypeOK
      <4>3. QED
        BY <4>1, <4>2 DEF EngineWhole
    <3>2. \A q \in Engine, u \in Task : snapshot'[q][u] # Absent => snapshot[q][u] # Absent
      BY <1>2 DEF TickTriggers, TypeOK
    <3>3. RunnersWhole'
      BY <1>2, <2>1, <2>3, <3>1, StartWhole, WholeParts DEF TickTriggers, switchVars
    <3>4. EngineWhole(e)'
      <4>1. AtWork(e)' /\ by'[e] = e /\ copy'[e].next <= now
        BY <2>1, <2>3, StartFrame
      <4>2. loop'[e] = "executing" /\ tickTime'[e] <= now'
        BY <1>2, <2>3 DEF TickTriggers, TypeOK, RunsAreWhole
      <4>3. e \notin flagged' /\ waits'[e] = 0 /\ engines' = engines /\ now' = now
        BY <1>2, <3>1 DEF TickTriggers, switchVars
      <4>4. ~ (e > engines')
        BY <3>1, <4>3 DEF TypeOK
      <4>5. QED
        BY <4>1, <4>2, <4>3, <4>4 DEF EngineWhole
    <3>5. ASSUME NEW d \in Engine, d # e
          PROVE  EngineWhole(d)'
      <4>1. /\ AtWork(d)' <=> AtWork(d)
            /\ by'[d] = by[d] /\ copy'[d] = copy[d]
        BY <2>1, <2>3, <3>5, StartFrame
      <4>2. loop'[d] = loop[d] /\ tickTime' = tickTime /\ now' = now
            /\ flagged' = flagged /\ engines' = engines /\ stopped' = stopped
            /\ waits' = waits
        BY <1>2, <2>3, <3>5 DEF TickTriggers, TypeOK, switchVars
      <4>3. QED
        BY <3>2, <4>1, <4>2 DEF EngineWhole, RunsAreWhole
    <3>6. QED
      BY <1>2, <3>3, <3>4, <3>5, WholeParts DEF TickTriggers, InstalledWhole, switchVars
  <2>4. QED
    BY <1>2, <2>2, <2>3 DEF TickTriggers
<1>3. CASE TickEnds(e)
  <2>1. /\ UNCHANGED <<now, snapshot, runVars, switchVars>> /\ loop[e] = "ticking"
        /\ \A t \in Task : snapshot[e][t] = Absent
    BY <1>3 DEF TickEnds
  <2>2. loop' = [loop EXCEPT ![e] = "asleep"] /\ tickTime' = [tickTime EXCEPT ![e] = 0]
    BY <1>3 DEF TickEnds
  <2>3. now \in Nat /\ loop \in [Engine -> {"none", "asleep", "ticking", "executing", "off"}]
        /\ tickTime \in [Engine -> 0 .. MaxTime]
    BY DEF TypeOK
  <2>4. ASSUME NEW d \in Engine
        PROVE  EngineWhole(d)'
    <3>1. EngineWhole(d) /\ EngineWhole(e)
      BY WholeParts
    <3>2. (AtWork(d)' <=> AtWork(d)) /\ by' = by /\ copy' = copy
      BY <2>1 DEF AtWork, runVars
    <3>3. CASE d = e
      <4>1. loop'[d] = "asleep" /\ tickTime'[d] = 0
        BY <2>2, <2>3, <3>3
      <4>2. QED
        BY <2>1, <2>3, <3>1, <3>2, <3>3, <4>1 DEF EngineWhole, switchVars
    <3>4. CASE d # e
      <4>1. loop'[d] = loop[d] /\ tickTime'[d] = tickTime[d]
        BY <2>2, <2>3, <3>4
      <4>2. QED
        BY <2>1, <3>1, <3>2, <4>1 DEF EngineWhole, switchVars
    <3>5. QED
      BY <3>3, <3>4
  <2>5. InstalledWhole' /\ RunnersWhole'
    BY <2>1, WholeParts DEF InstalledWhole, RunnersWhole, AtWork, runVars, switchVars
  <2>6. QED
    BY <2>4, <2>5, WholeParts
<1>4. QED
  BY <1>1, <1>2, <1>3 DEF TickStep

LEMMA LoopWhole ==
  ASSUME TypeOK, RunsAreWhole, NEW e \in Engine, LoopStep(e)
  PROVE  RunsAreWhole'
<1> USE Runners
<1>1. CASE TickBegins(e)
  <2>1. InstalledWhole' /\ RunnersWhole'
    BY <1>1, WholeParts DEF TickBegins, InstalledWhole, RunnersWhole, AtWork, runVars, switchVars
  <2>2. ASSUME NEW d \in Engine
        PROVE  EngineWhole(d)'
    <3>1. EngineWhole(d) /\ EngineWhole(e)
      BY WholeParts
    <3>2. /\ AtWork(d)' <=> AtWork(d)
          /\ by' = by /\ copy' = copy /\ now' = now
          /\ flagged' = flagged /\ engines' = engines /\ stopped' = stopped /\ waits' = waits
      BY <1>1 DEF TickBegins, AtWork, runVars, switchVars
    <3>3. CASE d = e
      <4>1. /\ loop[e] = "asleep" /\ e \notin flagged /\ loop'[e] = "ticking"
            /\ tickTime'[e] = now /\ now \in Nat
        BY <1>1 DEF TickBegins, TypeOK
      <4>2. QED
        BY <3>1, <3>2, <3>3, <4>1 DEF EngineWhole
    <3>4. CASE d # e
      <4>1. loop'[d] = loop[d] /\ snapshot'[d] = snapshot[d] /\ tickTime'[d] = tickTime[d]
        BY <1>1, <3>4 DEF TickBegins, TypeOK
      <4>2. QED
        BY <3>1, <3>2, <4>1 DEF EngineWhole
    <3>5. QED
      BY <3>3, <3>4
  <2>3. QED
    BY <2>1, <2>2, WholeParts
<1>2. CASE LoopEnds(e)
  <2>1. /\ ~ AtWork(e)'
        /\ \A d \in Engine : d # e =>
             /\ AtWork(d)' <=> AtWork(d)
             /\ by'[d] = by[d] /\ copy'[d] = copy[d]
    <3>1. CASE loop[e] = "asleep" /\ UNCHANGED <<engineVars, runVars, cutOff>>
      BY <3>1 DEF RunsAreWhole, AtWork, runVars
    <3>2. CASE CutOff(e)
      BY <3>2, LeaveFrame DEF CutOff
    <3>3. QED
      BY <1>2, <3>1, <3>2 DEF LoopEnds
  <2>2. RunnersWhole'
    <3>1. CASE UNCHANGED <<engineVars, runVars, cutOff>>
      <4>1. UNCHANGED runVars /\ engines' = engines
        BY <1>2, <3>1 DEF LoopEnds
      <4>2. engines' \in Engine /\ engines' >= engines
        BY <4>1 DEF TypeOK, Engine
      <4>3. QED
        BY <4>1, <4>2, StillWhole, WholeParts
    <3>2. CASE CutOff(e)
      BY <1>2, <3>2, LeaveWhole, WholeParts DEF LoopEnds, CutOff
    <3>3. QED
      BY <1>2, <3>1, <3>2 DEF LoopEnds
  <2>3. /\ loop'[e] = "off" /\ e \notin flagged' /\ tickTime'[e] = 0
        /\ \A t \in Task : snapshot'[e][t] = Absent
        /\ now' = now /\ engines' = engines /\ stopped' = stopped /\ waits' = waits
        /\ \A d \in Engine : d # e =>
             /\ loop'[d] = loop[d] /\ (d \in flagged' <=> d \in flagged)
             /\ tickTime'[d] = tickTime[d] /\ snapshot'[d] = snapshot[d]
    BY <1>2 DEF LoopEnds, TypeOK
  <2>4. e <= engines /\ waits[e] = 0
    <3>1. loop[e] \in {"asleep", "executing"} /\ EngineWhole(e) /\ e \in Nat /\ engines \in Nat
      BY <1>2, WholeParts DEF LoopEnds, TypeOK
    <3>2. QED
      BY <3>1 DEF EngineWhole
  <2>5. EngineWhole(e)'
    <3>1. now \in Nat /\ e \in Nat /\ engines \in Nat
      BY DEF TypeOK
    <3>2. ~ (e > engines') /\ tickTime'[e] <= now'
      BY <2>3, <2>4, <3>1
    <3>3. QED
      BY <2>1, <2>3, <2>4, <3>2 DEF EngineWhole
  <2>6. ASSUME NEW d \in Engine, d # e
        PROVE  EngineWhole(d)'
    <3>1. EngineWhole(d)
      BY WholeParts
    <3>2. QED
      BY <2>1, <2>3, <2>6, <3>1 DEF EngineWhole
  <2>7. QED
    BY <1>2, <2>2, <2>5, <2>6, WholeParts DEF LoopEnds, InstalledWhole
<1>3. CASE CancelDropped(e)
  BY <1>3 DEF CancelDropped, RunsAreWhole, TypeOK, AtWork, tickVars, runVars
<1>4. QED
  BY <1>1, <1>2, <1>3 DEF LoopStep

LEMMA RunStepWhole ==
  ASSUME TypeOK, RunsAreWhole, NEW r \in Runner, RunStep(r)
  PROVE  RunsAreWhole'
<1> USE Runners
<1>1. CASE BackOff(r)
  BY <1>1 DEF BackOff, RunsAreWhole, TypeOK, AtWork, tickVars, switchVars
<1>2. CASE Retry(r)
  BY <1>2 DEF Retry, RunsAreWhole, TypeOK, AtWork, tickVars, switchVars
<1>3. CASE Complete(r)
  <2>1. /\ ~ AtWork(r)'
        /\ \A q \in Runner : q # r =>
             /\ AtWork(q)' <=> AtWork(q)
             /\ by'[q] = by[q] /\ copy'[q] = copy[q]
    BY <1>3, LeaveFrame DEF Complete
  <2>2. RunnersWhole'
    BY <1>3, LeaveWhole, WholeParts DEF Complete, switchVars
  <2>3. ASSUME NEW d \in Engine
        PROVE  EngineWhole(d)'
    <3>1. EngineWhole(d)
      BY WholeParts
    <3>2. /\ now' = now /\ engines' = engines /\ stopped' = stopped /\ flagged' = flagged
          /\ waits' = waits /\ snapshot' = snapshot /\ tickTime' = tickTime
      BY <1>3 DEF Complete, switchVars
    <3>3. CASE d = r
      <4>1. loop[d] = "executing" /\ loop'[d] = "ticking" /\ d \notin flagged
        BY <1>3, <3>1, <3>3 DEF Complete, TypeOK, AtWork, EngineWhole
      <4>2. QED
        BY <2>1, <3>1, <3>2, <3>3, <4>1 DEF EngineWhole
    <3>4. CASE d # r
      <4>1. loop'[d] = loop[d]
        BY <1>3, <3>4 DEF Complete, TypeOK
      <4>2. QED
        BY <2>1, <3>1, <3>2, <3>4, <4>1 DEF EngineWhole
    <3>5. QED
      BY <3>3, <3>4
  <2>4. QED
    BY <1>3, <2>2, <2>3, WholeParts DEF Complete, InstalledWhole, switchVars
<1>4. QED
  BY <1>1, <1>2, <1>3 DEF RunStep

(* A manual run touches no loop.                                           *)
LEMMA SameEngines ==
  ASSUME RunsAreWhole, NEW m \in Manual, UNCHANGED <<now, tickVars, switchVars>>,
         \A q \in Runner : q # m =>
           /\ AtWork(q)' <=> AtWork(q)
           /\ by'[q] = by[q] /\ copy'[q] = copy[q]
  PROVE  \A d \in Engine : EngineWhole(d)'
<1> SUFFICES ASSUME NEW d \in Engine
             PROVE  EngineWhole(d)'
  OBVIOUS
<1>1. /\ AtWork(d)' <=> AtWork(d)
      /\ by'[d] = by[d] /\ copy'[d] = copy[d]
  BY Runners
<1>2. QED
  BY <1>1, WholeParts DEF EngineWhole, tickVars, switchVars

LEMMA ManualWhole ==
  ASSUME TypeOK, RunsAreWhole, NEW m \in Manual, ManualStep(m)
  PROVE  RunsAreWhole'
<1> USE Runners
<1>1. ASSUME NEW t \in Task, RunNow(m, t)
      PROVE  RunsAreWhole'
  <2>1. Normalize(store[t]) \in Record
    BY <1>1, NormalizeType DEF RunNow, Exists, TypeOK
  <2>2. PICK e \in {current, origin} :
          Skip(m, e, t, Normalize(store[t])) \/ Start(m, e, t, Normalize(store[t]))
    BY <1>1 DEF RunNow
  <2>3. e \in Engine
    BY <2>2 DEF TypeOK
  <2>4. CASE Skip(m, e, t, Normalize(store[t]))
    <3>1. UNCHANGED <<engineVars, runVars>>
      BY <2>1, <2>3, <2>4, SkipType
    <3>2. QED
      BY <1>1, <3>1 DEF RunNow, RunsAreWhole, AtWork, tickVars, runVars, switchVars
  <2>5. CASE Start(m, e, t, Normalize(store[t]))
    <3>1. RunnersWhole'
      <4>1. e <= engines /\ UNCHANGED engines
        BY <1>1, <2>2, WholeParts DEF RunNow, InstalledWhole, switchVars, TypeOK
      <4>2. QED
        BY <2>1, <2>3, <2>5, <4>1, StartWhole, WholeParts
    <3>2. \A d \in Engine : EngineWhole(d)'
      <4>1. \A q \in Runner : q # m =>
              /\ AtWork(q)' <=> AtWork(q)
              /\ by'[q] = by[q] /\ copy'[q] = copy[q]
        BY <2>1, <2>3, <2>5, StartFrame
      <4>2. UNCHANGED <<now, tickVars, switchVars>>
        BY <1>1 DEF RunNow
      <4>3. QED
        BY <4>1, <4>2, SameEngines
    <3>3. QED
      BY <1>1, <3>1, <3>2, WholeParts DEF RunNow, InstalledWhole, switchVars
  <2>6. QED
    BY <2>2, <2>4, <2>5
<1>2. CASE ManualCancelled(m)
  <2>1. RunnersWhole'
    BY <1>2, LeaveWhole, WholeParts DEF ManualCancelled, CutOff, switchVars
  <2>2. \A d \in Engine : EngineWhole(d)'
    BY <1>2, LeaveFrame, SameEngines DEF ManualCancelled, CutOff
  <2>3. QED
    BY <1>2, <2>1, <2>2, WholeParts DEF ManualCancelled, InstalledWhole, switchVars
<1>3. QED
  BY <1>1, <1>2 DEF ManualStep
(* Requests touch no execution.                                            *)
LEMMA RequestWhole ==
  ASSUME TypeOK, RunsAreWhole, RequestStep
  PROVE  RunsAreWhole'
<1>1. UNCHANGED <<now, tickVars, runVars, switchVars>>
  BY RequestFrame
<1>2. QED
  BY <1>1 DEF RunsAreWhole, AtWork, tickVars, runVars, switchVars

LEMMA SwitchWhole ==
  ASSUME TypeOK, RunsAreWhole, ~ Ticking, SwitchStep
  PROVE  RunsAreWhole'
<1> USE Runners
<1>0. engines \in Nat /\ engines >= 1 /\ now \in Nat
  BY NumbersAssumption DEF TypeOK, Engine
<1>1. CASE ReloadBegins
  <2>1. engines' = engines + 1 /\ engines' \in Engine
    BY <1>0, <1>1, NumbersAssumption DEF ReloadBegins, Engine
  <2>2. InstalledWhole' /\ RunnersWhole'
    BY <1>0, <1>1, <2>1, StillWhole, WholeParts DEF ReloadBegins, InstalledWhole
  <2>3. ASSUME NEW d \in Engine
        PROVE  EngineWhole(d)'
    <3>1. EngineWhole(d)
      BY WholeParts
    <3>2. /\ AtWork(d)' <=> AtWork(d)
          /\ by' = by /\ copy' = copy /\ now' = now
          /\ loop' = loop /\ snapshot' = snapshot /\ tickTime' = tickTime
      BY <1>1 DEF ReloadBegins, AtWork, runVars, tickVars
    <3>3. d \in flagged' => loop'[d] \in {"asleep", "executing"} /\ d \in stopped'
      <4>1. d \in flagged' => d \in flagged \/ (d = current /\ d \in Loops)
        BY <1>1 DEF ReloadBegins
      <4>2. d \in stopped' <=> (d \in stopped \/ d = current)
        BY <1>1 DEF ReloadBegins
      <4>3. d \in Loops => loop[d] \in {"asleep", "executing"}
        BY DEF Loops, Ticking
      <4>4. QED
        BY <3>1, <3>2, <4>1, <4>2, <4>3 DEF EngineWhole
    <3>4. current <= engines /\ current \in Nat /\ d \in Nat
      BY <1>0, WholeParts DEF InstalledWhole
    <3>5. d > engines' => /\ d > engines /\ d # current /\ d # engines + 1
      BY <1>0, <2>1, <3>4
    <3>6. d > engines' => loop'[d] = "none" /\ d \notin stopped' /\ waits'[d] = 0
      BY <1>1, <3>1, <3>2, <3>5 DEF ReloadBegins, EngineWhole, TypeOK
    <3>7. waits'[d] # 0 => loop'[d] = "none"
      <4>1. CASE d = engines + 1
        BY <1>0, <3>1, <3>2, <4>1 DEF EngineWhole
      <4>2. CASE d # engines + 1
        BY <1>1, <3>1, <3>2, <4>2 DEF EngineWhole, ReloadBegins, TypeOK
      <4>3. QED
        BY <4>1, <4>2
    <3>8. QED
      BY <3>1, <3>2, <3>3, <3>6, <3>7 DEF EngineWhole
  <2>4. QED
    BY <2>2, <2>3, WholeParts
<1>2. ASSUME NEW n \in Engine, ReloadEnds(n)
      PROVE  RunsAreWhole'
  <2>1. n <= engines /\ n \in Nat
    BY <1>0, <1>2, WholeParts DEF ReloadEnds, EngineWhole
  <2>2. InstalledWhole' /\ RunnersWhole'
    BY <1>0, <1>2, <2>1, WholeParts DEF ReloadEnds, InstalledWhole, RunnersWhole, AtWork, runVars, Engine
  <2>3. ASSUME NEW d \in Engine
        PROVE  EngineWhole(d)'
    <3>1. EngineWhole(d)
      BY WholeParts
    <3>2. /\ AtWork(d)' <=> AtWork(d)
          /\ by' = by /\ copy' = copy /\ now' = now /\ engines' = engines
          /\ snapshot' = snapshot /\ tickTime' = tickTime /\ flagged' = flagged
          /\ stopped' = stopped
      BY <1>2 DEF ReloadEnds, AtWork, runVars
    <3>3. CASE d = n
      <4>1. waits[d] # 0 /\ waits'[d] = 0 /\ loop'[d] = "asleep" /\ ~ (d > engines)
        BY <1>0, <1>2, <2>1, <3>3 DEF ReloadEnds, TypeOK
      <4>2. QED
        BY <3>1, <3>2, <4>1 DEF EngineWhole
    <3>4. CASE d # n
      <4>1. waits'[d] = waits[d] /\ loop'[d] = loop[d]
        BY <1>2, <3>4 DEF ReloadEnds, TypeOK
      <4>2. QED
        BY <3>1, <3>2, <4>1 DEF EngineWhole
    <3>5. QED
      BY <3>3, <3>4
  <2>4. QED
    BY <2>2, <2>3, WholeParts
<1>3. ASSUME NEW n \in Engine, ReloadAborts(n)
      PROVE  RunsAreWhole'
  <2>1. /\ UNCHANGED <<now, tickVars, runVars, stopped, flagged, engines, current, origin>>
        /\ \A d \in Engine : waits'[d] = waits[d] \/ waits'[d] = 0
    BY <1>3 DEF ReloadAborts, TypeOK
  <2>2. QED
    BY <2>1 DEF RunsAreWhole, AtWork, tickVars, runVars
<1>4. CASE Restart
  <2>1. engines' = engines + 1 /\ current' = engines' /\ origin' = engines'
    BY <1>4 DEF Restart
  <2>2. InstalledWhole'
    BY <1>0, <2>1 DEF InstalledWhole
  <2>3. \A r \in Runner : ~ AtWork(r)'
    BY <1>4 DEF Restart, AtWork
  <2>4. ASSUME NEW d \in Engine
        PROVE  EngineWhole(d)'
    <3>1. d \in Nat /\ now' = now
      BY <1>4 DEF Restart
    <3>2. QED
      BY <1>0, <1>4, <2>1, <2>3, <3>1 DEF EngineWhole, Restart
  <2>5. QED
    BY <2>2, <2>3, <2>4, WholeParts DEF RunnersWhole
<1>5. QED
  BY <1>1, <1>2, <1>3, <1>4 DEF SwitchStep

LEMMA WholeStep == TypeOK /\ RunsAreWhole /\ [Next]_vars => RunsAreWhole'
<1> SUFFICES ASSUME TypeOK, RunsAreWhole, [Next]_vars
             PROVE  RunsAreWhole'
  OBVIOUS
<1>1. CASE Elapse
  <2>1. \A e \in Engine : copy[e] \in Record => copy[e].next \in Nat
    BY DEF Record
  <2>2. QED
    BY <1>1, <2>1, Runners DEF Elapse, RunsAreWhole, AtWork, tickVars, runVars, switchVars, TypeOK
<1>2. CASE UNCHANGED vars
  BY <1>2 DEF RunsAreWhole, AtWork, vars, tickVars, runVars, switchVars
<1>3. QED
  BY <1>1, <1>2, TickWhole, LoopWhole, RunStepWhole, ManualWhole, RequestWhole, SwitchWhole DEF Next
-----------------------------------------------------------------------------
(* The sets an engine looks into are exact, so the executions of an engine *)
(* are of different tasks and sessions.                                    *)
Exact == ActiveIsExact /\ OneExecution

(* Nobody begins, nobody ends: the sets stay, too.                         *)
LEMMA SameExact ==
  ASSUME Exact, UNCHANGED engineVars,
         \A r \in Runner :
           /\ AtWork(r)' <=> AtWork(r)
           /\ by'[r] = by[r] /\ task'[r] = task[r] /\ copy'[r] = copy[r]
  PROVE  Exact'
<1>1. OneExecution'
  BY DEF Exact, OneExecution
<1>2. ASSUME NEW e \in Engine
      PROVE  {r \in Runner : AtWork(r)' /\ by'[r] = e} = {r \in Runner : AtWork(r) /\ by[r] = e}
  OBVIOUS
<1>3. ASSUME NEW e \in Engine
      PROVE  /\ active'[e] = {task'[r] : r \in {q \in Runner : AtWork(q)' /\ by'[q] = e}}
             /\ sessions'[e] = {Session[copy'[r].config] :
                                  r \in {q \in Runner : AtWork(q)' /\ by'[q] = e}} \ {Unbound}
  BY <1>2 DEF Exact, ActiveIsExact, engineVars
<1>4. QED
  BY <1>1, <1>3 DEF Exact, ActiveIsExact

LEMMA StartExact ==
  ASSUME TypeOK, Exact, NEW r \in Runner, NEW e \in Engine, NEW t \in Task, NEW rec \in Record,
         ~ AtWork(r), Start(r, e, t, rec)
  PROVE  Exact'
<1>1. /\ AtWork(r)' /\ by'[r] = e /\ task'[r] = t /\ copy'[r].config = rec.config
      /\ \A q \in Runner : q # r =>
           /\ AtWork(q)' <=> AtWork(q)
           /\ by'[q] = by[q] /\ task'[q] = task[q] /\ copy'[q] = copy[q]
  BY StartFrame
<1>2. /\ t \notin active[e] /\ Session[rec.config] \notin sessions[e]
      /\ active'[e] = active[e] \cup {t}
      /\ sessions'[e] = (sessions[e] \cup {Session[rec.config]}) \ {Unbound}
      /\ \A d \in Engine : d # e => active'[d] = active[d] /\ sessions'[d] = sessions[d]
  BY DEF Start, TypeOK
<1>3. ASSUME NEW q \in Runner, AtWork(q), by[q] = e
      PROVE  /\ task[q] # t
             /\ Session[copy[q].config] = Unbound \/ Session[copy[q].config] # Session[rec.config]
  BY <1>2, <1>3 DEF Exact, ActiveIsExact
<1>4. OneExecution'
  <2>1. SUFFICES ASSUME NEW p \in Runner, NEW q \in Runner,
                        AtWork(p)', AtWork(q)', p # q, by'[p] = by'[q]
                 PROVE  /\ task'[p] # task'[q]
                        /\ \/ Session[copy'[p].config] = Unbound
                           \/ Session[copy'[p].config] # Session[copy'[q].config]
    BY DEF OneExecution
  <2>2. CASE p = r
    BY <1>1, <1>3, <2>1, <2>2
  <2>3. CASE q = r
    BY <1>1, <1>3, <2>1, <2>3
  <2>4. CASE p # r /\ q # r
    BY <1>1, <2>1, <2>4 DEF Exact, OneExecution
  <2>5. QED
    BY <2>2, <2>3, <2>4
<1>5. ASSUME NEW d \in Engine
      PROVE  /\ active'[d] = {task'[q] : q \in {p \in Runner : AtWork(p)' /\ by'[p] = d}}
             /\ sessions'[d] = {Session[copy'[q].config] :
                                  q \in {p \in Runner : AtWork(p)' /\ by'[p] = d}} \ {Unbound}
  <2>1. CASE d = e
    <3>1. {p \in Runner : AtWork(p)' /\ by'[p] = e} = {p \in Runner : AtWork(p) /\ by[p] = e} \cup {r}
      BY <1>1
    <3>2. active[e] = {task[q] : q \in {p \in Runner : AtWork(p) /\ by[p] = e}}
      BY DEF Exact, ActiveIsExact
    <3>3. sessions[e] = {Session[copy[q].config] :
                           q \in {p \in Runner : AtWork(p) /\ by[p] = e}} \ {Unbound}
      BY DEF Exact, ActiveIsExact
    <3>4. \A q \in {p \in Runner : AtWork(p) /\ by[p] = e} :
            task'[q] = task[q] /\ copy'[q] = copy[q] /\ q # r
      BY <1>1
    <3>5. {task'[q] : q \in {p \in Runner : AtWork(p) /\ by[p] = e} \cup {r}} = active[e] \cup {t}
      BY <1>1, <3>2, <3>4
    <3>6. {Session[copy'[q].config] : q \in {p \in Runner : AtWork(p) /\ by[p] = e} \cup {r}} \ {Unbound}
            = (sessions[e] \cup {Session[rec.config]}) \ {Unbound}
      BY <1>1, <3>3, <3>4
    <3>7. QED
      BY <1>2, <2>1, <3>1, <3>5, <3>6
  <2>2. CASE d # e
    <3>1. {p \in Runner : AtWork(p)' /\ by'[p] = d} = {p \in Runner : AtWork(p) /\ by[p] = d}
      BY <1>1, <2>2
    <3>2. \A q \in {p \in Runner : AtWork(p) /\ by[p] = d} :
            task'[q] = task[q] /\ copy'[q] = copy[q]
      BY <1>1
    <3>3. QED
      BY <1>2, <2>2, <3>1, <3>2 DEF Exact, ActiveIsExact
  <2>3. QED
    BY <2>1, <2>2
<1>6. QED
  BY <1>4, <1>5 DEF Exact, ActiveIsExact

LEMMA LeaveExact ==
  ASSUME TypeOK, Exact, NEW r \in Runner, AtWork(r), by[r] \in Engine, Discard(r), Leave(r)
  PROVE  Exact'
<1> DEFINE e == by[r]
<1>1. /\ ~ AtWork(r)'
      /\ \A q \in Runner : q # r =>
           /\ AtWork(q)' <=> AtWork(q)
           /\ by'[q] = by[q] /\ task'[q] = task[q] /\ copy'[q] = copy[q]
  BY LeaveFrame
<1>2. /\ active'[e] = active[e] \ {task[r]}
      /\ sessions'[e] = sessions[e] \ {Session[copy[r].config]}
      /\ \A d \in Engine : d # e => active'[d] = active[d] /\ sessions'[d] = sessions[d]
  BY DEF Discard, TypeOK
<1>3. ASSUME NEW q \in Runner, AtWork(q), by[q] = e, q # r
      PROVE  /\ task[q] # task[r]
             /\ Session[copy[q].config] = Unbound \/ Session[copy[q].config] # Session[copy[r].config]
  BY <1>3 DEF Exact, OneExecution
<1>4. OneExecution'
  BY <1>1 DEF Exact, OneExecution
<1>5. ASSUME NEW d \in Engine
      PROVE  /\ active'[d] = {task'[q] : q \in {p \in Runner : AtWork(p)' /\ by'[p] = d}}
             /\ sessions'[d] = {Session[copy'[q].config] :
                                  q \in {p \in Runner : AtWork(p)' /\ by'[p] = d}} \ {Unbound}
  <2>1. CASE d = e
    <3>1. {p \in Runner : AtWork(p)' /\ by'[p] = e} = {p \in Runner : AtWork(p) /\ by[p] = e} \ {r}
      BY <1>1
    <3>2. active[e] = {task[q] : q \in {p \in Runner : AtWork(p) /\ by[p] = e}}
      BY DEF Exact, ActiveIsExact
    <3>3. sessions[e] = {Session[copy[q].config] :
                           q \in {p \in Runner : AtWork(p) /\ by[p] = e}} \ {Unbound}
      BY DEF Exact, ActiveIsExact
    <3>4. \A q \in {p \in Runner : AtWork(p) /\ by[p] = e} \ {r} :
            /\ task'[q] = task[q] /\ copy'[q] = copy[q] /\ task[q] # task[r]
            /\ Session[copy[q].config] = Unbound \/ Session[copy[q].config] # Session[copy[r].config]
      BY <1>1, <1>3
    <3>5. {task'[q] : q \in {p \in Runner : AtWork(p) /\ by[p] = e} \ {r}} = active[e] \ {task[r]}
      BY <3>2, <3>4
    <3>6. {Session[copy'[q].config] : q \in {p \in Runner : AtWork(p) /\ by[p] = e} \ {r}} \ {Unbound}
            = sessions[e] \ {Session[copy[r].config]}
      BY <3>3, <3>4
    <3>7. QED
      BY <1>2, <2>1, <3>1, <3>5, <3>6
  <2>2. CASE d # e
    <3>1. {p \in Runner : AtWork(p)' /\ by'[p] = d} = {p \in Runner : AtWork(p) /\ by[p] = d}
      BY <1>1, <2>2
    <3>2. \A q \in {p \in Runner : AtWork(p) /\ by[p] = d} :
            task'[q] = task[q] /\ copy'[q] = copy[q]
      BY <1>1, <2>2
    <3>3. QED
      BY <1>2, <2>2, <3>1, <3>2 DEF Exact, ActiveIsExact
  <2>3. QED
    BY <2>1, <2>2
<1>6. QED
  BY <1>4, <1>5 DEF Exact, ActiveIsExact

LEMMA ExactStep == TypeOK /\ RunsAreWhole /\ Exact /\ [Next]_vars => Exact'
<1> SUFFICES ASSUME TypeOK, RunsAreWhole, Exact, [Next]_vars
             PROVE  Exact'
  OBVIOUS
<1> USE Runners
<1>1. ASSUME NEW r \in Runner, AtWork(r)
      PROVE  by[r] \in Engine
  BY <1>1, NumbersAssumption DEF RunsAreWhole, TypeOK, Engine
<1>2. ASSUME UNCHANGED <<engineVars, runVars>>
      PROVE  Exact'
  BY <1>2, SameExact DEF runVars, AtWork
<1>3. ASSUME NEW e \in Engine, NEW t \in Task, TickTriggers(e, t)
      PROVE  Exact'
  <2>1. /\ snapshot[e][t] \in Record /\ Normalize(snapshot[e][t]) \in Record
        /\ Normalize(snapshot[e][t]).next <= now /\ ~ AtWork(e)
    BY <1>3, TriggeredType
  <2>2. CASE Skip(e, e, t, Normalize(snapshot[e][t]))
    BY <1>2, <2>2 DEF Skip
  <2>3. CASE Start(e, e, t, Normalize(snapshot[e][t]))
    BY <2>1, <2>3, StartExact
  <2>4. QED
    BY <1>3, <2>2, <2>3 DEF TickTriggers
<1>4. ASSUME NEW m \in Manual, NEW t \in Task, RunNow(m, t)
      PROVE  Exact'
  <2>1. Normalize(store[t]) \in Record /\ ~ AtWork(m)
    BY <1>4, NormalizeType DEF RunNow, Exists, TypeOK, AtWork
  <2>2. PICK e \in {current, origin} :
          Skip(m, e, t, Normalize(store[t])) \/ Start(m, e, t, Normalize(store[t]))
    BY <1>4 DEF RunNow
  <2>3. e \in Engine
    BY <2>2 DEF TypeOK
  <2>4. CASE Skip(m, e, t, Normalize(store[t]))
    BY <1>2, <2>4 DEF Skip
  <2>5. CASE Start(m, e, t, Normalize(store[t]))
    BY <2>1, <2>3, <2>5, StartExact
  <2>6. QED
    BY <2>2, <2>4, <2>5
<1>5. ASSUME NEW r \in Runner, CutOff(r)
      PROVE  Exact'
  BY <1>1, <1>5, LeaveExact DEF CutOff
<1>6. ASSUME NEW r \in Runner, RunStep(r)
      PROVE  Exact'
  <2>1. CASE BackOff(r)
    BY <2>1, SameExact DEF BackOff, AtWork, TypeOK
  <2>2. CASE Retry(r)
    BY <2>2, SameExact DEF Retry, AtWork, TypeOK
  <2>3. CASE Complete(r)
    <3>1. AtWork(r) /\ Discard(r) /\ Leave(r)
      BY <2>3 DEF Complete, AtWork
    <3>2. QED
      BY <1>1, <3>1, LeaveExact
  <2>4. QED
    BY <1>6, <2>1, <2>2, <2>3 DEF RunStep
<1>7. ASSUME NEW e \in Engine, TickStep(e)
      PROVE  Exact'
  BY <1>2, <1>3, <1>7 DEF TickStep, TickPasses, TickEnds
<1>8. ASSUME NEW e \in Engine, LoopStep(e)
      PROVE  Exact'
  BY <1>2, <1>5, <1>8 DEF LoopStep, TickBegins, LoopEnds, CancelDropped
<1>9. ASSUME NEW m \in Manual, ManualStep(m)
      PROVE  Exact'
  BY <1>4, <1>5, <1>9 DEF ManualStep, ManualCancelled
<1>10. CASE RequestStep
  BY <1>2, <1>10, RequestFrame
<1>11. CASE SwitchStep
  <2>1. CASE Restart
    <3>1. \A r \in Runner : ~ AtWork(r)'
      BY <2>1 DEF Restart, AtWork
    <3>2. \A e \in Engine : {r \in Runner : AtWork(r)' /\ by'[r] = e} = {}
      BY <3>1
    <3>3. \A e \in Engine : active'[e] = {} /\ sessions'[e] = {}
      BY <2>1 DEF Restart
    <3>4. QED
      BY <3>1, <3>2, <3>3 DEF Exact, ActiveIsExact, OneExecution
  <2>2. CASE ~ Restart
    BY <1>2, <1>11, <2>2 DEF SwitchStep, ReloadBegins, ReloadEnds, ReloadAborts
  <2>3. QED
    BY <2>1, <2>2
<1>12. CASE Elapse
  BY <1>2, <1>12 DEF Elapse
<1>13. CASE UNCHANGED vars
  BY <1>2, <1>13 DEF vars
<1>14. QED
  BY <1>6, <1>7, <1>8, <1>9, <1>10, <1>11, <1>12, <1>13 DEF Next
-----------------------------------------------------------------------------
(* The record is as the last request has left it, and so are the copies.   *)
Current == CopiesAreCurrent /\ EditSticks

(* rec of t is of the last request.                                        *)
Fresh(t, rec) == latest[t] > 0 /\ rec.rev = latest[t]

(* What is written is of the last request, or what was there before.       *)
LEMMA CurrentFrame ==
  ASSUME Current, UNCHANGED <<latest, touched>>,
         \A t \in Task \ touched :
           /\ store[t] # Absent => store'[t] # Absent
           /\ store'[t] # Absent =>
                (store[t] # Absent /\ store'[t].rev = store[t].rev) \/ Fresh(t, store'[t])
           /\ \A r \in Runner : AtWork(r)' /\ task'[r] = t =>
                (AtWork(r) /\ task[r] = t /\ copy'[r].rev = copy[r].rev) \/ Fresh(t, copy'[r])
           /\ \A e \in Engine : snapshot'[e][t] # Absent =>
                (snapshot[e][t] # Absent /\ snapshot'[e][t].rev = snapshot[e][t].rev)
                  \/ Fresh(t, snapshot'[e][t])
  PROVE  Current'
<1>1. CopiesAreCurrent'
  BY DEF Current, CopiesAreCurrent, Fresh
<1>2. EditSticks'
  BY DEF Current, EditSticks, Exists, Fresh
<1>3. QED
  BY <1>1, <1>2 DEF Current

(* An object of t is written over the record.                              *)
LEMMA WriteBack ==
  ASSUME TypeOK, Current, UNCHANGED <<latest, touched>>, NEW t \in Task, NEW rec \in Record,
         store' = [store EXCEPT ![t] = rec], t \notin touched => Fresh(t, rec),
         \A u \in Task \ touched :
           /\ \A r \in Runner : AtWork(r)' /\ task'[r] = u =>
                (AtWork(r) /\ task[r] = u /\ copy'[r].rev = copy[r].rev) \/ Fresh(u, copy'[r])
           /\ \A e \in Engine : snapshot'[e][u] # Absent =>
                snapshot[e][u] # Absent /\ snapshot'[e][u] = snapshot[e][u]
  PROVE  Current'
<1>1. ASSUME NEW u \in Task \ touched
      PROVE  /\ store[u] # Absent => store'[u] # Absent
             /\ store'[u] # Absent =>
                  (store[u] # Absent /\ store'[u].rev = store[u].rev) \/ Fresh(u, store'[u])
  <2>1. CASE u = t
    BY <2>1, CreatedAssumption DEF TypeOK
  <2>2. CASE u # t
    BY <2>2 DEF TypeOK
  <2>3. QED
    BY <2>1, <2>2
<1>2. QED
  BY <1>1, CurrentFrame

(* The schedule is refreshed, nobody gets a copy.                          *)
LEMMA RefreshedCurrent ==
  ASSUME TypeOK, Current, UNCHANGED <<latest, touched>>, store' = Refresh(store),
         \A r \in Runner : AtWork(r)' => AtWork(r) /\ task'[r] = task[r] /\ copy'[r] = copy[r],
         \A e \in Engine, t \in Task : snapshot'[e][t] # Absent => snapshot'[e][t] = snapshot[e][t]
  PROVE  Current'
<1>1. ASSUME NEW u \in Task \ touched
      PROVE  /\ store[u] # Absent => store'[u] # Absent
             /\ store'[u] # Absent => store[u] # Absent /\ store'[u].rev = store[u].rev
  BY RefreshType, CreatedAssumption DEF TypeOK
<1>2. QED
  BY <1>1, CurrentFrame

(* Nothing is written, nobody gets a copy.                                 *)
LEMMA SameCurrent ==
  ASSUME Current, UNCHANGED <<latest, touched, store>>,
         \A r \in Runner : AtWork(r)' => AtWork(r) /\ task'[r] = task[r] /\ copy'[r] = copy[r],
         \A e \in Engine, t \in Task : snapshot'[e][t] # Absent => snapshot'[e][t] = snapshot[e][t]
  PROVE  Current'
BY CurrentFrame

(* An object that is taken from the record or from a list is current.      *)
LEMMA CopyIsFresh ==
  ASSUME Current, NEW t \in Task \ touched
  PROVE  /\ Exists(t) => Fresh(t, store[t])
         /\ \A e \in Engine : snapshot[e][t] # Absent => Fresh(t, snapshot[e][t])
         /\ \A r \in Runner : AtWork(r) /\ task[r] = t => Fresh(t, copy[r])
BY DEF Current, CopiesAreCurrent, EditSticks, Exists, Fresh

LEMMA TickCurrent ==
  ASSUME TypeOK, RunsAreWhole, Current, NEW e \in Engine, TickStep(e)
  PROVE  Current'
<1> USE Runners
<1>1. ASSUME NEW t \in Task, TickPasses(e, t)
      PROVE  Current'
  <2>1. /\ snapshot[e][t] # Absent /\ UNCHANGED <<latest, touched, runVars>>
        /\ \A d \in Engine, u \in Task : snapshot'[d][u] # Absent => snapshot'[d][u] = snapshot[d][u]
    BY <1>1 DEF TickPasses, TypeOK, editVars
  <2>2. \A r \in Runner : AtWork(r)' => AtWork(r) /\ task'[r] = task[r] /\ copy'[r] = copy[r]
    BY <2>1 DEF AtWork, runVars
  <2>3. CASE UNCHANGED store
    BY <2>1, <2>2, <2>3, SameCurrent
  <2>4. CASE Upsert(t, Normalize(snapshot[e][t]))
    <3>1. Normalize(snapshot[e][t]) \in Record /\ Normalize(snapshot[e][t]).rev = snapshot[e][t].rev
      <4>1. snapshot[e][t] \in Record
        BY <2>1 DEF TypeOK
      <4>2. QED
        BY <4>1, NormalizeType
    <3>2. t \notin touched => Fresh(t, Normalize(snapshot[e][t]))
      BY <2>1, <3>1, CopyIsFresh DEF Fresh
    <3>3. QED
      BY <2>1, <2>2, <2>4, <3>1, <3>2, WriteBack DEF Upsert
  <2>5. QED
    BY <1>1, <2>3, <2>4 DEF TickPasses
<1>2. ASSUME NEW t \in Task, TickTriggers(e, t)
      PROVE  Current'
  <2> DEFINE rec == Normalize(snapshot[e][t])
  <2>1. /\ snapshot[e][t] # Absent /\ UNCHANGED <<latest, touched>>
        /\ \A d \in Engine, u \in Task : snapshot'[d][u] # Absent => snapshot'[d][u] = snapshot[d][u]
    BY <1>2 DEF TickTriggers, TypeOK, editVars
  <2>2. rec \in Record /\ rec.rev = snapshot[e][t].rev /\ rec.next <= now
    BY <1>2, TriggeredType
  <2>3. t \notin touched => Fresh(t, rec)
    BY <2>1, <2>2, CopyIsFresh DEF Fresh
  <2> HIDE DEF rec
  <2>4. CASE Skip(e, e, t, rec)
    <3>1. PICK fin \in Record : Upsert(t, fin) /\ fin.rev = rec.rev
      BY <2>2, <2>4, SkipType
    <3>2. \A r \in Runner : AtWork(r)' => AtWork(r) /\ task'[r] = task[r] /\ copy'[r] = copy[r]
      BY <2>4 DEF Skip, AtWork, runVars
    <3>3. QED
      BY <2>1, <2>3, <3>1, <3>2, WriteBack DEF Upsert, Fresh
  <2>5. CASE Start(e, e, t, rec)
    <3> DEFINE new == [rec EXCEPT !.status = "running"]
    <3>1. store' = [store EXCEPT ![t] = new]
      BY <2>5 DEF Start, Upsert
    <3>2. new \in Record /\ new.rev = rec.rev
      BY <2>2 DEF Record, Status
    <3> HIDE DEF new
    <3>3. ASSUME NEW u \in Task \ touched, NEW r \in Runner, AtWork(r)', task'[r] = u
          PROVE  (AtWork(r) /\ task[r] = u /\ copy'[r].rev = copy[r].rev) \/ Fresh(u, copy'[r])
      BY <2>2, <2>3, <2>5, <3>3, StartFrame DEF Fresh
    <3>4. QED
      BY <2>1, <2>3, <3>1, <3>2, <3>3, WriteBack DEF Fresh
  <2>6. QED
    BY <1>2, <2>4, <2>5 DEF TickTriggers, rec
<1>3. CASE TickEnds(e)
  BY <1>3, SameCurrent DEF TickEnds, AtWork, runVars, editVars
<1>4. QED
  BY <1>1, <1>2, <1>3 DEF TickStep

LEMMA LoopCurrent ==
  ASSUME TypeOK, RunsAreWhole, Current, NEW e \in Engine, LoopStep(e)
  PROVE  Current'
<1> USE Runners
<1>1. CASE TickBegins(e)
  <2>1. /\ UNCHANGED <<latest, touched, store, runVars>>
        /\ \A d \in Engine, t \in Task : snapshot'[d][t] = IF d = e THEN store[t] ELSE snapshot[d][t]
    BY <1>1 DEF TickBegins, TypeOK, editVars
  <2>2. \A r \in Runner : AtWork(r)' => AtWork(r) /\ task'[r] = task[r] /\ copy'[r] = copy[r]
    BY <2>1 DEF AtWork, runVars
  <2>3. ASSUME NEW t \in Task \ touched, NEW d \in Engine, snapshot'[d][t] # Absent
        PROVE  (snapshot[d][t] # Absent /\ snapshot'[d][t].rev = snapshot[d][t].rev)
                 \/ Fresh(t, snapshot'[d][t])
    BY <2>1, <2>3, CopyIsFresh DEF Exists
  <2>4. QED
    BY <2>1, <2>2, <2>3, CurrentFrame
<1>2. CASE LoopEnds(e)
  <2>1. /\ UNCHANGED <<latest, touched, store>>
        /\ \A d \in Engine, t \in Task : snapshot'[d][t] # Absent => snapshot'[d][t] = snapshot[d][t]
    BY <1>2 DEF LoopEnds, TypeOK, editVars
  <2>2. \A r \in Runner : AtWork(r)' => AtWork(r) /\ task'[r] = task[r] /\ copy'[r] = copy[r]
    <3>1. CASE CutOff(e)
      BY <3>1, LeaveFrame DEF CutOff
    <3>2. CASE UNCHANGED <<engineVars, runVars, cutOff>>
      BY <3>2 DEF AtWork, runVars
    <3>3. QED
      BY <1>2, <3>1, <3>2 DEF LoopEnds
  <2>3. QED
    BY <2>1, <2>2, SameCurrent
<1>3. CASE CancelDropped(e)
  BY <1>3, SameCurrent DEF CancelDropped, AtWork, runVars, editVars, tickVars
<1>4. QED
  BY <1>1, <1>2, <1>3 DEF LoopStep

LEMMA RunStepCurrent ==
  ASSUME TypeOK, RunsAreWhole, Current, NEW r \in Runner, RunStep(r)
  PROVE  Current'
<1>1. CASE BackOff(r)
  BY <1>1, SameCurrent DEF BackOff, AtWork, TypeOK, tickVars, editVars
<1>2. CASE Retry(r)
  BY <1>2, SameCurrent DEF Retry, AtWork, TypeOK, tickVars, editVars
<1>3. CASE Complete(r)
  <2>1. PICK fin \in Record : Upsert(task[r], fin) /\ fin.rev = copy[r].rev
    BY <1>3, CompleteType
  <2>2. AtWork(r) /\ task[r] \in Task
    BY <1>3 DEF Complete, AtWork, RunsAreWhole
  <2>3. task[r] \notin touched => Fresh(task[r], fin)
    BY <2>1, <2>2, CopyIsFresh DEF Fresh
  <2>4. \A q \in Runner : AtWork(q)' => AtWork(q) /\ task'[q] = task[q] /\ copy'[q] = copy[q]
    BY <1>3, LeaveFrame DEF Complete
  <2>5. UNCHANGED <<latest, touched, snapshot>>
    BY <1>3 DEF Complete, editVars
  <2>6. QED
    BY <2>1, <2>2, <2>3, <2>4, <2>5, WriteBack DEF Upsert
<1>4. QED
  BY <1>1, <1>2, <1>3 DEF RunStep

LEMMA ManualCurrent ==
  ASSUME TypeOK, RunsAreWhole, Current, NEW m \in Manual, ManualStep(m)
  PROVE  Current'
<1> USE Runners
<1>1. ASSUME NEW t \in Task, RunNow(m, t)
      PROVE  Current'
  <2> DEFINE rec == Normalize(store[t])
  <2>1. /\ rec \in Record /\ rec.rev = store[t].rev /\ Exists(t)
        /\ UNCHANGED <<latest, touched, snapshot>>
    BY <1>1, NormalizeType DEF RunNow, Exists, TypeOK, tickVars, editVars
  <2>2. PICK e \in {current, origin} : Skip(m, e, t, rec) \/ Start(m, e, t, rec)
    BY <1>1 DEF RunNow
  <2>3. e \in Engine
    BY <2>2 DEF TypeOK
  <2>4. t \notin touched => Fresh(t, rec)
    BY <2>1, CopyIsFresh DEF Fresh
  <2> HIDE DEF rec
  <2>5. CASE Skip(m, e, t, rec)
    <3>1. PICK fin \in Record : Upsert(t, fin) /\ fin.rev = rec.rev
      BY <2>1, <2>3, <2>5, SkipType
    <3>2. \A r \in Runner : AtWork(r)' => AtWork(r) /\ task'[r] = task[r] /\ copy'[r] = copy[r]
      BY <2>5 DEF Skip, AtWork, runVars
    <3>3. QED
      BY <2>1, <2>4, <3>1, <3>2, WriteBack DEF Upsert, Fresh
  <2>6. CASE Start(m, e, t, rec)
    <3> DEFINE new == [rec EXCEPT !.status = "running"]
    <3>1. store' = [store EXCEPT ![t] = new]
      BY <2>6 DEF Start, Upsert
    <3>2. new \in Record /\ new.rev = rec.rev
      BY <2>1 DEF Record, Status
    <3> HIDE DEF new
    <3>3. ASSUME NEW u \in Task \ touched, NEW r \in Runner, AtWork(r)', task'[r] = u
          PROVE  (AtWork(r) /\ task[r] = u /\ copy'[r].rev = copy[r].rev) \/ Fresh(u, copy'[r])
      BY <2>1, <2>3, <2>4, <2>6, <3>3, StartFrame DEF Fresh
    <3>4. QED
      BY <2>1, <2>4, <3>1, <3>2, <3>3, WriteBack DEF Fresh
  <2>7. QED
    BY <2>2, <2>5, <2>6
<1>2. CASE ManualCancelled(m)
  <2>1. \A r \in Runner : AtWork(r)' => AtWork(r) /\ task'[r] = task[r] /\ copy'[r] = copy[r]
    BY <1>2, LeaveFrame DEF ManualCancelled, CutOff
  <2>2. UNCHANGED <<latest, touched, store, snapshot>>
    BY <1>2 DEF ManualCancelled, tickVars, editVars
  <2>3. QED
    BY <2>1, <2>2, SameCurrent
<1>3. QED
  BY <1>1, <1>2 DEF ManualStep
(* The record of each task stays, and so does the request it is from.      *)
LEMMA RefreshedFrame ==
  ASSUME TypeOK, NEW st \in [Task -> Record \cup {Absent}], Refreshed(st), NEW u \in Task
  PROVE  /\ store'[u] = Absent <=> st[u] = Absent
         /\ st[u] # Absent => store'[u].rev = st[u].rev
BY RefreshType, CreatedAssumption DEF Refreshed, TypeOK

(* Request n writes t, or deletes it (n = -1).                             *)
LEMMA EditCurrent ==
  ASSUME TypeOK, Current, NEW t \in Task, Edits(t), NEW n \in Int,
         latest' = [latest EXCEPT ![t] = n],
         IF n > 0 THEN store'[t] # Absent /\ store'[t].rev = n ELSE store'[t] = Absent,
         \A u \in Task \ {t} :
           /\ store'[u] = Absent <=> store[u] = Absent
           /\ store[u] # Absent => store'[u].rev = store[u].rev
  PROVE  Current'
<1>1. /\ \A r \in Runner : AtWork(r)' <=> AtWork(r)
      /\ UNCHANGED <<task, copy, snapshot>>
  BY DEF Edits, AtWork, runVars, tickVars
<1>2. ASSUME NEW u \in Task \ touched', u # t
      PROVE  u \in Task \ touched /\ latest'[u] = latest[u]
  BY <1>2 DEF Edits, TypeOK
<1>3. t \notin touched' => ~ Held(t)
  BY DEF Edits
<1>4. latest'[t] = n
  BY DEF TypeOK
<1>5. CopiesAreCurrent'
  BY <1>1, <1>2, <1>3 DEF Current, CopiesAreCurrent, Held
<1>6. EditSticks'
  BY <1>2, <1>4 DEF Current, EditSticks, Exists
<1>7. QED
  BY <1>5, <1>6 DEF Current

LEMMA RequestCurrent ==
  ASSUME TypeOK, Current, RequestStep
  PROVE  Current'
<1>0. ASSUME NEW t \in Task, Edits(t)
      PROVE  requests' \in 1 .. MaxRequests /\ requests' > 0
  BY <1>0, NumbersAssumption DEF Edits, TypeOK
<1>1. ASSUME NEW t \in Task, CreateTask(t)
      PROVE  Current'
  <2>0. Edits(t)
    BY <1>1 DEF CreateTask
  <2>1. PICK c \in Config, enabled \in BOOLEAN :
          Refreshed([store EXCEPT ![t] =
            [config |-> c, enabled |-> enabled, status |-> "pending",
             next |-> NextRun(c, now), rev |-> requests']])
    BY <1>1 DEF CreateTask
  <2> DEFINE new == [config |-> c, enabled |-> enabled, status |-> "pending",
                     next |-> NextRun(c, now), rev |-> requests']
             st == [store EXCEPT ![t] = new]
  <2>2. new \in Record /\ new.rev = requests'
    <3>1. requests' \in 1 .. MaxRequests /\ NextRun(c, now) \in Nat
      BY <2>0, WrittenType
    <3>2. QED
      BY <3>1 DEF Record, Status
  <2>3. Refreshed(st)
    BY <2>1
  <2> HIDE DEF new
  <2>4. st \in [Task -> Record \cup {Absent}] /\ st[t] = new /\ \A u \in Task \ {t} : st[u] = store[u]
    BY <2>2 DEF TypeOK
  <2> HIDE DEF st
  <2>5. store'[t] # Absent /\ store'[t].rev = requests'
    BY <2>2, <2>3, <2>4, RefreshedFrame, CreatedAssumption
  <2>6. \A u \in Task \ {t} :
           /\ store'[u] = Absent <=> store[u] = Absent
           /\ store[u] # Absent => store'[u].rev = store[u].rev
    BY <2>3, <2>4, RefreshedFrame
  <2>7. requests' \in Int /\ requests' > 0 /\ latest' = [latest EXCEPT ![t] = requests'] /\ Edits(t)
    BY <1>0, <1>1 DEF CreateTask
  <2>8. QED
    BY <2>5, <2>6, <2>7, EditCurrent
<1>2. ASSUME NEW t \in Task, UpdateTask(t)
      PROVE  Current'
  <2>0. Edits(t)
    BY <1>2 DEF UpdateTask
  <2>1. PICK c \in Config, enabled \in BOOLEAN :
          Refreshed([store EXCEPT ![t] =
            [@ EXCEPT !.config = c, !.enabled = enabled, !.next = NextRun(c, now),
                      !.rev = requests']])
    BY <1>2 DEF UpdateTask
  <2> DEFINE new == [store[t] EXCEPT !.config = c, !.enabled = enabled, !.next = NextRun(c, now),
                                     !.rev = requests']
             st == [store EXCEPT ![t] = new]
  <2>2. new \in Record /\ new.rev = requests'
    <3>1. store[t] \in Record
      BY <1>2 DEF UpdateTask, Exists, TypeOK
    <3>2. requests' \in 1 .. MaxRequests /\ NextRun(c, now) \in Nat
      BY <2>0, WrittenType
    <3>3. QED
      BY <3>1, <3>2 DEF Record, Status
  <2>3. Refreshed(st)
    BY <2>1
  <2> HIDE DEF new
  <2>4. st \in [Task -> Record \cup {Absent}] /\ st[t] = new /\ \A u \in Task \ {t} : st[u] = store[u]
    BY <2>2 DEF TypeOK
  <2> HIDE DEF st
  <2>5. store'[t] # Absent /\ store'[t].rev = requests'
    BY <2>2, <2>3, <2>4, RefreshedFrame, CreatedAssumption
  <2>6. \A u \in Task \ {t} :
           /\ store'[u] = Absent <=> store[u] = Absent
           /\ store[u] # Absent => store'[u].rev = store[u].rev
    BY <2>3, <2>4, RefreshedFrame
  <2>7. requests' \in Int /\ requests' > 0 /\ latest' = [latest EXCEPT ![t] = requests'] /\ Edits(t)
    BY <1>0, <1>2 DEF UpdateTask
  <2>8. QED
    BY <2>5, <2>6, <2>7, EditCurrent
<1>3. ASSUME NEW t \in Task, SwitchTask(t)
      PROVE  Current'
  <2>0. Edits(t)
    BY <1>3 DEF SwitchTask
  <2>1. PICK enabled \in BOOLEAN :
          store' = Refresh([store EXCEPT ![t] = [@ EXCEPT !.enabled = enabled, !.rev = requests']])
    BY <1>3 DEF SwitchTask
  <2> DEFINE new == [store[t] EXCEPT !.enabled = enabled, !.rev = requests']
             st == [store EXCEPT ![t] = new]
  <2>2. new \in Record /\ new.rev = requests'
    <3>1. store[t] \in Record /\ store[t].config \in Config
      BY <1>3 DEF SwitchTask, Exists, TypeOK, Record
    <3>2. requests' \in 1 .. MaxRequests
      BY <1>0, <2>0
    <3>3. QED
      BY <3>1, <3>2 DEF Record, Status
  <2>3. Refreshed(st)
    BY <2>1 DEF Refreshed
  <2> HIDE DEF new
  <2>4. st \in [Task -> Record \cup {Absent}] /\ st[t] = new /\ \A u \in Task \ {t} : st[u] = store[u]
    BY <2>2 DEF TypeOK
  <2> HIDE DEF st
  <2>5. store'[t] # Absent /\ store'[t].rev = requests'
    BY <2>2, <2>3, <2>4, RefreshedFrame, CreatedAssumption
  <2>6. \A u \in Task \ {t} :
           /\ store'[u] = Absent <=> store[u] = Absent
           /\ store[u] # Absent => store'[u].rev = store[u].rev
    BY <2>3, <2>4, RefreshedFrame
  <2>7. requests' \in Int /\ requests' > 0 /\ latest' = [latest EXCEPT ![t] = requests'] /\ Edits(t)
    BY <1>0, <1>3 DEF SwitchTask
  <2>8. QED
    BY <2>5, <2>6, <2>7, EditCurrent
<1>4. ASSUME NEW t \in Task, DeleteTask(t)
      PROVE  Current'
  <2> DEFINE st == [store EXCEPT ![t] = Absent]
  <2>1. Refreshed(st) /\ latest' = [latest EXCEPT ![t] = -1] /\ Edits(t)
    BY <1>4 DEF DeleteTask
  <2>2. st \in [Task -> Record \cup {Absent}] /\ st[t] = Absent /\ \A u \in Task \ {t} : st[u] = store[u]
    BY DEF TypeOK
  <2> HIDE DEF st
  <2>3. store'[t] = Absent
    BY <2>1, <2>2, RefreshedFrame
  <2>4. \A u \in Task \ {t} :
           /\ store'[u] = Absent <=> store[u] = Absent
           /\ store[u] # Absent => store'[u].rev = store[u].rev
    BY <2>1, <2>2, RefreshedFrame
  <2>5. -1 \in Int /\ ~ (-1 > 0)
    OBVIOUS
  <2>6. QED
    BY <2>1, <2>3, <2>4, <2>5, EditCurrent
<1>5. CASE ListTasks
  BY <1>5, RefreshedCurrent DEF ListTasks, AtWork, runVars, tickVars
<1>6. QED
  BY <1>1, <1>2, <1>3, <1>4, <1>5 DEF RequestStep

LEMMA SwitchCurrent ==
  ASSUME TypeOK, Current, SwitchStep
  PROVE  Current'
<1>1. CASE ReloadBegins
  BY <1>1, RefreshedCurrent DEF ReloadBegins, AtWork, runVars, tickVars, editVars
<1>2. ASSUME NEW n \in Engine, ReloadEnds(n) \/ ReloadAborts(n)
      PROVE  Current'
  BY <1>2, SameCurrent DEF ReloadEnds, ReloadAborts, AtWork, runVars, tickVars, editVars
<1>3. CASE Restart
  <2>1. /\ store' = Refresh(store) /\ UNCHANGED <<latest, touched>>
        /\ \A r \in Runner : ~ AtWork(r)'
        /\ \A e \in Engine, t \in Task : snapshot'[e][t] = Absent
    BY <1>3 DEF Restart, AtWork, editVars
  <2>2. QED
    BY <2>1, RefreshedCurrent
<1>4. QED
  BY <1>1, <1>2, <1>3 DEF SwitchStep

LEMMA CurrentStep == TypeOK /\ RunsAreWhole /\ Current /\ [Next]_vars => Current'
<1> SUFFICES ASSUME TypeOK, RunsAreWhole, Current, [Next]_vars
             PROVE  Current'
  OBVIOUS
<1>1. CASE Elapse
  BY <1>1, SameCurrent DEF Elapse, AtWork, runVars, tickVars, editVars
<1>2. CASE UNCHANGED vars
  BY <1>2, SameCurrent DEF vars, AtWork, runVars, tickVars, editVars
<1>3. QED
  BY <1>1, <1>2, TickCurrent, LoopCurrent, RunStepCurrent, ManualCurrent, RequestCurrent, SwitchCurrent
  DEF Next
-----------------------------------------------------------------------------
(* A running task is being executed.                                       *)

Runs(t) == \E r \in Runner : AtWork(r) /\ task[r] = t

LEMMA RunningFrame ==
  ASSUME RunningIsTrue,
         \A t \in Task : store'[t] # Absent /\ store'[t].status = "running" /\ t \notin cutOff' =>
           \/ Runs(t)'
           \/ /\ store[t] # Absent /\ store[t].status = "running" /\ t \notin cutOff
              /\ Runs(t) => Runs(t)'
  PROVE  RunningIsTrue'
BY DEF RunningIsTrue, Exists, Runs

(* What is written says running only when the task begins to run.          *)
LEMMA RunningWritten ==
  ASSUME TypeOK, RunningIsTrue, NEW t \in Task, NEW rec \in Record, Upsert(t, rec),
         rec.status = "running" => Runs(t)',
         \A u \in Task \ {t} : Runs(u) => Runs(u)'
  PROVE  RunningIsTrue'
<1>1. ASSUME NEW u \in Task \ {t}
      PROVE  store'[u] = store[u] /\ (u \in cutOff' <=> u \in cutOff)
  BY DEF Upsert, TypeOK
<1>2. store'[t] = rec
  BY DEF Upsert, TypeOK
<1>3. QED
  BY <1>1, <1>2, RunningFrame

LEMMA RunningCutOff ==
  ASSUME TypeOK, RunningIsTrue, NEW r \in Runner, CutOff(r), UNCHANGED store
  PROVE  RunningIsTrue'
<1>1. ASSUME NEW u \in Task, u # task[r], Runs(u)
      PROVE  Runs(u)'
  BY <1>1, LeaveFrame DEF CutOff, Runs
<1>2. cutOff' = cutOff \cup {task[r]}
  BY DEF CutOff
<1>3. QED
  BY <1>1, <1>2, RunningFrame

LEMMA RunningRefreshed ==
  ASSUME TypeOK, RunningIsTrue, NEW st \in [Task -> Record \cup {Absent}], Refreshed(st),
         \A t \in Task : st[t] # Absent /\ st[t].status = "running"
                           => store[t] # Absent /\ store[t].status = "running",
         cutOff \subseteq cutOff', \A t \in Task \ cutOff' : Runs(t) => Runs(t)'
  PROVE  RunningIsTrue'
<1>1. ASSUME NEW t \in Task, store'[t] # Absent, store'[t].status = "running"
      PROVE  st[t] # Absent /\ st[t].status = "running"
  BY <1>1, RefreshType DEF Refreshed, TypeOK
<1>2. QED
  BY <1>1, RunningFrame

LEMMA RunningStep == TypeOK /\ RunsAreWhole /\ RunningIsTrue /\ [Next]_vars => RunningIsTrue'
<1> SUFFICES ASSUME TypeOK, RunsAreWhole, RunningIsTrue, [Next]_vars
             PROVE  RunningIsTrue'
  OBVIOUS
<1> USE Runners
<1>1. ASSUME UNCHANGED <<store, cutOff, runVars>>
      PROVE  RunningIsTrue'
  BY <1>1, RunningFrame DEF Runs, AtWork, runVars
<1>2. ASSUME NEW r \in Runner, NEW e \in Engine, NEW t \in Task, NEW rec \in Record,
             r \in Engine => rec.next <= now, ~ AtWork(r), Skip(r, e, t, rec) \/ Start(r, e, t, rec)
      PROVE  RunningIsTrue'
  <2>1. CASE Skip(r, e, t, rec)
    <3>1. PICK fin \in Record : Upsert(t, fin) /\ fin.status # "running"
      BY <1>2, <2>1, SkipType
    <3>2. \A u \in Task : Runs(u) => Runs(u)'
      BY <2>1 DEF Skip, Runs, AtWork, runVars
    <3>3. QED
      BY <3>1, <3>2, RunningWritten
  <2>2. CASE Start(r, e, t, rec)
    <3> DEFINE new == [rec EXCEPT !.status = "running"]
    <3>1. new \in Record /\ Upsert(t, new)
      BY <2>2 DEF Start, Record, Status
    <3> HIDE DEF new
    <3>2. Runs(t)' /\ \A u \in Task : Runs(u) => Runs(u)'
      BY <1>2, <2>2, StartFrame DEF Runs
    <3>3. QED
      BY <3>1, <3>2, RunningWritten
  <2>3. QED
    BY <1>2, <2>1, <2>2
<1>3. ASSUME NEW e \in Engine, TickStep(e)
      PROVE  RunningIsTrue'
  <2>1. ASSUME NEW t \in Task, TickPasses(e, t)
        PROVE  RunningIsTrue'
    <3>1. snapshot[e][t] \in Record
      BY <2>1 DEF TickPasses, TypeOK
    <3>2. CASE Normalize(snapshot[e][t]) = snapshot[e][t]
      BY <1>1, <2>1, <3>2 DEF TickPasses
    <3>3. CASE Normalize(snapshot[e][t]) # snapshot[e][t]
      <4>1. Upsert(t, Normalize(snapshot[e][t])) /\ UNCHANGED runVars
        BY <2>1, <3>3 DEF TickPasses
      <4>2. Normalize(snapshot[e][t]) \in Record
        BY <3>1, NormalizeType
      <4>3. Normalize(snapshot[e][t]).status # "running"
        BY <3>1, <3>3 DEF Normalize, Record
      <4>4. \A u \in Task : Runs(u) => Runs(u)'
        BY <4>1 DEF Runs, AtWork, runVars
      <4>5. QED
        BY <4>1, <4>2, <4>3, <4>4, RunningWritten
    <3>4. QED
      BY <3>2, <3>3
  <2>2. ASSUME NEW t \in Task, TickTriggers(e, t)
        PROVE  RunningIsTrue'
    <3> DEFINE rec == Normalize(snapshot[e][t])
    <3>1. rec \in Record /\ rec.next <= now /\ ~ AtWork(e)
      BY <2>2, TriggeredType
    <3>2. Skip(e, e, t, rec) \/ Start(e, e, t, rec)
      BY <2>2 DEF TickTriggers
    <3> HIDE DEF rec
    <3>3. QED
      BY <1>2, <3>1, <3>2
  <2>3. CASE TickEnds(e)
    BY <1>1, <2>3 DEF TickEnds
  <2>4. QED
    BY <1>3, <2>1, <2>2, <2>3 DEF TickStep
<1>4. ASSUME NEW e \in Engine, LoopStep(e)
      PROVE  RunningIsTrue'
  <2>1. CASE TickBegins(e) \/ CancelDropped(e)
    BY <1>1, <2>1 DEF TickBegins, CancelDropped
  <2>2. CASE LoopEnds(e)
    BY <1>1, <2>2, RunningCutOff DEF LoopEnds
  <2>3. QED
    BY <1>4, <2>1, <2>2 DEF LoopStep
<1>5. ASSUME NEW r \in Runner, RunStep(r)
      PROVE  RunningIsTrue'
  <2>1. CASE BackOff(r)
    <3>1. \A u \in Task : Runs(u) => Runs(u)'
      BY <2>1 DEF BackOff, Runs, AtWork, TypeOK
    <3>2. QED
      BY <2>1, <3>1, RunningFrame DEF BackOff
  <2>2. CASE Retry(r)
    <3>1. \A u \in Task : Runs(u) => Runs(u)'
      BY <2>2 DEF Retry, Runs, AtWork, TypeOK
    <3>2. QED
      BY <2>2, <3>1, RunningFrame DEF Retry
  <2>3. CASE Complete(r)
    <3>1. PICK fin \in Record : Upsert(task[r], fin) /\ fin.status # "running"
      BY <2>3, CompleteType
    <3>2. task[r] \in Task
      BY <2>3 DEF Complete, RunsAreWhole, AtWork
    <3>3. \A u \in Task \ {task[r]} : Runs(u) => Runs(u)'
      BY <2>3, LeaveFrame DEF Complete, Runs
    <3>4. QED
      BY <3>1, <3>2, <3>3, RunningWritten
  <2>4. QED
    BY <1>5, <2>1, <2>2, <2>3 DEF RunStep
<1>6. ASSUME NEW m \in Manual, ManualStep(m)
      PROVE  RunningIsTrue'
  <2>1. ASSUME NEW t \in Task, RunNow(m, t)
        PROVE  RunningIsTrue'
    <3>1. Normalize(store[t]) \in Record /\ ~ AtWork(m)
      BY <2>1, NormalizeType DEF RunNow, Exists, TypeOK, AtWork
    <3>2. PICK e \in {current, origin} :
            Skip(m, e, t, Normalize(store[t])) \/ Start(m, e, t, Normalize(store[t]))
      BY <2>1 DEF RunNow
    <3>3. e \in Engine
      BY <3>2 DEF TypeOK
    <3>4. QED
      BY <1>2, <3>1, <3>2, <3>3
  <2>2. CASE ManualCancelled(m)
    BY <2>2, RunningCutOff DEF ManualCancelled
  <2>3. QED
    BY <1>6, <2>1, <2>2 DEF ManualStep
<1>7. CASE RequestStep
  <2>1. UNCHANGED cutOff /\ \A t \in Task : Runs(t) => Runs(t)'
    BY <1>7, RequestFrame DEF Runs, AtWork, runVars
  <2>2. ASSUME NEW t \in Task, CreateTask(t)
        PROVE  RunningIsTrue'
    <3>1. PICK c \in Config, enabled \in BOOLEAN :
            Refreshed([store EXCEPT ![t] =
              [config |-> c, enabled |-> enabled, status |-> "pending",
               next |-> NextRun(c, now), rev |-> requests']])
      BY <2>2 DEF CreateTask
    <3> DEFINE new == [config |-> c, enabled |-> enabled, status |-> "pending",
                       next |-> NextRun(c, now), rev |-> requests']
               st == [store EXCEPT ![t] = new]
    <3>2. new \in Record /\ new.status = "pending"
      <4>1. requests' \in 1 .. MaxRequests /\ NextRun(c, now) \in Nat
        BY <2>2, WrittenType DEF CreateTask
      <4>2. QED
        BY <4>1 DEF Record, Status
    <3>3. Refreshed(st)
      BY <3>1
    <3> HIDE DEF new
    <3>4. st \in [Task -> Record \cup {Absent}] /\ st[t] = new /\ \A u \in Task \ {t} : st[u] = store[u]
      BY <3>2 DEF TypeOK
    <3> HIDE DEF st
    <3>5. QED
      BY <2>1, <3>2, <3>3, <3>4, RunningRefreshed
  <2>3. ASSUME NEW t \in Task, UpdateTask(t)
        PROVE  RunningIsTrue'
    <3>1. PICK c \in Config, enabled \in BOOLEAN :
            Refreshed([store EXCEPT ![t] =
              [@ EXCEPT !.config = c, !.enabled = enabled, !.next = NextRun(c, now),
                        !.rev = requests']])
      BY <2>3 DEF UpdateTask
    <3> DEFINE new == [store[t] EXCEPT !.config = c, !.enabled = enabled, !.next = NextRun(c, now),
                                       !.rev = requests']
               st == [store EXCEPT ![t] = new]
    <3>2. new \in Record /\ new.status = store[t].status /\ store[t] # Absent
      <4>1. store[t] \in Record /\ store[t] # Absent
        BY <2>3 DEF UpdateTask, Exists, TypeOK
      <4>2. requests' \in 1 .. MaxRequests /\ NextRun(c, now) \in Nat
        BY <2>3, WrittenType DEF UpdateTask
      <4>3. QED
        BY <4>1, <4>2 DEF Record, Status
    <3>3. Refreshed(st)
      BY <3>1
    <3> HIDE DEF new
    <3>4. st \in [Task -> Record \cup {Absent}] /\ st[t] = new /\ \A u \in Task \ {t} : st[u] = store[u]
      BY <3>2 DEF TypeOK
    <3> HIDE DEF st
    <3>5. QED
      BY <2>1, <3>2, <3>3, <3>4, RunningRefreshed
  <2>4. ASSUME NEW t \in Task, SwitchTask(t)
        PROVE  RunningIsTrue'
    <3>1. PICK enabled \in BOOLEAN :
            store' = Refresh([store EXCEPT ![t] = [@ EXCEPT !.enabled = enabled, !.rev = requests']])
      BY <2>4 DEF SwitchTask
    <3> DEFINE new == [store[t] EXCEPT !.enabled = enabled, !.rev = requests']
               st == [store EXCEPT ![t] = new]
    <3>2. new \in Record /\ new.status = store[t].status /\ store[t] # Absent
      <4>1. store[t] \in Record /\ store[t] # Absent
        BY <2>4 DEF SwitchTask, Exists, TypeOK
      <4>2. requests' \in 1 .. MaxRequests
        BY <2>4, NumbersAssumption DEF SwitchTask, Edits, TypeOK
      <4>3. QED
        BY <4>1, <4>2 DEF Record, Status
    <3>3. Refreshed(st)
      BY <3>1 DEF Refreshed
    <3> HIDE DEF new
    <3>4. st \in [Task -> Record \cup {Absent}] /\ st[t] = new /\ \A u \in Task \ {t} : st[u] = store[u]
      BY <3>2 DEF TypeOK
    <3> HIDE DEF st
    <3>5. QED
      BY <2>1, <3>2, <3>3, <3>4, RunningRefreshed
  <2>5. ASSUME NEW t \in Task, DeleteTask(t)
        PROVE  RunningIsTrue'
    <3> DEFINE st == [store EXCEPT ![t] = Absent]
    <3>1. Refreshed(st)
      BY <2>5 DEF DeleteTask
    <3>2. st \in [Task -> Record \cup {Absent}] /\ st[t] = Absent /\ \A u \in Task \ {t} : st[u] = store[u]
      BY DEF TypeOK
    <3> HIDE DEF st
    <3>3. QED
      BY <2>1, <3>1, <3>2, RunningRefreshed
  <2>6. CASE ListTasks
    <3>1. Refreshed(store) /\ store \in [Task -> Record \cup {Absent}]
      BY <2>6 DEF ListTasks, Refreshed, TypeOK
    <3>2. QED
      BY <2>1, <3>1, RunningRefreshed
  <2>7. QED
    BY <1>7, <2>2, <2>3, <2>4, <2>5, <2>6 DEF RequestStep
<1>8. CASE SwitchStep
  <2>1. store \in [Task -> Record \cup {Absent}]
    BY DEF TypeOK
  <2>2. CASE ReloadBegins
    <3>1. Refreshed(store) /\ UNCHANGED cutOff /\ \A t \in Task : Runs(t) => Runs(t)'
      BY <2>2 DEF ReloadBegins, Refreshed, Runs, AtWork, runVars
    <3>2. QED
      BY <2>1, <3>1, RunningRefreshed
  <2>3. CASE Restart
    <3>1. Refreshed(store)
      BY <2>3 DEF Restart, Refreshed
    <3>2. cutOff \subseteq cutOff' /\ \A t \in Task : Runs(t) => t \in cutOff'
      BY <2>3 DEF Restart, Runs
    <3>3. QED
      BY <2>1, <3>1, <3>2, RunningRefreshed
  <2>4. CASE \E n \in Engine : ReloadEnds(n) \/ ReloadAborts(n)
    BY <1>1, <2>4 DEF ReloadEnds, ReloadAborts
  <2>5. QED
    BY <1>8, <2>2, <2>3, <2>4 DEF SwitchStep
<1>9. CASE Elapse
  BY <1>1, <1>9 DEF Elapse
<1>10. CASE UNCHANGED vars
  BY <1>1, <1>10 DEF vars
<1>11. QED
  BY <1>3, <1>4, <1>5, <1>6, <1>7, <1>8, <1>9, <1>10 DEF Next
-----------------------------------------------------------------------------
(* With one reload at a time there is one loop.                            *)

LEMMA LoopsShrink ==
  ASSUME OneLoop, UNCHANGED <<current, waits>>, Loops' \subseteq Loops
  PROVE  OneLoop'
BY DEF OneLoop

LEMMA OneLoopStep ==
  ~ ReloadsOverlap /\ TypeOK /\ RunsAreWhole /\ OneLoop /\ [Next]_vars => OneLoop'
<1> SUFFICES ASSUME ~ ReloadsOverlap, TypeOK, RunsAreWhole, OneLoop, [Next]_vars
             PROVE  OneLoop'
  OBVIOUS
<1> USE Runners
<1>1. ASSUME UNCHANGED <<loop, switchVars>>
      PROVE  OneLoop'
  BY <1>1, LoopsShrink DEF Loops, switchVars
<1>2. ASSUME NEW e \in Engine, TickStep(e)
      PROVE  OneLoop'
  <2>1. loop[e] = "ticking" /\ UNCHANGED switchVars /\ \A d \in Engine : d # e => loop'[d] = loop[d]
    BY <1>2 DEF TickStep, TickPasses, TickTriggers, TickEnds, TypeOK
  <2>2. QED
    BY <2>1, LoopsShrink DEF Loops, switchVars
<1>3. ASSUME NEW e \in Engine, LoopStep(e)
      PROVE  OneLoop'
  <2>1. CASE TickBegins(e)
    BY <2>1, LoopsShrink DEF TickBegins, Loops, switchVars, TypeOK
  <2>2. CASE LoopEnds(e)
    BY <2>2, LoopsShrink DEF LoopEnds, Loops, TypeOK
  <2>3. CASE CancelDropped(e)
    BY <2>3, LoopsShrink DEF CancelDropped, Loops, tickVars
  <2>4. QED
    BY <1>3, <2>1, <2>2, <2>3 DEF LoopStep
<1>4. ASSUME NEW r \in Runner, RunStep(r)
      PROVE  OneLoop'
  <2>1. CASE BackOff(r) \/ Retry(r)
    BY <1>1, <2>1 DEF BackOff, Retry, tickVars
  <2>2. CASE Complete(r)
    <3>1. UNCHANGED switchVars
      BY <2>2 DEF Complete
    <3>2. r \in Engine => loop[r] = "executing"
      BY <2>2 DEF Complete, RunsAreWhole, AtWork
    <3>3. Loops' \subseteq Loops
      BY <2>2, <3>2 DEF Complete, Loops, TypeOK
    <3>4. QED
      BY <3>1, <3>3, LoopsShrink DEF switchVars
  <2>3. QED
    BY <1>4, <2>1, <2>2 DEF RunStep
<1>5. ASSUME NEW m \in Manual, ManualStep(m)
      PROVE  OneLoop'
  BY <1>1, <1>5 DEF ManualStep, RunNow, ManualCancelled, tickVars
<1>6. CASE RequestStep
  BY <1>1, <1>6, RequestFrame DEF tickVars
<1>7. CASE SwitchStep
  <2>1. CASE ReloadBegins
    <3>1. \A e \in Engine : waits[e] = 0
      BY <2>1 DEF ReloadBegins
    <3>2. UNCHANGED <<loop, current>> /\ waits' = [waits EXCEPT ![engines + 1] = current]
      BY <2>1 DEF ReloadBegins, tickVars
    <3>3. \A n \in Engine : waits'[n] # 0 => n = engines + 1 /\ waits'[n] = current
      BY <3>1, <3>2 DEF TypeOK
    <3>4. QED
      BY <3>2, <3>3 DEF OneLoop, Loops
  <2>2. ASSUME NEW n \in Engine, ReloadEnds(n)
        PROVE  OneLoop'
    <3>1. waits[n] = current /\ current \notin Loops
      BY <2>2 DEF ReloadEnds, OneLoop
    <3>2. Loops = {}
      BY <3>1 DEF OneLoop
    <3>3. \A e \in Engine : e # n => loop'[e] = loop[e] /\ waits'[e] = waits[e]
      BY <2>2 DEF ReloadEnds, TypeOK
    <3>4. current' = n /\ waits'[n] = 0
      BY <2>2 DEF ReloadEnds, TypeOK
    <3>5. \A e \in Loops' : e = n
      BY <3>2, <3>3 DEF Loops
    <3>6. \A e \in Engine : waits'[e] = 0
      BY <2>2, <3>3, <3>4 DEF OneLoop, ReloadEnds
    <3>7. QED
      BY <3>4, <3>5, <3>6 DEF OneLoop
  <2>3. ASSUME NEW n \in Engine, ReloadAborts(n)
        PROVE  OneLoop'
    <3>1. UNCHANGED <<loop, current>> /\ \A e \in Engine : waits'[e] = waits[e] \/ waits'[e] = 0
      BY <2>3 DEF ReloadAborts, TypeOK, tickVars
    <3>2. QED
      BY <3>1 DEF OneLoop, Loops
  <2>4. CASE Restart
    <3>1. /\ \A e \in Engine : waits'[e] = 0
          /\ \A e \in Engine : loop'[e] = IF e < engines + 1 THEN "off"
                                          ELSE IF e = engines + 1 THEN "asleep" ELSE "none"
          /\ current' = engines + 1 /\ engines \in Nat
      BY <2>4 DEF Restart, TypeOK
    <3>2. QED
      BY <3>1 DEF OneLoop, Loops
  <2>5. QED
    BY <1>7, <2>1, <2>2, <2>3, <2>4 DEF SwitchStep
<1>8. CASE Elapse
  BY <1>1, <1>8 DEF Elapse, tickVars
<1>9. CASE UNCHANGED vars
  BY <1>1, <1>9 DEF vars, tickVars
<1>10. QED
  BY <1>2, <1>3, <1>4, <1>5, <1>6, <1>7, <1>8, <1>9 DEF Next
-----------------------------------------------------------------------------
(* The planned run lies behind the last trigger.                           *)

LEMMA SlotFrame ==
  ASSUME TypeOK, NEW t \in Task, SlotOf(t), now' \in Nat, now' >= now, lastSlot'[t] = lastSlot[t],
         store'[t] # Absent =>
           \/ store'[t].next > lastSlot[t]
           \/ /\ store[t] # Absent /\ store'[t].next = store[t].next
              /\ \A e \in Engine \ flagged : AtWork(e) /\ task[e] = t
                   => e \notin flagged' /\ AtWork(e)' /\ task'[e] = t,
         \A e \in Engine : snapshot'[e][t] # Absent =>
           \/ snapshot'[e][t].next > lastSlot[t]
           \/ snapshot[e][t] # Absent /\ snapshot'[e][t] = snapshot[e][t],
         \A e \in Engine : AtWork(e)' /\ task'[e] = t
           => AtWork(e) /\ task[e] = t /\ copy'[e].next = copy[e].next
  PROVE  SlotOf(t)'
<1>1. lastSlot'[t] <= now'
  BY DEF SlotOf, TypeOK
<1>2. QED
  BY <1>1 DEF SlotOf, Exists

LEMMA InLoop ==
  ASSUME RunsAreWhole, OneLoop, NEW e \in Engine
  PROVE  /\ AtWork(e) => e = current
         /\ \A t \in Task : snapshot[e][t] # Absent => e = current
         /\ loop[e] \in {"asleep", "ticking", "executing"} => e = current
BY DEF RunsAreWhole, OneLoop, Loops

Slots == \A t \in Task : SlotOf(t)

LEMMA TickSlots ==
  ASSUME TypeOK, RunsAreWhole, OneLoop, Slots, NEW e \in Engine, TickStep(e)
  PROVE  Slots'
<1> USE Runners
<1>0. now \in Nat
  BY DEF TypeOK
<1>1. ASSUME NEW t \in Task, TickPasses(e, t), NEW u \in Task
      PROVE  SlotOf(u)'
  <2>1. UNCHANGED <<now, lastSlot, runVars, flagged>> /\ SlotOf(u)
    BY <1>1 DEF TickPasses, switchVars, Slots
  <2>2. \A r \in Runner : (AtWork(r)' <=> AtWork(r)) /\ task'[r] = task[r] /\ copy'[r] = copy[r]
    BY <2>1 DEF AtWork, runVars
  <2>3. \A d \in Engine : snapshot'[d][u] # Absent => snapshot'[d][u] = snapshot[d][u]
    BY <1>1 DEF TickPasses, TypeOK
  <2>4. store'[u] = store[u] \/ store'[u].next > lastSlot[u]
    <3>1. CASE store' = store
      BY <3>1
    <3>2. CASE Upsert(t, Normalize(snapshot[e][t]))
      <4>1. snapshot[e][t] # Absent /\ snapshot[e][t] \in Record
        BY <1>1 DEF TickPasses, TypeOK
      <4>2. Normalize(snapshot[e][t]).next > lastSlot[t]
        BY <4>1, NormalizeType DEF Slots, SlotOf
      <4>3. QED
        BY <3>2, <4>2 DEF Upsert, TypeOK
    <3>3. QED
      BY <1>1, <3>1, <3>2 DEF TickPasses
  <2>5. QED
    BY <1>0, <2>1, <2>2, <2>3, <2>4, SlotFrame
<1>2. ASSUME NEW t \in Task, TickTriggers(e, t), NEW u \in Task
      PROVE  SlotOf(u)'
  <2> DEFINE rec == Normalize(snapshot[e][t])
  <2>1. rec \in Record /\ rec.next \in Nat /\ rec.next <= now /\ ~ AtWork(e)
        /\ rec.next = snapshot[e][t].next
    BY <1>2, TriggeredType
  <2>2. Skip(e, e, t, rec) \/ Start(e, e, t, rec)
    BY <1>2 DEF TickTriggers
  <2>3. /\ UNCHANGED <<now, flagged>> /\ SlotOf(u) /\ loop[e] = "ticking" /\ e \notin flagged
        /\ lastSlot' = [lastSlot EXCEPT ![t] = rec.next]
        /\ snapshot' = [snapshot EXCEPT ![e][t] = Absent]
    BY <1>2, <2>1 DEF TickTriggers, switchVars, Slots, RunsAreWhole
  <2> HIDE DEF rec
  <2>4. /\ \A d \in Engine, v \in Task : snapshot'[d][v] # Absent => snapshot'[d][v] = snapshot[d][v]
        /\ snapshot'[e][t] = Absent
        /\ lastSlot'[t] = rec.next /\ (u # t => lastSlot'[u] = lastSlot[u])
    BY <2>3 DEF TypeOK
  <2>5. \A d \in Engine : d # e => ~ AtWork(d) /\ snapshot[d][t] = Absent
    BY <2>3, InLoop
  <2>6. \A r \in Runner : r # e =>
           (AtWork(r)' <=> AtWork(r)) /\ task'[r] = task[r] /\ copy'[r] = copy[r]
    <3>1. CASE Skip(e, e, t, rec)
      BY <3>1 DEF Skip, runVars, AtWork
    <3>2. CASE Start(e, e, t, rec)
      BY <2>1, <3>2, StartFrame
    <3>3. QED
      BY <2>2, <3>1, <3>2
  <2>7. AtWork(e)' => task'[e] = t /\ copy'[e].next = rec.next
    <3>1. CASE Skip(e, e, t, rec)
      BY <2>1, <3>1 DEF Skip, runVars, AtWork
    <3>2. CASE Start(e, e, t, rec)
      BY <2>1, <3>2, StartFrame
    <3>3. QED
      BY <2>2, <3>1, <3>2
  <2>8. CASE u # t
    <3>1. store'[u] = store[u]
      BY <2>2, <2>8 DEF Skip, Start, Upsert, TypeOK
    <3>2. \A d \in Engine : AtWork(d) /\ task[d] = u => AtWork(d)' /\ task'[d] = u
      BY <2>1, <2>6
    <3>3. \A d \in Engine : AtWork(d)' /\ task'[d] = u
             => AtWork(d) /\ task[d] = u /\ copy'[d].next = copy[d].next
      BY <2>6, <2>7, <2>8
    <3>4. QED
      BY <1>0, <2>3, <2>4, <2>8, <3>1, <3>2, <3>3, SlotFrame
  <2>9. CASE u = t
    <3>1. store'[t].next > rec.next \/ (AtWork(e)' /\ task'[e] = t)
      <4>1. CASE Skip(e, e, t, rec)
        <5>1. PICK fin \in Record : Upsert(t, fin) /\ fin.next > rec.next
          BY <2>1, <4>1, SkipType
        <5>2. QED
          BY <5>1 DEF Upsert, TypeOK
      <4>2. CASE Start(e, e, t, rec)
        BY <2>1, <4>2, StartFrame
      <4>3. QED
        BY <2>2, <4>1, <4>2
    <3>2. \A d \in Engine : snapshot'[d][t] = Absent
      BY <2>4, <2>5
    <3>3. \A d \in Engine : AtWork(d)' /\ task'[d] = t => copy'[d].next = lastSlot'[t]
      BY <2>4, <2>5, <2>6, <2>7
    <3>4. lastSlot'[t] <= now' /\ e \notin flagged'
      BY <2>1, <2>3, <2>4
    <3>5. QED
      BY <2>4, <2>9, <3>1, <3>2, <3>3, <3>4 DEF SlotOf
  <2>10. QED
    BY <2>8, <2>9
<1>3. ASSUME TickEnds(e), NEW u \in Task
      PROVE  SlotOf(u)'
  BY <1>0, <1>3, SlotFrame DEF TickEnds, switchVars, runVars, AtWork, Slots
<1>4. QED
  BY <1>1, <1>2, <1>3 DEF TickStep, Slots

LEMMA LoopSlots ==
  ASSUME TypeOK, RunsAreWhole, OneLoop, Slots, NEW e \in Engine, LoopStep(e)
  PROVE  Slots'
<1> USE Runners
<1>0. now \in Nat
  BY DEF TypeOK
<1>1. ASSUME TickBegins(e), NEW u \in Task
      PROVE  SlotOf(u)'
  <2>1. /\ UNCHANGED <<now, lastSlot, runVars, flagged, store>> /\ SlotOf(u)
        /\ \A d \in Engine : snapshot'[d][u] = IF d = e THEN store[u] ELSE snapshot[d][u]
    BY <1>1 DEF TickBegins, switchVars, Slots, TypeOK
  <2>2. \A r \in Runner : (AtWork(r)' <=> AtWork(r)) /\ task'[r] = task[r] /\ copy'[r] = copy[r]
    BY <2>1 DEF AtWork, runVars
  <2>3. \A d \in Engine : ~ AtWork(d)
    BY <1>1, InLoop DEF TickBegins, RunsAreWhole
  <2>4. store[u] # Absent => store[u].next > lastSlot[u]
    BY <2>1, <2>3 DEF SlotOf, Exists
  <2>5. QED
    BY <1>0, <2>1, <2>2, <2>4, SlotFrame
<1>2. ASSUME LoopEnds(e), NEW u \in Task
      PROVE  SlotOf(u)'
  <2>1. /\ UNCHANGED <<now, lastSlot, store>> /\ SlotOf(u) /\ flagged' \subseteq flagged
        /\ \A d \in Engine : snapshot'[d][u] # Absent => snapshot'[d][u] = snapshot[d][u]
    BY <1>2 DEF LoopEnds, Slots, TypeOK
  <2>2. \A d \in Engine :
           /\ AtWork(d)' => AtWork(d) /\ task'[d] = task[d] /\ copy'[d] = copy[d]
           /\ AtWork(d) /\ d \notin flagged => AtWork(d)' /\ task'[d] = task[d]
    <3>1. CASE loop[e] = "asleep" /\ UNCHANGED <<engineVars, runVars, cutOff>>
      BY <3>1 DEF runVars, AtWork
    <3>2. CASE e \in flagged /\ CutOff(e)
      BY <3>2, LeaveFrame DEF CutOff
    <3>3. QED
      BY <1>2, <3>1, <3>2 DEF LoopEnds
  <2>3. \A d \in Engine \ flagged : AtWork(d) /\ task[d] = u
          => d \notin flagged' /\ AtWork(d)' /\ task'[d] = u
    BY <2>1, <2>2
  <2>4. \A d \in Engine : AtWork(d)' /\ task'[d] = u
          => AtWork(d) /\ task[d] = u /\ copy'[d].next = copy[d].next
    BY <2>2
  <2>5. now' \in Nat /\ now' >= now /\ lastSlot'[u] = lastSlot[u] /\ store' = store
    BY <1>0, <2>1
  <2>6. QED
    BY <2>1, <2>3, <2>4, <2>5, SlotFrame
<1>3. ASSUME CancelDropped(e), NEW u \in Task
      PROVE  SlotOf(u)'
  <2>1. UNCHANGED <<now, lastSlot, store, snapshot, runVars>> /\ SlotOf(u) /\ flagged' \subseteq flagged
    BY <1>3 DEF CancelDropped, Slots, tickVars
  <2>2. \A r \in Runner : (AtWork(r)' <=> AtWork(r)) /\ task'[r] = task[r] /\ copy'[r] = copy[r]
    BY <2>1 DEF AtWork, runVars
  <2>3. \A d \in Engine : AtWork(d) /\ task[d] = u => AtWork(d)' /\ task'[d] = u
    BY <2>2
  <2>4. \A d \in Engine : AtWork(d)' /\ task'[d] = u
          => AtWork(d) /\ task[d] = u /\ copy'[d].next = copy[d].next
    BY <2>2
  <2>5. now' \in Nat /\ now' >= now /\ lastSlot'[u] = lastSlot[u] /\ store' = store
        /\ snapshot' = snapshot /\ flagged' \subseteq flagged
    BY <1>0, <2>1
  <2>6. QED
    BY <2>1, <2>3, <2>4, <2>5, SlotFrame
<1>4. QED
  BY <1>1, <1>2, <1>3 DEF LoopStep, Slots

LEMMA RunStepSlots ==
  ASSUME TypeOK, RunsAreWhole, Slots, NEW r \in Runner, RunStep(r)
  PROVE  Slots'
<1> USE Runners
<1>0. now \in Nat
  BY DEF TypeOK
<1>1. ASSUME BackOff(r) \/ Retry(r), NEW u \in Task
      PROVE  SlotOf(u)'
  <2>1. UNCHANGED <<now, lastSlot, store, snapshot, flagged, task, copy>> /\ SlotOf(u)
    BY <1>1 DEF BackOff, Retry, Slots, tickVars, switchVars
  <2>2. \A q \in Runner : AtWork(q)' <=> AtWork(q)
    BY <1>1 DEF BackOff, Retry, AtWork, TypeOK
  <2>3. \A d \in Engine : (AtWork(d)' <=> AtWork(d)) /\ task'[d] = task[d] /\ copy'[d] = copy[d]
    BY <2>1, <2>2
  <2>4. QED
    BY <1>0, <2>1, <2>3, SlotFrame
<1>2. ASSUME Complete(r), NEW u \in Task
      PROVE  SlotOf(u)'
  <2>1. UNCHANGED <<now, lastSlot, snapshot, flagged>> /\ SlotOf(u) /\ AtWork(r) /\ task[r] \in Task
    BY <1>2 DEF Complete, Slots, switchVars, AtWork, RunsAreWhole
  <2>2. /\ ~ AtWork(r)'
        /\ \A q \in Runner : q # r =>
             /\ AtWork(q)' <=> AtWork(q)
             /\ task'[q] = task[q] /\ copy'[q] = copy[q]
    BY <1>2, LeaveFrame DEF Complete
  <2>3. PICK fin \in Record :
          /\ Upsert(task[r], fin)
          /\ fin.next > IF r \in Engine THEN copy[r].next ELSE now
    BY <1>2, CompleteType
  <2>4. CASE u = task[r]
    <3>1. store'[u] = fin
      BY <2>1, <2>3, <2>4 DEF Upsert, TypeOK
    <3>2. r \in Engine => copy[r].next = lastSlot[u]
      BY <2>1, <2>4 DEF SlotOf
    <3>3. lastSlot[u] <= now /\ lastSlot[u] \in Nat /\ fin.next \in Nat
      BY <2>1 DEF SlotOf, TypeOK, Record
    <3>4. fin.next > lastSlot[u]
      BY <1>0, <2>3, <3>2, <3>3
    <3>5. \A d \in Engine : AtWork(d)' => AtWork(d) /\ task'[d] = task[d] /\ copy'[d] = copy[d]
      BY <2>2
    <3>6. QED
      BY <1>0, <2>1, <3>1, <3>4, <3>5, SlotFrame
  <2>5. CASE u # task[r]
    <3>1. store'[u] = store[u]
      BY <2>1, <2>3, <2>5 DEF Upsert, TypeOK
    <3>2. \A d \in Engine : AtWork(d)' => AtWork(d) /\ task'[d] = task[d] /\ copy'[d] = copy[d]
      BY <2>2
    <3>3. \A d \in Engine : AtWork(d) /\ task[d] = u => AtWork(d)' /\ task'[d] = u
      BY <2>2, <2>5
    <3>4. \A d \in Engine : AtWork(d)' /\ task'[d] = u
            => AtWork(d) /\ task[d] = u /\ copy'[d].next = copy[d].next
      BY <3>2
    <3>5. now' \in Nat /\ now' >= now /\ lastSlot'[u] = lastSlot[u]
          /\ snapshot' = snapshot /\ flagged' = flagged
      BY <1>0, <2>1
    <3>6. QED
      BY <2>1, <3>1, <3>3, <3>4, <3>5, SlotFrame
  <2>6. QED
    BY <2>4, <2>5
<1>3. QED
  BY <1>1, <1>2 DEF RunStep, Slots

LEMMA ManualSlots ==
  ASSUME TypeOK, RunsAreWhole, Slots, NEW m \in Manual, ManualStep(m)
  PROVE  Slots'
<1> USE Runners
<1>0. now \in Nat
  BY DEF TypeOK
<1>1. ASSUME NEW t \in Task, RunNow(m, t), NEW u \in Task
      PROVE  SlotOf(u)'
  <2> DEFINE rec == Normalize(store[t])
  <2>1. /\ rec \in Record /\ rec.next = store[t].next /\ store[t] # Absent /\ m \notin Engine
        /\ UNCHANGED <<now, lastSlot, snapshot, flagged>> /\ SlotOf(u)
    BY <1>1, NormalizeType DEF RunNow, Exists, TypeOK, tickVars, switchVars, Slots
  <2>2. PICK e \in {current, origin} : Skip(m, e, t, rec) \/ Start(m, e, t, rec)
    BY <1>1 DEF RunNow
  <2>3. e \in Engine
    BY <2>2 DEF TypeOK
  <2> HIDE DEF rec
  <2>4. \A d \in Engine : (AtWork(d)' <=> AtWork(d)) /\ task'[d] = task[d] /\ copy'[d] = copy[d]
    <3>1. CASE Skip(m, e, t, rec)
      BY <3>1 DEF Skip, runVars, AtWork
    <3>2. CASE Start(m, e, t, rec)
      BY <2>1, <2>3, <3>2, StartFrame
    <3>3. QED
      BY <2>2, <3>1, <3>2
  <2>5. store'[u] = store[u] \/ store'[u].next > now \/ (store[u] # Absent /\ store'[u].next = store[u].next)
    <3>1. CASE Skip(m, e, t, rec)
      <4>1. PICK fin \in Record : Upsert(t, fin) /\ fin.next > now
        BY <2>1, <2>3, <3>1, SkipType
      <4>2. QED
        BY <4>1 DEF Upsert, TypeOK
    <3>2. CASE Start(m, e, t, rec)
      <4> DEFINE new == [rec EXCEPT !.status = "running"]
      <4>1. new.next = rec.next /\ Upsert(t, new)
        BY <2>1, <3>2 DEF Start, Record
      <4> HIDE DEF new
      <4>2. QED
        BY <2>1, <4>1 DEF Upsert, TypeOK
    <3>3. QED
      BY <2>2, <3>1, <3>2
  <2>6. lastSlot[u] <= now /\ lastSlot[u] \in Nat
    BY <2>1 DEF SlotOf, TypeOK
  <2>7. store'[u] # Absent => store'[u].next \in Nat
    BY ManualType, <1>1 DEF ManualStep, TypeOK, Record
  <2>8. store'[u] # Absent => store'[u].next > lastSlot[u] \/ (store[u] # Absent /\ store'[u].next = store[u].next)
    BY <1>0, <2>5, <2>6, <2>7
  <2>9. QED
    BY <1>0, <2>1, <2>4, <2>8, SlotFrame
<1>2. ASSUME ManualCancelled(m), NEW u \in Task
      PROVE  SlotOf(u)'
  <2>1. UNCHANGED <<now, lastSlot, store, snapshot, flagged>> /\ SlotOf(u)
    BY <1>2 DEF ManualCancelled, Slots, tickVars, switchVars
  <2>2. \A d \in Engine : (AtWork(d)' <=> AtWork(d)) /\ task'[d] = task[d] /\ copy'[d] = copy[d]
    <3>1. \A d \in Engine : d # m
      OBVIOUS
    <3>2. QED
      BY <1>2, <3>1, LeaveFrame DEF ManualCancelled, CutOff
  <2>3. \A d \in Engine : AtWork(d) /\ task[d] = u => AtWork(d)' /\ task'[d] = u
    BY <2>2
  <2>4. \A d \in Engine : AtWork(d)' /\ task'[d] = u
          => AtWork(d) /\ task[d] = u /\ copy'[d].next = copy[d].next
    BY <2>2
  <2>5. now' \in Nat /\ now' >= now /\ lastSlot'[u] = lastSlot[u] /\ store' = store
        /\ snapshot' = snapshot /\ flagged' = flagged
    BY <1>0, <2>1
  <2>6. QED
    BY <2>1, <2>3, <2>4, <2>5, SlotFrame
<1>3. QED
  BY <1>1, <1>2 DEF ManualStep, Slots
(* Whatever is refreshed or written by a request is planned for later.     *)
LEMMA RefreshSlots ==
  ASSUME TypeOK, NEW t \in Task, SlotOf(t), UNCHANGED <<now, lastSlot>>,
         store'[t] # Absent => store'[t].next > now /\ store'[t].next \in Nat,
         \A e \in Engine : snapshot'[e][t] # Absent =>
           snapshot[e][t] # Absent /\ snapshot'[e][t] = snapshot[e][t],
         \A e \in Engine : AtWork(e)' => AtWork(e) /\ task'[e] = task[e] /\ copy'[e] = copy[e]
  PROVE  SlotOf(t)'
<1>1. now \in Nat /\ lastSlot[t] \in Nat /\ lastSlot[t] <= now
  BY DEF TypeOK, SlotOf
<1>2. store'[t] # Absent => store'[t].next > lastSlot[t]
  BY <1>1
<1>3. QED
  BY <1>1, <1>2, SlotFrame

LEMMA RequestNext ==
  ASSUME TypeOK, RequestStep, NEW u \in Task, store'[u] # Absent
  PROVE  \/ store'[u].next > now /\ store'[u].next \in Nat
         \/ store[u] # Absent /\ store'[u].next = store[u].next
<1>1. ASSUME NEW st \in [Task -> Record \cup {Absent}], store' = Refresh(st)
      PROVE  store'[u].next > now /\ store'[u].next \in Nat
  <2>1. store'[u] \in Record /\ store'[u].next > now
    BY <1>1, RefreshType DEF TypeOK
  <2>2. QED
    BY <2>1 DEF Record
<1>2. ASSUME NEW st \in [Task -> Record \cup {Absent}], Refreshed(st),
             NEW t \in Task, \A v \in Task \ {t} : st[v] = store[v],
             st[t] # Absent => st[t].next \in Nat /\ st[t].next > now
      PROVE  \/ store'[u].next > now /\ store'[u].next \in Nat
             \/ store[u] # Absent /\ store'[u].next = store[u].next
  <2>1. CASE store' = Refresh(st)
    BY <1>1, <2>1
  <2>2. CASE store' = st
    BY <1>2, <2>2
  <2>3. QED
    BY <1>2, <2>1, <2>2 DEF Refreshed
<1>3. ASSUME NEW t \in Task, Edits(t), NEW c \in Config
      PROVE  NextRun(c, now) \in Nat /\ NextRun(c, now) > now /\ requests' \in 1 .. MaxRequests
  BY <1>3, NextRunType, NumbersAssumption DEF Edits, TypeOK
<1>4. ASSUME NEW t \in Task, CreateTask(t)
      PROVE  \/ store'[u].next > now /\ store'[u].next \in Nat
             \/ store[u] # Absent /\ store'[u].next = store[u].next
  <2>1. PICK c \in Config, enabled \in BOOLEAN :
          Refreshed([store EXCEPT ![t] =
            [config |-> c, enabled |-> enabled, status |-> "pending",
             next |-> NextRun(c, now), rev |-> requests']])
    BY <1>4 DEF CreateTask
  <2> DEFINE new == [config |-> c, enabled |-> enabled, status |-> "pending",
                     next |-> NextRun(c, now), rev |-> requests']
             st == [store EXCEPT ![t] = new]
  <2>2. Edits(t)
    BY <1>4 DEF CreateTask
  <2>3. new \in Record /\ new.next \in Nat /\ new.next > now
    <3>1. NextRun(c, now) \in Nat /\ NextRun(c, now) > now /\ requests' \in 1 .. MaxRequests
      BY <1>3, <2>2
    <3>2. QED
      BY <3>1 DEF Record, Status
  <2>4. Refreshed(st)
    BY <2>1
  <2> HIDE DEF new
  <2>5. st \in [Task -> Record \cup {Absent}] /\ st[t] = new /\ \A v \in Task \ {t} : st[v] = store[v]
    BY <2>3 DEF TypeOK
  <2> HIDE DEF st
  <2>6. QED
    BY <1>2, <2>3, <2>4, <2>5
<1>5. ASSUME NEW t \in Task, UpdateTask(t)
      PROVE  \/ store'[u].next > now /\ store'[u].next \in Nat
             \/ store[u] # Absent /\ store'[u].next = store[u].next
  <2>1. PICK c \in Config, enabled \in BOOLEAN :
          Refreshed([store EXCEPT ![t] =
            [@ EXCEPT !.config = c, !.enabled = enabled, !.next = NextRun(c, now),
                      !.rev = requests']])
    BY <1>5 DEF UpdateTask
  <2> DEFINE new == [store[t] EXCEPT !.config = c, !.enabled = enabled, !.next = NextRun(c, now),
                                     !.rev = requests']
             st == [store EXCEPT ![t] = new]
  <2>2. Edits(t)
    BY <1>5 DEF UpdateTask
  <2>3. new \in Record /\ new.next \in Nat /\ new.next > now
    <3>1. NextRun(c, now) \in Nat /\ NextRun(c, now) > now /\ requests' \in 1 .. MaxRequests
      BY <1>3, <2>2
    <3>2. store[t] \in Record
      BY <1>5 DEF UpdateTask, Exists, TypeOK
    <3>3. QED
      BY <3>1, <3>2 DEF Record, Status
  <2>4. Refreshed(st)
    BY <2>1
  <2> HIDE DEF new
  <2>5. st \in [Task -> Record \cup {Absent}] /\ st[t] = new /\ \A v \in Task \ {t} : st[v] = store[v]
    BY <2>3 DEF TypeOK
  <2> HIDE DEF st
  <2>6. QED
    BY <1>2, <2>3, <2>4, <2>5
<1>6. ASSUME NEW t \in Task, SwitchTask(t)
      PROVE  store'[u].next > now /\ store'[u].next \in Nat
  <2>1. PICK enabled \in BOOLEAN :
          store' = Refresh([store EXCEPT ![t] = [@ EXCEPT !.enabled = enabled, !.rev = requests']])
    BY <1>6 DEF SwitchTask
  <2> DEFINE new == [store[t] EXCEPT !.enabled = enabled, !.rev = requests']
             st == [store EXCEPT ![t] = new]
  <2>2. new \in Record
    <3>1. store[t] \in Record
      BY <1>6 DEF SwitchTask, Exists, TypeOK
    <3>2. requests' \in 1 .. MaxRequests
      BY <1>6, NumbersAssumption DEF SwitchTask, Edits, TypeOK
    <3>3. QED
      BY <3>1, <3>2 DEF Record, Status
  <2>3. store' = Refresh(st)
    BY <2>1
  <2> HIDE DEF new
  <2>4. st \in [Task -> Record \cup {Absent}]
    BY <2>2 DEF TypeOK
  <2> HIDE DEF st
  <2>5. QED
    BY <1>1, <2>3, <2>4
<1>7. ASSUME NEW t \in Task, DeleteTask(t)
      PROVE  \/ store'[u].next > now /\ store'[u].next \in Nat
             \/ store[u] # Absent /\ store'[u].next = store[u].next
  <2> DEFINE st == [store EXCEPT ![t] = Absent]
  <2>1. Refreshed(st)
    BY <1>7 DEF DeleteTask
  <2>2. st \in [Task -> Record \cup {Absent}] /\ st[t] = Absent /\ \A v \in Task \ {t} : st[v] = store[v]
    BY DEF TypeOK
  <2> HIDE DEF st
  <2>3. QED
    BY <1>2, <2>1, <2>2
<1>8. CASE ListTasks
  BY <1>1, <1>8 DEF ListTasks, TypeOK
<1>9. QED
  BY <1>4, <1>5, <1>6, <1>7, <1>8 DEF RequestStep

LEMMA RequestSlots ==
  ASSUME TypeOK, Slots, RequestStep
  PROVE  Slots'
<1> SUFFICES ASSUME NEW u \in Task
             PROVE  SlotOf(u)'
  BY DEF Slots
<1> USE Runners
<1>0. now \in Nat /\ SlotOf(u)
  BY DEF TypeOK, Slots
<1>1. UNCHANGED <<now, lastSlot, snapshot, flagged, runVars>>
  BY RequestFrame DEF tickVars, switchVars
<1>2. \A e \in Engine : (AtWork(e)' <=> AtWork(e)) /\ task'[e] = task[e] /\ copy'[e] = copy[e]
  BY <1>1 DEF AtWork, runVars
<1>3. CASE store'[u] # Absent => store'[u].next > now /\ store'[u].next \in Nat
  BY <1>0, <1>1, <1>2, <1>3, RefreshSlots
<1>4. CASE store[u] # Absent /\ store'[u].next = store[u].next
  BY <1>0, <1>1, <1>2, <1>4, SlotFrame
<1>5. QED
  BY <1>3, <1>4, RequestNext

LEMMA SwitchSlots ==
  ASSUME TypeOK, Slots, SwitchStep
  PROVE  Slots'
<1> SUFFICES ASSUME NEW u \in Task
             PROVE  SlotOf(u)'
  BY DEF Slots
<1> USE Runners
<1>0. now \in Nat /\ SlotOf(u)
  BY DEF TypeOK, Slots
<1>1. ASSUME store' = Refresh(store), store'[u] # Absent
      PROVE  store'[u].next > now /\ store'[u].next \in Nat
  <2>1. store'[u] \in Record /\ store'[u].next > now
    BY <1>1, RefreshType DEF TypeOK
  <2>2. QED
    BY <2>1 DEF Record
<1>2. CASE ReloadBegins
  <2>1. UNCHANGED <<now, lastSlot, snapshot, runVars>> /\ store' = Refresh(store)
    BY <1>2 DEF ReloadBegins, tickVars
  <2>2. \A e \in Engine : (AtWork(e)' <=> AtWork(e)) /\ task'[e] = task[e] /\ copy'[e] = copy[e]
    BY <2>1 DEF AtWork, runVars
  <2>3. QED
    BY <1>0, <1>1, <2>1, <2>2, RefreshSlots
<1>3. CASE Restart
  <2>1. /\ UNCHANGED <<now, lastSlot>> /\ store' = Refresh(store)
        /\ \A e \in Engine : ~ AtWork(e)' /\ snapshot'[e][u] = Absent
    BY <1>3 DEF Restart, AtWork
  <2>2. QED
    BY <1>0, <1>1, <2>1, RefreshSlots
<1>4. ASSUME NEW n \in Engine, ReloadEnds(n) \/ ReloadAborts(n)
      PROVE  SlotOf(u)'
  <2>1. UNCHANGED <<now, lastSlot, store, snapshot, flagged, runVars>>
    BY <1>4 DEF ReloadEnds, ReloadAborts, tickVars
  <2>2. \A e \in Engine : (AtWork(e)' <=> AtWork(e)) /\ task'[e] = task[e] /\ copy'[e] = copy[e]
    BY <2>1 DEF AtWork, runVars
  <2>3. QED
    BY <1>0, <2>1, <2>2, SlotFrame
<1>5. QED
  BY <1>2, <1>3, <1>4 DEF SwitchStep

LEMMA SlotsStep ==
  TypeOK /\ RunsAreWhole /\ OneLoop /\ Slots /\ [Next]_vars => Slots'
<1> SUFFICES ASSUME TypeOK, RunsAreWhole, OneLoop, Slots, [Next]_vars
             PROVE  Slots'
  OBVIOUS
<1> USE Runners
<1>0. now \in Nat
  BY DEF TypeOK
<1>1. ASSUME Elapse \/ UNCHANGED vars, NEW u \in Task
      PROVE  SlotOf(u)'
  <2>1. UNCHANGED <<lastSlot, store, snapshot, flagged, runVars>> /\ now' \in Nat /\ now' >= now
    BY <1>0, <1>1 DEF Elapse, vars, tickVars, switchVars
  <2>2. \A e \in Engine : (AtWork(e)' <=> AtWork(e)) /\ task'[e] = task[e] /\ copy'[e] = copy[e]
    BY <2>1 DEF AtWork, runVars
  <2>3. SlotOf(u)
    BY DEF Slots
  <2>4. QED
    BY <2>1, <2>2, <2>3, SlotFrame
<1>2. CASE Elapse \/ UNCHANGED vars
  BY <1>1, <1>2 DEF Slots
<1>3. QED
  BY <1>2, TickSlots, LoopSlots, RunStepSlots, ManualSlots, RequestSlots, SwitchSlots DEF Next

-----------------------------------------------------------------------------
LEMMA InitIInv == Init => IInv
<1> SUFFICES ASSUME Init
             PROVE  IInv
  OBVIOUS
<1> USE Runners
<1>1. PICK created \in Created :
        store = [t \in Task |->
          IF created[t] = Absent THEN Absent
          ELSE [config |-> created[t], enabled |-> TRUE, status |-> "pending",
                next |-> NextRun(created[t], 0), rev |-> 1]]
  BY DEF Init
<1>2. /\ now = 0 /\ 0 \in 0 .. MaxTime /\ 0 \in 0 .. MaxEngines /\ 0 \in 0 .. MaxAttempts
      /\ 1 \in 1 .. MaxRequests /\ 0 \in -1 .. MaxRequests /\ 1 \in -1 .. MaxRequests
  BY NumbersAssumption DEF Init
<1>3. ASSUME NEW t \in Task
      PROVE  IF created[t] = Absent THEN store[t] = Absent
             ELSE /\ store[t] \in Record /\ store[t].rev = 1 /\ store[t].status = "pending"
                  /\ store[t].next > 0
  <2>1. CASE created[t] = Absent
    BY <1>1, <2>1
  <2>2. CASE created[t] # Absent
    <3>1. created[t] \in Config
      BY <2>2, CreatedAssumption
    <3>2. NextRun(created[t], 0) \in Nat /\ NextRun(created[t], 0) > 0
      BY <1>2, <3>1, NextRunType
    <3>3. store[t] = [config |-> created[t], enabled |-> TRUE, status |-> "pending",
                      next |-> NextRun(created[t], 0), rev |-> 1]
      BY <1>1, <2>2
    <3>4. QED
      BY <1>2, <2>2, <3>1, <3>2, <3>3 DEF Record, Status
  <2>3. QED
    BY <2>1, <2>2
<1>4. store \in [Task -> Record \cup {Absent}]
  BY <1>1, <1>3
<1>5. /\ \A r \in Runner : ~ AtWork(r) /\ place[r] = "idle"
      /\ \A e \in Engine, t \in Task : snapshot[e][t] = Absent
      /\ \A e \in Engine : loop[e] = IF e = 1 THEN "asleep" ELSE "none"
      /\ \A e \in Engine : tickTime[e] = 0 /\ waits[e] = 0 /\ active[e] = {} /\ sessions[e] = {}
      /\ flagged = {} /\ stopped = {} /\ engines = 1 /\ current = 1 /\ origin = 1
      /\ \A t \in Task : lastSlot[t] = 0
  BY DEF Init, AtWork
<1>6. TypeOK
  BY <1>2, <1>4 DEF Init, TypeOK
<1>7. RunsAreWhole
  <2>1. InstalledWhole /\ RunnersWhole
    <3>1. 1 \in 1 .. 1
      OBVIOUS
    <3>2. InstalledWhole
      BY <1>5, <3>1 DEF InstalledWhole
    <3>3. RunnersWhole
      BY <1>5 DEF RunnersWhole
    <3>4. QED
      BY <3>2, <3>3
  <2>2. \A e \in Engine : e > engines => loop[e] = "none"
    BY <1>5
  <2>3. ASSUME NEW e \in Engine
        PROVE  EngineWhole(e)
    <3>1. ~ AtWork(e) /\ loop[e] # "executing"
      BY <1>5
    <3>2. tickTime[e] <= now /\ e \notin flagged /\ e \notin stopped /\ waits[e] = 0
      BY <1>2, <1>5
    <3>3. \A t \in Task : snapshot[e][t] = Absent
      BY <1>5
    <3>4. QED
      BY <2>2, <3>1, <3>2, <3>3 DEF EngineWhole
  <2>4. QED
    BY <2>1, <2>3 DEF RunsAreWhole, InstalledWhole, RunnersWhole, EngineWhole
<1>8. ActiveIsExact /\ OneExecution
  <2>1. \A e \in Engine : {r \in Runner : AtWork(r) /\ by[r] = e} = {}
    BY <1>5
  <2>2. QED
    BY <1>5, <2>1 DEF ActiveIsExact, OneExecution
<1>9. CopiesAreCurrent /\ EditSticks
  <2>1. \A t \in Task : latest[t] = IF store[t] = Absent THEN 0 ELSE 1
    BY DEF Init
  <2>2. \A t \in Task : store[t] # Absent => store[t].rev = 1
    BY <1>3, CreatedAssumption
  <2>3. QED
    BY <1>5, <2>1, <2>2 DEF CopiesAreCurrent, EditSticks, Exists
<1>10. RunningIsTrue
  BY <1>3 DEF RunningIsTrue, Exists
<1>11. SlotsAdvance
  <2>1. OneLoop
    BY <1>5 DEF OneLoop, Loops
  <2>2. \A t \in Task : SlotOf(t)
    <3>1. \A t \in Task : store[t] # Absent => store[t].next > 0
      BY <1>3
    <3>2. QED
      BY <1>2, <1>5, <3>1 DEF SlotOf, Exists
  <2>3. QED
    BY <2>1, <2>2 DEF SlotsAdvance
<1>12. QED
  BY <1>6, <1>7, <1>8, <1>9, <1>10, <1>11 DEF IInv

LEMMA IInvStep == IInv /\ [Next]_vars => IInv'
<1> SUFFICES ASSUME IInv, [Next]_vars
             PROVE  IInv'
  OBVIOUS
<1>1. TypeOK' /\ RunsAreWhole'
  BY TypeStep, WholeStep DEF IInv
<1>2. ActiveIsExact' /\ OneExecution'
  BY ExactStep DEF IInv, Exact
<1>3. CopiesAreCurrent' /\ EditSticks'
  BY CurrentStep DEF IInv, Current
<1>4. RunningIsTrue'
  BY RunningStep DEF IInv
<1>5. SlotsAdvance'
  BY OneLoopStep, SlotsStep DEF IInv, SlotsAdvance, Slots
<1>6. QED
  BY <1>1, <1>2, <1>3, <1>4, <1>5 DEF IInv

(* The inductive invariant: type correctness, the shape of executions, the *)
(* exact sets of active ids, copies that are current, records that say     *)
(* truthfully that they run, and planned runs behind the last trigger.     *)
THEOREM Invariance == Spec => []IInv
<1>1. Init => IInv
  BY InitIInv
<1>2. IInv /\ [Next]_vars => IInv'
  BY IInvStep
<1>3. QED
  BY <1>1, <1>2, PTL DEF Spec

(* One engine never executes a task twice at a time, nor two tasks of one  *)
(* session: what _execute's checks of the two sets are for.                *)
THEOREM Exclusion == Spec => []OneExecution
<1>1. IInv => OneExecution
  BY DEF IInv
<1>2. QED
  BY <1>1, Invariance, PTL

(* The record is as the last request has left it unless a copy was held.   *)
THEOREM EditsStick == Spec => []EditSticks
<1>1. IInv => EditSticks
  BY DEF IInv
<1>2. QED
  BY <1>1, Invariance, PTL

(* A record says running only while it is executed, or after a cut-off.    *)
THEOREM RunningTruth == Spec => []RunningIsTrue
<1>1. IInv => RunningIsTrue
  BY DEF IInv
<1>2. QED
  BY <1>1, Invariance, PTL

(* The records say what is so: that a task runs and how it was edited.     *)
THEOREM RecordsTrue == Spec => []RecordsAreTrue
<1>1. RunningIsTrue /\ EditSticks => RecordsAreTrue
  BY DEF RecordsAreTrue
<1>2. QED
  BY <1>1, RunningTruth, EditsStick, PTL

(* When reloads do not overlap no planned run is triggered twice.          *)
THEOREM TriggeredOnce == ~ ReloadsOverlap => (Spec => []DueIsNew)
<1> SUFFICES ASSUME ~ ReloadsOverlap
             PROVE  Spec => []DueIsNew
  OBVIOUS
<1>1. IInv => DueIsNew
  BY DEF IInv, SlotsAdvance, SlotOf, DueIsNew
<1>2. QED
  BY <1>1, Invariance, PTL
=============================================================================
