------------------------------ MODULE Scheduler ------------------------------
(***************************************************************************)
(* The scheduled tasks: tasks.json, the engine's loop that starts the due  *)
(* ones, manual runs, the requests that edit tasks, and reloads, which put *)
(* a new engine in the place of the old one (scheduler_engine.py,          *)
(* task_store.py, cron_parser.py, api/routes/scheduler.py,                 *)
(* tools/impl/schedule.py, api/runtime_reload.py).                         *)
(*                                                                         *)
(* The loop reads all tasks and then executes the due ones one after the   *)
(* other; an execution works on the object that was read and writes it     *)
(* back at its end.  One event loop runs everything: an action is the code *)
(* between two suspension points, and while a loop is "ticking" it has not *)
(* suspended, so nothing else moves (see Next).                            *)
(***************************************************************************)
EXTENDS Integers, FiniteSets

CONSTANTS
  Task,           \* task ids
  Absent,         \* no record of a task
  Config,         \* configurations a user may give a task
  Cron,           \* Cron[c]: the chunks of the minute field of its expression
  Session,        \* Session[c]: the session it is bound to, or Unbound
  Unbound,
  Created,        \* which tasks a start may find, with their configurations
  Hour,           \* minutes in an hour
  NManual,        \* how many manual runs are requested
  MaxEngines,     \* bound: engines created by starts and reloads
  MaxAttempts,    \* max_retries + 1
  MaxRequests,    \* bound: editing and listing requests
  MaxTime,        \* bound: the last minute
  ReloadsOverlap  \* whether a reload may begin before the last one is over

(* cron_parser._expand_chunk: the values one chunk of a field stands for.  *)
(* A single number does not look at its step.                              *)
Expand(chunk) ==
  IF chunk.base = "number" THEN {chunk.low}
  ELSE {m \in chunk.low .. chunk.high : (m - chunk.low) % chunk.step = 0}

(* matches_cron, on the minute field.                                      *)
Matches(c, minute) == \E chunk \in Cron[c] : minute % Hour \in Expand(chunk)

(* next_run looks minute by minute for the first match behind ref; each    *)
(* request that sets a task's expression has done so once.                 *)
IsNextRun(c, ref, s) ==
  /\ s > ref /\ Matches(c, s)
  /\ \A u \in ref + 1 .. s - 1 : ~ Matches(c, u)

NextRun(c, ref) == CHOOSE s \in ref + 1 .. ref + Hour : IsNextRun(c, ref, s)

Engine == 1 .. MaxEngines
Manual == MaxEngines + 1 .. MaxEngines + NManual
Runner == Engine \cup Manual      \* engine e's loop is runner e

Chunk == [base : {"*", "range", "number"}, low : Nat, high : Nat, step : Nat \ {0}]

ASSUME NumbersAssumption ==
  /\ Hour \in Nat \ {0} /\ MaxEngines \in Nat \ {0} /\ MaxAttempts \in Nat \ {0}
  /\ NManual \in Nat /\ MaxRequests \in Nat \ {0} /\ MaxTime \in Nat
  /\ ReloadsOverlap \in BOOLEAN

ASSUME ConfigAssumption ==
  /\ \A c \in Config : Cron[c] \subseteq Chunk
  /\ \A c \in Config, ref \in 0 .. MaxTime :
       \E s \in ref + 1 .. ref + Hour : IsNextRun(c, ref, s)

Status == {"pending", "running", "completed", "failed", "disabled"}

(* A record of tasks.json.  rev is auxiliary: the request that wrote its   *)
(* configuration.                                                          *)
Record == [config : Config, enabled : BOOLEAN, status : Status,
           next : Nat, rev : 1 .. MaxRequests]

ASSUME CreatedAssumption ==
  /\ Absent \notin Record /\ Absent \notin Config /\ Absent \notin Task
  /\ Created \subseteq [Task -> Config \cup {Absent}]

VARIABLES
  now,        \* the minute
  store,      \* tasks.json
  loop,       \* none, asleep, ticking, executing, off
  stopped,    \* engines whose _running is false
  flagged,    \* engines whose loop has a pending asyncio cancellation
  snapshot,   \* what is left of the list the loop has read
  tickTime,   \* when it has read it
  active,     \* _active_task_ids
  sessions,   \* _active_session_ids
  place,      \* of a runner: idle, turn, backoff, done
  by,         \* the engine a runner executes for
  task,       \* the task it executes
  copy,       \* its object of the task
  attempt,
  engines,    \* number of engines created
  current,    \* app.state.scheduler
  origin,     \* the first engine of this process, which its tools know
  waits,      \* for an engine to be installed: the one it replaces, or 0
  requests,   \* number of requests so far
  latest,     \* auxiliary: the last request that wrote the task, 0: none, -1: deleted
  touched,    \* auxiliary: tasks edited while a copy of them was in memory
  cutOff,     \* auxiliary: tasks whose execution was cut off
  lastSlot    \* auxiliary: the last minute the task was triggered for

engineVars == <<active, sessions>>
tickVars == <<loop, snapshot, tickTime>>
runVars == <<place, by, task, copy, attempt>>
switchVars == <<stopped, flagged, engines, current, origin, waits>>
editVars == <<requests, latest, touched>>
vars == <<now, store, tickVars, engineVars, runVars, switchVars, editVars, cutOff, lastSlot>>

-----------------------------------------------------------------------------
Exists(t) == store[t] # Absent
Due(rec, time) == rec.enabled /\ rec.next <= time
AtWork(r) == place[r] \in {"turn", "backoff"}
Loops == {e \in Engine : loop[e] \in {"asleep", "ticking", "executing"}}

(* A copy of t is in memory that may be written back.                      *)
Held(t) ==
  \/ \E r \in Runner : AtWork(r) /\ task[r] = t
  \/ \E e \in Engine : snapshot[e][t] # Absent

(* _normalize_task without recompute (next_run_at is never missing).       *)
Normalize(rec) ==
  [rec EXCEPT !.status = IF ~ rec.enabled THEN "disabled"
                         ELSE IF rec.status = "disabled" THEN "pending"
                         ELSE rec.status]

(* refresh_schedule: every task's next run is computed anew.               *)
Refresh(st) ==
  [t \in Task |-> IF st[t] = Absent THEN Absent
                  ELSE [Normalize(st[t]) EXCEPT !.next = NextRun(st[t].config, now)]]

(* variant: a manual run leaves the planned run alone, due or not          *)
NextAfterKeeping(rec, kind, s) ==
  IF rec.enabled /\ kind = "manual_run" THEN rec.next
  ELSE NextRun(rec.config, IF rec.enabled THEN s ELSE now)

(* _next_run_after.                                                        *)
NextAfter(rec, kind, s) ==
  IF rec.enabled /\ kind = "manual_run" /\ rec.next > now THEN rec.next
  ELSE NextRun(rec.config, IF rec.enabled /\ kind = "cron" THEN s ELSE now)

(* variant: a run that ends without success leaves the status alone        *)
FinalizedKeeping(rec, outcome, kind, s) ==
  LET enabled == rec.enabled /\ outcome # "skipped_missing_session" IN
  [rec EXCEPT !.enabled = enabled,
              !.status = CASE outcome = "success" -> "completed"
                           [] outcome = "failed" -> rec.status
                           [] outcome = "skipped_conflict" -> "pending"
                           [] outcome = "skipped_missing_session" -> "disabled",
              !.next = NextAfter([rec EXCEPT !.enabled = enabled], kind, s)]

(* _finalize_success and _finalize_non_success ("failed" is also           *)
(* approval_blocked): what is written back.                                *)
Finalized(rec, outcome, kind, s) ==
  LET enabled == rec.enabled /\ outcome # "skipped_missing_session" IN
  [rec EXCEPT !.enabled = enabled,
              !.status = CASE outcome = "success" -> "completed"
                           [] outcome = "failed" -> "failed"
                           [] outcome = "skipped_conflict" -> "pending"
                           [] outcome = "skipped_missing_session" -> "disabled",
              !.next = NextAfter([rec EXCEPT !.enabled = enabled], kind, s)]

Kind(r) == IF r \in Engine THEN "cron" ELSE "manual_run"

(* upsert; a task that has been cut off is so until its status is written. *)
Upsert(t, rec) ==
  /\ store' = [store EXCEPT ![t] = rec]
  /\ cutOff' = cutOff \ {t}

(* The runner's object is dropped.                                         *)
Forget(r, where) ==
  /\ place' = [place EXCEPT ![r] = where]
  /\ by' = [by EXCEPT ![r] = 0]
  /\ task' = [task EXCEPT ![r] = Absent] /\ copy' = [copy EXCEPT ![r] = Absent]
  /\ attempt' = [attempt EXCEPT ![r] = 0]

Leave(r) == Forget(r, IF r \in Manual THEN "done" ELSE "idle")

(* The process starts with the tasks some request has created before.      *)
Init ==
  /\ now = 0
  /\ \E created \in Created :
       store = [t \in Task |->
         IF created[t] = Absent THEN Absent
         ELSE [config |-> created[t], enabled |-> TRUE, status |-> "pending",
               next |-> NextRun(created[t], 0), rev |-> 1]]
  /\ loop = [e \in Engine |-> IF e = 1 THEN "asleep" ELSE "none"]
  /\ stopped = {} /\ flagged = {}
  /\ snapshot = [e \in Engine |-> [t \in Task |-> Absent]]
  /\ tickTime = [e \in Engine |-> 0]
  /\ active = [e \in Engine |-> {}] /\ sessions = [e \in Engine |-> {}]
  /\ place = [r \in Runner |-> "idle"] /\ by = [r \in Runner |-> 0]
  /\ task = [r \in Runner |-> Absent] /\ copy = [r \in Runner |-> Absent]
  /\ attempt = [r \in Runner |-> 0]
  /\ engines = 1 /\ current = 1 /\ origin = 1 /\ waits = [e \in Engine |-> 0]
  /\ requests = 1 /\ touched = {}
  /\ latest = [t \in Task |-> IF store[t] = Absent THEN 0 ELSE 1]
  /\ cutOff = {} /\ lastSlot = [t \in Task |-> 0]

-----------------------------------------------------------------------------
(* _execute.                                                               *)

(* variant: a skipped trigger runs through the finally block, too          *)
SkipDiscarding(r, e, t, rec) ==
  /\ t \in active[e]
  /\ Upsert(t, Finalized(rec, "skipped_conflict", Kind(r), rec.next))
  /\ active' = [active EXCEPT ![e] = @ \ {t}]
  /\ UNCHANGED <<sessions, runVars>>

(* The trigger is skipped: the task is executing, its session does not     *)
(* exist any more, or its session is busy with a task or with a request.   *)
Skip(r, e, t, rec) ==
  /\ \E outcome \in {"skipped_conflict", "skipped_missing_session"} :
       /\ outcome = "skipped_missing_session" =>
            t \notin active[e] /\ Session[rec.config] # Unbound
       /\ outcome = "skipped_conflict" =>
            t \in active[e] \/ Session[rec.config] # Unbound
       /\ Upsert(t, Finalized(rec, outcome, Kind(r), rec.next))
  /\ UNCHANGED <<engineVars, runVars>>

(* The execution begins: the first attempt runs into handle_message.       *)
Start(r, e, t, rec) ==
  /\ t \notin active[e] /\ Session[rec.config] \notin sessions[e]
  /\ active' = [active EXCEPT ![e] = @ \cup {t}]
  /\ sessions' = [sessions EXCEPT ![e] = (@ \cup {Session[rec.config]}) \ {Unbound}]
  /\ place' = [place EXCEPT ![r] = "turn"] /\ by' = [by EXCEPT ![r] = e]
  /\ task' = [task EXCEPT ![r] = t] /\ attempt' = [attempt EXCEPT ![r] = 1]
  /\ copy' = [copy EXCEPT ![r] = [rec EXCEPT !.status = "running"]]
  /\ Upsert(t, [rec EXCEPT !.status = "running"])

(* The finally block: the ids are discarded.                               *)
Discard(r) ==
  /\ active' = [active EXCEPT ![by[r]] = @ \ {task[r]}]
  /\ sessions' = [sessions EXCEPT ![by[r]] = @ \ {Session[copy[r].config]}]

(* The turn raised and an attempt is left: sleep, then try again.          *)
BackOff(r) ==
  /\ place[r] = "turn" /\ r \notin flagged /\ attempt[r] < MaxAttempts
  /\ place' = [place EXCEPT ![r] = "backoff"]
  /\ UNCHANGED <<now, store, tickVars, engineVars, by, task, copy, attempt,
                 switchVars, editVars, cutOff, lastSlot>>

Retry(r) ==
  /\ place[r] = "backoff" /\ r \notin flagged
  /\ place' = [place EXCEPT ![r] = "turn"]
  /\ attempt' = [attempt EXCEPT ![r] = @ + 1]
  /\ UNCHANGED <<now, store, tickVars, engineVars, by, task, copy,
                 switchVars, editVars, cutOff, lastSlot>>

(* The execution ends with a result, or with the error of its last         *)
(* attempt; the object it began with, whose next run is still the one a    *)
(* cron trigger was for, is written back.  The loop goes on with its list. *)
Complete(r) ==
  /\ place[r] = "turn" /\ r \notin flagged
  /\ \E outcome \in {"success", "failed"} :
       Upsert(task[r], Finalized(copy[r], outcome, Kind(r), copy[r].next))
  /\ Discard(r) /\ Leave(r)
  /\ loop' = IF r \in Engine THEN [loop EXCEPT ![r] = "ticking"] ELSE loop
  /\ UNCHANGED <<now, snapshot, tickTime, switchVars, editVars, lastSlot>>

(* CancelledError: no except clause sees it, the record stays as it is.    *)
CutOff(r) ==
  /\ AtWork(r)
  /\ cutOff' = cutOff \cup {task[r]}
  /\ Discard(r) /\ Leave(r)

-----------------------------------------------------------------------------
(* The loop.                                                               *)

TickBegins(e) ==
  /\ loop[e] = "asleep" /\ e \notin stopped \cup flagged
  /\ loop' = [loop EXCEPT ![e] = "ticking"]
  /\ snapshot' = [snapshot EXCEPT ![e] = store]
  /\ tickTime' = [tickTime EXCEPT ![e] = now]
  /\ UNCHANGED <<now, store, engineVars, runVars, switchVars, editVars, cutOff, lastSlot>>

(* The next task of the list is not due; what normalizing has changed in   *)
(* it is saved.                                                            *)
TickPasses(e, t) ==
  LET rec == snapshot[e][t] IN
  /\ loop[e] = "ticking" /\ rec # Absent
  /\ ~ Due(rec, tickTime[e])
  /\ snapshot' = [snapshot EXCEPT ![e][t] = Absent]
  /\ IF Normalize(rec) = rec THEN UNCHANGED <<store, cutOff>> ELSE Upsert(t, Normalize(rec))
  /\ UNCHANGED <<now, loop, tickTime, engineVars, runVars, switchVars, editVars, lastSlot>>

(* variant: the error of a missing session is not caught and ends the loop *)
TickTriggersRaising(e, t) ==
  LET rec == snapshot[e][t] IN
  /\ loop[e] = "ticking" /\ rec # Absent
  /\ Due(rec, tickTime[e])
  /\ snapshot' = [snapshot EXCEPT ![e][t] = Absent]
  /\ lastSlot' = [lastSlot EXCEPT ![t] = rec.next]
  /\ \/ /\ Start(e, e, t, Normalize(rec)) /\ loop' = [loop EXCEPT ![e] = "executing"]
     \/ /\ t \notin active[e] /\ Session[rec.config] # Unbound
        /\ loop' = [loop EXCEPT ![e] = "off"]
        /\ UNCHANGED <<store, cutOff, engineVars, runVars>>
  /\ UNCHANGED <<now, tickTime, switchVars, editVars>>

TickTriggers(e, t) ==
  LET rec == snapshot[e][t] IN
  /\ loop[e] = "ticking" /\ rec # Absent
  /\ Due(rec, tickTime[e])
  /\ snapshot' = [snapshot EXCEPT ![e][t] = Absent]
  /\ lastSlot' = [lastSlot EXCEPT ![t] = rec.next]
  /\ \/ Skip(e, e, t, Normalize(rec)) /\ UNCHANGED loop
     \/ Start(e, e, t, Normalize(rec)) /\ loop' = [loop EXCEPT ![e] = "executing"]
  /\ UNCHANGED <<now, tickTime, switchVars, editVars>>

(* The list is done: sleep(1).                                             *)
TickEnds(e) ==
  /\ loop[e] = "ticking" /\ \A t \in Task : snapshot[e][t] = Absent
  /\ loop' = [loop EXCEPT ![e] = "asleep"]
  /\ tickTime' = [tickTime EXCEPT ![e] = 0]
  /\ UNCHANGED <<now, store, snapshot, engineVars, runVars, switchVars, editVars,
                 cutOff, lastSlot>>

(* The loop finds _running false, or the cancellation is delivered.        *)
LoopEnds(e) ==
  /\ \/ loop[e] = "asleep" /\ e \in stopped
        /\ UNCHANGED <<engineVars, runVars, cutOff>>
     \/ loop[e] = "executing" /\ e \in flagged
        /\ CutOff(e)
  /\ loop' = [loop EXCEPT ![e] = "off"]
  /\ flagged' = flagged \ {e}
  /\ snapshot' = [snapshot EXCEPT ![e] = [t \in Task |-> Absent]]
  /\ tickTime' = [tickTime EXCEPT ![e] = 0]
  /\ UNCHANGED <<now, store, stopped, engines, current, origin, waits, editVars, lastSlot>>

(* The turn was inside wait_for, what it waited for is just done: Python   *)
(* 3.11 drops the cancellation, the loop works its list off.               *)
CancelDropped(e) ==
  /\ loop[e] = "executing" /\ place[e] = "turn" /\ e \in flagged
  /\ flagged' = flagged \ {e}
  /\ UNCHANGED <<now, store, tickVars, engineVars, runVars, stopped, engines, current,
                 origin, waits, editVars, cutOff, lastSlot>>

-----------------------------------------------------------------------------
(* POST /tasks/{id}/run and the tool's run, which in a turn of a runtime   *)
(* that has been replaced asks the engine it knows.                        *)
RunNow(m, t) ==
  /\ place[m] = "idle" /\ Exists(t)
  /\ \E e \in {current, origin} :
       \/ Skip(m, e, t, Normalize(store[t]))
       \/ Start(m, e, t, Normalize(store[t]))
  /\ UNCHANGED <<now, tickVars, switchVars, editVars, lastSlot>>

(* The tool's deadline has passed or the turn it is called by is stopped.  *)
ManualCancelled(m) ==
  /\ CutOff(m)
  /\ UNCHANGED <<now, store, tickVars, switchVars, editVars, lastSlot>>

-----------------------------------------------------------------------------
(* Requests.  They all end with refresh_schedule; only the tool of a       *)
(* runtime that was installed by a reload knows no engine to refresh.      *)
Refreshed(st) ==
  \/ store' = Refresh(st)
  \/ origin # current /\ store' = st

Edits(t) ==
  /\ requests < MaxRequests
  /\ requests' = requests + 1
  /\ touched' = IF Held(t) THEN touched \cup {t} ELSE touched
  /\ UNCHANGED <<now, tickVars, engineVars, runVars, switchVars, cutOff, lastSlot>>

CreateTask(t) ==
  /\ latest[t] = 0
  /\ Edits(t) /\ latest' = [latest EXCEPT ![t] = requests']
  /\ \E c \in Config, enabled \in BOOLEAN :
       Refreshed([store EXCEPT ![t] =
         [config |-> c, enabled |-> enabled, status |-> "pending",
          next |-> NextRun(c, now), rev |-> requests']])

(* PATCH and the tool's update.                                            *)
UpdateTask(t) ==
  /\ Exists(t)
  /\ Edits(t) /\ latest' = [latest EXCEPT ![t] = requests']
  /\ \E c \in Config, enabled \in BOOLEAN :
       Refreshed([store EXCEPT ![t] =
         [@ EXCEPT !.config = c, !.enabled = enabled, !.next = NextRun(c, now),
                   !.rev = requests']])

(* enable and disable.                                                     *)
SwitchTask(t) ==
  /\ Exists(t)
  /\ Edits(t) /\ latest' = [latest EXCEPT ![t] = requests']
  /\ \E enabled \in BOOLEAN :
       store' = Refresh([store EXCEPT ![t] = [@ EXCEPT !.enabled = enabled, !.rev = requests']])

DeleteTask(t) ==
  /\ Exists(t)
  /\ Edits(t) /\ latest' = [latest EXCEPT ![t] = -1]
  /\ Refreshed([store EXCEPT ![t] = Absent])

(* GET /tasks refreshes as well: a run that is due and not yet started is  *)
(* skipped.                                                                *)
ListTasks ==
  /\ requests < MaxRequests
  /\ requests' = requests + 1
  /\ store' = Refresh(store)
  /\ UNCHANGED <<now, tickVars, engineVars, runVars, switchVars, latest, touched,
                 cutOff, lastSlot>>

-----------------------------------------------------------------------------
(* reload_project_runtime: the next engine is made, the schedule refreshed *)
(* and the previous engine stopped, which waits for its loop.              *)
ReloadBegins ==
  /\ engines < MaxEngines
  /\ ReloadsOverlap \/ \A e \in Engine : waits[e] = 0
  /\ engines' = engines + 1
  /\ waits' = [waits EXCEPT ![engines + 1] = current]
  /\ store' = Refresh(store)
  /\ stopped' = stopped \cup {current}
  /\ flagged' = flagged \cup ({current} \cap Loops)
  /\ UNCHANGED <<now, tickVars, engineVars, runVars, current, origin, editVars,
                 cutOff, lastSlot>>

ReloadEnds(n) ==
  /\ waits[n] # 0 /\ waits[n] \notin Loops
  /\ waits' = [waits EXCEPT ![n] = 0]
  /\ current' = n /\ loop' = [loop EXCEPT ![n] = "asleep"]
  /\ UNCHANGED <<now, store, snapshot, tickTime, engineVars, runVars, stopped, flagged,
                 engines, origin, editVars, cutOff, lastSlot>>

(* Stopping the channels raises: nothing is replaced and nothing started.  *)
ReloadAborts(n) ==
  /\ waits[n] # 0 /\ waits[n] \notin Loops
  /\ waits' = [waits EXCEPT ![n] = 0]
  /\ UNCHANGED <<now, store, tickVars, engineVars, runVars, stopped, flagged, engines,
                 current, origin, editVars, cutOff, lastSlot>>

(* The process ends in whatever it does and starts again.                  *)
Restart ==
  /\ engines < MaxEngines
  /\ engines' = engines + 1 /\ current' = engines + 1 /\ origin' = engines + 1
  /\ waits' = [e \in Engine |-> 0] /\ flagged' = {} /\ stopped' = {}
  /\ loop' = [e \in Engine |-> IF e < engines + 1 THEN "off"
                               ELSE IF e = engines + 1 THEN "asleep" ELSE "none"]
  /\ snapshot' = [e \in Engine |-> [t \in Task |-> Absent]]
  /\ tickTime' = [e \in Engine |-> 0]
  /\ active' = [e \in Engine |-> {}] /\ sessions' = [e \in Engine |-> {}]
  /\ cutOff' = cutOff \cup {task[r] : r \in {q \in Runner : AtWork(q)}}
  /\ place' = [r \in Runner |-> IF r \in Manual /\ place[r] # "idle" THEN "done" ELSE "idle"]
  /\ by' = [r \in Runner |-> 0]
  /\ task' = [r \in Runner |-> Absent] /\ copy' = [r \in Runner |-> Absent]
  /\ attempt' = [r \in Runner |-> 0]
  /\ store' = Refresh(store)
  /\ UNCHANGED <<now, editVars, lastSlot>>

Elapse ==
  /\ now < MaxTime /\ now' = now + 1
  /\ UNCHANGED <<store, tickVars, engineVars, runVars, switchVars, editVars, cutOff, lastSlot>>

-----------------------------------------------------------------------------
TickStep(e) ==
  \/ \E t \in Task : TickPasses(e, t) \/ TickTriggers(e, t)
  \/ TickEnds(e)

RunStep(r) == BackOff(r) \/ Retry(r) \/ Complete(r)

LoopStep(e) == TickBegins(e) \/ LoopEnds(e) \/ CancelDropped(e)

ManualStep(m) == (\E t \in Task : RunNow(m, t)) \/ ManualCancelled(m)

RequestStep ==
  \/ \E t \in Task : CreateTask(t) \/ UpdateTask(t) \/ SwitchTask(t) \/ DeleteTask(t)
  \/ ListTasks

SwitchStep == ReloadBegins \/ (\E n \in Engine : ReloadEnds(n) \/ ReloadAborts(n)) \/ Restart

Ticking == \E e \in Engine : loop[e] = "ticking"

Next ==
  \/ \E e \in Engine : TickStep(e)
  \/ /\ ~ Ticking
     /\ \/ \E e \in Engine : LoopStep(e)
        \/ \E r \in Runner : RunStep(r)
        \/ \E m \in Manual : ManualStep(m)
        \/ RequestStep \/ SwitchStep \/ Elapse

(* The event loop runs what is ready; executions end (turns do, attempts   *)
(* are bounded), and a reload goes on when the loop it waits for is off.   *)
(* Users and the clock owe nothing.                                        *)
Fairness ==
  /\ \A e \in Engine : WF_vars(TickStep(e)) /\ WF_vars(~ Ticking /\ TickBegins(e))
  /\ \A r \in Runner : WF_vars(~ Ticking /\ (Retry(r) \/ Complete(r)))

Spec == Init /\ [][Next]_vars /\ Fairness

-----------------------------------------------------------------------------
(* In one engine a task is executed by one at a time, and so are the tasks *)
(* of one session, whoever starts them and whoever is cut off (_execute:   *)
(* "still executing: this trigger is skipped").                            *)
OneExecution ==
  \A q, r \in Runner :
    AtWork(q) /\ AtWork(r) /\ q # r /\ by[q] = by[r] =>
      /\ task[q] # task[r]
      /\ Session[copy[q].config] = Unbound \/ Session[copy[q].config] # Session[copy[r].config]

(* A planned run is triggered once: what the loop is about to trigger lies *)
(* behind all earlier triggers of the task, whatever copies have been      *)
(* written over the record in between.                                     *)
DueIsNew ==
  \A e \in Engine, t \in Task :
    snapshot[e][t] # Absent /\ Due(snapshot[e][t], tickTime[e])
      => snapshot[e][t].next > lastSlot[t]

(* A record that says running tells the truth, or its execution has been   *)
(* cut off by a cancellation or a crash and nothing has written it since.  *)
RunningIsTrue ==
  \A t \in Task :
    Exists(t) /\ store[t].status = "running" /\ t \notin cutOff
      => \E r \in Runner : AtWork(r) /\ task[r] = t

(* The record is as the last request has left it, a deleted task stays     *)
(* deleted, unless somebody held a copy when it was edited.                *)
EditSticks ==
  \A t \in Task \ touched :
    IF latest[t] > 0 THEN Exists(t) /\ store[t].rev = latest[t] ELSE ~ Exists(t)

(* What the records say is so: that a task runs, and what the last request *)
(* has made of it.                                                         *)
RecordsAreTrue == RunningIsTrue /\ EditSticks

(* A due task is triggered, made anew by a request, or its engine has been *)
(* stopped: no error, no skipped trigger and no cancellation ends a loop.  *)
DueIsTriggered ==
  \A t \in Task :
    (Exists(t) /\ Due(store[t], now))
      ~> (~ Exists(t) \/ ~ Due(store[t], now) \/ current \in stopped)

-----------------------------------------------------------------------------
TypeOK ==
  /\ now \in 0 .. MaxTime
  /\ store \in [Task -> Record \cup {Absent}]
  /\ loop \in [Engine -> {"none", "asleep", "ticking", "executing", "off"}]
  /\ stopped \subseteq Engine /\ flagged \subseteq Engine
  /\ snapshot \in [Engine -> [Task -> Record \cup {Absent}]]
  /\ tickTime \in [Engine -> 0 .. MaxTime]
  /\ active \in [Engine -> SUBSET Task]
  /\ sessions \in [Engine -> SUBSET {Session[c] : c \in Config}]
  /\ place \in [Runner -> {"idle", "turn", "backoff", "done"}]
  /\ by \in [Runner -> 0 .. MaxEngines]
  /\ task \in [Runner -> Task \cup {Absent}]
  /\ copy \in [Runner -> Record \cup {Absent}]
  /\ attempt \in [Runner -> 0 .. MaxAttempts]
  /\ engines \in Engine /\ current \in Engine /\ origin \in Engine
  /\ waits \in [Engine -> 0 .. MaxEngines]
  /\ requests \in 1 .. MaxRequests
  /\ latest \in [Task -> -1 .. MaxRequests]
  /\ touched \subseteq Task /\ cutOff \subseteq Task
  /\ lastSlot \in [Task -> Nat]

(* Who is at work has a task and a copy, and works for a created engine; a *)
(* loop executes what was due.                                             *)
RunsAreWhole ==
  /\ current \in 1 .. engines /\ origin \in 1 .. engines
  /\ \A r \in Runner : AtWork(r) =>
       /\ by[r] \in 1 .. engines /\ task[r] \in Task /\ copy[r] \in Record
       /\ attempt[r] > 0
       /\ place[r] = "backoff" => attempt[r] < MaxAttempts
  /\ \A e \in Engine :
       /\ AtWork(e) <=> loop[e] = "executing"
       /\ AtWork(e) => by[e] = e /\ copy[e].next <= now
       /\ tickTime[e] <= now
       /\ e \in flagged => loop[e] \in {"asleep", "executing"} /\ e \in stopped
       /\ e > engines => loop[e] = "none" /\ e \notin stopped /\ waits[e] = 0
       /\ waits[e] # 0 => loop[e] = "none"
       /\ \A t \in Task : snapshot[e][t] # Absent => loop[e] \in {"ticking", "executing"}

(* The sets an engine looks into are exact.                                *)
ActiveIsExact ==
  \A e \in Engine :
    LET mine == {r \in Runner : AtWork(r) /\ by[r] = e} IN
    /\ active[e] = {task[r] : r \in mine}
    /\ sessions[e] = {Session[copy[r].config] : r \in mine} \ {Unbound}

(* Nobody holds an old copy of a task that is not touched.                 *)
CopiesAreCurrent ==
  \A t \in Task \ touched :
    /\ \A r \in Runner : AtWork(r) /\ task[r] = t
         => latest[t] > 0 /\ copy[r].rev = latest[t]
    /\ \A e \in Engine : snapshot[e][t] # Absent
         => latest[t] > 0 /\ snapshot[e][t].rev = latest[t]

(* With one reload at a time there is one loop, and the planned run lies   *)
(* behind the last trigger unless that is being executed.                  *)
OneLoop ==
  /\ \A e \in Loops : e = current
  /\ \A n \in Engine : waits[n] # 0 =>
       waits[n] = current /\ \A m \in Engine : waits[m] # 0 => m = n

SlotOf(t) ==
  /\ lastSlot[t] <= now
  /\ Exists(t) =>
       \/ store[t].next > lastSlot[t]
       \/ \E e \in Engine \ flagged : AtWork(e) /\ task[e] = t
  /\ \A e \in Engine :
       /\ snapshot[e][t] # Absent => snapshot[e][t].next > lastSlot[t]
       /\ AtWork(e) /\ task[e] = t => copy[e].next = lastSlot[t]

SlotsAdvance == ~ ReloadsOverlap => OneLoop /\ \A t \in Task : SlotOf(t)

IInv ==
  /\ TypeOK /\ RunsAreWhole /\ ActiveIsExact /\ OneExecution
  /\ CopiesAreCurrent /\ EditSticks /\ RunningIsTrue /\ SlotsAdvance

=============================================================================
