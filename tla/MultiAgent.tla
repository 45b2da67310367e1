---------------------------- MODULE MultiAgent ----------------------------
(***************************************************************************)
(* One multiagent run: MultiAgentManager and SubagentRunner               *)
(* (backend/subagents/manager.py, runner.py) with the cancellation         *)
(* registry and the run's record on disk (cancellation.py, store.py).      *)
(*                                                                         *)
(* run_sync builds the tasks, saves the record and drives the tasks, one   *)
(* after another ("sequential") or under a semaphore ("parallel").  Each   *)
(* task is run by a worker, an asyncio task of its own.  Meanwhile the     *)
(* REST handlers cancel tasks or the run and answer failure questions.     *)
(* Handlers work on a fresh copy of the record, the loop and the workers   *)
(* on the objects they hold in memory, and both save to the same record.   *)
(*                                                                         *)
(* One event loop runs everything: an action is the code between two       *)
(* suspension points.  "failed" stands for failed, timed_out and           *)
(* report_invalid (the manager treats them alike), "running" for running,  *)
(* waiting_file_lock and waiting_approval.                                 *)
(***************************************************************************)
EXTENDS Integers, FiniteSets

CONSTANTS Agents,       \* number of agents of the request
          MaxRetries,   \* bound: retry tasks the user may queue
          MaxParallel,  \* settings.subagents.max_parallel_agents
          Modes,        \* request modes considered
          Policies      \* effective on_subagent_failure policies considered

ASSUME AgentsAssumption == Agents \in Nat \ {0}
ASSUME RetriesAssumption == MaxRetries \in Nat
ASSUME ParallelAssumption == MaxParallel \in Nat \ {0}
ASSUME ModesAssumption == Modes \subseteq {"parallel", "sequential"}
ASSUME PoliciesAssumption == Policies \subseteq {"ask_user", "continue", "abort"}

Original == 1 .. Agents                    \* run_sync's `tasks`
Task == 1 .. (Agents + MaxRetries)         \* and the retries, in creation order

VARIABLES
  mode, policy,   \* of the request
  phase,          \* run_sync: running, reporting, returned, cancelled, crashed
  outer,          \* run_sync's own asyncio task has been cancelled
  stopped,        \* the sequential loop was left by break
  reloaded,       \* the sequential loop re-read its tasks from the record
  step,           \* where the loop is with a task, see Step
  result,         \* status of the task object _run_registered_task returned
  worker,         \* the task's worker, see Worker
  flagged,        \* workers with a pending asyncio cancellation
  indexed,        \* _active_run_task_ids[run_id]
  mem,            \* status of the task objects the loop and the workers hold
  orig,           \* status of run_sync's task objects (mem, until reloaded)
  memRun,         \* status of the run object the loop holds
  disk,           \* record: task status
  runStatus,      \* record: run.status
  pendingIds,     \* record: run.pending_failure_task_ids
  decision,       \* record: run.failure_decision
  cancelAt,       \* record: run.cancel_requested_at is set
  reqRun, reqTask \* CancellationRegistry: the run's request, task requests

loopVars == <<phase, outer, stopped, reloaded, step, result>>
workerVars == <<worker, flagged, indexed>>
memVars == <<mem, orig, memRun>>
runVars == <<runStatus, pendingIds, decision, cancelAt>>
reqVars == <<reqRun, reqTask>>
vars == <<mode, policy, loopVars, workerVars, memVars, disk, runVars, reqVars>>

Terminal == {"completed", "failed", "cancelled"}
TaskStatus == Terminal \cup {"absent", "pending", "running"}
RunTerminal == Terminal \cup {"partial"}
RunStatus == RunTerminal \cup {"running", "waiting"}
Phase == {"running", "reporting", "returned", "cancelled", "crashed"}
Step == {"absent", "queued", "gate", "awaiting", "settling", "asking", "done", "raised"}
Worker == {"none", "created", "active", "returned", "cancelled", "stopped"}
Decision == {"none", "retry_failed", "continue", "abort"}

TypeOK ==
  /\ mode \in Modes /\ policy \in Policies
  /\ phase \in Phase
  /\ outer \in BOOLEAN /\ stopped \in BOOLEAN /\ reloaded \in BOOLEAN
  /\ step \in [Task -> Step]
  /\ result \in [Task -> TaskStatus]
  /\ worker \in [Task -> Worker]
  /\ flagged \in SUBSET Task /\ indexed \in SUBSET Task
  /\ mem \in [Task -> TaskStatus] /\ orig \in [Task -> TaskStatus]
  /\ memRun \in RunStatus
  /\ disk \in [Task -> TaskStatus]
  /\ runStatus \in RunStatus
  /\ pendingIds \in SUBSET Task
  /\ decision \in Decision
  /\ cancelAt \in BOOLEAN
  /\ reqRun \in BOOLEAN /\ reqTask \in SUBSET Task

(* run_sync has validated the request and saved the run and its tasks.     *)
Init ==
  /\ mode \in Modes /\ policy \in Policies
  /\ phase = "running" /\ outer = FALSE /\ stopped = FALSE /\ reloaded = FALSE
  /\ step = [t \in Task |-> IF t \in Original THEN "queued" ELSE "absent"]
  /\ result = [t \in Task |-> "absent"]
  /\ worker = [t \in Task |-> "none"] /\ flagged = {} /\ indexed = {}
  /\ disk = [t \in Task |-> IF t \in Original THEN "pending" ELSE "absent"]
  /\ mem = disk /\ orig = disk
  /\ memRun = "running" /\ runStatus = "running"
  /\ pendingIds = {} /\ decision = "none" /\ cancelAt = FALSE
  /\ reqRun = FALSE /\ reqTask = {}

-----------------------------------------------------------------------------
Live(t) == worker[t] \in {"created", "active"}
Requested(t) == reqRun \/ t \in reqTask             \* request_for_task
InRecord(d) == {t \in Task : d[t] # "absent"}
InLoop == {t \in Task : step[t] # "absent"}         \* the loop's `tasks`
AllTerminal(d) == \A t \in InRecord(d) : d[t] \in Terminal
(* variant: terminal tasks are cancelled too *)
CancelAll(d, S) == [t \in Task |-> IF t \in S /\ d[t] # "absent" THEN "cancelled" ELSE d[t]]
Cancel(d, S) == [t \in Task |-> IF t \in S /\ d[t] \notin Terminal \cup {"absent"}
                                THEN "cancelled" ELSE d[t]]
Overwrite(d, S, m) == [t \in Task |-> IF t \in S THEN m[t] ELSE d[t]]

(* variant: cancelled tasks are not counted as failed *)
AggregateFailures(rs, d, S) ==
  LET bad == {t \in S : d[t] = "failed"} IN
  IF bad = {} THEN "completed" ELSE IF bad # S THEN "partial" ELSE "failed"

(* aggregate_multiagent_report: a task that is not terminal counts as      *)
(* failed (missing_report).  A subagent that reports itself timed out,     *)
(* which the code puts before cancelled, is one that failed here.          *)
Aggregate(rs, d, S) ==
  LET bad == {t \in S : d[t] # "completed"} IN
  IF bad = {} THEN "completed"
  ELSE IF bad # S THEN "partial"
  ELSE IF rs = "cancelled" \/ \E t \in S : d[t] = "cancelled" THEN "cancelled"
  ELSE "failed"

(* The task object in memory changes; run_sync's object is the same one    *)
(* unless the loop has re-read its tasks.                                  *)
SetMem(m) ==
  /\ mem' = m
  /\ orig' = IF reloaded THEN orig ELSE m

ClearRequests == reqRun' = FALSE /\ reqTask' = {}

(* _finalize_run_if_terminal, after a handler saved the tasks as d and     *)
(* registered the requests rr and rt.                                      *)
FinalizeIfTerminal(d, rr, rt) ==
  IF AllTerminal(d) /\ runStatus # "waiting"
  THEN /\ runStatus' = Aggregate(runStatus, d, InRecord(d))
       /\ ClearRequests
  ELSE /\ UNCHANGED runStatus
       /\ reqRun' = rr /\ reqTask' = rt

-----------------------------------------------------------------------------
(* The worker: SubagentRunner.run in an asyncio task of its own.           *)

(* First step.  The request is checked before run's try block, so the      *)
(* SubagentStop leaves the worker as an exception; a worker cancelled      *)
(* before its first step does nothing at all.                              *)
WorkerStart(t) ==
  /\ worker[t] = "created"
  /\ \/ /\ t \in flagged
        /\ worker' = [worker EXCEPT ![t] = "cancelled"]
        /\ UNCHANGED <<mem, orig, disk>>
     \/ /\ t \notin flagged /\ Requested(t)
        /\ worker' = [worker EXCEPT ![t] = "stopped"]
        /\ UNCHANGED <<mem, orig, disk>>
     \/ /\ t \notin flagged /\ ~ Requested(t)
        /\ worker' = [worker EXCEPT ![t] = "active"]
        /\ SetMem([mem EXCEPT ![t] = "running"])
        /\ disk' = [disk EXCEPT ![t] = "running"]
  /\ UNCHANGED <<mode, policy, loopVars, flagged, indexed, memRun, runVars, reqVars>>

(* The worker saves its own task object between provider and tool calls;   *)
(* after a file lock wait it has set the status to running.                *)
WorkerSave(t) ==
  /\ worker[t] = "active" /\ t \notin flagged
  /\ \E s \in {mem[t], "running"} :
       /\ SetMem([mem EXCEPT ![t] = s])
       /\ disk' = [disk EXCEPT ![t] = s]
  /\ UNCHANGED <<mode, policy, loopVars, workerVars, memRun, runVars, reqVars>>

WorkerEnds(t, s, how) ==
  /\ SetMem([mem EXCEPT ![t] = s])
  /\ disk' = [disk EXCEPT ![t] = s]
  /\ worker' = [worker EXCEPT ![t] = how]
  /\ UNCHANGED <<mode, policy, loopVars, flagged, indexed, memRun, runVars, reqVars>>

(* The last response is a report; requests are checked when it arrives.    *)
WorkerReport(t) ==
  /\ worker[t] = "active" /\ t \notin flagged /\ ~ Requested(t)
  /\ \E s \in Terminal : WorkerEnds(t, s, "returned")

(* Provider error or any other exception: no check on this path.           *)
WorkerError(t) ==
  /\ worker[t] = "active" /\ t \notin flagged
  /\ WorkerEnds(t, "failed", "returned")

(* _raise_if_cancelled inside the try block.                               *)
WorkerStop(t) ==
  /\ worker[t] = "active" /\ t \notin flagged /\ Requested(t)
  /\ WorkerEnds(t, "cancelled", "returned")

(* CancelledError reaches the worker.                                      *)
WorkerCancelled(t) ==
  /\ worker[t] = "active" /\ t \in flagged
  /\ WorkerEnds(t, "cancelled", "cancelled")

WorkerStep(t) ==
  \/ WorkerStart(t) \/ WorkerSave(t) \/ WorkerReport(t)
  \/ WorkerError(t) \/ WorkerStop(t) \/ WorkerCancelled(t)

-----------------------------------------------------------------------------
(* The loop: _run_tasks and, in parallel mode, its run_task coroutines.    *)

Slots == IF mode = "parallel" THEN MaxParallel ELSE 1

InSlot == {t \in Task : step[t] \in {"gate", "awaiting", "settling", "asking"}}

(* The next task of the list; the semaphore serves its waiters in order.   *)
IsNext(t) ==
  /\ step[t] = "queued"
  /\ \A u \in Task : u < t => step[u] # "queued"
  /\ Cardinality(InSlot) < Slots
  /\ mode = "sequential" => ~ stopped /\ phase = "running"
  /\ ~ outer

(* _run_registered_task up to `await worker`.                              *)
CreateWorker(t) ==
  /\ worker' = [worker EXCEPT ![t] = "created"]
  /\ indexed' = indexed \cup {t}
  /\ step' = [step EXCEPT ![t] = "awaiting"]
  /\ UNCHANGED <<phase, outer, stopped, reloaded, result, flagged>>

(* A task that is terminal in memory is not run, only reported.            *)
SkipTask(t) ==
  /\ step' = [step EXCEPT ![t] = "settling"]
  /\ result' = [result EXCEPT ![t] = mem[t]]
  /\ UNCHANGED <<phase, outer, stopped, reloaded, workerVars>>

(* A slot is free for the next task.  In sequential mode the task gets the *)
(* reports of its predecessors and is saved from memory.                   *)
Begin(t) ==
  /\ IsNext(t)
  /\ \/ /\ mode = "parallel" /\ memRun = "waiting"
        /\ step' = [step EXCEPT ![t] = "gate"]
        /\ UNCHANGED <<phase, outer, stopped, reloaded, result, workerVars, disk>>
     \/ /\ ~ (mode = "parallel" /\ memRun = "waiting")
        /\ mem[t] \in Terminal
        /\ SkipTask(t)
        /\ UNCHANGED disk
     \/ /\ ~ (mode = "parallel" /\ memRun = "waiting")
        /\ mem[t] \notin Terminal
        /\ CreateWorker(t)
        /\ disk' = IF mode = "sequential" /\ t > 1
                   THEN [disk EXCEPT ![t] = mem[t]] ELSE disk
  /\ UNCHANGED <<mode, policy, memVars, runVars, reqVars>>

(* variant: the wait is not a wait *)
AnswerAtOnce(d) == d = IF decision = "none" THEN "continue" ELSE decision

(* variant: the wait does not look for a cancellation *)
AnswerUncancelled(d) ==
  /\ runStatus # "waiting"
  /\ d = IF decision = "none" THEN "continue" ELSE decision

(* _wait_for_failure_decision returns d.                                   *)
Answer(d) ==
  \/ /\ runStatus # "waiting"
     /\ d = IF decision = "none" THEN "continue" ELSE decision
  \/ runStatus = "waiting" /\ cancelAt /\ d = "abort"

(* A parallel task that found the run waiting for an answer.               *)
PassGate(t) ==
  /\ step[t] = "gate" /\ ~ outer
  /\ \/ /\ Answer("abort")
        /\ step' = [step EXCEPT ![t] = "done"]
        /\ UNCHANGED <<phase, outer, stopped, reloaded, result, workerVars>>
     \/ /\ \E d \in Decision \ {"none", "abort"} : Answer(d)
        /\ IF mem[t] \in Terminal THEN SkipTask(t) ELSE CreateWorker(t)
  /\ UNCHANGED <<mode, policy, memVars, disk, runVars, reqVars>>

(* variant: nobody collects a cancelled worker *)
CollectReturned(t) ==
  /\ step[t] = "awaiting" /\ ~ outer
  /\ worker[t] = "returned"
  /\ result' = [result EXCEPT ![t] = mem[t]]
  /\ step' = [step EXCEPT ![t] = "settling"]
  /\ indexed' = indexed \ {t}
  /\ UNCHANGED <<mode, policy, phase, outer, stopped, reloaded, worker, flagged,
                 memVars, disk, runVars, reqVars>>

(* `await worker` ends: the loop gets the object the worker ran, or, if    *)
(* the worker was cancelled, the copy in the record.                       *)
Collect(t) ==
  /\ step[t] = "awaiting" /\ ~ outer
  /\ worker[t] \in {"returned", "cancelled"}
  /\ result' = [result EXCEPT ![t] = IF worker[t] = "returned" THEN mem[t] ELSE disk[t]]
  /\ step' = [step EXCEPT ![t] = "settling"]
  /\ indexed' = indexed \ {t}
  /\ UNCHANGED <<mode, policy, phase, outer, stopped, reloaded, worker, flagged,
                 memVars, disk, runVars, reqVars>>

(* `await worker` raises SubagentStop, which nobody catches: run_sync ends *)
(* without a report.  Parallel siblings go on, detached.                   *)
Raise(t) ==
  /\ step[t] = "awaiting" /\ ~ outer
  /\ worker[t] = "stopped"
  /\ step' = [step EXCEPT ![t] = "raised"]
  /\ IF phase = "running"
     THEN phase' = "crashed" /\ indexed' = {}
     ELSE phase' = phase /\ indexed' = indexed \ {t}
  /\ UNCHANGED <<mode, policy, outer, stopped, reloaded, result, worker, flagged,
                 memVars, disk, runVars, reqVars>>

(* The result has been reported.  What happens next depends on the policy; *)
(* a task that was skipped in sequential mode is always settled.           *)
SettleDone(t) ==
  /\ step[t] = "settling" /\ ~ outer
  /\ result[t] # "failed" \/ policy = "continue"
  /\ step' = [step EXCEPT ![t] = "done"]
  /\ UNCHANGED <<mode, policy, phase, outer, stopped, reloaded, result, workerVars,
                 memVars, disk, runVars, reqVars>>

(* _request_failure_decision saves the record's run with the tasks the     *)
(* loop holds in memory.                                                   *)
SettleAsk(t) ==
  /\ step[t] = "settling" /\ ~ outer
  /\ result[t] = "failed" /\ policy = "ask_user"
  /\ pendingIds' = IF runStatus = "waiting" THEN pendingIds \cup {t} ELSE {t}
  /\ runStatus' = "waiting" /\ memRun' = "waiting" /\ decision' = "none"
  /\ disk' = Overwrite(disk, InLoop, mem)
  /\ step' = [step EXCEPT ![t] = "asking"]
  /\ UNCHANGED <<mode, policy, phase, outer, stopped, reloaded, result, workerVars,
                 mem, orig, cancelAt, reqVars>>

(* _abort_pending_tasks_after_failure; the sequential loop breaks.         *)
SettleAbort(t) ==
  /\ step[t] = "settling" /\ ~ outer
  /\ result[t] = "failed" /\ policy = "abort"
  /\ SetMem(Cancel(mem, InLoop \ {t}))
  /\ disk' = Overwrite(disk, InLoop, mem')
  /\ runStatus' = "cancelled" /\ memRun' = "cancelled"
  /\ cancelAt' = TRUE /\ reqRun' = TRUE
  /\ step' = [step EXCEPT ![t] = "done"]
  /\ stopped' = (mode = "sequential")
  /\ UNCHANGED <<mode, policy, phase, outer, reloaded, result, workerVars,
                 pendingIds, decision, reqTask>>

(* The poll of an asking task sees the answer.  The sequential loop breaks *)
(* or goes on with the tasks of the record, retries included.  A parallel  *)
(* task is finished whatever the answer is.                                *)
Answered(t) ==
  /\ step[t] = "asking" /\ ~ outer
  /\ \E d \in Decision : Answer(d) /\ stopped' = (mode = "sequential" /\ d = "abort")
  /\ IF mode = "sequential" /\ ~ stopped'
     THEN /\ reloaded' = TRUE
          /\ mem' = disk /\ memRun' = runStatus
          /\ step' = [u \in Task |->
               IF u = t THEN "done"
               ELSE IF step[u] = "absent" /\ disk[u] # "absent" THEN "queued" ELSE step[u]]
     ELSE /\ step' = [step EXCEPT ![t] = "done"]
          /\ UNCHANGED <<reloaded, mem, memRun>>
  /\ UNCHANGED <<mode, policy, phase, outer, result, workerVars, orig,
                 disk, runVars, reqVars>>

LoopStep(t) ==
  \/ Begin(t) \/ PassGate(t) \/ Collect(t) \/ Raise(t)
  \/ SettleDone(t) \/ SettleAsk(t) \/ SettleAbort(t) \/ Answered(t)

-----------------------------------------------------------------------------
(* run_sync after the loop.                                                *)

LoopDone ==
  /\ InSlot = {}
  /\ stopped \/ \A t \in Task : step[t] # "queued"

(* The record is read, aggregated and saved, and the result is reported.   *)
Finish ==
  /\ phase = "running" /\ ~ outer /\ LoopDone
  /\ phase' = "reporting"
  /\ runStatus' = Aggregate(runStatus, disk, InRecord(disk))
  /\ UNCHANGED <<mode, policy, outer, stopped, reloaded, step, result, workerVars,
                 memVars, disk, pendingIds, decision, cancelAt, reqVars>>

Return ==
  /\ phase = "reporting" /\ ~ outer
  /\ phase' = "returned"
  /\ ClearRequests
  /\ indexed' = {}
  /\ UNCHANGED <<mode, policy, outer, stopped, reloaded, step, result, worker, flagged,
                 memVars, disk, runVars>>

(* The turn that called run_sync is cancelled: stop button, channel        *)
(* timeout, shutdown.  The cancellation runs down to the awaited workers.  *)
OuterCancel ==
  /\ phase \in {"running", "reporting"} /\ ~ outer
  /\ outer' = TRUE
  /\ flagged' = flagged \cup {t \in Task : Live(t)}
  /\ UNCHANGED <<mode, policy, phase, stopped, reloaded, step, result, worker, indexed,
                 memVars, disk, runVars, reqVars>>

(* run_sync's except CancelledError.  A sequential loop gets there when    *)
(* its worker has ended; gather when the first task has.  The tasks are    *)
(* run_sync's own list, or the record's once the loop is over.             *)
Unwound ==
  \/ \A t \in Task : ~ Live(t)
  \/ mode = "parallel" /\ \E t \in Task : step[t] \notin {"absent", "done"} /\ ~ Live(t)

HandleOuterCancel ==
  /\ outer /\ phase \in {"running", "reporting"} /\ Unwound
  /\ IF phase = "running"
     THEN /\ orig' = Cancel(orig, Original)
          /\ mem' = IF reloaded THEN mem ELSE orig'
          /\ disk' = Overwrite(disk, Original, orig')
          /\ runStatus' = Aggregate(IF reloaded THEN "waiting" ELSE memRun, orig', Original)
     ELSE /\ disk' = Cancel(disk, Task)
          /\ runStatus' = Aggregate(runStatus, disk', InRecord(disk))
          /\ UNCHANGED <<mem, orig>>
  /\ phase' = "cancelled"
  /\ cancelAt' = TRUE
  /\ ClearRequests
  /\ indexed' = {}
  /\ UNCHANGED <<mode, policy, outer, stopped, reloaded, step, result, worker, flagged,
                 memRun, pendingIds, decision>>

-----------------------------------------------------------------------------
(* REST handlers.                                                          *)

(* cancel_task; refused for a terminal task.                               *)
CancelTask(t) ==
  /\ disk[t] \in {"pending", "running"}
  /\ disk' = IF disk[t] = "pending" \/ ~ Live(t)
             THEN [disk EXCEPT ![t] = "cancelled"] ELSE disk
  /\ flagged' = IF Live(t) THEN flagged \cup {t} ELSE flagged
  /\ FinalizeIfTerminal(disk', reqRun, reqTask \cup {t})
  /\ UNCHANGED <<mode, policy, loopVars, worker, indexed, memVars,
                 pendingIds, decision, cancelAt>>

(* cancel_run, also called for every run of an interrupted parent turn.    *)
CancelRun ==
  /\ ~ (runStatus \in RunTerminal /\ AllTerminal(disk))
  /\ cancelAt' = TRUE
  /\ LET hit == {t \in InRecord(disk) : disk[t] = "pending" \/ ~ Live(t)} IN
     disk' = Cancel(disk, hit)
  /\ flagged' = flagged \cup {t \in indexed : Live(t)}
  /\ FinalizeIfTerminal(disk', TRUE, reqTask)
  /\ UNCHANGED <<mode, policy, loopVars, worker, indexed, memVars, pendingIds, decision>>

(* resolve_failure_decision; x is the optional task id of the request.     *)
Resolve(d, x) ==
  /\ runStatus = "waiting"
  /\ pendingIds \cup x # {}
  /\ decision' = d
  /\ pendingIds' = {}

Abort(x) ==
  /\ Resolve("abort", x)
  /\ cancelAt' = TRUE
  /\ disk' = Cancel(disk, Task)
  /\ runStatus' = Aggregate("cancelled", disk', InRecord(disk))
  /\ ClearRequests
  /\ UNCHANGED <<mode, policy, loopVars, workerVars, memVars>>

Continue(x) ==
  /\ Resolve("continue", x)
  /\ runStatus' = "running"
  /\ UNCHANGED <<mode, policy, loopVars, workerVars, memVars, disk, cancelAt, reqVars>>

(* One fresh pending task per pending id found in the record.              *)
RetryFailed(x) ==
  /\ Resolve("retry_failed", x)
  /\ LET old == InRecord(disk)
         last == Cardinality(old) + Cardinality((pendingIds \cup x) \cap old)
         fresh == {t \in Task \ old : t <= last} IN
     /\ fresh # {} /\ last <= Agents + MaxRetries
     /\ disk' = [t \in Task |-> IF t \in fresh THEN "pending" ELSE disk[t]]
  /\ runStatus' = "running"
  /\ UNCHANGED <<mode, policy, loopVars, workerVars, memVars, cancelAt, reqVars>>

UserStep ==
  \/ CancelRun
  \/ \E t \in Task : CancelTask(t)
  \/ \E x \in {{}} \cup {{t} : t \in Task} : Abort(x) \/ Continue(x) \/ RetryFailed(x)

Next ==
  \/ \E t \in Task : WorkerStep(t) \/ LoopStep(t)
  \/ Finish \/ Return \/ OuterCancel \/ HandleOuterCancel
  \/ UserStep

(* The event loop runs whatever is ready.  A worker finishes because its   *)
(* turns are bounded by max_turns and its provider calls by their retries. *)
(* Users owe nothing.                                                      *)
Fairness ==
  /\ \A t \in Task :
       /\ WF_vars(WorkerStart(t))
       /\ WF_vars(WorkerReport(t) \/ WorkerError(t) \/ WorkerStop(t) \/ WorkerCancelled(t))
       /\ WF_vars(LoopStep(t))
  /\ WF_vars(Finish) /\ WF_vars(Return) /\ WF_vars(HandleOuterCancel)

Spec == Init /\ [][Next]_vars /\ Fairness

-----------------------------------------------------------------------------
(* At most max_parallel_agents workers run at once (one in a sequential    *)
(* run), however tasks are cancelled, asked about or skipped.              *)
BoundedWorkers == Cardinality({t \in Task : Live(t)}) <= Slots

(* A run that waits for the user's answer is polled by a task that will    *)
(* act on it, unless the wait has been cut short by a cancellation: no     *)
(* answer can be given to a run that nobody drives any more.               *)
QuestionHasAsker ==
  runStatus = "waiting" => cancelAt \/ \E t \in Task : step[t] = "asking"

(* When run_sync has returned its report, or has been cancelled, every     *)
(* worker has ended or is about to: nothing of the run works on unseen.    *)
NoOrphanWorker ==
  phase \in {"returned", "cancelled"} => \A t \in Task : Live(t) => t \in flagged

(* The workers of a run are supervised: bounded in number, asked about     *)
(* only by one who listens, and never left to themselves.                  *)
Supervised == BoundedWorkers /\ QuestionHasAsker /\ NoOrphanWorker

(* wait_all (manager.py:636): a report is returned only when all tasks of  *)
(* the record are settled.                                                 *)
WaitAll == phase = "returned" => AllTerminal(disk)

(* It does when failures are not put to the user: no retry is queued, and  *)
(* no question makes the loop save the copies it has in memory.            *)
Unattended == policy # "ask_user"

(* Without questions to the user wait_all is kept.                         *)
WaitAllUnattended == Unattended => WaitAll

(* The run status on record is one the tasks on record aggregate to.       *)
StatusOf(rs, d) ==
  LET S == InRecord(d) IN
  /\ rs \in RunTerminal
  /\ rs = "completed" <=> \A t \in S : d[t] = "completed"
  /\ rs = "partial" <=> /\ \E t \in S : d[t] = "completed"
                        /\ \E t \in S : d[t] # "completed"

(* The run status on record is the one its tasks' statuses aggregate to,   *)
(* from the return of the report on: nobody saves a task behind its back.  *)
ReportMatchesRecord ==
  Unattended /\ phase = "returned" => StatusOf(runStatus, disk)

(* The report that run_sync returns is complete and says what the record   *)
(* says.                                                                   *)
ReportIsTrue == WaitAllUnattended /\ ReportMatchesRecord

(* A completed report on record is never overwritten, though the loop, the *)
(* workers and the handlers save copies of different age; up to the point  *)
(* where the sequential loop has re-read the tasks and run_sync has not.   *)
CompletedIsKept ==
  [][\A t \in Task : ~ reloaded /\ disk[t] = "completed" => disk'[t] = "completed"]_vars

Ended == phase \notin {"running", "reporting"}

(* A run comes to its end or to a question to the user, however the tasks  *)
(* end and whatever is cancelled meanwhile.                                *)
RunEndsOrAsks == []<>(Ended \/ runStatus = "waiting")

(* An accepted cancellation of the run (cancel_run, the stop button, an    *)
(* abort after a failure) ends it, also when it waits for an answer that   *)
(* never comes: _wait_for_failure_decision polls the request as well.      *)
CancelledRunEnds == cancelAt ~> Ended

(* The inductive invariant: BoundedWorkers, QuestionHasAsker and           *)
(* NoOrphanWorker follow from how the loop and its workers are tied.       *)
LiveIsAwaited == \A t \in Task : Live(t) => step[t] = "awaiting"

OuterReachesWorkers == outer => \A t \in Task : Live(t) => t \in flagged

SlotsRespected == Cardinality(InSlot) <= Slots

OnlySequentialStops == stopped => mode = "sequential"

(* Once the loop is over nothing can enter it again.                       *)
LoopStaysDone ==
  phase \in {"reporting", "returned"} =>
    /\ InSlot = {}
    /\ mode = "parallel" => \A t \in Task : step[t] # "queued"

CancelledFromOutside == phase = "cancelled" => outer

(* Until the sequential loop re-reads its tasks, a completed report on     *)
(* record is also the one in memory, and its worker has ended.             *)
RecordFollowsMemory ==
  ~ reloaded =>
    /\ mem = orig
    /\ \A t \in Task : /\ disk[t] = "completed" => mem[t] = "completed"
                       /\ Live(t) => mem[t] # "completed"

IInv ==
  /\ TypeOK
  /\ LiveIsAwaited /\ OuterReachesWorkers /\ SlotsRespected
  /\ OnlySequentialStops /\ LoopStaysDone /\ CancelledFromOutside
  /\ QuestionHasAsker /\ RecordFollowsMemory

(* The inductive invariant behind ReportIsTrue, for a run that puts no     *)
(* failure to the user.                                                    *)
NoQuestions ==
  /\ runStatus # "waiting" /\ memRun # "waiting" /\ ~ reloaded
  /\ \A t \in Task : step[t] \notin {"gate", "asking"}

NoRetries ==
  \A t \in Task : /\ step[t] = "absent" <=> t \notin Original
                  /\ disk[t] = "absent" <=> t \notin Original
                  /\ mem[t] = "absent" <=> t \notin Original

(* The record lags behind memory only by a handler's cancellation.         *)
CopiesAgree == \A t \in Task : disk[t] \in {"cancelled", mem[t]}

WorkersSave ==
  \A t \in Task :
    /\ mem[t] = "running" => worker[t] = "active"
    /\ step[t] \in {"absent", "queued"} => worker[t] = "none"
    /\ worker[t] = "none" => t \notin flagged
    /\ worker[t] = "returned" => mem[t] \in Terminal
    /\ step[t] = "settling" /\ result[t] = "failed" => mem[t] = "failed"

(* What the loop is done with is settled on record, and so is what it will *)
(* never begin.                                                            *)
Undisturbed == phase \in {"running", "reporting", "returned"} /\ ~ outer

LoopSettles ==
  Undisturbed =>
    /\ \A t \in Task :
         /\ worker[t] = "created" /\ t \in flagged => disk[t] \in Terminal
         /\ worker[t] = "cancelled" => disk[t] \in Terminal
         /\ step[t] \in {"settling", "done"} => disk[t] \in Terminal
         /\ step[t] # "raised"
    /\ stopped => InSlot = {} /\ AllTerminal(disk)

ReportHolds ==
  phase \in {"reporting", "returned"} => AllTerminal(disk) /\ StatusOf(runStatus, disk)

ReturnsUndisturbed == phase = "returned" => ~ outer

ReportInv ==
  Unattended =>
    /\ NoQuestions /\ NoRetries /\ CopiesAgree /\ WorkersSave
    /\ LoopSettles /\ ReportHolds /\ ReturnsUndisturbed

(* The multiagent tool returns a structured report (multiagent.py:19),     *)
(* also when tasks have been cancelled meanwhile.                          *)
AlwaysReports == phase # "crashed"

(* Cancelling a subtask or the run cancels it (Newman_API_v1.md:763-775):  *)
(* a task recorded as cancelled does not run afterwards.                   *)
CancelledDoesNotRun ==
  [][\A t \in Task : disk[t] = "cancelled" => disk'[t] # "running"]_vars

=============================================================================
