----------------------------- MODULE FileLocks -----------------------------
(***************************************************************************)
(* backend/subagents/locks.py (FileLockManager) together with its only     *)
(* caller, SubagentRunner._execute_tool_call.  A file-mutating tool call   *)
(* of a subagent collects the locks of all its keys one by one in sorted   *)
(* order under one deadline, runs the tool, and releases them.             *)
(*                                                                         *)
(* Everything runs on one asyncio loop: an action is the code between two  *)
(* suspension points.  asyncio.Lock is a FIFO lock whose acquire() is run  *)
(* by wait_for in a task of its own (Python 3.11, environment.yml), so the *)
(* lock is taken (Grant) before the caller resumes (Resume).  The deadline *)
(* is not measured: it may pass at any time while a task waits.            *)
(***************************************************************************)
EXTENDS Integers, SequencesExt

CONSTANTS Tasks,     \* subagent tasks of the process
          Keys,      \* lock keys, ordered as sorted() orders the strings
          Nobody,    \* "no task"
          MaxCalls   \* bound: locking tool calls one task makes

ASSUME TasksAssumption == Nobody \notin Tasks
ASSUME TasksFinite == IsFiniteSet(Tasks)
ASSUME KeysAssumption == Keys \subseteq Int
ASSUME CallsAssumption == MaxCalls \in Nat

VARIABLES
  pc,         \* where the task is: see PC
  need,       \* keys of the current tool call, normalized and deduplicated
  acquired,   \* the local list `acquired` of FileLockManager.acquire
  key,        \* the loop variable `key`: the lock being awaited
  owner,      \* asyncio.Lock: the task whose acquire() succeeded, or Nobody
  queue,      \* asyncio.Lock: the waiters, first come first served
  holders,    \* FileLockManager._holders
  status,     \* SubagentTask.status, as saved
  heldLocks,  \* SubagentTask.held_locks, as saved
  calls,      \* locking tool calls made so far
  patient     \* nobody is cancelled and no deadline passes

vars == <<pc, need, acquired, key, owner, queue, holders, status, heldLocks, calls, patient>>

PC == {"running", "waiting", "granted", "holding", "ended"}
Status == {"running", "waiting_file_lock", "cancelled", "finished"}
NoKey == 0
TaskOrNobody == Tasks \cup {Nobody}

TypeOK ==
  /\ pc \in [Tasks -> PC]
  /\ need \in [Tasks -> SUBSET Keys]
  /\ acquired \in [Tasks -> SUBSET Keys]
  /\ key \in [Tasks -> Keys \cup {NoKey}]
  /\ owner \in [Keys -> TaskOrNobody]
  /\ queue \in [Keys -> Seq(Tasks)]
  /\ holders \in [Keys -> TaskOrNobody]
  /\ status \in [Tasks -> Status]
  /\ heldLocks \in [Tasks -> SUBSET Keys]
  /\ calls \in [Tasks -> 0 .. MaxCalls]
  /\ patient \in BOOLEAN

Init ==
  /\ pc = [t \in Tasks |-> "running"]
  /\ need = [t \in Tasks |-> {}]
  /\ acquired = [t \in Tasks |-> {}]
  /\ key = [t \in Tasks |-> NoKey]
  /\ owner = [k \in Keys |-> Nobody]
  /\ queue = [k \in Keys |-> <<>>]
  /\ holders = [k \in Keys |-> Nobody]
  /\ status = [t \in Tasks |-> "running"]
  /\ heldLocks = [t \in Tasks |-> {}]
  /\ calls = [t \in Tasks |-> 0]
  /\ patient \in BOOLEAN

-----------------------------------------------------------------------------
(* variant: the keys are taken in the order of the call's arguments *)
AnyKey(k, S) == k \in S

(* The loop visits the keys of a call in sorted order. *)
NextKey(k, S) == k \in S /\ \A j \in S : k <= j

(* FileLockManager.release: only the keys still registered for the task.   *)
Release(t, S) ==
  LET mine == {k \in S : holders[k] = t} IN
  /\ holders' = [k \in Keys |-> IF k \in mine THEN Nobody ELSE holders[k]]
  /\ owner' = [k \in Keys |-> IF k \in mine THEN Nobody ELSE owner[k]]

(* asyncio.Lock: a task gives up its place in the queue of the lock.       *)
Dequeue(t, k) ==
  \E i \in 1 .. Len(queue[k]) :
    /\ queue[k][i] = t
    /\ queue' = [queue EXCEPT ![k] = RemoveAt(@, i)]

-----------------------------------------------------------------------------
(* A tool call with lock keys begins: the status is saved and the call     *)
(* waits for its first key.                                                *)
Request(t, S) ==
  /\ pc[t] = "running"
  /\ calls[t] < MaxCalls
  /\ S # {}
  /\ \E k \in Keys :
       /\ NextKey(k, S)
       /\ key' = [key EXCEPT ![t] = k]
       /\ queue' = [queue EXCEPT ![k] = Append(@, t)]
  /\ pc' = [pc EXCEPT ![t] = "waiting"]
  /\ need' = [need EXCEPT ![t] = S]
  /\ acquired' = [acquired EXCEPT ![t] = {}]
  /\ status' = [status EXCEPT ![t] = "waiting_file_lock"]
  /\ calls' = [calls EXCEPT ![t] = @ + 1]
  /\ UNCHANGED <<owner, holders, heldLocks, patient>>

(* variant: a free lock goes to any waiter *)
GrantAny(t) ==
  /\ pc[t] = "waiting"
  /\ owner[key[t]] = Nobody
  /\ owner' = [owner EXCEPT ![key[t]] = t]
  /\ Dequeue(t, key[t])
  /\ pc' = [pc EXCEPT ![t] = "granted"]
  /\ UNCHANGED <<need, acquired, key, holders, status, heldLocks, calls, patient>>

(* asyncio.Lock hands the free lock to the first waiter.                   *)
Grant(t) ==
  /\ pc[t] = "waiting"
  /\ owner[key[t]] = Nobody
  /\ queue[key[t]] # <<>>
  /\ Head(queue[key[t]]) = t
  /\ owner' = [owner EXCEPT ![key[t]] = t]
  /\ queue' = [queue EXCEPT ![key[t]] = Tail(@)]
  /\ pc' = [pc EXCEPT ![t] = "granted"]
  /\ UNCHANGED <<need, acquired, key, holders, status, heldLocks, calls, patient>>

(* wait_for returns and more keys are left: wait for the next one.         *)
ResumeNext(t) ==
  /\ pc[t] = "granted"
  /\ \E k \in Keys :
       /\ NextKey(k, need[t] \ (acquired[t] \cup {key[t]}))
       /\ key' = [key EXCEPT ![t] = k]
       /\ queue' = [queue EXCEPT ![k] = Append(@, t)]
  /\ holders' = [holders EXCEPT ![key[t]] = t]
  /\ acquired' = [acquired EXCEPT ![t] = @ \cup {key[t]}]
  /\ pc' = [pc EXCEPT ![t] = "waiting"]
  /\ UNCHANGED <<need, owner, status, heldLocks, calls, patient>>

(* variant: the tool call runs when it has its first key *)
ResumeFirst(t) ==
  /\ pc[t] = "granted"
  /\ holders' = [holders EXCEPT ![key[t]] = t]
  /\ acquired' = [acquired EXCEPT ![t] = @ \cup {key[t]}]
  /\ pc' = [pc EXCEPT ![t] = "holding"]
  /\ status' = [status EXCEPT ![t] = "running"]
  /\ heldLocks' = [heldLocks EXCEPT ![t] = @ \cup need[t]]
  /\ UNCHANGED <<need, key, owner, queue, calls, patient>>

(* wait_for returns with the last key: the tool call runs.                 *)
ResumeLast(t) ==
  /\ pc[t] = "granted"
  /\ need[t] \subseteq acquired[t] \cup {key[t]}
  /\ holders' = [holders EXCEPT ![key[t]] = t]
  /\ acquired' = [acquired EXCEPT ![t] = @ \cup {key[t]}]
  /\ pc' = [pc EXCEPT ![t] = "holding"]
  /\ status' = [status EXCEPT ![t] = "running"]
  /\ heldLocks' = [heldLocks EXCEPT ![t] = @ \cup need[t]]
  /\ UNCHANGED <<need, key, owner, queue, calls, patient>>

(* wait_for returns but the deadline has passed before the next key:       *)
(* FileLockTimeout, every collected key is released.                       *)
ResumeLate(t) ==
  /\ ~ patient
  /\ pc[t] = "granted"
  /\ ~ (need[t] \subseteq acquired[t] \cup {key[t]})
  /\ LET got == acquired[t] \cup {key[t]}
         mine == {k \in got : holders[k] = t} \cup {key[t]} IN
     /\ holders' = [k \in Keys |-> IF k \in mine THEN Nobody ELSE holders[k]]
     /\ owner' = [k \in Keys |-> IF k \in mine THEN Nobody ELSE owner[k]]
  /\ acquired' = [acquired EXCEPT ![t] = {}]
  /\ pc' = [pc EXCEPT ![t] = "running"]
  /\ status' = [status EXCEPT ![t] = "running"]
  /\ UNCHANGED <<need, key, queue, heldLocks, calls, patient>>

(* variant: a timeout does not release what the call has collected *)
TimeoutKeeping(t) ==
  /\ ~ patient
  /\ pc[t] = "waiting"
  /\ Dequeue(t, key[t])
  /\ pc' = [pc EXCEPT ![t] = "running"]
  /\ status' = [status EXCEPT ![t] = "running"]
  /\ UNCHANGED <<need, acquired, key, owner, holders, heldLocks, calls, patient>>

(* The deadline passes while the lock has not been granted.                *)
Timeout(t) ==
  /\ ~ patient
  /\ pc[t] = "waiting"
  /\ Dequeue(t, key[t])
  /\ Release(t, acquired[t])
  /\ acquired' = [acquired EXCEPT ![t] = {}]
  /\ pc' = [pc EXCEPT ![t] = "running"]
  /\ status' = [status EXCEPT ![t] = "running"]
  /\ UNCHANGED <<need, key, heldLocks, calls, patient>>

(* The tool call returns, or raises: hold() releases, the record follows.  *)
EndCall(t) ==
  /\ pc[t] = "holding"
  /\ Release(t, acquired[t])
  /\ acquired' = [acquired EXCEPT ![t] = {}]
  /\ heldLocks' = [heldLocks EXCEPT ![t] = @ \ need[t]]
  /\ pc' = [pc EXCEPT ![t] = "running"]
  /\ UNCHANGED <<need, key, queue, status, calls, patient>>

(* The worker is cancelled while it waits for a lock.  CancelledError is   *)
(* not an Exception, so acquire's handler does not release what the call   *)
(* has collected, and hold() has not entered its try block.                *)
CancelWaiting(t) ==
  /\ ~ patient
  /\ pc[t] = "waiting"
  /\ Dequeue(t, key[t])
  /\ pc' = [pc EXCEPT ![t] = "ended"]
  /\ status' = [status EXCEPT ![t] = "cancelled"]
  /\ UNCHANGED <<need, acquired, key, owner, holders, heldLocks, calls, patient>>

(* The worker is cancelled while the tool call runs.  (Between Grant and   *)
(* Resume, wait_for returns the lock and the cancellation is dropped.)     *)
CancelHolding(t) ==
  /\ ~ patient
  /\ pc[t] = "holding"
  /\ Release(t, acquired[t])
  /\ acquired' = [acquired EXCEPT ![t] = {}]
  /\ heldLocks' = [heldLocks EXCEPT ![t] = @ \ need[t]]
  /\ pc' = [pc EXCEPT ![t] = "ended"]
  /\ status' = [status EXCEPT ![t] = "cancelled"]
  /\ UNCHANGED <<need, key, queue, calls, patient>>

(* The task ends between two tool calls.                                   *)
End(t) ==
  /\ pc[t] = "running"
  /\ pc' = [pc EXCEPT ![t] = "ended"]
  /\ \E s \in {"finished", "cancelled"} : status' = [status EXCEPT ![t] = s]
  /\ UNCHANGED <<need, acquired, key, owner, queue, holders, heldLocks, calls, patient>>

Collect(t) ==
  \/ \E S \in SUBSET Keys : Request(t, S)
  \/ Grant(t)
  \/ ResumeNext(t)
  \/ ResumeLast(t)

Abandon(t) ==
  \/ ResumeLate(t)
  \/ Timeout(t)
  \/ CancelWaiting(t)
  \/ CancelHolding(t)

Next == \E t \in Tasks : Collect(t) \/ EndCall(t) \/ End(t) \/ Abandon(t)

(* The loop runs what is ready, tools return, and wait_for's timer fires.  *)
Fairness ==
  \A t \in Tasks :
    /\ WF_vars(Grant(t))
    /\ WF_vars(ResumeNext(t) \/ ResumeLast(t) \/ ResumeLate(t))
    /\ WF_vars(EndCall(t))
    /\ WF_vars(Timeout(t))

Spec == Init /\ [][Next]_vars /\ Fairness

-----------------------------------------------------------------------------
(* No two tool calls that name a common key run at the same time, so two   *)
(* subagents never edit one file concurrently (runner.py, hold block).     *)
MutualExclusion ==
  \A t, u \in Tasks :
    t # u /\ pc[t] = "holding" /\ pc[u] = "holding" => need[t] \cap need[u] = {}

(* The _holders map and the asyncio locks agree: a registered holder has   *)
(* the lock, and a taken lock without holder is on its way to one.  A      *)
(* timed-out waiter reads this map to name the task that blocks it.        *)
HoldersMatchLocks ==
  \A k \in Keys :
    /\ holders[k] # Nobody => owner[k] = holders[k]
    /\ owner[k] # Nobody /\ holders[k] = Nobody =>
         pc[owner[k]] = "granted" /\ key[owner[k]] = k

(* A running tool call has every one of its keys, and the saved record of  *)
(* the task lists exactly the keys of the call that runs.                  *)
RecordShowsLocks ==
  \A t \in Tasks :
    /\ heldLocks[t] = (IF pc[t] = "holding" THEN need[t] ELSE {})
    /\ pc[t] = "holding" => \A k \in need[t] : holders[k] = t

(* A lock outlives its task only if the task was cancelled while it waited *)
(* for a later key of a call with several keys: a call with one key, a     *)
(* timeout, an error or a cancelled tool call leaves nothing behind.       *)
LeftoversOnlyFromCancelledWait ==
  \A k \in Keys :
    holders[k] # Nobody =>
      LET t == holders[k] IN
      /\ pc[t] # "running"
      /\ pc[t] = "ended" => status[t] = "cancelled" /\ k # key[t] /\ {k, key[t]} \subseteq need[t]

(* What the manager, the calls and the records say of the locks is true.   *)
LocksAreTrue == MutualExclusion /\ RecordShowsLocks /\ LeftoversOnlyFromCancelledWait

(* The strengthening that makes the properties above inductive: where a    *)
(* task is in its call determines which locks it has.                      *)
CallOK(t) ==
  /\ pc[t] = "running" => acquired[t] = {}
  /\ pc[t] \in {"waiting", "granted"} => key[t] \in need[t] \ acquired[t]
  /\ pc[t] = "holding" => acquired[t] = need[t] /\ need[t] # {}
  /\ acquired[t] \subseteq need[t]
  /\ pc[t] = "ended" /\ acquired[t] # {} =>
       status[t] = "cancelled" /\ key[t] \in need[t] \ acquired[t]
  /\ heldLocks[t] = (IF pc[t] = "holding" THEN need[t] ELSE {})

GrantOK(t) == pc[t] = "granted" => owner[key[t]] = t /\ holders[key[t]] = Nobody

CallInv == \A t \in Tasks : CallOK(t) /\ GrantOK(t)

LockInv ==
  /\ \A k \in Keys, t \in Tasks : holders[k] = t <=> k \in acquired[t]
  /\ HoldersMatchLocks

IInv == TypeOK /\ CallInv /\ LockInv

(* A call awaits the least key that it does not have yet, and a waiting    *)
(* task is in the queue of the lock that it awaits.                        *)
InOrder ==
  \A t \in Tasks : pc[t] \in {"waiting", "granted"} =>
    /\ NextKey(key[t], need[t] \ acquired[t])
    /\ \A k \in acquired[t] : k < key[t]

WaitersQueue ==
  \A t \in Tasks : pc[t] = "waiting" =>
    \E i \in 1 .. Len(queue[key[t]]) : queue[key[t]][i] = t

WaitInv == InOrder /\ WaitersQueue

(* A task never waits in a circle of tasks that wait for each other's      *)
(* locks: what sorting the keys is for.                                    *)
NoCircularWait ==
  \A W \in (SUBSET Tasks) \ {{}} :
    \E t \in W : ~ (pc[t] = "waiting" /\ owner[key[t]] \in W)

(* Locks are handed over in the order of arrival: a task that starts to    *)
(* wait behind another one for a key never gets the lock before it.        *)
FirstComeFirstServed ==
  [][\A k \in Keys, t, u \in Tasks :
       /\ t # u
       /\ owner[k] # u /\ owner'[k] = u
       /\ pc[t] = "waiting" /\ key[t] = k
       => \E i, j \in 1 .. Len(queue[k]) : queue[k][i] = u /\ queue[k][j] = t /\ i < j]_vars

(* A waiting task leaves the wait, with the lock or without; and where     *)
(* nobody is cancelled and no deadline passes, every tool call that asks   *)
(* for locks gets all of them: sorted acquisition and first-come locks     *)
(* leave neither deadlock nor starvation for the deadline to break.        *)
EveryCallServed ==
  \A t \in Tasks :
    /\ pc[t] = "waiting" ~> pc[t] # "waiting"
    /\ patient /\ pc[t] = "waiting" ~> pc[t] = "holding"

(* The lock manager implements the exclusive sections its callers rely on. *)
Sections == INSTANCE ExclusiveSections
  WITH inside <- [t \in Tasks |-> IF pc[t] = "holding" THEN need[t] ELSE {}]

SectionsSpec == Sections!Spec

=============================================================================
