------------------------- MODULE MultiAgentProofs -------------------------
(***************************************************************************)
(* Proofs about MultiAgent, for every number of agents, retries and slots: *)
(* the inductive invariant IInv and the safety properties that follow from *)
(* it.                                                                     *)
(***************************************************************************)
EXTENDS MultiAgent, FiniteSetTheorems, TLAPS

(* aggregate_multiagent_report always ends a run.                          *)
LEMMA AggregateEnds ==
  ASSUME NEW rs, NEW d, NEW S
  PROVE  Aggregate(rs, d, S) \in RunTerminal
BY DEF Aggregate, RunTerminal, Terminal

LEMMA CancelType ==
  ASSUME NEW d \in [Task -> TaskStatus], NEW S
  PROVE  Cancel(d, S) \in [Task -> TaskStatus]
BY DEF Cancel, TaskStatus, Terminal

LEMMA OverwriteType ==
  ASSUME NEW d \in [Task -> TaskStatus], NEW m \in [Task -> TaskStatus], NEW S
  PROVE  Overwrite(d, S, m) \in [Task -> TaskStatus]
BY DEF Overwrite

LEMMA TaskStatusTypes ==
  Terminal \subseteq TaskStatus /\ RunTerminal \subseteq RunStatus /\ "waiting" \notin RunTerminal
BY DEF TaskStatus, Terminal, RunTerminal, RunStatus

LEMMA FinalizeType ==
  ASSUME runStatus \in RunStatus, NEW d, NEW rr \in BOOLEAN, NEW rt \in SUBSET Task,
         FinalizeIfTerminal(d, rr, rt)
  PROVE  /\ runStatus' \in RunStatus
         /\ reqRun' \in BOOLEAN /\ reqTask' \in SUBSET Task
         /\ runStatus' = "waiting" => runStatus = "waiting"
BY AggregateEnds, TaskStatusTypes DEF FinalizeIfTerminal, ClearRequests

-----------------------------------------------------------------------------
(* Frames: what each group of actions leaves alone.                        *)

LEMMA WorkerFrame ==
  ASSUME NEW t \in Task, WorkerStep(t)
  PROVE  UNCHANGED <<mode, policy, loopVars, flagged, indexed, memRun, runVars, reqVars>>
BY DEF WorkerStep, WorkerStart, WorkerSave, WorkerReport, WorkerError, WorkerStop,
       WorkerCancelled, WorkerEnds, loopVars, workerVars, runVars, reqVars

(* A worker step never makes a worker of its own, and touches no other.    *)
LEMMA WorkerShrinks ==
  ASSUME TypeOK, NEW t \in Task, WorkerStep(t)
  PROVE  \A u \in Task : Live(u)' => Live(u)
BY DEF WorkerStep, WorkerStart, WorkerSave, WorkerReport, WorkerError, WorkerStop,
       WorkerCancelled, WorkerEnds, workerVars, Live, TypeOK

LEMMA UserFrame ==
  ASSUME TypeOK, UserStep
  PROVE  /\ UNCHANGED <<mode, policy, loopVars, worker>>
         /\ flagged \subseteq flagged'
         /\ cancelAt => cancelAt'
         /\ runStatus' = "waiting" => runStatus = "waiting"
<1>1. CASE CancelRun
  BY <1>1, FinalizeType DEF CancelRun, TypeOK
<1>2. ASSUME NEW t \in Task, CancelTask(t)
      PROVE  /\ UNCHANGED <<mode, policy, loopVars, worker>>
             /\ flagged \subseteq flagged'
             /\ cancelAt => cancelAt'
             /\ runStatus' = "waiting" => runStatus = "waiting"
  BY <1>2, FinalizeType DEF CancelTask, TypeOK
<1>3. ASSUME NEW x, Abort(x) \/ Continue(x) \/ RetryFailed(x)
      PROVE  /\ UNCHANGED <<mode, policy, loopVars, worker>>
             /\ flagged \subseteq flagged'
             /\ cancelAt => cancelAt'
             /\ runStatus' = "waiting" => runStatus = "waiting"
  BY <1>3, AggregateEnds, TaskStatusTypes DEF Abort, Continue, RetryFailed, Resolve, workerVars
<1>4. QED
  BY <1>1, <1>2, <1>3 DEF UserStep

-----------------------------------------------------------------------------
(* Type correctness.                                                       *)

LEMMA WorkerType ==
  ASSUME TypeOK, NEW t \in Task, WorkerStep(t)
  PROVE  TypeOK'
<1>1. UNCHANGED <<mode, policy, loopVars, flagged, indexed, memRun, runVars, reqVars>>
  BY WorkerFrame
<1>2. /\ mem' \in [Task -> TaskStatus] /\ orig' \in [Task -> TaskStatus]
      /\ disk' \in [Task -> TaskStatus] /\ worker' \in [Task -> Worker]
  BY DEF WorkerStep, WorkerStart, WorkerSave, WorkerReport, WorkerError, WorkerStop,
         WorkerCancelled, WorkerEnds, workerVars, SetMem, TypeOK, TaskStatus, Terminal, Worker
<1>3. QED
  BY <1>1, <1>2 DEF TypeOK, loopVars, runVars, reqVars

LEMMA LoopType ==
  ASSUME TypeOK, NEW t \in Task, LoopStep(t)
  PROVE  TypeOK'
<1>1. CASE Begin(t) \/ PassGate(t)
  BY <1>1 DEF Begin, PassGate, SkipTask, CreateWorker, TypeOK, Step, Worker,
              loopVars, workerVars, memVars, runVars, reqVars
<1>2. CASE Collect(t) \/ Raise(t) \/ SettleDone(t)
  BY <1>2 DEF Collect, Raise, SettleDone, TypeOK, Step, Phase, memVars, workerVars, runVars, reqVars
<1>3. CASE SettleAsk(t)
  BY <1>3, OverwriteType DEF SettleAsk, TypeOK, Step, Decision, RunStatus, workerVars, reqVars
<1>4. CASE SettleAbort(t)
  <2>1. /\ mem' \in [Task -> TaskStatus] /\ orig' \in [Task -> TaskStatus]
        /\ disk' \in [Task -> TaskStatus]
    BY <1>4, CancelType, OverwriteType DEF SettleAbort, SetMem, TypeOK
  <2>2. QED
    BY <1>4, <2>1, TaskStatusTypes
       DEF SettleAbort, TypeOK, Step, RunTerminal, Terminal, workerVars
<1>5. CASE Answered(t)
  <2>1. step' \in [Task -> Step] /\ mem' \in [Task -> TaskStatus] /\ memRun' \in RunStatus
    BY <1>5 DEF Answered, TypeOK, Step
  <2>2. stopped' \in BOOLEAN /\ reloaded' \in BOOLEAN
    BY <1>5 DEF Answered, TypeOK
  <2>3. QED
    BY <1>5, <2>1, <2>2 DEF Answered, TypeOK, workerVars, runVars, reqVars
<1>6. QED
  BY <1>1, <1>2, <1>3, <1>4, <1>5 DEF LoopStep

LEMMA EndType ==
  ASSUME TypeOK, Finish \/ Return \/ OuterCancel \/ HandleOuterCancel
  PROVE  TypeOK'
<1>1. CASE Finish
  BY <1>1, AggregateEnds, TaskStatusTypes DEF Finish, TypeOK, Phase, workerVars, memVars, reqVars
<1>2. CASE Return
  BY <1>2 DEF Return, ClearRequests, TypeOK, Phase, memVars, runVars
<1>3. CASE OuterCancel
  BY <1>3 DEF OuterCancel, TypeOK, memVars, runVars, reqVars
<1>4. CASE HandleOuterCancel
  <2>1. /\ orig' \in [Task -> TaskStatus] /\ mem' \in [Task -> TaskStatus]
        /\ disk' \in [Task -> TaskStatus]
    BY <1>4, CancelType, OverwriteType DEF HandleOuterCancel, TypeOK
  <2>2. runStatus' \in RunStatus
    BY <1>4, AggregateEnds, TaskStatusTypes DEF HandleOuterCancel
  <2>3. QED
    BY <1>4, <2>1, <2>2 DEF HandleOuterCancel, ClearRequests, TypeOK, Phase
<1>5. QED
  BY <1>1, <1>2, <1>3, <1>4

LEMMA UserType ==
  ASSUME TypeOK, UserStep
  PROVE  TypeOK'
<1>1. CASE CancelRun
  BY <1>1, FinalizeType, CancelType DEF CancelRun, TypeOK, loopVars, memVars
<1>2. ASSUME NEW t \in Task, CancelTask(t) PROVE TypeOK'
  <2>1. disk' \in [Task -> TaskStatus] /\ flagged' \in SUBSET Task
    BY <1>2, TaskStatusTypes DEF CancelTask, TypeOK, Terminal
  <2>2. QED
    BY <1>2, <2>1, FinalizeType DEF CancelTask, TypeOK, loopVars, memVars
<1>3. ASSUME NEW x, Abort(x) PROVE TypeOK'
  BY <1>3, CancelType, AggregateEnds, TaskStatusTypes
     DEF Abort, Resolve, ClearRequests, TypeOK, Decision, loopVars, workerVars, memVars
<1>4. ASSUME NEW x, Continue(x) \/ RetryFailed(x) PROVE TypeOK'
  BY <1>4 DEF Continue, RetryFailed, Resolve, TypeOK, Decision, RunStatus, TaskStatus,
              loopVars, workerVars, memVars, reqVars
<1>5. QED
  BY <1>1, <1>2, <1>3, <1>4 DEF UserStep

LEMMA TypeStep == TypeOK /\ [Next]_vars => TypeOK'
<1> SUFFICES ASSUME TypeOK, [Next]_vars PROVE TypeOK'
  OBVIOUS
<1>1. CASE UNCHANGED vars
  BY <1>1 DEF vars, TypeOK, loopVars, workerVars, memVars, runVars, reqVars
<1>2. CASE Next
  BY <1>2, WorkerType, LoopType, EndType, UserType DEF Next
<1>3. QED
  BY <1>1, <1>2

-----------------------------------------------------------------------------
(* The loop and its workers.                                               *)

LEMMA InSlotFinite == IsFiniteSet(InSlot) /\ Cardinality(InSlot) \in Nat
<1>1. IsFiniteSet(Task)
  BY FS_Interval, AgentsAssumption, RetriesAssumption DEF Task
<1>2. InSlot \in SUBSET Task
  BY DEF InSlot
<1>3. QED
  BY <1>1, <1>2, FS_Subset, FS_CardinalityType

(* A step of the loop is a step of one task.  It makes a worker only for   *)
(* that task, and takes one from the queue only with a slot free.          *)
LEMMA LoopShape ==
  ASSUME TypeOK, NEW t \in Task, LoopStep(t)
  PROVE  /\ ~ outer /\ UNCHANGED <<mode, outer, flagged>>
         /\ phase' \in {phase, "crashed"}
         /\ step[t] \in {"queued", "gate", "awaiting", "settling", "asking"}
         /\ step[t] = "queued" => /\ Cardinality(InSlot) < Slots
                                  /\ mode = "sequential" => phase = "running"
         /\ step[t] = "awaiting" => ~ Live(t)
         /\ worker'[t] # worker[t] => step'[t] = "awaiting"
         /\ \A u \in Task \ {t} : /\ worker'[u] = worker[u]
                                  /\ \/ step'[u] = step[u]
                                     \/ step[u] = "absent" /\ step'[u] = "queued"
<1>1. CASE Begin(t) \/ PassGate(t)
  BY <1>1 DEF Begin, PassGate, IsNext, SkipTask, CreateWorker, TypeOK, workerVars
<1>2. CASE Collect(t) \/ Raise(t) \/ SettleDone(t)
  BY <1>2 DEF Collect, Raise, SettleDone, Live, TypeOK, workerVars
<1>3. CASE SettleAsk(t) \/ SettleAbort(t)
  BY <1>3 DEF SettleAsk, SettleAbort, TypeOK, workerVars
<1>4. CASE Answered(t)
  <2>1. /\ ~ outer /\ step[t] = "asking"
        /\ UNCHANGED <<mode, outer, flagged, phase, worker>>
    BY <1>4 DEF Answered, workerVars
  <2>2. ASSUME NEW u \in Task \ {t}
        PROVE  step'[u] = step[u] \/ (step[u] = "absent" /\ step'[u] = "queued")
    BY <1>4 DEF Answered, TypeOK
  <2>3. QED
    BY <2>1, <2>2
<1>5. QED
  BY <1>1, <1>2, <1>3, <1>4 DEF LoopStep

LEMMA LoopTies ==
  ASSUME IInv, NEW t \in Task, LoopStep(t)
  PROVE  /\ LiveIsAwaited' /\ OuterReachesWorkers' /\ SlotsRespected'
         /\ OnlySequentialStops' /\ LoopStaysDone' /\ CancelledFromOutside'
<1> USE DEF IInv
<1>1. LiveIsAwaited'
  BY LoopShape DEF LiveIsAwaited, Live, TypeOK
<1>2. OuterReachesWorkers' /\ CancelledFromOutside'
  BY LoopShape DEF OuterReachesWorkers, CancelledFromOutside
<1>3. SlotsRespected'
  <2>1. UNCHANGED Slots
    BY LoopShape DEF Slots
  <2>2. Slots \in Nat
    BY ParallelAssumption DEF Slots
  <2>3. CASE t \in InSlot
    <3>1. InSlot' \subseteq InSlot
      BY <2>3, LoopShape DEF InSlot
    <3>2. Cardinality(InSlot') <= Cardinality(InSlot)
      BY <3>1, InSlotFinite, FS_Subset
    <3>3. Cardinality(InSlot') \in Nat
      BY <3>1, InSlotFinite, FS_Subset, FS_CardinalityType
    <3>4. QED
      BY <2>1, <2>2, <3>2, <3>3, InSlotFinite DEF SlotsRespected
  <2>4. CASE t \notin InSlot
    <3>1. step[t] = "queued" /\ Cardinality(InSlot) < Slots
      BY <2>4, LoopShape DEF InSlot
    <3>2. InSlot' \subseteq InSlot \cup {t}
      BY LoopShape DEF InSlot
    <3>3. /\ IsFiniteSet(InSlot \cup {t})
          /\ Cardinality(InSlot \cup {t}) = Cardinality(InSlot) + 1
      BY <2>4, InSlotFinite, FS_AddElement
    <3>4. Cardinality(InSlot') <= Cardinality(InSlot \cup {t}) /\ Cardinality(InSlot') \in Nat
      BY <3>2, <3>3, FS_Subset, FS_CardinalityType
    <3>5. QED
      BY <2>1, <2>2, <3>1, <3>3, <3>4, InSlotFinite DEF SlotsRespected
  <2>5. QED
    BY <2>3, <2>4
<1>4. LoopStaysDone'
  <2>1. phase \notin {"reporting", "returned"}
    <3>1. mode \in {"parallel", "sequential"}
      BY ModesAssumption DEF TypeOK
    <3>2. QED
      BY <3>1, LoopShape DEF LoopStaysDone, InSlot
  <2>2. QED
    BY <2>1, LoopShape DEF LoopStaysDone
<1>5. OnlySequentialStops'
  BY DEF OnlySequentialStops, LoopStep, Begin, PassGate, SkipTask, CreateWorker, Collect, Raise,
         SettleDone, SettleAsk, SettleAbort, Answered
<1>6. QED
  BY <1>1, <1>2, <1>3, <1>4, <1>5

LEMMA OthersTie ==
  ASSUME IInv, Finish \/ Return \/ OuterCancel \/ HandleOuterCancel
  PROVE  /\ LiveIsAwaited' /\ OuterReachesWorkers' /\ SlotsRespected'
         /\ OnlySequentialStops' /\ LoopStaysDone' /\ CancelledFromOutside'
<1> USE DEF IInv
<1>1. UNCHANGED <<mode, step, worker>>
  BY DEF Finish, Return, OuterCancel, HandleOuterCancel, workerVars
<1>2. LiveIsAwaited' /\ SlotsRespected'
  BY <1>1 DEF LiveIsAwaited, Live, SlotsRespected, InSlot, Slots
<1>3. OuterReachesWorkers'
  BY <1>1 DEF OuterReachesWorkers, Live, Finish, Return, OuterCancel, HandleOuterCancel, workerVars
<1>4. CancelledFromOutside'
  BY DEF CancelledFromOutside, Finish, Return, OuterCancel, HandleOuterCancel
<1>5. LoopStaysDone'
  <2>1. CASE Finish
    <3>1. InSlot = {} /\ (mode = "parallel" => \A t \in Task : step[t] # "queued")
      BY <2>1 DEF Finish, LoopDone, OnlySequentialStops
    <3>2. QED
      BY <1>1, <3>1 DEF LoopStaysDone, InSlot
  <2>2. CASE Return \/ OuterCancel \/ HandleOuterCancel
    BY <1>1, <2>2 DEF Return, OuterCancel, HandleOuterCancel, LoopStaysDone, InSlot
  <2>3. QED
    BY <2>1, <2>2
<1>6. OnlySequentialStops'
  BY <1>1 DEF OnlySequentialStops, Finish, Return, OuterCancel, HandleOuterCancel
<1>7. QED
  BY <1>2, <1>3, <1>4, <1>5, <1>6

(* Steps that neither move the loop nor make a worker keep its ties.       *)
LEMMA QuietTies ==
  ASSUME IInv, UNCHANGED <<mode, loopVars>>, flagged \subseteq flagged',
         \A u \in Task : Live(u)' => Live(u)
  PROVE  /\ LiveIsAwaited' /\ OuterReachesWorkers' /\ SlotsRespected'
         /\ OnlySequentialStops' /\ LoopStaysDone' /\ CancelledFromOutside'
<1> USE DEF IInv, loopVars
<1>1. LiveIsAwaited' /\ OuterReachesWorkers' /\ CancelledFromOutside'
  BY DEF LiveIsAwaited, OuterReachesWorkers, CancelledFromOutside
<1>2. SlotsRespected' /\ LoopStaysDone'
  BY DEF SlotsRespected, LoopStaysDone, InSlot, Slots
<1>3. OnlySequentialStops'
  BY DEF OnlySequentialStops
<1>4. QED
  BY <1>1, <1>2, <1>3

-----------------------------------------------------------------------------
(* The question and its asker.                                             *)

LEMMA LoopAsks ==
  ASSUME IInv, NEW t \in Task, LoopStep(t)
  PROVE  QuestionHasAsker'
<1> USE DEF IInv
<1>1. CASE SettleAsk(t)
  BY <1>1 DEF SettleAsk, QuestionHasAsker, TypeOK
<1>2. CASE SettleAbort(t)
  BY <1>2 DEF SettleAbort, QuestionHasAsker
<1>3. CASE Answered(t)
  <2>1. runStatus # "waiting" \/ cancelAt
    BY <1>3 DEF Answered, Answer
  <2>2. QED
    BY <1>3, <2>1 DEF Answered, QuestionHasAsker, runVars
<1>4. CASE Begin(t) \/ PassGate(t) \/ Collect(t) \/ Raise(t) \/ SettleDone(t)
  <2>1. UNCHANGED <<runStatus, cancelAt>> /\ step[t] # "asking"
    BY <1>4 DEF Begin, PassGate, IsNext, Collect, Raise, SettleDone, runVars
  <2>2. \A u \in Task : step[u] = "asking" => step'[u] = "asking"
    BY <2>1, LoopShape
  <2>3. QED
    BY <2>1, <2>2 DEF QuestionHasAsker
<1>5. QED
  BY <1>1, <1>2, <1>3, <1>4 DEF LoopStep

LEMMA OthersAsk ==
  ASSUME IInv, Finish \/ Return \/ OuterCancel \/ HandleOuterCancel
  PROVE  QuestionHasAsker'
BY AggregateEnds, TaskStatusTypes
   DEF IInv, QuestionHasAsker, Finish, Return, OuterCancel, HandleOuterCancel, runVars

-----------------------------------------------------------------------------
(* The record and the copies in memory.                                    *)

(* What a step must do to keep completed reports: the record loses none,   *)
(* and what it gains is in memory too.                                     *)
Keeps ==
  /\ \A t \in Task : disk[t] = "completed" => disk'[t] = "completed"
  /\ RecordFollowsMemory'

(* Enough for a step after which each entry of the record is as it was or  *)
(* is the one in memory, where completed tasks have neither come nor gone. *)
LEMMA CopiesKeep ==
  ASSUME IInv, ~ reloaded, ~ reloaded', mem' = orig',
         \A u \in Task : /\ mem'[u] = "completed" <=> mem[u] = "completed"
                         /\ \/ disk'[u] = disk[u] \/ disk'[u] = mem'[u]
                            \/ disk'[u] # "completed" /\ disk[u] # "completed"
                         /\ Live(u)' => Live(u) \/ mem[u] # "completed"
  PROVE  Keeps
<1>1. ASSUME NEW u \in Task
      PROVE  /\ disk[u] = "completed" => disk'[u] = "completed"
             /\ disk'[u] = "completed" => mem'[u] = "completed"
             /\ Live(u)' => mem'[u] # "completed"
  BY DEF IInv, RecordFollowsMemory, Live
<1>2. QED
  BY <1>1 DEF Keeps, RecordFollowsMemory

LEMMA WorkerKeeps ==
  ASSUME IInv, ~ reloaded, NEW t \in Task, WorkerStep(t)
  PROVE  Keeps
<1>1. reloaded' = reloaded
  BY WorkerFrame DEF loopVars
<1>2. Live(t) /\ mem[t] # "completed" /\ disk[t] # "completed"
  <2>1. Live(t)
    BY DEF Live, WorkerStep, WorkerStart, WorkerSave, WorkerReport, WorkerError, WorkerStop,
           WorkerCancelled
  <2>2. QED
    BY <2>1 DEF IInv, RecordFollowsMemory, Live
<1>3. mem' = orig'
  BY DEF IInv, RecordFollowsMemory, WorkerStep, WorkerStart, WorkerSave, WorkerReport,
         WorkerError, WorkerStop, WorkerCancelled, WorkerEnds, SetMem
<1>4. \A u \in Task \ {t} : mem'[u] = mem[u] /\ disk'[u] = disk[u] /\ worker'[u] = worker[u]
  BY DEF IInv, TypeOK, WorkerStep, WorkerStart, WorkerSave, WorkerReport,
         WorkerError, WorkerStop, WorkerCancelled, WorkerEnds, SetMem, workerVars
<1>5. /\ disk'[t] = "completed" => mem'[t] = "completed"
      /\ Live(t)' => mem'[t] # "completed"
  BY <1>2 DEF IInv, TypeOK, Live, WorkerStep, WorkerStart, WorkerSave, WorkerReport,
         WorkerError, WorkerStop, WorkerCancelled, WorkerEnds, SetMem, workerVars
<1>6. QED
  BY <1>1, <1>2, <1>3, <1>4, <1>5 DEF IInv, Keeps, RecordFollowsMemory, Live

LEMMA LoopKeeps ==
  ASSUME IInv, ~ reloaded, NEW t \in Task, LoopStep(t)
  PROVE  Keeps
<1> USE DEF IInv
<1>1. CASE Begin(t) \/ PassGate(t)
  <2>1. UNCHANGED <<reloaded, mem, orig>>
    BY <1>1 DEF Begin, PassGate, SkipTask, CreateWorker, memVars
  <2>2. \A u \in Task : disk'[u] = disk[u] \/ (disk'[u] = mem[u])
    BY <1>1 DEF Begin, PassGate, TypeOK
  <2>3. \A u \in Task : Live(u)' => Live(u) \/ mem[u] # "completed"
    BY <1>1 DEF Begin, PassGate, SkipTask, CreateWorker, TypeOK, Live, Terminal, workerVars
  <2>4. QED
    BY <2>1, <2>2, <2>3, CopiesKeep DEF RecordFollowsMemory
<1>2. CASE Collect(t) \/ Raise(t) \/ SettleDone(t) \/ SettleAsk(t) \/ Answered(t)
  <2>1. UNCHANGED worker /\ (reloaded' \/ UNCHANGED <<reloaded, mem, orig>>)
    BY <1>2 DEF Collect, Raise, SettleDone, SettleAsk, Answered, workerVars, memVars
  <2>2. \A u \in Task : disk'[u] = disk[u] \/ (~ reloaded' /\ disk'[u] = mem[u])
    BY <1>2 DEF Collect, Raise, SettleDone, SettleAsk, Answered, Overwrite, runVars
  <2>3. CASE reloaded'
    BY <2>2, <2>3 DEF Keeps, RecordFollowsMemory
  <2>4. CASE ~ reloaded'
    BY <2>1, <2>2, <2>4, CopiesKeep DEF Live, RecordFollowsMemory
  <2>5. QED
    BY <2>3, <2>4
<1>3. CASE SettleAbort(t)
  <2>1. /\ mem' = orig' /\ mem' = Cancel(mem, InLoop \ {t})
        /\ disk' = Overwrite(disk, InLoop, mem') /\ UNCHANGED <<reloaded, worker>>
    BY <1>3 DEF SettleAbort, SetMem, workerVars
  <2>2. \A u \in Task : mem'[u] = "completed" <=> mem[u] = "completed"
    BY <2>1 DEF Cancel, Terminal, TypeOK
  <2>3. \A u \in Task : disk'[u] = disk[u] \/ disk'[u] = mem'[u]
    BY <2>1 DEF Overwrite
  <2>4. QED
    BY <2>1, <2>2, <2>3, CopiesKeep DEF Live
<1>4. QED
  BY <1>1, <1>2, <1>3 DEF LoopStep

LEMMA OthersKeep ==
  ASSUME IInv, ~ reloaded, Finish \/ Return \/ OuterCancel \/ HandleOuterCancel
  PROVE  Keeps
<1> USE DEF IInv
<1>1. CASE Finish \/ Return \/ OuterCancel
  BY <1>1 DEF Finish, Return, OuterCancel, Keeps, RecordFollowsMemory, Live, workerVars, memVars
<1>2. CASE HandleOuterCancel
  <2>1. UNCHANGED <<reloaded, worker>>
    BY <1>2 DEF HandleOuterCancel
  <2>2. CASE phase = "running"
    <3>1. /\ orig' = Cancel(orig, Original) /\ mem' = orig'
          /\ disk' = Overwrite(disk, Original, orig')
      BY <1>2, <2>2 DEF HandleOuterCancel
    <3>2. \A u \in Task : orig'[u] = "completed" <=> orig[u] = "completed"
      BY <3>1 DEF Cancel, Terminal, TypeOK
    <3>3. \A u \in Task : disk'[u] = disk[u] \/ disk'[u] = mem'[u]
      BY <3>1 DEF Overwrite
    <3>4. QED
      BY <2>1, <3>1, <3>2, <3>3, CopiesKeep DEF RecordFollowsMemory, Live
  <2>3. CASE phase # "running"
    <3>1. disk' = Cancel(disk, Task) /\ UNCHANGED <<mem, orig>>
      BY <1>2, <2>3 DEF HandleOuterCancel
    <3>2. \A u \in Task : disk'[u] = "completed" <=> disk[u] = "completed"
      BY <3>1 DEF Cancel, Terminal, TypeOK
    <3>3. QED
      BY <2>1, <3>1, <3>2 DEF Keeps, RecordFollowsMemory, Live
  <2>4. QED
    BY <2>2, <2>3
<1>3. QED
  BY <1>1, <1>2

LEMMA UserKeeps ==
  ASSUME IInv, ~ reloaded, UserStep
  PROVE  Keeps
<1>1. UNCHANGED <<reloaded, worker>>
  BY UserFrame DEF IInv, loopVars
<1>2. UNCHANGED <<mem, orig>>
  BY DEF UserStep, CancelRun, CancelTask, Abort, Continue, RetryFailed, memVars
<1>3. \A u \in Task : disk'[u] = "completed" <=> disk[u] = "completed"
  <2>1. CASE CancelRun
    BY <2>1 DEF CancelRun, Cancel, Terminal, IInv, TypeOK
  <2>2. ASSUME NEW t \in Task, CancelTask(t)
        PROVE  \A u \in Task : disk'[u] = "completed" <=> disk[u] = "completed"
    BY <2>2 DEF CancelTask, IInv, TypeOK
  <2>3. ASSUME NEW x, Abort(x)
        PROVE  \A u \in Task : disk'[u] = "completed" <=> disk[u] = "completed"
    BY <2>3 DEF Abort, Cancel, Terminal, IInv, TypeOK
  <2>4. ASSUME NEW x, Continue(x) \/ RetryFailed(x)
        PROVE  \A u \in Task : disk'[u] = "completed" <=> disk[u] = "completed"
    BY <2>4 DEF Continue, RetryFailed, InRecord, IInv, TypeOK
  <2>5. QED
    BY <2>1, <2>2, <2>3, <2>4 DEF UserStep
<1>4. QED
  BY <1>1, <1>2, <1>3 DEF IInv, Keeps, RecordFollowsMemory, Live

LEMMA ReloadedStays == IInv /\ [Next]_vars /\ reloaded => reloaded'
<1> SUFFICES ASSUME [Next]_vars, reloaded PROVE reloaded'
  OBVIOUS
<1>1. ASSUME NEW t \in Task, WorkerStep(t) PROVE reloaded'
  BY <1>1, WorkerFrame DEF loopVars
<1>2. ASSUME NEW t \in Task, LoopStep(t) PROVE reloaded'
  BY <1>2 DEF LoopStep, Begin, PassGate, SkipTask, CreateWorker, Collect, Raise,
              SettleDone, SettleAsk, SettleAbort, Answered
<1>3. CASE Finish \/ Return \/ OuterCancel \/ HandleOuterCancel
  BY <1>3 DEF Finish, Return, OuterCancel, HandleOuterCancel
<1>4. CASE UserStep
  BY <1>4 DEF UserStep, CancelRun, CancelTask, Abort, Continue, RetryFailed, loopVars
<1>5. CASE UNCHANGED vars
  BY <1>5 DEF vars, loopVars
<1>6. QED
  BY <1>1, <1>2, <1>3, <1>4, <1>5 DEF Next

LEMMA StepKeeps == IInv /\ [Next]_vars /\ ~ reloaded => Keeps
<1> SUFFICES ASSUME IInv, [Next]_vars, ~ reloaded PROVE Keeps
  OBVIOUS
<1>1. CASE UNCHANGED vars
  BY <1>1 DEF IInv, vars, loopVars, workerVars, memVars, Keeps, RecordFollowsMemory, Live
<1>2. CASE Next
  BY <1>2, WorkerKeeps, LoopKeeps, OthersKeep, UserKeeps DEF Next
<1>3. QED
  BY <1>1, <1>2

-----------------------------------------------------------------------------
(* The induction.                                                          *)

LEMMA InitIInv == Init => IInv
<1> SUFFICES ASSUME Init PROVE IInv
  OBVIOUS
<1>1. TypeOK
  BY DEF Init, TypeOK, Phase, Step, Worker, Decision, TaskStatus, RunStatus
<1>2. InSlot = {}
  BY DEF Init, InSlot
<1>3. SlotsRespected
  BY <1>2, FS_EmptySet, ParallelAssumption DEF SlotsRespected, Slots
<1>4. /\ LiveIsAwaited /\ OuterReachesWorkers /\ OnlySequentialStops
      /\ LoopStaysDone /\ CancelledFromOutside /\ QuestionHasAsker
  BY DEF Init, LiveIsAwaited, Live, OuterReachesWorkers, OnlySequentialStops, LoopStaysDone,
         CancelledFromOutside, QuestionHasAsker
<1>5. RecordFollowsMemory
  BY DEF Init, RecordFollowsMemory, Live
<1>6. QED
  BY <1>1, <1>3, <1>4, <1>5 DEF IInv

LEMMA StepIInv == IInv /\ [Next]_vars => IInv'
<1> SUFFICES ASSUME IInv, [Next]_vars PROVE IInv'
  OBVIOUS
<1>1. TypeOK'
  BY TypeStep DEF IInv
<1>2. RecordFollowsMemory'
  BY StepKeeps, ReloadedStays DEF Keeps, RecordFollowsMemory
<1>3. CASE UNCHANGED vars
  <2>1. \A u \in Task : Live(u)' => Live(u)
    BY <1>3 DEF vars, workerVars, Live
  <2>2. QuestionHasAsker'
    BY <1>3 DEF IInv, vars, loopVars, runVars, QuestionHasAsker
  <2>3. QED
    BY <1>1, <1>2, <1>3, <2>1, <2>2, QuietTies DEF IInv, vars, workerVars
<1>4. ASSUME NEW t \in Task, WorkerStep(t) PROVE IInv'
  <2>1. UNCHANGED <<mode, loopVars, flagged, runVars>>
    BY <1>4, WorkerFrame
  <2>2. \A u \in Task : Live(u)' => Live(u)
    BY <1>4, WorkerShrinks DEF IInv
  <2>3. QuestionHasAsker'
    BY <2>1 DEF IInv, loopVars, runVars, QuestionHasAsker
  <2>4. QED
    BY <1>1, <1>2, <2>1, <2>2, <2>3, QuietTies DEF IInv
<1>5. ASSUME NEW t \in Task, LoopStep(t) PROVE IInv'
  BY <1>1, <1>2, <1>5, LoopTies, LoopAsks DEF IInv
<1>6. CASE Finish \/ Return \/ OuterCancel \/ HandleOuterCancel
  BY <1>1, <1>2, <1>6, OthersTie, OthersAsk DEF IInv
<1>7. CASE UserStep
  <2>1. /\ UNCHANGED <<mode, loopVars, worker>> /\ flagged \subseteq flagged'
        /\ cancelAt => cancelAt'
        /\ runStatus' = "waiting" => runStatus = "waiting"
    BY <1>7, UserFrame DEF IInv
  <2>2. \A u \in Task : Live(u)' => Live(u)
    BY <2>1 DEF Live
  <2>3. QuestionHasAsker'
    BY <2>1 DEF IInv, loopVars, QuestionHasAsker
  <2>4. QED
    BY <1>1, <1>2, <2>1, <2>2, <2>3, QuietTies DEF IInv
<1>8. QED
  BY <1>3, <1>4, <1>5, <1>6, <1>7 DEF Next

(* The inductive invariant holds in every reachable state.                 *)
THEOREM InvariantHolds == Spec => []IInv
BY InitIInv, StepIInv, PTL DEF Spec

(* Type correctness of the run, its loop, workers and record.              *)
THEOREM TypeCorrect == Spec => []TypeOK
<1>1. IInv => TypeOK
  BY DEF IInv
<1>2. QED
  BY <1>1, InvariantHolds, PTL

(* A run that waits for an answer has a task that will act on it, unless   *)
(* a cancellation has cut the wait short.                                  *)
THEOREM QuestionIsHeard == Spec => []QuestionHasAsker
<1>1. IInv => QuestionHasAsker
  BY DEF IInv
<1>2. QED
  BY <1>1, InvariantHolds, PTL

LEMMA IInvBounds == IInv => BoundedWorkers
<1> SUFFICES ASSUME IInv PROVE BoundedWorkers
  OBVIOUS
<1> DEFINE L == {t \in Task : Live(t)}
<1>1. L \subseteq InSlot
  BY DEF IInv, LiveIsAwaited, InSlot
<1>2. Cardinality(L) <= Cardinality(InSlot) /\ Cardinality(L) \in Nat
  BY <1>1, InSlotFinite, FS_Subset, FS_CardinalityType
<1>3. Cardinality(InSlot) <= Slots /\ Slots \in Nat
  BY ParallelAssumption DEF IInv, SlotsRespected, Slots
<1>4. QED
  BY <1>2, <1>3, InSlotFinite DEF BoundedWorkers

(* At most max_parallel_agents workers run at once, one in a sequential    *)
(* run.                                                                    *)
THEOREM WorkersAreBounded == Spec => []BoundedWorkers
BY IInvBounds, InvariantHolds, PTL

LEMMA IInvLeavesNone == IInv => NoOrphanWorker
<1> SUFFICES ASSUME IInv, phase \in {"returned", "cancelled"}, NEW t \in Task, Live(t)
             PROVE  t \in flagged
  BY DEF NoOrphanWorker
<1>1. step[t] = "awaiting"
  BY DEF IInv, LiveIsAwaited
<1>2. phase # "returned"
  BY <1>1 DEF IInv, LoopStaysDone, InSlot
<1>3. QED
  BY <1>2 DEF IInv, CancelledFromOutside, OuterReachesWorkers

(* No worker outlives the run unseen: when run_sync has returned or has    *)
(* been cancelled, what still runs has been told to stop.                  *)
THEOREM NoWorkerIsOrphaned == Spec => []NoOrphanWorker
BY IInvLeavesNone, InvariantHolds, PTL

(* Workers are bounded, asked about by a listener, and never orphaned.     *)
THEOREM SupervisionHolds == Spec => []Supervised
<1>1. BoundedWorkers /\ QuestionHasAsker /\ NoOrphanWorker => Supervised
  BY DEF Supervised
<1>2. QED
  BY <1>1, WorkersAreBounded, QuestionIsHeard, NoWorkerIsOrphaned, PTL

(* No save of a stale copy overwrites a completed report.                  *)
THEOREM CompletedReportsStay == Spec => CompletedIsKept
<1>1. IInv /\ [Next]_vars =>
        [\A t \in Task : ~ reloaded /\ disk[t] = "completed" => disk'[t] = "completed"]_vars
  BY StepKeeps DEF Keeps
<1>2. QED
  BY <1>1, InvariantHolds, PTL DEF Spec, CompletedIsKept

-----------------------------------------------------------------------------
(* The report, for a run that puts no failure to the user.                 *)

(* What aggregate_multiagent_report returns agrees with the tasks it read. *)
LEMMA AggregateStatus ==
  ASSUME NEW rs, NEW d
  PROVE  StatusOf(Aggregate(rs, d, InRecord(d)), d)
<1> DEFINE S == InRecord(d)
           bad == {t \in S : d[t] # "completed"}
<1>1. CASE bad = {}
  <2>1. Aggregate(rs, d, S) = "completed"
    BY <1>1 DEF Aggregate
  <2>2. \A t \in S : d[t] = "completed"
    BY <1>1
  <2>3. QED
    BY <2>1, <2>2 DEF StatusOf, RunTerminal, Terminal
<1>2. CASE bad # {} /\ bad # S
  <2>1. Aggregate(rs, d, S) = "partial"
    BY <1>2 DEF Aggregate
  <2>2. /\ \E t \in S : d[t] = "completed"
        /\ \E t \in S : d[t] # "completed"
    BY <1>2
  <2>3. QED
    BY <2>1, <2>2 DEF StatusOf, RunTerminal, Terminal
<1>3. CASE bad # {} /\ bad = S
  <2>1. Aggregate(rs, d, S) \in {"cancelled", "failed"}
    BY <1>3 DEF Aggregate
  <2>2. /\ \A t \in S : d[t] # "completed"
        /\ \E t \in S : d[t] # "completed"
    BY <1>3
  <2>3. QED
    BY <2>1, <2>2 DEF StatusOf, RunTerminal, Terminal
<1>4. QED
  BY <1>1, <1>2, <1>3

(* Once the loop is over neither it nor a worker takes a step.             *)
LEMMA NothingRunsAfter ==
  ASSUME IInv, phase \in {"reporting", "returned"}, NEW t \in Task
  PROVE  ~ WorkerStep(t) /\ ~ LoopStep(t)
<1>1. ~ WorkerStep(t)
  <2>1. ~ Live(t)
    BY DEF IInv, LiveIsAwaited, LoopStaysDone, InSlot
  <2>2. QED
    BY <2>1 DEF Live, WorkerStep, WorkerStart, WorkerSave, WorkerReport, WorkerError, WorkerStop,
                WorkerCancelled
<1>2. ~ LoopStep(t)
  <2>1. mode \in {"parallel", "sequential"}
    BY ModesAssumption DEF IInv, TypeOK
  <2>2. step[t] \notin {"gate", "awaiting", "settling", "asking"}
    BY DEF IInv, LoopStaysDone, InSlot
  <2>3. mode = "parallel" => step[t] # "queued"
    BY DEF IInv, LoopStaysDone
  <2>4. QED
    BY <2>1, <2>2, <2>3, LoopShape DEF IInv
<1>3. QED
  BY <1>1, <1>2

(* A step of a worker.                                                     *)
LEMMA WorkerReports ==
  ASSUME IInv, ReportInv, Unattended, NEW t \in Task, WorkerStep(t)
  PROVE  ReportInv'
<1> USE DEF IInv, ReportInv
<1>1. UNCHANGED <<mode, policy, loopVars, flagged, indexed, memRun, runVars, reqVars>>
  BY WorkerFrame
<1>2. Live(t) /\ step[t] = "awaiting" /\ phase \notin {"reporting", "returned"}
  <2>1. Live(t)
    BY DEF Live, WorkerStep, WorkerStart, WorkerSave, WorkerReport, WorkerError, WorkerStop,
           WorkerCancelled
  <2>2. QED
    BY <2>1, NothingRunsAfter DEF LiveIsAwaited
<1>3. \A u \in Task \ {t} : mem'[u] = mem[u] /\ disk'[u] = disk[u] /\ worker'[u] = worker[u]
  BY DEF TypeOK, WorkerStep, WorkerStart, WorkerSave, WorkerReport,
         WorkerError, WorkerStop, WorkerCancelled, WorkerEnds, SetMem, workerVars
<1>4. \/ UNCHANGED <<mem, disk>> /\ worker[t] = "created" /\ t \in flagged /\ worker'[t] = "cancelled"
      \/ UNCHANGED <<mem, disk>> /\ worker[t] = "created" /\ worker'[t] = "stopped"
      \/ mem'[t] = disk'[t] /\ worker'[t] = "active" /\ disk'[t] \in {"running", mem[t]}
      \/ mem'[t] = disk'[t] /\ worker'[t] \in {"returned", "cancelled"} /\ disk'[t] \in Terminal
  BY DEF TypeOK, WorkerStep, WorkerStart, WorkerSave, WorkerReport, WorkerError, WorkerStop,
         WorkerCancelled, WorkerEnds, SetMem, workerVars, Terminal
<1>5. NoQuestions' /\ ReturnsUndisturbed' /\ ReportHolds'
  BY <1>1, <1>2 DEF NoQuestions, ReturnsUndisturbed, ReportHolds, loopVars, runVars
<1>6. NoRetries'
  <2>1. /\ disk[t] # "absent" /\ disk'[t] # "absent"
        /\ mem[t] # "absent" /\ mem'[t] # "absent"
    BY <1>2, <1>4 DEF NoRetries, Terminal
  <2>2. QED
    BY <1>1, <1>3, <2>1 DEF NoRetries, loopVars
<1>7. CopiesAgree'
  BY <1>3, <1>4 DEF CopiesAgree
<1>8. WorkersSave'
  BY <1>1, <1>2, <1>3, <1>4 DEF WorkersSave, loopVars, Terminal
<1>9. LoopSettles'
  <2>1. SUFFICES ASSUME Undisturbed PROVE LoopSettles'
    BY <1>1 DEF LoopSettles, Undisturbed, loopVars
  <2>2. ~ stopped
    BY <1>2, <2>1 DEF LoopSettles, InSlot
  <2>3. \A u \in Task :
         /\ worker'[u] = "created" /\ u \in flagged' => disk'[u] \in Terminal
         /\ worker'[u] = "cancelled" => disk'[u] \in Terminal
         /\ step'[u] \in {"settling", "done"} => disk'[u] \in Terminal
         /\ step'[u] # "raised"
    BY <1>1, <1>2, <1>3, <1>4, <2>1 DEF LoopSettles, loopVars
  <2>4. QED
    BY <1>1, <2>2, <2>3 DEF LoopSettles, loopVars
<1>10. QED
  BY <1>5, <1>6, <1>7, <1>8, <1>9

(* What a step of the loop is without questions to the user.               *)
LEMMA LoopUnattended ==
  ASSUME IInv, ReportInv, Unattended, NEW t \in Task, LoopStep(t)
  PROVE  /\ ~ outer /\ phase \in {"running", "cancelled", "crashed"}
         /\ Begin(t) \/ Collect(t) \/ Raise(t) \/ SettleDone(t) \/ SettleAbort(t)
         /\ ~ (mode = "parallel" /\ memRun = "waiting")
         /\ t \in Original
<1>1. ~ outer /\ step[t] # "absent"
  BY LoopShape DEF IInv
<1>2. phase \in {"running", "cancelled", "crashed"}
  BY NothingRunsAfter DEF IInv, TypeOK, Phase
<1>3. Begin(t) \/ Collect(t) \/ Raise(t) \/ SettleDone(t) \/ SettleAbort(t)
  BY DEF ReportInv, NoQuestions, LoopStep, PassGate, SettleAsk, Answered, Unattended
<1>4. QED
  BY <1>1, <1>2, <1>3 DEF ReportInv, NoQuestions, NoRetries

(* Begin, Collect, Raise and SettleDone: memory and the run stay as they   *)
(* are, and the record changes at most for a task not begun before.        *)
LEMMA LoopMoves ==
  ASSUME IInv, ReportInv, Unattended, NEW t \in Task,
         Begin(t) \/ Collect(t) \/ Raise(t) \/ SettleDone(t)
  PROVE  ReportInv'
<1> USE DEF IInv, ReportInv
<1>0. LoopStep(t)
  BY DEF LoopStep
<1>1. /\ ~ outer /\ phase \in {"running", "cancelled", "crashed"} /\ t \in Original
      /\ ~ (mode = "parallel" /\ memRun = "waiting")
  BY <1>0, LoopUnattended
<1>2. UNCHANGED <<mode, policy, outer, stopped, reloaded, flagged, memVars, runVars>>
  BY <1>1 DEF Begin, Collect, Raise, SettleDone, SkipTask, CreateWorker, workerVars, memVars, runVars
<1>3. phase' = phase \/ phase' = "crashed"
  BY <1>1 DEF Begin, Collect, Raise, SettleDone, SkipTask, CreateWorker
<1>4. \A u \in Task \ {t} : /\ step'[u] = step[u] /\ worker'[u] = worker[u]
                            /\ disk'[u] = disk[u] /\ result'[u] = result[u]
  BY <1>1 DEF Begin, Collect, Raise, SettleDone, SkipTask, CreateWorker, TypeOK, workerVars
<1>5. \/ /\ step[t] = "queued" /\ step'[t] = "settling" /\ result'[t] = mem[t]
         /\ mem[t] \in Terminal
         /\ disk'[t] = disk[t] /\ worker'[t] = worker[t] /\ ~ stopped
      \/ /\ step[t] = "queued" /\ step'[t] = "awaiting" /\ worker'[t] = "created"
         /\ mem[t] \notin Terminal /\ disk'[t] \in {disk[t], mem[t]} /\ ~ stopped
      \/ /\ step[t] = "awaiting" /\ step'[t] = "settling"
         /\ \/ worker[t] = "returned" /\ result'[t] = mem[t]
            \/ worker[t] = "cancelled" /\ result'[t] = disk[t]
         /\ disk'[t] = disk[t] /\ worker'[t] = worker[t]
      \/ /\ step[t] = "awaiting" /\ step'[t] = "raised" /\ phase' # "running"
         /\ disk'[t] = disk[t] /\ worker'[t] = worker[t]
      \/ /\ step[t] = "settling" /\ step'[t] = "done"
         /\ disk'[t] = disk[t] /\ worker'[t] = worker[t] /\ result'[t] = result[t]
  <2>1. CASE Begin(t)
    <3>1. ~ stopped
      BY <2>1 DEF Begin, IsNext, OnlySequentialStops
    <3>2. QED
      BY <1>1, <2>1, <3>1 DEF Begin, IsNext, SkipTask, CreateWorker, TypeOK, workerVars
  <2>2. CASE Collect(t) \/ SettleDone(t)
    BY <2>2 DEF Collect, SettleDone, TypeOK, workerVars
  <2>3. CASE Raise(t)
    BY <1>1, <2>3 DEF Raise, TypeOK
  <2>4. QED
    BY <2>1, <2>2, <2>3
<1>6. NoQuestions'
  <2>1. \A u \in Task : step'[u] \notin {"gate", "asking"}
    BY <1>4, <1>5 DEF NoQuestions
  <2>2. QED
    BY <1>2, <2>1 DEF NoQuestions, memVars, runVars
<1>7. NoRetries' /\ CopiesAgree'
  <2>1. step'[t] # "absent" /\ step[t] # "absent"
    BY <1>5
  <2>2. disk'[t] \in {"cancelled", mem[t]}
    BY <1>5 DEF CopiesAgree
  <2>3. mem[t] # "absent"
    BY <1>1 DEF NoRetries
  <2>4. QED
    BY <1>1, <1>2, <1>4, <2>1, <2>2, <2>3 DEF NoRetries, CopiesAgree, memVars
<1>8. WorkersSave'
  BY <1>2, <1>4, <1>5 DEF WorkersSave, CopiesAgree, memVars, Terminal
<1>9. ReportHolds' /\ ReturnsUndisturbed'
  BY <1>1, <1>3 DEF ReportHolds, ReturnsUndisturbed
<1>10. LoopSettles'
  <2>1. SUFFICES ASSUME Undisturbed, phase' = phase PROVE LoopSettles'
    BY <1>1, <1>2, <1>3 DEF LoopSettles, Undisturbed
  <2>2. phase = "running"
    BY <1>1, <2>1 DEF Undisturbed
  <2>3. ~ stopped
    BY <1>5, <2>1 DEF LoopSettles, InSlot
  <2>4. t \notin flagged \/ step[t] # "queued"
    BY DEF WorkersSave
  <2>5. \A u \in Task :
         /\ worker'[u] = "created" /\ u \in flagged' => disk'[u] \in Terminal
         /\ worker'[u] = "cancelled" => disk'[u] \in Terminal
         /\ step'[u] \in {"settling", "done"} => disk'[u] \in Terminal
         /\ step'[u] # "raised"
    <3>1. ASSUME NEW u \in Task \ {t}
          PROVE  /\ worker'[u] = "created" /\ u \in flagged' => disk'[u] \in Terminal
                 /\ worker'[u] = "cancelled" => disk'[u] \in Terminal
                 /\ step'[u] \in {"settling", "done"} => disk'[u] \in Terminal
                 /\ step'[u] # "raised"
      BY <1>2, <1>4, <2>1 DEF LoopSettles
    <3>2. step'[t] # "raised"
      BY <1>5, <2>1, <2>2
    <3>3. step'[t] \in {"settling", "done"} => disk'[t] \in Terminal
      BY <1>5, <2>1 DEF LoopSettles, WorkersSave, CopiesAgree, Terminal
    <3>4. worker'[t] = "created" /\ t \in flagged' => disk'[t] \in Terminal
      BY <1>2, <1>5, <2>1, <2>4 DEF LoopSettles
    <3>5. worker'[t] = "cancelled" => disk'[t] \in Terminal
      <4>1. worker'[t] = "cancelled" => worker[t] = "cancelled" /\ disk'[t] = disk[t]
        BY <1>5
      <4>2. QED
        BY <4>1, <2>1 DEF LoopSettles
    <3>6. QED
      BY <3>1, <3>2, <3>3, <3>4, <3>5
  <2>6. QED
    BY <1>2, <2>3, <2>5 DEF LoopSettles
<1>11. QED
  BY <1>6, <1>7, <1>8, <1>9, <1>10

(* _abort_pending_tasks_after_failure settles every task on record.        *)
LEMMA AbortReports ==
  ASSUME IInv, ReportInv, Unattended, NEW t \in Task, SettleAbort(t)
  PROVE  ReportInv'
<1> USE DEF IInv, ReportInv
<1>0. LoopStep(t)
  BY DEF LoopStep
<1>1. ~ outer /\ phase \in {"running", "cancelled", "crashed"} /\ t \in Original
  BY <1>0, LoopUnattended
<1>2. /\ UNCHANGED <<mode, policy, phase, outer, reloaded, result, workerVars>>
      /\ step[t] = "settling" /\ step' = [step EXCEPT ![t] = "done"]
      /\ mem' = Cancel(mem, InLoop \ {t}) /\ disk' = Overwrite(disk, InLoop, mem')
      /\ runStatus' = "cancelled" /\ memRun' = "cancelled"
      /\ stopped' = (mode = "sequential") /\ mem[t] = "failed"
  BY DEF SettleAbort, SetMem, WorkersSave
<1>3. InLoop = Original
  BY AgentsAssumption, RetriesAssumption DEF InLoop, NoRetries, Original, Task
<1>4. \A u \in Original : /\ disk'[u] = mem'[u] /\ mem'[u] \in Terminal
                          /\ mem[u] \in Terminal => mem'[u] = mem[u]
  <2>1. SUFFICES ASSUME NEW u \in Original
                 PROVE  /\ disk'[u] = mem'[u] /\ mem'[u] \in Terminal
                        /\ mem[u] \in Terminal => mem'[u] = mem[u]
    OBVIOUS
  <2>2. u \in Task /\ mem[u] # "absent"
    BY RetriesAssumption, AgentsAssumption DEF Original, Task, NoRetries
  <2>3. QED
    BY <1>2, <1>3, <2>2 DEF Cancel, Overwrite, Terminal
<1>5. \A u \in Task \ Original : disk'[u] = "absent" /\ mem'[u] = "absent"
  BY <1>2, <1>3 DEF Cancel, Overwrite, NoRetries
<1>6. AllTerminal(disk')
  BY <1>4, <1>5 DEF AllTerminal, InRecord
<1>7. NoQuestions' /\ ReportHolds' /\ ReturnsUndisturbed'
  BY <1>1, <1>2 DEF NoQuestions, ReportHolds, ReturnsUndisturbed, TypeOK
<1>8. NoRetries' /\ CopiesAgree'
  <2>1. \A u \in Original : disk'[u] # "absent" /\ mem'[u] # "absent"
    BY <1>4 DEF Terminal
  <2>2. \A u \in Task : step'[u] = "absent" <=> step[u] = "absent"
    BY <1>2 DEF TypeOK
  <2>3. QED
    BY <1>4, <1>5, <2>1, <2>2 DEF NoRetries, CopiesAgree
<1>9. WorkersSave'
  <2>1. \A u \in Task : /\ mem'[u] = "running" => FALSE
                        /\ mem[u] \in Terminal => mem'[u] = mem[u]
    BY <1>2, <1>4, <1>5 DEF Terminal, Cancel
  <2>2. \A u \in Task : step'[u] \in {"absent", "queued", "settling"} => step'[u] = step[u]
    BY <1>2 DEF TypeOK
  <2>3. QED
    BY <1>2, <2>1, <2>2 DEF WorkersSave, workerVars, Terminal
<1>10. LoopSettles'
  <2>1. SUFFICES ASSUME Undisturbed PROVE LoopSettles'
    BY <1>2 DEF LoopSettles, Undisturbed
  <2>2. \A u \in Task : step'[u] # "absent" => disk'[u] \in Terminal
    BY <1>2, <1>4 DEF NoRetries, TypeOK
  <2>3. \A u \in Task : worker[u] # "none" => step[u] # "absent"
    BY DEF WorkersSave
  <2>4. \A u \in Task : step'[u] # "raised" /\ (step[u] # "absent" => step'[u] # "absent")
    BY <1>2, <2>1 DEF LoopSettles, TypeOK
  <2>5. stopped' => InSlot' = {}
    <3>1. SUFFICES ASSUME mode = "sequential" PROVE InSlot' = {}
      BY <1>2
    <3>2. t \in InSlot /\ Cardinality(InSlot) <= 1
      BY <1>2, <3>1 DEF InSlot, SlotsRespected, Slots
    <3>3. Cardinality(InSlot \ {t}) = Cardinality(InSlot) - 1 /\ IsFiniteSet(InSlot \ {t})
      BY <3>2, InSlotFinite, FS_RemoveElement
    <3>4. Cardinality(InSlot \ {t}) = 0
      BY <3>2, <3>3, InSlotFinite, FS_CardinalityType
    <3>5. InSlot \ {t} = {}
      BY <3>3, <3>4, FS_EmptySet
    <3>6. InSlot' \subseteq InSlot \ {t}
      BY <1>2 DEF InSlot, TypeOK
    <3>7. QED
      BY <3>5, <3>6
  <2>6. QED
    BY <1>2, <1>6, <2>2, <2>3, <2>4, <2>5 DEF LoopSettles, workerVars
<1>11. QED
  BY <1>7, <1>8, <1>9, <1>10

LEMMA LoopReports ==
  ASSUME IInv, ReportInv, Unattended, NEW t \in Task, LoopStep(t)
  PROVE  ReportInv'
BY LoopUnattended, LoopMoves, AbortReports

(* When the loop is over every task on record is settled.                  *)
LEMMA DoneIsSettled ==
  ASSUME IInv, ReportInv, Unattended, phase = "running", ~ outer, LoopDone
  PROVE  AllTerminal(disk)
<1> USE DEF IInv, ReportInv
<1>1. CASE stopped
  BY <1>1 DEF LoopSettles, Undisturbed
<1>2. CASE ~ stopped
  <2>1. SUFFICES ASSUME NEW t \in Task, disk[t] # "absent" PROVE disk[t] \in Terminal
    BY DEF AllTerminal, InRecord
  <2>2. step[t] \notin {"absent", "queued", "gate", "awaiting", "settling", "asking", "raised"}
    BY <1>2, <2>1 DEF LoopDone, InSlot, NoRetries, LoopSettles, Undisturbed
  <2>3. step[t] = "done"
    BY <2>2 DEF TypeOK, Step
  <2>4. QED
    BY <2>3 DEF LoopSettles, Undisturbed
<1>3. QED
  BY <1>1, <1>2

LEMMA EndReports ==
  ASSUME IInv, ReportInv, Unattended, Finish \/ Return \/ OuterCancel \/ HandleOuterCancel
  PROVE  ReportInv'
<1> USE DEF IInv, ReportInv
<1>1. CASE Finish \/ Return
  <2>1. /\ ~ outer /\ phase \in {"running", "reporting"}
        /\ UNCHANGED <<policy, outer, stopped, reloaded, step, result, worker, flagged, memVars, disk>>
        /\ phase' \in {"reporting", "returned"}
    BY <1>1 DEF Finish, Return, workerVars
  <2>2. AllTerminal(disk) /\ StatusOf(runStatus', disk)
    <3>1. CASE Finish
      BY <3>1, DoneIsSettled, AggregateStatus DEF Finish
    <3>2. CASE Return
      BY <3>2 DEF Return, ReportHolds, runVars
    <3>3. QED
      BY <1>1, <3>1, <3>2
  <2>3. ReportHolds' /\ ReturnsUndisturbed'
    BY <2>1, <2>2 DEF ReportHolds, ReturnsUndisturbed, AllTerminal, StatusOf, InRecord
  <2>4. NoQuestions'
    <3>1. runStatus' # "waiting"
      BY <2>2 DEF StatusOf, RunTerminal, Terminal
    <3>2. QED
      BY <2>1, <3>1 DEF NoQuestions, memVars
  <2>5. NoRetries' /\ CopiesAgree' /\ WorkersSave'
    BY <2>1 DEF NoRetries, CopiesAgree, WorkersSave, memVars
  <2>6. LoopSettles'
    BY <2>1 DEF LoopSettles, Undisturbed, InSlot, AllTerminal, InRecord
  <2>7. QED
    BY <2>3, <2>4, <2>5, <2>6
<1>2. CASE OuterCancel
  <2>1. /\ outer' /\ UNCHANGED <<policy, phase, stopped, reloaded, step, result, worker,
                                 memVars, disk, runVars>>
        /\ flagged' = flagged \cup {t \in Task : Live(t)}
        /\ phase # "returned"
    BY <1>2 DEF OuterCancel
  <2>2. NoQuestions' /\ NoRetries' /\ CopiesAgree'
    BY <2>1 DEF NoQuestions, NoRetries, CopiesAgree, memVars, runVars
  <2>3. WorkersSave'
    BY <2>1 DEF WorkersSave, Live, memVars
  <2>4. ReportHolds' /\ ReturnsUndisturbed' /\ LoopSettles'
    BY <2>1 DEF ReportHolds, ReturnsUndisturbed, LoopSettles, Undisturbed, runVars,
                AllTerminal, StatusOf, InRecord
  <2>5. QED
    BY <2>2, <2>3, <2>4
<1>3. CASE HandleOuterCancel
  <2>1. /\ phase' = "cancelled"
        /\ UNCHANGED <<policy, stopped, reloaded, step, result, worker, flagged, memRun>>
        /\ ~ reloaded
    BY <1>3 DEF HandleOuterCancel, NoQuestions
  <2>2. \A t \in Task : /\ mem'[t] \in {"cancelled", mem[t]}
                        /\ mem[t] \in Terminal \cup {"absent"} => mem'[t] = mem[t]
                        /\ disk'[t] \in {"cancelled", mem'[t]}
                        /\ disk[t] = "absent" <=> disk'[t] = "absent"
                        /\ mem[t] = "absent" <=> mem'[t] = "absent"
    <3>1. CASE phase = "running"
      <4>1. /\ mem' = Cancel(mem, Original) /\ disk' = Overwrite(disk, Original, mem')
        BY <1>3, <2>1, <3>1 DEF HandleOuterCancel, RecordFollowsMemory
      <4>2. \A t \in Task : /\ mem'[t] \in {"cancelled", mem[t]}
                            /\ mem[t] \in Terminal \cup {"absent"} => mem'[t] = mem[t]
                            /\ mem[t] = "absent" <=> mem'[t] = "absent"
        BY <4>1 DEF Cancel, Terminal
      <4>3. \A t \in Task : IF t \in Original THEN disk'[t] = mem'[t] ELSE disk'[t] = disk[t]
        BY <4>1 DEF Overwrite
      <4>4. QED
        BY <4>2, <4>3 DEF NoRetries, CopiesAgree
    <3>2. CASE phase # "running"
      <4>1. UNCHANGED mem /\ disk' = Cancel(disk, Task)
        BY <1>3, <3>2 DEF HandleOuterCancel
      <4>2. QED
        BY <4>1 DEF Cancel, Terminal, CopiesAgree
    <3>3. QED
      BY <3>1, <3>2
  <2>3. NoQuestions'
    <3>1. runStatus' # "waiting"
      BY <1>3, AggregateEnds, TaskStatusTypes DEF HandleOuterCancel
    <3>2. QED
      BY <2>1, <3>1 DEF NoQuestions
  <2>4. NoRetries' /\ CopiesAgree'
    BY <2>1, <2>2 DEF NoRetries, CopiesAgree
  <2>5. WorkersSave'
    BY <2>1, <2>2 DEF WorkersSave, Terminal
  <2>6. ReportHolds' /\ ReturnsUndisturbed' /\ LoopSettles'
    BY <2>1 DEF ReportHolds, ReturnsUndisturbed, LoopSettles, Undisturbed
  <2>7. QED
    BY <2>3, <2>4, <2>5, <2>6
<1>4. QED
  BY <1>1, <1>2, <1>3

LEMMA UserReports ==
  ASSUME IInv, ReportInv, Unattended, UserStep
  PROVE  ReportInv'
<1> USE DEF IInv, ReportInv
<1>1. /\ UNCHANGED <<mode, policy, loopVars, worker, memVars>>
      /\ flagged \subseteq flagged'
      /\ runStatus' # "waiting"
  BY UserFrame DEF NoQuestions, UserStep, CancelRun, CancelTask, Abort, Continue, RetryFailed
<1>2. CancelRun \/ \E t \in Task : CancelTask(t)
  BY DEF UserStep, Abort, Continue, RetryFailed, Resolve, NoQuestions
<1>3. \A t \in Task :
        /\ disk'[t] \in {"cancelled", disk[t]}
        /\ disk[t] \in Terminal \cup {"absent"} => disk'[t] = disk[t]
        /\ t \in flagged' /\ t \notin flagged => Live(t) /\ (disk[t] = "pending" => disk'[t] = "cancelled")
  <2>1. CASE CancelRun
    BY <2>1 DEF CancelRun, Cancel, InRecord, Terminal
  <2>2. ASSUME NEW u \in Task, CancelTask(u)
        PROVE  \A t \in Task :
                 /\ disk'[t] \in {"cancelled", disk[t]}
                 /\ disk[t] \in Terminal \cup {"absent"} => disk'[t] = disk[t]
                 /\ t \in flagged' /\ t \notin flagged =>
                      Live(t) /\ (disk[t] = "pending" => disk'[t] = "cancelled")
    BY <2>2 DEF CancelTask, Terminal, TypeOK
  <2>3. QED
    BY <1>2, <2>1, <2>2
<1>4. ASSUME phase \in {"reporting", "returned"} PROVE FALSE
  <2>1. AllTerminal(disk) /\ runStatus \in RunTerminal
    BY <1>4 DEF ReportHolds, StatusOf
  <2>2. \A t \in Task : disk[t] \in Terminal \cup {"absent"}
    BY <2>1 DEF AllTerminal, InRecord
  <2>3. QED
    BY <1>2, <2>1, <2>2 DEF CancelRun, CancelTask, Terminal
<1>5. NoQuestions' /\ ReportHolds' /\ ReturnsUndisturbed'
  BY <1>1, <1>4 DEF NoQuestions, ReportHolds, ReturnsUndisturbed, loopVars, memVars
<1>6. NoRetries' /\ CopiesAgree'
  <2>1. \A t \in Task : /\ disk[t] = "absent" <=> disk'[t] = "absent"
                        /\ disk'[t] \in {"cancelled", mem'[t]}
    BY <1>1, <1>3 DEF CopiesAgree, memVars, Terminal
  <2>2. QED
    BY <1>1, <2>1 DEF NoRetries, CopiesAgree, loopVars, memVars
<1>7. WorkersSave'
  BY <1>1, <1>3 DEF WorkersSave, loopVars, memVars, Live
<1>8. LoopSettles'
  <2>1. SUFFICES ASSUME Undisturbed PROVE LoopSettles'
    BY <1>1 DEF LoopSettles, Undisturbed, loopVars
  <2>2. ASSUME NEW t \in Task, worker[t] = "created", t \in flagged' PROVE disk'[t] \in Terminal
    <3>1. CASE t \in flagged
      BY <1>3, <2>1, <2>2, <3>1 DEF LoopSettles
    <3>2. CASE t \notin flagged
      <4>1. mem[t] \in Terminal \cup {"pending"}
        BY <2>2 DEF WorkersSave, NoRetries, TypeOK, TaskStatus
      <4>2. disk[t] \in Terminal \cup {"pending"}
        BY <4>1 DEF CopiesAgree, Terminal
      <4>3. QED
        BY <1>3, <2>2, <3>2, <4>2 DEF Terminal
    <3>3. QED
      BY <3>1, <3>2
  <2>3. \A t \in Task : /\ worker[t] = "cancelled" => disk'[t] \in Terminal
                        /\ step[t] \in {"settling", "done"} => disk'[t] \in Terminal
                        /\ step[t] # "raised"
    BY <1>3, <2>1 DEF LoopSettles
  <2>4. stopped => InSlot = {} /\ AllTerminal(disk')
    BY <1>3, <2>1 DEF LoopSettles, AllTerminal, InRecord
  <2>5. QED
    BY <1>1, <2>2, <2>3, <2>4 DEF LoopSettles, loopVars, InSlot
<1>9. QED
  BY <1>5, <1>6, <1>7, <1>8

LEMMA InitReportInv == Init => ReportInv
<1> SUFFICES ASSUME Init PROVE ReportInv
  OBVIOUS
<1>1. NoQuestions /\ NoRetries /\ CopiesAgree /\ WorkersSave
  BY DEF Init, NoQuestions, NoRetries, CopiesAgree, WorkersSave
<1>2. LoopSettles /\ ReportHolds /\ ReturnsUndisturbed
  BY DEF Init, LoopSettles, ReportHolds, ReturnsUndisturbed
<1>3. QED
  BY <1>1, <1>2 DEF ReportInv

LEMMA PolicyStays == IInv /\ [Next]_vars => UNCHANGED policy
<1> SUFFICES ASSUME [Next]_vars PROVE UNCHANGED policy
  OBVIOUS
<1>1. ASSUME NEW t \in Task, WorkerStep(t) PROVE UNCHANGED policy
  BY <1>1, WorkerFrame
<1>2. ASSUME NEW t \in Task, LoopStep(t) PROVE UNCHANGED policy
  BY <1>2 DEF LoopStep, Begin, PassGate, Collect, Raise, SettleDone, SettleAsk, SettleAbort, Answered
<1>3. CASE Finish \/ Return \/ OuterCancel \/ HandleOuterCancel
  BY <1>3 DEF Finish, Return, OuterCancel, HandleOuterCancel
<1>4. CASE UserStep
  BY <1>4 DEF UserStep, CancelRun, CancelTask, Abort, Continue, RetryFailed
<1>5. QED
  BY <1>1, <1>2, <1>3, <1>4 DEF Next, vars

LEMMA StepReportInv == IInv /\ ReportInv /\ [Next]_vars => ReportInv'
<1> SUFFICES ASSUME IInv, ReportInv, [Next]_vars, Unattended' PROVE ReportInv'
  BY DEF ReportInv
<1>1. Unattended
  BY PolicyStays DEF Unattended
<1>2. CASE UNCHANGED vars
  BY <1>1, <1>2 DEF vars, loopVars, workerVars, memVars, runVars, ReportInv, NoQuestions, NoRetries,
     CopiesAgree, WorkersSave, LoopSettles, Undisturbed, ReportHolds, ReturnsUndisturbed, AllTerminal,
     StatusOf, InRecord, InSlot
<1>3. CASE Next
  BY <1>1, <1>3, WorkerReports, LoopReports, EndReports, UserReports DEF Next
<1>4. QED
  BY <1>2, <1>3

(* A report that is returned is complete, each task settled on record, and *)
(* the status of the run is the one they aggregate to, for every run that  *)
(* puts no failure to the user.                                            *)
THEOREM ReportsAreTrue == Spec => []ReportIsTrue
<1>1. ReportInv => ReportIsTrue
  BY DEF ReportInv, ReportHolds, ReportIsTrue, WaitAllUnattended, WaitAll, ReportMatchesRecord
<1>2. Spec => []ReportInv
  BY InvariantHolds, InitReportInv, StepReportInv, PTL DEF Spec
<1>3. QED
  BY <1>1, <1>2, PTL

=============================================================================
