-------------------------- MODULE FileLocksProofs --------------------------
(***************************************************************************)
(* Proofs about FileLocks, for every set of tasks and keys and any number  *)
(* of calls: the inductive invariant IInv, the safety properties that      *)
(* follow from it, waiting without deadlock and in order, and the          *)
(* implementation of ExclusiveSections.                                    *)
(***************************************************************************)
EXTENDS FileLocks, SequenceTheorems, FiniteSetTheorems, WellFoundedInduction, TLAPS

(* Giving up a place in a queue leaves a queue.                            *)
LEMMA RemoveAtType ==
  ASSUME NEW S, NEW s \in Seq(S), NEW i \in 1 .. Len(s)
  PROVE  RemoveAt(s, i) \in Seq(S)
<1>1. SubSeq(s, 1, i - 1) \in Seq(S)
  OBVIOUS
<1>2. SubSeq(s, i + 1, Len(s)) \in Seq(S)
  OBVIOUS
<1>3. QED
  BY <1>1, <1>2 DEF RemoveAt

LEMMA DequeueType ==
  ASSUME TypeOK, NEW t \in Tasks, NEW k \in Keys, Dequeue(t, k)
  PROVE  queue' \in [Keys -> Seq(Tasks)]
<1>1. PICK i \in 1 .. Len(queue[k]) : queue' = [queue EXCEPT ![k] = RemoveAt(@, i)]
  BY DEF Dequeue
<1>2. RemoveAt(queue[k], i) \in Seq(Tasks)
  BY RemoveAtType DEF TypeOK
<1>3. QED
  BY <1>1, <1>2 DEF TypeOK

LEMMA InitIInv == Init => IInv
BY TasksAssumption, CallsAssumption
   DEF Init, IInv, TypeOK, CallInv, CallOK, GrantOK, LockInv, HoldersMatchLocks, PC, Status, TaskOrNobody

LEMMA RequestIInv ==
  ASSUME IInv, NEW t \in Tasks, NEW S \in SUBSET Keys, Request(t, S)
  PROVE  IInv'
<1> PICK k \in Keys :
      /\ NextKey(k, S)
      /\ key' = [key EXCEPT ![t] = k]
      /\ queue' = [queue EXCEPT ![k] = Append(@, t)]
  BY DEF Request
<1>1. TypeOK'
  BY CallsAssumption DEF Request, IInv, TypeOK, PC, Status, NextKey
<1>2. CallInv'
  <2>1. CallOK(t)'
    <3>1. /\ pc'[t] = "waiting" /\ need'[t] = S /\ acquired'[t] = {}
          /\ key'[t] = k /\ heldLocks'[t] = heldLocks[t]
      BY DEF Request, IInv, TypeOK
    <3>2. k \in S /\ heldLocks[t] = {}
      BY DEF Request, NextKey, IInv, CallInv, CallOK
    <3>3. QED
      BY <3>1, <3>2 DEF CallOK
  <2>2. ASSUME NEW u \in Tasks, u # t PROVE CallOK(u)'
    BY <2>2 DEF Request, IInv, TypeOK, CallInv, CallOK
  <2>3. ASSUME NEW u \in Tasks, pc'[u] = "granted"
        PROVE  owner'[key'[u]] = u /\ holders'[key'[u]] = Nobody
    BY <2>3, TasksAssumption
       DEF Request, IInv, TypeOK, CallInv, CallOK, GrantOK, LockInv, HoldersMatchLocks
  <2>4. QED
    BY <2>1, <2>2, <2>3 DEF CallInv, GrantOK
<1>3. LockInv'
  BY TasksAssumption DEF Request, IInv, TypeOK, CallInv, CallOK, GrantOK, LockInv, HoldersMatchLocks
<1>4. QED
  BY <1>1, <1>2, <1>3 DEF IInv

LEMMA GrantIInv ==
  ASSUME IInv, NEW t \in Tasks, Grant(t)
  PROVE  IInv'
<1>1. TypeOK'
  BY DEF Grant, IInv, TypeOK, PC, TaskOrNobody, CallInv, CallOK, GrantOK
<1>2. CallInv'
  <2>1. CallOK(t)'
    BY DEF Grant, IInv, TypeOK, CallInv, CallOK
  <2>2. ASSUME NEW u \in Tasks, u # t PROVE CallOK(u)'
    BY <2>2 DEF Grant, IInv, TypeOK, CallInv, CallOK
  <2>3. ASSUME NEW u \in Tasks, pc'[u] = "granted"
        PROVE  owner'[key'[u]] = u /\ holders'[key'[u]] = Nobody
    BY <2>3, TasksAssumption
       DEF Grant, IInv, TypeOK, CallInv, CallOK, GrantOK, LockInv, HoldersMatchLocks
  <2>4. QED
    BY <2>1, <2>2, <2>3 DEF CallInv, GrantOK
<1>3. LockInv'
  BY TasksAssumption DEF Grant, IInv, TypeOK, CallInv, CallOK, GrantOK, LockInv, HoldersMatchLocks
<1>4. QED
  BY <1>1, <1>2, <1>3 DEF IInv

LEMMA ResumeNextIInv ==
  ASSUME IInv, NEW t \in Tasks, ResumeNext(t)
  PROVE  IInv'
<1> PICK k \in Keys :
      /\ NextKey(k, need[t] \ (acquired[t] \cup {key[t]}))
      /\ key' = [key EXCEPT ![t] = k]
      /\ queue' = [queue EXCEPT ![k] = Append(@, t)]
  BY DEF ResumeNext
<1>1. TypeOK'
  BY DEF ResumeNext, NextKey, IInv, TypeOK, PC, Status, TaskOrNobody, CallInv, CallOK, GrantOK
<1>2. CallInv'
  <2>1. CallOK(t)'
    <3>1. /\ pc'[t] = "waiting" /\ need'[t] = need[t]
          /\ acquired'[t] = acquired[t] \cup {key[t]}
          /\ key'[t] = k /\ heldLocks'[t] = heldLocks[t]
      BY DEF ResumeNext, IInv, TypeOK
    <3>2. /\ k \in need[t] \ (acquired[t] \cup {key[t]}) /\ heldLocks[t] = {}
          /\ acquired[t] \subseteq need[t] /\ key[t] \in need[t]
      BY DEF ResumeNext, NextKey, IInv, CallInv, CallOK
    <3>3. QED
      BY <3>1, <3>2 DEF CallOK
  <2>2. ASSUME NEW u \in Tasks, u # t PROVE CallOK(u)'
    BY <2>2 DEF ResumeNext, IInv, TypeOK, CallInv, CallOK
  <2>3. ASSUME NEW u \in Tasks, pc'[u] = "granted"
        PROVE  owner'[key'[u]] = u /\ holders'[key'[u]] = Nobody
    BY <2>3, TasksAssumption
       DEF ResumeNext, IInv, TypeOK, CallInv, CallOK, GrantOK, LockInv, HoldersMatchLocks
  <2>4. QED
    BY <2>1, <2>2, <2>3 DEF CallInv, GrantOK
<1>3. LockInv'
  BY TasksAssumption DEF ResumeNext, NextKey, IInv, TypeOK, CallInv, CallOK, GrantOK, LockInv, HoldersMatchLocks
<1>4. QED
  BY <1>1, <1>2, <1>3 DEF IInv

LEMMA ResumeLastIInv ==
  ASSUME IInv, NEW t \in Tasks, ResumeLast(t)
  PROVE  IInv'
<1>1. TypeOK'
  BY DEF ResumeLast, IInv, TypeOK, PC, Status, TaskOrNobody, CallInv, CallOK, GrantOK
<1>2. CallInv'
  <2>1. CallOK(t)'
    <3>1. /\ pc'[t] = "holding" /\ need'[t] = need[t]
          /\ acquired'[t] = acquired[t] \cup {key[t]}
          /\ heldLocks'[t] = heldLocks[t] \cup need[t]
      BY DEF ResumeLast, IInv, TypeOK
    <3>2. /\ need[t] \subseteq acquired[t] \cup {key[t]} /\ heldLocks[t] = {}
          /\ acquired[t] \subseteq need[t] /\ key[t] \in need[t]
      BY DEF ResumeLast, IInv, CallInv, CallOK
    <3>3. acquired'[t] = need'[t] /\ heldLocks'[t] = need'[t] /\ need'[t] # {}
      BY <3>1, <3>2
    <3>4. QED
      BY <3>1, <3>3 DEF CallOK
  <2>2. ASSUME NEW u \in Tasks, u # t PROVE CallOK(u)'
    BY <2>2 DEF ResumeLast, IInv, TypeOK, CallInv, CallOK
  <2>3. ASSUME NEW u \in Tasks, pc'[u] = "granted"
        PROVE  owner'[key'[u]] = u /\ holders'[key'[u]] = Nobody
    BY <2>3, TasksAssumption
       DEF ResumeLast, IInv, TypeOK, CallInv, CallOK, GrantOK, LockInv, HoldersMatchLocks
  <2>4. QED
    BY <2>1, <2>2, <2>3 DEF CallInv, GrantOK
<1>3. LockInv'
  BY TasksAssumption DEF ResumeLast, IInv, TypeOK, CallInv, CallOK, GrantOK, LockInv, HoldersMatchLocks
<1>4. QED
  BY <1>1, <1>2, <1>3 DEF IInv

LEMMA ResumeLateIInv ==
  ASSUME IInv, NEW t \in Tasks, ResumeLate(t)
  PROVE  IInv'
<1>1. TypeOK'
  BY DEF ResumeLate, IInv, TypeOK, PC, Status, TaskOrNobody, CallInv, CallOK, GrantOK
<1>2. CallInv'
  <2>1. CallOK(t)'
    BY DEF ResumeLate, IInv, TypeOK, CallInv, CallOK
  <2>2. ASSUME NEW u \in Tasks, u # t PROVE CallOK(u)'
    BY <2>2 DEF ResumeLate, IInv, TypeOK, CallInv, CallOK
  <2>3. ASSUME NEW u \in Tasks, pc'[u] = "granted"
        PROVE  owner'[key'[u]] = u /\ holders'[key'[u]] = Nobody
    BY <2>3, TasksAssumption
       DEF ResumeLate, IInv, TypeOK, CallInv, CallOK, GrantOK, LockInv, HoldersMatchLocks
  <2>4. QED
    BY <2>1, <2>2, <2>3 DEF CallInv, GrantOK
<1>3. LockInv'
  BY TasksAssumption DEF ResumeLate, IInv, TypeOK, CallInv, CallOK, GrantOK, LockInv, HoldersMatchLocks
<1>4. QED
  BY <1>1, <1>2, <1>3 DEF IInv

LEMMA TimeoutIInv ==
  ASSUME IInv, NEW t \in Tasks, Timeout(t)
  PROVE  IInv'
<1>1. TypeOK'
  BY DequeueType DEF Timeout, Release, IInv, TypeOK, PC, Status, TaskOrNobody, CallInv, CallOK, GrantOK
<1>2. CallInv'
  <2>1. CallOK(t)'
    BY DEF Timeout, Release, IInv, TypeOK, CallInv, CallOK
  <2>2. ASSUME NEW u \in Tasks, u # t PROVE CallOK(u)'
    BY <2>2 DEF Timeout, IInv, TypeOK, CallInv, CallOK
  <2>3. ASSUME NEW u \in Tasks, pc'[u] = "granted"
        PROVE  owner'[key'[u]] = u /\ holders'[key'[u]] = Nobody
    BY <2>3, TasksAssumption
       DEF Timeout, Release, IInv, TypeOK, CallInv, CallOK, GrantOK, LockInv, HoldersMatchLocks
  <2>4. QED
    BY <2>1, <2>2, <2>3 DEF CallInv, GrantOK
<1>3. LockInv'
  BY TasksAssumption DEF Timeout, Release, IInv, TypeOK, CallInv, CallOK, GrantOK, LockInv, HoldersMatchLocks
<1>4. QED
  BY <1>1, <1>2, <1>3 DEF IInv

(* Releasing the keys of a running tool call keeps the locks consistent.   *)
LEMMA ReleaseLockInv ==
  ASSUME IInv, NEW t \in Tasks, pc[t] = "holding",
         Release(t, acquired[t]),
         acquired' = [acquired EXCEPT ![t] = {}],
         \A u \in Tasks \ {t} : pc'[u] = pc[u], key' = key
  PROVE  LockInv'
<1>1. ASSUME NEW k \in Keys, NEW u \in Tasks
      PROVE  holders'[k] = u <=> k \in acquired'[u]
  BY TasksAssumption DEF Release, IInv, TypeOK, LockInv
<1>2. ASSUME NEW k \in Keys, holders'[k] # Nobody
      PROVE  owner'[k] = holders'[k]
  BY <1>2 DEF Release, IInv, TypeOK, LockInv, HoldersMatchLocks
<1>3. ASSUME NEW k \in Keys, owner'[k] # Nobody, holders'[k] = Nobody
      PROVE  pc'[owner'[k]] = "granted" /\ key'[owner'[k]] = k
  <2>1. owner'[k] = owner[k] /\ holders[k] = Nobody
    BY <1>3, TasksAssumption DEF Release, IInv, TypeOK, LockInv, HoldersMatchLocks
  <2>2. pc[owner[k]] = "granted" /\ key[owner[k]] = k /\ owner[k] \in Tasks
    BY <1>3, <2>1 DEF IInv, TypeOK, TaskOrNobody, LockInv, HoldersMatchLocks
  <2>3. QED
    BY <2>1, <2>2
<1>4. QED
  BY <1>1, <1>2, <1>3 DEF LockInv, HoldersMatchLocks

LEMMA EndCallIInv ==
  ASSUME IInv, NEW t \in Tasks, EndCall(t)
  PROVE  IInv'
<1>1. TypeOK'
  BY DEF EndCall, Release, IInv, TypeOK, PC, Status, TaskOrNobody, CallInv, CallOK, GrantOK
<1>2. CallInv'
  <2>1. CallOK(t)'
    BY DEF EndCall, Release, IInv, TypeOK, CallInv, CallOK
  <2>2. ASSUME NEW u \in Tasks, u # t PROVE CallOK(u)'
    BY <2>2 DEF EndCall, IInv, TypeOK, CallInv, CallOK
  <2>3. ASSUME NEW u \in Tasks, pc'[u] = "granted"
        PROVE  owner'[key'[u]] = u /\ holders'[key'[u]] = Nobody
    BY <2>3, TasksAssumption
       DEF EndCall, Release, IInv, TypeOK, CallInv, CallOK, GrantOK, LockInv, HoldersMatchLocks
  <2>4. QED
    BY <2>1, <2>2, <2>3 DEF CallInv, GrantOK
<1>3. LockInv'
  BY ReleaseLockInv DEF EndCall, IInv, TypeOK
<1>4. QED
  BY <1>1, <1>2, <1>3 DEF IInv

LEMMA CancelWaitingIInv ==
  ASSUME IInv, NEW t \in Tasks, CancelWaiting(t)
  PROVE  IInv'
<1>1. TypeOK'
  BY DequeueType DEF CancelWaiting, IInv, TypeOK, PC, Status, TaskOrNobody, CallInv, CallOK, GrantOK
<1>2. CallInv'
  <2>1. CallOK(t)'
    BY DEF CancelWaiting, IInv, TypeOK, CallInv, CallOK
  <2>2. ASSUME NEW u \in Tasks, u # t PROVE CallOK(u)'
    BY <2>2 DEF CancelWaiting, IInv, TypeOK, CallInv, CallOK
  <2>3. ASSUME NEW u \in Tasks, pc'[u] = "granted"
        PROVE  owner'[key'[u]] = u /\ holders'[key'[u]] = Nobody
    BY <2>3, TasksAssumption
       DEF CancelWaiting, IInv, TypeOK, CallInv, CallOK, GrantOK, LockInv, HoldersMatchLocks
  <2>4. QED
    BY <2>1, <2>2, <2>3 DEF CallInv, GrantOK
<1>3. LockInv'
  BY TasksAssumption DEF CancelWaiting, IInv, TypeOK, CallInv, CallOK, GrantOK, LockInv, HoldersMatchLocks
<1>4. QED
  BY <1>1, <1>2, <1>3 DEF IInv

LEMMA CancelHoldingIInv ==
  ASSUME IInv, NEW t \in Tasks, CancelHolding(t)
  PROVE  IInv'
<1>1. TypeOK'
  BY DEF CancelHolding, Release, IInv, TypeOK, PC, Status, TaskOrNobody, CallInv, CallOK, GrantOK
<1>2. CallInv'
  <2>1. CallOK(t)'
    BY DEF CancelHolding, Release, IInv, TypeOK, CallInv, CallOK
  <2>2. ASSUME NEW u \in Tasks, u # t PROVE CallOK(u)'
    BY <2>2 DEF CancelHolding, IInv, TypeOK, CallInv, CallOK
  <2>3. ASSUME NEW u \in Tasks, pc'[u] = "granted"
        PROVE  owner'[key'[u]] = u /\ holders'[key'[u]] = Nobody
    BY <2>3, TasksAssumption
       DEF CancelHolding, Release, IInv, TypeOK, CallInv, CallOK, GrantOK, LockInv, HoldersMatchLocks
  <2>4. QED
    BY <2>1, <2>2, <2>3 DEF CallInv, GrantOK
<1>3. LockInv'
  BY ReleaseLockInv DEF CancelHolding, IInv, TypeOK
<1>4. QED
  BY <1>1, <1>2, <1>3 DEF IInv

LEMMA EndIInv ==
  ASSUME IInv, NEW t \in Tasks, End(t)
  PROVE  IInv'
<1>1. TypeOK'
  BY DEF End, IInv, TypeOK, PC, Status, TaskOrNobody, CallInv, CallOK, GrantOK
<1>2. CallInv'
  <2>1. CallOK(t)'
    BY DEF End, IInv, TypeOK, CallInv, CallOK
  <2>2. ASSUME NEW u \in Tasks, u # t PROVE CallOK(u)'
    BY <2>2 DEF End, IInv, TypeOK, CallInv, CallOK
  <2>3. ASSUME NEW u \in Tasks, pc'[u] = "granted"
        PROVE  owner'[key'[u]] = u /\ holders'[key'[u]] = Nobody
    BY <2>3, TasksAssumption
       DEF End, IInv, TypeOK, CallInv, CallOK, GrantOK, LockInv, HoldersMatchLocks
  <2>4. QED
    BY <2>1, <2>2, <2>3 DEF CallInv, GrantOK
<1>3. LockInv'
  BY TasksAssumption DEF End, IInv, TypeOK, CallInv, CallOK, GrantOK, LockInv, HoldersMatchLocks
<1>4. QED
  BY <1>1, <1>2, <1>3 DEF IInv

LEMMA NextIInv == IInv /\ [Next]_vars => IInv'
<1> SUFFICES ASSUME IInv, [Next]_vars PROVE IInv'
  OBVIOUS
<1>1. CASE UNCHANGED vars
  BY <1>1 DEF vars, IInv, TypeOK, CallInv, CallOK, GrantOK, LockInv, HoldersMatchLocks
<1>2. ASSUME NEW t \in Tasks, Collect(t) PROVE IInv'
  BY <1>2, RequestIInv, GrantIInv, ResumeNextIInv, ResumeLastIInv DEF Collect
<1>3. ASSUME NEW t \in Tasks, EndCall(t) \/ End(t) PROVE IInv'
  BY <1>3, EndCallIInv, EndIInv
<1>4. ASSUME NEW t \in Tasks, Abandon(t) PROVE IInv'
  BY <1>4, ResumeLateIInv, TimeoutIInv, CancelWaitingIInv, CancelHoldingIInv DEF Abandon
<1>5. QED
  BY <1>1, <1>2, <1>3, <1>4 DEF Next

(* Every reachable state of the lock manager satisfies the invariant that  *)
(* ties the lists of collected keys to the _holders map and to the         *)
(* asyncio locks, whatever is requested, cancelled or timed out.           *)
THEOREM InvariantHolds == Spec => []IInv
BY InitIInv, NextIInv, PTL DEF Spec

(* Type correctness of the lock manager and of the saved task fields.      *)
THEOREM TypeCorrect == Spec => []TypeOK
<1>1. IInv => TypeOK
  BY DEF IInv
<1>2. QED
  BY <1>1, InvariantHolds, PTL

LEMMA IInvExcludes == IInv => MutualExclusion
BY TasksAssumption DEF IInv, TypeOK, CallInv, CallOK, GrantOK, LockInv, MutualExclusion

(* Two subagents never run tool calls on a common key at the same time.    *)
THEOREM MutualExclusionHolds == Spec => []MutualExclusion
BY IInvExcludes, InvariantHolds, PTL

(* The saved held_locks of a task are the locks of its running call.       *)
THEOREM RecordHolds == Spec => []RecordShowsLocks
<1>1. IInv => RecordShowsLocks
  BY DEF IInv, TypeOK, CallInv, CallOK, GrantOK, LockInv, RecordShowsLocks
<1>2. QED
  BY <1>1, InvariantHolds, PTL

(* Only a worker cancelled while it waits for a later key of a call with   *)
(* several keys leaves a lock behind.                                      *)
THEOREM LeftoversHolds == Spec => []LeftoversOnlyFromCancelledWait
<1>1. ASSUME IInv PROVE LeftoversOnlyFromCancelledWait
  <2> SUFFICES ASSUME NEW k \in Keys, holders[k] # Nobody
               PROVE  LET t == holders[k] IN
                      /\ pc[t] # "running"
                      /\ pc[t] = "ended" =>
                           /\ status[t] = "cancelled"
                           /\ k # key[t]
                           /\ {k, key[t]} \subseteq need[t]
    BY DEF LeftoversOnlyFromCancelledWait
  <2>1. holders[k] \in Tasks /\ k \in acquired[holders[k]]
    BY <1>1 DEF IInv, TypeOK, TaskOrNobody, LockInv
  <2>2. QED
    BY <1>1, <2>1 DEF IInv, CallInv, CallOK, GrantOK
<1>2. QED
  BY <1>1, InvariantHolds, PTL

(* Manager, calls and records agree about the locks: the three together.   *)
THEOREM LocksTrue == Spec => []LocksAreTrue
<1>1. MutualExclusion /\ RecordShowsLocks /\ LeftoversOnlyFromCancelledWait => LocksAreTrue
  BY DEF LocksAreTrue
<1>2. QED
  BY <1>1, MutualExclusionHolds, RecordHolds, LeftoversHolds, PTL

-----------------------------------------------------------------------------
(* How calls wait.                                                         *)

(* A finite set has an element with the greatest value: otherwise take the *)
(* least of its subsets that have none, and leave out one element.         *)
LEMMA HasGreatest ==
  ASSUME NEW S, IsFiniteSet(S), S # {}, NEW f \in [S -> Int]
  PROVE  \E x \in S : \A y \in S : f[y] <= f[x]
<1> DEFINE Greatest(W, x) == x \in W /\ \A y \in W : f[y] <= f[x]
           Bad == {W \in SUBSET S : W # {} /\ ~ \E x \in S : Greatest(W, x)}
<1> SUFFICES ASSUME Bad # {} PROVE FALSE
  OBVIOUS
<1>1. Bad \subseteq FiniteSubsetsOf(S)
  BY FS_FiniteSubsetsOfFinite
<1>2. PICK W \in Bad : \A V \in Bad : <<V, W>> \notin StrictSubsetOrdering(S)
  BY <1>1, FS_StrictSubsetOrderingWellFounded, WFMin, Zenon
<1>3. PICK w \in W : TRUE
  OBVIOUS
<1>4. CASE W = {w}
  BY <1>4, Greatest(W, w)
<1>5. CASE W # {w}
  <2>1. W \ {w} \in SUBSET S /\ W \ {w} # {} /\ <<W \ {w}, W>> \in StrictSubsetOrdering(S)
    BY <1>3, <1>5 DEF StrictSubsetOrdering
  <2>2. PICK v \in S : Greatest(W \ {w}, v)
    BY <1>2, <2>1
  <2>3. Greatest(W, v) \/ Greatest(W, w)
    BY <2>2
  <2>4. QED
    BY <2>3
<1>6. QED
  BY <1>4, <1>5

LEMMA InitWaitInv == Init => WaitInv
BY DEF Init, WaitInv, InOrder, WaitersQueue

(* A task that waits on has waited before, or begins to wait with the key  *)
(* that NextKey chooses.                                                   *)
LEMMA InOrderStep ==
  ASSUME IInv, InOrder, NEW t \in Tasks, Collect(t) \/ EndCall(t) \/ End(t) \/ Abandon(t)
  PROVE  InOrder'
<1> USE DEF IInv, TypeOK
<1> USE KeysAssumption
<1>1. ASSUME NEW S \in SUBSET Keys, Request(t, S) PROVE InOrder'
  <2> PICK k \in Keys : NextKey(k, S) /\ key' = [key EXCEPT ![t] = k]
    BY <1>1 DEF Request
  <2>1. key'[t] = k /\ need'[t] = S /\ acquired'[t] = {}
    BY <1>1 DEF Request
  <2>2. NextKey(k, S \ {})
    OBVIOUS
  <2>3. ASSUME NEW u \in Tasks, u # t
        PROVE  key'[u] = key[u] /\ need'[u] = need[u] /\ acquired'[u] = acquired[u] /\ pc'[u] = pc[u]
    BY <1>1, <2>3 DEF Request
  <2>4. QED
    BY <2>1, <2>2, <2>3 DEF InOrder, NextKey
<1>2. CASE Grant(t)
  BY <1>2 DEF Grant, InOrder
<1>3. CASE ResumeNext(t)
  <2> PICK k \in Keys :
        /\ NextKey(k, need[t] \ (acquired[t] \cup {key[t]}))
        /\ key' = [key EXCEPT ![t] = k]
    BY <1>3 DEF ResumeNext
  <2>1. NextKey(key[t], need[t] \ acquired[t]) /\ \A j \in acquired[t] : j < key[t]
    BY <1>3 DEF ResumeNext, InOrder
  <2>2. /\ key[t] \in Int /\ k \in Int /\ acquired[t] \subseteq Int
        /\ k \in need[t] \ acquired[t] /\ k # key[t]
    BY <1>3 DEF ResumeNext, CallInv, CallOK, NextKey
  <2>3. key[t] <= k
    BY <2>1, <2>2 DEF NextKey
  <2>4. \A j \in acquired[t] \cup {key[t]} : j \in Int /\ j < k
    BY <2>1, <2>2, <2>3
  <2>5. QED
    BY <1>3, <2>4 DEF ResumeNext, InOrder, NextKey
<1>4. CASE ResumeLast(t) \/ EndCall(t) \/ End(t) \/ Abandon(t)
  BY <1>4 DEF ResumeLast, EndCall, End, Abandon, ResumeLate, Timeout, CancelWaiting, CancelHolding, InOrder
<1>5. QED
  BY <1>1, <1>2, <1>3, <1>4 DEF Collect

(* Whoever else stands in a queue stays in it when one gives up its place. *)
LEMMA RemoveAtKeeps ==
  ASSUME NEW S, NEW s \in Seq(S), NEW i \in 1 .. Len(s), NEW j \in 1 .. Len(s), i # j
  PROVE  \E m \in 1 .. Len(RemoveAt(s, i)) : RemoveAt(s, i)[m] = s[j]
<1> DEFINE front == SubSeq(s, 1, i - 1)
           back == SubSeq(s, i + 1, Len(s))
<1>1. /\ front \in Seq(S) /\ Len(front) = i - 1
      /\ \A m \in 1 .. i - 1 : front[m] = s[m]
  BY SubSeqProperties
<1>2. /\ back \in Seq(S) /\ Len(back) = Len(s) - i
      /\ \A m \in 1 .. Len(s) - i : back[m] = s[m + i]
  BY SubSeqProperties
<1>3. RemoveAt(s, i) = front \o back
  BY DEF RemoveAt
<1> HIDE DEF front, back
<1>4. CASE j < i
  BY <1>1, <1>2, <1>3, <1>4, (front \o back)[j] = s[j]
<1>5. CASE j > i
  <2>1. front \o back \in Seq(S) /\ Len(front \o back) = Len(s) - 1
    <3>1. front \o back \in Seq(S) /\ Len(front \o back) = Len(front) + Len(back)
      BY <1>1, <1>2, ConcatProperties
    <3>2. Len(s) \in Nat /\ (i - 1) + (Len(s) - i) = Len(s) - 1
      OBVIOUS
    <3>3. QED
      BY <1>1, <1>2, <3>1, <3>2
  <2>2. (front \o back)[j - 1] = back[j - i]
    BY <1>1, <1>2, <1>5, j - 1 > Len(front), j - 1 - Len(front) = j - i
  <2>3. back[j - i] = s[j]
    BY <1>2, <1>5, j - i \in 1 .. Len(s) - i, (j - i) + i = j
  <2>4. QED
    BY <1>3, <1>5, <2>1, <2>2, <2>3, j - 1 \in 1 .. Len(s) - 1
<1>6. QED
  BY <1>4, <1>5

LEMMA DequeueKeeps ==
  ASSUME TypeOK, NEW t \in Tasks, NEW k \in Keys, Dequeue(t, k),
         NEW u \in Tasks, u # t, NEW j \in Keys,
         \E i \in 1 .. Len(queue[j]) : queue[j][i] = u
  PROVE  \E i \in 1 .. Len(queue'[j]) : queue'[j][i] = u
<1>1. PICK m \in 1 .. Len(queue[k]) :
        queue[k][m] = t /\ queue' = [queue EXCEPT ![k] = RemoveAt(@, m)]
  BY DEF Dequeue
<1>2. CASE j = k
  <2>1. PICK i \in 1 .. Len(queue[k]) : queue[k][i] = u
    BY <1>2
  <2>2. queue[k] \in Seq(Tasks) /\ i # m /\ queue'[k] = RemoveAt(queue[k], m)
    BY <1>1, <2>1 DEF TypeOK
  <2>3. \E n \in 1 .. Len(RemoveAt(queue[k], m)) : RemoveAt(queue[k], m)[n] = queue[k][i]
    BY <2>2, RemoveAtKeeps
  <2>4. QED
    BY <1>2, <2>1, <2>2, <2>3
<1>3. CASE j # k
  BY <1>1, <1>3 DEF TypeOK
<1>4. QED
  BY <1>2, <1>3

LEMMA AppendKeeps ==
  ASSUME TypeOK, NEW t \in Tasks, NEW k \in Keys, queue' = [queue EXCEPT ![k] = Append(@, t)]
  PROVE  /\ \E i \in 1 .. Len(queue'[k]) : queue'[k][i] = t
         /\ \A u \in Tasks, j \in Keys :
              (\E i \in 1 .. Len(queue[j]) : queue[j][i] = u)
              => \E i \in 1 .. Len(queue'[j]) : queue'[j][i] = u
<1>1. queue[k] \in Seq(Tasks) /\ queue'[k] = Append(queue[k], t)
  BY DEF TypeOK
<1>2. /\ Len(queue'[k]) = Len(queue[k]) + 1 /\ queue'[k][Len(queue[k]) + 1] = t
      /\ \A i \in 1 .. Len(queue[k]) : queue'[k][i] = queue[k][i]
  BY <1>1, AppendProperties
<1>3. Len(queue[k]) + 1 \in 1 .. Len(queue'[k])
  BY <1>1, <1>2
<1>4. QED
  BY <1>1, <1>2, <1>3 DEF TypeOK

LEMMA TailKeeps ==
  ASSUME TypeOK, NEW k \in Keys, queue[k] # <<>>, queue' = [queue EXCEPT ![k] = Tail(@)],
         NEW u \in Tasks, u # Head(queue[k]), NEW j \in Keys,
         \E i \in 1 .. Len(queue[j]) : queue[j][i] = u
  PROVE  \E i \in 1 .. Len(queue'[j]) : queue'[j][i] = u
<1>1. PICK i \in 1 .. Len(queue[j]) : queue[j][i] = u
  OBVIOUS
<1>2. CASE j = k
  <2>1. /\ queue[k] \in Seq(Tasks) /\ queue'[k] = Tail(queue[k])
        /\ Head(queue[k]) = queue[k][1] /\ Len(Tail(queue[k])) = Len(queue[k]) - 1
        /\ \A m \in 1 .. Len(Tail(queue[k])) : Tail(queue[k])[m] = queue[k][m + 1]
    BY HeadTailProperties DEF TypeOK
  <2>2. i # 1 /\ i \in 1 .. Len(queue[k]) /\ Len(queue[k]) \in Nat
    BY <1>1, <1>2, <2>1
  <2>3. i - 1 \in 1 .. Len(Tail(queue[k])) /\ (i - 1) + 1 = i
    BY <2>1, <2>2
  <2>4. Tail(queue[k])[i - 1] = u
    BY <1>1, <1>2, <2>1, <2>3
  <2>5. QED
    BY <1>2, <2>1, <2>3, <2>4
<1>3. CASE j # k
  BY <1>3 DEF TypeOK
<1>4. QED
  BY <1>2, <1>3

LEMMA WaitersQueueStep ==
  ASSUME IInv, WaitersQueue, NEW t \in Tasks, Collect(t) \/ EndCall(t) \/ End(t) \/ Abandon(t)
  PROVE  WaitersQueue'
<1> DEFINE InQueue(u, k) == \E i \in 1 .. Len(queue[k]) : queue[k][i] = u
<1>1. TypeOK
  BY DEF IInv
<1>2. \A u \in Tasks : pc[u] = "waiting" => key[u] \in Keys /\ InQueue(u, key[u])
  BY <1>1 DEF IInv, TypeOK, CallInv, CallOK, WaitersQueue
<1>3. CASE (\E S \in SUBSET Keys : Request(t, S)) \/ ResumeNext(t)
  <2>1. PICK k \in Keys : /\ key' = [key EXCEPT ![t] = k] /\ pc' = [pc EXCEPT ![t] = "waiting"]
                          /\ queue' = [queue EXCEPT ![k] = Append(@, t)]
    BY <1>3 DEF Request, ResumeNext
  <2>2. InQueue(t, k)' /\ \A u \in Tasks, j \in Keys : InQueue(u, j) => InQueue(u, j)'
    BY <1>1, <2>1, AppendKeeps
  <2>3. key'[t] = k /\ \A u \in Tasks \ {t} : key'[u] = key[u] /\ pc'[u] = pc[u]
    BY <1>1, <2>1 DEF TypeOK
  <2>4. \A u \in Tasks : pc'[u] = "waiting" => InQueue(u, key[u])'
    BY <1>2, <2>2, <2>3
  <2>5. QED
    BY <2>4 DEF WaitersQueue
<1>4. CASE Grant(t)
  <2>1. /\ key' = key /\ pc' = [pc EXCEPT ![t] = "granted"] /\ key[t] \in Keys
        /\ queue[key[t]] # <<>> /\ Head(queue[key[t]]) = t
        /\ queue' = [queue EXCEPT ![key[t]] = Tail(@)]
    BY <1>2, <1>4 DEF Grant
  <2>2. \A u \in Tasks \ {t}, j \in Keys : InQueue(u, j) => InQueue(u, j)'
    BY <1>1, <2>1, TailKeeps
  <2>3. \A u \in Tasks : pc'[u] = "waiting" => u # t /\ pc[u] = "waiting"
    BY <1>1, <2>1 DEF TypeOK
  <2>4. ASSUME NEW u \in Tasks, pc'[u] = "waiting" PROVE InQueue(u, key[u])'
    <3>1. u \in Tasks \ {t} /\ key[u] \in Keys /\ InQueue(u, key[u]) /\ key'[u] = key[u]
      BY <1>2, <2>1, <2>3, <2>4
    <3>2. QED
      BY <2>2, <3>1
  <2>5. QED
    BY <2>4 DEF WaitersQueue
<1>5. CASE Timeout(t) \/ CancelWaiting(t)
  <2>1. /\ key' = key /\ key[t] \in Keys /\ Dequeue(t, key[t])
        /\ \A u \in Tasks : pc'[u] = "waiting" => u # t /\ pc[u] = "waiting"
    BY <1>1, <1>2, <1>5 DEF Timeout, CancelWaiting, TypeOK
  <2>2. \A u \in Tasks \ {t}, j \in Keys : InQueue(u, j) => InQueue(u, j)'
    BY <1>1, <2>1, DequeueKeeps
  <2>3. \A u \in Tasks : pc'[u] = "waiting" => InQueue(u, key[u])'
    BY <1>2, <2>1, <2>2
  <2>4. QED
    BY <2>3 DEF WaitersQueue
<1>6. CASE ResumeLast(t) \/ ResumeLate(t) \/ EndCall(t) \/ CancelHolding(t) \/ End(t)
  BY <1>1, <1>6 DEF TypeOK, ResumeLast, ResumeLate, EndCall, CancelHolding, End, WaitersQueue
<1>7. QED
  BY <1>3, <1>4, <1>5, <1>6 DEF Collect, Abandon

LEMMA NextWaitInv == IInv /\ WaitInv /\ [Next]_vars => WaitInv'
<1> SUFFICES ASSUME IInv, WaitInv, [Next]_vars PROVE WaitInv'
  OBVIOUS
<1>1. CASE UNCHANGED vars
  BY <1>1 DEF vars, WaitInv, InOrder, WaitersQueue, NextKey
<1>2. CASE Next
  BY <1>2, InOrderStep, WaitersQueueStep DEF Next, WaitInv
<1>3. QED
  BY <1>1, <1>2

(* Every call awaits its keys in ascending order, and who waits stands in  *)
(* the queue of what it waits for.                                         *)
THEOREM WaitingHolds == Spec => []WaitInv
BY InitIInv, NextIInv, InitWaitInv, NextWaitInv, PTL DEF Spec

(* The lock that a waiting task has is less than the one it waits for, so  *)
(* of tasks in a circle the one with the greatest awaited key would wait   *)
(* for a task that awaits a greater one.                                   *)
LEMMA OrderExcludesCircles == IInv /\ InOrder => NoCircularWait
<1> SUFFICES ASSUME IInv, InOrder, NEW W \in (SUBSET Tasks) \ {{}},
                    \A t \in W : pc[t] = "waiting" /\ owner[key[t]] \in W
             PROVE  FALSE
  BY DEF NoCircularWait
<1>1. IsFiniteSet(W)
  BY TasksFinite, FS_Subset
<1>2. \A t \in Tasks : key[t] \in Int
  <2>1. key \in [Tasks -> Keys \cup {0}] /\ Keys \cup {0} \subseteq Int
    BY KeysAssumption DEF IInv, TypeOK, NoKey
  <2>2. QED
    BY <2>1
<1>3. PICK t \in W : \A u \in W : key[u] <= key[t]
  <2> DEFINE f == [v \in W |-> key[v]]
  <2>1. f \in [W -> Int] /\ W # {}
    BY <1>2
  <2>2. \E t \in W : \A u \in W : f[u] <= f[t]
    BY <1>1, <2>1, HasGreatest
  <2>3. QED
    BY <2>2
<1>4. key[t] \in Keys
  BY DEF IInv, CallInv, CallOK, TypeOK
<1>5. key[t] \in acquired[owner[key[t]]]
  BY <1>4, TasksAssumption DEF IInv, TypeOK, TaskOrNobody, LockInv, HoldersMatchLocks
<1>6. key[t] < key[owner[key[t]]]
  BY <1>5 DEF InOrder
<1>7. owner[key[t]] \in W /\ key[owner[key[t]]] <= key[t]
  BY <1>3
<1>8. QED
  BY <1>2, <1>6, <1>7

(* Sorted acquisition leaves no circle of waiting tasks, whatever number   *)
(* of keys their calls need, and however many have timed out before.       *)
THEOREM NoDeadlock == Spec => []NoCircularWait
<1>1. WaitInv => InOrder
  BY DEF WaitInv
<1>2. QED
  BY <1>1, OrderExcludesCircles, InvariantHolds, WaitingHolds, PTL

(* A lock changes hands by Grant, to the head of its queue, in which all   *)
(* who wait for it stand.                                                  *)
LEMMA GrantServesTheFirst ==
  ASSUME IInv, WaitersQueue, NEW t \in Tasks, Grant(t), NEW u \in Tasks, u # t,
         pc[u] = "waiting", key[u] = key[t]
  PROVE  \E i, j \in 1 .. Len(queue[key[t]]) :
           queue[key[t]][i] = t /\ queue[key[t]][j] = u /\ i < j
<1>1. PICK j \in 1 .. Len(queue[key[t]]) : queue[key[t]][j] = u
  BY DEF WaitersQueue
<1>2. key[t] \in Keys /\ queue[key[t]] \in Seq(Tasks) /\ queue[key[t]][1] = t
  BY HeadTailProperties DEF Grant, IInv, TypeOK, CallInv, CallOK
<1>3. 1 \in 1 .. Len(queue[key[t]]) /\ 1 < j
  BY <1>1, <1>2
<1>4. QED
  BY <1>1, <1>2, <1>3

LEMMA OwnersComeFromGrants ==
  ASSUME IInv, [Next]_vars, NEW k \in Keys, NEW u \in Tasks, owner[k] # u, owner'[k] = u
  PROVE  Grant(u) /\ key[u] = k
<1>1. ~ UNCHANGED vars
  BY DEF vars
<1>2. PICK t \in Tasks : Collect(t) \/ EndCall(t) \/ End(t) \/ Abandon(t)
  BY <1>1 DEF Next
<1>3. \/ (\E S \in SUBSET Keys : Request(t, S)) \/ ResumeNext(t) \/ ResumeLast(t)
      \/ EndCall(t) \/ End(t) \/ Abandon(t)
      => owner'[k] \in {owner[k], Nobody}
  BY DEF Request, ResumeNext, ResumeLast, EndCall, End, Abandon, ResumeLate, Timeout,
         CancelWaiting, CancelHolding, Release, IInv, TypeOK
<1>4. Grant(t)
  BY <1>2, <1>3, TasksAssumption DEF Collect
<1>5. QED
  BY <1>4 DEF Grant, IInv, TypeOK

(* Locks are handed over in the order of arrival, also when waiters before *)
(* or behind have given up.                                                *)
THEOREM ServedInOrder == Spec => FirstComeFirstServed
<1>1. IInv /\ WaitInv /\ [Next]_vars =>
        [\A k \in Keys, t, u \in Tasks :
           /\ t # u
           /\ owner[k] # u /\ owner'[k] = u
           /\ pc[t] = "waiting" /\ key[t] = k
           => \E i, j \in 1 .. Len(queue[k]) : queue[k][i] = u /\ queue[k][j] = t /\ i < j]_vars
  BY OwnersComeFromGrants, GrantServesTheFirst DEF WaitInv
<1>2. QED
  BY <1>1, InvariantHolds, WaitingHolds, PTL DEF Spec, FirstComeFirstServed

-----------------------------------------------------------------------------
(* The step of FileLocks as a step of ExclusiveSections.                   *)
Inside == [t \in Tasks |-> IF pc[t] = "holding" THEN need[t] ELSE {}]

LEMMA EnterRefines ==
  ASSUME IInv, NEW t \in Tasks, ResumeLast(t)
  PROVE  Sections!Enter(t, need[t])
<1>1. pc[t] = "granted" /\ need[t] # {}
  BY DEF ResumeLast, IInv, CallInv, CallOK, GrantOK
<1>2. need[t] \ acquired[t] = {key[t]}
  BY DEF ResumeLast, IInv, CallInv, CallOK, GrantOK
<1>3. ASSUME NEW u \in Tasks, pc[u] = "holding" PROVE need[u] \cap need[t] = {}
  <2>1. key[t] \notin need[u]
    BY <1>1, <1>3, TasksAssumption DEF IInv, TypeOK, CallInv, CallOK, GrantOK, LockInv
  <2>2. need[u] \cap acquired[t] = {}
    BY <1>1, <1>3 DEF IInv, TypeOK, CallInv, CallOK, GrantOK, LockInv
  <2>3. QED
    BY <1>2, <2>1, <2>2
<1>4. Inside' = [Inside EXCEPT ![t] = need[t]]
  BY DEF ResumeLast, Inside, IInv, TypeOK
<1>5. QED
  BY <1>1, <1>3, <1>4 DEF Sections!Enter, Inside

LEMMA LeaveRefines ==
  ASSUME IInv, NEW t \in Tasks, EndCall(t) \/ CancelHolding(t)
  PROVE  Sections!Leave(t)
<1>1. pc[t] = "holding" /\ need[t] # {}
  BY DEF EndCall, CancelHolding, IInv, CallInv, CallOK, GrantOK
<1>2. Inside' = [Inside EXCEPT ![t] = {}]
  BY DEF EndCall, CancelHolding, Inside, IInv, TypeOK
<1>3. QED
  BY <1>1, <1>2 DEF Sections!Leave, Inside

LEMMA OthersStutter ==
  ASSUME IInv, NEW t \in Tasks,
         \/ \E S \in SUBSET Keys : Request(t, S)
         \/ Grant(t) \/ ResumeNext(t) \/ ResumeLate(t) \/ Timeout(t)
         \/ CancelWaiting(t) \/ End(t)
  PROVE  UNCHANGED Inside
BY DEF Request, Grant, ResumeNext, ResumeLate, Timeout, CancelWaiting, End,
       Inside, IInv, TypeOK

LEMMA StepRefines == IInv /\ [Next]_vars => [Sections!Next]_Inside
<1> SUFFICES ASSUME IInv, [Next]_vars PROVE [Sections!Next]_Inside
  OBVIOUS
<1>1. CASE UNCHANGED vars
  BY <1>1 DEF vars, Inside
<1>2. ASSUME NEW t \in Tasks, ResumeLast(t) PROVE Sections!Next
  <2>1. need[t] \in SUBSET Keys
    BY DEF IInv, TypeOK
  <2>2. Sections!Enter(t, need[t])
    BY <1>2, EnterRefines
  <2>3. QED
    BY <2>1, <2>2 DEF Sections!Next, Sections!Enter
<1>3. ASSUME NEW t \in Tasks, EndCall(t) \/ CancelHolding(t) PROVE Sections!Next
  BY <1>3, LeaveRefines DEF Sections!Next
<1>4. QED
  BY <1>1, <1>2, <1>3, OthersStutter DEF Next, Collect, Abandon

(* The lock manager with its caller implements the exclusive sections.     *)
THEOREM ImplementsSections == Spec => SectionsSpec
<1>1. Init => Sections!Init
  BY DEF Init, Sections!Init
<1>2. QED
  BY <1>1, StepRefines, InvariantHolds, PTL DEF Spec, SectionsSpec, Sections!Spec, Inside

=============================================================================
