------------------------- MODULE ExclusiveSections -------------------------
(***************************************************************************)
(* What the subagent file locks promise their callers: a task works inside *)
(* a section that covers a set of keys, and no two tasks are ever inside   *)
(* sections that share a key.  How the keys are collected, in what order,  *)
(* and what a task waits for, is left to the implementation (FileLocks).   *)
(***************************************************************************)
CONSTANTS Tasks,   \* the subagent tasks
          Keys     \* the lock keys: resolved paths and the workspace key

VARIABLE inside    \* inside[t]: the keys of the section task t is in

Init == inside = [t \in Tasks |-> {}]

(* A task enters a section all of whose keys nobody else covers. *)
Enter(t, S) ==
  /\ inside[t] = {}
  /\ S # {}
  /\ \A u \in Tasks : inside[u] \cap S = {}
  /\ inside' = [inside EXCEPT ![t] = S]

(* The tool call ends, for whatever reason. *)
Leave(t) ==
  /\ inside[t] # {}
  /\ inside' = [inside EXCEPT ![t] = {}]

Next == \E t \in Tasks : Leave(t) \/ \E S \in SUBSET Keys : Enter(t, S)

Spec == Init /\ [][Next]_inside
=============================================================================
