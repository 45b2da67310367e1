----------------------------- MODULE MCTurnLoop -----------------------------
(***************************************************************************)
(* The turn loop and what a turn is made of, side by side: the streaming   *)
(* of a response, the tags in it, the session's record with its            *)
(* attachments, and the files that a turn shows.  One of them moves in a   *)
(* behaviour, which it is decided at first; the others stay as they begin. *)
(*                                                                         *)
(* A session is new; or earlier turns have left it: one in which the first *)
(* of two calls failed; one that was stopped between its two calls, after  *)
(* a compaction that did not help; one whose context was irreducible.      *)
(***************************************************************************)
EXTENDS TurnLoop, SessionState, Streaming, PhaseTags, TurnOutputs

New == [messages |-> << >>, boundary |-> 0, active |-> FALSE, streak |-> 0, irreducible |-> FALSE]

Split ==
  [New EXCEPT !.messages =
     <<Plain("user"), CallsMessage(2, 2), ResultMessage(2, 1, FALSE), Plain("note"),
       ResultMessage(2, 2, TRUE), Plain("answer")>>]

Interrupted ==
  [messages |-> <<Plain("user"), Plain("answer"), Plain("user"), CallsMessage(4, 2),
                  ResultMessage(4, 1, TRUE), Plain("note")>>,
   boundary |-> 1, active |-> TRUE, streak |-> 1, irreducible |-> FALSE]

Overflown ==
  [messages |-> <<Plain("user"), Plain("answer")>>,
   boundary |-> 0, active |-> FALSE, streak |-> 1, irreducible |-> TRUE]

MCNew == {New}

MCEarlier == {New, Split, Interrupted, Overflown}

-----------------------------------------------------------------------------
VARIABLE moving

sideVars == <<moving, vars, streamVars, tagVars, stateVars, outputVars>>

SideInit ==
  /\ moving \in {"turn", "stream", "tags", "state", "outputs"}
  /\ Init /\ (moving # "turn" => messages = New.messages /\ ~ irreducible)
  /\ StreamInit /\ TagInit /\ StateInit /\ OutputInit

TurnMoves ==
  /\ moving = "turn" /\ Next
  /\ UNCHANGED <<moving, streamVars, tagVars, stateVars, outputVars>>

StreamMoves ==
  /\ moving = "stream" /\ StreamNext
  /\ UNCHANGED <<moving, vars, tagVars, stateVars, outputVars>>

TagsMove ==
  /\ moving = "tags" /\ TagNext
  /\ UNCHANGED <<moving, vars, streamVars, stateVars, outputVars>>

StateMoves ==
  /\ moving = "state" /\ StateNext
  /\ UNCHANGED <<moving, vars, streamVars, tagVars, outputVars>>

OutputsMove ==
  /\ moving = "outputs" /\ OutputNext
  /\ UNCHANGED <<moving, vars, streamVars, tagVars, stateVars>>

SideNext == TurnMoves \/ StreamMoves \/ TagsMove \/ StateMoves \/ OutputsMove

SideSpec == SideInit /\ [][SideNext]_sideVars /\ WF_vars(Step)
=============================================================================
