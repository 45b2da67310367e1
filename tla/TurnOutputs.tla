----------------------------- MODULE TurnOutputs -----------------------------
(***************************************************************************)
(* The files that a session's turns make and the attachments of their      *)
(* answers (runtime/run_loop.py, _build_assistant_attachments and what it  *)
(* calls; runtime/output_paths.py).                                        *)
(*                                                                         *)
(* A turn has an output directory of its own inside the session's.  What   *)
(* it writes there is attached as it is; what it writes elsewhere in the   *)
(* session's directory is copied into its own under the same file name,    *)
(* and the copy is attached; a file outside is attached where it is.  The  *)
(* turn that answers a question goes on showing what the asking turn had   *)
(* made.                                                                   *)
(*                                                                         *)
(* A question is matched by its own id. A path is a directory and a name;  *)
(* a file is the number of the write that made it what it is, 0 when it is *)
(* not there.                                                              *)
(***************************************************************************)
EXTENDS Naturals, Sequences, SequencesExt

CONSTANTS
  FileName,         \* file names
  MaxOutputTurns,   \* bound: turns
  MaxWrites         \* bound: writes

ASSUME OutputAssumption == MaxOutputTurns \in Nat

OutputTurn == 1 .. MaxOutputTurns
Shared == 0                     \* the session's directory itself
Outside == MaxOutputTurns + 1   \* a readable directory outside the outputs
Path == (Shared .. Outside) \X FileName
In(p, d) == p[1] = d

VARIABLES
  content,        \* path |-> what the file holds
  writes,         \* writes so far
  toolMessages,   \* the paths in the tool messages of the current turn
  givenAnswers,   \* one per turn: whether it asks, what it shows, what was made
  working,        \* a turn runs
  replyTo,        \* the answer whose question the turn replies to, or 0
  rewritten       \* paths written again after an answer showed them

outputVars == <<content, writes, toolMessages, givenAnswers, working, replyTo, rewritten>>

CurrentTurn == Len(givenAnswers) + 1

Held == [Path -> Nat]
Shown == [path : Path, holds : Nat]
Given == [asks : BOOLEAN, shows : SUBSET Shown, images : SUBSET Path, replies : Nat,
          made : SUBSET Shown]

OutputTypeOK ==
  /\ content \in Held /\ writes \in Nat
  /\ toolMessages \in Seq(Path) /\ givenAnswers \in Seq(Given)
  /\ working \in BOOLEAN /\ replyTo \in 0 .. Len(givenAnswers) /\ rewritten \subseteq Path

-----------------------------------------------------------------------------
(* A turn starts; a question that is open makes it a reply.                *)
StartTurn ==
  /\ ~working /\ CurrentTurn \in OutputTurn
  /\ working' = TRUE /\ toolMessages' = << >>
  /\ replyTo' = IF Len(givenAnswers) > 0 /\ Last(givenAnswers).asks THEN Len(givenAnswers) ELSE 0
  /\ UNCHANGED <<content, writes, givenAnswers, rewritten>>

(* A tool of the turn writes a file and says so: output_files, or the path *)
(* of write_file and edit_file.                                            *)
ToolWrites(p) ==
  /\ working /\ writes < MaxWrites /\ p[1] \in {Shared, Outside} \cup 1 .. CurrentTurn
  /\ writes' = writes + 1
  /\ content' = [content EXCEPT ![p] = writes']
  /\ toolMessages' = Append(toolMessages, p)
  /\ rewritten' = IF \E i \in 1 .. Len(givenAnswers) : \E a \in givenAnswers[i].shows : a.path = p
                  THEN rewritten \cup {p} ELSE rewritten
  /\ UNCHANGED <<givenAnswers, working, replyTo>>

(* variant: what is shared stays where it is *)
SharedInPlace(p, t) == p

(* _snapshot_generated_file_for_current_turn: where the attached file is.  *)
SnapshotPath(p, t) == IF In(p, Outside) \/ In(p, t) THEN p ELSE <<t, p[2]>>

(* _build_file_attachment: the copy is made first; a path is attached      *)
(* once.                                                                   *)
Attached(state, p, t) ==
  LET target == SnapshotPath(p, t)
      now == [state.content EXCEPT ![target] = state.content[p]]
      known == \E a \in state.shows : a.path = target
  IN  [content |-> now,
       shows |-> IF known THEN state.shows
                 ELSE state.shows \cup {[path |-> target, holds |-> now[target]]}]

(* _build_turn_output_file_attachments: the tool messages, in their order. *)
TurnOutputAttachments(state, t) ==
  FoldLeft(LAMBDA s, p : Attached(s, p, t), state, toolMessages)

(* _build_reply_parent_output_attachments: what the asking answer showed   *)
(* and had in its turn's directory.                                        *)
WithParentOutputs(state) ==
  IF replyTo = 0 THEN state
  ELSE [state EXCEPT !.shows = @ \cup
         {[path |-> p, holds |-> state.content[p]] : p \in
            {a.path : a \in {b \in givenAnswers[replyTo].shows : In(b.path, replyTo)}}
            \ {a.path : a \in state.shows}}]

(* _build_assistant_message, with the files that the text shows as images. *)
AnswerWith(asks, images) ==
  LET start == [content |-> content,
                shows |-> {[path |-> p, holds |-> content[p]] : p \in images}]
      done == WithParentOutputs(TurnOutputAttachments(start, CurrentTurn))
  IN  /\ content' = done.content
      /\ givenAnswers' = Append(givenAnswers,
           [asks |-> asks, shows |-> done.shows, images |-> images, replies |-> replyTo,
            made |-> {[path |-> toolMessages[i], holds |-> content[toolMessages[i]]] :
                        i \in 1 .. Len(toolMessages)}])

GiveAnswer ==
  /\ working
  /\ \E asks \in BOOLEAN, images \in {{}} \cup {{p} : p \in {q \in Path : content[q] > 0}} :
       AnswerWith(asks, images)
  /\ working' = FALSE
  /\ UNCHANGED <<writes, toolMessages, replyTo, rewritten>>

OutputInit ==
  /\ content = [p \in Path |-> 0] /\ writes = 0 /\ toolMessages = << >>
  /\ givenAnswers = << >> /\ working = FALSE /\ replyTo = 0 /\ rewritten = {}

OutputNext == StartTurn \/ GiveAnswer \/ \E p \in Path : ToolWrites(p)

OutputSpec == OutputInit /\ [][OutputNext]_outputVars

-----------------------------------------------------------------------------
(* A turn that wrote two files of one name in the session's directory may  *)
(* have copied one over the other.                                         *)
NamesClash(answer) ==
  \E a, b \in {m \in answer.made : ~In(m.path, Outside)} : a.path # b.path /\ a.path[2] = b.path[2]

(* What a turn made can be seen at its answer, and stays: a file of the    *)
(* session's directory is shown by a path of the turn's own that holds     *)
(* what it held, whatever later turns make of the shared files, until one  *)
(* of them writes to that very path.                                       *)
WorkStaysShown == \A t \in 1 .. Len(givenAnswers) : ~NamesClash(givenAnswers[t]) =>
  \A m \in givenAnswers[t].made : ~In(m.path, Outside) =>
    \E a \in givenAnswers[t].shows :
      /\ In(a.path, t) /\ a.path[2] = m.path[2] /\ a.holds = m.holds
      /\ content[a.path] = m.holds \/ a.path \in rewritten

(* The answer to a question's reply goes on showing what the question      *)
(* showed of its turn's own directory.                                     *)
ReplyShowsParent == \A t \in 1 .. Len(givenAnswers) : givenAnswers[t].replies # 0 =>
  \A a \in givenAnswers[givenAnswers[t].replies].shows : In(a.path, givenAnswers[t].replies) =>
    \E b \in givenAnswers[t].shows : b.path = a.path

(* The files of an answer are shown at it and at the answers that build on *)
(* it.                                                                     *)
OutputsAreShown == WorkStaysShown /\ ReplyShowsParent

-----------------------------------------------------------------------------
(* What the steps keep up between them: an inductive invariant.  A turn's  *)
(* directory is empty until the turn writes to it, and then its tool       *)
(* messages say so.                                                        *)
DirectoriesAreOwn ==
  \A p \in Path : (CurrentTurn <= p[1] /\ p[1] # Outside /\ content[p] > 0)
                  => working /\ p[1] = CurrentTurn /\ p \in Range(toolMessages)

RepliesLookBack == \A t \in 1 .. Len(givenAnswers) : givenAnswers[t].replies < t

OutputInv ==
  /\ OutputTypeOK /\ (working => CurrentTurn \in OutputTurn)
  /\ DirectoriesAreOwn /\ RepliesLookBack /\ OutputsAreShown
=============================================================================
