----------------------------- MODULE Evolution -----------------------------
(***************************************************************************)
(* Evolution: background runs that learn from one session                  *)
(* (evolution/service.py, started by runtime/run_loop.py and               *)
(* api/routes/evolution.py).  A run reads the session, awaits an analysis, *)
(* appends to MEMORY.md, awaits an edit of a skill for each request, and   *)
(* records what it changed, with a snapshot of each file, so that it can   *)
(* be rolled back.  Runs exclude one another; turns, the user's own edits, *)
(* the deletion of the session and rollbacks do not wait for them.         *)
(*                                                                         *)
(* One session, one skill.  An action is the code between two suspensions. *)
(* Messages of the session are counted, user and assistant in turn; a      *)
(* file's content is the set of the changes that show in it, {} when it is *)
(* absent or has no item.                                                  *)
(***************************************************************************)
EXTENDS Integers, Sequences, SequencesExt, FiniteSets, FiniteSetsExt

CONSTANTS
  SkillFile,        \* the skill's files
  Interval,         \* turn_interval
  Overlap,          \* overlap_user_turns
  MaxRuns,          \* bound: runs
  MaxRequests,      \* max_skill_updates_per_run
  MaxEdits,         \* bound: requests of all runs
  Earlier,          \* how many messages the session may have at first
  MaxTurns,         \* bound: turns
  MaxUserWrites,    \* bound: edits of a file by the user
  MaxRollbacks      \* bound: rollbacks

ASSUME EvolutionAssumption ==
  /\ "MEMORY.md" \notin SkillFile /\ IsFiniteSet(SkillFile)
  /\ Overlap \in Nat /\ MaxRuns \in Nat /\ MaxRequests \in Nat
  /\ Earlier \subseteq Nat

VARIABLES
  contents,       \* what the files on disk hold
  sessionRecord,  \* the session's record: its messages and the mark of the last run
  userTurn,       \* the session's turn: "idle", "running", "saved"
  copy,           \* the mark in the turn's copy of the record
  inProgress,     \* the session is in _evolution_sessions_in_progress
  runPhase,       \* where a run is
  trigger,        \* by what
  runSeen,        \* how many messages the record had when the run read it
  requests,       \* requests for a skill update that are left
  runChanges,     \* the run's list of changes, in memory
  snapshot,       \* the files it has saved, one for each path
  record,         \* the run's record on disk
  turns, userWrites, rollbacks, edits,   \* bounded: how many there were
  read,           \* auxiliary, no code: the messages that some analysis was given
  heldBefore,     \* auxiliary: what a file held before the run's first change of it
  heldAfter,      \* auxiliary: what the files held when the run ended
  twice           \* auxiliary: <<r, f>>: f's snapshot has been written over

turnVars == <<sessionRecord, userTurn, copy>>
runVars == <<runPhase, trigger, runSeen, requests, runChanges, snapshot, record>>
auxVars == <<read, heldBefore, heldAfter, twice>>
bounded == <<userWrites, rollbacks, edits, turns>>
evolutionVars == <<contents, turnVars, inProgress, runVars, bounded, auxVars>>

EvolutionRun == 1 .. MaxRuns
EvolvedFile == {"MEMORY.md"} \cup SkillFile
Change == [file : EvolvedFile, existed : BOOLEAN]
NoRecord == [status |-> "none", changes |-> << >>]
NoMark == [count |-> 0, source |-> 0]       \* evolution_last_message_count, _last_source

Item == Nat \X Nat
Content == [EvolvedFile -> SUBSET Item]
Mark == [count : Nat, source : Nat]

EvolutionTypeOK ==
  /\ contents \in Content
  /\ sessionRecord \in [present : BOOLEAN, length : Nat, mark : Mark] /\ copy \in Mark
  /\ runPhase \in [EvolutionRun -> {"new", "queued", "analysing", "editing", "ended", "crashed"}]
  /\ trigger \in [EvolutionRun -> {"manual", "new_session_created", "turn_interval"}]
  /\ runSeen \in [EvolutionRun -> Nat] /\ requests \in [EvolutionRun -> Nat]
  /\ \A r \in EvolutionRun : runPhase[r] = "editing" => requests[r] > 0
  /\ runChanges \in [EvolutionRun -> Seq(Change)]
  /\ snapshot \in [EvolutionRun -> Content] /\ heldBefore \in [EvolutionRun -> Content]
  /\ record \in [EvolutionRun -> [status : {"none", "running", "finished", "rolledBack"},
                                  changes : Seq(Change)]]
  /\ userTurn \in {"idle", "running", "saved"} /\ inProgress \in BOOLEAN
  /\ userWrites \in Nat /\ rollbacks \in Nat
  /\ read \subseteq 1 .. sessionRecord.length

UserTurns(n) == (n + 1) \div 2
ThresholdReached == UserTurns(sessionRecord.length) - UserTurns(sessionRecord.mark.count) >= Interval

-----------------------------------------------------------------------------
(* Starting a run.                                                         *)
StartRun(r, why) ==
  /\ runPhase[r] = "new" /\ \A q \in 1 .. r - 1 : runPhase[q] # "new"
  /\ runPhase' = [runPhase EXCEPT ![r] = "queued"]
  /\ trigger' = [trigger EXCEPT ![r] = why]
  /\ inProgress' = (inProgress \/ why # "manual")
  /\ UNCHANGED <<contents, runSeen, requests, runChanges, snapshot, record, bounded, auxVars>>

(* POST /api/evolution/run.                                                *)
Manual(r) ==
  /\ StartRun(r, "manual")
  /\ UNCHANGED turnVars

(* Another session is created: this one is the previous one.               *)
AnotherSession(r) ==
  /\ sessionRecord.present /\ sessionRecord.length > 0 /\ ~ inProgress
  /\ StartRun(r, "new_session_created")
  /\ UNCHANGED turnVars

(* A turn of the session: its copy of the record carries the mark.         *)
TurnStarts ==
  /\ userTurn = "idle" /\ sessionRecord.present /\ turns < MaxTurns
  /\ userTurn' = "running" /\ turns' = turns + 1
  /\ sessionRecord' = [sessionRecord EXCEPT !.length = @ + 1]
  /\ copy' = sessionRecord.mark
  /\ UNCHANGED <<contents, inProgress, runVars, userWrites, rollbacks, edits, auxVars>>

TurnSaves ==
  /\ userTurn = "running"
  /\ userTurn' = "saved"
  /\ sessionRecord' = [sessionRecord EXCEPT !.length = @ + 1, !.mark = copy]
  /\ UNCHANGED <<contents, inProgress, runVars, bounded, auxVars, copy>>

SessionEnd(r) ==
  /\ userTurn = "saved"
  /\ userTurn' = "idle" /\ copy' = NoMark
  /\ UNCHANGED sessionRecord
  /\ IF sessionRecord.present /\ ThresholdReached /\ ~ inProgress
     THEN StartRun(r, "turn_interval")
     ELSE UNCHANGED <<contents, inProgress, runVars, bounded, auxVars>>

DropSession ==
  /\ sessionRecord.present /\ userTurn = "idle"
  /\ sessionRecord' = [sessionRecord EXCEPT !.present = FALSE]
  /\ UNCHANGED <<contents, userTurn, copy, inProgress, runVars, bounded, auxVars>>

-----------------------------------------------------------------------------
(* The end of a run; what it was started by and has read is forgotten.     *)
LeaveRun(r, how) ==
  /\ runPhase' = [runPhase EXCEPT ![r] = how]
  /\ inProgress' = (inProgress /\ trigger[r] = "manual")
  /\ trigger' = [trigger EXCEPT ![r] = "manual"]
  /\ runSeen' = [runSeen EXCEPT ![r] = 0]

(* variant: as many messages as the record has now *)
MarkedAllOfThem(n) ==
  [sessionRecord EXCEPT !.mark = [count |-> sessionRecord.length, source |-> sessionRecord.length]]

Marked(n) == [sessionRecord EXCEPT !.mark = [count |-> n, source |-> n]]

(* The end: the mark goes into the session's record, which raises without  *)
(* one, then the run's record is saved.                                    *)
Finish(r, fs, cs) ==
  /\ heldAfter' = [heldAfter EXCEPT ![r] = fs]
  /\ IF sessionRecord.present
     THEN /\ sessionRecord' = Marked(runSeen[r])
          /\ record' = [record EXCEPT ![r] = [status |-> "finished", changes |-> cs]]
          /\ LeaveRun(r, "ended")
     ELSE /\ LeaveRun(r, "crashed")
          /\ UNCHANGED <<sessionRecord, record>>

(* The lock is free and the run is its first waiter.                       *)
HasLock(r) ==
  /\ runPhase[r] = "queued"
  /\ \A q \in EvolutionRun \ {r} : runPhase[q] \notin {"analysing", "editing"}
  /\ \A q \in 1 .. r - 1 : runPhase[q] # "queued"

Uninteresting(r) ==
  \/ ~ sessionRecord.present
  \/ sessionRecord.mark.source = sessionRecord.length
  \/ trigger[r] = "turn_interval" /\ ~ ThresholdReached

TooShort == sessionRecord.length < 2

Skip(r) ==
  /\ HasLock(r) /\ (Uninteresting(r) \/ TooShort)
  /\ record' = [record EXCEPT ![r].status = "finished"]
  /\ sessionRecord' = IF Uninteresting(r) THEN sessionRecord ELSE Marked(sessionRecord.length)
  /\ LeaveRun(r, "ended")
  /\ UNCHANGED <<contents, userTurn, copy, requests, runChanges, snapshot,
                 bounded, auxVars>>

(* The context goes back behind the mark by Overlap turns of the user.     *)
ContextStart(r) ==
  LET n == sessionRecord.mark.count IN
  IF trigger[r] # "turn_interval" \/ n = 0 THEN 0
  ELSE IF Overlap = 0 THEN n
  ELSE Max({0, 2 * ((n - 1) \div 2 - (Overlap - 1))})

Analyse(r) ==
  /\ HasLock(r) /\ ~ Uninteresting(r) /\ ~ TooShort
  /\ record' = [record EXCEPT ![r].status = "running"]
  /\ runSeen' = [runSeen EXCEPT ![r] = sessionRecord.length]
  /\ read' = read \cup ContextStart(r) + 1 .. sessionRecord.length
  /\ runPhase' = [runPhase EXCEPT ![r] = "analysing"]
  /\ UNCHANGED <<contents, turnVars, inProgress, trigger, requests, runChanges, snapshot,
                 bounded, heldBefore, heldAfter, twice>>

AnalysisFails(r) ==
  /\ runPhase[r] = "analysing"
  /\ Finish(r, contents, runChanges[r])
  /\ UNCHANGED <<contents, userTurn, copy, requests, runChanges, snapshot,
                 bounded, read, heldBefore, twice>>

(* save_file_snapshot of the files fs of one operation each: the snapshot  *)
(* of a path is one file in the run's directory.                           *)
TakeSnapshots(r, fs) ==
  LET existing == {f \in fs : contents[f] # {}}
      touched == {c.file : c \in Range(runChanges[r])} IN
  /\ snapshot' = [snapshot EXCEPT ![r] = [f \in EvolvedFile |-> IF f \in existing THEN contents[f] ELSE @[f]]]
  /\ twice' = twice \cup {<<r, f>> : f \in {g \in existing : snapshot[r][g] # {}}}
  /\ heldBefore' = [heldBefore EXCEPT ![r] = [f \in EvolvedFile |-> IF f \in fs \ touched THEN contents[f] ELSE @[f]]]

(* variant: to the file as the analysis was given it *)
LearnedFromContext(r, learns) == IF learns THEN {<<r, 0>>} ELSE contents["MEMORY.md"]

(* What is asked for, cut to the limit and without repetitions.            *)
Requests == 0 .. MaxRequests

(* What the analysis proposes for MEMORY.md is appended to the file as it  *)
(* is now.                                                                 *)
Learned(r, learns) == IF learns THEN contents["MEMORY.md"] \cup {<<r, 0>>} ELSE contents["MEMORY.md"]

Analysed(r, learns, asked) ==
  LET fs == [contents EXCEPT !["MEMORY.md"] = Learned(r, learns)]
      new == IF learns THEN <<[file |-> "MEMORY.md", existed |-> contents["MEMORY.md"] # {}]>>
                       ELSE << >> IN
  /\ runPhase[r] = "analysing" /\ edits + asked <= MaxEdits
  /\ edits' = edits + asked
  /\ TakeSnapshots(r, IF learns THEN {"MEMORY.md"} ELSE {})
  /\ contents' = fs
  /\ runChanges' = [runChanges EXCEPT ![r] = new]
  /\ requests' = [requests EXCEPT ![r] = asked]
  /\ IF asked = 0
     THEN Finish(r, fs, new)
     ELSE /\ runPhase' = [runPhase EXCEPT ![r] = "editing"]
          /\ UNCHANGED <<sessionRecord, inProgress, trigger, runSeen, record, heldAfter>>
  /\ UNCHANGED <<userTurn, copy, userWrites, rollbacks, turns, read>>

(* variant: from the first change to the last *)
UndoForward(fs, cs, snap) ==
  FoldLeft(LAMBDA acc, c : [acc EXCEPT ![c.file] = IF c.existed THEN snap[c.file] ELSE {}],
           fs, cs)

(* _rollback_changes, from the last change to the first.                   *)
Undo(fs, cs, snap) ==
  FoldLeft(LAMBDA acc, c : [acc EXCEPT ![c.file] = IF c.existed THEN snap[c.file] ELSE {}],
           fs, Reverse(cs))

(* The operations of an edit: a file at most once, SKILL.md not deleted;   *)
(* at failing, if any, it stops with an error.                             *)
Operations ==
  {op \in [touched : SUBSET SkillFile, deleted : SUBSET SkillFile, failing : SUBSET SkillFile] :
     /\ op.deleted \subseteq op.touched \ {"SKILL.md"}
     /\ op.failing \cap op.touched = {} /\ Cardinality(op.failing) <= 1}

(* What the validation of the skill's directory finds; what else is wrong  *)
(* with the files is the choice of valid.                                  *)
Kept(written, op, valid) ==
  valid /\ op.failing = {} /\ ("SKILL.md" \in SkillFile => written["SKILL.md"] # {})

(* A request is done: the run goes on with the next, or ends.              *)
RequestDone(r, fs, cs) ==
  /\ requests' = [requests EXCEPT ![r] = @ - 1]
  /\ IF requests[r] = 1
     THEN Finish(r, fs, cs)
     ELSE UNCHANGED <<sessionRecord, runPhase, inProgress, trigger, runSeen, record, heldAfter>>
  /\ UNCHANGED <<userTurn, copy, bounded, read>>

(* No such skill that may be written, or no edit came of it.               *)
NoEdit(r) ==
  /\ runPhase[r] = "editing"
  /\ RequestDone(r, contents, runChanges[r])
  /\ UNCHANGED <<contents, runChanges, snapshot, heldBefore, twice>>

(* An edit's changes of files, in some order.                              *)
ChangesOf(touched) ==
  [i \in 1 .. Cardinality(touched) |->
     LET f == SetToSeq(touched)[i] IN [file |-> f, existed |-> contents[f] # {}]]

Edited(r, op, valid) ==
  LET touched == op.touched
      written == [f \in EvolvedFile |-> IF f \in op.deleted THEN {}
                                 ELSE IF f \in touched THEN {<<r, requests[r]>>} ELSE contents[f]]
      new == ChangesOf(touched)
      cs == runChanges[r] \o new
      fs == IF Kept(written, op, valid) THEN written ELSE Undo(written, new, snapshot'[r])
  IN
  /\ runPhase[r] = "editing"
  /\ TakeSnapshots(r, touched \cup op.failing)
  /\ contents' = fs
  /\ runChanges' = [runChanges EXCEPT ![r] = cs]
  /\ RequestDone(r, fs, cs)

-----------------------------------------------------------------------------
(* rollback_run, at any time; the files are restored before the reload of  *)
(* the plugins, which may raise, and the record.                           *)
Rollback(r, reloads) ==
  /\ rollbacks < MaxRollbacks /\ record[r].status # "none"
  /\ rollbacks' = rollbacks + 1
  /\ contents' = Undo(contents, record[r].changes, snapshot[r])
  /\ record' = IF reloads THEN [record EXCEPT ![r].status = "rolledBack"] ELSE record
  /\ UNCHANGED <<turnVars, inProgress, runPhase, trigger, runSeen, requests, runChanges,
                 snapshot, userWrites, edits, turns, auxVars>>

(* The user adds to MEMORY.md, or writes a file of the skill anew.         *)
UserWrites(f) ==
  /\ userWrites < MaxUserWrites
  /\ userWrites' = userWrites + 1
  /\ contents' = [contents EXCEPT ![f] = (IF f = "MEMORY.md" THEN @ ELSE {}) \cup {<<0, userWrites + 1>>}]
  /\ UNCHANGED <<turnVars, inProgress, runVars, rollbacks, edits, turns, auxVars>>

-----------------------------------------------------------------------------
EvolutionInit ==
  /\ contents = [f \in EvolvedFile |-> {<<0, 0>>}]
  /\ sessionRecord \in [present : {TRUE}, length : Earlier, mark : {NoMark}]
  /\ userTurn = "idle" /\ copy = NoMark /\ inProgress = FALSE
  /\ runPhase = [r \in EvolutionRun |-> "new"]
  /\ trigger = [r \in EvolutionRun |-> "manual"]
  /\ runSeen = [r \in EvolutionRun |-> 0]
  /\ requests = [r \in EvolutionRun |-> 0]
  /\ runChanges = [r \in EvolutionRun |-> << >>]
  /\ snapshot = [r \in EvolutionRun |-> [f \in EvolvedFile |-> {}]]
  /\ record = [r \in EvolutionRun |-> NoRecord]
  /\ userWrites = 0 /\ rollbacks = 0 /\ edits = 0 /\ turns = 0
  /\ read = {} /\ twice = {}
  /\ heldBefore = [r \in EvolutionRun |-> [f \in EvolvedFile |-> {}]]
  /\ heldAfter = [r \in EvolutionRun |-> [f \in EvolvedFile |-> {}]]

RunStep(r) ==
  \/ Skip(r)
  \/ Analyse(r)
  \/ AnalysisFails(r)
  \/ \E learns \in BOOLEAN, asked \in Requests : Analysed(r, learns, asked)
  \/ NoEdit(r)
  \/ \E op \in Operations, valid \in BOOLEAN : Edited(r, op, valid)

EvolutionNext ==
  \/ \E r \in EvolutionRun : Manual(r) \/ AnotherSession(r) \/ SessionEnd(r) \/ RunStep(r)
  \/ TurnStarts \/ TurnSaves \/ DropSession
  \/ \E r \in EvolutionRun, reloads \in BOOLEAN : Rollback(r, reloads)
  \/ \E f \in EvolvedFile : UserWrites(f)

EvolutionSpec == EvolutionInit /\ [][EvolutionNext]_evolutionVars

-----------------------------------------------------------------------------
(* Rolling back a run gives back each file that nobody has touched since   *)
(* as it was before the run's first change, whatever the run's edits did   *)
(* to it in turn, refused ones included (service.py:401).  Not so when the *)
(* run's own second edit has written over the only snapshot of the file.   *)
Restores ==
  \A r \in EvolutionRun, f \in EvolvedFile :
    (/\ runPhase[r] = "ended" /\ record[r].status = "finished" /\ record'[r].status = "rolledBack"
     /\ f \in {c.file : c \in Range(record[r].changes)}
     /\ contents[f] = heldAfter[r][f] /\ <<r, f>> \notin twice)
    => contents'[f] = heldBefore[r][f]
RollbackRestores == [][Restores]_evolutionVars

(* Nothing but a rollback, and the user, takes an item out of MEMORY.md:   *)
(* what others add during a run's awaits stays (service.py:215).           *)
Remembers ==
  (rollbacks' = rollbacks /\ userWrites' = userWrites)
  => contents["MEMORY.md"] \subseteq contents'["MEMORY.md"]
NothingForgotten == [][Remembers]_evolutionVars

(* Messages that arrive while a run is at work are not taken for processed *)
(* by its mark: a later run is given every message up to the mark before   *)
(* the mark passes it (service.py:128).  Without an overlap the message of *)
(* a run that found the session too short, the first, is given to none.    *)
FirstGiven == IF Overlap = 0 THEN 2 ELSE 1
MarkedWasRead ==
  sessionRecord.mark.count >= 2 => FirstGiven .. sessionRecord.mark.count \subseteq read

(* Whatever a run that has ended has left in a file can be rolled back:    *)
(* its record lists the file (service.py:136).  A run that found its       *)
(* session deleted has crashed and records nothing.                        *)
ChangesAreOnRecord ==
  \A r \in EvolutionRun, f \in EvolvedFile :
    (runPhase[r] = "ended" /\ \E m \in contents[f] : m[1] = r)
    => f \in {c.file : c \in Range(record[r].changes)}

(* What a run leaves behind is accounted for: the messages by its mark,    *)
(* the files by its record.                                                *)
RunsAreAccounted == MarkedWasRead /\ ChangesAreOnRecord

-----------------------------------------------------------------------------
(* What the steps keep up between them: an inductive invariant.            *)
(* A mark that is, or may become, the session's.                           *)
MarkIsSound(n) == n <= sessionRecord.length /\ (n >= 2 => FirstGiven .. n \subseteq read)

MarksAreSound ==
  /\ MarkIsSound(sessionRecord.mark.count) /\ MarkIsSound(copy.count)
  /\ \A r \in EvolutionRun : MarkIsSound(runSeen[r])

Touched(r) == {c.file : c \in Range(runChanges[r])}

(* A file holds what a run has put there, or a snapshot of it does, only   *)
(* if the run's list names the file.                                       *)
ItemsAreListed ==
  \A f \in EvolvedFile, r \in EvolutionRun :
    (\/ \E m \in contents[f] : m[1] = r
     \/ \E q \in EvolutionRun : \E m \in snapshot[q][f] : m[1] = r)
    => f \in Touched(r)

(* The list becomes the record's at the end, and there is none before the  *)
(* analysis has answered.                                                  *)
RecordsAreLists ==
  \A r \in EvolutionRun :
    /\ record[r].changes = IF runPhase[r] = "ended" THEN runChanges[r] ELSE << >>
    /\ runPhase[r] \in {"new", "queued", "analysing"} => runChanges[r] = << >>

IsFirst(cs, k, f) == cs[k].file = f /\ \A j \in 1 .. k - 1 : cs[j].file # f

(* The first change of a file, which a rollback undoes last, says whether  *)
(* the file was there, and if it was, the snapshot is what it held.        *)
CanRestore(cs, held, saved, f) ==
  \A k \in 1 .. Len(cs) :
    IsFirst(cs, k, f) => /\ cs[k].existed = (held # {})
                         /\ cs[k].existed => saved = held

CanBeRestored ==
  \A r \in EvolutionRun, f \in EvolvedFile :
    <<r, f>> \in twice \/ CanRestore(runChanges[r], heldBefore[r][f], snapshot[r][f], f)

EvolutionInv ==
  EvolutionTypeOK /\ MarksAreSound /\ ItemsAreListed /\ RecordsAreLists /\ CanBeRestored
=============================================================================
