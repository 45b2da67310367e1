--------------------------- MODULE SessionProofs ---------------------------
(***************************************************************************)
(* Proofs about a session and what is written of it.                       *)
(*                                                                         *)
(* SessionTurns: which turns run and what their saves do, for every number *)
(* of requests, scheduled tasks and channel messages.                      *)
(*                                                                         *)
(* SessionState: what the record says of the question to the user, of what *)
(* the routes set and of the parsed attachments, for every set of          *)
(* attachments and every number of messages, edits and questions.          *)
(*                                                                         *)
(* Streaming: what the screen shows of a response, for every set of tools, *)
(* number of calls, attempts and chunks.                                   *)
(*                                                                         *)
(* TurnOutputs: the files that the answers show, for every set of names    *)
(* and number of turns and writes.                                         *)
(*                                                                         *)
(* PhaseTags: the parser of the tags, for a text and chunks of any length. *)
(***************************************************************************)
EXTENDS SessionTurns, SessionState, Streaming, TurnOutputs, PhaseTags, FoldLemmas, SequenceTheorems

-----------------------------------------------------------------------------
(* The turns of a session.                                                 *)
LEMMA Actors ==
  /\ Requests \subseteq Turn /\ Jobs \subseteq Turn /\ Messages \subseteq Turn
  /\ \A r \in Requests : r \notin Jobs /\ r \notin Messages /\ r # Nobody
  /\ \A j \in Jobs : j \notin Messages
BY NumbersAssumption DEF Requests, Jobs, Messages, Turn, Nobody

-----------------------------------------------------------------------------
(* Frames: what the steps of one actor leave alone.                        *)

LEMMA RequestFrame ==
  ASSUME TypeOK, NEW r \in Requests, RequestStep(r)
  PROVE  /\ jobActive' = jobActive /\ compress' = compress
         /\ at' \in [Turn -> Place]
         /\ \A y \in Turn : y # r => at'[y] = at[y]
BY Actors DEF RequestStep, Check, Reject, Register, Disconnect, StreamEnd, WorkerStep,
   SaveUploads, WorkerTurn, WorkerSave, WorkerAnswer, WorkerFails, WorkerCancelled,
   CancelDropped, WorkerEnd, Interrupt, InterruptLate, InterruptReturns,
   Goto, BeginTurn, TypeOK, Place, compressVars

LEMMA JobFrame ==
  ASSUME TypeOK, NEW j \in Jobs, JobStep(j)
  PROVE  /\ compress' = compress /\ UNCHANGED <<entryVars, replaced>>
         /\ at' \in [Turn -> Place]
         /\ \A y \in Turn : y # j => at'[y] = at[y]
BY Actors DEF JobStep, JobSkipped, JobStarts, JobSaves, JobBacksOff, JobRetries, JobEnds,
   Goto, BeginTurn, TypeOK, Place, compressVars

LEMMA MessageFrame ==
  ASSUME TypeOK, NEW m \in Messages, MessageStep(m)
  PROVE  /\ compress' = compress /\ UNCHANGED <<entryVars, replaced, jobActive>>
         /\ at' \in [Turn -> Place]
         /\ \A y \in Turn : y # m => at'[y] = at[y]
BY Actors DEF MessageStep, ChannelReceives, ChannelTurn, ChannelSaves, ChannelEnds,
   Goto, BeginTurn, TypeOK, Place, compressVars

-----------------------------------------------------------------------------
(* Type correctness.                                                       *)

RecordType ==
  /\ disk \subseteq Content /\ snap \in [Turn -> SUBSET Content]
  /\ compressSnap \subseteq Content

LEMMA SaveType ==
  ASSUME TypeOK, NEW x \in Turn, NEW c \in SUBSET Content, Save(x, c)
  PROVE  RecordType'
BY DEF TypeOK, Save, RecordType

LEMMA LeaveType ==
  ASSUME TypeOK, NEW x \in Turn, SaveAnswer(x) \/ GiveUp(x)
  PROVE  RecordType'
<1>1. CASE SaveAnswer(x)
  BY <1>1 DEF TypeOK, SaveAnswer, RecordType
<1>2. CASE GiveUp(x)
  BY <1>2 DEF TypeOK, GiveUp, RecordType
<1>3. QED
  BY <1>1, <1>2

LEMMA BeginType ==
  ASSUME TypeOK, NEW x \in Turn, BeginTurn(x)
  PROVE  RecordType'
<1>1. disk \cup {<<x, "messages">>} \in SUBSET Content
  BY DEF TypeOK, Content
<1>2. QED
  BY <1>1, SaveType DEF BeginTurn

LEMMA RequestType ==
  ASSUME TypeOK, NEW r \in Requests, RequestStep(r)
  PROVE  RecordType' /\ active' \in Requests \cup {Nobody}
         /\ connected' \subseteq Requests /\ stopping' \subseteq Requests
         /\ flagged' \subseteq Requests /\ replaced' \subseteq Requests
<1> USE Actors
<1>1. RecordType'
  <2>1. CASE WorkerTurn(r)
    BY <2>1, BeginType DEF WorkerTurn
  <2>2. CASE WorkerSave(r)
    BY <2>2, SaveType DEF WorkerSave, SaveStep, TypeOK
  <2>3. CASE WorkerAnswer(r) \/ WorkerFails(r) \/ WorkerCancelled(r)
    BY <2>3, LeaveType DEF WorkerAnswer, WorkerFails, WorkerCancelled
  <2>4. CASE Interrupt(r)
    BY <2>4 DEF Interrupt, TypeOK, RecordType, Content, compressVars
  <2>5. QED
    BY <2>1, <2>2, <2>3, <2>4 DEF RequestStep, WorkerStep, Check, Reject, Register,
       Disconnect, StreamEnd, SaveUploads, CancelDropped, WorkerEnd, InterruptLate,
       InterruptReturns, TypeOK, RecordType, recordVars, compressVars
<1>2. QED
  BY <1>1 DEF RequestStep, WorkerStep, Check, Reject, Register, Disconnect, StreamEnd,
     SaveUploads, WorkerTurn, WorkerSave, WorkerAnswer, WorkerFails, WorkerCancelled,
     CancelDropped, WorkerEnd, Interrupt, InterruptLate, InterruptReturns,
     Clear, TypeOK, entryVars

LEMMA JobType ==
  ASSUME TypeOK, NEW j \in Jobs, JobStep(j)
  PROVE  RecordType' /\ jobActive' \in BOOLEAN
<1> USE Actors
<1>1. RecordType'
  <2>1. CASE JobStarts(j)
    BY <2>1, BeginType DEF JobStarts
  <2>2. CASE JobSaves(j) \/ JobRetries(j)
    BY <2>2, SaveType DEF JobSaves, JobRetries, SaveStep, TypeOK
  <2>3. CASE JobBacksOff(j) \/ JobEnds(j)
    BY <2>3, LeaveType DEF JobBacksOff, JobEnds
  <2>4. CASE JobSkipped(j)
    BY <2>4 DEF JobSkipped, TypeOK, RecordType, recordVars, compressVars
  <2>5. QED
    BY <2>1, <2>2, <2>3, <2>4 DEF JobStep
<1>2. QED
  BY <1>1 DEF JobStep, JobSkipped, JobStarts, JobSaves, JobBacksOff, JobRetries, JobEnds, TypeOK

LEMMA MessageType ==
  ASSUME TypeOK, NEW m \in Messages, MessageStep(m)
  PROVE  RecordType'
<1> USE Actors
<1>1. CASE ChannelTurn(m)
  BY <1>1, BeginType DEF ChannelTurn
<1>2. CASE ChannelSaves(m)
  BY <1>2, SaveType DEF ChannelSaves, SaveStep, TypeOK
<1>3. CASE ChannelEnds(m)
  BY <1>3, LeaveType DEF ChannelEnds
<1>4. CASE ChannelReceives(m)
  BY <1>4 DEF ChannelReceives, TypeOK, RecordType, recordVars, compressVars
<1>5. QED
  BY <1>1, <1>2, <1>3, <1>4 DEF MessageStep

(* What the auxiliary variable records, whoever moves.                     *)
Watched ==
  /\ overlapped' \in BOOLEAN
  /\ ~ overlapped' => /\ ~ overlapped /\ Alone'
                      /\ \A r \in flagged \ flagged' : at'[r] # "turn"

LEMMA NextIsWatched ==
  ASSUME TypeOK, Next
  PROVE  /\ Watched
         /\ \/ \E r \in Requests : RequestStep(r)
            \/ \E j \in Jobs : JobStep(j)
            \/ \E m \in Messages : MessageStep(m)
            \/ CompressBegins \/ CompressEnds
BY DEF Next, Watch, Watched, TypeOK

LEMMA StepType ==
  ASSUME TypeOK, Next
  PROVE  TypeOK'
<1>1. overlapped' \in BOOLEAN
  BY NextIsWatched DEF Watched
<1>2. ASSUME NEW r \in Requests, RequestStep(r) PROVE TypeOK'
  BY <1>1, <1>2, RequestFrame, RequestType DEF TypeOK, RecordType, vars
<1>3. ASSUME NEW j \in Jobs, JobStep(j) PROVE TypeOK'
  BY <1>1, <1>3, JobFrame, JobType DEF TypeOK, RecordType, entryVars
<1>4. ASSUME NEW m \in Messages, MessageStep(m) PROVE TypeOK'
  BY <1>1, <1>4, MessageFrame, MessageType DEF TypeOK, RecordType, entryVars
<1>5. CASE CompressBegins
  BY <1>1, <1>5 DEF CompressBegins, TypeOK, entryVars, recordVars
<1>6. CASE CompressEnds
  BY <1>1, <1>6 DEF CompressEnds, TypeOK, entryVars
<1>7. QED
  BY <1>2, <1>3, <1>4, <1>5, <1>6, NextIsWatched

-----------------------------------------------------------------------------
(* Who is admitted, registered and cancelled.                              *)

Admission == OneJob /\ LiveIsRegistered /\ NoStaleEntry /\ FlagsAreAwaited

(* A step that leaves the requests and their entry alone.                  *)
LEMMA QuietEntries ==
  ASSUME TypeOK, Admission, UNCHANGED <<entryVars, replaced>>,
         \A r \in Requests : at'[r] = at[r]
  PROVE  (LiveIsRegistered /\ NoStaleEntry /\ FlagsAreAwaited)'
BY DEF TypeOK, Admission, LiveIsRegistered, NoStaleEntry, FlagsAreAwaited, Worker, entryVars

LEMMA QuietJobs ==
  ASSUME OneJob, UNCHANGED jobActive, \A j \in Jobs : at'[j] = at[j]
  PROVE  OneJob'
BY DEF OneJob, AtWork

LEMMA RequestAdmission ==
  ASSUME TypeOK, Admission, NEW r \in Requests, RequestStep(r)
  PROVE  Admission'
<1> USE Actors
<1>1. OneJob'
  BY RequestFrame, QuietJobs DEF Admission
<1>2. \A q \in Requests : q # r => (Worker(q)' <=> Worker(q))
  BY RequestFrame DEF Worker
<1>3. LiveIsRegistered' /\ NoStaleEntry' /\ FlagsAreAwaited'
  <2>1. CASE Check(r)
    BY <1>2, <2>1 DEF Check, Arrives, Goto, TypeOK, Admission, LiveIsRegistered, NoStaleEntry,
       FlagsAreAwaited, Worker
  <2>2. CASE Reject(r)
    BY <1>2, <2>2 DEF Reject, Goto, TypeOK, Admission, LiveIsRegistered, NoStaleEntry,
       FlagsAreAwaited, Worker, entryVars
  <2>3. CASE Register(r)
    BY <1>2, <2>3 DEF Register, Goto, TypeOK, Admission, LiveIsRegistered, NoStaleEntry,
       FlagsAreAwaited, Worker
  <2>4. CASE Disconnect(r) \/ StreamEnd(r)
    BY <1>2, <2>4 DEF Disconnect, StreamEnd, Clear, TypeOK, Admission, LiveIsRegistered,
       NoStaleEntry, FlagsAreAwaited, Worker
  <2>5. CASE SaveUploads(r) \/ WorkerTurn(r) \/ WorkerSave(r) \/ WorkerAnswer(r) \/ WorkerFails(r)
    BY <1>2, <2>5 DEF SaveUploads, WorkerTurn, WorkerSave, WorkerAnswer, WorkerFails, BeginTurn,
       Goto, TypeOK, Admission, LiveIsRegistered, NoStaleEntry, FlagsAreAwaited, Worker, entryVars
  <2>6. CASE WorkerCancelled(r) \/ CancelDropped(r)
    BY <1>2, <2>6 DEF WorkerCancelled, CancelDropped, Goto, TypeOK, Admission,
       LiveIsRegistered, NoStaleEntry, FlagsAreAwaited, Worker
  <2>7. CASE WorkerEnd(r)
    BY <1>2, <2>7 DEF WorkerEnd, Clear, Goto, TypeOK, Admission, LiveIsRegistered,
       NoStaleEntry, FlagsAreAwaited, Worker
  <2>8. CASE Interrupt(r) \/ InterruptLate(r) \/ InterruptReturns(r)
    BY <1>2, <2>8 DEF Interrupt, InterruptLate, InterruptReturns, Clear, TypeOK, Admission,
       LiveIsRegistered, NoStaleEntry, FlagsAreAwaited, Worker
  <2>9. QED
    BY <2>1, <2>2, <2>3, <2>4, <2>5, <2>6, <2>7, <2>8 DEF RequestStep, WorkerStep
<1>4. QED
  BY <1>1, <1>3 DEF Admission

LEMMA JobAdmission ==
  ASSUME TypeOK, Admission, NEW j \in Jobs, JobStep(j)
  PROVE  Admission'
<1> USE Actors
<1>1. \A i \in Jobs : i # j => (AtWork(i)' <=> AtWork(i))
  BY JobFrame DEF AtWork
<1>2. OneJob'
  <2>1. CASE JobSkipped(j)
    BY <1>1, <2>1 DEF JobSkipped, Arrives, Goto, TypeOK, Admission, OneJob, AtWork
  <2>2. CASE JobStarts(j)
    BY <1>1, <2>2 DEF JobStarts, BeginTurn, Goto, TypeOK, Admission, OneJob, AtWork
  <2>3. CASE JobSaves(j) \/ JobBacksOff(j) \/ JobRetries(j)
    BY <1>1, <2>3 DEF JobSaves, JobBacksOff, JobRetries, Goto, TypeOK, Admission, OneJob, AtWork
  <2>4. CASE JobEnds(j)
    BY <1>1, <2>4 DEF JobEnds, Goto, TypeOK, Admission, OneJob, AtWork
  <2>5. QED
    BY <2>1, <2>2, <2>3, <2>4 DEF JobStep
<1>3. QED
  BY <1>2, JobFrame, QuietEntries DEF Admission

LEMMA StepAdmission ==
  ASSUME TypeOK, Admission, Next
  PROVE  Admission'
<1> USE Actors
<1>1. ASSUME NEW m \in Messages, MessageStep(m) PROVE Admission'
  BY <1>1, MessageFrame, QuietEntries, QuietJobs DEF Admission
<1>2. CASE CompressBegins \/ CompressEnds
  BY <1>2, QuietEntries, QuietJobs DEF CompressBegins, CompressEnds, Admission
<1>3. QED
  BY <1>1, <1>2, RequestAdmission, JobAdmission, NextIsWatched

-----------------------------------------------------------------------------
(* The copies of the session in memory.                                    *)

(* A turn at work alone begins, goes on, or saves: its copy is the record. *)
LEMMA SaveKeepsCurrent ==
  ASSUME TypeOK, Watched, NEW x \in Turn, NEW c, Save(x, c), AtWork(x)'
  PROVE  CopyIsCurrent'
BY DEF TypeOK, Watched, Save, CopyIsCurrent, Alone, AtWork

(* Nobody begins or saves.                                                 *)
LEMMA QuietKeepsCurrent ==
  ASSUME TypeOK, CopyIsCurrent, Watched, UNCHANGED <<disk, compress, compressSnap>>,
         \A x \in Turn : at'[x] = "turn" => at[x] = "turn" /\ snap'[x] = snap[x]
  PROVE  CopyIsCurrent'
BY DEF TypeOK, Watched, CopyIsCurrent

(* Only x is at work, and it is not in its turn afterwards, or cancelled.  *)
LEMMA LeaveKeepsCurrent ==
  ASSUME TypeOK, CopyIsCurrent, Watched, NEW x \in Turn, AtWork(x),
         UNCHANGED compress, at'[x] # "turn" \/ x \in flagged',
         \A y \in Turn : y # x => at'[y] = at[y]
  PROVE  CopyIsCurrent'
BY DEF TypeOK, Watched, CopyIsCurrent, Alone, AtWork

LEMMA RequestCurrent ==
  ASSUME TypeOK, CopyIsCurrent, Watched, NEW r \in Requests, RequestStep(r)
  PROVE  CopyIsCurrent'
<1> USE Actors
<1>1. CASE WorkerTurn(r) \/ WorkerSave(r)
  BY <1>1, SaveKeepsCurrent
     DEF WorkerTurn, WorkerSave, SaveStep, BeginTurn, Goto, AtWork, TypeOK
<1>2. CASE WorkerAnswer(r) \/ WorkerFails(r) \/ WorkerCancelled(r) \/ Interrupt(r)
  <2>1. AtWork(r) /\ (at'[r] # "turn" \/ r \in flagged')
    BY <1>2 DEF WorkerAnswer, WorkerFails, WorkerCancelled, Interrupt, Goto, AtWork, Worker, TypeOK
  <2>2. QED
    BY <2>1, RequestFrame, LeaveKeepsCurrent
<1>3. CASE Check(r) \/ Reject(r) \/ Register(r) \/ SaveUploads(r) \/ WorkerEnd(r)
  <2>1. UNCHANGED <<disk, snap, compress, compressSnap>> /\ at'[r] # "turn"
    BY <1>3 DEF Check, Reject, Register, SaveUploads, WorkerEnd, Goto, TypeOK,
       recordVars, compressVars
  <2>2. QED
    BY <2>1, RequestFrame, QuietKeepsCurrent
<1>4. CASE Disconnect(r) \/ StreamEnd(r) \/ CancelDropped(r) \/ InterruptLate(r) \/ InterruptReturns(r)
  BY <1>4, QuietKeepsCurrent DEF Disconnect, StreamEnd, CancelDropped, InterruptLate,
     InterruptReturns, recordVars, compressVars
<1>5. QED
  BY <1>1, <1>2, <1>3, <1>4 DEF RequestStep, WorkerStep

LEMMA JobCurrent ==
  ASSUME TypeOK, CopyIsCurrent, Watched, NEW j \in Jobs, JobStep(j)
  PROVE  CopyIsCurrent'
<1> USE Actors
<1>1. CASE JobStarts(j) \/ JobSaves(j) \/ JobRetries(j)
  BY <1>1, SaveKeepsCurrent
     DEF JobStarts, JobSaves, JobRetries, SaveStep, BeginTurn, Goto, AtWork, TypeOK
<1>2. CASE JobBacksOff(j) \/ JobEnds(j)
  <2>1. AtWork(j) /\ at'[j] # "turn"
    BY <1>2 DEF JobBacksOff, JobEnds, Goto, AtWork, TypeOK
  <2>2. QED
    BY <2>1, JobFrame, LeaveKeepsCurrent
<1>3. CASE JobSkipped(j)
  <2>1. UNCHANGED <<disk, snap, compress, compressSnap>> /\ at'[j] # "turn"
    BY <1>3 DEF JobSkipped, Goto, TypeOK, recordVars, compressVars
  <2>2. QED
    BY <2>1, JobFrame, QuietKeepsCurrent
<1>4. QED
  BY <1>1, <1>2, <1>3 DEF JobStep

LEMMA MessageCurrent ==
  ASSUME TypeOK, CopyIsCurrent, Watched, NEW m \in Messages, MessageStep(m)
  PROVE  CopyIsCurrent'
<1> USE Actors
<1>1. CASE ChannelTurn(m) \/ ChannelSaves(m)
  BY <1>1, SaveKeepsCurrent
     DEF ChannelTurn, ChannelSaves, SaveStep, BeginTurn, Goto, AtWork, TypeOK
<1>2. CASE ChannelEnds(m)
  <2>1. AtWork(m) /\ at'[m] # "turn"
    BY <1>2 DEF ChannelEnds, Goto, AtWork, TypeOK
  <2>2. QED
    BY <2>1, MessageFrame, LeaveKeepsCurrent
<1>3. CASE ChannelReceives(m)
  <2>1. UNCHANGED <<disk, snap, compress, compressSnap>> /\ at'[m] # "turn"
    BY <1>3 DEF ChannelReceives, Goto, TypeOK, recordVars, compressVars
  <2>2. QED
    BY <2>1, MessageFrame, QuietKeepsCurrent
<1>4. QED
  BY <1>1, <1>2, <1>3 DEF MessageStep

LEMMA StepCurrent ==
  ASSUME TypeOK, CopyIsCurrent, Next
  PROVE  CopyIsCurrent'
<1>1. Watched
  BY NextIsWatched
<1>2. CASE CompressBegins
  BY <1>1, <1>2 DEF CompressBegins, CopyIsCurrent, Watched, Alone, AtWork, recordVars, entryVars
<1>3. CASE CompressEnds
  BY <1>1, <1>3 DEF CompressEnds, CopyIsCurrent, Watched, Alone, AtWork, entryVars
<1>4. QED
  BY <1>1, <1>2, <1>3, RequestCurrent, JobCurrent, MessageCurrent, NextIsWatched

-----------------------------------------------------------------------------
LEMMA InitIInv == Init => IInv
BY Actors DEF Init, IInv, TypeOK, OneJob, LiveIsRegistered, NoStaleEntry, FlagsAreAwaited,
   CopyIsCurrent, Alone, AtWork, Worker, Place, Content

LEMMA StepIInv == IInv /\ [Next]_vars => IInv'
<1> SUFFICES ASSUME IInv, [Next]_vars PROVE IInv'
  OBVIOUS
<1>1. CASE Next
  BY <1>1, StepType, StepAdmission, StepCurrent DEF IInv, Admission
<1>2. CASE UNCHANGED vars
  BY <1>2 DEF vars, entryVars, recordVars, compressVars, IInv, TypeOK, OneJob, LiveIsRegistered,
     NoStaleEntry, FlagsAreAwaited, CopyIsCurrent, Alone, AtWork, Worker
<1>3. QED
  BY <1>1, <1>2

(* The inductive invariant holds in every reachable state.                 *)
THEOREM InvariantHolds == Spec => []IInv
BY InitIInv, StepIInv, PTL DEF Spec

(* Type correctness of the turns, the entry and the copies of the session. *)
THEOREM TypeCorrect == Spec => []TypeOK
<1>1. IInv => TypeOK
  BY DEF IInv
<1>2. QED
  BY <1>1, InvariantHolds, PTL

(* However ticks, manual runs and retries interleave, the scheduler works  *)
(* on at most one task in a session.                                       *)
THEOREM OneJobAtATime == Spec => []OneJob
<1>1. IInv => OneJob
  BY DEF IInv
<1>2. QED
  BY <1>1, InvariantHolds, PTL

(* An unfinished worker is found in active_message_runs unless a request   *)
(* that was already past its check has taken its place.                    *)
THEOREM WorkersAreRegistered == Spec => []LiveIsRegistered
<1>1. IInv => LiveIsRegistered
  BY DEF IInv
<1>2. QED
  BY <1>1, InvariantHolds, PTL

(* The entry of a finished worker does not stay.                           *)
THEOREM EntriesAreRemoved == Spec => []NoStaleEntry
<1>1. IInv => NoStaleEntry
  BY DEF IInv
<1>2. QED
  BY <1>1, InvariantHolds, PTL

(* What the checks look into is so: the scheduler's set and the entries.   *)
THEOREM EntriesTrue == Spec => []EntriesAreTrue
<1>1. OneJob /\ LiveIsRegistered /\ NoStaleEntry => EntriesAreTrue
  BY DEF EntriesAreTrue
<1>2. QED
  BY <1>1, OneJobAtATime, WorkersAreRegistered, EntriesAreRemoved, PTL

-----------------------------------------------------------------------------
Grows == ~ overlapped' => disk \subseteq disk'

LEMMA SaveGrows ==
  ASSUME TypeOK, CopyIsCurrent, Watched, NEW x \in Turn \ flagged, at[x] = "turn",
         SaveStep(x) \/ SaveAnswer(x)
  PROVE  Grows
BY DEF TypeOK, CopyIsCurrent, Watched, SaveStep, Save, SaveAnswer, Grows

LEMMA StepGrows ==
  ASSUME IInv, [Next]_vars
  PROVE  Grows
<1> USE Actors
<1>1. CASE UNCHANGED vars
  BY <1>1 DEF vars, recordVars, Grows
<1> SUFFICES ASSUME Next PROVE Grows
  BY <1>1
<1>2. Watched /\ TypeOK /\ CopyIsCurrent
  BY NextIsWatched DEF IInv
<1>3. ASSUME NEW r \in Requests, RequestStep(r) PROVE Grows
  <2>1. CASE WorkerSave(r) \/ WorkerAnswer(r)
    BY <1>2, <2>1, SaveGrows DEF WorkerSave, WorkerAnswer
  <2>2. QED
    BY <1>3, <2>1 DEF RequestStep, WorkerStep, Check, Reject, Register, Disconnect, StreamEnd,
       SaveUploads, WorkerTurn, BeginTurn, Save, WorkerFails, WorkerCancelled, GiveUp,
       CancelDropped, WorkerEnd, Interrupt, InterruptLate, InterruptReturns, recordVars, Grows
<1>4. ASSUME NEW j \in Jobs, JobStep(j) PROVE Grows
  <2>1. j \in Turn \ flagged
    BY <1>2 DEF TypeOK
  <2>2. CASE JobSaves(j) \/ JobEnds(j)
    BY <1>2, <2>1, <2>2, SaveGrows DEF JobSaves, JobEnds, GiveUp, Grows
  <2>3. QED
    BY <1>4, <2>2 DEF JobStep, JobSkipped, JobStarts, BeginTurn, Save, JobBacksOff, GiveUp,
       JobRetries, recordVars, Grows
<1>5. ASSUME NEW m \in Messages, MessageStep(m) PROVE Grows
  <2>1. m \in Turn \ flagged
    BY <1>2 DEF TypeOK
  <2>2. CASE ChannelSaves(m) \/ ChannelEnds(m)
    BY <1>2, <2>1, <2>2, SaveGrows DEF ChannelSaves, ChannelEnds, GiveUp, Grows
  <2>3. QED
    BY <1>5, <2>2 DEF MessageStep, ChannelReceives, ChannelTurn, BeginTurn, Save, recordVars, Grows
<1>6. CASE CompressBegins \/ CompressEnds
  BY <1>2, <1>6 DEF CompressBegins, CompressEnds, CopyIsCurrent, Watched, recordVars, Grows
<1>7. QED
  BY <1>3, <1>4, <1>5, <1>6, NextIsWatched DEF IInv

(* While one at a time works in the session, no save loses what has been   *)
(* recorded before.                                                        *)
THEOREM TranscriptOnlyGrows == Spec => TranscriptGrows
<1>1. IInv /\ [Next]_vars => [~ overlapped' => disk \subseteq disk']_vars
  BY StepGrows DEF Grows
<1>2. QED
  BY <1>1, InvariantHolds, PTL DEF Spec, TranscriptGrows

-----------------------------------------------------------------------------
(* Records, and what is no record.                                         *)
LEMMA RecordFields ==
  ASSUME NEW r \in Record
  PROVE  /\ r.title \in Title /\ r.mode \in Mode /\ r.checklist \in BOOLEAN /\ r.draft \in Draft
         /\ r.question \in 0 .. MaxQuestions /\ r.status \in [Attachment -> Status]
         /\ r # None /\ r # Gone
BY DEF Record, None, Gone, NewRecord, Title

LEMMA NewRecordFields ==
  /\ NewRecord \in Record /\ NewRecord.question = 0
  /\ Gone # NewRecord /\ \A a \in Attachment : NewRecord.status[a] = "none" /\ Gone.status[a] = "none"
BY RecordAssumption DEF NewRecord, Record, Gone, Title, Mode, Draft, Status

LEMMA Retitled ==
  ASSUME NEW r \in Record, NEW title \in Title, NEW n, n = [r EXCEPT !.title = title]
  PROVE  /\ n \in Record /\ n.title = title /\ n.status = r.status /\ n.mode = r.mode
         /\ n.draft = r.draft /\ n.question = r.question
BY DEF Record

LEMMA Moded ==
  ASSUME NEW r \in Record, NEW mode \in Mode, NEW n, n = [r EXCEPT !.mode = mode]
  PROVE  /\ n \in Record /\ n.title = r.title /\ n.status = r.status /\ n.mode = mode
         /\ n.draft = r.draft /\ n.question = r.question
BY DEF Record

LEMMA Drafted ==
  ASSUME NEW r \in Record, NEW draft \in Draft, NEW n, n = [r EXCEPT !.draft = draft]
  PROVE  /\ n \in Record /\ n.title = r.title /\ n.status = r.status /\ n.mode = r.mode
         /\ n.draft = draft /\ n.question = r.question
BY DEF Record

LEMMA Checked ==
  ASSUME NEW r \in Record, NEW n, n = [r EXCEPT !.checklist = TRUE]
  PROVE  /\ n \in Record /\ n.title = r.title /\ n.status = r.status /\ n.mode = r.mode
         /\ n.draft = r.draft /\ n.question = r.question
BY DEF Record

LEMMA Questioned ==
  ASSUME NEW r \in Record, NEW question \in 0 .. MaxQuestions, NEW n, n = [r EXCEPT !.question = question]
  PROVE  /\ n \in Record /\ n.title = r.title /\ n.status = r.status /\ n.mode = r.mode
         /\ n.draft = r.draft /\ n.question = question
BY DEF Record

LEMMA Statused ==
  ASSUME NEW r \in Record, NEW status \in [Attachment -> Status], NEW n, n = [r EXCEPT !.status = status]
  PROVE  /\ n \in Record /\ n.title = r.title /\ n.status = status /\ n.mode = r.mode
         /\ n.draft = r.draft /\ n.question = r.question
BY DEF Record

LEMMA StateInitInv == StateInit => RecordInv
<1> SUFFICES ASSUME StateInit
             PROVE  RecordInv
  OBVIOUS
<1>1. recordFile = NewRecord /\ recordFile # Gone /\ copy = None
  BY NewRecordFields DEF StateInit
<1>2. RecordTypeOK
  <2>1. /\ asked \in 0 .. MaxQuestions /\ answered \in 0 .. asked /\ turnsOfRecord \in Nat
        /\ DOMAIN settled = Field /\ settled["title"] = Open
    BY RecordAssumption DEF StateInit, Field
  <2>2. /\ batchOf \in [Attachment -> Nat]
        /\ read \in [Attachment -> Status] /\ manifest \in [Attachment -> Status]
    BY DEF StateInit, Status
  <2>3. QED
    BY <1>1, <2>1, <2>2, NewRecordFields DEF StateInit, RecordTypeOK, RunPlace
<1>3. RecordsAreFaithful
  BY <1>1, NewRecordFields DEF StateInit, RecordsAreFaithful, HasCopy, Faithful, Current, Field
<1>4. FirmIsWritten /\ ParseKeepsOthers
  BY DEF StateInit, FirmIsWritten, ParseKeepsOthers
<1>5. QED
  BY <1>2, <1>3, <1>4 DEF RecordInv

(* A copy is a record, and so is what is on disk.                          *)
LEMMA Kept ==
  ASSUME RecordInv
  PROVE  /\ HasCopy <=> copy \in Record
         /\ HasCopy <=> copy # None
         /\ recordFile # Gone <=> recordFile \in Record
BY RecordFields DEF RecordInv, RecordTypeOK, RecordsAreFaithful

(* Saving the attachments as a faithful record has them makes none firm.   *)
LEMMA SavesNoMore ==
  ASSUME RecordInv, NEW record, NEW now, Faithful(record), now.status = record.status, Saved(now)
  PROVE  recordFile' = now /\ firm' = firm
BY DEF RecordInv, RecordTypeOK, Faithful, Saved

-----------------------------------------------------------------------------
(* Steps without a copy.                                                   *)
LEMMA SendMessageInv ==
  ASSUME RecordInv, NEW files \in SUBSET Attachment, SendMessage(files)
  PROVE  RecordInv'
<1> USE DEF SendMessage, fileVars
<1>1. RecordTypeOK'
  BY DEF RecordInv, RecordTypeOK, RunPlace
<1>2. RecordsAreFaithful'
  BY DEF RecordInv, RecordsAreFaithful, HasCopy, Faithful, Current
<1>3. FirmIsWritten' /\ ParseKeepsOthers'
  BY DEF RecordInv, RecordTypeOK, FirmIsWritten, ParseKeepsOthers
<1>4. QED
  BY <1>1, <1>2, <1>3 DEF RecordInv

LEMMA RefuseUploadInv ==
  ASSUME RecordInv, RefuseUpload
  PROVE  RecordInv'
<1> USE DEF RefuseUpload, fileVars
<1>1. RecordTypeOK'
  BY DEF RecordInv, RecordTypeOK, RunPlace
<1>2. RecordsAreFaithful'
  BY DEF RecordInv, RecordsAreFaithful, HasCopy, Faithful, Current
<1>3. FirmIsWritten' /\ ParseKeepsOthers'
  BY DEF RecordInv, RecordTypeOK, FirmIsWritten, ParseKeepsOthers
<1>4. QED
  BY <1>1, <1>2, <1>3 DEF RecordInv

(* The uploads are new: nothing that has been parsed is among them.        *)
LEMMA SavesUploadsKeeps ==
  ASSUME RecordInv, runPlace = "uploading", SavesUploads
  PROVE  /\ batchOf' \in [Attachment -> Nat] /\ manifest' \in [Attachment -> Status] /\ output' = output
         /\ \A a \in Attachment : batchOf[a] # 0 \/ a \in uploads => batchOf'[a] # 0
         /\ \A a \in firm : a \notin uploads /\ a \in output /\ manifest'[a] = "parsed" /\ batchOf'[a] # 0
BY DEF RecordInv, RecordTypeOK, FirmIsWritten, SavesUploads, Status

LEMMA NoSessionInv ==
  ASSUME RecordInv, NoSession
  PROVE  RecordInv'
<1>1. /\ batchOf' \in [Attachment -> Nat] /\ manifest' \in [Attachment -> Status] /\ output' = output
      /\ \A a \in firm : a \in output /\ manifest'[a] = "parsed" /\ batchOf'[a] # 0
  BY SavesUploadsKeeps DEF NoSession
<1>2. RecordTypeOK'
  BY <1>1 DEF NoSession, RecordInv, RecordTypeOK, RunPlace
<1>3. RecordsAreFaithful'
  BY DEF NoSession, RecordInv, RecordsAreFaithful, HasCopy
<1>4. FirmIsWritten' /\ ParseKeepsOthers'
  BY <1>1 DEF NoSession, FirmIsWritten, ParseKeepsOthers
<1>5. QED
  BY <1>2, <1>3, <1>4 DEF RecordInv

LEMMA TurnStartsInv ==
  ASSUME RecordInv, TurnStarts
  PROVE  RecordInv'
<1>1. recordFile \in Record /\ Faithful(recordFile) /\ runPlace = "uploading" /\ settled["exists"] = Open
  BY Kept DEF TurnStarts, RecordInv, RecordsAreFaithful
<1>2. /\ batchOf' \in [Attachment -> Nat] /\ manifest' \in [Attachment -> Status] /\ output' = output
      /\ \A a \in Attachment : batchOf[a] # 0 \/ a \in uploads => batchOf'[a] # 0
      /\ \A a \in firm : a \notin uploads /\ a \in output /\ manifest'[a] = "parsed" /\ batchOf'[a] # 0
  BY <1>1, SavesUploadsKeeps DEF TurnStarts
<1>a. PICK now : now = copy'
  OBVIOUS
<1>3. PICK title \in Title :
        /\ now = [recordFile EXCEPT !.title = title, !.status = Received]
        /\ copy' = now /\ Saved(now)
        /\ runPlace' = IF uploads = {} THEN "working" ELSE "registering"
        /\ replying' = Pending(recordFile)
        /\ IF title = recordFile.title THEN UNCHANGED settled ELSE Settle("title", Open)
        /\ recordFile.title # "default" => title = recordFile.title
  BY <1>1, <1>a, RecordFields DEF TurnStarts, AppendMessage, Title
<1>4. Received \in [Attachment -> Status]
      /\ \A a \in Attachment : Received[a] = IF a \in uploads THEN "saved" ELSE recordFile.status[a]
  BY <1>1, RecordFields DEF Received, Status
<1>5. /\ now \in Record /\ now.title = title /\ now.status = Received /\ now.mode = recordFile.mode
      /\ now.draft = recordFile.draft /\ now.question = recordFile.question /\ now # None /\ now # Gone
  <2>1. /\ now \in Record /\ now.title = title /\ now.status = Received /\ now.mode = recordFile.mode
        /\ now.draft = recordFile.draft /\ now.question = recordFile.question
    BY <1>1, <1>3, <1>4 DEF Record
  <2>2. QED
    BY <2>1, RecordFields
<1>6. \A a \in Attachment :
        /\ now.status[a] = "parsed" <=> a \in firm
        /\ now.status[a] # "none" => batchOf'[a] # 0
  BY <1>1, <1>2, <1>4, <1>5 DEF Faithful
<1>7. recordFile' = now /\ firm' = firm
  BY <1>3, <1>6 DEF Saved, RecordInv, RecordTypeOK
<1>8. UNCHANGED <<uploads, target, read, turnsOfRecord, edits, asked, answered>>
  BY DEF TurnStarts
<1>9. /\ DOMAIN settled' = Field /\ settled'["title"] \in {Open, "renamed"}
      /\ settled'["title"] \in {Open, title} /\ settled'["exists"] = Open
      /\ settled'["mode"] = settled["mode"] /\ settled'["draft"] = settled["draft"]
  BY <1>1, <1>3 DEF RecordInv, RecordTypeOK, Settle, Field, Faithful, Title
<1>10. RecordTypeOK'
  BY <1>2, <1>3, <1>5, <1>7, <1>8, <1>9 DEF RecordInv, RecordTypeOK, RunPlace, Pending
<1>11. Faithful(now)'
  BY <1>1, <1>5, <1>6, <1>7, <1>8, <1>9 DEF Faithful, Current
<1>12. RecordsAreFaithful'
  <2>1. Faithful(recordFile)' /\ Faithful(copy)'
    BY <1>3, <1>7, <1>11 DEF Faithful
  <2>2. Pending(copy)' = Pending(recordFile)
    BY <1>3, <1>5 DEF Pending
  <2>3. QED
    BY <1>3, <1>5, <1>9, <2>1, <2>2 DEF RecordsAreFaithful, HasCopy
<1>13. FirmIsWritten' /\ ParseKeepsOthers'
  BY <1>2, <1>3, <1>7 DEF FirmIsWritten, ParseKeepsOthers
<1>14. QED
  BY <1>10, <1>12, <1>13 DEF RecordInv

-----------------------------------------------------------------------------
(* A save of the copy that changes neither the attachments nor, but for a  *)
(* new title in place of none and a mode that a tool sets, what the routes *)
(* have written; the question may be a new one.                            *)
LEMMA SavesInv ==
  ASSUME RecordInv, runPlace \in {"registering", "working", "analysing"},
         NEW now \in Record, now.status = copy.status, now.draft = copy.draft,
         copy' = now, Saved(now),
         UNCHANGED <<uploads, replying, read, fileVars, turnsOfRecord, answered>>,
         target' = target \/ target' = {},
         now.title = copy.title \/ copy.title = "default",
         \/ settled' = settled /\ now.mode = copy.mode
         \/ settled' = [settled EXCEPT !["mode"] = Open],
         \/ now.question = copy.question /\ asked' = asked /\ runPlace' = "working"
         \/ now.question = asked + 1 /\ asked' = asked + 1 /\ asked < MaxQuestions /\ runPlace' = "asked"
  PROVE  RecordInv'
<1> USE DEF fileVars
<1>1. /\ copy \in Record /\ Faithful(copy) /\ settled["exists"] = Open /\ now # None /\ now # Gone
      /\ replying <=> Pending(copy)
  BY Kept, RecordFields DEF RecordInv, RecordsAreFaithful, HasCopy
<1>2. recordFile' = now /\ firm' = firm
  BY <1>1, SavesNoMore
<1>3. /\ asked \in Nat /\ answered \in Nat /\ answered <= asked /\ MaxQuestions \in Nat /\ asked <= MaxQuestions
  BY RecordAssumption DEF RecordInv, RecordTypeOK
<1>4. asked' \in 0 .. MaxQuestions /\ answered' \in 0 .. asked'
  BY <1>3
<1>5. /\ DOMAIN settled' = Field /\ settled'["title"] = settled["title"]
      /\ settled'["title"] \in {Open, "renamed"} /\ settled'["exists"] = Open
      /\ settled'["draft"] = settled["draft"]
      /\ settled'["mode"] = Open \/ (settled'["mode"] = settled["mode"] /\ now.mode = copy.mode)
  BY <1>1 DEF RecordInv, RecordTypeOK, Field
<1>6. RecordTypeOK'
  <2>1. recordFile' \in Record \cup {Gone} /\ copy' \in Record \cup {None}
    BY <1>2
  <2>2. runPlace' \in RunPlace /\ target' \subseteq Attachment
    BY DEF RecordInv, RecordTypeOK, RunPlace
  <2>3. QED
    BY <1>2, <1>4, <1>5, <2>1, <2>2 DEF RecordInv, RecordTypeOK
<1>7. now.question = Current'
  BY <1>1, <1>3 DEF Faithful, Current
<1>8. settled["title"] \in {Open, now.title}
  BY <1>1 DEF Faithful, RecordInv, RecordTypeOK
<1>9. Faithful(now)'
  BY <1>1, <1>2, <1>5, <1>7, <1>8 DEF Faithful
<1>10. RecordsAreFaithful'
  <2>1. Faithful(recordFile)' /\ Faithful(copy)'
    BY <1>2, <1>9 DEF Faithful
  <2>2. runPlace' # "asked" => (replying' <=> Pending(copy)')
    BY <1>1 DEF Pending
  <2>3. QED
    BY <1>1, <1>2, <1>5, <2>1, <2>2 DEF RecordsAreFaithful, HasCopy
<1>11. FirmIsWritten' /\ ParseKeepsOthers'
  BY <1>2 DEF RecordInv, FirmIsWritten, ParseKeepsOthers
<1>12. QED
  BY <1>6, <1>10, <1>11 DEF RecordInv

LEMMA CopyIsRecord ==
  ASSUME RecordInv, runPlace \notin {"idle", "uploading"}
  PROVE  copy \in Record /\ Faithful(copy) /\ copy # None
BY Kept DEF RecordInv, RecordsAreFaithful, HasCopy

LEMMA RegisteredInv ==
  ASSUME RecordInv, Registered
  PROVE  RecordInv'
<1>1. PICK now : now = copy'
  OBVIOUS
<1>2. copy \in Record
  BY CopyIsRecord DEF Registered
<1>3. Saved(now) /\ (now = copy \/ (copy.title = "default" /\ now = [copy EXCEPT !.title = "first"]))
  BY <1>1 DEF Registered
<1>4. /\ now \in Record /\ now.status = copy.status /\ now.mode = copy.mode /\ now.draft = copy.draft
      /\ now.question = copy.question /\ (now.title = copy.title \/ copy.title = "default")
  BY <1>2, <1>3, Retitled DEF Title
<1>5. QED
  BY <1>1, <1>3, <1>4, SavesInv DEF Registered

LEMMA WorkingInv ==
  ASSUME RecordInv, SaveProgress \/ EnterPlanMode \/ UpdatePlan \/ Ask \/ (AnalysisTimesOut /\ TurnSaves(copy))
  PROVE  RecordInv'
<1>1. PICK now : now = copy'
  OBVIOUS
<1>2. copy \in Record /\ runPlace \in {"working", "analysing"} /\ asked \in 0 .. MaxQuestions
  BY CopyIsRecord DEF RecordInv, RecordTypeOK, SaveProgress, EnterPlanMode, UpdatePlan, Ask,
                      AnalysisTimesOut
<1>3. Saved(now) /\ UNCHANGED <<uploads, replying, read, fileVars, turnsOfRecord>>
  BY <1>1 DEF SaveProgress, EnterPlanMode, UpdatePlan, Ask, TurnSaves
<1>4. CASE SaveProgress \/ (AnalysisTimesOut /\ TurnSaves(copy))
  <2>1. now = copy /\ settled' = settled /\ asked' = asked /\ answered' = answered
        /\ runPlace' = "working" /\ (target' = target \/ target' = {})
    BY <1>1, <1>2, <1>4 DEF SaveProgress, AnalysisTimesOut, TurnSaves
  <2>2. QED
    BY <1>1, <1>2, <1>3, <2>1, SavesInv
<1>5. CASE EnterPlanMode
  <2>1. /\ now = [copy EXCEPT !.mode = "plan"] /\ settled' = [settled EXCEPT !["mode"] = Open]
        /\ asked' = asked /\ answered' = answered /\ runPlace' = "working" /\ target' = target
    BY <1>1, <1>5 DEF EnterPlanMode, TurnSaves, Settle
  <2>2. /\ now \in Record /\ now.status = copy.status /\ now.draft = copy.draft
        /\ now.question = copy.question /\ now.title = copy.title
    BY <1>2, <2>1, Moded DEF Mode
  <2>3. QED
    BY <1>1, <1>2, <1>3, <2>1, <2>2, SavesInv
<1>6. CASE UpdatePlan
  <2>1. /\ now = [copy EXCEPT !.checklist = TRUE] /\ settled' = settled
        /\ asked' = asked /\ answered' = answered /\ runPlace' = "working" /\ target' = target
    BY <1>1, <1>6 DEF UpdatePlan, TurnSaves
  <2>2. /\ now \in Record /\ now.status = copy.status /\ now.draft = copy.draft /\ now.mode = copy.mode
        /\ now.question = copy.question /\ now.title = copy.title
    BY <1>2, <2>1, Checked
  <2>3. QED
    BY <1>1, <1>2, <1>3, <2>1, <2>2, SavesInv
<1>7. CASE Ask
  <2>1. /\ now = [copy EXCEPT !.question = asked + 1] /\ settled' = settled
        /\ asked' = asked + 1 /\ asked < MaxQuestions /\ answered' = answered
        /\ runPlace' = "asked" /\ target' = target
    BY <1>1, <1>7 DEF Ask, TurnSaves, AwaitingUserInput
  <2>2. asked + 1 \in 0 .. MaxQuestions
    BY <1>2, <2>1, RecordAssumption
  <2>3. /\ now \in Record /\ now.status = copy.status /\ now.draft = copy.draft /\ now.mode = copy.mode
        /\ now.question = asked + 1 /\ now.title = copy.title
    BY <1>2, <2>1, <2>2, Questioned
  <2>4. QED
    BY <1>1, <1>2, <1>3, <2>1, <2>3, SavesInv
<1>8. QED
  BY <1>4, <1>5, <1>6, <1>7

-----------------------------------------------------------------------------
(* The parser reads the record on disk, waits, and writes what it read.    *)
LEMMA PlaceChanges ==
  ASSUME RecordInv, HasCopy, runPlace' \in RunPlace \ {"idle", "uploading", "asked"}, runPlace # "asked",
         UNCHANGED <<recordFile, copy, uploads, replying, batchOf, turnsOfRecord, edits, asked, answered, settled, firm>>,
         target' \subseteq Attachment, read' \in [Attachment -> Status],
         manifest' \in [Attachment -> Status], output \subseteq output', output' \subseteq Attachment,
         \A a \in firm : manifest'[a] = "parsed",
         ParseKeepsOthers'
  PROVE  RecordInv'
<1>1. RecordTypeOK'
  BY DEF RecordInv, RecordTypeOK
<1>2. RecordsAreFaithful'
  BY DEF RecordInv, RecordsAreFaithful, HasCopy, Faithful, Current, Pending
<1>3. FirmIsWritten'
  BY DEF RecordInv, FirmIsWritten, RunPlace
<1>4. QED
  BY <1>1, <1>2, <1>3 DEF RecordInv

(* A parsed file is written; what was restored of the others goes with it. *)
LEMMA ParsedInv ==
  ASSUME RecordInv, HasCopy, runPlace # "asked",
         UNCHANGED <<recordFile, copy, uploads, replying, batchOf, turnsOfRecord, edits, asked, answered, settled, firm>>,
         NEW a \in Attachment, target' = {a}, batchOf[a] # 0,
         NEW before \in [Attachment -> Status], NEW status \in {"parsed", "failed"},
         Parsed(a, before, status), a \in firm => status = "parsed",
         \A b \in Attachment : batchOf[b] = batchOf[a] =>
           /\ b \in firm => before[b] = "parsed"
           /\ b # a /\ before[b] = "parsed" => b \in output
  PROVE  RecordInv'
<1>1. read' = [before EXCEPT ![a] = status] /\ runPlace' = "returned"
      /\ manifest' = [b \in Attachment |-> IF batchOf[b] = batchOf[a] THEN read'[b] ELSE manifest[b]]
      /\ output' = IF status = "parsed" THEN output \cup {a} ELSE output
  BY DEF Parsed
<1>2. read' \in [Attachment -> Status]
      /\ \A b \in Attachment : read'[b] = IF b = a THEN status ELSE before[b]
  BY <1>1 DEF Status
<1>3. manifest' \in [Attachment -> Status]
  BY <1>1, <1>2 DEF RecordInv, RecordTypeOK
<1>4. output \subseteq output' /\ output' \subseteq Attachment
  BY <1>1 DEF RecordInv, RecordTypeOK
<1>5. \A b \in firm : manifest'[b] = "parsed"
  BY <1>1, <1>2 DEF RecordInv, RecordTypeOK, FirmIsWritten
<1>6. ParseKeepsOthers'
  <2>1. \A b \in Attachment : batchOf'[b] = batchOf'[a] =>
          /\ b \in firm' => read'[b] = "parsed"
          /\ read'[b] = "parsed" => b \in output' /\ manifest'[b] = "parsed"
    BY <1>1, <1>2
  <2>2. QED
    BY <1>1, <2>1 DEF ParseKeepsOthers
<1>7. runPlace' \in RunPlace \ {"idle", "uploading", "asked"} /\ target' \subseteq Attachment
  BY <1>1 DEF RunPlace
<1>8. QED
  BY <1>2, <1>3, <1>4, <1>5, <1>6, <1>7, PlaceChanges

LEMMA ParseInv ==
  ASSUME RecordInv, NEW a \in Attachment, Parse(a)
  PROVE  RecordInv'
<1>1. recordFile \in Record /\ Faithful(recordFile) /\ recordFile.status[a] # "none"
  BY Kept DEF Parse, Resolves, RecordInv, RecordsAreFaithful
<1>2. HasCopy /\ runPlace = "working" /\ target' = {a} /\ batchOf[a] # 0
      /\ UNCHANGED <<recordFile, copy, uploads, replying, batchOf, turnsOfRecord, edits, asked, answered, settled, firm>>
  BY <1>1 DEF Parse, HasCopy, Faithful
<1>3. PICK before : before = Restored(a)
  OBVIOUS
<1>4. before \in [Attachment -> Status]
      /\ \A b \in Attachment : batchOf[b] = batchOf[a] => before[b] = recordFile.status[b]
  BY <1>1, <1>3, RecordFields DEF Restored, Status
<1>5. \A b \in Attachment : batchOf[b] = batchOf[a] =>
        /\ before[b] = "parsed" <=> b \in firm
        /\ before[b] = "parsed" => b \in output /\ manifest[b] = "parsed"
  BY <1>1, <1>4 DEF Faithful, RecordInv, FirmIsWritten
<1>6. recordFile.status[a] = "parsed" <=> a \in firm
  BY <1>1 DEF Faithful
<1>7. CASE \E status \in {"parsed", "failed"} :
             Parsed(a, before, status) /\ (recordFile.status[a] = "parsed" => status = "parsed")
  BY <1>2, <1>4, <1>5, <1>6, <1>7, ParsedInv
<1>8. CASE /\ recordFile.status[a] # "parsed" /\ runPlace' = "analysing" /\ read' = before
           /\ UNCHANGED <<manifest, output>>
  <2>1. ParseKeepsOthers'
    <3>1. \A b \in Attachment : batchOf'[b] = batchOf'[a] =>
            /\ b \in firm' => read'[b] = "parsed"
            /\ read'[b] = "parsed" => b \in output' /\ manifest'[b] = "parsed"
      BY <1>2, <1>5, <1>8
    <3>2. QED
      BY <1>2, <1>6, <1>8, <3>1 DEF ParseKeepsOthers
  <2>2. /\ manifest' \in [Attachment -> Status] /\ output \subseteq output' /\ output' \subseteq Attachment
        /\ \A b \in firm : manifest'[b] = "parsed"
    BY <1>8 DEF RecordInv, RecordTypeOK, FirmIsWritten
  <2>3. runPlace' \in RunPlace \ {"idle", "uploading", "asked"} /\ read' \in [Attachment -> Status]
    BY <1>4, <1>8 DEF RunPlace
  <2>4. QED
    BY <1>2, <2>1, <2>2, <2>3, PlaceChanges
<1>9. QED
  BY <1>3, <1>7, <1>8 DEF Parse, FileOutcome

LEMMA AnalysedInv ==
  ASSUME RecordInv, Analysed
  PROVE  RecordInv'
<1>1. PICK a \in Attachment :
        /\ target = {a} /\ batchOf[a] # 0 /\ a \notin firm
        /\ \A b \in Attachment : batchOf[b] = batchOf[a] =>
             /\ b \in firm => read[b] = "parsed"
             /\ read[b] = "parsed" => b \in output /\ manifest[b] = "parsed"
  BY DEF Analysed, RecordInv, ParseKeepsOthers
<1>2. PICK status \in {"parsed", "failed"} : Parsed(a, read, status)
  BY <1>1 DEF Analysed, ImageOutcome
<1>3. PICK before : before = read
  OBVIOUS
<1>4. QED
  BY <1>1, <1>2, <1>3, ParsedInv DEF Analysed, HasCopy, RecordInv, RecordTypeOK

LEMMA AnalysisTimesOutInv ==
  ASSUME RecordInv, AnalysisTimesOut
  PROVE  RecordInv'
<1>1. CASE TurnSaves(copy)
  BY <1>1, WorkingInv
<1>2. CASE UNCHANGED <<recordFile, copy, uploads, replying, read, fileVars, turnsOfRecord, edits, firm>>
  <2>1. /\ runPlace' \in RunPlace \ {"idle", "uploading", "asked"} /\ runPlace # "asked"
        /\ target' \subseteq Attachment /\ HasCopy /\ ParseKeepsOthers'
    BY <1>2 DEF AnalysisTimesOut, RunPlace, HasCopy, ParseKeepsOthers
  <2>2. /\ read' \in [Attachment -> Status] /\ manifest' \in [Attachment -> Status]
        /\ output \subseteq output' /\ output' \subseteq Attachment
        /\ \A b \in firm : manifest'[b] = "parsed"
    BY <1>2 DEF fileVars, RecordInv, RecordTypeOK, FirmIsWritten
  <2>3. QED
    BY <1>2, <2>1, <2>2, PlaceChanges DEF AnalysisTimesOut, fileVars
<1>3. QED
  BY <1>1, <1>2 DEF AnalysisTimesOut

(* What the tool returns is the record's again: what it restored of the    *)
(* others is what the record says, and the file is in its place.           *)
LEMMA ParseSavedInv ==
  ASSUME RecordInv, ParseSaved
  PROVE  RecordInv'
<1>1. PICK a \in Attachment :
        /\ target = {a} /\ batchOf[a] # 0
        /\ \A b \in Attachment : batchOf[b] = batchOf[a] =>
             /\ b \in firm => read[b] = "parsed"
             /\ read[b] = "parsed" => b \in output /\ manifest[b] = "parsed"
  BY DEF ParseSaved, RecordInv, ParseKeepsOthers
<1>2. copy \in Record /\ Faithful(copy) /\ settled["exists"] = Open /\ (replying <=> Pending(copy))
  BY CopyIsRecord, RecordFields DEF ParseSaved, RecordInv, RecordsAreFaithful, HasCopy
<1>3. PICK now : now = copy'
  OBVIOUS
<1>4. /\ now = [copy EXCEPT !.status = Updated] /\ Saved(now)
      /\ UNCHANGED <<uploads, replying, read, fileVars, turnsOfRecord, edits, asked, answered, settled>>
      /\ runPlace' = "working" /\ target' = {}
  BY <1>3 DEF ParseSaved, TurnSaves
<1>5. Updated \in [Attachment -> Status]
      /\ \A b \in Attachment : Updated[b] = IF batchOf[b] = batchOf[a] THEN read[b] ELSE copy.status[b]
  BY <1>1, <1>2, RecordFields DEF RecordInv, RecordTypeOK, Updated
<1>6. /\ now \in Record /\ now.title = copy.title /\ now.status = Updated /\ now.mode = copy.mode
      /\ now.draft = copy.draft /\ now.question = copy.question
  BY <1>2, <1>4, <1>5, Statused
<1>7. now # None /\ now # Gone
  BY <1>6, RecordFields
<1>8. recordFile' = now /\ firm' = firm \cup {b \in Attachment : Updated[b] = "parsed"}
  BY <1>4, <1>6 DEF Saved
<1>9. \A b \in Attachment :
        /\ Updated[b] = "parsed" <=> b \in firm'
        /\ Updated[b] # "none" => batchOf[b] # 0
        /\ b \in firm' => b \in output /\ manifest[b] = "parsed" /\ batchOf[b] # 0
  BY <1>1, <1>2, <1>5, <1>8 DEF Faithful, RecordInv, FirmIsWritten
<1>10. Faithful(recordFile)' /\ Faithful(copy)'
  BY <1>2, <1>3, <1>4, <1>6, <1>8, <1>9 DEF Faithful, Current, fileVars
<1>11. RecordTypeOK'
  <2>1. /\ recordFile' \in Record \cup {Gone} /\ copy' \in Record \cup {None} /\ runPlace' \in RunPlace
        /\ firm' \subseteq Attachment
    BY <1>3, <1>4, <1>6, <1>8 DEF RunPlace, RecordInv, RecordTypeOK
  <2>2. QED
    BY <1>4, <2>1 DEF RecordInv, RecordTypeOK, fileVars
<1>12. RecordsAreFaithful'
  BY <1>2, <1>3, <1>4, <1>6, <1>7, <1>10 DEF RecordsAreFaithful, HasCopy, Pending
<1>13. FirmIsWritten' /\ ParseKeepsOthers'
  <2>1. firm' \subseteq Attachment
    BY <1>8 DEF RecordInv, RecordTypeOK
  <2>2. QED
    BY <1>4, <1>9, <2>1 DEF FirmIsWritten, ParseKeepsOthers, fileVars
<1>14. QED
  BY <1>11, <1>12, <1>13 DEF RecordInv

-----------------------------------------------------------------------------
(* A turn ends: with a save of the copy, or with the record as it is.      *)
LEMMA LeavesInv ==
  ASSUME RecordInv, Leaves, recordFile' \in Record \cup {Gone}, firm' = firm,
         answered' \in 0 .. asked,
         recordFile' # Gone => Faithful(recordFile)', settled["exists"] # Open => recordFile' = Gone
  PROVE  RecordInv'
<1> USE DEF Leaves, fileVars
<1>1. RecordTypeOK'
  <2>1. copy' \in Record \cup {None} /\ runPlace' \in RunPlace
        /\ read' \in [Attachment -> Status]
    BY DEF RunPlace, Status
  <2>2. QED
    BY <2>1 DEF RecordInv, RecordTypeOK
<1>2. RecordsAreFaithful'
  BY DEF RecordsAreFaithful, HasCopy
<1>3. FirmIsWritten' /\ ParseKeepsOthers'
  BY DEF RecordInv, FirmIsWritten, ParseKeepsOthers
<1>4. QED
  BY <1>1, <1>2, <1>3 DEF RecordInv

LEMMA FinishAskedInv ==
  ASSUME RecordInv, FinishAsked
  PROVE  RecordInv'
<1>1. copy \in Record /\ Faithful(copy) /\ settled["exists"] = Open
  BY CopyIsRecord DEF FinishAsked, RecordInv, RecordsAreFaithful
<1>2. recordFile' = copy /\ firm' = firm
  BY <1>1, SavesNoMore DEF FinishAsked
<1>3. UNCHANGED <<fileVars, asked, answered, settled>>
  BY DEF FinishAsked, Leaves
<1>4. Faithful(recordFile)'
  BY <1>1, <1>2, <1>3 DEF Faithful, Current, fileVars
<1>5. QED
  BY <1>1, <1>2, <1>3, <1>4, LeavesInv DEF FinishAsked, RecordInv, RecordTypeOK

LEMMA FinishInv ==
  ASSUME RecordInv, Finish
  PROVE  RecordInv'
<1>1. copy \in Record /\ Faithful(copy) /\ settled["exists"] = Open /\ (replying <=> Pending(copy))
  BY CopyIsRecord DEF Finish, RecordInv, RecordsAreFaithful, HasCopy
<1>2. PICK now : now = IF replying THEN [copy EXCEPT !.question = 0] ELSE copy
  OBVIOUS
<1>3. 0 \in 0 .. MaxQuestions
  BY RecordAssumption
<1>4. /\ now \in Record /\ now.title = copy.title /\ now.status = copy.status /\ now.mode = copy.mode
      /\ now.draft = copy.draft /\ now.question = 0
  BY <1>1, <1>2, <1>3, Questioned DEF Pending
<1>5. Saved(now) /\ UNCHANGED <<fileVars, asked, settled>>
  BY <1>2 DEF Finish, Leaves
<1>6. recordFile' = now /\ firm' = firm
  BY <1>1, <1>4, <1>5, SavesNoMore
<1>7. /\ answered' = IF replying THEN copy.question ELSE answered
      /\ asked \in Nat /\ answered \in 0 .. asked
  BY DEF Finish, RecordInv, RecordTypeOK
<1>8. answered' = asked
  BY <1>1, <1>7 DEF Faithful, Current, Pending
<1>9. Faithful(recordFile)'
  BY <1>1, <1>4, <1>5, <1>6, <1>8 DEF Faithful, Current, fileVars
<1>10. answered' \in 0 .. asked
  BY <1>7, <1>8
<1>11. QED
  BY <1>1, <1>4, <1>6, <1>9, <1>10, LeavesInv DEF Finish

LEMMA BreakOffInv ==
  ASSUME RecordInv, BreakOff
  PROVE  RecordInv'
<1>1. UNCHANGED <<fileVars, asked, answered, settled, recordFile, firm>>
  BY DEF BreakOff, Leaves
<1>2. recordFile' # Gone => Faithful(recordFile)'
  BY <1>1 DEF RecordInv, RecordsAreFaithful, Faithful, Current, fileVars
<1>3. QED
  BY <1>1, <1>2, LeavesInv DEF BreakOff, RecordInv, RecordTypeOK, RecordsAreFaithful

-----------------------------------------------------------------------------
(* The routes.                                                             *)
LEMMA EditInv ==
  ASSUME RecordInv, NEW field \in {"title", "mode", "draft"}, NEW value, NEW now \in Record,
         Edit(field, value, now), now.question = recordFile.question, now.status = recordFile.status,
         IF field = "title" THEN now.title = value /\ value = "renamed" ELSE now.title = recordFile.title,
         now.mode = IF field = "mode" THEN value ELSE recordFile.mode,
         now.draft = IF field = "draft" THEN value ELSE recordFile.draft
  PROVE  RecordInv'
<1> USE DEF Edit
<1>1. Faithful(recordFile) /\ settled["exists"] = Open /\ now # Gone
  BY RecordFields DEF RecordInv, RecordsAreFaithful
<1>2. recordFile' = now /\ firm' = firm
  BY <1>1, SavesNoMore
<1>3. UNCHANGED <<runVars, fileVars, turnsOfRecord, asked, answered>>
  BY DEF Edit
<1>4. settled' = [settled EXCEPT ![field] = IF copy = None THEN value ELSE Open]
  BY DEF Settle
<1>5. /\ DOMAIN settled = Field /\ field \in Field /\ settled["title"] \in {Open, "renamed"}
      /\ {"title", "mode", "draft", "exists"} = Field
  BY DEF RecordInv, RecordTypeOK, Field
<1>6. /\ DOMAIN settled' = Field /\ settled'["exists"] = Open
      /\ settled'[field] = IF copy = None THEN value ELSE Open
      /\ \A other \in Field \ {field} : settled'[other] = settled[other]
  BY <1>1, <1>4, <1>5
<1>7. settled'["title"] \in {Open, "renamed"}
  BY <1>5, <1>6
<1>8. RecordTypeOK'
  BY <1>2, <1>3, <1>6, <1>7 DEF RecordInv, RecordTypeOK, runVars, fileVars
<1>9. Faithful(now)'
  <2>1. /\ settled'["title"] \in {Open, now.title} /\ settled'["mode"] \in {Open, now.mode}
        /\ settled'["draft"] \in {Open, now.draft}
    BY <1>1, <1>5, <1>6 DEF Faithful
  <2>2. QED
    BY <1>1, <1>2, <1>3, <2>1 DEF Faithful, Current, fileVars
<1>10. copy # None => Faithful(copy)'
  <2>1. ASSUME copy # None
        PROVE  /\ Faithful(copy) /\ settled'["title"] \in {Open, copy.title}
               /\ settled'["mode"] \in {Open, copy.mode} /\ settled'["draft"] \in {Open, copy.draft}
    BY <1>5, <1>6, <2>1 DEF Faithful, RecordInv, RecordsAreFaithful
  <2>2. QED
    BY <1>2, <1>3, <2>1 DEF Faithful, Current, fileVars, runVars
<1>11. RecordsAreFaithful'
  <2>1. Faithful(recordFile)'
    BY <1>2, <1>9 DEF Faithful
  <2>2. QED
    BY <1>3, <1>6, <1>10, <2>1 DEF RecordInv, RecordsAreFaithful, HasCopy, Pending, runVars
<1>12. FirmIsWritten' /\ ParseKeepsOthers'
  BY <1>2, <1>3 DEF RecordInv, FirmIsWritten, ParseKeepsOthers, runVars, fileVars
<1>13. QED
  BY <1>8, <1>11, <1>12 DEF RecordInv

LEMMA RoutesInv ==
  ASSUME RecordInv, Rename \/ SetMode \/ SetDraft
  PROVE  RecordInv'
<1>1. recordFile \in Record
  BY Kept DEF Rename, SetMode, SetDraft, Edit
<1>2. CASE Rename
  <2>1. PICK now : now = [recordFile EXCEPT !.title = "renamed"]
    OBVIOUS
  <2>2. /\ now \in Record /\ now.title = "renamed" /\ now.status = recordFile.status /\ now.mode = recordFile.mode
        /\ now.draft = recordFile.draft /\ now.question = recordFile.question
    BY <1>1, <2>1, Retitled DEF Title
  <2>3. Edit("title", "renamed", now)
    BY <1>2, <2>1 DEF Rename
  <2>4. QED
    BY <2>2, <2>3, EditInv
<1>3. CASE SetMode
  <2>1. PICK mode \in Mode : Edit("mode", mode, [recordFile EXCEPT !.mode = mode])
    BY <1>3 DEF SetMode
  <2>2. PICK now : now = [recordFile EXCEPT !.mode = mode]
    OBVIOUS
  <2>3. /\ now \in Record /\ now.title = recordFile.title /\ now.status = recordFile.status /\ now.mode = mode
        /\ now.draft = recordFile.draft /\ now.question = recordFile.question
    BY <1>1, <2>2, Moded
  <2>4. QED
    BY <2>1, <2>2, <2>3, EditInv
<1>4. CASE SetDraft
  <2>1. PICK draft \in Draft : Edit("draft", draft, [recordFile EXCEPT !.draft = draft])
    BY <1>4 DEF SetDraft
  <2>2. PICK now : now = [recordFile EXCEPT !.draft = draft]
    OBVIOUS
  <2>3. /\ now \in Record /\ now.title = recordFile.title /\ now.status = recordFile.status /\ now.mode = recordFile.mode
        /\ now.draft = draft /\ now.question = recordFile.question
    BY <1>1, <2>2, Drafted
  <2>4. QED
    BY <2>1, <2>2, <2>3, EditInv
<1>5. QED
  BY <1>2, <1>3, <1>4

LEMMA DeleteInv ==
  ASSUME RecordInv, Delete
  PROVE  RecordInv'
<1> USE DEF Delete, Edit
<1>1. settled["exists"] = Open /\ DOMAIN settled = Field
  BY DEF RecordInv, RecordsAreFaithful, RecordTypeOK
<1>2. recordFile' = Gone /\ firm' = firm
  BY NewRecordFields DEF Saved
<1>3. UNCHANGED <<runVars, fileVars, turnsOfRecord, asked, answered>>
  OBVIOUS
<1>4. /\ DOMAIN settled' = Field /\ (copy # None => settled'["exists"] = Open)
      /\ settled'["title"] = settled["title"] /\ settled'["mode"] = settled["mode"]
      /\ settled'["draft"] = settled["draft"]
  BY <1>1 DEF Settle, Field
<1>5. RecordTypeOK'
  BY <1>2, <1>3, <1>4 DEF RecordInv, RecordTypeOK, runVars, fileVars
<1>6. RecordsAreFaithful'
  BY <1>2, <1>3, <1>4 DEF RecordInv, RecordsAreFaithful, Faithful, Current, HasCopy, Pending, runVars, fileVars
<1>7. FirmIsWritten' /\ ParseKeepsOthers'
  BY <1>2, <1>3 DEF RecordInv, FirmIsWritten, ParseKeepsOthers, runVars, fileVars
<1>8. QED
  BY <1>5, <1>6, <1>7 DEF RecordInv

-----------------------------------------------------------------------------
LEMMA StateStep == RecordInv /\ [StateNext]_stateVars => RecordInv'
<1> SUFFICES ASSUME RecordInv, [StateNext]_stateVars
             PROVE  RecordInv'
  OBVIOUS
<1>1. CASE UNCHANGED stateVars
  BY <1>1 DEF stateVars, runVars, fileVars, RecordInv, RecordTypeOK, RecordsAreFaithful, HasCopy, Faithful,
              Current, Pending, FirmIsWritten, ParseKeepsOthers
<1>2. ASSUME NEW files \in SUBSET Attachment, SendMessage(files)
      PROVE  RecordInv'
  BY <1>2, SendMessageInv
<1>3. CASE RefuseUpload \/ TurnStarts \/ NoSession \/ Registered
  BY <1>3, RefuseUploadInv, TurnStartsInv, NoSessionInv, RegisteredInv
<1>4. CASE SaveProgress \/ EnterPlanMode \/ UpdatePlan \/ Ask
  BY <1>4, WorkingInv
<1>5. ASSUME NEW a \in Attachment, Parse(a)
      PROVE  RecordInv'
  BY <1>5, ParseInv
<1>6. CASE Analysed \/ AnalysisTimesOut \/ ParseSaved
  BY <1>6, AnalysedInv, AnalysisTimesOutInv, ParseSavedInv
<1>7. CASE FinishAsked \/ Finish \/ BreakOff
  BY <1>7, FinishAskedInv, FinishInv, BreakOffInv
<1>8. CASE Rename \/ SetMode \/ SetDraft \/ Delete
  BY <1>8, RoutesInv, DeleteInv
<1>9. QED
  BY <1>1, <1>2, <1>3, <1>4, <1>5, <1>6, <1>7, <1>8 DEF StateNext

(* The inductive invariant of a session's record, its turns and routes.    *)
THEOREM RecordInvariance == StateSpec => []RecordInv
BY StateInitInv, StateStep, PTL DEF StateSpec

(* Between turns the pending question of the record is the last one asked, *)
(* unless a turn that replied to it came to its regular end.               *)
THEOREM QuestionStaysCurrent == StateSpec => []QuestionIsCurrent
<1>1. RecordInv => QuestionIsCurrent
  BY DEF RecordInv, RecordsAreFaithful, Faithful, Current, QuestionIsCurrent
<1>2. QED
  BY <1>1, RecordInvariance, PTL

(* What the user set between turns stays through the turns that follow,    *)
(* and a parsed attachment stays parsed, with its file and its manifest.   *)
THEOREM MetadataStays == StateSpec => []MetadataIsKept
<1>1. RecordInv => MetadataIsKept
  BY DEF RecordInv, RecordTypeOK, RecordsAreFaithful, Faithful, FirmIsWritten, MetadataIsKept, EditsStick,
         ParsedIsKept
<1>2. QED
  BY <1>1, RecordInvariance, PTL

-----------------------------------------------------------------------------
(* Streaming.  What the nested functions keep of an attempt's state.       *)
LEMMA AppendPiece ==
  ASSUME NEW c \in Seq(Piece), NEW p \in Piece
  PROVE  /\ Append(c, p) \in Seq(Piece) /\ Append(c, p) # << >>
         /\ Range(Append(c, p)) = Range(c) \cup {p}
         /\ Blank(Append(c, p)) <=> Blank(c) /\ p[2] = "blank"
<1>1. Append(c, p) \in Seq(Piece) /\ Append(c, p) # << >>
  BY AppendProperties
<1>2. Range(Append(c, p)) = Range(c) \cup {p}
  <2>1. DOMAIN Append(c, p) = 1 .. Len(c) + 1 /\ DOMAIN c = 1 .. Len(c) /\ Len(c) \in Nat
    BY AppendProperties
  <2>2. Append(c, p)[Len(c) + 1] = p /\ \A i \in 1 .. Len(c) : Append(c, p)[i] = c[i]
    BY AppendProperties
  <2> QED  BY <2>1, <2>2 DEF Range
<1> QED  BY <1>1, <1>2 DEF Blank

(* The two sides of an attempt's state: what becomes the answer, and what  *)
(* is told beside it.                                                      *)
SameAnswer(s, t) ==
  /\ IsStream(t)
  /\ t.content = s.content /\ t.deferred = s.deferred /\ t.answer = s.answer
  /\ t.answerVisible = s.answerVisible /\ t.calls = s.calls /\ t.invalid = s.invalid

SameCommentary(s, t) ==
  /\ IsStream(t)
  /\ t.commentary = s.commentary /\ t.pending = s.pending /\ t.tag = s.tag /\ t.brief = s.brief
  /\ t.announced = s.announced /\ t.commentaryVisible = s.commentaryVisible

(* Before it is flushed.                                                   *)
Tellable(s) ==
  (s.commentary # << >> /\ s.tag = "none") =>
    s.pending \/ (s.commentaryVisible /\ s.announced = s.commentary)

LEMMA FlushTells ==
  ASSUME NEW s, IsStream(s), NEW force \in BOOLEAN
  PROVE  /\ SameAnswer(s, FlushCommentary(s, force))
         /\ Tellable(s) => Told(FlushCommentary(s, force))
         /\ FlushCommentary(s, force).tag = s.tag
BY DEF FlushCommentary, SameAnswer, IsStream, Tellable, Told, NewStream

LEMMA ToldIsTellable ==
  ASSUME NEW s, Told(s)
  PROVE  Tellable(s)
BY DEF Told, Tellable

LEMMA CommentaryTells ==
  ASSUME NEW s, IsStream(s), NEW p
  PROVE  /\ SameAnswer(s, CommentaryText(s, p)) /\ Told(CommentaryText(s, p))
         /\ SameAnswer(s, CommentaryComplete(s)) /\ Told(CommentaryComplete(s))
<1>1. /\ SameAnswer(s, CommentaryText(s, p)) /\ Told(CommentaryText(s, p))
  <2> DEFINE t == [s EXCEPT !.tag = "commentary", !.commentary = Append(@, p)]
  <2>1. IsStream(t) /\ SameAnswer(s, t) /\ Tellable(t)
    BY DEF IsStream, SameAnswer, Tellable, NewStream
  <2> QED  BY <2>1, FlushTells DEF CommentaryText, SameAnswer
<1>2. /\ SameAnswer(s, CommentaryComplete(s)) /\ Told(CommentaryComplete(s))
  <2> DEFINE t == [s EXCEPT !.tag = "none", !.pending = TRUE]
  <2>1. IsStream(t) /\ SameAnswer(s, t) /\ Tellable(t)
    BY DEF IsStream, SameAnswer, Tellable, NewStream
  <2> QED  BY <2>1, FlushTells DEF CommentaryComplete, SameAnswer
<1> QED  BY <1>1, <1>2

(* What an attempt keeps while its response arrives.                       *)
Sound(s) == IsStream(s) /\ OfThisAttempt(s) /\ HeldBack(s) /\ Told(s)

LEMMA SoundBySides ==
  ASSUME NEW s, Sound(s), NEW t, SameAnswer(s, t), Told(t)
  PROVE  Sound(t)
BY DEF Sound, SameAnswer, OfThisAttempt, HeldBack

LEMMA AnswerTextKeeps ==
  ASSUME NEW s, Sound(s), NEW p \in Piece, p[1] = streamAttempt
  PROVE  Sound(AnswerText(s, p))
<1> DEFINE c == Append(s.content, p)
           t == [s EXCEPT !.content = Append(@, p)]
           d == [t EXCEPT !.deferred = Append(@, p)]
           v == AnswerDelta(t)
<1>1. /\ IsStream(s) /\ s.content \in Seq(Piece) /\ s.deferred \in Seq(Piece)
  BY DEF Sound, IsStream
<1>2. /\ c \in Seq(Piece) /\ Range(c) = Range(s.content) \cup {p} /\ c # << >>
      /\ Blank(c) <=> Blank(s.content) /\ p[2] = "blank"
      /\ Append(s.deferred, p) \in Seq(Piece)
      /\ Range(Append(s.deferred, p)) = Range(s.deferred) \cup {p}
  BY <1>1, AppendPiece
<1>3. /\ IsStream(t) /\ t.content = c /\ t.deferred = s.deferred /\ t.answer = s.answer
      /\ t.answerVisible = s.answerVisible /\ t.calls = s.calls /\ SameCommentary(s, t)
  BY <1>1, <1>2 DEF IsStream, SameCommentary, NewStream
<1>4. /\ IsStream(d) /\ d.content = c /\ d.deferred = Append(s.deferred, p) /\ d.answer = s.answer
      /\ d.answerVisible = s.answerVisible /\ d.calls = s.calls /\ SameCommentary(s, d)
  BY <1>1, <1>2, <1>3 DEF IsStream, SameCommentary, NewStream
<1>5. /\ IsStream(v) /\ v.content = c /\ v.deferred = s.deferred /\ v.answer = c
      /\ v.answerVisible = TRUE /\ v.calls = s.calls /\ SameCommentary(s, v)
  BY <1>1, <1>2, <1>3 DEF IsStream, SameCommentary, NewStream, AnswerDelta
<1>6. Told(t) /\ Told(d) /\ Told(v)
  BY <1>3, <1>4, <1>5 DEF Told, Sound, SameCommentary
<1>7. OfThisAttempt(t) /\ OfThisAttempt(d) /\ OfThisAttempt(v)
  <2> HIDE DEF t, d, v, c
  <2>1. OfThisAttempt(s)
    BY DEF Sound
  <2> QED  BY <2>1, <1>2, <1>3, <1>4, <1>5 DEF OfThisAttempt
<1>8. CASE request.tools /\ ~ s.answerVisible
  <2>1. HeldBack(d)
    BY <1>4, <1>8 DEF HeldBack, Sound
  <2> QED  BY <1>8, <2>1, <1>4, <1>6, <1>7 DEF Sound, AnswerText
<1>9. CASE ~ (request.tools /\ ~ s.answerVisible)
  <2>1. ~ request.tools
    BY <1>9 DEF Sound, HeldBack
  <2>2. Blank(c) => HeldBack(t)
    BY <1>2, <1>3, <2>1 DEF HeldBack, Sound
  <2>3. ~ Blank(c) => HeldBack(v)
    BY <1>2, <1>5, <2>1 DEF HeldBack, Sound
  <2> QED  BY <1>9, <2>2, <2>3, <1>3, <1>5, <1>6, <1>7 DEF Sound, AnswerText
<1> QED  BY <1>8, <1>9

(* A call's name: what has been held back is no answer.                    *)
LEMMA SignalKeeps ==
  ASSUME NEW s, Sound(s), NEW name, request.tools
  PROVE  /\ Sound(PrepareForToolSignal(s, name))
         /\ PrepareForToolSignal(s, name).calls = s.calls
<1> DEFINE leaked == IF name = "request_user_input" THEN << >> ELSE LeakedPreamble(s)
           cleared == IF name = "request_user_input" THEN s
                      ELSE [s EXCEPT !.content = << >>, !.deferred = << >>]
           told == IF leaked # << >> /\ s.commentary = << >>
                   THEN [cleared EXCEPT !.commentary = leaked, !.pending = TRUE] ELSE cleared
           signalled == [told EXCEPT !.signal = TRUE]
<1>1. IsStream(s) /\ HeldBack(s) /\ Told(s) /\ OfThisAttempt(s)
  BY DEF Sound
<1>2. Range(<< >>) = {} /\ << >> \in Seq(Piece)
  BY EmptySeq DEF Range
<1>3. /\ IsStream(cleared) /\ OfThisAttempt(cleared) /\ HeldBack(cleared)
      /\ SameCommentary(s, cleared) /\ cleared.calls = s.calls
  <2>1. CASE name = "request_user_input"
    BY <2>1, <1>1 DEF SameCommentary
  <2>2. CASE name # "request_user_input"
    <3>1. /\ IsStream(cleared) /\ SameCommentary(s, cleared) /\ cleared.calls = s.calls
          /\ cleared.content = << >> /\ cleared.deferred = << >> /\ cleared.answer = s.answer
          /\ cleared.answerVisible = s.answerVisible
      BY <2>2, <1>1, <1>2 DEF IsStream, SameCommentary, NewStream
    <3>2. ~ s.answerVisible /\ s.answer = << >>
      BY <1>1 DEF HeldBack
    <3> HIDE DEF cleared
    <3> QED  BY <3>1, <3>2, <1>2 DEF OfThisAttempt, HeldBack
  <2> QED  BY <2>1, <2>2
<1> HIDE DEF cleared, leaked
<1>4. SameAnswer(cleared, told) /\ Tellable(told)
  BY <1>1, <1>3 DEF SameAnswer, IsStream, Tellable, Told, SameCommentary, NewStream
<1> HIDE DEF told
<1>5. SameAnswer(cleared, signalled) /\ Tellable(signalled)
  BY <1>4 DEF SameAnswer, IsStream, Tellable, NewStream
<1> HIDE DEF signalled
<1>6. /\ SameAnswer(signalled, FlushCommentary(signalled, TRUE))
      /\ Told(FlushCommentary(signalled, TRUE))
  BY <1>5, FlushTells DEF SameAnswer
<1>7. SameAnswer(cleared, FlushCommentary(signalled, TRUE))
  BY <1>5, <1>6 DEF SameAnswer
<1>8. /\ Sound(FlushCommentary(signalled, TRUE))
      /\ FlushCommentary(signalled, TRUE).calls = s.calls
  BY <1>3, <1>6, <1>7 DEF Sound, SameAnswer, OfThisAttempt, HeldBack
<1>9. PrepareForToolSignal(s, name)
        = IF s.signal THEN s ELSE FlushCommentary(signalled, TRUE)
  BY DEF PrepareForToolSignal, signalled, told, cleared, leaked
<1> QED  BY <1>8, <1>9

(* The end of the stream: the answer that was held back is shown unless    *)
(* tools are called.                                                       *)
LEMMA ClosedIs ==
  ASSUME NEW s, Sound(s), NEW rest \in BOOLEAN
  PROVE  LET t == Closed(s, rest) IN
         /\ IsStream(t) /\ OfThisAttempt(t) /\ Told(t)
         /\ t.content = s.content /\ t.calls = s.calls /\ t.invalid = s.invalid
         /\ ~ t.answerVisible => t.answer = << >>
         /\ IF t.calls # << >> THEN t.answer = << >>
            ELSE ~ Blank(t.content) => t.answer = t.content
<1> DEFINE ended == IF rest THEN CommentaryComplete(CommentaryText(s, <<streamAttempt, "line">>))
                   ELSE s
           shown == FlushDeferred(ended)
           t == FlushCommentary(shown, ended.calls # << >>)
<1>1. Sound(ended) /\ SameAnswer(s, ended)
  <2>1. SameAnswer(s, s) /\ IsStream(s)
    BY DEF Sound, SameAnswer
  <2>2. /\ SameAnswer(s, CommentaryText(s, <<streamAttempt, "line">>))
        /\ Told(CommentaryText(s, <<streamAttempt, "line">>))
    BY <2>1, CommentaryTells
  <2>3. rest => /\ SameAnswer(CommentaryText(s, <<streamAttempt, "line">>), ended) /\ Told(ended)
    BY <2>2, CommentaryTells DEF SameAnswer
  <2> QED  BY <2>1, <2>2, <2>3, SoundBySides DEF SameAnswer
<1> HIDE DEF ended
<1>2. IsStream(ended) /\ OfThisAttempt(ended) /\ HeldBack(ended) /\ Told(ended)
  BY <1>1 DEF Sound
<1>3. /\ IsStream(shown) /\ SameCommentary(ended, shown)
      /\ shown.content = ended.content /\ shown.calls = ended.calls /\ shown.invalid = ended.invalid
      /\ Range(shown.answer) \subseteq Range(ended.answer) \cup Range(ended.content)
      /\ Range(shown.deferred) \subseteq Range(ended.deferred)
      /\ ~ shown.answerVisible => shown.answer = << >>
      /\ IF shown.calls # << >> THEN shown.answer = << >>
         ELSE ~ Blank(shown.content) => shown.answer = shown.content
  <2>1. Range(<< >>) = {} /\ << >> \in Seq(Piece) /\ Blank(<< >>)
    BY EmptySeq DEF Range, Blank
  <2>2. CASE \/ ended.deferred = << >> \/ ended.calls # << >>
             \/ ended.answerVisible \/ Blank(ended.content)
    <3>1. shown = ended
      BY <2>2 DEF FlushDeferred
    <3>2. SameCommentary(ended, ended)
      BY <1>2 DEF SameCommentary
    <3>3. ~ Blank(ended.content) /\ ended.calls = << >> => ended.answerVisible
      BY <1>2, <2>1, <2>2 DEF HeldBack
    <3>4. ended.calls # << >> => ended.answer = << >>
      BY <1>2 DEF HeldBack
    <3> QED  BY <3>1, <3>2, <3>3, <3>4, <1>2 DEF HeldBack
  <2>3. CASE ~ (\/ ended.deferred = << >> \/ ended.calls # << >>
                \/ ended.answerVisible \/ Blank(ended.content))
    <3>1. shown = [ended EXCEPT !.answerVisible = TRUE, !.answer = ended.deferred, !.deferred = << >>]
      BY <2>3 DEF FlushDeferred
    <3>2. ended.deferred = ended.content
      BY <1>2, <2>3 DEF HeldBack
    <3>3. /\ IsStream(shown) /\ SameCommentary(ended, shown) /\ shown.answerVisible
          /\ shown.content = ended.content /\ shown.calls = ended.calls /\ shown.invalid = ended.invalid
          /\ shown.answer = ended.content /\ shown.deferred = << >>
      BY <1>2, <2>1, <3>1, <3>2 DEF IsStream, SameCommentary, NewStream
    <3> HIDE DEF shown
    <3> QED  BY <3>3, <2>1, <2>3
  <2> QED  BY <2>2, <2>3
<1> HIDE DEF shown
<1>4. Tellable(shown)
  BY <1>2, <1>3 DEF Told, Tellable, SameCommentary
<1>5. SameAnswer(shown, t) /\ Told(t)
  BY <1>3, <1>4, FlushTells
<1>6. Closed(s, rest) = t
  BY DEF Closed, ended, shown
<1> HIDE DEF t
<1>7. OfThisAttempt(t)
  BY <1>2, <1>3, <1>5 DEF OfThisAttempt, SameAnswer
<1> QED  BY <1>1, <1>3, <1>5, <1>6, <1>7 DEF SameAnswer

-----------------------------------------------------------------------------
(* The steps.                                                              *)
LEMMA NewAttempt ==
  ASSUME NEW s, IsStream(s)
  PROVE  LET n == NextAttempt(s) IN
         /\ IsStream(n) /\ n.answer = s.answer
         /\ n.content = << >> /\ n.deferred = << >> /\ n.commentary = << >> /\ n.calls = << >>
         /\ n.invalid = 0 /\ ~ n.answerVisible
BY EmptySeq DEF NextAttempt, IsStream, NewStream, OnScreen

LEMMA NothingIsSound ==
  ASSUME NEW s, IsStream(s), Nothing(s)
  PROVE  OfThisAttempt(s) /\ HeldBack(s) /\ Told(s) /\ Sound(s)
<1>1. Range(<< >>) = {} /\ Blank(<< >>)
  BY DEF Range, Blank
<1> QED  BY <1>1 DEF Nothing, OfThisAttempt, HeldBack, Told, Sound

LEMMA SoundHere ==
  ASSUME StreamInv, stage \in {"streaming", "yielding"}
  PROVE  Sound(stream) /\ ~ fellBack
BY DEF StreamInv, StreamTypeOK, ByStage, Sound

LEMMA StreamInitInv == StreamInit => StreamInv
<1> SUFFICES ASSUME StreamInit PROVE StreamInv
  OBVIOUS
<1>1. IsStream(stream) /\ Nothing(stream)
  BY EmptySeq DEF StreamInit, NewStream, IsStream, Nothing
<1>2. OfThisAttempt(stream)
  BY <1>1, NothingIsSound
<1>3. StreamTypeOK
  <2>1. 1 \in 1 .. StreamAttempts
    BY StreamAssumption
  <2> QED  BY <1>1, <2>1 DEF StreamInit, StreamTypeOK
<1> QED  BY <1>1, <1>2, <1>3 DEF StreamInit, StreamInv, StreamTypeOK, ByStage, ScreenIsAnswer,
       ShownIsAnswer, OneAttemptShown, CallsAnnounced, OfThisAttempt

LEMMA AskKeeps ==
  ASSUME StreamInv, NEW api \in {"openai", "anthropic"}, NEW tools \in BOOLEAN,
         AskProvider(api, tools)
  PROVE  StreamInv'
<1>1. IsStream(stream) /\ Nothing(stream) /\ ~ fellBack
  BY DEF StreamInv, StreamTypeOK, ByStage, AskProvider
<1>2. Range(<< >>) = {} /\ Blank(<< >>)
  BY DEF Range, Blank
<1>3. HeldBack(stream)' /\ Told(stream)' /\ OfThisAttempt(stream)'
  BY <1>1, <1>2 DEF AskProvider, HeldBack, Told, OfThisAttempt, Nothing
<1>4. StreamTypeOK'
  BY DEF StreamInv, StreamTypeOK, AskProvider
<1> QED  BY <1>1, <1>3, <1>4 DEF AskProvider, StreamInv, ByStage, ScreenIsAnswer,
       ShownIsAnswer, OneAttemptShown, CallsAnnounced, OfThisAttempt, Nothing

(* An error: whoever asks again has nothing on the screen.                 *)
LEMMA FailsKeeps ==
  ASSUME StreamInv, ~ fellBack, NEW s, IsStream(s), OfThisAttempt(s),
         ~ s.answerVisible => s.answer = << >>, NEW failure, Fails(s, failure)
  PROVE  StreamInv'
<1> DEFINE n == NextAttempt(s)
<1>1. /\ IsStream(n) /\ n.answer = s.answer
      /\ n.content = << >> /\ n.deferred = << >> /\ n.commentary = << >> /\ n.calls = << >>
      /\ n.invalid = 0 /\ ~ n.answerVisible
  BY NewAttempt
<1> HIDE DEF n
<1>2. stream' = n /\ stage' \in {"backoff", "fallback", "failed"}
      /\ UNCHANGED <<request, streamAttempt, fellBack>>
  BY DEF Fails, n
<1>3. stage' \in {"backoff", "fallback"} => s.answer = << >>
  BY DEF Fails, RetriesStream, AttemptsFallback, Partial
<1>4. StreamTypeOK'
  BY <1>1, <1>2 DEF StreamInv, StreamTypeOK, IsStream
<1>5. Range(<< >>) = {}
  BY DEF Range
<1>6. OfThisAttempt(stream)'
  BY <1>1, <1>2, <1>5 DEF OfThisAttempt
<1>7. stage' \in {"backoff", "fallback"} => Nothing(stream)'
  BY <1>1, <1>2, <1>3 DEF Nothing
<1>8. stage' = "backoff" => streamAttempt' < StreamAttempts
  BY DEF Fails, RetriesStream
<1> QED  BY <1>2, <1>4, <1>6, <1>7, <1>8 DEF StreamInv, ByStage, ScreenIsAnswer,
       ShownIsAnswer, OneAttemptShown, CallsAnnounced, OfThisAttempt

LEMMA ReceiveKeeps ==
  ASSUME StreamInv, stage \in {"streaming", "yielding"}, NEW s, Sound(s), stream' = s,
         UNCHANGED <<request, stage, streamAttempt, fellBack>>
  PROVE  StreamInv'
<1>1. ~ fellBack
  BY SoundHere
<1>2. HeldBack(stream)' /\ Told(stream)' /\ OfThisAttempt(stream)' /\ IsStream(stream)'
  BY DEF Sound, HeldBack, Told, OfThisAttempt, IsStream
<1>3. StreamTypeOK'
  BY <1>2 DEF StreamInv, StreamTypeOK
<1> QED  BY <1>1, <1>2, <1>3 DEF StreamInv, ByStage, ScreenIsAnswer,
       ShownIsAnswer, OneAttemptShown, CallsAnnounced, OfThisAttempt

LEMMA RetryKeeps == ASSUME StreamInv, Retry PROVE StreamInv'
<1>1. IsStream(stream) /\ Nothing(stream) /\ ~ fellBack
  BY DEF StreamInv, StreamTypeOK, ByStage, Retry
<1>2. Range(<< >>) = {} /\ Blank(<< >>)
  BY DEF Range, Blank
<1>3. HeldBack(stream)' /\ Told(stream)' /\ OfThisAttempt(stream)'
  BY <1>1, <1>2 DEF Retry, HeldBack, Told, OfThisAttempt, Nothing
<1>4. StreamTypeOK'
  BY StreamAssumption DEF StreamInv, StreamTypeOK, ByStage, Retry, IsStream
<1> QED  BY <1>1, <1>3, <1>4 DEF Retry, StreamInv, ByStage, ScreenIsAnswer,
       ShownIsAnswer, OneAttemptShown, CallsAnnounced, OfThisAttempt, Nothing

LEMMA CountedIsSound ==
  ASSUME Sound(stream)
  PROVE  /\ Sound(Counted) /\ Counted.answerVisible = stream.answerVisible
         /\ Sound([Counted EXCEPT !.thinking = @ + 1])
<1>1. SameAnswer(stream, Counted) /\ SameCommentary(stream, Counted)
  BY DEF Counted, Sound, IsStream, SameAnswer, SameCommentary, NewStream
<1>2. /\ SameAnswer(Counted, [Counted EXCEPT !.thinking = @ + 1])
      /\ SameCommentary(Counted, [Counted EXCEPT !.thinking = @ + 1])
  BY <1>1 DEF IsStream, SameAnswer, SameCommentary, NewStream
<1> HIDE DEF Counted
<1>3. Told(Counted)
  BY <1>1 DEF Told, Sound, SameCommentary, SameAnswer
<1>4. Told([Counted EXCEPT !.thinking = @ + 1])
  BY <1>2, <1>3 DEF Told, SameCommentary, SameAnswer
<1> QED  BY <1>1, <1>2, <1>3, <1>4, SoundBySides DEF SameAnswer

LEMMA ThinkingKeeps ==
  ASSUME StreamInv, NEW repeats \in BOOLEAN, Thinking(repeats) PROVE StreamInv'
<1> DEFINE s == [Counted EXCEPT !.thinking = @ + 1]
<1>1. stage = "streaming" /\ (Receive(s) \/ Fails(s, "permanent"))
  BY DEF Thinking, More
<1>2. Sound(s) /\ ~ fellBack
  BY <1>1, SoundHere, CountedIsSound
<1> HIDE DEF s
<1>3. IsStream(s) /\ OfThisAttempt(s) /\ (~ s.answerVisible => s.answer = << >>)
  BY <1>2 DEF Sound, HeldBack
<1>4. CASE Fails(s, "permanent")
  BY <1>2, <1>3, <1>4, FailsKeeps
<1>5. CASE Receive(s)
  BY <1>1, <1>2, <1>5, ReceiveKeeps DEF Receive
<1> QED  BY <1>1, <1>4, <1>5

LEMMA AnswerKeeps ==
  ASSUME StreamInv, NEW kind \in Text, Answer(kind) PROVE StreamInv'
<1>1. stage = "streaming" /\ Sound(stream) /\ streamAttempt \in Nat
  BY SoundHere DEF Answer, More, StreamInv, StreamTypeOK
<1>2. Sound(AnswerText(Counted, <<streamAttempt, kind>>))
  BY <1>1, CountedIsSound, AnswerTextKeeps DEF Piece
<1> QED  BY <1>1, <1>2, ReceiveKeeps DEF Answer, Receive

LEMMA CommentaryKeeps ==
  ASSUME StreamInv,
         (\E kind \in {"line", "blank"} : Commentary(kind)) \/ CommentaryEnds
  PROVE  StreamInv'
<1>1. stage = "streaming"
  BY DEF Commentary, CommentaryEnds, More
<1>2. Sound(stream) /\ Sound(Counted) /\ IsStream(stream) /\ IsStream(Counted)
  BY <1>1, SoundHere, CountedIsSound DEF Sound
<1>3. CASE \E kind \in {"line", "blank"} : Commentary(kind)
  <2> PICK kind \in {"line", "blank"} : Commentary(kind)
    BY <1>3
  <2>1. Sound(CommentaryText(Counted, <<streamAttempt, kind>>))
    BY <1>2, CommentaryTells, SoundBySides
  <2> QED  BY <1>1, <2>1, ReceiveKeeps DEF Commentary, Receive
<1>4. CASE CommentaryEnds
  <2>1. Sound(CommentaryComplete(stream))
    BY <1>2, CommentaryTells, SoundBySides
  <2> QED  BY <1>1, <1>4, <2>1, ReceiveKeeps DEF CommentaryEnds, Receive
<1> QED  BY <1>3, <1>4

(* What the buffers of calls say, and what is noted of them.               *)
LEMMA NotesKeep ==
  ASSUME NEW s, Sound(s), NEW t, IsStream(t), SameAnswer(s, t), SameCommentary(s, t)
  PROVE  Sound(t)
<1>1. Told(t)
  BY DEF Told, Sound, SameAnswer, SameCommentary
<1> QED  BY <1>1, SoundBySides

LEMMA ToolDeltaKeeps ==
  ASSUME StreamInv, NEW i \in Call, NEW name, NEW bytes \in BOOLEAN, ToolDelta(i, name, bytes)
  PROVE  StreamInv'
<1> DEFINE s == Buffered(i, name, bytes)
           resolved == s.buffers[i].name
           refused == [s EXCEPT !.refused = @ \cup {i}]
           p == PrepareForToolSignal(s, resolved)
           seen == [p EXCEPT !.argumentsVisible = @ \/ bytes]
<1>1. stage = "streaming" /\ Sound(stream)
  BY SoundHere DEF ToolDelta, Receive
<1>2. Sound(s)
  <2>1. SameAnswer(stream, s) /\ SameCommentary(stream, s)
    BY <1>1 DEF Buffered, Sound, IsStream, SameAnswer, SameCommentary, NewStream
  <2> QED  BY <1>1, <2>1, NotesKeep DEF SameAnswer
<1>3. \/ resolved \notin Offered \cup {""} /\ Receive(refused)
      \/ Receive(s)
      \/ resolved \in Offered /\ Receive(seen)
  BY DEF ToolDelta
<1> HIDE DEF s, resolved
<1>4. Sound(refused)
  <2>1. SameAnswer(s, refused) /\ SameCommentary(s, refused)
    BY <1>2 DEF Sound, IsStream, SameAnswer, SameCommentary, NewStream
  <2> QED  BY <1>2, <2>1, NotesKeep DEF SameAnswer
<1>5. ASSUME resolved \in Offered PROVE Sound(seen)
  <2>1. request.tools
    BY <1>5 DEF Offered
  <2>2. Sound(p)
    BY <1>2, <2>1, SignalKeeps
  <2> HIDE DEF p
  <2>3. SameAnswer(p, seen) /\ SameCommentary(p, seen)
    BY <2>2 DEF Sound, IsStream, SameAnswer, SameCommentary, NewStream
  <2> QED  BY <2>2, <2>3, NotesKeep DEF SameAnswer
<1> HIDE DEF seen, refused
<1> QED  BY <1>1, <1>2, <1>3, <1>4, <1>5, ReceiveKeeps DEF Receive

LEMMA StreamDoneKeeps == ASSUME StreamInv, StreamDone PROVE StreamInv'
<1>1. Sound(stream) /\ ~ fellBack /\ stage = "streaming"
  BY SoundHere DEF StreamDone
<1>2. HeldBack(stream)' /\ Told(stream)' /\ OfThisAttempt(stream)'
  BY <1>1 DEF StreamDone, Sound, HeldBack, Told, OfThisAttempt
<1>3. StreamTypeOK'
  BY DEF StreamDone, StreamInv, StreamTypeOK
<1> QED  BY <1>1, <1>2, <1>3 DEF StreamDone, StreamInv, ByStage, ScreenIsAnswer,
       ShownIsAnswer, OneAttemptShown, CallsAnnounced, OfThisAttempt

(* A call is handed over, by name only if it is offered, so that nothing   *)
(* of the answer has been shown.                                           *)
LEMMA YieldKeeps ==
  ASSUME StreamInv, NEW i \in Call, NEW parses \in BOOLEAN, Yield(i, parses) PROVE StreamInv'
<1> DEFINE b == stream.buffers[i]
           s == [stream EXCEPT !.begun = @ \ {i}]
           known == PrepareForToolSignal(s, b.name)
           invalid == [s EXCEPT !.invalid = @ + 1]
           called == [known EXCEPT !.calls = Append(@, b.name)]
           t == FlushCommentary(called, TRUE)
<1>1. stage = "yielding" /\ Sound(stream) /\ ~ fellBack
  BY SoundHere DEF Yield
<1>2. Sound(s)
  <2>1. SameAnswer(stream, s) /\ SameCommentary(stream, s)
    BY <1>1 DEF Sound, IsStream, SameAnswer, SameCommentary, NewStream
  <2> QED  BY <1>1, <2>1, NotesKeep DEF SameAnswer
<1>3. \/ Fails(s, "parse")
      \/ /\ stream' = invalid \/ (b.name \in Offered /\ stream' = t)
         /\ UNCHANGED <<request, stage, streamAttempt, fellBack>>
  BY DEF Yield
<1> HIDE DEF s
<1>4. Sound(invalid)
  <2>1. /\ IsStream(invalid) /\ SameCommentary(s, invalid)
        /\ invalid.content = s.content /\ invalid.deferred = s.deferred
        /\ invalid.answer = s.answer /\ invalid.answerVisible = s.answerVisible
        /\ invalid.calls = s.calls
    BY <1>2 DEF Sound, IsStream, SameCommentary, NewStream
  <2> HIDE DEF invalid
  <2> QED  BY <1>2, <2>1 DEF Sound, OfThisAttempt, HeldBack, Told, SameCommentary
<1>5. ASSUME b.name \in Offered PROVE Sound(t)
  <2>1. request.tools /\ b.name \in Name
    BY <1>5 DEF Offered
  <2> HIDE DEF b
  <2>2. Sound(known)
    BY <1>2, <2>1, SignalKeeps
  <2> HIDE DEF known
  <2>3. /\ IsStream(called) /\ SameCommentary(known, called)
        /\ called.content = known.content /\ called.deferred = known.deferred
        /\ called.answer = known.answer /\ called.answerVisible = known.answerVisible
    <3>1. Append(known.calls, b.name) \in Seq(Name)
      BY <2>1, <2>2 DEF Sound, IsStream
    <3> QED  BY <2>2, <3>1 DEF Sound, IsStream, SameCommentary, NewStream
  <2> HIDE DEF called
  <2>4. Tellable(called) /\ OfThisAttempt(called) /\ HeldBack(called)
    BY <2>1, <2>2, <2>3 DEF Sound, Told, Tellable, SameCommentary, OfThisAttempt, HeldBack
  <2>5. SameAnswer(called, t) /\ Told(t)
    BY <2>3, <2>4, FlushTells
  <2> HIDE DEF t
  <2> QED  BY <2>4, <2>5 DEF Sound, SameAnswer, OfThisAttempt, HeldBack
<1> HIDE DEF invalid, t, b
<1>6. CASE Fails(s, "parse")
  <2>1. IsStream(s) /\ OfThisAttempt(s) /\ (~ s.answerVisible => s.answer = << >>)
    BY <1>2 DEF Sound, HeldBack
  <2> QED  BY <1>1, <1>6, <2>1, FailsKeeps
<1> QED  BY <1>1, <1>3, <1>4, <1>5, <1>6, ReceiveKeeps

LEMMA StreamEndsKeeps ==
  ASSUME StreamInv, NEW rest \in BOOLEAN, StreamEnds(rest) PROVE StreamInv'
<1> DEFINE s == Closed(stream, rest)
<1>1. stage = "yielding" /\ Sound(stream) /\ ~ fellBack
  BY SoundHere DEF StreamEnds
<1>2. /\ IsStream(s) /\ OfThisAttempt(s) /\ Told(s)
      /\ ~ s.answerVisible => s.answer = << >>
      /\ IF s.calls # << >> THEN s.answer = << >>
         ELSE ~ Blank(s.content) => s.answer = s.content
  BY <1>1, ClosedIs
<1>3. \/ Fails(s, "empty")
      \/ /\ ~ (s.calls = << >> /\ s.invalid = 0 /\ Blank(s.content))
         /\ stream' = s /\ stage' = "returned" /\ UNCHANGED <<request, streamAttempt, fellBack>>
  BY DEF StreamEnds
<1> HIDE DEF s
<1>4. CASE Fails(s, "empty")
  BY <1>1, <1>2, <1>4, FailsKeeps
<1>5. CASE /\ ~ (s.calls = << >> /\ s.invalid = 0 /\ Blank(s.content))
           /\ stream' = s /\ stage' = "returned" /\ UNCHANGED <<request, streamAttempt, fellBack>>
  <2>1. StreamTypeOK' /\ OfThisAttempt(stream)' /\ Told(stream)'
    BY <1>2, <1>5 DEF StreamInv, StreamTypeOK, OfThisAttempt, Told, IsStream
  <2> QED  BY <1>1, <1>2, <1>5, <2>1 DEF StreamInv, ByStage, ScreenIsAnswer,
         ShownIsAnswer, OneAttemptShown, CallsAnnounced, OfThisAttempt
<1> QED  BY <1>3, <1>4, <1>5

LEMMA FallbackKeeps ==
  ASSUME StreamInv,
         \/ \E given \in Text \cup {"none"}, calls \in BoundedSeq(Tool, 1) :
               FallbackAnswers(given, calls)
         \/ FallbackFails
  PROVE  StreamInv'
<1>1. stage = "fallback"
  BY DEF FallbackAnswers, FallbackFails
<1>2. IsStream(stream) /\ Nothing(stream) /\ streamAttempt \in Nat
  BY <1>1 DEF StreamInv, StreamTypeOK, ByStage
<1>3. Range(<< >>) = {}
  BY DEF Range
<1>4. CASE FallbackFails
  <2>1. StreamTypeOK' /\ OfThisAttempt(stream)'
    BY <1>4 DEF FallbackFails, StreamInv, StreamTypeOK, OfThisAttempt
  <2> QED  BY <1>1, <1>2, <1>4, <2>1 DEF FallbackFails, StreamInv, ByStage, ScreenIsAnswer,
         ShownIsAnswer, OneAttemptShown, CallsAnnounced, OfThisAttempt
<1>5. CASE \E given \in Text \cup {"none"}, calls \in BoundedSeq(Tool, 1) :
             FallbackAnswers(given, calls)
  <2> PICK given \in Text \cup {"none"}, calls \in BoundedSeq(Tool, 1) :
           FallbackAnswers(given, calls)
    BY <1>5
  <2> DEFINE c == IF given = "none" THEN << >> ELSE <<<<streamAttempt, given>>>>
  <2>1. c \in Seq(Piece) /\ \A p \in Range(c) : p[1] = streamAttempt
    BY <1>2, <1>3, EmptySeq DEF Piece, Range
  <2>2. calls \in Seq(Name)
    <3>1. PICK m \in 0 .. 1 : calls \in [1 .. m -> Tool]
      BY DEF BoundedSeq, SeqOf
    <3>2. calls \in [1 .. m -> Name]
      BY <3>1 DEF Name
    <3> QED  BY <3>2
  <2> HIDE DEF c
  <2>3. /\ stream' = [stream EXCEPT !.content = c, !.calls = calls]
        /\ fellBack' = TRUE /\ stage' \in {"failed", "returned"}
        /\ UNCHANGED <<request, streamAttempt>>
    BY DEF FallbackAnswers, c
  <2>4. /\ IsStream(stream') /\ stream'.content = c /\ stream'.answer = << >>
        /\ stream'.deferred = << >> /\ stream'.commentary = << >>
    BY <1>2, <2>1, <2>2, <2>3 DEF IsStream, NewStream, Nothing
  <2>5. StreamTypeOK' /\ OfThisAttempt(stream)' /\ Told(stream)'
    BY <1>3, <2>1, <2>3, <2>4 DEF StreamInv, StreamTypeOK, OfThisAttempt, Told, IsStream
  <2> QED  BY <1>3, <2>3, <2>4, <2>5 DEF StreamInv, ByStage, ScreenIsAnswer,
         ShownIsAnswer, OneAttemptShown, CallsAnnounced
<1> QED  BY <1>4, <1>5

(* The request is over; calls without a commentary get one first.          *)
LEMMA ReturnKeeps == ASSUME StreamInv, Return PROVE StreamInv'
<1> DEFINE made == <<<<streamAttempt, "line">>>>
           a == Announced(stream)
<1>1. /\ stage = "returned" /\ IsStream(stream) /\ OfThisAttempt(stream) /\ Told(stream)
      /\ IF stream.calls # << >> \/ fellBack THEN stream.answer = << >>
         ELSE stream.invalid = 0 => stream.answer = stream.content
      /\ fellBack => stream.answer = << >>
  BY DEF Return, StreamInv, StreamTypeOK, ByStage, ScreenIsAnswer, OneAttemptShown
<1>2. Blank(<< >>) /\ ~ Blank(made)
  BY DEF Blank, Range
<1>3. /\ SameAnswer(stream, a)
      /\ stream.calls # << >> => /\ ~ Blank(a.commentary) /\ a.brief = a.commentary
                                 /\ a.tag = "none" => a.announced = a.commentary
  <2>1. CASE ~ Blank(stream.commentary)
    BY <1>1, <1>2, <2>1 DEF Announced, SameAnswer, Told
  <2>2. CASE Blank(stream.commentary)
    <3>1. a = [stream EXCEPT !.commentary = made, !.brief = made, !.announced = made]
      BY <2>2 DEF Announced
    <3> HIDE DEF made, a
    <3>2. /\ SameAnswer(stream, a) /\ a.commentary = made /\ a.brief = made /\ a.announced = made
      BY <1>1, <3>1 DEF IsStream, SameAnswer, NewStream
    <3> QED  BY <1>2, <3>2
  <2> QED  BY <2>1, <2>2
<1> HIDE DEF a
<1>4. /\ \/ stage' \in {"invalid", "answered"} /\ stream' = stream
         \/ stage' = "running" /\ stream' = a /\ stream.calls # << >>
      /\ stage' = "answered" => stream.invalid = 0 /\ stream.calls = << >>
      /\ UNCHANGED <<request, streamAttempt, fellBack>>
  BY <1>1 DEF Return, a, IsStream
<1>5. SameAnswer(stream, stream')
  BY <1>1, <1>3, <1>4 DEF SameAnswer
<1>6. StreamTypeOK' /\ OfThisAttempt(stream)'
  BY <1>1, <1>4, <1>5 DEF StreamInv, StreamTypeOK, OfThisAttempt, SameAnswer
<1> QED  BY <1>1, <1>3, <1>4, <1>5, <1>6 DEF StreamInv, ByStage, ScreenIsAnswer,
       ShownIsAnswer, OneAttemptShown, CallsAnnounced, SameAnswer, OfThisAttempt

LEMMA StreamFailsKeeps ==
  ASSUME StreamInv, NEW failure \in StreamFailure, StreamFails(failure) PROVE StreamInv'
<1>1. Sound(stream) /\ ~ fellBack
  BY SoundHere DEF StreamFails
<1> QED  BY <1>1, FailsKeeps DEF StreamFails, Sound, HeldBack

LEMMA StreamStep == StreamInv /\ [StreamNext]_streamVars => StreamInv'
<1> SUFFICES ASSUME StreamInv, [StreamNext]_streamVars PROVE StreamInv'
  OBVIOUS
<1>1. CASE UNCHANGED streamVars
  <2>1. StreamTypeOK' /\ OfThisAttempt(stream)'
    BY <1>1 DEF StreamInv, StreamTypeOK, OfThisAttempt, streamVars
  <2>2. ByStage'
    BY <1>1 DEF StreamInv, ByStage, HeldBack, Told, Nothing, streamVars
  <2> QED  BY <1>1, <2>1, <2>2 DEF StreamInv, ScreenIsAnswer, ShownIsAnswer, OneAttemptShown,
         CallsAnnounced, streamVars
<1>2. CASE \E api \in {"openai", "anthropic"}, tools \in BOOLEAN : AskProvider(api, tools)
  BY <1>2, AskKeeps
<1>3. CASE \E failure \in StreamFailure : StreamFails(failure)
  BY <1>3, StreamFailsKeeps
<1>4. CASE Retry
  BY <1>4, RetryKeeps
<1>5. CASE \E repeats \in BOOLEAN : Thinking(repeats)
  BY <1>5, ThinkingKeeps
<1>6. CASE \E kind \in Text : Answer(kind)
  BY <1>6, AnswerKeeps
<1>7. CASE (\E kind \in {"line", "blank"} : Commentary(kind)) \/ CommentaryEnds
  BY <1>7, CommentaryKeeps
<1>8. CASE \E i \in Call, name \in Name \cup {"", "other"}, bytes \in BOOLEAN :
             ToolDelta(i, name, bytes)
  BY <1>8, ToolDeltaKeeps
<1>9. CASE StreamDone
  BY <1>9, StreamDoneKeeps
<1>10. CASE \E i \in Call, parses \in BOOLEAN : Yield(i, parses)
  BY <1>10, YieldKeeps
<1>11. CASE \E rest \in BOOLEAN : StreamEnds(rest)
  BY <1>11, StreamEndsKeeps
<1>12. CASE \/ \E given \in Text \cup {"none"}, calls \in BoundedSeq(Tool, 1) :
                 FallbackAnswers(given, calls)
            \/ FallbackFails
  BY <1>12, FallbackKeeps
<1>13. CASE Return
  BY <1>13, ReturnKeeps
<1> QED  BY <1>1, <1>2, <1>3, <1>4, <1>5, <1>6, <1>7, <1>8, <1>9, <1>10, <1>11, <1>12, <1>13
     DEF StreamNext

(* What is shown and told of a response is sound throughout.               *)
THEOREM StreamInvariance == StreamSpec => []StreamInv
BY StreamInitInv, StreamStep, PTL DEF StreamSpec

(* The screen shows the answer, of one attempt, and nothing beside it.     *)
THEOREM ScreenShowsAnswer == StreamSpec => []ScreenIsAnswer
<1>1. StreamInv => ScreenIsAnswer
  BY DEF StreamInv
<1> QED  BY <1>1, StreamInvariance, PTL

(* Tools run only behind a commentary that is on the screen as the         *)
(* response has it.                                                        *)
THEOREM CallsAreAnnounced == StreamSpec => []CallsAnnounced
<1>1. StreamInv => CallsAnnounced
  BY DEF StreamInv
<1> QED  BY <1>1, StreamInvariance, PTL

-----------------------------------------------------------------------------
(* The files of the answers.                                               *)
Attaching == [content : Held, shows : SUBSET Shown]

LEMMA OutputPaths ==
  /\ OutputTurn \subseteq Nat \ {0} /\ Outside \in Nat /\ Outside \notin OutputTurn /\ Shared \notin OutputTurn
  /\ \A t \in OutputTurn, p \in Path : <<t, p[2]>> \in Path /\ p[1] \in Nat /\ p = <<p[1], p[2]>>
  /\ \A p \in Path : p[2] \in FileName /\ p[1] <= Outside
BY OutputAssumption DEF OutputTurn, Outside, Path, Shared

LEMMA TargetOf ==
  ASSUME NEW t \in OutputTurn, NEW p \in Path
  PROVE  /\ SnapshotPath(p, t) \in Path
         /\ In(p, Outside) => SnapshotPath(p, t) = p
         /\ ~ In(p, Outside) => SnapshotPath(p, t) = <<t, p[2]>>
BY OutputPaths DEF SnapshotPath, In

(* One more file is attached.                                              *)
LEMMA AttachedIs ==
  ASSUME NEW state \in Attaching, NEW t \in OutputTurn, NEW p \in Path
  PROVE  /\ Attached(state, p, t) \in Attaching
         /\ \A q \in Path : Attached(state, p, t).content[q]
              = IF q = SnapshotPath(p, t) THEN state.content[p] ELSE state.content[q]
         /\ state.shows \subseteq Attached(state, p, t).shows
         /\ \E a \in Attached(state, p, t).shows : a.path = SnapshotPath(p, t)
         /\ \A a \in Attached(state, p, t).shows \ state.shows :
              a.path = SnapshotPath(p, t) /\ a.holds = state.content[p]
<1> DEFINE place == SnapshotPath(p, t)
           now == [state.content EXCEPT ![place] = state.content[p]]
           new == [path |-> place, holds |-> now[place]]
<1>1. place \in Path /\ state.content \in Held /\ state.shows \subseteq Shown
  BY TargetOf DEF Attaching
<1>2. now \in Held /\ new \in Shown /\ new.path = place /\ new.holds = state.content[p]
  BY <1>1 DEF Held, Shown
<1>3. \A q \in Path : now[q] = IF q = place THEN state.content[p] ELSE state.content[q]
  BY <1>1 DEF Held
<1>4. Attached(state, p, t) =
        [content |-> now, shows |-> IF \E a \in state.shows : a.path = place THEN state.shows
                                    ELSE state.shows \cup {new}]
  BY DEF Attached
<1> HIDE DEF now, new, place
<1>5. /\ Attached(state, p, t).content = now
      /\ Attached(state, p, t).shows = IF \E a \in state.shows : a.path = place THEN state.shows
                                       ELSE state.shows \cup {new}
      /\ Attached(state, p, t) \in Attaching
  BY <1>1, <1>2, <1>4 DEF Attaching
<1>6. QED
  BY <1>2, <1>3, <1>5 DEF place

(* The tool messages one after another, from what FoldLeft chooses.        *)
LEMMA AttachmentsStep ==
  ASSUME NEW t \in OutputTurn, NEW start \in Attaching, toolMessages \in Seq(Path)
  PROVE  \E acc : /\ acc \in [0 .. Len(toolMessages) -> Attaching]
                  /\ acc[0] = start
                  /\ \A k \in 1 .. Len(toolMessages) :
                       acc[k] = Attached(acc[k - 1], toolMessages[k], t)
                  /\ TurnOutputAttachments(start, t) = acc[Len(toolMessages)]
<1> DEFINE n == Len(toolMessages)
           D == 1 .. n
           step(F, s) == IF s = {} THEN start
                         ELSE Attached(F[s \ {Max(s)}], toolMessages[Max(s)], t)
           iter == CHOOSE F : F = [s \in SUBSET D |-> step(F, s)]
           op == [x \in Attaching \X Path |-> Attached(x[1], x[2], t)]
           acc == [k \in 0 .. n |-> iter[1 .. k]]
<1>1. n \in Nat /\ toolMessages \in [1 .. n -> Path] /\ DOMAIN toolMessages = D
  OBVIOUS
<1>2. op \in [Attaching \X Path -> Attaching]
  <2>1. \A x \in Attaching \X Path : Attached(x[1], x[2], t) \in Attaching
    BY AttachedIs
  <2>2. QED
    BY <2>1
<1>3. PICK G : Folds(G, Attaching, op, start, n, toolMessages)
  <2> HIDE DEF op, n
  <2>1. QED
    BY <1>1, <1>2, FoldExists
<1>4. ASSUME NEW s \in SUBSET D PROVE G[s] = step(G, s)
  <2>0. G[s] = (IF s = {} THEN start ELSE op[<<G[s \ {Max(s)}], toolMessages[Max(s)]>>])
        /\ G[s \ {Max(s)}] \in Attaching
    <3> HIDE DEF op
    <3>1. s \ {Max(s)} \in SUBSET D
      OBVIOUS
    <3>2. QED
      BY <1>3, <3>1 DEF Folds
  <2>1. CASE s = {}
    BY <2>0, <2>1
  <2>2. CASE s # {}
    <3>1. Max(s) \in s
      BY <1>1, <2>2, MaxOfBounded
    <3>2. <<G[s \ {Max(s)}], toolMessages[Max(s)]>> \in Attaching \X Path
      BY <1>1, <2>0, <3>1
    <3>3. op[<<G[s \ {Max(s)}], toolMessages[Max(s)]>>]
            = Attached(G[s \ {Max(s)}], toolMessages[Max(s)], t)
      BY <3>2
    <3> HIDE DEF op
    <3>4. QED
      BY <2>0, <2>2, <3>3
  <2>3. QED
    BY <2>1, <2>2
<1>5. G = [s \in SUBSET D |-> step(G, s)]
  <2>1. G \in [SUBSET D -> Attaching]
    BY <1>3 DEF Folds
  <2> HIDE DEF step, D
  <2>2. QED
    BY <1>4, <2>1
<1>6. iter = [s \in SUBSET D |-> step(iter, s)]
  <2> HIDE DEF step, D
  <2>1. QED
    BY <1>5
<1>7. \A s \in SUBSET D : iter[s] = step(iter, s)
  <2> HIDE DEF step, D, iter
  <2>1. QED
    BY <1>6
<1>8. TurnOutputAttachments(start, t) = iter[D]
  BY <1>1 DEF TurnOutputAttachments, FoldLeft, MapThenFoldSet
<1> HIDE DEF iter
<1>9. Runs(iter, Attaching, op, start, n, toolMessages)
  <2>1. ASSUME NEW s \in SUBSET D, s # {}, iter[s \ {Max(s)}] \in Attaching
        PROVE  iter[s] = op[<<iter[s \ {Max(s)}], toolMessages[Max(s)]>>]
    <3>1. toolMessages[Max(s)] \in Path
      BY <1>1, <2>1, MaxOfBounded
    <3>2. QED
      BY <1>7, <2>1, <3>1
  <2>2. iter[{}] = start
    BY <1>7
  <2> HIDE DEF op, step
  <2>3. QED
    BY <2>1, <2>2 DEF Runs
<1>10. /\ acc \in [0 .. n -> Attaching] /\ acc[0] = start /\ acc[n] = iter[1 .. n]
       /\ \A k \in 1 .. n : acc[k] = op[<<acc[k - 1], toolMessages[k]>>]
  <2>1. Walks(acc, Attaching, op, start, n, toolMessages)
    <3>1. acc = [k \in 0 .. n |-> iter[1 .. k]]
      OBVIOUS
    <3> HIDE DEF acc, op, n
    <3>2. QED
      BY <1>1, <1>2, <1>9, <3>1, FoldRun
  <2>2. acc[n] = iter[1 .. n]
    BY <1>1
  <2> HIDE DEF acc, op, n
  <2>3. QED
    BY <2>1, <2>2 DEF Walks
<1> HIDE DEF acc
<1>11. ASSUME NEW k \in 1 .. n PROVE acc[k] = Attached(acc[k - 1], toolMessages[k], t)
  <2>1. acc[k - 1] \in Attaching /\ toolMessages[k] \in Path
    BY <1>1, <1>10
  <2>2. QED
    BY <1>10, <2>1
<1>12. QED
  BY <1>8, <1>10, <1>11

LEMMA OutputInitInv == OutputInit => OutputInv
<1> SUFFICES ASSUME OutputInit PROVE OutputInv
  OBVIOUS
<1>1. OutputTypeOK
  <2>1. content \in Held
    BY DEF OutputInit, Held
  <2>2. toolMessages \in Seq(Path) /\ givenAnswers \in Seq(Given) /\ Len(givenAnswers) = 0
    BY EmptySeq DEF OutputInit
  <2>3. writes \in Nat /\ replyTo \in 0 .. 0 /\ rewritten \subseteq Path
    BY DEF OutputInit
  <2>4. working \in BOOLEAN
    BY DEF OutputInit
  <2>5. QED
    BY <2>1, <2>2, <2>3, <2>4 DEF OutputTypeOK
<1>2. DirectoriesAreOwn
  BY DEF OutputInit, DirectoriesAreOwn
<1>3. RepliesLookBack /\ OutputsAreShown
  BY DEF OutputInit, RepliesLookBack, OutputsAreShown, WorkStaysShown, ReplyShowsParent
<1>4. QED
  BY <1>1, <1>2, <1>3 DEF OutputInit, OutputInv

LEMMA StartTurnKeeps == ASSUME OutputInv, StartTurn PROVE OutputInv'
<1>1. OutputTypeOK'
  BY EmptySeq DEF OutputInv, OutputTypeOK, StartTurn
<1>2. DirectoriesAreOwn'
  BY DEF OutputInv, DirectoriesAreOwn, StartTurn, CurrentTurn
<1>3. RepliesLookBack' /\ OutputsAreShown'
  BY DEF OutputInv, StartTurn, RepliesLookBack, OutputsAreShown, WorkStaysShown, ReplyShowsParent,
         NamesClash
<1>4. QED
  BY <1>1, <1>2, <1>3 DEF StartTurn, OutputInv, CurrentTurn

(* A write to a path that an answer shows is noted.                        *)
LEMMA ToolWritesKeeps ==
  ASSUME OutputInv, NEW p \in Path, ToolWrites(p) PROVE OutputInv'
<1>1. /\ content \in Held /\ writes \in Nat /\ toolMessages \in Seq(Path)
      /\ givenAnswers' = givenAnswers /\ working' = working /\ working /\ replyTo' = replyTo
      /\ content' = [content EXCEPT ![p] = writes'] /\ writes' = writes + 1
      /\ toolMessages' = Append(toolMessages, p) /\ rewritten \subseteq rewritten'
      /\ p[1] \in {Shared, Outside} \cup 1 .. CurrentTurn /\ CurrentTurn' = CurrentTurn
  BY DEF OutputInv, OutputTypeOK, ToolWrites, CurrentTurn
<1>2. /\ content' \in Held /\ content'[p] = writes'
      /\ \A q \in Path \ {p} : content'[q] = content[q]
  BY <1>1 DEF Held
<1>3. /\ toolMessages' \in Seq(Path) /\ p \in Range(toolMessages')
      /\ Range(toolMessages) \subseteq Range(toolMessages')
  <2>1. toolMessages' \in Seq(Path) /\ Len(toolMessages') = Len(toolMessages) + 1
    BY <1>1, AppendProperties
  <2>2. /\ toolMessages'[Len(toolMessages) + 1] = p /\ Len(toolMessages) \in Nat
        /\ \A i \in 1 .. Len(toolMessages) : toolMessages'[i] = toolMessages[i]
    BY <1>1, AppendProperties
  <2>3. QED
    BY <1>1, <2>1, <2>2 DEF Range
<1>4. OutputTypeOK'
  <2>1. rewritten' \subseteq Path
    BY DEF OutputInv, OutputTypeOK, ToolWrites
  <2>2. QED
    BY <1>1, <1>2, <1>3, <2>1 DEF OutputInv, OutputTypeOK
<1>5. DirectoriesAreOwn'
  <2> SUFFICES ASSUME NEW q \in Path, CurrentTurn <= q[1], q[1] # Outside, content'[q] > 0
               PROVE  q[1] = CurrentTurn /\ q \in Range(toolMessages')
    BY <1>1 DEF DirectoriesAreOwn
  <2>1. CASE q = p
    <3>1. CurrentTurn \in Nat \ {0}
      BY DEF OutputInv, OutputTypeOK, CurrentTurn
    <3>2. q[1] = CurrentTurn
      BY <1>1, <2>1, <3>1 DEF Shared
    <3>3. QED
      BY <1>3, <2>1, <3>2
  <2>2. CASE q # p
    <3>1. content[q] > 0
      BY <1>2, <2>2
    <3>2. QED
      BY <1>3, <3>1 DEF OutputInv, DirectoriesAreOwn
  <2>3. QED
    BY <2>1, <2>2
<1>6. WorkStaysShown'
  <2> SUFFICES ASSUME NEW t \in 1 .. Len(givenAnswers), ~ NamesClash(givenAnswers[t]),
                      NEW m \in givenAnswers[t].made, ~ In(m.path, Outside)
               PROVE  \E a \in givenAnswers[t].shows :
                        /\ In(a.path, t) /\ a.path[2] = m.path[2] /\ a.holds = m.holds
                        /\ content'[a.path] = m.holds \/ a.path \in rewritten'
    BY <1>1 DEF WorkStaysShown, NamesClash, In
  <2>1. PICK a \in givenAnswers[t].shows :
          /\ In(a.path, t) /\ a.path[2] = m.path[2] /\ a.holds = m.holds
          /\ content[a.path] = m.holds \/ a.path \in rewritten
    BY DEF OutputInv, OutputsAreShown, WorkStaysShown
  <2>2. CASE a.path = p
    <3>1. p \in rewritten'
      BY <2>2 DEF ToolWrites
    <3>2. QED
      BY <2>1, <2>2, <3>1
  <2>3. CASE a.path # p
    <3>1. a.path \in Path
      <4>1. givenAnswers[t] \in Given
        BY ElementOfSeq DEF OutputInv, OutputTypeOK
      <4>2. QED
        BY <4>1 DEF Given, Shown
    <3>2. content'[a.path] = content[a.path]
      BY <1>2, <2>3, <3>1
    <3>3. QED
      BY <1>1, <2>1, <3>2
  <2>4. QED
    BY <2>2, <2>3
<1>7. ReplyShowsParent' /\ RepliesLookBack'
  BY <1>1 DEF OutputInv, OutputsAreShown, ReplyShowsParent, RepliesLookBack, In
<1>8. QED
  BY <1>1, <1>4, <1>5, <1>6, <1>7 DEF OutputInv, OutputsAreShown

(* Where no two files of one name meet, every file that the turn made has  *)
(* been copied, if need be, and is shown as it was.                        *)
LEMMA AttachmentsShow ==
  ASSUME OutputInv, working, NEW start \in Attaching, start.content = content,
         \A a \in start.shows : content[a.path] > 0 /\ a.holds = content[a.path]
  PROVE  LET t == CurrentTurn
             n == Len(toolMessages)
             done == TurnOutputAttachments(start, t) IN
         /\ done \in Attaching
         /\ \A q \in Path : q[1] # t => done.content[q] = content[q]
         /\ (\A i, j \in 1 .. n :
               (/\ ~ In(toolMessages[i], Outside) /\ ~ In(toolMessages[j], Outside)
                /\ toolMessages[i][2] = toolMessages[j][2])
               => toolMessages[i] = toolMessages[j])
            => \A i \in 1 .. n : ~ In(toolMessages[i], Outside) =>
                 /\ done.content[<<t, toolMessages[i][2]>>] = content[toolMessages[i]]
                 /\ \E a \in done.shows : /\ a.path = <<t, toolMessages[i][2]>>
                                          /\ a.holds = content[toolMessages[i]]
<1> DEFINE t == CurrentTurn
           n == Len(toolMessages)
           done == TurnOutputAttachments(start, t)
           copied(i) == <<t, toolMessages[i][2]>>
           inside(i) == ~ In(toolMessages[i], Outside)
           clear == \A i, j \in 1 .. n :
                      (inside(i) /\ inside(j) /\ toolMessages[i][2] = toolMessages[j][2])
                      => toolMessages[i] = toolMessages[j]
<1>1. /\ t \in OutputTurn /\ t \in Nat \ {0} /\ t # Outside /\ content \in Held /\ n \in Nat
      /\ toolMessages \in Seq(Path) /\ \A i \in 1 .. n : toolMessages[i] \in Path
  <2>1. CurrentTurn \in OutputTurn /\ toolMessages \in Seq(Path) /\ content \in Held
    BY DEF OutputInv, OutputTypeOK
  <2>2. \A i \in 1 .. n : toolMessages[i] \in Path
    BY <2>1, ElementOfSeq
  <2>3. QED
    BY <2>1, <2>2, OutputPaths
<1>2. PICK acc :
        /\ acc \in [0 .. n -> Attaching] /\ acc[0] = start /\ done = acc[n]
        /\ \A k \in 1 .. n : acc[k] = Attached(acc[k - 1], toolMessages[k], t)
  BY <1>1, AttachmentsStep
<1> HIDE DEF t, done
<1>3. \A i \in 1 .. n : inside(i) => copied(i) \in Path
  BY <1>1, OutputPaths
<1> DEFINE elsewhere(k) == \A q \in Path : q[1] # t => acc[k].content[q] = content[q]
           asTheyWere(k) == \A i \in 1 .. n : inside(i) =>
                              acc[k].content[toolMessages[i]] = content[toolMessages[i]]
           honest(k) == \A a \in acc[k].shows, i \in 1 .. n :
                          (inside(i) /\ a.path = copied(i)) => a.holds = content[toolMessages[i]]
           shown(k) == \A i \in 1 .. k : inside(i) =>
                         /\ acc[k].content[copied(i)] = content[toolMessages[i]]
                         /\ \E a \in acc[k].shows : a.path = copied(i)
           reached(k) == elsewhere(k) /\ (clear => asTheyWere(k) /\ honest(k) /\ shown(k))
           good == {k \in 0 .. n : reached(k)}
<1>4. 0 \in good
  <2>1. elsewhere(0) /\ asTheyWere(0) /\ shown(0)
    BY <1>2
  <2>2. ASSUME clear PROVE honest(0)
    <3> SUFFICES ASSUME NEW a \in start.shows, NEW i \in 1 .. n, inside(i), a.path = copied(i)
                 PROVE  a.holds = content[toolMessages[i]]
      BY <1>2
    <3>1. copied(i) \in Path /\ content[copied(i)] > 0 /\ copied(i)[1] = t
      BY <1>3
    <3>2. copied(i) \in Range(toolMessages)
      BY <1>1, <3>1 DEF OutputInv, DirectoriesAreOwn, t
    <3>3. PICK j \in 1 .. n : toolMessages[j] = copied(i)
      BY <1>1, <3>2 DEF Range
    <3>4. inside(j) /\ toolMessages[j][2] = toolMessages[i][2]
      BY <1>1, <3>1, <3>3 DEF In
    <3>5. toolMessages[j] = toolMessages[i]
      BY <2>2, <3>4
    <3>6. QED
      BY <3>3, <3>5
  <2>3. QED
    BY <1>1, <2>1, <2>2
<1>5. ASSUME NEW k \in 0 .. n - 1, k \in good PROVE k + 1 \in good
  <2> DEFINE z == k + 1
             p == toolMessages[z]
             place == SnapshotPath(p, t)
  <2>1. z \in 1 .. n /\ z - 1 = k /\ z \in 0 .. n /\ k \in 0 .. n /\ p \in Path
    BY <1>1
  <2>0. reached(k)
    BY <1>5
  <2>2. acc[k] \in Attaching /\ acc[z] = Attached(acc[k], p, t)
    BY <1>2, <2>1
  <2>3. /\ place \in Path /\ (In(p, Outside) => place = p)
        /\ inside(z) => place = copied(z)
    BY <1>1, <2>1, TargetOf
  <2> HIDE DEF z, p
  <2>4. /\ \A q \in Path : acc[z].content[q]
             = IF q = place THEN acc[k].content[p] ELSE acc[k].content[q]
        /\ acc[k].shows \subseteq acc[z].shows
        /\ \E a \in acc[z].shows : a.path = place
        /\ \A a \in acc[z].shows \ acc[k].shows : a.path = place /\ a.holds = acc[k].content[p]
    <3>1. acc[k] \in Attaching /\ p \in Path /\ t \in OutputTurn
      BY <1>1, <2>1, <2>2
    <3> DEFINE next == Attached(acc[k], p, t)
    <3>2. /\ \A q \in Path : next.content[q]
               = IF q = place THEN acc[k].content[p] ELSE acc[k].content[q]
          /\ acc[k].shows \subseteq next.shows
          /\ \E a \in next.shows : a.path = place
          /\ \A a \in next.shows \ acc[k].shows : a.path = place /\ a.holds = acc[k].content[p]
      BY <3>1, AttachedIs
    <3>3. acc[z] = next
      BY <2>2
    <3> HIDE DEF next, place
    <3>4. QED
      BY <3>2, <3>3
  <2> HIDE DEF place
  <2>5. elsewhere(z)
    <3> SUFFICES ASSUME NEW q \in Path, q[1] # t PROVE acc[z].content[q] = content[q]
      OBVIOUS
    <3>1. acc[k].content[q] = content[q]
      BY <2>0
    <3>2. CASE q = place
      <4>1. In(p, Outside)
        BY <2>3, <3>2 DEF p
      <4>2. q = p
        BY <2>3, <3>2, <4>1
      <4>3. QED
        BY <2>4, <3>1, <4>2
    <3>3. CASE q # place
      BY <2>4, <3>1, <3>3
    <3>4. QED
      BY <3>2, <3>3
  <2>6. ASSUME clear PROVE asTheyWere(z) /\ honest(z) /\ shown(z)
    <3>0. asTheyWere(k) /\ honest(k) /\ shown(k)
      BY <2>0, <2>6
    <3>1. ASSUME NEW i \in 1 .. n, inside(i), place \in {toolMessages[i], copied(i)}
          PROVE  inside(z) /\ toolMessages[i] = p /\ acc[k].content[p] = content[p]
      <4>1. inside(z)
        <5>1. ~ In(place, Outside)
          BY <1>1, <3>1 DEF In
        <5>2. QED
          BY <2>3, <5>1 DEF p
      <4>2. toolMessages[i][2] = toolMessages[z][2]
        BY <2>3, <3>1, <4>1
      <4>3. toolMessages[i] = toolMessages[z]
        BY <2>1, <2>6, <3>1, <4>1, <4>2
      <4>4. QED
        BY <2>1, <3>0, <4>1, <4>3 DEF p
    <3>2. asTheyWere(z)
      <4> SUFFICES ASSUME NEW i \in 1 .. n, inside(i)
                   PROVE  acc[z].content[toolMessages[i]] = content[toolMessages[i]]
        OBVIOUS
      <4>1. toolMessages[i] \in Path /\ acc[k].content[toolMessages[i]] = content[toolMessages[i]]
        BY <1>1, <3>0
      <4>2. CASE toolMessages[i] = place
        BY <2>4, <3>1, <4>1, <4>2
      <4>3. CASE toolMessages[i] # place
        BY <2>4, <4>1, <4>3
      <4>4. QED
        BY <4>2, <4>3
    <3>3. honest(z)
      <4> SUFFICES ASSUME NEW a \in acc[z].shows, NEW i \in 1 .. n, inside(i), a.path = copied(i)
                   PROVE  a.holds = content[toolMessages[i]]
        OBVIOUS
      <4>1. CASE a \in acc[k].shows
        BY <3>0, <4>1
      <4>2. CASE a \notin acc[k].shows
        <5>1. a.path = place /\ a.holds = acc[k].content[p]
          BY <2>4, <4>2
        <5>2. toolMessages[i] = p /\ acc[k].content[p] = content[p]
          BY <3>1, <5>1
        <5>3. QED
          BY <5>1, <5>2
      <4>3. QED
        BY <4>1, <4>2
    <3>4. shown(z)
      <4> SUFFICES ASSUME NEW i \in 1 .. z, inside(i)
                   PROVE  /\ acc[z].content[copied(i)] = content[toolMessages[i]]
                          /\ \E a \in acc[z].shows : a.path = copied(i)
        OBVIOUS
      <4>0. i \in 1 .. n /\ (i = z \/ i \in 1 .. k)
        BY <2>1 DEF z
      <4>1. copied(i) \in Path
        BY <1>3, <4>0
      <4>2. CASE copied(i) = place
        <5>1. toolMessages[i] = p /\ acc[k].content[p] = content[p]
          BY <3>1, <4>0, <4>2
        <5>2. QED
          BY <2>4, <4>1, <4>2, <5>1
      <4>3. CASE copied(i) # place
        <5>1. i \in 1 .. k
          BY <2>3, <4>0, <4>3
        <5>2. /\ acc[k].content[copied(i)] = content[toolMessages[i]]
              /\ \E a \in acc[k].shows : a.path = copied(i)
          BY <3>0, <5>1
        <5>3. QED
          BY <2>4, <4>1, <4>3, <5>2
      <4>4. QED
        BY <4>2, <4>3
    <3>5. QED
      BY <3>2, <3>3, <3>4
  <2> HIDE DEF elsewhere, asTheyWere, honest, shown, clear
  <2>7. reached(z)
    BY <2>5, <2>6
  <2>8. QED
    BY <2>1, <2>7 DEF z
<1>6. reached(n)
  <2> HIDE DEF good
  <2>1. good \in SUBSET (0 .. n)
    BY DEF good
  <2>2. good = 0 .. n
    BY <1>1, <1>4, <1>5, <2>1, UpTo
  <2>3. n \in good
    BY <1>1, <2>2
  <2> HIDE DEF reached
  <2>4. QED
    BY <2>3 DEF good
<1>7. done \in Attaching
  BY <1>1, <1>2
<1>8. ASSUME clear, NEW i \in 1 .. n, inside(i)
      PROVE  /\ done.content[copied(i)] = content[toolMessages[i]]
             /\ \E a \in done.shows : a.path = copied(i) /\ a.holds = content[toolMessages[i]]
  <2>1. honest(n) /\ shown(n)
    BY <1>6, <1>8
  <2>2. QED
    BY <1>2, <1>8, <2>1
<1>9. \A q \in Path : q[1] # t => done.content[q] = content[q]
  BY <1>2, <1>6
<1> HIDE DEF clear, elsewhere
<1>10. clear => \A i \in 1 .. n : inside(i) =>
             /\ done.content[copied(i)] = content[toolMessages[i]]
             /\ \E a \in done.shows : a.path = copied(i) /\ a.holds = content[toolMessages[i]]
  BY <1>8
<1>11. QED
  BY <1>7, <1>9, <1>10 DEF t, done, clear

(* The answer's files, and those of the answer that it replies to.         *)
LEMMA GiveAnswerKeeps == ASSUME OutputInv, GiveAnswer PROVE OutputInv'
<1> DEFINE t == CurrentTurn
           n == Len(toolMessages)
<1>1. /\ t \in OutputTurn /\ t \in Nat \ {0} /\ t # Outside /\ content \in Held /\ working
      /\ toolMessages \in Seq(Path) /\ n \in Nat /\ \A i \in 1 .. n : toolMessages[i] \in Path
      /\ givenAnswers \in Seq(Given) /\ Len(givenAnswers) \in Nat /\ t = Len(givenAnswers) + 1
      /\ replyTo \in 0 .. Len(givenAnswers)
      /\ \A i \in 1 .. Len(givenAnswers) : givenAnswers[i] \in Given
  <2>1. CurrentTurn \in OutputTurn /\ toolMessages \in Seq(Path) /\ content \in Held /\ working
        /\ givenAnswers \in Seq(Given) /\ replyTo \in 0 .. Len(givenAnswers)
    BY DEF OutputInv, OutputTypeOK, GiveAnswer
  <2>2. \A i \in 1 .. n : toolMessages[i] \in Path
    BY <2>1, ElementOfSeq
  <2>3. \A i \in 1 .. Len(givenAnswers) : givenAnswers[i] \in Given
    BY <2>1, ElementOfSeq
  <2>4. QED
    BY <2>1, <2>2, <2>3, OutputPaths DEF CurrentTurn
<1>2. PICK asks \in BOOLEAN, images \in {{}} \cup {{p} : p \in {q \in Path : content[q] > 0}} :
        AnswerWith(asks, images)
  BY DEF GiveAnswer
<1>3. images \subseteq Path /\ \A p \in images : content[p] > 0
  OBVIOUS
<1> HIDE DEF t
<1> DEFINE start == [content |-> content,
                     shows |-> {[path |-> p, holds |-> content[p]] : p \in images}]
           copied == TurnOutputAttachments(start, t)
           done == WithParentOutputs(copied)
           made == {[path |-> toolMessages[i], holds |-> content[toolMessages[i]]] : i \in 1 .. n}
           e == [asks |-> asks, shows |-> done.shows, images |-> images, replies |-> replyTo,
                 made |-> made]
<1>4. /\ content' = done.content /\ givenAnswers' = Append(givenAnswers, e)
  BY <1>2 DEF AnswerWith, t
<1>5. /\ start \in Attaching /\ start.content = content
      /\ \A a \in start.shows : content[a.path] > 0 /\ a.holds = content[a.path]
  BY <1>1, <1>3 DEF Attaching, Shown, Held
<1> HIDE DEF start
<1>6. /\ copied \in Attaching
      /\ \A q \in Path : q[1] # t => copied.content[q] = content[q]
  BY <1>1, <1>5, AttachmentsShow DEF t
<1>7. (\A i, j \in 1 .. n :
         (/\ ~ In(toolMessages[i], Outside) /\ ~ In(toolMessages[j], Outside)
          /\ toolMessages[i][2] = toolMessages[j][2])
         => toolMessages[i] = toolMessages[j])
      => \A i \in 1 .. n : ~ In(toolMessages[i], Outside) =>
           /\ copied.content[<<t, toolMessages[i][2]>>] = content[toolMessages[i]]
           /\ \E a \in copied.shows : /\ a.path = <<t, toolMessages[i][2]>>
                                      /\ a.holds = content[toolMessages[i]]
  BY <1>1, <1>5, AttachmentsShow DEF t
<1> HIDE DEF copied
<1>8. /\ done.content = copied.content /\ done \in Attaching /\ copied.shows \subseteq done.shows
      /\ replyTo # 0 => \A a \in givenAnswers[replyTo].shows : In(a.path, replyTo) =>
                          \E b \in done.shows : b.path = a.path
  <2>1. CASE replyTo = 0
    BY <1>6, <2>1 DEF WithParentOutputs
  <2>2. CASE replyTo # 0
    <3> DEFINE parents == {a.path : a \in {b \in givenAnswers[replyTo].shows : In(b.path, replyTo)}}
               added == {[path |-> p, holds |-> copied.content[p]] :
                           p \in parents \ {a.path : a \in copied.shows}}
    <3>1. givenAnswers[replyTo] \in Given
      BY <1>1, <2>2
    <3>2. parents \subseteq Path
      BY <3>1 DEF Given, Shown
    <3>3. copied.content \in Held /\ copied.shows \subseteq Shown
      BY <1>6 DEF Attaching
    <3>4. added \subseteq Shown
      BY <3>2, <3>3 DEF Held, Shown
    <3>5. done = [copied EXCEPT !.shows = @ \cup added]
      BY <2>2 DEF WithParentOutputs
    <3>6. \A a \in givenAnswers[replyTo].shows : In(a.path, replyTo) =>
            \E b \in copied.shows \cup added : b.path = a.path
      <4> SUFFICES ASSUME NEW a \in givenAnswers[replyTo].shows, In(a.path, replyTo),
                          ~ \E b \in copied.shows : b.path = a.path
                   PROVE  \E b \in added : b.path = a.path
        OBVIOUS
      <4>1. a.path \in parents \ {b.path : b \in copied.shows}
        OBVIOUS
      <4>2. [path |-> a.path, holds |-> copied.content[a.path]] \in added
        BY <4>1
      <4>3. QED
        BY <4>2
    <3> HIDE DEF added, parents, done
    <3>7. /\ done.content = copied.content /\ done.shows = copied.shows \cup added
          /\ done \in Attaching
      BY <1>6, <3>4, <3>5 DEF Attaching
    <3>8. QED
      BY <3>6, <3>7
  <2>3. QED
    BY <2>1, <2>2
<1> HIDE DEF done
<1>9. made \subseteq Shown
  BY <1>1 DEF Shown, Held
<1>10. /\ e \in Given /\ e.shows = done.shows /\ e.made = made /\ e.replies = replyTo
  <2>1. done.shows \subseteq Shown
    BY <1>8 DEF Attaching
  <2> HIDE DEF made
  <2>2. QED
    BY <1>1, <1>3, <1>9, <2>1 DEF Given
<1> HIDE DEF e
<1>11. /\ givenAnswers' \in Seq(Given) /\ Len(givenAnswers') = t /\ givenAnswers'[t] = e
       /\ \A i \in 1 .. Len(givenAnswers) : givenAnswers'[i] = givenAnswers[i]
  BY <1>1, <1>4, <1>10, AppendProperties
<1>12. /\ content' \in Held /\ \A q \in Path : q[1] # t => content'[q] = content[q]
  BY <1>4, <1>6, <1>8 DEF Attaching
<1>13. ~ working' /\ UNCHANGED <<writes, toolMessages, replyTo, rewritten>>
  BY DEF GiveAnswer
<1>14. OutputTypeOK'
  <2>1. replyTo' \in 0 .. Len(givenAnswers')
    BY <1>1, <1>11, <1>13
  <2>2. writes \in Nat /\ rewritten \subseteq Path
    BY DEF OutputInv, OutputTypeOK
  <2>3. writes' \in Nat /\ rewritten' \subseteq Path /\ toolMessages' \in Seq(Path)
    BY <1>1, <1>13, <2>2
  <2>4. working' \in BOOLEAN
    BY DEF GiveAnswer
  <2>5. content' \in Held /\ givenAnswers' \in Seq(Given)
    BY <1>11, <1>12
  <2>6. QED
    BY <2>1, <2>3, <2>4, <2>5 DEF OutputTypeOK
<1>15. DirectoriesAreOwn'
  <2> SUFFICES ASSUME NEW p \in Path, CurrentTurn' <= p[1], p[1] # Outside, content'[p] > 0
               PROVE  FALSE
    BY <1>13 DEF DirectoriesAreOwn
  <2>1. CurrentTurn' = t + 1 /\ p[1] \in Nat
    BY <1>1, <1>11, OutputPaths DEF CurrentTurn
  <2>2. p[1] # t /\ t <= p[1]
    BY <1>1, <2>1
  <2>3. content[p] > 0
    BY <1>12, <2>2
  <2>4. QED
    BY <2>2, <2>3 DEF OutputInv, DirectoriesAreOwn, t
<1>16. RepliesLookBack'
  <2> SUFFICES ASSUME NEW i \in 1 .. t PROVE givenAnswers'[i].replies < i
    BY <1>11 DEF RepliesLookBack
  <2>1. CASE i = t
    BY <1>1, <1>10, <1>11, <2>1
  <2>2. CASE i # t
    <3>1. i \in 1 .. Len(givenAnswers)
      BY <1>1, <2>2
    <3>2. QED
      BY <1>11, <3>1 DEF OutputInv, RepliesLookBack
  <2>3. QED
    BY <2>1, <2>2
<1>17. WorkStaysShown'
  <2> SUFFICES ASSUME NEW i \in 1 .. t, ~ NamesClash(givenAnswers'[i]),
                      NEW m \in givenAnswers'[i].made, ~ In(m.path, Outside)
               PROVE  \E a \in givenAnswers'[i].shows :
                        /\ In(a.path, i) /\ a.path[2] = m.path[2] /\ a.holds = m.holds
                        /\ content'[a.path] = m.holds \/ a.path \in rewritten'
    BY <1>11 DEF WorkStaysShown, NamesClash, In
  <2>1. CASE i = t
    <3>1. PICK j \in 1 .. n :
            m = [path |-> toolMessages[j], holds |-> content[toolMessages[j]]]
      BY <1>10, <1>11, <2>1
    <3>2. ASSUME NEW k \in 1 .. n, NEW l \in 1 .. n,
                 ~ In(toolMessages[k], Outside), ~ In(toolMessages[l], Outside),
                 toolMessages[k][2] = toolMessages[l][2]
          PROVE  toolMessages[k] = toolMessages[l]
      <4> DEFINE a == [path |-> toolMessages[k], holds |-> content[toolMessages[k]]]
                 b == [path |-> toolMessages[l], holds |-> content[toolMessages[l]]]
      <4>1. a \in made /\ b \in made /\ a.path = toolMessages[k] /\ b.path = toolMessages[l]
        OBVIOUS
      <4> HIDE DEF a, b, made
      <4>2. a \in givenAnswers'[i].made /\ b \in givenAnswers'[i].made
        BY <1>10, <1>11, <2>1, <4>1
      <4>3. a.path = b.path
        BY <3>2, <4>1, <4>2 DEF NamesClash
      <4>4. QED
        BY <4>1, <4>3
    <3>3. m.path = toolMessages[j] /\ m.holds = content[toolMessages[j]]
      BY <3>1
    <3>4. PICK a \in copied.shows : /\ a.path = <<t, toolMessages[j][2]>>
                                    /\ a.holds = content[toolMessages[j]]
      BY <1>7, <3>2, <3>3
    <3>5. copied.content[<<t, toolMessages[j][2]>>] = content[toolMessages[j]]
      BY <1>7, <3>2, <3>3
    <3>6. a \in givenAnswers'[i].shows /\ content'[a.path] = m.holds
      BY <1>4, <1>8, <1>10, <1>11, <2>1, <3>3, <3>4, <3>5
    <3>7. In(a.path, i) /\ a.path[2] = m.path[2] /\ a.holds = m.holds
      BY <2>1, <3>3, <3>4 DEF In
    <3>8. QED
      BY <3>6, <3>7
  <2>2. CASE i # t
    <3>1. i \in 1 .. Len(givenAnswers) /\ givenAnswers'[i] = givenAnswers[i]
      BY <1>1, <1>11, <2>2
    <3>2. PICK a \in givenAnswers[i].shows :
            /\ In(a.path, i) /\ a.path[2] = m.path[2] /\ a.holds = m.holds
            /\ content[a.path] = m.holds \/ a.path \in rewritten
      BY <3>1 DEF OutputInv, OutputsAreShown, WorkStaysShown
    <3>3. a.path \in Path
      <4>1. givenAnswers[i] \in Given
        BY <1>1, <3>1
      <4>2. QED
        BY <4>1 DEF Given, Shown
    <3>4. content'[a.path] = content[a.path]
      BY <1>12, <2>2, <3>2, <3>3 DEF In
    <3>5. QED
      BY <1>13, <3>1, <3>2, <3>4
  <2>3. QED
    BY <2>1, <2>2
<1>18. ReplyShowsParent'
  <2> SUFFICES ASSUME NEW i \in 1 .. t, givenAnswers'[i].replies # 0,
                      NEW a \in givenAnswers'[givenAnswers'[i].replies].shows,
                      In(a.path, givenAnswers'[i].replies)
               PROVE  \E b \in givenAnswers'[i].shows : b.path = a.path
    BY <1>11 DEF ReplyShowsParent, In
  <2>1. givenAnswers'[i].replies < i /\ givenAnswers'[i].replies \in Nat
    <3>1. givenAnswers'[i] \in Given
      BY <1>11, ElementOfSeq
    <3>2. givenAnswers'[i].replies < i
      BY <1>11, <1>16 DEF RepliesLookBack
    <3>3. QED
      BY <3>1, <3>2 DEF Given
  <2>2. givenAnswers'[i].replies \in 1 .. Len(givenAnswers)
    BY <1>1, <2>1
  <2>3. a \in givenAnswers[givenAnswers'[i].replies].shows
    BY <1>11, <2>2
  <2>4. CASE i = t
    <3>1. givenAnswers'[i].replies = replyTo /\ givenAnswers'[i].shows = done.shows
      BY <1>10, <1>11, <2>4
    <3>2. QED
      BY <1>8, <2>3, <3>1
  <2>5. CASE i # t
    <3>1. i \in 1 .. Len(givenAnswers) /\ givenAnswers'[i] = givenAnswers[i]
      BY <1>1, <1>11, <2>5
    <3>2. QED
      BY <2>3, <3>1 DEF OutputInv, OutputsAreShown, ReplyShowsParent
  <2>6. QED
    BY <2>4, <2>5
<1>19. QED
  BY <1>13, <1>14, <1>15, <1>16, <1>17, <1>18 DEF OutputInv, OutputsAreShown

LEMMA OutputStep == OutputInv /\ [OutputNext]_outputVars => OutputInv'
<1> SUFFICES ASSUME OutputInv, [OutputNext]_outputVars PROVE OutputInv'
  OBVIOUS
<1>1. CASE UNCHANGED outputVars
  BY <1>1 DEF outputVars, OutputInv, OutputTypeOK, DirectoriesAreOwn, RepliesLookBack,
              OutputsAreShown, WorkStaysShown, ReplyShowsParent, CurrentTurn, NamesClash
<1>2. CASE OutputNext
  BY <1>2, StartTurnKeeps, GiveAnswerKeeps, ToolWritesKeeps DEF OutputNext
<1>3. QED
  BY <1>1, <1>2

(* What a turn made is shown at its answer and stays, and a reply goes on  *)
(* showing what the question showed.                                       *)
THEOREM OutputInvariance == OutputSpec => []OutputInv
<1>1. QED
  BY OutputInitInv, OutputStep, PTL DEF OutputSpec

THEOREM OutputsShown == OutputSpec => []OutputsAreShown
<1>1. OutputInv => OutputsAreShown
  BY DEF OutputInv
<1>2. QED
  BY <1>1, OutputInvariance, PTL
-----------------------------------------------------------------------------
(* The parser of the tags: what its searches find.                         *)
Texts == Seq(Symbol)
Tag == {OpenTag[q] : q \in Phase} \cup {CloseTag[q] : q \in Phase}

LEMMA TagsAre ==
  ASSUME NEW q \in Phase
  PROVE  /\ OpenTag[q] \in Texts /\ Len(OpenTag[q]) = 2
         /\ OpenTag[q][1] = "<" /\ OpenTag[q][2] = Letter(q)
         /\ CloseTag[q] \in Texts /\ Len(CloseTag[q]) = 3
         /\ CloseTag[q][1] = "<" /\ CloseTag[q][2] = "/" /\ CloseTag[q][3] = Letter(q)
<1>1. OpenTag[q] = <<"<", Letter(q)>> /\ CloseTag[q] = <<"<", "/", Letter(q)>>
  BY DEF OpenTag, CloseTag
<1>2. Letter(q) \in Symbol /\ "<" \in Symbol /\ "/" \in Symbol
  BY DEF Letter, Symbol
<1> HIDE DEF Letter
<1>3. QED
  BY <1>1, <1>2 DEF Texts

LEMMA LettersDiffer ==
  ASSUME NEW q \in Phase, NEW r \in Phase, Letter(q) = Letter(r)
  PROVE  q = r
BY DEF Letter, Phase

(* Where a tag stands, and where it may begin.                             *)
At(s, i, tag) ==
  /\ i \in 1 .. Len(s) - Len(tag) + 1
  /\ \A k \in 1 .. Len(tag) : s[i + k - 1] = tag[k]

LEMMA SliceIs ==
  ASSUME NEW s \in Texts, NEW i \in 1 .. Len(s) + 1, NEW j \in i - 1 .. Len(s)
  PROVE  /\ SubSeq(s, i, j) \in Texts /\ Len(SubSeq(s, i, j)) = j - i + 1
         /\ \A k \in 1 .. j - i + 1 : SubSeq(s, i, j)[k] = s[i + k - 1]
BY SubSeqProperties DEF Texts

LEMMA AtIs ==
  ASSUME NEW s \in Texts, NEW tag \in Texts, Len(tag) \in {2, 3}, NEW i \in 1 .. Len(s) - Len(tag) + 1
  PROVE  SubSeq(s, i, i + Len(tag) - 1) = tag <=> At(s, i, tag)
<1> DEFINE j == i + Len(tag) - 1
<1>1. i \in 1 .. Len(s) + 1 /\ j \in i - 1 .. Len(s) /\ j - i + 1 = Len(tag) /\ Len(s) \in Nat
  BY DEF Texts
<1> HIDE DEF j
<1>2. /\ SubSeq(s, i, j) \in Texts /\ Len(SubSeq(s, i, j)) = Len(tag)
      /\ \A k \in 1 .. Len(tag) : SubSeq(s, i, j)[k] = s[i + k - 1]
  BY <1>1, SliceIs
<1>3. SubSeq(s, i, j) = tag => At(s, i, tag)
  BY <1>2 DEF At
<1>4. At(s, i, tag) => SubSeq(s, i, j) = tag
  BY <1>2, SeqEqual DEF At, Texts
<1>5. QED
  BY <1>3, <1>4 DEF j

LEMMA MinIs ==
  ASSUME NEW S \in SUBSET Nat, S # {}
  PROVE  Min(S) \in S /\ \A y \in S : Min(S) <= y
<1>1. PICK u \in S : \A v \in S : ~ (<<v, u>> \in OpToRel(<, Nat))
  BY NatLessThanWellFounded, WFMin
<1>2. ASSUME NEW v \in S PROVE u <= v
  <2>1. u \in Nat /\ v \in Nat
    OBVIOUS
  <2>2. ~ (v < u)
    BY <1>1, <2>1 DEF OpToRel
  <2>3. QED
    BY <2>1, <2>2
<1>3. \E x \in S : \A y \in S : x <= y
  BY <1>2
<1>4. QED
  BY <1>3 DEF Min

LEMMA FindIs ==
  ASSUME NEW s \in Texts, NEW tag \in Texts, Len(tag) \in {2, 3}, NEW i, i = Find(s, tag)
  PROVE  /\ i \in Nat
         /\ i = 0 => \A j \in Nat : ~ At(s, j, tag)
         /\ i # 0 => At(s, i, tag) /\ \A j \in Nat : j < i => ~ At(s, j, tag)
<1> DEFINE there == {j \in 1 .. Len(s) - Len(tag) + 1 : SubSeq(s, j, j + Len(tag) - 1) = tag}
<1>1. i = IF there = {} THEN 0 ELSE Min(there)
  BY DEF Find
<1>2. Len(s) \in Nat /\ there \in SUBSET Nat
  BY DEF Texts
<1>3. \A j \in Nat : At(s, j, tag) <=> j \in there
  BY AtIs DEF At
<1>4. 0 \notin there
  OBVIOUS
<1> HIDE DEF there
<1>5. CASE there = {}
  BY <1>1, <1>3, <1>5
<1>6. CASE there # {}
  <2>1. Min(there) \in there /\ \A y \in there : Min(there) <= y
    BY <1>2, <1>6, MinIs
  <2>2. i = Min(there)
    BY <1>1, <1>6
  <2>3. i \in Nat /\ i \in there /\ i # 0
    BY <1>2, <1>4, <2>1, <2>2
  <2>4. ASSUME NEW j \in Nat, j < i PROVE j \notin there
    BY <2>1, <2>2, <2>3, <2>4
  <2>5. QED
    BY <1>3, <2>3, <2>4
<1>7. QED
  BY <1>5, <1>6

(* The end of a text may be the beginning of a tag.                        *)
EndsIn(s, n, tag) ==
  /\ n \in 0 .. Len(tag) - 1 /\ n <= Len(s)
  /\ \A k \in 1 .. n : s[Len(s) - n + k] = tag[k]

LEMMA SuffixIs ==
  ASSUME NEW s \in Texts, NEW tag \in Texts, NEW n \in 1 .. Len(tag) - 1
  PROVE  IsSuffix(SubSeq(tag, 1, n), s) <=> EndsIn(s, n, tag)
<1> DEFINE b == SubSeq(tag, 1, n)
           rb == Reverse(b)
           rs == Reverse(s)
<1>1. /\ b \in Texts /\ Len(b) = n /\ \A k \in 1 .. n : b[k] = tag[k]
      /\ Len(s) \in Nat /\ n \in Nat /\ Len(tag) \in Nat
  <2>1. Len(tag) \in Nat /\ 1 \in 1 .. Len(tag) + 1 /\ n \in 1 - 1 .. Len(tag) /\ Len(s) \in Nat
    BY DEF Texts
  <2>2. QED
    BY <2>1, SliceIs
<1> HIDE DEF b
<1>2. rb \in Texts /\ Len(rb) = n /\ \A k \in 1 .. n : rb[k] = b[n - k + 1]
  BY <1>1 DEF Reverse, Texts
<1>3. rs \in Texts /\ Len(rs) = Len(s) /\ \A k \in 1 .. Len(s) : rs[k] = s[Len(s) - k + 1]
  BY DEF Reverse, Texts
<1> HIDE DEF rb, rs
<1>4. IsSuffix(b, s) <=> IsPrefix(rb, rs)
  BY DEF IsSuffix, rb, rs
<1>5. IsPrefix(rb, rs) <=> n <= Len(s) /\ SubSeq(rb, 1, n) = SubSeq(rs, 1, n)
  BY <1>2, <1>3 DEF IsPrefix
<1>6. ASSUME n <= Len(s)
      PROVE  SubSeq(rb, 1, n) = SubSeq(rs, 1, n) <=> \A k \in 1 .. n : rb[k] = rs[k]
  <2> DEFINE x == SubSeq(rb, 1, n)
             y == SubSeq(rs, 1, n)
  <2>1. /\ x \in Texts /\ Len(x) = n /\ \A k \in 1 .. n : x[k] = rb[k]
        /\ y \in Texts /\ Len(y) = n /\ \A k \in 1 .. n : y[k] = rs[k]
    <3>1. 1 \in 1 .. Len(rb) + 1 /\ n \in 1 - 1 .. Len(rb) /\ 1 \in 1 .. Len(rs) + 1 /\ n \in 1 - 1 .. Len(rs)
          /\ n - 1 + 1 = n /\ \A k \in 1 .. n : 1 + k - 1 = k
      BY <1>1, <1>2, <1>3, <1>6
    <3>2. x \in Texts /\ Len(x) = n /\ \A k \in 1 .. n : x[k] = rb[k]
      BY <1>2, <3>1, SliceIs
    <3>3. y \in Texts /\ Len(y) = n /\ \A k \in 1 .. n : y[k] = rs[k]
      BY <1>3, <3>1, SliceIs
    <3>4. QED
      BY <3>2, <3>3
  <2> HIDE DEF x, y
  <2>2. (\A k \in 1 .. n : rb[k] = rs[k]) => x = y
    BY <2>1, SeqEqual DEF Texts
  <2>3. QED
    BY <2>1, <2>2 DEF x, y
<1>7. ASSUME n <= Len(s)
      PROVE  (\A k \in 1 .. n : rb[k] = rs[k]) <=> \A k \in 1 .. n : s[Len(s) - n + k] = tag[k]
  <2>1. ASSUME NEW k \in 1 .. n
        PROVE  /\ n - k + 1 \in 1 .. n /\ n - (n - k + 1) + 1 = k
               /\ rb[n - k + 1] = tag[k] /\ rs[n - k + 1] = s[Len(s) - n + k]
    <3>1. n - k + 1 \in 1 .. n /\ n - (n - k + 1) + 1 = k /\ n - k + 1 \in 1 .. Len(s)
          /\ Len(s) - (n - k + 1) + 1 = Len(s) - n + k
      BY <1>1, <1>7
    <3>2. QED
      BY <1>1, <1>2, <1>3, <3>1
  <2>2. ASSUME \A k \in 1 .. n : rb[k] = rs[k]
        PROVE  \A k \in 1 .. n : s[Len(s) - n + k] = tag[k]
    BY <2>1, <2>2
  <2>3. ASSUME \A k \in 1 .. n : s[Len(s) - n + k] = tag[k], NEW l \in 1 .. n
        PROVE  rb[l] = rs[l]
    <3>1. n - l + 1 \in 1 .. n /\ n - (n - l + 1) + 1 = l
      BY <2>1
    <3>2. rb[l] = tag[n - l + 1] /\ rs[l] = s[Len(s) - n + (n - l + 1)]
      BY <2>1, <3>1
    <3>3. QED
      BY <2>3, <3>1, <3>2
  <2>4. QED
    BY <2>2, <2>3
<1>8. n \in 0 .. Len(tag) - 1
  BY <1>1
<1>9. QED
  BY <1>4, <1>5, <1>6, <1>7, <1>8 DEF EndsIn, b

LEMMA SmallMax ==
  ASSUME NEW S \in SUBSET {0, 1, 2}, S # {}
  PROVE  Max(S) \in S /\ \A y \in S : y <= Max(S)
<1>1. \E x \in S : \A y \in S : x >= y
  <2>1. CASE 2 \in S
    BY <2>1
  <2>2. CASE 2 \notin S /\ 1 \in S
    BY <2>2
  <2>3. CASE 2 \notin S /\ 1 \notin S
    <3>1. \A y \in S : y = 0
      BY <2>3
    <3>2. 0 \in S
      BY <3>1
    <3>3. QED
      BY <3>1, <3>2
  <2>4. QED
    BY <2>1, <2>2, <2>3
<1>2. Max(S) \in S /\ \A y \in S : Max(S) >= y
  BY <1>1 DEF Max
<1>3. QED
  BY <1>2

LEMMA PartialIs ==
  ASSUME NEW s \in Texts, NEW tag \in Texts, Len(tag) \in {2, 3}, NEW n, n = PartialLength(s, tag)
  PROVE  n \in {0, 1, 2} /\ EndsIn(s, n, tag) /\ \A m \in Nat : EndsIn(s, m, tag) => m <= n
<1> DEFINE S == {m \in 1 .. Len(tag) - 1 : IsSuffix(SubSeq(tag, 1, m), s)}
           T == {0} \cup S
<1>1. n = Max(T)
  BY DEF PartialLength
<1>2. S = {m \in 1 .. Len(tag) - 1 : EndsIn(s, m, tag)}
  BY SuffixIs
<1> HIDE DEF S
<1>3. \A m \in Nat : m \in T <=> EndsIn(s, m, tag)
  <2>1. Len(s) \in Nat /\ Len(tag) \in Nat
    BY DEF Texts
  <2>2. EndsIn(s, 0, tag)
    BY <2>1 DEF EndsIn
  <2>3. ASSUME NEW m \in Nat, m # 0 PROVE m \in T <=> EndsIn(s, m, tag)
    BY <1>2, <2>1, <2>3 DEF EndsIn
  <2>4. QED
    BY <2>2, <2>3
<1>4. T \in SUBSET {0, 1, 2} /\ T # {}
  <2>1. \A m \in 1 .. Len(tag) - 1 : m = 1 \/ m = 2
    OBVIOUS
  <2>2. \A m \in S : m = 1 \/ m = 2
    BY <1>2, <2>1
  <2>3. QED
    BY <2>2
<1> HIDE DEF T
<1>5. n \in T /\ \A y \in T : y <= n
  BY <1>1, <1>4, SmallMax
<1>6. n \in {0, 1, 2} /\ n \in Nat
  BY <1>4, <1>5
<1>7. QED
  BY <1>3, <1>5, <1>6

-----------------------------------------------------------------------------
(* The body of the loop, in a phase and outside of one alike.              *)

Phases == Phase \cup {NoPhase}
TagsOf(ph) == IF ph = NoPhase THEN {OpenTag[q] : q \in Phase} ELSE {CloseTag[ph]}
Width(ph) == IF ph = NoPhase THEN 2 ELSE 3
TagEvent == Phases \X (Symbol \cup {"complete"})
Parser == [buffer : Texts, phase : Phases, out : Seq(TagEvent)]

(* What a tag leads to.                                                    *)
Opens(ph, tag, to) == ph = NoPhase /\ to \in Phase /\ tag = OpenTag[to]
Closes(ph, tag, to) == ph \in Phase /\ to = NoPhase /\ tag = CloseTag[ph]

LEMMA TagsOfAre ==
  ASSUME NEW ph \in Phases, NEW tag \in TagsOf(ph)
  PROVE  /\ tag \in Texts /\ Len(tag) = Width(ph) /\ Len(tag) \in {2, 3}
         /\ \E to \in Phases : Opens(ph, tag, to) \/ Closes(ph, tag, to)
<1>1. CASE ph = NoPhase
  BY <1>1, TagsAre DEF TagsOf, Width, Phases, Opens
<1>2. CASE ph # NoPhase
  BY <1>2, TagsAre DEF TagsOf, Width, Phases, Closes
<1>3. QED
  BY <1>1, <1>2

(* The tag of the buffer that begins first.                                *)
First(s, ph, i, tag) ==
  /\ tag \in TagsOf(ph) /\ At(s, i, tag)
  /\ \A j \in Nat, t \in TagsOf(ph) : j < i => ~ At(s, j, t)

NoTag(s, ph) == \A j \in Nat, t \in TagsOf(ph) : ~ At(s, j, t)

LEMMA OpenTags ==
  ASSUME NEW s \in Texts, NEW q \in Phase, NEW i, i = Find(s, OpenTag[q])
  PROVE  /\ i \in Nat
         /\ i = 0 => \A j \in Nat : ~ At(s, j, OpenTag[q])
         /\ i # 0 => At(s, i, OpenTag[q]) /\ \A j \in Nat : j < i => ~ At(s, j, OpenTag[q])
<1>1. OpenTag[q] \in Texts /\ Len(OpenTag[q]) \in {2, 3}
  BY TagsAre
<1>2. QED
  BY <1>1, FindIs

LEMMA NextPhaseIs ==
  ASSUME NEW s \in Texts, NEW ph, ph = NextPhase(s)
  PROVE  \/ ph = NoPhase /\ NoTag(s, NoPhase)
         \/ ph \in Phase /\ ph # NoPhase /\ First(s, NoPhase, Find(s, OpenTag[ph]), OpenTag[ph])
<1> DEFINE place(q) == Find(s, OpenTag[q])
           found == {q \in Phase : place(q) # 0}
<1>1. ph = IF found = {} THEN NoPhase
           ELSE CHOOSE q \in found : \A r \in found : place(q) <= place(r)
  BY DEF NextPhase
<1>2. \A q \in Phase : place(q) \in Nat
  BY OpenTags
<1> HIDE DEF place
<1>3. CASE found = {}
  <2>1. \A q \in Phase : place(q) = 0
    BY <1>3
  <2>2. \A q \in Phase, j \in Nat : ~ At(s, j, OpenTag[q])
    BY <2>1, OpenTags DEF place
  <2>3. QED
    BY <1>1, <1>3, <2>2 DEF NoTag, TagsOf
<1>4. CASE found # {}
  <2>1. \E q \in found : \A r \in found : place(q) <= place(r)
    <3>1. \A q \in found : q = "thinking" \/ q = "commentary"
      BY DEF Phase
    <3>2. CASE "thinking" \in found /\ "commentary" \in found
      <4>1. place("thinking") \in Nat /\ place("commentary") \in Nat
        BY <1>2 DEF Phase
      <4>2. place("thinking") <= place("commentary") \/ place("commentary") <= place("thinking")
        BY <4>1
      <4>3. QED
        BY <3>1, <3>2, <4>1, <4>2
    <3>3. CASE "thinking" \notin found \/ "commentary" \notin found
      <4>1. PICK q \in found : TRUE
        BY <1>4
      <4>2. \A r \in found : r = q
        BY <3>1, <3>3, <4>1
      <4>3. place(q) \in Nat /\ q \in found
        BY <1>2, <4>1
      <4>4. place(q) <= place(q)
        BY <4>3
      <4>5. QED
        BY <4>2, <4>3, <4>4
    <3>4. QED
      BY <3>2, <3>3
  <2>2. ph \in found /\ \A r \in found : place(ph) <= place(r)
    BY <1>1, <1>4, <2>1
  <2>3. ph \in Phase /\ place(ph) # 0 /\ place(ph) \in Nat
    BY <1>2, <2>2
  <2>4. At(s, place(ph), OpenTag[ph])
    BY <2>3, OpenTags DEF place
  <2>5. ASSUME NEW j \in Nat, NEW q \in Phase, j < place(ph) PROVE ~ At(s, j, OpenTag[q])
    <3>1. CASE place(q) = 0
      BY <3>1, OpenTags DEF place
    <3>2. CASE place(q) # 0
      <4>1. place(ph) <= place(q) /\ place(q) \in Nat
        BY <1>2, <2>2, <3>2
      <4>2. j < place(q)
        BY <2>3, <2>5, <4>1
      <4>3. QED
        BY <3>2, <4>2, OpenTags DEF place
    <3>3. QED
      BY <3>1, <3>2
  <2>6. First(s, NoPhase, place(ph), OpenTag[ph])
    BY <2>3, <2>4, <2>5 DEF First, TagsOf
  <2>7. ph # NoPhase
    BY <2>3 DEF Phase, NoPhase
  <2>8. QED
    BY <2>3, <2>6, <2>7 DEF place
<1>5. QED
  BY <1>3, <1>4

(* What is kept back of a buffer without a tag.                            *)
KeptBack(s, ph) ==
  IF ph = NoPhase THEN PartialLengthOf(s, {OpenTag[q] : q \in Phase}) ELSE PartialLength(s, CloseTag[ph])

LEMMA KeptBackIs ==
  ASSUME NEW s \in Texts, NEW ph \in Phases, NEW n, n = KeptBack(s, ph)
  PROVE  /\ n \in {0, 1, 2} /\ n <= Len(s) /\ Len(s) \in Nat
         /\ \E tag \in TagsOf(ph) : EndsIn(s, n, tag)
         /\ \A tag \in TagsOf(ph), m \in Nat : EndsIn(s, m, tag) => m <= n
<1>1. \A tag \in TagsOf(ph) : tag \in Texts /\ Len(tag) \in {2, 3}
  BY TagsOfAre
<1>2. \A tag \in TagsOf(ph) :
        /\ PartialLength(s, tag) \in {0, 1, 2} /\ EndsIn(s, PartialLength(s, tag), tag)
        /\ \A m \in Nat : EndsIn(s, m, tag) => m <= PartialLength(s, tag)
  BY <1>1, PartialIs
<1>3. \E tag \in TagsOf(ph) : n = PartialLength(s, tag)
      /\ \A t \in TagsOf(ph) : PartialLength(s, t) <= n
  <2>1. CASE ph # NoPhase
    <3>1. TagsOf(ph) = {CloseTag[ph]} /\ n = PartialLength(s, CloseTag[ph])
      BY <2>1 DEF KeptBack, TagsOf
    <3>2. n \in {0, 1, 2}
      BY <1>2, <3>1
    <3>3. n <= n
      BY <3>2
    <3>4. QED
      BY <3>1, <3>3
  <2>2. CASE ph = NoPhase
    <3> DEFINE S == {PartialLength(s, t) : t \in TagsOf(ph)}
    <3>1. n = Max(S)
      BY <2>2 DEF KeptBack, PartialLengthOf, TagsOf
    <3>2. S \in SUBSET {0, 1, 2}
      BY <1>2
    <3>3. S # {}
      <4>1. OpenTag["thinking"] \in TagsOf(ph)
        BY <2>2 DEF TagsOf, Phase
      <4>2. QED
        BY <4>1
    <3>4. n \in S /\ \A y \in S : y <= n
      <4> HIDE DEF S
      <4>1. QED
        BY <3>1, <3>2, <3>3, SmallMax
    <3>5. QED
      BY <3>4
  <2>3. QED
    BY <2>1, <2>2
<1>4. PICK tag \in TagsOf(ph) : n = PartialLength(s, tag)
                                /\ \A t \in TagsOf(ph) : PartialLength(s, t) <= n
  BY <1>3
<1>5. n \in {0, 1, 2} /\ EndsIn(s, n, tag)
  BY <1>2, <1>4
<1>6. n <= Len(s) /\ Len(s) \in Nat
  BY <1>5 DEF EndsIn, Texts
<1>7. ASSUME NEW t \in TagsOf(ph), NEW m \in Nat, EndsIn(s, m, t) PROVE m <= n
  <2>1. m <= PartialLength(s, t) /\ PartialLength(s, t) <= n /\ PartialLength(s, t) \in {0, 1, 2}
    BY <1>2, <1>4, <1>7
  <2>2. QED
    BY <1>5, <2>1
<1>8. QED
  BY <1>5, <1>6, <1>7

-----------------------------------------------------------------------------
(* Events: what a base tells, and the text from a to x as text of ph.      *)

Tells(out, base, ph, s, a, x) ==
  /\ out \in Seq(TagEvent) /\ Len(out) = Len(base) + (x - a)
  /\ \A i \in 1 .. Len(base) : out[i] = base[i]
  /\ \A i \in 1 .. x - a : out[Len(base) + i] = <<ph, s[a + i]>>

LEMMA TellsSame ==
  ASSUME NEW base \in Seq(TagEvent), NEW ph, NEW s, NEW a \in Nat, NEW x \in Nat, a <= x,
         NEW o1, NEW o2, Tells(o1, base, ph, s, a, x), Tells(o2, base, ph, s, a, x)
  PROVE  o1 = o2
<1>1. Len(base) \in Nat /\ x - a \in Nat
  OBVIOUS
<1>2. /\ o1 \in Seq(TagEvent) /\ o2 \in Seq(TagEvent)
      /\ Len(o1) = Len(base) + (x - a) /\ Len(o2) = Len(base) + (x - a)
  BY DEF Tells
<1>3. ASSUME NEW i \in 1 .. Len(o1) PROVE o1[i] = o2[i]
  <2>1. CASE i \in 1 .. Len(base)
    BY <2>1 DEF Tells
  <2>2. CASE i \notin 1 .. Len(base)
    <3>1. i - Len(base) \in 1 .. x - a /\ Len(base) + (i - Len(base)) = i
      BY <1>1, <1>2, <2>2
    <3>2. o1[Len(base) + (i - Len(base))] = o2[Len(base) + (i - Len(base))]
      BY <3>1 DEF Tells
    <3>3. QED
      BY <3>1, <3>2
  <2>3. QED
    BY <2>1, <2>2
<1>4. QED
  BY <1>2, <1>3, SeqEqual

LEMMA TellsNothing ==
  ASSUME NEW base \in Seq(TagEvent), NEW ph, NEW s, NEW a \in Nat
  PROVE  Tells(base, base, ph, s, a, a)
BY DEF Tells

LEMMA TaggedIs ==
  ASSUME NEW ph \in Phases, NEW b \in Texts
  PROVE  /\ Tagged(ph, b) \in Seq(TagEvent) /\ Len(Tagged(ph, b)) = Len(b)
         /\ \A k \in 1 .. Len(b) : Tagged(ph, b)[k] = <<ph, b[k]>>
<1>1. Len(b) \in Nat /\ DOMAIN b = 1 .. Len(b) /\ \A k \in 1 .. Len(b) : b[k] \in Symbol
  BY DEF Texts
<1>2. \A k \in 1 .. Len(b) : <<ph, b[k]>> \in TagEvent
  BY <1>1 DEF TagEvent
<1>3. Tagged(ph, b) = [k \in 1 .. Len(b) |-> <<ph, b[k]>>]
  BY <1>1 DEF Tagged
<1>4. QED
  BY <1>1, <1>2, <1>3

LEMMA TellsMore ==
  ASSUME NEW base \in Seq(TagEvent), NEW ph \in Phases, NEW s, NEW a \in Nat, NEW x \in Nat, a <= x,
         NEW out, Tells(out, base, ph, s, a, x), NEW b \in Texts,
         \A k \in 1 .. Len(b) : b[k] = s[x + k]
  PROVE  Tells(out \o Tagged(ph, b), base, ph, s, a, x + Len(b))
<1> DEFINE t == Tagged(ph, b)
           o == out \o t
           y == x + Len(b)
<1>1. /\ t \in Seq(TagEvent) /\ Len(t) = Len(b) /\ Len(b) \in Nat
      /\ \A k \in 1 .. Len(b) : t[k] = <<ph, s[x + k]>>
  BY TaggedIs DEF Texts
<1> HIDE DEF t
<1>2. /\ out \in Seq(TagEvent) /\ Len(out) = Len(base) + (x - a) /\ Len(base) \in Nat /\ x - a \in Nat
      /\ \A i \in 1 .. Len(base) : out[i] = base[i]
      /\ \A i \in 1 .. x - a : out[Len(base) + i] = <<ph, s[a + i]>>
  <2>1. Len(base) \in Nat /\ x - a \in Nat
    OBVIOUS
  <2>2. /\ out \in Seq(TagEvent) /\ Len(out) = Len(base) + (x - a)
        /\ \A i \in 1 .. Len(base) : out[i] = base[i]
        /\ \A i \in 1 .. x - a : out[Len(base) + i] = <<ph, s[a + i]>>
    BY DEF Tells
  <2>3. QED
    BY <2>1, <2>2
<1>3. /\ o \in Seq(TagEvent) /\ Len(o) = Len(out) + Len(t)
      /\ \A i \in 1 .. Len(out) + Len(t) : o[i] = IF i <= Len(out) THEN out[i] ELSE t[i - Len(out)]
  BY <1>1, <1>2, ConcatProperties
<1> HIDE DEF o
<1>4. Len(o) = Len(base) + (y - a) /\ y - a = (x - a) + Len(b)
  BY <1>1, <1>2, <1>3
<1>5. \A i \in 1 .. Len(base) : o[i] = base[i]
  BY <1>1, <1>2, <1>3
<1>6. ASSUME NEW i \in 1 .. y - a PROVE o[Len(base) + i] = <<ph, s[a + i]>>
  <2> DEFINE z == Len(base) + i
  <2>1. z \in 1 .. Len(out) + Len(t)
    BY <1>1, <1>2, <1>4
  <2>2. o[z] = IF z <= Len(out) THEN out[z] ELSE t[z - Len(out)]
    BY <1>3, <2>1
  <2>3. CASE i <= x - a
    <3>1. i \in 1 .. x - a /\ z <= Len(out)
      BY <1>2, <1>4, <2>3
    <3>2. QED
      BY <1>2, <2>2, <3>1
  <2>4. CASE ~ (i <= x - a)
    <3>1. /\ i - (x - a) \in 1 .. Len(b) /\ z - Len(out) = i - (x - a) /\ ~ (z <= Len(out))
          /\ x + (i - (x - a)) = a + i
      BY <1>1, <1>2, <1>4, <2>4
    <3>2. o[z] = t[i - (x - a)]
      BY <2>2, <3>1
    <3>3. t[i - (x - a)] = <<ph, s[x + (i - (x - a))]>>
      BY <1>1, <3>1
    <3>4. QED
      BY <3>1, <3>2, <3>3
  <2>5. QED
    BY <2>3, <2>4
<1>7. QED
  BY <1>3, <1>4, <1>5, <1>6 DEF Tells, o, t

LEMMA TellsNext ==
  ASSUME NEW base \in Seq(TagEvent), NEW ph \in Phases, NEW s, NEW a \in Nat, NEW x \in Nat, a <= x,
         NEW out, Tells(out, base, ph, s, a, x), s[x + 1] \in Symbol
  PROVE  Tells(Append(out, <<ph, s[x + 1]>>), base, ph, s, a, x + 1)
<1> DEFINE e == <<ph, s[x + 1]>>
           o == Append(out, e)
<1>1. e \in TagEvent
  BY DEF TagEvent
<1>2. /\ out \in Seq(TagEvent) /\ Len(out) = Len(base) + (x - a) /\ Len(base) \in Nat /\ x - a \in Nat
      /\ \A i \in 1 .. Len(base) : out[i] = base[i]
      /\ \A i \in 1 .. x - a : out[Len(base) + i] = <<ph, s[a + i]>>
  <2>1. Len(base) \in Nat /\ x - a \in Nat
    OBVIOUS
  <2>2. /\ out \in Seq(TagEvent) /\ Len(out) = Len(base) + (x - a)
        /\ \A i \in 1 .. Len(base) : out[i] = base[i]
        /\ \A i \in 1 .. x - a : out[Len(base) + i] = <<ph, s[a + i]>>
    BY DEF Tells
  <2>3. QED
    BY <2>1, <2>2
<1> HIDE DEF e
<1>3. /\ o \in Seq(TagEvent) /\ Len(o) = Len(out) + 1 /\ o[Len(out) + 1] = e
      /\ \A i \in 1 .. Len(out) : o[i] = out[i]
  BY <1>1, <1>2, AppendProperties
<1> HIDE DEF o
<1>4. Len(o) = Len(base) + ((x + 1) - a)
  BY <1>2, <1>3
<1>5. \A i \in 1 .. Len(base) : o[i] = base[i]
  BY <1>2, <1>3
<1>6. ASSUME NEW i \in 1 .. (x + 1) - a PROVE o[Len(base) + i] = <<ph, s[a + i]>>
  <2>1. CASE i \in 1 .. x - a
    <3>1. Len(base) + i \in 1 .. Len(out)
      BY <1>2, <2>1
    <3>2. QED
      BY <1>2, <1>3, <2>1, <3>1
  <2>2. CASE i \notin 1 .. x - a
    <3>1. Len(base) + i = Len(out) + 1 /\ a + i = x + 1
      BY <1>2, <2>2
    <3>2. QED
      BY <1>3, <3>1 DEF e
  <2>3. QED
    BY <2>1, <2>2
<1>7. QED
  BY <1>3, <1>4, <1>5, <1>6 DEF Tells, o, e

LEMMA TellsLess ==
  ASSUME NEW base \in Seq(TagEvent), NEW ph, NEW s, NEW a \in Nat, NEW x \in Nat, NEW y \in Nat,
         a <= x, x <= y, NEW out, Tells(out, base, ph, s, a, y)
  PROVE  Tells(SubSeq(out, 1, Len(out) - (y - x)), base, ph, s, a, x)
<1> DEFINE n == Len(out) - (y - x)
           o == SubSeq(out, 1, n)
<1>1. /\ out \in Seq(TagEvent) /\ Len(out) = Len(base) + (y - a) /\ Len(base) \in Nat
      /\ \A i \in 1 .. Len(base) : out[i] = base[i]
      /\ \A i \in 1 .. y - a : out[Len(base) + i] = <<ph, s[a + i]>>
  <2>1. Len(base) \in Nat
    OBVIOUS
  <2>2. /\ out \in Seq(TagEvent) /\ Len(out) = Len(base) + (y - a)
        /\ \A i \in 1 .. Len(base) : out[i] = base[i]
        /\ \A i \in 1 .. y - a : out[Len(base) + i] = <<ph, s[a + i]>>
    BY DEF Tells
  <2>3. QED
    BY <2>1, <2>2
<1>2. n \in Nat /\ n = Len(base) + (x - a) /\ \A i \in 1 .. n : out[i] \in TagEvent
  BY <1>1
<1> HIDE DEF n
<1>3. /\ o \in Seq(TagEvent) /\ Len(o) = IF 1 <= n THEN n - 1 + 1 ELSE 0
      /\ \A i \in 1 .. n - 1 + 1 : o[i] = out[1 + i - 1]
  BY <1>2, SubSeqProperties
<1>4. Len(o) = n /\ \A i \in 1 .. n : o[i] = out[i]
  BY <1>2, <1>3
<1> HIDE DEF o
<1>5. \A i \in 1 .. x - a : i \in 1 .. y - a /\ Len(base) + i \in 1 .. n
  BY <1>1, <1>2
<1>6. \A i \in 1 .. Len(base) : i \in 1 .. n
  BY <1>1, <1>2
<1>7. Tells(o, base, ph, s, a, x)
  BY <1>1, <1>2, <1>3, <1>4, <1>5, <1>6 DEF Tells
<1>8. QED
  BY <1>7 DEF o, n

-----------------------------------------------------------------------------
(* One pass over the whole text.                                           *)

Pass == [phase : Phases, at : Nat, out : Seq(TagEvent)]
PassBegin == [phase |-> NoPhase, at |-> 0, out |-> << >>]

IsPass(acc, s) ==
  /\ acc \in [0 .. Len(s) -> Pass] /\ acc[0] = PassBegin
  /\ \A j \in 1 .. Len(s) : acc[j] = ReadSymbol(s, acc[j - 1], j)

LEMMA EndsAre ==
  ASSUME NEW s \in Texts, NEW tag \in Texts, Len(tag) \in {2, 3}, NEW j \in 1 .. Len(s), NEW a \in Nat
  PROVE  Ends(s, j, a, tag) <=> j - a >= Len(tag) /\ At(s, j - Len(tag) + 1, tag)
<1> DEFINE i == j - Len(tag) + 1
<1>1. Len(s) \in Nat
  BY DEF Texts
<1>2. CASE j - a >= Len(tag)
  <2>1. i \in 1 .. Len(s) - Len(tag) + 1 /\ i + Len(tag) - 1 = j
    BY <1>1, <1>2
  <2> HIDE DEF i
  <2>2. SubSeq(s, i, i + Len(tag) - 1) = tag <=> At(s, i, tag)
    BY <2>1, AtIs
  <2>3. QED
    BY <1>2, <2>1, <2>2 DEF Ends, i
<1>3. CASE ~ (j - a >= Len(tag))
  BY <1>3 DEF Ends
<1>4. QED
  BY <1>2, <1>3

LEMMA TagTypes ==
  ASSUME NEW tag \in Tag
  PROVE  tag \in Texts /\ Len(tag) \in {2, 3}
BY TagsAre DEF Tag

LEMMA TagsOfTags ==
  ASSUME NEW ph \in Phases
  PROVE  TagsOf(ph) \subseteq Tag
BY DEF TagsOf, Tag, Phases

LEMMA EventTypes ==
  ASSUME NEW ph \in Phases, NEW c \in Symbol
  PROVE  <<ph, c>> \in TagEvent /\ Completed(ph) \in TagEvent
BY DEF TagEvent, Completed

LEMMA ShorterIs ==
  ASSUME NEW out \in Seq(TagEvent), NEW n \in Int, n <= Len(out)
  PROVE  SubSeq(out, 1, n) \in Seq(TagEvent)
<1>1. \A i \in 1 .. n : out[i] \in TagEvent
  OBVIOUS
<1>2. QED
  BY <1>1, SubSeqProperties

LEMMA ReadTypes ==
  ASSUME NEW s \in Texts, NEW q \in Pass, NEW j \in 1 .. Len(s)
  PROVE  ReadSymbol(s, q, j) \in Pass
<1> DEFINE longer == Append(q.out, <<q.phase, s[j]>>)
           opened == {ph \in Phase : q.phase = NoPhase /\ Ends(s, j, q.at, OpenTag[ph])}
           closes == q.phase # NoPhase /\ Ends(s, j, q.at, CloseTag[q.phase])
           to == CHOOSE r \in opened : TRUE
<1>1. /\ q.phase \in Phases /\ q.at \in Nat /\ q.out \in Seq(TagEvent) /\ j \in Nat
      /\ s[j] \in Symbol
  BY DEF Pass, Texts
<1>2. longer \in Seq(TagEvent) /\ Len(longer) \in Nat
  BY <1>1, EventTypes, AppendProperties
<1> HIDE DEF longer
<1>3. CASE opened # {}
  <2>1. to \in Phase /\ to \in Phases
    BY <1>3 DEF Phases
  <2>2. Len(OpenTag[to]) = 2 /\ Len(longer) - 2 \in Int
    BY <1>2, <2>1, TagsAre
  <2> HIDE DEF opened, to
  <2>3. SubSeq(longer, 1, Len(longer) - Len(OpenTag[to])) \in Seq(TagEvent)
    BY <1>2, <2>2, ShorterIs
  <2>4. ReadSymbol(s, q, j) = [phase |-> to, at |-> j,
                               out |-> SubSeq(longer, 1, Len(longer) - Len(OpenTag[to]))]
    BY <1>3 DEF ReadSymbol, longer, opened, to
  <2>5. QED
    BY <1>1, <2>1, <2>3, <2>4 DEF Pass
<1>4. CASE opened = {} /\ closes
  <2>1. q.phase \in Phase
    BY <1>1, <1>4 DEF Phases
  <2>2. Len(CloseTag[q.phase]) = 3 /\ Len(longer) - 3 \in Int
    BY <1>2, <2>1, TagsAre
  <2> DEFINE less == SubSeq(longer, 1, Len(longer) - Len(CloseTag[q.phase]))
  <2>3. less \in Seq(TagEvent) /\ Completed(q.phase) \in TagEvent
    <3>1. less \in Seq(TagEvent)
      BY <1>2, <2>2, ShorterIs
    <3>2. Completed(q.phase) \in TagEvent
      BY <1>1, EventTypes
    <3>3. QED
      BY <3>1, <3>2
  <2>4. ReadSymbol(s, q, j) = [phase |-> NoPhase, at |-> j, out |-> Append(less, Completed(q.phase))]
    BY <1>4 DEF ReadSymbol, longer
  <2> HIDE DEF less
  <2>5. Append(less, Completed(q.phase)) \in Seq(TagEvent) /\ NoPhase \in Phases
    BY <2>3, AppendProperties DEF Phases
  <2>6. QED
    BY <1>1, <2>4, <2>5 DEF Pass
<1>5. CASE opened = {} /\ ~ closes
  <2>1. ReadSymbol(s, q, j) = [q EXCEPT !.out = longer]
    BY <1>5 DEF ReadSymbol, longer
  <2>2. QED
    BY <1>2, <2>1 DEF Pass
<1>6. QED
  BY <1>3, <1>4, <1>5

(* A symbol that no tag ends with.                                         *)
LEMMA ReadPlain ==
  ASSUME NEW s \in Texts, NEW q \in Pass, NEW j \in 1 .. Len(s),
         \A tag \in TagsOf(q.phase) : ~ Ends(s, j, q.at, tag)
  PROVE  ReadSymbol(s, q, j) = [q EXCEPT !.out = Append(q.out, <<q.phase, s[j]>>)]
<1> DEFINE opened == {ph \in Phase : q.phase = NoPhase /\ Ends(s, j, q.at, OpenTag[ph])}
           closes == q.phase # NoPhase /\ Ends(s, j, q.at, CloseTag[q.phase])
<1>1. opened = {} /\ ~ closes
  BY DEF TagsOf
<1>2. QED
  BY <1>1 DEF ReadSymbol

(* The last symbol of a tag that begins a phase, and of one that ends it.  *)
Longer(s, q, j) == Append(q.out, <<q.phase, s[j]>>)
Shorter(out, n) == SubSeq(out, 1, Len(out) - n)

LEMMA ReadOpening ==
  ASSUME NEW s \in Texts, NEW q \in Pass, NEW j \in 1 .. Len(s), NEW tag, NEW to,
         Opens(q.phase, tag, to), Ends(s, j, q.at, tag)
  PROVE  ReadSymbol(s, q, j) = [phase |-> to, at |-> j, out |-> Shorter(Longer(s, q, j), 2)]
<1> DEFINE opened == {ph \in Phase : q.phase = NoPhase /\ Ends(s, j, q.at, OpenTag[ph])}
<1>1. q.at \in Nat /\ q.phase \in Phases /\ j \in Nat
  BY DEF Pass
<1>2. q.phase = NoPhase /\ to \in Phase /\ tag = OpenTag[to] /\ to \in opened
  BY DEF Opens
<1>3. ASSUME NEW r \in opened PROVE r = to
  <2>1. /\ r \in Phase /\ Ends(s, j, q.at, OpenTag[r]) /\ Ends(s, j, q.at, OpenTag[to])
        /\ OpenTag[r] \in Texts /\ Len(OpenTag[r]) = 2
        /\ OpenTag[to] \in Texts /\ Len(OpenTag[to]) = 2
    BY <1>2, TagsAre
  <2>2. At(s, j - 2 + 1, OpenTag[r]) /\ At(s, j - 2 + 1, OpenTag[to])
    BY <1>1, <2>1, EndsAre
  <2>3. OpenTag[r][2] = OpenTag[to][2]
    <3>1. 2 \in 1 .. 2
      OBVIOUS
    <3>2. QED
      BY <2>1, <2>2, <3>1 DEF At
  <2>4. Letter(r) = Letter(to)
    BY <1>2, <2>1, <2>3, TagsAre
  <2>5. QED
    BY <1>2, <2>1, <2>4, LettersDiffer
<1>4. (CHOOSE r \in opened : TRUE) = to /\ opened # {}
  BY <1>2, <1>3
<1>5. Len(OpenTag[to]) = 2
  BY <1>2, TagsAre
<1>6. QED
  BY <1>4, <1>5 DEF ReadSymbol, Longer, Shorter

LEMMA ReadClosing ==
  ASSUME NEW s, NEW q, NEW j, NEW tag, NEW to,
         Closes(q.phase, tag, to), Ends(s, j, q.at, tag)
  PROVE  ReadSymbol(s, q, j) = [phase |-> to, at |-> j,
           out |-> Append(Shorter(Longer(s, q, j), 3), Completed(q.phase))]
<1> DEFINE opened == {ph \in Phase : q.phase = NoPhase /\ Ends(s, j, q.at, OpenTag[ph])}
           closes == q.phase # NoPhase /\ Ends(s, j, q.at, CloseTag[q.phase])
<1>1. q.phase \in Phase /\ to = NoPhase /\ tag = CloseTag[q.phase] /\ q.phase # NoPhase
  BY DEF Closes, Phase, NoPhase
<1>2. closes /\ opened = {} /\ Len(CloseTag[q.phase]) = 3
  BY <1>1, TagsAre
<1>3. QED
  BY <1>1, <1>2 DEF ReadSymbol, Longer, Shorter

(* The pass of a text: its accumulator after each symbol.                  *)
LEMMA WholeIs ==
  ASSUME NEW s \in Texts
  PROVE  \E acc : IsPass(acc, s) /\ WholeText(s) = acc[Len(s)]
<1> DEFINE n == Len(s)
           D == 1 .. n
           S == Pass
           places == [i \in D |-> i]
           start == PassBegin
           walk(F, u) == IF u = {} THEN start ELSE ReadSymbol(s, F[u \ {Max(u)}], places[Max(u)])
           iter == CHOOSE F : F = [u \in SUBSET D |-> walk(F, u)]
           op == [x \in S \X D |-> ReadSymbol(s, x[1], x[2])]
           acc == [k \in 0 .. n |-> iter[1 .. k]]
<1>1. n \in Nat /\ DOMAIN s = D /\ places \in [D -> D] /\ DOMAIN places = D
  BY DEF Texts
<1>2. op \in [S \X D -> S]
  <2>1. \A x \in S \X D : ReadSymbol(s, x[1], x[2]) \in S
    BY ReadTypes
  <2>2. QED
    BY <2>1
<1>3. start \in S
  BY DEF Pass, PassBegin, Phases
<1>4. PICK G : Folds(G, S, op, start, n, places)
  <2> HIDE DEF op, n, S, start, places
  <2>1. QED
    BY <1>1, <1>2, <1>3, FoldExists
<1> HIDE DEF S, start, places
<1>5. ASSUME NEW u \in SUBSET D PROVE G[u] = walk(G, u)
  <2>1. G[u] = (IF u = {} THEN start ELSE op[<<G[u \ {Max(u)}], places[Max(u)]>>])
        /\ G[u \ {Max(u)}] \in S
    <3> HIDE DEF op
    <3>1. u \ {Max(u)} \in SUBSET D
      OBVIOUS
    <3>2. QED
      BY <1>4, <3>1 DEF Folds
  <2>2. CASE u = {}
    BY <2>1, <2>2
  <2>3. CASE u # {}
    <3>1. places[Max(u)] \in D
      BY <1>1, <2>3, MaxOfBounded
    <3>2. op[<<G[u \ {Max(u)}], places[Max(u)]>>] = ReadSymbol(s, G[u \ {Max(u)}], places[Max(u)])
      BY <2>1, <3>1
    <3> HIDE DEF op
    <3>3. QED
      BY <2>1, <2>3, <3>2
  <2>4. QED
    BY <2>2, <2>3
<1>6. G = [u \in SUBSET D |-> walk(G, u)]
  <2>1. G \in [SUBSET D -> S]
    BY <1>4 DEF Folds
  <2> HIDE DEF walk, D
  <2>2. QED
    BY <1>5, <2>1
<1>7. iter = [u \in SUBSET D |-> walk(iter, u)]
  <2> HIDE DEF walk, D
  <2>1. QED
    BY <1>6
<1>8. \A u \in SUBSET D : iter[u] = walk(iter, u)
  <2> HIDE DEF walk, D, iter
  <2>1. QED
    BY <1>7
<1>9. WholeText(s) = iter[D]
  BY <1>1 DEF WholeText, FoldLeftDomain, FoldLeft, MapThenFoldSet, start, places, PassBegin
<1> HIDE DEF iter
<1>10. Runs(iter, S, op, start, n, places)
  <2>1. ASSUME NEW u \in SUBSET D, u # {}, iter[u \ {Max(u)}] \in S
        PROVE  iter[u] = op[<<iter[u \ {Max(u)}], places[Max(u)]>>]
    <3>1. places[Max(u)] \in D
      BY <1>1, <2>1, MaxOfBounded
    <3>2. iter[u] = ReadSymbol(s, iter[u \ {Max(u)}], places[Max(u)])
      BY <1>8, <2>1
    <3>3. QED
      BY <2>1, <3>1, <3>2
  <2>2. iter[{}] = start
    BY <1>8
  <2> HIDE DEF op, walk
  <2>3. QED
    BY <2>1, <2>2 DEF Runs
<1>11. Walks(acc, S, op, start, n, places)
  <2>1. acc = [k \in 0 .. n |-> iter[1 .. k]]
    OBVIOUS
  <2> HIDE DEF acc, op, n
  <2>2. QED
    BY <1>1, <1>2, <1>3, <1>10, <2>1, FoldRun
<1>12. acc[n] = iter[D]
  BY <1>1
<1> HIDE DEF acc
<1>13. ASSUME NEW k \in 1 .. n PROVE acc[k] = ReadSymbol(s, acc[k - 1], k)
  <2>1. acc[k] = op[<<acc[k - 1], places[k]>>] /\ acc[k - 1] \in S
    <3> HIDE DEF op
    <3>1. k - 1 \in 0 .. n
      BY <1>1
    <3>2. QED
      BY <1>11, <3>1 DEF Walks
  <2>2. places[k] = k /\ k \in D
    BY <1>1 DEF places
  <2>3. QED
    BY <2>1, <2>2
<1>14. acc \in [0 .. n -> S] /\ acc[0] = start
  <2> HIDE DEF op
  <2>1. QED
    BY <1>11 DEF Walks
<1>15. IsPass(acc, s)
  BY <1>13, <1>14 DEF S, start, IsPass
<1>16. QED
  BY <1>9, <1>12, <1>15

(* What a pass has read does not depend on what follows.                   *)
LEMMA ReadsAgree ==
  ASSUME NEW s \in Texts, NEW t \in Texts, NEW q \in Pass, NEW j, j \in 1 .. Len(s), j \in 1 .. Len(t),
         \A k \in 1 .. j : s[k] = t[k]
  PROVE  ReadSymbol(s, q, j) = ReadSymbol(t, q, j)
<1>1. q.at \in Nat /\ q.phase \in Phases /\ j \in Nat /\ s[j] = t[j] /\ Len(s) \in Nat /\ Len(t) \in Nat
  BY DEF Pass, Texts
<1>2. ASSUME NEW tag \in Tag PROVE Ends(s, j, q.at, tag) <=> Ends(t, j, q.at, tag)
  <2>1. tag \in Texts /\ Len(tag) \in {2, 3}
    BY TagTypes
  <2> DEFINE i == j - Len(tag) + 1
  <2>2. Ends(s, j, q.at, tag) <=> j - q.at >= Len(tag) /\ At(s, i, tag)
    BY <1>1, <2>1, EndsAre
  <2>3. Ends(t, j, q.at, tag) <=> j - q.at >= Len(tag) /\ At(t, i, tag)
    BY <1>1, <2>1, EndsAre
  <2>4. ASSUME j - q.at >= Len(tag)
        PROVE  /\ i \in 1 .. Len(s) - Len(tag) + 1 /\ i \in 1 .. Len(t) - Len(tag) + 1
               /\ \A k \in 1 .. Len(tag) : i + k - 1 \in 1 .. j
    BY <1>1, <2>1, <2>4
  <2> HIDE DEF i
  <2>5. ASSUME j - q.at >= Len(tag) PROVE At(s, i, tag) <=> At(t, i, tag)
    <3>1. \A k \in 1 .. Len(tag) : s[i + k - 1] = t[i + k - 1]
      BY <2>4, <2>5
    <3>2. QED
      BY <2>4, <2>5, <3>1 DEF At
  <2>6. QED
    BY <2>2, <2>3, <2>5
<1>3. \A ph \in Phase : OpenTag[ph] \in Tag
  BY DEF Tag
<1>4. q.phase # NoPhase => CloseTag[q.phase] \in Tag
  BY <1>1 DEF Tag, Phases
<1>5. {ph \in Phase : q.phase = NoPhase /\ Ends(s, j, q.at, OpenTag[ph])}
        = {ph \in Phase : q.phase = NoPhase /\ Ends(t, j, q.at, OpenTag[ph])}
  BY <1>2, <1>3
<1>6. (q.phase # NoPhase /\ Ends(s, j, q.at, CloseTag[q.phase]))
        <=> (q.phase # NoPhase /\ Ends(t, j, q.at, CloseTag[q.phase]))
  BY <1>2, <1>4
<1> HIDE DEF Ends
<1>7. QED
  BY <1>1, <1>5, <1>6 DEF ReadSymbol

LEMMA PassesAgree ==
  ASSUME NEW s \in Texts, NEW t \in Texts, NEW f, IsPass(f, s), NEW g, IsPass(g, t),
         NEW m \in Nat, m <= Len(s), m <= Len(t), \A k \in 1 .. m : s[k] = t[k]
  PROVE  \A j \in 0 .. m : f[j] = g[j]
<1> DEFINE same == {j \in 0 .. m : f[j] = g[j]}
<1>1. Len(s) \in Nat /\ Len(t) \in Nat
  BY DEF Texts
<1>2. 0 \in same
  BY DEF IsPass
<1>3. ASSUME NEW k \in 0 .. m - 1, k \in same PROVE k + 1 \in same
  <2> DEFINE j == k + 1
  <2>1. j \in 1 .. Len(s) /\ j \in 1 .. Len(t) /\ j - 1 = k /\ j \in 0 .. m
        /\ k \in 0 .. Len(s) /\ \A i \in 1 .. j : i \in 1 .. m
    BY <1>1
  <2> HIDE DEF j
  <2>2. f[k] = g[k] /\ f[k] \in Pass
    BY <1>3, <2>1 DEF IsPass
  <2>3. f[j] = ReadSymbol(s, f[k], j) /\ g[j] = ReadSymbol(t, g[k], j)
    BY <2>1 DEF IsPass
  <2>4. ReadSymbol(s, f[k], j) = ReadSymbol(t, f[k], j)
    BY <2>1, <2>2, ReadsAgree
  <2>5. QED
    BY <2>1, <2>2, <2>3, <2>4 DEF j
<1>4. same = 0 .. m
  <2>1. same \in SUBSET (0 .. m)
    OBVIOUS
  <2> HIDE DEF same
  <2>2. QED
    BY <1>2, <1>3, <2>1, UpTo
<1>5. QED
  BY <1>4

(* From a place where a phase began, as long as no tag of it ends.         *)
LEMMA Between ==
  ASSUME NEW s \in Texts, NEW acc, IsPass(acc, s), NEW a \in Nat, NEW x \in Nat, a <= x, x <= Len(s),
         acc[a].at = a, NEW ph, ph = acc[a].phase,
         \A j \in a + 1 .. x, tag \in TagsOf(ph) : ~ Ends(s, j, a, tag)
  PROVE  /\ acc[x] \in Pass /\ acc[x].at = a /\ acc[x].phase = ph
         /\ Tells(acc[x].out, acc[a].out, ph, s, a, x)
<1> DEFINE n == x - a
           good == {k \in 0 .. n : /\ acc[a + k].at = a /\ acc[a + k].phase = ph
                                   /\ Tells(acc[a + k].out, acc[a].out, ph, s, a, a + k)}
<1>1. Len(s) \in Nat /\ n \in Nat /\ \A k \in 0 .. n : a + k \in 0 .. Len(s) /\ a + k \in Nat
  BY DEF Texts
<1>2. \A k \in 0 .. n : acc[a + k] \in Pass
  BY <1>1 DEF IsPass
<1>3. a + 0 = a /\ 0 \in 0 .. n /\ a + n = x /\ n \in 0 .. n
  BY <1>1
<1>4. acc[a].out \in Seq(TagEvent) /\ ph \in Phases
  BY <1>2, <1>3 DEF Pass
<1>5. 0 \in good
  BY <1>3, <1>4, TellsNothing
<1>6. ASSUME NEW k \in 0 .. n - 1, k \in good PROVE k + 1 \in good
  <2> DEFINE i == a + k
             j == i + 1
             q == acc[i]
  <2>1. /\ k \in 0 .. n /\ k + 1 \in 0 .. n /\ a + (k + 1) = j /\ j - 1 = i /\ i \in Nat /\ a <= i
        /\ j \in 1 .. Len(s) /\ j \in a + 1 .. x
    BY <1>1
  <2>2. q \in Pass /\ q.at = a /\ q.phase = ph /\ Tells(q.out, acc[a].out, ph, s, a, i)
    BY <1>2, <1>6, <2>1
  <2>3. acc[j] = ReadSymbol(s, q, j) /\ s[j] \in Symbol
    <3>1. acc[j] = ReadSymbol(s, acc[j - 1], j)
      BY <2>1 DEF IsPass
    <3>2. s[j] \in Symbol
      BY <2>1 DEF Texts
    <3>3. QED
      BY <2>1, <3>1, <3>2
  <2> HIDE DEF q, i
  <2>4. ReadSymbol(s, q, j) = [q EXCEPT !.out = Append(q.out, <<q.phase, s[j]>>)]
    BY <2>1, <2>2, ReadPlain
  <2>5. acc[j].at = a /\ acc[j].phase = ph /\ acc[j].out = Append(q.out, <<ph, s[j]>>)
    BY <2>2, <2>3, <2>4 DEF Pass
  <2>6. Tells(Append(q.out, <<ph, s[i + 1]>>), acc[a].out, ph, s, a, i + 1)
    BY <1>4, <2>1, <2>2, <2>3, TellsNext
  <2>7. QED
    BY <2>1, <2>5, <2>6
<1>7. good = 0 .. n
  <2>1. good \in SUBSET (0 .. n)
    OBVIOUS
  <2> HIDE DEF good, n
  <2>2. QED
    BY <1>1, <1>5, <1>6, <2>1, UpTo
<1>8. n \in good /\ acc[a + n] \in Pass
  BY <1>2, <1>3, <1>7
<1>9. QED
  BY <1>3, <1>8

-----------------------------------------------------------------------------
(* The parser along the pass: a is where its phase began.  What it has     *)
(* emitted tells the pass at a, and the text from there to its buffer,     *)
(* where no tag may begin, whatever comes.                                 *)

MayBegin(s, i, tag) == \A k \in 1 .. Len(tag) : i + k - 1 <= Len(s) => s[i + k - 1] = tag[k]

Follows(p, s, acc, a) ==
  LET r == Len(s) - Len(p.buffer) IN
  /\ r \in Nat /\ a \in 0 .. r
  /\ \A k \in 1 .. Len(p.buffer) : p.buffer[k] = s[r + k]
  /\ acc[a].at = a /\ acc[a].phase = p.phase
  /\ Tells(p.out, acc[a].out, p.phase, s, a, r)
  /\ \A i \in a + 1 .. r, tag \in TagsOf(p.phase) : ~ MayBegin(s, i, tag)

Settled(p) == NoTag(p.buffer, p.phase) /\ Len(p.buffer) = KeptBack(p.buffer, p.phase)

Emitted(p, n, q) ==
  LET m == Len(p.buffer) - n
      said == SubSeq(p.buffer, 1, m)
  IN
  /\ q \in Parser /\ q.phase = p.phase /\ Len(q.buffer) = n
  /\ \A k \in 1 .. n : q.buffer[k] = p.buffer[m + k]
  /\ said \in Texts /\ Len(said) = m /\ \A k \in 1 .. m : said[k] = p.buffer[k]
  /\ q.out = p.out \o Tagged(p.phase, said)

LEMMA EmitIs ==
  ASSUME NEW p \in Parser, NEW n \in 0 .. Len(p.buffer)
  PROVE  Emitted(p, n, Emit(p, n))
<1> DEFINE q == Emit(p, n)
           b == p.buffer
           end == Len(b) - n
           first == SubSeq(b, 1, end)
           rest == SubSeq(b, end + 1, Len(b))
           said == p.out \o Tagged(p.phase, first)
<1>1. b \in Texts /\ p.phase \in Phases /\ p.out \in Seq(TagEvent)
  BY DEF Parser
<1>2. Len(b) \in Nat /\ end \in 0 .. Len(b) /\ end - 1 + 1 = end /\ Len(b) - (end + 1) + 1 = n
      /\ 1 \in 1 .. Len(b) + 1 /\ end \in 1 - 1 .. Len(b)
      /\ end + 1 \in 1 .. Len(b) + 1 /\ Len(b) \in end + 1 - 1 .. Len(b)
      /\ \A k \in Nat : (end + 1) + k - 1 = end + k /\ 1 + k - 1 = k
  BY <1>1 DEF Texts
<1> HIDE DEF end, b
<1>3. first \in Texts /\ Len(first) = end /\ \A k \in 1 .. end : first[k] = b[1 + k - 1]
  BY <1>1, <1>2, SliceIs
<1>4. rest \in Texts /\ Len(rest) = n /\ \A k \in 1 .. n : rest[k] = b[(end + 1) + k - 1]
  BY <1>1, <1>2, SliceIs
<1> HIDE DEF first, rest
<1>5. Tagged(p.phase, first) \in Seq(TagEvent)
  BY <1>1, <1>3, TaggedIs
<1>6. said \in Seq(TagEvent)
  BY <1>1, <1>5, ConcatProperties
<1> HIDE DEF said
<1>7. q = [p EXCEPT !.out = said, !.buffer = rest]
  BY DEF Emit, said, rest, first, end, b
<1> HIDE DEF q
<1>8. q \in Parser /\ q.phase = p.phase /\ q.buffer = rest /\ q.out = said
  BY <1>1, <1>4, <1>6, <1>7 DEF Parser
<1>9. \A k \in 1 .. n : rest[k] = b[end + k]
  BY <1>2, <1>4
<1>10. ASSUME NEW k \in 1 .. end PROVE first[k] = b[k]
  <2>1. 1 + k - 1 = k
    OBVIOUS
  <2>2. first[k] = b[1 + k - 1]
    BY <1>3
  <2>3. QED
    BY <2>1, <2>2
<1>11. QED
  BY <1>2, <1>3, <1>4, <1>8, <1>9, <1>10 DEF Emitted, said, first, end, b, q

(* The body of the loop took a tag, that leads to another phase.           *)
Took(p, q, i, tag, to) ==
  LET said == p.out \o Tagged(p.phase, SubSeq(p.buffer, 1, i - 1)) IN
  /\ First(p.buffer, p.phase, i, tag) /\ to \in Phases
  /\ q = [buffer |-> After(p.buffer, i, tag), phase |-> to,
          out |-> IF to = NoPhase THEN Append(said, Completed(p.phase)) ELSE said]
  /\ Opens(p.phase, tag, to) \/ Closes(p.phase, tag, to)

LEMMA DrainCases ==
  ASSUME NEW p \in Parser, p.buffer # << >>, NEW final \in BOOLEAN, NEW q, q = DrainOnce(p, final)
  PROVE  \/ \E i \in Nat, tag \in Tag, to \in Phases : Took(p, q, i, tag, to)
         \/ /\ NoTag(p.buffer, p.phase)
            /\ ~ final => q = Emit(p, KeptBack(p.buffer, p.phase))
            /\ final => q = IF p.phase = NoPhase THEN Emit(p, 0)
                            ELSE [Emit(p, 0) EXCEPT !.phase = NoPhase, !.out = Append(@, Completed(p.phase))]
<1>1. p.buffer \in Texts /\ p.phase \in Phases /\ NoPhase \notin Phase
  BY DEF Parser, Phase, NoPhase
<1>2. CASE p.phase = NoPhase
  <2> DEFINE ph == NextPhase(p.buffer)
             i == Find(p.buffer, OpenTag[ph])
  <2>1. q = DrainAnswer(p, final)
    BY <1>2 DEF DrainOnce
  <2>2. \/ ph = NoPhase /\ NoTag(p.buffer, NoPhase)
        \/ ph \in Phase /\ ph # NoPhase /\ First(p.buffer, NoPhase, i, OpenTag[ph])
    BY <1>1, NextPhaseIs
  <2>3. CASE ph \in Phase /\ First(p.buffer, NoPhase, i, OpenTag[ph])
    <3>1. i \in Nat
      BY <1>1, <2>3, OpenTags
    <3>2. ph # NoPhase /\ ph \in Phases /\ OpenTag[ph] \in Tag
      BY <1>1, <2>3 DEF Phases, Tag
    <3> HIDE DEF ph
    <3>3. q = [buffer |-> After(p.buffer, i, OpenTag[ph]), phase |-> ph,
               out |-> p.out \o Tagged(NoPhase, SubSeq(p.buffer, 1, i - 1))]
      BY <2>1, <3>2 DEF DrainAnswer, ph
    <3> HIDE DEF i
    <3>4. Opens(p.phase, OpenTag[ph], ph)
      BY <1>2, <2>3 DEF Opens
    <3>5. Took(p, q, i, OpenTag[ph], ph)
      BY <1>2, <2>3, <3>2, <3>3, <3>4 DEF Took
    <3>6. QED
      BY <3>1, <3>2, <3>5
  <2>4. CASE ph = NoPhase /\ NoTag(p.buffer, NoPhase)
    <3>1. q = IF final THEN Emit(p, 0) ELSE Emit(p, PartialLengthOf(p.buffer, {OpenTag[r] : r \in Phase}))
      BY <2>1, <2>4 DEF DrainAnswer
    <3>2. q = IF final THEN Emit(p, 0) ELSE Emit(p, KeptBack(p.buffer, p.phase))
      BY <1>2, <3>1 DEF KeptBack
    <3>3. QED
      BY <1>2, <2>4, <3>2
  <2>5. QED
    BY <2>2, <2>3, <2>4
<1>3. CASE p.phase # NoPhase
  <2> DEFINE tag == CloseTag[p.phase]
             i == Find(p.buffer, tag)
  <2>1. q = DrainPhase(p, final) /\ p.phase \in Phase /\ TagsOf(p.phase) = {tag}
    BY <1>1, <1>3 DEF DrainOnce, Phases, TagsOf
  <2>2. tag \in Texts /\ Len(tag) \in {2, 3} /\ tag \in Tag
    BY <2>1, TagsAre DEF Tag
  <2> HIDE DEF tag
  <2>3. /\ i \in Nat
        /\ i = 0 => \A j \in Nat : ~ At(p.buffer, j, tag)
        /\ i # 0 => At(p.buffer, i, tag) /\ \A j \in Nat : j < i => ~ At(p.buffer, j, tag)
    BY <1>1, <2>2, FindIs
  <2>4. CASE i # 0
    <3>1. First(p.buffer, p.phase, i, tag)
      BY <2>1, <2>3, <2>4 DEF First
    <3>2. q = [buffer |-> After(p.buffer, i, tag), phase |-> NoPhase,
               out |-> Append(p.out \o Tagged(p.phase, SubSeq(p.buffer, 1, i - 1)), Completed(p.phase))]
      BY <2>1, <2>4 DEF DrainPhase, tag
    <3> HIDE DEF i
    <3>3. Closes(p.phase, tag, NoPhase) /\ NoPhase \in Phases
      BY <2>1 DEF Closes, tag, Phases
    <3>4. Took(p, q, i, tag, NoPhase)
      BY <3>1, <3>2, <3>3 DEF Took
    <3>5. QED
      BY <2>2, <2>3, <3>3, <3>4
  <2>5. CASE i = 0
    <3>1. NoTag(p.buffer, p.phase)
      BY <2>1, <2>3, <2>5 DEF NoTag
    <3>2. q = IF final
              THEN [Emit(p, 0) EXCEPT !.phase = NoPhase, !.out = Append(@, Completed(p.phase))]
              ELSE Emit(p, PartialLength(p.buffer, CloseTag[p.phase]))
      BY <2>1, <2>5 DEF DrainPhase, tag
    <3>3. KeptBack(p.buffer, p.phase) = PartialLength(p.buffer, CloseTag[p.phase])
      BY <1>3 DEF KeptBack
    <3>4. CASE final
      BY <1>3, <3>1, <3>2, <3>4
    <3>5. CASE ~ final
      BY <3>1, <3>2, <3>3, <3>5
    <3>6. QED
      BY <3>4, <3>5
  <2>6. QED
    BY <2>4, <2>5
<1>4. QED
  BY <1>2, <1>3

(* A tag that ends after the place where the phase began is in the buffer. *)
LEMMA EndsInBuffer ==
  ASSUME NEW s \in Texts, NEW acc, NEW p \in Parser, NEW a \in Nat, Follows(p, s, acc, a),
         NEW j \in a + 1 .. Len(s), NEW t \in TagsOf(p.phase), Ends(s, j, a, t)
  PROVE  \E y \in Nat : At(p.buffer, y, t) /\ Len(s) - Len(p.buffer) + y = j - Len(t) + 1
<1> DEFINE b == p.buffer
           ph == p.phase
           r == Len(s) - Len(b)
           m == Len(t)
           x == j - m + 1
           y == x - r
<1>1. b \in Texts /\ ph \in Phases /\ Len(s) \in Nat /\ Len(b) \in Nat
  BY DEF Parser, Texts
<1>2. /\ r \in Nat /\ a \in 0 .. r /\ \A k \in 1 .. Len(b) : b[k] = s[r + k]
      /\ \A k \in a + 1 .. r, u \in TagsOf(ph) : ~ MayBegin(s, k, u)
  BY DEF Follows
<1>3. t \in Texts /\ m \in {2, 3}
  BY <1>1, TagsOfAre
<1>4. j \in 1 .. Len(s) /\ j \in Nat
  BY <1>1
<1>5. j - a >= m /\ At(s, x, t)
  BY <1>3, <1>4, EndsAre
<1>6. x \in 1 .. Len(s) - m + 1 /\ \A k \in 1 .. m : s[x + k - 1] = t[k]
  BY <1>5 DEF At
<1> HIDE DEF b, ph, m
<1>7. r + Len(b) = Len(s) /\ r \in Nat /\ x \in Nat /\ x >= a + 1
  BY <1>1, <1>2, <1>3, <1>4, <1>5
<1>8. x > r
  <2>1. SUFFICES ASSUME x <= r PROVE FALSE
    BY <1>7
  <2>2. x \in a + 1 .. r
    BY <1>7, <2>1
  <2>3. MayBegin(s, x, t)
    BY <1>6 DEF MayBegin, m
  <2>4. QED
    BY <1>2, <2>2, <2>3 DEF ph
<1> HIDE DEF x, r
<1>9. y \in Nat /\ y >= 1 /\ y <= Len(b) - m + 1 /\ r + y = x
  <2>1. x >= 1 /\ x <= Len(s) - m + 1 /\ m \in Nat
    BY <1>3, <1>6
  <2>2. QED
    BY <1>1, <1>7, <1>8, <2>1
<1> HIDE DEF y
<1>10. ASSUME NEW k \in 1 .. m PROVE b[y + k - 1] = t[k]
  <2>1. y + k - 1 \in 1 .. Len(b) /\ r + (y + k - 1) = x + k - 1
    <3>1. k \in Nat /\ k >= 1 /\ k <= m /\ m \in Nat
      BY <1>3
    <3>2. QED
      BY <1>1, <1>7, <1>9, <3>1
  <2>2. b[y + k - 1] = s[r + (y + k - 1)]
    BY <1>2, <2>1
  <2>3. QED
    BY <1>6, <2>1, <2>2
<1>11. y \in 1 .. Len(b) - m + 1
  BY <1>1, <1>3, <1>9
<1>12. At(b, y, t)
  BY <1>10, <1>11 DEF At, m
<1>13. QED
  BY <1>9, <1>12 DEF b, r, x, m

LEMMA TookStep ==
  ASSUME NEW s \in Texts, NEW acc, IsPass(acc, s), NEW p \in Parser, NEW a, Follows(p, s, acc, a),
         NEW q, NEW i \in Nat, NEW tag \in Tag, NEW to \in Phases, Took(p, q, i, tag, to)
  PROVE  /\ q \in Parser /\ Len(q.buffer) \in Nat /\ Len(p.buffer) \in Nat
         /\ Len(q.buffer) < Len(p.buffer)
         /\ \E e \in Nat : Follows(q, s, acc, e)
<1> DEFINE b == p.buffer
           ph == p.phase
           n == Len(tag)
           r == Len(s) - Len(b)
           e == r + i + n - 1
           base == acc[a].out
           said == p.out \o Tagged(ph, SubSeq(b, 1, i - 1))
           rest == SubSeq(b, i + n, Len(b))
<1>1. b \in Texts /\ ph \in Phases /\ p.out \in Seq(TagEvent) /\ Len(s) \in Nat /\ Len(b) \in Nat
  BY DEF Parser, Texts
<1>2. /\ r \in Nat /\ a \in 0 .. r
      /\ \A k \in 1 .. Len(b) : b[k] = s[r + k]
      /\ acc[a].at = a /\ acc[a].phase = ph
      /\ Tells(p.out, base, ph, s, a, r)
      /\ \A j \in a + 1 .. r, t \in TagsOf(ph) : ~ MayBegin(s, j, t)
  BY DEF Follows
<1>3. /\ tag \in TagsOf(ph) /\ At(b, i, tag)
      /\ \A j \in Nat, t \in TagsOf(ph) : j < i => ~ At(b, j, t)
      /\ q = [buffer |-> rest, phase |-> to,
              out |-> IF to = NoPhase THEN Append(said, Completed(ph)) ELSE said]
      /\ Opens(ph, tag, to) \/ Closes(ph, tag, to)
  BY DEF Took, First, After
<1>4. tag \in Texts /\ n \in {2, 3}
  BY TagTypes
<1>5. i \in 1 .. Len(b) - n + 1 /\ \A k \in 1 .. n : b[i + k - 1] = tag[k]
  BY <1>3 DEF At
<1>6. /\ r + Len(b) = Len(s) /\ r \in Nat /\ a \in Nat /\ a <= r
      /\ Len(b) \in Nat /\ Len(s) \in Nat /\ n \in Nat /\ r <= Len(s)
  BY <1>1, <1>2, <1>4
<1> HIDE DEF b, ph, r, base, said, n
<1>7. /\ e \in 1 .. Len(s) /\ e - 1 \in Nat /\ a <= e - 1 /\ e - 1 <= Len(s) /\ e \in Nat /\ a <= e
      /\ e - n = r + (i - 1) /\ e - n + 1 = r + i /\ e - n \in Nat /\ a <= e - n /\ e - n <= e
      /\ (e - 1) + 1 = e /\ e - (e - n) = n
      /\ r + i \in 1 .. Len(s) - n + 1 /\ e - a >= n
  BY <1>1, <1>2, <1>4, <1>5, <1>6
<1>8. \A k \in 1 .. Len(b) - n + 1, l \in 1 .. n : k + l - 1 \in 1 .. Len(b) /\ r + (k + l - 1) = (r + k) + l - 1
  BY <1>1, <1>2, <1>4
<1> HIDE DEF e
<1>9. At(s, r + i, tag)
  <2>1. ASSUME NEW k \in 1 .. n PROVE s[(r + i) + k - 1] = tag[k]
    <3>1. b[i + k - 1] = s[r + (i + k - 1)]
      BY <1>2, <1>5, <1>8
    <3>2. QED
      BY <1>5, <1>8, <3>1
  <2>2. QED
    BY <1>7, <2>1 DEF At, n
<1>10. ASSUME NEW j \in a + 1 .. e - 1, NEW t \in TagsOf(ph) PROVE ~ Ends(s, j, a, t)
  <2>1. SUFFICES ASSUME Ends(s, j, a, t) PROVE FALSE
    OBVIOUS
  <2>2. Len(t) = n
    <3>1. Len(t) = Width(ph) /\ Len(tag) = Width(ph)
      BY <1>1, <1>3, TagsOfAre
    <3>2. QED
      BY <3>1 DEF n
  <2>3. j \in a + 1 .. Len(s) /\ j \in Nat /\ j <= e - 1
    BY <1>6, <1>7
  <2>4. PICK y \in Nat : At(b, y, t) /\ r + y = j - n + 1
    BY <1>6, <2>1, <2>2, <2>3, EndsInBuffer DEF b, ph, r
  <2>5. y < i
    BY <1>6, <1>7, <2>3, <2>4
  <2>6. QED
    BY <1>3, <2>4, <2>5
<1> DEFINE z == acc[e - 1]
           longer == Longer(s, z, e)
           less == Shorter(longer, n)
<1>11. z \in Pass /\ z.at = a /\ z.phase = ph /\ Tells(z.out, base, ph, s, a, e - 1)
  <2> DEFINE x == e - 1
  <2>1. x \in Nat /\ a <= x /\ x <= Len(s) /\ a \in Nat
    BY <1>6, <1>7
  <2>2. acc[a].at = a /\ ph = acc[a].phase
    BY <1>2
  <2>3. \A j \in a + 1 .. x, t \in TagsOf(ph) : ~ Ends(s, j, a, t)
    BY <1>10
  <2> HIDE DEF x
  <2>4. /\ acc[x] \in Pass /\ acc[x].at = a /\ acc[x].phase = ph
        /\ Tells(acc[x].out, acc[a].out, ph, s, a, x)
    BY <2>1, <2>2, <2>3, Between
  <2>5. QED
    BY <2>4 DEF x, base
<1>12. acc[e] = ReadSymbol(s, z, e) /\ s[e] \in Symbol
  BY <1>7 DEF IsPass, Texts
<1>13. base \in Seq(TagEvent)
  <2>1. a \in 0 .. Len(s)
    BY <1>6
  <2>2. QED
    BY <2>1 DEF IsPass, Pass, base
<1> HIDE DEF z
<1>14. Tells(longer, base, ph, s, a, e)
  BY <1>1, <1>6, <1>7, <1>11, <1>12, <1>13, TellsNext DEF Longer
<1>15. longer \in Seq(TagEvent)
  BY <1>14 DEF Tells
<1> HIDE DEF longer
<1>16. Tells(less, base, ph, s, a, e - n)
  <2>1. Tells(SubSeq(longer, 1, Len(longer) - (e - (e - n))), base, ph, s, a, e - n)
    BY <1>6, <1>7, <1>13, <1>14, TellsLess
  <2>2. QED
    BY <1>7, <2>1 DEF Shorter
<1> HIDE DEF less
<1>17. Tells(said, base, ph, s, a, e - n)
  <2> DEFINE c == SubSeq(b, 1, i - 1)
  <2>1. 1 \in 1 .. Len(b) + 1 /\ i - 1 \in 1 - 1 .. Len(b) /\ (i - 1) - 1 + 1 = i - 1
        /\ \A k \in 1 .. i - 1 : 1 + k - 1 = k /\ k \in 1 .. Len(b)
    BY <1>1, <1>4, <1>5
  <2>2. c \in Texts /\ Len(c) = i - 1 /\ \A k \in 1 .. i - 1 : c[k] = b[k]
    BY <1>1, <2>1, SliceIs
  <2> HIDE DEF c
  <2>3. \A k \in 1 .. Len(c) : c[k] = s[r + k]
    BY <1>2, <2>1, <2>2
  <2>4. Tells(p.out \o Tagged(ph, c), base, ph, s, a, r + Len(c))
    BY <1>1, <1>2, <1>6, <1>13, <2>2, <2>3, TellsMore
  <2>5. QED
    BY <1>7, <2>2, <2>4 DEF said, c
<1>18. said = less
  BY <1>6, <1>7, <1>13, <1>16, <1>17, TellsSame
<1>19. said \in Seq(TagEvent)
  BY <1>17 DEF Tells
<1>20. Ends(s, e, z.at, tag)
  BY <1>4, <1>6, <1>7, <1>9, <1>11, EndsAre DEF n
<1>21. acc[e] = [phase |-> to, at |-> e, out |-> q.out]
  <2>1. CASE Opens(ph, tag, to)
    <3>1. n = 2 /\ to # NoPhase
      BY <2>1, TagsAre DEF Opens, Phase, NoPhase, n
    <3>2. ReadSymbol(s, z, e) = [phase |-> to, at |-> e, out |-> Shorter(longer, 2)]
      <4>1. Opens(z.phase, tag, to) /\ e \in 1 .. Len(s)
        BY <1>7, <1>11, <2>1
      <4>2. QED
        BY <1>11, <1>20, <4>1, ReadOpening DEF longer
    <3>3. q.out = said
      BY <1>3, <3>1
    <3>4. QED
      BY <1>12, <1>18, <3>1, <3>2, <3>3 DEF less
  <2>2. CASE Closes(ph, tag, to)
    <3>1. n = 3 /\ to = NoPhase
      BY <2>2, TagsAre DEF Closes, n
    <3>2. ReadSymbol(s, z, e) = [phase |-> to, at |-> e,
            out |-> Append(Shorter(longer, 3), Completed(z.phase))]
      <4>1. Closes(z.phase, tag, to)
        BY <1>11, <2>2
      <4>2. QED
        BY <1>20, <4>1, ReadClosing DEF longer
    <3>3. q.out = Append(said, Completed(ph))
      BY <1>3, <3>1
    <3>4. QED
      BY <1>11, <1>12, <1>18, <3>1, <3>2, <3>3 DEF less
  <2>3. QED
    BY <1>3, <2>1, <2>2
<1>22. rest \in Texts /\ Len(rest) = Len(b) - (i + n) + 1 /\ \A k \in 1 .. Len(rest) : rest[k] = b[i + n + k - 1]
  <2>1. i + n \in 1 .. Len(b) + 1 /\ Len(b) \in (i + n) - 1 .. Len(b)
    BY <1>1, <1>4, <1>5
  <2>2. QED
    BY <1>1, <2>1, SliceIs
<1>23. Len(rest) \in Nat /\ Len(rest) < Len(b) /\ Len(s) - Len(rest) = e
  <2>1. Len(rest) = Len(b) - (i + n) + 1 /\ i >= 1 /\ i <= Len(b) - n + 1 /\ n >= 2 /\ i \in Nat
    BY <1>4, <1>5, <1>6, <1>22
  <2> HIDE DEF rest
  <2>2. QED
    BY <1>6, <2>1 DEF e
<1> HIDE DEF rest
<1>24. q \in Parser /\ q.buffer = rest /\ q.phase = to
  <2>1. Append(said, Completed(ph)) \in Seq(TagEvent)
    <3>1. Completed(ph) \in TagEvent
      <4>1. "<" \in Symbol
        BY DEF Symbol
      <4>2. QED
        BY <1>1, <4>1, EventTypes
    <3>2. QED
      BY <1>19, <3>1, AppendProperties
  <2>2. QED
    BY <1>3, <1>19, <1>22, <2>1 DEF Parser
<1>25. Follows(q, s, acc, e)
  <2>1. ASSUME NEW k \in 1 .. Len(rest)
        PROVE  i + n + k - 1 \in 1 .. Len(b) /\ r + (i + n + k - 1) = e + k
    <3>1. k \in Nat /\ k >= 1 /\ k <= Len(b) - (i + n) + 1 /\ e = r + i + n - 1
      BY <1>22, <1>23 DEF e
    <3>2. QED
      BY <1>4, <1>6, <3>1
  <2>2. \A k \in 1 .. Len(rest) : rest[k] = s[e + k]
    BY <1>2, <1>22, <2>1
  <2>3. acc[e].at = e /\ acc[e].phase = to /\ acc[e].out = q.out
    BY <1>21
  <2>4. Tells(q.out, q.out, to, s, e, e)
    <3>1. q.out \in Seq(TagEvent)
      BY <1>24 DEF Parser
    <3>2. QED
      BY <1>7, <3>1, TellsNothing
  <2>5. e + 1 .. e = {} /\ e \in 0 .. e
    BY <1>7
  <2>6. QED
    BY <1>7, <1>23, <1>24, <2>2, <2>3, <2>4, <2>5 DEF Follows
<1>26. QED
  BY <1>1, <1>7, <1>23, <1>24, <1>25 DEF b

(* A buffer without a tag: all of it is emitted but what may begin one.    *)
LEMMA EmitStep ==
  ASSUME NEW s \in Texts, NEW acc, NEW p \in Parser, NEW a, Follows(p, s, acc, a),
         acc[a].out \in Seq(TagEvent), NoTag(p.buffer, p.phase),
         NEW q, q = Emit(p, KeptBack(p.buffer, p.phase))
  PROVE  q \in Parser /\ Follows(q, s, acc, a) /\ Settled(q)
<1> DEFINE b == p.buffer
           ph == p.phase
           n == KeptBack(b, ph)
           r == Len(s) - Len(b)
           m == Len(b) - n
           c == SubSeq(b, 1, m)
           base == acc[a].out
<1>1. b \in Texts /\ ph \in Phases /\ Len(s) \in Nat /\ Len(b) \in Nat
  BY DEF Parser, Texts
<1>2. /\ r \in Nat /\ a \in 0 .. r
      /\ \A k \in 1 .. Len(b) : b[k] = s[r + k]
      /\ acc[a].at = a /\ acc[a].phase = ph
      /\ Tells(p.out, base, ph, s, a, r)
      /\ \A j \in a + 1 .. r, t \in TagsOf(ph) : ~ MayBegin(s, j, t)
  BY DEF Follows
<1>3. /\ n \in {0, 1, 2} /\ n <= Len(b)
      /\ \E tag \in TagsOf(ph) : EndsIn(b, n, tag)
      /\ \A tag \in TagsOf(ph), l \in Nat : EndsIn(b, l, tag) => l <= n
  <2> HIDE DEF n, b, ph
  <2>1. n = KeptBack(b, ph)
    BY DEF n
  <2>2. QED
    BY <1>1, <2>1, KeptBackIs
<1>4. n \in 0 .. Len(b)
  BY <1>1, <1>3
<1> HIDE DEF n
<1>5. /\ q \in Parser /\ q.phase = ph /\ Len(q.buffer) = n
      /\ \A k \in 1 .. n : q.buffer[k] = b[m + k]
      /\ c \in Texts /\ Len(c) = m /\ \A k \in 1 .. m : c[k] = b[k]
      /\ q.out = p.out \o Tagged(ph, c)
  <2>1. q = Emit(p, n)
    BY DEF n
  <2>2. Emitted(p, n, q)
    BY <1>4, <2>1, EmitIs
  <2>3. QED
    BY <2>2 DEF Emitted
<1>6. base \in Seq(TagEvent)
  OBVIOUS
<1> HIDE DEF b, ph, base
<1>7. m \in Nat /\ m + n = Len(b) /\ r + Len(b) = Len(s) /\ Len(s) - n = r + m /\ a \in Nat /\ a <= r
      /\ r + m \in Nat /\ a \in 0 .. r + m
  BY <1>1, <1>2, <1>4
<1> HIDE DEF c, m, r
<1>8. Tells(q.out, base, ph, s, a, r + m)
  <2>1. \A k \in 1 .. m : k \in 1 .. Len(b)
    BY <1>1, <1>3, <1>7
  <2>2. \A k \in 1 .. Len(c) : c[k] = s[r + k]
    BY <1>2, <1>5, <2>1
  <2>3. Tells(p.out \o Tagged(ph, c), base, ph, s, a, r + Len(c))
    BY <1>1, <1>2, <1>5, <1>6, <1>7, <2>2, TellsMore
  <2>4. QED
    BY <1>5, <2>3
<1>9. ASSUME NEW k \in 1 .. n PROVE q.buffer[k] = s[(r + m) + k]
  <2>1. m + k \in 1 .. Len(b) /\ r + (m + k) = (r + m) + k
    BY <1>1, <1>2, <1>3, <1>7
  <2>2. QED
    BY <1>2, <1>5, <2>1
<1>10. ASSUME NEW j \in a + 1 .. r + m, NEW t \in TagsOf(ph) PROVE ~ MayBegin(s, j, t)
  <2> DEFINE w == Len(t)
             y == j - r
  <2>1. SUFFICES ASSUME MayBegin(s, j, t) PROVE FALSE
    OBVIOUS
  <2>2. t \in Texts /\ w \in {2, 3}
    BY <1>1, TagsOfAre
  <2>3. \A k \in 1 .. w : j + k - 1 <= Len(s) => s[j + k - 1] = t[k]
    BY <2>1 DEF MayBegin
  <2> HIDE DEF w
  <2>4. CASE j <= r
    <3>1. j \in a + 1 .. r
      BY <1>2, <1>7, <2>4
    <3>2. QED
      BY <1>2, <2>1, <3>1
  <2>5. CASE ~ (j <= r)
    <3>1. y \in 1 .. m /\ y \in Nat /\ r + y = j /\ y <= Len(b)
      BY <1>1, <1>2, <1>3, <1>7, <2>5
    <3> HIDE DEF y
    <3>2. CASE y + w - 1 <= Len(b)
      <4>1. ASSUME NEW k \in 1 .. w PROVE b[y + k - 1] = t[k]
        <5>1. y + k - 1 \in 1 .. Len(b) /\ r + (y + k - 1) = j + k - 1 /\ j + k - 1 <= Len(s)
          BY <1>1, <1>2, <1>7, <2>2, <3>1, <3>2
        <5>2. QED
          BY <1>2, <2>3, <5>1
      <4>2. y \in 1 .. Len(b) - w + 1
        BY <1>1, <2>2, <3>1, <3>2
      <4>3. At(b, y, t)
        BY <4>1, <4>2 DEF At, w
      <4>4. QED
        BY <3>1, <4>3 DEF NoTag, b, ph
    <3>3. CASE ~ (y + w - 1 <= Len(b))
      <4> DEFINE l == Len(b) - y + 1
      <4>1. l \in Nat /\ l \in 0 .. w - 1 /\ l <= Len(b) /\ l > n /\ Len(b) - l = y - 1
        BY <1>1, <1>3, <1>7, <2>2, <3>1, <3>3
      <4> HIDE DEF l
      <4>2. ASSUME NEW k \in 1 .. l PROVE b[Len(b) - l + k] = t[k]
        <5>1. /\ k \in 1 .. w /\ j + k - 1 <= Len(s) /\ Len(b) - l + k \in 1 .. Len(b)
              /\ r + (Len(b) - l + k) = j + k - 1
          <6>1. k \in Nat /\ k >= 1 /\ k <= l /\ r \in Nat /\ r + y = j /\ w \in Nat
            BY <1>2, <2>2, <3>1, <4>1
          <6>2. l <= w - 1 /\ l <= Len(b) /\ Len(b) - l = y - 1 /\ r + Len(b) = Len(s) /\ l \in Nat
            BY <1>7, <4>1
          <6>3. k <= w /\ Len(b) - l + k >= 1 /\ Len(b) - l + k <= Len(b)
            BY <1>1, <6>1, <6>2
          <6>4. r + (Len(b) - l + k) = j + k - 1 /\ j + k - 1 <= Len(s) /\ Len(b) - l + k \in Nat
            BY <1>1, <3>1, <6>1, <6>2
          <6>5. QED
            BY <1>1, <6>1, <6>3, <6>4
        <5>2. QED
          BY <1>2, <2>3, <5>1
      <4>3. EndsIn(b, l, t)
        BY <4>1, <4>2 DEF EndsIn, w
      <4>4. l <= n
        BY <1>3, <4>1, <4>3
      <4>5. QED
        BY <1>3, <4>1, <4>4
    <3>4. QED
      BY <3>2, <3>3
  <2>6. QED
    BY <2>4, <2>5
<1>11. Follows(q, s, acc, a)
  <2>1. Len(s) - Len(q.buffer) = r + m
    BY <1>5, <1>7
  <2>2. QED
    BY <1>2, <1>5, <1>7, <1>8, <1>9, <1>10, <2>1 DEF Follows, base
<1> DEFINE d == q.buffer
<1>12. d \in Texts /\ Len(d) = n
  BY <1>5 DEF Parser
<1> HIDE DEF d
<1>13. ASSUME NEW j \in Nat, NEW t \in TagsOf(ph) PROVE ~ At(d, j, t)
  <2> DEFINE w == Len(t)
  <2>1. SUFFICES ASSUME At(d, j, t) PROVE FALSE
    OBVIOUS
  <2>2. t \in Texts /\ w \in {2, 3}
    BY <1>1, TagsOfAre
  <2>3. j \in 1 .. n - w + 1 /\ \A k \in 1 .. w : d[j + k - 1] = t[k]
    BY <1>12, <2>1 DEF At
  <2> HIDE DEF w
  <2>4. ASSUME NEW k \in 1 .. w PROVE b[(m + j) + k - 1] = t[k]
    <3>1. j + k - 1 \in 1 .. n /\ m + (j + k - 1) = (m + j) + k - 1
      BY <1>3, <1>7, <2>2, <2>3
    <3>2. d[j + k - 1] = b[m + (j + k - 1)]
      BY <1>5, <3>1 DEF d
    <3>3. QED
      BY <2>3, <3>1, <3>2
  <2>5. m + j \in 1 .. Len(b) - w + 1 /\ m + j \in Nat
    BY <1>1, <1>3, <1>7, <2>2, <2>3
  <2>6. At(b, m + j, t)
    BY <2>4, <2>5 DEF At, w
  <2>7. QED
    BY <2>5, <2>6 DEF NoTag, b, ph
<1>14. KeptBack(d, ph) = n
  <2> DEFINE l == KeptBack(d, ph)
  <2>1. l \in {0, 1, 2} /\ l <= Len(d)
        /\ \A tag \in TagsOf(ph), k \in Nat : EndsIn(d, k, tag) => k <= l
    BY <1>1, <1>12, KeptBackIs
  <2> HIDE DEF l
  <2>2. PICK tag \in TagsOf(ph) : EndsIn(b, n, tag)
    BY <1>3
  <2>3. n \in 0 .. Len(tag) - 1 /\ \A k \in 1 .. n : b[Len(b) - n + k] = tag[k]
    BY <2>2 DEF EndsIn
  <2>4. ASSUME NEW k \in 1 .. n PROVE d[Len(d) - n + k] = tag[k]
    <3>1. Len(b) - n + k = m + k /\ Len(d) - n + k = k
      BY <1>1, <1>3, <1>7, <1>12
    <3>2. q.buffer[k] = b[m + k] /\ b[Len(b) - n + k] = tag[k]
      BY <1>5, <2>3
    <3>3. q.buffer[k] = tag[k]
      BY <3>1, <3>2
    <3>4. d[k] = tag[k]
      BY <3>3 DEF d
    <3>5. QED
      BY <3>1, <3>4
  <2>5. n <= Len(d)
    BY <1>3, <1>12
  <2>6. EndsIn(d, n, tag)
    BY <2>3, <2>4, <2>5 DEF EndsIn
  <2>7. n <= l /\ l <= n
    BY <1>3, <1>12, <2>1, <2>6
  <2>8. QED
    BY <1>3, <2>1, <2>7 DEF l
<1>15. Settled(q)
  BY <1>5, <1>12, <1>13, <1>14 DEF Settled, NoTag, d
<1>16. QED
  BY <1>5, <1>11, <1>15

LEMMA EmptySettled ==
  ASSUME NEW p \in Parser, Len(p.buffer) = 0
  PROVE  Settled(p)
<1> DEFINE n == KeptBack(p.buffer, p.phase)
<1>1. p.buffer \in Texts /\ p.phase \in Phases
  BY DEF Parser
<1>2. ASSUME NEW j \in Nat, NEW t \in TagsOf(p.phase) PROVE ~ At(p.buffer, j, t)
  <2>1. Len(t) \in {2, 3}
    BY <1>1, TagsOfAre
  <2>2. 1 .. Len(p.buffer) - Len(t) + 1 = {}
    BY <2>1
  <2>3. QED
    BY <2>2 DEF At
<1>3. n \in {0, 1, 2} /\ n <= Len(p.buffer)
  BY <1>1, KeptBackIs
<1> HIDE DEF n
<1>4. n = 0
  BY <1>3
<1>5. QED
  BY <1>2, <1>4 DEF Settled, NoTag, n

(* One body of the loop, as long as no flush has come.                     *)
DrainStep(p, q, s, acc) ==
  /\ q \in Parser /\ \E a \in Nat : Follows(q, s, acc, a)
  /\ Settled(p) => Settled(q)
  /\ Settled(q) \/ Len(q.buffer) + 1 <= Len(p.buffer)

LEMMA DrainSteps ==
  ASSUME NEW s \in Texts, NEW acc, IsPass(acc, s), NEW p \in Parser, NEW a \in Nat, Follows(p, s, acc, a)
  PROVE  DrainStep(p, DrainOnce(p, FALSE), s, acc)
<1> DEFINE q == DrainOnce(p, FALSE)
<1>1. p.buffer \in Texts /\ p.phase \in Phases /\ Len(p.buffer) \in Nat
  BY DEF Parser, Texts
<1>2. acc[a].out \in Seq(TagEvent)
  <2>1. a \in 0 .. Len(s)
    <3>1. Len(s) - Len(p.buffer) \in Nat /\ a \in 0 .. Len(s) - Len(p.buffer)
      BY DEF Follows
    <3>2. Len(s) \in Nat
      BY DEF Texts
    <3>3. QED
      BY <1>1, <3>1, <3>2
  <2>2. QED
    BY <2>1 DEF IsPass, Pass
<1>3. CASE p.buffer = << >>
  <2>1. q = p /\ Len(p.buffer) = 0
    BY <1>3 DEF DrainOnce
  <2>2. Settled(p)
    BY <2>1, EmptySettled
  <2>3. QED
    BY <2>1, <2>2 DEF DrainStep
<1>4. CASE p.buffer # << >>
  <2>1. \/ \E i \in Nat, tag \in Tag, to \in Phases : Took(p, q, i, tag, to)
        \/ NoTag(p.buffer, p.phase) /\ q = Emit(p, KeptBack(p.buffer, p.phase))
    <3>1. FALSE \in BOOLEAN
      OBVIOUS
    <3>2. QED
      BY <1>4, <3>1, DrainCases
  <2> HIDE DEF q
  <2>2. CASE NoTag(p.buffer, p.phase) /\ q = Emit(p, KeptBack(p.buffer, p.phase))
    <3>1. q \in Parser /\ Follows(q, s, acc, a) /\ Settled(q)
      BY <1>2, <2>2, EmitStep
    <3>2. QED
      BY <3>1 DEF DrainStep, q
  <2>3. ASSUME NEW i \in Nat, NEW tag \in Tag, NEW to \in Phases, Took(p, q, i, tag, to)
        PROVE  DrainStep(p, q, s, acc)
    <3>1. /\ q \in Parser /\ Len(q.buffer) \in Nat /\ Len(p.buffer) \in Nat
          /\ Len(q.buffer) < Len(p.buffer)
          /\ \E e \in Nat : Follows(q, s, acc, e)
      BY <2>3, TookStep
    <3>2. ~ Settled(p)
      <4>1. tag \in TagsOf(p.phase) /\ At(p.buffer, i, tag)
        BY <2>3 DEF Took, First
      <4>2. QED
        BY <4>1 DEF Settled, NoTag
    <3>3. Len(q.buffer) + 1 <= Len(p.buffer)
      BY <3>1
    <3>4. QED
      BY <3>1, <3>2, <3>3 DEF DrainStep
  <2>4. QED
    BY <2>1, <2>2, <2>3 DEF q
<1>5. QED
  BY <1>3, <1>4

(* The loop: its parser after each body.                                   *)
Bodies(run, p, final, S) ==
  /\ run \in [0 .. Len(p.buffer) -> S] /\ run[0] = p
  /\ \A k \in 1 .. Len(p.buffer) : run[k] = DrainOnce(run[k - 1], final)

LEMMA DrainWalk ==
  ASSUME NEW p, p.buffer \in Texts, NEW S, p \in S
  PROVE  \A final : (\A r \in S : DrainOnce(r, final) \in S) =>
           \E run : Bodies(run, p, final, S) /\ Drain(p, final) = run[Len(p.buffer)]
<1> SUFFICES ASSUME NEW final, \A r \in S : DrainOnce(r, final) \in S
             PROVE  \E run : Bodies(run, p, final, S) /\ Drain(p, final) = run[Len(p.buffer)]
  OBVIOUS
<1> DEFINE b == p.buffer
           n == Len(b)
           D == 1 .. n
           walk(F, u) == IF u = {} THEN p ELSE DrainOnce(F[u \ {Max(u)}], final)
           iter == CHOOSE F : F = [u \in SUBSET D |-> walk(F, u)]
           op == [x \in S \X Symbol |-> DrainOnce(x[1], final)]
           acc == [k \in 0 .. n |-> iter[1 .. k]]
<1>1. n \in Nat /\ DOMAIN b = D /\ b \in [D -> Symbol]
  BY DEF Texts
<1>2. op \in [S \X Symbol -> S]
  OBVIOUS
<1>3. PICK G : Folds(G, S, op, p, n, b)
  <2> HIDE DEF op, n, b
  <2>1. QED
    BY <1>1, <1>2, FoldExists
<1>4. ASSUME NEW u \in SUBSET D PROVE G[u] = walk(G, u)
  <2>1. G[u] = (IF u = {} THEN p ELSE op[<<G[u \ {Max(u)}], b[Max(u)]>>])
        /\ G[u \ {Max(u)}] \in S
    <3> HIDE DEF op
    <3>1. u \ {Max(u)} \in SUBSET D
      OBVIOUS
    <3>2. QED
      BY <1>3, <3>1 DEF Folds
  <2>2. CASE u = {}
    BY <2>1, <2>2
  <2>3. CASE u # {}
    <3>1. b[Max(u)] \in Symbol
      <4>1. Max(u) \in D
        BY <1>1, <2>3, MaxOfBounded
      <4>2. QED
        BY <1>1, <4>1
    <3>2. op[<<G[u \ {Max(u)}], b[Max(u)]>>] = DrainOnce(G[u \ {Max(u)}], final)
      BY <2>1, <3>1
    <3> HIDE DEF op
    <3>3. QED
      BY <2>1, <2>3, <3>2
  <2>4. QED
    BY <2>2, <2>3
<1>5. G = [u \in SUBSET D |-> walk(G, u)]
  <2>1. G \in [SUBSET D -> S]
    BY <1>3 DEF Folds
  <2> HIDE DEF walk, D
  <2>2. QED
    BY <1>4, <2>1
<1>6. iter = [u \in SUBSET D |-> walk(iter, u)]
  <2> HIDE DEF walk, D
  <2>1. QED
    BY <1>5
<1>7. \A u \in SUBSET D : iter[u] = walk(iter, u)
  <2> HIDE DEF walk, D, iter
  <2>1. QED
    BY <1>6
<1>8. Drain(p, final) = iter[D]
  BY <1>1 DEF Drain, FoldLeftDomain, FoldLeft, MapThenFoldSet
<1> HIDE DEF iter
<1>9. Runs(iter, S, op, p, n, b)
  <2>1. ASSUME NEW u \in SUBSET D, u # {}, iter[u \ {Max(u)}] \in S
        PROVE  iter[u] = op[<<iter[u \ {Max(u)}], b[Max(u)]>>]
    <3>1. Max(u) \in D
      BY <1>1, <2>1, MaxOfBounded
    <3>2. iter[u] = DrainOnce(iter[u \ {Max(u)}], final) /\ b[Max(u)] \in Symbol
      BY <1>1, <1>7, <2>1, <3>1
    <3>3. QED
      BY <2>1, <3>2
  <2>2. iter[{}] = p
    BY <1>7
  <2> HIDE DEF op, walk
  <2>3. QED
    BY <2>1, <2>2 DEF Runs
<1>10. Walks(acc, S, op, p, n, b)
  <2>1. acc = [k \in 0 .. n |-> iter[1 .. k]]
    OBVIOUS
  <2> HIDE DEF acc, op, n, b
  <2>2. QED
    BY <1>1, <1>2, <1>9, <2>1, FoldRun
<1>11. acc[n] = iter[D]
  BY <1>1
<1> HIDE DEF acc
<1>12. ASSUME NEW k \in 1 .. n PROVE acc[k] = DrainOnce(acc[k - 1], final)
  <2>1. acc[k] = op[<<acc[k - 1], b[k]>>] /\ acc[k - 1] \in S
    <3> HIDE DEF op
    <3>1. k - 1 \in 0 .. n
      BY <1>1
    <3>2. QED
      BY <1>10, <3>1 DEF Walks
  <2>2. b[k] \in Symbol
    BY <1>1
  <2>3. QED
    BY <2>1, <2>2
<1>13. acc \in [0 .. n -> S] /\ acc[0] = p
  <2> HIDE DEF op
  <2>1. QED
    BY <1>10 DEF Walks
<1>14. QED
  BY <1>8, <1>11, <1>12, <1>13 DEF Bodies

LEMMA FeedWalk ==
  ASSUME NEW p, p.buffer \in Texts, NEW S, p \in S, \A r \in S : DrainOnce(r, FALSE) \in S
  PROVE  \E run : Bodies(run, p, FALSE, S) /\ Drain(p, FALSE) = run[Len(p.buffer)]
<1>1. \A final : (\A r \in S : DrainOnce(r, final) \in S) =>
        \E run : Bodies(run, p, final, S) /\ Drain(p, final) = run[Len(p.buffer)]
  BY DrainWalk
<1>2. QED
  BY <1>1, Zenon

LEMMA FlushWalk ==
  ASSUME NEW p, p.buffer \in Texts, NEW S, p \in S, \A r \in S : DrainOnce(r, TRUE) \in S
  PROVE  \E run : Bodies(run, p, TRUE, S) /\ Drain(p, TRUE) = run[Len(p.buffer)]
<1>1. \A final : (\A r \in S : DrainOnce(r, final) \in S) =>
        \E run : Bodies(run, p, final, S) /\ Drain(p, final) = run[Len(p.buffer)]
  BY DrainWalk
<1>2. QED
  BY <1>1, Zenon

(* The whole loop: nothing is left to take.                                *)
LEMMA DrainSettles ==
  ASSUME NEW s \in Texts, NEW acc, IsPass(acc, s), NEW p \in Parser, NEW a \in Nat, Follows(p, s, acc, a),
         NEW q, q = Drain(p, FALSE)
  PROVE  q \in Parser /\ (\E e \in Nat : Follows(q, s, acc, e)) /\ Settled(q)
<1> DEFINE S == {r \in Parser : \E e \in Nat : Follows(r, s, acc, e)}
           n == Len(p.buffer)
<1>1. p.buffer \in Texts /\ n \in Nat
  BY DEF Parser, Texts
<1>2. p \in S
  OBVIOUS
<1>3. ASSUME NEW r \in S PROVE DrainStep(r, DrainOnce(r, FALSE), s, acc)
  BY DrainSteps
<1>4. \A r \in S : DrainOnce(r, FALSE) \in S
  BY <1>3 DEF DrainStep
<1>5. PICK run : /\ run \in [0 .. n -> S] /\ run[0] = p
                 /\ \A k \in 1 .. n : run[k] = DrainOnce(run[k - 1], FALSE)
                 /\ q = run[n]
  <2> HIDE DEF S
  <2>1. PICK run : Bodies(run, p, FALSE, S) /\ q = run[Len(p.buffer)]
    BY <1>1, <1>2, <1>4, FeedWalk
  <2>2. QED
    BY <2>1 DEF Bodies
<1>6. \A r \in S : Len(r.buffer) \in Nat
  BY DEF Parser, Texts
<1> DEFINE good == {k \in 0 .. n : Settled(run[k]) \/ Len(run[k].buffer) + k <= n}
<1> HIDE DEF S
<1>7. 0 \in good
  BY <1>1, <1>5
<1>8. ASSUME NEW k \in 0 .. n - 1, k \in good PROVE k + 1 \in good
  <2> DEFINE j == k + 1
             old == run[k]
             new == run[j]
  <2>1. j \in 1 .. n /\ j - 1 = k /\ k \in 0 .. n /\ j \in 0 .. n /\ k \in Nat
    BY <1>1
  <2>2. new = DrainOnce(old, FALSE) /\ old \in S /\ new \in S
    BY <1>5, <2>1
  <2> HIDE DEF old, new
  <2>3. DrainStep(old, new, s, acc)
    BY <1>3, <2>2
  <2>4. Settled(old) \/ Len(old.buffer) + k <= n
    BY <1>8 DEF old
  <2>5. Len(old.buffer) \in Nat /\ Len(new.buffer) \in Nat
    BY <1>6, <2>2
  <2>6. Settled(new) \/ Len(new.buffer) + j <= n
    <3>1. CASE Settled(old)
      BY <2>3, <3>1 DEF DrainStep
    <3>2. CASE Len(old.buffer) + k <= n
      <4>1. Settled(new) \/ Len(new.buffer) + 1 <= Len(old.buffer)
        BY <2>3 DEF DrainStep
      <4>2. ASSUME Len(new.buffer) + 1 <= Len(old.buffer) PROVE Len(new.buffer) + j <= n
        <5> DEFINE x == Len(old.buffer)
                   y == Len(new.buffer)
                   z == n
        <5>1. x \in Nat /\ y \in Nat /\ y + 1 <= x /\ x + k <= z /\ z \in Nat /\ k \in Nat
          BY <1>1, <2>1, <2>5, <3>2, <4>2
        <5> HIDE DEF x, y, z
        <5>2. y + (k + 1) <= z
          BY <5>1
        <5>3. QED
          BY <5>2 DEF x, y, z
      <4>3. QED
        BY <4>1, <4>2
    <3>3. QED
      BY <2>4, <3>1, <3>2
  <2>7. QED
    BY <2>1, <2>6 DEF new
<1>9. good = 0 .. n
  <2>1. good \in SUBSET (0 .. n)
    OBVIOUS
  <2> HIDE DEF good, n
  <2>2. QED
    BY <1>1, <1>7, <1>8, <2>1, UpTo
<1>10. q \in S /\ (Settled(q) \/ Len(q.buffer) + n <= n) /\ n \in 0 .. n
  BY <1>1, <1>5, <1>9
<1>11. q \in Parser /\ \E e \in Nat : Follows(q, s, acc, e)
  BY <1>10 DEF S
<1>12. Settled(q)
  <2>1. CASE Len(q.buffer) + n <= n
    <3>1. Len(q.buffer) = 0
      <4> DEFINE x == Len(q.buffer)
                 z == n
      <4>1. x \in Nat /\ z \in Nat /\ x + z <= z
        BY <1>1, <1>6, <1>10, <2>1
      <4> HIDE DEF x, z
      <4>2. x = 0
        BY <4>1
      <4>3. QED
        BY <4>2 DEF x
    <3>2. QED
      BY <1>11, <3>1, EmptySettled
  <2>2. QED
    BY <1>10, <2>1
<1>13. QED
  BY <1>11, <1>12

(* The flush, of a buffer without a tag.                                   *)
LEMMA FlushIs ==
  ASSUME NEW p \in Parser, NoTag(p.buffer, p.phase), NEW q, q = Drain(p, TRUE)
  PROVE  /\ Len(p.buffer) = 0 => q = p
         /\ Len(p.buffer) # 0 =>
              q = IF p.phase = NoPhase THEN Emit(p, 0)
                  ELSE [Emit(p, 0) EXCEPT !.phase = NoPhase, !.out = Append(@, Completed(p.phase))]
<1> DEFINE f == DrainOnce(p, TRUE)
           n == Len(p.buffer)
           S == {p, f}
<1>1. p.buffer \in Texts /\ n \in Nat
  BY DEF Parser, Texts
<1>2. CASE n = 0
  <2>1. p.buffer = << >>
    BY <1>1, <1>2 DEF Texts
  <2>2. f = p
    BY <2>1 DEF DrainOnce
  <2>3. p \in S /\ \A r \in S : DrainOnce(r, TRUE) \in S
    BY <2>2
  <2>4. PICK run : run \in [0 .. n -> S] /\ run[0] = p /\ q = run[n]
    <3> HIDE DEF S
    <3>1. PICK run : Bodies(run, p, TRUE, S) /\ q = run[Len(p.buffer)]
      BY <1>1, <2>3, FlushWalk
    <3>2. QED
      BY <3>1 DEF Bodies
  <2>5. QED
    BY <1>2, <2>4
<1>3. CASE n # 0
  <2>1. p.buffer # << >>
    BY <1>3
  <2>2. f = IF p.phase = NoPhase THEN Emit(p, 0)
            ELSE [Emit(p, 0) EXCEPT !.phase = NoPhase, !.out = Append(@, Completed(p.phase))]
    <3>1. \/ \E i \in Nat, tag \in Tag, to \in Phases : Took(p, f, i, tag, to)
          \/ f = IF p.phase = NoPhase THEN Emit(p, 0)
                  ELSE [Emit(p, 0) EXCEPT !.phase = NoPhase, !.out = Append(@, Completed(p.phase))]
      <4>1. TRUE \in BOOLEAN
        OBVIOUS
      <4>2. QED
        BY <2>1, <4>1, DrainCases
    <3> HIDE DEF f
    <3>2. \A i \in Nat, tag \in Tag, to \in Phases : ~ Took(p, f, i, tag, to)
      BY DEF Took, First, NoTag
    <3>3. QED
      BY <3>1, <3>2
  <2>3. f.buffer = << >>
    <3>1. 0 \in 0 .. n
      BY <1>1
    <3> DEFINE e == Emit(p, 0)
    <3>2. Emitted(p, 0, e)
      BY <3>1, EmitIs
    <3> HIDE DEF e
    <3>3. e \in Parser /\ Len(e.buffer) = 0
      BY <3>2 DEF Emitted
    <3>4. e.buffer = << >>
      BY <3>3 DEF Parser, Texts
    <3>5. f.buffer = e.buffer
      <4>1. f = IF p.phase = NoPhase THEN e
                ELSE [e EXCEPT !.phase = NoPhase, !.out = Append(@, Completed(p.phase))]
        BY <2>2 DEF e
      <4> HIDE DEF f
      <4>2. QED
        BY <3>3, <4>1 DEF Parser
    <3>6. QED
      BY <3>4, <3>5
  <2>4. DrainOnce(f, TRUE) = f
    BY <2>3 DEF DrainOnce
  <2>5. p \in S /\ \A r \in S : DrainOnce(r, TRUE) \in S
    BY <2>4
  <2>6. PICK run : /\ run \in [0 .. n -> S] /\ run[0] = p
                   /\ \A k \in 1 .. n : run[k] = DrainOnce(run[k - 1], TRUE)
                   /\ q = run[n]
    <3> HIDE DEF S
    <3>1. PICK run : Bodies(run, p, TRUE, S) /\ q = run[Len(p.buffer)]
      BY <1>1, <2>5, FlushWalk
    <3>2. QED
      BY <3>1 DEF Bodies
  <2>7. n \in 1 .. n /\ n - 1 \in 0 .. n
    BY <1>1, <1>3
  <2>8. q = DrainOnce(run[n - 1], TRUE) /\ run[n - 1] \in S
    BY <2>6, <2>7
  <2>9. q = f
    BY <2>4, <2>8
  <2>10. QED
    BY <1>3, <2>2, <2>9
<1>4. QED
  BY <1>2, <1>3

(* Once the loop has ended: the pass over the whole text, and what is kept *)
(* back of it.                                                             *)
LEMMA WholeTells ==
  ASSUME NEW s \in Texts, NEW acc, IsPass(acc, s), NEW p \in Parser, NEW a \in Nat, Follows(p, s, acc, a),
         Settled(p), NEW w, w = acc[Len(s)], NEW base, base = acc[a].out
  PROVE  /\ w \in Pass /\ w.at = a /\ w.phase = p.phase /\ base \in Seq(TagEvent)
         /\ Tells(w.out, base, p.phase, s, a, Len(s))
         /\ Tells(p.out, base, p.phase, s, a, Len(s) - Len(p.buffer))
         /\ KeptBack(SubSeq(s, a + 1, Len(s)), p.phase) = Len(p.buffer)
<1> DEFINE b == p.buffer
           ph == p.phase
           x == Len(s)
           n == Len(b)
           r == x - n
           rest == SubSeq(s, a + 1, x)
           k == KeptBack(rest, ph)
<1>1. b \in Texts /\ ph \in Phases /\ x \in Nat /\ n \in Nat
  BY DEF Parser, Texts
<1>2. /\ r \in Nat /\ a \in 0 .. r
      /\ \A i \in 1 .. n : b[i] = s[r + i]
      /\ acc[a].at = a /\ acc[a].phase = ph
      /\ Tells(p.out, base, ph, s, a, r)
      /\ \A i \in a + 1 .. r, t \in TagsOf(ph) : ~ MayBegin(s, i, t)
  BY DEF Follows
<1>3. NoTag(b, ph) /\ n = KeptBack(b, ph)
  BY DEF Settled
<1>4. ASSUME NEW j \in a + 1 .. x, NEW t \in TagsOf(ph) PROVE ~ Ends(s, j, a, t)
  BY <1>3, EndsInBuffer DEF NoTag
<1> HIDE DEF b, ph, x, n
<1>5. r + n = x /\ r \in Nat /\ a <= r /\ a <= x /\ x - a \in Nat /\ x <= Len(s) /\ a \in 0 .. Len(s)
  BY <1>1, <1>2 DEF x
<1>6. /\ w \in Pass /\ w.at = a /\ w.phase = ph /\ Tells(w.out, base, ph, s, a, x)
  <2>1. ph = acc[a].phase
    BY <1>2
  <2>2. /\ acc[x] \in Pass /\ acc[x].at = a /\ acc[x].phase = ph
        /\ Tells(acc[x].out, acc[a].out, ph, s, a, x)
    BY <1>1, <1>2, <1>4, <1>5, <2>1, Between
  <2>3. QED
    BY <2>2 DEF x
<1>7. base \in Seq(TagEvent)
  BY <1>5 DEF IsPass, Pass
<1>8. rest \in Texts /\ Len(rest) = x - a /\ \A i \in 1 .. x - a : rest[i] = s[a + i]
  <2>1. a + 1 \in 1 .. Len(s) + 1 /\ x \in (a + 1) - 1 .. Len(s) /\ x - (a + 1) + 1 = x - a
    BY <1>1, <1>5 DEF x
  <2>2. /\ rest \in Texts /\ Len(rest) = x - a
        /\ \A i \in 1 .. x - a : rest[i] = s[(a + 1) + i - 1]
    BY <2>1, SliceIs
  <2>3. \A i \in 1 .. x - a : (a + 1) + i - 1 = a + i
    OBVIOUS
  <2>4. QED
    BY <2>2, <2>3
<1> HIDE DEF rest
<1>9. /\ k \in {0, 1, 2} /\ k <= Len(rest)
      /\ \E tag \in TagsOf(ph) : EndsIn(rest, k, tag)
      /\ \A tag \in TagsOf(ph), m \in Nat : EndsIn(rest, m, tag) => m <= k
  BY <1>1, <1>8, KeptBackIs
<1>10. /\ n \in {0, 1, 2}
       /\ \E tag \in TagsOf(ph) : EndsIn(b, n, tag)
       /\ \A tag \in TagsOf(ph), m \in Nat : EndsIn(b, m, tag) => m <= n
  BY <1>1, <1>3, KeptBackIs
<1> HIDE DEF k, r
<1>11. n <= k
  <2>1. PICK tag \in TagsOf(ph) : EndsIn(b, n, tag)
    BY <1>10
  <2>2. n \in 0 .. Len(tag) - 1 /\ \A i \in 1 .. n : b[Len(b) - n + i] = tag[i]
    BY <2>1 DEF EndsIn
  <2>3. ASSUME NEW i \in 1 .. n PROVE rest[Len(rest) - n + i] = tag[i]
    <3>1. /\ Len(b) - n + i = i /\ Len(rest) - n + i \in 1 .. x - a
          /\ a + (Len(rest) - n + i) = r + i
      BY <1>1, <1>5, <1>8 DEF n
    <3>2. rest[Len(rest) - n + i] = s[r + i]
      BY <1>8, <3>1
    <3>3. QED
      BY <1>2, <2>2, <3>1, <3>2
  <2>4. n <= Len(rest)
    BY <1>1, <1>5, <1>8
  <2>5. EndsIn(rest, n, tag)
    BY <2>2, <2>3, <2>4 DEF EndsIn
  <2>6. QED
    BY <1>1, <1>9, <2>5
<1>12. k <= n
  <2>1. SUFFICES ASSUME k > n PROVE FALSE
    BY <1>1, <1>9
  <2>2. PICK tag \in TagsOf(ph) : EndsIn(rest, k, tag)
    BY <1>9
  <2>3. k \in 0 .. Len(tag) - 1 /\ \A i \in 1 .. k : rest[Len(rest) - k + i] = tag[i]
    BY <2>2 DEF EndsIn
  <2> DEFINE y == x - k + 1
  <2>4. k \in Nat /\ k <= x - a
    BY <1>8, <1>9
  <2>5. y \in a + 1 .. r /\ y \in Nat /\ y + k - 1 = x
    BY <1>1, <1>5, <2>1, <2>4
  <2> HIDE DEF y
  <2>6. Len(tag) \in Nat
    <3>1. Len(tag) \in {2, 3}
      BY <1>1, TagsOfAre
    <3>2. QED
      BY <3>1
  <2>7. ASSUME NEW i \in 1 .. Len(tag), y + i - 1 <= Len(s) PROVE s[y + i - 1] = tag[i]
    <3>1. i \in 1 .. k
      BY <2>4, <2>5, <2>6, <2>7 DEF x
    <3>2. Len(rest) - k + i \in 1 .. x - a /\ a + (Len(rest) - k + i) = y + i - 1
      BY <1>1, <1>5, <1>8, <2>4, <2>5, <3>1
    <3>3. rest[Len(rest) - k + i] = s[y + i - 1]
      BY <1>8, <3>2
    <3>4. QED
      BY <2>3, <3>1, <3>3
  <2>8. MayBegin(s, y, tag)
    BY <2>7 DEF MayBegin
  <2>9. QED
    BY <1>2, <2>5, <2>8
<1>13. k = n
  BY <1>1, <1>9, <1>11, <1>12
<1>14. QED
  BY <1>2, <1>6, <1>7, <1>13 DEF k, rest, n, x, r, b, ph

(* The events of a text that is not flushed, and of one that is.           *)
LEMMA FedSays ==
  ASSUME NEW s \in Texts, NEW acc, IsPass(acc, s), NEW p \in Parser, NEW a \in Nat, Follows(p, s, acc, a),
         Settled(p), NEW w, w = acc[Len(s)]
  PROVE  p.out = SubSeq(w.out, 1, Len(w.out) - Len(p.buffer))
<1> DEFINE base == acc[a].out
           y == Len(s)
           x == y - Len(p.buffer)
<1>1. /\ base \in Seq(TagEvent) /\ Tells(w.out, base, p.phase, s, a, y)
      /\ Tells(p.out, base, p.phase, s, a, x)
  BY WholeTells
<1>2. x \in Nat /\ y \in Nat /\ a <= x /\ x <= y /\ y - x = Len(p.buffer)
  <2>1. Len(s) \in Nat /\ Len(p.buffer) \in Nat
    BY DEF Parser, Texts
  <2>2. x \in Nat /\ a \in 0 .. x
    BY DEF Follows
  <2>3. QED
    BY <2>1, <2>2
<1> HIDE DEF base, x, y
<1>3. Tells(SubSeq(w.out, 1, Len(w.out) - (y - x)), base, p.phase, s, a, x)
  BY <1>1, <1>2, TellsLess
<1>4. QED
  BY <1>1, <1>2, <1>3, TellsSame

LEMMA FlushSays ==
  ASSUME NEW s \in Texts, NEW acc, IsPass(acc, s), NEW p \in Parser, NEW a \in Nat, Follows(p, s, acc, a),
         Settled(p), NEW w, w = acc[Len(s)]
  PROVE  Drain(p, TRUE).out = IF w.phase # NoPhase /\ Len(p.buffer) > 0 THEN Append(w.out, Completed(w.phase)) ELSE w.out
<1> DEFINE base == acc[a].out
           y == Len(s)
           n == Len(p.buffer)
           e == Emit(p, 0)
           q == Drain(p, TRUE)
<1>1. /\ w.phase = p.phase /\ base \in Seq(TagEvent) /\ Tells(w.out, base, p.phase, s, a, y)
      /\ Tells(p.out, base, p.phase, s, a, y - n)
  BY WholeTells
<1>2. /\ y \in Nat /\ n \in Nat /\ y - n \in Nat /\ a <= y - n /\ a <= y
      /\ \A k \in 1 .. n : p.buffer[k] = s[(y - n) + k]
  <2>1. Len(s) \in Nat /\ Len(p.buffer) \in Nat
    BY DEF Parser, Texts
  <2>2. y - n \in Nat /\ a \in 0 .. y - n /\ \A k \in 1 .. n : p.buffer[k] = s[(y - n) + k]
    BY DEF Follows
  <2> HIDE DEF y, n
  <2>3. y \in Nat /\ n \in Nat
    BY <2>1 DEF y, n
  <2>4. a <= y - n /\ a <= y
    BY <2>2, <2>3
  <2>5. QED
    BY <2>2, <2>3, <2>4
<1>3. /\ n = 0 => q = p
      /\ n # 0 => q = IF p.phase = NoPhase THEN e
                      ELSE [e EXCEPT !.phase = NoPhase, !.out = Append(@, Completed(p.phase))]
  <2>1. NoTag(p.buffer, p.phase)
    BY DEF Settled
  <2>2. QED
    BY <2>1, FlushIs
<1> HIDE DEF q
<1>4. CASE n = 0
  <2>1. y - n = y
    BY <1>2, <1>4
  <2>2. Tells(p.out, base, p.phase, s, a, y)
    BY <1>1, <2>1
  <2> HIDE DEF base, y
  <2>3. p.out = w.out
    BY <1>1, <1>2, <2>2, TellsSame
  <2>4. q = p
    BY <1>3, <1>4
  <2>5. ~ (Len(p.buffer) > 0)
    BY <1>4
  <2>6. QED
    BY <2>3, <2>4, <2>5 DEF q
<1>5. CASE n # 0
  <2> DEFINE b == p.buffer
             said == SubSeq(b, 1, n)
  <2>1. Emitted(p, 0, e)
    <3>1. 0 \in 0 .. Len(p.buffer)
      BY <1>2
    <3>2. QED
      BY <3>1, EmitIs
  <2>2. n - 0 = n
    BY <1>2
  <2> HIDE DEF e
  <2>3. /\ e \in Parser /\ said \in Texts /\ Len(said) = n /\ \A k \in 1 .. n : said[k] = b[k]
        /\ e.out = p.out \o Tagged(p.phase, said)
    BY <2>1, <2>2 DEF Emitted
  <2>4. \A k \in 1 .. Len(said) : said[k] = s[(y - n) + k]
    BY <1>2, <2>3
  <2>5. (y - n) + Len(said) = y
    BY <1>2, <2>3
  <2> HIDE DEF base, said, b
  <2>6. p.phase \in Phases
    BY DEF Parser
  <2> DEFINE z == y - n
  <2>7. z \in Nat /\ a <= z /\ Tells(p.out, base, p.phase, s, a, z) /\ z + Len(said) = y
        /\ \A k \in 1 .. Len(said) : said[k] = s[z + k]
    BY <1>1, <1>2, <2>4, <2>5
  <2> HIDE DEF z, y
  <2>8. Tells(e.out, base, p.phase, s, a, y)
    <3>1. Tells(p.out \o Tagged(p.phase, said), base, p.phase, s, a, z + Len(said))
      BY <1>1, <2>3, <2>6, <2>7, TellsMore
    <3>2. QED
      BY <2>3, <2>7, <3>1
  <2>9. e.out = w.out
    BY <1>1, <1>2, <2>8, TellsSame
  <2>10. n > 0
    BY <1>2, <1>5
  <2>11. CASE p.phase = NoPhase
    BY <1>1, <1>3, <1>5, <2>9, <2>11 DEF q
  <2>12. CASE p.phase # NoPhase
    <3>1. q = [e EXCEPT !.phase = NoPhase, !.out = Append(@, Completed(p.phase))]
      BY <1>3, <1>5, <2>12
    <3>2. q.out = Append(e.out, Completed(p.phase))
      BY <2>3, <3>1 DEF Parser
    <3>3. QED
      BY <1>1, <2>9, <2>10, <2>12, <3>2 DEF q
  <2>13. QED
    BY <2>11, <2>12
<1>6. QED
  BY <1>4, <1>5 DEF q

-----------------------------------------------------------------------------
(* Along the pass until the flush, and then nothing changes.               *)
TagInv ==
  /\ text \in Texts
  /\ IF flushed THEN CutAnywhere
     ELSE /\ parser \in Parser /\ Settled(parser)
          /\ \E acc : IsPass(acc, text) /\ \E a \in Nat : Follows(parser, text, acc, a)

LEMMA CutIs ==
  ASSUME NEW w, w = WholeText(text), NEW k, k = KeptBack(SubSeq(text, w.at + 1, Len(text)), w.phase)
  PROVE  CutAnywhere <=>
           IF flushed
           THEN parser.out = IF w.phase # NoPhase /\ k > 0 THEN Append(w.out, Completed(w.phase)) ELSE w.out
           ELSE parser.out = SubSeq(w.out, 1, Len(w.out) - k)
<1> DEFINE kept == IF w.phase # NoPhase
                   THEN PartialLength(SubSeq(text, w.at + 1, Len(text)), CloseTag[w.phase])
                   ELSE PartialLengthOf(SubSeq(text, w.at + 1, Len(text)), {OpenTag[q] : q \in Phase})
<1>1. k = kept
  BY DEF KeptBack
<1>2. CutAnywhere <=>
        IF flushed
        THEN parser.out = IF w.phase # NoPhase /\ kept > 0 THEN Append(w.out, Completed(w.phase)) ELSE w.out
        ELSE parser.out = SubSeq(w.out, 1, Len(w.out) - kept)
  BY DEF CutAnywhere
<1> HIDE DEF kept
<1>3. QED
  BY <1>1, <1>2

(* What holds of a text that has not been flushed.                         *)
LEMMA FedWhole ==
  ASSUME TagInv, ~ flushed, NEW w, w = WholeText(text)
  PROVE  \E acc : \E a \in Nat :
           /\ IsPass(acc, text) /\ w = acc[Len(text)] /\ Follows(parser, text, acc, a)
           /\ KeptBack(SubSeq(text, w.at + 1, Len(text)), w.phase) = Len(parser.buffer)
<1>1. text \in Texts /\ parser \in Parser /\ Settled(parser)
  BY DEF TagInv
<1>2. PICK acc : IsPass(acc, text) /\ \E a \in Nat : Follows(parser, text, acc, a)
  BY DEF TagInv
<1> PICK a \in Nat : Follows(parser, text, acc, a)
  BY <1>2
<1>3. PICK full : IsPass(full, text) /\ w = full[Len(text)]
  BY <1>1, WholeIs
<1>4. w = acc[Len(text)]
  <2>1. Len(text) \in Nat /\ Len(text) <= Len(text)
    BY <1>1 DEF Texts
  <2>2. \A j \in 0 .. Len(text) : acc[j] = full[j]
    BY <1>1, <1>2, <1>3, <2>1, PassesAgree
  <2>3. QED
    BY <1>3, <2>1, <2>2
<1>5. w.at = a /\ w.phase = parser.phase
      /\ KeptBack(SubSeq(text, a + 1, Len(text)), parser.phase) = Len(parser.buffer)
  BY <1>1, <1>2, <1>4, WholeTells
<1>6. QED
  BY <1>2, <1>4, <1>5

LEMMA TagCut ==
  ASSUME TagInv
  PROVE  CutAnywhere
<1>1. CASE flushed
  BY <1>1 DEF TagInv
<1>2. CASE ~ flushed
  <2> DEFINE w == WholeText(text)
             k == KeptBack(SubSeq(text, w.at + 1, Len(text)), w.phase)
  <2>1. PICK acc : \E a \in Nat :
          /\ IsPass(acc, text) /\ w = acc[Len(text)] /\ Follows(parser, text, acc, a)
          /\ k = Len(parser.buffer)
    BY <1>2, FedWhole
  <2>2. text \in Texts /\ parser \in Parser /\ Settled(parser)
    BY <1>2 DEF TagInv
  <2> HIDE DEF w
  <2>3. parser.out = SubSeq(w.out, 1, Len(w.out) - Len(parser.buffer))
    BY <2>1, <2>2, FedSays
  <2>4. w = WholeText(text) /\ k = KeptBack(SubSeq(text, w.at + 1, Len(text)), w.phase)
    BY DEF w
  <2> HIDE DEF k
  <2>5. parser.out = SubSeq(w.out, 1, Len(w.out) - k)
    BY <2>1, <2>3
  <2>6. QED
    BY <1>2, <2>4, <2>5, CutIs
<1>3. QED
  BY <1>1, <1>2

LEMMA TagInitial ==
  ASSUME TagInit
  PROVE  TagInv
<1> DEFINE acc == [j \in 0 .. 0 |-> PassBegin]
<1>1. text = << >> /\ ~ flushed /\ parser = [buffer |-> << >>, phase |-> NoPhase, out |-> << >>]
  BY DEF TagInit
<1>2. text \in Texts /\ parser \in Parser /\ Len(text) = 0 /\ Len(parser.buffer) = 0
      /\ parser.phase = NoPhase /\ parser.out = << >>
  BY <1>1 DEF Texts, Parser, Phases
<1>3. Settled(parser)
  BY <1>2, EmptySettled
<1>4. IsPass(acc, text)
  <2>1. PassBegin \in Pass
    BY DEF Pass, PassBegin, Phases
  <2>2. QED
    BY <1>2, <2>1 DEF IsPass
<1>5. Follows(parser, text, acc, 0)
  <2>1. acc[0] = PassBegin
    OBVIOUS
  <2> HIDE DEF acc
  <2>2. acc[0].at = 0 /\ acc[0].phase = NoPhase /\ acc[0].out = << >>
    BY <2>1 DEF PassBegin
  <2>3. Tells(parser.out, acc[0].out, NoPhase, text, 0, 0)
    <3>1. << >> \in Seq(TagEvent) /\ 0 \in Nat
      OBVIOUS
    <3>2. QED
      BY <1>2, <2>2, <3>1, TellsNothing
  <2>4. 0 - 0 = 0 /\ 0 \in 0 .. 0 /\ 0 + 1 .. 0 = {} /\ 1 .. 0 = {}
    OBVIOUS
  <2>5. QED
    BY <1>2, <2>2, <2>3, <2>4 DEF Follows
<1>6. 0 \in Nat
  OBVIOUS
<1> HIDE DEF acc
<1>7. QED
  BY <1>1, <1>2, <1>3, <1>4, <1>5, <1>6 DEF TagInv

LEMMA FeedKeeps ==
  ASSUME TagInv, NEW chunk \in Chunk, Feed(chunk)
  PROVE  TagInv'
<1> DEFINE p == [parser EXCEPT !.buffer = parser.buffer \o chunk]
           s == text \o chunk
<1>1. text \in Texts /\ parser \in Parser /\ ~ flushed /\ ~ flushed'
  BY DEF TagInv, Feed
<1>2. chunk \in Texts
  BY DEF Chunk, Texts
<1>3. PICK acc : IsPass(acc, text) /\ \E a \in Nat : Follows(parser, text, acc, a)
  BY <1>1 DEF TagInv
<1> PICK a \in Nat : Follows(parser, text, acc, a)
  BY <1>3
<1>4. text' = s /\ parser' = Drain(p, FALSE)
  BY DEF Feed
<1>5. /\ s \in Texts /\ Len(s) = Len(text) + Len(chunk)
      /\ \A k \in 1 .. Len(text) + Len(chunk) :
           s[k] = IF k <= Len(text) THEN text[k] ELSE chunk[k - Len(text)]
  BY <1>1, <1>2, ConcatProperties DEF Texts
<1> DEFINE b == parser.buffer
           c == b \o chunk
<1>6. b \in Texts /\ parser.phase \in Phases /\ parser.out \in Seq(TagEvent)
  BY <1>1 DEF Parser
<1>7. /\ c \in Texts /\ Len(c) = Len(b) + Len(chunk)
      /\ \A k \in 1 .. Len(b) + Len(chunk) :
           c[k] = IF k <= Len(b) THEN b[k] ELSE chunk[k - Len(b)]
  BY <1>2, <1>6, ConcatProperties DEF Texts
<1>8. Len(text) \in Nat /\ Len(chunk) \in Nat /\ Len(b) \in Nat
  BY <1>1, <1>2, <1>6 DEF Texts
<1> HIDE DEF s, c
<1>9. p \in Parser /\ p.buffer = c /\ p.phase = parser.phase /\ p.out = parser.out
  BY <1>1, <1>7 DEF Parser, c
<1>10. PICK full : IsPass(full, s)
  BY <1>5, WholeIs
<1>11. \A j \in 0 .. Len(text) : acc[j] = full[j]
  <2> DEFINE m == Len(text)
  <2>1. m \in Nat /\ m <= Len(s) /\ m <= Len(text) /\ \A k \in 1 .. m : text[k] = s[k]
    BY <1>5, <1>8
  <2> HIDE DEF m
  <2>2. \A j \in 0 .. m : acc[j] = full[j]
    BY <1>1, <1>3, <1>5, <1>10, <2>1, PassesAgree
  <2>3. QED
    BY <2>2 DEF m
<1> DEFINE r == Len(text) - Len(b)
           ph == parser.phase
<1>12. /\ r \in Nat /\ a \in 0 .. r
       /\ \A k \in 1 .. Len(b) : b[k] = text[r + k]
       /\ acc[a].at = a /\ acc[a].phase = ph
       /\ Tells(parser.out, acc[a].out, ph, text, a, r)
       /\ \A i \in a + 1 .. r, t \in TagsOf(ph) : ~ MayBegin(text, i, t)
  BY <1>3 DEF Follows
<1> HIDE DEF b, ph
<1>13. a \in 0 .. Len(text) /\ r <= Len(text) /\ r + Len(b) = Len(text) /\ Len(s) - Len(c) = r
  BY <1>5, <1>7, <1>8, <1>12
<1> HIDE DEF p, r
<1>14. full[a] = acc[a]
  BY <1>11, <1>13
<1>15. Follows(p, s, full, a)
  <2>1. ASSUME NEW k \in 1 .. Len(c) PROVE c[k] = s[r + k]
    <3>1. /\ k \in 1 .. Len(b) + Len(chunk) /\ r + k \in 1 .. Len(text) + Len(chunk)
          /\ k <= Len(b) <=> r + k <= Len(text)
          /\ r + k - Len(text) = k - Len(b)
      <4>1. k \in Nat /\ k >= 1 /\ k <= Len(b) + Len(chunk) /\ r \in Nat /\ r + Len(b) = Len(text)
        BY <1>7, <1>8, <1>12, <1>13
      <4>2. QED
        BY <1>8, <4>1
    <3>2. CASE k <= Len(b)
      <4>1. k \in 1 .. Len(b)
        BY <1>8, <3>1, <3>2
      <4>2. c[k] = b[k] /\ s[r + k] = text[r + k] /\ b[k] = text[r + k]
        BY <1>5, <1>7, <1>12, <3>1, <3>2, <4>1
      <4>3. QED
        BY <4>2
    <3>3. CASE ~ (k <= Len(b))
      <4>1. c[k] = chunk[k - Len(b)]
        BY <1>7, <3>1, <3>3
      <4>2. s[r + k] = chunk[k - Len(b)]
        <5> DEFINE z == r + k
        <5>1. z \in 1 .. Len(text) + Len(chunk) /\ ~ (z <= Len(text)) /\ z - Len(text) = k - Len(b)
          <6>1. k \in Nat /\ k > Len(b) /\ k <= Len(b) + Len(chunk) /\ r \in Nat /\ r + Len(b) = Len(text)
            BY <1>7, <1>8, <1>12, <1>13, <3>3
          <6>2. QED
            BY <1>8, <6>1
        <5> HIDE DEF z
        <5>2. s[z] = chunk[z - Len(text)]
          BY <1>5, <5>1
        <5>3. s[z] = chunk[k - Len(b)]
          BY <5>1, <5>2
        <5>4. QED
          BY <5>3 DEF z
      <4>3. QED
        BY <4>1, <4>2
    <3>4. QED
      BY <3>2, <3>3
  <2>2. Tells(parser.out, acc[a].out, ph, s, a, r)
    <3>1. \A i \in 1 .. r - a : a + i \in 1 .. Len(text)
      BY <1>8, <1>12, <1>13
    <3>2. \A i \in 1 .. r - a : s[a + i] = text[a + i]
      BY <1>5, <1>8, <3>1
    <3>3. QED
      BY <1>12, <3>2 DEF Tells
  <2>3. ASSUME NEW i \in a + 1 .. r, NEW t \in TagsOf(ph) PROVE ~ MayBegin(s, i, t)
    <3>1. SUFFICES ASSUME MayBegin(s, i, t) PROVE MayBegin(text, i, t)
      BY <1>12
    <3>2. Len(t) \in Nat /\ i \in Nat /\ i >= 1
      <4>1. Len(t) \in {2, 3}
        BY <1>6, TagsOfAre DEF ph
      <4>2. QED
        BY <1>12, <4>1
    <3>3. ASSUME NEW k \in 1 .. Len(t), i + k - 1 <= Len(text) PROVE text[i + k - 1] = t[k]
      <4>1. i + k - 1 \in 1 .. Len(text) /\ i + k - 1 <= Len(s) /\ i + k - 1 \in 1 .. Len(text) + Len(chunk)
        BY <1>5, <1>8, <3>2, <3>3
      <4>2. s[i + k - 1] = text[i + k - 1]
        BY <1>5, <4>1
      <4>3. s[i + k - 1] = t[k]
        BY <3>1, <4>1 DEF MayBegin
      <4>4. QED
        BY <4>2, <4>3
    <3>4. QED
      BY <3>3 DEF MayBegin
  <2>4. QED
    BY <1>9, <1>12, <1>13, <1>14, <2>1, <2>2, <2>3 DEF Follows, ph
<1>16. parser' \in Parser /\ (\E e \in Nat : Follows(parser', s, full, e)) /\ Settled(parser')
  BY <1>4, <1>5, <1>9, <1>10, <1>15, DrainSettles
<1>17. text' \in Texts /\ IsPass(full, text') /\ \E e \in Nat : Follows(parser', text', full, e)
  BY <1>4, <1>5, <1>10, <1>16
<1>18. QED
  BY <1>1, <1>16, <1>17 DEF TagInv

LEMMA FlushKeeps ==
  ASSUME TagInv, Flush
  PROVE  TagInv'
<1> DEFINE w == WholeText(text)
           k == KeptBack(SubSeq(text, w.at + 1, Len(text)), w.phase)
<1>1. text \in Texts /\ parser \in Parser /\ ~ flushed /\ flushed' /\ text' = text /\ Settled(parser)
      /\ parser' = Drain(parser, TRUE)
  BY DEF TagInv, Flush
<1>2. PICK acc : \E a \in Nat :
        /\ IsPass(acc, text) /\ w = acc[Len(text)] /\ Follows(parser, text, acc, a)
        /\ k = Len(parser.buffer)
  BY <1>1, FedWhole
<1>3. w = WholeText(text) /\ k = KeptBack(SubSeq(text, w.at + 1, Len(text)), w.phase)
  OBVIOUS
<1> HIDE DEF w
<1>4. parser'.out = IF w.phase # NoPhase /\ Len(parser.buffer) > 0
                    THEN Append(w.out, Completed(w.phase)) ELSE w.out
  <2>1. PICK a \in Nat : Follows(parser, text, acc, a)
    BY <1>2
  <2>2. parser' = Drain(parser, TRUE) /\ text \in Texts /\ parser \in Parser /\ Settled(parser)
    BY <1>1 DEF TagInv
  <2>3. IsPass(acc, text) /\ w = acc[Len(text)]
    BY <1>2
  <2>4. Drain(parser, TRUE).out = IF w.phase # NoPhase /\ Len(parser.buffer) > 0
                                  THEN Append(w.out, Completed(w.phase)) ELSE w.out
    BY <2>1, <2>2, <2>3, FlushSays
  <2>5. QED
    BY <2>2, <2>4
<1> HIDE DEF k
<1>5. parser'.out = IF w.phase # NoPhase /\ k > 0 THEN Append(w.out, Completed(w.phase)) ELSE w.out
  BY <1>2, <1>4
<1>6. CutAnywhere'
  <2> DEFINE kept == IF w.phase # NoPhase
                     THEN PartialLength(SubSeq(text, w.at + 1, Len(text)), CloseTag[w.phase])
                     ELSE PartialLengthOf(SubSeq(text, w.at + 1, Len(text)), {OpenTag[q] : q \in Phase})
  <2>1. k = kept
    BY DEF KeptBack, k
  <2>2. CutAnywhere' <=>
          parser'.out = IF w.phase # NoPhase /\ kept > 0 THEN Append(w.out, Completed(w.phase)) ELSE w.out
    BY <1>1 DEF CutAnywhere, w
  <2> HIDE DEF kept
  <2>3. QED
    BY <1>5, <2>1, <2>2
<1>7. QED
  BY <1>1, <1>6 DEF TagInv

(* The inductive invariant of the parser: until the flush it is along the  *)
(* pass over the whole text, with nothing left to take, and what the flush *)
(* says stays.                                                             *)
THEOREM ParserInvariance == TagSpec => []TagInv
<1>1. TagInit => TagInv
  BY TagInitial
<1>2. ASSUME TagInv, [TagNext]_tagVars PROVE TagInv'
  <2>1. ASSUME NEW chunk \in Chunk, Feed(chunk) PROVE TagInv'
    BY <1>2, <2>1, FeedKeeps
  <2>2. CASE Flush
    BY <1>2, <2>2, FlushKeeps
  <2>3. CASE UNCHANGED tagVars
    <3>1. text' = text /\ parser' = parser /\ flushed' = flushed
      BY <2>3 DEF tagVars
    <3>2. CutAnywhere' <=> CutAnywhere
      BY <3>1 DEF CutAnywhere
    <3>3. QED
      BY <1>2, <3>1, <3>2 DEF TagInv
  <2>4. QED
    BY <1>2, <2>1, <2>2, <2>3 DEF TagNext
<1>3. QED
  BY <1>1, <1>2, PTL DEF TagSpec

(* CutAnywhere (thinking_parser.py): however long the text and wherever it *)
(* is cut, tags included, its events say what one pass over the whole of   *)
(* it finds, but for what may be the beginning of a tag.                   *)
THEOREM CutsDoNotMatter == TagSpec => []CutAnywhere
BY ParserInvariance, TagCut, PTL
=============================================================================
