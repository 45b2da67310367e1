---------------------------- MODULE SessionState ----------------------------
(***************************************************************************)
(* What a session remembers besides its transcript: title, collaboration   *)
(* mode, checklist, plan draft, the pending question to the user and the   *)
(* state of each uploaded attachment (sessions/session_store.py, the       *)
(* session routes, handle_message and its finalizers, parse_attachment and *)
(* attachments/service.py).                                                *)
(*                                                                         *)
(* A turn reads the record once, when its message is appended, works on    *)
(* that copy and writes the whole of it with every save.  The routes and   *)
(* parse_attachment read the record on disk.  One message run at a time:   *)
(* what happens when two overlap is the matter of SessionTurns.            *)
(***************************************************************************)
EXTENDS Integers, FiniteSets

CONSTANTS
  Attachment,      \* files that are uploaded
  Image,           \* those of them that are images
  MaxRecordTurns,  \* bound: messages with a turn
  MaxEdits,        \* bound: edits through the routes
  MaxQuestions     \* bound: questions asked

ASSUME RecordAssumption == MaxQuestions \in Nat

Title == {"default", "first", "renamed"}    \* "未命名会话", the first message, the user's
Mode == {"default", "plan", "subagent"}
Draft == {"none", "some"}
Status == {"none", "saved", "parsed", "failed"}
RunPlace == {"idle", "uploading", "registering", "working", "analysing", "returned", "asked"}
Record ==
  [title : Title, mode : Mode, checklist : BOOLEAN, draft : Draft,
   question : 0 .. MaxQuestions, status : [Attachment -> Status]]

NewRecord ==
  [title |-> "default", mode |-> "default", checklist |-> FALSE, draft |-> "none",
   question |-> 0, status |-> [a \in Attachment |-> "none"]]
None == [NewRecord EXCEPT !.title = "none"]   \* no copy
Gone == [NewRecord EXCEPT !.title = "gone"]   \* no file

VARIABLES
  recordFile, \* the record's file
  copy,       \* the turn's session object, SessionTask.session
  runPlace,   \* where the message run is
  uploads,    \* the files that came with its message
  batchOf,    \* attachment |-> the message it came with, 0 before
  replying,   \* the message carries responds_to_awaiting_user_input
  target,     \* what parse_attachment parses: a set with at most one file
  read,       \* the statuses that it restored from the record
  manifest,   \* attachment |-> its status in the manifest of its message
  output,     \* the attachments with a markdown file
  turnsOfRecord, edits,
  asked,      \* history: the last question put to the user
  answered,   \* history: the last one whose reply had a turn that finished
  settled,    \* history: field |-> what a route wrote between turns, or Open
  firm        \* history: the attachments that the record has called parsed

runVars == <<copy, runPlace, uploads, replying, target, read>>
fileVars == <<batchOf, manifest, output>>
stateVars == <<recordFile, runVars, fileVars, turnsOfRecord, edits, asked, answered, settled, firm>>

Field == {"title", "mode", "draft", "exists"}
Open == "open"

-----------------------------------------------------------------------------
(* save: the file holds what the record holds.                             *)
Saved(record) ==
  /\ recordFile' = record
  /\ firm' = firm \cup {a \in Attachment : record.status[a] = "parsed"}

Settle(field, value) == settled' = [settled EXCEPT ![field] = value]

(* send_message answers 404 for a session that is gone, 409 for a busy     *)
(* one; run_worker then saves the uploads, waiting for each file.          *)
SendMessage(files) ==
  /\ runPlace = "idle" /\ recordFile # Gone /\ turnsOfRecord < MaxRecordTurns
  /\ \A a \in files : batchOf[a] = 0
  /\ runPlace' = "uploading" /\ uploads' = files /\ turnsOfRecord' = turnsOfRecord + 1
  /\ UNCHANGED <<recordFile, copy, replying, target, read, fileVars, edits, asked, answered,
                 answered, settled, firm>>

(* A file that save_uploads refuses ends the run; what came before stays   *)
(* in the directory, without manifest and message.                         *)
RefuseUpload ==
  /\ runPlace = "uploading" /\ uploads # {}
  /\ runPlace' = "idle" /\ uploads' = {}
  /\ UNCHANGED <<recordFile, copy, replying, target, read, fileVars, turnsOfRecord, edits, asked,
                 answered, settled, firm>>

(* build_pending_user_input_reply_metadata                                 *)
Pending(record) == record.question # 0

Received == [a \in Attachment |-> IF a \in uploads THEN "saved" ELSE recordFile.status[a]]
SavesUploads ==
  /\ batchOf' = [a \in Attachment |-> IF a \in uploads THEN turnsOfRecord ELSE batchOf[a]]
  /\ manifest' = [a \in Attachment |-> IF a \in uploads THEN "saved" ELSE manifest[a]]
  /\ UNCHANGED output

(* append_message on the record as it is now.  A message without text      *)
(* leaves the title to post_user_message.                                  *)
AppendMessage(record) ==
  \E title \in IF record.title # "default" THEN {record.title}
               ELSE IF uploads = {} THEN {"first"} ELSE {"first", "default"} :
    LET now == [record EXCEPT !.title = title, !.status = Received] IN
    /\ copy' = now /\ Saved(now)
    /\ runPlace' = IF uploads = {} THEN "working" ELSE "registering"
    /\ replying' = Pending(record)
    /\ IF title = record.title THEN UNCHANGED settled ELSE Settle("title", Open)

TurnStarts ==
  /\ runPlace = "uploading" /\ recordFile # Gone
  /\ SavesUploads /\ AppendMessage(recordFile)
  /\ UNCHANGED <<uploads, target, read, turnsOfRecord, edits, asked, answered>>

(* append_message raises FileNotFoundError; the manifest is written.       *)
NoSession ==
  /\ runPlace = "uploading" /\ recordFile = Gone
  /\ SavesUploads
  /\ runPlace' = "idle" /\ uploads' = {}
  /\ UNCHANGED <<recordFile, copy, replying, target, read, turnsOfRecord, edits, asked, answered,
                 answered, settled, firm>>

(* post_user_message: a title, and a save.                                 *)
Registered ==
  /\ runPlace = "registering"
  /\ LET now == IF copy.title = "default" THEN [copy EXCEPT !.title = "first"] ELSE copy
     IN copy' = now /\ Saved(now)
  /\ runPlace' = "working"
  /\ UNCHANGED <<uploads, replying, target, read, fileVars, turnsOfRecord, edits, asked, answered,
                 settled>>

-----------------------------------------------------------------------------
(* What a turn does.  Tools: get_collaboration_mode and get_session_plan   *)
(* look at the copy.                                                       *)
ToolAllowed == copy.mode = "plan" => copy.checklist

TurnSaves(now) ==
  /\ copy' = now /\ Saved(now)
  /\ UNCHANGED <<uploads, replying, read, fileVars, turnsOfRecord, edits>>

(* An assistant message, a tool that is refused or that leaves these       *)
(* fields alone.                                                           *)
SaveProgress ==
  /\ runPlace = "working"
  /\ TurnSaves(copy)
  /\ UNCHANGED <<runPlace, target, asked, answered, settled>>

EnterPlanMode ==
  /\ runPlace = "working" /\ copy.mode # "plan"
  /\ TurnSaves([copy EXCEPT !.mode = "plan"])
  /\ Settle("mode", Open)
  /\ UNCHANGED <<runPlace, target, asked, answered>>

UpdatePlan ==
  /\ runPlace = "working" /\ copy.mode = "plan"
  /\ TurnSaves([copy EXCEPT !.checklist = TRUE])
  /\ UNCHANGED <<runPlace, target, asked, answered, settled>>

(* request_user_input: the question is in the record, and on the screen.   *)
AwaitingUserInput == asked + 1
Ask ==
  /\ runPlace = "working" /\ ToolAllowed /\ asked < MaxQuestions
  /\ TurnSaves([copy EXCEPT !.question = AwaitingUserInput])
  /\ runPlace' = "asked" /\ asked' = asked + 1
  /\ UNCHANGED <<target, answered, settled>>

(* variant: what the record says of the other attachments is not restored.  *)
RestoredAfresh(a) ==
  [b \in Attachment |-> IF batchOf[b] = batchOf[a] THEN "saved" ELSE "none"]

(* parse_attachment reads the record on disk and restores all attachments  *)
(* of the message; the file in question is the only one it parses.         *)
Restored(a) ==
  [b \in Attachment |-> IF batchOf[b] = batchOf[a] THEN recordFile.status[b] ELSE "none"]

(* parse_selected_attachments up to the return of the tool: markdown, then *)
(* the manifest of the message.                                            *)
Parsed(a, now, status) ==
  /\ read' = [now EXCEPT ![a] = status]
  /\ manifest' = [b \in Attachment |-> IF batchOf[b] = batchOf[a] THEN read'[b] ELSE manifest[b]]
  /\ output' = IF status = "parsed" THEN output \cup {a} ELSE output
  /\ runPlace' = "returned"

(* _resolve_target, by attachment_id or by a selector that fits one file.  *)
Resolves(a) == recordFile # Gone /\ recordFile.status[a] # "none"

(* The parsers of the file formats and the model that looks at an image:   *)
(* what they find is left out.                                             *)
FileOutcome == {"parsed", "failed"}
ImageOutcome == {"parsed", "failed"}

Parse(a) ==
  /\ runPlace = "working" /\ ToolAllowed /\ Resolves(a)
  /\ target' = {a}
  /\ \/ /\ recordFile.status[a] = "parsed"                       \* the cached result
        /\ Parsed(a, Restored(a), "parsed")
     \/ /\ recordFile.status[a] # "parsed" /\ a \notin Image
        /\ \E status \in FileOutcome : Parsed(a, Restored(a), status)
     \/ /\ recordFile.status[a] # "parsed" /\ a \in Image
        /\ runPlace' = "analysing" /\ read' = Restored(a)
        /\ UNCHANGED <<manifest, output>>
  /\ UNCHANGED <<recordFile, copy, uploads, replying, batchOf, turnsOfRecord, edits, asked,
                 answered, settled, firm>>

Analysed ==
  /\ runPlace = "analysing"
  /\ \E a \in target, status \in ImageOutcome : Parsed(a, read, status)
  /\ UNCHANGED <<recordFile, copy, uploads, replying, target, batchOf, turnsOfRecord, edits, asked,
                 answered, settled, firm>>

(* The tool's 120 seconds are over: it is tried again, from the record, or *)
(* fails without an update.                                                *)
AnalysisTimesOut ==
  /\ runPlace = "analysing"
  /\ \/ UNCHANGED <<recordFile, copy, uploads, replying, read, fileVars, turnsOfRecord, edits, firm>>
     \/ TurnSaves(copy)
  /\ runPlace' = "working" /\ target' = {}
  /\ UNCHANGED <<asked, answered, settled>>

(* _apply_session_message_updates replaces the metadata of the message.    *)
Updated ==
  [b \in Attachment |->
     IF \E a \in target : batchOf[a] = batchOf[b] THEN read[b] ELSE copy.status[b]]

ParseSaved ==
  /\ runPlace = "returned"
  /\ TurnSaves([copy EXCEPT !.status = Updated])
  /\ runPlace' = "working" /\ target' = {}
  /\ UNCHANGED <<asked, answered, settled>>

-----------------------------------------------------------------------------
(* How a turn ends.                                                        *)
Leaves ==
  /\ runPlace' = "idle" /\ copy' = None
  /\ uploads' = {} /\ target' = {} /\ replying' = FALSE
  /\ read' = [a \in Attachment |-> "none"]
  /\ UNCHANGED <<fileVars, turnsOfRecord, edits, asked, settled>>

(* _finalize_awaiting_user_input                                           *)
FinishAsked ==
  /\ runPlace = "asked"
  /\ Saved(copy)
  /\ Leaves /\ UNCHANGED answered

(* variant: the question is dropped from the copy after the last save.      *)
FinishUnsaved ==
  /\ runPlace = "working"
  /\ Saved(copy)
  /\ answered' = IF replying THEN copy.question ELSE answered
  /\ Leaves

(* The other finalizers: final message, then                               *)
(* _clear_resolved_awaiting_user_input; nothing can come between.          *)
Finish ==
  /\ runPlace = "working"
  /\ Saved(IF replying THEN [copy EXCEPT !.question = 0] ELSE copy)
  /\ answered' = IF replying THEN copy.question ELSE answered
  /\ Leaves

(* An interrupt (which adds its note to the record on disk), an exception  *)
(* or the end of the loop without a final response.                        *)
BreakOff ==
  /\ runPlace \notin {"idle"}
  /\ Leaves /\ UNCHANGED <<recordFile, answered, firm>>

-----------------------------------------------------------------------------
(* The routes: read the record, change it, write it.                       *)
Edit(field, value, now) ==
  /\ recordFile # Gone /\ edits < MaxEdits
  /\ edits' = edits + 1
  /\ Saved(now)
  /\ Settle(field, IF copy = None THEN value ELSE Open)
  /\ UNCHANGED <<runVars, fileVars, turnsOfRecord, asked, answered>>

Rename == Edit("title", "renamed", [recordFile EXCEPT !.title = "renamed"])
SetMode == \E mode \in Mode : Edit("mode", mode, [recordFile EXCEPT !.mode = mode])
SetDraft == \E draft \in Draft : Edit("draft", draft, [recordFile EXCEPT !.draft = draft])
Delete == Edit("exists", "gone", Gone)

-----------------------------------------------------------------------------
StateInit ==
  /\ recordFile = NewRecord /\ copy = None /\ runPlace = "idle"
  /\ uploads = {} /\ replying = FALSE /\ target = {}
  /\ read = [a \in Attachment |-> "none"]
  /\ batchOf = [a \in Attachment |-> 0]
  /\ manifest = [a \in Attachment |-> "none"]
  /\ output = {}
  /\ turnsOfRecord = 0 /\ edits = 0 /\ asked = 0 /\ answered = 0
  /\ settled = [field \in Field |-> Open]
  /\ firm = {}

StateNext ==
  \/ \E files \in SUBSET Attachment : SendMessage(files)
  \/ RefuseUpload \/ TurnStarts \/ NoSession \/ Registered
  \/ SaveProgress \/ EnterPlanMode \/ UpdatePlan \/ Ask
  \/ \E a \in Attachment : Parse(a)
  \/ Analysed \/ AnalysisTimesOut \/ ParseSaved
  \/ FinishAsked \/ Finish \/ BreakOff
  \/ Rename \/ SetMode \/ SetDraft \/ Delete

StateSpec == StateInit /\ [][StateNext]_stateVars

-----------------------------------------------------------------------------
(* Between turns the record's pending question is the last one that the    *)
(* user was asked, unless a turn that replied to it came to its regular    *)
(* end: a reply whose turn is interrupted or fails is asked for again, an  *)
(* answered question never comes back, and a question that a reply leads   *)
(* to is not cleared with the one it replies to (run_loop.py,              *)
(* handle_message, _clear_resolved_awaiting_user_input, and the copy that  *)
(* saves everything).                                                      *)
QuestionIsCurrent ==
  (runPlace = "idle" /\ recordFile # Gone) =>
    recordFile.question = IF answered = asked THEN 0 ELSE asked

(* What the user sets through the routes while no turn holds the record, a *)
(* title, a mode, a draft or that the session is gone, stays until the     *)
(* user or a tool sets it again, whatever turns follow (session_store.py,  *)
(* rename, append_message, delete; api/routes/sessions.py).                *)
EditsStick ==
  /\ settled["title"] # Open /\ recordFile # Gone => recordFile.title = settled["title"]
  /\ settled["mode"] # Open /\ recordFile # Gone => recordFile.mode = settled["mode"]
  /\ settled["draft"] # Open /\ recordFile # Gone => recordFile.draft = settled["draft"]
  /\ settled["exists"] # Open => recordFile = Gone

(* An attachment that the record has once called parsed stays so while the *)
(* session exists, with its markdown in place and its manifest agreeing,   *)
(* although every parse rewrites the metadata of all attachments of the    *)
(* message from what it read before it waited (parse_attachment.py, run).  *)
ParsedIsKept ==
  \A a \in firm :
    /\ a \in output /\ manifest[a] = "parsed"
    /\ recordFile # Gone => recordFile.status[a] = "parsed"

(* Nobody's copy of the record undoes what the record has been given: by   *)
(* the routes between turns, by the tools within one.                      *)
MetadataIsKept == EditsStick /\ ParsedIsKept

-----------------------------------------------------------------------------
(* The inductive invariant behind both.  The record on disk and the turn's *)
(* copy of it may differ by what the routes wrote meanwhile; neither says  *)
(* anything else of the question, the settled fields and the attachments   *)
(* than what has happened to them.                                         *)
HasCopy == runPlace \notin {"idle", "uploading"}
Current == IF answered = asked THEN 0 ELSE asked

RecordTypeOK ==
  /\ recordFile \in Record \cup {Gone} /\ copy \in Record \cup {None}
  /\ runPlace \in RunPlace /\ uploads \subseteq Attachment /\ target \subseteq Attachment
  /\ replying \in BOOLEAN /\ turnsOfRecord \in Nat
  /\ batchOf \in [Attachment -> Nat]
  /\ read \in [Attachment -> Status] /\ manifest \in [Attachment -> Status]
  /\ output \subseteq Attachment /\ firm \subseteq Attachment
  /\ asked \in 0 .. MaxQuestions /\ answered \in 0 .. asked
  /\ DOMAIN settled = Field /\ settled["title"] \in {Open, "renamed"}

Faithful(record) ==
  /\ record.question = Current
  /\ settled["title"] \in {Open, record.title}
  /\ settled["mode"] \in {Open, record.mode}
  /\ settled["draft"] \in {Open, record.draft}
  /\ \A a \in Attachment :
       /\ record.status[a] = "parsed" <=> a \in firm
       /\ record.status[a] # "none" => batchOf[a] # 0

RecordsAreFaithful ==
  /\ HasCopy <=> copy # None
  /\ recordFile # Gone => Faithful(recordFile)
  /\ copy # None => Faithful(copy)
  /\ settled["exists"] # Open => recordFile = Gone /\ copy = None
  /\ HasCopy /\ runPlace # "asked" => (replying <=> Pending(copy))

FirmIsWritten ==
  /\ \A a \in firm : a \in output /\ manifest[a] = "parsed" /\ batchOf[a] # 0
  /\ runPlace = "uploading" => turnsOfRecord # 0 /\ \A a \in uploads : batchOf[a] = 0

ParseKeepsOthers ==
  runPlace \in {"analysing", "returned"} => \E a \in Attachment :
    /\ target = {a} /\ batchOf[a] # 0 /\ (runPlace = "analysing" => a \notin firm)
    /\ \A b \in Attachment : batchOf[b] = batchOf[a] =>
         /\ b \in firm => read[b] = "parsed"
         /\ read[b] = "parsed" => b \in output /\ manifest[b] = "parsed"

RecordInv == RecordTypeOK /\ RecordsAreFaithful /\ FirmIsWritten /\ ParseKeepsOthers
=============================================================================
