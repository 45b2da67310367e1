------------------------------ MODULE TurnLoop ------------------------------
(***************************************************************************)
(* TurnLoop: one session's turns, NewmanRuntime.handle_message of          *)
(* runtime/run_loop.py: a round measures the context and compacts it if it *)
(* is too large, asks the provider (retrying, or once without streaming),  *)
(* and judges what came back; tool calls run one after the other and each  *)
(* result goes to the transcript before the next call.  A turn ends with   *)
(* an answer, or is stopped.  Between turns the user may compress the      *)
(* transcript or restore the checkpoint (api/routes/sessions.py).          *)
(*                                                                         *)
(* One turn at a time: what overlapping turns do to a session is           *)
(* SessionTurns.  An action is the code between two suspension points.     *)
(***************************************************************************)
EXTENDS Transcript

CONSTANTS
  MaxToolDepth,     \* max_tool_depth
  MaxAttempts,      \* provider_retry_attempts + 1
  MaxStreak,        \* context_compaction_max_failures
  MaxBatch,         \* bound: tool calls in a response
  MaxTurns,         \* bound: turns
  Earlier           \* what a session may be when it is loaded

MaxRecovery == 2           \* MAX_RECOVERY_ATTEMPTS
MaxFinalization == 1       \* MAX_FINALIZATION_ATTEMPTS

(* The recovery attempts after an invalid call: of a plan tool, of any     *)
(* other; a pseudo tool's also takes the tools away for a round.           *)
InvalidCalls == {"plan", "pseudo", "other"}
MaxInvalid(which) == IF which = "plan" THEN 2 ELSE 1

(* What is stored of a session, and of its checkpoint.                     *)
Stored == [messages : Seq(Message), boundary : Nat, active : BOOLEAN,
           streak : Nat, irreducible : BOOLEAN]

(* What turns leave a transcript as, whichever they were: a restored       *)
(* summary is in front, groups are named in order, and a result stands     *)
(* behind its call in an unbroken run of their group, unless a failed      *)
(* result of the group has put a note between them.                        *)
RestoredInFront(ms) == \A i \in DOMAIN ms : ms[i].role = "restored" => i = 1

GroupsInOrder(ms) == \A i \in DOMAIN ms : ms[i].group <= i

FailedBefore(ms, j, group) ==
  \E k \in 1 .. j - 1 : IsResult(ms[k]) /\ ms[k].group = group /\ ~ ms[k].ok

UnbrokenFrom(ms, b, j, group) == \A i \in b .. j : ms[i].group = group

ResultsFollowCalls(ms) ==
  \A j \in DOMAIN ms : IsResult(ms[j]) =>
    /\ ms[j].group # 0
    /\ \/ FailedBefore(ms, j, ms[j].group)
       \/ \E b \in 1 .. j - 1 : Answers(ms[j], ms[b]) /\ UnbrokenFrom(ms, b, j, ms[j].group)

(* A result answers one call, of calls that no others have followed yet.   *)
ResultsAreNear(ms) ==
  /\ \A j \in DOMAIN ms : IsResult(ms[j]) => \E c \in ms[j].calls : ms[j].calls = {c}
  /\ \A i, j \in DOMAIN ms :
       MakesCalls(ms[i]) /\ IsResult(ms[j]) /\ ms[i].group = ms[j].group
       => i < j /\ \A k \in i + 1 .. j - 1 : ~ MakesCalls(ms[k])

(* A compaction cuts between two segments.                                 *)
CutIsBetween(ms, cut) ==
  /\ cut <= Len(ms)
  /\ 0 < cut /\ cut < Len(ms) =>
       ms[cut + 1].group = 0 \/ ms[cut + 1].group # ms[cut].group

Tidy(ms, cut) ==
  /\ RestoredInFront(ms) /\ GroupsInOrder(ms) /\ ResultsFollowCalls(ms)
  /\ ResultsAreNear(ms) /\ CutIsBetween(ms, cut)

InForce(session) == IF session.active THEN session.boundary ELSE 0

ASSUME ConstantsAssumption ==
  /\ MaxToolDepth \in Nat /\ MaxAttempts \in Nat \ {0} /\ MaxStreak \in Nat
  /\ MaxBatch \in Nat \ {0} /\ MaxTurns \in Nat
  /\ Earlier \subseteq Stored

(* A session is loaded as earlier turns have left it.                      *)
ASSUME EarlierAssumption == \A session \in Earlier : Tidy(session.messages, InForce(session))

VARIABLES
  messages,    \* session.messages
  boundary,    \* turn_range[1] of the checkpoint, 0 without one
  active,      \* checkpoint_active
  streak,      \* compaction_fail_streak
  irreducible, \* context_irreducible
  level,       \* what the last measure gave
  place,       \* where the turn is suspended
  finalizing,  \* the rest of the turn is one request without tools
  rounds,      \* rounds begun
  depth,       \* tool_depth
  attempt,     \* of the current request
  toolsOffered,\* the request has tool schemas
  progress,    \* task.progress
  batch,       \* how many calls the last response made
  next,        \* the one that runs
  result,      \* what it came to
  outcome,     \* how the turn has ended
  turnStart,   \* where in the transcript the turn begins
  turns        \* turns begun

checkpointVars == <<boundary, active>>
compactionVars == <<streak, irreducible, level>>
batchVars == <<batch, next, result>>
taskVars == <<rounds, depth, attempt, toolsOffered, progress, batchVars, finalizing>>
vars == <<messages, checkpointVars, compactionVars, place, taskVars, outcome, turnStart, turns>>

Level == {"low", "soft", "hard"}     \* below the soft limit, above it, above the hard one
Place == {"idle", "round", "summarizing", "asking", "fallback", "judging",
          "finalAsking", "tool", "reporting", "closing"}
Result == {"diagnostic", "progress", "resolved", "awaiting", "recoverable", "rejected", "fatal"}
Succeeded == {"diagnostic", "progress", "resolved", "awaiting"}
Outcome == {"none", "answered", "blocked", "awaiting", "providerError", "irreducible",
            "exhausted", "stopped"}

Fresh == [unresolved |-> FALSE, recovery |-> 0, finalization |-> 0, invalid |-> 0, noTools |-> FALSE]

Archived == ArchivedCount(messages, boundary, active)

-----------------------------------------------------------------------------
(* How a turn goes on: a note and another round, or the last message.      *)
Note == Append(messages, Plain("note"))

Close(ms, how) ==
  /\ messages' = Append(ms, Plain("answer"))
  /\ place' = "closing"
  /\ outcome' = how

AnotherRound ==
  /\ messages' = Note
  /\ place' = "round"
  /\ UNCHANGED outcome

-----------------------------------------------------------------------------
(* The task of a turn that has begun, or of none.                          *)
FreshTask ==
  /\ rounds' = 0 /\ depth' = 0 /\ attempt' = 1 /\ toolsOffered' = FALSE
  /\ progress' = Fresh /\ batch' = 0 /\ next' = 0 /\ result' = "diagnostic"
  /\ finalizing' = FALSE

Begin ==
  /\ place = "idle" /\ turns < MaxTurns
  /\ messages' = Append(messages, Plain("user"))
  /\ turnStart' = Len(messages) + 1
  /\ turns' = turns + 1
  /\ place' = "round"
  /\ outcome' = "none"
  /\ FreshTask
  /\ UNCHANGED <<checkpointVars, compactionVars>>

End ==
  /\ place = "closing"
  /\ place' = "idle"
  /\ FreshTask
  /\ UNCHANGED <<messages, checkpointVars, compactionVars, outcome, turnStart, turns>>

(* The interrupt leaves a note; another exception, or the end of the       *)
(* process, leaves nothing.                                                *)
Stop ==
  /\ place # "idle"
  /\ messages' \in {messages, Note}
  /\ place' = "idle"
  /\ outcome' = "stopped"
  /\ FreshTask
  /\ UNCHANGED <<checkpointVars, compactionVars, turnStart, turns>>

-----------------------------------------------------------------------------
(* _maybe_checkpoint.                                                      *)
NextCut == Cut(messages, Archived)
HasOldResult == \E i \in Archived + 1 .. NextCut : IsResult(messages[i])

(* Out of the checkpoint: to the provider, or to the message that the      *)
(* context cannot be reduced.                                              *)
Proceed ==
  /\ place' = IF finalizing THEN "finalAsking" ELSE "asking"
  /\ attempt' = 1
  /\ toolsOffered' = (~ finalizing /\ ~ progress.noTools)
  /\ progress' = IF finalizing THEN progress ELSE [progress EXCEPT !.noTools = FALSE]
  /\ UNCHANGED <<messages, outcome>>

GiveUp ==
  /\ Close(messages, "irreducible")
  /\ UNCHANGED <<attempt, toolsOffered, progress>>

Reset == streak' = 0 /\ irreducible' = FALSE

MarkFailure(hopeless) ==
  /\ streak' = streak + 1
  /\ irreducible' = (hopeless \/ streak + 1 >= MaxStreak)

(* After a measure of l, and once old results have been shortened.         *)
Compact(l) ==
  /\ level' = l
  /\ \/ /\ l = "low" \/ (l = "soft" /\ NextCut = Archived)
        /\ Reset
        /\ Proceed
     \/ /\ l = "hard" /\ NextCut = Archived
        /\ MarkFailure(TRUE)
        /\ GiveUp
     \/ /\ l # "low" /\ NextCut # Archived
        /\ place' = "summarizing"
        /\ UNCHANGED <<streak, irreducible, messages, outcome, attempt, toolsOffered, progress>>

Hopeless(l) == l = "hard" /\ (irreducible \/ streak >= MaxStreak)

Measure ==
  \E l \in Level :
    \/ ~ Hopeless(l) /\ Compact(l)
    \/ l # "low" /\ ~ Hopeless(l) /\ HasOldResult /\ \E m \in Level : Compact(m)
    \/ /\ Hopeless(l)
       /\ level' = l
       /\ IF irreducible THEN UNCHANGED <<streak, irreducible>> ELSE MarkFailure(TRUE)
       /\ GiveUp

Round ==
  /\ place = "round" /\ ~ finalizing /\ rounds < MaxToolDepth
  /\ rounds' = rounds + 1
  /\ Measure
  /\ UNCHANGED <<checkpointVars, depth, batchVars, finalizing, turnStart, turns>>

(* The loop runs out: an error event and no message.                       *)
Exhaust ==
  /\ place = "round" /\ ~ finalizing /\ rounds = MaxToolDepth
  /\ place' = "closing"
  /\ outcome' = "exhausted"
  /\ UNCHANGED <<messages, checkpointVars, compactionVars, taskVars, turnStart, turns>>

Finalize ==
  /\ place = "round" /\ finalizing
  /\ Measure
  /\ UNCHANGED <<checkpointVars, rounds, depth, batchVars, finalizing, turnStart, turns>>

(* variant: the checkpoint counts from where it begins, not from the start *)
BoundaryOfCut == NextCut - Archived

BoundaryAfter == IF NextCut < Len(messages) THEN NextCut ELSE Len(messages)

(* The summary has come.                                                   *)
Summarized ==
  /\ place = "summarizing"
  /\ boundary' = BoundaryAfter
  /\ active' = TRUE
  /\ \E l \in Level :
       /\ level' = l
       /\ IF l = "hard" THEN MarkFailure(FALSE) ELSE Reset
  /\ IF irreducible' THEN GiveUp ELSE Proceed
  /\ UNCHANGED <<rounds, depth, batchVars, finalizing, turnStart, turns>>

(* There is no text to summarize, and no summary.                          *)
NotSummarized ==
  /\ place = "summarizing"
  /\ IF level = "hard" THEN MarkFailure(TRUE) /\ GiveUp ELSE Reset /\ Proceed
  /\ UNCHANGED <<checkpointVars, level, rounds, depth, batchVars, finalizing, turnStart, turns>>

-----------------------------------------------------------------------------
(* A response: tool calls.                                                 *)
CallTools(n) ==
  /\ messages' = Append(messages, CallsMessage(Len(messages) + 1, n))
  /\ batch' = n /\ next' = 1
  /\ depth' = depth + 1
  /\ place' = "tool"
  /\ UNCHANGED <<outcome, progress, result>>

(* variant: the answer is written and the loop goes on *)
RefuseOn(which) ==
  /\ UNCHANGED <<batchVars, depth, outcome>>
  /\ place' = "round"
  /\ IF progress.invalid < MaxInvalid(which)
     THEN /\ progress' = [progress EXCEPT !.invalid = @ + 1,
                                          !.noTools = @ \/ which = "pseudo"]
          /\ messages' = Note
     ELSE UNCHANGED progress /\ messages' = Append(messages, Plain("answer"))

(* _handle_invalid_provider_tool_calls.                                    *)
Refuse(which) ==
  /\ IF progress.invalid < MaxInvalid(which)
     THEN /\ progress' = [progress EXCEPT !.invalid = @ + 1,
                                          !.noTools = @ \/ which = "pseudo"]
          /\ AnotherRound
     ELSE UNCHANGED progress /\ Close(messages, "blocked")
  /\ UNCHANGED <<batchVars, depth>>

(* decide_turn_step of a text: it shows a result, shows none, or announces *)
(* the next step.                                                          *)
Candidate == {"signal", "plain", "incomplete"}

GatePasses(text) == text = "signal" \/ (text = "plain" /\ ~ progress.unresolved)

Judge(text) ==
  /\ \/ GatePasses(text) /\ UNCHANGED progress /\ Close(messages, "answered")
     \/ GatePasses(text) /\ UNCHANGED <<progress, messages, outcome>> /\ place' = "judging"
     \/ /\ ~ GatePasses(text) /\ progress.unresolved /\ progress.recovery < MaxRecovery
        /\ progress' = [progress EXCEPT !.recovery = @ + 1]
        /\ AnotherRound
     \/ /\ ~ GatePasses(text) /\ ~ (progress.unresolved /\ progress.recovery < MaxRecovery)
        /\ IF progress.finalization < MaxFinalization
           THEN /\ progress' = [progress EXCEPT !.finalization = @ + 1]
                /\ AnotherRound
           ELSE UNCHANGED progress /\ Close(messages, "blocked")
  /\ UNCHANGED <<batchVars, depth>>

Respond(maybeTools) ==
  \/ maybeTools /\ \E n \in 1 .. MaxBatch : CallTools(n)
  \/ \E which \in InvalidCalls : Refuse(which)
  \/ \E text \in Candidate : Judge(text)

Answered ==
  /\ place = "asking"
  /\ Respond(toolsOffered)
  /\ UNCHANGED <<checkpointVars, compactionVars, rounds, attempt, toolsOffered, finalizing,
                 turnStart, turns>>

(* The request fails.  A response without content may be retried like a    *)
(* network error; a response that cannot be parsed is asked for again      *)
(* without streaming, and so is the last empty one.                        *)
Failure == {"transient", "empty", "parse", "fatal"}

Retries(failure, shown) ==
  failure \in {"transient", "empty"} /\ attempt < MaxAttempts /\ ~ shown

FallsBack(failure, shown) ==
  ~ Retries(failure, shown) /\ ~ shown
  /\ (failure = "parse" \/ (failure = "empty" /\ toolsOffered))

Failed ==
  /\ place = "asking"
  /\ \E failure \in Failure, shown \in BOOLEAN :
       /\ failure = "empty" => ~ shown
       /\ \/ /\ Retries(failure, shown)
             /\ attempt' = attempt + 1
             /\ UNCHANGED <<place, messages, outcome>>
          \/ /\ FallsBack(failure, shown)
             /\ place' = "fallback"
             /\ UNCHANGED <<attempt, messages, outcome>>
          \/ /\ ~ Retries(failure, shown) /\ ~ FallsBack(failure, shown)
             /\ Close(messages, "providerError")
             /\ UNCHANGED attempt
  /\ UNCHANGED <<checkpointVars, compactionVars, rounds, depth, toolsOffered, progress, batchVars,
                 finalizing, turnStart, turns>>

(* variant: a request that failed without streaming too is made again      *)
FallenBackRetrying ==
  /\ place = "fallback"
  /\ \/ Respond(TRUE) /\ UNCHANGED attempt
     \/ /\ place' = "asking" /\ attempt' = 1
        /\ UNCHANGED <<messages, outcome, progress, batchVars, depth>>
  /\ UNCHANGED <<checkpointVars, compactionVars, rounds, toolsOffered, finalizing, turnStart, turns>>

(* The answer without streaming: its calls are not compared with the       *)
(* schemas that were sent.                                                 *)
FallenBack ==
  /\ place = "fallback"
  /\ \/ Respond(TRUE)
     \/ Close(messages, "providerError") /\ UNCHANGED <<progress, batchVars, depth>>
  /\ UNCHANGED <<checkpointVars, compactionVars, rounds, attempt, toolsOffered, finalizing,
                 turnStart, turns>>

(* _apply_completion_judge: final and blocked close, everything else is    *)
(* told to go on.                                                          *)
Judged ==
  /\ place = "judging"
  /\ \/ Close(messages, "answered")
     \/ Close(messages, "blocked")
     \/ AnotherRound
  /\ UNCHANGED <<checkpointVars, compactionVars, taskVars, turnStart, turns>>

(* The one request of a finalizer, whatever comes of it.                   *)
FinallyAnswered ==
  /\ place = "finalAsking"
  /\ Close(messages, "answered")
  /\ UNCHANGED <<checkpointVars, compactionVars, taskVars, turnStart, turns>>

-----------------------------------------------------------------------------
(* record_tool_result.                                                     *)
Recorded(p, r) ==
  CASE r \in {"resolved", "awaiting"} ->
         [p EXCEPT !.finalization = 0, !.recovery = 0, !.unresolved = FALSE]
    [] r = "progress" -> [p EXCEPT !.finalization = 0, !.recovery = 0]
    [] r = "diagnostic" -> [p EXCEPT !.finalization = 0]
    [] r = "recoverable" ->
         [p EXCEPT !.finalization = 0, !.recovery = 0, !.unresolved = TRUE]
    [] OTHER -> p

BatchGroup ==
  LET calls == {i \in DOMAIN messages : MakesCalls(messages[i])} IN
  messages[CHOOSE i \in calls : \A j \in calls : j <= i].group

(* A call has come to an end, or was never allowed.                        *)
ToolEnds ==
  /\ place = "tool"
  /\ \E r \in Result :
       /\ result' = r
       /\ progress' = Recorded(progress, r)
       /\ messages' = Append(messages, ResultMessage(BatchGroup, next, r \in Succeeded))
  /\ place' = "reporting"
  /\ UNCHANGED <<checkpointVars, compactionVars, rounds, depth, attempt, toolsOffered, batch, next,
                 finalizing, outcome, turnStart, turns>>

(* The next call, the next round, or the last request of the turn.         *)
Continue(ms) ==
  \/ /\ next < batch
     /\ next' = next + 1 /\ depth' = depth + 1
     /\ place' = "tool"
     /\ messages' = ms
     /\ UNCHANGED <<finalizing, outcome>>
  \/ /\ next = batch
     /\ place' = "round"
     /\ finalizing' = (depth >= MaxToolDepth)
     /\ messages' = IF depth >= MaxToolDepth THEN Append(ms, Plain("note")) ELSE ms
     /\ UNCHANGED <<next, depth, outcome>>

(* What follows a result, once its events are out.                         *)
Follow ==
  /\ place = "reporting"
  /\ \/ /\ result = "awaiting"
        /\ Close(messages, "awaiting")
        /\ UNCHANGED <<next, depth, finalizing>>
     \/ /\ result \in Succeeded \ {"awaiting"}
        /\ Continue(messages)
     \/ /\ result = "recoverable"
        /\ Continue(Note)
     \/ /\ result = "rejected"
        /\ Close(Note, "answered")
        /\ UNCHANGED <<next, depth, finalizing>>
     \/ /\ result = "fatal"
        /\ messages' = Append(Note, Plain("note"))
        /\ place' = "round"
        /\ finalizing' = TRUE
        /\ UNCHANGED <<next, depth, outcome>>
  /\ UNCHANGED <<checkpointVars, compactionVars, rounds, attempt, toolsOffered, progress, batch,
                 result, turnStart, turns>>

-----------------------------------------------------------------------------
(* Between turns: compress_session, with a summary; restore_checkpoint.    *)
Compress ==
  /\ place = "idle" /\ NextCut # Archived
  /\ boundary' = BoundaryAfter
  /\ active' = TRUE
  /\ UNCHANGED <<messages, compactionVars, place, taskVars, outcome, turnStart, turns>>

WithoutRestored(ms) ==
  LET kept[i \in 0 .. Len(ms)] ==
        IF i = 0 THEN << >>
        ELSE IF ms[i].role = "restored" THEN kept[i - 1]
        ELSE Append(kept[i - 1], ms[i])
  IN  kept[Len(ms)]

Restore ==
  /\ place = "idle" /\ boundary # 0
  /\ messages' = <<Plain("restored")>> \o WithoutRestored(messages)
  /\ active' = FALSE
  /\ turnStart' = turnStart + Len(messages') - Len(messages)
  /\ UNCHANGED <<boundary, compactionVars, place, taskVars, outcome, turns>>

-----------------------------------------------------------------------------
Init ==
  /\ \E session \in Earlier :
       /\ messages = session.messages
       /\ boundary = session.boundary /\ active = session.active
       /\ streak = session.streak /\ irreducible = session.irreducible
  /\ level = "low"
  /\ place = "idle" /\ outcome = "none" /\ turnStart = 0 /\ turns = 0
  /\ rounds = 0 /\ depth = 0 /\ attempt = 1 /\ toolsOffered = FALSE
  /\ progress = Fresh /\ batch = 0 /\ next = 0 /\ result = "diagnostic"
  /\ finalizing = FALSE

Step ==
  \/ Round \/ Exhaust \/ Finalize \/ Summarized \/ NotSummarized
  \/ Answered \/ Failed \/ FallenBack \/ Judged \/ FinallyAnswered
  \/ ToolEnds \/ Follow \/ End

Next == Step \/ Begin \/ Stop \/ Compress \/ Restore

(* Every suspension of a turn ends: providers and tools have deadlines.    *)
Spec == Init /\ [][Next]_vars /\ WF_vars(Step)

-----------------------------------------------------------------------------
TypeOK ==
  /\ messages \in Seq(Message)
  /\ boundary \in Nat /\ active \in BOOLEAN
  /\ streak \in Nat /\ irreducible \in BOOLEAN /\ level \in Level
  /\ place \in Place /\ finalizing \in BOOLEAN
  /\ rounds \in 0 .. MaxToolDepth /\ depth \in Nat /\ attempt \in 1 .. MaxAttempts
  /\ toolsOffered \in BOOLEAN
  /\ progress \in [unresolved : BOOLEAN, recovery : 0 .. MaxRecovery,
                   finalization : 0 .. MaxFinalization, invalid : 0 .. 2, noTools : BOOLEAN]
  /\ batch \in 0 .. MaxBatch /\ next \in 0 .. batch /\ result \in Result
  /\ outcome \in Outcome /\ turnStart \in Nat /\ turns \in 0 .. MaxTurns

InTurn == place \notin {"idle", "closing"}
AtProvider == place \in {"asking", "fallback", "finalAsking"}

(* Every call of the turn has its result in the transcript before the      *)
(* provider is asked in another round, whatever became of the calls before *)
(* it: several providers refuse a request with an unanswered call.         *)
OwnCallsAnswered ==
  place \in {"asking", "fallback"} =>
    \A i \in turnStart .. Len(messages) : MakesCalls(messages[i]) =>
      messages[i].calls =
        UNION {messages[j].calls : j \in {k \in i + 1 .. Len(messages) :
                                            Answers(messages[k], messages[i])}}

(* A compaction may leave a result in view and archive its call; it does   *)
(* so only behind a failed result of the same batch, whose note splits the *)
(* batch into segments.                                                    *)
OrphansBehindFailure ==
  \A j \in Archived + 1 .. Len(messages) :
    /\ IsResult(messages[j])
    /\ \A i \in Archived + 1 .. j : ~ Answers(messages[j], messages[i])
    => \E k \in 1 .. j - 1 :
         IsResult(messages[k]) /\ messages[k].group = messages[j].group /\ ~ messages[k].ok

(* Calls and results stay together, in the turn and under compaction.      *)
PairsAreKept == OwnCallsAnswered /\ OrphansBehindFailure

(* What the provider is asked with: calls that are shown and answered in   *)
(* full are sent, with their results right behind them, whatever notes the *)
(* runtime has written in between, and whatever earlier turns were stopped *)
(* in the middle of their calls.                                           *)
CompleteBatchesAreSent ==
  AtProvider =>
    LET shown == Assembled(Visible(messages, Archived))
        sent == Payload(Visible(messages, Archived))
    IN  \A i \in DOMAIN shown :
          /\ MakesCalls(shown[i])
          /\ shown[i].calls \subseteq UNION {shown[j].calls : j \in {k \in DOMAIN shown : Answers(shown[k], shown[i])}}
          => \E k \in DOMAIN sent : sent[k] = shown[i] /\ Complete(sent, k)

(* A turn that goes on has not answered; one that has ended by itself has  *)
(* answered once and last, unless the loop ran out.                        *)
AnswersOnce ==
  LET answers == {i \in turnStart .. Len(messages) : i > 0 /\ messages[i].role = "answer"} IN
  /\ InTurn => answers = {}
  /\ place = "closing" => answers = IF outcome = "exhausted" THEN {} ELSE {Len(messages)}

(* The inductive invariant behind PairsAreKept and AnswersOnce.  The       *)
(* transcript is tidy; a turn's calls are answered, but for those of the   *)
(* batch whose calls it is running, which nothing has archived yet.        *)
TranscriptTidy == Tidy(messages, IF active THEN boundary ELSE 0)

TurnBegan ==
  /\ turnStart <= Len(messages) + 1
  /\ InTurn => 1 <= turnStart /\ turnStart <= Len(messages)

FinalizesApart ==
  place \in {"asking", "fallback", "judging", "tool", "reporting"} => ~ finalizing

AnsweredAt(ms, i, c) ==
  \E k \in i + 1 .. Len(ms) : IsResult(ms[k]) /\ ms[k].group = ms[i].group /\ ms[k].calls = {c}

AllAnswered(ms, from, to) ==
  \A i \in from .. to : MakesCalls(ms[i]) => \A c \in ms[i].calls : AnsweredAt(ms, i, c)

InBatch == place \in {"tool", "reporting"}

CallsAreAnswered ==
  InTurn /\ ~ finalizing /\ ~ InBatch => AllAnswered(messages, turnStart, Len(messages))

BatchIsLast(b) ==
  /\ messages[b].role = "calls" /\ messages[b].group = b /\ messages[b].calls = 1 .. batch
  /\ \A i \in b + 1 .. Len(messages) : ~ MakesCalls(messages[i])

BatchGoesOn(b) ==
  /\ IF active THEN boundary < b ELSE TRUE
  /\ AllAnswered(messages, turnStart, b - 1)
  /\ \A c \in 1 .. IF place = "tool" THEN next - 1 ELSE next : AnsweredAt(messages, b, c)
  /\ \/ FailedBefore(messages, Len(messages) + 1, b)
     \/ /\ UnbrokenFrom(messages, b, Len(messages), b)
        /\ place = "reporting" => result \in Succeeded

BatchInv ==
  InBatch =>
    /\ next \in 1 .. batch
    /\ \E b \in turnStart .. Len(messages) : BatchIsLast(b) /\ BatchGoesOn(b)

IInv ==
  /\ TypeOK /\ TranscriptTidy /\ TurnBegan /\ FinalizesApart
  /\ CallsAreAnswered /\ BatchInv /\ AnswersOnce

(* While a checkpoint is in force, what it has archived does not come back *)
(* into view, however the transcript grows and is compacted again.         *)
ArchiveGrows == [][active /\ active' => Archived' >= Archived]_vars

(* Every turn ends, whatever the provider, its judge and the tools answer. *)
TurnEnds == place # "idle" ~> place = "idle"
=============================================================================
