----------------------------- MODULE Streaming -----------------------------
(***************************************************************************)
(* Streaming: one request of a turn to the model, as its chunks arrive     *)
(* (runtime/run_loop.py: _stream_provider_response, its retries and the    *)
(* announcement of the calls; providers/openai_compatible.py and           *)
(* providers/anthropic_compatible.py: chat_stream).  TurnLoop takes such a *)
(* request as one step; here is what the user sees of it.                  *)
(*                                                                         *)
(* An action is one chunk.  Text is a sequence of pieces <<attempt, kind>>,*)
(* a "blank" is white space and a "line" a sentence short enough to pass   *)
(* for a commentary.  The state of an attempt is one record, and the       *)
(* functions nested in _stream_provider_response are operators on it.      *)
(***************************************************************************)
EXTENDS Integers, Sequences, SequencesExt, FiniteSets, FiniteSetsExt

CONSTANTS
  Tool,            \* the tools that are offered, besides request_user_input
  Call,            \* the indexes of tool calls, 1 .. n
  StreamAttempts,     \* provider_retry_attempts + 1
  MaxChunks,       \* bound: chunks of text and reasoning in all attempts
  ReasoningMax     \* REASONING_ONLY_MAX_CHARS, in chunks

ASSUME StreamAssumption == StreamAttempts \in Nat \ {0}

VARIABLES
  request,   \* how it is asked: api, and whether tools are offered
  stage,     \* where the request is
  streamAttempt,
  fellBack,  \* the response is that of the request without streaming
  stream     \* the attempt's state, and what is on the screen

streamVars == <<request, stage, streamAttempt, fellBack, stream>>

Name == Tool \cup {"request_user_input"}
Offered == IF request.tools THEN Name ELSE {}
Text == {"line", "word", "blank"}
Nameless == [name |-> "", bytes |-> FALSE]

NewStream == [
  content |-> << >>, deferred |-> << >>, commentary |-> << >>, pending |-> FALSE,
  tag |-> "none", thinking |-> 0, signal |-> FALSE, commentaryVisible |-> FALSE,
  answerVisible |-> FALSE, calls |-> << >>, invalid |-> 0, refused |-> {},
  argumentsVisible |-> FALSE, buffers |-> [i \in Call |-> Nameless], begun |-> {},
  chunks |-> 0,
  answer |-> << >>, brief |-> << >>, announced |-> << >>]

(* The screen: the answer, the commentary and the commentary as it was     *)
(* when it was last complete.                                              *)
OnScreen == {"answer", "brief", "announced"}
NextAttempt(s) ==
  [f \in DOMAIN NewStream |-> IF f \in OnScreen \cup {"chunks"} THEN s[f] ELSE NewStream[f]]

Blank(text) == \A p \in Range(text) : p[2] = "blank"

Piece == Nat \X Text
IsStream(s) ==
  /\ DOMAIN s = DOMAIN NewStream
  /\ s.content \in Seq(Piece) /\ s.deferred \in Seq(Piece) /\ s.answer \in Seq(Piece)
  /\ s.calls \in Seq(Name) /\ s.invalid \in Nat /\ s.tag \in {"none", "commentary"}
  /\ {s.pending, s.signal, s.commentaryVisible, s.answerVisible, s.argumentsVisible} \subseteq BOOLEAN

StreamTypeOK ==
  /\ request \in [api : {"openai", "anthropic"}, tools : BOOLEAN]
  /\ stage \in {"new", "streaming", "yielding", "backoff", "fallback", "returned",
                "running", "answered", "invalid", "failed"}
  /\ streamAttempt \in 1 .. StreamAttempts /\ fellBack \in BOOLEAN
  /\ IsStream(stream)

-----------------------------------------------------------------------------
(* The nested functions.                                                   *)
FlushCommentary(s, force) ==
  LET visible == s.commentaryVisible \/ force \/ s.calls # << >> IN
  IF s.commentary = << >> \/ ~ visible THEN s
  ELSE [s EXCEPT !.commentaryVisible = TRUE, !.brief = s.commentary, !.pending = FALSE,
                 !.announced = IF s.pending THEN s.commentary ELSE @]

AnswerDelta(s) == [s EXCEPT !.answerVisible = TRUE, !.answer = s.content]

(* variant: whatever has been called *)
FlushDeferredOverCalls(s) ==
  IF s.deferred = << >> \/ s.answerVisible \/ Blank(s.content)
  THEN s
  ELSE [s EXCEPT !.answerVisible = TRUE, !.answer = s.deferred, !.deferred = << >>]

(* flush_deferred_answer(force=True); without force it shows nothing.      *)
FlushDeferred(s) ==
  IF s.deferred = << >> \/ s.calls # << >> \/ s.answerVisible \/ Blank(s.content)
  THEN s
  ELSE [s EXCEPT !.answerVisible = TRUE, !.answer = s.deferred, !.deferred = << >>]

Unspoken(s) == ~ s.answerVisible /\ ~ s.signal /\ ~ s.commentaryVisible
               /\ s.calls = << >> /\ s.invalid = 0

(* _recover_tool_preamble_commentary: a short text of one line.            *)
LeakedPreamble(s) ==
  IF ~ Blank(s.content) /\ \A p \in Range(s.content) : p[2] # "word"
  THEN SelectSeq(s.content, LAMBDA p : p[2] = "line") ELSE << >>

(* variant: the text that was taken for a commentary is not completed      *)
PrepareWithoutCompletion(s, name) ==
  LET leaked == IF name = "request_user_input" THEN << >> ELSE LeakedPreamble(s)
      cleared == IF name = "request_user_input" THEN s
                 ELSE [s EXCEPT !.content = << >>, !.deferred = << >>]
      told == IF leaked # << >> /\ s.commentary = << >>
              THEN [cleared EXCEPT !.commentary = leaked] ELSE cleared
  IN IF s.signal THEN s ELSE FlushCommentary([told EXCEPT !.signal = TRUE], TRUE)

(* prepare_for_tool_signal: what has been written so far is no answer; a   *)
(* short text is told as commentary.  The branch for a visible answer is   *)
(* left out: an answer is visible before the end only if no tool is        *)
(* offered, and then no name passes.                                       *)
PrepareForToolSignal(s, name) ==
  LET leaked == IF name = "request_user_input" THEN << >> ELSE LeakedPreamble(s)
      cleared == IF name = "request_user_input" THEN s
                 ELSE [s EXCEPT !.content = << >>, !.deferred = << >>]
      told == IF leaked # << >> /\ s.commentary = << >>
              THEN [cleared EXCEPT !.commentary = leaked, !.pending = TRUE] ELSE cleared
  IN IF s.signal THEN s ELSE FlushCommentary([told EXCEPT !.signal = TRUE], TRUE)

(* consume_parse_event.                                                    *)
AnswerText(s, piece) ==
  LET t == [s EXCEPT !.content = Append(@, piece)] IN
  IF request.tools /\ ~ s.answerVisible THEN [t EXCEPT !.deferred = Append(@, piece)]
  ELSE IF Blank(t.content) THEN t ELSE AnswerDelta(t)

CommentaryText(s, piece) ==
  FlushCommentary([s EXCEPT !.tag = "commentary", !.commentary = Append(@, piece)], FALSE)

CommentaryComplete(s) ==
  FlushCommentary([s EXCEPT !.tag = "none", !.pending = TRUE], FALSE)

-----------------------------------------------------------------------------
(* Asking.                                                                 *)
AskProvider(api, tools) ==
  /\ stage = "new"
  /\ request' = [api |-> api, tools |-> tools]
  /\ stage' = "streaming"
  /\ UNCHANGED <<streamAttempt, fellBack, stream>>

(* partial_response_visible.                                               *)
Partial(s) == s.answerVisible \/ s.calls # << >> \/ s.invalid > 0 \/ s.argumentsVisible

StreamFailure == {"transient", "permanent", "parse", "empty"}
RetriesStream(s, failure) ==
  failure \in {"transient", "empty"} /\ streamAttempt < StreamAttempts /\ ~ Partial(s)
AttemptsFallback(s, failure) ==
  /\ ~ RetriesStream(s, failure) /\ ~ Partial(s)
  /\ \/ failure = "parse"
     \/ failure = "empty" /\ request.tools /\ streamAttempt = StreamAttempts

(* A ProviderError out of the attempt in state s, of which the screen is   *)
(* what stays.                                                             *)
Fails(s, failure) ==
  /\ stream' = NextAttempt(s)
  /\ stage' = IF RetriesStream(s, failure) THEN "backoff"
              ELSE IF AttemptsFallback(s, failure) THEN "fallback" ELSE "failed"
  /\ UNCHANGED <<request, streamAttempt, fellBack>>

StreamFails(failure) ==
  /\ stage = "streaming" /\ failure # "empty"
  /\ failure = "permanent" => stream = NextAttempt(stream)
  /\ Fails(stream, failure)

Retry ==
  /\ stage = "backoff"
  /\ streamAttempt' = streamAttempt + 1
  /\ stage' = "streaming"
  /\ UNCHANGED <<request, fellBack, stream>>

-----------------------------------------------------------------------------
(* Chunks.                                                                 *)
Receive(s) ==
  /\ stage = "streaming"
  /\ stream' = s
  /\ UNCHANGED <<request, stage, streamAttempt, fellBack>>

More == stage = "streaming" /\ stream.chunks < MaxChunks
Counted == [stream EXCEPT !.chunks = @ + 1]

(* Reasoning, from a field of its own or between think tags; too much of   *)
(* it, or the same over and over, before anything else is an error.        *)
Thinking(repeats) ==
  /\ More /\ stream.tag = "none"
  /\ LET s == [Counted EXCEPT !.thinking = @ + 1] IN
     IF Unspoken(s) /\ (repeats \/ s.thinking >= ReasoningMax)
     THEN Fails(s, "permanent")
     ELSE Receive(s)

Answer(kind) ==
  /\ More /\ stream.tag = "none"
  /\ Receive(AnswerText(Counted, <<streamAttempt, kind>>))

Commentary(kind) ==
  /\ More
  /\ Receive(CommentaryText(Counted, <<streamAttempt, kind>>))

CommentaryEnds ==
  /\ stage = "streaming" /\ stream.tag = "commentary"
  /\ Receive(CommentaryComplete(stream))

(* A part of a tool call: its name, once, or some of its arguments.        *)
Buffered(i, name, bytes) ==
  LET b == stream.buffers[i] IN
  [stream EXCEPT !.buffers[i] = [name |-> IF name = "" THEN b.name ELSE name,
                                 bytes |-> b.bytes \/ bytes],
                 !.begun = @ \cup {i}]

ToolDelta(i, name, bytes) ==
  LET s == Buffered(i, name, bytes)
      resolved == s.buffers[i].name
  IN
  /\ name # "" \/ bytes
  /\ name # "" => stream.buffers[i].name = ""
  /\ request.api = "anthropic" => (name # "" <=> i \notin stream.begun) /\ bytes = (name = "")
  /\ \A j \in Call : j < i => j \in stream.begun
  /\ Receive(IF resolved \notin Offered \cup {""} THEN [s EXCEPT !.refused = @ \cup {i}]
             ELSE IF i \in s.refused \/ resolved = "" THEN s
             ELSE [PrepareForToolSignal(s, resolved) EXCEPT !.argumentsVisible = @ \/ bytes])

(* [DONE], message_stop.                                                   *)
StreamDone ==
  /\ stage = "streaming"
  /\ stage' = "yielding"
  /\ UNCHANGED <<request, streamAttempt, fellBack, stream>>

(* The calls are handed over in the order of their indexes; i is the next. *)
(* Arguments that are no JSON: one provider hands over an invalid call, the*)
(* other raises.  With the latter they never are: the block starts with    *)
(* "{}" and the arguments are appended to that.                            *)
Yield(i, parses) ==
  LET b == stream.buffers[i]
      s == [stream EXCEPT !.begun = @ \ {i}]
      known == PrepareForToolSignal(s, b.name)
  IN
  /\ stage = "yielding" /\ stream.begun # {} /\ i = Min(stream.begun)
  /\ ~ b.bytes => parses
  /\ request.api = "anthropic" /\ b.bytes => ~ parses
  /\ IF ~ parses /\ request.api = "anthropic"
     THEN Fails(s, "parse")
     ELSE /\ stream' = IF ~ parses \/ b.name \notin Offered
                       THEN [s EXCEPT !.invalid = @ + 1]
                       ELSE FlushCommentary([known EXCEPT !.calls = Append(@, b.name)], TRUE)
          /\ UNCHANGED <<request, stage, streamAttempt, fellBack>>

(* The end of the stream.  What the parser has kept back, a beginning of a *)
(* closing tag, ends the commentary (rest); without it a commentary whose  *)
(* tag is open is never completed.                                         *)
Closed(s, rest) ==
  LET t == IF rest THEN CommentaryComplete(CommentaryText(s, <<streamAttempt, "line">>)) ELSE s IN
  FlushCommentary(FlushDeferred(t), t.calls # << >>)

(* The answer that was held back is shown, unless tools are called, and    *)
(* nothing at all is an error, of which it is not noted what was visible.  *)
StreamEnds(rest) ==
  LET s == Closed(stream, rest) IN
  /\ stage = "yielding" /\ stream.begun = {}
  /\ rest => stream.tag = "commentary"
  /\ IF s.calls = << >> /\ s.invalid = 0 /\ Blank(s.content)
     THEN Fails(s, "empty")
     ELSE /\ stream' = s
          /\ stage' = "returned"
          /\ UNCHANGED <<request, streamAttempt, fellBack>>

-----------------------------------------------------------------------------
(* The request without streaming; its calls are not compared with what is  *)
(* offered, and nothing of it is shown yet.                                *)
FallbackAnswers(text, calls) ==
  /\ stage = "fallback"
  /\ fellBack' = TRUE
  /\ stream' = [stream EXCEPT
                  !.content = IF text = "none" THEN << >> ELSE <<<<streamAttempt, text>>>>,
                  !.calls = calls]
  /\ stage' = IF calls = << >> /\ text \in {"none", "blank"} THEN "failed" ELSE "returned"
  /\ UNCHANGED <<request, streamAttempt>>

FallbackFails ==
  /\ stage = "fallback"
  /\ stage' = "failed"
  /\ UNCHANGED <<request, streamAttempt, fellBack, stream>>

(* _ensure_tool_response_commentary: calls that come without a commentary  *)
(* get one, asked of the model or put together from their names.           *)
Announced(s) ==
  IF ~ Blank(s.commentary) THEN s
  ELSE LET made == <<<<streamAttempt, "line">>>> IN
       [s EXCEPT !.commentary = made, !.brief = made, !.announced = made]

Return ==
  /\ stage = "returned"
  /\ stage' = IF stream.invalid > 0 THEN "invalid"
              ELSE IF stream.calls # << >> THEN "running" ELSE "answered"
  /\ stream' = IF stage' = "running" THEN Announced(stream) ELSE stream
  /\ UNCHANGED <<request, streamAttempt, fellBack>>

StreamInit ==
  /\ request = [api |-> "openai", tools |-> FALSE]
  /\ stage = "new" /\ streamAttempt = 1 /\ fellBack = FALSE /\ stream = NewStream

StreamNext ==
  \/ \E api \in {"openai", "anthropic"}, tools \in BOOLEAN : AskProvider(api, tools)
  \/ \E failure \in StreamFailure : StreamFails(failure)
  \/ Retry
  \/ \E repeats \in BOOLEAN : Thinking(repeats)
  \/ \E kind \in Text : Answer(kind)
  \/ \E kind \in {"line", "blank"} : Commentary(kind)
  \/ CommentaryEnds
  \/ \E i \in Call, name \in Name \cup {"", "other"}, bytes \in BOOLEAN : ToolDelta(i, name, bytes)
  \/ StreamDone
  \/ \E i \in Call, parses \in BOOLEAN : Yield(i, parses)
  \/ \E rest \in BOOLEAN : StreamEnds(rest)
  \/ \E text \in Text \cup {"none"}, calls \in BoundedSeq(Tool, 1) : FallbackAnswers(text, calls)
  \/ FallbackFails
  \/ Return

StreamSpec == StreamInit /\ [][StreamNext]_streamVars

-----------------------------------------------------------------------------
(* What is on the screen when the request is over is the answer it         *)
(* returns, whole; a text that came before tool calls, between them or     *)
(* after them is not there when they run, though it was held back until    *)
(* it was known whether a tool would be called (run_loop.py:1968).         *)
ShownIsAnswer ==
  /\ stage = "answered" => stream.answer = IF fellBack THEN << >> ELSE stream.content
  /\ stage = "running" => stream.answer = << >>

(* No text of two attempts is on the screen, nor that of an attempt beside *)
(* the answer of the request that replaced it (run_loop.py:2304).          *)
OneAttemptShown ==
  /\ \A p \in Range(stream.answer) : p[1] = streamAttempt
  /\ fellBack => stream.answer = << >>

(* The screen shows the answer, of one attempt, and nothing beside it.     *)
ScreenIsAnswer == ShownIsAnswer /\ OneAttemptShown

(* Tools run only behind a commentary that is on the screen as the         *)
(* response has it and, if its tag was closed, was completed as such,      *)
(* wherever in the stream it came, with or without tags, or not at all     *)
(* (run_loop.py:1846, 2446).                                               *)
CallsAnnounced ==
  stage = "running" =>
    /\ ~ Blank(stream.commentary)
    /\ stream.brief = stream.commentary
    /\ stream.tag = "none" => stream.announced = stream.commentary

-----------------------------------------------------------------------------
(* What the steps keep up between them: an inductive invariant.            *)
(* Text that is shown, or may be, comes from this attempt.                 *)
OfThisAttempt(s) ==
  \A p \in Range(s.content) \cup Range(s.deferred) \cup Range(s.answer) : p[1] = streamAttempt

(* While the response arrives: with tools offered all of the text is held  *)
(* back, without them nothing is called and what is not blank is shown.    *)
HeldBack(s) ==
  /\ IF request.tools
     THEN ~ s.answerVisible /\ s.deferred = s.content
     ELSE s.calls = << >> /\ s.deferred = << >> /\ (s.answerVisible <=> ~ Blank(s.content))
  /\ s.answer = IF s.answerVisible THEN s.content ELSE << >>

(* A commentary that may be seen is up to date, and completed once its tag *)
(* is closed; one that may not be seen yet waits for that, and no call is  *)
(* handed over before it.                                                  *)
Told(s) ==
  s.commentary # << >> =>
    IF s.commentaryVisible
    THEN s.brief = s.commentary /\ (s.tag = "none" => s.announced = s.commentary)
    ELSE s.calls = << >> /\ (s.tag = "none" => s.pending)

Nothing(s) ==
  /\ s.content = << >> /\ s.deferred = << >> /\ s.answer = << >> /\ s.commentary = << >>
  /\ s.calls = << >> /\ s.invalid = 0 /\ ~ s.answerVisible

ByStage ==
  /\ stage \in {"new", "backoff", "fallback"} => ~ fellBack /\ Nothing(stream)
  /\ stage = "backoff" => streamAttempt < StreamAttempts
  /\ stage \in {"streaming", "yielding"} => ~ fellBack /\ HeldBack(stream)
  /\ stage \in {"streaming", "yielding", "returned"} => Told(stream)
  /\ stage = "returned" =>
       IF stream.calls # << >> \/ fellBack THEN stream.answer = << >>
       ELSE stream.invalid = 0 => stream.answer = stream.content

StreamInv ==
  StreamTypeOK /\ OfThisAttempt(stream) /\ ByStage /\ ScreenIsAnswer /\ CallsAnnounced
=============================================================================
