----------------------------- MODULE Transcript -----------------------------
(***************************************************************************)
(* What the model is shown of a session's transcript: which prefix the     *)
(* checkpoint has archived (memory/compressor.py), the prompt assembled    *)
(* from the rest (runtime/prompt_assembler.py) and what becomes of it on   *)
(* its way into the request (providers/openai_compatible.py).              *)
(*                                                                         *)
(* A message is a record; its text is left out.  A tool-call message makes *)
(* the calls 1 .. n of its group, a tool message is the result of one of   *)
(* them.                                                                   *)
(***************************************************************************)
EXTENDS Integers, FiniteSets, Sequences, SequencesExt

CONSTANT PreserveRecent    \* context_compaction_preserve_recent

ASSUME PreserveRecentAssumption == PreserveRecent \in Nat

(* note: the system messages the runtime adds; restored: the summary that  *)
(* restore-checkpoint puts in front.                                       *)
Role == {"user", "answer", "note", "restored", "calls", "result"}

Message == [role : Role,
            group : Nat,           \* group_id; 0 for the messages without one
            calls : SUBSET Nat,    \* the calls it makes or answers
            ok : BOOLEAN]          \* success

Plain(role) == [role |-> role, group |-> 0, calls |-> {}, ok |-> TRUE]
CallsMessage(group, n) == [role |-> "calls", group |-> group, calls |-> 1 .. n, ok |-> TRUE]
ResultMessage(group, call, ok) ==
  [role |-> "result", group |-> group, calls |-> {call}, ok |-> ok]

MakesCalls(m) == m.role = "calls" /\ m.calls # {}
IsResult(m) == m.role = "result"
Answers(r, m) == IsResult(r) /\ MakesCalls(m) /\ r.group = m.group /\ r.calls \subseteq m.calls

(* The messages but for those at the places of `gone`.                     *)
Without(ms, gone) ==
  FoldLeftDomain(LAMBDA s, i : IF i \in gone THEN s ELSE Append(s, ms[i]), << >>, ms)

-----------------------------------------------------------------------------
(* compressor.py.                                                          *)

(* variant: every message is a segment *)
EachMessageStarts(ms, from) == from + 1 .. Len(ms)

(* The segments of the messages after the first `from`: a run of messages  *)
(* of one group, or a single message without a group.                      *)
SegmentStarts(ms, from) ==
  {i \in from + 1 .. Len(ms) :
     i = from + 1 \/ ms[i].group = 0 \/ ms[i].group # ms[i - 1].group}

(* How many messages a compaction leaves behind it, `from` of which are    *)
(* archived already: those behind which PreserveRecent segments begin.     *)
Cut(ms, from) ==
  from + Cardinality({i \in from + 1 .. Len(ms) :
                        Cardinality({j \in SegmentStarts(ms, from) : j > i}) >= PreserveRecent})

(* checkpoint_archived_message_count; no checkpoint is a boundary of 0.    *)
ArchivedCount(ms, boundary, active) ==
  IF ~ active THEN 0 ELSE IF boundary < Len(ms) THEN boundary ELSE Len(ms)

Visible(ms, archived) == SubSeq(ms, archived + 1, Len(ms))

-----------------------------------------------------------------------------
(* PromptAssembler.assemble: failed calls and their results are not shown. *)
FailedCalls(v, group) ==
  UNION {v[i].calls : i \in {j \in DOMAIN v : IsResult(v[j]) /\ v[j].group = group /\ ~ v[j].ok}}

WithoutFailed(v, m) ==
  IF m.role = "calls" THEN [m EXCEPT !.calls = @ \ FailedCalls(v, m.group)] ELSE m

Hidden(v) == {i \in DOMAIN v : IsResult(v[i]) /\ v[i].calls \subseteq FailedCalls(v, v[i].group)}

Assembled(v) == Without([i \in DOMAIN v |-> WithoutFailed(v, v[i])], Hidden(v))

-----------------------------------------------------------------------------
(* variant: nothing is put off *)
PutInOrder(s, m) == [s EXCEPT !.out = Append(@, m)]

(* _normalize_messages_for_payload, for the models whose profile wants     *)
(* system messages first only: what comes between calls and their results  *)
(* is put off until the results are complete.                              *)
PutNext(s, m) ==
  CASE MakesCalls(m) ->
         [out |-> Append(s.out \o s.deferred, m), deferred |-> << >>,
          pending |-> m.calls, group |-> m.group]
    [] ~ MakesCalls(m) /\ s.pending = {} ->
         [s EXCEPT !.out = Append(@, m)]
    [] IsResult(m) /\ s.pending # {} ->
         LET left == IF m.group = s.group THEN s.pending \ m.calls ELSE s.pending IN
         [out |-> Append(s.out, m) \o (IF left = {} THEN s.deferred ELSE << >>),
          deferred |-> IF left = {} THEN << >> ELSE s.deferred,
          pending |-> left, group |-> s.group]
    [] OTHER ->
         [s EXCEPT !.deferred = Append(@, m)]

NothingPut == [out |-> << >>, deferred |-> << >>, pending |-> {}, group |-> 0]

Deferred(ms) ==
  LET end == FoldLeft(PutNext, NothingPut, ms) IN end.out \o end.deferred

(* _drop_incomplete_tool_call_turns: calls that the results right behind   *)
(* them do not all answer are dropped with those results.                  *)
ResultsBehind(ms, i) ==
  {j \in i + 1 .. Len(ms) : \A k \in i + 1 .. j : IsResult(ms[k])}

Complete(ms, i) ==
  ms[i].calls \subseteq UNION {ms[j].calls : j \in {k \in ResultsBehind(ms, i) : Answers(ms[k], ms[i])}}

Dropped(ms) ==
  UNION {{i} \cup ResultsBehind(ms, i) :
           i \in {j \in DOMAIN ms : MakesCalls(ms[j]) /\ ~ Complete(ms, j)}}

(* The messages of a request, in the order they are sent.                  *)
Payload(v) ==
  LET ms == Deferred(Assembled(v)) IN Without(ms, Dropped(ms))
=============================================================================
