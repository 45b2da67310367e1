----------------------------- MODULE PhaseTags -----------------------------
(***************************************************************************)
(* PhaseTags: the parser that takes reasoning and commentary out of a text *)
(* that arrives in chunks, cut anywhere, tags included                     *)
(* (runtime/thinking_parser.py).  A text is a sequence of symbols, a tag   *)
(* one of a few; what the events carry is one sequence too, each symbol    *)
(* with the kind of its event, since a reader joins them.                  *)
(***************************************************************************)
EXTENDS Integers, Sequences, SequencesExt, FiniteSets, FiniteSetsExt

CONSTANTS
  MaxText,     \* bound: length of a text
  MaxChunk     \* bound: length of a chunk

VARIABLES
  text,      \* auxiliary, no code: what has been fed
  parser,    \* buffer, active phase, and the events so far
  flushed

tagVars == <<text, parser, flushed>>

Phase == {"thinking", "commentary"}
Letter(ph) == IF ph = "thinking" THEN "t" ELSE "c"
OpenTag == [ph \in Phase |-> <<"<", Letter(ph)>>]
CloseTag == [ph \in Phase |-> <<"<", "/", Letter(ph)>>]
Symbol == {"<", "/", "t", "c"}
NoPhase == "answer"
Completed(ph) == <<ph, "complete">>

Tagged(kind, s) == [i \in DOMAIN s |-> <<kind, s[i]>>]
After(s, i, tag) == SubSeq(s, i + Len(tag), Len(s))

(* str.find: the first place of the tag in the text, 0 for none.           *)
Find(s, tag) ==
  LET found == {i \in 1 .. Len(s) - Len(tag) + 1 : SubSeq(s, i, i + Len(tag) - 1) = tag}
  IN IF found = {} THEN 0 ELSE Min(found)

(* variant: one symbol of a tag is not kept back *)
PartialLengthOfTwo(s, tag) ==
  Max({0} \cup {n \in 2 .. Len(tag) - 1 : IsSuffix(SubSeq(tag, 1, n), s)})

(* _partial_tag_prefix_length: how much of the end may be the start of it. *)
PartialLength(s, tag) ==
  Max({0} \cup {n \in 1 .. Len(tag) - 1 : IsSuffix(SubSeq(tag, 1, n), s)})

PartialLengthOf(s, tags) == Max({PartialLength(s, t) : t \in tags})

(* _find_next_phase_tag.                                                   *)
NextPhase(s) ==
  LET found == {ph \in Phase : Find(s, OpenTag[ph]) # 0} IN
  IF found = {} THEN NoPhase
  ELSE CHOOSE ph \in found : \A q \in found : Find(s, OpenTag[ph]) <= Find(s, OpenTag[q])

(* The text but for its last n symbols is an event; the rest stays.        *)
Emit(p, n) ==
  LET end == Len(p.buffer) - n IN
  [p EXCEPT !.out = @ \o Tagged(p.phase, SubSeq(p.buffer, 1, end)),
            !.buffer = SubSeq(@, end + 1, Len(@))]

(* The body of _drain's loop, inside a phase and outside of one.           *)
DrainPhase(p, final) ==
  LET tag == CloseTag[p.phase]
      i == Find(p.buffer, tag) IN
  IF i # 0
  THEN [buffer |-> After(p.buffer, i, tag), phase |-> NoPhase,
        out |-> Append(p.out \o Tagged(p.phase, SubSeq(p.buffer, 1, i - 1)), Completed(p.phase))]
  ELSE IF final
  THEN [Emit(p, 0) EXCEPT !.phase = NoPhase, !.out = Append(@, Completed(p.phase))]
  ELSE Emit(p, PartialLength(p.buffer, tag))

DrainAnswer(p, final) ==
  LET ph == NextPhase(p.buffer) IN
  IF ph # NoPhase
  THEN LET i == Find(p.buffer, OpenTag[ph]) IN
       [buffer |-> After(p.buffer, i, OpenTag[ph]), phase |-> ph,
        out |-> p.out \o Tagged(NoPhase, SubSeq(p.buffer, 1, i - 1))]
  ELSE IF final THEN Emit(p, 0)
  ELSE Emit(p, PartialLengthOf(p.buffer, {OpenTag[q] : q \in Phase}))

DrainOnce(p, final) ==
  IF p.buffer = << >> THEN p
  ELSE IF p.phase = NoPhase THEN DrainAnswer(p, final) ELSE DrainPhase(p, final)

(* _drain.  The body takes something from the buffer, or changes nothing   *)
(* and the loop ends: once for each symbol is often enough.                *)
Drain(p, final) == FoldLeft(LAMBDA q, c : DrainOnce(q, final), p, p.buffer)

Feed(chunk) ==
  /\ ~ flushed /\ Len(text) + Len(chunk) <= MaxText
  /\ text' = text \o chunk
  /\ parser' = Drain([parser EXCEPT !.buffer = @ \o chunk], FALSE)
  /\ UNCHANGED flushed

Flush ==
  /\ ~ flushed
  /\ parser' = Drain(parser, TRUE)
  /\ flushed' = TRUE
  /\ UNCHANGED text

TagInit ==
  /\ text = << >> /\ flushed = FALSE
  /\ parser = [buffer |-> << >>, phase |-> NoPhase, out |-> << >>]

Chunk == UNION {[1 .. n -> Symbol] : n \in 1 .. MaxChunk}
TagNext == (\E chunk \in Chunk : Feed(chunk)) \/ Flush
TagSpec == TagInit /\ [][TagNext]_tagVars

-----------------------------------------------------------------------------
(* The reference: one pass over the whole text, symbol by symbol.  A tag   *)
(* is taken as soon as it is complete: its symbols before the last, which  *)
(* were taken for text, are taken back.  at is where the phase began: a    *)
(* tag does not reach back before it.                                      *)
Ends(s, i, from, tag) ==
  i - from >= Len(tag) /\ SubSeq(s, i - Len(tag) + 1, i) = tag

ReadSymbol(s, acc, i) ==
  LET longer == Append(acc.out, <<acc.phase, s[i]>>)
      opened == {ph \in Phase : acc.phase = NoPhase /\ Ends(s, i, acc.at, OpenTag[ph])}
      closes == acc.phase # NoPhase /\ Ends(s, i, acc.at, CloseTag[acc.phase])
  IN
  IF opened # {}
  THEN LET ph == CHOOSE q \in opened : TRUE IN
       [phase |-> ph, at |-> i,
        out |-> SubSeq(longer, 1, Len(longer) - Len(OpenTag[ph]))]
  ELSE IF closes
  THEN [phase |-> NoPhase, at |-> i,
        out |-> Append(SubSeq(longer, 1, Len(longer) - Len(CloseTag[acc.phase])),
                       Completed(acc.phase))]
  ELSE [acc EXCEPT !.out = longer]

WholeText(s) ==
  FoldLeft(LAMBDA acc, i : ReadSymbol(s, acc, i), [phase |-> NoPhase, at |-> 0, out |-> << >>],
           [i \in 1 .. Len(s) |-> i])

(* However a text is cut into chunks, tags included, its events say in all *)
(* what one pass over the whole text finds; until the flush they are a     *)
(* beginning of that and keep back less than a tag.  An open phase is      *)
(* completed by the flush if the text ends in a beginning of its closing   *)
(* tag, and otherwise not: with nothing in the buffer the flush does       *)
(* nothing (thinking_parser.py:41).                                        *)
CutAnywhere ==
  LET whole == WholeText(text)
      open == whole.phase # NoPhase
      kept == IF open THEN PartialLength(SubSeq(text, whole.at + 1, Len(text)), CloseTag[whole.phase])
              ELSE PartialLengthOf(SubSeq(text, whole.at + 1, Len(text)),
                                   {OpenTag[q] : q \in Phase})
  IN IF flushed
     THEN parser.out = IF open /\ kept > 0 THEN Append(whole.out, Completed(whole.phase)) ELSE whole.out
     ELSE parser.out = SubSeq(whole.out, 1, Len(whole.out) - kept)
=============================================================================
