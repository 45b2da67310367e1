-------------------------- MODULE TurnLoopProofs --------------------------
(***************************************************************************)
(* Proofs about TurnLoop, for every bound on rounds, calls and turns, and  *)
(* whatever earlier turns have left: the inductive invariant IInv, that a  *)
(* turn answers once, that calls and results stay together, and that what  *)
(* a checkpoint has archived stays archived.                               *)
(***************************************************************************)
EXTENDS TurnLoop, FoldLemmas, SequenceTheorems, FiniteSetTheorems, WellFoundedInduction, TLAPS

-----------------------------------------------------------------------------
(* Transcripts that grow.                                                  *)

Grows(ms, new) ==
  /\ new \in Seq(Message) /\ Len(ms) <= Len(new)
  /\ \A i \in 1 .. Len(ms) : new[i] = ms[i]

(* What is added is of the runtime or of the user, and of no group.        *)
GrowsBy(ms, new, roles) ==
  /\ Grows(ms, new)
  /\ \A i \in Len(ms) + 1 .. Len(new) : new[i].group = 0 /\ new[i].role \in roles

Spoken == {"user", "note", "answer"}

LEMMA MessageTypes ==
  /\ \A role \in Role : Plain(role) \in Message
  /\ \A group \in Nat, n \in Nat : CallsMessage(group, n) \in Message
  /\ \A group \in Nat, c \in Nat, ok \in BOOLEAN : ResultMessage(group, c, ok) \in Message
BY DEF Plain, CallsMessage, ResultMessage, Message, Role

LEMMA AppendGrows ==
  ASSUME NEW ms \in Seq(Message), NEW m \in Message
  PROVE  /\ Grows(ms, Append(ms, m))
         /\ Len(Append(ms, m)) = Len(ms) + 1
         /\ Append(ms, m)[Len(ms) + 1] = m
BY AppendProperties DEF Grows

LEMMA PlainGrows ==
  ASSUME NEW ms \in Seq(Message), NEW role \in Spoken
  PROVE  /\ GrowsBy(ms, Append(ms, Plain(role)), {role})
         /\ Len(Append(ms, Plain(role))) = Len(ms) + 1
         /\ Append(ms, Plain(role))[Len(ms) + 1] = Plain(role)
<1>1. Plain(role) \in Message
  BY MessageTypes DEF Spoken, Role
<1>2. QED
  BY <1>1, AppendGrows DEF GrowsBy, Plain

LEMMA SameGrows ==
  ASSUME NEW ms \in Seq(Message), NEW roles
  PROVE  GrowsBy(ms, ms, roles)
BY DEF GrowsBy, Grows

LEMMA GrowsOn ==
  ASSUME NEW a \in Seq(Message), NEW b, NEW c, NEW r1, NEW r2,
         GrowsBy(a, b, r1), GrowsBy(b, c, r2)
  PROVE  GrowsBy(a, c, r1 \cup r2)
<1>1. b \in Seq(Message) /\ c \in Seq(Message) /\ Len(a) \in Nat /\ Len(b) \in Nat /\ Len(c) \in Nat
  BY DEF GrowsBy, Grows
<1>2. QED
  BY <1>1 DEF GrowsBy, Grows

-----------------------------------------------------------------------------
(* A transcript that grows stays tidy.                                     *)

LEMMA GroupsAreNumbers ==
  ASSUME NEW ms \in Seq(Message), NEW i \in 1 .. Len(ms)
  PROVE  ms[i].group \in Nat /\ ms[i].calls \in SUBSET Nat /\ ms[i].ok \in BOOLEAN
<1>1. ms[i] \in Message
  BY ElementOfSeq
<1>2. QED
  BY <1>1 DEF Message

(* What was said of a message of the transcript can still be said.         *)
LEMMA FailedStays ==
  ASSUME NEW ms \in Seq(Message), NEW new, Grows(ms, new), NEW group,
         NEW j \in 1 .. Len(ms) + 1, NEW k \in Nat, j <= k, FailedBefore(ms, j, group)
  PROVE  FailedBefore(new, k, group)
BY DEF Grows, FailedBefore

LEMMA ResultStays ==
  ASSUME NEW ms \in Seq(Message), NEW new, Grows(ms, new), NEW j \in 1 .. Len(ms),
         ResultsFollowCalls(ms), IsResult(new[j])
  PROVE  /\ new[j].group # 0
         /\ \/ FailedBefore(new, j, new[j].group)
            \/ \E b \in 1 .. j - 1 : /\ Answers(new[j], new[b])
                                     /\ UnbrokenFrom(new, b, j, new[j].group)
<1>1. new[j] = ms[j]
  BY DEF Grows
<1>2. ms[j].group # 0
  BY <1>1 DEF ResultsFollowCalls
<1>3. CASE FailedBefore(ms, j, ms[j].group)
  BY <1>1, <1>2, <1>3, FailedStays
<1>4. CASE \E b \in 1 .. j - 1 : Answers(ms[j], ms[b]) /\ UnbrokenFrom(ms, b, j, ms[j].group)
  <2>1. PICK b \in 1 .. j - 1 : Answers(ms[j], ms[b]) /\ UnbrokenFrom(ms, b, j, ms[j].group)
    BY <1>4
  <2>2. new[b] = ms[b] /\ UnbrokenFrom(new, b, j, new[j].group)
    BY <1>1, <2>1 DEF Grows, UnbrokenFrom
  <2>3. QED
    BY <1>1, <1>2, <2>1, <2>2
<1>5. QED
  BY <1>1, <1>3, <1>4 DEF ResultsFollowCalls

(* What was said of calls and results can still be said: of two messages   *)
(* of the transcript, if neither of them is new.                           *)
LEMMA NearStays ==
  ASSUME NEW ms \in Seq(Message), NEW new, Grows(ms, new), ResultsAreNear(ms),
         NEW i \in 1 .. Len(ms), NEW j \in 1 .. Len(ms),
         MakesCalls(new[i]), IsResult(new[j]), new[i].group = new[j].group
  PROVE  i < j /\ \A k \in i + 1 .. j - 1 : ~ MakesCalls(new[k])
<1>1. new[i] = ms[i] /\ new[j] = ms[j] /\ DOMAIN ms = 1 .. Len(ms) /\ Len(ms) \in Nat
  BY DEF Grows
<1>2. i < j /\ \A k \in i + 1 .. j - 1 : ~ MakesCalls(ms[k])
  BY <1>1 DEF ResultsAreNear
<1>3. \A k \in i + 1 .. j - 1 : k \in 1 .. Len(ms)
  BY <1>1
<1>4. \A k \in i + 1 .. j - 1 : new[k] = ms[k]
  BY <1>3 DEF Grows
<1>5. QED
  BY <1>2, <1>4

(* A transcript that grows by messages among which no result answers calls *)
(* but the last ones.                                                      *)
LEMMA NearGrows ==
  ASSUME NEW ms \in Seq(Message), NEW new, Grows(ms, new), ResultsAreNear(ms),
         \A j \in Len(ms) + 1 .. Len(new) : IsResult(new[j]) =>
           /\ \E c \in new[j].calls : new[j].calls = {c}
           /\ \A i \in 1 .. Len(new) : MakesCalls(new[i]) /\ new[i].group = new[j].group =>
                i < j /\ \A k \in i + 1 .. j - 1 : ~ MakesCalls(new[k]),
         \A i \in Len(ms) + 1 .. Len(new) : MakesCalls(new[i]) =>
           \A j \in 1 .. Len(ms) : IsResult(new[j]) => new[i].group # new[j].group
  PROVE  ResultsAreNear(new)
<1>1. /\ Len(ms) \in Nat /\ Len(new) \in Nat /\ DOMAIN new = 1 .. Len(new)
      /\ DOMAIN ms = 1 .. Len(ms) /\ \A i \in 1 .. Len(ms) : new[i] = ms[i]
  BY DEF Grows
<1>2. \A i \in 1 .. Len(new) : i \in 1 .. Len(ms) \/ i \in Len(ms) + 1 .. Len(new)
  BY <1>1
<1>3. ASSUME NEW j \in 1 .. Len(new), IsResult(new[j])
      PROVE  \E c \in new[j].calls : new[j].calls = {c}
  BY <1>1, <1>2, <1>3 DEF ResultsAreNear
<1>4. ASSUME NEW i \in 1 .. Len(new), NEW j \in 1 .. Len(new),
             MakesCalls(new[i]), IsResult(new[j]), new[i].group = new[j].group
      PROVE  i < j /\ \A k \in i + 1 .. j - 1 : ~ MakesCalls(new[k])
  <2>1. CASE j \in Len(ms) + 1 .. Len(new)
    BY <1>4, <2>1
  <2>2. CASE j \in 1 .. Len(ms)
    <3>1. i \in 1 .. Len(ms)
      BY <1>2, <1>4, <2>2
    <3>2. QED
      BY <1>4, <2>2, <3>1, NearStays
  <2>3. QED
    BY <1>2, <2>1, <2>2
<1>5. QED
  BY <1>1, <1>3, <1>4 DEF ResultsAreNear

LEMMA GrownTidy ==
  ASSUME NEW ms \in Seq(Message), NEW new, NEW cut \in Nat, Tidy(ms, cut), GrowsBy(ms, new, Spoken)
  PROVE  Tidy(new, cut)
<1>1. /\ Grows(ms, new) /\ new \in Seq(Message) /\ Len(ms) \in Nat /\ Len(new) \in Nat
      /\ Len(ms) <= Len(new)
      /\ DOMAIN ms = 1 .. Len(ms) /\ DOMAIN new = 1 .. Len(new)
  BY DEF GrowsBy, Grows
<1>2. \A i \in 1 .. Len(new) : i \in 1 .. Len(ms) \/ i \in Len(ms) + 1 .. Len(new)
  BY <1>1
<1>3. RestoredInFront(new)
  BY <1>1, <1>2 DEF Tidy, RestoredInFront, GrowsBy, Grows, Spoken
<1>4. GroupsInOrder(new)
  BY <1>1, <1>2 DEF Tidy, GroupsInOrder, GrowsBy, Grows
<1>5. ResultsFollowCalls(new)
  <2>1. SUFFICES ASSUME NEW j \in 1 .. Len(new), IsResult(new[j])
                 PROVE  /\ new[j].group # 0
                        /\ \/ FailedBefore(new, j, new[j].group)
                           \/ \E b \in 1 .. j - 1 : /\ Answers(new[j], new[b])
                                                    /\ UnbrokenFrom(new, b, j, new[j].group)
    BY <1>1 DEF ResultsFollowCalls
  <2>2. j \in 1 .. Len(ms)
    BY <1>2, <2>1 DEF GrowsBy, Spoken, IsResult
  <2>3. QED
    BY <1>1, <2>1, <2>2, ResultStays DEF Tidy
<1>6. CutIsBetween(new, cut)
  <2>1. CASE cut < Len(ms)
    BY <1>1, <2>1 DEF Tidy, CutIsBetween, Grows
  <2>2. CASE cut = Len(ms)
    BY <1>1, <2>2 DEF Tidy, CutIsBetween, GrowsBy
  <2>3. cut < Len(ms) \/ cut = Len(ms)
    <3>1. cut <= Len(ms)
      BY DEF Tidy, CutIsBetween
    <3>2. Len(ms) \in Nat
      OBVIOUS
    <3>3. QED
      BY <3>1, <3>2
  <2>4. QED
    BY <2>1, <2>2, <2>3
<1>7. ResultsAreNear(new)
  <2>1. \A i \in Len(ms) + 1 .. Len(new) : ~ IsResult(new[i]) /\ ~ MakesCalls(new[i])
    BY DEF GrowsBy, Spoken, IsResult, MakesCalls
  <2>2. ResultsAreNear(ms)
    BY DEF Tidy
  <2>3. QED
    BY <1>1, <2>1, <2>2, NearGrows
<1>8. QED
  BY <1>3, <1>4, <1>5, <1>6, <1>7 DEF Tidy

LEMMA CallsTidy ==
  ASSUME NEW ms \in Seq(Message), NEW cut \in Nat, Tidy(ms, cut), NEW n \in Nat
  PROVE  Tidy(Append(ms, CallsMessage(Len(ms) + 1, n)), cut)
<1> DEFINE m == CallsMessage(Len(ms) + 1, n)
           new == Append(ms, m)
<1>1. m \in Message /\ Len(ms) \in Nat
  BY MessageTypes
<1>2. /\ Grows(ms, new) /\ Len(new) = Len(ms) + 1 /\ new[Len(ms) + 1] = m /\ new \in Seq(Message)
      /\ DOMAIN ms = 1 .. Len(ms) /\ DOMAIN new = 1 .. Len(new)
  BY <1>1, AppendGrows DEF Grows
<1>3. m.role = "calls" /\ m.group = Len(ms) + 1
  BY DEF CallsMessage
<1> HIDE DEF m, new
<1>4. RestoredInFront(new) /\ GroupsInOrder(new)
  BY <1>1, <1>2, <1>3 DEF Tidy, RestoredInFront, GroupsInOrder, Grows
<1>5. ResultsFollowCalls(new)
  <2>1. SUFFICES ASSUME NEW j \in 1 .. Len(new), IsResult(new[j])
                 PROVE  /\ new[j].group # 0
                        /\ \/ FailedBefore(new, j, new[j].group)
                           \/ \E b \in 1 .. j - 1 : /\ Answers(new[j], new[b])
                                                    /\ UnbrokenFrom(new, b, j, new[j].group)
    BY <1>2 DEF ResultsFollowCalls
  <2>2. j \in 1 .. Len(ms)
    BY <1>1, <1>2, <1>3, <2>1 DEF IsResult
  <2>3. QED
    BY <1>2, <2>1, <2>2, ResultStays DEF Tidy
<1>6. CutIsBetween(new, cut)
  <2>1. CASE cut < Len(ms)
    BY <1>1, <1>2, <2>1 DEF Tidy, CutIsBetween, Grows
  <2>2. CASE cut = Len(ms)
    <3>1. ASSUME 0 < cut PROVE new[cut + 1].group # new[cut].group
      <4>1. cut \in 1 .. Len(ms) /\ new[cut] = ms[cut]
        BY <1>1, <1>2, <2>2, <3>1 DEF Grows
      <4>2. ms[cut].group <= cut /\ ms[cut].group \in Nat
        BY <1>2, <4>1, GroupsAreNumbers DEF Tidy, GroupsInOrder
      <4>3. QED
        BY <1>1, <1>2, <1>3, <2>2, <4>1, <4>2
    <3>2. QED
      BY <1>1, <1>2, <2>2, <3>1 DEF CutIsBetween
  <2>3. QED
    BY <1>1, <2>1, <2>2 DEF Tidy, CutIsBetween
<1>7. ResultsAreNear(new)
  <2>1. \A i \in Len(ms) + 1 .. Len(new) : ~ IsResult(new[i]) /\ new[i].group = Len(ms) + 1
    BY <1>1, <1>2, <1>3 DEF IsResult
  <2>2. ASSUME NEW j \in 1 .. Len(ms) PROVE new[j].group # Len(ms) + 1
    <3>1. new[j] = ms[j] /\ ms[j].group <= j /\ ms[j].group \in Nat
      BY <1>2, GroupsAreNumbers DEF Tidy, GroupsInOrder, Grows
    <3>2. QED
      BY <1>1, <3>1
  <2>3. ResultsAreNear(ms)
    BY DEF Tidy
  <2>4. QED
    BY <1>2, <2>1, <2>2, <2>3, NearGrows
<1>8. QED
  BY <1>4, <1>5, <1>6, <1>7 DEF Tidy, new, m

(* A result is written behind its call, which is not archived, and behind  *)
(* which there are no other calls.                                         *)
LEMMA ResultTidy ==
  ASSUME NEW ms \in Seq(Message), NEW cut \in Nat, Tidy(ms, cut), NEW m \in Message,
         IsResult(m), NEW b \in 1 .. Len(ms), cut < b, m.group = b, Answers(m, ms[b]),
         \E c \in m.calls : m.calls = {c}, \A i \in b + 1 .. Len(ms) : ~ MakesCalls(ms[i]),
         FailedBefore(ms, Len(ms) + 1, b) \/ UnbrokenFrom(ms, b, Len(ms), b)
  PROVE  Tidy(Append(ms, m), cut)
<1> DEFINE new == Append(ms, m)
<1>1. Len(ms) \in Nat
  OBVIOUS
<1>2. /\ Grows(ms, new) /\ Len(new) = Len(ms) + 1 /\ new[Len(ms) + 1] = m /\ new \in Seq(Message)
      /\ DOMAIN ms = 1 .. Len(ms) /\ DOMAIN new = 1 .. Len(new)
  BY <1>1, AppendGrows DEF Grows
<1> HIDE DEF new
<1>3. RestoredInFront(new) /\ GroupsInOrder(new)
  BY <1>1, <1>2 DEF Tidy, RestoredInFront, GroupsInOrder, Grows, IsResult
<1>4. ResultsFollowCalls(new)
  <2>1. SUFFICES ASSUME NEW j \in 1 .. Len(new), IsResult(new[j])
                 PROVE  /\ new[j].group # 0
                        /\ \/ FailedBefore(new, j, new[j].group)
                           \/ \E a \in 1 .. j - 1 : /\ Answers(new[j], new[a])
                                                    /\ UnbrokenFrom(new, a, j, new[j].group)
    BY <1>2 DEF ResultsFollowCalls
  <2>2. CASE j \in 1 .. Len(ms)
    BY <1>2, <2>1, <2>2, ResultStays DEF Tidy
  <2>3. CASE j = Len(ms) + 1
    <3>1. new[j] = m /\ m.group # 0 /\ new[b] = ms[b] /\ b \in 1 .. j - 1
      BY <1>1, <1>2, <2>3 DEF Grows
    <3>2. CASE FailedBefore(ms, Len(ms) + 1, b)
      BY <1>1, <1>2, <2>3, <3>1, <3>2, FailedStays
    <3>3. CASE UnbrokenFrom(ms, b, Len(ms), b)
      <4>1. UnbrokenFrom(new, b, j, b)
        BY <1>1, <1>2, <2>3, <3>1, <3>3 DEF UnbrokenFrom, Grows
      <4>2. QED
        BY <3>1, <4>1
    <3>4. QED
      BY <3>2, <3>3
  <2>4. QED
    BY <1>1, <1>2, <2>2, <2>3
<1>5. CutIsBetween(new, cut)
  BY <1>1, <1>2 DEF Tidy, CutIsBetween, Grows
<1>6. ResultsAreNear(new)
  <2>1. \A j \in Len(ms) + 1 .. Len(new) : j = Len(ms) + 1 /\ new[j] = m
    BY <1>1, <1>2
  <2>2. ASSUME NEW i \in 1 .. Len(new), MakesCalls(new[i]), new[i].group = b
        PROVE  i < Len(ms) + 1 /\ \A k \in i + 1 .. Len(ms) + 1 - 1 : ~ MakesCalls(new[k])
    <3>1. i \in 1 .. Len(ms) /\ new[i] = ms[i]
      <4>1. i # Len(ms) + 1
        BY <1>2, <2>2 DEF IsResult, MakesCalls
      <4>2. QED
        BY <1>1, <1>2, <4>1 DEF Grows
    <3>2. b <= i
      BY <1>2, <2>2, <3>1 DEF Tidy, GroupsInOrder
    <3>3. \A k \in i + 1 .. Len(ms) : k \in b + 1 .. Len(ms) /\ new[k] = ms[k]
      BY <1>1, <1>2, <3>1, <3>2 DEF Grows
    <3>4. i < Len(ms) + 1 /\ Len(ms) + 1 - 1 = Len(ms)
      BY <1>1, <3>1
    <3>5. QED
      BY <3>3, <3>4
  <2>3. ResultsAreNear(ms)
    BY DEF Tidy
  <2>4. \A i \in Len(ms) + 1 .. Len(new) : ~ MakesCalls(new[i])
    BY <2>1 DEF IsResult, MakesCalls
  <2>5. ASSUME NEW j \in Len(ms) + 1 .. Len(new)
        PROVE  /\ \E c \in new[j].calls : new[j].calls = {c}
               /\ \A i \in 1 .. Len(new) : MakesCalls(new[i]) /\ new[i].group = new[j].group =>
                    i < j /\ \A k \in i + 1 .. j - 1 : ~ MakesCalls(new[k])
    <3>1. j = Len(ms) + 1 /\ new[j] = m
      BY <2>1
    <3>2. \E c \in new[j].calls : new[j].calls = {c}
      BY <3>1
    <3>3. ASSUME NEW i \in 1 .. Len(new), MakesCalls(new[i]), new[i].group = new[j].group
          PROVE  i < j /\ \A k \in i + 1 .. j - 1 : ~ MakesCalls(new[k])
      <4>1. new[i].group = b
        BY <3>1, <3>3
      <4>2. i < Len(ms) + 1 /\ \A k \in i + 1 .. Len(ms) + 1 - 1 : ~ MakesCalls(new[k])
        BY <2>2, <3>3, <4>1
      <4>3. QED
        BY <3>1, <4>2
    <3>4. QED
      BY <3>2, <3>3, Zenon
  <2>6. QED
    BY <1>2, <2>3, <2>4, <2>5, NearGrows
<1>7. QED
  BY <1>3, <1>4, <1>5, <1>6 DEF Tidy, new

-----------------------------------------------------------------------------
(* Where a compaction cuts.                                                *)

(* A set of numbers behind a that goes down to a + 1 without a gap is an   *)
(* interval, and its cardinality says where it ends.                       *)
LEMMA GapFree ==
  ASSUME NEW a \in Nat, NEW b \in Nat, NEW S \in SUBSET (a + 1 .. b),
         \A i \in S : \A k \in a + 1 .. i : k \in S
  PROVE  S = a + 1 .. a + Cardinality(S)
<1> DEFINE missing == {k \in Nat : a + k + 1 \notin S}
<1>1. b \in missing
  BY SMT
<1>2. PICK n \in missing : \A m \in missing : ~ (<<m, n>> \in OpToRel(<, Nat))
  BY <1>1, NatLessThanWellFounded, WFMin
<1>3. \A m \in Nat : m < n => m \notin missing
  BY <1>2 DEF OpToRel
<1>4. S = a + 1 .. a + n
  <2>1. ASSUME NEW i \in S PROVE i \in a + 1 .. a + n
    <3>1. i \in Int /\ a + 1 <= i
      OBVIOUS
    <3>2. ASSUME a + n < i PROVE FALSE
      <4>1. a + n + 1 \in a + 1 .. i
        BY <3>1, <3>2
      <4>2. QED
        BY <4>1
    <3>3. QED
      BY <3>1, <3>2
  <2>2. ASSUME NEW i \in a + 1 .. a + n PROVE i \in S
    <3>1. i - a - 1 \in Nat /\ i - a - 1 < n /\ a + (i - a - 1) + 1 = i
      OBVIOUS
    <3>2. QED
      BY <1>3, <3>1
  <2>3. QED
    BY <2>1, <2>2
<1>5. Cardinality(S) = n
  BY <1>4, FS_Interval
<1>6. QED
  BY <1>4, <1>5

(* Cut leaves behind what it is given, and begins the rest at a segment.   *)
LEMMA CutIsTidy ==
  ASSUME NEW ms \in Seq(Message), NEW from \in Nat, from <= Len(ms)
  PROVE  /\ Cut(ms, from) \in from .. Len(ms)
         /\ Cut(ms, from) # from => CutIsBetween(ms, Cut(ms, from))
<1> DEFINE starts == SegmentStarts(ms, from)
           behind(i) == {j \in starts : j > i}
           S == {i \in from + 1 .. Len(ms) : Cardinality(behind(i)) >= PreserveRecent}
           c == Cut(ms, from)
<1>1. Len(ms) \in Nat /\ starts \subseteq from + 1 .. Len(ms) /\ S \subseteq from + 1 .. Len(ms)
  BY DEF SegmentStarts
<1>0. IsFiniteSet(from + 1 .. Len(ms))
  BY <1>1, FS_Interval
<1>2. \A i \in Nat : IsFiniteSet(behind(i)) /\ Cardinality(behind(i)) \in Nat
  <2>1. SUFFICES ASSUME NEW i \in Nat
                 PROVE  IsFiniteSet(behind(i)) /\ Cardinality(behind(i)) \in Nat
    OBVIOUS
  <2>2. behind(i) \in SUBSET (from + 1 .. Len(ms))
    BY <1>1
  <2> HIDE DEF behind
  <2>3. QED
    BY <1>0, <2>2, FS_Subset, FS_CardinalityType
<1>3. \A i \in S : \A k \in from + 1 .. i : k \in S
  <2>1. SUFFICES ASSUME NEW i \in S, NEW k \in from + 1 .. i PROVE k \in S
    OBVIOUS
  <2>2. k \in Nat /\ i \in Nat /\ k <= i /\ k \in from + 1 .. Len(ms)
    BY <1>1
  <2>3. behind(i) \subseteq behind(k)
    BY <1>1, <2>2
  <2>4. Cardinality(behind(i)) <= Cardinality(behind(k))
    BY <1>2, <2>2, <2>3, FS_Subset
  <2>5. Cardinality(behind(i)) >= PreserveRecent
    OBVIOUS
  <2>6. Cardinality(behind(k)) >= PreserveRecent
    <3>1. Cardinality(behind(k)) \in Nat /\ Cardinality(behind(i)) \in Nat
      BY <1>2, <2>2
    <3> HIDE DEF behind
    <3>2. QED
      BY <2>4, <2>5, <3>1, PreserveRecentAssumption
  <2>7. QED
    BY <2>2, <2>6
<1>4. c = from + Cardinality(S)
  BY DEF Cut
<1>5. Cardinality(S) \in Nat /\ c \in Nat
  <2>1. S \in SUBSET (from + 1 .. Len(ms))
    BY <1>1
  <2> HIDE DEF S, c
  <2>2. Cardinality(S) \in Nat
    BY <1>0, <2>1, FS_Subset, FS_CardinalityType
  <2>3. QED
    BY <1>4, <2>2
<1>6. S = from + 1 .. c
  BY <1>1, <1>3, <1>4, GapFree
<1>7. c \in from .. Len(ms)
  <2>1. ASSUME Len(ms) < c PROVE FALSE
    <3>1. c \in S
      BY <1>1, <1>5, <1>6, <2>1
    <3>2. QED
      BY <1>1, <2>1, <3>1
  <2>2. QED
    BY <1>1, <1>4, <1>5, <2>1
<1>8. ASSUME c # from PROVE CutIsBetween(ms, c)
  <2>1. SUFFICES ASSUME c < Len(ms)
                 PROVE  ms[c + 1].group = 0 \/ ms[c + 1].group # ms[c].group
    BY <1>1, <1>7 DEF CutIsBetween
  <2>2. c \in S /\ c + 1 \notin S /\ c + 1 \in from + 1 .. Len(ms)
    BY <1>1, <1>5, <1>6, <1>7, <1>8, <2>1
  <2>3. /\ Cardinality(behind(c)) >= PreserveRecent
        /\ ~ (Cardinality(behind(c + 1)) >= PreserveRecent)
    BY <2>2
  <2>4. c + 1 \in starts
    <3>1. SUFFICES ASSUME c + 1 \notin starts PROVE FALSE
      OBVIOUS
    <3>2. behind(c) = behind(c + 1)
      BY <1>1, <1>5, <3>1
    <3>3. QED
      BY <2>3, <3>2
  <2>5. c + 1 # from + 1 /\ (c + 1) - 1 = c
    BY <1>5, <1>8
  <2>6. QED
    BY <2>4, <2>5 DEF SegmentStarts
<1>9. QED
  BY <1>7, <1>8

-----------------------------------------------------------------------------
(* What restore-checkpoint leaves of the restored summary before it.       *)

LEMMA WithoutRestoredIs ==
  ASSUME NEW ms \in Seq(Message), RestoredInFront(ms)
  PROVE  WithoutRestored(ms) =
           IF Len(ms) > 0 /\ ms[1].role = "restored" THEN SubSeq(ms, 2, Len(ms)) ELSE ms
<1> DEFINE n == Len(ms)
           from == IF n > 0 /\ ms[1].role = "restored" THEN 2 ELSE 1
           step(F, i) == IF i = 0 THEN << >>
                         ELSE IF ms[i].role = "restored" THEN F[i - 1]
                         ELSE Append(F[i - 1], ms[i])
           G == [i \in 0 .. n |-> SubSeq(ms, from, i)]
           kept == CHOOSE F : F = [i \in 0 .. n |-> step(F, i)]
<1>1. n \in Nat /\ from \in {1, 2}
  OBVIOUS
<1>2. \A i \in 1 .. n : ms[i].role = "restored" <=> i < from
  BY <1>1 DEF RestoredInFront
<1>3. ASSUME NEW i \in 0 .. n PROVE G[i] = step(G, i)
  <2>1. CASE i = 0
    BY <2>1, <1>1, SubSeqEmpty
  <2>2. CASE i # 0 /\ i < from
    <3>1. i \in 1 .. n /\ from = 2 /\ i = 1 /\ ms[i].role = "restored"
      BY <1>1, <1>2, <2>2
    <3>2. SubSeq(ms, 2, 1) = << >> /\ SubSeq(ms, 2, 0) = << >>
      BY SubSeqEmpty
    <3>3. QED
      BY <3>1, <3>2
  <2>3. CASE from <= i
    <3>1. i \in 1 .. n /\ ms[i].role # "restored" /\ i - 1 \in 0 .. n /\ (i - 1) + 1 = i
      BY <1>1, <1>2, <2>3
    <3>2. SubSeq(ms, from, i) = Append(SubSeq(ms, from, i - 1), ms[i])
      <4> HIDE DEF from, n
      <4>1. CASE i = from
        BY <1>1, <3>1, <4>1, SubSeqProperties, AppendProperties DEF n
      <4>2. CASE i > from
        BY <1>1, <3>1, <4>2, SubSeqRecursiveSecond DEF n
      <4>3. QED
        BY <1>1, <2>3, <4>1, <4>2
    <3>3. QED
      BY <3>1, <3>2
  <2> HIDE DEF G, step, from, n
  <2>4. QED
    BY <1>1, <2>1, <2>2, <2>3
<1>4. kept = [i \in 0 .. n |-> step(kept, i)]
  <2>1. G = [i \in 0 .. n |-> step(G, i)]
    BY <1>3
  <2>2. QED
    BY <2>1
<1>5. kept[n] = G[n]
  <2>0. \A i \in 0 .. n : kept[i] = step(kept, i)
    BY <1>4
  <2> HIDE DEF kept, G, from, n
  <2> DEFINE wrong == {i \in 0 .. n : kept[i] # G[i]}
  <2>1. SUFFICES ASSUME wrong # {} PROVE FALSE
    BY <1>1
  <2>2. wrong \subseteq Nat
    OBVIOUS
  <2>3. PICK i \in wrong : \A j \in wrong : ~ (<<j, i>> \in OpToRel(<, Nat))
    BY <2>1, <2>2, NatLessThanWellFounded, WFMin
  <2>4. \A j \in 0 .. n : j < i => kept[j] = G[j]
    <3>1. SUFFICES ASSUME NEW j \in 0 .. n, j < i, j \in wrong PROVE FALSE
      OBVIOUS
    <3>2. j \in Nat /\ i \in Nat
      BY <1>1, <2>2
    <3>3. QED
      BY <2>3, <3>1, <3>2 DEF OpToRel
  <2>5. kept[i] = step(kept, i) /\ G[i] = step(G, i)
    BY <1>3, <2>0
  <2>6. i # 0 => kept[i - 1] = G[i - 1]
    <3>1. i # 0 => i - 1 \in 0 .. n /\ i - 1 < i
      <4>1. i \in 0 .. n
        OBVIOUS
      <4>2. QED
        BY <1>1, <4>1
    <3>2. QED
      BY <2>4, <3>1
  <2>7. step(kept, i) = step(G, i)
    BY <2>6
  <2>8. QED
    BY <2>5, <2>7
<1>6. WithoutRestored(ms) = kept[n]
  BY DEF WithoutRestored
<1>7. G[n] = SubSeq(ms, from, n)
  BY <1>1
<1>8. SubSeq(ms, 1, n) = ms
  BY SubSeqFull
<1> HIDE DEF kept, G
<1>9. QED
  BY <1>5, <1>6, <1>7, <1>8

(* The summary takes the place of the one before it, or comes in front.    *)
LEMMA RestoredIs ==
  ASSUME NEW ms \in Seq(Message), RestoredInFront(ms)
  PROVE  LET new == <<Plain("restored")>> \o WithoutRestored(ms)
             d == IF Len(ms) > 0 /\ ms[1].role = "restored" THEN 0 ELSE 1
         IN  /\ new \in Seq(Message) /\ Len(new) = Len(ms) + d
             /\ new[1] = Plain("restored")
             /\ \A i \in 2 - d .. Len(ms) : new[i + d] = ms[i]
<1> DEFINE rest == WithoutRestored(ms)
           one == <<Plain("restored")>>
           new == one \o rest
<1>1. Len(ms) \in Nat
  OBVIOUS
<1>2. one \in Seq(Message) /\ Len(one) = 1 /\ one[1] = Plain("restored")
  BY MessageTypes DEF Role
<1>3. CASE Len(ms) > 0 /\ ms[1].role = "restored"
  <2>1. rest = SubSeq(ms, 2, Len(ms))
    BY <1>3, WithoutRestoredIs
  <2>2. /\ rest \in Seq(Message) /\ Len(rest) = Len(ms) - 1
        /\ \A i \in 1 .. Len(ms) - 1 : rest[i] = ms[i + 1]
    <3>1. \A i \in 2 .. Len(ms) : ms[i] \in Message
      BY <1>1, ElementOfSeq
    <3> DEFINE sub == SubSeq(ms, 2, Len(ms))
    <3>2. /\ sub \in Seq(Message)
          /\ Len(sub) = IF 2 <= Len(ms) THEN Len(ms) - 2 + 1 ELSE 0
          /\ \A i \in 1 .. Len(ms) - 2 + 1 : sub[i] = ms[2 + i - 1]
      BY <1>1, <3>1, SubSeqProperties
    <3> HIDE DEF sub
    <3>3. Len(sub) = Len(ms) - 1
      <4>1. Len(sub) = IF 2 <= Len(ms) THEN Len(ms) - 2 + 1 ELSE 0
        BY <3>2
      <4>2. CASE Len(ms) = 1
        BY <4>1, <4>2
      <4>3. CASE 2 <= Len(ms)
        BY <1>1, <4>1, <4>3
      <4>4. Len(ms) = 1 \/ 2 <= Len(ms)
        <5>1. Len(ms) > 0
          BY <1>3
        <5> DEFINE n == Len(ms)
        <5>2. n \in Nat /\ n > 0
          BY <1>1, <5>1
        <5> HIDE DEF n
        <5>3. n = 1 \/ 2 <= n
          BY <5>2
        <5>4. QED
          BY <5>3 DEF n
      <4>5. QED
        BY <4>2, <4>3, <4>4
    <3>4. ASSUME NEW i \in 1 .. Len(ms) - 1 PROVE sub[i] = ms[i + 1]
      <4>1. i \in 1 .. Len(ms) - 2 + 1 /\ 2 + i - 1 = i + 1
        BY <1>1
      <4>2. sub[i] = ms[2 + i - 1]
        BY <3>2, <4>1
      <4>3. QED
        BY <4>1, <4>2
    <3>5. QED
      BY <2>1, <3>2, <3>3, <3>4 DEF sub
  <2> HIDE DEF rest, one
  <2>3. /\ new \in Seq(Message) /\ Len(new) = Len(ms)
        /\ new[1] = Plain("restored")
        /\ \A i \in 2 .. Len(ms) : new[i] = rest[i - 1]
    <3>1. /\ new \in Seq(Message) /\ Len(new) = Len(one) + Len(rest)
          /\ \A i \in 1 .. Len(one) + Len(rest) :
               new[i] = IF i <= Len(one) THEN one[i] ELSE rest[i - Len(one)]
      <4>1. one \in Seq(Message) /\ rest \in Seq(Message)
        BY <1>2, <2>2
      <4>2. QED
        BY <4>1, ConcatProperties, Zenon
    <3>2. QED
      BY <1>1, <1>2, <1>3, <2>2, <3>1
  <2>4. \A i \in 2 .. Len(ms) : new[i + 0] = ms[i]
    BY <1>1, <2>2, <2>3
  <2>5. QED
    BY <1>1, <1>3, <2>3, <2>4 DEF rest, one
<1>4. CASE ~ (Len(ms) > 0 /\ ms[1].role = "restored")
  <2>1. rest = ms
    BY <1>4, WithoutRestoredIs
  <2> HIDE DEF rest, one
  <2>2. /\ new \in Seq(Message) /\ Len(new) = Len(ms) + 1
        /\ new[1] = Plain("restored")
        /\ \A i \in 1 .. Len(ms) : new[i + 1] = ms[i]
    BY <1>1, <1>2, <2>1, ConcatProperties
  <2>3. QED
    BY <1>1, <1>4, <2>2 DEF rest, one
<1>5. QED
  BY <1>3, <1>4

LEMMA RestoredTidy ==
  ASSUME NEW ms \in Seq(Message), NEW cut, Tidy(ms, cut)
  PROVE  Tidy(<<Plain("restored")>> \o WithoutRestored(ms), 0)
<1> DEFINE new == <<Plain("restored")>> \o WithoutRestored(ms)
<1>1. PICK d \in {0, 1} :
        /\ d = 0 => Len(ms) > 0 /\ ms[1].role = "restored"
        /\ d = 1 => ~ (Len(ms) > 0 /\ ms[1].role = "restored")
        /\ new \in Seq(Message) /\ Len(new) = Len(ms) + d
        /\ new[1] = Plain("restored")
        /\ \A i \in 2 - d .. Len(ms) : new[i + d] = ms[i]
  <2>1. RestoredInFront(ms)
    BY DEF Tidy
  <2>2. CASE Len(ms) > 0 /\ ms[1].role = "restored"
    <3>1. /\ new \in Seq(Message) /\ Len(new) = Len(ms) + 0 /\ new[1] = Plain("restored")
          /\ \A i \in 2 - 0 .. Len(ms) : new[i + 0] = ms[i]
      BY <2>1, <2>2, RestoredIs
    <3>2. QED
      BY <2>2, <3>1
  <2>3. CASE ~ (Len(ms) > 0 /\ ms[1].role = "restored")
    <3>1. /\ new \in Seq(Message) /\ Len(new) = Len(ms) + 1 /\ new[1] = Plain("restored")
          /\ \A i \in 2 - 1 .. Len(ms) : new[i + 1] = ms[i]
      BY <2>1, <2>3, RestoredIs
    <3>2. QED
      BY <2>3, <3>1
  <2>4. QED
    BY <2>2, <2>3
<1>2. /\ Len(ms) \in Nat /\ Len(new) \in Nat
      /\ DOMAIN ms = 1 .. Len(ms) /\ DOMAIN new = 1 .. Len(new)
  BY <1>1
<1> HIDE DEF new
(* What stands behind the summary stood d places before.                   *)
<1>3. \A j \in 2 .. Len(new) : j - d \in 2 - d .. Len(ms) /\ j - d \in 1 .. Len(ms) /\ new[j] = ms[j - d]
  <2>1. ASSUME NEW j \in 2 .. Len(new)
        PROVE  j - d \in 2 - d .. Len(ms) /\ j - d \in 1 .. Len(ms) /\ new[j] = ms[j - d]
    <3>1. j - d \in 2 - d .. Len(ms) /\ j - d \in 1 .. Len(ms) /\ (j - d) + d = j
      BY <1>1, <1>2
    <3>2. QED
      BY <1>1, <3>1
  <2>2. QED
    BY <2>1
<1>4. \A i \in 1 .. Len(ms) : IsResult(ms[i]) \/ MakesCalls(ms[i]) =>
        i + d \in 2 .. Len(new) /\ new[i + d] = ms[i]
  <2>1. ASSUME NEW i \in 1 .. Len(ms), IsResult(ms[i]) \/ MakesCalls(ms[i])
        PROVE  i \in 2 - d .. Len(ms)
    BY <1>1, <1>2, <2>1 DEF IsResult, MakesCalls
  <2>2. QED
    BY <1>1, <1>2, <2>1
<1>5. RestoredInFront(new)
  <2>1. ASSUME NEW j \in 2 .. Len(new) PROVE new[j].role # "restored"
    <3>1. PICK i \in 2 - d .. Len(ms) : i \in 1 .. Len(ms) /\ new[j] = ms[i]
      BY <1>3
    <3>2. ms[i].role = "restored" => i = 1
      BY <1>2, <3>1 DEF RestoredInFront, Tidy
    <3>3. i = 1 => ms[1].role # "restored"
      BY <1>1, <3>1
    <3>4. QED
      BY <3>1, <3>2, <3>3
  <2>2. QED
    BY <1>2, <2>1 DEF RestoredInFront
<1>6. GroupsInOrder(new)
  <2>1. ASSUME NEW j \in 2 .. Len(new) PROVE new[j].group <= j
    <3>1. new[j] = ms[j - d] /\ j - d \in 1 .. Len(ms)
      BY <1>3
    <3>2. ms[j - d].group <= j - d /\ ms[j - d].group \in Nat
      BY <1>2, <3>1, GroupsAreNumbers DEF Tidy, GroupsInOrder
    <3>3. QED
      BY <1>1, <3>1, <3>2
  <2>2. new[1].group = 0
    BY <1>1 DEF Plain
  <2>3. QED
    BY <1>2, <2>1, <2>2 DEF GroupsInOrder
<1>7. ResultsFollowCalls(new)
  <2>1. SUFFICES ASSUME NEW j \in 1 .. Len(new), IsResult(new[j])
                 PROVE  /\ new[j].group # 0
                        /\ \/ FailedBefore(new, j, new[j].group)
                           \/ \E b \in 1 .. j - 1 : /\ Answers(new[j], new[b])
                                                    /\ UnbrokenFrom(new, b, j, new[j].group)
    BY <1>2 DEF ResultsFollowCalls
  <2>2. j \in 2 .. Len(new)
    BY <1>1, <1>2, <2>1 DEF IsResult, Plain
  <2>3. j - d \in 1 .. Len(ms) /\ new[j] = ms[j - d]
    BY <1>3, <2>2
  <2>4. ms[j - d].group # 0
    BY <1>2, <2>1, <2>3 DEF Tidy, ResultsFollowCalls
  <2>5. CASE FailedBefore(ms, j - d, ms[j - d].group)
    <3>1. PICK k \in 1 .. (j - d) - 1 : IsResult(ms[k]) /\ ms[k].group = ms[j - d].group /\ ~ ms[k].ok
      BY <2>5 DEF FailedBefore
    <3>2. k \in 1 .. Len(ms) /\ k + d \in 1 .. j - 1
      BY <1>1, <1>2, <2>2, <2>3
    <3>3. new[k + d] = ms[k]
      BY <1>4, <3>1, <3>2
    <3>4. QED
      BY <2>3, <2>4, <3>1, <3>2, <3>3 DEF FailedBefore
  <2>6. CASE \E b \in 1 .. (j - d) - 1 : /\ Answers(ms[j - d], ms[b])
                                         /\ UnbrokenFrom(ms, b, j - d, ms[j - d].group)
    <3>1. PICK b \in 1 .. (j - d) - 1 : /\ Answers(ms[j - d], ms[b])
                                        /\ UnbrokenFrom(ms, b, j - d, ms[j - d].group)
      BY <2>6
    <3>2. b \in 1 .. Len(ms) /\ b + d \in 1 .. j - 1
      BY <1>1, <1>2, <2>2, <2>3
    <3>3. b + d \in 2 .. Len(new) /\ new[b + d] = ms[b]
      BY <1>4, <3>1, <3>2 DEF Answers
    <3>4. ASSUME NEW i \in b + d .. j PROVE new[i].group = new[j].group
      <4>1. i \in 2 .. Len(new) /\ i - d \in b .. j - d
        BY <1>1, <1>2, <2>2, <3>2, <3>3
      <4>2. QED
        BY <1>3, <2>3, <3>1, <4>1 DEF UnbrokenFrom
    <3>5. QED
      BY <2>3, <2>4, <3>1, <3>2, <3>3, <3>4 DEF UnbrokenFrom
  <2>7. QED
    BY <1>2, <2>1, <2>3, <2>5, <2>6 DEF Tidy, ResultsFollowCalls
<1>8. CutIsBetween(new, 0)
  BY <1>2 DEF CutIsBetween
<1>9. ResultsAreNear(new)
  <2>1. \A j \in 1 .. Len(new) : IsResult(new[j]) \/ MakesCalls(new[j]) => j \in 2 .. Len(new)
    BY <1>1, <1>2 DEF IsResult, MakesCalls, Plain
  <2>2. ASSUME NEW j \in 1 .. Len(new), IsResult(new[j])
        PROVE  \E c \in new[j].calls : new[j].calls = {c}
    <3>1. j - d \in 1 .. Len(ms) /\ new[j] = ms[j - d]
      BY <1>3, <2>1, <2>2
    <3>2. QED
      BY <1>2, <2>2, <3>1 DEF Tidy, ResultsAreNear
  <2>3. ASSUME NEW i \in 1 .. Len(new), NEW j \in 1 .. Len(new),
               MakesCalls(new[i]), IsResult(new[j]), new[i].group = new[j].group
        PROVE  i < j /\ \A k \in i + 1 .. j - 1 : ~ MakesCalls(new[k])
    <3>1. /\ i \in 2 .. Len(new) /\ j \in 2 .. Len(new)
          /\ i - d \in 1 .. Len(ms) /\ new[i] = ms[i - d]
          /\ j - d \in 1 .. Len(ms) /\ new[j] = ms[j - d]
      BY <1>3, <2>1, <2>3
    <3>2. i - d < j - d /\ \A k \in (i - d) + 1 .. (j - d) - 1 : ~ MakesCalls(ms[k])
      BY <1>2, <2>3, <3>1 DEF Tidy, ResultsAreNear
    <3>3. i < j
      BY <1>1, <1>2, <3>2
    <3>4. \A k \in i + 1 .. j - 1 : k \in 2 .. Len(new) /\ k - d \in (i - d) + 1 .. (j - d) - 1
      BY <1>1, <1>2, <3>1
    <3>5. QED
      BY <1>3, <3>2, <3>3, <3>4
  <2>4. QED
    BY <1>2, <2>2, <2>3 DEF ResultsAreNear
<1>10. QED
  BY <1>5, <1>6, <1>7, <1>8, <1>9 DEF Tidy, new

-----------------------------------------------------------------------------
(* What a step does to the transcript and to the place of the turn.        *)

Working == {"round", "summarizing", "asking", "fallback", "judging", "finalAsking"}

GoesOn == place' \in Working /\ GrowsBy(messages, messages', {"note"})

Closes ==
  /\ place' = "closing" /\ outcome' # "exhausted"
  /\ \E ms : GrowsBy(messages, ms, {"note"}) /\ messages' = Append(ms, Plain("answer"))

RunsOut == place' = "closing" /\ outcome' = "exhausted" /\ messages' = messages

Calls(n) ==
  /\ place' = "tool" /\ batch' = n /\ next' = 1
  /\ messages' = Append(messages, CallsMessage(Len(messages) + 1, n))

Asks ==
  \/ Round \/ Exhaust \/ Finalize \/ Summarized \/ NotSummarized
  \/ Answered \/ Failed \/ FallenBack \/ Judged \/ FinallyAnswered

LEMMA NoteGrows ==
  ASSUME messages \in Seq(Message)
  PROVE  GrowsBy(messages, Note, {"note"}) /\ GrowsBy(messages, messages, {"note"})
BY PlainGrows, SameGrows DEF Note, Spoken

LEMMA CloseShape ==
  ASSUME messages \in Seq(Message), NEW how, how # "exhausted",
         Close(messages, how) \/ Close(Note, how)
  PROVE  Closes
BY NoteGrows DEF Close, Closes

LEMMA RoundShape ==
  ASSUME messages \in Seq(Message), AnotherRound
  PROVE  GoesOn
BY NoteGrows DEF AnotherRound, GoesOn, Working

LEMMA StayShape ==
  ASSUME messages \in Seq(Message), place' \in Working, UNCHANGED messages
  PROVE  GoesOn
BY NoteGrows DEF GoesOn

LEMMA MeasureShape ==
  ASSUME messages \in Seq(Message), Measure
  PROVE  /\ GoesOn /\ place' \in {"summarizing", IF finalizing THEN "finalAsking" ELSE "asking"}
         \/ Closes
<1>1. ASSUME NEW l, Compact(l)
      PROVE  /\ GoesOn /\ place' \in {"summarizing", IF finalizing THEN "finalAsking" ELSE "asking"}
             \/ Closes
  <2>1. CASE Proceed
    BY <2>1, StayShape DEF Proceed, Working
  <2>2. CASE GiveUp
    BY <2>2, CloseShape DEF GiveUp
  <2>3. CASE place' = "summarizing" /\ UNCHANGED messages
    BY <2>3, StayShape DEF Working
  <2>4. QED
    BY <1>1, <2>1, <2>2, <2>3 DEF Compact
<1>2. CASE GiveUp
  BY <1>2, CloseShape DEF GiveUp
<1>3. QED
  BY <1>1, <1>2 DEF Measure

LEMMA RespondShape ==
  ASSUME messages \in Seq(Message), NEW maybeTools, Respond(maybeTools)
  PROVE  \/ GoesOn /\ place' \in {"round", "judging"} /\ UNCHANGED batchVars
         \/ Closes /\ UNCHANGED batchVars
         \/ \E n \in 1 .. MaxBatch : Calls(n) /\ UNCHANGED result
<1>1. CASE \E n \in 1 .. MaxBatch : CallTools(n)
  BY <1>1 DEF CallTools, Calls
<1>2. ASSUME NEW which \in InvalidCalls, Refuse(which)
      PROVE  (GoesOn /\ place' = "round") \/ Closes
  BY <1>2, RoundShape, CloseShape DEF Refuse, AnotherRound
<1>3. ASSUME NEW text \in Candidate, Judge(text)
      PROVE  (GoesOn /\ place' \in {"round", "judging"}) \/ Closes
  BY <1>3, RoundShape, CloseShape, StayShape DEF Judge, AnotherRound, Working
<1>4. QED
  BY <1>1, <1>2, <1>3 DEF Respond, Refuse, Judge

LEMMA AskShape ==
  ASSUME TypeOK, Asks
  PROVE  /\ place \in Working /\ UNCHANGED <<turnStart, turns, finalizing>>
         /\ \/ /\ GoesOn /\ UNCHANGED batchVars
               /\ place' \in {"asking", "fallback", "judging"} =>
                    ~ finalizing \/ place \in {"asking", "fallback"}
            \/ (Closes \/ RunsOut) /\ UNCHANGED batchVars
            \/ place \in {"asking", "fallback"} /\ \E n \in 1 .. MaxBatch : Calls(n) /\ UNCHANGED result
<1> USE DEF TypeOK
<1>1. CASE Round \/ Finalize
  <2>1. Measure /\ place = "round" /\ UNCHANGED <<turnStart, turns, finalizing, batchVars>>
    BY <1>1 DEF Round, Finalize
  <2>2. QED
    BY <2>1, MeasureShape DEF Working
<1>2. CASE Exhaust
  BY <1>2 DEF Exhaust, RunsOut, taskVars, Working
<1>3. CASE Summarized \/ NotSummarized
  <2>1. /\ place = "summarizing" /\ UNCHANGED <<turnStart, turns, finalizing, batchVars>>
        /\ GiveUp \/ Proceed
    BY <1>3 DEF Summarized, NotSummarized
  <2>2. GiveUp => Closes
    BY CloseShape DEF GiveUp
  <2>3. Proceed => GoesOn /\ (place' = "asking" => ~ finalizing) /\ place' \notin {"fallback", "judging"}
    BY StayShape DEF Proceed, Working
  <2>4. QED
    BY <2>1, <2>2, <2>3 DEF Working
<1>4. CASE Answered
  <2>1. /\ place = "asking" /\ UNCHANGED <<turnStart, turns, finalizing>> /\ Respond(toolsOffered)
    BY <1>4 DEF Answered
  <2>2. QED
    BY <2>1, RespondShape DEF Working
<1>5. CASE FallenBack
  <2>1. /\ place = "fallback" /\ UNCHANGED <<turnStart, turns, finalizing>>
        /\ Respond(TRUE) \/ (Close(messages, "providerError") /\ UNCHANGED batchVars)
    BY <1>5 DEF FallenBack
  <2>2. QED
    BY <2>1, RespondShape, CloseShape DEF Working
<1>6. CASE Failed
  <2>1. /\ place = "asking" /\ UNCHANGED <<turnStart, turns, finalizing, batchVars>>
        /\ \/ place' \in {"asking", "fallback"} /\ UNCHANGED messages
           \/ Close(messages, "providerError")
    BY <1>6 DEF Failed
  <2>2. QED
    BY <2>1, CloseShape, StayShape DEF Working
<1>7. CASE Judged \/ FinallyAnswered
  <2>1. /\ place \in Working /\ UNCHANGED <<turnStart, turns, finalizing, batchVars>>
        /\ \/ Close(messages, "answered") \/ Close(messages, "blocked")
           \/ AnotherRound
    BY <1>7 DEF Judged, FinallyAnswered, taskVars, Working
  <2>2. QED
    BY <2>1, CloseShape, RoundShape DEF AnotherRound
<1>8. QED
  BY <1>1, <1>2, <1>3, <1>4, <1>5, <1>6, <1>7 DEF Asks

(* After a result: the next call, the next round, or the end.              *)
LEMMA FollowShape ==
  ASSUME TypeOK, Follow
  PROVE  /\ place = "reporting" /\ UNCHANGED <<turnStart, turns, batch, checkpointVars>>
         /\ \/ /\ place' = "tool" /\ next < batch /\ next' = next + 1 /\ UNCHANGED finalizing
               /\ \/ result \in Succeeded /\ UNCHANGED messages
                  \/ result \notin Succeeded /\ GrowsBy(messages, messages', {"note"})
            \/ GoesOn /\ place' = "round" /\ UNCHANGED next /\ (finalizing' \/ next = batch)
            \/ Closes /\ UNCHANGED next
<1>0. messages \in Seq(Message)
  BY DEF TypeOK
<1>1. place = "reporting" /\ UNCHANGED <<turnStart, turns, batch, checkpointVars>>
  BY DEF Follow
<1>2. Note \in Seq(Message)
  BY <1>0, NoteGrows DEF GrowsBy, Grows
<1>3. /\ GrowsBy(messages, Append(messages, Plain("note")), {"note"})
      /\ GrowsBy(messages, Append(Note, Plain("note")), {"note"})
  <2>1. GrowsBy(Note, Append(Note, Plain("note")), {"note"})
    BY <1>2, PlainGrows DEF Spoken
  <2>2. GrowsBy(messages, Append(Note, Plain("note")), {"note"} \cup {"note"})
    BY <1>0, <2>1, NoteGrows, GrowsOn
  <2>3. {"note"} \cup {"note"} = {"note"}
    OBVIOUS
  <2>4. QED
    BY <1>0, <2>2, <2>3, NoteGrows DEF Note
<1>4. ASSUME Close(messages, "awaiting") \/ Close(Note, "answered") PROVE Closes
  BY <1>0, <1>4, CloseShape
<1>5. ASSUME NEW ms \in {messages, Note}, Continue(ms)
      PROVE  \/ /\ place' = "tool" /\ next < batch /\ next' = next + 1 /\ UNCHANGED finalizing
                /\ messages' = ms
             \/ GoesOn /\ place' = "round" /\ UNCHANGED next /\ next = batch
  BY <1>0, <1>3, <1>5, NoteGrows DEF Continue, GoesOn, Working
<1>6. QED
  BY <1>0, <1>1, <1>3, <1>4, <1>5, NoteGrows DEF Follow, GoesOn, Working, Succeeded

-----------------------------------------------------------------------------
(* Type correctness.                                                       *)

ProgressType ==
  [unresolved : BOOLEAN, recovery : 0 .. MaxRecovery,
   finalization : 0 .. MaxFinalization, invalid : 0 .. 2, noTools : BOOLEAN]

TurnTypes ==
  /\ streak \in Nat /\ irreducible \in BOOLEAN /\ level \in Level
  /\ place \in Place /\ outcome \in Outcome /\ attempt \in 1 .. MaxAttempts
  /\ toolsOffered \in BOOLEAN /\ progress \in ProgressType

LEMMA ProgressTypes ==
  ASSUME NEW p \in ProgressType
  PROVE  /\ [p EXCEPT !.noTools = FALSE] \in ProgressType
         /\ \A b \in BOOLEAN : p.invalid < 2 =>
              [p EXCEPT !.invalid = @ + 1, !.noTools = @ \/ b] \in ProgressType
         /\ p.recovery < MaxRecovery => [p EXCEPT !.recovery = @ + 1] \in ProgressType
         /\ p.finalization < MaxFinalization => [p EXCEPT !.finalization = @ + 1] \in ProgressType
         /\ \A r \in Result : Recorded(p, r) \in ProgressType
         /\ p.invalid \in 0 .. 2 /\ p.noTools \in BOOLEAN
<1>1. p.invalid \in 0 .. 2 /\ p.noTools \in BOOLEAN
  BY DEF ProgressType
<1>2. [p EXCEPT !.noTools = FALSE] \in ProgressType
  BY DEF ProgressType
<1>3. ASSUME NEW b \in BOOLEAN, p.invalid < 2
      PROVE  [p EXCEPT !.invalid = @ + 1, !.noTools = @ \/ b] \in ProgressType
  <2>1. (p.noTools \/ b) \in BOOLEAN
    OBVIOUS
  <2>2. p.invalid + 1 \in 0 .. 2
    BY <1>1, <1>3
  <2> DEFINE i == p.invalid + 1  t == (p.noTools \/ b)
  <2> HIDE DEF i, t
  <2>3. [p EXCEPT !.invalid = i, !.noTools = t] \in ProgressType
    BY <2>1, <2>2 DEF ProgressType, i, t
  <2>4. QED
    BY <2>3 DEF i, t
<1>4. p.recovery < MaxRecovery => [p EXCEPT !.recovery = @ + 1] \in ProgressType
  BY DEF ProgressType, MaxRecovery
<1>5. p.finalization < MaxFinalization => [p EXCEPT !.finalization = @ + 1] \in ProgressType
  BY DEF ProgressType, MaxFinalization
<1>6. ASSUME NEW r \in Result PROVE Recorded(p, r) \in ProgressType
  <2>1. \/ Recorded(p, r) = [p EXCEPT !.finalization = 0, !.recovery = 0, !.unresolved = FALSE]
        \/ Recorded(p, r) = [p EXCEPT !.finalization = 0, !.recovery = 0]
        \/ Recorded(p, r) = [p EXCEPT !.finalization = 0]
        \/ Recorded(p, r) = [p EXCEPT !.finalization = 0, !.recovery = 0, !.unresolved = TRUE]
        \/ Recorded(p, r) = p
    BY DEF Recorded
  <2>2. \A q \in ProgressType : [q EXCEPT !.finalization = 0] \in ProgressType
    BY DEF ProgressType, MaxFinalization
  <2>3. \A q \in ProgressType : [q EXCEPT !.recovery = 0] \in ProgressType
    BY DEF ProgressType, MaxRecovery
  <2>4. \A q \in ProgressType, u \in BOOLEAN : [q EXCEPT !.unresolved = u] \in ProgressType
    BY DEF ProgressType
  <2> DEFINE a == [p EXCEPT !.finalization = 0]
             b == [p EXCEPT !.finalization = 0, !.recovery = 0]
             c(u) == [p EXCEPT !.finalization = 0, !.recovery = 0, !.unresolved = u]
  <2>5. b = [a EXCEPT !.recovery = 0] /\ \A u \in BOOLEAN : c(u) = [b EXCEPT !.unresolved = u]
    BY DEF ProgressType
  <2>6. a \in ProgressType /\ b \in ProgressType /\ c(TRUE) \in ProgressType /\ c(FALSE) \in ProgressType
    <3>1. a \in ProgressType
      BY <2>2
    <3> HIDE DEF a
    <3>2. b \in ProgressType
      BY <2>3, <2>5, <3>1
    <3> HIDE DEF b, c
    <3>3. QED
      BY <2>4, <2>5, <3>1, <3>2
  <2>7. Recorded(p, r) \in {a, b, c(TRUE), c(FALSE), p}
    BY <2>1
  <2> HIDE DEF a, b, c
  <2>8. QED
    BY <2>6, <2>7
<1>7. QED
  BY <1>1, <1>2, <1>3, <1>4, <1>5, <1>6

LEMMA TypesOfTurn == TypeOK => TurnTypes
BY DEF TypeOK, TurnTypes, ProgressType

LEMMA GrowsType ==
  ASSUME NEW ms \in Seq(Message), NEW roles,
         \/ GrowsBy(ms, messages', roles)
         \/ \E new : GrowsBy(ms, new, roles) /\ messages' = Append(new, Plain("answer"))
         \/ \E n \in Nat : messages' = Append(ms, CallsMessage(Len(ms) + 1, n))
  PROVE  messages' \in Seq(Message) /\ Len(ms) < Len(messages') + 1
<1>1. CASE GrowsBy(ms, messages', roles)
  BY <1>1 DEF GrowsBy, Grows
<1>2. CASE \E new : GrowsBy(ms, new, roles) /\ messages' = Append(new, Plain("answer"))
  <2>1. PICK new : GrowsBy(ms, new, roles) /\ messages' = Append(new, Plain("answer"))
    BY <1>2
  <2>2. new \in Seq(Message) /\ Len(ms) <= Len(new)
    BY <2>1 DEF GrowsBy, Grows
  <2>3. messages' \in Seq(Message) /\ Len(messages') = Len(new) + 1
    BY <2>1, <2>2, PlainGrows DEF Spoken, GrowsBy, Grows
  <2>4. QED
    BY <2>2, <2>3
<1>3. CASE \E n \in Nat : messages' = Append(ms, CallsMessage(Len(ms) + 1, n))
  <2>1. PICK n \in Nat : messages' = Append(ms, CallsMessage(Len(ms) + 1, n))
    BY <1>3
  <2>2. CallsMessage(Len(ms) + 1, n) \in Message
    BY MessageTypes
  <2>3. QED
    BY <2>1, <2>2, AppendGrows DEF Grows
<1>4. QED
  BY <1>1, <1>2, <1>3

LEMMA ProceedType ==
  ASSUME TypeOK, Proceed \/ GiveUp
  PROVE  /\ place' \in Place /\ outcome' \in Outcome /\ attempt' \in 1 .. MaxAttempts
         /\ toolsOffered' \in BOOLEAN /\ progress' \in ProgressType
<1>0. TurnTypes /\ finalizing \in BOOLEAN
  BY TypesOfTurn DEF TypeOK
<1>1. CASE Proceed
  <2>1. progress' \in ProgressType
    BY <1>0, <1>1, ProgressTypes DEF Proceed, TurnTypes
  <2>2. QED
    BY <1>0, <1>1, <2>1, ConstantsAssumption DEF Proceed, TurnTypes, Place
<1>2. CASE GiveUp
  BY <1>0, <1>2 DEF GiveUp, Close, TurnTypes, Place, Outcome
<1>3. QED
  BY <1>1, <1>2

LEMMA StreakType ==
  ASSUME TypeOK, \/ Reset \/ \E hopeless \in BOOLEAN : MarkFailure(hopeless)
                 \/ UNCHANGED <<streak, irreducible>>
  PROVE  streak' \in Nat /\ irreducible' \in BOOLEAN
<1>0. streak \in Nat /\ irreducible \in BOOLEAN
  BY DEF TypeOK
<1>1. ASSUME NEW hopeless \in BOOLEAN, MarkFailure(hopeless)
      PROVE  streak' \in Nat /\ irreducible' \in BOOLEAN
  <2> DEFINE many == (hopeless \/ streak + 1 >= MaxStreak)
  <2>1. many \in BOOLEAN
    OBVIOUS
  <2>2. QED
    BY <1>0, <1>1, <2>1 DEF MarkFailure
<1>2. CASE Reset
  BY <1>2 DEF Reset
<1>3. CASE UNCHANGED <<streak, irreducible>>
  BY <1>0, <1>3
<1>4. QED
  BY <1>1, <1>2, <1>3

LEMMA MeasureType ==
  ASSUME TypeOK, Measure
  PROVE  TurnTypes'
<1>0. TurnTypes
  BY TypesOfTurn
<1>1. ASSUME NEW l \in Level, Compact(l) PROVE TurnTypes'
  <2>1. streak' \in Nat /\ irreducible' \in BOOLEAN /\ level' \in Level
    BY <1>1, StreakType DEF Compact
  <2>2. CASE Proceed \/ GiveUp
    BY <2>1, <2>2, ProceedType DEF TurnTypes
  <2>3. CASE place' = "summarizing" /\ UNCHANGED <<outcome, attempt, toolsOffered, progress>>
    BY <1>0, <2>1, <2>3 DEF TurnTypes, Place
  <2>4. QED
    BY <1>1, <2>2, <2>3 DEF Compact
<1>2. ASSUME NEW l \in Level, level' = l, GiveUp,
             UNCHANGED <<streak, irreducible>> \/ MarkFailure(TRUE)
      PROVE  TurnTypes'
  BY <1>2, StreakType, ProceedType DEF TurnTypes
<1>3. QED
  BY <1>1, <1>2 DEF Measure

LEMMA RespondType ==
  ASSUME TypeOK, NEW maybeTools, Respond(maybeTools)
  PROVE  /\ place' \in Place /\ outcome' \in Outcome /\ depth' \in Nat
         /\ progress' \in ProgressType
<1>0. progress \in ProgressType /\ place \in Place /\ outcome \in Outcome /\ depth \in Nat
  BY TypesOfTurn DEF TurnTypes, TypeOK
<1>1. CASE \E n \in 1 .. MaxBatch : CallTools(n)
  BY <1>0, <1>1 DEF CallTools, Place
<1>2. ASSUME NEW which \in InvalidCalls, Refuse(which)
      PROVE  /\ place' \in Place /\ outcome' \in Outcome /\ depth' \in Nat
             /\ progress' \in ProgressType
  <2>1. progress' \in ProgressType
    <3>1. CASE progress.invalid < MaxInvalid(which)
      <4>1. progress.invalid < 2
        <5>1. progress.invalid \in 0 .. 2
          BY <1>0, ProgressTypes
        <5>2. QED
          BY <3>1, <5>1 DEF MaxInvalid
      <4>2. [progress EXCEPT !.invalid = @ + 1, !.noTools = @ \/ (which = "pseudo")] \in ProgressType
        <5>1. (which = "pseudo") \in BOOLEAN
          OBVIOUS
        <5>2. QED
          BY <1>0, <4>1, <5>1, ProgressTypes
      <4>3. QED
        BY <1>2, <3>1, <4>2 DEF Refuse
    <3>2. CASE ~ (progress.invalid < MaxInvalid(which))
      BY <1>0, <1>2, <3>2 DEF Refuse
    <3>3. QED
      BY <3>1, <3>2
  <2>2. QED
    BY <1>0, <1>2, <2>1 DEF Refuse, AnotherRound, Close, Place, Outcome
<1>3. ASSUME NEW text \in Candidate, Judge(text)
      PROVE  /\ place' \in Place /\ outcome' \in Outcome /\ depth' \in Nat
             /\ progress' \in ProgressType
  <2>1. progress' \in ProgressType
    BY <1>0, <1>3, ProgressTypes DEF Judge
  <2>2. QED
    BY <1>0, <1>3, <2>1 DEF Judge, AnotherRound, Close, Place, Outcome
<1>4. QED
  BY <1>1, <1>2, <1>3 DEF Respond

LEMMA AskTypes ==
  ASSUME TypeOK, Asks
  PROVE  /\ TurnTypes' /\ rounds' \in 0 .. MaxToolDepth /\ depth' \in Nat
         /\ checkpointVars' = checkpointVars \/ (active' = TRUE /\ boundary' = BoundaryAfter)
<1>0. TurnTypes /\ rounds \in 0 .. MaxToolDepth /\ depth \in Nat
  BY TypesOfTurn DEF TypeOK
<1>1. CASE Round \/ Finalize
  BY <1>0, <1>1, MeasureType, ConstantsAssumption DEF Round, Finalize
<1>2. CASE Exhaust
  BY <1>0, <1>2 DEF Exhaust, compactionVars, taskVars, TurnTypes, Place, Outcome
<1>3. CASE Summarized \/ NotSummarized
  <2>1. /\ level' \in Level /\ UNCHANGED <<rounds, depth>>
        /\ \/ Reset \/ \E hopeless \in BOOLEAN : MarkFailure(hopeless)
        /\ Proceed \/ GiveUp
        /\ checkpointVars' = checkpointVars \/ (active' = TRUE /\ boundary' = BoundaryAfter)
    BY <1>0, <1>3 DEF Summarized, NotSummarized, TurnTypes
  <2>2. QED
    BY <1>0, <2>1, ProceedType, StreakType DEF TurnTypes
<1>5. CASE Answered \/ FallenBack
  <2>1. /\ UNCHANGED <<checkpointVars, compactionVars, rounds, attempt, toolsOffered>>
        /\ \/ \E b \in BOOLEAN : Respond(b)
           \/ Close(messages, "providerError") /\ UNCHANGED <<progress, depth>>
    BY <1>0, <1>5 DEF Answered, FallenBack, TurnTypes
  <2>2. place' \in Place /\ outcome' \in Outcome /\ depth' \in Nat /\ progress' \in ProgressType
    BY <1>0, <2>1, RespondType DEF Close, Place, Outcome, TurnTypes
  <2>3. QED
    BY <1>0, <2>1, <2>2 DEF compactionVars, TurnTypes
<1>6. CASE Failed
  <2>1. attempt' \in 1 .. MaxAttempts
    BY <1>0, <1>6, ConstantsAssumption DEF Failed, Retries, TurnTypes
  <2>2. QED
    BY <1>0, <1>6, <2>1 DEF Failed, compactionVars, Close, TurnTypes, Place, Outcome
<1>7. CASE Judged \/ FinallyAnswered
  BY <1>0, <1>7
     DEF Judged, FinallyAnswered, compactionVars, taskVars, Close, AnotherRound, TurnTypes, Place, Outcome
<1>8. QED
  BY <1>1, <1>2, <1>3, <1>5, <1>6, <1>7 DEF Asks

LEMMA ArchivedIs ==
  ASSUME TypeOK
  PROVE  /\ Archived \in Nat /\ Archived <= Len(messages) /\ Len(messages) \in Nat
         /\ NextCut \in Archived .. Len(messages)
         /\ BoundaryAfter = NextCut
         /\ NextCut # Archived => CutIsBetween(messages, NextCut)
<1>1. /\ Archived \in Nat /\ Archived <= Len(messages) /\ Len(messages) \in Nat
      /\ messages \in Seq(Message)
  BY DEF TypeOK, Archived, ArchivedCount
<1>2. NextCut \in Archived .. Len(messages) /\ (NextCut # Archived => CutIsBetween(messages, NextCut))
  BY <1>1, CutIsTidy DEF NextCut
<1>3. QED
  BY <1>1, <1>2 DEF BoundaryAfter

-----------------------------------------------------------------------------
(* What was said of a turn's calls and answers, once its transcript has    *)
(* grown.                                                                  *)

LEMMA AnswerStays ==
  ASSUME NEW ms \in Seq(Message), NEW new, Grows(ms, new), NEW i \in 1 .. Len(ms), NEW c,
         AnsweredAt(ms, i, c)
  PROVE  AnsweredAt(new, i, c)
<1>1. PICK k \in i + 1 .. Len(ms) :
        IsResult(ms[k]) /\ ms[k].group = ms[i].group /\ ms[k].calls = {c}
  BY DEF AnsweredAt
<1>2. k \in i + 1 .. Len(new) /\ new[k] = ms[k] /\ new[i] = ms[i]
  BY <1>1 DEF Grows
<1>3. QED
  BY <1>1, <1>2 DEF AnsweredAt

LEMMA AllStayAnswered ==
  ASSUME NEW ms \in Seq(Message), NEW new, Grows(ms, new), NEW from \in Nat \ {0},
         NEW to \in Nat, to <= Len(ms), AllAnswered(ms, from, to)
  PROVE  AllAnswered(new, from, to)
<1>1. SUFFICES ASSUME NEW i \in from .. to, MakesCalls(new[i]), NEW c \in new[i].calls
               PROVE  AnsweredAt(new, i, c)
  BY DEF AllAnswered
<1>2. i \in 1 .. Len(ms) /\ new[i] = ms[i]
  BY DEF Grows
<1>3. AnsweredAt(ms, i, c)
  BY <1>1, <1>2 DEF AllAnswered
<1>4. QED
  BY <1>2, <1>3, AnswerStays

LEMMA GrownAnswered ==
  ASSUME NEW ms \in Seq(Message), NEW new, GrowsBy(ms, new, Spoken), NEW from \in Nat \ {0},
         AllAnswered(ms, from, Len(ms))
  PROVE  AllAnswered(new, from, Len(new))
<1>1. Grows(ms, new) /\ Len(ms) \in Nat /\ Len(new) \in Nat
  BY DEF GrowsBy, Grows
<1>2. AllAnswered(new, from, Len(ms))
  BY <1>1, AllStayAnswered
<1>3. \A i \in Len(ms) + 1 .. Len(new) : ~ MakesCalls(new[i])
  BY DEF GrowsBy, Spoken, MakesCalls
<1>4. \A i \in from .. Len(new) : i \in from .. Len(ms) \/ i \in Len(ms) + 1 .. Len(new)
  BY <1>1
<1>5. QED
  BY <1>2, <1>3, <1>4 DEF AllAnswered

(* The answers of the turn.                                                *)
TurnAnswers(ms, from) == {i \in from .. Len(ms) : i > 0 /\ ms[i].role = "answer"}

LEMMA NoteAnswers ==
  ASSUME NEW ms \in Seq(Message), NEW new, GrowsBy(ms, new, {"note"}), NEW from \in Nat,
         TurnAnswers(ms, from) = {}
  PROVE  TurnAnswers(new, from) = {}
<1>1. Len(ms) \in Nat /\ Len(new) \in Nat /\ Grows(ms, new)
  BY DEF GrowsBy, Grows
<1>2. SUFFICES ASSUME NEW i \in from .. Len(new), i > 0, new[i].role = "answer" PROVE FALSE
  BY DEF TurnAnswers
<1>3. i \in 1 .. Len(ms) \/ i \in Len(ms) + 1 .. Len(new)
  BY <1>1, <1>2
<1>4. CASE i \in 1 .. Len(ms)
  BY <1>1, <1>2, <1>4 DEF Grows, TurnAnswers
<1>5. CASE i \in Len(ms) + 1 .. Len(new)
  BY <1>2, <1>5 DEF GrowsBy
<1>6. QED
  BY <1>3, <1>4, <1>5

LEMMA OneAnswer ==
  ASSUME NEW ms \in Seq(Message), NEW from \in 1 .. Len(ms) + 1, TurnAnswers(ms, from) = {}
  PROVE  LET new == Append(ms, Plain("answer")) IN TurnAnswers(new, from) = {Len(new)}
<1> DEFINE new == Append(ms, Plain("answer"))
<1>1. /\ Grows(ms, new) /\ Len(new) = Len(ms) + 1 /\ new[Len(ms) + 1].role = "answer"
      /\ Len(ms) \in Nat
  BY PlainGrows DEF Spoken, GrowsBy, Plain
<1> HIDE DEF new
<1>2. Len(new) \in TurnAnswers(new, from)
  BY <1>1 DEF TurnAnswers
<1>3. ASSUME NEW i \in TurnAnswers(new, from) PROVE i = Len(new)
  <2>1. SUFFICES ASSUME i \in 1 .. Len(ms) PROVE FALSE
    BY <1>1 DEF TurnAnswers
  <2>2. i \in TurnAnswers(ms, from)
    BY <1>1, <2>1 DEF TurnAnswers, Grows
  <2>3. QED
    BY <2>2
<1>4. QED
  BY <1>2, <1>3 DEF new

LEMMA AnswersOnceIs ==
  AnswersOnce <=> /\ InTurn => TurnAnswers(messages, turnStart) = {}
                  /\ place = "closing" =>
                       TurnAnswers(messages, turnStart) =
                         IF outcome = "exhausted" THEN {} ELSE {Len(messages)}
BY DEF AnswersOnce, TurnAnswers

LEMMA AnswersOnceNext ==
  AnswersOnce' <=> /\ InTurn' => TurnAnswers(messages', turnStart') = {}
                   /\ place' = "closing" =>
                        TurnAnswers(messages', turnStart') =
                          IF outcome' = "exhausted" THEN {} ELSE {Len(messages')}
BY DEF AnswersOnce, TurnAnswers

-----------------------------------------------------------------------------
(* The invariant, step by step.                                            *)

LEMMA CutIs ==
  ASSUME TypeOK, TranscriptTidy
  PROVE  /\ Archived = IF active THEN boundary ELSE 0
         /\ Archived \in Nat
         /\ Tidy(messages, Archived)
         /\ Tidy(messages, NextCut) /\ NextCut \in Nat
<1>1. /\ Archived \in Nat /\ Archived <= Len(messages) /\ Len(messages) \in Nat
      /\ NextCut \in Archived .. Len(messages)
      /\ NextCut # Archived => CutIsBetween(messages, NextCut)
  BY ArchivedIs
<1>2. (IF active THEN boundary ELSE 0) <= Len(messages)
  BY DEF TranscriptTidy, Tidy, CutIsBetween
<1>3. Archived = IF active THEN boundary ELSE 0
  BY <1>1, <1>2 DEF TypeOK, Archived, ArchivedCount
<1>4. Tidy(messages, Archived)
  BY <1>3 DEF TranscriptTidy
<1>5. QED
  BY <1>1, <1>3, <1>4 DEF Tidy

(* A turn that goes on, or has answered, or ran out: the transcript and    *)
(* its answers.                                                            *)
LEMMA ShapeKeeps ==
  ASSUME IInv, InTurn, GoesOn \/ Closes \/ RunsOut, UNCHANGED turnStart,
         \/ UNCHANGED checkpointVars
         \/ active' = TRUE /\ boundary' = NextCut
  PROVE  /\ messages' \in Seq(Message) /\ TranscriptTidy' /\ AnswersOnce' /\ TurnBegan'
<1> USE DEF IInv
<1>1. /\ messages \in Seq(Message) /\ Len(messages) \in Nat /\ turnStart \in 1 .. Len(messages)
      /\ TurnAnswers(messages, turnStart) = {}
  BY AnswersOnceIs DEF TypeOK, TurnBegan
<1>2. PICK cut \in Nat : Tidy(messages, cut) /\ (IF active' THEN boundary' ELSE 0) = cut
  BY CutIs DEF checkpointVars
<1>3. CASE GoesOn \/ RunsOut
  <2>1. GrowsBy(messages, messages', {"note"})
    BY <1>1, <1>3, SameGrows DEF GoesOn, RunsOut
  <2>2. GrowsBy(messages, messages', Spoken)
    BY <2>1 DEF GrowsBy, Spoken
  <2>3. messages' \in Seq(Message) /\ Len(messages) <= Len(messages') /\ Len(messages') \in Nat
    BY <2>1 DEF GrowsBy, Grows
  <2>4. Tidy(messages', cut)
    BY <1>1, <1>2, <2>2, GrownTidy
  <2>5. TurnAnswers(messages', turnStart) = {}
    BY <1>1, <2>1, NoteAnswers
  <2>6. AnswersOnce'
    BY <1>3, <2>5, AnswersOnceNext DEF GoesOn, RunsOut, Working
  <2>7. QED
    BY <1>1, <1>2, <2>3, <2>4, <2>6 DEF TranscriptTidy, TurnBegan
<1>4. CASE Closes
  <2>1. PICK ms : GrowsBy(messages, ms, {"note"}) /\ messages' = Append(ms, Plain("answer"))
    BY <1>4 DEF Closes
  <2>2. ms \in Seq(Message) /\ Len(messages) <= Len(ms) /\ Len(ms) \in Nat
    BY <2>1 DEF GrowsBy, Grows
  <2>3. /\ GrowsBy(ms, messages', {"answer"}) /\ Len(messages') = Len(ms) + 1
        /\ messages' \in Seq(Message)
    BY <2>1, <2>2, PlainGrows DEF Spoken, GrowsBy, Grows
  <2>4. GrowsBy(messages, messages', {"note"} \cup {"answer"})
    BY <1>1, <2>1, <2>3, GrowsOn
  <2>5. GrowsBy(messages, messages', Spoken)
    BY <2>4 DEF GrowsBy, Spoken
  <2>6. Tidy(messages', cut)
    BY <1>1, <1>2, <2>5, GrownTidy
  <2>7. TurnAnswers(ms, turnStart) = {}
    BY <1>1, <2>1, NoteAnswers
  <2>8. TurnAnswers(messages', turnStart) = {Len(messages')}
    BY <1>1, <2>1, <2>2, <2>7, OneAnswer
  <2>9. AnswersOnce'
    BY <1>4, <2>8, AnswersOnceNext DEF Closes, InTurn
  <2>10. QED
    BY <1>1, <1>2, <2>2, <2>3, <2>6, <2>9 DEF TranscriptTidy, TurnBegan
<1>5. QED
  BY <1>3, <1>4

(* A request of the turn: calls, a note, or the last message.              *)
LEMMA AskIInv ==
  ASSUME IInv, Asks
  PROVE  IInv'
<1> USE DEF IInv
<1>1. /\ place \in Working /\ InTurn /\ ~ InBatch /\ UNCHANGED <<turnStart, turns, finalizing>>
      /\ \/ /\ GoesOn /\ UNCHANGED batchVars
            /\ place' \in {"asking", "fallback", "judging"} => ~ finalizing
         \/ (Closes \/ RunsOut) /\ UNCHANGED batchVars
         \/ place \in {"asking", "fallback"} /\ \E n \in 1 .. MaxBatch : Calls(n) /\ UNCHANGED result
  BY AskShape DEF FinalizesApart, Working, InTurn, InBatch
<1>2. /\ TurnTypes' /\ rounds' \in 0 .. MaxToolDepth /\ depth' \in Nat
      /\ checkpointVars' = checkpointVars \/ (active' = TRUE /\ boundary' = NextCut)
      /\ NextCut \in Nat
  <2>1. BoundaryAfter = NextCut /\ NextCut \in Nat
    BY ArchivedIs
  <2>2. QED
    BY <2>1, AskTypes
<1>3. boundary' \in Nat /\ active' \in BOOLEAN
  BY <1>2 DEF TypeOK, checkpointVars
<1>4. /\ messages \in Seq(Message) /\ Len(messages) \in Nat /\ turnStart \in 1 .. Len(messages)
      /\ ~ finalizing => AllAnswered(messages, turnStart, Len(messages))
  BY <1>1 DEF TypeOK, TurnBegan, CallsAreAnswered
<1>5. CASE (GoesOn \/ Closes \/ RunsOut) /\ UNCHANGED batchVars
  <2>1. messages' \in Seq(Message) /\ TranscriptTidy' /\ AnswersOnce' /\ TurnBegan'
    BY <1>1, <1>2, <1>5, ShapeKeeps
  <2>2. TypeOK'
    BY <1>1, <1>2, <1>3, <1>5, <2>1 DEF TypeOK, TurnTypes, ProgressType, batchVars
  <2>3. FinalizesApart'
    BY <1>1, <1>5 DEF FinalizesApart, Closes, RunsOut, Calls, GoesOn, Working
  <2>4. CallsAreAnswered'
    BY <1>1, <1>4, <1>5, GrownAnswered DEF CallsAreAnswered, GoesOn, Closes, RunsOut, InTurn, GrowsBy, Spoken
  <2>5. ~ InBatch'
    BY <1>5 DEF InBatch, GoesOn, Working, Closes, RunsOut
  <2>6. QED
    BY <2>1, <2>2, <2>3, <2>4, <2>5 DEF BatchInv
<1>6. CASE place \in {"asking", "fallback"} /\ \E n \in 1 .. MaxBatch : Calls(n) /\ UNCHANGED result
  <2>1. PICK n \in 1 .. MaxBatch : Calls(n) /\ UNCHANGED result
    BY <1>6
  <2>0. PICK b \in Nat : b = Len(messages) + 1
    BY <1>4
  <2>2. ~ finalizing
    BY <1>6 DEF FinalizesApart
  <2>3. PICK cut \in Nat : Tidy(messages, cut) /\ (IF active' THEN boundary' ELSE 0) = cut
    BY <1>2, CutIs DEF checkpointVars
  <2>4. /\ messages' = Append(messages, CallsMessage(b, n)) /\ n \in Nat
        /\ CallsMessage(b, n) \in Message
    BY <1>4, <2>0, <2>1, MessageTypes, ConstantsAssumption DEF Calls
  <2>5. /\ Grows(messages, messages') /\ messages' \in Seq(Message)
        /\ Len(messages') = b /\ messages'[b] = CallsMessage(b, n)
    BY <1>4, <2>0, <2>4, AppendGrows DEF Grows
  <2>6. TypeOK'
    BY <1>1, <1>2, <1>3, <2>1, <2>5, ConstantsAssumption
       DEF TypeOK, TurnTypes, ProgressType, Calls
  <2>7. TranscriptTidy'
    BY <1>4, <2>0, <2>3, <2>4, CallsTidy DEF TranscriptTidy
  <2>8. TurnBegan' /\ FinalizesApart' /\ CallsAreAnswered'
    BY <1>1, <1>4, <2>1, <2>0, <2>2, <2>5 DEF TurnBegan, FinalizesApart, CallsAreAnswered, Calls, InBatch
  <2>9. AnswersOnce'
    <3>1. TurnAnswers(messages, turnStart) = {}
      BY <1>1, AnswersOnceIs
    <3>2. TurnAnswers(messages', turnStart) = {}
      BY <1>4, <2>0, <2>5, <3>1 DEF TurnAnswers, Grows, CallsMessage
    <3>3. QED
      BY <1>1, <2>1, <3>2, AnswersOnceNext DEF Calls
  <2>10. BatchIsLast(b)'
    BY <2>0, <2>1, <2>5 DEF BatchIsLast, Calls, CallsMessage
  <2>11. BatchGoesOn(b)'
    <3>1. AllAnswered(messages', turnStart, b - 1)
      BY <1>4, <2>0, <2>2, <2>5, AllStayAnswered
    <3>2. UnbrokenFrom(messages', b, Len(messages'), b)
      BY <1>4, <2>5 DEF UnbrokenFrom, CallsMessage
    <3>3. (IF active' THEN boundary' ELSE 0) <= Len(messages)
      BY <2>3 DEF Tidy, CutIsBetween
    <3>4. QED
      BY <1>1, <1>4, <2>0, <2>1, <2>3, <2>5, <3>1, <3>2, <3>3 DEF BatchGoesOn, Calls
  <2>12. BatchInv'
    <3>1. b \in turnStart' .. Len(messages') /\ next' \in 1 .. batch'
      BY <1>1, <1>4, <2>0, <2>1, <2>5 DEF Calls
    <3>2. QED
      BY <2>10, <2>11, <3>1 DEF BatchInv
  <2>13. QED
    BY <2>6, <2>7, <2>8, <2>9, <2>12
<1>7. QED
  BY <1>1, <1>5, <1>6

(* The batch of a result is the last one.                                  *)
LEMMA BatchGroupIs ==
  ASSUME TypeOK, NEW b \in 1 .. Len(messages), BatchIsLast(b), next \in 1 .. batch
  PROVE  BatchGroup = b /\ MakesCalls(messages[b])
<1> DEFINE calls == {i \in DOMAIN messages : MakesCalls(messages[i])}
           last == CHOOSE i \in calls : \A j \in calls : j <= i
<1>1. messages \in Seq(Message) /\ Len(messages) \in Nat /\ DOMAIN messages = 1 .. Len(messages)
  BY DEF TypeOK
<1>2. MakesCalls(messages[b])
  BY DEF BatchIsLast, MakesCalls, TypeOK
<1>3. \A j \in calls : j <= b
  BY <1>1 DEF BatchIsLast
<1>4. b \in calls
  BY <1>1, <1>2
<1>5. last \in calls /\ \A j \in calls : j <= last
  BY <1>3, <1>4
<1>6. last = b
  BY <1>1, <1>3, <1>4, <1>5
<1>7. BatchGroup = messages[last].group
  BY DEF BatchGroup
<1>8. QED
  BY <1>2, <1>6, <1>7 DEF BatchIsLast

(* A call has ended: its result is the transcript's last message.          *)
LEMMA ToolEndsIInv ==
  ASSUME IInv, ToolEnds
  PROVE  IInv'
<1> USE DEF IInv
<1>1. /\ place = "tool" /\ place' = "reporting"
      /\ UNCHANGED <<checkpointVars, batch, next, finalizing, turnStart>>
  BY DEF ToolEnds
<1>2. InTurn /\ InBatch /\ ~ finalizing
  BY <1>1 DEF InTurn, InBatch, FinalizesApart
<1>3. /\ messages \in Seq(Message) /\ Len(messages) \in Nat
      /\ turnStart \in 1 .. Len(messages) /\ next \in 1 .. batch /\ batch \in Nat
  BY <1>2 DEF TypeOK, TurnBegan, BatchInv
<1>4. PICK b \in turnStart .. Len(messages) : BatchIsLast(b) /\ BatchGoesOn(b)
  BY <1>2 DEF BatchInv
<1>5. b \in 1 .. Len(messages) /\ b \in Nat
  BY <1>3
<1>6. BatchGroup = b /\ MakesCalls(messages[b])
  BY <1>3, <1>4, <1>5, BatchGroupIs
<1>7. PICK r \in Result : /\ result' = r /\ progress' = Recorded(progress, r)
                          /\ messages' = Append(messages, ResultMessage(b, next, r \in Succeeded))
  BY <1>6 DEF ToolEnds
<1>8. PICK m \in Message : m = ResultMessage(b, next, r \in Succeeded)
  <2>1. (r \in Succeeded) \in BOOLEAN /\ b \in Nat /\ next \in Nat
    BY <1>3, <1>5
  <2>2. QED
    BY <2>1, MessageTypes
<1>9. IsResult(m) /\ m.role = "result" /\ m.group = b /\ m.calls = {next} /\ m.ok = (r \in Succeeded)
  BY <1>8 DEF ResultMessage, IsResult
<1>10. PICK n \in Nat : n = Len(messages) + 1
  BY <1>3
<1>11. /\ Grows(messages, messages') /\ messages' \in Seq(Message)
       /\ Len(messages') = n /\ messages'[n] = m
  BY <1>3, <1>7, <1>8, <1>10, AppendGrows DEF Grows
<1>12. \A i \in 1 .. n : i \in 1 .. Len(messages) \/ i = n
  BY <1>3, <1>10
<1>13. TypeOK'
  <2>1. progress' \in ProgressType
    BY <1>7, ProgressTypes DEF TypeOK, ProgressType
  <2>2. QED
    BY <1>1, <1>7, <1>11, <2>1
       DEF ToolEnds, TypeOK, ProgressType, Place, checkpointVars, compactionVars
<1>14. TranscriptTidy'
  <2>1. PICK cut \in Nat : cut = (IF active THEN boundary ELSE 0)
    BY DEF TypeOK
  <2>2. Tidy(messages, cut) /\ cut < b
    BY <1>4, <1>5, <2>1 DEF TranscriptTidy, BatchGoesOn
  <2>3. Answers(m, messages[b])
    BY <1>3, <1>4, <1>6, <1>9 DEF Answers, BatchIsLast
  <2>4. FailedBefore(messages, Len(messages) + 1, b) \/ UnbrokenFrom(messages, b, Len(messages), b)
    BY <1>4 DEF BatchGoesOn
  <2>5. (\E c \in m.calls : m.calls = {c}) /\ \A i \in b + 1 .. Len(messages) : ~ MakesCalls(messages[i])
    BY <1>4, <1>9 DEF BatchIsLast
  <2>6. Tidy(Append(messages, m), cut)
    BY <1>3, <1>5, <1>9, <2>2, <2>3, <2>4, <2>5, ResultTidy
  <2>7. QED
    BY <1>1, <1>7, <1>8, <2>1, <2>6 DEF TranscriptTidy, checkpointVars
<1>15. TurnBegan' /\ FinalizesApart' /\ CallsAreAnswered'
  BY <1>1, <1>2, <1>3, <1>10, <1>11 DEF TurnBegan, FinalizesApart, CallsAreAnswered, InBatch
<1>16. AnswersOnce'
  <2>1. TurnAnswers(messages, turnStart) = {}
    BY <1>2, AnswersOnceIs
  <2>2. TurnAnswers(messages', turnStart) = {}
    BY <1>3, <1>9, <1>11, <1>12, <2>1 DEF TurnAnswers, Grows
  <2>3. QED
    BY <1>1, <2>2, AnswersOnceNext
<1>17. BatchIsLast(b)'
  BY <1>1, <1>3, <1>4, <1>5, <1>9, <1>10, <1>11, <1>12 DEF BatchIsLast, Grows, MakesCalls
<1>18. BatchGoesOn(b)'
  <2>1. AllAnswered(messages', turnStart, b - 1)
    BY <1>3, <1>4, <1>5, <1>11, AllStayAnswered DEF BatchGoesOn
  <2>2. ASSUME NEW c \in 1 .. next PROVE AnsweredAt(messages', b, c)
    <3>1. CASE c = next
      <4>1. n \in b + 1 .. Len(messages') /\ messages'[b].group = b
        BY <1>3, <1>4, <1>5, <1>10, <1>11 DEF BatchIsLast, Grows
      <4>2. QED
        BY <1>9, <1>11, <3>1, <4>1 DEF AnsweredAt
    <3>2. CASE c # next
      <4>1. AnsweredAt(messages, b, c)
        BY <1>1, <1>3, <1>4, <3>2 DEF BatchGoesOn
      <4>2. QED
        BY <1>3, <1>5, <1>11, <4>1, AnswerStays
    <3>3. QED
      BY <3>1, <3>2
  <2>3. \/ FailedBefore(messages', n + 1, b)
        \/ UnbrokenFrom(messages', b, n, b) /\ r \in Succeeded
    <3>1. CASE r \notin Succeeded
      <4>0. m.ok = FALSE
        <5>1. (r \in Succeeded) = FALSE
          BY <3>1
        <5>2. m.ok = (r \in Succeeded)
          BY <1>9
        <5> DEFINE succeeded == r \in Succeeded
        <5> HIDE DEF succeeded
        <5>3. m.ok = succeeded /\ succeeded = FALSE
          BY <5>1, <5>2 DEF succeeded
        <5>4. QED
          BY <5>3
      <4>1. ~ m.ok /\ n \in 1 .. n + 1 - 1
        BY <1>3, <1>10, <4>0
      <4>2. IsResult(messages'[n]) /\ messages'[n].group = b /\ ~ messages'[n].ok
        BY <1>9, <1>11, <4>1
      <4>3. QED
        BY <4>1, <4>2 DEF FailedBefore
    <3>2. CASE FailedBefore(messages, Len(messages) + 1, b)
      BY <1>3, <1>10, <1>11, <3>2, FailedStays
    <3>3. CASE UnbrokenFrom(messages, b, Len(messages), b) /\ r \in Succeeded
      BY <1>3, <1>5, <1>9, <1>10, <1>11, <3>3 DEF UnbrokenFrom, Grows
    <3>4. QED
      BY <1>4, <3>1, <3>2, <3>3 DEF BatchGoesOn
  <2>4. QED
    BY <1>1, <1>4, <1>7, <1>11, <2>1, <2>2, <2>3 DEF BatchGoesOn, checkpointVars
<1>19. BatchInv'
  BY <1>1, <1>3, <1>10, <1>11, <1>17, <1>18 DEF BatchInv
<1>20. QED
  BY <1>13, <1>14, <1>15, <1>16, <1>19

LEMMA FollowTypes ==
  ASSUME TypeOK, Follow, messages' \in Seq(Message), next' \in 0 .. batch
  PROVE  TypeOK'
<1>1. /\ UNCHANGED <<boundary, active, streak, irreducible, level, rounds, attempt, toolsOffered,
                     progress, batch, result, turnStart, turns>>
      /\ depth' \in {depth, depth + 1}
      /\ UNCHANGED finalizing \/ finalizing' = TRUE \/ finalizing' = (depth >= MaxToolDepth)
      /\ place' \in {"closing", "tool", "round"}
      /\ outcome' \in {outcome, "awaiting", "answered"}
  BY DEF Follow, Continue, Close, checkpointVars, compactionVars
<1>2. depth' \in Nat /\ finalizing' \in BOOLEAN
  <2>1. depth \in Nat /\ finalizing \in BOOLEAN /\ (depth >= MaxToolDepth) \in BOOLEAN
    BY DEF TypeOK
  <2>2. depth' \in Nat
    BY <1>1, <2>1
  <2>3. finalizing' \in BOOLEAN
    BY <1>1, <2>1, Zenon
  <2>4. QED
    BY <2>2, <2>3
<1>3. place' \in Place /\ outcome' \in Outcome
  BY <1>1 DEF TypeOK, Place, Outcome
<1>4. QED
  BY <1>1, <1>2, <1>3 DEF TypeOK

(* The batch is done, or cut short: a call's result is followed by the     *)
(* next call, the next round, or the turn's last message.                  *)
LEMMA FollowIInv ==
  ASSUME IInv, Follow
  PROVE  IInv'
<1> USE DEF IInv
<1>1. /\ place = "reporting" /\ InTurn /\ InBatch /\ ~ finalizing
      /\ UNCHANGED <<turnStart, batch, checkpointVars, result>>
  BY FollowShape DEF Follow, InTurn, InBatch, FinalizesApart
<1>2. /\ messages \in Seq(Message) /\ Len(messages) \in Nat
      /\ turnStart \in 1 .. Len(messages) /\ next \in 1 .. batch /\ batch \in Nat
      /\ TurnAnswers(messages, turnStart) = {}
  BY <1>1, AnswersOnceIs DEF TypeOK, TurnBegan, BatchInv
<1>3. PICK b \in turnStart .. Len(messages) : BatchIsLast(b) /\ BatchGoesOn(b)
  BY <1>1 DEF BatchInv
<1>4. b \in 1 .. Len(messages) /\ b \in Nat
  BY <1>2
<1>5. CASE /\ place' = "tool" /\ next < batch /\ next' = next + 1 /\ UNCHANGED finalizing
           /\ \/ result \in Succeeded /\ UNCHANGED messages
              \/ result \notin Succeeded /\ GrowsBy(messages, messages', {"note"})
  <2>1. GrowsBy(messages, messages', {"note"})
    BY <1>2, <1>5, SameGrows
  <2>2. /\ Grows(messages, messages') /\ GrowsBy(messages, messages', Spoken)
        /\ messages' \in Seq(Message) /\ Len(messages') \in Nat /\ Len(messages) <= Len(messages')
    BY <2>1 DEF GrowsBy, Grows, Spoken
  <2>3. TypeOK'
    BY <1>2, <1>5, <2>2, FollowTypes
  <2>4. TranscriptTidy'
    BY <1>1, <1>2, <2>2, GrownTidy DEF TranscriptTidy, checkpointVars, TypeOK
  <2>5. AnswersOnce'
    <3>1. TurnAnswers(messages', turnStart) = {}
      BY <1>2, <2>1, NoteAnswers
    <3>2. QED
      BY <1>1, <1>5, <3>1, AnswersOnceNext
  <2>6. TurnBegan' /\ FinalizesApart' /\ CallsAreAnswered'
    BY <1>1, <1>2, <1>5, <2>2 DEF TurnBegan, FinalizesApart, CallsAreAnswered, InBatch
  <2>7. BatchIsLast(b)'
    <3>1. \A i \in Len(messages) + 1 .. Len(messages') : ~ MakesCalls(messages'[i])
      BY <2>1 DEF GrowsBy, MakesCalls
    <3>2. \A i \in b + 1 .. Len(messages) : ~ MakesCalls(messages'[i])
      BY <1>2, <1>3, <1>4, <2>2 DEF BatchIsLast, Grows
    <3>3. \A i \in b + 1 .. Len(messages') :
            i \in b + 1 .. Len(messages) \/ i \in Len(messages) + 1 .. Len(messages')
      BY <1>2, <1>4, <2>2
    <3>4. messages'[b] = messages[b]
      BY <1>4, <2>2 DEF Grows
    <3>5. QED
      BY <1>1, <1>3, <3>1, <3>2, <3>3, <3>4 DEF BatchIsLast
  <2>8. BatchGoesOn(b)'
    <3>1. AllAnswered(messages', turnStart, b - 1)
      BY <1>2, <1>3, <1>4, <2>2, AllStayAnswered DEF BatchGoesOn
    <3>2. ASSUME NEW c \in 1 .. next PROVE AnsweredAt(messages', b, c)
      BY <1>1, <1>2, <1>3, <1>4, <2>2, AnswerStays DEF BatchGoesOn
    <3>3. ASSUME FailedBefore(messages, Len(messages) + 1, b)
          PROVE  FailedBefore(messages', Len(messages') + 1, b)
      <4>1. Len(messages) + 1 \in 1 .. Len(messages) + 1
        BY <1>2
      <4>2. QED
        BY <1>2, <2>2, <3>3, <4>1, FailedStays
    <3>4. \/ FailedBefore(messages', Len(messages') + 1, b)
          \/ UnbrokenFrom(messages', b, Len(messages'), b)
      BY <1>1, <1>3, <1>5, <3>3 DEF BatchGoesOn
    <3>5. \A c \in 1 .. next' - 1 : AnsweredAt(messages', b, c)
      BY <1>2, <1>5, <3>2
    <3>6. QED
      BY <1>1, <1>3, <1>5, <3>1, <3>4, <3>5 DEF BatchGoesOn, checkpointVars
  <2>9. BatchInv'
    <3>1. b \in turnStart' .. Len(messages') /\ next' \in 1 .. batch'
      BY <1>1, <1>2, <1>5, <2>2
    <3>2. QED
      BY <2>7, <2>8, <3>1 DEF BatchInv
  <2>10. QED
    BY <2>3, <2>4, <2>5, <2>6, <2>9
<1>6. CASE GoesOn /\ place' = "round" /\ UNCHANGED next /\ (finalizing' \/ next = batch)
  <2>1. messages' \in Seq(Message) /\ TranscriptTidy' /\ AnswersOnce' /\ TurnBegan'
    BY <1>1, <1>6, ShapeKeeps
  <2>2. TypeOK'
    BY <1>2, <1>6, <2>1, FollowTypes
  <2>3. FinalizesApart' /\ BatchInv'
    BY <1>6 DEF FinalizesApart, BatchInv, InBatch
  <2>4. ASSUME ~ finalizing' PROVE AllAnswered(messages', turnStart, Len(messages'))
    <3>1. next = batch
      BY <1>6, <2>4
    <3>2. \A c \in messages[b].calls : AnsweredAt(messages, b, c)
      BY <1>1, <1>3, <3>1 DEF BatchGoesOn, BatchIsLast
    <3>3. AllAnswered(messages, turnStart, Len(messages))
      <4>1. SUFFICES ASSUME NEW i \in turnStart .. Len(messages), MakesCalls(messages[i]),
                            NEW c \in messages[i].calls
                     PROVE  AnsweredAt(messages, i, c)
        BY DEF AllAnswered
      <4>2. i \in turnStart .. b - 1 \/ i = b \/ i \in b + 1 .. Len(messages)
        BY <1>2, <1>4
      <4>3. CASE i \in turnStart .. b - 1
        BY <1>3, <4>1, <4>3 DEF BatchGoesOn, AllAnswered
      <4>4. QED
        BY <1>3, <3>2, <4>1, <4>2, <4>3 DEF BatchIsLast
    <3>4. GrowsBy(messages, messages', Spoken)
      BY <1>6 DEF GoesOn, GrowsBy, Spoken
    <3>5. QED
      BY <1>2, <3>3, <3>4, GrownAnswered
  <2>5. CallsAreAnswered'
    BY <1>1, <2>4 DEF CallsAreAnswered
  <2>6. QED
    BY <2>1, <2>2, <2>3, <2>5
<1>7. CASE Closes /\ UNCHANGED next
  <2>1. messages' \in Seq(Message) /\ TranscriptTidy' /\ AnswersOnce' /\ TurnBegan'
    BY <1>1, <1>7, ShapeKeeps
  <2>2. TypeOK'
    BY <1>2, <1>7, <2>1, FollowTypes
  <2>3. FinalizesApart' /\ BatchInv' /\ CallsAreAnswered'
    BY <1>7 DEF FinalizesApart, BatchInv, InBatch, CallsAreAnswered, InTurn, Closes
  <2>4. QED
    BY <2>1, <2>2, <2>3
<1>8. QED
  BY <1>5, <1>6, <1>7, FollowShape

LEMMA FreshTypes ==
  ASSUME FreshTask
  PROVE  /\ rounds' \in 0 .. MaxToolDepth /\ depth' \in Nat /\ attempt' \in 1 .. MaxAttempts
         /\ toolsOffered' \in BOOLEAN /\ progress' \in ProgressType /\ finalizing' = FALSE
         /\ batch' \in 0 .. MaxBatch /\ next' \in 0 .. batch' /\ result' \in Result
<1>1. Fresh \in ProgressType
  BY DEF Fresh, ProgressType, MaxRecovery, MaxFinalization
<1>2. /\ 0 \in 0 .. MaxToolDepth /\ 1 \in 1 .. MaxAttempts /\ 0 \in 0 .. MaxBatch
      /\ 0 \in 0 .. 0 /\ 0 \in Nat
  BY ConstantsAssumption
<1>3. QED
  BY <1>1, <1>2 DEF FreshTask, Result

(* Between turns the invariant is about the transcript alone.              *)
LEMMA IdleIInv ==
  ASSUME place' = "idle", TypeOK', TranscriptTidy', turnStart' <= Len(messages') + 1
  PROVE  IInv'
<1>1. TurnBegan' /\ FinalizesApart' /\ CallsAreAnswered' /\ BatchInv'
  BY DEF TurnBegan, FinalizesApart, CallsAreAnswered, BatchInv, InTurn, InBatch
<1>2. AnswersOnce'
  BY AnswersOnceNext DEF InTurn
<1>3. QED
  BY <1>1, <1>2 DEF IInv

LEMMA BeginIInv ==
  ASSUME IInv, Begin
  PROVE  IInv'
<1> USE DEF IInv
<1>1. messages \in Seq(Message) /\ Len(messages) \in Nat
  BY DEF TypeOK
<1>2. /\ messages' = Append(messages, Plain("user")) /\ place' = "round" /\ FreshTask
      /\ turnStart' = Len(messages) + 1 /\ UNCHANGED checkpointVars
  BY DEF Begin
<1>3. /\ GrowsBy(messages, messages', {"user"}) /\ GrowsBy(messages, messages', Spoken)
      /\ Len(messages') = Len(messages) + 1 /\ messages'[Len(messages) + 1] = Plain("user")
      /\ messages' \in Seq(Message)
  BY <1>1, <1>2, PlainGrows DEF Spoken, GrowsBy, Grows
<1>4. TypeOK'
  <2>1. turns' \in 0 .. MaxTurns
    BY ConstantsAssumption DEF Begin, TypeOK
  <2>2. QED
    BY <1>1, <1>2, <1>3, <2>1, FreshTypes
       DEF Begin, TypeOK, ProgressType, Place, Outcome, checkpointVars, compactionVars
<1>5. TranscriptTidy'
  BY <1>1, <1>2, <1>3, GrownTidy DEF TranscriptTidy, checkpointVars, TypeOK
<1>6. TurnBegan' /\ FinalizesApart' /\ BatchInv'
  BY <1>1, <1>2, <1>3 DEF TurnBegan, FinalizesApart, BatchInv, InBatch
<1>7. CallsAreAnswered' /\ AnswersOnce'
  <2>1. \A i \in turnStart' .. Len(messages') : messages'[i] = Plain("user")
    BY <1>1, <1>2, <1>3
  <2>2. CallsAreAnswered'
    BY <2>1 DEF CallsAreAnswered, AllAnswered, MakesCalls, Plain
  <2>3. TurnAnswers(messages', turnStart') = {}
    BY <2>1 DEF TurnAnswers, Plain
  <2>4. QED
    BY <1>2, <2>2, <2>3, AnswersOnceNext
<1>8. QED
  BY <1>4, <1>5, <1>6, <1>7

LEMMA EndIInv ==
  ASSUME IInv, End \/ Stop
  PROVE  IInv'
<1> USE DEF IInv
<1>1. /\ place' = "idle" /\ FreshTask /\ UNCHANGED <<checkpointVars, compactionVars, turnStart, turns>>
      /\ outcome' \in {outcome, "stopped"}
      /\ messages' \in {messages, Note}
  BY DEF End, Stop
<1>2. messages \in Seq(Message) /\ Len(messages) \in Nat
  BY DEF TypeOK
<1>3. GrowsBy(messages, messages', {"note"})
  BY <1>1, <1>2, NoteGrows
<1>4. /\ GrowsBy(messages, messages', Spoken) /\ messages' \in Seq(Message)
      /\ Len(messages) <= Len(messages') /\ Len(messages') \in Nat
  BY <1>3 DEF GrowsBy, Grows, Spoken
<1>5. TypeOK'
  BY <1>1, <1>4, FreshTypes
     DEF TypeOK, ProgressType, Place, Outcome, checkpointVars, compactionVars
<1>6. TranscriptTidy'
  BY <1>1, <1>2, <1>4, GrownTidy DEF TranscriptTidy, checkpointVars, TypeOK
<1>7. turnStart' <= Len(messages') + 1
  BY <1>1, <1>2, <1>4 DEF TypeOK, TurnBegan
<1>8. QED
  BY <1>1, <1>5, <1>6, <1>7, IdleIInv

LEMMA CompressIInv ==
  ASSUME IInv, Compress
  PROVE  IInv'
<1> USE DEF IInv
<1>1. NextCut \in Nat /\ BoundaryAfter = NextCut /\ Tidy(messages, NextCut)
  BY CutIs, ArchivedIs
<1>2. TypeOK'
  BY <1>1 DEF Compress, TypeOK, compactionVars, taskVars, batchVars
<1>3. TranscriptTidy'
  BY <1>1 DEF Compress, TranscriptTidy
<1>4. turnStart' <= Len(messages') + 1
  BY DEF Compress, TurnBegan
<1>5. QED
  BY <1>2, <1>3, <1>4, IdleIInv DEF Compress

LEMMA RestoreIInv ==
  ASSUME IInv, Restore
  PROVE  IInv'
<1> USE DEF IInv
<1>1. messages \in Seq(Message) /\ Len(messages) \in Nat /\ turnStart \in Nat
  BY DEF TypeOK
<1>2. messages' = <<Plain("restored")>> \o WithoutRestored(messages)
  BY DEF Restore
<1>3. messages' \in Seq(Message) /\ Len(messages') \in {Len(messages), Len(messages) + 1}
  <2>1. RestoredInFront(messages)
    BY DEF TranscriptTidy, Tidy
  <2>2. QED
    BY <1>1, <1>2, <2>1, RestoredIs
<1>4. turnStart' = turnStart + Len(messages') - Len(messages)
  BY DEF Restore
<1>5. turnStart' \in Nat /\ turnStart' <= Len(messages') + 1
  BY <1>1, <1>3, <1>4 DEF TurnBegan
<1>6. TypeOK'
  BY <1>3, <1>5 DEF Restore, TypeOK, compactionVars, taskVars, batchVars
<1>7. TranscriptTidy'
  BY <1>1, <1>2, RestoredTidy DEF Restore, TranscriptTidy
<1>8. QED
  BY <1>5, <1>6, <1>7, IdleIInv DEF Restore

LEMMA StutterIInv ==
  ASSUME IInv, UNCHANGED vars
  PROVE  IInv'
BY DEF vars, checkpointVars, compactionVars, taskVars, batchVars, IInv, TypeOK, TranscriptTidy,
       TurnBegan, FinalizesApart, CallsAreAnswered, BatchInv, BatchIsLast, BatchGoesOn,
       AnswersOnce, InTurn, InBatch

LEMMA InitIInv == Init => IInv
<1> SUFFICES ASSUME Init PROVE IInv
  OBVIOUS
<1>1. PICK session \in Earlier :
        /\ messages = session.messages
        /\ boundary = session.boundary /\ active = session.active
        /\ streak = session.streak /\ irreducible = session.irreducible
  BY DEF Init
<1>2. session \in Stored /\ Tidy(session.messages, InForce(session))
  BY ConstantsAssumption, EarlierAssumption
<1>3. /\ messages \in Seq(Message) /\ boundary \in Nat /\ active \in BOOLEAN
      /\ streak \in Nat /\ irreducible \in BOOLEAN /\ Len(messages) \in Nat
  BY <1>1, <1>2 DEF Stored
<1>4. TypeOK
  <2>1. Fresh \in ProgressType
    BY DEF Fresh, ProgressType, MaxRecovery, MaxFinalization
  <2>2. /\ level \in Level /\ place \in Place /\ outcome \in Outcome /\ result \in Result
        /\ rounds \in 0 .. MaxToolDepth /\ depth \in Nat /\ attempt \in 1 .. MaxAttempts
        /\ toolsOffered \in BOOLEAN /\ progress = Fresh /\ finalizing \in BOOLEAN
        /\ batch \in 0 .. MaxBatch /\ next \in 0 .. batch
        /\ turnStart \in Nat /\ turns \in 0 .. MaxTurns
    <3>1. /\ 0 \in 0 .. MaxToolDepth /\ 1 \in 1 .. MaxAttempts /\ 0 \in 0 .. MaxBatch
          /\ 0 \in 0 .. MaxTurns /\ 0 \in 0 .. 0 /\ 0 \in Nat
      BY ConstantsAssumption
    <3>2. /\ level = "low" /\ place = "idle" /\ outcome = "none" /\ result = "diagnostic"
          /\ rounds = 0 /\ depth = 0 /\ attempt = 1 /\ toolsOffered = FALSE /\ progress = Fresh
          /\ finalizing = FALSE /\ batch = 0 /\ next = 0 /\ turnStart = 0 /\ turns = 0
      BY DEF Init
    <3>3. QED
      BY <3>1, <3>2 DEF Level, Place, Outcome, Result
  <2>3. QED
    BY <1>3, <2>1, <2>2 DEF TypeOK, ProgressType
<1>5. TranscriptTidy
  BY <1>1, <1>2 DEF TranscriptTidy, InForce
<1>6. /\ TurnBegan /\ FinalizesApart /\ CallsAreAnswered /\ BatchInv
  BY <1>3 DEF Init, TurnBegan, FinalizesApart, CallsAreAnswered, BatchInv, InTurn, InBatch
<1>7. AnswersOnce
  BY AnswersOnceIs DEF Init, InTurn
<1>8. QED
  BY <1>4, <1>5, <1>6, <1>7 DEF IInv

LEMMA NextIInv == IInv /\ [Next]_vars => IInv'
<1> SUFFICES ASSUME IInv, [Next]_vars PROVE IInv'
  OBVIOUS
<1>1. CASE Asks
  BY <1>1, AskIInv
<1>2. CASE ToolEnds
  BY <1>2, ToolEndsIInv
<1>3. CASE Follow
  BY <1>3, FollowIInv
<1>4. CASE End \/ Stop
  BY <1>4, EndIInv
<1>5. CASE Begin
  BY <1>5, BeginIInv
<1>6. CASE Compress
  BY <1>6, CompressIInv
<1>7. CASE Restore
  BY <1>7, RestoreIInv
<1>8. CASE UNCHANGED vars
  BY <1>8, StutterIInv
<1>9. QED
  BY <1>1, <1>2, <1>3, <1>4, <1>5, <1>6, <1>7, <1>8 DEF Next, Step, Asks

(* What every turn leaves behind it, and what holds in the middle of one.  *)
THEOREM InvariantHolds == Spec => []IInv
BY InitIInv, NextIInv, PTL DEF Spec

(* Type correctness of the session, the turn and its task.                 *)
THEOREM TypeCorrect == Spec => []TypeOK
<1>1. IInv => TypeOK
  BY DEF IInv
<1>2. QED
  BY <1>1, InvariantHolds, PTL

(* What a session is assumed to be loaded as is what turns, compactions    *)
(* and restores leave it as, wherever they are stopped.                    *)
THEOREM TranscriptStaysTidy == Spec => []Tidy(messages, IF active THEN boundary ELSE 0)
<1>1. IInv => Tidy(messages, IF active THEN boundary ELSE 0)
  BY DEF IInv, TranscriptTidy
<1>2. QED
  BY <1>1, InvariantHolds, PTL

(* A turn that goes on has not answered, and one that has ended by itself  *)
(* has answered once and last, unless the loop ran out, for every depth of *)
(* the loop and every course of its requests, notes and tool calls.        *)
THEOREM TurnAnswersOnce == Spec => []AnswersOnce
<1>1. IInv => AnswersOnce
  BY DEF IInv
<1>2. QED
  BY <1>1, InvariantHolds, PTL

-----------------------------------------------------------------------------
(* Calls and results stay together.                                        *)

LEMMA OwnAnswered ==
  ASSUME IInv
  PROVE  OwnCallsAnswered
<1> USE DEF IInv
<1>1. SUFFICES ASSUME place \in {"asking", "fallback"},
                      NEW i \in turnStart .. Len(messages), MakesCalls(messages[i])
               PROVE  messages[i].calls =
                        UNION {messages[j].calls : j \in {k \in i + 1 .. Len(messages) :
                                                            Answers(messages[k], messages[i])}}
  BY DEF OwnCallsAnswered
<1>2. AllAnswered(messages, turnStart, Len(messages))
  BY <1>1 DEF FinalizesApart, CallsAreAnswered, InTurn, InBatch
<1>3. ASSUME NEW c \in messages[i].calls
      PROVE  \E k \in i + 1 .. Len(messages) :
               Answers(messages[k], messages[i]) /\ messages[k].calls = {c}
  <2>1. PICK k \in i + 1 .. Len(messages) :
          IsResult(messages[k]) /\ messages[k].group = messages[i].group /\ messages[k].calls = {c}
    BY <1>1, <1>2 DEF AllAnswered, AnsweredAt
  <2>2. Answers(messages[k], messages[i])
    BY <1>1, <1>3, <2>1 DEF Answers
  <2>3. QED
    BY <2>1, <2>2
<1>4. \A k \in i + 1 .. Len(messages) :
        Answers(messages[k], messages[i]) => messages[k].calls \subseteq messages[i].calls
  BY DEF Answers
<1> DEFINE Sum == UNION {messages[j].calls : j \in {k \in i + 1 .. Len(messages) :
                                                      Answers(messages[k], messages[i])}}
<1>5. messages[i].calls \subseteq Sum
  BY <1>3
<1>6. Sum \subseteq messages[i].calls
  BY <1>4
<1>7. QED
  BY <1>5, <1>6

(* The cut is behind the call and in front of its result, so it divides    *)
(* their group, unless a failed result has done that.                      *)
LEMMA OrphansFailed ==
  ASSUME IInv
  PROVE  OrphansBehindFailure
<1> USE DEF IInv
<1>1. /\ messages \in Seq(Message) /\ Len(messages) \in Nat /\ DOMAIN messages = 1 .. Len(messages)
      /\ Archived \in Nat /\ Tidy(messages, Archived)
  BY CutIs DEF TypeOK
<1>2. PICK cut \in Nat : cut = Archived
  BY <1>1
<1>3. SUFFICES ASSUME NEW j \in cut + 1 .. Len(messages), IsResult(messages[j]),
                      \A i \in cut + 1 .. j : ~ Answers(messages[j], messages[i])
               PROVE  FailedBefore(messages, j, messages[j].group)
  BY <1>2 DEF OrphansBehindFailure, FailedBefore
<1>4. SUFFICES ASSUME NEW b \in 1 .. j - 1, Answers(messages[j], messages[b]),
                      UnbrokenFrom(messages, b, j, messages[j].group)
               PROVE  FALSE
  BY <1>1, <1>2, <1>3 DEF Tidy, ResultsFollowCalls
<1>5. messages[j].group # 0
  BY <1>1, <1>2, <1>3 DEF Tidy, ResultsFollowCalls
<1>6. b <= cut /\ cut < j /\ j <= Len(messages) /\ 0 < cut
  <2>1. b \notin cut + 1 .. j
    BY <1>3, <1>4
  <2>2. QED
    BY <1>1, <2>1
<1>7. messages[cut].group = messages[j].group /\ messages[cut + 1].group = messages[j].group
  BY <1>4, <1>6 DEF UnbrokenFrom
<1>8. QED
  BY <1>1, <1>2, <1>5, <1>6, <1>7 DEF Tidy, CutIsBetween

(* In another round the provider is asked with a result for each call of   *)
(* the turn, and wherever compactions cut, a result without its call is    *)
(* behind a failed one of its batch: for every number of recent segments   *)
(* preserved, and for sessions of every history.                           *)
THEOREM PairsStayTogether == Spec => []PairsAreKept
<1>1. IInv => PairsAreKept
  BY OwnAnswered, OrphansFailed DEF PairsAreKept
<1>2. QED
  BY <1>1, InvariantHolds, PTL

-----------------------------------------------------------------------------
(* What a request is made of: the messages that are left, each once and in *)
(* their order.                                                            *)

Picks(ms, gone, n, out) ==
  \E at \in [1 .. Len(out) -> (1 .. n) \ gone] :
    /\ \A k \in 1 .. Len(out) : out[k] = ms[at[k]]
    /\ \A k, l \in 1 .. Len(out) : k < l => at[k] < at[l]
    /\ \A j \in (1 .. n) \ gone : \E k \in 1 .. Len(out) : at[k] = j

WithoutNext(s, i, ms, gone) == IF i \in gone THEN s ELSE Append(s, ms[i])

LEMMA WithoutWalk ==
  ASSUME NEW ms \in Seq(Message), NEW gone
  PROVE  \E acc : /\ acc \in [0 .. Len(ms) -> Seq(Message)] /\ acc[0] = << >>
                  /\ \A k \in 1 .. Len(ms) : acc[k] = WithoutNext(acc[k - 1], k, ms, gone)
                  /\ Without(ms, gone) = acc[Len(ms)]
<1> DEFINE n == Len(ms)
           D == 1 .. n
           S == Seq(Message)
           places == [i \in D |-> i]
           start == << >>
           walk(F, s) == IF s = {} THEN start
                         ELSE WithoutNext(F[s \ {Max(s)}], places[Max(s)], ms, gone)
           iter == CHOOSE F : F = [s \in SUBSET D |-> walk(F, s)]
           op == [x \in S \X D |-> WithoutNext(x[1], x[2], ms, gone)]
           acc == [k \in 0 .. n |-> iter[1 .. k]]
<1>1. n \in Nat /\ DOMAIN ms = D /\ places \in [D -> D] /\ DOMAIN places = D
  OBVIOUS
<1>2. op \in [S \X D -> S]
  <2>1. ASSUME NEW s \in S, NEW i \in D PROVE WithoutNext(s, i, ms, gone) \in S
    <3>1. ms[i] \in Message
      BY <1>1, ElementOfSeq
    <3>2. QED
      BY <3>1, AppendProperties DEF WithoutNext
  <2>2. \A x \in S \X D : WithoutNext(x[1], x[2], ms, gone) \in S
    BY <2>1
  <2>3. QED
    BY <2>2
<1>3. start \in S
  OBVIOUS
<1>4. PICK G : Folds(G, S, op, start, n, places)
  <2> HIDE DEF op, n, S, start, places
  <2>1. QED
    BY <1>1, <1>2, <1>3, FoldExists
<1> HIDE DEF S, start, places
<1>5. ASSUME NEW s \in SUBSET D PROVE G[s] = walk(G, s)
  <2>1. G[s] = (IF s = {} THEN start ELSE op[<<G[s \ {Max(s)}], places[Max(s)]>>])
        /\ G[s \ {Max(s)}] \in S
    <3> HIDE DEF op
    <3>1. s \ {Max(s)} \in SUBSET D
      OBVIOUS
    <3>2. QED
      BY <1>4, <3>1 DEF Folds
  <2>2. CASE s = {}
    BY <2>1, <2>2
  <2>3. CASE s # {}
    <3>1. places[Max(s)] \in D
      BY <1>1, <2>3, MaxOfBounded
    <3>2. op[<<G[s \ {Max(s)}], places[Max(s)]>>]
            = WithoutNext(G[s \ {Max(s)}], places[Max(s)], ms, gone)
      BY <2>1, <3>1
    <3> HIDE DEF op
    <3>3. QED
      BY <2>1, <2>3, <3>2
  <2>4. QED
    BY <2>2, <2>3
<1>6. G = [s \in SUBSET D |-> walk(G, s)]
  <2>1. G \in [SUBSET D -> S]
    BY <1>4 DEF Folds
  <2> HIDE DEF walk, D
  <2>2. QED
    BY <1>5, <2>1
<1>7. iter = [s \in SUBSET D |-> walk(iter, s)]
  <2> HIDE DEF walk, D
  <2>1. QED
    BY <1>6
<1>8. \A s \in SUBSET D : iter[s] = walk(iter, s)
  <2> HIDE DEF walk, D, iter
  <2>1. QED
    BY <1>7
<1>9. Without(ms, gone) = iter[D]
  BY <1>1 DEF Without, WithoutNext, FoldLeftDomain, FoldLeft, MapThenFoldSet, start, places
<1> HIDE DEF iter
<1>10. Runs(iter, S, op, start, n, places)
  <2>1. ASSUME NEW s \in SUBSET D, s # {}, iter[s \ {Max(s)}] \in S
        PROVE  iter[s] = op[<<iter[s \ {Max(s)}], places[Max(s)]>>]
    <3>1. places[Max(s)] \in D
      BY <1>1, <2>1, MaxOfBounded
    <3>2. iter[s] = WithoutNext(iter[s \ {Max(s)}], places[Max(s)], ms, gone)
      BY <1>8, <2>1
    <3>3. QED
      BY <2>1, <3>1, <3>2
  <2>2. iter[{}] = start
    BY <1>8
  <2> HIDE DEF op, walk
  <2>3. QED
    BY <2>1, <2>2 DEF Runs
<1>11. Walks(acc, S, op, start, n, places)
  <2>1. acc = [k \in 0 .. n |-> iter[1 .. k]]
    OBVIOUS
  <2> HIDE DEF acc, op, n
  <2>2. QED
    BY <1>1, <1>2, <1>3, <1>10, <2>1, FoldRun
<1>12. acc[n] = iter[D]
  BY <1>1
<1> HIDE DEF acc
<1>13. ASSUME NEW k \in 1 .. n PROVE acc[k] = WithoutNext(acc[k - 1], k, ms, gone)
  <2>1. acc[k] = op[<<acc[k - 1], places[k]>>] /\ acc[k - 1] \in S
    <3> HIDE DEF op
    <3>1. k - 1 \in 0 .. n
      BY <1>1
    <3>2. QED
      BY <1>11, <3>1 DEF Walks
  <2>2. places[k] = k /\ k \in D
    BY <1>1 DEF places
  <2>3. QED
    BY <2>1, <2>2
<1>14. acc \in [0 .. n -> S] /\ acc[0] = start
  <2> HIDE DEF op
  <2>1. QED
    BY <1>11 DEF Walks
<1>15. QED
  BY <1>9, <1>12, <1>13, <1>14 DEF S, start

LEMMA WithoutIs ==
  ASSUME NEW ms \in Seq(Message), NEW gone
  PROVE  /\ Without(ms, gone) \in Seq(Message)
         /\ Picks(ms, gone, Len(ms), Without(ms, gone))
<1> DEFINE n == Len(ms)
<1>1. PICK acc : /\ acc \in [0 .. n -> Seq(Message)] /\ acc[0] = << >>
                 /\ \A k \in 1 .. n : acc[k] = WithoutNext(acc[k - 1], k, ms, gone)
                 /\ Without(ms, gone) = acc[n]
  BY WithoutWalk
<1>2. n \in Nat
  OBVIOUS
<1> DEFINE good == {k \in 0 .. n : Picks(ms, gone, k, acc[k])}
<1>3. 0 \in good
  <2>1. Len(acc[0]) = 0 /\ 1 .. 0 = {}
    BY <1>1
  <2>2. \E at : at \in [1 .. Len(acc[0]) -> (1 .. 0) \ gone]
    <3>1. [k \in {} |-> k] \in [{} -> (1 .. 0) \ gone]
      OBVIOUS
    <3>2. QED
      BY <2>1, <3>1
  <2>3. Picks(ms, gone, 0, acc[0])
    BY <2>1, <2>2 DEF Picks
  <2>4. QED
    BY <1>2, <2>3
<1>4. ASSUME NEW k \in 0 .. n - 1, k \in good PROVE k + 1 \in good
  <2> DEFINE z == k + 1
             s == acc[k]
             t == acc[z]
             m == ms[z]
  <2>1. z \in 1 .. n /\ z \in 0 .. n /\ k \in 0 .. n /\ z - 1 = k
        /\ \A i \in 1 .. z : i \in 1 .. k \/ i = z
    BY <1>2
  <2>2. s \in Seq(Message) /\ t = WithoutNext(s, z, ms, gone) /\ m \in Message
    BY <1>1, <2>1, ElementOfSeq
  <2>3. PICK at \in [1 .. Len(s) -> (1 .. k) \ gone] :
          /\ \A i \in 1 .. Len(s) : s[i] = ms[at[i]]
          /\ \A i, l \in 1 .. Len(s) : i < l => at[i] < at[l]
          /\ \A j \in (1 .. k) \ gone : \E i \in 1 .. Len(s) : at[i] = j
    BY <1>4 DEF Picks
  <2>4. Len(s) \in Nat
    BY <2>2
  <2> HIDE DEF s, t
  <2>5. CASE z \in gone
    <3>1. t = s
      BY <2>2, <2>5 DEF WithoutNext
    <3>2. (1 .. z) \ gone = (1 .. k) \ gone
      BY <2>1, <2>5
    <3>3. Picks(ms, gone, z, s)
      BY <2>3, <3>2 DEF Picks
    <3>4. QED
      BY <2>1, <3>1, <3>3 DEF t
  <2>6. CASE z \notin gone
    <3>1. t = Append(s, m)
      BY <2>2, <2>6 DEF WithoutNext
    <3>2. /\ Len(t) = Len(s) + 1 /\ t[Len(s) + 1] = m
          /\ \A i \in 1 .. Len(s) : t[i] = s[i]
      BY <2>2, <3>1, AppendProperties
    <3> DEFINE l == Len(s) + 1
               att == [i \in 1 .. l |-> IF i = l THEN z ELSE at[i]]
    <3>3. \A i \in 1 .. l : i \in 1 .. Len(s) \/ i = l
      BY <2>4
    <3>4. l \notin 1 .. Len(s) /\ l \in 1 .. l /\ \A i \in 1 .. Len(s) : i \in 1 .. l /\ i # l
      BY <2>4
    <3>5. \A i \in 1 .. Len(s) : at[i] \in (1 .. k) \ gone /\ at[i] < z /\ at[i] \in (1 .. z) \ gone
      BY <2>1, <2>3
    <3>6. att \in [1 .. l -> (1 .. z) \ gone]
      BY <2>1, <2>6, <3>3, <3>5
    <3>7. att[l] = z /\ \A i \in 1 .. Len(s) : att[i] = at[i]
      BY <3>4
    <3> HIDE DEF l, att
    <3>8. \A i \in 1 .. l : t[i] = ms[att[i]]
      BY <2>3, <3>2, <3>3, <3>7 DEF l, m
    <3>9. ASSUME NEW i \in 1 .. l, NEW j \in 1 .. l, i < j PROVE att[i] < att[j]
      <4>1. i \in 1 .. Len(s)
        BY <2>4, <3>3, <3>9 DEF l
      <4>2. CASE j = l
        BY <3>5, <3>7, <4>1, <4>2
      <4>3. CASE j \in 1 .. Len(s)
        BY <2>3, <3>7, <3>9, <4>1, <4>3
      <4>4. QED
        BY <3>3, <4>2, <4>3
    <3>10. ASSUME NEW j \in (1 .. z) \ gone PROVE \E i \in 1 .. l : att[i] = j
      <4>1. CASE j = z
        BY <3>4, <3>7, <4>1
      <4>2. CASE j \in 1 .. k
        <5>1. PICK i \in 1 .. Len(s) : at[i] = j
          BY <2>3, <4>2, <3>10
        <5>2. QED
          BY <3>4, <3>7, <5>1
      <4>3. QED
        BY <2>1, <4>1, <4>2
    <3>11. Picks(ms, gone, z, t)
      <4>1. Len(t) = l
        BY <3>2 DEF l
      <4>2. QED
        BY <3>6, <3>8, <3>9, <3>10, <4>1 DEF Picks
    <3>12. QED
      BY <2>1, <3>11 DEF t
  <2>7. QED
    BY <2>5, <2>6
<1>5. good = 0 .. n
  <2>1. good \in SUBSET (0 .. n)
    OBVIOUS
  <2> HIDE DEF good, n
  <2>2. QED
    BY <1>2, <1>3, <1>4, <2>1, UpTo
<1>6. n \in good /\ n \in 0 .. n
  BY <1>2, <1>5
<1>7. QED
  BY <1>1, <1>6

-----------------------------------------------------------------------------
(* Putting off what comes between calls and their results.                 *)

PutState == [out : Seq(Message), deferred : Seq(Message), pending : SUBSET Nat, group : Nat]

LEMMA ConcatGrows ==
  ASSUME NEW a \in Seq(Message), NEW b \in Seq(Message)
  PROVE  Grows(a, a \o b) /\ Len(a \o b) = Len(a) + Len(b)
BY ConcatProperties DEF Grows

LEMMA GrowsFurther ==
  ASSUME NEW a \in Seq(Message), NEW b, NEW c, Grows(a, b), Grows(b, c)
  PROVE  Grows(a, c)
<1>1. b \in Seq(Message) /\ c \in Seq(Message) /\ Len(a) \in Nat /\ Len(b) \in Nat /\ Len(c) \in Nat
  BY DEF Grows
<1>2. QED
  BY <1>1 DEF Grows

LEMMA PutNextIs ==
  ASSUME NEW s \in PutState, NEW m \in Message, NEW t, t = PutNext(s, m)
  PROVE  t \in PutState /\ Grows(s.out, t.out)
<1>1. /\ s.out \in Seq(Message) /\ s.deferred \in Seq(Message) /\ s.pending \in SUBSET Nat
      /\ s.group \in Nat /\ m.calls \in SUBSET Nat /\ m.group \in Nat
  BY DEF PutState, Message
<1>2. CASE MakesCalls(m)
  <2> DEFINE o == s.out \o s.deferred
  <2>1. o \in Seq(Message) /\ Grows(s.out, o)
    BY <1>1, ConcatGrows, ConcatProperties
  <2> HIDE DEF o
  <2>2. Append(o, m) \in Seq(Message) /\ Grows(o, Append(o, m))
    BY <2>1, AppendGrows DEF Grows
  <2>3. t = [out |-> Append(o, m), deferred |-> << >>, pending |-> m.calls, group |-> m.group]
    BY <1>2 DEF PutNext, o, IsResult, MakesCalls
  <2>4. Grows(s.out, Append(o, m))
    BY <1>1, <2>1, <2>2, GrowsFurther
  <2>5. QED
    BY <1>1, <2>2, <2>3, <2>4 DEF PutState
<1>3. CASE ~ MakesCalls(m) /\ s.pending = {}
  <2>1. Append(s.out, m) \in Seq(Message) /\ Grows(s.out, Append(s.out, m))
    BY <1>1, AppendGrows DEF Grows
  <2>2. t = [s EXCEPT !.out = Append(@, m)]
    BY <1>3 DEF PutNext
  <2>3. QED
    BY <1>1, <2>1, <2>2 DEF PutState
<1>4. CASE ~ MakesCalls(m) /\ IsResult(m) /\ s.pending # {}
  <2> DEFINE left == IF m.group = s.group THEN s.pending \ m.calls ELSE s.pending
             o == Append(s.out, m)
             d == IF left = {} THEN s.deferred ELSE << >>
  <2>1. o \in Seq(Message) /\ Grows(s.out, o)
    BY <1>1, AppendGrows DEF Grows
  <2>2. d \in Seq(Message) /\ left \in SUBSET Nat
    BY <1>1
  <2>3. t = [out |-> o \o d, deferred |-> IF left = {} THEN << >> ELSE s.deferred,
             pending |-> left, group |-> s.group]
    BY <1>4 DEF PutNext
  <2> HIDE DEF left, o, d
  <2>4. o \o d \in Seq(Message) /\ Grows(o, o \o d)
    BY <2>1, <2>2, ConcatGrows, ConcatProperties
  <2>5. Grows(s.out, o \o d)
    BY <1>1, <2>1, <2>4, GrowsFurther
  <2>6. QED
    BY <1>1, <2>2, <2>3, <2>4, <2>5 DEF PutState
<1>5. CASE ~ MakesCalls(m) /\ ~ IsResult(m) /\ s.pending # {}
  <2>1. Append(s.deferred, m) \in Seq(Message) /\ Grows(s.out, s.out)
    BY <1>1, AppendProperties DEF Grows
  <2>2. t = [s EXCEPT !.deferred = Append(@, m)]
    BY <1>5 DEF PutNext
  <2>3. QED
    BY <1>1, <2>1, <2>2 DEF PutState
<1>6. QED
  BY <1>2, <1>3, <1>4, <1>5

(* What FoldLeft chooses, along the messages.                              *)
LEMMA PutWalk ==
  ASSUME NEW ms \in Seq(Message)
  PROVE  \E acc : /\ acc \in [0 .. Len(ms) -> PutState] /\ acc[0] = NothingPut
                  /\ \A k \in 1 .. Len(ms) : acc[k] = PutNext(acc[k - 1], ms[k])
                  /\ Deferred(ms) = acc[Len(ms)].out \o acc[Len(ms)].deferred
<1> DEFINE n == Len(ms)
           D == 1 .. n
           S == PutState
           start == NothingPut
           walk(F, s) == IF s = {} THEN start ELSE PutNext(F[s \ {Max(s)}], ms[Max(s)])
           iter == CHOOSE F : F = [s \in SUBSET D |-> walk(F, s)]
           op == [x \in S \X Message |-> PutNext(x[1], x[2])]
           acc == [k \in 0 .. n |-> iter[1 .. k]]
<1>1. n \in Nat /\ DOMAIN ms = D /\ ms \in [D -> Message]
  OBVIOUS
<1>2. op \in [S \X Message -> S]
  <2>1. \A x \in S \X Message : PutNext(x[1], x[2]) \in S
    BY PutNextIs
  <2>2. QED
    BY <2>1
<1>3. start \in S
  <2>1. << >> \in Seq(Message)
    OBVIOUS
  <2>2. QED
    BY <2>1 DEF NothingPut, PutState
<1>4. PICK G : Folds(G, S, op, start, n, ms)
  <2> HIDE DEF op, n, S, start
  <2>1. QED
    BY <1>1, <1>2, <1>3, FoldExists
<1> HIDE DEF S, start
<1>5. ASSUME NEW s \in SUBSET D PROVE G[s] = walk(G, s)
  <2>1. G[s] = (IF s = {} THEN start ELSE op[<<G[s \ {Max(s)}], ms[Max(s)]>>])
        /\ G[s \ {Max(s)}] \in S
    <3> HIDE DEF op
    <3>1. s \ {Max(s)} \in SUBSET D
      OBVIOUS
    <3>2. QED
      BY <1>4, <3>1 DEF Folds
  <2>2. CASE s = {}
    BY <2>1, <2>2
  <2>3. CASE s # {}
    <3>1. ms[Max(s)] \in Message
      BY <1>1, <2>3, MaxOfBounded
    <3>2. op[<<G[s \ {Max(s)}], ms[Max(s)]>>] = PutNext(G[s \ {Max(s)}], ms[Max(s)])
      BY <2>1, <3>1
    <3> HIDE DEF op
    <3>3. QED
      BY <2>1, <2>3, <3>2
  <2>4. QED
    BY <2>2, <2>3
<1>6. G = [s \in SUBSET D |-> walk(G, s)]
  <2>1. G \in [SUBSET D -> S]
    BY <1>4 DEF Folds
  <2> HIDE DEF walk, D
  <2>2. QED
    BY <1>5, <2>1
<1>7. iter = [s \in SUBSET D |-> walk(iter, s)]
  <2> HIDE DEF walk, D
  <2>1. QED
    BY <1>6
<1>8. \A s \in SUBSET D : iter[s] = walk(iter, s)
  <2> HIDE DEF walk, D, iter
  <2>1. QED
    BY <1>7
<1>9. FoldLeft(PutNext, NothingPut, ms) = iter[D]
  BY <1>1 DEF FoldLeft, MapThenFoldSet, start
<1> HIDE DEF iter
<1>10. Runs(iter, S, op, start, n, ms)
  <2>1. ASSUME NEW s \in SUBSET D, s # {}, iter[s \ {Max(s)}] \in S
        PROVE  iter[s] = op[<<iter[s \ {Max(s)}], ms[Max(s)]>>]
    <3>1. ms[Max(s)] \in Message
      BY <1>1, <2>1, MaxOfBounded
    <3>2. iter[s] = PutNext(iter[s \ {Max(s)}], ms[Max(s)])
      BY <1>8, <2>1
    <3>3. QED
      BY <2>1, <3>1, <3>2
  <2>2. iter[{}] = start
    BY <1>8
  <2> HIDE DEF op, walk
  <2>3. QED
    BY <2>1, <2>2 DEF Runs
<1>11. Walks(acc, S, op, start, n, ms)
  <2>1. acc = [k \in 0 .. n |-> iter[1 .. k]]
    OBVIOUS
  <2> HIDE DEF acc, op, n
  <2>2. QED
    BY <1>1, <1>2, <1>3, <1>10, <2>1, FoldRun
<1>12. acc[n] = iter[D]
  BY <1>1
<1> HIDE DEF acc
<1>13. ASSUME NEW k \in 1 .. n PROVE acc[k] = PutNext(acc[k - 1], ms[k])
  <2>1. acc[k] = op[<<acc[k - 1], ms[k]>>] /\ acc[k - 1] \in S
    <3> HIDE DEF op
    <3>1. k - 1 \in 0 .. n
      BY <1>1
    <3>2. QED
      BY <1>11, <3>1 DEF Walks
  <2>2. ms[k] \in Message
    BY <1>1
  <2>3. QED
    BY <2>1, <2>2
<1>14. acc \in [0 .. n -> S] /\ acc[0] = start
  <2> HIDE DEF op
  <2>1. QED
    BY <1>11 DEF Walks
<1>15. QED
  BY <1>9, <1>12, <1>13, <1>14 DEF S, start, Deferred

-----------------------------------------------------------------------------
(* Calls with all their results stay so as more is put behind them.        *)
LEMMA BehindStays ==
  ASSUME NEW ms \in Seq(Message), NEW new, Grows(ms, new), NEW k \in 1 .. Len(ms),
         NEW j \in ResultsBehind(ms, k)
  PROVE  j \in ResultsBehind(new, k) /\ new[j] = ms[j]
<1>1. /\ Len(ms) \in Nat /\ Len(new) \in Nat /\ Len(ms) <= Len(new)
      /\ \A i \in 1 .. Len(ms) : new[i] = ms[i]
  BY DEF Grows
<1>2. j \in k + 1 .. Len(ms) /\ \A i \in k + 1 .. j : IsResult(ms[i])
  BY DEF ResultsBehind
<1>3. j \in k + 1 .. Len(new) /\ \A i \in k + 1 .. j : i \in 1 .. Len(ms)
  BY <1>1, <1>2
<1>4. \A i \in k + 1 .. j : IsResult(new[i])
  BY <1>1, <1>2, <1>3
<1>5. new[j] = ms[j]
  BY <1>1, <1>2
<1>6. QED
  BY <1>3, <1>4, <1>5 DEF ResultsBehind

(* Each of its calls has a result behind it.                               *)
EachAnswered(ms, k) ==
  \A c \in ms[k].calls : \E j \in ResultsBehind(ms, k) : Answers(ms[j], ms[k]) /\ c \in ms[j].calls

LEMMA CompleteIs ==
  ASSUME NEW ms, NEW k
  PROVE  Complete(ms, k) <=> EachAnswered(ms, k)
BY DEF Complete, EachAnswered

LEMMA CompleteStays ==
  ASSUME NEW ms \in Seq(Message), NEW new, Grows(ms, new), NEW k \in 1 .. Len(ms), Complete(ms, k)
  PROVE  k \in 1 .. Len(new) /\ new[k] = ms[k] /\ Complete(new, k)
<1>1. k \in 1 .. Len(new) /\ new[k] = ms[k]
  BY DEF Grows
<1>2. EachAnswered(ms, k)
  BY CompleteIs
<1>3. EachAnswered(new, k)
  BY <1>1, <1>2, BehindStays DEF EachAnswered
<1>4. QED
  BY <1>1, <1>3, CompleteIs

(* Dropping what is not complete leaves what is, with its results.         *)
LEMMA CompleteIsKept ==
  ASSUME NEW ms \in Seq(Message), NEW k \in 1 .. Len(ms), MakesCalls(ms[k]), Complete(ms, k)
  PROVE  k \notin Dropped(ms) /\ ResultsBehind(ms, k) \cap Dropped(ms) = {}
<1>1. DOMAIN ms = 1 .. Len(ms) /\ Len(ms) \in Nat
  OBVIOUS
<1>2. ASSUME NEW i \in 1 .. Len(ms), MakesCalls(ms[i]), ~ Complete(ms, i),
             NEW j \in {k} \cup ResultsBehind(ms, k), j \in {i} \cup ResultsBehind(ms, i)
      PROVE  FALSE
  <2>1. i # k /\ ~ IsResult(ms[i]) /\ ~ IsResult(ms[k])
    BY <1>2 DEF MakesCalls, IsResult
  <2>2. j = k \/ (j \in k + 1 .. Len(ms) /\ \A l \in k + 1 .. j : IsResult(ms[l]))
    BY <1>2 DEF ResultsBehind
  <2>3. j = i \/ (j \in i + 1 .. Len(ms) /\ \A l \in i + 1 .. j : IsResult(ms[l]))
    BY <1>2 DEF ResultsBehind
  <2>4. CASE i < k
    <3>1. k \in i + 1 .. j
      BY <1>1, <2>2, <2>3, <2>4
    <3>2. QED
      BY <2>1, <2>3, <2>4, <3>1
  <2>5. CASE k < i
    <3>1. i \in k + 1 .. j
      BY <1>1, <2>2, <2>3, <2>5
    <3>2. QED
      BY <2>1, <2>2, <2>5, <3>1
  <2>6. QED
    BY <1>1, <2>1, <2>4, <2>5
<1>3. QED
  BY <1>1, <1>2 DEF Dropped

LEMMA CompletePicked ==
  ASSUME NEW ms \in Seq(Message), NEW k \in 1 .. Len(ms), MakesCalls(ms[k]), Complete(ms, k)
  PROVE  LET sent == Without(ms, Dropped(ms)) IN
         \E l \in DOMAIN sent : sent[l] = ms[k] /\ Complete(sent, l)
<1> DEFINE gone == Dropped(ms)
           n == Len(ms)
           sent == Without(ms, gone)
<1>1. sent \in Seq(Message) /\ Picks(ms, gone, n, sent)
  BY WithoutIs
<1>2. k \in (1 .. n) \ gone /\ \A j \in ResultsBehind(ms, k) : j \in (1 .. n) \ gone
  <2>1. k \notin gone /\ ResultsBehind(ms, k) \cap gone = {}
    BY CompleteIsKept
  <2>2. ResultsBehind(ms, k) \subseteq 1 .. n
    BY DEF ResultsBehind
  <2> HIDE DEF gone
  <2>3. QED
    BY <2>1, <2>2
<1>3. DOMAIN sent = 1 .. Len(sent) /\ Len(sent) \in Nat /\ n \in Nat
  BY <1>1
<1> HIDE DEF gone, sent, n
<1>4. PICK at \in [1 .. Len(sent) -> (1 .. n) \ gone] :
        /\ \A i \in 1 .. Len(sent) : sent[i] = ms[at[i]]
        /\ \A i, l \in 1 .. Len(sent) : i < l => at[i] < at[l]
        /\ \A j \in (1 .. n) \ gone : \E i \in 1 .. Len(sent) : at[i] = j
  BY <1>1 DEF Picks
<1>5. PICK l \in 1 .. Len(sent) : at[l] = k
  BY <1>2, <1>4
<1>6. sent[l] = ms[k]
  BY <1>4, <1>5
<1>7. ASSUME NEW j \in ResultsBehind(ms, k)
      PROVE  \E i \in ResultsBehind(sent, l) : sent[i] = ms[j]
  <2>1. PICK i \in 1 .. Len(sent) : at[i] = j
    BY <1>2, <1>4, <1>7
  <2>2. j \in k + 1 .. n /\ \A h \in k + 1 .. j : IsResult(ms[h])
    BY <1>7 DEF ResultsBehind, n
  <2>3. l < i
    <3>1. ~ (i < l) /\ i # l
      BY <1>4, <1>5, <2>1, <2>2
    <3>2. QED
      BY <1>3, <3>1
  <2>4. ASSUME NEW h \in l + 1 .. i PROVE IsResult(sent[h])
    <3>1. h \in 1 .. Len(sent) /\ l < h /\ (h = i \/ h < i)
      BY <1>3
    <3>2. at[l] < at[h] /\ (at[h] = at[i] \/ at[h] < at[i]) /\ at[h] \in 1 .. n
      BY <1>4, <3>1
    <3>3. at[h] \in k + 1 .. j
      BY <1>5, <2>1, <2>2, <3>2
    <3>4. QED
      BY <1>4, <2>2, <3>1, <3>3
  <2>5. i \in l + 1 .. Len(sent)
    BY <1>3, <2>3
  <2>6. QED
    BY <1>4, <2>1, <2>4, <2>5 DEF ResultsBehind
<1>8. EachAnswered(ms, k)
  BY CompleteIs
<1>9. EachAnswered(sent, l)
  BY <1>6, <1>7, <1>8 DEF EachAnswered
<1>10. Complete(sent, l)
  BY <1>9, CompleteIs
<1>11. \E h \in DOMAIN sent : sent[h] = ms[k] /\ Complete(sent, h)
  BY <1>3, <1>6, <1>10
<1>12. QED
  BY <1>11 DEF sent, gone

-----------------------------------------------------------------------------
(* Calls whose results all come before the next calls: they come out with  *)
(* their results right behind them.                                        *)

AnsweredBy(ms, i, t, c) == \E j \in i + 1 .. t : Answers(ms[j], ms[i]) /\ c \in ms[j].calls

(* The calls i stand at k of what is put out; some have no result yet, and *)
(* what is behind them are results.                                        *)
Waits(s, ms, i, t, k) ==
  /\ s.group = ms[i].group /\ s.pending # {} /\ s.pending \subseteq ms[i].calls
  /\ \A c \in ms[i].calls : c \in s.pending <=> ~ AnsweredBy(ms, i, t, c)
  /\ \A l \in k + 1 .. Len(s.out) : IsResult(s.out[l])
  /\ \A c \in ms[i].calls \ s.pending :
       \E l \in k + 1 .. Len(s.out) : Answers(s.out[l], ms[i]) /\ c \in s.out[l].calls

PutOut(s, ms, i, t) ==
  \E k \in 1 .. Len(s.out) : s.out[k] = ms[i] /\ (Complete(s.out, k) \/ Waits(s, ms, i, t, k))

(* Results behind k that answer all its calls.                             *)
LEMMA AllBehind ==
  ASSUME NEW out \in Seq(Message), NEW k \in 1 .. Len(out), NEW m, out[k] = m,
         \A l \in k + 1 .. Len(out) : IsResult(out[l]),
         \A c \in m.calls : \E l \in k + 1 .. Len(out) : Answers(out[l], m) /\ c \in out[l].calls
  PROVE  Complete(out, k)
<1>1. Len(out) \in Nat
  OBVIOUS
<1>2. \A l \in k + 1 .. Len(out) : l \in ResultsBehind(out, k)
  BY <1>1 DEF ResultsBehind
<1>3. EachAnswered(out, k)
  BY <1>2 DEF EachAnswered
<1>4. QED
  BY <1>3, CompleteIs

(* The calls themselves.                                                   *)
LEMMA CallsPut ==
  ASSUME NEW ms \in Seq(Message), NEW i \in 1 .. Len(ms), MakesCalls(ms[i]),
         NEW s \in PutState, NEW t, t = PutNext(s, ms[i])
  PROVE  PutOut(t, ms, i, i)
<1>1. /\ ms[i] \in Message /\ i \in Nat
      /\ s.out \in Seq(Message) /\ s.deferred \in Seq(Message)
  BY ElementOfSeq DEF PutState
<1> DEFINE o == s.out \o s.deferred
           m == ms[i]
           k == Len(o) + 1
<1>2. o \in Seq(Message)
  BY <1>1, ConcatProperties
<1>3. t = [out |-> Append(o, m), deferred |-> << >>, pending |-> m.calls, group |-> m.group]
  BY DEF PutNext, IsResult, MakesCalls
<1>4. m \in Message /\ MakesCalls(m)
  BY <1>1
<1>5. \A c : ~ AnsweredBy(ms, i, i, c)
  BY <1>1 DEF AnsweredBy
<1> HIDE DEF o
<1>6. /\ Len(t.out) = k /\ t.out[k] = m /\ k \in Nat /\ k # 0
  BY <1>2, <1>3, <1>4, AppendGrows
<1>7. k \in 1 .. Len(t.out) /\ k + 1 .. Len(t.out) = {}
  BY <1>6
<1>8. t.group = m.group /\ t.pending = m.calls /\ m.calls # {}
  BY <1>3, <1>4 DEF MakesCalls
<1> HIDE DEF k
<1>9. Waits(t, ms, i, i, k)
  BY <1>5, <1>7, <1>8 DEF Waits
<1>10. QED
  BY <1>6, <1>7, <1>9 DEF PutOut

(* What comes behind them.                                                 *)
LEMMA BehindPut ==
  ASSUME NEW ms \in Seq(Message), NEW i \in 1 .. Len(ms), MakesCalls(ms[i]),
         NEW u \in Nat, NEW z, z = u + 1, i <= u, z \in 1 .. Len(ms),
         IsResult(ms[z]) => \E c \in ms[z].calls : ms[z].calls = {c},
         MakesCalls(ms[z]) => \A c \in ms[i].calls : AnsweredBy(ms, i, u, c),
         NEW s \in PutState, PutOut(s, ms, i, u), NEW t, t = PutNext(s, ms[z])
  PROVE  PutOut(t, ms, i, z)
<1> DEFINE m == ms[z]
<1>1. /\ m \in Message /\ i \in Nat /\ z \in Nat
      /\ s.out \in Seq(Message) /\ s.deferred \in Seq(Message) /\ Len(s.out) \in Nat
  BY ElementOfSeq DEF PutState
<1>2. t \in PutState /\ Grows(s.out, t.out)
  BY <1>1, PutNextIs
<1>3. PICK k \in 1 .. Len(s.out) :
        s.out[k] = ms[i] /\ (Complete(s.out, k) \/ Waits(s, ms, i, u, k))
  BY DEF PutOut
<1>4. /\ k \in 1 .. Len(t.out) /\ t.out[k] = ms[i] /\ t.out \in Seq(Message)
      /\ Len(t.out) \in Nat /\ k \in Nat
  BY <1>2, <1>3 DEF Grows
<1>5. CASE Complete(s.out, k)
  BY <1>1, <1>2, <1>3, <1>5, CompleteStays DEF PutOut
<1>6. CASE Waits(s, ms, i, u, k)
  <2>1. /\ s.group = ms[i].group /\ s.pending # {} /\ s.pending \subseteq ms[i].calls
        /\ \A c \in ms[i].calls : c \in s.pending <=> ~ AnsweredBy(ms, i, u, c)
        /\ \A l \in k + 1 .. Len(s.out) : IsResult(s.out[l])
        /\ \A c \in ms[i].calls \ s.pending :
             \E l \in k + 1 .. Len(s.out) : Answers(s.out[l], ms[i]) /\ c \in s.out[l].calls
    BY <1>6 DEF Waits
  <2>2. ~ MakesCalls(m)
    BY <2>1
  <2>3. \A j \in i + 1 .. z : j \in i + 1 .. u \/ j = z
    BY <1>1
  <2>4. z \in i + 1 .. z /\ \A j \in i + 1 .. u : j \in i + 1 .. z
    BY <1>1
  <2>5. \A c : AnsweredBy(ms, i, z, c)
                 <=> AnsweredBy(ms, i, u, c) \/ (Answers(m, ms[i]) /\ c \in m.calls)
    BY <2>3, <2>4 DEF AnsweredBy
  <2>6. CASE ~ IsResult(m)
    <3>1. t = [s EXCEPT !.deferred = Append(@, m)]
      BY <2>1, <2>2, <2>6 DEF PutNext
    <3>2. t.out = s.out /\ t.group = s.group /\ t.pending = s.pending
      BY <3>1 DEF PutState
    <3>3. \A c : AnsweredBy(ms, i, z, c) <=> AnsweredBy(ms, i, u, c)
      BY <2>5, <2>6 DEF Answers
    <3>4. Waits(t, ms, i, z, k)
      BY <2>1, <3>2, <3>3 DEF Waits
    <3>5. QED
      BY <1>4, <3>4 DEF PutOut
  <2>7. CASE IsResult(m)
    <3> DEFINE left == IF m.group = s.group THEN s.pending \ m.calls ELSE s.pending
               o == Append(s.out, m)
               d == IF left = {} THEN s.deferred ELSE << >>
    <3>1. t = [out |-> o \o d, deferred |-> IF left = {} THEN << >> ELSE s.deferred,
               pending |-> left, group |-> s.group]
      BY <2>1, <2>2, <2>7 DEF PutNext
    <3>2. /\ o \in Seq(Message) /\ Len(o) = Len(s.out) + 1 /\ o[Len(o)] = m
          /\ Grows(s.out, o) /\ d \in Seq(Message)
      BY <1>1, AppendGrows DEF Grows
    <3>3. PICK c \in m.calls : m.calls = {c}
      BY <2>7
    <3>4. Answers(m, ms[i]) <=> m.group = s.group /\ c \in ms[i].calls
      BY <2>1, <2>7, <3>3 DEF Answers
    <3>5. \A e \in ms[i].calls : e \in left <=> ~ AnsweredBy(ms, i, z, e)
      BY <2>1, <2>5, <3>3, <3>4
    <3>6. left \subseteq ms[i].calls
      BY <2>1
    <3> HIDE DEF o, d, m
    <3>7. \A l \in k + 1 .. Len(o) : (l \in k + 1 .. Len(s.out) /\ o[l] = s.out[l]) \/ o[l] = m
      <4>1. \A l \in k + 1 .. Len(o) : l = Len(o) \/ (l \in k + 1 .. Len(s.out) /\ l \in 1 .. Len(s.out))
        BY <1>1, <1>4, <3>2
      <4>2. \A l \in 1 .. Len(s.out) : o[l] = s.out[l]
        BY <3>2 DEF Grows
      <4>3. QED
        BY <3>2, <4>1, <4>2
    <3>8. \A l \in k + 1 .. Len(o) : IsResult(o[l])
      BY <2>1, <2>7, <3>7
    <3>9. /\ k \in 1 .. Len(o) /\ o[k] = ms[i] /\ Len(o) \in k + 1 .. Len(o)
          /\ \A l \in k + 1 .. Len(s.out) : l \in k + 1 .. Len(o) /\ o[l] = s.out[l]
      BY <1>1, <1>3, <1>4, <3>2 DEF Grows
    <3>10. ASSUME NEW e \in ms[i].calls \ left
           PROVE  \E l \in k + 1 .. Len(o) : Answers(o[l], ms[i]) /\ e \in o[l].calls
      <4>1. CASE e \in s.pending
        <5>1. m.group = s.group /\ e = c
          BY <3>3, <3>10, <4>1
        <5>2. QED
          BY <3>2, <3>3, <3>4, <3>9, <3>10, <5>1
      <4>2. CASE e \notin s.pending
        BY <2>1, <3>9, <3>10, <4>2
      <4>3. QED
        BY <4>1, <4>2
    <3> HIDE DEF left
    <3>11. CASE left = {}
      <4>1. Complete(o, k)
        BY <3>2, <3>8, <3>9, <3>10, <3>11, AllBehind
      <4>2. Grows(o, t.out)
        BY <3>1, <3>2, ConcatGrows
      <4>3. Complete(t.out, k)
        BY <3>2, <3>9, <4>1, <4>2, CompleteStays
      <4>4. QED
        BY <1>4, <4>3 DEF PutOut
    <3>12. CASE left # {}
      <4>1. d = << >>
        BY <3>12 DEF d
      <4>2. t.out = o /\ t.pending = left /\ t.group = s.group
        BY <3>1, <3>2, <4>1
      <4>3. Waits(t, ms, i, z, k)
        BY <2>1, <3>5, <3>6, <3>8, <3>10, <3>12, <4>2 DEF Waits
      <4>4. QED
        BY <1>4, <4>3 DEF PutOut
    <3>13. QED
      BY <3>11, <3>12
  <2>8. QED
    BY <2>6, <2>7
<1>7. QED
  BY <1>3, <1>5, <1>6

(* Calls and results of a transcript in which results are near.            *)
LEMMA DeferredIs ==
  ASSUME NEW ms \in Seq(Message), ResultsAreNear(ms), NEW i \in 1 .. Len(ms), MakesCalls(ms[i]),
         \A c \in ms[i].calls : \E j \in 1 .. Len(ms) : Answers(ms[j], ms[i]) /\ c \in ms[j].calls
  PROVE  /\ Deferred(ms) \in Seq(Message)
         /\ \E k \in 1 .. Len(Deferred(ms)) : Deferred(ms)[k] = ms[i] /\ Complete(Deferred(ms), k)
<1> DEFINE n == Len(ms)
<1>1. PICK acc : /\ acc \in [0 .. n -> PutState] /\ acc[0] = NothingPut
                 /\ \A k \in 1 .. n : acc[k] = PutNext(acc[k - 1], ms[k])
                 /\ Deferred(ms) = acc[n].out \o acc[n].deferred
  BY PutWalk
<1>2. n \in Nat /\ DOMAIN ms = 1 .. n /\ i \in Nat
  OBVIOUS
<1>3. ASSUME NEW j \in 1 .. n, Answers(ms[j], ms[i])
      PROVE  j \in i + 1 .. n /\ \A l \in i + 1 .. j - 1 : ~ MakesCalls(ms[l])
  BY <1>2, <1>3 DEF ResultsAreNear, Answers
<1>4. \A c \in ms[i].calls : AnsweredBy(ms, i, n, c)
  BY <1>3 DEF AnsweredBy
<1> DEFINE good == {t \in 0 .. n : i <= t => PutOut(acc[t], ms, i, t)}
<1>5. 0 \in good
  BY <1>2
<1>6. ASSUME NEW t \in 0 .. n - 1, t \in good PROVE t + 1 \in good
  <2> DEFINE z == t + 1
  <2>1. z \in 1 .. n /\ z \in 0 .. n /\ t \in Nat /\ z - 1 = t /\ t \in 0 .. n
    BY <1>2
  <2>2. acc[z] = PutNext(acc[t], ms[z]) /\ acc[t] \in PutState
    BY <1>1, <2>1
  <2>3. CASE z < i
    BY <1>2, <2>1, <2>3
  <2>4. CASE z = i
    <3>1. PutOut(acc[z], ms, i, i)
      BY <2>2, <2>4, CallsPut
    <3>2. QED
      BY <2>1, <2>4, <3>1
  <2>5. CASE i < z
    <3>1. i <= t
      BY <1>2, <2>1, <2>5
    <3>2. PutOut(acc[t], ms, i, t)
      BY <1>6, <3>1
    <3>3. IsResult(ms[z]) => \E c \in ms[z].calls : ms[z].calls = {c}
      BY <1>2, <2>1 DEF ResultsAreNear
    <3>4. ASSUME MakesCalls(ms[z]), NEW c \in ms[i].calls PROVE AnsweredBy(ms, i, t, c)
      <4>1. PICK j \in 1 .. n : Answers(ms[j], ms[i]) /\ c \in ms[j].calls
        OBVIOUS
      <4>2. j \in i + 1 .. n /\ \A l \in i + 1 .. j - 1 : ~ MakesCalls(ms[l])
        BY <1>3, <4>1
      <4>3. j # z
        BY <3>4, <4>1 DEF Answers, IsResult, MakesCalls
      <4>4. ~ (z < j)
        <5>1. ASSUME z < j PROVE z \in i + 1 .. j - 1
          BY <1>2, <2>1, <2>5, <4>2, <5>1
        <5>2. QED
          BY <3>4, <4>2, <5>1
      <4>5. j \in i + 1 .. t
        BY <1>2, <2>1, <4>2, <4>3, <4>4
      <4>6. QED
        BY <4>1, <4>5 DEF AnsweredBy
    <3> HIDE DEF good, n
    <3>5. PutOut(acc[z], ms, i, z)
      <4>1. z = t + 1 /\ z \in 1 .. Len(ms)
        BY <2>1 DEF n
      <4> HIDE DEF z
      <4>2. QED
        BY <2>1, <2>2, <3>1, <3>2, <3>3, <3>4, <4>1, BehindPut
    <3>6. QED
      BY <2>1, <3>5 DEF good
  <2>6. QED
    BY <1>2, <2>1, <2>3, <2>4, <2>5
<1>7. good = 0 .. n
  <2>1. good \in SUBSET (0 .. n)
    OBVIOUS
  <2> HIDE DEF good, n
  <2>2. QED
    BY <1>2, <1>5, <1>6, <2>1, UpTo
<1>8. n \in 0 .. n /\ i <= n
  BY <1>2
<1>9. PutOut(acc[n], ms, i, n)
  BY <1>7, <1>8
<1>10. PICK s \in PutState : s = acc[n]
  BY <1>1, <1>8
<1> HIDE DEF n, good
<1>11. PICK k \in 1 .. Len(s.out) :
         s.out[k] = ms[i] /\ (Complete(s.out, k) \/ Waits(s, ms, i, n, k))
  BY <1>9, <1>10 DEF PutOut
<1>12. ~ Waits(s, ms, i, n, k)
  BY <1>4 DEF Waits
<1>13. s.out \in Seq(Message) /\ s.deferred \in Seq(Message)
  BY DEF PutState
<1>14. PICK new \in Seq(Message) : new = Deferred(ms) /\ new = s.out \o s.deferred
  BY <1>1, <1>10, <1>13, ConcatProperties
<1>15. Grows(s.out, new)
  BY <1>13, <1>14, ConcatGrows
<1>16. s.out[k] = ms[i] /\ Complete(s.out, k)
  BY <1>11, <1>12
<1>17. k \in 1 .. Len(new) /\ new[k] = ms[i] /\ Complete(new, k)
  BY <1>13, <1>15, <1>16, CompleteStays
<1>18. QED
  BY <1>14, <1>17

-----------------------------------------------------------------------------
(* What is shown of a transcript in which results are near.                *)

LEMMA SuffixNear ==
  ASSUME NEW ms \in Seq(Message), ResultsAreNear(ms), NEW a \in 0 .. Len(ms), NEW v, v = Visible(ms, a)
  PROVE  v \in Seq(Message) /\ ResultsAreNear(v)
<1>1. /\ v \in Seq(Message) /\ Len(v) = Len(ms) - a /\ Len(ms) \in Nat
      /\ \A i \in 1 .. Len(v) : v[i] = ms[i + a]
  <2>1. v = SubSeq(ms, a + 1, Len(ms)) /\ a + 1 \in 1 .. Len(ms) + 1 /\ Len(ms) \in Nat
    BY DEF Visible
  <2>2. /\ v \in Seq(Message) /\ Len(v) = Len(ms) - a
        /\ \A i \in 1 .. Len(ms) - (a + 1) + 1 : v[i] = ms[(a + 1) + i - 1]
    BY <2>1, SubSeqProperties
  <2>3. QED
    BY <2>1, <2>2
<1>2. /\ DOMAIN v = 1 .. Len(v) /\ DOMAIN ms = 1 .. Len(ms)
      /\ \A i \in 1 .. Len(v) : i + a \in 1 .. Len(ms)
  BY <1>1
<1>3. ASSUME NEW j \in 1 .. Len(v), IsResult(v[j]) PROVE \E c \in v[j].calls : v[j].calls = {c}
  <2>1. PICK x \in 1 .. Len(ms) : v[j] = ms[x]
    BY <1>1, <1>2
  <2>2. QED
    BY <1>2, <1>3, <2>1 DEF ResultsAreNear
<1>4. ASSUME NEW i \in 1 .. Len(v), NEW j \in 1 .. Len(v),
             MakesCalls(v[i]), IsResult(v[j]), v[i].group = v[j].group
      PROVE  i < j /\ \A k \in i + 1 .. j - 1 : ~ MakesCalls(v[k])
  <2> DEFINE x == i + a
             y == j + a
  <2>1. x \in 1 .. Len(ms) /\ y \in 1 .. Len(ms) /\ v[i] = ms[x] /\ v[j] = ms[y]
    BY <1>1, <1>2
  <2> HIDE DEF x, y
  <2>2. x < y /\ \A k \in x + 1 .. y - 1 : ~ MakesCalls(ms[k])
    BY <1>2, <1>4, <2>1 DEF ResultsAreNear
  <2>3. \A k \in i + 1 .. j - 1 : k \in 1 .. Len(v) /\ k + a \in x + 1 .. y - 1
    BY <1>1 DEF x, y
  <2>4. i < j
    BY <2>2 DEF x, y
  <2>5. QED
    BY <1>1, <2>2, <2>3, <2>4
<1>5. QED
  BY <1>1, <1>2, <1>3, <1>4 DEF ResultsAreNear

LEMMA AssembledNear ==
  ASSUME NEW v \in Seq(Message), ResultsAreNear(v), NEW shown, shown = Assembled(v)
  PROVE  shown \in Seq(Message) /\ ResultsAreNear(shown)
<1> DEFINE n == Len(v)
           ms == [i \in DOMAIN v |-> WithoutFailed(v, v[i])]
           gone == Hidden(v)
<1>1. n \in Nat /\ DOMAIN v = 1 .. n
  OBVIOUS
<1>2. ASSUME NEW i \in 1 .. n
      PROVE  /\ ms[i] \in Message /\ ms[i].group = v[i].group /\ ms[i].role = v[i].role
             /\ MakesCalls(ms[i]) => MakesCalls(v[i])
             /\ IsResult(ms[i]) => ms[i].calls = v[i].calls
  <2>1. v[i] \in Message /\ ms[i] = WithoutFailed(v, v[i])
    BY <1>1, ElementOfSeq
  <2>2. CASE v[i].role = "calls"
    <3>1. ms[i] = [v[i] EXCEPT !.calls = v[i].calls \ FailedCalls(v, v[i].group)]
      BY <2>1, <2>2 DEF WithoutFailed
    <3> HIDE DEF ms
    <3>2. /\ ms[i].group = v[i].group /\ ms[i].role = v[i].role /\ ms[i].calls \subseteq v[i].calls
          /\ ms[i] \in Message
      BY <2>1, <3>1 DEF Message
    <3>3. QED
      BY <2>2, <3>2 DEF MakesCalls, IsResult
  <2>3. CASE v[i].role # "calls"
    <3>1. ms[i] = v[i]
      BY <2>1, <2>3 DEF WithoutFailed
    <3>2. QED
      BY <2>1, <3>1
  <2>4. QED
    BY <2>2, <2>3
<1>3. ms \in Seq(Message) /\ Len(ms) = n
  <2>1. ms \in [1 .. n -> Message]
    BY <1>1, <1>2
  <2> HIDE DEF ms
  <2>2. QED
    BY <1>1, <2>1
<1> HIDE DEF ms, gone
<1>4. shown = Without(ms, gone)
  BY DEF Assembled, ms, gone
<1>5. shown \in Seq(Message) /\ Picks(ms, gone, n, shown)
  BY <1>3, <1>4, WithoutIs
<1>6. PICK at \in [1 .. Len(shown) -> (1 .. n) \ gone] :
        /\ \A i \in 1 .. Len(shown) : shown[i] = ms[at[i]]
        /\ \A i, l \in 1 .. Len(shown) : i < l => at[i] < at[l]
        /\ \A j \in (1 .. n) \ gone : \E i \in 1 .. Len(shown) : at[i] = j
  BY <1>5 DEF Picks
<1>7. /\ Len(shown) \in Nat /\ DOMAIN shown = 1 .. Len(shown)
      /\ \A i \in 1 .. Len(shown) : at[i] \in 1 .. n
  BY <1>5, <1>6
<1>8. ASSUME NEW j \in 1 .. Len(shown), IsResult(shown[j])
      PROVE  \E c \in shown[j].calls : shown[j].calls = {c}
  <2>1. IsResult(v[at[j]]) /\ shown[j].calls = v[at[j]].calls
    BY <1>2, <1>6, <1>7, <1>8 DEF IsResult
  <2>2. QED
    BY <1>1, <1>7, <2>1 DEF ResultsAreNear
<1>9. ASSUME NEW i \in 1 .. Len(shown), NEW j \in 1 .. Len(shown),
             MakesCalls(shown[i]), IsResult(shown[j]), shown[i].group = shown[j].group
      PROVE  i < j /\ \A k \in i + 1 .. j - 1 : ~ MakesCalls(shown[k])
  <2>1. at[i] < at[j] /\ \A k \in at[i] + 1 .. at[j] - 1 : ~ MakesCalls(v[k])
    <3>1. MakesCalls(v[at[i]]) /\ IsResult(v[at[j]]) /\ v[at[i]].group = v[at[j]].group
      BY <1>2, <1>6, <1>7, <1>9 DEF IsResult
    <3>2. QED
      BY <1>1, <1>7, <3>1 DEF ResultsAreNear
  <2>2. i < j
    <3>1. ~ (j < i) /\ i # j
      BY <1>6, <1>7, <2>1
    <3>2. QED
      BY <3>1
  <2>3. ASSUME NEW k \in i + 1 .. j - 1 PROVE ~ MakesCalls(shown[k])
    <3>1. k \in 1 .. Len(shown) /\ i < k /\ k < j
      BY <1>7
    <3>2. at[k] \in at[i] + 1 .. at[j] - 1
      BY <1>6, <1>7, <3>1
    <3>3. QED
      BY <1>2, <1>6, <1>7, <2>1, <3>1, <3>2
  <2>4. QED
    BY <2>2, <2>3
<1>10. QED
  BY <1>5, <1>7, <1>8, <1>9 DEF ResultsAreNear

(* Calls that are shown with all their results are sent with them.         *)
LEMMA PayloadIs ==
  ASSUME NEW v \in Seq(Message), ResultsAreNear(v), NEW shown, shown = Assembled(v),
         NEW i \in DOMAIN shown, MakesCalls(shown[i]),
         shown[i].calls \subseteq
           UNION {shown[j].calls : j \in {k \in DOMAIN shown : Answers(shown[k], shown[i])}}
  PROVE  \E k \in DOMAIN Payload(v) : Payload(v)[k] = shown[i] /\ Complete(Payload(v), k)
<1>1. shown \in Seq(Message) /\ ResultsAreNear(shown)
  BY AssembledNear
<1>2. i \in 1 .. Len(shown) /\ DOMAIN shown = 1 .. Len(shown)
  BY <1>1
<1>3. \A c \in shown[i].calls : \E j \in 1 .. Len(shown) : Answers(shown[j], shown[i]) /\ c \in shown[j].calls
  BY <1>2
<1>4. PICK ms \in Seq(Message) : ms = Deferred(shown)
  BY <1>1, <1>2, <1>3, DeferredIs
<1>5. PICK k \in 1 .. Len(ms) : ms[k] = shown[i] /\ Complete(ms, k)
  BY <1>1, <1>2, <1>3, <1>4, DeferredIs
<1>6. Payload(v) = Without(ms, Dropped(ms))
  BY <1>4 DEF Payload
<1>7. QED
  BY <1>5, <1>6, CompletePicked

LEMMA BatchesSent ==
  ASSUME IInv
  PROVE  CompleteBatchesAreSent
<1>1. /\ messages \in Seq(Message) /\ Len(messages) \in Nat /\ ResultsAreNear(messages)
      /\ Archived \in 0 .. Len(messages)
  <2>1. TypeOK /\ TranscriptTidy
    BY DEF IInv
  <2>2. QED
    BY <2>1, ArchivedIs DEF TypeOK, TranscriptTidy, Tidy
<1>2. PICK v \in Seq(Message) : v = Visible(messages, Archived) /\ ResultsAreNear(v)
  BY <1>1, SuffixNear
<1>3. ASSUME NEW shown, shown = Assembled(v), NEW i \in DOMAIN shown, MakesCalls(shown[i]),
             shown[i].calls \subseteq
               UNION {shown[j].calls : j \in {k \in DOMAIN shown : Answers(shown[k], shown[i])}}
      PROVE  \E k \in DOMAIN Payload(v) : Payload(v)[k] = shown[i] /\ Complete(Payload(v), k)
  BY <1>2, <1>3, PayloadIs
<1>4. QED
  BY <1>2, <1>3 DEF CompleteBatchesAreSent

(* Whatever turns, interrupts and compactions have left in view, calls     *)
(* that are shown with all their results are sent with them right behind:  *)
(* what is put off and what is dropped concerns other messages, for        *)
(* transcripts of every length.                                            *)
THEOREM BatchesAreSent == Spec => []CompleteBatchesAreSent
<1>1. IInv => CompleteBatchesAreSent
  BY BatchesSent
<1>2. QED
  BY <1>1, InvariantHolds, PTL

-----------------------------------------------------------------------------
(* The archive.                                                            *)

(* A step leaves the checkpoint alone, takes it out of force, or sets it   *)
(* to the next cut.                                                        *)
LEMMA CheckpointStep ==
  ASSUME IInv, [Next]_vars
  PROVE  \/ UNCHANGED checkpointVars
         \/ active' = TRUE /\ boundary' = NextCut
         \/ active' = FALSE
<1>1. TypeOK /\ BoundaryAfter = NextCut
  BY ArchivedIs DEF IInv
<1>2. CASE Asks
  BY <1>1, <1>2, AskTypes
<1>3. CASE ToolEnds \/ Follow \/ End \/ Stop \/ Begin
  BY <1>3 DEF ToolEnds, Follow, End, Stop, Begin
<1>4. CASE Compress \/ Restore
  BY <1>1, <1>4 DEF Compress, Restore
<1>5. CASE UNCHANGED vars
  BY <1>5 DEF vars
<1>6. QED
  BY <1>2, <1>3, <1>4, <1>5 DEF Next, Step, Asks

LEMMA ArchiveStep ==
  ASSUME IInv, IInv', [Next]_vars, active, active'
  PROVE  Archived' >= Archived
<1>1. /\ Archived = boundary /\ Archived \in Nat /\ NextCut \in Nat /\ NextCut >= Archived
  <2>1. TypeOK /\ TranscriptTidy
    BY DEF IInv
  <2>2. QED
    BY <2>1, CutIs, ArchivedIs
<1>2. Archived' = boundary'
  <2>1. TypeOK' /\ TranscriptTidy'
    BY DEF IInv
  <2>2. boundary' \in Nat /\ Len(messages') \in Nat
    BY <2>1 DEF TypeOK
  <2>3. boundary' <= Len(messages')
    BY <2>1 DEF TranscriptTidy, Tidy, CutIsBetween
  <2>4. QED
    BY <2>2, <2>3 DEF Archived, ArchivedCount
<1>3. boundary' = boundary \/ boundary' = NextCut
  BY CheckpointStep DEF checkpointVars
<1>4. QED
  BY <1>1, <1>2, <1>3

(* Of what a checkpoint has archived nothing comes back into view while it *)
(* is in force, however often the transcript is compacted again.           *)
THEOREM ArchiveStays == Spec => ArchiveGrows
<1>1. IInv /\ IInv' /\ [Next]_vars => [active /\ active' => Archived' >= Archived]_vars
  BY ArchiveStep
<1>2. QED
  BY <1>1, InvariantHolds, PTL DEF Spec, ArchiveGrows

=============================================================================
