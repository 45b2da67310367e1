----------------------------- MODULE FoldLemmas -----------------------------
(***************************************************************************)
(* Lemmas about folds over sequences, which the library defines by a       *)
(* recursion over sets of places: that this recursion has a solution, and  *)
(* induction along the places, both by the well-ordering of the numbers.   *)
(***************************************************************************)
EXTENDS Integers, FiniteSetsExt, NaturalsInduction, WellFoundedInduction, TLAPS

(* The greatest of a set of bounded numbers.                               *)
LEMMA MaxOfBounded ==
  ASSUME NEW n \in Nat, NEW S \in SUBSET (1 .. n), S # {}
  PROVE  Max(S) \in S /\ \A y \in S : y <= Max(S)
<1> DEFINE Bound == {u \in Nat : \A y \in S : y <= u}
<1>1. n \in Bound
  OBVIOUS
<1>2. PICK u \in Bound : \A v \in Bound : ~ (<<v, u>> \in OpToRel(<, Nat))
  BY <1>1, NatLessThanWellFounded, WFMin
<1>3. u \in S
  <2>1. SUFFICES ASSUME u \notin S PROVE FALSE
    OBVIOUS
  <2>2. PICK y \in S : TRUE
    OBVIOUS
  <2>3. y \in Nat /\ y # 0 /\ u \in Nat /\ y <= u
    BY <2>2
  <2>4. u - 1 \in Bound
    BY <2>1, <2>3
  <2>5. <<u - 1, u>> \in OpToRel(<, Nat)
    BY <2>3, <2>4 DEF OpToRel
  <2>6. QED
    BY <1>2, <2>4, <2>5
<1>4. \A y \in S : u >= y
  <2>1. u \in Nat /\ \A y \in S : y <= u
    BY <1>2
  <2>2. QED
    BY <2>1
<1>5. \E x \in S : \A y \in S : x >= y
  BY <1>3, <1>4
<1>6. Max(S) \in S /\ \A y \in S : Max(S) >= y
  BY <1>5 DEF Max
<1>7. QED
  BY <1>6

LEMMA MaxUpTo ==
  ASSUME NEW k \in Nat \ {0}
  PROVE  Max(1 .. k) = k
<1>1. k \in 1 .. k /\ 1 .. k # {}
  OBVIOUS
<1>2. Max(1 .. k) \in 1 .. k /\ \A y \in 1 .. k : y <= Max(1 .. k)
  BY <1>1, MaxOfBounded
<1>3. QED
  BY <1>1, <1>2

LEMMA LastOfPrefix ==
  ASSUME NEW k \in Nat \ {0}
  PROVE  1 .. k # {} /\ Max(1 .. k) = k /\ (1 .. k) \ {Max(1 .. k)} = 1 .. k - 1
BY MaxUpTo

(* A set of numbers that holds 0 and, below n, the successor of each of    *)
(* its members holds all of them: induction over a set.                    *)
LEMMA UpTo ==
  ASSUME NEW n \in Nat, NEW S \in SUBSET (0 .. n), 0 \in S,
         \A k \in 0 .. n - 1 : k \in S => k + 1 \in S
  PROVE  S = 0 .. n
<1> DEFINE wrong == (0 .. n) \ S
<1>1. SUFFICES ASSUME wrong # {} PROVE FALSE
  OBVIOUS
<1>2. wrong \subseteq Nat
  OBVIOUS
<1>3. PICK k \in wrong : \A j \in wrong : ~ (<<j, k>> \in OpToRel(<, Nat))
  BY <1>1, <1>2, NatLessThanWellFounded, WFMin
<1>4. k \in 0 .. n /\ k # 0
  OBVIOUS
<1>5. k - 1 \in 0 .. n - 1 /\ k - 1 \in Nat /\ k \in Nat /\ k - 1 < k /\ (k - 1) + 1 = k
  BY <1>4
<1>6. k - 1 \in wrong
  BY <1>4, <1>5
<1>7. <<k - 1, k>> \in OpToRel(<, Nat)
  BY <1>5 DEF OpToRel
<1>8. QED
  BY <1>3, <1>6, <1>7

(* The recursion of a fold over the places 1 .. n has a solution: what     *)
(* FoldLeft chooses is one.                                                *)
Folds(G, S, op, base, n, seq) ==
  /\ G \in [SUBSET (1 .. n) -> S]
  /\ \A s \in SUBSET (1 .. n) :
       G[s] = IF s = {} THEN base ELSE op[<<G[s \ {Max(s)}], seq[Max(s)]>>]

LEMMA FoldExists ==
  ASSUME NEW S, NEW E, NEW op \in [S \X E -> S], NEW base \in S, NEW n \in Nat,
         NEW seq \in [1 .. n -> E]
  PROVE  \E G : Folds(G, S, op, base, n, seq)
<1> DEFINE Step(G, s) == IF s = {} THEN base ELSE op[<<G[s \ {Max(s)}], seq[Max(s)]>>]
           Solved == {k \in 0 .. n : \E G \in [SUBSET (1 .. k) -> S] :
                                       \A s \in SUBSET (1 .. k) : G[s] = Step(G, s)}
<1>1. 0 \in Solved
  <2> DEFINE G == [s \in SUBSET (1 .. 0) |-> base]
  <2>1. G \in [SUBSET (1 .. 0) -> S]
    OBVIOUS
  <2>2. \A s \in SUBSET (1 .. 0) : s = {}
    OBVIOUS
  <2>3. \A s \in SUBSET (1 .. 0) : G[s] = Step(G, s)
    BY <2>2
  <2>4. \E H \in [SUBSET (1 .. 0) -> S] : \A s \in SUBSET (1 .. 0) : H[s] = Step(H, s)
    <3> HIDE DEF Step, G
    <3>1. QED
      BY <2>1, <2>3
  <2>5. 0 \in 0 .. n
    OBVIOUS
  <2> HIDE DEF Step, G
  <2>6. QED
    BY <2>4, <2>5
<1>2. ASSUME NEW k \in 0 .. n - 1, k \in Solved PROVE k + 1 \in Solved
  <2>1. PICK g \in [SUBSET (1 .. k) -> S] : \A s \in SUBSET (1 .. k) : g[s] = Step(g, s)
    BY <1>2
  <2> DEFINE z == k + 1
             G == [s \in SUBSET (1 .. z) |->
                     IF z \in s THEN op[<<g[s \ {z}], seq[z]>>] ELSE g[s]]
  <2>2. z \in 1 .. n /\ k \in Nat /\ z \in 0 .. n
    OBVIOUS
  <2>3. \A s \in SUBSET (1 .. z) : s \ {z} \in SUBSET (1 .. k)
    BY <2>2
  <2>4. G \in [SUBSET (1 .. z) -> S]
    <3>1. \A s \in SUBSET (1 .. z) : z \notin s => s \in SUBSET (1 .. k)
      BY <2>2
    <3> HIDE DEF z
    <3>2. \A s \in SUBSET (1 .. z) : <<g[s \ {z}], seq[z]>> \in S \X E
      BY <2>2, <2>3
    <3>3. ASSUME NEW s \in SUBSET (1 .. z) PROVE G[s] \in S
      BY <3>1, <3>2, <3>3
    <3> HIDE DEF G
    <3>4. QED
      BY <3>3 DEF G
  <2>5. ASSUME NEW s \in SUBSET (1 .. z) PROVE G[s] = Step(G, s)
    <3>1. CASE z \in s
      <4>1. Max(s) \in s /\ \A y \in s : y <= Max(s)
        <5>1. z \in Nat /\ s # {}
          BY <2>2, <3>1
        <5> HIDE DEF z
        <5>2. QED
          BY <5>1, MaxOfBounded
      <4>2. Max(s) = z
        <5>1. z \in Nat
          BY <2>2
        <5> HIDE DEF z
        <5>2. Max(s) \in 1 .. z /\ z <= Max(s)
          BY <3>1, <4>1
        <5>3. QED
          BY <5>1, <5>2
      <4>3. s \ {z} \in SUBSET (1 .. z) /\ z \notin s \ {z} /\ s # {}
        BY <3>1
      <4> HIDE DEF z
      <4>4. G[s \ {z}] = g[s \ {z}] /\ G[s] = op[<<g[s \ {z}], seq[z]>>]
        BY <3>1, <4>3
      <4> HIDE DEF G
      <4>5. QED
        BY <4>2, <4>3, <4>4
    <3>2. CASE z \notin s
      <4>1. s \in SUBSET (1 .. k) /\ G[s] = g[s]
        BY <2>2, <3>2
      <4>2. CASE s = {}
        BY <2>1, <4>1, <4>2
      <4>3. CASE s # {}
        <5>1. Max(s) \in s
          BY <2>2, <4>1, <4>3, MaxOfBounded
        <5>2. s \ {Max(s)} \in SUBSET (1 .. k) /\ s \ {Max(s)} \in SUBSET (1 .. z)
              /\ z \notin s \ {Max(s)}
          BY <2>2, <3>2, <4>1
        <5>3. G[s \ {Max(s)}] = g[s \ {Max(s)}]
          BY <5>2
        <5> HIDE DEF G, z
        <5>4. QED
          BY <2>1, <4>1, <4>3, <5>3
      <4>4. QED
        BY <4>2, <4>3
    <3>3. QED
      BY <3>1, <3>2
  <2> HIDE DEF G, Step
  <2>6. \E H \in [SUBSET (1 .. z) -> S] : \A s \in SUBSET (1 .. z) : H[s] = Step(H, s)
    BY <2>4, <2>5
  <2>7. QED
    BY <2>2, <2>6
<1>3. Solved = 0 .. n
  <2> HIDE DEF Solved
  <2>1. Solved \in SUBSET (0 .. n)
    BY DEF Solved
  <2>2. QED
    BY <1>1, <1>2, <2>1, UpTo
<1>4. n \in Solved
  <2> HIDE DEF Solved
  <2>1. n \in 0 .. n
    OBVIOUS
  <2>2. QED
    BY <1>3, <2>1
<1>5. PICK G \in [SUBSET (1 .. n) -> S] : \A s \in SUBSET (1 .. n) : G[s] = Step(G, s)
  BY <1>4
<1>6. Folds(G, S, op, base, n, seq)
  BY <1>5 DEF Folds
<1>7. QED
  BY <1>6

(* A solution of the recursion, taken along the places: the accumulator    *)
(* after each of them.                                                     *)
Runs(iter, S, op, base, n, seq) ==
  \A s \in SUBSET (1 .. n) :
    IF s = {} THEN iter[s] = base
    ELSE iter[s \ {Max(s)}] \in S => iter[s] = op[<<iter[s \ {Max(s)}], seq[Max(s)]>>]

Walks(acc, S, op, base, n, seq) ==
  /\ acc \in [0 .. n -> S] /\ acc[0] = base
  /\ \A k \in 1 .. n : acc[k] = op[<<acc[k - 1], seq[k]>>]

LEMMA FoldRun ==
  ASSUME NEW S, NEW E, NEW op \in [S \X E -> S], NEW base \in S, NEW n \in Nat,
         NEW seq \in [1 .. n -> E], NEW iter, Runs(iter, S, op, base, n, seq),
         NEW acc, acc = [k \in 0 .. n |-> iter[1 .. k]]
  PROVE  Walks(acc, S, op, base, n, seq)
<1> DEFINE typed == {k \in 0 .. n : iter[1 .. k] \in S}
<1>1. iter[1 .. 0] = base
  <2>1. 1 .. 0 = {} /\ {} \in SUBSET (1 .. n)
    OBVIOUS
  <2>2. iter[{}] = base
    BY <2>1 DEF Runs
  <2>3. QED
    BY <2>1, <2>2
<1>2. ASSUME NEW k \in 0 .. n - 1, iter[1 .. k] \in S
      PROVE  /\ iter[1 .. k + 1] = op[<<iter[1 .. k], seq[k + 1]>>]
             /\ iter[1 .. k + 1] \in S
  <2> DEFINE z == k + 1
  <2>1. z \in Nat \ {0} /\ z \in 1 .. n /\ z - 1 = k /\ 1 .. z \in SUBSET (1 .. n)
    OBVIOUS
  <2> HIDE DEF z
  <2>2. 1 .. z # {} /\ Max(1 .. z) = z /\ (1 .. z) \ {Max(1 .. z)} = 1 .. k
    BY <2>1, LastOfPrefix
  <2>3. iter[1 .. z] = op[<<iter[1 .. k], seq[z]>>]
    BY <1>2, <2>1, <2>2 DEF Runs
  <2>4. <<iter[1 .. k], seq[z]>> \in S \X E
    BY <1>2, <2>1
  <2>5. iter[1 .. z] \in S
    BY <2>3, <2>4
  <2>6. QED
    BY <2>3, <2>5 DEF z
<1>3. typed = 0 .. n
  <2>1. 0 \in typed
    BY <1>1
  <2>2. ASSUME NEW k \in 0 .. n - 1, k \in typed PROVE k + 1 \in typed
    <3>1. iter[1 .. k] \in S /\ k + 1 \in 0 .. n
      BY <2>2
    <3>2. QED
      BY <1>2, <3>1
  <2>3. typed \in SUBSET (0 .. n)
    OBVIOUS
  <2> HIDE DEF typed
  <2>4. QED
    BY <2>1, <2>2, <2>3, UpTo
<1>4. \A k \in 0 .. n : iter[1 .. k] \in S
  BY <1>3
<1>5. ASSUME NEW k \in 1 .. n PROVE acc[k] = op[<<acc[k - 1], seq[k]>>]
  <2>1. k - 1 \in 0 .. n - 1 /\ k - 1 \in 0 .. n /\ k \in 0 .. n /\ (k - 1) + 1 = k
    OBVIOUS
  <2>2. iter[1 .. k - 1] \in S
    BY <1>4, <2>1
  <2>3. iter[1 .. (k - 1) + 1] = op[<<iter[1 .. k - 1], seq[(k - 1) + 1]>>]
    BY <1>2, <2>1, <2>2
  <2>4. QED
    BY <2>1, <2>3
<1>6. acc \in [0 .. n -> S] /\ acc[0] = base
  BY <1>1, <1>4
<1>7. QED
  BY <1>5, <1>6 DEF Walks
=============================================================================
