--------------------------- MODULE ApprovalsProofs ---------------------------
(***************************************************************************)
(* Proofs about Approvals, for any calls, tools, turns and limits: the     *)
(* inductive invariant IInv, what follows from it, and that no live grant  *)
(* is ever dropped.                                                        *)
(***************************************************************************)
EXTENDS Approvals, FiniteSetTheorems, TLAPS

LEMMA Requests ==
  /\ \A c \in Call, s \in Stage : <<c, s>> \in Request
  /\ \A r \in Request : r[1] \in Call /\ r[2] \in Stage /\ r = <<r[1], r[2]>>
  /\ \A c, d, s, u : <<c, s>> = <<d, u>> => c = d /\ s = u
  /\ Stage = {"preflight", "sandbox"}
BY DEF Request, Stage

LEMMA MineType ==
  ASSUME TypeOK, NEW c \in Call
  PROVE  /\ Mine(c) \in Request /\ Mine(c) = <<c, stage[c]>> /\ stage[c] \in Stage
         /\ Mine(c)[1] = c /\ Mine(c)[2] = stage[c]
BY Requests DEF TypeOK, Mine

LEMMA NotMine ==
  ASSUME TypeOK, NEW c \in Call, NEW d \in Call \ {c}, NEW s \in Stage
  PROVE  <<d, s>> \in Request /\ <<d, s>> # Mine(c)
<1>1. <<d, s>>[1] = d /\ Mine(c)[1] = c
  BY MineType
<1>2. QED
  BY <1>1, Requests

-----------------------------------------------------------------------------
(* The manager.                                                            *)

ManagerType ==
  /\ pending \subseteq Request
  /\ future \in [Request -> {"none", "open", "yes", "no", "cancelled"}]
  /\ resolved \in [Request -> {"none"} \cup Answer]
  /\ evicted \subseteq Request

(* Resolutions of other requests are at most forgotten.                    *)
Forgets(q) == resolved'[q] = resolved[q] \/ (resolved'[q] = "none" /\ q \in evicted')

LEMMA RememberFrame ==
  ASSUME TypeOK, NEW r \in Request, NEW answer \in Answer, Remember(r, answer)
  PROVE  /\ resolved' \in [Request -> {"none"} \cup Answer]
         /\ evicted' \subseteq Request /\ evicted \subseteq evicted'
         /\ resolved'[r] = answer
         /\ \A q \in Request : q # r => Forgets(q)
<1> DEFINE all == [resolved EXCEPT ![r] = answer]
<1>1. /\ all \in [Request -> {"none"} \cup Answer]
      /\ all[r] = answer /\ \A q \in Request : q # r => all[q] = resolved[q]
  BY DEF TypeOK
<1> HIDE DEF all
<1>2. CASE resolved' = all /\ UNCHANGED evicted
  BY <1>1, <1>2 DEF TypeOK, Forgets
<1>3. CASE \E o \in Remembered(all) \ {r} :
             /\ resolved' = [all EXCEPT ![o] = "none"]
             /\ evicted' = evicted \cup {o}
  <2>1. PICK o \in Remembered(all) \ {r} :
          /\ resolved' = [all EXCEPT ![o] = "none"]
          /\ evicted' = evicted \cup {o}
    BY <1>3
  <2>2. o \in Request /\ o # r
    BY DEF Remembered
  <2>3. QED
    BY <1>1, <2>1, <2>2 DEF TypeOK, Forgets
<1>4. QED
  BY <1>2, <1>3 DEF Remember, all

LEMMA DiscardFrame ==
  ASSUME TypeOK, NEW r \in Request, NEW answer \in Answer \cup {"none"}, Discard(r, answer)
  PROVE  /\ ManagerType'
         /\ pending' = pending \ {r} /\ evicted \subseteq evicted'
         /\ \A q \in Request : q # r => future'[q] = future[q] /\ Forgets(q)
         /\ resolved'[r] = resolved[r] \/ resolved[r] = "none"
<1>1. /\ pending' = pending \ {r}
      /\ future' \in [Request -> {"none", "open", "yes", "no", "cancelled"}]
      /\ \A q \in Request : q # r => future'[q] = future[q]
  BY DEF Discard, TypeOK
<1>2. CASE UNCHANGED <<resolved, evicted>>
  BY <1>1, <1>2 DEF ManagerType, TypeOK, Forgets
<1>3. CASE answer # "none" /\ ~ IsResolved(r) /\ Remember(r, answer)
  <2>1. answer \in Answer
    BY <1>3
  <2>2. /\ resolved' \in [Request -> {"none"} \cup Answer]
        /\ evicted' \subseteq Request /\ evicted \subseteq evicted'
        /\ \A q \in Request : q # r => Forgets(q)
    BY <1>3, <2>1, RememberFrame
  <2>3. QED
    BY <1>1, <1>3, <2>2 DEF ManagerType, TypeOK, IsResolved
<1>4. QED
  BY <1>2, <1>3 DEF Discard

LEMMA ResolveFrame ==
  ASSUME TypeOK, NEW r \in Request, NEW answer \in Answer, Resolve(r, answer)
  PROVE  /\ ManagerType'
         /\ pending' = pending /\ evicted \subseteq evicted'
         /\ resolved'[r] = answer
         /\ future'[r] = IF future[r] = "open" THEN answer ELSE future[r]
         /\ \A q \in Request : q # r => future'[q] = future[q] /\ Forgets(q)
<1>1. /\ resolved' \in [Request -> {"none"} \cup Answer]
      /\ evicted' \subseteq Request /\ evicted \subseteq evicted'
      /\ resolved'[r] = answer
      /\ \A q \in Request : q # r => Forgets(q)
  BY RememberFrame DEF Resolve
<1>2. /\ future' \in [Request -> {"none", "open", "yes", "no", "cancelled"}]
      /\ future'[r] = IF future[r] = "open" THEN answer ELSE future[r]
      /\ \A q \in Request : q # r => future'[q] = future[q]
  BY DEF Resolve, TypeOK, Answer
<1>3. QED
  BY <1>1, <1>2 DEF ManagerType, TypeOK, Resolve

LEMMA CreateFrame ==
  ASSUME TypeOK, NEW r \in Request, Create(r)
  PROVE  /\ ManagerType'
         /\ pending' = pending \cup {r} /\ UNCHANGED <<resolved, evicted>>
         /\ future'[r] = "open"
         /\ \A q \in Request : q # r => future'[q] = future[q]
BY DEF Create, TypeOK, ManagerType

-----------------------------------------------------------------------------
(* The store of the tokens.                                                *)

TokenType == token \in [Call -> {"none", "live", "expired", "consumed"}]

LEMMA RoomsFrame ==
  ASSUME TokenType, NEW tk \in Rooms
  PROVE  /\ tk \in [Call -> {"none", "live", "expired", "consumed"}]
         /\ \A c \in Call : token[c] = "live" => tk[c] = "live"
<1> DEFINE pk == Purged(token)
<1>1. /\ pk \in [Call -> {"none", "live", "expired", "consumed"}]
      /\ \A c \in Call : token[c] = "live" => pk[c] = "live"
  BY DEF Purged, TokenType
<1> HIDE DEF pk
<1>2. tk = pk \/ \E d \in Call : pk[d] = "consumed" /\ tk = [pk EXCEPT ![d] = "none"]
  BY DEF Rooms, Evicted, pk
<1>3. QED
  BY <1>1, <1>2

LEMMA TokensOf ==
  ASSUME TokenType, NEW c \in Call
  PROVE  /\ Consume(c) => TokenType'
         /\ ConsumeFails(c) => TokenType'
         /\ \A tk \in Rooms, v \in {"live", "consumed"} :
              /\ token' = tk => TokenType'
              /\ token' = [tk EXCEPT ![c] = v] => TokenType'
BY RoomsFrame DEF Consume, ConsumeFails, Purged, TokenType

-----------------------------------------------------------------------------
(* What IInv says of one call, and when a step leaves it alone.            *)

Consent(c) ==
  /\ place[c] \in {"running", "backoff", "escalating", "unsandboxed"} /\ Asks(tool[c], turn[c])
       => heard[<<c, "preflight">>] = "yes" /\ ~ turn[c].unattended
  /\ place[c] \in {"escalating", "unsandboxed"}
       => /\ ~ turn[c].unattended
          /\ heard[<<c, "sandbox">>] = "yes" \/ (turn[c].auto /\ turn[c].full)

Heeded(c) ==
  \A s \in Stage :
    verdict[<<c, s>>] # "none" /\ heard[<<c, s>>] # "none" => verdict[<<c, s>>] = heard[<<c, s>>]

Local(c) == CallIsWhole(c) /\ StagesInOrder(c) /\ FutureTells(c) /\ Consent(c) /\ Heeded(c)

LEMMA Parts ==
  IInv <=> TypeOK /\ (\A c \in Call : Local(c)) /\ PendingIsAwaited /\ ToldIsResolved
<1>1. RunsWithConsent <=> \A c \in Call : Consent(c)
  BY DEF RunsWithConsent, Consent
<1>2. AnswerHeeded <=> \A c \in Call : Heeded(c)
  <2>1. AnswerHeeded => \A c \in Call : Heeded(c)
    BY Requests DEF AnswerHeeded, Heeded
  <2>2. ASSUME \A c \in Call : Heeded(c), NEW r \in Request
        PROVE  (verdict[r] # "none" /\ heard[r] # "none" => verdict[r] = heard[r])
    <3>1. r[1] \in Call /\ r[2] \in Stage /\ r = <<r[1], r[2]>>
      BY Requests
    <3>2. (verdict[<<r[1], r[2]>>] # "none" /\ heard[<<r[1], r[2]>>] # "none"
            => verdict[<<r[1], r[2]>>] = heard[<<r[1], r[2]>>])
      BY <2>2, <3>1 DEF Heeded
    <3>3. QED
      BY <3>1, <3>2
  <2>3. QED
    BY <2>1, <2>2 DEF AnswerHeeded
<1>3. QED
  BY <1>1, <1>2 DEF IInv, Local

(* The same after a step.                                                  *)
LEMMA PartsNext ==
  IInv' <=> /\ TypeOK' /\ (\A c \in Call : Local(c)')
            /\ PendingIsAwaited' /\ ToldIsResolved'
<1>1. RunsWithConsent' <=> \A c \in Call : Consent(c)'
  BY DEF RunsWithConsent, Consent
<1>2. AnswerHeeded' <=> \A c \in Call : Heeded(c)'
  <2>1. AnswerHeeded' => \A c \in Call : Heeded(c)'
    BY Requests DEF AnswerHeeded, Heeded
  <2>2. ASSUME \A c \in Call : Heeded(c)', NEW r \in Request
        PROVE  (verdict[r] # "none" /\ heard[r] # "none" => verdict[r] = heard[r])'
    <3>1. r[1] \in Call /\ r[2] \in Stage /\ r = <<r[1], r[2]>>
      BY Requests
    <3>2. (verdict[<<r[1], r[2]>>] # "none" /\ heard[<<r[1], r[2]>>] # "none"
            => verdict[<<r[1], r[2]>>] = heard[<<r[1], r[2]>>])'
      BY <2>2, <3>1 DEF Heeded
    <3>3. QED
      BY <3>1, <3>2
  <2>3. QED
    BY <2>1, <2>2 DEF AnswerHeeded
<1>3. QED
  BY <1>1, <1>2 DEF IInv, Local

CallSame(d) ==
  /\ place'[d] = place[d] /\ stage'[d] = stage[d] /\ tool'[d] = tool[d]
  /\ turn'[d] = turn[d] /\ attempt'[d] = attempt[d]
  /\ \A s \in Stage : verdict'[<<d, s>>] = verdict[<<d, s>>] /\ heard'[<<d, s>>] = heard[<<d, s>>]

RequestSame(q) ==
  /\ future'[q] = future[q] /\ (q \in pending' <=> q \in pending)
  /\ resolved'[q] = resolved[q] \/ resolved'[q] = "none"

LEMMA OtherCall ==
  ASSUME TypeOK, NEW d \in Call, Local(d), CallSame(d),
         \A s \in Stage : RequestSame(<<d, s>>)
  PROVE  Local(d)'
<1>1. stage[d] \in Stage /\ stage'[d] = stage[d] /\ place'[d] = place[d]
  BY DEF TypeOK, CallSame
<1>2. CallIsWhole(d)'
  BY <1>1 DEF Local, CallIsWhole, CallSame, Mine
<1>3. StagesInOrder(d)'
  BY <1>1, Requests DEF Local, StagesInOrder, CallSame, RequestSame, IsResolved
<1>4. FutureTells(d)'
  BY <1>1 DEF Local, FutureTells, CallSame, RequestSame, IsResolved, Mine
<1>5. Consent(d)' /\ Heeded(d)'
  BY <1>1, Requests DEF Local, Consent, Heeded, CallSame
<1>6. QED
  BY <1>2, <1>3, <1>4, <1>5 DEF Local

LEMMA Assembled ==
  ASSUME IInv, TypeOK', NEW c \in Call, Local(c)',
         \A d \in Call \ {c} : CallSame(d) /\ \A s \in Stage : RequestSame(<<d, s>>),
         orphaned \subseteq orphaned',
         \A s \in Stage : <<c, s>> \in pending' \ orphaned'
                            => stage'[c] = s /\ place'[c] \in Asking,
         ToldIsResolved'
  PROVE  IInv'
<1>1. \A d \in Call \ {c} : Local(d)'
  BY Parts, OtherCall
<1>2. PendingIsAwaited'
  <2>1. SUFFICES ASSUME NEW r \in pending' \ orphaned'
                 PROVE  stage'[r[1]] = r[2] /\ place'[r[1]] \in Asking
    BY DEF PendingIsAwaited, Asking
  <2>2. r \in Request /\ r[1] \in Call /\ r[2] \in Stage /\ r = <<r[1], r[2]>>
    BY Requests DEF TypeOK
  <2>3. CASE r[1] = c
    BY <2>2, <2>3
  <2>4. CASE r[1] # c
    <3>1. RequestSame(<<r[1], r[2]>>) /\ CallSame(r[1])
      BY <2>2, <2>4
    <3>2. r \in pending \ orphaned
      BY <2>2, <3>1 DEF RequestSame
    <3>3. QED
      BY <3>1, <3>2 DEF CallSame, IInv, PendingIsAwaited
  <2>5. QED
    BY <2>3, <2>4
<1>3. QED
  BY <1>1, <1>2, PartsNext

(* Told answers stay those that are remembered when a resolution is at     *)
(* most forgotten or made where there was none.                            *)
LEMMA ToldKept ==
  ASSUME IInv, UNCHANGED told, evicted \subseteq evicted',
         \A q \in Request : Forgets(q) \/ resolved[q] = "none"
  PROVE  ToldIsResolved'
BY DEF IInv, ToldIsResolved, Forgets

-----------------------------------------------------------------------------
(* The locals of a call.                                                   *)

FrameType ==
  /\ place \in [Call -> {"idle", "asking", "waiting", "timingOut", "reporting", "running",
                         "backoff", "escalating", "unsandboxed", "done"}]
  /\ stage \in [Call -> Stage]
  /\ tool \in [Call -> Tool \cup {None}] /\ turn \in [Call -> Turn \cup {None}]
  /\ attempt \in [Call -> 0 .. MaxRetries + 1]
  /\ verdict \in [Request -> {"none"} \cup Answer]
  /\ heard \in [Request -> {"none"} \cup Answer]

LEMMA EndFrame ==
  ASSUME TypeOK, NEW c \in Call, End(c)
  PROVE  /\ FrameType' /\ place'[c] = "done" /\ Local(c)'
         /\ \A d \in Call \ {c} : CallSame(d)
<1>1. FrameType'
  BY Requests, ConstantsAssumption DEF End, TypeOK, FrameType
<1>2. /\ place'[c] = "done" /\ stage'[c] = "preflight" /\ attempt'[c] = 0
      /\ \A s \in Stage : heard'[<<c, s>>] = "none" /\ verdict'[<<c, s>>] = "none"
  BY Requests DEF End, TypeOK
<1>3. Local(c)'
  BY <1>2, Requests DEF Local, CallIsWhole, StagesInOrder, FutureTells, Consent, Heeded, Asking
<1>4. \A d \in Call \ {c} : CallSame(d)
  BY Requests DEF End, TypeOK, CallSame
<1>5. QED
  BY <1>1, <1>2, <1>3, <1>4

LEMMA GoToFrame ==
  ASSUME TypeOK, NEW c \in Call,
         NEW p \in {"idle", "asking", "waiting", "timingOut", "reporting", "running",
                    "backoff", "escalating", "unsandboxed", "done"},
         GoTo(c, p)
  PROVE  /\ FrameType' /\ place'[c] = p /\ UNCHANGED frameVars
         /\ \A d \in Call \ {c} : CallSame(d)
BY Requests DEF GoTo, frameVars, TypeOK, FrameType, CallSame

LEMMA ManagerSame ==
  ASSUME UNCHANGED managerVars
  PROVE  /\ \A q : RequestSame(q)
         /\ \A q \in Request : Forgets(q)
         /\ TypeOK => ManagerType'
BY DEF managerVars, RequestSame, Forgets, ManagerType, TypeOK

(* A call that does not ask has no pending request of its own.             *)
LEMMA NotAwaited ==
  ASSUME IInv, NEW c \in Call, place[c] \notin Asking, NEW s \in Stage
  PROVE  <<c, s>> \notin pending \ orphaned
<1>1. <<c, s>> \in pending \ orphaned => place[c] \in Asking
  BY Requests DEF IInv, PendingIsAwaited
<1>2. QED
  BY <1>1

LEMMA TypeParts ==
  TypeOK' <=> /\ FrameType' /\ ManagerType' /\ TokenType'
              /\ told' \in [Request -> SUBSET Answer] /\ orphaned' \subseteq Request
BY DEF TypeOK, FrameType, ManagerType, TokenType

-----------------------------------------------------------------------------
(* The steps.                                                              *)

LEMMA Initially == Init => IInv
<1> SUFFICES ASSUME Init PROVE IInv
  OBVIOUS
<1>2. TypeOK
  BY ConstantsAssumption DEF Init, TypeOK, Stage
<1>3. \A c \in Call : Local(c)
  BY Requests DEF Init, Local, CallIsWhole, StagesInOrder, FutureTells, Consent, Heeded,
                  IsResolved, Asking
<1>4. PendingIsAwaited /\ ToldIsResolved
  BY DEF Init, PendingIsAwaited, ToldIsResolved
<1>5. QED
  BY <1>2, <1>3, <1>4, Parts

(* A call ends while the manager stays as it is.                           *)
LEMMA Ends ==
  ASSUME IInv, NEW c \in Call, place[c] \notin Asking, End(c), UNCHANGED managerVars,
         TokenType', UNCHANGED <<told, orphaned>>
  PROVE  IInv'
<1>1. TypeOK
  BY DEF IInv
<1>2. /\ FrameType' /\ Local(c)' /\ \A d \in Call \ {c} : CallSame(d)
  BY <1>1, EndFrame
<1>3. /\ \A q \in Request : RequestSame(q) /\ Forgets(q)
      /\ ManagerType'
  BY <1>1, ManagerSame
<1>4. TypeOK'
  BY <1>1, <1>2, <1>3, TypeParts DEF TypeOK
<1>5. ToldIsResolved'
  BY <1>3, ToldKept DEF managerVars
<1>6. \A s \in Stage : <<c, s>> \notin pending' \ orphaned'
  BY NotAwaited DEF managerVars
<1>7. \A d \in Call \ {c} : CallSame(d) /\ \A s \in Stage : RequestSame(<<d, s>>)
  BY <1>2, <1>3, Requests
<1>8. QED
  BY <1>2, <1>4, <1>5, <1>6, <1>7, Assembled

(* A call moves on while the manager stays as it is.                       *)
LEMMA Moves ==
  ASSUME IInv, NEW c \in Call, place[c] \in Asking => stage'[c] = stage[c] /\ place'[c] \in Asking,
         FrameType', Local(c)', \A d \in Call \ {c} : CallSame(d),
         UNCHANGED managerVars, TokenType', UNCHANGED <<told, orphaned>>
  PROVE  IInv'
<1>1. TypeOK
  BY DEF IInv
<1>3. /\ \A q \in Request : RequestSame(q) /\ Forgets(q)
      /\ ManagerType'
  BY <1>1, ManagerSame
<1>4. TypeOK'
  BY <1>1, <1>3, TypeParts DEF TypeOK
<1>5. ToldIsResolved'
  BY <1>3, ToldKept DEF managerVars
<1>6. ASSUME NEW s \in Stage, <<c, s>> \in pending' \ orphaned'
      PROVE  stage'[c] = s /\ place'[c] \in Asking
  <2>1. <<c, s>> \in pending \ orphaned
    BY <1>6 DEF managerVars
  <2>2. stage[c] = s /\ place[c] \in Asking
    BY <2>1, Requests DEF IInv, PendingIsAwaited
  <2>3. QED
    BY <2>2
<1>7. \A d \in Call \ {c} : CallSame(d) /\ \A s \in Stage : RequestSame(<<d, s>>)
  BY <1>3, Requests
<1>8. QED
  BY <1>4, <1>5, <1>6, <1>7, Assembled

(* A call is about to execute: it has not asked for anything yet, or what  *)
(* it asked for first has been granted.                                    *)
LEMMA Executes ==
  ASSUME TypeOK, NEW c \in Call, Local(c), Execute(c), UNCHANGED managerVars,
         stage[c] = "preflight", place[c] \notin {"idle", "done"},
         place[c] = "reporting" => verdict[Mine(c)] = "yes",
         place[c] \in {"reporting", "backoff"}
  PROVE  FrameType' /\ Local(c)' /\ \A d \in Call \ {c} : CallSame(d)
<1>1. /\ place' \in [Call -> {"idle", "asking", "waiting", "timingOut", "reporting", "running",
                              "backoff", "escalating", "unsandboxed", "done"}]
      /\ place'[c] = "running" /\ UNCHANGED <<stage, tool, turn, verdict, heard>>
      /\ \A d \in Call \ {c} : CallSame(d)
  BY DEF Execute, TypeOK, CallSame
<1>2. attempt' \in [Call -> 0 .. MaxRetries + 1]
  <2>1. attempt[c] \in Nat /\ attempt[c] <= MaxRetries
    BY ConstantsAssumption DEF Local, CallIsWhole, TypeOK, Asking
  <2>2. attempt[c] + 1 \in 0 .. MaxRetries + 1
    BY <2>1, ConstantsAssumption
  <2>3. QED
    BY <2>2 DEF Execute, TypeOK
<1>3. FrameType'
  BY <1>1, <1>2 DEF FrameType, TypeOK
<1>4. tool[c] \in Tool /\ turn[c] \in Turn
  BY DEF Local, CallIsWhole
<1>5. CallIsWhole(c)' /\ StagesInOrder(c)' /\ FutureTells(c)'
  BY <1>1, <1>4 DEF Local, CallIsWhole, StagesInOrder, FutureTells, Asking, managerVars, IsResolved
<1>6. Consent(c)' /\ Heeded(c)'
  BY <1>1, <1>4, Requests DEF Local, CallIsWhole, Consent, Heeded, Mine, Answer, Asking
<1>7. QED
  BY <1>1, <1>3, <1>5, <1>6 DEF Local

LEMMA StepBegin ==
  ASSUME IInv, NEW c \in Call, Begin(c)
  PROVE  IInv'
<1>1. TypeOK /\ Local(c)
  BY Parts
<1>2. PICK t \in Tool, n \in Turn :
       \/ /\ Denied(t) /\ End(c) /\ UNCHANGED managerVars
       \/ /\ ~ Denied(t)
          /\ tool' = [tool EXCEPT ![c] = t] /\ turn' = [turn EXCEPT ![c] = n]
          /\ UNCHANGED <<stage, verdict, heard>>
          /\ \/ /\ AllowedSilently(t, n) /\ UNCHANGED managerVars
                /\ place' = [place EXCEPT ![c] = "running"]
                /\ attempt' = [attempt EXCEPT ![c] = 1]
             \/ /\ Asks(t, n) /\ Create(Mine(c)) /\ UNCHANGED attempt
                /\ place' = [place EXCEPT ![c] = "asking"]
  BY DEF Begin
<1>3. place[c] = "idle" /\ UNCHANGED <<token, told, orphaned>>
  BY DEF Begin
<1>4. TokenType'
  BY <1>1, <1>3 DEF TypeOK, TokenType
<1>5. /\ stage[c] = "preflight" /\ attempt[c] = 0 /\ Mine(c) = <<c, "preflight">>
      /\ <<c, "preflight">> \notin pending /\ <<c, "sandbox">> \notin pending
      /\ resolved[<<c, "preflight">>] = "none"
      /\ \A s \in Stage : heard[<<c, s>>] = "none" /\ verdict[<<c, s>>] = "none"
  BY <1>1, <1>3 DEF Local, CallIsWhole, StagesInOrder, IsResolved, Mine
<1>6. CASE Denied(t) /\ End(c) /\ UNCHANGED managerVars
  BY <1>3, <1>4, <1>6, Ends DEF Asking
<1>7. CASE /\ ~ Denied(t)
           /\ tool' = [tool EXCEPT ![c] = t] /\ turn' = [turn EXCEPT ![c] = n]
           /\ UNCHANGED <<stage, verdict, heard>>
           /\ AllowedSilently(t, n) /\ UNCHANGED managerVars
           /\ place' = [place EXCEPT ![c] = "running"]
           /\ attempt' = [attempt EXCEPT ![c] = 1]
  <2>1. /\ place'[c] = "running" /\ tool'[c] = t /\ turn'[c] = n
        /\ \A d \in Call \ {c} : CallSame(d)
    BY <1>1, <1>7 DEF TypeOK, CallSame
  <2>2. FrameType'
    BY <1>1, <1>7, ConstantsAssumption DEF TypeOK, FrameType
  <2>3. Local(c)'
    BY <1>1, <1>3, <1>5, <1>7, <2>1, Requests
    DEF Local, CallIsWhole, StagesInOrder, FutureTells, Consent, Heeded, Asking, Asks,
        managerVars, IsResolved
  <2>4. QED
    BY <1>3, <1>4, <1>7, <2>1, <2>2, <2>3, Moves DEF Asking
<1>8. CASE /\ tool' = [tool EXCEPT ![c] = t] /\ turn' = [turn EXCEPT ![c] = n]
           /\ UNCHANGED <<stage, verdict, heard>>
           /\ Asks(t, n) /\ Create(Mine(c)) /\ UNCHANGED attempt
           /\ place' = [place EXCEPT ![c] = "asking"]
  <2>1. /\ place'[c] = "asking" /\ tool'[c] = t /\ turn'[c] = n
        /\ \A d \in Call \ {c} : CallSame(d)
    BY <1>1, <1>8 DEF TypeOK, CallSame
  <2>2. FrameType'
    BY <1>1, <1>8 DEF TypeOK, FrameType
  <2>3. /\ ManagerType' /\ UNCHANGED <<resolved, evicted>>
        /\ pending' = pending \cup {<<c, "preflight">>} /\ future'[<<c, "preflight">>] = "open"
        /\ \A q \in Request : q # <<c, "preflight">> => future'[q] = future[q]
    BY <1>1, <1>5, <1>8, Requests, CreateFrame
  <2>4. TypeOK'
    BY <1>1, <1>3, <1>4, <2>2, <2>3, TypeParts DEF TypeOK
  <2>5. CallIsWhole(c)' /\ StagesInOrder(c)'
    BY <1>1, <1>3, <1>5, <1>8, <2>1, <2>3, Requests
    DEF Local, CallIsWhole, StagesInOrder, Asking, IsResolved
  <2>6. FutureTells(c)' /\ Consent(c)' /\ Heeded(c)'
    BY <1>1, <1>3, <1>5, <1>8, <2>1, <2>3, Requests
    DEF Local, FutureTells, Consent, Heeded, Asking, IsResolved, Mine
  <2>7. \A d \in Call \ {c} : CallSame(d) /\ \A s \in Stage : RequestSame(<<d, s>>)
    BY <2>1, <2>3, Requests DEF RequestSame
  <2>8. ToldIsResolved'
    BY <1>3, <2>3, ToldKept DEF Forgets
  <2>9. \A s \in Stage : <<c, s>> \in pending' \ orphaned' => stage'[c] = s /\ place'[c] \in Asking
    BY <1>5, <1>8, <2>1, <2>3, Requests DEF Asking
  <2>10. QED
    BY <1>3, <2>4, <2>5, <2>6, <2>7, <2>8, <2>9, Assembled DEF Local
<1>9. QED
  BY <1>2, <1>6, <1>7, <1>8

(* The end of a wait.                                                      *)
LEMMA StepDecide ==
  ASSUME IInv, NEW c \in Call, NEW answer \in Answer, place[c] \in Asking, Decide(c, answer),
         heard[Mine(c)] # "none" => heard[Mine(c)] = answer,
         answer = "yes" => heard[Mine(c)] = "yes" /\ ~ turn[c].unattended
  PROVE  IInv'
<1>1. TypeOK /\ Local(c)
  BY Parts
<1>2. /\ verdict' = [verdict EXCEPT ![Mine(c)] = answer]
      /\ place' = [place EXCEPT ![c] = "reporting"]
      /\ UNCHANGED <<stage, tool, turn, attempt, heard, token, told, orphaned>>
  BY DEF Decide
<1>3. /\ ManagerType'
      /\ pending' = pending \ {Mine(c)} /\ evicted \subseteq evicted'
      /\ \A q \in Request : q # Mine(c) => future'[q] = future[q] /\ Forgets(q)
      /\ resolved'[Mine(c)] = resolved[Mine(c)] \/ resolved[Mine(c)] = "none"
  BY <1>1, MineType, DiscardFrame DEF Decide
<1>4. Mine(c) \in Request /\ Mine(c) = <<c, stage[c]>> /\ stage[c] \in Stage
  BY <1>1, MineType
<1>5. /\ place'[c] = "reporting" /\ verdict'[Mine(c)] = answer
      /\ \A q \in Request : q # Mine(c) => verdict'[q] = verdict[q]
      /\ \A d \in Call \ {c} : CallSame(d)
  BY <1>1, <1>2, <1>4, Requests DEF TypeOK, CallSame
<1>6. TypeOK'
  <2>1. FrameType' /\ TokenType'
    BY <1>1, <1>2, <1>4 DEF TypeOK, FrameType, TokenType
  <2>2. QED
    BY <1>1, <1>2, <1>3, <2>1, TypeParts DEF TypeOK
<1>7. \A q \in Request : q # Mine(c) => RequestSame(q)
  BY <1>3 DEF RequestSame, Forgets
<1>8. CallIsWhole(c)'
  BY <1>1, <1>2, <1>4, <1>5 DEF Local, CallIsWhole, Asking, Mine
<1>9. StagesInOrder(c)'
  BY <1>1, <1>2, <1>4, <1>5, <1>7, Requests
  DEF Local, StagesInOrder, RequestSame, IsResolved, Asking
<1>10. FutureTells(c)' /\ Consent(c)' /\ Heeded(c)'
  BY <1>1, <1>2, <1>4, <1>5, Requests DEF Local, FutureTells, Consent, Heeded, Asking
<1>11. \A d \in Call \ {c} : CallSame(d) /\ \A s \in Stage : RequestSame(<<d, s>>)
  <2>1. ASSUME NEW d \in Call \ {c}, NEW s \in Stage
        PROVE  <<d, s>> \in Request /\ <<d, s>> # Mine(c)
    BY <1>1, NotMine
  <2>2. QED
    BY <1>5, <1>7, <2>1
<1>12. ToldIsResolved'
  BY <1>2, <1>3, ToldKept DEF Forgets
<1>13. \A s \in Stage : <<c, s>> \notin pending' \ orphaned'
  <2>1. SUFFICES ASSUME NEW s \in Stage, <<c, s>> \in pending' \ orphaned' PROVE FALSE
    OBVIOUS
  <2>2. <<c, s>> \in pending \ orphaned /\ s # stage[c]
    BY <1>2, <1>3, <1>4, <2>1
  <2>3. QED
    BY <2>2, Requests DEF IInv, PendingIsAwaited
<1>14. QED
  BY <1>2, <1>6, <1>8, <1>9, <1>10, <1>11, <1>12, <1>13, Assembled DEF Local

LEMMA StepAnnounced ==
  ASSUME IInv, NEW c \in Call, Announced(c)
  PROVE  IInv'
<1>1. TypeOK /\ Local(c) /\ place[c] = "asking"
  BY Parts DEF Announced
<1>2. CASE turn[c].unattended /\ Decide(c, "no")
  BY <1>1, <1>2, StepDecide DEF Local, FutureTells, Asking, Answer
<1>3. CASE ~ turn[c].unattended /\ GoTo(c, "waiting") /\ UNCHANGED <<managerVars, token, told, orphaned>>
  <2>1. /\ FrameType' /\ place'[c] = "waiting" /\ UNCHANGED frameVars
        /\ \A d \in Call \ {c} : CallSame(d)
    BY <1>1, <1>3, GoToFrame
  <2>2. Local(c)'
    BY <1>1, <1>3, <2>1
    DEF Local, CallIsWhole, StagesInOrder, FutureTells, Consent, Heeded, Asking, Mine, frameVars,
        managerVars, IsResolved
  <2>3. QED
    BY <1>1, <1>3, <2>1, <2>2, Moves DEF Asking, frameVars, TypeOK, TokenType
<1>4. QED
  BY <1>2, <1>3 DEF Announced

LEMMA StepWake ==
  ASSUME IInv, NEW c \in Call, Wake(c)
  PROVE  IInv'
<1>1. /\ TypeOK /\ Local(c) /\ place[c] = "waiting" /\ future[Mine(c)] \in Answer
      /\ Decide(c, future[Mine(c)])
  BY Parts DEF Wake
<1>2. /\ ~ turn[c].unattended
      /\ future[Mine(c)] = IF heard[Mine(c)] = "none" THEN "open" ELSE heard[Mine(c)]
  BY <1>1 DEF Local, CallIsWhole, FutureTells, Asking
<1>3. heard[Mine(c)] = future[Mine(c)]
  BY <1>1, <1>2 DEF Answer
<1>4. QED
  BY <1>1, <1>2, <1>3, StepDecide DEF Asking

LEMMA StepTimesOut ==
  ASSUME IInv, NEW c \in Call, TimesOut(c)
  PROVE  IInv'
<1>1. /\ TypeOK /\ Local(c) /\ place[c] = "waiting" /\ future[Mine(c)] = "open"
      /\ future' = [future EXCEPT ![Mine(c)] = "cancelled"]
      /\ GoTo(c, "timingOut")
      /\ UNCHANGED <<pending, resolved, evicted, token, told, orphaned>>
  BY Parts DEF TimesOut
<1>2. /\ FrameType' /\ place'[c] = "timingOut" /\ UNCHANGED frameVars
      /\ \A d \in Call \ {c} : CallSame(d)
  BY <1>1, GoToFrame
<1>3. Mine(c) \in Request /\ Mine(c) = <<c, stage[c]>> /\ stage[c] \in Stage
  BY <1>1, MineType
<1>4. \A q \in Request : q # Mine(c) => RequestSame(q)
  BY <1>1, <1>3 DEF RequestSame, TypeOK
<1>5. TypeOK'
  BY <1>1, <1>2 DEF TypeOK, FrameType
<1>6. ~ turn[c].unattended /\ heard[Mine(c)] = "none"
  <2>1. /\ ~ turn[c].unattended
        /\ future[Mine(c)] = IF heard[Mine(c)] = "none" THEN "open" ELSE heard[Mine(c)]
    BY <1>1 DEF Local, CallIsWhole, FutureTells, Asking
  <2>2. heard[Mine(c)] # "open"
    BY <1>1, <1>3 DEF TypeOK, Answer
  <2>3. QED
    BY <1>1, <2>1, <2>2
<1>7. Local(c)'
  BY <1>1, <1>2, <1>6
  DEF Local, CallIsWhole, StagesInOrder, FutureTells, Consent, Heeded, Asking, Mine, frameVars,
      IsResolved
<1>8. ToldIsResolved'
  BY <1>1, ToldKept DEF Forgets
<1>9. \A s \in Stage : <<c, s>> \in pending' \ orphaned' => stage'[c] = s /\ place'[c] \in Asking
  BY <1>1, <1>2, Requests DEF IInv, PendingIsAwaited, frameVars, Asking
<1>10. \A d \in Call \ {c} : CallSame(d) /\ \A s \in Stage : RequestSame(<<d, s>>)
  BY <1>2, <1>3, <1>4, Requests
<1>11. QED
  BY <1>1, <1>5, <1>7, <1>8, <1>9, <1>10, Assembled

LEMMA StepTimedOut ==
  ASSUME IInv, NEW c \in Call, TimedOut(c)
  PROVE  IInv'
<1>1. Local(c)
  BY Parts
<1>2. QED
  BY <1>1, StepDecide DEF TimedOut, Local, FutureTells, Asking, Answer

(* A call that does not ask ends, whatever becomes of the tokens.          *)
LEMMA StepReported ==
  ASSUME IInv, NEW c \in Call, Reported(c)
  PROVE  IInv'
<1>1. /\ TypeOK /\ Local(c) /\ place[c] = "reporting"
      /\ UNCHANGED <<managerVars, told, orphaned>>
  BY Parts DEF Reported
<1>2. stage[c] \in Stage /\ Mine(c) = <<c, stage[c]>>
  BY <1>1, MineType
<1>3. CASE verdict[Mine(c)] = "no" /\ End(c) /\ UNCHANGED token
  BY <1>1, <1>3, Ends DEF Asking, TypeOK, TokenType
<1>4. CASE verdict[Mine(c)] = "yes" /\ stage[c] = "preflight" /\ Execute(c) /\ UNCHANGED token
  <2>1. FrameType' /\ Local(c)' /\ \A d \in Call \ {c} : CallSame(d)
    BY <1>1, <1>4, Executes
  <2>2. QED
    BY <1>1, <1>4, <2>1, Moves DEF Asking, TypeOK, TokenType
<1>5. CASE /\ verdict[Mine(c)] = "yes" /\ stage[c] = "sandbox" /\ CanConsume(c)
           /\ Consume(c) /\ GoTo(c, "escalating")
  <2>1. /\ FrameType' /\ place'[c] = "escalating" /\ UNCHANGED frameVars
        /\ \A d \in Call \ {c} : CallSame(d)
    BY <1>1, <1>5, GoToFrame
  <2>2. TokenType'
    BY <1>1, <1>5, TokensOf DEF TypeOK, TokenType
  <2>3. heard[<<c, "sandbox">>] = "yes" /\ ~ turn[c].unattended
    BY <1>1, <1>2, <1>5 DEF Local, CallIsWhole
  <2>4. Local(c)'
    BY <1>1, <1>5, <2>1, <2>3
    DEF Local, CallIsWhole, StagesInOrder, FutureTells, Consent, Heeded, Asking, Mine, frameVars,
        managerVars, IsResolved
  <2>5. QED
    BY <1>1, <2>1, <2>2, <2>4, Moves DEF Asking
<1>6. CASE /\ verdict[Mine(c)] = "yes" /\ stage[c] = "sandbox" /\ ~ CanConsume(c)
           /\ ConsumeFails(c) /\ End(c)
  <2>1. TokenType'
    BY <1>1, <1>6, TokensOf DEF TypeOK, TokenType
  <2>2. QED
    BY <1>1, <1>6, <2>1, Ends DEF Asking
<1>7. QED
  BY <1>3, <1>4, <1>5, <1>6 DEF Reported

LEMMA StepFinish ==
  ASSUME IInv, NEW c \in Call, Finish(c)
  PROVE  IInv'
<1>1. /\ TypeOK /\ Local(c) /\ place[c] = "running"
      /\ UNCHANGED <<managerVars, token, told, orphaned>> /\ TokenType'
  BY Parts DEF Finish, TypeOK, TokenType
<1>2. CASE End(c)
  BY <1>1, <1>2, Ends DEF Asking
<1>3. CASE ShouldRetry(c) /\ GoTo(c, "backoff")
  <2>1. /\ FrameType' /\ place'[c] = "backoff" /\ UNCHANGED frameVars
        /\ \A d \in Call \ {c} : CallSame(d)
    BY <1>1, <1>3, GoToFrame
  <2>2. Local(c)'
    BY <1>1, <1>3, <2>1
    DEF Local, CallIsWhole, StagesInOrder, FutureTells, Consent, Heeded, Asking, Mine, frameVars,
        managerVars, IsResolved, ShouldRetry
  <2>3. QED
    BY <1>1, <2>1, <2>2, Moves DEF Asking
<1>4. QED
  BY <1>2, <1>3 DEF Finish

LEMMA StepRetry ==
  ASSUME IInv, NEW c \in Call, Retry(c)
  PROVE  IInv'
<1>1. /\ TypeOK /\ Local(c) /\ place[c] = "backoff" /\ Execute(c)
      /\ UNCHANGED <<managerVars, token, told, orphaned>> /\ TokenType'
  BY Parts DEF Retry, TypeOK, TokenType
<1>2. stage[c] = "preflight"
  BY <1>1 DEF Local, CallIsWhole
<1>3. FrameType' /\ Local(c)' /\ \A d \in Call \ {c} : CallSame(d)
  BY <1>1, <1>2, Executes
<1>4. QED
  BY <1>1, <1>3, Moves DEF Asking

LEMMA StepEscalationDenied ==
  ASSUME IInv, NEW c \in Call, EscalationDenied(c)
  PROVE  IInv'
<1>1. /\ TypeOK /\ place[c] = "running" /\ End(c)
      /\ UNCHANGED <<managerVars, token, told, orphaned>> /\ TokenType'
  BY DEF IInv, EscalationDenied, TypeOK, TokenType
<1>2. QED
  BY <1>1, Ends DEF Asking

LEMMA StepEscalatesAutomatically ==
  ASSUME IInv, NEW c \in Call, EscalatesAutomatically(c)
  PROVE  IInv'
<1>1. /\ TypeOK /\ Local(c) /\ place[c] = "running"
      /\ ~ turn[c].unattended /\ turn[c].auto /\ turn[c].full
      /\ UNCHANGED <<managerVars, told, orphaned>>
  BY Parts DEF EscalatesAutomatically
<1>2. PICK tk \in Rooms :
       IF HasRoom(tk)
       THEN /\ token' = [tk EXCEPT ![c] = "consumed"]
            /\ GoTo(c, "escalating")
       ELSE token' = tk /\ End(c)
  BY DEF EscalatesAutomatically
<1>3. TokenType'
  BY <1>1, <1>2, TokensOf DEF TypeOK, TokenType
<1>4. CASE End(c)
  BY <1>1, <1>3, <1>4, Ends DEF Asking
<1>5. CASE GoTo(c, "escalating")
  <2>1. /\ FrameType' /\ place'[c] = "escalating" /\ UNCHANGED frameVars
        /\ \A d \in Call \ {c} : CallSame(d)
    BY <1>1, <1>5, GoToFrame
  <2>2. Local(c)'
    BY <1>1, <2>1
    DEF Local, CallIsWhole, StagesInOrder, FutureTells, Consent, Heeded, Asking, Mine, frameVars,
        managerVars, IsResolved
  <2>3. QED
    BY <1>1, <1>3, <2>1, <2>2, Moves DEF Asking
<1>6. QED
  BY <1>2, <1>4, <1>5

(* A request is created, and its call goes on to announce it or ends.      *)
LEMMA StepEscalationAsks ==
  ASSUME IInv, NEW c \in Call, EscalationAsks(c)
  PROVE  IInv'
<1> DEFINE q == <<c, "sandbox">>
<1>1. /\ TypeOK /\ Local(c) /\ place[c] = "running"
      /\ ~ turn[c].unattended /\ ~ turn[c].auto
      /\ Create(<<c, "sandbox">>) /\ UNCHANGED told
  BY Parts DEF EscalationAsks
<1>2. PICK tk \in Rooms :
       IF HasRoom(tk)
       THEN /\ token' = [tk EXCEPT ![c] = "live"]
            /\ stage' = [stage EXCEPT ![c] = "sandbox"]
            /\ place' = [place EXCEPT ![c] = "asking"]
            /\ UNCHANGED <<tool, turn, attempt, verdict, heard, orphaned>>
       ELSE /\ token' = tk /\ End(c)
            /\ orphaned' = orphaned \cup {<<c, "sandbox">>}
  BY DEF EscalationAsks
<1>3. TokenType'
  BY <1>1, <1>2, TokensOf DEF TypeOK, TokenType
<1>4. q \in Request /\ \A d \in Call \ {c}, s \in Stage : <<d, s>> \in Request /\ <<d, s>> # q
  BY Requests
<1>5. /\ ManagerType' /\ UNCHANGED <<resolved, evicted>>
      /\ pending' = pending \cup {q} /\ future'[q] = "open"
      /\ \A r \in Request : r # q => future'[r] = future[r]
  BY <1>1, <1>4, CreateFrame
<1>6. \A r \in Request : r # q => RequestSame(r)
  BY <1>5 DEF RequestSame
<1>7. stage[c] = "preflight" /\ tool[c] \in Tool /\ turn[c] \in Turn
  BY <1>1 DEF Local, CallIsWhole
<1>8. ~ IsResolved(q) /\ heard[q] = "none" /\ verdict[q] = "none"
  BY <1>1, <1>7 DEF Local, StagesInOrder
<1>9. ToldIsResolved'
  BY <1>1, <1>5, ToldKept DEF Forgets
<1>10. \A s \in Stage : <<c, s>> \notin pending \ orphaned
  BY <1>1, NotAwaited DEF Asking
<1>11. CASE /\ stage' = [stage EXCEPT ![c] = "sandbox"]
            /\ place' = [place EXCEPT ![c] = "asking"]
            /\ UNCHANGED <<tool, turn, attempt, verdict, heard, orphaned>>
  <2>1. /\ place'[c] = "asking" /\ stage'[c] = "sandbox"
        /\ \A d \in Call \ {c} : CallSame(d)
    BY <1>1, <1>11 DEF TypeOK, CallSame
  <2>2. FrameType'
    BY <1>1, <1>11, Requests DEF TypeOK, FrameType
  <2>3. TypeOK'
    BY <1>1, <1>3, <1>5, <1>11, <2>2, TypeParts DEF TypeOK
  <2>4. CallIsWhole(c)' /\ StagesInOrder(c)'
    BY <1>1, <1>7, <1>11, <2>1, Requests DEF Local, CallIsWhole, StagesInOrder, Consent, Asking
  <2>5. FutureTells(c)'
    BY <1>1, <1>5, <1>8, <1>11, <2>1 DEF FutureTells, Asking, Mine, IsResolved
  <2>6. Consent(c)' /\ Heeded(c)'
    BY <1>1, <1>11, <2>1 DEF Local, Consent, Heeded
  <2>7. \A d \in Call \ {c} : CallSame(d) /\ \A s \in Stage : RequestSame(<<d, s>>)
    BY <1>4, <1>6, <2>1
  <2>8. \A s \in Stage : <<c, s>> \in pending' \ orphaned' => stage'[c] = s /\ place'[c] \in Asking
    BY <1>5, <1>10, <1>11, <2>1, Requests DEF Asking
  <2>9. QED
    BY <1>9, <1>11, <2>3, <2>4, <2>5, <2>6, <2>7, <2>8, Assembled DEF Local
<1>12. CASE End(c) /\ orphaned' = orphaned \cup {<<c, "sandbox">>}
  <2>1. FrameType' /\ Local(c)' /\ \A d \in Call \ {c} : CallSame(d)
    BY <1>1, <1>12, EndFrame
  <2>2. TypeOK'
    BY <1>1, <1>3, <1>4, <1>5, <1>12, <2>1, TypeParts DEF TypeOK
  <2>3. \A d \in Call \ {c} : CallSame(d) /\ \A s \in Stage : RequestSame(<<d, s>>)
    BY <1>4, <1>6, <2>1
  <2>4. \A s \in Stage : <<c, s>> \notin pending' \ orphaned'
    BY <1>5, <1>10, <1>12
  <2>5. QED
    BY <1>9, <1>12, <2>1, <2>2, <2>3, <2>4, Assembled
<1>13. QED
  BY <1>2, <1>11, <1>12

LEMMA StepEscalated ==
  ASSUME IInv, NEW c \in Call, Escalated(c)
  PROVE  IInv'
<1>1. /\ TypeOK /\ Local(c) /\ place[c] \in {"escalating", "unsandboxed"}
      /\ UNCHANGED <<managerVars, token, told, orphaned>> /\ TokenType'
  BY Parts DEF Escalated, TypeOK, TokenType
<1>2. CASE place[c] = "escalating" /\ GoTo(c, "unsandboxed")
  <2>1. /\ FrameType' /\ place'[c] = "unsandboxed" /\ UNCHANGED frameVars
        /\ \A d \in Call \ {c} : CallSame(d)
    BY <1>1, <1>2, GoToFrame
  <2>2. Local(c)'
    BY <1>1, <1>2, <2>1
    DEF Local, CallIsWhole, StagesInOrder, FutureTells, Consent, Heeded, Asking, Mine, frameVars,
        managerVars, IsResolved
  <2>3. QED
    BY <1>1, <2>1, <2>2, Moves DEF Asking
<1>3. CASE End(c)
  BY <1>1, <1>3, Ends DEF Asking
<1>4. QED
  BY <1>2, <1>3 DEF Escalated

LEMMA StepStop ==
  ASSUME IInv, NEW c \in Call, Stop(c)
  PROVE  IInv'
<1>1. /\ TypeOK /\ End(c) /\ UNCHANGED <<token, told>> /\ TokenType'
  BY DEF IInv, Stop, TypeOK, TokenType
<1>2. FrameType' /\ Local(c)' /\ \A d \in Call \ {c} : CallSame(d)
  BY <1>1, EndFrame
<1>3. Mine(c) \in Request /\ Mine(c) = <<c, stage[c]>> /\ stage[c] \in Stage
  BY <1>1, MineType
<1>4. ASSUME NEW s \in Stage, <<c, s>> \in pending \ orphaned
      PROVE  <<c, s>> = Mine(c) /\ place[c] \in Asking
  <2>1. stage[c] = s /\ place[c] \in Asking
    BY <1>4, Requests DEF IInv, PendingIsAwaited
  <2>2. QED
    BY <1>3, <2>1
<1>5. CASE place[c] = "asking" /\ orphaned' = orphaned \cup {Mine(c)} /\ UNCHANGED managerVars
  <2>1. /\ \A q \in Request : RequestSame(q) /\ Forgets(q)
        /\ ManagerType'
    BY <1>1, <1>5, ManagerSame
  <2>2. TypeOK'
    BY <1>1, <1>2, <1>3, <1>5, <2>1, TypeParts DEF TypeOK
  <2>3. ToldIsResolved'
    BY <1>1, <1>5, <2>1, ToldKept DEF managerVars
  <2>4. \A s \in Stage : <<c, s>> \notin pending' \ orphaned'
    BY <1>4, <1>5 DEF managerVars
  <2>5. \A d \in Call \ {c} : CallSame(d) /\ \A s \in Stage : RequestSame(<<d, s>>)
    BY <1>2, <2>1, Requests
  <2>6. QED
    BY <1>2, <1>5, <2>2, <2>3, <2>4, <2>5, Assembled
<1>6. CASE place[c] \in {"waiting", "timingOut"} /\ Discard(Mine(c), "none") /\ UNCHANGED orphaned
  <2>1. /\ ManagerType'
        /\ pending' = pending \ {Mine(c)} /\ evicted \subseteq evicted'
        /\ \A q \in Request : q # Mine(c) => future'[q] = future[q] /\ Forgets(q)
        /\ resolved'[Mine(c)] = resolved[Mine(c)] \/ resolved[Mine(c)] = "none"
    BY <1>1, <1>3, <1>6, DiscardFrame
  <2>2. TypeOK'
    BY <1>1, <1>2, <1>6, <2>1, TypeParts DEF TypeOK
  <2>3. ToldIsResolved'
    BY <1>1, <2>1, ToldKept DEF Forgets
  <2>4. \A s \in Stage : <<c, s>> \notin pending' \ orphaned'
    BY <1>4, <1>6, <2>1
  <2>5. \A q \in Request : q # Mine(c) => RequestSame(q)
    BY <2>1 DEF RequestSame, Forgets
  <2>6. ASSUME NEW d \in Call \ {c}, NEW s \in Stage
        PROVE  <<d, s>> \in Request /\ <<d, s>> # Mine(c)
    BY <1>1, NotMine
  <2>7. \A d \in Call \ {c} : CallSame(d) /\ \A s \in Stage : RequestSame(<<d, s>>)
    BY <1>2, <2>5, <2>6
  <2>8. QED
    BY <1>2, <1>6, <2>2, <2>3, <2>4, <2>7, Assembled
<1>7. CASE /\ place[c] \in {"reporting", "running", "backoff", "escalating", "unsandboxed"}
           /\ UNCHANGED <<managerVars, orphaned>>
  BY <1>1, <1>7, Ends DEF Asking
<1>8. QED
  BY <1>5, <1>6, <1>7 DEF Stop

LEMMA StepRespond ==
  ASSUME IInv, NEW r \in Request, NEW answer \in Answer, Respond(r, answer)
  PROVE  IInv'
<1> DEFINE c == r[1]
           u == r[2]
<1>1. TypeOK /\ c \in Call /\ u \in Stage /\ r = <<c, u>> /\ Local(c)
  BY Parts, Requests
<1> HIDE DEF c, u
<1>2. /\ UNCHANGED <<place, stage, tool, turn, attempt, verdict, token, orphaned>>
      /\ evicted \subseteq evicted' /\ ManagerType' /\ pending' = pending
      /\ \A q \in Request : q # r => future'[q] = future[q] /\ Forgets(q)
  <2>1. CASE Tell(r, resolved[r]) /\ UNCHANGED managerVars
    BY <1>1, <2>1, ManagerSame DEF Tell, managerVars
  <2>2. CASE Tell(r, answer) /\ Resolve(r, answer)
    BY <1>1, <2>2, ResolveFrame DEF Tell
  <2>3. QED
    BY <2>1, <2>2 DEF Respond
<1>3. /\ told' \in [Request -> SUBSET Answer] /\ heard' \in [Request -> {"none"} \cup Answer]
      /\ \A q \in Request : q # r => told'[q] = told[q] /\ heard'[q] = heard[q]
  <2>1. ASSUME NEW a \in Answer, Tell(r, a)
        PROVE  /\ told' \in [Request -> SUBSET Answer] /\ heard' \in [Request -> {"none"} \cup Answer]
               /\ \A q \in Request : q # r => told'[q] = told[q] /\ heard'[q] = heard[q]
    BY <1>1, <2>1 DEF Tell, TypeOK
  <2>2. IsResolved(r) => resolved[r] \in Answer
    BY <1>1 DEF IsResolved, TypeOK
  <2>3. QED
    BY <2>1, <2>2 DEF Respond
<1>4. TypeOK'
  BY <1>1, <1>2, <1>3 DEF TypeOK, ManagerType
<1>5. \A q \in Request : q # r => RequestSame(q)
  BY <1>2 DEF RequestSame, Forgets
<1>6. ASSUME NEW d \in Call \ {c}, NEW s \in Stage
      PROVE  <<d, s>> \in Request /\ <<d, s>> # r
  BY <1>1, Requests
<1>7. \A d \in Call \ {c} : CallSame(d) /\ \A s \in Stage : RequestSame(<<d, s>>)
  BY <1>2, <1>3, <1>5, <1>6 DEF CallSame
<1>8. ToldIsResolved'
  <2>1. CASE IsResolved(r) /\ Tell(r, resolved[r]) /\ UNCHANGED managerVars
    <3>1. \A q \in Request \ evicted : told[q] \subseteq {resolved[q]} \ {"none"}
      BY DEF IInv, ToldIsResolved
    <3>2. \A q \in Request : told'[q] = IF q = r THEN told[q] \cup {resolved[r]} ELSE told[q]
      BY <1>1, <2>1 DEF Tell, TypeOK
    <3>3. QED
      BY <2>1, <3>1, <3>2 DEF ToldIsResolved, managerVars, IsResolved
  <2>2. CASE ~ IsResolved(r) /\ Resolve(r, answer) /\ Tell(r, answer)
    <3>1. \A q \in Request \ evicted : told[q] \subseteq {resolved[q]} \ {"none"}
      BY DEF IInv, ToldIsResolved
    <3>2. \A q \in Request : told'[q] = IF q = r THEN told[q] \cup {answer} ELSE told[q]
      BY <1>1, <2>2 DEF Tell, TypeOK
    <3>3. resolved'[r] = answer /\ resolved[r] = "none"
      BY <1>1, <2>2, ResolveFrame DEF IsResolved
    <3>4. answer # "none"
      BY DEF Answer
    <3>5. \A q \in Request \ evicted' : told'[q] \subseteq {resolved'[q]} \ {"none"}
      BY <1>2, <3>1, <3>2, <3>3, <3>4 DEF Forgets
    <3>6. QED
      BY <3>5 DEF ToldIsResolved
  <2>3. QED
    BY <2>1, <2>2 DEF Respond
<1>9. \A s \in Stage : <<c, s>> \in pending' \ orphaned' => stage'[c] = s /\ place'[c] \in Asking
  BY <1>1, <1>2, Requests DEF IInv, PendingIsAwaited, Asking
<1>10. Local(c)'
  <2>1. CASE Listens(r)
    <3>1. /\ stage[c] = u /\ place[c] \in {"asking", "waiting"} /\ ~ turn[c].unattended
          /\ Mine(c) = r /\ c \in Call
      BY <1>1, <2>1 DEF Listens, c, u, Mine
    <3>2. /\ verdict[r] = "none"
          /\ future[r] = IF heard[r] = "none" THEN "open" ELSE heard[r]
          /\ heard[r] = "none" => ~ IsResolved(r)
      BY <1>1, <3>1 DEF Local, FutureTells, Asking
    <3>3. heard[r] \in {"none", "yes", "no"}
      BY <1>1 DEF TypeOK, Answer
    <3>4. heard'[r] \in {"yes", "no"} /\ future'[r] = heard'[r]
          /\ (heard[r] # "none" => heard'[r] = heard[r])
      <4>1. CASE IsResolved(r) /\ Tell(r, resolved[r]) /\ UNCHANGED managerVars
        BY <1>1, <2>1, <3>2, <3>3, <4>1 DEF Tell, TypeOK, managerVars
      <4>2. CASE ~ IsResolved(r) /\ Resolve(r, answer) /\ Tell(r, answer)
        <5>1. future'[r] = IF future[r] = "open" THEN answer ELSE future[r]
          BY <1>1, <4>2, ResolveFrame
        <5>2. heard'[r] = IF heard[r] = "none" THEN answer ELSE heard[r]
          BY <1>1, <2>1, <4>2 DEF Tell, TypeOK
        <5>3. QED
          BY <3>2, <3>3, <5>1, <5>2 DEF Answer
      <4>3. QED
        BY <4>1, <4>2 DEF Respond
    <3>5. \A s \in Stage : s # u => RequestSame(<<c, s>>) /\ heard'[<<c, s>>] = heard[<<c, s>>]
      BY <1>1, <1>3, <1>5, Requests
    <3>6. CallIsWhole(c)'
      BY <1>1, <1>2, <3>1, <3>2, <3>3, <3>4, <3>5 DEF Local, CallIsWhole, Mine
    <3>7. StagesInOrder(c)'
      <4>1. stage[c] = "preflight" => u # "sandbox"
        BY <3>1
      <4>2. u = "sandbox" => heard'[<<c, "preflight">>] = heard[<<c, "preflight">>]
        BY <3>5, Requests
      <4>3. u = "preflight" => /\ RequestSame(<<c, "sandbox">>)
                               /\ heard'[<<c, "sandbox">>] = heard[<<c, "sandbox">>]
        BY <3>5, Requests
      <4>4. u = "preflight" \/ u = "sandbox"
        BY <1>1, Requests
      <4>5. QED
        BY <1>1, <1>2, <3>1, <4>1, <4>2, <4>3, <4>4
        DEF Local, StagesInOrder, RequestSame, IsResolved
    <3>8. FutureTells(c)'
      BY <1>1, <1>2, <3>1, <3>2, <3>4 DEF Local, FutureTells, Asking, Mine
    <3>9. Consent(c)' /\ Heeded(c)'
      BY <1>1, <1>2, <3>1, <3>2, <3>5, Requests DEF Local, Consent, Heeded
    <3>10. QED
      BY <3>6, <3>7, <3>8, <3>9 DEF Local
  <2>2. CASE ~ Listens(r)
    <3>1. UNCHANGED heard
      BY <1>1, <2>2 DEF Respond, Tell, TypeOK
    <3>2. CASE IsResolved(r) /\ UNCHANGED managerVars
      <4>1. \A s \in Stage : RequestSame(<<c, s>>)
        BY <3>2, ManagerSame
      <4>2. QED
        BY <1>1, <1>2, <3>1, <4>1, OtherCall DEF CallSame
    <3>3. CASE ~ IsResolved(r) /\ r \in pending
      <4>1. ~ (stage[c] = u /\ place[c] \in {"asking", "waiting"} /\ ~ turn[c].unattended)
        BY <1>1, <2>2 DEF Listens, c, u
      <4>2. \A s \in Stage : s # u => RequestSame(<<c, s>>)
        BY <1>1, <1>5, Requests
      <4>3. CallIsWhole(c)'
        BY <1>1, <1>2, <3>1 DEF Local, CallIsWhole, Mine
      <4>4. StagesInOrder(c)'
        <5>1. u = "preflight" => RequestSame(<<c, "sandbox">>)
          BY <4>2, Requests
        <5>2. u = "sandbox" => RequestSame(<<c, "preflight">>)
          BY <4>2, Requests
        <5>3. u = "preflight" \/ u = "sandbox"
          BY <1>1, Requests
        <5>4. QED
          BY <1>1, <1>2, <3>1, <3>3, <5>1, <5>2, <5>3
          DEF Local, StagesInOrder, RequestSame, IsResolved
      <4>5. FutureTells(c)'
        <5>1. CASE stage[c] = u
          BY <1>1, <1>2, <3>1, <4>1, <5>1 DEF Local, FutureTells, CallIsWhole, Asking, Mine
        <5>2. CASE stage[c] # u
          <6>1. RequestSame(Mine(c))
            BY <1>1, <4>2, <5>2, MineType
          <6>2. QED
            BY <1>1, <1>2, <3>1, <6>1 DEF Local, FutureTells, Asking, Mine, RequestSame, IsResolved
        <5>3. QED
          BY <5>1, <5>2
      <4>6. Consent(c)' /\ Heeded(c)'
        BY <1>1, <1>2, <3>1 DEF Local, Consent, Heeded
      <4>7. QED
        BY <4>3, <4>4, <4>5, <4>6 DEF Local
    <3>4. QED
      BY <3>2, <3>3 DEF Respond
  <2>3. QED
    BY <2>1, <2>2
<1>11. QED
  BY <1>1, <1>2, <1>4, <1>7, <1>8, <1>9, <1>10, Assembled

(* Nothing in IInv but its type is about the tokens.                       *)
LEMMA StepTokenAges ==
  ASSUME IInv, NEW c \in Call, TokenAges(c)
  PROVE  IInv'
<1>1. /\ TypeOK /\ Local(c) /\ UNCHANGED <<place, frameVars, managerVars, told, orphaned>>
      /\ token' = [token EXCEPT ![c] = "expired"]
  BY Parts DEF TokenAges
<1>2. TokenType' /\ FrameType'
  BY <1>1 DEF TypeOK, TokenType, FrameType, frameVars
<1>3. \A d \in Call : CallSame(d)
  BY <1>1 DEF CallSame, frameVars
<1>4. Local(c)'
  BY <1>1, <1>3, ManagerSame, OtherCall
<1>5. QED
  BY <1>1, <1>2, <1>3, <1>4, Moves DEF frameVars

LEMMA Stutters == IInv /\ UNCHANGED vars => IInv'
BY DEF vars, frameVars, managerVars, IInv, TypeOK, CallIsWhole, StagesInOrder, FutureTells,
       PendingIsAwaited, ToldIsResolved, RunsWithConsent, AnswerHeeded, IsResolved, Mine

LEMMA Inductive == IInv /\ [Next]_vars => IInv'
<1> SUFFICES ASSUME IInv, [Next]_vars PROVE IInv'
  OBVIOUS
<1>1. ASSUME NEW c \in Call, CallStep(c)
      PROVE  IInv'
  BY <1>1, StepBegin, StepAnnounced, StepWake, StepTimesOut, StepTimedOut, StepReported,
     StepFinish, StepRetry, StepEscalationDenied, StepEscalatesAutomatically,
     StepEscalationAsks, StepEscalated DEF CallStep
<1>2. QED
  BY <1>1, StepStop, StepTokenAges, StepRespond, Stutters DEF Next

-----------------------------------------------------------------------------
(* The strengthening holds in every reachable state.                       *)
THEOREM Invariance == Spec => []IInv
<1>1. IInv /\ [Next]_vars => IInv'
  BY Inductive
<1>2. QED
  BY Initially, <1>1, PTL DEF Spec

(* Nothing that needs an approval runs without one that a client has given *)
(* while the call listened, and no command without its sandbox but after a *)
(* second yes or by the settings (orchestrator.execute).                   *)
THEOREM Consented == Spec => []RunsWithConsent
<1>1. IInv => RunsWithConsent
  BY DEF IInv
<1>2. QED
  BY Invariance, <1>1, PTL

(* What the listening call's client was told is what the call goes by      *)
(* (_handle_approval_request).                                             *)
THEOREM Heeding == Spec => []AnswerHeeded
<1>1. IInv => AnswerHeeded
  BY DEF IInv
<1>2. QED
  BY Invariance, <1>1, PTL

(* Clients that ask again hear the same (approve, reject and the           *)
(* resolutions that are remembered).                                       *)
THEOREM Consistency == Spec => []OneAnswer
<1>1. IInv => OneAnswer
  <2>1. SUFFICES ASSUME IInv, NEW r \in Request \ evicted
                 PROVE  Cardinality(told[r]) <= 1
    BY DEF OneAnswer
  <2>2. told[r] \subseteq {resolved[r]}
    BY <2>1 DEF IInv, ToldIsResolved
  <2>3. IsFiniteSet({resolved[r]}) /\ Cardinality({resolved[r]}) = 1
    BY FS_Singleton
  <2>4. QED
    BY <2>2, <2>3, FS_Subset
<1>2. QED
  BY Invariance, <1>1, PTL

(* What clients see as pending is awaited, or its call ended while it was  *)
(* announced (list_pending).                                               *)
THEOREM Awaited == Spec => []ListedIsAwaited
<1>1. IInv => ListedIsAwaited
  BY DEF IInv, PendingIsAwaited, ListedIsAwaited, Listed, Asking
<1>2. QED
  BY Invariance, <1>1, PTL

(* What clients see and are told is what the call goes by.                 *)
THEOREM AnswersTrue == Spec => []AnswersAreTrue
<1>1. AnswerHeeded /\ OneAnswer /\ ListedIsAwaited => AnswersAreTrue
  BY DEF AnswersAreTrue
<1>2. QED
  BY <1>1, Heeding, Consistency, Awaited, PTL

(* No live token makes room for another one                                *)
(* (_evict_consumed_for_capacity_locked).                                  *)
THEOREM GrantsAreKept == Spec => GrantIsKept
<1> DEFINE Kept1 == \A c \in Call : token[c] = "live" => token'[c] \in {"live", "expired", "consumed"}
<1>1. ASSUME IInv, [Next]_vars PROVE [Kept1]_vars
  <2>1. TokenType
    BY <1>1 DEF IInv, TypeOK, TokenType
  <2>2. ASSUME UNCHANGED token PROVE Kept1
    BY <2>2
  <2>3. ASSUME NEW c \in Call, CallStep(c) PROVE Kept1
    <3>1. CASE Begin(c) \/ Announced(c) \/ Wake(c) \/ TimesOut(c) \/ TimedOut(c)
      BY <2>2, <3>1 DEF Begin, Announced, Wake, TimesOut, TimedOut, Decide
    <3>2. CASE Reported(c)
      <4>1. CASE Consume(c)
        BY <2>1, <4>1 DEF Consume, Purged, TokenType
      <4>2. CASE ~ CanConsume(c) /\ ConsumeFails(c)
        BY <2>1, <4>2 DEF ConsumeFails, CanConsume, TokenType
      <4>3. QED
        BY <2>2, <3>2, <4>1, <4>2 DEF Reported
    <3>3. CASE Finish(c) \/ Retry(c) \/ EscalationDenied(c) \/ Escalated(c)
      BY <2>2, <3>3 DEF Finish, Retry, EscalationDenied, Escalated
    <3>4. ASSUME NEW tk \in Rooms,
                 token' = tk \/ \E v \in {"live", "consumed"} : token' = [tk EXCEPT ![c] = v]
          PROVE  Kept1
      BY <2>1, <3>4, RoomsFrame
    <3>5. CASE EscalatesAutomatically(c)
      BY <3>4, <3>5 DEF EscalatesAutomatically
    <3>6. CASE EscalationAsks(c)
      BY <3>4, <3>6 DEF EscalationAsks
    <3>7. QED
      BY <2>3, <3>1, <3>2, <3>3, <3>5, <3>6 DEF CallStep
  <2>4. ASSUME NEW c \in Call, Stop(c) \/ TokenAges(c) PROVE Kept1
    BY <2>1, <2>2, <2>4 DEF Stop, TokenAges, TokenType
  <2>5. ASSUME NEW r \in Request, NEW a \in Answer, Respond(r, a) PROVE Kept1
    BY <2>2, <2>5 DEF Respond, Tell
  <2>6. QED
    BY <1>1, <2>3, <2>4, <2>5 DEF Next
<1>2. QED
  BY Invariance, <1>1, PTL DEF Spec, GrantIsKept
=============================================================================
