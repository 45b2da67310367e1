--------------------------- MODULE ServiceProofs ---------------------------
(***************************************************************************)
(* Proofs about what serves the turns: the calls of an MCP server, the     *)
(* commands of tool calls, the channels, the evolution of memory and       *)
(* skills, the extensions and the import of skills.  The six modules share *)
(* no state; each has its inductive invariant and its theorems here.       *)
(***************************************************************************)
EXTENDS McpSession, Commands, Channels, Evolution, Extensions, SkillImport,
        FoldLemmas, FiniteSetTheorems, SequenceTheorems

-----------------------------------------------------------------------------
(* The calls and reloads of one MCP server.                                *)

LEMMA RequestNumbers ==
  /\ Cardinality(McpCall) \in Nat
  /\ McpCall = 1 .. Cardinality(McpCall)
  /\ Reload = Cardinality(McpCall) + 1 .. Cardinality(McpCall) + MaxReloads
  /\ Request \subseteq Nat \ {0} /\ McpCall \cap Reload = {}
  /\ SessionNo \subseteq Nat \ {0} /\ MaxReloads \in Nat
<1>1. Cardinality(McpCall) \in Nat
  BY McpAssumption, FS_CardinalityType
<1>2. QED
  BY <1>1, McpAssumption DEF Reload, Request, SessionNo

LEMMA McpInitInv == McpInit => McpInv
<1> SUFFICES ASSUME McpInit
             PROVE  McpInv
  OBVIOUS
<1> USE McpAssumption, RequestNumbers
<1>1. McpTypeOK
  BY DEF McpInit, McpTypeOK, SessionNo
<1>2. SessionsInOrder /\ LocksAreHeld /\ LoopListsAlone
  BY DEF McpInit, SessionsInOrder, LocksAreHeld, LoopListsAlone, Reload, Request, SessionNo
<1>3. OwnAnswer
  BY DEF McpInit, OwnAnswer
<1>4. QED
  BY <1>1, <1>2, <1>3 DEF McpInv

(* What the invariant says of the lock that the loop needs.                *)
LEMMA ListingIsApart == McpInv => CallsAreSeparate
<1> SUFFICES ASSUME McpInv, loop = "listing"
             PROVE  LoopWaitsForNoCall
  BY DEF McpInv, CallsAreSeparate, LoopWaitsForNoCall
<1> USE RequestNumbers
<1>1. Listing \in Reload /\ phase[Listing] \notin {"new", "done"}
  BY DEF McpInv, LoopListsAlone
<1>2. session[Listing] = current /\ current = reloads + 1
  BY <1>1 DEF McpInv, SessionsInOrder, Listing, McpTypeOK
<1>3. ASSUME holder[current] # 0
      PROVE  holder[current] = Listing
  <2> DEFINE r == holder[current]
  <2>1. r \in Request /\ session[r] = current /\ phase[r] \in {"locked", "ensured", "reading"}
    BY <1>3 DEF McpInv, McpTypeOK, LocksAreHeld
  <2>2. r \notin McpCall
    BY <2>1 DEF McpInv, LoopListsAlone
  <2>3. QED
    BY <2>1, <2>2 DEF McpInv, LoopListsAlone, Request
<1>4. QED
  BY <1>2, <1>3 DEF LoopWaitsForNoCall, McpInv, LoopListsAlone

LEMMA StartCallInv ==
  ASSUME McpInv, NEW c \in McpCall, StartCall(c)
  PROVE  McpInv'
<1> USE RequestNumbers DEF McpInv, StartCall, sessionVars, serverVars, loopVars
<1>1. McpTypeOK'
  BY DEF McpTypeOK, Request
<1>2. SessionsInOrder'
  BY DEF SessionsInOrder, McpTypeOK, Request
<1>3. LocksAreHeld'
  BY DEF LocksAreHeld, McpTypeOK, Request
<1>4. LoopListsAlone' /\ OwnAnswer'
  BY DEF LoopListsAlone, OwnAnswer, McpTypeOK, Request, Holds
<1>5. QED
  BY <1>1, <1>2, <1>3, <1>4

LEMMA AcquireInv ==
  ASSUME McpInv, NEW r \in Request, Acquire(r)
  PROVE  McpInv'
<1> USE RequestNumbers DEF McpInv, Acquire, serverVars, loopVars
<1>1. McpTypeOK'
  BY DEF McpTypeOK
<1>2. SessionsInOrder' /\ LocksAreHeld' /\ OwnAnswer'
  BY DEF SessionsInOrder, LocksAreHeld, OwnAnswer, McpTypeOK
<1>3. LoopListsAlone'
  BY DEF LoopListsAlone, McpTypeOK, Holds, Listing, Request
<1>4. QED
  BY <1>1, <1>2, <1>3

(* A request that holds its lock and goes on to hold it.                   *)
LEMMA GoesOnInv ==
  ASSUME McpInv, NEW r \in Request, NEW p \in {"ensured", "reading"},
         phase[r] \in {"locked", "ensured"},
         phase' = [phase EXCEPT ![r] = p],
         UNCHANGED <<current, holder, session, reply, loopVars>>
  PROVE  McpInv'
<1> USE RequestNumbers DEF McpInv, loopVars
<1>1. McpTypeOK'
  BY DEF McpTypeOK
<1>2. SessionsInOrder' /\ LocksAreHeld' /\ OwnAnswer'
  BY DEF SessionsInOrder, LocksAreHeld, OwnAnswer, McpTypeOK
<1>3. LoopListsAlone'
  BY DEF LoopListsAlone, McpTypeOK, Holds, Listing, Request
<1>4. QED
  BY <1>1, <1>2, <1>3

LEMMA LeaveInv ==
  ASSUME McpInv, NEW r \in Request, NEW line \in {r, Failed},
         phase[r] \in {"locked", "ensured", "reading"}, Leave(r, line)
  PROVE  McpInv'
<1> USE RequestNumbers DEF McpInv, Leave
<1>1. McpTypeOK'
  BY DEF McpTypeOK
<1>2. SessionsInOrder'
  <2>1. r \in Reload => loop = "listing"
    BY DEF LoopListsAlone
  <2>2. QED
    BY <2>1 DEF SessionsInOrder, McpTypeOK
<1>3. LocksAreHeld' /\ OwnAnswer'
  BY DEF LocksAreHeld, LoopListsAlone, Holds, OwnAnswer, McpTypeOK
<1>4. LoopListsAlone'
  BY DEF LoopListsAlone, LocksAreHeld, McpTypeOK, Holds, Listing, Request
<1>5. QED
  BY <1>1, <1>2, <1>3, <1>4

LEMMA BeginReloadInv ==
  ASSUME McpInv, BeginReload
  PROVE  McpInv'
<1> USE RequestNumbers DEF McpInv, BeginReload, requestVars
<1>1. McpTypeOK'
  BY DEF McpTypeOK
<1>2. SessionsInOrder' /\ LocksAreHeld' /\ LoopListsAlone' /\ OwnAnswer'
  BY DEF SessionsInOrder, LocksAreHeld, LoopListsAlone, OwnAnswer, Holds, McpTypeOK
<1>3. QED
  BY <1>1, <1>2

LEMMA EndReloadInv ==
  ASSUME McpInv, EndReload
  PROVE  McpInv'
<1> USE RequestNumbers DEF McpInv, EndReload, Replace
<1>1. /\ current = reloads /\ current' = current + 1
      /\ Listing \in Reload /\ Listing' = Listing /\ Listing \notin McpCall
  BY DEF SessionsInOrder, McpTypeOK, Listing, SessionNo
<1>2. McpTypeOK'
  BY <1>1 DEF McpTypeOK, SessionNo, Request
<1>3. SessionsInOrder'
  <2>1. current' = reloads' + 1 /\ loop' # "closing"
    BY <1>1
  <2>2. \A c \in McpCall : session'[c] <= current'
    <3> SUFFICES ASSUME NEW c \in McpCall
                 PROVE  session'[c] <= current'
      OBVIOUS
    <3>1. session'[c] = session[c] /\ session[c] <= current
      BY <1>1 DEF SessionsInOrder
    <3>2. session[c] \in Nat /\ current \in Nat
      BY DEF McpTypeOK, Request
    <3>3. QED
      BY <1>1, <3>1, <3>2
  <2>3. \A r \in Reload : phase'[r] # "new" => session'[r] = r - Cardinality(McpCall) + 1
    BY <1>1 DEF SessionsInOrder, McpTypeOK, Listing, Request
  <2>4. QED
    BY <2>1, <2>2, <2>3 DEF SessionsInOrder
<1>4. LocksAreHeld' /\ OwnAnswer'
  BY <1>1 DEF LocksAreHeld, OwnAnswer, LoopListsAlone, McpTypeOK
<1>5. LoopListsAlone'
  BY <1>1 DEF LoopListsAlone, SessionsInOrder, McpTypeOK, Holds, Request, SessionNo
<1>6. QED
  BY <1>2, <1>3, <1>4, <1>5

LEMMA McpStep == McpInv /\ [McpNext]_mcpVars => McpInv'
<1> SUFFICES ASSUME McpInv, [McpNext]_mcpVars
             PROVE  McpInv'
  OBVIOUS
<1>1. ASSUME NEW c \in McpCall, StartCall(c)
      PROVE  McpInv'
  BY <1>1, StartCallInv
<1>2. ASSUME NEW r \in Request, Acquire(r)
      PROVE  McpInv'
  BY <1>2, AcquireInv
<1>3. ASSUME NEW r \in Request, EnsureProcess(r)
      PROVE  McpInv'
  BY <1>3, GoesOnInv DEF EnsureProcess
<1>4. ASSUME NEW r \in Request, StartFails(r)
      PROVE  McpInv'
  BY <1>4, LeaveInv DEF StartFails
<1>5. ASSUME NEW r \in Request, Write(r)
      PROVE  McpInv'
  BY <1>5, GoesOnInv, LeaveInv DEF Write, sessionVars
<1>6. ASSUME NEW r \in Request, Read(r)
      PROVE  McpInv'
  <2>1. CASE \E line \in {r, Failed} : Leave(r, line)
    BY <1>6, <2>1, LeaveInv DEF Read
  <2>2. CASE UNCHANGED <<sessionVars, requestVars, loopVars>>
    BY <2>2 DEF McpInv, McpTypeOK, SessionsInOrder, LocksAreHeld, LoopListsAlone, OwnAnswer, Holds,
                Listing, sessionVars, requestVars, loopVars
  <2>3. QED
    BY <1>6, <2>1, <2>2 DEF Read
<1>7. CASE UNCHANGED <<sessionVars, requestVars, loopVars>>
  BY <1>7 DEF McpInv, McpTypeOK, SessionsInOrder, LocksAreHeld, LoopListsAlone, OwnAnswer, Holds,
              Listing, sessionVars, requestVars, loopVars
<1>8. ASSUME NEW p \in ProcessNo, Serve(p) \/ PrintsALine(p) \/ Ends(p)
      PROVE  McpInv'
  BY <1>7, <1>8 DEF Serve, PrintsALine, Ends
<1>9. CASE UNCHANGED mcpVars
  BY <1>7, <1>9 DEF mcpVars
<1>10. QED
  BY <1>1, <1>2, <1>3, <1>4, <1>5, <1>6, <1>8, <1>9, BeginReloadInv, EndReloadInv DEF McpNext

(* The inductive invariant of an MCP server's calls and reloads.           *)
THEOREM McpInvariance == McpSpec => []McpInv
BY McpInitInv, McpStep, PTL DEF McpSpec

(* A call returns the answer to its own request, and while a reload lists  *)
(* the tools on the event loop, no tool call has its session or its lock.  *)
THEOREM CallsStayApart == McpSpec => []CallsAreSeparate
BY McpInvariance, ListingIsApart, PTL

-----------------------------------------------------------------------------
(* The commands of tool calls.                                             *)

LEMMA CommandInitInv == CommandInit => CommandInv
BY CommandAssumption
   DEF CommandInit, CommandInv, CommandTypeOK, ProcessIsRun, HelperIsLeft, CutShort, WritesAreNew,
       WritesAreReported, EndedByItself, Stage, Results, Native

(* A step of one call, which leaves the files alone.                       *)
CallMoves(c) ==
  /\ UNCHANGED <<runner, files>>
  /\ \A d \in Call \ {c} :
       /\ stage'[d] = stage[d] /\ result'[d] = result[d] /\ temp'[d] = temp[d]
       /\ process'[d] = process[d] /\ helper'[d] = helper[d] /\ stray'[d] = stray[d]
       /\ before'[d] = before[d] /\ wrote'[d] = wrote[d] /\ reported'[d] = reported[d]

CallOK(c) ==
  /\ ProcessIsRun(c) /\ HelperIsLeft(c) /\ CutShort(c)
  /\ c \in Terminal => WritesAreNew(c) /\ WritesAreReported(c)

LEMMA CallMovesInv ==
  ASSUME CommandInv, NEW c \in Call, CommandTypeOK', CallMoves(c), CallOK(c)'
  PROVE  CommandInv'
<1>1. \A d \in Call \ {c} : (ProcessIsRun(d) /\ HelperIsLeft(d) /\ CutShort(d))'
  BY DEF CommandInv, CallMoves, ProcessIsRun, HelperIsLeft, CutShort, EndedByItself, Native
<1>2. \A d \in Terminal \ {c} : (WritesAreNew(d) /\ WritesAreReported(d))'
  BY CommandAssumption DEF CommandInv, CallMoves, WritesAreNew, WritesAreReported, EndedByItself
<1>3. QED
  BY <1>1, <1>2, CommandAssumption DEF CommandInv, CallOK

(* What an attempt that ends has written is reported.                      *)
LEMMA NewWritesAreReported ==
  ASSUME CommandTypeOK, NEW c \in Call, WritesAreNew(c)
  PROVE  wrote[c] \subseteq OutputFiles(before[c], files)
BY DEF CommandTypeOK, WritesAreNew, OutputFiles, OutputCandidates

(* An attempt begins with the files as they are.                           *)
LEMMA SnapshotIsExact ==
  ASSUME CommandTypeOK
  PROVE  Snapshot(files) = files
BY DEF CommandTypeOK, Snapshot, OutputCandidates

(* A call gives up what it has and goes on to another place.               *)
Frees(c) ==
  /\ UNCHANGED <<runner, files, wrote>>
  /\ process' \in [Call -> {"none", "alive", "gone"}] /\ process'[c] # "alive"
  /\ temp' \in [Call -> {"none", "held", "lost"}] /\ temp'[c] # "held"
  /\ helper' \in [Call -> BOOLEAN]
  /\ stray' \in [Call -> BOOLEAN] /\ (stray'[c] => ~ Native)
  /\ \A d \in Call \ {c} :
       /\ process'[d] = process[d] /\ temp'[d] = temp[d]
       /\ helper'[d] = helper[d] /\ stray'[d] = stray[d]

LEMMA EndsWithInv ==
  ASSUME CommandInv, NEW c \in Call, NEW r \in Results, Frees(c), EndsWith(c, r),
         r \in {"success", "failed", "denied"} => ~ helper'[c]
  PROVE  CommandInv'
<1> USE DEF EndsWith, AfterAttempt, GoTo, Result
<1>1. CommandTypeOK'
  <2>1. OutputFiles(before[c], files) \in SUBSET CommandFile
    BY DEF OutputFiles, OutputCandidates
  <2>2. QED
    BY <2>1 DEF CommandInv, CommandTypeOK, Frees, Stage, Over
<1>2. CallMoves(c)
  BY DEF CommandInv, CommandTypeOK, Frees, CallMoves
<1>3. stage'[c] \in {"backoff", "answered"} /\ result'[c] = r
  BY DEF CommandInv, CommandTypeOK
<1>4. ProcessIsRun(c)' /\ HelperIsLeft(c)' /\ CutShort(c)'
  BY <1>3 DEF Frees, ProcessIsRun, HelperIsLeft, CutShort, EndedByItself, Native
<1>5. ASSUME c \in Terminal
      PROVE  WritesAreNew(c)' /\ WritesAreReported(c)'
  <2>1. WritesAreNew(c)
    BY <1>5 DEF CommandInv
  <2>2. reported'[c] = OutputFiles(before[c], files)
    BY <1>5 DEF CommandInv, CommandTypeOK
  <2>3. wrote[c] \subseteq reported'[c]
    BY <2>1, <2>2, NewWritesAreReported DEF CommandInv
  <2>4. QED
    BY <2>1, <2>3 DEF Frees, WritesAreNew, WritesAreReported
<1>6. QED
  BY <1>1, <1>2, <1>4, <1>5, CallMovesInv DEF CallOK

LEMMA RaisesInv ==
  ASSUME CommandInv, NEW c \in Call, NEW r \in {"timeout", "interrupt", "error"}, Frees(c), Raises(c, r)
  PROVE  CommandInv'
<1> USE DEF Raises, AfterAttempt, GoTo, Result
<1>1. CommandTypeOK'
  <2>1. stage' \in [Call -> Stage] /\ result' \in [Call -> Results]
    BY DEF CommandInv, CommandTypeOK, Stage, Over, Results
  <2>2. reported' \in [Call -> SUBSET CommandFile]
    BY DEF CommandInv, CommandTypeOK
  <2>3. QED
    BY <2>1, <2>2 DEF CommandInv, CommandTypeOK, Frees
<1>2. CallMoves(c)
  BY DEF CommandInv, CommandTypeOK, Frees, CallMoves
<1>3. stage'[c] \in Over /\ result'[c] = r
  BY DEF CommandInv, CommandTypeOK, Over
<1>4. ProcessIsRun(c)' /\ HelperIsLeft(c)' /\ CutShort(c)'
  BY <1>3 DEF Frees, ProcessIsRun, HelperIsLeft, CutShort, EndedByItself, Native, Over
<1>5. ASSUME c \in Terminal
      PROVE  WritesAreNew(c)' /\ WritesAreReported(c)'
  BY <1>3, <1>5 DEF CommandInv, Frees, WritesAreNew, WritesAreReported, EndedByItself
<1>6. QED
  BY <1>1, <1>2, <1>4, <1>5, CallMovesInv DEF CallOK

(* It stays in the middle of its attempt.                                  *)
LEMMA GoesToInv ==
  ASSUME CommandInv, NEW c \in Call, NEW s \in Stage \ Over, NEW r \in Results,
         GoTo(c, s), result' = [result EXCEPT ![c] = r] \/ result' = result,
         UNCHANGED <<runner, callVars, files, wrote>>,
         process' \in [Call -> {"none", "alive", "gone"}], process'[c] = "alive" => s = "running",
         temp' = temp,
         temp[c] = "held" => s \in {"starting", "running", "draining", "cleaning"},
         helper' \in [Call -> BOOLEAN],
         helper'[c] => s \notin {"new", "starting", "checked", "cleaning"},
         s = "aborting" => result'[c] \in {"timeout", "interrupt"},
         stray' \in [Call -> BOOLEAN], stray'[c] => ~ Native,
         \A d \in Call \ {c} :
           process'[d] = process[d] /\ helper'[d] = helper[d] /\ stray'[d] = stray[d]
  PROVE  CommandInv'
<1> USE DEF GoTo, callVars
<1>1. CommandTypeOK'
  BY DEF CommandInv, CommandTypeOK
<1>2. CallMoves(c)
  BY DEF CommandInv, CommandTypeOK, CallMoves
<1>3. stage'[c] = s
  BY DEF CommandInv, CommandTypeOK
<1>4. ProcessIsRun(c)' /\ HelperIsLeft(c)' /\ CutShort(c)'
  BY <1>3 DEF CommandInv, ProcessIsRun, HelperIsLeft, CutShort, EndedByItself, Native, Over
<1>5. ASSUME c \in Terminal
      PROVE  WritesAreNew(c)' /\ WritesAreReported(c)'
  BY <1>3, <1>5 DEF CommandInv, WritesAreNew, WritesAreReported, EndedByItself, Over
<1>6. QED
  BY <1>1, <1>2, <1>4, <1>5, CallMovesInv DEF CallOK

LEMMA RunEndsInv ==
  ASSUME CommandInv, NEW c \in Call, NEW r \in Results, Frees(c), RunEnds(c, r), ~ helper'[c]
  PROVE  CommandInv'
<1>1. CASE EndsWith(c, r)
  BY <1>1, EndsWithInv
<1>2. CASE GoTo(c, "checked") /\ Result(c, r) /\ UNCHANGED callVars
  <2> USE DEF GoTo, Result, callVars
  <2>1. CommandTypeOK'
    BY <1>2 DEF CommandInv, CommandTypeOK, Frees, Stage
  <2>2. CallMoves(c)
    BY <1>2 DEF CommandInv, CommandTypeOK, Frees, CallMoves
  <2>3. stage'[c] = "checked"
    BY <1>2 DEF CommandInv, CommandTypeOK
  <2>4. CallOK(c)'
    BY <1>2, <2>3 DEF CommandInv, Frees, CallOK, ProcessIsRun, HelperIsLeft, CutShort, EndedByItself, Native,
                      WritesAreNew, WritesAreReported
  <2>5. QED
    BY <2>1, <2>2, <2>4, CallMovesInv
<1>3. QED
  BY <1>1, <1>2 DEF RunEnds

(* A provider's run: what was prepared is freed, and the directory first.  *)
LEMMA RunCleanupInv ==
  ASSUME CommandInv, NEW c \in Call, NEW r \in Results, RunCleanup(c, r), ~ Native,
         UNCHANGED <<runner, files, wrote, temp>>,
         process' \in [Call -> {"none", "alive", "gone"}], process'[c] # "alive",
         helper' \in [Call -> BOOLEAN], ~ helper'[c],
         stray' \in [Call -> BOOLEAN],
         \A d \in Call \ {c} :
           process'[d] = process[d] /\ helper'[d] = helper[d] /\ stray'[d] = stray[d]
  PROVE  CommandInv'
<1>1. CASE temp[c] = "held"
  <2>1. GoTo(c, "cleaning") /\ Result(c, r) /\ UNCHANGED callVars
    BY <1>1 DEF RunCleanup
  <2>2. "cleaning" \in Stage \ Over
    BY DEF Stage, Over
  <2>3. QED
    BY <2>1, <2>2, GoesToInv DEF Result, Native
<1>2. CASE temp[c] # "held"
  <2>1. Frees(c)
    BY <1>2 DEF Frees, Native, CommandInv, CommandTypeOK
  <2>2. QED
    BY <1>2, <2>1, RaisesInv, RunEndsInv DEF RunCleanup
<1>3. QED
  BY <1>1, <1>2


(* An attempt begins, and is refused or on its way.                        *)
LEMMA BeginsInv ==
  ASSUME CommandInv, NEW c \in Call, NEW p, Begins(c, p), stage[c] \in {"new", "backoff", "checked"},
         NEW s \in {"starting", "backoff", "answered"}, GoTo(c, s),
         \/ result' = result /\ s = "starting"
         \/ \E r \in {"unavailable", "refused"} : Result(c, r),
         temp' = temp \/ \E t \in {"none", "held", "lost"} : temp' = [temp EXCEPT ![c] = t],
         temp'[c] = "held" => ~ Native /\ s = "starting"
  PROVE  CommandInv'
<1> USE DEF Begins, GoTo, Result
<1>1. CommandTypeOK'
  <2>1. before' \in [Call -> [CommandFile -> Nat]]
    BY SnapshotIsExact DEF CommandInv, CommandTypeOK
  <2>2. stage' \in [Call -> Stage]
    BY DEF CommandInv, CommandTypeOK, Stage, Over
  <2>3. temp' \in [Call -> {"none", "held", "lost"}]
    BY DEF CommandInv, CommandTypeOK
  <2>4. result' \in [Call -> Results]
    <3>1. CASE result' = result
      BY <3>1 DEF CommandInv, CommandTypeOK
    <3>2. CASE \E r \in {"unavailable", "refused"} : Result(c, r)
      BY <3>2 DEF CommandInv, CommandTypeOK, Results
    <3>3. QED
      BY <3>1, <3>2
  <2>5. QED
    BY <2>1, <2>2, <2>3, <2>4 DEF CommandInv, CommandTypeOK
<1>2. CallMoves(c)
  BY DEF CommandInv, CommandTypeOK, CallMoves
<1>3. stage'[c] = s /\ process'[c] = "none" /\ helper'[c] = FALSE /\ wrote'[c] = {}
  BY DEF CommandInv, CommandTypeOK
<1>4. ProcessIsRun(c)' /\ HelperIsLeft(c)' /\ CutShort(c)'
  BY <1>3 DEF CommandInv, ProcessIsRun, HelperIsLeft, CutShort, Native
<1>5. ASSUME c \in Terminal
      PROVE  WritesAreNew(c)' /\ WritesAreReported(c)'
  <2>1. before'[c] = files /\ files' = files
    BY <1>5, SnapshotIsExact DEF CommandInv, CommandTypeOK
  <2>2. QED
    BY <1>3, <2>1 DEF CommandInv, CommandTypeOK, WritesAreNew, WritesAreReported
<1>6. QED
  BY <1>1, <1>2, <1>4, <1>5, CallMovesInv DEF CallOK

LEMMA SandboxInv ==
  ASSUME CommandInv, NEW c \in Call, NEW p, NEW n, Begins(c, p),
         stage[c] \in {"new", "backoff", "checked"},
         NativeSandbox(c, n) \/ PrepareProviderInvocation(c, n)
  PROVE  CommandInv'
<1>1. temp[c] # "held"
  BY DEF CommandInv, ProcessIsRun
<1>2. ASSUME NativeSandbox(c, n)
      PROVE  CommandInv'
  <2>1. temp' = temp /\ temp'[c] # "held"
    BY <1>1, <1>2 DEF NativeSandbox
  <2>2. CASE GoTo(c, "starting") /\ UNCHANGED result
    BY <1>2, <2>1, <2>2, BeginsInv
  <2>3. CASE Unavailable(c, n)
    BY <1>2, <2>1, <2>3, BeginsInv DEF Unavailable
  <2>4. QED
    BY <1>2, <2>2, <2>3 DEF NativeSandbox
<1>3. ASSUME PrepareProviderInvocation(c, n)
      PROVE  CommandInv'
  <2>1. ~ Native
    BY <1>3 DEF PrepareProviderInvocation
  <2>2. CASE GoTo(c, "starting") /\ UNCHANGED result
             /\ temp' = [temp EXCEPT ![c] = IF runner = "seatbelt" THEN "held" ELSE @]
    <3>1. \E t \in {"none", "held", "lost"} : temp' = [temp EXCEPT ![c] = t]
      BY <2>2 DEF CommandInv, CommandTypeOK
    <3>2. QED
      BY <2>1, <2>2, <3>1, BeginsInv
  <2>3. CASE Unavailable(c, n) /\ (temp' = temp \/ temp' = [temp EXCEPT ![c] = "lost"])
    <3>1. temp'[c] # "held"
      BY <1>1, <2>3 DEF CommandInv, CommandTypeOK
    <3>2. \E s \in {"backoff", "answered"} : GoTo(c, s)
      BY <2>3 DEF Unavailable
    <3>3. Result(c, "unavailable")
      BY <2>3 DEF Unavailable
    <3>4. QED
      BY <2>3, <3>1, <3>2, <3>3, BeginsInv
  <2>4. QED
    BY <1>3, <2>2, <2>3 DEF PrepareProviderInvocation
<1>4. QED
  BY <1>2, <1>3

LEMMA AttemptsInv ==
  ASSUME CommandInv, NEW c \in Call, NEW n, stage[c] \in {"new", "backoff"}, Attempts(c, n)
  PROVE  CommandInv'
<1>1. CASE ExecuteCommand(c, n)
  BY <1>1, SandboxInv DEF ExecuteCommand, RunShellToolResult, ExecuteShell
<1>2. ASSUME Begins(c, "command"), Result(c, "refused"), GoTo(c, "answered"), UNCHANGED temp
      PROVE  CommandInv'
  <2>1. temp'[c] # "held"
    BY <1>2 DEF CommandInv, ProcessIsRun
  <2>2. QED
    BY <1>2, <2>1, BeginsInv
<1>3. ASSUME NEW p \in {"status", "command"}, Begins(c, p), RunPluginArgv(c, n)
      PROVE  CommandInv'
  BY <1>3, SandboxInv DEF RunPluginArgv, ExecuteArgv
<1>4. QED
  BY <1>1, <1>2, <1>3 DEF Attempts, RunPreflight


LEMMA StagesOfAttempts ==
  /\ \A s \in {"starting", "checked", "running", "draining", "stopping", "aborting", "cleaning"} :
       s \in Stage \ Over
  /\ \A r \in ExitResults \cup {"runner", "timeout", "interrupt", "error"} : r \in Results
BY DEF Stage, Over, Results, ExitResults

(* A call whose process is not alive gives up nothing, or its directory.   *)
LEMMA NothingToFree ==
  ASSUME CommandInv, NEW c \in Call, stage[c] # "running", UNCHANGED <<runner, worldVars, processVars>>,
         \/ temp' = temp /\ (Native \/ temp[c] # "held")
         \/ temp' = [temp EXCEPT ![c] = "none"]
  PROVE  Frees(c)
<1>1. process[c] # "alive" /\ (Native => temp[c] # "held") /\ (stray[c] => ~ Native)
  BY DEF CommandInv, ProcessIsRun
<1>2. temp' \in [Call -> {"none", "held", "lost"}] /\ temp'[c] # "held"
      /\ \A d \in Call \ {c} : temp'[d] = temp[d]
  BY <1>1 DEF CommandInv, CommandTypeOK
<1>3. QED
  BY <1>1, <1>2 DEF Frees, CommandInv, CommandTypeOK, worldVars, processVars

LEMMA SpawnedInv ==
  ASSUME CommandInv, NEW c \in Call, stage[c] = "starting", Spawned(c)
  PROVE  CommandInv'
<1> USE DEF Spawned, worldVars
<1>1. process' \in [Call -> {"none", "alive", "gone"}]
      /\ \A d \in Call \ {c} : process'[d] = process[d]
  BY DEF CommandInv, CommandTypeOK
<1>2. helper[c] => FALSE
  BY DEF CommandInv, HelperIsLeft
<1>3. stray[c] => ~ Native
  BY DEF CommandInv, ProcessIsRun
<1>4. result[c] \in Results /\ helper \in [Call -> BOOLEAN] /\ stray \in [Call -> BOOLEAN]
  BY DEF CommandInv, CommandTypeOK
<1>5. QED
  BY <1>1, <1>2, <1>3, <1>4, StagesOfAttempts, GoesToInv

LEMMA ExecuteInv ==
  ASSUME CommandInv, NEW c \in Call, stage[c] = "starting",
         \/ Native /\ (Spawned(c) \/ \E r \in {"error", "runner"} : Fails(c, r))
         \/ RunProviderArgv(c)
  PROVE  CommandInv'
<1>1. CASE Spawned(c)
  BY <1>1, SpawnedInv
<1>2. ASSUME Native, NEW r \in {"error", "runner"}, Fails(c, r)
      PROVE  CommandInv'
  <2>1. Frees(c)
    BY <1>2, NothingToFree DEF Fails
  <2>2. QED
    BY <1>2, <2>1, RaisesInv, EndsWithInv, StagesOfAttempts DEF Fails
<1>3. ASSUME RunCleanup(c, "runner"), ~ Native, UNCHANGED <<runner, temp, worldVars, processVars>>
      PROVE  CommandInv'
  <2>1. process[c] # "alive" /\ ~ helper[c]
    BY DEF CommandInv, ProcessIsRun, HelperIsLeft, CutShort
  <2>2. QED
    BY <1>3, <2>1, RunCleanupInv, StagesOfAttempts DEF CommandInv, CommandTypeOK, worldVars, processVars
<1>4. QED
  BY <1>1, <1>2, <1>3 DEF RunProviderArgv

LEMMA CleanedInv ==
  ASSUME CommandInv, NEW c \in Call, Cleaned(c)
  PROVE  CommandInv'
<1>1. Frees(c)
  BY NothingToFree DEF Cleaned
<1>2. ~ helper'[c] /\ result[c] \in Results
  BY DEF Cleaned, processVars, CommandInv, CommandTypeOK, HelperIsLeft
<1>3. QED
  BY <1>1, <1>2, RaisesInv, RunEndsInv DEF Cleaned

LEMMA WritesInv ==
  ASSUME CommandInv, NEW c \in Call, NEW f \in CommandFile, Writes(c, f)
  PROVE  CommandInv'
<1>a. files' = [files EXCEPT ![f] = files[f] + 1]
  BY DEF Writes
<1>b. \/ /\ process[c] = "alive" \/ helper[c]
         /\ wrote' = [wrote EXCEPT ![c] = IF c \in Terminal THEN wrote[c] \cup {f} ELSE wrote[c]]
      \/ wrote' = wrote
  BY DEF Writes
<1>c. UNCHANGED <<runner, stage, result, temp, before, reported, process, helper, stray>>
  BY DEF Writes, callVars, processVars
<1>d. files \in [CommandFile -> Nat] /\ before \in [Call -> [CommandFile -> Nat]] /\ wrote \in [Call -> SUBSET CommandFile]
  BY DEF CommandInv, CommandTypeOK
<1>1. files' \in [CommandFile -> Nat] /\ \A g \in CommandFile : files'[g] = IF g = f THEN files[g] + 1 ELSE files[g]
  BY <1>a, <1>d
<1>2. wrote' \in [Call -> SUBSET CommandFile]
  BY <1>b, <1>d
<1>3. CommandTypeOK'
  BY <1>1, <1>2, <1>c DEF CommandInv, CommandTypeOK
<1>4. \A d \in Call : (ProcessIsRun(d) /\ HelperIsLeft(d) /\ CutShort(d))'
  BY <1>c DEF CommandInv, ProcessIsRun, HelperIsLeft, CutShort, EndedByItself, Native
<1>5. ASSUME NEW d \in Terminal
      PROVE  (WritesAreNew(d) /\ WritesAreReported(d))'
  <2>0. d \in Call
    BY CommandAssumption
  <2>1. ASSUME NEW g \in CommandFile
        PROVE  before[d][g] <= files'[g] /\ (g \in wrote'[d] => before[d][g] < files'[g])
    <3>1. before[d][g] \in Nat /\ files[g] \in Nat
      BY <1>d, <2>0
    <3>2. before[d][g] <= files[g] /\ (g \in wrote[d] => before[d][g] < files[g])
      BY DEF CommandInv, WritesAreNew
    <3>3. g \in wrote'[d] => g \in wrote[d] \/ g = f
      BY <1>b, <1>d, <2>0
    <3>4. files'[g] = IF g = f THEN files[g] + 1 ELSE files[g]
      BY <1>1
    <3>5. QED
      BY <3>1, <3>2, <3>3, <3>4
  <2>2. EndedByItself(d) => wrote'[d] = wrote[d]
    <3>1. EndedByItself(d) => process[d] # "alive" /\ ~ helper[d]
      BY <2>0 DEF CommandInv, ProcessIsRun, HelperIsLeft, CutShort, EndedByItself
    <3>2. QED
      BY <3>1, <1>b, <1>d, <2>0
  <2>3. WritesAreReported(d)'
    BY <1>c, <2>2 DEF CommandInv, WritesAreReported, EndedByItself
  <2>4. QED
    BY <1>c, <2>1, <2>3 DEF WritesAreNew
<1>6. QED
  BY <1>3, <1>4, <1>5 DEF CommandInv

LEMMA HelperInv ==
  ASSUME CommandInv, NEW c \in Call, LeavesHelper(c) \/ HelperEnds(c)
  PROVE  CommandInv'
<1> USE DEF LeavesHelper, HelperEnds, callVars, worldVars
<1>1. CommandTypeOK'
  BY DEF CommandInv, CommandTypeOK
<1>2. CallMoves(c)
  BY DEF CommandInv, CommandTypeOK, CallMoves
<1>3. (helper'[c] => helper[c] \/ process[c] = "alive") /\ (stray'[c] => stray[c])
  BY DEF CommandInv, CommandTypeOK
<1>4. CallOK(c)'
  BY <1>3 DEF CommandInv, CallOK, ProcessIsRun, HelperIsLeft, CutShort, EndedByItself, Native, WritesAreNew,
              WritesAreReported
<1>5. QED
  BY <1>1, <1>2, <1>4, CallMovesInv

LEMMA ExitsInv ==
  ASSUME CommandInv, NEW c \in Call, Exits(c)
  PROVE  CommandInv'
<1> USE DEF Exits, worldVars
<1>1. process' \in [Call -> {"none", "alive", "gone"}] /\ process'[c] = "gone"
      /\ \A d \in Call \ {c} : process'[d] = process[d]
  BY DEF CommandInv, CommandTypeOK
<1>2. PICK r \in Results : result' = [result EXCEPT ![c] = r]
  BY StagesOfAttempts DEF Result
<1>3. helper \in [Call -> BOOLEAN] /\ stray \in [Call -> BOOLEAN] /\ (stray[c] => ~ Native)
  BY DEF CommandInv, CommandTypeOK, ProcessIsRun
<1>4. QED
  BY <1>1, <1>2, <1>3, StagesOfAttempts, GoesToInv

LEMMA DrainedInv ==
  ASSUME CommandInv, NEW c \in Call, Drained(c)
  PROVE  CommandInv'
<1> USE DEF Drained
<1>1. result[c] \in Results /\ process[c] # "alive" /\ ~ helper'[c]
  BY DEF CommandInv, CommandTypeOK, ProcessIsRun, processVars
<1>2. CASE Native
  BY <1>1, <1>2, NothingToFree, RunEndsInv
<1>3. CASE ~ Native
  BY <1>1, <1>3, RunCleanupInv DEF worldVars, processVars, CommandInv, CommandTypeOK
<1>4. QED
  BY <1>2, <1>3

LEMMA StatusReadInv ==
  ASSUME CommandInv, NEW c \in Call, StatusRead(c)
  PROVE  CommandInv'
<1>1. CASE EndsWith(c, "refused") /\ UNCHANGED <<runner, temp, worldVars, processVars>>
  <2>1. temp[c] # "held" /\ stage[c] # "running"
    BY DEF StatusRead, CommandInv, ProcessIsRun
  <2>2. Frees(c)
    BY <1>1, <2>1, NothingToFree
  <2>3. "refused" \in Results
    BY DEF Results
  <2>4. QED
    BY <1>1, <2>2, <2>3, EndsWithInv
<1>2. CASE Begins(c, "command") /\ RunPluginArgv(c, attempt[c])
  BY <1>2, SandboxInv DEF StatusRead, RunPluginArgv, ExecuteArgv
<1>3. QED
  BY <1>1, <1>2 DEF StatusRead

LEMMA TimesOutInv ==
  ASSUME CommandInv, NEW c \in Call, TimesOut(c) \/ Stopped(c)
  PROVE  CommandInv'
<1>1. CASE TimesOut(c) /\ stage[c] = "running"
  <2>1. process' \in [Call -> {"none", "alive", "gone"}] /\ process'[c] = "gone"
        /\ \A d \in Call \ {c} : process'[d] = process[d]
    BY <1>1 DEF TimesOut, CommandInv, CommandTypeOK
  <2>2. temp[c] # "held" /\ helper \in [Call -> BOOLEAN] /\ stray \in [Call -> BOOLEAN]
        /\ (stray[c] => ~ Native)
    BY <1>1 DEF TimesOut, CommandInv, CommandTypeOK, ProcessIsRun
  <2>3. QED
    BY <1>1, <2>1, <2>2, StagesOfAttempts, GoesToInv DEF TimesOut, Result, worldVars
<1>2. CASE EndsWith(c, "timeout") /\ Native /\ stage[c] # "running"
           /\ UNCHANGED <<runner, temp, worldVars, processVars>>
  BY <1>2, NothingToFree, EndsWithInv, StagesOfAttempts
<1>3. ASSUME Stopped(c), ~ Native
      PROVE  Frees(c)
  <2>1. temp[c] # "held"
    BY <1>3 DEF Stopped, CommandInv, ProcessIsRun
  <2>2. QED
    BY <1>3, <2>1, NothingToFree DEF Stopped
<1>4. CASE Stopped(c)
  BY <1>2, <1>3, <1>4, EndsWithInv, StagesOfAttempts DEF Stopped
<1>5. QED
  BY <1>1, <1>2, <1>4 DEF TimesOut, processVars


LEMMA CancelNativeInv ==
  ASSUME CommandInv, NEW c \in Call, NEW why \in {"timeout", "interrupt"}, CancelNative(c, why)
  PROVE  CommandInv'
<1>1. /\ process' \in [Call -> {"none", "alive", "gone"}] /\ process'[c] # "alive"
      /\ \A d \in Call \ {c} : process'[d] = process[d]
  BY DEF CancelNative, Killed, CommandInv, CommandTypeOK
<1>2. /\ Native /\ temp' = temp /\ temp \in [Call -> {"none", "held", "lost"}] /\ temp[c] # "held"
      /\ helper' = helper /\ helper \in [Call -> BOOLEAN]
      /\ stray' = stray /\ stray \in [Call -> BOOLEAN] /\ (stray[c] => ~ Native)
      /\ UNCHANGED <<runner, files, wrote>>
  BY DEF CancelNative, CommandInv, CommandTypeOK, ProcessIsRun, worldVars
<1>3. CASE GoTo(c, "aborting") /\ Result(c, why) /\ UNCHANGED callVars
  <2>1. result' = [result EXCEPT ![c] = why] /\ result'[c] = why /\ why \in Results
    BY <1>3, StagesOfAttempts DEF Result, CommandInv, CommandTypeOK
  <2>2. "aborting" \in Stage \ Over
    BY StagesOfAttempts
  <2>3. QED
    BY <1>1, <1>2, <1>3, <2>1, <2>2, GoesToInv
<1>4. CASE Raises(c, why)
  <2>1. Frees(c)
    BY <1>1, <1>2 DEF Frees
  <2>2. QED
    BY <1>4, <2>1, RaisesInv
<1>5. QED
  BY <1>3, <1>4 DEF CancelNative

LEMMA AbortedInv ==
  ASSUME CommandInv, NEW c \in Call, Aborted(c)
  PROVE  CommandInv'
<1>1. temp[c] # "held" /\ result[c] \in {"timeout", "interrupt"}
  BY DEF Aborted, CommandInv, ProcessIsRun, CutShort
<1>2. Frees(c)
  BY <1>1, NothingToFree DEF Aborted
<1>3. QED
  BY <1>1, <1>2, RaisesInv DEF Aborted

LEMMA CancelProviderInv ==
  ASSUME CommandInv, NEW c \in Call, NEW why \in {"timeout", "interrupt"}, CancelProvider(c, why)
  PROVE  CommandInv'
<1>1. CASE /\ stray' = [stray EXCEPT ![c] = @ \/ process[c] = "alive" \/ helper[c]]
           /\ process' = Killed(c) /\ helper' = [helper EXCEPT ![c] = FALSE]
           /\ RunCleanup(c, why) /\ UNCHANGED temp
  <2>1. /\ process' \in [Call -> {"none", "alive", "gone"}] /\ process'[c] # "alive"
        /\ \A d \in Call \ {c} : process'[d] = process[d]
    BY <1>1 DEF Killed, CommandInv, CommandTypeOK
  <2>2. helper' \in [Call -> BOOLEAN] /\ ~ helper'[c] /\ \A d \in Call \ {c} : helper'[d] = helper[d]
    BY <1>1 DEF CommandInv, CommandTypeOK
  <2>3. stray' \in [Call -> BOOLEAN] /\ \A d \in Call \ {c} : stray'[d] = stray[d]
    BY <1>1 DEF CommandInv, CommandTypeOK
  <2>4. QED
    BY <1>1, <2>1, <2>2, <2>3, RunCleanupInv, StagesOfAttempts DEF CancelProvider, worldVars
<1>2. CASE /\ stage[c] = "cleaning" /\ temp' = [temp EXCEPT ![c] = "none"]
           /\ Raises(c, why) /\ UNCHANGED processVars
  BY <1>2, NothingToFree, RaisesInv DEF CancelProvider
<1>3. QED
  BY <1>1, <1>2 DEF CancelProvider

LEMMA InterruptInv ==
  ASSUME CommandInv, NEW c \in Call, ToolTimesOut(c) \/ Interrupt(c)
  PROVE  CommandInv'
<1>1. ASSUME NEW why \in {"timeout", "interrupt"}, Cancel(c, why)
      PROVE  CommandInv'
  BY <1>1, CancelNativeInv, CancelProviderInv DEF Cancel
<1>2. CASE /\ stage[c] = "backoff" /\ Raises(c, "interrupt")
           /\ UNCHANGED <<runner, temp, worldVars, processVars>>
  <2>1. temp[c] # "held"
    BY <1>2 DEF CommandInv, ProcessIsRun
  <2>2. Frees(c)
    BY <1>2, <2>1, NothingToFree
  <2>3. QED
    BY <1>2, <2>2, RaisesInv
<1>3. QED
  BY <1>1, <1>2 DEF ToolTimesOut, Interrupt

LEMMA CommandStep == CommandInv /\ [CommandNext]_commandVars => CommandInv'
<1> SUFFICES ASSUME CommandInv, [CommandNext]_commandVars
             PROVE  CommandInv'
  OBVIOUS
<1>1. ASSUME NEW c \in Call, CallTool(c) \/ Retries(c)
      PROVE  CommandInv'
  BY <1>1, AttemptsInv DEF CallTool, Retries
<1>2. ASSUME NEW c \in Call,
             \/ ExecuteDirect(c) \/ ExecuteDirectArgv(c) \/ ExecuteBwrap(c) \/ ExecuteBwrapArgv(c)
             \/ RunProviderArgv(c)
      PROVE  CommandInv'
  BY <1>2, ExecuteInv DEF ExecuteDirect, ExecuteDirectArgv, ExecuteBwrap, ExecuteBwrapArgv,
                          RunProviderArgv, Native
<1>3. ASSUME NEW c \in Call, Cleaned(c) \/ (\E f \in CommandFile : Writes(c, f)) \/ LeavesHelper(c) \/ HelperEnds(c)
      PROVE  CommandInv'
  BY <1>3, CleanedInv, WritesInv, HelperInv
<1>4. ASSUME NEW c \in Call, Exits(c) \/ Drained(c) \/ StatusRead(c) \/ TimesOut(c) \/ Stopped(c)
      PROVE  CommandInv'
  BY <1>4, ExitsInv, DrainedInv, StatusReadInv, TimesOutInv
<1>5. ASSUME NEW c \in Call, Aborted(c) \/ ToolTimesOut(c) \/ Interrupt(c)
      PROVE  CommandInv'
  BY <1>5, AbortedInv, InterruptInv
<1>6. CASE UNCHANGED commandVars
  BY <1>6 DEF commandVars, callVars, worldVars, processVars, CommandInv, CommandTypeOK, ProcessIsRun,
              HelperIsLeft, CutShort, WritesAreNew, WritesAreReported, EndedByItself, Native
<1>7. QED
  BY <1>1, <1>2, <1>3, <1>4, <1>5, <1>6 DEF CommandNext

(* The inductive invariant of the commands that calls run.                 *)
THEOREM CommandInvariance == CommandSpec => []CommandInv
BY CommandInitInv, CommandStep, PTL DEF CommandSpec

(* A call that is over has no process of the native sandbox's, no prepared *)
(* directory, and, ended by its command, reports every file it wrote.      *)
THEOREM CommandsSettle == CommandSpec => []CommandsAreSettled
<1>1. CommandInv => CommandsAreSettled
  BY CommandAssumption
     DEF CommandInv, CommandTypeOK, ProcessIsRun, WritesAreReported, EndedByItself, CommandsAreSettled,
         NothingLeftBehind, OutputsReported, Over
<1>2. QED
  BY <1>1, CommandInvariance, PTL

-----------------------------------------------------------------------------
(* The channels.                                                           *)

(* Chats are as many as sessions, so a chat without one finds one that no  *)
(* other chat has.                                                         *)
LEMMA ChatsAreFinite == IsFiniteSet(Chat) /\ Cardinality(Chat) \in Nat
<1> DEFINE f == [m \in Message |-> ChatOf[m]]
<1>1. f \in Surjection(Message, Chat)
  BY DEF Surjection, Chat
<1>2. QED
  BY <1>1, FS_Surjection, FS_CardinalityType, ChannelAssumption

LEMMA NewSessionIsFree ==
  ASSUME map \in [Chat -> Session \cup {0}], NEW chat \in Chat, map[chat] = 0
  PROVE  NewSession \in Session /\ \A c \in Chat : map[c] # NewSession
<1> DEFINE others == Chat \ {chat}
           f == [c \in others |-> map[c]]
           T == {map[c] : c \in others}
<1>1. IsFiniteSet(others) /\ Cardinality(others) = Cardinality(Chat) - 1
  BY ChatsAreFinite, FS_RemoveElement
<1>2. f \in Surjection(others, T)
  BY DEF Surjection
<1>3. IsFiniteSet(T) /\ Cardinality(T) <= Cardinality(others)
  BY <1>1, <1>2, FS_Surjection
<1>4. Cardinality(Session) = Cardinality(Chat)
  BY ChatsAreFinite, FS_Interval DEF Session
<1>5. \E s \in Session : \A c \in Chat : map[c] # s
  <2> SUFFICES ASSUME \A s \in Session : \E c \in Chat : map[c] = s
               PROVE  FALSE
    OBVIOUS
  <2>1. Session \subseteq T
    BY ChatsAreFinite DEF Session
  <2>2. Cardinality(Session) <= Cardinality(T)
    BY <1>3, <2>1, FS_Subset
  <2>3. Cardinality(T) \in Nat
    BY <1>3, FS_CardinalityType
  <2>4. QED
    BY <1>1, <1>3, <1>4, <2>2, <2>3, ChatsAreFinite
<1>6. QED
  BY <1>5 DEF NewSession

LEMMA ChannelInitInv == ChannelInit => ChannelInv
<1> SUFFICES ASSUME ChannelInit
             PROVE  ChannelInv
  OBVIOUS
<1>1. ChannelTypeOK
  BY ChannelAssumption DEF ChannelInit, ChannelTypeOK, Event
<1>2. HandlersArePlaced /\ HandledOnce /\ SentInOrder
  BY DEF ChannelInit, HandlersArePlaced, HandledOnce, SentInOrder, Handled
<1>3. OneTurnPerChat
  BY DEF ChannelInit, OneTurnPerChat, Known
<1>4. QED
  BY <1>1, <1>2, <1>3 DEF ChannelInv

(* The transport and the store of sessions are no part of the invariant.   *)
LEMMA OthersKeepInv ==
  ASSUME ChannelInv, UNCHANGED <<handlerVars, turn, turnSession, content, map, active>>
  PROVE  ChannelInv'
BY DEF ChannelInv, ChannelTypeOK, HandlersArePlaced, HandledOnce, SentInOrder, SentSoFar, OneTurnPerChat,
       Handled, Handler, Finished, MessageOf, Known, handlerVars

Places == {"scheduled", "waiting", "acknowledged", "done"}

LEMMA ElementOf ==
  ASSUME NEW S, NEW s \in Seq(S), NEW i \in 1 .. Len(s)
  PROVE  s[i] \in S
OBVIOUS

LEMMA EventsArePlaced ==
  ASSUME ChannelTypeOK, NEW e \in 1 .. Len(events)
  PROVE  e \in Event /\ MessageOf(e) \in Message /\ events[e].place \in Places
<1>1. events \in Seq([message : Message, place : Places])
  BY DEF ChannelTypeOK, Places
<1>2. Len(events) \in Nat /\ Len(events) <= MaxEvents /\ MaxEvents \in Nat
  BY <1>1, ChannelAssumption DEF ChannelTypeOK
<1>3. events[e] \in [message : Message, place : Places]
  BY <1>1, ElementOf
<1>4. e \in Event
  BY <1>2 DEF Event
<1>5. QED
  BY <1>3, <1>4 DEF MessageOf

LEMMA GoesOn ==
  ASSUME ChannelTypeOK, NEW e \in 1 .. Len(events), NEW p \in Places, Goes(e, p)
  PROVE  /\ events' \in Seq([message : Message, place : Places]) /\ Len(events') = Len(events)
         /\ \A d \in 1 .. Len(events) :
              /\ events'[d].message = events[d].message
              /\ events'[d].place = IF d = e THEN p ELSE events[d].place
<1>1. events \in Seq([message : Message, place : Places])
  BY DEF ChannelTypeOK, Places
<1>2. events' = [events EXCEPT ![e] = [events[e] EXCEPT !.place = p]]
  BY <1>1 DEF Goes
<1>a. events[e] \in [message : Message, place : Places]
  BY <1>1, ElementOf
<1>3. [events[e] EXCEPT !.place = p] \in [message : Message, place : Places]
      /\ [events[e] EXCEPT !.place = p].message = events[e].message
      /\ [events[e] EXCEPT !.place = p].place = p
  BY <1>a
<1>4. QED
  BY <1>1, <1>2, <1>3

(* Where the turns that run and their sessions stay the same.              *)
LEMMA TurnsStay ==
  ASSUME ChannelInv, UNCHANGED <<turnSession, map, active>>,
         \A e \in Event :
           /\ turn'[e] = "running" <=> turn[e] = "running"
           /\ turn[e] = "running" => MessageOf(e)' = MessageOf(e)
  PROVE  OneTurnPerChat'
BY DEF ChannelInv, OneTurnPerChat, Known

(* Where what was sent, and where the handlers of its messages are.        *)
LEMMA SentStays ==
  ASSUME SentInOrder, UNCHANGED sent, blamed \subseteq blamed',
         \A d \in Event :
           /\ Handled(d)' <=> Handled(d)
           /\ Handled(d) => events'[d].message = events[d].message /\ events'[d].place = events[d].place
  PROVE  SentInOrder'
<1>1. ASSUME NEW d \in Event, Handled(d)', MessageOf(d)' \notin blamed'
      PROVE  SentSoFar(d)'
  <2>1. SentSoFar(d) /\ events'[d].message = events[d].message /\ events'[d].place = events[d].place
    BY <1>1 DEF SentInOrder, MessageOf
  <2>2. QED
    BY <2>1 DEF SentSoFar, Handler, MessageOf
<1>2. \A d \in Event : Handled(d) => MessageOf(d)' = MessageOf(d)
  BY DEF MessageOf
<1>3. \A m \in Message \ blamed' : sent[m] # << >> => \E d \in Event : Handled(d)' /\ MessageOf(d)' = m
  BY <1>2 DEF SentInOrder
<1>4. QED
  BY <1>1, <1>3 DEF SentInOrder


(* A handler is done with an event that no turn was started for.           *)
LEMMA DropsInv ==
  ASSUME ChannelInv, NEW e \in 1 .. Len(events), Handler(e, "scheduled"), Goes(e, "done"),
         UNCHANGED <<seen, sent, blamed, serviceVars>>
  PROVE  ChannelInv'
<1>1. /\ events' \in Seq([message : Message, place : Places]) /\ Len(events') = Len(events)
      /\ \A d \in 1 .. Len(events) :
           /\ events'[d].message = events[d].message
           /\ events'[d].place = IF d = e THEN "done" ELSE events[d].place
  BY GoesOn DEF ChannelInv, Places
<1>2. e \in Event /\ ~ Handled(e)
  BY EventsArePlaced DEF ChannelInv, HandlersArePlaced
<1>3. \A d \in Event : Handled(d) => d \in 1 .. Len(events) \ {e}
  BY <1>2 DEF ChannelInv, HandlersArePlaced
<1>4. ChannelTypeOK'
  BY <1>1 DEF ChannelInv, ChannelTypeOK, Places, serviceVars
<1>5. HandlersArePlaced'
  BY <1>1, <1>2, <1>3 DEF ChannelInv, HandlersArePlaced, Handled, Handler, Finished, serviceVars
<1>6. HandledOnce'
  BY <1>1, <1>3 DEF ChannelInv, HandledOnce, Handled, MessageOf, serviceVars
<1>7. SentInOrder'
  BY <1>1, <1>3, SentStays DEF ChannelInv, Handled, serviceVars
<1>8. OneTurnPerChat'
  <2>1. \A d \in Event : turn[d] = "running" => MessageOf(d)' = MessageOf(d)
    BY <1>1, <1>3 DEF Handled, MessageOf
  <2>2. QED
    BY <2>1, TurnsStay DEF serviceVars
<1>9. QED
  BY <1>4, <1>5, <1>6, <1>7, <1>8 DEF ChannelInv

LEMMA DeliverInv ==
  ASSUME ChannelInv, NEW m \in Message, Deliver(m)
  PROVE  ChannelInv'
<1> USE DEF Deliver, serviceVars
<1>1. events \in Seq([message : Message, place : Places])
  BY DEF ChannelInv, ChannelTypeOK, Places
<1>2. /\ events' \in Seq([message : Message, place : Places]) /\ Len(events') = Len(events) + 1
      /\ \A d \in 1 .. Len(events) : events'[d] = events[d]
      /\ events'[Len(events) + 1].place = "scheduled"
  BY <1>1 DEF Places
<1>3. Len(events) \in Nat /\ Len(events') <= MaxEvents /\ MaxEvents \in Nat
  BY <1>1, <1>2, ChannelAssumption
<1>4. \A d \in Event : Handled(d) => d \in 1 .. Len(events)
  BY DEF ChannelInv, HandlersArePlaced
<1>5. ChannelTypeOK'
  BY <1>2, <1>3 DEF ChannelInv, ChannelTypeOK, Places
<1>6. ~ Handled(Len(events) + 1)
  <2>1. Len(events) + 1 \in Event /\ Len(events) + 1 \notin 1 .. Len(events)
    BY <1>2, <1>3 DEF Event
  <2>2. QED
    BY <1>4, <2>1
<1>7. HandlersArePlaced'
  <2> SUFFICES ASSUME NEW d \in Event
               PROVE  /\ Handled(d) => d \in 1 .. Len(events')
                      /\ d \in 1 .. Len(events') =>
                           /\ events'[d].place = "scheduled" => ~ Handled(d)
                           /\ events'[d].place \in {"waiting", "acknowledged"} =>
                                Handled(d) /\ (Finished(d) => content[d] \in Text \ {"ack"})
    BY DEF HandlersArePlaced, Handled, Handler, Finished
  <2>1. CASE d \in 1 .. Len(events)
    BY <1>2, <1>3, <2>1 DEF ChannelInv, HandlersArePlaced, Handler
  <2>2. CASE d \notin 1 .. Len(events)
    <3>1. ~ Handled(d) /\ (d \in 1 .. Len(events') => d = Len(events) + 1)
      BY <1>2, <1>3, <1>4, <2>2
    <3>2. QED
      BY <1>2, <3>1
  <2>3. QED
    BY <2>1, <2>2
<1>8. HandledOnce' /\ SentInOrder'
  BY <1>2, <1>4, SentStays DEF ChannelInv, HandledOnce, Handled, MessageOf
<1>9. OneTurnPerChat'
  <2>1. \A d \in Event : turn[d] = "running" => MessageOf(d)' = MessageOf(d)
    BY <1>2, <1>4 DEF Handled, MessageOf
  <2>2. QED
    BY <2>1, TurnsStay
<1>10. QED
  BY <1>5, <1>7, <1>8, <1>9 DEF ChannelInv

(* An entry expires: its message may be handled again.                     *)
LEMMA ExpireInv ==
  ASSUME ChannelInv, Expire
  PROVE  ChannelInv'
<1>1. PICK m \in seen : seen' = seen \ {m} /\ blamed' = blamed \cup {m}
  BY DEF Expire
<1>2. UNCHANGED <<events, sent, turn, turnSession, content, map, active>>
  BY DEF Expire, serviceVars
<1>3. ChannelTypeOK' /\ HandlersArePlaced'
  BY <1>1, <1>2 DEF ChannelInv, ChannelTypeOK, HandlersArePlaced, Handled, Handler, Finished
<1>4. HandledOnce' /\ SentInOrder'
  BY <1>1, <1>2 DEF ChannelInv, HandledOnce, SentInOrder, SentSoFar, Handled, Handler, MessageOf
<1>5. OneTurnPerChat'
  BY <1>2, TurnsStay DEF MessageOf
<1>6. QED
  BY <1>3, <1>4, <1>5 DEF ChannelInv

LEMMA HandleInv ==
  ASSUME ChannelInv, NEW e \in 1 .. Len(events), Handle(e)
  PROVE  ChannelInv'
<1>1. CASE Goes(e, "done") /\ UNCHANGED <<seen, turn>>
  BY <1>1, DropsInv DEF Handle, serviceVars
<1>2. ASSUME MessageOf(e) \notin seen, seen' = seen \cup {MessageOf(e)}, Goes(e, "waiting"),
             turn' = [turn EXCEPT ![e] = "created"]
      PROVE  ChannelInv'
  <2>1. /\ events' \in Seq([message : Message, place : Places]) /\ Len(events') = Len(events)
        /\ \A d \in 1 .. Len(events) :
             /\ events'[d].message = events[d].message
             /\ events'[d].place = IF d = e THEN "waiting" ELSE events[d].place
    BY <1>2, GoesOn DEF ChannelInv, Places
  <2>2. e \in Event /\ MessageOf(e) \in Message /\ ~ Handled(e)
    BY EventsArePlaced DEF ChannelInv, HandlersArePlaced, Handle
  <2>3. \A d \in Event : Handled(d) => d \in 1 .. Len(events) \ {e}
    BY <2>2 DEF ChannelInv, HandlersArePlaced
  <2>4. UNCHANGED <<sent, blamed, turnSession, content, map, active>>
    BY DEF Handle
  <2>5. \A d \in Event : Handled(d)' <=> (d = e \/ Handled(d))
    BY <1>2, <2>2 DEF ChannelInv, ChannelTypeOK, Handled
  <2>6. /\ turn' \in [Event -> {"none", "created", "running", "over"}] /\ turn'[e] = "created"
        /\ \A d \in Event \ {e} : turn'[d] = turn[d]
    BY <1>2, <2>2 DEF ChannelInv, ChannelTypeOK
  <2>7. ChannelTypeOK'
    BY <1>2, <2>1, <2>2, <2>4, <2>6 DEF ChannelInv, ChannelTypeOK, Places
  <2>8. HandlersArePlaced'
    BY <2>1, <2>2, <2>3, <2>4, <2>5, <2>6 DEF ChannelInv, HandlersArePlaced, Handler, Finished
  <2>9. MessageOf(e) \notin blamed =>
          sent[MessageOf(e)] = << >> /\ \A d \in Event : Handled(d) => MessageOf(d) # MessageOf(e)
    BY <1>2, <2>2 DEF ChannelInv, HandledOnce, SentInOrder
  <2>10. \A d \in Event : Handled(d)' => MessageOf(d)' = MessageOf(d)
    BY <2>1, <2>3, <2>5 DEF MessageOf
  <2>11. HandledOnce'
    BY <1>2, <2>4, <2>5, <2>9, <2>10 DEF ChannelInv, HandledOnce
  <2>12. SentInOrder'
    <3>1. ASSUME NEW d \in Event, Handled(d)', MessageOf(d)' \notin blamed
          PROVE  SentSoFar(d)'
      <4>1. CASE d = e
        BY <2>1, <2>4, <2>9, <2>10, <3>1, <4>1 DEF SentSoFar, Handler
      <4>2. CASE d # e
        BY <2>1, <2>3, <2>4, <2>5, <2>10, <3>1, <4>2 DEF ChannelInv, SentInOrder, SentSoFar, Handler
      <4>3. QED
        BY <4>1, <4>2
    <3>2. \A m \in Message \ blamed : sent[m] # << >> => \E d \in Event : Handled(d)' /\ MessageOf(d)' = m
      BY <2>5, <2>10 DEF ChannelInv, SentInOrder
    <3>3. QED
      BY <2>4, <3>1, <3>2 DEF SentInOrder
  <2>13. OneTurnPerChat'
    <3>1. \A d \in Event : turn'[d] = "running" <=> turn[d] = "running"
      BY <2>2, <2>6 DEF Handled
    <3>2. \A d \in Event : turn[d] = "running" => MessageOf(d)' = MessageOf(d)
      BY <2>5, <2>10 DEF Handled
    <3>3. QED
      BY <2>4, <3>1, <3>2, TurnsStay
  <2>14. QED
    BY <2>7, <2>8, <2>11, <2>12, <2>13 DEF ChannelInv
<1>3. QED
  BY <1>1, <1>2 DEF Handle


(* A handler sends a text, or fails to, and goes on.                       *)
LEMMA SaysInv ==
  ASSUME ChannelInv, NEW e \in 1 .. Len(events), Handled(e),
         NEW p \in {"acknowledged", "done"}, Goes(e, p),
         UNCHANGED <<seen, turn, turnSession, map, active>>,
         DOMAIN sent' = Message, \A m \in Message \ {MessageOf(e)} : sent'[m] = sent[m],
         blamed' \in {blamed, blamed \cup {MessageOf(e)}},
         MessageOf(e) \notin blamed' =>
           \/ p = "acknowledged" /\ sent'[MessageOf(e)] = <<"ack">>
           \/ p = "done" /\ \E text \in Text \ {"ack"} :
                sent'[MessageOf(e)] = <<text>> \/ sent'[MessageOf(e)] = <<"ack", text>>,
         content' \in [Event -> Text \cup {"none"}], \A d \in Event \ {e} : content'[d] = content[d],
         p = "acknowledged" => ~ Finished(e)
  PROVE  ChannelInv'
<1>a. p \in Places
  BY DEF Places
<1>1. /\ events' \in Seq([message : Message, place : Places]) /\ Len(events') = Len(events)
      /\ \A d \in 1 .. Len(events) :
           /\ events'[d].message = events[d].message
           /\ events'[d].place = IF d = e THEN p ELSE events[d].place
  BY <1>a, GoesOn DEF ChannelInv
<1>2. e \in Event /\ MessageOf(e) \in Message
  BY EventsArePlaced DEF ChannelInv
<1>3. \A d \in Event : Handled(d) => d \in 1 .. Len(events) /\ MessageOf(d) \in Message
  BY EventsArePlaced DEF ChannelInv, HandlersArePlaced
<1>4. \A d \in Event : Handled(d) => MessageOf(d)' = MessageOf(d)
  BY <1>1, <1>3 DEF MessageOf
<1>5. \A d \in Event : Handled(d)' = Handled(d)
  BY DEF Handled
<1>6. ChannelTypeOK'
  BY <1>1, <1>2 DEF ChannelInv, ChannelTypeOK, Places
<1>7. HandlersArePlaced'
  BY <1>1, <1>2, <1>5 DEF ChannelInv, HandlersArePlaced, Handler, Finished
<1>8. HandledOnce'
  BY <1>4, <1>5 DEF ChannelInv, HandledOnce
<1>9. SentInOrder'
  <2>1. ASSUME NEW d \in Event, Handled(d), MessageOf(d) \notin blamed'
        PROVE  SentSoFar(d)'
    <3>1. CASE d = e
      BY <1>1, <1>2, <1>4, <2>1, <3>1 DEF SentSoFar, Handler
    <3>2. CASE d # e
      <4>1. MessageOf(d) # MessageOf(e) /\ SentSoFar(d)
        BY <1>2, <2>1, <3>2 DEF ChannelInv, HandledOnce, SentInOrder
      <4>2. sent'[MessageOf(d)] = sent[MessageOf(d)] /\ events'[d].place = events[d].place
        BY <1>1, <1>3, <2>1, <3>2, <4>1
      <4>3. QED
        BY <1>4, <2>1, <4>1, <4>2 DEF SentSoFar, Handler
    <3>3. QED
      BY <3>1, <3>2
  <2>2. ASSUME NEW m \in Message \ blamed', sent'[m] # << >>
        PROVE  \E d \in Event : Handled(d)' /\ MessageOf(d)' = m
    <3>1. CASE m = MessageOf(e)
      BY <1>2, <1>4, <1>5, <3>1
    <3>2. CASE m # MessageOf(e)
      <4>1. PICK d \in Event : Handled(d) /\ MessageOf(d) = m
        BY <2>2, <3>2 DEF ChannelInv, SentInOrder
      <4>2. QED
        BY <1>4, <1>5, <4>1
    <3>3. QED
      BY <3>1, <3>2
  <2>3. QED
    BY <1>4, <1>5, <2>1, <2>2 DEF SentInOrder
<1>10. OneTurnPerChat'
  <2>1. \A d \in Event : turn[d] = "running" => MessageOf(d)' = MessageOf(d)
    BY <1>4 DEF Handled
  <2>2. QED
    BY <2>1, TurnsStay
<1>11. QED
  BY <1>6, <1>7, <1>8, <1>9, <1>10 DEF ChannelInv

(* What a message without blame was sent while its handler waits.          *)
LEMMA WaitsFor ==
  ASSUME ChannelInv, NEW e \in 1 .. Len(events), Handler(e, "waiting") \/ Handler(e, "acknowledged")
  PROVE  /\ e \in Event /\ MessageOf(e) \in Message /\ Handled(e)
         /\ Finished(e) => content[e] \in Text \ {"ack"}
         /\ MessageOf(e) \notin blamed =>
              sent[MessageOf(e)] = IF Handler(e, "waiting") THEN << >> ELSE <<"ack">>
<1>1. e \in Event /\ MessageOf(e) \in Message
  BY EventsArePlaced DEF ChannelInv
<1>2. Handled(e) /\ (Finished(e) => content[e] \in Text \ {"ack"})
  BY <1>1 DEF ChannelInv, HandlersArePlaced
<1>3. MessageOf(e) \notin blamed => SentSoFar(e)
  BY <1>1, <1>2 DEF ChannelInv, SentInOrder
<1>4. QED
  BY <1>1, <1>2, <1>3 DEF SentSoFar, Handler

LEMMA ShortSequences ==
  ASSUME NEW x, NEW y
  PROVE  /\ Append(<< >>, y) = <<y>> /\ Len(<<y>>) = 1 /\ <<y>>[1] = y
         /\ Append(<<x>>, y) = <<x, y>> /\ Len(<<x, y>>) = 2 /\ <<x, y>>[1] = x /\ <<x, y>>[2] = y
<1>1. Append(<< >>, y) = <<y>>
  OBVIOUS
<1>2. Append(<<x>>, y) = <<x, y>>
  <2> DEFINE S == {x, y}
             s == Append(<<x>>, y)
             t == <<x, y>>
  <2>1. <<x>> \in Seq(S) /\ t \in Seq(S) /\ y \in S
    OBVIOUS
  <2>2. s \in Seq(S) /\ Len(s) = 2 /\ s[1] = x /\ s[2] = y
    BY <2>1
  <2>3. t \in Seq(S) /\ Len(t) = 2 /\ t[1] = x /\ t[2] = y
    BY <2>1
  <2> HIDE DEF S, s, t
  <2>4. Len(s) = Len(t) /\ \A i \in 1 .. Len(s) : s[i] = t[i]
    BY <2>2, <2>3
  <2>5. s = t
    BY <2>2, <2>3, <2>4, SeqEqual
  <2>6. QED
    BY <2>5 DEF s, t
<1>3. QED
  BY <1>1, <1>2

LEMMA SendFailsInv ==
  ASSUME ChannelInv, NEW e \in 1 .. Len(events), Handler(e, "waiting") \/ Handler(e, "acknowledged"),
         SendFails(e), UNCHANGED <<seen, turn, turnSession, map, active>>,
         content' \in [Event -> Text \cup {"none"}], \A d \in Event \ {e} : content'[d] = content[d]
  PROVE  ChannelInv'
<1> DEFINE m == MessageOf(e)
<1>1. /\ m \in Message /\ Handled(e) /\ DOMAIN sent = Message
      /\ m \notin blamed => sent[m] = << >> \/ sent[m] = <<"ack">>
  BY WaitsFor DEF ChannelInv, ChannelTypeOK
<1>2. CASE blamed' = blamed \cup {m} /\ UNCHANGED sent
  BY <1>1, <1>2, SaysInv DEF SendFails
<1>3. CASE Fallback(e)
  <2>1. /\ DOMAIN sent' = Message /\ sent'[m] = Append(sent[m], "failed")
        /\ \A n \in Message \ {m} : sent'[n] = sent[n]
    BY <1>1, <1>3 DEF Fallback
  <2>a. Append(<< >>, "failed") = <<"failed">> /\ Append(<<"ack">>, "failed") = <<"ack", "failed">>
    BY ShortSequences
  <2>b. sent[m] = << >> => sent'[m] = <<"failed">>
    BY <2>1, <2>a
  <2>c. sent[m] = <<"ack">> => sent'[m] = <<"ack", "failed">>
    BY <2>1, <2>a
  <2>2. m \notin blamed => sent'[m] = <<"failed">> \/ sent'[m] = <<"ack", "failed">>
    BY <1>1, <2>b, <2>c
  <2>3. blamed' = blamed /\ Goes(e, "done") /\ "failed" \in Text \ {"ack"}
    BY <1>3 DEF Fallback, SendFails, Text
  <2>4. QED
    BY <1>1, <2>1, <2>2, <2>3, SaysInv
<1>4. QED
  BY <1>2, <1>3 DEF SendFails

LEMMA AcknowledgeInv ==
  ASSUME ChannelInv, NEW e \in 1 .. Len(events), Acknowledge(e)
  PROVE  ChannelInv'
<1> DEFINE m == MessageOf(e)
<1>1. /\ m \in Message /\ Handled(e) /\ DOMAIN sent = Message /\ ~ Finished(e)
      /\ m \notin blamed => sent[m] = << >>
  BY WaitsFor DEF ChannelInv, ChannelTypeOK, Acknowledge
<1>2. /\ UNCHANGED <<seen, turn, turnSession, map, active>>
      /\ content' = content /\ content \in [Event -> Text \cup {"none"}]
  BY DEF Acknowledge, serviceVars, ChannelInv, ChannelTypeOK
<1>3. CASE Goes(e, "acknowledged") /\ Sends(e, "ack")
  <2>1. /\ DOMAIN sent' = Message /\ sent'[m] = Append(sent[m], "ack")
        /\ \A n \in Message \ {m} : sent'[n] = sent[n]
    BY <1>1, <1>3 DEF Sends
  <2>2. m \notin blamed => sent'[m] = <<"ack">>
    BY <1>1, <2>1
  <2>3. QED
    BY <1>1, <1>2, <1>3, <2>1, <2>2, SaysInv DEF Sends
<1>4. CASE Goes(e, "acknowledged") /\ Silent(e)
  BY <1>1, <1>2, <1>4, SaysInv DEF Silent
<1>5. CASE SendFails(e)
  BY <1>2, <1>5, SendFailsInv DEF Acknowledge
<1>6. QED
  BY <1>3, <1>4, <1>5 DEF Acknowledge, Sent

LEMMA RespondInv ==
  ASSUME ChannelInv, NEW e \in 1 .. Len(events), Respond(e)
  PROVE  ChannelInv'
<1> DEFINE m == MessageOf(e)
           text == content[e]
<1>1. /\ e \in Event /\ m \in Message /\ Handled(e) /\ DOMAIN sent = Message
      /\ text \in Text \ {"ack"}
      /\ m \notin blamed => sent[m] = << >> \/ sent[m] = <<"ack">>
  BY WaitsFor DEF ChannelInv, ChannelTypeOK, Respond
<1>2. /\ UNCHANGED <<seen, turn, turnSession, map, active>>
      /\ content' \in [Event -> Text \cup {"none"}] /\ \A d \in Event \ {e} : content'[d] = content[d]
  BY DEF Respond, ChannelInv, ChannelTypeOK
<1>3. CASE Goes(e, "done") /\ Sends(e, text)
  <2>1. /\ DOMAIN sent' = Message /\ sent'[m] = Append(sent[m], text)
        /\ \A n \in Message \ {m} : sent'[n] = sent[n]
    BY <1>1, <1>3 DEF Sends
  <2>a. Append(<< >>, text) = <<text>> /\ Append(<<"ack">>, text) = <<"ack", text>>
    BY ShortSequences
  <2>b. sent[m] = << >> => sent'[m] = <<text>>
    BY <2>1, <2>a
  <2>c. sent[m] = <<"ack">> => sent'[m] = <<"ack", text>>
    BY <2>1, <2>a
  <2>2. m \notin blamed => sent'[m] = <<text>> \/ sent'[m] = <<"ack", text>>
    BY <1>1, <2>b, <2>c
  <2>3. QED
    BY <1>1, <1>2, <1>3, <2>1, <2>2, SaysInv DEF Sends
<1>4. CASE Goes(e, "done") /\ Silent(e)
  BY <1>1, <1>2, <1>4, SaysInv DEF Silent
<1>5. CASE SendFails(e)
  BY <1>2, <1>5, SendFailsInv DEF Respond
<1>6. QED
  BY <1>3, <1>4, <1>5 DEF Respond, Sent


(* Looking up the session of a chat keeps those that chats have, and gives *)
(* each chat its own.                                                      *)
LEMMA LooksUpKeeps ==
  ASSUME ChannelInv, NEW chat \in Chat, LooksUp(chat)
  PROVE  /\ map' \in [Chat -> Session \cup {0}] /\ SessionFor(chat) \in Session
         /\ map'[chat] = SessionFor(chat)
         /\ \A c \in Chat : map[c] # 0 => map'[c] = map[c]
         /\ \A c, d \in Chat : map'[c] = map'[d] /\ map'[c] # 0 => c = d
<1>1. map \in [Chat -> Session \cup {0}]
  BY DEF ChannelInv, ChannelTypeOK
<1>2. map[chat] = 0 => NewSession \in Session /\ \A c \in Chat : map[c] # NewSession
  BY <1>1, NewSessionIsFree
<1>3. SessionFor(chat) \in Session
      /\ (map[chat] # 0 => SessionFor(chat) = map[chat])
      /\ (map[chat] = 0 => \A c \in Chat : map[c] # SessionFor(chat))
  BY <1>1, <1>2 DEF SessionFor, Known
<1>4. map' = [map EXCEPT ![chat] = SessionFor(chat)]
  BY DEF LooksUp
<1>5. \A c, d \in Chat : map[c] = map[d] /\ map[c] # 0 => c = d
  BY DEF ChannelInv, OneTurnPerChat, Known
<1>6. QED
  BY <1>1, <1>3, <1>4, <1>5

(* The turn of an event goes on, while the handlers stay where they are.   *)
LEMMA TurnInv ==
  ASSUME ChannelInv, NEW e \in 1 .. Len(events), turn[e] \in {"created", "running"},
         UNCHANGED handlerVars,
         NEW t \in {"running", "over"}, turn' = [turn EXCEPT ![e] = t],
         \/ t = "running" /\ content' = content
         \/ \E text \in Text \ {"ack"} : content' = [content EXCEPT ![e] = text],
         turnSession' \in [Event -> Session \cup {0}], map' \in [Chat -> Session \cup {0}],
         active' \subseteq Session, OneTurnPerChat'
  PROVE  ChannelInv'
<1>1. e \in Event
  BY EventsArePlaced DEF ChannelInv
<1>2. turn' \in [Event -> {"none", "created", "running", "over"}] /\ turn'[e] = t
      /\ \A d \in Event \ {e} : turn'[d] = turn[d]
  BY <1>1 DEF ChannelInv, ChannelTypeOK
<1>3. content' \in [Event -> Text \cup {"none"}] /\ (t = "over" => content'[e] \in Text \ {"ack"})
      /\ \A d \in Event \ {e} : content'[d] = content[d]
  BY <1>1 DEF ChannelInv, ChannelTypeOK
<1>4. \A d \in Event : Handled(d)' <=> Handled(d)
  BY <1>1, <1>2 DEF Handled
<1>5. ChannelTypeOK'
  BY <1>2, <1>3 DEF ChannelInv, ChannelTypeOK, handlerVars
<1>6. HandlersArePlaced'
  BY <1>1, <1>2, <1>3, <1>4 DEF ChannelInv, HandlersArePlaced, Handler, Finished, handlerVars
<1>7. HandledOnce' /\ SentInOrder'
  BY <1>4, SentStays DEF ChannelInv, HandledOnce, MessageOf, handlerVars
<1>8. QED
  BY <1>5, <1>6, <1>7 DEF ChannelInv

LEMMA ProcessInv ==
  ASSUME ChannelInv, NEW e \in 1 .. Len(events), ProcessTransportMessage(e)
  PROVE  ChannelInv'
<1> DEFINE chat == ChatOf[MessageOf(e)]
           s == SessionFor(chat)
<1>1. e \in Event /\ chat \in Chat /\ turn[e] = "created" /\ UNCHANGED handlerVars
  BY EventsArePlaced DEF ChannelInv, ProcessTransportMessage, Chat
<1>2. /\ turn \in [Event -> {"none", "created", "running", "over"}]
      /\ turnSession \in [Event -> Session \cup {0}] /\ map \in [Chat -> Session \cup {0}]
      /\ active \subseteq Session /\ 0 \notin Session
  BY DEF ChannelInv, ChannelTypeOK, Session
<1>3. \A d \in Event : turn[d] = "running" =>
        /\ MessageOf(d)' = MessageOf(d) /\ ChatOf[MessageOf(d)] \in Chat
        /\ turnSession[d] \in active /\ turnSession[d] # 0 /\ turnSession[d] = map[ChatOf[MessageOf(d)]]
  <2>1. ASSUME NEW d \in Event, turn[d] = "running"
        PROVE  ChatOf[MessageOf(d)] \in Chat
    BY <2>1, EventsArePlaced DEF ChannelInv, HandlersArePlaced, Handled, Chat
  <2>2. QED
    BY <1>1, <1>2, <2>1 DEF ChannelInv, OneTurnPerChat, MessageOf, handlerVars
<1>4. "failed" \in Text \ {"ack"} /\ "busy" \in Text \ {"ack"}
  BY DEF Text
<1>5. CASE Returns(e, "failed") /\ UNCHANGED <<turnSession, map, active>>
  <2>1. OneTurnPerChat'
    BY <1>1, <1>2, <1>3, <1>5, TurnsStay DEF Returns
  <2>2. QED
    BY <1>1, <1>2, <1>4, <1>5, <2>1, TurnInv DEF Returns
<1>6. ASSUME LooksUp(chat)
      PROVE  /\ s \in Session /\ map' \in [Chat -> Session \cup {0}] /\ map'[chat] = s
             /\ \A c \in Chat : map[c] # 0 => map'[c] = map[c]
             /\ \A c, d \in Chat : map'[c] = map'[d] /\ map'[c] # 0 => c = d
  BY <1>1, <1>6, LooksUpKeeps
<1>7. CASE LooksUp(chat) /\ Returns(e, "busy") /\ UNCHANGED <<turnSession, active>>
  <2>1. \A d \in Event : turn'[d] = "running" <=> turn[d] = "running"
    BY <1>1, <1>2, <1>7 DEF Returns
  <2>2. OneTurnPerChat'
    BY <1>3, <1>6, <1>7, <2>1 DEF ChannelInv, OneTurnPerChat, Known
  <2>3. QED
    BY <1>1, <1>2, <1>4, <1>6, <1>7, <2>2, TurnInv DEF Returns
<1>8. CASE /\ s \notin active /\ LooksUp(chat)
           /\ active' = active \cup {s} /\ turnSession' = [turnSession EXCEPT ![e] = s]
           /\ turn' = [turn EXCEPT ![e] = "running"] /\ UNCHANGED content
  <2>1. /\ turn'[e] = "running" /\ turnSession'[e] = s
        /\ \A d \in Event \ {e} : turn'[d] = turn[d] /\ turnSession'[d] = turnSession[d]
    BY <1>1, <1>2, <1>8
  <2>2. \A d \in Event : turn'[d] = "running" => d = e \/ turn[d] = "running"
    BY <2>1
  <2>3. MessageOf(e)' = MessageOf(e)
    BY <1>1 DEF MessageOf, handlerVars
  <2>4. OneTurnPerChat'
    <3>1. ASSUME NEW d \in Event, turn'[d] = "running"
          PROVE  turnSession'[d] \in active' /\ turnSession'[d] = map'[ChatOf[MessageOf(d)']]
      BY <1>3, <1>6, <1>8, <2>1, <2>2, <2>3, <3>1
    <3>2. \A d, f \in Event :
            turn'[d] = "running" /\ turn'[f] = "running" /\ turnSession'[d] = turnSession'[f] => d = f
      BY <1>3, <1>8, <2>1, <2>2 DEF ChannelInv, OneTurnPerChat
    <3>3. \A z \in active' : \E d \in Event : turn'[d] = "running" /\ turnSession'[d] = z
      <4>1. ASSUME NEW z \in active
            PROVE  \E d \in Event : turn'[d] = "running" /\ turnSession'[d] = z
        <5>1. PICK d \in Event : turn[d] = "running" /\ turnSession[d] = z
          BY DEF ChannelInv, OneTurnPerChat
        <5>2. d # e
          BY <1>1, <5>1
        <5>3. QED
          BY <2>1, <5>1, <5>2
      <4>2. QED
        BY <1>1, <1>8, <2>1, <4>1
    <3>4. QED
      BY <1>6, <1>8, <3>1, <3>2, <3>3 DEF OneTurnPerChat, Known
  <2>5. QED
    BY <1>1, <1>2, <1>6, <1>8, <2>4, TurnInv
<1>9. QED
  BY <1>5, <1>7, <1>8 DEF ProcessTransportMessage

LEMMA TurnEndsInv ==
  ASSUME ChannelInv, NEW e \in 1 .. Len(events), TurnEnds(e)
  PROVE  ChannelInv'
<1>1. e \in Event /\ turn[e] = "running" /\ UNCHANGED <<handlerVars, map>>
  BY EventsArePlaced DEF ChannelInv, TurnEnds
<1>2. /\ turn \in [Event -> {"none", "created", "running", "over"}]
      /\ turnSession \in [Event -> Session \cup {0}] /\ map \in [Chat -> Session \cup {0}]
      /\ active \subseteq Session
  BY DEF ChannelInv, ChannelTypeOK
<1>3. PICK text \in {"answer", "failed"} : Returns(e, text)
  BY DEF TurnEnds
<1>4. /\ active' = active \ {turnSession[e]} /\ turnSession' = [turnSession EXCEPT ![e] = 0]
      /\ turn' = [turn EXCEPT ![e] = "over"]
  BY <1>3 DEF TurnEnds, Returns
<1>5. /\ turn'[e] = "over"
      /\ \A d \in Event \ {e} : turn'[d] = turn[d] /\ turnSession'[d] = turnSession[d]
  BY <1>1, <1>2, <1>4
<1>6. OneTurnPerChat'
  <2>1. ASSUME NEW d \in Event, turn'[d] = "running"
        PROVE  turnSession'[d] \in active' /\ turnSession'[d] = map'[ChatOf[MessageOf(d)']]
    BY <1>1, <1>4, <1>5, <2>1 DEF ChannelInv, OneTurnPerChat, MessageOf, handlerVars
  <2>2. \A d, f \in Event :
          turn'[d] = "running" /\ turn'[f] = "running" /\ turnSession'[d] = turnSession'[f] => d = f
    BY <1>5 DEF ChannelInv, OneTurnPerChat
  <2>3. \A z \in active' : \E d \in Event : turn'[d] = "running" /\ turnSession'[d] = z
    BY <1>4, <1>5 DEF ChannelInv, OneTurnPerChat
  <2>4. QED
    BY <1>1, <2>1, <2>2, <2>3 DEF ChannelInv, OneTurnPerChat, Known
<1>7. turnSession' \in [Event -> Session \cup {0}] /\ active' \subseteq Session
  BY <1>2, <1>4
<1>8. QED
  BY <1>1, <1>2, <1>3, <1>4, <1>6, <1>7, TurnInv DEF Returns, Text

LEMMA ChannelStep == ChannelInv /\ [ChannelNext]_channelVars => ChannelInv'
<1> SUFFICES ASSUME ChannelInv, [ChannelNext]_channelVars
             PROVE  ChannelInv'
  OBVIOUS
<1>1. CASE UNCHANGED <<handlerVars, turn, turnSession, content, map, active>>
  BY <1>1, OthersKeepInv
<1>2. CASE Start \/ Stop \/ StopEnds \/ DeleteSession \/ UNCHANGED channelVars
  BY <1>1, <1>2 DEF Start, Stop, StopEnds, DeleteSession, serviceVars, channelVars
<1>3. ASSUME NEW n \in Run, Connect(n) \/ ThreadEnds(n) \/ TransportEnds(n)
      PROVE  ChannelInv'
  BY <1>1, <1>3 DEF Connect, ThreadEnds, TransportEnds, serviceVars
<1>4. ASSUME NEW e \in 1 .. Len(events), Ignore(e)
      PROVE  ChannelInv'
  BY <1>4, DropsInv DEF Ignore
<1>5. QED
  BY <1>2, <1>3, <1>4, DeliverInv, ExpireInv, HandleInv, AcknowledgeInv, RespondInv, ProcessInv,
     TurnEndsInv DEF ChannelNext

(* The inductive invariant of the channels.                                *)
THEOREM ChannelInvariance == ChannelSpec => []ChannelInv
BY ChannelInitInv, ChannelStep, PTL DEF ChannelSpec

(* A message gets one verdict, its acknowledgement before it, and a chat   *)
(* one turn at a time, in its own session.                                 *)
THEOREM ChatsServed == ChannelSpec => []ChatsAreServed
<1>1. ChannelInv => OneVerdict
  <2> SUFFICES ASSUME ChannelInv, NEW m \in Message \ blamed
               PROVE  /\ Len(sent[m]) <= 2 /\ \A i, j \in Verdicts(m) : i = j
                      /\ Len(sent[m]) = 2 => sent[m][1] = "ack"
                      /\ (\E e \in 1 .. Len(events) :
                            MessageOf(e) = m /\ Handler(e, "done") /\ turn[e] # "none")
                           => Verdicts(m) # {}
    BY DEF OneVerdict
  <2>1. \/ sent[m] = << >> \/ sent[m] = <<"ack">>
        \/ \E text \in Text \ {"ack"} : sent[m] = <<text>> \/ sent[m] = <<"ack", text>>
    <3>1. CASE sent[m] # << >>
      <4>1. PICK e \in Event : Handled(e) /\ MessageOf(e) = m
        BY <3>1 DEF ChannelInv, SentInOrder
      <4>2. SentSoFar(e)
        BY <4>1 DEF ChannelInv, SentInOrder
      <4>3. QED
        BY <4>1, <4>2 DEF SentSoFar
    <3>2. QED
      BY <3>1
  <2>2. Len(sent[m]) <= 2 /\ (\A i, j \in Verdicts(m) : i = j)
        /\ (Len(sent[m]) = 2 => sent[m][1] = "ack")
    <3>1. CASE sent[m] = << >>
      BY <3>1 DEF Verdicts
    <3>2. ASSUME NEW text, sent[m] = <<text>>
          PROVE  /\ Len(sent[m]) <= 2 /\ (Len(sent[m]) = 2 => sent[m][1] = "ack")
                 /\ Verdicts(m) \subseteq {1}
      BY <3>2 DEF Verdicts
    <3>3. ASSUME NEW text, sent[m] = <<"ack", text>>
          PROVE  /\ Len(sent[m]) <= 2 /\ (Len(sent[m]) = 2 => sent[m][1] = "ack")
                 /\ Verdicts(m) \subseteq {2}
      BY <3>3 DEF Verdicts
    <3>4. CASE \E text \in Text \ {"ack"} : sent[m] = <<text>> \/ sent[m] = <<"ack", text>>
      <4>1. PICK text : sent[m] = <<text>> \/ sent[m] = <<"ack", text>>
        BY <3>4
      <4>2. CASE sent[m] = <<text>>
        BY <3>2, <4>2
      <4>3. CASE sent[m] = <<"ack", text>>
        BY <3>3, <4>3
      <4>4. QED
        BY <4>1, <4>2, <4>3
    <3>5. CASE sent[m] = <<"ack">>
      BY <3>2, <3>5
    <3>6. QED
      BY <2>1, <3>1, <3>4, <3>5
  <2>3. ASSUME NEW e \in 1 .. Len(events), MessageOf(e) = m, Handler(e, "done"), turn[e] # "none"
        PROVE  Verdicts(m) # {}
    <3>1. e \in Event
      BY EventsArePlaced DEF ChannelInv
    <3>2. SentSoFar(e)
      BY <2>3, <3>1 DEF ChannelInv, SentInOrder, Handled
    <3>3. PICK text \in Text \ {"ack"} : sent[m] = <<text>> \/ sent[m] = <<"ack", text>>
      BY <2>3, <3>2 DEF SentSoFar, Handler
    <3>4. CASE sent[m] = <<text>>
      <4>1. 1 \in Verdicts(m)
        BY <3>3, <3>4 DEF Verdicts
      <4>2. QED
        BY <4>1
    <3>5. CASE sent[m] = <<"ack", text>>
      <4>1. 2 \in Verdicts(m)
        BY <3>3, <3>5 DEF Verdicts
      <4>2. QED
        BY <4>1
    <3>6. QED
      BY <3>3, <3>4, <3>5
  <2>4. QED
    BY <2>2, <2>3
<1>2. QED
  BY <1>1, ChannelInvariance, PTL DEF ChatsAreServed, ChannelInv

-----------------------------------------------------------------------------
(* The evolution of memory and skills.                                     *)

LEMMA ItemsOfContent ==
  ASSUME NEW fs \in Content, NEW f \in EvolvedFile
  PROVE  fs[f] \subseteq Item
BY DEF Content

(* Undoing changes gives a file what its first change decides: what the    *)
(* snapshot holds, or nothing; a file that was not changed stays.          *)
LEMMA UndoIs ==
  ASSUME NEW cs \in Seq(Change), NEW fs \in Content, NEW snap \in Content
  PROVE  /\ Undo(fs, cs, snap) \in Content
         /\ \A f \in EvolvedFile :
              /\ \A k \in 1 .. Len(cs) :
                   IsFirst(cs, k, f)
                   => Undo(fs, cs, snap)[f] = IF cs[k].existed THEN snap[f] ELSE {}
              /\ (\A k \in 1 .. Len(cs) : cs[k].file # f) => Undo(fs, cs, snap)[f] = fs[f]
<1> DEFINE n == Len(cs)
           rs == Reverse(cs)
           D == DOMAIN rs
           after(g, c) == [g EXCEPT ![c.file] = IF c.existed THEN snap[c.file] ELSE {}]
           undone(F, s) == IF s = {} THEN fs ELSE after(F[s \ {Max(s)}], rs[Max(s)])
           iter == CHOOSE F : F = [s \in SUBSET D |-> undone(F, s)]
           isLast(s, i, f) == i \in s /\ rs[i].file = f /\ \A j \in s : rs[j].file = f => j <= i
           holds(s, f) == {m \in Item :
                             \/ \E i \in s : isLast(s, i, f) /\ rs[i].existed /\ m \in snap[f]
                             \/ (\A i \in s : rs[i].file # f) /\ m \in fs[f]}
           G == [s \in SUBSET D |-> [f \in EvolvedFile |-> holds(s, f)]]
<1>1. n \in Nat /\ D = 1 .. n /\ \A i \in 1 .. n : n - i + 1 \in 1 .. n /\ rs[i] = cs[n - i + 1]
  BY DEF Reverse
<1>2. \A i \in 1 .. n : rs[i] \in Change
  <2>1. \A i \in 1 .. n : cs[i] \in Change
    BY ElementOfSeq
  <2>2. QED
    BY <1>1, <2>1
<1>3. ASSUME NEW s \in SUBSET D PROVE G[s] = undone(G, s)
  <2>0. G[s] = [f \in EvolvedFile |-> holds(s, f)]
    OBVIOUS
  <2>1. CASE s = {}
    <3>1. fs = [f \in EvolvedFile |-> fs[f]]
      BY DEF Content
    <3>2. \A f \in EvolvedFile : holds(s, f) = fs[f]
      BY <2>1, ItemsOfContent
    <3>3. QED
      BY <2>0, <2>1, <3>1, <3>2
  <2>2. CASE s # {}
    <3> DEFINE x == Max(s)
               rest == s \ {x}
    <3>1. x \in s /\ \A y \in s : y <= x
      BY <1>1, <2>2, MaxOfBounded
    <3>2. x \in 1 .. n /\ rs[x] \in Change /\ rest \in SUBSET D /\ s \subseteq 1 .. n
      BY <1>1, <1>2, <3>1
    <3> HIDE DEF x
    <3>3. ASSUME NEW f \in EvolvedFile
          PROVE  holds(s, f) = IF f = rs[x].file THEN IF rs[x].existed THEN snap[f] ELSE {}
                                                 ELSE holds(rest, f)
      <4>1. CASE f = rs[x].file
        <5>1. \A i \in s : isLast(s, i, f) <=> i = x
          <6>1. isLast(s, x, f)
            BY <3>1, <4>1
          <6>2. ASSUME NEW i \in s, isLast(s, i, f) PROVE i = x
            <7>1. i <= x /\ x <= i
              BY <3>1, <6>1, <6>2
            <7>2. i \in Nat /\ x \in Nat
              BY <1>1, <3>2
            <7>3. QED
              BY <7>1, <7>2
          <6>3. QED
            BY <6>1, <6>2
        <5>2. ~ \A i \in s : rs[i].file # f
          BY <3>1, <4>1
        <5> HIDE DEF isLast
        <5>3. holds(s, f) = {m \in Item : rs[x].existed /\ m \in snap[f]}
          BY <3>1, <5>1, <5>2
        <5>4. snap[f] \subseteq Item
          BY ItemsOfContent
        <5>5. QED
          BY <4>1, <5>3, <5>4
      <4>2. CASE f # rs[x].file
        <5>1. \A i \in s : isLast(s, i, f) <=> i \in rest /\ isLast(rest, i, f)
          BY <4>2
        <5>2. (\A i \in s : rs[i].file # f) <=> (\A i \in rest : rs[i].file # f)
          BY <4>2
        <5>3. \A i \in rest : i \in s
          OBVIOUS
        <5> HIDE DEF isLast, rest
        <5>4. QED
          BY <4>2, <5>1, <5>2, <5>3
      <4>3. QED
        BY <4>1, <4>2
    <3>4. G[rest] = [f \in EvolvedFile |-> holds(rest, f)]
      BY <3>2
    <3>5. undone(G, s) = after(G[rest], rs[x])
      BY <2>2 DEF x
    <3> HIDE DEF rest, holds, G, undone
    <3>6. after(G[rest], rs[x]) =
            [f \in EvolvedFile |-> IF f = rs[x].file THEN IF rs[x].existed THEN snap[f] ELSE {}
                                                     ELSE holds(rest, f)]
      BY <3>2, <3>4
    <3> HIDE DEF after, x, rs
    <3>7. G[s] = after(G[rest], rs[x])
      BY <2>0, <3>3, <3>6
    <3>8. QED
      BY <3>5, <3>7
  <2>3. QED
    BY <2>1, <2>2
<1>4. iter = [s \in SUBSET D |-> undone(iter, s)]
  <2>1. G = [s \in SUBSET D |-> undone(G, s)]
    BY <1>3
  <2>2. QED
    BY <2>1
<1>5. iter[D] = G[D]
  <2>0. \A s \in SUBSET D : iter[s] = undone(iter, s)
    BY <1>4
  <2> HIDE DEF iter, G
  <2> DEFINE wrong == {k \in 0 .. n : iter[1 .. k] # G[1 .. k]}
  <2>1. SUFFICES ASSUME wrong # {} PROVE FALSE
    BY <1>1
  <2>2. wrong \subseteq Nat
    BY <1>1
  <2>3. PICK k \in wrong : \A j \in wrong : ~ (<<j, k>> \in OpToRel(<, Nat))
    BY <2>1, <2>2, NatLessThanWellFounded, WFMin
  <2>4. k \in 0 .. n /\ k \in Nat /\ 1 .. k \in SUBSET D
    BY <1>1
  <2>5. iter[1 .. k] = undone(iter, 1 .. k) /\ G[1 .. k] = undone(G, 1 .. k)
    BY <1>3, <2>0, <2>4
  <2>6. CASE k = 0
    <3>1. 1 .. k = {}
      BY <2>6
    <3>2. QED
      BY <2>3, <2>5, <3>1
  <2>7. CASE k # 0
    <3>1. k - 1 \in 0 .. n /\ k - 1 \in Nat /\ k - 1 < k
      BY <1>1, <2>4, <2>7
    <3>2. k - 1 \notin wrong
      BY <2>2, <2>3, <2>4, <3>1 DEF OpToRel
    <3>3. iter[1 .. k - 1] = G[1 .. k - 1]
      BY <3>1, <3>2
    <3>4. Max(1 .. k) = k /\ (1 .. k) \ {k} = 1 .. k - 1 /\ 1 .. k # {}
      BY <2>4, <2>7, MaxUpTo
    <3>5. undone(iter, 1 .. k) = undone(G, 1 .. k)
      BY <3>3, <3>4
    <3>6. iter[1 .. k] # G[1 .. k]
      BY <2>3
    <3> HIDE DEF undone
    <3>7. QED
      BY <2>5, <3>5, <3>6
  <2>8. QED
    BY <2>6, <2>7
<1>6. Undo(fs, cs, snap) = iter[D]
  BY DEF Undo, FoldLeft, MapThenFoldSet
<1>7. G[D] = [f \in EvolvedFile |-> holds(D, f)]
  OBVIOUS
<1> HIDE DEF iter, G
<1>8. Undo(fs, cs, snap) \in Content
  BY <1>5, <1>6, <1>7 DEF Content
<1>9. ASSUME NEW f \in EvolvedFile, NEW k \in 1 .. n, IsFirst(cs, k, f)
      PROVE  Undo(fs, cs, snap)[f] = IF cs[k].existed THEN snap[f] ELSE {}
  <2> DEFINE i == n - k + 1
  <2>1. i \in D /\ rs[i] = cs[k]
    <3>1. i \in 1 .. n /\ n - i + 1 = k
      BY <1>1
    <3>2. QED
      BY <1>1, <3>1
  <2>2. \A j \in D : isLast(D, j, f) <=> j = i
    <3>1. ASSUME NEW j \in D, rs[j].file = f PROVE j <= i
      <4>1. n - j + 1 \in 1 .. n /\ rs[j] = cs[n - j + 1] /\ j \in Nat
        BY <1>1
      <4>2. ~ (n - j + 1 \in 1 .. k - 1)
        BY <1>9, <3>1, <4>1 DEF IsFirst
      <4>3. QED
        BY <1>1, <4>1, <4>2
    <3>2. isLast(D, i, f)
      BY <1>9, <2>1, <3>1 DEF IsFirst
    <3>3. ASSUME NEW j \in D, isLast(D, j, f) PROVE j = i
      <4>1. j <= i /\ i <= j
        BY <2>1, <3>1, <3>2, <3>3
      <4>2. i \in Nat /\ j \in Nat
        BY <1>1, <2>1
      <4> HIDE DEF i
      <4>3. QED
        BY <4>1, <4>2
    <3>4. QED
      BY <3>2, <3>3
  <2>3. ~ \A j \in D : rs[j].file # f
    BY <1>9, <2>1 DEF IsFirst
  <2>4. snap[f] \subseteq Item
    BY ItemsOfContent
  <2> HIDE DEF isLast, i, D, rs
  <2>5. holds(D, f) = {m \in Item : cs[k].existed /\ m \in snap[f]}
    BY <2>1, <2>2, <2>3
  <2>6. QED
    BY <1>5, <1>6, <1>7, <2>4, <2>5
<1>10. ASSUME NEW f \in EvolvedFile, \A k \in 1 .. n : cs[k].file # f
       PROVE  Undo(fs, cs, snap)[f] = fs[f]
  <2>1. \A i \in D : rs[i].file # f
    BY <1>1, <1>10
  <2>2. fs[f] \subseteq Item
    BY ItemsOfContent
  <2>3. holds(D, f) = fs[f]
    BY <2>1, <2>2
  <2>4. QED
    BY <1>5, <1>6, <1>7, <2>3
<1>11. QED
  BY <1>8, <1>9, <1>10

LEMMA EvolvedFiles ==
  /\ "MEMORY.md" \in EvolvedFile /\ SkillFile \subseteq EvolvedFile
  /\ EvolutionRun \subseteq Nat \ {0}
BY EvolutionAssumption DEF EvolvedFile, EvolutionRun

(* The files of a list of changes, and its first changes, when it grows.   *)
LEMMA ListGrows ==
  ASSUME NEW s \in Seq(Change), NEW t \in Seq(Change)
  PROVE  /\ s \o t \in Seq(Change)
         /\ {c.file : c \in Range(s \o t)} = {c.file : c \in Range(s)} \cup {c.file : c \in Range(t)}
         /\ \A f \in EvolvedFile : \A k \in 1 .. Len(s \o t) :
              IsFirst(s \o t, k, f) =>
                \/ k \in 1 .. Len(s) /\ IsFirst(s, k, f) /\ (s \o t)[k] = s[k]
                \/ \E i \in 1 .. Len(t) : /\ (s \o t)[k] = t[i]
                                          /\ \A j \in 1 .. Len(s) : s[j].file # f
<1> DEFINE st == s \o t
<1>1. /\ st \in Seq(Change) /\ Len(s) \in Nat /\ Len(t) \in Nat /\ Len(st) = Len(s) + Len(t)
      /\ DOMAIN st = 1 .. Len(st) /\ DOMAIN s = 1 .. Len(s) /\ DOMAIN t = 1 .. Len(t)
      /\ \A i \in 1 .. Len(s) : st[i] = s[i]
      /\ \A i \in 1 .. Len(t) : st[Len(s) + i] = t[i]
  BY ConcatProperties
<1>2. \A i \in 1 .. Len(st) : \/ i \in 1 .. Len(s)
                              \/ i - Len(s) \in 1 .. Len(t) /\ st[i] = t[i - Len(s)]
  <2>1. \A i \in 1 .. Len(st) : i > Len(s) => Len(s) + (i - Len(s)) = i /\ i - Len(s) \in 1 .. Len(t)
    BY <1>1
  <2>2. QED
    BY <1>1, <2>1
<1>3. \A i \in 1 .. Len(s) : i \in 1 .. Len(st)
  BY <1>1
<1>4. \A i \in 1 .. Len(t) : Len(s) + i \in 1 .. Len(st)
  BY <1>1
<1> HIDE DEF st
<1>5. Range(st) = Range(s) \cup Range(t)
  <2>1. ASSUME NEW x \in Range(st) PROVE x \in Range(s) \cup Range(t)
    <3>1. PICK i \in 1 .. Len(st) : x = st[i]
      BY <1>1 DEF Range
    <3>2. QED
      BY <1>1, <1>2, <3>1 DEF Range
  <2>2. ASSUME NEW x \in Range(s) PROVE x \in Range(st)
    <3>1. PICK i \in 1 .. Len(s) : x = s[i]
      BY <1>1 DEF Range
    <3>2. i \in DOMAIN st /\ st[i] = x
      BY <1>1, <1>3, <3>1
    <3>3. QED
      BY <3>2 DEF Range
  <2>3. ASSUME NEW x \in Range(t) PROVE x \in Range(st)
    <3>1. PICK i \in 1 .. Len(t) : x = t[i]
      BY <1>1 DEF Range
    <3>2. Len(s) + i \in DOMAIN st /\ st[Len(s) + i] = x
      BY <1>1, <1>4, <3>1
    <3>3. QED
      BY <3>2 DEF Range
  <2>4. QED
    BY <2>1, <2>2, <2>3
<1>6. ASSUME NEW f \in EvolvedFile, NEW k \in 1 .. Len(st), IsFirst(st, k, f)
      PROVE  \/ k \in 1 .. Len(s) /\ IsFirst(s, k, f) /\ st[k] = s[k]
             \/ \E i \in 1 .. Len(t) : st[k] = t[i] /\ \A j \in 1 .. Len(s) : s[j].file # f
  <2>1. CASE k \in 1 .. Len(s)
    <3>1. \A j \in 1 .. k - 1 : j \in 1 .. Len(s)
      BY <1>1, <2>1
    <3>2. QED
      BY <1>1, <1>6, <2>1, <3>1 DEF IsFirst
  <2>2. CASE ~ (k \in 1 .. Len(s))
    <3>1. \A j \in 1 .. Len(s) : j \in 1 .. k - 1
      BY <1>1, <2>2
    <3>2. QED
      BY <1>1, <1>2, <1>6, <2>2, <3>1 DEF IsFirst
  <2>3. QED
    BY <2>1, <2>2
<1>7. QED
  BY <1>1, <1>5, <1>6 DEF st

LEMMA FilesOfList ==
  ASSUME NEW s \in Seq(Change), NEW f
  PROVE  f \in {c.file : c \in Range(s)} <=> \E k \in 1 .. Len(s) : s[k].file = f
<1>1. DOMAIN s = 1 .. Len(s)
  BY LenProperties
<1>2. QED
  BY <1>1 DEF Range

(* A file that a list names has a first change in it.                      *)
LEMMA FirstExists ==
  ASSUME NEW s \in Seq(Change), NEW f, f \in {c.file : c \in Range(s)}
  PROVE  \E k \in 1 .. Len(s) : IsFirst(s, k, f)
<1> DEFINE K == {k \in Nat : k \in 1 .. Len(s) /\ s[k].file = f}
<1>1. Len(s) \in Nat /\ K # {}
  <2>1. Len(s) \in Nat
    BY LenProperties
  <2>2. PICK k \in 1 .. Len(s) : s[k].file = f
    BY FilesOfList
  <2>3. QED
    BY <2>1, <2>2
<1>2. PICK k \in K : \A j \in K : ~ (<<j, k>> \in OpToRel(<, Nat))
  BY <1>1, NatLessThanWellFounded, WFMin
<1>3. ASSUME NEW j \in 1 .. k - 1 PROVE s[j].file # f
  <2>1. j \in Nat /\ j \in 1 .. Len(s) /\ j < k
    <3>1. k \in Nat /\ k <= Len(s)
      BY <1>1
    <3>2. QED
      BY <1>1, <3>1
  <2>2. <<j, k>> \in OpToRel(<, Nat)
    BY <2>1 DEF OpToRel
  <2>3. j \notin K
    BY <1>2, <2>2
  <2>4. QED
    BY <2>1, <2>3
<1>4. k \in 1 .. Len(s) /\ IsFirst(s, k, f)
  BY <1>2, <1>3 DEF IsFirst
<1>5. QED
  BY <1>4

(* The changes that an edit lists.                                         *)
LEMMA EditListed ==
  ASSUME NEW touched \in SUBSET SkillFile, contents \in Content
  PROVE  /\ ChangesOf(touched) \in Seq(Change)
         /\ \A i \in 1 .. Len(ChangesOf(touched)) :
              /\ ChangesOf(touched)[i].file \in touched
              /\ ChangesOf(touched)[i].existed = (contents[ChangesOf(touched)[i].file] # {})
         /\ \A f \in touched : \E i \in 1 .. Len(ChangesOf(touched)) : ChangesOf(touched)[i].file = f
<1> DEFINE n == Cardinality(touched)
           order == SetToSeq(touched)
           new == [i \in 1 .. n |-> LET f == order[i] IN [file |-> f, existed |-> contents[f] # {}]]
<1>1. IsFiniteSet(touched) /\ n \in Nat /\ ExistsBijection(1 .. n, touched)
  BY EvolutionAssumption, FS_Subset, FS_CardinalityType
<1>2. order \in Injection(1 .. n, touched)
  <2>1. \E g \in [1 .. n -> touched] : IsInjective(g)
    BY <1>1 DEF ExistsBijection, Bijection, Injection
  <2>2. order \in [1 .. n -> touched] /\ IsInjective(order)
    BY <2>1 DEF SetToSeq
  <2>3. QED
    BY <2>2 DEF Injection
<1>3. order \in Surjection(1 .. n, touched)
  <2>1. IsFiniteSet(1 .. n) /\ Cardinality(1 .. n) = n
    BY <1>1, FS_Interval
  <2>2. QED
    BY <1>1, <1>2, <2>1, FS_Injection
<1>4. order \in [1 .. n -> touched] /\ \A f \in touched : \E i \in 1 .. n : order[i] = f
  BY <1>3 DEF Surjection
<1>5. \A i \in 1 .. n : order[i] \in EvolvedFile
  BY <1>4, EvolvedFiles
<1> HIDE DEF order, n
<1>6. \A i \in 1 .. n : new[i] = [file |-> order[i], existed |-> contents[order[i]] # {}]
  OBVIOUS
<1>7. new \in [1 .. n -> Change]
  BY <1>5, <1>6 DEF Change
<1>8. new \in Seq(Change) /\ Len(new) = n
  BY <1>1, <1>7, SeqDef, LenProperties
<1>9. \A i \in 1 .. n : /\ new[i].file \in touched
                        /\ new[i].existed = (contents[new[i].file] # {})
  BY <1>4, <1>6
<1>10. \A f \in touched : \E i \in 1 .. n : new[i].file = f
  BY <1>4, <1>6
<1>11. ChangesOf(touched) = new
  BY DEF ChangesOf, n, order
<1> HIDE DEF new
<1>12. QED
  BY <1>8, <1>9, <1>10, <1>11

(* The items of what an undo leaves were there or in the snapshot.         *)
LEMMA UndoItems ==
  ASSUME NEW cs \in Seq(Change), NEW fs \in Content, NEW snap \in Content, NEW f \in EvolvedFile
  PROVE  Undo(fs, cs, snap)[f] \subseteq fs[f] \cup snap[f]
<1>1. CASE f \in {c.file : c \in Range(cs)}
  <2>1. PICK k \in 1 .. Len(cs) : IsFirst(cs, k, f)
    BY <1>1, FirstExists
  <2>2. Undo(fs, cs, snap)[f] = IF cs[k].existed THEN snap[f] ELSE {}
    BY <2>1, UndoIs
  <2>3. QED
    BY <2>2
<1>2. CASE f \notin {c.file : c \in Range(cs)}
  <2>1. \A k \in 1 .. Len(cs) : cs[k].file # f
    BY <1>2, FilesOfList
  <2>2. Undo(fs, cs, snap)[f] = fs[f]
    BY <2>1, UndoIs
  <2>3. QED
    BY <2>2
<1>3. QED
  BY <1>1, <1>2

LEMMA EvolutionInitInv == EvolutionInit => EvolutionInv
<1> SUFFICES ASSUME EvolutionInit
             PROVE  EvolutionInv
  OBVIOUS
<1> USE EvolutionAssumption, EvolvedFiles DEF EvolutionInit
<1>1. EvolutionTypeOK
  <2>1. contents \in Content /\ \A r \in EvolutionRun : snapshot[r] \in Content /\ heldBefore[r] \in Content
    BY DEF Content, Item
  <2>2. NoMark \in Mark
    BY DEF NoMark, Mark
  <2>3. sessionRecord \in [present : BOOLEAN, length : Nat, mark : Mark] /\ copy \in Mark
    BY <2>2
  <2>4. record \in [EvolutionRun -> [status : {"none", "running", "finished", "rolledBack"},
                                    changes : Seq(Change)]]
    BY DEF NoRecord
  <2>5. runChanges \in [EvolutionRun -> Seq(Change)]
    OBVIOUS
  <2>6. snapshot \in [EvolutionRun -> Content] /\ heldBefore \in [EvolutionRun -> Content]
    BY <2>1
  <2>7. QED
    BY <2>1, <2>3, <2>4, <2>5, <2>6 DEF EvolutionTypeOK
<1>2. MarksAreSound
  <2>0. sessionRecord.mark = NoMark /\ copy = NoMark /\ sessionRecord.length \in Nat
    OBVIOUS
  <2>1. sessionRecord.mark.count = 0 /\ copy.count = 0 /\ sessionRecord.length \in Nat
    BY <2>0 DEF NoMark
  <2>2. MarkIsSound(0)
    BY <2>1 DEF MarkIsSound
  <2>3. QED
    BY <2>1, <2>2 DEF MarksAreSound
<1>3. ItemsAreListed
  BY DEF ItemsAreListed
<1>4. RecordsAreLists
  BY DEF RecordsAreLists, NoRecord
<1>5. CanBeRestored
  BY DEF CanBeRestored, CanRestore
<1>6. QED
  BY <1>1, <1>2, <1>3, <1>4, <1>5 DEF EvolutionInv

(* Marks stay sound while the session and what was read of it only grow.   *)
LEMMA MarksGrow ==
  ASSUME NEW n \in Nat, MarkIsSound(n), EvolutionTypeOK,
         sessionRecord'.length \in Nat, sessionRecord.length <= sessionRecord'.length,
         read \subseteq read'
  PROVE  MarkIsSound(n)'
BY DEF MarkIsSound, EvolutionTypeOK

LEMMA MarksKept ==
  ASSUME EvolutionTypeOK, MarksAreSound,
         sessionRecord'.length \in Nat, sessionRecord.length <= sessionRecord'.length,
         read \subseteq read',
         NEW sources \in SUBSET Nat, \A n \in sources : MarkIsSound(n)',
         sessionRecord'.mark.count \in {sessionRecord.mark.count, copy.count}
           \cup {runSeen[q] : q \in EvolutionRun} \cup sources,
         copy'.count \in {sessionRecord.mark.count, copy.count} \cup sources,
         \A q \in EvolutionRun : runSeen'[q] \in {runSeen[q]} \cup sources
  PROVE  MarksAreSound'
<1>1. /\ sessionRecord.mark.count \in Nat /\ copy.count \in Nat
      /\ \A q \in EvolutionRun : runSeen[q] \in Nat
  BY DEF EvolutionTypeOK, Mark
<1>2. \A n \in Nat : MarkIsSound(n) => MarkIsSound(n)'
  BY MarksGrow
<1>3. MarkIsSound(sessionRecord.mark.count)' /\ MarkIsSound(copy.count)'
  BY <1>1, <1>2 DEF MarksAreSound, MarkIsSound
<1>4. \A q \in EvolutionRun : MarkIsSound(runSeen[q])'
  BY <1>1, <1>2 DEF MarksAreSound, MarkIsSound
<1>5. QED
  BY <1>3, <1>4 DEF MarksAreSound

(* Items stay listed when lists only grow and what files and snapshots     *)
(* gain was in a file or a snapshot, is the user's, or is listed.          *)
LEMMA ItemsKept ==
  ASSUME ItemsAreListed,
         \A q \in EvolutionRun : Touched(q) \subseteq Touched(q)',
         \A f \in EvolvedFile : \A m \in contents'[f] :
           \/ m \in contents[f]
           \/ \E q \in EvolutionRun : m \in snapshot[q][f]
           \/ m[1] \notin EvolutionRun
           \/ f \in Touched(m[1])',
         \A f \in EvolvedFile, q \in EvolutionRun : \A m \in snapshot'[q][f] :
           m \in contents[f] \/ m \in snapshot[q][f]
  PROVE  ItemsAreListed'
<1>1. SUFFICES ASSUME NEW f \in EvolvedFile, NEW r \in EvolutionRun,
                      \/ \E m \in contents'[f] : m[1] = r
                      \/ \E q \in EvolutionRun : \E m \in snapshot'[q][f] : m[1] = r
               PROVE  f \in Touched(r)'
  BY DEF ItemsAreListed
<1> HIDE DEF Touched
<1>2. (\/ \E m \in contents[f] : m[1] = r
       \/ \E q \in EvolutionRun : \E m \in snapshot[q][f] : m[1] = r)
      => f \in Touched(r)'
  BY DEF ItemsAreListed
<1>3. CASE \E m \in contents'[f] : m[1] = r
  BY <1>2, <1>3
<1>4. CASE \E q \in EvolutionRun : \E m \in snapshot'[q][f] : m[1] = r
  <2>1. PICK q \in EvolutionRun : \E m \in snapshot'[q][f] : m[1] = r
    BY <1>4
  <2>2. PICK m \in snapshot'[q][f] : m[1] = r
    BY <2>1
  <2>3. m \in contents[f] \/ m \in snapshot[q][f]
    BY <2>2
  <2>4. QED
    BY <1>2, <2>2, <2>3
<1>5. QED
  BY <1>1, <1>3, <1>4

(* The end of a run.                                                       *)
LEMMA FinishKeeps ==
  ASSUME EvolutionInv, NEW r \in EvolutionRun, NEW fs, NEW cs \in Seq(Change),
         runPhase[r] \in {"analysing", "editing"}, Finish(r, fs, cs),
         runChanges' = [runChanges EXCEPT ![r] = cs],
         UNCHANGED <<userTurn, copy, userWrites, read>>
  PROVE  /\ sessionRecord' \in [present : BOOLEAN, length : Nat, mark : Mark] /\ copy' \in Mark
         /\ runPhase' \in [EvolutionRun -> {"new", "queued", "analysing", "editing", "ended", "crashed"}]
         /\ runPhase'[r] \in {"ended", "crashed"}
         /\ \A q \in EvolutionRun \ {r} : runPhase'[q] = runPhase[q]
         /\ trigger' \in [EvolutionRun -> {"manual", "new_session_created", "turn_interval"}]
         /\ runSeen' \in [EvolutionRun -> Nat]
         /\ record' \in [EvolutionRun -> [status : {"none", "running", "finished", "rolledBack"},
                                         changes : Seq(Change)]]
         /\ inProgress' \in BOOLEAN
         /\ read' \subseteq 1 .. sessionRecord'.length
         /\ MarksAreSound' /\ RecordsAreLists'
<1>1. /\ sessionRecord' \in [present : BOOLEAN, length : Nat, mark : Mark] /\ copy' \in Mark
      /\ sessionRecord'.length = sessionRecord.length
      /\ sessionRecord'.mark.count \in {sessionRecord.mark.count, runSeen[r]}
      /\ copy' = copy
  <2>0. /\ sessionRecord \in [present : BOOLEAN, length : Nat, mark : Mark] /\ copy \in Mark
        /\ runSeen[r] \in Nat
    BY DEF EvolutionInv, EvolutionTypeOK
  <2>1. CASE sessionRecord.present
    <3>1. sessionRecord' = [sessionRecord EXCEPT !.mark = [count |-> runSeen[r], source |-> runSeen[r]]]
      BY <2>1 DEF Finish, Marked
    <3>2. [count |-> runSeen[r], source |-> runSeen[r]] \in Mark
      BY <2>0 DEF Mark
    <3>3. QED
      BY <2>0, <3>1, <3>2
  <2>2. CASE ~ sessionRecord.present
    BY <2>0, <2>2 DEF Finish
  <2>3. QED
    BY <2>1, <2>2
<1>2. /\ runPhase' \in [EvolutionRun -> {"new", "queued", "analysing", "editing", "ended", "crashed"}]
      /\ runPhase'[r] = IF sessionRecord.present THEN "ended" ELSE "crashed"
      /\ \A q \in EvolutionRun \ {r} : runPhase'[q] = runPhase[q]
      /\ trigger' \in [EvolutionRun -> {"manual", "new_session_created", "turn_interval"}]
      /\ runSeen' = [runSeen EXCEPT ![r] = 0] /\ runSeen' \in [EvolutionRun -> Nat]
      /\ inProgress' \in BOOLEAN
  <2>0. /\ runPhase \in [EvolutionRun -> {"new", "queued", "analysing", "editing", "ended", "crashed"}]
        /\ trigger \in [EvolutionRun -> {"manual", "new_session_created", "turn_interval"}]
        /\ runSeen \in [EvolutionRun -> Nat] /\ inProgress \in BOOLEAN
    BY DEF EvolutionInv, EvolutionTypeOK
  <2>1. CASE sessionRecord.present
    <3>1. LeaveRun(r, "ended")
      BY <2>1 DEF Finish
    <3>2. QED
      BY <2>0, <2>1, <3>1 DEF LeaveRun
  <2>2. CASE ~ sessionRecord.present
    <3>1. LeaveRun(r, "crashed")
      BY <2>2 DEF Finish
    <3>2. QED
      BY <2>0, <2>2, <3>1 DEF LeaveRun
  <2>3. QED
    BY <2>1, <2>2
<1>3. /\ record' \in [EvolutionRun -> [status : {"none", "running", "finished", "rolledBack"},
                                       changes : Seq(Change)]]
      /\ \A q \in EvolutionRun \ {r} : record'[q] = record[q]
      /\ record'[r].changes = IF sessionRecord.present THEN cs ELSE record[r].changes
  <2>0. record \in [EvolutionRun -> [status : {"none", "running", "finished", "rolledBack"},
                                    changes : Seq(Change)]]
    BY DEF EvolutionInv, EvolutionTypeOK
  <2>1. CASE sessionRecord.present
    BY <2>0, <2>1 DEF Finish
  <2>2. CASE ~ sessionRecord.present
    BY <2>0, <2>2 DEF Finish
  <2>3. QED
    BY <2>1, <2>2
<1>4. read' \subseteq 1 .. sessionRecord'.length
  BY <1>1 DEF EvolutionInv, EvolutionTypeOK
<1>5. MarksAreSound'
  <2>1. /\ EvolutionTypeOK /\ MarksAreSound
        /\ sessionRecord'.length \in Nat /\ sessionRecord.length <= sessionRecord'.length
        /\ read \subseteq read'
    BY <1>1 DEF EvolutionInv, EvolutionTypeOK
  <2>2. MarkIsSound(0)'
    BY <1>1 DEF MarkIsSound
  <2>3. /\ sessionRecord'.mark.count \in {sessionRecord.mark.count, copy.count}
             \cup {runSeen[q] : q \in EvolutionRun} \cup {0}
        /\ copy'.count \in {sessionRecord.mark.count, copy.count} \cup {0}
    BY <1>1
  <2>4. \A q \in EvolutionRun : runSeen'[q] \in {runSeen[q]} \cup {0}
    BY <1>2 DEF EvolutionInv, EvolutionTypeOK
  <2>5. \A n \in {0} : MarkIsSound(n)'
    BY <2>2 DEF MarkIsSound
  <2>6. {0} \in SUBSET Nat
    OBVIOUS
  <2> HIDE DEF MarksAreSound
  <2>7. QED
    BY <2>1, <2>3, <2>4, <2>5, <2>6, MarksKept
<1>6. RecordsAreLists'
  <2>1. \A q \in EvolutionRun : runChanges'[q] = IF q = r THEN cs ELSE runChanges[q]
    BY DEF EvolutionInv, EvolutionTypeOK
  <2>2. record[r].changes = << >>
    BY DEF EvolutionInv, RecordsAreLists
  <2>3. SUFFICES ASSUME NEW q \in EvolutionRun
                 PROVE  /\ record'[q].changes = IF runPhase'[q] = "ended" THEN runChanges'[q] ELSE << >>
                        /\ runPhase'[q] \in {"new", "queued", "analysing"} => runChanges'[q] = << >>
    BY DEF RecordsAreLists
  <2>4. CASE q = r
    BY <1>2, <1>3, <2>1, <2>2, <2>4
  <2>5. CASE q # r
    BY <1>2, <1>3, <2>1, <2>5 DEF EvolutionInv, RecordsAreLists
  <2>6. QED
    BY <2>4, <2>5
<1>7. QED
  BY <1>1, <1>2, <1>3, <1>4, <1>5, <1>6

(* Snapshots before the changes of the files fs that new lists.            *)
LEMMA SnapshotsKeep ==
  ASSUME EvolutionInv, NEW r \in EvolutionRun, NEW fs \in SUBSET EvolvedFile,
         TakeSnapshots(r, fs), NEW new \in Seq(Change),
         runChanges' = [runChanges EXCEPT ![r] = runChanges[r] \o new],
         \A i \in 1 .. Len(new) : /\ new[i].file \in fs
                                  /\ new[i].existed = (contents[new[i].file] # {})
  PROVE  /\ snapshot' \in [EvolutionRun -> Content] /\ heldBefore' \in [EvolutionRun -> Content]
         /\ runChanges' \in [EvolutionRun -> Seq(Change)]
         /\ CanBeRestored'
         /\ \A q \in EvolutionRun : Touched(q) \subseteq Touched(q)'
         /\ \A i \in 1 .. Len(new) : new[i].file \in Touched(r)'
         /\ \A f \in EvolvedFile, q \in EvolutionRun : \A m \in snapshot'[q][f] :
              m \in contents[f] \/ m \in snapshot[q][f]
<1> DEFINE cs == runChanges[r]
<1>1. /\ contents \in Content /\ snapshot \in [EvolutionRun -> Content]
      /\ heldBefore \in [EvolutionRun -> Content] /\ cs \in Seq(Change)
      /\ runChanges \in [EvolutionRun -> Seq(Change)]
  BY DEF EvolutionInv, EvolutionTypeOK
<1>2. /\ cs \o new \in Seq(Change)
      /\ {c.file : c \in Range(cs \o new)} = {c.file : c \in Range(cs)} \cup {c.file : c \in Range(new)}
  BY <1>1, ListGrows
<1>3. /\ runChanges' \in [EvolutionRun -> Seq(Change)]
      /\ runChanges'[r] = cs \o new
      /\ \A q \in EvolutionRun \ {r} : runChanges'[q] = runChanges[q]
  BY <1>1, <1>2
<1>4. /\ \A q \in EvolutionRun \ {r} : Touched(q)' = Touched(q)
      /\ Touched(r)' = Touched(r) \cup {c.file : c \in Range(new)}
  BY <1>2, <1>3 DEF Touched
<1>5. \A i \in 1 .. Len(new) : new[i].file \in {c.file : c \in Range(new)}
  BY FilesOfList
<1>6. /\ \A q \in EvolutionRun \ {r} : snapshot'[q] = snapshot[q] /\ heldBefore'[q] = heldBefore[q]
      /\ snapshot'[r] = [f \in EvolvedFile |->
           IF f \in fs /\ contents[f] # {} THEN contents[f] ELSE snapshot[r][f]]
      /\ heldBefore'[r] = [f \in EvolvedFile |->
           IF f \in fs \ Touched(r) THEN contents[f] ELSE heldBefore[r][f]]
      /\ DOMAIN snapshot' = EvolutionRun /\ DOMAIN heldBefore' = EvolutionRun
      /\ snapshot' = [snapshot EXCEPT ![r] = snapshot'[r]]
      /\ heldBefore' = [heldBefore EXCEPT ![r] = heldBefore'[r]]
      /\ \A f \in fs : contents[f] # {} /\ snapshot[r][f] # {} => <<r, f>> \in twice'
      /\ twice \subseteq twice'
  BY <1>1 DEF TakeSnapshots, Touched
<1>7. snapshot'[r] \in Content /\ heldBefore'[r] \in Content
  BY <1>1, <1>6 DEF Content
<1>8. snapshot' \in [EvolutionRun -> Content] /\ heldBefore' \in [EvolutionRun -> Content]
  BY <1>1, <1>6, <1>7
<1>9. CanBeRestored'
  <2>0. SUFFICES ASSUME NEW q \in EvolutionRun, NEW f \in EvolvedFile, <<q, f>> \notin twice'
                 PROVE  CanRestore(runChanges'[q], heldBefore'[q][f], snapshot'[q][f], f)
    BY DEF CanBeRestored, CanRestore, IsFirst
  <2>1. SUFFICES ASSUME NEW k \in 1 .. Len(runChanges'[q]), IsFirst(runChanges'[q], k, f)
                 PROVE  /\ runChanges'[q][k].existed = (heldBefore'[q][f] # {})
                        /\ runChanges'[q][k].existed => snapshot'[q][f] = heldBefore'[q][f]
    BY DEF CanRestore
  <2>2. \A j \in 1 .. Len(runChanges[q]) :
          IsFirst(runChanges[q], j, f) =>
            /\ runChanges[q][j].existed = (heldBefore[q][f] # {})
            /\ runChanges[q][j].existed => snapshot[q][f] = heldBefore[q][f]
    BY <1>6, <2>0 DEF EvolutionInv, CanBeRestored, CanRestore
  <2>3. CASE q # r
    BY <1>3, <1>6, <2>1, <2>2, <2>3
  <2>4. CASE q = r
    <3>1. \/ k \in 1 .. Len(cs) /\ IsFirst(cs, k, f) /\ (cs \o new)[k] = cs[k]
          \/ \E i \in 1 .. Len(new) : /\ (cs \o new)[k] = new[i]
                                      /\ \A j \in 1 .. Len(cs) : cs[j].file # f
      <4> HIDE DEF cs
      <4>1. IsFirst(cs \o new, k, f) /\ k \in 1 .. Len(cs \o new)
        BY <1>3, <2>1, <2>4
      <4>2. \A g \in EvolvedFile : \A j \in 1 .. Len(cs \o new) :
              IsFirst(cs \o new, j, g) =>
                \/ j \in 1 .. Len(cs) /\ IsFirst(cs, j, g) /\ (cs \o new)[j] = cs[j]
                \/ \E i \in 1 .. Len(new) : /\ (cs \o new)[j] = new[i]
                                            /\ \A h \in 1 .. Len(cs) : cs[h].file # g
        BY <1>1, ListGrows
      <4> HIDE DEF IsFirst
      <4>3. QED
        BY <4>1, <4>2
    <3>2. CASE k \in 1 .. Len(cs) /\ IsFirst(cs, k, f) /\ (cs \o new)[k] = cs[k]
      <4>1. f \in Touched(r)
        BY <1>1, <3>2, FilesOfList DEF IsFirst, Touched
      <4>2. heldBefore'[r][f] = heldBefore[r][f]
        BY <1>6, <4>1
      <4>3. cs[k].existed => snapshot'[r][f] = snapshot[r][f]
        <5>1. SUFFICES ASSUME cs[k].existed PROVE snapshot'[r][f] = snapshot[r][f]
          OBVIOUS
        <5>2. snapshot[r][f] = heldBefore[r][f] /\ heldBefore[r][f] # {}
          BY <2>2, <2>4, <3>2, <5>1
        <5>3. ~ (f \in fs /\ contents[f] # {})
          BY <1>6, <2>0, <2>4, <5>2
        <5>4. QED
          BY <1>6, <5>3
      <4>4. QED
        BY <1>3, <2>2, <2>4, <3>2, <4>2, <4>3
    <3>3. CASE \E i \in 1 .. Len(new) : /\ (cs \o new)[k] = new[i]
                                        /\ \A j \in 1 .. Len(cs) : cs[j].file # f
      <4>1. PICK i \in 1 .. Len(new) : (cs \o new)[k] = new[i]
        BY <3>3
      <4>2. f \notin Touched(r)
        <5>1. f \in {c.file : c \in Range(cs)} <=> \E j \in 1 .. Len(cs) : cs[j].file = f
          BY <1>1, FilesOfList
        <5>2. QED
          BY <3>3, <5>1 DEF Touched
      <4>3. new[i].file = f /\ f \in fs /\ new[i].existed = (contents[f] # {})
        BY <1>3, <2>1, <2>4, <4>1 DEF IsFirst
      <4>4. heldBefore'[r][f] = contents[f]
        BY <1>6, <4>2, <4>3
      <4>5. contents[f] # {} => snapshot'[r][f] = contents[f]
        BY <1>6, <4>3
      <4>6. QED
        BY <1>3, <2>4, <4>1, <4>3, <4>4, <4>5
    <3>4. QED
      BY <3>1, <3>2, <3>3
  <2>5. QED
    BY <2>3, <2>4
<1>10. \A f \in EvolvedFile, q \in EvolutionRun : \A m \in snapshot'[q][f] :
         m \in contents[f] \/ m \in snapshot[q][f]
  BY <1>6
<1>11. QED
  BY <1>3, <1>4, <1>5, <1>8, <1>9, <1>10

(* The parts of the invariant that a step leaves alone.                    *)
LEMMA FilesUntouched ==
  ASSUME EvolutionInv, UNCHANGED <<contents, snapshot, runChanges>>
  PROVE  ItemsAreListed' /\ contents' \in Content /\ snapshot' \in [EvolutionRun -> Content]
BY DEF EvolutionInv, EvolutionTypeOK, ItemsAreListed, Touched

LEMMA RestoreUntouched ==
  ASSUME EvolutionInv, UNCHANGED <<runChanges, heldBefore, snapshot, twice>>
  PROVE  /\ CanBeRestored' /\ runChanges' \in [EvolutionRun -> Seq(Change)]
         /\ heldBefore' \in [EvolutionRun -> Content]
BY DEF EvolutionInv, EvolutionTypeOK, CanBeRestored

LEMMA RecordsUntouched ==
  ASSUME EvolutionInv, UNCHANGED <<runChanges, record, runPhase>>
  PROVE  RecordsAreLists'
BY DEF EvolutionInv, RecordsAreLists

LEMMA MarksUntouched ==
  ASSUME EvolutionInv, UNCHANGED <<sessionRecord, copy, runSeen, read>>
  PROVE  MarksAreSound'
BY DEF EvolutionInv, MarksAreSound, MarkIsSound

LEMMA StartKeeps ==
  ASSUME EvolutionInv, NEW r \in EvolutionRun,
         NEW why \in {"manual", "new_session_created", "turn_interval"}, StartRun(r, why),
         UNCHANGED sessionRecord, copy' \in {copy, NoMark}, userTurn' \in {"idle", "running", "saved"}
  PROVE  EvolutionInv'
<1>1. /\ UNCHANGED <<contents, snapshot, runChanges, record, runSeen, requests, heldBefore, twice,
                     read, userWrites, rollbacks>>
      /\ runPhase[r] = "new" /\ runPhase' = [runPhase EXCEPT ![r] = "queued"]
      /\ trigger' = [trigger EXCEPT ![r] = why] /\ inProgress' = (inProgress \/ why # "manual")
  BY DEF StartRun, bounded, auxVars
<1>2. ItemsAreListed' /\ CanBeRestored'
  BY <1>1, FilesUntouched, RestoreUntouched
<1>3. NoMark \in Mark /\ NoMark.count = 0
  BY DEF NoMark, Mark
<1>4. MarksAreSound'
  <2>1. MarkIsSound(0)
    BY DEF EvolutionInv, EvolutionTypeOK, MarkIsSound
  <2>2. MarkIsSound(copy'.count)
    BY <1>3, <2>1 DEF EvolutionInv, MarksAreSound
  <2>3. QED
    BY <1>1, <2>2 DEF EvolutionInv, MarksAreSound, MarkIsSound
<1>5. RecordsAreLists'
  BY <1>1 DEF EvolutionInv, EvolutionTypeOK, RecordsAreLists
<1>6. EvolutionTypeOK'
  <2>1. copy' \in Mark
    BY <1>3 DEF EvolutionInv, EvolutionTypeOK
  <2>2. /\ runPhase' \in [EvolutionRun -> {"new", "queued", "analysing", "editing", "ended", "crashed"}]
        /\ trigger' \in [EvolutionRun -> {"manual", "new_session_created", "turn_interval"}]
        /\ \A q \in EvolutionRun : runPhase'[q] = "editing" => requests'[q] > 0
    BY <1>1 DEF EvolutionInv, EvolutionTypeOK
  <2>3. inProgress' \in BOOLEAN
    BY <1>1 DEF EvolutionInv, EvolutionTypeOK
  <2>4. QED
    BY <1>1, <2>1, <2>2, <2>3 DEF EvolutionInv, EvolutionTypeOK
<1>7. QED
  BY <1>2, <1>4, <1>5, <1>6 DEF EvolutionInv

(* A step of the user's turn.                                              *)
LEMMA TurnKeeps ==
  ASSUME EvolutionInv, UNCHANGED <<contents, inProgress, runVars, userWrites, rollbacks, auxVars>>,
         sessionRecord' \in [present : BOOLEAN, length : Nat, mark : Mark],
         sessionRecord.length <= sessionRecord'.length,
         copy' \in Mark, userTurn' \in {"idle", "running", "saved"},
         sessionRecord'.mark.count \in {sessionRecord.mark.count, copy.count},
         copy'.count \in {sessionRecord.mark.count, copy.count, 0}
  PROVE  EvolutionInv'
<1>1. /\ UNCHANGED <<contents, snapshot, runChanges, record, runPhase, trigger, runSeen, requests,
                     heldBefore, twice, read, userWrites, rollbacks, inProgress>>
  BY DEF runVars, auxVars
<1>2. ItemsAreListed' /\ CanBeRestored' /\ RecordsAreLists'
  BY <1>1, FilesUntouched, RestoreUntouched, RecordsUntouched
<1>3. MarksAreSound'
  <2>1. EvolutionTypeOK /\ MarksAreSound /\ sessionRecord'.length \in Nat /\ read \subseteq read'
    BY <1>1 DEF EvolutionInv
  <2>2. {0} \in SUBSET Nat /\ \A n \in {0} : MarkIsSound(n)'
    BY <2>1 DEF MarkIsSound
  <2>3. /\ sessionRecord'.mark.count \in {sessionRecord.mark.count, copy.count}
             \cup {runSeen[q] : q \in EvolutionRun} \cup {0}
        /\ copy'.count \in {sessionRecord.mark.count, copy.count} \cup {0}
        /\ \A q \in EvolutionRun : runSeen'[q] \in {runSeen[q]} \cup {0}
    BY <1>1
  <2> HIDE DEF MarksAreSound
  <2>4. QED
    BY <2>1, <2>2, <2>3, MarksKept
<1>4. EvolutionTypeOK'
  <2>1. read' \subseteq 1 .. sessionRecord'.length
    BY <1>1 DEF EvolutionInv, EvolutionTypeOK
  <2>2. QED
    BY <1>1, <2>1 DEF EvolutionInv, EvolutionTypeOK
<1>5. QED
  BY <1>2, <1>3, <1>4 DEF EvolutionInv

LEMMA SkipKeeps ==
  ASSUME EvolutionInv, NEW r \in EvolutionRun, Skip(r)
  PROVE  EvolutionInv'
<1>1. /\ UNCHANGED <<contents, userTurn, copy, requests, runChanges, snapshot, userWrites, rollbacks,
                     read, heldBefore, twice>>
      /\ runPhase[r] = "queued" /\ LeaveRun(r, "ended")
      /\ record' = [record EXCEPT ![r].status = "finished"]
      /\ sessionRecord' \in {sessionRecord, Marked(sessionRecord.length)}
      /\ sessionRecord' # sessionRecord => sessionRecord.length < 2
  BY DEF Skip, HasLock, TooShort, bounded, auxVars
<1>2. ItemsAreListed' /\ CanBeRestored'
  BY <1>1, FilesUntouched, RestoreUntouched
<1>3. /\ sessionRecord' \in [present : BOOLEAN, length : Nat, mark : Mark]
      /\ sessionRecord'.length = sessionRecord.length
      /\ \/ sessionRecord'.mark.count = sessionRecord.mark.count
         \/ sessionRecord.length < 2 /\ sessionRecord'.mark.count = sessionRecord.length
  <2>1. sessionRecord \in [present : BOOLEAN, length : Nat, mark : Mark]
    BY DEF EvolutionInv, EvolutionTypeOK
  <2>2. [count |-> sessionRecord.length, source |-> sessionRecord.length] \in Mark
    BY <2>1 DEF Mark
  <2>3. QED
    BY <1>1, <2>1, <2>2 DEF Marked
<1>4. /\ runPhase' = [runPhase EXCEPT ![r] = "ended"] /\ runSeen' = [runSeen EXCEPT ![r] = 0]
      /\ trigger' = [trigger EXCEPT ![r] = "manual"] /\ inProgress' = (inProgress /\ trigger[r] = "manual")
  BY <1>1 DEF LeaveRun
<1>5. MarksAreSound'
  <2> DEFINE sources == IF sessionRecord.length < 2 THEN {0, sessionRecord.length} ELSE {0}
  <2>1. EvolutionTypeOK /\ MarksAreSound /\ sessionRecord.length \in Nat
    BY DEF EvolutionInv, EvolutionTypeOK
  <2>2. sources \in SUBSET Nat /\ \A n \in sources : MarkIsSound(n)'
    BY <1>1, <1>3, <2>1 DEF MarkIsSound
  <2>3. /\ sessionRecord'.mark.count \in {sessionRecord.mark.count, copy.count}
             \cup {runSeen[q] : q \in EvolutionRun} \cup sources
        /\ copy'.count \in {sessionRecord.mark.count, copy.count} \cup sources
    BY <1>1, <1>3
  <2>4. \A q \in EvolutionRun : runSeen'[q] \in {runSeen[q]} \cup sources
    BY <1>4, <2>1 DEF EvolutionTypeOK
  <2>5. /\ sessionRecord'.length \in Nat /\ sessionRecord.length <= sessionRecord'.length
        /\ read \subseteq read'
    BY <1>1, <1>3, <2>1
  <2> HIDE DEF MarksAreSound, sources
  <2>6. QED
    BY <2>1, <2>2, <2>3, <2>4, <2>5, MarksKept
<1>6. RecordsAreLists'
  <2>1. record[r].changes = << >> /\ runChanges[r] = << >>
    BY <1>1 DEF EvolutionInv, RecordsAreLists
  <2>2. \A q \in EvolutionRun : record'[q].changes = record[q].changes
    BY <1>1 DEF EvolutionInv, EvolutionTypeOK
  <2>3. /\ runPhase'[r] = "ended" /\ \A q \in EvolutionRun \ {r} : runPhase'[q] = runPhase[q]
    BY <1>4 DEF EvolutionInv, EvolutionTypeOK
  <2>4. QED
    BY <1>1, <2>1, <2>2, <2>3 DEF EvolutionInv, RecordsAreLists
<1>7. EvolutionTypeOK'
  <2>1. /\ runPhase' \in [EvolutionRun -> {"new", "queued", "analysing", "editing", "ended", "crashed"}]
        /\ trigger' \in [EvolutionRun -> {"manual", "new_session_created", "turn_interval"}]
        /\ runSeen' \in [EvolutionRun -> Nat]
        /\ \A q \in EvolutionRun : runPhase'[q] = "editing" => requests'[q] > 0
    BY <1>1, <1>4 DEF EvolutionInv, EvolutionTypeOK
  <2>2. inProgress' \in BOOLEAN
    BY <1>4 DEF EvolutionInv, EvolutionTypeOK
  <2>3. record' \in [EvolutionRun -> [status : {"none", "running", "finished", "rolledBack"},
                                     changes : Seq(Change)]]
    BY <1>1 DEF EvolutionInv, EvolutionTypeOK
  <2>4. QED
    BY <1>1, <1>3, <2>1, <2>2, <2>3 DEF EvolutionInv, EvolutionTypeOK
<1>8. QED
  BY <1>2, <1>5, <1>6, <1>7 DEF EvolutionInv

(* What a run reads, with what was read before, is all of the session.     *)
LEMMA ContextIsRead ==
  ASSUME EvolutionInv, NEW r \in EvolutionRun
  PROVE  /\ ContextStart(r) \in Nat
         /\ FirstGiven .. sessionRecord.length
              \subseteq read \cup (ContextStart(r) + 1 .. sessionRecord.length)
<1> DEFINE n == sessionRecord.mark.count
           len == sessionRecord.length
           z == 2 * ((n - 1) \div 2 - (Overlap - 1))
<1>1. n \in Nat /\ len \in Nat /\ Overlap \in Nat /\ n <= len /\ (n >= 2 => FirstGiven .. n \subseteq read)
  BY EvolutionAssumption DEF EvolutionInv, EvolutionTypeOK, MarksAreSound, MarkIsSound, Mark
<1>2. FirstGiven = IF Overlap = 0 THEN 2 ELSE 1
  BY DEF FirstGiven
<1>3. CASE trigger[r] # "turn_interval" \/ n = 0
  <2>1. ContextStart(r) = 0
    BY <1>3 DEF ContextStart
  <2>2. QED
    BY <1>1, <1>2, <2>1
<1>4. CASE trigger[r] = "turn_interval" /\ n # 0 /\ Overlap = 0
  <2>1. ContextStart(r) = n
    BY <1>4 DEF ContextStart
  <2>2. \A i \in 2 .. len : i \in 2 .. n \/ i \in n + 1 .. len
    BY <1>1
  <2>3. \A i \in 2 .. n : i \in read
    BY <1>1, <1>2, <1>4
  <2> HIDE DEF n, len
  <2>4. QED
    BY <1>1, <1>2, <1>4, <2>1, <2>2, <2>3 DEF n, len
<1>5. CASE trigger[r] = "turn_interval" /\ n # 0 /\ Overlap # 0
  <2>1. z \in Int /\ z <= n - 1
    <3>1. (n - 1) \div 2 \in Int /\ 2 * ((n - 1) \div 2) <= n - 1
      BY <1>1, <1>5
    <3>2. QED
      BY <1>1, <1>5, <3>1
  <2>2. ContextStart(r) = Max({0, z})
    BY <1>5 DEF ContextStart
  <2>3. Max({0, z}) \in {0, z} /\ Max({0, z}) >= 0
    <3>1. \E x \in {0, z} : \A y \in {0, z} : x >= y
      BY <2>1
    <3>2. QED
      BY <2>1, <3>1 DEF Max
  <2>4. ContextStart(r) \in Nat /\ ContextStart(r) <= n - 1
    BY <1>1, <1>5, <2>1, <2>2, <2>3
  <2>5. \A i \in 1 .. len : i \in 1 .. n \/ i \in ContextStart(r) + 1 .. len
    BY <1>1, <2>4
  <2>6. n >= 2 => \A i \in 1 .. n : i \in read
    BY <1>1, <1>2, <1>5
  <2>7. n < 2 => ContextStart(r) = 0
    BY <1>1, <1>5, <2>4
  <2> HIDE DEF n, len, z
  <2>8. QED
    BY <1>1, <1>2, <1>5, <2>4, <2>5, <2>6, <2>7 DEF n, len
<1>6. QED
  BY <1>3, <1>4, <1>5

LEMMA AnalyseKeeps ==
  ASSUME EvolutionInv, NEW r \in EvolutionRun, Analyse(r)
  PROVE  EvolutionInv'
<1>1. /\ UNCHANGED <<contents, sessionRecord, userTurn, copy, inProgress, trigger, requests, runChanges,
                     snapshot, userWrites, rollbacks, heldBefore, twice>>
      /\ runPhase[r] = "queued" /\ runPhase' = [runPhase EXCEPT ![r] = "analysing"]
      /\ record' = [record EXCEPT ![r].status = "running"]
      /\ runSeen' = [runSeen EXCEPT ![r] = sessionRecord.length]
      /\ read' = read \cup (ContextStart(r) + 1 .. sessionRecord.length)
  BY DEF Analyse, HasLock, bounded, turnVars
<1>2. ItemsAreListed' /\ CanBeRestored'
  BY <1>1, FilesUntouched, RestoreUntouched
<1>3. /\ sessionRecord.length \in Nat /\ read \subseteq 1 .. sessionRecord.length
      /\ runSeen \in [EvolutionRun -> Nat]
      /\ ContextStart(r) \in Nat /\ FirstGiven .. sessionRecord.length \subseteq read'
  BY <1>1, ContextIsRead DEF EvolutionInv, EvolutionTypeOK
<1>4. MarksAreSound'
  <2>1. EvolutionTypeOK /\ MarksAreSound
    BY DEF EvolutionInv
  <2>2. /\ {sessionRecord.length} \in SUBSET Nat
        /\ \A n \in {sessionRecord.length} : MarkIsSound(n)'
    BY <1>1, <1>3 DEF MarkIsSound, FirstGiven
  <2>3. /\ sessionRecord'.length \in Nat /\ sessionRecord.length <= sessionRecord'.length
        /\ read \subseteq read'
        /\ sessionRecord'.mark.count = sessionRecord.mark.count /\ copy'.count = copy.count
    BY <1>1, <1>3
  <2>4. \A q \in EvolutionRun : runSeen'[q] \in {runSeen[q]} \cup {sessionRecord.length}
    BY <1>1, <1>3
  <2> HIDE DEF MarksAreSound
  <2>5. QED
    BY <2>1, <2>2, <2>3, <2>4, MarksKept
<1>5. RecordsAreLists'
  <2>1. \A q \in EvolutionRun : record'[q].changes = record[q].changes
    BY <1>1 DEF EvolutionInv, EvolutionTypeOK
  <2>2. QED
    BY <1>1, <2>1 DEF EvolutionInv, EvolutionTypeOK, RecordsAreLists
<1>6. EvolutionTypeOK'
  <2>1. /\ runPhase' \in [EvolutionRun -> {"new", "queued", "analysing", "editing", "ended", "crashed"}]
        /\ \A q \in EvolutionRun : runPhase'[q] = "editing" => requests'[q] > 0
    BY <1>1 DEF EvolutionInv, EvolutionTypeOK
  <2>2. record' \in [EvolutionRun -> [status : {"none", "running", "finished", "rolledBack"},
                                     changes : Seq(Change)]]
    BY <1>1 DEF EvolutionInv, EvolutionTypeOK
  <2>3. runSeen' \in [EvolutionRun -> Nat] /\ read' \subseteq 1 .. sessionRecord'.length
    BY <1>1, <1>3
  <2>4. QED
    BY <1>1, <2>1, <2>2, <2>3 DEF EvolutionInv, EvolutionTypeOK
<1>7. QED
  BY <1>2, <1>4, <1>5, <1>6 DEF EvolutionInv

LEMMA AnalysisFailsKeeps ==
  ASSUME EvolutionInv, NEW r \in EvolutionRun, AnalysisFails(r)
  PROVE  EvolutionInv'
<1>1. /\ UNCHANGED <<contents, userTurn, copy, requests, runChanges, snapshot, userWrites, rollbacks, read,
                     heldBefore, twice>>
      /\ runPhase[r] = "analysing" /\ Finish(r, contents, runChanges[r])
  BY DEF AnalysisFails, bounded
<1>2. runChanges[r] \in Seq(Change) /\ runChanges' = [runChanges EXCEPT ![r] = runChanges[r]]
  BY <1>1 DEF EvolutionInv, EvolutionTypeOK
<1>3. ItemsAreListed' /\ CanBeRestored'
  BY <1>1, FilesUntouched, RestoreUntouched
<1>4. /\ sessionRecord' \in [present : BOOLEAN, length : Nat, mark : Mark] /\ copy' \in Mark
      /\ runPhase' \in [EvolutionRun -> {"new", "queued", "analysing", "editing", "ended", "crashed"}]
      /\ runPhase'[r] \in {"ended", "crashed"}
      /\ \A q \in EvolutionRun \ {r} : runPhase'[q] = runPhase[q]
      /\ trigger' \in [EvolutionRun -> {"manual", "new_session_created", "turn_interval"}]
      /\ runSeen' \in [EvolutionRun -> Nat]
      /\ record' \in [EvolutionRun -> [status : {"none", "running", "finished", "rolledBack"},
                                      changes : Seq(Change)]]
      /\ inProgress' \in BOOLEAN
      /\ read' \subseteq 1 .. sessionRecord'.length
      /\ MarksAreSound' /\ RecordsAreLists'
  BY <1>1, <1>2, FinishKeeps
<1>5. \A q \in EvolutionRun : runPhase'[q] = "editing" => requests'[q] > 0
  BY <1>1, <1>4 DEF EvolutionInv, EvolutionTypeOK
<1>6. EvolutionTypeOK'
  BY <1>1, <1>4, <1>5 DEF EvolutionInv, EvolutionTypeOK
<1>7. QED
  BY <1>3, <1>4, <1>6 DEF EvolutionInv

(* The analysis has answered: MEMORY.md may grow, and the skill be asked   *)
(* for.                                                                    *)
LEMMA AnalysedKeeps ==
  ASSUME EvolutionInv, NEW r \in EvolutionRun, NEW learns \in BOOLEAN, NEW asked \in Requests,
         Analysed(r, learns, asked)
  PROVE  EvolutionInv' /\ contents["MEMORY.md"] \subseteq contents'["MEMORY.md"]
<1> DEFINE fs == [contents EXCEPT !["MEMORY.md"] = Learned(r, learns)]
           new == IF learns THEN <<[file |-> "MEMORY.md", existed |-> contents["MEMORY.md"] # {}]>>
                            ELSE << >>
           saved == IF learns THEN {"MEMORY.md"} ELSE {}
<1>1. /\ runPhase[r] = "analysing" /\ TakeSnapshots(r, saved) /\ contents' = fs
      /\ runChanges' = [runChanges EXCEPT ![r] = new] /\ requests' = [requests EXCEPT ![r] = asked]
      /\ IF asked = 0
         THEN Finish(r, fs, new)
         ELSE /\ runPhase' = [runPhase EXCEPT ![r] = "editing"]
              /\ UNCHANGED <<sessionRecord, inProgress, trigger, runSeen, record, heldAfter>>
      /\ UNCHANGED <<userTurn, copy, userWrites, rollbacks, turns, read>>
  BY DEF Analysed
<1>2. /\ contents \in Content /\ runChanges \in [EvolutionRun -> Seq(Change)] /\ r \in Nat
      /\ "MEMORY.md" \in EvolvedFile /\ asked \in Nat /\ requests \in [EvolutionRun -> Nat]
      /\ runPhase \in [EvolutionRun -> {"new", "queued", "analysing", "editing", "ended", "crashed"}]
  BY EvolvedFiles, EvolutionAssumption DEF EvolutionInv, EvolutionTypeOK, EvolutionRun, Requests
<1>3. runChanges[r] = << >> /\ record[r].changes = << >>
  BY <1>1 DEF EvolutionInv, RecordsAreLists
<1>4. /\ new \in Seq(Change)
      /\ \A i \in 1 .. Len(new) : /\ new[i].file \in saved
                                  /\ new[i].existed = (contents[new[i].file] # {})
      /\ learns => \E i \in 1 .. Len(new) : new[i].file = "MEMORY.md"
  <2>1. CASE learns
    <3>1. new = <<[file |-> "MEMORY.md", existed |-> contents["MEMORY.md"] # {}]>>
      BY <2>1
    <3>2. [file |-> "MEMORY.md", existed |-> contents["MEMORY.md"] # {}] \in Change
      BY <1>2 DEF Change
    <3>3. new \in Seq(Change) /\ Len(new) = 1
          /\ new[1] = [file |-> "MEMORY.md", existed |-> contents["MEMORY.md"] # {}]
      BY <3>1, <3>2
    <3> HIDE DEF new
    <3>4. 1 \in 1 .. Len(new) /\ \A i \in 1 .. Len(new) : i = 1
      BY <3>3
    <3>5. QED
      BY <2>1, <3>3, <3>4
  <2>2. CASE ~ learns
    BY <2>2
  <2>3. QED
    BY <2>1, <2>2
<1>5. runChanges' = [runChanges EXCEPT ![r] = runChanges[r] \o new]
  <2>1. << >> \o new = new
    BY <1>4, ConcatEmptySeq
  <2> HIDE DEF new
  <2>2. QED
    BY <1>1, <1>3, <2>1
<1>6. saved \in SUBSET EvolvedFile
  BY <1>2
<1> HIDE DEF new, saved
<1>7. /\ snapshot' \in [EvolutionRun -> Content] /\ heldBefore' \in [EvolutionRun -> Content]
      /\ runChanges' \in [EvolutionRun -> Seq(Change)]
      /\ CanBeRestored'
      /\ \A q \in EvolutionRun : Touched(q) \subseteq Touched(q)'
      /\ \A i \in 1 .. Len(new) : new[i].file \in Touched(r)'
      /\ \A f \in EvolvedFile, q \in EvolutionRun : \A m \in snapshot'[q][f] :
           m \in contents[f] \/ m \in snapshot[q][f]
  BY <1>1, <1>4, <1>5, <1>6, SnapshotsKeep
<1>8. /\ Learned(r, learns) \subseteq contents["MEMORY.md"] \cup (IF learns THEN {<<r, 0>>} ELSE {})
      /\ contents["MEMORY.md"] \subseteq Learned(r, learns)
      /\ Learned(r, learns) \subseteq Item
  BY <1>2 DEF Learned, Content, Item
<1>9. /\ contents' \in Content
      /\ \A f \in EvolvedFile : contents'[f] = IF f = "MEMORY.md" THEN Learned(r, learns) ELSE contents[f]
  BY <1>1, <1>2, <1>8 DEF Content
<1>10. ItemsAreListed'
  <2>1. learns => "MEMORY.md" \in Touched(r)'
    BY <1>4, <1>7
  <2>2. ASSUME NEW f \in EvolvedFile, NEW m \in contents'[f], m \notin contents[f]
        PROVE  f \in Touched(m[1])'
    <3>1. f = "MEMORY.md" /\ learns /\ m = <<r, 0>>
      BY <1>8, <1>9, <2>2
    <3>2. m[1] = r
      BY <3>1
    <3>3. QED
      BY <2>1, <3>1, <3>2
  <2>3. \A f \in EvolvedFile : \A m \in contents'[f] : m \in contents[f] \/ f \in Touched(m[1])'
    BY <2>2
  <2>4. ItemsAreListed
    BY DEF EvolutionInv
  <2> HIDE DEF Touched, ItemsAreListed
  <2>5. QED
    BY <1>7, <2>3, <2>4, ItemsKept
<1>11. CASE asked = 0
  <2>1. Finish(r, fs, new) /\ runPhase[r] \in {"analysing", "editing"}
    BY <1>1, <1>11
  <2>2. UNCHANGED <<userTurn, copy, userWrites, rollbacks, read>>
    BY <1>1
  <2> HIDE DEF fs
  <2>3. /\ sessionRecord' \in [present : BOOLEAN, length : Nat, mark : Mark] /\ copy' \in Mark
        /\ runPhase' \in [EvolutionRun -> {"new", "queued", "analysing", "editing", "ended", "crashed"}]
        /\ runPhase'[r] \in {"ended", "crashed"}
        /\ \A q \in EvolutionRun \ {r} : runPhase'[q] = runPhase[q]
        /\ trigger' \in [EvolutionRun -> {"manual", "new_session_created", "turn_interval"}]
        /\ runSeen' \in [EvolutionRun -> Nat]
        /\ record' \in [EvolutionRun -> [status : {"none", "running", "finished", "rolledBack"},
                                        changes : Seq(Change)]]
        /\ inProgress' \in BOOLEAN
        /\ read' \subseteq 1 .. sessionRecord'.length
        /\ MarksAreSound' /\ RecordsAreLists'
    BY <1>1, <1>4, <2>1, <2>2, FinishKeeps
  <2>4. /\ requests' \in [EvolutionRun -> Nat]
        /\ \A q \in EvolutionRun : runPhase'[q] = "editing" => requests'[q] > 0
    BY <1>1, <1>2, <2>3 DEF EvolutionInv, EvolutionTypeOK
  <2>5. userWrites' \in Nat /\ rollbacks' \in Nat /\ userTurn' \in {"idle", "running", "saved"}
    BY <1>1 DEF EvolutionInv, EvolutionTypeOK
  <2>6. EvolutionTypeOK'
    BY <1>7, <1>9, <2>3, <2>4, <2>5 DEF EvolutionTypeOK
  <2>7. QED
    BY <1>2, <1>7, <1>8, <1>9, <1>10, <2>3, <2>6 DEF EvolutionInv
<1>12. CASE asked # 0
  <2>1. /\ runPhase' = [runPhase EXCEPT ![r] = "editing"]
        /\ UNCHANGED <<sessionRecord, inProgress, trigger, runSeen, record>>
    BY <1>1, <1>12
  <2>2. MarksAreSound'
    BY <1>1, <2>1, MarksUntouched
  <2>3. RecordsAreLists'
    <3>1. \A q \in EvolutionRun \ {r} : runChanges'[q] = runChanges[q] /\ runPhase'[q] = runPhase[q]
      BY <1>1, <1>2, <2>1
    <3>2. runPhase'[r] = "editing"
      BY <1>2, <2>1
    <3>3. QED
      BY <1>3, <2>1, <3>1, <3>2 DEF EvolutionInv, RecordsAreLists
  <2>4. /\ requests' \in [EvolutionRun -> Nat]
        /\ \A q \in EvolutionRun : runPhase'[q] = "editing" => requests'[q] > 0
    BY <1>1, <1>2, <1>12, <2>1 DEF EvolutionInv, EvolutionTypeOK
  <2>5. runPhase' \in [EvolutionRun -> {"new", "queued", "analysing", "editing", "ended", "crashed"}]
    BY <1>2, <2>1
  <2>6. EvolutionTypeOK'
    BY <1>1, <1>7, <1>9, <2>1, <2>4, <2>5 DEF EvolutionInv, EvolutionTypeOK
  <2>7. QED
    BY <1>2, <1>7, <1>8, <1>9, <1>10, <2>2, <2>3, <2>6 DEF EvolutionInv
<1>13. QED
  BY <1>11, <1>12

(* A request that is done, for whatever it has changed.                    *)
LEMMA RequestKeeps ==
  ASSUME EvolutionInv, NEW r \in EvolutionRun, NEW fs, NEW cs \in Seq(Change),
         runPhase[r] = "editing", RequestDone(r, fs, cs),
         runChanges' = [runChanges EXCEPT ![r] = cs],
         contents' \in Content, snapshot' \in [EvolutionRun -> Content],
         heldBefore' \in [EvolutionRun -> Content], ItemsAreListed', CanBeRestored'
  PROVE  EvolutionInv'
<1>1. /\ requests' = [requests EXCEPT ![r] = requests[r] - 1]
      /\ IF requests[r] = 1
         THEN Finish(r, fs, cs)
         ELSE UNCHANGED <<sessionRecord, runPhase, inProgress, trigger, runSeen, record, heldAfter>>
      /\ UNCHANGED <<userTurn, copy, userWrites, rollbacks, read>>
  BY DEF RequestDone, bounded
<1>2. /\ requests \in [EvolutionRun -> Nat] /\ requests[r] > 0
      /\ runChanges' \in [EvolutionRun -> Seq(Change)]
      /\ userWrites' \in Nat /\ rollbacks' \in Nat /\ userTurn' \in {"idle", "running", "saved"}
  BY <1>1 DEF EvolutionInv, EvolutionTypeOK
<1>3. CASE requests[r] = 1
  <2>1. Finish(r, fs, cs) /\ runPhase[r] \in {"analysing", "editing"}
    BY <1>1, <1>3
  <2>2. /\ sessionRecord' \in [present : BOOLEAN, length : Nat, mark : Mark] /\ copy' \in Mark
        /\ runPhase' \in [EvolutionRun -> {"new", "queued", "analysing", "editing", "ended", "crashed"}]
        /\ runPhase'[r] \in {"ended", "crashed"}
        /\ \A q \in EvolutionRun \ {r} : runPhase'[q] = runPhase[q]
        /\ trigger' \in [EvolutionRun -> {"manual", "new_session_created", "turn_interval"}]
        /\ runSeen' \in [EvolutionRun -> Nat]
        /\ record' \in [EvolutionRun -> [status : {"none", "running", "finished", "rolledBack"},
                                        changes : Seq(Change)]]
        /\ inProgress' \in BOOLEAN
        /\ read' \subseteq 1 .. sessionRecord'.length
        /\ MarksAreSound' /\ RecordsAreLists'
    BY <1>1, <2>1, FinishKeeps
  <2>3. /\ requests' \in [EvolutionRun -> Nat]
        /\ \A q \in EvolutionRun : runPhase'[q] = "editing" => requests'[q] > 0
    <3>1. requests' \in [EvolutionRun -> Nat] /\ \A q \in EvolutionRun \ {r} : requests'[q] = requests[q]
      BY <1>1, <1>2
    <3>2. QED
      BY <2>2, <3>1 DEF EvolutionInv, EvolutionTypeOK
  <2>4. EvolutionTypeOK'
    BY <1>2, <2>2, <2>3 DEF EvolutionTypeOK
  <2>5. QED
    BY <2>2, <2>4 DEF EvolutionInv
<1>4. CASE requests[r] # 1
  <2>1. UNCHANGED <<sessionRecord, runPhase, inProgress, trigger, runSeen, record>>
    BY <1>1, <1>4
  <2>2. MarksAreSound'
    BY <1>1, <2>1, MarksUntouched
  <2>3. RecordsAreLists'
    <3>1. \A q \in EvolutionRun \ {r} : runChanges'[q] = runChanges[q]
      BY DEF EvolutionInv, EvolutionTypeOK
    <3>2. QED
      BY <2>1, <3>1 DEF EvolutionInv, RecordsAreLists
  <2>4. /\ requests' \in [EvolutionRun -> Nat]
        /\ \A q \in EvolutionRun : runPhase'[q] = "editing" => requests'[q] > 0
    BY <1>1, <1>2, <1>4, <2>1 DEF EvolutionInv, EvolutionTypeOK
  <2>5. EvolutionTypeOK'
    BY <1>1, <1>2, <2>1, <2>4 DEF EvolutionInv, EvolutionTypeOK
  <2>6. QED
    BY <2>2, <2>3, <2>5 DEF EvolutionInv
<1>5. QED
  BY <1>3, <1>4

LEMMA NoEditKeeps ==
  ASSUME EvolutionInv, NEW r \in EvolutionRun, NoEdit(r)
  PROVE  EvolutionInv'
<1>1. /\ runPhase[r] = "editing" /\ RequestDone(r, contents, runChanges[r])
      /\ UNCHANGED <<contents, runChanges, snapshot, heldBefore, twice>>
  BY DEF NoEdit
<1>2. runChanges[r] \in Seq(Change) /\ runChanges' = [runChanges EXCEPT ![r] = runChanges[r]]
  BY <1>1 DEF EvolutionInv, EvolutionTypeOK
<1>3. /\ ItemsAreListed' /\ contents' \in Content /\ snapshot' \in [EvolutionRun -> Content]
      /\ CanBeRestored' /\ heldBefore' \in [EvolutionRun -> Content]
  BY <1>1, FilesUntouched, RestoreUntouched
<1>4. QED
  BY <1>1, <1>2, <1>3, RequestKeeps

(* An edit of the skill, whether it is kept or refused.                    *)
LEMMA EditedKeeps ==
  ASSUME EvolutionInv, NEW r \in EvolutionRun, NEW op \in Operations, NEW valid \in BOOLEAN,
         Edited(r, op, valid)
  PROVE  EvolutionInv' /\ contents'["MEMORY.md"] = contents["MEMORY.md"]
<1> DEFINE touched == op.touched
           rewritten == [f \in EvolvedFile |-> IF f \in op.deleted THEN {}
                                             ELSE IF f \in touched THEN {<<r, requests[r]>>}
                                             ELSE contents[f]]
           new == ChangesOf(touched)
           cs == runChanges[r] \o new
           fs == IF Kept(rewritten, op, valid) THEN rewritten ELSE Undo(rewritten, new, snapshot'[r])
           saved == touched \cup op.failing
<1>1. /\ runPhase[r] = "editing" /\ TakeSnapshots(r, saved) /\ contents' = fs
      /\ runChanges' = [runChanges EXCEPT ![r] = cs] /\ RequestDone(r, fs, cs)
  BY DEF Edited
<1>2. /\ contents \in Content /\ runChanges \in [EvolutionRun -> Seq(Change)] /\ r \in Nat
      /\ requests[r] \in Nat /\ snapshot \in [EvolutionRun -> Content]
  BY DEF EvolutionInv, EvolutionTypeOK, EvolutionRun
<1>3. /\ touched \in SUBSET SkillFile /\ saved \in SUBSET EvolvedFile /\ op.deleted \subseteq touched
      /\ "MEMORY.md" \notin touched /\ "MEMORY.md" \in EvolvedFile
      /\ touched \subseteq EvolvedFile
  BY EvolvedFiles, EvolutionAssumption DEF Operations
<1>4. /\ new \in Seq(Change)
      /\ \A i \in 1 .. Len(new) : /\ new[i].file \in touched
                                  /\ new[i].existed = (contents[new[i].file] # {})
      /\ \A f \in touched : \E i \in 1 .. Len(new) : new[i].file = f
  BY <1>2, <1>3, EditListed
<1>5. /\ rewritten \in Content
      /\ \A f \in EvolvedFile \ touched : rewritten[f] = contents[f]
      /\ \A f \in touched : rewritten[f] \subseteq {<<r, requests[r]>>}
  BY <1>2, <1>3 DEF Content, Item
<1>6. \A i \in 1 .. Len(new) : /\ new[i].file \in saved
                                 /\ new[i].existed = (contents[new[i].file] # {})
  BY <1>4
<1> HIDE DEF new, rewritten, saved, touched
<1>7. /\ snapshot' \in [EvolutionRun -> Content] /\ heldBefore' \in [EvolutionRun -> Content]
      /\ runChanges' \in [EvolutionRun -> Seq(Change)]
      /\ CanBeRestored'
      /\ \A q \in EvolutionRun : Touched(q) \subseteq Touched(q)'
      /\ \A i \in 1 .. Len(new) : new[i].file \in Touched(r)'
      /\ \A f \in EvolvedFile, q \in EvolutionRun : \A m \in snapshot'[q][f] :
           m \in contents[f] \/ m \in snapshot[q][f]
  BY <1>1, <1>3, <1>4, <1>6, SnapshotsKeep
<1>8. cs \in Seq(Change)
  BY <1>1, <1>2, <1>7
<1>9. /\ contents' \in Content
      /\ \A f \in EvolvedFile : contents'[f] \subseteq rewritten[f] \cup snapshot'[r][f]
      /\ \A f \in EvolvedFile \ touched : contents'[f] = contents[f]
  <2>1. snapshot'[r] \in Content
    BY <1>7
  <2>2. CASE Kept(rewritten, op, valid)
    BY <1>1, <1>5, <2>2
  <2>3. CASE ~ Kept(rewritten, op, valid)
    <3>1. contents' = Undo(rewritten, new, snapshot'[r])
      BY <1>1, <2>3
    <3>2. contents' \in Content
      BY <1>4, <1>5, <2>1, <3>1, UndoIs
    <3>3. \A f \in EvolvedFile : contents'[f] \subseteq rewritten[f] \cup snapshot'[r][f]
      BY <1>4, <1>5, <2>1, <3>1, UndoItems
    <3>4. ASSUME NEW f \in EvolvedFile \ touched PROVE contents'[f] = contents[f]
      <4>1. \A k \in 1 .. Len(new) : new[k].file # f
        BY <1>4
      <4>2. Undo(rewritten, new, snapshot'[r])[f] = rewritten[f]
        BY <1>4, <1>5, <2>1, <4>1, UndoIs
      <4>3. QED
        BY <1>5, <3>1, <4>2
    <3>5. QED
      BY <3>2, <3>3, <3>4
  <2>4. QED
    BY <2>2, <2>3
<1>10. ItemsAreListed'
  <2>1. ASSUME NEW f \in touched PROVE f \in Touched(r)'
    <3>1. PICK i \in 1 .. Len(new) : new[i].file = f
      BY <1>4
    <3> HIDE DEF Touched
    <3>2. QED
      BY <1>7, <3>1
  <2>2. ASSUME NEW f \in EvolvedFile, NEW m \in contents'[f], m \notin contents[f]
        PROVE  \/ \E q \in EvolutionRun : m \in snapshot[q][f]
               \/ f \in Touched(m[1])'
    <3>1. f \in touched
      BY <1>9, <2>2
    <3>2. m \in snapshot'[r][f] \/ m = <<r, requests[r]>>
      BY <1>5, <1>9, <3>1
    <3>3. CASE m \in snapshot'[r][f]
      BY <1>7, <2>2, <3>3
    <3>4. CASE m = <<r, requests[r]>>
      <4>1. m[1] = r
        BY <3>4
      <4>2. QED
        BY <2>1, <3>1, <4>1
    <3>5. QED
      BY <3>2, <3>3, <3>4
  <2>3. \A f \in EvolvedFile : \A m \in contents'[f] :
          \/ m \in contents[f]
          \/ \E q \in EvolutionRun : m \in snapshot[q][f]
          \/ f \in Touched(m[1])'
    BY <2>2
  <2>4. ItemsAreListed
    BY DEF EvolutionInv
  <2> HIDE DEF Touched, ItemsAreListed
  <2>5. QED
    BY <1>7, <2>3, <2>4, ItemsKept
<1>11. EvolutionInv'
  <2> HIDE DEF cs, fs
  <2>1. QED
    BY <1>1, <1>7, <1>8, <1>9, <1>10, RequestKeeps
<1>12. contents'["MEMORY.md"] = contents["MEMORY.md"]
  BY <1>3, <1>9
<1>13. QED
  BY <1>11, <1>12

(* A rollback restores files whose run has ended; the lists stay.          *)
LEMMA RollbackKeeps ==
  ASSUME EvolutionInv, NEW r \in EvolutionRun, NEW succeeds \in BOOLEAN, Rollback(r, succeeds)
  PROVE  EvolutionInv'
<1>1. /\ UNCHANGED <<sessionRecord, userTurn, copy, inProgress, runPhase, trigger, runSeen, requests,
                     runChanges, snapshot, userWrites, read, heldBefore, twice>>
      /\ contents' = Undo(contents, record[r].changes, snapshot[r])
      /\ record' = IF succeeds THEN [record EXCEPT ![r].status = "rolledBack"] ELSE record
      /\ rollbacks' = rollbacks + 1
  BY DEF Rollback, turnVars, auxVars
<1>2. record[r].changes \in Seq(Change) /\ contents \in Content /\ snapshot[r] \in Content
  BY DEF EvolutionInv, EvolutionTypeOK
<1>3. contents' \in Content /\ \A f \in EvolvedFile : contents'[f] \subseteq contents[f] \cup snapshot[r][f]
  BY <1>1, <1>2, UndoIs, UndoItems
<1>4. ItemsAreListed'
  <2>1. \A q \in EvolutionRun : Touched(q)' = Touched(q)
    BY <1>1 DEF Touched
  <2>2. /\ ItemsAreListed
        /\ \A f \in EvolvedFile : \A m \in contents'[f] :
             m \in contents[f] \/ \E q \in EvolutionRun : m \in snapshot[q][f]
        /\ \A f \in EvolvedFile, q \in EvolutionRun : \A m \in snapshot'[q][f] : m \in snapshot[q][f]
    BY <1>1, <1>3 DEF EvolutionInv
  <2> HIDE DEF Touched, ItemsAreListed
  <2>3. QED
    BY <2>1, <2>2, ItemsKept
<1>5. CanBeRestored' /\ MarksAreSound'
  BY <1>1, RestoreUntouched, MarksUntouched
<1>6. /\ record' \in [EvolutionRun -> [status : {"none", "running", "finished", "rolledBack"},
                                     changes : Seq(Change)]]
      /\ \A q \in EvolutionRun : record'[q].changes = record[q].changes
  BY <1>1 DEF EvolutionInv, EvolutionTypeOK
<1>7. RecordsAreLists'
  BY <1>1, <1>6 DEF EvolutionInv, RecordsAreLists
<1>8. EvolutionTypeOK'
  BY <1>1, <1>3, <1>6 DEF EvolutionInv, EvolutionTypeOK
<1>9. QED
  BY <1>4, <1>5, <1>7, <1>8 DEF EvolutionInv

LEMMA UserWritesKeeps ==
  ASSUME EvolutionInv, NEW f \in EvolvedFile, UserWrites(f)
  PROVE  EvolutionInv'
<1> DEFINE new == (IF f = "MEMORY.md" THEN contents[f] ELSE {}) \cup {<<0, userWrites + 1>>}
<1>1. /\ UNCHANGED <<sessionRecord, userTurn, copy, inProgress, runPhase, trigger, runSeen, requests,
                     runChanges, snapshot, record, rollbacks, read, heldBefore, twice>>
      /\ contents' = [contents EXCEPT ![f] = new] /\ userWrites' = userWrites + 1
  BY DEF UserWrites, turnVars, runVars, auxVars
<1>2. contents \in Content /\ userWrites \in Nat
  BY DEF EvolutionInv, EvolutionTypeOK
<1>3. contents' \in Content /\ userWrites' \in Nat
  BY <1>1, <1>2 DEF Content, Item
<1>4. ItemsAreListed'
  <2>1. \A q \in EvolutionRun : Touched(q)' = Touched(q)
    BY <1>1 DEF Touched
  <2>2. ASSUME NEW g \in EvolvedFile, NEW m \in contents'[g], m \notin contents[g]
        PROVE  m[1] \notin EvolutionRun
    <3>1. m = <<0, userWrites + 1>>
      BY <1>1, <1>2, <2>2 DEF Content
    <3>2. m[1] = 0
      BY <3>1
    <3>3. QED
      BY <3>2, EvolvedFiles
  <2>3. /\ ItemsAreListed
        /\ \A g \in EvolvedFile : \A m \in contents'[g] : m \in contents[g] \/ m[1] \notin EvolutionRun
        /\ \A g \in EvolvedFile, q \in EvolutionRun : \A m \in snapshot'[q][g] : m \in snapshot[q][g]
    BY <1>1, <2>2 DEF EvolutionInv
  <2> HIDE DEF Touched, ItemsAreListed
  <2>4. QED
    BY <2>1, <2>3, ItemsKept
<1>5. CanBeRestored' /\ MarksAreSound' /\ RecordsAreLists'
  BY <1>1, RestoreUntouched, MarksUntouched, RecordsUntouched
<1>6. EvolutionTypeOK'
  BY <1>1, <1>3 DEF EvolutionInv, EvolutionTypeOK
<1>7. QED
  BY <1>4, <1>5, <1>6 DEF EvolutionInv

LEMMA TurnStepKeeps ==
  ASSUME EvolutionInv,
         \/ TurnStarts \/ TurnSaves \/ DropSession
         \/ \E r \in EvolutionRun : SessionEnd(r)
  PROVE  EvolutionInv'
<1>1. /\ sessionRecord \in [present : BOOLEAN, length : Nat, mark : Mark] /\ copy \in Mark
      /\ NoMark \in Mark /\ NoMark.count = 0 /\ userTurn \in {"idle", "running", "saved"}
  BY DEF EvolutionInv, EvolutionTypeOK, NoMark, Mark
<1>2. CASE TurnStarts
  <2>1. /\ UNCHANGED <<contents, inProgress, runVars, userWrites, rollbacks, auxVars>>
        /\ sessionRecord' = [sessionRecord EXCEPT !.length = @ + 1]
        /\ copy' = sessionRecord.mark /\ userTurn' = "running"
    BY <1>2 DEF TurnStarts
  <2>2. /\ sessionRecord' \in [present : BOOLEAN, length : Nat, mark : Mark]
        /\ sessionRecord.length <= sessionRecord'.length /\ sessionRecord'.mark = sessionRecord.mark
        /\ copy' \in Mark
    BY <1>1, <2>1
  <2>3. QED
    BY <2>1, <2>2, TurnKeeps
<1>3. CASE TurnSaves
  <2>1. /\ UNCHANGED <<contents, inProgress, runVars, userWrites, rollbacks, auxVars, copy>>
        /\ sessionRecord' = [sessionRecord EXCEPT !.length = @ + 1, !.mark = copy]
        /\ userTurn' = "saved"
    BY <1>3 DEF TurnSaves, bounded
  <2> DEFINE new == [present |-> sessionRecord.present, length |-> sessionRecord.length + 1,
                     mark |-> copy]
  <2>0. sessionRecord' = new /\ copy' = copy
    BY <1>1, <2>1
  <2>2. /\ new \in [present : BOOLEAN, length : Nat, mark : Mark]
        /\ sessionRecord.length <= new.length /\ new.mark = copy
        /\ copy' \in Mark
    BY <1>1, <2>0
  <2>3. QED
    BY <2>1, <2>0, <2>2, TurnKeeps
<1>4. CASE DropSession
  <2>1. /\ UNCHANGED <<contents, inProgress, runVars, userWrites, rollbacks, auxVars, copy, userTurn>>
        /\ sessionRecord' = [sessionRecord EXCEPT !.present = FALSE]
    BY <1>4 DEF DropSession, bounded
  <2> DEFINE new == [present |-> FALSE, length |-> sessionRecord.length, mark |-> sessionRecord.mark]
  <2>0. sessionRecord' = new /\ copy' = copy /\ userTurn' = userTurn
    BY <1>1, <2>1
  <2>2. /\ new \in [present : BOOLEAN, length : Nat, mark : Mark]
        /\ sessionRecord.length <= new.length /\ new.mark = sessionRecord.mark
        /\ copy' \in Mark /\ userTurn' \in {"idle", "running", "saved"}
    BY <1>1, <2>0
  <2>3. QED
    BY <2>1, <2>0, <2>2, TurnKeeps
<1>5. ASSUME NEW r \in EvolutionRun, SessionEnd(r)
      PROVE  EvolutionInv'
  <2>1. /\ userTurn' = "idle" /\ copy' = NoMark /\ UNCHANGED sessionRecord
        /\ \/ StartRun(r, "turn_interval")
           \/ UNCHANGED <<contents, inProgress, runVars, userWrites, rollbacks, auxVars>>
    BY <1>5 DEF SessionEnd, bounded
  <2>2. CASE StartRun(r, "turn_interval")
    BY <2>1, <2>2, StartKeeps
  <2>3. CASE UNCHANGED <<contents, inProgress, runVars, userWrites, rollbacks, auxVars>>
    BY <1>1, <2>1, <2>3, TurnKeeps
  <2>4. QED
    BY <2>1, <2>2, <2>3
<1>6. QED
  BY <1>2, <1>3, <1>4, <1>5

LEMMA EvolutionStepInv == EvolutionInv /\ [EvolutionNext]_evolutionVars => EvolutionInv'
<1> SUFFICES ASSUME EvolutionInv, [EvolutionNext]_evolutionVars
             PROVE  EvolutionInv'
  OBVIOUS
<1>1. ASSUME NEW r \in EvolutionRun, Manual(r) \/ AnotherSession(r)
      PROVE  EvolutionInv'
  <2>1. /\ UNCHANGED <<sessionRecord, userTurn, copy>>
        /\ StartRun(r, "manual") \/ StartRun(r, "new_session_created")
    BY <1>1 DEF Manual, AnotherSession, turnVars
  <2>2. copy' \in {copy, NoMark} /\ userTurn' \in {"idle", "running", "saved"}
    BY <2>1 DEF EvolutionInv, EvolutionTypeOK
  <2>3. QED
    BY <2>1, <2>2, StartKeeps
<1>2. CASE \/ TurnStarts \/ TurnSaves \/ DropSession
           \/ \E r \in EvolutionRun : SessionEnd(r)
  BY <1>2, TurnStepKeeps
<1>3. ASSUME NEW r \in EvolutionRun, RunStep(r)
      PROVE  EvolutionInv'
  <2>1. CASE Skip(r)
    BY <2>1, SkipKeeps
  <2>2. CASE Analyse(r)
    BY <2>2, AnalyseKeeps
  <2>3. CASE AnalysisFails(r)
    BY <2>3, AnalysisFailsKeeps
  <2>4. CASE \E learns \in BOOLEAN, asked \in Requests : Analysed(r, learns, asked)
    BY <2>4, AnalysedKeeps
  <2>5. CASE NoEdit(r)
    BY <2>5, NoEditKeeps
  <2>6. CASE \E op \in Operations, valid \in BOOLEAN : Edited(r, op, valid)
    BY <2>6, EditedKeeps
  <2>7. QED
    BY <1>3, <2>1, <2>2, <2>3, <2>4, <2>5, <2>6 DEF RunStep
<1>4. CASE \E r \in EvolutionRun, succeeds \in BOOLEAN : Rollback(r, succeeds)
  BY <1>4, RollbackKeeps
<1>5. CASE \E f \in EvolvedFile : UserWrites(f)
  BY <1>5, UserWritesKeeps
<1>6. CASE UNCHANGED evolutionVars
  <2>1. /\ UNCHANGED <<contents, sessionRecord, userTurn, copy, inProgress, runPhase, trigger, runSeen,
                       requests, runChanges, snapshot, record, userWrites, rollbacks, read, heldBefore,
                       twice>>
    BY <1>6 DEF evolutionVars, turnVars, runVars, bounded, auxVars
  <2>2. /\ ItemsAreListed' /\ CanBeRestored' /\ MarksAreSound' /\ RecordsAreLists'
    BY <2>1, FilesUntouched, RestoreUntouched, MarksUntouched, RecordsUntouched
  <2>3. EvolutionTypeOK'
    BY <2>1 DEF EvolutionInv, EvolutionTypeOK
  <2>4. QED
    BY <2>2, <2>3 DEF EvolutionInv
<1>7. QED
  BY <1>1, <1>2, <1>3, <1>4, <1>5, <1>6 DEF EvolutionNext

(* In every state of the evolution of a session, the marks of runs stand   *)
(* behind what was read, the lists name every file that holds something of *)
(* a run, and the snapshots hold what was there before the first change.   *)
THEOREM EvolutionInvariant == EvolutionSpec => []EvolutionInv
<1>1. QED
  BY EvolutionInitInv, EvolutionStepInv, PTL DEF EvolutionSpec

(* No message up to the session's mark was left out of every analysis, and *)
(* whatever a run that has ended left in a file is on its record           *)
(* (_mark_session_processed, service.py:128, and _finish_run).             *)
THEOREM RunsAccounted == EvolutionSpec => []RunsAreAccounted
<1>1. EvolutionInv => RunsAreAccounted
  <2> SUFFICES ASSUME EvolutionInv
               PROVE  RunsAreAccounted
    OBVIOUS
  <2>1. MarkedWasRead
    BY DEF EvolutionInv, MarksAreSound, MarkIsSound, MarkedWasRead
  <2>2. ChangesAreOnRecord
    <3>1. SUFFICES ASSUME NEW r \in EvolutionRun, NEW f \in EvolvedFile, runPhase[r] = "ended",
                          \E m \in contents[f] : m[1] = r
                   PROVE  f \in {c.file : c \in Range(record[r].changes)}
      BY DEF ChangesAreOnRecord
    <3>2. record[r].changes = runChanges[r]
      BY <3>1 DEF EvolutionInv, RecordsAreLists
    <3>3. f \in Touched(r)
      BY <3>1 DEF EvolutionInv, ItemsAreListed
    <3>4. QED
      BY <3>2, <3>3 DEF Touched
  <2>3. QED
    BY <2>1, <2>2 DEF RunsAreAccounted
<1>2. QED
  BY <1>1, EvolutionInvariant, PTL

(* Rolling back a run gives back what its files held before its first      *)
(* change of them, whatever changes it made and however they were mixed    *)
(* with those of others (rollback_run, service.py:401).                    *)
THEOREM RollbacksRestore == EvolutionSpec => RollbackRestores
<1>1. EvolutionInv /\ [EvolutionNext]_evolutionVars => [Restores]_evolutionVars
  <2> SUFFICES ASSUME EvolutionInv, EvolutionNext
               PROVE  Restores
    OBVIOUS
  <2>1. SUFFICES ASSUME NEW r \in EvolutionRun, NEW f \in EvolvedFile,
                        runPhase[r] = "ended", record[r].status = "finished",
                        record'[r].status = "rolledBack",
                        f \in {c.file : c \in Range(record[r].changes)}, <<r, f>> \notin twice
                 PROVE  contents'[f] = heldBefore[r][f]
    BY DEF Restores
  <2> DEFINE cs == record[r].changes
  <2>2. cs = runChanges[r] /\ cs \in Seq(Change) /\ contents \in Content /\ snapshot[r] \in Content
    BY <2>1 DEF EvolutionInv, EvolutionTypeOK, RecordsAreLists
  <2>3. contents' = Undo(contents, cs, snapshot[r])
    <3>1. record[r] # record'[r]
      BY <2>1
    <3>2. ASSUME NEW q \in EvolutionRun, RunStep(q) PROVE q = r \/ record'[r] = record[r]
      <4>1. \/ record' = record
            \/ record' = [record EXCEPT ![q] = record'[q]]
        BY <3>2 DEF RunStep, Skip, Analyse, AnalysisFails, Analysed, NoEdit, Edited, RequestDone,
                    Finish, EvolutionInv, EvolutionTypeOK
      <4>2. QED
        BY <4>1 DEF EvolutionInv, EvolutionTypeOK
    <3>3. ~ RunStep(r)
      BY <2>1 DEF RunStep, Skip, HasLock, Analyse, AnalysisFails, Analysed, NoEdit, Edited
    <3>4. ASSUME NEW q \in EvolutionRun, NEW succeeds \in BOOLEAN, Rollback(q, succeeds)
          PROVE  contents' = Undo(contents, cs, snapshot[r])
      <4>1. q = r
        BY <3>1, <3>4 DEF Rollback, EvolutionInv, EvolutionTypeOK
      <4>2. QED
        BY <3>4, <4>1 DEF Rollback
    <3>5. \E q \in EvolutionRun, succeeds \in BOOLEAN : Rollback(q, succeeds)
      BY <3>1, <3>2, <3>3 DEF EvolutionNext, Manual, AnotherSession, SessionEnd, StartRun, TurnStarts,
         TurnSaves, DropSession, UserWrites, runVars
    <3>6. QED
      BY <3>4, <3>5
  <2>4. PICK k \in 1 .. Len(cs) : IsFirst(cs, k, f)
    BY <2>1, <2>2, FirstExists
  <2>5. contents'[f] = IF cs[k].existed THEN snapshot[r][f] ELSE {}
    BY <2>2, <2>3, <2>4, UndoIs
  <2>6. cs[k].existed = (heldBefore[r][f] # {}) /\ (cs[k].existed => snapshot[r][f] = heldBefore[r][f])
    <3>1. CanRestore(cs, heldBefore[r][f], snapshot[r][f], f)
      BY <2>1, <2>2 DEF EvolutionInv, CanBeRestored
    <3>2. QED
      BY <2>4, <3>1 DEF CanRestore
  <2>7. QED
    BY <2>5, <2>6
<1>2. QED
  BY <1>1, EvolutionInvariant, PTL DEF EvolutionSpec, RollbackRestores

(* Only a rollback and the user take something out of MEMORY.md: a run     *)
(* adds to the file as it is when the analysis has answered                *)
(* (_apply_memory_updates, service.py:215).                                *)
THEOREM MemoryIsKept == EvolutionSpec => NothingForgotten
<1>1. EvolutionInv /\ [EvolutionNext]_evolutionVars => [Remembers]_evolutionVars
  <2> SUFFICES ASSUME EvolutionInv, EvolutionNext, rollbacks' = rollbacks, userWrites' = userWrites
               PROVE  contents["MEMORY.md"] \subseteq contents'["MEMORY.md"]
    BY DEF Remembers
  <2>1. rollbacks \in Nat /\ userWrites \in Nat
    BY DEF EvolutionInv, EvolutionTypeOK
  <2>2. ASSUME NEW r \in EvolutionRun, RunStep(r)
        PROVE  contents["MEMORY.md"] \subseteq contents'["MEMORY.md"]
    <3>1. CASE Skip(r) \/ Analyse(r) \/ AnalysisFails(r) \/ NoEdit(r)
      BY <3>1 DEF Skip, Analyse, AnalysisFails, NoEdit
    <3>2. CASE \E learns \in BOOLEAN, asked \in Requests : Analysed(r, learns, asked)
      BY <3>2, AnalysedKeeps
    <3>3. CASE \E op \in Operations, valid \in BOOLEAN : Edited(r, op, valid)
      BY <3>3, EditedKeeps
    <3>4. QED
      BY <2>2, <3>1, <3>2, <3>3 DEF RunStep
  <2>3. \A r \in EvolutionRun, succeeds \in BOOLEAN : ~ Rollback(r, succeeds)
    BY <2>1 DEF Rollback
  <2>4. \A f \in EvolvedFile : ~ UserWrites(f)
    BY <2>1 DEF UserWrites
  <2>5. \A r \in EvolutionRun : Manual(r) \/ AnotherSession(r) \/ SessionEnd(r) => contents' = contents
    BY DEF Manual, AnotherSession, SessionEnd, StartRun
  <2>6. TurnStarts \/ TurnSaves \/ DropSession => contents' = contents
    BY DEF TurnStarts, TurnSaves, DropSession
  <2>7. QED
    BY <2>2, <2>3, <2>4, <2>5, <2>6 DEF EvolutionNext
<1>2. QED
  BY <1>1, EvolutionInvariant, PTL DEF EvolutionSpec, NothingForgotten

-----------------------------------------------------------------------------
(* Plugins, drafts, skills and MCP servers.                                *)

LEMMA FunctionsWithout ==
  ASSUME NEW f, NEW k
  PROVE  /\ DOMAIN Without(f, k) = DOMAIN f \ {k}
         /\ \A i \in DOMAIN f \ {k} : Without(f, k)[i] = f[i]
BY DEF Without, Restrict

LEMMA ExtInitInv == ExtInit => ExtInv
<1> SUFFICES ASSUME ExtInit
             PROVE  ExtInv
  OBVIOUS
<1> USE DEF ExtInit
<1>1. DOMAIN NoFunction = {}
  BY DEF NoFunction
<1>2. ExtTypeOK
  BY <1>1 DEF ExtTypeOK, Draft, DraftStatus
<1>3. EntriesAreAccounted
  BY <1>1 DEF EntriesAreAccounted
<1>4. EnabledPlugins(plugins, state) = {}
  BY <1>1 DEF EnabledPlugins
<1>5. DOMAIN Merged(plugins, {}, servers) = {}
  BY <1>1 DEF Merged
<1>6. SettledIsCurrent
  <2>1. clients = Restrict(Merged(plugins, {}, servers), {})
    BY <1>1 DEF Restrict, NoFunction
  <2>2. QED
    BY <1>1, <1>4, <1>5, <2>1 DEF SettledIsCurrent
<1>7. QED
  BY <1>2, <1>3, <1>6 DEF ExtInv

(* A reload that succeeds makes the runtime what the disk enables; one     *)
(* that fails is not settled.                                              *)
LEMMA RebuildSettles ==
  ASSUME NEW ps, NEW st, NEW sv, NEW sk, NEW cl, NEW closed, NEW sn,
         Rebuild(ps, st, sv, sk, cl, closed, sn)
  PROVE  plugins' = ps /\ state' = st /\ SettledIsCurrent'
<1> DEFINE on == EnabledPlugins(ps, st)
           m == Merged(ps, on, sv)
           switchedOn == {s \in DOMAIN m : m[s].on}
<1>1. /\ plugins' = ps /\ state' = st /\ servers' = sv /\ skills' = sk
      /\ listed' = [system |-> sk, plugins |-> on]
      /\ \/ settled' = FALSE
         \/ \E up \in SUBSET switchedOn :
              /\ clients' = BuiltClients(cl, m)
              /\ tools' = [s \in up |-> [config |-> clients'[s], live |-> TRUE]]
              /\ statuses' = BuiltStatuses(m, up) /\ snapshots' = statuses'
  BY DEF Rebuild
<1>2. CASE settled' = FALSE
  BY <1>1, <1>2 DEF SettledIsCurrent
<1>3. ASSUME NEW up \in SUBSET switchedOn,
             /\ clients' = BuiltClients(cl, m)
             /\ tools' = [s \in up |-> [config |-> clients'[s], live |-> TRUE]]
             /\ statuses' = BuiltStatuses(m, up) /\ snapshots' = statuses'
      PROVE  SettledIsCurrent'
  <2> HIDE DEF m
  <2>1. clients' = [s \in switchedOn |-> m[s]] /\ clients' = Restrict(m, switchedOn)
    BY <1>3 DEF BuiltClients, Restrict
  <2>2. /\ DOMAIN statuses' = DOMAIN m
        /\ \A s \in DOMAIN m :
             statuses'[s] = IF ~ m[s].on THEN "disabled" ELSE IF s \in up THEN "connected" ELSE "error"
    BY <1>3 DEF BuiltStatuses
  <2>3. DOMAIN tools' = up /\ up = {s \in DOMAIN m : statuses'[s] = "connected"}
    BY <1>3, <2>2
  <2>4. \A s \in DOMAIN tools' : tools'[s] = [config |-> m[s], live |-> TRUE]
    BY <1>3, <2>1
  <2>5. m = Merged(plugins', EnabledPlugins(plugins', state'), servers')
    BY <1>1 DEF m
  <2>6. listed' = [system |-> skills', plugins |-> EnabledPlugins(plugins', state')]
    BY <1>1
  <2>7. QED
    BY <1>3, <2>1, <2>2, <2>3, <2>4, <2>5, <2>6 DEF SettledIsCurrent
<1>4. QED
  BY <1>1, <1>2, <1>3

(* The entries of the file are accounted for after a request that makes    *)
(* ps and st of the disk.                                                  *)
LEMMA DiskKeeps ==
  ASSUME ExtInv, plugins' \in [DOMAIN plugins' -> Manifest], DOMAIN plugins' \subseteq Plugin,
         drafts' \in [Drafted -> Draft],
         DOMAIN state' \subseteq Names(plugins') \cup orphaned', SettledIsCurrent'
  PROVE  ExtInv'
BY DEF ExtInv, ExtTypeOK, EntriesAreAccounted, Names

LEMMA SomeoneNamed ==
  ASSUME ExtInv, NEW n, IsNamed(plugins, n) # {}
  PROVE  Get(n) \in DOMAIN plugins /\ plugins[Get(n)].name = n /\ n \in Names(plugins)
<1> DEFINE S == IsNamed(plugins, n)
<1>1. S \subseteq Nat
  BY ExtAssumption DEF IsNamed, ExtInv, ExtTypeOK
<1>2. PICK d \in S : \A e \in S : ~ (<<e, d>> \in OpToRel(<, Nat))
  BY <1>1, NatLessThanWellFounded, WFMin
<1>3. \A e \in S : d <= e
  <2>1. SUFFICES ASSUME NEW e \in S PROVE d <= e
    OBVIOUS
  <2>2. ~ (e < d) /\ d \in Nat /\ e \in Nat
    BY <1>1, <1>2 DEF OpToRel
  <2>3. QED
    BY <2>2
<1>4. Get(n) \in S
  BY <1>3 DEF Get, Min
<1>5. QED
  BY <1>4 DEF IsNamed, Names

(* A reload of what the disk holds, or of it with other skills or servers. *)
LEMMA SameDisk ==
  ASSUME ExtInv, NEW sv, NEW sk, NEW cl, NEW closed, NEW sn,
         Rebuild(plugins, state, sv, sk, cl, closed, sn), UNCHANGED <<drafts, orphaned>>
  PROVE  ExtInv'
<1>1. plugins' = plugins /\ state' = state /\ SettledIsCurrent'
  BY RebuildSettles
<1>2. QED
  BY <1>1 DEF ExtInv, ExtTypeOK, EntriesAreAccounted, Names

(* A reload of a disk with the plugins ps and the entries st.              *)
LEMMA OtherDisk ==
  ASSUME ExtInv, NEW ps, NEW st, ReloadPlugins(ps, st),
         DOMAIN ps \subseteq Plugin, \A d \in DOMAIN ps : ps[d] \in Manifest,
         drafts' \in [Drafted -> Draft],
         DOMAIN st \subseteq Names(ps) \cup orphaned'
  PROVE  ExtInv'
<1>1. plugins' = ps /\ state' = st /\ SettledIsCurrent'
  BY RebuildSettles DEF ReloadPlugins, ReloadWith
<1>2. ExtTypeOK'
  BY <1>1 DEF ExtTypeOK
<1>3. EntriesAreAccounted'
  BY <1>1 DEF EntriesAreAccounted, Names
<1>4. QED
  BY <1>1, <1>2, <1>3 DEF ExtInv

LEMMA PluginsKeep ==
  ASSUME ExtInv, NEW n \in Plugin,
         \/ \E m \in Written : ImportPlugin(n, m) \/ UpdateManifest(n, m)
         \/ \E b \in BOOLEAN : SetEnabled(n, b)
         \/ DeletePlugin(n)
  PROVE  ExtInv'
<1> USE ExtAssumption
<1>0. /\ DOMAIN plugins \subseteq Plugin /\ \A d \in DOMAIN plugins : plugins[d] \in Manifest
      /\ drafts \in [Drafted -> Draft] /\ DOMAIN state \subseteq Names(plugins) \cup orphaned
  BY DEF ExtInv, ExtTypeOK, EntriesAreAccounted
<1>1. ASSUME NEW m \in Written, ImportPlugin(n, m) PROVE ExtInv'
  <2> DEFINE ps == With(plugins, n, m)
  <2>1. n \notin DOMAIN plugins /\ ReloadPlugins(ps, state) /\ UNCHANGED <<drafts, orphaned>>
    BY <1>1 DEF ImportPlugin
  <2>2. /\ DOMAIN ps = DOMAIN plugins \cup {n} /\ ps[n] = m
        /\ \A i \in DOMAIN plugins : ps[i] = plugins[i]
    BY <2>1 DEF With
  <2> HIDE DEF ps
  <2>3. Names(plugins) \subseteq Names(ps)
    BY <2>2 DEF Names
  <2>4. DOMAIN ps \subseteq Plugin /\ \A d \in DOMAIN ps : ps[d] \in Manifest
    BY <1>0, <2>2
  <2>5. QED
    BY <1>0, <2>1, <2>3, <2>4, OtherDisk
<1>2. ASSUME NEW m \in Written, UpdateManifest(n, m) PROVE ExtInv'
  <2> DEFINE ps == [plugins EXCEPT ![Get(n)] = m]
  <2>1. /\ orphaned' = orphaned \cup Lost(ps) /\ UNCHANGED drafts
        /\ \/ ReloadPlugins(ps, state)
           \/ plugins' = ps /\ settled' = FALSE /\ UNCHANGED state
    BY <1>2 DEF UpdateManifest
  <2>2. DOMAIN ps \subseteq Plugin /\ \A d \in DOMAIN ps : ps[d] \in Manifest
    BY <1>0
  <2> HIDE DEF ps
  <2>3. DOMAIN state \subseteq Names(ps) \cup orphaned'
    BY <1>0, <2>1 DEF Lost
  <2>4. CASE ReloadPlugins(ps, state)
    BY <1>0, <2>1, <2>2, <2>3, <2>4, OtherDisk
  <2>5. CASE plugins' = ps /\ settled' = FALSE /\ UNCHANGED state
    <3>1. SettledIsCurrent'
      BY <2>5 DEF SettledIsCurrent
    <3>2. EntriesAreAccounted'
      BY <2>3, <2>5 DEF EntriesAreAccounted, Names
    <3>3. ExtTypeOK'
      BY <1>0, <2>1, <2>2, <2>5 DEF ExtTypeOK
    <3>4. QED
      BY <3>1, <3>2, <3>3 DEF ExtInv
  <2>6. QED
    BY <2>1, <2>4, <2>5
<1>3. ASSUME NEW b \in BOOLEAN, SetEnabled(n, b) PROVE ExtInv'
  <2>1. /\ IsNamed(plugins, n) # {} /\ ReloadPlugins(plugins, With(state, n, b))
        /\ UNCHANGED <<drafts, orphaned>>
    BY <1>3 DEF SetEnabled
  <2>2. n \in Names(plugins)
    BY <2>1, SomeoneNamed
  <2>3. DOMAIN With(state, n, b) \subseteq Names(plugins) \cup orphaned'
    BY <1>0, <2>1, <2>2 DEF With
  <2>4. QED
    BY <1>0, <2>1, <2>3, OtherDisk
<1>4. CASE DeletePlugin(n)
  <2> DEFINE ps == Without(plugins, Get(n))
             st == Without(state, n)
  <2>1. /\ IsNamed(plugins, n) # {} /\ ReloadPlugins(ps, st)
        /\ orphaned' = orphaned \ {n} /\ UNCHANGED drafts
    BY <1>4 DEF DeletePlugin
  <2>2. plugins[Get(n)].name = n
    BY <2>1, SomeoneNamed
  <2>3. /\ DOMAIN ps = DOMAIN plugins \ {Get(n)} /\ DOMAIN st = DOMAIN state \ {n}
        /\ \A i \in DOMAIN ps : ps[i] = plugins[i]
    BY FunctionsWithout
  <2> HIDE DEF ps, st
  <2>4. Names(plugins) \ {n} \subseteq Names(ps)
    BY <2>2, <2>3 DEF Names
  <2>5. DOMAIN st \subseteq Names(ps) \cup orphaned'
    BY <1>0, <2>1, <2>3, <2>4
  <2>6. DOMAIN ps \subseteq Plugin /\ \A d \in DOMAIN ps : ps[d] \in Manifest
    BY <1>0, <2>3
  <2>7. QED
    BY <1>0, <2>1, <2>5, <2>6, OtherDisk
<1>5. QED
  BY <1>1, <1>2, <1>3, <1>4

(* A draft's new status; the disk and the runtime stay.                    *)
LEMMA DraftOnlyKeeps ==
  ASSUME ExtInv, NEW n \in Drafted, NEW d \in Draft, DraftOnly(n, d)
  PROVE  ExtInv'
<1>1. drafts' \in [Drafted -> Draft]
  BY DEF ExtInv, ExtTypeOK, DraftOnly
<1>2. UNCHANGED <<plugins, state, servers, skills, tools, clients, statuses, snapshots, listed, settled,
                  orphaned>>
  BY DEF DraftOnly, diskVars, runtimeVars
<1>3. SettledIsCurrent'
  BY <1>2 DEF ExtInv, SettledIsCurrent
<1>4. QED
  BY <1>1, <1>2, <1>3 DEF ExtInv, ExtTypeOK, EntriesAreAccounted, Names

(* What becomes of a draft by a step that neither installs nor removes it. *)
LEMMA DraftSteps ==
  ASSUME ExtInv, NEW n \in Drafted,
         \/ \E o \in {"generated", "awaiting_approval", "validation_failed", "install_failed"} :
              CreateDraft(n, o)
         \/ ValidateDraft(n) \/ ApproveDraft(n) \/ RejectDraft(n) \/ InstallFails(n)
  PROVE  \E d \in Draft : d.status # "installed_disabled" /\ DraftOnly(n, d)
<1>0. drafts[n] \in Draft
  BY DEF ExtInv, ExtTypeOK
<1>1. ASSUME NEW o \in {"generated", "awaiting_approval", "validation_failed", "install_failed"},
             CreateDraft(n, o)
      PROVE  \E d \in Draft : d.status # "installed_disabled" /\ DraftOnly(n, d)
  <2> DEFINE d == [status |-> o, installed |-> FALSE,
                   package |-> IF o \in {"generated", "awaiting_approval"} THEN "ok" ELSE "none"]
  <2>1. d \in Draft /\ d.status # "installed_disabled"
    BY DEF Draft, DraftStatus
  <2>2. DraftOnly(n, d)
    BY <1>1 DEF CreateDraft
  <2>3. QED
    BY <2>1, <2>2
<1>2. ASSUME NEW s \in DraftStatus \ {"installed_disabled"}, DraftOnly(n, [drafts[n] EXCEPT !.status = s])
      PROVE  \E d \in Draft : d.status # "installed_disabled" /\ DraftOnly(n, d)
  <2> DEFINE d == [drafts[n] EXCEPT !.status = s]
  <2>1. d \in Draft /\ d.status # "installed_disabled"
    BY <1>0, <1>2 DEF Draft
  <2>2. QED
    BY <1>2, <2>1
<1>3. CASE ValidateDraft(n)
  BY <1>2, <1>3 DEF ValidateDraft, DraftStatus
<1>4. CASE ApproveDraft(n)
  BY <1>2, <1>4 DEF ApproveDraft, DraftStatus
<1>5. CASE RejectDraft(n)
  BY <1>2, <1>5 DEF RejectDraft, DraftStatus
<1>6. CASE InstallFails(n)
  BY <1>2, <1>6 DEF InstallFails, DraftStatus
<1>7. QED
  BY <1>1, <1>3, <1>4, <1>5, <1>6

LEMMA InstallKeeps ==
  ASSUME ExtInv, NEW n \in Drafted, InstallDraft(n) \/ RollbackDraft(n)
  PROVE  ExtInv'
<1> USE ExtAssumption
<1>0. /\ DOMAIN plugins \subseteq Plugin /\ \A d \in DOMAIN plugins : plugins[d] \in Manifest
      /\ drafts \in [Drafted -> Draft] /\ DOMAIN state \subseteq Names(plugins) \cup orphaned
  BY DEF ExtInv, ExtTypeOK, EntriesAreAccounted
<1>1. CASE InstallDraft(n)
  <2> DEFINE m == [name |-> n, byDefault |-> FALSE, server |-> "none"]
             ps == With(plugins, n, m)
  <2>1. /\ n \notin DOMAIN plugins /\ ReloadPlugins(ps, state) /\ UNCHANGED orphaned
        /\ drafts' = [drafts EXCEPT ![n].status = "installed_disabled", ![n].installed = TRUE]
    BY <1>1 DEF InstallDraft
  <2>2. m \in Manifest
    BY DEF Manifest
  <2> HIDE DEF m
  <2>3. /\ DOMAIN ps = DOMAIN plugins \cup {n} /\ ps[n] = m
        /\ \A i \in DOMAIN plugins : ps[i] = plugins[i]
    BY <2>1 DEF With
  <2> HIDE DEF ps
  <2>4. Names(plugins) \subseteq Names(ps)
    BY <2>3 DEF Names
  <2>5. DOMAIN ps \subseteq Plugin /\ \A d \in DOMAIN ps : ps[d] \in Manifest
    BY <1>0, <2>2, <2>3
  <2>6. drafts' \in [Drafted -> Draft]
    <3>1. drafts' = [drafts EXCEPT ![n] = [status |-> "installed_disabled", installed |-> TRUE,
                                           package |-> drafts[n].package]]
      <4>1. /\ DOMAIN drafts' = Drafted
            /\ \A k \in Drafted \ {n} : drafts'[k] = drafts[k]
            /\ drafts'[n] = [drafts[n] EXCEPT !.status = "installed_disabled", !.installed = TRUE]
            /\ drafts' = [k \in Drafted |-> drafts'[k]]
        BY <1>0, <2>1
      <4>2. drafts[n] = [status |-> drafts[n].status, installed |-> drafts[n].installed,
                         package |-> drafts[n].package]
        BY <1>0 DEF Draft
      <4>3. drafts'[n] = [status |-> "installed_disabled", installed |-> TRUE,
                          package |-> drafts[n].package]
        BY <4>1, <4>2
      <4>4. QED
        BY <1>0, <4>1, <4>3
    <3>2. [status |-> "installed_disabled", installed |-> TRUE, package |-> drafts[n].package] \in Draft
      BY <1>0 DEF Draft, DraftStatus
    <3>3. QED
      BY <1>0, <3>1, <3>2
  <2>7. QED
    BY <1>0, <2>1, <2>4, <2>5, <2>6, OtherDisk
<1>2. CASE RollbackDraft(n)
  <2> DEFINE ps == Without(plugins, n)
             st == Without(state, n)
  <2>1. /\ drafts' = [drafts EXCEPT ![n].status = "rolled_back"]
        /\ orphaned' = (orphaned \cup Lost(ps)) \ {n} /\ ReloadPlugins(ps, st)
    BY <1>2 DEF RollbackDraft
  <2>2. /\ DOMAIN ps = DOMAIN plugins \ {n} /\ DOMAIN st = DOMAIN state \ {n}
        /\ \A i \in DOMAIN ps : ps[i] = plugins[i]
    BY FunctionsWithout
  <2> HIDE DEF ps, st
  <2>3. DOMAIN st \subseteq Names(ps) \cup orphaned'
    BY <1>0, <2>1, <2>2 DEF Lost
  <2>4. DOMAIN ps \subseteq Plugin /\ \A d \in DOMAIN ps : ps[d] \in Manifest
    BY <1>0, <2>2
  <2>5. drafts' \in [Drafted -> Draft]
    BY <1>0, <2>1 DEF Draft, DraftStatus
  <2>6. QED
    BY <2>1, <2>3, <2>4, <2>5, OtherDisk
<1>3. QED
  BY <1>1, <1>2

(* Without statuses after a settled request there is nothing to connect:   *)
(* the activation of a tool leaves things so.                              *)
LEMMA ActivateKeeps ==
  ASSUME ExtInv, ActivateTool
  PROVE  ExtInv'
<1> DEFINE on == EnabledPlugins(plugins, state)
           m == Merged(plugins, on, servers)
<1>1. /\ statuses = NoFunction /\ snapshots' = statuses'
      /\ \E up \in SUBSET {s \in DOMAIN servers : servers[s]} :
           statuses' = BuiltStatuses(ConfiguredOnly, up)
      /\ clients' = BuiltClients(clients, ConfiguredOnly)
      /\ tools' = Held(clients', {})
      /\ UNCHANGED <<plugins, state, servers, skills, drafts, listed, settled, orphaned>>
  BY DEF ActivateTool, diskVars
<1>2. SettledIsCurrent'
  <2>1. SUFFICES ASSUME settled PROVE SettledIsCurrent'
    BY <1>1 DEF SettledIsCurrent
  <2>2. DOMAIN m = {} /\ DOMAIN tools = {} /\ listed = [system |-> skills, plugins |-> on]
    BY <1>1, <2>1 DEF ExtInv, SettledIsCurrent, NoFunction
  <2>3. DOMAIN servers = {}
    BY <2>2 DEF Merged
  <2>4. DOMAIN ConfiguredOnly = {}
    BY <2>3 DEF ConfiguredOnly, Merged
  <2>5. DOMAIN statuses' = {} /\ DOMAIN tools' = {}
    BY <1>1, <2>2, <2>4 DEF BuiltStatuses, Held
  <2>6. clients' = Restrict(m, {})
    BY <1>1, <2>4 DEF BuiltClients, Restrict
  <2>7. /\ Merged(plugins', EnabledPlugins(plugins', state'), servers') = m
        /\ EnabledPlugins(plugins', state') = on
    BY <1>1
  <2> HIDE DEF m, on
  <2>8. QED
    BY <1>1, <2>2, <2>5, <2>6, <2>7 DEF SettledIsCurrent
<1>3. QED
  BY <1>1, <1>2 DEF ExtInv, ExtTypeOK, EntriesAreAccounted, Names

LEMMA OutsideKeeps ==
  ASSUME ExtInv, Outside
  PROVE  ExtInv'
<1>0. /\ DOMAIN plugins \subseteq Plugin /\ \A d \in DOMAIN plugins : plugins[d] \in Manifest
      /\ drafts \in [Drafted -> Draft] /\ DOMAIN state \subseteq Names(plugins) \cup orphaned
  BY DEF ExtInv, ExtTypeOK, EntriesAreAccounted
<1>1. UNCHANGED <<state, servers, skills, tools, clients, statuses, snapshots, listed>>
  BY DEF Outside, runtimeVars
<1>2. ASSUME NEW d \in DOMAIN plugins, NEW m \in Written,
             plugins' = Without(plugins, d) \/ plugins' = [plugins EXCEPT ![d] = m],
             orphaned' = orphaned \cup (Names(plugins) \ Names(plugins')),
             settled' = FALSE, UNCHANGED drafts
      PROVE  ExtInv'
  <2>1. DOMAIN plugins' \subseteq Plugin /\ \A e \in DOMAIN plugins' : plugins'[e] \in Manifest
    <3>1. CASE plugins' = Without(plugins, d)
      BY <1>0, <3>1, FunctionsWithout
    <3>2. CASE plugins' = [plugins EXCEPT ![d] = m]
      BY <1>0, <3>2, ExtAssumption
    <3>3. QED
      BY <1>2, <3>1, <3>2
  <2>2. DOMAIN state' \subseteq Names(plugins') \cup orphaned'
    BY <1>0, <1>1, <1>2
  <2>3. EntriesAreAccounted'
    BY <2>2 DEF EntriesAreAccounted, Names
  <2>4. SettledIsCurrent'
    BY <1>2 DEF SettledIsCurrent
  <2>5. QED
    BY <1>0, <1>2, <2>1, <2>3, <2>4 DEF ExtInv, ExtTypeOK
<1>3. ASSUME NEW n \in Drafted, drafts' = [drafts EXCEPT ![n].package = "broken"],
             UNCHANGED <<plugins, settled, orphaned>>
      PROVE  ExtInv'
  <2>1. drafts' \in [Drafted -> Draft]
    BY <1>0, <1>3 DEF Draft
  <2>2. SettledIsCurrent'
    BY <1>1, <1>3 DEF ExtInv, SettledIsCurrent
  <2>3. QED
    BY <1>0, <1>1, <1>3, <2>1, <2>2 DEF ExtInv, ExtTypeOK, EntriesAreAccounted, Names
<1>4. QED
  BY <1>2, <1>3 DEF Outside

LEMMA ExtStepInv == ExtInv /\ [ExtNext]_extVars => ExtInv'
<1> SUFFICES ASSUME ExtInv, [ExtNext]_extVars
             PROVE  ExtInv'
  OBVIOUS
<1>1. CASE ReloadOnly
  BY <1>1, SameDisk DEF ReloadOnly
<1>2. CASE ActivateTool
  BY <1>2, ActivateKeeps
<1>3. CASE Outside
  BY <1>3, OutsideKeeps
<1>4. ASSUME NEW n \in Plugin,
             \/ \E m \in Written : ImportPlugin(n, m) \/ UpdateManifest(n, m)
             \/ \E b \in BOOLEAN : SetEnabled(n, b)
             \/ DeletePlugin(n)
      PROVE  ExtInv'
  BY <1>4, PluginsKeep
<1>5. ASSUME NEW n \in Drafted,
             \/ \E o \in {"generated", "awaiting_approval", "validation_failed", "install_failed"} :
                  CreateDraft(n, o)
             \/ ValidateDraft(n) \/ ApproveDraft(n) \/ RejectDraft(n) \/ InstallFails(n)
      PROVE  ExtInv'
  BY <1>5, DraftSteps, DraftOnlyKeeps
<1>6. ASSUME NEW n \in Drafted, InstallDraft(n) \/ RollbackDraft(n) PROVE ExtInv'
  BY <1>6, InstallKeeps
<1>7. ASSUME NEW k \in Skill, ImportSkill(k) \/ DeleteSkill(k) PROVE ExtInv'
  BY <1>7, SameDisk DEF ImportSkill, DeleteSkill, ReloadWith
<1>8. ASSUME NEW s \in Server, (\E b \in BOOLEAN : UpsertServer(s, b)) \/ DeleteServer(s) PROVE ExtInv'
  BY <1>8, SameDisk DEF UpsertServer, DeleteServer, ReloadWith
<1>9. ASSUME NEW s \in Server, Reconnect(s) PROVE ExtInv'
  BY <1>9, SameDisk DEF Reconnect
<1>10. CASE UNCHANGED extVars
  <2>1. UNCHANGED <<plugins, state, servers, skills, drafts, tools, clients, statuses, snapshots, listed,
                    settled, orphaned>>
    BY <1>10 DEF extVars, diskVars, runtimeVars
  <2>2. SettledIsCurrent'
    BY <2>1 DEF ExtInv, SettledIsCurrent
  <2>3. QED
    BY <2>1, <2>2 DEF ExtInv, ExtTypeOK, EntriesAreAccounted, Names
<1>11. QED
  BY <1>1, <1>2, <1>3, <1>4, <1>5, <1>6, <1>7, <1>8, <1>9, <1>10 DEF ExtNext

LEMMA ExtInvariant == ExtSpec => []ExtInv
<1>1. QED
  BY ExtInitInv, ExtStepInv, PTL DEF ExtSpec

(* After a request that succeeded, the tools, clients and lists of the     *)
(* runtime are those that the disk enables, whatever failed before it      *)
(* (reload_ecosystem, and build_tools in mcp/registry.py).                 *)
THEOREM RuntimeIsCurrent == ExtSpec => []SettledIsCurrent
<1>1. ExtInv => SettledIsCurrent
  BY DEF ExtInv
<1>2. QED
  BY <1>1, ExtInvariant, PTL

(* A plugin that is installed from its draft is disabled, unless an entry  *)
(* of its name was left behind (plugin_review.py:119).                     *)
THEOREM InstalledIsDisabled == ExtSpec => InstalledDisabled
<1>1. ExtInv /\ [ExtNext]_extVars => [InstallsDisabled]_extVars
  <2> SUFFICES ASSUME ExtInv, ExtNext, NEW n \in Drafted, drafts[n].status # "installed_disabled",
                      drafts'[n].status = "installed_disabled", n \notin orphaned
               PROVE  n \notin EnabledPlugins(plugins', state')
    BY DEF InstallsDisabled
  <2>0. drafts \in [Drafted -> Draft] /\ drafts' # drafts /\ drafts'[n].status # drafts[n].status
    BY DEF ExtInv, ExtTypeOK
  <2>1. InstallDraft(n)
    <3>1. ASSUME NEW k \in Drafted, NEW d \in Draft, d.status # "installed_disabled", DraftOnly(k, d)
          PROVE  FALSE
      BY <2>0, <3>1 DEF DraftOnly
    <3>2. ASSUME NEW k \in Drafted,
                 \/ \E o \in {"generated", "awaiting_approval", "validation_failed", "install_failed"} :
                      CreateDraft(k, o)
                 \/ ValidateDraft(k) \/ ApproveDraft(k) \/ RejectDraft(k) \/ InstallFails(k)
          PROVE  FALSE
      BY <3>1, <3>2, DraftSteps
    <3>3. ASSUME NEW k \in Drafted, RollbackDraft(k) PROVE FALSE
      <4>1. drafts' = [drafts EXCEPT ![k] = [drafts[k] EXCEPT !.status = "rolled_back"]]
        BY <3>3 DEF RollbackDraft
      <4>2. QED
        BY <2>0, <4>1 DEF Draft
    <3>4. ASSUME NEW k \in Drafted, InstallDraft(k) PROVE InstallDraft(n)
      <4>1. k # n => drafts'[n] = drafts[n]
        BY <2>0, <3>4 DEF InstallDraft
      <4>2. QED
        BY <2>0, <3>4, <4>1
    <3>5. ASSUME Outside PROVE FALSE
      <4>1. PICK k \in Drafted : drafts' = [drafts EXCEPT ![k].package = "broken"]
        BY <2>0, <3>5 DEF Outside
      <4>2. drafts'[n].status = drafts[n].status
        BY <2>0, <4>1 DEF Draft
      <4>3. QED
        BY <2>0, <4>2
    <3>6. \E k \in Drafted :
            \/ \/ \E o \in {"generated", "awaiting_approval", "validation_failed", "install_failed"} :
                    CreateDraft(k, o)
               \/ ValidateDraft(k) \/ ApproveDraft(k) \/ RejectDraft(k) \/ InstallFails(k)
            \/ InstallDraft(k) \/ RollbackDraft(k)
      BY <2>0, <3>5 DEF ExtNext, ReloadOnly, ActivateTool, ImportPlugin, UpdateManifest, SetEnabled,
         DeletePlugin, ImportSkill, DeleteSkill, UpsertServer, DeleteServer, Reconnect
    <3>7. QED
      BY <3>2, <3>3, <3>4, <3>6
  <2> DEFINE m == [name |-> n, byDefault |-> FALSE, server |-> "none"]
  <2>2. /\ n \notin DOMAIN plugins /\ IsNamed(plugins, n) = {}
        /\ ReloadPlugins(With(plugins, n, m), state)
    BY <2>1 DEF InstallDraft
  <2>3. plugins' = With(plugins, n, m) /\ state' = state
    BY <2>2, RebuildSettles DEF ReloadPlugins, ReloadWith
  <2>4. plugins'[n] = m
    BY <2>3 DEF With
  <2>5. n \notin DOMAIN state
    BY <2>2 DEF ExtInv, EntriesAreAccounted, Names, IsNamed
  <2>6. QED
    BY <2>3, <2>4, <2>5 DEF EnabledPlugins, PluginEnabled
<1>2. QED
  BY <1>1, ExtInvariant, PTL DEF ExtSpec, InstalledDisabled

-----------------------------------------------------------------------------
(* The import of a skill.                                                  *)

(* What the copying may have come to.                                      *)
FileCopy(fs) == {File(TargetRelative(f, fs), n) : f \in ToSet(Uploadable), n \in Nat}
CopyMap(fs) == UNION {[D -> FileCopy(fs)] : D \in SUBSET ToSet(Uploadable)}
CopyNext(done, f, fs) == IF f \in fs \ Source(fs) THEN Copy(f, fs, done) ELSE done

LEMMA FiniteImage ==
  ASSUME NEW f, NEW D, IsFiniteSet(D)
  PROVE  IsFiniteSet({f[x] : x \in D})
<1> DEFINE g == [x \in D |-> f[x]]
           T == {f[x] : x \in D}
<1>1. g \in Surjection(D, T)
  <2>1. g \in [D -> T]
    OBVIOUS
  <2>2. \A y \in T : \E x \in D : g[x] = y
    OBVIOUS
  <2> HIDE DEF g, T
  <2>3. QED
    BY <2>1, <2>2 DEF Surjection
<1> HIDE DEF g, T
<1>2. IsFiniteSet(T)
  BY <1>1, FS_Surjection
<1>3. QED
  BY <1>2 DEF T

LEMMA UploadableFiles ==
  /\ Len(Uploadable) \in Nat /\ DOMAIN Uploadable = 1 .. Len(Uploadable)
  /\ Uploadable \in [1 .. Len(Uploadable) -> ToSet(Uploadable)]
  /\ IsFiniteSet(ToSet(Uploadable))
  /\ \A f \in ToSet(Uploadable) :
       /\ f.path \in Seq(STRING) /\ f.path # << >> /\ f.kind \in Kind
       /\ \A j \in 1 .. Len(f.path) :
            /\ Clean[f.path[j]] \in STRING
            /\ j = Len(f.path) /\ f.path[j] \in IgnoredName => f.kind = "other"
<1> DEFINE n == Len(Uploadable)
           E == [path : Seq(STRING) \ {<< >>}, kind : Kind]
<1>1. Uploadable \in Seq(E)
  BY UploadAssumption
<1> HIDE DEF E
<1>2. n \in Nat /\ DOMAIN Uploadable = 1 .. n /\ \A i \in 1 .. n : Uploadable[i] \in E
  BY <1>1, ElementOfSeq
<1>3. Uploadable \in [1 .. n -> ToSet(Uploadable)]
  BY <1>1, <1>2 DEF ToSet
<1>4. IsFiniteSet(ToSet(Uploadable))
  <2>1. ToSet(Uploadable) = {Uploadable[i] : i \in 1 .. n}
    BY <1>2 DEF ToSet
  <2>2. IsFiniteSet(1 .. n)
    BY <1>2, FS_Interval
  <2>3. QED
    BY <2>1, <2>2, FiniteImage
<1>5. ASSUME NEW f \in ToSet(Uploadable)
      PROVE  /\ f.path \in Seq(STRING) /\ f.path # << >> /\ f.kind \in Kind
             /\ \A j \in 1 .. Len(f.path) :
                  /\ Clean[f.path[j]] \in STRING
                  /\ j = Len(f.path) /\ f.path[j] \in IgnoredName => f.kind = "other"
  <2>1. PICK i \in 1 .. n : f = Uploadable[i]
    BY <1>2 DEF ToSet
  <2>2. f.path \in Seq(STRING) /\ f.path # << >> /\ f.kind \in Kind
    BY <1>2, <2>1 DEF E
  <2>3. \A j \in DOMAIN f.path :
          /\ Clean[f.path[j]] \in STRING
          /\ j = Len(f.path) /\ f.path[j] \in IgnoredName => f.kind = "other"
    BY <1>2, <2>1, UploadAssumption
  <2>4. DOMAIN f.path = 1 .. Len(f.path)
    BY <2>2
  <2>5. QED
    BY <2>2, <2>3, <2>4
<1>6. QED
  BY <1>2, <1>3, <1>4, <1>5

(* There is always a name that is free.                                    *)
LEMMA UniqueIs ==
  ASSUME NEW path, NEW existing, IsFiniteSet(existing)
  PROVE  \E n \in Nat : /\ UniqueTarget(path, existing) = File(path, n)
                        /\ File(path, n) \notin existing
<1> DEFINE c == Cardinality(existing)
           free == {n \in 1 .. c + 1 : File(path, n) \notin existing}
<1>1. c \in Nat
  BY FS_CardinalityType
<1>2. free # {}
  <2> SUFFICES ASSUME free = {} PROVE FALSE
    OBVIOUS
  <2> DEFINE f == [n \in 1 .. c + 1 |-> File(path, n)]
  <2>1. f \in Injection(1 .. c + 1, existing)
    <3>1. \A n \in 1 .. c + 1 : f[n] \in existing
      OBVIOUS
    <3>2. \A m, n \in 1 .. c + 1 : f[m] = f[n] => m = n
      BY DEF File
    <3> HIDE DEF f
    <3>3. f \in [1 .. c + 1 -> existing]
      BY <3>1 DEF f
    <3>4. QED
      BY <3>2, <3>3 DEF Injection, IsInjective
  <2>2. IsFiniteSet(1 .. c + 1) /\ Cardinality(1 .. c + 1) = c + 1
    BY <1>1, FS_Interval
  <2>3. Cardinality(1 .. c + 1) <= Cardinality(existing)
    BY <2>1, FS_Injection
  <2>4. QED
    BY <1>1, <2>2, <2>3
<1>3. Min(free) \in free
  <2>1. free \in SUBSET Nat
    BY <1>1
  <2>2. PICK u \in free : \A v \in free : ~ (<<v, u>> \in OpToRel(<, Nat))
    BY <1>2, <2>1, NatLessThanWellFounded, WFMin
  <2>0. \A v \in free : v \in Nat
    OBVIOUS
  <2> HIDE DEF free
  <2>3. ASSUME NEW v \in free PROVE u <= v
    <3>1. v \in Nat /\ u \in Nat
      BY <2>0
    <3>2. ~ (v < u)
      BY <2>2, <3>1 DEF OpToRel
    <3>3. QED
      BY <3>1, <3>2
  <2>4. QED
    BY <2>3 DEF Min
<1>4. Min(free) \in Nat /\ File(path, Min(free)) \notin existing
  BY <1>1, <1>3
<1>5. UniqueTarget(path, existing) = File(path, Min(free))
  BY DEF UniqueTarget
<1> HIDE DEF free
<1>6. QED
  BY <1>4, <1>5

LEMMA CopiedFinite ==
  ASSUME NEW fs, NEW done \in CopyMap(fs)
  PROVE  IsFiniteSet(Copied(done)) /\ DOMAIN done \subseteq ToSet(Uploadable)
<1>1. DOMAIN done \subseteq ToSet(Uploadable)
  BY DEF CopyMap
<1>2. IsFiniteSet(DOMAIN done)
  BY <1>1, UploadableFiles, FS_Subset
<1>3. QED
  BY <1>1, <1>2, FiniteImage DEF Copied

(* One more file is copied.                                                *)
OneMore(c, f, fs, done) ==
  /\ c \in CopyMap(fs) /\ DOMAIN c = DOMAIN done \cup {f}
  /\ \A g \in DOMAIN done \ {f} : c[g] = done[g]
  /\ \E n \in Nat : c[f] = File(TargetRelative(f, fs), n)
  /\ c[f] \notin Copied(done)

LEMMA CopyIs ==
  ASSUME NEW fs, NEW done \in CopyMap(fs), NEW f \in ToSet(Uploadable),
         NEW c, c = Copy(f, fs, done)
  PROVE  OneMore(c, f, fs, done)
<1>1. IsFiniteSet(Copied(done)) /\ DOMAIN done \subseteq ToSet(Uploadable)
      /\ \A g \in DOMAIN done : done[g] \in FileCopy(fs)
  BY CopiedFinite DEF CopyMap
<1>2. PICK n \in Nat : /\ UniqueTarget(TargetRelative(f, fs), Copied(done)) = File(TargetRelative(f, fs), n)
                       /\ File(TargetRelative(f, fs), n) \notin Copied(done)
  BY <1>1, UniqueIs
<1>3. c = [g \in DOMAIN done \cup {f} |-> IF g = f THEN File(TargetRelative(f, fs), n) ELSE done[g]]
  BY <1>2 DEF Copy
<1>4. File(TargetRelative(f, fs), n) \in FileCopy(fs)
  BY DEF FileCopy
<1>5. c \in [DOMAIN done \cup {f} -> FileCopy(fs)] /\ DOMAIN done \cup {f} \in SUBSET ToSet(Uploadable)
  BY <1>1, <1>3, <1>4
<1>6. c \in CopyMap(fs)
  BY <1>5 DEF CopyMap
<1>7. QED
  BY <1>2, <1>3, <1>6 DEF OneMore

(* The files one after another, from what FoldLeft chooses.                *)
LEMMA CopyWalk ==
  ASSUME NEW fs
  PROVE  \E acc : /\ acc \in [0 .. Len(Uploadable) -> CopyMap(fs)] /\ acc[0] = << >>
                  /\ \A k \in 1 .. Len(Uploadable) :
                       acc[k] = CopyNext(acc[k - 1], Uploadable[k], fs)
                  /\ CopyResources(fs) = acc[Len(Uploadable)]
<1> DEFINE n == Len(Uploadable)
           D == 1 .. n
           S == CopyMap(fs)
           E == ToSet(Uploadable)
           start == << >>
           chosen == fs \ Source(fs)
           walk(F, s) == IF s = {} THEN start
                         ELSE IF Uploadable[Max(s)] \in chosen
                              THEN Copy(Uploadable[Max(s)], fs, F[s \ {Max(s)}])
                              ELSE F[s \ {Max(s)}]
           iter == CHOOSE F : F = [s \in SUBSET D |-> walk(F, s)]
           op == [x \in S \X E |-> CopyNext(x[1], x[2], fs)]
           acc == [k \in 0 .. n |-> iter[1 .. k]]
<1>1. n \in Nat /\ Uploadable \in [1 .. n -> E] /\ DOMAIN Uploadable = D
  BY UploadableFiles
<1>2. op \in [S \X E -> S]
  <2>1. ASSUME NEW done \in S, NEW f \in E PROVE CopyNext(done, f, fs) \in S
    BY CopyIs DEF CopyNext, OneMore
  <2>2. \A x \in S \X E : CopyNext(x[1], x[2], fs) \in S
    BY <2>1
  <2>3. QED
    BY <2>2
<1>3. start \in S
  <2>1. start \in [{} -> FileCopy(fs)]
    OBVIOUS
  <2>2. QED
    BY <2>1 DEF CopyMap
<1>4. PICK G : Folds(G, S, op, start, n, Uploadable)
  <2> HIDE DEF op, n, S, E, start
  <2>1. QED
    BY <1>1, <1>2, <1>3, FoldExists
<1> HIDE DEF S, E, start
<1>5. ASSUME NEW s \in SUBSET D PROVE G[s] = walk(G, s)
  <2>1. G[s] = (IF s = {} THEN start ELSE op[<<G[s \ {Max(s)}], Uploadable[Max(s)]>>])
        /\ G[s \ {Max(s)}] \in S
    <3> HIDE DEF op
    <3>1. s \ {Max(s)} \in SUBSET D
      OBVIOUS
    <3>2. QED
      BY <1>4, <3>1 DEF Folds
  <2>2. CASE s = {}
    BY <2>1, <2>2
  <2>3. CASE s # {}
    <3>1. Uploadable[Max(s)] \in E
      BY <1>1, <2>3, MaxOfBounded
    <3>2. op[<<G[s \ {Max(s)}], Uploadable[Max(s)]>>]
            = CopyNext(G[s \ {Max(s)}], Uploadable[Max(s)], fs)
      BY <2>1, <3>1
    <3> HIDE DEF op
    <3>3. QED
      BY <2>1, <2>3, <3>2 DEF CopyNext
  <2>4. QED
    BY <2>2, <2>3
<1>6. G = [s \in SUBSET D |-> walk(G, s)]
  <2>1. G \in [SUBSET D -> S]
    BY <1>4 DEF Folds
  <2> HIDE DEF walk, D
  <2>2. QED
    BY <1>5, <2>1
<1>7. iter = [s \in SUBSET D |-> walk(iter, s)]
  <2> HIDE DEF walk, D
  <2>1. QED
    BY <1>6
<1>8. \A s \in SUBSET D : iter[s] = walk(iter, s)
  <2> HIDE DEF walk, D, iter
  <2>1. QED
    BY <1>7
<1>9. CopyResources(fs) = iter[D]
  BY <1>1 DEF CopyResources, FoldLeft, MapThenFoldSet, start
<1> HIDE DEF iter
<1>10. Runs(iter, S, op, start, n, Uploadable)
  <2>1. ASSUME NEW s \in SUBSET D, s # {}, iter[s \ {Max(s)}] \in S
        PROVE  iter[s] = op[<<iter[s \ {Max(s)}], Uploadable[Max(s)]>>]
    <3>1. Uploadable[Max(s)] \in E
      BY <1>1, <2>1, MaxOfBounded
    <3>2. iter[s] = CopyNext(iter[s \ {Max(s)}], Uploadable[Max(s)], fs)
      BY <1>8, <2>1 DEF CopyNext
    <3>3. QED
      BY <2>1, <3>1, <3>2
  <2>2. iter[{}] = start
    BY <1>8
  <2> HIDE DEF op, walk
  <2>3. QED
    BY <2>1, <2>2 DEF Runs
<1>11. Walks(acc, S, op, start, n, Uploadable)
  <2>1. acc = [k \in 0 .. n |-> iter[1 .. k]]
    OBVIOUS
  <2> HIDE DEF acc, op, n
  <2>2. QED
    BY <1>1, <1>2, <1>3, <1>10, <2>1, FoldRun
<1>12. acc[n] = iter[D]
  BY <1>1
<1> HIDE DEF acc
<1>13. ASSUME NEW k \in 1 .. n PROVE acc[k] = CopyNext(acc[k - 1], Uploadable[k], fs)
  <2>1. acc[k] = op[<<acc[k - 1], Uploadable[k]>>] /\ acc[k - 1] \in S
    <3> HIDE DEF op
    <3>1. k - 1 \in 0 .. n
      BY <1>1
    <3>2. QED
      BY <1>11, <3>1 DEF Walks
  <2>2. Uploadable[k] \in E
    BY <1>1
  <2>3. QED
    BY <2>1, <2>2
<1>14. acc \in [0 .. n -> S] /\ acc[0] = start
  <2> HIDE DEF op
  <2>1. QED
    BY <1>11 DEF Walks
<1>15. QED
  BY <1>9, <1>12, <1>13, <1>14 DEF S, start

(* Every file that is not the source of SKILL.md is copied, below the path *)
(* that it is given, and no two files to one place.                        *)
CopiedApart(c, fs) ==
  /\ DOMAIN c = fs \ Source(fs) /\ IsFiniteSet(Copied(c))
  /\ \A f \in DOMAIN c : \E n \in Nat : c[f] = File(TargetRelative(f, fs), n)
  /\ \A f, g \in DOMAIN c : f # g => c[f] # c[g]

LEMMA CopiesAre ==
  ASSUME NEW fs, fs \subseteq ToSet(Uploadable), NEW c, c = CopyResources(fs)
  PROVE  CopiedApart(c, fs)
<1> DEFINE n == Len(Uploadable)
           S == CopyMap(fs)
           chosen == fs \ Source(fs)
<1>1. PICK acc : /\ acc \in [0 .. n -> S] /\ acc[0] = << >>
                 /\ \A k \in 1 .. n : acc[k] = CopyNext(acc[k - 1], Uploadable[k], fs)
                 /\ CopyResources(fs) = acc[n]
  BY CopyWalk
<1>2. n \in Nat /\ DOMAIN Uploadable = 1 .. n /\ \A k \in 1 .. n : Uploadable[k] \in ToSet(Uploadable)
  BY UploadableFiles
<1> DEFINE firsts(k) == {f \in chosen : \E i \in 1 .. k : Uploadable[i] = f}
           placed(d) == \A f \in DOMAIN d : \E m \in Nat : d[f] = File(TargetRelative(f, fs), m)
           apart(d) == \A f, g \in DOMAIN d : f # g => d[f] # d[g]
           right(k) == DOMAIN acc[k] = firsts(k) /\ placed(acc[k]) /\ apart(acc[k])
           good == {k \in 0 .. n : right(k)}
<1>3. 0 \in good
  <2>1. DOMAIN acc[0] = {} /\ firsts(0) = {}
    BY <1>1
  <2>2. QED
    BY <1>2, <2>1
<1>4. ASSUME NEW k \in 0 .. n - 1, k \in good PROVE k + 1 \in good
  <2> DEFINE z == k + 1
             f == Uploadable[z]
             d == acc[k]
             e == acc[z]
  <2>1. z \in 1 .. n /\ z \in 0 .. n /\ k \in 0 .. n /\ z - 1 = k
        /\ \A i \in 1 .. z : i \in 1 .. k \/ i = z
    BY <1>2
  <2>2. f \in ToSet(Uploadable) /\ d \in S /\ e = CopyNext(d, f, fs)
    BY <1>1, <1>2, <2>1
  <2>3. DOMAIN d = firsts(k) /\ placed(d) /\ apart(d)
    BY <1>4
  <2>4. firsts(z) = IF f \in chosen THEN firsts(k) \cup {f} ELSE firsts(k)
    BY <2>1
  <2> HIDE DEF z, f, d, e, chosen, firsts
  <2>5. CASE f \notin chosen
    <3>1. e = d
      BY <2>2, <2>5 DEF CopyNext, chosen
    <3>2. QED
      BY <2>1, <2>3, <2>4, <2>5, <3>1 DEF z, e
  <2>6. CASE f \in chosen
    <3>1. e = Copy(f, fs, d)
      BY <2>2, <2>6 DEF CopyNext, chosen
    <3>2. /\ DOMAIN e = DOMAIN d \cup {f}
          /\ \A g \in DOMAIN d \ {f} : e[g] = d[g]
          /\ \E m \in Nat : e[f] = File(TargetRelative(f, fs), m)
          /\ e[f] \notin Copied(d)
      <4>1. OneMore(e, f, fs, d)
        BY <2>2, <3>1, CopyIs
      <4>2. QED
        BY <4>1 DEF OneMore
    <3>3. placed(e)
      BY <2>3, <3>2
    <3>4. ASSUME NEW g \in DOMAIN e, g # f PROVE e[g] = d[g] /\ g \in DOMAIN d /\ e[g] # e[f]
      BY <3>2, <3>4 DEF Copied
    <3>5. apart(e)
      BY <2>3, <3>4
    <3>6. DOMAIN e = firsts(z)
      BY <2>3, <2>4, <2>6, <3>2
    <3> HIDE DEF placed, apart
    <3>7. QED
      BY <2>1, <3>3, <3>5, <3>6 DEF z, e
  <2>7. QED
    BY <2>5, <2>6
<1>5. right(n)
  <2> HIDE DEF right
  <2>1. good \in SUBSET (0 .. n)
    OBVIOUS
  <2> HIDE DEF good
  <2>2. good = 0 .. n
    BY <1>2, <1>3, <1>4, <2>1, UpTo
  <2>3. n \in good
    BY <1>2, <2>2
  <2>4. QED
    BY <2>3 DEF good
<1>6. firsts(n) = chosen
  BY <1>2 DEF ToSet
<1>7. c = acc[n] /\ c \in S
  BY <1>1, <1>2
<1>8. IsFiniteSet(Copied(c))
  BY <1>7, CopiedFinite
<1> HIDE DEF firsts, chosen
<1>9. DOMAIN c = chosen /\ placed(c) /\ apart(c)
  BY <1>5, <1>6, <1>7
<1>10. QED
  BY <1>8, <1>9 DEF chosen, CopiedApart

(* Where a file goes: never to SKILL.md, and to an ignored place only by   *)
(* the cleaning of a name.                                                 *)
LEMMA TargetPath ==
  ASSUME NEW fs, fs \subseteq ToSet(Uploadable), NEW f \in fs \ Source(fs), NEW n \in Nat,
         ~ ToSkip(f), f.kind # "other"
  PROVE  LET place == File(TargetRelative(f, fs), n) IN
         /\ place # SkillDocument
         /\ HasIgnored(place) =>
              ~ PackageMode(fs) /\ \E i \in DOMAIN f.path : Clean[f.path[i]] # f.path[i]
<1> DEFINE raw == Relative(f, fs)
           parts == [i \in DOMAIN raw |-> Clean[raw[i]]]
           target == TargetRelative(f, fs)
           place == File(target, n)
           len == Len(f.path)
           cleaned == \E i \in DOMAIN f.path : Clean[f.path[i]] # f.path[i]
<1>1. /\ f.path \in Seq(STRING) /\ f.path # << >> /\ f.kind \in Kind
      /\ len \in Nat \ {0} /\ DOMAIN f.path = 1 .. len
      /\ \A j \in 1 .. len : /\ Clean[f.path[j]] \in STRING
                             /\ j = len /\ f.path[j] \in IgnoredName => f.kind = "other"
  <2>1. f \in ToSet(Uploadable)
    OBVIOUS
  <2>2. QED
    BY <2>1, UploadableFiles
<1>2. \A j \in 1 .. len : f.path[j] \notin IgnoredName
  BY <1>1 DEF ToSkip
<1>3. /\ raw \in Seq(STRING) /\ Len(raw) \in Nat \ {0} /\ DOMAIN raw = 1 .. Len(raw)
      /\ \A i \in 1 .. Len(raw) : \E j \in 1 .. len : raw[i] = f.path[j]
  <2>1. CASE raw = f.path
    BY <1>1, <2>1
  <2>2. CASE raw = Tail(f.path) /\ len > 1
    <3>1. /\ Tail(f.path) \in Seq(STRING) /\ Len(Tail(f.path)) = len - 1
          /\ \A i \in 1 .. len - 1 : Tail(f.path)[i] = f.path[i + 1]
      BY <1>1, HeadTailProperties
    <3>2. \A i \in 1 .. len - 1 : i + 1 \in 1 .. len
      BY <1>1
    <3>3. raw \in Seq(STRING) /\ Len(raw) = len - 1 /\ DOMAIN raw = 1 .. len - 1
      BY <1>1, <2>2, <3>1
    <3>4. \A i \in 1 .. Len(raw) : raw[i] = f.path[i + 1] /\ i + 1 \in 1 .. len
      BY <2>2, <3>1, <3>2, <3>3
    <3> HIDE DEF raw
    <3>5. QED
      BY <1>1, <2>2, <3>3, <3>4
  <2>3. raw = f.path \/ (raw = Tail(f.path) /\ len > 1)
    BY DEF Relative
  <2>4. QED
    BY <2>1, <2>2, <2>3
<1> HIDE DEF raw
<1>4. parts \in Seq(STRING) /\ Len(parts) = Len(raw) /\ DOMAIN parts = DOMAIN raw
      /\ \A i \in DOMAIN raw : parts[i] = Clean[raw[i]]
  BY <1>1, <1>3
<1> HIDE DEF parts
<1>5. ASSUME NEW i \in DOMAIN parts, parts[i] \in IgnoredName PROVE cleaned
  <2>1. PICK j \in 1 .. len : raw[i] = f.path[j]
    BY <1>3, <1>4
  <2>2. parts[i] = Clean[f.path[j]]
    BY <1>4, <2>1
  <2>3. Clean[f.path[j]] # f.path[j]
    BY <1>2, <1>5, <2>2
  <2>4. QED
    BY <1>1, <2>3
<1>6. CASE PackageMode(fs)
  <2>1. target = raw
    BY <1>6 DEF TargetRelative, raw
  <2>2. target # <<"SKILL.md">>
    <3> SUFFICES ASSUME raw = <<"SKILL.md">> PROVE FALSE
      BY <2>1
    <3>1. f \in {g \in fs : Relative(g, fs) = <<"SKILL.md">>}
      BY DEF raw
    <3>2. f \in Source(fs)
      BY <3>1 DEF Source
    <3>3. QED
      BY <3>2
  <2>3. ~ HasIgnored(place)
    BY <1>2, <1>3, <2>1 DEF HasIgnored, File
  <2>4. QED
    BY <2>2, <2>3 DEF SkillDocument, File
<1>7. CASE ~ PackageMode(fs)
  <2> DEFINE root == Root[f.kind]
  <2>1. root \notin IgnoredName /\ root # "SKILL.md"
        /\ "SKILL.md" \notin PreserveRoots[f.kind]
    <3>1. f.kind \in Kind \ {"other"}
      BY <1>1
    <3>2. root \in {"references", "scripts", "assets", "resources"}
      BY <3>1 DEF Root, Kind, Document
    <3>3. "SKILL.md" \notin PreserveRoots[f.kind]
      BY <3>1 DEF PreserveRoots, Kind, Document
    <3> HIDE DEF root
    <3>4. root \notin IgnoredName /\ root # "SKILL.md"
      BY <3>2 DEF IgnoredName
    <3>5. QED
      BY <3>3, <3>4
  <2>2. \/ target = parts /\ parts[1] \in PreserveRoots[f.kind]
        \/ target = <<root>> \o parts
    BY <1>7 DEF TargetRelative, raw, parts
  <2> HIDE DEF root
  <2>3. CASE target = parts /\ parts[1] \in PreserveRoots[f.kind]
    <3>1. target # <<"SKILL.md">>
      BY <2>1, <2>3
    <3>2. HasIgnored(place) => cleaned
      <4>1. HasIgnored(place) => \E i \in DOMAIN parts : parts[i] \in IgnoredName
        BY <2>3 DEF HasIgnored, File
      <4>2. QED
        BY <1>5, <4>1
    <3>3. QED
      BY <1>7, <3>1, <3>2 DEF SkillDocument, File
  <2>4. CASE target = <<root>> \o parts
    <3>1. /\ DOMAIN target = 1 .. Len(parts) + 1 /\ target[1] = root
          /\ \A i \in 2 .. Len(parts) + 1 : target[i] = parts[i - 1] /\ i - 1 \in DOMAIN parts
      <4> DEFINE Texts == STRING \cup {root}
      <4>1. parts \in Seq(Texts)
        BY <1>3, <1>4
      <4>2. <<root>> \in Seq(Texts) /\ Len(<<root>>) = 1 /\ <<root>>[1] = root
        OBVIOUS
      <4> HIDE DEF Texts
      <4>3. QED
        BY <1>3, <1>4, <2>4, <4>1, <4>2, ConcatProperties
    <3>2. target # <<"SKILL.md">>
      BY <2>1, <3>1
    <3>3. HasIgnored(place) => cleaned
      <4> SUFFICES ASSUME HasIgnored(place) PROVE cleaned
        OBVIOUS
      <4>1. PICK i \in DOMAIN target : target[i] \in IgnoredName
        BY DEF HasIgnored, File
      <4>2. i \in 2 .. Len(parts) + 1
        BY <1>3, <1>4, <2>1, <3>1, <4>1
      <4>3. i - 1 \in DOMAIN parts /\ parts[i - 1] \in IgnoredName
        BY <3>1, <4>1, <4>2
      <4>4. QED
        BY <1>5, <4>3
    <3>4. QED
      BY <1>7, <3>2, <3>3 DEF SkillDocument, File
  <2>5. QED
    BY <2>2, <2>3, <2>4
<1>8. QED
  BY <1>6, <1>7

(* The wrapper has a name that is not ignored.                             *)
LEMMA WrapperStays ==
  ASSUME NEW n PROVE ~ HasIgnored(File(Wrapper, n))
BY DEF HasIgnored, File, Wrapper, IgnoredName

LEMMA ImportInitInv == ImportInit => ImportInv
<1> SUFFICES ASSUME ImportInit PROVE ImportInv
  OBVIOUS
<1>1. uploaded \subseteq ToSet(Uploadable)
  BY DEF ImportInit, kSubset
<1>2. QED
  BY <1>1 DEF ImportInit, ImportInv

LEMMA UploadKeeps == ASSUME ImportInv, Upload PROVE ImportInv'
<1>1. uploaded' = uploaded /\ uploaded \subseteq ToSet(Uploadable)
  BY DEF ImportInv, Upload
<1>2. CASE Refused
  BY <1>1, <1>2 DEF Upload, ImportInv
<1>3. CASE ~ Refused
  <2>1. /\ written' = {f \in uploaded : ~ ToSkip(f)}
        /\ step' \in {"prepared", "optimizing"} /\ copies' = CopyResources(written')
        /\ body'.lists \in {{}, Copied(copies')} /\ body'.wrapper = {}
    BY <1>3 DEF Upload
  <2>2. \A f \in written' : f.kind # "other"
    BY <1>3, <2>1 DEF Refused
  <2>3. QED
    BY <1>1, <2>1, <2>2 DEF ImportInv
<1>4. QED
  BY <1>2, <1>3

LEMMA OptimizedKeeps == ASSUME ImportInv, Optimized PROVE ImportInv'
<1>1. /\ step = "optimizing" /\ step' = "prepared"
      /\ UNCHANGED <<uploaded, written, copies, installed, taken>>
      /\ body'.lists \in {body.lists, {}}
      /\ body'.wrapper \in {{}, {UniqueTarget(Wrapper, Copied(copies))}}
  BY DEF Optimized
<1>2. QED
  BY <1>1 DEF ImportInv

LEMMA ImportKeeps == ASSUME ImportInv, Import PROVE ImportInv'
<1>1. /\ step = "prepared" /\ UNCHANGED <<uploaded, written, copies, body, taken>>
      /\ step' \in {"refused", "installed"}
      /\ step' = "installed" => installed' = {c \in Normalized : ~ HasIgnored(c)}
  BY DEF Import
<1>2. Normalized' = Normalized
  BY <1>1 DEF Normalized
<1>3. QED
  BY <1>1, <1>2 DEF ImportInv

LEMMA ImportStep == ImportInv /\ [ImportNext]_importVars => ImportInv'
<1> SUFFICES ASSUME ImportInv, [ImportNext]_importVars PROVE ImportInv'
  OBVIOUS
<1>1. ASSUME UNCHANGED <<uploaded, step, written, copies, body, installed>> PROVE ImportInv'
  <2>1. Normalized' = Normalized
    BY <1>1 DEF Normalized
  <2>2. QED
    BY <1>1, <2>1 DEF ImportInv
<1>2. CASE AnotherSkill
  BY <1>1, <1>2 DEF AnotherSkill
<1>3. CASE UNCHANGED importVars
  BY <1>1, <1>3 DEF importVars
<1>4. QED
  BY <1>2, <1>3, UploadKeeps, OptimizedKeeps, ImportKeeps DEF ImportNext

(* What was accepted of an upload, and where its copies are, is what the   *)
(* files say, in every state of the request.                               *)
THEOREM ImportInvariance == ImportSpec => []ImportInv
<1> QED  BY ImportInitInv, ImportStep, PTL DEF ImportSpec

LEMMA NothingIsLostNow == ImportInv => NothingLost
<1> SUFFICES ASSUME ImportInv, step = "installed" PROVE NothingLost
  BY DEF NothingLost
<1> DEFINE kept == {f \in DOMAIN copies : ~ HasIgnored(copies[f])}
<1>1. /\ written \subseteq ToSet(Uploadable)
      /\ \A f \in written : ~ ToSkip(f) /\ f.kind # "other"
      /\ copies = CopyResources(written)
      /\ body.lists \subseteq Copied(copies)
      /\ body.wrapper \subseteq {UniqueTarget(Wrapper, Copied(copies))}
      /\ installed = {c \in Normalized : ~ HasIgnored(c)}
  BY DEF ImportInv
<1>2. /\ DOMAIN copies = written \ Source(written) /\ IsFiniteSet(Copied(copies))
      /\ \A f \in DOMAIN copies : \E n \in Nat : copies[f] = File(TargetRelative(f, written), n)
      /\ \A f, g \in DOMAIN copies : f # g => copies[f] # copies[g]
  <2>1. CopiedApart(copies, written)
    BY <1>1, CopiesAre
  <2>2. QED
    BY <2>1 DEF CopiedApart
<1>3. ASSUME NEW c \in body.wrapper PROVE c \notin Copied(copies) /\ ~ HasIgnored(c)
  <2>1. PICK n \in Nat : c = File(Wrapper, n) /\ c \notin Copied(copies)
    BY <1>1, <1>2, UniqueIs
  <2>2. QED
    BY <2>1, WrapperStays
<1>4. ASSUME NEW f \in DOMAIN copies
      PROVE  /\ copies[f] # SkillDocument
             /\ HasIgnored(copies[f]) =>
                  ~ PackageMode(written) /\ \E i \in DOMAIN f.path : Clean[f.path[i]] # f.path[i]
  <2>1. PICK n \in Nat : copies[f] = File(TargetRelative(f, written), n)
    BY <1>2
  <2>2. f \in written \ Source(written) /\ ~ ToSkip(f) /\ f.kind # "other"
    BY <1>1, <1>2
  <2>3. QED
    BY <1>1, <2>1, <2>2, TargetPath
<1>5. ASSUME NEW f \in kept
      PROVE  /\ copies[f] \in installed \ ({SkillDocument} \cup body.wrapper)
             /\ \A g \in kept \ {f} : copies[g] # copies[f]
  <2>1. copies[f] \in Copied(copies) /\ ~ HasIgnored(copies[f])
    BY DEF Copied
  <2>2. copies[f] \in installed
    BY <1>1, <2>1 DEF Normalized
  <2>3. QED
    BY <1>2, <1>3, <1>4, <2>1, <2>2
<1>6. body.wrapper \cup {c \in body.lists : ~ HasIgnored(c)} \subseteq installed
  BY <1>1, <1>3 DEF Normalized
<1>7. QED
  BY <1>2, <1>4, <1>5, <1>6 DEF NothingLost

(* No file of an upload is lost, whatever files are uploaded, however the  *)
(* cleaning of names makes them alike, and whatever the model keeps of     *)
(* SKILL.md's list.                                                        *)
THEOREM UploadsAreKept == ImportSpec => []NothingLost
<1> QED  BY ImportInvariance, NothingIsLostNow, PTL
=============================================================================
