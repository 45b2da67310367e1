----------------------------- MODULE McpSession -----------------------------
(***************************************************************************)
(* One stdio MCP server (mcp/client.py, mcp/tool_adapter.py, set_sandbox   *)
(* and build_tools in mcp/registry.py).  A tool call runs in a thread of   *)
(* its own: it takes the session's lock, makes sure that there is a        *)
(* process, writes a request and reads lines until one has its id.  There  *)
(* is no timeout on the reading; a turn that gives up on the call leaves   *)
(* the thread as it is, with the lock.  Every reload of the runtime closes *)
(* the session without taking its lock, puts a new one in its place and    *)
(* lists the tools, on the event loop, which runs nothing else meanwhile.  *)
(*                                                                         *)
(* A request's id is its number; a line is the id of what it answers, or 0 *)
(* for a line that is no JSON.                                             *)
(***************************************************************************)
EXTENDS Integers, Sequences, FiniteSets

CONSTANTS
  McpCall,       \* tool calls, numbers from 1
  MaxReloads,    \* bound: reloads
  MaxProcesses,  \* bound: processes started
  MaxNoise       \* bound: lines that are no JSON

Reload == Cardinality(McpCall) + 1 .. Cardinality(McpCall) + MaxReloads   \* their list_tools
Request == McpCall \cup Reload
ProcessNo == 1 .. MaxProcesses
SessionNo == 1 .. MaxReloads + 1
Failed == -1

ASSUME McpAssumption ==
  /\ IsFiniteSet(McpCall) /\ McpCall = 1 .. Cardinality(McpCall)
  /\ MaxReloads \in Nat

VARIABLES
  current,         \* the client's session, _stdio
  sessionProcess,  \* session |-> _process, 0 for None
  holder,          \* session |-> who holds its _lock, 0 for nobody
  started,         \* processes started
  running,         \* the processes that run
  input,           \* process |-> requests written and not read by the server
  output,          \* process |-> lines written and not read
  phase,           \* where a request is
  session,         \* request |-> its session
  reads,           \* request |-> the process that it talks to
  reply,           \* request |-> the line it took for its answer, Failed, or 0
  loop,            \* the event loop: "free", "closing" or "listing"
  reloads,         \* reloads so far
  closing,         \* the process that close has taken
  noise            \* bounded: lines that are no JSON

sessionVars == <<current, sessionProcess, holder>>
serverVars == <<started, running, input, output, noise>>
requestVars == <<phase, session, reads, reply>>
loopVars == <<loop, reloads, closing>>
mcpVars == <<sessionVars, serverVars, requestVars, loopVars>>

Listing == Cardinality(McpCall) + reloads       \* the reload's own request
Holds(r) == holder[session[r]] = r

-----------------------------------------------------------------------------
(* adapter.run: the session is looked up before the thread starts.         *)
StartCall(c) ==
  /\ loop = "free" /\ phase[c] = "new"
  /\ phase' = [phase EXCEPT ![c] = "waiting"]
  /\ session' = [session EXCEPT ![c] = current]
  /\ UNCHANGED <<sessionVars, serverVars, reads, reply, loopVars>>

Acquire(r) ==
  /\ phase[r] = "waiting" /\ holder[session[r]] = 0
  /\ holder' = [holder EXCEPT ![session[r]] = r]
  /\ phase' = [phase EXCEPT ![r] = "locked"]
  /\ UNCHANGED <<current, sessionProcess, serverVars, session, reads, reply, loopVars>>

(* The request returns or raises, and releases the lock; the reload goes   *)
(* on when its own does.                                                   *)
Leave(r, line) ==
  /\ phase' = [phase EXCEPT ![r] = "done"]
  /\ reply' = [reply EXCEPT ![r] = line]
  /\ holder' = [holder EXCEPT ![session[r]] = 0]
  /\ loop' = IF r \in Reload THEN "free" ELSE loop
  /\ UNCHANGED <<current, sessionProcess, session, reads, reloads, closing>>

(* _ensure_process: a process that runs is used, otherwise one is started, *)
(* which may fail ...                                                      *)
EnsureProcess(r) ==
  /\ phase[r] = "locked"
  /\ \/ /\ sessionProcess[session[r]] \in running
        /\ UNCHANGED <<sessionProcess, started, running>>
        /\ phase' = [phase EXCEPT ![r] = "ensured"]
     \/ /\ sessionProcess[session[r]] \notin running /\ started < MaxProcesses
        /\ started' = started + 1 /\ running' = running \cup {started'}
        /\ sessionProcess' = [sessionProcess EXCEPT ![session[r]] = started']
        /\ phase' = [phase EXCEPT ![r] = "ensured"]
  /\ UNCHANGED <<current, holder, input, output, noise, session, reads, reply, loopVars>>

StartFails(r) ==
  /\ phase[r] = "locked" /\ sessionProcess[session[r]] \notin running
  /\ Leave(r, Failed)
  /\ UNCHANGED serverVars

(* ... and _process is read again to return it: a close in between leaves  *)
(* None.  A process that has ended, or whose pipes are closed, breaks the  *)
(* write.                                                                  *)
Write(r) ==
  /\ phase[r] = "ensured"
  /\ LET p == sessionProcess[session[r]]
     IN  IF p \in running
         THEN /\ reads' = [reads EXCEPT ![r] = p]
              /\ input' = [input EXCEPT ![p] = Append(@, r)]
              /\ phase' = [phase EXCEPT ![r] = "reading"]
              /\ UNCHANGED <<sessionVars, started, running, output, noise>>
              /\ UNCHANGED <<session, reply, loopVars>>
         ELSE Leave(r, Failed) /\ UNCHANGED serverVars

Read(r) ==
  /\ phase[r] = "reading"
  /\ LET lines == output[reads[r]]
     IN  \/ /\ lines # << >>
            /\ output' = [output EXCEPT ![reads[r]] = Tail(@)]
            /\ CASE Head(lines) = r -> Leave(r, r)
                 [] Head(lines) = 0 -> Leave(r, Failed)
                 [] OTHER -> UNCHANGED <<sessionVars, requestVars, loopVars>>
         \/ /\ lines = << >> /\ reads[r] \notin running
            /\ UNCHANGED output
            /\ Leave(r, Failed)
  /\ UNCHANGED <<started, running, input, noise>>

-----------------------------------------------------------------------------
(* The server answers in order, or never; it may print, and end.           *)
Serve(p) ==
  /\ p \in running /\ input[p] # << >>
  /\ input' = [input EXCEPT ![p] = Tail(@)]
  /\ output' = [output EXCEPT ![p] = Append(@, Head(input[p]))]
  /\ UNCHANGED <<sessionVars, started, running, noise, requestVars, loopVars>>

PrintsALine(p) ==
  /\ p \in running /\ noise < MaxNoise
  /\ noise' = noise + 1
  /\ output' = [output EXCEPT ![p] = Append(@, 0)]
  /\ UNCHANGED <<sessionVars, started, running, input, requestVars, loopVars>>

Ends(p) ==
  /\ p \in running
  /\ running' = running \ {p}
  /\ UNCHANGED <<sessionVars, started, input, output, noise, requestVars, loopVars>>

-----------------------------------------------------------------------------
(* A reload, with its new sandbox: close takes the process out of the      *)
(* session ...                                                             *)
BeginReload ==
  /\ loop = "free" /\ reloads < MaxReloads
  /\ loop' = "closing" /\ reloads' = reloads + 1
  /\ closing' = sessionProcess[current]
  /\ sessionProcess' = [sessionProcess EXCEPT ![current] = 0]
  /\ UNCHANGED <<current, holder, serverVars, requestVars>>

(* variant: the session, with its lock, is kept *)
ReplaceKeepingSession == UNCHANGED current

Replace == current' = current + 1

(* ... ends it and closes its pipes; the client gets a new session, and    *)
(* the tools are listed (the resources, the same way, are left out).       *)
EndReload ==
  /\ loop = "closing"
  /\ loop' = "listing" /\ closing' = 0
  /\ running' = running \ {closing}
  /\ output' = [p \in ProcessNo |-> IF p = closing THEN << >> ELSE output[p]]
  /\ Replace
  /\ session' = [session EXCEPT ![Listing] = current']
  /\ phase' = [phase EXCEPT ![Listing] = "waiting"]
  /\ UNCHANGED <<sessionProcess, holder, started, input, noise, reads, reply, reloads>>

-----------------------------------------------------------------------------
McpInit ==
  /\ current = 1
  /\ sessionProcess = [s \in SessionNo |-> 0] /\ holder = [s \in SessionNo |-> 0]
  /\ started = 0 /\ running = {} /\ noise = 0
  /\ input = [p \in ProcessNo |-> << >>] /\ output = [p \in ProcessNo |-> << >>]
  /\ phase = [r \in Request |-> "new"] /\ session = [r \in Request |-> 1]
  /\ reads = [r \in Request |-> 0] /\ reply = [r \in Request |-> 0]
  /\ loop = "free" /\ reloads = 0 /\ closing = 0

McpNext ==
  \/ \E c \in McpCall : StartCall(c)
  \/ \E r \in Request :
       Acquire(r) \/ EnsureProcess(r) \/ StartFails(r) \/ Write(r) \/ Read(r)
  \/ \E p \in ProcessNo : Serve(p) \/ PrintsALine(p) \/ Ends(p)
  \/ BeginReload
  \/ EndReload

McpSpec == McpInit /\ [][McpNext]_mcpVars

-----------------------------------------------------------------------------
(* A call returns the answer to its own request, though answers to earlier *)
(* ones may be left in the pipe: those of requests that stopped at a line  *)
(* that is no JSON (request, the comparison of ids).                       *)
OwnAnswer == \A r \in Request : reply[r] \in {0, Failed, r}

(* The event loop never waits for a tool call, however long its thread is  *)
(* stuck: the lock that a reload needs is free or its own (set_sandbox     *)
(* replaces the session); and one that was replaced is not used by a       *)
(* reload again.                                                           *)
LoopWaitsForNoCall ==
  loop = "listing" =>
    /\ holder[session[Listing]] \in {0, Listing}
    /\ \A c \in McpCall : session[c] = session[Listing] => phase[c] \in {"new", "done"}

(* Calls of one server do not get each other's answers, nor does a reload  *)
(* wait for them.                                                          *)
CallsAreSeparate == OwnAnswer /\ LoopWaitsForNoCall

-----------------------------------------------------------------------------
(* The inductive invariant behind CallsAreSeparate: each reload has opened *)
(* a session of its own, which nobody uses before, and a lock is in the    *)
(* hands of a request of its session.                                      *)
McpTypeOK ==
  /\ current \in SessionNo
  /\ holder \in [SessionNo -> Request \cup {0}]
  /\ phase \in [Request -> {"new", "waiting", "locked", "ensured", "reading", "done"}]
  /\ session \in [Request -> SessionNo]
  /\ reply \in [Request -> Request \cup {0, Failed}]
  /\ loop \in {"free", "closing", "listing"}
  /\ reloads \in 0 .. MaxReloads

SessionsInOrder ==
  /\ current = IF loop = "closing" THEN reloads ELSE reloads + 1
  /\ \A c \in McpCall : session[c] <= current
  /\ \A r \in Reload : phase[r] # "new" => session[r] = r - Cardinality(McpCall) + 1

LocksAreHeld ==
  \A s \in SessionNo : holder[s] # 0 =>
    session[holder[s]] = s /\ phase[holder[s]] \in {"locked", "ensured", "reading"}

LoopListsAlone ==
  /\ loop = "listing" =>
       /\ Listing \in Reload /\ phase[Listing] \notin {"new", "done"}
       /\ \A c \in McpCall : session[c] = current => phase[c] \in {"new", "done"}
  /\ \A r \in Reload : phase[r] \notin {"new", "done"} => loop = "listing" /\ r = Listing
  /\ \A r \in Request : phase[r] \in {"locked", "ensured", "reading"} => Holds(r)

McpInv ==
  /\ McpTypeOK /\ SessionsInOrder /\ LocksAreHeld /\ LoopListsAlone
  /\ OwnAnswer
=============================================================================
