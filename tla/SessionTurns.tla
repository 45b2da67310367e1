---------------------------- MODULE SessionTurns ----------------------------
(***************************************************************************)
(* Who may run a turn in one session, and what happens to the session's    *)
(* transcript.  A turn (RunLoop.handle_message) appends its user message   *)
(* to the record on disk, keeps the session in memory and saves it whole   *)
(* after every step.  Turns are started by                                 *)
(*   - POST /messages (api/routes/messages.py): the handler looks into     *)
(*     active_message_runs, awaits the body, and only when the response    *)
(*     starts to stream creates the worker and registers it;               *)
(*   - the scheduler (scheduler_engine.py), for tasks bound to a session;  *)
(*   - a channel (channels/service.py).                                    *)
(* POST /interrupt stops a registered worker, POST /compress rewrites the  *)
(* record after a provider call.  One event loop runs everything: an       *)
(* action is the code between two suspension points.                       *)
(***************************************************************************)
EXTENDS Integers, FiniteSets

CONSTANTS NRequests,  \* number of POST /messages requests
          NJobs,      \* of executions of scheduled tasks bound to the session
          NMessages,  \* of messages received from a channel
          MaxArrivals \* bound: how many of these, and of one POST /compress, arrive

ASSUME NumbersAssumption ==
  NRequests \in Nat /\ NJobs \in Nat /\ NMessages \in Nat /\ MaxArrivals \in Nat

Requests == 1 .. NRequests
Jobs == NRequests + 1 .. NRequests + NJobs
Messages == NRequests + NJobs + 1 .. NRequests + NJobs + NMessages
Turn == 1 .. NRequests + NJobs + NMessages
Nobody == 0

VARIABLES
  at,           \* where the turn is, see Place
  active,       \* active_message_runs[session_id]: the request, or Nobody
  connected,    \* requests whose response stream is still open
  stopping,     \* requests an interrupt handler has cancelled and waits for
  flagged,      \* requests whose worker has a pending asyncio cancellation
  jobActive,    \* the session is in scheduler._active_session_ids
  disk,         \* the session's record, see Content
  snap,         \* the session a turn holds in memory
  compress,     \* POST /compress: unused, summarizing, over
  compressSnap, \* the session it holds in memory
  replaced,     \* auxiliary: workers whose entry a later request has overwritten
  overlapped    \* auxiliary: two were at work in the session at once, or a
                \* cancelled turn went on

entryVars == <<active, connected, stopping, flagged>>
recordVars == <<disk, snap>>
compressVars == <<compress, compressSnap>>
vars == <<at, entryVars, jobActive, recordVars, compressVars, replaced, overlapped>>

Place == {"idle", "refused", "parsing", "created", "saving", "arrived",
          "turn", "backoff", "closing", "done"}

(* A copy of the session contains <<x, "messages">> if it has all messages *)
(* turn x has saved so far, and <<x, "marker">> for an interrupt of x.     *)
Content == Turn \X {"messages", "marker"}

TypeOK ==
  /\ at \in [Turn -> Place]
  /\ active \in Requests \cup {Nobody}
  /\ connected \subseteq Requests /\ stopping \subseteq Requests
  /\ flagged \subseteq Requests /\ replaced \subseteq Requests
  /\ jobActive \in BOOLEAN /\ overlapped \in BOOLEAN
  /\ disk \subseteq Content /\ snap \in [Turn -> SUBSET Content]
  /\ compress \in {"unused", "summarizing", "over"} /\ compressSnap \subseteq Content

Init ==
  /\ at = [x \in Turn |-> "idle"]
  /\ active = Nobody
  /\ connected = {} /\ stopping = {} /\ flagged = {} /\ replaced = {}
  /\ jobActive = FALSE /\ overlapped = FALSE
  /\ disk = {} /\ snap = [x \in Turn |-> {}]
  /\ compress = "unused" /\ compressSnap = {}

-----------------------------------------------------------------------------
Goto(x, place) == at' = [at EXCEPT ![x] = place]

Arrived ==
  Cardinality({x \in Turn : at[x] # "idle"}) + (IF compress = "unused" THEN 0 ELSE 1)

(* Turns of one kind are alike: they arrive in the order of their numbers. *)
Arrives(x, kind) ==
  /\ at[x] = "idle" /\ Arrived < MaxArrivals
  /\ \A y \in kind : y < x => at[y] # "idle"

(* Workers of requests that are not done (asyncio.Task.done).              *)
Worker(r) == at[r] \in {"created", "saving", "turn", "closing"}

(* variant: the entry is removed whoever registered it *)
ClearAny(r) == active' = Nobody

(* _clear_active_session_run: only the own entry.                          *)
Clear(r) == active' = IF active = r THEN Nobody ELSE active

(* Turn x saves c as the session, with new messages of its own: no other   *)
(* copy in memory has all messages of x any more.                          *)
Save(x, c) ==
  /\ disk' = c
  /\ snap' = [y \in Turn |-> IF y = x THEN c ELSE snap[y] \ {<<x, "messages">>}]
  /\ compressSnap' = compressSnap \ {<<x, "messages">>}

(* handle_message up to its first suspension: append_message reads the     *)
(* record, appends the user message and saves it.                          *)
BeginTurn(x) ==
  /\ Goto(x, "turn")
  /\ Save(x, disk \cup {<<x, "messages">>})

(* Messages are appended in memory and the session is saved.               *)
SaveStep(x) == Save(x, snap[x])

(* handle_message is over, with a last save or, after an error, without.   *)
(* The session it held in memory is gone.                                  *)
SaveAnswer(x) ==
  /\ disk' = snap[x]
  /\ snap' = [y \in Turn |-> IF y = x THEN {} ELSE snap[y] \ {<<x, "messages">>}]
  /\ compressSnap' = compressSnap \ {<<x, "messages">>}

GiveUp(x) ==
  /\ snap' = [snap EXCEPT ![x] = {}]
  /\ UNCHANGED <<disk, compressSnap>>

-----------------------------------------------------------------------------
(* POST /messages: the check.  A finished worker's entry is dropped; an    *)
(* unfinished one, or a scheduled task in the session, is answered 409.    *)
Check(r) ==
  /\ Arrives(r, Requests)
  /\ LET busy == active # Nobody /\ Worker(active) IN
     /\ active' = IF busy THEN active ELSE Nobody
     /\ Goto(r, IF busy \/ jobActive THEN "refused" ELSE "parsing")
  /\ UNCHANGED <<connected, stopping, flagged, jobActive, recordVars, compressVars, replaced>>

(* The body is empty or malformed, or the client has gone.                 *)
Reject(r) ==
  /\ at[r] = "parsing"
  /\ Goto(r, "refused")
  /\ UNCHANGED <<entryVars, jobActive, recordVars, compressVars, replaced>>

(* The body has been read and the response starts: event_stream creates    *)
(* the worker and registers it, without another look.                      *)
Register(r) ==
  /\ at[r] = "parsing"
  /\ Goto(r, "created")
  /\ active' = r
  /\ replaced' = replaced \cup {q \in Requests : q = active /\ Worker(q)}
  /\ connected' = connected \cup {r}
  /\ UNCHANGED <<stopping, flagged, jobActive, recordVars, compressVars>>

(* The client disconnects: the worker goes on, detached.                   *)
Disconnect(r) ==
  /\ r \in connected /\ Worker(r)
  /\ connected' = connected \ {r}
  /\ UNCHANGED <<at, active, stopping, flagged, jobActive, recordVars, compressVars, replaced>>

(* The stream ends behind its worker.                                      *)
StreamEnd(r) ==
  /\ r \in connected /\ at[r] = "done"
  /\ connected' = connected \ {r}
  /\ Clear(r)
  /\ UNCHANGED <<at, stopping, flagged, jobActive, recordVars, compressVars, replaced>>

-----------------------------------------------------------------------------
(* run_worker.                                                             *)

(* Attachments are saved first, if there are any.                          *)
SaveUploads(r) ==
  /\ at[r] = "created" /\ r \notin flagged
  /\ Goto(r, "saving")
  /\ UNCHANGED <<entryVars, jobActive, recordVars, compressVars, replaced>>

WorkerTurn(r) ==
  /\ at[r] \in {"created", "saving"} /\ r \notin flagged
  /\ BeginTurn(r)
  /\ UNCHANGED <<entryVars, jobActive, compress, replaced>>

(* handle_message saves a tool call, a tool result, a checkpoint, ...      *)
WorkerSave(r) ==
  /\ at[r] = "turn" /\ r \notin flagged
  /\ SaveStep(r)
  /\ UNCHANGED <<at, entryVars, jobActive, compress, replaced>>

(* handle_message saves the answer and returns.                            *)
WorkerAnswer(r) ==
  /\ at[r] = "turn" /\ r \notin flagged
  /\ SaveAnswer(r)
  /\ Goto(r, "closing")
  /\ UNCHANGED <<entryVars, jobActive, compress, replaced>>

(* Any exception, a failed upload included, is reported on the stream.     *)
WorkerFails(r) ==
  /\ at[r] \in {"saving", "turn"} /\ r \notin flagged
  /\ Goto(r, "closing") /\ GiveUp(r)
  /\ UNCHANGED <<entryVars, jobActive, compress, replaced>>

(* variant: what the turn has done is saved before it is given up *)
WorkerCancelledSaving(r) ==
  /\ at[r] = "turn" /\ r \in flagged
  /\ SaveAnswer(r)
  /\ Goto(r, "closing")
  /\ flagged' = flagged \ {r}
  /\ UNCHANGED <<active, connected, stopping, jobActive, compress, replaced>>

(* CancelledError: handle_message saves nothing more, run_worker goes to   *)
(* its finally block.                                                      *)
WorkerCancelled(r) ==
  /\ at[r] \in {"saving", "turn"} /\ r \in flagged
  /\ Goto(r, "closing") /\ GiveUp(r)
  /\ flagged' = flagged \ {r}
  /\ UNCHANGED <<active, connected, stopping, jobActive, compress, replaced>>

(* The turn was inside wait_for (an approval, a tool call) and what it     *)
(* waited for is just done: Python 3.11 drops the cancellation.            *)
CancelDropped(r) ==
  /\ at[r] = "turn" /\ r \in flagged
  /\ flagged' = flagged \ {r}
  /\ UNCHANGED <<at, active, connected, stopping, jobActive, recordVars, compressVars, replaced>>

(* variant: a worker ends through its finally block only *)
WorkerEndRegular(r) ==
  /\ at[r] = "closing" /\ Clear(r)
  /\ Goto(r, "done")
  /\ flagged' = flagged \ {r} /\ replaced' = replaced \ {r}
  /\ UNCHANGED <<connected, stopping, jobActive, recordVars, compressVars>>

(* The finally block sends stream_completed and then clears the entry.  A  *)
(* worker cancelled meanwhile, or before its first step, does neither.     *)
WorkerEnd(r) ==
  /\ \/ at[r] = "closing" /\ r \notin flagged /\ Clear(r)
     \/ at[r] \in {"created", "closing"} /\ r \in flagged /\ UNCHANGED active
  /\ Goto(r, "done")
  /\ flagged' = flagged \ {r} /\ replaced' = replaced \ {r}
  /\ UNCHANGED <<connected, stopping, jobActive, recordVars, compressVars>>

-----------------------------------------------------------------------------
(* POST /interrupt: _persist_turn_interrupted appends the marker (and the  *)
(* user message, if the turn has not yet) to the record, the subagents of  *)
(* the turn are cancelled, and then the worker.  (A turn that is closing   *)
(* is taken to have begun: one whose uploads failed has not.)              *)
Interrupt(r) ==
  /\ active = r /\ Worker(r)
  /\ LET begun == at[r] \notin {"created", "saving"} IN
     disk' = disk \cup {<<r, "marker">>} \cup (IF begun THEN {} ELSE {<<r, "messages">>})
  /\ flagged' = flagged \cup {r}
  /\ stopping' = stopping \cup {r}
  /\ UNCHANGED <<at, active, connected, jobActive, snap, compressVars, replaced>>

(* The worker was done already.                                            *)
InterruptLate(r) ==
  /\ active = r /\ ~ Worker(r)
  /\ Clear(r)
  /\ UNCHANGED <<at, connected, stopping, flagged, jobActive, recordVars, compressVars, replaced>>

(* The awaited worker is done: the handler answers.                        *)
InterruptReturns(r) ==
  /\ r \in stopping /\ ~ Worker(r)
  /\ stopping' = stopping \ {r}
  /\ Clear(r)
  /\ UNCHANGED <<at, connected, flagged, jobActive, recordVars, compressVars, replaced>>

-----------------------------------------------------------------------------
(* SchedulerEngine._execute.  The session is busy when a scheduled task    *)
(* runs in it or a request is registered, finished or not.                 *)
JobSkipped(j) ==
  /\ Arrives(j, Jobs)
  /\ jobActive \/ active # Nobody
  /\ Goto(j, "refused")
  /\ UNCHANGED <<entryVars, jobActive, recordVars, compressVars, replaced>>

JobStarts(j) ==
  /\ Arrives(j, Jobs)
  /\ ~ jobActive /\ active = Nobody
  /\ jobActive' = TRUE
  /\ BeginTurn(j)
  /\ UNCHANGED <<entryVars, compress, replaced>>

JobSaves(j) ==
  /\ at[j] = "turn"
  /\ SaveStep(j)
  /\ UNCHANGED <<at, entryVars, jobActive, compress, replaced>>

(* The attempt failed and another one is left: sleep.                      *)
JobBacksOff(j) ==
  /\ at[j] = "turn"
  /\ Goto(j, "backoff") /\ GiveUp(j)
  /\ UNCHANGED <<entryVars, jobActive, compress, replaced>>

JobRetries(j) ==
  /\ at[j] = "backoff"
  /\ Goto(j, "turn")
  /\ Save(j, disk)
  /\ UNCHANGED <<entryVars, jobActive, compress, replaced>>

(* The last attempt ends, with an answer or with an error.                 *)
JobEnds(j) ==
  /\ at[j] = "turn"
  /\ Goto(j, "done")
  /\ jobActive' = FALSE
  /\ SaveAnswer(j) \/ GiveUp(j)
  /\ UNCHANGED <<entryVars, compress, replaced>>

JobStep(j) ==
  \/ JobSkipped(j) \/ JobStarts(j) \/ JobSaves(j)
  \/ JobBacksOff(j) \/ JobRetries(j) \/ JobEnds(j)

-----------------------------------------------------------------------------
(* process_transport_message: one channel message at a time in a session;  *)
(* requests and scheduled tasks are not looked for.                        *)
ChannelReceives(m) ==
  /\ Arrives(m, Messages)
  /\ Goto(m, IF \E n \in Messages : at[n] \in {"arrived", "turn"}
             THEN "refused" ELSE "arrived")
  /\ UNCHANGED <<entryVars, jobActive, recordVars, compressVars, replaced>>

ChannelTurn(m) ==
  /\ at[m] = "arrived"
  /\ BeginTurn(m)
  /\ UNCHANGED <<entryVars, jobActive, compress, replaced>>

ChannelSaves(m) ==
  /\ at[m] = "turn"
  /\ SaveStep(m)
  /\ UNCHANGED <<at, entryVars, jobActive, compress, replaced>>

ChannelEnds(m) ==
  /\ at[m] = "turn"
  /\ Goto(m, "done")
  /\ SaveAnswer(m) \/ GiveUp(m)
  /\ UNCHANGED <<entryVars, jobActive, compress, replaced>>

-----------------------------------------------------------------------------
(* POST /compress reads the session, asks the provider for a summary, and  *)
(* saves the session it has read with the checkpoint's metadata.           *)
CompressBegins ==
  /\ compress = "unused" /\ Arrived < MaxArrivals
  /\ compress' = "summarizing" /\ compressSnap' = disk
  /\ UNCHANGED <<at, entryVars, jobActive, recordVars, replaced>>

CompressEnds ==
  /\ compress = "summarizing"
  /\ compress' = "over" /\ compressSnap' = {}
  /\ disk' \in {compressSnap, disk}     \* disk: nothing_to_compress
  /\ UNCHANGED <<at, entryVars, jobActive, snap, replaced>>

-----------------------------------------------------------------------------
WorkerStep(r) ==
  \/ SaveUploads(r) \/ WorkerTurn(r) \/ WorkerSave(r) \/ WorkerAnswer(r)
  \/ WorkerFails(r) \/ WorkerCancelled(r) \/ CancelDropped(r) \/ WorkerEnd(r)

RequestStep(r) ==
  \/ Check(r) \/ Reject(r) \/ Register(r) \/ Disconnect(r) \/ StreamEnd(r)
  \/ WorkerStep(r)
  \/ Interrupt(r) \/ InterruptLate(r) \/ InterruptReturns(r)

MessageStep(m) ==
  ChannelReceives(m) \/ ChannelTurn(m) \/ ChannelSaves(m) \/ ChannelEnds(m)

(* Who is at work in the session.                                          *)
AtWork(x) == at[x] \in {"created", "saving", "arrived", "turn", "backoff", "closing"}

Alone ==
  /\ \A x, y \in Turn : AtWork(x) /\ AtWork(y) => x = y
  /\ compress = "summarizing" => \A x \in Turn : ~ AtWork(x)

Watch(A) ==
  /\ A
  /\ overlapped' = \/ overlapped
                   \/ ~ Alone'
                   \/ \E r \in flagged \ flagged' : at'[r] = "turn"

Next ==
  \/ \E r \in Requests : Watch(RequestStep(r))
  \/ \E j \in Jobs : Watch(JobStep(j))
  \/ \E m \in Messages : Watch(MessageStep(m))
  \/ Watch(CompressBegins) \/ Watch(CompressEnds)

(* The loop runs what is ready.  A turn ends because its tool depth and    *)
(* its provider retries are bounded.  Clients owe nothing.                 *)
Progress(r) ==
  \/ SaveUploads(r) \/ WorkerTurn(r) \/ WorkerAnswer(r) \/ WorkerFails(r)
  \/ WorkerCancelled(r) \/ WorkerEnd(r)

Fairness ==
  \A r \in Requests : WF_vars(Watch(Progress(r))) /\ WF_vars(Watch(InterruptReturns(r)))

Spec == Init /\ [][Next]_vars /\ Fairness

-----------------------------------------------------------------------------
(* At most one scheduled task works in the session, retries included, and  *)
(* the set the checks look into says so.                                   *)
OneJob ==
  /\ \A i, j \in Jobs : AtWork(i) /\ AtWork(j) => i = j
  /\ jobActive <=> \E j \in Jobs : AtWork(j)

(* A worker that has not ended is the registered one, which is what the    *)
(* checks and the stop button go by, unless a request that had passed its  *)
(* check before has overwritten the entry.                                 *)
LiveIsRegistered ==
  \A r \in Requests : Worker(r) => active = r \/ r \in replaced

(* The entry of a worker that has ended is still going to be removed, by   *)
(* its stream or by the interrupt handler: the scheduler, which does not   *)
(* look whether the worker is done, is not locked out of the session.      *)
NoStaleEntry ==
  active # Nobody /\ ~ Worker(active) => active \in connected \cup stopping

(* What the checks of requests, scheduler and stop button look into is so: *)
(* the scheduler's set and the entries of active runs.                     *)
EntriesAreTrue == OneJob /\ LiveIsRegistered /\ NoStaleEntry

(* While one at a time is at work in the session nothing vanishes from the *)
(* transcript: in particular not the marker of an interrupt, which is      *)
(* written behind the back of the turn that holds the session in memory.   *)
TranscriptGrows == [][~ overlapped' => disk \subseteq disk']_vars

(* An interrupt is answered: the worker it waits for comes to its end.     *)
InterruptAnswered == \A r \in Requests : r \in stopping ~> r \notin stopping

(* The inductive invariant: a pending cancellation belongs to a worker an  *)
(* interrupt handler waits for, and what is alone at work has a copy of    *)
(* the session that is up to date, unless it is about to be cancelled.     *)
FlagsAreAwaited == \A r \in flagged : Worker(r) /\ r \in stopping

CopyIsCurrent ==
  ~ overlapped =>
    /\ Alone
    /\ \A x \in Turn \ flagged : at[x] = "turn" => snap[x] = disk
    /\ compress = "summarizing" => compressSnap = disk

IInv ==
  /\ TypeOK
  /\ OneJob /\ LiveIsRegistered /\ NoStaleEntry
  /\ FlagsAreAwaited /\ CopyIsCurrent

(* "One active turn per session" (Newman_API_v1.md:427).                   *)
OneTurnPerSession == \A x, y \in Turn : at[x] = "turn" /\ at[y] = "turn" => x = y

(* "Compression does not delete the transcript"                            *)
(* (context_compression.md:362).                                           *)
CompressKeepsTranscript ==
  [][compress = "summarizing" /\ compress' = "over" => disk \subseteq disk']_vars

=============================================================================
