------------------------------ MODULE Channels ------------------------------
(***************************************************************************)
(* Messages from Feishu (channels/feishu_transport.py, service.py,         *)
(* session_store.py).  The SDK runs in a thread and hands each event to    *)
(* the event loop, where a handler drops what it has seen before, starts   *)
(* the turn in a task of its own, acknowledges after two seconds and sends *)
(* the answer.  The transport is stopped by a reload of the runtime and    *)
(* started again by the setup test, also while it is still stopping.       *)
(*                                                                         *)
(* One ChannelService; a chat stands for the key of its session (app,      *)
(* chat, user and day).  What the SDK, the turn and the sending do is      *)
(* external; webhooks, whose answer is the HTTP response, are left out.    *)
(***************************************************************************)
EXTENDS Integers, Sequences, FiniteSets

CONSTANTS
  Message,        \* ids of messages, numbers from 1
  ChatOf,         \* message |-> its chat
  MaxEvents,      \* bound: deliveries of events by the SDK
  MaxTransports,  \* bound: runs of the transport
  MaxFaults       \* bound: expired entries of the dedup store and deleted sessions

Event == 1 .. MaxEvents
Run == 1 .. MaxTransports
Chat == {ChatOf[m] : m \in Message}
Session == 1 .. Cardinality(Chat)
Text == {"ack", "answer", "busy", "failed"}

ASSUME ChannelAssumption ==
  IsFiniteSet(Message) /\ MaxEvents \in Nat /\ MaxTransports \in Nat

VARIABLES
  mainLoop,     \* _main_loop is set
  task,         \* _task, the number of its run, 0 for None
  runs,         \* runs started
  alive,        \* the runs whose task is not done
  thread,       \* run |-> its SDK thread: "none", "starting", "connected", "over"
  channel,      \* the run whose SDK object is _channel, 0 for None
  stopping,     \* stop waits for the task that it took, {} if there is no stop
  seen,         \* the entries of the dedup store
  events,       \* delivered events: the message and where its handler is
  turn,         \* event |-> where its response task is
  turnSession,  \* event |-> the session of its running turn, or 0
  content,      \* event |-> the content of its response, until it is sent
  map,          \* chat |-> its session in session_map.json, 0 for none
  exists,       \* the sessions that exist
  active,       \* _active_transport_sessions
  sent,         \* history: message |-> what its chat was sent for it
  blamed,       \* history: messages with an expired entry, or a text not sent
  faults        \* bounded: entries expired and sessions deleted

transportVars == <<mainLoop, task, runs, alive, thread, channel, stopping>>
handlerVars == <<seen, events, sent, blamed>>
serviceVars == <<turn, turnSession, content, map, exists, active>>
channelVars == <<transportVars, handlerVars, serviceVars, faults>>

MessageOf(e) == events[e].message
Handler(e, place) == events[e].place = place
Goes(e, place) == events' = [events EXCEPT ![e].place = place]

-----------------------------------------------------------------------------
(* start, also from test_feishu_setup.                                     *)
Start ==
  /\ task = 0 \/ task \notin alive
  /\ runs < MaxTransports
  /\ mainLoop' = TRUE /\ runs' = runs + 1 /\ task' = runs'
  /\ alive' = alive \cup {runs'}
  /\ thread' = [thread EXCEPT ![runs'] = "starting"]
  /\ UNCHANGED <<channel, stopping, handlerVars, serviceVars, faults>>

(* _run_blocking in its thread.                                            *)
Connect(n) ==
  /\ thread[n] = "starting"
  /\ thread' = [thread EXCEPT ![n] = "connected"]
  /\ channel' = n
  /\ UNCHANGED <<mainLoop, task, runs, alive, stopping, handlerVars, serviceVars, faults>>

(* The SDK comes back, stopped or with an error.                           *)
ThreadEnds(n) ==
  /\ thread[n] \in {"starting", "connected"}
  /\ thread' = [thread EXCEPT ![n] = "over"]
  /\ UNCHANGED <<mainLoop, task, runs, alive, channel, stopping, handlerVars, serviceVars, faults>>

(* The end of _run: whatever _channel is, it is forgotten.                 *)
TransportEnds(n) ==
  /\ n \in alive
  /\ thread[n] = "over" \/ n \in stopping   \* cancelled after ten seconds
  /\ alive' = alive \ {n} /\ channel' = 0
  /\ UNCHANGED <<mainLoop, task, runs, thread, stopping, handlerVars, serviceVars, faults>>

Stop ==
  /\ stopping = {} /\ (task # 0 \/ channel # 0)
  /\ stopping' = {task}
  /\ task' = 0 /\ mainLoop' = FALSE
  /\ UNCHANGED <<runs, alive, thread, channel, handlerVars, serviceVars, faults>>

(* Both waits of stop are over: the SDK was told to stop, the task is      *)
(* done.                                                                   *)
StopEnds ==
  /\ stopping # {} /\ stopping \cap alive = {}
  /\ stopping' = {}
  /\ UNCHANGED <<mainLoop, task, runs, alive, thread, channel, handlerVars, serviceVars, faults>>

-----------------------------------------------------------------------------
(* _handle_message_from_worker: without a loop the event is dropped.  The  *)
(* messages are numbered by their first delivery.                          *)
Deliver(m) ==
  /\ mainLoop /\ \E n \in Run : thread[n] = "connected"
  /\ Len(events) < MaxEvents
  /\ m = 1 \/ \E i \in 1 .. Len(events) : MessageOf(i) = m - 1
  /\ events' = Append(events, [message |-> m, place |-> "scheduled"])
  /\ UNCHANGED <<transportVars, seen, sent, blamed, serviceVars, faults>>

(* _normalize_message: no text, no mention, a chat or user that is not     *)
(* allowed.                                                                *)
Ignore(e) ==
  /\ Handler(e, "scheduled")
  /\ Goes(e, "done")
  /\ UNCHANGED <<transportVars, seen, sent, blamed, serviceVars, faults>>

(* _handle_message up to its first wait: the dedup store.                  *)
Handle(e) ==
  /\ Handler(e, "scheduled")
  /\ \/ /\ MessageOf(e) \in seen
        /\ Goes(e, "done") /\ UNCHANGED <<seen, turn>>
     \/ /\ MessageOf(e) \notin seen
        /\ seen' = seen \cup {MessageOf(e)}
        /\ Goes(e, "waiting") /\ turn' = [turn EXCEPT ![e] = "created"]
  /\ UNCHANGED <<transportVars, sent, blamed, turnSession, content, map, exists, active, faults>>

Expire ==
  /\ faults < MaxFaults
  /\ faults' = faults + 1
  /\ \E m \in seen : seen' = seen \ {m} /\ blamed' = blamed \cup {m}
  /\ UNCHANGED <<transportVars, events, sent, serviceVars>>

(* _send_response: nothing without a channel; otherwise it succeeds or     *)
(* raises.                                                                 *)
Sends(e, text) ==
  /\ channel # 0
  /\ sent' = [sent EXCEPT ![MessageOf(e)] = Append(@, text)]
  /\ UNCHANGED blamed
Silent(e) == channel = 0 /\ blamed' = blamed \cup {MessageOf(e)} /\ UNCHANGED sent
Sent(e, text) == Sends(e, text) \/ Silent(e)

(* A text that cannot be sent: the fallback is tried, and may fail too.    *)
Fallback(e) ==
  /\ channel # 0
  /\ sent' = [sent EXCEPT ![MessageOf(e)] = Append(@, "failed")]
  /\ UNCHANGED blamed
SendFails(e) ==
  /\ \/ Fallback(e)
     \/ blamed' = blamed \cup {MessageOf(e)} /\ UNCHANGED sent
  /\ channel # 0 /\ Goes(e, "done")

Finished(e) == turn[e] = "over"

Acknowledge(e) ==
  /\ Handler(e, "waiting") /\ ~Finished(e)
  /\ \/ Sent(e, "ack") /\ Goes(e, "acknowledged")
     \/ SendFails(e)
  /\ UNCHANGED <<transportVars, seen, serviceVars, faults>>

Respond(e) ==
  /\ Handler(e, "waiting") \/ Handler(e, "acknowledged")
  /\ Finished(e)
  /\ \/ Sent(e, content[e]) /\ Goes(e, "done")
     \/ SendFails(e)
  /\ content' = [content EXCEPT ![e] = "none"]
  /\ UNCHANGED <<transportVars, seen, turn, turnSession, map, exists, active, faults>>

-----------------------------------------------------------------------------
(* The response task: handle_transport_message.                            *)
Returns(e, text) ==
  /\ turn' = [turn EXCEPT ![e] = "over"]
  /\ content' = [content EXCEPT ![e] = text]

(* _lookup_or_create_session: a mapped session must exist.                 *)
Known(chat) == map[chat] # 0
LookupRaises(chat) == Known(chat) /\ map[chat] \notin exists
NewSession == CHOOSE s \in Session : \A c \in Chat : map[c] # s
SessionFor(chat) == IF Known(chat) THEN map[chat] ELSE NewSession
LooksUp(chat) ==
  /\ map' = [map EXCEPT ![chat] = SessionFor(chat)]
  /\ exists' = exists \cup {SessionFor(chat)}

(* variant: a session is taken for the turn without a look at who has it.   *)
ProcessAnyway(e) ==
  LET chat == ChatOf[MessageOf(e)] IN
  /\ turn[e] = "created" /\ ~LookupRaises(chat)
  /\ LooksUp(chat)
  /\ active' = active \cup {SessionFor(chat)}
  /\ turnSession' = [turnSession EXCEPT ![e] = SessionFor(chat)]
  /\ turn' = [turn EXCEPT ![e] = "running"]
  /\ UNCHANGED <<content, transportVars, handlerVars, faults>>

(* process_transport_message up to its first wait.  A session that has     *)
(* been deleted raises, and raises again in the handler of the exception.  *)
ProcessTransportMessage(e) ==
  LET chat == ChatOf[MessageOf(e)] IN
  /\ turn[e] = "created"
  /\ \/ /\ LookupRaises(chat)
        /\ Returns(e, "failed")
        /\ UNCHANGED <<turnSession, map, exists, active>>
     \/ /\ ~LookupRaises(chat) /\ SessionFor(chat) \in active
        /\ LooksUp(chat) /\ Returns(e, "busy")
        /\ UNCHANGED <<turnSession, active>>
     \/ /\ ~LookupRaises(chat) /\ SessionFor(chat) \notin active
        /\ LooksUp(chat)
        /\ active' = active \cup {SessionFor(chat)}
        /\ turnSession' = [turnSession EXCEPT ![e] = SessionFor(chat)]
        /\ turn' = [turn EXCEPT ![e] = "running"]
        /\ UNCHANGED content
  /\ UNCHANGED <<transportVars, handlerVars, faults>>

(* handle_message comes back or raises; its saves write a session that was *)
(* deleted meanwhile again.                                                *)
TurnEnds(e) ==
  /\ turn[e] = "running"
  /\ active' = active \ {turnSession[e]}
  /\ turnSession' = [turnSession EXCEPT ![e] = 0]
  /\ \E text \in {"answer", "failed"} : Returns(e, text)
  /\ exists' \in {exists, exists \cup {turnSession[e]}}
  /\ UNCHANGED <<transportVars, handlerVars, map, faults>>

DeleteSession ==
  /\ faults < MaxFaults
  /\ faults' = faults + 1
  /\ \E s \in exists : exists' = exists \ {s}
  /\ UNCHANGED <<transportVars, handlerVars, turn, turnSession, content, map, active>>

-----------------------------------------------------------------------------
ChannelInit ==
  /\ mainLoop = FALSE /\ task = 0 /\ runs = 0 /\ alive = {} /\ channel = 0
  /\ stopping = {}
  /\ thread = [n \in Run |-> "none"]
  /\ seen = {} /\ events = <<>> /\ blamed = {}
  /\ sent = [m \in Message |-> <<>>]
  /\ turn = [e \in Event |-> "none"]
  /\ turnSession = [e \in Event |-> 0]
  /\ content = [e \in Event |-> "none"]
  /\ map = [c \in Chat |-> 0] /\ exists = {} /\ active = {}
  /\ faults = 0

ChannelNext ==
  \/ Start \/ Stop \/ StopEnds
  \/ \E n \in Run : Connect(n) \/ ThreadEnds(n) \/ TransportEnds(n)
  \/ \E m \in Message : Deliver(m)
  \/ \E e \in 1 .. Len(events) :
       Ignore(e) \/ Handle(e) \/ Acknowledge(e) \/ Respond(e) \/ ProcessTransportMessage(e) \/ TurnEnds(e)
  \/ Expire \/ DeleteSession

ChannelSpec == ChannelInit /\ [][ChannelNext]_channelVars

-----------------------------------------------------------------------------
Verdicts(m) == {i \in 1 .. Len(sent[m]) : sent[m][i] # "ack"}

(* A message gets one verdict, an answer, a refusal or an apology, however *)
(* often its event is delivered, before or after the acknowledgement, and  *)
(* the acknowledgement comes first and once; a message whose handling is   *)
(* over has it, unless its entry in the dedup store expired or a text      *)
(* found no transport (feishu_transport.py, _handle_message).              *)
OneVerdict ==
  \A m \in Message \ blamed :
    /\ Len(sent[m]) <= 2 /\ \A i, j \in Verdicts(m) : i = j
    /\ Len(sent[m]) = 2 => sent[m][1] = "ack"
    /\ (\E e \in 1 .. Len(events) :
          MessageOf(e) = m /\ Handler(e, "done") /\ turn[e] # "none")
         => Verdicts(m) # {}

(* The turns that run at a time have sessions of their own, each the       *)
(* session of its message's chat, which two first messages at once share,  *)
(* and an active entry that is theirs (service.py,                         *)
(* process_transport_message).                                             *)
OneTurnPerChat ==
  /\ \A d, e \in Event :
       turn[d] = "running" /\ turn[e] = "running" /\ turnSession[d] = turnSession[e] => d = e
  /\ \A e \in Event :
       turn[e] = "running" =>
         turnSession[e] \in active /\ turnSession[e] = map[ChatOf[MessageOf(e)]]
  /\ \A s \in active : \E e \in Event : turn[e] = "running" /\ turnSession[e] = s
  /\ \A c, d \in Chat : map[c] = map[d] /\ Known(c) => c = d

(* Messages of a chat are served one at a time, in its session, and each   *)
(* once.                                                                   *)
ChatsAreServed == OneVerdict /\ OneTurnPerChat

-----------------------------------------------------------------------------
(* The inductive invariant behind ChatsAreServed.  While nothing of a      *)
(* message is to blame it has one handler at most that got past the dedup  *)
(* store, and what its chat was sent tells how far that one is.            *)
ChannelTypeOK ==
  /\ events \in Seq([message : Message, place : {"scheduled", "waiting", "acknowledged", "done"}])
  /\ Len(events) <= MaxEvents
  /\ seen \subseteq Message /\ blamed \subseteq Message
  /\ DOMAIN sent = Message
  /\ turn \in [Event -> {"none", "created", "running", "over"}]
  /\ turnSession \in [Event -> Session \cup {0}]
  /\ content \in [Event -> Text \cup {"none"}]
  /\ map \in [Chat -> Session \cup {0}]
  /\ active \subseteq Session

Handled(e) == turn[e] # "none"

HandlersArePlaced ==
  \A e \in Event :
    /\ Handled(e) => e \in 1 .. Len(events)
    /\ e \in 1 .. Len(events) =>
         /\ Handler(e, "scheduled") => ~ Handled(e)
         /\ Handler(e, "waiting") \/ Handler(e, "acknowledged") =>
              Handled(e) /\ (Finished(e) => content[e] \in Text \ {"ack"})

HandledOnce ==
  /\ \A e \in Event : Handled(e) => MessageOf(e) \in seen \cup blamed
  /\ \A d, e \in Event :
       Handled(d) /\ Handled(e) /\ MessageOf(d) = MessageOf(e) /\ MessageOf(e) \notin blamed => d = e

SentSoFar(e) ==
  LET said == sent[MessageOf(e)] IN
  CASE Handler(e, "waiting") -> said = << >>
    [] Handler(e, "acknowledged") -> said = <<"ack">>
    [] OTHER -> \E text \in Text \ {"ack"} : said = <<text>> \/ said = <<"ack", text>>

SentInOrder ==
  /\ \A e \in Event : Handled(e) /\ MessageOf(e) \notin blamed => SentSoFar(e)
  /\ \A m \in Message \ blamed :
       sent[m] # << >> => \E e \in Event : Handled(e) /\ MessageOf(e) = m

ChannelInv ==
  /\ ChannelTypeOK /\ HandlersArePlaced /\ HandledOnce /\ SentInOrder
  /\ OneTurnPerChat
=============================================================================
