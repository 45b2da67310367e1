------------------------------ MODULE Approvals ------------------------------
(***************************************************************************)
(* Approvals: tool calls that ask the user before they run, the answers,   *)
(* their deadline, the cancellation of the turn that waits, and the grants *)
(* to run a terminal command once without its sandbox (tools/approval.py,  *)
(* tools/approval_policy.py, tools/orchestrator.py, runtime/retry_policy.py*)
(* sandbox/approval_tokens.py, api/routes/approvals.py).                   *)
(*                                                                         *)
(* A call asks at most twice, once before it runs and once when the        *)
(* sandbox has stopped it, so a request is a pair of a call and a stage.   *)
(* Everything runs in one event loop: an action is the code between two    *)
(* suspension points.  Emitting an event suspends, so answers and          *)
(* cancellations also arrive before the call waits and after it has        *)
(* stopped waiting.                                                        *)
(***************************************************************************)
EXTENDS Integers, FiniteSets

CONSTANTS
  Call,          \* tool calls, of any turns
  Tool,          \* what the policy sees of tools and their arguments
  Turn,          \* what it sees of turns and settings
  MaxResolved,   \* MAX_RESOLVED_APPROVALS
  MaxTokens,     \* max_tokens
  MaxRetries,    \* tool_retry_attempts
  None           \* no tool, no turn

ToolFacts == [terminal : BOOLEAN,     \* the tool is terminal
              outside : BOOLEAN,      \* a path check or the blacklist refuses it
              mutating : BOOLEAN,     \* the command is not known to be read-only
              risky : BOOLEAN,        \* a reason is among the level 2 patterns
              confirmable : BOOLEAN,  \* approval_behavior
              forced : BOOLEAN]       \* force_user_confirmation

TurnFacts == [auto : BOOLEAN,         \* turn_approval_mode = auto_allow
              unattended : BOOLEAN,   \* scheduler_run_mode
              full : BOOLEAN]         \* allow_automatic_full_access

ASSUME ConstantsAssumption ==
  /\ Tool \subseteq ToolFacts /\ Turn \subseteq TurnFacts
  /\ None \notin Tool /\ None \notin Turn
  /\ MaxResolved \in Nat \ {0} /\ MaxTokens \in Nat \ {0} /\ MaxRetries \in Nat

ASSUME CallAssumption == IsFiniteSet(Call)

Stage == {"preflight", "sandbox"}
Request == Call \X Stage
Answer == {"yes", "no"}

VARIABLES
  place,      \* where a call is suspended
  stage,      \* the request it is about, once it has one
  tool, turn, \* what it calls and in which turn, once it has begun
  attempt,    \* executions so far
  pending,    \* _pending
  future,     \* of a request: none, open, yes, no, cancelled
  resolved,   \* _resolved: of a request, the answer or none
  verdict,    \* what wait gave the call, or the call made of its failure
  token,      \* of a call: none, live, expired, consumed
  told,       \* auxiliary: what clients have been told of a request
  heard,      \* auxiliary: the first answer a client was told while the call listened
  evicted,    \* auxiliary: requests whose resolution has been evicted
  orphaned    \* auxiliary: requests whose call ended before it waited

frameVars == <<stage, tool, turn, attempt, verdict, heard>>
managerVars == <<pending, future, resolved, evicted>>
vars == <<place, frameVars, managerVars, token, told, orphaned>>

-----------------------------------------------------------------------------
(* ApprovalPolicy.evaluate.                                                *)
Denied(t) == t.outside

AllowedSilently(t, n) ==
  \/ t.terminal /\ ~ t.mutating
  \/ ~ t.confirmable /\ ~ t.risky
  \/ n.auto /\ ~ t.forced

Asks(t, n) == ~ Denied(t) /\ ~ AllowedSilently(t, n)

(* RetryPolicy.should_retry.                                               *)
ShouldRetry(c) == attempt[c] <= MaxRetries

Mine(c) == <<c, stage[c]>>

-----------------------------------------------------------------------------
(* ApprovalManager.                                                        *)
IsResolved(r) == resolved[r] # "none"
Remembered(res) == {r \in Request : res[r] # "none"}

(* list_pending, of all sessions.                                          *)
Listed == {r \in pending : ~ IsResolved(r)}

(* create.                                                                 *)
Create(r) ==
  /\ pending' = pending \cup {r}
  /\ future' = [future EXCEPT ![r] = "open"]
  /\ UNCHANGED <<resolved, evicted>>

(* _remember_resolved: one more than MaxResolved drops the oldest, by the  *)
(* wall clock; here, any other one.                                        *)
Remember(r, answer) ==
  LET all == [resolved EXCEPT ![r] = answer] IN
  IF Cardinality(Remembered(all)) <= MaxResolved
  THEN resolved' = all /\ UNCHANGED evicted
  ELSE \E o \in Remembered(all) \ {r} :
         /\ resolved' = [all EXCEPT ![o] = "none"]
         /\ evicted' = evicted \cup {o}

(* resolve, of a request that is pending.                                  *)
Resolve(r, answer) ==
  /\ Remember(r, answer)
  /\ future' = [future EXCEPT ![r] = IF @ = "open" THEN answer ELSE @]
  /\ UNCHANGED pending

(* discard, by the only one who knows the future; the answer is "none"     *)
(* when the caller gives none.                                             *)
Discard(r, answer) ==
  /\ pending' = pending \ {r}
  /\ IF r \in pending /\ answer # "none" /\ ~ IsResolved(r)
     THEN Remember(r, answer)
     ELSE UNCHANGED <<resolved, evicted>>
  /\ future' = [future EXCEPT ![r] = "none"]

-----------------------------------------------------------------------------
(* EscalationTokenStore: the tokens in its dictionary.                     *)
Kept(tk) == {c \in Call : tk[c] # "none"}

(* _purge_locked.                                                          *)
Purged(tk) == [c \in Call |-> IF tk[c] = "expired" THEN "none" ELSE tk[c]]

(* _evict_consumed_for_capacity_locked: at most one has to go.             *)
Evicted(tk) ==
  IF Cardinality(Kept(tk)) < MaxTokens \/ \A c \in Call : tk[c] # "consumed" THEN {tk}
  ELSE {[tk EXCEPT ![c] = "none"] : c \in {d \in Call : tk[d] = "consumed"}}

(* issue: what the store may be before the token is put into it.           *)
Rooms == Evicted(Purged(token))
HasRoom(tk) == Cardinality(Kept(tk)) < MaxTokens

(* consume, by the call that the token is bound to.                        *)
CanConsume(c) == token[c] = "live"

Consume(c) == token' = [Purged(token) EXCEPT ![c] = "consumed"]

ConsumeFails(c) == token' = [token EXCEPT ![c] = "none"]

-----------------------------------------------------------------------------
Init ==
  /\ place = [c \in Call |-> "idle"] /\ stage = [c \in Call |-> "preflight"]
  /\ tool = [c \in Call |-> None] /\ turn = [c \in Call |-> None]
  /\ attempt = [c \in Call |-> 0]
  /\ pending = {} /\ future = [r \in Request |-> "none"] /\ resolved = [r \in Request |-> "none"]
  /\ verdict = [r \in Request |-> "none"]
  /\ token = [c \in Call |-> "none"]
  /\ told = [r \in Request |-> {}] /\ heard = [r \in Request |-> "none"]
  /\ evicted = {} /\ orphaned = {}

GoTo(c, where) == place' = [place EXCEPT ![c] = where] /\ UNCHANGED frameVars

(* The call ends with a result or an exception; its locals end with it.    *)
End(c) ==
  /\ place' = [place EXCEPT ![c] = "done"]
  /\ stage' = [stage EXCEPT ![c] = "preflight"]
  /\ attempt' = [attempt EXCEPT ![c] = 0]
  /\ tool' = [tool EXCEPT ![c] = None] /\ turn' = [turn EXCEPT ![c] = None]
  /\ verdict' = [r \in Request |-> IF r[1] = c THEN "none" ELSE verdict[r]]
  /\ heard' = [r \in Request |-> IF r[1] = c THEN "none" ELSE heard[r]]

(* _run_tool_once begins.                                                  *)
Execute(c) ==
  /\ place' = [place EXCEPT ![c] = "running"]
  /\ attempt' = [attempt EXCEPT ![c] = @ + 1]
  /\ UNCHANGED <<stage, tool, turn, verdict, heard>>

(* execute: the policy decides; a request is created and announced.        *)
Begin(c) ==
  /\ place[c] = "idle"
  /\ \E t \in Tool, n \in Turn :
       \/ /\ Denied(t) /\ End(c) /\ UNCHANGED managerVars
       \/ /\ ~ Denied(t)
          /\ tool' = [tool EXCEPT ![c] = t] /\ turn' = [turn EXCEPT ![c] = n]
          /\ UNCHANGED <<stage, verdict, heard>>
          /\ \/ /\ AllowedSilently(t, n) /\ UNCHANGED managerVars
                /\ place' = [place EXCEPT ![c] = "running"]
                /\ attempt' = [attempt EXCEPT ![c] = 1]
             \/ /\ Asks(t, n) /\ Create(Mine(c)) /\ UNCHANGED attempt
                /\ place' = [place EXCEPT ![c] = "asking"]
  /\ UNCHANGED <<token, told, orphaned>>

(* The wait is over: the request is discarded and the verdict announced.   *)
Decide(c, answer) ==
  /\ verdict' = [verdict EXCEPT ![Mine(c)] = answer]
  /\ Discard(Mine(c), answer)
  /\ place' = [place EXCEPT ![c] = "reporting"]
  /\ UNCHANGED <<stage, tool, turn, attempt, heard, token, told, orphaned>>

(* variant: the future is made anew when the wait begins *)
AnnouncedAfresh(c) ==
  /\ place[c] = "asking"
  /\ future' = [future EXCEPT ![Mine(c)] = "open"]
  /\ GoTo(c, "waiting") /\ UNCHANGED <<pending, resolved, evicted, token, told, orphaned>>

(* The request has been announced.  Nobody attends to a scheduled task:    *)
(* its request is refused at once.                                         *)
Announced(c) ==
  /\ place[c] = "asking"
  /\ IF turn[c].unattended THEN Decide(c, "no")
     ELSE GoTo(c, "waiting") /\ UNCHANGED <<managerVars, token, told, orphaned>>

(* wait returns the answer, which may have come before it was called.      *)
Wake(c) ==
  /\ place[c] = "waiting" /\ future[Mine(c)] \in Answer
  /\ Decide(c, future[Mine(c)])

(* variant: the wait for the sandbox's request has no deadline             *)
TimesOutPreflight(c) ==
  /\ place[c] = "waiting" /\ future[Mine(c)] = "open"
  /\ stage[c] = "preflight"
  /\ future' = [future EXCEPT ![Mine(c)] = "cancelled"]
  /\ GoTo(c, "timingOut")
  /\ UNCHANGED <<pending, resolved, evicted, token, told, orphaned>>

(* wait_for's deadline: it cancels the future and gives the loop one turn  *)
(* before it raises.  The token has been issued before the wait began,     *)
(* with the same time to live.                                             *)
TimesOut(c) ==
  /\ place[c] = "waiting" /\ future[Mine(c)] = "open"
  /\ stage[c] = "sandbox" => token[c] \in {"expired", "none"}
  /\ future' = [future EXCEPT ![Mine(c)] = "cancelled"]
  /\ GoTo(c, "timingOut")
  /\ UNCHANGED <<pending, resolved, evicted, token, told, orphaned>>

(* variant: a request that was resolved meanwhile goes by its resolution   *)
TimedOutLooking(c) ==
  /\ place[c] = "timingOut"
  /\ Decide(c, IF IsResolved(Mine(c)) THEN resolved[Mine(c)] ELSE "no")

TimedOut(c) == place[c] = "timingOut" /\ Decide(c, "no")

(* The resolution has been announced; an escalation that is granted        *)
(* consumes its token.                                                     *)
Reported(c) ==
  /\ place[c] = "reporting"
  /\ \/ verdict[Mine(c)] = "no" /\ End(c) /\ UNCHANGED token
     \/ verdict[Mine(c)] = "yes" /\ stage[c] = "preflight" /\ Execute(c)
        /\ UNCHANGED token
     \/ verdict[Mine(c)] = "yes" /\ stage[c] = "sandbox" /\ CanConsume(c)
        /\ Consume(c) /\ GoTo(c, "escalating")
     \/ verdict[Mine(c)] = "yes" /\ stage[c] = "sandbox" /\ ~ CanConsume(c)
        /\ ConsumeFails(c) /\ End(c)
  /\ UNCHANGED <<managerVars, told, orphaned>>

-----------------------------------------------------------------------------
(* The tool ends, with an error its sandbox has nothing to do with or      *)
(* without one.                                                            *)
Finish(c) ==
  /\ place[c] = "running"
  /\ \/ End(c)
     \/ ShouldRetry(c) /\ GoTo(c, "backoff")
  /\ UNCHANGED <<managerVars, token, told, orphaned>>

Retry(c) ==
  /\ place[c] = "backoff" /\ Execute(c)
  /\ UNCHANGED <<managerVars, token, told, orphaned>>

(* _maybe_run_sandbox_escalation: nobody may be asked.                     *)
EscalationDenied(c) ==
  /\ place[c] = "running" /\ tool[c].terminal
  /\ turn[c].unattended \/ (turn[c].auto /\ ~ turn[c].full)
  /\ End(c)
  /\ UNCHANGED <<managerVars, token, told, orphaned>>

(* The settings answer for the user; the token is issued and consumed.     *)
EscalatesAutomatically(c) ==
  /\ place[c] = "running" /\ tool[c].terminal
  /\ ~ turn[c].unattended /\ turn[c].auto /\ turn[c].full
  /\ \E tk \in Rooms :
       IF HasRoom(tk)
       THEN /\ token' = [tk EXCEPT ![c] = "consumed"]
            /\ GoTo(c, "escalating")
       ELSE token' = tk /\ End(c)
  /\ UNCHANGED <<managerVars, told, orphaned>>

(* The user is asked.  The request is pending before a token is issued; a  *)
(* store at its capacity raises, and the request stays.                    *)
EscalationAsks(c) ==
  /\ place[c] = "running" /\ tool[c].terminal
  /\ ~ turn[c].unattended /\ ~ turn[c].auto
  /\ Create(<<c, "sandbox">>)
  /\ \E tk \in Rooms :
       IF HasRoom(tk)
       THEN /\ token' = [tk EXCEPT ![c] = "live"]
            /\ stage' = [stage EXCEPT ![c] = "sandbox"]
            /\ place' = [place EXCEPT ![c] = "asking"]
            /\ UNCHANGED <<tool, turn, attempt, verdict, heard, orphaned>>
       ELSE /\ token' = tk /\ End(c)
            /\ orphaned' = orphaned \cup {<<c, "sandbox">>}
  /\ UNCHANGED told

(* _run_escalated_tool_once, after its announcement: one run, whatever its *)
(* result is.                                                              *)
Escalated(c) ==
  /\ place[c] \in {"escalating", "unsandboxed"}
  /\ IF place[c] = "escalating" THEN GoTo(c, "unsandboxed")
     ELSE End(c)
  /\ UNCHANGED <<managerVars, token, told, orphaned>>

-----------------------------------------------------------------------------
(* The turn is stopped: CancelledError at the suspension point.  A call    *)
(* that waits discards its request; while it is announced nobody does.     *)
(* Before Python 3.12 a wait whose future is done drops the cancellation:  *)
(* then this step is not taken.                                            *)
Stop(c) ==
  /\ \/ /\ place[c] = "asking" /\ orphaned' = orphaned \cup {Mine(c)}
        /\ UNCHANGED managerVars
     \/ /\ place[c] \in {"waiting", "timingOut"} /\ Discard(Mine(c), "none")
        /\ UNCHANGED orphaned
     \/ /\ place[c] \in {"reporting", "running", "backoff", "escalating", "unsandboxed"}
        /\ UNCHANGED <<managerVars, orphaned>>
  /\ End(c)
  /\ UNCHANGED <<token, told>>

(* The call of r will still look at its future.                            *)
Listens(r) ==
  /\ stage[r[1]] = r[2] /\ place[r[1]] \in {"asking", "waiting"}
  /\ ~ turn[r[1]].unattended

Tell(r, answer) ==
  /\ told' = [told EXCEPT ![r] = @ \cup {answer}]
  /\ heard' = [heard EXCEPT ![r] = IF @ = "none" /\ Listens(r) THEN answer ELSE @]
  /\ UNCHANGED <<place, stage, tool, turn, attempt, verdict, token, orphaned>>

(* approve and reject, also of the requests of subagents: what has been    *)
(* resolved is told again, an unknown request is an error.                 *)
Respond(r, answer) ==
  \/ IsResolved(r) /\ Tell(r, resolved[r]) /\ UNCHANGED managerVars
  \/ ~ IsResolved(r) /\ r \in pending /\ Resolve(r, answer) /\ Tell(r, answer)

(* A token's time to live passes, or its retention after its use.          *)
TokenAges(c) ==
  /\ token[c] \in {"live", "consumed"}
  /\ token' = [token EXCEPT ![c] = "expired"]
  /\ UNCHANGED <<place, frameVars, managerVars, told, orphaned>>

-----------------------------------------------------------------------------
CallStep(c) ==
  \/ Begin(c) \/ Announced(c) \/ Wake(c) \/ TimesOut(c) \/ TimedOut(c) \/ Reported(c)
  \/ Finish(c) \/ Retry(c)
  \/ EscalationDenied(c) \/ EscalatesAutomatically(c) \/ EscalationAsks(c)
  \/ Escalated(c)

Next ==
  \/ \E c \in Call : CallStep(c) \/ Stop(c) \/ TokenAges(c)
  \/ \E r \in Request, answer \in Answer : Respond(r, answer)

(* The event loop runs what is ready, tools end and time passes.  Users    *)
(* owe no answers.                                                         *)
Fairness == \A c \in Call : WF_vars(CallStep(c)) /\ WF_vars(TokenAges(c))

Spec == Init /\ [][Next]_vars /\ Fairness

-----------------------------------------------------------------------------
(* What needs an approval runs after a client has been told "approved" of  *)
(* that very request while the call listened; a terminal command runs      *)
(* without its sandbox after a yes to the second request, or because the   *)
(* settings say so; neither ever happens when nobody attends.              *)
RunsWithConsent ==
  \A c \in Call :
    /\ place[c] \in {"running", "backoff", "escalating", "unsandboxed"} /\ Asks(tool[c], turn[c])
         => heard[<<c, "preflight">>] = "yes" /\ ~ turn[c].unattended
    /\ place[c] \in {"escalating", "unsandboxed"}
         => /\ ~ turn[c].unattended
            /\ heard[<<c, "sandbox">>] = "yes" \/ (turn[c].auto /\ turn[c].full)

(* What a client has been told while the call listened is what the call    *)
(* goes by: no deadline, second answer or forgotten resolution gets in     *)
(* between.                                                                *)
AnswerHeeded ==
  \A r \in Request : verdict[r] # "none" /\ heard[r] # "none" => verdict[r] = heard[r]

(* No two clients are told different things of one request, however late   *)
(* they ask and whatever the call has made of it, as long as it is         *)
(* remembered.                                                             *)
OneAnswer == \A r \in Request \ evicted : Cardinality(told[r]) <= 1

(* A request that is listed as pending has a call behind it, unless that   *)
(* has ended before it began to wait.                                      *)
ListedIsAwaited ==
  \A r \in Listed \ orphaned :
    stage[r[1]] = r[2] /\ place[r[1]] \in {"asking", "waiting", "timingOut"}

(* What clients see and are told of a request is so: it is listed while a  *)
(* call asks, and the answer is the one the call acts on.                  *)
AnswersAreTrue == AnswerHeeded /\ OneAnswer /\ ListedIsAwaited

(* A grant is used or runs out; a full store never drops it.               *)
GrantIsKept ==
  [][\A c \in Call : token[c] = "live" => token'[c] \in {"live", "expired", "consumed"}]_vars

(* Every call ends, answered or not.                                       *)
CallEnds == \A c \in Call : place[c] # "idle" ~> place[c] = "done"

-----------------------------------------------------------------------------
TypeOK ==
  /\ place \in [Call -> {"idle", "asking", "waiting", "timingOut", "reporting", "running",
                         "backoff", "escalating", "unsandboxed", "done"}]
  /\ stage \in [Call -> Stage]
  /\ tool \in [Call -> Tool \cup {None}] /\ turn \in [Call -> Turn \cup {None}]
  /\ attempt \in [Call -> 0 .. MaxRetries + 1]
  /\ pending \subseteq Request
  /\ future \in [Request -> {"none", "open", "yes", "no", "cancelled"}]
  /\ resolved \in [Request -> {"none"} \cup Answer]
  /\ verdict \in [Request -> {"none"} \cup Answer]
  /\ token \in [Call -> {"none", "live", "expired", "consumed"}]
  /\ told \in [Request -> SUBSET Answer]
  /\ heard \in [Request -> {"none"} \cup Answer]
  /\ evicted \subseteq Request /\ orphaned \subseteq Request

Asking == {"asking", "waiting", "timingOut"}

(* The locals of a call agree with where it is.                            *)
CallIsWhole(c) ==
  /\ place[c] \in {"idle", "done"} =>
       /\ stage[c] = "preflight" /\ attempt[c] = 0
       /\ \A s \in Stage : heard[<<c, s>>] = "none" /\ verdict[<<c, s>>] = "none"
  /\ place[c] \notin {"idle", "done"} => tool[c] \in Tool /\ turn[c] \in Turn
  /\ place[c] \in Asking \cup {"reporting"} /\ stage[c] = "preflight"
       => Asks(tool[c], turn[c]) /\ attempt[c] = 0
  /\ place[c] \in {"running", "backoff"} => stage[c] = "preflight"
  /\ place[c] = "backoff" => attempt[c] <= MaxRetries
  /\ place[c] \in {"waiting", "timingOut"} => ~ turn[c].unattended
  /\ place[c] = "reporting" =>
       /\ verdict[Mine(c)] \in Answer
       /\ verdict[Mine(c)] = "yes" => heard[Mine(c)] = "yes" /\ ~ turn[c].unattended

(* The first request is over when there is a second one, and a request     *)
(* that has not been created is unknown.                                   *)
StagesInOrder(c) ==
  /\ stage[c] = "preflight" =>
       heard[<<c, "sandbox">>] = "none" /\ verdict[<<c, "sandbox">>] = "none"
  /\ stage[c] = "sandbox" =>
       /\ ~ turn[c].unattended
       /\ Asks(tool[c], turn[c]) => heard[<<c, "preflight">>] = "yes"
  /\ place[c] = "idle" => <<c, "preflight">> \notin pending /\ ~ IsResolved(<<c, "preflight">>)
  /\ place[c] # "done" /\ stage[c] = "preflight"
       => <<c, "sandbox">> \notin pending /\ ~ IsResolved(<<c, "sandbox">>)

(* While a call asks, its request is pending and its future says what has  *)
(* been heard.                                                             *)
FutureTells(c) ==
  place[c] \in Asking =>
    /\ Mine(c) \in pending /\ verdict[Mine(c)] = "none"
    /\ turn[c].unattended \/ place[c] = "timingOut" => heard[Mine(c)] = "none"
    /\ ~ turn[c].unattended /\ place[c] # "timingOut" =>
         /\ future[Mine(c)] = IF heard[Mine(c)] = "none" THEN "open" ELSE heard[Mine(c)]
         /\ heard[Mine(c)] = "none" => ~ IsResolved(Mine(c))

(* A request that is pending has a call behind it or is orphaned.          *)
PendingIsAwaited ==
  \A r \in pending \ orphaned : stage[r[1]] = r[2] /\ place[r[1]] \in Asking

(* What has been told is what is remembered.                               *)
ToldIsResolved ==
  \A r \in Request \ evicted : told[r] \subseteq {resolved[r]} \ {"none"}

IInv ==
  /\ TypeOK /\ \A c \in Call : CallIsWhole(c) /\ StagesInOrder(c) /\ FutureTells(c)
  /\ PendingIsAwaited /\ ToldIsResolved /\ RunsWithConsent /\ AnswerHeeded

=============================================================================
