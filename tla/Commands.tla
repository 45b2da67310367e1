------------------------------ MODULE Commands ------------------------------
(***************************************************************************)
(* Tool calls that run a command: the terminal tool (tools/impl/terminal)  *)
(* and the commands of plugins (tools/impl/plugin_cli), through            *)
(* sandbox/process and sandbox/native_sandbox, under the retries and the   *)
(* time limit of tools/orchestrator.                                       *)
(*                                                                         *)
(* With bwrap, or with no sandbox at all, NativeSandbox runs the command   *)
(* and kills it when the call is cancelled.  With another provider         *)
(* (Landlock, Seatbelt) SandboxProcessRunner runs it: a cancelled call     *)
(* frees what the provider prepared and leaves the process to itself.      *)
(*                                                                         *)
(* A file is the number of times that it was written, 0 when it is not     *)
(* there.  A helper is a process the command leaves in the background: it  *)
(* keeps the command's pipes open.  In bwrap it ends with the command. The *)
(* limit of a terminal call, and of a command under a provider, is that of *)
(* its run, and set before it: only a plugin's command in the native       *)
(* sandbox meets the sandbox's own limit first.                            *)
(***************************************************************************)
EXTENDS Naturals, Functions

CONSTANTS
  Call,         \* tool calls
  Terminal,     \* those of the terminal tool; the others are a plugin's
  CommandFile,  \* files a command may write and a call may report
  Output,       \* those below the turn's output directory; a command names the others
  MaxRetries,   \* runtime.tool_retry_attempts
  MaxWrites     \* bound: writes

ASSUME CommandAssumption == Terminal \subseteq Call /\ Output \subseteq CommandFile

VARIABLES
  runner,    \* what runs commands: "none", "bwrap", "landlock" or "seatbelt"
  probe,     \* what the functional probe found, or "unknown"
  files,     \* file |-> times written
  stage,     \* call |-> where it is
  part,      \* call |-> "status", the preflight of a plugin's command, or "command"
  attempt,   \* call |-> attempts made
  process,   \* call |-> its process: "none", "alive" or "gone"
  helper,    \* call |-> a helper of this attempt runs
  stray,     \* call |-> a process of a call cut short runs on
  before,    \* call |-> the files when the attempt began
  wrote,     \* terminal call |-> files that the attempt wrote
  reported,  \* call |-> output_files of the result
  result,    \* call |-> what came of the attempt
  temp       \* call |-> a private directory of it: "none", "held" or, never removed, "lost"

callVars == <<part, attempt, before, reported>>
worldVars == <<probe, files, wrote>>
processVars == <<process, helper, stray>>
commandVars == <<runner, stage, result, temp, callVars, worldVars, processVars>>

Native == runner \in {"none", "bwrap"}
Over == {"backoff", "answered", "interrupted"}
Streams(c) == Native /\ part[c] = "command"   \* the others collect: communicate()

GoTo(c, s) == stage' = [stage EXCEPT ![c] = s]
Result(c, r) == result' = [result EXCEPT ![c] = r]

(* classify_result and the results' own flags: a native run is tried again *)
(* after a failure of the command or a timeout, a provider's after any.    *)
Retryable(r) ==
  IF Native THEN r \in {"failed", "timeout"} ELSE r \notin {"success", "refused"}

-----------------------------------------------------------------------------
(* _collect_output_candidates: what the command names, and the files in    *)
(* the turn's output directory.                                            *)
OutputCandidates(now) == {f \in CommandFile : f \in Output => now[f] > 0}

(* _snapshot_files.                                                        *)
Snapshot(now) == [f \in CommandFile |-> IF f \in OutputCandidates(now) THEN now[f] ELSE 0]

(* _record_output_files: candidates of before and of now that are there    *)
(* and are not what they were.                                             *)
OutputFiles(was, now) ==
  {f \in OutputCandidates(was) \cup OutputCandidates(now) : now[f] > 0 /\ now[f] # was[f]}

(* should_retry.                                                           *)
AfterAttempt(c, r) ==
  GoTo(c, IF Retryable(r) /\ attempt[c] <= MaxRetries THEN "backoff" ELSE "answered")

(* An attempt ends with a result of its own: _execute_command records what *)
(* it wrote.                                                               *)
EndsWith(c, r) ==
  /\ AfterAttempt(c, r) /\ Result(c, r)
  /\ reported' = [reported EXCEPT ![c] =
       IF c \in Terminal THEN OutputFiles(before[c], files) ELSE {}]
  /\ UNCHANGED <<part, attempt, before>>

(* A run ends; after a look at the user's login the plugin's command goes  *)
(* on.                                                                     *)
RunEnds(c, r) ==
  IF part[c] = "status" /\ r = "success"
  THEN GoTo(c, "checked") /\ Result(c, r) /\ UNCHANGED callVars
  ELSE EndsWith(c, r)

(* An attempt raises: wait_for's timeout or an exception is the result,    *)
(* and no files are recorded; an interrupt leaves none.                    *)
Raises(c, r) ==
  /\ IF r = "interrupt" THEN GoTo(c, "interrupted") ELSE AfterAttempt(c, r)
  /\ Result(c, r)
  /\ reported' = [reported EXCEPT ![c] = {}]
  /\ UNCHANGED <<part, attempt, before>>

-----------------------------------------------------------------------------
(* _functional_probe: run once.                                            *)
FunctionalProbe ==
  IF probe = "unknown" THEN probe' \in {"ok", "failed"} ELSE UNCHANGED probe

(* What an attempt of a call starts with.                                  *)
Begins(c, p) ==
  /\ part' = [part EXCEPT ![c] = p]
  /\ before' = [before EXCEPT ![c] = IF c \in Terminal THEN Snapshot(files) ELSE @]
  /\ wrote' = [wrote EXCEPT ![c] = {}]
  /\ process' = [process EXCEPT ![c] = "none"]
  /\ helper' = [helper EXCEPT ![c] = FALSE]
  /\ UNCHANGED <<runner, files, stray, reported>>

(* No sandbox can be had: the command does not run, whatever asked for it. *)
Unavailable(c, n) ==
  /\ Result(c, "unavailable")
  /\ GoTo(c, IF ~Native /\ n <= MaxRetries THEN "backoff" ELSE "answered")

NativeSandbox(c, n) ==
  /\ Native /\ UNCHANGED temp
  /\ IF runner = "none" THEN GoTo(c, "starting") /\ UNCHANGED <<probe, result>>
     ELSE FunctionalProbe
          /\ IF probe' = "ok" THEN GoTo(c, "starting") /\ UNCHANGED result
             ELSE Unavailable(c, n)

(* _prepare_provider_invocation: a provider that refuses makes a result.   *)
(* Seatbelt makes its private directory before it looks for conflicts      *)
(* between roots.                                                          *)
PrepareProviderInvocation(c, n) ==
  /\ ~Native /\ FunctionalProbe
  /\ \/ /\ probe' = "ok" /\ GoTo(c, "starting") /\ UNCHANGED result
        /\ temp' = [temp EXCEPT ![c] = IF runner = "seatbelt" THEN "held" ELSE @]
     \/ /\ probe' = "failed" /\ Unavailable(c, n) /\ UNCHANGED temp
     \/ /\ probe' = "ok" /\ runner = "seatbelt" /\ Unavailable(c, n)
        /\ temp' = [temp EXCEPT ![c] = "lost"]

(* execute_shell and execute_argv, the same for a command line and for an  *)
(* argument vector.                                                        *)
ExecuteShell(c, n) == c \in Terminal /\ NativeSandbox(c, n)
ExecuteArgv(c, n) == c \notin Terminal /\ NativeSandbox(c, n)

(* run_shell_tool_result and PluginCLICommandTool._execute_argv.           *)
RunShellToolResult(c, n) == ExecuteShell(c, n) \/ PrepareProviderInvocation(c, n)
RunPluginArgv(c, n) == ExecuteArgv(c, n) \/ PrepareProviderInvocation(c, n)

(* TerminalTool._execute_command up to the run.                            *)
ExecuteCommand(c, n) == c \in Terminal /\ Begins(c, "command") /\ RunShellToolResult(c, n)

(* PluginCLICommandTool._run_preflight: the skill may not have been read,  *)
(* the user's login may have to be looked at first.                        *)
RunPreflight(c, n) ==
  /\ c \notin Terminal
  /\ \/ /\ Begins(c, "command") /\ Result(c, "refused") /\ GoTo(c, "answered")
        /\ UNCHANGED <<probe, temp>>
     \/ \E p \in {"status", "command"} : Begins(c, p) /\ RunPluginArgv(c, n)

Attempts(c, n) ==
  /\ attempt' = [attempt EXCEPT ![c] = n]
  /\ ExecuteCommand(c, n) \/ RunPreflight(c, n)

CallTool(c) == stage[c] = "new" /\ Attempts(c, 1)

(* The retry after the backoff.                                            *)
Retries(c) == stage[c] = "backoff" /\ Attempts(c, attempt[c] + 1)

-----------------------------------------------------------------------------
Spawned(c) ==
  /\ process' = [process EXCEPT ![c] = "alive"] /\ GoTo(c, "running")
  /\ UNCHANGED <<runner, result, temp, callVars, worldVars, helper, stray>>

Fails(c, r) ==
  /\ IF r = "error" THEN Raises(c, r) ELSE EndsWith(c, r)
  /\ UNCHANGED <<runner, temp, worldVars, processVars>>

(* _execute_direct and _execute_direct_argv: a process that cannot be made *)
(* is an exception.                                                        *)
ExecuteDirect(c) ==
  c \in Terminal /\ runner = "none" /\ stage[c] = "starting" /\ (Spawned(c) \/ Fails(c, "error"))
ExecuteDirectArgv(c) ==
  c \notin Terminal /\ runner = "none" /\ stage[c] = "starting" /\ (Spawned(c) \/ Fails(c, "error"))

(* _execute_bwrap and _execute_bwrap_argv: it is a failure of the runner.  *)
ExecuteBwrap(c) ==
  c \in Terminal /\ runner = "bwrap" /\ stage[c] = "starting" /\ (Spawned(c) \/ Fails(c, "runner"))
ExecuteBwrapArgv(c) ==
  c \notin Terminal /\ runner = "bwrap" /\ stage[c] = "starting" /\ (Spawned(c) \/ Fails(c, "runner"))

(* The finally of _run_provider_argv: what was prepared is freed.          *)
RunCleanup(c, r) ==
  IF temp[c] = "held" THEN GoTo(c, "cleaning") /\ Result(c, r) /\ UNCHANGED callVars
  ELSE IF r \in {"timeout", "interrupt"} THEN Raises(c, r) ELSE RunEnds(c, r)

(* _run_provider_argv.                                                     *)
RunProviderArgv(c) ==
  /\ ~Native /\ stage[c] = "starting"
  /\ \/ Spawned(c)
     \/ RunCleanup(c, "runner") /\ UNCHANGED <<runner, temp, worldVars, processVars>>

(* _run_cleanup has removed the directory.                                 *)
Cleaned(c) ==
  /\ stage[c] = "cleaning" /\ temp' = [temp EXCEPT ![c] = "none"]
  /\ IF result[c] \in {"timeout", "interrupt"} THEN Raises(c, result[c]) ELSE RunEnds(c, result[c])
  /\ UNCHANGED <<runner, worldVars, processVars>>

-----------------------------------------------------------------------------
(* The processes.                                                          *)
Writes(c, f) ==
  /\ FoldFunction(+, 0, files) < MaxWrites /\ files' = [files EXCEPT ![f] = @ + 1]
  /\ \/ /\ process[c] = "alive" \/ helper[c]
        /\ wrote' = [wrote EXCEPT ![c] = IF c \in Terminal THEN @ \cup {f} ELSE @]
     \/ stray[c] /\ UNCHANGED wrote
  /\ UNCHANGED <<runner, probe, stage, result, temp, callVars, processVars>>

LeavesHelper(c) ==
  /\ process[c] = "alive" /\ runner # "bwrap" /\ ~helper[c]
  /\ helper' = [helper EXCEPT ![c] = TRUE]
  /\ UNCHANGED <<runner, stage, result, temp, callVars, worldVars, process, stray>>

HelperEnds(c) ==
  /\ \/ helper[c] /\ helper' = [helper EXCEPT ![c] = FALSE] /\ UNCHANGED stray
     \/ stray[c] /\ stray' = [stray EXCEPT ![c] = FALSE] /\ UNCHANGED helper
  /\ UNCHANGED <<runner, stage, result, temp, callVars, worldVars, process>>

(* _classify_bwrap_result and _provider_exit_error.                        *)
ExitResults ==
  {"success", "failed"} \cup (IF runner = "none" THEN {} ELSE {"runner"})
    \cup (IF Native THEN {} ELSE {"denied"})

Exits(c) ==
  /\ stage[c] = "running"
  /\ process' = [process EXCEPT ![c] = "gone"]
  /\ \E r \in ExitResults : Result(c, r)
  /\ GoTo(c, "draining")
  /\ UNCHANGED <<runner, temp, callVars, worldVars, helper, stray>>

-----------------------------------------------------------------------------
(* The pipes are at their end: the result is made.                         *)
Drained(c) ==
  /\ stage[c] = "draining" /\ ~helper[c]
  /\ IF Native THEN RunEnds(c, result[c]) ELSE RunCleanup(c, result[c])
  /\ UNCHANGED <<runner, temp, worldVars, processVars>>

(* The login has been looked at: it does not do, or the command runs.      *)
StatusRead(c) ==
  /\ stage[c] = "checked"
  /\ \/ EndsWith(c, "refused") /\ UNCHANGED <<runner, temp, worldVars, processVars>>
     \/ Begins(c, "command") /\ RunPluginArgv(c, attempt[c]) /\ UNCHANGED attempt

(* The sandbox's own limit: the process is killed, its pipes are read to   *)
(* their end.                                                              *)
TimesOut(c) ==
  /\ Native /\ c \notin Terminal
  /\ \/ /\ stage[c] = "running"
        /\ process' = [process EXCEPT ![c] = "gone"] /\ GoTo(c, "stopping")
        /\ Result(c, "timeout") /\ UNCHANGED callVars
     \/ /\ stage[c] = "draining" /\ ~Streams(c)
        /\ EndsWith(c, "timeout") /\ UNCHANGED process
  /\ UNCHANGED <<runner, temp, worldVars, helper, stray>>

Stopped(c) ==
  /\ stage[c] = "stopping" /\ ~helper[c]
  /\ EndsWith(c, "timeout")
  /\ UNCHANGED <<runner, temp, worldVars, processVars>>

(* _terminate_streaming_process and _cleanup_process, in the handlers of   *)
(* CancelledError.                                                         *)
Killed(c) == [process EXCEPT ![c] = IF @ = "alive" THEN "gone" ELSE @]

(* variant: no handler, as under a provider *)
CancelWithoutKill(c, why) ==
  /\ Native /\ stage[c] \in {"starting", "running", "draining", "stopping", "aborting"}
  /\ Raises(c, why)
  /\ UNCHANGED <<runner, temp, worldVars, processVars>>

CancelNative(c, why) ==
  /\ Native /\ stage[c] \in {"starting", "running", "draining", "stopping", "aborting"}
  /\ process' = Killed(c)
  /\ IF stage[c] = "running" /\ ~Streams(c) /\ helper[c]
     THEN GoTo(c, "aborting") /\ Result(c, why) /\ UNCHANGED callVars
     ELSE Raises(c, why)
  /\ UNCHANGED <<runner, temp, worldVars, helper, stray>>

(* communicate has come to the end of the pipes, after the kill.           *)
Aborted(c) ==
  /\ stage[c] = "aborting" /\ ~helper[c] /\ Raises(c, result[c])
  /\ UNCHANGED <<runner, temp, worldVars, processVars>>

(* _run_provider_argv has no handler: only its finally runs.               *)
CancelProvider(c, why) ==
  /\ ~Native
  /\ \/ /\ stage[c] \in {"starting", "running", "draining"}
        /\ stray' = [stray EXCEPT ![c] = @ \/ process[c] = "alive" \/ helper[c]]
        /\ process' = Killed(c) /\ helper' = [helper EXCEPT ![c] = FALSE]
        /\ RunCleanup(c, why) /\ UNCHANGED temp
     \/ /\ stage[c] = "cleaning" /\ temp' = [temp EXCEPT ![c] = "none"]
        /\ Raises(c, why) /\ UNCHANGED processVars
  /\ UNCHANGED <<runner, worldVars>>

Cancel(c, why) == CancelNative(c, why) \/ CancelProvider(c, why)

(* wait_for(run, tool.meta.timeout_seconds) in _run_tool_once.             *)
ToolTimesOut(c) == result[c] # "interrupt" /\ stage[c] # "aborting" /\ Cancel(c, "timeout")

(* The turn is interrupted.                                                *)
Interrupt(c) ==
  \/ Cancel(c, "interrupt")
  \/ /\ stage[c] = "backoff" /\ Raises(c, "interrupt")
     /\ UNCHANGED <<runner, temp, worldVars, processVars>>

CommandInit ==
  /\ runner \in {"none", "bwrap", "landlock", "seatbelt"} /\ probe = "unknown"
  /\ files = [f \in CommandFile |-> 0]
  /\ stage = [c \in Call |-> "new"] /\ part = [c \in Call |-> "command"]
  /\ attempt = [c \in Call |-> 0] /\ process = [c \in Call |-> "none"]
  /\ helper = [c \in Call |-> FALSE] /\ stray = [c \in Call |-> FALSE]
  /\ before = [c \in Call |-> [f \in CommandFile |-> 0]] /\ wrote = [c \in Call |-> {}]
  /\ reported = [c \in Call |-> {}] /\ result = [c \in Call |-> "none"]
  /\ temp = [c \in Call |-> "none"]

CommandNext == \E c \in Call :
  \/ CallTool(c) \/ Retries(c)
  \/ ExecuteDirect(c) \/ ExecuteDirectArgv(c) \/ ExecuteBwrap(c) \/ ExecuteBwrapArgv(c)
  \/ RunProviderArgv(c) \/ Cleaned(c)
  \/ \E f \in CommandFile : Writes(c, f)
  \/ LeavesHelper(c) \/ HelperEnds(c) \/ Exits(c)
  \/ Drained(c) \/ StatusRead(c) \/ TimesOut(c) \/ Stopped(c) \/ Aborted(c)
  \/ ToolTimesOut(c) \/ Interrupt(c)

CommandSpec == CommandInit /\ [][CommandNext]_commandVars

-----------------------------------------------------------------------------
(* A call that has ended, or waits for another attempt, has left nothing   *)
(* behind: no process of the native sandbox's making, and no private       *)
(* directory that a provider prepared for it.  Only a provider's run that  *)
(* was cut short leaves a process.                                         *)
NothingLeftBehind == \A c \in Call : stage[c] \in Over =>
  /\ process[c] # "alive"
  /\ stray[c] => ~Native
  /\ temp[c] # "held"

(* The answer of a terminal call that the command itself ended reports     *)
(* every file its last attempt wrote.                                      *)
OutputsReported == \A c \in Terminal :
  stage[c] = "answered" /\ result[c] \in {"success", "failed", "denied"} => wrote[c] \subseteq reported[c]

(* A call that is over has nothing running and has reported what it made.  *)
CommandsAreSettled == NothingLeftBehind /\ OutputsReported

-----------------------------------------------------------------------------
(* The inductive invariant behind CommandsAreSettled: where a call is says *)
(* what may run and be held for it, and what its attempt has written is    *)
(* newer than what the attempt found.                                      *)
Stage ==
  {"new", "starting", "checked", "running", "draining", "stopping", "aborting", "cleaning"} \cup Over
Results ==
  {"none", "success", "failed", "denied", "runner", "timeout", "interrupt", "error", "unavailable",
   "refused"}
EndedByItself(c) == stage[c] = "answered" /\ result[c] \in {"success", "failed", "denied"}

CommandTypeOK ==
  /\ files \in [CommandFile -> Nat]
  /\ stage \in [Call -> Stage] /\ result \in [Call -> Results]
  /\ process \in [Call -> {"none", "alive", "gone"}]
  /\ helper \in [Call -> BOOLEAN] /\ stray \in [Call -> BOOLEAN]
  /\ before \in [Call -> [CommandFile -> Nat]]
  /\ wrote \in [Call -> SUBSET CommandFile] /\ reported \in [Call -> SUBSET CommandFile]
  /\ temp \in [Call -> {"none", "held", "lost"}]

ProcessIsRun(c) ==
  /\ process[c] = "alive" => stage[c] = "running"
  /\ temp[c] = "held" => ~ Native /\ stage[c] \in {"starting", "running", "draining", "cleaning"}
  /\ stray[c] => ~ Native

HelperIsLeft(c) ==
  helper[c] => stage[c] \notin {"new", "starting", "checked", "cleaning"} /\ ~ EndedByItself(c)

CutShort(c) == stage[c] = "aborting" => result[c] \in {"timeout", "interrupt"}

WritesAreNew(c) ==
  \A f \in CommandFile :
    /\ before[c][f] <= files[f]
    /\ f \in wrote[c] => before[c][f] < files[f]

WritesAreReported(c) == EndedByItself(c) => wrote[c] \subseteq reported[c]

CommandInv ==
  /\ CommandTypeOK
  /\ \A c \in Call : ProcessIsRun(c) /\ HelperIsLeft(c) /\ CutShort(c)
  /\ \A c \in Terminal : WritesAreNew(c) /\ WritesAreReported(c)
=============================================================================
