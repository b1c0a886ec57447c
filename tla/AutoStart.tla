------------------------------ MODULE AutoStart ------------------------------
(***************************************************************************)
(* The helper that starts a trace from inside a game (src/autostart): the  *)
(* plugin or the loader calls a bootstrap export, whose thread waits until *)
(* a method is invoked, loads the agent, configures and starts it.         *)
(*                                                                         *)
(* The wait is a breakpoint instruction written over the first byte of the *)
(* runtime's invoke function.  Every thread of the game runs into it; a    *)
(* vectored handler puts the byte back, lets the thread step over it, and  *)
(* writes the breakpoint again unless the method is the awaited one.  A    *)
(* thread with an exception that no handler takes ends the game.           *)
(***************************************************************************)
EXTENDS Integers, FiniteSets

CONSTANTS
  Threads,        \* of the game
  MaxCalls        \* bound: invocations altogether

Exports == {"vdtrace_loader_bootstrap", "vdtrace_loader_bootstrap_immediate"}

VARIABLES
  started,        \* g_bootstrap_started and g_bootstrap_immediate_started
  helper,         \* where each export's thread is, and how it ended
  code_byte,      \* at invoke_address
  unwritten,      \* history: who failed to write it, after the first write
  installed,      \* the vectored handler
  active, matched, step_over_count,   \* WaitState; signaled is its event
  signaled,
  wait_result,
  thread,         \* where each thread of the game is
  method,         \* what it invokes
  step_over, rearm, signal_match,     \* the thread locals
  calls,
  overlooked,     \* history: the settling ended with a thread still on its way
  crashed         \* history: an exception nobody took

helperVars == <<started, helper, wait_result, overlooked>>
code == <<code_byte, unwritten>>
waitState == <<installed, active, matched, step_over_count, signaled>>
threadLocals == <<step_over, rearm, signal_match>>
threadVars == <<thread, method, threadLocals, calls, crashed>>
autoStartVars == <<helperVars, code, waitState, threadVars>>

Waiter == "vdtrace_loader_bootstrap"

AutoStartInit ==
  /\ started = [x \in Exports |-> FALSE]
  /\ helper = [x \in Exports |-> "none"]
  /\ code_byte = "original" /\ unwritten = "none" /\ installed = FALSE
  /\ active = FALSE /\ matched = FALSE /\ step_over_count = 0 /\ signaled = FALSE
  /\ wait_result = "none"
  /\ thread = [t \in Threads |-> "away"]
  /\ method = [t \in Threads |-> "other"]
  /\ step_over = [t \in Threads |-> FALSE]
  /\ rearm = [t \in Threads |-> FALSE]
  /\ signal_match = [t \in Threads |-> FALSE]
  /\ calls = 0
  /\ overlooked = FALSE /\ crashed = FALSE

-----------------------------------------------------------------------------
(* The helper.                                                             *)

\* ProtectAndWriteByte, whose failure only the first caller looks at.  Bound: one
\* write fails in a behaviour.
Writes(byte, by) ==
  \/ code_byte' = byte /\ UNCHANGED unwritten
  \/ unwritten = "none" /\ unwritten' = by /\ UNCHANGED code_byte

HelperGoesTo(x, place) == helper' = [helper EXCEPT ![x] = place]

\* Where RunAutoStart ends: its return values.
Ended == {"ConfigFailed", "WaitFailed", "LoadFailed", "NoExport", "BootstrapFailed",
          "PipeTimeout", "ConfigureFailed", "StartFailed", "Started"}

\* The export: the first call wins, and a thread that cannot be made gives it back.
Bootstrap(x) ==
  /\ ~started[x] /\ helper[x] = "none" /\ ~crashed
  /\ \/ started' = [started EXCEPT ![x] = TRUE] /\ HelperGoesTo(x, "config")
     \/ UNCHANGED <<started, helper>>
  /\ UNCHANGED <<code, waitState, threadVars, wait_result, overlooked>>

\* LoadConfig, and WaitForConfiguredTiming up to the wait itself: the mode may be
\* disabled or not supported, the exports may not appear, an event or a handler may
\* not be had.
Prepare(x) ==
  /\ helper[x] = "config"
  /\ HelperGoesTo(x, IF x = Waiter THEN "install" ELSE "load")
  /\ UNCHANGED <<started, code, waitState, threadVars, wait_result, overlooked>>

SkipsWait(x) ==
  /\ helper[x] = "config"
  /\ HelperGoesTo(x, "load")
  /\ UNCHANGED <<started, code, waitState, threadVars, wait_result, overlooked>>

ConfigFails(x) ==
  /\ helper[x] = "config"
  /\ HelperGoesTo(x, "ConfigFailed")
  /\ UNCHANGED <<started, code, waitState, threadVars, wait_result, overlooked>>

\* ResolveIl2CppWaitAddresses gives up after wait_timeout_ms.
WaitFails ==
  /\ helper[Waiter] = "install"
  /\ HelperGoesTo(Waiter, "WaitFailed")
  /\ UNCHANGED <<started, code, waitState, threadVars, wait_result, overlooked>>

Install ==
  /\ helper[Waiter] = "install"
  /\ installed' = TRUE /\ active' = TRUE
  /\ matched' = FALSE /\ step_over_count' = 0 /\ signaled' = FALSE
  /\ HelperGoesTo(Waiter, "arm")
  /\ UNCHANGED <<started, code, threadVars, wait_result, overlooked>>

\* The breakpoint is written, or cannot be.
ArmWait ==
  /\ helper[Waiter] = "arm"
  /\ \/ code_byte' = "int3" /\ HelperGoesTo(Waiter, "waiting")
        /\ UNCHANGED <<installed, active>>
     \/ active' = FALSE /\ installed' = FALSE /\ HelperGoesTo(Waiter, "WaitFailed")
        /\ UNCHANGED code_byte
  /\ UNCHANGED <<started, unwritten, matched, step_over_count, signaled, threadVars, wait_result,
                 overlooked>>

\* WaitForSingleObject returns: the event is set, or the time is up.
WaitReturns ==
  /\ helper[Waiter] = "waiting"
  /\ wait_result' = IF signaled THEN "object" ELSE "timeout"
  /\ active' = FALSE
  /\ HelperGoesTo(Waiter, "settle")
  /\ UNCHANGED <<started, code, installed, matched, step_over_count, signaled,
                 threadVars, overlooked>>

\* Threads that step over the byte are waited for, for one second.  A thread that
\* has taken the breakpoint and has not been counted yet is not seen.
Uncounted == \E t \in Threads : thread[t] \in {"hit", "counted"}

Mutant_DoesNotSettle ==
  /\ helper[Waiter] = "settle"
  /\ HelperGoesTo(Waiter, "restore")
  /\ overlooked' = Uncounted
  /\ UNCHANGED <<started, code, waitState, threadVars, wait_result>>
Settled ==
  /\ helper[Waiter] = "settle" /\ step_over_count = 0
  /\ HelperGoesTo(Waiter, "restore")
  /\ overlooked' = Uncounted
  /\ UNCHANGED <<started, code, waitState, threadVars, wait_result>>

Mutant_NoDeadline == FALSE /\ UNCHANGED autoStartVars
SettleTimeout ==
  /\ helper[Waiter] = "settle" /\ step_over_count # 0
  /\ HelperGoesTo(Waiter, "restore")
  /\ overlooked' = TRUE
  /\ UNCHANGED <<started, code, waitState, threadVars, wait_result>>

Restore ==
  /\ helper[Waiter] = "restore"
  /\ Writes("original", "restore")
  /\ HelperGoesTo(Waiter, "remove")
  /\ UNCHANGED <<started, waitState, threadVars, wait_result, overlooked>>

\* RemoveVectoredExceptionHandler, and the state on the stack is gone.
Remove ==
  /\ helper[Waiter] = "remove"
  /\ installed' = FALSE
  /\ HelperGoesTo(Waiter, IF wait_result = "object" /\ matched THEN "load" ELSE "WaitFailed")
  /\ UNCHANGED <<started, code, active, matched, step_over_count, signaled,
                 threadVars, wait_result, overlooked>>

\* The agent is loaded, answers, is configured and started, each with its timeout.
AgentStages == <<"load", "export", "bootstrap", "pipe", "configure", "start", "Started">>
AgentFailures == <<"LoadFailed", "NoExport", "BootstrapFailed", "PipeTimeout",
                   "ConfigureFailed", "StartFailed">>

Advance(x) ==
  \E i \in DOMAIN AgentFailures :
    /\ helper[x] = AgentStages[i]
    /\ HelperGoesTo(x, AgentStages[i + 1]) \/ HelperGoesTo(x, AgentFailures[i])
    /\ UNCHANGED <<started, code, waitState, threadVars, wait_result, overlooked>>

HelperStep ==
  ~crashed /\ ( \/ \E x \in Exports : Prepare(x) \/ SkipsWait(x) \/ ConfigFails(x) \/ Advance(x)
               \/ WaitFails
               \/ Install \/ ArmWait \/ WaitReturns \/ Settled \/ SettleTimeout
               \/ Restore \/ Remove )

-----------------------------------------------------------------------------
(* A thread of the game, and BreakpointVectoredHandler on it.              *)

ThreadGoesTo(t, place) == thread' = [thread EXCEPT ![t] = place]

Invoke(t) ==
  /\ thread[t] = "away" /\ calls < MaxCalls
  /\ calls' = calls + 1
  /\ \E m \in {"target", "other"} : method' = [method EXCEPT ![t] = m]
  /\ ThreadGoesTo(t, "at")
  /\ UNCHANGED <<helperVars, code, waitState, threadLocals, crashed>>

\* The first byte is executed: a breakpoint exception, or the instruction, after
\* which a thread with the trap flag has a single-step exception.
ExecuteByte(t) ==
  /\ thread[t] \in {"at", "stepping"}
  /\ ThreadGoesTo(t, CASE code_byte = "int3" -> "breakpoint"
                       [] code_byte # "int3" /\ thread[t] = "stepping" -> "single_step"
                       [] OTHER -> "away")
  /\ UNCHANGED <<helperVars, code, waitState, method, threadLocals, calls, crashed>>

\* The exception is not taken: no handler, or no state, or not while it is active.
Refused(t) ==
  /\ \/ thread[t] = "breakpoint" /\ ~(installed /\ active)
     \/ thread[t] \in {"single_step", "hit", "again", "counted"} /\ ~installed
  /\ crashed' = TRUE
  /\ UNCHANGED <<helperVars, code, waitState, thread, method, threadLocals, calls>>

TakeBreakpoint(t) ==
  /\ thread[t] = "breakpoint" /\ installed /\ active
  /\ ThreadGoesTo(t, "hit")
  /\ UNCHANGED <<helperVars, code, waitState, method, threadLocals, calls, crashed>>

\* The byte is put back, and the flags of the thread are set.
PutBack(t) ==
  /\ thread[t] = "hit" /\ installed
  /\ Writes("original", "put back")
  /\ step_over' = [step_over EXCEPT ![t] = TRUE]
  /\ rearm' = [rearm EXCEPT ![t] = method[t] # "target"]
  /\ signal_match' = [signal_match EXCEPT ![t] = method[t] = "target"]
  /\ ThreadGoesTo(t, "counted")
  /\ UNCHANGED <<helperVars, waitState, method, calls, crashed>>

\* A thread that met the breakpoint twice, because another one has written it again
\* before the step or because it could not be put back, is counted twice.
CountIn(t) ==
  /\ thread[t] = "counted" /\ installed
  /\ step_over_count' = step_over_count + 1
  /\ ThreadGoesTo(t, "stepping")
  /\ UNCHANGED <<helperVars, code, installed, active, matched, signaled, method,
                 threadLocals, calls, crashed>>

\* The step is done.
Mutant_NeverRearms(t) == FALSE
Rearms(t) == rearm[t] /\ ~matched

TakeStep(t) ==
  /\ thread[t] = "single_step" /\ installed /\ step_over[t]
  /\ step_over' = [step_over EXCEPT ![t] = FALSE]
  /\ ThreadGoesTo(t, IF Rearms(t) THEN "again" ELSE "done")
  /\ UNCHANGED <<helperVars, code, waitState, method, rearm, signal_match, calls,
                 crashed>>

WriteAgain(t) ==
  /\ thread[t] = "again" /\ installed
  /\ Writes("int3", "again")
  /\ ThreadGoesTo(t, "done")
  /\ UNCHANGED <<helperVars, waitState, method, threadLocals, calls, crashed>>

\* A match is announced, and the thread is on its way.
CountOut(t) ==
  /\ thread[t] = "done"
  /\ IF installed
     THEN /\ matched' = (matched \/ signal_match[t])
          /\ signaled' = (signaled \/ signal_match[t])
          /\ step_over_count' = step_over_count - 1
          /\ ThreadGoesTo(t, "away")
          /\ UNCHANGED crashed
     ELSE /\ crashed' = TRUE
          /\ UNCHANGED <<matched, signaled, step_over_count, thread>>
  /\ rearm' = [rearm EXCEPT ![t] = FALSE]
  /\ signal_match' = [signal_match EXCEPT ![t] = FALSE]
  /\ UNCHANGED <<helperVars, code, installed, active, method, step_over, calls>>

ThreadStep(t) ==
  /\ ~crashed
  /\ \/ Invoke(t) \/ ExecuteByte(t) \/ Refused(t) \/ TakeBreakpoint(t) \/ PutBack(t)
     \/ CountIn(t) \/ TakeStep(t) \/ WriteAgain(t) \/ CountOut(t)

AutoStartNext ==
  \/ \E x \in Exports : Bootstrap(x)
  \/ HelperStep
  \/ \E t \in Threads : ThreadStep(t)

AutoStartSpec == AutoStartInit /\ [][AutoStartNext]_autoStartVars

-----------------------------------------------------------------------------
(* Properties.                                                             *)

AutoStartTypeOK ==
  /\ started \in [Exports -> BOOLEAN]
  /\ helper \in [Exports -> Ended \cup {"none", "config", "install", "arm", "waiting",
       "settle", "restore", "remove"} \cup {AgentStages[i] : i \in DOMAIN AgentStages}]
  /\ code_byte \in {"original", "int3"}
  /\ unwritten \in {"none", "put back", "again", "restore"}
  /\ installed \in BOOLEAN /\ active \in BOOLEAN
  /\ matched \in BOOLEAN /\ signaled \in BOOLEAN
  /\ step_over_count \in Nat
  /\ wait_result \in {"none", "object", "timeout"}
  /\ thread \in [Threads -> {"away", "at", "breakpoint", "hit", "counted", "stepping",
                             "single_step", "again", "done"}]
  /\ method \in [Threads -> {"target", "other"}]
  /\ step_over \in [Threads -> BOOLEAN] /\ rearm \in [Threads -> BOOLEAN]
  /\ signal_match \in [Threads -> BOOLEAN]
  /\ calls \in Nat
  /\ overlooked \in BOOLEAN /\ crashed \in BOOLEAN

\* While the helper waits and the awaited method has not been seen, the breakpoint
\* is in place whenever no thread is on its way over it, whoever put the byte back
\* and wrote it again in between -- unless a thread failed to write it again, which
\* nobody notices.
InFlight(t) == thread[t] \in {"hit", "counted", "stepping", "single_step", "again", "done"}
BreakpointStays ==
  helper[Waiter] = "waiting" /\ ~matched /\ unwritten # "again" /\ (\A t \in Threads : ~InFlight(t))
    => code_byte = "int3"

\* A wait that has ended leaves the code as it was, also when threads were stepping
\* over the byte as it ended, unless the settling did not see them off or the byte
\* could not be restored.
BreakpointRemoved ==
  helper[Waiter] \notin {"waiting", "settle", "restore"} /\ ~overlooked /\ unwritten # "restore"
    => code_byte = "original"

\* The helper comes to an end, also when threads have been counted that never leave.
Unfinished == \E x \in Exports : started[x] /\ helper[x] \notin Ended
HelperEnds == Unfinished ~> (~Unfinished \/ crashed)
=============================================================================
