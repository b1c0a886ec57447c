---------------------------- MODULE TraceSession ----------------------------
(***************************************************************************)
(* One trace session (src/core/runtime, src/core/trigger and the dispatch  *)
(* in src/core/decoder): the owner starts and stops it, the threads of the *)
(* process run into hardware breakpoints and execute the vectored handler, *)
(* and with automatic capture a refresh worker arms threads created later. *)
(*                                                                         *)
(* A thread's debug registers hold nothing, the trigger address, or the    *)
(* addresses of the flow engine.  While a thread is in the handler its     *)
(* saved context holds the registers it will continue with; SetThreadContext *)
(* by another thread in the meantime is undone when the handler returns.   *)
(* The flow engine is one step that goes on, ends the trace, or fails.     *)
(*                                                                         *)
(* A single-step exception nobody claims ends the process: the thread      *)
(* stays at "unclaimed" (a session refused it) or "lost" (there was no     *)
(* session) and nothing moves any more.                                    *)
(***************************************************************************)
EXTENDS Integers, FiniteSets

CONSTANTS
  Threads,         \* the threads of the traced process
  Target,          \* options.thread_id when the thread is given
  Blocked,         \* the main thread when block_main_thread is set
  NoThread,        \* thread id 0
  Focuses,         \* ways a session may be configured, of AllFocuses
  MaxCalls,        \* bound: times threads run into the armed trigger
  MaxStarts        \* bound: sessions started

\* direct: a given thread, traced at once.  given: a given thread, from the
\* trigger on.  single, queue: auto_select_thread without and with
\* queue_trigger_threads.
AllFocuses == {"direct", "given", "single", "queue"}

ASSUME ThreadsAssumption ==
  /\ Target \in Threads /\ Blocked \subseteq Threads
  /\ NoThread \notin Threads
  /\ IsFiniteSet(Threads)
ASSUME BoundsAssumption ==
  /\ Focuses \subseteq AllFocuses
  /\ MaxCalls \in Nat /\ MaxStarts \in Nat

Owner == "owner"     \* the thread that calls Start and Stop
Worker == "worker"   \* the refresh worker
Armers == Threads \cup {Owner, Worker}

VARIABLES
  focus, starts,
  restarted,               \* history: a Start has followed a Start with no Stop between
  running, waiting_for_trigger, active_thread_id,
  thread_handle,           \* the thread the handle is of
  trigger_capture_threads, \* threads in the capture list
  parked,                  \* those of them that are marked parked
  trigger_capture_hit_count,
  known_thread_ids, detached_thread_ids,
  worker_pc, trigger_capture_worker_stop,
  g_active_impl,           \* is the session the active one?
  g_recent_stop_thread_id,
  recent_stop_fresh,       \* its deadline has not passed
  g_recent_capture_thread_ids,
  owner_pc,
  alive,                   \* threads that exist
  todo, picked, arm_pc,    \* per armer: threads to look at, thread being armed, how far
  overtaken,               \* history: active threads armed over the engine's breakpoints
  pc, dr, ctx, rip,        \* per thread
  calls                    \* hits of the trigger so far

optionVars == <<focus, starts, restarted>>
captureVars == <<trigger_capture_threads, parked, trigger_capture_hit_count,
                 known_thread_ids, detached_thread_ids>>
stateVars == <<running, waiting_for_trigger, active_thread_id, thread_handle>>
workerVars == <<worker_pc, trigger_capture_worker_stop>>
globalVars == <<g_active_impl, g_recent_stop_thread_id, recent_stop_fresh,
                g_recent_capture_thread_ids>>
pickVars == <<picked, arm_pc, overtaken>>
armVars == <<todo, pickVars>>
threadVars == <<pc, dr, ctx, rip, calls>>
vars == <<optionVars, captureVars, stateVars, workerVars, globalVars, owner_pc,
          alive, armVars, threadVars>>

AutoSelect == focus \in {"single", "queue"}
SupportsQueuedTriggerTracing == focus = "queue"

\* Where a thread is inside Session::Impl::HandleException.
InHandler == {"entered", "race", "promote", "hit", "rotate", "arm", "open",
              "watch"}
active_handler_count == Cardinality({t \in Threads : pc[t] \in InHandler})

Init ==
  /\ focus \in Focuses /\ starts = 0 /\ restarted = FALSE
  /\ running = FALSE /\ waiting_for_trigger = FALSE
  /\ active_thread_id = NoThread /\ thread_handle = NoThread
  /\ trigger_capture_threads = {} /\ parked = {}
  /\ trigger_capture_hit_count = 0
  /\ known_thread_ids = {} /\ detached_thread_ids = {}
  /\ worker_pc = "off" /\ trigger_capture_worker_stop = FALSE
  /\ g_active_impl = FALSE
  /\ g_recent_stop_thread_id = NoThread /\ recent_stop_fresh = FALSE
  /\ g_recent_capture_thread_ids = {}
  /\ owner_pc = "idle"
  /\ alive \in {a \in SUBSET Threads : Target \in a}
  /\ todo = [a \in Armers |-> {}]
  /\ picked = [a \in Armers |-> NoThread]
  /\ arm_pc = [a \in Armers |-> "look"]
  /\ overtaken = {}
  /\ pc = [t \in Threads |-> "run"]
  /\ dr = [t \in Threads |-> "none"]
  /\ ctx = [t \in Threads |-> "none"]
  /\ rip = [t \in Threads |-> "none"]
  /\ calls = 0

-----------------------------------------------------------------------------
(* The capture list.                                                       *)

\* ReleaseTriggerCaptureThreads(impl, true): the handles are closed and their
\* threads remembered, except the promoted one; their registers stay armed.
ReleaseCaptured(preserved) ==
  /\ trigger_capture_threads' = {}
  /\ parked' = {}
  /\ g_recent_capture_thread_ids' =
       g_recent_capture_thread_ids \cup (trigger_capture_threads \ preserved)

\* ArmTriggerCaptureThreads looks at the threads of a snapshot one by one, and
\* no lock is held from the tests to the arming.  The refresh worker asks for new
\* threads only.
armRest == <<optionVars, trigger_capture_hit_count, detached_thread_ids,
             stateVars, workerVars, globalVars, owner_pc, alive, pc, ctx, rip,
             calls, parked>>

\* The armer is done with thread t, or takes it to the next step.
LeaveThread(a) ==
  picked' = [picked EXCEPT ![a] = NoThread] /\ arm_pc' = [arm_pc EXCEPT ![a] = "look"]
TakeThread(a, t, step) ==
  picked' = [picked EXCEPT ![a] = t] /\ arm_pc' = [arm_pc EXCEPT ![a] = step]

Skips(a, t) ==
  \/ t = active_thread_id
  \/ t \in Blocked
  \/ a = Worker /\ t \in known_thread_ids

\* The first tests; a blocked thread is known from now on.
Look(a) ==
  /\ arm_pc[a] = "look"
  /\ \E t \in todo[a] :
       /\ todo' = [todo EXCEPT ![a] = @ \ {t}]
       /\ IF Skips(a, t)
          THEN /\ known_thread_ids' = IF t = active_thread_id THEN known_thread_ids
                                      ELSE known_thread_ids \cup ({t} \cap Blocked)
               /\ UNCHANGED <<picked, arm_pc>>
          ELSE TakeThread(a, t, "list") /\ known_thread_ids' = known_thread_ids
  /\ UNCHANGED <<armRest, trigger_capture_threads, overtaken, dr>>

\* The last test, under the lock of the list.
LookInList(a) ==
  /\ arm_pc[a] = "list"
  /\ IF picked[a] \in trigger_capture_threads
     THEN LeaveThread(a) /\ known_thread_ids' = known_thread_ids \cup {picked[a]}
     ELSE TakeThread(a, picked[a], "arm") /\ known_thread_ids' = known_thread_ids
  /\ UNCHANGED <<armRest, todo, trigger_capture_threads, overtaken, dr>>

\* ArmHardwareExecution: the registers are overwritten whatever they hold by now,
\* also those of a thread promoted since it was looked at.
Arm(a) ==
  /\ arm_pc[a] = "arm"
  /\ dr' = [dr EXCEPT ![picked[a]] = "trigger"]
  /\ TakeThread(a, picked[a], "enlist")
  /\ overtaken' = IF picked[a] = active_thread_id /\ pc[picked[a]] = "run"
                  THEN overtaken \cup {picked[a]} ELSE overtaken
  /\ UNCHANGED <<armRest, todo, known_thread_ids, trigger_capture_threads>>

\* The armed thread enters the list, or is disarmed when it is already there.
Enlist(a) ==
  /\ arm_pc[a] = "enlist"
  /\ IF picked[a] \in trigger_capture_threads
     THEN /\ dr' = [dr EXCEPT ![picked[a]] = "none"]
          /\ UNCHANGED <<trigger_capture_threads, known_thread_ids>>
     ELSE /\ trigger_capture_threads' = trigger_capture_threads \cup {picked[a]}
          /\ known_thread_ids' = known_thread_ids \cup {picked[a]}
          /\ dr' = dr
  /\ LeaveThread(a)
  /\ UNCHANGED <<armRest, todo, overtaken>>

ArmStep(a) == Look(a) \/ LookInList(a) \/ Arm(a) \/ Enlist(a)

Armed(a) == todo[a] = {} /\ picked[a] = NoThread

-----------------------------------------------------------------------------
(* The refresh worker.                                                     *)

ShouldKeepRefreshWorkerAlive == running /\ active_thread_id = NoThread

Mutant_LeavesWithCapture == ~ShouldKeepRefreshWorkerAlive
Mutant_LeavesOnceArmed ==
  \/ trigger_capture_worker_stop \/ ~ShouldKeepRefreshWorkerAlive
  \/ trigger_capture_threads # {}
WorkerLeaves == trigger_capture_worker_stop \/ ~ShouldKeepRefreshWorkerAlive

WorkerRound ==
  /\ worker_pc = "check"
  /\ IF WorkerLeaves
     THEN worker_pc' = "off" /\ todo' = todo
     ELSE worker_pc' = "arm" /\ todo' = [todo EXCEPT ![Worker] = alive]
  /\ UNCHANGED <<optionVars, captureVars, stateVars, globalVars, owner_pc,
                 trigger_capture_worker_stop, alive, pickVars, threadVars>>

WorkerArmed ==
  /\ worker_pc = "arm"
  /\ Armed(Worker)
  /\ worker_pc' = "check"
  /\ UNCHANGED <<optionVars, captureVars, stateVars, globalVars, owner_pc,
                 trigger_capture_worker_stop, alive, armVars, threadVars>>

WorkerStep ==
  \/ WorkerRound \/ WorkerArmed
  \/ worker_pc = "arm" /\ ArmStep(Worker)

\* StopTriggerCaptureRefreshWorker raises the flag, joins, and lowers it.
WorkerJoined == worker_pc = "off"

-----------------------------------------------------------------------------
(* Threads run into breakpoints.                                           *)

handlerRest == <<optionVars, owner_pc, alive, workerVars, armVars, rip, calls>>

HitTrigger(t) ==
  /\ t \in alive /\ pc[t] = "run" /\ dr[t] = "trigger"
  /\ calls < MaxCalls
  /\ calls' = calls + 1
  /\ rip' = [rip EXCEPT ![t] = "trigger"]
  /\ ctx' = [ctx EXCEPT ![t] = dr[t]]
  /\ pc' = [pc EXCEPT ![t] = "raised"]
  /\ UNCHANGED <<optionVars, captureVars, stateVars, workerVars, globalVars,
                 owner_pc, alive, armVars, dr>>

HitFlow(t) ==
  /\ pc[t] = "run" /\ dr[t] = "flow"
  /\ rip' = [rip EXCEPT ![t] = "flow"]
  /\ ctx' = [ctx EXCEPT ![t] = dr[t]]
  /\ pc' = [pc EXCEPT ![t] = "raised"]
  /\ UNCHANGED <<optionVars, captureVars, stateVars, workerVars, globalVars,
                 owner_pc, alive, armVars, dr, calls>>

CreateThread(t) ==
  /\ t \notin alive
  /\ alive' = alive \cup {t}
  /\ UNCHANGED <<optionVars, captureVars, stateVars, workerVars, globalVars,
                 owner_pc, armVars, threadVars>>

-----------------------------------------------------------------------------
(* GlobalVectoredHandler.                                                  *)

\* The handler's context without breakpoints, and where the thread goes.
Disarmed(t) == ctx' = [ctx EXCEPT ![t] = "none"]
GoTo(t, place) == pc' = [pc EXCEPT ![t] = place]

\* The session is active: the handler will count itself in later.
LoadActive(t) ==
  /\ pc[t] = "raised"
  /\ g_active_impl
  /\ GoTo(t, "loaded")
  /\ UNCHANGED <<handlerRest, captureVars, stateVars, globalVars, dr, ctx>>

\* No session is active: a thread of an earlier capture, or the thread of the
\* session stopped last, may still have breakpoints.
LoadNone(t) ==
  /\ pc[t] = "raised"
  /\ ~g_active_impl
  /\ IF t \in g_recent_capture_thread_ids
     THEN /\ g_recent_capture_thread_ids' = g_recent_capture_thread_ids \ {t}
          /\ Disarmed(t)
          /\ GoTo(t, "claimed")
     ELSE /\ GoTo(t, "missed")
          /\ UNCHANGED <<g_recent_capture_thread_ids, ctx>>
  /\ UNCHANGED <<handlerRest, captureVars, stateVars, g_active_impl,
                 g_recent_stop_thread_id, recent_stop_fresh, dr>>

Enter(t) ==
  /\ pc[t] = "loaded"
  /\ GoTo(t, "entered")
  /\ UNCHANGED <<handlerRest, captureVars, stateVars, globalVars, dr, ctx>>

RecentlyStopped(t) == t = g_recent_stop_thread_id /\ recent_stop_fresh

\* HandleException has returned EXCEPTION_CONTINUE_SEARCH, or nobody was there.
LeftOpen(t) ==
  /\ pc[t] \in {"refused", "missed"}
  /\ IF RecentlyStopped(t)
     THEN Disarmed(t) /\ GoTo(t, "claimed")
     ELSE ctx' = ctx /\ GoTo(t, IF pc[t] = "refused" THEN "unclaimed" ELSE "lost")
  /\ UNCHANGED <<handlerRest, captureVars, stateVars, globalVars, dr>>

\* EXCEPTION_CONTINUE_EXECUTION: the thread goes on with its saved context.
Continue(t) ==
  /\ pc[t] \in {"claimed", "queued"}
  /\ dr' = [dr EXCEPT ![t] = ctx[t]]
  /\ overtaken' = overtaken \ {t}
  /\ GoTo(t, "run")
  /\ UNCHANGED <<optionVars, owner_pc, alive, workerVars, todo, picked, arm_pc,
                 rip, calls, captureVars, stateVars, globalVars, ctx>>

-----------------------------------------------------------------------------
(* HandleException.                                                        *)

CapturePending ==
  AutoSelect /\ waiting_for_trigger /\ active_thread_id = NoThread

\* QueueTriggerCaptureThreadLocked: a thread of the list is marked parked.
Mutant_ParkAny(t) == parked \cup {t}
ParkedWith(t) == parked \cup ({t} \cap trigger_capture_threads)

\* HandleQueuedTriggerHitException of a thread that is not the traced one.
QueueHit(t) ==
  /\ trigger_capture_hit_count' = trigger_capture_hit_count + 1
  /\ parked' = ParkedWith(t)
  /\ Disarmed(t)
  /\ GoTo(t, "queued")
  /\ UNCHANGED <<handlerRest, trigger_capture_threads, known_thread_ids,
                 detached_thread_ids, stateVars, globalVars, dr>>

EnterRace(t) ==
  /\ pc[t] = "entered"
  /\ CapturePending
  /\ GoTo(t, IF rip[t] = "trigger" THEN "race" ELSE "refused")
  /\ UNCHANGED <<handlerRest, captureVars, stateVars, globalVars, dr, ctx>>

\* A thread that is neither racing nor traced.
OtherThread(t) ==
  pc[t] = "entered" /\ ~CapturePending /\ t # active_thread_id

Mutant_QueuesListed(t) ==
  /\ SupportsQueuedTriggerTracing /\ rip[t] = "trigger"
  /\ t \in trigger_capture_threads
QueuesHit(t) == SupportsQueuedTriggerTracing /\ rip[t] = "trigger"

OtherQueues(t) == OtherThread(t) /\ QueuesHit(t) /\ QueueHit(t)

OtherDetached(t) ==
  /\ OtherThread(t) /\ ~QueuesHit(t)
  /\ IF t \in detached_thread_ids
     THEN /\ detached_thread_ids' = detached_thread_ids \ {t}
          /\ Disarmed(t)
          /\ GoTo(t, "claimed")
     ELSE /\ GoTo(t, "refused")
          /\ UNCHANGED <<detached_thread_ids, ctx>>
  /\ UNCHANGED <<handlerRest, trigger_capture_threads, parked,
                 trigger_capture_hit_count, known_thread_ids, stateVars,
                 globalVars, dr>>

\* The thread was the active one when HandleException compared the ids.
TracedThread(t) ==
  pc[t] = "entered" /\ ~CapturePending /\ t = active_thread_id

\* TryConsumeStaleSingleStep: the session has stopped under its thread.
StaleStep(t) ==
  /\ TracedThread(t) /\ ~running
  /\ Disarmed(t)
  /\ waiting_for_trigger' = FALSE
  /\ GoTo(t, "claimed")
  /\ UNCHANGED <<handlerRest, captureVars, running, active_thread_id,
                 thread_handle, globalVars, dr>>

WaitedHit(t) ==
  /\ TracedThread(t) /\ running /\ waiting_for_trigger
  /\ GoTo(t, IF rip[t] = "trigger" THEN "hit" ELSE "refused")
  /\ UNCHANGED <<handlerRest, captureVars, stateVars, globalVars, dr, ctx>>

\* HandleTriggerThreadCaptureException: the first thread here is promoted.
Mutant_AlwaysWins == TRUE
WinsRace == active_thread_id = NoThread

WinRace(t) ==
  /\ pc[t] = "race"
  /\ WinsRace
  /\ active_thread_id' = t
  /\ GoTo(t, "promote")
  /\ UNCHANGED <<handlerRest, captureVars, running, waiting_for_trigger,
                 thread_handle, globalVars, dr, ctx>>

LoseRaceQueued(t) ==
  pc[t] = "race" /\ ~WinsRace /\ SupportsQueuedTriggerTracing /\ QueueHit(t)

LoseRace(t) ==
  /\ pc[t] = "race" /\ ~WinsRace
  /\ ~SupportsQueuedTriggerTracing
  /\ trigger_capture_hit_count' = trigger_capture_hit_count + 1
  /\ detached_thread_ids' = detached_thread_ids \cup {t}
  /\ Disarmed(t)
  /\ GoTo(t, "claimed")
  /\ UNCHANGED <<handlerRest, trigger_capture_threads, parked,
                 known_thread_ids, stateVars, globalVars, dr>>

\* PromoteCapturedTriggerThread.
Promote(t) ==
  /\ pc[t] = "promote"
  /\ trigger_capture_hit_count' = trigger_capture_hit_count + 1
  /\ ReleaseCaptured({t})
  /\ dr' = IF thread_handle \in Threads \ {t}
           THEN [dr EXCEPT ![thread_handle] = "none"] ELSE dr
  /\ thread_handle' = t
  /\ active_thread_id' = t
  /\ known_thread_ids' = known_thread_ids \cup {t}
  /\ GoTo(t, "hit")
  /\ UNCHANGED <<handlerRest, detached_thread_ids, running,
                 waiting_for_trigger, g_active_impl, g_recent_stop_thread_id,
                 recent_stop_fresh, ctx>>

\* A thread that is not in the list must be opened again, which may fail.
PromoteFails(t) ==
  /\ pc[t] = "promote" /\ t \notin trigger_capture_threads
  /\ trigger_capture_hit_count' = trigger_capture_hit_count + 1
  /\ ReleaseCaptured({})
  /\ running' = FALSE
  /\ Disarmed(t)
  /\ GoTo(t, "claimed")
  /\ UNCHANGED <<handlerRest, detached_thread_ids, known_thread_ids,
                 waiting_for_trigger, active_thread_id, thread_handle,
                 g_active_impl, g_recent_stop_thread_id, recent_stop_fresh, dr>>

\* HandleTriggerWaitException: the flow engine takes over, or cannot.
BeginTrace(t) ==
  /\ pc[t] = "hit"
  /\ waiting_for_trigger' = FALSE
  /\ \/ ctx' = [ctx EXCEPT ![t] = "flow"] /\ running' = running
     \/ Disarmed(t) /\ running' = FALSE
  /\ GoTo(t, "claimed")
  /\ UNCHANGED <<handlerRest, captureVars, active_thread_id, thread_handle,
                 globalVars, dr>>

Traces(t) == TracedThread(t) /\ running /\ ~waiting_for_trigger

\* HandleHardwareFlowException: an address the engine does not watch is left
\* open; otherwise the trace goes on, or ends without a rotation.
FlowStep(t) ==
  /\ Traces(t)
  /\ \/ rip[t] # "flow" /\ GoTo(t, "refused") /\ UNCHANGED <<running, ctx>>
     \/ /\ rip[t] = "flow"
        /\ \/ ctx' = [ctx EXCEPT ![t] = "flow"] /\ running' = running
           \/ Disarmed(t) /\ running' = FALSE
        /\ GoTo(t, "claimed")
  /\ UNCHANGED <<handlerRest, captureVars, waiting_for_trigger,
                 active_thread_id, thread_handle, globalVars, dr>>

\* The traced root function returns, and the capture begins anew
\* (RotateQueuedTriggerTrace, BeginTriggerThreadCapture).
Rotate(t) ==
  /\ Traces(t) /\ rip[t] = "flow"
  /\ SupportsQueuedTriggerTracing
  /\ thread_handle' = NoThread
  /\ waiting_for_trigger' = FALSE
  /\ detached_thread_ids' = {}
  /\ active_thread_id' = NoThread
  /\ GoTo(t, "rotate")
  /\ UNCHANGED <<handlerRest, trigger_capture_threads, parked,
                 trigger_capture_hit_count, known_thread_ids, running,
                 globalVars, dr, ctx>>

RotateRelease(t) ==
  /\ pc[t] = "rotate"
  /\ ReleaseCaptured({})
  /\ todo' = [todo EXCEPT ![t] = alive \ {t}]
  /\ GoTo(t, "arm")
  /\ UNCHANGED <<optionVars, owner_pc, alive, workerVars, pickVars, rip, calls,
                 trigger_capture_hit_count, known_thread_ids,
                 detached_thread_ids, stateVars, g_active_impl,
                 g_recent_stop_thread_id, recent_stop_fresh, dr, ctx>>

RotateOpen(t) ==
  /\ pc[t] = "arm" /\ Armed(t)
  /\ waiting_for_trigger' = TRUE
  /\ trigger_capture_worker_stop' = TRUE
  /\ GoTo(t, "watch")
  /\ UNCHANGED <<optionVars, owner_pc, alive, worker_pc, armVars, rip, calls,
                 captureVars, running, active_thread_id, thread_handle,
                 globalVars, dr, ctx>>

RotateWatch(t) ==
  /\ pc[t] = "watch" /\ WorkerJoined
  /\ trigger_capture_worker_stop' = FALSE
  /\ worker_pc' = "check"
  /\ ctx' = [ctx EXCEPT ![t] = "trigger"]
  /\ GoTo(t, "claimed")
  /\ UNCHANGED <<optionVars, owner_pc, alive, armVars, rip, calls,
                 captureVars, stateVars, globalVars, dr>>

\* Two of owner and rotating threads manage the std::thread of the worker, which
\* is a data race: the process is terminated, or one comes after the other.
WorkerManagers ==
  {a \in Threads \cup {Owner} :
     IF a = Owner THEN owner_pc \in {"start_join", "watch", "stop_join"}
                  ELSE pc[a] = "watch"}
WorkerContended == Cardinality(WorkerManagers) > 1

RotateRaces(t) ==
  /\ pc[t] = "watch" /\ WorkerContended
  /\ GoTo(t, "terminated")
  /\ UNCHANGED <<handlerRest, captureVars, stateVars, globalVars, dr, ctx>>

\* Nobody could be armed: the session ends with the trace that was to rotate.
RotateFails(t) ==
  /\ pc[t] = "arm"
  /\ trigger_capture_threads = {} /\ picked[t] = NoThread
  /\ todo' = [todo EXCEPT ![t] = {}]
  /\ running' = FALSE
  /\ Disarmed(t)
  /\ GoTo(t, "claimed")
  /\ UNCHANGED <<optionVars, owner_pc, alive, workerVars, pickVars, rip, calls,
                 captureVars, waiting_for_trigger, active_thread_id,
                 thread_handle, globalVars, dr>>

HandlerStep(t) ==
  \/ LoadActive(t) \/ LoadNone(t) \/ Enter(t) \/ LeftOpen(t) \/ Continue(t)
  \/ EnterRace(t) \/ OtherQueues(t) \/ OtherDetached(t) \/ StaleStep(t)
  \/ WaitedHit(t) \/ WinRace(t) \/ LoseRaceQueued(t) \/ LoseRace(t)
  \/ Promote(t) \/ PromoteFails(t) \/ BeginTrace(t) \/ FlowStep(t) \/ Rotate(t)
  \/ RotateRelease(t) \/ RotateOpen(t) \/ RotateWatch(t) \/ RotateRaces(t)
  \/ RotateFails(t)
  \/ pc[t] = "arm" /\ ArmStep(t)

-----------------------------------------------------------------------------
(* The owner: Configure and Start, Stop.  state_lock makes them one thread;  *)
(* "stopped" is where Stop leaves it.                                       *)

ownerRest == <<alive, pickVars, threadVars>>

Idle == owner_pc \in {"idle", "stopped"}

StartSession ==
  /\ Idle
  /\ ~running
  /\ starts < MaxStarts
  /\ starts' = starts + 1
  /\ restarted' = (restarted \/ (owner_pc = "idle" /\ starts > 0))
  /\ thread_handle' = NoThread
  /\ trigger_capture_worker_stop' = TRUE
  /\ owner_pc' = "start_join"
  /\ UNCHANGED <<ownerRest, todo, focus, captureVars, running,
                 waiting_for_trigger, active_thread_id, worker_pc, globalVars>>

\* The options of this session are configured, and the session is running
\* before any thread is armed for it.
PrepareSession(f) ==
  /\ owner_pc = "start_join" /\ WorkerJoined
  /\ focus' = f
  /\ trigger_capture_worker_stop' = FALSE
  /\ ReleaseCaptured({})
  /\ g_active_impl' = TRUE
  /\ g_recent_stop_thread_id' = NoThread /\ recent_stop_fresh' = FALSE
  /\ trigger_capture_hit_count' = 0
  /\ detached_thread_ids' = {}
  /\ waiting_for_trigger' = FALSE
  /\ active_thread_id' = IF f \in {"direct", "given"} THEN Target ELSE NoThread
  /\ known_thread_ids' = alive
  /\ running' = TRUE
  /\ IF f \in {"direct", "given"}
     THEN owner_pc' = "open_target" /\ todo' = todo
     ELSE owner_pc' = "arm" /\ todo' = [todo EXCEPT ![Owner] = alive]
  /\ UNCHANGED <<ownerRest, starts, restarted, thread_handle, worker_pc>>

OpenTarget ==
  /\ owner_pc = "open_target"
  /\ thread_handle' = Target
  /\ waiting_for_trigger' = (focus = "given")
  /\ owner_pc' = "arm_target"
  /\ UNCHANGED <<ownerRest, todo, optionVars, captureVars, running,
                 active_thread_id, workerVars, globalVars>>

ArmTarget ==
  /\ owner_pc = "arm_target"
  /\ dr' = [dr EXCEPT ![Target] = IF focus = "given" THEN "trigger" ELSE "flow"]
  /\ owner_pc' = "idle"
  /\ UNCHANGED <<armVars, alive, pc, ctx, rip, calls, optionVars, captureVars,
                 stateVars, workerVars, globalVars>>

\* BeginTriggerThreadCapture opens the capture after its threads are armed.
OpenCapture ==
  /\ owner_pc = "arm" /\ Armed(Owner)
  /\ waiting_for_trigger' = TRUE
  /\ trigger_capture_worker_stop' = TRUE
  /\ owner_pc' = "watch"
  /\ UNCHANGED <<ownerRest, todo, optionVars, captureVars, running,
                 active_thread_id, thread_handle, worker_pc, globalVars>>

WatchCapture ==
  /\ owner_pc = "watch" /\ WorkerJoined
  /\ trigger_capture_worker_stop' = FALSE
  /\ worker_pc' = "check"
  /\ owner_pc' = "idle"
  /\ UNCHANGED <<ownerRest, todo, optionVars, captureVars, stateVars,
                 globalVars>>

\* The target cannot be opened or armed, or no thread could be.
StartFails ==
  /\ \/ owner_pc \in {"open_target", "arm_target"}
     \/ owner_pc = "arm" /\ trigger_capture_threads = {} /\ picked[Owner] = NoThread
  /\ running' = FALSE
  /\ g_active_impl' = FALSE
  /\ thread_handle' = IF owner_pc = "arm" THEN thread_handle ELSE NoThread
  /\ todo' = [todo EXCEPT ![Owner] = {}]
  /\ owner_pc' = "idle"
  /\ UNCHANGED <<ownerRest, optionVars, captureVars, waiting_for_trigger,
                 active_thread_id, workerVars, g_recent_stop_thread_id,
                 recent_stop_fresh, g_recent_capture_thread_ids>>

StopSession ==
  /\ Idle
  /\ running' = FALSE
  /\ trigger_capture_worker_stop' = TRUE
  /\ owner_pc' = "stop_join"
  /\ UNCHANGED <<ownerRest, todo, optionVars, captureVars,
                 waiting_for_trigger, active_thread_id, thread_handle,
                 worker_pc, globalVars>>

StopJoin ==
  /\ owner_pc = "stop_join" /\ WorkerJoined
  /\ trigger_capture_worker_stop' = FALSE
  /\ ReleaseCaptured({})
  /\ owner_pc' = "stop_clear"
  /\ UNCHANGED <<ownerRest, todo, optionVars, trigger_capture_hit_count,
                 known_thread_ids, detached_thread_ids, stateVars, worker_pc,
                 g_active_impl, g_recent_stop_thread_id, recent_stop_fresh>>

Mutant_MarkNobody == NoThread
MarkedThread == active_thread_id

\* The traced thread is remembered for a while, and its breakpoints cleared.
StopClear ==
  /\ owner_pc = "stop_clear"
  /\ IF thread_handle = NoThread
     THEN UNCHANGED <<g_recent_stop_thread_id, recent_stop_fresh, dr>>
     ELSE /\ g_recent_stop_thread_id' = MarkedThread
          /\ recent_stop_fresh' = TRUE
          /\ dr' = [dr EXCEPT ![thread_handle] = "none"]
  /\ thread_handle' = NoThread
  /\ owner_pc' = "stop_drain"
  /\ UNCHANGED <<armVars, alive, pc, ctx, rip, calls, optionVars, captureVars,
                 running, waiting_for_trigger, active_thread_id, workerVars,
                 g_active_impl, g_recent_capture_thread_ids>>

\* No handler is counted: the execution state is reset, then the session
\* leaves the active slot.
Mutant_Drained == TRUE
Drained == active_handler_count = 0

StopDrain ==
  /\ owner_pc = "stop_drain" /\ Drained
  /\ trigger_capture_hit_count' = 0
  /\ waiting_for_trigger' = FALSE
  /\ detached_thread_ids' = {}
  /\ owner_pc' = "stop_leave"
  /\ UNCHANGED <<ownerRest, todo, optionVars, trigger_capture_threads, parked,
                 known_thread_ids, running, active_thread_id, thread_handle,
                 workerVars, globalVars>>

StopLeave ==
  /\ owner_pc = "stop_leave"
  /\ g_active_impl' = FALSE
  /\ owner_pc' = "stopped"
  /\ restarted' = FALSE
  /\ UNCHANGED <<ownerRest, todo, focus, starts, captureVars, stateVars,
                 workerVars, g_recent_stop_thread_id, recent_stop_fresh,
                 g_recent_capture_thread_ids>>

\* GetTickCount64 passes g_recent_stop_deadline.
Expire ==
  /\ recent_stop_fresh
  /\ recent_stop_fresh' = FALSE
  /\ UNCHANGED <<ownerRest, todo, owner_pc, optionVars, captureVars, stateVars,
                 workerVars, g_active_impl, g_recent_stop_thread_id,
                 g_recent_capture_thread_ids>>

OwnerStep ==
  \/ \E f \in Focuses : PrepareSession(f)
  \/ OpenTarget \/ ArmTarget \/ OpenCapture \/ WatchCapture
  \/ owner_pc = "arm" /\ ArmStep(Owner)
  \/ StopJoin \/ StopClear \/ StopDrain \/ StopLeave

-----------------------------------------------------------------------------
ProcessAlive == \A t \in Threads : pc[t] \notin {"unclaimed", "lost", "terminated"}

Next ==
  /\ ProcessAlive
  /\ \/ \E t \in Threads :
          HitTrigger(t) \/ HitFlow(t) \/ CreateThread(t) \/ HandlerStep(t)
     \/ WorkerStep
     \/ StartSession \/ StopSession \/ StartFails \/ OwnerStep
     \/ Expire

Spec == Init /\ [][Next]_vars

\* Threads run their handlers, the worker its rounds, and the owner a call it
\* has begun; nothing makes a thread reach a breakpoint or the owner call.
Fairness ==
  /\ \A t \in Threads : WF_vars(ProcessAlive /\ HandlerStep(t))
  /\ WF_vars(ProcessAlive /\ WorkerStep)
  /\ WF_vars(ProcessAlive /\ OwnerStep)

FairSpec == Spec /\ Fairness
-----------------------------------------------------------------------------
(* Properties.                                                             *)

TypeOK ==
  /\ focus \in Focuses /\ starts \in 0 .. MaxStarts
  /\ restarted \in BOOLEAN
  /\ running \in BOOLEAN /\ waiting_for_trigger \in BOOLEAN
  /\ active_thread_id \in Threads \cup {NoThread}
  /\ thread_handle \in Threads \cup {NoThread}
  /\ trigger_capture_threads \subseteq Threads
  /\ parked \subseteq trigger_capture_threads
  /\ trigger_capture_hit_count \in Nat
  /\ known_thread_ids \subseteq Threads /\ detached_thread_ids \subseteq Threads
  /\ worker_pc \in {"off", "check", "arm"}
  /\ trigger_capture_worker_stop \in BOOLEAN
  /\ g_active_impl \in BOOLEAN /\ recent_stop_fresh \in BOOLEAN
  /\ g_recent_stop_thread_id \in Threads \cup {NoThread}
  /\ g_recent_capture_thread_ids \subseteq Threads
  /\ owner_pc \in {"idle", "start_join", "open_target", "arm_target", "arm",
                   "watch", "stop_join", "stop_clear", "stop_drain",
                   "stop_leave", "stopped"}
  /\ alive \subseteq Threads
  /\ todo \in [Armers -> SUBSET Threads]
  /\ picked \in [Armers -> Threads \cup {NoThread}]
  /\ arm_pc \in [Armers -> {"look", "list", "arm", "enlist"}]
  /\ \A a \in Armers : arm_pc[a] # "look" => picked[a] \in Threads
  /\ overtaken \subseteq Threads
  /\ pc \in [Threads -> InHandler \cup {"run", "raised", "loaded", "claimed",
                           "queued", "refused", "missed", "unclaimed", "lost",
                           "terminated"}]
  /\ dr \in [Threads -> {"none", "trigger", "flow"}]
  /\ ctx \in [Threads -> {"none", "trigger", "flow"}]
  /\ rip \in [Threads -> {"none", "trigger", "flow"}]
  /\ calls \in 0 .. MaxCalls

\* The race has one winner at a time: two threads are never both between their
\* promotion and the start of their trace, where the engine's plain fields are
\* written.  It takes a Stop between two Starts: only Stop waits for handlers.
OneWinner ==
  ~restarted => \A t, u \in Threads :
      pc[t] \in {"promote", "hit"} /\ pc[u] \in {"promote", "hit"} => t = u

\* A queue session refuses a hit of the trigger in one case only: the traced
\* thread runs into it because somebody who had looked at it before its promotion
\* armed it over the engine's breakpoints (ArmTriggerCaptureThreads holds no lock
\* from its tests to ArmHardwareExecution, and the flow engine knows no trigger).
\* Every other hit is claimed, whoever hits and whatever the session is doing.
QueueClaimsHits ==
  [][\A t \in Threads :
       SupportsQueuedTriggerTracing /\ rip[t] = "trigger" /\ pc[t] \in InHandler
         => pc'[t] # "refused" \/ (t = active_thread_id /\ t \in overtaken)]_vars

\* Until the owner starts again, a given thread is lost only when the deadline
\* of Stop has passed: every exception it raises is claimed, with handlers in
\* flight while Stop runs and with breakpoints that outlive Stop.
GivenThread == starts = 1 /\ ~AutoSelect
GivenRecovers ==
  GivenThread => \A t \in Threads :
    pc[t] \in {"unclaimed", "lost"} => t = g_recent_stop_thread_id /\ ~recent_stop_fresh

\* In the first session a thread that runs with the breakpoints of the engine
\* while the trace is running is the active one; later sessions may meet
\* breakpoints that survived Stop.
FlowIsActive ==
  starts = 1 => \A t \in Threads :
    pc[t] = "run" /\ dr[t] = "flow" /\ running => t = active_thread_id

\* Once Stop has returned nobody arms a thread until the next Start: neither a
\* handler that was rotating the capture nor the worker it had launched.
NoArmingAfterStop ==
  [][owner_pc = "stopped" => \A t \in Threads :
       dr'[t] = "trigger" => dr[t] = "trigger" \/ ctx[t] = "trigger"]_vars

\* As long as no two manage the worker at once, no call hangs: the owner returns
\* from Start and Stop, also while handlers come and go, and a handler returns,
\* also one that joins the refresh worker.
CallsReturn ==
  [](~WorkerContended) =>
    /\ ~Idle ~> Idle \/ ~ProcessAlive
    /\ \A t \in Threads :
         pc[t] \in InHandler ~> pc[t] \notin InHandler \/ ~ProcessAlive

\* A thread created while a capture is open is armed, unless the capture ends.
LateThreadsAreArmed ==
  \A t \in Threads \ Blocked :
    t \in alive \ known_thread_ids /\ CapturePending
      ~> t \in known_thread_ids \/ ~CapturePending \/ ~ProcessAlive

=============================================================================
