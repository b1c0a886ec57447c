# VD-Trace: TLA+ models

VD-Trace follows the control flow of threads in its own process on Windows x64.
It arms hardware breakpoints in a thread, takes the single-step exceptions in a
vectored exception handler, records one event per basic block, and a background
pipeline writes the events as text.  An agent DLL exposes the session through a
named pipe, a loader brings the agent into the process, and a desktop GUI and a
command-line tool drive both.

This directory holds TLA+ modules of the parts whose interleavings are hard to
test, the TLC configurations that model-check them, and proofs that TLAPS checks.
`PROJECT.json` lists the components, the runs, the source lines behind every
definition (`map`), the mutants that show each property can fail, the hazards,
and the theorems.

Paths below are relative to `src/src/` unless they start with `README`.

## 1. The system

### 1.1 Core (`core/`)

| Component | State it keeps | Operations | What makes it correct |
|---|---|---|---|
| **Recorder** (`recorder/`) | ring of events with `write_index`, `read_index`; write queue with `pending_write_bytes`; three condition variables (`worker_cv`, `producer_cv`, `write_queue_cv`) under two mutexes; counters `accepted`, `dropped`, `failed`, `written` | `Enqueue` (traced thread, inside the exception handler), `WorkerLoop`, `EnqueueWrite`, `WriterLoop`, `StopWorker`, `StopWriter` | no unread slot is overwritten; the file is a prefix of the accepted events, in order; every event is in one counter; no lost wake-up |
| **Session** (`runtime/`) | options, `running`, `waiting_for_trigger`, `active_thread_id`, the thread handle, `active_handler_count`; process-wide: `g_active_impl`, recently stopped and recently captured threads | `Configure`, `Start`, `Stop`, `HandleException` through `GlobalVectoredHandler` | one session's handlers are gone before the next begins; a thread that still carries a breakpoint is recovered and not lost |
| **Trigger capture** (`trigger/`) | list of armed threads, hit count, known and detached threads, refresh worker and its stop flag | `BeginTriggerThreadCapture`, `ArmTriggerCaptureThreads`, `HandleTriggerThreadCaptureException`, promotion, queueing, rotation, release | exactly one thread is promoted per trace; in queue mode no hit is refused; late threads are armed; the worker can be joined from any place that does |
| **Threading** (`threading/`) | module ranges; a thread's saved and debug-register context | enumerate threads, suspend, read and write context, look up module of an address | registers written by another thread are undone when a handler returns with its saved context |
| **Hardware flow engine** (`hardware/`) | observation state (`WaitingForDestination`, `WaitingForTail`, `WaitingForSingleStep`, `LinearScan`, `WaitingForHotReturn`), shadow stack, four debug registers, event and depth limits | one handler step per exception; `FinalizeHardwareTransition` ends or rotates at the root's return | it always watches an address the thread can reach next; branches are attributed to the right block |
| **Depth filter, probe** (`depth_filter/`, `probe/`) | the rules of a configuration, in order; one active stepping probe | parse and merge rules, look up the policy of an address, open and close a stepping window | a rule means what was entered; a window ends where it should and the trace goes on |
| **Extender** (`extender/`) | the registers at the last reported arrival, per thread; the static windows already written | walk a block again with known and unknown registers, report the addresses of its accesses | an access that is reported is one the thread made |
| **Static references, previews, observer, sampling, heap peek** | per-event scratch, caches | annotate an event | functions of code bytes and registers |
| **Async handoff** (`async/`) | one request slot, worker thread, target thread | `QueueRequest`, worker search, `TryActivate` | the trace follows the creating thread or the created one, never neither |
| **C interface** (`api/`) | handles | forwards to session and recorder | |

### 1.2 Around the core

| Component | State | Operations | What makes it correct |
|---|---|---|---|
| **Agent** (`agent/`) | `AgentState`: session, recorder, `has_valid_configuration_`; `IpcServer`: `running_`, server thread, one pipe instance | configure, start, stop, status, dump, memory, shutdown; one command per connection | a started session has a live recorder; a shut-down server is noticed |
| **Autostart** (`autostart/`) | INT3 wait: saved byte, `active`, `matched`, `step_over_count`, thread-local step flag; bootstrap flag | arm, breakpoint, single-step, settle, remove | the wait neither misses a match nor leaves a byte or a trap flag behind |
| **Control** (`control/`) | loader session: pid, process and library handles, deadline | inject, wait for loader pipe, send commands with retry | a command reaches the process it was meant for, once |
| **GUI** (`flutter_gui/lib`) | `VdTraceController`: busy flag, polled runtime state; `LoaderBridge`: sockets per pid | attach, load agent with timeout, start, stop, poll | what is shown comes to agree with the process, although late answers are applied too (section 8) |
| **Tools, BepInEx plugin** (`tools/`, `plugins/`) | command line; `_activated` | one command per process; activate once | |
| **Tests** (`tests/`), **vendored disassembler** (`third_party/`) | | | not part of the program's own logic |

### 1.3 How they interact

* A **traced thread** raises a single-step exception.  `GlobalVectoredHandler`
  loads `g_active_impl`, counts itself in, and calls `HandleException`: capture
  race, queueing, stale-step recovery, trigger wait, or the flow engine.  The
  engine calls `Enqueue` of the recorder *inside the handler*, so a full ring
  blocks the traced program.
* The **owner** (agent IPC thread or host program) calls `Configure`, `Start`
  and `Stop` under `state_lock`.  Handlers do not take that lock; `Stop` waits
  until `active_handler_count` is zero.
* The **refresh worker** arms threads created after the capture opened.  It is
  started and joined by the owner and by a handler that rotates the capture.
* The **recorder worker** reads the ring and pushes batches to the **writer**.
  The destructor stops the worker first and then the writer.
* The **async worker** arms a newly created thread and moves
  `active_thread_id` to it, without `state_lock`.

### 1.4 Hard behaviours

Several threads in one handler; a handler in flight over `Stop` and over the next
`Start`; contexts restored on return after another thread has rewritten the
registers; condition variables notified without their mutex; condition variables
notified by one party only; counters that move one after another; failures in
the middle of a batch; a two-second grace period; one pipe instance with many
clients; awaits interleaved with polling.  `PROJECT.json` lists them as `hazards`, each at
the line where it bites, with the properties that watch it.

## 2. Modules

| Modules | Composes | Abstract specification | Runs | Theorems |
|---|---|---|---|---|
| `EventLog`, `RecorderPipeline`, `MCRecorder`, `RecorderPipelineProofs` | producers, worker, writer, destructor | `EventLog`: a file that is a prefix of the accepted events | safety and refinement; no lost wake-up; two disagreements with comments and tests | types, ring, counters, queue, order, refinement |
| `TraceSession`, `MCSession`, `TraceSessionProofs` | owner, handlers, refresh worker | | safety over two sessions; liveness; two disagreements with the documentation | types, one winner, no arming after Stop, queue hits, given thread, engine's breakpoints |
| `AgentService`, `MCAgent`, `AgentServiceProofs` | IPC server, clients, host, agent state, recorder lifetime | | lifetime of the recorder, one server, clients and stop return; one disagreement | types, recorder lifetime, one server |
| `TracedThread`, `HardwareFlow`, `MCFlow`, `HardwareFlowProofs`, `FlowPathProofs` | a thread that runs a program, the processor's debug registers, the engine | what the thread executes, its real frames | edges, frames and breakpoints of the engine against those of the thread | types, expected exceptions, possible reports, frames of a stepped trace; for nested programs executed reports, frames, the thread not lost, the end with the root's return |
| `AutoStart`, `AutoStartProofs` | helper, breakpoint, threads of the game | | `support` | types, the breakpoint stays and is removed |
| `AsyncHandoff`, `AsyncHandoffProofs` | traced thread, new threads, worker, Stop | | `support` | types, armed threads are taken, a running session traces |
| `LoaderBridge`, `LoaderBridgeProofs` | accept loop, session loops, loaders, stop | | `support` | types, pipes are closed once |
| `TraceController`, `FilterRules`, `BlockExtender` | polls and actions; rules from the interface to the lookup; thread and extender | what the user typed; the accesses the thread made | `support` | |
| `MCSupport` | the six modules above, one subject in a behaviour | | `support` | |

`MCSupport` extends the modules that have proofs or only plain constants, so that a
property of the run is the definition the theorem states, and instantiates the others.
Their generic names therefore carry the module's name (`HandoffInit`, `BridgeTypeOK`).

## 3. The recorder

### 3.1 Correspondence

`RecorderPipeline` models `core/recorder/VDTraceFileSinkWorker.cpp`,
`VDTraceFileSinkWorkerProcess.cpp` and `VDTraceFileSinkWriter.cpp`.

| Model | Code |
|---|---|
| `Offer`, `StoreSlot`, `Publish`, `ProducerPark`, `ProducerSleep`, `GiveUp` | `Impl::Enqueue`: the test for room, the wait on `producer_cv`, the store into the slot, the new `write_index`, the notification when the ring was seen empty |
| `WorkerWake`, `Snapshot`, `FormatRun`, `Flush`, `EndDrain`, `Retire`, `CheckStop`, `FormatThrows` | `Impl::WorkerLoop`: wait, read both indices, format outside the lock, push batches, publish `read_index`, leave only when the ring is empty |
| `PushBatch`, `DropBatch`, `Throttle` | `Impl::EnqueueWrite`: limit, wait on `write_queue_cv`, which the writer waits on too, refusal |
| `PopBatch`, `BeginWrite`, `WriteText`, `CountWritten`, `WriterAborts` | `Impl::WriterLoop` with its abort and catch paths |
| `StopWorker`, `StopWriter`, `CloseFile` | destructor |
| `wake_lock`, `write_queue_lock` holders, sets of sleepers | `std::mutex`, `std::condition_variable`; a sleeper is woken by a notification or spuriously, and evaluates its predicate again with the mutex held |

Abstracted: an event is its producer, its sequence number and a merge key, and a line of
text is a number of bytes from `LineBytes`.  Debug lines and the summary the
destructor appends are file output without influence on the pipeline.
`StopWorker` assumes that no producer is inside `Enqueue`: `Session::Stop` has waited
for its handlers by then.

`EventLog` is the abstract promise: events are accepted in some order, the file
grows by the oldest accepted events that it does not hold, and a failure ends its
growth for good.  `ImplementsEventLog` is the refinement.

### 3.2 Runs

| Run | Shows |
|---|---|
| `rec_safety` | `RingHoldsUnread`: the slots between the indices hold exactly the published and unretired events.  `EveryEventCounted`: accepted events are in the ring, in a batch, or in one of the final counters.  `QueueBounded`: the queue's limit holds, except for a batch alone.  `InFlightInOrder`: text on its way to the file is in the order of acceptance, each event once.  `ImplementsEventLog` |
| `rec_live` | `AcceptedIsWritten`: with fair threads and no fault every accepted event is written and counted |
| `rec_drain` (violation) | a test waits for `IsWriting` to become false and then reads the file (`tests/session_smoke/session_smoke_trace_cases_recorder.cpp:66`); `IsWriting` is false for a moment while a popped batch is unwritten |
| `rec_abort` (violation) | a comment (`VDTraceFileSinkWriter.cpp:17`) says that the abort wakes the producers; a producer between its predicate and its sleep is not woken |

**Bounds.**  Two producers and three events: two compete for one slot while a third
event wraps the ring of three (two usable slots), so full, wrapped and empty rings
all occur.  A batch is flushed at two bytes and the queue holds two; lines have one
or three bytes, so batches that fit, that wait and that exceed the limit alone all
occur.  One key lets runs of mergeable events form.  Producers are interchangeable
in the safety run (symmetry); the liveness run uses none.  `CHECK_DEADLOCK FALSE`
because a closed recorder stops.

**Fairness.**  Weak fairness of each thread's steps: a thread that may run does.
Spurious wake-ups are switched off in `rec_live` because they would repair a missed
notification, and nothing obliges a thread to call `Enqueue`.

### 3.3 Proofs (`RecorderPipelineProofs`)

For every set of producers, ring capacity, batch and queue limit and set of faults:

* `TypeCorrect`: the type invariant.
* `NoUnreadSlotOverwritten`: `RingHoldsUnread`.
* `NoEventLeavesTheCounters`: `EveryEventCounted`.
* `QueueIsBounded`: `QueueBounded`.
* `TextInOrder`: `InFlightInOrder`.
* `Implementation`: the recorder implements `EventLog` (`ImplementsEventLog`).

The inductive invariant `IInv` adds what the two properties lean on.
`CursorInv` splits the distance between the two indices at the worker's private
position: what it has formatted and not yet retired, and what it has not formatted.  `LockInv` says that the
thread at a step under `wake_lock` holds it, so two producers are never both between
the test for room and the publication.  `PublishInv` says what a producer knows
between storing and publishing: the slot at `write_index` is its own and is not
unread.  `WriterHandsInv` fixes which batch the writer holds at which step.  The
lemma `FullMeansNoRoom` relates the code's test for a full ring (next index equals
read index) to the number of unread slots, including the wrap.

`OrderInv`, in the second half of the module, adds to `IInv` what order and queue lean on.
`BytesInv` says that no batch is empty, so that the byte counter tells an empty
queue.  `StopInv`, `WorkerInv` and `WriterInv` say in which order the threads stop and
what the worker holds at each step; without a fault neither leaves anything behind.
`PrefixInv` is the reason for the refinement: the file, and what the writer will still
append to it, are the oldest events of the log, also after a fault, when what comes behind
them is lost.  `ImplementsEventLog` then follows step by step: `Publish` accepts, a write
lets the file grow by the events accepted next, the end of the destructor closes, and
every other step stutters.

`BytesOf` and `TextOf` are recursive functions on `0 .. n`.  What they compute is
proved with the lemma `Induction`, which is derived from the well-foundedness of
inclusion on finite sets and takes a set where the library's theorems take a predicate.

Only model-checked: liveness.

## 4. The session and trigger capture

### 4.1 Correspondence

`TraceSession` models `Start`, `Stop` (`core/runtime/VDTraceRuntime.cpp`), the global
handler and its marks (`VDTraceRuntimeSupport.cpp`), the dispatch of
`core/decoder/VDTraceDecoder.cpp`, all of `core/trigger/`, and the places of
`core/hardware/` where a trace ends or rotates.

| Model | Code |
|---|---|
| `StartSession` ... `WatchCapture`, `StartFails` | `Impl::Start` step by step: join the old worker, reset, publish the session, open and arm the target or open a capture |
| `StopSession` ... `StopLeave` | `Impl::Stop`: lower `running`, join, release the capture, clear the traced thread, wait for handlers, deactivate |
| `Look`, `LookInList`, `Arm`, `Enlist` | `ArmTriggerCaptureThreads`, one thread at a time, run by the owner, by the refresh worker, or by a rotating handler.  The tests of the active, known and blocked thread, the test of the list under the lock, the arming, and the entry into the list are steps of their own, because other threads run in between |
| `LoadActive`, `LoadNone`, `Enter`, `LeftOpen`, `Continue` | `GlobalVectoredHandler`: the session pointer is loaded before the handler is counted; recent marks; return with the saved context |
| `EnterRace`, `WinRace`, `LoseRace`, `LoseRaceQueued`, `Promote`, `PromoteFails` | `HandleTriggerThreadCaptureException` and `PromoteCapturedTriggerThread` |
| `OtherQueues`, `OtherDetached`, `StaleStep`, `WaitedHit`, `BeginTrace`, `FlowStep` | the other branches of `HandleException` |
| `Rotate` ... `RotateWatch`, `RotateFails`, `RotateRaces` | `RotateQueuedTriggerTrace` inside the handler |
| `WorkerRound`, `WorkerArmed` | the refresh worker |
| `Expire` | the two-second deadline of `TryConsumeRecentStoppedSingleStep` |

A thread's registers (`dr`) and the context its handler will restore (`ctx`) are
separate variables: what another thread writes meanwhile is undone at `Continue`.
A single-step exception nobody claims ends the process (`unclaimed`: a session refused it,
`lost`: there was no session).  Two threads that start or join the refresh worker's
`std::thread` at the same time are a data race: the process is terminated
(`RotateRaces`) or one comes after the other.

Abstracted: `Configure` and `Start` are one choice of a kind of session (`Focuses`):
`direct` (a given thread, traced at once), `given` (a given thread, from the trigger
on), `single` (automatic selection), `queue` (automatic selection with a queue of
triggers).  The flow engine is one step that goes on, ends or fails.  The
comparisons at the head of `HandleException` are one step.  Failures to open or arm
individual threads appear only where they change the outcome (`StartFails`,
`PromoteFails`, `RotateFails`).  The trap-flag backend is in `HardwareFlow`, the
async handoff is in `AsyncHandoff`.  The branch of `HandleTriggerWaitException` that
re-arms at a return address inside the modules (`VDTraceTriggerWait.cpp:70`) is not
modelled (section 9).

### 4.2 Runs

| Run | Shows |
|---|---|
| `ses_safety` | two sessions of every kind on two threads.  `OneWinner`: never two threads between promotion and the start of a trace.  `GivenRecovers`: a given thread is lost only after the deadline.  `FlowIsActive`: a running thread with the engine's breakpoints is the active one.  `QueueClaimsHits`: queue mode refuses no hit, but one of the traced thread that was armed over the engine's breakpoints (`overtaken`, section 8).  `NoArmingAfterStop` |
| `ses_live` | `CallsReturn`: `Start`, `Stop` and handlers return as long as no two of them manage the refresh worker at once.  `LateThreadsAreArmed` |
| `ses_first_hit` (violation) | `README_CN.md:34` promotes the first thread that hits; a hit between arming and opening the capture is refused |
| `ses_queue` (violation) | `README_CN.md:138` says that later threads queue up and are handled in turn; a queued hit is counted and its thread armed again, so the hit itself is never traced |

`OneWinner` holds while every `Start` after the first follows a `Stop`
(`restarted` remembers otherwise).  A trace that ended by itself lets `Start`
succeed without `Stop`; then handlers of the old session may still be in flight,
because only `Stop` waits for them, and TLC finds two threads promoted at once.

**Bounds.**  Two threads give every race of the capture: one wins, the other
loses, queues, rotates, is created late or is left armed.  Two starts give handlers and
breakpoints that outlive a session.  `MaxCalls` bounds the hits of the trigger by all
threads together.  Three are the fewest with which the overtaken thread is refused: one thread's
hit starts a trace, and it must hit again; `ses_safety` has three (7 million states), the
other runs two.  `CHECK_DEADLOCK FALSE`
because the process may end and threads may never hit anything.

**Fairness.**  Weak fairness of a handler's steps, of the refresh worker and of a
call the owner has begun.  Nothing forces a thread to hit the trigger, to be created, or the
owner to call.  `ses_queue` adds that a traced function is left
again and that a rotation which is possible again and again happens, so that the
counterexample is not a trace that merely never ends.

### 4.3 Proofs (`TraceSessionProofs`)

For every finite set of threads, every set of kinds and any bounds:

* `SessionTypeCorrect`: `TypeOK`.
* `OneWinnerAlways`: `OneWinner`.
* `StopEndsArming`: `NoArmingAfterStop`.
* `QueueClaimsEveryHit`: `QueueClaimsHits`.
* `GivenThreadRecovers`: `GivenRecovers`.
* `EngineBreakpointsAreActive`: `FlowIsActive`.

The inductive invariant adds `StopInv` (once `Stop` has begun `running` stays
lowered, and after its join no worker arms threads), `QuietInv` (from the drain of
`Stop` to the next `Start` no handler is past its entry and no capture is open) and
`PromotedInv` (a thread between its promotion and its trace is `active_thread_id`,
so the compare-and-swap of any other thread fails).  `PromotedInv` alone is not
inductive: `Start` writes `active_thread_id` and is harmless only because `QuietInv`
says that nobody is being promoted then.

`QueueInv` is for queue sessions: the active thread has left the trigger behind, in its
saved context and, unless it was overtaken, in its registers and the exception it may have
raised.  Owner, worker and rotating threads arm threads at the same time; an armer that
looked at a thread before its promotion may arm it while it runs, which makes it overtaken,
or while it is still in its handler, which is undone when that handler returns with its context.
`FirstInv` is for the first session, where nothing of an earlier one is left: `FreshInv` says
what holds before it, `TargetInv` who covers a thread that was given (the handle until
`Stop` takes it, the mark of the recent stop from there), `PhaseInv` that its
breakpoints are those the session waits for, and `FlowInv` follows the engine's
breakpoints through contexts that are saved and written back.

Only model-checked: liveness.

## 5. The agent

### 5.1 Correspondence

`AgentService` models the IPC server (`agent/VDTraceAgentIpc.cpp`,
`VDTraceAgentIpcSupport.cpp`), the state behind it (`agent/VDTraceAgentState.cpp`), the
two exports through which the host starts and stops the server, and `SendCommand` of
`control/ipc_client/VDTraceControlSupport.cpp`.

| Model | Code |
|---|---|
| `RunBegin`, `CheckStop`, `CreatePipe`, `Connect`, `Connected`, `ReadFails`, `WriteAnswer`, `Flush`, `Leave` and the failures between them | `IpcServer::Run`, one call of Windows at a time |
| `Inquire`, `Configure` ... `ConfigureFails`, `Start`, `Stop`, `StopDone` | `HandleCommand` and the `State` function it calls.  `Configure` and `Stop` are two steps, because `Session::Stop` inside them waits for handlers |
| `StartServer` | `IpcServer::Start`, including a `CreateThread` that fails |
| `RequestStop`, `Wake`, `WakeGivesUp`, `CancelIo`, `WaitEnds` | `IpcServer::RequestStop` and its helpers.  The wait may time out at any moment, and `thread_` then stays set |
| `SendCommand` ... `Broken`, `Vanish` | a client: open, write, read without a timeout, close; its process may end at any point while it holds the pipe |
| `EnterHandler`, `EndTrace`, `LeaveHandler` | a traced thread that is inside the callback; the trace may end before the handler returns |
| `HandlerHangs`, `SessionHangs`, `RecorderHangs` | what may wait for ever: a handler in a recorder that missed its notification (section 3.2, `rec_abort`) or at the refresh worker; `Session::Start` and `Stop` joining that worker while a handler manages it; the recorder's destructor joining a worker that missed the stop flag.  The place is `hung`, nothing leaves it, and a second server cannot replace the one that is there |

The pipe has one instance: `none` (not created), `free`, `taken` by one client, or
`left` by it.  `CancelIo` ends whichever call the server waits in, or nothing
if it waits in none.  Recorders are numbered, so that a callback which names a destroyed
one is visible.

Abstracted: the session is a flag, a callback and one traced thread (`TraceSession`
has the rest); `inquire` stands for ping, status, module list, dump, memory and unknown
commands, which change neither session nor recorder; a payload is accepted or refused.
One host thread calls `Start` and `RequestStop`.  `WakeGivesUp` needs the server
to be waiting for a client or for a command: the 100 attempts, 10 ms apart, are long
compared with the server's own steps.

### 5.2 Runs

| Run | Shows |
|---|---|
| `agent_service` | `RecorderOutlivesHandler`: a handler inside the callback has the recorder its callback names.  `OneServer`: at most one thread serves, also when `Start` meets a thread that has not run yet or whose stop timed out.  `ClientsReturn`: a client returns, although it reads without a timeout, except the one whose own command is stuck; those that wait for the pipe return even then.  `StopEndsServer`: `RequestStop` ends the server from every place in `Run`, unless it is stuck in a command |
| `agent_stale` (violation) | configure, start, stop, start: `State::Stop` destroys the recorder, keeps `has_valid_configuration_`, and the second session writes to a destroyed recorder |

`RecorderOutlivesHandler` holds while a `Configure` comes between a `Stop` and the
next `Start`; `stale` remembers the other case, which `agent_stale` shows.

**Bounds.**  Two clients compete for one instance; four commands in all reach configure,
start, stop and shutdown in one behaviour.  Three host calls reach start, stop and
start again, which needs the second of two threads.  Two recorders let a second
configuration replace the first.  `CHECK_DEADLOCK FALSE` because a server without
clients waits.

**Fairness.**  Weak fairness of the server's, a client's and the host's own steps, and of a
handler's return while it is not hung.  Nothing forces a command, a call of the host, an end
of a client's process or a handler to begin.  A step that may hang is enabled beside the one that
goes on, so fairness does not promise that `Configure` and `Stop` end: `Stuck` names the
states in which they do not, and the liveness properties say what still happens then.

### 5.3 Proofs (`AgentServiceProofs`)

For every set of clients, every finite set of server threads and any bounds:

* `AgentTypeCorrect`: `TypeOK`.
* `RecorderOutlives`: `RecorderOutlivesHandler`.
* `OneServerAlways`: `OneServer`.

The inductive invariant adds three parts.  `ServerInv`: a thread that serves is the one in
`thread_`, so a second one cannot be created.  `StoppedInv`: while `Configure` or `Stop`
waits for the drain the session is stopped, and a configuration that is being
replaced is not valid; it rests on `ServerInv`, because only a second server could
start the session then.  `RecorderInv`: a valid configuration that no `Stop` has used up,
a running session and a handler each have the recorder that the callback names.

Only model-checked: `ClientsReturn` and `StopEndsServer`.

## 6. The engine

### 6.1 Correspondence

`TracedThread` is the thread: it runs one of a few small programs (straight code, calls,
returns, conditional and indirect jumps, system calls, thread creation), with a stack, four debug
registers and the trap flag, and remembers the transfers it has `executed`.  It also
holds what a depth rule makes of a call or a step (`VDTraceExecutionMode.cpp`,
`VDTraceDepthFilterResolve.cpp`).  `HardwareFlow` is the engine of `core/hardware`, the
trap-flag decoder of `core/decoder`, and the opening and closing of stepping windows in
`core/probe` and `core/observer`.  One action is one exception, from the handler's entry to
its return:

| Model | Code |
|---|---|
| `RunThread` | the processor: executes until a debug exception is due |
| `Triggered` | `HandleTriggerWaitException` and the start of the flow at the entry |
| `FlowOpensWindow` | a probe, or code that is to be stepped, met by the flow engine |
| `Scan`, `Stepped`, `TailHit`, `DestinationHit`, `HotReturnHit` | `HandleHardwareFlowException` by its observation state: linear scan, the step over a block's last instruction, that instruction, a destination, the exit of a hot loop |
| `HandoffRequested` | a call of a thread creation function: the handoff is queued |
| `StepsOn`, `StepHandsOff`, `WindowCloses` | the trap-flag decoder with a step inside a window, and at its end |
| `Plan`, `Program` | `ProgramHardwareObservationImpl`: the addresses to watch for a block |
| `NewStack`, `RootReturn`, `Heat`, `ArmsBypass` | `FinalizeHardwareTransition`: call stack, end at the root's return, suppressed transitions |

Abstracted: an address is a number and an instruction is its kind and targets; event
annotations, values that probes capture, and memory that write probes compare are data.
Other threads and `Stop` are in `TraceSession`, what the worker does with a queued
handoff is in `AsyncHandoff`.

### 6.2 Run `flow`

`ExceptionsAreExpected`: an exception of the thread is one the engine knows how to take, and
a stopped trace leaves nothing armed.  `ReportedWasExecuted`: a reported edge was
executed.  `ReportedIsPossible`: a reported edge is one the program has, and one with an
unknown target was executed.  `ShadowStackIsReal`: the engine's frames are the thread's.  `NotLost`: in a
frame it follows the thread is stepped, or on its way through the pending block.
`RootReturnEndsTrace`: a trace that is to stop with its root function has stopped when the root
has returned, and not before unless it reached its limit of events.  `FaultsEnd`: the thread
is never caught at one address for ever.

Four history variables remember where the code itself loses count or gives up (section 8):
`uncounted` (a frame was not counted), `left_unseen` (a window closed with the root's
return), `handed` (a handoff took the trace), and `refused` (the linear scan stopped the
trace at bytes it could not decode).  The properties hold outside of them.

**Bounds.**  A block has at most four instructions (256 in the code), so that blocks that are
too long occur in a program of a dozen; three frames give a callee's callee, and with
depths 0, 1 and 9 calls on both sides of the limit.  Nine combinations of programs, rules and probes run
with and without `control_flow_only`, with `FirstSeen`, where loops become hot, and with
`EveryHit` and a limit of four events.  `CHECK_DEADLOCK FALSE`: programs end.

**Fairness.**  The thread runs, and a handler that has been entered returns.

### 6.3 Proofs (`HardwareFlowProofs`, `FlowPathProofs`)

`ScenarioAssumption` says of the programs that direct transfers have one target, that only a
transfer has targets, that the traced function is called from code of no interest, and that the
thread ends with its return; limits are numbers and probes are at addresses.  The
bounds are any.

**For every program** (`HardwareFlowProofs`):

* `EngineTypeCorrect`: `TypeOK`.
* `ExceptionsAlwaysExpected`: `ExceptionsAreExpected`.
* `ReportsArePossible`: `ReportedIsPossible`.
* `StepStackIsReal`: `ShadowStackIsReal` for a trace that is single-stepped throughout
  (`control_flow_only` off).

None of these assumes that the engine keeps track of the thread.  `ArmedInv` says that the
thread is stepped with no address watched, or not stepped with the addresses on record in
its registers, and that nothing is armed after the end; it needs no assumption on the program at
all.  `PlanInv` ties the pending block to its plan: what is watched are arrivals of the
block's last instruction, an override is that instruction's target, and during the step over
an instruction of unknown target the thread is at it, or has just made the transfer
that will be reported.  Arrivals by callback or recursion are all the same to it, which
is why `ReportedIsPossible` holds where `ReportedWasExecuted` does not.
`FrameInv` states `ShadowStackIsReal` between two steps (`Before`) and between a step
and its exception (`After`, where the engine is one instruction behind), and that a
probe's window never changes the way a stepped trace is followed.

**For every nested program** (`FlowPathProofs`):

| Theorem | Hypotheses | States |
|---|---|---|
| `ReportsWereExecuted` | `Nested` | `ReportedWasExecuted` |
| `ShadowStackIsTrue` | `Nested`, or stepped throughout | `ShadowStackIsReal` |
| `ThreadIsNotLost` | `Nested`, or stepped throughout | `NotLost` |
| `NothingElseStopsTheTrace` | `Nested`, or stepped throughout | a trace without a limit that has counted every frame stops only at the address the root returns to, with no frame left, or where the decoder refuses |
| `RootReturnIsSeen` | the same, `RootIsRecorded`, and `NotHot` unless it is stepped throughout | `RootReturnEndsTrace` |

A breakpoint is met by whatever runs over it, and not only by the frame it was set for, so
these cannot hold for every program.  The hypotheses speak of the program and its options
alone, and each excludes a behaviour the engine really has (section 8):

* `Levels`: the code has levels, a call goes to a higher one, and everything else stays on
  its own.  So nothing is recursive, directly or by way of other functions, and no function
  jumps into another.
* `Limits`: what an indirect call reaches without being followed calls nothing that would be
  followed, so there is no callback through a table; and the block behind an indirect call can
  be planned.  Direct calls to code that is not followed need no such condition, because the
  engine awaits their return before it plans the block behind them.
* `RootIsRecorded`: the traced function's own code, not what it calls, is recorded.  Otherwise
  it may return from where nothing is observed.
* `NotHot`: no loop is left to run to its exit (`EveryHit`, or no threshold).  A loop of the root
  that is left to its exit may return from the root without the breakpoint being met.

Every program of `MCFlow` is nested, with the block of ten addresses as its level, and has its
root recorded; the runs' `EveryHit` options meet `NotHot`, the others do not.  So `flow` checks
the properties also where `RootReturnIsSeen` does not reach.

The invariant behind the table is `PathInv`, one formula for each state of the engine saying
where the thread can be.  While a block is pending, the thread is in it
(`Home`), or behind a call at its end, in code that is not followed, with the block still to come
(`Behind`), or on its way back to the awaited fallthrough (`Returning`), or already at
the destination that is about to be reported (`Arrived`).  A window or a scan is at
the instruction it takes itself to be at (`Windowed`, `Scanning`), and a hot loop is left
to the frame that entered it (`HotFrame`).  Levels are what makes it inductive: in a nested program
the frames on the stack have strictly increasing levels (`ByLevel`), so the thread can be at an
address of the pending block in one frame only, and `Behind` and `Home` cannot be
confused.  `Unfollowed` carries the limits down the callee's own calls.

The end of the trace takes four more.  `RootFrame` and `RootReturnIsLast`: as long as
the root has not returned, its frame is at the bottom, in the root's code, and no transfer has led
to its return address.  `SuppressionInv`: the decoder's stack of suppressed frames never
outgrows the counted frames.  `StoppedInv` is `NothingElseStopsTheTrace`.  `EndInv`: between the
root's return and the end of the trace the thread is at that very step (`ReturnIsSeen`).

All of these invariants were evaluated by TLC on `MCFlow` and on several hundred randomly generated nested
programs before they were proved; several of the behaviours in section 8 were met that way,
as counterexamples with a hypothesis left out.

Only model-checked: `FaultsEnd` (liveness); and, for the programs of the run alone,
`RootReturnEndsTrace` with hot loops.

## 7. Around the tracer: run `support`

`MCSupport` puts six subjects into one run; in a behaviour one of them moves and the others
rest in their initial states.

| Subject | Models | Properties |
|---|---|---|
| `AutoStart` | `autostart/`: the bootstrap exports, the helper's thread from its configuration to the started trace, the INT3 wait, the vectored handler with several threads, writes of the byte that fail unnoticed, the settling and its deadline | `BreakpointStays`: while the helper waits, the byte is in place unless a thread is on its way to write it again or to announce the match, or has failed to write it.  `BreakpointRemoved`: after a settling that missed nobody and a write that did not fail, the code is as it was and nobody writes to it.  `HelperEnds` |
| `AsyncHandoff` | `core/async` with the dispatch of its exceptions: one slot, the worker's search by id, by handle, among unknown threads; arming, storing, detaching; `Stop` | `ArmedIsTaken`: exceptions of every armed thread are taken.  `RunningTraces`: a running session with an idle worker traces a thread.  `StopReturns` |
| `LoaderBridge` | `flutter_gui/lib/src/loader_bridge.dart`, `loader_pipe_transport.dart`: accept loop, session loops, stop; what lies between two awaits is one step, the blocking calls run on handle values that may be reused | `PipesClosedOnce`: nobody closes another one's handle and all are closed in the end.  `HelloBecomesVisible` |
| `TraceController` | `vdtrace_controller*.dart`: selection, polls that overtake each other or fail though the agent is there, one action at a time | `ViewSettles`: when the world rests, the interface comes to show it |
| `FilterRules` | `depth_filters.dart`, the autostart file's rules, `core/depth_filter`, and the parsing of `core/probe` | `RulesAsEntered`: what a lookup or a probe does is what was typed, stated without the parser's steps; with the base in which each field's numbers are read, and the watches of a probe as far as the array holds them |
| `BlockExtender` | `core/extender`: the walk of a block from the registers kept for the thread, with values known and unknown, an overlay of stores, and what is reported | `AccessesAreReal`: a reported access was made by the thread, but for the cases in section 8 |

`BlockExtender` models one thread's slot (slots are per thread) and one operation of each
form in three widths.  Probe, summarised and minimal events, segment bases, shifts,
failed decoding and the printed bytes are left out.  The event policy is one of
`FirstSeen` and `EveryHit`.

**Bounds.**  Autostart: two threads, three invocations, one export in a behaviour; a thread can be
between breakpoint and step while another does the same; one write of the byte fails.  Handoff: three threads, so that a request
meets one under way and a handoff follows a handoff; one search attempt gives success
and failure; only the second thread ends, and the first creates only it.  Bridge: one
loader process, two handle values over three pipes, so that a value is reused; one message.
Controller: two processes, two polls on their way, four changes of the world, of which a command
that fails is one.  Rules: three rules
altogether; the numbers around `Unlimited` are both ends of the depth's range, two texts have
different values in base 10 and base 0 (`Octal`, `Hex`), and
probes reach three captures and four watches in an array of three.  Extender: words of two digits to the base four, eight blocks with
at most six instructions (256 in the code), three runs of blocks, which are an arrival, a
run from it, and a repetition that is suppressed or stores elsewhere.  `CHECK_DEADLOCK FALSE`: every subject comes
to rest, and the game, or the traced process, may end.

**Fairness.**  The helper's thread; the handoff worker and the end of a `Stop`; the
accept loop and every session loop; polls, answers, the module refresh and the
action the user has begun.  Nothing forces a thread, a loader or the user to act.

### 7.1 Proofs

`AutoStartProofs`, for any finite set of threads and any number of invocations:
`TypeCorrect`, `BreakpointStaysInPlace`, `BreakpointIsRemoved`.  The inductive
invariant allows every write but the first to fail unnoticed, and adds `CountCovers` (the count is at least the number of threads that are
counted in and not out, which takes a cardinality argument at each step),
`ActiveInWait`, `Early`, `NobodyLeft` (after a complete settling nobody is on the
way) and `SomebodyReturns`, which is `BreakpointStays` with the reason: a thread that
put the byte back is still to return, or has failed to write the breakpoint again.

`AsyncHandoffProofs`, for any numbers of threads and attempts: `TypeCorrect`,
`ArmedThreadsAreTaken`.  The inductive invariant adds `InHandoff` (which thread the
worker holds at which step), `HandleOfActive` and `ArmedIsOwned`, which names the owner of
every armed thread: the active one, a detached one, the worker's target, the stopped one, or
one that was forgotten.  `RunningSessionTraces` is `RunningTraces`.  `TraceInv` follows the active
thread and the worker's target: once armed, a thread stays so until it ends, and only an
exception that asks for a handoff lets the active one go, which leaves a request waiting.
The theorems assume at least one thread (`Bounds`).

`LoaderBridgeProofs`, for any handle values, loaders and numbers of pipes and messages:
`BridgeTypeCorrect`, `PipesAreClosedOnce`.  Its one assumption is that no pipe has the null
handle.  The inductive invariant `PipeInv` gives every pipe one owner: whoever has not closed
its pipe (a session's loop, or the accept loop before the stop has closed its server) finds its
own number at the handle, and every pipe that exists has such an owner whose loop has not
ended.  A second hello, the stop and a session's end close each through that owner's
mark, so that the reuse of a handle's value does no harm to a close; to a read it does
(section 8).

Only model-checked: the controller, the rules, the extender and liveness.

## 8. Behaviours worth knowing

What the models do because the code does it, and what a reader might not expect.  The
properties exclude these cases by name.

**Engine.**
* A probe or a stepped module at the destination of a block opens its window before the
  transition is finalised (`VDTraceHardwareException.cpp:61`): the transition is not
  reported and a call or return in it is not counted.
* `RestoreHardwareFlowAfterTrapWindow` may open the next window, after which
  `last_rip_valid` is cleared (`VDTraceDecoder.cpp:188`): the first step is charged to the
  wrong instruction.  A window that ends with the root's return does not stop the trace.
* `hot_bypass_root_stop` is never true, and the comparison of `hot_bypass_call_depth` always
  holds.  A bypass armed at a stepped indirect jump is overwritten by the next plan.
* A block that jumps to itself is reported when it is entered.
* After a stepped call whose handoff failed, the arrival at the fallthrough is reported
  as a call edge.
* At the depth limit a recursion can hit the fallthrough breakpoint in an inner frame.
* After a stepped call whose target is not followed, the block behind it is planned at once
  (`VDTraceHardwareTransition.cpp:52`, `VDTraceHardwareException.cpp:150`), while the thread is
  still in the callee; a direct call is awaited at its return first
  (`VDTraceHardwareSupport.cpp:153`).  A callback into the function that block calls is then
  reported as its call, and a frame is pushed for it.  With a system function that is
  called through a table and calls back, TLC finds `ReportedWasExecuted` violated in
  eight states; such programs are not among the run's.
* A root function that leaves by a tail jump into code that is not recorded returns from
  there, and the trace does not stop.
* When the block behind a stepped call that is not followed cannot be planned (too long, a probe
  in it, or odd bytes), the linear scan starts while the thread is in the callee and steps
  through it.  The callee's return is then handled like one of the caller's: it pops a frame or, in the root,
  ends the trace.
* A handoff requested on arrival at the entry of a followed function leaves its frame
  uncounted (`VDTraceHardwareException.cpp`, the destination state), although the trace
  stays with the thread when the handoff fails.
* A loop of the root that became hot and is left otherwise than by its fallthrough, a
  return inside it for instance, leaves the root without an exception: the trace goes on without
  events until the address is met again.

**Handoff.**  A reset clears the detached threads, so chains of handoffs forget an armed
thread; there are windows between arming, storing and detaching in which an
exception is nobody's (`VDTraceAsyncThreadState.cpp:120`).  A failed activation drops the
old handle, which `Stop` then does not clear.  In trap-flag mode the old thread is let go
even if the worker finds no new one.

**Autostart.**  A thread is counted only after it has put the byte back
(`VDTraceAutoStartWait.cpp:80`, `:96`), so the settling can miss it and the
breakpoint returns; a thread that meets it twice is counted twice and
subtracted once.  A breakpoint exception delivered after `active` was lowered is refused.
Only the first caller of `ProtectAndWriteByte` looks at its result: when a thread cannot write
the breakpoint again (`VDTraceAutoStartWait.cpp:56`) the wait ends with its timeout, and when the byte
cannot be restored at the end (`:201`) the breakpoint stays without a handler.

**Loader bridge.**  `_closePipe` calls `FlushFileBuffers` (`loader_bridge.dart:323`) on the event loop
and waits until a connected loader has read what was written; `HelloBecomesVisible` takes it that it does.  The loop of a dropped session still reads its old handle value
(`loader_bridge.dart:171`) and takes a message of the session that has it now.  A send
that timed out still writes on the value.  Not modelled: a bridge started again after `stop`.

**Controller.**  A status answer is applied to whatever is selected by then, and an older one after a
newer one; one that comes after the last session has gone leaves `traceRunning` set.
`ViewSettles` says that this passes, not that it does not happen.

**Rules.**  A second `watch=` in a probe can exceed the array of four
(`VDTraceProbeObserver.cpp:209`): the fifth watch overwrites what lies behind the
parser's local variable.  The model lets the process end there or go on, and in the
second case the observer, which compares with the array's size as well
(`VDTraceObserver.cpp:143`), watches the first four.  What else the write may destroy is not modelled.
The same digits mean different depths in different fields: the autostart file's areas are
read in base 0 (`VDTraceAutoStartConfigText.cpp:196`: 010 is eight, 0x10 sixteen, 08 is refused), its
module rules and the command line in base 10 (`VDTraceDepthFilter.cpp:49`: 010 is ten, 0x10 is
refused), the interface's fields by Dart's `int.parse` (010 is ten, 0x10 sixteen).
A failed `Configure` leaves half of the new rules.
Two spellings of a module pass the interface's test for duplicates, and the later
rule wins.  A depth of n in the interface means n-1 levels, while the autostart
file's numbers are taken as they are.

**Extender.**  Arrivals suppressed by `FirstSeen` leave older registers for a block, so
loops report addresses of an earlier round.  Hidden operands (push, pop,
one-operand multiplication) leave registers known and unchanged; a partial write to an
unknown register makes all of it known; stores of unknown values, read-modify-write and
overlapping stores leave the overlay as it was; memory is read later than the thread read it.

**Session and agent.**  `ArmTriggerCaptureThreads` holds no lock between its tests
(`VDTraceTriggerCaptureSupport.cpp:110`) and its arming (`:147`).  A thread that is promoted and runs
on in between has its engine's breakpoints replaced by the trigger's: the trace stands still, and
the next hit of the trigger is refused by `HandleHardwareFlowException`.  `Configure`, `Start` or `Stop`
of the agent may wait for ever (section 5.1), and their client with them, for it reads without a
timeout.  In `single` mode the armed losers of a released capture are refused
when they hit later; a thread that rotated is in no list until its next hit, so
a `Stop` leaves it armed; a handler counts itself in only after it has loaded
the session pointer; a failed `Configure` leaves the new options in place; after
`Shutdown` a later `Start` of the server answers true without one.

## 9. Limits

Liveness under fairness is left to TLC, as is anything that needs `ENABLED`: the provers at
hand do not handle them.  Induction is proved where a recursive function runs over an
interval of numbers (section 3.3); what the folds of `FilterRules` and `BlockExtender` compute is
compared with their references by TLC over the inputs of the run.  So the invariants
`RulesAsEntered` and `AccessesAreReal`, which speak of what those folds return, stay with TLC, and
with them `TypeOK` of `MCSupport`, which joins the types of six modules; those of
`AutoStart`, `AsyncHandoff` and `LoaderBridge` are proved on their own (section 7.1).

Left out of modules that model the code around it:

* the re-arming at a return address inside the modules when the trigger is outside of them
  (`VDTraceTriggerWait.cpp:70`).  The modelled thread's traced function is called from code of no
  interest, so the branch finds no such address;
* the end of a session object while one of its handlers is between loading the pointer and
  counting itself in (`VDTraceRuntimeSupport.cpp:157`): sessions of the model are never destroyed;
* a `FlushFileBuffers` that blocks the interface (section 8), and a ping that fails though the agent is there;
* two threads that change the protection of the awaited byte's page at once (`VDTraceAutoStartWait.cpp:27`):
  a write is one step, done or failed.

Not modelled, and why: line wording, previews, static references, observer records, heap
peek and sampling (sequential functions of one event, no state that
outlives it); the depth filter's cache of memory regions; the C interface
(forwards); the agent's dump and memory commands (sequential, byte-level); the GUI's
widgets and window runner (presentation); command-line tools beyond the depth
filter option (one command per process); the loader's own session and injection (a
sequence of system calls); the vendored disassembler.

## 10. Running

```
tlc -workers 2 -config MCRecorderSafety.cfg MCRecorder
tlc -workers 2 -config MCSessionSafety.cfg MCSession
tlc -workers 2 -config MCAgentService.cfg MCAgent
tlc -workers 2 -config MCFlow.cfg MCFlow
tlc -workers 2 -config MCSupport.cfg MCSupport
tlapm RecorderPipelineProofs.tla
tlapm TraceSessionProofs.tla
tlapm AgentServiceProofs.tla
tlapm AutoStartProofs.tla
tlapm AsyncHandoffProofs.tla
tlapm LoaderBridgeProofs.tla
tlapm HardwareFlowProofs.tla
tlapm FlowPathProofs.tla
```
