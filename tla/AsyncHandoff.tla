---------------------------- MODULE AsyncHandoff ----------------------------
(***************************************************************************)
(* The trace follows a thread that the traced thread creates (src/core/    *)
(* async).  The exception handler of the traced thread leaves a request in *)
(* a single slot; a worker thread takes it, looks for the new thread -- by *)
(* its id, by its handle, at last among the threads that nobody knows --   *)
(* arms it, and makes it the active one.  All of this while the old thread *)
(* runs on with its own breakpoints, and while a Stop may come.            *)
(*                                                                         *)
(* A thread's debug exceptions are taken when it is the active one, or one *)
(* of the detached ones; any other ends the process.                       *)
(***************************************************************************)
EXTENDS Integers, FiniteSets

CONSTANTS
  MaxTasks,        \* bound: threads of the process
  MaxAttempts      \* bound: for the 200 attempts of the search

\* The threads, in the order of their creation; the first is traced first.
Tasks == 1 .. MaxTasks
Root == 1
NoThread == 0

VARIABLES
  backend_mode, running, waiting_for_trigger,
  active_thread_id, thread_handle,     \* whom the session believes it traces
  known_thread_ids, detached_thread_ids,
  slot, request_pending,               \* async_handoff_entry, _thread_id, ...
  worker, job,                         \* the worker, and what it works on
  async_handoff_worker_stop, stopping, \* Stop, by another thread
  recent_stop,                         \* g_recent_stop_thread_id
  place, made,                         \* where each is; what it has just created
  armed,                               \* its debug registers and trap flag
  forgotten,       \* history: armed, and dropped by a reset or a failure
  gave_up,         \* history: a request that let the old thread go has no answer
  unhandled        \* history: the thread whose exception nobody took

sessionVars == <<backend_mode, running, waiting_for_trigger, active_thread_id, thread_handle,
                 known_thread_ids, detached_thread_ids, recent_stop>>
workerVars == <<worker, job>>
placeVars == <<place, made>>
handoffVars == <<sessionVars, slot, request_pending, workerVars, async_handoff_worker_stop, stopping,
          placeVars, armed, forgotten, gave_up, unhandled>>

Empty == [entry |-> FALSE, id |-> NoThread, handle |-> NoThread]
\* The copied request, the way it is tried by, the thread that is being activated and
\* the one that was active before, and the attempts of the search.
Job(request) == [request |-> request, via |-> "id", target |-> NoThread, previous |-> NoThread,
                 attempts |-> 0]

Alive(t) == place[t] \in {"start", "inside", "outside"}

\* After Start: the worker waits, the root thread is traced.
HandoffInit ==
  /\ backend_mode \in {"HardwareFlow", "TrapFlagContext"}
  /\ running = TRUE /\ waiting_for_trigger = FALSE
  /\ active_thread_id = Root /\ thread_handle = Root
  /\ known_thread_ids = {Root} /\ detached_thread_ids = {}
  /\ slot = Empty /\ request_pending = FALSE
  /\ worker = "wait" /\ job = Job(Empty)
  /\ async_handoff_worker_stop = FALSE /\ stopping = "no"
  /\ recent_stop = NoThread
  /\ place = [t \in Tasks |-> IF t = Root THEN "inside" ELSE "unborn"]
  /\ made = [t \in Tasks |-> NoThread]
  /\ armed = [t \in Tasks |-> IF t = Root THEN "flow" ELSE "none"]
  /\ forgotten = {} /\ gave_up = FALSE /\ unhandled = NoThread

-----------------------------------------------------------------------------
(* The process's threads.                                                  *)

Move(t) ==
  /\ \/ place[t] = "inside" /\ place' = [place EXCEPT ![t] = "outside"]
     \/ place[t] = "start" /\ armed[t] # "entry" /\ place' = [place EXCEPT ![t] = "inside"]
     \/ place[t] = "outside" /\ armed[t] # "return" /\ place' = [place EXCEPT ![t] = "inside"]
  /\ made[t] = NoThread
  /\ UNCHANGED <<sessionVars, slot, request_pending, workerVars, async_handoff_worker_stop,
                 stopping, made, armed, forgotten, gave_up, unhandled>>

Exit(t) ==
  /\ place[t] = "outside" /\ made[t] = NoThread
  /\ place' = [place EXCEPT ![t] = "dead"]
  /\ armed' = [armed EXCEPT ![t] = "none"]
  /\ UNCHANGED <<sessionVars, slot, request_pending, workerVars, async_handoff_worker_stop,
                 stopping, made, forgotten, gave_up, unhandled>>

\* By t, which comes back from the creation, or by a thread that is none of these.
Create(n) ==
  /\ place[n] = "unborn" /\ place[n - 1] # "unborn"
  /\ place' = [place EXCEPT ![n] = "start"]
  /\ \/ UNCHANGED made
     \/ \E t \in Tasks : /\ place[t] = "inside" /\ made[t] = NoThread
                         /\ made' = [made EXCEPT ![t] = n]
  /\ UNCHANGED <<sessionVars, slot, request_pending, workerVars, async_handoff_worker_stop,
                 stopping, armed, forgotten, gave_up, unhandled>>

-----------------------------------------------------------------------------
(* The exception handler, on thread t.                                     *)

\* Where t stands on something that is armed.
Raises(t) ==
  \/ armed[t] = "flow" /\ place[t] = "inside"
  \/ armed[t] = "entry" /\ place[t] = "start"
  \/ armed[t] = "return" /\ place[t] = "outside"

\* An armed entry and an armed return are on the way inside.
Comes(t) == place' = [place EXCEPT ![t] = "inside"]

NotTaken(t) ==
  /\ unhandled' = t
  /\ UNCHANGED <<sessionVars, slot, request_pending, place, made, armed, forgotten>>

\* Its debug registers and its trap flag are cleared.
Released(t) ==
  /\ armed' = [armed EXCEPT ![t] = "none"]
  /\ forgotten' = forgotten \ {t}
  /\ Comes(t)
  /\ made' = [made EXCEPT ![t] = NoThread]
  /\ UNCHANGED <<slot, request_pending, unhandled>>

\* No session any more: the thread it traced last is remembered for a while.
AfterStop(t) ==
  /\ stopping = "done"
  /\ IF recent_stop = t THEN Released(t) /\ UNCHANGED sessionVars ELSE NotTaken(t)

\* Another thread than the active one.
OfOther(t) ==
  /\ stopping # "done" /\ t # active_thread_id
  /\ IF t \in detached_thread_ids
     THEN /\ Released(t)
          /\ detached_thread_ids' = detached_thread_ids \ {t}
          /\ UNCHANGED <<backend_mode, running, waiting_for_trigger, active_thread_id,
                         thread_handle, known_thread_ids, recent_stop>>
     ELSE NotTaken(t)

\* TryConsumeStaleSingleStep.
Stale(t) ==
  /\ stopping # "done" /\ t = active_thread_id /\ ~running
  /\ Released(t)
  /\ waiting_for_trigger' = FALSE
  /\ UNCHANGED <<backend_mode, running, active_thread_id, thread_handle, known_thread_ids,
                 detached_thread_ids, recent_stop>>

\* HandleTriggerWaitException: at the trigger the trace begins.  A breakpoint that is
\* not at the trigger's address is refused; the trigger may have been set for another
\* thread, and at the same address or not.
TriggerHit(t) ==
  /\ stopping # "done" /\ t = active_thread_id /\ running /\ waiting_for_trigger
  /\ \/ /\ armed[t] \in {"entry", "return"}
        /\ waiting_for_trigger' = FALSE
        /\ armed' = [armed EXCEPT ![t] = "flow"]
        /\ Comes(t)
        /\ UNCHANGED <<backend_mode, running, active_thread_id, thread_handle, known_thread_ids,
                       detached_thread_ids, recent_stop, slot, request_pending, made, forgotten,
                       unhandled>>
     \/ thread_handle # t /\ NotTaken(t)

\* The thread is traced further: its next breakpoints, or its next step.  It may be
\* back from a creation that it has no news of: neither id nor handle.
Traced(t) ==
  /\ stopping # "done" /\ t = active_thread_id /\ running /\ ~waiting_for_trigger
  /\ made[t] # NoThread \/ armed[t] # "flow"
  /\ made' = [made EXCEPT ![t] = NoThread]
  /\ armed' = [armed EXCEPT ![t] = "flow"]
  /\ Comes(t)
  /\ UNCHANGED <<sessionVars, slot, request_pending, forgotten, unhandled>>

\* TryActivateAsyncThreadHandoff and QueueAsyncHandoffRequest: the slot is overwritten.
\* With breakpoints the request is made after the call, and names the new thread; the
\* handler then programs the old thread all the same.  With the trap flag it is made
\* before the call is executed, from what the variables held before -- any thread's id --
\* and the old thread is let go.
Mutant_LetsGoAlways(t) == "none"
AfterRequest(t) == IF backend_mode = "HardwareFlow" THEN "flow" ELSE "none"

\* The handle, which gives the id, or else the id the call has stored.
Named(t) == IF backend_mode = "HardwareFlow" THEN {made[t]} \ {NoThread}
            ELSE {n \in Tasks : place[n] # "unborn"}

Request(t) ==
  /\ stopping # "done" /\ t = active_thread_id /\ running /\ ~waiting_for_trigger
  /\ armed[t] = "flow"
  /\ \E id \in Named(t) : \E handle \in {id, NoThread} :
       slot' = [entry |-> TRUE, id |-> id, handle |-> handle]
  /\ request_pending' = TRUE
  /\ armed' = [armed EXCEPT ![t] = AfterRequest(t)]
  /\ made' = [made EXCEPT ![t] = NoThread]
  /\ UNCHANGED <<sessionVars, place, forgotten, unhandled>>

Exception(t) ==
  /\ Raises(t)
  /\ AfterStop(t) \/ OfOther(t) \/ Stale(t) \/ TriggerHit(t) \/ Traced(t) \/ Request(t)
  /\ UNCHANGED <<workerVars, async_handoff_worker_stop, stopping, gave_up>>

-----------------------------------------------------------------------------
(* The worker: StartAsyncHandoffWorker's loop.                             *)

Quiet == UNCHANGED <<async_handoff_worker_stop, stopping, placeVars, unhandled, recent_stop,
                     backend_mode>>

\* The wait of the worker ends with a request or with the stop flag.
Mutant_LeavesWithRequest == async_handoff_worker_stop /\ request_pending
Leaves == async_handoff_worker_stop

\* What is left in the slot is not read again.
Take ==
  /\ worker = "wait"
  /\ IF Leaves
     THEN worker' = "ended" /\ UNCHANGED <<job, slot, request_pending>>
     ELSE /\ request_pending
          /\ request_pending' = FALSE /\ slot' = Empty
          /\ job' = Job(slot)
          /\ worker' = "try"
  /\ UNCHANGED <<running, waiting_for_trigger, active_thread_id, thread_handle,
                 known_thread_ids, detached_thread_ids, armed, forgotten, gave_up>>
  /\ Quiet

\* By id, by handle, by search: each way only when the one before has failed.
NextWay == [id |-> "handle", handle |-> "search", search |-> "search"]
Fails == /\ worker' = "try"
         /\ job' = [job EXCEPT !.via = NextWay[@],
                               !.attempts = IF job.via = "search" THEN @ + 1 ELSE @]

\* TryFindNewProcessThread: the newest of the threads that are not known.
Unknown == {t \in Tasks : Alive(t) /\ t \notin known_thread_ids}

Candidates ==
  CASE job.via = "id" -> {job.request.id} \ {NoThread}
    [] job.via = "handle" -> {job.request.handle} \ {NoThread}
    [] OTHER -> {t \in Unknown : \A u \in Unknown : u <= t}

Searches == job.attempts < MaxAttempts /\ running

\* The thread is opened, or its handle duplicated; or neither, when it has ended or its
\* creator has closed the handle, and then nothing has changed.
NotOpened ==
  /\ worker = "try" /\ (job.via = "search" => Searches)
  /\ Fails
  /\ UNCHANGED <<running, waiting_for_trigger, active_thread_id, thread_handle,
                 known_thread_ids, detached_thread_ids, slot, request_pending, armed, forgotten,
                 gave_up>>
  /\ Quiet

\* ResetThreadObservationState, which forgets the detached threads, and empties the slot
\* without its lock: a request that is pending stays pending, with nothing in it.
Opened ==
  /\ worker = "try" /\ (job.via = "search" => Searches)
  /\ \E t \in Candidates :
       /\ job' = [job EXCEPT !.target = t, !.previous = active_thread_id]
       /\ thread_handle' = t
  /\ worker' = "arm"
  /\ waiting_for_trigger' = FALSE
  /\ detached_thread_ids' = {}
  /\ forgotten' = forgotten \cup {t \in detached_thread_ids : armed[t] # "none"}
  /\ slot' = Empty
  /\ UNCHANGED <<running, active_thread_id, known_thread_ids, request_pending, armed, gave_up>>
  /\ Quiet

\* ActivateThreadStart: a thread that is already inside is traced at once; one that is
\* outside, by the return address on its stack; any other, at the entry, which may be
\* behind it, or zero.
ArmedFor(t) ==
  CASE place[t] = "inside" -> "flow"
    [] place[t] = "outside" -> IF job.via = "handle" THEN "never" ELSE "return"
    [] OTHER -> IF job.request.entry THEN "entry" ELSE "never"

ArmThread ==
  /\ worker = "arm" /\ Alive(job.target)
  /\ armed' = [armed EXCEPT ![job.target] = ArmedFor(job.target)]
  /\ waiting_for_trigger' = (ArmedFor(job.target) # "flow")
  /\ worker' = "store"
  /\ UNCHANGED <<running, active_thread_id, thread_handle, known_thread_ids,
                 detached_thread_ids, slot, request_pending, job, forgotten, gave_up>>
  /\ Quiet

\* Its context cannot be written, as when it has ended: the session stops running, and
\* the handle of the thread that was traced is gone.
ArmFails ==
  /\ worker = "arm"
  /\ running' = FALSE
  /\ thread_handle' = NoThread
  /\ forgotten' = forgotten \cup {t \in Tasks : t = active_thread_id /\ armed[t] # "none"}
  /\ Fails
  /\ UNCHANGED <<waiting_for_trigger, active_thread_id, known_thread_ids,
                 detached_thread_ids, slot, request_pending, armed, gave_up>>
  /\ Quiet

Store ==
  /\ worker = "store"
  /\ active_thread_id' = job.target
  /\ worker' = "detach"
  /\ UNCHANGED <<running, waiting_for_trigger, thread_handle, known_thread_ids,
                 detached_thread_ids, slot, request_pending, job, armed, forgotten, gave_up>>
  /\ Quiet

Mutant_DetachesNone == {}
Detached == {job.previous} \ {job.target, NoThread}

Detach ==
  /\ worker = "detach"
  /\ detached_thread_ids' = detached_thread_ids \cup Detached
  /\ known_thread_ids' = known_thread_ids \cup {job.target}
  /\ worker' = "wait"
  /\ job' = Job(Empty)
  /\ UNCHANGED <<running, waiting_for_trigger, active_thread_id, thread_handle, slot,
                 request_pending, armed, forgotten, gave_up>>
  /\ Quiet

\* The search has come to its end, or the session has.
GiveUp ==
  /\ worker = "try" /\ job.via = "search" /\ ~Searches
  /\ worker' = "wait"
  /\ job' = Job(Empty)
  /\ gave_up' = (gave_up \/ backend_mode = "TrapFlagContext")
  /\ UNCHANGED <<running, waiting_for_trigger, active_thread_id, thread_handle,
                 known_thread_ids, detached_thread_ids, slot, request_pending, armed, forgotten>>
  /\ Quiet

WorkerStep == Take \/ NotOpened \/ Opened \/ ArmThread \/ ArmFails \/ Store \/ Detach \/ GiveUp

-----------------------------------------------------------------------------
(* Stop, and StopAsyncHandoffWorker in it.                                 *)

StopBegins ==
  /\ stopping = "no"
  /\ stopping' = "joining"
  /\ running' = FALSE
  /\ async_handoff_worker_stop' = TRUE
  /\ request_pending' = FALSE
  /\ UNCHANGED <<backend_mode, waiting_for_trigger, active_thread_id, thread_handle,
                 known_thread_ids, detached_thread_ids, recent_stop, slot, workerVars,
                 placeVars, armed, forgotten, gave_up, unhandled>>

\* The worker is joined.  Only the thread whose handle the session still has is cleared,
\* and the reset forgets the detached ones.
StopEnds ==
  /\ stopping = "joining" /\ worker = "ended"
  /\ stopping' = "done"
  /\ armed' = IF thread_handle = NoThread THEN armed
              ELSE [armed EXCEPT ![thread_handle] = "none"]
  /\ recent_stop' = IF thread_handle = NoThread THEN recent_stop ELSE active_thread_id
  /\ forgotten' = forgotten \cup {t \in detached_thread_ids : armed'[t] # "none"}
  /\ thread_handle' = NoThread
  /\ detached_thread_ids' = {}
  /\ waiting_for_trigger' = FALSE
  /\ slot' = Empty
  /\ UNCHANGED <<backend_mode, running, active_thread_id, known_thread_ids, request_pending,
                 workerVars, async_handoff_worker_stop, placeVars, gave_up, unhandled>>

-----------------------------------------------------------------------------
HandoffNext ==
  /\ unhandled = NoThread
  /\ \/ \E t \in Tasks : Move(t) \/ Exit(t) \/ Create(t) \/ Exception(t)
     \/ WorkerStep
     \/ StopBegins \/ StopEnds

HandoffSpec == HandoffInit /\ [][HandoffNext]_handoffVars

-----------------------------------------------------------------------------
(* Properties.                                                             *)

HandoffTypeOK ==
  /\ backend_mode \in {"HardwareFlow", "TrapFlagContext"}
  /\ running \in BOOLEAN /\ waiting_for_trigger \in BOOLEAN
  /\ {active_thread_id, thread_handle, recent_stop, unhandled} \subseteq Tasks \cup {NoThread}
  /\ UNION {known_thread_ids, detached_thread_ids, forgotten} \subseteq Tasks
  /\ slot \in [entry : BOOLEAN, id : Tasks \cup {NoThread}, handle : Tasks \cup {NoThread}]
  /\ request_pending \in BOOLEAN
  /\ worker \in {"wait", "try", "arm", "store", "detach", "ended"}
  /\ job.via \in DOMAIN NextWay /\ job.attempts \in 0 .. MaxAttempts
  /\ async_handoff_worker_stop \in BOOLEAN /\ stopping \in {"no", "joining", "done"}
  /\ place \in [Tasks -> {"unborn", "start", "inside", "outside", "dead"}]
  /\ made \in [Tasks -> Tasks \cup {NoThread}]
  /\ armed \in [Tasks -> {"none", "flow", "entry", "return", "never"}]
  /\ gave_up \in BOOLEAN

\* A thread with breakpoints is one whose exceptions will be taken, whatever handoffs
\* it went through and whether the session still runs; except while the worker is in
\* the middle of a handoff, and for the threads that a reset has forgotten.
ArmedIsTaken ==
  worker \notin {"arm", "store", "detach"} =>
    \A t \in Tasks : armed[t] \in {"flow", "entry", "return"} =>
      \/ t \in forgotten
      \/ IF stopping = "done" THEN t = recent_stop
         ELSE t = active_thread_id \/ t \in detached_thread_ids

\* A session that runs and has no handoff under way traces a thread that can still be
\* traced; with the trap flag, unless a request was given up.
RunningTraces ==
  running /\ worker = "wait" /\ ~request_pending /\ ~gave_up
    => armed[active_thread_id] # "none" \/ ~Alive(active_thread_id)

\* A Stop comes to its end: the worker leaves its search and its wait.
StopReturns == stopping = "joining" ~> (stopping = "done" \/ unhandled # NoThread)
=============================================================================
