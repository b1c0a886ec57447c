------------------------- MODULE AsyncHandoffProofs -------------------------
(***************************************************************************)
(* The exceptions of every armed thread are taken, and a session that runs *)
(* traces a thread that can be traced, for any number of threads and any   *)
(* length of the worker's search.                                          *)
(***************************************************************************)
EXTENDS AsyncHandoff, TLAPS

Anyone == Tasks \cup {NoThread}
Requests == [entry : BOOLEAN, id : Anyone, handle : Anyone]
Jobs == [request : Requests, via : DOMAIN NextWay, target : Anyone, previous : Anyone,
         attempts : 0 .. MaxAttempts]

Flags ==
  /\ running \in BOOLEAN /\ waiting_for_trigger \in BOOLEAN /\ request_pending \in BOOLEAN
  /\ async_handoff_worker_stop \in BOOLEAN /\ gave_up \in BOOLEAN

Works == slot \in Requests /\ job \in Jobs

Places ==
  /\ backend_mode \in {"HardwareFlow", "TrapFlagContext"}
  /\ active_thread_id \in Anyone /\ thread_handle \in Anyone /\ recent_stop \in Anyone
  /\ unhandled \in Anyone
  /\ known_thread_ids \subseteq Tasks /\ detached_thread_ids \subseteq Tasks /\ forgotten \subseteq Tasks
  /\ worker \in {"wait", "try", "arm", "store", "detach", "ended"}
  /\ stopping \in {"no", "joining", "done"}
  /\ place \in [Tasks -> {"unborn", "start", "inside", "outside", "dead"}]
  /\ made \in [Tasks -> Tasks \cup {NoThread}]
  /\ armed \in [Tasks -> {"none", "flow", "entry", "return", "never"}]

\* In a handoff, the thread that is replaced is the active one until the new one is
\* stored.
InHandoff ==
  /\ stopping = "done" => worker = "ended"
  /\ worker \in {"arm", "store", "detach"} => job.target \in Tasks /\ thread_handle = job.target
  /\ worker = "arm" /\ job.via = "search" => job.attempts < MaxAttempts
  /\ worker \in {"arm", "store"} => job.previous = active_thread_id
  /\ worker = "detach" => active_thread_id = job.target

\* Otherwise the handle is that of the active thread, or there is none and the
\* session does not run.
HandleOfActive ==
  /\ worker \notin {"arm", "store"} /\ stopping # "done" => thread_handle \in {active_thread_id, NoThread}
  /\ thread_handle = NoThread => ~running
  /\ stopping # "no" => ~running

\* An armed thread is the active one or detached, is just being armed or replaced, or
\* is forgotten; the active one is forgotten with its handle.
Raising == {"flow", "entry", "return"}
Owner(t) ==
  IF stopping = "done" THEN t = recent_stop
  ELSE \/ t = active_thread_id /\ thread_handle # NoThread
       \/ t \in detached_thread_ids
       \/ t = job.target /\ worker = "store"
       \/ t = job.previous /\ worker = "detach"
ArmedIsOwned == \A t \in Tasks : armed[t] \in Raising => t \in forgotten \/ Owner(t)

IInv == Flags /\ Works /\ Places /\ InHandoff /\ HandleOfActive /\ ArmedIsOwned

Bounds == MaxTasks \in Nat \ {0} /\ MaxAttempts \in Nat

-----------------------------------------------------------------------------
LEMMA IInvInit ==
  ASSUME Bounds, HandoffInit
  PROVE  IInv
<1>1. Flags
  BY Zenon DEF HandoffInit, Flags
<1>2. Works
  BY DEF HandoffInit, Works, Requests, Jobs, Anyone, Empty, Job, NextWay, Bounds
<1>3. Places
  BY DEF HandoffInit, Places, Anyone, Tasks, Root, Bounds
<1>4. InHandoff /\ HandleOfActive /\ ArmedIsOwned
  BY DEF HandoffInit, InHandoff, HandleOfActive, ArmedIsOwned, Raising, Owner, Tasks, Root, NoThread
<1> QED BY <1>1, <1>2, <1>3, <1>4 DEF IInv

-----------------------------------------------------------------------------
(* Types.                                                                  *)

ThreadMoves(t) == Move(t) \/ Exit(t) \/ Create(t)
Handles(t) == AfterStop(t) \/ OfOther(t) \/ Stale(t) \/ TriggerHit(t) \/ Traced(t) \/ Request(t)

LEMMA ThreadTypes ==
  ASSUME IInv, NEW t \in Tasks, ThreadMoves(t) \/ Exception(t)
  PROVE  Flags' /\ Works' /\ Places'
<1>1. CASE ThreadMoves(t)
  <2>1. Flags' /\ Works'
    BY <1>1 DEF IInv, Flags, Works, ThreadMoves, Move, Exit, Create, sessionVars, workerVars
  <2>2. Places'
    BY <1>1 DEF IInv, Places, ThreadMoves, Move, Exit, Create, sessionVars, workerVars
  <2> QED BY <2>1, <2>2
<1>2. CASE Exception(t)
  <2> USE <1>2 DEF Exception, NotTaken, Released, Comes, sessionVars, workerVars
  <2>1. UNCHANGED <<workerVars, async_handoff_worker_stop, stopping, gave_up, backend_mode>>
    BY DEF AfterStop, OfOther, Stale, TriggerHit, Traced, Request
  <2>2. running' = running
    BY DEF AfterStop, OfOther, Stale, TriggerHit, Traced, Request
  <2>3. waiting_for_trigger' \in BOOLEAN
    BY Zenon DEF IInv, Flags, AfterStop, OfOther, Stale, TriggerHit, Traced, Request
  <2>4. request_pending' \in BOOLEAN
    BY Zenon DEF IInv, Flags, AfterStop, OfOther, Stale, TriggerHit, Traced, Request
  <2>5. Flags'
    BY <2>1, <2>2, <2>3, <2>4, Zenon DEF IInv, Flags
  <2>6. slot' \in Requests
    <3>1. CASE Request(t)
      <4>1. PICK id \in Named(t) : \E handle \in {id, NoThread} :
              slot' = [entry |-> TRUE, id |-> id, handle |-> handle]
        BY <3>1 DEF Request
      <4>2. id \in Anyone
        BY <3>1 DEF IInv, Places, Named, Anyone
      <4> QED BY <4>1, <4>2 DEF Requests, Anyone
    <3>2. CASE slot' = slot
      BY <3>2 DEF IInv, Works
    <3> QED BY <3>1, <3>2 DEF AfterStop, OfOther, Stale, TriggerHit, Traced
  <2>7. Works'
    BY <2>1, <2>6 DEF IInv, Works
  <2>8. /\ place' \in [Tasks -> {"unborn", "start", "inside", "outside", "dead"}]
        /\ made' \in [Tasks -> Tasks \cup {NoThread}]
        /\ armed' \in [Tasks -> {"none", "flow", "entry", "return", "never"}]
    <3> USE DEF IInv, Places
    <3>1. CASE AfterStop(t) \/ OfOther(t)
      BY <3>1 DEF AfterStop, OfOther
    <3>2. CASE Stale(t) \/ TriggerHit(t)
      BY <3>2 DEF Stale, TriggerHit
    <3>3. CASE Traced(t) \/ Request(t)
      BY <3>3 DEF Traced, Request, AfterRequest
    <3> QED BY <3>1, <3>2, <3>3
  <2>9. /\ UNCHANGED <<active_thread_id, thread_handle, recent_stop, known_thread_ids>>
        /\ unhandled' \in Anyone /\ detached_thread_ids' \subseteq Tasks /\ forgotten' \subseteq Tasks
    BY DEF IInv, Places, Anyone, AfterStop, OfOther, Stale, TriggerHit, Traced, Request
  <2>10. Places'
    BY <2>1, <2>8, <2>9 DEF IInv, Places
  <2> QED BY <2>5, <2>7, <2>10
<1> QED BY <1>1, <1>2

LEMMA FailsTypes ==
  ASSUME Bounds, job \in Jobs, job.via = "search" => job.attempts < MaxAttempts, Fails
  PROVE  job' \in Jobs
<1> DEFINE via == NextWay[job.via]
           attempts == IF job.via = "search" THEN job.attempts + 1 ELSE job.attempts
<1>1. via \in DOMAIN NextWay
  BY DEF Jobs, NextWay
<1>2. attempts \in 0 .. MaxAttempts
  BY DEF Jobs, Bounds
<1>3. job' = [job EXCEPT !.via = via, !.attempts = attempts]
  BY DEF Fails
<1> HIDE DEF via, attempts
<1> QED BY <1>1, <1>2, <1>3 DEF Jobs

LEMMA WorkerTypes ==
  ASSUME Bounds, IInv, WorkerStep
  PROVE  Flags' /\ Works' /\ Places'
<1> USE DEF Quiet, Fails
<1>1. Flags'
  <2> USE DEF IInv, Flags
  <2>1. async_handoff_worker_stop' = async_handoff_worker_stop
    BY DEF WorkerStep, Take, NotOpened, Opened, ArmThread, ArmFails, Store, Detach, GiveUp
  <2>2. gave_up' \in BOOLEAN
    BY Zenon DEF WorkerStep, Take, NotOpened, Opened, ArmThread, ArmFails, Store, Detach, GiveUp
  <2>3. running' \in BOOLEAN
    BY Zenon DEF WorkerStep, Take, NotOpened, Opened, ArmThread, ArmFails, Store, Detach, GiveUp
  <2>4. waiting_for_trigger' \in BOOLEAN
    BY Zenon DEF WorkerStep, Take, NotOpened, Opened, ArmThread, ArmFails, Store, Detach, GiveUp
  <2>5. request_pending' \in BOOLEAN
    BY Zenon DEF WorkerStep, Take, NotOpened, Opened, ArmThread, ArmFails, Store, Detach, GiveUp
  <2> QED BY <2>1, <2>2, <2>3, <2>4, <2>5, Zenon
<1>2. Job(Empty) \in Jobs /\ Empty \in Requests
  BY DEF Job, Jobs, Requests, Empty, Anyone, NextWay, Bounds
<1>3. slot' \in Requests
  BY <1>2 DEF IInv, Works, WorkerStep, Take, NotOpened, Opened, ArmThread, ArmFails, Store, Detach, GiveUp
<1>4. job' \in Jobs
  <2> USE DEF IInv, Works
  <2>1. CASE Take
    <3>1. Job(slot) \in Jobs
      BY DEF Job, Jobs, NextWay, Anyone, Bounds
    <3> QED BY <2>1, <3>1 DEF Take
  <2>2. CASE NotOpened
    <3>1. job.via = "search" => job.attempts < MaxAttempts
      BY <2>2 DEF NotOpened, Searches
    <3> QED BY <2>2, <3>1, FailsTypes DEF NotOpened
  <2>3. CASE Opened
    <3>1. PICK t \in Candidates : job' = [job EXCEPT !.target = t, !.previous = active_thread_id]
      BY <2>3 DEF Opened
    <3>2. t \in Anyone /\ active_thread_id \in Anyone
      BY DEF Candidates, Unknown, Jobs, Requests, Anyone, Places
    <3> QED BY <3>1, <3>2 DEF Jobs
  <2>4. CASE ArmFails
    <3>1. job.via = "search" => job.attempts < MaxAttempts
      BY <2>4 DEF ArmFails, InHandoff
    <3> QED BY <2>4, <3>1, FailsTypes DEF ArmFails
  <2>5. CASE ArmThread \/ Store
    BY <2>5 DEF ArmThread, Store
  <2>6. CASE Detach \/ GiveUp
    BY <1>2, <2>6 DEF Detach, GiveUp
  <2> QED BY <2>1, <2>2, <2>3, <2>4, <2>5, <2>6 DEF WorkerStep
<1>5. UNCHANGED <<backend_mode, recent_stop, unhandled, stopping, place, made>>
  BY DEF WorkerStep, Take, NotOpened, Opened, ArmThread, ArmFails, Store, Detach, GiveUp, placeVars
<1>6. active_thread_id' \in Anyone /\ thread_handle' \in Anyone
  <2>1. CASE Opened
    BY <2>1 DEF IInv, Places, Works, Opened, Candidates, Unknown, Jobs, Requests, Anyone
  <2>2. CASE ~Opened
    BY <2>2 DEF IInv, Places, Works, Jobs, WorkerStep, Take, NotOpened, ArmThread, ArmFails, Store, Detach,
       GiveUp, Anyone
  <2> QED BY <2>1, <2>2
<1>7. known_thread_ids' \subseteq Tasks /\ detached_thread_ids' \subseteq Tasks /\ forgotten' \subseteq Tasks
  BY DEF IInv, Places, InHandoff, Works, Jobs, Anyone, Detached, WorkerStep, Take, NotOpened, Opened, ArmThread,
     ArmFails, Store, Detach, GiveUp
<1>8. worker' \in {"wait", "try", "arm", "store", "detach", "ended"}
  BY DEF IInv, Places, WorkerStep, Take, NotOpened, Opened, ArmThread, ArmFails, Store, Detach, GiveUp
<1>9. armed' \in [Tasks -> {"none", "flow", "entry", "return", "never"}]
  BY DEF IInv, Places, ArmedFor, WorkerStep, Take, NotOpened, Opened, ArmThread, ArmFails, Store, Detach, GiveUp
<1>10. Places'
  BY <1>5, <1>6, <1>7, <1>8, <1>9 DEF IInv, Places
<1> QED BY <1>1, <1>3, <1>4, <1>10 DEF Works

StopStep == StopBegins \/ StopEnds

LEMMA StopTypes ==
  ASSUME IInv, Bounds, StopStep
  PROVE  Flags' /\ Works' /\ Places'
<1>1. Flags'
  BY Zenon DEF IInv, Flags, StopStep, StopBegins, StopEnds
<1>2. Works'
  <2>1. Empty \in Requests
    BY DEF Empty, Requests, Anyone
  <2> QED BY <2>1 DEF IInv, Works, StopStep, StopBegins, StopEnds, workerVars
<1>3. Places'
  BY DEF IInv, Places, Anyone, StopStep, StopBegins, StopEnds, workerVars, placeVars
<1> QED BY <1>1, <1>2, <1>3

-----------------------------------------------------------------------------
(* Who takes the exceptions of an armed thread.                            *)

LEMMA MovesKeepOwner ==
  ASSUME IInv, NEW t \in Tasks, ThreadMoves(t)
  PROVE  InHandoff' /\ HandleOfActive' /\ ArmedIsOwned'
<1>1. UNCHANGED <<sessionVars, workerVars, stopping, forgotten>>
  BY DEF ThreadMoves, Move, Exit, Create
<1>2. \A u \in Tasks : armed'[u] \in Raising => armed[u] \in Raising
  BY DEF IInv, Places, ThreadMoves, Move, Exit, Create, Raising
<1> QED BY <1>1, <1>2
    DEF IInv, InHandoff, HandleOfActive, ArmedIsOwned, Owner, sessionVars, workerVars

\* A thread that gets new breakpoints is the active one, in a session that runs; one
\* that is no longer recorded has none.
LEMMA ExceptionKeepsOwner ==
  ASSUME IInv, NEW t \in Tasks, Exception(t)
  PROVE  InHandoff' /\ HandleOfActive' /\ ArmedIsOwned'
<1> USE DEF Exception, NotTaken, Released, sessionVars
<1>1. UNCHANGED <<workerVars, stopping, running, active_thread_id, thread_handle, recent_stop>>
  BY DEF AfterStop, OfOther, Stale, TriggerHit, Traced, Request
<1>2. InHandoff' /\ HandleOfActive'
  BY <1>1 DEF IInv, InHandoff, HandleOfActive, workerVars
<1>3. ASSUME NEW u \in Tasks, armed'[u] \in Raising
      PROVE  u \in forgotten' \/ Owner(u)'
  <2>1. CASE u = t /\ stopping # "done" /\ running /\ t = active_thread_id
    BY <1>1, <2>1 DEF IInv, HandleOfActive, Owner
  <2>2. CASE ~(u = t /\ stopping # "done" /\ running /\ t = active_thread_id)
    <3>1. armed[u] \in Raising
      BY <1>3, <2>2 DEF IInv, Places, Raising, Raises, AfterStop, OfOther, Stale, TriggerHit, Traced, Request
    <3>2. u # t => u \in forgotten' \/ u \notin forgotten
      BY DEF AfterStop, OfOther, Stale, TriggerHit, Traced, Request
    <3>3. u # t => u \in detached_thread_ids' \/ u \notin detached_thread_ids
      BY DEF AfterStop, OfOther, Stale, TriggerHit, Traced, Request
    <3>4. u = t => UNCHANGED <<forgotten, detached_thread_ids>>
      BY <1>3, <2>2 DEF IInv, Places, Raising, AfterStop, OfOther, Stale, TriggerHit, Traced, Request
    <3> QED BY <1>1, <3>1, <3>2, <3>3, <3>4 DEF IInv, ArmedIsOwned, Owner, workerVars
  <2> QED BY <2>1, <2>2
<1> QED BY <1>2, <1>3 DEF ArmedIsOwned

LEMMA WorkerKeepsHandle ==
  ASSUME IInv, WorkerStep
  PROVE  InHandoff' /\ HandleOfActive'
<1> USE DEF Quiet, Fails, IInv, Works, Jobs, Places, InHandoff, HandleOfActive
<1>1. CASE Take
  BY <1>1 DEF Take
<1>2. CASE NotOpened \/ GiveUp
  BY <1>2 DEF NotOpened, GiveUp
<1>3. CASE Opened
  <2>1. PICK t \in Candidates : /\ job' = [job EXCEPT !.target = t, !.previous = active_thread_id]
                               /\ thread_handle' = t
    BY <1>3 DEF Opened
  <2>2. t \in Tasks
    BY DEF Candidates, Unknown, Requests, Anyone, Alive
  <2>3. t # NoThread
    BY <2>2 DEF Tasks, NoThread
  <2>4. stopping # "done"
    BY <1>3 DEF Opened
  <2> QED BY <1>3, <2>1, <2>2, <2>3, <2>4 DEF Opened, Searches
<1>4. CASE ArmThread \/ ArmFails
  BY <1>4 DEF ArmThread, ArmFails, NoThread
<1>5. CASE Store \/ Detach
  BY <1>5 DEF Store, Detach, Tasks, NoThread
<1> QED BY <1>1, <1>2, <1>3, <1>4, <1>5 DEF WorkerStep

LEMMA WorkerKeepsOwner ==
  ASSUME IInv, WorkerStep
  PROVE  ArmedIsOwned'
<1> USE DEF Quiet, Fails
<1>1. stopping # "done" \/ worker' = "ended"
  BY DEF IInv, InHandoff, WorkerStep, Take, NotOpened, Opened, ArmThread, ArmFails, Store, Detach, GiveUp
<1> SUFFICES ASSUME NEW u \in Tasks, armed'[u] \in Raising
             PROVE  u \in forgotten' \/ Owner(u)'
  BY DEF ArmedIsOwned
<1>2. CASE Take \/ NotOpened \/ GiveUp
  <2>1. UNCHANGED <<armed, forgotten, active_thread_id, thread_handle, detached_thread_ids,
                    stopping, recent_stop>>
    BY <1>2 DEF Take, NotOpened, GiveUp
  <2>2. worker \in {"wait", "try"}
    BY <1>2 DEF Take, NotOpened, GiveUp
  <2> QED BY <2>1, <2>2 DEF IInv, ArmedIsOwned, Owner
<1>3. CASE Opened
  <2>1. thread_handle' # NoThread
    BY <1>3 DEF IInv, Works, Jobs, Opened, Candidates, Unknown, Tasks, NoThread
  <2>2. CASE u \in detached_thread_ids
    BY <1>3, <2>2 DEF IInv, Places, Opened, Raising
  <2>3. CASE u \notin detached_thread_ids
    BY <1>3, <2>1, <2>3 DEF IInv, InHandoff, ArmedIsOwned, Owner, Opened
  <2> QED BY <2>2, <2>3
<1>4. CASE ArmThread
  BY <1>4 DEF IInv, Places, InHandoff, ArmedIsOwned, Owner, ArmThread
<1>5. CASE ArmFails
  BY <1>5 DEF IInv, Places, InHandoff, ArmedIsOwned, Owner, ArmFails, Raising
<1>6. CASE Store
  BY <1>6 DEF IInv, InHandoff, ArmedIsOwned, Owner, Store, Tasks, NoThread
<1>7. CASE Detach
  BY <1>7 DEF IInv, InHandoff, HandleOfActive, ArmedIsOwned, Owner, Detach, Detached, Tasks, NoThread
<1> QED BY <1>2, <1>3, <1>4, <1>5, <1>6, <1>7 DEF WorkerStep

LEMMA StopKeepsOwner ==
  ASSUME IInv, StopStep
  PROVE  InHandoff' /\ HandleOfActive' /\ ArmedIsOwned'
<1>1. CASE StopBegins
  BY <1>1 DEF IInv, InHandoff, HandleOfActive, ArmedIsOwned, Owner, StopBegins, workerVars
<1>2. CASE StopEnds
  <2>1. InHandoff' /\ HandleOfActive'
    BY <1>2 DEF IInv, InHandoff, HandleOfActive, StopEnds, workerVars
  <2>2. ASSUME NEW u \in Tasks, armed'[u] \in Raising
        PROVE  u \in forgotten' \/ Owner(u)'
    <3>1. armed[u] \in Raising /\ armed'[u] # "none"
      BY <1>2, <2>2 DEF IInv, Places, StopEnds, Raising
    <3>2. u \in forgotten \/ u \in detached_thread_ids \/ (u = active_thread_id /\ thread_handle # NoThread)
      BY <1>2, <3>1 DEF IInv, ArmedIsOwned, Owner, StopEnds
    <3> QED BY <1>2, <3>1, <3>2 DEF StopEnds, Owner
  <2> QED BY <2>1, <2>2 DEF ArmedIsOwned
<1> QED BY <1>1, <1>2 DEF StopStep

-----------------------------------------------------------------------------
LEMMA IInvStep ==
  ASSUME Bounds, IInv, [HandoffNext]_handoffVars
  PROVE  IInv'
<1>1. ASSUME NEW t \in Tasks, ThreadMoves(t) PROVE IInv'
  BY <1>1, ThreadTypes, MovesKeepOwner DEF IInv
<1>2. ASSUME NEW t \in Tasks, Exception(t) PROVE IInv'
  BY <1>2, ThreadTypes, ExceptionKeepsOwner DEF IInv
<1>3. CASE WorkerStep
  BY <1>3, WorkerTypes, WorkerKeepsHandle, WorkerKeepsOwner DEF IInv
<1>4. CASE StopStep
  BY <1>4, StopTypes, StopKeepsOwner DEF IInv
<1>5. CASE UNCHANGED handoffVars
  <2>1. Flags'
    BY <1>5, Zenon DEF IInv, Flags, handoffVars, sessionVars
  <2>2. Works' /\ Places'
    BY <1>5 DEF IInv, Works, Places, handoffVars, sessionVars, workerVars, placeVars
  <2>3. InHandoff' /\ HandleOfActive' /\ ArmedIsOwned'
    BY <1>5 DEF IInv, InHandoff, HandleOfActive, ArmedIsOwned, Owner, handoffVars, sessionVars, workerVars
  <2> QED BY <2>1, <2>2, <2>3 DEF IInv
<1> QED BY <1>1, <1>2, <1>3, <1>4, <1>5 DEF HandoffNext, ThreadMoves, StopStep

\* The invariant holds in every state of the session, its worker and the threads.
THEOREM IInvHolds == ASSUME Bounds PROVE HandoffSpec => []IInv
BY IInvInit, IInvStep, PTL DEF HandoffSpec

\* Every variable has its type, however requests, handoffs, failures and Stop overlap.
THEOREM TypeCorrect == ASSUME Bounds PROVE HandoffSpec => []HandoffTypeOK
<1>1. IInv => HandoffTypeOK
  <2> SUFFICES ASSUME IInv PROVE HandoffTypeOK
    OBVIOUS
  <2>1. Flags
    BY DEF IInv
  <2>2. /\ slot \in [entry : BOOLEAN, id : Tasks \cup {NoThread}, handle : Tasks \cup {NoThread}]
        /\ job.via \in DOMAIN NextWay /\ job.attempts \in 0 .. MaxAttempts
    BY DEF IInv, Works, Requests, Jobs, Anyone
  <2>3. /\ {active_thread_id, thread_handle, recent_stop, unhandled} \subseteq Tasks \cup {NoThread}
        /\ UNION {known_thread_ids, detached_thread_ids, forgotten} \subseteq Tasks
    BY DEF IInv, Places, Anyone
  <2> QED BY <2>1, <2>2, <2>3, Zenon DEF IInv, HandoffTypeOK, Flags, Places
<1> QED BY <1>1, IInvHolds, PTL

\* Outside of a handoff, a thread with breakpoints is the active one, or detached, or
\* after Stop the one that was stopped; or a reset or a failure has forgotten it.
THEOREM ArmedThreadsAreTaken == ASSUME Bounds PROVE HandoffSpec => []ArmedIsTaken
<1>1. IInv => ArmedIsTaken
  BY DEF IInv, ArmedIsOwned, Owner, Raising, ArmedIsTaken
<1> QED BY <1>1, IInvHolds, PTL

-----------------------------------------------------------------------------
(* The active thread of a session that runs can be traced.                 *)

\* A thread that was armed once stays so until it ends; only an exception that asks for
\* a handoff, with the trap flag, lets the active one go.
Traceable(t) == armed[t] # "none" \/ place[t] = "dead"
AskedFor == backend_mode = "TrapFlagContext" /\ request_pending

\* Through a handoff nobody is detached, so that no exception of the new thread clears
\* it.  With breakpoints the active thread can be traced all the time; with the trap
\* flag between the handoffs, while no request waits and none was given up.
TraceInv ==
  /\ active_thread_id \in Tasks
  /\ worker \in {"arm", "store", "detach"} => detached_thread_ids = {}
  /\ running /\ backend_mode = "HardwareFlow" => Traceable(active_thread_id)
  /\ running /\ worker \in {"store", "detach"} => Traceable(job.target) \/ AskedFor
  /\ running /\ worker = "wait" => Traceable(active_thread_id) \/ AskedFor \/ gave_up

LEMMA TraceInit ==
  ASSUME Bounds, HandoffInit
  PROVE  TraceInv
BY DEF HandoffInit, TraceInv, Traceable, Bounds, Tasks, Root

\* A thread that moves is not dead, and one that exits is.
LEMMA MovesKeepTrace ==
  ASSUME IInv, TraceInv, NEW t \in Tasks, ThreadMoves(t)
  PROVE  TraceInv'
<1>1. UNCHANGED <<sessionVars, workerVars, request_pending, gave_up>>
  BY DEF ThreadMoves, Move, Exit, Create
<1>2. \A u \in Tasks : Traceable(u) => Traceable(u)'
  BY DEF IInv, Places, ThreadMoves, Move, Exit, Create, Traceable
<1>3. worker \in {"store", "detach"} => job.target \in Tasks
  BY DEF IInv, InHandoff
<1> QED BY <1>1, <1>2, <1>3 DEF TraceInv, AskedFor, sessionVars, workerVars

\* The registers of a thread are cleared when it is detached or the session does not
\* run; the request of the active one is the exception.
LEMMA ExceptionKeepsTrace ==
  ASSUME IInv, TraceInv, NEW t \in Tasks, Exception(t)
  PROVE  TraceInv'
<1> USE DEF Exception, NotTaken, Released, Comes, sessionVars
<1>1. UNCHANGED <<workerVars, gave_up, backend_mode, running, active_thread_id>>
  BY DEF AfterStop, OfOther, Stale, TriggerHit, Traced, Request
<1>2. detached_thread_ids' \subseteq detached_thread_ids
  BY DEF AfterStop, OfOther, Stale, TriggerHit, Traced, Request
<1>3. AskedFor => AskedFor'
  BY <1>1 DEF AskedFor, AfterStop, OfOther, Stale, TriggerHit, Traced, Request
<1>4. place[t] # "dead"
  BY DEF Raises
<1>5. ASSUME NEW u \in Tasks, u # t, Traceable(u)
      PROVE  Traceable(u)'
  BY <1>5
  DEF IInv, Places, Traceable, AfterStop, OfOther, Stale, TriggerHit, Traced,
      Request
<1>6. CASE ~running \/ t \in detached_thread_ids \ {active_thread_id}
  <2>1. running => t # active_thread_id /\ worker \notin {"store", "detach"}
    BY <1>6
    DEF IInv, HandleOfActive, TraceInv, AfterStop, OfOther, Stale, TriggerHit,
        Traced, Request
  <2> QED BY <1>1, <1>2, <1>3, <1>5, <1>6, <2>1 DEF TraceInv, workerVars
<1>7. CASE running /\ t \notin detached_thread_ids \ {active_thread_id}
  <2>1. Traceable(t) => Traceable(t)' \/ AskedFor'
    <3>1. CASE Request(t)
      BY <3>1 DEF IInv, Places, Traceable, AskedFor, Request, AfterRequest
    <3>2. CASE ~Request(t)
      BY <1>7, <3>2
      DEF IInv, Places, HandleOfActive, Traceable, AfterStop, OfOther, Stale,
          TriggerHit, Traced
    <3> QED BY <3>1, <3>2
  <2>2. worker \in {"store", "detach"} => job.target \in Tasks
    BY DEF IInv, InHandoff
  <2> QED BY <1>1, <1>2, <1>3, <1>5, <2>1, <2>2 DEF TraceInv, AskedFor,
          workerVars
<1> QED BY <1>6, <1>7

LEMMA WorkerKeepsTrace ==
  ASSUME IInv, TraceInv, WorkerStep
  PROVE  TraceInv'
<1> USE DEF Quiet, Fails, placeVars
<1>1. place' = place /\ backend_mode' = backend_mode
  BY DEF WorkerStep, Take, NotOpened, Opened, ArmThread, ArmFails, Store,
     Detach, GiveUp
<1>2. CASE Take \/ NotOpened
  BY <1>1, <1>2 DEF TraceInv, Traceable, AskedFor, Take, NotOpened
<1>3. CASE Opened
  <2>1. UNCHANGED <<running, active_thread_id, armed>> /\ detached_thread_ids' = {} /\ worker' = "arm"
    BY <1>3 DEF Opened
  <2> QED BY <1>1, <2>1 DEF TraceInv, Traceable
<1>4. CASE ArmFails
  BY <1>1, <1>4 DEF TraceInv, ArmFails
<1>5. CASE ArmThread
  <2>1. job.target \in Tasks
    BY <1>5 DEF IInv, InHandoff, ArmThread
  <2>2. ArmedFor(job.target) \in {"flow", "entry", "return", "never"}
    BY DEF ArmedFor
  <2>3. Traceable(job.target)'
    BY <1>5, <2>1, <2>2 DEF IInv, Places, Traceable, ArmThread
  <2>4. \A u \in Tasks : Traceable(u) => Traceable(u)'
    BY <1>1, <1>5, <2>1, <2>2 DEF IInv, Places, Traceable, ArmThread
  <2> QED BY <1>1, <1>5, <2>3, <2>4 DEF TraceInv, ArmThread
<1>6. CASE Store
  BY <1>1, <1>6 DEF IInv, InHandoff, TraceInv, Traceable, AskedFor, Store
<1>7. CASE Detach
  BY <1>1, <1>7 DEF IInv, InHandoff, TraceInv, Traceable, AskedFor, Detach
<1>8. CASE GiveUp
  BY <1>1, <1>8 DEF IInv, Places, TraceInv, Traceable, GiveUp
<1> QED BY <1>2, <1>3, <1>4, <1>5, <1>6, <1>7, <1>8 DEF WorkerStep

LEMMA TraceStep ==
  ASSUME IInv, TraceInv, [HandoffNext]_handoffVars
  PROVE  TraceInv'
<1>1. ASSUME NEW t \in Tasks, ThreadMoves(t) PROVE TraceInv'
  BY <1>1, MovesKeepTrace
<1>2. ASSUME NEW t \in Tasks, Exception(t) PROVE TraceInv'
  BY <1>2, ExceptionKeepsTrace
<1>3. CASE WorkerStep
  BY <1>3, WorkerKeepsTrace
<1>4. CASE StopBegins
  BY <1>4 DEF TraceInv, StopBegins, workerVars
<1>5. CASE StopEnds
  <2>1. ~running'
    BY <1>5 DEF IInv, HandleOfActive, StopEnds
  <2> QED BY <1>5, <2>1 DEF TraceInv, StopEnds, workerVars
<1>6. CASE UNCHANGED handoffVars
  BY <1>6
  DEF TraceInv, Traceable, AskedFor, handoffVars, sessionVars, workerVars,
      placeVars
<1> QED BY <1>1, <1>2, <1>3, <1>4, <1>5, <1>6 DEF HandoffNext, ThreadMoves

\* While a session runs, no handoff is under way and no request waits, the active
\* thread has its breakpoints, its trap flag or its start's breakpoint, or has ended;
\* with the trap flag, unless the search for a requested thread was given up.
THEOREM RunningSessionTraces == ASSUME Bounds PROVE HandoffSpec => []RunningTraces
<1>1. IInv /\ TraceInv => RunningTraces
  <2> SUFFICES ASSUME IInv, TraceInv PROVE RunningTraces
    OBVIOUS
  <2> QED BY DEF TraceInv, Traceable, AskedFor, RunningTraces, Alive
<1>2. HandoffInit => TraceInv
  BY TraceInit
<1>3. IInv /\ TraceInv /\ [HandoffNext]_handoffVars => TraceInv'
  BY TraceStep
<1> QED BY <1>1, <1>2, <1>3, IInvHolds, PTL DEF HandoffSpec
=============================================================================
