-------------------------- MODULE TraceSessionProofs --------------------------
(***************************************************************************)
(* Theorems about TraceSession, for every set of threads, every way of     *)
(* configuring a session and every bound.                                  *)
(***************************************************************************)
EXTENDS TraceSession, FiniteSetTheorems, TLAPS

USE DEF Owner, Worker, Armers, GoTo, Disarmed, optionVars, captureVars,
        stateVars, workerVars, globalVars, pickVars, armVars, threadVars, vars,
        armRest, handlerRest, ownerRest, LeaveThread, TakeThread

-----------------------------------------------------------------------------
(* Types.                                                                  *)

\* The Boolean variables, which get steps of their own.
Flags ==
  /\ running \in BOOLEAN /\ waiting_for_trigger \in BOOLEAN
  /\ trigger_capture_worker_stop \in BOOLEAN
  /\ g_active_impl \in BOOLEAN /\ recent_stop_fresh \in BOOLEAN
  /\ restarted \in BOOLEAN

LEMMA TypeInit == Init => TypeOK
<1> SUFFICES ASSUME Init PROVE TypeOK
  OBVIOUS
<1>1. Flags
  BY Zenon DEF Init, Flags
<1> QED BY <1>1, ThreadsAssumption, BoundsAssumption DEF Init, TypeOK, InHandler, Flags

LEMMA TypeArm ==
  ASSUME TypeOK, NEW a \in Armers, ArmStep(a)
  PROVE  TypeOK'
<1>1. CASE Look(a)
  BY <1>1 DEF Look, TypeOK, InHandler
<1>2. CASE LookInList(a)
  BY <1>2 DEF LookInList, TypeOK, InHandler
<1>3. CASE Arm(a)
  BY <1>3 DEF Arm, TypeOK, InHandler
<1>4. CASE Enlist(a)
  BY <1>4 DEF Enlist, TypeOK, InHandler
<1> QED BY <1>1, <1>2, <1>3, <1>4 DEF ArmStep

LEMMA TypeThread ==
  ASSUME TypeOK, NEW t \in Threads,
         HitTrigger(t) \/ HitFlow(t) \/ CreateThread(t)
  PROVE  TypeOK'
<1>1. CASE HitTrigger(t)
  BY <1>1, BoundsAssumption DEF HitTrigger, TypeOK, InHandler
<1>2. CASE HitFlow(t)
  BY <1>2 DEF HitFlow, TypeOK, InHandler
<1>3. CASE CreateThread(t)
  BY <1>3 DEF CreateThread, TypeOK, InHandler
<1> QED BY <1>1, <1>2, <1>3

LEMMA TypeHandler ==
  ASSUME TypeOK, NEW t \in Threads, HandlerStep(t)
  PROVE  TypeOK'
<1> USE DEF TypeOK, InHandler
<1>1. CASE LoadActive(t)
  BY <1>1 DEF LoadActive
<1>2. CASE LoadNone(t)
  BY <1>2 DEF LoadNone
<1>3. CASE Enter(t)
  BY <1>3 DEF Enter
<1>4. CASE LeftOpen(t)
  BY <1>4 DEF LeftOpen
<1>5. CASE Continue(t)
  BY <1>5 DEF Continue
<1>6. CASE EnterRace(t)
  BY <1>6 DEF EnterRace
<1>7. CASE OtherQueues(t)
  BY <1>7 DEF OtherQueues, QueueHit, ParkedWith
<1>8. CASE OtherDetached(t)
  BY <1>8 DEF OtherDetached
<1>9. CASE StaleStep(t)
  <2>1. Flags'
    BY <1>9, Zenon DEF StaleStep, Flags
  <2> QED BY <1>9, <2>1 DEF StaleStep, Flags
<1>10. CASE WaitedHit(t)
  BY <1>10 DEF WaitedHit
<1>11. CASE WinRace(t)
  BY <1>11 DEF WinRace
<1>12. CASE LoseRaceQueued(t)
  BY <1>12 DEF LoseRaceQueued, QueueHit, ParkedWith
<1>13. CASE LoseRace(t)
  BY <1>13 DEF LoseRace
<1>14. CASE Promote(t)
  BY <1>14 DEF Promote, ReleaseCaptured
<1>15. CASE BeginTrace(t)
  <2>1. Flags'
    BY <1>15, Zenon DEF BeginTrace, Flags
  <2> QED BY <1>15, <2>1 DEF BeginTrace, Flags
<1>16. CASE FlowStep(t)
  <2>1. Flags'
    BY <1>16, Zenon DEF FlowStep, Flags
  <2> QED BY <1>16, <2>1 DEF FlowStep, Flags
<1>17. CASE Rotate(t)
  <2>1. Flags'
    BY <1>17, Zenon DEF Rotate, Flags
  <2> QED BY <1>17, <2>1 DEF Rotate, Flags
<1>18. CASE RotateRelease(t)
  BY <1>18 DEF RotateRelease, ReleaseCaptured
<1>19. CASE RotateOpen(t)
  BY <1>19 DEF RotateOpen
<1>20. CASE RotateWatch(t)
  <2>1. Flags'
    BY <1>20, Zenon DEF RotateWatch, Flags
  <2> QED BY <1>20, <2>1 DEF RotateWatch, Flags
<1>21. CASE RotateRaces(t)
  BY <1>21 DEF RotateRaces
<1>22. CASE RotateFails(t)
  <2>1. Flags'
    BY <1>22, Zenon DEF RotateFails, Flags
  <2> QED BY <1>22, <2>1 DEF RotateFails, Flags
<1>23. CASE pc[t] = "arm" /\ ArmStep(t)
  BY <1>23, TypeArm
<1>24. CASE PromoteFails(t)
  <2>1. Flags'
    BY <1>24, Zenon DEF PromoteFails, Flags
  <2> QED BY <1>24, <2>1 DEF PromoteFails, ReleaseCaptured, Flags
<1> QED
  BY <1>1, <1>2, <1>3, <1>4, <1>5, <1>6, <1>7, <1>8, <1>9, <1>10, <1>11,
     <1>12, <1>13, <1>14, <1>15, <1>16, <1>17, <1>18, <1>19, <1>20, <1>21,
     <1>22, <1>23, <1>24
  DEF HandlerStep
LEMMA TypeWorker ==
  ASSUME TypeOK, WorkerStep
  PROVE  TypeOK'
<1> USE DEF TypeOK, InHandler
<1>1. CASE WorkerRound
  BY <1>1 DEF WorkerRound
<1>2. CASE WorkerArmed
  BY <1>2 DEF WorkerArmed
<1>3. CASE worker_pc = "arm" /\ ArmStep(Worker)
  BY <1>3, TypeArm
<1> QED BY <1>1, <1>2, <1>3 DEF WorkerStep

LEMMA TypeOwner ==
  ASSUME TypeOK, StartSession \/ StopSession \/ StartFails \/ OwnerStep \/ Expire
  PROVE  TypeOK'
<1> USE DEF TypeOK, InHandler
<1>1. CASE StartSession
  <2>1. Flags'
    BY <1>1, Zenon DEF StartSession, Flags
  <2> QED BY <1>1, <2>1, BoundsAssumption DEF StartSession, Flags
<1>2. CASE \E f \in Focuses : PrepareSession(f)
  <2> PICK f \in Focuses : PrepareSession(f)
    BY <1>2
  <2>1. Flags'
    BY Zenon DEF PrepareSession, Flags
  <2> QED BY <2>1, ThreadsAssumption DEF PrepareSession, ReleaseCaptured, Flags
<1>3. CASE OpenTarget
  <2>1. Flags'
    BY <1>3, Zenon DEF OpenTarget, Flags
  <2> QED BY <1>3, <2>1, ThreadsAssumption DEF OpenTarget, Flags
<1>4. CASE ArmTarget
  BY <1>4, ThreadsAssumption DEF ArmTarget
<1>5. CASE OpenCapture
  <2>1. Flags'
    BY <1>5, Zenon DEF OpenCapture, Flags
  <2> QED BY <1>5, <2>1 DEF OpenCapture, Flags
<1>6. CASE WatchCapture
  <2>1. Flags'
    BY <1>6, Zenon DEF WatchCapture, Flags
  <2> QED BY <1>6, <2>1 DEF WatchCapture, Flags
<1>7. CASE StartFails
  <2>1. Flags'
    BY <1>7, Zenon DEF StartFails, Flags
  <2> QED BY <1>7, <2>1 DEF StartFails, Flags
<1>8. CASE StopSession
  <2>1. Flags'
    BY <1>8, Zenon DEF StopSession, Flags
  <2> QED BY <1>8, <2>1 DEF StopSession, Flags
<1>9. CASE StopJoin
  <2>1. Flags'
    BY <1>9, Zenon DEF StopJoin, ReleaseCaptured, Flags
  <2> QED BY <1>9, <2>1 DEF StopJoin, ReleaseCaptured, Flags
<1>10. CASE StopClear
  <2>1. Flags'
    BY <1>10, Zenon DEF StopClear, MarkedThread, Flags
  <2> QED BY <1>10, <2>1 DEF StopClear, MarkedThread, Flags
<1>11. CASE StopDrain
  <2>1. Flags'
    BY <1>11, Zenon DEF StopDrain, Flags
  <2> QED BY <1>11, <2>1 DEF StopDrain, Flags
<1>12. CASE StopLeave
  <2>1. Flags'
    BY <1>12, Zenon DEF StopLeave, Flags
  <2> QED BY <1>12, <2>1 DEF StopLeave, Flags
<1>13. CASE Expire
  <2>1. Flags'
    BY <1>13, Zenon DEF Expire, Flags
  <2> QED BY <1>13, <2>1 DEF Expire, Flags
<1>14. CASE owner_pc = "arm" /\ ArmStep(Owner)
  BY <1>14, TypeArm
<1> QED
  BY <1>1, <1>2, <1>3, <1>4, <1>5, <1>6, <1>7, <1>8, <1>9, <1>10, <1>11,
     <1>12, <1>13, <1>14
  DEF OwnerStep

LEMMA TypeStep == TypeOK /\ [Next]_vars => TypeOK'
<1> SUFFICES ASSUME TypeOK, [Next]_vars PROVE TypeOK'
  OBVIOUS
<1>1. CASE \E t \in Threads :
             HitTrigger(t) \/ HitFlow(t) \/ CreateThread(t) \/ HandlerStep(t)
  BY <1>1, TypeThread, TypeHandler
<1>2. CASE WorkerStep
  BY <1>2, TypeWorker
<1>3. CASE StartSession \/ StopSession \/ StartFails \/ OwnerStep \/ Expire
  BY <1>3, TypeOwner
<1>4. CASE UNCHANGED vars
  BY <1>4 DEF TypeOK, InHandler
<1> QED BY <1>1, <1>2, <1>3, <1>4 DEF Next

\* Every variable of the session keeps its type, the parked marks stay within the
\* capture list, and threads run into the trigger at most MaxCalls times.
THEOREM SessionTypeCorrect == Spec => []TypeOK
BY TypeInit, TypeStep, PTL DEF Spec

-----------------------------------------------------------------------------
(* The invariant that carries the other theorems.                          *)

\* Stop lowers running for good; after its join the worker, even one that a
\* rotating handler launches later, arms nobody.
StopInv ==
  /\ owner_pc \in {"stop_join", "stop_clear", "stop_drain", "stop_leave", "stopped"}
       => running = FALSE
  /\ owner_pc \in {"stop_clear", "stop_drain", "stop_leave", "stopped"}
       => worker_pc # "arm"
  /\ owner_pc \in {"start_join", "open_target", "arm_target", "arm", "watch"}
       => starts # 0

\* Before the first session, and from the drain of Stop to the next Start, no
\* handler is past its first look at the session.
NobodyAtWork ==
  \/ owner_pc \in {"stop_leave", "stopped"}
  \/ owner_pc = "start_join" /\ restarted = FALSE
  \/ owner_pc = "idle" /\ starts = 0

QuietInv ==
  NobodyAtWork =>
    /\ running = FALSE /\ waiting_for_trigger = FALSE
    /\ \A t \in Threads : pc[t] \notin InHandler \ {"entered"}

\* A promoted thread is the active one until its trace begins.
PromotedInv ==
  restarted = FALSE =>
    \A t \in Threads : pc[t] \in {"promote", "hit"} => active_thread_id = t

IInv == TypeOK /\ StopInv /\ QuietInv /\ PromotedInv

LEMMA IInvInit == Init => IInv
<1> SUFFICES ASSUME Init PROVE IInv
  OBVIOUS
<1>1. TypeOK
  BY TypeInit
<1>2. StopInv
  BY DEF Init, StopInv
<1>3. QuietInv
  BY DEF Init, QuietInv, NobodyAtWork, InHandler
<1>4. PromotedInv
  BY DEF Init, PromotedInv
<1> QED BY <1>1, <1>2, <1>3, <1>4 DEF IInv

LEMMA KeepArm ==
  ASSUME IInv, NEW a \in Armers, ArmStep(a)
  PROVE  StopInv' /\ QuietInv' /\ PromotedInv'
<1> USE DEF IInv, TypeOK, StopInv, NobodyAtWork, QuietInv, PromotedInv, InHandler
<1>1. CASE Look(a)
  BY <1>1 DEF Look
<1>2. CASE LookInList(a)
  BY <1>2 DEF LookInList
<1>3. CASE Arm(a)
  BY <1>3 DEF Arm
<1>4. CASE Enlist(a)
  BY <1>4 DEF Enlist
<1> QED BY <1>1, <1>2, <1>3, <1>4 DEF ArmStep

LEMMA KeepThread ==
  ASSUME IInv, NEW t \in Threads,
         HitTrigger(t) \/ HitFlow(t) \/ CreateThread(t)
  PROVE  StopInv' /\ QuietInv' /\ PromotedInv'
<1> USE DEF IInv, TypeOK, StopInv, NobodyAtWork, QuietInv, PromotedInv, InHandler
<1>1. CASE HitTrigger(t)
  BY <1>1 DEF HitTrigger
<1>2. CASE HitFlow(t)
  BY <1>2 DEF HitFlow
<1>3. CASE CreateThread(t)
  BY <1>3 DEF CreateThread
<1> QED BY <1>1, <1>2, <1>3

LEMMA KeepHandler ==
  ASSUME IInv, NEW t \in Threads, HandlerStep(t)
  PROVE  StopInv' /\ QuietInv' /\ PromotedInv'
<1> USE DEF IInv, TypeOK, StopInv, NobodyAtWork, QuietInv, PromotedInv, InHandler
<1>1. CASE LoadActive(t)
  BY <1>1 DEF LoadActive
<1>2. CASE LoadNone(t)
  BY <1>2 DEF LoadNone
<1>3. CASE Enter(t)
  BY <1>3 DEF Enter
<1>4. CASE LeftOpen(t)
  BY <1>4 DEF LeftOpen
<1>5. CASE Continue(t)
  BY <1>5 DEF Continue
<1>6. CASE EnterRace(t)
  BY <1>6 DEF EnterRace, CapturePending
<1>7. CASE OtherQueues(t)
  BY <1>7 DEF OtherQueues, OtherThread, QueueHit
<1>8. CASE OtherDetached(t)
  BY <1>8 DEF OtherDetached, OtherThread
<1>9. CASE StaleStep(t)
  BY <1>9 DEF StaleStep, TracedThread
<1>10. CASE WaitedHit(t)
  BY <1>10 DEF WaitedHit, TracedThread
<1>11. CASE WinRace(t)
  BY <1>11, ThreadsAssumption DEF WinRace, WinsRace
<1>12. CASE LoseRaceQueued(t)
  BY <1>12 DEF LoseRaceQueued, QueueHit
<1>13. CASE LoseRace(t)
  BY <1>13 DEF LoseRace
<1>14. CASE Promote(t)
  BY <1>14 DEF Promote
<1>15. CASE BeginTrace(t)
  BY <1>15 DEF BeginTrace
<1>16. CASE FlowStep(t)
  <2>1. running = TRUE
    BY <1>16, Zenon DEF FlowStep, Traces
  <2>2. running' = running \/ running' = FALSE
    BY <1>16, Zenon DEF FlowStep
  <2>3. pc' = [pc EXCEPT ![t] = "refused"] \/ pc' = [pc EXCEPT ![t] = "claimed"]
    BY <1>16, Zenon DEF FlowStep
  <2>4. UNCHANGED <<owner_pc, worker_pc, starts, restarted, waiting_for_trigger,
                    active_thread_id>>
    BY <1>16 DEF FlowStep
  <2> QED BY <2>1, <2>2, <2>3, <2>4
<1>17. CASE Rotate(t)
  BY <1>17 DEF Rotate, TracedThread, Traces
<1>18. CASE RotateRelease(t)
  BY <1>18 DEF RotateRelease
<1>19. CASE RotateOpen(t)
  BY <1>19 DEF RotateOpen
<1>20. CASE RotateWatch(t)
  BY <1>20 DEF RotateWatch
<1>21. CASE RotateRaces(t)
  BY <1>21 DEF RotateRaces
<1>22. CASE RotateFails(t)
  BY <1>22 DEF RotateFails
<1>23. CASE pc[t] = "arm" /\ ArmStep(t)
  BY <1>23, KeepArm
<1>24. CASE PromoteFails(t)
  BY <1>24 DEF PromoteFails
<1> QED
  BY <1>1, <1>2, <1>3, <1>4, <1>5, <1>6, <1>7, <1>8, <1>9, <1>10, <1>11,
     <1>12, <1>13, <1>14, <1>15, <1>16, <1>17, <1>18, <1>19, <1>20, <1>21,
     <1>22, <1>23, <1>24
  DEF HandlerStep

LEMMA KeepWorker ==
  ASSUME IInv, WorkerStep
  PROVE  StopInv' /\ QuietInv' /\ PromotedInv'
<1> USE DEF IInv, TypeOK, StopInv, NobodyAtWork, QuietInv, PromotedInv, InHandler
<1>1. CASE WorkerRound
  BY <1>1 DEF WorkerRound, WorkerLeaves, ShouldKeepRefreshWorkerAlive
<1>2. CASE WorkerArmed
  BY <1>2 DEF WorkerArmed
<1>3. CASE worker_pc = "arm" /\ ArmStep(Worker)
  BY <1>3, KeepArm
<1> QED
  BY <1>1, <1>2, <1>3
  DEF WorkerStep

\* The count of handlers is that of a finite set of threads.
LEMMA Nobody ==
  Drained => \A t \in Threads : pc[t] \notin InHandler
<1> SUFFICES ASSUME Drained PROVE \A t \in Threads : pc[t] \notin InHandler
  OBVIOUS
<1> DEFINE S == {t \in Threads : pc[t] \in InHandler}
<1>1. IsFiniteSet(S)
  BY ThreadsAssumption, FS_Subset
<1>2. Cardinality(S) = 0
  BY DEF Drained, active_handler_count
<1>3. S = {}
  BY <1>1, <1>2, FS_EmptySet
<1> QED BY <1>3

LEMMA KeepOwner ==
  ASSUME IInv, StartSession \/ StopSession \/ StartFails \/ OwnerStep \/ Expire
  PROVE  StopInv' /\ QuietInv' /\ PromotedInv'
<1> USE DEF IInv, TypeOK, StopInv, NobodyAtWork, QuietInv, PromotedInv, InHandler
<1>1. CASE StartSession
  <2>1. running = FALSE
    BY <1>1, Zenon DEF StartSession
  <2>2. restarted' = FALSE => restarted = FALSE /\ ~(owner_pc = "idle" /\ starts > 0)
    BY <1>1, Zenon DEF StartSession
  <2> QED BY <1>1, <2>1, <2>2, BoundsAssumption DEF StartSession, Idle
<1>2. CASE \E f \in Focuses : PrepareSession(f)
  BY <1>2 DEF PrepareSession
<1>3. CASE OpenTarget
  BY <1>3 DEF OpenTarget
<1>4. CASE ArmTarget
  BY <1>4 DEF ArmTarget
<1>5. CASE OpenCapture
  BY <1>5 DEF OpenCapture
<1>6. CASE WatchCapture
  BY <1>6 DEF WatchCapture
<1>7. CASE StartFails
  BY <1>7 DEF StartFails
<1>8. CASE StopSession
  BY <1>8 DEF StopSession
<1>9. CASE StopJoin
  BY <1>9 DEF StopJoin, WorkerJoined
<1>10. CASE StopClear
  BY <1>10 DEF StopClear
<1>11. CASE StopDrain
  BY <1>11, Nobody DEF StopDrain
<1>12. CASE StopLeave
  BY <1>12 DEF StopLeave
<1>13. CASE Expire
  BY <1>13 DEF Expire
<1>14. CASE owner_pc = "arm" /\ ArmStep(Owner)
  BY <1>14, KeepArm
<1> QED
  BY <1>1, <1>2, <1>3, <1>4, <1>5, <1>6, <1>7, <1>8, <1>9, <1>10, <1>11,
     <1>12, <1>13, <1>14
  DEF OwnerStep

LEMMA IInvStep == IInv /\ [Next]_vars => IInv'
<1> SUFFICES ASSUME IInv, [Next]_vars PROVE IInv'
  OBVIOUS
<1>1. TypeOK'
  BY TypeStep DEF IInv
<1>2. StopInv' /\ QuietInv' /\ PromotedInv'
  <2>1. CASE \E t \in Threads :
               HitTrigger(t) \/ HitFlow(t) \/ CreateThread(t) \/ HandlerStep(t)
    BY <2>1, KeepThread, KeepHandler
  <2>2. CASE WorkerStep
    BY <2>2, KeepWorker
  <2>3. CASE StartSession \/ StopSession \/ StartFails \/ OwnerStep \/ Expire
    BY <2>3, KeepOwner
  <2>4. CASE UNCHANGED vars
    BY <2>4 DEF IInv, StopInv, NobodyAtWork, QuietInv, PromotedInv, InHandler
  <2> QED BY <2>1, <2>2, <2>3, <2>4 DEF Next
<1> QED BY <1>1, <1>2 DEF IInv

THEOREM SessionInvariance == Spec => []IInv
BY IInvInit, IInvStep, PTL DEF Spec

-----------------------------------------------------------------------------
(* What follows.                                                           *)

\* Between its promotion and the start of its trace a thread is alone, for every
\* set of threads: the compare-and-swap of HandleTriggerThreadCaptureException
\* keeps others out, and the drain of Stop keeps the handlers of one session out
\* of the next.
THEOREM OneWinnerAlways == Spec => []OneWinner
<1>1. IInv => OneWinner
  BY DEF IInv, TypeOK, PromotedInv, OneWinner
<1> QED BY <1>1, SessionInvariance, PTL

\* A step that arms no thread, or one whose saved context holds the trigger.
Unarmed ==
  \A t \in Threads : dr'[t] = "trigger" => dr[t] = "trigger" \/ ctx[t] = "trigger"

LEMMA UnarmedThread ==
  ASSUME IInv, NEW t \in Threads, owner_pc = "stopped",
         HitTrigger(t) \/ HitFlow(t) \/ CreateThread(t) \/ HandlerStep(t)
  PROVE  Unarmed
<1>1. CASE dr' = dr
  BY <1>1 DEF Unarmed
<1>2. CASE Continue(t)
  BY <1>2 DEF Continue, Unarmed, IInv, TypeOK
<1>3. CASE Promote(t)
  BY <1>3 DEF Promote, Unarmed, IInv, TypeOK
<1>4. pc[t] # "arm"
  BY DEF IInv, QuietInv, NobodyAtWork, InHandler
<1>5. CASE HitTrigger(t) \/ HitFlow(t) \/ CreateThread(t)
  BY <1>1, <1>5 DEF HitTrigger, HitFlow, CreateThread
<1>6. CASE HandlerStep(t)
  <2>1. dr' = dr \/ Continue(t) \/ Promote(t)
    BY <1>4, <1>6
    DEF HandlerStep, LoadActive, LoadNone, Enter, LeftOpen, EnterRace, OtherQueues, QueueHit,
      OtherDetached, StaleStep, WaitedHit, WinRace, LoseRaceQueued,
      LoseRace, BeginTrace, PromoteFails, FlowStep, Rotate, RotateRelease,
      RotateOpen,
      RotateWatch, RotateRaces, RotateFails
  <2> QED BY <2>1, <1>1, <1>2, <1>3
<1> QED BY <1>5, <1>6

LEMMA UnarmedWorker ==
  ASSUME IInv, owner_pc = "stopped", WorkerStep
  PROVE  Unarmed
<1>1. worker_pc # "arm"
  BY DEF IInv, StopInv
<1>2. dr' = dr
  BY <1>1 DEF WorkerStep, WorkerRound, WorkerArmed
<1> QED BY <1>2 DEF Unarmed

LEMMA UnarmedOwner ==
  ASSUME IInv, owner_pc = "stopped",
         StartSession \/ StopSession \/ StartFails \/ OwnerStep \/ Expire
  PROVE  Unarmed
<1>1. dr' = dr
  BY DEF StartSession, StopSession, StartFails, OwnerStep, PrepareSession,
         OpenTarget, ArmTarget, OpenCapture, WatchCapture, StopJoin, StopClear,
         StopDrain, StopLeave, Expire
<1> QED BY <1>1 DEF Unarmed

\* After Stop nobody arms a thread until the next Start.  Stop joins a worker,
\* drains the handlers, and a worker that a draining handler launched in between
\* finds the session not running.
THEOREM StopEndsArming == Spec => NoArmingAfterStop
<1>1. IInv /\ [Next]_vars => [owner_pc = "stopped" => Unarmed]_vars
  <2> SUFFICES ASSUME IInv, Next, owner_pc = "stopped" PROVE Unarmed
    OBVIOUS
  <2> QED BY UnarmedThread, UnarmedWorker, UnarmedOwner DEF Next
<1>2. Spec => [][owner_pc = "stopped" => Unarmed]_vars
  BY <1>1, SessionInvariance, PTL DEF Spec
<1> QED BY <1>2 DEF NoArmingAfterStop, Unarmed

-----------------------------------------------------------------------------
(* Queue sessions.                                                         *)

\* In a queue session the active thread has left the trigger behind: it is being
\* promoted, or the context it goes on with and, unless it was overtaken, its
\* registers and its exceptions are those of the flow engine.
QueueInv ==
  focus = "queue" =>
    \A t \in Threads :
      t = active_thread_id =>
        \/ pc[t] \in {"promote", "hit"}
        \/ /\ pc[t] \notin {"race", "rotate", "arm", "watch"}
           /\ pc[t] \in {"claimed", "queued"} => ctx[t] # "trigger"
           /\ pc[t] = "run" => dr[t] # "trigger" \/ t \in overtaken
           /\ pc[t] \in {"raised", "loaded", "entered"} =>
                rip[t] = "flow" \/ t \in overtaken

LEMMA QueueInit == Init => QueueInv
BY ThreadsAssumption DEF Init, QueueInv

LEMMA QueueArm ==
  ASSUME TypeOK, QueueInv, NEW a \in Armers, ArmStep(a)
  PROVE  QueueInv'
<1> USE DEF TypeOK, QueueInv, InHandler
<1>1. CASE Look(a)
  BY <1>1 DEF Look
<1>2. CASE LookInList(a)
  BY <1>2 DEF LookInList
<1>3. CASE Arm(a)
  BY <1>3 DEF Arm
<1>4. CASE Enlist(a)
  BY <1>4 DEF Enlist
<1> QED BY <1>1, <1>2, <1>3, <1>4 DEF ArmStep

LEMMA QueueThread ==
  ASSUME TypeOK, QueueInv, NEW t \in Threads,
         HitTrigger(t) \/ HitFlow(t) \/ CreateThread(t)
  PROVE  QueueInv'
<1> USE DEF TypeOK, QueueInv, InHandler
<1>1. CASE HitTrigger(t)
  BY <1>1 DEF HitTrigger
<1>2. CASE HitFlow(t)
  BY <1>2 DEF HitFlow
<1>3. CASE CreateThread(t)
  BY <1>3 DEF CreateThread
<1> QED BY <1>1, <1>2, <1>3

LEMMA QueueHandler ==
  ASSUME TypeOK, QueueInv, NEW t \in Threads, HandlerStep(t)
  PROVE  QueueInv'
<1> USE DEF TypeOK, QueueInv, InHandler
<1>1. CASE LoadActive(t)
  BY <1>1 DEF LoadActive
<1>2. CASE LoadNone(t)
  BY <1>2 DEF LoadNone
<1>3. CASE Enter(t)
  BY <1>3 DEF Enter
<1>4. CASE LeftOpen(t)
  BY <1>4 DEF LeftOpen
<1>5. CASE Continue(t)
  BY <1>5 DEF Continue
<1>6. CASE EnterRace(t)
  BY <1>6, ThreadsAssumption DEF EnterRace, CapturePending
<1>7. CASE OtherQueues(t)
  BY <1>7 DEF OtherQueues, OtherThread, QueueHit
<1>8. CASE OtherDetached(t)
  BY <1>8 DEF OtherDetached, OtherThread
<1>9. CASE StaleStep(t)
  BY <1>9 DEF StaleStep, TracedThread
<1>10. CASE WaitedHit(t)
  BY <1>10 DEF WaitedHit, TracedThread
<1>11. CASE WinRace(t)
  BY <1>11 DEF WinRace, WinsRace
<1>12. CASE LoseRaceQueued(t)
  BY <1>12 DEF LoseRaceQueued, QueueHit, WinsRace
<1>13. CASE LoseRace(t)
  BY <1>13 DEF LoseRace, WinsRace
<1>14. CASE Promote(t)
  BY <1>14 DEF Promote, ReleaseCaptured
<1>15. CASE PromoteFails(t)
  BY <1>15 DEF PromoteFails, ReleaseCaptured
<1>16. CASE BeginTrace(t)
  BY <1>16 DEF BeginTrace
<1>17. CASE FlowStep(t)
  <2>1. pc[t] = "entered" /\ UNCHANGED <<focus, active_thread_id, dr, rip, overtaken>>
    BY <1>17 DEF FlowStep, Traces, TracedThread
  <2>2. \/ pc' = [pc EXCEPT ![t] = "refused"] /\ ctx' = ctx
        \/ /\ pc' = [pc EXCEPT ![t] = "claimed"]
           /\ ctx' = [ctx EXCEPT ![t] = "flow"] \/ ctx' = [ctx EXCEPT ![t] = "none"]
    BY <1>17, Zenon DEF FlowStep
  <2>3. CASE pc' = [pc EXCEPT ![t] = "refused"] /\ ctx' = ctx
    BY <2>1, <2>3
  <2>4. CASE /\ pc' = [pc EXCEPT ![t] = "claimed"]
             /\ ctx' = [ctx EXCEPT ![t] = "flow"] \/ ctx' = [ctx EXCEPT ![t] = "none"]
    BY <2>1, <2>4
  <2> QED BY <2>2, <2>3, <2>4
<1>18. CASE Rotate(t)
  BY <1>18, ThreadsAssumption DEF Rotate, Traces, TracedThread
<1>19. CASE RotateRelease(t)
  BY <1>19 DEF RotateRelease, ReleaseCaptured
<1>20. CASE RotateOpen(t)
  BY <1>20 DEF RotateOpen
<1>21. CASE RotateWatch(t)
  BY <1>21 DEF RotateWatch
<1>22. CASE RotateRaces(t)
  BY <1>22 DEF RotateRaces
<1>23. CASE RotateFails(t)
  BY <1>23 DEF RotateFails
<1>24. CASE pc[t] = "arm" /\ ArmStep(t)
  BY <1>24, QueueArm
<1> QED
  BY <1>1, <1>2, <1>3, <1>4, <1>5, <1>6, <1>7, <1>8, <1>9, <1>10, <1>11, <1>12,
     <1>13, <1>14, <1>15, <1>16, <1>17, <1>18, <1>19, <1>20, <1>21, <1>22,
     <1>23, <1>24
  DEF HandlerStep

LEMMA QueueWorker ==
  ASSUME TypeOK, QueueInv, WorkerStep
  PROVE  QueueInv'
<1> USE DEF TypeOK, QueueInv, InHandler
<1>1. CASE WorkerRound
  BY <1>1 DEF WorkerRound
<1>2. CASE WorkerArmed
  BY <1>2 DEF WorkerArmed
<1>3. CASE worker_pc = "arm" /\ ArmStep(Worker)
  BY <1>3, QueueArm
<1> QED BY <1>1, <1>2, <1>3 DEF WorkerStep

LEMMA QueueOwner ==
  ASSUME TypeOK, QueueInv,
         StartSession \/ StopSession \/ StartFails \/ OwnerStep \/ Expire
  PROVE  QueueInv'
<1> USE DEF TypeOK, QueueInv, InHandler
<1>1. CASE StartSession
  BY <1>1, BoundsAssumption DEF StartSession, Idle
<1>2. CASE \E f \in Focuses : PrepareSession(f)
  <2> PICK f \in Focuses : PrepareSession(f)
    BY <1>2
  <2>1. focus' = f /\ (f = "queue" => active_thread_id' = NoThread)
    BY DEF PrepareSession
  <2> QED BY <2>1, ThreadsAssumption
<1>3. CASE OpenTarget
  BY <1>3 DEF OpenTarget
<1>4. CASE ArmTarget
  BY <1>4 DEF ArmTarget
<1>5. CASE OpenCapture
  BY <1>5 DEF OpenCapture
<1>6. CASE WatchCapture
  BY <1>6 DEF WatchCapture
<1>7. CASE StartFails
  BY <1>7 DEF StartFails
<1>8. CASE StopSession
  BY <1>8 DEF StopSession
<1>9. CASE StopJoin
  BY <1>9 DEF StopJoin, ReleaseCaptured
<1>10. CASE StopClear
  BY <1>10 DEF StopClear
<1>11. CASE StopDrain
  BY <1>11 DEF StopDrain
<1>12. CASE StopLeave
  BY <1>12 DEF StopLeave
<1>13. CASE Expire
  BY <1>13 DEF Expire
<1>14. CASE owner_pc = "arm" /\ ArmStep(Owner)
  BY <1>14, QueueArm
<1> QED
  BY <1>1, <1>2, <1>3, <1>4, <1>5, <1>6, <1>7, <1>8, <1>9, <1>10, <1>11, <1>12,
     <1>13, <1>14
  DEF OwnerStep

LEMMA QueueStep == TypeOK /\ QueueInv /\ [Next]_vars => QueueInv'
<1> SUFFICES ASSUME TypeOK, QueueInv, [Next]_vars PROVE QueueInv'
  OBVIOUS
<1>1. CASE \E t \in Threads :
             HitTrigger(t) \/ HitFlow(t) \/ CreateThread(t) \/ HandlerStep(t)
  BY <1>1, QueueThread, QueueHandler
<1>2. CASE WorkerStep
  BY <1>2, QueueWorker
<1>3. CASE StartSession \/ StopSession \/ StartFails \/ OwnerStep \/ Expire
  BY <1>3, QueueOwner
<1>4. CASE UNCHANGED vars
  BY <1>4 DEF QueueInv
<1> QED BY <1>1, <1>2, <1>3, <1>4 DEF Next

\* A step that refuses, in a queue session, the overtaken thread's hit at most.
Claims ==
  \A t \in Threads :
    SupportsQueuedTriggerTracing /\ rip[t] = "trigger" /\ pc[t] \in InHandler
      => pc'[t] # "refused" \/ (t = active_thread_id /\ t \in overtaken)

LEMMA ClaimsArm ==
  ASSUME TypeOK, NEW a \in Armers, ArmStep(a)
  PROVE  Claims
<1>1. pc' = pc
  BY DEF ArmStep, Look, LookInList, Arm, Enlist
<1> QED BY <1>1 DEF Claims, InHandler

LEMMA ClaimsHandler ==
  ASSUME TypeOK, QueueInv, NEW t \in Threads, HandlerStep(t)
  PROVE  Claims
<1> USE DEF TypeOK, InHandler, Claims
<1>1. CASE pc[t] = "arm" /\ ArmStep(t)
  BY <1>1, ClaimsArm
<1>2. CASE EnterRace(t)
  BY <1>2 DEF EnterRace
<1>3. CASE OtherDetached(t)
  BY <1>3 DEF OtherDetached, OtherThread, QueuesHit
<1>4. CASE WaitedHit(t)
  BY <1>4 DEF WaitedHit, TracedThread
<1>5. CASE FlowStep(t)
  <2>1. pc[t] = "entered" /\ t = active_thread_id
    BY <1>5 DEF FlowStep, Traces, TracedThread
  <2>2. \/ pc' = [pc EXCEPT ![t] = "refused"] /\ rip[t] # "flow"
        \/ pc' = [pc EXCEPT ![t] = "claimed"]
    BY <1>5, Zenon DEF FlowStep
  <2> QED BY <2>1, <2>2 DEF QueueInv, SupportsQueuedTriggerTracing
<1>6. CASE \E p \in InHandler \cup {"claimed", "queued", "loaded", "missed", "run",
                                 "unclaimed", "lost", "terminated"} :
             pc' = [pc EXCEPT ![t] = p]
  BY <1>6
<1> QED
  BY <1>1, <1>2, <1>3, <1>4, <1>5, <1>6
  DEF HandlerStep, LoadActive, LoadNone, Enter, LeftOpen, Continue, OtherQueues,
      QueueHit, StaleStep, WinRace, LoseRaceQueued, LoseRace, Promote, PromoteFails,
      BeginTrace, Rotate, RotateRelease, RotateOpen, RotateWatch, RotateRaces,
      RotateFails

LEMMA ClaimsOthers ==
  ASSUME TypeOK, NEW t \in Threads,
         \/ HitTrigger(t) \/ HitFlow(t) \/ CreateThread(t) \/ WorkerStep
         \/ StartSession \/ StopSession \/ StartFails \/ OwnerStep \/ Expire
  PROVE  Claims
<1>1. CASE ArmStep(Worker) \/ ArmStep(Owner)
  BY <1>1, ClaimsArm
<1>2. CASE pc' = pc
  BY <1>2 DEF Claims, InHandler
<1>3. CASE HitTrigger(t) \/ HitFlow(t)
  BY <1>3 DEF HitTrigger, HitFlow, Claims, InHandler, TypeOK
<1>4. CASE CreateThread(t)
  BY <1>4, <1>2 DEF CreateThread
<1>5. CASE WorkerStep
  BY <1>5, <1>1, <1>2 DEF WorkerStep, WorkerRound, WorkerArmed
<1>6. CASE StartSession \/ StopSession \/ StartFails \/ OwnerStep \/ Expire
  BY <1>6, <1>1, <1>2
  DEF StartSession, StopSession, StartFails, OwnerStep, PrepareSession,
      OpenTarget,
      ArmTarget, OpenCapture, WatchCapture, StopJoin, StopClear, StopDrain,
      StopLeave, Expire
<1> QED BY <1>3, <1>4, <1>5, <1>6

\* A queue session refuses no hit of the trigger but that of the traced thread armed
\* over the engine's breakpoints by somebody who looked at it before its promotion:
\* the promoted thread leaves the trigger behind in its registers and its saved
\* context, only the unlocked end of ArmTriggerCaptureThreads brings it back, and
\* the hit of any other thread is queued or enters the race.
THEOREM QueueClaimsEveryHit == Spec => QueueClaimsHits
<1>1. TypeOK /\ QueueInv /\ [Next]_vars => [Claims]_vars
  <2> SUFFICES ASSUME TypeOK, QueueInv, Next PROVE Claims
    OBVIOUS
  <2> PICK t \in Threads : TRUE
    BY ThreadsAssumption
  <2> QED BY ClaimsHandler, ClaimsOthers DEF Next
<1>2. Spec => [][Claims]_vars
  BY <1>1, QueueInit, QueueStep, SessionTypeCorrect, PTL DEF Spec
<1> QED BY <1>2 DEF QueueClaimsHits, Claims

-----------------------------------------------------------------------------
(* The first session.                                                      *)

\* A thread that has met no breakpoint and carries none.
Untouched(t) == pc[t] = "run" /\ dr[t] = "none" /\ ctx[t] = "none"

\* Until the first session is prepared nothing is armed, listed or running.
BeforeFirst == starts = 0 \/ (starts = 1 /\ owner_pc = "start_join")

FreshInv ==
  /\ starts <= 1 => restarted = FALSE
  /\ owner_pc \in {"open_target", "arm_target"} => focus \in {"direct", "given"}
  /\ BeforeFirst =>
       /\ running = FALSE /\ worker_pc = "off"
       /\ thread_handle = NoThread
       /\ trigger_capture_threads = {} /\ g_recent_capture_thread_ids = {}
       /\ \A t \in Threads : Untouched(t)

\* Whoever arms threads is where it does so.
ArmsNow(a) ==
  \/ a = Worker /\ worker_pc = "arm"
  \/ a = Owner /\ owner_pc = "arm"
  \/ a \in Threads /\ pc[a] = "arm"

\* The first session traces a given thread: nobody else is touched, and the
\* handle or the mark of Stop covers the target for as long as it is.
TracesTarget ==
  starts = 1 /\ owner_pc # "start_join" /\ focus \in {"direct", "given"}

TargetInv ==
  TracesTarget =>
    /\ active_thread_id = Target
    /\ \A t \in Threads : t # Target => Untouched(t)
    /\ trigger_capture_threads = {} /\ g_recent_capture_thread_ids = {}
    /\ worker_pc = "off" /\ owner_pc \notin {"arm", "watch"}
    /\ pc[Target] \in {"run", "raised", "loaded", "entered", "hit", "claimed",
                       "missed", "lost"}
    /\ owner_pc \in {"open_target", "arm_target"} =>
         Untouched(Target) /\ g_active_impl = TRUE
    /\ owner_pc \in {"stop_drain", "stop_leave"} => thread_handle = NoThread
    /\ g_active_impl = FALSE => thread_handle = NoThread
    /\ \/ thread_handle = Target \/ g_recent_stop_thread_id = Target
       \/ Untouched(Target)
    /\ pc[Target] = "missed" => g_recent_stop_thread_id = Target
    /\ pc[Target] = "lost" =>
         g_recent_stop_thread_id = Target /\ recent_stop_fresh = FALSE

\* While it runs, what the target carries and raises is the trigger as long as
\* the session waits for it, and of the flow engine from then on.
PhaseInv ==
  TracesTarget =>
    /\ owner_pc = "open_target" => waiting_for_trigger = FALSE
    /\ owner_pc = "arm_target" =>
         /\ thread_handle = Target
         /\ focus = "given" => waiting_for_trigger = TRUE
         /\ focus = "direct" => waiting_for_trigger = FALSE
    /\ running = TRUE /\ waiting_for_trigger = TRUE =>
         /\ dr[Target] # "flow" /\ ctx[Target] # "flow"
         /\ pc[Target] \in {"raised", "loaded", "entered"} => rip[Target] = "trigger"
    /\ running = TRUE /\ waiting_for_trigger = FALSE =>
         /\ pc[Target] = "run" => dr[Target] # "trigger"
         /\ pc[Target] # "run" => ctx[Target] # "trigger"
         /\ pc[Target] # "hit"
         /\ pc[Target] \in {"raised", "loaded", "entered"} => rip[Target] = "flow"

\* While the first session runs, the breakpoints of the engine are the active
\* thread's: in the registers of a thread that runs, in the saved context of one
\* that is in the handler and does not rotate the capture.
FlowInv ==
  starts = 1 /\ running = TRUE =>
    \A t \in Threads :
      (\/ pc[t] = "run" /\ dr[t] = "flow"
       \/ /\ pc[t] \notin {"run", "rotate", "arm", "watch", "terminated"}
          /\ ctx[t] = "flow")
      => t = active_thread_id

LEMMA FreshInit == Init => FreshInv
<1> SUFFICES ASSUME Init PROVE FreshInv
  OBVIOUS
<1>1. running = FALSE /\ restarted = FALSE
  BY Zenon DEF Init
<1> QED BY <1>1 DEF Init, FreshInv, BeforeFirst, Untouched

LEMMA FreshArm ==
  ASSUME IInv, FreshInv, NEW a \in Armers, ArmsNow(a), ArmStep(a)
  PROVE  FreshInv'
<1> USE DEF IInv, TypeOK, StopInv, FreshInv, BeforeFirst, Untouched, InHandler,
        ArmsNow
<1>1. CASE Look(a)
  BY <1>1 DEF Look
<1>2. CASE LookInList(a)
  BY <1>2 DEF LookInList
<1>3. CASE Arm(a)
  BY <1>3 DEF Arm
<1>4. CASE Enlist(a)
  BY <1>4 DEF Enlist
<1> QED BY <1>1, <1>2, <1>3, <1>4 DEF ArmStep

LEMMA FreshThread ==
  ASSUME IInv, FreshInv, NEW t \in Threads,
         HitTrigger(t) \/ HitFlow(t) \/ CreateThread(t)
  PROVE  FreshInv'
<1> USE DEF IInv, TypeOK, StopInv, FreshInv, BeforeFirst, Untouched, InHandler
<1>1. CASE HitTrigger(t)
  BY <1>1 DEF HitTrigger
<1>2. CASE HitFlow(t)
  BY <1>2 DEF HitFlow
<1>3. CASE CreateThread(t)
  BY <1>3 DEF CreateThread
<1> QED BY <1>1, <1>2, <1>3

LEMMA FreshHandler ==
  ASSUME IInv, FreshInv, NEW t \in Threads, HandlerStep(t)
  PROVE  FreshInv'
<1> USE DEF IInv, TypeOK, StopInv, FreshInv, BeforeFirst, Untouched, InHandler
<1>1. CASE LoadActive(t)
  BY <1>1 DEF LoadActive
<1>2. CASE LoadNone(t)
  BY <1>2 DEF LoadNone
<1>3. CASE Enter(t)
  BY <1>3 DEF Enter
<1>4. CASE LeftOpen(t)
  BY <1>4 DEF LeftOpen
<1>5. CASE Continue(t)
  BY <1>5 DEF Continue
<1>6. CASE EnterRace(t)
  BY <1>6 DEF EnterRace, CapturePending
<1>7. CASE OtherQueues(t)
  BY <1>7 DEF OtherQueues, OtherThread, QueueHit
<1>8. CASE OtherDetached(t)
  BY <1>8 DEF OtherDetached, OtherThread
<1>9. CASE StaleStep(t)
  BY <1>9 DEF StaleStep, TracedThread
<1>10. CASE WaitedHit(t)
  BY <1>10 DEF WaitedHit, TracedThread
<1>11. CASE WinRace(t)
  BY <1>11 DEF WinRace, WinsRace
<1>12. CASE LoseRaceQueued(t)
  BY <1>12 DEF LoseRaceQueued, QueueHit, WinsRace
<1>13. CASE LoseRace(t)
  BY <1>13 DEF LoseRace, WinsRace
<1>14. CASE Promote(t)
  BY <1>14 DEF Promote, ReleaseCaptured
<1>15. CASE PromoteFails(t)
  BY <1>15 DEF PromoteFails, ReleaseCaptured
<1>16. CASE BeginTrace(t)
  BY <1>16 DEF BeginTrace
<1>17. CASE FlowStep(t)
  BY <1>17 DEF FlowStep, Traces, TracedThread
<1>18. CASE Rotate(t)
  BY <1>18 DEF Rotate, Traces, TracedThread
<1>19. CASE RotateRelease(t)
  BY <1>19 DEF RotateRelease, ReleaseCaptured
<1>20. CASE RotateOpen(t)
  BY <1>20 DEF RotateOpen
<1>21. CASE RotateWatch(t)
  BY <1>21 DEF RotateWatch
<1>22. CASE RotateRaces(t)
  BY <1>22 DEF RotateRaces
<1>23. CASE RotateFails(t)
  BY <1>23 DEF RotateFails
<1>24. CASE pc[t] = "arm" /\ ArmStep(t)
  BY <1>24, FreshArm DEF ArmsNow
<1> QED
  BY <1>1, <1>2, <1>3, <1>4, <1>5, <1>6, <1>7, <1>8, <1>9, <1>10, <1>11, <1>12,
     <1>13, <1>14, <1>15, <1>16, <1>17, <1>18, <1>19, <1>20, <1>21, <1>22,
     <1>23, <1>24
  DEF HandlerStep

LEMMA FreshWorker ==
  ASSUME IInv, FreshInv, WorkerStep
  PROVE  FreshInv'
<1> USE DEF IInv, TypeOK, StopInv, FreshInv, BeforeFirst, Untouched, InHandler
<1>1. CASE WorkerRound
  BY <1>1 DEF WorkerRound
<1>2. CASE WorkerArmed
  BY <1>2 DEF WorkerArmed
<1>3. CASE worker_pc = "arm" /\ ArmStep(Worker)
  BY <1>3, FreshArm DEF ArmsNow
<1> QED BY <1>1, <1>2, <1>3 DEF WorkerStep

LEMMA FreshOwner ==
  ASSUME IInv, FreshInv,
         StartSession \/ StopSession \/ StartFails \/ OwnerStep \/ Expire
  PROVE  FreshInv'
<1> USE DEF IInv, TypeOK, StopInv, FreshInv, BeforeFirst, Untouched, InHandler
<1>1. CASE StartSession
  BY <1>1, BoundsAssumption DEF StartSession, Idle
<1>2. CASE \E f \in Focuses : PrepareSession(f)
  BY <1>2 DEF PrepareSession, ReleaseCaptured
<1>3. CASE OpenTarget
  BY <1>3 DEF OpenTarget
<1>4. CASE ArmTarget
  BY <1>4 DEF ArmTarget
<1>5. CASE OpenCapture
  BY <1>5 DEF OpenCapture
<1>6. CASE WatchCapture
  BY <1>6 DEF WatchCapture
<1>7. CASE StartFails
  BY <1>7 DEF StartFails
<1>8. CASE StopSession
  BY <1>8 DEF StopSession
<1>9. CASE StopJoin
  BY <1>9 DEF StopJoin, ReleaseCaptured
<1>10. CASE StopClear
  BY <1>10 DEF StopClear
<1>11. CASE StopDrain
  BY <1>11 DEF StopDrain
<1>12. CASE StopLeave
  BY <1>12 DEF StopLeave
<1>13. CASE Expire
  BY <1>13 DEF Expire
<1>14. CASE owner_pc = "arm" /\ ArmStep(Owner)
  BY <1>14, FreshArm DEF ArmsNow
<1> QED
  BY <1>1, <1>2, <1>3, <1>4, <1>5, <1>6, <1>7, <1>8, <1>9, <1>10, <1>11, <1>12,
     <1>13, <1>14
  DEF OwnerStep

LEMMA FreshStep == IInv /\ FreshInv /\ [Next]_vars => FreshInv'
<1> SUFFICES ASSUME IInv, FreshInv, [Next]_vars PROVE FreshInv'
  OBVIOUS
<1>1. CASE \E t \in Threads :
             HitTrigger(t) \/ HitFlow(t) \/ CreateThread(t) \/ HandlerStep(t)
  BY <1>1, FreshThread, FreshHandler
<1>2. CASE WorkerStep
  BY <1>2, FreshWorker
<1>3. CASE StartSession \/ StopSession \/ StartFails \/ OwnerStep \/ Expire
  BY <1>3, FreshOwner
<1>4. CASE UNCHANGED vars
  BY <1>4 DEF FreshInv, BeforeFirst, Untouched
<1> QED BY <1>1, <1>2, <1>3, <1>4 DEF Next

LEMMA TargetInit == Init => TargetInv /\ PhaseInv
BY DEF Init, TargetInv, PhaseInv, TracesTarget

LEMMA TargetArm ==
  ASSUME IInv, FreshInv, ProcessAlive, TargetInv, PhaseInv, NEW a \in Armers,
         ArmsNow(a), ArmStep(a)
  PROVE  TargetInv' /\ PhaseInv'
<1> USE DEF IInv, TypeOK, StopInv, FreshInv, BeforeFirst, Untouched, InHandler,
        ArmsNow, TracesTarget, TargetInv, PhaseInv, AutoSelect
<1>1. CASE Look(a)
  BY <1>1 DEF Look
<1>2. CASE LookInList(a)
  BY <1>2 DEF LookInList
<1>3. CASE Arm(a)
  BY <1>3 DEF Arm
<1>4. CASE Enlist(a)
  BY <1>4 DEF Enlist
<1> QED BY <1>1, <1>2, <1>3, <1>4 DEF ArmStep

LEMMA TargetThread ==
  ASSUME IInv, FreshInv, ProcessAlive, TargetInv, PhaseInv, NEW t \in Threads,
         HitTrigger(t) \/ HitFlow(t) \/ CreateThread(t)
  PROVE  TargetInv' /\ PhaseInv'
<1> USE DEF IInv, TypeOK, StopInv, FreshInv, BeforeFirst, Untouched, InHandler,
        TracesTarget, TargetInv, PhaseInv, AutoSelect
<1>1. CASE HitTrigger(t)
  BY <1>1 DEF HitTrigger
<1>2. CASE HitFlow(t)
  BY <1>2 DEF HitFlow
<1>3. CASE CreateThread(t)
  BY <1>3 DEF CreateThread
<1> QED BY <1>1, <1>2, <1>3

LEMMA TargetHandler ==
  ASSUME IInv, FreshInv, ProcessAlive, TargetInv, PhaseInv, NEW t \in Threads,
         HandlerStep(t)
  PROVE  TargetInv' /\ PhaseInv'
<1> USE DEF IInv, TypeOK, StopInv, FreshInv, BeforeFirst, Untouched, InHandler,
        TracesTarget, TargetInv, PhaseInv, AutoSelect
<1>1. CASE LoadActive(t)
  BY <1>1 DEF LoadActive
<1>2. CASE LoadNone(t)
  BY <1>2, ThreadsAssumption DEF LoadNone
<1>3. CASE Enter(t)
  BY <1>3 DEF Enter
<1>4. CASE LeftOpen(t)
  BY <1>4 DEF LeftOpen, RecentlyStopped, ProcessAlive
<1>5. CASE Continue(t)
  BY <1>5 DEF Continue
<1>6. CASE EnterRace(t)
  BY <1>6 DEF EnterRace, CapturePending, CapturePending
<1>7. CASE OtherQueues(t)
  BY <1>7
  DEF OtherQueues, OtherThread, QueueHit, QueuesHit,
      SupportsQueuedTriggerTracing, CapturePending
<1>8. CASE OtherDetached(t)
  BY <1>8 DEF OtherDetached, OtherThread, QueuesHit
<1>9. CASE StaleStep(t)
  BY <1>9 DEF StaleStep, TracedThread
<1>10. CASE WaitedHit(t)
  BY <1>10 DEF WaitedHit, TracedThread
<1>11. CASE WinRace(t)
  BY <1>11 DEF WinRace, WinsRace
<1>12. CASE LoseRaceQueued(t)
  BY <1>12 DEF LoseRaceQueued, QueueHit, WinsRace
<1>13. CASE LoseRace(t)
  BY <1>13 DEF LoseRace, WinsRace
<1>14. CASE Promote(t)
  BY <1>14 DEF Promote, ReleaseCaptured
<1>15. CASE PromoteFails(t)
  BY <1>15 DEF PromoteFails, ReleaseCaptured
<1>16. CASE BeginTrace(t)
  BY <1>16 DEF BeginTrace
<1>17. CASE FlowStep(t)
  <2>1. running = TRUE /\ waiting_for_trigger = FALSE
    BY <1>17, Zenon DEF FlowStep, Traces, TypeOK
  <2>2. rip[t] = "flow" \/ ~TracesTarget
    BY <1>17, <2>1 DEF FlowStep, Traces, TracedThread
  <2>3. rip[t] = "flow" =>
          /\ pc' = [pc EXCEPT ![t] = "claimed"]
          /\ running' = FALSE \/ ctx' = [ctx EXCEPT ![t] = "flow"]
          /\ ctx' = [ctx EXCEPT ![t] = "flow"] \/ ctx' = [ctx EXCEPT ![t] = "none"]
    BY <1>17, Zenon DEF FlowStep
  <2> QED BY <1>17, <2>1, <2>2, <2>3 DEF FlowStep, Traces, TracedThread
<1>18. CASE Rotate(t)
  BY <1>18 DEF Rotate, Traces, TracedThread, SupportsQueuedTriggerTracing
<1>19. CASE RotateRelease(t)
  BY <1>19 DEF RotateRelease, ReleaseCaptured
<1>20. CASE RotateOpen(t)
  BY <1>20 DEF RotateOpen
<1>21. CASE RotateWatch(t)
  BY <1>21 DEF RotateWatch
<1>22. CASE RotateRaces(t)
  BY <1>22 DEF RotateRaces
<1>23. CASE RotateFails(t)
  BY <1>23 DEF RotateFails
<1>24. CASE pc[t] = "arm" /\ ArmStep(t)
  BY <1>24, TargetArm DEF ArmsNow
<1> QED
  BY <1>1, <1>2, <1>3, <1>4, <1>5, <1>6, <1>7, <1>8, <1>9, <1>10, <1>11, <1>12,
     <1>13, <1>14, <1>15, <1>16, <1>17, <1>18, <1>19, <1>20, <1>21, <1>22,
     <1>23, <1>24
  DEF HandlerStep

LEMMA TargetWorker ==
  ASSUME IInv, FreshInv, ProcessAlive, TargetInv, PhaseInv, WorkerStep
  PROVE  TargetInv' /\ PhaseInv'
<1> USE DEF IInv, TypeOK, StopInv, FreshInv, BeforeFirst, Untouched, InHandler,
        TracesTarget, TargetInv, PhaseInv, AutoSelect
<1>1. CASE WorkerRound
  BY <1>1 DEF WorkerRound
<1>2. CASE WorkerArmed
  BY <1>2 DEF WorkerArmed
<1>3. CASE worker_pc = "arm" /\ ArmStep(Worker)
  BY <1>3, TargetArm DEF ArmsNow
<1> QED BY <1>1, <1>2, <1>3 DEF WorkerStep

LEMMA TargetOwner ==
  ASSUME IInv, FreshInv, ProcessAlive, TargetInv, PhaseInv,
         StartSession \/ StopSession \/ StartFails \/ OwnerStep \/ Expire
  PROVE  TargetInv' /\ PhaseInv'
<1> USE DEF IInv, TypeOK, StopInv, FreshInv, BeforeFirst, Untouched, InHandler,
        TracesTarget, TargetInv, PhaseInv, AutoSelect
<1>1. CASE StartSession
  BY <1>1, BoundsAssumption DEF StartSession, Idle
<1>2. CASE \E f \in Focuses : PrepareSession(f)
  BY <1>2, ThreadsAssumption DEF PrepareSession, ReleaseCaptured
<1>3. CASE OpenTarget
  <2>1. /\ focus = "given" => waiting_for_trigger' = TRUE
        /\ focus # "given" => waiting_for_trigger' = FALSE
    BY <1>3, Zenon DEF OpenTarget
  <2> QED BY <1>3, <2>1, ThreadsAssumption DEF OpenTarget
<1>4. CASE ArmTarget
  BY <1>4 DEF ArmTarget
<1>5. CASE OpenCapture
  BY <1>5 DEF OpenCapture
<1>6. CASE WatchCapture
  BY <1>6 DEF WatchCapture
<1>7. CASE StartFails
  BY <1>7 DEF StartFails
<1>8. CASE StopSession
  BY <1>8 DEF StopSession, Idle
<1>9. CASE StopJoin
  BY <1>9 DEF StopJoin, ReleaseCaptured
<1>10. CASE StopClear
  BY <1>10, ThreadsAssumption DEF StopClear, MarkedThread, ProcessAlive
<1>11. CASE StopDrain
  BY <1>11 DEF StopDrain
<1>12. CASE StopLeave
  BY <1>12 DEF StopLeave
<1>13. CASE Expire
  BY <1>13 DEF Expire
<1>14. CASE owner_pc = "arm" /\ ArmStep(Owner)
  BY <1>14, TargetArm DEF ArmsNow
<1> QED
  BY <1>1, <1>2, <1>3, <1>4, <1>5, <1>6, <1>7, <1>8, <1>9, <1>10, <1>11, <1>12,
     <1>13, <1>14
  DEF OwnerStep

LEMMA TargetStep ==
  IInv /\ FreshInv /\ TargetInv /\ PhaseInv /\ [Next]_vars => TargetInv' /\ PhaseInv'
<1> SUFFICES ASSUME IInv, FreshInv, TargetInv, PhaseInv, [Next]_vars
             PROVE  TargetInv' /\ PhaseInv'
  OBVIOUS
<1>1. CASE UNCHANGED vars
  BY <1>1 DEF TargetInv, PhaseInv, TracesTarget, Untouched
<1>2. CASE Next
  <2>1. ProcessAlive
    BY <1>2 DEF Next
  <2>2. CASE \E t \in Threads :
               HitTrigger(t) \/ HitFlow(t) \/ CreateThread(t) \/ HandlerStep(t)
    BY <2>1, <2>2, TargetThread, TargetHandler
  <2>3. CASE WorkerStep
    BY <2>1, <2>3, TargetWorker
  <2>4. CASE StartSession \/ StopSession \/ StartFails \/ OwnerStep \/ Expire
    BY <2>1, <2>4, TargetOwner
  <2> QED BY <1>2, <2>2, <2>3, <2>4 DEF Next
<1> QED BY <1>1, <1>2

LEMMA EngineArm ==
  ASSUME IInv, FreshInv, TargetInv, FlowInv, NEW a \in Armers, ArmStep(a)
  PROVE  FlowInv'
<1> USE DEF IInv, TypeOK, StopInv, PromotedInv, FreshInv, BeforeFirst,
        Untouched, FlowInv, TracesTarget, TargetInv
<1>1. CASE Look(a)
  BY <1>1 DEF Look
<1>2. CASE LookInList(a)
  BY <1>2 DEF LookInList
<1>3. CASE Arm(a)
  BY <1>3 DEF Arm
<1>4. CASE Enlist(a)
  BY <1>4 DEF Enlist
<1> QED BY <1>1, <1>2, <1>3, <1>4 DEF ArmStep

LEMMA EngineThread ==
  ASSUME IInv, FreshInv, TargetInv, FlowInv, NEW t \in Threads,
         HitTrigger(t) \/ HitFlow(t) \/ CreateThread(t)
  PROVE  FlowInv'
<1> USE DEF IInv, TypeOK, StopInv, PromotedInv, FreshInv, BeforeFirst,
        Untouched, FlowInv, TracesTarget, TargetInv
<1>1. CASE HitTrigger(t)
  BY <1>1 DEF HitTrigger
<1>2. CASE HitFlow(t)
  BY <1>2 DEF HitFlow
<1>3. CASE CreateThread(t)
  BY <1>3 DEF CreateThread
<1> QED BY <1>1, <1>2, <1>3

LEMMA EngineHandler ==
  ASSUME IInv, FreshInv, TargetInv, FlowInv, NEW t \in Threads, HandlerStep(t)
  PROVE  FlowInv'
<1> USE DEF IInv, TypeOK, StopInv, PromotedInv, FreshInv, BeforeFirst,
        Untouched, FlowInv, TracesTarget, TargetInv
<1>1. CASE LoadActive(t)
  BY <1>1 DEF LoadActive
<1>2. CASE LoadNone(t)
  BY <1>2 DEF LoadNone
<1>3. CASE Enter(t)
  BY <1>3 DEF Enter
<1>4. CASE LeftOpen(t)
  BY <1>4 DEF LeftOpen
<1>5. CASE Continue(t)
  BY <1>5 DEF Continue
<1>6. CASE EnterRace(t)
  BY <1>6 DEF EnterRace, CapturePending
<1>7. CASE OtherQueues(t)
  BY <1>7 DEF OtherQueues, OtherThread, QueueHit
<1>8. CASE OtherDetached(t)
  BY <1>8 DEF OtherDetached, OtherThread
<1>9. CASE StaleStep(t)
  BY <1>9 DEF StaleStep, TracedThread
<1>10. CASE WaitedHit(t)
  BY <1>10 DEF WaitedHit, TracedThread
<1>11. CASE WinRace(t)
  BY <1>11, ThreadsAssumption DEF WinRace, WinsRace
<1>12. CASE LoseRaceQueued(t)
  BY <1>12 DEF LoseRaceQueued, QueueHit, WinsRace
<1>13. CASE LoseRace(t)
  BY <1>13 DEF LoseRace, WinsRace
<1>14. CASE Promote(t)
  BY <1>14 DEF Promote, ReleaseCaptured
<1>15. CASE PromoteFails(t)
  BY <1>15 DEF PromoteFails, ReleaseCaptured
<1>16. CASE BeginTrace(t)
  <2>1. \/ running' = running /\ ctx' = [ctx EXCEPT ![t] = "flow"]
        \/ running' = FALSE
    BY <1>16, Zenon DEF BeginTrace
  <2>2. CASE running' = FALSE
    BY <2>2
  <2>3. CASE running' = running /\ ctx' = [ctx EXCEPT ![t] = "flow"]
    BY <1>16, <2>3, ThreadsAssumption DEF BeginTrace
  <2> QED BY <2>1, <2>2, <2>3
<1>17. CASE FlowStep(t)
  BY <1>17 DEF FlowStep, Traces, TracedThread
<1>18. CASE Rotate(t)
  BY <1>18 DEF Rotate, Traces, TracedThread
<1>19. CASE RotateRelease(t)
  BY <1>19 DEF RotateRelease, ReleaseCaptured
<1>20. CASE RotateOpen(t)
  BY <1>20 DEF RotateOpen
<1>21. CASE RotateWatch(t)
  BY <1>21 DEF RotateWatch
<1>22. CASE RotateRaces(t)
  BY <1>22 DEF RotateRaces
<1>23. CASE RotateFails(t)
  BY <1>23 DEF RotateFails
<1>24. CASE pc[t] = "arm" /\ ArmStep(t)
  BY <1>24, EngineArm
<1> QED
  BY <1>1, <1>2, <1>3, <1>4, <1>5, <1>6, <1>7, <1>8, <1>9, <1>10, <1>11, <1>12,
     <1>13, <1>14, <1>15, <1>16, <1>17, <1>18, <1>19, <1>20, <1>21, <1>22,
     <1>23, <1>24
  DEF HandlerStep

LEMMA EngineWorker ==
  ASSUME IInv, FreshInv, TargetInv, FlowInv, WorkerStep
  PROVE  FlowInv'
<1> USE DEF IInv, TypeOK, StopInv, PromotedInv, FreshInv, BeforeFirst,
        Untouched, FlowInv, TracesTarget, TargetInv
<1>1. CASE WorkerRound
  BY <1>1 DEF WorkerRound
<1>2. CASE WorkerArmed
  BY <1>2 DEF WorkerArmed
<1>3. CASE worker_pc = "arm" /\ ArmStep(Worker)
  BY <1>3, EngineArm
<1> QED BY <1>1, <1>2, <1>3 DEF WorkerStep

LEMMA EngineOwner ==
  ASSUME IInv, FreshInv, TargetInv, FlowInv,
         StartSession \/ StopSession \/ StartFails \/ OwnerStep \/ Expire
  PROVE  FlowInv'
<1> USE DEF IInv, TypeOK, StopInv, PromotedInv, FreshInv, BeforeFirst,
        Untouched, FlowInv, TracesTarget, TargetInv
<1>1. CASE StartSession
  BY <1>1, BoundsAssumption DEF StartSession, Idle
<1>2. CASE \E f \in Focuses : PrepareSession(f)
  BY <1>2 DEF PrepareSession, ReleaseCaptured
<1>3. CASE OpenTarget
  BY <1>3 DEF OpenTarget
<1>4. CASE ArmTarget
  BY <1>4 DEF ArmTarget
<1>5. CASE OpenCapture
  BY <1>5 DEF OpenCapture
<1>6. CASE WatchCapture
  BY <1>6 DEF WatchCapture
<1>7. CASE StartFails
  BY <1>7 DEF StartFails
<1>8. CASE StopSession
  BY <1>8 DEF StopSession
<1>9. CASE StopJoin
  BY <1>9 DEF StopJoin, ReleaseCaptured
<1>10. CASE StopClear
  BY <1>10 DEF StopClear
<1>11. CASE StopDrain
  BY <1>11 DEF StopDrain
<1>12. CASE StopLeave
  BY <1>12 DEF StopLeave
<1>13. CASE Expire
  BY <1>13 DEF Expire
<1>14. CASE owner_pc = "arm" /\ ArmStep(Owner)
  BY <1>14, EngineArm
<1> QED
  BY <1>1, <1>2, <1>3, <1>4, <1>5, <1>6, <1>7, <1>8, <1>9, <1>10, <1>11, <1>12,
     <1>13, <1>14
  DEF OwnerStep

LEMMA EngineStep ==
  IInv /\ FreshInv /\ TargetInv /\ FlowInv /\ [Next]_vars => FlowInv'
<1> SUFFICES ASSUME IInv, FreshInv, TargetInv, FlowInv, [Next]_vars PROVE FlowInv'
  OBVIOUS
<1>1. CASE \E t \in Threads :
             HitTrigger(t) \/ HitFlow(t) \/ CreateThread(t) \/ HandlerStep(t)
  BY <1>1, EngineThread, EngineHandler
<1>2. CASE WorkerStep
  BY <1>2, EngineWorker
<1>3. CASE StartSession \/ StopSession \/ StartFails \/ OwnerStep \/ Expire
  BY <1>3, EngineOwner
<1>4. CASE UNCHANGED vars
  BY <1>4 DEF FlowInv
<1> QED BY <1>1, <1>2, <1>3, <1>4 DEF Next

\* All of this at once.
FirstInv == FreshInv /\ TargetInv /\ PhaseInv /\ FlowInv

LEMMA FirstSession == Spec => []FirstInv
<1>1. Init => FirstInv
  <2> SUFFICES ASSUME Init PROVE FirstInv
    OBVIOUS
  <2>1. FlowInv
    BY DEF Init, FlowInv
  <2> QED BY <2>1, FreshInit, TargetInit DEF FirstInv
<1>2. IInv /\ FirstInv /\ [Next]_vars => FirstInv'
  BY FreshStep, TargetStep, EngineStep DEF FirstInv
<1> QED BY <1>1, <1>2, SessionInvariance, PTL DEF Spec

\* A given thread is lost only after the deadline of Stop: the handle covers the
\* target until Stop clears its registers, and from there the mark it leaves; no
\* exception of the target is refused, as what it raises is what the session is
\* waiting for.
THEOREM GivenThreadRecovers == Spec => []GivenRecovers
<1>1. IInv /\ FirstInv => GivenRecovers
  <2> SUFFICES ASSUME IInv, FirstInv, GivenThread, NEW t \in Threads,
                      pc[t] \in {"unclaimed", "lost"}
               PROVE  t = g_recent_stop_thread_id /\ ~recent_stop_fresh
    BY DEF GivenRecovers
  <2>1. focus \in {"direct", "given"} /\ starts = 1
    BY BoundsAssumption DEF IInv, TypeOK, GivenThread, AutoSelect, AllFocuses
  <2>2. owner_pc # "start_join"
    BY <2>1 DEF FirstInv, FreshInv, BeforeFirst, Untouched
  <2>3. t = Target /\ pc[t] = "lost"
    BY <2>1, <2>2 DEF FirstInv, TargetInv, TracesTarget, Untouched
  <2> QED BY <2>1, <2>2, <2>3 DEF FirstInv, TargetInv, TracesTarget
<1> QED BY <1>1, SessionInvariance, FirstSession, PTL

\* In the first session a thread that runs with the breakpoints of the engine while
\* the trace is running is the active one: a thread leaves the handler with them
\* only as the promoted thread, and the rotation takes them from it before another
\* thread can be promoted.
THEOREM EngineBreakpointsAreActive == Spec => []FlowIsActive
<1>1. IInv /\ FirstInv => FlowIsActive
  BY DEF IInv, TypeOK, FirstInv, FlowInv, FlowIsActive
<1> QED BY <1>1, SessionInvariance, FirstSession, PTL
=============================================================================
