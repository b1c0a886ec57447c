---------------------------- MODULE HardwareFlow ----------------------------
(***************************************************************************)
(* The engine that follows a traced thread (src/core/hardware, decoder,    *)
(* observer, probe and runtime/VDTraceExecutionMode.cpp).  From the entry  *)
(* of a basic block it watches, with the debug registers, the block's      *)
(* destinations, or its last instruction to single-step it, and reports    *)
(* the transfer when the thread arrives.  Calls that are not followed are  *)
(* watched at their return address, hot loops are left to run to their     *)
(* exit, and some code is single-stepped in a window.                      *)
(*                                                                         *)
(* One action is one exception of the thread.  Other threads and Stop are  *)
(* TraceSession's, and the worker of a handoff is AsyncHandoff's.          *)
(***************************************************************************)
EXTENDS TracedThread

CONSTANT None

VARIABLES
  running, waiting_for_trigger, backend_mode, observation_state,
  pending_block,                  \* its entry, 0 for none
  pending_resume_entry, pending_target_override,   \* 0 when not valid
  pending_async_handoff,          \* the target of a stepped call, 0 for none
  observed_addresses,
  suppressed,                     \* the streak of suppressed transitions
  hot_bypass,
  call_return_stack, trap_suppression_stack,
  active_probe,
  last_rip,                       \* of a stepped thread, 0 when not valid
  reported,                       \* transfers reported, which are seen_edges
  event_count,
  uncounted,                      \* history: see FlowOpensWindow, RestoreFlow, HandoffRequested
  left_unseen,                    \* history: a window closed with the root frame
  refused,                        \* history: the decoder has refused what the thread came to
  handed                          \* history: a handoff has taken the trace

planVars == <<observation_state, pending_block, pending_resume_entry,
              pending_target_override, observed_addresses>>
stackVars == <<call_return_stack, trap_suppression_stack>>
windowVars == <<backend_mode, active_probe, last_rip>>
reportVars == <<reported, event_count>>
heatVars == <<suppressed, hot_bypass>>
threadRest == <<scenario, rip, stack, executed>>
history == <<uncounted, left_unseen, refused>>
flowRest == <<running, waiting_for_trigger, pending_async_handoff, history, handed>>
vars == <<scenario, threadVars, running, waiting_for_trigger, planVars,
          pending_async_handoff, heatVars, stackVars, windowVars, reportVars,
          history, handed>>

NoStreak == [anchor |-> 0, depth |-> 0, streak |-> 0]
NoBypass == [resume |-> 0, return |-> 0, depth |-> 0, root_stop |-> FALSE]
FirstSeen == scenario.hit_policy = "FirstSeen"

Depth == Len(call_return_stack)

Init ==
  /\ scenario \in Scenarios
  /\ rip = scenario.caller /\ stack = <<>>
  /\ drs = {scenario.entry} /\ tf = FALSE /\ trap = FALSE
  /\ executed = {}
  /\ running = TRUE /\ waiting_for_trigger = TRUE
  /\ backend_mode = IF scenario.control_flow_only THEN "HardwareFlow" ELSE "TrapFlag"
  /\ observation_state = "Idle"
  /\ pending_block = 0
  /\ pending_resume_entry = 0 /\ pending_target_override = 0
  /\ pending_async_handoff = 0
  /\ observed_addresses = {scenario.entry}
  /\ suppressed = NoStreak /\ hot_bypass = NoBypass
  /\ call_return_stack = <<>> /\ trap_suppression_stack = <<>>
  /\ active_probe = None /\ last_rip = 0
  /\ reported = {} /\ event_count = 0
  /\ uncounted = FALSE /\ left_unseen = FALSE /\ refused = FALSE /\ handed = FALSE

-----------------------------------------------------------------------------
(* ApplyHardwareContextObservations, and the ways a handler ends.          *)

Apply(addresses, single_step) == drs' = addresses /\ tf' = single_step

Mutant_StopsArmed ==
  /\ running' = FALSE
  /\ observation_state' = "Idle"
  /\ UNCHANGED <<pending_block, pending_resume_entry, pending_target_override,
                 observed_addresses, drs, tf>>
StopTrace ==
  /\ running' = FALSE
  /\ observation_state' = "Idle"
  /\ Apply({}, FALSE)
  /\ UNCHANGED <<pending_block, pending_resume_entry, pending_target_override,
                 observed_addresses>>

Count(n) == IF scenario.max_events = 0 THEN 0 ELSE n
AtLimit(n) == scenario.max_events > 0 /\ n >= scenario.max_events

\* TryEmitValueProbeEvent.
Capture(a) ==
  IF a \in DOMAIN scenario.probes /\ scenario.probes[a].mode = "capture" THEN 1 ELSE 0

-----------------------------------------------------------------------------
(* ProgramHardwareObservationImpl.                                         *)

\* The value probe at the entry itself has had its exception.
HasValueProbe(entry) ==
  \E a \in DOMAIN scenario.probes : a > entry /\ a <= BlockTail(entry)

Programmable(entry) ==
  Decodes(entry) /\ ~Truncated(entry) /\ ~HasValueProbe(entry)

Watch(addresses) ==
  [state |-> "WaitingForDestination", watch |-> addresses, resume |-> 0, override |-> 0]
WatchTail(t) == [Watch({t}) EXCEPT !.state = "WaitingForTail"]

Mutant_WatchesTargetOnly(t, depth) ==
  IF Kind(t) = "jcc" THEN Watch({Target(t)}) ELSE WatchTail(t)
Mutant_NoOverride(t, depth) ==
  CASE Kind(t) = "jcc" -> Watch({Target(t), t + 1})
    [] Kind(t) = "call" /\ Direct(t) -> Watch({Target(t), t + 1})
    [] Kind(t) = "jump" /\ Direct(t) -> Watch({Target(t)})
    [] OTHER -> WatchTail(t)
Plan(t, depth) ==
  CASE Kind(t) = "jcc" -> Watch({Target(t), t + 1})
    [] Kind(t) = "call" /\ Direct(t) ->
         IF Follows(Target(t), depth)
         THEN Watch({Target(t)})
         ELSE [(IF Target(t) \in scenario.async THEN WatchTail(t) ELSE Watch({t + 1}))
                 EXCEPT !.resume = t + 1, !.override = Target(t)]
    [] Kind(t) = "call" /\ ~Direct(t) -> [WatchTail(t) EXCEPT !.resume = t + 1]
    [] Kind(t) = "jump" /\ Direct(t) -> Watch({Target(t)})
    [] OTHER -> WatchTail(t)

FollowPlan(entry, plan) ==
  /\ pending_block' = entry
  /\ observation_state' = plan.state
  /\ pending_resume_entry' = plan.resume
  /\ pending_target_override' = plan.override
  /\ observed_addresses' = plan.watch
  /\ Apply(plan.watch, FALSE)

\* BeginHardwareLinearScan, after a plan that failed.
LinearScan(entry) ==
  /\ observation_state' = "LinearScan"
  /\ pending_block' = IF Decodes(entry) THEN entry ELSE pending_block
  /\ pending_resume_entry' = 0 /\ pending_target_override' = 0
  /\ Apply({}, TRUE)
  /\ UNCHANGED observed_addresses

Program(entry, depth) ==
  IF Programmable(entry) THEN FollowPlan(entry, Plan(BlockTail(entry), depth))
                         ELSE LinearScan(entry)

-----------------------------------------------------------------------------
(* Windows: ActivateTrapWindow, and what opens one.                        *)

Session(mode, exit, steps, depth, entry, restore) ==
  [mode |-> mode, exit |-> exit, remaining_steps |-> steps, start_depth |-> depth,
   pending_entry |-> entry, region |-> Region(entry), restore |-> restore]

OpenWindow(session) ==
  /\ active_probe' = session
  /\ backend_mode' = "TrapFlag"
  /\ observation_state' = "Idle"
  /\ pending_block' = 0
  /\ pending_resume_entry' = 0 /\ pending_target_override' = 0
  /\ pending_async_handoff' = 0
  /\ observed_addresses' = {}
  /\ Apply({}, TRUE)

StartsProbe(a) ==
  /\ a \in DOMAIN scenario.probes
  /\ scenario.probes[a].mode # "capture"

ProbeSession(a, depth, restore) ==
  Session(scenario.probes[a].mode, scenario.probes[a].exit,
          scenario.probes[a].steps, depth, a, restore)

StartsFilter(a) == scenario.control_flow_only /\ TrapFlagMode(a)

FilterSession(a, depth) == Session("filter", "leave", 0, depth, a, TRUE)

\* StartRegionAwareHardwareFlow.
StartFlow(entry, depth) ==
  IF StartsFilter(entry)
  THEN OpenWindow(FilterSession(entry, depth))
  ELSE /\ Program(entry, depth)
       /\ active_probe' = None
       /\ backend_mode' = "HardwareFlow"
       /\ UNCHANGED pending_async_handoff

-----------------------------------------------------------------------------
(* HandleTriggerWaitException: the thread is at the entry.                 *)

Triggered ==
  /\ running /\ waiting_for_trigger /\ Faults
  /\ waiting_for_trigger' = FALSE
  /\ trap' = FALSE
  /\ event_count' = Count(event_count + Capture(rip))
  /\ last_rip' = rip
  /\ IF scenario.control_flow_only
     THEN StartFlow(rip, 0)
     ELSE /\ Apply({}, TRUE)
          /\ UNCHANGED <<planVars, active_probe, backend_mode, pending_async_handoff>>
  /\ UNCHANGED <<threadRest, running, heatVars, stackVars, reported,
                 history, handed>>

-----------------------------------------------------------------------------
(* FinalizeHardwareTransition: what the arrival of the thread at rip means for *)
(* the pending block.                                                      *)

PendingTail == BlockTail(pending_block)
PendingKind == Kind(PendingTail)
Fallthrough == PendingTail + 1
Mutant_ArrivalIsTarget == rip
EventTarget == IF pending_target_override # 0 THEN pending_target_override ELSE rip
Edge == <<PendingTail, EventTarget>>

NextEntry ==
  IF PendingKind = "call"
  THEN IF Follows(EventTarget, Depth) THEN rip ELSE Fallthrough
  ELSE IF pending_resume_entry # 0 THEN pending_resume_entry ELSE rip

\* ShouldEmitTransition.
Emits == Recordable(PendingTail) /\ (FirstSeen => Edge \notin reported)

\* UpdateCallStackForTransition.
Mutant_PushesUnfollowed ==
  CASE PendingKind = "call" -> Append(call_return_stack, Fallthrough)
    [] PendingKind = "return" /\ Depth > 0 /\ Top(call_return_stack) = NextEntry ->
         Below(call_return_stack)
    [] OTHER -> call_return_stack
NewStack ==
  CASE PendingKind = "call" /\ NextEntry # Fallthrough -> Append(call_return_stack, Fallthrough)
    [] PendingKind = "return" /\ Depth > 0 /\ Top(call_return_stack) = NextEntry ->
         Below(call_return_stack)
    [] OTHER -> call_return_stack

\* TryArmHotReturnBypass, for a transition that is not emitted: after as many of
\* them as the threshold at one place, the thread is awaited at the other side of
\* the branch and where the frame returns.
FrameReturn == IF Depth = 0 THEN 0 ELSE Top(call_return_stack)

\* ResolveHotBypassResumeAddress.
HotResume ==
  IF PendingKind # "jcc" THEN 0
  ELSE IF EventTarget = Target(PendingTail) THEN Fallthrough ELSE Target(PendingTail)

HotAnchor == IF FrameReturn # 0 THEN FrameReturn ELSE HotResume
HotAddresses == (({HotResume} \ {EventTarget}) \cup {FrameReturn}) \ {0}

CountsHot ==
  /\ FirstSeen /\ scenario.hot_bypass_threshold > 0
  /\ PendingKind \in {"jcc", "jump"} /\ HotAnchor # 0
SameSpot == suppressed.anchor = HotAnchor /\ suppressed.depth = Depth
Streak == IF SameSpot THEN suppressed.streak + 1 ELSE 1
Mutant_NeverHot == FALSE
ArmsBypass ==
  /\ ~Emits /\ CountsHot /\ SameSpot
  /\ Streak >= scenario.hot_bypass_threshold /\ HotAddresses # {}

Heat ==
  /\ suppressed' =
       IF Emits \/ ~CountsHot \/ (SameSpot /\ Streak >= scenario.hot_bypass_threshold)
       THEN NoStreak
       ELSE [anchor |-> HotAnchor, depth |-> Depth, streak |-> Streak]
  /\ hot_bypass' =
       CASE ArmsBypass ->
              [resume |-> HotResume, return |-> FrameReturn, depth |-> Depth,
               root_stop |-> scenario.stop_on_root_return /\ FrameReturn # 0 /\ Depth = 0]
         [] /\ ~Emits /\ ~ArmsBypass
            /\ ~CountsHot \/ (SameSpot /\ Streak >= scenario.hot_bypass_threshold) ->
              NoBypass
         [] OTHER -> hot_bypass

Mutant_AwaitsReturnOnly ==
  /\ observation_state' = "WaitingForHotReturn"
  /\ observed_addresses' = HotAddresses
  /\ pending_block' = 0
  /\ pending_resume_entry' = 0 /\ pending_target_override' = 0
  /\ Apply({FrameReturn} \ {0}, FALSE)
AwaitHotReturn ==
  /\ observation_state' = "WaitingForHotReturn"
  /\ observed_addresses' = HotAddresses
  /\ pending_block' = 0
  /\ pending_resume_entry' = 0 /\ pending_target_override' = 0
  /\ Apply(HotAddresses, FALSE)

\* ShouldAutoStopOnRootReturn, with no queued thread to rotate to.
Mutant_StopsAtAnyReturn ==
  scenario.stop_on_root_return /\ Emits /\ PendingKind = "return"
RootReturn ==
  scenario.stop_on_root_return /\ Emits /\ PendingKind = "return" /\ Depth = 0

\* The end of both branches of the handler: the next block, or the event limit.
Proceed(entry, depth, count) ==
  IF AtLimit(count) THEN StopTrace
  ELSE Program(entry, depth) /\ UNCHANGED running

EventsNow == event_count + Capture(rip) + (IF Emits THEN 1 ELSE 0)

Transition ==
  /\ reported' = IF Emits THEN reported \cup {Edge} ELSE reported
  /\ event_count' = Count(EventsNow)
  /\ call_return_stack' = NewStack
  /\ Heat

-----------------------------------------------------------------------------
(* HandleHardwareFlowException.                                            *)

Flow ==
  /\ running /\ ~waiting_for_trigger /\ ~handed
  /\ backend_mode = "HardwareFlow" /\ Faults
  /\ trap' = FALSE

\* A probe, or code that is to be stepped, opens a window, and the transition to
\* it is not reported.
FlowOpensWindow ==
  /\ Flow
  /\ StartsProbe(rip) \/ StartsFilter(rip)
  /\ OpenWindow(IF StartsProbe(rip) THEN ProbeSession(rip, Depth, TRUE)
                                    ELSE FilterSession(rip, Depth))
  /\ last_rip' = rip
  /\ uncounted' = (uncounted \/ observation_state = "WaitingForHotReturn"
                     \/ (pending_block # 0 /\ PendingKind \in {"call", "return"}))
  /\ UNCHANGED <<threadRest, running, waiting_for_trigger, heatVars, stackVars,
                 reportVars, left_unseen, refused, handed>>

FlowStep == Flow /\ ~StartsProbe(rip) /\ ~StartsFilter(rip)
Captures == event_count' = Count(event_count + Capture(rip))

\* The scan goes on to the next transfer.
Scan ==
  /\ FlowStep /\ observation_state = "LinearScan"
  /\ CASE Kind(rip) = "odd" -> StopTrace
       [] Kind(rip) \in Terminators ->
            FollowPlan(rip, Plan(rip, Depth)) /\ UNCHANGED running
       [] OTHER -> Apply({}, TRUE) /\ UNCHANGED <<planVars, running>>
  /\ Captures
  /\ refused' = (refused \/ Kind(rip) = "odd")
  /\ UNCHANGED <<threadRest, waiting_for_trigger, pending_async_handoff, heatVars,
                 stackVars, windowVars, reported, uncounted, left_unseen, handed>>

\* The last instruction has been stepped.  A call to a thread creation function
\* is awaited at its return address, to look at its result.
Stepped ==
  /\ FlowStep /\ observation_state = "WaitingForSingleStep"
  /\ Transition
  /\ pending_async_handoff' =
       IF Emits /\ PendingKind = "call" THEN EventTarget ELSE pending_async_handoff
  /\ IF PendingKind = "call" /\ pending_resume_entry # 0 /\ pending_target_override # 0
     THEN /\ observation_state' = "WaitingForDestination"
          /\ observed_addresses' = {pending_resume_entry}
          /\ Apply({pending_resume_entry}, FALSE)
          /\ pending_resume_entry' = 0 /\ pending_target_override' = 0
          /\ UNCHANGED <<running, pending_block>>
     ELSE IF RootReturn THEN StopTrace
          ELSE Proceed(NextEntry, Len(NewStack), EventsNow)
  /\ UNCHANGED <<threadRest, waiting_for_trigger, trap_suppression_stack, windowVars,
                 history, handed>>

Expected == rip \in observed_addresses

\* The last instruction is next.
TailHit ==
  /\ FlowStep /\ observation_state = "WaitingForTail" /\ Expected
  /\ observation_state' = "WaitingForSingleStep"
  /\ pending_resume_entry' = IF PendingKind = "call" THEN pending_resume_entry ELSE 0
  /\ Apply({}, TRUE)
  /\ Captures
  /\ UNCHANGED <<threadRest, flowRest, pending_block, pending_target_override,
                 observed_addresses, heatVars, stackVars, windowVars, reported>>

\* TryActivateAsyncThreadHandoff queues a request if the call it was told of has
\* made a thread.
MayHandOff == pending_async_handoff \in scenario.async

DestinationHit ==
  /\ FlowStep /\ observation_state = "WaitingForDestination" /\ Expected
  /\ pending_async_handoff' = 0
  /\ Transition
  /\ IF ArmsBypass
     THEN AwaitHotReturn /\ UNCHANGED running
     ELSE Proceed(NextEntry, Len(NewStack), EventsNow)
  /\ UNCHANGED <<threadRest, waiting_for_trigger, trap_suppression_stack, windowVars,
                 history, handed>>

\* The handoff is on its way, and the arrival is not looked at; at the entry of a
\* function the frame is not counted.
HandoffRequested ==
  /\ FlowStep /\ observation_state = "WaitingForDestination" /\ Expected
  /\ MayHandOff
  /\ pending_async_handoff' = 0
  /\ event_count' = Count(event_count + Capture(rip))
  /\ Proceed(IF pending_resume_entry # 0 THEN pending_resume_entry ELSE rip, Depth,
             event_count + Capture(rip))
  /\ uncounted' = (uncounted \/ NewStack # call_return_stack)
  /\ UNCHANGED <<threadRest, waiting_for_trigger, heatVars, stackVars, windowVars,
                 reported, left_unseen, refused, handed>>

HitsBypass(address) ==
  address # 0 /\ address = rip /\ hot_bypass.depth = Depth

\* PopHotBypassFrame when the frame has returned.
HotReturnHit ==
  LET returns == HitsBypass(hot_bypass.return)
      pops == returns /\ Depth > 0 /\ Top(call_return_stack) = rip
      stops == returns /\ hot_bypass.root_stop
  IN
  /\ FlowStep /\ observation_state = "WaitingForHotReturn" /\ Expected
  /\ Captures
  /\ IF returns \/ HitsBypass(hot_bypass.resume)
     THEN /\ call_return_stack' = IF pops THEN Below(call_return_stack) ELSE call_return_stack
          /\ hot_bypass' = NoBypass
          /\ IF stops THEN StopTrace
                      ELSE Program(rip, Len(call_return_stack')) /\ UNCHANGED running
     ELSE /\ Apply(observed_addresses, FALSE)
          /\ UNCHANGED <<call_return_stack, hot_bypass, planVars, running>>
  /\ UNCHANGED <<threadRest, waiting_for_trigger, pending_async_handoff, suppressed,
                 trap_suppression_stack, windowVars, reported, history, handed>>
-----------------------------------------------------------------------------
(* HandleTrapFlagTraceException: one instruction, at last_rip, has been run    *)
(* while the thread is single-stepped, for the whole trace or in a window.    *)

Stepping ==
  /\ running /\ ~waiting_for_trigger /\ ~handed
  /\ backend_mode = "TrapFlag" /\ trap
  /\ trap' = FALSE

\* TryActivateLocalProbeSession when the whole trace is stepped.
Watching ==
  IF active_probe = None /\ StartsProbe(rip)
  THEN ProbeSession(rip, Depth, FALSE) ELSE active_probe

Done == IF last_rip # 0 THEN last_rip ELSE rip
DoneKind == Kind(Done)
Suppressed == trap_suppression_stack # <<>> /\ Top(trap_suppression_stack)

\* ShouldEmitTrapFlagEvent and what HandleTrapFlagTraceException adds to it.
StepEmits ==
  /\ Recordable(Done) /\ ~Suppressed
  /\ \/ Watching # None /\ Watching.mode = "filter"
     \/ ~scenario.control_flow_only
     \/ DoneKind \in Terminators

\* ShouldSuppressTrapFlagCall; the target of a call that went nowhere is unknown.
SuppressesCallee ==
  \/ Suppressed
  \/ /\ Direct(Done) \/ rip # Done + 1
     /\ ~Follows(IF Direct(Done) THEN Target(Done) ELSE rip, Depth)

\* UpdateTrapFlagCallStack.
StepReturns ==
  DoneKind = "return" /\ Depth > 0 /\ Top(call_return_stack) = rip
StepStack ==
  CASE DoneKind = "call" -> Append(call_return_stack, Done + 1)
    [] StepReturns -> Below(call_return_stack)
    [] OTHER -> call_return_stack
StepSuppression ==
  CASE DoneKind = "call" -> Append(trap_suppression_stack, SuppressesCallee)
    [] StepReturns /\ trap_suppression_stack # <<>> -> Below(trap_suppression_stack)
    [] OTHER -> trap_suppression_stack

\* HandleActiveProbeSingleStep: nothing happens before the first instruction of the
\* window has run.
Begun == Watching # None /\ Watching.pending_entry \in {0, Done}
Limited == Watching.mode \in {"step", "write"}
StepsLeft ==
  IF Limited /\ Watching.remaining_steps # 0
  THEN Watching.remaining_steps - 1 ELSE Watching.remaining_steps
ByReturn == DoneKind = "return" /\ Depth = Watching.start_depth
ByLeave == rip \notin Watching.region
Closes ==
  /\ Begun
  /\ \/ Limited /\ StepsLeft = 0
     \/ Watching.exit \in {"return", "either"} /\ ByReturn
     \/ Watching.exit \in {"leave", "either"} /\ ByLeave

\* The events of the step: a capture, the instruction, and the probe's own, which
\* a write trace has when a watched value has changed.
StepCount(changed) ==
  LET own == IF Begun /\ (Watching.mode = "step" \/ (Watching.mode = "write" /\ changed))
             THEN 1 ELSE 0
  IN Count(event_count + Capture(rip) + (IF StepEmits THEN 1 ELSE 0) + own)

\* TryArmReturnOnlyResume: a frame that is not followed is left to return.
AwaitsReturn ==
  /\ StepStack # <<>> /\ StepSuppression # <<>>
  /\ Top(StepSuppression) /\ Top(StepStack) # rip

\* RestoreHardwareFlowAfterTrapWindow.  uncounted: the handler then forgets last_rip,
\* also when what it has restored is another window, whose first step it takes for
\* that of the next instruction.
RestoreFlow ==
  /\ trap_suppression_stack' = <<>>
  /\ IF AwaitsReturn
     THEN LET return == Top(StepStack) IN
          /\ observation_state' = "WaitingForHotReturn"
          /\ observed_addresses' = {return}
          /\ hot_bypass' = [NoBypass EXCEPT !.return = return, !.depth = Len(StepStack)]
          /\ Apply({return}, FALSE)
          /\ pending_block' = 0
          /\ pending_resume_entry' = 0 /\ pending_target_override' = 0
          /\ pending_async_handoff' = 0
          /\ backend_mode' = "HardwareFlow" /\ active_probe' = None
          /\ UNCHANGED uncounted
     ELSE /\ StartFlow(rip, Len(StepStack))
          /\ uncounted' = (uncounted \/ StartsFilter(rip))
          /\ UNCHANGED hot_bypass

WindowCloses ==
  /\ Stepping /\ Closes /\ Watching.restore
  /\ call_return_stack' = StepStack
  /\ event_count' \in {StepCount(changed) : changed \in BOOLEAN}
  /\ RestoreFlow
  /\ last_rip' = 0
  /\ left_unseen' = (left_unseen \/ (DoneKind = "return" /\ Depth = 0))
  /\ UNCHANGED <<threadRest, running, waiting_for_trigger, suppressed, reported, refused,
                 handed>>

\* The handler stops, or goes on, in the same window or without one.
StepsOn ==
  /\ Stepping /\ ~(Closes /\ Watching.restore)
  /\ call_return_stack' = StepStack
  /\ trap_suppression_stack' = StepSuppression
  /\ last_rip' = rip
  /\ event_count' \in {StepCount(changed) : changed \in BOOLEAN}
  /\ active_probe' =
       CASE Watching = None \/ Closes -> None
         [] Begun /\ ~Closes -> [Watching EXCEPT !.pending_entry = 0, !.remaining_steps = StepsLeft]
         [] OTHER -> Watching
  /\ IF \/ StepEmits /\ scenario.stop_on_root_return /\ DoneKind = "return" /\ Depth = 0
        \/ AtLimit(event_count')
     THEN StopTrace
     ELSE Apply({}, TRUE) /\ UNCHANGED <<planVars, running>>
  /\ UNCHANGED <<threadRest, waiting_for_trigger, backend_mode, pending_async_handoff,
                 heatVars, reported, history, handed>>

\* TryActivateAsyncThreadHandoff after the call has been stepped: the request is
\* queued, and this thread is let go.
StepHandsOff ==
  /\ Stepping
  /\ StepEmits /\ DoneKind = "call" /\ rip \in scenario.async
  /\ handed' = TRUE
  /\ observation_state' = "Idle"
  /\ Apply({}, FALSE)
  /\ last_rip' = rip
  /\ event_count' = Count(event_count + Capture(rip) + 1)
  /\ active_probe' = Watching
  /\ UNCHANGED <<threadRest, running, waiting_for_trigger, backend_mode, heatVars,
                 stackVars, pending_block, pending_resume_entry,
                 pending_target_override, observed_addresses, pending_async_handoff,
                 reported, history>>

-----------------------------------------------------------------------------
RunThread ==
  /\ Execute
  /\ UNCHANGED <<scenario, running, waiting_for_trigger, planVars,
                 pending_async_handoff, heatVars, stackVars, windowVars, reportVars,
                 history, handed>>

Handle ==
  \/ Triggered \/ FlowOpensWindow \/ Scan \/ Stepped \/ TailHit \/ DestinationHit
  \/ HandoffRequested \/ HotReturnHit \/ WindowCloses \/ StepsOn \/ StepHandsOff

Next == RunThread \/ Handle

Spec == Init /\ [][Next]_vars

\* An exception is handled, and the processor goes on.
FairSpec == Spec /\ WF_vars(RunThread) /\ WF_vars(Handle)
-----------------------------------------------------------------------------
(* Properties.                                                             *)

TypeOK ==
  /\ scenario \in Scenarios
  /\ rip \in Int /\ stack \in Seq(Int) /\ Len(stack) <= MaxStack
  /\ tf \in BOOLEAN /\ trap \in BOOLEAN
  /\ running \in BOOLEAN /\ waiting_for_trigger \in BOOLEAN /\ handed \in BOOLEAN
  /\ uncounted \in BOOLEAN /\ left_unseen \in BOOLEAN /\ refused \in BOOLEAN
  /\ backend_mode \in {"HardwareFlow", "TrapFlag"}
  /\ observation_state \in {"Idle", "LinearScan", "WaitingForSingleStep",
                            "WaitingForTail", "WaitingForDestination",
                            "WaitingForHotReturn"}
  /\ drs \in {{}, observed_addresses}
  /\ call_return_stack \in Seq(Int)
  /\ trap_suppression_stack \in Seq(BOOLEAN)
  /\ event_count \in Nat

\* Between two exceptions of the traced thread.
Following == running /\ ~handed /\ ~waiting_for_trigger /\ ~Faults

\* A debug exception of the traced thread is one the engine knows how to take: the
\* processor has the addresses that are on record, a step is awaited when one is
\* made, and a stopped trace leaves nothing behind to raise one.
ExceptionsAreExpected ==
  /\ Faults /\ ~handed => running
  /\ ~running => drs = {} /\ ~tf
  /\ running /\ Faults /\ ~waiting_for_trigger /\ backend_mode = "HardwareFlow" =>
       IF trap THEN observation_state \in {"LinearScan", "WaitingForSingleStep"}
               ELSE /\ observation_state \in {"WaitingForTail", "WaitingForDestination",
                                              "WaitingForHotReturn"}
                    /\ Expected

\* What is reported has been executed, but for two things the code does: a block
\* that jumps into itself is taken to have done so when it is entered, and the
\* return of a thread creation call that made no thread is one more transfer.
ReportedWasExecuted ==
  \A edge \in reported :
    \/ edge \in executed
    \/ ~Truncated(edge[2]) /\ BlockTail(edge[2]) = edge[1]
    \/ Kind(edge[1]) = "call" /\ Target(edge[1]) \in scenario.async /\ edge[2] = edge[1] + 1

\* No report is invented, whatever else runs the code that is watched: a transfer with
\* a known target is one that the program has, or the return of a thread creation call,
\* and any other is one that the thread has made.
Known(a) == Kind(a) \in {"jcc", "jump", "call"} /\ Direct(a)
Arrivals(a) ==
  {Target(a)} \cup
  IF Kind(a) = "jcc" \/ (Kind(a) = "call" /\ Target(a) \in scenario.async) THEN {a + 1} ELSE {}
ReportedIsPossible ==
  \A edge \in reported :
    IF Known(edge[1]) THEN edge[2] \in Arrivals(edge[1]) ELSE edge \in executed

\* The frames the engine counts are the frames of the thread above the root, in the
\* same order, unless a window has opened at the end of a call or a return, which
\* is then not counted.
ShadowStackIsReal ==
  Following /\ stack # <<>> /\ ~uncounted =>
    /\ Len(call_return_stack) < Len(stack)
    /\ \A i \in DOMAIN call_return_stack : call_return_stack[i] = stack[i + 1]

\* The thread is not lost while it is in a frame the engine follows: it is stepped,
\* or on its way through the pending block.
NotLost ==
  /\ Following /\ ~uncounted
  /\ observation_state # "WaitingForHotReturn"
  /\ Len(stack) = Len(call_return_stack) + 1
  => tf \/ Inside(rip, pending_block)

\* The trace ends with the return of its root frame, and not before, unless it comes to its
\* limit or the decoder refuses what the thread comes to.
RootReturnEndsTrace ==
  scenario.stop_on_root_return /\ ~handed /\ ~waiting_for_trigger /\ ~Faults =>
    /\ stack = <<>> => ~running \/ left_unseen \/ uncounted
    /\ ~running /\ scenario.max_events = 0 /\ ~uncounted => stack = <<>> \/ refused

\* A breakpoint is not met for ever: where a block jumps to itself the streak of
\* suppressed transitions lets the loop run.
FaultsEnd ==
  FirstSeen /\ scenario.hot_bypass_threshold > 0 =>
    [](Faults => <>(~Faults \/ ~running))
=============================================================================
