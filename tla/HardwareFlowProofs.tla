------------------------- MODULE HardwareFlowProofs -------------------------
(***************************************************************************)
(* What holds of the engine for any program and any options: what is       *)
(* armed is what is awaited (ArmedInv), the pending block has the plan its *)
(* last instruction calls for (PlanInv), and so no transfer is reported    *)
(* that the program does not have; and where the whole trace is stepped,   *)
(* the frames that are counted are those of the thread (FrameInv).         *)
(***************************************************************************)
EXTENDS HardwareFlow, FiniteSetTheorems, SequenceTheorems, WellFoundedInduction, TLAPS

-----------------------------------------------------------------------------
(* What is armed.                                                          *)

Quiet == drs = {} /\ tf = FALSE /\ trap = FALSE

\* Either the thread is stepped, and no address is watched, or the addresses on record
\* are, and it is not stepped.
IsStepped == backend_mode = "TrapFlag" \/ observation_state \in {"LinearScan", "WaitingForSingleStep"}
IsWatched == observation_state \in {"WaitingForTail", "WaitingForDestination", "WaitingForHotReturn"}
Awaiting ==
  IF IsStepped THEN drs = {} /\ tf = TRUE
               ELSE IsWatched /\ drs = observed_addresses /\ tf = FALSE

\* A thread that is not followed any more raises nothing.
ArmedInv ==
  /\ running \in BOOLEAN /\ handed \in BOOLEAN /\ waiting_for_trigger \in BOOLEAN
  /\ tf \in BOOLEAN /\ trap \in BOOLEAN
  /\ backend_mode \in {"HardwareFlow", "TrapFlag"}
  /\ ~running \/ handed => Quiet
  /\ waiting_for_trigger => /\ running /\ ~handed /\ tf = FALSE /\ trap = FALSE
                            /\ ~scenario.control_flow_only => backend_mode = "TrapFlag"
  /\ trap => tf
  /\ running /\ ~handed /\ ~waiting_for_trigger => Awaiting

\* How a handler leaves the thread.
Ready ==
  /\ trap = FALSE /\ handed = FALSE /\ waiting_for_trigger = FALSE
  /\ backend_mode \in {"HardwareFlow", "TrapFlag"}
  /\ \/ running = TRUE /\ Awaiting
     \/ running = FALSE /\ Quiet

LEMMA ReadyIsArmed == Ready => ArmedInv
BY DEF Ready, ArmedInv, Awaiting, Quiet

LEMMA StopQuiets ==
  ASSUME StopTrace, trap' = FALSE
  PROVE  running' = FALSE /\ Quiet'
BY DEF StopTrace, Apply, Quiet

LEMMA PlanWatches ==
  ASSUME NEW t, NEW depth
  PROVE  Plan(t, depth).state \in {"WaitingForTail", "WaitingForDestination"}
BY DEF Plan, Watch, WatchTail

LEMMA FollowAwaits ==
  ASSUME NEW entry, NEW t, NEW depth, FollowPlan(entry, Plan(t, depth)),
         backend_mode' = "HardwareFlow"
  PROVE  Awaiting'
BY PlanWatches DEF FollowPlan, Apply, Awaiting, IsStepped, IsWatched

LEMMA ProgramAwaits ==
  ASSUME NEW entry, NEW depth, Program(entry, depth),
         backend_mode' = "HardwareFlow"
  PROVE  Awaiting'
<1>1. CASE LinearScan(entry)
  BY <1>1 DEF LinearScan, Apply, Awaiting, IsStepped
<1> QED BY <1>1, FollowAwaits DEF Program

LEMMA WindowAwaits ==
  ASSUME NEW session, OpenWindow(session)
  PROVE  Awaiting' /\ backend_mode' = "TrapFlag"
BY DEF OpenWindow, Apply, Awaiting, IsStepped

LEMMA StartAwaits ==
  ASSUME NEW entry, NEW depth, StartFlow(entry, depth)
  PROVE  Awaiting' /\ backend_mode' \in {"HardwareFlow", "TrapFlag"}
BY WindowAwaits, ProgramAwaits DEF StartFlow

LEMMA ProceedIsReady ==
  ASSUME NEW entry, NEW depth, NEW count, Proceed(entry, depth, count),
         running = TRUE, backend_mode' = "HardwareFlow", trap' = FALSE, handed' = FALSE,
         waiting_for_trigger' = FALSE
  PROVE  Ready'
BY StopQuiets, ProgramAwaits DEF Proceed, Ready

-----------------------------------------------------------------------------
(* The handlers.                                                           *)

LEMMA TriggeredIsReady ==
  ASSUME ArmedInv, Triggered
  PROVE  Ready'
<1>1. running' = TRUE /\ handed' = FALSE /\ waiting_for_trigger' = FALSE /\ trap' = FALSE
  BY DEF Triggered, ArmedInv
<1>2. CASE scenario.control_flow_only
  BY <1>1, <1>2, StartAwaits DEF Triggered, Ready
<1>3. CASE ~scenario.control_flow_only
  <2>1. backend_mode' = "TrapFlag"
    BY <1>3 DEF Triggered, ArmedInv
  <2> QED BY <1>1, <1>3, <2>1 DEF Triggered, Ready, Apply, Awaiting, IsStepped
<1> QED BY <1>2, <1>3

LEMMA InFlow ==
  ASSUME ArmedInv, Flow
  PROVE  /\ trap' = FALSE /\ running = TRUE /\ handed = FALSE /\ waiting_for_trigger = FALSE
         /\ backend_mode = "HardwareFlow" /\ Awaiting
BY DEF Flow, ArmedInv

LEMMA WindowIsReady ==
  ASSUME ArmedInv, FlowOpensWindow
  PROVE  Ready'
BY InFlow, WindowAwaits DEF FlowOpensWindow, Ready

LEMMA ScanIsReady ==
  ASSUME ArmedInv, Scan
  PROVE  Ready'
<1>1. /\ trap' = FALSE /\ running = TRUE /\ handed' = FALSE /\ waiting_for_trigger' = FALSE
      /\ backend_mode' = "HardwareFlow"
  BY InFlow DEF Scan, FlowStep, windowVars
<1>2. CASE StopTrace
  BY <1>1, <1>2, StopQuiets DEF Ready
<1>3. CASE FollowPlan(rip, Plan(rip, Depth)) /\ UNCHANGED running
  BY <1>1, <1>3, FollowAwaits DEF Ready
<1>4. CASE Apply({}, TRUE) /\ UNCHANGED <<planVars, running>>
  BY <1>1, <1>4 DEF Scan, Apply, planVars, Ready, Awaiting, IsStepped
<1> QED BY <1>2, <1>3, <1>4 DEF Scan

LEMMA SteppedIsReady ==
  ASSUME ArmedInv, Stepped
  PROVE  Ready'
<1>1. /\ trap' = FALSE /\ running = TRUE /\ handed' = FALSE /\ waiting_for_trigger' = FALSE
      /\ backend_mode' = "HardwareFlow"
  BY InFlow DEF Stepped, FlowStep, windowVars
<1>2. CASE /\ observation_state' = "WaitingForDestination"
           /\ observed_addresses' = {pending_resume_entry}
           /\ Apply({pending_resume_entry}, FALSE)
           /\ UNCHANGED running
  BY <1>1, <1>2 DEF Ready, Apply, Awaiting, IsStepped, IsWatched
<1>3. CASE StopTrace
  BY <1>1, <1>3, StopQuiets DEF Ready
<1>4. CASE Proceed(NextEntry, Len(NewStack), EventsNow)
  BY <1>1, <1>4, ProceedIsReady
<1> QED BY <1>2, <1>3, <1>4 DEF Stepped

LEMMA TailHitIsReady ==
  ASSUME ArmedInv, TailHit
  PROVE  Ready'
<1>1. /\ trap' = FALSE /\ running' = TRUE /\ handed' = FALSE /\ waiting_for_trigger' = FALSE
      /\ backend_mode' = "HardwareFlow"
  BY InFlow DEF TailHit, FlowStep, windowVars, flowRest
<1> QED BY <1>1 DEF TailHit, Apply, Ready, Awaiting, IsStepped

LEMMA DestinationIsReady ==
  ASSUME ArmedInv, DestinationHit
  PROVE  Ready'
<1>1. /\ trap' = FALSE /\ running = TRUE /\ handed' = FALSE /\ waiting_for_trigger' = FALSE
      /\ backend_mode' = "HardwareFlow"
  BY InFlow DEF DestinationHit, FlowStep, windowVars
<1>2. CASE AwaitHotReturn /\ UNCHANGED running
  BY <1>1, <1>2 DEF AwaitHotReturn, Ready, Apply, Awaiting, IsStepped, IsWatched
<1>3. CASE Proceed(NextEntry, Len(NewStack), EventsNow)
  BY <1>1, <1>3, ProceedIsReady
<1> QED BY <1>2, <1>3 DEF DestinationHit

LEMMA HandoffIsReady ==
  ASSUME ArmedInv, HandoffRequested
  PROVE  Ready'
<1>1. /\ trap' = FALSE /\ running = TRUE /\ handed' = FALSE /\ waiting_for_trigger' = FALSE
      /\ backend_mode' = "HardwareFlow"
  BY InFlow DEF HandoffRequested, FlowStep, windowVars
<1> QED BY <1>1, ProceedIsReady DEF HandoffRequested

LEMMA HotReturnIsReady ==
  ASSUME ArmedInv, HotReturnHit
  PROVE  Ready'
<1>1. /\ trap' = FALSE /\ running = TRUE /\ handed' = FALSE /\ waiting_for_trigger' = FALSE
      /\ backend_mode' = "HardwareFlow"
  BY InFlow DEF HotReturnHit, FlowStep, windowVars
<1>2. CASE StopTrace
  BY <1>1, <1>2, StopQuiets DEF Ready
<1>3. CASE Program(rip, Len(call_return_stack')) /\ UNCHANGED running
  BY <1>1, <1>3, ProgramAwaits DEF Ready
<1>4. CASE Apply(observed_addresses, FALSE) /\ UNCHANGED <<planVars, running>>
  BY <1>1, <1>4
  DEF HotReturnHit, Apply, planVars, Ready, Awaiting, IsStepped, IsWatched
<1> QED BY <1>2, <1>3, <1>4 DEF HotReturnHit

LEMMA InStep ==
  ASSUME ArmedInv, Stepping
  PROVE  /\ trap' = FALSE /\ running = TRUE /\ handed = FALSE /\ waiting_for_trigger = FALSE
         /\ backend_mode = "TrapFlag"
BY DEF Stepping, ArmedInv

LEMMA CloseIsReady ==
  ASSUME ArmedInv, WindowCloses
  PROVE  Ready'
<1>1. /\ trap' = FALSE /\ running' = TRUE /\ handed' = FALSE /\ waiting_for_trigger' = FALSE
  BY InStep DEF WindowCloses
<1>2. CASE AwaitsReturn
  BY <1>1, <1>2
  DEF WindowCloses, RestoreFlow, Apply, Ready, Awaiting, IsStepped, IsWatched
<1>3. CASE ~AwaitsReturn
  BY <1>1, <1>3, StartAwaits DEF WindowCloses, RestoreFlow, Ready
<1> QED BY <1>2, <1>3

LEMMA StepIsReady ==
  ASSUME ArmedInv, StepsOn
  PROVE  Ready'
<1>1. /\ trap' = FALSE /\ running = TRUE /\ handed' = FALSE /\ waiting_for_trigger' = FALSE
      /\ backend_mode' = "TrapFlag"
  BY InStep DEF StepsOn
<1>2. CASE StopTrace
  BY <1>1, <1>2, StopQuiets DEF Ready
<1>3. CASE Apply({}, TRUE) /\ UNCHANGED <<planVars, running>>
  BY <1>1, <1>3 DEF Apply, Ready, Awaiting, IsStepped
<1> QED BY <1>2, <1>3 DEF StepsOn

\* The thread that is let go has neither a breakpoint nor a step.
LEMMA HandOffIsArmed ==
  ASSUME ArmedInv, StepHandsOff
  PROVE  ArmedInv'
BY InStep DEF StepHandsOff, Apply, ArmedInv, Quiet

LEMMA ExecuteKeepsArmed ==
  ASSUME ArmedInv, RunThread
  PROVE  ArmedInv'
BY DEF RunThread, Execute, planVars, windowVars, history, ArmedInv, Quiet,
   Awaiting, IsStepped, IsWatched

LEMMA ArmedInit == Init => ArmedInv
BY DEF Init, ArmedInv

LEMMA ArmedStep == ArmedInv /\ [Next]_vars => ArmedInv'
<1> SUFFICES ASSUME ArmedInv, [Next]_vars PROVE ArmedInv'
  OBVIOUS
<1>1. Ready' => ArmedInv'
  BY ReadyIsArmed, PTL
<1>2. CASE RunThread
  BY <1>2, ExecuteKeepsArmed
<1>3. CASE Triggered \/ FlowOpensWindow \/ Scan
  BY <1>1, <1>3, TriggeredIsReady, WindowIsReady, ScanIsReady
<1>4. CASE Stepped \/ TailHit \/ DestinationHit
  BY <1>1, <1>4, SteppedIsReady, TailHitIsReady, DestinationIsReady
<1>5. CASE HandoffRequested \/ HotReturnHit
  BY <1>1, <1>5, HandoffIsReady, HotReturnIsReady
<1>6. CASE WindowCloses \/ StepsOn \/ StepHandsOff
  BY <1>1, <1>6, CloseIsReady, StepIsReady, HandOffIsArmed
<1>7. CASE UNCHANGED vars
  BY <1>7
  DEF vars, threadVars, planVars, windowVars, ArmedInv, Quiet, Awaiting,
      IsStepped, IsWatched
<1> QED BY <1>2, <1>3, <1>4, <1>5, <1>6, <1>7 DEF Next, Handle

\* A debug exception of the traced thread is one the engine knows how to take: the
\* debug registers hold the addresses on record, a single step is one it asked for, and
\* a trace that has stopped leaves neither behind.
THEOREM ExceptionsAlwaysExpected == Spec => []ExceptionsAreExpected
<1>1. ArmedInv => ExceptionsAreExpected
  BY DEF ArmedInv, Quiet, Awaiting, IsStepped, IsWatched,
     ExceptionsAreExpected, Faults, Expected
<1> QED BY <1>1, ArmedInit, ArmedStep, PTL DEF Spec

-----------------------------------------------------------------------------
(* Instructions and blocks.                                                *)

LEMMA Least ==
  ASSUME NEW first \in Nat, NEW last \in Nat, NEW S, S \subseteq first .. last,
         S # {}
  PROVE  \E a \in S : \A b \in S : a <= b
<1> DEFINE Prefixes == {first .. a : a \in S}
           Order == StrictSubsetOrdering(first .. last)
<1>1. Prefixes \subseteq SUBSET (first .. last) /\ Prefixes # {}
  <2>1. \A a \in S : first .. a \subseteq first .. last
    OBVIOUS
  <2> QED BY <2>1
<1>2. IsWellFoundedOn(Order, SUBSET (first .. last))
  <2>1. IsFiniteSet(first .. last)
    BY FS_Interval
  <2>2. FiniteSubsetsOf(first .. last) = SUBSET (first .. last)
    BY <2>1, FS_FiniteSubsetsOfFinite
  <2> HIDE DEF Order
  <2>3. IsWellFoundedOn(StrictSubsetOrdering(first .. last), FiniteSubsetsOf(first .. last))
    BY FS_StrictSubsetOrderingWellFounded
  <2> QED
    BY <2>2, <2>3 DEF Order
<1>3. \E x \in Prefixes : \A y \in Prefixes : ~ (<<y, x>> \in Order)
  <2> HIDE DEF Prefixes, Order
  <2> QED
    BY <1>1, <1>2, WFMin
<1>4. PICK a \in S : \A y \in Prefixes : ~ (<<y, first .. a>> \in Order)
  BY <1>3
<1>5. ASSUME NEW b \in S, b < a
      PROVE  FALSE
  <2>1. first .. b \subseteq first .. a /\ a \in first .. a /\ a \notin first .. b
    BY <1>5
  <2>2. <<first .. b, first .. a>> \in Order
    BY <2>1 DEF StrictSubsetOrdering
  <2> QED BY <1>4, <2>2
<1>6. \A b \in S : a <= b
  BY <1>5
<1> QED BY <1>6

\* The last instruction of a block is the first that ends one.
LEMMA TailEnds ==
  ASSUME NEW entry \in Nat, ~Truncated(entry)
  PROVE  /\ BlockTail(entry) \in Ends(entry)
         /\ \A b \in Ends(entry) : BlockTail(entry) <= b
<1>1. Ends(entry) \subseteq entry .. entry + MaxBlock /\ Ends(entry) # {}
  BY ScenarioAssumption DEF Ends, Truncated, ScenarioAssumption
<1>2. entry + MaxBlock \in Nat
  BY ScenarioAssumption DEF ScenarioAssumption
<1>3. \E a \in Ends(entry) : \A b \in Ends(entry) : a <= b
  BY <1>1, <1>2, Least
<1> QED BY <1>3 DEF BlockTail

LEMMA TailIsTerminator ==
  ASSUME NEW entry \in Nat, Programmable(entry)
  PROVE  BlockTail(entry) \in Nat /\ Kind(BlockTail(entry)) \in Terminators
<1>1. ~Truncated(entry) /\ Kind(BlockTail(entry)) # "odd"
  BY DEF Programmable, Decodes
<1> QED BY <1>1, TailEnds, ScenarioAssumption DEF Ends, ScenarioAssumption

LEMMA TerminatorIsTail ==
  ASSUME NEW a \in Nat, Kind(a) \in Terminators
  PROVE  ~Truncated(a) /\ BlockTail(a) = a
<1>1. a \in Ends(a)
  BY ScenarioAssumption DEF Ends, ScenarioAssumption
<1>2. ~Truncated(a)
  BY <1>1 DEF Truncated
<1>3. BlockTail(a) \in Ends(a) /\ BlockTail(a) <= a
  BY <1>1, <1>2, TailEnds
<1> QED BY <1>2, <1>3, ScenarioAssumption DEF Ends, ScenarioAssumption

\* Where an instruction goes.
LEMMA TargetOfDirect ==
  ASSUME scenario \in Scenarios, NEW a \in DOMAIN Code, Direct(a)
  PROVE  Target(a) \in Addresses /\ Code[a].to = {Target(a)}
<1>1. PICK t \in Code[a].to : Code[a].to = {t}
  BY ScenarioAssumption DEF ScenarioAssumption, Code, Direct
<1>2. t \in Addresses
  BY ScenarioAssumption DEF ScenarioAssumption, Code, Instructions
<1> QED BY <1>1, <1>2 DEF Target

LEMMA TerminatorInCode ==
  ASSUME NEW a, Kind(a) # "odd"
  PROVE  a \in DOMAIN Code
BY DEF Kind

\* The program does not change.
FirstOf(S) == CHOOSE a \in S : \A b \in S : a <= b
AnyOf(S) == CHOOSE t \in S : TRUE

LEMMA SameCode ==
  ASSUME scenario' = scenario
  PROVE  /\ \A a : Kind(a)' = Kind(a) /\ Direct(a)' = Direct(a) /\ Target(a)' = Target(a)
         /\ \A a : Truncated(a)' = Truncated(a) /\ BlockTail(a)' = BlockTail(a)
         /\ \A a : Known(a)' = Known(a) /\ Arrivals(a)' = Arrivals(a)
         /\ Code' = Code
<1>1. Code' = Code
  BY DEF Code
<1>2. ASSUME NEW a
      PROVE  /\ Kind(a)' = Kind(a) /\ Direct(a)' = Direct(a) /\ Target(a)' = Target(a)
             /\ Truncated(a)' = Truncated(a) /\ BlockTail(a)' = BlockTail(a)
             /\ Known(a)' = Known(a) /\ Arrivals(a)' = Arrivals(a)
  <2>1. Kind(a)' = Kind(a) /\ Direct(a)' = Direct(a)
    BY <1>1 DEF Kind, Direct
  <2>2. Target(a)' = Target(a)
    <3>1. Target(a) = IF Direct(a) THEN AnyOf(Code[a].to) ELSE 0
      BY DEF Target, AnyOf
    <3>2. Target(a)' = IF Direct(a)' THEN AnyOf(Code'[a].to) ELSE 0
      BY DEF Target, AnyOf
    <3> QED BY <1>1, <2>1, <3>1, <3>2
  <2>3. Ends(a)' = Ends(a)
    BY <1>1 DEF Ends, Kind
  <2>4. Truncated(a)' = Truncated(a)
    BY <2>3 DEF Truncated
  <2>5. BlockTail(a)' = BlockTail(a)
    <3>1. BlockTail(a) = FirstOf(Ends(a))
      BY DEF BlockTail, FirstOf
    <3>2. BlockTail(a)' = FirstOf(Ends(a)')
      BY DEF BlockTail, FirstOf
    <3> QED BY <2>3, <3>1, <3>2
  <2>6. Known(a)' = Known(a) /\ Arrivals(a)' = Arrivals(a)
    BY <2>1, <2>2 DEF Known, Arrivals
  <2> QED BY <2>1, <2>2, <2>4, <2>5, <2>6
<1> QED BY <1>1, <1>2

-----------------------------------------------------------------------------
(* The plans.                                                              *)

ThreadInv ==
  /\ scenario \in Scenarios
  /\ rip \in Addresses /\ stack \in Seq(Addresses) /\ Len(stack) <= MaxStack

\* The last instruction of the pending block is stepped where its target is not known,
\* and where the call may create a thread.
TailPlan ==
  IF pending_target_override = 0
  THEN ~Known(PendingTail)
  ELSE /\ Kind(PendingTail) = "call" /\ Known(PendingTail)
       /\ pending_target_override = Target(PendingTail)
       /\ Target(PendingTail) \in scenario.async
       /\ pending_resume_entry = PendingTail + 1

\* Else its destinations are watched; or the return address, for a call that is not
\* followed.
DestinationPlan ==
  /\ Known(PendingTail)
  /\ IF pending_target_override = 0
     THEN observed_addresses \subseteq Arrivals(PendingTail)
     ELSE pending_target_override = Target(PendingTail)

PlanInv ==
  /\ pending_block \in Nat /\ pending_resume_entry \in Nat /\ pending_target_override \in Nat
  /\ observation_state \in {"Idle", "LinearScan", "WaitingForSingleStep", "WaitingForTail",
                            "WaitingForDestination", "WaitingForHotReturn"}
  /\ observation_state # "Idle" =>
       running /\ ~handed /\ ~waiting_for_trigger /\ backend_mode = "HardwareFlow"
  /\ observation_state \in {"WaitingForSingleStep", "WaitingForTail", "WaitingForDestination"} =>
       PendingTail \in Nat /\ Kind(PendingTail) \in Terminators
  /\ observation_state \in {"WaitingForSingleStep", "WaitingForTail"} => TailPlan
  /\ observation_state = "WaitingForTail" => observed_addresses = {PendingTail}
  /\ observation_state = "WaitingForSingleStep" =>
       IF trap THEN <<PendingTail, rip>> \in executed ELSE rip = PendingTail
  /\ observation_state = "WaitingForDestination" => DestinationPlan

\* A plan for a block whose last instruction is t.
LEMMA PlanIsSound ==
  ASSUME scenario \in Scenarios, NEW t \in Nat, Kind(t) \in Terminators,
         NEW depth
  PROVE  LET plan == Plan(t, depth)
         IN  /\ plan.resume \in {0, t + 1} /\ plan.override \in {0} \cup Addresses
             /\ plan.state = "WaitingForTail" =>
                  /\ plan.watch = {t}
                  /\ IF plan.override = 0 THEN ~Known(t)
                     ELSE /\ Kind(t) = "call" /\ Known(t) /\ plan.override = Target(t)
                          /\ Target(t) \in scenario.async /\ plan.resume = t + 1
             /\ plan.state = "WaitingForDestination" =>
                  /\ Known(t)
                  /\ IF plan.override = 0 THEN plan.watch \subseteq Arrivals(t)
                     ELSE plan.override = Target(t)
<1>1. t \in DOMAIN Code
  BY DEF Kind, Terminators
<1>2. Kind(t) = "jcc" => Direct(t)
  BY <1>1, ScenarioAssumption DEF ScenarioAssumption, Kind, Direct, Code
<1>3. Direct(t) => Target(t) \in Addresses /\ Target(t) # 0
  BY <1>1, TargetOfDirect DEF Addresses
<1>4. CASE Kind(t) = "jcc"
  BY <1>2, <1>3, <1>4 DEF Plan, Watch, Known, Arrivals
<1>5. CASE Kind(t) = "call" /\ Direct(t)
  BY <1>3, <1>5 DEF Plan, Watch, WatchTail, Known, Arrivals
<1>6. CASE Kind(t) = "jump" /\ Direct(t)
  BY <1>3, <1>6 DEF Plan, Watch, Known, Arrivals
<1>7. CASE Kind(t) = "call" /\ ~Direct(t)
  BY <1>7 DEF Plan, Watch, WatchTail, Known
<1>8. CASE ~(Kind(t) \in {"jcc", "call"} \/ (Kind(t) = "jump" /\ Direct(t)))
  BY <1>8 DEF Plan, Watch, WatchTail, Known
<1> QED BY <1>4, <1>5, <1>6, <1>7, <1>8

\* How a handler of the flow leaves the session.
Flowing ==
  /\ running = TRUE /\ handed = FALSE /\ waiting_for_trigger = FALSE /\ trap = FALSE
  /\ backend_mode = "HardwareFlow"

LEMMA FollowKeepsPlan ==
  ASSUME scenario \in Scenarios, scenario' = scenario,
         NEW entry \in Nat, BlockTail(entry) \in Nat, Kind(BlockTail(entry)) \in Terminators,
         NEW depth, FollowPlan(entry, Plan(BlockTail(entry), depth)), Flowing'
  PROVE  PlanInv'
<1> DEFINE t == BlockTail(entry)
           plan == Plan(t, depth)
<1> HIDE DEF t, plan
<1>1. t \in Nat /\ Kind(t) \in Terminators
  BY DEF t
<1>2. /\ pending_block' = entry /\ observation_state' = plan.state
      /\ pending_resume_entry' = plan.resume /\ pending_target_override' = plan.override
      /\ observed_addresses' = plan.watch
  BY DEF FollowPlan, t, plan
<1>3. PendingTail' = t
  BY <1>2, SameCode DEF PendingTail, t
<1>4. /\ plan.resume \in {0, t + 1} /\ plan.override \in {0} \cup Addresses
      /\ plan.state \in {"WaitingForTail", "WaitingForDestination"}
      /\ plan.state = "WaitingForTail" =>
                  /\ plan.watch = {t}
                  /\ IF plan.override = 0 THEN ~Known(t)
                     ELSE /\ Kind(t) = "call" /\ Known(t) /\ plan.override = Target(t)
                          /\ Target(t) \in scenario.async /\ plan.resume = t + 1
      /\ plan.state = "WaitingForDestination" =>
                  /\ Known(t)
                  /\ IF plan.override = 0 THEN plan.watch \subseteq Arrivals(t)
                     ELSE plan.override = Target(t)
  BY <1>1, PlanIsSound, PlanWatches DEF plan
<1>5. plan.resume \in Nat /\ plan.override \in Nat
  BY <1>1, <1>4 DEF Addresses
<1>6. Kind(PendingTail)' = Kind(t)
  BY <1>3, SameCode
<1>7. Known(PendingTail)' <=> Known(t)
  BY <1>3, SameCode
<1>8. Target(PendingTail)' = Target(t) /\ Arrivals(PendingTail)' = Arrivals(t)
  BY <1>3, SameCode
<1>9. plan.state = "WaitingForTail" => TailPlan'
  BY <1>2, <1>3, <1>4, <1>6, <1>7, <1>8 DEF TailPlan
<1>10. plan.state = "WaitingForDestination" => DestinationPlan'
  BY <1>2, <1>3, <1>4, <1>6, <1>7, <1>8 DEF DestinationPlan
<1> QED BY <1>1, <1>2, <1>3, <1>4, <1>5, <1>6, <1>9, <1>10 DEF PlanInv, Flowing
LEMMA StopKeepsPlan ==
  ASSUME PlanInv, StopTrace
  PROVE  PlanInv'
BY DEF StopTrace, PlanInv

LEMMA WindowKeepsPlan ==
  ASSUME NEW session, OpenWindow(session)
  PROVE  PlanInv'
BY DEF OpenWindow, PlanInv

LEMMA ProgramKeepsPlan ==
  ASSUME PlanInv, scenario \in Scenarios, scenario' = scenario,
         NEW entry \in Nat, NEW depth,
         Program(entry, depth), Flowing'
  PROVE  PlanInv'
<1>1. CASE Programmable(entry)
  <2>1. BlockTail(entry) \in Nat /\ Kind(BlockTail(entry)) \in Terminators
    BY <1>1, TailIsTerminator
  <2> QED BY <1>1, <2>1, FollowKeepsPlan DEF Program
<1>2. CASE ~Programmable(entry)
  BY <1>2 DEF Program, LinearScan, PlanInv, Flowing
<1> QED BY <1>1, <1>2

LEMMA StartKeepsPlan ==
  ASSUME PlanInv, scenario \in Scenarios, scenario' = scenario,
         NEW entry \in Nat, NEW depth,
         StartFlow(entry, depth), backend_mode' = "HardwareFlow" => Flowing'
  PROVE  PlanInv'
BY WindowKeepsPlan, ProgramKeepsPlan DEF StartFlow

LEMMA ProceedKeepsPlan ==
  ASSUME PlanInv, scenario \in Scenarios, scenario' = scenario,
         NEW entry \in Nat, NEW depth, NEW count,
         Proceed(entry, depth, count), running = TRUE, trap' = FALSE, handed' = FALSE,
         waiting_for_trigger' = FALSE, backend_mode' = "HardwareFlow"
  PROVE  PlanInv'
BY StopKeepsPlan, ProgramKeepsPlan DEF Proceed, Flowing

\* While nothing of the plan changes, and no step is awaited.
LEMMA SamePlan ==
  ASSUME PlanInv, scenario' = scenario, UNCHANGED planVars,
         observation_state # "WaitingForSingleStep",
         observation_state # "Idle" =>
           UNCHANGED <<running, handed, waiting_for_trigger, backend_mode>>
  PROVE  PlanInv'
<1> DEFINE t == PendingTail
<1> HIDE DEF t
<1>1. PendingTail' = t
  BY SameCode DEF PendingTail, planVars, t
<1>2. /\ Kind(PendingTail)' = Kind(t) /\ (Known(PendingTail)' <=> Known(t))
      /\ Target(PendingTail)' = Target(t) /\ Arrivals(PendingTail)' = Arrivals(t)
  BY <1>1, SameCode
<1>3. TailPlan => TailPlan'
  BY <1>1, <1>2 DEF TailPlan, planVars, t
<1>4. DestinationPlan => DestinationPlan'
  BY <1>1, <1>2 DEF DestinationPlan, planVars, t
<1> QED BY <1>1, <1>2, <1>3, <1>4 DEF PlanInv, planVars, t

-----------------------------------------------------------------------------
(* The handlers keep the plan.                                             *)

FlowInv == ThreadInv /\ ArmedInv /\ PlanInv

LEMMA NextEntryIsAddress ==
  ASSUME FlowInv, PendingTail \in Nat
  PROVE  NextEntry \in Nat
BY DEF FlowInv, ThreadInv, PlanInv, NextEntry, Fallthrough, Addresses

\* The handlers of the flow start from a session that runs, and leave the thread where
\* it is.
LEMMA InFlowOf ==
  ASSUME FlowInv, Flow
  PROVE  /\ trap' = FALSE /\ running = TRUE /\ handed = FALSE /\ waiting_for_trigger = FALSE
         /\ backend_mode = "HardwareFlow" /\ scenario \in Scenarios /\ rip \in Nat
BY InFlow DEF FlowInv, ThreadInv, Addresses

LEMMA TriggeredKeepsPlan ==
  ASSUME FlowInv, Triggered
  PROVE  PlanInv'
<1>1. /\ running' = TRUE /\ handed' = FALSE /\ waiting_for_trigger' = FALSE /\ trap' = FALSE
      /\ scenario \in Scenarios /\ scenario' = scenario /\ rip \in Nat
      /\ observation_state = "Idle"
  BY DEF Triggered, FlowInv, ThreadInv, PlanInv, ArmedInv, threadRest, Addresses
<1>2. CASE scenario.control_flow_only
  BY <1>1, <1>2, StartKeepsPlan DEF Triggered, FlowInv, Flowing
<1>3. CASE ~scenario.control_flow_only
  BY <1>1, <1>3, SamePlan DEF Triggered, FlowInv
<1> QED BY <1>2, <1>3

LEMMA ScanKeepsPlan ==
  ASSUME FlowInv, Scan
  PROVE  PlanInv'
<1>1. /\ trap' = FALSE /\ running = TRUE /\ handed' = FALSE /\ waiting_for_trigger' = FALSE
      /\ backend_mode' = "HardwareFlow" /\ scenario \in Scenarios /\ scenario' = scenario /\ rip \in Nat
      /\ UNCHANGED <<handed, waiting_for_trigger, backend_mode>>
  BY InFlowOf DEF Scan, FlowStep, windowVars, threadRest
<1>2. CASE StopTrace
  BY <1>2, StopKeepsPlan DEF FlowInv
<1>3. CASE Kind(rip) \in Terminators /\ FollowPlan(rip, Plan(rip, Depth)) /\ UNCHANGED running
  BY <1>1, <1>3, TerminatorIsTail, FollowKeepsPlan DEF Flowing
<1>4. CASE Apply({}, TRUE) /\ UNCHANGED <<planVars, running>>
  BY <1>1, <1>4, SamePlan DEF Scan, FlowInv
<1> QED BY <1>2, <1>3, <1>4 DEF Scan

LEMMA SteppedKeepsPlan ==
  ASSUME FlowInv, Stepped
  PROVE  PlanInv'
<1>1. /\ trap' = FALSE /\ running = TRUE /\ handed' = FALSE /\ waiting_for_trigger' = FALSE
      /\ backend_mode' = "HardwareFlow" /\ scenario \in Scenarios /\ scenario' = scenario /\ rip \in Nat
      /\ UNCHANGED <<handed, waiting_for_trigger, backend_mode>>
  BY InFlowOf DEF Stepped, FlowStep, windowVars, threadRest
<1>2. PendingTail \in Nat /\ Kind(PendingTail) \in Terminators /\ TailPlan
  BY DEF FlowInv, PlanInv, Stepped
<1>3. CASE /\ PendingKind = "call" /\ pending_resume_entry # 0 /\ pending_target_override # 0
           /\ observation_state' = "WaitingForDestination"
           /\ observed_addresses' = {pending_resume_entry}
           /\ Apply({pending_resume_entry}, FALSE)
           /\ pending_resume_entry' = 0 /\ pending_target_override' = 0
           /\ UNCHANGED <<running, pending_block>>
  <2> DEFINE t == PendingTail
  <2> HIDE DEF t
  <2>1. /\ Known(t) /\ Kind(t) = "call" /\ Target(t) \in scenario.async
        /\ pending_resume_entry = t + 1
    BY <1>2, <1>3 DEF TailPlan, t
  <2>2. observed_addresses' \subseteq Arrivals(t)
    BY <1>3, <2>1 DEF Arrivals
  <2>3. PendingTail' = t
    BY <1>1, <1>3, SameCode DEF PendingTail, t
  <2>4. /\ Kind(PendingTail)' = Kind(t) /\ (Known(PendingTail)' <=> Known(t))
        /\ Arrivals(PendingTail)' = Arrivals(t)
    BY <1>1, <2>3, SameCode
  <2>5. DestinationPlan'
    BY <1>3, <2>1, <2>2, <2>4 DEF DestinationPlan
  <2>6. t \in Nat /\ Kind(t) \in Terminators
    BY <1>2 DEF t
  <2> QED BY <1>1, <1>3, <2>3, <2>4, <2>5, <2>6 DEF FlowInv, PlanInv
<1>4. CASE StopTrace
  BY <1>4, StopKeepsPlan DEF FlowInv
<1>5. CASE Proceed(NextEntry, Len(NewStack), EventsNow)
  BY <1>1, <1>2, <1>5, NextEntryIsAddress, ProceedKeepsPlan DEF FlowInv
<1> QED BY <1>3, <1>4, <1>5 DEF Stepped
LEMMA TailHitKeepsPlan ==
  ASSUME FlowInv, TailHit
  PROVE  PlanInv'
<1> DEFINE t == PendingTail
<1> HIDE DEF t
<1>1. /\ trap' = FALSE /\ running' = TRUE /\ handed' = FALSE /\ waiting_for_trigger' = FALSE
      /\ backend_mode' = "HardwareFlow" /\ scenario' = scenario /\ rip' = rip
      /\ UNCHANGED <<pending_block, pending_target_override, observed_addresses>>
  BY InFlowOf DEF TailHit, FlowStep, windowVars, threadRest, flowRest
<1>2. t \in Nat /\ Kind(t) \in Terminators /\ TailPlan /\ rip = t
  BY DEF FlowInv, PlanInv, TailHit, Expected, t
<1>3. PendingTail' = t
  BY <1>1, SameCode DEF PendingTail, t
<1>4. /\ Kind(PendingTail)' = Kind(t) /\ (Known(PendingTail)' <=> Known(t))
      /\ Target(PendingTail)' = Target(t)
  BY <1>1, <1>3, SameCode
<1>5. pending_resume_entry' = IF Kind(t) = "call" THEN pending_resume_entry ELSE 0
  BY DEF TailHit, PendingKind, t
<1>6. TailPlan'
  BY <1>1, <1>2, <1>3, <1>4, <1>5 DEF TailPlan, t
<1> QED BY <1>1, <1>2, <1>3, <1>4, <1>5, <1>6 DEF FlowInv, PlanInv, TailHit

LEMMA DestinationKeepsPlan ==
  ASSUME FlowInv, DestinationHit
  PROVE  PlanInv'
<1>1. /\ trap' = FALSE /\ running = TRUE /\ handed' = FALSE /\ waiting_for_trigger' = FALSE
      /\ backend_mode' = "HardwareFlow" /\ scenario \in Scenarios /\ scenario' = scenario /\ rip \in Nat
  BY InFlowOf DEF DestinationHit, FlowStep, windowVars, threadRest
<1>2. PendingTail \in Nat
  BY DEF FlowInv, PlanInv, DestinationHit
<1>3. CASE AwaitHotReturn /\ UNCHANGED running
  BY <1>1, <1>3 DEF AwaitHotReturn, PlanInv
<1>4. CASE Proceed(NextEntry, Len(NewStack), EventsNow)
  BY <1>1, <1>2, <1>4, NextEntryIsAddress, ProceedKeepsPlan DEF FlowInv
<1> QED BY <1>3, <1>4 DEF DestinationHit

LEMMA HandoffKeepsPlan ==
  ASSUME FlowInv, HandoffRequested
  PROVE  PlanInv'
<1> DEFINE entry == IF pending_resume_entry # 0 THEN pending_resume_entry ELSE rip
<1>1. /\ trap' = FALSE /\ running = TRUE /\ handed' = FALSE /\ waiting_for_trigger' = FALSE
      /\ backend_mode' = "HardwareFlow" /\ scenario \in Scenarios /\ scenario' = scenario /\ rip \in Nat
  BY InFlowOf DEF HandoffRequested, FlowStep, windowVars, threadRest
<1>2. entry \in Nat
  BY <1>1 DEF FlowInv, PlanInv
<1>3. Proceed(entry, Depth, event_count + Capture(rip))
  BY DEF HandoffRequested
<1> HIDE DEF entry
<1> QED BY <1>1, <1>2, <1>3, ProceedKeepsPlan DEF FlowInv

LEMMA HotReturnKeepsPlan ==
  ASSUME FlowInv, HotReturnHit
  PROVE  PlanInv'
<1>1. /\ trap' = FALSE /\ running = TRUE /\ handed' = FALSE /\ waiting_for_trigger' = FALSE
      /\ backend_mode' = "HardwareFlow" /\ scenario \in Scenarios /\ scenario' = scenario /\ rip \in Nat
      /\ UNCHANGED <<handed, waiting_for_trigger, backend_mode>>
  BY InFlowOf DEF HotReturnHit, FlowStep, windowVars, threadRest
<1>2. CASE StopTrace
  BY <1>2, StopKeepsPlan DEF FlowInv
<1>3. CASE Program(rip, Len(call_return_stack')) /\ UNCHANGED running
  BY <1>1, <1>3, ProgramKeepsPlan DEF FlowInv, Flowing
<1>4. CASE Apply(observed_addresses, FALSE) /\ UNCHANGED <<planVars, running>>
  BY <1>1, <1>4, SamePlan DEF HotReturnHit, FlowInv
<1> QED BY <1>2, <1>3, <1>4 DEF HotReturnHit

\* While the thread is stepped there is no plan.
LEMMA CloseKeepsPlan ==
  ASSUME FlowInv, WindowCloses
  PROVE  PlanInv'
<1>1. /\ running' = TRUE /\ handed' = FALSE /\ waiting_for_trigger' = FALSE /\ trap' = FALSE
      /\ scenario \in Scenarios /\ scenario' = scenario /\ rip \in Nat
  BY InStep DEF WindowCloses, FlowInv, ThreadInv, threadRest, Addresses
<1>2. CASE AwaitsReturn
  BY <1>1, <1>2 DEF WindowCloses, RestoreFlow, PlanInv
<1>3. CASE ~AwaitsReturn
  BY <1>1, <1>3, StartKeepsPlan DEF WindowCloses, RestoreFlow, FlowInv, Flowing
<1> QED BY <1>2, <1>3

LEMMA StepKeepsPlan ==
  ASSUME FlowInv, StepsOn \/ StepHandsOff
  PROVE  PlanInv'
<1>1. backend_mode = "TrapFlag" /\ observation_state = "Idle" /\ scenario' = scenario
  BY InStep DEF FlowInv, PlanInv, StepsOn, StepHandsOff, threadRest
<1>2. CASE StopTrace
  BY <1>2, StopKeepsPlan DEF FlowInv
<1>3. CASE UNCHANGED planVars
  BY <1>1, <1>3, SamePlan DEF FlowInv
<1>4. CASE StepHandsOff
  BY <1>1, <1>4 DEF StepHandsOff, FlowInv, PlanInv
<1> QED BY <1>2, <1>3, <1>4 DEF StepsOn

\* The step over the last instruction makes the transfer that is reported next.
LEMMA ThreadKeepsPlan ==
  ASSUME FlowInv, RunThread
  PROVE  PlanInv'
<1>1. /\ scenario' = scenario /\ UNCHANGED planVars
      /\ UNCHANGED <<running, handed, waiting_for_trigger, backend_mode>>
  BY DEF RunThread, windowVars
<1>2. CASE observation_state # "WaitingForSingleStep"
  BY <1>1, <1>2, SamePlan DEF FlowInv
<1>3. CASE observation_state = "WaitingForSingleStep"
  <2> DEFINE t == PendingTail
  <2> HIDE DEF t
  <2>1. t \in Nat /\ Kind(t) \in Terminators /\ TailPlan /\ rip = t /\ tf = TRUE
    BY <1>3
    DEF FlowInv, PlanInv, ArmedInv, Awaiting, IsStepped, RunThread, Execute,
        Faults, t
  <2>2. trap' = TRUE /\ <<t, rip'>> \in executed'
    BY <2>1 DEF RunThread, Execute
  <2>3. PendingTail' = t
    BY <1>1, SameCode DEF PendingTail, planVars, t
  <2>4. /\ Kind(PendingTail)' = Kind(t) /\ (Known(PendingTail)' <=> Known(t))
        /\ Target(PendingTail)' = Target(t)
    BY <1>1, <2>3, SameCode
  <2>5. TailPlan'
    BY <1>1, <2>1, <2>3, <2>4 DEF TailPlan, planVars, t
  <2> QED BY <1>1, <1>3, <2>1, <2>2, <2>3, <2>4, <2>5 DEF FlowInv, PlanInv,
          planVars
<1> QED BY <1>2, <1>3
-----------------------------------------------------------------------------
(* The thread, the stacks and the counts.                                  *)

CountInv ==
  /\ call_return_stack \in Seq(Addresses) /\ trap_suppression_stack \in Seq(BOOLEAN)
  /\ event_count \in Nat /\ last_rip \in Nat
  /\ uncounted \in BOOLEAN /\ left_unseen \in BOOLEAN /\ refused \in BOOLEAN
  /\ waiting_for_trigger => drs = observed_addresses

EngineInv == FlowInv /\ CountInv /\ ReportedIsPossible

LEMMA BelowIsSeq ==
  ASSUME NEW S, NEW s \in Seq(S), s # <<>>
  PROVE  Below(s) \in Seq(S) /\ Top(s) \in S /\ Len(Below(s)) = Len(s) - 1
<1>1. Len(s) \in Nat \ {0}
  BY EmptySeq
<1>2. Len(s) - 1 \in Nat /\ \A k \in 1 .. Len(s) - 1 : s[k] \in S
  BY <1>1, ElementOfSeq
<1>3. Below(s) \in Seq(S) /\ Len(Below(s)) = Len(s) - 1
  <2> DEFINE n == Len(s) - 1
  <2>1. n \in Nat /\ \A k \in 1 .. n : s[k] \in S
    BY <1>2
  <2> HIDE DEF n
  <2>2. SubSeq(s, 1, n) \in Seq(S) /\ Len(SubSeq(s, 1, n)) = IF 1 <= n THEN n - 1 + 1 ELSE 0
    BY <2>1, SubSeqProperties
  <2>3. Len(SubSeq(s, 1, n)) = n
    BY <2>1, <2>2
  <2> QED BY <2>2, <2>3 DEF Below, n
<1>4. Top(s) \in S
  BY <1>1, ElementOfSeq DEF Top
<1> QED BY <1>3, <1>4

LEMMA ThreadMoves ==
  ASSUME ThreadInv, Execute, scenario' = scenario
  PROVE  ThreadInv'
<1>1. rip \in DOMAIN Code
  BY DEF Execute
<1>2. Code[rip].to \subseteq Addresses
  BY <1>1, ScenarioAssumption
  DEF ScenarioAssumption, ThreadInv, Code, Instructions
<1>3. rip + 1 \in Addresses
  BY DEF ThreadInv, Addresses
<1>4. Kind(rip) = "return" => Top(stack) \in Addresses /\ Below(stack) \in Seq(Addresses)
                              /\ Len(Below(stack)) = Len(stack) - 1
  BY BelowIsSeq DEF Execute, ThreadInv
<1>5. rip' \in Addresses
  BY <1>2, <1>3, <1>4 DEF Execute, Successors
<1>6. stack' \in Seq(Addresses) /\ Len(stack') <= MaxStack
  <2>1. CASE Kind(rip) = "call"
    <3>1. stack' = Append(stack, rip + 1) /\ Len(stack) < MaxStack
      BY <2>1 DEF Execute
    <3>2. stack' \in Seq(Addresses) /\ Len(stack') = Len(stack) + 1 /\ Len(stack) \in Nat
      BY <1>3, <3>1, AppendProperties, LenProperties DEF ThreadInv
    <3> QED BY <3>1, <3>2, ScenarioAssumption DEF ScenarioAssumption
  <2>2. CASE Kind(rip) = "return"
    <3>1. stack' = Below(stack) /\ Len(stack) \in Nat
      BY <2>2, LenProperties DEF Execute, ThreadInv
    <3> QED BY <1>4, <2>2, <3>1, ScenarioAssumption DEF ThreadInv,
            ScenarioAssumption
  <2>3. CASE Kind(rip) \notin {"call", "return"}
    BY <2>3 DEF Execute, ThreadInv
  <2> QED BY <2>1, <2>2, <2>3
<1> QED BY <1>5, <1>6 DEF ThreadInv

LEMMA CountIsNat ==
  ASSUME NEW n \in Nat
  PROVE  Count(n) \in Nat
BY DEF Count

LEMMA CaptureIsNat == \A a : Capture(a) \in Nat
BY DEF Capture

\* The frames after a transfer of the flow, and after a step.
LEMMA NewStackIsSeq ==
  ASSUME CountInv, PendingTail \in Nat
  PROVE  NewStack \in Seq(Addresses)
<1>1. Fallthrough \in Addresses
  BY DEF Fallthrough, Addresses
<1>2. Append(call_return_stack, Fallthrough) \in Seq(Addresses)
  BY <1>1, AppendProperties DEF CountInv
<1>3. Depth > 0 => Below(call_return_stack) \in Seq(Addresses)
  BY BelowIsSeq, EmptySeq DEF CountInv, Depth
<1> QED BY <1>2, <1>3 DEF NewStack, CountInv

LEMMA StepStacksAreSeqs ==
  ASSUME ThreadInv, CountInv
  PROVE  StepStack \in Seq(Addresses) /\ StepSuppression \in Seq(BOOLEAN)
<1>1. Done + 1 \in Addresses
  BY DEF Done, ThreadInv, CountInv, Addresses
<1>2. Append(call_return_stack, Done + 1) \in Seq(Addresses)
  BY <1>1, AppendProperties DEF CountInv
<1>3. StepReturns => Below(call_return_stack) \in Seq(Addresses)
  BY BelowIsSeq, EmptySeq DEF CountInv, Depth, StepReturns
<1>4. trap_suppression_stack # <<>> =>
        Below(trap_suppression_stack) \in Seq(BOOLEAN) /\ Top(trap_suppression_stack) \in BOOLEAN
  BY BelowIsSeq DEF CountInv
<1>5. SuppressesCallee \in BOOLEAN
  BY Zenon DEF SuppressesCallee
<1>6. Append(trap_suppression_stack, SuppressesCallee) \in Seq(BOOLEAN)
  BY <1>5, AppendProperties DEF CountInv
<1>7. StepStack \in Seq(Addresses)
  BY <1>2, <1>3 DEF StepStack, CountInv
<1>8. StepSuppression \in Seq(BOOLEAN)
  BY <1>4, <1>6 DEF StepSuppression, CountInv
<1> QED BY <1>7, <1>8

LEMMA StepCountIsNat ==
  ASSUME CountInv
  PROVE  \A changed \in BOOLEAN : StepCount(changed) \in Nat
<1> SUFFICES ASSUME NEW changed \in BOOLEAN
             PROVE  StepCount(changed) \in Nat
  OBVIOUS
<1> DEFINE own == IF Begun /\ (Watching.mode = "step" \/ (Watching.mode = "write" /\ changed))
                  THEN 1 ELSE 0
           emits == IF StepEmits THEN 1 ELSE 0
<1>1. own \in Nat /\ emits \in Nat
  OBVIOUS
<1>2. StepCount(changed) = Count(event_count + Capture(rip) + emits + own)
  BY DEF StepCount
<1> HIDE DEF own, emits
<1>3. event_count + Capture(rip) + emits + own \in Nat
  BY <1>1, CaptureIsNat DEF CountInv
<1> QED BY <1>2, <1>3, CountIsNat
-----------------------------------------------------------------------------
(* The handlers keep the counts, and report what is possible.              *)

\* What is reported of a thread that goes on stays possible.
LEMMA StaysPossible ==
  ASSUME ReportedIsPossible, scenario' = scenario, reported' = reported,
         executed \subseteq executed'
  PROVE  ReportedIsPossible'
BY SameCode DEF ReportedIsPossible

LEMMA EdgeIsPossible ==
  ASSUME FlowInv, Stepped \/ DestinationHit
  PROVE  IF Known(PendingTail) THEN EventTarget \in Arrivals(PendingTail)
                               ELSE <<PendingTail, EventTarget>> \in executed
<1>1. CASE Stepped
  <2>1. Awaiting /\ observation_state = "WaitingForSingleStep" /\ Faults
    BY <1>1, InFlow DEF FlowInv, Stepped, FlowStep, Flow
  <2>2. trap
    BY <2>1 DEF Awaiting, IsStepped, Faults
  <2>3. TailPlan /\ <<PendingTail, rip>> \in executed
    BY <2>1, <2>2 DEF FlowInv, PlanInv
  <2> QED BY <2>3 DEF TailPlan, EventTarget, Arrivals
<1>2. CASE DestinationHit
  <2>1. DestinationPlan /\ rip \in observed_addresses
    BY <1>2 DEF FlowInv, PlanInv, DestinationHit, Expected
  <2> QED BY <2>1 DEF DestinationPlan, EventTarget, Arrivals
<1> QED BY <1>1, <1>2

LEMMA TransitionIsPossible ==
  ASSUME FlowInv, ReportedIsPossible, Stepped \/ DestinationHit
  PROVE  ReportedIsPossible'
<1>1. scenario' = scenario /\ executed' = executed /\ reported' \subseteq reported \cup {Edge}
  BY DEF Stepped, DestinationHit, Transition, threadRest
<1>2. IF Known(Edge[1]) THEN Edge[2] \in Arrivals(Edge[1]) ELSE Edge \in executed
  BY EdgeIsPossible DEF Edge
<1> QED BY <1>1, <1>2, SameCode DEF ReportedIsPossible

\* A transfer of the flow.
LEMMA TransitionCounts ==
  ASSUME FlowInv, CountInv, Transition, PendingTail \in Nat,
         waiting_for_trigger' = FALSE,
         UNCHANGED <<trap_suppression_stack, last_rip, uncounted, left_unseen, refused>>
  PROVE  CountInv'
<1>1. call_return_stack' \in Seq(Addresses)
  BY NewStackIsSeq DEF Transition
<1>2. event_count' \in Nat
  <2> DEFINE emits == IF Emits THEN 1 ELSE 0
  <2>1. emits \in Nat
    OBVIOUS
  <2>2. event_count' = Count(event_count + Capture(rip) + emits)
    BY DEF Transition, EventsNow
  <2> HIDE DEF emits
  <2>3. event_count + Capture(rip) + emits \in Nat
    BY <2>1, CaptureIsNat DEF CountInv
  <2> QED BY <2>2, <2>3, CountIsNat
<1> QED BY <1>1, <1>2 DEF CountInv

LEMMA CapturesCount ==
  ASSUME CountInv, event_count' = Count(event_count + Capture(rip))
  PROVE  event_count' \in Nat
<1>1. event_count + Capture(rip) \in Nat
  BY CaptureIsNat DEF CountInv
<1> QED BY <1>1, CountIsNat

LEMMA FlowCounts ==
  ASSUME FlowInv, CountInv,
         FlowOpensWindow \/ Scan \/ Stepped \/ TailHit \/ DestinationHit \/ HandoffRequested
  PROVE  CountInv'
<1>1. waiting_for_trigger' = FALSE
  BY InFlowOf
  DEF FlowOpensWindow, Scan, Stepped, TailHit, DestinationHit,
      HandoffRequested, FlowStep, flowRest
<1>2. CASE Stepped \/ DestinationHit
  <2>1. PendingTail \in Nat
    BY <1>2 DEF FlowInv, PlanInv, Stepped, DestinationHit
  <2>2. Transition /\ UNCHANGED <<trap_suppression_stack, last_rip, uncounted, left_unseen, refused>>
    BY <1>2 DEF Stepped, DestinationHit, windowVars, history
  <2> QED BY <1>1, <2>1, <2>2, TransitionCounts
<1>3. CASE FlowOpensWindow
  <2>1. uncounted' \in BOOLEAN
    BY <1>3, Zenon DEF FlowOpensWindow
  <2>2. UNCHANGED <<call_return_stack, trap_suppression_stack, event_count, left_unseen, refused>> /\ last_rip' = rip
    BY <1>3 DEF FlowOpensWindow, stackVars, reportVars
  <2> QED BY <1>1, <2>1, <2>2 DEF CountInv, FlowInv, ThreadInv, Addresses
<1>4. CASE Scan \/ TailHit \/ HandoffRequested
  <2>1. event_count' = Count(event_count + Capture(rip))
    BY <1>4 DEF Scan, TailHit, HandoffRequested, Captures
  <2>2. UNCHANGED <<call_return_stack, trap_suppression_stack, last_rip, left_unseen>>
    BY <1>4
    DEF Scan, TailHit, HandoffRequested, stackVars, windowVars, history,
        flowRest
  <2>3. uncounted' \in BOOLEAN /\ refused' \in BOOLEAN
    BY <1>4, Zenon
    DEF CountInv, Scan, TailHit, HandoffRequested, history, flowRest
  <2> QED BY <1>1, <2>1, <2>2, <2>3, CapturesCount DEF CountInv
<1> QED BY <1>2, <1>3, <1>4

LEMMA HotReturnCounts ==
  ASSUME FlowInv, CountInv, HotReturnHit
  PROVE  CountInv'
<1>1. /\ waiting_for_trigger' = FALSE /\ event_count' = Count(event_count + Capture(rip))
      /\ UNCHANGED <<trap_suppression_stack, last_rip, uncounted, left_unseen, refused>>
  BY InFlowOf DEF HotReturnHit, FlowStep, Captures, windowVars, history
<1>2. \/ call_return_stack' = call_return_stack
      \/ Depth > 0 /\ call_return_stack' = Below(call_return_stack)
  BY DEF HotReturnHit
<1>3. call_return_stack' \in Seq(Addresses)
  BY <1>2, BelowIsSeq, EmptySeq DEF CountInv, Depth
<1> QED BY <1>1, <1>3, CapturesCount DEF CountInv

LEMMA StepCounts ==
  ASSUME FlowInv, CountInv, WindowCloses \/ StepsOn \/ StepHandsOff
  PROVE  CountInv'
<1>1. waiting_for_trigger' = FALSE /\ last_rip' \in Nat
  <2>1. last_rip' \in {0, rip} /\ waiting_for_trigger' = waiting_for_trigger /\ Stepping
    BY DEF WindowCloses, StepsOn, StepHandsOff
  <2>2. rip \in Nat
    BY DEF FlowInv, ThreadInv, Addresses
  <2> QED BY <2>1, <2>2, InStep DEF FlowInv
<1>2. /\ call_return_stack' \in {call_return_stack, StepStack}
      /\ trap_suppression_stack' \in {<<>>, trap_suppression_stack, StepSuppression}
  BY DEF WindowCloses, StepsOn, StepHandsOff, RestoreFlow, stackVars
<1>3. call_return_stack' \in Seq(Addresses) /\ trap_suppression_stack' \in Seq(BOOLEAN)
  <2>1. <<>> \in Seq(BOOLEAN)
    BY EmptySeq
  <2> QED BY <1>2, <2>1, StepStacksAreSeqs DEF CountInv, FlowInv
<1>4. event_count' \in Nat
  <2>1. CASE StepHandsOff
    <3>1. event_count + Capture(rip) + 1 \in Nat
      BY CaptureIsNat DEF CountInv
    <3> QED BY <2>1, <3>1, CountIsNat DEF StepHandsOff
  <2>2. CASE WindowCloses \/ StepsOn
    BY <2>2, StepCountIsNat DEF WindowCloses, StepsOn
  <2> QED BY <2>1, <2>2
<1>5. uncounted' \in BOOLEAN
  BY Zenon
  DEF CountInv, WindowCloses, RestoreFlow, StepsOn, StepHandsOff, history
<1>6. left_unseen' \in BOOLEAN /\ refused' \in BOOLEAN
  BY Zenon DEF CountInv, WindowCloses, StepsOn, StepHandsOff, history
<1> QED BY <1>1, <1>3, <1>4, <1>5, <1>6 DEF CountInv
-----------------------------------------------------------------------------
(* The invariant of the engine.                                            *)

LEMMA EngineInit == Init => EngineInv
<1> SUFFICES ASSUME Init PROVE EngineInv
  OBVIOUS
<1>1. scenario \in Scenarios /\ scenario.caller \in Addresses
  BY ScenarioAssumption DEF Init, ScenarioAssumption
<1>2. <<>> \in Seq(Addresses) /\ Len(<<>>) = 0 /\ <<>> \in Seq(BOOLEAN)
  BY EmptySeq
<1>3. ThreadInv
  BY <1>1, <1>2, ScenarioAssumption DEF Init, ThreadInv, ScenarioAssumption
<1>4. PlanInv /\ CountInv /\ ReportedIsPossible
  BY <1>2 DEF Init, PlanInv, CountInv, ReportedIsPossible
<1> QED BY <1>3, <1>4, ArmedInit DEF EngineInv, FlowInv

LEMMA TriggeredCounts ==
  ASSUME FlowInv, CountInv, Triggered
  PROVE  CountInv'
<1>1. /\ waiting_for_trigger' = FALSE /\ last_rip' \in Nat
      /\ UNCHANGED <<call_return_stack, trap_suppression_stack, uncounted, left_unseen, refused>>
  BY DEF Triggered, FlowInv, ThreadInv, Addresses, stackVars, history
<1>2. event_count' \in Nat
  BY CapturesCount DEF Triggered
<1> QED BY <1>1, <1>2 DEF CountInv

LEMMA HandlersKeepThread ==
  ASSUME FlowInv, Handle
  PROVE  ThreadInv'
BY DEF Handle, FlowInv, ThreadInv, threadRest, Triggered, FlowOpensWindow,
   Scan, Stepped, TailHit,
  DestinationHit, HandoffRequested, HotReturnHit, WindowCloses, StepsOn, StepHandsOff

LEMMA ThreadStep ==
  ASSUME EngineInv, RunThread
  PROVE  EngineInv'
<1>1. PlanInv' /\ ArmedInv'
  BY ThreadKeepsPlan, ExecuteKeepsArmed DEF EngineInv, FlowInv
<1>2. scenario' = scenario /\ reported' = reported /\ executed \subseteq executed'
  BY DEF RunThread, Execute, reportVars
<1>3. ThreadInv'
  BY <1>2, ThreadMoves DEF RunThread, EngineInv, FlowInv
<1>4. CountInv'
  BY DEF EngineInv, CountInv, RunThread, Execute, planVars, stackVars,
     windowVars, reportVars, history
<1>5. ReportedIsPossible'
  BY <1>2, StaysPossible DEF EngineInv
<1> QED BY <1>1, <1>3, <1>4, <1>5 DEF EngineInv, FlowInv

LEMMA HandlerStep ==
  ASSUME EngineInv, Handle
  PROVE  EngineInv'
<1> USE DEF EngineInv, FlowInv
<1>1. ThreadInv'
  BY HandlersKeepThread
<1>2. ArmedInv'
  BY ArmedStep DEF Next
<1>3. PlanInv' /\ CountInv'
  <2>1. CASE Triggered
    BY <2>1, TriggeredKeepsPlan, TriggeredCounts
  <2>2. CASE FlowOpensWindow
    BY <2>2, WindowKeepsPlan, FlowCounts DEF FlowOpensWindow
  <2>3. CASE Scan \/ Stepped
    BY <2>3, ScanKeepsPlan, SteppedKeepsPlan, FlowCounts
  <2>4. CASE TailHit \/ DestinationHit
    BY <2>4, TailHitKeepsPlan, DestinationKeepsPlan, FlowCounts
  <2>5. CASE HandoffRequested
    BY <2>5, HandoffKeepsPlan, FlowCounts
  <2>6. CASE HotReturnHit
    BY <2>6, HotReturnKeepsPlan, HotReturnCounts
  <2>7. CASE WindowCloses
    BY <2>7, CloseKeepsPlan, StepCounts
  <2>8. CASE StepsOn \/ StepHandsOff
    BY <2>8, StepKeepsPlan, StepCounts
  <2> QED BY <2>1, <2>2, <2>3, <2>4, <2>5, <2>6, <2>7, <2>8 DEF Handle
<1>4. ReportedIsPossible'
  <2>1. CASE Stepped \/ DestinationHit
    BY <2>1, TransitionIsPossible
  <2>2. CASE ~(Stepped \/ DestinationHit)
    <3>1. scenario' = scenario /\ reported' = reported /\ executed' = executed
      BY <2>2
      DEF Handle, Triggered, FlowOpensWindow, Scan, TailHit, HandoffRequested,
          HotReturnHit,
          WindowCloses, StepsOn, StepHandsOff, threadRest, reportVars
    <3> QED BY <3>1, StaysPossible
  <2> QED BY <2>1, <2>2
<1> QED BY <1>1, <1>2, <1>3, <1>4

LEMMA EngineStutters ==
  ASSUME EngineInv, UNCHANGED vars
  PROVE  EngineInv'
<1> USE DEF vars, threadVars
<1>1. ThreadInv'
  BY DEF EngineInv, FlowInv, ThreadInv
<1>2. ArmedInv'
  BY ArmedStep DEF EngineInv, FlowInv
<1>3. CountInv'
  BY DEF EngineInv, CountInv, planVars, stackVars, windowVars, reportVars,
     history
<1>4. ReportedIsPossible'
  BY StaysPossible DEF EngineInv, reportVars
<1>5. PlanInv'
  <2>1. CASE observation_state # "WaitingForSingleStep"
    BY <2>1, SamePlan DEF EngineInv, FlowInv, windowVars
  <2>2. CASE observation_state = "WaitingForSingleStep"
    <3> DEFINE t == PendingTail
    <3> HIDE DEF t
    <3>1. PendingTail' = t
      BY SameCode DEF PendingTail, planVars, t
    <3>2. /\ Kind(PendingTail)' = Kind(t) /\ (Known(PendingTail)' <=> Known(t))
          /\ Target(PendingTail)' = Target(t)
      BY <3>1, SameCode
    <3>3. TailPlan => TailPlan'
      BY <3>1, <3>2 DEF TailPlan, planVars, t
    <3> QED BY <2>2, <3>1, <3>2, <3>3 DEF EngineInv, FlowInv, PlanInv,
            planVars, windowVars, t
  <2> QED BY <2>1, <2>2
<1> QED BY <1>1, <1>2, <1>3, <1>4, <1>5 DEF EngineInv, FlowInv

LEMMA EngineStep == EngineInv /\ [Next]_vars => EngineInv'
BY ThreadStep, HandlerStep, EngineStutters DEF Next

LEMMA EngineInvariance == Spec => []EngineInv
BY EngineInit, EngineStep, PTL DEF Spec

\* Every variable of the engine and of the thread keeps its type, and the debug
\* registers hold the addresses on record or none.
THEOREM EngineTypeCorrect == Spec => []TypeOK
<1>1. EngineInv => TypeOK
  <2> SUFFICES ASSUME EngineInv PROVE TypeOK
    OBVIOUS
  <2>1. stack \in Seq(Int) /\ call_return_stack \in Seq(Int)
    BY SeqMonotonic DEF EngineInv, FlowInv, ThreadInv, CountInv, Addresses
  <2>2. drs \in {{}, observed_addresses}
    BY DEF EngineInv, FlowInv, ArmedInv, CountInv, Quiet, Awaiting
  <2>3. rip \in Int
    BY DEF EngineInv, FlowInv, ThreadInv, Addresses
  <2> QED BY <2>1, <2>2, <2>3
    DEF TypeOK, EngineInv, FlowInv, ThreadInv, ArmedInv, PlanInv, CountInv
<1> QED BY <1>1, EngineInvariance, PTL

\* Whatever code runs over the addresses the engine watches -- a callee that is not
\* followed and calls back, a recursion at the depth limit -- it reports no transfer the
\* program does not have: one with a known target goes to that target, behind the
\* conditional jump, or behind the call that may have created a thread; and a return,
\* an indirect call or jump was made by the thread as it is reported.
THEOREM ReportsArePossible == Spec => []ReportedIsPossible
<1>1. EngineInv => ReportedIsPossible
  BY DEF EngineInv
<1> QED BY <1>1, EngineInvariance, PTL

-----------------------------------------------------------------------------
(* The frames of the thread and the frames that are counted.               *)

RootReturnsTo == scenario.caller + 1

\* The thread's frames are these, above the root.
Mirror(frames) ==
  /\ Len(stack) = Len(frames) + 1 /\ stack[1] = RootReturnsTo
  /\ \A i \in 1 .. Len(frames) : stack[i + 1] = frames[i]

\* Or the root has returned, and the thread is about to end.
Frames(frames) == Mirror(frames) \/ (stack = <<>> /\ frames = <<>> /\ rip = RootReturnsTo)
Counted == Frames(call_return_stack)

\* The instruction at a has been run since the frames were counted.
FramesAfter(a) ==
  IF Kind(a) = "call" THEN Append(call_return_stack, a + 1)
  ELSE IF Kind(a) = "return" /\ call_return_stack # <<>> THEN Below(call_return_stack)
  ELSE call_return_stack

Made(a) ==
  /\ Frames(FramesAfter(a))
  /\ Kind(a) = "return" =>
       IF call_return_stack = <<>> THEN stack = <<>> ELSE rip = Top(call_return_stack)

LEMMA BelowKeeps ==
  ASSUME NEW S, NEW s \in Seq(S), s # <<>>
  PROVE  \A i \in 1 .. Len(s) - 1 : Below(s)[i] = s[i]
<1> DEFINE n == Len(s) - 1
<1>1. n \in Nat /\ \A k \in 1 .. n : s[k] \in S
  BY EmptySeq, ElementOfSeq
<1> HIDE DEF n
<1>2. \A i \in 1 .. n : SubSeq(s, 1, n)[i] = s[1 + i - 1]
  BY <1>1, SubSeqProperties
<1>3. \A i \in 1 .. n : 1 + i - 1 = i
  BY <1>1
<1>4. \A i \in 1 .. n : Below(s)[i] = s[i]
  BY <1>2, <1>3 DEF Below, n
<1> QED BY <1>4 DEF n

\* Where an instruction leads that is no return.
Onward(a) ==
  Code[a].to \cup IF Kind(a) \in {"other", "odd", "jcc", "syscall"} THEN {a + 1} ELSE {}

\* One step of the processor.
LEMMA Moves ==
  ASSUME ThreadInv, Execute
  PROVE  /\ rip \in DOMAIN Code /\ Kind(rip) # "exit" /\ trap' = tf
         /\ Kind(rip) = "return" =>
              /\ stack # <<>> /\ Len(stack) \in Nat \ {0} /\ rip' = stack[Len(stack)]
              /\ stack' = Below(stack) /\ Len(stack') = Len(stack) - 1
              /\ \A i \in 1 .. Len(stack) - 1 : stack'[i] = stack[i]
         /\ Kind(rip) # "return" => rip' \in Onward(rip)
         /\ Kind(rip) = "call" =>
              /\ Len(stack') = Len(stack) + 1 /\ stack'[Len(stack) + 1] = rip + 1
              /\ stack' = Append(stack, rip + 1)
              /\ \A i \in 1 .. Len(stack) : stack'[i] = stack[i]
         /\ Kind(rip) \notin {"call", "return"} => stack' = stack
<1>1. stack \in Seq(Addresses) /\ rip + 1 \in Addresses /\ rip \in DOMAIN Code /\ trap' = tf
  BY DEF ThreadInv, Addresses, Execute
<1>2. Kind(rip) # "exit"
  <2>1. ASSUME Kind(rip) = "exit" PROVE FALSE
    <3>1. Code[rip].to = {}
      BY <1>1, <2>1, ScenarioAssumption DEF ThreadInv, ScenarioAssumption, Code, Kind
    <3>2. Successors = {}
      BY <2>1, <3>1 DEF Successors
    <3> QED BY <3>2 DEF Execute
  <2> QED BY <2>1
<1>3. ASSUME Kind(rip) = "return"
      PROVE  /\ stack # <<>> /\ Len(stack) \in Nat \ {0} /\ rip' = stack[Len(stack)]
             /\ stack' = Below(stack) /\ Len(stack') = Len(stack) - 1
             /\ \A i \in 1 .. Len(stack) - 1 : stack'[i] = stack[i]
  <2>1. stack # <<>> /\ rip' = Top(stack) /\ stack' = Below(stack)
    BY <1>3 DEF Execute, Successors
  <2>2. Len(Below(stack)) = Len(stack) - 1 /\ \A i \in 1 .. Len(stack) - 1 : Below(stack)[i] = stack[i]
    BY <1>1, <2>1, BelowIsSeq, BelowKeeps
  <2>3. Len(stack) \in Nat \ {0}
    BY <1>1, <2>1, EmptySeq
  <2> QED BY <2>1, <2>2, <2>3 DEF Top
<1>4. Kind(rip) # "return" => rip' \in Onward(rip)
  BY DEF Execute, Successors, Onward
<1>5. Kind(rip) = "call" =>
              /\ Len(stack') = Len(stack) + 1 /\ stack'[Len(stack) + 1] = rip + 1
              /\ stack' = Append(stack, rip + 1)
              /\ \A i \in 1 .. Len(stack) : stack'[i] = stack[i]
  <2>1. Kind(rip) = "call" => stack' = Append(stack, rip + 1)
    BY DEF Execute
  <2> QED BY <1>1, <2>1, AppendProperties
<1>6. Kind(rip) \notin {"call", "return"} => stack' = stack
  BY DEF Execute
<1> QED BY <1>1, <1>2, <1>3, <1>4, <1>5, <1>6

LEMMA RootEnds ==
  ASSUME scenario \in Scenarios
  PROVE  RootReturnsTo \in DOMAIN Code /\ Kind(RootReturnsTo) = "exit"
BY ScenarioAssumption DEF ScenarioAssumption, RootReturnsTo, Kind, Code

\* A thread that goes on has its root frame.
LEMMA StillMirrors ==
  ASSUME ThreadInv, Counted, Kind(rip) # "exit"
  PROVE  Mirror(call_return_stack)
BY RootEnds DEF Counted, Frames, ThreadInv

\* A call makes the same frame here and there, and a return removes one.
LEMMA CallMirrors ==
  ASSUME ThreadInv, CountInv, Mirror(call_return_stack), scenario' = scenario,
         stack' = Append(stack, rip + 1), NEW frames, frames = Append(call_return_stack, rip + 1)
  PROVE  /\ Len(stack') = Len(frames) + 1 /\ stack'[1] = RootReturnsTo
         /\ \A i \in 1 .. Len(frames) : stack'[i + 1] = frames[i]
<1>1. rip + 1 \in Addresses
  BY DEF ThreadInv, Addresses
<1> DEFINE n == Len(call_return_stack)
<1>2. n \in Nat /\ Len(stack) = n + 1 /\ stack \in Seq(Addresses) /\ call_return_stack \in Seq(Addresses)
  BY LenProperties DEF CountInv, ThreadInv, Mirror
<1>3. /\ Len(stack') = n + 2 /\ stack'[n + 2] = rip + 1
      /\ \A i \in 1 .. n + 1 : stack'[i] = stack[i]
  BY <1>1, <1>2, AppendProperties
<1>4. /\ Len(frames) = n + 1 /\ frames[n + 1] = rip + 1
      /\ \A i \in 1 .. n : frames[i] = call_return_stack[i]
  BY <1>1, <1>2, AppendProperties
<1>5. stack[1] = RootReturnsTo /\ \A i \in 1 .. n : stack[i + 1] = call_return_stack[i]
  BY DEF Mirror
<1> HIDE DEF n
<1>6. ASSUME NEW i \in 1 .. n + 1
      PROVE  stack'[i + 1] = frames[i]
  <2>1. CASE i = n + 1
    BY <1>2, <1>3, <1>4, <2>1
  <2>2. CASE i # n + 1
    <3>1. i \in 1 .. n /\ i + 1 \in 1 .. n + 1
      BY <1>2, <2>2
    <3> QED BY <1>3, <1>4, <1>5, <3>1
  <2> QED BY <2>1, <2>2
<1> QED BY <1>2, <1>3, <1>4, <1>5, <1>6

LEMMA ReturnMirrors ==
  ASSUME ThreadInv, CountInv, Mirror(call_return_stack), scenario' = scenario,
         stack' = Below(stack), call_return_stack # <<>>, NEW frames, frames = Below(call_return_stack)
  PROVE  /\ Len(stack') = Len(frames) + 1 /\ stack'[1] = RootReturnsTo
         /\ \A i \in 1 .. Len(frames) : stack'[i + 1] = frames[i]
         /\ stack[Len(stack)] = Top(call_return_stack)
<1> DEFINE n == Len(call_return_stack)
<1>1. n \in Nat \ {0} /\ Len(stack) = n + 1 /\ stack \in Seq(Addresses) /\ call_return_stack \in Seq(Addresses)
  BY EmptySeq, LenProperties DEF CountInv, ThreadInv, Mirror
<1>2. stack # <<>>
  BY <1>1, EmptySeq
<1>3. stack[1] = RootReturnsTo /\ \A i \in 1 .. n : stack[i + 1] = call_return_stack[i]
  BY DEF Mirror
<1>4. Len(stack') = n /\ \A i \in 1 .. n : stack'[i] = stack[i]
  <2>1. Len(stack) - 1 = n
    BY <1>1
  <2>2. \A i \in 1 .. Len(stack) - 1 : Below(stack)[i] = stack[i]
    BY <1>1, <1>2, BelowKeeps
  <2>3. Len(Below(stack)) = Len(stack) - 1
    BY <1>1, <1>2, BelowIsSeq
  <2> QED BY <2>1, <2>2, <2>3
<1>5. Len(frames) = n - 1 /\ \A i \in 1 .. n - 1 : frames[i] = call_return_stack[i]
  BY <1>1, BelowKeeps, BelowIsSeq
<1>6. stack[Len(stack)] = stack[n + 1] /\ Top(call_return_stack) = call_return_stack[n]
  BY <1>1 DEF Top
<1> HIDE DEF n
<1>7. ASSUME NEW i \in 1 .. n - 1
      PROVE  stack'[i + 1] = frames[i]
  <2>1. i \in 1 .. n /\ i + 1 \in 1 .. n
    BY <1>1
  <2> QED BY <1>3, <1>4, <1>5, <2>1
<1> QED BY <1>1, <1>3, <1>4, <1>5, <1>6, <1>7

\* The processor makes the step the engine is going to count.
LEMMA StepIsMade ==
  ASSUME ThreadInv, CountInv, Execute, Counted, scenario' = scenario,
         call_return_stack' = call_return_stack, NEW a, a = rip
  PROVE  Made(a)'
<1>1. RootReturnsTo' = RootReturnsTo /\ Kind(a)' = Kind(rip)
  BY SameCode DEF RootReturnsTo
<1>2. Kind(rip) # "exit" /\ Mirror(call_return_stack)
  BY Moves, StillMirrors
<1>3. CASE Kind(rip) = "call"
  <2>1. FramesAfter(a)' = Append(call_return_stack, rip + 1)
    BY <1>1, <1>3 DEF FramesAfter
  <2>2. Mirror(FramesAfter(a))'
    BY <1>1, <1>2, <1>3, <2>1, Moves, CallMirrors DEF Mirror
  <2> QED BY <1>1, <1>3, <2>2 DEF Made, Frames
<1>4. CASE Kind(rip) = "return" /\ call_return_stack # <<>>
  <2>1. FramesAfter(a)' = Below(call_return_stack)
    BY <1>1, <1>4 DEF FramesAfter
  <2>2. stack' = Below(stack) /\ rip' = stack[Len(stack)]
    BY <1>4, Moves
  <2>3. Mirror(FramesAfter(a))' /\ rip' = Top(call_return_stack)
    BY <1>1, <1>2, <1>4, <2>1, <2>2, ReturnMirrors DEF Mirror
  <2>4. Top(call_return_stack)' = Top(call_return_stack)
    OBVIOUS
  <2> QED BY <1>1, <1>4, <2>3, <2>4 DEF Made, Frames
<1>5. CASE Kind(rip) = "return" /\ call_return_stack = <<>>
  <2>1. Len(stack) = 1 /\ stack[1] = RootReturnsTo
    BY <1>2, <1>5 DEF Mirror
  <2>2. stack' = <<>> /\ rip' = RootReturnsTo
    <3>1. Len(stack') = 0 /\ rip' = RootReturnsTo /\ stack' = Below(stack) /\ stack # <<>>
      BY <1>5, <2>1, Moves
    <3>2. stack' \in Seq(Addresses)
      BY <3>1, BelowIsSeq DEF ThreadInv
    <3> QED BY <3>1, <3>2, EmptySeq
  <2>3. FramesAfter(a)' = <<>>
    BY <1>1, <1>5 DEF FramesAfter
  <2> QED BY <1>1, <1>5, <2>2, <2>3 DEF Made, Frames
<1>6. CASE Kind(rip) \notin {"call", "return"}
  <2>1. stack' = stack /\ FramesAfter(a)' = call_return_stack
    BY <1>1, <1>6, Moves DEF FramesAfter
  <2>2. Mirror(FramesAfter(a))'
    BY <1>1, <1>2, <2>1 DEF Mirror
  <2> QED BY <1>1, <1>6, <2>2 DEF Made, Frames
<1> QED BY <1>3, <1>4, <1>5, <1>6

\* What the engine counts of the step that was made, when it is told of the instruction.
LEMMA StepIsCounted ==
  ASSUME CountInv, last_rip # 0, Made(last_rip)
  PROVE  Frames(StepStack)
<1>1. Done = last_rip /\ (call_return_stack # <<>> <=> Depth > 0)
  BY EmptySeq, LenProperties DEF Done, CountInv, Depth
<1>2. StepStack = FramesAfter(last_rip)
  BY <1>1, Zenon DEF StepStack, StepReturns, DoneKind, FramesAfter, Made
<1> QED BY <1>2 DEF Made

\* The frames stay counted while the thread is held.
LEMMA HeldFrames ==
  ASSUME UNCHANGED threadRest, NEW frames, Frames(frames), call_return_stack' = frames
  PROVE  Counted'
BY DEF Counted, Frames, Mirror, RootReturnsTo, threadRest

-----------------------------------------------------------------------------
(* The frames of a trace that is stepped all the way.                      *)

AllStepped == ~scenario.control_flow_only

\* Before and after a step: the engine learns from the instruction that was run what the
\* thread did.
Before == last_rip = rip /\ Counted
After == last_rip # 0 /\ Made(last_rip)

\* A probe's window that was opened while the trace is stepped ends without a change of
\* the way the thread is followed.
IsSession(s) == "restore" \in DOMAIN s /\ s.restore = FALSE

FrameInv ==
  /\ waiting_for_trigger =>
       /\ drs = {scenario.entry} /\ trap = FALSE
       /\ \/ stack = <<>> /\ rip = scenario.caller
          \/ stack = <<RootReturnsTo>> /\ rip = scenario.entry
       /\ call_return_stack = <<>> /\ active_probe = None
  /\ AllStepped =>
       /\ backend_mode = "TrapFlag"
       /\ active_probe = None \/ IsSession(active_probe)
       /\ running /\ ~handed /\ ~waiting_for_trigger => IF trap THEN After ELSE Before

LEMMA FrameInit == Init => FrameInv
BY DEF Init, FrameInv, AllStepped

LEMMA FrameThread ==
  ASSUME EngineInv, FrameInv, RunThread
  PROVE  FrameInv'
<1>1. /\ ThreadInv /\ ArmedInv /\ Execute /\ scenario' = scenario
      /\ UNCHANGED <<running, waiting_for_trigger, handed, backend_mode, active_probe,
                     call_return_stack, drs>>
  BY DEF EngineInv, FlowInv, RunThread, Execute, windowVars, stackVars
<1>2. CASE waiting_for_trigger
  <2>1. trap' = FALSE /\ rip # scenario.entry
    BY <1>1, <1>2 DEF FrameInv, ArmedInv, Execute, Faults
  <2>2. stack = <<>> /\ rip = scenario.caller
    BY <1>2, <2>1 DEF FrameInv
  <2>3. Kind(rip) = "call" /\ Code[rip].to = {scenario.entry}
    BY <1>1, <2>2, ScenarioAssumption
    DEF ThreadInv, ScenarioAssumption, Code, Kind
  <2>4. rip' = scenario.entry /\ stack' = <<RootReturnsTo>>
    BY <1>1, <2>2, <2>3 DEF Execute, Successors, RootReturnsTo
  <2> QED BY <1>1, <1>2, <2>1, <2>4 DEF FrameInv, AllStepped, RootReturnsTo
<1>3. CASE ~waiting_for_trigger
  <2>1. ASSUME AllStepped, running, ~handed
        PROVE  After' /\ trap' = TRUE
    <3>1. Awaiting /\ IsStepped
      BY <1>1, <1>3, <2>1 DEF ArmedInv, FrameInv, IsStepped
    <3>2. tf = TRUE /\ Before /\ trap' = tf
      BY <1>1, <1>3, <2>1, <3>1, Moves DEF Awaiting, FrameInv, Execute, Faults
    <3>3. last_rip' = rip /\ rip # 0 /\ call_return_stack' = call_return_stack /\ CountInv
      BY <1>1, <3>2 DEF Before, EngineInv, ThreadInv, Addresses, RunThread, windowVars
    <3>4. Made(last_rip)'
      <4>1. PICK a : a = rip
        OBVIOUS
      <4>2. Made(a)'
        BY <1>1, <3>2, <3>3, <4>1, StepIsMade DEF Before
      <4> QED BY <3>3, <4>1, <4>2
    <3> QED BY <3>2, <3>3, <3>4 DEF After
  <2>2. AllStepped' = AllStepped /\ IsSession(active_probe)' = IsSession(active_probe)
    BY <1>1 DEF AllStepped, IsSession
  <2> QED BY <1>1, <1>3, <2>1, <2>2 DEF FrameInv
<1> QED BY <1>2, <1>3

LEMMA FrameTriggered ==
  ASSUME EngineInv, FrameInv, Triggered
  PROVE  FrameInv'
<1>1. /\ waiting_for_trigger' = FALSE /\ trap' = FALSE /\ last_rip' = rip
      /\ UNCHANGED <<scenario, rip, stack, call_return_stack>>
  BY DEF Triggered, threadRest, stackVars
<1>2. rip = scenario.entry /\ call_return_stack = <<>> /\ active_probe = None
  BY DEF Triggered, FrameInv, Faults
<1>3. stack = <<RootReturnsTo>>
  BY <1>2, ScenarioAssumption
  DEF Triggered, FrameInv, EngineInv, FlowInv, ThreadInv, ScenarioAssumption
<1>4. Mirror(call_return_stack)'
  BY <1>1, <1>2, <1>3 DEF Mirror, RootReturnsTo
<1>5. AllStepped' = AllStepped
  BY <1>1 DEF AllStepped
<1>6. AllStepped => backend_mode' = backend_mode /\ active_probe' = None
  BY <1>2 DEF Triggered, AllStepped
<1> QED BY <1>1, <1>4, <1>5, <1>6 DEF FrameInv, Before, Counted, Frames

\* A trace that is stepped all the way never comes to the handlers of the flow.
LEMMA FrameFlow ==
  ASSUME EngineInv, FrameInv,
         \/ FlowOpensWindow \/ Scan \/ Stepped \/ TailHit \/ DestinationHit
         \/ HandoffRequested \/ HotReturnHit
  PROVE  FrameInv'
<1>1. Flow
  BY DEF FlowOpensWindow, Scan, Stepped, TailHit, DestinationHit,
     HandoffRequested, HotReturnHit,
    FlowStep
<1>2. waiting_for_trigger' = FALSE /\ scenario' = scenario
  BY <1>1, InFlow
  DEF EngineInv, FlowInv, FlowOpensWindow, Scan, Stepped, TailHit,
      DestinationHit,
      HandoffRequested, HotReturnHit, flowRest, threadRest
<1>3. ~AllStepped
  BY <1>1 DEF Flow, FrameInv
<1> QED BY <1>2, <1>3 DEF FrameInv, AllStepped

LEMMA FrameCloses ==
  ASSUME EngineInv, FrameInv, WindowCloses
  PROVE  FrameInv'
<1>1. waiting_for_trigger' = FALSE /\ scenario' = scenario
  BY InStep DEF EngineInv, FlowInv, WindowCloses, threadRest
<1>2. ASSUME AllStepped
      PROVE  FALSE
  <2>1. Watching # None /\ Watching.restore
    BY DEF WindowCloses, Closes, Begun
  <2>2. Watching = active_probe \/ Watching = ProbeSession(rip, Depth, FALSE)
    BY DEF Watching
  <2>3. active_probe # None => active_probe.restore = FALSE
    BY <1>2 DEF FrameInv, IsSession
  <2> QED BY <2>1, <2>2, <2>3 DEF ProbeSession, Session
<1> QED BY <1>1, <1>2 DEF FrameInv, AllStepped

LEMMA SessionGoesOn ==
  ASSUME NEW session, IsSession(session), NEW steps
  PROVE  IsSession([session EXCEPT !.pending_entry = 0, !.remaining_steps = steps])
BY DEF IsSession

LEMMA WatchingIsSession ==
  ASSUME active_probe = None \/ IsSession(active_probe)
  PROVE  Watching = None \/ IsSession(Watching)
<1>1. IsSession(ProbeSession(rip, Depth, FALSE))
  BY DEF IsSession, ProbeSession, Session
<1> QED BY <1>1 DEF Watching

LEMMA FrameStepsOn ==
  ASSUME EngineInv, FrameInv, StepsOn
  PROVE  FrameInv'
<1>1. /\ Stepping /\ running /\ ~handed /\ ~waiting_for_trigger /\ trap /\ trap' = FALSE
      /\ call_return_stack' = StepStack /\ last_rip' = rip
      /\ UNCHANGED <<scenario, rip, stack, waiting_for_trigger, backend_mode>>
  BY DEF StepsOn, Stepping, threadRest
<1>2. AllStepped' = AllStepped
  BY <1>1 DEF AllStepped
<1>3. ASSUME AllStepped
      PROVE  Before'
  <2>1. Frames(StepStack)
    BY <1>1, <1>3, StepIsCounted DEF FrameInv, After, EngineInv
  <2>2. Counted'
    BY <1>1, <2>1, HeldFrames DEF StepsOn
  <2> QED BY <1>1, <2>2 DEF Before
<1>4. ASSUME AllStepped
      PROVE  active_probe' = None \/ IsSession(active_probe')
  <2>1. Watching = None \/ IsSession(Watching)
    BY <1>4, WatchingIsSession DEF FrameInv
  <2> DEFINE begun == [Watching EXCEPT !.pending_entry = 0, !.remaining_steps = StepsLeft]
  <2>2. IsSession(Watching) => IsSession(begun)
    BY SessionGoesOn
  <2> HIDE DEF begun
  <2>3. active_probe' = CASE Watching = None \/ Closes -> None
                          [] Begun /\ ~Closes -> begun
                          [] OTHER -> Watching
    BY DEF StepsOn, begun
  <2>4. Watching = None => ~Begun
    BY DEF Begun
  <2> QED BY <2>1, <2>2, <2>3, <2>4, Zenon
<1>5. AllStepped => (active_probe = None \/ IsSession(active_probe))'
  BY <1>4 DEF IsSession
<1>6. AllStepped => backend_mode' = "TrapFlag"
  BY <1>1 DEF FrameInv
<1> QED BY <1>1, <1>2, <1>3, <1>5, <1>6 DEF FrameInv

LEMMA FrameHandsOff ==
  ASSUME EngineInv, FrameInv, StepHandsOff
  PROVE  FrameInv'
<1>1. /\ ~waiting_for_trigger /\ waiting_for_trigger' = waiting_for_trigger /\ handed' = TRUE
      /\ active_probe' = Watching /\ scenario' = scenario /\ backend_mode' = backend_mode
  BY DEF StepHandsOff, Stepping, threadRest
<1>2. AllStepped => Watching = None \/ IsSession(Watching)
  BY WatchingIsSession DEF FrameInv
<1>3. AllStepped => (active_probe = None \/ IsSession(active_probe))'
  BY <1>1, <1>2 DEF IsSession
<1> QED BY <1>1, <1>3 DEF FrameInv, AllStepped

LEMMA FrameStep == EngineInv /\ FrameInv /\ [Next]_vars => FrameInv'
<1> SUFFICES ASSUME EngineInv, FrameInv, [Next]_vars PROVE FrameInv'
  OBVIOUS
<1>1. CASE RunThread
  BY <1>1, FrameThread
<1>2. CASE Triggered
  BY <1>2, FrameTriggered
<1>3. CASE \/ FlowOpensWindow \/ Scan \/ Stepped \/ TailHit \/ DestinationHit
           \/ HandoffRequested \/ HotReturnHit
  BY <1>3, FrameFlow
<1>4. CASE WindowCloses \/ StepsOn \/ StepHandsOff
  BY <1>4, FrameCloses, FrameStepsOn, FrameHandsOff
<1>5. CASE UNCHANGED vars
  <2> USE <1>5 DEF vars, threadVars, stackVars, windowVars
  <2>1. RootReturnsTo' = RootReturnsTo /\ Kind(last_rip)' = Kind(last_rip)
    BY SameCode DEF RootReturnsTo
  <2>2. Before' = Before
    BY <2>1 DEF Before, Counted, Frames, Mirror
  <2>3. FramesAfter(last_rip)' = FramesAfter(last_rip)
    BY <2>1 DEF FramesAfter
  <2>4. After' = After
    BY <2>1, <2>3 DEF After, Made, Frames, Mirror
  <2> QED BY <2>1, <2>2, <2>4 DEF FrameInv, AllStepped, IsSession
<1> QED BY <1>1, <1>2, <1>3, <1>4, <1>5 DEF Next, Handle

\* Where the whole trace is single-stepped the frames the engine counts are the thread's
\* frames above the root, in the same order, whatever the program calls.
THEOREM StepStackIsReal == Spec => [](~scenario.control_flow_only => ShadowStackIsReal)
<1>1. EngineInv /\ FrameInv => (~scenario.control_flow_only => ShadowStackIsReal)
  <2> SUFFICES ASSUME EngineInv, FrameInv, AllStepped, Following, stack # <<>>
               PROVE  /\ Len(call_return_stack) < Len(stack)
                      /\ \A i \in DOMAIN call_return_stack : call_return_stack[i] = stack[i + 1]
    BY DEF AllStepped, ShadowStackIsReal
  <2>1. Mirror(call_return_stack)
    BY DEF FrameInv, Following, Faults, Before, Counted, Frames
  <2>2. call_return_stack \in Seq(Addresses)
    BY DEF EngineInv, CountInv
  <2> QED BY <2>1, <2>2, LenProperties DEF Mirror
<1> QED BY <1>1, EngineInvariance, EngineInit, EngineStep, FrameInit,
        FrameStep, PTL DEF Spec

=============================================================================
