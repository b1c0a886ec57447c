--------------------------- MODULE FlowPathProofs ---------------------------
(***************************************************************************)
(* Where the thread is while the engine follows it by the blocks it runs.  *)
(*                                                                         *)
(* Nothing of this holds of every program: a breakpoint in a block is met  *)
(* by whatever runs there, and not only by the frame it was set for.  It   *)
(* holds where functions are nested, that is where the code has levels, a  *)
(* call leads to a higher one and nothing else leaves its own (Levels),    *)
(* and where what is called but not followed calls nothing that would be   *)
(* (Limits).  For such programs PathInv says of each state of the engine   *)
(* where the thread can be: in the pending block, in a callee and on its   *)
(* way back to it, or at its destination; and with it go the transfers     *)
(* that are reported, the frames that are counted, and the return of the   *)
(* root, with which the trace is to end (EndInv).                          *)
(***************************************************************************)
EXTENDS HardwareFlowProofs

-----------------------------------------------------------------------------
(* Nested programs.                                                        *)

\* Code has levels: a call goes to a higher one, and everything else stays where it is.
\* So no function calls itself, and none jumps into another.
Levels(level) ==
  \A a \in DOMAIN Code :
    /\ Kind(a) = "call" => level[a + 1] = level[a] /\ \A t \in Onward(a) : level[t] > level[a]
    /\ Kind(a) \notin {"call", "return"} => \A t \in Onward(a) : level[t] = level[a]

\* The depths at which code is followed, with all that is reached from it: what an
\* indirect call leads to and is not followed, reaches nothing that is; and the block
\* behind an indirect call can be planned, or it would be stepped, and the callee first.
Limit(a) == IF Recordable(a) THEN DepthLimit(a) ELSE 0
Limits(limit) ==
  \A a \in DOMAIN Code :
    /\ Limit(a) <= limit[a]
    /\ Kind(a) # "return" => \A t \in Onward(a) : limit[t] <= limit[a]
    /\ Kind(a) = "call" => limit[a + 1] <= limit[a]
    /\ Kind(a) = "call" /\ ~Direct(a) =>
         Programmable(a + 1) /\ \A t \in Onward(a) : limit[t] <= Limit(t)

Nested == \E level, limit \in [Addresses -> Nat] : Levels(level) /\ Limits(limit)

-----------------------------------------------------------------------------
(* Where the thread is.                                                    *)

Active == running /\ ~handed /\ ~waiting_for_trigger /\ scenario.control_flow_only

ByLevel(level) ==
  /\ \A j \in 1 .. Len(stack) : level[stack[j]] < level[rip]
  /\ \A i, j \in 1 .. Len(stack) : i < j => level[stack[i]] < level[stack[j]]

\* The counted frames, and others above them.
Base == stack[1] = RootReturnsTo /\ \A i \in 1 .. Depth : stack[i + 1] = call_return_stack[i]

\* The thread is in the pending block.
Block == pending_block \in Addresses /\ ~Truncated(pending_block)
Home == Inside(rip, pending_block) /\ (~uncounted => Counted)

\* It is in a callee, or in what that calls, and will be back at a.
Out(k, a) ==
  k \in 1 .. Len(stack) /\ stack[k] = a /\ (~uncounted => k = Depth + 2 /\ Base)
Unfollowed(k, limit) ==
  limit[rip] <= Depth /\ \A j \in k + 1 .. Len(stack) : limit[stack[j]] <= Depth
Behind(limit) == \E k \in 1 .. Len(stack) : Out(k, pending_block) /\ Unfollowed(k, limit)
Returning ==
  /\ PendingKind = "call" /\ observed_addresses = {Fallthrough}
  /\ \E k \in 1 .. Len(stack) : Out(k, Fallthrough)

\* The return of a thread creation call is awaited, to look at its result.
Outcome ==
  PendingKind = "call" /\ observed_addresses = {Fallthrough} /\ pending_target_override = 0

WatchPlan ==
  /\ Known(PendingTail)
  /\ IF pending_target_override # 0
     THEN /\ PendingKind = "call" /\ pending_target_override = Target(PendingTail)
          /\ observed_addresses = {Fallthrough} /\ pending_resume_entry = Fallthrough
     ELSE /\ pending_resume_entry = 0
          /\ \/ PendingKind = "jcc" /\ observed_addresses = {Target(PendingTail), Fallthrough}
             \/ PendingKind = "jump" /\ observed_addresses = {Target(PendingTail)}
             \/ /\ PendingKind = "call" /\ observed_addresses = {Target(PendingTail)}
                /\ Follows(Target(PendingTail), Depth) /\ Target(PendingTail) # Fallthrough
             \/ Outcome /\ Target(PendingTail) \in scenario.async

\* The transfer that is awaited has been made; and the thread is where it leads.
Crossed == Outcome \/ <<PendingTail, EventTarget>> \in executed
Crossing == Outcome \/ <<PendingTail, pending_target_override>> \in executed
Arrived == rip \in observed_addresses /\ Crossed /\ (~uncounted => Mirror(NewStack))

\* One formula for each state of the engine.
Windowed == ~uncounted => last_rip # 0 /\ IF trap THEN Made(last_rip) ELSE last_rip = rip /\ Counted
Scanning == (~uncounted => Counted) /\ (~trap => Kind(rip) \notin Terminators)
NotFollowed == pending_target_override # 0 => ~Follows(pending_target_override, Depth)
OverTail ==
  /\ Block /\ NotFollowed
  /\ PendingKind # "call" => pending_resume_entry = 0
  /\ ~trap => (~uncounted => Counted)
  /\ trap => /\ ~uncounted => Made(PendingTail)
             /\ PendingKind = "call" =>
                  /\ stack # <<>> /\ stack[Len(stack)] = Fallthrough
                  /\ rip \in Onward(PendingTail)
ToTail(limit) ==
  /\ Block /\ NotFollowed
  /\ PendingKind # "call" => pending_resume_entry = 0
  /\ Home \/ Behind(limit)
ToDestination(limit) ==
  /\ Block /\ WatchPlan
  /\ \/ ~Outcome /\ (Home \/ Behind(limit))
     \/ Arrived
     \/ Returning /\ Crossing

\* A hot loop is left to the frame it is in: the thread is at this frame's level, or
\* above it, or has left the frame.
FrameLevel(level) == IF Len(stack) = Depth + 1 THEN level[rip] ELSE level[stack[Depth + 2]]
HotFrame(level) ==
  /\ hot_bypass.return = FrameReturn /\ hot_bypass.depth = Depth
  /\ observed_addresses \subseteq {hot_bypass.return, hot_bypass.resume} \ {0}
  /\ Depth > 0 => FrameReturn \in observed_addresses
  /\ \/ Depth = 0 /\ stack = <<>> /\ rip = RootReturnsTo
     \/ Depth > 0 /\ Mirror(Below(call_return_stack)) /\ rip = FrameReturn
     \/ /\ Base /\ Len(stack) > Depth
        /\ hot_bypass.resume # 0 => FrameLevel(level) = level[hot_bypass.resume]
ToReturn(level) == ~uncounted => HotFrame(level)

Located(level, limit) ==
  /\ backend_mode = "TrapFlag" => Windowed
  /\ backend_mode = "HardwareFlow" =>
       /\ observation_state = "LinearScan" => Scanning
       /\ observation_state = "WaitingForSingleStep" => OverTail
       /\ observation_state = "WaitingForTail" => ToTail(limit)
       /\ observation_state = "WaitingForDestination" => ToDestination(limit)
       /\ observation_state = "WaitingForHotReturn" => ToReturn(level)

PathInv(level, limit) ==
  /\ ByLevel(level)
  /\ ReportedWasExecuted
  /\ Active => Located(level, limit)

-----------------------------------------------------------------------------
(* Levels.                                                                 *)

LEMMA SameProgram ==
  ASSUME scenario' = scenario
  PROVE  /\ \A a : Onward(a)' = Onward(a) /\ Limit(a)' = Limit(a)
         /\ \A a : Programmable(a)' = Programmable(a)
         /\ \A a, depth : Follows(a, depth)' = Follows(a, depth)
         /\ RootReturnsTo' = RootReturnsTo
<1>1. Code' = Code /\ (\A a : Kind(a)' = Kind(a)) /\ (\A a : Truncated(a)' = Truncated(a) /\ BlockTail(a)' = BlockTail(a))
  BY SameCode
<1>2. \A a : Onward(a)' = Onward(a)
  BY <1>1 DEF Onward
<1>3. \A a : Place(a)' = Place(a)
  BY <1>1 DEF Place
<1>4. \A a : Recordable(a)' = Recordable(a) /\ DepthLimit(a)' = DepthLimit(a)
  BY <1>3 DEF Recordable, DepthLimit, HasRule, AddressKind
<1>5. \A a : Limit(a)' = Limit(a)
  BY <1>4 DEF Limit
<1>6. \A a, depth : Follows(a, depth)' = Follows(a, depth)
  BY <1>4 DEF Follows
<1>7. \A a : Programmable(a)' = Programmable(a)
  BY <1>1 DEF Programmable, Decodes, HasValueProbe
<1>8. RootReturnsTo' = RootReturnsTo
  BY DEF RootReturnsTo
<1> QED BY <1>2, <1>5, <1>6, <1>7, <1>8

LEMMA SameLevels ==
  ASSUME scenario' = scenario, NEW level, NEW limit
  PROVE  Levels(level)' = Levels(level) /\ Limits(limit)' = Limits(limit)
<1>1. /\ Code' = Code
      /\ \A a : Kind(a)' = Kind(a) /\ Direct(a)' = Direct(a)
      /\ \A a : Onward(a)' = Onward(a) /\ Limit(a)' = Limit(a) /\ Programmable(a)' = Programmable(a)
  BY SameCode, SameProgram
<1>2. Levels(level)' = Levels(level)
  BY <1>1 DEF Levels
<1>3. Limits(limit)' = Limits(limit)
  BY <1>1 DEF Limits
<1> QED BY <1>2, <1>3

LEMMA OnwardIsAddress ==
  ASSUME scenario \in Scenarios, NEW a \in DOMAIN Code
  PROVE  a \in Addresses /\ Onward(a) \subseteq Addresses
<1>1. a \in Addresses /\ Code[a].to \subseteq Addresses
  BY ScenarioAssumption DEF ScenarioAssumption, Code, Instructions
<1> QED BY <1>1 DEF Onward, Addresses

\* A block has one level.
LEMMA BlockLevel ==
  ASSUME scenario \in Scenarios, NEW level \in [Addresses -> Nat], Levels(level),
         NEW block \in Nat, ~Truncated(block),
         NEW a \in Addresses, a \in block .. BlockTail(block)
  PROVE  level[a] = level[BlockTail(block)] /\ BlockTail(block) \in Addresses
<1> DEFINE t == BlockTail(block)
           S == {b \in a .. t : level[b] = level[t]}
<1>1. t \in Addresses /\ a <= t /\ \A b \in Ends(block) : t <= b
  <2>1. t \in Ends(block) /\ \A b \in Ends(block) : t <= b
    BY TailEnds
  <2> QED BY <2>1, ScenarioAssumption DEF Ends, ScenarioAssumption, Addresses
<1>2. t <= block + MaxBlock - 1
  BY TailEnds, ScenarioAssumption DEF Ends, ScenarioAssumption
<1>3. PICK m \in S : \A b \in S : m <= b
  <2>1. S \subseteq a .. t /\ S # {} /\ a \in Nat /\ t \in Nat
    BY <1>1 DEF Addresses
  <2> HIDE DEF S
  <2> QED BY <2>1, Least
<1>4. CASE m = a
  BY <1>1, <1>3, <1>4
<1>5. CASE m # a
  <2>1. m - 1 \in a .. t /\ m - 1 \in Addresses /\ m - 1 < t
    BY <1>1, <1>3, <1>5 DEF Addresses
  <2>2. Kind(m - 1) \notin Terminators \cup {"odd"}
    <3>1. m - 1 \in block .. block + MaxBlock - 1
      BY <1>1, <1>2, <2>1, ScenarioAssumption DEF ScenarioAssumption, Addresses
    <3> QED BY <1>1, <2>1, <3>1 DEF Ends, Addresses
  <2>3. m - 1 \in DOMAIN Code /\ Kind(m - 1) = "other"
    BY <2>2, ScenarioAssumption
    DEF Kind, ScenarioAssumption, Code, Instructions, InstructionKinds
  <2>4. (m - 1) + 1 \in Onward(m - 1) /\ (m - 1) + 1 = m
    BY <1>1, <1>3, <2>3 DEF Onward, Addresses
  <2>5. level[m] = level[m - 1]
    BY <2>3, <2>4 DEF Levels
  <2>6. m - 1 \in S /\ m - 1 < m
    BY <1>1, <1>3, <2>1, <2>5 DEF Addresses
  <2> QED BY <1>3, <2>6
<1> QED BY <1>4, <1>5

LEMMA LevelsMove ==
  ASSUME ThreadInv, NEW level \in [Addresses -> Nat], Levels(level), ByLevel(level), Execute
  PROVE  ByLevel(level)'
<1>1. /\ rip \in Addresses /\ rip \in DOMAIN Code /\ rip + 1 \in Addresses
      /\ Onward(rip) \subseteq Addresses
      /\ Len(stack) \in Nat /\ \A j \in 1 .. Len(stack) : stack[j] \in Addresses
  BY Moves, OnwardIsAddress, ElementOfSeq, LenProperties DEF ThreadInv, Addresses
<1>2. /\ \A j \in 1 .. Len(stack) : level[stack[j]] < level[rip]
      /\ \A i, j \in 1 .. Len(stack) : i < j => level[stack[i]] < level[stack[j]]
  BY DEF ByLevel
<1>3. CASE Kind(rip) = "call"
  <2>1. level[rip + 1] = level[rip] /\ level[rip'] > level[rip] /\ rip' \in Addresses
    BY <1>1, <1>3, Moves DEF Levels
  <2>2. /\ Len(stack') = Len(stack) + 1 /\ stack'[Len(stack) + 1] = rip + 1
        /\ \A i \in 1 .. Len(stack) : stack'[i] = stack[i]
    BY <1>3, Moves
  <2>3. \A j \in 1 .. Len(stack') : j \in 1 .. Len(stack) \/ j = Len(stack) + 1
    BY <1>1, <2>2
  <2>4. \A j \in 1 .. Len(stack') : level[stack'[j]] < level[rip']
    BY <1>1, <1>2, <2>1, <2>2, <2>3
  <2>5. \A i, j \in 1 .. Len(stack') : i < j => level[stack'[i]] < level[stack'[j]]
    <3> SUFFICES ASSUME NEW i \in 1 .. Len(stack'), NEW j \in 1 .. Len(stack'), i < j
                 PROVE  level[stack'[i]] < level[stack'[j]]
      OBVIOUS
    <3>1. i \in 1 .. Len(stack)
      BY <1>1, <2>2
    <3>2. CASE j \in 1 .. Len(stack)
      BY <1>2, <2>2, <3>1, <3>2
    <3>3. CASE j = Len(stack) + 1
      BY <1>2, <2>1, <2>2, <3>1, <3>3
    <3> QED BY <2>3, <3>2, <3>3
  <2> QED BY <2>4, <2>5 DEF ByLevel
<1>4. CASE Kind(rip) = "return"
  <2>1. /\ Len(stack) \in Nat \ {0} /\ rip' = stack[Len(stack)] /\ Len(stack') = Len(stack) - 1
        /\ \A i \in 1 .. Len(stack) - 1 : stack'[i] = stack[i]
    BY <1>4, Moves
  <2> QED BY <1>1, <1>2, <2>1 DEF ByLevel
<1>5. CASE Kind(rip) \notin {"call", "return"}
  <2>1. stack' = stack /\ level[rip'] = level[rip]
    BY <1>1, <1>5, Moves DEF Levels
  <2> QED BY <1>2, <2>1 DEF ByLevel
<1> QED BY <1>3, <1>4, <1>5

-----------------------------------------------------------------------------
(* The thread runs.                                                        *)

LEMMA ThreadRuns ==
  ASSUME EngineInv, RunThread
  PROVE  /\ ThreadInv /\ CountInv /\ PlanInv /\ ArmedInv /\ Execute /\ ~Faults
         /\ scenario' = scenario /\ executed \subseteq executed' /\ reported' = reported
         /\ running' = running /\ handed' = handed /\ waiting_for_trigger' = waiting_for_trigger
         /\ backend_mode' = backend_mode /\ observation_state' = observation_state
         /\ pending_block' = pending_block /\ pending_resume_entry' = pending_resume_entry
         /\ pending_target_override' = pending_target_override
         /\ observed_addresses' = observed_addresses
         /\ hot_bypass' = hot_bypass /\ call_return_stack' = call_return_stack
         /\ last_rip' = last_rip /\ uncounted' = uncounted
         /\ Depth' = Depth /\ Depth = Len(call_return_stack) /\ Depth \in Nat
BY LenProperties
DEF EngineInv, FlowInv, RunThread, Execute, reportVars, windowVars, planVars, heatVars, stackVars,
    history, Depth, CountInv

\* The plan is that of the program, which does not change.
LEMMA PlanStays ==
  ASSUME scenario' = scenario, pending_block' = pending_block,
         pending_resume_entry' = pending_resume_entry,
         pending_target_override' = pending_target_override,
         observed_addresses' = observed_addresses, Depth' = Depth
  PROVE  /\ PendingTail' = PendingTail /\ PendingKind' = PendingKind /\ Fallthrough' = Fallthrough
         /\ Block' = Block /\ NotFollowed' = NotFollowed /\ Outcome' = Outcome
         /\ WatchPlan' = WatchPlan
<1> DEFINE t == PendingTail
<1> HIDE DEF t
<1>1. PendingTail' = t
  BY SameCode DEF PendingTail, t
<1>2. /\ Kind(PendingTail)' = Kind(t) /\ (Known(PendingTail)' <=> Known(t))
      /\ Target(PendingTail)' = Target(t)
  BY <1>1, SameCode
<1>3. PendingKind' = PendingKind /\ Fallthrough' = Fallthrough
  BY <1>1, <1>2 DEF PendingKind, Fallthrough, t
<1>4. Block' = Block
  BY SameCode DEF Block
<1>5. \A a, depth : Follows(a, depth)' = Follows(a, depth)
  BY SameProgram
<1>6. NotFollowed' = NotFollowed
  BY <1>5 DEF NotFollowed
<1>7. Outcome' = Outcome
  BY <1>3 DEF Outcome
<1>8. Follows(Target(PendingTail), Depth)' = Follows(Target(t), Depth)
  BY <1>2, <1>5
<1>9. WatchPlan' = WatchPlan
  BY <1>2, <1>3, <1>7, <1>8 DEF WatchPlan, t
<1> QED BY <1>1, <1>3, <1>4, <1>6, <1>7, <1>9 DEF t

\* The tail of a block, and what comes before it.
LEMMA InBlock ==
  ASSUME scenario \in Scenarios, NEW block \in Nat, NEW a \in Addresses, Inside(a, block)
  PROVE  /\ BlockTail(block) \in Addresses /\ a <= BlockTail(block) /\ block <= a
         /\ ~Truncated(a) /\ BlockTail(a) = BlockTail(block)
         /\ a # BlockTail(block) =>
              /\ a \in DOMAIN Code /\ Kind(a) = "other" /\ Onward(a) = {a + 1}
              /\ Inside(a + 1, block)
<1> DEFINE t == BlockTail(block)
<1>1. ~Truncated(block) /\ a \in Nat \ {0} /\ block <= a /\ a <= t /\ t \in Nat
  <2>1. ~Truncated(block)
    BY DEF Inside
  <2>2. t \in Nat
    BY <2>1, TailEnds, ScenarioAssumption DEF Ends, ScenarioAssumption
  <2> QED BY <2>1, <2>2 DEF Inside, Addresses
<1>2. /\ t \in block .. block + MaxBlock - 1 /\ Kind(t) \in Terminators \cup {"odd"}
      /\ \A b \in Ends(block) : t <= b
  BY <1>1, TailEnds DEF Ends
<1>3. t \in Ends(a) /\ ~Truncated(a)
  BY <1>1, <1>2, ScenarioAssumption DEF Ends, ScenarioAssumption, Truncated
<1>4. BlockTail(a) = t
  <2>1. BlockTail(a) \in Ends(a) /\ BlockTail(a) <= t
    BY <1>1, <1>3, TailEnds
  <2>2. BlockTail(a) \in Ends(block)
    BY <1>1, <1>2, <2>1, ScenarioAssumption DEF Ends, ScenarioAssumption
  <2>3. BlockTail(a) \in Nat
    BY <1>1, <2>1, ScenarioAssumption DEF Ends, ScenarioAssumption
  <2> QED BY <1>1, <1>2, <2>1, <2>2, <2>3
<1>5. ASSUME a # t
      PROVE  /\ a \in DOMAIN Code /\ Kind(a) = "other" /\ Onward(a) = {a + 1}
             /\ Inside(a + 1, block)
  <2>1. a \notin Ends(block)
    BY <1>1, <1>2, <1>5
  <2>2. Kind(a) \notin Terminators \cup {"odd"}
    BY <1>1, <1>2, <1>5, <2>1, ScenarioAssumption DEF Ends, ScenarioAssumption
  <2>3. a \in DOMAIN Code /\ Kind(a) = "other"
    BY <2>2, ScenarioAssumption DEF Kind, ScenarioAssumption, Code, Instructions, InstructionKinds
  <2>4. Code[a].to = {}
    BY <2>3, ScenarioAssumption DEF Kind, ScenarioAssumption, Code
  <2>5. Inside(a + 1, block)
    BY <1>1, <1>5 DEF Inside
  <2> QED BY <2>3, <2>4, <2>5 DEF Onward
<1> QED BY <1>1, <1>3, <1>4, <1>5 DEF Addresses

LEMMA HomeMoves ==
  ASSUME EngineInv, RunThread, pending_block \in Nat, Home, rip # PendingTail
  PROVE  Home'
<1>1. ThreadInv /\ Execute /\ scenario' = scenario /\ pending_block' = pending_block
  BY ThreadRuns
<1>2. Kind(rip) = "other" /\ Onward(rip) = {rip + 1} /\ Inside(rip + 1, pending_block)
  BY <1>1, InBlock DEF Home, ThreadInv, PendingTail
<1>3. stack' = stack /\ rip' = rip + 1
  BY <1>1, <1>2, Moves
<1>4. Inside(rip, pending_block)'
  BY <1>1, <1>2, <1>3, SameCode DEF Inside
<1>5. (~uncounted => Counted)'
  <2>1. ~uncounted => Mirror(call_return_stack)
    BY <1>1, <1>2, StillMirrors DEF Home
  <2>2. RootReturnsTo' = RootReturnsTo /\ uncounted' = uncounted /\ call_return_stack' = call_return_stack
    BY <1>1, ThreadRuns, SameProgram
  <2> QED BY <1>3, <2>1, <2>2 DEF Counted, Frames, Mirror
<1> QED BY <1>4, <1>5 DEF Home

\* A callee that is waited for goes on, or returns.
LEMMA OutMoves ==
  ASSUME EngineInv, RunThread, NEW k, NEW a, Out(k, a)
  PROVE  IF Kind(rip) = "return" /\ k = Len(stack)
         THEN rip' = a /\ (~uncounted => Mirror(call_return_stack))'
         ELSE k \in 1 .. Len(stack') /\ Out(k, a)'
<1>1. /\ ThreadInv /\ Execute /\ uncounted' = uncounted
      /\ call_return_stack' = call_return_stack /\ Depth' = Depth /\ RootReturnsTo' = RootReturnsTo
      /\ Depth \in Nat /\ Len(stack) \in Nat /\ Depth = Len(call_return_stack)
  BY ThreadRuns, SameProgram, LenProperties DEF ThreadInv
<1>2. /\ k \in 1 .. Len(stack) /\ stack[k] = a
      /\ ~uncounted => /\ k = Depth + 2 /\ stack[1] = RootReturnsTo
                       /\ \A i \in 1 .. Depth : stack[i + 1] = call_return_stack[i]
  BY DEF Out, Base
<1>3. CASE Kind(rip) = "return" /\ k = Len(stack)
  <2>1. /\ rip' = a /\ Len(stack') = Len(stack) - 1
        /\ \A i \in 1 .. Len(stack) - 1 : stack'[i] = stack[i]
    BY <1>1, <1>2, <1>3, Moves
  <2>2. ~uncounted => Mirror(call_return_stack)'
    BY <1>1, <1>2, <1>3, <2>1 DEF Mirror
  <2> QED BY <1>1, <1>3, <2>1, <2>2
<1>4. CASE ~(Kind(rip) = "return" /\ k = Len(stack))
  <2>1. k \in 1 .. Len(stack') /\ \A i \in 1 .. k : stack'[i] = stack[i]
    BY <1>1, <1>2, <1>4, Moves
  <2>2. ASSUME ~uncounted
        PROVE  /\ k = Depth + 2 /\ stack'[1] = RootReturnsTo
               /\ \A i \in 1 .. Depth : stack'[i + 1] = call_return_stack[i]
    <3>1. 1 \in 1 .. k /\ \A i \in 1 .. Depth : i + 1 \in 1 .. k
      BY <1>1, <1>2, <2>2
    <3> QED BY <1>2, <2>1, <2>2, <3>1
  <2>3. Out(k, a)'
    BY <1>1, <1>2, <2>1, <2>2 DEF Out, Base
  <2> QED BY <1>4, <2>1, <2>3
<1> QED BY <1>3, <1>4

LEMMA UnfollowedMoves ==
  ASSUME EngineInv, RunThread, NEW limit \in [Addresses -> Nat], Limits(limit),
         NEW k \in 1 .. Len(stack), Unfollowed(k, limit),
         ~(Kind(rip) = "return" /\ k = Len(stack))
  PROVE  Unfollowed(k, limit)'
<1>1. /\ ThreadInv /\ Execute /\ Depth' = Depth /\ Depth \in Nat /\ Len(stack) \in Nat
      /\ rip \in DOMAIN Code /\ rip \in Addresses /\ rip + 1 \in Addresses
      /\ Onward(rip) \subseteq Addresses /\ \A j \in 1 .. Len(stack) : stack[j] \in Addresses
  BY ThreadRuns, Moves, OnwardIsAddress, ElementOfSeq, LenProperties DEF ThreadInv, Addresses
<1>2. limit[rip] <= Depth /\ \A j \in k + 1 .. Len(stack) : limit[stack[j]] <= Depth
  BY DEF Unfollowed
<1>3. CASE Kind(rip) = "return"
  <2>1. /\ Len(stack) \in Nat \ {0} /\ rip' = stack[Len(stack)] /\ Len(stack') = Len(stack) - 1
        /\ \A i \in 1 .. Len(stack) - 1 : stack'[i] = stack[i]
    BY <1>1, <1>3, Moves
  <2> QED BY <1>1, <1>2, <1>3, <2>1 DEF Unfollowed
<1>4. CASE Kind(rip) = "call"
  <2>1. /\ Len(stack') = Len(stack) + 1 /\ stack'[Len(stack) + 1] = rip + 1 /\ rip' \in Onward(rip)
        /\ \A i \in 1 .. Len(stack) : stack'[i] = stack[i]
    BY <1>1, <1>4, Moves
  <2>2. limit[rip'] <= limit[rip] /\ limit[rip + 1] <= limit[rip]
    BY <1>1, <1>4, <2>1 DEF Limits
  <2>3. limit[rip'] <= Depth /\ limit[rip + 1] <= Depth
    BY <1>1, <1>2, <2>1, <2>2
  <2>4. ASSUME NEW j \in k + 1 .. Len(stack') PROVE limit[stack'[j]] <= Depth
    <3>1. j = Len(stack) + 1 \/ (j \in k + 1 .. Len(stack) /\ j \in 1 .. Len(stack))
      BY <1>1, <2>1
    <3> QED BY <1>2, <2>1, <2>3, <3>1
  <2> QED BY <1>1, <2>3, <2>4 DEF Unfollowed
<1>5. CASE Kind(rip) \notin {"call", "return"}
  <2>1. stack' = stack /\ rip' \in Onward(rip)
    BY <1>1, <1>5, Moves
  <2>2. limit[rip'] <= limit[rip]
    BY <1>1, <1>5, <2>1 DEF Limits
  <2> QED BY <1>1, <1>2, <2>1, <2>2 DEF Unfollowed
<1> QED BY <1>3, <1>4, <1>5

\* Behind, and at home again when the callee has returned.
LEMMA BehindMoves ==
  ASSUME EngineInv, RunThread, NEW limit \in [Addresses -> Nat], Limits(limit),
         Block, Behind(limit)
  PROVE  (Home \/ Behind(limit))'
<1>1. PICK k \in 1 .. Len(stack) : Out(k, pending_block) /\ Unfollowed(k, limit)
  BY DEF Behind
<1>2. scenario' = scenario /\ pending_block' = pending_block
  BY ThreadRuns
<1>3. PICK a : a = pending_block
  OBVIOUS
<1>4. IF Kind(rip) = "return" /\ k = Len(stack)
      THEN rip' = a /\ (~uncounted => Mirror(call_return_stack))'
      ELSE k \in 1 .. Len(stack') /\ Out(k, a)'
  BY <1>1, <1>3, OutMoves
<1>5. CASE Kind(rip) = "return" /\ k = Len(stack)
  <2>1. Inside(a, a)
    BY <1>3, TailEnds, ScenarioAssumption DEF Block, Inside, Ends, ScenarioAssumption, Addresses
  <2>2. Inside(rip, pending_block)'
    BY <1>2, <1>3, <1>4, <1>5, <2>1, SameCode DEF Inside
  <2> QED BY <1>4, <1>5, <2>2 DEF Home, Counted, Frames
<1>6. CASE ~(Kind(rip) = "return" /\ k = Len(stack))
  <2>1. Out(k, pending_block)' /\ Unfollowed(k, limit)' /\ k \in 1 .. Len(stack')
    BY <1>1, <1>2, <1>3, <1>4, <1>6, UnfollowedMoves DEF Out, Base
  <2> QED BY <2>1 DEF Behind
<1> QED BY <1>5, <1>6

\* The frames of an arrival.
ArrivalStack ==
  /\ PendingKind = "call" /\ rip = Fallthrough => NewStack = call_return_stack
  /\ PendingKind = "call" /\ Follows(EventTarget, Depth) /\ rip # Fallthrough =>
       NewStack = Append(call_return_stack, Fallthrough)
  /\ PendingKind \notin {"call", "return"} => NewStack = call_return_stack

LEMMA StackOfArrival == ArrivalStack
BY DEF ArrivalStack, NewStack, NextEntry

LEMMA StackOfNext == ArrivalStack'
BY StackOfArrival, PTL

\* A call that was awaited behind its callee.
LEMMA ReturningMoves ==
  ASSUME EngineInv, RunThread, WatchPlan, Returning, Crossing
  PROVE  Arrived' \/ (Returning /\ Crossing)'
<1>1. PICK k \in 1 .. Len(stack) : Out(k, Fallthrough)
  BY DEF Returning
<1>2. /\ scenario' = scenario /\ pending_block' = pending_block
      /\ pending_resume_entry' = pending_resume_entry
      /\ pending_target_override' = pending_target_override
      /\ observed_addresses' = observed_addresses /\ Depth' = Depth
      /\ executed \subseteq executed' /\ call_return_stack' = call_return_stack
  BY ThreadRuns
<1>3. /\ PendingTail' = PendingTail /\ PendingKind' = PendingKind /\ Fallthrough' = Fallthrough
      /\ Outcome' = Outcome
  BY <1>2, PlanStays
<1>4. PICK a : a = Fallthrough
  OBVIOUS
<1>5. IF Kind(rip) = "return" /\ k = Len(stack)
      THEN rip' = a /\ (~uncounted => Mirror(call_return_stack))'
      ELSE k \in 1 .. Len(stack') /\ Out(k, a)'
  BY <1>1, <1>4, OutMoves
<1>6. Crossing'
  BY <1>2, <1>3 DEF Crossing
<1>7. CASE Kind(rip) = "return" /\ k = Len(stack)
  <2>1. PendingKind' = "call" /\ rip' = Fallthrough' /\ rip' \in observed_addresses'
    BY <1>2, <1>3, <1>4, <1>5, <1>7 DEF Returning
  <2>2. NewStack' = call_return_stack'
    BY <2>1, StackOfNext DEF ArrivalStack
  <2>3. Outcome \/ pending_target_override # 0
    BY DEF Returning, Outcome
  <2>4. Crossed'
    BY <1>2, <1>3, <1>6, <2>3 DEF Crossing, Crossed, EventTarget
  <2> QED BY <1>5, <1>7, <2>1, <2>2, <2>4 DEF Arrived, Mirror
<1>8. CASE ~(Kind(rip) = "return" /\ k = Len(stack))
  <2>1. Out(k, Fallthrough)' /\ k \in 1 .. Len(stack')
    BY <1>3, <1>4, <1>5, <1>8 DEF Out, Base
  <2> QED BY <1>2, <1>3, <1>6, <2>1 DEF Returning
<1> QED BY <1>7, <1>8

\* The last instruction of the pending block is run.
LEMMA TailMoves ==
  ASSUME EngineInv, RunThread, Block, WatchPlan, ~Outcome, Home, rip = PendingTail
  PROVE  Arrived' \/ (Returning /\ Crossing)'
<1>1. /\ scenario' = scenario /\ pending_block' = pending_block
      /\ pending_resume_entry' = pending_resume_entry
      /\ pending_target_override' = pending_target_override
      /\ observed_addresses' = observed_addresses /\ Depth' = Depth
      /\ executed \subseteq executed' /\ call_return_stack' = call_return_stack
      /\ uncounted' = uncounted /\ ThreadInv /\ CountInv /\ Execute
      /\ Depth = Len(call_return_stack) /\ Depth \in Nat
  BY ThreadRuns
<1>2. /\ PendingTail' = PendingTail /\ PendingKind' = PendingKind /\ Fallthrough' = Fallthrough
      /\ Outcome' = Outcome
  BY <1>1, PlanStays
<1>3. /\ PendingKind = Kind(rip) /\ Kind(rip) \in {"jcc", "jump", "call"} /\ Direct(rip)
      /\ Fallthrough = rip + 1
  BY DEF WatchPlan, Known, PendingKind, Fallthrough
<1>4. /\ rip \in DOMAIN Code /\ rip' \in Onward(rip) /\ <<rip, rip'>> \in executed'
      /\ Code[rip].to = {Target(rip)} /\ Target(rip) # 0
  <2>1. rip \in DOMAIN Code /\ rip' \in Onward(rip)
    BY <1>1, <1>3, Moves
  <2>2. <<rip, rip'>> \in executed'
    BY <1>1, <1>3 DEF Execute, Terminators
  <2> QED BY <1>1, <1>3, <2>1, <2>2, TargetOfDirect DEF ThreadInv, Addresses
<1>5. ~uncounted => Mirror(call_return_stack)
  BY <1>1, <1>3, StillMirrors DEF Home
<1>6. RootReturnsTo' = RootReturnsTo /\ \A a, depth : Follows(a, depth)' = Follows(a, depth)
  BY <1>1, SameProgram
<1>7. CASE PendingKind \in {"jcc", "jump"}
  <2>1. pending_target_override = 0 /\ rip' \in observed_addresses
    BY <1>3, <1>4, <1>7 DEF WatchPlan, Outcome, Onward
  <2>2. EventTarget' = rip'
    BY <1>1, <2>1 DEF EventTarget
  <2>3. NewStack' = call_return_stack'
    BY <1>2, <1>7, StackOfNext DEF ArrivalStack
  <2>4. stack' = stack
    BY <1>1, <1>3, <1>7, Moves
  <2>5. (~uncounted => Mirror(NewStack))'
    BY <1>1, <1>5, <1>6, <2>3, <2>4 DEF Mirror
  <2> QED BY <1>1, <1>2, <1>4, <2>1, <2>2, <2>5 DEF Arrived, Crossed
<1>8. CASE PendingKind = "call" /\ pending_target_override = 0
  <2>1. /\ observed_addresses = {Target(rip)} /\ Follows(Target(rip), Depth)
        /\ Target(rip) # Fallthrough
    BY <1>8 DEF WatchPlan
  <2>2. rip' = Target(rip)
    BY <1>3, <1>4, <1>8 DEF Onward
  <2>3. EventTarget' = rip'
    BY <1>1, <1>8 DEF EventTarget
  <2>4. Follows(EventTarget, Depth)'
    BY <1>1, <1>6, <2>1, <2>2, <2>3
  <2>5. NewStack' = Append(call_return_stack, rip + 1)
    BY <1>1, <1>2, <1>3, <1>8, <2>1, <2>2, <2>4, StackOfNext DEF ArrivalStack
  <2>6. stack' = Append(stack, rip + 1)
    BY <1>1, <1>3, <1>8, Moves
  <2>7. (~uncounted => Mirror(NewStack))'
    BY <1>1, <1>5, <1>6, <2>5, <2>6, CallMirrors DEF Mirror
  <2> QED BY <1>1, <1>2, <1>4, <2>1, <2>2, <2>3, <2>7 DEF Arrived, Crossed
<1>9. CASE PendingKind = "call" /\ pending_target_override # 0
  <2>1. pending_target_override = Target(rip) /\ observed_addresses = {Fallthrough}
    BY <1>9 DEF WatchPlan
  <2>2. rip' = Target(rip)
    BY <1>3, <1>4, <1>9 DEF Onward
  <2>3. Crossing'
    BY <1>1, <1>2, <1>4, <2>1, <2>2 DEF Crossing
  <2>4. /\ Len(stack') = Len(stack) + 1 /\ stack'[Len(stack) + 1] = Fallthrough
        /\ \A i \in 1 .. Len(stack) : stack'[i] = stack[i]
        /\ Len(stack) \in Nat
    BY <1>1, <1>3, <1>9, Moves, LenProperties DEF ThreadInv
  <2>5. PICK k : k = Len(stack) + 1
    OBVIOUS
  <2>6. ASSUME ~uncounted
        PROVE  /\ k = Depth + 2 /\ stack'[1] = RootReturnsTo
               /\ \A i \in 1 .. Depth : stack'[i + 1] = call_return_stack[i]
    <3>1. /\ Len(stack) = Depth + 1 /\ stack[1] = RootReturnsTo
          /\ \A i \in 1 .. Depth : stack[i + 1] = call_return_stack[i]
      BY <1>1, <1>5, <2>6 DEF Mirror
    <3>2. 1 \in 1 .. Len(stack) /\ \A i \in 1 .. Depth : i + 1 \in 1 .. Len(stack)
      BY <1>1, <3>1
    <3> QED BY <1>1, <2>4, <2>5, <3>1, <3>2
  <2>7. Out(k, Fallthrough)' /\ k \in 1 .. Len(stack')
    BY <1>1, <1>2, <1>6, <2>4, <2>5, <2>6 DEF Out, Base
  <2> QED BY <1>1, <1>2, <1>9, <2>1, <2>3, <2>7 DEF Returning
<1> QED BY <1>3, <1>7, <1>8, <1>9

\* While the thread runs to the pending block's last instruction, or to its destinations.
LEMMA ToTailMoves ==
  ASSUME EngineInv, RunThread, NEW limit \in [Addresses -> Nat], Limits(limit),
         observation_state = "WaitingForTail", backend_mode = "HardwareFlow",
         ToTail(limit)
  PROVE  ToTail(limit)'
<1>1. /\ scenario' = scenario /\ pending_block' = pending_block
      /\ pending_resume_entry' = pending_resume_entry
      /\ pending_target_override' = pending_target_override
      /\ observed_addresses' = observed_addresses /\ Depth' = Depth /\ ~Faults
      /\ PlanInv /\ ArmedInv
  BY ThreadRuns
<1>2. Block' = Block /\ NotFollowed' = NotFollowed /\ PendingKind' = PendingKind
  BY <1>1, PlanStays
<1>3. rip # PendingTail
  BY <1>1 DEF PlanInv, ArmedInv, Awaiting, IsStepped, Faults
<1>4. (Home \/ Behind(limit))'
  BY <1>3, HomeMoves, BehindMoves DEF ToTail, Block, Addresses
<1> QED BY <1>1, <1>2, <1>4 DEF ToTail

LEMMA ToDestinationMoves ==
  ASSUME EngineInv, RunThread, NEW limit \in [Addresses -> Nat], Limits(limit),
         observation_state = "WaitingForDestination", backend_mode = "HardwareFlow",
         ToDestination(limit)
  PROVE  ToDestination(limit)'
<1>1. /\ scenario' = scenario /\ pending_block' = pending_block
      /\ pending_resume_entry' = pending_resume_entry
      /\ pending_target_override' = pending_target_override
      /\ observed_addresses' = observed_addresses /\ Depth' = Depth /\ ~Faults
      /\ PlanInv /\ ArmedInv
  BY ThreadRuns
<1>2. Block' = Block /\ WatchPlan' = WatchPlan /\ Outcome' = Outcome
  BY <1>1, PlanStays
<1>3. ~Arrived
  BY <1>1 DEF PlanInv, ArmedInv, Awaiting, IsStepped, Faults, Arrived
<1>4. ASSUME ~Outcome, Home
      PROVE  ToDestination(limit)'
  <2>1. CASE rip # PendingTail
    BY <1>2, <1>4, <2>1, HomeMoves DEF ToDestination, Block, Addresses
  <2>2. CASE rip = PendingTail
    BY <1>2, <1>4, <2>2, TailMoves DEF ToDestination
  <2> QED BY <2>1, <2>2
<1>5. ASSUME ~Outcome, Behind(limit)
      PROVE  ToDestination(limit)'
  BY <1>2, <1>5, BehindMoves DEF ToDestination
<1>6. ASSUME Returning, Crossing
      PROVE  ToDestination(limit)'
  BY <1>2, <1>6, ReturningMoves DEF ToDestination
<1> QED BY <1>3, <1>4, <1>5, <1>6 DEF ToDestination

\* While it is stepped.
LEMMA ScanMoves ==
  ASSUME EngineInv, RunThread, tf = TRUE, Scanning
  PROVE  Scanning'
<1>1. /\ ThreadInv /\ Execute /\ scenario' = scenario /\ uncounted' = uncounted /\ ~trap
      /\ call_return_stack' = call_return_stack /\ RootReturnsTo' = RootReturnsTo
  BY ThreadRuns, SameProgram DEF Faults
<1>2. Kind(rip) \notin Terminators
  BY <1>1 DEF Scanning
<1>3. stack' = stack /\ trap' = TRUE /\ Kind(rip) # "exit"
  BY <1>1, <1>2, Moves DEF Terminators
<1>4. ~uncounted => Mirror(call_return_stack)
  BY <1>1, <1>3, StillMirrors DEF Scanning
<1> QED BY <1>1, <1>3, <1>4 DEF Scanning, Counted, Frames, Mirror

LEMMA WindowMoves ==
  ASSUME EngineInv, RunThread, tf = TRUE, Windowed
  PROVE  Windowed'
<1>1. /\ ThreadInv /\ CountInv /\ Execute /\ scenario' = scenario /\ uncounted' = uncounted /\ ~trap
      /\ call_return_stack' = call_return_stack /\ last_rip' = last_rip
  BY ThreadRuns DEF Faults
<1>2. trap' = TRUE
  BY <1>1, Moves
<1>3. ASSUME ~uncounted
      PROVE  last_rip' # 0 /\ Made(last_rip)'
  <2>1. last_rip # 0 /\ last_rip = rip /\ Counted
    BY <1>1, <1>3 DEF Windowed
  <2>2. PICK a : a = rip
    OBVIOUS
  <2>3. Made(a)'
    BY <1>1, <2>1, <2>2, StepIsMade
  <2> QED BY <1>1, <2>1, <2>2, <2>3
<1> QED BY <1>1, <1>2, <1>3 DEF Windowed

LEMMA OverTailMoves ==
  ASSUME EngineInv, RunThread, observation_state = "WaitingForSingleStep", tf = TRUE, OverTail
  PROVE  OverTail'
<1>1. /\ scenario' = scenario /\ pending_block' = pending_block
      /\ pending_resume_entry' = pending_resume_entry
      /\ pending_target_override' = pending_target_override
      /\ observed_addresses' = observed_addresses /\ Depth' = Depth /\ ~trap
      /\ ThreadInv /\ CountInv /\ Execute /\ uncounted' = uncounted /\ PlanInv
      /\ call_return_stack' = call_return_stack
  BY ThreadRuns DEF Faults
<1>2. /\ PendingTail' = PendingTail /\ PendingKind' = PendingKind /\ Fallthrough' = Fallthrough
      /\ Block' = Block /\ NotFollowed' = NotFollowed
  BY <1>1, PlanStays
<1>3. rip = PendingTail /\ trap' = TRUE
  BY <1>1, Moves DEF PlanInv
<1>4. ASSUME ~uncounted
      PROVE  Made(PendingTail)'
  <2>1. Counted
    BY <1>1, <1>4 DEF OverTail
  <2>2. PICK a : a = rip
    OBVIOUS
  <2>3. Made(a)'
    BY <1>1, <2>1, <2>2, StepIsMade
  <2> QED BY <1>2, <1>3, <2>2, <2>3
<1>5. PendingKind = "call" =>
        stack' # <<>> /\ stack'[Len(stack')] = Fallthrough /\ rip' \in Onward(PendingTail)
  <2>1. ASSUME PendingKind = "call"
        PROVE  stack' # <<>> /\ stack'[Len(stack')] = Fallthrough /\ rip' \in Onward(PendingTail)
    <3>1. /\ rip' \in Onward(rip) /\ Len(stack') = Len(stack) + 1
          /\ stack'[Len(stack) + 1] = rip + 1 /\ Len(stack) \in Nat
      BY <1>1, <1>3, <2>1, Moves, LenProperties DEF PendingKind, ThreadInv
    <3> QED BY <1>3, <3>1, EmptySeq DEF Fallthrough
  <2> QED BY <2>1
<1>6. Onward(PendingTail)' = Onward(PendingTail)
  BY <1>1, <1>2, SameProgram
<1> QED BY <1>1, <1>2, <1>3, <1>4, <1>5, <1>6 DEF OverTail

\* While it is out of a hot loop.
LEMMA HotMoves ==
  ASSUME EngineInv, RunThread, NEW level \in [Addresses -> Nat], Levels(level),
         observation_state = "WaitingForHotReturn", backend_mode = "HardwareFlow",
         ToReturn(level)
  PROVE  ToReturn(level)'
<1> SUFFICES ASSUME ~uncounted PROVE HotFrame(level)'
  BY ThreadRuns DEF ToReturn
<1>1. /\ ThreadInv /\ CountInv /\ Execute /\ scenario' = scenario /\ hot_bypass' = hot_bypass
      /\ observed_addresses' = observed_addresses /\ Depth' = Depth
      /\ call_return_stack' = call_return_stack /\ RootReturnsTo' = RootReturnsTo
      /\ Depth = Len(call_return_stack) /\ Depth \in Nat /\ Len(stack) \in Nat
      /\ rip \notin observed_addresses
  BY ThreadRuns, SameProgram, LenProperties DEF PlanInv, ArmedInv, Awaiting, IsStepped, Faults, ThreadInv
<1>2. HotFrame(level)
  BY DEF ToReturn
<1>3. FrameReturn' = FrameReturn
  BY <1>1 DEF FrameReturn, Top
<1>4. /\ rip \in DOMAIN Code /\ rip \in Addresses /\ Kind(rip) # "exit"
  BY <1>1, Moves DEF ThreadInv
<1>5. /\ Base /\ Len(stack) > Depth
      /\ hot_bypass.resume # 0 => FrameLevel(level) = level[hot_bypass.resume]
  BY <1>1, <1>2, <1>4, RootEnds DEF HotFrame, ThreadInv
<1> SUFFICES \/ Depth = 0 /\ stack' = <<>> /\ rip' = RootReturnsTo
             \/ Depth > 0 /\ Mirror(Below(call_return_stack))' /\ rip' = FrameReturn
             \/ /\ Base' /\ Len(stack') > Depth
                /\ hot_bypass.resume # 0 => FrameLevel(level)' = level[hot_bypass.resume]
  <2>1. Below(call_return_stack)' = Below(call_return_stack)
    BY <1>1 DEF Below
  <2> QED BY <1>1, <1>2, <1>3, <2>1 DEF HotFrame
<1>6. stack[1] = RootReturnsTo /\ \A i \in 1 .. Depth : stack[i + 1] = call_return_stack[i]
  BY <1>5 DEF Base
<1>7. CASE Kind(rip) = "call"
  <2>1. /\ Len(stack') = Len(stack) + 1 /\ stack'[Len(stack) + 1] = rip + 1
        /\ \A i \in 1 .. Len(stack) : stack'[i] = stack[i]
    BY <1>1, <1>7, Moves
  <2>2. level[rip + 1] = level[rip]
    BY <1>4, <1>7 DEF Levels
  <2>3. 1 \in 1 .. Len(stack) /\ \A i \in 1 .. Depth : i + 1 \in 1 .. Len(stack)
    BY <1>1, <1>5
  <2>4. Base' /\ Len(stack') > Depth
    BY <1>1, <1>5, <1>6, <2>1, <2>3 DEF Base
  <2>5. FrameLevel(level)' = FrameLevel(level)
    <3>1. CASE Len(stack) = Depth + 1
      BY <1>1, <2>1, <2>2, <3>1 DEF FrameLevel
    <3>2. CASE Len(stack) # Depth + 1
      <4>1. Depth + 2 \in 1 .. Len(stack) /\ Len(stack') # Depth + 1
        BY <1>1, <1>5, <2>1, <3>2
      <4> QED BY <1>1, <2>1, <3>2, <4>1 DEF FrameLevel
    <3> QED BY <3>1, <3>2
  <2> QED BY <1>5, <2>4, <2>5
<1>8. CASE Kind(rip) = "return"
  <2>1. /\ Len(stack) \in Nat \ {0} /\ rip' = stack[Len(stack)] /\ Len(stack') = Len(stack) - 1
        /\ \A i \in 1 .. Len(stack) - 1 : stack'[i] = stack[i]
        /\ stack # <<>> /\ stack' = Below(stack)
    BY <1>1, <1>8, Moves
  <2>2. CASE Len(stack) = Depth + 1 /\ Depth = 0
    <3>1. Len(stack') = 0 /\ stack' \in Seq(Addresses)
      BY <1>1, <2>1, <2>2, BelowIsSeq DEF ThreadInv
    <3>2. stack' = <<>> /\ rip' = RootReturnsTo
      BY <1>6, <2>1, <2>2, <3>1, EmptySeq
    <3> QED BY <2>2, <3>2
  <2>3. CASE Len(stack) = Depth + 1 /\ Depth # 0
    <3>1. rip' = call_return_stack[Depth] /\ FrameReturn = call_return_stack[Depth]
      BY <1>1, <1>6, <2>1, <2>3 DEF FrameReturn, Top
    <3>2. call_return_stack # <<>> /\ call_return_stack \in Seq(Addresses)
      BY <1>1, <2>3, EmptySeq DEF CountInv
    <3>3. /\ Len(Below(call_return_stack)) = Depth - 1
          /\ \A i \in 1 .. Depth - 1 : Below(call_return_stack)[i] = call_return_stack[i]
      BY <1>1, <3>2, BelowIsSeq, BelowKeeps
    <3>4. Below(call_return_stack)' = Below(call_return_stack)
      BY <1>1 DEF Below
    <3>5. 1 \in 1 .. Len(stack) - 1 /\ \A i \in 1 .. Depth - 1 : i + 1 \in 1 .. Len(stack) - 1
      BY <1>1, <2>3
    <3>6. Mirror(Below(call_return_stack))'
      BY <1>1, <1>6, <2>1, <2>3, <3>3, <3>4, <3>5 DEF Mirror
    <3> QED BY <1>1, <2>3, <3>1, <3>6
  <2>4. CASE Len(stack) > Depth + 1
    <3>1. 1 \in 1 .. Len(stack) - 1 /\ \A i \in 1 .. Depth : i + 1 \in 1 .. Len(stack) - 1
      BY <1>1, <2>4
    <3>2. Base' /\ Len(stack') > Depth
      BY <1>1, <1>6, <2>1, <2>4, <3>1 DEF Base
    <3>3. FrameLevel(level)' = FrameLevel(level)
      <4>1. CASE Len(stack) = Depth + 2
        BY <1>1, <2>1, <4>1 DEF FrameLevel
      <4>2. CASE Len(stack) # Depth + 2
        <5>1. Depth + 2 \in 1 .. Len(stack) - 1 /\ Len(stack') # Depth + 1
          BY <1>1, <2>1, <2>4, <4>2
        <5> QED BY <1>1, <2>1, <2>4, <5>1 DEF FrameLevel
      <4> QED BY <4>1, <4>2
    <3> QED BY <1>5, <3>2, <3>3
  <2> QED BY <1>1, <1>5, <2>2, <2>3, <2>4
<1>9. CASE Kind(rip) \notin {"call", "return"}
  <2>1. stack' = stack /\ rip' \in Onward(rip)
    BY <1>1, <1>9, Moves
  <2>2. level[rip'] = level[rip]
    BY <1>4, <1>9, <2>1 DEF Levels
  <2>3. FrameLevel(level)' = FrameLevel(level)
    BY <1>1, <2>1, <2>2 DEF FrameLevel
  <2>4. Base'
    BY <1>1, <1>6, <2>1 DEF Base
  <2> QED BY <1>5, <2>1, <2>3, <2>4
<1> QED BY <1>7, <1>8, <1>9

\* What has been made stays made.
LEMMA ReportsStay ==
  ASSUME ReportedWasExecuted, scenario' = scenario, reported' \subseteq reported,
         executed \subseteq executed'
  PROVE  ReportedWasExecuted'
BY SameCode DEF ReportedWasExecuted

LEMMA PathThread ==
  ASSUME EngineInv, RunThread, NEW level \in [Addresses -> Nat], NEW limit \in [Addresses -> Nat],
         Levels(level), Limits(limit), PathInv(level, limit)
  PROVE  PathInv(level, limit)'
<1>1. ByLevel(level)' /\ ReportedWasExecuted'
  BY ThreadRuns, LevelsMove, ReportsStay DEF PathInv
<1>2. Active' = Active /\ backend_mode' = backend_mode /\ observation_state' = observation_state
  BY ThreadRuns DEF Active
<1>3. ASSUME Active
      PROVE  Located(level, limit)'
  <2>1. Located(level, limit) /\ Awaiting
    BY <1>3, ThreadRuns DEF PathInv, Active, ArmedInv
  <2>2. CASE backend_mode = "TrapFlag"
    BY <1>2, <2>1, <2>2, WindowMoves DEF Located, Awaiting, IsStepped
  <2>3. CASE backend_mode = "HardwareFlow"
    <3>1. observation_state = "LinearScan" => Scanning'
      BY <2>1, <2>3, ScanMoves DEF Located, Awaiting, IsStepped
    <3>2. observation_state = "WaitingForSingleStep" => OverTail'
      BY <2>1, <2>3, OverTailMoves DEF Located, Awaiting, IsStepped
    <3>3. observation_state = "WaitingForTail" => ToTail(limit)'
      BY <2>1, <2>3, ToTailMoves DEF Located
    <3>4. observation_state = "WaitingForDestination" => ToDestination(limit)'
      BY <2>1, <2>3, ToDestinationMoves DEF Located
    <3>5. observation_state = "WaitingForHotReturn" => ToReturn(level)'
      BY <2>1, <2>3, HotMoves DEF Located
    <3> QED BY <1>2, <2>3, <3>1, <3>2, <3>3, <3>4, <3>5 DEF Located
  <2>4. CASE backend_mode \notin {"TrapFlag", "HardwareFlow"}
    BY <1>2, <2>4 DEF Located
  <2> QED BY <2>2, <2>3, <2>4
<1> QED BY <1>1, <1>2, <1>3 DEF PathInv

-----------------------------------------------------------------------------
(* The handlers.                                                           *)

LEMMA PlanInDetail ==
  ASSUME scenario \in Scenarios, NEW level \in [Addresses -> Nat], Levels(level),
         NEW t \in Nat, Kind(t) \in Terminators, NEW depth
  PROVE  LET plan == Plan(t, depth)
         IN  /\ plan.state \in {"WaitingForTail", "WaitingForDestination"}
             /\ plan.state = "WaitingForTail" =>
                  /\ Kind(t) # "call" => plan.resume = 0
                  /\ plan.override # 0 => ~Follows(plan.override, depth)
             /\ plan.state = "WaitingForDestination" =>
                  /\ Known(t)
                  /\ IF plan.override # 0
                     THEN /\ Kind(t) = "call" /\ plan.override = Target(t)
                          /\ plan.watch = {t + 1} /\ plan.resume = t + 1
                     ELSE /\ plan.resume = 0
                          /\ \/ Kind(t) = "jcc" /\ plan.watch = {Target(t), t + 1}
                             \/ Kind(t) = "jump" /\ plan.watch = {Target(t)}
                             \/ /\ Kind(t) = "call" /\ plan.watch = {Target(t)}
                                /\ Follows(Target(t), depth) /\ Target(t) # t + 1
<1>1. t \in DOMAIN Code
  BY DEF Kind, Terminators
<1>2. Kind(t) = "jcc" => Direct(t)
  BY <1>1, ScenarioAssumption DEF ScenarioAssumption, Kind, Direct, Code
<1>3. Direct(t) => Target(t) # 0 /\ Code[t].to = {Target(t)} /\ Target(t) \in Addresses
  BY <1>1, TargetOfDirect DEF Addresses
<1>4. Kind(t) = "call" /\ Direct(t) => Target(t) # t + 1
  BY <1>1, <1>3, OnwardIsAddress DEF Levels, Onward, Addresses
<1>5. CASE Kind(t) = "jcc"
  BY <1>2, <1>3, <1>5 DEF Plan, Watch, Known
<1>6. CASE Kind(t) = "call" /\ Direct(t)
  BY <1>3, <1>4, <1>6 DEF Plan, Watch, WatchTail, Known
<1>7. CASE Kind(t) = "jump" /\ Direct(t)
  BY <1>3, <1>7 DEF Plan, Watch, Known
<1>8. CASE Kind(t) = "call" /\ ~Direct(t)
  BY <1>8 DEF Plan, Watch, WatchTail
<1>9. CASE ~(Kind(t) \in {"jcc", "call"} \/ (Kind(t) = "jump" /\ Direct(t)))
  BY <1>9 DEF Plan, Watch, WatchTail
<1> QED BY <1>5, <1>6, <1>7, <1>8, <1>9

\* What a plan leaves behind.
LEMMA PlanLeads ==
  ASSUME scenario \in Scenarios, scenario' = scenario,
         NEW level \in [Addresses -> Nat], Levels(level),
         NEW entry \in Addresses, ~Truncated(entry), BlockTail(entry) \in Nat,
         Kind(BlockTail(entry)) \in Terminators,
         NEW depth, depth = Depth', FollowPlan(entry, Plan(BlockTail(entry), depth))
  PROVE  /\ Block' /\ pending_block' = entry
         /\ observation_state' \in {"WaitingForTail", "WaitingForDestination"}
         /\ observation_state' = "WaitingForTail" =>
              NotFollowed' /\ (PendingKind # "call" => pending_resume_entry = 0)'
         /\ observation_state' = "WaitingForDestination" => WatchPlan' /\ ~Outcome'
<1> DEFINE t == BlockTail(entry)
           plan == Plan(t, depth)
<1> HIDE DEF t, plan
<1>1. t \in Nat /\ Kind(t) \in Terminators
  BY DEF t
<1>2. /\ pending_block' = entry /\ observation_state' = plan.state
      /\ pending_resume_entry' = plan.resume /\ pending_target_override' = plan.override
      /\ observed_addresses' = plan.watch
  BY DEF FollowPlan, t, plan
<1>3. PendingTail' = t
  BY <1>2, SameCode DEF PendingTail, t
<1>4. /\ Kind(PendingTail)' = Kind(t) /\ (Known(PendingTail)' <=> Known(t))
      /\ Target(PendingTail)' = Target(t)
  BY <1>3, SameCode
<1>5. PendingKind' = Kind(t) /\ Fallthrough' = t + 1
  BY <1>3, <1>4 DEF PendingKind, Fallthrough
<1>6. Block'
  BY <1>2, SameCode DEF Block
<1>7. \A a : Follows(a, Depth)' = Follows(a, depth)
  BY SameProgram
<1>8. /\ plan.state \in {"WaitingForTail", "WaitingForDestination"}
      /\ plan.state = "WaitingForTail" =>
                  /\ Kind(t) # "call" => plan.resume = 0
                  /\ plan.override # 0 => ~Follows(plan.override, depth)
      /\ plan.state = "WaitingForDestination" =>
                  /\ Known(t)
                  /\ IF plan.override # 0
                     THEN /\ Kind(t) = "call" /\ plan.override = Target(t)
                          /\ plan.watch = {t + 1} /\ plan.resume = t + 1
                     ELSE /\ plan.resume = 0
                          /\ \/ Kind(t) = "jcc" /\ plan.watch = {Target(t), t + 1}
                             \/ Kind(t) = "jump" /\ plan.watch = {Target(t)}
                             \/ /\ Kind(t) = "call" /\ plan.watch = {Target(t)}
                                /\ Follows(Target(t), depth) /\ Target(t) # t + 1
  BY <1>1, PlanInDetail DEF plan
<1>9. plan.state = "WaitingForTail" =>
        NotFollowed' /\ (PendingKind # "call" => pending_resume_entry = 0)'
  BY <1>2, <1>5, <1>7, <1>8 DEF NotFollowed
<1>10. plan.state = "WaitingForDestination" => ~Outcome'
  BY <1>2, <1>5, <1>8 DEF Outcome
<1>11. Follows(Target(PendingTail), Depth)' = Follows(Target(t), depth)
  BY <1>4, <1>7
<1>12. plan.state = "WaitingForDestination" => WatchPlan'
  BY <1>2, <1>4, <1>5, <1>8, <1>11 DEF WatchPlan
<1> QED BY <1>2, <1>6, <1>8, <1>9, <1>10, <1>12

LEMMA TerminatorIsPlanned ==
  ASSUME scenario \in Scenarios, NEW a \in Nat, Kind(a) \in Terminators
  PROVE  Programmable(a)
<1>1. ~Truncated(a) /\ BlockTail(a) = a /\ DOMAIN scenario.probes \subseteq Nat
  BY TerminatorIsTail, ScenarioAssumption DEF ScenarioAssumption, Addresses
<1> QED BY <1>1 DEF Programmable, Decodes, HasValueProbe, Terminators

\* Where a handler watches from the thread's own place, it is at home there.
LEMMA FollowLocates ==
  ASSUME EngineInv, UNCHANGED threadRest, NEW level \in [Addresses -> Nat], Levels(level),
         NEW limit, ~Truncated(rip), Kind(BlockTail(rip)) \in Terminators,
         NEW depth, depth = Depth', FollowPlan(rip, Plan(BlockTail(rip), depth)),
         backend_mode' = "HardwareFlow", (~uncounted => Counted)'
  PROVE  Located(level, limit)'
<1>1. scenario \in Scenarios /\ scenario' = scenario /\ rip \in Addresses /\ rip' = rip
  BY DEF EngineInv, FlowInv, ThreadInv, threadRest
<1>2. BlockTail(rip) \in Nat /\ rip <= BlockTail(rip)
  BY <1>1, TailEnds, ScenarioAssumption DEF Ends, ScenarioAssumption, Addresses
<1>3. Inside(rip, rip)
  BY <1>1, <1>2 DEF Inside, Addresses
<1>4. PICK e : e = rip
  OBVIOUS
<1>5. /\ Block' /\ pending_block' = e
      /\ observation_state' \in {"WaitingForTail", "WaitingForDestination"}
      /\ observation_state' = "WaitingForTail" =>
              NotFollowed' /\ (PendingKind # "call" => pending_resume_entry = 0)'
      /\ observation_state' = "WaitingForDestination" => WatchPlan' /\ ~Outcome'
  BY <1>1, <1>2, <1>4, PlanLeads
<1>6. Home'
  <2>1. Inside(rip, pending_block)'
    BY <1>1, <1>3, <1>4, <1>5, SameCode DEF Inside
  <2> QED BY <2>1 DEF Home
<1> QED BY <1>5, <1>6 DEF Located, ToTail, ToDestination

LEMMA ProgramLocates ==
  ASSUME EngineInv, UNCHANGED threadRest, NEW level \in [Addresses -> Nat], Levels(level),
         NEW limit, NEW depth, depth = Depth', Program(rip, depth),
         backend_mode' = "HardwareFlow", trap' = FALSE, (~uncounted => Counted)'
  PROVE  Located(level, limit)'
<1>1. scenario \in Scenarios /\ scenario' = scenario /\ rip \in Nat /\ rip' = rip
  BY DEF EngineInv, FlowInv, ThreadInv, threadRest, Addresses
<1>2. CASE Programmable(rip)
  BY <1>1, <1>2, TailIsTerminator, FollowLocates DEF Program, Programmable
<1>3. CASE ~Programmable(rip)
  <2>1. Kind(rip) \notin Terminators /\ Kind(rip)' = Kind(rip)
    BY <1>1, <1>3, TerminatorIsPlanned, SameCode
  <2>2. observation_state' = "LinearScan"
    BY <1>3 DEF Program, LinearScan
  <2>3. Scanning'
    BY <2>1 DEF Scanning
  <2> QED BY <2>2, <2>3 DEF Located
<1> QED BY <1>2, <1>3

\* What the levels and the limits say of a thread that has met a breakpoint.
LEMMA LimitIsNat ==
  ASSUME scenario \in Scenarios
  PROVE  \A a : DepthLimit(a) \in Nat /\ (Recordable(a) => a \in DOMAIN Code)
<1> SUFFICES ASSUME NEW a
             PROVE  DepthLimit(a) \in Nat /\ (Recordable(a) => a \in DOMAIN Code)
  OBVIOUS
<1>1. DepthLimit(a) \in Nat
  BY ScenarioAssumption DEF ScenarioAssumption, DepthLimit, HasRule
<1>2. a \notin DOMAIN Code => AddressKind(a) = "Unknown"
  BY DEF AddressKind, Place
<1> QED BY <1>1, <1>2 DEF Recordable

LEMMA TailLevel ==
  ASSUME EngineInv, NEW level \in [Addresses -> Nat], Levels(level), Block
  PROVE  level[PendingTail] = level[pending_block] /\ PendingTail \in Addresses
<1>1. BlockTail(pending_block) \in Nat /\ pending_block <= BlockTail(pending_block)
  BY TailEnds, ScenarioAssumption DEF Block, Ends, ScenarioAssumption, Addresses
<1>2. pending_block \in pending_block .. BlockTail(pending_block) /\ pending_block \in Nat
  BY <1>1 DEF Block, Addresses
<1> QED BY <1>2, BlockLevel DEF Block, PendingTail, EngineInv, FlowInv, ThreadInv

LEMMA BehindIsDeeper ==
  ASSUME EngineInv, NEW level \in [Addresses -> Nat], ByLevel(level),
         NEW limit, Behind(limit)
  PROVE  level[pending_block] < level[rip] /\ limit[rip] <= Depth
BY DEF Behind, Out, Unfollowed, ByLevel

LEMMA AtTail ==
  ASSUME EngineInv, NEW level \in [Addresses -> Nat], Levels(level), ByLevel(level),
         NEW limit, ToTail(limit), rip = PendingTail
  PROVE  Home
<1>1. level[rip] = level[pending_block] /\ rip \in Addresses /\ pending_block \in Addresses
  BY TailLevel DEF ToTail, Block
<1>2. level[rip] \in Nat /\ level[pending_block] \in Nat
  BY <1>1
<1>3. ~Behind(limit)
  BY <1>1, <1>2, BehindIsDeeper
<1> QED BY <1>3 DEF ToTail

LEMMA AtDestination ==
  ASSUME EngineInv, NEW level \in [Addresses -> Nat], NEW limit \in [Addresses -> Nat],
         Levels(level), Limits(limit), ByLevel(level),
         ToDestination(limit), rip \in observed_addresses
  PROVE  Arrived \/ (Home /\ PendingKind \in {"jcc", "jump"})
<1> DEFINE t == PendingTail
<1>1. /\ scenario \in Scenarios /\ rip \in Addresses /\ pending_block \in Addresses
      /\ level[t] = level[pending_block] /\ t \in Addresses
      /\ Depth \in Nat
  BY TailLevel, LenProperties
  DEF EngineInv, FlowInv, ThreadInv, ToDestination, Block, CountInv, Depth
<1>2. /\ PendingKind = Kind(t) /\ Kind(t) \in {"jcc", "jump", "call"} /\ Direct(t)
      /\ Fallthrough = t + 1 /\ t + 1 \in Addresses
  BY <1>1 DEF ToDestination, WatchPlan, Known, PendingKind, Fallthrough, Addresses
<1>3. t \in DOMAIN Code /\ Code[t].to = {Target(t)} /\ Target(t) \in Addresses
  BY <1>1, <1>2, TargetOfDirect DEF Kind
<1>4. /\ Kind(t) = "call" => level[Target(t)] > level[t] /\ level[t + 1] = level[t]
      /\ Kind(t) \in {"jcc", "jump"} => level[Target(t)] = level[t]
      /\ Kind(t) = "jcc" => level[t + 1] = level[t]
  BY <1>3 DEF Levels, Onward
<1>5. /\ level[t] \in Nat /\ level[rip] \in Nat /\ level[t + 1] \in Nat /\ level[Target(t)] \in Nat
      /\ level[pending_block] \in Nat /\ limit[rip] \in Nat
  BY <1>1, <1>2, <1>3
<1> HIDE DEF t
<1>6. ASSUME ~Outcome, Home
      PROVE  PendingKind \in {"jcc", "jump"}
  <2>1. rip <= t /\ rip \in pending_block .. t /\ t = BlockTail(pending_block) /\ pending_block \in Nat
        /\ ~Truncated(pending_block)
    BY <1>1, <1>6, InBlock DEF Home, Inside, PendingTail, t, Addresses
  <2>2. level[rip] = level[t]
    BY <1>1, <2>1, BlockLevel
  <2>3. ASSUME PendingKind = "call"
        PROVE  FALSE
    <3>1. rip = t + 1 \/ rip = Target(t)
      BY <1>2, <1>6, <2>3 DEF ToDestination, WatchPlan, t
    <3> QED BY <1>1, <1>2, <1>4, <1>5, <2>1, <2>2, <2>3, <3>1 DEF Addresses
  <2> QED BY <1>2, <2>3
<1>7. ASSUME ~Outcome, Behind(limit)
      PROVE  FALSE
  <2>1. level[pending_block] < level[rip] /\ limit[rip] <= Depth
    BY <1>7, BehindIsDeeper
  <2>2. \/ Kind(t) = "jcc" /\ rip \in {Target(t), t + 1}
        \/ Kind(t) = "jump" /\ rip = Target(t)
        \/ Kind(t) = "call" /\ rip = t + 1
        \/ Kind(t) = "call" /\ rip = Target(t) /\ Follows(rip, Depth)
    BY <1>2, <1>7 DEF ToDestination, WatchPlan, t
  <2>3. CASE Kind(t) = "call" /\ rip = Target(t) /\ Follows(rip, Depth)
    <3>1. Recordable(rip) /\ Depth < DepthLimit(rip) /\ rip \in DOMAIN Code
      BY <1>1, <2>3, LimitIsNat DEF Follows
    <3>2. DepthLimit(rip) <= limit[rip] /\ DepthLimit(rip) \in Nat
      BY <1>1, <3>1, LimitIsNat DEF Limits, Limit
    <3> QED BY <1>1, <1>5, <2>1, <3>1, <3>2
  <2> QED BY <1>1, <1>4, <1>5, <2>1, <2>2, <2>3
<1>8. ASSUME Returning
      PROVE  FALSE
  <2>1. rip = t + 1 /\ \E k \in 1 .. Len(stack) : stack[k] = t + 1
    BY <1>2, <1>8 DEF Returning, Out
  <2>2. level[t + 1] < level[rip]
    BY <2>1 DEF ByLevel
  <2> QED BY <1>5, <2>1, <2>2
<1> QED BY <1>6, <1>7, <1>8 DEF ToDestination

\* A handler leaves the thread where it is.
LEMMA HeldPath ==
  ASSUME NEW level, NEW limit, PathInv(level, limit), UNCHANGED threadRest,
         ReportedWasExecuted', Active' => Located(level, limit)'
  PROVE  PathInv(level, limit)'
BY DEF PathInv, ByLevel, threadRest

LEMMA FlowIsActive ==
  ASSUME EngineInv, FrameInv, Flow
  PROVE  /\ Active /\ backend_mode = "HardwareFlow" /\ trap' = FALSE
         /\ running = TRUE /\ handed = FALSE /\ waiting_for_trigger = FALSE
         /\ scenario \in Scenarios /\ rip \in Addresses /\ rip # 0
         /\ IF observation_state \in {"LinearScan", "WaitingForSingleStep"}
            THEN trap = TRUE
            ELSE /\ IsWatched /\ rip \in observed_addresses
                 /\ observation_state = "WaitingForTail" => rip = PendingTail
BY InFlow
DEF EngineInv, FlowInv, ThreadInv, PlanInv, ArmedInv, FrameInv, AllStepped, Active, Flow, Awaiting, IsStepped,
    Faults, Addresses

LEMMA PathOpens ==
  ASSUME EngineInv, FrameInv, NEW level \in [Addresses -> Nat], NEW limit \in [Addresses -> Nat],
         Levels(level), Limits(limit), PathInv(level, limit), FlowOpensWindow
  PROVE  PathInv(level, limit)'
<1>1. /\ Flow /\ UNCHANGED threadRest /\ reported' = reported /\ last_rip' = rip
      /\ call_return_stack' = call_return_stack /\ backend_mode' = "TrapFlag"
      /\ uncounted' = (uncounted \/ observation_state = "WaitingForHotReturn"
                     \/ (pending_block # 0 /\ PendingKind \in {"call", "return"}))
  BY DEF FlowOpensWindow, OpenWindow, stackVars, reportVars
<1>2. Active /\ trap' = FALSE /\ Located(level, limit) /\ ByLevel(level) /\ rip # 0
  BY <1>1, FlowIsActive DEF PathInv
<1>3. ASSUME ~uncounted'
      PROVE  Counted
  <2>1. /\ ~uncounted /\ observation_state # "WaitingForHotReturn"
        /\ Block => PendingKind \notin {"call", "return"}
    BY <1>1, <1>3 DEF Block, Addresses
  <2>2. CASE observation_state = "LinearScan"
    BY <1>1, <1>2, <2>1, <2>2, FlowIsActive DEF Located, Scanning
  <2>3. CASE observation_state = "WaitingForSingleStep"
    <3>1. OverTail /\ trap = TRUE
      BY <1>1, <1>2, <2>3, FlowIsActive DEF Located
    <3>2. Frames(FramesAfter(PendingTail)) /\ Kind(PendingTail) \notin {"call", "return"}
      BY <2>1, <3>1 DEF OverTail, Made, PendingKind
    <3> QED BY <3>2 DEF FramesAfter, Counted
  <2>4. CASE observation_state = "WaitingForTail"
    BY <1>1, <1>2, <2>1, <2>4, FlowIsActive, AtTail DEF Located, Home
  <2>5. CASE observation_state = "WaitingForDestination"
    <3>1. ToDestination(limit) /\ rip \in observed_addresses
      BY <1>1, <1>2, <2>5, FlowIsActive DEF Located
    <3>2. Arrived \/ (Home /\ PendingKind \in {"jcc", "jump"})
      BY <1>2, <3>1, AtDestination
    <3>3. PendingKind \notin {"call", "return"}
      BY <2>1, <3>1 DEF ToDestination
    <3>4. NewStack = call_return_stack
      BY <3>3, StackOfArrival DEF ArrivalStack
    <3> QED BY <2>1, <3>2, <3>4 DEF Arrived, Home, Counted, Frames
  <2> QED BY <1>1, <2>1, <2>2, <2>3, <2>4, <2>5, FlowIsActive DEF IsWatched
<1>4. Windowed'
  BY <1>1, <1>2, <1>3, HeldFrames DEF Windowed, Counted, threadRest
<1>5. Located(level, limit)'
  BY <1>1, <1>4 DEF Located
<1>6. ReportedWasExecuted'
  BY <1>1, ReportsStay DEF PathInv, threadRest
<1> QED BY <1>1, <1>5, <1>6, HeldPath

LEMMA PathScans ==
  ASSUME EngineInv, FrameInv, NEW level \in [Addresses -> Nat], NEW limit \in [Addresses -> Nat],
         Levels(level), Limits(limit), PathInv(level, limit), Scan
  PROVE  PathInv(level, limit)'
<1>1. /\ Flow /\ UNCHANGED threadRest /\ reported' = reported /\ uncounted' = uncounted
      /\ call_return_stack' = call_return_stack /\ backend_mode' = backend_mode /\ trap' = FALSE
      /\ observation_state = "LinearScan" /\ scenario' = scenario /\ rip' = rip
  BY DEF Scan, FlowStep, Flow, stackVars, windowVars, history, threadRest
<1>2. /\ Located(level, limit) /\ backend_mode = "HardwareFlow" /\ trap = TRUE
      /\ rip \in Addresses
  BY <1>1, FlowIsActive DEF PathInv
<1>3. (~uncounted => Counted)'
  BY <1>1, <1>2, HeldFrames DEF Located, Scanning, Counted
<1> SUFFICES ASSUME Active' PROVE Located(level, limit)'
  <2>1. ReportedWasExecuted'
    BY <1>1, ReportsStay DEF PathInv, threadRest
  <2> QED BY <1>1, <2>1, HeldPath
<1>4. ~StopTrace
  BY DEF StopTrace, Active
<1>5. CASE Kind(rip) \in Terminators /\ FollowPlan(rip, Plan(rip, Depth))
  <2>1. ~Truncated(rip) /\ BlockTail(rip) = rip
    BY <1>2, <1>5, TerminatorIsTail DEF Addresses
  <2>2. PICK d : d = Depth
    OBVIOUS
  <2>3. d = Depth'
    BY <1>1, <2>2 DEF Depth
  <2> QED BY <1>1, <1>2, <1>3, <1>5, <2>1, <2>2, <2>3, FollowLocates
<1>6. CASE Kind(rip) \notin Terminators /\ UNCHANGED planVars
  <2>1. Scanning' /\ observation_state' = "LinearScan"
    BY <1>1, <1>3, <1>6, SameCode DEF Scanning, planVars
  <2> QED BY <1>1, <1>2, <2>1 DEF Located
<1> QED BY <1>4, <1>5, <1>6 DEF Scan

LEMMA PathTails ==
  ASSUME EngineInv, FrameInv, NEW level \in [Addresses -> Nat], NEW limit \in [Addresses -> Nat],
         Levels(level), Limits(limit), PathInv(level, limit), TailHit
  PROVE  PathInv(level, limit)'
<1>1. /\ Flow /\ UNCHANGED threadRest /\ reported' = reported /\ uncounted' = uncounted
      /\ call_return_stack' = call_return_stack /\ backend_mode' = backend_mode /\ trap' = FALSE
      /\ observation_state = "WaitingForTail" /\ observation_state' = "WaitingForSingleStep"
      /\ pending_block' = pending_block /\ pending_target_override' = pending_target_override
      /\ pending_resume_entry' = IF PendingKind = "call" THEN pending_resume_entry ELSE 0
      /\ scenario' = scenario
  BY DEF TailHit, FlowStep, Flow, stackVars, windowVars, history, flowRest, threadRest
<1>2. /\ ToTail(limit) /\ rip = PendingTail /\ backend_mode = "HardwareFlow" /\ ByLevel(level)
  BY <1>1, FlowIsActive DEF PathInv, Located
<1>3. Home
  BY <1>2, AtTail
<1>4. (~uncounted => Counted)'
  BY <1>1, <1>3, HeldFrames DEF Home, Counted
<1>5. PendingTail' = PendingTail
  BY <1>1, SameCode DEF PendingTail
<1>6. PendingKind' = PendingKind /\ Block' = Block
  BY <1>1, <1>5, SameCode DEF PendingKind, Block
<1>7. NotFollowed' = NotFollowed
  BY <1>1, SameProgram DEF NotFollowed, Depth
<1>8. OverTail'
  BY <1>1, <1>2, <1>4, <1>6, <1>7 DEF OverTail, ToTail
<1>9. Located(level, limit)'
  BY <1>1, <1>2, <1>8 DEF Located
<1>10. ReportedWasExecuted'
  BY <1>1, ReportsStay DEF PathInv, threadRest
<1> QED BY <1>1, <1>9, <1>10, HeldPath

\* A transfer that is reported has been made.
LEMMA ReportIsMade ==
  ASSUME ReportedWasExecuted, UNCHANGED threadRest, reported' \subseteq reported \cup {Edge},
         \/ Edge \in executed
         \/ ~Truncated(EventTarget) /\ BlockTail(EventTarget) = PendingTail
         \/ PendingKind = "call" /\ Target(PendingTail) \in scenario.async
            /\ EventTarget = Fallthrough
  PROVE  ReportedWasExecuted'
<1>1. scenario' = scenario /\ executed' = executed
  BY DEF threadRest
<1>2. \/ Edge \in executed
      \/ ~Truncated(Edge[2]) /\ BlockTail(Edge[2]) = Edge[1]
      \/ Kind(Edge[1]) = "call" /\ Target(Edge[1]) \in scenario.async /\ Edge[2] = Edge[1] + 1
  BY DEF Edge, PendingKind, Fallthrough
<1> HIDE DEF Edge
<1> QED BY <1>1, <1>2, SameCode DEF ReportedWasExecuted

\* Where the last instruction has been stepped.
LEMMA SteppedFacts ==
  ASSUME EngineInv, FrameInv, NEW level \in [Addresses -> Nat], NEW limit \in [Addresses -> Nat],
         Levels(level), PathInv(level, limit), Stepped
  PROVE  /\ Flow /\ UNCHANGED threadRest /\ scenario' = scenario /\ rip' = rip /\ uncounted' = uncounted
         /\ backend_mode' = "HardwareFlow" /\ trap' = FALSE /\ scenario \in Scenarios
         /\ OverTail /\ PlanInv /\ TailPlan /\ rip \in Addresses /\ Edge \in executed
         /\ ~uncounted => Made(PendingTail)
         /\ EventTarget = rip
         /\ call_return_stack' = NewStack /\ reported' \subseteq reported \cup {Edge}
         /\ PendingKind = "call" =>
              /\ level[rip] > level[PendingTail] /\ level[Fallthrough] = level[PendingTail]
              /\ rip # Fallthrough /\ PendingTail \in DOMAIN Code /\ rip \in Onward(PendingTail)
<1>1. /\ Flow /\ UNCHANGED threadRest /\ scenario' = scenario /\ rip' = rip /\ uncounted' = uncounted
      /\ backend_mode' = backend_mode /\ trap' = FALSE
      /\ observation_state = "WaitingForSingleStep" /\ call_return_stack' = NewStack
      /\ reported' \subseteq reported \cup {Edge}
  BY DEF Stepped, FlowStep, Flow, windowVars, history, threadRest, Transition
<1>2. /\ OverTail /\ PlanInv /\ TailPlan /\ rip \in Addresses /\ backend_mode = "HardwareFlow" /\ trap = TRUE
      /\ scenario \in Scenarios /\ <<PendingTail, rip>> \in executed
  BY <1>1, FlowIsActive DEF PathInv, Located, EngineInv, FlowInv, PlanInv
<1>3. ASSUME PendingKind = "call"
      PROVE  /\ level[rip] > level[PendingTail] /\ level[Fallthrough] = level[PendingTail]
             /\ rip # Fallthrough /\ PendingTail \in DOMAIN Code /\ rip \in Onward(PendingTail)
  <2>1. rip \in Onward(PendingTail) /\ PendingTail \in DOMAIN Code /\ Kind(PendingTail) = "call"
    BY <1>2, <1>3 DEF OverTail, PendingKind, Kind
  <2>2. level[rip] > level[PendingTail] /\ level[Fallthrough] = level[PendingTail]
    BY <2>1 DEF Levels, Fallthrough
  <2>3. level[rip] \in Nat /\ level[PendingTail] \in Nat
    BY <1>2, <2>1, OnwardIsAddress
  <2> QED BY <2>1, <2>2, <2>3
<1>4. EventTarget = rip
  <2>1. CASE pending_target_override = 0
    BY <2>1 DEF EventTarget
  <2>2. CASE pending_target_override # 0
    <3>1. PendingKind = "call" /\ Direct(PendingTail) /\ pending_target_override = Target(PendingTail)
      BY <1>2, <2>2 DEF TailPlan, Known, PendingKind
    <3>2. rip \in Code[PendingTail].to /\ Code[PendingTail].to = {Target(PendingTail)}
      BY <1>2, <1>3, <3>1, TargetOfDirect DEF Onward, PendingKind
    <3> QED BY <2>2, <3>1, <3>2 DEF EventTarget
  <2> QED BY <2>1, <2>2
<1> QED BY <1>1, <1>2, <1>3, <1>4 DEF OverTail, Edge

\* The callee that has just been entered will be back behind the call.
LEMMA JustCalled ==
  ASSUME EngineInv, OverTail, trap = TRUE, PendingKind = "call"
  PROVE  /\ Len(stack) \in 1 .. Len(stack) /\ Out(Len(stack), Fallthrough)
         /\ ~uncounted /\ Made(PendingTail) => Mirror(Append(call_return_stack, Fallthrough))
<1>1. /\ stack # <<>> /\ stack[Len(stack)] = Fallthrough /\ (~uncounted => Made(PendingTail))
      /\ stack \in Seq(Addresses) /\ call_return_stack \in Seq(Addresses)
      /\ PendingTail + 1 = Fallthrough /\ Kind(PendingTail) = "call"
  BY DEF OverTail, EngineInv, FlowInv, ThreadInv, CountInv, Fallthrough, PendingKind
<1>2. Len(stack) \in Nat \ {0} /\ Depth \in Nat /\ Depth = Len(call_return_stack)
  BY <1>1, EmptySeq, LenProperties DEF Depth
<1>3. Made(PendingTail) => Mirror(Append(call_return_stack, Fallthrough))
  BY <1>1 DEF Made, FramesAfter, Frames
<1>4. ASSUME ~uncounted
      PROVE  Len(stack) = Depth + 2 /\ Base
  <2>1. Fallthrough \in Addresses
    BY <1>1, <1>2, ElementOfSeq
  <2>2. /\ Len(Append(call_return_stack, Fallthrough)) = Depth + 1
        /\ \A i \in 1 .. Depth : Append(call_return_stack, Fallthrough)[i] = call_return_stack[i]
    BY <1>1, <1>2, <2>1, AppendProperties
  <2>3. /\ Len(stack) = Depth + 2 /\ stack[1] = RootReturnsTo
        /\ \A i \in 1 .. Depth + 1 : stack[i + 1] = Append(call_return_stack, Fallthrough)[i]
    BY <1>1, <1>2, <1>3, <1>4, <2>2 DEF Mirror
  <2>4. \A i \in 1 .. Depth : stack[i + 1] = call_return_stack[i]
    BY <1>2, <2>2, <2>3
  <2> QED BY <2>3, <2>4 DEF Base
<1> QED BY <1>1, <1>2, <1>3, <1>4 DEF Out

\* What does not change with the call that is awaited behind its callee.
LEMMA OutStays ==
  ASSUME UNCHANGED threadRest, call_return_stack' = call_return_stack, uncounted' = uncounted,
         NEW a, Len(stack) \in 1 .. Len(stack), Out(Len(stack), a)
  PROVE  \E k \in 1 .. Len(stack') : k = Len(stack) /\ Out(k, a)'
<1>1. Len(stack') = Len(stack) /\ stack' = stack
  BY DEF threadRest
<1>2. PICK k : k = Len(stack)
  OBVIOUS
<1>3. Out(k, a)'
  BY <1>1, <1>2 DEF Out, Base, Depth, RootReturnsTo, threadRest
<1> QED BY <1>1, <1>2, <1>3

LEMMA SteppedOutcome ==
  ASSUME EngineInv, FrameInv, NEW level \in [Addresses -> Nat], NEW limit \in [Addresses -> Nat],
         Levels(level), Limits(limit), PathInv(level, limit), Stepped,
         pending_resume_entry # 0 /\ pending_target_override # 0, PendingKind = "call",
         observation_state' = "WaitingForDestination",
         observed_addresses' = {pending_resume_entry},
         pending_resume_entry' = 0 /\ pending_target_override' = 0,
         pending_block' = pending_block
  PROVE  Located(level, limit)'
<1>1. /\ Flow /\ UNCHANGED threadRest /\ scenario' = scenario /\ uncounted' = uncounted
      /\ backend_mode' = "HardwareFlow" /\ OverTail /\ TailPlan /\ call_return_stack' = NewStack
      /\ EventTarget = rip /\ rip # Fallthrough
  BY SteppedFacts
<1>2. trap = TRUE
  BY <1>1, FlowIsActive DEF Stepped
<1>3. /\ Known(PendingTail) /\ Target(PendingTail) \in scenario.async
      /\ pending_resume_entry = Fallthrough /\ EventTarget = pending_target_override
      /\ ~Follows(pending_target_override, Depth)
  BY <1>1 DEF TailPlan, OverTail, NotFollowed, EventTarget, Fallthrough
<1>4. NewStack = call_return_stack
  BY <1>3, Zenon DEF NewStack, NextEntry
<1>5. PendingTail' = PendingTail
  BY <1>1, SameCode DEF PendingTail
<1>6. /\ PendingKind' = PendingKind /\ Fallthrough' = Fallthrough /\ Block' = Block
      /\ Known(PendingTail)' /\ Target(PendingTail)' = Target(PendingTail)
  BY <1>1, <1>3, <1>5, SameCode DEF PendingKind, Block, Fallthrough
<1>7. Outcome'
  BY <1>3, <1>6 DEF Outcome
<1>8. WatchPlan' /\ Block'
  BY <1>1, <1>3, <1>6, <1>7 DEF WatchPlan, OverTail
<1>9. Returning' /\ Crossing'
  <2>1. PICK a : a = Fallthrough
    OBVIOUS
  <2>2. Len(stack) \in 1 .. Len(stack) /\ Out(Len(stack), a)
    BY <1>1, <1>2, <2>1, JustCalled
  <2>3. \E k \in 1 .. Len(stack') : Out(k, a)'
    BY <1>1, <1>4, <2>2, OutStays
  <2>4. \E k \in 1 .. Len(stack') : Out(k, Fallthrough)'
    BY <1>6, <2>1, <2>3
  <2> QED BY <1>3, <1>6, <1>7, <2>4 DEF Returning, Crossing
<1> QED BY <1>1, <1>8, <1>9 DEF Located, ToDestination

LEMMA SteppedLeads ==
  ASSUME EngineInv, FrameInv, NEW level \in [Addresses -> Nat], NEW limit \in [Addresses -> Nat],
         Levels(level), Limits(limit), PathInv(level, limit), Stepped,
         ~(PendingKind = "call" /\ pending_resume_entry # 0 /\ pending_target_override # 0),
         Program(NextEntry, Len(NewStack))
  PROVE  Located(level, limit)'
<1>1. /\ Flow /\ UNCHANGED threadRest /\ scenario' = scenario /\ rip' = rip /\ uncounted' = uncounted
      /\ backend_mode' = "HardwareFlow" /\ trap' = FALSE /\ scenario \in Scenarios
      /\ OverTail /\ TailPlan /\ rip \in Addresses /\ (~uncounted => Made(PendingTail))
      /\ EventTarget = rip /\ call_return_stack' = NewStack
      /\ PendingKind = "call" =>
           rip # Fallthrough /\ PendingTail \in DOMAIN Code /\ rip \in Onward(PendingTail)
  BY SteppedFacts
<1>2. trap = TRUE /\ Depth \in Nat /\ limit[rip] \in Nat
  BY <1>1, FlowIsActive, LenProperties DEF Stepped, EngineInv, CountInv, Depth
<1>3. PICK d : d = Len(NewStack)
  OBVIOUS
<1>4. d = Depth'
  BY <1>1, <1>3 DEF Depth
<1>5. ASSUME ~uncounted => Frames(NewStack)
      PROVE  (~uncounted => Counted)'
  BY <1>1, <1>5, HeldFrames
<1>6. CASE PendingKind = "call" /\ Follows(EventTarget, Depth)
  <2>1. NextEntry = rip
    BY <1>6 DEF NextEntry
  <2>2. NewStack = Append(call_return_stack, Fallthrough)
    BY <1>1, <1>6, StackOfArrival DEF ArrivalStack
  <2>3. ~uncounted => Frames(NewStack)
    BY <1>1, <1>2, <1>6, <2>2, JustCalled DEF Frames
  <2> QED BY <1>1, <1>3, <1>4, <1>5, <2>1, <2>3, ProgramLocates
<1>7. CASE PendingKind = "call" /\ ~Follows(EventTarget, Depth)
  <2>1. /\ NextEntry = Fallthrough /\ NewStack = call_return_stack /\ d = Depth
        /\ PendingTail + 1 = Fallthrough
    BY <1>3, <1>7 DEF NextEntry, NewStack, Depth, Fallthrough
  <2>2. Fallthrough # 0 /\ Fallthrough \in Addresses /\ PendingTail \in Addresses
    BY <1>1, <1>7, OnwardIsAddress DEF Fallthrough, Addresses
  <2>3. pending_target_override = 0
    BY <1>1, <1>7, <2>1, <2>2 DEF TailPlan
  <2>4. Kind(PendingTail) = "call" /\ ~Direct(PendingTail)
    BY <1>1, <1>7, <2>3 DEF TailPlan, Known, PendingKind
  <2>5. Programmable(Fallthrough) /\ limit[rip] <= Limit(rip)
    BY <1>1, <1>7, <2>1, <2>4 DEF Limits
  <2>6. limit[rip] <= Depth
    BY <1>1, <1>2, <1>7, <2>5, LimitIsNat DEF Limit, Follows
  <2>7. PICK e : e = Fallthrough
    OBVIOUS
  <2>8. FollowPlan(e, Plan(BlockTail(e), d))
    BY <1>3, <2>1, <2>5, <2>7 DEF Program
  <2>9. ~Truncated(e) /\ BlockTail(e) \in Nat /\ Kind(BlockTail(e)) \in Terminators
    BY <1>1, <2>2, <2>5, <2>7, TailIsTerminator DEF Programmable, Addresses
  <2>10. /\ Block' /\ pending_block' = e
         /\ observation_state' \in {"WaitingForTail", "WaitingForDestination"}
         /\ observation_state' = "WaitingForTail" =>
              NotFollowed' /\ (PendingKind # "call" => pending_resume_entry = 0)'
         /\ observation_state' = "WaitingForDestination" => WatchPlan' /\ ~Outcome'
    BY <1>1, <1>4, <2>2, <2>7, <2>8, <2>9, PlanLeads
  <2>11. Len(stack) \in 1 .. Len(stack) /\ Out(Len(stack), e)
    BY <1>1, <1>2, <1>7, <2>7, JustCalled
  <2>12. PICK k \in 1 .. Len(stack') : k = Len(stack) /\ Out(k, e)'
    BY <1>1, <2>1, <2>11, OutStays
  <2>13. Unfollowed(k, limit)'
    BY <1>1, <1>4, <2>1, <2>6, <2>11, <2>12 DEF Unfollowed, threadRest
  <2>14. Out(k, pending_block)'
    BY <2>10, <2>12 DEF Out, Base
  <2>15. Behind(limit)'
    BY <2>12, <2>13, <2>14 DEF Behind
  <2> QED BY <1>1, <2>10, <2>15 DEF Located, ToTail, ToDestination
<1>8. CASE PendingKind # "call"
  <2>1. NextEntry = rip
    BY <1>1, <1>8 DEF NextEntry, OverTail
  <2>2. ASSUME ~uncounted
        PROVE  NewStack = FramesAfter(PendingTail)
    <3>1. /\ call_return_stack # <<>> <=> Depth > 0
          /\ PendingKind = "return" /\ call_return_stack # <<>> => rip = Top(call_return_stack)
      BY <1>1, <2>2, EmptySeq, LenProperties DEF Made, PendingKind, EngineInv, CountInv, Depth
    <3> QED BY <1>8, <2>1, <3>1, Zenon DEF NewStack, FramesAfter, PendingKind
  <2>3. ~uncounted => Frames(NewStack)
    BY <1>1, <2>2 DEF Made
  <2> QED BY <1>1, <1>3, <1>4, <1>5, <2>1, <2>3, ProgramLocates
<1> QED BY <1>6, <1>7, <1>8

LEMMA PathStepped ==
  ASSUME EngineInv, FrameInv, NEW level \in [Addresses -> Nat], NEW limit \in [Addresses -> Nat],
         Levels(level), Limits(limit), PathInv(level, limit), Stepped
  PROVE  PathInv(level, limit)'
<1>1. UNCHANGED threadRest /\ Edge \in executed /\ reported' \subseteq reported \cup {Edge}
  BY SteppedFacts
<1>2. ReportedWasExecuted'
  BY <1>1, ReportIsMade DEF PathInv
<1> SUFFICES ASSUME Active' PROVE Located(level, limit)'
  BY <1>1, <1>2, HeldPath
<1>3. ~StopTrace
  BY DEF StopTrace, Active
<1>4. CASE PendingKind = "call" /\ pending_resume_entry # 0 /\ pending_target_override # 0
  BY <1>4, SteppedOutcome DEF Stepped
<1>5. CASE ~(PendingKind = "call" /\ pending_resume_entry # 0 /\ pending_target_override # 0)
  <2>1. Program(NextEntry, Len(NewStack))
    BY <1>3, <1>5 DEF Stepped, Proceed
  <2> QED BY <1>5, <2>1, SteppedLeads
<1> QED BY <1>4, <1>5

\* Where a destination is met.
LEMMA MetFacts ==
  ASSUME EngineInv, FrameInv, NEW level \in [Addresses -> Nat], NEW limit \in [Addresses -> Nat],
         Levels(level), Limits(limit), PathInv(level, limit),
         Flow, observation_state = "WaitingForDestination"
  PROVE  /\ WatchPlan /\ rip \in Addresses /\ rip \in observed_addresses /\ scenario \in Scenarios
         /\ backend_mode = "HardwareFlow" /\ PendingTail \in DOMAIN Code
         /\ ~uncounted => Mirror(NewStack)
         /\ NextEntry = rip
         /\ \/ Edge \in executed
            \/ ~Truncated(EventTarget) /\ BlockTail(EventTarget) = PendingTail
            \/ PendingKind = "call" /\ Target(PendingTail) \in scenario.async
               /\ EventTarget = Fallthrough
<1>1. /\ ToDestination(limit) /\ rip \in observed_addresses /\ rip \in Addresses
      /\ scenario \in Scenarios /\ backend_mode = "HardwareFlow" /\ ByLevel(level)
  BY FlowIsActive DEF PathInv, Located
<1>2. /\ WatchPlan /\ pending_block \in Addresses /\ ~Truncated(pending_block)
      /\ PendingTail \in Addresses
  BY <1>1, TailLevel DEF ToDestination, Block
<1>3. PendingKind \in {"jcc", "jump", "call"} /\ PendingTail \in DOMAIN Code
  BY <1>2 DEF WatchPlan, Known, PendingKind, Kind
<1>4. Arrived \/ (Home /\ PendingKind \in {"jcc", "jump"})
  BY <1>1, AtDestination
<1>5. /\ PendingKind = "call" /\ ~Follows(EventTarget, Depth) => rip = Fallthrough
      /\ PendingKind # "call" => pending_resume_entry = 0
  BY <1>1, <1>2 DEF WatchPlan, EventTarget, Outcome
<1>6. NextEntry = rip
  BY <1>5 DEF NextEntry
<1>7. CASE Arrived
  <2>1. Outcome => /\ PendingKind = "call" /\ Target(PendingTail) \in scenario.async
                   /\ EventTarget = Fallthrough
    BY <1>1, <1>2 DEF Outcome, WatchPlan, EventTarget
  <2> QED BY <1>1, <1>2, <1>3, <1>6, <1>7, <2>1 DEF Arrived, Crossed, Edge
<1>8. CASE Home /\ PendingKind \in {"jcc", "jump"}
  <2>1. pending_block \in Nat /\ Inside(rip, pending_block)
    BY <1>2, <1>8 DEF Home, Addresses
  <2>2. /\ ~Truncated(rip) /\ BlockTail(rip) = PendingTail
        /\ rip = PendingTail \/ Kind(rip) = "other"
    BY <1>1, <2>1, InBlock DEF PendingTail
  <2>3. EventTarget = rip
    BY <1>2, <1>8 DEF WatchPlan, EventTarget
  <2>4. Kind(rip) # "exit"
    BY <1>8, <2>2 DEF PendingKind
  <2>5. NewStack = call_return_stack
    BY <1>8, StackOfArrival DEF ArrivalStack
  <2>6. ~uncounted => Mirror(NewStack)
    BY <1>1, <1>8, <2>4, <2>5, StillMirrors DEF Home, EngineInv, FlowInv
  <2> QED BY <1>1, <1>2, <1>3, <1>6, <2>2, <2>3, <2>6
<1> QED BY <1>4, <1>7, <1>8

\* A hot loop is in the frame the engine has counted last.
LEMMA BypassLocates ==
  ASSUME EngineInv, FrameInv, NEW level \in [Addresses -> Nat], NEW limit \in [Addresses -> Nat],
         Levels(level), Limits(limit), PathInv(level, limit), DestinationHit, ArmsBypass
  PROVE  Located(level, limit)'
<1>1. /\ Flow /\ observation_state = "WaitingForDestination" /\ UNCHANGED threadRest
      /\ call_return_stack' = NewStack /\ uncounted' = uncounted
      /\ backend_mode' = backend_mode /\ observation_state' = "WaitingForHotReturn"
      /\ observed_addresses' = HotAddresses /\ PendingKind \in {"jcc", "jump"}
      /\ hot_bypass' = [resume |-> HotResume, return |-> FrameReturn, depth |-> Depth,
                        root_stop |-> scenario.stop_on_root_return /\ FrameReturn # 0 /\ Depth = 0]
  BY DEF DestinationHit, FlowStep, Transition, Heat, AwaitHotReturn, windowVars, history,
         ArmsBypass, CountsHot
<1>2. /\ WatchPlan /\ rip \in Addresses /\ rip \in observed_addresses /\ scenario \in Scenarios
      /\ backend_mode = "HardwareFlow" /\ PendingTail \in DOMAIN Code
      /\ ~uncounted => Mirror(NewStack)
  BY <1>1, MetFacts
<1>3. NewStack = call_return_stack
  BY <1>1, StackOfArrival DEF ArrivalStack
<1>4. /\ call_return_stack' = call_return_stack /\ Depth' = Depth /\ FrameReturn' = FrameReturn
      /\ stack' = stack /\ rip' = rip /\ RootReturnsTo' = RootReturnsTo
  BY <1>1, <1>3 DEF Depth, FrameReturn, threadRest, RootReturnsTo, Top
<1>5. call_return_stack \in Seq(Addresses) /\ Depth = Len(call_return_stack) /\ Depth \in Nat
  BY LenProperties DEF EngineInv, CountInv, Depth
<1>6. Depth > 0 => FrameReturn \in HotAddresses
  <2>1. Depth > 0 => FrameReturn = call_return_stack[Depth] /\ Depth \in 1 .. Len(call_return_stack)
    BY <1>5 DEF FrameReturn, Top
  <2>2. Depth > 0 => FrameReturn \in Addresses
    BY <1>5, <2>1, ElementOfSeq
  <2> QED BY <2>2 DEF HotAddresses, Addresses
<1>7. HotAddresses \subseteq {FrameReturn, HotResume} \ {0}
  BY DEF HotAddresses
<1>8. HotResume # 0 => level[rip] = level[HotResume]
  <2> SUFFICES ASSUME HotResume # 0 PROVE level[rip] = level[HotResume]
    OBVIOUS
  <2>1. PendingKind = "jcc" /\ HotResume \in {Fallthrough, Target(PendingTail)}
    BY DEF HotResume
  <2>2. rip \in {Fallthrough, Target(PendingTail)} /\ Kind(PendingTail) = "jcc" /\ Direct(PendingTail)
    BY <1>2, <2>1 DEF WatchPlan, Outcome, PendingKind, Known
  <2>3. Onward(PendingTail) = {Target(PendingTail), Fallthrough}
    BY <1>2, <2>2, TargetOfDirect DEF Onward, Fallthrough
  <2>4. \A t \in Onward(PendingTail) : level[t] = level[PendingTail]
    BY <1>2, <2>2 DEF Levels
  <2> QED BY <2>1, <2>2, <2>3, <2>4
<1>9. ASSUME ~uncounted
      PROVE  Len(stack) = Depth + 1 /\ stack[1] = RootReturnsTo
             /\ \A i \in 1 .. Depth : stack[i + 1] = call_return_stack[i]
  BY <1>2, <1>3, <1>5, <1>9 DEF Mirror
<1>10. ASSUME ~uncounted
       PROVE  /\ Base' /\ Len(stack') > Depth'
              /\ FrameLevel(level)' = level[rip]
  BY <1>4, <1>5, <1>9, <1>10 DEF Base, FrameLevel
<1>11. ToReturn(level)'
  BY <1>1, <1>4, <1>6, <1>7, <1>8, <1>10 DEF ToReturn, HotFrame
<1> QED BY <1>1, <1>2, <1>11 DEF Located

LEMMA PathDestination ==
  ASSUME EngineInv, FrameInv, NEW level \in [Addresses -> Nat], NEW limit \in [Addresses -> Nat],
         Levels(level), Limits(limit), PathInv(level, limit), DestinationHit
  PROVE  PathInv(level, limit)'
<1>1. /\ Flow /\ observation_state = "WaitingForDestination" /\ UNCHANGED threadRest
      /\ call_return_stack' = NewStack /\ uncounted' = uncounted /\ trap' = FALSE
      /\ backend_mode' = backend_mode /\ reported' \subseteq reported \cup {Edge}
  BY DEF DestinationHit, FlowStep, Flow, Transition, windowVars, history
<1>2. /\ rip \in Addresses /\ backend_mode = "HardwareFlow" /\ NextEntry = rip
      /\ ~uncounted => Mirror(NewStack)
      /\ \/ Edge \in executed
         \/ ~Truncated(EventTarget) /\ BlockTail(EventTarget) = PendingTail
         \/ PendingKind = "call" /\ Target(PendingTail) \in scenario.async
            /\ EventTarget = Fallthrough
  BY <1>1, MetFacts
<1>3. ReportedWasExecuted'
  BY <1>1, <1>2, ReportIsMade DEF PathInv
<1> SUFFICES ASSUME Active' PROVE Located(level, limit)'
  BY <1>1, <1>3, HeldPath
<1>4. CASE ArmsBypass
  BY <1>4, BypassLocates
<1>5. CASE ~ArmsBypass
  <2>1. Program(rip, Len(NewStack))
    BY <1>2, <1>5 DEF DestinationHit, Proceed, StopTrace, Active
  <2>2. PICK d : d = Len(NewStack)
    OBVIOUS
  <2>3. d = Depth'
    BY <1>1, <2>2 DEF Depth
  <2>4. (~uncounted => Counted)'
    BY <1>1, <1>2, HeldFrames DEF Frames
  <2> QED BY <1>1, <1>2, <2>1, <2>2, <2>3, <2>4, ProgramLocates
<1> QED BY <1>4, <1>5

LEMMA PathHandoff ==
  ASSUME EngineInv, FrameInv, NEW level \in [Addresses -> Nat], NEW limit \in [Addresses -> Nat],
         Levels(level), Limits(limit), PathInv(level, limit), HandoffRequested
  PROVE  PathInv(level, limit)'
<1>1. /\ Flow /\ observation_state = "WaitingForDestination" /\ UNCHANGED threadRest
      /\ call_return_stack' = call_return_stack /\ trap' = FALSE
      /\ uncounted' = (uncounted \/ NewStack # call_return_stack)
      /\ backend_mode' = backend_mode /\ reported' = reported
  BY DEF HandoffRequested, FlowStep, Flow, windowVars, stackVars
<1>2. /\ rip \in Addresses /\ backend_mode = "HardwareFlow" /\ WatchPlan /\ rip \in observed_addresses
      /\ ~uncounted => Mirror(NewStack)
  BY <1>1, MetFacts
<1>3. ReportedWasExecuted'
  BY <1>1, ReportsStay DEF PathInv, threadRest
<1> SUFFICES ASSUME Active' PROVE Located(level, limit)'
  BY <1>1, <1>3, HeldPath
<1>4. pending_resume_entry # 0 => pending_resume_entry = rip
  BY <1>2 DEF WatchPlan
<1>5. Program(rip, Depth)
  BY <1>4 DEF HandoffRequested, Proceed, StopTrace, Active
<1>6. PICK d : d = Depth
  OBVIOUS
<1>7. d = Depth'
  BY <1>1, <1>6 DEF Depth
<1>8. (~uncounted => Counted)'
  <2>1. ~uncounted' => ~uncounted /\ NewStack = call_return_stack
    BY <1>1
  <2> QED BY <1>1, <1>2, <2>1, HeldFrames DEF Frames
<1> QED BY <1>1, <1>2, <1>5, <1>6, <1>7, <1>8, ProgramLocates

LEMMA PathHot ==
  ASSUME EngineInv, FrameInv, NEW level \in [Addresses -> Nat], NEW limit \in [Addresses -> Nat],
         Levels(level), Limits(limit), PathInv(level, limit), HotReturnHit
  PROVE  PathInv(level, limit)'
<1> DEFINE returns == HitsBypass(hot_bypass.return)
           pops == returns /\ Depth > 0 /\ Top(call_return_stack) = rip
           resumes == HitsBypass(hot_bypass.resume)
<1>1. /\ Flow /\ observation_state = "WaitingForHotReturn" /\ UNCHANGED threadRest
      /\ trap' = FALSE /\ uncounted' = uncounted
      /\ backend_mode' = backend_mode /\ reported' = reported
  BY DEF HotReturnHit, FlowStep, Flow, windowVars, history
<1>2. /\ rip \in Addresses /\ rip # 0 /\ backend_mode = "HardwareFlow" /\ rip \in observed_addresses
      /\ ToReturn(level) /\ ByLevel(level)
  BY <1>1, FlowIsActive DEF PathInv, Located, IsWatched
<1>3. ReportedWasExecuted'
  BY <1>1, ReportsStay DEF PathInv, threadRest
<1> SUFFICES ASSUME Active' PROVE Located(level, limit)'
  BY <1>1, <1>3, HeldPath
<1>4. call_return_stack \in Seq(Addresses) /\ Depth = Len(call_return_stack) /\ Depth \in Nat
      /\ stack \in Seq(Addresses) /\ Len(stack) \in Nat
  BY LenProperties DEF EngineInv, FlowInv, ThreadInv, CountInv, Depth
<1>5. CASE returns \/ resumes
  <2>1. /\ call_return_stack' = IF pops THEN Below(call_return_stack) ELSE call_return_stack
        /\ Program(rip, Len(call_return_stack'))
    BY <1>5 DEF HotReturnHit, StopTrace, Active
  <2>2. PICK d : d = Len(call_return_stack')
    OBVIOUS
  <2>3. d = Depth'
    BY <2>2 DEF Depth
  <2>4. ASSUME ~uncounted
        PROVE  Frames(IF pops THEN Below(call_return_stack) ELSE call_return_stack)
    <3>1. HotFrame(level)
      BY <1>2, <2>4 DEF ToReturn
    <3>2. returns <=> (FrameReturn # 0 /\ FrameReturn = rip)
      BY <3>1 DEF HotFrame, HitsBypass
    <3>3. CASE Depth = 0 /\ stack = <<>> /\ rip = RootReturnsTo
      <4>1. call_return_stack = <<>>
        BY <1>4, <3>3, EmptySeq
      <4>2. ~(Depth > 0)
        BY <3>3
      <4>3. ~pops
        BY <4>2
      <4> QED BY <3>3, <4>1, <4>3 DEF Frames
    <3>4. CASE Depth > 0 /\ Mirror(Below(call_return_stack)) /\ rip = FrameReturn
      <4>1. pops
        BY <1>2, <3>2, <3>4 DEF FrameReturn
      <4> QED BY <3>4, <4>1 DEF Frames
    <3>5. CASE /\ Base /\ Len(stack) > Depth
               /\ hot_bypass.resume # 0 => FrameLevel(level) = level[hot_bypass.resume]
      <4>1. stack[1] = RootReturnsTo /\ \A i \in 1 .. Depth : stack[i + 1] = call_return_stack[i]
        BY <3>5 DEF Base
      <4>2. ~returns
        <5>1. ASSUME Depth > 0
              PROVE  stack[Depth + 1] = FrameReturn /\ Depth + 1 \in 1 .. Len(stack)
          BY <1>4, <3>5, <4>1, <5>1 DEF FrameReturn, Top
        <5>2. \A j \in 1 .. Len(stack) : level[stack[j]] < level[rip]
          BY <1>2 DEF ByLevel
        <5>3. level[rip] \in Nat
          BY <1>2
        <5>4. Depth > 0 => FrameReturn # rip
          BY <5>1, <5>2, <5>3
        <5>5. ~(Depth > 0) => FrameReturn = 0
          BY <1>4 DEF FrameReturn
        <5> QED BY <3>2, <5>4, <5>5
      <4>3. hot_bypass.resume # 0 /\ hot_bypass.resume = rip
        BY <1>5, <4>2 DEF HitsBypass
      <4>4. Len(stack) = Depth + 1
        <5>1. ASSUME Len(stack) # Depth + 1
              PROVE  FALSE
          <6>1. Depth + 2 \in 1 .. Len(stack) /\ FrameLevel(level) = level[stack[Depth + 2]]
            BY <1>4, <3>5, <5>1 DEF FrameLevel
          <6>2. level[stack[Depth + 2]] < level[rip] /\ level[stack[Depth + 2]] = level[rip]
            BY <1>2, <3>5, <4>3, <6>1 DEF ByLevel
          <6> QED BY <1>2, <6>2
        <5> QED BY <5>1
      <4>5. Mirror(call_return_stack) /\ ~pops
        BY <1>4, <4>1, <4>2, <4>4 DEF Mirror
      <4> QED BY <4>5 DEF Frames
    <3> QED BY <3>1, <3>3, <3>4, <3>5 DEF HotFrame
  <2>5. (~uncounted => Counted)'
    BY <1>1, <2>1, <2>4, HeldFrames
  <2> QED BY <1>1, <1>2, <2>1, <2>2, <2>3, <2>5, ProgramLocates
<1>6. CASE ~(returns \/ resumes)
  <2>1. UNCHANGED <<call_return_stack, hot_bypass, planVars, stack, rip>>
    BY <1>1, <1>6 DEF HotReturnHit, threadRest
  <2>2. /\ Depth' = Depth /\ FrameReturn' = FrameReturn /\ Base' = Base
        /\ FrameLevel(level)' = FrameLevel(level) /\ RootReturnsTo' = RootReturnsTo
    BY <1>1, <2>1 DEF Depth, FrameReturn, Base, FrameLevel, RootReturnsTo, threadRest, Top
  <2>3. Mirror(Below(call_return_stack))' = Mirror(Below(call_return_stack))
    BY <2>1, <2>2 DEF Mirror, Below
  <2>4. HotFrame(level)' = HotFrame(level)
    BY <2>1, <2>2, <2>3 DEF HotFrame, planVars
  <2>5. ToReturn(level)' /\ observation_state' = "WaitingForHotReturn"
    BY <1>1, <1>2, <2>1, <2>4 DEF ToReturn, planVars
  <2> QED BY <1>1, <1>2, <2>5 DEF Located
<1> QED BY <1>5, <1>6

LEMMA PathTriggered ==
  ASSUME EngineInv, FrameInv, NEW level \in [Addresses -> Nat], NEW limit \in [Addresses -> Nat],
         Levels(level), Limits(limit), PathInv(level, limit), Triggered
  PROVE  PathInv(level, limit)'
<1>1. /\ UNCHANGED threadRest /\ reported' = reported /\ call_return_stack' = call_return_stack
      /\ uncounted' = uncounted /\ trap' = FALSE /\ last_rip' = rip
  BY DEF Triggered, stackVars, history
<1>2. ReportedWasExecuted'
  BY <1>1, ReportsStay DEF PathInv, threadRest
<1> SUFFICES ASSUME Active' PROVE Located(level, limit)'
  BY <1>1, <1>2, HeldPath
<1>3. call_return_stack = <<>> /\ stack = <<RootReturnsTo>> /\ rip \in Addresses /\ rip # 0
  BY ScenarioAssumption
  DEF Triggered, FrameInv, Faults, EngineInv, FlowInv, ThreadInv, ScenarioAssumption, Addresses
<1>4. Frames(call_return_stack)
  BY <1>3 DEF Frames, Mirror
<1>5. Counted'
  BY <1>1, <1>4, HeldFrames
<1>6. StartFlow(rip, 0)
  BY DEF Triggered, Active, threadRest
<1>7. CASE StartsFilter(rip)
  <2>1. backend_mode' = "TrapFlag" /\ Windowed'
    BY <1>1, <1>3, <1>5, <1>6, <1>7 DEF StartFlow, OpenWindow, Windowed, threadRest
  <2> QED BY <2>1 DEF Located
<1>8. CASE ~StartsFilter(rip)
  <2>1. Program(rip, 0) /\ backend_mode' = "HardwareFlow"
    BY <1>6, <1>8 DEF StartFlow
  <2>2. PICK d : d = 0
    OBVIOUS
  <2>3. d = Depth'
    BY <1>1, <1>3, <2>2 DEF Depth
  <2> QED BY <1>1, <1>5, <2>1, <2>2, <2>3, ProgramLocates
<1> QED BY <1>7, <1>8

\* What the engine counts with a step of a window.
LEMMA WindowCounts ==
  ASSUME EngineInv, NEW level, NEW limit, PathInv(level, limit), Stepping,
         scenario.control_flow_only
  PROVE  /\ ~uncounted => Frames(StepStack)
         /\ StepStack \in Seq(Addresses) /\ rip \in Addresses /\ rip # 0
         /\ running = TRUE /\ backend_mode = "TrapFlag" /\ trap' = FALSE
<1>1. /\ running = TRUE /\ handed = FALSE /\ waiting_for_trigger = FALSE /\ backend_mode = "TrapFlag"
      /\ trap = TRUE /\ trap' = FALSE
  BY InStep DEF EngineInv, FlowInv, Stepping, ArmedInv
<1>2. Windowed
  BY <1>1 DEF PathInv, Active, Located
<1>3. ~uncounted => Frames(StepStack)
  BY <1>1, <1>2, StepIsCounted DEF Windowed, EngineInv
<1>4. StepStack \in Seq(Addresses)
  BY <1>1, StepStacksAreSeqs DEF EngineInv, FlowInv
<1> QED BY <1>1, <1>3, <1>4 DEF EngineInv, FlowInv, ThreadInv, Addresses

LEMMA PathCloses ==
  ASSUME EngineInv, FrameInv, NEW level \in [Addresses -> Nat], NEW limit \in [Addresses -> Nat],
         Levels(level), Limits(limit), PathInv(level, limit), WindowCloses
  PROVE  PathInv(level, limit)'
<1>1. /\ UNCHANGED threadRest /\ reported' = reported /\ call_return_stack' = StepStack
      /\ RestoreFlow /\ Stepping
  BY DEF WindowCloses
<1>2. ReportedWasExecuted'
  BY <1>1, ReportsStay DEF PathInv, threadRest
<1> SUFFICES ASSUME Active' PROVE Located(level, limit)'
  BY <1>1, <1>2, HeldPath
<1>3. /\ ~uncounted => Frames(StepStack)
      /\ StepStack \in Seq(Addresses) /\ rip \in Addresses /\ trap' = FALSE
  BY <1>1, WindowCounts DEF Active, threadRest
<1>4. ~uncounted => Counted'
  BY <1>1, <1>3, HeldFrames
<1>5. CASE AwaitsReturn
  <2>1. /\ StepStack # <<>> /\ backend_mode' = "HardwareFlow" /\ uncounted' = uncounted
        /\ observation_state' = "WaitingForHotReturn" /\ observed_addresses' = {Top(StepStack)}
        /\ hot_bypass' = [NoBypass EXCEPT !.return = Top(StepStack), !.depth = Len(StepStack)]
    BY <1>1, <1>5 DEF RestoreFlow, AwaitsReturn
  <2>2. Len(StepStack) \in Nat \ {0} /\ Top(StepStack) \in Addresses /\ Top(StepStack) # 0
    <3>1. Len(StepStack) \in Nat \ {0}
      BY <1>3, <2>1, EmptySeq
    <3>2. Len(StepStack) \in 1 .. Len(StepStack)
      BY <3>1
    <3> QED BY <1>3, <3>1, <3>2, ElementOfSeq DEF Top, Addresses
  <2>3. Depth' = Len(StepStack) /\ FrameReturn' = Top(StepStack) /\ stack' = stack
        /\ RootReturnsTo' = RootReturnsTo
    BY <1>1, <2>2 DEF Depth, FrameReturn, threadRest, Top, RootReturnsTo
  <2>4. ASSUME ~uncounted
        PROVE  /\ Len(stack) = Len(StepStack) + 1 /\ stack[1] = RootReturnsTo
               /\ \A i \in 1 .. Len(StepStack) : stack[i + 1] = StepStack[i]
    BY <1>3, <2>1, <2>4 DEF Frames, Mirror
  <2>5. ~uncounted => Base' /\ Len(stack') > Depth'
    BY <1>1, <2>2, <2>3, <2>4 DEF Base
  <2>6. /\ hot_bypass'.return = Top(StepStack) /\ hot_bypass'.depth = Len(StepStack)
        /\ hot_bypass'.resume = 0
    BY <2>1 DEF NoBypass
  <2>7. ToReturn(level)'
    BY <2>1, <2>2, <2>3, <2>5, <2>6 DEF ToReturn, HotFrame
  <2> QED BY <2>1, <2>7 DEF Located
<1>6. CASE ~AwaitsReturn
  <2>1. /\ StartFlow(rip, Len(StepStack))
        /\ uncounted' = (uncounted \/ StartsFilter(rip))
    BY <1>1, <1>6 DEF RestoreFlow
  <2>2. CASE StartsFilter(rip)
    BY <2>1, <2>2 DEF StartFlow, OpenWindow, Located, Windowed
  <2>3. CASE ~StartsFilter(rip)
    <3>1. Program(rip, Len(StepStack)) /\ backend_mode' = "HardwareFlow"
      BY <2>1, <2>3 DEF StartFlow
    <3>2. PICK d : d = Len(StepStack)
      OBVIOUS
    <3>3. d = Depth'
      BY <1>1, <3>2 DEF Depth
    <3>4. (~uncounted => Counted)'
      BY <1>4, <2>1, <2>3
    <3> QED BY <1>1, <1>3, <3>1, <3>2, <3>3, <3>4, ProgramLocates
  <2> QED BY <2>2, <2>3
<1> QED BY <1>5, <1>6

LEMMA PathStepsOn ==
  ASSUME EngineInv, FrameInv, NEW level \in [Addresses -> Nat], NEW limit \in [Addresses -> Nat],
         Levels(level), Limits(limit), PathInv(level, limit), StepsOn
  PROVE  PathInv(level, limit)'
<1>1. /\ UNCHANGED threadRest /\ reported' = reported /\ call_return_stack' = StepStack
      /\ Stepping /\ last_rip' = rip /\ uncounted' = uncounted /\ backend_mode' = backend_mode
  BY DEF StepsOn, history
<1>2. ReportedWasExecuted'
  BY <1>1, ReportsStay DEF PathInv, threadRest
<1> SUFFICES ASSUME Active' PROVE Located(level, limit)'
  BY <1>1, <1>2, HeldPath
<1>3. /\ ~uncounted => Frames(StepStack)
      /\ rip # 0 /\ trap' = FALSE /\ backend_mode = "TrapFlag"
  BY <1>1, WindowCounts DEF Active, threadRest
<1>4. (~uncounted => Counted)'
  BY <1>1, <1>3, HeldFrames
<1>5. Windowed'
  BY <1>1, <1>3, <1>4 DEF Windowed, threadRest
<1> QED BY <1>1, <1>3, <1>5 DEF Located

LEMMA PathHandsOff ==
  ASSUME EngineInv, FrameInv, NEW level, NEW limit, PathInv(level, limit), StepHandsOff
  PROVE  PathInv(level, limit)'
<1>1. UNCHANGED threadRest /\ reported' = reported /\ handed' = TRUE
  BY DEF StepHandsOff
<1>2. ReportedWasExecuted'
  BY <1>1, ReportsStay DEF PathInv, threadRest
<1> QED BY <1>1, <1>2, HeldPath DEF Active

\* A level and a limit for every address: where the code has them, the thread is where
\* the engine takes it to be.
FollowInv ==
  \A level, limit \in [Addresses -> Nat] :
    Levels(level) /\ Limits(limit) => PathInv(level, limit)

LEMMA FollowInit == Init => FollowInv
<1> SUFFICES ASSUME Init, NEW level \in [Addresses -> Nat], NEW limit \in [Addresses -> Nat]
             PROVE  PathInv(level, limit)
  BY DEF FollowInv
<1>1. stack = <<>> /\ reported = {} /\ waiting_for_trigger
  BY DEF Init
<1>2. Len(stack) = 0
  BY <1>1, EmptySeq
<1>3. ByLevel(level)
  BY <1>2 DEF ByLevel
<1> QED BY <1>1, <1>3 DEF PathInv, ReportedWasExecuted, Active

LEMMA SamePath ==
  ASSUME UNCHANGED vars, NEW level, NEW limit, PathInv(level, limit)
  PROVE  PathInv(level, limit)'
<1> USE DEF vars, threadVars, planVars, heatVars, stackVars, windowVars, reportVars, history
<1>1. /\ scenario' = scenario /\ Depth' = Depth /\ RootReturnsTo' = RootReturnsTo
      /\ \A a : Kind(a)' = Kind(a) /\ Onward(a)' = Onward(a)
      /\ \A a, block : Inside(a, block)' = Inside(a, block)
  BY SameCode, SameProgram DEF Depth, RootReturnsTo, Inside
<1>2. /\ PendingTail' = PendingTail /\ PendingKind' = PendingKind /\ Fallthrough' = Fallthrough
      /\ Block' = Block /\ NotFollowed' = NotFollowed /\ Outcome' = Outcome
      /\ WatchPlan' = WatchPlan
  BY <1>1, PlanStays
<1>3. /\ Base' = Base /\ Counted' = Counted /\ NewStack' = NewStack /\ EventTarget' = EventTarget
      /\ Mirror(NewStack)' = Mirror(NewStack) /\ FrameReturn' = FrameReturn
      /\ Mirror(Below(call_return_stack))' = Mirror(Below(call_return_stack))
  <2>1. \A a : Follows(a, Depth)' = Follows(a, Depth)
    BY <1>1, SameProgram
  <2>2. EventTarget' = EventTarget
    BY DEF EventTarget
  <2>3. NextEntry' = NextEntry
    BY <1>2, <2>1, <2>2, Zenon DEF NextEntry
  <2>4. NewStack' = NewStack
    BY <1>1, <1>2, <2>3 DEF NewStack, Top, Below
  <2> QED BY <1>1, <2>2, <2>4 DEF Base, Counted, Frames, Mirror, FrameReturn, Top, Below
<1>4. \A a : Made(a)' = Made(a)
  <2>1. \A a : FramesAfter(a)' = FramesAfter(a)
    BY <1>1 DEF FramesAfter, Below
  <2> QED BY <1>1, <2>1 DEF Made, Frames, Mirror, Top
<1>5. \A k, a : Out(k, a)' = Out(k, a)
  BY <1>3 DEF Out, Depth
<1>6. Home' = Home /\ Behind(limit)' = Behind(limit) /\ Returning' = Returning
  BY <1>1, <1>2, <1>3, <1>5 DEF Home, Behind, Unfollowed, Returning
<1>7. Crossing' = Crossing /\ Arrived' = Arrived
  BY <1>2, <1>3 DEF Crossing, Arrived, Crossed
<1>8. Windowed' = Windowed /\ Scanning' = Scanning /\ OverTail' = OverTail
  BY <1>1, <1>2, <1>3, <1>4 DEF Windowed, Scanning, OverTail
<1>9. ToTail(limit)' = ToTail(limit) /\ ToDestination(limit)' = ToDestination(limit)
  BY <1>2, <1>6, <1>7 DEF ToTail, ToDestination
<1>10. ToReturn(level)' = ToReturn(level)
  <2>1. FrameLevel(level)' = FrameLevel(level)
    BY <1>1 DEF FrameLevel
  <2> QED BY <1>1, <1>3, <2>1 DEF ToReturn, HotFrame
<1>11. Located(level, limit)' = Located(level, limit) /\ Active' = Active
  BY <1>8, <1>9, <1>10 DEF Located, Active
<1>12. UNCHANGED threadRest /\ reported' = reported /\ ReportedWasExecuted
  BY DEF threadRest, PathInv
<1>13. ReportedWasExecuted'
  BY <1>12, ReportsStay
<1> QED BY <1>11, <1>12, <1>13, HeldPath DEF PathInv

LEMMA FollowStep == EngineInv /\ FrameInv /\ FollowInv /\ [Next]_vars => FollowInv'
<1> SUFFICES ASSUME EngineInv, FrameInv, FollowInv, [Next]_vars,
                    NEW level \in [Addresses -> Nat], NEW limit \in [Addresses -> Nat],
                    Levels(level)', Limits(limit)'
             PROVE  PathInv(level, limit)'
  BY DEF FollowInv
<1>1. scenario' = scenario
  BY DEF Next, Handle, RunThread, Triggered, FlowOpensWindow, Scan, Stepped, TailHit,
         DestinationHit, HandoffRequested, HotReturnHit, WindowCloses, StepsOn, StepHandsOff,
         threadRest, vars
<1>2. Levels(level) /\ Limits(limit) /\ PathInv(level, limit)
  BY <1>1, SameLevels DEF FollowInv
<1>3. CASE RunThread
  BY <1>2, <1>3, PathThread
<1>4. CASE Triggered \/ FlowOpensWindow \/ Scan \/ Stepped
  BY <1>2, <1>4, PathTriggered, PathOpens, PathScans, PathStepped
<1>5. CASE TailHit \/ DestinationHit \/ HandoffRequested \/ HotReturnHit
  BY <1>2, <1>5, PathTails, PathDestination, PathHandoff, PathHot
<1>6. CASE WindowCloses \/ StepsOn \/ StepHandsOff
  BY <1>2, <1>6, PathCloses, PathStepsOn, PathHandsOff
<1>7. CASE UNCHANGED vars
  BY <1>2, <1>7, SamePath
<1> QED BY <1>3, <1>4, <1>5, <1>6, <1>7 DEF Next, Handle

LEMMA FollowInvariance == Spec => [](EngineInv /\ FrameInv /\ FollowInv)
BY EngineInit, FrameInit, FollowInit, EngineStep, FrameStep, FollowStep, PTL DEF Spec

\* No transfer is reported that the thread has not made, for a program whose functions are
\* nested.
THEOREM ReportsWereExecuted == Spec => [](Nested => ReportedWasExecuted)
<1>1. FollowInv => (Nested => ReportedWasExecuted)
  BY DEF FollowInv, Nested, PathInv
<1> QED BY <1>1, FollowInvariance, PTL

\* Where the thread is between two exceptions.
LEMMA BetweenExceptions ==
  ASSUME EngineInv, Following, ~uncounted, NEW level, NEW limit, PathInv(level, limit),
         scenario.control_flow_only
  PROVE  /\ \/ Counted
            \/ Base /\ Len(stack) > Depth
         /\ \/ tf = TRUE \/ observation_state = "WaitingForHotReturn"
            \/ Inside(rip, pending_block) \/ Len(stack) > Depth + 1
<1>1. /\ Active /\ Awaiting /\ trap = FALSE /\ rip \notin drs
      /\ backend_mode \in {"HardwareFlow", "TrapFlag"}
      /\ Depth \in Nat /\ Len(stack) \in Nat
  BY LenProperties
  DEF Following, Active, Faults, EngineInv, FlowInv, ThreadInv, ArmedInv, CountInv, Depth
<1>2. Located(level, limit)
  BY <1>1 DEF PathInv
<1>3. CASE IsStepped
  <2>1. tf = TRUE
    BY <1>1, <1>3 DEF Awaiting
  <2>2. Counted
    BY <1>1, <1>2, <1>3 DEF Located, IsStepped, Windowed, Scanning, OverTail
  <2> QED BY <2>1, <2>2
<1>4. CASE ~IsStepped
  <2>1. IsWatched /\ rip \notin observed_addresses /\ backend_mode = "HardwareFlow"
    BY <1>1, <1>4 DEF Awaiting, IsStepped
  <2>2. ASSUME NEW a, NEW k \in 1 .. Len(stack), Out(k, a)
        PROVE  Base /\ Len(stack) > Depth + 1
    BY <1>1, <2>2 DEF Out
  <2>3. CASE observation_state = "WaitingForTail"
    <3>1. ToTail(limit)
      BY <1>2, <2>1, <2>3 DEF Located
    <3> QED BY <1>1, <2>2, <3>1 DEF ToTail, Home, Behind
  <2>4. CASE observation_state = "WaitingForDestination"
    <3>1. ToDestination(limit)
      BY <1>2, <2>1, <2>4 DEF Located
    <3> QED BY <1>1, <2>1, <2>2, <3>1 DEF ToDestination, Home, Behind, Arrived, Returning
  <2>5. CASE observation_state = "WaitingForHotReturn"
    <3>1. HotFrame(level)
      BY <1>2, <2>1, <2>5 DEF Located, ToReturn
    <3>2. CASE Depth = 0 /\ stack = <<>> /\ rip = RootReturnsTo
      <4>1. call_return_stack = <<>>
        BY <3>2, EmptySeq DEF EngineInv, CountInv, Depth
      <4> QED BY <2>5, <3>2, <4>1 DEF Counted, Frames
    <3> QED BY <2>1, <2>5, <3>1, <3>2 DEF HotFrame
  <2> QED BY <2>1, <2>3, <2>4, <2>5 DEF IsWatched
<1> QED BY <1>3, <1>4

\* The frames the engine counts are those of the thread above the root, in the same order:
\* for any program that is stepped all the way, and for one whose functions are nested.
THEOREM ShadowStackIsTrue ==
  Spec => [](~scenario.control_flow_only \/ Nested => ShadowStackIsReal)
<1>1. EngineInv /\ FrameInv /\ FollowInv =>
        (~scenario.control_flow_only \/ Nested => ShadowStackIsReal)
  <2> SUFFICES ASSUME EngineInv, FrameInv, FollowInv, ~scenario.control_flow_only \/ Nested,
                      Following, stack # <<>>, ~uncounted
               PROVE  /\ Len(call_return_stack) < Len(stack)
                      /\ \A i \in DOMAIN call_return_stack : call_return_stack[i] = stack[i + 1]
    BY DEF ShadowStackIsReal
  <2>1. Counted \/ (Base /\ Len(stack) > Depth)
    <3>1. CASE ~scenario.control_flow_only
      BY <3>1 DEF FrameInv, AllStepped, Following, Faults, Before
    <3>2. CASE scenario.control_flow_only /\ Nested
      BY <3>2, BetweenExceptions DEF FollowInv, Nested
    <3> QED BY <3>1, <3>2
  <2>2. call_return_stack \in Seq(Addresses) /\ DOMAIN call_return_stack = 1 .. Depth
        /\ Depth = Len(call_return_stack) /\ Depth \in Nat
    BY LenProperties DEF EngineInv, CountInv, Depth
  <2> QED BY <2>1, <2>2 DEF Counted, Frames, Mirror, Base
<1> QED BY <1>1, FollowInvariance, PTL

\* And the thread is in a frame that is followed only where the engine will see it leave:
\* it is stepped, or on its way through the pending block.
THEOREM ThreadIsNotLost == Spec => [](~scenario.control_flow_only \/ Nested => NotLost)
<1>1. EngineInv /\ FrameInv /\ FollowInv =>
        (~scenario.control_flow_only \/ Nested => NotLost)
  <2> SUFFICES ASSUME EngineInv, FrameInv, FollowInv, ~scenario.control_flow_only \/ Nested,
                      Following, ~uncounted, observation_state # "WaitingForHotReturn",
                      Len(stack) = Depth + 1
               PROVE  tf \/ Inside(rip, pending_block)
    BY DEF NotLost, Depth
  <2>1. CASE ~scenario.control_flow_only
    BY <2>1 DEF FrameInv, AllStepped, Following, EngineInv, FlowInv, ArmedInv, Awaiting, IsStepped
  <2>2. CASE scenario.control_flow_only /\ Nested
    <3>1. PICK level \in [Addresses -> Nat], limit \in [Addresses -> Nat] :
            Levels(level) /\ Limits(limit)
      BY <2>2 DEF Nested
    <3>2. \/ tf = TRUE \/ observation_state = "WaitingForHotReturn"
          \/ Inside(rip, pending_block) \/ Len(stack) > Depth + 1
      BY <2>2, <3>1, BetweenExceptions DEF FollowInv
    <3>3. ~(Len(stack) > Depth + 1)
      BY LenProperties DEF EngineInv, CountInv, Depth
    <3> QED BY <3>2, <3>3
  <2> QED BY <2>1, <2>2
<1> QED BY <1>1, FollowInvariance, PTL

-----------------------------------------------------------------------------
(* The end of the trace.                                                   *)

\* The code of the traced function, which is recorded: what it runs itself, and not what
\* it calls.
RootCode(root) ==
  /\ scenario.entry \in root
  /\ \A a \in root :
       /\ Recordable(a)
       /\ Kind(a) = "call" => a + 1 \in root
       /\ Kind(a) \notin {"call", "return"} => Onward(a) \subseteq root
RootIsRecorded == \E root \in SUBSET Addresses : RootCode(root)

\* No loop is left to run to its exit.
NotHot == scenario.hot_bypass_threshold = 0 \/ ~FirstSeen

\* The root is called from where the thread starts, and runs the code of the traced function.
RootBase ==
  /\ stack = <<>> => rip = IF waiting_for_trigger THEN scenario.caller ELSE RootReturnsTo
  /\ stack # <<>> => stack[1] = RootReturnsTo
RootFrame(root) ==
  stack # <<>> => IF Len(stack) = 1 THEN rip \in root ELSE stack[2] \in root

\* Only the root returns to where it was called.
RootReturnIsLast ==
  stack # <<>> \/ waiting_for_trigger => \A edge \in executed : edge[2] # RootReturnsTo

\* What suppresses a frame's events was pushed with the frame, in the window that is open.
SuppressionInv ==
  /\ Len(trap_suppression_stack) <= Depth
  /\ waiting_for_trigger \/ backend_mode = "HardwareFlow" => trap_suppression_stack = <<>>

\* A trace that has stopped has seen the root return, or has come to its limit, or to what
\* the decoder refuses.
StoppedInv ==
  /\ hot_bypass.root_stop = FALSE
  /\ ~running /\ scenario.max_events = 0 /\ ~uncounted =>
       (stack = <<>> /\ rip = RootReturnsTo) \/ refused

\* The root's return has just been run, and the engine is to be told of it.
ReturnIsSeen(root) ==
  /\ trap = TRUE /\ call_return_stack = <<>>
  /\ IF backend_mode = "TrapFlag"
     THEN last_rip \in root /\ Kind(last_rip) = "return"
     ELSE /\ observation_state = "WaitingForSingleStep"
          /\ PendingTail \in root /\ PendingKind = "return"
Unseen == running /\ ~handed /\ ~waiting_for_trigger /\ ~left_unseen /\ ~uncounted
EndInv(root) ==
  /\ waiting_for_trigger => reported = {}
  /\ Unseen =>
       /\ stack = <<>> => ReturnIsSeen(root)
       /\ scenario.control_flow_only =>
            /\ backend_mode = "HardwareFlow" /\ observation_state = "WaitingForHotReturn" =>
                 Depth > 0
            /\ \A edge \in reported : Kind(edge[1]) = "return" => edge[2] # RootReturnsTo

LEMMA HandlersHold ==
  ASSUME Handle
  PROVE  UNCHANGED threadRest /\ (~Triggered => running /\ ~handed /\ ~waiting_for_trigger)
BY DEF Handle, Triggered, FlowOpensWindow, Scan, Stepped, TailHit, DestinationHit,
   HandoffRequested, HotReturnHit, WindowCloses, StepsOn, StepHandsOff, FlowStep, Flow, Stepping

\* Where the thread is told that its trigger is met.
LEMMA AtTrigger ==
  ASSUME EngineInv, FrameInv, Triggered
  PROVE  /\ stack = <<RootReturnsTo>> /\ rip = scenario.entry /\ call_return_stack = <<>>
         /\ waiting_for_trigger /\ waiting_for_trigger' = FALSE
BY ScenarioAssumption
DEF Triggered, FrameInv, Faults, EngineInv, FlowInv, ThreadInv, ScenarioAssumption

LEMMA WaitingIsRoot ==
  ASSUME FrameInv, waiting_for_trigger
  PROVE  RootBase
<1>1. stack = <<RootReturnsTo>> => stack # <<>> /\ stack[1] = RootReturnsTo
  OBVIOUS
<1> QED BY <1>1 DEF FrameInv, RootBase

LEMMA NextWaitingIsRoot == FrameInv' /\ waiting_for_trigger' => RootBase'
BY WaitingIsRoot, PTL

LEMMA BaseStep ==
  ASSUME EngineInv, FrameInv, FrameInv', RootBase, [Next]_vars
  PROVE  RootBase'
<1>1. CASE waiting_for_trigger'
  BY <1>1, NextWaitingIsRoot
<1>2. CASE ~waiting_for_trigger' /\ RunThread
  <2>1. /\ ThreadInv /\ Execute /\ waiting_for_trigger' = waiting_for_trigger
        /\ RootReturnsTo' = RootReturnsTo /\ stack \in Seq(Addresses) /\ scenario \in Scenarios
    BY <1>2, ThreadRuns, SameProgram DEF ThreadInv
  <2>2. stack # <<>>
    BY <1>2, <2>1, Moves, RootEnds DEF RootBase
  <2>3. Len(stack) \in Nat \ {0} /\ stack[1] = RootReturnsTo /\ 1 \in 1 .. Len(stack)
    BY <2>1, <2>2, EmptySeq DEF RootBase
  <2>4. CASE Kind(rip) = "return" /\ Len(stack) = 1
    <3>1. Len(stack') = 0 /\ stack' = Below(stack) /\ rip' = RootReturnsTo
      BY <2>1, <2>3, <2>4, Moves
    <3>2. stack' \in Seq(Addresses)
      BY <2>1, <2>2, <3>1, BelowIsSeq
    <3>3. stack' = <<>>
      BY <3>1, <3>2, EmptySeq
    <3> QED BY <1>2, <2>1, <3>1, <3>3 DEF RootBase
  <2>5. CASE Kind(rip) = "return" /\ Len(stack) # 1
    <3>1. 1 \in 1 .. Len(stack) - 1
      BY <2>3, <2>5
    <3>2. stack'[1] = stack[1] /\ Len(stack') = Len(stack) - 1
      BY <2>1, <2>5, <3>1, Moves
    <3>3. stack' # <<>>
      BY <2>3, <2>5, <3>2
    <3> QED BY <2>1, <2>3, <3>2, <3>3 DEF RootBase
  <2>6. CASE Kind(rip) # "return"
    <3>1. stack'[1] = stack[1] /\ Len(stack') # 0
      BY <2>1, <2>3, <2>6, Moves
    <3> QED BY <2>1, <2>3, <3>1 DEF RootBase
  <2> QED BY <2>4, <2>5, <2>6
<1>3. CASE ~waiting_for_trigger' /\ Handle
  <2>1. UNCHANGED threadRest /\ RootReturnsTo' = RootReturnsTo
    BY <1>3, HandlersHold DEF RootReturnsTo, threadRest
  <2>2. CASE Triggered
    BY <2>1, <2>2, AtTrigger DEF RootBase, threadRest
  <2>3. CASE ~Triggered
    BY <1>3, <2>1, <2>3, HandlersHold DEF RootBase, threadRest
  <2> QED BY <2>2, <2>3
<1>4. CASE UNCHANGED vars
  BY <1>4 DEF vars, threadVars, RootBase, RootReturnsTo
<1> QED BY <1>1, <1>2, <1>3, <1>4 DEF Next

LEMMA RootStep ==
  ASSUME EngineInv, FrameInv, RootBase, [Next]_vars,
         NEW root \in SUBSET Addresses, RootCode(root), RootFrame(root)
  PROVE  RootFrame(root)'
<1>1. CASE RunThread
  <2>1. /\ ThreadInv /\ Execute /\ stack \in Seq(Addresses) /\ scenario \in Scenarios
        /\ Len(stack) \in Nat /\ rip \in DOMAIN Code
    BY <1>1, ThreadRuns, Moves, LenProperties DEF ThreadInv
  <2>2. CASE stack = <<>>
    <3>1. rip = scenario.caller
      BY <2>1, <2>2, Moves, RootEnds DEF RootBase
    <3>2. Kind(rip) = "call" /\ Onward(rip) = {scenario.entry}
      BY <2>1, <3>1, ScenarioAssumption DEF ScenarioAssumption, Kind, Code, Onward
    <3>3. rip' = scenario.entry /\ Len(stack') = 1
      BY <2>1, <2>2, <3>2, Moves
    <3> QED BY <3>3 DEF RootFrame, RootCode
  <2>3. CASE stack # <<>> /\ Len(stack) = 1
    <3>1. rip \in root
      BY <2>3 DEF RootFrame
    <3>2. Kind(rip) = "call" => Len(stack') = 2 /\ stack'[2] = rip + 1 /\ rip + 1 \in root
      BY <2>1, <2>3, <3>1, Moves DEF RootCode
    <3>3. Kind(rip) \notin {"call", "return"} => Len(stack') = 1 /\ rip' \in root
      BY <2>1, <2>3, <3>1, Moves DEF RootCode
    <3>4. Kind(rip) = "return" => stack' = <<>>
      <4>1. Kind(rip) = "return" => Len(stack') = 0 /\ stack' \in Seq(Addresses)
        BY <2>1, <2>3, Moves, BelowIsSeq
      <4> QED BY <4>1, EmptySeq
    <3> QED BY <3>2, <3>3, <3>4 DEF RootFrame
  <2>4. CASE Len(stack) > 1
    <3>1. 2 \in 1 .. Len(stack) /\ stack[2] \in root
      BY <2>1, <2>4, EmptySeq DEF RootFrame
    <3>2. Kind(rip) # "return" => Len(stack') # 1 /\ stack'[2] \in root
      BY <2>1, <2>4, <3>1, Moves
    <3>3. CASE Kind(rip) = "return" /\ Len(stack) = 2
      BY <2>1, <3>1, <3>3, Moves DEF RootFrame
    <3>4. CASE Kind(rip) = "return" /\ Len(stack) > 2
      <4>1. 2 \in 1 .. Len(stack) - 1
        BY <2>1, <3>4
      <4>2. stack'[2] = stack[2] /\ Len(stack') = Len(stack) - 1
        BY <2>1, <3>4, <4>1, Moves
      <4> QED BY <2>1, <3>1, <3>4, <4>2 DEF RootFrame
    <3>5. Len(stack) = 2 \/ Len(stack) > 2
      <4>1. PICK n \in Nat : n = Len(stack)
        BY <2>1
      <4>2. n > 1
        BY <2>4, <4>1
      <4>3. n = 2 \/ n > 2
        BY <4>2
      <4> QED BY <4>1, <4>3
    <3> QED BY <3>2, <3>3, <3>4, <3>5 DEF RootFrame
  <2>5. stack = <<>> \/ Len(stack) = 1 \/ Len(stack) > 1
    <3>1. Len(stack) = 0 => stack = <<>>
      BY <2>1, EmptySeq
    <3>2. PICK n \in Nat : n = Len(stack)
      BY <2>1
    <3>3. n = 0 \/ n = 1 \/ n > 1
      OBVIOUS
    <3> QED BY <3>1, <3>2, <3>3
  <2> QED BY <2>2, <2>3, <2>4, <2>5
<1>2. CASE Handle \/ UNCHANGED vars
  BY <1>2, HandlersHold DEF RootFrame, threadRest, vars, threadVars
<1> QED BY <1>1, <1>2 DEF Next

LEMMA LastStep ==
  ASSUME EngineInv, FrameInv, RootBase, RootBase', RootReturnIsLast, [Next]_vars,
         NEW level \in [Addresses -> Nat], ByLevel(level)', ThreadInv'
  PROVE  RootReturnIsLast'
<1>1. CASE RunThread
  <2>1. /\ ThreadInv /\ Execute /\ waiting_for_trigger' = waiting_for_trigger
        /\ RootReturnsTo' = RootReturnsTo /\ scenario \in Scenarios
        /\ executed' \subseteq executed \cup {<<rip, rip'>>}
    BY <1>1, ThreadRuns, SameProgram DEF ThreadInv, Execute
  <2>2. stack # <<>> \/ waiting_for_trigger
    BY <2>1, Moves, RootEnds DEF RootBase
  <2>3. \A edge \in executed : edge[2] # RootReturnsTo
    BY <2>2 DEF RootReturnIsLast
  <2>4. ASSUME stack' # <<>>
        PROVE  rip' # RootReturnsTo
    <3>1. 1 \in 1 .. Len(stack') /\ rip' \in Addresses /\ stack'[1] = RootReturnsTo
      BY <2>1, <2>4, EmptySeq DEF ThreadInv, RootBase
    <3>2. level[stack'[1]] < level[rip']
      BY <3>1 DEF ByLevel
    <3> QED BY <3>1, <3>2
  <2>5. ASSUME stack' = <<>>, waiting_for_trigger
        PROVE  rip' # RootReturnsTo
    BY <2>1, <2>5, ScenarioAssumption DEF RootBase, RootReturnsTo, ThreadInv, ScenarioAssumption, Addresses
  <2> QED BY <2>1, <2>3, <2>4, <2>5 DEF RootReturnIsLast
<1>2. CASE Handle
  <2>1. UNCHANGED threadRest /\ RootReturnsTo' = RootReturnsTo
    BY <1>2, HandlersHold DEF RootReturnsTo, threadRest
  <2>2. waiting_for_trigger' => waiting_for_trigger
    <3>1. CASE Triggered
      BY <3>1, AtTrigger
    <3>2. CASE ~Triggered
      BY <1>2, <3>2, InFlow, InStep
      DEF EngineInv, FlowInv, Handle, FlowOpensWindow, Scan, Stepped, TailHit, DestinationHit,
          HandoffRequested, HotReturnHit, WindowCloses, StepsOn, StepHandsOff, FlowStep, flowRest
    <3> QED BY <3>1, <3>2
  <2> QED BY <2>1, <2>2 DEF RootReturnIsLast, threadRest
<1>3. CASE UNCHANGED vars
  BY <1>3 DEF vars, threadVars, RootReturnIsLast, RootReturnsTo
<1> QED BY <1>1, <1>2, <1>3 DEF Next

\* The suppression stack of a step.
LEMMA StepSuppressionLen ==
  ASSUME EngineInv, SuppressionInv
  PROVE  Len(StepSuppression) <= Len(StepStack)
<1>1. /\ call_return_stack \in Seq(Addresses) /\ trap_suppression_stack \in Seq(BOOLEAN)
      /\ Depth = Len(call_return_stack) /\ Len(call_return_stack) \in Nat
      /\ Len(trap_suppression_stack) \in Nat
      /\ Len(trap_suppression_stack) <= Len(call_return_stack)
  BY LenProperties DEF EngineInv, CountInv, SuppressionInv, Depth
<1>2. CASE DoneKind = "call"
  <2>1. Done + 1 \in Addresses
    BY DEF Done, EngineInv, FlowInv, ThreadInv, CountInv, Addresses
  <2>2. SuppressesCallee \in BOOLEAN
    BY Zenon DEF SuppressesCallee
  <2>3. /\ Len(Append(call_return_stack, Done + 1)) = Len(call_return_stack) + 1
        /\ Len(Append(trap_suppression_stack, SuppressesCallee)) = Len(trap_suppression_stack) + 1
    BY <1>1, <2>1, <2>2, AppendProperties
  <2> DEFINE suppresses == SuppressesCallee
  <2>4. ~StepReturns
    BY <1>2 DEF StepReturns
  <2>5. StepStack = Append(call_return_stack, Done + 1)
    BY <1>2, <2>4 DEF StepStack
  <2>6. StepSuppression = Append(trap_suppression_stack, suppresses)
    <3> HIDE DEF suppresses
    <3>1. StepSuppression =
            CASE DoneKind = "call" -> Append(trap_suppression_stack, suppresses)
              [] StepReturns /\ trap_suppression_stack # <<>> -> Below(trap_suppression_stack)
              [] OTHER -> trap_suppression_stack
      BY DEF StepSuppression, suppresses
    <3> QED BY <1>2, <2>4, <3>1
  <2> QED BY <1>1, <2>3, <2>5, <2>6
<1>3. CASE StepReturns
  <2>1. /\ DoneKind # "call" /\ StepStack = Below(call_return_stack) /\ Len(call_return_stack) > 0
        /\ StepSuppression = IF trap_suppression_stack # <<>> THEN Below(trap_suppression_stack)
                                                              ELSE trap_suppression_stack
    BY <1>1, <1>3 DEF StepReturns, StepStack, StepSuppression
  <2>2. call_return_stack # <<>> /\ (trap_suppression_stack = <<>> => Len(trap_suppression_stack) = 0)
    BY <1>1, <2>1, EmptySeq
  <2>3. Len(Below(call_return_stack)) = Len(call_return_stack) - 1
    BY <1>1, <2>2, BelowIsSeq
  <2>4. trap_suppression_stack # <<>> =>
          Len(Below(trap_suppression_stack)) = Len(trap_suppression_stack) - 1
    BY <1>1, BelowIsSeq
  <2> QED BY <1>1, <2>1, <2>2, <2>3, <2>4
<1>4. CASE DoneKind # "call" /\ ~StepReturns
  BY <1>1, <1>4 DEF StepStack, StepSuppression
<1> QED BY <1>2, <1>3, <1>4

LEMMA NothingSuppressed ==
  ASSUME CountInv', trap_suppression_stack' = <<>>,
         waiting_for_trigger' = FALSE
  PROVE  SuppressionInv'
<1>1. Len(trap_suppression_stack') = 0 /\ Depth' \in Nat
  BY EmptySeq, LenProperties DEF CountInv, Depth
<1> QED BY <1>1 DEF SuppressionInv

LEMMA SuppressionStep ==
  ASSUME EngineInv, EngineInv', FrameInv, SuppressionInv, [Next]_vars
  PROVE  SuppressionInv'
<1>1. CountInv'
  BY DEF EngineInv
<1>2. CASE RunThread
  BY <1>2, ThreadRuns DEF SuppressionInv, RunThread, stackVars
<1>3. CASE Triggered
  <2>1. trap_suppression_stack' = <<>> /\ waiting_for_trigger' = FALSE
    BY <1>3, AtTrigger DEF Triggered, stackVars, SuppressionInv
  <2> QED BY <1>1, <2>1, NothingSuppressed
<1>4. CASE Scan \/ Stepped \/ TailHit \/ DestinationHit \/ HandoffRequested \/ HotReturnHit
           \/ FlowOpensWindow
  <2>1. Flow /\ trap_suppression_stack' = trap_suppression_stack
    BY <1>4 DEF Scan, Stepped, TailHit, DestinationHit, HandoffRequested, HotReturnHit,
                FlowOpensWindow, FlowStep, stackVars
  <2>2. trap_suppression_stack = <<>>
    BY <2>1 DEF Flow, SuppressionInv
  <2>3. waiting_for_trigger' = FALSE
    BY <1>4, <2>1, InFlow
    DEF EngineInv, FlowInv, Scan, Stepped, TailHit, DestinationHit, HandoffRequested, HotReturnHit,
        FlowOpensWindow, flowRest
  <2> QED BY <1>1, <2>1, <2>2, <2>3, NothingSuppressed
<1>5. CASE WindowCloses
  <2>1. trap_suppression_stack' = <<>> /\ waiting_for_trigger' = FALSE
    BY <1>5, InStep DEF EngineInv, FlowInv, WindowCloses, RestoreFlow
  <2> QED BY <1>1, <2>1, NothingSuppressed
<1>6. CASE StepsOn
  <2>1. /\ trap_suppression_stack' = StepSuppression /\ call_return_stack' = StepStack
        /\ waiting_for_trigger' = FALSE /\ backend_mode' = "TrapFlag"
    BY <1>6, InStep DEF EngineInv, FlowInv, StepsOn
  <2> QED BY <2>1, StepSuppressionLen DEF SuppressionInv, Depth
<1>7. CASE StepHandsOff
  <2>1. /\ trap_suppression_stack' = trap_suppression_stack /\ call_return_stack' = call_return_stack
        /\ waiting_for_trigger' = FALSE /\ backend_mode' = "TrapFlag"
    BY <1>7, InStep DEF EngineInv, FlowInv, StepHandsOff, stackVars
  <2> QED BY <2>1 DEF SuppressionInv, Depth
<1>8. CASE UNCHANGED vars
  BY <1>8 DEF vars, SuppressionInv, stackVars, windowVars, Depth
<1> QED BY <1>2, <1>3, <1>4, <1>5, <1>6, <1>7, <1>8 DEF Next, Handle

-----------------------------------------------------------------------------
(* Why a trace stops.                                                      *)

\* A program is followed: it is stepped, or its functions are nested.
Followable == scenario.control_flow_only => Nested

LEMMA SameFollowable ==
  ASSUME scenario' = scenario
  PROVE  Followable' = Followable /\ NotHot' = NotHot /\ \A root : RootCode(root)' = RootCode(root)
<1>1. Nested' = Nested
  BY SameLevels DEF Nested
<1>2. \A root : RootCode(root)' = RootCode(root)
  <2>1. \A a : Place(a)' = Place(a) /\ Kind(a)' = Kind(a) /\ Onward(a)' = Onward(a)
    BY SameProgram, SameCode DEF Place
  <2>2. \A a : Recordable(a)' = Recordable(a)
    BY <2>1 DEF Recordable, AddressKind
  <2> QED BY <2>1, <2>2 DEF RootCode
<1> QED BY <1>1, <1>2 DEF Followable, NotHot, FirstSeen

\* A step of the trace, or of a window, is that of the instruction at last_rip.
LEMMA StepWasMade ==
  ASSUME EngineInv, FrameInv, FollowInv, Followable, Stepping, ~uncounted
  PROVE  last_rip # 0 /\ Made(last_rip) /\ Done = last_rip
<1>1. /\ running = TRUE /\ handed = FALSE /\ waiting_for_trigger = FALSE /\ backend_mode = "TrapFlag"
      /\ trap = TRUE
  BY InStep DEF EngineInv, FlowInv, Stepping, ArmedInv
<1>2. CASE scenario.control_flow_only
  <2>1. PICK level \in [Addresses -> Nat], limit \in [Addresses -> Nat] : PathInv(level, limit)
    BY <1>2 DEF Followable, Nested, FollowInv
  <2>2. Windowed
    BY <1>1, <1>2, <2>1 DEF PathInv, Active, Located
  <2> QED BY <1>1, <2>2 DEF Windowed, Done
<1>3. CASE ~scenario.control_flow_only
  BY <1>1, <1>3 DEF FrameInv, AllStepped, After, Done
<1> QED BY <1>2, <1>3

\* A return with no frame counted is that of the root.
LEMMA RootHasReturned ==
  ASSUME CountInv, NEW a, Made(a), Kind(a) = "return", Depth = 0
  PROVE  stack = <<>> /\ rip = RootReturnsTo /\ call_return_stack = <<>>
<1>1. call_return_stack = <<>>
  BY EmptySeq DEF CountInv, Depth
<1>2. stack = <<>> /\ Frames(call_return_stack)
  BY <1>1 DEF Made, FramesAfter
<1>3. ~Mirror(call_return_stack)
  BY <1>1, <1>2 DEF Mirror
<1> QED BY <1>1, <1>2, <1>3 DEF Frames

LEMMA StoppedStep ==
  ASSUME EngineInv, FrameInv, FollowInv, Followable, StoppedInv, [Next]_vars
  PROVE  StoppedInv'
<1> DEFINE Seen == stack = <<>> /\ rip = RootReturnsTo
           Limitless == scenario.max_events = 0 /\ ~uncounted
<1>1. CASE RunThread
  <2>1. /\ ThreadInv /\ Execute /\ running' = running /\ uncounted' = uncounted
        /\ hot_bypass' = hot_bypass /\ scenario' = scenario /\ refused' = refused
    BY <1>1, ThreadRuns DEF RunThread, history
  <2>2. ASSUME ~running, Limitless
        PROVE  refused
    BY <2>1, <2>2, Moves, RootEnds DEF StoppedInv, ThreadInv
  <2> QED BY <2>1, <2>2 DEF StoppedInv
<1>2. CASE Handle
  <2>1. UNCHANGED threadRest
    BY <1>2, HandlersHold
  <2>2. (uncounted => uncounted') /\ (refused => refused') /\ hot_bypass'.root_stop = FALSE
    <3>1. (uncounted => uncounted') /\ (refused => refused')
      <4>1. uncounted => uncounted'
        BY <1>2 DEF Handle, Triggered, FlowOpensWindow, Scan, Stepped, TailHit, DestinationHit,
          HandoffRequested, HotReturnHit, WindowCloses, StepsOn, StepHandsOff, RestoreFlow, history,
          flowRest
      <4>2. Scan => (refused => refused')
        BY Zenon DEF Scan
      <4>3. ~Scan => refused' = refused
        BY <1>2 DEF Handle, Triggered, FlowOpensWindow, Stepped, TailHit, DestinationHit,
          HandoffRequested, HotReturnHit, WindowCloses, StepsOn, StepHandsOff, history, flowRest
      <4> QED BY <4>1, <4>2, <4>3
    <3>2. Heat => hot_bypass'.root_stop = FALSE
      <4>1. FrameReturn # 0 => Depth # 0
        BY DEF FrameReturn
      <4>2. (scenario.stop_on_root_return /\ FrameReturn # 0 /\ Depth = 0) = FALSE
        BY <4>1
      <4> DEFINE armed == [resume |-> HotResume, return |-> FrameReturn, depth |-> Depth,
               root_stop |-> scenario.stop_on_root_return /\ FrameReturn # 0 /\ Depth = 0]
      <4>3. armed.root_stop = FALSE /\ NoBypass.root_stop = FALSE
        BY <4>2 DEF NoBypass
      <4>4. Heat => hot_bypass' \in {armed, NoBypass, hot_bypass}
        BY DEF Heat
      <4> HIDE DEF armed
      <4> QED BY <4>3, <4>4 DEF StoppedInv
    <3>3. RestoreFlow => hot_bypass'.root_stop = FALSE
      BY DEF RestoreFlow, NoBypass, StoppedInv
    <3>4. HotReturnHit => hot_bypass'.root_stop = FALSE
      <4>1. HotReturnHit => hot_bypass' \in {NoBypass, hot_bypass}
        BY DEF HotReturnHit
      <4>2. NoBypass.root_stop = FALSE /\ hot_bypass.root_stop = FALSE
        BY DEF NoBypass, StoppedInv
      <4> QED BY <4>1, <4>2
    <3>5. hot_bypass' = hot_bypass => hot_bypass'.root_stop = FALSE
      BY DEF StoppedInv
    <3> QED BY <1>2, <3>1, <3>2, <3>3, <3>4, <3>5
      DEF Handle, Triggered, FlowOpensWindow, Scan, Stepped, TailHit, DestinationHit,
        HandoffRequested, WindowCloses, StepsOn, StepHandsOff, Transition, heatVars
  <2> SUFFICES ASSUME ~running', Limitless' PROVE Seen \/ refused'
    <3>1. Seen' = Seen
      BY <2>1 DEF RootReturnsTo, threadRest
    <3> QED BY <2>2, <3>1 DEF StoppedInv
  <2>3. scenario.max_events = 0 /\ ~uncounted /\ (\A n : ~AtLimit(n)) /\ CountInv
    BY <2>1, <2>2 DEF threadRest, AtLimit, EngineInv
  <2>4. CASE Scan
    <3>1. Flow /\ Kind(rip) = "odd"
      BY <2>4, FlowIsActive DEF Scan, FlowStep
    <3> QED BY <2>4, <3>1 DEF Scan
  <2>5. CASE Stepped
    <3>1. Flow
      BY <2>5 DEF Stepped, FlowStep
    <3>2. running = TRUE /\ scenario.control_flow_only
      BY <3>1, FlowIsActive DEF Active
    <3>3. RootReturn
      BY <2>3, <2>5, <3>2 DEF Stepped, Proceed
    <3>4. PICK level \in [Addresses -> Nat], limit \in [Addresses -> Nat] :
            Levels(level) /\ Limits(limit) /\ PathInv(level, limit)
      BY <3>2 DEF Followable, Nested, FollowInv
    <3>5. Made(PendingTail)
      BY <2>3, <2>5, <3>4, SteppedFacts
    <3> QED BY <2>3, <3>3, <3>5, RootHasReturned DEF RootReturn, PendingKind
  <2>6. CASE StepsOn
    <3>1. Stepping /\ running = TRUE
      BY <2>6, InStep DEF EngineInv, FlowInv, StepsOn
    <3>2. DoneKind = "return" /\ Depth = 0
      BY <2>3, <2>6, <3>1 DEF StepsOn
    <3>3. Made(last_rip) /\ Done = last_rip
      BY <2>3, <3>1, StepWasMade
    <3> QED BY <2>3, <3>2, <3>3, RootHasReturned DEF DoneKind
  <2>7. CASE DestinationHit \/ HandoffRequested \/ TailHit \/ FlowOpensWindow
    <3>1. running' = running /\ running = TRUE
      BY <2>3, <2>7, FlowIsActive
      DEF DestinationHit, HandoffRequested, TailHit, FlowOpensWindow, FlowStep, Proceed, flowRest
    <3> QED BY <3>1
  <2>8. CASE HotReturnHit
    <3>1. ~hot_bypass.root_stop /\ Flow
      BY <2>8 DEF StoppedInv, HotReturnHit, FlowStep
    <3>2. running' = running /\ running = TRUE
      BY <2>8, <3>1, FlowIsActive DEF HotReturnHit
    <3> QED BY <3>2
  <2>9. CASE WindowCloses \/ StepHandsOff \/ Triggered
    <3>1. running' = running /\ running = TRUE
      BY <2>9, InStep DEF EngineInv, FlowInv, WindowCloses, StepHandsOff, Triggered, ArmedInv
    <3> QED BY <3>1
  <2> QED BY <1>2, <2>4, <2>5, <2>6, <2>7, <2>8, <2>9 DEF Handle
<1>3. CASE UNCHANGED vars
  BY <1>3 DEF vars, threadVars, heatVars, history, StoppedInv, RootReturnsTo
<1> QED BY <1>1, <1>2, <1>3 DEF Next

-----------------------------------------------------------------------------
(* The return of the root is seen.                                         *)

\* The thread is in the root's own frame, and returns: the engine steps it.
LEMMA LastReturn ==
  ASSUME EngineInv, FrameInv, FollowInv, Followable, RunThread, Unseen,
         Len(stack) = 1, Kind(rip) = "return",
         scenario.control_flow_only /\ backend_mode = "HardwareFlow"
           /\ observation_state = "WaitingForHotReturn" => Depth > 0
  PROVE  /\ call_return_stack = <<>> /\ tf = TRUE
         /\ IF backend_mode = "TrapFlag" THEN last_rip = rip
            ELSE observation_state = "WaitingForSingleStep" /\ PendingTail = rip
<1>1. /\ ThreadInv /\ CountInv /\ PlanInv /\ Awaiting /\ trap = FALSE /\ rip \notin drs
      /\ Depth \in Nat /\ Depth = Len(call_return_stack) /\ scenario \in Scenarios
      /\ rip \in Addresses /\ backend_mode \in {"HardwareFlow", "TrapFlag"}
  BY ThreadRuns DEF Unseen, ArmedInv, Faults, ThreadInv
<1>2. Counted => call_return_stack = <<>>
  <2>1. stack # <<>>
    BY EmptySeq
  <2>2. Counted => Depth = 0
    BY <1>1, <2>1 DEF Counted, Frames, Mirror
  <2> QED BY <1>1, <2>2, EmptySeq DEF CountInv
<1>3. CASE ~scenario.control_flow_only
  <2>1. backend_mode = "TrapFlag" /\ Before
    BY <1>1, <1>3 DEF FrameInv, AllStepped, Unseen
  <2> QED BY <1>1, <1>2, <2>1 DEF Before, Awaiting, IsStepped
<1>4. CASE scenario.control_flow_only
  <2>1. PICK level \in [Addresses -> Nat], limit \in [Addresses -> Nat] :
          Levels(level) /\ Limits(limit) /\ PathInv(level, limit)
    BY <1>4 DEF Followable, Nested, FollowInv
  <2>2. Located(level, limit) /\ ~uncounted
    BY <1>4, <2>1 DEF PathInv, Active, Unseen
  <2>3. ASSUME NEW k \in 1 .. Len(stack), NEW a, Out(k, a)
        PROVE  FALSE
    <3>1. k = Depth + 2 /\ k \in 1 .. 1
      BY <2>2, <2>3 DEF Out
    <3> QED BY <1>1, <3>1
  <2>4. ASSUME Home, pending_block \in Addresses PROVE rip = PendingTail
    <3>1. Inside(rip, pending_block) /\ pending_block \in Nat
      BY <2>4 DEF Home, Addresses
    <3> QED BY <1>1, <3>1, InBlock DEF PendingTail
  <2>5. CASE backend_mode = "TrapFlag"
    <3>1. last_rip = rip /\ Counted
      BY <1>1, <2>2, <2>5 DEF Located, Windowed
    <3> QED BY <1>1, <1>2, <2>5, <3>1 DEF Awaiting, IsStepped
  <2>6. CASE backend_mode = "HardwareFlow" /\ observation_state = "LinearScan"
    BY <1>1, <2>2, <2>6 DEF Located, Scanning, Terminators
  <2>7. CASE backend_mode = "HardwareFlow" /\ observation_state = "WaitingForSingleStep"
    <3>1. OverTail
      BY <2>2, <2>7 DEF Located
    <3>2. Counted
      BY <1>1, <2>2, <3>1 DEF OverTail
    <3>3. rip = PendingTail
      BY <1>1, <2>7 DEF PlanInv
    <3> QED BY <1>1, <1>2, <2>7, <3>2, <3>3 DEF Awaiting, IsStepped
  <2>8. CASE backend_mode = "HardwareFlow" /\ observation_state = "WaitingForTail"
    <3>1. ToTail(limit) /\ rip # PendingTail
      BY <1>1, <2>2, <2>8 DEF Located, PlanInv, Awaiting, IsStepped
    <3> QED BY <2>3, <2>4, <3>1 DEF ToTail, Block, Behind
  <2>9. CASE backend_mode = "HardwareFlow" /\ observation_state = "WaitingForDestination"
    <3>1. ToDestination(limit) /\ rip \notin observed_addresses
      BY <1>1, <2>2, <2>9 DEF Located, Awaiting, IsStepped
    <3>2. rip # PendingTail
      BY <3>1 DEF ToDestination, WatchPlan, Known
    <3> QED BY <2>3, <2>4, <3>1, <3>2 DEF ToDestination, Block, Behind, Arrived, Returning
  <2>10. CASE backend_mode = "HardwareFlow" /\ observation_state = "WaitingForHotReturn"
    <3>1. HotFrame(level) /\ rip \notin observed_addresses /\ Depth > 0
      BY <1>1, <1>4, <2>2, <2>10 DEF Located, ToReturn, Awaiting, IsStepped
    <3> QED BY <1>1, <3>1 DEF HotFrame
  <2>11. observation_state # "Idle" \/ backend_mode = "TrapFlag"
    BY <1>1 DEF Awaiting, IsStepped, IsWatched
  <2> QED BY <1>1, <2>5, <2>6, <2>7, <2>8, <2>9, <2>10, <2>11 DEF PlanInv
<1> QED BY <1>3, <1>4

\* The engine is told of it, and the trace ends, or the window is closed with it, or it is
\* let go.
LEMMA SeenEnds ==
  ASSUME EngineInv, FrameInv, FollowInv, Followable, RootBase, SuppressionInv,
         scenario.stop_on_root_return,
         NEW root \in SUBSET Addresses, RootCode(root), EndInv(root),
         Handle, Unseen, stack = <<>>
  PROVE  ~Unseen'
<1>1. ReturnIsSeen(root) /\ rip = RootReturnsTo /\ Depth = 0
  BY EmptySeq DEF EndInv, RootBase, Unseen, ReturnIsSeen, Depth
<1>2. ~Triggered
  BY DEF Triggered, Unseen
<1>3. CASE backend_mode = "TrapFlag"
  <2>1. last_rip \in root /\ DoneKind = "return" /\ Done = last_rip /\ Recordable(Done)
    BY <1>1, <1>3 DEF ReturnIsSeen, DoneKind, Done, RootCode, Addresses
  <2>2. ~Suppressed
    <3>1. Len(trap_suppression_stack) = 0
      <4>1. Len(trap_suppression_stack) \in Nat
        BY LenProperties DEF EngineInv, CountInv
      <4> QED BY <1>1, <4>1 DEF SuppressionInv
    <3> QED BY <3>1, EmptySeq DEF Suppressed, EngineInv, CountInv
  <2>3. StepEmits
    BY <2>1, <2>2 DEF StepEmits, Terminators
  <2>4. CASE WindowCloses
    BY <1>1, <2>1, <2>4 DEF WindowCloses, Unseen
  <2>5. CASE StepsOn
    BY <1>1, <2>1, <2>3, <2>5 DEF StepsOn, StopTrace, Unseen
  <2>6. CASE StepHandsOff
    BY <2>6 DEF StepHandsOff, Unseen
  <2> QED BY <1>2, <1>3, <2>4, <2>5, <2>6
    DEF Handle, Flow, FlowStep, FlowOpensWindow, Scan, Stepped, TailHit, DestinationHit,
        HandoffRequested, HotReturnHit
<1>4. CASE backend_mode = "HardwareFlow"
  <2>1. /\ observation_state = "WaitingForSingleStep" /\ PendingTail \in root
        /\ PendingKind = "return" /\ scenario.control_flow_only
    BY <1>1, <1>4 DEF ReturnIsSeen, FrameInv, AllStepped
  <2>2. PICK level \in [Addresses -> Nat], limit \in [Addresses -> Nat] :
          Levels(level) /\ Limits(limit) /\ PathInv(level, limit)
    BY <2>1 DEF Followable, Nested, FollowInv
  <2>3. CASE FlowOpensWindow
    <3>1. OverTail
      BY <1>4, <2>1, <2>2 DEF PathInv, Located, Active, Unseen
    <3>2. pending_block # 0
      BY <3>1 DEF OverTail, Block, Addresses
    <3> QED BY <2>1, <2>3, <3>2 DEF FlowOpensWindow, Unseen
  <2>4. CASE Stepped
    <3>1. EventTarget = rip
      BY <2>2, <2>4, SteppedFacts
    <3>2. Edge \notin reported
      BY <1>1, <2>1, <3>1 DEF EndInv, Edge, PendingKind
    <3>3. Emits
      BY <2>1, <3>2 DEF Emits, RootCode
    <3>4. RootReturn
      BY <1>1, <2>1, <3>3 DEF RootReturn
    <3> QED BY <2>1, <2>4, <3>4 DEF Stepped, StopTrace, Unseen
  <2> QED BY <1>2, <1>4, <2>1, <2>3, <2>4
    DEF Handle, Stepping, Scan, TailHit, DestinationHit, HandoffRequested, HotReturnHit,
        WindowCloses, StepsOn, StepHandsOff
<1> QED BY <1>3, <1>4 DEF EngineInv, FlowInv, ArmedInv

\* What has been lost stays so.
LEMMA UnseenBefore ==
  ASSUME EngineInv, Handle, Unseen'
  PROVE  Unseen \/ Triggered
BY InFlow, InStep
DEF Unseen, EngineInv, FlowInv, Handle, FlowOpensWindow, Scan, Stepped, TailHit, DestinationHit,
    HandoffRequested, HotReturnHit, WindowCloses, StepsOn, StepHandsOff, FlowStep, RestoreFlow,
    flowRest, history

LEMMA ProgramIsNotHot ==
  ASSUME NEW entry, NEW depth, Program(entry, depth)
  PROVE  observation_state' # "WaitingForHotReturn"
<1>1. Plan(BlockTail(entry), depth).state \in {"WaitingForTail", "WaitingForDestination"}
  BY PlanWatches
<1> QED BY <1>1 DEF Program, FollowPlan, LinearScan

LEMMA StartIsNotHot ==
  ASSUME NEW entry, NEW depth, StartFlow(entry, depth)
  PROVE  observation_state' # "WaitingForHotReturn"
BY ProgramIsNotHot DEF StartFlow, OpenWindow

\* A loop that runs to its exit, where none becomes hot, is a call that was not followed.
LEMMA HotIsInAFrame ==
  ASSUME EngineInv, EngineInv', Handle, NotHot, ~Triggered,
         backend_mode = "HardwareFlow" /\ observation_state = "WaitingForHotReturn" => Depth > 0,
         backend_mode' = "HardwareFlow", observation_state' = "WaitingForHotReturn"
  PROVE  Depth' > 0
<1>1. CASE FlowOpensWindow
  BY <1>1 DEF FlowOpensWindow, OpenWindow
<1>2. CASE Scan
  <2>1. Plan(rip, Depth).state # "WaitingForHotReturn"
    <3>1. Plan(rip, Depth).state \in {"WaitingForTail", "WaitingForDestination"}
      BY PlanWatches
    <3> QED BY <3>1
  <2>2. \/ StopTrace \/ FollowPlan(rip, Plan(rip, Depth)) \/ UNCHANGED planVars
    BY <1>2 DEF Scan
  <2> QED BY <1>2, <2>1, <2>2 DEF Scan, StopTrace, FollowPlan, planVars
<1>3. CASE Stepped
  <2>1. StopTrace \/ Program(NextEntry, Len(NewStack)) \/ observation_state' = "WaitingForDestination"
    BY <1>3 DEF Stepped, Proceed
  <2> QED BY <2>1, ProgramIsNotHot DEF StopTrace
<1>4. CASE TailHit
  BY <1>4 DEF TailHit
<1>5. CASE DestinationHit
  <2>1. ~ArmsBypass
    BY DEF ArmsBypass, CountsHot, NotHot
  <2>2. StopTrace \/ Program(NextEntry, Len(NewStack))
    BY <1>5, <2>1 DEF DestinationHit, Proceed
  <2> QED BY <2>2, ProgramIsNotHot DEF StopTrace
<1>6. CASE HandoffRequested
  <2>1. PICK entry : StopTrace \/ Program(entry, Depth)
    BY <1>6 DEF HandoffRequested, Proceed
  <2> QED BY <2>1, ProgramIsNotHot DEF StopTrace
<1>7. CASE HotReturnHit
  <2>1. \/ StopTrace \/ Program(rip, Len(call_return_stack'))
        \/ call_return_stack' = call_return_stack
    BY <1>7 DEF HotReturnHit
  <2>2. backend_mode = "HardwareFlow" /\ observation_state = "WaitingForHotReturn"
    BY <1>7 DEF HotReturnHit, FlowStep, Flow
  <2> QED BY <2>1, <2>2, ProgramIsNotHot DEF StopTrace, Depth
<1>8. CASE WindowCloses
  <2>1. call_return_stack' = StepStack /\ (StepStack # <<>> \/ StartFlow(rip, Len(StepStack)))
    BY <1>8 DEF WindowCloses, RestoreFlow, AwaitsReturn
  <2>2. call_return_stack' # <<>> /\ call_return_stack' \in Seq(Addresses)
    BY <2>1, StartIsNotHot DEF EngineInv, CountInv
  <2> QED BY <2>2, EmptySeq DEF Depth
<1>9. CASE StepsOn \/ StepHandsOff
  BY <1>9 DEF StepsOn, StepHandsOff, Stepping
<1> QED BY <1>1, <1>2, <1>3, <1>4, <1>5, <1>6, <1>7, <1>8, <1>9 DEF Handle

\* No return to the root's caller is reported while the root is there.
LEMMA LastIsNotReported ==
  ASSUME EngineInv, FrameInv, FollowInv, Nested, RootReturnIsLast, Handle, ~Triggered,
         stack # <<>>,
         \A edge \in reported : Kind(edge[1]) = "return" => edge[2] # RootReturnsTo
  PROVE  \A edge \in reported' : Kind(edge[1]) = "return" => edge[2] # RootReturnsTo
<1>1. PICK level \in [Addresses -> Nat], limit \in [Addresses -> Nat] :
        Levels(level) /\ Limits(limit) /\ PathInv(level, limit)
  BY DEF Nested, FollowInv
<1>2. CASE Stepped
  <2>1. Edge \in executed /\ reported' \subseteq reported \cup {Edge}
    BY <1>1, <1>2, SteppedFacts
  <2>2. Edge[2] # RootReturnsTo
    BY <2>1 DEF RootReturnIsLast
  <2> QED BY <2>1, <2>2
<1>3. CASE DestinationHit
  <2>1. Flow /\ observation_state = "WaitingForDestination"
    BY <1>3 DEF DestinationHit, FlowStep
  <2>2. Kind(PendingTail) # "return"
    BY <1>1, <2>1, MetFacts DEF WatchPlan, Known
  <2>3. reported' \subseteq reported \cup {Edge} /\ Edge[1] = PendingTail
    BY <1>3 DEF DestinationHit, Transition, Edge
  <2> QED BY <2>2, <2>3
<1>4. CASE ~Stepped /\ ~DestinationHit
  <2>1. reported' = reported
    BY <1>4 DEF Handle, FlowOpensWindow, Scan, TailHit, HandoffRequested, HotReturnHit,
      WindowCloses, StepsOn, StepHandsOff, reportVars
  <2> QED BY <2>1
<1> QED BY <1>2, <1>3, <1>4

LEMMA EndThread ==
  ASSUME EngineInv, FrameInv, FollowInv, Followable, RunThread,
         NEW root \in SUBSET Addresses, RootCode(root), RootFrame(root), EndInv(root)
  PROVE  EndInv(root)'
<1>1. /\ ThreadInv /\ Execute /\ ~Faults /\ scenario' = scenario /\ rip \in DOMAIN Code
      /\ reported' = reported /\ running' = running /\ handed' = handed
      /\ waiting_for_trigger' = waiting_for_trigger /\ backend_mode' = backend_mode
      /\ observation_state' = observation_state /\ pending_block' = pending_block
      /\ call_return_stack' = call_return_stack /\ last_rip' = last_rip
      /\ uncounted' = uncounted /\ left_unseen' = left_unseen
      /\ Depth' = Depth /\ stack \in Seq(Addresses) /\ trap' = tf
  BY ThreadRuns, Moves DEF RunThread, history, ThreadInv
<1>2. /\ PendingTail' = PendingTail /\ PendingKind' = PendingKind
      /\ (\A a : Kind(a)' = Kind(a)) /\ RootReturnsTo' = RootReturnsTo
  BY <1>1, SameCode, SameProgram DEF PendingTail, PendingKind
<1>3. Unseen' = Unseen
  BY <1>1 DEF Unseen
<1>4. ASSUME Unseen, stack' = <<>>
      PROVE  ReturnIsSeen(root)'
  <2>1. stack # <<>>
    BY <1>1, <1>4 DEF EndInv, ReturnIsSeen, Faults
  <2>2. Len(stack') = 0 /\ Len(stack) \in Nat \ {0}
    BY <1>1, <1>4, <2>1, EmptySeq
  <2>3. Kind(rip) = "return" /\ Len(stack) = 1
    BY <1>1, <1>4, <2>1, <2>2, Moves
  <2>4. rip \in root
    BY <2>1, <2>3 DEF RootFrame
  <2>5. /\ call_return_stack = <<>> /\ tf = TRUE
        /\ IF backend_mode = "TrapFlag" THEN last_rip = rip
           ELSE observation_state = "WaitingForSingleStep" /\ PendingTail = rip
    BY <1>4, <2>3, LastReturn DEF EndInv
  <2> QED BY <1>1, <1>2, <2>3, <2>4, <2>5 DEF ReturnIsSeen, PendingKind
<1> QED BY <1>1, <1>2, <1>3, <1>4 DEF EndInv

LEMMA EndHandler ==
  ASSUME EngineInv, EngineInv', FrameInv, FollowInv, Followable, RootBase, SuppressionInv,
         scenario.control_flow_only => Nested /\ RootReturnIsLast /\ NotHot,
         scenario.stop_on_root_return, Handle,
         NEW root \in SUBSET Addresses, RootCode(root), EndInv(root)
  PROVE  EndInv(root)'
<1>1. UNCHANGED threadRest
  BY HandlersHold
<1>2. (\A a : Kind(a)' = Kind(a)) /\ RootReturnsTo' = RootReturnsTo
  BY <1>1, SameCode, SameProgram DEF threadRest
<1>3. CASE Triggered
  <2>1. /\ stack = <<RootReturnsTo>> /\ waiting_for_trigger /\ waiting_for_trigger' = FALSE
        /\ reported' = reported
    BY <1>3, AtTrigger DEF Triggered
  <2>2. stack' # <<>> /\ reported' = {}
    BY <1>1, <2>1 DEF threadRest, EndInv
  <2>3. scenario.control_flow_only => observation_state' # "WaitingForHotReturn"
    BY <1>3, StartIsNotHot DEF Triggered
  <2> QED BY <1>1, <2>1, <2>2, <2>3 DEF EndInv, threadRest
<1>4. CASE ~Triggered
  <2>1. waiting_for_trigger' = FALSE
    BY <1>4, InFlow, InStep
    DEF EngineInv, FlowInv, Handle, FlowOpensWindow, Scan, Stepped, TailHit, DestinationHit,
        HandoffRequested, HotReturnHit, WindowCloses, StepsOn, StepHandsOff, FlowStep, flowRest
  <2> SUFFICES ASSUME Unseen'
               PROVE  /\ stack' # <<>>
                      /\ scenario.control_flow_only =>
                           /\ backend_mode' = "HardwareFlow" /\ observation_state' = "WaitingForHotReturn" =>
                                Depth' > 0
                           /\ \A edge \in reported' : Kind(edge[1]) = "return" => edge[2] # RootReturnsTo
    BY <1>1, <1>2, <2>1 DEF EndInv, threadRest
  <2>2. Unseen
    BY <1>4, UnseenBefore
  <2>3. stack # <<>>
    BY <2>2, SeenEnds
  <2>4. ASSUME scenario.control_flow_only
        PROVE  \A edge \in reported' : Kind(edge[1]) = "return" => edge[2] # RootReturnsTo
    BY <1>4, <2>2, <2>3, <2>4, LastIsNotReported DEF EndInv
  <2>5. ASSUME scenario.control_flow_only, backend_mode' = "HardwareFlow",
               observation_state' = "WaitingForHotReturn"
        PROVE  Depth' > 0
    BY <1>4, <2>2, <2>5, HotIsInAFrame DEF EndInv
  <2> QED BY <1>1, <2>3, <2>4, <2>5 DEF threadRest
<1> QED BY <1>3, <1>4

LEMMA EndStutters ==
  ASSUME UNCHANGED vars, NEW root, EndInv(root)
  PROVE  EndInv(root)'
<1>1. /\ scenario' = scenario /\ \A a : Kind(a)' = Kind(a)
      /\ PendingTail' = PendingTail /\ PendingKind' = PendingKind /\ RootReturnsTo' = RootReturnsTo
  BY SameCode, SameProgram DEF vars, planVars, PendingTail, PendingKind
<1>2. ReturnIsSeen(root)' = ReturnIsSeen(root) /\ Unseen' = Unseen /\ Depth' = Depth
  BY <1>1 DEF vars, threadVars, planVars, stackVars, windowVars, history, ReturnIsSeen, Unseen, Depth
<1> QED BY <1>1, <1>2 DEF vars, threadVars, planVars, windowVars, reportVars, EndInv

\* What is known of the end of every trace, of one that is followed, and of one whose root
\* is recorded.
IsSeen(root) ==
  RootCode(root) /\ scenario.stop_on_root_return /\ Followable
    /\ (scenario.control_flow_only => NotHot)
TraceInv ==
  /\ RootBase /\ SuppressionInv
  /\ Nested => RootReturnIsLast
  /\ Followable => StoppedInv
  /\ \A root \in SUBSET Addresses : RootCode(root) => RootFrame(root)
  /\ \A root \in SUBSET Addresses : IsSeen(root) => EndInv(root)

LEMMA TraceInit == Init => TraceInv
<1> SUFFICES ASSUME Init PROVE TraceInv
  OBVIOUS
<1>1. RootBase
  BY DEF Init, RootBase
<1>2. SuppressionInv
  BY EmptySeq DEF Init, SuppressionInv, Depth
<1>3. RootReturnIsLast
  BY DEF Init, RootReturnIsLast
<1>4. StoppedInv
  BY DEF Init, StoppedInv, NoBypass
<1>5. \A root : RootFrame(root)
  BY DEF Init, RootFrame
<1>6. \A root : EndInv(root)
  BY DEF Init, EndInv, Unseen
<1> QED BY <1>1, <1>2, <1>3, <1>4, <1>5, <1>6 DEF TraceInv

LEMMA TraceStep ==
  EngineInv /\ EngineInv' /\ FrameInv /\ FrameInv' /\ FollowInv /\ FollowInv' /\ TraceInv
    /\ [Next]_vars => TraceInv'
<1> SUFFICES ASSUME EngineInv, EngineInv', FrameInv, FrameInv', FollowInv, FollowInv', TraceInv,
                    [Next]_vars
             PROVE  TraceInv'
  OBVIOUS
<1>1. scenario' = scenario
  BY HandlersHold DEF Next, RunThread, threadRest, vars
<1>2. /\ Followable' = Followable /\ NotHot' = NotHot
      /\ \A root : RootCode(root)' = RootCode(root)
  BY <1>1, SameFollowable
<1>3. RootBase' /\ SuppressionInv'
  BY BaseStep, SuppressionStep DEF TraceInv
<1>4. (Nested => RootReturnIsLast)'
  <2> SUFFICES ASSUME Nested' PROVE RootReturnIsLast'
    OBVIOUS
  <2>1. PICK level \in [Addresses -> Nat], limit \in [Addresses -> Nat] :
          Levels(level) /\ Limits(limit)
    BY <1>1, SameLevels DEF Nested
  <2>2. ByLevel(level)' /\ RootReturnIsLast
    <3>1. Levels(level)' /\ Limits(limit)'
      BY <1>1, <2>1, SameLevels
    <3>2. PathInv(level, limit)'
      BY <3>1 DEF FollowInv
    <3> QED BY <2>1, <3>2 DEF PathInv, Nested, TraceInv
  <2> QED BY <1>3, <2>2, LastStep DEF TraceInv, EngineInv, FlowInv
<1>5. (Followable => StoppedInv)'
  BY <1>2, StoppedStep DEF TraceInv
<1>6. ASSUME NEW root \in SUBSET Addresses, RootCode(root)'
      PROVE  RootFrame(root)'
  BY <1>2, <1>6, RootStep DEF TraceInv
<1>7. ASSUME NEW root \in SUBSET Addresses, IsSeen(root)'
      PROVE  EndInv(root)'
  <2>1. IsSeen(root)
    BY <1>1, <1>2, <1>7 DEF IsSeen
  <2>2. RootCode(root) /\ RootFrame(root) /\ EndInv(root) /\ Followable /\ RootBase
        /\ SuppressionInv /\ scenario.stop_on_root_return
        /\ (scenario.control_flow_only => Nested /\ RootReturnIsLast /\ NotHot)
    BY <2>1 DEF IsSeen, TraceInv, Followable
  <2> QED BY <2>2, EndThread, EndHandler, EndStutters DEF Next
<1> QED BY <1>3, <1>4, <1>5, <1>6, <1>7 DEF TraceInv

LEMMA TraceInvariance == Spec => []TraceInv
<1>1. EngineInv /\ FrameInv /\ FollowInv /\ TraceInv /\ [Next]_vars =>
        EngineInv' /\ FrameInv' /\ FollowInv' /\ TraceInv'
  BY EngineStep, FrameStep, FollowStep, TraceStep
<1>2. Init => EngineInv /\ FrameInv /\ FollowInv /\ TraceInv
  BY EngineInit, FrameInit, FollowInit, TraceInit
<1> QED BY <1>1, <1>2, PTL DEF Spec

\* A trace without a limit that is followed and has counted every frame stops in one place:
\* where the root has just returned, unless the decoder has refused what the thread came to.
THEOREM NothingElseStopsTheTrace ==
  Spec => [](Followable =>
    (~running /\ scenario.max_events = 0 /\ ~uncounted =>
       (stack = <<>> /\ rip = RootReturnsTo) \/ refused))
<1>1. TraceInv => (Followable =>
        (~running /\ scenario.max_events = 0 /\ ~uncounted =>
           (stack = <<>> /\ rip = RootReturnsTo) \/ refused))
  BY DEF TraceInv, StoppedInv
<1> QED BY <1>1, TraceInvariance, PTL

\* A trace that is to stop with the root stops when the root returns, and not before, where
\* the root's code is recorded, the thread is followed and no loop is left to run to its
\* exit: the one return the engine takes for the root's is the root's, and it is not missed
\* unless a window has closed with it, or a window or a handoff has left a frame uncounted.
THEOREM RootReturnIsSeen ==
  Spec => [](RootIsRecorded /\ Followable /\ (scenario.control_flow_only => NotHot)
               => RootReturnEndsTrace)
<1>1. TraceInv =>
        (RootIsRecorded /\ Followable /\ (scenario.control_flow_only => NotHot)
           => RootReturnEndsTrace)
  <2> SUFFICES ASSUME TraceInv, RootIsRecorded, Followable, scenario.control_flow_only => NotHot,
                      scenario.stop_on_root_return, ~handed, ~waiting_for_trigger, ~Faults
               PROVE  /\ stack = <<>> => ~running \/ left_unseen \/ uncounted
                      /\ ~running /\ scenario.max_events = 0 /\ ~uncounted =>
                           stack = <<>> \/ refused
    BY DEF RootReturnEndsTrace
  <2>1. PICK root \in SUBSET Addresses : RootCode(root)
    BY DEF RootIsRecorded
  <2>2. EndInv(root)
    BY <2>1 DEF TraceInv, IsSeen
  <2>3. ASSUME stack = <<>>
        PROVE  ~running \/ left_unseen \/ uncounted
    BY <2>2, <2>3 DEF EndInv, Unseen, ReturnIsSeen, Faults
  <2> QED BY <2>3 DEF TraceInv, StoppedInv
<1> QED BY <1>1, TraceInvariance, PTL
=============================================================================
