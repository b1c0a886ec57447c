-------------------------- MODULE AutoStartProofs --------------------------
(***************************************************************************)
(* The breakpoint of the helper's wait, for any finite number of threads   *)
(* of the game and any number of invocations.                              *)
(***************************************************************************)
EXTENDS AutoStart, FiniteSetTheorems, TLAPS

Flags ==
  /\ started \in [Exports -> BOOLEAN]
  /\ installed \in BOOLEAN /\ active \in BOOLEAN
  /\ matched \in BOOLEAN /\ signaled \in BOOLEAN
  /\ step_over \in [Threads -> BOOLEAN] /\ rearm \in [Threads -> BOOLEAN]
  /\ signal_match \in [Threads -> BOOLEAN]
  /\ overlooked \in BOOLEAN /\ crashed \in BOOLEAN

HelperPlaces == Ended \cup {"none", "config", "install", "arm", "waiting", "settle", "restore",
                            "remove", "load", "export", "bootstrap", "pipe", "configure", "start"}
ThreadPlaces == {"away", "at", "breakpoint", "hit", "counted", "stepping", "single_step",
                 "again", "done"}

Places ==
  /\ helper \in [Exports -> HelperPlaces]
  /\ code_byte \in {"original", "int3"}
  /\ wait_result \in {"none", "object", "timeout"}
  /\ thread \in [Threads -> ThreadPlaces]
  /\ method \in [Threads -> {"target", "other"}]
  /\ calls \in Nat

Failure == unwritten \in {"none", "put back", "again", "restore"}

\* The count covers the threads that have been counted in and not out.
Crossing == {t \in Threads : thread[t] \in {"stepping", "single_step", "again", "done"}}
CountCovers == step_over_count \in Nat /\ step_over_count >= Cardinality(Crossing)

\* The handler is there, and lets threads in, while the helper arms and waits; at
\* other times it lets nobody in.
ActiveInWait == IF helper[Waiter] \in {"arm", "waiting"} THEN installed ELSE ~active

\* Before the wait no thread has met the breakpoint.
Early ==
  helper[Waiter] \in {"none", "config", "install", "arm"} =>
    /\ code_byte = "original"
    /\ \A t \in Threads : thread[t] \in {"away", "at"}

\* After a settling that saw everybody off, and before the wait, nobody is on the way.
NobodyLeft ==
  helper[Waiter] \notin {"waiting", "settle"} /\ ~overlooked => \A t \in Threads : ~InFlight(t)

\* While the byte is the original one, somebody is going to write the breakpoint
\* again or to announce the match, or has failed to.
Returns(t) ==
  \/ thread[t] \in {"hit", "again"}
  \/ thread[t] \in {"counted", "stepping", "single_step"} /\ (rearm[t] \/ signal_match[t])
  \/ thread[t] = "done" /\ signal_match[t]
SomebodyReturns ==
  helper[Waiter] = "waiting" /\ ~matched /\ unwritten # "again" /\ code_byte # "int3" =>
    \E t \in Threads : Returns(t)

IInv == /\ Flags /\ Places /\ Failure /\ CountCovers /\ ActiveInWait /\ Early /\ NobodyLeft
        /\ BreakpointRemoved /\ SomebodyReturns

-----------------------------------------------------------------------------
LEMMA PlacesOfHelper ==
  HelperPlaces = Ended \cup {"none", "config", "install", "arm", "waiting", "settle", "restore",
                   "remove"} \cup {AgentStages[i] : i \in DOMAIN AgentStages}
BY DEF HelperPlaces, Ended, AgentStages

LEMMA IInvInit ==
  ASSUME IsFiniteSet(Threads), AutoStartInit
  PROVE  IInv
<1>1. Flags
  BY Zenon DEF AutoStartInit, Flags
<1>2. Places
  BY DEF AutoStartInit, Places, HelperPlaces, ThreadPlaces, Exports
<1>3. CountCovers
  <2>1. Crossing = {}
    BY DEF AutoStartInit, Crossing
  <2> QED BY <2>1, FS_EmptySet DEF AutoStartInit, CountCovers
<1>4. Failure /\ ActiveInWait /\ Early /\ NobodyLeft /\ BreakpointRemoved /\ SomebodyReturns
  BY DEF AutoStartInit, Failure, ActiveInWait, Early, NobodyLeft, BreakpointRemoved, SomebodyReturns, InFlight,
         Exports, Waiter
<1> QED BY <1>1, <1>2, <1>3, <1>4 DEF IInv

-----------------------------------------------------------------------------
(* The helper's steps.                                                     *)

\* The steps outside of the wait move only the helper, and never into the wait.
Aside(x) ==
  Bootstrap(x) \/ Prepare(x) \/ SkipsWait(x) \/ ConfigFails(x) \/ WaitFails \/ Advance(x)

Waits == {"arm", "waiting", "settle", "restore", "remove"}
Starts == {"none", "config", "install"}

LEMMA AsideMoves ==
  ASSUME IInv, NEW x \in Exports, Aside(x)
  PROVE  /\ helper' \in [Exports -> HelperPlaces]
         /\ \/ helper'[Waiter] = helper[Waiter]
            \/ /\ helper[Waiter] \notin Waits /\ helper'[Waiter] \notin Waits
               /\ helper'[Waiter] \in Starts => helper[Waiter] \in Starts
<1> USE DEF HelperGoesTo, IInv, Places, HelperPlaces, Ended, Waits, Starts, Exports, Waiter
<1>1. CASE Bootstrap(x)
  BY <1>1 DEF Bootstrap
<1>2. CASE Prepare(x)
  BY <1>2 DEF Prepare
<1>3. CASE SkipsWait(x)
  BY <1>3 DEF SkipsWait
<1>4. CASE ConfigFails(x)
  BY <1>4 DEF ConfigFails
<1>5. CASE WaitFails
  BY <1>5 DEF WaitFails
<1>6. CASE Advance(x)
  <2> SUFFICES ASSUME NEW i \in 1 .. 6, helper[x] = AgentStages[i],
                      HelperGoesTo(x, AgentStages[i + 1]) \/ HelperGoesTo(x, AgentFailures[i])
               PROVE  /\ helper' \in [Exports -> HelperPlaces]
                      /\ \/ helper'[Waiter] = helper[Waiter]
                         \/ helper[Waiter] \notin Waits /\ helper'[Waiter] \notin (Waits \cup Starts)
    BY <1>6 DEF Advance, AgentFailures
  <2>1. AgentStages[i] \in {"load", "export", "bootstrap", "pipe", "configure", "start"}
    BY DEF AgentStages
  <2>2. AgentStages[i + 1] \in {"export", "bootstrap", "pipe", "configure", "start", "Started"}
    BY DEF AgentStages
  <2>3. AgentFailures[i] \in Ended
    BY DEF AgentFailures
  <2>4. helper[x] \notin Waits
    BY <2>1
  <2>5. PICK place \in HelperPlaces \ (Waits \cup Starts) : helper' = [helper EXCEPT ![x] = place]
    <3>1. {AgentStages[i + 1], AgentFailures[i]} \subseteq HelperPlaces \ (Waits \cup Starts)
      BY <2>2, <2>3
    <3> QED BY <3>1
  <2> QED BY <2>4, <2>5
<1> QED BY <1>1, <1>2, <1>3, <1>4, <1>5, <1>6 DEF Aside

LEMMA AsideKeeps ==
  ASSUME IInv, NEW x \in Exports, Aside(x)
  PROVE  IInv'
<1>1. UNCHANGED <<code, waitState, threadVars, wait_result, overlooked>>
  BY DEF Aside, Bootstrap, Prepare, SkipsWait, ConfigFails, WaitFails, Advance
<1>2. Flags'
  <2>1. started' \in [Exports -> BOOLEAN]
    BY Zenon DEF IInv, Flags, Aside, Bootstrap, Prepare, SkipsWait, ConfigFails, WaitFails, Advance
  <2> QED BY <1>1, <2>1, Zenon DEF IInv, Flags, waitState, threadVars, threadLocals
<1>3. Places' /\ Failure' /\ CountCovers'
  BY <1>1, AsideMoves DEF IInv, Places, Failure, CountCovers, Crossing, code, waitState, threadVars, threadLocals
<1>4. ActiveInWait' /\ Early' /\ NobodyLeft' /\ BreakpointRemoved' /\ SomebodyReturns'
  BY <1>1, AsideMoves
  DEF IInv, ActiveInWait, Early, NobodyLeft, BreakpointRemoved, SomebodyReturns, Returns, InFlight,
      code, waitState, threadVars, threadLocals, Waits, Starts
<1> QED BY <1>2, <1>3, <1>4 DEF IInv

\* The steps of the wait itself.
WaitStep == Install \/ ArmWait \/ WaitReturns \/ Settled \/ SettleTimeout \/ Restore \/ Remove

LEMMA WaitKeeps ==
  ASSUME IsFiniteSet(Threads), IInv, WaitStep
  PROVE  IInv'
<1> USE DEF HelperGoesTo, Writes, code
<1>1. UNCHANGED <<started, threadVars>>
  BY DEF WaitStep, Install, ArmWait, WaitReturns, Settled, SettleTimeout, Restore, Remove
<1>2. Flags'
  <2>1. /\ installed' \in BOOLEAN /\ active' \in BOOLEAN /\ matched' \in BOOLEAN
        /\ signaled' \in BOOLEAN /\ overlooked' \in BOOLEAN
    <3> USE DEF IInv, Flags, waitState
    <3>1. CASE Install
      BY <3>1, Zenon DEF Install
    <3>2. CASE ArmWait
      BY <3>2, Zenon DEF ArmWait
    <3>3. CASE WaitReturns
      BY <3>3, Zenon DEF WaitReturns
    <3>4. CASE Settled
      BY <3>4, Zenon DEF Settled, Uncounted
    <3>5. CASE SettleTimeout
      BY <3>5, Zenon DEF SettleTimeout
    <3>6. CASE Restore \/ Remove
      BY <3>6, Zenon DEF Restore, Remove
    <3> QED BY <3>1, <3>2, <3>3, <3>4, <3>5, <3>6 DEF WaitStep
  <2> QED BY <1>1, <2>1, Zenon DEF IInv, Flags, threadVars, threadLocals
<1>3. Places'
  <2>1. /\ helper' \in [Exports -> HelperPlaces]
        /\ wait_result' \in {"none", "object", "timeout"}
    BY DEF IInv, Places, HelperPlaces, Ended, Exports, Waiter, WaitStep, Install, ArmWait,
       WaitReturns, Settled, SettleTimeout, Restore, Remove
  <2>2. code_byte' \in {"original", "int3"}
    BY DEF IInv, Places, WaitStep, Install, ArmWait, WaitReturns, Settled, SettleTimeout, Restore,
       Remove
  <2> QED BY <1>1, <2>1, <2>2 DEF IInv, Places, threadVars
<1>10. Failure'
  BY DEF IInv, Failure, WaitStep, Install, ArmWait, WaitReturns, Settled, SettleTimeout, Restore, Remove
<1>4. CountCovers'
  <2>1. CASE Install
    <3>1. Crossing' = {}
      BY <1>1, <2>1 DEF IInv, Early, Crossing, Install, threadVars
    <3> QED BY <2>1, <3>1, FS_EmptySet DEF CountCovers, Install
  <2>2. CASE UNCHANGED step_over_count
    BY <1>1, <2>2 DEF IInv, CountCovers, Crossing, threadVars
  <2> QED BY <2>1, <2>2 DEF WaitStep, ArmWait, WaitReturns, Settled, SettleTimeout, Restore, Remove, waitState
<1>5. ActiveInWait'
  BY DEF IInv, ActiveInWait, Places, Exports, Waiter, WaitStep, Install, ArmWait, WaitReturns, Settled,
     SettleTimeout, Restore, Remove, waitState
<1>6. Early'
  BY <1>1 DEF IInv, Early, Places, Exports, Waiter, WaitStep, Install, ArmWait, WaitReturns, Settled,
     SettleTimeout, Restore, Remove, waitState, threadVars
<1>7. NobodyLeft'
  <2> USE DEF IInv, NobodyLeft, InFlight, Places, Exports, Waiter
  <2>1. CASE Settled
    <3>1. Crossing = {}
      <4>1. IsFiniteSet(Crossing)
        BY FS_Subset DEF Crossing
      <4> QED BY <2>1, <4>1, FS_EmptySet, FS_CardinalityType DEF CountCovers, Settled
    <3> QED BY <1>1, <2>1, <3>1 DEF Settled, Crossing, Uncounted, threadVars
  <2>2. CASE Install \/ ArmWait \/ WaitReturns \/ SettleTimeout \/ Restore \/ Remove
    BY <1>1, <2>2 DEF Install, ArmWait, WaitReturns, SettleTimeout, Restore, Remove, threadVars
  <2> QED BY <2>1, <2>2 DEF WaitStep
<1>8. BreakpointRemoved'
  BY DEF IInv, BreakpointRemoved, Places, Exports, Waiter, WaitStep, Install, ArmWait, WaitReturns, Settled,
     SettleTimeout, Restore, Remove, waitState
<1>9. SomebodyReturns'
  BY <1>1 DEF IInv, SomebodyReturns, Places, Exports, Waiter, WaitStep, Install, ArmWait, WaitReturns, Settled,
     SettleTimeout, Restore, Remove, waitState
<1> QED BY <1>2, <1>3, <1>4, <1>5, <1>6, <1>7, <1>8, <1>9, <1>10 DEF IInv

-----------------------------------------------------------------------------
(* The steps of a thread of the game.                                      *)

\* No step of a thread moves the helper.
LEMMA ThreadLeavesHelper ==
  ASSUME NEW t \in Threads, ThreadStep(t)
  PROVE  UNCHANGED <<helper, started, wait_result, overlooked, installed, active>>
BY DEF ThreadStep, Invoke, ExecuteByte, Refused, TakeBreakpoint, PutBack, CountIn, TakeStep,
       WriteAgain, CountOut, waitState, helperVars

LEMMA ThreadKeepsFlags ==
  ASSUME IInv, NEW t \in Threads, ThreadStep(t)
  PROVE  Flags'
<1>1. UNCHANGED <<started, overlooked, installed, active>>
  BY ThreadLeavesHelper
<1>2. matched' \in BOOLEAN /\ signaled' \in BOOLEAN
  <2> USE DEF IInv, Flags, waitState
  <2>1. CASE CountOut(t)
    BY <2>1, Zenon DEF CountOut
  <2>2. CASE UNCHANGED <<matched, signaled>>
    BY <2>2
  <2> QED BY <2>1, <2>2 DEF ThreadStep, Invoke, ExecuteByte, Refused, TakeBreakpoint, PutBack,
        CountIn, TakeStep, WriteAgain
<1>3. crashed' \in BOOLEAN
  <2> USE DEF IInv, Flags
  <2>1. crashed' = crashed \/ crashed' = TRUE
    BY DEF ThreadStep, Invoke, ExecuteByte, Refused, TakeBreakpoint, PutBack, CountIn, TakeStep,
           WriteAgain, CountOut
  <2> QED BY <2>1, Zenon
<1>4. /\ step_over' \in [Threads -> BOOLEAN] /\ rearm' \in [Threads -> BOOLEAN]
      /\ signal_match' \in [Threads -> BOOLEAN]
  <2> USE DEF IInv, Flags, threadLocals
  <2>1. CASE PutBack(t)
    BY <2>1, Zenon DEF PutBack
  <2>2. CASE TakeStep(t)
    BY <2>2, Zenon DEF TakeStep
  <2>3. CASE CountOut(t)
    BY <2>3, Zenon DEF CountOut
  <2>4. CASE UNCHANGED threadLocals
    BY <2>4
  <2> QED BY <2>1, <2>2, <2>3, <2>4 DEF ThreadStep, Invoke, ExecuteByte, Refused, TakeBreakpoint,
        CountIn, WriteAgain
<1> QED BY <1>1, <1>2, <1>3, <1>4, Zenon DEF IInv, Flags

LEMMA ThreadKeepsPlaces ==
  ASSUME IInv, NEW t \in Threads, ThreadStep(t)
  PROVE  Places' /\ Failure'
<1>1. helper' = helper /\ wait_result' = wait_result
  BY ThreadLeavesHelper
<1>2. code_byte' \in {"original", "int3"}
  BY DEF IInv, Places, Writes, code, ThreadStep, Invoke, ExecuteByte, Refused, TakeBreakpoint,
         PutBack, CountIn, TakeStep, WriteAgain, CountOut
<1>6. calls' \in Nat
  <2>1. calls' = calls \/ calls' = calls + 1
    BY DEF ThreadStep, Invoke, ExecuteByte, Refused, TakeBreakpoint, PutBack, CountIn, TakeStep,
           WriteAgain, CountOut
  <2> QED BY <2>1 DEF IInv, Places
<1>5. Failure'
  BY DEF IInv, Failure, Writes, code, ThreadStep, Invoke, ExecuteByte, Refused, TakeBreakpoint,
         PutBack, CountIn, TakeStep, WriteAgain, CountOut
<1>3. method' \in [Threads -> {"target", "other"}]
  BY DEF IInv, Places, ThreadStep, Invoke, ExecuteByte, Refused, TakeBreakpoint, PutBack, CountIn,
         TakeStep, WriteAgain, CountOut
<1>4. thread' \in [Threads -> ThreadPlaces]
  <2> USE DEF IInv, Places, ThreadPlaces, ThreadGoesTo
  <2>1. CASE Invoke(t) \/ ExecuteByte(t) \/ Refused(t)
    BY <2>1 DEF Invoke, ExecuteByte, Refused
  <2>2. CASE TakeBreakpoint(t) \/ PutBack(t) \/ CountIn(t)
    BY <2>2 DEF TakeBreakpoint, PutBack, CountIn
  <2>3. CASE TakeStep(t) \/ WriteAgain(t) \/ CountOut(t)
    BY <2>3 DEF TakeStep, WriteAgain, CountOut
  <2> QED BY <2>1, <2>2, <2>3 DEF ThreadStep
<1> QED BY <1>1, <1>2, <1>3, <1>4, <1>5, <1>6 DEF IInv, Places

LEMMA ThreadKeepsCount ==
  ASSUME IsFiniteSet(Threads), IInv, NEW t \in Threads, ThreadStep(t)
  PROVE  CountCovers'
<1> USE DEF ThreadGoesTo
<1>1. IsFiniteSet(Crossing)
  BY FS_Subset DEF Crossing
<1>2. Cardinality(Crossing) \in Nat /\ step_over_count \in Nat /\ step_over_count >= Cardinality(Crossing)
  BY <1>1, FS_CardinalityType DEF IInv, CountCovers
<1>3. CASE CountIn(t)
  <2>1. Crossing' = Crossing \cup {t}
    BY <1>3 DEF IInv, Places, CountIn, Crossing
  <2>2. Cardinality(Crossing') <= Cardinality(Crossing) + 1
    <3>1. Cardinality(Crossing \cup {t}) = IF t \in Crossing THEN Cardinality(Crossing)
                                           ELSE Cardinality(Crossing) + 1
      BY <1>1, FS_AddElement
    <3> QED BY <1>2, <2>1, <3>1
  <2>3. Cardinality(Crossing') \in Nat
    BY <1>1, <2>1, FS_AddElement, FS_CardinalityType
  <2> QED BY <1>2, <1>3, <2>2, <2>3 DEF CountCovers, CountIn
<1>4. CASE CountOut(t)
  <2>1. t \in Crossing
    BY <1>4 DEF CountOut, Crossing
  <2>2. Cardinality(Crossing \ {t}) = Cardinality(Crossing) - 1
    BY <1>1, <2>1, FS_RemoveElement
  <2>3. Cardinality(Crossing \ {t}) \in Nat
    BY <1>1, FS_RemoveElement, FS_CardinalityType
  <2>4. CASE installed
    <3>1. Crossing' = Crossing \ {t}
      BY <1>4, <2>4 DEF IInv, Places, CountOut, Crossing
    <3>2. step_over_count' = step_over_count - 1
      BY <1>4, <2>4 DEF CountOut
    <3> QED BY <1>2, <2>2, <2>3, <3>1, <3>2 DEF CountCovers
  <2>5. CASE ~installed
    BY <1>4, <2>5 DEF IInv, CountCovers, CountOut, Crossing
  <2> QED BY <2>4, <2>5
<1>5. CASE ExecuteByte(t)
  <2>1. Crossing' \in SUBSET Crossing
    BY <1>5 DEF IInv, Places, ExecuteByte, Crossing
  <2>2. Cardinality(Crossing') \in Nat /\ Cardinality(Crossing') <= Cardinality(Crossing)
    BY <1>1, <2>1, FS_Subset, FS_CardinalityType
  <2> QED BY <1>2, <1>5, <2>2 DEF CountCovers, ExecuteByte, waitState
<1>6. CASE Invoke(t) \/ Refused(t) \/ TakeBreakpoint(t) \/ PutBack(t) \/ TakeStep(t) \/ WriteAgain(t)
  <2>1. Crossing' = Crossing /\ step_over_count' = step_over_count
    BY <1>6 DEF IInv, Places, Invoke, Refused, TakeBreakpoint, PutBack, TakeStep, WriteAgain, Crossing,
                waitState
  <2> QED BY <1>2, <2>1 DEF CountCovers
<1> QED BY <1>3, <1>4, <1>5, <1>6 DEF ThreadStep

\* Outside of the wait and its settling nobody is let in, and nobody writes.
LEMMA ThreadKeepsPeace ==
  ASSUME IInv, NEW t \in Threads, ThreadStep(t)
  PROVE  ActiveInWait' /\ Early' /\ NobodyLeft' /\ BreakpointRemoved'
<1>1. UNCHANGED <<helper, overlooked, installed, active>>
  BY ThreadLeavesHelper
<1>2. ActiveInWait'
  BY <1>1 DEF IInv, ActiveInWait
<1>3. CASE helper[Waiter] \in {"none", "config", "install", "arm"}
  <2>1. Invoke(t) \/ ExecuteByte(t)
    BY <1>3 DEF IInv, Early, ThreadStep, Refused, TakeBreakpoint, PutBack, CountIn, TakeStep,
                WriteAgain, CountOut
  <2>2. Early' /\ \A u \in Threads : ~InFlight(u)'
    BY <1>1, <1>3, <2>1
    DEF IInv, Places, Early, InFlight, Invoke, ExecuteByte, ThreadGoesTo, code
  <2> QED BY <1>1, <1>2, <1>3, <2>2 DEF NobodyLeft, BreakpointRemoved, Early, code
<1>4. CASE helper[Waiter] \notin {"none", "config", "install", "arm", "waiting", "settle"} /\ ~overlooked
  <2>1. ~InFlight(t) /\ ~active
    BY <1>4 DEF IInv, NobodyLeft, ActiveInWait
  <2>2. Invoke(t) \/ ExecuteByte(t) \/ Refused(t)
    BY <2>1 DEF InFlight, ThreadStep, TakeBreakpoint, PutBack, CountIn, TakeStep, WriteAgain, CountOut
  <2>3. \A u \in Threads : ~InFlight(u)'
    BY <1>4, <2>1, <2>2 DEF IInv, Places, NobodyLeft, InFlight, Invoke, ExecuteByte, Refused, ThreadGoesTo
  <2>4. UNCHANGED code
    BY <2>2 DEF Invoke, ExecuteByte, Refused
  <2> QED BY <1>1, <1>2, <1>4, <2>3, <2>4 DEF IInv, Early, NobodyLeft, BreakpointRemoved, code
<1>5. CASE helper[Waiter] \in {"waiting", "settle"} \/ overlooked
  <2>1. CASE helper[Waiter] \notin {"none", "config", "install", "arm"}
    BY <1>1, <1>2, <1>5, <2>1 DEF IInv, Early, NobodyLeft, BreakpointRemoved
  <2> QED BY <1>3, <2>1
<1> QED BY <1>3, <1>4, <1>5

\* The thread that puts the byte back returns; what is on record for a thread is
\* changed by its own steps only, and lasts until the byte is written or the match
\* announced.
LEMMA ThreadKeepsReturn ==
  ASSUME IInv, NEW t \in Threads, ThreadStep(t)
  PROVE  SomebodyReturns'
<1> USE DEF ThreadGoesTo, Writes, code
<1> SUFFICES ASSUME helper'[Waiter] = "waiting", ~matched', unwritten' # "again", code_byte' # "int3"
             PROVE  \E u \in Threads : Returns(u)'
  BY DEF SomebodyReturns
<1>1. helper[Waiter] = "waiting"
  BY ThreadLeavesHelper
<1>2. ~matched
  BY DEF IInv, Flags, ThreadStep, Invoke, ExecuteByte, Refused, TakeBreakpoint, PutBack, CountIn,
         TakeStep, WriteAgain, CountOut, waitState
<1>3. CASE PutBack(t)
  BY <1>3 DEF IInv, Places, Flags, PutBack, Returns
<1>4. CASE ~PutBack(t)
  <2>1. code_byte # "int3" /\ unwritten # "again"
    BY <1>4 DEF ThreadStep, Invoke, ExecuteByte, Refused, TakeBreakpoint, CountIn, TakeStep,
                WriteAgain, CountOut
  <2>2. PICK u \in Threads : Returns(u)
    BY <1>1, <1>2, <2>1 DEF IInv, SomebodyReturns
  <2>3. CASE u # t
    <3>1. /\ thread'[u] = thread[u] /\ rearm'[u] = rearm[u] /\ signal_match'[u] = signal_match[u]
      BY <2>3 DEF IInv, Places, Flags, ThreadStep, Invoke, ExecuteByte, Refused, TakeBreakpoint,
                  PutBack, CountIn, TakeStep, WriteAgain, CountOut, threadLocals
    <3> QED BY <2>2, <3>1 DEF Returns
  <2>4. CASE u = t
    <3> USE DEF IInv, Places, Flags, Returns, threadLocals
    <3>1. CASE ExecuteByte(t) \/ CountIn(t) \/ Refused(t)
      BY <2>1, <2>2, <2>4, <3>1 DEF ExecuteByte, CountIn, Refused
    <3>2. CASE TakeStep(t)
      BY <1>2, <2>2, <2>4, <3>2 DEF TakeStep, Rearms
    <3>3. CASE CountOut(t)
      <4>1. installed
        BY <1>1 DEF ActiveInWait
      <4> QED BY <1>2, <2>2, <2>4, <3>3, <4>1 DEF CountOut
    <3> QED BY <1>4, <2>2, <2>4, <3>1, <3>2, <3>3
        DEF ThreadStep, Invoke, TakeBreakpoint, WriteAgain
  <2> QED BY <2>3, <2>4
<1> QED BY <1>3, <1>4

-----------------------------------------------------------------------------
LEMMA IInvStep ==
  ASSUME IsFiniteSet(Threads), IInv, [AutoStartNext]_autoStartVars
  PROVE  IInv'
<1>1. ASSUME NEW x \in Exports, Aside(x) PROVE IInv'
  BY <1>1, AsideKeeps
<1>2. CASE WaitStep
  BY <1>2, WaitKeeps
<1>3. ASSUME NEW t \in Threads, ThreadStep(t) PROVE IInv'
  BY <1>3, ThreadKeepsFlags, ThreadKeepsPlaces, ThreadKeepsCount, ThreadKeepsPeace, ThreadKeepsReturn
  DEF IInv
<1>4. CASE UNCHANGED autoStartVars
  <2>1. Flags'
    BY <1>4, Zenon DEF IInv, Flags, autoStartVars, helperVars, waitState, threadVars, threadLocals
  <2> QED BY <1>4, <2>1 DEF IInv, Places, Failure, CountCovers, Crossing, ActiveInWait, Early, NobodyLeft,
        BreakpointRemoved, SomebodyReturns, Returns, InFlight, autoStartVars, helperVars, code, waitState,
        threadVars, threadLocals
<1>5. Waiter \in Exports
  BY DEF Waiter, Exports
<1> QED BY <1>1, <1>2, <1>3, <1>4, <1>5 DEF AutoStartNext, HelperStep, Aside, WaitStep

\* The invariant holds in every state of the helper and the game.
THEOREM IInvHolds == ASSUME IsFiniteSet(Threads) PROVE AutoStartSpec => []IInv
BY IInvInit, IInvStep, PTL DEF AutoStartSpec

\* Every variable has its type; in particular the count of the threads that step
\* over the breakpoint never goes below zero, whatever they are interrupted by.
THEOREM TypeCorrect == ASSUME IsFiniteSet(Threads) PROVE AutoStartSpec => []AutoStartTypeOK
<1>1. IInv => AutoStartTypeOK
  <2> SUFFICES ASSUME IInv PROVE AutoStartTypeOK
    OBVIOUS
  <2>1. Flags
    BY DEF IInv
  <2>2. Places /\ Failure /\ step_over_count \in Nat
    BY DEF IInv, CountCovers
  <2> QED BY <2>1, <2>2, PlacesOfHelper, Zenon DEF AutoStartTypeOK, Flags, Places, Failure, ThreadPlaces
<1> QED BY <1>1, IInvHolds, PTL

\* While the helper waits, the breakpoint is in place whenever no thread is on its
\* way over it: a thread that puts the byte back always writes it again.
THEOREM BreakpointStaysInPlace == ASSUME IsFiniteSet(Threads) PROVE AutoStartSpec => []BreakpointStays
<1>1. IInv => BreakpointStays
  BY DEF IInv, SomebodyReturns, Returns, BreakpointStays, InFlight
<1> QED BY <1>1, IInvHolds, PTL

\* A wait that has ended leaves the code as it was, unless the settling did not see
\* every thread off.
THEOREM BreakpointIsRemoved == ASSUME IsFiniteSet(Threads) PROVE AutoStartSpec => []BreakpointRemoved
<1>1. IInv => BreakpointRemoved
  BY DEF IInv
<1> QED BY <1>1, IInvHolds, PTL
=============================================================================
