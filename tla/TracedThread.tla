---------------------------- MODULE TracedThread ----------------------------
(***************************************************************************)
(* The traced thread under the engine of HardwareFlow: a program of a few  *)
(* instructions of size one, the processor that runs it with its debug     *)
(* registers and its trap flag, and where the session's configuration puts *)
(* an address (src/core/depth_filter, src/core/decoder).                   *)
(*                                                                         *)
(* A scenario is a program with the options it is traced under.  Address 0 *)
(* is no address, and a return address is the one after its call.          *)
(***************************************************************************)
EXTENDS Integers, Sequences

CONSTANTS
  Scenarios,     \* programs and options
  MaxBlock,      \* bound: kMaxBlockInstructions, 256 in the code
  MaxStack       \* bound: frames on the thread's stack

\* IsHardwareTerminator.  exit: the system call that ends the thread.
Terminators == {"call", "jump", "jcc", "return", "syscall", "exit"}

\* odd: bytes the decoder refuses, and the processor does not.
InstructionKinds == Terminators \cup {"other", "odd"}

Addresses == Nat \ {0}
Instructions == [kind : InstructionKinds, direct : BOOLEAN, to : SUBSET Addresses]

\* A conditional jump is direct, and a direct transfer has one target; what is no transfer
\* goes on behind itself.  The traced function is called from code of no interest, and
\* with its return the thread ends.  Depths are numbers of 32 bits in the code.
ScenarioAssumption ==
  /\ MaxBlock \in Nat \ {0} /\ MaxStack \in Nat \ {0}
  /\ \A s \in Scenarios :
       /\ DOMAIN s.code \subseteq Addresses
       /\ \A a \in DOMAIN s.code :
            /\ s.code[a] \in Instructions
            /\ s.code[a].direct => \E t \in s.code[a].to : s.code[a].to = {t}
            /\ s.code[a].kind = "jcc" => s.code[a].direct
            /\ s.code[a].kind \in {"other", "exit"} => s.code[a].to = {}
       /\ {s.caller, s.caller + 1} \subseteq DOMAIN s.code
       /\ s.code[s.caller].kind = "call" /\ s.code[s.caller].to = {s.entry}
       /\ s.code[s.caller + 1].kind = "exit"
       /\ s.entry # s.caller
       /\ s.max_call_depth \in Nat /\ s.max_events \in Nat
       /\ \A p \in DOMAIN s.rules : s.rules[p].max_call_depth \in Nat
       /\ DOMAIN s.probes \subseteq Addresses
ASSUME ScenarioAssumption

VARIABLES
  scenario,
  rip, stack,    \* the thread, and the return addresses of its frames
  drs, tf,       \* the enabled debug registers and the trap flag
  trap,          \* a single step is done and its exception is to be delivered
  executed       \* history: transfers the thread has made

threadVars == <<rip, stack, drs, tf, trap, executed>>

Top(s) == s[Len(s)]
Below(s) == SubSeq(s, 1, Len(s) - 1)

Code == scenario.code
Kind(a) == IF a \in DOMAIN Code THEN Code[a].kind ELSE "odd"
Direct(a) == Code[a].direct
Target(a) == IF Direct(a) THEN CHOOSE t \in Code[a].to : TRUE ELSE 0

-----------------------------------------------------------------------------
(* The processor.  An enabled debug register is met before the instruction at  *)
(* its address runs, and met again when the handler leaves it enabled: nothing *)
(* in the code sets the resume flag.                                           *)

Faults == trap \/ rip \in drs

Successors ==
  IF Kind(rip) = "return"
  THEN {Top(stack)}
  ELSE Code[rip].to \cup
       (IF Kind(rip) \in {"other", "odd", "jcc", "syscall"} THEN {rip + 1} ELSE {})

Execute ==
  /\ ~Faults /\ rip \in DOMAIN Code
  /\ Kind(rip) = "call" => Len(stack) < MaxStack
  /\ Kind(rip) = "return" => stack # <<>>
  /\ rip' \in Successors
  /\ stack' = CASE Kind(rip) = "call" -> Append(stack, rip + 1)
                [] Kind(rip) = "return" -> Below(stack)
                [] OTHER -> stack
  /\ executed' = IF Kind(rip) \in Terminators
                 THEN executed \cup {<<rip, rip'>>} ELSE executed
  /\ trap' = tf
  /\ UNCHANGED <<drs, tf>>

-----------------------------------------------------------------------------
(* Where an address is: in a system module, a module with a depth rule, a     *)
(* tracked module, another image, or executable memory of no module.          *)

Places == {"system", "ruled", "tracked", "image", "anonymous", "unknown"}

Place(a) == IF a \in DOMAIN Code THEN scenario.place[a] ELSE "unknown"

\* ResolveExecutionAddress.
AddressKind(a) ==
  CASE Place(a) \in {"ruled", "tracked"} -> "TrackedModule"
    [] Place(a) = "system" -> "SystemModule"
    [] Place(a) = "image" -> "OutsideImage"
    [] Place(a) = "anonymous" -> "AnonymousExecutable"
    [] OTHER -> "Unknown"

HasRule(a) == Place(a) \in DOMAIN scenario.rules

\* ResolveCallDepthLimitForAddress: a place's rule, or the option.
DepthLimit(a) ==
  IF HasRule(a) THEN scenario.rules[Place(a)].max_call_depth
                ELSE scenario.max_call_depth

\* ResolveExecutionModeForAddress.
TrapFlagMode(a) ==
  /\ AddressKind(a) \notin {"SystemModule", "Unknown"}
  /\ HasRule(a) /\ scenario.rules[Place(a)].trap_flag

\* ResolveTrapWindowRange: the module, or the region of memory.
Region(a) == {b \in DOMAIN Code : scenario.place[b] = scenario.place[a]}

Recordable(a) ==
  \/ AddressKind(a) \in {"TrackedModule", "AnonymousExecutable"}
  \/ AddressKind(a) = "OutsideImage" /\ scenario.trace_outside_modules

\* ShouldFollowKnownCallTarget, and what ShouldSuppressTrapFlagCall denies.
Follows(t, depth) == Recordable(t) /\ depth < DepthLimit(t)

-----------------------------------------------------------------------------
(* AnalyzeBasicBlock.                                                      *)

Ends(entry) == {a \in entry .. entry + MaxBlock - 1 :
                  Kind(a) \in Terminators \cup {"odd"}}
Truncated(entry) == Ends(entry) = {}
BlockTail(entry) == CHOOSE a \in Ends(entry) : \A b \in Ends(entry) : a <= b
Decodes(entry) == Truncated(entry) \/ Kind(BlockTail(entry)) # "odd"
Inside(a, entry) == ~Truncated(entry) /\ a \in entry .. BlockTail(entry)
=============================================================================
