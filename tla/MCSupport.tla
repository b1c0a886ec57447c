------------------------------ MODULE MCSupport ------------------------------
(***************************************************************************)
(* The parts around the tracer, each in a behaviour of its own: subject    *)
(* names the part that moves, and the others stay where they begin.        *)
(***************************************************************************)
EXTENDS AutoStart, AsyncHandoff, LoaderBridge

CONSTANTS Pids, MaxPolls, MaxChanges, Unlimited, MaxCaptures, MaxSample, MaxRules,
          MaxInstructions, MaxWindows, MaxEvents, MaxSteps

VARIABLES subject

VARIABLES
    visible, agent, selectedPid, traceRunning, traceWriting, moduleNames, requests, busy,
    action, moduleRefresh, changes
controllerVars ==
    <<visible, agent, selectedPid, traceRunning, traceWriting, moduleNames, requests, busy,
      action, moduleRefresh, changes>>

VARIABLES depth_rules, probe_rules, request, outcome, depth_filters, value_probes, typed
rulesVars == <<depth_rules, probe_rules, request, outcome, depth_filters, value_probes, typed>>

VARIABLES
    policy, registers, memory, rip, noted, seen_edges, events, entry_slot, windows, report, program_steps
extenderVars ==
    <<policy, registers, memory, rip, noted, seen_edges, events, entry_slot, windows, report, program_steps>>

-----------------------------------------------------------------------------
(* What the user may type: names of a module with two spellings, of another *)
(* one, of a system module and of none; numbers at both ends of the range   *)
(* and beyond, and in other bases; probes that merge, that do not fit and   *)
(* that are wrong.                                                          *)

ModuleOf == [name \in {"game", "Game", "game.dll", "unity", "kernel32", "gone"} |->
    CASE name = "gone" -> "no module"
      [] name \in {"unity", "kernel32"} -> name
      [] OTHER -> "game"]
Lower == [name \in DOMAIN ModuleOf |-> IF name = "Game" THEN "game" ELSE name]
RangeOf == [m \in {"game", "unity", "kernel32"} |->
    CASE m = "unity" -> [base |-> 4, size |-> 4]
      [] m = "game" -> [base |-> 8, size |-> 3]
      [] OTHER -> [base |-> 14, size |-> 2]]

Word(word) == [word |-> word, value |-> -1, based |-> -1]
Depth(key, name, depth, mode) == [key |-> key, name |-> name, depth |-> depth, mode |-> mode]
Level(n) == [word |-> "number", value |-> n, based |-> n]
Octal == [word |-> "number", value |-> 5, based |-> 4]      \* as 010 is ten or eight
Hex == [word |-> "number", value |-> -1, based |-> 2]       \* as 0x2
DepthRules ==
    { Depth("outside", "", Word("single"), "tf"), Depth("anon", "", Level(Unlimited + 1), "edge"),
      Depth("module", "game", Level(2), "tf"), Depth("module", "Game", Level(0), ""),
      Depth("module", "game.dll", Word("all"), "edge"), Depth("module", "unity", Octal, "tf"),
      Depth("module", "unity", Level(Unlimited + 2), "edge"),
      Depth("anon", "", Octal, "tf"), Depth("outside", "", Hex, ""), Depth("module", "game", Hex, "tf"),
      Depth("module", "gone", Level(1), "edge"), Depth("module", "unity", Level(2), "full"),
      Depth("module", "kernel32", Level(1), "edge") }

At(module, number) == [module |-> module, number |-> number]
Capture(kind, parts, reg, address, size) ==
    [kind |-> kind, parts |-> parts, reg |-> reg, address |-> address, offset |-> 1, size |-> size]
Reg == Capture("reg", 2, "rcx", At("", 0), 0)
Mem == Capture("mem", 3, "none", At("kernel32", 1), MaxSample)
Ptr == Capture("ptr", 4, "rdx", At("", 0), 1)
TooLong == Capture("mem", 3, "none", At("", 5), MaxSample + 1)

Probe(kind, address, captures, steps, watches) ==
    [kind |-> kind, address |-> address, captures |-> captures, steps |-> steps,
     exit |-> "leave", watches |-> watches]
WatchAt(number) == [address |-> At("game", number), size |-> 1]
ProbeRules ==
    { Probe("capture", At("", 5), <<Reg, Mem>>, 0, <<>>), Probe("capture", At("unity", 1), <<Ptr>>, 0, <<>>),
      Probe("capture", At("", 2), <<Ptr, Mem, Reg>>, 0, <<>>),
      Probe("capture", At("", 2), <<Reg, TooLong>>, 0, <<>>),
      Probe("capture", At("gone", 1), <<Reg>>, 0, <<>>),
      Probe("step", At("unity", 1), <<>>, 3, <<>>), Probe("write", At("", 2), <<>>, 2, <<<<WatchAt(0)>>>>),
      Probe("write", At("", 2), <<>>, 2, <<<<WatchAt(0), WatchAt(1)>>, <<WatchAt(2), WatchAt(3)>>>>) }
Windows == {"kernel32"}

-----------------------------------------------------------------------------
(* The code the extender walks: a loop that fills memory; loads through     *)
(* pointers; a store that is read back, whole, overlapped, and after one    *)
(* whose value is not known; hidden operands; a part of a register; and a   *)
(* block that is too long.                                                  *)

Operand(type, reg, disp, width) == [type |-> type, reg |-> reg, disp |-> disp, width |-> width]
R(reg, width) == Operand("register", reg, 0, width)
M(reg, disp, width) == Operand("memory", reg, disp, width)
Imm(value) == Operand("immediate", "rip", value, "q")
N == Operand("none", "rip", 0, "q")
Ins(op, dst, src) == [op |-> op, dst |-> dst, src |-> src]
Block(body, next) == [body |-> body, next |-> next]
Code == [b \in 1..8 |->
    CASE b = 1 -> Block(<<Ins("mov", M("rax", 0, "q"), R("rbx", "q")), Ins("lea", R("rbx", "d"), M("rip", 6, "q")),
                          Ins("add", R("rax", "q"), Imm(2)), Ins("mov", R("rbx", "b"), M("rax", 12, "b"))>>, 1..8)
      [] b = 2 -> Block(<<Ins("mov", R("rbx", "q"), M("rax", 0, "q")), Ins("mov", M("rbx", 0, "b"), Imm(2)),
                          Ins("mov", R("rax", "q"), M("rbx", 0, "q")), Ins("mov", M("rax", 1, "d"), R("rbx", "d"))>>, {1, 4})
      [] b = 3 -> Block(<<Ins("mov", M("rax", 0, "q"), Imm(8)), Ins("mov", R("rbx", "q"), M("rax", 0, "q")),
                          Ins("add", M("rbx", 0, "b"), Imm(1)), Ins("dec", R("rbx", "q"), N),
                          Ins("mov", M("rbx", 2, "b"), R("rbx", "b"))>>, {1, 5})
      [] b = 4 -> Block(<<Ins("push", N, R("rax", "q")), Ins("lea", R("rbx", "q"), M("rip", 3, "q")),
                          Ins("mul", N, R("rbx", "q")), Ins("mov", M("rax", 0, "b"), Imm(1)),
                          Ins("pop", R("rbx", "q"), N)>>, {1, 3})
      [] b = 5 -> Block(<<Ins("mov", R("rbx", "q"), M("rip", 8, "q")), Ins("mov", R("rax", "q"), M("rbx", 0, "q")),
                          Ins("mov", M("rax", 0, "b"), Imm(2)), Ins("mov", R("rax", "b"), Imm(1)),
                          Ins("mov", M("rax", 8, "b"), Imm(2))>>, {6, 7})
      [] b = 6 -> Block(<<Ins("mov", M("rip", 10, "q"), R("rax", "q")), Ins("mov", M("rip", 10, "b"), Imm(2)),
                          Ins("mov", R("rbx", "q"), M("rip", 10, "q")), Ins("mov", M("rbx", 0, "b"), Imm(1)),
                          Ins("zero", R("rbx", "d"), N)>>, {1, 3})
      [] b = 7 -> Block(<<Ins("mov", M("rip", 10, "q"), Imm(8)), Ins("mov", R("rbx", "q"), M("rip", 8, "q")),
                          Ins("mov", R("rax", "q"), M("rbx", 1, "q")), Ins("mov", M("rip", 10, "q"), R("rax", "q")),
                          Ins("mov", R("rbx", "q"), M("rip", 10, "q")), Ins("mov", M("rbx", 0, "b"), Imm(1))>>, {1, 2})
      [] OTHER -> Block(<<Ins("sub", R("rax", "q"), Imm(1)), Ins("mov", M("rax", 0, "b"), Imm(1)),
                          Ins("mov", R("rbx", "q"), M("rip", 8, "q")), Ins("sub", R("rax", "q"), Imm(1)),
                          Ins("mov", M("rax", 1, "b"), R("rbx", "b")), Ins("add", R("rax", "q"), M("rip", 5, "b")),
                          Ins("add", R("rax", "q"), Imm(1))>>, {1, 2})]
Starts == {[rax |-> a, rbx |-> 1, rsp |-> 14] : a \in {8, 10}}
Memory0 == [a \in 0..15 |-> CASE a \in {8, 9} -> 2 [] a \in {10, 11} -> 1 [] a \in 4..7 -> a - 4 [] OTHER -> 0]
Pointers == {8, 11}

-----------------------------------------------------------------------------

C == INSTANCE TraceController
F == INSTANCE FilterRules
X == INSTANCE BlockExtender

vars == <<subject, autoStartVars, handoffVars, bridgeVars, controllerVars, rulesVars, extenderVars>>

Subjects == {"autostart", "handoff", "bridge", "controller", "rules", "extender"}

Init ==
    /\ subject \in Subjects
    /\ AutoStartInit /\ HandoffInit /\ BridgeInit /\ C!Init /\ F!Init /\ X!Init
    /\ subject = "handoff" \/ backend_mode = "HardwareFlow"
    /\ subject = "extender" \/ (policy = "EveryHit" /\ rip = 1 /\ registers["rax"] = 8)

\* Only this part moves.
InAutoStart == subject = "autostart" /\ UNCHANGED <<subject, handoffVars, bridgeVars, controllerVars, rulesVars, extenderVars>>
InHandoff ==
    /\ subject = "handoff" /\ unhandled = NoThread
    /\ UNCHANGED <<subject, autoStartVars, bridgeVars, controllerVars, rulesVars, extenderVars>>
InBridge == subject = "bridge" /\ UNCHANGED <<subject, autoStartVars, handoffVars, controllerVars, rulesVars, extenderVars>>
InController == subject = "controller" /\ UNCHANGED <<subject, autoStartVars, handoffVars, bridgeVars, rulesVars, extenderVars>>
InRules ==
    /\ subject = "rules" /\ outcome # "crashed"
    /\ UNCHANGED <<subject, autoStartVars, handoffVars, bridgeVars, controllerVars, extenderVars>>

InExtender == subject = "extender" /\ UNCHANGED <<subject, autoStartVars, handoffVars, bridgeVars, controllerVars, rulesVars>>

AutoStartMoves ==
    \/ \E x \in Exports :    \* bound: one export is called in a behaviour
          InAutoStart /\ (\A y \in Exports : helper[y] = "none") /\ Bootstrap(x)
    \/ InAutoStart /\ HelperStep
    \/ \E t \in Threads : InAutoStart /\ ThreadStep(t)

\* Bounds: only the second thread ends, and the first one creates only it.
HandoffMoves ==
    \/ InHandoff /\ Exit(2)
    \/ \E t \in Tasks : \/ InHandoff /\ Move(t)
                        \/ InHandoff /\ Create(t) /\ (t > 2 => made'[1] # t)
                        \/ InHandoff /\ Exception(t)
    \/ InHandoff /\ WorkerStep
    \/ InHandoff /\ StopBegins
    \/ InHandoff /\ StopEnds

BridgeMoves ==
    \/ InBridge /\ Start
    \/ InBridge /\ Stop
    \/ InBridge /\ AcceptLoop
    \/ \E h \in Handles : \/ InBridge /\ Sends(h)
                          \/ InBridge /\ Disconnect(h)
                          \/ \E p \in LoaderPids : InBridge /\ Connect(h, p)
    \/ \E n \in Pipes : \/ InBridge /\ SessionLoop(n)
                        \/ InBridge /\ LoadAgent(n)
                        \/ InBridge /\ SendEnds(n)

ControllerMoves ==
    \/ \E p \in Pids : \/ InController /\ C!Appear(p)
                       \/ InController /\ C!Vanish(p)
                       \/ InController /\ C!AgentMoves(p)
                       \/ InController /\ C!Select(p)
    \/ InController /\ C!Poll
    \/ InController /\ C!Serves
    \/ InController /\ C!ServeFails
    \/ InController /\ C!Replies
    \/ InController /\ C!RefreshModules
    \/ InController /\ C!ActionStep
    \/ \E kind \in C!Kinds : InController /\ C!Begin(kind)

RulesMoves ==
    \/ InRules /\ F!TypeDepthRule
    \/ InRules /\ F!TypeProbeRule
    \/ InRules /\ F!ClearRules
    \/ InRules /\ F!Configure

ExtenderMoves ==
    \/ \E b \in DOMAIN Code : InExtender /\ X!Run(b)
    \/ \E v \in Pointers : InExtender /\ X!OtherStores(v)
    \/ InExtender /\ X!ProcessEvent

Next == AutoStartMoves \/ HandoffMoves \/ BridgeMoves \/ ControllerMoves \/ RulesMoves \/ ExtenderMoves

\* The threads, isolates and timers of each part are scheduled: the helper's
\* thread; the handoff worker and the thread in Stop; the accept loop and the
\* loop of every session; the poll, the commands, their answers, the module
\* refresh and the action.
Fairness ==
    /\ WF_autoStartVars(subject = "autostart" /\ HelperStep)
    /\ WF_handoffVars(subject = "handoff" /\ unhandled = NoThread /\ WorkerStep)
    /\ WF_handoffVars(subject = "handoff" /\ unhandled = NoThread /\ StopEnds)
    /\ WF_bridgeVars(subject = "bridge" /\ AcceptLoop)
    /\ \A n \in Pipes : WF_bridgeVars(subject = "bridge" /\ SessionLoop(n))
    /\ WF_controllerVars(subject = "controller" /\ C!Poll)
    /\ WF_controllerVars(subject = "controller" /\ C!Serves)
    /\ WF_controllerVars(subject = "controller" /\ C!Replies)
    /\ WF_controllerVars(subject = "controller" /\ C!RefreshModules)
    /\ WF_controllerVars(subject = "controller" /\ C!ActionStep)

Spec == Init /\ [][Next]_vars /\ Fairness

-----------------------------------------------------------------------------
(* The properties of the parts.                                            *)

\* Every variable of every part has its type.
TypeOK == AutoStartTypeOK /\ HandoffTypeOK /\ BridgeTypeOK /\ C!TypeOK /\ F!TypeOK /\ X!TypeOK

\* Depth filters do what the user meant, probes capture what was typed
\* (FilterRules).
RulesAsEntered == F!RulesAsEntered

\* The accesses added to a block are the thread's (BlockExtender).
AccessesAreReal == X!AccessesAreReal

\* The interface comes to show what is (TraceController).
ViewSettles == subject = "controller" => C!ViewSettles
=============================================================================
