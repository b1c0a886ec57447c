---------------------------- MODULE BlockExtender ----------------------------
(***************************************************************************)
(* The memory accesses the extender adds to a trace.  An event says only   *)
(* that a block ran and which registers the thread had when it arrived at  *)
(* the next one.  The recorder's worker takes the events one by one, walks *)
(* each block again from the registers kept from the event before, knows   *)
(* or does not know each register, and reports the addresses it can        *)
(* compute.  It does so later than the thread: memory may have changed,    *)
(* and an arrival that was not reported is not there to start from.        *)
(*                                                                         *)
(* A word has two digits, each a cell of memory.  Widths: "q" is a 64-bit  *)
(* word, "d" a 32-bit half whose write clears the other half, "b" a part   *)
(* of 8 or 16 bits whose write leaves the rest.                            *)
(***************************************************************************)
EXTENDS Integers, Sequences, FiniteSets, SequencesExt

CONSTANTS
    Code,            \* block -> [body |-> its instructions, next |-> the blocks after it]
    Starts,          \* the registers a trace may begin with
    Memory0,         \* what memory holds at first
    Pointers,        \* what another thread may store in the heap
    MaxInstructions, \* kMaxExtendedInstructions
    MaxWindows,      \* kMaxStaticWindowsPerInstruction
    MaxEvents,       \* bound: events in the queue
    MaxSteps         \* bound: steps of the program

VARIABLES
    policy,          \* the hit policy: "FirstSeen" or "EveryHit"
    registers,       \* of the thread
    memory,
    rip,             \* the block the thread is at
    noted,           \* history: its arrival there is in an event
    seen_edges,
    events,          \* what the worker has not taken yet
    entry_slot,      \* the registers kept from the last event
    windows,         \* the static windows that are written
    report,          \* what the last event added, and (history) what the thread did
    program_steps    \* bound

extenderVars ==
    <<policy, registers, memory, rip, noted, seen_edges, events, entry_slot, windows, report, program_steps>>

Digit == 4
Word == Digit * Digit
Addresses == 0..(Word - 1)
Registers == {"rax", "rbx", "rsp"}

Low(value, width) == IF width = "q" THEN value ELSE value % Digit
Size(width) == IF width = "q" THEN 2 ELSE 1
CellsOf(address, size) == IF size = 2 THEN {address, (address + 1) % Word} ELSE {address}

\* A write of a part of a register.
Merge(old, value, width) ==
    CASE width = "q" -> value
      [] width = "d" -> value % Digit
      [] OTHER -> (old - (old % Digit)) + (value % Digit)

\* Four ranges: nothing, a data section of a module, private memory, the stack.
Region(address) == address \div Digit
Section == 1
Heap == 2
Stack == 3
Committed(address, size) == \A c \in CellsOf(address, size) : Region(c) # 0
Private(address) == Region(address) \in {Heap, Stack}

Load(cells, address, width) ==
    cells[address] + (IF width = "q" THEN Digit * cells[(address + 1) % Word] ELSE 0)
Put(cells, address, width, value) ==
    [c \in Addresses |-> CASE c = address -> value % Digit
                           [] c = (address + 1) % Word /\ width = "q" -> value \div Digit
                           [] OTHER -> cells[c]]

-----------------------------------------------------------------------------
(* Instructions: [op, dst, src], an operation with the operand it writes and *)
(* the one it reads.  Operands: [type, reg, disp, width], a register, an     *)
(* immediate value or the memory at a displacement from a register.  push,   *)
(* pop and mul have operands that are not written in the instruction.        *)

HiddenOperands == {"push", "pop", "mul"}

\* What an operation makes of its two operands.
Computes(op, lhs, rhs) ==
    CASE op = "add" -> (lhs + rhs) % Word
      [] op = "sub" -> ((lhs - rhs) + Word) % Word
      [] op = "dec" -> ((lhs - 1) + Word) % Word
      [] op = "zero" -> 0
      [] OTHER -> rhs

\* How an instruction uses its memory operand, if it has one.
Mode(ins) ==
    IF ins.op = "lea" THEN "address"
    ELSE IF ins.dst.type = "memory" THEN (IF ins.op = "mov" THEN "write" ELSE "rw")
    ELSE IF ins.src.type = "memory" THEN "read" ELSE "none"
MemoryOperand(ins) == IF ins.dst.type = "memory" THEN ins.dst ELSE ins.src

-----------------------------------------------------------------------------
(* The processor.                                                          *)

EffectiveAddress(s, o) == ((IF o.reg = "rip" THEN 0 ELSE s.regs[o.reg]) + o.disp) % Word

Value(s, o) ==
    CASE o.type = "register" -> Low(s.regs[o.reg], o.width)
      [] o.type = "memory" -> Load(s.memory, EffectiveAddress(s, o), o.width)
      [] OTHER -> o.disp

Execute(s, ins) ==
    LET dst == ins.dst
        rhs == IF ins.op = "lea" THEN EffectiveAddress(s, ins.src) ELSE Value(s, ins.src)
        result == Computes(ins.op, Value(s, dst), rhs)
        at == EffectiveAddress(s, MemoryOperand(ins))
        top == ((s.regs["rsp"] - 2) + Word) % Word
        did == [mode |-> Mode(ins), address |-> IF Mode(ins) = "none" THEN 0 ELSE at,
                size |-> Size(MemoryOperand(ins).width),
                value |-> CASE Mode(ins) = "read" -> rhs
                            [] Mode(ins) \in {"write", "rw"} -> Low(result, dst.width)
                            [] OTHER -> 0]
        regs == CASE ins.op = "push" -> [s.regs EXCEPT !["rsp"] = top]
                  [] ins.op = "pop" ->
                       [s.regs EXCEPT ![dst.reg] = Load(s.memory, s.regs["rsp"], "q"), !["rsp"] = (@ + 2) % Word]
                  [] ins.op = "mul" -> [s.regs EXCEPT !["rax"] = (@ * rhs) % Word]
                  [] dst.type = "register" /\ ins.op \notin HiddenOperands -> [s.regs EXCEPT ![dst.reg] = Merge(@, result, dst.width)]
                  [] OTHER -> s.regs
        cells == CASE ins.op = "push" -> Put(s.memory, top, "q", rhs)
                   [] dst.type = "memory" /\ ins.op # "push" -> Put(s.memory, at, dst.width, Low(result, dst.width))
                   [] OTHER -> s.memory
    IN [regs |-> regs, memory |-> cells, did |-> Append(s.did, did)]

Executed(block) ==
    FoldLeft(Execute, [regs |-> registers, memory |-> memory, did |-> <<>>], Code[block].body)

-----------------------------------------------------------------------------
(* The walk.  A register is known or not; stores of known values are kept  *)
(* in an overlay; the rest of memory is read as it is now.                 *)

Known(value) == [known |-> TRUE, value |-> value]
Unknown == [known |-> FALSE, value |-> 0]

InitializeContext(context) ==
    [regs |-> [r \in Registers |-> Known(context[r])], overlay |-> <<>>, budget |-> 1, accesses |-> {}]

ReadRegister(w, o) ==
    IF w.regs[o.reg].known THEN Known(Low(w.regs[o.reg].value, o.width)) ELSE Unknown

WriteRegister(w, o, value) ==
    LET old == IF w.regs[o.reg].known THEN w.regs[o.reg].value ELSE 0
    IN [w EXCEPT !.regs[o.reg] = Known(Merge(old, value, o.width))]

\* A plausible mistake: a register that is written keeps its old value.
Mutant_KeepsOldValue(w, o) == w

MarkOperandRegisterUnknown(w, o) ==
    IF o.type = "register" THEN [w EXCEPT !.regs[o.reg] = Unknown] ELSE w

TryComputeOperandAddress(w, o) ==
    IF o.reg = "rip" THEN Known(o.disp)
    ELSE IF w.regs[o.reg].known THEN Known((w.regs[o.reg].value + o.disp) % Word) ELSE Unknown

\* The last store of the walk to this very cell.
Overlay(w, address, size) ==
    LET matches == {k \in DOMAIN w.overlay : w.overlay[k].address = address /\ w.overlay[k].size = size}
    IN IF matches = {} THEN Unknown ELSE Known(w.overlay[CHOOSE k \in matches : \A l \in matches : l <= k].value)

\* Memory as it is now: private memory off the stack once in a block.
ReadsHeap(w, address) == Private(address) /\ Region(w.regs["rsp"].value) # Region(address)
ReadScalarMemory(w, address, size, now) ==
    LET refused == \/ Region(address) = 0
                   \/ Private(address) /\ (~w.regs["rsp"].known \/ w.regs["rsp"].value = 0)
                   \/ ReadsHeap(w, address) /\ w.budget = 0
        width == IF size = 2 THEN "q" ELSE "b"
    IN IF Overlay(w, address, size).known THEN [w |-> w, result |-> Overlay(w, address, size)]
       ELSE IF refused THEN [w |-> w, result |-> Unknown]
       ELSE [w |-> IF ReadsHeap(w, address) THEN [w EXCEPT !.budget = @ - 1] ELSE w,
             result |-> IF Committed(address, size) THEN Known(Load(now, address, width)) ELSE Unknown]

TryResolveOperandValue(w, o, now) ==
    LET address == TryComputeOperandAddress(w, o)
    IN CASE o.type = "register" -> [w |-> w, result |-> ReadRegister(w, o)]
         [] o.type = "immediate" -> [w |-> w, result |-> Known(o.disp)]
         [] o.type = "memory" /\ address.known -> ReadScalarMemory(w, address.value, Size(o.width), now)
         [] OTHER -> [w |-> w, result |-> Unknown]

\* A visible memory operand whose address is known; a plain store says what
\* it writes when that is known.
QueueMemoryOperand(w, ins, i, now, stack_pointer) ==
    LET address == TryComputeOperandAddress(w, MemoryOperand(ins))
        stored == IF Mode(ins) = "write" THEN TryResolveOperandValue(w, ins.src, now).result ELSE Unknown
        access == [index |-> i, mode |-> Mode(ins), address |-> address.value,
                   width |-> MemoryOperand(ins).width, stored |-> stored,
                   stack_pointer |-> IF w.regs["rsp"].known THEN w.regs["rsp"].value ELSE stack_pointer]
    IN IF Mode(ins) # "none" /\ address.known THEN [w EXCEPT !.accesses = @ \cup {access}] ELSE w

\* A store of a known value to a known address is remembered; any other
\* store leaves the overlay as it is.
Remember(w, ins, value) ==
    LET address == TryComputeOperandAddress(w, ins.dst)
        cell == [address |-> address.value, value |-> Low(value.value, ins.dst.width), size |-> Size(ins.dst.width)]
    IN IF value.known /\ address.known THEN [w EXCEPT !.overlay = Append(@, cell)] ELSE w

Assign(w, o, value) ==
    IF value.known THEN WriteRegister(w, o, value.value) ELSE MarkOperandRegisterUnknown(w, o)

\* The first operand is read before the second: one may use up the read of
\* private memory.
AssignBinary(w, ins, now) ==
    LET lhs == TryResolveOperandValue(w, ins.dst, now)
        rhs == IF lhs.result.known THEN TryResolveOperandValue(lhs.w, ins.src, now) ELSE [w |-> lhs.w, result |-> Unknown]
    IN IF rhs.result.known
       THEN WriteRegister(rhs.w, ins.dst, Computes(ins.op, lhs.result.value, rhs.result.value))
       ELSE MarkOperandRegisterUnknown(rhs.w, ins.dst)

ApplyInstructionEffects(w, ins, now) ==
    LET source == TryResolveOperandValue(w, ins.src, now)
    IN CASE ins.op = "mov" /\ ins.dst.type = "register" -> Assign(source.w, ins.dst, source.result)
         [] ins.op = "mov" /\ ins.dst.type # "register" -> Remember(source.w, ins, source.result)
         [] ins.op = "lea" -> Assign(w, ins.dst, TryComputeOperandAddress(w, ins.src))
         [] ins.op = "zero" -> WriteRegister(w, ins.dst, 0)
         [] ins.op = "dec" /\ ins.dst.type = "register" ->
              Assign(w, ins.dst, IF ReadRegister(w, ins.dst).known
                                 THEN Known(Computes("dec", ReadRegister(w, ins.dst).value, 0)) ELSE Unknown)
         [] ins.op \in {"add", "sub"} /\ ins.dst.type = "register" -> AssignBinary(w, ins, now)
         [] OTHER -> MarkOperandRegisterUnknown(w, ins.dst)

AnalyzeBlockMemoryAccesses(block, context, stack_pointer, now) ==
    LET body == Code[block].body
        Walk(w, i) == ApplyInstructionEffects(QueueMemoryOperand(w, body[i], i, now, stack_pointer), body[i], now)
    IN IF Len(body) > MaxInstructions THEN {} \* the walk does not come to the end
       ELSE FoldLeftDomain(Walk, InitializeContext(context), body).accesses

-----------------------------------------------------------------------------
(* What is reported.                                                       *)

IsHeapLikeAddress(address, stack_pointer) ==
    Private(address) /\ (stack_pointer # 0 => Region(address) # Region(stack_pointer))

\* Reads of 1, 2 or 4 bytes and lea, in a section of data.
StaticCandidate(a) ==
    (a.mode = "address" \/ (a.mode = "read" /\ a.width # "q")) /\ Region(a.address) = Section

WindowBase(address) == address - (address % 2)

Reported(a) == IsHeapLikeAddress(a.address, a.stack_pointer) \/ StaticCandidate(a)

\* Every window of an instruction once, and a few in all.
NewWindows(block, accesses) ==
    { <<block, a.index, WindowBase(a.address)>> : a \in
        { b \in accesses : /\ StaticCandidate(b)
                           /\ Cardinality({x \in windows : x[1] = block /\ x[2] = b.index}) < MaxWindows } }

-----------------------------------------------------------------------------

Init ==
    /\ policy \in {"FirstSeen", "EveryHit"} /\ registers \in Starts /\ memory = Memory0
    /\ rip \in DOMAIN Code /\ noted = FALSE /\ seen_edges = {}
    /\ events = <<>> /\ entry_slot = [valid |-> FALSE, block |-> 0, context |-> registers]
    /\ windows = {} /\ report = [block |-> 0, noted |-> FALSE, did |-> <<>>, accesses |-> {}, now |-> memory]
    /\ program_steps = 0

Emits(edge) == policy = "EveryHit" \/ edge \notin seen_edges

\* The thread runs its block and arrives at the next; the transition is
\* emitted with the registers of the arrival, or suppressed as seen before.
Run(next) ==
    LET done == Executed(rip)
        event == [block |-> rip, arrival |-> next, context |-> done.regs, noted |-> noted, did |-> done.did]
    IN /\ next \in Code[rip].next /\ program_steps < MaxSteps /\ Len(events) < MaxEvents
       /\ \A i \in DOMAIN done.did : \* it raises no exception
             done.did[i].mode \in {"read", "write", "rw"} => Committed(done.did[i].address, done.did[i].size)
       /\ Region(done.regs["rsp"]) = Stack
       /\ registers' = done.regs /\ memory' = done.memory /\ rip' = next
       /\ noted' = Emits(<<rip, next>>)
       /\ seen_edges' = IF policy = "EveryHit" THEN seen_edges ELSE seen_edges \cup {<<rip, next>>}
       /\ events' = IF noted' THEN Append(events, event) ELSE events
       /\ program_steps' = program_steps + 1
       /\ UNCHANGED <<policy, entry_slot, windows, report>>

\* Another thread stores a word in the heap.
OtherStores(value) ==
    /\ program_steps < MaxSteps /\ program_steps' = program_steps + 1
    /\ memory' = Put(memory, Digit * Heap, "q", value)
    /\ UNCHANGED <<policy, registers, rip, noted, seen_edges, events, entry_slot, windows, report>>

\* The slot to start the next event from.
KeepEntry(event) == [valid |-> TRUE, block |-> event.arrival, context |-> event.context]

\* The worker takes an event: it walks the block if the slot is the entry of
\* this very block, and then keeps the event's registers.
ProcessEvent ==
    /\ events # <<>>
    /\ LET event == Head(events)
           found == IF entry_slot.valid /\ entry_slot.block = event.block
                    THEN AnalyzeBlockMemoryAccesses(event.block, entry_slot.context, event.context["rsp"], memory)
                    ELSE {}
       IN /\ report' = [block |-> event.block, noted |-> event.noted, did |-> event.did,
                        accesses |-> {a \in found : Reported(a)}, now |-> memory]
          /\ windows' = windows \cup NewWindows(event.block, found)
          /\ entry_slot' = KeepEntry(event)
    /\ events' = Tail(events)
    /\ UNCHANGED <<policy, registers, memory, rip, noted, seen_edges, program_steps>>

-----------------------------------------------------------------------------

\* Every variable has its type, and no instruction has too many windows.
TypeOK ==
    /\ policy \in {"FirstSeen", "EveryHit"} /\ registers \in [Registers -> Addresses]
    /\ memory \in [Addresses -> 0..(Digit - 1)] /\ rip \in DOMAIN Code /\ noted \in BOOLEAN
    /\ seen_edges \subseteq (DOMAIN Code) \X (DOMAIN Code)
    /\ Len(events) <= MaxEvents /\ program_steps \in 0..MaxSteps
    /\ \A w \in windows : Cardinality({x \in windows : x[1] = w[1] /\ x[2] = w[2]}) <= MaxWindows

\* The instructions before i that load, among those the thread ran.
LoadsBefore(i) == {j \in 1..(i - 1) : report.did[j].mode = "read"}

\* A load the walk can answer: this block stored the very cell last, before
\* it loaded anything; or memory still holds what the thread read.
Answered(j) ==
    LET cells(k) == CellsOf(report.did[k].address, report.did[k].size)
        stores == {k \in 1..(j - 1) : report.did[k].mode \in {"write", "rw"} /\ cells(k) \cap cells(j) # {}}
        last == CHOOSE k \in stores : \A l \in stores : l <= k
        width == IF report.did[j].size = 2 THEN "q" ELSE "b"
    IN IF stores = {} THEN Load(report.now, report.did[j].address, width) = report.did[j].value
       ELSE /\ report.did[last].mode = "write" /\ LoadsBefore(last) = {}
            /\ report.did[last].address = report.did[j].address /\ report.did[last].size = report.did[j].size

\* The walk has followed the thread up to instruction i: the arrival at the
\* block is in the trace; no instruction before i has hidden operands, or
\* writes a part of a register that may not be known; and every load before
\* i could be answered.
Followed(i) ==
    /\ report.noted
    /\ \A j \in 1..(i - 1) :
          LET ins == Code[report.block].body[j]
          IN /\ ins.op \notin HiddenOperands
             /\ ins.dst.type = "register" /\ ins.dst.width = "b" => LoadsBefore(j) = {}
             /\ report.did[j].mode = "read" => Answered(j)

\* As far as the walk has followed the thread, what it reports is what the
\* thread did: the same access, at the same address, with the value it
\* stored; and of a block without loads no access to private memory is
\* missing.
AccessesAreReal ==
    /\ \A a \in report.accesses : Followed(a.index) =>
          LET did == report.did[a.index]
          IN did.mode = a.mode /\ did.address = a.address /\ (a.stored.known => did.value = a.stored.value)
    /\ \A i \in DOMAIN report.did :
          /\ Followed(i) /\ LoadsBefore(i) = {} /\ Len(report.did) <= MaxInstructions
          /\ report.did[i].mode # "none" /\ Region(report.did[i].address) = Heap
          => \E a \in report.accesses : a.index = i
=============================================================================
