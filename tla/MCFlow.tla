------------------------------- MODULE MCFlow -------------------------------
(***************************************************************************)
(* Scenarios for HardwareFlow: a few programs, each under several options. *)
(***************************************************************************)
EXTENDS HardwareFlow, TLC

I(kind, to) == [kind |-> kind, direct |-> kind # "return" /\ to # {}, to |-> to]
Indirect(kind, to) == [kind |-> kind, direct |-> FALSE, to |-> to]
Plain == I("other", {})
Return == I("return", {})

\* Every program is called at 1, from code of no interest, and ends at 2.
Caller == (1 :> I("call", {10})) @@ (2 :> I("exit", {}))

\* Calls, followed and not, a jump through a table, and a system call.
CallsCode ==
  Caller @@ (10 :> Plain) @@ (11 :> I("jcc", {13})) @@ (12 :> I("call", {20}))
  @@ (13 :> Indirect("call", {20, 30})) @@ (14 :> I("call", {30})) @@ (15 :> Return)
  @@ (20 :> I("syscall", {})) @@ (21 :> Indirect("jump", {22, 23})) @@ (22 :> I("jump", {23}))
  @@ (23 :> Return)
  @@ (30 :> Plain) @@ (31 :> Return)

\* Loops in the root frame and in a frame below it, one of them a single block.
LoopCode ==
  Caller @@ (10 :> I("call", {20})) @@ (11 :> Plain) @@ (12 :> I("jcc", {11}))
  @@ (13 :> Return)
  @@ (20 :> Plain) @@ (21 :> Plain) @@ (22 :> I("jcc", {24})) @@ (23 :> Return)
  @@ (24 :> I("jcc", {24})) @@ (25 :> I("jump", {20}))

\* A thread creation function at 30.
AsyncCode ==
  Caller @@ (10 :> I("call", {30})) @@ (11 :> Indirect("call", {30}))
  @@ (12 :> I("jcc", {14})) @@ (13 :> I("call", {20})) @@ (14 :> Return)
  @@ (20 :> Return) @@ (30 :> Plain) @@ (31 :> Return)

\* Code that cannot be planned: a probe in a block, a long block, odd bytes.
ScanCode ==
  Caller @@ (10 :> Plain) @@ (11 :> Plain) @@ (12 :> I("jcc", {14}))
  @@ (13 :> Plain) @@ (14 :> Plain) @@ (15 :> Plain) @@ (16 :> Plain) @@ (17 :> Plain)
  @@ (18 :> I("jcc", {20})) @@ (19 :> I("odd", {})) @@ (20 :> Return)

\* Calls into and out of modules that are stepped.
WindowCode ==
  Caller @@ (10 :> Plain) @@ (11 :> I("call", {20})) @@ (12 :> Plain) @@ (13 :> I("call", {40}))
  @@ (14 :> Return)
  @@ (20 :> Plain) @@ (21 :> I("call", {30})) @@ (22 :> I("call", {40})) @@ (23 :> Return)
  @@ (30 :> I("jcc", {31})) @@ (31 :> Return)
  @@ (40 :> Plain) @@ (41 :> Return)

Probe(mode, exit, steps) == [mode |-> mode, exit |-> exit, steps |-> steps]
Rule(depth, trap_flag) == [max_call_depth |-> depth, trap_flag |-> trap_flag]

Placed(code, f) ==
  [a \in DOMAIN code |-> IF a < 10 THEN "system"
                         ELSE IF (a \div 10) \in DOMAIN f THEN f[a \div 10] ELSE "tracked"]

Defaults(code, places) ==
  [code |-> code, place |-> Placed(code, places), rules |-> << >>,
   caller |-> 1, entry |-> 10, control_flow_only |-> TRUE,
   trace_outside_modules |-> FALSE, max_call_depth |-> 9, max_events |-> 0,
   hit_policy |-> "FirstSeen", hot_bypass_threshold |-> 2, stop_on_root_return |-> TRUE,
   probes |-> << >>, async |-> {}]

Calls == Defaults(CallsCode, 3 :> "system")
Loops == Defaults(LoopCode, << >>)
Async == [Defaults(AsyncCode, 3 :> "system") EXCEPT !.async = {30}]
Scans == [Defaults(ScanCode, << >>) EXCEPT !.probes = 11 :> Probe("capture", "either", 0)]
Windows == [Defaults(WindowCode, (2 :> "ruled") @@ (4 :> "system"))
              EXCEPT !.rules = "ruled" :> Rule(9, TRUE)]
Probes == Defaults(WindowCode, 4 :> "system")

\* Each program under the options that decide how it is followed.
Options(base) ==
  {[base EXCEPT !.control_flow_only = flow, !.max_call_depth = depth,
                    !.hit_policy = limit[1], !.max_events = limit[2],
                    !.stop_on_root_return = (depth # 1)]
     : flow \in BOOLEAN, depth \in {0, 1, 9}, limit \in {<<"FirstSeen", 0>>, <<"EveryHit", 4>>}}

MCScenarios ==
  UNION {Options(base) : base \in {
    Calls, Loops, Async, Scans, Windows,
    [Windows EXCEPT !.rules = ("ruled" :> Rule(9, TRUE)) @@ ("tracked" :> Rule(9, TRUE))],
    [Probes EXCEPT !.probes = (11 :> Probe("step", "return", 2)) @@ (20 :> Probe("write", "either", 4))],
    [Probes EXCEPT !.probes = 20 :> Probe("step", "return", 9)],
    [Probes EXCEPT !.probes = (12 :> Probe("write", "either", 9)) @@ (22 :> Probe("step", "leave", 2))]
  }}
=============================================================================
