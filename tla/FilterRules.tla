---------------------------- MODULE FilterRules ----------------------------
(***************************************************************************)
(* The rules a user types and what a configured session makes of them:     *)
(* the depth filters of flutter_gui/lib/src/depth_filters.dart and of the  *)
(* autostart helper, turned into the text of the Configure command, parsed *)
(* by core/depth_filter and searched at every traced branch; and the value *)
(* probes of core/probe.  Texts are the tokens they are split into.        *)
(***************************************************************************)
EXTENDS Integers, Sequences, FiniteSets, SequencesExt

CONSTANTS
    ModuleOf,       \* the module a name loads or NoModule, by name
    Lower,          \* the name in lower case, by name
    RangeOf,        \* [base, size] of every module
    Windows,        \* the loaded modules whose file is under the Windows directory
    Unlimited,      \* kUnlimitedCallDepth, the largest 32-bit number
    MaxCaptures,    \* kProbeCaptureMaxCount
    MaxSample,      \* kEnhancedSampleMaxBytes
    DepthRules,     \* depth rules the user may type
    ProbeRules,     \* probe rules the user may type
    MaxRules        \* bound: the rules typed in a behaviour

VARIABLES
    depth_rules,    \* the depth rules in the fields of the front end
    probe_rules,    \* the probe text
    request,        \* what the last Configure command was made from
    outcome,        \* how it ended
    depth_filters,  \* Session::Impl::depth_filters
    value_probes,   \* Session::Impl::value_probes
    typed           \* counts the rules typed

vars == <<depth_rules, probe_rules, request, outcome, depth_filters, value_probes, typed>>

NoModule == "no module"
NoAddress == -1
NoRule == [word |-> "none"]
Areas == {"outside", "anon"}
FrontEnds == {"gui", "autostart", "cli"}

\* The text of a number has two readings: value in base 10, and based in base 0,
\* where a leading 0 makes it octal and 0x hexadecimal.  Invalid is no number:
\* 0x2 has no value, and 08 is not based.
Invalid == -1
All == [word |-> "all", value |-> Invalid, based |-> Invalid]
Single == [word |-> "single", value |-> Invalid, based |-> Invalid]
Number(n) == [word |-> "number", value |-> n, based |-> n]
RulesOf(rules, key) == SelectSeq(rules, LAMBDA rule : rule.key = key)

-----------------------------------------------------------------------------
(* The depth rules, from the front end to the text of the command.         *)

\* The graphical interface counts the traced level itself: 0 is no limit,
\* 1 is the level of the root and n is n - 1 levels below it.
UiDepthToRuntimeText(n) ==
    CASE n = 0 -> All
      [] n = 1 -> Single
      [] OTHER -> Number(n - 1)

\* The helper prints the number it has parsed from its configuration file.
FormatDepthText(n) ==
    CASE n = Unlimited -> All
      [] n = 0 -> Single
      [] OTHER -> Number(n)

\* The core reads a number in base 10.
Mutant_AnyNumber(text) ==
    CASE text.word = "all" -> Unlimited
      [] text.word = "single" -> 0
      [] OTHER -> text.value
ParseDepthValue(text) ==
    CASE text.word = "all" -> Unlimited
      [] text.word = "single" -> 0
      [] text.word = "number" /\ text.value \in 0 .. Unlimited -> text.value
      [] OTHER -> Invalid

\* The helper reads the same words, and a number in base 0.
ParseAutoStartCallDepth(text) == ParseDepthValue([text EXCEPT !.value = text.based])

\* int.parse of Dart takes decimal numbers, also with leading zeros, and 0x.
IntParse(text) == IF text.value # Invalid THEN text.value ELSE text.based

\* The mode of a rule may be left out.  Any other word belongs to the depth in
\* front of it, which then is no number.
ParseExecutionMode(text) ==
    CASE text = "" -> "edge"
      [] text \in {"edge", "tf"} -> text
      [] OTHER -> "wrong"

Unreadable(rule) == ParseDepthValue(rule.depth) = Invalid \/ ParseExecutionMode(rule.mode) = "wrong"

\* The field of an area holds the rule that was typed last.
AreaRules(rules) ==
    LET Field(area) == LET those == RulesOf(rules, area)
                       IN IF those = <<>> THEN <<>> ELSE <<Last(those)>>
    IN Field("outside") \o Field("anon")

\* normalizeExecutionMode refuses a word which is no mode, normalizeUiDepthValue
\* a depth which is not a natural number.
GuiMisreads(rule) ==
    rule.depth.word # "number" \/ IntParse(rule.depth) < 0 \/ ParseExecutionMode(rule.mode) = "wrong"

\* parseModuleDepthRules refuses a name it has seen.
GuiRefuses(rules) ==
    LET named == RulesOf(rules, "module")
        read  == AreaRules(rules) \o named
    IN \/ \E i \in DOMAIN read : GuiMisreads(read[i])
       \/ \E i, j \in DOMAIN named : i < j /\ Lower[named[i].name] = Lower[named[j].name]

\* LoadConfig reads the fields of the areas, and leaves the modules' to the core.
AutoStartRefuses(rules) ==
    \E i \in DOMAIN AreaRules(rules) : LET rule == AreaRules(rules)[i] IN
        ParseAutoStartCallDepth(rule.depth) = Invalid \/ ParseExecutionMode(rule.mode) = "wrong"

Refuses(front, rules) ==
    \/ front = "gui" /\ GuiRefuses(rules)
    \/ front = "autostart" /\ AutoStartRefuses(rules)

\* buildDepthFilterSpec of the graphical interface: areas first, then modules.
GuiDepthFilterSpec(rules) ==
    LET built == AreaRules(rules) \o RulesOf(rules, "module")
    IN [i \in DOMAIN built |->
           [built[i] EXCEPT !.depth = UiDepthToRuntimeText(IntParse(@)), !.mode = ParseExecutionMode(@)]]

\* BuildDepthFilterSpec of the helper: the areas' rules are printed again, the
\* modules' are passed on as they are.
BuildDepthFilterSpec(rules) ==
    LET areas == AreaRules(rules)
    IN [i \in DOMAIN areas |->
           [areas[i] EXCEPT !.depth = FormatDepthText(ParseAutoStartCallDepth(@)), !.mode = ParseExecutionMode(@)]]
       \o RulesOf(rules, "module")

DepthFilterSpec(front, rules) ==
    CASE front = "gui" -> GuiDepthFilterSpec(rules)
      [] front = "autostart" -> BuildDepthFilterSpec(rules)
      [] OTHER -> rules

-----------------------------------------------------------------------------
(* The depth rules, from the text to the sorted rules of the session.      *)

Empty == [module_rules |-> <<>>, areas |-> [area \in Areas |-> NoRule]]

\* filters = {} at the start of ParseDepthFilterSpec.
Mutant_KeepsFilters(filters) == filters
Emptied(filters) == Empty

ReadAreas(filters, tokens) ==
    FoldLeft(LAMBDA set, token :
                 IF token.key = "module" THEN set
                 ELSE [set EXCEPT !.areas[token.key] =
                           [word |-> "rule", depth |-> ParseDepthValue(token.depth),
                            mode |-> ParseExecutionMode(token.mode)]],
             filters, tokens)

AddOrReplace(rules, rule) ==
    LET at == SelectInSeq(rules, LAMBDA existing : existing.range = rule.range)
    IN IF at = 0 THEN Append(rules, rule) ELSE [rules EXCEPT ![at] = rule]

\* EnumerateSystemModuleRanges, in the order of their bases.
SystemModuleRanges ==
    SetToSortSeq({RangeOf[m] : m \in Windows}, LAMBDA left, right : left.base < right.base)

\* FindModuleRange finds the system module that has the base.
IsSystemModuleRange(range) == \E i \in DOMAIN SystemModuleRanges : SystemModuleRanges[i].base = range.base

\* ResolveModuleRange fails for a module that is not loaded, and a system
\* module takes no rule.
Resolves(name) == ModuleOf[name] # NoModule /\ ~IsSystemModuleRange(RangeOf[ModuleOf[name]])

AddModules(rules, tokens) ==
    FoldLeft(LAMBDA found, token :
                 AddOrReplace(found, [range |-> RangeOf[ModuleOf[token.name]],
                                      depth |-> ParseDepthValue(token.depth),
                                      mode |-> ParseExecutionMode(token.mode)]),
             rules, tokens)

SortedRules(rules) == SortSeq(rules, LAMBDA left, right : left.range.base < right.range.base)

\* The tokens before the first one that satisfies Bad.
Before(tokens, Bad(_)) ==
    LET at == SelectInSeq(tokens, Bad) IN IF at = 0 THEN tokens ELSE SubSeq(tokens, 1, at - 1)

\* A bad number ends the parse with the areas read so far, a bad module with
\* the modules resolved so far, in the order of the text.
ParseDepthFilterSpec(tokens, previous) ==
    LET readable == Before(tokens, Unreadable)
        read     == ReadAreas(Emptied(previous), readable)
        named    == RulesOf(tokens, "module")
        good     == Before(named, LAMBDA token : ~Resolves(token.name))
    IN IF readable # tokens THEN [ok |-> FALSE, filters |-> read]
       ELSE LET rules == AddModules(read.module_rules, good)
            IN IF good # named THEN [ok |-> FALSE, filters |-> [read EXCEPT !.module_rules = rules]]
               ELSE [ok |-> TRUE, filters |-> [read EXCEPT !.module_rules = SortedRules(rules)]]

\* The search of the branch handler: upper_bound by base, then the rule before.
FindDepthFilterModuleRule(filters, address) ==
    LET rules == filters.module_rules
        above == SelectInSeq(rules, LAMBDA rule : address < rule.range.base)
        prev  == (IF above = 0 THEN Len(rules) + 1 ELSE above) - 1
    IN IF rules = <<>> \/ address = 0 \/ prev = 0 THEN NoRule
       ELSE IF address < rules[prev].range.base + rules[prev].range.size
            THEN [word |-> "rule", depth |-> rules[prev].depth, mode |-> rules[prev].mode]
            ELSE NoRule

-----------------------------------------------------------------------------
(* The probes, from the text to the sorted probes of the session.          *)

\* ResolveConfiguredAddressText: a number, or a loaded module, also one of the
\* system, and a number relative to it.
Address(text) ==
    IF text.number = NoAddress THEN NoAddress
    ELSE IF text.module = "" THEN text.number
    ELSE IF ModuleOf[text.module] = NoModule THEN NoAddress
    ELSE RangeOf[ModuleOf[text.module]].base + text.number

SizeFits(size) == size \in 1 .. MaxSample

\* ParseProbeCaptureToken: reg:r, mem:address:size and ptr:r+offset:size,
\* each with a label that may be left out.
CaptureFits(token) ==
    CASE token.kind = "reg" -> token.parts \in 2 .. 3 /\ token.reg # "none"
      [] token.kind = "mem" -> token.parts \in 3 .. 4 /\ Address(token.address) # NoAddress /\ SizeFits(token.size)
      [] token.kind = "ptr" -> token.parts \in 3 .. 4 /\ token.reg # "none" /\ SizeFits(token.size)
      [] OTHER -> FALSE

\* What FillProbeCapture will read: a register, or bytes at an address which
\* is fixed or is a register plus an offset.
Source(token) ==
    CASE token.kind = "reg" -> [kind |-> "RegisterValue", reg |-> token.reg]
      [] token.kind = "mem" -> [kind |-> "AbsoluteMemory", address |-> Address(token.address),
                                size |-> token.size]
      [] token.kind = "ptr" -> [kind |-> "RegisterMemory", reg |-> token.reg,
                                offset |-> token.offset, size |-> token.size]

NewProbe(address) ==
    [address |-> address, mode |-> "Capture", step_limit |-> 0, exit |-> "return-or-leave",
     captures |-> <<>>, watch_count |-> 0, watches |-> <<>>]

ProbeAt(probes, address) == SelectInSeq(probes, LAMBDA probe : probe.address = address)

\* watch=a|b takes one to four; step rules take none and write rules need one.
WatchesFit(group) ==
    /\ Len(group) \in 1 .. MaxCaptures
    /\ \A i \in DOMAIN group : Address(group[i].address) # NoAddress /\ SizeFits(group[i].size)

ObserverFits(rule) ==
    /\ Address(rule.address) # NoAddress
    /\ rule.steps > 0
    /\ rule.kind = "step" <=> rule.watches = <<>>
    /\ \A i \in DOMAIN rule.watches : WatchesFit(rule.watches[i])

Watch(token) == [address |-> Address(token.address), size |-> token.size]

\* Every watch= parameter appends to the array; watch_count counts also those
\* that were written behind its end.
ObserverProbe(rule) ==
    LET parsed == FlattenSeq(rule.watches)
    IN [NewProbe(Address(rule.address)) EXCEPT
            !.mode = IF rule.kind = "step" THEN "SingleStep" ELSE "WriteTrace",
            !.step_limit = rule.steps, !.exit = rule.exit,
            !.watch_count = Len(parsed),
            !.watches = [i \in 1 .. Min({Len(parsed), MaxCaptures}) |-> Watch(parsed[i])]]

\* What the observer watches when it meets the address.
Watched(probe) == SubSeq(probe.watches, 1, Min({probe.watch_count, MaxCaptures}))

\* Nothing counts the watches of two watch= parameters together: the fifth
\* one is stored behind the end of the array.
Overruns(rule) ==
    /\ rule.kind = "write" /\ Address(rule.address) # NoAddress
    /\ \A i \in DOMAIN rule.watches : WatchesFit(rule.watches[i])
    /\ Len(FlattenSeq(rule.watches)) > MaxCaptures

\* An address has one observer rule or any number of capture rules.
ReadObserver(read, rule) ==
    IF ObserverFits(rule) /\ ProbeAt(read.probes, Address(rule.address)) = 0
    THEN [read EXCEPT !.probes = Append(@, ObserverProbe(rule))]
    ELSE [read EXCEPT !.ok = FALSE]

\* The captures of another rule at the same address are appended while there
\* is room; a bad token leaves what was stored before it.
ReadCapture(read, rule) ==
    LET found  == ProbeAt(read.probes, Address(rule.address))
        probes == IF found = 0 THEN Append(read.probes, NewProbe(Address(rule.address))) ELSE read.probes
        at     == IF found = 0 THEN Len(probes) ELSE found
        room   == MaxCaptures - Len(probes[at].captures)
        fit    == Before(rule.captures, LAMBDA token : ~CaptureFits(token))
        stored == SubSeq(fit, 1, IF Len(fit) < room THEN Len(fit) ELSE room)
        grown  == [probes EXCEPT ![at].captures = @ \o [i \in DOMAIN stored |-> Source(stored[i])]]
    IN IF Address(rule.address) = NoAddress \/ Len(rule.captures) \notin 1 .. MaxCaptures
       THEN [read EXCEPT !.ok = FALSE]
       ELSE IF probes[at].mode # "Capture"
            THEN [ok |-> FALSE, probes |-> probes]
            ELSE [ok |-> stored = rule.captures, probes |-> grown]

ReadProbe(read, rule) ==
    IF ~read.ok THEN read
    ELSE IF rule.kind = "capture" THEN ReadCapture(read, rule) ELSE ReadObserver(read, rule)

\* probes.clear() at the start of ParseProbeSpec.
Cleared(probes) == <<>>

SortedProbes(probes) == SortSeq(probes, LAMBDA left, right : left.address < right.address)

ParseProbeSpec(rules, previous) ==
    LET read == FoldLeft(ReadProbe, [ok |-> TRUE, probes |-> Cleared(previous)], rules)
    IN IF read.ok THEN [read EXCEPT !.probes = SortedProbes(@)] ELSE read

\* The search of the step handler: lower_bound by address.
FindValueProbeByAddress(probes, address) ==
    LET at == SelectInSeq(probes, LAMBDA probe : probe.address >= address)
    IN IF at = 0 \/ probes[at].address # address THEN NewProbe(NoAddress) ELSE probes[at]

-----------------------------------------------------------------------------

Init ==
    /\ depth_rules = <<>> /\ probe_rules = <<>> /\ typed = 0
    /\ request = [front |-> "none", depth_rules |-> <<>>, probe_rules |-> <<>>]
    /\ outcome = "none"
    /\ depth_filters = Empty /\ value_probes = <<>>

\* The user edits the profile; the parts of a rule may be typed wrong.
TypeDepthRule ==
    /\ typed < MaxRules /\ typed' = typed + 1
    /\ \E rule \in DepthRules : depth_rules' = Append(depth_rules, rule)
    /\ UNCHANGED <<probe_rules, request, outcome, depth_filters, value_probes>>

TypeProbeRule ==
    /\ typed < MaxRules /\ typed' = typed + 1
    /\ \E rule \in ProbeRules : probe_rules' = Append(probe_rules, rule)
    /\ UNCHANGED <<depth_rules, request, outcome, depth_filters, value_probes>>

\* Bound: to begin anew is of interest after a Configure.
ClearRules ==
    /\ outcome # "none" /\ depth_rules \o probe_rules # <<>>
    /\ depth_rules' = <<>> /\ probe_rules' = <<>>
    /\ UNCHANGED <<request, outcome, depth_filters, value_probes, typed>>

Takes(front) == request' = [front |-> front, depth_rules |-> depth_rules, probe_rules |-> probe_rules]

\* The front end reports the mistake and sends nothing.
Refused(front) ==
    /\ Refuses(front, depth_rules)
    /\ Takes(front) /\ outcome' = "refused"
    /\ UNCHANGED <<depth_filters, value_probes>>

\* The fifth watch overwrote the stack of the parser: the process may end.
Crashes(front) ==
    /\ ~Refuses(front, depth_rules)
    /\ \E i \in DOMAIN probe_rules :
          /\ Overruns(probe_rules[i])
          /\ ParseProbeSpec(SubSeq(probe_rules, 1, i - 1), value_probes).ok
    /\ Takes(front) /\ outcome' = "crashed"
    /\ UNCHANGED <<depth_filters, value_probes>>

\* Session::Impl::Configure parses the probes, then the depth filters; the
\* one that fails leaves its half-parsed result in the session.
Configured(front) ==
    LET probes  == ParseProbeSpec(probe_rules, value_probes)
        filters == ParseDepthFilterSpec(DepthFilterSpec(front, depth_rules), depth_filters)
    IN /\ ~Refuses(front, depth_rules)
       /\ Takes(front)
       /\ value_probes' = probes.probes
       /\ depth_filters' = IF probes.ok THEN filters.filters ELSE depth_filters
       /\ outcome' = IF probes.ok /\ filters.ok THEN "accepted" ELSE "failed"

Configure ==
    /\ \E front \in FrontEnds : Refused(front) \/ Crashes(front) \/ Configured(front)
    /\ UNCHANGED <<depth_rules, probe_rules, typed>>

Next ==
    /\ outcome # "crashed"
    /\ TypeDepthRule \/ TypeProbeRule \/ ClearRules \/ Configure

Spec == Init /\ [][Next]_vars

-----------------------------------------------------------------------------

Filter == [word : {"rule"}, depth : 0 .. Unlimited, mode : {"edge", "tf"}]

\* Type invariant: a stored filter always has a depth of 32 bits.
TypeOK ==
    /\ depth_rules \in Seq(DepthRules) /\ probe_rules \in Seq(ProbeRules)
    /\ outcome \in {"none", "refused", "failed", "accepted", "crashed"}
    /\ \A area \in Areas : depth_filters.areas[area] \in Filter \cup {NoRule}
    /\ \A i \in DOMAIN depth_filters.module_rules :
          depth_filters.module_rules[i].depth \in 0 .. Unlimited
    /\ \A i \in DOMAIN value_probes :
          /\ Len(value_probes[i].captures) <= MaxCaptures
          /\ Len(value_probes[i].watches) <= MaxCaptures
          /\ value_probes[i].watch_count >= Len(value_probes[i].watches)

\* What a depth means: the graphical interface labels n as "n - 1 levels down",
\* the configuration file and the command line give the limit; the file's
\* areas in base 0, its modules and the command line in base 10.
Meant(front, key, text) ==
    CASE front = "gui" -> IF IntParse(text) = 0 THEN Unlimited ELSE IntParse(text) - 1
      [] text.word = "all" -> Unlimited
      [] text.word = "single" -> 0
      [] front = "autostart" /\ key \in Areas -> text.based
      [] OTHER -> text.value

LastOf(those) ==
    IF those = <<>> THEN NoRule
    ELSE [word |-> "rule", depth |-> Meant(request.front, Last(those).key, Last(those).depth),
          mode |-> IF Last(those).mode = "" THEN "edge" ELSE Last(those).mode]

\* After a Configure that was accepted, the search finds at every address of a
\* module the last rule typed for that module under any of its names, and
\* nothing outside the modules that have rules; the areas have the rule typed
\* last.  Depths and modes are what they mean in that front end and field (the
\* same digits may mean another number in another field), and nothing is left
\* of an earlier configuration, accepted or not.
DepthRulesAsEntered ==
    outcome = "accepted" =>
        /\ \A area \in Areas : depth_filters.areas[area] = LastOf(RulesOf(request.depth_rules, area))
        /\ \A m \in DOMAIN RangeOf : LET range == RangeOf[m] IN
              /\ \A address \in {range.base, range.base + range.size - 1} :
                    FindDepthFilterModuleRule(depth_filters, address)
                        = LastOf(SelectSeq(RulesOf(request.depth_rules, "module"),
                                           LAMBDA rule : ModuleOf[rule.name] = m))
              /\ \A address \in {range.base - 1, range.base + range.size} :
                    (\A other \in DOMAIN RangeOf :
                        address \notin RangeOf[other].base .. (RangeOf[other].base + RangeOf[other].size - 1))
                    => FindDepthFilterModuleRule(depth_filters, address) = NoRule

\* After a Configure that was accepted, the search finds a probe exactly at
\* the addresses that were typed: the sources of all capture rules of the
\* address in the order of the text, or its one observer rule with its limit
\* and its exit.  An observer watches what was typed in the order of the text
\* when that fits into the array; of more, if the process outlived the
\* parsing, only the first MaxCaptures.
ProbesAsEntered ==
    outcome = "accepted" =>
        \A address \in {Address(rule.address) : rule \in ProbeRules} \ {NoAddress} :
            LET typedHere == SelectSeq(request.probe_rules, LAMBDA rule : Address(rule.address) = address)
                tokens    == FlattenSeq([i \in DOMAIN typedHere |-> typedHere[i].captures])
                probe     == FindValueProbeByAddress(value_probes, address)
            IN CASE typedHere = <<>> -> probe.address = NoAddress
                 [] typedHere # <<>> /\ typedHere[1].kind = "capture" ->
                        /\ probe.address = address /\ probe.mode = "Capture"
                        /\ probe.captures = [i \in DOMAIN tokens |-> Source(tokens[i])]
                        /\ \A i \in DOMAIN typedHere : typedHere[i].kind = "capture"
                 [] OTHER ->
                        LET rule  == typedHere[1]
                            asked == FlattenSeq(rule.watches)
                        IN /\ Len(typedHere) = 1
                           /\ probe.address = address
                           /\ probe.mode = [step |-> "SingleStep", write |-> "WriteTrace"][rule.kind]
                           /\ probe.step_limit = rule.steps /\ probe.exit = rule.exit
                           /\ Len(Watched(probe)) = (IF Len(asked) > MaxCaptures THEN MaxCaptures ELSE Len(asked))
                           /\ \A i \in DOMAIN Watched(probe) :
                                 /\ Watched(probe)[i].address = Address(asked[i].address)
                                 /\ Watched(probe)[i].size = asked[i].size

\* After a Configure that was accepted the session does at every address what
\* was typed for it, by the depth filters and by the probes, whichever
\* configurations were accepted or failed half-way before.  The exception is
\* an observer rule with more watches than the array holds (see Crashes),
\* which is cut.
RulesAsEntered == DepthRulesAsEntered /\ ProbesAsEntered
=============================================================================
