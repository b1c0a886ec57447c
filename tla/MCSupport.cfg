SPECIFICATION Spec
CONSTANTS
    Threads = {t1, t2}
    MaxCalls = 3
    MaxTasks = 3
    MaxAttempts = 1
    LoaderPids = {p}
    Handles = {1, 2}
    MaxPipes = 3
    MaxMessages = 1
    Pids = {1, 2}
    MaxPolls = 2
    MaxChanges = 4
    Unlimited = 6
    MaxCaptures = 3
    MaxSample = 2
    MaxRules = 3
    MaxInstructions = 6
    MaxWindows = 1
    MaxEvents = 2
    MaxSteps = 3
INVARIANTS
    TypeOK
    BreakpointStays
    BreakpointRemoved
    ArmedIsTaken
    RunningTraces
    PipesClosedOnce
    RulesAsEntered
    AccessesAreReal
PROPERTIES
    HelperEnds
    StopReturns
    HelloBecomesVisible
    ViewSettles
CHECK_DEADLOCK FALSE
