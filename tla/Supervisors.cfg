\* Each supervisor with three callers of stop.  Everything ends when they have.
CONSTANTS
    Kinds = {"network", "runtime", "worker"}
    Callers = {"endpoint", "endpointAgain", "framework"}
SPECIFICATION Spec
INVARIANTS
    DegradedIsSafe
    StoppedMeansNoWatchdog
    NeverReadyAfterStop
PROPERTIES
    DegradedLatches
    FailurePausesSafety
    StopReturns
CHECK_DEADLOCK FALSE
