SPECIFICATION Spec
CONSTANTS
    Threads = {t1, t2}
    CallMembers = {}
    MaxCalls = 1
    Builds <- MCBuilds
    Cpus <- MCCpus
    Systems <- MCMsaSystems
CHECK_DEADLOCK FALSE
INVARIANT FailsGracefully
