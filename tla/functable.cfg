SPECIFICATION FairSpec
CONSTANTS
    Threads = {t1, t2}
    CallMembers = {"slide_hash_head"}
    MaxCalls = 1
    Builds <- MCBuilds
    Cpus <- MCCpus
    Systems <- MCSystems
CHECK_DEADLOCK FALSE
INVARIANTS RunsHere NativeAgrees AbortsOnlyHeadless
PROPERTY CallsReturn
