\* The whole life of a process: boot, requests, sweeps, a signal, the way down.
SPECIFICATION FairSpec
CONSTANTS
    Envs <- MCEnvs
    Slots = {"s1", "s2"}
    MaxConns = 1
    MaxItems = 1
    MaxSweeps = 1
INVARIANTS
    ConfigHonoured
    GracefulExit
    HoldersRunStatements
    SweepsReported
PROPERTIES
    StopsWhenAsked
    ProbeAnswered
CHECK_DEADLOCK FALSE
