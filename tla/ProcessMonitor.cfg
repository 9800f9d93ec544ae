\* One controller starting and stopping the monitor while two users track,
\* untrack and analyze two processes.
CONSTANTS
    c1 = c1
    c2 = c2
    u1 = u1
    u2 = u2
    k1 = k1
    k2 = k2
    Controllers <- MCOneController
    Users <- MCUsers
    Keys <- MCKeys
SPECIFICATION FairSpec
INVARIANTS MonitorStopLeavesNoThread MonitorNeverTerminates
PROPERTIES StopMonitoringReturns AbstractMonitorSpec
