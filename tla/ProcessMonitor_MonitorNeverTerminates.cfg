\* Two controllers: a StopMonitoring between StartMonitoring's flag
\* exchange and its thread assignment.
CONSTANTS
    c1 = c1
    c2 = c2
    u1 = u1
    u2 = u2
    k1 = k1
    k2 = k2
    Controllers <- MCTwoControllers
    Users <- MCUsers
    Keys <- MCKeys
SPECIFICATION Spec
INVARIANTS MonitorNeverTerminates
SYMMETRY MCSymmetry
CHECK_DEADLOCK FALSE
