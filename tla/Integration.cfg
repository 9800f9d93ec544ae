\* Two threads calling Initialize, Shutdown, the API calls and the event handlers.
CONSTANTS
    c1 = c1
    c2 = c2
    n1 = n1
    n2 = n2
    Callers <- MCCallers
    Names <- MCNames
    Defaults <- MCDefaults
    MaxStat <- MCMaxStat
SPECIFICATION Spec
INVARIANTS EventSeesSystem
SYMMETRY MCCallerSymmetry
\* A null dereference ends the process; a create call at the statistic
\* bound waits.
CHECK_DEADLOCK FALSE
