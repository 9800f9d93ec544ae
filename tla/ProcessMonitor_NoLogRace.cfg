\* The sequence of the repository's TestProcessMonitor: StartMonitoring,
\* TrackProcess and AnalyzeProcessBehavior while the loop runs.
CONSTANTS
    c1 = c1
    c2 = c2
    u1 = u1
    u2 = u2
    k1 = k1
    k2 = k2
    Controllers <- MCOneController
    Users <- MCUsers
    Keys <- MCKeys
SPECIFICATION Spec
INVARIANTS NoLogRace
SYMMETRY MCSymmetry
