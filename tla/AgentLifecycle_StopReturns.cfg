\* Violation run: StopReturns on one agent.
CONSTANTS
    a1 = a1
    a2 = a2
    Agents = {a1}
SPECIFICATION FairSpec
PROPERTY StopReturns
CHECK_DEADLOCK FALSE
