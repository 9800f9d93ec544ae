\* Violation run: ActiveAgentHasThread.
CONSTANTS
    n1 = n1
    n2 = n2
    Agents <- MCNames
SPECIFICATION SysSpec
INVARIANT ActiveAgentHasThread
CHECK_DEADLOCK FALSE
