\* Violation run: RemovedAgentsStopped.
CONSTANTS
    n1 = n1
    n2 = n2
    Agents <- MCNames
SPECIFICATION SysSpec
INVARIANT RemovedAgentsStopped
CHECK_DEADLOCK FALSE
