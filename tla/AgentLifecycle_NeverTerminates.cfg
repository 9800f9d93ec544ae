\* Violation run: NeverTerminates on one agent.
CONSTANTS
    a1 = a1
    a2 = a2
    Agents = {a1}
SPECIFICATION Spec
INVARIANT NeverTerminates
CHECK_DEADLOCK FALSE
