\* The lifecycle of two agents with every interleaving of client calls,
\* processing-thread steps and stage faults.
CONSTANTS
    a1 = a1
    a2 = a2
    Agents <- MCAgents
SPECIFICATION FairSpec
INVARIANTS StopLeavesNoThread ExitOnlyOnStop
PROPERTIES ErrorClears AbstractAgentSpec
\* Start() on an agent whose thread is still joinable calls std::terminate,
\* after which the process really stops.
CHECK_DEADLOCK FALSE
