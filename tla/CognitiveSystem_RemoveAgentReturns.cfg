\* Violation run: RemoveAgentReturns.  Two agents created, started, removed
\* and shut down in every order, with UpdateSystem running concurrently,
\* under fair scheduling of the processing threads and of returning joins.
CONSTANTS
    n1 = n1
    n2 = n2
    Agents <- MCNames
SPECIFICATION SysFairSpec
PROPERTY RemoveAgentReturns
\* Start() on a joinable thread calls std::terminate, after which the process
\* really stops.
CHECK_DEADLOCK FALSE
