SPECIFICATION LifecycleSpec
CONSTANTS
    Processes = {"p1", "p2", "p3"}
    Script = "stop"
    PidOf <- MCPidOf
    Hooks = 1
CHECK_DEADLOCK FALSE
INVARIANT OneHolder
