SPECIFICATION SupSpec
CONSTANTS
    N = 2
    Strategies <- AllStrategies
    Policies <- AllPolicies
    MaxExits = 2
CHECK_DEADLOCK FALSE
INVARIANTS
    TasksAccounted
PROPERTIES
    PermanentComesBack
    ShutdownStops
