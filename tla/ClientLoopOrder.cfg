\* A task that waits for room in its own channel stops for good.
CHECK_DEADLOCK FALSE
SPECIFICATION ClientSpec
CONSTANTS
    ChannelCap = 2
    MaxReqs = 5
    Outcomes <- AllOutcomes
INVARIANTS
    RepliesInRequestOrder

    
