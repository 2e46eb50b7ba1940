SPECIFICATION Spec
CONSTANTS
    Reqs <- Three
    Dated <- Two
    Control <- Frames
    ChannelCap = 2
    ReceiverOutcomes <- AnyOutcome
INVARIANTS
    NoCrossedReply
    TrafficAccounted

    
