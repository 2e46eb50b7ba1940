SPECIFICATION Spec
CONSTANTS
    Reqs <- Two
    Dated <- Two
    Control <- Frames
    ChannelCap = 2
    ReceiverOutcomes <- BusyDatastore
INVARIANTS
    ReplyReachesItsRequest
