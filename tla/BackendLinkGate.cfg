SPECIFICATION Spec
CONSTANTS
    Reqs <- Three
    Reads <- OneRead
    Scripts <- OneScript
    Silent <- OneSilent
    DateSets <- AnyDates
    ChannelCap = 1
    DynStates <- AllStates
    NoReq = 0
INVARIANTS
    NoCrossedReply
    RequestsAccounted

    
