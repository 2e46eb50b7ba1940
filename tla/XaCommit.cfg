SPECIFICATION Spec
CONSTANTS
    t1 = t1
    t2 = t2
    Txns <- Two
    Branches <- LocalAndRemote
    Remote <- Peers
    Votes <- WriteVotes
    MaxCrashes = 1
    MaxFaults = 1
INVARIANTS
    CommitIsUnanimous
    ForwardOnly
    OutcomeIsTrue
    InDoubtIsRecorded
CHECK_DEADLOCK FALSE
SYMMETRY Symmetry
