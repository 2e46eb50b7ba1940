SPECIFICATION Spec
CONSTANTS
    a = a
    b = b
    c = c
    t1 = t1
    t2 = t2
    t3 = t3
    r1 = r1
    Keys <- MCKeys
    Txns <- MCTxns
    WriteSet <- MCWriteSet
    Readers <- MCReaders
    ReadSet <- MCReadSet
    None = None
    MaxRestarts = 1
INVARIANTS
    ReadAtomic
    NoDangling
    AckedVisible
CHECK_DEADLOCK FALSE
