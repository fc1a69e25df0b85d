SPECIFICATION Spec
CONSTANTS
    A = A
    B = B
    C = C
    Z = Z
    Addresses = {A, B, C, Z}
    Registered = {A, B}
    NoWallet = NoWallet
    Opening <- MCOpening
    Amounts <- MCAmounts
    Workloads <- MCWorkloads
    Transactions <- MCTransactions
    Tasks = {t1, t2}
    MempoolSize = 1
    SeenSize = 2
    MaxRows = 4
    MaxMoves = 1
    MaxFaults = 1
SYMMETRY TaskSymmetry
INVARIANTS
    TypeOK
    IndexIsReplay
    RowsAreTheChain
    
    NoWalletOverdrawn
PROPERTIES
    PendingLeavesForAReason
