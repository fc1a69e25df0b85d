SPECIFICATION Spec
CONSTANTS
    Sessions = {s1, s2, s3}
    Rows <- MCRows
    Opening <- MCOpening
    Scripts <- MCScripts
    MaxFaults = 1
    Yield = 1
    Bonus = 1
    ReferralBonus = 1
    Required = 2
    Experience = 1
    Prize = 1
    MinClaim = 1
    LastChapter = 2
    KickedOff = {"m"}
INVARIANTS
    TypeOK
    NoNegativeBalance
    PaidOnce
    LockedReadsAreFresh
    MoneyConserved
    CachedTotals
    SubmittedIsDebited
    StakesAreSettled
    VerifiedByTwo
    SubchainIsLinked
PROPERTIES
    TerminalIsFinal
    EveryRequestEnds
CHECK_DEADLOCK FALSE
