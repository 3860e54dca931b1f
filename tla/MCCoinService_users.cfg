\* Operations between user balances and escrow.
SPECIFICATION Spec
CONSTANTS
    s1 = s1
    s2 = s2
    NoSession = NoSession
    Users = {1, 2}
    Slugs = {}
    Holds = {21}
    Sessions <- Sessions12
    Amounts = {0, 1, 2}
    Distributions <- UserDistributions
    Ghost = 99
    Grant = 1
    MaxSupply = 2
SYMMETRY SessionSymmetry
INVARIANTS
    NoOverdraft
    LedgerReconciles
    HoldPaidOnce
    OnlyTreasuryTransferDeadlocks
PROPERTIES
    SupplyMovesOnlyAsIntended
