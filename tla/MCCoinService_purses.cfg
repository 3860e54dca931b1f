\* Operations on resident purses and escrow paid to them, with the row locks of two
\* purses taken in both orders.
SPECIFICATION LiveSpec
CONSTANTS
    s1 = s1
    s2 = s2
    NoSession = NoSession
    Users = {1}
    Slugs = {11, 12}
    Holds = {21}
    Sessions <- Sessions12
    Amounts = {0, 1, 2}
    Distributions <- PurseDistributions
    Ghost = 99
    Grant = 1
    MaxSupply = 2
INVARIANTS
    Inductive
PROPERTIES
    RefinesBank
    CallsEnd
