CONSTANTS
    None = None
    alice = alice
    bob = bob
    kv = kv
    ka = ka
    s1 = s1
    JobIds = {j1}
    SpecHashes = {s1}
    EvidenceHashes = {e1}
    Keys = {kv, ka}
    Amounts = {1, 2}
    MaxI64 = 3
    Parties = {alice, bob}
    JobTerms <- NoDeadline
    InitialTokens <- AliceHasTwo
    MaxSigned = 0
    MaxDonated = 0
SPECIFICATION FairSpec
CHECK_DEADLOCK FALSE
PROPERTIES LockedMoneyIsSettled
