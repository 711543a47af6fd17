CONSTANTS
    None = None
    alice = alice
    bob = bob
    kv = kv
    ka = ka
    s1 = s1
    JobIds = {j1}
    SpecHashes = {s1}
    EvidenceHashes = {e1}
    Keys = {kv, ka}
    Amounts = {1, 2}
    MaxI64 = 3
    Parties = {alice, bob}
    JobTerms <- OneContract
    InitialTokens <- AliceHasTwo
    MaxSigned = 1
    MaxDonated = 0
SPECIFICATION Spec
CHECK_DEADLOCK FALSE
PROPERTIES FailedInspectionIsNotPaid
