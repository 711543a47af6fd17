CONSTANTS
    None = None
    alice = alice
    bob = bob
    kv = kv
    ka = ka
    s1 = s1
    JobIds = {j1, j2}
    SpecHashes = {s1}
    EvidenceHashes = {e1}
    Keys = {kv, ka}
    Amounts = {1, 2}
    MaxI64 = 3
    Parties = {alice, bob}
    JobTerms <- TwoContracts
    InitialTokens <- AliceHasThree
    MaxSigned = 1
    MaxDonated = 1
SPECIFICATION Spec
CHECK_DEADLOCK FALSE
INVARIANTS TypeOK AccountsAreJobs EscrowMatchesState TokensConserved SettledForCause TermsBoundTheLock
PROPERTIES PayoutsAreSettlements OnlyTheirOwner KeepsPromise
