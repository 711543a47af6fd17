\* Every transaction may be lost, late or confirmed; strangers crank.
CONSTANTS
    None = None
    JobIds = {job}
    SpecHashes = {spec}
    EvidenceHashes = {evidence}
    Amounts = {3}
    Keys = {verifier, arbiter}
    payer = payer
    provider = provider
    Parties <- MCParties
    JobTerms = {}
    InitialTokens <- MCNoTokens
    MaxI64 = 7
    MaxSigned = 1
    MaxDonated = 0
    Payer = payer
    Provider = provider
    VerifierKey = verifier
    ArbiterKey = arbiter
    DemoJob = job
    SpecHash = spec
    EvidenceHash = evidence
    PRICE = 3
    Hour = 2
    HalfHour = 1
    LastStart = 1
    Skews <- MCSkews

SPECIFICATION DemoFairSpec

INVARIANTS
    DoneAsDelivered
    

PROPERTIES
    NothingIsStranded

CHECK_DEADLOCK FALSE
