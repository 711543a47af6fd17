\* One job settled by transactions of bytes.
SPECIFICATION TxFairSpec
CONSTANTS
    None = None
    alice = alice  bob = bob  kv = kv  ka = ka  s1 = s1  j1 = j1
    e1 = e1  e2 = e2  sig = sig  att = att  rul = rul  oth = oth
    JobIds = {j1}
    SpecHashes = {s1}
    EvidenceHashes = {e1, e2}
    Keys = {kv, ka}
    Amounts = {2}
    MaxI64 = 4
    Parties = {alice, bob}
    JobTerms <- TheContract
    InitialTokens <- AliceHasTwo
    MaxSigned = 2
    MaxDonated = 0
    Tags = {att, rul, oth}
    DomainTag <- TwoTags
    VerdictByte <- PassIsZero
    SignatureCell = sig
    CURRENT_INSTRUCTION = 65535
    OtherMessages <- ForeignMessages
    Transactions <- SomeTransactions
PROPERTIES
    ImplementsProgram
    LockedMoneyIsSettled
CHECK_DEADLOCK FALSE
