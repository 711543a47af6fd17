SPECIFICATION ServerSpec
CONSTANTS
    None = None
    printed = printed  painted = painted  kv = kv  ka = ka
    JobIds <- SomeJobIds
    SpecHashes = {printed, painted}
    EvidenceHashes <- SomeEvidence
    Keys = {kv, ka}
    Amounts = {1}
    MaxI64 = 1
    SpecOf <- TwoSpecs
    EvidenceOf <- ReadEvidence
    VerifierKey = kv
    ArbiterKey = ka
    Readings = {0, 1}
    ReviewArgs <- WhateverCallersSend
    ArbitrationArgs = {1}
    MaxJobs = 2
CHECK_DEADLOCK FALSE
INVARIANTS
    ServerTypeOK
    RecordsAgree
    SignsAsTheBundleSays
    OneVerdictPerJob
    SettledAsSigned
    ToldIsTrue
PROPERTIES
    RefusalsLeaveNoTrace
