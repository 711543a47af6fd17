CONSTANTS
    None = None
    JobIds = {j1}
    SpecHashes = {s1}
    EvidenceHashes = {e1, e2}
    Keys = {k1, k2}
    Amounts = {5}
    MaxI64 = 2
    MaxSigned = 1
SPECIFICATION Spec
CHECK_DEADLOCK FALSE
SYMMETRY Symmetry
INVARIANTS TypeOK WellFormed BoundedLockup NoLimboNoOverlap
PROPERTIES OneWay SettledByJudgeOrClock
