SPECIFICATION Spec
CHECK_DEADLOCK FALSE
CONSTANTS
    None = None
    k = k  l = l  s = s  m = m  n = n
    Cells = {k, l, s, m, n}
    KeyLen = 1
    SignatureLen = 1
    MessageLen = 2
    CURRENT_INSTRUCTION = 65535
    Triples <- SomeTriples
    Transactions <- SomeTransactions
    MaxSigned = 6
INVARIANTS
    AcceptedIsSigned
    SignedIsAcceptable
