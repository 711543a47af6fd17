SPECIFICATION Spec
CONSTANTS
    None = None
    r1 = r1  r2 = r2
    s1 = s1  s2 = s2  t1 = t1  t2 = t2  t3 = t3
    usdc = usdc  sol = sol  operator = operator  stranger = stranger
    devnet = devnet  mainnet = mainnet  kv = kv  ka = ka  payer = payer
    JobIds <- SomeJobIds
    SpecHashes = {s1, s2}
    EvidenceHashes = {}
    Keys = {kv, ka}
    Amounts = {2}
    MaxI64 = 3
    Requests = {r1, r2}
    SpecOf <- TwoSpecs
    Transactions = {t1, t2, t3}
    TransactionOf <- SomeTransactions
    Payments <- GoodPayments
    PayTo = operator
    Network = devnet
    ReviewWindow = 1
    ArbitrationWindow = 1
    VerifierKeyOf <- SomeVerifierKeys
    ArbiterKeyOf <- SomeArbiterKeys
    MaxRestarts = 1
    MaxJobs = 2
INVARIANTS
    OnePaymentEver
