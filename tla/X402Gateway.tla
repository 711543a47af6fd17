----------------------------- MODULE X402Gateway -----------------------------
(***************************************************************************)
(* services/x402-gateway: POST /jobs takes a job specification and a proof *)
(* of payment, and records a funded job.  Which proofs it takes is decided *)
(* when the process starts: SolanaPaymentVerifier wants a transaction that *)
(* the chain has confirmed, StubVerifier a payer's signature.              *)
(*                                                                         *)
(* Requests run on several threads.  A request holds no lock while it asks *)
(* the chain about the transaction, locks the set of used signatures for   *)
(* the replay check, and locks the store, later, to record the job: one    *)
(* action for each of these.  Everything is in memory, so a restart loses  *)
(* the jobs, the used signatures and the sequence number together.         *)
(***************************************************************************)
EXTENDS SettlementCore, FiniteSets, Functions

CONSTANTS
    Requests,           \* connections, each carrying one request at a time
    SpecOf,             \* what the job specification with a given hash asks
    Transactions,       \* signed transactions, by their first signature
    TransactionOf,      \* what the transaction with a given signature contains
    Payments,           \* decoded X-PAYMENT headers clients send
    PayTo, Network,     \* the operator's address and network
    ReviewWindow, ArbitrationWindow,
    VerifierKeyOf, ArbiterKeyOf,   \* the random keys of each boot
    MaxRestarts,        \* bound on the number of restarts
    MaxJobs             \* bound on the number of jobs a process is asked for

Transfer(asset, pay_to, amount) == [asset |-> asset, pay_to |-> pay_to, amount |-> amount]

ASSUME SpecsAssumption ==
    \A h \in SpecHashes : SpecOf[h].amount \in Amounts /\ SpecOf[h].deadline \in I64

ASSUME IdsAssumption == SpecHashes \X (1 .. MaxJobs) \subseteq JobIds

ASSUME KeysAssumption ==
    /\ VerifierKeyOf \in [0 .. MaxRestarts -> Keys]
    /\ ArbiterKeyOf \in [0 .. MaxRestarts -> Keys]
    /\ {ReviewWindow, ArbitrationWindow} \subseteq I64

ASSUME BoundsAssumption ==
    /\ IsFiniteSet(Requests)
    /\ MaxJobs \in Nat
    /\ MaxRestarts \in Nat

\* The proofs that headers carry, and what is kept of a job.
Proofs == {payment.proof : payment \in {p \in Payments : p.decodes}}

Entry == [core : Job, paid_by : Proofs]

ASSUME ProofsAssumption == \A proof \in Proofs : proof.tx \in Transactions \cup {None}

ASSUME NoneIsNoEntry == None \notin Entry

VARIABLES
    verifier,         \* AppState.payment_verifier
    status,           \* what the chain says of each transaction
    step,             \* where each request is in the handler
    order,            \* the specification and the proof it carries
    used_signatures,  \* SolanaPaymentVerifier.used_signatures
    jobs,             \* Store.jobs, with the proof that bought each job
    next_seq,         \* Store.next_seq
    boot,             \* how often the process has been restarted
    issued            \* every job ever created: its boot and verifier, id and proof

vars == <<verifier, status, step, order, used_signatures, jobs, next_seq, boot, issued>>

NoOrder == [spec |-> None, proof |-> None]

\* main: with an RPC endpoint configured, or without.
Verifiers == {"solana", "stub"}

Init ==
    /\ verifier \in Verifiers
    /\ status = [t \in Transactions |-> "unknown"]
    /\ step = [r \in Requests |-> "idle"]
    /\ order = [r \in Requests |-> NoOrder]
    /\ used_signatures = {}
    /\ jobs = [j \in JobIds |-> None]
    /\ next_seq = 0
    /\ boot = 0
    /\ issued = {}

-----------------------------------------------------------------------------
(* The checks that need neither a lock nor the network *)

\* build_requirements.
Requirement(h) == Transfer(SpecOf[h].asset, PayTo, SpecOf[h].amount)

\* Mutant: any amount will do.
FindAnyTransfer(transfers, wanted) ==
    \E t \in transfers : t.asset = wanted.asset /\ t.pay_to = wanted.pay_to

\* find_exact_transfer: one instruction must match on every axis.  Which miss is
\* reported, when none does, is not modelled.
FindExactTransfer(transfers, wanted) ==
    \E t \in transfers : /\ t.asset = wanted.asset
                         /\ t.pay_to = wanted.pay_to
                         /\ t.amount = wanted.amount

\* SolanaPaymentVerifier::verify up to the chain.
SolanaAdmits(h, proof) ==
    /\ proof.network = Network
    /\ proof.tx # None
    /\ TransactionOf[proof.tx].signed
    /\ FindExactTransfer(TransactionOf[proof.tx].transfers, Requirement(h))

\* proof_message.  The amount it covers is the one in the proof, which has been
\* found equal to the required one by then.
ProofMessage(h, proof) ==
    [spec |-> h, network |-> Network, transfer |-> Requirement(h), nonce |-> proof.nonce]

\* Mutant: a signature for another specification of the same price will do.
AdmitsAnySpec(h, proof) ==
    /\ proof.network = Network
    /\ proof.transfer = Requirement(h)
    /\ proof.signature.key = proof.payer
    /\ [proof.signature.message EXCEPT !.spec = h] = ProofMessage(h, proof)

\* StubVerifier::verify.  A signature is the pair of the key and the message.
StubAdmits(h, proof) ==
    /\ proof.network = Network
    /\ proof.transfer = Requirement(h)
    /\ proof.signature = [key |-> proof.payer, message |-> ProofMessage(h, proof)]

\* create_job up to the verifier.  A specification that is not valid JSON, or not
\* a job specification, is None.
Admissible(h, payment) ==
    /\ h # None
    /\ payment # None
    /\ payment.decodes
    /\ payment.version_ok
    /\ payment.scheme = "exact"
    /\ IF verifier = "solana" THEN SolanaAdmits(h, payment.proof)
                             ELSE StubAdmits(h, payment.proof)

\* Mutant: an answered request keeps its order.
AnswerAndKeep(r) ==
    /\ step' = [step EXCEPT ![r] = "idle"]
    /\ UNCHANGED order

Answer(r) ==
    /\ step' = [step EXCEPT ![r] = "idle"]
    /\ order' = [order EXCEPT ![r] = NoOrder]

GoOn(r, next) ==
    /\ step' = [step EXCEPT ![r] = next]
    /\ UNCHANGED order

-----------------------------------------------------------------------------
(* POST /jobs *)

\* A request that passes the local checks.  One that fails any of them is
\* answered on the spot, and leaves nothing behind.
Post(r, h, payment) ==
    /\ next_seq + Cardinality({q \in Requests : step[q] # "idle"}) < MaxJobs
    /\ step[r] = "idle"
    /\ Admissible(h, payment)
    /\ step' = [step EXCEPT ![r] = IF verifier = "solana" THEN "confirming" ELSE "creating"]
    /\ order' = [order EXCEPT ![r] = [spec |-> h, proof |-> payment.proof]]
    /\ UNCHANGED <<verifier, status, used_signatures, jobs, next_seq, boot, issued>>

\* confirm_landed: the chain reports the transaction confirmed, without error.
ConfirmLanded(r) ==
    /\ step[r] = "confirming"
    /\ status[order[r].proof.tx] = "confirmed"
    /\ GoOn(r, "claiming")
    /\ UNCHANGED <<verifier, status, used_signatures, jobs, next_seq, boot, issued>>

\* Mutant: the signature is marked as used before it is known to be confirmed.
ClaimUnconfirmed(r) ==
    /\ step[r] = "confirming"
    /\ Answer(r)
    /\ used_signatures' = used_signatures \cup {order[r].proof.tx}
    /\ UNCHANGED <<verifier, status, jobs, next_seq, boot, issued>>

\* It reports anything else, or the call fails whatever the chain knows.
NotConfirmed(r) ==
    /\ step[r] = "confirming"
    /\ Answer(r)
    /\ UNCHANGED <<verifier, status, used_signatures, jobs, next_seq, boot, issued>>

\* Mutants: a replay is not noticed, and one waits for ever.
ClaimAgain(r) ==
    /\ step[r] = "claiming"
    /\ GoOn(r, "creating")
    /\ used_signatures' = used_signatures \cup {order[r].proof.tx}
    /\ UNCHANGED <<verifier, status, jobs, next_seq, boot, issued>>
ClaimOnlyFresh(r) ==
    /\ step[r] = "claiming"
    /\ order[r].proof.tx \notin used_signatures
    /\ ClaimAgain(r)

\* The replay check: HashSet::insert under the lock, which tells a signature
\* that was there already.
Claim(r) ==
    /\ step[r] = "claiming"
    /\ IF order[r].proof.tx \in used_signatures
       THEN Answer(r)
       ELSE GoOn(r, "creating")
    /\ used_signatures' = used_signatures \cup {order[r].proof.tx}
    /\ UNCHANGED <<verifier, status, jobs, next_seq, boot, issued>>

\* Mutant: an id without the sequence number.
IdOfSpec(h, seq) == <<h, 1>>

\* Store::next_job_id: the hash of the specification hash and a number.
JobId(h, seq) == <<h, seq>>

NewJob(h, seq) ==
    Created(JobId(h, seq), h, SpecOf[h].amount, VerifierKeyOf[boot], ArbiterKeyOf[boot],
            [evidence_deadline |-> SpecOf[h].deadline,
             review |-> ReviewWindow, arbitration |-> ArbitrationWindow])

\* The rest of create_job, under the store's lock.  Funding a new job takes no
\* notice of the clock.
Create(r) ==
    /\ step[r] = "creating"
    /\ next_seq' = next_seq + 1
    /\ LET h == order[r].spec
           id == JobId(h, next_seq')
           job == NewJob(h, next_seq')
       IN  /\ Accepts(job, FundEvent, 0)
           /\ jobs' = [jobs EXCEPT ![id] =
                  [core |-> Applied(job, FundEvent, 0), paid_by |-> order[r].proof]]
           /\ issued' = issued \cup {[boot |-> boot, verifier |-> verifier, id |-> id,
                                      paid_by |-> order[r].proof]}
    /\ Answer(r)
    /\ UNCHANGED <<verifier, status, used_signatures, boot>>

-----------------------------------------------------------------------------
(* The chain and the process *)

\* A transaction is executed, with or without error; what was seen once may
\* still be dropped by a fork until the cluster has confirmed it.
ChainMoves == {<<"unknown", "processed">>, <<"unknown", "failed">>, <<"failed", "unknown">>,
               <<"processed", "confirmed">>, <<"processed", "unknown">>}

Chain(t) ==
    /\ \E next \in {"unknown", "processed", "failed", "confirmed"} :
          /\ <<status[t], next>> \in ChainMoves
          /\ status' = [status EXCEPT ![t] = next]
    /\ UNCHANGED <<verifier, step, order, used_signatures, jobs, next_seq, boot, issued>>

\* The process stops wherever it is and starts with nothing.
Restart ==
    /\ boot < MaxRestarts
    /\ boot' = boot + 1
    /\ verifier' \in Verifiers
    /\ step' = [r \in Requests |-> "idle"]
    /\ order' = [r \in Requests |-> NoOrder]
    /\ used_signatures' = {}
    /\ jobs' = [j \in JobIds |-> None]
    /\ next_seq' = 0
    /\ UNCHANGED <<status, issued>>

Handle(r) == ConfirmLanded(r) \/ NotConfirmed(r) \/ Claim(r) \/ Create(r)

Next ==
    \/ \E r \in Requests :
        \/ \E h \in SpecHashes \cup {None}, payment \in Payments \cup {None} : Post(r, h, payment)
        \/ Handle(r)
    \/ \E t \in Transactions : Chain(t)
    \/ Restart

Spec == Init /\ [][Next]_vars

\* A request that was accepted is worked on: the threads run, the RPC client
\* gives up after its timeout, and no lock is held across a wait.
FairSpec == Spec /\ \A r \in Requests : WF_vars(Handle(r))

-----------------------------------------------------------------------------
(* Properties *)

Stored == {j \in JobIds : jobs[j] # None}

TypeOK ==
    /\ verifier \in Verifiers
    /\ status \in [Transactions -> {"unknown", "processed", "failed", "confirmed"}]
    /\ step \in [Requests -> {"idle", "confirming", "claiming", "creating"}]
    /\ order \in [Requests -> [spec : SpecHashes, proof : Proofs] \cup {NoOrder}]
    /\ \A r \in Requests :
          IF step[r] = "idle" THEN order[r] = NoOrder
          ELSE order[r] \in [spec : SpecHashes, proof : Proofs]
    /\ used_signatures \subseteq Transactions
    /\ jobs \in [JobIds -> Entry \cup {None}]
    /\ next_seq \in 0 .. MaxJobs
    /\ boot \in 0 .. MaxRestarts
    /\ issued \subseteq [boot : 0 .. MaxRestarts, verifier : Verifiers, id : JobIds,
                       paid_by : Proofs]

\* With a chain to ask, nobody gets a job on credit: behind every funded job
\* stands a transaction the chain has confirmed, with a transfer of exactly the
\* job's price, in the asset its specification names, to the operator.
JobsArePaid ==
    verifier = "solana" =>
        \A j \in Stored :
            LET job == jobs[j].core
                tx == jobs[j].paid_by.tx
            IN  /\ job.state = "Funded"
                /\ job.job_id = j
                /\ status[tx] = "confirmed"
                /\ TransactionOf[tx].signed
                /\ \E t \in TransactionOf[tx].transfers :
                      /\ t.pay_to = PayTo
                      /\ t.amount = job.amount
                      /\ t.asset = SpecOf[job.spec_hash].asset

\* Without one, every job has been asked for: its payer has signed for this very
\* specification at this very price, not for another of the same price.
JobsAreAuthorised ==
    verifier = "stub" =>
        \A j \in Stored :
            LET job == jobs[j].core
                proof == jobs[j].paid_by
            IN  /\ proof.signature.key = proof.payer
                /\ proof.signature.message.spec = job.spec_hash
                /\ proof.signature.message.transfer.amount = job.amount
                /\ proof.signature.message.transfer.pay_to = PayTo

\* One payment buys one job, however many requests present it at once.
OnePaymentOneJob ==
    verifier = "solana" =>
        \A i, j \in Stored : jobs[i].paid_by.tx = jobs[j].paid_by.tx => i = j

\* No payment is swallowed: a transaction that counts as used has its job, or
\* exactly one request that is about to create it.
UsedPaymentsHaveJobs ==
    \A t \in used_signatures :
        Cardinality({j \in Stored : jobs[j].paid_by.tx = t}
                    \cup {r \in Requests : step[r] = "creating" /\ order[r].proof.tx = t}) = 1

\* A payment that counts as used becomes a job, unless the process stops first and
\* forgets that it was used: between the replay check and the store nothing can
\* fail or wait for ever.
PaymentsBecomeJobs ==
    \A t \in Transactions :
        t \in used_signatures
        ~> (t \notin used_signatures \/ \E j \in Stored : jobs[j].paid_by.tx = t)

\* Every request gets an answer, whatever the chain says of its payment and
\* whichever other request got there first.
RequestsAreAnswered == \A r \in Requests : step[r] # "idle" ~> step[r] = "idle"

-----------------------------------------------------------------------------
(* What the documentation says and the program does not do *)

\* "A Solana payment transaction can be presented to POST /jobs at most once,
\* ever": no transaction has bought two jobs.
OnePaymentEver ==
    \A a, b \in issued :
        (a.verifier = "solana" /\ b.verifier = "solana" /\ a.paid_by.tx = b.paid_by.tx) => a = b

-----------------------------------------------------------------------------
(* The gateway keeps the promise of GatewayPromise *)

PriceOf == [h \in SpecHashes |-> SpecOf[h].amount]

PaysFor ==
    {pair \in Transactions \X SpecHashes :
        /\ TransactionOf[pair[1]].signed
        /\ \E t \in TransactionOf[pair[1]].transfers :
              /\ t.pay_to = PayTo
              /\ t.amount = SpecOf[pair[2]].amount
              /\ t.asset = SpecOf[pair[2]].asset}

SignedFor ==
    {pair \in Proofs \X SpecHashes :
        LET signature == pair[1].signature
        IN  /\ signature.key = pair[1].payer
            /\ signature.message.spec = pair[2]
            /\ signature.message.transfer.amount = SpecOf[pair[2]].amount
            /\ signature.message.transfer.pay_to = PayTo}

finalBar == {t \in Transactions : status[t] = "confirmed"}

SaleOf(j) ==
    [id |-> j, state |-> jobs[j].core.state, spec |-> jobs[j].core.spec_hash,
     price |-> jobs[j].core.amount, proof |-> jobs[j].paid_by]

soldBar == {SaleOf(j) : j \in Stored}

Promise == INSTANCE GatewayPromise
              WITH Pays <- PaysFor, Authorises <- SignedFor,
                   mode <- verifier, final <- finalBar, sold <- soldBar

\* However requests interleave, and although the check of a payment, the check that
\* it is new and the sale are steps far apart, a sale happens as if it were one: no
\* id and no payment is used a second time, and no sale is lost or changed while the
\* process lives.
SellsAsPromised == Promise!PromiseSpec

=============================================================================
