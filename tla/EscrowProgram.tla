---------------------------- MODULE EscrowProgram ----------------------------
(***************************************************************************)
(* The on-chain program, programs/settlement: job accounts, the token      *)
(* accounts that hold the money, and the instructions that move both.  A   *)
(* transaction is atomic: an instruction that fails any check leaves       *)
(* nothing behind, so each instruction is one action.                      *)
(*                                                                         *)
(* Around the program stand the token and associated-token programs        *)
(* (accounts are opened, closed when empty, and credited by anyone), the   *)
(* cluster clock, and the judges, who sign off chain whatever they like.   *)
(***************************************************************************)
EXTENDS SettlementCore, FiniteSets, Functions

CONSTANTS
    Parties,        \* wallets: buyers, providers, bystanders
    JobTerms,       \* the terms buyers may put in create_job
    InitialTokens,  \* what each wallet's token account holds at the start
    MaxSigned,      \* bound on the number of signatures ever produced
    MaxDonated      \* bound on tokens sent to one escrow from outside the program

ASSUME PartiesAssumption == None \notin Parties

\* Addresses are 32 bytes.
ASSUME FiniteAssumption == IsFiniteSet(JobIds) /\ IsFiniteSet(Parties)

ASSUME JobTermsAssumption ==
    JobTerms \subseteq [spec_hash: SpecHashes, amount: Amounts, verifier: Keys,
                        arbiter: Keys, windows: Windows, provider: Parties]

ASSUME TokensAssumption ==
    /\ InitialTokens \in [Parties -> Nat]
    /\ None \notin Nat
    /\ MaxDonated \in Nat

VARIABLES
    clock,    \* Clock::unix_timestamp
    jobs,     \* the job account at each job's address, None before create_job
    wallet,   \* balance of each wallet's associated token account, None if closed
    escrow,   \* balance of each job's escrow token account
    donated,  \* what each escrow received other than by the fund instruction
    signed,   \* every signature produced so far; it can be replayed for ever
    signer    \* the wallet that signed the last transaction, None if none had to

vars == <<clock, jobs, wallet, escrow, donated, signed, signer>>

Account == [core: Job, buyer: Parties, provider: Parties]

ASSUME NoneIsNoAccount == None \notin Account

Init ==
    /\ clock = 0
    /\ jobs = [j \in JobIds |-> None]
    /\ wallet = InitialTokens
    /\ escrow = [j \in JobIds |-> 0]
    /\ donated = [j \in JobIds |-> 0]
    /\ signed = {}
    /\ signer = None

-----------------------------------------------------------------------------
(* Shared by the instructions *)

Exists(j) == jobs[j] # None

Balance(p) == IF wallet[p] = None THEN 0 ELSE wallet[p]

\* state::Job::to_core.
ToCore(j) == jobs[j].core

\* Mutant: absorb_core forgets a field.
AbsorbTooFew(j, updated) ==
    [jobs EXCEPT ![j].core.state = updated.state,
                 ![j].core.evidence_hash = updated.evidence_hash,
                 ![j].core.arbitration_deadline = updated.arbitration_deadline]

\* state::Job::absorb_core: the fields a transition may change, and no other.
AbsorbCore(j, updated) ==
    [jobs EXCEPT ![j].core.state = updated.state,
                 ![j].core.evidence_hash = updated.evidence_hash,
                 ![j].core.review_deadline = updated.review_deadline,
                 ![j].core.arbitration_deadline = updated.arbitration_deadline]

\* apply_core, then absorb_core: an error aborts the transaction.
ApplyCore(j, event) ==
    /\ Exists(j)
    /\ Accepts(ToCore(j), event, clock)
    /\ jobs' = AbsorbCore(j, Applied(ToCore(j), event, clock))

\* Mutant: the destinations swapped.
SwappedDestination(j, state) ==
    IF state = "Released" THEN jobs[j].buyer ELSE jobs[j].provider

Destination(j, state) ==
    IF state = "Released" THEN jobs[j].provider ELSE jobs[j].buyer

\* The end of release, resolve and crank_timeout: both parties' token accounts
\* must exist, and the job's amount goes from the escrow to one of them.
\* `accounts` are the wallets' balances as the instruction finds them.
SettleWith(j, event, accounts) ==
    /\ ApplyCore(j, event)
    /\ accounts[jobs[j].buyer] # None
    /\ accounts[jobs[j].provider] # None
    /\ LET amount == ToCore(j).amount
           payee == Destination(j, Applied(ToCore(j), event, clock).state)
       IN  /\ escrow[j] >= amount
           /\ escrow' = [escrow EXCEPT ![j] = @ - amount]
           /\ wallet' = [accounts EXCEPT ![payee] = @ + amount]
    /\ signer' = None
    /\ UNCHANGED <<clock, donated, signed>>

-----------------------------------------------------------------------------
(* Instructions *)

\* create_job: the terms are taken as they come, nothing about them is checked.
CreateJob(j, buyer, terms) ==
    /\ ~Exists(j)
    /\ jobs' = [jobs EXCEPT ![j] =
          [core |-> Created(j, terms.spec_hash, terms.amount, terms.verifier,
                            terms.arbiter, terms.windows),
           buyer |-> buyer,
           provider |-> terms.provider]]
    /\ signer' = buyer
    /\ UNCHANGED <<clock, wallet, escrow, donated, signed>>

\* Mutant: the escrow is credited, the buyer is not charged.
FundUncharged(j, buyer) ==
    /\ ApplyCore(j, FundEvent)
    /\ buyer = jobs[j].buyer
    /\ wallet[buyer] # None
    /\ escrow' = [escrow EXCEPT ![j] = @ + ToCore(j).amount]
    /\ signer' = buyer
    /\ UNCHANGED <<clock, wallet, donated, signed>>

Fund(j, buyer) ==
    /\ ApplyCore(j, FundEvent)
    /\ buyer = jobs[j].buyer
    /\ wallet[buyer] # None
    /\ LET amount == ToCore(j).amount
       IN  /\ wallet[buyer] >= amount
           /\ wallet' = [wallet EXCEPT ![buyer] = @ - amount]
           /\ escrow' = [escrow EXCEPT ![j] = @ + amount]
    /\ signer' = buyer
    /\ UNCHANGED <<clock, donated, signed>>

SubmitEvidence(j, provider, h) ==
    /\ ApplyCore(j, SubmitEvent(h))
    /\ provider = jobs[j].provider
    /\ signer' = provider
    /\ UNCHANGED <<clock, wallet, escrow, donated, signed>>

\* Mutant: anybody may dispute.
DisputeByAnyone(j, buyer) ==
    /\ ApplyCore(j, DisputeEvent)
    /\ signer' = buyer
    /\ UNCHANGED <<clock, wallet, escrow, donated, signed>>

Dispute(j, buyer) ==
    /\ ApplyCore(j, DisputeEvent)
    /\ buyer = jobs[j].buyer
    /\ signer' = buyer
    /\ UNCHANGED <<clock, wallet, escrow, donated, signed>>

\* release: the Ed25519 precompile has verified this signature in the same
\* transaction, so it exists; who submits it does not matter.
Release(j, h, v) ==
    /\ Exists(j)
    /\ AttestationFor(ToCore(j), h, v) \in signed
    /\ SettleWith(j, ReleaseEvent(h, v), wallet)

Resolve(j, h, v) ==
    /\ Exists(j)
    /\ RulingFor(ToCore(j), h, v) \in signed
    /\ SettleWith(j, ResolveEvent(h, v), wallet)

CrankTimeout(j) == SettleWith(j, TimeoutEvent, wallet)

-----------------------------------------------------------------------------
(* The world around the program *)

\* The cluster clock never goes back.
Tick ==
    /\ clock < MaxI64
    /\ clock' = clock + 1
    /\ UNCHANGED <<jobs, wallet, escrow, donated, signed, signer>>

\* A judge signs a verdict about any job, spec and evidence.
Sign(signature) ==
    /\ Cardinality(signed) < MaxSigned
    /\ signed' = signed \cup {signature}
    /\ UNCHANGED <<clock, jobs, wallet, escrow, donated, signer>>

\* Anyone may open a wallet's associated token account; its owner may close it
\* once it is empty.  An owner who gives the authority over the account away, so
\* that no settlement accepts it any more, is left out.
OpenWallet(p) ==
    /\ wallet[p] = None
    /\ wallet' = [wallet EXCEPT ![p] = 0]
    /\ signer' = None
    /\ UNCHANGED <<clock, jobs, escrow, donated, signed>>

CloseWallet(p) ==
    /\ wallet[p] = 0
    /\ wallet' = [wallet EXCEPT ![p] = None]
    /\ signer' = p
    /\ UNCHANGED <<clock, jobs, escrow, donated, signed>>

\* One transaction of three instructions: open both token accounts if they are
\* closed, then crank_timeout.  No party can block a crank by closing its own.
OpenAndCrank(j) ==
    /\ Exists(j)
    /\ SettleWith(j, TimeoutEvent,
                  [p \in Parties |->
                      IF p \in {jobs[j].buyer, jobs[j].provider} THEN Balance(p) ELSE wallet[p]])

\* A plain token transfer into an escrow account, past the program.
Donate(p, j) ==
    /\ Exists(j)
    /\ donated[j] < MaxDonated
    /\ wallet[p] # None
    /\ wallet[p] > 0
    /\ wallet' = [wallet EXCEPT ![p] = @ - 1]
    /\ escrow' = [escrow EXCEPT ![j] = @ + 1]
    /\ donated' = [donated EXCEPT ![j] = @ + 1]
    /\ signer' = p
    /\ UNCHANGED <<clock, jobs, signed>>

Instruction(j) ==
    \/ \E p \in Parties :
        \/ \E terms \in JobTerms : CreateJob(j, p, terms)
        \/ Fund(j, p)
        \/ Dispute(j, p)
        \/ \E h \in EvidenceHashes : SubmitEvidence(j, p, h)
    \/ \E h \in EvidenceHashes, v \in Verdict : Release(j, h, v) \/ Resolve(j, h, v)
    \/ CrankTimeout(j)

World ==
    \/ Tick
    \/ \E signature \in Signature : Sign(signature)
    \/ \E p \in Parties :
        \/ OpenWallet(p)
        \/ CloseWallet(p)
        \/ \E j \in JobIds : Donate(p, j)
    \/ \E j \in JobIds : OpenAndCrank(j)

Next == World \/ \E j \in JobIds : Instruction(j)

Spec == Init /\ [][Next]_vars

\* Time passes, and somebody cranks a job whose clock has run out (anyone may,
\* and reopening a closed token account is part of it).  Nothing is expected of
\* judges, and of buyers and providers only that their accounts stay theirs.
Fairness ==
    /\ WF_vars(Tick)
    /\ \A j \in JobIds : WF_vars(OpenAndCrank(j))

FairSpec == Spec /\ Fairness

-----------------------------------------------------------------------------
(* Properties *)

TypeOK ==
    /\ clock \in I64
    /\ jobs \in [JobIds -> Account \cup {None}]
    /\ wallet \in [Parties -> Nat \cup {None}]
    /\ escrow \in [JobIds -> Nat]
    /\ donated \in [JobIds -> Nat]
    /\ signed \subseteq Signature
    /\ signer \in Parties \cup {None}

\* Every job account is the record of a history of accepted events, filed under
\* its own id: what settlement-core's proofs assume of the job that to_core
\* reads back, and what no instruction may break by writing a field too few.
AccountsAreJobs ==
    \A j \in JobIds :
        Exists(j) => /\ ToCore(j).job_id = j
                     /\ WellFormedJob(ToCore(j))
                     /\ BoundedJob(ToCore(j))

\* Each escrow account holds exactly what its own job says it holds: the full
\* amount while the job is funded and unsettled, nothing of it before or after,
\* whatever strangers added.  No interleaving of instructions on several jobs
\* funds a job twice, pays it twice, or pays it out of another job's escrow.
EscrowMatchesState ==
    \A j \in JobIds :
        escrow[j] = donated[j]
                    + IF Exists(j) /\ ToCore(j).state \in Locked
                      THEN ToCore(j).amount ELSE 0

\* The program neither creates nor destroys tokens.
TokensConserved ==
    SumFunctionOnSet([p \in Parties |-> Balance(p)], Parties)
      + SumFunctionOnSet(escrow, JobIds)
    = SumFunctionOnSet(InitialTokens, Parties)

\* A judge of job j has signed this verdict over the evidence on record, in the
\* role the domain names and about this job and no other.
Said(key, domain, j, v) ==
    [key |-> key,
     message |-> [domain |-> domain, job_id |-> j,
                  spec_hash |-> ToCore(j).spec_hash,
                  evidence_hash |-> ToCore(j).evidence_hash, verdict |-> v]] \in signed

VerifierSaid(j, v) == Said(ToCore(j).verifier, "attestation", j, v)
ArbiterSaid(j, v) == Said(ToCore(j).arbiter, "ruling", j, v)

EndedForCause(j) ==
    LET job == ToCore(j)
        disputed == job.arbitration_deadline # None
    IN  /\ job.state = "Released" =>
              /\ job.evidence_hash # None
              /\ IF disputed
                 THEN ArbiterSaid(j, "Pass") \/ clock > job.arbitration_deadline
                 ELSE VerifierSaid(j, "Pass") \/ clock > job.review_deadline
        /\ job.state = "Refunded" =>
              IF job.evidence_hash = None
              THEN clock > job.windows.evidence_deadline
              ELSE IF disputed THEN ArbiterSaid(j, "Fail")
                               ELSE VerifierSaid(j, "Fail")

\* Every settled job can show why it ended the way it did, to anyone who looks
\* later: a judge's signature of that very verdict over that very evidence, or
\* a clock that has run out and pays the side the terms name.  A dispute takes
\* the decision away from the verifier for good.
SettledForCause == \A j \in JobIds : Exists(j) => EndedForCause(j)

\* The terms bound how long money can stay locked, whatever the parties and the
\* judges do: once every sum of windows agreed at creation has passed, the
\* permissionless timeout is open, and the escrow can pay what it asks for.  A
\* stranger's transaction brings the rest, the two token accounts, along.
TermsBoundTheLock ==
    \A j \in JobIds :
        (Exists(j) /\ ToCore(j).state \in Locked) =>
            LET w == ToCore(j).windows
            IN  (/\ clock > w.evidence_deadline
                 /\ clock > LastReview(w)
                 /\ clock > LastRuling(w))
                => /\ Accepts(ToCore(j), TimeoutEvent, clock)
                   /\ escrow[j] >= ToCore(j).amount

\* Tokens leave an escrow only as the one settlement of its job: the whole
\* amount, to the provider if and only if the job becomes Released, to the
\* buyer otherwise, and to no account besides.
PayoutsAreSettlements ==
    [][ \A j \in JobIds : escrow'[j] < escrow[j] =>
          LET before == jobs[j]
              after == jobs'[j]
              payee == IF after.core.state = "Released" THEN before.provider ELSE before.buyer
          IN  /\ before.core.state \in Locked
              /\ after.core.state \in Settled
              /\ escrow[j] - escrow'[j] = before.core.amount
              /\ \A p \in Parties :
                    Balance(p)' = Balance(p) + IF p = payee THEN before.core.amount ELSE 0
              /\ \A k \in JobIds \ {j} : escrow'[k] = escrow[k] ]_vars

\* Nobody acts in another's name: a wallet loses tokens only in a transaction
\* its owner signed, evidence is recorded only by the provider of the job, and
\* only its buyer funds or disputes it.
OnlyTheirOwner ==
    [][ /\ \A p \in Parties :
              (wallet[p] # None /\ (wallet'[p] = None \/ wallet'[p] < wallet[p]))
              => signer' = p
        /\ \A j \in JobIds : (Exists(j) /\ jobs'[j].core.state # ToCore(j).state) =>
              CASE jobs'[j].core.state = "UnderReview" -> signer' = jobs[j].provider
                [] jobs'[j].core.state \in {"Funded", "Disputed"} -> signer' = jobs[j].buyer
                [] OTHER -> TRUE ]_vars

\* Nobody can strand the money by walking away: funded money reaches a party in
\* the end, though the buyer, the provider, the verifier and the arbiter may
\* all have gone, as long as somebody turns the crank.
LockedMoneyIsSettled ==
    \A j \in JobIds :
        (Exists(j) /\ ToCore(j).state \in Locked)
        ~> (Exists(j) /\ ToCore(j).state \in Settled)

-----------------------------------------------------------------------------
(* What the documentation says and the program does not do *)

\* "How long the verifier gets to answer", "how long the arbiter gets to rule":
\* a refund of delivered work, which only a verdict can cause, comes in time.
JudgesAnswerInTime ==
    [][ \A j \in JobIds :
          (Exists(j) /\ ToCore(j).state \in {"UnderReview", "Disputed"}
                     /\ jobs'[j].core.state = "Refunded")
          => clock <= Deadline(ToCore(j)) ]_vars

\* "A failed inspection refunds the buyer.  Work that misses the spec does not
\* get paid": not once the verifier has failed it and no judge has passed it.
FailedInspectionIsNotPaid ==
    [][ \A j \in JobIds :
          (/\ Exists(j)
           /\ ToCore(j).state \in {"UnderReview", "Disputed"}
           /\ VerifierSaid(j, "Fail")
           /\ ~VerifierSaid(j, "Pass")
           /\ ~ArbiterSaid(j, "Pass"))
          => jobs'[j].core.state # "Released" ]_vars

-----------------------------------------------------------------------------
(* The program keeps the promise of EscrowPromise *)

PhaseOf(state) ==
    CASE state = "Created" -> "offered"
      [] state = "Funded" -> "held"
      [] state = "UnderReview" -> "delivered"
      [] state = "Disputed" -> "contested"
      [] state = "Released" -> "paid"
      [] state = "Refunded" -> "returned"

phaseBar == [j \in JobIds |-> IF Exists(j) THEN PhaseOf(ToCore(j).state) ELSE "absent"]

condemnedBar ==
    {j \in JobIds : /\ Exists(j)
                    /\ ToCore(j).evidence_hash # None
                    /\ VerifierSaid(j, "Fail") \/ ArbiterSaid(j, "Fail")}

heldBar == {j \in JobIds : Exists(j) /\ ToCore(j).state \in Locked}

Promise == INSTANCE EscrowPromise
              WITH phase <- phaseBar, condemned <- condemnedBar, held <- heldBar

KeepsPromise == Promise!PromiseSpec

=============================================================================
