-------------------------------- MODULE Demo --------------------------------
(***************************************************************************)
(* demo/src/main.rs: one job, start to settlement, against the deployed    *)
(* program.  One process holds the keys of all four parties, sends one     *)
(* transaction after the other, waits for each to be confirmed, and exits  *)
(* at the first error, taking every key but the payer's with it.           *)
(*                                                                         *)
(* A transaction that was sent may land and be confirmed, land although    *)
(* the client was told otherwise, land after the client has gone, or never *)
(* land.  Meanwhile the cluster clock moves on, not in step with the       *)
(* client's, and strangers open token accounts and turn the crank.         *)
(***************************************************************************)
EXTENDS EscrowProgram

INSTANCE Evaluate

CONSTANTS
    Payer, Provider,
    VerifierKey, ArbiterKey,   \* generated when the demo starts
    DemoJob,        \* the job id, a hash of the time of day
    SpecHash, EvidenceHash,
    PRICE,
    Hour, HalfHour, \* 3600 and 1800 seconds
    Skews,          \* what the client's clock may be ahead of the cluster's
    LastStart       \* bound on the clock when create_job is sent

ASSUME DemoAssumption ==
    /\ {Payer, Provider} \subseteq Parties
    /\ Payer # Provider
    /\ {VerifierKey, ArbiterKey} \subseteq Keys
    /\ DemoJob \in JobIds
    /\ SpecHash \in SpecHashes
    /\ EvidenceHash \in EvidenceHashes
    /\ PRICE \in Amounts

\* Every time the client writes down when it creates the job is an i64.
ASSUME ClocksAssumption ==
    /\ {HalfHour, Hour} \subseteq 0 .. MaxI64
    /\ LastStart \in Nat
    /\ Skews \subseteq Int
    /\ \A skew \in Skews : {skew + Hour, LastStart + skew + Hour} \subseteq I64
    /\ None \notin Int

VARIABLES
    skew,           \* the client's clock less the cluster's
    spec_deadline,  \* delivery.deadline_unix of the specification
    delivered,      \* measurements.delivered_unix of the evidence
    minted,         \* the mint exists
    pc,             \* where main is
    tx,             \* the transaction last sent
    landed          \* it has been executed

demo_vars == <<skew, spec_deadline, delivered, minted, pc, tx, landed>>
all_vars == <<vars, demo_vars>>

\* Nobody has a token account of a mint that is yet to be created.
DemoInit ==
    /\ clock = 0
    /\ jobs = [j \in JobIds |-> None]
    /\ wallet = [p \in Parties |-> None]
    /\ escrow = [j \in JobIds |-> 0]
    /\ donated = [j \in JobIds |-> 0]
    /\ signed = {}
    /\ signer = None
    /\ skew \in Skews
    /\ spec_deadline = skew + Hour
    /\ delivered = None
    /\ minted = FALSE
    /\ pc = "create_mint"
    /\ tx = None
    /\ landed = FALSE

-----------------------------------------------------------------------------
(* The client *)

\* now.
Now == clock + skew

\* The order main goes in.
After == [create_mint |-> "create_atas_and_mint_to", create_atas_and_mint_to |-> "create_job",
          create_job |-> "fund", fund |-> "submit_evidence",
          submit_evidence |-> "release", release |-> "done"]

\* send, up to the RPC call: at most one transaction is on its way.
Send(step, argument) ==
    /\ pc = step
    /\ tx = None
    /\ tx' = [step |-> step, argument |-> argument]
    /\ landed' = FALSE
    /\ UNCHANGED <<skew, spec_deadline, minted, pc>>

SendSetup ==
    /\ \E step \in {"create_mint", "create_atas_and_mint_to", "fund"} : Send(step, None)
    /\ UNCHANGED <<vars, delivered>>

\* Mutant: an evidence deadline that never comes.
EndlessTerms ==
    [spec_hash |-> SpecHash, amount |-> PRICE, verifier |-> VerifierKey, arbiter |-> ArbiterKey,
     windows |-> [evidence_deadline |-> MaxI64, review |-> HalfHour, arbitration |-> Hour],
     provider |-> Provider]

\* The terms, with a deadline later than the specification's by what has passed
\* since that was written.
Terms ==
    [spec_hash |-> SpecHash, amount |-> PRICE, verifier |-> VerifierKey, arbiter |-> ArbiterKey,
     windows |-> [evidence_deadline |-> Now + Hour, review |-> HalfHour, arbitration |-> Hour],
     provider |-> Provider]

SendCreateJob ==
    /\ clock <= LastStart
    /\ Send("create_job", Terms)
    /\ UNCHANGED <<vars, delivered>>

\* evidence_bundle: delivered now, by the client's clock.
SendSubmitEvidence ==
    /\ Send("submit_evidence", EvidenceHash)
    /\ delivered' = Now
    /\ UNCHANGED vars

JobSpec ==
    [tolerance_um |-> 200, deadline_unix |-> spec_deadline,
     acceptance |-> {"dimensions_within_tolerance", "delivered_before_deadline"}]

Evidence == [deviation_um |-> 40, delivered_unix |-> delivered]


\* Evaluate, sign, and send the signature with the settlement.  Both checks are
\* measured, so the assessment is a verdict.
SendRelease ==
    LET verdict == Assess(JobSpec, Evidence)
        message == [domain |-> "attestation", job_id |-> DemoJob, spec_hash |-> SpecHash,
                    evidence_hash |-> EvidenceHash, verdict |-> verdict]
    IN  /\ Send("release", verdict)
        /\ Sign([key |-> VerifierKey, message |-> message])
        /\ UNCHANGED delivered

\* Mutant: send without confirm.
ConfirmBlindly ==
    /\ tx # None
    /\ pc \in DOMAIN After
    /\ pc' = After[pc]
    /\ tx' = None
    /\ landed' = FALSE
    /\ UNCHANGED <<vars, skew, spec_deadline, delivered, minted>>

\* send_and_confirm_transaction answers Ok.
Confirm ==
    /\ tx # None
    /\ landed
    /\ pc \in DOMAIN After
    /\ pc' = After[pc]
    /\ tx' = None
    /\ landed' = FALSE
    /\ UNCHANGED <<vars, skew, spec_deadline, delivered, minted>>

\* Any call of the RPC fails or times out, and main returns the error.
GiveUp ==
    /\ pc \in DOMAIN After
    /\ pc' = "failed"
    /\ UNCHANGED <<vars, skew, spec_deadline, delivered, minted, tx, landed>>

Client ==
    \/ SendSetup
    \/ SendCreateJob
    \/ SendSubmitEvidence
    \/ SendRelease
    \/ Confirm
    \/ GiveUp

-----------------------------------------------------------------------------
(* The cluster *)

CreateMint ==
    /\ ~minted
    /\ minted' = TRUE
    /\ UNCHANGED vars

\* create_atas_and_mint_to: the transaction fails if either account is there
\* already.
CreateAtasAndMintTo ==
    /\ minted
    /\ wallet[Payer] = None
    /\ wallet[Provider] = None
    /\ wallet' = [wallet EXCEPT ![Payer] = PRICE, ![Provider] = 0]
    /\ signer' = Payer
    /\ UNCHANGED <<clock, jobs, escrow, donated, signed, minted>>

\* The transaction on its way is executed.  One that fails, or expires, or is lost
\* has no effect.
Land ==
    /\ tx # None
    /\ ~landed
    /\ landed' = TRUE
    /\ \/ tx.step = "create_mint" /\ CreateMint
       \/ tx.step = "create_atas_and_mint_to" /\ CreateAtasAndMintTo
       \/ /\ \/ tx.step = "create_job" /\ CreateJob(DemoJob, Payer, tx.argument)
             \/ tx.step = "fund" /\ Fund(DemoJob, Payer)
             \/ tx.step = "submit_evidence" /\ SubmitEvidence(DemoJob, Provider, tx.argument)
             \/ tx.step = "release" /\ Release(DemoJob, EvidenceHash, tx.argument)
          /\ UNCHANGED minted
    /\ UNCHANGED <<skew, spec_deadline, delivered, pc, tx>>

Strangers ==
    /\ \/ Tick
       \/ OpenAndCrank(DemoJob)
       \/ \E p \in Parties : minted /\ OpenWallet(p)
    /\ UNCHANGED demo_vars

DemoNext == Client \/ Land \/ Strangers

DemoSpec == DemoInit /\ [][DemoNext]_all_vars

\* Time passes and somebody cranks.  The process need not take another step, and
\* no transaction is sure to land.
DemoFairSpec ==
    /\ DemoSpec
    /\ WF_all_vars(Tick /\ UNCHANGED demo_vars)
    /\ WF_all_vars(OpenAndCrank(DemoJob) /\ UNCHANGED demo_vars)

-----------------------------------------------------------------------------
(* Properties *)

\* A demo that reaches its end has shown what it claims: the job is settled as
\* the evidence deserves, delivered in time by the client's own clock or not,
\* and the whole price lies with that party, although strangers may have cranked
\* and the two clocks differ.
DoneAsDelivered ==
    pc = "done" =>
        LET in_time == delivered <= spec_deadline
        IN  /\ Exists(DemoJob)
            /\ ToCore(DemoJob).state = IF in_time THEN "Released" ELSE "Refunded"
            /\ Balance(Provider) = IF in_time THEN PRICE ELSE 0
            /\ Balance(Payer) = IF in_time THEN 0 ELSE PRICE
            /\ escrow[DemoJob] = 0


\* A demo that dies strands nothing, at whichever step and with whichever
\* transaction still on its way: what the escrow holds reaches one of the
\* parties without any key the process has taken with it.
NothingIsStranded ==
    escrow[DemoJob] > 0 ~> /\ escrow[DemoJob] = 0
                           /\ Balance(Payer) + Balance(Provider) = PRICE

=============================================================================
