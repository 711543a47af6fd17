---------------------------- MODULE McpSettlement ----------------------------
(***************************************************************************)
(* services/mcp-settlement: five tools over an in-memory store, called one *)
(* at a time from standard input.  The server holds the verifier's key and *)
(* signs what it concludes from an evidence bundle itself; there is no     *)
(* tool for a ruling and none for a timeout.                               *)
(*                                                                         *)
(* The clock of a call is an argument of the call, so it may go back and   *)
(* forth.  A document is named by its canonical hash, and what it says is  *)
(* a function of that name.  A call that answers with an error leaves the  *)
(* store as it was; the one that leaves a trace is `release` on a job that *)
(* is not under review, where the server has already signed.               *)
(***************************************************************************)
EXTENDS SettlementCore

INSTANCE Evaluate

CONSTANTS
    SpecOf,       \* what the job specification with a given hash asks
    EvidenceOf,   \* what the evidence bundle with a given hash claims
    VerifierKey, ArbiterKey,       \* the keys of this process
    Readings,                      \* clock readings callers send
    ReviewArgs, ArbitrationArgs,   \* window lengths callers ask for, or the defaults
    MaxJobs       \* bound on the number of jobs created

ASSUME SpecsAssumption ==
    \A h \in SpecHashes :
        /\ SpecOf[h].amount \in Amounts
        /\ SpecOf[h].deadline_unix \in I64
        /\ SpecOf[h].tolerance_um \in Nat
        /\ SpecOf[h].acceptance \subseteq CheckKind

ASSUME EvidenceAssumption ==
    \A h \in EvidenceHashes :
        /\ EvidenceOf[h].deviation_um \in I64 \cup {None}
        /\ EvidenceOf[h].delivered_unix \in I64 \cup {None}

ASSUME IdsAssumption == SpecHashes \X (1 .. MaxJobs) \subseteq JobIds

ASSUME ServerAssumption ==
    /\ {VerifierKey, ArbiterKey} \subseteq Keys
    /\ Readings \subseteq I64
    /\ ReviewArgs \subseteq I64
    /\ ArbitrationArgs \subseteq I64
    /\ MaxJobs \in Nat

\* What the store keeps of a job: model, specification and bundle.
Record == [job : Job, spec : SpecHashes, evidence : EvidenceHashes \cup {None}]

ASSUME NoneIsNoRecord == None \notin Record

VARIABLES
    records,    \* Store.jobs
    next_seq,   \* Store.next_seq
    signed      \* every attestation this process has signed

vars == <<records, next_seq, signed>>

Init ==
    /\ records = [j \in JobIds |-> None]
    /\ next_seq = 0
    /\ signed = {}

Exists(j) == records[j] # None

\* Mutant: the sequence number is left out.
IdOfSpec(h, seq) == <<h, 1>>

\* Store::next_job_id: the hash of the specification hash and a number.
JobId(h, seq) == <<h, seq>>

\* tools::create_job: created and funded in one call.
CreateJob(h, review, arbitration, now) ==
    /\ next_seq < MaxJobs
    /\ next_seq' = next_seq + 1
    /\ LET id == JobId(h, next_seq')
           job == Created(id, h, SpecOf[h].amount, VerifierKey, ArbiterKey,
                          [evidence_deadline |-> SpecOf[h].deadline_unix,
                           review |-> review, arbitration |-> arbitration])
       IN  /\ Accepts(job, FundEvent, now)
           /\ records' = [records EXCEPT ![id] =
                  [job |-> Applied(job, FundEvent, now), spec |-> h, evidence |-> None]]
    /\ UNCHANGED signed

\* Mutant: evidence for another specification is taken.
TakesForeign(j, h, now) ==
    /\ Exists(j)
    /\ EvidenceOf[h].job_id = j
    /\ Accepts(records[j].job, SubmitEvent(h), now)

\* What submit_evidence checks: the bundle must name the job and its specification.
TakesEvidence(j, h, now) ==
    /\ Exists(j)
    /\ EvidenceOf[h].job_id = j
    /\ EvidenceOf[h].spec_sha256 = records[j].job.spec_hash
    /\ Accepts(records[j].job, SubmitEvent(h), now)

\* tools::submit_evidence.
SubmitEvidence(j, h, now) ==
    /\ TakesEvidence(j, h, now)
    /\ records' = [records EXCEPT ![j].job = Applied(@, SubmitEvent(h), now),
                                  ![j].evidence = h]
    /\ UNCHANGED <<next_seq, signed>>

\* attest::sign_attestation, with the key of this process.
SignAttestation(job, verdict) ==
    [key |-> VerifierKey, message |-> AttestationMessage(job, job.evidence_hash, verdict)]

VerdictOn(j) == Assess(SpecOf[records[j].spec], EvidenceOf[records[j].evidence])

\* release gets as far as signing.
Signs(j) ==
    /\ Exists(j)
    /\ records[j].evidence # None
    /\ records[j].job.evidence_hash # None
    /\ VerdictOn(j) # "Inconclusive"

\* Job::release takes what has been signed.
Settles(j, now) ==
    LET job == records[j].job
    IN  /\ SignAttestation(job, VerdictOn(j)) = AttestationFor(job, job.evidence_hash, VerdictOn(j))
        /\ Accepts(job, ReleaseEvent(job.evidence_hash, VerdictOn(j)), now)

\* Mutant: the record is written before the core has accepted.
ReleaseUnasked(j, now) ==
    /\ Signs(j)
    /\ LET job == records[j].job
       IN  /\ signed' = signed \cup {SignAttestation(job, VerdictOn(j))}
           /\ records' = [records EXCEPT ![j].job =
                  Applied(job, ReleaseEvent(job.evidence_hash, VerdictOn(j)), now)]
    /\ UNCHANGED next_seq

\* tools::release: evaluate the bundle, sign the verdict, and try to settle.
Release(j, now) ==
    /\ Signs(j)
    /\ LET job == records[j].job
       IN  /\ signed' = signed \cup {SignAttestation(job, VerdictOn(j))}
           /\ records' = IF Settles(j, now)
                         THEN [records EXCEPT ![j].job =
                                  Applied(job, ReleaseEvent(job.evidence_hash, VerdictOn(j)), now)]
                         ELSE records
    /\ UNCHANGED next_seq

TakesDispute(j, now) ==
    /\ Exists(j)
    /\ Accepts(records[j].job, DisputeEvent, now)

\* tools::dispute.
Dispute(j, now) ==
    /\ TakesDispute(j, now)
    /\ records' = [records EXCEPT ![j].job = Applied(@, DisputeEvent, now)]
    /\ UNCHANGED <<next_seq, signed>>

Next == \E now \in Readings :
    \/ \E h \in SpecHashes, review \in ReviewArgs, arbitration \in ArbitrationArgs :
          CreateJob(h, review, arbitration, now)
    \/ \E j \in JobIds :
        \/ \E h \in EvidenceHashes : SubmitEvidence(j, h, now)
        \/ Release(j, now)
        \/ Dispute(j, now)

Spec == Init /\ [][Next]_vars

-----------------------------------------------------------------------------
(* Properties *)

TypeOK ==
    /\ records \in [JobIds -> Record \cup {None}]
    /\ next_seq \in 0 .. MaxJobs
    /\ signed \subseteq Signature

\* The three parts of a record are about the same thing: what release evaluates
\* is the very specification and the very bundle whose hashes it signs, the
\* bundle was made for this job, and the job is filed under its own id.
RecordsAgree ==
    \A j \in JobIds : Exists(j) =>
        LET job == records[j].job
            bundle == records[j].evidence
        IN  /\ job.job_id = j
            /\ records[j].spec = job.spec_hash
            /\ bundle = job.evidence_hash
            /\ bundle # None => /\ EvidenceOf[bundle].job_id = j
                                /\ EvidenceOf[bundle].spec_sha256 = job.spec_hash
            /\ WellFormedJob(job)
            /\ BoundedJob(job)

\* The measurements of a bundle, as integers, against what a specification asks:
\* an item is met, is missed, or is not measured at all.
InTolerance(spec, evidence) ==
    /\ evidence.deviation_um \in I64
    /\ -spec.tolerance_um <= evidence.deviation_um
    /\ evidence.deviation_um <= spec.tolerance_um

DeliveredInTime(spec, evidence) ==
    /\ evidence.delivered_unix \in I64
    /\ evidence.delivered_unix <= spec.deadline_unix

OutOfTolerance(spec, evidence) ==
    /\ evidence.deviation_um \in I64
    /\ \/ evidence.deviation_um < -spec.tolerance_um
       \/ evidence.deviation_um > spec.tolerance_um

DeliveredLate(spec, evidence) ==
    /\ evidence.delivered_unix \in I64
    /\ evidence.delivered_unix > spec.deadline_unix

\* Every item is settled by an instrument, measured, and met.
PassIsMeasured(spec, evidence) ==
    LET asks(check) == check \in spec.acceptance
    IN  /\ spec.acceptance \subseteq {"dimensions_within_tolerance", "delivered_before_deadline"}
        /\ asks("dimensions_within_tolerance") => InTolerance(spec, evidence)
        /\ asks("delivered_before_deadline") => DeliveredInTime(spec, evidence)

\* Some item was measured, and missed.
FailIsMeasured(spec, evidence) ==
    LET asks(check) == check \in spec.acceptance
    IN  \/ asks("dimensions_within_tolerance") /\ OutOfTolerance(spec, evidence)
        \/ asks("delivered_before_deadline") /\ DeliveredLate(spec, evidence)

\* The bundle leaves out what some item is to be measured by.
LacksMeasurement(spec, evidence) ==
    LET asks(check) == check \in spec.acceptance
    IN  \/ asks("dimensions_within_tolerance") /\ evidence.deviation_um = None
        \/ asks("delivered_before_deadline") /\ evidence.delivered_unix = None

\* What release signs is what arithmetic makes of the two documents it names.  It
\* signs a pass only when every item was measured and met.  It signs a fail when
\* some item was measured and missed, and also when the bundle leaves a measurement
\* out: that fails closed, and nobody is asked.  What only a human can judge stands
\* in the way of a pass and never brings about a fail.
SignsAsTheBundleSays ==
    \A s \in signed :
        LET spec == SpecOf[s.message.spec_hash]
            evidence == EvidenceOf[s.message.evidence_hash]
        IN  IF s.message.verdict = "Pass"
            THEN PassIsMeasured(spec, evidence)
            ELSE FailIsMeasured(spec, evidence) \/ LacksMeasurement(spec, evidence)

\* The server never says two things about one job: all its signatures over a
\* job are the same one, whenever and however often release is called.
OneVerdictPerJob ==
    \A s, t \in signed : s.message.job_id = t.message.job_id => s = t

\* A job ends only as the server has signed.
SettledAsSigned ==
    \A j \in JobIds :
        (Exists(j) /\ records[j].job.state \in Settled) =>
            \E s \in signed :
                /\ s.key = VerifierKey
                /\ s.message.domain = "attestation"
                /\ s.message.job_id = j
                /\ s.message.evidence_hash = records[j].job.evidence_hash
                /\ s.message.verdict = IF records[j].job.state = "Released" THEN "Pass" ELSE "Fail"

=============================================================================
