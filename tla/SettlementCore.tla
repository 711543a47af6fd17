--------------------------- MODULE SettlementCore ---------------------------
(***************************************************************************)
(* The pure escrow state machine of crates/settlement-core/src/lib.rs: the *)
(* job record, the messages a verifier and an arbiter sign, and the one    *)
(* function every host calls to move a job, Job::apply.                    *)
(*                                                                         *)
(* The module has no variables.  JobLifecycle drives one job with it,      *)
(* EscrowProgram puts it on chain behind accounts and balances, and the    *)
(* two off-chain services call it on records they keep in memory.          *)
(***************************************************************************)
EXTENDS Integers

CONSTANTS
    None,            \* the absent Option
    JobIds,          \* 32-byte job identifiers
    SpecHashes,      \* hashes of canonical job specifications
    EvidenceHashes,  \* hashes of evidence bundles
    Keys,            \* ed25519 public keys of verifiers and arbiters
    Amounts,         \* token amounts a job may lock
    MaxI64           \* the largest clock reading or deadline

\* The clock and every deadline are two's-complement integers of one width.
MinI64 == -MaxI64 - 1
I64 == MinI64 .. MaxI64

ASSUME MaxI64Assumption == MaxI64 \in Nat \ {0}

ASSUME NoneAssumption ==
    /\ None \notin I64
    /\ None \notin EvidenceHashes

ASSUME AmountsAssumption == Amounts \subseteq Nat

-----------------------------------------------------------------------------
(* Data *)

\* Mutants of SaturatingAdd: an unbounded sum, and a sum that wraps around.
PlainAdd(a, b) == a + b
WrappingAdd(a, b) == ((a + b - MinI64) % (2 * MaxI64 + 2)) + MinI64

\* i64::saturating_add: a sum outside the range sticks to the nearer end.
SaturatingAdd(a, b) ==
    IF a + b > MaxI64 THEN MaxI64
    ELSE IF a + b < MinI64 THEN MinI64
    ELSE a + b

State == {"Created", "Funded", "UnderReview", "Released", "Refunded", "Disputed"}

Settled == {"Released", "Refunded"}

\* The states in which the escrow owes the amount to one of the parties.
Locked == {"Funded", "UnderReview", "Disputed"}

Verdict == {"Pass", "Fail"}

Windows == [evidence_deadline: I64, review: I64, arbitration: I64]

Job == [job_id: JobIds,
        state: State,
        spec_hash: SpecHashes,
        amount: Amounts,
        verifier: Keys,
        arbiter: Keys,
        evidence_hash: EvidenceHashes \cup {None},
        windows: Windows,
        review_deadline: I64 \cup {None},
        arbitration_deadline: I64 \cup {None}]

\* Job::created.
Created(job_id, spec_hash, amount, verifier, arbiter, windows) ==
    [job_id |-> job_id, state |-> "Created", spec_hash |-> spec_hash,
     amount |-> amount, verifier |-> verifier, arbiter |-> arbiter,
     evidence_hash |-> None, windows |-> windows,
     review_deadline |-> None, arbitration_deadline |-> None]

-----------------------------------------------------------------------------
(* Signed verdicts.  The bytes that are signed are fixed-width fields laid  *)
(* end to end, so a message is the record of its fields.  A signature is    *)
(* the pair of the key that made it and the message it covers.              *)

Message == [domain: {"attestation", "ruling"}, job_id: JobIds,
            spec_hash: SpecHashes, evidence_hash: EvidenceHashes, verdict: Verdict]

Signature == [key: Keys, message: Message]

\* Mutant: one signing domain for both judges.
OneDomain(domain, job, evidence_hash, verdict) ==
    [domain |-> "attestation", job_id |-> job.job_id, spec_hash |-> job.spec_hash,
     evidence_hash |-> evidence_hash, verdict |-> verdict]

SignedVerdictMessage(domain, job, evidence_hash, verdict) ==
    [domain |-> domain, job_id |-> job.job_id, spec_hash |-> job.spec_hash,
     evidence_hash |-> evidence_hash, verdict |-> verdict]

AttestationMessage(job, evidence_hash, verdict) ==
    SignedVerdictMessage("attestation", job, evidence_hash, verdict)

RulingMessage(job, evidence_hash, verdict) ==
    SignedVerdictMessage("ruling", job, evidence_hash, verdict)

\* Attestation::verify_for and Ruling::verify_for: the one signature that
\* makes this verdict count for this job, whoever presents it.
AttestationFor(job, evidence_hash, verdict) ==
    [key |-> job.verifier, message |-> AttestationMessage(job, evidence_hash, verdict)]

RulingFor(job, evidence_hash, verdict) ==
    [key |-> job.arbiter, message |-> RulingMessage(job, evidence_hash, verdict)]

-----------------------------------------------------------------------------
(* Events *)

FundEvent == [type |-> "Fund"]
SubmitEvent(h) == [type |-> "SubmitEvidence", evidence_hash |-> h]
ReleaseEvent(h, v) == [type |-> "Release", evidence_hash |-> h, verdict |-> v]
DisputeEvent == [type |-> "Dispute"]
ResolveEvent(h, v) == [type |-> "Resolve", evidence_hash |-> h, verdict |-> v]
TimeoutEvent == [type |-> "Timeout"]

Event == [type : {"Fund", "Dispute", "Timeout"}]
         \cup [type : {"SubmitEvidence"}, evidence_hash : EvidenceHashes]
         \cup [type : {"Release", "Resolve"}, evidence_hash : EvidenceHashes,
               verdict : Verdict]

-----------------------------------------------------------------------------
(* Job::apply *)

\* Mutants of Legal: each has an arm too many or too few.
LegalWith(extra) ==
    {<<"Created", "Fund">>,
     <<"Funded", "SubmitEvidence">>, <<"Funded", "Timeout">>,
     <<"UnderReview", "Release">>, <<"UnderReview", "Dispute">>, <<"UnderReview", "Timeout">>,
     <<"Disputed", "Resolve">>, <<"Disputed", "Timeout">>} \cup {extra}
FundTwice == LegalWith(<<"Funded", "Fund">>)
SubmitTwice == LegalWith(<<"UnderReview", "SubmitEvidence">>)
SubmitDisputed == LegalWith(<<"Disputed", "SubmitEvidence">>)
NoArbitrationLapse == LegalWith(<<"Created", "Fund">>) \ {<<"Disputed", "Timeout">>}

\* The arms of the match: every other pair is an illegal transition.
Legal == {<<"Created", "Fund">>,
          <<"Funded", "SubmitEvidence">>, <<"Funded", "Timeout">>,
          <<"UnderReview", "Release">>, <<"UnderReview", "Dispute">>,
          <<"UnderReview", "Timeout">>,
          <<"Disputed", "Resolve">>, <<"Disputed", "Timeout">>}

\* The clock that is running while the job is in its present state.
Deadline(job) ==
    CASE job.state = "Funded" -> job.windows.evidence_deadline
      [] job.state = "UnderReview" -> job.review_deadline
      [] job.state = "Disputed" -> job.arbitration_deadline
      [] OTHER -> None

\* Mutants: no deadline for a party, and a timeout that fires one reading early.
AlwaysInTime(job, now) == Deadline(job) # None
ExpiredAtDeadline(job, now) ==
    /\ Deadline(job) # None
    /\ now >= Deadline(job)

\* A party may act up to and including the deadline.
InTime(job, now) ==
    /\ Deadline(job) # None
    /\ now <= Deadline(job)

\* A timeout may act only after it.
Expired(job, now) ==
    /\ Deadline(job) # None
    /\ now > Deadline(job)

\* check_evidence: the verdict is about the evidence on record.
CheckEvidence(job, evidence_hash) == job.evidence_hash = evidence_hash

\* Job::apply answers Ok.  Which error it returns otherwise is not modelled:
\* every host gives up the call and keeps the job it had.
Accepts(job, event, now) ==
    /\ <<job.state, event.type>> \in Legal
    /\ event.type \in {"SubmitEvidence", "Dispute"} => InTime(job, now)
    /\ event.type = "Timeout" => Expired(job, now)
    /\ event.type \in {"Release", "Resolve"} => CheckEvidence(job, event.evidence_hash)

\* Mutants: the verdicts swapped, and timeouts that always pay one side.
SwappedVerdicts(verdict) == IF verdict = "Pass" THEN "Refunded" ELSE "Released"
AlwaysRefunds(state) == "Refunded"
AlwaysReleases(state) == "Released"

SettledBy(verdict) == IF verdict = "Pass" THEN "Released" ELSE "Refunded"

\* Nothing delivered: the buyer is refunded.  Delivered and nobody answered:
\* the provider is paid.
LapsesTo(state) == IF state = "Funded" THEN "Refunded" ELSE "Released"

\* The job Job::apply returns when it accepts the event.
Applied(job, event, now) ==
    CASE event.type = "Fund" -> [job EXCEPT !.state = "Funded"]
      [] event.type = "SubmitEvidence" ->
            [job EXCEPT !.state = "UnderReview",
                        !.evidence_hash = event.evidence_hash,
                        !.review_deadline = SaturatingAdd(now, job.windows.review)]
      [] event.type = "Dispute" ->
            [job EXCEPT !.state = "Disputed",
                        !.arbitration_deadline = SaturatingAdd(now, job.windows.arbitration)]
      [] event.type \in {"Release", "Resolve"} ->
            [job EXCEPT !.state = SettledBy(event.verdict)]
      [] event.type = "Timeout" -> [job EXCEPT !.state = LapsesTo(job.state)]

-----------------------------------------------------------------------------
(* Facts about one job, which the modules built on this one state as          *)
(* invariants of theirs.                                                      *)

\* The state agrees with what is on record: evidence and the review clock
\* arrive together, the arbitration clock comes only with a dispute, and a job
\* that was never submitted can only end as a refund.
WellFormedJob(job) ==
    /\ job.state \in {"Created", "Funded"} => job.evidence_hash = None
    /\ job.state \in {"UnderReview", "Disputed", "Released"} => job.evidence_hash # None
    /\ job.evidence_hash = None <=> job.review_deadline = None
    /\ job.evidence_hash = None => job.arbitration_deadline = None
    /\ job.state = "Disputed" => job.arbitration_deadline # None
    /\ job.state = "UnderReview" => job.arbitration_deadline = None

\* The latest review and arbitration deadlines the terms allow.
LastReview(windows) == SaturatingAdd(windows.evidence_deadline, windows.review)
LastRuling(windows) == SaturatingAdd(LastReview(windows), windows.arbitration)

\* No clock that starts during the job runs beyond what the terms allow.
BoundedJob(job) ==
    /\ job.review_deadline # None => job.review_deadline <= LastReview(job.windows)
    /\ job.arbitration_deadline # None => job.arbitration_deadline <= LastRuling(job.windows)

=============================================================================
