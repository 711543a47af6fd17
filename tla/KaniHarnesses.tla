---------------------------- MODULE KaniHarnesses ----------------------------
(***************************************************************************)
(* crates/settlement-core/src/proofs.rs: what the repository's own Kani    *)
(* harnesses claim about Job::apply.  A harness takes an arbitrary job, an *)
(* arbitrary event and an arbitrary clock reading, calls apply, and asserts*)
(* something of the result; here a harness is the assertion, as an operator*)
(* of what it starts from.  Kani decides each for one build of the program,*)
(* 64-bit readings and 32-byte keys; JobLifecycleProofs proves each for    *)
(* every width and every set of keys and hashes.                           *)
(***************************************************************************)
EXTENDS SettlementCore

\* any_job, any_event: every field on its own, whether or not a history of
\* calls could have produced it.
AnyJob == Job
AnyEvent == Event
AnyNow == I64

\* The sum in a wider integer, brought back into the range.
SaturatingAddOracle(a, b) ==
    LET sum == a + b
    IN  CASE sum > MaxI64 -> MaxI64
          [] sum < MinI64 -> MinI64
          [] sum \in I64 -> sum

Rank(state) ==
    CASE state = "Created" -> 0
      [] state = "Funded" -> 1
      [] state = "UnderReview" -> 2
      [] state = "Disputed" -> 3
      [] state \in {"Released", "Refunded"} -> 4

\* well_formed, weaker than WellFormedJob: it does not look at the deadlines.
HarnessWellFormed(job) ==
    /\ job.state \in {"Created", "Funded"} => job.evidence_hash = None
    /\ job.state \in {"UnderReview", "Disputed", "Released"} => job.evidence_hash # None

-----------------------------------------------------------------------------
(* The harnesses, in the order of the file and under their names *)

AbsorbingTerminalStatesRejectEverything(job, event, now) ==
    job.state \in {"Released", "Refunded"} => ~Accepts(job, event, now)

RankNeverDecreasesOnSuccess(job, event, now) ==
    Accepts(job, event, now) => Rank(Applied(job, event, now).state) >= Rank(job.state)

TermsAreImmutableOnSuccess(job, event, now) ==
    Accepts(job, event, now) =>
        \A term \in {"job_id", "spec_hash", "amount", "verifier", "arbiter", "windows"} :
            Applied(job, event, now)[term] = job[term]

WellFormedBaseCase(job_id, spec_hash, amount, verifier, arbiter, windows) ==
    HarnessWellFormed(Created(job_id, spec_hash, amount, verifier, arbiter, windows))

WellFormedIsInductive(job, event, now) ==
    HarnessWellFormed(job) /\ Accepts(job, event, now)
    => HarnessWellFormed(Applied(job, event, now))

ReleasedRequiresEvidenceAndAReviewPredecessor(job, event, now) ==
    LET next == Applied(job, event, now)
    IN  HarnessWellFormed(job) /\ Accepts(job, event, now) /\ next.state = "Released"
        => next.evidence_hash # None /\ job.state \in {"UnderReview", "Disputed"}

EvidenceIsWriteOnce(job, event, now) ==
    HarnessWellFormed(job) /\ job.evidence_hash # None /\ Accepts(job, event, now)
    => Applied(job, event, now).evidence_hash = job.evidence_hash

ReviewDeadlineMatchesSaturatingSpec(job, evidence_hash, now) ==
    LET event == SubmitEvent(evidence_hash)
    IN  Accepts(job, event, now) =>
            Applied(job, event, now).review_deadline
                = SaturatingAddOracle(now, job.windows.review)

ArbitrationDeadlineMatchesSaturatingSpec(job, now) ==
    Accepts(job, DisputeEvent, now) =>
        Applied(job, DisputeEvent, now).arbitration_deadline
            = SaturatingAddOracle(now, job.windows.arbitration)

=============================================================================
