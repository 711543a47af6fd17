---------------------------- MODULE JobLifecycle ----------------------------
(***************************************************************************)
(* One settlement_core::Job in the hands of any host: every event in any   *)
(* order, with any clock reading (the host supplies `now`, and the core    *)
(* does not assume that two readings are ordered), and with whatever       *)
(* signatures the two judges have produced by then.  Off-chain hosts go    *)
(* through Job::release and Job::resolve, which verify the signature       *)
(* before the event is applied.                                            *)
(***************************************************************************)
EXTENDS KaniHarnesses, FiniteSets

CONSTANTS MaxSigned   \* bound on the number of signatures ever produced

VARIABLES
    job,     \* the host's copy of the job
    clock,   \* the reading the host gave with the last accepted event
    signed   \* every signature produced so far; it can be replayed for ever

vars == <<job, clock, signed>>

-----------------------------------------------------------------------------

Init ==
    /\ \E id \in JobIds, spec \in SpecHashes, amount \in Amounts,
          verifier, arbiter \in Keys, windows \in Windows :
            job = Created(id, spec, amount, verifier, arbiter, windows)
    /\ clock = 0
    /\ signed = {}

\* The holder of a key signs a verdict about anything it likes.
Sign(signature) ==
    /\ Cardinality(signed) < MaxSigned
    /\ signed' = signed \cup {signature}
    /\ UNCHANGED <<job, clock>>

\* A call of Job::apply; a refused event leaves the host with the job it had.
Apply(event, now) ==
    /\ Accepts(job, event, now)
    /\ job' = Applied(job, event, now)
    /\ clock' = now
    /\ UNCHANGED signed

Fund(now) == Apply(FundEvent, now)

SubmitEvidence(h, now) == Apply(SubmitEvent(h), now)

Dispute(now) == Apply(DisputeEvent, now)

Timeout(now) == Apply(TimeoutEvent, now)

\* Job::release: verify the attestation, then apply it.
Release(h, v, now) ==
    /\ AttestationFor(job, h, v) \in signed
    /\ Apply(ReleaseEvent(h, v), now)

\* Job::resolve: verify the ruling, then apply it.
Resolve(h, v, now) ==
    /\ RulingFor(job, h, v) \in signed
    /\ Apply(ResolveEvent(h, v), now)

Next ==
    \/ \E signature \in Signature : Sign(signature)
    \/ \E now \in I64 :
        \/ Fund(now)
        \/ Dispute(now)
        \/ Timeout(now)
        \/ \E h \in EvidenceHashes :
            \/ SubmitEvidence(h, now)
            \/ \E v \in Verdict : Release(h, v, now) \/ Resolve(h, v, now)

Spec == Init /\ [][Next]_vars

-----------------------------------------------------------------------------
(* Properties *)

\* The job is a well-typed record and only well-formed signatures circulate.
TypeOK ==
    /\ job \in Job
    /\ clock \in I64
    /\ signed \subseteq Signature

\* The state, the evidence and the two deadlines never drift apart, however
\* the host orders its events and whatever its clock says.  (settlement-core's
\* Kani harnesses assume this of every job they start from.)
WellFormed == WellFormedJob(job)

\* The terms alone bound how long the money can be locked: even if the clock
\* goes back between two calls, no deadline lies beyond the sum of the windows
\* agreed at creation, saturation included.
BoundedLockup == BoundedJob(job)

\* There is no instant in which neither the party whose turn it is nor the
\* timeout can act, and none in which both can: at every clock reading exactly
\* one of "submit" and "time out" is open to a funded job, and exactly one of
\* "dispute" and "time out" to a job under review.
NoLimboNoOverlap ==
    \A now \in I64 :
        /\ job.state = "Funded" =>
            \A h \in EvidenceHashes :
                Accepts(job, SubmitEvent(h), now) <=> ~Accepts(job, TimeoutEvent, now)
        /\ job.state = "UnderReview" =>
            (Accepts(job, DisputeEvent, now) <=> ~Accepts(job, TimeoutEvent, now))

\* Rank is that of the Kani harnesses.
MovesForward ==
    /\ Rank(job'.state) > Rank(job.state) \/ job' = job
    /\ \A field \in {"job_id", "spec_hash", "amount", "verifier", "arbiter", "windows"} :
           job'[field] = job[field]
    /\ \A field \in {"evidence_hash", "review_deadline", "arbitration_deadline"} :
           job[field] # None => job'[field] = job[field]

\* Every accepted event moves the job strictly forward, so nothing is applied
\* twice; no event changes what the parties agreed on, and what was once
\* recorded (the evidence, a started clock) is never rewritten.
OneWay == [][MovesForward]_vars

\* The signature of the judge whose turn it is under this verdict.
JudgeSays(v) ==
    LET disputed == job.state = "Disputed"
    IN  [key |-> IF disputed THEN job.arbiter ELSE job.verifier,
         message |-> [domain |-> IF disputed THEN "ruling" ELSE "attestation",
                      job_id |-> job.job_id, spec_hash |-> job.spec_hash,
                      evidence_hash |-> job.evidence_hash, verdict |-> v]]

SettlementHasCause ==
    (job.state \in Locked /\ job'.state \in Settled) =>
        \/ /\ job.state # "Funded"
           /\ JudgeSays(IF job'.state = "Released" THEN "Pass" ELSE "Fail") \in signed
        \/ /\ job'.state = IF job.evidence_hash = None THEN "Refunded" ELSE "Released"
           /\ clock' > CASE job.state = "Funded" -> job.windows.evidence_deadline
                          [] job.state = "UnderReview" -> job.review_deadline
                          [] job.state = "Disputed" -> job.arbitration_deadline

\* Nobody but the judge whose turn it is, or a clock that has run out,
\* settles a job: the verifier of this job over the evidence on record before a
\* dispute, its arbiter after one, and never one's signature as the other's.
SettledByJudgeOrClock == [][SettlementHasCause]_vars

=============================================================================
