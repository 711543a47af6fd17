-------------------------- MODULE JobLifecycleProofs --------------------------
(***************************************************************************)
(* Theorems about one job under every history of events, clock readings    *)
(* and signatures.  TypeOK, WellFormed and BoundedLockup are each          *)
(* inductive once the job is known to be a job; the rest follows.  Then the*)
(* repository's own Kani harnesses, each for one call of apply.            *)
(***************************************************************************)
EXTENDS JobLifecycle, SettlementCoreProofs

\* A step of the lifecycle is a signature, an accepted event, or a stutter.
LEMMA StepCases ==
    ASSUME TypeOK, [Next]_vars
    PROVE  \/ UNCHANGED <<job, clock>> /\ signed' \subseteq signed \cup Signature
           \/ \E event \in Event, now \in I64 :
                /\ Accepts(job, event, now)
                /\ job' = Applied(job, event, now)
                /\ clock' = now
                /\ UNCHANGED signed
<1> USE DEF Event
<1>1. CASE \E signature \in Signature : Sign(signature)
  BY <1>1 DEF Sign
<1>2. ASSUME NEW now \in I64, Fund(now) \/ Dispute(now) \/ Timeout(now)
      PROVE  \E event \in Event : Apply(event, now)
  BY <1>2 DEF Fund, Dispute, Timeout, FundEvent, DisputeEvent, TimeoutEvent
<1>3. ASSUME NEW now \in I64, NEW h \in EvidenceHashes, SubmitEvidence(h, now)
      PROVE  \E event \in Event : Apply(event, now)
  BY <1>3 DEF SubmitEvidence, SubmitEvent
<1>4. ASSUME NEW now \in I64, NEW h \in EvidenceHashes, NEW v \in Verdict,
             Release(h, v, now) \/ Resolve(h, v, now)
      PROVE  \E event \in Event : Apply(event, now)
  BY <1>4 DEF Release, Resolve, ReleaseEvent, ResolveEvent
<1>5. CASE UNCHANGED vars
  BY <1>5 DEF vars
<1> HIDE DEF Event
<1> QED
  BY <1>1, <1>2, <1>3, <1>4, <1>5 DEF Next, Apply

\* Every value the job and the clock take is of its type.
THEOREM TypeCorrect == Spec => []TypeOK
<1>1. Init => TypeOK
  <2> SUFFICES ASSUME Init PROVE TypeOK
    OBVIOUS
  <2>1. job \in Job
    BY DEF Init, Created, Job, State
  <2>2. 0 \in I64
    BY MaxI64Assumption DEF I64, MinI64
  <2> QED
    BY <2>1, <2>2 DEF Init, TypeOK
<1>2. TypeOK /\ [Next]_vars => TypeOK'
  BY StepCases, AppliedType DEF TypeOK
<1> QED
  BY <1>1, <1>2, PTL DEF Spec

\* State, evidence and deadlines agree in every reachable state.
THEOREM WellFormedAlways == Spec => []WellFormed
<1>1. Init => WellFormed
  BY DEF Init, WellFormed, WellFormedJob, Created
<1>2. TypeOK /\ WellFormed /\ [Next]_vars => WellFormed'
  <2> SUFFICES ASSUME TypeOK, WellFormed, [Next]_vars PROVE WellFormed'
    OBVIOUS
  <2>1. CASE UNCHANGED <<job, clock>>
    BY <2>1 DEF WellFormed
  <2>2. CASE \E event \in Event, now \in I64 :
                Accepts(job, event, now) /\ job' = Applied(job, event, now)
    BY <2>2, AppliedWellFormed DEF TypeOK, WellFormed
  <2> QED
    BY <2>1, <2>2, StepCases
<1> QED
  BY <1>1, <1>2, TypeCorrect, PTL DEF Spec

\* No deadline ever lies beyond the sum of the windows agreed at creation.
THEOREM BoundedLockupAlways == Spec => []BoundedLockup
<1>1. Init => BoundedLockup
  BY DEF Init, BoundedLockup, BoundedJob, Created
<1>2. TypeOK /\ BoundedLockup /\ [Next]_vars => BoundedLockup'
  <2> SUFFICES ASSUME TypeOK, BoundedLockup, [Next]_vars PROVE BoundedLockup'
    OBVIOUS
  <2>1. CASE UNCHANGED <<job, clock>>
    BY <2>1 DEF BoundedLockup
  <2>2. CASE \E event \in Event, now \in I64 :
                Accepts(job, event, now) /\ job' = Applied(job, event, now)
    BY <2>2, AppliedBounded DEF TypeOK, BoundedLockup
  <2> QED
    BY <2>1, <2>2, StepCases
<1> QED
  BY <1>1, <1>2, TypeCorrect, PTL DEF Spec

\* At every clock reading exactly one of "the party acts"  and "the timeout
\* fires" is open, both while the provider and while the buyer may still act.
THEOREM NoLimboAlways == Spec => []NoLimboNoOverlap
<1>1. TypeOK /\ WellFormed => NoLimboNoOverlap
  <2> SUFFICES ASSUME TypeOK, WellFormed, NEW now \in I64
               PROVE  /\ job.state = "Funded" =>
                          \A h \in EvidenceHashes :
                            Accepts(job, SubmitEvent(h), now)
                              <=> ~Accepts(job, TimeoutEvent, now)
                      /\ job.state = "UnderReview" =>
                            (Accepts(job, DisputeEvent, now)
                              <=> ~Accepts(job, TimeoutEvent, now))
    BY DEF NoLimboNoOverlap
  <2>1. ASSUME job.state = "Funded", NEW h \in EvidenceHashes
        PROVE  Accepts(job, SubmitEvent(h), now) <=> ~Accepts(job, TimeoutEvent, now)
    <3>1. Deadline(job) = job.windows.evidence_deadline
      BY <2>1 DEF Deadline
    <3>2. job.windows.evidence_deadline \in I64
      BY DEF TypeOK, Job, Windows
    <3>3. Accepts(job, SubmitEvent(h), now) <=> now <= job.windows.evidence_deadline
      BY <2>1, <3>1, <3>2, NoneAssumption DEF Accepts, InTime, Legal, SubmitEvent
    <3>4. Accepts(job, TimeoutEvent, now) <=> now > job.windows.evidence_deadline
      BY <2>1, <3>1, <3>2, NoneAssumption DEF Accepts, Expired, Legal, TimeoutEvent
    <3> QED
      BY <3>2, <3>3, <3>4, MaxI64Assumption DEF I64, MinI64
  <2>2. ASSUME job.state = "UnderReview"
        PROVE  Accepts(job, DisputeEvent, now) <=> ~Accepts(job, TimeoutEvent, now)
    <3>1. Deadline(job) = job.review_deadline
      BY <2>2 DEF Deadline
    <3>2. job.review_deadline # None /\ job.review_deadline \in I64
      BY <2>2 DEF TypeOK, Job, WellFormed, WellFormedJob
    <3>3. Accepts(job, DisputeEvent, now) <=> now <= job.review_deadline
      BY <2>2, <3>1, <3>2 DEF Accepts, InTime, Legal, DisputeEvent
    <3>4. Accepts(job, TimeoutEvent, now) <=> now > job.review_deadline
      BY <2>2, <3>1, <3>2 DEF Accepts, Expired, Legal, TimeoutEvent
    <3> QED
      BY <3>2, <3>3, <3>4, MaxI64Assumption DEF I64, MinI64
  <2> QED
    BY <2>1, <2>2
<1> QED
  BY <1>1, TypeCorrect, WellFormedAlways, PTL

\* Every accepted event moves the job forward and rewrites nothing.
THEOREM OneWayAlways == Spec => OneWay
<1>1. TypeOK /\ WellFormed /\ [Next]_vars => [MovesForward]_vars
  <2> SUFFICES ASSUME TypeOK, WellFormed, [Next]_vars PROVE MovesForward
    OBVIOUS
  <2> USE DEF TypeOK
  <2>1. CASE UNCHANGED <<job, clock>>
    BY <2>1 DEF MovesForward
  <2>2. ASSUME NEW event \in Event, NEW now \in I64,
               Accepts(job, event, now), job' = Applied(job, event, now)
        PROVE  MovesForward
    <3>1. SameTerms(job, job')
      BY <2>2, AppliedKeepsTerms
    <3>2. CASE job.state = "Created" /\ job'.state = "Funded"
      <4>1. Rank(job'.state) = 1 /\ Rank(job.state) = 0
        BY <3>2 DEF Rank, Settled
      <4>2. /\ job'.evidence_hash = job.evidence_hash
            /\ job'.review_deadline = job.review_deadline
            /\ job'.arbitration_deadline = job.arbitration_deadline
        BY <2>2, <3>2, AcceptedEdges
      <4> QED
        BY <3>1, <4>1, <4>2 DEF MovesForward, SameTerms
    <3>3. CASE job.state = "Funded" /\ job'.state = "UnderReview"
      <4>1. Rank(job'.state) = 2 /\ Rank(job.state) = 1
        BY <3>3 DEF Rank, Settled
      <4>2. /\ job.evidence_hash = None
            /\ job.review_deadline = None
            /\ job'.arbitration_deadline = job.arbitration_deadline
        BY <2>2, <3>3, AcceptedEdges DEF WellFormed, WellFormedJob
      <4> QED
        BY <3>1, <4>1, <4>2 DEF MovesForward, SameTerms
    <3>4. CASE job.state = "UnderReview" /\ job'.state = "Disputed"
      <4>1. Rank(job'.state) = 3 /\ Rank(job.state) = 2
        BY <3>4 DEF Rank, Settled
      <4>2. /\ job'.evidence_hash = job.evidence_hash
            /\ job'.review_deadline = job.review_deadline
            /\ job.arbitration_deadline = None
        BY <2>2, <3>4, AcceptedEdges DEF WellFormed, WellFormedJob
      <4> QED
        BY <3>1, <4>1, <4>2 DEF MovesForward, SameTerms
    <3>5. CASE job.state \in Locked /\ job'.state \in Settled
      <4>1. Rank(job'.state) = 4 /\ Rank(job.state) \in {1, 2, 3}
        BY <3>5 DEF Rank, Settled, Locked
      <4>2. /\ job'.evidence_hash = job.evidence_hash
            /\ job'.review_deadline = job.review_deadline
            /\ job'.arbitration_deadline = job.arbitration_deadline
        BY <2>2, <3>5, AcceptedEdges DEF Settled, Locked
      <4> QED
        BY <3>1, <4>1, <4>2 DEF MovesForward, SameTerms
    <3> QED
      BY <2>2, <3>2, <3>3, <3>4, <3>5, AcceptedEdges
  <2> QED
    BY <2>1, <2>2, StepCases
<1> QED
  BY <1>1, TypeCorrect, WellFormedAlways, PTL DEF Spec, OneWay

\* A job is settled by the judge whose turn it is or by an expired clock.
THEOREM SettlementAlwaysHasCause == Spec => SettledByJudgeOrClock
<1>1. TypeOK /\ WellFormed /\ [Next]_vars => [SettlementHasCause]_vars
  <2> SUFFICES ASSUME TypeOK, WellFormed, [Next]_vars,
                      job.state \in Locked, job'.state \in Settled
               PROVE  SettlementHasCause
    BY DEF SettlementHasCause
  <2> USE DEF TypeOK
  <2>1. CASE UNCHANGED job
    BY <2>1 DEF Locked, Settled
  <2>2. ASSUME NEW now \in I64, Timeout(now)
        PROVE  SettlementHasCause
    <3>1. TimeoutEvent \in Event /\ TimeoutEvent.type = "Timeout"
      BY DEF TimeoutEvent, Event
    <3>2. /\ now > Deadline(job)
          /\ job' = [job EXCEPT !.state = LapsesTo(job.state)]
          /\ clock' = now
      BY <2>2, <3>1, AcceptedCases DEF Timeout, Apply
    <3>3. job'.state = LapsesTo(job.state)
      BY <3>2 DEF Job
    <3> QED
      BY <3>2, <3>3 DEF SettlementHasCause, WellFormed, WellFormedJob, LapsesTo, Locked, Deadline
  <2>3. ASSUME NEW now \in I64, NEW h \in EvidenceHashes, NEW v \in Verdict,
               Release(h, v, now)
        PROVE  SettlementHasCause
    <3>1. /\ ReleaseEvent(h, v) \in Event
          /\ ReleaseEvent(h, v).type = "Release"
          /\ ReleaseEvent(h, v).evidence_hash = h
          /\ ReleaseEvent(h, v).verdict = v
      BY DEF ReleaseEvent, Event
    <3>2. /\ job.state = "UnderReview"
          /\ h = job.evidence_hash
          /\ job' = [job EXCEPT !.state = SettledBy(v)]
      BY <2>3, <3>1, AcceptedCases DEF Release, Apply
    <3>3. job'.state = SettledBy(v)
      BY <3>2 DEF Job
    <3>4. AttestationFor(job, h, v) \in signed
      BY <2>3 DEF Release
    <3>5. AttestationFor(job, h, v) = JudgeSays(v)
      BY <3>2 DEF JudgeSays, AttestationFor, AttestationMessage, SignedVerdictMessage
    <3>6. v = IF job'.state = "Released" THEN "Pass" ELSE "Fail"
      BY <3>3 DEF SettledBy, Verdict
    <3> QED
      BY <3>2, <3>4, <3>5, <3>6 DEF SettlementHasCause
  <2>4. ASSUME NEW now \in I64, NEW h \in EvidenceHashes, NEW v \in Verdict,
               Resolve(h, v, now)
        PROVE  SettlementHasCause
    <3>1. /\ ResolveEvent(h, v) \in Event
          /\ ResolveEvent(h, v).type = "Resolve"
          /\ ResolveEvent(h, v).evidence_hash = h
          /\ ResolveEvent(h, v).verdict = v
      BY DEF ResolveEvent, Event
    <3>2. /\ job.state = "Disputed"
          /\ h = job.evidence_hash
          /\ job' = [job EXCEPT !.state = SettledBy(v)]
      BY <2>4, <3>1, AcceptedCases DEF Resolve, Apply
    <3>3. job'.state = SettledBy(v)
      BY <3>2 DEF Job
    <3>4. RulingFor(job, h, v) \in signed
      BY <2>4 DEF Resolve
    <3>5. RulingFor(job, h, v) = JudgeSays(v)
      BY <3>2 DEF JudgeSays, RulingFor, RulingMessage, SignedVerdictMessage
    <3>6. v = IF job'.state = "Released" THEN "Pass" ELSE "Fail"
      BY <3>3 DEF SettledBy, Verdict
    <3> QED
      BY <3>2, <3>4, <3>5, <3>6 DEF SettlementHasCause
  <2>5. ASSUME NEW event \in Event, NEW now \in I64, Apply(event, now),
               event.type \in {"Fund", "Dispute", "SubmitEvidence"}
        PROVE  FALSE
    BY <2>5, AcceptedCases DEF Apply, Job, Locked, Settled
  <2>6. ASSUME NEW now \in I64, Fund(now) \/ Dispute(now)
        PROVE  FALSE
    <3>1. /\ FundEvent \in Event /\ FundEvent.type = "Fund"
          /\ DisputeEvent \in Event /\ DisputeEvent.type = "Dispute"
      BY DEF FundEvent, DisputeEvent, Event
    <3> QED
      BY <2>5, <2>6, <3>1 DEF Fund, Dispute
  <2>7. ASSUME NEW now \in I64, NEW h \in EvidenceHashes, SubmitEvidence(h, now)
        PROVE  FALSE
    <3>1. SubmitEvent(h) \in Event /\ SubmitEvent(h).type = "SubmitEvidence"
      BY DEF SubmitEvent, Event
    <3> QED
      BY <2>5, <2>7, <3>1 DEF SubmitEvidence
  <2> QED
    BY <2>1, <2>2, <2>3, <2>4, <2>6, <2>7 DEF Next, Sign, vars
<1> QED
  BY <1>1, TypeCorrect, WellFormedAlways, PTL DEF Spec, SettledByJudgeOrClock

-----------------------------------------------------------------------------
(* The Kani harnesses of proofs.rs, for every width of the clock and every set *)
(* of ids, hashes and keys                                                     *)

\* Harness 1: a settled job accepts nothing.
THEOREM AbsorbingTerminalStates ==
    \A before \in AnyJob, event \in AnyEvent, now \in AnyNow :
        AbsorbingTerminalStatesRejectEverything(before, event, now)
<1> SUFFICES ASSUME NEW before \in AnyJob, NEW event \in AnyEvent, NEW now \in AnyNow,
                    before.state \in {"Released", "Refunded"}, Accepts(before, event, now)
             PROVE  FALSE
  BY DEF AbsorbingTerminalStatesRejectEverything
<1> QED
  BY DEF Accepts, Legal

\* What an accepted event leaves in the two fields the harnesses look at.
LEMMA AcceptedResult ==
    ASSUME NEW before \in AnyJob, NEW event \in AnyEvent, NEW now \in AnyNow,
           Accepts(before, event, now),
           NEW next, next = Applied(before, event, now)
    PROVE  \/ /\ before.state = "Created" /\ next.state = "Funded"
              /\ next.evidence_hash = before.evidence_hash
           \/ /\ before.state = "Funded" /\ next.state = "UnderReview"
              /\ next.evidence_hash \in EvidenceHashes
           \/ /\ before.state = "UnderReview" /\ next.state = "Disputed"
              /\ next.evidence_hash = before.evidence_hash
           \/ /\ before.state = "Funded" /\ next.state = "Refunded"
              /\ next.evidence_hash = before.evidence_hash
           \/ /\ before.state \in {"UnderReview", "Disputed"} /\ next.state \in Settled
              /\ next.evidence_hash = before.evidence_hash
<1>1. /\ event.type \in {"Release", "Resolve"} => before.state # "Funded"
      /\ event.type = "Timeout" /\ before.state = "Funded" => next.state = "Refunded"
      /\ event.type \in {"Fund", "SubmitEvidence", "Dispute"} => next.state \notin Settled
  BY AcceptedByType DEF AnyJob, AnyEvent, AnyNow, LapsesTo, Settled
<1>2. event.type \in {"Fund", "SubmitEvidence", "Dispute", "Release", "Resolve", "Timeout"}
  BY DEF AnyEvent, Event
<1>3. CASE /\ before.state \in Locked
           /\ next.state \in Settled
           /\ next.evidence_hash = before.evidence_hash
  BY <1>1, <1>2, <1>3 DEF Locked
<1>4. CASE before.state = "Funded" /\ next.state = "UnderReview"
  <2>1. event.type = "SubmitEvidence"
    BY <1>2, <1>4, AcceptedByType DEF AnyJob, AnyEvent, AnyNow, Settled
  <2>2. next.evidence_hash = event.evidence_hash
    BY <1>4, AcceptedEdges DEF AnyJob, AnyEvent, AnyNow, Settled
  <2> QED
    BY <1>4, <2>1, <2>2 DEF AnyEvent, Event
<1> QED
  BY <1>3, <1>4, AcceptedEdges DEF AnyJob, AnyEvent, AnyNow

\* Harness 2: a job never goes back.
THEOREM RankNeverDecreases ==
    \A before \in AnyJob, event \in AnyEvent, now \in AnyNow :
        RankNeverDecreasesOnSuccess(before, event, now)
  BY AcceptedResult DEF RankNeverDecreasesOnSuccess, Rank, Settled

\* Harness 3: no event changes the terms.
THEOREM TermsAreImmutable ==
    \A before \in AnyJob, event \in AnyEvent, now \in AnyNow :
        TermsAreImmutableOnSuccess(before, event, now)
  BY AppliedKeepsTerms DEF AnyJob, AnyEvent, AnyNow, TermsAreImmutableOnSuccess, SameTerms

\* The two harnesses that justify the one assumption of the file: a new job is
\* well formed, and an accepted event leaves it so.
THEOREM WellFormedByInduction ==
    /\ \A job_id \in JobIds, spec_hash \in SpecHashes, amount \in Amounts,
          verifier, arbiter \in Keys, windows \in Windows :
           WellFormedBaseCase(job_id, spec_hash, amount, verifier, arbiter, windows)
    /\ \A before \in AnyJob, event \in AnyEvent, now \in AnyNow :
           WellFormedIsInductive(before, event, now)
<1>1. \A job_id \in JobIds, spec_hash \in SpecHashes, amount \in Amounts,
         verifier, arbiter \in Keys, windows \in Windows :
          WellFormedBaseCase(job_id, spec_hash, amount, verifier, arbiter, windows)
  BY DEF WellFormedBaseCase, HarnessWellFormed, Created
<1>2. \A before \in AnyJob, event \in AnyEvent, now \in AnyNow :
          WellFormedIsInductive(before, event, now)
  BY AcceptedResult, NoneAssumption DEF WellFormedIsInductive, HarnessWellFormed, Settled
<1> QED
  BY <1>1, <1>2

\* Harnesses 4 and 5: nothing is paid without evidence and a review, and the
\* evidence on record is never replaced, as long as the job was well formed.
THEOREM EvidenceBeforePayment ==
    \A before \in AnyJob, event \in AnyEvent, now \in AnyNow :
        /\ ReleasedRequiresEvidenceAndAReviewPredecessor(before, event, now)
        /\ EvidenceIsWriteOnce(before, event, now)
  BY AcceptedResult, NoneAssumption
  DEF ReleasedRequiresEvidenceAndAReviewPredecessor, EvidenceIsWriteOnce, HarnessWellFormed,
      Settled

\* Harness 6: the two deadlines are the saturated sums.
THEOREM DeadlinesSaturate ==
    \A before \in AnyJob, evidence_hash \in EvidenceHashes, now \in AnyNow :
        /\ ReviewDeadlineMatchesSaturatingSpec(before, evidence_hash, now)
        /\ ArbitrationDeadlineMatchesSaturatingSpec(before, now)
<1> SUFFICES ASSUME NEW before \in AnyJob, NEW evidence_hash \in EvidenceHashes, NEW now \in AnyNow
             PROVE  /\ ReviewDeadlineMatchesSaturatingSpec(before, evidence_hash, now)
                    /\ ArbitrationDeadlineMatchesSaturatingSpec(before, now)
  OBVIOUS
<1>1. \A window \in I64 : SaturatingAdd(now, window) = SaturatingAddOracle(now, window)
  BY MaxI64Assumption DEF AnyNow, SaturatingAdd, SaturatingAddOracle, I64, MinI64
<1>2. before.windows.review \in I64 /\ before.windows.arbitration \in I64
  BY DEF AnyJob, Job, Windows
<1>3. ReviewDeadlineMatchesSaturatingSpec(before, evidence_hash, now)
  BY <1>1, <1>2 DEF ReviewDeadlineMatchesSaturatingSpec, SubmitEvent, Applied, AnyJob, Job
<1>4. ArbitrationDeadlineMatchesSaturatingSpec(before, now)
  BY <1>1, <1>2 DEF ArbitrationDeadlineMatchesSaturatingSpec, DisputeEvent, Applied, AnyJob, Job
<1> QED
  BY <1>3, <1>4

\* The comment on well_formed says it "holds for exactly the jobs reachable from
\* Job::created ..., no more and no less".  It holds for more: a job in dispute
\* whose arbitration clock never started is well formed, and by WellFormedAlways
\* no history reaches it.  The harnesses only need the other half, which
\* HarnessAssumptionHolds says they have.
THEOREM WellFormedAdmitsMore ==
    ASSUME NEW start \in AnyJob, NEW h \in EvidenceHashes
    PROVE  \E before \in AnyJob : HarnessWellFormed(before) /\ ~WellFormedJob(before)
<1> DEFINE stuck == [start EXCEPT !.state = "Disputed", !.evidence_hash = h,
                                  !.arbitration_deadline = None]
<1>1. stuck \in AnyJob
  BY DEF AnyJob, Job, State
<1>2. stuck.state = "Disputed" /\ stuck.evidence_hash = h /\ stuck.arbitration_deadline = None
  BY DEF AnyJob, Job
<1>3. HarnessWellFormed(stuck) /\ ~WellFormedJob(stuck)
  BY <1>2, NoneAssumption DEF HarnessWellFormed, WellFormedJob
<1> QED
  BY <1>1, <1>3

\* Well formed here is well formed in the sense of the harnesses.
LEMMA WellFormedImpliesHarness ==
    \A before \in AnyJob : WellFormedJob(before) => HarnessWellFormed(before)
  BY DEF WellFormedJob, HarnessWellFormed

\* The harnesses assume well_formed of the job they start from; it holds of every
\* job in every history of accepted events, for any host.
THEOREM HarnessAssumptionHolds == Spec => []HarnessWellFormed(job)
<1>1. TypeOK /\ WellFormed => HarnessWellFormed(job)
  BY WellFormedImpliesHarness DEF TypeOK, WellFormed, AnyJob
<1> QED
  BY <1>1, TypeCorrect, WellFormedAlways, PTL
=============================================================================
