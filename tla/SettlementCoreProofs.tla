------------------------- MODULE SettlementCoreProofs -------------------------
(***************************************************************************)
(* Lemmas about Job::apply, for every width of the clock and every choice  *)
(* of hashes, keys and amounts.  The proofs about the modules that keep    *)
(* jobs cite them instead of expanding the state machine again.            *)
(***************************************************************************)
EXTENDS SettlementCore, TLAPS

\* A saturating sum is a clock value again.
LEMMA SaturatingAddType ==
    ASSUME NEW a \in I64, NEW b \in I64
    PROVE  SaturatingAdd(a, b) \in I64
  BY MaxI64Assumption DEF SaturatingAdd, I64, MinI64

\* Saturation keeps the order of two clock readings.
LEMMA SaturatingAddMonotone ==
    ASSUME NEW a \in I64, NEW b \in I64, NEW c \in I64, a <= b
    PROVE  SaturatingAdd(a, c) <= SaturatingAdd(b, c)
  BY MaxI64Assumption DEF SaturatingAdd, I64, MinI64

\* The events Job::apply accepts, each with the state it is accepted in, the
\* condition on the clock or the evidence, and the job it returns.
LEMMA AcceptedCases ==
    ASSUME NEW job \in Job, NEW event \in Event, NEW now \in I64,
           Accepts(job, event, now)
    PROVE  \/ /\ event.type = "Fund"
              /\ job.state = "Created"
              /\ Applied(job, event, now) = [job EXCEPT !.state = "Funded"]
           \/ /\ event.type = "SubmitEvidence"
              /\ job.state = "Funded"
              /\ now <= job.windows.evidence_deadline
              /\ event.evidence_hash \in EvidenceHashes
              /\ Applied(job, event, now) =
                    [job EXCEPT !.state = "UnderReview",
                                !.evidence_hash = event.evidence_hash,
                                !.review_deadline = SaturatingAdd(now, job.windows.review)]
           \/ /\ event.type = "Dispute"
              /\ job.state = "UnderReview"
              /\ job.review_deadline # None
              /\ now <= job.review_deadline
              /\ Applied(job, event, now) =
                    [job EXCEPT !.state = "Disputed",
                                !.arbitration_deadline =
                                    SaturatingAdd(now, job.windows.arbitration)]
           \/ /\ \/ event.type = "Release" /\ job.state = "UnderReview"
                 \/ event.type = "Resolve" /\ job.state = "Disputed"
              /\ event.verdict \in Verdict
              /\ event.evidence_hash = job.evidence_hash
              /\ Applied(job, event, now) = [job EXCEPT !.state = SettledBy(event.verdict)]
           \/ /\ event.type = "Timeout"
              /\ job.state \in Locked
              /\ Deadline(job) # None
              /\ now > Deadline(job)
              /\ Applied(job, event, now) = [job EXCEPT !.state = LapsesTo(job.state)]
<1>1. /\ <<job.state, event.type>> \in Legal
      /\ event.type \in {"SubmitEvidence", "Dispute"} =>
            Deadline(job) # None /\ now <= Deadline(job)
      /\ event.type = "Timeout" => Deadline(job) # None /\ now > Deadline(job)
      /\ event.type \in {"Release", "Resolve"} => event.evidence_hash = job.evidence_hash
  BY DEF Accepts, InTime, Expired, CheckEvidence
<1>2. CASE job.state = "Created" /\ event.type = "Fund"
  BY <1>2 DEF Applied
<1>3. CASE job.state = "Funded" /\ event.type = "SubmitEvidence"
  <2>1. Deadline(job) = job.windows.evidence_deadline
    BY <1>3 DEF Deadline
  <2>2. job.windows.evidence_deadline \in I64 /\ event.evidence_hash \in EvidenceHashes
    BY <1>3 DEF Job, Windows, Event
  <2>3. now <= job.windows.evidence_deadline
    BY <1>1, <1>3, <2>1
  <2> QED
    BY <1>3, <2>2, <2>3 DEF Applied
<1>4. CASE job.state = "UnderReview" /\ event.type = "Dispute"
  <2>1. Deadline(job) = job.review_deadline
    BY <1>4 DEF Deadline
  <2>2. job.review_deadline # None /\ now <= job.review_deadline
    BY <1>1, <1>4, <2>1
  <2> QED
    BY <1>4, <2>2 DEF Applied
<1>5. CASE event.type \in {"Release", "Resolve"}
  <2>1. event.verdict \in Verdict
    BY <1>5 DEF Event
  <2>2. event.evidence_hash = job.evidence_hash
    BY <1>1, <1>5
  <2>3. \/ event.type = "Release" /\ job.state = "UnderReview"
        \/ event.type = "Resolve" /\ job.state = "Disputed"
    BY <1>1, <1>5 DEF Legal
  <2>4. Applied(job, event, now) = [job EXCEPT !.state = SettledBy(event.verdict)]
    BY <1>5 DEF Applied
  <2> QED
    BY <2>1, <2>2, <2>3, <2>4
<1>6. CASE event.type = "Timeout"
  <2>1. job.state \in Locked
    BY <1>1, <1>6 DEF Legal, Locked
  <2> QED
    BY <1>1, <1>6, <2>1 DEF Applied
<1> QED
  BY <1>1, <1>2, <1>3, <1>4, <1>5, <1>6 DEF Legal

\* Job::apply returns a job.
LEMMA AppliedType ==
    ASSUME NEW job \in Job, NEW event \in Event, NEW now \in I64,
           Accepts(job, event, now)
    PROVE  Applied(job, event, now) \in Job
<1> DEFINE next == Applied(job, event, now)
<1>1. /\ SaturatingAdd(now, job.windows.review) \in I64
      /\ SaturatingAdd(now, job.windows.arbitration) \in I64
  BY SaturatingAddType DEF Job, Windows
<1>2. \A state \in State : [job EXCEPT !.state = state] \in Job
  BY DEF Job
<1>3. /\ \A v \in Verdict : SettledBy(v) \in State
      /\ LapsesTo(job.state) \in State
      /\ "Funded" \in State
  BY DEF SettledBy, LapsesTo, State
<1>4. CASE /\ event.evidence_hash \in EvidenceHashes
           /\ next = [job EXCEPT !.state = "UnderReview",
                                 !.evidence_hash = event.evidence_hash,
                                 !.review_deadline = SaturatingAdd(now, job.windows.review)]
  BY <1>1, <1>4 DEF Job, State
<1>5. CASE next = [job EXCEPT !.state = "Disputed",
                              !.arbitration_deadline =
                                  SaturatingAdd(now, job.windows.arbitration)]
  BY <1>1, <1>5 DEF Job, State
<1>6. CASE \E state \in State : next = [job EXCEPT !.state = state]
  BY <1>2, <1>6
<1> HIDE DEF next
<1> QED
  BY <1>3, <1>4, <1>5, <1>6, AcceptedCases DEF next

\* An accepted event keeps state, evidence and deadlines in agreement.
LEMMA AppliedWellFormed ==
    ASSUME NEW job \in Job, NEW event \in Event, NEW now \in I64,
           Accepts(job, event, now), WellFormedJob(job)
    PROVE  WellFormedJob(Applied(job, event, now))
<1> DEFINE next == Applied(job, event, now)
<1>1. /\ SaturatingAdd(now, job.windows.review) # None
      /\ SaturatingAdd(now, job.windows.arbitration) # None
  BY SaturatingAddType, NoneAssumption DEF Job, Windows
<1>2. CASE /\ job.state = "Created"
           /\ next = [job EXCEPT !.state = "Funded"]
  BY <1>2 DEF WellFormedJob, Job
<1>3. CASE /\ job.state = "Funded"
           /\ event.evidence_hash \in EvidenceHashes
           /\ next = [job EXCEPT !.state = "UnderReview",
                                 !.evidence_hash = event.evidence_hash,
                                 !.review_deadline = SaturatingAdd(now, job.windows.review)]
  BY <1>1, <1>3, NoneAssumption DEF WellFormedJob, Job
<1>4. CASE /\ job.state = "UnderReview"
           /\ next = [job EXCEPT !.state = "Disputed",
                                 !.arbitration_deadline =
                                     SaturatingAdd(now, job.windows.arbitration)]
  BY <1>1, <1>4 DEF WellFormedJob, Job
<1>5. CASE /\ job.state \in {"UnderReview", "Disputed"}
           /\ event.verdict \in Verdict
           /\ next = [job EXCEPT !.state = SettledBy(event.verdict)]
  BY <1>5 DEF WellFormedJob, Job, SettledBy, Verdict
<1>6. CASE /\ job.state \in Locked
           /\ next = [job EXCEPT !.state = LapsesTo(job.state)]
  BY <1>6 DEF WellFormedJob, Job, LapsesTo, Locked
<1> HIDE DEF next
<1> QED
  BY <1>2, <1>3, <1>4, <1>5, <1>6, AcceptedCases DEF next

\* An accepted event starts no clock that runs beyond what the terms allow.
LEMMA AppliedBounded ==
    ASSUME NEW job \in Job, NEW event \in Event, NEW now \in I64,
           Accepts(job, event, now), BoundedJob(job)
    PROVE  BoundedJob(Applied(job, event, now))
<1> DEFINE next == Applied(job, event, now)
<1>1. /\ job.windows.evidence_deadline \in I64
      /\ job.windows.review \in I64
      /\ job.windows.arbitration \in I64
  BY DEF Job, Windows
<1>2. LastReview(job.windows) \in I64
  BY <1>1, SaturatingAddType DEF LastReview
<1>3. CASE /\ now <= job.windows.evidence_deadline
           /\ next = [job EXCEPT !.state = "UnderReview",
                                 !.evidence_hash = event.evidence_hash,
                                 !.review_deadline = SaturatingAdd(now, job.windows.review)]
  <2>1. SaturatingAdd(now, job.windows.review) <= LastReview(job.windows)
    BY <1>1, <1>3, SaturatingAddMonotone DEF LastReview
  <2>2. /\ next.windows = job.windows
        /\ next.review_deadline = SaturatingAdd(now, job.windows.review)
        /\ next.arbitration_deadline = job.arbitration_deadline
    BY <1>3 DEF Job
  <2> QED
    BY <2>1, <2>2 DEF BoundedJob
<1>4. CASE /\ job.review_deadline # None
           /\ now <= job.review_deadline
           /\ next = [job EXCEPT !.state = "Disputed",
                                 !.arbitration_deadline =
                                     SaturatingAdd(now, job.windows.arbitration)]
  <2>1. job.review_deadline \in I64 /\ job.review_deadline <= LastReview(job.windows)
    BY <1>4 DEF Job, BoundedJob
  <2>2. now <= LastReview(job.windows)
    BY <1>2, <1>4, <2>1, MaxI64Assumption DEF I64, MinI64
  <2>3. SaturatingAdd(now, job.windows.arbitration) <= LastRuling(job.windows)
    BY <1>1, <1>2, <2>2, SaturatingAddMonotone DEF LastRuling
  <2>4. /\ next.windows = job.windows
        /\ next.review_deadline = job.review_deadline
        /\ next.arbitration_deadline = SaturatingAdd(now, job.windows.arbitration)
    BY <1>4 DEF Job
  <2> QED
    BY <2>1, <2>3, <2>4 DEF BoundedJob
<1>5. CASE \E state \in State : next = [job EXCEPT !.state = state]
  BY <1>5 DEF BoundedJob, Job
<1>6. /\ \A v \in Verdict : SettledBy(v) \in State
      /\ LapsesTo(job.state) \in State
      /\ "Funded" \in State
  BY DEF SettledBy, LapsesTo, State
<1> HIDE DEF next
<1> QED
  BY <1>3, <1>4, <1>5, <1>6, AcceptedCases DEF next

\* What two versions of a job have in common when one is an update of the other:
\* the agreed terms.
SameTerms(before, after) ==
    /\ after.job_id = before.job_id
    /\ after.spec_hash = before.spec_hash
    /\ after.amount = before.amount
    /\ after.verifier = before.verifier
    /\ after.arbiter = before.arbiter
    /\ after.windows = before.windows

\* An accepted event changes nothing the parties agreed on.
LEMMA AppliedKeepsTerms ==
    ASSUME NEW job \in Job, NEW event \in Event, NEW now \in I64,
           Accepts(job, event, now)
    PROVE  SameTerms(job, Applied(job, event, now))
<1> DEFINE next == Applied(job, event, now)
<1>1. CASE \E state \in State : next = [job EXCEPT !.state = state]
  BY <1>1 DEF SameTerms, Job
<1>2. CASE next = [job EXCEPT !.state = "UnderReview",
                              !.evidence_hash = event.evidence_hash,
                              !.review_deadline = SaturatingAdd(now, job.windows.review)]
  BY <1>2 DEF SameTerms, Job
<1>3. CASE next = [job EXCEPT !.state = "Disputed",
                              !.arbitration_deadline =
                                  SaturatingAdd(now, job.windows.arbitration)]
  BY <1>3 DEF SameTerms, Job
<1>4. /\ \A v \in Verdict : SettledBy(v) \in State
      /\ LapsesTo(job.state) \in State
      /\ "Funded" \in State
  BY DEF SettledBy, LapsesTo, State
<1> HIDE DEF next
<1> QED
  BY <1>1, <1>2, <1>3, <1>4, AcceptedCases DEF next

\* The fields a transition may touch, edge by edge of the state diagram.
LEMMA AcceptedEdges ==
    ASSUME NEW job \in Job, NEW event \in Event, NEW now \in I64,
           Accepts(job, event, now),
           NEW next, next = Applied(job, event, now)
    PROVE  \/ /\ job.state = "Created"
              /\ next.state = "Funded"
              /\ next.evidence_hash = job.evidence_hash
              /\ next.review_deadline = job.review_deadline
              /\ next.arbitration_deadline = job.arbitration_deadline
           \/ /\ job.state = "Funded"
              /\ next.state = "UnderReview"
              /\ next.evidence_hash = event.evidence_hash
              /\ next.review_deadline = SaturatingAdd(now, job.windows.review)
              /\ next.arbitration_deadline = job.arbitration_deadline
           \/ /\ job.state = "UnderReview"
              /\ next.state = "Disputed"
              /\ next.evidence_hash = job.evidence_hash
              /\ next.review_deadline = job.review_deadline
              /\ next.arbitration_deadline = SaturatingAdd(now, job.windows.arbitration)
           \/ /\ job.state \in Locked
              /\ next.state \in Settled
              /\ next.evidence_hash = job.evidence_hash
              /\ next.review_deadline = job.review_deadline
              /\ next.arbitration_deadline = job.arbitration_deadline
<1>1. CASE job.state = "Created" /\ next = [job EXCEPT !.state = "Funded"]
  BY <1>1 DEF Job
<1>2. CASE /\ job.state = "Funded"
           /\ next = [job EXCEPT !.state = "UnderReview",
                                 !.evidence_hash = event.evidence_hash,
                                 !.review_deadline = SaturatingAdd(now, job.windows.review)]
  BY <1>2 DEF Job
<1>3. CASE /\ job.state = "UnderReview"
           /\ next = [job EXCEPT !.state = "Disputed",
                                 !.arbitration_deadline =
                                     SaturatingAdd(now, job.windows.arbitration)]
  BY <1>3 DEF Job
<1>4. CASE /\ job.state \in Locked
           /\ \E state \in Settled : next = [job EXCEPT !.state = state]
  BY <1>4 DEF Job
<1>5. /\ \A v \in Verdict : SettledBy(v) \in Settled
      /\ LapsesTo(job.state) \in Settled
      /\ "UnderReview" \in Locked /\ "Disputed" \in Locked
  BY DEF SettledBy, LapsesTo, Settled, Locked
<1> QED
  BY <1>1, <1>2, <1>3, <1>4, <1>5, AcceptedCases

\* The same, read off the kind of event that was accepted.
LEMMA AcceptedByType ==
    ASSUME NEW job \in Job, NEW event \in Event, NEW now \in I64,
           Accepts(job, event, now),
           NEW next, next = Applied(job, event, now)
    PROVE  /\ event.type = "Fund" => job.state = "Created" /\ next.state = "Funded"
           /\ event.type = "SubmitEvidence" =>
                job.state = "Funded" /\ next.state = "UnderReview"
           /\ event.type = "Dispute" =>
                job.state = "UnderReview" /\ next.state = "Disputed"
           /\ event.type \in {"Release", "Resolve"} =>
                /\ job.state = IF event.type = "Release" THEN "UnderReview" ELSE "Disputed"
                /\ event.evidence_hash = job.evidence_hash
                /\ next.state = SettledBy(event.verdict)
                /\ next.state \in Settled
           /\ event.type = "Timeout" =>
                /\ job.state \in Locked
                /\ Deadline(job) # None
                /\ now > Deadline(job)
                /\ next.state = LapsesTo(job.state)
                /\ next.state \in Settled
<1>1. CASE event.type = "Fund"
  BY <1>1, AcceptedCases DEF Job
<1>2. CASE event.type = "SubmitEvidence"
  BY <1>2, AcceptedCases DEF Job
<1>3. CASE event.type = "Dispute"
  BY <1>3, AcceptedCases DEF Job
<1>4. CASE event.type \in {"Release", "Resolve"}
  <2>1. /\ job.state = IF event.type = "Release" THEN "UnderReview" ELSE "Disputed"
        /\ event.evidence_hash = job.evidence_hash
        /\ event.verdict \in Verdict
        /\ next = [job EXCEPT !.state = SettledBy(event.verdict)]
    BY <1>4, AcceptedCases
  <2>2. next.state = SettledBy(event.verdict)
    BY <2>1 DEF Job
  <2> QED
    BY <1>4, <2>1, <2>2 DEF SettledBy, Settled
<1>5. CASE event.type = "Timeout"
  <2>1. /\ job.state \in Locked
        /\ Deadline(job) # None
        /\ now > Deadline(job)
        /\ next = [job EXCEPT !.state = LapsesTo(job.state)]
    BY <1>5, AcceptedCases
  <2>2. next.state = LapsesTo(job.state)
    BY <2>1 DEF Job
  <2> QED
    BY <1>5, <2>1, <2>2 DEF LapsesTo, Settled
<1> QED
  BY <1>1, <1>2, <1>3, <1>4, <1>5 DEF Event

=============================================================================
