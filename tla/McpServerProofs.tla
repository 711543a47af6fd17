---------------------------- MODULE McpServerProofs ----------------------------
(***************************************************************************)
(* Theorems about the tools of the MCP server and about what its client is *)
(* told, for any specifications, bundles, window lengths and sequence of   *)
(* clock readings.                                                         *)
(***************************************************************************)
EXTENDS McpServer, SettlementCoreProofs

-----------------------------------------------------------------------------
(* The inductive invariant of the store *)

\* Every id holds a number that has been given out.
Numbered ==
    \A j \in JobIds : Exists(j) => \E seq \in 1 .. next_seq : j = JobId(records[j].spec, seq)

\* Every signature is the one release would make of the same record again.
SignedAgain ==
    \A s \in signed : \E j \in JobIds :
        Signs(j) /\ s = SignAttestation(records[j].job, VerdictOn(j))

\* What a record says of itself.
Agrees(j, record) ==
    /\ record.job.job_id = j
    /\ record.spec = record.job.spec_hash
    /\ record.evidence = record.job.evidence_hash
    /\ record.evidence # None => /\ EvidenceOf[record.evidence].job_id = j
                                 /\ EvidenceOf[record.evidence].spec_sha256
                                      = record.job.spec_hash
    /\ WellFormedJob(record.job)
    /\ BoundedJob(record.job)

\* RecordsAgree in these terms, before and after a step.
LEMMA AgreesIsRecordsAgree ==
    /\ RecordsAgree <=> \A j \in JobIds : records[j] # None => Agrees(j, records[j])
    /\ RecordsAgree' <=> \A j \in JobIds : records'[j] # None => Agrees(j, records'[j])
  BY DEF RecordsAgree, Agrees, Exists

StoreInv ==
    /\ TypeOK
    /\ RecordsAgree
    /\ Numbered
    /\ SignedAgain
    /\ SettledAsSigned

-----------------------------------------------------------------------------
(* What a call does to the store *)

\* A call that moves job j by one event, and stores the bundle it came with.
Moves(j, event, now) ==
    /\ event \in Event
    /\ now \in I64
    /\ Exists(j)
    /\ Accepts(records[j].job, event, now)
    /\ records' = [records EXCEPT ![j] =
          [job |-> Applied(records[j].job, event, now), spec |-> records[j].spec,
           evidence |-> IF event.type = "SubmitEvidence" THEN event.evidence_hash
                        ELSE records[j].evidence]]
    /\ next_seq' = next_seq

\* Rewriting a field of a record.
LEMMA RecordExcept ==
    ASSUME NEW record \in Record, NEW job, NEW bundle
    PROVE  /\ [record EXCEPT !.job = job]
                = [job |-> job, spec |-> record.spec, evidence |-> record.evidence]
           /\ [[record EXCEPT !.job = job] EXCEPT !.evidence = bundle]
                = [job |-> job, spec |-> record.spec, evidence |-> bundle]
<1>1. PICK moved : moved = [record EXCEPT !.job = job]
  OBVIOUS
<1>2. moved = [job |-> job, spec |-> record.spec, evidence |-> record.evidence]
  BY <1>1 DEF Record
<1>3. [moved EXCEPT !.evidence = bundle]
        = [job |-> job, spec |-> record.spec, evidence |-> bundle]
  BY <1>2
<1> QED
  BY <1>1, <1>2, <1>3, Zenon

\* A call of submit_evidence that succeeds applies one event and keeps the bundle.
LEMMA SubmitMoves ==
    ASSUME TypeOK, NEW j \in JobIds, NEW h \in EvidenceHashes, NEW now \in Readings,
           SubmitEvidence(j, h, now)
    PROVE  /\ Moves(j, SubmitEvent(h), now)
           /\ signed' = signed
<1>1. SubmitEvent(h) \in Event /\ SubmitEvent(h).type = "SubmitEvidence"
      /\ SubmitEvent(h).evidence_hash = h
  BY DEF SubmitEvent, Event
<1>2. records[j] \in Record /\ now \in I64
  BY ServerAssumption DEF SubmitEvidence, TakesEvidence, Exists, TypeOK
<1>3. records' = [records EXCEPT ![j] =
          [job |-> Applied(records[j].job, SubmitEvent(h), now), spec |-> records[j].spec,
           evidence |-> h]]
  <2> DEFINE job == Applied(records[j].job, SubmitEvent(h), now)
  <2>1. records' = [records EXCEPT ![j] = [[records[j] EXCEPT !.job = job] EXCEPT !.evidence = h]]
    BY <1>2 DEF SubmitEvidence, TypeOK
  <2> HIDE DEF job
  <2>2. [[records[j] EXCEPT !.job = job] EXCEPT !.evidence = h]
          = [job |-> job, spec |-> records[j].spec, evidence |-> h]
    BY <1>2, RecordExcept
  <2> QED
    BY <2>1, <2>2 DEF job
<1> QED
  BY <1>1, <1>2, <1>3 DEF Moves, SubmitEvidence, TakesEvidence

\* A call of dispute that succeeds applies one event.
LEMMA DisputeMoves ==
    ASSUME TypeOK, NEW j \in JobIds, NEW now \in Readings, Dispute(j, now)
    PROVE  /\ Moves(j, DisputeEvent, now)
           /\ signed' = signed
<1>1. DisputeEvent \in Event /\ DisputeEvent.type = "Dispute"
  BY DEF DisputeEvent, Event
<1>2. records[j] \in Record /\ now \in I64
  BY ServerAssumption DEF Dispute, TakesDispute, Exists, TypeOK
<1>3. records' = [records EXCEPT ![j] =
          [job |-> Applied(records[j].job, DisputeEvent, now), spec |-> records[j].spec,
           evidence |-> records[j].evidence]]
  <2> DEFINE job == Applied(records[j].job, DisputeEvent, now)
  <2>1. records' = [records EXCEPT ![j] = [records[j] EXCEPT !.job = job]]
    BY <1>2 DEF Dispute, TypeOK
  <2> HIDE DEF job
  <2>2. [records[j] EXCEPT !.job = job]
          = [job |-> job, spec |-> records[j].spec, evidence |-> records[j].evidence]
    BY <1>2, RecordExcept
  <2> QED
    BY <2>1, <2>2 DEF job
<1> QED
  BY <1>1, <1>2, <1>3 DEF Moves, Dispute, TakesDispute

\* Release signs what it concludes, and either settles by it or moves nothing.
LEMMA ReleaseMoves ==
    ASSUME TypeOK, NEW j \in JobIds, NEW now \in Readings, Release(j, now)
    PROVE  /\ Signs(j)
           /\ VerdictOn(j) \in Verdict
           /\ signed' = signed \cup {SignAttestation(records[j].job, VerdictOn(j))}
           /\ \/ UNCHANGED <<records, next_seq>>
              \/ /\ Settles(j, now)
                 /\ Moves(j, ReleaseEvent(records[j].job.evidence_hash, VerdictOn(j)), now)
<1> DEFINE event == ReleaseEvent(records[j].job.evidence_hash, VerdictOn(j))
<1>1. /\ Signs(j)
      /\ signed' = signed \cup {SignAttestation(records[j].job, VerdictOn(j))}
      /\ next_seq' = next_seq
  BY DEF Release
<1>2. VerdictOn(j) \in Verdict
  BY <1>1 DEF Signs, VerdictOn, Assess, Verdict
<1>3. records[j] \in Record /\ now \in I64
  BY <1>1, ServerAssumption DEF Signs, Exists, TypeOK
<1>4. event \in Event /\ event.type = "Release"
  BY <1>1, <1>2, <1>3 DEF Signs, ReleaseEvent, Event, Record, Job
<1>5. CASE ~Settles(j, now)
  BY <1>1, <1>2, <1>5 DEF Release
<1>6. CASE Settles(j, now)
  <2>1. records' = [records EXCEPT ![j].job = Applied(records[j].job, event, now)]
    BY <1>6 DEF Release
  <2>2. Accepts(records[j].job, event, now)
    BY <1>6 DEF Settles
  <2> HIDE DEF event
  <2>3. records' = [records EXCEPT ![j] =
            [job |-> Applied(records[j].job, event, now), spec |-> records[j].spec,
             evidence |-> records[j].evidence]]
    <3> DEFINE job == Applied(records[j].job, event, now)
    <3>1. records' = [records EXCEPT ![j] = [records[j] EXCEPT !.job = job]]
      BY <1>3, <2>1 DEF TypeOK
    <3> HIDE DEF job
    <3>2. [records[j] EXCEPT !.job = job]
            = [job |-> job, spec |-> records[j].spec, evidence |-> records[j].evidence]
      BY <1>3, RecordExcept
    <3> QED
      BY <3>1, <3>2 DEF job
  <2>4. Moves(j, event, now)
    BY <1>1, <1>3, <1>4, <2>2, <2>3 DEF Moves, Signs
  <2> QED
    BY <1>1, <1>2, <1>6, <2>4 DEF event
<1> QED
  BY <1>5, <1>6

\* A call leaves the records alone, creates one, or moves one.
LEMMA StoreSteps ==
    ASSUME TypeOK, [Next]_vars
    PROVE  \/ UNCHANGED <<records, next_seq>>
           \/ \E h \in SpecHashes, review \in ReviewArgs, arbitration \in ArbitrationArgs,
                 now \in Readings : CreateJob(h, review, arbitration, now)
           \/ \E j \in JobIds, event \in Event, now \in I64 : Moves(j, event, now)
  BY SubmitMoves, DisputeMoves, ReleaseMoves DEF Next, Moves, vars

\* What create_job stores: a funded job under a free id.
LEMMA CreateEffect ==
    ASSUME TypeOK, Numbered, NEW h \in SpecHashes, NEW review \in ReviewArgs,
           NEW arbitration \in ArbitrationArgs, NEW now \in Readings,
           CreateJob(h, review, arbitration, now)
    PROVE  \E j \in JobIds, record \in Record :
              /\ j = JobId(h, next_seq + 1)
              /\ ~Exists(j)
              /\ records' = [records EXCEPT ![j] = record]
              /\ Agrees(j, record)
              /\ record.spec = h
              /\ record.evidence = None
              /\ record.job.state = "Funded"
              /\ next_seq' = next_seq + 1
              /\ next_seq' \in 0 .. MaxJobs
              /\ signed' = signed
<1> DEFINE seq == next_seq + 1
           j == JobId(h, seq)
           new == Created(j, h, SpecOf[h].amount, VerifierKey, ArbiterKey,
                          [evidence_deadline |-> SpecOf[h].deadline_unix,
                           review |-> review, arbitration |-> arbitration])
           job == Applied(new, FundEvent, now)
           record == [job |-> job, spec |-> h, evidence |-> None]
<1>1. seq \in 1 .. MaxJobs /\ now \in I64
  BY ServerAssumption DEF CreateJob, TypeOK
<1>2. j \in JobIds
  BY <1>1, IdsAssumption DEF JobId
<1>3. ~Exists(j)
  BY <1>1, <1>2 DEF Numbered, JobId, TypeOK
<1>4. new \in Job /\ new.state = "Created"
  BY <1>2, SpecsAssumption, ServerAssumption DEF Created, Job, State, Windows
<1>5. WellFormedJob(new) /\ BoundedJob(new)
  BY DEF Created, WellFormedJob, BoundedJob
<1>6. /\ new.job_id = j
      /\ new.spec_hash = h
      /\ new.evidence_hash = None
  BY DEF Created
<1>7. FundEvent \in Event /\ FundEvent.type = "Fund"
  BY DEF FundEvent, Event
<1>8. /\ Accepts(new, FundEvent, now)
      /\ next_seq' = seq
      /\ signed' = signed
      /\ records' = [records EXCEPT ![j] = record]
  BY DEF CreateJob
<1> HIDE DEF j, new, seq
<1>9. job \in Job /\ WellFormedJob(job) /\ BoundedJob(job) /\ SameTerms(new, job)
  BY <1>1, <1>4, <1>5, <1>7, <1>8, AppliedType, AppliedWellFormed, AppliedBounded,
     AppliedKeepsTerms
<1>10. job.state = "Funded" /\ job.evidence_hash = None
  BY <1>1, <1>4, <1>6, <1>7, <1>8, AcceptedByType, AcceptedEdges DEF Locked
<1>11. record \in Record
  BY <1>9 DEF Record
<1>12. Agrees(j, record)
  BY <1>6, <1>9, <1>10 DEF Agrees, SameTerms
<1>13. /\ record.spec = h
       /\ record.evidence = None
       /\ record.job.state = "Funded"
       /\ j = JobId(h, next_seq + 1)
       /\ next_seq' = next_seq + 1
       /\ next_seq' \in 0 .. MaxJobs
  BY <1>1, <1>8, <1>10 DEF seq, j
<1> HIDE DEF record
<1> QED
  BY <1>2, <1>3, <1>8, <1>11, <1>12, <1>13

\* What a move does to the one record it touches.
LEMMA MovesEffect ==
    ASSUME TypeOK, NEW j \in JobIds, NEW event, NEW now, Moves(j, event, now)
    PROVE  /\ records[j] \in Record
           /\ records'[j] \in Record
           /\ records' \in [JobIds -> Record \cup {None}]
           /\ records'[j].job = Applied(records[j].job, event, now)
           /\ SameTerms(records[j].job, records'[j].job)
           /\ records'[j].spec = records[j].spec
           /\ records'[j].evidence = IF event.type = "SubmitEvidence" THEN event.evidence_hash
                                     ELSE records[j].evidence
           /\ \A k \in JobIds \ {j} : records'[k] = records[k]
<1> DEFINE record == [job |-> Applied(records[j].job, event, now), spec |-> records[j].spec,
                      evidence |-> IF event.type = "SubmitEvidence" THEN event.evidence_hash
                                   ELSE records[j].evidence]
<1>1. records[j] \in Record /\ records[j].job \in Job
  BY DEF Moves, Exists, TypeOK, Record
<1>2. /\ Applied(records[j].job, event, now) \in Job
      /\ SameTerms(records[j].job, Applied(records[j].job, event, now))
  BY <1>1, AppliedType, AppliedKeepsTerms DEF Moves
<1>3. record.evidence \in EvidenceHashes \cup {None}
  BY <1>1 DEF Moves, Event, Record
<1>4. record \in Record
  BY <1>1, <1>2, <1>3 DEF Record
<1>5. records' = [records EXCEPT ![j] = record]
  BY DEF Moves
<1> QED
  BY <1>1, <1>2, <1>4, <1>5 DEF TypeOK

-----------------------------------------------------------------------------
(* Every call keeps the invariant *)

\* The process starts with an empty store and no signature.
LEMMA InitInvariant == Init => StoreInv
  BY ServerAssumption
     DEF Init, StoreInv, TypeOK, RecordsAgree, Numbered, SignedAgain, SettledAsSigned, Exists

\* Every call keeps the types.
LEMMA NextType ==
    ASSUME TypeOK, RecordsAgree, Numbered, [Next]_vars
    PROVE  TypeOK'
<1>1. records' \in [JobIds -> Record \cup {None}] /\ next_seq' \in 0 .. MaxJobs
  <2>1. CASE UNCHANGED <<records, next_seq>>
    BY <2>1 DEF TypeOK
  <2>2. ASSUME NEW h \in SpecHashes, NEW review \in ReviewArgs,
               NEW arbitration \in ArbitrationArgs, NEW now \in Readings,
               CreateJob(h, review, arbitration, now)
        PROVE  records' \in [JobIds -> Record \cup {None}] /\ next_seq' \in 0 .. MaxJobs
    BY <2>2, CreateEffect DEF TypeOK
  <2>3. ASSUME NEW j \in JobIds, NEW event \in Event, NEW now \in I64, Moves(j, event, now)
        PROVE  records' \in [JobIds -> Record \cup {None}] /\ next_seq' \in 0 .. MaxJobs
    BY <2>3, MovesEffect DEF Moves, TypeOK
  <2> QED
    BY <2>1, <2>2, <2>3, StoreSteps
<1>2. ASSUME NEW j \in JobIds, NEW now \in Readings, Release(j, now)
      PROVE  signed' \subseteq Signature
  <2>1. /\ Signs(j)
        /\ VerdictOn(j) \in Verdict
        /\ signed' = signed \cup {SignAttestation(records[j].job, VerdictOn(j))}
    BY <1>2, ReleaseMoves
  <2>2. records[j].job \in Job /\ records[j].job.evidence_hash \in EvidenceHashes
    BY <2>1 DEF Signs, Exists, TypeOK, Record, Job
  <2>3. SignAttestation(records[j].job, VerdictOn(j)) \in Signature
    BY <2>1, <2>2, ServerAssumption
       DEF SignAttestation, AttestationMessage, SignedVerdictMessage, Signature, Message, Job
  <2> QED
    BY <2>1, <2>3 DEF TypeOK
<1>3. signed' \subseteq Signature
  BY <1>2 DEF Next, CreateJob, SubmitEvidence, Dispute, vars, TypeOK
<1> QED
  BY <1>1, <1>3 DEF TypeOK

\* A move keeps a record in agreement with itself: submit_evidence has checked the
\* bundle it stores, and no other event touches the bundle or its hash.
LEMMA MoveAgrees ==
    ASSUME TypeOK, RecordsAgree, NEW j \in JobIds, NEW event, NEW now, Moves(j, event, now),
           event.type = "SubmitEvidence" =>
              /\ EvidenceOf[event.evidence_hash].job_id = j
              /\ EvidenceOf[event.evidence_hash].spec_sha256 = records[j].job.spec_hash
    PROVE  Agrees(j, records'[j])
<1> DEFINE before == records[j].job
           after == records'[j].job
<1>1. /\ before \in Job
      /\ event \in Event
      /\ now \in I64
      /\ Accepts(before, event, now)
      /\ after = Applied(before, event, now)
      /\ SameTerms(before, after)
      /\ records'[j].spec = records[j].spec
      /\ records'[j].evidence = IF event.type = "SubmitEvidence" THEN event.evidence_hash
                                ELSE records[j].evidence
  BY MovesEffect DEF Moves, Record
<1>2. Agrees(j, records[j])
  BY AgreesIsRecordsAgree DEF Moves, Exists
<1>3. WellFormedJob(after) /\ BoundedJob(after)
  BY <1>1, <1>2, AppliedWellFormed, AppliedBounded DEF Agrees
<1>4. after.evidence_hash = IF event.type = "SubmitEvidence" THEN event.evidence_hash
                            ELSE before.evidence_hash
  <2>1. CASE event.type = "SubmitEvidence"
    BY <1>1, <2>1, AcceptedByType, AcceptedEdges DEF Locked, Settled
  <2>2. CASE event.type # "SubmitEvidence"
    <3>1. after.state # "UnderReview"
      BY <1>1, <2>2, AcceptedByType DEF Event, Settled
    <3> QED
      BY <1>1, <2>2, <3>1, AcceptedEdges
  <2> QED
    BY <2>1, <2>2
<1> HIDE DEF after
<1> QED
  BY <1>1, <1>2, <1>3, <1>4 DEF Agrees, SameTerms, after

\* Every call keeps every record in agreement with itself.
LEMMA NextAgree ==
    ASSUME TypeOK, RecordsAgree, Numbered, [Next]_vars
    PROVE  RecordsAgree'
<1>1. CASE UNCHANGED <<records, next_seq>>
  BY <1>1, AgreesIsRecordsAgree
<1>2. ASSUME NEW h \in SpecHashes, NEW review \in ReviewArgs,
             NEW arbitration \in ArbitrationArgs, NEW now \in Readings,
             CreateJob(h, review, arbitration, now)
      PROVE  RecordsAgree'
  <2>1. PICK j \in JobIds, record \in Record :
           records' = [records EXCEPT ![j] = record] /\ Agrees(j, record)
    BY <1>2, CreateEffect
  <2>2. records'[j] = record /\ \A k \in JobIds \ {j} : records'[k] = records[k]
    BY <2>1 DEF TypeOK
  <2> QED
    BY <2>1, <2>2, AgreesIsRecordsAgree
<1>3. ASSUME NEW j \in JobIds, NEW event, NEW now, Moves(j, event, now),
             event.type = "SubmitEvidence" =>
                /\ EvidenceOf[event.evidence_hash].job_id = j
                /\ EvidenceOf[event.evidence_hash].spec_sha256 = records[j].job.spec_hash
      PROVE  RecordsAgree'
  BY <1>3, MoveAgrees, MovesEffect, AgreesIsRecordsAgree
<1>4. ASSUME NEW j \in JobIds, NEW h \in EvidenceHashes, NEW now \in Readings,
             SubmitEvidence(j, h, now)
      PROVE  RecordsAgree'
  <2>1. SubmitEvent(h).evidence_hash = h
    BY DEF SubmitEvent
  <2>2. /\ EvidenceOf[h].job_id = j
        /\ EvidenceOf[h].spec_sha256 = records[j].job.spec_hash
    BY <1>4 DEF SubmitEvidence, TakesEvidence
  <2> QED
    BY <1>3, <1>4, <2>1, <2>2, SubmitMoves
<1>5. ASSUME NEW j \in JobIds, NEW now \in Readings, Release(j, now) \/ Dispute(j, now)
      PROVE  RecordsAgree'
  <2>1. /\ DisputeEvent.type # "SubmitEvidence"
        /\ \A h, v : ReleaseEvent(h, v).type # "SubmitEvidence"
    BY DEF DisputeEvent, ReleaseEvent
  <2> QED
    BY <1>1, <1>3, <1>5, <2>1, ReleaseMoves, DisputeMoves
<1> QED
  BY <1>1, <1>2, <1>4, <1>5 DEF Next, vars

\* Every call gives each new job a number of its own.
LEMMA NextNumbered ==
    ASSUME TypeOK, Numbered, [Next]_vars
    PROVE  Numbered'
<1>1. CASE UNCHANGED <<records, next_seq>>
  BY <1>1 DEF Numbered, Exists
<1>2. ASSUME NEW h \in SpecHashes, NEW review \in ReviewArgs,
             NEW arbitration \in ArbitrationArgs, NEW now \in Readings,
             CreateJob(h, review, arbitration, now)
      PROVE  Numbered'
  <2>1. PICK j \in JobIds, record \in Record :
           /\ j = JobId(h, next_seq + 1)
           /\ records' = [records EXCEPT ![j] = record]
           /\ record.spec = h
           /\ next_seq' = next_seq + 1
    BY <1>2, CreateEffect
  <2>2. records'[j] = record /\ \A k \in JobIds \ {j} : records'[k] = records[k]
    BY <2>1 DEF TypeOK
  <2>3. next_seq + 1 \in 1 .. next_seq' /\ 1 .. next_seq \subseteq 1 .. next_seq'
    BY <2>1 DEF TypeOK
  <2> QED
    BY <2>1, <2>2, <2>3 DEF Numbered, Exists
<1>3. ASSUME NEW j \in JobIds, NEW event \in Event, NEW now \in I64, Moves(j, event, now)
      PROVE  Numbered'
  <2>1. /\ records'[j].spec = records[j].spec
        /\ \A k \in JobIds \ {j} : records'[k] = records[k]
        /\ next_seq' = next_seq
        /\ Exists(j)
    BY <1>3, MovesEffect DEF Moves
  <2> QED
    BY <2>1 DEF Numbered, Exists
<1> QED
  BY <1>1, <1>2, <1>3, StoreSteps

\* What a call may change of a record that can be signed: neither the documents nor
\* the fields of the job that a signature covers.
LEMMA SignsStays ==
    ASSUME TypeOK, RecordsAgree, Numbered, [Next]_vars, NEW k \in JobIds, Signs(k)
    PROVE  /\ Signs(k)'
           /\ SignAttestation(records'[k].job, VerdictOn(k)')
                = SignAttestation(records[k].job, VerdictOn(k))
           /\ records'[k].job.evidence_hash = records[k].job.evidence_hash
           /\ VerdictOn(k)' = VerdictOn(k)
<1> DEFINE Stays == /\ records'[k] # None
                    /\ records'[k].spec = records[k].spec
                    /\ records'[k].evidence = records[k].evidence
                    /\ records'[k].job.job_id = records[k].job.job_id
                    /\ records'[k].job.spec_hash = records[k].job.spec_hash
                    /\ records'[k].job.evidence_hash = records[k].job.evidence_hash
<1>1. records[k] # None /\ records[k] \in Record
  BY DEF Signs, Exists, TypeOK
<1>2. ASSUME records'[k] = records[k]
      PROVE  Stays
  BY <1>1, <1>2
<1>3. ASSUME NEW h \in SpecHashes, NEW review \in ReviewArgs,
             NEW arbitration \in ArbitrationArgs, NEW now \in Readings,
             CreateJob(h, review, arbitration, now)
      PROVE  Stays
  <2>1. PICK j \in JobIds, record \in Record :
           ~Exists(j) /\ records' = [records EXCEPT ![j] = record]
    BY <1>3, CreateEffect
  <2> QED
    BY <1>1, <1>2, <2>1 DEF Exists, TypeOK
<1>4. ASSUME NEW event \in Event, NEW now \in I64, Moves(k, event, now)
      PROVE  Stays
  <2> DEFINE before == records[k].job
  <2>1. /\ before \in Job
        /\ WellFormedJob(before)
        /\ before.evidence_hash # None
        /\ Accepts(before, event, now)
        /\ records'[k].job = Applied(before, event, now)
        /\ SameTerms(before, records'[k].job)
        /\ records'[k] \in Record
        /\ records'[k].spec = records[k].spec
        /\ records'[k].evidence = IF event.type = "SubmitEvidence" THEN event.evidence_hash
                                  ELSE records[k].evidence
    BY <1>1, <1>4, MovesEffect DEF Moves, Signs, RecordsAgree, Exists, Record
  <2>2. before.state # "Funded" /\ before.state # "Created"
    BY <2>1 DEF WellFormedJob
  <2>3. event.type # "SubmitEvidence"
    BY <2>1, <2>2, AcceptedByType
  <2>4. records'[k].job.evidence_hash = before.evidence_hash
    BY <2>1, <2>2, AcceptedEdges
  <2> QED
    BY <2>1, <2>3, <2>4, NoneIsNoRecord DEF SameTerms
<1>5. Stays
  <2>1. ASSUME NEW j \in JobIds, NEW event \in Event, NEW now \in I64, Moves(j, event, now)
        PROVE  Stays
    BY <1>2, <1>4, <2>1, MovesEffect
  <2> QED
    BY <1>2, <1>3, <2>1, StoreSteps
<1>6. VerdictOn(k)' = VerdictOn(k)
  BY <1>5 DEF VerdictOn
<1> QED
  BY <1>5, <1>6 DEF Signs, Exists, SignAttestation, AttestationMessage, SignedVerdictMessage

\* Every call keeps every signature the one that would be made again.
LEMMA NextSigned ==
    ASSUME TypeOK, RecordsAgree, Numbered, SignedAgain, [Next]_vars
    PROVE  SignedAgain'
<1>1. ASSUME NEW k \in JobIds, Signs(k)
      PROVE  \E j \in JobIds :
                /\ Signs(j)'
                /\ SignAttestation(records[k].job, VerdictOn(k))
                     = SignAttestation(records'[j].job, VerdictOn(j)')
  BY <1>1, SignsStays
<1>2. ASSUME NEW s \in signed'
      PROVE  \E k \in JobIds : Signs(k) /\ s = SignAttestation(records[k].job, VerdictOn(k))
  <2>1. CASE s \in signed
    BY <2>1 DEF SignedAgain
  <2>2. ASSUME NEW j \in JobIds, NEW now \in Readings, Release(j, now)
        PROVE  s \in signed \/ (Signs(j) /\ s = SignAttestation(records[j].job, VerdictOn(j)))
    BY <1>2, <2>2, ReleaseMoves
  <2> QED
    BY <1>2, <2>1, <2>2 DEF Next, CreateJob, SubmitEvidence, Dispute, vars
<1> QED
  BY <1>1, <1>2 DEF SignedAgain

\* What a call may do to the state of a job: it goes forward or stays, and a settled
\* job stays as it was settled.
LEMMA StatesGoForward ==
    ASSUME TypeOK, Numbered, [Next]_vars, NEW k \in JobIds, Exists(k)
    PROVE  /\ Exists(k)'
           /\ records[k].job.state \in State
           /\ records'[k].job.state \in State
           /\ Rank[records[k].job.state] <= Rank[records'[k].job.state]
           /\ records[k].job.state \in Settled => records'[k] = records[k]
<1> DEFINE Forward == /\ records'[k] # None
                      /\ records'[k].job.state \in State
                      /\ Rank[records[k].job.state] <= Rank[records'[k].job.state]
                      /\ records[k].job.state \in Settled => records'[k] = records[k]
<1>1. records[k] # None /\ records[k] \in Record /\ records[k].job.state \in State
  BY DEF Exists, TypeOK, Record, Job
<1>2. ASSUME records'[k] = records[k]
      PROVE  Forward
  BY <1>1, <1>2 DEF Rank, State
<1>3. ASSUME NEW h \in SpecHashes, NEW review \in ReviewArgs,
             NEW arbitration \in ArbitrationArgs, NEW now \in Readings,
             CreateJob(h, review, arbitration, now)
      PROVE  Forward
  <2>1. PICK j \in JobIds, record \in Record :
           ~Exists(j) /\ records' = [records EXCEPT ![j] = record]
    BY <1>3, CreateEffect
  <2> QED
    BY <1>1, <1>2, <2>1 DEF Exists, TypeOK
<1>4. ASSUME NEW event \in Event, NEW now \in I64, Moves(k, event, now)
      PROVE  Forward
  <2>1. /\ records[k].job \in Job
        /\ Accepts(records[k].job, event, now)
        /\ records'[k].job = Applied(records[k].job, event, now)
        /\ records'[k] \in Record
    BY <1>1, <1>4, MovesEffect DEF Moves, Record
  <2>2. \/ records[k].job.state = "Created" /\ records'[k].job.state = "Funded"
        \/ records[k].job.state = "Funded" /\ records'[k].job.state = "UnderReview"
        \/ records[k].job.state = "UnderReview" /\ records'[k].job.state = "Disputed"
        \/ records[k].job.state \in Locked /\ records'[k].job.state \in Settled
    BY <2>1, AcceptedEdges
  <2> QED
    BY <2>1, <2>2, NoneIsNoRecord DEF Rank, Locked, Settled, State
<1>5. ASSUME NEW j \in JobIds, NEW event \in Event, NEW now \in I64, Moves(j, event, now)
      PROVE  Forward
  BY <1>2, <1>4, <1>5, MovesEffect
<1>6. Forward
  BY <1>2, <1>3, <1>5, StoreSteps
<1> QED
  BY <1>1, <1>6 DEF Exists

\* Only release settles a job, by the verdict it has just signed.
LEMMA NextSettled ==
    ASSUME TypeOK, RecordsAgree, Numbered, SettledAsSigned, [Next]_vars
    PROVE  SettledAsSigned'
<1> DEFINE Shown(k, record, signatures) ==
              \E s \in signatures :
                /\ s.key = VerifierKey
                /\ s.message.domain = "attestation"
                /\ s.message.job_id = k
                /\ s.message.evidence_hash = record.job.evidence_hash
                /\ s.message.verdict = IF record.job.state = "Released" THEN "Pass" ELSE "Fail"
<1>1. /\ SettledAsSigned <=> \A k \in JobIds :
            (records[k] # None /\ records[k].job.state \in Settled)
            => Shown(k, records[k], signed)
      /\ SettledAsSigned' <=> \A k \in JobIds :
            (records'[k] # None /\ records'[k].job.state \in Settled)
            => Shown(k, records'[k], signed')
  BY DEF SettledAsSigned, Exists
<1> HIDE DEF Shown
<1>2. ASSUME NEW k \in JobIds, records'[k] = records[k], signed \subseteq signed',
             records'[k] # None, records'[k].job.state \in Settled
      PROVE  Shown(k, records'[k], signed')
  BY <1>1, <1>2 DEF Shown
<1>3. CASE UNCHANGED records /\ signed \subseteq signed'
  BY <1>1, <1>2, <1>3
<1>4. ASSUME NEW j \in JobIds, records'[j] # None => records'[j].job.state \notin Settled,
             \A k \in JobIds \ {j} : records'[k] = records[k], signed' = signed
      PROVE  SettledAsSigned'
  BY <1>1, <1>2, <1>4
<1>5. ASSUME NEW h \in SpecHashes, NEW review \in ReviewArgs,
             NEW arbitration \in ArbitrationArgs, NEW now \in Readings,
             CreateJob(h, review, arbitration, now)
      PROVE  SettledAsSigned'
  <2>1. PICK j \in JobIds, record \in Record :
           /\ records' = [records EXCEPT ![j] = record]
           /\ record.job.state = "Funded"
           /\ signed' = signed
    BY <1>5, CreateEffect
  <2> QED
    BY <1>4, <2>1 DEF TypeOK, Settled
<1>6. ASSUME NEW j \in JobIds, NEW event \in Event, NEW now \in I64, Moves(j, event, now),
             event.type \in {"SubmitEvidence", "Dispute"}, signed' = signed
      PROVE  SettledAsSigned'
  <2>1. /\ records[j].job \in Job
        /\ Accepts(records[j].job, event, now)
        /\ records'[j].job = Applied(records[j].job, event, now)
        /\ \A k \in JobIds \ {j} : records'[k] = records[k]
    BY <1>6, MovesEffect DEF Moves, Record
  <2>2. records'[j].job.state \notin Settled
    BY <1>6, <2>1, AcceptedByType DEF Settled
  <2> QED
    BY <1>4, <1>6, <2>1, <2>2
<1>7. ASSUME NEW j \in JobIds, NEW now \in Readings, Release(j, now)
      PROVE  SettledAsSigned'
  <2> DEFINE before == records[j].job
             event == ReleaseEvent(before.evidence_hash, VerdictOn(j))
             s == SignAttestation(before, VerdictOn(j))
  <2>1. CASE UNCHANGED records
    BY <1>3, <1>7, <2>1, ReleaseMoves
  <2>2. CASE Moves(j, event, now)
    <3>1. /\ before \in Job
          /\ event \in Event
          /\ now \in I64
          /\ Accepts(before, event, now)
          /\ records'[j].job = Applied(before, event, now)
          /\ SameTerms(before, records'[j].job)
          /\ \A k \in JobIds \ {j} : records'[k] = records[k]
          /\ records[j] # None
      BY <2>2, MovesEffect DEF Moves, Record, Exists
    <3>2. /\ event.type = "Release"
          /\ event.evidence_hash = before.evidence_hash
          /\ event.verdict = VerdictOn(j)
      BY DEF ReleaseEvent
    <3>3. /\ signed' = signed \cup {s}
          /\ VerdictOn(j) \in Verdict
      BY <1>7, ReleaseMoves
    <3>4. /\ before.state = "UnderReview"
          /\ records'[j].job.state = SettledBy(VerdictOn(j))
      BY <3>1, <3>2, AcceptedByType
    <3>5. records'[j].job.evidence_hash = before.evidence_hash
      BY <3>1, <3>2, <3>4, AcceptedEdges DEF SettledBy
    <3>6. before.job_id = j
      BY <3>1 DEF RecordsAgree, Exists
    <3>7. Shown(j, records'[j], signed')
      <4>1. /\ s.key = VerifierKey
            /\ s.message.domain = "attestation"
            /\ s.message.job_id = before.job_id
            /\ s.message.evidence_hash = before.evidence_hash
            /\ s.message.verdict = VerdictOn(j)
        BY DEF SignAttestation, AttestationMessage, SignedVerdictMessage
      <4>2. VerdictOn(j) = IF records'[j].job.state = "Released" THEN "Pass" ELSE "Fail"
        BY <3>3, <3>4 DEF SettledBy, Verdict
      <4>3. s \in signed'
        BY <3>3
      <4> HIDE DEF s
      <4> QED
        BY <3>5, <3>6, <4>1, <4>2, <4>3 DEF Shown
    <3>8. \A k \in JobIds \ {j} : records'[k] # None /\ records'[k].job.state \in Settled
                                  => Shown(k, records'[k], signed')
      BY <1>2, <3>1, <3>3
    <3> QED
      BY <1>1, <3>7, <3>8
  <2> QED
    BY <1>7, <2>1, <2>2, ReleaseMoves
<1>8. ASSUME NEW j \in JobIds, NEW h \in EvidenceHashes, NEW now \in Readings,
             SubmitEvidence(j, h, now)
      PROVE  SettledAsSigned'
  <2>1. SubmitEvent(h).type = "SubmitEvidence"
    BY DEF SubmitEvent
  <2> QED
    BY <1>6, <1>8, <2>1, SubmitMoves DEF Moves
<1>9. ASSUME NEW j \in JobIds, NEW now \in Readings, Dispute(j, now)
      PROVE  SettledAsSigned'
  <2>1. DisputeEvent.type = "Dispute"
    BY DEF DisputeEvent
  <2> QED
    BY <1>6, <1>9, <2>1, DisputeMoves DEF Moves
<1> QED
  BY <1>3, <1>5, <1>7, <1>8, <1>9 DEF Next, vars

\* Every call keeps the whole invariant.
LEMMA NextInvariant == StoreInv /\ [Next]_vars => StoreInv'
  BY NextType, NextAgree, NextNumbered, NextSigned, NextSettled DEF StoreInv

-----------------------------------------------------------------------------
(* What the machine may sign *)

\* What a signed verdict says of the two documents it is about.
Says(spec, evidence, verdict) ==
    IF verdict = "Pass" THEN PassIsMeasured(spec, evidence)
    ELSE FailIsMeasured(spec, evidence) \/ LacksMeasurement(spec, evidence)

\* evaluate measures: unsigned_abs and the two comparisons decide an item exactly as
\* the arithmetic of the specification does, at the least integer too; a missing
\* measurement fails the item, and an item that no instrument settles never
\* becomes a verdict.
LEMMA AssessMeasures ==
    ASSUME NEW spec, NEW evidence,
           spec.tolerance_um \in Nat,
           spec.deadline_unix \in I64,
           spec.acceptance \subseteq CheckKind,
           evidence.deviation_um \in I64 \cup {None},
           evidence.delivered_unix \in I64 \cup {None},
           Assess(spec, evidence) # "Inconclusive"
    PROVE  Says(spec, evidence, Assess(spec, evidence))
<1> DEFINE dimensions == "dimensions_within_tolerance"
           delivered == "delivered_before_deadline"
           item(check) == EvaluateItem(spec, evidence, check)
<1>1. DimensionsWithinTolerance(spec, evidence)
        = IF InTolerance(spec, evidence) THEN "Passed" ELSE "Failed"
  <2>1. evidence.deviation_um \in I64 <=> evidence.deviation_um # None
    BY NoneAssumption
  <2>2. CASE evidence.deviation_um \in I64
    BY <2>1, <2>2, MaxI64Assumption
       DEF DimensionsWithinTolerance, InTolerance, UnsignedAbs, I64, MinI64
  <2>3. CASE evidence.deviation_um \notin I64
    BY <2>1, <2>3 DEF DimensionsWithinTolerance, InTolerance
  <2> QED
    BY <2>2, <2>3
<1>2. DeliveredBeforeDeadline(spec, evidence)
        = IF DeliveredInTime(spec, evidence) THEN "Passed" ELSE "Failed"
  BY NoneAssumption DEF DeliveredBeforeDeadline, DeliveredInTime
<1>3. /\ item(dimensions) = DimensionsWithinTolerance(spec, evidence)
      /\ item(delivered) = DeliveredBeforeDeadline(spec, evidence)
      /\ item("material_matches") = "NeedsHumanJudgment"
      /\ item("quantity_matches") = "NeedsHumanJudgment"
  BY DEF EvaluateItem
<1>4. \A check \in spec.acceptance :
         check \in {dimensions, delivered, "material_matches", "quantity_matches"}
  BY DEF CheckKind
<1>5. /\ Assess(spec, evidence) = "Fail" <=> \E check \in spec.acceptance : item(check) = "Failed"
      /\ Assess(spec, evidence) = "Pass" =>
            \A check \in spec.acceptance : item(check) \notin {"Failed", "NeedsHumanJudgment"}
      /\ Assess(spec, evidence) \in {"Pass", "Fail"}
  BY DEF Assess
<1> HIDE DEF item
<1>6. /\ InTolerance(spec, evidence) \/ OutOfTolerance(spec, evidence)
         \/ evidence.deviation_um = None
      /\ DeliveredInTime(spec, evidence) \/ DeliveredLate(spec, evidence)
         \/ evidence.delivered_unix = None
  BY MaxI64Assumption DEF InTolerance, OutOfTolerance, DeliveredInTime, DeliveredLate, I64, MinI64
<1>7. CASE Assess(spec, evidence) = "Pass"
  BY <1>1, <1>2, <1>3, <1>4, <1>5, <1>7 DEF Says, PassIsMeasured
<1>8. CASE Assess(spec, evidence) = "Fail"
  BY <1>1, <1>2, <1>3, <1>4, <1>5, <1>6, <1>8 DEF Says, FailIsMeasured, LacksMeasurement
<1> QED
  BY <1>5, <1>7, <1>8

\* A missing measurement is as conclusive as a missed one, whatever else the bundle
\* holds and whatever a human would have to judge: evaluate says Fail, and release
\* signs it (dimensions_within_tolerance and delivered_before_deadline without a
\* reading).
THEOREM MissingMeasurementFails ==
    ASSUME NEW spec, NEW evidence, LacksMeasurement(spec, evidence)
    PROVE  /\ Assess(spec, evidence) = "Fail"
           /\ ~PassIsMeasured(spec, evidence)
<1> DEFINE dimensions == "dimensions_within_tolerance"
           delivered == "delivered_before_deadline"
<1>1. PICK check \in spec.acceptance :
         \/ check = dimensions /\ evidence.deviation_um = None
         \/ check = delivered /\ evidence.delivered_unix = None
  BY DEF LacksMeasurement
<1>2. EvaluateItem(spec, evidence, check) = "Failed"
  BY <1>1 DEF EvaluateItem, DimensionsWithinTolerance, DeliveredBeforeDeadline
<1>3. Assess(spec, evidence) = "Fail"
  BY <1>1, <1>2 DEF Assess
<1>4. ~PassIsMeasured(spec, evidence)
  BY <1>1, NoneAssumption DEF PassIsMeasured, InTolerance, DeliveredInTime
<1> QED
  BY <1>3, <1>4

-----------------------------------------------------------------------------
(* What the client is told *)

\* A line of input is a call of a tool, or leaves the store alone.
LEMMA LineIsCall == [ServerNext]_server_vars => [Next]_vars
  BY DEF ServerNext, ToolsCall, OtherLine, Eof, CallRefused, CallCreateJob, CallJobStatus,
         CallSubmitEvidence, CallRelease, CallDispute, Next, server_vars, vars

\* An answer about a job tells the state its record is in once the call is over.
LEMMA ToldAfterCall ==
    ASSUME ServerTypeOK, Numbered, [ServerNext]_server_vars
    PROVE  \/ told' = told
           \/ \E j \in JobIds : /\ Exists(j)'
                                /\ told' = [told EXCEPT ![j] = records'[j].job.state]
<1>1. TypeOK /\ [Next]_vars
  BY LineIsCall DEF ServerTypeOK
<1>2. ASSUME NEW j, NEW state, Answer(Tells(j, state))
      PROVE  told' = told \/ told' = [told EXCEPT ![j] = state]
  BY <1>2 DEF Answer, Write, Silent, Tells
<1>3. ASSUME Answer(Result) \/ Answer(ToolError) \/ Answer(RpcError)
      PROVE  told' = told
  BY <1>3 DEF Answer, Write, Silent, Result, ToolError, RpcError
<1>4. ASSUME NEW h \in SpecHashes, NEW review \in ReviewArgs,
             NEW arbitration \in ArbitrationArgs, NEW now \in Readings,
             CallCreateJob(h, review, arbitration, now)
      PROVE  \/ told' = told
             \/ \E j \in JobIds : /\ Exists(j)'
                                  /\ told' = [told EXCEPT ![j] = records'[j].job.state]
  <2> DEFINE id == JobId(h, next_seq')
  <2>1. told' = told \/ told' = [told EXCEPT ![id] = records'[id].job.state]
    BY <1>4 DEF CallCreateJob, Answer, Write, Silent, Tells, StateOf
  <2>2. PICK j \in JobIds, record \in Record :
           /\ j = JobId(h, next_seq + 1)
           /\ records' = [records EXCEPT ![j] = record]
           /\ next_seq' = next_seq + 1
    BY <1>1, <1>4, CreateEffect DEF CallCreateJob
  <2>3. id = j /\ Exists(j)'
    BY <1>1, <2>2, NoneIsNoRecord DEF Exists, TypeOK
  <2> QED
    BY <2>1, <2>2, <2>3
<1>5. ASSUME NEW j \in JobIds,
             Exists(j)',
             told' = told \/ told' = [told EXCEPT ![j] = records'[j].job.state]
      PROVE  \/ told' = told
             \/ \E k \in JobIds : /\ Exists(k)'
                                  /\ told' = [told EXCEPT ![k] = records'[k].job.state]
  BY <1>5
<1>6. ASSUME NEW j \in JobIds, CallJobStatus(j)
      PROVE  /\ Exists(j)'
             /\ told' = told \/ told' = [told EXCEPT ![j] = records'[j].job.state]
  BY <1>6 DEF CallJobStatus, Answer, Write, Silent, Tells, StateOf, Exists, vars
<1>7. ASSUME NEW j \in JobIds, NEW h \in EvidenceHashes, NEW now \in Readings,
             CallSubmitEvidence(j, h, now)
      PROVE  /\ Exists(j)'
             /\ told' = told \/ told' = [told EXCEPT ![j] = records'[j].job.state]
  <2>1. Exists(j)'
    BY <1>1, <1>7, SubmitMoves, StatesGoForward DEF CallSubmitEvidence, Moves
  <2> QED
    BY <1>7, <2>1 DEF CallSubmitEvidence, Answer, Write, Silent, Tells, StateOf
<1>8. ASSUME NEW j \in JobIds, NEW now \in Readings, CallDispute(j, now)
      PROVE  /\ Exists(j)'
             /\ told' = told \/ told' = [told EXCEPT ![j] = records'[j].job.state]
  <2>1. Exists(j)'
    BY <1>1, <1>8, DisputeMoves, StatesGoForward DEF CallDispute, Moves
  <2> QED
    BY <1>8, <2>1 DEF CallDispute, Answer, Write, Silent, Tells, StateOf
<1>9. ASSUME NEW j \in JobIds, NEW now \in Readings, CallRelease(j, now)
      PROVE  /\ Exists(j)'
             /\ told' = told \/ told' = [told EXCEPT ![j] = records'[j].job.state]
  <2>1. Exists(j)'
    BY <1>1, <1>9, StatesGoForward DEF CallRelease, Release, Signs
  <2> QED
    BY <1>9, <2>1 DEF CallRelease, Answer, Write, Silent, Tells, ToolError, StateOf
<1> QED
  BY <1>3, <1>4, <1>5, <1>6, <1>7, <1>8, <1>9
     DEF ServerNext, ToolsCall, OtherLine, Eof, CallRefused, server_vars

\* The server's own variables keep their types: what the client is told of a job is
\* a state.
LEMMA NextServerType ==
    ASSUME ServerTypeOK, StoreInv, [ServerNext]_server_vars
    PROVE  ServerTypeOK'
<1>1. TypeOK' /\ [Next]_vars
  BY LineIsCall, NextType DEF StoreInv
<1>2. told' \in [JobIds -> State \cup {None}]
  <2>1. CASE told' = told
    BY <2>1 DEF ServerTypeOK
  <2>2. ASSUME NEW j \in JobIds, Exists(j)', told' = [told EXCEPT ![j] = records'[j].job.state]
        PROVE  told' \in [JobIds -> State \cup {None}]
    <3>1. records'[j].job.state \in State
      BY <1>1, <2>2 DEF TypeOK, Exists, Record, Job
    <3> QED
      BY <2>2, <3>1 DEF ServerTypeOK
  <2> QED
    BY <2>1, <2>2, ToldAfterCall DEF StoreInv
<1>3. up' \in BOOLEAN
  BY DEF ServerTypeOK, ServerNext, ToolsCall, OtherLine, Eof, CallRefused, CallCreateJob,
         CallJobStatus, CallSubmitEvidence, CallRelease, CallDispute, Answer, Write, Silent,
         server_vars
<1>4. output' \in {"result", "tool_error", "rpc_error", "nothing"}
  <2>1. ASSUME NEW answer, Answer(answer),
               answer.kind \in {"result", "tool_error", "rpc_error"}
        PROVE  output' \in {"result", "tool_error", "rpc_error", "nothing"}
    BY <2>1 DEF Answer, Write, Silent
  <2>2. /\ \A j, state : Tells(j, state).kind = "result"
        /\ Result.kind = "result"
        /\ ToolError.kind = "tool_error"
        /\ RpcError.kind = "rpc_error"
    BY DEF Tells, Result, ToolError, RpcError
  <2> QED
    BY <2>1, <2>2 DEF ServerTypeOK, ServerNext, ToolsCall, OtherLine, Eof, CallRefused,
                      CallCreateJob, CallJobStatus, CallSubmitEvidence, CallRelease,
                      CallDispute, server_vars
<1> QED
  BY <1>1, <1>2, <1>3, <1>4 DEF ServerTypeOK

\* What the client was told stays good through a call, and what it is told by the
\* call is so.
LEMMA NextTold ==
    ASSUME ServerTypeOK, StoreInv, ToldIsTrue, [ServerNext]_server_vars
    PROVE  ToldIsTrue'
<1> DEFINE True(state, record) ==
              /\ record # None
              /\ Rank[state] <= Rank[record.job.state]
              /\ state \in Settled => record.job.state = state
<1>1. /\ ToldIsTrue <=> \A k \in JobIds : told[k] # None => True(told[k], records[k])
      /\ ToldIsTrue' <=> \A k \in JobIds : told'[k] # None => True(told'[k], records'[k])
  BY DEF ToldIsTrue, Exists, StateOf
<1>2. [Next]_vars /\ TypeOK /\ Numbered
  BY LineIsCall DEF StoreInv
<1>3. ASSUME NEW k \in JobIds, told[k] # None
      PROVE  True(told[k], records'[k])
  <2>1. True(told[k], records[k]) /\ told[k] \in State
    BY <1>1, <1>3 DEF ServerTypeOK
  <2>2. /\ records'[k] # None
        /\ records[k].job.state \in State
        /\ records'[k].job.state \in State
        /\ Rank[records[k].job.state] <= Rank[records'[k].job.state]
        /\ records[k].job.state \in Settled => records'[k] = records[k]
    BY <1>2, <2>1, StatesGoForward DEF Exists
  <2>3. \A s \in State : Rank[s] \in Nat
    BY DEF Rank, State
  <2> QED
    BY <2>1, <2>2, <2>3
<1>4. ASSUME NEW k \in JobIds, Exists(k)'
      PROVE  True(records'[k].job.state, records'[k])
  <2>1. records'[k].job.state \in State
    BY <1>2, <1>4, NextType DEF StoreInv, Exists, TypeOK, Record, Job
  <2>2. Rank[records'[k].job.state] \in Nat
    BY <2>1 DEF Rank, State
  <2> QED
    BY <1>4, <2>2 DEF Exists
<1> HIDE DEF True
<1>5. CASE told' = told
  BY <1>1, <1>3, <1>5
<1>6. ASSUME NEW j \in JobIds, Exists(j)', told' = [told EXCEPT ![j] = records'[j].job.state]
      PROVE  ToldIsTrue'
  <2>1. told'[j] = records'[j].job.state /\ \A k \in JobIds \ {j} : told'[k] = told[k]
    BY <1>6 DEF ServerTypeOK
  <2> QED
    BY <1>1, <1>3, <1>4, <1>6, <2>1
<1> QED
  BY <1>2, <1>5, <1>6, ToldAfterCall

-----------------------------------------------------------------------------
(* Theorems *)

\* The invariant of the store and what the client was told hold through any
\* sequence of lines, with any clock readings.
THEOREM InvariantHolds == ServerSpec => [](ServerTypeOK /\ StoreInv /\ ToldIsTrue)
<1>1. ServerInit => ServerTypeOK /\ StoreInv /\ ToldIsTrue
  BY InitInvariant DEF ServerInit, ServerTypeOK, StoreInv, ToldIsTrue
<1>2. ServerTypeOK /\ StoreInv /\ ToldIsTrue /\ [ServerNext]_server_vars
      => (ServerTypeOK /\ StoreInv /\ ToldIsTrue)'
  BY LineIsCall, NextInvariant, NextServerType, NextTold
<1> QED
  BY <1>1, <1>2, PTL DEF ServerSpec

\* Records, signatures and answers are of their types.
THEOREM TypeCorrect == ServerSpec => []ServerTypeOK
  BY InvariantHolds, PTL

\* What release evaluates is the specification and the bundle whose hashes it signs,
\* and the bundle was made for this job.
THEOREM RecordsAlwaysAgree == ServerSpec => []RecordsAgree
<1>1. StoreInv => RecordsAgree
  BY DEF StoreInv
<1> QED
  BY <1>1, InvariantHolds, PTL

\* The process never signs two verdicts about one job: what it evaluates does not
\* change once there is a bundle to evaluate.
THEOREM AlwaysOneVerdict == ServerSpec => []OneVerdictPerJob
<1>1. StoreInv => OneVerdictPerJob
  <2> SUFFICES ASSUME StoreInv, NEW s \in signed, NEW t \in signed,
                      s.message.job_id = t.message.job_id
               PROVE  s = t
    BY DEF OneVerdictPerJob
  <2>1. ASSUME NEW j \in JobIds, Signs(j)
        PROVE  SignAttestation(records[j].job, VerdictOn(j)).message.job_id = j
    BY <2>1 DEF StoreInv, RecordsAgree, Signs, SignAttestation, AttestationMessage,
                SignedVerdictMessage
  <2>2. PICK j \in JobIds : Signs(j) /\ s = SignAttestation(records[j].job, VerdictOn(j))
    BY DEF StoreInv, SignedAgain
  <2>3. PICK k \in JobIds : Signs(k) /\ t = SignAttestation(records[k].job, VerdictOn(k))
    BY DEF StoreInv, SignedAgain
  <2>4. j = k
    BY <2>1, <2>2, <2>3
  <2> QED
    BY <2>2, <2>3, <2>4
<1> QED
  BY <1>1, InvariantHolds, PTL

\* Every signed verdict is what the arithmetic makes of the specification and the
\* bundle the signature names: a pass of measurements alone, a fail of a measurement
\* that missed or of one that the bundle leaves out.
THEOREM AlwaysSignsAsTheBundleSays == ServerSpec => []SignsAsTheBundleSays
<1>1. StoreInv => SignsAsTheBundleSays
  <2>1. ASSUME StoreInv, NEW s \in signed
        PROVE  Says(SpecOf[s.message.spec_hash], EvidenceOf[s.message.evidence_hash],
                    s.message.verdict)
    <3>1. PICK j \in JobIds : Signs(j) /\ s = SignAttestation(records[j].job, VerdictOn(j))
      BY <2>1 DEF StoreInv, SignedAgain
    <3>2. /\ s.message.spec_hash = records[j].job.spec_hash
          /\ s.message.evidence_hash = records[j].job.evidence_hash
          /\ s.message.verdict = VerdictOn(j)
      BY <3>1 DEF SignAttestation, AttestationMessage, SignedVerdictMessage
    <3>3. /\ records[j] \in Record
          /\ records[j].spec = records[j].job.spec_hash
          /\ records[j].evidence = records[j].job.evidence_hash
          /\ records[j].evidence \in EvidenceHashes
      BY <2>1, <3>1 DEF StoreInv, RecordsAgree, TypeOK, Signs, Exists, Record
    <3>4. /\ s.message.spec_hash \in SpecHashes
          /\ s.message.evidence_hash \in EvidenceHashes
          /\ s.message.verdict = Assess(SpecOf[s.message.spec_hash],
                                        EvidenceOf[s.message.evidence_hash])
          /\ s.message.verdict # "Inconclusive"
      BY <3>1, <3>2, <3>3 DEF VerdictOn, Signs, Record
    <3> QED
      BY <3>4, AssessMeasures, SpecsAssumption, EvidenceAssumption
  <2> QED
    BY <2>1 DEF SignsAsTheBundleSays, Says
<1> QED
  BY <1>1, InvariantHolds, PTL

\* A job is settled only by the verdict that was signed about it.
THEOREM AlwaysSettledAsSigned == ServerSpec => []SettledAsSigned
<1>1. StoreInv => SettledAsSigned
  BY DEF StoreInv
<1> QED
  BY <1>1, InvariantHolds, PTL

\* A job the client was told of exists, is no less far than it was told, and settled
\* as it was told.
THEOREM AlwaysToldTrue == ServerSpec => []ToldIsTrue
  BY InvariantHolds, PTL

\* A call that is answered by an error has created no job and moved none.
THEOREM RefusalsNeverLeaveTrace == ServerSpec => RefusalsLeaveNoTrace
<1> DEFINE NoTrace == output' \in {"tool_error", "rpc_error"} => UNCHANGED <<records, next_seq>>
<1>1. ASSUME [ServerNext]_server_vars
      PROVE  [NoTrace]_server_vars
  <2>1. ASSUME NEW j, NEW state, Answer(Tells(j, state))
        PROVE  NoTrace
    BY <2>1 DEF Answer, Write, Silent, Tells
  <2>2. ASSUME NEW j \in JobIds, NEW now \in Readings, CallRelease(j, now)
        PROVE  NoTrace
    <3>1. CASE Settles(j, now)
      BY <2>1, <2>2, <3>1 DEF CallRelease
    <3>2. CASE ~Settles(j, now)
      BY <2>2, <3>2 DEF CallRelease, Release
    <3> QED
      BY <3>1, <3>2
  <2>3. ASSUME UNCHANGED vars
        PROVE  NoTrace
    BY <2>3 DEF vars
  <2> QED
    BY <1>1, <2>1, <2>2, <2>3
       DEF ServerNext, ToolsCall, OtherLine, Eof, CallRefused, CallCreateJob, CallJobStatus,
           CallSubmitEvidence, CallDispute, server_vars
<1> QED
  BY <1>1, PTL DEF ServerSpec, RefusalsLeaveNoTrace

=============================================================================
