--------------------------- MODULE X402GatewayProofs ---------------------------
(***************************************************************************)
(* Theorems about POST /jobs, for any number of concurrent requests, any   *)
(* specifications and transactions, any number of restarts, and every      *)
(* behaviour of the chain that X402Gateway allows.                         *)
(***************************************************************************)
EXTENDS X402Gateway, SettlementCoreProofs, FiniteSetTheorems

-----------------------------------------------------------------------------
(* The inductive invariant *)

Busy == {r \in Requests : step[r] # "idle"}

Creating == {r \in Requests : step[r] = "creating"}

\* The verifier of this boot has taken the proof for the specification.
Admits(h, proof) == IF verifier = "solana" THEN SolanaAdmits(h, proof) ELSE StubAdmits(h, proof)

Confirmed(proof) == verifier = "solana" => status[proof.tx] = "confirmed"

\* A job to come still has a number.
RoomForJobs == next_seq + Cardinality(Busy) <= MaxJobs

\* A request in flight carries a proof its verifier took, confirmed once it has
\* passed that step; without a chain there is only one step.
OrdersAdmitted ==
    \A r \in Requests : step[r] # "idle" =>
        /\ Admits(order[r].spec, order[r].proof)
        /\ verifier = "stub" => step[r] = "creating"
        /\ step[r] # "confirming" => Confirmed(order[r].proof)

\* A stored job is the one its proof was taken for, funded, under an id whose
\* number has been given out.
JobsAsOrdered ==
    \A j \in Stored :
        LET core == jobs[j].core
        IN  /\ \E seq \in 1 .. next_seq : j = JobId(core.spec_hash, seq)
            /\ core.job_id = j
            /\ core.state = "Funded"
            /\ core.amount = SpecOf[core.spec_hash].amount
            /\ Admits(core.spec_hash, jobs[j].paid_by)
            /\ Confirmed(jobs[j].paid_by)

\* The used signatures are those of the stored jobs and of the requests that are
\* about to store one, each signature for one of them.
UsedAsSpent ==
    /\ verifier = "stub" => used_signatures = {}
    /\ verifier = "solana" =>
          /\ \A j \in Stored : jobs[j].paid_by.tx \in used_signatures
          /\ \A r \in Creating : order[r].proof.tx \in used_signatures
          /\ \A t \in used_signatures :
                \/ \E j \in Stored : jobs[j].paid_by.tx = t
                \/ \E r \in Creating : order[r].proof.tx = t
          /\ \A i, j \in Stored : jobs[i].paid_by.tx = jobs[j].paid_by.tx => i = j
          /\ \A q, r \in Creating : order[q].proof.tx = order[r].proof.tx => q = r
          /\ \A r \in Creating, j \in Stored : jobs[j].paid_by.tx # order[r].proof.tx

IInv ==
    /\ TypeOK
    /\ RoomForJobs
    /\ OrdersAdmitted
    /\ JobsAsOrdered
    /\ UsedAsSpent

-----------------------------------------------------------------------------
(* Facts about the handler *)

\* The job of an order is a job, and funding it is accepted whatever the clock.
LEMMA NewJobFunded ==
    ASSUME NEW h \in SpecHashes, NEW seq \in 1 .. MaxJobs, boot \in 0 .. MaxRestarts
    PROVE  /\ JobId(h, seq) \in JobIds
           /\ NewJob(h, seq) \in Job
           /\ FundEvent \in Event
           /\ Accepts(NewJob(h, seq), FundEvent, 0)
           /\ Applied(NewJob(h, seq), FundEvent, 0) \in Job
           /\ Applied(NewJob(h, seq), FundEvent, 0)
                = [NewJob(h, seq) EXCEPT !.state = "Funded"]
<1>1. JobId(h, seq) \in JobIds
  BY IdsAssumption DEF JobId
<1>2. NewJob(h, seq) \in Job /\ NewJob(h, seq).state = "Created"
  BY <1>1, SpecsAssumption, KeysAssumption DEF NewJob, Created, Job, State, Windows
<1>3. FundEvent \in Event /\ FundEvent.type = "Fund"
  BY DEF FundEvent, Event
<1>4. Accepts(NewJob(h, seq), FundEvent, 0)
  BY <1>2, <1>3 DEF Accepts, Legal
<1>5. Applied(NewJob(h, seq), FundEvent, 0) = [NewJob(h, seq) EXCEPT !.state = "Funded"]
  BY <1>3 DEF Applied
<1>6. [NewJob(h, seq) EXCEPT !.state = "Funded"] \in Job
  BY <1>2 DEF Job, State
<1> QED
  BY <1>1, <1>2, <1>3, <1>4, <1>5, <1>6

\* Behind a request in flight at a chain's verifier stands a transaction.
LEMMA OrderHasTransaction ==
    ASSUME TypeOK, OrdersAdmitted, NEW r \in Requests, step[r] # "idle", verifier = "solana"
    PROVE  order[r].proof.tx \in Transactions
  BY ProofsAssumption DEF TypeOK, OrdersAdmitted, Admits, SolanaAdmits

\* The requests in flight are finitely many.
LEMMA BusyFinite == IsFiniteSet(Busy) /\ Cardinality(Busy) \in Nat
  BY BoundsAssumption, FS_Subset, FS_CardinalityType DEF Busy

\* A request in flight leaves room for its job.
LEMMA RoomForOne ==
    ASSUME TypeOK, RoomForJobs, NEW r \in Requests, step[r] # "idle"
    PROVE  next_seq + 1 \in 1 .. MaxJobs
<1>1. Busy # {} /\ Cardinality(Busy) \in Nat
  BY BusyFinite DEF Busy
<1>2. Cardinality(Busy) # 0
  BY <1>1, BusyFinite, FS_EmptySet
<1> QED
  BY <1>1, <1>2, BoundsAssumption DEF TypeOK, RoomForJobs

\* A payment that is admitted has a specification and a proof.
LEMMA AdmissibleOrder ==
    ASSUME NEW h \in SpecHashes \cup {None}, NEW payment \in Payments \cup {None},
           Admissible(h, payment)
    PROVE  /\ h \in SpecHashes
           /\ payment.proof \in Proofs
           /\ Admits(h, payment.proof)
  BY DEF Admissible, Proofs, Admits

-----------------------------------------------------------------------------
(* Types, and room for the jobs of the requests in flight *)

\* A process that has just started, with nothing on the chain.
LEMMA InitInvariant == Init => IInv
<1> SUFFICES ASSUME Init PROVE IInv
  OBVIOUS
<1>1. TypeOK
  BY BoundsAssumption DEF Init, TypeOK, Verifiers
<1>2. RoomForJobs
  <2>1. Busy = {}
    BY DEF Init, Busy
  <2> QED
    BY <2>1, FS_EmptySet, BoundsAssumption DEF Init, RoomForJobs
<1>3. OrdersAdmitted /\ JobsAsOrdered /\ UsedAsSpent
  BY DEF Init, OrdersAdmitted, JobsAsOrdered, UsedAsSpent, Stored, Creating
<1> QED
  BY <1>1, <1>2, <1>3 DEF IInv

\* Every step of a request, of the chain and of the process keeps the types.
LEMMA NextType ==
    ASSUME TypeOK, RoomForJobs, OrdersAdmitted, [Next]_vars
    PROVE  TypeOK'
<1>1. ASSUME NEW r \in Requests, NEW h \in SpecHashes \cup {None},
             NEW payment \in Payments \cup {None}, Post(r, h, payment)
      PROVE  TypeOK'
  <2>1. h \in SpecHashes /\ payment.proof \in Proofs
    BY <1>1, AdmissibleOrder DEF Post
  <2> QED
    BY <1>1, <2>1 DEF Post, TypeOK
<1>2. ASSUME NEW r \in Requests, ConfirmLanded(r)
      PROVE  TypeOK'
  BY <1>2 DEF ConfirmLanded, GoOn, TypeOK
<1>3. ASSUME NEW r \in Requests, NotConfirmed(r)
      PROVE  TypeOK'
  BY <1>3 DEF NotConfirmed, Answer, TypeOK
<1>4. ASSUME NEW r \in Requests, Claim(r)
      PROVE  TypeOK'
  <2>1. verifier = "solana"
    BY <1>4 DEF Claim, OrdersAdmitted, TypeOK, Verifiers
  <2>2. order[r].proof.tx \in Transactions
    BY <1>4, <2>1, OrderHasTransaction DEF Claim
  <2>3. CASE order[r].proof.tx \in used_signatures
    BY <1>4, <2>2, <2>3 DEF Claim, Answer, TypeOK
  <2>4. CASE order[r].proof.tx \notin used_signatures
    BY <1>4, <2>2, <2>4 DEF Claim, GoOn, TypeOK
  <2> QED
    BY <2>3, <2>4
<1>5. ASSUME NEW r \in Requests, Create(r)
      PROVE  TypeOK'
  <2> DEFINE seq == next_seq + 1
             h == order[r].spec
             proof == order[r].proof
             entry == [core |-> Applied(NewJob(h, seq), FundEvent, 0), paid_by |-> proof]
  <2>1. seq \in 1 .. MaxJobs /\ h \in SpecHashes /\ proof \in Proofs /\ boot \in 0 .. MaxRestarts
    BY <1>5, RoomForOne DEF Create, TypeOK
  <2>2. JobId(h, seq) \in JobIds /\ Applied(NewJob(h, seq), FundEvent, 0) \in Job
    BY <2>1, NewJobFunded
  <2>3. /\ jobs' = [jobs EXCEPT ![JobId(h, seq)] = entry]
        /\ issued' = issued \cup {[boot |-> boot, verifier |-> verifier, id |-> JobId(h, seq),
                                   paid_by |-> proof]}
        /\ next_seq' = seq
        /\ UNCHANGED <<verifier, status, used_signatures, boot>>
        /\ step' = [step EXCEPT ![r] = "idle"]
        /\ order' = [order EXCEPT ![r] = NoOrder]
    BY <1>5 DEF Create, Answer
  <2> HIDE DEF seq, h, proof
  <2>4. entry \in Entry
    BY <2>1, <2>2 DEF Entry
  <2> HIDE DEF entry
  <2>5. jobs' \in [JobIds -> Entry \cup {None}]
    BY <2>2, <2>3, <2>4 DEF TypeOK
  <2>6. next_seq' \in 0 .. MaxJobs
    BY <2>1, <2>3
  <2> QED
    BY <2>1, <2>2, <2>3, <2>5, <2>6 DEF TypeOK
<1>6. ASSUME NEW t \in Transactions, Chain(t)
      PROVE  TypeOK'
  BY <1>6 DEF Chain, TypeOK
<1>7. CASE Restart
  BY <1>7, BoundsAssumption DEF Restart, TypeOK, Verifiers
<1>8. CASE UNCHANGED vars
  BY <1>8 DEF vars, TypeOK
<1> QED
  BY <1>1, <1>2, <1>3, <1>4, <1>5, <1>6, <1>7, <1>8 DEF Next, Handle

\* No step asks for more jobs than there are numbers.
LEMMA NextRoom ==
    ASSUME TypeOK, RoomForJobs, [Next]_vars
    PROVE  RoomForJobs'
<1>1. ASSUME NEW r \in Requests, NEW h \in SpecHashes \cup {None},
             NEW payment \in Payments \cup {None}, Post(r, h, payment)
      PROVE  RoomForJobs'
  <2>1. Busy' = Busy \cup {r} /\ r \notin Busy /\ next_seq' = next_seq
    BY <1>1 DEF Post, Busy, TypeOK
  <2>2. next_seq + Cardinality(Busy) < MaxJobs
    BY <1>1 DEF Post, Busy
  <2>3. Cardinality(Busy') = Cardinality(Busy) + 1
    BY <2>1, BusyFinite, FS_AddElement
  <2> QED
    BY <2>1, <2>2, <2>3, BusyFinite, BoundsAssumption DEF RoomForJobs, TypeOK
<1>2. ASSUME NEW r \in Requests, step[r] # "idle", step' = [step EXCEPT ![r] = "idle"],
             next_seq' \in {next_seq, next_seq + 1}
      PROVE  RoomForJobs'
  <2>1. Busy' = Busy \ {r} /\ r \in Busy
    BY <1>2 DEF Busy, TypeOK
  <2>2. Cardinality(Busy') = Cardinality(Busy) - 1
    BY <2>1, BusyFinite, FS_RemoveElement
  <2> QED
    BY <1>2, <2>2, BusyFinite, BoundsAssumption DEF RoomForJobs, TypeOK
<1>3. ASSUME NEW r \in Requests, NEW next \in {"claiming", "creating"}, step[r] # "idle",
             step' = [step EXCEPT ![r] = next], next_seq' = next_seq
      PROVE  RoomForJobs'
  <2>1. Busy' = Busy
    BY <1>3 DEF Busy, TypeOK
  <2> QED
    BY <1>3, <2>1 DEF RoomForJobs
<1>4. ASSUME NEW r \in Requests, Handle(r)
      PROVE  RoomForJobs'
  <2>1. CASE ConfirmLanded(r)
    BY <1>3, <2>1 DEF ConfirmLanded, GoOn
  <2>2. CASE NotConfirmed(r)
    BY <1>2, <2>2 DEF NotConfirmed, Answer
  <2>3. CASE Claim(r)
    BY <1>2, <1>3, <2>3 DEF Claim, Answer, GoOn
  <2>4. CASE Create(r)
    BY <1>2, <2>4 DEF Create, Answer
  <2> QED
    BY <1>4, <2>1, <2>2, <2>3, <2>4 DEF Handle
<1>5. CASE Restart
  <2>1. Busy' = {} /\ next_seq' = 0
    BY <1>5 DEF Restart, Busy
  <2> QED
    BY <2>1, FS_EmptySet, BoundsAssumption DEF RoomForJobs
<1>6. CASE UNCHANGED <<step, next_seq>>
  BY <1>6 DEF RoomForJobs, Busy
<1> QED
  BY <1>1, <1>4, <1>5, <1>6 DEF Next, Chain, vars

-----------------------------------------------------------------------------
(* Orders and jobs *)

\* Confirmation by the chain is not taken back.
LEMMA ConfirmedStays ==
    ASSUME TypeOK, NEW proof, verifier = "solana" => proof.tx \in Transactions,
           Confirmed(proof), UNCHANGED verifier,
           UNCHANGED status \/ \E t \in Transactions : Chain(t)
    PROVE  verifier' = "solana" => status'[proof.tx] = "confirmed"
<1>1. CASE UNCHANGED status
  BY <1>1 DEF Confirmed
<1>2. ASSUME NEW t \in Transactions, Chain(t), verifier = "solana"
      PROVE  status'[proof.tx] = "confirmed"
  <2>1. PICK next : /\ <<status[t], next>> \in ChainMoves
                    /\ status' = [status EXCEPT ![t] = next]
    BY <1>2 DEF Chain
  <2>2. status[t] # "confirmed"
    BY <2>1 DEF ChainMoves
  <2> QED
    BY <1>2, <2>1, <2>2 DEF Confirmed, TypeOK
<1> QED
  BY <1>1, <1>2

\* Every step keeps the orders admitted: a request comes in with a proof its verifier
\* took, and passes the chain's check only with a confirmed one.
LEMMA NextOrders ==
    ASSUME TypeOK, OrdersAdmitted, [Next]_vars
    PROVE  OrdersAdmitted'
<1> DEFINE Good(r) ==
              step[r] # "idle" =>
                  /\ Admits(order[r].spec, order[r].proof)
                  /\ verifier = "stub" => step[r] = "creating"
                  /\ step[r] # "confirming" => Confirmed(order[r].proof)
<1>1. \A r \in Requests : Good(r)
  BY DEF OrdersAdmitted
<1>2. ASSUME NEW q \in Requests, UNCHANGED verifier,
             UNCHANGED status \/ \E t \in Transactions : Chain(t),
             step'[q] = step[q], order'[q] = order[q]
      PROVE  Good(q)'
  <2>1. CASE step[q] = "idle"
    BY <1>2, <2>1
  <2>2. CASE step[q] # "idle"
    <3>1. Admits(order[q].spec, order[q].proof)'
      BY <1>1, <1>2, <2>2 DEF Admits
    <3>2. verifier = "solana" => order[q].proof.tx \in Transactions
      BY <2>2, OrderHasTransaction
    <3>3. step[q] # "confirming" => Confirmed(order[q].proof)
      BY <1>1, <2>2
    <3>4. ASSUME step[q] # "confirming"
          PROVE  Confirmed(order[q].proof)'
      <4>1. PICK proof : proof = order[q].proof
        OBVIOUS
      <4>2. verifier' = "solana" => status'[proof.tx] = "confirmed"
        BY <1>2, <3>2, <3>3, <3>4, <4>1, ConfirmedStays
      <4> QED
        BY <1>2, <4>1, <4>2 DEF Confirmed
    <3> QED
      BY <1>1, <1>2, <2>2, <3>1, <3>4
  <2> QED
    BY <2>1, <2>2
<1>3. ASSUME NEW r \in Requests, NEW h \in SpecHashes \cup {None},
             NEW payment \in Payments \cup {None}, Post(r, h, payment)
      PROVE  OrdersAdmitted'
  <2>1. /\ UNCHANGED <<verifier, status>>
        /\ step'[r] = IF verifier = "solana" THEN "confirming" ELSE "creating"
        /\ order'[r] = [spec |-> h, proof |-> payment.proof]
        /\ \A q \in Requests \ {r} : step'[q] = step[q] /\ order'[q] = order[q]
    BY <1>3 DEF Post, TypeOK
  <2>2. Admits(h, payment.proof)
    BY <1>3, AdmissibleOrder DEF Post
  <2>3. Good(r)'
    BY <2>1, <2>2 DEF Admits, Confirmed
  <2> QED
    BY <1>2, <2>1, <2>3 DEF OrdersAdmitted
<1>4. ASSUME NEW r \in Requests, UNCHANGED <<verifier, status>>, Answer(r)
      PROVE  OrdersAdmitted'
  <2>1. /\ step'[r] = "idle"
        /\ \A q \in Requests \ {r} : step'[q] = step[q] /\ order'[q] = order[q]
    BY <1>4 DEF Answer, TypeOK
  <2> QED
    BY <1>2, <1>4, <2>1 DEF OrdersAdmitted
<1>5. ASSUME NEW r \in Requests, NEW next \in {"claiming", "creating"},
             UNCHANGED <<verifier, status>>, GoOn(r, next), verifier = "solana",
             step[r] # "idle", status[order[r].proof.tx] = "confirmed"
      PROVE  OrdersAdmitted'
  <2>1. /\ step'[r] = next
        /\ order' = order
        /\ \A q \in Requests \ {r} : step'[q] = step[q]
    BY <1>5 DEF GoOn, TypeOK
  <2>2. Good(r)'
    BY <1>1, <1>5, <2>1 DEF Admits, Confirmed
  <2> QED
    BY <1>2, <1>5, <2>1, <2>2 DEF OrdersAdmitted
<1>6. ASSUME NEW r \in Requests, step[r] \in {"confirming", "claiming"}
      PROVE  verifier = "solana"
  BY <1>1, <1>6 DEF TypeOK, Verifiers
<1>7. ASSUME NEW r \in Requests, Handle(r)
      PROVE  OrdersAdmitted'
  <2>1. CASE ConfirmLanded(r)
    BY <1>5, <1>6, <2>1 DEF ConfirmLanded
  <2>2. CASE NotConfirmed(r)
    BY <1>4, <2>2 DEF NotConfirmed
  <2>3. CASE Claim(r)
    <3>1. /\ step[r] = "claiming"
          /\ UNCHANGED <<verifier, status>>
          /\ Answer(r) \/ GoOn(r, "creating")
      BY <2>3 DEF Claim
    <3>2. verifier = "solana" /\ status[order[r].proof.tx] = "confirmed"
      BY <1>1, <1>6, <3>1 DEF Confirmed
    <3> QED
      BY <1>4, <1>5, <3>1, <3>2
  <2>4. CASE Create(r)
    BY <1>4, <2>4 DEF Create
  <2> QED
    BY <1>7, <2>1, <2>2, <2>3, <2>4 DEF Handle
<1>8. ASSUME NEW t \in Transactions, Chain(t)
      PROVE  OrdersAdmitted'
  <2>1. UNCHANGED <<verifier, step, order>>
    BY <1>8 DEF Chain
  <2> QED
    BY <1>2, <1>8, <2>1 DEF OrdersAdmitted
<1>9. CASE Restart
  BY <1>9 DEF Restart, OrdersAdmitted
<1>10. CASE UNCHANGED vars
  BY <1>2, <1>10 DEF vars, OrdersAdmitted
<1> QED
  BY <1>3, <1>7, <1>8, <1>9, <1>10 DEF Next

\* The number of the next job is new, so its id is.
LEMMA FreshId ==
    ASSUME TypeOK, JobsAsOrdered, NEW h
    PROVE  JobId(h, next_seq + 1) \notin Stored
  BY DEF JobsAsOrdered, JobId, TypeOK

\* What Create records: one entry under an id that was free.
LEMMA CreateEffect ==
    ASSUME TypeOK, RoomForJobs, OrdersAdmitted, JobsAsOrdered, NEW r \in Requests, Create(r)
    PROVE  \E id \in JobIds, entry \in Entry :
              /\ id \notin Stored
              /\ id = JobId(order[r].spec, next_seq + 1)
              /\ jobs' = [jobs EXCEPT ![id] = entry]
              /\ Stored' = Stored \cup {id}
              /\ entry.paid_by = order[r].proof
              /\ entry.core.job_id = id
              /\ entry.core.state = "Funded"
              /\ entry.core.spec_hash = order[r].spec
              /\ entry.core.amount = SpecOf[order[r].spec].amount
<1> DEFINE seq == next_seq + 1
           h == order[r].spec
           id == JobId(h, seq)
           entry == [core |-> Applied(NewJob(h, seq), FundEvent, 0),
                     paid_by |-> order[r].proof]
<1>1. /\ seq \in 1 .. MaxJobs
      /\ h \in SpecHashes
      /\ order[r].proof \in Proofs
      /\ boot \in 0 .. MaxRestarts
  BY RoomForOne DEF Create, TypeOK
<1>2. /\ id \in JobIds
      /\ entry.core \in Job
      /\ entry.core = [NewJob(h, seq) EXCEPT !.state = "Funded"]
  BY <1>1, NewJobFunded
<1>3. entry \in Entry
  BY <1>1, <1>2 DEF Entry
<1>4. jobs' = [jobs EXCEPT ![id] = entry]
  BY DEF Create
<1>5. id \notin Stored
  BY FreshId
<1>6. /\ entry.core.job_id = id
      /\ entry.core.state = "Funded"
      /\ entry.core.spec_hash = h
      /\ entry.core.amount = SpecOf[h].amount
  BY <1>2 DEF NewJob, Created
<1>7. entry.paid_by = order[r].proof
  OBVIOUS
<1> HIDE DEF entry, id
<1>8. Stored' = Stored \cup {id}
  BY <1>2, <1>3, <1>4, NoneIsNoEntry DEF Stored, TypeOK
<1> QED
  BY <1>2, <1>3, <1>4, <1>5, <1>6, <1>7, <1>8 DEF id

\* Every stored job stays the job that was ordered, under its own number.
LEMMA NextJobs ==
    ASSUME TypeOK, RoomForJobs, OrdersAdmitted, JobsAsOrdered, [Next]_vars
    PROVE  JobsAsOrdered'
<1> DEFINE AsOrdered(j, entry, last) ==
              /\ \E seq \in 1 .. last : j = JobId(entry.core.spec_hash, seq)
              /\ entry.core.job_id = j
              /\ entry.core.state = "Funded"
              /\ entry.core.amount = SpecOf[entry.core.spec_hash].amount
<1>1. \A j \in Stored : /\ AsOrdered(j, jobs[j], next_seq)
                        /\ Admits(jobs[j].core.spec_hash, jobs[j].paid_by)
                        /\ Confirmed(jobs[j].paid_by)
                        /\ jobs[j].paid_by \in Proofs
  BY NoneIsNoEntry DEF JobsAsOrdered, Stored, TypeOK, Entry
<1>2. JobsAsOrdered' <=>
         \A j \in Stored' : /\ AsOrdered(j, jobs'[j], next_seq')
                            /\ Admits(jobs[j].core.spec_hash, jobs[j].paid_by)'
                            /\ Confirmed(jobs[j].paid_by)'
  BY DEF JobsAsOrdered
<1>3. ASSUME NEW j \in Stored, jobs'[j] = jobs[j], UNCHANGED verifier,
             UNCHANGED status \/ \E t \in Transactions : Chain(t),
             next_seq' \in {next_seq, next_seq + 1}
      PROVE  /\ AsOrdered(j, jobs'[j], next_seq')
             /\ Admits(jobs[j].core.spec_hash, jobs[j].paid_by)'
             /\ Confirmed(jobs[j].paid_by)'
  <2>1. AsOrdered(j, jobs'[j], next_seq')
    BY <1>1, <1>3 DEF TypeOK
  <2>2. Admits(jobs[j].core.spec_hash, jobs[j].paid_by)'
    BY <1>1, <1>3 DEF Admits
  <2>3. PICK proof : proof = jobs[j].paid_by
    OBVIOUS
  <2>4. verifier = "solana" => proof.tx \in Transactions
    BY <1>1, <2>3, ProofsAssumption DEF Admits, SolanaAdmits
  <2>5. verifier' = "solana" => status'[proof.tx] = "confirmed"
    BY <1>1, <1>3, <2>3, <2>4, ConfirmedStays
  <2> QED
    BY <1>3, <2>1, <2>2, <2>3, <2>5 DEF Confirmed
<1>4. CASE UNCHANGED <<verifier, jobs, next_seq>>
           /\ (UNCHANGED status \/ \E t \in Transactions : Chain(t))
  <2>1. Stored' = Stored
    BY <1>4 DEF Stored
  <2> QED
    BY <1>2, <1>3, <1>4, <2>1
<1>5. ASSUME NEW r \in Requests, Create(r)
      PROVE  JobsAsOrdered'
  <2>1. PICK id \in JobIds, entry \in Entry :
              /\ id \notin Stored
              /\ id = JobId(order[r].spec, next_seq + 1)
              /\ jobs' = [jobs EXCEPT ![id] = entry]
              /\ Stored' = Stored \cup {id}
              /\ entry.paid_by = order[r].proof
              /\ entry.core.job_id = id
              /\ entry.core.state = "Funded"
              /\ entry.core.spec_hash = order[r].spec
              /\ entry.core.amount = SpecOf[order[r].spec].amount
    BY <1>5, CreateEffect
  <2>2. UNCHANGED <<verifier, status>> /\ next_seq' = next_seq + 1 /\ step[r] = "creating"
    BY <1>5 DEF Create
  <2>3. jobs'[id] = entry /\ \A j \in Stored : jobs'[j] = jobs[j]
    BY <2>1 DEF TypeOK, Stored
  <2>4. AsOrdered(id, entry, next_seq')
    <3>1. next_seq + 1 \in 1 .. next_seq'
      BY <2>2 DEF TypeOK
    <3> QED
      BY <2>1, <3>1
  <2>5. Admits(order[r].spec, order[r].proof) /\ Confirmed(order[r].proof)
    BY <2>2 DEF OrdersAdmitted
  <2>6. Admits(jobs[id].core.spec_hash, jobs[id].paid_by)'
    BY <2>1, <2>2, <2>3, <2>5 DEF Admits
  <2>7. Confirmed(jobs[id].paid_by)'
    BY <2>1, <2>2, <2>3, <2>5 DEF Confirmed
  <2> QED
    BY <1>2, <1>3, <2>1, <2>2, <2>3, <2>4, <2>6, <2>7
<1>6. CASE Restart
  BY <1>2, <1>6 DEF Restart, Stored
<1> QED
  BY <1>4, <1>5, <1>6
     DEF Next, Handle, Post, ConfirmLanded, NotConfirmed, Claim, Chain, vars

-----------------------------------------------------------------------------
(* Payments *)

\* The replay check adds a signature and its one request in the same step, and
\* Create hands it over to the one job.
LEMMA NextUsed ==
    ASSUME TypeOK, RoomForJobs, OrdersAdmitted, JobsAsOrdered, UsedAsSpent, [Next]_vars
    PROVE  UsedAsSpent'
<1>1. CASE /\ UNCHANGED <<verifier, used_signatures, jobs>>
           /\ \A r \in Requests :
                 /\ step'[r] = "creating" <=> step[r] = "creating"
                 /\ step[r] = "creating" => order'[r] = order[r]
  <2>1. Stored' = Stored /\ Creating' = Creating
    BY <1>1 DEF Stored, Creating
  <2>2. \A r \in Creating : order'[r] = order[r]
    BY <1>1 DEF Creating
  <2> QED
    BY <1>1, <2>1, <2>2 DEF UsedAsSpent
<1>2. CASE verifier = "stub" /\ UNCHANGED <<verifier, used_signatures>>
  BY <1>2 DEF UsedAsSpent
<1>3. ASSUME NEW r \in Requests, NEW h \in SpecHashes \cup {None},
             NEW payment \in Payments \cup {None}, Post(r, h, payment)
      PROVE  UsedAsSpent'
  <2>1. CASE verifier = "stub"
    BY <1>2, <1>3, <2>1 DEF Post
  <2>2. CASE verifier = "solana"
    <3>1. /\ step[r] = "idle"
          /\ step' = [step EXCEPT ![r] = "confirming"]
          /\ \A q \in Requests \ {r} : order'[q] = order[q]
          /\ UNCHANGED <<verifier, used_signatures, jobs>>
      BY <1>3, <2>2 DEF Post, TypeOK
    <3> QED
      BY <1>1, <3>1 DEF TypeOK
  <2> QED
    BY <2>1, <2>2 DEF TypeOK, Verifiers
<1>4. ASSUME NEW r \in Requests, ConfirmLanded(r)
      PROVE  UsedAsSpent'
  BY <1>1, <1>4 DEF ConfirmLanded, GoOn, TypeOK
<1>5. ASSUME NEW r \in Requests, NotConfirmed(r)
      PROVE  UsedAsSpent'
  BY <1>1, <1>5 DEF NotConfirmed, Answer, TypeOK
<1>6. ASSUME NEW r \in Requests, Claim(r)
      PROVE  UsedAsSpent'
  <2> DEFINE tx == order[r].proof.tx
  <2>1. verifier = "solana" /\ step[r] = "claiming"
    BY <1>6 DEF Claim, OrdersAdmitted, TypeOK, Verifiers
  <2>2. CASE tx \in used_signatures
    <3>1. used_signatures' = used_signatures /\ Answer(r)
      BY <1>6, <2>2 DEF Claim
    <3> QED
      BY <1>1, <1>6, <2>1, <3>1 DEF Claim, Answer, TypeOK
  <2>3. CASE tx \notin used_signatures
    <3>1. /\ used_signatures' = used_signatures \cup {tx}
          /\ step' = [step EXCEPT ![r] = "creating"]
          /\ UNCHANGED <<verifier, order, jobs>>
      BY <1>6, <2>3 DEF Claim, GoOn
    <3>2. /\ Stored' = Stored
          /\ Creating' = Creating \cup {r}
      BY <2>1, <3>1 DEF Stored, Creating, TypeOK
    <3> QED
      BY <2>1, <2>3, <3>1, <3>2 DEF UsedAsSpent
  <2> QED
    BY <2>2, <2>3
<1>7. ASSUME NEW r \in Requests, Create(r)
      PROVE  UsedAsSpent'
  <2>1. CASE verifier = "stub"
    BY <1>2, <1>7, <2>1 DEF Create
  <2>2. CASE verifier = "solana"
    <3>1. PICK id \in JobIds, entry \in Entry :
              /\ id \notin Stored
              /\ jobs' = [jobs EXCEPT ![id] = entry]
              /\ Stored' = Stored \cup {id}
              /\ entry.paid_by = order[r].proof
      BY <1>7, CreateEffect
    <3>2. /\ jobs'[id].paid_by = order[r].proof
          /\ \A j \in Stored : jobs'[j] = jobs[j]
      BY <3>1 DEF TypeOK, Stored
    <3>3. /\ UNCHANGED <<verifier, used_signatures>>
          /\ r \in Creating
          /\ Creating' = Creating \ {r}
          /\ \A q \in Requests \ {r} : order'[q] = order[q]
      BY <1>7 DEF Create, Answer, Creating, TypeOK
    <3>4. Creating \subseteq Requests
      BY DEF Creating
    <3> QED
      BY <2>2, <3>1, <3>2, <3>3, <3>4 DEF UsedAsSpent
  <2> QED
    BY <2>1, <2>2 DEF TypeOK, Verifiers
<1>8. CASE Restart
  BY <1>8 DEF Restart, UsedAsSpent, Stored, Creating
<1>9. ASSUME NEW t \in Transactions, Chain(t)
      PROVE  UsedAsSpent'
  BY <1>1, <1>9 DEF Chain
<1>10. CASE UNCHANGED vars
  BY <1>1, <1>10 DEF vars
<1> QED
  BY <1>3, <1>4, <1>5, <1>6, <1>7, <1>8, <1>9, <1>10 DEF Next, Handle

-----------------------------------------------------------------------------
(* Theorems *)

\* The invariant holds however requests interleave, whatever the chain reports
\* and wherever the process stops.
THEOREM InvariantHolds == Spec => []IInv
<1>1. IInv /\ [Next]_vars => IInv'
  BY NextType, NextRoom, NextOrders, NextJobs, NextUsed DEF IInv
<1> QED
  BY <1>1, InitInvariant, PTL DEF Spec

\* The handler's state stays in its types: the used signatures are transactions,
\* and every order in flight names a specification and a proof.
THEOREM TypeCorrect == Spec => []TypeOK
<1>1. IInv => TypeOK
  BY DEF IInv
<1> QED
  BY <1>1, InvariantHolds, PTL

\* With a chain to ask, every stored job has a confirmed transaction behind it that
\* transfers exactly the job's price to the operator.
THEOREM JobsAlwaysPaid == Spec => []JobsArePaid
<1>1. IInv => JobsArePaid
  <2> SUFFICES ASSUME IInv, verifier = "solana", NEW j \in Stored
               PROVE  LET job == jobs[j].core
                          tx == jobs[j].paid_by.tx
                      IN  /\ job.state = "Funded"
                          /\ job.job_id = j
                          /\ status[tx] = "confirmed"
                          /\ TransactionOf[tx].signed
                          /\ \E t \in TransactionOf[tx].transfers :
                                /\ t.pay_to = PayTo
                                /\ t.amount = job.amount
                                /\ t.asset = SpecOf[job.spec_hash].asset
    BY DEF JobsArePaid
  <2> QED
    BY DEF IInv, JobsAsOrdered, Admits, Confirmed, SolanaAdmits, FindExactTransfer,
           Requirement, Transfer
<1> QED
  BY <1>1, InvariantHolds, PTL

\* Without a chain, every stored job carries its payer's signature for this very
\* specification at this very price.
THEOREM JobsAlwaysAuthorised == Spec => []JobsAreAuthorised
<1>1. IInv => JobsAreAuthorised
  <2> SUFFICES ASSUME IInv, verifier = "stub", NEW j \in Stored
               PROVE  /\ jobs[j].paid_by.signature.key = jobs[j].paid_by.payer
                      /\ jobs[j].paid_by.signature.message.spec = jobs[j].core.spec_hash
                      /\ jobs[j].paid_by.signature.message.transfer.amount = jobs[j].core.amount
                      /\ jobs[j].paid_by.signature.message.transfer.pay_to = PayTo
    BY DEF JobsAreAuthorised
  <2>1. /\ jobs[j].core.amount = SpecOf[jobs[j].core.spec_hash].amount
        /\ StubAdmits(jobs[j].core.spec_hash, jobs[j].paid_by)
    BY DEF IInv, JobsAsOrdered, Admits
  <2> QED
    BY <2>1 DEF StubAdmits, ProofMessage, Requirement, Transfer
<1> QED
  BY <1>1, InvariantHolds, PTL

\* One payment buys one job while the process lives, however many requests present
\* it at once.
THEOREM OnePaymentAlwaysOneJob == Spec => []OnePaymentOneJob
<1>1. IInv => OnePaymentOneJob
  BY DEF IInv, OnePaymentOneJob, UsedAsSpent
<1> QED
  BY <1>1, InvariantHolds, PTL

\* A used payment has its job, or exactly one request about to create it.
THEOREM UsedPaymentsAlwaysHaveJobs == Spec => []UsedPaymentsHaveJobs
<1>1. IInv => UsedPaymentsHaveJobs
  <2> SUFFICES ASSUME IInv, NEW t \in used_signatures
               PROVE  Cardinality({j \in Stored : jobs[j].paid_by.tx = t}
                                  \cup {r \in Requests : step[r] = "creating"
                                                         /\ order[r].proof.tx = t}) = 1
    BY DEF UsedPaymentsHaveJobs
  <2> DEFINE bought == {j \in Stored : jobs[j].paid_by.tx = t}
             pending == {r \in Requests : step[r] = "creating" /\ order[r].proof.tx = t}
  <2>1. verifier = "solana"
    BY DEF IInv, TypeOK, Verifiers, UsedAsSpent
  <2>2. \E x : bought \cup pending = {x}
    <3>1. CASE \E j \in Stored : jobs[j].paid_by.tx = t
      <4>1. PICK j \in Stored : jobs[j].paid_by.tx = t
        BY <3>1
      <4>2. bought = {j}
        BY <2>1, <4>1 DEF IInv, UsedAsSpent
      <4>3. pending = {}
        BY <2>1, <4>1 DEF IInv, UsedAsSpent, Creating
      <4> QED
        BY <4>2, <4>3
    <3>2. CASE ~ \E j \in Stored : jobs[j].paid_by.tx = t
      <4>1. PICK r \in Creating : order[r].proof.tx = t
        BY <2>1, <3>2 DEF IInv, UsedAsSpent
      <4>2. pending = {r}
        BY <2>1, <4>1 DEF IInv, UsedAsSpent, Creating
      <4>3. bought = {}
        BY <3>2
      <4> QED
        BY <4>2, <4>3
    <3> QED
      BY <3>1, <3>2
  <2> QED
    BY <2>2, FS_Singleton
<1> QED
  BY <1>1, InvariantHolds, PTL

\* While the process lives a job, once answered for, stays as it is.
JobsAreKept == [][ boot' = boot => \A j \in Stored : jobs'[j] = jobs[j] ]_vars

\* While the process lives, a stored job is never replaced: ids are never given
\* out twice.
THEOREM JobsAlwaysKept == Spec => JobsAreKept
<1>1. IInv /\ [Next]_vars => [boot' = boot => \A j \in Stored : jobs'[j] = jobs[j]]_vars
  <2> SUFFICES ASSUME IInv, [Next]_vars, boot' = boot, NEW j \in Stored
               PROVE  jobs'[j] = jobs[j]
    OBVIOUS
  <2>1. ASSUME NEW r \in Requests, Create(r)
        PROVE  jobs'[j] = jobs[j]
    <3>1. PICK id \in JobIds, entry \in Entry :
             id \notin Stored /\ jobs' = [jobs EXCEPT ![id] = entry]
      BY <2>1, CreateEffect DEF IInv
    <3> QED
      BY <3>1 DEF IInv, TypeOK, Stored
  <2>2. ~Restart
    BY BoundsAssumption DEF IInv, TypeOK, Restart
  <2> QED
    BY <2>1, <2>2 DEF Next, Handle, Post, ConfirmLanded, NotConfirmed, Claim, Chain, vars
<1> QED
  BY <1>1, InvariantHolds, PTL DEF Spec, JobsAreKept

-----------------------------------------------------------------------------
(* The gateway implements GatewayPromise *)

\* What either verifier admits is what the promise asks for: a transaction that pays
\* the price of the specification, or a signature of the payer for it.
LEMMA AdmittedIsCovered ==
    ASSUME NEW h \in SpecHashes, NEW proof \in Proofs, Admits(h, proof), verifier \in Verifiers
    PROVE  /\ verifier = "solana" => <<proof.tx, h>> \in PaysFor
           /\ verifier # "solana" => <<proof, h>> \in SignedFor
<1>1. CASE verifier = "solana"
  <2>1. /\ proof.tx \in Transactions
        /\ TransactionOf[proof.tx].signed
        /\ FindExactTransfer(TransactionOf[proof.tx].transfers, Requirement(h))
    BY <1>1, ProofsAssumption DEF Admits, SolanaAdmits
  <2>2. \E t \in TransactionOf[proof.tx].transfers :
           t.pay_to = PayTo /\ t.amount = SpecOf[h].amount /\ t.asset = SpecOf[h].asset
    BY <2>1 DEF FindExactTransfer, Requirement, Transfer
  <2> QED
    BY <1>1, <2>1, <2>2 DEF PaysFor
<1>2. CASE verifier # "solana"
  <2>1. StubAdmits(h, proof)
    BY <1>2 DEF Admits
  <2>2. /\ proof.signature.key = proof.payer
        /\ proof.signature.message.spec = h
        /\ proof.signature.message.transfer.amount = SpecOf[h].amount
        /\ proof.signature.message.transfer.pay_to = PayTo
    BY <2>1 DEF StubAdmits, ProofMessage, Requirement, Transfer
  <2> QED
    BY <1>2, <2>2 DEF SignedFor
<1> QED
  BY <1>1, <1>2

\* The step that stores a job is the sale.
LEMMA CreateSells ==
    ASSUME IInv, NEW r \in Requests, Create(r)
    PROVE  \E sale \in soldBar' : Promise!Sell(sale)
<1>1. PICK id \in JobIds, entry \in Entry :
          /\ id \notin Stored
          /\ jobs' = [jobs EXCEPT ![id] = entry]
          /\ Stored' = Stored \cup {id}
          /\ entry.paid_by = order[r].proof
          /\ entry.core.state = "Funded"
          /\ entry.core.spec_hash = order[r].spec
          /\ entry.core.amount = SpecOf[order[r].spec].amount
  BY CreateEffect DEF IInv
<1> DEFINE sale == [id |-> id, state |-> entry.core.state, spec |-> entry.core.spec_hash,
                    price |-> entry.core.amount, proof |-> entry.paid_by]
<1>2. jobs'[id] = entry /\ \A j \in Stored : jobs'[j] = jobs[j]
  BY <1>1 DEF IInv, TypeOK, Stored
<1>3. soldBar' = soldBar \cup {sale}
  <2>1. SaleOf(id)' = sale
    BY <1>2 DEF SaleOf
  <2>2. \A j \in Stored : SaleOf(j)' = SaleOf(j)
    BY <1>2 DEF SaleOf
  <2>3. soldBar' = {SaleOf(j)' : j \in Stored \cup {id}}
    BY <1>1 DEF soldBar
  <2> HIDE DEF sale
  <2> QED
    BY <2>1, <2>2, <2>3 DEF soldBar
<1>4. \A earlier \in soldBar : earlier.id # sale.id
  BY <1>1 DEF soldBar, SaleOf
<1>5. /\ step[r] = "creating" /\ UNCHANGED <<boot, verifier, status>>
      /\ order[r].spec \in SpecHashes /\ order[r].proof \in Proofs
      /\ verifier \in Verifiers
  BY DEF Create, IInv, TypeOK
<1>6. sale.price = PriceOf[sale.spec]
  BY <1>1, <1>5 DEF PriceOf
<1>7. Admits(order[r].spec, order[r].proof) /\ Confirmed(order[r].proof)
  BY <1>5 DEF IInv, OrdersAdmitted
<1>8. Promise!Covered(sale.proof, sale.spec)
  <2>1. CASE verifier = "solana"
    <3>1. order[r].proof.tx \in finalBar
      BY <1>5, <1>7, <2>1, OrderHasTransaction DEF Confirmed, finalBar, IInv
    <3>2. \A j \in Stored : jobs[j].paid_by.tx # order[r].proof.tx
      BY <1>5, <2>1 DEF IInv, UsedAsSpent, Creating
    <3>3. \A earlier \in soldBar : earlier.proof.tx # order[r].proof.tx
      BY <3>2 DEF soldBar, SaleOf
    <3> QED
      BY <1>1, <1>5, <1>7, <2>1, <3>1, <3>3, AdmittedIsCovered DEF Promise!Covered
  <2>2. CASE verifier # "solana"
    BY <1>1, <1>5, <1>7, <2>2, AdmittedIsCovered DEF Promise!Covered
  <2> QED
    BY <2>1, <2>2
<1>9. UNCHANGED <<boot, verifier, finalBar>>
  BY <1>5 DEF finalBar
<1>10. sale.state = "Funded"
  BY <1>1
<1> HIDE DEF sale
<1>11. Promise!Sell(sale)
  BY <1>3, <1>4, <1>6, <1>8, <1>9, <1>10 DEF Promise!Sell
<1> QED
  BY <1>3, <1>11

\* Every step is a sale, a transaction that becomes final, a restart, or nothing that
\* a customer could see.
LEMMA StepKeepsPromise ==
    ASSUME IInv, [Next]_vars
    PROVE  [Promise!PromiseNext]_(Promise!pvars)
<1>1. CASE UNCHANGED <<boot, verifier, status, jobs>>
  <2>1. Stored' = Stored /\ finalBar' = finalBar /\ UNCHANGED <<boot, verifier>>
    BY <1>1 DEF Stored, finalBar
  <2>2. soldBar' = soldBar
    BY <1>1, <2>1 DEF soldBar, SaleOf
  <2> QED
    BY <2>1, <2>2 DEF Promise!pvars
<1>2. ASSUME NEW r \in Requests, Create(r)
      PROVE  Promise!PromiseNext
  BY <1>2, CreateSells DEF Promise!PromiseNext
<1>3. ASSUME NEW t \in Transactions, Chain(t)
      PROVE  Promise!PromiseNext
  <2>1. UNCHANGED <<boot, verifier, jobs>>
    BY <1>3 DEF Chain
  <2>2. Stored' = Stored
    BY <2>1 DEF Stored
  <2>3. soldBar' = soldBar
    BY <2>1, <2>2 DEF soldBar, SaleOf
  <2>4. PICK next : <<status[t], next>> \in ChainMoves /\ status' = [status EXCEPT ![t] = next]
    BY <1>3 DEF Chain
  <2>5. status[t] # "confirmed"
    BY <2>4 DEF ChainMoves
  <2>6. finalBar \subseteq finalBar'
    BY <2>4, <2>5 DEF finalBar, IInv, TypeOK
  <2> QED
    BY <2>1, <2>3, <2>6 DEF Promise!PromiseNext, Promise!Finalise
<1>4. CASE Restart
  <2>1. Stored' = {} /\ boot' = boot + 1 /\ verifier' \in Verifiers /\ status' = status
    BY <1>4 DEF Restart, Stored
  <2>2. soldBar' = {} /\ finalBar' = finalBar
    BY <2>1 DEF soldBar, finalBar
  <2> QED
    BY <2>1, <2>2 DEF Promise!PromiseNext, Promise!Forget, Promise!Mode, Verifiers
<1> QED
  BY <1>1, <1>2, <1>3, <1>4 DEF Next, Handle, Post, ConfirmLanded, NotConfirmed, Claim, vars

\* The gateway implements GatewayPromise: with any number of requests at once, each
\* job is sold as if in one step, for a payment that covers it and covers no other.
THEOREM AlwaysSellsAsPromised == Spec => SellsAsPromised
<1>1. Init => Promise!PromiseInit
  BY DEF Init, Promise!PromiseInit, Promise!Mode, Verifiers, finalBar, soldBar, Stored
<1>2. IInv /\ [Next]_vars => [Promise!PromiseNext]_(Promise!pvars)
  BY StepKeepsPromise
<1> QED
  BY <1>1, <1>2, InvariantHolds, PTL DEF Spec, SellsAsPromised, Promise!PromiseSpec

=============================================================================
