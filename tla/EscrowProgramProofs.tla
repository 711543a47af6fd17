-------------------------- MODULE EscrowProgramProofs --------------------------
(***************************************************************************)
(* Theorems about the on-chain program, for any number of jobs, wallets,   *)
(* keys and terms, and any width of the clock.                             *)
(***************************************************************************)
EXTENDS EscrowProgram, SettlementCoreProofs, FiniteSetTheorems

-----------------------------------------------------------------------------
(* What one instruction does to a job account *)

\* absorb_core writes back the whole transition: the fields it leaves alone are
\* the ones no transition changes.
LEMMA AbsorbIsExact ==
    ASSUME NEW j \in JobIds,
           jobs \in [JobIds -> Account \cup {None}],
           jobs[j] \in Account,
           NEW next \in Job, SameTerms(jobs[j].core, next)
    PROVE  /\ AbsorbCore(j, next) \in [JobIds -> Account \cup {None}]
           /\ AbsorbCore(j, next)[j] \in Account
           /\ AbsorbCore(j, next)[j].core = next
           /\ AbsorbCore(j, next)[j].buyer = jobs[j].buyer
           /\ AbsorbCore(j, next)[j].provider = jobs[j].provider
           /\ \A k \in JobIds \ {j} : AbsorbCore(j, next)[k] = jobs[k]
<1> DEFINE core == jobs[j].core
           new == [core EXCEPT !.state = next.state,
                               !.evidence_hash = next.evidence_hash,
                               !.review_deadline = next.review_deadline,
                               !.arbitration_deadline = next.arbitration_deadline]
<1>1. core \in Job
  BY DEF Account
<1>2. new = next
  BY <1>1 DEF Job, SameTerms
<1>3. AbsorbCore(j, next) = [jobs EXCEPT ![j] = [jobs[j] EXCEPT !.core = new]]
  BY DEF AbsorbCore, Account, Job
<1>4. [jobs[j] EXCEPT !.core = next] \in Account
  BY DEF Account
<1> QED
  BY <1>2, <1>3, <1>4 DEF Account

\* ApplyCore replaces the job by what Job::apply returned and touches nothing
\* else in the accounts.
LEMMA ApplyCoreEffect ==
    ASSUME TypeOK, NEW j \in JobIds, NEW event \in Event, ApplyCore(j, event)
    PROVE  /\ jobs[j] \in Account
           /\ ToCore(j) \in Job
           /\ Accepts(ToCore(j), event, clock)
           /\ jobs' \in [JobIds -> Account \cup {None}]
           /\ jobs'[j] \in Account
           /\ jobs'[j].core = Applied(ToCore(j), event, clock)
           /\ jobs'[j].buyer = jobs[j].buyer
           /\ jobs'[j].provider = jobs[j].provider
           /\ \A k \in JobIds \ {j} : jobs'[k] = jobs[k]
<1>1. jobs[j] \in Account /\ ToCore(j) \in Job
  BY DEF ApplyCore, Exists, TypeOK, Account, ToCore
<1>2. /\ Accepts(ToCore(j), event, clock)
      /\ jobs' = AbsorbCore(j, Applied(ToCore(j), event, clock))
  BY DEF ApplyCore
<1>3. /\ Applied(ToCore(j), event, clock) \in Job
      /\ SameTerms(ToCore(j), Applied(ToCore(j), event, clock))
  BY <1>1, <1>2, AppliedType, AppliedKeepsTerms DEF TypeOK
<1> QED
  BY <1>1, <1>2, <1>3, AbsorbIsExact DEF TypeOK, ToCore

\* The events the instructions apply are events of the core.
LEMMA EventsAreEvents ==
    /\ FundEvent \in Event
    /\ DisputeEvent \in Event
    /\ TimeoutEvent \in Event
    /\ \A h \in EvidenceHashes : SubmitEvent(h) \in Event
    /\ \A h \in EvidenceHashes, v \in Verdict :
          ReleaseEvent(h, v) \in Event /\ ResolveEvent(h, v) \in Event
  BY DEF Event, FundEvent, DisputeEvent, TimeoutEvent, SubmitEvent, ReleaseEvent,
         ResolveEvent

\* What create_job writes is a job account.
LEMMA CreatedIsAccount ==
    ASSUME NEW j \in JobIds, NEW p \in Parties, NEW terms \in JobTerms
    PROVE  [core |-> Created(j, terms.spec_hash, terms.amount, terms.verifier,
                             terms.arbiter, terms.windows),
            buyer |-> p, provider |-> terms.provider] \in Account
  BY JobTermsAssumption DEF Account, Created, Job, State

\* The accounts a settlement works on: the wallets themselves, or the wallets
\* once the transaction has opened the two it needs.
LEMMA OpenedWalletsType ==
    ASSUME TypeOK, NEW j \in JobIds
    PROVE  [p \in Parties |->
               IF p \in {jobs[j].buyer, jobs[j].provider} THEN Balance(p) ELSE wallet[p]]
           \in [Parties -> Nat \cup {None}]
  BY DEF TypeOK, Balance

\* A settlement pays the amount from the escrow into the payee's account.
LEMMA SettleEffect ==
    ASSUME TypeOK, NEW j \in JobIds, NEW event \in Event,
           NEW accounts \in [Parties -> Nat \cup {None}],
           SettleWith(j, event, accounts)
    PROVE  /\ ApplyCore(j, event)
           /\ ToCore(j).amount \in Nat
           /\ escrow[j] >= ToCore(j).amount
           /\ escrow' = [escrow EXCEPT ![j] = @ - ToCore(j).amount]
           /\ escrow' \in [JobIds -> Nat]
           /\ wallet' \in [Parties -> Nat \cup {None}]
           /\ UNCHANGED <<clock, donated, signed>>
           /\ signer' = None
<1> DEFINE payee == Destination(j, Applied(ToCore(j), event, clock).state)
<1>1. ApplyCore(j, event) /\ jobs[j] \in Account /\ ToCore(j) \in Job
  BY ApplyCoreEffect DEF SettleWith
<1>2. ToCore(j).amount \in Nat
  BY <1>1, AmountsAssumption DEF Job
<1>3. payee \in Parties /\ accounts[payee] \in Nat
  BY <1>1 DEF Destination, SettleWith, Account
<1>4. /\ escrow[j] >= ToCore(j).amount
      /\ escrow' = [escrow EXCEPT ![j] = @ - ToCore(j).amount]
      /\ wallet' = [accounts EXCEPT ![payee] = @ + ToCore(j).amount]
      /\ UNCHANGED <<clock, donated, signed>>
      /\ signer' = None
  BY DEF SettleWith
<1>5. escrow' \in [JobIds -> Nat]
  BY <1>2, <1>4 DEF TypeOK
<1>6. accounts[payee] + ToCore(j).amount \in Nat
  BY <1>2, <1>3
<1>7. wallet' \in [Parties -> Nat \cup {None}]
  BY <1>3, <1>4, <1>6
<1> QED
  BY <1>1, <1>2, <1>4, <1>5, <1>7

-----------------------------------------------------------------------------
(* Type correctness *)

\* Before the first transaction every value is of its type.
LEMMA InitType == Init => TypeOK
  BY MaxI64Assumption, TokensAssumption DEF Init, TypeOK, I64, MinI64

\* Every step of the program and of the world around it keeps the types.
LEMMA NextType == TypeOK /\ [Next]_vars => TypeOK'
<1> SUFFICES ASSUME TypeOK, [Next]_vars PROVE TypeOK'
  OBVIOUS
<1>1. ASSUME NEW j \in JobIds, NEW p \in Parties, NEW terms \in JobTerms,
             CreateJob(j, p, terms)
      PROVE  TypeOK'
  BY <1>1, CreatedIsAccount DEF CreateJob, TypeOK
<1>2. ASSUME NEW j \in JobIds, NEW p \in Parties, Fund(j, p)
      PROVE  TypeOK'
  <2>1. jobs' \in [JobIds -> Account \cup {None}] /\ ToCore(j) \in Job
    BY <1>2, EventsAreEvents, ApplyCoreEffect DEF Fund
  <2>2. ToCore(j).amount \in Nat
    BY <2>1, AmountsAssumption DEF Job
  <2>3. wallet[p] \in Nat /\ wallet[p] >= ToCore(j).amount
    BY <1>2 DEF Fund, TypeOK
  <2>4. wallet' \in [Parties -> Nat \cup {None}]
    <3>1. wallet[p] - ToCore(j).amount \in Nat
      BY <2>2, <2>3
    <3>2. wallet' = [wallet EXCEPT ![p] = wallet[p] - ToCore(j).amount]
      BY <1>2 DEF Fund
    <3> QED
      BY <3>1, <3>2 DEF TypeOK
  <2>5. escrow' \in [JobIds -> Nat]
    BY <1>2, <2>2 DEF Fund, TypeOK
  <2> QED
    BY <1>2, <2>1, <2>4, <2>5 DEF Fund, TypeOK
<1>3. ASSUME NEW j \in JobIds, NEW p \in Parties, Dispute(j, p)
      PROVE  TypeOK'
  BY <1>3, EventsAreEvents, ApplyCoreEffect DEF Dispute, TypeOK
<1>4. ASSUME NEW j \in JobIds, NEW p \in Parties, NEW h \in EvidenceHashes,
             SubmitEvidence(j, p, h)
      PROVE  TypeOK'
  BY <1>4, EventsAreEvents, ApplyCoreEffect DEF SubmitEvidence, TypeOK
<1>5. ASSUME NEW j \in JobIds, NEW event \in Event,
             NEW accounts \in [Parties -> Nat \cup {None}],
             SettleWith(j, event, accounts)
      PROVE  TypeOK'
  BY <1>5, SettleEffect, ApplyCoreEffect DEF TypeOK
<1>6. ASSUME NEW j \in JobIds, NEW h \in EvidenceHashes, NEW v \in Verdict,
             Release(j, h, v) \/ Resolve(j, h, v)
      PROVE  TypeOK'
  BY <1>5, <1>6, EventsAreEvents DEF Release, Resolve, TypeOK
<1>7. ASSUME NEW j \in JobIds, CrankTimeout(j) \/ OpenAndCrank(j)
      PROVE  TypeOK'
  <2>1. CASE CrankTimeout(j)
    BY <1>5, <2>1, EventsAreEvents DEF CrankTimeout, TypeOK
  <2>2. CASE OpenAndCrank(j)
    BY <1>5, <2>2, EventsAreEvents, OpenedWalletsType DEF OpenAndCrank
  <2> QED
    BY <1>7, <2>1, <2>2
<1>8. CASE Tick
  BY <1>8, MaxI64Assumption DEF Tick, TypeOK, I64, MinI64
<1>9. ASSUME NEW signature \in Signature, Sign(signature)
      PROVE  TypeOK'
  BY <1>9 DEF Sign, TypeOK
<1>10. ASSUME NEW p \in Parties, OpenWallet(p) \/ CloseWallet(p)
       PROVE  TypeOK'
  BY <1>10 DEF OpenWallet, CloseWallet, TypeOK
<1>11. ASSUME NEW p \in Parties, NEW j \in JobIds, Donate(p, j)
       PROVE  TypeOK'
  <2>1. wallet[p] \in Nat /\ wallet[p] > 0 /\ escrow[j] \in Nat /\ donated[j] \in Nat
    BY <1>11 DEF Donate, TypeOK
  <2>2. wallet[p] - 1 \in Nat /\ escrow[j] + 1 \in Nat /\ donated[j] + 1 \in Nat
    BY <2>1
  <2> QED
    BY <1>11, <2>2 DEF Donate, TypeOK
<1>12. CASE UNCHANGED vars
  BY <1>12 DEF vars, TypeOK
<1> QED
  BY <1>1, <1>2, <1>3, <1>4, <1>6, <1>7, <1>8, <1>9, <1>10, <1>11, <1>12
     DEF Next, World, Instruction

\* Every account, balance, clock reading and signature is of its type.
THEOREM TypeCorrect == Spec => []TypeOK
  BY InitType, NextType, PTL DEF Spec

-----------------------------------------------------------------------------
(* The job accounts *)

\* A step leaves the accounts alone, creates one, or applies one event to one.
LEMMA AccountSteps ==
    ASSUME TypeOK, [Next]_vars
    PROVE  \/ UNCHANGED jobs
           \/ \E j \in JobIds, p \in Parties, terms \in JobTerms : CreateJob(j, p, terms)
           \/ \E j \in JobIds, event \in Event : ApplyCore(j, event)
<1>1. ASSUME NEW j \in JobIds, NEW p \in Parties, Fund(j, p) \/ Dispute(j, p)
      PROVE  \E event \in Event : ApplyCore(j, event)
  BY <1>1, EventsAreEvents DEF Fund, Dispute
<1>2. ASSUME NEW j \in JobIds, NEW p \in Parties, NEW h \in EvidenceHashes,
             SubmitEvidence(j, p, h)
      PROVE  \E event \in Event : ApplyCore(j, event)
  BY <1>2, EventsAreEvents DEF SubmitEvidence
<1>3. ASSUME NEW j \in JobIds, NEW h \in EvidenceHashes, NEW v \in Verdict,
             Release(j, h, v) \/ Resolve(j, h, v)
      PROVE  \E event \in Event : ApplyCore(j, event)
  BY <1>3, EventsAreEvents DEF Release, Resolve, SettleWith
<1>4. ASSUME NEW j \in JobIds, CrankTimeout(j) \/ OpenAndCrank(j)
      PROVE  \E event \in Event : ApplyCore(j, event)
  BY <1>4, EventsAreEvents DEF CrankTimeout, OpenAndCrank, SettleWith
<1>5. CASE UNCHANGED vars
  BY <1>5 DEF vars
<1>6. CASE World
  BY <1>4, <1>6 DEF World, Tick, Sign, OpenWallet, CloseWallet, Donate
<1> QED
  BY <1>1, <1>2, <1>3, <1>4, <1>5, <1>6 DEF Next, Instruction

\* Every account stays the record of a history of accepted events.
LEMMA NextAccounts == TypeOK /\ AccountsAreJobs /\ [Next]_vars => AccountsAreJobs'
<1> SUFFICES ASSUME TypeOK, AccountsAreJobs, [Next]_vars PROVE AccountsAreJobs'
  OBVIOUS
<1> DEFINE Sound(k) == /\ jobs[k].core.job_id = k
                       /\ WellFormedJob(jobs[k].core)
                       /\ BoundedJob(jobs[k].core)
<1>0. /\ AccountsAreJobs <=> \A k \in JobIds : jobs[k] # None => Sound(k)
      /\ AccountsAreJobs' <=> \A k \in JobIds : jobs'[k] # None => Sound(k)'
  BY DEF AccountsAreJobs, Exists, ToCore
<1>1. CASE UNCHANGED jobs
  BY <1>0, <1>1
<1>2. ASSUME NEW j \in JobIds, NEW p \in Parties, NEW terms \in JobTerms,
             CreateJob(j, p, terms)
      PROVE  AccountsAreJobs'
  <2>1. jobs'[j].core = Created(j, terms.spec_hash, terms.amount, terms.verifier,
                                terms.arbiter, terms.windows)
    BY <1>2 DEF CreateJob, TypeOK
  <2>2. Sound(j)'
    BY <2>1 DEF Created, WellFormedJob, BoundedJob
  <2>3. \A k \in JobIds \ {j} : jobs'[k] = jobs[k]
    BY <1>2 DEF CreateJob, TypeOK
  <2> QED
    BY <1>0, <2>2, <2>3
<1>3. ASSUME NEW j \in JobIds, NEW event \in Event, ApplyCore(j, event)
      PROVE  AccountsAreJobs'
  <2>1. /\ jobs'[j].core = Applied(ToCore(j), event, clock)
        /\ Accepts(ToCore(j), event, clock)
        /\ ToCore(j) \in Job
        /\ \A k \in JobIds \ {j} : jobs'[k] = jobs[k]
    BY <1>3, ApplyCoreEffect
  <2>2. Sound(j)
    BY <1>0, <1>3 DEF ApplyCore, Exists
  <2>3. /\ WellFormedJob(jobs'[j].core)
        /\ BoundedJob(jobs'[j].core)
        /\ jobs'[j].core.job_id = j
    BY <2>1, <2>2, AppliedWellFormed, AppliedBounded, AppliedKeepsTerms
       DEF TypeOK, ToCore, SameTerms
  <2> QED
    BY <1>0, <2>1, <2>3
<1> QED
  BY <1>1, <1>2, <1>3, AccountSteps

\* What to_core reads back is a job of the core's proofs, under its own id.
THEOREM AccountsAlwaysJobs == Spec => []AccountsAreJobs
<1>1. Init => AccountsAreJobs
  BY DEF Init, AccountsAreJobs, Exists
<1> QED
  BY <1>1, NextAccounts, TypeCorrect, PTL DEF Spec

-----------------------------------------------------------------------------
(* The reason *)

\* EndedForCause, as a fact about a job, a clock and the signatures in the world.
Cause(job, j, now, signatures) ==
    LET says(key, domain, v) ==
            [key |-> key,
             message |-> [domain |-> domain, job_id |-> j, spec_hash |-> job.spec_hash,
                          evidence_hash |-> job.evidence_hash, verdict |-> v]] \in signatures
        disputed == job.arbitration_deadline # None
    IN  /\ job.state = "Released" =>
              /\ job.evidence_hash # None
              /\ IF disputed
                 THEN says(job.arbiter, "ruling", "Pass") \/ now > job.arbitration_deadline
                 ELSE says(job.verifier, "attestation", "Pass") \/ now > job.review_deadline
        /\ job.state = "Refunded" =>
              IF job.evidence_hash = None
              THEN now > job.windows.evidence_deadline
              ELSE IF disputed THEN says(job.arbiter, "ruling", "Fail")
                               ELSE says(job.verifier, "attestation", "Fail")

\* SettledForCause, in terms of Cause, before and after a step.
LEMMA CauseIsEndedForCause ==
    /\ SettledForCause
         <=> \A j \in JobIds : jobs[j] # None => Cause(jobs[j].core, j, clock, signed)
    /\ SettledForCause'
         <=> \A j \in JobIds : jobs'[j] # None => Cause(jobs'[j].core, j, clock', signed')
  BY DEF SettledForCause, EndedForCause, Cause, VerifierSaid, ArbiterSaid, Said, Exists, ToCore

\* A reason stays one: the clock does not go back and signatures do not vanish.
LEMMA CauseStays ==
    ASSUME NEW job \in Job, NEW j, NEW now \in I64, NEW later \in I64, now <= later,
           NEW few, NEW more, few \subseteq more,
           WellFormedJob(job), Cause(job, j, now, few)
    PROVE  Cause(job, j, later, more)
<1>1. /\ job.state = "Released" => job.review_deadline \in I64
      /\ job.arbitration_deadline # None => job.arbitration_deadline \in I64
      /\ job.windows.evidence_deadline \in I64
  BY DEF Job, Windows, WellFormedJob
<1>2. \A d \in I64 : now > d => later > d
  BY MaxI64Assumption DEF I64, MinI64
<1> QED
  BY <1>1, <1>2 DEF Cause

\* An accepted event that settles a job gives the reason.
LEMMA CauseIsGiven ==
    ASSUME NEW job \in Job, NEW event \in Event, NEW now \in I64, NEW signatures,
           Accepts(job, event, now), WellFormedJob(job),
           event.type = "Release" =>
               AttestationFor(job, event.evidence_hash, event.verdict) \in signatures,
           event.type = "Resolve" =>
               RulingFor(job, event.evidence_hash, event.verdict) \in signatures
    PROVE  Cause(Applied(job, event, now), job.job_id, now, signatures)
<1> DEFINE next == Applied(job, event, now)
<1> SUFFICES Cause(next, job.job_id, now, signatures)
  OBVIOUS
<1>1. SameTerms(job, next)
  BY AppliedKeepsTerms
<1>2. CASE next.state \notin Settled
  BY <1>2 DEF Cause, Settled
<1>3. CASE next.state \in Settled
  <2>1. /\ job.state \in Locked
        /\ next.evidence_hash = job.evidence_hash
        /\ next.review_deadline = job.review_deadline
        /\ next.arbitration_deadline = job.arbitration_deadline
    BY <1>3, AcceptedEdges DEF Settled
  <2>2. /\ job.state = "Funded" => job.evidence_hash = None
        /\ job.state \in {"UnderReview", "Disputed"} => job.evidence_hash # None
        /\ job.state = "Disputed" <=> job.arbitration_deadline # None
    BY <2>1 DEF WellFormedJob, Locked
  <2>3. CASE event.type = "Release"
    <3>1. /\ job.state = "UnderReview"
          /\ event.evidence_hash = job.evidence_hash
          /\ next.state = SettledBy(event.verdict)
      BY <2>3, AcceptedByType
    <3>2. event.verdict = IF next.state = "Released" THEN "Pass" ELSE "Fail"
      BY <2>3, <3>1 DEF SettledBy, Event, Verdict
    <3> HIDE DEF next
    <3>3. [key |-> next.verifier,
           message |-> [domain |-> "attestation", job_id |-> job.job_id,
                        spec_hash |-> next.spec_hash, evidence_hash |-> next.evidence_hash,
                        verdict |-> event.verdict]] \in signatures
      BY <1>1, <2>1, <2>3, <3>1
         DEF AttestationFor, AttestationMessage, SignedVerdictMessage, SameTerms
    <3> QED
      BY <2>1, <2>2, <3>1, <3>2, <3>3 DEF Cause
  <2>4. CASE event.type = "Resolve"
    <3>1. /\ job.state = "Disputed"
          /\ event.evidence_hash = job.evidence_hash
          /\ next.state = SettledBy(event.verdict)
      BY <2>4, AcceptedByType
    <3>2. event.verdict = IF next.state = "Released" THEN "Pass" ELSE "Fail"
      BY <2>4, <3>1 DEF SettledBy, Event, Verdict
    <3> HIDE DEF next
    <3>3. [key |-> next.arbiter,
           message |-> [domain |-> "ruling", job_id |-> job.job_id,
                        spec_hash |-> next.spec_hash, evidence_hash |-> next.evidence_hash,
                        verdict |-> event.verdict]] \in signatures
      BY <1>1, <2>1, <2>4, <3>1
         DEF RulingFor, RulingMessage, SignedVerdictMessage, SameTerms
    <3> QED
      BY <2>1, <2>2, <3>1, <3>2, <3>3 DEF Cause
  <2>5. CASE event.type = "Timeout"
    <3>1. /\ next.state = LapsesTo(job.state)
          /\ now > Deadline(job)
      BY <2>5, AcceptedByType
    <3> HIDE DEF next
    <3> QED
      BY <1>1, <2>1, <2>2, <3>1 DEF Cause, LapsesTo, Deadline, Locked, SameTerms
  <2> QED
    BY <1>3, <2>3, <2>4, <2>5, AcceptedByType DEF Event, Settled
<1> QED
  BY <1>2, <1>3

\* Every step keeps every settled job's reason on show.
LEMMA NextCause ==
    TypeOK /\ AccountsAreJobs /\ SettledForCause /\ [Next]_vars => SettledForCause'
<1> SUFFICES ASSUME TypeOK, AccountsAreJobs, SettledForCause, [Next]_vars
             PROVE  SettledForCause'
  OBVIOUS
<1>1. ASSUME NEW k \in JobIds, jobs[k] # None
      PROVE  /\ jobs[k].core \in Job
             /\ jobs[k].core.job_id = k
             /\ WellFormedJob(jobs[k].core)
             /\ Cause(jobs[k].core, k, clock, signed)
  BY <1>1, CauseIsEndedForCause DEF TypeOK, Account, AccountsAreJobs, Exists, ToCore
<1>2. ASSUME UNCHANGED jobs, clock' \in I64, clock <= clock', signed \subseteq signed'
      PROVE  SettledForCause'
  <2>1. ASSUME NEW k \in JobIds, jobs'[k] # None
        PROVE  Cause(jobs'[k].core, k, clock', signed')
    BY <1>1, <1>2, <2>1, CauseStays DEF TypeOK
  <2> QED
    BY <2>1, CauseIsEndedForCause
<1>3. ASSUME NEW j \in JobIds, NEW event \in Event, ApplyCore(j, event),
             event.type = "Release" =>
                 AttestationFor(ToCore(j), event.evidence_hash, event.verdict) \in signed,
             event.type = "Resolve" =>
                 RulingFor(ToCore(j), event.evidence_hash, event.verdict) \in signed,
             UNCHANGED <<clock, signed>>
      PROVE  SettledForCause'
  <2>1. /\ jobs'[j].core = Applied(ToCore(j), event, clock)
        /\ Accepts(ToCore(j), event, clock)
        /\ \A k \in JobIds \ {j} : jobs'[k] = jobs[k]
    BY <1>3, ApplyCoreEffect
  <2>2. ToCore(j) \in Job /\ ToCore(j).job_id = j /\ WellFormedJob(ToCore(j))
    BY <1>1, <1>3 DEF ApplyCore, Exists, ToCore
  <2>3. Cause(jobs'[j].core, j, clock, signed)
    BY <1>3, <2>1, <2>2, CauseIsGiven DEF TypeOK
  <2> QED
    BY <1>1, <1>3, <2>1, <2>3, CauseIsEndedForCause
<1>4. ASSUME NEW j \in JobIds, NEW p \in Parties, NEW terms \in JobTerms,
             CreateJob(j, p, terms)
      PROVE  SettledForCause'
  <2>1. /\ jobs'[j].core.state = "Created"
        /\ \A k \in JobIds \ {j} : jobs'[k] = jobs[k]
        /\ UNCHANGED <<clock, signed>>
    BY <1>4 DEF CreateJob, Created, TypeOK
  <2>2. Cause(jobs'[j].core, j, clock, signed)
    BY <2>1 DEF Cause
  <2> QED
    BY <1>1, <2>1, <2>2, CauseIsEndedForCause
<1>5. ASSUME NEW j \in JobIds, NEW p \in Parties,
             \/ Fund(j, p)
             \/ Dispute(j, p)
             \/ \E h \in EvidenceHashes : SubmitEvidence(j, p, h)
      PROVE  SettledForCause'
  <2>1. /\ FundEvent.type = "Fund" /\ DisputeEvent.type = "Dispute"
        /\ \A h \in EvidenceHashes : SubmitEvent(h).type = "SubmitEvidence"
    BY DEF FundEvent, DisputeEvent, SubmitEvent
  <2>2. CASE Fund(j, p)
    BY <1>3, <2>1, <2>2, EventsAreEvents DEF Fund
  <2>3. CASE Dispute(j, p)
    BY <1>3, <2>1, <2>3, EventsAreEvents DEF Dispute
  <2>4. ASSUME NEW h \in EvidenceHashes, SubmitEvidence(j, p, h)
        PROVE  SettledForCause'
    BY <1>3, <2>1, <2>4, EventsAreEvents DEF SubmitEvidence
  <2> QED
    BY <1>5, <2>2, <2>3, <2>4
<1>6. ASSUME NEW j \in JobIds, NEW h \in EvidenceHashes, NEW v \in Verdict,
             Release(j, h, v) \/ Resolve(j, h, v)
      PROVE  SettledForCause'
  <2>1. /\ ReleaseEvent(h, v) = [type |-> "Release", evidence_hash |-> h, verdict |-> v]
        /\ ResolveEvent(h, v) = [type |-> "Resolve", evidence_hash |-> h, verdict |-> v]
    BY DEF ReleaseEvent, ResolveEvent
  <2>2. CASE Release(j, h, v)
    <3>1. /\ ApplyCore(j, ReleaseEvent(h, v))
          /\ AttestationFor(ToCore(j), h, v) \in signed
          /\ UNCHANGED <<clock, signed>>
      BY <2>2 DEF Release, SettleWith
    <3> QED
      BY <1>3, <2>1, <3>1, EventsAreEvents
  <2>3. CASE Resolve(j, h, v)
    <3>1. /\ ApplyCore(j, ResolveEvent(h, v))
          /\ RulingFor(ToCore(j), h, v) \in signed
          /\ UNCHANGED <<clock, signed>>
      BY <2>3 DEF Resolve, SettleWith
    <3> QED
      BY <1>3, <2>1, <3>1, EventsAreEvents
  <2> QED
    BY <1>6, <2>2, <2>3
<1>7. ASSUME NEW j \in JobIds, CrankTimeout(j) \/ OpenAndCrank(j)
      PROVE  SettledForCause'
  <2>1. TimeoutEvent.type = "Timeout"
    BY DEF TimeoutEvent
  <2>2. ApplyCore(j, TimeoutEvent) /\ UNCHANGED <<clock, signed>>
    BY <1>7 DEF CrankTimeout, OpenAndCrank, SettleWith
  <2> QED
    BY <1>3, <2>1, <2>2, EventsAreEvents
<1>8. CASE Tick
  BY <1>2, <1>8, MaxI64Assumption DEF Tick, TypeOK, I64, MinI64
<1>9. CASE UNCHANGED <<jobs, clock>> /\ signed \subseteq signed'
  BY <1>2, <1>9, MaxI64Assumption DEF TypeOK, I64, MinI64
<1> QED
  BY <1>4, <1>5, <1>6, <1>7, <1>8, <1>9
     DEF Next, World, Instruction, Sign, OpenWallet, CloseWallet, Donate, vars

\* Every settled job shows why it ended as it did: the signed verdict of the
\* judge whose turn it was, or a clock that has run out in favour of the side
\* the terms name.
THEOREM AlwaysSettledForCause == Spec => []SettledForCause
<1>1. Init => SettledForCause
  BY DEF Init, SettledForCause, Exists
<1> QED
  BY <1>1, NextCause, AccountsAlwaysJobs, TypeCorrect, PTL DEF Spec

-----------------------------------------------------------------------------
(* The money *)

\* What an escrow owes its job's parties in the present state.
Owed(account) ==
    IF account # None /\ account.core.state \in Locked THEN account.core.amount ELSE 0

\* An accepted event other than funding and settling leaves the debt as it is;
\* funding creates it and a settlement discharges it.
LEMMA OwedEffect ==
    ASSUME TypeOK, NEW j \in JobIds, NEW event \in Event, ApplyCore(j, event)
    PROVE  /\ event.type = "Fund" =>
                Owed(jobs[j]) = 0 /\ Owed(jobs'[j]) = ToCore(j).amount
           /\ event.type \in {"SubmitEvidence", "Dispute"} =>
                Owed(jobs'[j]) = Owed(jobs[j])
           /\ event.type \in {"Release", "Resolve", "Timeout"} =>
                Owed(jobs[j]) = ToCore(j).amount /\ Owed(jobs'[j]) = 0
<1> DEFINE before == ToCore(j)
           after == jobs'[j].core
<1>1. /\ before \in Job
      /\ Accepts(before, event, clock)
      /\ after = Applied(before, event, clock)
      /\ jobs[j] # None
      /\ jobs'[j] # None
      /\ clock \in I64
  BY ApplyCoreEffect, NoneIsNoAccount DEF ApplyCore, Exists, TypeOK
<1>2. after.amount = before.amount
  BY <1>1, AppliedKeepsTerms DEF SameTerms
<1>3. /\ Owed(jobs[j]) = IF before.state \in Locked THEN before.amount ELSE 0
      /\ Owed(jobs'[j]) = IF after.state \in Locked THEN before.amount ELSE 0
  BY <1>1, <1>2 DEF Owed, ToCore
<1> HIDE DEF before, after
<1>4. /\ event.type = "Fund" => before.state \notin Locked /\ after.state \in Locked
      /\ event.type \in {"SubmitEvidence", "Dispute"} =>
            before.state \in Locked /\ after.state \in Locked
      /\ event.type \in {"Release", "Resolve", "Timeout"} =>
            before.state \in Locked /\ after.state \notin Locked
  BY <1>1, AcceptedByType DEF Locked, Settled
<1> QED
  BY <1>3, <1>4 DEF before

\* The escrow of job j holds what is owed to its parties and what strangers
\* added.
LEMMA EscrowAsOwed ==
    /\ EscrowMatchesState
         <=> \A j \in JobIds : escrow[j] = donated[j] + Owed(jobs[j])
    /\ EscrowMatchesState'
         <=> \A j \in JobIds : escrow'[j] = donated'[j] + Owed(jobs'[j])
  BY DEF EscrowMatchesState, Owed, Exists, ToCore

\* A settlement takes out of the escrow exactly what was owed.
LEMMA SettleKeepsMoney ==
    ASSUME TypeOK, EscrowMatchesState, NEW j \in JobIds, NEW event \in Event,
           event.type \in {"Release", "Resolve", "Timeout"},
           NEW accounts \in [Parties -> Nat \cup {None}],
           SettleWith(j, event, accounts)
    PROVE  EscrowMatchesState'
<1>1. /\ ApplyCore(j, event)
      /\ ToCore(j).amount \in Nat
      /\ escrow' = [escrow EXCEPT ![j] = @ - ToCore(j).amount]
      /\ donated' = donated
  BY SettleEffect
<1>2. \A k \in JobIds \ {j} : jobs'[k] = jobs[k]
  BY <1>1, ApplyCoreEffect
<1>3. Owed(jobs[j]) = ToCore(j).amount /\ Owed(jobs'[j]) = 0
  BY <1>1, OwedEffect
<1>4. escrow[j] = donated[j] + ToCore(j).amount
  BY <1>3, EscrowAsOwed
<1>5. escrow'[j] = donated'[j] + Owed(jobs'[j])
  BY <1>1, <1>3, <1>4 DEF TypeOK
<1>6. \A k \in JobIds \ {j} : escrow'[k] = donated'[k] + Owed(jobs'[k])
  BY <1>1, <1>2, EscrowAsOwed DEF TypeOK
<1> QED
  BY <1>5, <1>6, EscrowAsOwed

\* Every step keeps each escrow in agreement with its job.
LEMMA NextMoney == TypeOK /\ EscrowMatchesState /\ [Next]_vars => EscrowMatchesState'
<1> SUFFICES ASSUME TypeOK, EscrowMatchesState, [Next]_vars PROVE EscrowMatchesState'
  OBVIOUS
<1>1. ASSUME NEW j \in JobIds, NEW p \in Parties, NEW terms \in JobTerms,
             CreateJob(j, p, terms)
      PROVE  EscrowMatchesState'
  <2>1. /\ jobs[j] = None
        /\ jobs'[j].core.state = "Created"
        /\ \A k \in JobIds \ {j} : jobs'[k] = jobs[k]
        /\ UNCHANGED <<escrow, donated>>
    BY <1>1 DEF CreateJob, Exists, Created, TypeOK
  <2>2. Owed(jobs[j]) = 0 /\ Owed(jobs'[j]) = 0
    BY <2>1 DEF Owed, Locked
  <2> QED
    BY <2>1, <2>2, EscrowAsOwed
<1>2. ASSUME NEW j \in JobIds, NEW p \in Parties, Fund(j, p)
      PROVE  EscrowMatchesState'
  <2>1. /\ ApplyCore(j, FundEvent)
        /\ FundEvent \in Event
        /\ FundEvent.type = "Fund"
        /\ escrow' = [escrow EXCEPT ![j] = @ + ToCore(j).amount]
        /\ donated' = donated
    BY <1>2, EventsAreEvents DEF Fund, FundEvent
  <2>2. /\ \A k \in JobIds \ {j} : jobs'[k] = jobs[k]
        /\ ToCore(j).amount \in Nat
    BY <2>1, ApplyCoreEffect, AmountsAssumption DEF Job
  <2>3. Owed(jobs[j]) = 0 /\ Owed(jobs'[j]) = ToCore(j).amount
    BY <2>1, OwedEffect
  <2>4. escrow'[j] = donated'[j] + Owed(jobs'[j])
    BY <2>1, <2>2, <2>3, EscrowAsOwed DEF TypeOK
  <2>5. \A k \in JobIds \ {j} : escrow'[k] = donated'[k] + Owed(jobs'[k])
    BY <2>1, <2>2, EscrowAsOwed DEF TypeOK
  <2> QED
    BY <2>4, <2>5, EscrowAsOwed
<1>3. ASSUME NEW j \in JobIds, NEW event \in Event, ApplyCore(j, event),
             event.type \in {"SubmitEvidence", "Dispute"}, UNCHANGED <<escrow, donated>>
      PROVE  EscrowMatchesState'
  BY <1>3, OwedEffect, ApplyCoreEffect, EscrowAsOwed
<1>4. ASSUME NEW j \in JobIds, NEW p \in Parties, Dispute(j, p)
      PROVE  EscrowMatchesState'
  <2>1. DisputeEvent \in Event /\ DisputeEvent.type = "Dispute"
    BY EventsAreEvents DEF DisputeEvent
  <2> QED
    BY <1>3, <1>4, <2>1 DEF Dispute
<1>5. ASSUME NEW j \in JobIds, NEW p \in Parties, NEW h \in EvidenceHashes,
             SubmitEvidence(j, p, h)
      PROVE  EscrowMatchesState'
  <2>1. SubmitEvent(h) \in Event /\ SubmitEvent(h).type = "SubmitEvidence"
    BY EventsAreEvents DEF SubmitEvent
  <2> QED
    BY <1>3, <1>5, <2>1 DEF SubmitEvidence
<1>6. ASSUME NEW j \in JobIds, NEW h \in EvidenceHashes, NEW v \in Verdict,
             Release(j, h, v) \/ Resolve(j, h, v)
      PROVE  EscrowMatchesState'
  <2>1. /\ ReleaseEvent(h, v) \in Event /\ ReleaseEvent(h, v).type = "Release"
        /\ ResolveEvent(h, v) \in Event /\ ResolveEvent(h, v).type = "Resolve"
    BY EventsAreEvents DEF ReleaseEvent, ResolveEvent
  <2> QED
    BY <1>6, <2>1, SettleKeepsMoney DEF Release, Resolve, TypeOK
<1>7. ASSUME NEW j \in JobIds, CrankTimeout(j) \/ OpenAndCrank(j)
      PROVE  EscrowMatchesState'
  <2>1. TimeoutEvent \in Event /\ TimeoutEvent.type = "Timeout"
    BY EventsAreEvents DEF TimeoutEvent
  <2>2. CASE CrankTimeout(j)
    BY <2>1, <2>2, SettleKeepsMoney DEF CrankTimeout, TypeOK
  <2>3. CASE OpenAndCrank(j)
    BY <2>1, <2>3, SettleKeepsMoney, OpenedWalletsType DEF OpenAndCrank
  <2> QED
    BY <1>7, <2>2, <2>3
<1>8. ASSUME NEW p \in Parties, NEW j \in JobIds, Donate(p, j)
      PROVE  EscrowMatchesState'
  <2>1. /\ escrow' = [escrow EXCEPT ![j] = @ + 1]
        /\ donated' = [donated EXCEPT ![j] = @ + 1]
        /\ jobs' = jobs
    BY <1>8 DEF Donate
  <2>2. \A k \in JobIds : Owed(jobs[k]) \in Nat
    BY AmountsAssumption DEF Owed, TypeOK, Account, Job
  <2>3. \A k \in JobIds : escrow'[k] = donated'[k] + Owed(jobs'[k])
    BY <2>1, <2>2, EscrowAsOwed DEF TypeOK
  <2> QED
    BY <2>3, EscrowAsOwed
<1>9. CASE UNCHANGED <<jobs, escrow, donated>>
  BY <1>9, EscrowAsOwed
<1> QED
  BY <1>1, <1>2, <1>4, <1>5, <1>6, <1>7, <1>8, <1>9
     DEF Next, World, Instruction, Tick, Sign, OpenWallet, CloseWallet, vars

\* Each escrow holds its job's amount while the job is funded and unsettled, and
\* nothing of it otherwise: no job is funded twice, paid twice, or paid from
\* another job's escrow.
THEOREM MoneyMatchesState == Spec => []EscrowMatchesState
<1>1. Init => EscrowMatchesState
  BY DEF Init, EscrowMatchesState, Exists
<1> QED
  BY <1>1, NextMoney, TypeCorrect, PTL DEF Spec

\* Once everything the terms agreed on has passed, the timeout is open, and the
\* escrow has the money: it holds the amount as long as the job is locked.
LEMMA WindowsBoundTheLock ==
    TypeOK /\ AccountsAreJobs /\ EscrowMatchesState => TermsBoundTheLock
<1> SUFFICES ASSUME TypeOK, AccountsAreJobs, EscrowMatchesState, NEW j \in JobIds, Exists(j),
                    ToCore(j).state \in Locked,
                    clock > ToCore(j).windows.evidence_deadline,
                    clock > LastReview(ToCore(j).windows),
                    clock > LastRuling(ToCore(j).windows)
             PROVE  /\ Accepts(ToCore(j), TimeoutEvent, clock)
                    /\ escrow[j] >= ToCore(j).amount
  BY DEF TermsBoundTheLock
<1> DEFINE core == ToCore(j)
<1>1. core \in Job /\ WellFormedJob(core) /\ BoundedJob(core)
  BY DEF TypeOK, AccountsAreJobs, Account, Exists, ToCore
<1> HIDE DEF core
<1>2. core.windows.evidence_deadline \in I64 /\ clock \in I64
  BY <1>1 DEF Job, Windows, TypeOK
<1>3. LastReview(core.windows) \in I64 /\ LastRuling(core.windows) \in I64
  BY <1>1, SaturatingAddType DEF LastReview, LastRuling, Job, Windows
<1>4. Deadline(core) # None /\ Deadline(core) \in I64 /\ clock > Deadline(core)
  <2>1. CASE core.state = "Funded"
    BY <1>2, <2>1, NoneAssumption, MaxI64Assumption DEF Deadline, I64, MinI64, core
  <2>2. CASE core.state = "UnderReview"
    <3>1. core.review_deadline # None /\ core.review_deadline \in I64
      BY <1>1, <2>2 DEF WellFormedJob, Job
    <3>2. core.review_deadline <= LastReview(core.windows)
      BY <1>1, <3>1 DEF BoundedJob
    <3>3. Deadline(core) = core.review_deadline
      BY <2>2 DEF Deadline
    <3> QED
      BY <1>2, <1>3, <3>1, <3>2, <3>3, MaxI64Assumption DEF I64, MinI64, core
  <2>3. CASE core.state = "Disputed"
    <3>1. core.arbitration_deadline # None /\ core.arbitration_deadline \in I64
      BY <1>1, <2>3 DEF WellFormedJob, Job
    <3>2. core.arbitration_deadline <= LastRuling(core.windows)
      BY <1>1, <3>1 DEF BoundedJob
    <3>3. Deadline(core) = core.arbitration_deadline
      BY <2>3 DEF Deadline
    <3> QED
      BY <1>2, <1>3, <3>1, <3>2, <3>3, MaxI64Assumption DEF I64, MinI64, core
  <2> QED
    BY <2>1, <2>2, <2>3 DEF Locked, core
<1>5. <<core.state, TimeoutEvent.type>> \in Legal /\ TimeoutEvent.type = "Timeout"
  BY DEF Legal, Locked, TimeoutEvent, core
<1>6. Accepts(ToCore(j), TimeoutEvent, clock)
  BY <1>4, <1>5 DEF Accepts, Expired, core
<1>7. escrow[j] >= ToCore(j).amount
  <2>1. donated[j] \in Nat /\ ToCore(j).amount \in Nat
    BY <1>1, AmountsAssumption DEF TypeOK, Job, core
  <2> QED
    BY <2>1 DEF EscrowMatchesState
<1> QED
  BY <1>6, <1>7

\* Nobody can keep money locked beyond what the terms agreed on, in any history
\* of the program.
THEOREM TermsAlwaysBoundTheLock == Spec => []TermsBoundTheLock
  BY WindowsBoundTheLock, TypeCorrect, AccountsAlwaysJobs, MoneyMatchesState, PTL

-----------------------------------------------------------------------------
(* What a step may do: payouts and owners *)

\* What a settlement does to one wallet, for the accounts it may work on: the
\* wallets themselves, or these with closed ones opened.
LEMMA SettlePays ==
    ASSUME TypeOK, NEW j \in JobIds, NEW event \in Event,
           NEW accounts \in [Parties -> Nat \cup {None}],
           \A p \in Parties : accounts[p] = wallet[p] \/ (wallet[p] = None /\ accounts[p] = 0),
           SettleWith(j, event, accounts)
    PROVE  LET payee == IF jobs'[j].core.state = "Released"
                        THEN jobs[j].provider ELSE jobs[j].buyer
           IN  \A p \in Parties :
                  /\ Balance(p)' = Balance(p) + IF p = payee THEN ToCore(j).amount ELSE 0
                  /\ wallet[p] # None => wallet'[p] # None /\ wallet'[p] >= wallet[p]
<1> DEFINE payee == IF jobs'[j].core.state = "Released"
                    THEN jobs[j].provider ELSE jobs[j].buyer
<1>1. /\ ToCore(j).amount \in Nat
      /\ ApplyCore(j, event)
  BY SettleEffect
<1>2. /\ jobs[j] \in Account
      /\ jobs'[j].core = Applied(ToCore(j), event, clock)
  BY <1>1, ApplyCoreEffect
<1>3. Destination(j, Applied(ToCore(j), event, clock).state) = payee
  BY <1>2 DEF Destination
<1>4. /\ payee \in Parties
      /\ accounts[payee] \in Nat
  BY <1>2, <1>3 DEF SettleWith, Account
<1>5. wallet' = [accounts EXCEPT ![payee] = accounts[payee] + ToCore(j).amount]
  BY <1>3 DEF SettleWith
<1> HIDE DEF payee
<1>6. ASSUME NEW p \in Parties
      PROVE  /\ Balance(p)' = Balance(p) + IF p = payee THEN ToCore(j).amount ELSE 0
             /\ wallet[p] # None => wallet'[p] # None /\ wallet'[p] >= wallet[p]
  <2>1. wallet'[p] = IF p = payee THEN accounts[p] + ToCore(j).amount ELSE accounts[p]
    BY <1>4, <1>5
  <2>2. wallet[p] \in Nat \cup {None}
    BY DEF TypeOK
  <2>3. CASE p = payee
    <3>1. wallet'[p] = accounts[p] + ToCore(j).amount /\ accounts[p] \in Nat
      BY <1>4, <2>1, <2>3
    <3>2. wallet'[p] \in Nat /\ None \notin Nat
      BY <1>1, <3>1, TokensAssumption
    <3> QED
      BY <1>1, <2>2, <2>3, <3>1, <3>2 DEF Balance
  <2>4. CASE p # payee
    <3>1. wallet'[p] = accounts[p]
      BY <2>1, <2>4
    <3>2. Balance(p) \in Nat /\ Balance(p)' = Balance(p)
      BY <2>2, <3>1, TokensAssumption DEF Balance
    <3> QED
      BY <2>2, <2>4, <3>1, <3>2
  <2> QED
    BY <2>3, <2>4
<1> QED
  BY <1>6 DEF payee

\* The three ways to a settlement, in the form the lemmas ask for.
LEMMA Settlements ==
    ASSUME TypeOK, NEW j \in JobIds,
           \/ \E h \in EvidenceHashes, v \in Verdict : Release(j, h, v) \/ Resolve(j, h, v)
           \/ CrankTimeout(j)
           \/ OpenAndCrank(j)
    PROVE  \E event \in Event, accounts \in [Parties -> Nat \cup {None}] :
              /\ event.type \in {"Release", "Resolve", "Timeout"}
              /\ \A p \in Parties :
                    accounts[p] = wallet[p] \/ (wallet[p] = None /\ accounts[p] = 0)
              /\ SettleWith(j, event, accounts)
<1>1. wallet \in [Parties -> Nat \cup {None}]
  BY DEF TypeOK
<1>2. ASSUME NEW h \in EvidenceHashes, NEW v \in Verdict, Release(j, h, v) \/ Resolve(j, h, v)
      PROVE  \E event \in Event :
                event.type \in {"Release", "Resolve", "Timeout"} /\ SettleWith(j, event, wallet)
  <2>1. /\ ReleaseEvent(h, v) \in Event /\ ReleaseEvent(h, v).type = "Release"
        /\ ResolveEvent(h, v) \in Event /\ ResolveEvent(h, v).type = "Resolve"
    BY EventsAreEvents DEF ReleaseEvent, ResolveEvent
  <2> QED
    BY <1>2, <2>1 DEF Release, Resolve
<1>3. TimeoutEvent \in Event /\ TimeoutEvent.type = "Timeout"
  BY EventsAreEvents DEF TimeoutEvent
<1>4. CASE CrankTimeout(j)
  BY <1>1, <1>3, <1>4 DEF CrankTimeout
<1>5. CASE OpenAndCrank(j)
  <2> DEFINE accounts == [p \in Parties |->
                 IF p \in {jobs[j].buyer, jobs[j].provider} THEN Balance(p) ELSE wallet[p]]
  <2>1. accounts \in [Parties -> Nat \cup {None}]
    BY OpenedWalletsType
  <2>2. \A p \in Parties : accounts[p] = wallet[p] \/ (wallet[p] = None /\ accounts[p] = 0)
    BY DEF Balance
  <2>3. SettleWith(j, TimeoutEvent, accounts)
    BY <1>5 DEF OpenAndCrank
  <2> HIDE DEF accounts
  <2> QED
    BY <1>3, <2>1, <2>2, <2>3
<1> QED
  BY <1>1, <1>2, <1>4, <1>5

\* A step is a settlement of one job, or pays nothing out of any escrow.
LEMMA PayingSteps ==
    ASSUME TypeOK, [Next]_vars
    PROVE  \/ \E j \in JobIds, event \in Event, accounts \in [Parties -> Nat \cup {None}] :
                /\ event.type \in {"Release", "Resolve", "Timeout"}
                /\ \A p \in Parties :
                      accounts[p] = wallet[p] \/ (wallet[p] = None /\ accounts[p] = 0)
                /\ SettleWith(j, event, accounts)
           \/ \A k \in JobIds : escrow'[k] >= escrow[k]
<1>1. ASSUME NEW j \in JobIds, NEW p \in Parties, Fund(j, p)
      PROVE  \A k \in JobIds : escrow'[k] >= escrow[k]
  <2>1. ToCore(j).amount \in Nat
    BY <1>1, EventsAreEvents, ApplyCoreEffect, AmountsAssumption DEF Fund, Job
  <2> QED
    BY <1>1, <2>1 DEF Fund, TypeOK
<1>2. ASSUME NEW p \in Parties, NEW j \in JobIds, Donate(p, j)
      PROVE  \A k \in JobIds : escrow'[k] >= escrow[k]
  BY <1>2 DEF Donate, TypeOK
<1>3. CASE UNCHANGED escrow
  BY <1>3 DEF TypeOK
<1> QED
  BY <1>1, <1>2, <1>3, Settlements
     DEF Next, World, Instruction, CreateJob, Dispute, SubmitEvidence, Tick, Sign,
         OpenWallet, CloseWallet, vars

\* Tokens leave an escrow only as the one settlement of its job, whole, to the
\* party its outcome names and to no account besides.
THEOREM PayoutsAlwaysSettlements == Spec => PayoutsAreSettlements
<1> DEFINE Payout(j) ==
              LET before == jobs[j]
                  after == jobs'[j]
                  payee == IF after.core.state = "Released" THEN before.provider
                                                            ELSE before.buyer
              IN  /\ before.core.state \in Locked
                  /\ after.core.state \in Settled
                  /\ escrow[j] - escrow'[j] = before.core.amount
                  /\ \A p \in Parties :
                        Balance(p)' = Balance(p) + IF p = payee THEN before.core.amount ELSE 0
                  /\ \A k \in JobIds \ {j} : escrow'[k] = escrow[k]
           Payouts == \A j \in JobIds : escrow'[j] < escrow[j] => Payout(j)
<1>1. TypeOK /\ [Next]_vars => [Payouts]_vars
  <2> SUFFICES ASSUME TypeOK, [Next]_vars, NEW j \in JobIds, escrow'[j] < escrow[j]
               PROVE  Payout(j)
    OBVIOUS
  <2>1. escrow[j] \in Nat /\ escrow'[j] \in Nat
    BY NextType DEF TypeOK
  <2>2. PICK i \in JobIds, event \in Event, accounts \in [Parties -> Nat \cup {None}] :
                /\ event.type \in {"Release", "Resolve", "Timeout"}
                /\ \A p \in Parties :
                      accounts[p] = wallet[p] \/ (wallet[p] = None /\ accounts[p] = 0)
                /\ SettleWith(i, event, accounts)
    BY <2>1, PayingSteps
  <2>3. /\ ApplyCore(i, event)
        /\ ToCore(i).amount \in Nat
        /\ escrow' = [escrow EXCEPT ![i] = @ - ToCore(i).amount]
    BY <2>2, SettleEffect
  <2>4. i = j
    BY <2>1, <2>3 DEF TypeOK
  <2>5. /\ ToCore(j) \in Job
        /\ Accepts(ToCore(j), event, clock)
        /\ jobs'[j].core = Applied(ToCore(j), event, clock)
    BY <2>3, <2>4, ApplyCoreEffect
  <2>6. ToCore(j).state \in Locked /\ jobs'[j].core.state \in Settled
    <3>1. clock \in I64
      BY DEF TypeOK
    <3> QED
      BY <2>2, <2>5, <3>1, AcceptedByType DEF Locked
  <2>7. /\ escrow[j] - escrow'[j] = ToCore(j).amount
        /\ \A k \in JobIds \ {j} : escrow'[k] = escrow[k]
    BY <2>3, <2>4 DEF TypeOK
  <2>8. \A p \in Parties :
           Balance(p)' = Balance(p)
                         + IF p = IF jobs'[j].core.state = "Released" THEN jobs[j].provider
                                                                      ELSE jobs[j].buyer
                           THEN ToCore(j).amount ELSE 0
    BY <2>2, <2>4, SettlePays
  <2> QED
    BY <2>6, <2>7, <2>8 DEF ToCore
<1>2. Spec => [][Payouts]_vars
  BY <1>1, TypeCorrect, PTL DEF Spec
<1> QED
  BY <1>2 DEF PayoutsAreSettlements

\* A settlement takes nothing from any wallet.
LEMMA SettleTakesNothing ==
    ASSUME TypeOK, NEW j \in JobIds, NEW event \in Event,
           NEW accounts \in [Parties -> Nat \cup {None}],
           \A p \in Parties : accounts[p] = wallet[p] \/ (wallet[p] = None /\ accounts[p] = 0),
           SettleWith(j, event, accounts)
    PROVE  \A p \in Parties : wallet[p] # None => wallet'[p] # None /\ wallet'[p] >= wallet[p]
<1> DEFINE payee == IF jobs'[j].core.state = "Released"
                    THEN jobs[j].provider ELSE jobs[j].buyer
           received(p) == IF p = payee THEN ToCore(j).amount ELSE 0
           Pays == \A p \in Parties :
                      /\ Balance(p)' = Balance(p) + received(p)
                      /\ wallet[p] # None => wallet'[p] # None /\ wallet'[p] >= wallet[p]
<1>1. Pays
  BY SettlePays
<1> QED
  BY <1>1

\* What OnlyTheirOwner says of a step, of one wallet and of one job.
OwnWallet(p) ==
    (wallet[p] # None /\ (wallet'[p] = None \/ wallet'[p] < wallet[p])) => signer' = p

OwnJob(j) ==
    (Exists(j) /\ jobs'[j].core.state # ToCore(j).state) =>
        /\ jobs'[j].core.state = "UnderReview" => signer' = jobs[j].provider
        /\ jobs'[j].core.state \in {"Funded", "Disputed"} => signer' = jobs[j].buyer

\* An event on a job moves that job alone, to the state its type names.
LEMMA EventMoves ==
    ASSUME TypeOK, NEW j \in JobIds, NEW event \in Event, ApplyCore(j, event)
    PROVE  /\ \A k \in JobIds \ {j} : jobs'[k] = jobs[k]
           /\ event.type = "Fund" => jobs'[j].core.state = "Funded"
           /\ event.type = "SubmitEvidence" => jobs'[j].core.state = "UnderReview"
           /\ event.type = "Dispute" => jobs'[j].core.state = "Disputed"
           /\ event.type \in {"Release", "Resolve", "Timeout"} =>
                 jobs'[j].core.state \in Settled
<1>1. /\ ToCore(j) \in Job
      /\ Accepts(ToCore(j), event, clock)
      /\ jobs'[j].core = Applied(ToCore(j), event, clock)
      /\ \A k \in JobIds \ {j} : jobs'[k] = jobs[k]
      /\ clock \in I64
  BY ApplyCoreEffect DEF TypeOK
<1> QED
  BY <1>1, AcceptedByType

\* Every step takes tokens only from a wallet whose owner signed it.
LEMMA NextOwnWallet ==
    ASSUME TypeOK, [Next]_vars, vars' # vars, NEW q \in Parties
    PROVE  OwnWallet(q)
<1>1. wallet[q] \in Nat \cup {None} /\ None \notin Nat
  BY TokensAssumption DEF TypeOK
<1>2. CASE UNCHANGED wallet
  BY <1>1, <1>2 DEF OwnWallet
<1>3. ASSUME NEW j \in JobIds, NEW p \in Parties, Fund(j, p)
      PROVE  OwnWallet(q)
  <2>1. /\ signer' = p
        /\ p # q => wallet'[q] = wallet[q]
    BY <1>3 DEF Fund, TypeOK
  <2> QED
    BY <1>1, <2>1 DEF OwnWallet
<1>4. ASSUME NEW j \in JobIds, NEW event \in Event,
             NEW accounts \in [Parties -> Nat \cup {None}],
             \A p \in Parties : accounts[p] = wallet[p] \/ (wallet[p] = None /\ accounts[p] = 0),
             SettleWith(j, event, accounts)
      PROVE  OwnWallet(q)
  <2>1. wallet[q] # None => wallet'[q] # None /\ wallet'[q] >= wallet[q]
    BY <1>4, SettleTakesNothing
  <2>2. wallet'[q] \in Nat \cup {None}
    BY NextType DEF TypeOK
  <2> QED
    BY <1>1, <2>1, <2>2 DEF OwnWallet
<1>5. ASSUME NEW p \in Parties, OpenWallet(p) \/ CloseWallet(p)
      PROVE  OwnWallet(q)
  BY <1>1, <1>5 DEF OwnWallet, OpenWallet, CloseWallet, TypeOK
<1>6. ASSUME NEW p \in Parties, NEW j \in JobIds, Donate(p, j)
      PROVE  OwnWallet(q)
  BY <1>1, <1>6 DEF OwnWallet, Donate, TypeOK
<1>7. ASSUME NEW j \in JobIds,
             \/ \E h \in EvidenceHashes, v \in Verdict : Release(j, h, v) \/ Resolve(j, h, v)
             \/ CrankTimeout(j)
             \/ OpenAndCrank(j)
      PROVE  OwnWallet(q)
  BY <1>4, <1>7, Settlements
<1> QED
  BY <1>2, <1>3, <1>5, <1>6, <1>7
     DEF Next, World, Instruction, CreateJob, Dispute, SubmitEvidence, Tick, Sign, vars

\* Every step moves a job only with the signature that the new state requires.
LEMMA NextOwnJob ==
    ASSUME TypeOK, [Next]_vars, NEW k \in JobIds
    PROVE  OwnJob(k)
<1>1. CASE UNCHANGED jobs
  BY <1>1 DEF OwnJob, ToCore
<1>2. ASSUME NEW j \in JobIds, NEW p \in Parties, NEW terms \in JobTerms,
             CreateJob(j, p, terms)
      PROVE  OwnJob(k)
  BY <1>2 DEF CreateJob, Exists, OwnJob, ToCore, TypeOK
<1>3. ASSUME NEW j \in JobIds, NEW p \in Parties, Fund(j, p)
      PROVE  OwnJob(k)
  <2>1. FundEvent \in Event /\ FundEvent.type = "Fund" /\ ApplyCore(j, FundEvent)
    BY <1>3, EventsAreEvents DEF Fund, FundEvent
  <2>2. p = jobs[j].buyer /\ signer' = p
    BY <1>3 DEF Fund
  <2> QED
    BY <2>1, <2>2, EventMoves DEF OwnJob, ToCore
<1>4. ASSUME NEW j \in JobIds, NEW p \in Parties, Dispute(j, p)
      PROVE  OwnJob(k)
  <2>1. DisputeEvent \in Event /\ DisputeEvent.type = "Dispute" /\ ApplyCore(j, DisputeEvent)
    BY <1>4, EventsAreEvents DEF Dispute, DisputeEvent
  <2>2. p = jobs[j].buyer /\ signer' = p
    BY <1>4 DEF Dispute
  <2> QED
    BY <2>1, <2>2, EventMoves DEF OwnJob, ToCore
<1>5. ASSUME NEW j \in JobIds, NEW p \in Parties, NEW h \in EvidenceHashes,
             SubmitEvidence(j, p, h)
      PROVE  OwnJob(k)
  <2>1. /\ SubmitEvent(h) \in Event
        /\ SubmitEvent(h).type = "SubmitEvidence"
        /\ ApplyCore(j, SubmitEvent(h))
    BY <1>5, EventsAreEvents DEF SubmitEvidence, SubmitEvent
  <2>2. p = jobs[j].provider /\ signer' = p
    BY <1>5 DEF SubmitEvidence
  <2> QED
    BY <2>1, <2>2, EventMoves DEF OwnJob, ToCore
<1>6. ASSUME NEW j \in JobIds,
             \/ \E h \in EvidenceHashes, v \in Verdict : Release(j, h, v) \/ Resolve(j, h, v)
             \/ CrankTimeout(j)
             \/ OpenAndCrank(j)
      PROVE  OwnJob(k)
  <2>1. PICK event \in Event, accounts \in [Parties -> Nat \cup {None}] :
                /\ event.type \in {"Release", "Resolve", "Timeout"}
                /\ SettleWith(j, event, accounts)
    BY <1>6, Settlements
  <2>2. /\ \A i \in JobIds \ {j} : jobs'[i] = jobs[i]
        /\ jobs'[j].core.state \in Settled
    BY <2>1, EventMoves DEF SettleWith
  <2> QED
    BY <2>2 DEF OwnJob, ToCore, Settled
<1> QED
  BY <1>1, <1>2, <1>3, <1>4, <1>5, <1>6
     DEF Next, World, Instruction, Tick, Sign, OpenWallet, CloseWallet, Donate, vars

\* Nobody acts in another's name: each instruction that takes tokens from a wallet,
\* records evidence, funds or disputes a job carries the signature of the one it
\* concerns.
THEOREM AlwaysTheirOwner == Spec => OnlyTheirOwner
<1> DEFINE OwnSteps == (\A p \in Parties : OwnWallet(p)) /\ (\A j \in JobIds : OwnJob(j))
<1>1. ASSUME TypeOK, [Next]_vars
      PROVE  [OwnSteps]_vars
  BY <1>1, NextOwnWallet, NextOwnJob
<1>2. Spec => [][OwnSteps]_vars
  BY <1>1, TypeCorrect, PTL DEF Spec
<1>3. OwnSteps <=>
        /\ \A p \in Parties :
              (wallet[p] # None /\ (wallet'[p] = None \/ wallet'[p] < wallet[p]))
              => signer' = p
        /\ \A j \in JobIds : (Exists(j) /\ jobs'[j].core.state # ToCore(j).state) =>
              CASE jobs'[j].core.state = "UnderReview" -> signer' = jobs[j].provider
                [] jobs'[j].core.state \in {"Funded", "Disputed"} -> signer' = jobs[j].buyer
                [] OTHER -> TRUE
  BY Zenon DEF OwnWallet, OwnJob
<1> QED
  BY <1>2, <1>3, PTL DEF OnlyTheirOwner

-----------------------------------------------------------------------------
(* The promise *)

\* Nothing that was condemned is ever acquitted, and only delivered work is
\* condemned: evidence and terms stay as they were judged.
LEMMA JudgeStep ==
    ASSUME TypeOK, AccountsAreJobs, [Next]_vars
    PROVE  Promise!Judge
<1>1. TypeOK' /\ AccountsAreJobs'
  BY NextType, NextAccounts
<1>2. signed \subseteq signed'
  <2>1. ASSUME NEW j \in JobIds,
               \/ \E h \in EvidenceHashes, v \in Verdict : Release(j, h, v) \/ Resolve(j, h, v)
               \/ CrankTimeout(j)
               \/ OpenAndCrank(j)
        PROVE  signed \subseteq signed'
    BY <2>1, Settlements DEF SettleWith
  <2>2. ASSUME NEW signature \in Signature, Sign(signature)
        PROVE  signed \subseteq signed'
    BY <2>2 DEF Sign
  <2> QED
    BY <2>1, <2>2 DEF Next, World, Instruction, CreateJob, Fund, Dispute, SubmitEvidence,
                      Tick, OpenWallet, CloseWallet, Donate, vars
<1>3. ASSUME NEW k \in condemnedBar
      PROVE  k \in condemnedBar'
  <2>1. /\ k \in JobIds
        /\ jobs[k] # None
        /\ ToCore(k) \in Job
        /\ ToCore(k).evidence_hash # None
        /\ WellFormedJob(ToCore(k))
    BY DEF condemnedBar, Exists, AccountsAreJobs, TypeOK, Account, ToCore
  <2>2. /\ jobs'[k] # None
        /\ SameTerms(ToCore(k), jobs'[k].core)
        /\ jobs'[k].core.evidence_hash = ToCore(k).evidence_hash
    <3>1. CASE UNCHANGED jobs
      BY <2>1, <3>1 DEF SameTerms, ToCore
    <3>2. ASSUME NEW j \in JobIds, NEW p \in Parties, NEW terms \in JobTerms,
                 CreateJob(j, p, terms)
          PROVE  jobs'[k] = jobs[k]
      BY <2>1, <3>2 DEF CreateJob, Exists, TypeOK
    <3>3. ASSUME NEW j \in JobIds, NEW event \in Event, ApplyCore(j, event), j # k
          PROVE  jobs'[k] = jobs[k]
      BY <2>1, <3>3, ApplyCoreEffect
    <3>4. ASSUME NEW event \in Event, ApplyCore(k, event)
          PROVE  /\ jobs'[k] # None
                 /\ SameTerms(ToCore(k), jobs'[k].core)
                 /\ jobs'[k].core.evidence_hash = ToCore(k).evidence_hash
      <4>1. /\ Accepts(ToCore(k), event, clock)
            /\ jobs'[k] \in Account
            /\ jobs'[k].core = Applied(ToCore(k), event, clock)
            /\ clock \in I64
        BY <2>1, <3>4, ApplyCoreEffect DEF TypeOK
      <4>2. ToCore(k).state # "Funded"
        BY <2>1 DEF WellFormedJob
      <4> QED
        BY <2>1, <4>1, <4>2, AcceptedEdges, AppliedKeepsTerms, NoneIsNoAccount
    <3> QED
      BY <2>1, <3>1, <3>2, <3>3, <3>4, AccountSteps DEF SameTerms, ToCore
  <2>3. VerifierSaid(k, "Fail") \/ ArbiterSaid(k, "Fail")
    BY DEF condemnedBar
  <2>4. VerifierSaid(k, "Fail")' \/ ArbiterSaid(k, "Fail")'
    BY <1>2, <2>2, <2>3 DEF VerifierSaid, ArbiterSaid, Said, SameTerms, ToCore
  <2> QED
    BY <2>1, <2>2, <2>4 DEF condemnedBar, Exists, ToCore
<1>4. ASSUME NEW k \in condemnedBar'
      PROVE  k \in {j \in JobIds : phaseBar'[j] \notin {"absent", "offered", "held"}}
  <2>1. /\ k \in JobIds
        /\ jobs'[k] # None
        /\ jobs'[k].core.state \in State
        /\ jobs'[k].core.state \notin {"Created", "Funded"}
    BY <1>1 DEF condemnedBar, Exists, AccountsAreJobs, TypeOK, Account, Job, ToCore,
                WellFormedJob
  <2>2. phaseBar'[k] = PhaseOf(jobs'[k].core.state)
    BY <2>1 DEF phaseBar, Exists, ToCore
  <2>3. PhaseOf(jobs'[k].core.state) \notin {"absent", "offered", "held"}
    BY <2>1 DEF PhaseOf, State
  <2> QED
    BY <2>1, <2>2, <2>3
<1> QED
  BY <1>3, <1>4 DEF Promise!Judge

\* What a change of one account is in the promise's terms.
LEMMA BarsMove ==
    ASSUME NEW j \in JobIds, jobs'[j] # None,
           \A k \in JobIds \ {j} : jobs'[k] = jobs[k]
    PROVE  /\ phaseBar' = [phaseBar EXCEPT ![j] = PhaseOf(jobs'[j].core.state)]
           /\ heldBar' = IF jobs'[j].core.state \in Locked THEN heldBar \cup {j}
                                                         ELSE heldBar \ {j}
<1>1. ASSUME NEW k \in JobIds
      PROVE  phaseBar'[k] = [phaseBar EXCEPT ![j] = PhaseOf(jobs'[j].core.state)][k]
  BY <1>1 DEF phaseBar, Exists, ToCore
<1>2. phaseBar' = [phaseBar EXCEPT ![j] = PhaseOf(jobs'[j].core.state)]
  BY <1>1 DEF phaseBar
<1>3. \A k \in JobIds : k \in heldBar' <=> jobs'[k] # None /\ jobs'[k].core.state \in Locked
  BY DEF heldBar, Exists, ToCore
<1>4. \A k \in JobIds : k \in heldBar <=> jobs[k] # None /\ jobs[k].core.state \in Locked
  BY DEF heldBar, Exists, ToCore
<1>5. heldBar \subseteq JobIds /\ heldBar' \subseteq JobIds
  BY DEF heldBar
<1> QED
  BY <1>2, <1>3, <1>4, <1>5

\* The states by the names the promise gives them.
LEMMA Phases ==
    /\ PhaseOf("Created") = "offered"
    /\ PhaseOf("Funded") = "held"
    /\ PhaseOf("UnderReview") = "delivered"
    /\ PhaseOf("Disputed") = "contested"
    /\ PhaseOf("Released") = "paid"
    /\ PhaseOf("Refunded") = "returned"
  BY DEF PhaseOf

\* An accepted event is one move of the promise: delivered work is refunded only
\* where the cause on record is a judge's condemnation, which was there before.
LEMMA EventKeepsPromise ==
    ASSUME TypeOK, AccountsAreJobs, SettledForCause', NEW j \in JobIds,
           NEW event \in Event, ApplyCore(j, event), UNCHANGED signed
    PROVE  \/ Promise!Lock(j) \/ Promise!Deliver(j) \/ Promise!Contest(j)
           \/ Promise!Pay(j) \/ Promise!Return(j)
<1> DEFINE before == ToCore(j)
           after == jobs'[j].core
<1>1. /\ before \in Job
      /\ WellFormedJob(before)
      /\ Accepts(before, event, clock)
      /\ after = Applied(before, event, clock)
      /\ \A k \in JobIds \ {j} : jobs'[k] = jobs[k]
      /\ jobs[j] # None
      /\ jobs'[j] # None
      /\ clock \in I64
  BY ApplyCoreEffect, NoneIsNoAccount DEF ApplyCore, Exists, TypeOK, AccountsAreJobs
<1>2. phaseBar \in [JobIds -> {"absent"} \cup {PhaseOf(s) : s \in State}]
  BY DEF phaseBar, Exists, ToCore, TypeOK, Account, Job
<1>3. /\ phaseBar[j] = PhaseOf(before.state)
      /\ j \in heldBar <=> before.state \in Locked
  BY <1>1 DEF phaseBar, heldBar, Exists, ToCore
<1>4. /\ phaseBar' = [phaseBar EXCEPT ![j] = PhaseOf(after.state)]
      /\ heldBar' = IF after.state \in Locked THEN heldBar \cup {j} ELSE heldBar \ {j}
  BY <1>1, BarsMove
<1>5. SameTerms(before, after)
  BY <1>1, AppliedKeepsTerms
<1>6. \/ before.state = "Created" /\ after.state = "Funded"
      \/ before.state = "Funded" /\ after.state = "UnderReview"
      \/ before.state = "UnderReview" /\ after.state = "Disputed"
      \/ /\ before.state \in Locked
         /\ after.state \in Settled
         /\ after.evidence_hash = before.evidence_hash
  BY <1>1, AcceptedEdges
<1>7. CASE before.state = "Created" /\ after.state = "Funded"
  BY <1>3, <1>4, <1>7, Phases DEF Promise!Lock, Promise!Move, Locked
<1>8. CASE before.state = "Funded" /\ after.state = "UnderReview"
  BY <1>3, <1>4, <1>8, Phases DEF Promise!Deliver, Promise!Move, Locked
<1>9. CASE before.state = "UnderReview" /\ after.state = "Disputed"
  BY <1>3, <1>4, <1>9, Phases DEF Promise!Contest, Promise!Move, Locked
<1>10. CASE /\ before.state \in Locked
            /\ after.state = "Released"
  <2>1. before.state # "Funded"
    <3>1. WellFormedJob(after)
      BY <1>1, AppliedWellFormed
    <3> QED
      BY <1>1, <1>6, <1>10, <3>1 DEF WellFormedJob, Settled
  <2> QED
    BY <1>3, <1>4, <1>10, <2>1, Phases DEF Promise!Pay, Promise!Move, Locked
<1>11. CASE /\ before.state \in Locked
            /\ after.state = "Refunded"
            /\ after.evidence_hash = before.evidence_hash
  <2>1. CASE before.state = "Funded"
    BY <1>3, <1>4, <1>11, <2>1, Phases DEF Promise!Return, Promise!Move, Locked
  <2>2. CASE before.state # "Funded"
    <3>1. before.evidence_hash # None
      BY <1>1, <1>11, <2>2 DEF WellFormedJob, Locked
    <3>2. VerifierSaid(j, "Fail")' \/ ArbiterSaid(j, "Fail")'
      BY <1>1, <1>11, <3>1 DEF SettledForCause, EndedForCause, Exists, ToCore
    <3>3. VerifierSaid(j, "Fail") \/ ArbiterSaid(j, "Fail")
      BY <1>5, <1>11, <3>2 DEF VerifierSaid, ArbiterSaid, Said, SameTerms, ToCore
    <3>4. j \in condemnedBar
      BY <1>1, <3>1, <3>3 DEF condemnedBar, Exists
    <3> QED
      BY <1>3, <1>4, <1>11, <2>2, <3>4, Phases DEF Promise!Return, Promise!Move, Locked
  <2> QED
    BY <2>1, <2>2
<1> QED
  BY <1>6, <1>7, <1>8, <1>9, <1>10, <1>11 DEF Locked, Settled

\* Every step of the program is a step of the promise, or none.
LEMMA StepKeepsPromise ==
    ASSUME TypeOK, AccountsAreJobs, SettledForCause', [Next]_vars
    PROVE  Promise!PromiseNext
<1>1. Promise!Judge
  BY JudgeStep
<1>2. UNCHANGED jobs \/ UNCHANGED signed
  <2>1. ASSUME NEW j \in JobIds,
               \/ \E h \in EvidenceHashes, v \in Verdict : Release(j, h, v) \/ Resolve(j, h, v)
               \/ CrankTimeout(j)
               \/ OpenAndCrank(j)
        PROVE  UNCHANGED signed
    BY <2>1, Settlements DEF SettleWith
  <2> QED
    BY <2>1 DEF Next, World, Instruction, CreateJob, Fund, Dispute, SubmitEvidence,
                Tick, Sign, OpenWallet, CloseWallet, Donate, vars
<1>3. CASE UNCHANGED jobs
  <2>1. phaseBar' = phaseBar /\ heldBar' = heldBar
    BY <1>3 DEF phaseBar, heldBar, Exists, ToCore
  <2> QED
    BY <1>1, <2>1 DEF Promise!PromiseNext
<1>4. ASSUME NEW j \in JobIds, NEW p \in Parties, NEW terms \in JobTerms,
             CreateJob(j, p, terms)
      PROVE  Promise!PromiseNext
  <2>1. /\ jobs[j] = None
        /\ jobs'[j] # None
        /\ jobs'[j].core.state = "Created"
        /\ \A k \in JobIds \ {j} : jobs'[k] = jobs[k]
    BY <1>4, CreatedIsAccount, NoneIsNoAccount DEF CreateJob, Exists, Created, TypeOK
  <2>2. phaseBar[j] = "absent" /\ j \notin heldBar
    BY <2>1 DEF phaseBar, heldBar, Exists
  <2>3. phaseBar' = [phaseBar EXCEPT ![j] = "offered"] /\ heldBar' = heldBar
    BY <2>1, <2>2, BarsMove, Phases DEF Locked
  <2>4. Promise!Offer(j)
    BY <2>2, <2>3 DEF Promise!Offer, Promise!Move
  <2> QED
    BY <1>1, <2>4 DEF Promise!PromiseNext
<1>5. ASSUME NEW j \in JobIds, NEW event \in Event, ApplyCore(j, event), UNCHANGED signed
      PROVE  Promise!PromiseNext
  BY <1>1, <1>5, EventKeepsPromise DEF Promise!PromiseNext
<1> QED
  BY <1>2, <1>3, <1>4, <1>5, AccountSteps

\* The program implements EscrowPromise: a job goes one way, its whole amount is
\* held from funding to settlement, work is paid only when delivered, and
\* delivered work is refunded only when a judge of that job condemned it.
THEOREM AlwaysKeepsPromise == Spec => KeepsPromise
<1>1. Init => Promise!PromiseInit
  BY DEF Init, Promise!PromiseInit, phaseBar, condemnedBar, heldBar, Exists
<1>2. TypeOK /\ AccountsAreJobs /\ SettledForCause' /\ [Next]_vars
      => [Promise!PromiseNext]_(Promise!pvars)
  BY StepKeepsPromise
<1> QED
  BY <1>1, <1>2, TypeCorrect, AccountsAlwaysJobs, AlwaysSettledForCause, PTL
     DEF Spec, KeepsPromise, Promise!PromiseSpec

-----------------------------------------------------------------------------
(* Sums over finite sets: the least that the conservation of tokens needs.  The *)
(* induction is over the subsets of one finite set, and over a set of numbers,  *)
(* so that it asks for sets and not for operators.                              *)

\* A set of natural numbers that holds zero and every successor holds them all.
LEMMA EveryNatural ==
    ASSUME NEW Good, 0 \in Good, \A n \in Nat : n \in Good => n + 1 \in Good
    PROVE  Nat \subseteq Good
<1> DEFINE Less == {pair \in Nat \X Nat : pair[1] < pair[2]}
           Bad == Nat \ Good
<1>1. IsWellFoundedOn(Less, Nat)
  BY NatLessThanWellFounded DEF OpToRel
<1> SUFFICES ASSUME Bad # {} PROVE FALSE
  OBVIOUS
<1>2. PICK n \in Bad : \A m \in Bad : <<m, n>> \notin Less
  <2> HIDE DEF Less
  <2>1. Bad \subseteq Nat
    OBVIOUS
  <2> HIDE DEF Bad
  <2> QED
    BY <1>1, <2>1, WFMin
<1>3. n \in Nat \ {0} /\ n - 1 \in Nat /\ n - 1 < n
  BY <1>2
<1>4. n - 1 \in Good
  BY <1>2, <1>3
<1>5. n - 1 + 1 \in Good /\ n - 1 + 1 = n
  BY <1>3, <1>4
<1> QED
  BY <1>2, <1>5

\* A collection that holds every subset of S whose proper subsets it holds is all
\* the subsets of S.
LEMMA EverySubset ==
    ASSUME NEW S, IsFiniteSet(S), NEW Good,
           \A T \in SUBSET S : (\A U \in SUBSET T : U # T => U \in Good) => T \in Good
    PROVE  \A T \in SUBSET S : T \in Good
<1> DEFINE Bad == {T \in SUBSET S : T \notin Good}
<1>1. IsWellFoundedOn(StrictSubsetOrdering(S), SUBSET S)
  BY FS_StrictSubsetOrderingWellFounded, FS_FiniteSubsetsOfFinite
<1> SUFFICES ASSUME Bad # {} PROVE FALSE
  OBVIOUS
<1>2. PICK T \in Bad : \A U \in Bad : <<U, T>> \notin StrictSubsetOrdering(S)
  <2>1. Bad \subseteq SUBSET S
    OBVIOUS
  <2> HIDE DEF Bad
  <2> QED
    BY <1>1, <2>1, WFMin
<1>3. ASSUME NEW U \in SUBSET T, U # T
      PROVE  U \in Good
  BY <1>2, <1>3 DEF StrictSubsetOrdering
<1> QED
  BY <1>2, <1>3

\* The element a sum takes first.
First(s) == CHOOSE x \in s : TRUE

\* The table of the sums of f over the subsets of S.
IsSumTable(f, S, g) ==
    /\ f \in [S -> Int]
    /\ g \in [SUBSET S -> Int]
    /\ g[{}] = 0
    /\ \A s \in SUBSET S : s # {} => g[s] = f[First(s)] + g[s \ {First(s)}]

\* There is one.
LEMMA SumTableExists ==
    ASSUME NEW S, IsFiniteSet(S), NEW f \in [S -> Int]
    PROVE  \E g : IsSumTable(f, S, g)
<1> DEFINE UpTo(n, g) ==
             /\ g[{}] = 0
             /\ \A s \in SUBSET S : s # {} /\ Cardinality(s) <= n
                                    => g[s] = f[First(s)] + g[s \ {First(s)}]
           Good == {n \in Nat : \E g \in [SUBSET S -> Int] : UpTo(n, g)}
<1>1. \A s \in SUBSET S : /\ Cardinality(s) \in Nat
                          /\ Cardinality(s) = 0 <=> s = {}
                          /\ s # {} => /\ First(s) \in s
                                       /\ Cardinality(s \ {First(s)}) = Cardinality(s) - 1
                                       /\ s \ {First(s)} \in SUBSET S
  <2> SUFFICES ASSUME NEW s \in SUBSET S
               PROVE  /\ Cardinality(s) \in Nat
                      /\ Cardinality(s) = 0 <=> s = {}
                      /\ s # {} => /\ First(s) \in s
                                   /\ Cardinality(s \ {First(s)}) = Cardinality(s) - 1
                                   /\ s \ {First(s)} \in SUBSET S
    OBVIOUS
  <2>1. IsFiniteSet(s)
    BY FS_Subset
  <2>2. s # {} => First(s) \in s
    BY DEF First
  <2>3. Cardinality(s) \in Nat /\ (Cardinality(s) = 0 <=> s = {})
    BY <2>1, FS_CardinalityType, FS_EmptySet
  <2>4. s # {} => Cardinality(s \ {First(s)}) = Cardinality(s) - 1
    BY <2>1, <2>2, FS_RemoveElement
  <2> QED
    BY <2>2, <2>3, <2>4
<1>2. 0 \in Good
  <2> DEFINE zero == [s \in SUBSET S |-> 0]
  <2>1. zero \in [SUBSET S -> Int] /\ zero[{}] = 0
    OBVIOUS
  <2>2. ASSUME NEW s \in SUBSET S, s # {}, Cardinality(s) <= 0
        PROVE  FALSE
    <3>1. Cardinality(s) \in Nat /\ Cardinality(s) # 0
      BY <1>1, <2>2
    <3> QED
      BY <2>2, <3>1
  <2> HIDE DEF zero
  <2> QED
    BY <2>1, <2>2
<1>3. ASSUME NEW n \in Nat, n \in Good
      PROVE  n + 1 \in Good
  <2>1. PICK g \in [SUBSET S -> Int] : UpTo(n, g)
    BY <1>3
  <2> DEFINE Value(s) == IF s = {} \/ Cardinality(s) <= n THEN g[s]
                         ELSE f[First(s)] + g[s \ {First(s)}]
             h == [s \in SUBSET S |-> Value(s)]
  <2>2. h \in [SUBSET S -> Int]
    <3>1. ASSUME NEW s \in SUBSET S
          PROVE  Value(s) \in Int
      <4>1. g[s] \in Int /\ g[s \ {First(s)}] \in Int
        BY <2>1
      <4>2. s # {} => f[First(s)] \in Int
        BY <1>1
      <4> QED
        BY <4>1, <4>2
    <3> HIDE DEF Value
    <3> QED
      BY <3>1
  <2>3. h[{}] = 0
    BY <2>1
  <2>4. ASSUME NEW s \in SUBSET S, s # {}, Cardinality(s) <= n + 1
        PROVE  h[s] = f[First(s)] + h[s \ {First(s)}]
    <3> DEFINE rest == s \ {First(s)}
    <3>1. rest \in SUBSET S /\ Cardinality(rest) <= n /\ Cardinality(s) \in Nat
      BY <1>1, <2>4
    <3>2. h[rest] = g[rest]
      BY <3>1
    <3>3. h[s] = f[First(s)] + g[rest]
      <4>1. CASE Cardinality(s) <= n
        BY <2>1, <2>4, <4>1
      <4>2. CASE ~ Cardinality(s) <= n
        BY <2>4, <4>2
      <4> QED
        BY <4>1, <4>2
    <3> QED
      BY <3>2, <3>3
  <2> HIDE DEF h
  <2>5. UpTo(n + 1, h)
    BY <2>3, <2>4
  <2> QED
    BY <2>2, <2>5
<1>4. Cardinality(S) \in Good
  <2>1. Nat \subseteq Good
    <3> HIDE DEF Good
    <3> QED
      BY <1>2, <1>3, EveryNatural
  <2> QED
    BY <1>1, <2>1
<1>5. PICK g \in [SUBSET S -> Int] : UpTo(Cardinality(S), g)
  BY <1>4
<1>6. \A s \in SUBSET S : Cardinality(s) <= Cardinality(S)
  BY FS_Subset
<1>7. IsSumTable(f, S, g)
  BY <1>5, <1>6 DEF IsSumTable
<1> QED
  BY <1>7

\* The library's sum is read off that table.
LEMMA SumIsTabled ==
    ASSUME NEW S, IsFiniteSet(S), NEW f \in [S -> Int]
    PROVE  \E g : IsSumTable(f, S, g) /\ SumFunctionOnSet(f, S) = g[S]
<1> DEFINE Equation(h) == h = [s \in SUBSET S |-> IF s = {} THEN 0
                                        ELSE f[First(s)] + h[s \ {First(s)}]]
           table == CHOOSE h : Equation(h)
<1>1. SumFunctionOnSet(f, S) = table[S]
  BY Zenon DEF SumFunctionOnSet, FoldFunctionOnSet, MapThenFoldSet, First
<1>2. PICK g : IsSumTable(f, S, g)
  BY SumTableExists
<1>3. Equation(g)
  BY <1>2 DEF IsSumTable
<1> HIDE DEF Equation
<1>4. Equation(table)
  BY <1>3
<1> HIDE DEF table
<1>5. /\ DOMAIN table = SUBSET S
      /\ table = [s \in DOMAIN table |-> table[s]]
      /\ \A s \in SUBSET S : table[s] = IF s = {} THEN 0
                                        ELSE f[First(s)] + table[s \ {First(s)}]
  BY <1>4 DEF Equation
<1>6. \A T \in SUBSET S : T \in {s \in SUBSET S : table[s] = g[s]}
  <2> DEFINE Good == {s \in SUBSET S : table[s] = g[s]}
  <2>1. ASSUME NEW T \in SUBSET S, \A U \in SUBSET T : U # T => U \in Good
        PROVE  T \in Good
    <3>1. CASE T = {}
      BY <1>2, <1>5, <3>1 DEF IsSumTable
    <3>2. CASE T # {}
      <4>1. First(T) \in T
        BY <3>2 DEF First
      <4>2. T \ {First(T)} \in Good
        BY <2>1, <4>1
      <4> QED
        BY <1>2, <1>5, <3>2, <4>2 DEF IsSumTable
    <3> QED
      BY <3>1, <3>2
  <2> HIDE DEF Good
  <2>2. \A T \in SUBSET S : T \in Good
    BY <2>1, EverySubset
  <2> QED
    BY <2>2 DEF Good
<1>7. table[S] = g[S]
  BY <1>6
<1> QED
  BY <1>1, <1>2, <1>7

\* Any element may be taken first.
LEMMA TakeAny ==
    ASSUME NEW S, IsFiniteSet(S), NEW f, NEW g, IsSumTable(f, S, g),
           NEW all \in SUBSET S, NEW any \in all
    PROVE  g[all] = f[any] + g[all \ {any}]
<1> DEFINE Good == {T \in SUBSET S : \A x \in T : g[T] = f[x] + g[T \ {x}]}
<1>0. /\ \A y \in S : f[y] \in Int
      /\ \A s \in SUBSET S : g[s] \in Int
      /\ \A s \in SUBSET S : s # {} => g[s] = f[First(s)] + g[s \ {First(s)}]
  BY DEF IsSumTable
<1>1. ASSUME NEW T \in SUBSET S, \A U \in SUBSET T : U # T => U \in Good
      PROVE  T \in Good
  <2> SUFFICES ASSUME NEW x \in T
               PROVE  g[T] = f[x] + g[T \ {x}]
    OBVIOUS
  <2>1. PICK c \in T : c = First(T)
    BY DEF First
  <2>2. g[T] = f[c] + g[T \ {c}]
    BY <1>0, <2>1
  <2>3. CASE x = c
    BY <2>2, <2>3
  <2>4. CASE x # c
    <3>1. T \ {c} \in Good /\ T \ {x} \in Good
      BY <1>1
    <3>2. x \in T \ {c} /\ c \in T \ {x}
      BY <2>4
    <3>3. g[T \ {c}] = f[x] + g[(T \ {c}) \ {x}]
      BY <3>1, <3>2
    <3>4. g[T \ {x}] = f[c] + g[(T \ {x}) \ {c}]
      BY <3>1, <3>2
    <3>5. (T \ {c}) \ {x} = (T \ {x}) \ {c}
      OBVIOUS
    <3>6. PICK rest \in Int : rest = g[(T \ {x}) \ {c}]
      BY <1>0
    <3>7. f[x] \in Int /\ f[c] \in Int
      BY <1>0
    <3>8. g[T \ {c}] = f[x] + rest /\ g[T \ {x}] = f[c] + rest
      BY <3>3, <3>4, <3>5, <3>6
    <3> QED
      BY <2>2, <3>7, <3>8
  <2> QED
    BY <2>3, <2>4
<1> HIDE DEF Good
<1>2. \A T \in SUBSET S : T \in Good
  BY <1>1, EverySubset
<1> QED
  BY <1>2 DEF Good

\* A sum depends on the terms it adds up, and on nothing else.
LEMMA SameTermsSameSum ==
    ASSUME NEW S, IsFiniteSet(S), NEW f1, NEW f2, NEW g1, NEW g2,
           IsSumTable(f1, S, g1), IsSumTable(f2, S, g2),
           NEW R \in SUBSET S, \A y \in R : f1[y] = f2[y]
    PROVE  g1[R] = g2[R]
<1> DEFINE Good == {T \in SUBSET S : T \subseteq R => g1[T] = g2[T]}
<1>1. ASSUME NEW T \in SUBSET S, \A U \in SUBSET T : U # T => U \in Good
      PROVE  T \in Good
  <2> SUFFICES ASSUME T \subseteq R
               PROVE  g1[T] = g2[T]
    OBVIOUS
  <2>1. CASE T = {}
    BY <2>1 DEF IsSumTable
  <2>2. CASE T # {}
    <3>1. First(T) \in T
      BY <2>2 DEF First
    <3>2. g1[T \ {First(T)}] = g2[T \ {First(T)}]
      BY <1>1, <3>1
    <3> QED
      BY <2>2, <3>1, <3>2 DEF IsSumTable
  <2> QED
    BY <2>1, <2>2
<1> HIDE DEF Good
<1>2. \A T \in SUBSET S : T \in Good
  BY <1>1, EverySubset
<1> QED
  BY <1>2 DEF Good

\* When one term changes, the sum changes by as much.
LEMMA SumAfterChange ==
    ASSUME NEW S, IsFiniteSet(S), NEW f1 \in [S -> Int], NEW f2 \in [S -> Int],
           NEW x \in S, \A y \in S \ {x} : f2[y] = f1[y]
    PROVE  /\ SumFunctionOnSet(f1, S) \in Int
           /\ SumFunctionOnSet(f2, S) = SumFunctionOnSet(f1, S) + f2[x] - f1[x]
<1>1. PICK g1 : IsSumTable(f1, S, g1) /\ SumFunctionOnSet(f1, S) = g1[S]
  BY SumIsTabled
<1>2. PICK g2 : IsSumTable(f2, S, g2) /\ SumFunctionOnSet(f2, S) = g2[S]
  BY SumIsTabled
<1>3. g1[S] = f1[x] + g1[S \ {x}] /\ g2[S] = f2[x] + g2[S \ {x}]
  <2>1. g1[S] = f1[x] + g1[S \ {x}]
    BY <1>1, TakeAny
  <2>2. g2[S] = f2[x] + g2[S \ {x}]
    BY <1>2, TakeAny
  <2> QED
    BY <2>1, <2>2
<1>4. g1[S \ {x}] = g2[S \ {x}]
  BY <1>1, <1>2, SameTermsSameSum
<1>5. g1[S] \in Int /\ g1[S \ {x}] \in Int /\ f1[x] \in Int /\ f2[x] \in Int
  BY <1>1 DEF IsSumTable
<1> QED
  BY <1>1, <1>2, <1>3, <1>4, <1>5

\* A sum of zeros is zero.
LEMMA SumOfZeros ==
    ASSUME NEW S, IsFiniteSet(S)
    PROVE  SumFunctionOnSet([x \in S |-> 0], S) = 0
<1> DEFINE zeros == [x \in S |-> 0]
           table == [s \in SUBSET S |-> 0]
<1>1. zeros \in [S -> Int]
  OBVIOUS
<1>2. IsSumTable(zeros, S, table)
  <2>1. \A s \in SUBSET S : s # {} => First(s) \in s /\ s \ {First(s)} \in SUBSET S
    BY DEF First
  <2> QED
    BY <2>1 DEF IsSumTable
<1>3. PICK g : IsSumTable(zeros, S, g) /\ SumFunctionOnSet(zeros, S) = g[S]
  <2> HIDE DEF zeros
  <2> QED
    BY <1>1, SumIsTabled
<1>4. g[S] = table[S]
  <2> HIDE DEF zeros, table
  <2> QED
    BY <1>2, <1>3, SameTermsSameSum
<1> QED
  BY <1>3, <1>4

-----------------------------------------------------------------------------
(* Tokens are neither made nor lost *)

\* n tokens go from the escrow of job j to the wallet of p; back, if n < 0.
Transfer(p, j, n) ==
    /\ \A q \in Parties : Balance(q)' = Balance(q) + IF q = p THEN n ELSE 0
    /\ \A k \in JobIds : escrow'[k] = escrow[k] - IF k = j THEN n ELSE 0

\* What the wallets hold, as a function.
Balances == [p \in Parties |-> Balance(p)]

\* Every balance is an integer, a closed account counting as nothing.
LEMMA BalancesType ==
    /\ TypeOK => Balances \in [Parties -> Int] /\ escrow \in [JobIds -> Int]
    /\ TypeOK' => Balances' \in [Parties -> Int] /\ escrow' \in [JobIds -> Int]
  BY TokensAssumption DEF TypeOK, Balances, Balance

\* A transfer keeps the total.
LEMMA TransferConserves ==
    ASSUME TypeOK, TypeOK', NEW p \in Parties, NEW j \in JobIds, NEW n \in Int,
           Transfer(p, j, n), TokensConserved
    PROVE  TokensConserved'
<1>1. PICK w1 \in [Parties -> Int], w2 \in [Parties -> Int],
           e1 \in [JobIds -> Int], e2 \in [JobIds -> Int] :
         w1 = Balances /\ w2 = Balances' /\ e1 = escrow /\ e2 = escrow'
  BY BalancesType
<1>2. /\ \A q \in Parties : w1[q] = Balance(q) /\ w2[q] = Balance(q)'
      /\ \A q \in Parties : w2[q] = w1[q] + IF q = p THEN n ELSE 0
      /\ \A k \in JobIds : e2[k] = e1[k] - IF k = j THEN n ELSE 0
  BY <1>1 DEF Transfer, Balances
<1>3. /\ SumFunctionOnSet(w1, Parties) \in Int
      /\ SumFunctionOnSet(w2, Parties) = SumFunctionOnSet(w1, Parties) + w2[p] - w1[p]
  <2>1. \A q \in Parties \ {p} : w2[q] = w1[q]
    BY <1>2
  <2> QED
    BY <2>1, FiniteAssumption, SumAfterChange
<1>4. /\ SumFunctionOnSet(e1, JobIds) \in Int
      /\ SumFunctionOnSet(e2, JobIds) = SumFunctionOnSet(e1, JobIds) + e2[j] - e1[j]
  <2>1. \A k \in JobIds \ {j} : e2[k] = e1[k]
    BY <1>2
  <2> QED
    BY <2>1, FiniteAssumption, SumAfterChange
<1>5. /\ TokensConserved <=> SumFunctionOnSet(w1, Parties) + SumFunctionOnSet(e1, JobIds)
                               = SumFunctionOnSet(InitialTokens, Parties)
      /\ TokensConserved' <=> SumFunctionOnSet(w2, Parties) + SumFunctionOnSet(e2, JobIds)
                               = SumFunctionOnSet(InitialTokens, Parties)
  BY <1>1 DEF TokensConserved, Balances
<1>6. w2[p] = w1[p] + n /\ e2[j] = e1[j] - n /\ w1[p] \in Int /\ e1[j] \in Int
  BY <1>2
<1> QED
  BY <1>3, <1>4, <1>5, <1>6

\* So does a step that leaves every balance alone.
LEMMA StillConserved ==
    ASSUME TypeOK, TypeOK', \A p \in Parties : Balance(p)' = Balance(p), UNCHANGED escrow,
           TokensConserved
    PROVE  TokensConserved'
<1>1. Balances' = Balances
  BY DEF Balances
<1> QED
  BY <1>1 DEF TokensConserved, Balances

\* Every step is a transfer between one wallet and one escrow, or moves nothing.
LEMMA NextTransfers ==
    ASSUME TypeOK, [Next]_vars
    PROVE  \/ \E p \in Parties, j \in JobIds, n \in Int : Transfer(p, j, n)
           \/ UNCHANGED escrow /\ \A p \in Parties : Balance(p)' = Balance(p)
<1>0. /\ wallet \in [Parties -> Nat \cup {None}]
      /\ escrow \in [JobIds -> Nat]
      /\ None \notin Nat
  BY TokensAssumption DEF TypeOK
<1>1. ASSUME NEW j \in JobIds, NEW p \in Parties, Fund(j, p)
      PROVE  \E n \in Int : Transfer(p, j, n)
  <2>1. PICK amount \in Nat : amount = ToCore(j).amount
    BY <1>1, EventsAreEvents, ApplyCoreEffect, AmountsAssumption DEF Fund, Job
  <2>2. /\ wallet[p] # None /\ wallet[p] >= amount
        /\ wallet' = [wallet EXCEPT ![p] = @ - amount]
        /\ escrow' = [escrow EXCEPT ![j] = @ + amount]
    BY <1>1, <2>1 DEF Fund
  <2>3. wallet'[p] = wallet[p] - amount /\ wallet'[p] \in Nat /\ wallet[p] \in Nat
    BY <1>0, <2>2
  <2>4. \A q \in Parties : Balance(q)' = Balance(q) + IF q = p THEN 0 - amount ELSE 0
    BY <1>0, <2>2, <2>3 DEF Balance
  <2>5. \A k \in JobIds : escrow'[k] = escrow[k] - IF k = j THEN 0 - amount ELSE 0
    BY <1>0, <2>2
  <2>6. Transfer(p, j, 0 - amount)
    BY <2>4, <2>5 DEF Transfer
  <2> QED
    BY <2>6
<1>2. ASSUME NEW p \in Parties, NEW j \in JobIds, Donate(p, j)
      PROVE  Transfer(p, j, 0 - 1)
  <2>1. /\ wallet[p] \in Nat \ {0}
        /\ wallet' = [wallet EXCEPT ![p] = @ - 1]
        /\ escrow' = [escrow EXCEPT ![j] = @ + 1]
    BY <1>0, <1>2 DEF Donate
  <2>2. wallet'[p] = wallet[p] - 1 /\ wallet'[p] \in Nat
    BY <1>0, <2>1
  <2> QED
    BY <1>0, <2>1, <2>2 DEF Transfer, Balance
<1>3. ASSUME NEW j \in JobIds, NEW event \in Event,
             NEW accounts \in [Parties -> Nat \cup {None}],
             \A p \in Parties : accounts[p] = wallet[p] \/ (wallet[p] = None /\ accounts[p] = 0),
             SettleWith(j, event, accounts)
      PROVE  \E p \in Parties, n \in Int : Transfer(p, j, n)
  <2> DEFINE payee == IF jobs'[j].core.state = "Released"
                      THEN jobs[j].provider ELSE jobs[j].buyer
  <2>1. /\ ApplyCore(j, event)
        /\ ToCore(j).amount \in Nat
        /\ escrow' = [escrow EXCEPT ![j] = @ - ToCore(j).amount]
    BY <1>3, SettleEffect
  <2>2. payee \in Parties
    BY <2>1, ApplyCoreEffect DEF Account
  <2>3. \A q \in Parties : Balance(q)' = Balance(q) + IF q = payee THEN ToCore(j).amount ELSE 0
    BY <1>3, SettlePays
  <2>4. \A k \in JobIds : escrow'[k] = escrow[k] - IF k = j THEN ToCore(j).amount ELSE 0
    BY <1>0, <2>1
  <2> HIDE DEF payee
  <2>5. Transfer(payee, j, ToCore(j).amount)
    BY <2>3, <2>4 DEF Transfer
  <2> QED
    BY <2>1, <2>2, <2>5
<1>4. ASSUME NEW p \in Parties, OpenWallet(p) \/ CloseWallet(p)
      PROVE  UNCHANGED escrow /\ \A q \in Parties : Balance(q)' = Balance(q)
  <2>1. /\ UNCHANGED escrow
        /\ \/ wallet[p] = None /\ wallet' = [wallet EXCEPT ![p] = 0]
           \/ wallet[p] = 0 /\ wallet' = [wallet EXCEPT ![p] = None]
    BY <1>4 DEF OpenWallet, CloseWallet
  <2> QED
    BY <1>0, <2>1 DEF Balance
<1>5. CASE UNCHANGED <<wallet, escrow>>
  BY <1>5 DEF Balance
<1> QED
  BY <1>1, <1>2, <1>3, <1>4, <1>5, Settlements
     DEF Next, World, Instruction, CreateJob, Dispute, SubmitEvidence, Tick, Sign, vars

\* The program neither creates nor destroys tokens: wallets and escrows together
\* hold what the wallets held at the start.
THEOREM TokensAlwaysConserved == Spec => []TokensConserved
<1>1. Init => TokensConserved
  <2> SUFFICES ASSUME Init PROVE TokensConserved
    OBVIOUS
  <2>1. Balances = InitialTokens
    BY TokensAssumption DEF Init, Balances, Balance
  <2>2. SumFunctionOnSet(escrow, JobIds) = 0
    BY FiniteAssumption, SumOfZeros DEF Init
  <2>3. SumFunctionOnSet(InitialTokens, Parties) \in Int
    <3>1. InitialTokens \in [Parties -> Int]
      BY TokensAssumption
    <3>2. PICK g : /\ IsSumTable(InitialTokens, Parties, g)
                   /\ SumFunctionOnSet(InitialTokens, Parties) = g[Parties]
      BY <3>1, FiniteAssumption, SumIsTabled
    <3> QED
      BY <3>2 DEF IsSumTable
  <2> QED
    BY <2>1, <2>2, <2>3 DEF TokensConserved, Balances
<1>2. TypeOK /\ TypeOK' /\ TokensConserved /\ [Next]_vars => TokensConserved'
  BY NextTransfers, TransferConserves, StillConserved
<1> QED
  BY <1>1, <1>2, TypeCorrect, PTL DEF Spec

=============================================================================
