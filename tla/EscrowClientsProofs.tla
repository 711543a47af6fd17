-------------------------- MODULE EscrowClientsProofs --------------------------
(***************************************************************************)
(* Two ways into the program that EscrowProgram models.  Settlement by     *)
(* transactions of bytes implements the program that asks whether a judge  *)
(* has signed, for any transactions, keys, jobs and terms.  And the demo   *)
(* ends as it claims, for every price, pair of clocks and time at which    *)
(* its transactions land, whatever strangers crank meanwhile.              *)
(***************************************************************************)
EXTENDS EscrowTransactions, Demo, EscrowProgramProofs, SequenceTheorems

EdProofs == INSTANCE Ed25519CheckProofs
              WITH signed <- signatures, accepted <- {}, KeyLen <- 1, SignatureLen <- 1,
                   MessageLen <- MESSAGE_LEN, Triples <- {}, Transactions <- {}

-----------------------------------------------------------------------------
(* What is known of the introspection, in this module's bytes *)

\* The constants are as Ed25519Check wants them.
LEMMA EdAssumptions ==
    /\ {1, 1, MESSAGE_LEN} \subseteq Nat \ {0}
    /\ CURRENT_INSTRUCTION \notin 0 .. 255
    /\ None \notin EdProofs!Bytes
    /\ {} \subseteq EdProofs!Triple
    /\ {} \subseteq Seq(EdProofs!Instruction)
    /\ \A list \in {} : \A i \in DOMAIN list :
          list[i].program = "settlement" =>
              /\ list[i].claim # None
              /\ Len(list[i].claim.key) = 1
              /\ Len(list[i].claim.message) = MESSAGE_LEN
              /\ Len(list[i].claim.signature) = 1
  BY NoBytesAssumption DEF MESSAGE_LEN, EdProofs!Bytes

\* The definitions reached through the proofs are those of the model.
LEMMA SameChecks ==
    ASSUME NEW list
    PROVE  EdProofs!GoesThrough(list) <=> Ed!GoesThrough(list)
  BY Zenon DEF EdProofs!GoesThrough, EdProofs!Precompile, EdProofs!RequirePrevious,
       EdProofs!Checked, EdProofs!Source, EdProofs!SliceAt, EdProofs!VerifyIxData,
       EdProofs!WellAimed, Ed!GoesThrough, Ed!Precompile, Ed!RequirePrevious,
       Ed!Checked, Ed!Source, Ed!SliceAt, Ed!VerifyIxData, Ed!WellAimed

\* The claim of a transaction that goes through is a signature somebody made.
LEMMA ClaimIsThere ==
    ASSUME NEW list \in Seq(EdProofs!Instruction), NEW i \in DOMAIN list,
           list[i].program = "settlement", list[i].claim \in EdProofs!Triple,
           Len(list[i].claim.key) = 1,
           Len(list[i].claim.message) = MESSAGE_LEN,
           Len(list[i].claim.signature) = 1,
           Ed!GoesThrough(list)
    PROVE  list[i].claim \in signatures
<1>1. EdProofs!GoesThrough(list)
  BY SameChecks
<1> QED
  BY <1>1, EdAssumptions, EdProofs!ClaimIsVerified, Zenon

-----------------------------------------------------------------------------
(* Bytes and what they mean *)

\* A signature's bytes are a key, a message of the one length and a signature.
LEMMA BytesAreTriple ==
    ASSUME NEW s \in Signature
    PROVE  /\ BytesOf(s) \in EdProofs!Triple
           /\ Len(BytesOf(s).key) = 1
           /\ Len(BytesOf(s).message) = MESSAGE_LEN
           /\ Len(BytesOf(s).signature) = 1
           /\ BytesOf(s).message[1] \in {DomainTag["attestation"], DomainTag["ruling"]}
<1> DEFINE m == s.message
<1>1. /\ s.key \in Cells
      /\ DomainTag[m.domain] \in Cells /\ m.job_id \in Cells /\ m.spec_hash \in Cells
      /\ m.evidence_hash \in Cells /\ VerdictByte[m.verdict] \in Cells
      /\ SignatureCell \in Cells
      /\ DomainTag[m.domain] \in {DomainTag["attestation"], DomainTag["ruling"]}
  BY CodesAssumption DEF Signature, Message, Cells
<1>2. /\ Encode(m) \in Seq(Cells)
      /\ Len(Encode(m)) = 5
      /\ Encode(m)[1] = DomainTag[m.domain]
  BY <1>1 DEF Encode
<1>3. /\ <<s.key>> \in Seq(Cells) /\ <<SignatureCell>> \in Seq(Cells)
      /\ Len(<<s.key>>) = 1 /\ Len(<<SignatureCell>>) = 1
  BY <1>1
<1> QED
  BY <1>1, <1>2, <1>3 DEF BytesOf, EdProofs!Triple, EdProofs!Bytes, MESSAGE_LEN

\* Bytes mean one thing: key, domain, job, spec, evidence and verdict can be read
\* back from them.
LEMMA BytesDecide ==
    ASSUME NEW s \in Signature, NEW t \in Signature, BytesOf(s) = BytesOf(t)
    PROVE  s = t
<1> DEFINE m == s.message
           n == t.message
<1>1. <<s.key>> = <<t.key>> /\ Encode(m) = Encode(n)
  BY DEF BytesOf
<1>2. s.key = t.key
  BY <1>1
<1>3. /\ DomainTag[m.domain] = DomainTag[n.domain]
      /\ m.job_id = n.job_id
      /\ m.spec_hash = n.spec_hash
      /\ m.evidence_hash = n.evidence_hash
      /\ VerdictByte[m.verdict] = VerdictByte[n.verdict]
  BY <1>1 DEF Encode
<1>4. m \in Message /\ n \in Message
  BY DEF Signature
<1>5. m.domain = n.domain /\ m.verdict = n.verdict
  BY <1>3, <1>4, CodesAssumption DEF Message, Verdict
<1>6. m = n
  BY <1>3, <1>4, <1>5 DEF Message
<1> QED
  BY <1>2, <1>6 DEF Signature

\* The signature the program looks for is a signature about a job.
LEMMA ExpectedIsSignature ==
    ASSUME TypeOK, NEW call \in Calls, Exists(call.job)
    PROVE  Expected(call) \in Signature
<1>1. ToCore(call.job) \in Job
  BY DEF Calls, TypeOK, Exists, ToCore, Account
<1>2. call.evidence_hash \in EvidenceHashes /\ call.verdict \in Verdict
  BY DEF Calls
<1> QED
  BY <1>1, <1>2 DEF Expected, AttestationFor, RulingFor, AttestationMessage, RulingMessage,
       SignedVerdictMessage, Signature, Message, Job

\* Filling in the claims gives instructions as the introspection takes them.
LEMMA WithClaimType ==
    ASSUME TypeOK, NEW list \in Transactions, Exists(list[Len(list)].call.job)
    PROVE  /\ WithClaim(list) \in Seq(EdProofs!Instruction)
           /\ Len(list) \in DOMAIN WithClaim(list)
           /\ WithClaim(list)[Len(list)].program = "settlement"
           /\ WithClaim(list)[Len(list)].claim = BytesOf(Expected(list[Len(list)].call))
           /\ list[Len(list)].call \in Calls
<1> DEFINE last == Len(list)
           filled(i) == [program |-> list[i].program, offsets |-> list[i].offsets,
                         bytes |-> list[i].bytes,
                         claim |-> IF list[i].program = "settlement"
                                   THEN BytesOf(Expected(list[i].call)) ELSE None]
<1>1. /\ list \in Seq(TxInstruction)
      /\ last \in Nat \ {0}
      /\ \A i \in 1 .. last : list[i] \in TxInstruction
      /\ \A i \in 1 .. last : list[i].program = "settlement" <=> i = last
  BY TransactionsAssumption
<1>2. list[last].program = "settlement" /\ list[last].call \in Calls
  BY <1>1 DEF TxInstruction
<1>3. BytesOf(Expected(list[last].call)) \in EdProofs!Triple
  BY <1>2, ExpectedIsSignature, BytesAreTriple
<1>4. ASSUME NEW i \in 1 .. last
      PROVE  filled(i) \in EdProofs!Instruction
  <2>1. /\ list[i].program \in {"ed25519", "settlement", "other"}
        /\ list[i].offsets \in Seq(EdProofs!Offsets)
        /\ list[i].bytes \in EdProofs!Bytes
    BY <1>1 DEF TxInstruction, Ed!Offsets, EdProofs!Offsets, EdProofs!Bytes
  <2>2. list[i].program = "settlement" => BytesOf(Expected(list[i].call)) \in EdProofs!Triple
    BY <1>1, <1>3
  <2> QED
    BY <2>1, <2>2 DEF EdProofs!Instruction
<1>5. WithClaim(list) = [i \in 1 .. last |-> filled(i)]
  BY <1>1 DEF WithClaim
<1> HIDE DEF filled
<1>6. WithClaim(list) \in Seq(EdProofs!Instruction)
  BY <1>1, <1>4, <1>5, IsASeq
<1>7. DOMAIN WithClaim(list) = 1 .. last /\ WithClaim(list)[last] = filled(last)
  BY <1>1, <1>5
<1> QED
  BY <1>1, <1>2, <1>6, <1>7 DEF filled

-----------------------------------------------------------------------------
(* The inductive invariant and the refinement *)

\* What was meant and what was produced: every signature EscrowProgram knows of
\* exists in bytes, and bytes that exist were either meant or made for another
\* program.
SignaturesMeant ==
    /\ \A s \in signed : BytesOf(s) \in signatures
    /\ \A b \in signatures : (\E s \in signed : b = BytesOf(s)) \/ b.message \in OtherMessages

TxInv == TypeOK /\ SignaturesMeant

\* release and resolve find in a transaction only what a judge has signed about
\* this very job, in this very role.
LEMMA ClaimWasMeant ==
    ASSUME TxInv, NEW list \in Transactions, Exists(list[Len(list)].call.job),
           Ed!GoesThrough(WithClaim(list))
    PROVE  list[Len(list)].call \in Calls /\ Expected(list[Len(list)].call) \in signed
<1> DEFINE call == list[Len(list)].call
           wanted == Expected(call)
<1>1. /\ WithClaim(list) \in Seq(EdProofs!Instruction)
      /\ Len(list) \in DOMAIN WithClaim(list)
      /\ WithClaim(list)[Len(list)].program = "settlement"
      /\ WithClaim(list)[Len(list)].claim = BytesOf(wanted)
      /\ call \in Calls
  BY WithClaimType DEF TxInv
<1>2. wanted \in Signature
  BY <1>1, ExpectedIsSignature DEF TxInv
<1> HIDE DEF wanted
<1>3. BytesOf(wanted) \in signatures
  <2>1. /\ BytesOf(wanted) \in EdProofs!Triple
        /\ Len(BytesOf(wanted).key) = 1
        /\ Len(BytesOf(wanted).message) = MESSAGE_LEN
        /\ Len(BytesOf(wanted).signature) = 1
    BY <1>2, BytesAreTriple
  <2> QED
    BY <1>1, <2>1, ClaimIsThere
<1>4. BytesOf(wanted).message \notin OtherMessages
  BY <1>2, BytesAreTriple, OtherMessagesAssumption
<1>5. PICK s \in signed : BytesOf(wanted) = BytesOf(s)
  BY <1>3, <1>4 DEF TxInv, SignaturesMeant
<1>6. s \in Signature
  BY <1>5 DEF TxInv, TypeOK
<1>7. wanted = s
  BY <1>2, <1>5, <1>6, BytesDecide
<1> QED
  BY <1>1, <1>5, <1>7 DEF wanted

\* A settlement by transaction is a release or a resolve of EscrowProgram.
LEMMA SettlementIsInstruction ==
    ASSUME TxInv, NEW list \in Transactions, SettleByTransaction(list)
    PROVE  Next
<1> DEFINE call == list[Len(list)].call
           j == call.job
           h == call.evidence_hash
           v == call.verdict
<1>1. /\ SettleWith(j, CoreEvent(call), wallet)
      /\ Ed!GoesThrough(WithClaim(list))
  BY DEF SettleByTransaction
<1>2. Exists(j)
  BY <1>1 DEF SettleWith, ApplyCore
<1>3. call \in Calls /\ Expected(call) \in signed
  BY <1>1, <1>2, ClaimWasMeant
<1>4. j \in JobIds /\ h \in EvidenceHashes /\ v \in Verdict
  BY <1>3 DEF Calls
<1>5. Release(j, h, v) \/ Resolve(j, h, v)
  <2>1. CASE call.instruction = "release"
    BY <1>1, <1>2, <1>3, <2>1 DEF Release, Expected, CoreEvent
  <2>2. CASE call.instruction # "release"
    BY <1>1, <1>2, <1>3, <2>2 DEF Resolve, Expected, CoreEvent
  <2> QED
    BY <2>1, <2>2
<1> HIDE DEF j, h, v
<1>6. Instruction(j)
  BY <1>4, <1>5 DEF Instruction
<1> QED
  BY <1>4, <1>6 DEF Next

\* Every step with bytes is a step EscrowProgram allows, or none at all.
LEMMA StepImplements == TxInv /\ [TxNext]_tx_vars => [Next]_vars
<1> SUFFICES ASSUME TxInv, [TxNext]_tx_vars PROVE [Next]_vars
  OBVIOUS
<1>1. ASSUME NEW list \in Transactions, SettleByTransaction(list)
      PROVE  Next
  BY <1>1, SettlementIsInstruction
<1>2. ASSUME NEW signature \in Signature, SignVerdict(signature)
      PROVE  Next
  BY <1>2 DEF SignVerdict, Next, World
<1>3. ASSUME NEW key \in Keys, NEW message \in OtherMessages, SignElsewhere(key, message)
      PROVE  UNCHANGED vars
  BY <1>3 DEF SignElsewhere
<1>4. ASSUME NEW j \in JobIds, OtherInstruction(j)
      PROVE  Next
  BY <1>4 DEF OtherInstruction, Next, World, Instruction
<1>5. ASSUME Tick \/ \E p \in Parties : OpenWallet(p) \/ CloseWallet(p)
      PROVE  Next
  BY <1>5 DEF Next, World
<1>6. CASE UNCHANGED tx_vars
  BY <1>6 DEF tx_vars, vars
<1> QED
  BY <1>1, <1>2, <1>3, <1>4, <1>5, <1>6 DEF TxNext

\* Signing leaves both records in step, and nothing else touches either.
LEMMA StepKeepsMeaning == TxInv /\ [TxNext]_tx_vars => SignaturesMeant'
<1> SUFFICES ASSUME TxInv, [TxNext]_tx_vars PROVE SignaturesMeant'
  OBVIOUS
<1>0. UNCHANGED <<signed, signatures>> => SignaturesMeant'
  BY DEF TxInv, SignaturesMeant
<1>1. ASSUME NEW list \in Transactions, SettleByTransaction(list)
      PROVE  SignaturesMeant'
  BY <1>0, <1>1 DEF SettleByTransaction, SettleWith
<1>2. ASSUME NEW signature \in Signature, SignVerdict(signature)
      PROVE  SignaturesMeant'
  BY <1>2 DEF SignVerdict, Sign, TxInv, SignaturesMeant
<1>3. ASSUME NEW key \in Keys, NEW message \in OtherMessages, SignElsewhere(key, message)
      PROVE  SignaturesMeant'
  BY <1>3 DEF SignElsewhere, vars, TxInv, SignaturesMeant
<1>4. ASSUME NEW j \in JobIds, OtherInstruction(j), UNCHANGED signatures
      PROVE  SignaturesMeant'
  BY <1>0, <1>4 DEF OtherInstruction, CreateJob, Fund, Dispute, SubmitEvidence,
                    CrankTimeout, OpenAndCrank, SettleWith
<1>5. ASSUME Tick \/ (\E p \in Parties : OpenWallet(p) \/ CloseWallet(p)), UNCHANGED signatures
      PROVE  SignaturesMeant'
  BY <1>0, <1>5 DEF Tick, OpenWallet, CloseWallet
<1>6. CASE UNCHANGED tx_vars
  BY <1>0, <1>6 DEF tx_vars
<1> QED
  BY <1>1, <1>2, <1>3, <1>4, <1>5, <1>6 DEF TxNext

\* The invariant holds of every behaviour of the transactions.
THEOREM TxInvariantHolds == TxSpec => []TxInv
<1>1. TxInit => TxInv
  BY InitType DEF TxInit, Init, TxInv, SignaturesMeant
<1>2. TxInv /\ [TxNext]_tx_vars => TxInv'
  BY StepImplements, StepKeepsMeaning, NextType DEF TxInv
<1> QED
  BY <1>1, <1>2, PTL DEF TxSpec

\* Whatever transactions anyone packs together, out of whatever bytes, the
\* program does only what EscrowProgram allows with the verdicts that were meant
\* (release and resolve, signed_verdict_message, require_previous_ed25519).
THEOREM AlwaysImplementsProgram == TxSpec => ImplementsProgram
<1>1. TxInit => Init
  BY DEF TxInit
<1> QED
  BY <1>1, StepImplements, TxInvariantHolds, PTL DEF TxSpec, ImplementsProgram, Spec

\* So the bytes keep the promise too: each job goes through the phases of
\* EscrowPromise, however its verdicts travel.
COROLLARY TransactionsKeepPromise == TxSpec => KeepsPromise
  BY AlwaysImplementsProgram, AlwaysKeepsPromise, PTL DEF ImplementsProgram

-----------------------------------------------------------------------------
(* The inductive invariant.  A process that has failed does nothing more, so   *)
(* what the properties say of the end is carried by the runs that have not.    *)

\* The next step to be executed: the one main is at, or the one after it when
\* main has yet to hear that its transaction has landed.
Reached == IF landed THEN After[pc] ELSE pc

\* What a transaction on its way says, whether or not its sender is still there.
TxMeant ==
    tx # None =>
        /\ tx.step = "create_job" =>
              /\ tx.argument.spec_hash = SpecHash
              /\ tx.argument.amount = PRICE
              /\ tx.argument.verifier = VerifierKey
              /\ tx.argument.arbiter = ArbiterKey
              /\ tx.argument.windows \in Windows
              /\ tx.argument.provider = Provider
        /\ tx.step = "submit_evidence" => tx.argument = EvidenceHash
        /\ tx.step = "release" => tx.argument \in Verdict

DemoTypeOK ==
    /\ TypeOK
    /\ clock >= 0
    /\ skew \in Skews
    /\ spec_deadline = skew + Hour
    /\ delivered \in Int \cup {None}
    /\ landed \in BOOLEAN
    /\ TxMeant

\* main sends one transaction per step and does not go on before it has landed.
OnCourse ==
    /\ pc \in DOMAIN After \cup {"done"}
    /\ tx # None => tx.step = pc
    /\ landed => tx # None /\ pc \in DOMAIN After
    /\ pc = "submit_evidence" /\ tx # None => delivered \in Int
    /\ pc \in {"release", "done"} => delivered \in Int
    /\ pc = "release" /\ tx # None => tx.argument = Assess(JobSpec, Evidence)

LockedUp == escrow[DemoJob] = PRICE /\ wallet[Payer] = 0 /\ wallet[Provider] = 0

IsDemoJob ==
    /\ Exists(DemoJob)
    /\ jobs[DemoJob].buyer = Payer
    /\ jobs[DemoJob].provider = Provider
    /\ ToCore(DemoJob).amount = PRICE

Outcome ==
    LET in_time == delivered <= spec_deadline
    IN  /\ Exists(DemoJob)
        /\ ToCore(DemoJob).state = IF in_time THEN "Released" ELSE "Refunded"
        /\ Balance(Provider) = IF in_time THEN PRICE ELSE 0
        /\ Balance(Payer) = IF in_time THEN 0 ELSE PRICE
        /\ escrow[DemoJob] = 0

\* What the program holds when `step` is the next to be executed.  From the moment
\* the job is funded a stranger's crank may have settled it first.
Situation(step) ==
    /\ step \in {"create_mint", "create_atas_and_mint_to", "create_job"} => ~Exists(DemoJob)
    /\ step \in {"create_mint", "create_atas_and_mint_to", "create_job", "fund"} =>
          escrow[DemoJob] = 0
    /\ step \in {"create_job", "fund"} => wallet[Payer] = PRICE /\ wallet[Provider] = 0
    /\ step \in {"fund", "submit_evidence", "release", "done"} => IsDemoJob
    /\ step = "fund" => ToCore(DemoJob).state = "Created"
    /\ step = "submit_evidence" =>
          \/ ToCore(DemoJob).state \in Settled
          \/ ToCore(DemoJob).state = "Funded" /\ LockedUp
    /\ step = "release" =>
          \/ ToCore(DemoJob).state \in Settled
          \/ ToCore(DemoJob).state = "UnderReview" /\ LockedUp
    /\ step = "done" => Outcome

DemoInv == DemoTypeOK /\ (pc # "failed" => OnCourse /\ Situation(Reached))

-----------------------------------------------------------------------------
(* Type correctness *)

\* Both of the demo's acceptance items are measured, so the assessment is a
\* verdict, and the date decides which.
LEMMA AssessmentIsVerdict ==
    ASSUME delivered \in Int \cup {None}, spec_deadline \in Int
    PROVE  /\ Assess(JobSpec, Evidence) \in Verdict
           /\ delivered \in Int =>
                 Assess(JobSpec, Evidence) =
                     IF delivered <= spec_deadline THEN "Pass" ELSE "Fail"
<1> DEFINE item(check) == EvaluateItem(JobSpec, Evidence, check)
<1>1. item("dimensions_within_tolerance") = "Passed"
  BY ClocksAssumption
     DEF EvaluateItem, DimensionsWithinTolerance, JobSpec, Evidence, UnsignedAbs
<1>2. item("delivered_before_deadline") =
          IF delivered # None /\ delivered <= spec_deadline THEN "Passed" ELSE "Failed"
  BY DEF EvaluateItem, DeliveredBeforeDeadline, JobSpec, Evidence
<1>3. {item(check) : check \in JobSpec.acceptance} =
          {"Passed", IF delivered # None /\ delivered <= spec_deadline
                     THEN "Passed" ELSE "Failed"}
  BY <1>1, <1>2 DEF JobSpec
<1>4. Assess(JobSpec, Evidence) =
          IF delivered # None /\ delivered <= spec_deadline THEN "Pass" ELSE "Fail"
  BY <1>3 DEF Assess
<1> QED
  BY <1>4, ClocksAssumption DEF Verdict

\* What the client sends is what TxMeant says.
LEMMA TermsMeant ==
    ASSUME DemoTypeOK, clock <= LastStart
    PROVE  /\ Terms.windows \in Windows
           /\ Terms.spec_hash = SpecHash /\ Terms.amount = PRICE
           /\ Terms.verifier = VerifierKey /\ Terms.arbiter = ArbiterKey
           /\ Terms.provider = Provider
<1>1. /\ clock \in Int /\ clock >= 0 /\ LastStart \in Int
      /\ skew \in Int
      /\ skew + Hour \in I64 /\ LastStart + skew + Hour \in I64
      /\ Hour \in 0 .. MaxI64 /\ HalfHour \in 0 .. MaxI64
  BY ClocksAssumption DEF DemoTypeOK, TypeOK, I64
<1>2. /\ Now + Hour \in I64 /\ Hour \in I64 /\ HalfHour \in I64
  BY <1>1, MaxI64Assumption DEF Now, I64, MinI64
<1> QED
  BY <1>2 DEF Terms, Windows

\* A step of the demo is a step of the program's, but for the two transactions
\* that set it up.
LEMMA ProgramSteps ==
    ASSUME DemoTypeOK, [DemoNext]_all_vars
    PROVE  \/ [Next]_vars
           \/ CreateAtasAndMintTo
           \/ tx # None /\ tx.step = "create_job" /\ CreateJob(DemoJob, Payer, tx.argument)
<1>1. CASE Client
  <2>1. CASE SendRelease
    <3>1. Assess(JobSpec, Evidence) \in Verdict
      BY AssessmentIsVerdict, ClocksAssumption DEF DemoTypeOK
    <3>2. \E signature \in Signature : Sign(signature)
      BY <2>1, <3>1, DemoAssumption DEF SendRelease, Signature, Message
    <3> QED
      BY <3>2 DEF Next, World
  <2> QED
    BY <1>1, <2>1 DEF Client, SendSetup, SendCreateJob, SendSubmitEvidence, Confirm, GiveUp, vars
<1>2. CASE Land
  <2>1. CASE tx.step = "fund" /\ Fund(DemoJob, Payer)
    BY <2>1, DemoAssumption DEF Next, Instruction
  <2>2. CASE tx.step = "submit_evidence" /\ SubmitEvidence(DemoJob, Provider, tx.argument)
    BY <1>2, <2>2, DemoAssumption DEF Land, DemoTypeOK, TxMeant, Next, Instruction
  <2>3. CASE tx.step = "release" /\ Release(DemoJob, EvidenceHash, tx.argument)
    BY <1>2, <2>3, DemoAssumption DEF Land, DemoTypeOK, TxMeant, Next, Instruction
  <2>4. CASE CreateMint
    BY <2>4 DEF CreateMint
  <2> QED
    BY <1>2, <2>1, <2>2, <2>3, <2>4 DEF Land
<1>3. CASE Strangers
  BY <1>3, DemoAssumption DEF Strangers, Next, World
<1>4. CASE UNCHANGED all_vars
  BY <1>4 DEF all_vars
<1> QED
  BY <1>1, <1>2, <1>3, <1>4 DEF DemoNext

\* The program's state keeps its types in the demo as well.
LEMMA ProgramType ==
    ASSUME DemoTypeOK, [DemoNext]_all_vars
    PROVE  TypeOK' /\ clock' >= 0
<1>1. CASE [Next]_vars
  <2>1. TypeOK'
    BY <1>1, NextType DEF DemoTypeOK
  <2>2. ASSUME NEW j \in JobIds, Instruction(j)
        PROVE  clock' = clock
    BY <2>2 DEF Instruction, CreateJob, Fund, Dispute, SubmitEvidence, Release, Resolve,
                CrankTimeout, SettleWith
  <2>3. clock' = clock \/ clock' = clock + 1
    <3>1. CASE World
      <4>1. ASSUME NEW j \in JobIds, OpenAndCrank(j)
            PROVE  clock' = clock
        BY <4>1 DEF OpenAndCrank, SettleWith
      <4> QED
        BY <3>1, <4>1 DEF World, Tick, Sign, OpenWallet, CloseWallet, Donate
    <3> QED
      BY <1>1, <2>2, <3>1 DEF Next, vars
  <2> QED
    BY <2>1, <2>3 DEF DemoTypeOK, TypeOK, I64
<1>2. CASE CreateAtasAndMintTo
  <2>1. wallet' \in [Parties -> Nat \cup {None}]
    BY <1>2, DemoAssumption, AmountsAssumption DEF CreateAtasAndMintTo, DemoTypeOK, TypeOK
  <2> QED
    BY <1>2, <2>1, DemoAssumption DEF CreateAtasAndMintTo, DemoTypeOK, TypeOK
<1>3. CASE tx # None /\ tx.step = "create_job" /\ CreateJob(DemoJob, Payer, tx.argument)
  <2> DEFINE terms == tx.argument
             account == [core |-> Created(DemoJob, terms.spec_hash, terms.amount, terms.verifier,
                                          terms.arbiter, terms.windows),
                         buyer |-> Payer, provider |-> terms.provider]
  <2>1. /\ terms.spec_hash \in SpecHashes /\ terms.amount \in Amounts
        /\ terms.verifier \in Keys /\ terms.arbiter \in Keys
        /\ terms.windows \in Windows /\ terms.provider \in Parties
    BY <1>3, DemoAssumption DEF DemoTypeOK, TxMeant
  <2>2. account \in Account
    <3> HIDE DEF terms
    <3> QED
      BY <2>1, DemoAssumption DEF Account, Created, Job, State
  <2>3. /\ jobs' = [jobs EXCEPT ![DemoJob] = account]
        /\ signer' = Payer
        /\ UNCHANGED <<clock, wallet, escrow, donated, signed>>
    BY <1>3 DEF CreateJob
  <2> HIDE DEF account, terms
  <2> QED
    BY <2>2, <2>3, DemoAssumption DEF DemoTypeOK, TypeOK
<1> QED
  BY <1>1, <1>2, <1>3, ProgramSteps

\* Every step keeps the types, and a transaction keeps its meaning.
LEMMA DemoNextType ==
    ASSUME DemoTypeOK, [DemoNext]_all_vars
    PROVE  DemoTypeOK'
<1>1. TypeOK' /\ clock' >= 0
  BY ProgramType
<1>2. /\ UNCHANGED <<skew, spec_deadline>>
      /\ landed' \in BOOLEAN
  BY DEF DemoTypeOK, DemoNext, Client, SendSetup, SendCreateJob, SendSubmitEvidence, SendRelease,
         Send, Confirm, GiveUp, Land, Strangers, all_vars, demo_vars
<1>3. delivered' \in Int \cup {None}
  <2>1. CASE SendSubmitEvidence
    BY <2>1, ClocksAssumption DEF SendSubmitEvidence, Now, DemoTypeOK, TypeOK, I64
  <2>2. SendSubmitEvidence \/ delivered' = delivered
    BY DEF DemoNext, Client, SendSetup, SendCreateJob, SendRelease,
           Confirm, GiveUp, Land, Strangers, all_vars, demo_vars
  <2> QED
    BY <2>1, <2>2 DEF DemoTypeOK
<1>4. TxMeant'
  <2>1. CASE SendSetup
    BY <2>1 DEF SendSetup, Send, TxMeant
  <2>2. CASE SendCreateJob
    BY <2>2, TermsMeant DEF SendCreateJob, Send, TxMeant
  <2>3. CASE SendSubmitEvidence
    BY <2>3 DEF SendSubmitEvidence, Send, TxMeant
  <2>4. CASE SendRelease
    <3>1. Assess(JobSpec, Evidence) \in Verdict
      BY AssessmentIsVerdict, ClocksAssumption DEF DemoTypeOK
    <3> QED
      BY <2>4, <3>1 DEF SendRelease, Send, TxMeant
  <2>5. CASE tx' = tx
    BY <2>5 DEF DemoTypeOK, TxMeant
  <2>6. CASE tx' = None
    BY <2>6 DEF TxMeant
  <2> QED
    BY <2>1, <2>2, <2>3, <2>4, <2>5, <2>6
       DEF DemoNext, Client, Confirm, GiveUp, Land, Strangers, all_vars, demo_vars
<1> QED
  BY <1>1, <1>2, <1>3, <1>4 DEF DemoTypeOK


-----------------------------------------------------------------------------
(* The course of the client *)

\* The order of the steps, spelt out.
LEMMA Order ==
    /\ DOMAIN After = {"create_mint", "create_atas_and_mint_to", "create_job", "fund",
                       "submit_evidence", "release"}
    /\ After["create_mint"] = "create_atas_and_mint_to"
    /\ After["create_atas_and_mint_to"] = "create_job"
    /\ After["create_job"] = "fund"
    /\ After["fund"] = "submit_evidence"
    /\ After["submit_evidence"] = "release"
    /\ After["release"] = "done"
  BY DEF After

\* A process that has failed stays where it is.
LEMMA FailedForGood ==
    ASSUME [DemoNext]_all_vars, pc = "failed"
    PROVE  pc' = "failed"
<1>1. ASSUME NEW step \in DOMAIN After, NEW argument, Send(step, argument)
      PROVE  FALSE
  BY <1>1, Order DEF Send
<1> QED
  BY <1>1, Order
     DEF DemoNext, Client, SendSetup, SendCreateJob, SendSubmitEvidence, SendRelease,
         Send, Confirm, GiveUp, Land, Strangers, all_vars, demo_vars

\* What sending does to the client.
LEMMA SendEffect ==
    ASSUME NEW step, NEW argument, Send(step, argument), OnCourse
    PROVE  /\ pc = step /\ pc' = pc
           /\ tx' = [step |-> step, argument |-> argument]
           /\ ~landed /\ ~landed'
           /\ UNCHANGED <<skew, spec_deadline>>
  BY DEF Send, OnCourse

\* The client keeps to the order, with the evidence dated before it is sent.
LEMMA CourseKept ==
    ASSUME DemoTypeOK, OnCourse, [DemoNext]_all_vars, pc' # "failed"
    PROVE  OnCourse'
<1> USE Order
<1>1. CASE SendSetup
  <2>1. PICK step \in {"create_mint", "create_atas_and_mint_to", "fund"} : Send(step, None)
    BY <1>1 DEF SendSetup
  <2> QED
    BY <1>1, <2>1, SendEffect DEF SendSetup, OnCourse
<1>2. CASE SendCreateJob
  BY <1>2, SendEffect DEF SendCreateJob, OnCourse
<1>3. CASE SendSubmitEvidence
  <2>1. Now \in Int
    BY ClocksAssumption DEF Now, DemoTypeOK, TypeOK, I64
  <2> QED
    BY <1>3, <2>1, SendEffect DEF SendSubmitEvidence, OnCourse
<1>4. CASE SendRelease
  <2>1. /\ Send("release", Assess(JobSpec, Evidence))
        /\ UNCHANGED delivered
    BY <1>4 DEF SendRelease
  <2>2. /\ pc = "release" /\ pc' = pc /\ ~landed'
        /\ tx' = [step |-> "release", argument |-> Assess(JobSpec, Evidence)]
        /\ UNCHANGED <<skew, spec_deadline>>
    BY <2>1, SendEffect
  <2>3. JobSpec' = JobSpec /\ Evidence' = Evidence
    BY <2>1, <2>2 DEF JobSpec, Evidence
  <2>4. Assess(JobSpec, Evidence)' = Assess(JobSpec, Evidence)
    BY <2>3
  <2> QED
    BY <2>1, <2>2, <2>4 DEF OnCourse
<1>5. CASE Confirm
  BY <1>5 DEF Confirm, OnCourse
<1>6. CASE UNCHANGED <<pc, tx, landed, delivered, spec_deadline>>
  <2>1. JobSpec' = JobSpec /\ Evidence' = Evidence
    BY <1>6 DEF JobSpec, Evidence
  <2>2. Assess(JobSpec, Evidence)' = Assess(JobSpec, Evidence)
    BY <2>1
  <2> QED
    BY <1>6, <2>2 DEF OnCourse
<1>7. CASE Land
  <2>1. JobSpec' = JobSpec /\ Evidence' = Evidence
    BY <1>7 DEF JobSpec, Evidence, Land
  <2>2. Assess(JobSpec, Evidence)' = Assess(JobSpec, Evidence)
    BY <2>1
  <2>3. tx # None /\ tx.step \in DOMAIN After
    BY <1>7 DEF Land
  <2>4. pc \in DOMAIN After
    BY <2>3 DEF OnCourse
  <2>5. UNCHANGED <<pc, tx, delivered>>
    BY <1>7 DEF Land
  <2> QED
    BY <2>2, <2>3, <2>4, <2>5 DEF OnCourse
<1> QED
  BY <1>1, <1>2, <1>3, <1>4, <1>5, <1>6, <1>7
     DEF DemoNext, Client, GiveUp, Strangers, all_vars, demo_vars

-----------------------------------------------------------------------------
(* The situation, step by step *)

\* What leaves the job and the money alone leaves the situation as it is.
LEMMA SituationKept ==
    ASSUME UNCHANGED <<jobs, wallet, escrow, spec_deadline>>
    PROVE  \A step : Situation(step) /\ (delivered' = delivered \/ step # "done")
                        => Situation(step)'
<1>1. /\ Exists(DemoJob)' <=> Exists(DemoJob)
      /\ ToCore(DemoJob)' = ToCore(DemoJob)
      /\ \A p : Balance(p)' = Balance(p)
  BY DEF Exists, ToCore, Balance
<1>2. IsDemoJob' <=> IsDemoJob
  BY <1>1 DEF IsDemoJob
<1>3. LockedUp' <=> LockedUp
  BY DEF LockedUp
<1>4. delivered' = delivered => (Outcome' <=> Outcome)
  BY <1>1 DEF Outcome
<1> QED
  BY <1>1, <1>2, <1>3, <1>4 DEF Situation

\* A stranger who opens a token account opens neither party's, once these are open.
LEMMA SituationOpened ==
    ASSUME DemoTypeOK, NEW p \in Parties, OpenWallet(p), UNCHANGED demo_vars
    PROVE  \A step : Situation(step) => Situation(step)'
<1>1. /\ UNCHANGED <<jobs, escrow, delivered, spec_deadline>>
      /\ wallet[p] = None
      /\ \A q \in Parties : wallet'[q] = IF q = p THEN 0 ELSE wallet[q]
  BY DEF OpenWallet, demo_vars, DemoTypeOK, TypeOK
<1>2. /\ Exists(DemoJob)' <=> Exists(DemoJob)
      /\ ToCore(DemoJob)' = ToCore(DemoJob)
  BY <1>1 DEF Exists, ToCore
<1>3. \A q \in Parties : Balance(q)' = Balance(q)
  BY <1>1 DEF Balance
<1>4. IsDemoJob' <=> IsDemoJob
  BY <1>1, <1>2 DEF IsDemoJob
<1>5. \A q \in Parties : wallet[q] # None => wallet'[q] = wallet[q]
  BY <1>1
<1>6. LockedUp => LockedUp'
  BY <1>1, <1>5, DemoAssumption, TokensAssumption DEF LockedUp
<1>7. Outcome => Outcome'
  BY <1>1, <1>2, <1>3, DemoAssumption DEF Outcome
<1>8. wallet[Payer] = PRICE /\ wallet[Provider] = 0
         => wallet'[Payer] = PRICE /\ wallet'[Provider] = 0
  BY <1>5, DemoAssumption, TokensAssumption, AmountsAssumption
<1> QED
  BY <1>1, <1>2, <1>4, <1>6, <1>7, <1>8 DEF Situation

\* A crank settles a job that holds money, and finds nothing to do otherwise.
LEMMA SituationCranked ==
    ASSUME DemoTypeOK, OpenAndCrank(DemoJob)
    PROVE  \A step \in DOMAIN After \cup {"done"} : Situation(step) =>
              /\ step \in {"submit_evidence", "release"}
              /\ Situation(step)'
<1> DEFINE accounts == [p \in Parties |->
               IF p \in {jobs[DemoJob].buyer, jobs[DemoJob].provider}
               THEN Balance(p) ELSE wallet[p]]
<1>1. SettleWith(DemoJob, TimeoutEvent, accounts) /\ Exists(DemoJob)
  BY DEF OpenAndCrank
<1>2. accounts \in [Parties -> Nat \cup {None}]
  BY OpenedWalletsType, DemoAssumption DEF DemoTypeOK
<1> HIDE DEF accounts
<1>3. TimeoutEvent \in Event /\ TimeoutEvent.type = "Timeout"
  BY EventsAreEvents DEF TimeoutEvent
<1>4. ApplyCore(DemoJob, TimeoutEvent)
  BY <1>1 DEF SettleWith
<1>5. /\ jobs[DemoJob] \in Account
      /\ ToCore(DemoJob) \in Job
      /\ Accepts(ToCore(DemoJob), TimeoutEvent, clock)
      /\ jobs'[DemoJob] \in Account
      /\ jobs'[DemoJob].core = Applied(ToCore(DemoJob), TimeoutEvent, clock)
      /\ jobs'[DemoJob].buyer = jobs[DemoJob].buyer
      /\ jobs'[DemoJob].provider = jobs[DemoJob].provider
  BY <1>3, <1>4, ApplyCoreEffect, DemoAssumption DEF DemoTypeOK
<1>6. /\ ToCore(DemoJob).state \in Locked
      /\ jobs'[DemoJob].core.state \in Settled
      /\ SameTerms(ToCore(DemoJob), jobs'[DemoJob].core)
  BY <1>3, <1>5, AcceptedByType, AppliedKeepsTerms DEF DemoTypeOK, TypeOK
<1>7. /\ Exists(DemoJob)'
      /\ ToCore(DemoJob)' = jobs'[DemoJob].core
      /\ IsDemoJob => IsDemoJob'
  BY <1>5, <1>6, NoneIsNoAccount DEF Exists, ToCore, IsDemoJob, SameTerms
<1>8. Outcome => ToCore(DemoJob).state \in Settled
  BY DEF Outcome, Settled
<1> QED
  BY <1>1, <1>6, <1>7, <1>8, Order DEF Situation, Locked, Settled

\* An instruction on the demo's job leaves it the demo's job.
LEMMA StaysDemoJob ==
    ASSUME DemoTypeOK, NEW event \in Event, ApplyCore(DemoJob, event), IsDemoJob
    PROVE  IsDemoJob'
<1>1. /\ jobs[DemoJob] \in Account
      /\ ToCore(DemoJob) \in Job
      /\ Accepts(ToCore(DemoJob), event, clock)
      /\ jobs'[DemoJob] \in Account
      /\ jobs'[DemoJob].core = Applied(ToCore(DemoJob), event, clock)
      /\ jobs'[DemoJob].buyer = jobs[DemoJob].buyer
      /\ jobs'[DemoJob].provider = jobs[DemoJob].provider
  BY ApplyCoreEffect, DemoAssumption DEF DemoTypeOK
<1>2. SameTerms(ToCore(DemoJob), jobs'[DemoJob].core)
  BY <1>1, AppliedKeepsTerms DEF DemoTypeOK, TypeOK
<1> QED
  BY <1>1, <1>2, NoneIsNoAccount DEF Exists, ToCore, IsDemoJob, SameTerms

\* create_job, sent by the client.
LEMMA LandCreateJob ==
    ASSUME DemoTypeOK, Situation("create_job"), tx # None, tx.step = "create_job",
           CreateJob(DemoJob, Payer, tx.argument)
    PROVE  Situation("fund")'
<1> DEFINE terms == tx.argument
           account == [core |-> Created(DemoJob, terms.spec_hash, terms.amount, terms.verifier,
                                        terms.arbiter, terms.windows),
                       buyer |-> Payer, provider |-> terms.provider]
<1>1. terms.amount = PRICE /\ terms.provider = Provider
  BY DEF DemoTypeOK, TxMeant
<1>2. /\ account.buyer = Payer /\ account.provider = Provider
      /\ account.core.amount = PRICE /\ account.core.state = "Created"
  BY <1>1 DEF Created
<1>3. /\ jobs' = [jobs EXCEPT ![DemoJob] = account]
      /\ UNCHANGED <<wallet, escrow>>
  BY DEF CreateJob
<1>4. account \in Account
  <2>1. /\ terms.spec_hash \in SpecHashes /\ terms.amount \in Amounts
        /\ terms.verifier \in Keys /\ terms.arbiter \in Keys
        /\ terms.windows \in Windows /\ terms.provider \in Parties
    BY DemoAssumption DEF DemoTypeOK, TxMeant
  <2> HIDE DEF terms
  <2> QED
    BY <2>1, DemoAssumption DEF Account, Created, Job, State
<1> HIDE DEF account, terms
<1>5. jobs'[DemoJob] = account
  BY <1>3, DemoAssumption DEF DemoTypeOK, TypeOK
<1>6. IsDemoJob' /\ ToCore(DemoJob)'.state = "Created"
  BY <1>2, <1>4, <1>5, NoneIsNoAccount DEF IsDemoJob, Exists, ToCore
<1> QED
  BY <1>3, <1>6 DEF Situation

\* fund: the whole price goes from the payer into the escrow.
LEMMA LandFund ==
    ASSUME DemoTypeOK, Situation("fund"), Fund(DemoJob, Payer)
    PROVE  Situation("submit_evidence")'
<1>1. FundEvent \in Event /\ FundEvent.type = "Fund" /\ ApplyCore(DemoJob, FundEvent)
  BY EventsAreEvents DEF FundEvent, Fund
<1>2. IsDemoJob'
  BY <1>1, StaysDemoJob DEF Situation
<1>3. ToCore(DemoJob)'.state = "Funded"
  BY <1>1, EventMoves, DemoAssumption DEF DemoTypeOK, ToCore
<1>4. /\ ToCore(DemoJob).amount = PRICE
      /\ wallet[Payer] = PRICE /\ wallet[Provider] = 0 /\ escrow[DemoJob] = 0
  BY DEF Situation, IsDemoJob
<1>5. /\ wallet' = [wallet EXCEPT ![Payer] = wallet[Payer] - PRICE]
      /\ escrow' = [escrow EXCEPT ![DemoJob] = escrow[DemoJob] + PRICE]
  BY <1>4 DEF Fund
<1>6. LockedUp'
  BY <1>4, <1>5, DemoAssumption, AmountsAssumption DEF LockedUp, DemoTypeOK, TypeOK
<1> QED
  BY <1>2, <1>3, <1>6 DEF Situation

\* submit_evidence: a job that a crank has settled takes none.
LEMMA LandSubmitEvidence ==
    ASSUME DemoTypeOK, Situation("submit_evidence"),
           SubmitEvidence(DemoJob, Provider, EvidenceHash)
    PROVE  Situation("release")'
<1> DEFINE event == SubmitEvent(EvidenceHash)
<1>1. event \in Event /\ event.type = "SubmitEvidence" /\ ApplyCore(DemoJob, event)
  BY EventsAreEvents, DemoAssumption DEF SubmitEvent, SubmitEvidence
<1> HIDE DEF event
<1>2. IsDemoJob'
  BY <1>1, StaysDemoJob DEF Situation
<1>3. ToCore(DemoJob)'.state = "UnderReview"
  BY <1>1, EventMoves, DemoAssumption DEF DemoTypeOK, ToCore
<1>4. ToCore(DemoJob).state = "Funded"
  BY <1>1, ApplyCoreEffect, AcceptedByType, DemoAssumption DEF DemoTypeOK, TypeOK
<1>5. LockedUp'
  BY <1>4 DEF Situation, Settled, SubmitEvidence, LockedUp
<1> QED
  BY <1>2, <1>3, <1>5 DEF Situation

\* release: the verdict is the one the evidence deserves, and the price goes where
\* it says.
LEMMA LandRelease ==
    ASSUME DemoTypeOK, Situation("release"), delivered \in Int,
           UNCHANGED <<delivered, spec_deadline>>,
           NEW verdict, verdict = Assess(JobSpec, Evidence),
           Release(DemoJob, EvidenceHash, verdict)
    PROVE  Situation("done")'
<1> DEFINE event == ReleaseEvent(EvidenceHash, verdict)
           in_time == delivered <= spec_deadline
<1>1. verdict \in Verdict /\ verdict = IF in_time THEN "Pass" ELSE "Fail"
  BY AssessmentIsVerdict, ClocksAssumption DEF DemoTypeOK
<1>2. /\ event \in Event /\ event.type = "Release" /\ event.verdict = verdict
      /\ SettleWith(DemoJob, event, wallet)
  BY <1>1, EventsAreEvents, DemoAssumption DEF ReleaseEvent, Release
<1> HIDE DEF event
<1>3. ApplyCore(DemoJob, event)
  BY <1>2 DEF SettleWith
<1>4. /\ jobs[DemoJob] \in Account
      /\ ToCore(DemoJob) \in Job
      /\ Accepts(ToCore(DemoJob), event, clock)
      /\ jobs'[DemoJob].core = Applied(ToCore(DemoJob), event, clock)
      /\ clock \in I64
  BY <1>2, <1>3, ApplyCoreEffect, DemoAssumption DEF DemoTypeOK, TypeOK
<1>5. /\ ToCore(DemoJob).state = "UnderReview"
      /\ ToCore(DemoJob)'.state = IF in_time THEN "Released" ELSE "Refunded"
  BY <1>1, <1>2, <1>4, AcceptedByType DEF SettledBy, ToCore
<1>6. LockedUp /\ IsDemoJob /\ PRICE \in Nat
  BY <1>5, DemoAssumption, AmountsAssumption DEF Situation, Settled
<1>7. IsDemoJob'
  BY <1>2, <1>3, <1>6, StaysDemoJob
<1>8. wallet \in [Parties -> Nat \cup {None}]
  BY DEF DemoTypeOK, TypeOK
<1>9. escrow'[DemoJob] = 0
  BY <1>2, <1>6, <1>8, SettleEffect, DemoAssumption DEF DemoTypeOK, TypeOK, LockedUp, IsDemoJob
<1>10. /\ Balance(Payer) = 0 /\ Balance(Provider) = 0
       /\ ToCore(DemoJob).amount = PRICE
       /\ jobs[DemoJob].buyer = Payer /\ jobs[DemoJob].provider = Provider
  BY <1>6, TokensAssumption DEF LockedUp, Balance, IsDemoJob
<1> DEFINE payee == IF jobs'[DemoJob].core.state = "Released"
                    THEN jobs[DemoJob].provider ELSE jobs[DemoJob].buyer
           paid(p) == IF p = payee THEN ToCore(DemoJob).amount ELSE 0
<1>11. \A p \in Parties : Balance(p)' = Balance(p) + paid(p)
  BY <1>2, <1>8, SettlePays, DemoAssumption DEF DemoTypeOK
<1>12. payee = IF in_time THEN Provider ELSE Payer
  BY <1>5, <1>10 DEF ToCore
<1>13. /\ Balance(Provider)' = IF in_time THEN PRICE ELSE 0
       /\ Balance(Payer)' = IF in_time THEN 0 ELSE PRICE
  BY <1>6, <1>10, <1>11, <1>12, DemoAssumption
<1>14. Outcome'
  BY <1>5, <1>7, <1>9, <1>13 DEF Outcome, IsDemoJob
<1> QED
  BY <1>7, <1>14 DEF Situation

\* Whatever lands brings about the situation of the next step.
LEMMA SituationLanded ==
    ASSUME DemoTypeOK, OnCourse, Situation(pc), Land
    PROVE  Situation(After[pc])'
<1> USE Order
<1>1. /\ tx # None /\ tx.step = pc /\ pc' = pc
      /\ UNCHANGED <<skew, spec_deadline, delivered>>
  BY DEF Land, OnCourse
<1>2. CASE pc = "create_mint" /\ CreateMint
  <2>1. Situation("create_atas_and_mint_to")
    BY <1>2 DEF Situation
  <2>2. UNCHANGED <<jobs, wallet, escrow, spec_deadline>>
    BY <1>1, <1>2 DEF CreateMint, vars
  <2>3. Situation("create_atas_and_mint_to")'
    BY <1>1, <2>1, <2>2, SituationKept
  <2> QED
    BY <1>1, <1>2, <2>3
<1>3. CASE pc = "create_atas_and_mint_to" /\ CreateAtasAndMintTo
  <2>1. /\ UNCHANGED <<jobs, escrow>>
        /\ wallet' = [wallet EXCEPT ![Payer] = PRICE, ![Provider] = 0]
    BY <1>3 DEF CreateAtasAndMintTo
  <2>2. wallet'[Payer] = PRICE /\ wallet'[Provider] = 0
    BY <2>1, DemoAssumption DEF DemoTypeOK, TypeOK
  <2>3. Situation("create_job")'
    BY <1>3, <2>1, <2>2 DEF Situation, Exists
  <2> QED
    BY <1>1, <1>3, <2>3
<1>4. CASE pc = "create_job" /\ CreateJob(DemoJob, Payer, tx.argument)
  BY <1>1, <1>4, LandCreateJob
<1>5. CASE pc = "fund" /\ Fund(DemoJob, Payer)
  BY <1>1, <1>5, LandFund
<1>6. CASE pc = "submit_evidence" /\ SubmitEvidence(DemoJob, Provider, tx.argument)
  <2>1. tx.argument = EvidenceHash
    BY <1>1, <1>6 DEF DemoTypeOK, TxMeant
  <2> QED
    BY <1>1, <1>6, <2>1, LandSubmitEvidence
<1>7. CASE pc = "release" /\ Release(DemoJob, EvidenceHash, tx.argument)
  <2>1. delivered \in Int /\ tx.argument = Assess(JobSpec, Evidence)
    BY <1>1, <1>7 DEF OnCourse
  <2>2. PICK verdict : verdict = tx.argument
    OBVIOUS
  <2>3. Situation("done")'
    BY <1>1, <1>7, <2>1, <2>2, LandRelease
  <2> QED
    BY <1>1, <1>7, <2>3
<1> QED
  BY <1>1, <1>2, <1>3, <1>4, <1>5, <1>6, <1>7 DEF Land

\* The situation follows the client and the cluster.
LEMMA SituationFollows ==
    ASSUME DemoTypeOK, OnCourse, Situation(Reached), [DemoNext]_all_vars, pc' # "failed"
    PROVE  Situation(Reached)'
<1> USE Order
<1>1. PICK step : step = Reached
  OBVIOUS
<1>2. Situation(step) /\ step \in DOMAIN After \cup {"done"}
  BY <1>1 DEF OnCourse, Reached
<1>3. SUFFICES ASSUME ~(Land /\ Situation(Reached)')
               PROVE  Reached' = step /\ Situation(step)'
  BY DEF Situation
<1>4. CASE SendSetup \/ SendCreateJob \/ SendSubmitEvidence \/ SendRelease
  <2>1. \E other \in DOMAIN After : \E argument : Send(other, argument)
    BY <1>4 DEF SendSetup, SendCreateJob, SendSubmitEvidence, SendRelease
  <2>2. pc' = pc /\ ~landed /\ ~landed' /\ UNCHANGED spec_deadline
    BY <2>1, SendEffect
  <2>3. UNCHANGED <<jobs, wallet, escrow>>
    BY <1>4 DEF SendSetup, SendCreateJob, SendSubmitEvidence, SendRelease, Sign, vars
  <2>4. delivered' = delivered \/ pc = "submit_evidence"
    BY <1>4, SendEffect DEF SendSetup, SendCreateJob, SendSubmitEvidence, SendRelease, Send
  <2>5. Reached' = step /\ step = pc
    BY <1>1, <2>2 DEF Reached
  <2> QED
    BY <1>2, <2>2, <2>3, <2>4, <2>5, SituationKept
<1>5. CASE Confirm
  <2>1. Reached' = step
    BY <1>1, <1>5 DEF Confirm, Reached
  <2>2. UNCHANGED <<jobs, wallet, escrow, spec_deadline, delivered>>
    BY <1>5 DEF Confirm, vars
  <2> QED
    BY <1>2, <2>1, <2>2, SituationKept
<1>6. CASE Land
  <2>1. ~landed /\ landed' /\ pc' = pc /\ pc \in DOMAIN After
    BY <1>6 DEF Land, OnCourse, DemoTypeOK
  <2>2. Situation(After[pc])'
    BY <1>1, <1>2, <1>6, <2>1, SituationLanded DEF Reached
  <2>3. Situation(Reached)'
    BY <2>1, <2>2 DEF Reached
  <2> QED
    BY <1>3, <1>6, <2>3
<1>7. CASE Strangers
  <2>1. Reached' = step /\ UNCHANGED <<delivered, spec_deadline>>
    BY <1>1, <1>7 DEF Strangers, demo_vars, Reached
  <2>2. CASE Tick
    BY <1>2, <2>1, <2>2, SituationKept DEF Tick
  <2>3. CASE OpenAndCrank(DemoJob)
    BY <1>2, <2>1, <2>3, SituationCranked
  <2>4. ASSUME NEW p \in Parties, OpenWallet(p)
        PROVE  Situation(step)'
    BY <1>2, <1>7, <2>4, SituationOpened DEF Strangers
  <2> QED
    BY <1>7, <2>1, <2>2, <2>3, <2>4 DEF Strangers
<1>8. CASE UNCHANGED all_vars
  <2>1. Reached' = step
    BY <1>1, <1>8 DEF all_vars, demo_vars, Reached
  <2>2. UNCHANGED <<jobs, wallet, escrow, spec_deadline, delivered>>
    BY <1>8 DEF all_vars, demo_vars, vars
  <2> QED
    BY <1>2, <2>1, <2>2, SituationKept
<1>9. ~GiveUp
  BY DEF GiveUp
<1> QED
  BY <1>4, <1>5, <1>6, <1>7, <1>8, <1>9 DEF DemoNext, Client

-----------------------------------------------------------------------------
(* The theorems *)

\* The demo starts with nothing in place, and every step keeps the invariant.
THEOREM DemoInvariantHolds == DemoSpec => []DemoInv
<1>1. DemoInit => DemoInv
  <2> SUFFICES ASSUME DemoInit PROVE DemoInv
    OBVIOUS
  <2>1. DemoTypeOK
    <3>1. TypeOK
      BY MaxI64Assumption DEF DemoInit, TypeOK, I64, MinI64
    <3>2. TxMeant
      BY DEF DemoInit, TxMeant
    <3>3. clock >= 0
      BY DEF DemoInit
    <3>4. skew \in Skews /\ spec_deadline = skew + Hour
      BY DEF DemoInit
    <3>5. delivered \in Int \cup {None} /\ landed \in BOOLEAN
      BY DEF DemoInit
    <3> QED
      BY <3>1, <3>2, <3>3, <3>4, <3>5, Zenon DEF DemoTypeOK
  <2>2. OnCourse
    BY Order DEF DemoInit, OnCourse
  <2>3. Situation(Reached)
    BY DemoAssumption DEF DemoInit, Reached, Situation, Exists
  <2> QED
    BY <2>1, <2>2, <2>3 DEF DemoInv
<1>2. DemoInv /\ [DemoNext]_all_vars => DemoInv'
  <2> SUFFICES ASSUME DemoInv, [DemoNext]_all_vars PROVE DemoInv'
    OBVIOUS
  <2>1. DemoTypeOK'
    BY DemoNextType DEF DemoInv
  <2>2. ASSUME pc' # "failed" PROVE OnCourse' /\ Situation(Reached)'
    <3>1. pc # "failed"
      BY <2>2, FailedForGood
    <3>2. DemoTypeOK /\ OnCourse /\ Situation(Reached)
      BY <3>1 DEF DemoInv
    <3> QED
      BY <2>2, <3>2, CourseKept, SituationFollows
  <2> QED
    BY <2>1, <2>2 DEF DemoInv
<1> QED
  BY <1>1, <1>2, PTL DEF DemoSpec

\* The program's state keeps its types in the demo, and no balance goes below
\* zero, whatever lands after the client has gone.
THEOREM DemoTypeCorrect == DemoSpec => []TypeOK
<1>1. DemoInv => TypeOK
  BY DEF DemoInv, DemoTypeOK
<1> QED
  BY <1>1, DemoInvariantHolds, PTL

\* A demo that reaches its end has settled the job as the evidence deserves, and
\* the whole price lies with the party the verdict names.
THEOREM AlwaysDoneAsDelivered == DemoSpec => []DoneAsDelivered
<1>1. DemoInv => DoneAsDelivered
  <2> SUFFICES ASSUME DemoInv, pc = "done" PROVE Outcome
    BY DEF DoneAsDelivered, Outcome
  <2>1. OnCourse /\ Situation(Reached)
    BY DEF DemoInv
  <2>2. Reached = "done"
    BY <2>1, Order DEF OnCourse, Reached
  <2> QED
    BY <2>1, <2>2 DEF Situation
<1> QED
  BY <1>1, DemoInvariantHolds, PTL


-----------------------------------------------------------------------------
(* What a demo that dies leaves behind *)

Possessed == Balance(Payer) + Balance(Provider) + escrow[DemoJob]

\* The price is somewhere, also when main has failed and its transactions land
\* without it.  Once the job is funded all of it is, and the payer has an account.
PriceAccounted ==
    /\ donated[DemoJob] = 0
    /\ Possessed \in {0, PRICE}
    /\ Exists(DemoJob) => IsDemoJob
    /\ (Exists(DemoJob) /\ ToCore(DemoJob).state # "Created") =>
          /\ Possessed = PRICE
          /\ wallet[Payer] # None

\* The safety half of NothingIsStranded: what the escrow holds is the whole price,
\* which anybody may send on its way once the windows of the terms have passed; and
\* a settled job has left none of it behind.
PriceIsSafe ==
    /\ escrow[DemoJob] > 0 =>
          LET w == ToCore(DemoJob).windows
          IN  /\ Exists(DemoJob)
              /\ escrow[DemoJob] = PRICE
              /\ (clock > w.evidence_deadline /\ clock > LastReview(w) /\ clock > LastRuling(w))
                 => Accepts(ToCore(DemoJob), TimeoutEvent, clock)
    /\ (Exists(DemoJob) /\ ToCore(DemoJob).state \in Settled) =>
          /\ escrow[DemoJob] = 0
          /\ Balance(Payer) + Balance(Provider) = PRICE

\* Balances are numbers.
LEMMA PossessedType ==
    ASSUME TypeOK
    PROVE  /\ Balance(Payer) \in Nat /\ Balance(Provider) \in Nat
           /\ escrow[DemoJob] \in Nat /\ PRICE \in Nat
  BY DemoAssumption, AmountsAssumption DEF TypeOK, Balance

\* A wallet's balance after a step, by what became of its account.
LEMMA BalanceAfter ==
    ASSUME NEW p \in Parties, wallet'[p] = wallet[p] \/ (wallet[p] = None /\ wallet'[p] = 0)
    PROVE  Balance(p)' = Balance(p)
<1>1. wallet'[p] = wallet[p] => Balance(p)' = Balance(p)
  BY DEF Balance
<1>2. wallet[p] = None /\ wallet'[p] = 0 => Balance(p)' = 0 /\ Balance(p) = 0
  BY TokensAssumption DEF Balance
<1> QED
  BY <1>1, <1>2

\* The transaction of main that puts the job on chain keeps the accounts the
\* records of jobs, and moves no money.
LEMMA LandedJobIsAJob ==
    ASSUME DemoTypeOK, AccountsAreJobs, EscrowMatchesState, tx # None, tx.step = "create_job",
           CreateJob(DemoJob, Payer, tx.argument)
    PROVE  /\ AccountsAreJobs'
           /\ EscrowMatchesState'
           /\ IsDemoJob'
           /\ ToCore(DemoJob)'.state = "Created"
           /\ ~Exists(DemoJob)
           /\ UNCHANGED <<wallet, escrow, donated>>
<1> DEFINE terms == tx.argument
           core == Created(DemoJob, terms.spec_hash, terms.amount, terms.verifier,
                           terms.arbiter, terms.windows)
           account == [core |-> core, buyer |-> Payer, provider |-> terms.provider]
<1>1. terms.amount = PRICE /\ terms.provider = Provider
  BY DEF DemoTypeOK, TxMeant
<1>2. /\ jobs' = [jobs EXCEPT ![DemoJob] = account]
      /\ ~Exists(DemoJob)
      /\ UNCHANGED <<wallet, escrow, donated>>
  BY DEF CreateJob
<1>3. /\ core.job_id = DemoJob /\ core.state = "Created" /\ core.amount = PRICE
      /\ core.evidence_hash = None /\ core.review_deadline = None
      /\ core.arbitration_deadline = None
  BY <1>1 DEF Created
<1>4. account.core = core /\ account.buyer = Payer /\ account.provider = Provider
  BY <1>1
<1>5. account \in Account
  <2>1. /\ terms.spec_hash \in SpecHashes /\ terms.amount \in Amounts
        /\ terms.verifier \in Keys /\ terms.arbiter \in Keys
        /\ terms.windows \in Windows /\ terms.provider \in Parties
    BY DemoAssumption DEF DemoTypeOK, TxMeant
  <2> HIDE DEF terms
  <2> QED
    BY <2>1, DemoAssumption DEF Account, Created, Job, State
<1> HIDE DEF account, core, terms
<1>6. /\ jobs'[DemoJob] = account
      /\ \A k \in JobIds \ {DemoJob} : jobs'[k] = jobs[k]
  BY <1>2, DemoAssumption DEF DemoTypeOK, TypeOK
<1>7. IsDemoJob' /\ ToCore(DemoJob)'.state = "Created"
  BY <1>3, <1>4, <1>5, <1>6, NoneIsNoAccount DEF IsDemoJob, Exists, ToCore
<1>8. WellFormedJob(core) /\ BoundedJob(core)
  BY <1>3 DEF WellFormedJob, BoundedJob
<1>9. AccountsAreJobs'
  <2>1. ASSUME NEW k \in JobIds, jobs'[k] # None
        PROVE  /\ jobs'[k].core.job_id = k
               /\ WellFormedJob(jobs'[k].core)
               /\ BoundedJob(jobs'[k].core)
    <3>1. CASE k = DemoJob
      BY <1>3, <1>4, <1>6, <1>8, <3>1
    <3>2. CASE k # DemoJob
      BY <1>6, <2>1, <3>2 DEF AccountsAreJobs, Exists, ToCore
    <3> QED
      BY <3>1, <3>2
  <2> QED
    BY <2>1 DEF AccountsAreJobs, Exists, ToCore
<1>10. EscrowMatchesState'
  <2>1. Owed(jobs[DemoJob]) = 0
    BY <1>2 DEF Owed, Exists
  <2>2. Owed(jobs'[DemoJob]) = 0
    BY <1>3, <1>4, <1>6 DEF Owed, Locked
  <2> QED
    BY <1>2, <1>6, <2>1, <2>2, EscrowAsOwed
<1> QED
  BY <1>2, <1>7, <1>9, <1>10

\* A settlement of the demo's job, by verdict or by clock, passes the price on.
LEMMA SettlementAccounted ==
    ASSUME DemoTypeOK, PriceAccounted, NEW event \in Event,
           event.type \in {"Release", "Resolve", "Timeout"},
           NEW accounts \in [Parties -> Nat \cup {None}],
           \A p \in Parties : accounts[p] = wallet[p] \/ (wallet[p] = None /\ accounts[p] = 0),
           SettleWith(DemoJob, event, accounts)
    PROVE  PriceAccounted'
<1>1. /\ ApplyCore(DemoJob, event)
      /\ escrow' = [escrow EXCEPT ![DemoJob] = @ - ToCore(DemoJob).amount]
      /\ donated' = donated
  BY SettleEffect, DemoAssumption DEF DemoTypeOK
<1>2. IsDemoJob /\ IsDemoJob'
  BY <1>1, StaysDemoJob DEF PriceAccounted, ApplyCore
<1>3. ToCore(DemoJob).state # "Created"
  BY <1>1, ApplyCoreEffect, AcceptedByType, DemoAssumption
     DEF DemoTypeOK, TypeOK, Locked
<1>4. Possessed = PRICE /\ wallet[Payer] # None
  BY <1>2, <1>3 DEF PriceAccounted, IsDemoJob
<1>5. PICK payee \in {Payer, Provider} :
         \A p \in Parties :
            /\ Balance(p)' = Balance(p) + IF p = payee THEN PRICE ELSE 0
            /\ wallet[p] # None => wallet'[p] # None
  <2> DEFINE to == IF jobs'[DemoJob].core.state = "Released"
                   THEN jobs[DemoJob].provider ELSE jobs[DemoJob].buyer
  <2>1. to \in {Payer, Provider} /\ ToCore(DemoJob).amount = PRICE
    BY <1>2 DEF IsDemoJob
  <2>2. \A p \in Parties :
           /\ Balance(p)' = Balance(p) + IF p = to THEN ToCore(DemoJob).amount ELSE 0
           /\ wallet[p] # None => wallet'[p] # None
    BY SettlePays, DemoAssumption DEF DemoTypeOK
  <2> QED
    BY <2>1, <2>2
<1>6. escrow'[DemoJob] = escrow[DemoJob] - PRICE
  BY <1>1, <1>2, DemoAssumption DEF IsDemoJob, DemoTypeOK, TypeOK
<1>7. Balance(Payer)' + Balance(Provider)' = Balance(Payer) + Balance(Provider) + PRICE
  BY <1>5, PossessedType, DemoAssumption DEF DemoTypeOK
<1>8. Balance(Payer)' \in Nat /\ Balance(Provider)' \in Nat
  <2>1. \A p \in {Payer, Provider} : Balance(p) \in Nat /\ PRICE \in Nat
    BY PossessedType DEF DemoTypeOK
  <2> QED
    BY <1>5, <2>1, DemoAssumption
<1>9. Possessed' = PRICE
  BY <1>4, <1>6, <1>7, <1>8, PossessedType DEF Possessed, DemoTypeOK
<1> QED
  BY <1>1, <1>2, <1>4, <1>5, <1>9, DemoAssumption DEF PriceAccounted

\* fund: the payer can only pay with the price he was given.
LEMMA FundAccounted ==
    ASSUME DemoTypeOK, PriceAccounted, Fund(DemoJob, Payer)
    PROVE  PriceAccounted'
<1>1. FundEvent \in Event /\ ApplyCore(DemoJob, FundEvent)
  BY EventsAreEvents DEF Fund
<1>2. IsDemoJob /\ IsDemoJob'
  BY <1>1, StaysDemoJob DEF PriceAccounted, ApplyCore
<1>3. /\ wallet[Payer] # None /\ wallet[Payer] >= PRICE
      /\ wallet' = [wallet EXCEPT ![Payer] = wallet[Payer] - PRICE]
      /\ escrow' = [escrow EXCEPT ![DemoJob] = escrow[DemoJob] + PRICE]
      /\ donated' = donated
  BY <1>2 DEF Fund, IsDemoJob
<1>4. wallet[Payer] \in Nat /\ PRICE \in Nat /\ wallet[Payer] - PRICE \in Nat
  BY <1>3, PossessedType, DemoAssumption DEF DemoTypeOK, TypeOK
<1>5. /\ Balance(Payer) = wallet[Payer]
      /\ Balance(Payer)' = wallet[Payer] - PRICE
      /\ Balance(Provider)' = Balance(Provider)
      /\ wallet'[Payer] # None
      /\ escrow'[DemoJob] = escrow[DemoJob] + PRICE
  <2>1. wallet'[Payer] = wallet[Payer] - PRICE /\ wallet'[Provider] = wallet[Provider]
    BY <1>3, DemoAssumption DEF DemoTypeOK, TypeOK
  <2>2. escrow'[DemoJob] = escrow[DemoJob] + PRICE
    BY <1>3, DemoAssumption DEF DemoTypeOK, TypeOK
  <2> QED
    BY <1>3, <1>4, <2>1, <2>2, TokensAssumption DEF Balance
<1>6. Possessed = PRICE /\ Possessed' = Possessed
  <2>1. Possessed' = Possessed
    BY <1>4, <1>5, PossessedType DEF Possessed, DemoTypeOK
  <2>2. Possessed >= PRICE
    BY <1>3, <1>4, <1>5, PossessedType DEF Possessed, DemoTypeOK
  <2> QED
    BY <1>4, <2>1, <2>2 DEF PriceAccounted
<1> QED
  BY <1>2, <1>3, <1>5, <1>6 DEF PriceAccounted

\* Each transaction of main that lands keeps the price accounted for, at whichever
\* step main is and whether or not it has failed.
LEMMA LandAccounted ==
    ASSUME DemoTypeOK, AccountsAreJobs, EscrowMatchesState, PriceAccounted, Land
    PROVE  PriceAccounted'
<1>1. CASE CreateMint
  BY <1>1 DEF CreateMint, vars, PriceAccounted, Possessed, Balance, IsDemoJob, Exists, ToCore
<1>2. CASE CreateAtasAndMintTo
  <2>1. /\ wallet[Payer] = None /\ wallet[Provider] = None
        /\ UNCHANGED <<jobs, escrow, donated>>
        /\ wallet'[Payer] = PRICE /\ wallet'[Provider] = 0
    BY <1>2, DemoAssumption DEF CreateAtasAndMintTo, DemoTypeOK, TypeOK
  <2>2. ~(Exists(DemoJob) /\ ToCore(DemoJob).state # "Created")
    BY <2>1 DEF PriceAccounted
  <2>3. escrow[DemoJob] = 0
    <3>1. Owed(jobs[DemoJob]) = 0
      BY <2>2 DEF Owed, Exists, ToCore, Locked
    <3> QED
      BY <3>1, EscrowAsOwed, DemoAssumption DEF PriceAccounted
  <2>4. Possessed' = PRICE
    BY <2>1, <2>3, PossessedType, TokensAssumption DEF Possessed, Balance, DemoTypeOK
  <2> QED
    BY <2>1, <2>2, <2>4 DEF PriceAccounted, IsDemoJob, Exists, ToCore
<1>3. CASE tx.step = "create_job" /\ CreateJob(DemoJob, Payer, tx.argument)
  <2>1. /\ IsDemoJob' /\ ToCore(DemoJob)'.state = "Created"
        /\ UNCHANGED <<wallet, escrow, donated>>
    BY <1>3, LandedJobIsAJob DEF Land
  <2>2. Possessed' = Possessed
    BY <2>1 DEF Possessed, Balance
  <2> QED
    BY <2>1, <2>2 DEF PriceAccounted
<1>4. CASE Fund(DemoJob, Payer)
  BY <1>4, FundAccounted
<1>5. CASE tx.step = "submit_evidence" /\ SubmitEvidence(DemoJob, Provider, tx.argument)
  <2> DEFINE event == SubmitEvent(tx.argument)
  <2>1. event \in Event /\ event.type = "SubmitEvidence" /\ ApplyCore(DemoJob, event)
    BY <1>5, EventsAreEvents, DemoAssumption
       DEF SubmitEvent, SubmitEvidence, Land, DemoTypeOK, TxMeant
  <2>2. UNCHANGED <<wallet, escrow, donated>>
    BY <1>5 DEF SubmitEvidence
  <2> HIDE DEF event
  <2>3. IsDemoJob /\ IsDemoJob'
    BY <2>1, StaysDemoJob DEF PriceAccounted, ApplyCore
  <2>4. ToCore(DemoJob).state = "Funded"
    BY <2>1, ApplyCoreEffect, AcceptedByType, DemoAssumption DEF DemoTypeOK, TypeOK
  <2>5. Possessed' = Possessed
    BY <2>2 DEF Possessed, Balance
  <2> QED
    BY <2>2, <2>3, <2>4, <2>5 DEF PriceAccounted, IsDemoJob
<1>6. CASE tx.step = "release" /\ Release(DemoJob, EvidenceHash, tx.argument)
  <2> DEFINE event == ReleaseEvent(EvidenceHash, tx.argument)
  <2>1. event \in Event /\ event.type = "Release"
    BY <1>6, EventsAreEvents, DemoAssumption DEF ReleaseEvent, Land, DemoTypeOK, TxMeant
  <2>2. SettleWith(DemoJob, event, wallet)
    BY <1>6 DEF Release
  <2>3. wallet \in [Parties -> Nat \cup {None}]
    BY DEF DemoTypeOK, TypeOK
  <2> HIDE DEF event
  <2> QED
    BY <2>1, <2>2, <2>3, SettlementAccounted
<1> QED
  BY <1>1, <1>2, <1>3, <1>4, <1>5, <1>6 DEF Land

\* So does every step of the client and of strangers.
LEMMA PriceStaysAccounted ==
    ASSUME DemoTypeOK, AccountsAreJobs, EscrowMatchesState, PriceAccounted,
           [DemoNext]_all_vars
    PROVE  PriceAccounted'
<1>1. CASE UNCHANGED <<jobs, wallet, escrow, donated>>
  BY <1>1 DEF PriceAccounted, Possessed, Balance, IsDemoJob, Exists, ToCore
<1>2. CASE Client
  BY <1>1, <1>2 DEF Client, SendSetup, SendCreateJob, SendSubmitEvidence, SendRelease, Sign,
                    Confirm, GiveUp, vars
<1>3. CASE OpenAndCrank(DemoJob)
  <2> DEFINE accounts == [p \in Parties |->
                 IF p \in {jobs[DemoJob].buyer, jobs[DemoJob].provider}
                 THEN Balance(p) ELSE wallet[p]]
  <2>1. SettleWith(DemoJob, TimeoutEvent, accounts)
    BY <1>3 DEF OpenAndCrank
  <2>2. accounts \in [Parties -> Nat \cup {None}]
    BY OpenedWalletsType, DemoAssumption DEF DemoTypeOK
  <2>3. \A p \in Parties : accounts[p] = wallet[p] \/ (wallet[p] = None /\ accounts[p] = 0)
    BY DEF Balance
  <2>4. TimeoutEvent \in Event /\ TimeoutEvent.type = "Timeout"
    BY EventsAreEvents DEF TimeoutEvent
  <2> HIDE DEF accounts
  <2> QED
    BY <2>1, <2>2, <2>3, <2>4, SettlementAccounted
<1>4. ASSUME NEW p \in Parties, OpenWallet(p)
      PROVE  PriceAccounted'
  <2>1. /\ UNCHANGED <<jobs, escrow, donated>>
        /\ wallet[p] = None
        /\ \A q \in Parties : wallet'[q] = IF q = p THEN 0 ELSE wallet[q]
    BY <1>4 DEF OpenWallet, DemoTypeOK, TypeOK
  <2>2. \A q \in Parties : Balance(q)' = Balance(q)
    BY <2>1, BalanceAfter
  <2>3. Possessed' = Possessed
    BY <2>1, <2>2, DemoAssumption DEF Possessed
  <2>4. wallet[Payer] # None => wallet'[Payer] # None
    BY <2>1, DemoAssumption
  <2> QED
    BY <2>1, <2>3, <2>4 DEF PriceAccounted, IsDemoJob, Exists, ToCore
<1>5. CASE Tick
  BY <1>1, <1>5 DEF Tick
<1> QED
  BY <1>1, <1>2, <1>3, <1>4, <1>5, LandAccounted DEF DemoNext, Strangers, all_vars, vars

\* Every step keeps the accounts the records of jobs and the money with them.
LEMMA DemoKeepsAccounts ==
    ASSUME DemoTypeOK, AccountsAreJobs, EscrowMatchesState, [DemoNext]_all_vars
    PROVE  AccountsAreJobs' /\ EscrowMatchesState'
<1>1. CASE [Next]_vars
  BY <1>1, NextAccounts, NextMoney DEF DemoTypeOK
<1>2. CASE CreateAtasAndMintTo
  <2>1. UNCHANGED <<jobs, escrow, donated>>
    BY <1>2 DEF CreateAtasAndMintTo
  <2> QED
    BY <2>1 DEF AccountsAreJobs, EscrowMatchesState, Exists, ToCore
<1>3. CASE tx # None /\ tx.step = "create_job" /\ CreateJob(DemoJob, Payer, tx.argument)
  BY <1>3, LandedJobIsAJob
<1> QED
  BY <1>1, <1>2, <1>3, ProgramSteps

\* Wherever main dies and whatever lands afterwards, the escrow holds all of the
\* price or none of it, what it holds can be cranked out by anybody in the end, and
\* once it is out the two parties have all of it.
THEOREM PriceAlwaysSafe == DemoSpec => []PriceIsSafe
<1>1. DemoInit => AccountsAreJobs /\ EscrowMatchesState /\ PriceAccounted
  <2> SUFFICES ASSUME DemoInit
               PROVE  AccountsAreJobs /\ EscrowMatchesState /\ PriceAccounted
    OBVIOUS
  <2>1. /\ ~Exists(DemoJob) /\ escrow[DemoJob] = 0 /\ donated[DemoJob] = 0
        /\ Balance(Payer) = 0 /\ Balance(Provider) = 0
    BY DemoAssumption DEF DemoInit, Exists, Balance
  <2> QED
    BY <2>1 DEF DemoInit, AccountsAreJobs, EscrowMatchesState, Exists, PriceAccounted, Possessed
<1>2. /\ DemoInv /\ AccountsAreJobs /\ EscrowMatchesState /\ PriceAccounted
      /\ [DemoNext]_all_vars
      => AccountsAreJobs' /\ EscrowMatchesState' /\ PriceAccounted'
  BY DemoKeepsAccounts, PriceStaysAccounted DEF DemoInv
<1>3. DemoInv /\ AccountsAreJobs /\ EscrowMatchesState /\ PriceAccounted => PriceIsSafe
  <2> SUFFICES ASSUME DemoInv, AccountsAreJobs, EscrowMatchesState, PriceAccounted
               PROVE  PriceIsSafe
    OBVIOUS
  <2> DEFINE core == ToCore(DemoJob)
  <2>1. TypeOK /\ TermsBoundTheLock
    BY WindowsBoundTheLock DEF DemoInv, DemoTypeOK
  <2>2. escrow[DemoJob] = Owed(jobs[DemoJob])
    BY <2>1, EscrowAsOwed, DemoAssumption, PossessedType DEF PriceAccounted, Owed, IsDemoJob,
       Exists, ToCore
  <2>3. ASSUME escrow[DemoJob] > 0
        PROVE  Exists(DemoJob) /\ core.state \in Locked /\ escrow[DemoJob] = PRICE
    BY <2>2, <2>3 DEF Owed, Exists, ToCore, PriceAccounted, IsDemoJob
  <2>4. ASSUME Exists(DemoJob), core.state \in Settled
        PROVE  escrow[DemoJob] = 0 /\ Balance(Payer) + Balance(Provider) = PRICE
    <3>1. escrow[DemoJob] = 0
      BY <2>2, <2>4 DEF Owed, Settled, Locked, ToCore
    <3>2. Possessed = PRICE
      BY <2>4 DEF PriceAccounted, Settled
    <3> QED
      BY <2>1, <3>1, <3>2, PossessedType DEF Possessed
  <2> QED
    BY <2>1, <2>3, <2>4, DemoAssumption DEF PriceIsSafe, TermsBoundTheLock
<1> QED
  BY <1>1, <1>2, <1>3, DemoInvariantHolds, PTL DEF DemoSpec
================================================================================
