-------------------------- MODULE EscrowTransactions --------------------------
(***************************************************************************)
(* EscrowProgram and Ed25519Check put together: settlement as the bytes of *)
(* a transaction.  EscrowProgram lets release and resolve go ahead when a  *)
(* judge has signed a verdict about the job.  Here judges leave bytes,     *)
(* anyone packs any bytes into a transaction, the runtime checks what the  *)
(* Ed25519 instruction points at, the program compares that with the bytes *)
(* it lays out from the job account, and the claim is that nothing else    *)
(* settles than what EscrowProgram allows.                                 *)
(*                                                                         *)
(* A key, a hash, a job id and a tag are one cell each; all signatures are *)
(* the same cell, so that only what the runtime verifies tells them apart. *)
(* A transaction holds at most one settlement, as its last instruction.    *)
(***************************************************************************)
EXTENDS EscrowProgram, Sequences

CONSTANTS
    Tags,           \* the first cells of messages: both domains and others
    DomainTag,      \* ATTESTATION_DOMAIN and RULING_DOMAIN
    VerdictByte,    \* Verdict::to_byte
    SignatureCell,
    CURRENT_INSTRUCTION,
    OtherMessages,  \* what judges sign with the same keys for other programs
    Transactions    \* settlement transactions anyone may send

MESSAGE_LEN == 5

Cells == Tags \cup JobIds \cup SpecHashes \cup EvidenceHashes \cup Keys \cup {SignatureCell}
         \cup {VerdictByte[v] : v \in Verdict}

\* The two domains differ, and so do the two verdicts: nothing else about the
\* codes matters.
ASSUME CodesAssumption ==
    /\ DomainTag \in [{"attestation", "ruling"} -> Tags]
    /\ DomainTag["attestation"] # DomainTag["ruling"]
    /\ VerdictByte["Pass"] # VerdictByte["Fail"]

\* Messages for other programs begin with none of this program's tags, or are
\* of another length.
ASSUME OtherMessagesAssumption ==
    \A m \in OtherMessages :
        /\ m \in Seq(Cells)
        /\ Len(m) # MESSAGE_LEN \/ m[1] \notin {DomainTag["attestation"], DomainTag["ruling"]}

ASSUME NoBytesAssumption ==
    /\ CURRENT_INSTRUCTION \notin 0 .. 255
    /\ None \notin Seq(Cells)

VARIABLE signatures   \* every signature ever produced, as bytes; `signed` says what was meant

tx_vars == <<clock, jobs, wallet, escrow, donated, signed, signer, signatures>>

Ed == INSTANCE Ed25519Check
        WITH signed <- signatures, accepted <- {}, KeyLen <- 1, SignatureLen <- 1,
             MessageLen <- MESSAGE_LEN, Triples <- {}, Transactions <- {}

-----------------------------------------------------------------------------
(* Bytes *)

\* Mutant: one tag for both roles.
OneTag(m) ==
    <<DomainTag["ruling"], m.job_id, m.spec_hash, m.evidence_hash, VerdictByte[m.verdict]>>

\* signed_verdict_message: fields of fixed width, end to end.
Encode(m) ==
    <<DomainTag[m.domain], m.job_id, m.spec_hash, m.evidence_hash, VerdictByte[m.verdict]>>

BytesOf(signature) ==
    [key |-> <<signature.key>>, message |-> Encode(signature.message),
     signature |-> <<SignatureCell>>]

\* The arguments of release and resolve, and the key and the message that the
\* program itself derives from the job account.
Calls == [instruction : {"release", "resolve"}, job : JobIds,
          evidence_hash : EvidenceHashes, verdict : Verdict]

\* An instruction of a transaction: bytes for the precompile or for a program
\* that is none of ours, or one of the two calls.
TxInstruction ==
    [program : {"ed25519", "other"}, offsets : Seq(Ed!Offsets), bytes : Seq(Cells)]
    \cup [program : {"settlement"}, offsets : Seq(Ed!Offsets), bytes : Seq(Cells), call : Calls]

ASSUME TransactionsAssumption ==
    \A tx \in Transactions :
        /\ tx \in Seq(TxInstruction)
        /\ tx # <<>>
        /\ \A i \in DOMAIN tx : tx[i].program = "settlement" <=> i = Len(tx)

Expected(call) ==
    LET core == ToCore(call.job)
    IN  IF call.instruction = "release"
        THEN AttestationFor(core, call.evidence_hash, call.verdict)
        ELSE RulingFor(core, call.evidence_hash, call.verdict)

CoreEvent(call) ==
    IF call.instruction = "release"
    THEN ReleaseEvent(call.evidence_hash, call.verdict)
    ELSE ResolveEvent(call.evidence_hash, call.verdict)

\* The instructions as Ed25519Check takes them, with the claim filled in.
WithClaim(tx) ==
    [i \in DOMAIN tx |->
        [program |-> tx[i].program, offsets |-> tx[i].offsets, bytes |-> tx[i].bytes,
         claim |-> IF tx[i].program = "settlement" THEN BytesOf(Expected(tx[i].call)) ELSE None]]

-----------------------------------------------------------------------------
(* Steps *)

TxInit ==
    /\ Init
    /\ signatures = {}

\* release and resolve.
SettleByTransaction(tx) ==
    LET call == tx[Len(tx)].call
    IN  /\ SettleWith(call.job, CoreEvent(call), wallet)
        /\ Ed!GoesThrough(WithClaim(tx))
        /\ UNCHANGED signatures

SignVerdict(signature) ==
    /\ Cardinality(signatures) < MaxSigned
    /\ Sign(signature)
    /\ signatures' = signatures \cup {BytesOf(signature)}

SignElsewhere(key, message) ==
    /\ Cardinality(signatures) < MaxSigned
    /\ signatures' = signatures \cup
          {[key |-> <<key>>, message |-> message, signature |-> <<SignatureCell>>]}
    /\ UNCHANGED vars

OtherInstruction(j) ==
    \/ \E p \in Parties :
        \/ \E terms \in JobTerms : CreateJob(j, p, terms)
        \/ Fund(j, p)
        \/ Dispute(j, p)
        \/ \E h \in EvidenceHashes : SubmitEvidence(j, p, h)
    \/ CrankTimeout(j)
    \/ OpenAndCrank(j)

TxNext ==
    \/ \E tx \in Transactions : SettleByTransaction(tx)
    \/ \E signature \in Signature : SignVerdict(signature)
    \/ \E key \in Keys, message \in OtherMessages : SignElsewhere(key, message)
    \/ /\ \/ \E j \in JobIds : OtherInstruction(j)
          \/ Tick
          \/ \E p \in Parties : OpenWallet(p) \/ CloseWallet(p)
       /\ UNCHANGED signatures

TxSpec == TxInit /\ [][TxNext]_tx_vars

\* As in EscrowProgram: time passes and somebody cranks.
TxFairSpec ==
    /\ TxSpec
    /\ WF_tx_vars(Tick /\ UNCHANGED signatures)
    /\ \A j \in JobIds : WF_tx_vars(OpenAndCrank(j) /\ UNCHANGED signatures)

-----------------------------------------------------------------------------
(* Properties *)

\* Bytes do not matter: whatever transactions are sent, the program does only
\* what EscrowProgram allows it to do with the verdicts that were meant.  In
\* particular no signature counts in the other role, for another verdict, job or
\* evidence, or when it was made for something else altogether.
ImplementsProgram == Spec

=============================================================================
