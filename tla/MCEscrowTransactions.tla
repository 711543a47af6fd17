------------------------- MODULE MCEscrowTransactions -------------------------
(***************************************************************************)
(* One job of Alice's and Bob's, two bundles Bob may submit, and every way *)
(* to hand one judge's words to the other's instruction.                   *)
(***************************************************************************)
EXTENDS EscrowTransactions

CONSTANTS alice, bob, kv, ka, s1, j1, e1, e2, sig, att, rul, oth

TheContract ==
    {[spec_hash |-> s1, amount |-> 2, verifier |-> kv, arbiter |-> ka, provider |-> bob,
      windows |-> [evidence_deadline |-> 1, review |-> 1, arbitration |-> 1]]}

AliceHasTwo == [p \in {alice, bob} |-> IF p = alice THEN 2 ELSE 0]

TwoTags == [attestation |-> att, ruling |-> rul]
PassIsZero == [Pass |-> 0, Fail |-> 1]

\* What a judge may sign for this program or another, laid out like a verdict.
Payloads ==
    {<<tag, j1, s1, h, b>> : tag \in Tags, h \in EvidenceHashes, b \in {0, 1}}

ForeignMessages == {<<oth, j1, s1, e1, 0>>}

At(key, signature, message, index) ==
    [public_key_offset |-> key, public_key_instruction_index |-> CURRENT_INSTRUCTION,
     signature_offset |-> signature, signature_instruction_index |-> CURRENT_INSTRUCTION,
     message_data_offset |-> message, message_data_size |-> MESSAGE_LEN,
     message_instruction_index |-> index]

Ix(program, offsets, bytes) == [program |-> program, offsets |-> offsets, bytes |-> bytes]
SettleIx(call) ==
    [program |-> "settlement", offsets |-> <<>>, bytes |-> <<>>, call |-> call]

Wanted(call) ==
    <<IF call.instruction = "release" THEN att ELSE rul, j1, s1,
      call.evidence_hash, PassIsZero[call.verdict]>>

JudgeOf(call) == IF call.instruction = "release" THEN kv ELSE ka

\* The words wanted, and those that miss them in one field.
Near(call) == {m \in Payloads : Cardinality({i \in 1 .. MESSAGE_LEN : m[i] # Wanted(call)[i]}) <= 1}

\* The honest layout around any key and the words wanted or nearly those; the
\* same with a message of the judge's that lies in an instruction before it; and
\* no Ed25519 instruction at all.
SomeTransactions ==
    UNION {
        {<<Ix("ed25519", <<At(0, 1, 2, CURRENT_INSTRUCTION)>>, <<k, sig>> \o m), SettleIx(call)>> :
            k \in Keys, m \in Near(call)}
        \cup {<<Ix("other", <<>>, <<JudgeOf(call), sig>> \o m),
                Ix("ed25519", <<At(0, 1, 2, 0)>>, <<JudgeOf(call), sig>> \o Wanted(call)),
                SettleIx(call)>> : m \in Near(call)}
        \cup {<<SettleIx(call)>>}
        : call \in Calls}

=============================================================================
