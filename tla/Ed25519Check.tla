---------------------------- MODULE Ed25519Check ----------------------------
(***************************************************************************)
(* programs/settlement/src/ed25519.rs: how the program knows that a judge  *)
(* has signed.  It never verifies a signature.  The runtime does, once per *)
(* transaction, for every instruction addressed to the Ed25519 precompile, *)
(* over whatever bytes of the transaction that instruction points at; and  *)
(* release and resolve compare those bytes with the verdict they were      *)
(* handed.  EscrowProgram takes the outcome for granted, as the guard of   *)
(* its Release and Resolve.                                                *)
(*                                                                         *)
(* Data is a sequence of cells.  An instruction's numbers (the offsets in  *)
(* its header) stand beside its bytes: the runtime and the program read    *)
(* them from the same places.  Transactions are anything a client may put  *)
(* together.                                                               *)
(***************************************************************************)
EXTENDS Integers, Sequences, SequencesExt, FiniteSets

CONSTANTS
    Cells,          \* units of data
    KeyLen,         \* PUBKEY_LEN, in cells
    SignatureLen,   \* SIGNATURE_LEN, in cells
    MessageLen,     \* ATTESTATION_MESSAGE_LEN, in cells
    CURRENT_INSTRUCTION,   \* the index that means "this same instruction"
    None,           \* no such bytes
    Triples,        \* what keys may come to sign: [key, message, signature]
    Transactions,   \* sequences of instructions clients may send
    MaxSigned       \* bound on the number of signatures ever produced

ASSUME LengthsAssumption ==
    /\ {KeyLen, SignatureLen, MessageLen} \subseteq Nat \ {0}
    /\ CURRENT_INSTRUCTION \notin 0 .. 255

Bytes == Seq(Cells)

ASSUME NoneAssumption == None \notin Bytes

Triple == [key : Bytes, message : Bytes, signature : Bytes]

Offsets == [signature_offset : Nat, signature_instruction_index : Nat,
            public_key_offset : Nat, public_key_instruction_index : Nat,
            message_data_offset : Nat, message_data_size : Nat,
            message_instruction_index : Nat]

\* An instruction of any program.  `claim` is the verdict handed to a settlement
\* instruction, with the key and the message the program derives from the job.
Instruction == [program : {"ed25519", "settlement", "other"},
                offsets : Seq(Offsets), bytes : Bytes, claim : Triple \cup {None}]

ASSUME TriplesAssumption == Triples \subseteq Triple

ASSUME TransactionsAssumption ==
    /\ Transactions \subseteq Seq(Instruction)
    /\ \A tx \in Transactions : \A i \in DOMAIN tx :
          tx[i].program = "settlement" =>
              /\ tx[i].claim # None
              /\ Len(tx[i].claim.key) = KeyLen
              /\ Len(tx[i].claim.message) = MessageLen
              /\ Len(tx[i].claim.signature) = SignatureLen

VARIABLES
    signed,     \* every signature produced so far, over whatever message
    accepted    \* the claims release and resolve have acted on

vars == <<signed, accepted>>

Init ==
    /\ signed = {}
    /\ accepted = {}

-----------------------------------------------------------------------------
(* The program *)

\* Mutant: a slice may not end where the data does.
SliceBefore(data, offset, len) ==
    IF offset + len < Len(data) THEN SubSeq(data, offset + 1, offset + len) ELSE None

\* slice_at.
SliceAt(data, offset, len) ==
    IF offset + len <= Len(data) THEN SubSeq(data, offset + 1, offset + len) ELSE None

\* Mutant: the bytes may lie anywhere in the transaction.
SizeOnly(ix, claim) ==
    /\ Len(ix.offsets) = 1
    /\ ix.offsets[1].message_data_size = Len(claim.message)

\* parse_offsets, and the two checks that come before any byte is read: one
\* signature, all of it in this instruction, and a message of the right length.
WellAimed(ix, claim) ==
    /\ Len(ix.offsets) = 1
    /\ ix.offsets[1].signature_instruction_index = CURRENT_INSTRUCTION
    /\ ix.offsets[1].public_key_instruction_index = CURRENT_INSTRUCTION
    /\ ix.offsets[1].message_instruction_index = CURRENT_INSTRUCTION
    /\ ix.offsets[1].message_data_size = Len(claim.message)

\* verify_ed25519_ix_data.
VerifyIxData(ix, claim) ==
    /\ WellAimed(ix, claim)
    /\ SliceAt(ix.bytes, ix.offsets[1].public_key_offset, KeyLen) = claim.key
    /\ SliceAt(ix.bytes, ix.offsets[1].message_data_offset, Len(claim.message)) = claim.message
    /\ SliceAt(ix.bytes, ix.offsets[1].signature_offset, SignatureLen) = claim.signature

\* require_previous_ed25519: the instruction just before number i.
RequirePrevious(tx, i) ==
    /\ i > 1
    /\ tx[i - 1].program = "ed25519"
    /\ VerifyIxData(tx[i - 1], tx[i].claim)

-----------------------------------------------------------------------------
(* The runtime *)

\* The bytes that an index in the header of instruction i refers to.
Source(tx, i, index) ==
    IF index = CURRENT_INSTRUCTION THEN tx[i].bytes
    ELSE IF index + 1 \in DOMAIN tx THEN tx[index + 1].bytes
    ELSE <<>>

\* What the precompile verifies for one entry of the header.
Checked(tx, i, o) ==
    [key |-> SliceAt(Source(tx, i, o.public_key_instruction_index),
                     o.public_key_offset, KeyLen),
     message |-> SliceAt(Source(tx, i, o.message_instruction_index),
                         o.message_data_offset, o.message_data_size),
     signature |-> SliceAt(Source(tx, i, o.signature_instruction_index),
                           o.signature_offset, SignatureLen)]

\* The Ed25519 precompile: every entry must hold, or the transaction fails.
Precompile(tx, i) ==
    \A n \in DOMAIN tx[i].offsets : Checked(tx, i, tx[i].offsets[n]) \in signed

\* A transaction goes through whole or not at all.
GoesThrough(tx) ==
    \A i \in DOMAIN tx :
        /\ tx[i].program = "ed25519" => Precompile(tx, i)
        /\ tx[i].program = "settlement" => RequirePrevious(tx, i)

Send(tx) ==
    /\ GoesThrough(tx)
    /\ accepted' = accepted \cup
          {tx[i].claim : i \in {n \in DOMAIN tx : tx[n].program = "settlement"}}
    /\ UNCHANGED signed

\* Whoever holds a key signs whatever it likes, for this program or another.
Sign(triple) ==
    /\ Cardinality(signed) < MaxSigned
    /\ signed' = signed \cup {triple}
    /\ UNCHANGED accepted

Next ==
    \/ \E triple \in Triples : Sign(triple)
    \/ \E tx \in Transactions : Send(tx)

Spec == Init /\ [][Next]_vars

-----------------------------------------------------------------------------
(* Properties *)

\* The program acts on a verdict only if that very key has signed that very
\* message: no arrangement of offsets, indices and lengths makes the runtime
\* verify one thing and the program read another.
AcceptedIsSigned == accepted \subseteq signed

\* The transaction a client builds for a signature it holds: the key, the
\* signature and the message laid end to end, as the module's tests lay them out
\* (well_formed_ix_data) and Solana's own helper, which the demo calls; then the
\* settlement instruction.
ClientTransaction(t) ==
    LET offsets == [public_key_offset |-> 0, public_key_instruction_index |-> CURRENT_INSTRUCTION,
                    signature_offset |-> Len(t.key),
                    signature_instruction_index |-> CURRENT_INSTRUCTION,
                    message_data_offset |-> Len(t.key) + Len(t.signature),
                    message_data_size |-> Len(t.message),
                    message_instruction_index |-> CURRENT_INSTRUCTION]
    IN  << [program |-> "ed25519", offsets |-> <<offsets>>,
            bytes |-> t.key \o t.signature \o t.message, claim |-> None],
           [program |-> "settlement", offsets |-> <<>>, bytes |-> <<>>, claim |-> t] >>

\* A judge's signature is never useless: the transaction a client builds around
\* it goes through.
SignedIsAcceptable ==
    \A t \in signed :
        (/\ Len(t.key) = KeyLen
         /\ Len(t.message) = MessageLen
         /\ Len(t.signature) = SignatureLen)
        => GoesThrough(ClientTransaction(t))

=============================================================================
