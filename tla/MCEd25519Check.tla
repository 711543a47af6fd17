---------------------------- MODULE MCEd25519Check ----------------------------
(* Instances of Ed25519Check for TLC: keys and signatures of one cell, messages *)
(* of two, and signatures for other protocols over messages of one.             *)
EXTENDS Ed25519Check

CONSTANTS k, l, s, m, n

SomeTriples ==
    {[key |-> <<key>>, message |-> message, signature |-> <<s>>] :
        key \in {k, l}, message \in {<<m>>, <<m, n>>, <<n, m>>}}

SomeClaims == {t \in SomeTriples : Len(t.message) = MessageLen}

\* A key, a signature and a message in either order, with and without room for
\* all of it.
SomeBytes == {<<k, s, m, n>>, <<l, s, n, m>>, <<m, n, s, k>>, <<k, s, m>>}

SomeIndices == {0, CURRENT_INSTRUCTION}

SomeOffsets ==
    {[signature_offset |-> sigAt, signature_instruction_index |-> sigIn,
      public_key_offset |-> keyAt, public_key_instruction_index |-> keyIn,
      message_data_offset |-> msgAt, message_data_size |-> size,
      message_instruction_index |-> msgIn] :
        sigAt \in 1 .. 2, keyAt \in {0, 3}, msgAt \in {0, 2}, size \in 1 .. 2,
        sigIn \in SomeIndices, keyIn \in SomeIndices, msgIn \in SomeIndices}

Settle(claim) == [program |-> "settlement", offsets |-> <<>>, bytes |-> <<>>, claim |-> claim]
Data(program, offsets, bytes) ==
    [program |-> program, offsets |-> offsets, bytes |-> bytes, claim |-> None]

\* Data, a call to the precompile and a settlement; the same with a call to some
\* other program; two signatures in one call; and a settlement on its own.
SomeTransactions ==
    {<<Data("other", <<>>, first), Data("ed25519", <<o>>, second), Settle(claim)>> :
        first \in SomeBytes, second \in SomeBytes, o \in SomeOffsets, claim \in SomeClaims}
    \cup {<<Data("other", <<o>>, bytes), Settle(claim)>> :
        bytes \in SomeBytes, o \in SomeOffsets, claim \in SomeClaims}
    \cup {<<Data("ed25519", <<o, o>>, bytes), Settle(claim)>> :
        bytes \in SomeBytes, o \in SomeOffsets, claim \in SomeClaims}
    \cup {<<Settle(claim)>> : claim \in SomeClaims}
=============================================================================
