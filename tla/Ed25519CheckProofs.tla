------------------------- MODULE Ed25519CheckProofs -------------------------
(***************************************************************************)
(* What passes the introspection was signed: for every transaction, every  *)
(* arrangement of offsets and every length of key, signature and message.  *)
(* And what was signed can pass it.                                        *)
(***************************************************************************)
EXTENDS Ed25519Check, SequenceTheorems, TLAPS

\* Every claim of a transaction that goes through is a verified triple: the
\* bytes the program compares are the bytes the precompile read.
LEMMA ClaimIsVerified ==
    ASSUME NEW tx \in Seq(Instruction), NEW i \in DOMAIN tx,
           tx[i].program = "settlement", tx[i].claim \in Triple,
           Len(tx[i].claim.key) = KeyLen,
           Len(tx[i].claim.message) = MessageLen,
           Len(tx[i].claim.signature) = SignatureLen,
           GoesThrough(tx)
    PROVE  tx[i].claim \in signed
<1> DEFINE claim == tx[i].claim
           ix == tx[i - 1]
           o == ix.offsets[1]
<1>1. i \in 1 .. Len(tx)
  OBVIOUS
<1>2. RequirePrevious(tx, i)
  BY DEF GoesThrough
<1>3. i - 1 \in DOMAIN tx /\ ix.program = "ed25519" /\ VerifyIxData(ix, claim)
  BY <1>1, <1>2 DEF RequirePrevious
<1>4. Precompile(tx, i - 1)
  BY <1>3 DEF GoesThrough
<1>5. WellAimed(ix, claim)
  BY <1>3 DEF VerifyIxData
<1>6. 1 \in DOMAIN ix.offsets
  <2>1. ix \in Instruction
    BY <1>1, <1>3
  <2> QED
    BY <2>1, <1>5 DEF Instruction, WellAimed
<1>7. Checked(tx, i - 1, o) \in signed
  BY <1>4, <1>6 DEF Precompile
<1>8. Checked(tx, i - 1, o) =
        [key |-> claim.key, message |-> claim.message, signature |-> claim.signature]
  <2>1. /\ Source(tx, i - 1, o.public_key_instruction_index) = ix.bytes
        /\ Source(tx, i - 1, o.message_instruction_index) = ix.bytes
        /\ Source(tx, i - 1, o.signature_instruction_index) = ix.bytes
    BY <1>5 DEF WellAimed, Source
  <2>2. o.message_data_size = Len(claim.message)
    BY <1>5 DEF WellAimed
  <2>3. /\ SliceAt(ix.bytes, o.public_key_offset, KeyLen) = claim.key
        /\ SliceAt(ix.bytes, o.message_data_offset, Len(claim.message)) = claim.message
        /\ SliceAt(ix.bytes, o.signature_offset, SignatureLen) = claim.signature
    BY <1>3 DEF VerifyIxData
  <2> QED
    BY <2>1, <2>2, <2>3 DEF Checked
<1>9. claim = [key |-> claim.key, message |-> claim.message, signature |-> claim.signature]
  BY DEF Triple
<1> QED
  BY <1>7, <1>8, <1>9

\* The program acts on a verdict only if that very key has signed that very
\* message (require_previous_ed25519, and the precompile it relies on).
THEOREM AlwaysAcceptedIsSigned == Spec => []AcceptedIsSigned
<1>1. Init => AcceptedIsSigned
  BY DEF Init, AcceptedIsSigned
<1>2. AcceptedIsSigned /\ [Next]_vars => AcceptedIsSigned'
  <2> SUFFICES ASSUME AcceptedIsSigned, [Next]_vars
               PROVE  AcceptedIsSigned'
    OBVIOUS
  <2>1. ASSUME NEW triple \in Triples, Sign(triple)
        PROVE  AcceptedIsSigned'
    BY <2>1 DEF Sign, AcceptedIsSigned
  <2>2. ASSUME NEW tx \in Transactions, Send(tx)
        PROVE  AcceptedIsSigned'
    <3>1. ASSUME NEW i \in DOMAIN tx, tx[i].program = "settlement"
          PROVE  tx[i].claim \in signed
      <4>1. tx \in Seq(Instruction) /\ GoesThrough(tx)
        BY <2>2, TransactionsAssumption DEF Send
      <4>2. tx[i] \in Instruction
        BY <4>1
      <4>3. tx[i].claim \in Triple
        BY <3>1, <4>2, TransactionsAssumption DEF Instruction
      <4> QED
        BY <3>1, <4>1, <4>3, TransactionsAssumption, ClaimIsVerified
    <3> QED
      BY <2>2, <3>1 DEF Send, AcceptedIsSigned
  <2>3. CASE UNCHANGED vars
    BY <2>3 DEF vars, AcceptedIsSigned
  <2> QED
    BY <2>1, <2>2, <2>3 DEF Next
<1> QED
  BY <1>1, <1>2, PTL DEF Spec

-----------------------------------------------------------------------------
(* A signature that is held can be used *)

\* Two sequences end to end, then a third: each of them is the slice that starts
\* where the ones before it end.
LEMMA SlicesOfThree ==
    ASSUME NEW S, NEW a \in Seq(S), NEW b \in Seq(S), NEW c \in Seq(S)
    PROVE  /\ a \o b \o c \in Seq(S)
           /\ Len(a \o b \o c) = Len(a) + Len(b) + Len(c)
           /\ SubSeq(a \o b \o c, 1, Len(a)) = a
           /\ SubSeq(a \o b \o c, Len(a) + 1, Len(a) + Len(b)) = b
           /\ SubSeq(a \o b \o c, Len(a) + Len(b) + 1, Len(a) + Len(b) + Len(c)) = c
<1> DEFINE all == a \o b \o c
<1>1. /\ Len(a) \in Nat /\ Len(b) \in Nat /\ Len(c) \in Nat
      /\ a \o b \in Seq(S)
      /\ Len(a \o b) = Len(a) + Len(b)
      /\ \A i \in 1 .. Len(a) + Len(b) :
            (a \o b)[i] = IF i <= Len(a) THEN a[i] ELSE b[i - Len(a)]
  BY ConcatProperties
<1>2. /\ all \in Seq(S)
      /\ Len(all) = Len(a) + Len(b) + Len(c)
      /\ \A i \in 1 .. Len(a) + Len(b) + Len(c) :
            all[i] = IF i <= Len(a) + Len(b) THEN (a \o b)[i] ELSE c[i - (Len(a) + Len(b))]
  BY <1>1, ConcatProperties
<1>3. \A i \in 1 .. Len(all) : all[i] \in S
  BY <1>2, ElementOfSeq
<1> HIDE DEF all
<1>4. SubSeq(all, 1, Len(a)) = a
  <2> DEFINE slice == SubSeq(all, 1, Len(a))
  <2>1. /\ slice \in Seq(S)
        /\ Len(slice) = Len(a)
        /\ \A i \in 1 .. Len(a) : slice[i] = all[i]
    <3>1. \A i \in 1 .. Len(a) : all[i] \in S
      BY <1>1, <1>2, <1>3
    <3> QED
      BY <1>1, <3>1, SubSeqProperties
  <2> HIDE DEF slice
  <2>2. \A i \in 1 .. Len(slice) : slice[i] = a[i]
    BY <1>1, <1>2, <2>1
  <2>3. slice = a
    BY <2>1, <2>2, SeqEqual
  <2> QED
    BY <2>3 DEF slice
<1>5. SubSeq(all, Len(a) + 1, Len(a) + Len(b)) = b
  <2> DEFINE slice == SubSeq(all, Len(a) + 1, Len(a) + Len(b))
  <2>1. /\ slice \in Seq(S)
        /\ Len(slice) = Len(b)
        /\ \A i \in 1 .. Len(b) : slice[i] = all[Len(a) + i]
    <3>1. \A i \in Len(a) + 1 .. Len(a) + Len(b) : all[i] \in S
      BY <1>1, <1>2, <1>3
    <3>2. /\ slice \in Seq(S)
          /\ Len(slice) = IF Len(a) + 1 <= Len(a) + Len(b)
                          THEN Len(a) + Len(b) - (Len(a) + 1) + 1 ELSE 0
          /\ \A i \in 1 .. Len(a) + Len(b) - (Len(a) + 1) + 1 :
                slice[i] = all[Len(a) + 1 + i - 1]
      BY <1>1, <3>1, SubSeqProperties
    <3> HIDE DEF slice
    <3> QED
      BY <1>1, <3>2
  <2> HIDE DEF slice
  <2>2. ASSUME NEW i \in 1 .. Len(slice)
        PROVE  slice[i] = b[i]
    <3>1. /\ Len(a) + i \in 1 .. Len(a) + Len(b)
          /\ ~ Len(a) + i <= Len(a)
          /\ Len(a) + i - Len(a) = i
      BY <1>1, <2>1
    <3>2. slice[i] = all[Len(a) + i]
      BY <2>1
    <3>3. all[Len(a) + i] = b[i]
      BY <1>1, <1>2, <3>1
    <3> QED
      BY <3>2, <3>3
  <2>3. slice = b
    BY <2>1, <2>2, SeqEqual
  <2> QED
    BY <2>3 DEF slice
<1>6. SubSeq(all, Len(a) + Len(b) + 1, Len(a) + Len(b) + Len(c)) = c
  <2> DEFINE slice == SubSeq(all, Len(a) + Len(b) + 1, Len(a) + Len(b) + Len(c))
  <2>1. /\ slice \in Seq(S)
        /\ Len(slice) = Len(c)
        /\ \A i \in 1 .. Len(c) : slice[i] = all[Len(a) + Len(b) + i]
    <3> DEFINE ab == Len(a) + Len(b)
    <3>1. \A i \in ab + 1 .. ab + Len(c) : all[i] \in S
      BY <1>1, <1>2, <1>3
    <3>2. /\ slice \in Seq(S)
          /\ Len(slice) = IF ab + 1 <= ab + Len(c) THEN ab + Len(c) - (ab + 1) + 1 ELSE 0
          /\ \A i \in 1 .. ab + Len(c) - (ab + 1) + 1 : slice[i] = all[ab + 1 + i - 1]
      BY <1>1, <3>1, SubSeqProperties
    <3> HIDE DEF slice
    <3> QED
      BY <1>1, <3>2
  <2> HIDE DEF slice
  <2>2. ASSUME NEW i \in 1 .. Len(slice)
        PROVE  slice[i] = c[i]
    <3>1. /\ (Len(a) + Len(b)) + i \in 1 .. Len(a) + Len(b) + Len(c)
          /\ ~ (Len(a) + Len(b)) + i <= Len(a) + Len(b)
          /\ (Len(a) + Len(b)) + i - (Len(a) + Len(b)) = i
      BY <1>1, <2>1
    <3>2. slice[i] = all[(Len(a) + Len(b)) + i]
      BY <2>1
    <3>3. all[(Len(a) + Len(b)) + i] = c[i]
      BY <1>1, <1>2, <3>1
    <3> QED
      BY <3>2, <3>3
  <2>3. slice = c
    BY <2>1, <2>2, SeqEqual
  <2> QED
    BY <2>3 DEF slice
<1> QED
  BY <1>2, <1>4, <1>5, <1>6 DEF all

\* The transaction a client builds around a signature goes through, if
\* the signature was produced and key, message and signature have the lengths
\* the program expects.
LEMMA ClientGoesThrough ==
    ASSUME NEW t \in Triple, t \in signed,
           Len(t.key) = KeyLen, Len(t.message) = MessageLen, Len(t.signature) = SignatureLen
    PROVE  GoesThrough(ClientTransaction(t))
<1> DEFINE tx == ClientTransaction(t)
           data == t.key \o t.signature \o t.message
           o == tx[1].offsets[1]
<1>1. /\ t.key \in Seq(Cells) /\ t.signature \in Seq(Cells) /\ t.message \in Seq(Cells)
      /\ KeyLen \in Nat /\ SignatureLen \in Nat /\ MessageLen \in Nat
  BY LengthsAssumption DEF Triple, Bytes
<1>2. /\ Len(data) = KeyLen + SignatureLen + MessageLen
      /\ SubSeq(data, 1, KeyLen) = t.key
      /\ SubSeq(data, KeyLen + 1, KeyLen + SignatureLen) = t.signature
      /\ SubSeq(data, KeyLen + SignatureLen + 1, KeyLen + SignatureLen + MessageLen) = t.message
  <2>1. /\ Len(data) = Len(t.key) + Len(t.signature) + Len(t.message)
        /\ SubSeq(data, 1, Len(t.key)) = t.key
        /\ SubSeq(data, Len(t.key) + 1, Len(t.key) + Len(t.signature)) = t.signature
        /\ SubSeq(data, Len(t.key) + Len(t.signature) + 1,
                  Len(t.key) + Len(t.signature) + Len(t.message)) = t.message
    <3>1. PICK a \in Seq(Cells), b \in Seq(Cells), c \in Seq(Cells) :
            a = t.key /\ b = t.signature /\ c = t.message
      BY <1>1
    <3>2. /\ Len(a \o b \o c) = Len(a) + Len(b) + Len(c)
          /\ SubSeq(a \o b \o c, 1, Len(a)) = a
          /\ SubSeq(a \o b \o c, Len(a) + 1, Len(a) + Len(b)) = b
          /\ SubSeq(a \o b \o c, Len(a) + Len(b) + 1, Len(a) + Len(b) + Len(c)) = c
      <4>1. a \in Seq(Cells) /\ b \in Seq(Cells) /\ c \in Seq(Cells)
        OBVIOUS
      <4> HIDE DEF tx, data, o
      <4> QED
        BY ONLY <4>1, SlicesOfThree
    <3> QED
      BY <3>1, <3>2, Zenon
  <2> QED
    BY <2>1, Zenon
<1> HIDE DEF data
<1>3. /\ SliceAt(data, 0, KeyLen) = t.key
      /\ SliceAt(data, KeyLen, SignatureLen) = t.signature
      /\ SliceAt(data, KeyLen + SignatureLen, MessageLen) = t.message
  <2>1. 0 + KeyLen = KeyLen /\ 0 + 1 = 1
    BY <1>1
  <2>2. /\ 0 + KeyLen <= Len(data)
        /\ KeyLen + SignatureLen <= Len(data)
        /\ KeyLen + SignatureLen + MessageLen <= Len(data)
    BY <1>1, <1>2
  <2> QED
    BY <1>2, <2>1, <2>2, Zenon DEF SliceAt
<1>4. /\ DOMAIN tx = {1, 2}
      /\ tx[1].program = "ed25519" /\ tx[1].bytes = data
      /\ tx[2].program = "settlement" /\ tx[2].claim = t
      /\ DOMAIN tx[1].offsets = {1} /\ Len(tx[1].offsets) = 1
      /\ o.public_key_offset = 0
      /\ o.signature_offset = KeyLen
      /\ o.message_data_offset = KeyLen + SignatureLen
      /\ o.message_data_size = MessageLen
      /\ o.public_key_instruction_index = CURRENT_INSTRUCTION
      /\ o.signature_instruction_index = CURRENT_INSTRUCTION
      /\ o.message_instruction_index = CURRENT_INSTRUCTION
  <2> DEFINE offsets ==
               [public_key_offset |-> 0, public_key_instruction_index |-> CURRENT_INSTRUCTION,
                signature_offset |-> Len(t.key),
                signature_instruction_index |-> CURRENT_INSTRUCTION,
                message_data_offset |-> Len(t.key) + Len(t.signature),
                message_data_size |-> Len(t.message),
                message_instruction_index |-> CURRENT_INSTRUCTION]
             verify == [program |-> "ed25519", offsets |-> <<offsets>>, bytes |-> data,
                        claim |-> None]
             settle == [program |-> "settlement", offsets |-> <<>>, bytes |-> <<>>, claim |-> t]
  <2>1. tx = <<verify, settle>>
    BY Zenon DEF ClientTransaction, data
  <2>2. DOMAIN tx = {1, 2} /\ tx[1] = verify /\ tx[2] = settle
    <3> HIDE DEF tx, verify, settle
    <3> QED
      BY <2>1
  <2>3. /\ verify.program = "ed25519" /\ verify.bytes = data /\ verify.offsets = <<offsets>>
        /\ settle.program = "settlement" /\ settle.claim = t
    OBVIOUS
  <2>4. DOMAIN <<offsets>> = {1} /\ Len(<<offsets>>) = 1 /\ <<offsets>>[1] = offsets
    <3> HIDE DEF offsets
    <3> QED
      OBVIOUS
  <2>5. /\ offsets.public_key_offset = 0
        /\ offsets.signature_offset = KeyLen
        /\ offsets.message_data_offset = KeyLen + SignatureLen
        /\ offsets.message_data_size = MessageLen
        /\ offsets.public_key_instruction_index = CURRENT_INSTRUCTION
        /\ offsets.signature_instruction_index = CURRENT_INSTRUCTION
        /\ offsets.message_instruction_index = CURRENT_INSTRUCTION
    OBVIOUS
  <2> HIDE DEF tx, offsets, verify, settle
  <2> QED
    BY <2>2, <2>3, <2>4, <2>5
<1> HIDE DEF tx
<1>5. Precompile(tx, 1)
  <2>1. Checked(tx, 1, o) =
          [key |-> t.key, message |-> t.message, signature |-> t.signature]
    BY <1>3, <1>4 DEF Checked, Source
  <2>2. t = [key |-> t.key, message |-> t.message, signature |-> t.signature]
    BY DEF Triple
  <2> QED
    BY <1>4, <2>1, <2>2 DEF Precompile
<1>6. RequirePrevious(tx, 2)
  <2>1. VerifyIxData(tx[1], t)
    BY <1>3, <1>4 DEF VerifyIxData, WellAimed
  <2> QED
    BY <1>4, <2>1 DEF RequirePrevious
<1>7. GoesThrough(tx)
  BY <1>4, <1>5, <1>6 DEF GoesThrough
<1> QED
  BY <1>7 DEF tx

\* A judge's signature is never useless: whatever has been signed, over a message
\* of the right length, a client can get past the introspection
\* (slice_at takes a slice that ends exactly where the data does).
THEOREM SignedAlwaysAcceptable == Spec => []SignedIsAcceptable
<1> DEFINE Produced == signed \subseteq Triple
<1>1. Init => Produced
  BY DEF Init
<1>2. Produced /\ [Next]_vars => Produced'
  BY TriplesAssumption DEF Next, Sign, Send, vars
<1>3. Produced => SignedIsAcceptable
  BY ClientGoesThrough DEF SignedIsAcceptable
<1> QED
  BY <1>1, <1>2, <1>3, PTL DEF Spec

=============================================================================
