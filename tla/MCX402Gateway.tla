---------------------------- MODULE MCX402Gateway ----------------------------
(* Instances of X402Gateway for TLC. *)
EXTENDS X402Gateway

CONSTANTS r1, r2, s1, s2, t1, t2, t3, usdc, sol, operator, stranger, devnet, mainnet, kv, ka, payer

\* Two specifications of the same price: a payment is not bound to either.
TwoSpecs == [h \in {s1, s2} |-> [amount |-> 2, asset |-> usdc, deadline |-> 1]]

\* A good payment, another one, and one that falls short in every way a transfer
\* can while staying a transfer.
SomeTransactions ==
    [t \in {t1, t2, t3} |->
        [signed |-> TRUE,
         transfers |-> IF t = t3 THEN {Transfer(usdc, operator, 1), Transfer(sol, operator, 2),
                                       Transfer(usdc, stranger, 2)}
                       ELSE {Transfer(usdc, operator, 2)}]]

\* A proof serves both verifiers; each reads a part of it.  Its payer has signed
\* for the first specification, at the right price or below it.
Proof(network, tx, amount) ==
    LET transfer == Transfer(usdc, operator, amount)
    IN  [network |-> network, tx |-> tx, payer |-> payer, nonce |-> 1, transfer |-> transfer,
         signature |-> [key |-> payer,
                        message |-> [spec |-> s1, network |-> network,
                                     transfer |-> transfer, nonce |-> 1]]]

Payment(version_ok, scheme, proof) ==
    [decodes |-> TRUE, version_ok |-> version_ok, scheme |-> scheme, proof |-> proof]

Good(tx) == Payment(TRUE, "exact", Proof(devnet, tx, 2))

GoodPayments == {Good(t1), Good(t2)}

SomePayments ==
    GoodPayments \cup
    {Good(None), Payment(TRUE, "exact", Proof(devnet, t3, 1)),
     Payment(FALSE, "exact", Proof(devnet, t1, 2)), Payment(TRUE, "upto", Proof(devnet, t1, 2)),
     Payment(TRUE, "exact", Proof(mainnet, t1, 2)),
     [decodes |-> FALSE]}

SomeJobIds == {s1, s2} \X (1 .. 3)
SomeVerifierKeys == [b \in 0 .. MaxRestarts |-> kv]
SomeArbiterKeys == [b \in 0 .. MaxRestarts |-> ka]

=============================================================================
