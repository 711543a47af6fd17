--------------------------- MODULE MCEscrowProgram ---------------------------
(***************************************************************************)
(* EscrowProgram on small instances.  Alice buys, Bob provides; kv and ka  *)
(* are signing keys.                                                       *)
(***************************************************************************)
EXTENDS EscrowProgram, TLC

CONSTANTS alice, bob, kv, ka, s1

Clocks(evidence, review, arbitration) ==
    [evidence_deadline |-> evidence, review |-> review, arbitration |-> arbitration]

TermsOf(amount, arbiter, windows) ==
    [spec_hash |-> s1, amount |-> amount, verifier |-> kv, arbiter |-> arbiter,
     windows |-> windows, provider |-> bob]

\* An ordinary contract.
OneContract == {TermsOf(2, ka, Clocks(1, 1, 1))}

\* Two less ordinary ones, which create_job accepts as well.  The windows of the
\* first have all closed before the clock ends; the second has a single key in both
\* roles, and an arbitration window that runs off the end of the clock.
TwoContracts ==
    {TermsOf(2, ka, Clocks(0, 1, 1)), TermsOf(1, kv, Clocks(1, 1, 3))}

\* An evidence deadline at the end of time.
NoDeadline == {TermsOf(2, ka, Clocks(MaxI64, 1, 1))}

AliceHasThree == (alice :> 3) @@ (bob :> 0)

AliceHasTwo == (alice :> 2) @@ (bob :> 0)

=============================================================================
