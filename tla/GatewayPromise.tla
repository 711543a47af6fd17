---------------------------- MODULE GatewayPromise ----------------------------
(***************************************************************************)
(* What the gateway promises its customers, with no request, no lock and   *)
(* no sequence number in sight: a sale is one indivisible step.  Whoever   *)
(* pays on the chain gets one funded job for it, at its price, and whoever *)
(* signs for a job gets that job.  A sale stands until the process is      *)
(* restarted, and then all of them are forgotten at once.                  *)
(* X402Gateway implements this specification.                              *)
(***************************************************************************)
EXTENDS Integers

CONSTANTS
    PriceOf,      \* what a job for each specification costs
    Pays,         \* pairs of a transaction and a specification it pays for
    Authorises    \* pairs of a proof and the specification its payer signed for

VARIABLES
    boot,     \* how often the process has been restarted
    mode,     \* whether the process asks the chain or believes signatures
    final,    \* transactions the chain will not take back
    sold      \* the jobs sold since the process was started

pvars == <<boot, mode, final, sold>>

Mode == {"solana", "stub"}

PromiseInit ==
    /\ boot = 0
    /\ mode \in Mode
    /\ final = {}
    /\ sold = {}

Covered(proof, h) ==
    IF mode = "solana"
    THEN /\ <<proof.tx, h>> \in Pays
         /\ proof.tx \in final
         /\ \A sale \in sold : sale.proof.tx # proof.tx
    ELSE <<proof, h>> \in Authorises

\* One more job is sold, under an id of its own.
Sell(sale) ==
    /\ \A earlier \in sold : earlier.id # sale.id
    /\ sale.state = "Funded"
    /\ sale.price = PriceOf[sale.spec]
    /\ Covered(sale.proof, sale.spec)
    /\ sold' = sold \cup {sale}
    /\ UNCHANGED <<boot, mode, final>>

Finalise ==
    /\ final \subseteq final'
    /\ UNCHANGED <<boot, mode, sold>>

Forget ==
    /\ boot' = boot + 1
    /\ sold' = {}
    /\ mode' \in Mode
    /\ UNCHANGED final

PromiseNext ==
    \/ \E sale \in sold' : Sell(sale)
    \/ Finalise
    \/ Forget

PromiseSpec == PromiseInit /\ [][PromiseNext]_pvars

=============================================================================
