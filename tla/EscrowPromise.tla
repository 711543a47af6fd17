---------------------------- MODULE EscrowPromise ----------------------------
(***************************************************************************)
(* What the escrow promises its users, with no clock, no signature and no  *)
(* account in sight.  A job moves along one way:                           *)
(*                                                                         *)
(*   absent - offered - held - delivered - contested - paid / returned     *)
(*                                                                         *)
(* The money goes to the provider only for work that was delivered, and    *)
(* back to the buyer only when nothing was delivered or a judge of the job *)
(* condemned what was.  A job that is paid or returned stays so.           *)
(* EscrowProgram implements this specification.                            *)
(***************************************************************************)
CONSTANTS JobIds

VARIABLES
    phase,      \* where each job stands
    condemned,  \* delivered jobs that some judge of theirs found wanting
    held        \* jobs whose full amount lies in escrow

pvars == <<phase, condemned, held>>

Phase == {"absent", "offered", "held", "delivered", "contested", "paid", "returned"}

PromiseInit ==
    /\ phase = [j \in JobIds |-> "absent"]
    /\ condemned = {}
    /\ held = {}

Move(j, from, to) ==
    /\ phase[j] \in from
    /\ phase' = [phase EXCEPT ![j] = to]

Offer(j) == Move(j, {"absent"}, "offered") /\ UNCHANGED held

Lock(j) == Move(j, {"offered"}, "held") /\ held' = held \cup {j}

Deliver(j) == Move(j, {"held"}, "delivered") /\ UNCHANGED held

Contest(j) == Move(j, {"delivered"}, "contested") /\ UNCHANGED held

Pay(j) ==
    /\ Move(j, {"delivered", "contested"}, "paid")
    /\ held' = held \ {j}

Return(j) ==
    /\ \/ Move(j, {"held"}, "returned")
       \/ j \in condemned /\ Move(j, {"delivered", "contested"}, "returned")
    /\ held' = held \ {j}

\* Judges speak at any time, but only about work that was delivered, and what
\* they said is not unsaid.
Judge ==
    /\ condemned \subseteq condemned'
    /\ condemned' \subseteq {j \in JobIds : phase'[j] \notin {"absent", "offered", "held"}}

PromiseNext ==
    /\ Judge
    /\ \/ UNCHANGED <<phase, held>>
       \/ \E j \in JobIds :
            Offer(j) \/ Lock(j) \/ Deliver(j) \/ Contest(j) \/ Pay(j) \/ Return(j)

PromiseSpec == PromiseInit /\ [][PromiseNext]_pvars

=============================================================================
