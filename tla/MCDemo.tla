------------------------------- MODULE MCDemo -------------------------------
(***************************************************************************)
(* The demo's one job, an hour of two ticks, a client clock that is behind,*)
(* right or ahead.                                                         *)
(***************************************************************************)
EXTENDS Demo

CONSTANTS payer, provider

MCParties == {payer, provider}
MCSkews == {-1, 0, 1}
MCNoTokens == [p \in MCParties |-> 0]

=============================================================================
