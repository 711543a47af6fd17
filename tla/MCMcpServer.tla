--------------------------- MODULE MCMcpServer -------------------------------
(* Instances of McpServer for TLC. *)
EXTENDS McpServer

CONSTANTS printed, painted, kv, ka

\* One specification a machine can settle, one that also needs a human.
TwoSpecs ==
    [h \in {printed, painted} |->
        [amount |-> 1, deadline_unix |-> 0, tolerance_um |-> 1,
         acceptance |-> {"dimensions_within_tolerance", "delivered_before_deadline"}
                        \cup IF h = painted THEN {"material_matches"} ELSE {}]]

SomeJobIds == {printed, painted} \X (1 .. MaxJobs)

\* What providers claim: a part in tolerance and in time, one that is late, one
\* whose deviation is the least integer, and one not measured at all.
Claims == [good |-> <<-1, 0>>, late |-> <<0, 1>>, extreme |-> <<MinI64, 0>>, silent |-> <<None, 0>>]

\* Bundles that name a job and its own specification, all the claims for one job
\* and two for the others, and one of another's specification.
SomeEvidence ==
    {[job_id |-> j, spec_sha256 |-> j[1], claim |-> c] :
        j \in {<<printed, 1>>, <<printed, 2>>, <<painted, 2>>}, c \in {"good", "late"}}
    \cup {[job_id |-> <<printed, 1>>, spec_sha256 |-> printed, claim |-> c] : c \in {"extreme", "silent"}}
    \cup {[job_id |-> <<printed, 1>>, spec_sha256 |-> painted, claim |-> "good"]}

ReadEvidence ==
    [h \in SomeEvidence |->
        [job_id |-> h.job_id, spec_sha256 |-> h.spec_sha256,
         deviation_um |-> Claims[h.claim][1], delivered_unix |-> Claims[h.claim][2]]]

WhateverCallersSend == {-1, 1}

=============================================================================
