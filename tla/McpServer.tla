------------------------------ MODULE McpServer ------------------------------
(***************************************************************************)
(* services/mcp-settlement as its client sees it: one JSON-RPC line in, the*)
(* tool run, none or one line out, and then the next.  What the client does*)
(* not see is what this module is about: a notification runs a tool and is *)
(* never answered, a call may have had its effect when the answer cannot be*)
(* written, and the answer is all the client has to go by.                 *)
(*                                                                         *)
(* Blank lines are skipped and change nothing.                             *)
(***************************************************************************)
EXTENDS McpSettlement

VARIABLES
    up,      \* the loop of main is running
    output,  \* what came of the last line: the kind of its answer, or "nothing"
    told     \* the state the client was last told each job is in

server_vars == <<records, next_seq, signed, up, output, told>>

ServerInit ==
    /\ Init
    /\ up = TRUE
    /\ output = "nothing"
    /\ told = [j \in JobIds |-> None]

\* Answers: a tool's result, its error (isError is true), or a JSON-RPC error.
Tells(j, state) == [kind |-> "result", job |-> j, state |-> state]
Result == [kind |-> "result", job |-> None]
ToolError == [kind |-> "tool_error", job |-> None]
RpcError == [kind |-> "rpc_error", job |-> None]

\* main: write the line and flush; an error ends the loop, the work is done.
Write(answer) ==
    \/ /\ output' = answer.kind
       /\ told' = IF answer.job = None THEN told ELSE [told EXCEPT ![answer.job] = answer.state]
       /\ UNCHANGED up
    \/ /\ output' = "nothing"
       /\ up' = FALSE
       /\ UNCHANGED told

Silent ==
    /\ output' = "nothing"
    /\ UNCHANGED <<up, told>>

\* handle_line: a request without an id is carried out and not answered.
Answer(answer) == Write(answer) \/ Silent

StateOf(recs, j) == recs[j].job.state

CallCreateJob(h, review, arbitration, now) ==
    /\ CreateJob(h, review, arbitration, now)
    /\ Answer(Tells(JobId(h, next_seq'), StateOf(records', JobId(h, next_seq'))))

CallJobStatus(j) ==
    /\ Exists(j)
    /\ Answer(Tells(j, StateOf(records, j)))
    /\ UNCHANGED vars

CallSubmitEvidence(j, h, now) ==
    /\ SubmitEvidence(j, h, now)
    /\ Answer(Tells(j, StateOf(records', j)))

\* Signed and refused by the core is answered like not signed.
CallRelease(j, now) ==
    /\ Release(j, now)
    /\ Answer(IF Settles(j, now) THEN Tells(j, StateOf(records', j)) ELSE ToolError)

CallDispute(j, now) ==
    /\ Dispute(j, now)
    /\ Answer(Tells(j, StateOf(records', j)))

\* Any other call of a tool: a missing or malformed argument, a document that is
\* not valid, an unknown job, or one whose record refuses the call.  There is
\* always such a call.
CallRefused ==
    /\ Answer(ToolError)
    /\ UNCHANGED vars

\* tools::dispatch.
ToolsCall ==
    \/ CallRefused
    \/ \E now \in Readings :
        \/ \E h \in SpecHashes, review \in ReviewArgs, arbitration \in ArbitrationArgs :
              CallCreateJob(h, review, arbitration, now)
        \/ \E j \in JobIds :
            \/ \E h \in EvidenceHashes : CallSubmitEvidence(j, h, now)
            \/ CallRelease(j, now)
            \/ CallDispute(j, now)
    \/ \E j \in JobIds : CallJobStatus(j)

\* dispatch_method: initialize, notifications/initialized and tools/list only
\* answer; an unknown method, an unknown tool or a call without a name is an
\* error; and so is a line that is no request, which is answered in any case.
OtherLine ==
    /\ Answer(Result) \/ Answer(RpcError)
    /\ UNCHANGED vars

\* The client closes standard input, or reading it fails.
Eof ==
    /\ up' = FALSE
    /\ output' = "nothing"
    /\ UNCHANGED <<vars, told>>

ServerNext == up /\ (ToolsCall \/ OtherLine \/ Eof)

ServerSpec == ServerInit /\ [][ServerNext]_server_vars

-----------------------------------------------------------------------------
(* Properties *)

ServerTypeOK ==
    /\ TypeOK
    /\ up \in BOOLEAN
    /\ output \in {"result", "tool_error", "rpc_error", "nothing"}
    /\ told \in [JobIds -> State \cup {None}]

Rank == [Created |-> 0, Funded |-> 1, UnderReview |-> 2, Disputed |-> 3, Released |-> 4, Refunded |-> 4]

\* What the client has been told stays good: a job it was told of exists, has
\* come at least as far as it was told, and is settled the way it was told.  So a
\* client need not ask again before it acts on an old answer.
ToldIsTrue ==
    \A j \in JobIds : told[j] # None =>
        /\ Exists(j)
        /\ Rank[told[j]] <= Rank[StateOf(records, j)]
        /\ told[j] \in Settled => StateOf(records, j) = told[j]

\* An error, of either kind, means that no job was created or moved, so that the
\* call may be made again; release may have signed all the same.
RefusalsLeaveNoTrace ==
    [][ output' \in {"tool_error", "rpc_error"} => UNCHANGED <<records, next_seq>> ]_server_vars

=============================================================================
