---------------------------- MODULE BatchService ----------------------------
(***************************************************************************)
(* What BatchProcessor promises its callers, without the queue, the worker *)
(* and the events that deliver it: requests wait in submission order, a    *)
(* prefix of at most one batch is answered in one step, and every request  *)
(* of that prefix is told its own answer, unless the engine failed the     *)
(* whole prefix or answered only the beginning of it.                      *)
(***************************************************************************)
EXTENDS Naturals, Sequences

CONSTANTS
    Requests,       \* the submissions (one uuid4 each)
    NoReply,        \* a request that has not been answered
    OwnAnswer(_),   \* the result dict the engine computes for a request alone
    Missing,        \* {"error": "Processing error: missing result"}
    Failed,         \* {"error": "Processing error: <exception>"}
    MaxBatch        \* the longest prefix one engine call may answer

VARIABLES
    pending,    \* requests not yet answered, oldest first
    status,     \* what the caller of a request is doing
    reply       \* the answer reserved for a request

svars == <<pending, status, reply>>

SInit ==
    /\ pending = <<>>
    /\ status = [r \in Requests |-> "new"]
    /\ reply = [r \in Requests |-> NoReply]

Ask(r) ==
    /\ status[r] = "new"
    /\ status' = [status EXCEPT ![r] = "waiting"]
    /\ pending' = Append(pending, r)
    /\ UNCHANGED reply

\* One engine call answers the n oldest requests; k results came back, or none
\* did because the call raised.
Serve(n, k, raised) ==
    /\ pending' = SubSeq(pending, n + 1, Len(pending))
    /\ reply' = [r \in Requests |->
                    IF \E i \in 1..n : pending[i] = r
                    THEN IF raised THEN Failed
                         ELSE IF \E i \in 1..k : pending[i] = r
                              THEN OwnAnswer(r)
                              ELSE Missing
                    ELSE reply[r]]
    /\ UNCHANGED status

Return(r) ==
    /\ status[r] = "waiting"
    /\ reply[r] # NoReply
    /\ status' = [status EXCEPT ![r] = "returned"]
    /\ UNCHANGED <<pending, reply>>

GiveUp(r) ==
    /\ status[r] = "waiting"
    /\ status' = [status EXCEPT ![r] = "cancelled"]
    /\ UNCHANGED <<pending, reply>>

ServeSome ==
    \E n \in 1..MaxBatch :
        /\ n <= Len(pending)
        /\ \E k \in 0..n, raised \in BOOLEAN : Serve(n, k, raised)

SNext ==
    \/ \E r \in Requests : Ask(r) \/ Return(r) \/ GiveUp(r)
    \/ ServeSome

SSpec ==
    /\ SInit /\ [][SNext]_svars
    /\ WF_svars(ServeSome)
    /\ \A r \in Requests : WF_svars(Return(r))

=============================================================================
