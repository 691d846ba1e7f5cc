------------------------------ MODULE RpcCalls ------------------------------
(***************************************************************************)
(* What the LSP client promises its callers, without ids, maps, channels,  *)
(* locks or pipes: a request is sent, its own response is delivered to it, *)
(* and it ends, once, answered or failed.  Losing the connection is final: *)
(* no call opens and no response is delivered to an open call after it.    *)
(***************************************************************************)
CONSTANT Requests

VARIABLES status, down
vars == <<status, down>>

Init == status = [r \in Requests |-> "new"] /\ down = FALSE

Becomes(r, from, to) ==
    /\ status[r] \in from
    /\ status' = [status EXCEPT ![r] = to]

Issue(r)   == ~down /\ Becomes(r, {"new"}, "open") /\ UNCHANGED down
Refuse(r)  == down /\ Becomes(r, {"new"}, "failed") /\ UNCHANGED down
Send(r)    == Becomes(r, {"open"}, "sent") /\ UNCHANGED down
Deliver(r) == ~down /\ Becomes(r, {"sent"}, "delivered") /\ UNCHANGED down
Answer(r)  == Becomes(r, {"delivered"}, "answered") /\ UNCHANGED down
Fail(r)    == Becomes(r, {"open", "sent", "delivered"}, "failed") /\ UNCHANGED down
GoDown     == ~down /\ down' = TRUE /\ UNCHANGED status

Begin(r)  == Issue(r) \/ Refuse(r)
Settle(r) == Answer(r) \/ Fail(r)

Next == \/ \E r \in Requests : Begin(r) \/ Send(r) \/ Deliver(r) \/ Settle(r)
        \/ GoDown

SafeSpec == Init /\ [][Next]_vars

\* Every call begins and settles.
Spec == SafeSpec /\ \A r \in Requests : WF_vars(Begin(r)) /\ WF_vars(Settle(r))
=============================================================================
