----------------------------- MODULE MCPolling ------------------------------
(* An instance of Polling for TLC: an interval of ten, a lease of eleven. *)
EXTENDS Polling, TLC

CONSTANTS f1, f2, v1, v2

MCOverrides == (f1 :> {}) @@ (f2 :> {5, 2})
\* What an empty batch leaves behind is overwritten by the next field to join.
MCView == <<now, armed, pollVars, pending,
            IF pending = {} THEN <<>>
            ELSE <<pendingSince, window, deadline, [f \in pending |-> joined[f]]>>>>
MCLease == (v1 :> 11) @@ (v2 :> 0)
=============================================================================
