----------------------------- MODULE MCHostedRuns -----------------------------
(* Instances of HostedRuns.                                                   *)
EXTENDS HostedRuns

CONSTANTS q1, d1, a1   \* model values

\* The request and the agent of the job belong to one account.
MCOwner == [q \in Requests |-> a1]
=============================================================================
