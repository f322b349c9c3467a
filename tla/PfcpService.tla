---------------------------- MODULE PfcpService ----------------------------
(***************************************************************************)
(* What pfcp_l4_stack promises the applications above it, whatever the     *)
(* network does: a request can be executed any number of times by the peer *)
(* once it was asked (the stack does not remember what it has answered),   *)
(* and its response comes back at most once, after an execution.           *)
(***************************************************************************)
EXTENDS Naturals

CONSTANT Requests

VARIABLES asked, executed, answered

vars == <<asked, executed, answered>>

Init ==
    /\ asked = {}
    /\ executed = [r \in Requests |-> 0]
    /\ answered = [r \in Requests |-> 0]

\* The application of one end calls send_request.
Ask(r) ==
    /\ r \notin asked
    /\ asked' = asked \cup {r}
    /\ UNCHANGED <<executed, answered>>

\* The application of the other end is handed the request.
Execute(r) ==
    /\ r \in asked
    /\ executed' = [executed EXCEPT ![r] = @ + 1]
    /\ UNCHANGED <<asked, answered>>

\* The first application is handed the response.
Answer(r) ==
    /\ executed[r] > 0
    /\ answered[r] = 0
    /\ answered' = [answered EXCEPT ![r] = 1]
    /\ UNCHANGED <<asked, executed>>

Next == \E r \in Requests : Ask(r) \/ Execute(r) \/ Answer(r)

Spec == Init /\ [][Next]_vars
=============================================================================
