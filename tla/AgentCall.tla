------------------------------ MODULE AgentCall ------------------------------
(***************************************************************************)
(* What AgentLinks.request (smbpal/agent/client.py) promises a daemon      *)
(* handler, whatever connections, replies and processes come and go: a     *)
(* request is performed at most once, the answer a handler gets is the one *)
(* to its own request and follows its performance, and every request ends. *)
(* A failure says nothing about the performance, which may still follow.   *)
(***************************************************************************)
EXTENDS Naturals

CONSTANTS None, Requests

VARIABLES
    status,     \* request -> new, waiting, answered or failed
    heard,      \* request -> the request whose result its handler was given
    runs        \* request -> how often an agent has performed it

callVars == <<status, heard, runs>>

Waiting == { r \in Requests : status[r] = "waiting" }

Init ==
    /\ status = [r \in Requests |-> "new"]
    /\ heard = [r \in Requests |-> None]
    /\ runs = [r \in Requests |-> 0]

Ask(r) ==
    /\ status[r] = "new"
    /\ \E first \in { "waiting", "failed" } : status' = [status EXCEPT ![r] = first]
    /\ UNCHANGED <<heard, runs>>

\* An agent may perform what nobody waits for any more, but never twice.
Perform(r) ==
    /\ status[r] # "new" /\ runs[r] = 0
    /\ runs' = [runs EXCEPT ![r] = 1]
    /\ UNCHANGED <<status, heard>>

Answer(r) ==
    /\ r \in Waiting /\ runs[r] = 1
    /\ status' = [status EXCEPT ![r] = "answered"]
    /\ heard' = [heard EXCEPT ![r] = r]
    /\ UNCHANGED runs

\* A timeout fails one request, the end of the daemon all of them.
Fail(some) ==
    /\ some # {}
    /\ status' = [r \in Requests |-> IF r \in some THEN "failed" ELSE status[r]]
    /\ UNCHANGED <<heard, runs>>

Next ==
    \/ \E r \in Requests : Ask(r) \/ Perform(r) \/ Answer(r)
    \/ \E some \in SUBSET Waiting : Fail(some)

\* A handler is never left waiting.
Ends == \A r \in Requests : status[r] = "waiting" ~> status[r] # "waiting"

Spec == Init /\ [][Next]_callVars /\ Ends
=============================================================================
