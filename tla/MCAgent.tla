------------------------------- MODULE MCAgent -------------------------------
(***************************************************************************)
(* The Start of a response and the operations on it, in one run.  The two  *)
(* parts share no state, so every behaviour explores one of them, chosen   *)
(* at the start, while the other rests: each part is checked as it is in   *)
(* its own specification.                                                  *)
(***************************************************************************)
EXTENDS MCAgentResponse, MCAgentStart

VARIABLE part

AgentInit ==
    /\ Init
    /\ StartInit
    /\ part \in {"response", "start"}
    /\ part = "start" => present        \* one resting place for the responses

AgentNext ==
    \/ part = "response" /\ Next /\ UNCHANGED <<startVars, part>>
    \/ part = "start" /\ StartNext /\ UNCHANGED <<vars, part>>

AgentSpec == AgentInit /\ [][AgentNext]_<<vars, startVars, part>>

AgentSymmetry == Permutations(OperationIds) \cup Permutations(Callers)

=============================================================================
