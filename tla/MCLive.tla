-------------------------------- MODULE MCLive --------------------------------
(***************************************************************************)
(* Instances for the liveness properties of responses, of their Start and  *)
(* of the process, in one run.  The parts share no state, so every         *)
(* behaviour explores one of them, chosen at the start and under its own   *)
(* fairness, while the others rest.                                        *)
(***************************************************************************)
EXTENDS MCAgentResponse, MCAgentStart, Lifecycle

VARIABLE part

LiveInit ==
    /\ part \in {"response", "start", "life"}
    /\ Init /\ (part # "response" => present)
    /\ StartInit
    /\ LifeInit

LiveNext ==
    \/ part = "response" /\ Next /\ UNCHANGED <<part, startVars, life>>
    \/ part = "start" /\ StartNext /\ UNCHANGED <<part, vars, life>>
    \/ part = "life" /\ LifeNext /\ UNCHANGED <<part, vars, startVars>>

LiveFairness ==
    \/ part = "response" /\ Fairness
    \/ part = "start" /\ StartFairness
    \/ part = "life" /\ LifeFairness

LiveSpec ==
    LiveInit /\ [][LiveNext]_<<part, vars, startVars, life>> /\ LiveFairness

=============================================================================
