----------------------------- MODULE MCAgentStart -----------------------------
(***************************************************************************)
(* An instance of AgentStart for TLC: a Start, the same operation id with  *)
(* other content, and another provider's Start of the same delivery.       *)
(***************************************************************************)
EXTENDS AgentStart, TLC

CONSTANTS own, other, draft, revised, first, second

MCStartRequests ==
    {[provider |-> own,   operation |-> first,  content |-> draft],
     [provider |-> own,   operation |-> first,  content |-> revised],
     [provider |-> other, operation |-> second, content |-> draft]}

(* For three callers, where the states are many.                           *)
StartSymmetry == Permutations(Callers)

=============================================================================
