--------------------------- MODULE MCAgentResponse ---------------------------
(***************************************************************************)
(* Instances of AgentResponse for TLC: two texts, of which the longer one  *)
(* fills the card when it is both answer and timeline; operations that     *)
(* write the answer alone, the timeline alone, and both with the header.   *)
(***************************************************************************)
EXTENDS AgentResponse, TLC

CONSTANTS short, long, MaxExpected

MCTexts   == {short, long}
MCWeight  == [t \in MCTexts \cup {Empty} |->
                 CASE t = short -> 1 [] t = long -> 2 [] OTHER -> 0]
MCStarted == [markdown |-> short, timeline |-> short, title |-> short]

Request(kind, expected, markdown, timeline, title, outcome) ==
    [kind |-> kind, expected |-> expected, markdown |-> markdown,
     timeline |-> timeline, title |-> title, outcome |-> outcome]

MCUpdates ==
    {Request("update", e, m, t, t, "completed") :
        e \in 1 .. MaxExpected, m \in MCTexts, t \in {Empty, long}}

MCFinishes ==
    {Request("finish", e, m, t, Empty, "failed") :
        e \in 1 .. MaxExpected, m \in MCTexts, t \in {Empty, short}}

MCReplacements ==
    {Request("replace", e, short, t, t, "completed") :
        e \in 2 .. MaxExpected, t \in {Empty, long}}

MCRequests == MCUpdates \cup MCFinishes \cup MCReplacements

Symmetry == Permutations(OperationIds)

=============================================================================
