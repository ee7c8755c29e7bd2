----------------------------- MODULE SingleAnswer -----------------------------
(***************************************************************************)
(* What Start promises for one delivery, with no clock, lock or failure in *)
(* it: at most one card ever appears in the chat, and every success tells  *)
(* the same request that the response behind that very card is open.       *)
(***************************************************************************)
EXTENDS Sequences

CONSTANTS
    Requests,       \* the Start requests providers may send
    Responses       \* response ids

VARIABLES
    cards,          \* the cards in the chat, each the id of its response
    answers         \* the successes reported: [request, response]

vars == <<cards, answers>>

Init == cards = <<>> /\ answers = {}

Appear(id) ==
    /\ cards = <<>>
    /\ cards' = <<id>>
    /\ UNCHANGED answers

Answer(req) ==
    /\ cards # <<>>
    /\ \A earlier \in answers : earlier.request = req
    /\ answers' = answers \cup {[request |-> req, response |-> Head(cards)]}
    /\ UNCHANGED cards

Next ==
    \/ \E id \in Responses : Appear(id)
    \/ \E req \in Requests : Answer(req)

Spec == Init /\ [][Next]_vars

=============================================================================
