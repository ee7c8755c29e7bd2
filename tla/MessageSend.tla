----------------------------- MODULE MessageSend -----------------------------
(***************************************************************************)
(* What the callers of ChannelSender.Send rely on: the messages a content  *)
(* is split into reach Feishu one after the other, success means that all  *)
(* of them did, and an error says nothing of how many did.                 *)
(***************************************************************************)
EXTENDS Naturals

VARIABLES
    total,      \* messages the content is split into
    sent,       \* how many have reached Feishu
    result      \* "none" while the call is under way

Init == total \in Nat \ {0} /\ sent = 0 /\ result = "none"

Arrive ==
    /\ result = "none" /\ sent < total
    /\ sent' = sent + 1
    /\ UNCHANGED <<total, result>>

Finish ==
    /\ result = "none"
    /\ \/ sent = total /\ result' = "sent"
       \/ result' \in {"final", "limited", "doubt"}
    /\ UNCHANGED <<total, sent>>

Spec == Init /\ [][Arrive \/ Finish]_<<total, sent, result>>

=============================================================================
