------------------------------- MODULE MCState -------------------------------
(***************************************************************************)
(* Instances of the parts that keep state of their own -- the ownership    *)
(* store, conversations, notices, the ordinary sender, progress and        *)
(* reactions, the process and its readiness -- in one run.  The parts      *)
(* share no state but the clock, so every behaviour explores one of them,  *)
(* chosen at the start, while the others rest: each is checked as it is in *)
(* its own specification.                                                  *)
(***************************************************************************)
EXTENDS OwnershipStore, Conversation, Notices, OrdinarySend, Progress, Lifecycle,
        Readiness, TLC

CONSTANTS note, report, p1, p2, x2

VARIABLE part

(* A note is one message, a report is two.                                 *)
MCPartsOf == note :> 1 @@ report :> 2

Others(own) ==
    /\ own # "ownership" => UNCHANGED <<store, owners, file, durable, persisting, put,
                                        acked, crowded>>
    /\ own # "conversation" => UNCHANGED <<route, call, posted, handles, handed>>
    /\ own # "notices" => UNCHANGED <<entries, commands, sending, told, overran>>
    /\ own # "send" => UNCHANGED sendVars
    /\ own # "progress" => UNCHANGED progressVars
    /\ own # "life" => UNCHANGED life
    /\ own # "readiness" => UNCHANGED <<valid, acceptedLast, connected, remembered,
                                        probe, verdict>>
    /\ own \in {"send", "progress", "life"} => UNCHANGED now
    /\ UNCHANGED part

StateInit ==
    /\ part \in {"ownership", "conversation", "notices", "send", "progress", "life",
                "readiness"}
    /\ OwnershipInit /\ ConversationInit /\ NoticesInit
    /\ SendInit /\ (part # "send" => messages = 1 /\ ~rich)
    /\ ProgressInit /\ (part # "progress" => origin)
    /\ LifeInit
    /\ ReadinessInit /\ (part # "readiness" => valid = {})

StateNext ==
    \/ part = "ownership" /\ OwnershipNext /\ Others(part)
    \/ part = "conversation" /\ ConversationNext /\ Others(part)
    \/ part = "notices" /\ NoticesNext /\ Others(part)
    \/ part = "send" /\ SendNext /\ Others(part)
    \/ part = "progress" /\ ProgressNext /\ Others(part)
    \/ part = "life" /\ LifeNext /\ Others(part)
    \/ part = "readiness" /\ ReadinessNext /\ Others(part)

stateVars ==
    <<part, ownershipVars, conversationVars, noticesVars, sendVars, progressVars, life,
      readinessVars>>

StateSpec == StateInit /\ [][StateNext]_stateVars

(* The type of every variable of the part explored.                        *)
StateTypeOK ==
    /\ part = "ownership" => OwnershipTypeOK
    /\ part = "conversation" => ConversationTypeOK
    /\ part = "notices" => NoticesTypeOK
    /\ part = "send" => OrdinarySendTypeOK
    /\ part = "progress" => ProgressTypeOK
    /\ part = "life" => LifeTypeOK
    /\ part = "readiness" => ReadinessTypeOK

StateSymmetry == Permutations(Calls)

-----------------------------------------------------------------------------
(* What is explored.  Uploads and follow-ups of a conversation touch each  *)
(* other only through the lifetime of the route and are explored apart;    *)
(* a grant dates from the beginning, that of one provider also from the    *)
(* end; a note is sent by that provider and a report by the other; and of  *)
(* two apps the second comes when a route of the first may be over.        *)
Uploads ==
    (\E c \in Calls : call[c].kind = "upload") \/ \E i \in ImageOps : handed[i] # {}

FollowUps ==
    (\E c \in Calls : call[c].kind = "follow-up") \/ \E k \in Keys : route.ops[k] # NoRecord

ExploredConversation ==
    /\ ~(Uploads /\ FollowUps)
    /\ route.grant[p1] \in {0, 1 + GrantTTL}
    /\ route.grant[p2] \in {0, 1 + GrantTTL, ConversationUntil + GrantTTL}
    /\ route.app = x2 => now > 1 + GrantTTL
    /\ \A c \in Calls :
          call[c].kind = "follow-up" => (call[c].provider = p2 <=> call[c].content = note)

(* A receiver that runs is starting, connected or reconnecting, and while  *)
(* one is in trouble the other is not.                                     *)
Troubled(a) ==
    \/ receiver[a] = "returned"
    \/ receiver[a] = "running" /\ conn[a] = "reconnecting"

ExploredLife ==
    /\ \A a \in Apps : receiver[a] = "running" =>
          conn[a] \in {"starting", "connected", "reconnecting"}
    /\ \A a, b \in Apps : Troubled(a) /\ Troubled(b) => a = b

(* An abandoned CoT has no steps, and reactions that are chosen or fail go *)
(* with a CoT that does not.                                               *)
ExploredProgress ==
    /\ Len(streams) = 2 => Len(streams[1].events) <= 1
    /\ shown # {} \/ doubted # {} \/ period = "error" => missed = {} /\ Len(streams) <= 1
    /\ shown # {} /\ doubted # {} => cot.id = 0

Explored == ExploredConversation /\ ExploredProgress /\ ExploredLife

=============================================================================
