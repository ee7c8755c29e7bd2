------------------------------- MODULE Notices -------------------------------
(***************************************************************************)
(* Notifications and legacy command responses.  Both are messages posted   *)
(* under a dedupe key: the caller of a notification brings the key, the    *)
(* key of a response is its delivery.  deliver reserves the key, sends     *)
(* without a lock, and commits the key or frees it; respondCommand does    *)
(* that between beginResponse and finishResponse.                          *)
(*                                                                         *)
(* A delivery and the reservation under its key change together here: no   *)
(* other call waits for the one and reads the other in between.  As in     *)
(* Conversation, a send is over when its deadline passes and what reaches  *)
(* Feishu does so before that.                                             *)
(*                                                                         *)
(* Nothing makes the dedupe TTL outlast a send: config.Load compares the   *)
(* two only when there are agent providers.  A send that outlasts the      *)
(* reservation of its key leaves the key to others while it still posts    *)
(* under it; overran remembers for which keys that has happened.           *)
(***************************************************************************)
EXTENDS Clock, Integers, FiniteSets

CONSTANTS
    Senders,        \* concurrent calls
    NoticeKeys,     \* source and dedupe key of notifications, as callers give them
    Commands,       \* deliveries of the legacy command stream
    Texts,          \* contents: a request's fingerprint
    NoText,
    DedupeTTL,      \* of the store and of the command broker
    NoticeTimeout,  \* cfg.SendTimeout
    NoticesUntil    \* bound: the clock stops here

ASSUME NoticesAssumption ==
    /\ NoticeKeys \cap Commands = {}
    /\ NoText \notin Texts \cup NoticeKeys \cup Commands
    /\ DedupeTTL \in Nat /\ NoticeTimeout \in Nat
    /\ NoticesUntil \in Nat \ {0}

DedupeKeys == NoticeKeys \cup Commands

VARIABLES
    entries,    \* MemoryStore.entries: key -> [text, state, expiresAt]
    commands,   \* commandBroker.deliveries: id -> [state, expiresAt]
    sending,    \* what each call sends: [key, text, deadline]
    told,       \* history: key -> the text last reported as sent, and when
    overran     \* history: keys a send of which has outlasted its reservation

noticesVars == <<now, entries, commands, sending, told, overran>>

Free      == [text |-> NoText, state |-> "free", expiresAt |-> 0]
NoCommand == [state |-> "none", expiresAt |-> 0]
NotTold   == [text |-> NoText, at |-> 0]
Silent    == [key |-> NoText, text |-> NoText, deadline |-> 0]

NoticesInit ==
    /\ now = 1
    /\ entries = [k \in DedupeKeys |-> Free]
    /\ commands = [d \in Commands |-> NoCommand]
    /\ sending = [c \in Senders |-> Silent]
    /\ told = [k \in DedupeKeys |-> NotTold]
    /\ overran = {}

Sending(c) == sending[c] # Silent

(* Mutation of Reserved: an attempt in flight counts for nothing.          *)
SentOnly(k) == entries[k].state = "sent" /\ now <= entries[k].expiresAt

(* An entry counts until its time is over, and is then reserved anew.      *)
Reserved(k) == entries[k].state # "free" /\ now <= entries[k].expiresAt

Duplicate(k, x) == Reserved(k) /\ entries[k].text = x /\ entries[k].state = "sent"

Reserve(c, k, x) ==
    /\ entries' = [entries EXCEPT ![k] =
                      [text |-> x, state |-> "inFlight", expiresAt |-> now + DedupeTTL]]
    /\ sending' = [sending EXCEPT ![c] =
                      [key |-> k, text |-> x, deadline |-> now + NoticeTimeout]]

(* SendNotification, and SendMessage with a key.  A duplicate is answered  *)
(* with the stored result, a conflict and an attempt in flight with an     *)
(* error: nothing changes.                                                 *)
Notify(c, k, x) ==
    /\ ~Sending(c) /\ ~Reserved(k)
    /\ Reserve(c, k, x)
    /\ UNCHANGED <<now, commands, told, overran>>

-----------------------------------------------------------------------------
Known(d)  == commands[d].state # "none" /\ now <= commands[d].expiresAt

(* A command reaches a subscriber.  A redelivery does so again only after  *)
(* the broker has pruned the first.                                        *)
DispatchLegacy(d) ==
    /\ ~Known(d)
    /\ commands' = [commands EXCEPT ![d] = [state |-> "open", expiresAt |-> now + DedupeTTL]]
    /\ UNCHANGED <<now, entries, sending, told, overran>>

(* respondCommand: one response at a time, and none after the first.       *)
Respond(c, d, x) ==
    /\ ~Sending(c)
    /\ Known(d) /\ commands[d].state = "open"
    /\ ~Reserved(d)
    /\ commands' = [commands EXCEPT ![d].state = "responding"]
    /\ Reserve(c, d, x)
    /\ UNCHANGED <<now, told, overran>>

(* The store has the response already: the delivery is marked, nothing is  *)
(* sent.  With other content, or while it is in flight, the delivery is    *)
(* left open.                                                              *)
RespondAgain(d, x) ==
    /\ Known(d) /\ commands[d].state = "open"
    /\ Duplicate(d, x)
    /\ commands' = [commands EXCEPT ![d].state = "responded"]
    /\ UNCHANGED <<now, entries, sending, told, overran>>

(* Mutation of FinishResponse: a response that failed stays under way.     *)
FinishedWhenSent(k, sent) ==
    commands' = [d \in Commands |->
        IF d = k /\ commands[d].state # "none" /\ sent
        THEN [commands[d] EXCEPT !.state = "responded"]
        ELSE commands[d]]

(* finishResponse marks whatever delivery has the id by now.               *)
FinishResponse(k, sent) ==
    commands' = [d \in Commands |->
        IF d = k /\ commands[d].state # "none"
        THEN [commands[d] EXCEPT !.state = IF sent THEN "responded" ELSE "open"]
        ELSE commands[d]]

-----------------------------------------------------------------------------
(* Mutation of Committed: the entry keeps the time of its reservation.     *)
CommittedAsReserved(k) == [entries[k] EXCEPT !.state = "sent"]

(* Commit finds the entry by its key, whoever reserved it.                 *)
Committed(k) ==
    IF entries[k].state = "free" THEN Free
    ELSE [entries[k] EXCEPT !.state = "sent", !.expiresAt = now + DedupeTTL]

NoticeSent(c) ==
    /\ Sending(c)
    /\ LET k == sending[c].key
       IN  /\ entries' = [entries EXCEPT ![k] = Committed(k)]
           /\ told' = [told EXCEPT ![k] = [text |-> sending[c].text, at |-> now]]
           /\ FinishResponse(k, TRUE)
    /\ sending' = [sending EXCEPT ![c] = Silent]
    /\ UNCHANGED <<now, overran>>

(* Whatever the error, the key is free again: what a send in doubt may     *)
(* have posted is left to Feishu's memory of the UUID made from the key.   *)
NoticeFails(c) ==
    /\ Sending(c)
    /\ entries' = [entries EXCEPT ![sending[c].key] = Free]
    /\ FinishResponse(sending[c].key, FALSE)
    /\ sending' = [sending EXCEPT ![c] = Silent]
    /\ UNCHANGED <<now, told, overran>>

(* At time t the call has been sending for longer than the dedupe TTL.     *)
Outlasts(c, t) == Sending(c) /\ t + NoticeTimeout > sending[c].deadline + DedupeTTL

NoticesTick ==
    /\ \A c \in Senders : Sending(c) => now < sending[c].deadline
    /\ Tick(NoticesUntil)
    /\ overran' = overran \cup {sending[c].key : c \in {s \in Senders : Outlasts(s, now')}}
    /\ UNCHANGED <<entries, commands, sending, told>>

NoticesNext ==
    \/ \E c \in Senders, x \in Texts :
          \/ \E k \in NoticeKeys : Notify(c, k, x)
          \/ \E d \in Commands : Respond(c, d, x)
    \/ \E d \in Commands : DispatchLegacy(d) \/ \E x \in Texts : RespondAgain(d, x)
    \/ \E c \in Senders : NoticeSent(c) \/ NoticeFails(c)
    \/ NoticesTick

NoticesSpec == NoticesInit /\ [][NoticesNext]_noticesVars

-----------------------------------------------------------------------------
NoticeTime == 0..(NoticesUntil + DedupeTTL)

NoticesTypeOK ==
    /\ now \in 1..NoticesUntil
    /\ entries \in [DedupeKeys -> [text : Texts \cup {NoText},
                                   state : {"free", "inFlight", "sent"},
                                   expiresAt : NoticeTime]]
    /\ commands \in [Commands -> [state : {"none", "open", "responding", "responded"},
                                  expiresAt : NoticeTime]]
    /\ sending \in [Senders -> [key : DedupeKeys \cup {NoText},
                                text : Texts \cup {NoText},
                                deadline : 0..(NoticesUntil + NoticeTimeout)]]
    /\ told \in [DedupeKeys -> [text : Texts \cup {NoText}, at : 0..NoticesUntil]]
    /\ overran \subseteq DedupeKeys

(* Reservation, send and commit are three steps with no lock between them, *)
(* and commit and abort go by the key alone.  Still, as long as no send    *)
(* has outlasted its reservation, the entry of a key that is being sent is *)
(* the sender's own, alive and in flight, and it is the only sender: no    *)
(* commit or abort hits another's entry, whoever else fails or expires.    *)
SendersOwnTheirKeys ==
    \A c \in Senders : Sending(c) /\ sending[c].key \notin overran =>
        /\ entries[sending[c].key].state = "inFlight"
        /\ entries[sending[c].key].text = sending[c].text
        /\ now <= entries[sending[c].key].expiresAt
        /\ \A e \in Senders \ {c} : sending[e].key # sending[c].key

(* A delivery is responding while its response is being sent, and answered *)
(* only if it was sent, although a response may finish on a delivery that  *)
(* was pruned meanwhile and came anew: none is stuck, none is lost.        *)
DeliveriesFollowSends ==
    \A d \in Commands : Known(d) =>
        /\ commands[d].state = "responding" => \E c \in Senders : sending[c].key = d
        /\ commands[d].state = "responded" => told[d] # NotTold

(* Two contents are reported as sent under one key only when the dedupe    *)
(* TTL lies between, unless a send under the key has outlasted it.         *)
OneContentPerKey ==
    [][\A k \in DedupeKeys \ overran :
          told[k] # NotTold /\ told'[k].text # told[k].text =>
              now > told[k].at + DedupeTTL]_noticesVars

(* "`source` + `dedupe_key` make every call idempotent" (docs/ipc.md), and *)
(* other content is a dedupe_conflict ("dedupe key reused with different   *)
(* content", notify.go): two contents are never both reported as sent      *)
(* under one key within the dedupe TTL.                                    *)
KeysStayBound ==
    [][\A k \in DedupeKeys :
          told[k] # NotTold /\ told'[k].text # told[k].text =>
              now > told[k].at + DedupeTTL]_noticesVars

=============================================================================
