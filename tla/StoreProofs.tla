----------------------------- MODULE StoreProofs -----------------------------
(***************************************************************************)
(* Theorems about the two stores that remember what was done: the dedupe   *)
(* store with the notices sent under its keys, and the ownership store;    *)
(* and about the ordinary sends a notice is made of.  For any number of    *)
(* callers, keys, contents, messages and attempts, and all times that      *)
(* config.Load and Open accept.                                            *)
(***************************************************************************)
EXTENDS Notices, OwnershipStore, OrdinarySend, FiniteSetTheorems, TLAPS

-----------------------------------------------------------------------------
(***************************************************************************)
(* Notices.                                                                *)
(***************************************************************************)
USE NoticesAssumption

NoticeEntry == [text : Texts \cup {NoText}, state : {"free", "inFlight", "sent"},
                expiresAt : NoticeTime]

(* A send is over by its deadline.  Its reservation was made when it       *)
(* began, unless another send has taken the key over meanwhile.            *)
SendsAreTimed ==
    \A c \in Senders : Sending(c) =>
        /\ sending[c].key \in DedupeKeys
        /\ now <= sending[c].deadline
        /\ sending[c].key \notin overran =>
              sending[c].deadline + DedupeTTL
                  = entries[sending[c].key].expiresAt + NoticeTimeout

(* What was reported as sent is on file for the dedupe TTL after that, if  *)
(* no send has outlasted its reservation.                                  *)
SentIsOnFile ==
    /\ \A k \in DedupeKeys : entries[k].state = "sent" => told[k] # NotTold
    /\ \A k \in DedupeKeys \ overran : told[k] # NotTold /\ now <= told[k].at + DedupeTTL =>
          /\ entries[k].state = "sent"
          /\ entries[k].text = told[k].text
          /\ told[k].at + DedupeTTL <= entries[k].expiresAt

(* A delivery that is responding has its sender, known or pruned.          *)
RespondingIsSent ==
    \A d \in Commands :
        /\ commands[d].state = "responding" => \E c \in Senders : sending[c].key = d
        /\ commands[d].state = "responded" => told[d] # NotTold

(* The inductive invariant.                                                *)
NoticesInv ==
    /\ NoticesTypeOK
    /\ SendsAreTimed
    /\ SendersOwnTheirKeys
    /\ SentIsOnFile
    /\ RespondingIsSent

-----------------------------------------------------------------------------
LEMMA InitNoticesInv == NoticesInit => NoticesInv
<1> SUFFICES ASSUME NoticesInit PROVE NoticesInv
  OBVIOUS
<1> USE DEF NoticesInit, Free, NoCommand, NotTold, Silent
<1>1. NoticesTypeOK
  <2>1. now \in 1..NoticesUntil /\ 0 \in NoticeTime
    BY DEF NoticeTime
  <2> QED
    BY <2>1 DEF NoticesTypeOK
<1>2. SendsAreTimed /\ SendersOwnTheirKeys
  BY DEF SendsAreTimed, SendersOwnTheirKeys, Sending
<1>3. SentIsOnFile /\ RespondingIsSent
  BY DEF SentIsOnFile, RespondingIsSent, DedupeKeys
<1> QED
  BY <1>1, <1>2, <1>3 DEF NoticesInv

(* Moments of the clock and what is reckoned from them.                    *)
LEMMA Times ==
    ASSUME NoticesTypeOK
    PROVE  /\ now \in Nat /\ now >= 1 /\ now <= NoticesUntil
           /\ now + DedupeTTL \in NoticeTime
           /\ now + NoticeTimeout \in 0..(NoticesUntil + NoticeTimeout)
BY DEF NoticesTypeOK, NoticeTime

(* A sender's record, and the key it sends under.                          *)
LEMMA SenderType ==
    ASSUME NoticesTypeOK, SendsAreTimed, NEW c \in Senders, Sending(c)
    PROVE  /\ sending[c].key \in DedupeKeys
           /\ sending[c].text \in Texts \cup {NoText}
           /\ sending[c].deadline \in Nat
           /\ entries[sending[c].key] \in NoticeEntry
BY DEF NoticesTypeOK, SendsAreTimed, NoticeEntry, NoticeTime

-----------------------------------------------------------------------------
(* A reservation: the sender has the key to itself, whatever the key was   *)
(* used for before.                                                        *)
LEMMA ReserveKeeps ==
    ASSUME NoticesInv, NEW c \in Senders, NEW k \in DedupeKeys, NEW x \in Texts,
           ~Sending(c), ~Reserved(k), Reserve(c, k, x), UNCHANGED <<now, told, overran>>
    PROVE  /\ entries' \in [DedupeKeys -> NoticeEntry]
           /\ sending' \in [Senders -> [key : DedupeKeys \cup {NoText},
                                        text : Texts \cup {NoText},
                                        deadline : 0..(NoticesUntil + NoticeTimeout)]]
           /\ SendsAreTimed' /\ SendersOwnTheirKeys' /\ SentIsOnFile'
           /\ sending'[c].key = k
           /\ \A e \in Senders \ {c} : sending'[e] = sending[e]
<1> USE DEF NoticesInv
<1> DEFINE entry == [text |-> x, state |-> "inFlight", expiresAt |-> now + DedupeTTL]
           send  == [key |-> k, text |-> x, deadline |-> now + NoticeTimeout]
<1>1. /\ entry \in NoticeEntry /\ send # Silent
      /\ send \in [key : DedupeKeys \cup {NoText}, text : Texts \cup {NoText},
                   deadline : 0..(NoticesUntil + NoticeTimeout)]
  BY Times DEF NoticeEntry, Silent, DedupeKeys
<1>2. /\ entries'[k] = entry /\ \A j \in DedupeKeys \ {k} : entries'[j] = entries[j]
      /\ sending'[c] = send /\ \A e \in Senders \ {c} : sending'[e] = sending[e]
  BY DEF Reserve, NoticesTypeOK
<1>3. /\ entries' \in [DedupeKeys -> NoticeEntry]
      /\ sending' \in [Senders -> [key : DedupeKeys \cup {NoText},
                                   text : Texts \cup {NoText},
                                   deadline : 0..(NoticesUntil + NoticeTimeout)]]
  BY <1>1 DEF Reserve, NoticesTypeOK, NoticeEntry
<1>4. \A e \in Senders : Sending(e) /\ sending[e].key \notin overran => sending[e].key # k
  BY DEF SendersOwnTheirKeys, Reserved
<1>5. \A e \in Senders \ {c} : Sending(e)' = Sending(e)
  BY <1>2 DEF Sending
<1>6. SendsAreTimed'
  <2> SUFFICES ASSUME NEW e \in Senders, Sending(e)'
               PROVE  /\ sending'[e].key \in DedupeKeys /\ now <= sending'[e].deadline
                      /\ sending'[e].key \notin overran =>
                            sending'[e].deadline + DedupeTTL
                                = entries'[sending'[e].key].expiresAt + NoticeTimeout
    BY DEF SendsAreTimed
  <2>1. CASE e = c
    BY <2>1, <1>2, Times
  <2>2. CASE e # c
    BY <2>2, <1>2, <1>4, <1>5 DEF SendsAreTimed
  <2> QED
    BY <2>1, <2>2
<1>7. SendersOwnTheirKeys'
  <2> SUFFICES ASSUME NEW e \in Senders, Sending(e)', sending'[e].key \notin overran
               PROVE  /\ entries'[sending'[e].key].state = "inFlight"
                      /\ entries'[sending'[e].key].text = sending'[e].text
                      /\ now <= entries'[sending'[e].key].expiresAt
                      /\ \A f \in Senders \ {e} : sending'[f].key # sending'[e].key
    BY DEF SendersOwnTheirKeys
  <2>1. \A f \in Senders : ~Sending(f) => sending[f].key # k
    BY DEF Sending, Silent, DedupeKeys
  <2>2. CASE e = c
    BY <2>2, <1>2, <1>4, <2>1, Times
  <2>3. CASE e # c
    <3>1. Sending(e) /\ sending'[e] = sending[e] /\ sending[e].key # k
      BY <2>3, <1>2, <1>4, <1>5
    <3>2. sending[e].key \in DedupeKeys
      BY <3>1 DEF SendsAreTimed
    <3> QED
      BY <2>3, <3>1, <3>2, <1>2 DEF SendersOwnTheirKeys
  <2> QED
    BY <2>2, <2>3
<1>8. SentIsOnFile'
  <2>1. told[k] # NotTold /\ k \notin overran => now > told[k].at + DedupeTTL
    <3>1. told[k].at \in Nat /\ entries[k].expiresAt \in Nat
      BY DEF NoticesTypeOK, NoticeTime
    <3> QED
      BY <3>1, Times DEF SentIsOnFile, Reserved
  <2>2. told[k].at \in Nat
    BY DEF NoticesTypeOK
  <2> QED
    BY <1>2, <2>1, <2>2, Times DEF SentIsOnFile
<1> QED
  BY <1>2, <1>3, <1>6, <1>7, <1>8

(* The end of a send, whatever it does to the entry of its key: the other  *)
(* senders keep theirs.                                                    *)
LEMMA EndKeeps ==
    ASSUME NoticesInv, NEW c \in Senders, Sending(c), UNCHANGED <<now, overran>>,
           sending' = [sending EXCEPT ![c] = Silent],
           \A j \in DedupeKeys \ {sending[c].key} : entries'[j] = entries[j]
    PROVE  /\ sending' \in [Senders -> [key : DedupeKeys \cup {NoText},
                                        text : Texts \cup {NoText},
                                        deadline : 0..(NoticesUntil + NoticeTimeout)]]
           /\ SendsAreTimed' /\ SendersOwnTheirKeys'
           /\ \A e \in Senders \ {c} : sending'[e] = sending[e]
<1> USE DEF NoticesInv
<1>1. sending'[c] = Silent /\ \A e \in Senders \ {c} : sending'[e] = sending[e]
  BY DEF NoticesTypeOK
<1>2. Silent \in [key : DedupeKeys \cup {NoText}, text : Texts \cup {NoText},
                 deadline : 0..(NoticesUntil + NoticeTimeout)]
  BY DEF Silent
<1>3. \A e \in Senders : Sending(e)' =>
          /\ e # c /\ Sending(e)
          /\ sending[e].key \notin overran => sending[e].key # sending[c].key
  BY <1>1 DEF Sending, SendersOwnTheirKeys
<1>4. SendsAreTimed'
  BY <1>1, <1>3 DEF SendsAreTimed
<1>5. SendersOwnTheirKeys'
  <2> SUFFICES ASSUME NEW e \in Senders, Sending(e)', sending'[e].key \notin overran
               PROVE  /\ entries'[sending'[e].key].state = "inFlight"
                      /\ entries'[sending'[e].key].text = sending'[e].text
                      /\ now <= entries'[sending'[e].key].expiresAt
                      /\ \A f \in Senders \ {e} : sending'[f].key # sending'[e].key
    BY DEF SendersOwnTheirKeys
  <2>1. /\ e # c /\ Sending(e) /\ sending'[e] = sending[e]
        /\ sending[e].key # sending[c].key /\ sending[e].key \in DedupeKeys
    BY <1>1, <1>3 DEF SendsAreTimed
  <2>2. sending'[c].key # sending[e].key
    BY <2>1, <1>1 DEF Silent, DedupeKeys
  <2> QED
    BY <2>1, <2>2, <1>1 DEF SendersOwnTheirKeys
<1>6. sending' \in [Senders -> [key : DedupeKeys \cup {NoText}, text : Texts \cup {NoText},
                               deadline : 0..(NoticesUntil + NoticeTimeout)]]
  BY <1>2 DEF NoticesTypeOK
<1> QED
  BY <1>1, <1>4, <1>5, <1>6

(* A step that sends nothing and ends no send changes the deliveries only. *)
LEMMA QuietKeeps ==
    ASSUME NoticesInv, UNCHANGED <<now, entries, sending, told, overran>>
    PROVE  SendsAreTimed' /\ SendersOwnTheirKeys' /\ SentIsOnFile'
BY DEF NoticesInv, SendsAreTimed, SendersOwnTheirKeys, SentIsOnFile, Sending

-----------------------------------------------------------------------------
LEMMA NotifyKeeps ==
    ASSUME NoticesInv, NEW c \in Senders, NEW k \in NoticeKeys, NEW x \in Texts, Notify(c, k, x)
    PROVE  NoticesInv'
<1> USE DEF Notify
<1>1. k \in DedupeKeys /\ k \notin Commands
  BY DEF DedupeKeys
<1>2. /\ entries' \in [DedupeKeys -> NoticeEntry]
      /\ sending' \in [Senders -> [key : DedupeKeys \cup {NoText},
                                   text : Texts \cup {NoText},
                                   deadline : 0..(NoticesUntil + NoticeTimeout)]]
      /\ SendsAreTimed' /\ SendersOwnTheirKeys' /\ SentIsOnFile'
      /\ \A e \in Senders \ {c} : sending'[e] = sending[e]
  BY <1>1, ReserveKeeps
<1>3. NoticesTypeOK'
  BY <1>2 DEF NoticesInv, NoticesTypeOK, NoticeEntry
<1>4. RespondingIsSent'
  <2>1. sending[c].key \notin Commands
    BY DEF Sending, Silent
  <2> QED
    BY <1>2, <2>1 DEF NoticesInv, RespondingIsSent
<1> QED
  BY <1>2, <1>3, <1>4 DEF NoticesInv

LEMMA RespondKeeps ==
    ASSUME NoticesInv, NEW c \in Senders, NEW d \in Commands, NEW x \in Texts, Respond(c, d, x)
    PROVE  NoticesInv'
<1> USE DEF Respond
<1>1. d \in DedupeKeys
  BY DEF DedupeKeys
<1>2. /\ entries' \in [DedupeKeys -> NoticeEntry]
      /\ sending' \in [Senders -> [key : DedupeKeys \cup {NoText},
                                   text : Texts \cup {NoText},
                                   deadline : 0..(NoticesUntil + NoticeTimeout)]]
      /\ SendsAreTimed' /\ SendersOwnTheirKeys' /\ SentIsOnFile'
      /\ sending'[c].key = d
      /\ \A e \in Senders \ {c} : sending'[e] = sending[e]
  BY <1>1, ReserveKeeps
<1>3. NoticesTypeOK'
  BY SMTT(30), <1>2 DEF NoticesInv, NoticesTypeOK, NoticeEntry
<1>4. RespondingIsSent'
  <2>1. sending[c].key \notin Commands
    BY DEF Sending, Silent
  <2>2. /\ commands'[d].state = "responding"
        /\ \A g \in Commands \ {d} : commands'[g] = commands[g]
    BY DEF NoticesInv, NoticesTypeOK
  <2> QED
    BY <1>2, <2>1, <2>2 DEF NoticesInv, RespondingIsSent
<1> QED
  BY <1>2, <1>3, <1>4 DEF NoticesInv

LEMMA DispatchKeeps ==
    ASSUME NoticesInv, NEW d \in Commands, DispatchLegacy(d)
    PROVE  NoticesInv'
<1> USE DEF DispatchLegacy
<1>1. NoticesTypeOK'
  BY Times DEF NoticesInv, NoticesTypeOK
<1>2. RespondingIsSent'
  BY DEF NoticesInv, RespondingIsSent, NoticesTypeOK
<1> QED
  BY <1>1, <1>2, QuietKeeps DEF NoticesInv

LEMMA RespondAgainKeeps ==
    ASSUME NoticesInv, NEW d \in Commands, NEW x \in Texts, RespondAgain(d, x)
    PROVE  NoticesInv'
<1> USE DEF RespondAgain
<1>1. NoticesTypeOK'
  BY DEF NoticesInv, NoticesTypeOK
<1>2. told[d] # NotTold
  BY DEF NoticesInv, SentIsOnFile, Duplicate, DedupeKeys
<1>3. RespondingIsSent'
  BY <1>2 DEF NoticesInv, RespondingIsSent, NoticesTypeOK
<1> QED
  BY <1>1, <1>3, QuietKeeps DEF NoticesInv

LEMMA FinishType ==
    ASSUME NoticesInv, NEW k, NEW sent \in BOOLEAN, FinishResponse(k, sent)
    PROVE  /\ commands' \in [Commands -> [state : {"none", "open", "responding", "responded"},
                                          expiresAt : NoticeTime]]
           /\ \A d \in Commands : d # k => commands'[d] = commands[d]
           /\ k \in Commands => commands'[k].state # "responding"
           /\ k \in Commands /\ ~sent => commands'[k].state # "responded"
BY DEF NoticesInv, NoticesTypeOK, FinishResponse

LEMMA SentKeeps ==
    ASSUME NoticesInv, NEW c \in Senders, NoticeSent(c)
    PROVE  NoticesInv'
<1> DEFINE k == sending[c].key
<1> USE DEF NoticeSent
<1>1. /\ k \in DedupeKeys /\ sending[c].text \in Texts \cup {NoText}
      /\ k \notin overran => entries[k].state = "inFlight" /\ entries[k].text = sending[c].text
      /\ entries[k] \in NoticeEntry
  BY SenderType DEF NoticesInv, SendersOwnTheirKeys
<1>2. /\ k \notin overran => /\ entries'[k].state = "sent"
                            /\ entries'[k].text = sending[c].text
                            /\ entries'[k].expiresAt = now + DedupeTTL
      /\ \A j \in DedupeKeys \ {k} : entries'[j] = entries[j]
      /\ entries' \in [DedupeKeys -> NoticeEntry]
  <2>1. Free \in NoticeEntry
    BY DEF Free, NoticeEntry, NoticeTime
  <2> QED
    BY <1>1, <2>1, Times DEF Committed, NoticesInv, NoticesTypeOK, NoticeEntry
<1>3. /\ told'[k] = [text |-> sending[c].text, at |-> now]
      /\ \A j \in DedupeKeys \ {k} : told'[j] = told[j]
      /\ told' \in [DedupeKeys -> [text : Texts \cup {NoText}, at : 0..NoticesUntil]]
  BY <1>1, Times DEF NoticesInv, NoticesTypeOK
<1>4. /\ sending' \in [Senders -> [key : DedupeKeys \cup {NoText},
                                   text : Texts \cup {NoText},
                                   deadline : 0..(NoticesUntil + NoticeTimeout)]]
      /\ SendsAreTimed' /\ SendersOwnTheirKeys'
      /\ \A e \in Senders \ {c} : sending'[e] = sending[e]
  BY <1>2, EndKeeps
<1>5. NoticesTypeOK'
  BY <1>2, <1>3, <1>4, FinishType DEF NoticesInv, NoticesTypeOK, NoticeEntry
<1>6. SentIsOnFile'
  <2>1. told'[k] # NotTold
    BY <1>3, Times DEF NoticesInv, NotTold
  <2> QED
    BY <1>2, <1>3, <2>1, Times DEF NoticesInv, SentIsOnFile
<1>7. RespondingIsSent'
  <2>1. told'[k] # NotTold
    BY <1>3, Times DEF NoticesInv, NotTold
  <2>2. Commands \subseteq DedupeKeys
    BY DEF DedupeKeys
  <2>3. \A d \in Commands, e \in Senders : d # k /\ sending[e].key = d => sending'[e].key = d
    BY <1>4
  <2>4. /\ \A d \in Commands : d # k => commands'[d] = commands[d]
        /\ k \in Commands => commands'[k].state # "responding"
    BY FinishType
  <2> HIDE DEF k
  <2> QED
    BY <1>3, <2>1, <2>2, <2>3, <2>4 DEF NoticesInv, RespondingIsSent
<1> QED
  BY <1>4, <1>5, <1>6, <1>7 DEF NoticesInv

LEMMA FailsKeeps ==
    ASSUME NoticesInv, NEW c \in Senders, NoticeFails(c)
    PROVE  NoticesInv'
<1> DEFINE k == sending[c].key
<1> USE DEF NoticeFails
<1>1. k \in DedupeKeys /\ (k \notin overran => entries[k].state = "inFlight")
  BY SenderType DEF NoticesInv, SendersOwnTheirKeys
<1>2. /\ entries'[k] = Free /\ \A j \in DedupeKeys \ {k} : entries'[j] = entries[j]
      /\ entries' \in [DedupeKeys -> NoticeEntry]
  <2>1. Free \in NoticeEntry
    BY DEF Free, NoticeEntry, NoticeTime
  <2> QED
    BY <1>1, <2>1 DEF NoticesInv, NoticesTypeOK, NoticeEntry
<1>3. /\ sending' \in [Senders -> [key : DedupeKeys \cup {NoText},
                                   text : Texts \cup {NoText},
                                   deadline : 0..(NoticesUntil + NoticeTimeout)]]
      /\ SendsAreTimed' /\ SendersOwnTheirKeys'
      /\ \A e \in Senders \ {c} : sending'[e] = sending[e]
  BY <1>2, EndKeeps
<1>4. NoticesTypeOK'
  BY <1>2, <1>3, FinishType DEF NoticesInv, NoticesTypeOK, NoticeEntry
<1>5. SentIsOnFile'
  BY <1>1, <1>2 DEF NoticesInv, SentIsOnFile, Free
<1>6. RespondingIsSent'
  <2>1. \A d \in Commands, e \in Senders : d # k /\ sending[e].key = d => sending'[e].key = d
    BY <1>3
  <2>2. /\ \A d \in Commands : d # k => commands'[d] = commands[d]
        /\ k \in Commands => commands'[k].state \notin {"responding", "responded"}
    BY FinishType
  <2>3. told' = told
    OBVIOUS
  <2> HIDE DEF k, NoticeFails
  <2> QED
    BY <2>1, <2>2, <2>3 DEF NoticesInv, RespondingIsSent
<1> QED
  BY <1>3, <1>4, <1>5, <1>6 DEF NoticesInv

LEMMA TickKeeps ==
    ASSUME NoticesInv, NoticesTick
    PROVE  NoticesInv'
<1> USE DEF NoticesTick, Tick
<1>1. now \in Nat /\ now' = now + 1 /\ now' \in 1..NoticesUntil
  BY Times DEF NoticesInv, NoticesTypeOK
<1>2. overran \subseteq overran' /\ overran' \subseteq DedupeKeys
  BY SenderType DEF NoticesInv, NoticesTypeOK, Outlasts
<1>3. NoticesTypeOK' /\ RespondingIsSent'
  BY <1>1, <1>2 DEF NoticesInv, NoticesTypeOK, RespondingIsSent
<1>4. SendsAreTimed' /\ SendersOwnTheirKeys'
  <2> SUFFICES ASSUME NEW c \in Senders, Sending(c)
               PROVE  /\ now' <= sending[c].deadline
                      /\ sending[c].key \notin overran' =>
                            now' <= entries[sending[c].key].expiresAt
    BY <1>1, <1>2 DEF NoticesInv, SendsAreTimed, SendersOwnTheirKeys, Sending
  <2>1. sending[c].deadline \in Nat /\ entries[sending[c].key].expiresAt \in Nat
    BY SenderType DEF NoticesInv, NoticeEntry, NoticeTime
  <2>2. now' <= sending[c].deadline
    BY <1>1, <2>1 DEF NoticesInv, SendsAreTimed
  <2>3. ASSUME sending[c].key \notin overran' PROVE now' <= entries[sending[c].key].expiresAt
    <3>1. now' + NoticeTimeout <= sending[c].deadline + DedupeTTL
      BY <1>1, <2>1, <2>3 DEF Outlasts
    <3>2. sending[c].deadline + DedupeTTL = entries[sending[c].key].expiresAt + NoticeTimeout
      BY <1>2, <2>3 DEF NoticesInv, SendsAreTimed
    <3> QED
      BY <1>1, <2>1, <3>1, <3>2
  <2> QED
    BY <2>2, <2>3
<1>5. SentIsOnFile'
  <2>1. \A k \in DedupeKeys : told[k].at \in Nat
    BY DEF NoticesInv, NoticesTypeOK
  <2> QED
    BY <1>1, <1>2, <2>1 DEF NoticesInv, SentIsOnFile
<1> QED
  BY <1>3, <1>4, <1>5 DEF NoticesInv

(* Every step keeps the invariant.                                         *)
LEMMA StepNoticesInv == NoticesInv /\ [NoticesNext]_noticesVars => NoticesInv'
<1> SUFFICES ASSUME NoticesInv, [NoticesNext]_noticesVars PROVE NoticesInv'
  OBVIOUS
<1>1. CASE UNCHANGED noticesVars
  BY <1>1, QuietKeeps DEF NoticesInv, noticesVars, NoticesTypeOK, RespondingIsSent
<1>2. CASE NoticesNext
  BY <1>2, NotifyKeeps, RespondKeeps, DispatchKeeps, RespondAgainKeeps, SentKeeps,
     FailsKeeps, TickKeeps DEF NoticesNext
<1> QED
  BY <1>1, <1>2

LEMMA NoticesInvariant == NoticesSpec => []NoticesInv
BY InitNoticesInv, StepNoticesInv, PTL DEF NoticesSpec

-----------------------------------------------------------------------------
(* Type correctness of notices.                                            *)
THEOREM NoticesTypeCorrect == NoticesSpec => []NoticesTypeOK
<1>1. NoticesInv => NoticesTypeOK
  BY DEF NoticesInv
<1> QED
  BY NoticesInvariant, <1>1, PTL

(* No commit or abort of deliver hits another's entry, however many calls  *)
(* compete for a key and whichever of the TTL and the timeout is longer,   *)
(* before a send under that key has outlasted its reservation.             *)
THEOREM KeysAreOwned == NoticesSpec => []SendersOwnTheirKeys
<1>1. NoticesInv => SendersOwnTheirKeys
  BY DEF NoticesInv
<1> QED
  BY NoticesInvariant, <1>1, PTL

(* No delivery is stuck in responding, and none counts as answered before  *)
(* its response was sent: finishResponse on whatever delivery it finds.    *)
THEOREM DeliveriesAreFollowed == NoticesSpec => []DeliveriesFollowSends
<1>1. NoticesInv => DeliveriesFollowSends
  BY DEF NoticesInv, RespondingIsSent, DeliveriesFollowSends
<1> QED
  BY NoticesInvariant, <1>1, PTL

(* Two contents are never reported under one key within the dedupe TTL,    *)
(* before a send under it has outlasted its reservation.                   *)
THEOREM ContentsKeepApart == NoticesSpec => OneContentPerKey
<1> DEFINE Apart == \A k \in DedupeKeys \ overran :
                       told[k] # NotTold /\ told'[k].text # told[k].text =>
                           now > told[k].at + DedupeTTL
<1>1. NoticesInv /\ [NoticesNext]_noticesVars => [Apart]_noticesVars
  <2> SUFFICES ASSUME NoticesInv, NoticesNext, NEW k \in DedupeKeys \ overran,
                      told[k] # NotTold, told'[k].text # told[k].text
               PROVE  now > told[k].at + DedupeTTL
    OBVIOUS
  <2>1. PICK c \in Senders : NoticeSent(c)
    BY DEF NoticesNext, Notify, Respond, DispatchLegacy, RespondAgain, NoticeFails, NoticesTick
  <2>2. k = sending[c].key
    BY <2>1 DEF NoticeSent, NoticesInv, NoticesTypeOK
  <2>3. entries[k].state = "inFlight"
    BY <2>1, <2>2 DEF NoticeSent, NoticesInv, SendersOwnTheirKeys
  <2>4. now \in Nat /\ told[k].at \in Nat
    BY DEF NoticesInv, NoticesTypeOK
  <2> QED
    BY <2>3, <2>4 DEF NoticesInv, SentIsOnFile
<1> QED
  BY NoticesInvariant, <1>1, PTL DEF NoticesSpec, OneContentPerKey

-----------------------------------------------------------------------------
(***************************************************************************)
(* OwnershipStore: an owner the store has acknowledged survives.           *)
(***************************************************************************)
USE OwnershipAssumption

(* No owner lasts longer than one put now would.                           *)
Bounded(snapshot) == \A m \in Authored : snapshot[m] <= now + OwnerTTL

NoneTooLate ==
    /\ Bounded(owners) /\ Bounded(file) /\ Bounded(acked)
    /\ \A s \in durable : Bounded(s)

(* A snapshot is written by an open store only, and what has been renamed  *)
(* is what is in memory: nobody changes the owners in between.             *)
WrittenByOpen ==
    /\ persisting # "idle" => store = "open"
    /\ persisting = "renamed" => file = owners
    /\ persisting = "idle" => put = {}

(* The inductive invariant.                                                *)
OwnershipInv == OwnershipTypeOK /\ NoneTooLate /\ WrittenByOpen /\ AckedOwnersSurvive

LEMMA InitOwnershipInv == OwnershipInit => OwnershipInv
<1> SUFFICES ASSUME OwnershipInit PROVE OwnershipInv
  OBVIOUS
<1> USE DEF OwnershipInit
<1>1. NoOwners \in [Authored -> Expiry]
  BY DEF NoOwners, Expiry
<1>2. OwnershipTypeOK
  <2>1. now \in 1..OwnershipUntil
    BY OwnershipAssumption
  <2>2. durable \in SUBSET [Authored -> Expiry]
    BY <1>1
  <2> QED
    BY <1>1, <2>1, <2>2 DEF OwnershipTypeOK
<1>3. NoneTooLate /\ WrittenByOpen
  BY DEF NoneTooLate, Bounded, WrittenByOpen, NoOwners
<1>4. AckedOwnersSurvive
  BY DEF AckedOwnersSurvive, Keeps, NoOwners
<1> QED
  BY <1>2, <1>3, <1>4 DEF OwnershipInv

(* An expiry a Put writes is one a snapshot may hold.                      *)
LEMMA ExpiryOfPut ==
    ASSUME OwnershipTypeOK
    PROVE  now + OwnerTTL \in Expiry
BY DEF OwnershipTypeOK, Expiry

LEMMA StepOwnershipTypeOK == OwnershipTypeOK /\ OwnershipNext => OwnershipTypeOK'
<1> SUFFICES ASSUME OwnershipTypeOK, OwnershipNext PROVE OwnershipTypeOK'
  OBVIOUS
<1> USE DEF OwnershipTypeOK
<1>1. CASE Open
  BY <1>1 DEF Open
<1>2. ASSUME NEW m \in Authored, Put(m) PROVE OwnershipTypeOK'
  BY <1>2, ExpiryOfPut DEF Put
<1>3. ASSUME NEW m \in Authored, Lookup(m) PROVE OwnershipTypeOK'
  BY <1>3 DEF Lookup, Expiry
<1>4. CASE Rename
  BY <1>4 DEF Rename
<1>5. CASE Synced
  BY <1>5 DEF Synced
<1>6. CASE PersistFails
  BY <1>6 DEF PersistFails
<1>7. CASE Stop
  <2>1. NoOwners \in [Authored -> Expiry]
    BY DEF NoOwners, Expiry
  <2> QED
    BY <1>7, <2>1 DEF Stop
<1>8. CASE OwnershipTick
  BY <1>8 DEF OwnershipTick, Tick
<1> QED
  BY <1>1, <1>2, <1>3, <1>4, <1>5, <1>6, <1>7, <1>8 DEF OwnershipNext

(* Every step keeps the invariant.                                         *)
LEMMA StepOwnershipInv == OwnershipInv /\ OwnershipNext => OwnershipInv'
<1> SUFFICES ASSUME OwnershipInv, OwnershipNext PROVE OwnershipInv'
  OBVIOUS
<1> OwnershipTypeOK /\ OwnershipTypeOK'
  BY StepOwnershipTypeOK DEF OwnershipInv
<1> USE DEF OwnershipTypeOK, NoneTooLate, Bounded, WrittenByOpen, AckedOwnersSurvive,
            Keeps, Expiry
<1>1. CASE Open
  BY <1>1 DEF Open, OwnershipInv
<1>2. ASSUME NEW m \in Authored, Put(m) PROVE OwnershipInv'
  <2>1. owners'[m] = now + OwnerTTL /\ \A n \in Authored \ {m} : owners'[n] = owners[n]
    BY <1>2 DEF Put
  <2> QED
    BY <1>2, <2>1 DEF Put, OwnershipInv
<1>3. ASSUME NEW m \in Authored, Lookup(m) PROVE OwnershipInv'
  <2>1. now >= acked[m]
    BY <1>3 DEF Lookup, Unexpired, OwnershipInv
  <2>2. owners'[m] = 0 /\ \A n \in Authored \ {m} : owners'[n] = owners[n]
    BY <1>3 DEF Lookup
  <2> QED
    BY <1>3, <2>1, <2>2 DEF Lookup, OwnershipInv
<1>4. CASE Rename
  BY <1>4 DEF Rename, OwnershipInv
<1>5. CASE Synced
  BY <1>5 DEF Synced, OwnershipInv
<1>6. CASE PersistFails
  BY <1>6 DEF PersistFails, OwnershipInv
<1>7. CASE Stop
  BY <1>7 DEF Stop, OwnershipInv, NoOwners
<1>8. CASE OwnershipTick
  BY <1>8 DEF OwnershipTick, Tick, OwnershipInv
<1> QED
  BY <1>1, <1>2, <1>3, <1>4, <1>5, <1>6, <1>7, <1>8 DEF OwnershipNext

LEMMA OwnershipInvariant == OwnershipSpec => []OwnershipInv
<1>1. OwnershipInv /\ UNCHANGED ownershipVars => OwnershipInv'
  BY DEF OwnershipInv, OwnershipTypeOK, NoneTooLate, Bounded, WrittenByOpen, AckedOwnersSurvive,
         Keeps, ownershipVars
<1> QED
  BY InitOwnershipInv, StepOwnershipInv, <1>1, PTL DEF OwnershipSpec

(* Type correctness of the ownership store.                                *)
THEOREM OwnershipTypeCorrect == OwnershipSpec => []OwnershipTypeOK
<1>1. OwnershipInv => OwnershipTypeOK
  BY DEF OwnershipInv
<1> QED
  BY OwnershipInvariant, <1>1, PTL

(* Every snapshot that a crash, a power failure or a failed write can      *)
(* leave, and the memory of an open store, have each owner that Put has    *)
(* acknowledged, for as long as it was promised: Store.persistLocked.      *)
THEOREM OwnersSurvive == OwnershipSpec => []AckedOwnersSurvive
<1>1. OwnershipInv => AckedOwnersSurvive
  BY DEF OwnershipInv
<1> QED
  BY OwnershipInvariant, <1>1, PTL

-----------------------------------------------------------------------------
(***************************************************************************)
(* Ordinary sends: ChannelSender.Send does what MessageSend promises.      *)
(***************************************************************************)
USE OrdinarySendAssumption

(* Feishu has taken the messages up to the one being sent, with that one   *)
(* or without: none is sent before the ones in front of it.                *)
TakenInTurn ==
    /\ taken \in {1..(message - 1), 1..message}
    /\ reached => message \in taken

(* There is a result when the call is done, and not before.                *)
ResultWhenDone == step = "done" <=> outcome # "none"

(* A pause has an attempt after it.                                        *)
PausesBetween == step = "pausing" => attempt < Attempts

(* The inductive invariant.                                                *)
SendInv == OrdinarySendTypeOK /\ TakenInTurn /\ ResultWhenDone /\ PausesBetween

LEMMA InitSendInv == SendInit => SendInv
<1> SUFFICES ASSUME SendInit PROVE SendInv
  OBVIOUS
<1> USE DEF SendInit
<1>1. OrdinarySendTypeOK
  <2>1. message \in 1..messages /\ attempt \in 1..Attempts
    OBVIOUS
  <2>2. taken \in SUBSET (1..messages)
    OBVIOUS
  <2> QED
    BY <2>1, <2>2 DEF OrdinarySendTypeOK
<1>2. TakenInTurn
  <2>1. 1..(message - 1) = {}
    OBVIOUS
  <2> QED
    BY <2>1 DEF TakenInTurn
<1>3. ResultWhenDone /\ PausesBetween
  BY DEF ResultWhenDone, PausesBetween
<1> QED
  BY <1>1, <1>2, <1>3 DEF SendInv

LEMMA StepSendInv == SendInv /\ [SendNext]_sendVars => SendInv'
<1> SUFFICES ASSUME SendInv, [SendNext]_sendVars PROVE SendInv'
  OBVIOUS
<1> USE DEF SendInv, OrdinarySendTypeOK, TakenInTurn, ResultWhenDone, PausesBetween
<1>1. CASE Reach
  BY <1>1 DEF Reach
<1>2. CASE Succeeds
  <2>1. CASE message = messages
    BY <1>2, <2>1 DEF Succeeds, Returns
  <2>2. CASE message # messages
    <3>1. taken = 1..message /\ message' = message + 1 /\ message' \in 1..messages
      BY <1>2, <2>2 DEF Succeeds
    <3>2. taken' = 1..(message' - 1)
      BY <1>2, <2>2, <3>1 DEF Succeeds
    <3>3. TakenInTurn' /\ ResultWhenDone' /\ PausesBetween'
      BY <1>2, <2>2, <3>2 DEF Succeeds
    <3>4. OrdinarySendTypeOK'
      <4>1. attempt' \in 1..Attempts
        BY <1>2, <2>2 DEF Succeeds
      <4> QED
        BY <1>2, <2>2, <3>1, <4>1 DEF Succeeds
    <3> QED
      BY <3>3, <3>4
  <2> QED
    BY <2>1, <2>2
<1>3. CASE RejectsFormat
  BY <1>3 DEF RejectsFormat
<1>4. CASE Rejects
  BY <1>4 DEF Rejects, Returns
<1>5. CASE FailsForNow
  BY <1>5 DEF FailsForNow, Returns
<1>6. CASE TriesAgain
  <2>1. attempt' \in 1..Attempts
    BY <1>6 DEF TriesAgain
  <2> QED
    BY <1>6, <2>1 DEF TriesAgain
<1>7. CASE GivesUp
  BY <1>7 DEF GivesUp, Returns
<1>8. CASE UNCHANGED sendVars
  BY <1>8 DEF sendVars
<1> QED
  BY <1>1, <1>2, <1>3, <1>4, <1>5, <1>6, <1>7, <1>8 DEF SendNext

LEMMA SendInvariant == SendSpec => []SendInv
BY InitSendInv, StepSendInv, PTL DEF SendSpec

-----------------------------------------------------------------------------
(* How many messages Feishu has taken.                                     *)
LEMMA Counted ==
    ASSUME SendInv
    PROVE  Cardinality(taken) = IF message \in taken THEN message ELSE message - 1
<1> USE DEF SendInv, OrdinarySendTypeOK, TakenInTurn
<1>1. \A n \in Nat : Cardinality(1..n) = n
  BY FS_Interval
<1>2. message \in Nat /\ message >= 1
  OBVIOUS
<1> QED
  BY <1>1, <1>2

(* A step of Send is a step of the promise, or shows nothing.              *)
LEMMA StepKeepsPromise ==
    SendInv /\ SendInv' /\ [SendNext]_sendVars =>
        [Promise!Arrive \/ Promise!Finish]_<<messages, Cardinality(taken), outcome>>
<1> SUFFICES ASSUME SendInv, SendInv', [SendNext]_sendVars
             PROVE  [Promise!Arrive \/ Promise!Finish]_<<messages, Cardinality(taken), outcome>>
  OBVIOUS
<1>1. CASE Reach
  <2>1. CASE message \in taken
    BY <1>1, <2>1 DEF Reach
  <2>2. CASE message \notin taken
    <3>1. Cardinality(taken) = message - 1
      BY <2>2, Counted
    <3>2. taken' = 1..message /\ message \in Nat /\ message >= 1
      BY <1>1, <2>2 DEF Reach, SendInv, OrdinarySendTypeOK, TakenInTurn
    <3>3. Cardinality(taken') = message
      BY <3>2, FS_Interval
    <3>4. outcome = "none" /\ message \in 1..messages
      BY <1>1 DEF Reach, SendInv, OrdinarySendTypeOK, ResultWhenDone
    <3> QED
      BY <1>1, <3>1, <3>3, <3>4 DEF Reach, Promise!Arrive, SendInv, OrdinarySendTypeOK
  <2> QED
    BY <2>1, <2>2
<1>2. CASE Succeeds
  <2>1. CASE message = messages
    <3>1. Cardinality(taken) = messages
      BY <1>2, <2>1, Counted DEF Succeeds, SendInv, TakenInTurn
    <3> QED
      BY <1>2, <2>1, <3>1 DEF Succeeds, Returns, Promise!Finish, SendInv, ResultWhenDone
  <2>2. CASE message # messages
    BY <1>2, <2>2 DEF Succeeds
  <2> QED
    BY <2>1, <2>2
<1>3. CASE RejectsFormat
  BY <1>3 DEF RejectsFormat
<1>4. CASE Rejects \/ GivesUp
  BY <1>4 DEF Rejects, GivesUp, Returns, Promise!Finish, SendInv, ResultWhenDone
<1>5. CASE FailsForNow
  BY <1>5 DEF FailsForNow, Returns, Promise!Finish, SendInv, ResultWhenDone
<1>6. CASE TriesAgain
  BY <1>6 DEF TriesAgain
<1>7. CASE UNCHANGED sendVars
  BY <1>7 DEF sendVars
<1> QED
  BY <1>1, <1>2, <1>3, <1>4, <1>5, <1>6, <1>7 DEF SendNext

(* Type correctness of a send.                                             *)
THEOREM SendTypeCorrect == SendSpec => []OrdinarySendTypeOK
<1>1. SendInv => OrdinarySendTypeOK
  BY DEF SendInv
<1> QED
  BY SendInvariant, <1>1, PTL

(* Send implements what its callers rely on: no message is skipped, and    *)
(* success means that Feishu has taken them all, through every retry,      *)
(* fallback and pause cut short.                                           *)
THEOREM SendKeepsPromise == SendSpec => KeepsPromise
<1>1. SendInit => Promise!Init
  <2> SUFFICES ASSUME SendInit PROVE Promise!Init
    OBVIOUS
  <2>1. Cardinality(taken) = 0
    BY FS_EmptySet DEF SendInit
  <2> QED
    BY <2>1 DEF SendInit, Promise!Init
<1> QED
  BY SendInvariant, StepKeepsPromise, <1>1, PTL DEF SendSpec, KeepsPromise, Promise!Spec

=============================================================================
