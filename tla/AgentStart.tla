------------------------------ MODULE AgentStart ------------------------------
(***************************************************************************)
(* StartAgentResponse for one delivery: several callers -- a provider and  *)
(* its own retries, or two providers the event was fanned out to -- race   *)
(* to claim the delivery, create its card, and send the card message under *)
(* one Feishu message UUID.                                                *)
(*                                                                         *)
(* A caller looks the delivery up and pins it before it waits for          *)
(* delivery.mu, which the holder keeps for its whole call.  The message    *)
(* endpoint may apply a request whose outcome the daemon never learns, and *)
(* forgets a UUID Window after it first accepted it; so time matters, and  *)
(* the clock is discrete.  A request reaches Feishu before the deadline of *)
(* the call that made it, or never.                                        *)
(***************************************************************************)
EXTENDS Integers, Sequences, FiniteSets

CONSTANTS
    Callers,        \* concurrent StartAgentResponse calls
    StartRequests,  \* what they may ask: [provider, operation, content]
    NoRequest,      \* no request
    SendTimeout,    \* cfg.SendTimeout: bounds the Feishu calls of one Start
    Window,         \* messageUUIDDedupeWindow
    TTL,            \* the broker's TTL
    MaxTime,        \* bound: the clock stops here
    MaxResponses,   \* bound: response ids randomOpaqueID may still mint
    MaxCoTs         \* bound: CoT messages Feishu takes

Responses == 1 .. MaxResponses
Providers == {req.provider : req \in StartRequests}

ASSUME StartAssumption ==
    /\ IsFiniteSet(Callers)
    /\ NoRequest \notin StartRequests
    /\ \A a, b \in StartRequests :             \* no more than its fields
          <<a.provider, a.operation, a.content>> = <<b.provider, b.operation, b.content>>
              => a = b
    /\ SendTimeout \in Nat \ {0}
    /\ Window \in Nat
    /\ TTL \in Nat /\ Window + SendTimeout <= TTL      \* config.Load
    /\ MaxTime \in Nat \ {0}
    /\ MaxResponses \in Nat
    /\ MaxCoTs \in Nat

VARIABLES
    now,            \* the clock; it starts at 1, and 0 is the zero time
    \* the agentDelivery
    claim,          \* the request whose identity it keeps, or NoRequest
    responseID,     \* the response id of the claim, 0 without one
    minted,         \* response ids minted so far
    state,          \* agentDeliveryState
    carded,         \* cardID # ""
    ambiguousAt,    \* sendAmbiguousAt
    retryClosed,    \* sendRetryClosed
    expiresAt,
    owners,         \* the ownership snapshot on disk, of its responses
    \* the callers
    at,             \* where each caller is
    asks,           \* the request it brought
    deadline,       \* the deadline of the Feishu calls of the mutex holder
    sendStartedAt,  \* sendAttemptStartedAt of the mutex holder
    answers,        \* successes reported: [request, response]
    \* Feishu
    cards,          \* the cards in the chat, in order: the response of each
    cots,           \* the CoT messages in the chat, in order, likewise
    acceptedAt,     \* response -> when its message UUID was accepted, 0 if not
    inTransit         \* sends the daemon gave up on: [response, by]

delivery == <<claim, responseID, minted, state, carded, ambiguousAt, retryClosed>>
feishuSide   == <<cards, cots, acceptedAt, inTransit>>
startVars     == <<now, delivery, expiresAt, owners, at, asks, deadline, sendStartedAt,
              answers, feishuSide>>

States  == {"open", "starting", "retryable", "streaming"}
Places  == {"idle", "waiting", "creating", "sending", "answering"}
Holding == {"creating", "sending", "answering"}

Registered == state = "streaming"
Locked     == \E c \in Callers : at[c] \in Holding

-----------------------------------------------------------------------------
(***************************************************************************)
(* Feishu.                                                                 *)
(***************************************************************************)
Remembered(id) == acceptedAt[id] # 0 /\ now < acceptedAt[id] + Window

(* The message endpoint takes a card once per UUID it still remembers.     *)
Accept(id) ==
    IF Remembered(id)
    THEN UNCHANGED <<cards, acceptedAt>>
    ELSE /\ cards' = Append(cards, id)
         /\ acceptedAt' = [acceptedAt EXCEPT ![id] = now]

StartInit ==
    /\ now = 1
    /\ claim = NoRequest
    /\ responseID = 0
    /\ minted = 0
    /\ state = "open"
    /\ carded = FALSE
    /\ ambiguousAt = 0
    /\ retryClosed = FALSE
    /\ expiresAt = 1 + TTL
    /\ owners = {}
    /\ at = [c \in Callers |-> "idle"]
    /\ asks = [c \in Callers |-> NoRequest]
    /\ deadline = 0
    /\ sendStartedAt = 0
    /\ answers = {}
    /\ cards = <<>>
    /\ cots = <<>>
    /\ acceptedAt = [id \in Responses |-> 0]
    /\ inTransit = {}

-----------------------------------------------------------------------------
Later(a, b) == IF a < b THEN b ELSE a

(* Mutation of Pin: a Start does not extend the life of its delivery.      *)
PinNothing(at0) == expiresAt' = expiresAt

(* lookupAndPinDelivery keeps the delivery at least until Pin(now).        *)
Pin(at0) == expiresAt' = Later(expiresAt, at0 + Window + SendTimeout)

(* lookupAndPinAgentDelivery, under the routes and broker mutexes only.    *)
Lookup(c, req) ==
    /\ at[c] = "idle"
    /\ now <= expiresAt
    /\ Pin(now)
    /\ at' = [at EXCEPT ![c] = "waiting"]
    /\ asks' = [asks EXCEPT ![c] = req]
    /\ UNCHANGED <<now, delivery, owners, deadline, sendStartedAt, answers, feishuSide>>

Acquiring(c) == at[c] = "waiting" /\ ~Locked

Return(c) ==
    /\ at' = [at EXCEPT ![c] = "idle"]
    /\ asks' = [asks EXCEPT ![c] = NoRequest]
    /\ deadline' = 0
    /\ sendStartedAt' = 0

Fingerprint(req) == <<req.provider, req.content>>

SameClaim(req) ==
    /\ claim.operation = req.operation
    /\ Fingerprint(claim) = Fingerprint(req)

(* messageRetryWindowExhausted.                                            *)
Exhausted == ambiguousAt # 0 /\ now + SendTimeout >= ambiguousAt + Window

(* Mutation of MayRetry: a Start closed as unknown is retried.             *)
MayRetryUnknown == ~Exhausted

InProgress == state \in {"starting", "streaming"}

MayRetry == ~retryClosed /\ ~Exhausted

(* already_responded, operation_conflict, response_in_flight, the closed   *)
(* errors: the call returns and leaves the delivery as it is -- except     *)
(* that the first retry to meet the end of the window closes it.           *)
Refuse(c) ==
    /\ Acquiring(c)
    /\ claim # NoRequest
    /\ \/ ~SameClaim(asks[c]) /\ UNCHANGED retryClosed
       \/ state = "starting" /\ UNCHANGED retryClosed
       \/ /\ SameClaim(asks[c])
          /\ ~InProgress
          /\ ~MayRetry
          /\ retryClosed' = TRUE
    /\ Return(c)
    /\ UNCHANGED <<now, claim, responseID, minted, state, carded, ambiguousAt,
                   expiresAt, owners, answers, feishuSide>>

(* The exact retry of a Start that has its response: a duplicate receipt.  *)
Repeat(c) ==
    /\ Acquiring(c)
    /\ claim # NoRequest
    /\ SameClaim(asks[c])
    /\ Registered
    /\ at' = [at EXCEPT ![c] = "answering"]
    /\ deadline' = now
    /\ UNCHANGED <<now, delivery, expiresAt, owners, asks, sendStartedAt, answers,
                   feishuSide>>

(* The first Start claims the delivery; an exact retry takes it up again.  *)
Claim(c) ==
    /\ Acquiring(c)
    /\ IF claim = NoRequest
       THEN /\ minted < MaxResponses
            /\ claim' = asks[c]
            /\ responseID' = minted + 1
            /\ minted' = minted + 1
       ELSE /\ SameClaim(asks[c])
            /\ ~InProgress
            /\ MayRetry
            /\ UNCHANGED <<claim, responseID, minted>>
    /\ state' = "starting"
    /\ at' = [at EXCEPT ![c] = "creating"]
    /\ deadline' = now + SendTimeout
    /\ UNCHANGED <<now, carded, ambiguousAt, retryClosed, expiresAt, owners, asks,
                   sendStartedAt, answers, feishuSide>>

(* Mutation of Abort: the operation id of the claim is not reset.          *)
AbortKeepsClaim ==
    /\ responseID' = 0
    /\ state' = "open"
    /\ carded' = FALSE
    /\ ambiguousAt' = 0
    /\ retryClosed' = FALSE
    /\ UNCHANGED <<claim, minted>>

(* abortStartAttempt: the delivery is open again, with no trace of it.     *)
Abort ==
    /\ claim' = NoRequest
    /\ responseID' = 0
    /\ state' = "open"
    /\ carded' = FALSE
    /\ ambiguousAt' = 0
    /\ retryClosed' = FALSE
    /\ UNCHANGED minted

(* Mutation of Interrupted: the attempt that failed stays in progress.     *)
InterruptedStarting == state' = "starting"

Interrupted == state' = "retryable"

(* CreateCard refused: for good, or (retryable, unknown) for now.  A card  *)
(* entity left behind by an unknown outcome is never shown.                *)
CreateFails(c) ==
    /\ at[c] = "creating"
    /\ ~carded
    /\ \/ Abort
       \/ /\ Interrupted
          /\ UNCHANGED <<claim, responseID, minted, carded, ambiguousAt, retryClosed>>
    /\ Return(c)
    /\ UNCHANGED <<now, expiresAt, owners, answers, feishuSide>>

(* The card exists; before the message is sent, createAgentCoT opens a CoT *)
(* message, if the provider may have one and Feishu takes it.              *)
StartSending(c) ==
    /\ at[c] = "creating"
    /\ carded' = TRUE
    /\ \/ /\ Len(cots) < MaxCoTs
          /\ cots' = Append(cots, responseID)
       \/ UNCHANGED cots
    /\ at' = [at EXCEPT ![c] = "sending"]
    /\ sendStartedAt' = now
    /\ UNCHANGED <<now, claim, responseID, minted, state, ambiguousAt, retryClosed,
                   expiresAt, owners, asks, deadline, answers, cards, acceptedAt,
                   inTransit>>

(* SendCard succeeds: the response is registered and compacted.            *)
SendSucceeds(c) ==
    /\ at[c] = "sending"
    /\ Accept(responseID)
    /\ state' = "streaming"
    /\ carded' = FALSE
    /\ ambiguousAt' = 0
    /\ retryClosed' = FALSE
    /\ at' = [at EXCEPT ![c] = "answering"]
    /\ UNCHANGED <<now, claim, responseID, minted, expiresAt, owners, asks, deadline,
                   sendStartedAt, answers, cots, inTransit>>

(* Mutation of EndAttempt: an earlier attempt in doubt is forgotten.     *)
EndByAborting == Abort

EndAttempt ==
    IF ambiguousAt # 0
    THEN /\ Interrupted
         /\ retryClosed' = TRUE
         /\ UNCHANGED <<claim, responseID, minted, carded, ambiguousAt>>
    ELSE Abort

SendRejected(c) ==
    /\ at[c] = "sending"
    /\ EndAttempt
    /\ Return(c)
    /\ UNCHANGED <<now, expiresAt, owners, answers, feishuSide>>

(* HTTP 429, 230020, 200810: nothing was sent.                             *)
SendDeferred(c) ==
    /\ at[c] = "sending"
    /\ Interrupted
    /\ Return(c)
    /\ UNCHANGED <<now, claim, responseID, minted, carded, ambiguousAt, retryClosed,
                   expiresAt, owners, answers, feishuSide>>

(* Mutation of FirstDoubt: the latest attempt in doubt moves the window.   *)
LatestDoubt == sendStartedAt

(* The window runs from the start of the first attempt in doubt.           *)
FirstDoubt == IF ambiguousAt = 0 THEN sendStartedAt ELSE ambiguousAt

(* A transport error, HTTP 5xx or 300120: sent, lost, or under way.        *)
SendInDoubt(c) ==
    /\ at[c] = "sending"
    /\ \/ Accept(responseID) /\ UNCHANGED <<cots, inTransit>>
       \/ UNCHANGED feishuSide
       \/ /\ inTransit' = inTransit \cup {[response |-> responseID, by |-> deadline]}
          /\ UNCHANGED <<cards, cots, acceptedAt>>
    /\ ambiguousAt' = FirstDoubt
    /\ Interrupted
    /\ Return(c)
    /\ UNCHANGED <<now, claim, responseID, minted, carded, retryClosed, expiresAt,
                   owners, answers>>

LateSend(send) ==
    /\ inTransit' = inTransit \ {send}
    /\ Accept(send.response) \/ UNCHANGED <<cards, acceptedAt>>
    /\ UNCHANGED <<now, delivery, expiresAt, owners, at, asks, deadline, sendStartedAt,
                   answers, cots>>

Owner == [provider |-> claim.provider, response |-> responseID]

(* Mutation of Persisted: a failed write is reported as a success.         *)
PersistedOrNot == owners' \in {owners, owners \cup {Owner}}

(* persistAgentOwner wrote the snapshot.                                   *)
Persisted == owners' = owners \cup {Owner}

Answer(c) ==
    /\ at[c] = "answering"
    /\ Persisted
    /\ answers' = answers \cup {[request |-> asks[c], response |-> responseID]}
    /\ Return(c)
    /\ UNCHANGED <<now, delivery, expiresAt, feishuSide>>

(* It could not: a retryable error, though the response stays registered,  *)
(* and the snapshot too if only the sync that follows its rename failed.   *)
PersistFails(c) ==
    /\ at[c] = "answering"
    /\ owners' \in {owners, owners \cup {Owner}}
    /\ Return(c)
    /\ UNCHANGED <<now, delivery, expiresAt, answers, feishuSide>>

(* Time passes, but past no deadline of a call or of a request under way,  *)
(* and not while delivery.mu is free for a caller that waits for it.       *)
Tick ==
    /\ now < MaxTime
    /\ IF Locked THEN now < deadline ELSE \A c \in Callers : at[c] = "idle"
    /\ \A send \in inTransit : now < send.by
    /\ now' = now + 1
    /\ UNCHANGED <<delivery, expiresAt, owners, at, asks, deadline, sendStartedAt,
                   answers, feishuSide>>

Holder(c) ==
    \/ CreateFails(c)
    \/ StartSending(c)
    \/ SendSucceeds(c)
    \/ SendRejected(c)
    \/ SendDeferred(c)
    \/ SendInDoubt(c)
    \/ Answer(c)
    \/ PersistFails(c)

Acquire(c) == Refuse(c) \/ Repeat(c) \/ Claim(c)

StartNext ==
    \/ \E c \in Callers : \/ \E req \in StartRequests : Lookup(c, req)
                          \/ Acquire(c)
                          \/ Holder(c)
    \/ \E send \in inTransit : LateSend(send)
    \/ Tick

(* SendTimeout bounds the Feishu calls of the mutex holder and the mutex   *)
(* is starvation free; a provider repeats its Start until it is answered,  *)
(* and Feishu does not refuse the same request for now for ever.           *)
StartFairness ==
    /\ \A c \in Callers :
          /\ WF_startVars(Holder(c))
          /\ SF_startVars(Acquire(c))
          /\ SF_startVars(StartSending(c))
          /\ SF_startVars(SendSucceeds(c))
    /\ \A req \in StartRequests :
          SF_startVars(claim = req /\ \E c \in Callers : Lookup(c, req))

StartSpec == StartInit /\ [][StartNext]_startVars

StartFairSpec == StartSpec /\ StartFairness

-----------------------------------------------------------------------------
(* Every variable has its type.                                            *)
StartTypeOK ==
    /\ now \in 1 .. MaxTime
    /\ claim \in StartRequests \cup {NoRequest}
    /\ responseID \in Responses \cup {0}
    /\ minted \in 0 .. MaxResponses
    /\ state \in States
    /\ carded \in BOOLEAN
    /\ ambiguousAt \in 0 .. MaxTime
    /\ retryClosed \in BOOLEAN
    /\ expiresAt \in Nat
    /\ owners \subseteq [provider : Providers, response : Responses]
    /\ at \in [Callers -> Places]
    /\ asks \in [Callers -> StartRequests \cup {NoRequest}]
    /\ deadline \in 0 .. MaxTime + SendTimeout
    /\ sendStartedAt \in 0 .. MaxTime
    /\ answers \subseteq [request : StartRequests, response : Responses]
    /\ cards \in Seq(Responses)
    /\ cots \in Seq(Responses)
    /\ acceptedAt \in [Responses -> 0 .. MaxTime]
    /\ inTransit \subseteq [response : Responses, by : 1 .. MaxTime + SendTimeout]

(* A message that is in the chat, or may still get there, is the claimed   *)
(* response's: no refusal, abort or replacement ever orphans a card        *)
(* ("retains the claim ... and rejects replacements", docs/agent.md).      *)
ClaimCoversSends ==
    /\ \A i \in DOMAIN cards : cards[i] = responseID
    /\ \A send \in inTransit : send.response = responseID

(* The pin is dated before the wait for delivery.mu, the retry window from *)
(* the send after it.  So a claim may be pruned while its retry would be   *)
(* accepted, but too early by no more than one timeout for each Start      *)
(* beyond two that ran side by side -- two never lose it --, whoever       *)
(* waited for whom and however often they called again.                    *)
PrunedNoEarlier ==
    ambiguousAt # 0 /\ MayRetry =>
        now < expiresAt + (Cardinality(Callers) - 2) * SendTimeout

(* "This retains an ambiguous Start claim through Feishu's one-hour IM     *)
(* message-UUID retry window" (docs/agent.md): while a retry would be      *)
(* accepted its delivery has not expired.                                  *)
RetainedWhileRetryable ==
    ambiguousAt # 0 /\ MayRetry => now <= expiresAt

(* What a restart will know agrees with what providers were told and with  *)
(* what the chat shows: a success means an owner on disk, and an owner is  *)
(* always the provider that was answered, of the one card in the chat.     *)
OwnersMatch ==
    /\ answers # {} => owners # {}
    /\ \A owner \in owners :
          /\ cards = <<owner.response>>
          /\ \A answer \in answers :
                owner = [provider |-> answer.request.provider, response |-> answer.response]

(* Once a Start is closed it stays closed under its claim, and no attempt  *)
(* is ever made for it again: reconciliation is the operator's.            *)
ClosedIsFinal ==
    [][retryClosed => retryClosed' /\ claim' = claim /\ ~Locked']_startVars

(* All success receipts are of one request and one response, whose card is *)
(* in the chat, alone.                                                     *)
Promise == INSTANCE SingleAnswer WITH Requests <- StartRequests

ImplementsSingleAnswer == Promise!Spec

(* A claimed delivery does not stay in between: its response is opened, or *)
(* it is released, or closed for the operator -- or its time has run out.  *)
ClaimResolves ==
    \A req \in StartRequests :
        claim = req ~> \/ Registered
                       \/ claim # req
                       \/ retryClosed
                       \/ now > expiresAt

(* "attempted is set the first time any call tries to create the CoT ...   *)
(* so a failed (or unbindable) create is never retried for this response": *)
(* at most one CoT message opens per response.                             *)
OneCoT == \A i, j \in DOMAIN cots : cots[i] = cots[j] => i = j

=============================================================================
