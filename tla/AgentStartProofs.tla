--------------------------- MODULE AgentStartProofs ---------------------------
(***************************************************************************)
(* Theorems about AgentStart for every number of callers and requests and  *)
(* all timeouts and windows: whatever fails, is lost or comes late, one    *)
(* card appears and one request is answered.                               *)
(***************************************************************************)
EXTENDS AgentStart, FiniteSetTheorems, TLAPS

USE StartAssumption

(***************************************************************************)
(* The inductive invariant.  Types alone are not inductive, since a caller *)
(* at work needs a claim to send.  The argument for a single card is one   *)
(* of time: an attempt is made only if its deadline lies before the end of *)
(* the window that starts with the first attempt in doubt, and nothing was *)
(* accepted before that attempt; so whatever Feishu is asked to take again *)
(* reaches it while it remembers the first time.                           *)
(***************************************************************************)
Working == {"creating", "sending"}

(* delivery.mu: one caller at a time is past it.                           *)
Exclusive == \A c, d \in Callers : at[c] \in Holding /\ at[d] \in Holding => c = d

(* Whoever has looked the delivery up brought a request.                   *)
CallersAsk == \A c \in Callers : at[c] # "idle" => asks[c] \in StartRequests

(* An open delivery has no trace of a claim, and what is recorded of one   *)
(* fits its state.                                                         *)
ClaimShape ==
    /\ claim = NoRequest <=> responseID = 0
    /\ claim = NoRequest <=> state = "open"
    /\ claim = NoRequest => ~carded /\ ambiguousAt = 0 /\ ~retryClosed
    /\ ambiguousAt # 0 => carded /\ ~Registered
    /\ retryClosed => state = "retryable"
    /\ responseID <= minted

(* A caller at work makes the attempt of the claim, and its deadline lies  *)
(* within the retry window of an earlier attempt in doubt.                 *)
AtWork(c) ==
    /\ state = "starting"
    /\ asks[c] = claim
    /\ now <= deadline
    /\ ambiguousAt # 0 => deadline < ambiguousAt + Window
    /\ IF at[c] = "creating"
       THEN deadline <= now + SendTimeout
       ELSE /\ carded
            /\ sendStartedAt # 0 /\ sendStartedAt <= now
            /\ deadline <= sendStartedAt + SendTimeout

HoldersFit ==
    \A c \in Callers :
        /\ at[c] \in Working => AtWork(c)
        /\ at[c] = "answering" => Registered /\ asks[c] = claim

(* Feishu has seen the claimed response alone, and nothing at all before   *)
(* an attempt is in doubt or has succeeded.                                *)
OneTrace ==
    /\ cards = <<>> \/ cards = <<responseID>>
    /\ Registered => cards # <<>>
    /\ ambiguousAt = 0 /\ ~Registered => cards = <<>> /\ inTransit = {}
    /\ \A id \in Responses :
          /\ acceptedAt[id] # 0 <=> cards # <<>> /\ id = responseID
          /\ acceptedAt[id] <= now
    /\ \A send \in inTransit : send.response = responseID /\ now <= send.by

(* What may still arrive does so while Feishu remembers the UUID: within   *)
(* the window of the first doubt, which precedes any acceptance -- unless  *)
(* it is the only request there is, after which no retry is allowed.       *)
Punctual(send) == send.by < ambiguousAt + Window

WindowHolds ==
    /\ ambiguousAt <= now
    /\ cards # <<>> =>
          /\ ambiguousAt <= acceptedAt[responseID]
          /\ \A send \in inTransit : send.by < acceptedAt[responseID] + Window
    /\ cards = <<>> =>
          \A send \in inTransit :
              \/ Punctual(send)
              \/ /\ inTransit = {send}
                 /\ send.by <= ambiguousAt + SendTimeout
                 /\ \A c \in Callers : at[c] \notin Working

(* All that providers were told, and all that is on disk, is of the claim. *)
RecordsFit ==
    /\ answers # {} => owners # {}
    /\ owners # {} => Registered
    /\ \A owner \in owners : owner = Owner
    /\ \A answer \in answers : answer = [request |-> claim, response |-> responseID]

IInv ==
    /\ StartTypeOK
    /\ Exclusive
    /\ CallersAsk
    /\ ClaimShape
    /\ HoldersFit
    /\ OneTrace
    /\ WindowHolds
    /\ RecordsFit

USE DEF Responses

LEMMA InitIInv == StartInit => IInv
<1> SUFFICES ASSUME StartInit PROVE IInv
  OBVIOUS
<1>1. StartTypeOK
  <2>1. now \in 1 .. MaxTime /\ expiresAt \in Nat
    BY DEF StartInit
  <2>2. cards \in Seq(Responses) /\ cots \in Seq(Responses)
    BY DEF StartInit
  <2>3. acceptedAt \in [Responses -> 0 .. MaxTime]
    BY DEF StartInit
  <2>4. at \in [Callers -> Places] /\ asks \in [Callers -> StartRequests \cup {NoRequest}]
    BY DEF StartInit, Places
  <2>5. carded \in BOOLEAN /\ retryClosed \in BOOLEAN
    BY DEF StartInit
  <2> QED
    BY <2>1, <2>2, <2>3, <2>4, <2>5 DEF StartInit, StartTypeOK, States
<1>2. Exclusive /\ CallersAsk /\ HoldersFit
  BY DEF StartInit, Exclusive, CallersAsk, HoldersFit, Holding, Working
<1>3. ClaimShape
  BY DEF StartInit, ClaimShape
<1>4. OneTrace /\ WindowHolds /\ RecordsFit
  BY DEF StartInit, OneTrace, WindowHolds, RecordsFit, Owner, Registered
<1> QED
  BY <1>1, <1>2, <1>3, <1>4 DEF IInv

(* A caller that returns was the one past the mutex, if any was: nobody is *)
(* now.                                                                    *)
LEMMA Returned ==
    ASSUME IInv, NEW c \in Callers, at[c] \in Holding \/ Acquiring(c), Return(c)
    PROVE  /\ at' \in [Callers -> Places]
           /\ asks' \in [Callers -> StartRequests \cup {NoRequest}]
           /\ deadline' \in 0 .. MaxTime + SendTimeout
           /\ sendStartedAt' \in 0 .. MaxTime
           /\ \A d \in Callers : at'[d] \notin Holding
           /\ Exclusive' /\ CallersAsk' /\ HoldersFit'
<1>1. at \in [Callers -> Places] /\ asks \in [Callers -> StartRequests \cup {NoRequest}]
  BY DEF IInv, StartTypeOK
<1>2. \A d \in Callers : d # c => at[d] \notin Holding
  BY DEF IInv, Exclusive, Acquiring, Locked
<1>3. /\ at' = [at EXCEPT ![c] = "idle"]
      /\ asks' = [asks EXCEPT ![c] = NoRequest]
      /\ deadline' = 0
      /\ sendStartedAt' = 0
  BY DEF Return
<1>4. at' \in [Callers -> Places] /\ asks' \in [Callers -> StartRequests \cup {NoRequest}]
  BY <1>1, <1>3 DEF Places
<1>5. \A d \in Callers : at'[d] \notin Holding
  BY <1>1, <1>2, <1>3 DEF Holding
<1>6. Exclusive' /\ HoldersFit'
  BY <1>5 DEF Exclusive, HoldersFit, Holding, Working
<1>7. CallersAsk'
  BY <1>1, <1>3 DEF CallersAsk, IInv
<1> QED
  BY <1>3, <1>4, <1>5, <1>6, <1>7

(* A caller at work holds a claim with a response id, and nobody else is   *)
(* past the mutex.                                                         *)
LEMMA WorkerHolds ==
    ASSUME IInv, NEW c \in Callers, at[c] \in Working
    PROVE  /\ AtWork(c) /\ ~Registered
           /\ claim \in StartRequests /\ claim # NoRequest /\ responseID \in Responses
           /\ ~retryClosed /\ answers = {} /\ owners = {}
           /\ now \in Nat /\ now >= 1 /\ deadline \in Nat
           /\ \A d \in Callers : d # c => at[d] \notin Holding
<1>1. AtWork(c)
  BY DEF IInv, HoldersFit
<1>2. \A d \in Callers : d # c => at[d] \notin Holding
  BY DEF IInv, Exclusive, Holding, Working
<1> QED
  BY <1>1, <1>2 DEF IInv, AtWork, StartTypeOK, ClaimShape, RecordsFit, Owner, Registered

(* A card that Feishu is asked to take in time is the only one.            *)
LEMMA AcceptOnce ==
    ASSUME StartTypeOK, OneTrace, responseID \in Responses, Accept(responseID),
           cards # <<>> => now < acceptedAt[responseID] + Window
    PROVE  /\ cards' = <<responseID>>
           /\ cards' # <<>>
           /\ acceptedAt' \in [Responses -> 0 .. MaxTime]
           /\ \A id \in Responses :
                 /\ acceptedAt'[id] # 0 <=> id = responseID
                 /\ acceptedAt'[id] <= now
           /\ cards # <<>> => cards' = cards /\ acceptedAt' = acceptedAt
           /\ cards = <<>> => acceptedAt'[responseID] = now
<1>1. /\ now \in 1 .. MaxTime /\ acceptedAt \in [Responses -> 0 .. MaxTime]
      /\ cards \in Seq(Responses)
  BY DEF StartTypeOK
<1>2. CASE cards = <<>>
  <2>1. acceptedAt[responseID] = 0
    BY <1>2 DEF OneTrace
  <2>2. /\ cards' = Append(cards, responseID)
        /\ acceptedAt' = [acceptedAt EXCEPT ![responseID] = now]
    BY <2>1 DEF Accept, Remembered
  <2>3. cards' = <<responseID>> /\ cards' # <<>>
    BY <1>2, <2>2
  <2> QED
    BY <1>1, <1>2, <2>2, <2>3 DEF OneTrace
<1>3. CASE cards # <<>>
  <2>1. acceptedAt[responseID] # 0
    BY <1>3 DEF OneTrace
  <2>2. UNCHANGED <<cards, acceptedAt>>
    BY <2>1, <1>3 DEF Accept, Remembered
  <2> QED
    BY <1>1, <1>3, <2>2 DEF OneTrace
<1> QED
  BY <1>2, <1>3

LEMMA LookupIInv ==
    ASSUME IInv, NEW c \in Callers, NEW req \in StartRequests, Lookup(c, req)
    PROVE  IInv'
<1>1. /\ at' = [at EXCEPT ![c] = "waiting"]
      /\ asks' = [asks EXCEPT ![c] = req]
      /\ at[c] = "idle"
  BY DEF Lookup
<1>2. StartTypeOK'
  <2>1. now + Window + SendTimeout \in Nat /\ expiresAt \in Nat
    BY DEF IInv, StartTypeOK
  <2>2. expiresAt' \in Nat
    BY <2>1 DEF Lookup, Pin, Later
  <2> QED
    BY <2>2 DEF IInv, StartTypeOK, Lookup, delivery, feishuSide, Places
<1>3. Exclusive' /\ CallersAsk' /\ HoldersFit'
  BY <1>1 DEF IInv, StartTypeOK, Lookup, delivery, feishuSide, Exclusive, CallersAsk, HoldersFit,
              AtWork, Holding, Working, Registered
<1>4. ClaimShape' /\ OneTrace' /\ RecordsFit'
  BY DEF IInv, Lookup, delivery, feishuSide, ClaimShape, OneTrace, RecordsFit, Owner, Registered
<1>5. WindowHolds'
  BY <1>1 DEF IInv, StartTypeOK, Lookup, delivery, feishuSide, WindowHolds, Punctual, Working
<1> QED
  BY <1>2, <1>3, <1>4, <1>5 DEF IInv

LEMMA RefuseIInv ==
    ASSUME IInv, NEW c \in Callers, Refuse(c)
    PROVE  IInv'
<1>1. /\ Acquiring(c) /\ Return(c)
      /\ UNCHANGED <<now, claim, responseID, minted, state, carded, ambiguousAt,
                     expiresAt, owners, answers, cards, cots, acceptedAt, inTransit>>
      /\ retryClosed' = retryClosed \/ (retryClosed' = TRUE /\ ~InProgress)
      /\ claim # NoRequest
  BY DEF Refuse, feishuSide
<1>2. ClaimShape' /\ retryClosed' \in BOOLEAN
  <2>1. CASE retryClosed' = retryClosed
    BY <1>1, <2>1 DEF IInv, StartTypeOK, ClaimShape, Registered
  <2>2. CASE retryClosed' = TRUE /\ ~InProgress
    <3>1. state = "retryable" /\ state' = state /\ claim' = claim
      BY <1>1, <2>2 DEF IInv, StartTypeOK, ClaimShape, InProgress, States
    <3> QED
      BY <1>1, <2>2, <3>1 DEF IInv, ClaimShape, Registered
  <2> QED
    BY <1>1, <2>1, <2>2
<1>3. StartTypeOK' /\ OneTrace' /\ RecordsFit'
  BY <1>1, <1>2, Returned DEF IInv, StartTypeOK, OneTrace, RecordsFit, Owner, Registered
<1>4. WindowHolds'
  BY <1>1, Returned DEF IInv, WindowHolds, Punctual, Working, Holding
<1> QED
  BY <1>1, <1>2, <1>3, <1>4, Returned DEF IInv

LEMMA SameClaimIsClaim ==
    ASSUME claim \in StartRequests, NEW req \in StartRequests, SameClaim(req)
    PROVE  req = claim
BY DEF SameClaim, Fingerprint

(* A caller may pass the mutex when nobody is past it.                     *)
LEMMA AcquiringType ==
    ASSUME IInv, NEW c \in Callers, Acquiring(c)
    PROVE  /\ at[c] = "waiting" /\ asks[c] \in StartRequests
           /\ \A d \in Callers : at[d] \notin Holding
BY DEF IInv, CallersAsk, Acquiring, Locked

LEMMA RepeatIInv ==
    ASSUME IInv, NEW c \in Callers, Repeat(c)
    PROVE  IInv'
<1>1. /\ at[c] = "waiting" /\ asks[c] \in StartRequests
      /\ \A d \in Callers : at[d] \notin Holding
      /\ asks[c] = claim
  BY AcquiringType, SameClaimIsClaim DEF Repeat, IInv, StartTypeOK
<1>2. /\ at' = [at EXCEPT ![c] = "answering"] /\ deadline' = now
      /\ at \in [Callers -> Places] /\ Registered
      /\ UNCHANGED <<now, delivery, expiresAt, owners, asks, sendStartedAt, answers,
                     feishuSide>>
  BY DEF Repeat, IInv, StartTypeOK
<1>3. StartTypeOK'
  BY <1>2 DEF IInv, StartTypeOK, delivery, feishuSide, Places
<1>4. Exclusive' /\ CallersAsk' /\ HoldersFit'
  BY <1>1, <1>2 DEF IInv, Exclusive, CallersAsk, HoldersFit, Holding, Working, delivery,
                    Registered
<1>5. ClaimShape' /\ OneTrace' /\ RecordsFit'
  BY <1>2 DEF IInv, delivery, feishuSide, ClaimShape, OneTrace, RecordsFit, Owner, Registered
<1>6. WindowHolds'
  BY <1>1, <1>2 DEF IInv, delivery, feishuSide, WindowHolds, Punctual, Working, Holding
<1> QED
  BY <1>3, <1>4, <1>5, <1>6 DEF IInv

(* A retry is admitted only if all its calls end within the window; then   *)
(* everything under way arrives within it as well.                         *)
LEMMA ClaimIInv ==
    ASSUME IInv, NEW c \in Callers, Claim(c)
    PROVE  IInv'
<1>0. /\ StartTypeOK /\ ClaimShape /\ OneTrace /\ WindowHolds /\ RecordsFit
      /\ now \in Nat /\ now >= 1 /\ ambiguousAt \in Nat
      /\ at \in [Callers -> Places]
  BY DEF IInv, StartTypeOK
<1>1. /\ at[c] = "waiting" /\ asks[c] \in StartRequests
      /\ \A d \in Callers : at[d] \notin Holding
  BY AcquiringType DEF Claim
<1>2. /\ at' = [at EXCEPT ![c] = "creating"]
      /\ deadline' = now + SendTimeout
      /\ state' = "starting"
      /\ UNCHANGED <<now, carded, ambiguousAt, retryClosed, expiresAt, owners, asks,
                     sendStartedAt, answers, cards, cots, acceptedAt, inTransit>>
  BY DEF Claim, feishuSide
<1>3. /\ claim' = asks[c]
      /\ claim' \in StartRequests /\ claim' # NoRequest
      /\ responseID' \in Responses /\ minted' \in 0 .. MaxResponses
      /\ responseID' <= minted'
      /\ cards # <<>> => responseID' = responseID
      /\ inTransit # {} => responseID' = responseID
      /\ ~Registered
      /\ ~retryClosed
      /\ ambiguousAt # 0 => now + SendTimeout < ambiguousAt + Window
  <2>1. CASE claim = NoRequest
    <3>1. claim' = asks[c] /\ responseID' = minted + 1 /\ minted' = minted + 1
          /\ minted < MaxResponses
      BY <2>1 DEF Claim
    <3>2. minted \in Nat /\ state = "open" /\ ambiguousAt = 0 /\ ~retryClosed
      BY <1>0, <2>1 DEF StartTypeOK, ClaimShape
    <3>3. cards = <<>> /\ inTransit = {}
      BY <1>0, <3>2 DEF OneTrace, Registered
    <3> QED
      BY <1>1, <3>1, <3>2, <3>3 DEF Registered
  <2>2. CASE claim # NoRequest
    <3>1. /\ SameClaim(asks[c]) /\ ~InProgress /\ MayRetry
          /\ UNCHANGED <<claim, responseID, minted>>
      BY <2>2 DEF Claim
    <3>2. asks[c] = claim
      BY <1>0, <1>1, <2>2, <3>1, SameClaimIsClaim DEF StartTypeOK
    <3>3. ambiguousAt # 0 => now + SendTimeout < ambiguousAt + Window
      BY <1>0, <3>1 DEF MayRetry, Exhausted
    <3>4. ~retryClosed /\ ~Registered
      BY <3>1 DEF MayRetry, InProgress, Registered
    <3> QED
      BY <1>0, <1>1, <2>2, <3>1, <3>2, <3>3, <3>4 DEF StartTypeOK, ClaimShape
  <2> QED
    BY <2>1, <2>2
<1>4. StartTypeOK'
  <2>1. at' \in [Callers -> Places] /\ deadline' \in 0 .. MaxTime + SendTimeout
    BY <1>0, <1>2 DEF StartTypeOK, Places
  <2>2. carded' \in BOOLEAN /\ retryClosed' \in BOOLEAN
    BY <1>0, <1>2 DEF StartTypeOK
  <2> QED
    BY <1>0, <1>2, <1>3, <2>1, <2>2 DEF StartTypeOK, States
<1>5. Exclusive' /\ CallersAsk'
  BY <1>0, <1>1, <1>2 DEF Exclusive, IInv, CallersAsk, Holding
<1>6. HoldersFit'
  BY <1>0, <1>1, <1>2, <1>3 DEF HoldersFit, AtWork, Working, Holding
<1>7. ClaimShape'
  BY <1>0, <1>2, <1>3 DEF ClaimShape, Registered
<1>8. OneTrace'
  <2>1. cards = <<>> => \A id \in Responses : acceptedAt[id] = 0
    BY <1>0 DEF OneTrace
  <2>2. /\ cards' = <<>> \/ cards' = <<responseID'>>
        /\ \A id \in Responses :
              /\ acceptedAt'[id] # 0 <=> cards' # <<>> /\ id = responseID'
              /\ acceptedAt'[id] <= now'
    BY <1>0, <1>2, <1>3, <2>1 DEF OneTrace
  <2>3. ~Registered'
    BY <1>2 DEF Registered
  <2>4. ambiguousAt' = 0 => cards' = <<>> /\ inTransit' = {}
    BY <1>0, <1>2, <1>3 DEF OneTrace
  <2>5. \A send \in inTransit' : send.response = responseID' /\ now' <= send.by
    BY <1>0, <1>2, <1>3 DEF OneTrace
  <2> QED
    BY <2>2, <2>3, <2>4, <2>5 DEF OneTrace
<1>9. WindowHolds'
  <2>1. cards = <<>> => \A send \in inTransit : Punctual(send)
    <3> SUFFICES ASSUME cards = <<>>, NEW send \in inTransit PROVE Punctual(send)
      OBVIOUS
    <3>1. ambiguousAt # 0 /\ send.by \in Nat
      <4>1. ambiguousAt # 0
        BY <1>0, <1>3 DEF OneTrace
      <4>2. send \in [response : Responses, by : 1 .. MaxTime + SendTimeout]
        BY <1>0 DEF StartTypeOK
      <4> QED
        BY <4>1, <4>2
    <3>2. send.by <= ambiguousAt + SendTimeout => Punctual(send)
      BY <1>0, <1>3, <3>1 DEF WindowHolds, Punctual
    <3> QED
      BY <1>0, <3>2 DEF WindowHolds
  <2> QED
    BY <1>0, <1>2, <1>3, <2>1 DEF WindowHolds, Punctual
<1>10. RecordsFit'
  BY <1>0, <1>2, <1>3 DEF RecordsFit, Owner
<1> QED
  BY <1>4, <1>5, <1>6, <1>7, <1>8, <1>9, <1>10 DEF IInv

(* An attempt that failed for now leaves the claim to its retry.           *)
LEMMA InterruptedIInv ==
    ASSUME IInv, NEW c \in Callers, at[c] \in Working, Return(c), Interrupted,
           retryClosed' \in BOOLEAN,
           UNCHANGED <<now, claim, responseID, minted, carded, ambiguousAt, expiresAt,
                       owners, answers, feishuSide>>
    PROVE  IInv'
<1>1. ~Registered /\ claim # NoRequest
  BY WorkerHolds
<1>2. /\ \A d \in Callers : at'[d] \notin Holding
      /\ Exclusive' /\ CallersAsk' /\ HoldersFit'
  BY Returned DEF Holding, Working
<1>3. StartTypeOK'
  BY Returned DEF IInv, StartTypeOK, feishuSide, Interrupted, States, Holding, Working
<1>4. ClaimShape' /\ OneTrace'
  BY <1>1 DEF IInv, ClaimShape, OneTrace, feishuSide, Interrupted, Registered
<1>5. WindowHolds'
  BY <1>2 DEF IInv, WindowHolds, feishuSide, Punctual, Working, Holding
<1>6. RecordsFit'
  BY WorkerHolds DEF RecordsFit, Owner
<1> QED
  BY <1>2, <1>3, <1>4, <1>5, <1>6 DEF IInv

(* A claim is given up only while nothing was sent, or may still be.       *)
LEMMA AbortIInv ==
    ASSUME IInv, NEW c \in Callers, at[c] \in Working, Return(c), Abort,
           ambiguousAt = 0,
           UNCHANGED <<now, expiresAt, owners, answers, feishuSide>>
    PROVE  IInv'
<1>1. ~Registered /\ answers = {} /\ owners = {} /\ cards = <<>> /\ inTransit = {}
  BY WorkerHolds DEF IInv, OneTrace
<1>2. /\ \A d \in Callers : at'[d] \notin Holding
      /\ Exclusive' /\ CallersAsk' /\ HoldersFit'
  BY Returned DEF Holding, Working
<1>3. StartTypeOK'
  BY Returned DEF IInv, StartTypeOK, feishuSide, Abort, States, Holding, Working
<1>4. ClaimShape'
  BY DEF IInv, StartTypeOK, ClaimShape, Abort, Registered
<1>5. OneTrace'
  BY <1>1 DEF IInv, StartTypeOK, OneTrace, feishuSide, Abort, Registered
<1>6. WindowHolds' /\ RecordsFit'
  BY <1>1 DEF IInv, StartTypeOK, WindowHolds, RecordsFit, Owner, feishuSide, Abort
<1> QED
  BY <1>2, <1>3, <1>4, <1>5, <1>6 DEF IInv

LEMMA FailuresIInv ==
    ASSUME IInv, NEW c \in Callers,
           CreateFails(c) \/ SendRejected(c) \/ SendDeferred(c)
    PROVE  IInv'
<1>1. CASE CreateFails(c)
  <2>1. ambiguousAt = 0 /\ retryClosed \in BOOLEAN /\ at[c] \in Working
    BY <1>1 DEF CreateFails, IInv, StartTypeOK, ClaimShape, Working
  <2> QED
    BY <1>1, <2>1, AbortIInv, InterruptedIInv DEF CreateFails
<1>2. CASE SendRejected(c)
  <2>1. at[c] \in Working
    BY <1>2 DEF SendRejected, Working
  <2> QED
    BY <1>2, <2>1, AbortIInv, InterruptedIInv DEF SendRejected, EndAttempt
<1>3. CASE SendDeferred(c)
  <2>1. retryClosed \in BOOLEAN /\ at[c] \in Working
    BY <1>3 DEF SendDeferred, IInv, StartTypeOK, Working
  <2> QED
    BY <1>3, <2>1, InterruptedIInv DEF SendDeferred
<1> QED
  BY <1>1, <1>2, <1>3

LEMMA AppendType ==
    ASSUME NEW S, NEW list \in Seq(S), NEW item \in S
    PROVE  Append(list, item) \in Seq(S)
OBVIOUS

LEMMA StartSendingIInv ==
    ASSUME IInv, NEW c \in Callers, StartSending(c)
    PROVE  IInv'
<1>0. /\ at[c] = "creating" /\ at[c] \in Working
      /\ at' = [at EXCEPT ![c] = "sending"] /\ at \in [Callers -> Places]
      /\ carded' = TRUE /\ sendStartedAt' = now
      /\ UNCHANGED <<now, claim, responseID, minted, state, ambiguousAt, retryClosed,
                     expiresAt, owners, asks, deadline, answers, cards, acceptedAt, inTransit>>
  BY DEF StartSending, Working, IInv, StartTypeOK
<1>1. /\ AtWork(c) /\ responseID \in Responses /\ claim # NoRequest
      /\ now \in Nat /\ now >= 1
      /\ \A d \in Callers : d # c => at[d] \notin Holding
  BY <1>0, WorkerHolds
<1>2. StartTypeOK'
  <2>1. cots' \in Seq(Responses)
    <3>1. cots \in Seq(Responses)
      BY DEF IInv, StartTypeOK
    <3>2. Append(cots, responseID) \in Seq(Responses)
      BY <1>1, <3>1, AppendType
    <3> QED
      BY <3>1, <3>2 DEF StartSending
  <2>2. at' \in [Callers -> Places] /\ sendStartedAt' \in 0 .. MaxTime
    BY <1>0 DEF IInv, StartTypeOK, Places
  <2>3. carded' \in BOOLEAN /\ retryClosed' \in BOOLEAN
    BY <1>0 DEF IInv, StartTypeOK
  <2> QED
    BY <1>0, <2>1, <2>2, <2>3 DEF IInv, StartTypeOK
<1>3. Exclusive' /\ CallersAsk'
  BY <1>0, <1>1 DEF IInv, Exclusive, CallersAsk, Holding
<1>4. HoldersFit'
  BY <1>0, <1>1 DEF HoldersFit, AtWork, Working, Holding
<1>5. ClaimShape' /\ OneTrace' /\ RecordsFit'
  BY <1>0, <1>1 DEF IInv, ClaimShape, OneTrace, RecordsFit, Owner, Registered
<1>6. WindowHolds'
  <2>1. \A d \in Callers : at'[d] \in Working => at[d] \in Working
    BY <1>0 DEF Working
  <2> QED
    BY <1>0, <2>1 DEF IInv, WindowHolds, Punctual
<1> QED
  BY <1>2, <1>3, <1>4, <1>5, <1>6 DEF IInv

(* A send that Feishu takes is in time, and so is what is still under way. *)
LEMMA SendInTime ==
    ASSUME IInv, NEW c \in Callers, at[c] \in Working, Accept(responseID)
    PROVE  /\ cards # <<>> => now < acceptedAt[responseID] + Window
           /\ ambiguousAt <= acceptedAt'[responseID]
           /\ \A send \in inTransit : send.by < acceptedAt'[responseID] + Window
<1>0. /\ AtWork(c) /\ ~Registered /\ responseID \in Responses
      /\ now \in Nat /\ now >= 1 /\ deadline \in Nat
      /\ ambiguousAt \in Nat /\ acceptedAt[responseID] \in Nat
      /\ OneTrace /\ WindowHolds /\ StartTypeOK
  <2>1. StartTypeOK /\ OneTrace /\ WindowHolds
    BY DEF IInv
  <2>2. /\ AtWork(c) /\ ~Registered /\ responseID \in Responses
        /\ now \in Nat /\ now >= 1 /\ deadline \in Nat
    BY WorkerHolds
  <2>3. ambiguousAt \in Nat /\ acceptedAt[responseID] \in Nat
    BY <2>1, <2>2 DEF StartTypeOK
  <2> QED
    BY <2>1, <2>2, <2>3
<1>1. cards # <<>> => now < acceptedAt[responseID] + Window
  <2> SUFFICES ASSUME cards # <<>> PROVE now < acceptedAt[responseID] + Window
    OBVIOUS
  <2>1. ambiguousAt # 0
    BY <1>0 DEF OneTrace
  <2>2. now <= deadline /\ deadline < ambiguousAt + Window
    BY <1>0, <2>1 DEF AtWork
  <2>3. ambiguousAt <= acceptedAt[responseID]
    BY <1>0 DEF WindowHolds
  <2> QED
    BY <1>0, <2>2, <2>3
<1>2. CASE cards # <<>>
  BY <1>0, <1>1, <1>2, AcceptOnce DEF WindowHolds
<1>3. CASE cards = <<>>
  <2>1. acceptedAt'[responseID] = now
    BY <1>0, <1>3, AcceptOnce
  <2>2. \A send \in inTransit : send.by < ambiguousAt + Window /\ send.by \in Nat
    <3> SUFFICES ASSUME NEW send \in inTransit
                 PROVE  send.by < ambiguousAt + Window /\ send.by \in Nat
      OBVIOUS
    <3>1. send \in [response : Responses, by : 1 .. MaxTime + SendTimeout]
      BY <1>0 DEF StartTypeOK
    <3>2. Punctual(send)
      BY <1>0, <1>3 DEF WindowHolds
    <3> QED
      BY <3>1, <3>2 DEF Punctual
  <2> QED
    BY <1>0, <1>1, <2>1, <2>2 DEF WindowHolds
<1> QED
  BY <1>1, <1>2, <1>3

LEMMA SendSucceedsIInv ==
    ASSUME IInv, NEW c \in Callers, SendSucceeds(c)
    PROVE  IInv'
<1>0. /\ at[c] = "sending" /\ at[c] \in Working /\ Accept(responseID)
      /\ at' = [at EXCEPT ![c] = "answering"] /\ at \in [Callers -> Places]
      /\ state' = "streaming" /\ carded' = FALSE /\ ambiguousAt' = 0 /\ retryClosed' = FALSE
      /\ UNCHANGED <<now, claim, responseID, minted, expiresAt, owners, asks, deadline,
                     sendStartedAt, answers, cots, inTransit>>
  BY DEF SendSucceeds, Working, IInv, StartTypeOK
<1>1. /\ AtWork(c) /\ responseID \in Responses /\ claim # NoRequest
      /\ answers = {} /\ owners = {}
      /\ now \in Nat /\ now >= 1 /\ StartTypeOK /\ OneTrace
      /\ \A d \in Callers : d # c => at[d] \notin Holding
  BY <1>0, WorkerHolds DEF IInv
<1>2. /\ cards # <<>> => now < acceptedAt[responseID] + Window
      /\ \A send \in inTransit : send.by < acceptedAt'[responseID] + Window
  BY <1>0, SendInTime
<1>3. /\ cards' = <<responseID>> /\ cards' # <<>>
      /\ acceptedAt' \in [Responses -> 0 .. MaxTime]
      /\ \A id \in Responses :
            (acceptedAt'[id] # 0 <=> id = responseID) /\ acceptedAt'[id] <= now
  BY <1>0, <1>1, <1>2, AcceptOnce
<1>4. StartTypeOK'
  <2>1. cards' \in Seq(Responses)
    BY <1>1, <1>3
  <2>2. at' \in [Callers -> Places]
    BY <1>0 DEF Places
  <2>3. carded' \in BOOLEAN /\ retryClosed' \in BOOLEAN
    BY <1>0, <1>1 DEF StartTypeOK
  <2> QED
    BY <1>0, <1>1, <1>3, <2>1, <2>2, <2>3 DEF StartTypeOK, States
<1>5. Exclusive' /\ CallersAsk' /\ HoldersFit'
  BY <1>0, <1>1 DEF IInv, Exclusive, CallersAsk, HoldersFit, AtWork, Holding, Working,
                    Registered
<1>6. ClaimShape' /\ RecordsFit'
  BY <1>0, <1>1 DEF IInv, ClaimShape, RecordsFit, Owner, Registered
<1>7. OneTrace'
  BY <1>0, <1>1, <1>3 DEF OneTrace, Registered
<1>8. WindowHolds'
  <2>1. acceptedAt'[responseID] \in Nat
    BY <1>1, <1>3
  <2> QED
    BY <1>0, <1>1, <1>2, <1>3, <2>1 DEF WindowHolds
<1> QED
  BY <1>4, <1>5, <1>6, <1>7, <1>8 DEF IInv

(* The first attempt in doubt starts the window before anything of it can  *)
(* have been accepted; a later one ends within it.                         *)
LEMMA SendInDoubtIInv ==
    ASSUME IInv, NEW c \in Callers, SendInDoubt(c)
    PROVE  IInv'
<1> DEFINE late == [response |-> responseID, by |-> deadline]
<1>0. /\ at[c] = "sending" /\ at[c] \in Working /\ Return(c)
      /\ state' = "retryable" /\ ambiguousAt' = FirstDoubt
      /\ UNCHANGED <<now, claim, responseID, minted, carded, retryClosed, expiresAt,
                     owners, answers, cots>>
      /\ \/ Accept(responseID) /\ inTransit' = inTransit
         \/ UNCHANGED <<cards, acceptedAt, inTransit>>
         \/ UNCHANGED <<cards, acceptedAt>> /\ inTransit' = inTransit \cup {late}
  BY DEF SendInDoubt, Working, feishuSide, Interrupted
<1>1. /\ AtWork(c) /\ responseID \in Responses /\ claim # NoRequest
      /\ answers = {} /\ owners = {}
      /\ ~Registered /\ now \in Nat /\ now >= 1 /\ deadline \in Nat
      /\ sendStartedAt \in Nat /\ ambiguousAt \in Nat
      /\ StartTypeOK /\ OneTrace /\ WindowHolds /\ ClaimShape
  BY <1>0, WorkerHolds DEF IInv, StartTypeOK
<1>2. /\ \A d \in Callers : at'[d] \notin Holding
      /\ at' \in [Callers -> Places]
      /\ asks' \in [Callers -> StartRequests \cup {NoRequest}]
      /\ deadline' \in 0 .. MaxTime + SendTimeout
      /\ sendStartedAt' \in 0 .. MaxTime
      /\ Exclusive' /\ CallersAsk' /\ HoldersFit'
  BY <1>0, Returned DEF Holding, Working
<1>3. /\ ambiguousAt' \in 0 .. MaxTime /\ ambiguousAt' # 0 /\ ambiguousAt' <= now
      /\ ambiguousAt # 0 => ambiguousAt' = ambiguousAt
      /\ deadline <= ambiguousAt' + SendTimeout \/ deadline < ambiguousAt' + Window
      /\ ambiguousAt # 0 => deadline < ambiguousAt' + Window
      /\ ambiguousAt = 0 => cards = <<>> /\ inTransit = {}
  BY <1>0, <1>1 DEF FirstDoubt, AtWork, StartTypeOK, OneTrace, WindowHolds
<1>4. /\ cards' \in Seq(Responses) /\ acceptedAt' \in [Responses -> 0 .. MaxTime]
      /\ cards' = <<>> \/ cards' = <<responseID>>
      /\ \A id \in Responses :
            /\ acceptedAt'[id] # 0 <=> cards' # <<>> /\ id = responseID
            /\ acceptedAt'[id] <= now
  <2>1. CASE Accept(responseID)
    <3>1. cards # <<>> => now < acceptedAt[responseID] + Window
      BY <1>0, <2>1, SendInTime
    <3>2. /\ cards' = <<responseID>> /\ cards' # <<>>
          /\ acceptedAt' \in [Responses -> 0 .. MaxTime]
          /\ \A id \in Responses :
                (acceptedAt'[id] # 0 <=> id = responseID) /\ acceptedAt'[id] <= now
      BY <1>1, <2>1, <3>1, AcceptOnce
    <3>3. cards' \in Seq(Responses)
      BY <1>1, <3>2
    <3> QED
      BY <3>2, <3>3
  <2>2. CASE UNCHANGED <<cards, acceptedAt>>
    BY <1>1, <2>2 DEF StartTypeOK, OneTrace
  <2> QED
    BY <1>0, <2>1, <2>2
<1>5. /\ late \in [response : Responses, by : 1 .. MaxTime + SendTimeout]
      /\ late.response = responseID /\ late.by = deadline /\ now <= deadline
  BY <1>1 DEF AtWork, StartTypeOK
<1>6. StartTypeOK'
  <2>1. inTransit' \subseteq [response : Responses, by : 1 .. MaxTime + SendTimeout]
    <3>1. inTransit \subseteq [response : Responses, by : 1 .. MaxTime + SendTimeout]
      BY <1>1 DEF StartTypeOK
    <3> HIDE DEF late
    <3> QED
      BY <1>0, <1>5, <3>1
  <2>2. carded' \in BOOLEAN /\ retryClosed' \in BOOLEAN
    BY <1>0, <1>1 DEF StartTypeOK
  <2> QED
    BY <1>0, <1>1, <1>2, <1>3, <1>4, <2>1, <2>2 DEF StartTypeOK, States
<1>7. ClaimShape' /\ RecordsFit'
  <2>1. carded
    BY <1>0, <1>1 DEF AtWork
  <2> QED
    BY <1>0, <1>1, <1>3, <2>1 DEF ClaimShape, RecordsFit, Owner, Registered
<1>8. OneTrace'
  <2>1. \A send \in inTransit' : send.response = responseID /\ now <= send.by
    <3> HIDE DEF late
    <3> QED
      BY <1>0, <1>1, <1>5 DEF OneTrace
  <2> QED
    BY <1>0, <1>3, <1>4, <2>1 DEF OneTrace, Registered
<1>9. WindowHolds'
  <2>1. cards' # <<>> => ambiguousAt' <= acceptedAt'[responseID]
        /\ \A send \in inTransit' : send.by < acceptedAt'[responseID] + Window
    <3>1. CASE Accept(responseID) /\ inTransit' = inTransit
      <4>1. /\ cards # <<>> => now < acceptedAt[responseID] + Window
            /\ ambiguousAt <= acceptedAt'[responseID]
            /\ \A send \in inTransit : send.by < acceptedAt'[responseID] + Window
        BY <1>0, <3>1, SendInTime
      <4>2. cards = <<>> => acceptedAt'[responseID] = now
        BY <1>1, <3>1, <4>1, AcceptOnce
      <4> QED
        BY <1>1, <1>3, <3>1, <4>1, <4>2
    <3>2. CASE UNCHANGED <<cards, acceptedAt>>
      <4> SUFFICES ASSUME cards # <<>>
                   PROVE  /\ ambiguousAt' <= acceptedAt[responseID]
                          /\ \A send \in inTransit' :
                                send.by < acceptedAt[responseID] + Window
        BY <3>2
      <4>1. ambiguousAt' = ambiguousAt /\ deadline < ambiguousAt + Window
        BY <1>3
      <4>2. /\ ambiguousAt <= acceptedAt[responseID] /\ acceptedAt[responseID] \in Nat
            /\ \A send \in inTransit : send.by < acceptedAt[responseID] + Window
        BY <1>1 DEF WindowHolds, StartTypeOK
      <4>3. deadline < acceptedAt[responseID] + Window
        BY <1>1, <4>1, <4>2
      <4>4. inTransit' = inTransit \/ inTransit' = inTransit \cup {late}
        BY <1>0
      <4> HIDE DEF late
      <4> QED
        BY <1>5, <4>1, <4>2, <4>3, <4>4
    <3> QED
      BY <1>0, <3>1, <3>2
  <2>2. ASSUME cards' = <<>>, NEW send \in inTransit'
        PROVE  \/ Punctual(send)'
               \/ inTransit' = {send} /\ send.by <= ambiguousAt' + SendTimeout
    <3>1. cards = <<>> /\ (inTransit' = inTransit \/ inTransit' = inTransit \cup {late})
      <4>1. CASE Accept(responseID)
        BY <1>0, <1>1, <2>2, <4>1, AcceptOnce, SendInTime
      <4>2. CASE UNCHANGED <<cards, acceptedAt>>
        BY <1>0, <2>2, <4>2
      <4> QED
        BY <1>0, <4>1, <4>2
    <3>2. CASE ambiguousAt = 0
      <4>1. inTransit' = {late} /\ send = late
        BY <1>3, <2>2, <3>1, <3>2
      <4> HIDE DEF late
      <4> QED
        BY <1>3, <1>5, <4>1 DEF Punctual
    <3>3. CASE ambiguousAt # 0
      <4>1. \A earlier \in inTransit : Punctual(earlier)
        BY <1>0, <1>1, <3>1 DEF WindowHolds
      <4>2. ambiguousAt' = ambiguousAt /\ deadline < ambiguousAt + Window
        BY <1>3, <3>3
      <4> HIDE DEF late
      <4> QED
        BY <1>5, <2>2, <3>1, <4>1, <4>2 DEF Punctual
    <3> QED
      BY <3>2, <3>3
  <2> QED
    BY <1>0, <1>2, <1>3, <2>1, <2>2 DEF WindowHolds, Holding, Working
<1> QED
  BY <1>2, <1>6, <1>7, <1>8, <1>9 DEF IInv

(* What is under way arrives while Feishu remembers the UUID, or is the    *)
(* first it sees of it.                                                    *)
LEMMA ArriveIInv ==
    ASSUME IInv, NEW send \in inTransit, LateSend(send)
    PROVE  IInv'
<1>0. /\ inTransit' = inTransit \ {send}
      /\ Accept(send.response) \/ UNCHANGED <<cards, acceptedAt>>
      /\ UNCHANGED <<now, delivery, expiresAt, owners, at, asks, deadline, sendStartedAt,
                     answers, cots>>
  BY DEF LateSend
<1>1. /\ StartTypeOK /\ OneTrace /\ WindowHolds
      /\ now \in Nat /\ now >= 1 /\ ambiguousAt \in Nat /\ ambiguousAt <= now
  <2>1. StartTypeOK /\ OneTrace /\ WindowHolds
    BY DEF IInv
  <2>2. now \in Nat /\ now >= 1 /\ ambiguousAt \in Nat
    BY DEF IInv, StartTypeOK
  <2>3. ambiguousAt <= now
    BY DEF IInv, WindowHolds
  <2> QED
    BY <2>1, <2>2, <2>3
<1>2. \A other \in inTransit : other.by \in Nat /\ other.response \in Responses
  <2>1. inTransit \subseteq [response : Responses, by : 1 .. MaxTime + SendTimeout]
    BY <1>1 DEF StartTypeOK
  <2>2. \A other \in [response : Responses, by : 1 .. MaxTime + SendTimeout] :
          other.by \in Nat /\ other.response \in Responses
    OBVIOUS
  <2> QED
    BY <2>1, <2>2
<1>3. send.response = responseID /\ responseID \in Responses /\ now <= send.by
  BY <1>1, <1>2 DEF OneTrace
<1>4. cards # <<>> => now < acceptedAt[responseID] + Window
  BY <1>1, <1>2, <1>3 DEF WindowHolds, StartTypeOK
<1>5. cards = <<>> => \A other \in inTransit' : other.by < ambiguousAt + Window
  BY <1>0, <1>1 DEF WindowHolds, Punctual
<1>6. /\ cards' \in Seq(Responses) /\ acceptedAt' \in [Responses -> 0 .. MaxTime]
      /\ cards' = <<>> \/ cards' = <<responseID>>
      /\ cards # <<>> => cards' # <<>>
      /\ \A id \in Responses :
            /\ acceptedAt'[id] # 0 <=> cards' # <<>> /\ id = responseID
            /\ acceptedAt'[id] <= now
      /\ cards' # <<>> =>
            /\ ambiguousAt <= acceptedAt'[responseID]
            /\ \A other \in inTransit' : other.by < acceptedAt'[responseID] + Window
  <2>1. CASE Accept(send.response)
    <3>1. /\ cards' = <<responseID>> /\ cards' # <<>>
          /\ acceptedAt' \in [Responses -> 0 .. MaxTime]
          /\ \A id \in Responses :
                (acceptedAt'[id] # 0 <=> id = responseID) /\ acceptedAt'[id] <= now
          /\ cards # <<>> => cards' = cards /\ acceptedAt' = acceptedAt
          /\ cards = <<>> => acceptedAt'[responseID] = now
      BY <1>1, <1>3, <1>4, <2>1, AcceptOnce
    <3>2. cards' \in Seq(Responses)
      BY <1>3, <3>1
    <3>3. /\ ambiguousAt <= acceptedAt'[responseID]
          /\ \A other \in inTransit' : other.by < acceptedAt'[responseID] + Window
      <4>1. CASE cards = <<>>
        BY <1>0, <1>1, <1>2, <1>5, <3>1, <4>1
      <4>2. CASE cards # <<>>
        BY <1>0, <1>1, <3>1, <4>2 DEF WindowHolds
      <4> QED
        BY <4>1, <4>2
    <3> QED
      BY <3>1, <3>2, <3>3
  <2>2. CASE UNCHANGED <<cards, acceptedAt>>
    <3>1. /\ cards' \in Seq(Responses) /\ acceptedAt' \in [Responses -> 0 .. MaxTime]
      BY <1>1, <2>2 DEF StartTypeOK
    <3>2. cards' # <<>> =>
            /\ ambiguousAt <= acceptedAt'[responseID]
            /\ \A other \in inTransit' : other.by < acceptedAt'[responseID] + Window
      BY <1>0, <1>1, <2>2 DEF WindowHolds
    <3> QED
      BY <1>1, <2>2, <3>1, <3>2 DEF OneTrace
  <2> QED
    BY <1>0, <2>1, <2>2
<1>7. StartTypeOK'
  <2>1. inTransit' \subseteq [response : Responses, by : 1 .. MaxTime + SendTimeout]
    BY <1>0, <1>1 DEF StartTypeOK
  <2>2. carded' \in BOOLEAN /\ retryClosed' \in BOOLEAN
    BY <1>0, <1>1 DEF StartTypeOK, delivery
  <2> QED
    BY <1>0, <1>1, <1>6, <2>1, <2>2 DEF StartTypeOK, delivery
<1>8. Exclusive' /\ CallersAsk' /\ ClaimShape' /\ RecordsFit' /\ HoldersFit'
  BY <1>0 DEF IInv, Exclusive, CallersAsk, ClaimShape, HoldersFit, AtWork, Holding,
              Working, Registered, RecordsFit, Owner, delivery
<1>9. OneTrace'
  <2>1. ambiguousAt # 0 \/ Registered
    BY <1>1 DEF OneTrace
  <2> QED
    BY <1>0, <1>1, <1>6, <2>1 DEF OneTrace, Registered, delivery
<1>10. WindowHolds'
  BY <1>0, <1>1, <1>5, <1>6 DEF WindowHolds, Punctual, delivery
<1> QED
  BY <1>7, <1>8, <1>9, <1>10 DEF IInv

LEMMA AnswerIInv ==
    ASSUME IInv, NEW c \in Callers, Answer(c) \/ PersistFails(c)
    PROVE  IInv'
<1>0. /\ at[c] = "answering" /\ at[c] \in Holding /\ Return(c)
      /\ UNCHANGED <<now, claim, responseID, minted, state, carded, ambiguousAt,
                     retryClosed, expiresAt, cards, cots, acceptedAt, inTransit>>
      /\ \/ owners' = owners \cup {Owner}
         \/ UNCHANGED <<owners, answers>>
      /\ \/ answers' = answers \cup {[request |-> asks[c], response |-> responseID]}
         \/ UNCHANGED answers
  BY DEF Answer, PersistFails, Persisted, Holding, delivery, feishuSide
<1>1. /\ Registered /\ asks[c] = claim
      /\ claim \in StartRequests /\ responseID \in Responses
  BY <1>0 DEF IInv, HoldersFit, CallersAsk, ClaimShape, Registered, StartTypeOK
<1>2. /\ \A d \in Callers : at'[d] \notin Holding
      /\ at' \in [Callers -> Places]
      /\ asks' \in [Callers -> StartRequests \cup {NoRequest}]
      /\ deadline' \in 0 .. MaxTime + SendTimeout
      /\ sendStartedAt' \in 0 .. MaxTime
      /\ Exclusive' /\ CallersAsk' /\ HoldersFit'
  BY <1>0, Returned
<1>3. /\ answers' \subseteq [request : StartRequests, response : Responses]
      /\ owners' \subseteq [provider : Providers, response : Responses]
      /\ answers' # {} => owners' # {}
      /\ \A owner \in owners' : owner = Owner
      /\ \A answer \in answers' : answer = [request |-> claim, response |-> responseID]
  <2>1. Owner \in [provider : Providers, response : Responses]
    BY <1>1 DEF Owner, Providers
  <2>2. /\ owners' \subseteq [provider : Providers, response : Responses]
        /\ answers' # {} => owners' # {}
        /\ \A owner \in owners' : owner = Owner
    BY <1>0, <2>1 DEF IInv, StartTypeOK, RecordsFit, Owner
  <2>3. /\ answers' \subseteq [request : StartRequests, response : Responses]
        /\ \A answer \in answers' : answer = [request |-> claim, response |-> responseID]
    BY <1>0, <1>1 DEF IInv, StartTypeOK, RecordsFit, Owner
  <2> QED
    BY <2>2, <2>3
<1>4. StartTypeOK'
  <2>1. carded' \in BOOLEAN /\ retryClosed' \in BOOLEAN
    BY <1>0 DEF IInv, StartTypeOK
  <2> QED
    BY <1>0, <1>2, <1>3, <2>1 DEF IInv, StartTypeOK
<1>5. ClaimShape' /\ OneTrace'
  BY <1>0 DEF IInv, ClaimShape, OneTrace, Registered
<1>6. WindowHolds'
  BY <1>0, <1>2 DEF IInv, WindowHolds, Punctual, Working, Holding
<1>7. RecordsFit'
  BY <1>0, <1>1, <1>3 DEF RecordsFit, Owner, Registered
<1> QED
  BY <1>2, <1>4, <1>5, <1>6, <1>7 DEF IInv

LEMMA TickIInv ==
    ASSUME IInv, Tick
    PROVE  IInv'
<1>0. /\ now' = now + 1 /\ now \in Nat /\ now' \in 1 .. MaxTime
      /\ UNCHANGED <<delivery, expiresAt, owners, at, asks, deadline, sendStartedAt,
                     answers, cards, cots, acceptedAt, inTransit>>
  BY DEF Tick, IInv, StartTypeOK, feishuSide
<1>1. StartTypeOK'
  BY <1>0 DEF IInv, StartTypeOK, delivery
<1>2. \A c \in Callers : at[c] \in Working => now < deadline
  BY DEF Tick, Locked, Working, Holding
<1>3. HoldersFit'
  <2> SUFFICES ASSUME NEW c \in Callers
               PROVE  /\ at[c] \in Working => AtWork(c)'
                      /\ at[c] = "answering" => Registered' /\ asks'[c] = claim'
    BY <1>0 DEF HoldersFit, Working
  <2>1. at[c] \in Working => AtWork(c) /\ deadline \in Nat /\ sendStartedAt \in Nat
    BY DEF IInv, HoldersFit, StartTypeOK
  <2>2. at[c] \in Working => AtWork(c)'
    BY <1>0, <1>2, <2>1 DEF AtWork, delivery
  <2> QED
    BY <1>0, <2>2 DEF IInv, HoldersFit, Registered, delivery
<1>4. Exclusive' /\ CallersAsk' /\ ClaimShape' /\ RecordsFit'
  BY <1>0 DEF IInv, Exclusive, CallersAsk, ClaimShape, RecordsFit, Owner, Registered, delivery
<1>5. OneTrace'
  <2>1. \A send \in inTransit : send.by \in Nat /\ now < send.by
    <3>1. inTransit \subseteq [response : Responses, by : 1 .. MaxTime + SendTimeout]
      BY DEF IInv, StartTypeOK
    <3>2. \A send \in [response : Responses, by : 1 .. MaxTime + SendTimeout] :
             send.by \in Nat
      OBVIOUS
    <3> QED
      BY <3>1, <3>2 DEF Tick
  <2>2. \A id \in Responses : acceptedAt[id] \in Nat
    BY DEF IInv, StartTypeOK
  <2> QED
    BY <1>0, <2>1, <2>2 DEF IInv, OneTrace, Registered, delivery
<1>6. WindowHolds'
  <2>1. ambiguousAt \in Nat
    BY DEF IInv, StartTypeOK
  <2> QED
    BY <1>0, <2>1 DEF IInv, WindowHolds, Punctual, delivery
<1> QED
  BY <1>1, <1>3, <1>4, <1>5, <1>6 DEF IInv

LEMMA NextIInv == IInv /\ [StartNext]_startVars => IInv'
<1> SUFFICES ASSUME IInv, [StartNext]_startVars PROVE IInv'
  OBVIOUS
<1>1. CASE UNCHANGED startVars
  BY <1>1 DEF startVars, delivery, feishuSide, IInv, StartTypeOK, Exclusive, CallersAsk, ClaimShape,
              HoldersFit, AtWork, OneTrace, WindowHolds, Punctual, RecordsFit, Owner,
              Registered
<1> QED
  BY <1>1, LookupIInv, RefuseIInv, RepeatIInv, ClaimIInv, FailuresIInv, StartSendingIInv,
     SendSucceedsIInv, SendInDoubtIInv, ArriveIInv, AnswerIInv, TickIInv
     DEF StartNext, Acquire, Holder

LEMMA Invariance == StartSpec => []IInv
BY InitIInv, NextIInv, PTL DEF StartSpec

-----------------------------------------------------------------------------
(* Every variable has its type, for all constants.                         *)
THEOREM TypeCorrect == StartSpec => []StartTypeOK
<1>1. IInv => StartTypeOK
  BY DEF IInv
<1> QED
  BY <1>1, Invariance, PTL

(* No abort, refusal or retry leaves a card in the chat, or one that may   *)
(* still appear, without its claim (abortStartAttempt and the branch of    *)
(* StartAgentResponse that closes instead).                                *)
THEOREM ClaimCovers == StartSpec => []ClaimCoversSends
<1>1. IInv => ClaimCoversSends
  BY DEF IInv, OneTrace, ClaimCoversSends
<1> QED
  BY <1>1, Invariance, PTL

(* What is on disk, what providers were told and what the chat shows are   *)
(* one, whoever wrote the owner and however often the write failed         *)
(* (persistAgentOwner, which a repeated Start calls again).                *)
THEOREM OwnersAreAnswered == StartSpec => []OwnersMatch
<1>1. IInv => OwnersMatch
  BY DEF IInv, RecordsFit, OneTrace, OwnersMatch, Owner
<1> QED
  BY <1>1, Invariance, PTL

(* Once closed, a claim stays, and nobody gets past the mutex with it.     *)
LEMMA ClosedStays ==
    ASSUME IInv, [StartNext]_startVars, retryClosed
    PROVE  retryClosed' /\ claim' = claim /\ ~Locked'
<1>1. /\ state = "retryable" /\ ~Registered /\ ~InProgress /\ ~MayRetry
      /\ claim # NoRequest
  BY DEF IInv, ClaimShape, Registered, InProgress, MayRetry
<1>2. \A c \in Callers : at[c] \notin Holding
  BY <1>1 DEF IInv, HoldersFit, AtWork, Holding, Working, Registered
<1>3. CASE \E c \in Callers, req \in StartRequests : Lookup(c, req)
  BY <1>2, <1>3 DEF Lookup, delivery, Locked, Holding, IInv, StartTypeOK
<1>4. CASE \E c \in Callers : Acquire(c)
  <2>1. PICK c \in Callers : Refuse(c)
    BY <1>1, <1>4 DEF Acquire, Repeat, Claim
  <2>2. retryClosed' /\ claim' = claim
    BY <2>1 DEF Refuse
  <2>3. ~Locked'
    BY <2>1, Returned DEF Refuse, Locked
  <2> QED
    BY <2>2, <2>3
<1>5. CASE \E c \in Callers : Holder(c)
  BY <1>2, <1>5 DEF Holder, Holding, CreateFails, StartSending, SendSucceeds,
                    SendRejected, SendDeferred, SendInDoubt, Answer, PersistFails
<1>6. CASE (\E send \in inTransit : LateSend(send)) \/ Tick \/ UNCHANGED startVars
  BY <1>2, <1>6 DEF LateSend, Tick, startVars, delivery, Locked
<1> QED
  BY <1>3, <1>4, <1>5, <1>6 DEF StartNext

(* A Start closed as unknown is the operator's: no retry, refusal or other *)
(* provider reopens it or sends for it again (sendRetryClosed).            *)
THEOREM ClosedIsForGood == StartSpec => ClosedIsFinal
<1>1. IInv /\ [StartNext]_startVars => [retryClosed => retryClosed' /\ claim' = claim /\ ~Locked']_startVars
  BY ClosedStays
<1> QED
  BY <1>1, Invariance, PTL DEF StartSpec, ClosedIsFinal

-----------------------------------------------------------------------------
(* A step at which Feishu may take the claimed response shows the first    *)
(* card, or nothing new.                                                   *)
LEMMA FirstCardAppears ==
    ASSUME IInv, IInv', responseID' = responseID, UNCHANGED answers,
           cards' = cards \/ cards' = Append(cards, responseID)
    PROVE  Promise!Next \/ UNCHANGED Promise!vars
<1>1. CASE cards' = cards
  BY <1>1 DEF Promise!vars
<1>2. CASE cards = <<>> /\ cards' = Append(cards, responseID)
  <2>1. cards' = <<responseID>> /\ cards' # <<>>
    BY <1>2
  <2>2. responseID \in Responses
    BY <2>1 DEF IInv, StartTypeOK, OneTrace, ClaimShape, Registered
  <2>3. Promise!Appear(responseID)
    BY <1>2, <2>1 DEF Promise!Appear
  <2> QED
    BY <2>2, <2>3 DEF Promise!Next
<1>3. CASE cards # <<>> /\ cards' = Append(cards, responseID)
  <2>1. cards = <<responseID>>
    BY <1>3 DEF IInv, OneTrace
  <2>2. Len(cards') = 2
    BY <1>3, <2>1
  <2>3. cards' = <<>> \/ cards' = <<responseID'>>
    BY DEF IInv, OneTrace
  <2>4. Len(cards') = 0 \/ Len(cards') = 1
    BY <2>3
  <2> QED
    BY <2>2, <2>4
<1> QED
  BY <1>1, <1>2, <1>3

LEMMA AnswerPromised ==
    ASSUME IInv, NEW c \in Callers, Answer(c)
    PROVE  Promise!Next
<1>1. /\ Registered /\ asks[c] = claim /\ asks[c] \in StartRequests
  BY DEF IInv, HoldersFit, CallersAsk, Answer
<1>2. cards # <<>> /\ cards = <<responseID>>
  BY <1>1 DEF IInv, OneTrace
<1>3. Head(cards) = responseID
  BY <1>2
<1>4. \A earlier \in answers : earlier.request = asks[c]
  BY <1>1 DEF IInv, RecordsFit, Owner
<1>5. Promise!Answer(asks[c])
  BY <1>2, <1>3, <1>4 DEF Answer, Promise!Answer, feishuSide
<1> QED
  BY <1>1, <1>5 DEF Promise!Next

LEMMA NextPromised ==
    ASSUME IInv, IInv', [StartNext]_startVars
    PROVE  Promise!Next \/ UNCHANGED Promise!vars
<1>1. CASE \E c \in Callers : SendSucceeds(c) \/ SendInDoubt(c)
  BY <1>1, FirstCardAppears DEF SendSucceeds, SendInDoubt, Accept, feishuSide
<1>2. CASE \E send \in inTransit : LateSend(send)
  <2>1. \A send \in inTransit : send.response = responseID
    BY DEF IInv, OneTrace
  <2> QED
    BY <1>2, <2>1, FirstCardAppears DEF LateSend, Accept, delivery
<1>3. CASE \E c \in Callers : Answer(c)
  BY <1>3, AnswerPromised
<1>4. CASE \E c \in Callers : (\E req \in StartRequests : Lookup(c, req)) \/ Acquire(c)
  BY <1>4 DEF Lookup, Acquire, Refuse, Repeat, Claim, feishuSide, Promise!vars
<1>5. CASE \E c \in Callers : \/ CreateFails(c) \/ StartSending(c) \/ SendRejected(c)
                              \/ SendDeferred(c) \/ PersistFails(c)
  BY <1>5 DEF CreateFails, StartSending, SendRejected, SendDeferred, PersistFails,
              feishuSide, Promise!vars
<1>6. CASE Tick \/ UNCHANGED startVars
  BY <1>6 DEF Tick, startVars, feishuSide, Promise!vars
<1> QED
  BY <1>1, <1>2, <1>3, <1>4, <1>5, <1>6 DEF StartNext, Holder

(* However many callers, retries, failures and late requests: one card     *)
(* ever appears for a delivery, and every success tells one and the same   *)
(* request of it.                                                          *)
THEOREM StartImplementsSingleAnswer == StartSpec => ImplementsSingleAnswer
<1>1. StartInit => Promise!Init
  BY DEF StartInit, Promise!Init
<1>2. IInv /\ IInv' /\ [StartNext]_startVars => [Promise!Next]_Promise!vars
  BY NextPromised
<1> QED
  BY <1>1, <1>2, Invariance, PTL DEF StartSpec, ImplementsSingleAnswer, Promise!Spec

-----------------------------------------------------------------------------
(***************************************************************************)
(* How long a delivery is kept.  The pin is dated from the lookup, the     *)
(* window of a retry from the attempt, and in between a caller waits for   *)
(* delivery.mu: for its holder, and for whoever gets it first.  So the     *)
(* invariant follows the queue.  If everybody in it took a whole timeout   *)
(* from the time the mutex is free, the last would still begin its attempt *)
(* within a timeout for each Start of the time the pin allows for.         *)
(***************************************************************************)
Queue == {c \in Callers : at[c] = "waiting"}

(* How long some callers hold the mutex, one after the other, at most.     *)
Turns(S) == Cardinality(S) * SendTimeout

LockIsBounded == Locked => now <= deadline /\ deadline <= now + SendTimeout

(* Until the mutex is free, at the latest: then its next holder claims.    *)
FreeBy == IF Locked THEN deadline ELSE now

PinnedFor(t) == t + Window + SendTimeout <= expiresAt + Turns(Callers)

RetainInv ==
    /\ LockIsBounded
    /\ Locked \/ Queue # {} => PinnedFor(FreeBy + Turns(Queue))
    /\ ambiguousAt # 0 => PinnedFor(ambiguousAt)

LEMMA RetainTypes ==
    ASSUME IInv
    PROVE  /\ now \in Nat /\ deadline \in Nat /\ expiresAt \in Nat /\ ambiguousAt \in Nat
           /\ sendStartedAt \in Nat /\ SendTimeout \in Nat /\ Window \in Nat
           /\ at \in [Callers -> Places] /\ FreeBy \in Nat
BY DEF IInv, StartTypeOK, FreeBy

LEMMA MoreTurns ==
    ASSUME NEW i \in Nat, NEW j \in Nat, i <= j
    PROVE  i * SendTimeout \in Nat /\ i * SendTimeout <= j * SendTimeout
<1>1. PICK k \in Nat : j = i + k
  <2>1. j - i \in Nat /\ j = i + (j - i)
    OBVIOUS
  <2> QED
    BY <2>1
<1>2. i * SendTimeout \in Nat /\ k * SendTimeout \in Nat
  OBVIOUS
<1>3. j * SendTimeout = i * SendTimeout + k * SendTimeout
  BY <1>1
<1> QED
  BY <1>2, <1>3

(* Fewer callers hold the mutex no longer.                                 *)
LEMMA FewerTurns ==
    ASSUME NEW S \in SUBSET Callers, NEW T \in SUBSET Callers, S \subseteq T
    PROVE  Turns(S) \in Nat /\ Turns(T) \in Nat /\ Turns(S) <= Turns(T)
<1>1. IsFiniteSet(S) /\ IsFiniteSet(T)
  BY FS_Subset, StartAssumption
<1>2. Cardinality(S) \in Nat /\ Cardinality(T) \in Nat /\ Cardinality(S) <= Cardinality(T)
  BY <1>1, FS_CardinalityType, FS_Subset
<1> QED
  BY <1>2, MoreTurns DEF Turns

(* One caller less holds it for one timeout less.                          *)
LEMMA OneTurnLess ==
    ASSUME NEW T \in SUBSET Callers, NEW c \in T
    PROVE  Turns(T \ {c}) + SendTimeout = Turns(T)
<1>1. IsFiniteSet(T)
  BY FS_Subset, StartAssumption
<1>2. /\ Cardinality(T) \in Nat /\ Cardinality(T \ {c}) \in Nat
      /\ Cardinality(T) = Cardinality(T \ {c}) + 1
  <2>1. Cardinality(T \ {c}) = Cardinality(T) - 1 /\ IsFiniteSet(T \ {c})
    BY <1>1, FS_RemoveElement
  <2> QED
    BY <2>1, <1>1, FS_CardinalityType
<1>3. ASSUME NEW i \in Nat PROVE i * SendTimeout + SendTimeout = (i + 1) * SendTimeout
  OBVIOUS
<1> QED
  BY <1>2, <1>3 DEF Turns

(* A caller that comes pins the delivery for a window and a timeout, and   *)
(* no more than all the others are before it.                              *)
LEMMA LookupRetains ==
    ASSUME IInv, RetainInv, NEW c \in Callers, NEW req \in StartRequests, Lookup(c, req)
    PROVE  RetainInv'
<1>1. /\ at' = [at EXCEPT ![c] = "waiting"] /\ at[c] = "idle"
      /\ UNCHANGED <<now, deadline, ambiguousAt>>
      /\ expiresAt' \in Nat /\ expiresAt <= expiresAt'
      /\ now + Window + SendTimeout <= expiresAt'
  BY RetainTypes DEF Lookup, Pin, Later, delivery
<1>2. (\A d \in Callers : at'[d] \in Holding <=> at[d] \in Holding) /\ (Locked' <=> Locked)
  BY <1>1, RetainTypes DEF Locked, Holding
<1>3. LockIsBounded'
  BY <1>1, <1>2 DEF RetainInv, LockIsBounded
<1>4. FreeBy' = FreeBy
  BY <1>1, <1>2 DEF FreeBy
<1>5. Queue' \subseteq Callers
  BY DEF Queue
<1>6. Turns(Callers) \in Nat
  BY FewerTurns
<1>7. FreeBy' + Turns(Queue') + Window + SendTimeout <= expiresAt' + Turns(Callers)
  <2>1. CASE Locked
    <3>1. PICK d \in Callers : at'[d] \in Holding
      BY <2>1, <1>2 DEF Locked
    <3>2. Queue' \subseteq Callers \ {d}
      BY <3>1 DEF Queue, Holding
    <3>3. Turns(Queue') <= Turns(Callers \ {d}) /\ Turns(Queue') \in Nat
          /\ Turns(Callers \ {d}) \in Nat
      BY <3>2, <1>5, FewerTurns
    <3>4. Turns(Callers \ {d}) + SendTimeout = Turns(Callers)
      BY OneTurnLess
    <3>5. FreeBy <= now + SendTimeout
      BY <2>1, RetainTypes DEF RetainInv, LockIsBounded, FreeBy
    <3> QED
      BY <3>3, <3>4, <3>5, <1>1, <1>4, <1>6, RetainTypes
  <2>2. CASE ~Locked
    <3>1. Turns(Queue') <= Turns(Callers) /\ Turns(Queue') \in Nat
      BY <1>5, FewerTurns
    <3>2. FreeBy = now
      BY <2>2 DEF FreeBy
    <3> QED
      BY <3>1, <3>2, <1>1, <1>4, <1>6, RetainTypes
  <2> QED
    BY <2>1, <2>2
<1>8. PinnedFor(FreeBy + Turns(Queue))'
  BY <1>7 DEF PinnedFor, Turns
<1>9. ambiguousAt' # 0 => PinnedFor(ambiguousAt)'
  BY <1>1, <1>6, RetainTypes DEF RetainInv, PinnedFor, Turns
<1> QED
  BY <1>3, <1>8, <1>9 DEF RetainInv

(* When the holder returns, time has not passed its deadline.              *)
LEMMA ReturnRetains ==
    ASSUME IInv, RetainInv, NEW c \in Callers, Return(c),
           at[c] \in Holding \/ Acquiring(c),
           UNCHANGED <<now, expiresAt>>,
           ambiguousAt' # 0 => PinnedFor(ambiguousAt')
    PROVE  RetainInv'
<1>1. at' = [at EXCEPT ![c] = "idle"]
  BY DEF Return
<1>2. ~Locked'
  BY Returned DEF Locked
<1>3. LockIsBounded'
  BY <1>2 DEF LockIsBounded
<1>4. Queue' \subseteq Queue /\ Queue \subseteq Callers
  BY <1>1, RetainTypes DEF Queue
<1>5. FreeBy' = now
  BY <1>2 DEF FreeBy
<1>6. now <= FreeBy
  BY RetainTypes DEF RetainInv, LockIsBounded, FreeBy
<1>7. ASSUME Queue' # {} PROVE PinnedFor(FreeBy + Turns(Queue))'
  <2>1. /\ Turns(Queue') \in Nat /\ Turns(Queue) \in Nat /\ Turns(Callers) \in Nat
        /\ Turns(Queue') <= Turns(Queue)
    BY <1>4, FewerTurns
  <2>2. FreeBy + Turns(Queue) + Window + SendTimeout <= expiresAt + Turns(Callers)
    BY <1>4, <1>7 DEF RetainInv, PinnedFor
  <2>3. FreeBy' + Turns(Queue') + Window + SendTimeout <= expiresAt' + Turns(Callers)
    BY <2>1, <2>2, <1>5, <1>6, RetainTypes
  <2> QED
    BY <2>3 DEF PinnedFor, Turns
<1>8. ambiguousAt' # 0 => PinnedFor(ambiguousAt)'
  BY DEF PinnedFor, Turns
<1> QED
  BY <1>2, <1>3, <1>7, <1>8 DEF RetainInv

(* Whoever takes the mutex leaves the queue for a turn of one timeout.     *)
LEMMA AcquireRetains ==
    ASSUME IInv, RetainInv, NEW c \in Callers, Acquiring(c),
           NEW place \in Holding, at' = [at EXCEPT ![c] = place],
           now <= deadline', deadline' \in Nat, deadline' <= now + SendTimeout,
           UNCHANGED <<now, expiresAt, ambiguousAt>>
    PROVE  RetainInv'
<1>1. c \in Queue /\ Queue \subseteq Callers /\ ~Locked
  BY DEF Acquiring, Queue
<1>2. Locked'
  BY RetainTypes DEF Locked
<1>3. LockIsBounded'
  BY DEF LockIsBounded
<1>4. Queue' = Queue \ {c}
  BY RetainTypes DEF Queue, Holding
<1>5. /\ Turns(Queue') + SendTimeout = Turns(Queue)
      /\ Turns(Queue') \in Nat /\ Turns(Queue) \in Nat /\ Turns(Callers) \in Nat
  BY <1>1, <1>4, OneTurnLess, FewerTurns
<1>6. now + Turns(Queue) + Window + SendTimeout <= expiresAt + Turns(Callers)
  BY <1>1 DEF RetainInv, PinnedFor, FreeBy
<1>7. deadline' + Turns(Queue') + Window + SendTimeout <= expiresAt' + Turns(Callers)
  BY <1>5, <1>6, RetainTypes
<1>8. PinnedFor(FreeBy + Turns(Queue))'
  BY <1>2, <1>7 DEF PinnedFor, FreeBy, Turns
<1>9. ambiguousAt' # 0 => PinnedFor(ambiguousAt)'
  BY DEF RetainInv, PinnedFor, Turns
<1> QED
  BY <1>3, <1>8, <1>9 DEF RetainInv

(* A step of the holder that keeps the mutex.                              *)
LEMMA HoldRetains ==
    ASSUME IInv, RetainInv, NEW c \in Callers, at[c] \in Working,
           NEW place \in Holding, at' = [at EXCEPT ![c] = place],
           UNCHANGED <<now, expiresAt, deadline>>,
           ambiguousAt' # 0 => ambiguousAt' = ambiguousAt
    PROVE  RetainInv'
<1>1. Locked /\ Locked'
  BY RetainTypes DEF Locked, Holding, Working
<1>2. FreeBy' = FreeBy
  BY <1>1 DEF FreeBy
<1>3. Queue' = Queue
  BY RetainTypes DEF Queue, Holding, Working
<1>4. PinnedFor(FreeBy + Turns(Queue))'
  BY <1>1, <1>2, <1>3 DEF RetainInv, PinnedFor, Turns
<1>5. LockIsBounded'
  BY <1>1 DEF RetainInv, LockIsBounded
<1>6. ambiguousAt' # 0 => PinnedFor(ambiguousAt)'
  BY DEF RetainInv, PinnedFor, Turns
<1> QED
  BY <1>4, <1>5, <1>6 DEF RetainInv

LEMMA HolderRetains ==
    ASSUME IInv, RetainInv, NEW c \in Callers, Holder(c)
    PROVE  RetainInv'
<1>1. CASE StartSending(c)
  <2>1. /\ at[c] \in Working /\ at' = [at EXCEPT ![c] = "sending"]
        /\ UNCHANGED <<now, expiresAt, deadline, ambiguousAt>> /\ "sending" \in Holding
    BY <1>1 DEF StartSending, Working, Holding
  <2> QED
    BY <2>1, HoldRetains
<1>2. CASE SendSucceeds(c)
  <2>1. /\ at[c] \in Working /\ at' = [at EXCEPT ![c] = "answering"]
        /\ UNCHANGED <<now, expiresAt, deadline>> /\ ambiguousAt' = 0
        /\ "answering" \in Holding
    BY <1>2 DEF SendSucceeds, Working, Holding
  <2> QED
    BY <2>1, HoldRetains
<1>3. CASE SendInDoubt(c)
  <2>1. /\ at[c] \in Working /\ at[c] = "sending" /\ Return(c)
        /\ ambiguousAt' = FirstDoubt /\ UNCHANGED <<now, expiresAt>>
    BY <1>3 DEF SendInDoubt, Working
  <2>2. Locked /\ FreeBy = deadline
    BY <2>1 DEF Locked, Holding, FreeBy
  <2>3. sendStartedAt <= deadline
    BY <2>1, WorkerHolds, RetainTypes DEF AtWork
  <2>4. Queue \subseteq Callers /\ Turns(Queue) \in Nat /\ Turns(Callers) \in Nat
    BY FewerTurns DEF Queue
  <2>5. PinnedFor(sendStartedAt)
    BY <2>2, <2>3, <2>4, RetainTypes DEF RetainInv, PinnedFor
  <2>6. ambiguousAt' # 0 => PinnedFor(ambiguousAt')
    BY <2>1, <2>5 DEF RetainInv, FirstDoubt
  <2> QED
    BY <2>1, <2>6, ReturnRetains DEF Holding
<1>4. CASE CreateFails(c) \/ SendRejected(c) \/ SendDeferred(c) \/ Answer(c) \/ PersistFails(c)
  <2>1. at[c] \in Holding /\ Return(c) /\ UNCHANGED <<now, expiresAt>>
    BY <1>4 DEF CreateFails, SendRejected, SendDeferred, Answer, PersistFails, Holding
  <2>2. ambiguousAt' = 0 \/ ambiguousAt' = ambiguousAt
    BY <1>4 DEF CreateFails, SendRejected, SendDeferred, Answer, PersistFails, EndAttempt,
                Abort, delivery
  <2>3. ambiguousAt' # 0 => PinnedFor(ambiguousAt')
    BY <2>2 DEF RetainInv
  <2> QED
    BY <2>1, <2>3, ReturnRetains
<1> QED
  BY <1>1, <1>2, <1>3, <1>4 DEF Holder

LEMMA NextRetains == IInv /\ RetainInv /\ [StartNext]_startVars => RetainInv'
<1> SUFFICES ASSUME IInv, RetainInv, [StartNext]_startVars PROVE RetainInv'
  OBVIOUS
<1>1. ASSUME NEW c \in Callers, Acquire(c) PROVE RetainInv'
  <2>1. CASE Refuse(c)
    <3>1. Acquiring(c) /\ Return(c) /\ UNCHANGED <<now, expiresAt, ambiguousAt>>
      BY <2>1 DEF Refuse
    <3>2. ambiguousAt' # 0 => PinnedFor(ambiguousAt')
      BY <3>1 DEF RetainInv
    <3> QED
      BY <3>1, <3>2, ReturnRetains
  <2>2. CASE Repeat(c)
    <3>1. /\ Acquiring(c) /\ at' = [at EXCEPT ![c] = "answering"] /\ deadline' = now
          /\ UNCHANGED <<now, expiresAt, ambiguousAt>> /\ "answering" \in Holding
      BY <2>2 DEF Repeat, delivery, Holding
    <3>2. now <= deadline' /\ deadline' \in Nat /\ deadline' <= now + SendTimeout
      BY <3>1, RetainTypes
    <3> QED
      BY <3>1, <3>2, AcquireRetains
  <2>3. CASE Claim(c)
    <3>1. /\ Acquiring(c) /\ at' = [at EXCEPT ![c] = "creating"]
          /\ deadline' = now + SendTimeout
          /\ UNCHANGED <<now, expiresAt, ambiguousAt>> /\ "creating" \in Holding
      BY <2>3 DEF Claim, Holding
    <3>2. now <= deadline' /\ deadline' \in Nat /\ deadline' <= now + SendTimeout
      BY <3>1, RetainTypes
    <3> QED
      BY <3>1, <3>2, AcquireRetains
  <2> QED
    BY <1>1, <2>1, <2>2, <2>3 DEF Acquire
<1>2. CASE Tick
  <2>1. now' = now + 1 /\ UNCHANGED <<at, deadline, expiresAt, ambiguousAt>>
    BY <1>2 DEF Tick, delivery
  <2>2. IF Locked THEN now < deadline ELSE \A c \in Callers : at[c] = "idle"
    BY <1>2 DEF Tick
  <2>3. Locked' = Locked /\ Queue' = Queue
    BY <2>1 DEF Locked, Queue
  <2>4. ambiguousAt' # 0 => PinnedFor(ambiguousAt)'
    BY <2>1 DEF RetainInv, PinnedFor, Turns
  <2>5. CASE Locked
    <3>1. FreeBy' = FreeBy
      BY <2>1, <2>3, <2>5 DEF FreeBy
    <3>2. PinnedFor(FreeBy + Turns(Queue))'
      BY <3>1, <2>1, <2>3, <2>5 DEF RetainInv, PinnedFor, Turns
    <3>3. LockIsBounded'
      BY <2>1, <2>2, <2>3, <2>5, RetainTypes DEF RetainInv, LockIsBounded
    <3> QED
      BY <3>2, <3>3, <2>4 DEF RetainInv
  <2>6. CASE ~Locked
    <3>1. ~Locked' /\ Queue' = {}
      BY <2>2, <2>3, <2>6 DEF Queue
    <3> QED
      BY <3>1, <2>4 DEF RetainInv, LockIsBounded
  <2> QED
    BY <2>5, <2>6
<1>3. CASE (\E send \in inTransit : LateSend(send)) \/ UNCHANGED startVars
  <2>1. UNCHANGED <<now, at, deadline, expiresAt, ambiguousAt>>
    BY <1>3 DEF LateSend, startVars, delivery
  <2>2. Locked' = Locked /\ Queue' = Queue
    BY <2>1 DEF Locked, Queue
  <2> QED
    BY <2>1, <2>2 DEF RetainInv, LockIsBounded, FreeBy, PinnedFor, Turns
<1> QED
  BY <1>1, <1>2, <1>3, LookupRetains, HolderRetains DEF StartNext

(* However many Starts of a delivery wait for one another, it expires      *)
(* before the retry of an attempt in doubt is refused by no more than one  *)
(* timeout for each Start beyond two; two of them -- a provider and its    *)
(* retry, or two providers -- never lose the claim                         *)
(* (lookupAndPinAgentDelivery dates the pin before the wait).              *)
THEOREM ClaimOutlastsQueue == StartSpec => []PrunedNoEarlier
<1>1. StartInit => RetainInv
  <2> SUFFICES ASSUME StartInit PROVE RetainInv
    OBVIOUS
  <2>1. ~Locked /\ Queue = {} /\ ambiguousAt = 0
    BY DEF StartInit, Locked, Holding, Queue
  <2> QED
    BY <2>1 DEF RetainInv, LockIsBounded
<1>2. IInv /\ RetainInv => PrunedNoEarlier
  <2> SUFFICES ASSUME IInv, RetainInv, ambiguousAt # 0, MayRetry
               PROVE  now < expiresAt + (Cardinality(Callers) - 2) * SendTimeout
    BY DEF PrunedNoEarlier
  <2>1. now + SendTimeout < ambiguousAt + Window
    BY RetainTypes DEF MayRetry, Exhausted
  <2>2. ambiguousAt + Window + SendTimeout <= expiresAt + Turns(Callers)
    BY DEF RetainInv, PinnedFor
  <2>3. Turns(Callers) \in Nat
    BY FewerTurns
  <2>4. now + SendTimeout + SendTimeout < expiresAt + Turns(Callers)
    BY <2>1, <2>2, <2>3, RetainTypes
  <2>5. Cardinality(Callers) \in Nat
    BY FS_CardinalityType, StartAssumption
  <2>6. ASSUME NEW n \in Nat
        PROVE  (n - 2) * SendTimeout = n * SendTimeout - SendTimeout - SendTimeout
    OBVIOUS
  <2>7. (Cardinality(Callers) - 2) * SendTimeout = Turns(Callers) - SendTimeout - SendTimeout
    BY <2>5, <2>6 DEF Turns
  <2> QED
    BY <2>3, <2>4, <2>7, RetainTypes
<1>3. IInv /\ RetainInv /\ [StartNext]_startVars => RetainInv'
  BY NextRetains
<1> QED
  BY <1>1, <1>2, <1>3, Invariance, PTL DEF StartSpec

=============================================================================
