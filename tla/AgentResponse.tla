---------------------------- MODULE AgentResponse ----------------------------
(***************************************************************************)
(* One streaming agent response after Start: UpdateAgentResponse,          *)
(* FinishAgentResponse and ReplaceAgentResponse of internal/service, and   *)
(* the Feishu card they mutate.                                            *)
(*                                                                         *)
(* Every RPC holds response.mu from its first check to its return, so the  *)
(* RPCs of one response follow each other; "caller" is the operation whose *)
(* RPC holds the mutex.  Inside it an operation makes up to four Feishu    *)
(* calls, each of which may succeed, be refused for good, be refused for   *)
(* now, or leave its outcome in doubt -- applied, lost, or still on its    *)
(* way and applied after the daemon has given up on it.                    *)
(*                                                                         *)
(* Responses share nothing that these RPCs write, so one is modelled.      *)
(***************************************************************************)
EXTENDS Integers, Sequences, FiniteSets

CONSTANTS
    OperationIds,   \* operation ids the provider may generate
    Requests,       \* the semantic requests it may send
    Texts,          \* markdown bodies, timeline bodies and header titles
    Empty,          \* the empty text
    None,           \* no operation
    Started,        \* what Start put on the card
    Weight,         \* length of a text
    CardBudget,     \* maxAgentCardBytes
    MaxSequence,    \* bound: the last card sequence an operation may reserve
    ReuseReleased   \* may a provider reuse the id of a rejected operation?

Stages   == {"content", "timeline", "panel", "settings"}
Outcomes == {"completed", "failed", "cancelled"}
Kinds    == {"update", "finish", "replace"}
UUIDKinds == {"content", "timeline", "panel", "finish", "replace", "replace-settings"}
Parts    == Texts \cup {Empty}

Snapshots == [markdown : Parts, timeline : Parts, title : Parts]

RequestSpace ==
    [kind : Kinds, expected : Nat \ {0}, markdown : Texts, timeline : Parts,
     title : Parts, outcome : Outcomes]

ASSUME ResponseAssumption ==
    /\ Requests \subseteq RequestSpace
    /\ Empty \notin Texts
    /\ None \notin OperationIds
    /\ Started \in Snapshots
    /\ Started.markdown \in Texts
    /\ Weight \in [Parts -> Nat]
    /\ Weight[Empty] = 0
    /\ CardBudget \in Nat
    /\ MaxSequence \in Nat
    /\ ReuseReleased \in BOOLEAN

VARIABLES
    \* the agentResponse in the broker
    revision,       \* revision of the latest receipt
    phase,          \* AgentResponsePhase
    present,        \* timeline.present: Start decided whether there is a panel
    snapshot,       \* what the daemon believes the card shows
    nextSequence,   \* the card sequence of the last call Feishu accepted
    operations,     \* operation id -> agentOperation, or NoOperation
    pendingOp,      \* the operation that is begun and not complete, or None
    caller,         \* the operation whose RPC holds response.mu, or None
    \* the provider
    released,       \* ids whose operation was rejected and forgotten
    \* Feishu
    card,           \* what the user sees, and the card's own sequence
    accepted,       \* UUIDs of the calls Feishu has applied
    network         \* calls the daemon gave up on that may still arrive

response == <<revision, phase, present, snapshot, nextSequence, operations,
              pendingOp>>
feishu   == <<card, accepted, network>>
vars     == <<response, caller, released, feishu>>

-----------------------------------------------------------------------------
(***************************************************************************)
(* Operations.  The four seq/done/ambiguous/closed field groups of         *)
(* agentOperation are run strictly in order, so they are kept as the list  *)
(* of planned calls, the sequence before the first of them and the number  *)
(* already done; the ambiguity and closed flags of the calls before the    *)
(* current one are never read again, and compact() clears them all.        *)
(***************************************************************************)
NoOperation ==
    [kind |-> "none", request |-> None, calls |-> <<>>, base |-> 0, done |-> 0,
     inDoubt |-> FALSE, closed |-> FALSE, complete |-> FALSE,
     revision |-> 0, phase |-> "none"]

Known(o) == operations[o].kind # "none"

Planned(wanted, stage) == IF wanted THEN <<stage>> ELSE <<>>

(* planTimelineCalls: a part is written only if there is a panel and the   *)
(* request changes it.                                                     *)
Changes(part, shown) == present /\ part # Empty /\ part # shown

TimelineCalls(req) ==
    Planned(Changes(req.timeline, snapshot.timeline), "timeline")
        \o Planned(Changes(req.title, snapshot.title), "panel")

(* Mutation of Plan: a finish disables streaming before the timeline.      *)
PlanSettingsEarly(req) ==
    CASE req.kind = "update"  -> <<"content">> \o TimelineCalls(req)
      [] req.kind = "finish"  -> Planned(req.markdown # snapshot.markdown, "content")
                                     \o <<"settings">> \o TimelineCalls(req)
      [] req.kind = "replace" -> <<"panel", "settings">>

(* The calls an operation freezes on its first attempt, in order.  A       *)
(* finish writes the answer only if it differs, and settings come last.    *)
Plan(req) ==
    CASE req.kind = "update"  -> <<"content">> \o TimelineCalls(req)
      [] req.kind = "finish"  -> Planned(req.markdown # snapshot.markdown, "content")
                                     \o TimelineCalls(req) \o <<"settings">>
      [] req.kind = "replace" -> <<"panel", "settings">>

(* Mutation of NewOperation: the first call reuses the last sequence.      *)
NewOperationOffByOne(req) ==
    [NoOperation EXCEPT !.kind = req.kind, !.request = req, !.calls = Plan(req),
                        !.base = nextSequence - 1]

NewOperation(req) ==
    [NoOperation EXCEPT !.kind = req.kind, !.request = req, !.calls = Plan(req),
                        !.base = nextSequence]

Finished(op) == op.done = Len(op.calls)

(* The Feishu call an operation is at.  Its UUID is derived from the kind  *)
(* of call and the operation id alone, so it is the pair.                  *)
CurrentCall(o) ==
    LET op == operations[o] IN
    [op |-> o, kind |-> op.request.kind, stage |-> op.calls[op.done + 1],
     sequence |-> op.base + op.done + 1, request |-> op.request]

(* Mutation of UUID: the operation id is left out of the seed.             *)
UUIDPerStage(call) == <<call.stage, None>>

UUIDKind(call) ==
    IF call.kind = "replace"
    THEN IF call.stage = "panel" THEN "replace" ELSE "replace-settings"
    ELSE IF call.stage = "settings" THEN "finish" ELSE call.stage

UUID(call) == <<UUIDKind(call), call.op>>

-----------------------------------------------------------------------------
(***************************************************************************)
(* Feishu.  A card takes a call once per UUID and only with a sequence     *)
(* above the last one it took; the streaming content endpoint is closed    *)
(* once streaming mode is off.                                             *)
(***************************************************************************)
Overlay(text, shown) == IF present /\ text # Empty THEN text ELSE shown

Write(shown, call) ==
    LET req == call.request IN
    CASE call.stage = "content"  -> [shown EXCEPT !.content = req.markdown]
      [] call.stage = "timeline" -> [shown EXCEPT !.timeline = req.timeline]
      [] call.stage = "settings" -> [shown EXCEPT !.streaming = FALSE]
      [] call.stage = "panel" /\ call.kind # "replace" ->
             [shown EXCEPT !.title = req.title]
      [] call.stage = "panel" /\ call.kind = "replace" ->
             [shown EXCEPT !.content = req.markdown,
                           !.timeline = Overlay(req.timeline, @),
                           !.title = Overlay(req.title, @)]

Duplicate(call) == UUID(call) \in accepted

Acceptable(call) ==
    /\ call.sequence > card.sequence
    /\ call.stage \in {"content", "timeline"} => card.streaming

Applied(call) ==
    /\ card' = [Write(card, call) EXCEPT !.sequence = call.sequence]
    /\ accepted' = accepted \cup {UUID(call)}

(* Feishu answers a call with success: a repeated UUID has no effect.      *)
Served(call) ==
    \/ Duplicate(call) /\ UNCHANGED <<card, accepted>>
    \/ ~Duplicate(call) /\ Acceptable(call) /\ Applied(call)

-----------------------------------------------------------------------------
Init ==
    /\ revision = 1
    /\ phase = "streaming"
    /\ present \in BOOLEAN
    /\ snapshot = IF present THEN Started
                  ELSE [Started EXCEPT !.timeline = Empty, !.title = Empty]
    /\ nextSequence = 0
    /\ operations = [o \in OperationIds |-> NoOperation]
    /\ pendingOp = None
    /\ caller = None
    /\ released = {}
    /\ card = [content |-> snapshot.markdown, timeline |-> snapshot.timeline,
               title |-> snapshot.title, streaming |-> TRUE, sequence |-> 0]
    /\ accepted = {}
    /\ network = {}

(* checkCardBudget: parts the request leaves empty keep their value.       *)
WithinBudget(req) ==
    LET effective == IF req.timeline # Empty THEN req.timeline ELSE snapshot.timeline
    IN  present => Weight[req.markdown] + Weight[effective] <= CardBudget

(* Mutation of UpToDate: only a revision from the future is refused.       *)
UpToDateOrOlder(req) == req.expected <= revision

UpToDate(req) == req.expected = revision

(* beginOperation and beginTerminalOperation differ in the phase they ask. *)
PhaseAllows(req) ==
    IF req.kind = "replace" THEN phase \in Outcomes ELSE phase = "streaming"

Begin(o, req) ==
    /\ caller = None
    /\ WithinBudget(req)
    /\ ~Known(o)
    /\ o \in released => ReuseReleased
    /\ PhaseAllows(req)
    /\ pendingOp = None
    /\ UpToDate(req)
    /\ nextSequence + Len(Plan(req)) <= MaxSequence
    /\ operations' = [operations EXCEPT ![o] = NewOperation(req)]
    /\ pendingOp' = o
    /\ caller' = o
    /\ UNCHANGED <<revision, phase, present, snapshot, nextSequence, released, feishu>>

(* Mutation of Resume: an operation in doubt is not retried.               *)
ResumeUnlessInDoubt(o) ==
    /\ caller = None
    /\ Known(o)
    /\ ~operations[o].inDoubt
    /\ ~operations[o].complete
    /\ caller' = o
    /\ UNCHANGED <<response, released, feishu>>

(* The retry of an incomplete operation takes up its frozen plan.  A retry *)
(* of a complete one answers with the recorded receipt and changes nothing.*)
Resume(o) ==
    /\ caller = None
    /\ Known(o)
    /\ WithinBudget(operations[o].request)
    /\ ~operations[o].closed
    /\ ~operations[o].complete
    /\ caller' = o
    /\ UNCHANGED <<response, released, feishu>>

Calling(o) == caller = o /\ ~Finished(operations[o])

(* What a successful call records: the daemon's picture of the card moves  *)
(* with every streaming call, a replacement's only when it commits.        *)
Recorded(call) ==
    LET req == call.request IN
    CASE call.stage = "content"  -> [snapshot EXCEPT !.markdown = req.markdown]
      [] call.stage = "timeline" -> [snapshot EXCEPT !.timeline = req.timeline]
      [] call.stage = "panel" /\ call.kind # "replace" ->
             [snapshot EXCEPT !.title = req.title]
      [] OTHER -> snapshot

CallSucceeds(o) ==
    /\ Calling(o)
    /\ Served(CurrentCall(o))
    /\ operations' = [operations EXCEPT ![o].done = @ + 1, ![o].inDoubt = FALSE]
    /\ nextSequence' = CurrentCall(o).sequence
    /\ snapshot' = Recorded(CurrentCall(o))
    /\ UNCHANGED <<revision, phase, present, pendingOp, caller, released, network>>

(* Mutation of CloseOrAbort: the earlier attempt in doubt is forgotten.    *)
AbortAlways(o) ==
    /\ operations' = [operations EXCEPT ![o] = NoOperation]
    /\ pendingOp' = None
    /\ released' = released \cup {o}

(* Mutation of CloseOrAbort: the operation is deleted, but stays pending.  *)
AbortKeepsPending(o) ==
    /\ operations' = [operations EXCEPT ![o] = NoOperation]
    /\ released' = released \cup {o}
    /\ UNCHANGED pendingOp

(* A definitive rejection.  It settles nothing about an earlier attempt in *)
(* doubt, so the operation is then closed with its identity kept;          *)
(* otherwise it is forgotten.                                              *)
CloseOrAbort(o) ==
    IF operations[o].inDoubt
    THEN /\ operations' = [operations EXCEPT ![o].closed = TRUE]
         /\ UNCHANGED <<pendingOp, released>>
    ELSE /\ operations' = [operations EXCEPT ![o] = NoOperation]
         /\ pendingOp' = None
         /\ released' = released \cup {o}

CallRejected(o) ==
    /\ Calling(o)
    /\ CloseOrAbort(o)
    /\ caller' = None
    /\ UNCHANGED <<revision, phase, present, snapshot, nextSequence, feishu>>

(* HTTP 429, 230020 and 200810 -- or waitForMutation cut short by the      *)
(* caller: nothing reached the card and the operation stays as it is.      *)
CallDeferred(o) ==
    /\ Calling(o)
    /\ caller' = None
    /\ UNCHANGED <<response, released, feishu>>

(* A transport error, an HTTP 5xx or 300120: the call was applied, or      *)
(* was lost, or is still under way.                                        *)
CallInDoubt(o) ==
    /\ Calling(o)
    /\ \/ Served(CurrentCall(o)) /\ UNCHANGED network
       \/ UNCHANGED feishu
       \/ network' = network \cup {CurrentCall(o)} /\ UNCHANGED <<card, accepted>>
    /\ operations' = [operations EXCEPT ![o].inDoubt = TRUE]
    /\ caller' = None
    /\ UNCHANGED <<revision, phase, present, snapshot, nextSequence, pendingOp, released>>

(* A call the daemon had given up on reaches Feishu, or is dropped.        *)
Arrive(call) ==
    /\ network' = network \ {call}
    /\ IF ~Duplicate(call) /\ Acceptable(call)
       THEN Applied(call)
       ELSE UNCHANGED <<card, accepted>>
    /\ UNCHANGED <<response, caller, released>>

(* compact() drops the payload and the plan of a complete operation.       *)
Compacted(op, rev, ph) ==
    [NoOperation EXCEPT !.kind = op.kind, !.request = op.request,
                        !.complete = TRUE, !.revision = rev, !.phase = ph]

(* The picture of the card a commit leaves: a finish drops the answer, a   *)
(* replacement takes over the timeline parts it carried.                   *)
Settled(req) ==
    CASE req.kind = "update"  -> snapshot
      [] req.kind = "finish"  -> [snapshot EXCEPT !.markdown = Empty]
      [] req.kind = "replace" -> [snapshot EXCEPT !.timeline = Overlay(req.timeline, @),
                                                  !.title = Overlay(req.title, @)]

Commit(o) ==
    LET op == operations[o]
        ph == IF op.kind = "finish" THEN op.request.outcome ELSE phase
    IN
    /\ caller = o
    /\ Finished(op)
    /\ operations' = [operations EXCEPT ![o] = Compacted(op, revision + 1, ph)]
    /\ revision' = revision + 1
    /\ phase' = ph
    /\ snapshot' = Settled(op.request)
    /\ pendingOp' = None
    /\ caller' = None
    /\ UNCHANGED <<present, nextSequence, released, feishu>>

Attempt(o) ==
    \/ CallSucceeds(o)
    \/ CallRejected(o)
    \/ CallDeferred(o)
    \/ CallInDoubt(o)
    \/ Commit(o)

Next ==
    \/ \E o \in OperationIds : \/ \E req \in Requests : Begin(o, req)
                               \/ Resume(o)
                               \/ Attempt(o)
    \/ \E call \in network : Arrive(call)

(* SendTimeout bounds every RPC, so the holder of the mutex always moves   *)
(* on; a provider keeps retrying the operation it has begun, as the retry  *)
(* rules ask, and Feishu does not refuse the same call for ever.           *)
Fairness ==
    \A o \in OperationIds :
        /\ WF_vars(Attempt(o))
        /\ SF_vars(Resume(o))
        /\ SF_vars(CallSucceeds(o))

Spec == Init /\ [][Next]_vars

FairSpec == Spec /\ Fairness

-----------------------------------------------------------------------------
(* Every variable has its type.  A record of an operation never outlives   *)
(* the id it is kept under.                                                *)
OperationSpace ==
    [kind : Kinds \cup {"none"}, request : Requests \cup {None}, calls : Seq(Stages),
     base : Nat, done : Nat, inDoubt : BOOLEAN, closed : BOOLEAN,
     complete : BOOLEAN, revision : Nat, phase : Outcomes \cup {"streaming", "none"}]

CallSpace ==
    [op : OperationIds, kind : Kinds, stage : Stages, sequence : Nat,
     request : Requests]

TypeOK ==
    /\ revision \in Nat \ {0}
    /\ phase \in Outcomes \cup {"streaming"}
    /\ present \in BOOLEAN
    /\ snapshot \in Snapshots
    /\ nextSequence \in Nat
    /\ operations \in [OperationIds -> OperationSpace]
    /\ pendingOp \in OperationIds \cup {None}
    /\ caller \in OperationIds \cup {None}
    /\ released \subseteq OperationIds
    /\ card \in [content : Texts, timeline : Parts, title : Parts,
                 streaming : BOOLEAN, sequence : Nat]
    /\ accepted \subseteq (UUIDKinds \X OperationIds)
    /\ network \subseteq CallSpace

Pending == pendingOp # None

(* Only one operation of a response is under way: whatever fails, it keeps *)
(* the revision it was begun against until it commits or is forgotten, and *)
(* response.mu is only ever held for it (beginOperation, abortOperation).  *)
PendingIsCurrent ==
    /\ caller \in {None, pendingOp}
    /\ \A o \in OperationIds :
          /\ Known(o) /\ ~operations[o].complete => pendingOp = o
          /\ ~Known(o) => operations[o] = NoOperation
    /\ Pending =>
          LET op == operations[pendingOp] IN
          /\ op.request \in Requests
          /\ op.kind = op.request.kind
          /\ op.request.expected = revision
          /\ PhaseAllows(op.request)
          /\ ~op.complete
          /\ op.done <= Len(op.calls)

(* The part of the card whose call is in doubt.                            *)
DoubtfulAt(stage) ==
    /\ Pending
    /\ operations[pendingOp].inDoubt
    /\ CurrentCall(pendingOp).stage = stage

(* While the response streams, the daemon's picture of the card differs    *)
(* from the card only in the one part whose call is in doubt -- whatever   *)
(* was rejected, aborted half way, retried or delivered late.  A finish    *)
(* relies on it when it skips an answer the card already shows             *)
(* (applyAgentFinish), and an update when it skips a timeline part.        *)
SnapshotAgrees ==
    phase = "streaming" =>
        /\ card.content # snapshot.markdown => DoubtfulAt("content")
        /\ card.timeline # snapshot.timeline => DoubtfulAt("timeline")
        /\ card.title # snapshot.title => DoubtfulAt("panel")

(* Feishu never has to refuse the next call of the pending operation for   *)
(* its sequence or for a card already closed: one sequence domain per card *)
(* (waitForMutation, nextSequence) survives aborts and late arrivals.      *)
NextCallAcceptable ==
    Pending /\ ~Finished(operations[pendingOp]) =>
        Duplicate(CurrentCall(pendingOp)) \/ Acceptable(CurrentCall(pendingOp))

(* A call that arrives after the daemon gave up on it can still write the  *)
(* card only if it is the very call the pending operation is in doubt      *)
(* about: nothing a later operation wrote is ever overwritten.             *)
LateCallsAreInDoubt ==
    \A call \in network :
        \/ Duplicate(call)
        \/ ~Acceptable(call)
        \/ /\ Pending
           /\ operations[pendingOp].inDoubt
           /\ call = CurrentCall(pendingOp)

(* Streaming mode goes off only for a finish whose other calls have all    *)
(* landed, and the response ends streaming with it.                        *)
StreamingClosesLast ==
    ~card.streaming =>
        \/ phase \in Outcomes
        \/ /\ Pending
           /\ operations[pendingOp].kind = "finish"
           /\ operations[pendingOp].done >= Len(operations[pendingOp].calls) - 1

(* When an operation is reported complete the card shows all it asked for  *)
(* and nothing newer: Update "replaces the markdown element", Finish also  *)
(* disables streaming, Replace rewrites every part it carries.             *)
Shows(req, c) ==
    /\ c.content = req.markdown
    /\ Overlay(req.timeline, c.timeline) = c.timeline
    /\ Overlay(req.title, c.title) = c.title
    /\ c.streaming = (req.kind = "update")

CommitShowsRequest ==
    [][\A o \in OperationIds :
          operations'[o].complete /\ ~operations[o].complete =>
              Shows(operations[o].request, card)]_vars

(* An operation in doubt is never dropped or replaced: the doubt ends only *)
(* with Feishu holding the very call (applyAgentContent, abortOperation).  *)
DoubtEndsAtFeishu ==
    [][\A o \in OperationIds :
          operations[o].inDoubt /\ ~operations'[o].inDoubt =>
              /\ operations'[o].done = operations[o].done + 1
              /\ UUID(CurrentCall(o)) \in accepted']_vars

(* The response is the compare-and-swap register its receipts describe.    *)
Log == INSTANCE RevisionLog WITH
    log <- [o \in OperationIds |->
              IF operations[o].complete
              THEN [request |-> operations[o].request,
                    revision |-> operations[o].revision,
                    phase |-> operations[o].phase]
              ELSE None]

ImplementsLog == Log!Spec

(* An operation that was begun ends: it commits, is rejected, or is closed *)
(* because its outcome cannot be known -- if its provider retries it.      *)
PendingResolves ==
    \A o \in OperationIds :
        pendingOp = o ~> pendingOp # o \/ operations[o].closed

(* "A completed retry returns duplicate = true": the retry of a complete   *)
(* operation gets past checkCardBudget, which comes before the lookup of   *)
(* the recorded receipt.                                                   *)
RetriesAreAnswered ==
    \A o \in OperationIds :
        operations[o].complete => WithinBudget(operations[o].request)

(* checkCardBudget "holds the answer and the timeline to one shared        *)
(* ceiling": the card's two texts never exceed it together.                *)
CardWithinBudget ==
    present => Weight[card.content] + Weight[card.timeline] <= CardBudget

=============================================================================
