----------------------------- MODULE Conversation -----------------------------
(***************************************************************************)
(* A conversation that has delivered an agent event: the route the daemon  *)
(* keeps for it, the follow-up messages providers post into it and the     *)
(* images they upload for it.                                              *)
(*                                                                         *)
(* Resolving the route and claiming the operation lock the broker and the  *)
(* route one after the other, but nothing the second finds depends on what *)
(* the first saw except the route itself, which is pinned: one step.  The  *)
(* call to Feishu holds no lock and is over when its deadline passes; what *)
(* the sender does meanwhile is what MessageSend promises of it: the parts *)
(* of the message reach Feishu in turn, each under its own UUID, and       *)
(* success means that all of them did.                                     *)
(***************************************************************************)
EXTENDS Clock, Integers, FiniteSets

CONSTANTS
    Calls,              \* concurrent calls
    Agents,             \* providers
    FollowUpOps,        \* operation ids of follow-ups
    Contents,           \* what a follow-up says: its fingerprint
    PartsOf,            \* content -> the number of messages it is split into
    ImageOps,           \* operation ids of uploads
    Images,             \* image bytes
    Nothing,            \* no app, no provider, no content
    ConversationApps,   \* applications
    GrantTTL,           \* the dedupe TTL
    FollowUpTimeout,    \* cfg.SendTimeout
    UUIDMemory,         \* messageUUIDDedupeWindow: Feishu's memory of a UUID
    MaxImages,          \* maxConversationImages, maxDeliveryImages
    MaxHandles,         \* bound: follow-up handles and image keys made
    ConversationUntil   \* bound: the clock stops here

ASSUME ConversationAssumption ==
    /\ PartsOf \in [Contents -> Nat \ {0}]
    /\ \E c \in Contents : \A d \in Contents : PartsOf[d] <= PartsOf[c]  \* they have a limit
    /\ IsFiniteSet(Calls) /\ Calls # {}
    /\ Nothing \notin ConversationApps \cup Agents \cup Contents \cup Images
    /\ GrantTTL \in Nat /\ FollowUpTimeout \in Nat /\ UUIDMemory \in Nat
    /\ UUIDMemory + FollowUpTimeout <= GrantTTL                 \* config.Load
    /\ MaxImages \in Nat /\ MaxHandles \in Nat
    /\ ConversationUntil \in Nat \ {0}

VARIABLES
    route,      \* agentConversationRoute; app is Nothing when there is none
    call,       \* what each call is doing
    posted,     \* <<handle, part>> -> what Feishu posted under that UUID, and when
    handles,    \* handles and image keys made so far
    handed      \* history: image operation -> keys callers were given

conversationVars == <<now, route, call, posted, handles, handed>>

Handles == 1..MaxHandles
Parts   == 1..(CHOOSE n \in {PartsOf[c] : c \in Contents} :
                  \A c \in Contents : PartsOf[c] <= n)

(* Operations are filed under their id alone, or under provider and id     *)
(* when another provider has the id already.                               *)
Keys == (Agents \cup {Nothing}) \X FollowUpOps

NoRecord == [provider |-> Nothing, content |-> Nothing, handle |-> 0,
             state |-> "none", ambiguousAt |-> 0]
NoImage  == [key |-> 0, image |-> Nothing]
NoRoute  == [app |-> Nothing, expiresAt |-> 0,
             grant |-> [p \in Agents |-> 0],
             ops |-> [k \in Keys |-> NoRecord],
             images |-> [i \in ImageOps |-> NoImage]]
Idle     == [kind |-> "idle", provider |-> Nothing, op |-> Nothing,
             content |-> Nothing, handle |-> 0, sent |-> 0, deadline |-> 0]
NotPosted == [provider |-> Nothing, op |-> Nothing, content |-> Nothing, at |-> 0]

ConversationInit ==
    /\ now = 1
    /\ route = NoRoute
    /\ call = [c \in Calls |-> Idle]
    /\ posted = [u \in Handles \X Parts |-> NotPosted]
    /\ handles = 0
    /\ handed = [i \in ImageOps |-> {}]

Later(a, b) == IF a < b THEN b ELSE a

Busy(c)   == call[c].kind # "idle"
RouteLive == route.app # Nothing /\ now <= route.expiresAt
Granted(p) == now < route.grant[p]

-----------------------------------------------------------------------------
(* A delivered event records the route, or renews it, and grants the       *)
(* providers that received it a follow-up scope.  A conversation belongs   *)
(* to one app; a route whose time is over has been pruned, and begins anew.*)
Record(app, ps) ==
    /\ RouteLive => route.app = app
    /\ LET r == IF RouteLive THEN route ELSE [NoRoute EXCEPT !.app = app]
       IN  route' = [r EXCEPT !.grant = [p \in Agents |->
                                  IF p \in ps THEN now + GrantTTL ELSE @[p]],
                              !.expiresAt = Later(@, now + GrantTTL)]
    /\ handed' = IF RouteLive THEN handed ELSE [i \in ImageOps |-> {}]
    /\ UNCHANGED <<now, call, posted, handles>>

(* A card action renews a grant the provider has.                          *)
Refresh(p) ==
    /\ RouteLive /\ route.grant[p] # 0
    /\ route' = [route EXCEPT !.grant[p] = now + GrantTTL,
                              !.expiresAt = Later(@, now + GrantTTL)]
    /\ UNCHANGED <<now, call, posted, handles, handed>>

(* Mutation of Pinned: the route keeps the lifetime its grants gave it.    *)
NotPinned == route

Pinned == [route EXCEPT !.expiresAt =
              Later(@, now + Later(GrantTTL, FollowUpTimeout))]

KeyOf(p, op) ==
    IF route.ops[<<p, op>>] = NoRecord
          /\ route.ops[<<Nothing, op>>].provider \in {p, Nothing}
    THEN <<Nothing, op>>
    ELSE <<p, op>>

(* messageRetryWindowExhausted: a retry could reach Feishu after it has    *)
(* forgotten the UUID.                                                     *)
Exhausted(r) == r.ambiguousAt # 0 /\ now + FollowUpTimeout >= r.ambiguousAt + UUIDMemory

Begun(c, p, op, content, handle) ==
    call' = [call EXCEPT ![c] =
        [kind |-> "follow-up", provider |-> p, op |-> op, content |-> content,
         handle |-> handle, sent |-> 0, deadline |-> now + FollowUpTimeout]]

(* The first attempt of an operation needs a live grant.                   *)
BeginNew(c, p, op, content) ==
    /\ ~Busy(c) /\ RouteLive /\ Granted(p)
    /\ route.ops[KeyOf(p, op)] = NoRecord
    /\ handles < MaxHandles
    /\ handles' = handles + 1
    /\ route' = [Pinned EXCEPT !.ops[KeyOf(p, op)] =
                    [provider |-> p, content |-> content, handle |-> handles + 1,
                     state |-> "pending", ambiguousAt |-> 0]]
    /\ Begun(c, p, op, content, handles + 1)
    /\ UNCHANGED <<now, posted, handed>>

(* Mutation of MayResume: an attempt in flight is not looked for.          *)
ResumesAnything(r, content) ==
    r.content = content /\ r.state # "complete" /\ ~Exhausted(r)

MayResume(r, content) ==
    r.content = content /\ r.state = "open" /\ ~Exhausted(r)

(* A retry does not: the record is enough.                                 *)
BeginAgain(c, p, op, content) ==
    /\ ~Busy(c) /\ RouteLive
    /\ LET r == route.ops[KeyOf(p, op)]
       IN  /\ r # NoRecord /\ MayResume(r, content)
           /\ Begun(c, p, op, content, r.handle)
    /\ route' = [Pinned EXCEPT !.ops[KeyOf(p, op)].state = "pending"]
    /\ UNCHANGED <<now, posted, handles, handed>>

(* Replayed, in flight, in conflict or too late: the route is pinned.      *)
FollowUpRefused(p, op, content) ==
    /\ RouteLive
    /\ LET r == route.ops[KeyOf(p, op)]
       IN  r # NoRecord /\ ~MayResume(r, content)
    /\ route' = Pinned
    /\ UNCHANGED <<now, call, posted, handles, handed>>

-----------------------------------------------------------------------------
(* Feishu takes the next part: under a UUID it remembers nothing is posted.*)
Arrive(c) ==
    /\ call[c].kind = "follow-up" /\ call[c].sent < PartsOf[call[c].content]
    /\ LET k == call[c]
           u == <<k.handle, k.sent + 1>>
       IN  posted' = IF posted[u].at # 0 /\ now < posted[u].at + UUIDMemory
                     THEN posted
                     ELSE [posted EXCEPT ![u] = [provider |-> k.provider, op |-> k.op,
                                                 content |-> k.content, at |-> now]]
    /\ call' = [call EXCEPT ![c].sent = 1 + @]
    /\ UNCHANGED <<now, route, handles, handed>>

Filed(c, r) == route' = [route EXCEPT !.ops[KeyOf(call[c].provider, call[c].op)] = r]
FiledUnder(c) == route.ops[KeyOf(call[c].provider, call[c].op)]

(* Mutation of SendSucceeds: the first part is taken for the message.      *)
SucceedsAtFirst(c) ==
    /\ call[c].kind = "follow-up" /\ call[c].sent > 0
    /\ Filed(c, [FiledUnder(c) EXCEPT !.state = "complete"])
    /\ call' = [call EXCEPT ![c] = Idle]
    /\ UNCHANGED <<now, posted, handles, handed>>

(* All parts went through: commitFollowUp.                                 *)
SendSucceeds(c) ==
    /\ call[c].kind = "follow-up" /\ call[c].sent = PartsOf[call[c].content]
    /\ Filed(c, [FiledUnder(c) EXCEPT !.state = "complete"])
    /\ call' = [call EXCEPT ![c] = Idle]
    /\ UNCHANGED <<now, posted, handles, handed>>

(* abortFollowUp knows the last error only: what became of earlier parts,  *)
(* or of earlier attempts at this part, it does not.  An error that leaves *)
(* the send in doubt stamps the record, once; a temporary rejection keeps  *)
(* it; a final one releases the operation id, unless an earlier call was   *)
(* in doubt.                                                               *)
Aborted(r, error) ==
    IF error = "final" /\ r.ambiguousAt = 0 THEN NoRecord
    ELSE [r EXCEPT !.state = "open",
                   !.ambiguousAt = IF error = "doubt" /\ @ = 0 THEN now ELSE @]

SendFails(c, error) ==
    /\ call[c].kind = "follow-up"
    /\ Filed(c, Aborted(FiledUnder(c), error))
    /\ call' = [call EXCEPT ![c] = Idle]
    /\ UNCHANGED <<now, posted, handles, handed>>

-----------------------------------------------------------------------------
Stored == {i \in ImageOps : route.images[i] # NoImage}

(* An upload of an operation the ledger does not have, under a live grant  *)
(* and below the limit.  The ledger is not locked during the upload.       *)
BeginUpload(c, p, i, image) ==
    /\ ~Busy(c) /\ RouteLive /\ Granted(p)
    /\ route.images[i] = NoImage
    /\ Cardinality(Stored) < MaxImages
    /\ route' = Pinned
    /\ call' = [call EXCEPT ![c] =
          [Idle EXCEPT !.kind = "upload", !.provider = p, !.op = i,
                       !.content = image, !.deadline = now + FollowUpTimeout]]
    /\ UNCHANGED <<now, posted, handles, handed>>

(* Known, in conflict or one too many: the route is pinned.  A replay      *)
(* needs no grant and hands out the key on file.                           *)
UploadAnswered(p, i, image) ==
    /\ RouteLive
    /\ \/ route.images[i] # NoImage
       \/ Granted(p) /\ Cardinality(Stored) >= MaxImages
    /\ route' = Pinned
    /\ handed' = IF route.images[i].image = image
                 THEN [handed EXCEPT ![i] = @ \cup {route.images[i].key}]
                 ELSE handed
    /\ UNCHANGED <<now, call, posted, handles>>

(* Mutation of Kept: the last upload wins.                                 *)
KeptLast(i, new) == new

(* rememberUploadedImage: the first upload of an operation wins.           *)
Kept(i, new) == IF route.images[i] = NoImage THEN new ELSE route.images[i]

Uploaded(c) ==
    /\ call[c].kind = "upload" /\ handles < MaxHandles
    /\ handles' = handles + 1
    /\ LET i    == call[c].op
           kept == Kept(i, [key |-> handles + 1, image |-> call[c].content])
       IN  /\ route' = [route EXCEPT !.images[i] = kept]
           /\ handed' = [handed EXCEPT ![i] = @ \cup {kept.key}]
    /\ call' = [call EXCEPT ![c] = Idle]
    /\ UNCHANGED <<now, posted>>

(* Whatever Feishu kept of a failed upload, the ledger does not know it.   *)
UploadFails(c) ==
    /\ call[c].kind = "upload"
    /\ call' = [call EXCEPT ![c] = Idle]
    /\ UNCHANGED <<now, route, posted, handles, handed>>

ConversationTick ==
    /\ \A c \in Calls : Busy(c) => now < call[c].deadline
    /\ Tick(ConversationUntil)
    /\ UNCHANGED <<route, call, posted, handles, handed>>

ConversationNext ==
    \/ \E app \in ConversationApps, ps \in SUBSET Agents \ {{}} : Record(app, ps)
    \/ \E p \in Agents :
          \/ Refresh(p)
          \/ \E op \in FollowUpOps, content \in Contents :
                \/ FollowUpRefused(p, op, content)
                \/ \E c \in Calls : \/ BeginNew(c, p, op, content)
                                    \/ BeginAgain(c, p, op, content)
          \/ \E i \in ImageOps, image \in Images :
                \/ UploadAnswered(p, i, image)
                \/ \E c \in Calls : BeginUpload(c, p, i, image)
    \/ \E c \in Calls :
          \/ Arrive(c) \/ SendSucceeds(c)
          \/ \E error \in {"final", "limited", "doubt"} : SendFails(c, error)
          \/ Uploaded(c) \/ UploadFails(c)
    \/ ConversationTick

ConversationSpec == ConversationInit /\ [][ConversationNext]_conversationVars

-----------------------------------------------------------------------------
RecordType == [provider : Agents \cup {Nothing}, content : Contents \cup {Nothing},
               handle : 0..MaxHandles, state : {"none", "open", "pending", "complete"},
               ambiguousAt : 0..ConversationUntil]
ImageType  == [key : 0..MaxHandles, image : Images \cup {Nothing}]
RouteUntil == 0..(ConversationUntil + Later(GrantTTL, FollowUpTimeout))
RouteType  == [app : ConversationApps \cup {Nothing}, expiresAt : RouteUntil,
               grant : [Agents -> RouteUntil], ops : [Keys -> RecordType],
               images : [ImageOps -> ImageType]]
CallType   == [kind : {"idle", "follow-up", "upload"}, provider : Agents \cup {Nothing},
               op : FollowUpOps \cup ImageOps \cup {Nothing},
               content : Contents \cup Images \cup {Nothing}, handle : 0..MaxHandles,
               sent : {0} \cup Parts, deadline : 0..(ConversationUntil + FollowUpTimeout)]

ConversationTypeOK ==
    /\ now \in 1..ConversationUntil
    /\ route \in RouteType
    /\ call \in [Calls -> CallType]
    /\ posted \in [Handles \X Parts ->
                     [provider : Agents \cup {Nothing}, op : FollowUpOps \cup {Nothing},
                      content : Contents \cup {Nothing}, at : 0..ConversationUntil]]
    /\ handles \in 0..MaxHandles
    /\ handed \in [ImageOps -> SUBSET (1..MaxHandles)]

(* "so an in-flight follow-up cannot be pruned and rebound to another      *)
(* app": while a call is under way its route is there, and the operation   *)
(* it claimed is pending under its handle, which no other call has.  So a  *)
(* commit or an abort finds the record it means, whatever else expired,    *)
(* was released or was claimed by another provider under the same id.      *)
CallsOwnTheirRecords ==
    \A c \in Calls : Busy(c) =>
        /\ RouteLive
        /\ call[c].kind = "follow-up" =>
              /\ FiledUnder(c).provider = call[c].provider
              /\ FiledUnder(c).content = call[c].content
              /\ FiledUnder(c).handle = call[c].handle
              /\ FiledUnder(c).state = "pending"
              /\ \A d \in Calls \ {c} : call[d].handle # call[c].handle

(* An operation recorded as complete, so that its handle answers every     *)
(* replay, has all its parts in Feishu, and with the content the operation *)
(* is bound to, however many calls, attempts and fallbacks that took.      *)
CompleteIsPosted ==
    \A k \in Keys : route.ops[k].state = "complete" =>
        \A part \in 1..PartsOf[route.ops[k].content] :
            posted[<<route.ops[k].handle, part>>].content = route.ops[k].content

(* "keeping the first one means every caller is handed the same key": of   *)
(* several uploads of one operation side by side, each of which Feishu     *)
(* gives a key, and of all replays, while the route lives.                 *)
OneKeyPerUpload == \A i \in ImageOps : Cardinality(handed[i]) <= 1

(* "Server-owned limits are ... 16 images per delivery or conversation     *)
(* grant" (docs/agent.md), "a refusal, not an eviction" (image_upload.go). *)
(* The limit is read before an upload, and nothing is reserved.            *)
ImagesWithinLimit == Cardinality(Stored) <= MaxImages

(* agent_followup.go: "a retry that reuses the same operation id also      *)
(* reuses the same UUID and cannot post the message twice".  No part of an *)
(* operation is posted when the same content was posted for it before.     *)
SamePost(v, w) == [v EXCEPT !.at = 0] = [w EXCEPT !.at = 0]

FollowUpPostsOnce ==
    [][\A h \in Handles, part \in Parts :
          posted'[<<h, part>>] # posted[<<h, part>>] =>
              \A g \in Handles : ~SamePost(posted[<<g, part>>], posted'[<<h, part>>])
      ]_conversationVars

=============================================================================
