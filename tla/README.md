# feishu-botd in TLA+

feishu-botd is a daemon between a Feishu (Lark) tenant and local programs. It
receives messages, card actions and reactions over a long connection per Feishu
app, hands them to *providers* that subscribe over gRPC, and carries out what
providers ask for in return: a streaming card that answers a message, follow-up
messages, image uploads, reactions, and plain notifications. Providers are
separate processes that may retry anything; Feishu may lose, delay or repeat
anything; the daemon keeps its state in memory, except for a small file that
says which provider wrote which message.

This directory models what is hard to get right in it: what the daemon may
conclude from Feishu calls whose outcome it does not know, what it may forget and
when, who may see and do what, and what survives a crash or a stop.

## Inventory

### Components, their state and their operations

| Component | Source (`internal/`) | State | Operations |
| --- | --- | --- | --- |
| Inbound routing | `service/command.go`, `service/agent.go` | `inboundRouteRegistry` (delivery ids and messages with expiry), subscriptions and their channels, deliveries of both brokers, seen messages, conversations | `DispatchCommand`, subscribe, unsubscribe |
| Agent delivery claim | `service/agent.go` | `agentDelivery`: claim, card, send ambiguity, state, expiry, under `delivery.mu` | `StartAgentResponse` |
| Agent response lifecycle | `service/agent.go`, `agent_replace.go`, `agent_card.go` | `agentResponse`: revision, phase, shown texts, sequence, operations, under `response.mu` | `UpdateAgentResponse`, `FinishAgentResponse`, `ReplaceAgentResponse` |
| Legacy command responses | `service/command.go` | `commandDelivery.state` | `RespondCommand` |
| Notifications, dedupe store | `service/notify.go`, `dedupe/store.go` | entries per source and key, in flight or done, with expiry | `SendNotification`, `SendMessage` |
| Conversation follow-ups | `service/agent_followup.go` | `agentConversationRoute`: app, target, grants, operations | `SendAgentFollowUp` |
| Ordinary sender | `feishu/sender.go` | none; inner retries under one UUID | `Send` |
| Ownership store | `ownership/store.go` | map in memory, snapshot on disk | `Put`, `Lookup`, `Open` |
| Image upload | `service/image_upload.go` | ledger of uploads per delivery or conversation | `UploadAgentImage` |
| CoT progress, reactions | `service/agent_cot.go`, `agent_reaction.go`, `agent_freeform_reaction.go` | per response: CoT id and steps, reaction ids | best-effort side calls of Start, Update, Finish; `AddAgentReaction` |
| Card actions, reactions in | `service/agent.go` | `seenActions`, `seenReactions` | `DispatchAgentCardAction`, `DispatchAgentMessageReaction` |
| Receiver, health, lifecycle | `feishu/receiver.go`, `service/health.go`, `cmd/feishu-botd` | connection state per app | connect, drop, readiness, shutdown |
| Attached context | `feishu/attached_context.go`, `grpcapi/attached_context.go` | none; one listing per request | `GetAgentAttachedContext` |
| Script executor | `scriptexec/executor.go`, `cmd/feishu-botd` | running scripts | run, reply |
| API, authorisation, configuration | `grpcapi`, `httpapi`, `config` | none that changes | request checks and conversion |

`PROJECT.json` lists every component with the modules that cover it, including
those that are not modelled and why.

### How they interact

    Feishu event -> receiver -> DispatchCommand
        routes.mu { commandBroker.mu { dispatch } ; agentBroker.mu { dispatch } }
            -> channel of a subscription -> gRPC stream -> provider
    provider -> StartAgentResponse
        routes.mu { agentBroker.mu { look up and pin } }
        delivery.mu { CreateCard ; CoT ; SendCard ; register ; ownership.Put }
    provider -> Update | Finish | Replace
        response.mu { begin ; content ; timeline ; header ; settings ; commit }

    provider -> SendAgentFollowUp | UploadAgentImage
        route.mu { claim } ; Feishu ; route.mu { commit or release }
    caller -> SendNotification, RespondCommand
        dedupe { reserve } ; Send ; dedupe { commit or free }

The locks are taken in this order.  Of the Feishu calls, those for a card are
made under `delivery.mu` or `response.mu`, so one slow call blocks one delivery
or one response and nothing else; the others are made under no lock.

### What is hard

* A Feishu call ends in one of four ways: success, definitive rejection,
  definitive *temporary* rejection (429, 230020, 200810), or doubt (transport
  error, 5xx, 300120) -- and a call in doubt may have been applied, may be lost,
  or may still be on its way.
* An operation is several such calls, and may be left after any of them.
* Feishu forgets a message UUID an hour after it accepted it.
* The same message is remembered in four maps with expiries of their own.
* Callers queue for a mutex with decisions made before they began to wait, and
  follow-ups, uploads and notices make their calls with no lock at all.
* The one file the daemon writes is replaced in steps, any of which may be the
  last before a crash.
* Several bots of one group see each message and decide apart from each other.
* Receivers, listeners and the signal end in any order, and the first to report
  decides how the process exits.

`PROJECT.json` lists these, line by line, as hazards, with the properties that
would catch each; a hazard that no property covers says so.

## Modules

| Module | Models |
| --- | --- |
| `AgentResponse` | one response after Start, and its Feishu card |
| `RevisionLog` | its abstraction: a compare-and-swap register with receipts |
| `AgentStart` | the concurrent Starts of one delivery, with a clock |
| `SingleAnswer` | its abstraction: one card, one request answered |
| `Progress` | CoT message and reactions around a response |
| `Conversation` | a conversation's route, follow-ups and uploads, with a clock |
| `OrdinarySend` | one call of the ordinary sender |
| `MessageSend` | its abstraction, which `Conversation` relies on |
| `Notices` | notifications and legacy responses over the dedupe store, with a clock |
| `OwnershipStore` | the owners of messages in memory and on disk, with a clock |
| `Inbound` | which receiver takes a message, and for whom |
| `Ingress` | routing of events to streams, with a clock |
| `CardEvents` | clicks and reactions on cards, with a clock |
| `AttachedContext` | the snapshot of a topic |
| `Configuration` | what the configuration loader accepts (operators only) |
| `Access` | who may call what, under a configuration |
| `Lifecycle` | the process: receivers, listeners, signal, scripts |
| `Readiness` | readiness checks and what senders remember, with a clock |
| `Clock` | the clock of those that have one |
| `MCAgentResponse`, `MCAgentStart`, `MCIngress` | instances of single modules |
| `MCAgent`, `MCState`, `MCEdge`, `MCLive` | instances that run several modules |
| `AgentResponseProofs`, `AgentStartProofs`, `ConversationProofs`, `ProgressProofs` | theorems about the module they are named after |
| `ContextProofs` | theorems about `AttachedContext` |
| `StoreProofs` | theorems about `Notices`, `OwnershipStore` and `OrdinarySend` |
| `IngressProofs` | theorems about `Ingress`, `Inbound`, `CardEvents` and `Access` |
| `LifecycleProofs` | theorems about `Lifecycle` and `Readiness` |

The components touch where the table of interactions says, and each module
takes the others reduced to that interface: Inbound hands on what Ingress
dispatches; Ingress creates the delivery AgentStart begins with; AgentStart
registers the response AgentResponse begins with, and its pin is an action
(`Start`) of Ingress as well; Conversation sends as MessageSend promises, which
OrdinarySend implements; the ownership write of a Start is one step there and
the steps of `Put` in OwnershipStore; CardEvents has the recording of responses
and owners as two steps that come some time after the card.

Because they share nothing else but the clock, several are explored in one run:
a variable `part`, chosen in the initial state, says which one moves, while the
others rest in one state each. A behaviour of such a run is a behaviour of the
part's own specification and nothing less is explored.

Definitions whose comment begins "Mutation of" are not used by the
specifications. Each is a plausible bug in the definition it names; replacing
the one by the other must make a property fail, which shows that the property
depends on the code.

### AgentResponse

Each RPC holds `response.mu` to its end, so at most one operation is at work;
`caller` is that operation. `Begin` is `beginOperation` or
`beginTerminalOperation` together with the freezing of the plan that follows it
under the same lock: the list of calls the operation will make and the
sequence before the first. The fields `contentSeq`, `timelineSeq`, `panelSeq`
and `settingsSeq` of an operation are then `base + 1`, `base + 2`, ... of its
list of calls, and `contentDone` and the rest are the number `done`. Each
Feishu call is an action of its own -- `CallSucceeds`, `CallRejected`,
`CallDeferred`, `CallInDoubt` -- because Feishu and late arrivals can act
between them; `Commit` is the rest of the handler. `Resume` is the retry of an
incomplete operation. The requests that are refused before anything changes
(conflicts, stale revisions, closed responses) change nothing and are no steps.

Feishu is the card (`card`, with its own sequence and streaming mode), the
UUIDs it has applied, and the requests under way (`network`). It takes a call
once per UUID, only above its last sequence, and streaming content only while
streaming mode is on. This is what the code relies on (`feishu/cardkit.go` and
the comments in `agent.go`), and it is external.

Texts are values with a weight; a UUID is the pair (kind of call, operation)
that seeds its hash; the button payloads, the summary and the CoT steps of a
request are not looked at.

### AgentStart

A caller is `idle`, has pinned the delivery and `waits` for its mutex, or holds
it and is `creating` the card, `sending` it, or `answering` (writing the owner
to disk). The clock is discrete. `Tick` may not pass the deadline of a call
under way nor the deadline after which a request no longer reaches Feishu, and
does not run while the mutex is free and someone waits for it: the daemon's own
steps take no time. That is the one timing assumption, and with it the guard of
`messageRetryWindowExhausted` is what keeps a second card out. The assumption on
the constants is the check of `config.Load` on the dedupe TTL, and that a
request is its provider, its operation id and its content (the fingerprint).

The message endpoint remembers the UUID of a response for `Window` after it
accepted it and then takes it as new. The claim (`claim`, `responseID`,
`state`, `carded`, `ambiguousAt`, `retryClosed`) is the corresponding part of
`agentDelivery`; `sendRetryCode` is left out, as it only selects the error
text. The delivery is one that two providers received.

### Ingress

`DispatchLegacy`, `DispatchAgent` and `DispatchHandled` are the three outcomes
of `dispatchInboundRoute` that change something, each one step, since it holds
the routes mutex throughout and the brokers' mutexes one after the other.
`Takers` is the nondeterminism of Go's map iteration: for each provider, some
one stream with room takes the event. The input of a dispatch is an event whose
conversation, command, agent-only flag and owner are already computed. `taken`
is a history variable: it records who took a message, and for how long that is
promised to last.

### Progress

`Start`, `Update`, `Finish` and `React` are what StartAgentResponse,
UpdateAgentResponse, FinishAgentResponse and AddAgentReaction do beside the
card. `cot` is `agentCoTState`: the message's id and the steps the daemon
believes reported; `worn` is the working reaction, `chosen` the reactions by
operation id. On Feishu's side, `streams` are the CoT messages and their events,
`shown` the reactions. A request ends "ok", "failed", or in "doubt", when it is
either lost (`missed` keeps its events) or joins `underway` and arrives later
(`LateRequest`). Every Start makes a fresh CoT, as in the code; a Start that
fails leaves one behind. The branch of `agent_cot.go` that opens a CoT at an
update is never reached, since every Start tries, and is left out.

### Conversation

`route` is `agentConversationRoute`: app, expiry, the grants of providers, the
ledger of follow-ups and that of images. `Record`, `Refresh` and a change of app
are what a delivered event does to it; of the events on cards, a card action
renews a grant (`Refresh`) and a reaction does not. A follow-up begins new (`BeginNew`),
begins again under the handle of an earlier attempt (`BeginAgain`), or is closed
for good because its first doubt is older than the retry window
(`FollowUpRefused`). After that it holds no lock: its messages reach Feishu
(`Arrive`) in turn, each under a UUID made of handle and index, until it
succeeds or fails -- definitively, when the record is deleted, or in doubt,
when it is kept with `ambiguousAt`. An upload reads the ledger
(`BeginUpload`), calls Feishu, and writes the ledger (`Uploaded`), where the
first of two under one id wins. The limit is looked at in `BeginUpload` alone,
and no place is reserved. `posted` and `handed` are Feishu's memory of UUIDs and the
image keys callers got. Operations are filed under their id, or under provider
and id when another provider has it, as `followUpLedgerKey` does.

### OrdinarySend

One call of `ChannelSender.Send`: `message` of `messages`, up to `Attempts`
tries with pauses, a fallback to plain text for a rich text that Feishu does
not take, and the error of the last try. `reached` says that the present
message got through although the daemon may not know. `MessageSend` is what
callers see: messages in turn, success means all, an error says nothing.

### Notices

`entries` is the dedupe store, `commands` the broker's deliveries, `sending` the
calls between reservation and result. `Notify` and `Respond` reserve, `NoticeSent`
commits, `NoticeFails` frees the key; `RespondAgain` is the retry of a
response that was delivered. `DispatchLegacy` recreates a delivery whose entry
expired. The dedupe key of a response is its delivery. A delivery and its
reservation change in one step, as no call waits for one and reads the other
in between; the send itself holds no lock. `told` is what callers were told.
Nothing is assumed about the dedupe TTL and the send timeout: `config.Load`
compares them only when there are agent providers. A send that is longer than
the TTL outlives its own reservation, and `overran` is a history variable that
names the keys under which that has happened.

### OwnershipStore

`Put` changes the map and starts `persistLocked`, whose steps are `Rename` (the
temporary file is written and synced, then replaces the snapshot) and `Synced`
(the directory is synced and the caller is told, `acked`); `PersistFails` is
an error at either. `Stop` ends the process, or the machine, in which case
the file falls back to any content that is `durable`: the last one synced or a
later one. `Open` loads the file if it fits in what `load` reads, and refuses
to start otherwise. A message has one owner, so an owner is its expiry. The wall
clock is assumed not to be set back.

### Inbound

Every bot of a chat receives a message. `Understood` is `CommandFromEvent`:
direct chat, mention of the bot (by id if the app knows it, by name otherwise),
or a reply; `Receive` is `DispatchCommand` up to the route: the owner of the
parent, the agent-only flag, and whom the message may be shown to. `handed`
holds the result until it is dispatched. Ids, names and texts of the event are
input.

### CardEvents

`ShowCard`, `KeepResponse` and `KeepOwner` are the three moments of a Start
that matter to events: the card can be clicked, the response is in memory, the
owner on disk. `Click` is `DispatchInboundCardAction` and the broker's dispatch,
`React` that of a reaction; each passes an event to the oldest stream of the
author that asks for it and has room. `passed` is `seenActions` and
`seenReactions`; a full buffer is not remembered as seen. `brought` is what
providers got, with the time.

### AttachedContext

`Ask` checks the request; `AskTrigger` fetches the message itself; `ListPage`
is one page of the listing, with the boundary, message and scan limits at
the places where the code has them; `Assemble` goes through the collected
messages oldest first and fetches images and videos, each of which may fail,
and counts every limit; `SendChunk` and `EndStream` are the frames of the gRPC
stream. Meanwhile people write (`Post`) and take back (`Recall`). Texts, images
and videos are sizes; parsing yields them. A file whose type the first bytes
tell is not empty, and the messages of a topic are in the order of their times:
both are assumptions on the constants. `Fetched` is one loop over the files of a
message; that over images and that over videos differ in limits and issues only.

### Configuration and Access

`Accepted` is `LoadFromEnv`: precedence of the environment, apps, channels,
routes, listeners, tokens, providers, TTLs. `Access` loads a configuration
(`Load`) and answers one call at a time, following the code's checks in their
order: listener and interceptors (`GeneralAuth`), identity (`Principals`),
handler, grants and scopes (`InScope`), and for HTTP its own token check; the
target of a notification is resolved by `ChannelFor`. `ServedAsGranted` does
not use these operators: it says from the configuration alone who should get
through.

### Lifecycle

`stage` is the place of `run`: preflight of each app, opening of the store,
waiting for the receivers, serving, closing, exited. Each receiver has its
state (`conn`) and two threads that report it after releasing the lock
(`telling`, `SetConnectionState`, `TellConnectionState`), and a goroutine around
it (`Wrapped`) that puts results on the channels `startup` and `component`,
which `run` reads. Listeners bind, serve, break and stop. A command for a script
comes in through a receiver that is connected (`ScriptCommand`) and is taken up
by the executor (`RunScript`), which then runs on a background context; its
reply is late when it was taken up after the cancellation. The end of the process
loses a script that is running. Timers are not counted: what one ends may end at
any moment.

### Readiness

A `Probe` asks every sender for its credentials within one deadline: it recalls
what the sender remembers (`Recall`) or asks Feishu (`Ask`, and then the sender
remembers the answer even if the probe has been abandoned), and reads the
connection states at the end (`Verdict`). `acceptedLast` is when Feishu last
accepted credentials.

## Runs

| Run | Question | Expected |
| --- | --- | --- |
| `agent` | cards, receipts, claims and answers under all call outcomes | holds |
| `state` | what the daemon keeps in memory, on disk and in flight | holds |
| `edge` | what comes in, from whom, and to whom it goes | holds |
| `live` | what must happen in the end | holds |
| `response_reuse` | may a released operation id be reused? | violated |
| `response_retry` | is a completed operation's retry answered? | violated |
| `start_cot` | one CoT message per response? | violated |
| `edge_route` | is a route sticky? | violated |
| `edge_context` | does every limit leave an issue? | violated |
| `state_followup` | is a follow-up posted once? | violated |
| `state_ownership` | can a store of live owners be opened again? | violated |
| `state_scripts` | does a script in flight at shutdown reply? | violated |

### Bounds

The bounds let the interesting cases happen.

* `agent`. Three operations -- an update that fails half way, the operation
  planned against what it left, and one behind a finish -- with two texts, of
  which the longer fills the card when it is both answer and timeline, and
  expected revisions to 3. `MaxSequence` is above the twelve calls these can
  make, and is a bound of the model only. Two callers with three requests; the
  clock passes the whole retry window (3, with calls of 1) and the expiry that a
  pin at its beginning reaches.
* `state`. Everywhere two calls side by side, lifetimes of one to three units
  and a clock that passes the expiry of what was written last. Two messages with
  owners and room for one in the snapshot. Two agents with one follow-up operation
  id between them, contents of one message and of two, two images where one is
  allowed, two handles. Two notices under one key and a response, with a dedupe
  TTL of 2 and a send timeout of 3, so that sends are shorter than their
  reservation, end with it and outlast it, and a clock that passes two of them one
  after the other. Contents of up to three messages with three attempts each.
  One step, two starts, two updates and one request that comes late. Two apps,
  one listener of each kind. Two readiness probes with memories of 3 and 1. The
  `state_...` runs have the same bounds, `state_scripts` with one app.
* `edge`. About seventy configurations, each of which differs in one thing
  from one that is accepted, with every method, bearer and claim. Two bots of one
  name, three chats and all messages with any mentions and parent. Two messages,
  three events and four streams with buffers of one, which fill up at once; a
  TTL of 2 and a pin of 1, as the default TTL is longer than the pin, with a clock
  that goes one unit past the expiry of what came first. A card
  and a message of a person, three card streams and five events. Topics of three
  to six messages with pages of four, a scan limit of five (no multiple of the
  page, as in the code) and a limit of two messages, and every kind of file that
  is refused.
* `live`. Two operations, one caller that repeats, one app.

`CONSTRAINT Explored` cuts combinations, not cases. In `MCState`, uploads and
follow-ups of a conversation are explored apart, since they touch only through
the lifetime of the route; grants date from one of two moments; of two receivers
at most one is in trouble; and an abandoned CoT has at most one event. In `MCEdge`
there are two cards, two delivered events and one recalled message at most. The
comments there say which. A state the constraint cuts is still checked; its
successors are not explored. Operation ids, callers and calls are
symmetric; `live` uses no symmetry and no constraint.

Deadlock is not checked: a response with no more ids, a clock at its bound, an
answered call, an exited process and a closed delivery may all stop.

### What they show

`agent`. Whatever is rejected, retried, abandoned half way or delivered late,
while the response streams the daemon's picture of the card is wrong at most in
the one part whose call is in doubt (`SnapshotAgrees`); the next call is one that
Feishu can take (`NextCallAcceptable`); a late call can write the card only if it
is the very call the pending operation is in doubt about (`LateCallsAreInDoubt`);
a card is closed only by a finish that has nothing else left to write
(`StreamingClosesLast`); a success means that the card shows the request
(`CommitShowsRequest`); doubt ends only with Feishu holding the call
(`DoubtEndsAtFeishu`); one operation is pending, against the present revision
(`PendingIsCurrent`), and the receipts are those of a register that moves by
compare-and-swap (`ImplementsLog`). Of a delivery, at most one card appears and
every success names it, for one request (`ImplementsSingleAnswer`); a card in the
chat, or one that may still appear, is that of the present claim
(`ClaimCoversSends`); the claim is pruned before its retry is refused by no more
than one timeout for each Start beyond two, so not at all with the two of this run
(`PrunedNoEarlier`); what is on disk, what providers were told and what
the chat shows agree (`OwnersMatch`); a closed claim stays closed
(`ClosedIsFinal`).

`state`. An owner that a caller was told of is there until it expires, through
failed writes, crashes and power loss at any step (`AckedOwnersSurvive`). A
follow-up or upload finds its route and its own record when it returns, however
long it took (`CallsOwnTheirRecords`); a completed follow-up has all its messages
in the chat (`CompleteIsPosted`); concurrent uploads under one operation id hand out
one key (`OneKeyPerUpload`; the limit on them is another matter, see
`ImagesWithinLimit` below). A delivery that responds has a sender and one that has responded
was sent (`DeliveriesFollowSends`). As long as no send under a key has outlasted
its reservation, one call at a time sends under it (`SendersOwnTheirKeys`), and
within the TTL of a success no other content is reported under it
(`OneContentPerKey`). The sender keeps `MessageSend`
(`KeepsPromise`). A CoT message repeats no event and misses none that was not
lost, and the working reaction goes with the work (`ProgressIsFaithful`). The
process exits with success only on a signal (`CleanExitOnlyOnSignal`), listens
only when every app has connected once and the service no longer takes any of
them to be starting (`ListensOnceReported`; that it takes one to be connected
which is not is hazard H31, and not excluded), and says that it is ready only on recent evidence (`ReadinessIsRecent`).

`edge`. A call that gets through was granted by the configuration, for the app
and chat it acts on (`ServedAsGranted`; that whatever is granted gets through is
not claimed). A group's message goes to the bots it
is addressed to, and what is said to an agent's card to that agent alone
(`OnlyAddressed`). A message that legacy consumers took, and no agent before
them, goes nowhere else (`LegacyRouteSticks`); an agent does not get a message
twice (`AgentTakesOnce`); a provider that got one can start a response to it for
the whole lifetime, though it can read the topic for ten minutes only
(`ReceiverCanStart` is about the first); the messages of one conversation held by
agents came through one app (`OneAppPerConversation`). A click or reaction goes
to the author of the card, once (`EventsReachAuthor`). A snapshot ends at its
trigger, leaves out nothing silently but for the scan limit, and the stream of
frames gives it back (`SnapshotIsFaithful`).

`live`. A pending operation resolves (`PendingResolves`), a claimed delivery is
answered or closed (`ClaimResolves`), and a daemon that is told to stop, or
loses a receiver, exits (`ShutdownCompletes`).

### Where code and documentation disagree

Eight runs end in a violation of something the repository says of itself; the
quotations are in `PROJECT.json`.

* `response_reuse`: the id of a rejected operation can be reused with other
  content, but Feishu still knows the UUIDs derived from it. A provider that
  follows the retry rules takes a new id; the code does not insist on it. With
  that rule kept, run `agent` shows the property to hold.
* `response_retry`: the size check comes before the lookup of the receipt, and
  depends on the timeline the card has now, so a completed operation's retry
  may be refused.
* `start_cot`: a retried Start opens a CoT message again.
* `edge_route`: a Start cuts the stickiness of its message's route down to
  the retry window; a redelivery after it can reach a legacy consumer. If one
  takes it, a further Start of the agent's delivery shortens that route as well,
  which is why `LegacyRouteSticks` speaks of messages no agent has taken.
* `edge_context`: when the scan limit is reached on the last page of a topic,
  messages are left out without an issue.
* `state_followup`: a follow-up of two messages whose second is rejected is
  forgotten, handle included; its retry posts the first again.
* `state_ownership`: expired owners stay in the snapshot until they are looked
  up, and a snapshot of more than 8 MiB keeps the daemon from starting.
* `state_scripts`: nothing waits for a running script at shutdown. In the run a
  connected receiver brings a command, its script runs, the daemon is told to stop
  and `run` returns before the reply.

In three more places the code does not do what the repository says. They have no
run of their own, as a passing property and a theorem say what does hold; the
broken promise is a definition of the module, and TLC refutes it in seconds when it
takes the place of the properties of the configuration named here.

* `ImagesWithinLimit` (`Conversation`; `INVARIANT` of `state.cfg`). "Server-owned
  limits are 5 MiB per image, 64 KiB per frame, and 16 images per delivery or
  conversation grant" (`docs/agent.md:422-424`), and `image_upload.go:21` calls the
  limit a ceiling. The images are counted before the upload
  (`image_upload.go:105`, `:181`, `:212`) and filed after it, with no lock or reservation in between, and
  `rememberUploadedImage` does not count again: two uploads of different
  operations are admitted with one place left, and both are filed. By how many
  the limit is passed is the theorem `OvershootIsBounded`.
* `KeysStayBound` (`Notices`; `PROPERTY` of `state.cfg`). "`source` + `dedupe_key`
  make every call idempotent" (`docs/ipc.md:115`), and other content is refused
  (`notify.go:138`). A reservation counts for the dedupe TTL from when it is made,
  and `Commit` and `Abort` find the entry by its key, whoever reserved it. With a
  TTL below the send timeout, which `config.Load` refuses only when there are agent
  providers (`config.go:402`), a send outlasts its reservation, another call takes
  the key for other content, the commit of the first marks the entry of the second
  as sent, and the second succeeds too. `SendersOwnTheirKeys` and
  `OneContentPerKey` say what holds before any send has been that long.
* `RetainedWhileRetryable` (`AgentStart`; `INVARIANT` of `start_cot.cfg` with three
  callers, `SYMMETRY StartSymmetry`, `SendTimeout = 2`, `Window = 4`, `TTL = 6`,
  `MaxTime = 10`, `MaxResponses = 1`, `MaxCoTs = 0`). A TTL of one hour plus the
  send timeout "retains an ambiguous Start claim through Feishu's one-hour IM
  message-UUID retry window" (`docs/agent.md:688-690`, `docs/ipc.md:384-386`). The
  pin of the delivery dates from the lookup before the wait for `delivery.mu`
  (`agent.go:693`), the window from the send after it (`agent.go:813`), and one send
  timeout is to spare. Two Starts that hold the mutex for a timeout each and fail
  to create a card, and a third that sends at the end of its own and is left in
  doubt: its delivery is pruned while a retry would still be accepted.
  `PrunedNoEarlier` says by how much at most.

## Fairness

`AgentResponse`: the holder of the mutex moves on, since every RPC runs under
`SendTimeout` (weak fairness of `Attempt`); the provider keeps retrying an
operation that is not answered, as `docs/agent.md` asks of it (strong fairness
of `Resume`, since the mutex comes and goes); Feishu does not refuse the same
call for now for ever (strong fairness of `CallSucceeds`). `AgentStart` assumes
the same of its holder, of Go's mutex (which is starvation free), of the
provider's repeated Start and of Feishu. Nothing is assumed about rejections,
doubts or late arrivals. `Lifecycle`: the goroutines of the process run -- `run`
itself, those around the receivers and listeners, and the callbacks -- with weak
fairness each; waits that a timer bounds end, which is part of the same
assumption. Nothing is asked of Feishu, the SDK, the scripts or the clients. The
liveness properties allow the outcomes that the code documents as ends: a
released operation, or one closed for the operator. The other modules have no
liveness property: their calls end by timeout, and nothing waits for them.

## Proofs

The eight `...Proofs` modules are checked by TLAPS. Their theorems hold for every
value of the constants that satisfies the assumption of the module
(`ResponseAssumption`, `StartAssumption`, and so on), so for any number of
operations, callers, messages, apps and streams and any times, where the runs
take a few. The assumptions are what `config.Load` checks wherever the module
applies (for the agents' modules, that the dedupe TTL covers the retry window and
the send timeout; nothing of that kind for `Notices`), finiteness where something
is counted, and that the special values are none of the ordinary ones. Two groups
of theorems have a hypothesis besides, stated in the theorem and argued for below:
the card (`~ReuseReleased`) and the addressing of messages. Each inductive invariant was first checked by TLC on an
instance of its module.

**AgentResponse.** `TypeCorrect` and `OneCurrentOperation`
(`[]PendingIsCurrent`) are proved together: the types of `applied` and
`operations` after a call need the call that the caller is about to make to
exist, which is known only of a pending operation, and that the pending
operation has a request needs the types. `ResponseImplementsLog` is the
refinement of `RevisionLog`: every step but `Commit` leaves the revision, the
phase and the receipts alone, and `Commit` is the register's compare-and-swap
because `PendingIsCurrent` carries the comparison made in `Begin` over all the
Feishu calls, failures and retries between the two.

The card has an invariant of its own, `CardInv`: it says where the card can
differ from what the daemon believes, which is where one call, the one in doubt,
has landed. A plan names no stage twice and closes the stream at its end
(`PlanIsKept`); the UUIDs of calls not yet made are new to Feishu, but for the
one in doubt (`UUIDsAreFresh`); the sequence of the card is the daemon's, plus
one if that call has landed, and whatever else is still on its way is behind it
(`SequencesAgree`); the card streams until the settings of a finish reach it
(`StreamsUntilClosed`); its parts are those of the snapshot, but for the landed
one (`CardFollows`); and what the operation no longer has to write is as it asks
(`Progressed`). Each is needed for the others: a late call is harmless because
its sequence is old, the sequence is known because only one call can have
landed, and that it has landed or not shows in its UUID alone.
`DoubtIsSettled` holds without a hypothesis. The others (`PictureIsTrue`,
`CallsAreTaken`, `LateCallsAreHarmless`, `FinishClosesLast`, `CommitsAreShown`)
assume `~ReuseReleased`: no provider sends new content under the id of an
operation that was rejected. The daemon does not enforce that, and the run
`response_reuse` shows what happens otherwise, so it is a hypothesis and no
assumption of the module.

**AgentStart.** `StartImplementsSingleAnswer`, and with it `ClaimCovers`,
`OwnersAreAnswered`, `ClosedIsForGood` and `TypeCorrect`, follow from one
inductive invariant, `IInv` of `AgentStartProofs`: one caller past the mutex
(`Exclusive`), the fields of a claim fit its state (`ClaimShape`), a caller at
work makes the attempt of the claim and ends in time (`HoldersFit`), Feishu has
seen the claimed response alone (`OneTrace`), and the argument of time
(`WindowHolds`). That one says: nothing was accepted before the first attempt in
doubt began, and every call under way ends before the window that begins there;
so Feishu still remembers the UUID of anything it is asked to take again. The
one exception is a first attempt longer than the window, which is alone, since
no retry of it is allowed. A single card is not inductive without this: it is
true of each state and says nothing of what is on its way.

`ClaimOutlastsQueue` (`[]PrunedNoEarlier`) says for any number of concurrent Starts
how long a claim is there for its retry. The pin is dated when a caller looks the
delivery up, and the window from the attempt; the wait for `delivery.mu` lies in
between. `RetainInv` follows the queue: from when the mutex will be free at the
latest, each waiting caller holds it for a timeout at most and then claims for a
window; the pin of the last to look the delivery up, with one timeout for every
Start there is, covers that. The pin itself has one timeout to spare and a holder
has one of its own, so two Starts never lose a claim, and each further one can
cost a timeout. With three it does, as TLC finds (`RetainedWhileRetryable`, above).

**Ingress.** `IInv` of `IngressProofs` says which of the four maps, each with
expiries of its own, outlast what a message's taker was promised: those of the
agent broker, for a message an agent holds (`AgentsHold`: the delivery, the
memory of the message, the conversation and its app), and the route registry
for a message that only legacy consumers took (`RoutesHold`). From the first
follow `ReceiversCanStart`, `OneAppHolds` and `AgentsTakeOnce`, from the second
`LegacyRoutesStick`. `PromisesBounded` is needed because a refresh or a further
record sets an expiry without looking at the one it replaces.

**Inbound.** `OnlyAddressedTake` is decided at the step that hands a message on,
so it needs no history; its argument is the case analysis of how a bot recognises
itself, by id, by name or by the message replied to. It assumes that a bot
without an id of its own is configured with no name but the one it has: names of
other bots in its configuration make it take what is addressed to them, as one
would expect. `InboundTypes` is the type invariant.

**CardEvents.** `CardEventsReachAuthor`: whom an event goes to is decided by what
never changes, the author and the app of its card (`BroughtToAuthor`); and the
memory of an event lasts for the TTL from each time it was brought
(`SeenMatchesBrought`), so that it is not brought again before (`BroughtOnce`), in
spite of full streams, reconnections and the gap between a card and the records
of its response and owner. A click is told that it arrived only if it did, now or
before (`ReplyIsTrue`). `CardTypes` adds that no channel is filled beyond its
size, no stream is open twice, and an owner is recorded of a posted card only,
which needs that a response in memory is of one, too.

**Access.** `GrantsAreKept`: the configuration in force has passed the loader
(`LoadedIsAccepted`); what is served was decided under it. The theorem is the
agreement of four layers -- listener, token, grant, app or holder -- for every
accepted configuration, where the run has a few.

**Conversation.** The route outlives every call on it (`RouteHeld`), because
beginning one extends the expiry past its deadline; the ledger is well formed
(`LedgerFits`: records complete, one key per provider and id, no handle twice);
what is posted under a handle is the content of the record that has it
(`PostsFit`); and a call under way has a pending record of its own whose messages
so far are posted (`CallsFit`). None is inductive without the others: that a commit
finds its record needs distinct handles, and that no handle is reused needs the
ledger's form. `RecordsAreOwned` and `CompletionIsPosted` follow, and with the
keys handed out (`ImagesFit`) `UploadsKeepOneKey`. The limit on images is not kept
(`ImagesWithinLimit`, above); `OvershootIsBounded` says by how little: by fewer images than
there are calls. It needs a count (`ImagesCounted`): stored images and the
uploads that began below the limit are together no more than the limit and the
other calls.

**Notices.** A send ends by its deadline, and its reservation was made when it
began, unless another has taken the key over meanwhile (`SendsAreTimed`). So until
a send under a key outlasts its reservation -- which the theorems do not exclude
but name, by `overran` -- the committed entry is the one that was reserved
(`KeysAreOwned`), and what was reported sent stays on file for the TTL
(`SentIsOnFile`, which gives `ContentsKeepApart`). A responding delivery has its
sender (`DeliveriesAreFollowed`), overrun or not. With a TTL that is not below the
timeout no key ever gets into `overran`, and both hold of every key.

**OwnershipStore.** No owner lasts longer than one put now (`NoneTooLate`), a
snapshot is written only by an open store and a renamed one is what is in memory
(`WrittenByOpen`); with these `AckedOwnersSurvive` is inductive: each snapshot
that a loss of power may leave behind keeps what was acknowledged.

**Progress.** `ProgressReachesReader` is proved for any number of steps. What the
daemon knows of a CoT message is the set of events that are due. Every one of
them is in the message or missed, and one that is still under way is missed
(`Accounted`); what is in the message and in each request under way does not
overlap (`NothingTwice`); only the end of the response closes it (`ClosedBy`).
Due events only grow, and an update sends those that were not due before: so
nothing is sent twice, whatever is lost or late. The events of an update are
computed by going through the steps, so that they are exactly the new ones, each
once and a start before its end (`StepEventsTold`), is shown by induction over
the number of steps. The library's induction theorems take a predicate and cannot
be instantiated here; `SetInduction` says the same of a set of numbers and follows
from the library's well-foundedness of the naturals. It also gives the existence
of the recursive function by which `FlattenSeq` is defined (`JoinsExist`).

**OrdinarySend.** `SendKeepsPromise` is the refinement of `MessageSend`. What it
needs is that what Feishu has taken is the messages before the present one,
with that one or without (`TakenInTurn`).

**Lifecycle.** `CleanExits`: before the servers are closed, `runCtx` is done, and
a component's clean end is on the channel, only after the signal
(`StopsAreTold`). `ListenersWait`: the results `run` has read and those on the
channel are as many as the wrappers past their first report, and the FALSE of one
that did not connect is among the unread; so when `run` has read as many as there
are apps, all TRUE, every receiver has connected, and the report was made
before. `LifeTypes` says that no goroutine blocks on its result, although `run`
stops reading when it leaves: what is on a channel is no more than those that
have sent. For `startup` these are the wrappers past their first report; for
`component`, the wrappers that ended and the listeners that stopped
(`EndsAreCounted`), each of which sends once. The capacity in `main.go` is the
number of apps and four; that there are at most two listeners of each kind is an
assumption of the module, and the code has no more.

**Readiness.** `ReadinessIsFounded`: what a sender remembers is bounded by the last
time Feishu accepted its credentials, whichever of the overlapping checks wrote it
last (`MemoryIsBounded`); a check under way has, of each app that it has heard of,
an answer from its own time or one that was remembered when it began
(`ChecksAreCurrent`); so the verdict is bounded by both (`VerdictIsFounded`).
`ReadinessTypes` is the type invariant.

**AttachedContext.** `SnapshotFaithful` is proved for any topic, any page size and
any limits. While the topic is listed, the candidates are a run of positions that
ends with the trigger (`EndWithTrigger`), and the next page begins where they
begin, or not before the trigger while that has not been found (`ListingFits`):
this is what makes pages that shift under new messages harmless, since positions
do not move and messages of a later second come last (`LateLast`). The run needs
the arithmetic of a page, of the message limit and of the scan limit, which may
each end it first; `PageFits` is that case analysis. What had been recalled when the
context was asked for is known to be gone for every candidate (`GoneFits`); the
rows of the snapshot are those of positions before the remaining candidates, in
order and no more than fit (`RowsFit`); and the bytes and numbers of what is
carried never exceed what was tried or the limits (`LimitsKept`). That nothing is
left out silently is `WholeOrTold`: either something says so, or each message
that was gone through is in the snapshot in full. It covers the scan limit by the
number scanned, as the code may stop there without an issue -- the run
`edge_context` shows that. Last, the stream (`StreamFits`): every file up to that
of the last frame has its frames one after the other, each offset the sum of the
bytes before it, and only the last file may be unfinished; so a stream that is
complete has all of every file (`Reassembles`).

The sums and concatenations are folds of the library, and what a fold yields for
a sequence of unknown length is shown by `SetInduction` again: that its recursive
function exists (`BytesExist`, `FetchesExist`), what one more element adds
(`BytesAppend`, `FetchedUpTo`), and what it comes to in the end (`BytesJoin`,
`Joined`, `FetchedFits`).

Only model-checked: the liveness properties under fairness, which are out of this
prover's reach, as is `ENABLED`. `StateTypeOK` and `EdgeTypeOK` are conjunctions
over the parts of their runs, and hold of the instances only; each conjunct is a
theorem of its part for every value of the constants (`OwnershipTypeCorrect`,
`ConversationTypeCorrect`, `NoticesTypeCorrect`, `SendTypeCorrect`,
`ProgressTypes`, `LifeTypes`, `ReadinessTypes`; `AccessTypes`, `InboundTypes`,
`TypeCorrect`, `CardTypes`, `ContextTypes`).

## Not modelled

* Message text, card JSON, hashing: a text is a value, a hash is injective.
  Validation, formats, file modes and paths.
* `waitForMutation`'s rate clock: a wait cut short by its caller is the same
  step as a deferred call.
* Restarts, except in `OwnershipStore`: they lose all other state, as the
  repository documents, and leave cards streaming; the hazard is listed without a
  property, since the code promises nothing about it.
* `randomOpaqueID`: ids do not repeat.
* Feishu's treatment of one emoji used both as working and as chosen reaction.
* The extraction of ids and metadata from events in the receiver; display names.
* The output, exit status and process group of scripts.
* The chat title cache and log redaction, on which nothing depends; generated
  code; the example agent.

## Plan

1. The ledger of a delivery's images, which is now taken to be the conversation's,
   as an instance of its own with the pin of a delivery.
2. A restart of the daemon in `AgentStart` and `AgentResponse`, should the code
   come to promise something about the cards that are left streaming.
3. A cleanup of expired owners in `OwnershipStore`, and the promise of an id that
   cannot be reused in `AgentResponse`, should the code gain them: the theorems
   about the card would then need no hypothesis.
