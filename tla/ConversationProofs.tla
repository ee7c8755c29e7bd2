-------------------------- MODULE ConversationProofs --------------------------
(***************************************************************************)
(* Theorems about Conversation for any number of calls, providers,         *)
(* operations and contents, and all times that config.Load accepts.        *)
(***************************************************************************)
EXTENDS Conversation, FiniteSetTheorems, TLAPS

USE ConversationAssumption

(* KeyOf for any ledger of operations.                                     *)
KeyIn(ops, p, op) ==
    IF ops[<<p, op>>] = NoRecord /\ ops[<<Nothing, op>>].provider \in {p, Nothing}
    THEN <<Nothing, op>>
    ELSE <<p, op>>

KeysOf(p, op) == {<<Nothing, op>>, <<p, op>>}

(* A ledger: records are complete, a provider's operation is filed once    *)
(* and under a key of its own, and no two records share a handle.          *)
Proper(ops, n) ==
    \A k \in Keys : ops[k] # NoRecord =>
        /\ ops[k].provider \in Agents /\ ops[k].content \in Contents
        /\ ops[k].handle \in 1..n /\ ops[k].state \in {"open", "pending", "complete"}

Placed(ops) ==
    \A p \in Agents, op \in FollowUpOps :
        /\ ops[<<p, op>>].provider \in {p, Nothing}
        /\ ops[<<p, op>>] # NoRecord => ops[<<Nothing, op>>].provider # p

Apart(ops) ==
    \A k, l \in Keys :
        ops[k] # NoRecord /\ ops[l] # NoRecord /\ ops[k].handle = ops[l].handle => k = l

LedgerFits(ops, n) ==
    ops \in [Keys -> RecordType] /\ Proper(ops, n) /\ Placed(ops) /\ Apart(ops)

(* What Feishu has posted under a handle is what the record with it says.  *)
PostsFit(ops, ps, n) ==
    /\ \A h \in Handles, part \in Parts : h > n => ps[<<h, part>>] = NotPosted
    /\ \A k \in Keys : ops[k] # NoRecord => \A part \in Parts :
          ps[<<ops[k].handle, part>>].at # 0 =>
              ps[<<ops[k].handle, part>>].content = ops[k].content
    /\ \A k \in Keys : ops[k].state = "complete" => \A part \in 1..PartsOf[ops[k].content] :
          ps[<<ops[k].handle, part>>].content = ops[k].content

(* A follow-up under way holds a pending record, and has posted the parts  *)
(* it says it has sent.                                                    *)
Held(ops, k, cl) ==
    /\ ops[k].provider = cl.provider /\ ops[k].content = cl.content
    /\ ops[k].handle = cl.handle /\ ops[k].state = "pending"

CallFits(cl, ops, ps) ==
    /\ cl.kind = "follow-up" =>
          /\ cl.provider \in Agents /\ cl.op \in FollowUpOps /\ cl.content \in Contents
          /\ cl.sent \in 0..PartsOf[cl.content]
          /\ \E k \in KeysOf(cl.provider, cl.op) : Held(ops, k, cl)
          /\ \A part \in 1..cl.sent : ps[<<cl.handle, part>>].content = cl.content
    /\ cl.kind # "follow-up" => cl.handle = 0
    /\ cl.kind = "upload" => cl.op \in ImageOps /\ cl.content \in Images

CallsFit ==
    /\ \A c \in Calls : CallFits(call[c], route.ops, posted)
    /\ \A c, d \in Calls : call[c].kind = "follow-up" /\ c # d => call[c].handle # call[d].handle

(* The route outlives every call that is under way.                        *)
RouteHeld ==
    \A c \in Calls : Busy(c) =>
        /\ route.app # Nothing
        /\ now <= call[c].deadline /\ call[c].deadline <= route.expiresAt

(* An operation's callers were given the key on file.                      *)
ImagesFit ==
    \A i \in ImageOps :
        /\ route.images[i] = NoImage => handed[i] = {}
        /\ route.images[i] # NoImage => /\ route.images[i].key \in 1..MaxHandles
                                       /\ handed[i] \subseteq {route.images[i].key}

(* The inductive invariant.                                                *)
IInv ==
    /\ ConversationTypeOK
    /\ LedgerFits(route.ops, handles)
    /\ PostsFit(route.ops, posted, handles)
    /\ CallsFit
    /\ RouteHeld
    /\ ImagesFit

-----------------------------------------------------------------------------
LEMMA PartsType ==
    ASSUME NEW c \in Contents
    PROVE  PartsOf[c] \in Nat \ {0} /\ 1..PartsOf[c] \subseteq Parts
<1> DEFINE S == {PartsOf[d] : d \in Contents}
           Longest(n) == n \in S /\ \A d \in Contents : PartsOf[d] <= n
<1>1. \E n \in S : \A d \in Contents : PartsOf[d] <= n
  OBVIOUS
<1>2. (CHOOSE n \in S : \A d \in Contents : PartsOf[d] <= n) \in S
      /\ \A d \in Contents : PartsOf[d] <= (CHOOSE n \in S : \A e \in Contents : PartsOf[e] <= n)
  BY <1>1
<1> QED
  BY <1>2 DEF Parts

LEMMA KeyType ==
    ASSUME NEW ops, NEW p \in Agents, NEW op \in FollowUpOps
    PROVE  /\ KeyIn(ops, p, op) \in KeysOf(p, op)
           /\ KeysOf(p, op) \subseteq Keys
           /\ KeyOf(p, op) = KeyIn(route.ops, p, op)
           /\ KeyOf(p, op)' = KeyIn(route'.ops, p, op)
BY DEF KeyIn, KeysOf, Keys, KeyOf

(* A provider finds its record where it was filed, whatever others did     *)
(* with the key since.                                                     *)
LEMMA OwnKey ==
    ASSUME NEW ops, NEW n, LedgerFits(ops, n), NEW p \in Agents, NEW op \in FollowUpOps,
           NEW k \in KeysOf(p, op), ops[k].provider = p
    PROVE  KeyIn(ops, p, op) = k
<1>1. p # Nothing /\ <<p, op>> # <<Nothing, op>> /\ ops[k] # NoRecord
  BY DEF NoRecord
<1>2. CASE k = <<p, op>>
  BY <1>1, <1>2 DEF KeyIn
<1>3. CASE k = <<Nothing, op>>
  BY <1>1, <1>3 DEF KeyIn, LedgerFits, Placed
<1> QED
  BY <1>2, <1>3 DEF KeysOf

(* Filing a record of the provider, with the handle the key had or a new   *)
(* one, or clearing the key, keeps the ledger.                             *)
LEMMA FilingFits ==
    ASSUME NEW ops, NEW n \in Nat, NEW m \in Nat, n <= m, LedgerFits(ops, n),
           NEW p \in Agents, NEW op \in FollowUpOps, NEW r \in RecordType,
           r = NoRecord \/ /\ r.provider = p /\ r.content \in Contents
                           /\ r.state \in {"open", "pending", "complete"}
                           /\ \/ r.handle = m /\ m = n + 1
                              \/ /\ ops[KeyIn(ops, p, op)] # NoRecord
                                 /\ r.handle = ops[KeyIn(ops, p, op)].handle
    PROVE  LedgerFits([ops EXCEPT ![KeyIn(ops, p, op)] = r], m)
<1> DEFINE K    == KeyIn(ops, p, op)
           ops2 == [ops EXCEPT ![K] = r]
<1>1. K \in Keys /\ K \in {<<Nothing, op>>, <<p, op>>} /\ p # Nothing
  <2>1. K \in KeysOf(p, op) /\ KeysOf(p, op) \subseteq Keys
    BY KeyType
  <2> HIDE DEF K
  <2> QED
    BY <2>1 DEF KeysOf
<1>2. ops2 \in [Keys -> RecordType] /\ ops2[K] = r /\ \A k \in Keys \ {K} : ops2[k] = ops[k]
  BY <1>1 DEF LedgerFits
<1>3. K = <<p, op>> => ops[<<Nothing, op>>].provider # p
  BY <1>1 DEF KeyIn, LedgerFits, Placed
<1>4. K = <<Nothing, op>> => ops[<<p, op>>] = NoRecord
  BY <1>1 DEF KeyIn
<1> HIDE DEF K, ops2
<1>5. Proper(ops2, m)
  BY <1>1, <1>2 DEF Proper, LedgerFits, K
<1>6. Placed(ops2)
  <2> SUFFICES ASSUME NEW q \in Agents, NEW o \in FollowUpOps
               PROVE  /\ ops2[<<q, o>>].provider \in {q, Nothing}
                      /\ ops2[<<q, o>>] # NoRecord => ops2[<<Nothing, o>>].provider # q
    BY DEF Placed
  <2>1. /\ ops[<<q, o>>].provider \in {q, Nothing}
        /\ ops[<<q, o>>] # NoRecord => ops[<<Nothing, o>>].provider # q
    BY DEF LedgerFits, Placed
  <2>2. <<q, o>> \in Keys /\ <<Nothing, o>> \in Keys /\ q # Nothing
    BY DEF Keys
  <2>3. r.provider \in {p, Nothing}
    BY DEF NoRecord
  <2>4. CASE K = <<p, op>>
    <3>1. ops2[<<Nothing, o>>] = ops[<<Nothing, o>>]
      BY <2>4, <2>2, <1>1, <1>2
    <3> QED
      BY <2>4, <2>1, <2>2, <2>3, <3>1, <1>2, <1>3
  <2>5. CASE K = <<Nothing, op>>
    <3>1. ops2[<<q, o>>] = ops[<<q, o>>]
      BY <2>5, <2>2, <1>2
    <3> QED
      BY <2>5, <2>1, <2>2, <2>3, <3>1, <1>2, <1>4
  <2> QED
    BY <2>4, <2>5, <1>1
<1>7. Apart(ops2)
  <2>1. \A k \in Keys \ {K} : r # NoRecord /\ ops[k] # NoRecord => r.handle # ops[k].handle
    <3>1. \A k \in Keys : ops[k] # NoRecord => ops[k].handle \in 1..n
      BY DEF LedgerFits, Proper
    <3>2. \A k \in Keys \ {K} : ops[k] # NoRecord /\ ops[K] # NoRecord
              => ops[k].handle # ops[K].handle
      BY <1>1 DEF LedgerFits, Apart
    <3> QED
      BY <3>1, <3>2 DEF K
  <2> QED
    BY <1>1, <1>2, <2>1 DEF Apart, LedgerFits
<1> QED
  BY <1>2, <1>5, <1>6, <1>7 DEF LedgerFits, K, ops2

(* Filing a record on behalf of the call c: the ledger, the posts and the  *)
(* other calls still fit.                                                  *)
LEMMA FilingKeeps ==
    ASSUME IInv, NEW p \in Agents, NEW op \in FollowUpOps, NEW r \in RecordType,
           NEW m \in handles..MaxHandles, NEW c \in Calls,
           \/ r = NoRecord
           \/ /\ r.provider = p /\ r.content \in Contents
              /\ r.state = "pending" /\ r.handle = m /\ m = handles + 1
           \/ /\ r.provider = p /\ r.content \in Contents
              /\ r.state \in {"open", "pending", "complete"}
              /\ route.ops[KeyOf(p, op)] # NoRecord
              /\ r.handle = route.ops[KeyOf(p, op)].handle
              /\ r.content = route.ops[KeyOf(p, op)].content
              /\ r.state = "complete" => \A part \in 1..PartsOf[r.content] :
                                            posted[<<r.handle, part>>].content = r.content,
           \A d \in Calls \ {c} :
               call[d].kind = "follow-up" => ~Held(route.ops, KeyOf(p, op), call[d]),
           route'.ops = [route.ops EXCEPT ![KeyOf(p, op)] = r]
    PROVE  /\ LedgerFits(route'.ops, m)
           /\ PostsFit(route'.ops, posted, m)
           /\ \A d \in Calls \ {c} : CallFits(call[d], route'.ops, posted)
           /\ KeyOf(p, op) \in KeysOf(p, op) /\ route'.ops[KeyOf(p, op)] = r
<1> DEFINE K == KeyOf(p, op)
<1>1. K \in Keys /\ K \in KeysOf(p, op) /\ K = KeyIn(route.ops, p, op)
  BY KeyType
<1>2. handles \in Nat /\ m \in Nat /\ handles <= m /\ m <= MaxHandles
  BY DEF IInv, ConversationTypeOK
<1>3. LedgerFits(route.ops, handles)
  BY DEF IInv
<1> HIDE DEF K
<1>4. LedgerFits([route.ops EXCEPT ![K] = r], m)
  BY <1>1, <1>2, <1>3, FilingFits DEF K
<1>5. route'.ops[K] = r /\ \A k \in Keys \ {K} : route'.ops[k] = route.ops[k]
  BY <1>1, <1>3 DEF LedgerFits, K
<1>6. PostsFit(route'.ops, posted, m)
  <2>1. \A h \in Handles, part \in Parts : h > m => posted[<<h, part>>] = NotPosted
    BY <1>2 DEF IInv, PostsFit, Handles
  <2> SUFFICES ASSUME NEW k \in Keys
               PROVE  /\ route'.ops[k] # NoRecord => \A part \in Parts :
                            posted[<<route'.ops[k].handle, part>>].at # 0 =>
                              posted[<<route'.ops[k].handle, part>>].content = route'.ops[k].content
                      /\ route'.ops[k].state = "complete" =>
                            \A part \in 1..PartsOf[route'.ops[k].content] :
                              posted[<<route'.ops[k].handle, part>>].content = route'.ops[k].content
    BY <2>1 DEF PostsFit
  <2>2. CASE k # K
    BY <2>2, <1>5 DEF IInv, PostsFit
  <2>3. CASE k = K /\ r = NoRecord
    BY <2>3, <1>5 DEF NoRecord
  <2>4. CASE k = K /\ r.handle = handles + 1 /\ r.state = "pending"
    <3>1. handles + 1 \in Handles \/ m = handles
      BY <1>2 DEF Handles
    <3>2. m = handles => r.handle # m
      BY <2>4, <1>2
    <3>3. CASE handles + 1 \in Handles
      <4>1. \A part \in Parts : posted[<<r.handle, part>>].at = 0
        BY <2>4, <3>3, <1>2 DEF IInv, PostsFit, NotPosted
      <4> QED
        BY <2>4, <1>5, <4>1
    <3>4. CASE handles + 1 \notin Handles
      <4>1. m = handles /\ r # NoRecord
        BY <3>1, <3>4, <2>4 DEF NoRecord
      <4>2. r.handle = route.ops[K].handle /\ route.ops[K] # NoRecord
        BY <4>1, <1>2 DEF K
      <4>3. route.ops[K].handle \in 1..handles
        BY <4>2, <1>1, <1>3 DEF LedgerFits, Proper
      <4> QED
        BY <2>4, <4>2, <4>3, <1>2
    <3> QED
      BY <3>3, <3>4
  <2>5. CASE /\ k = K /\ route.ops[K] # NoRecord
             /\ r.handle = route.ops[K].handle /\ r.content = route.ops[K].content
             /\ r.state = "complete" => \A part \in 1..PartsOf[r.content] :
                                            posted[<<r.handle, part>>].content = r.content
    BY <2>5, <1>5 DEF IInv, PostsFit
  <2> QED
    BY <2>2, <2>3, <2>4, <2>5 DEF K
<1>7. \A d \in Calls \ {c} : CallFits(call[d], route'.ops, posted)
  <2> SUFFICES ASSUME NEW d \in Calls \ {c}, call[d].kind = "follow-up"
               PROVE  \E k \in KeysOf(call[d].provider, call[d].op) : Held(route'.ops, k, call[d])
    BY DEF IInv, CallsFit, CallFits
  <2>1. PICK k \in KeysOf(call[d].provider, call[d].op) : Held(route.ops, k, call[d])
    BY DEF IInv, CallsFit, CallFits
  <2>2. k \in Keys
    BY <2>1, KeyType DEF IInv, CallsFit, CallFits
  <2>3. k # K
    BY <2>1 DEF K
  <2> QED
    BY <2>1, <2>2, <2>3, <1>5 DEF Held
<1> QED
  BY <1>1, <1>4, <1>5, <1>6, <1>7 DEF K

-----------------------------------------------------------------------------
LEMMA InitIInv == ConversationInit => IInv
<1> SUFFICES ASSUME ConversationInit PROVE IInv
  OBVIOUS
<1> USE DEF ConversationInit
<1>1. NoRecord \in RecordType /\ NoImage \in ImageType
  BY DEF NoRecord, NoImage, RecordType, ImageType
<1>2. 0 \in RouteUntil /\ 1 \in 1..ConversationUntil
  BY DEF RouteUntil, Later
<1>3. ConversationTypeOK
  <2>1. route \in RouteType
    BY <1>1, <1>2 DEF NoRoute, RouteType
  <2>2. call \in [Calls -> CallType]
    <3>1. Idle \in CallType
      BY DEF Idle, CallType
    <3> QED
      BY <3>1
  <2>3. posted \in [Handles \X Parts ->
                     [provider : Agents \cup {Nothing}, op : FollowUpOps \cup {Nothing},
                      content : Contents \cup {Nothing}, at : 0..ConversationUntil]]
    BY <1>2 DEF NotPosted
  <2> QED
    BY <1>2, <2>1, <2>2, <2>3 DEF ConversationTypeOK
<1>4. \A k \in Keys : route.ops[k] = NoRecord
  BY DEF NoRoute
<1>5. \A p \in Agents, op \in FollowUpOps : <<p, op>> \in Keys /\ <<Nothing, op>> \in Keys
  BY DEF Keys
<1>6. LedgerFits(route.ops, handles)
  <2>1. route.ops \in [Keys -> RecordType]
    BY <1>1 DEF NoRoute
  <2>2. NoRecord.provider = Nothing
    BY DEF NoRecord
  <2> QED
    BY <1>4, <1>5, <2>1, <2>2 DEF LedgerFits, Proper, Placed, Apart
<1>7. PostsFit(route.ops, posted, handles)
  <2>1. NoRecord.state = "none"
    BY DEF NoRecord
  <2> QED
    BY <1>4, <2>1 DEF PostsFit
<1>8. CallsFit /\ RouteHeld
  BY DEF CallsFit, CallFits, RouteHeld, Busy, Idle
<1>9. ImagesFit
  BY DEF ImagesFit, NoRoute
<1> QED
  BY <1>3, <1>6, <1>7, <1>8, <1>9 DEF IInv

LEMMA LaterType ==
    ASSUME NEW a \in Nat, NEW b \in Nat
    PROVE  Later(a, b) \in Nat /\ Later(a, b) >= a /\ Later(a, b) >= b
           /\ Later(a, b) \in {a, b}
BY DEF Later

LEMMA PinnedType ==
    ASSUME ConversationTypeOK
    PROVE  /\ Pinned \in RouteType
           /\ Pinned.app = route.app /\ Pinned.ops = route.ops /\ Pinned.images = route.images
           /\ Pinned.expiresAt >= route.expiresAt
           /\ Pinned.expiresAt >= now + FollowUpTimeout
<1> DEFINE L == Later(GrantTTL, FollowUpTimeout)
           e == Later(route.expiresAt, now + L)
<1>1. L \in Nat /\ L >= FollowUpTimeout
  BY LaterType
<1>2. now \in 1..ConversationUntil /\ route \in RouteType /\ route.expiresAt \in 0..(ConversationUntil + L)
  BY DEF ConversationTypeOK, RouteType, RouteUntil
<1> HIDE DEF L
<1>3. e \in 0..(ConversationUntil + L) /\ e >= route.expiresAt /\ e >= now + L
  BY <1>1, <1>2 DEF Later
<1> HIDE DEF e
<1>4. Pinned = [route EXCEPT !.expiresAt = e]
  BY <1>2 DEF Pinned, e, L
<1>5. e \in RouteUntil
  BY <1>3 DEF RouteUntil, L
<1> QED
  BY <1>1, <1>2, <1>3, <1>4, <1>5 DEF RouteType

(* A live route is there, and it is while a call is under way.             *)
LEMMA BusyLive ==
    ASSUME IInv, NEW c \in Calls, Busy(c)
    PROVE  RouteLive
<1>1. now \in Int /\ route.expiresAt \in Int /\ call[c].deadline \in Int
  BY DEF IInv, ConversationTypeOK, RouteType, RouteUntil, CallType
<1> QED
  BY <1>1 DEF IInv, RouteHeld, RouteLive

(* Nothing moves but the route's lifetime and its grants.                  *)
LEMMA RouteQuiet ==
    ASSUME IInv, ConversationTypeOK',
           route'.app = route.app, route'.ops = route.ops, route'.images = route.images,
           route'.expiresAt >= route.expiresAt,
           UNCHANGED <<now, call, posted, handles>>, ImagesFit'
    PROVE  IInv'
<1>1. LedgerFits(route.ops, handles)' /\ PostsFit(route.ops, posted, handles)' /\ CallsFit'
  BY DEF IInv, LedgerFits, PostsFit, CallsFit
<1>2. RouteHeld'
  <2> SUFFICES ASSUME NEW c \in Calls, Busy(c)
               PROVE  /\ route'.app # Nothing
                      /\ now <= call[c].deadline /\ call[c].deadline <= route'.expiresAt
    BY DEF RouteHeld, Busy
  <2>1. now \in Int /\ route.expiresAt \in Int /\ call[c].deadline \in Int /\ route'.expiresAt \in Int
    BY DEF IInv, ConversationTypeOK, RouteType, RouteUntil, CallType
  <2> QED
    BY <2>1 DEF IInv, RouteHeld
<1> QED
  BY <1>1, <1>2 DEF IInv

LEMMA ExpiryType ==
    ASSUME ConversationTypeOK, NEW e \in RouteUntil
    PROVE  now + GrantTTL \in RouteUntil /\ Later(e, now + GrantTTL) \in RouteUntil
           /\ Later(e, now + GrantTTL) >= e
<1> DEFINE L == Later(GrantTTL, FollowUpTimeout)
<1>1. L \in Nat /\ L >= GrantTTL
  BY LaterType
<1>2. now \in 1..ConversationUntil
  BY DEF ConversationTypeOK
<1> HIDE DEF L
<1>3. RouteUntil = 0..(ConversationUntil + L)
  BY DEF RouteUntil, L
<1> QED
  BY <1>1, <1>2, <1>3 DEF Later

(* A conversation whose time is over begins anew: no call is under way.    *)
LEMMA RecordStep ==
    ASSUME IInv, NEW app \in ConversationApps, NEW ps \in SUBSET Agents, Record(app, ps)
    PROVE  IInv'
<1> DEFINE r == IF RouteLive THEN route ELSE [NoRoute EXCEPT !.app = app]
           g == [p \in Agents |-> IF p \in ps THEN now + GrantTTL ELSE r.grant[p]]
<1>0. ConversationTypeOK
  BY DEF IInv
<1>1. NoRoute \in RouteType
  <2>1. NoRecord \in RecordType /\ NoImage \in ImageType /\ 0 \in RouteUntil
    BY DEF NoRecord, NoImage, RecordType, ImageType, RouteUntil, Later
  <2> QED
    BY <2>1 DEF NoRoute, RouteType
<1>2. r \in RouteType /\ r.app = app
  BY <1>0, <1>1 DEF Record, ConversationTypeOK, RouteType, RouteLive
<1>3. route' = [r EXCEPT !.grant = g, !.expiresAt = Later(r.expiresAt, now + GrantTTL)]
  BY DEF Record
<1> HIDE DEF r
<1>4. /\ now + GrantTTL \in RouteUntil /\ r.expiresAt \in RouteUntil
      /\ Later(r.expiresAt, now + GrantTTL) \in RouteUntil
      /\ Later(r.expiresAt, now + GrantTTL) >= r.expiresAt
  BY <1>0, <1>2, ExpiryType DEF RouteType
<1>5. g \in [Agents -> RouteUntil]
  BY <1>2, <1>4 DEF RouteType
<1> HIDE DEF g
<1>6. route' \in RouteType /\ route'.app = r.app /\ route'.ops = r.ops
      /\ route'.images = r.images /\ route'.expiresAt >= r.expiresAt
  BY <1>2, <1>3, <1>4, <1>5 DEF RouteType
<1>7. UNCHANGED <<now, call, posted, handles>>
      /\ handed' = IF RouteLive THEN handed ELSE [i \in ImageOps |-> {}]
  BY DEF Record
<1>8. ConversationTypeOK'
  BY <1>0, <1>6, <1>7 DEF ConversationTypeOK
<1>9. CASE RouteLive
  <2>1. r = route /\ handed' = handed
    BY <1>7, <1>9 DEF r
  <2>2. ImagesFit'
    BY <2>1, <1>6 DEF ImagesFit, IInv
  <2> QED
    BY <1>6, <1>7, <1>8, <2>1, <2>2, RouteQuiet
<1>10. CASE ~RouteLive
  <2>1. \A c \in Calls : ~Busy(c)
    BY <1>10, BusyLive
  <2>2. route'.ops = NoRoute.ops /\ route'.images = NoRoute.images
    BY <1>6, <1>10, <1>1 DEF r, RouteType
  <2>3. \A k \in Keys : route'.ops[k] = NoRecord
    BY <2>2 DEF NoRoute
  <2>4. LedgerFits(route.ops, handles)'
    <3>1. route'.ops \in [Keys -> RecordType]
      BY <1>6 DEF RouteType
    <3>2. \A p \in Agents, op \in FollowUpOps : <<p, op>> \in Keys /\ <<Nothing, op>> \in Keys
      BY DEF Keys
    <3>3. NoRecord.provider = Nothing
      BY DEF NoRecord
    <3> QED
      BY <2>3, <3>1, <3>2, <3>3 DEF LedgerFits, Proper, Placed, Apart
  <2>5. PostsFit(route.ops, posted, handles)'
    <3>1. NoRecord.state = "none"
      BY DEF NoRecord
    <3> QED
      BY <2>3, <3>1, <1>7 DEF PostsFit, IInv
  <2>6. CallsFit' /\ RouteHeld'
    BY <2>1, <1>7 DEF CallsFit, CallFits, RouteHeld, Busy, IInv
  <2>7. ImagesFit'
    <3>1. \A i \in ImageOps : route'.images[i] = NoImage /\ handed'[i] = {}
      BY <2>2, <1>7, <1>10 DEF NoRoute
    <3> QED
      BY <3>1 DEF ImagesFit
  <2> QED
    BY <1>8, <2>4, <2>5, <2>6, <2>7 DEF IInv
<1> QED
  BY <1>9, <1>10

LEMMA RefreshStep ==
    ASSUME IInv, NEW p \in Agents, Refresh(p)
    PROVE  IInv'
<1>0. ConversationTypeOK /\ ImagesFit
  BY DEF IInv
<1>1. route \in RouteType /\ route.expiresAt \in RouteUntil
  BY <1>0 DEF ConversationTypeOK, RouteType
<1>2. now + GrantTTL \in RouteUntil /\ Later(route.expiresAt, now + GrantTTL) \in RouteUntil
      /\ Later(route.expiresAt, now + GrantTTL) >= route.expiresAt
  BY <1>0, <1>1, ExpiryType
<1>3. route' \in RouteType /\ route'.app = route.app /\ route'.ops = route.ops
      /\ route'.images = route.images /\ route'.expiresAt >= route.expiresAt
  BY <1>1, <1>2 DEF Refresh, RouteType
<1>4. UNCHANGED <<now, call, posted, handles, handed>>
  BY DEF Refresh
<1>5. ConversationTypeOK' /\ ImagesFit'
  BY <1>0, <1>3, <1>4 DEF ConversationTypeOK, ImagesFit
<1> QED
  BY <1>3, <1>4, <1>5, RouteQuiet

(* Answers that only pin the route.                                        *)
LEMMA PinStep ==
    ASSUME IInv, route' = Pinned, UNCHANGED <<now, call, posted, handles>>,
           handed' \in [ImageOps -> SUBSET (1..MaxHandles)],
           \A i \in ImageOps : \/ handed'[i] = handed[i]
                               \/ /\ route.images[i] # NoImage
                                  /\ handed'[i] = handed[i] \cup {route.images[i].key}
    PROVE  IInv'
<1>0. ConversationTypeOK /\ ImagesFit
  BY DEF IInv
<1>1. /\ route' \in RouteType /\ route'.app = route.app /\ route'.ops = route.ops
      /\ route'.images = route.images /\ route'.expiresAt >= route.expiresAt
  BY <1>0, PinnedType
<1>2. ConversationTypeOK'
  BY <1>0, <1>1 DEF ConversationTypeOK
<1>3. ImagesFit'
  BY <1>0, <1>1 DEF ImagesFit
<1> QED
  BY <1>1, <1>2, <1>3, RouteQuiet

LEMMA AnswerSteps ==
    ASSUME IInv, NEW p \in Agents,
           \/ \E op \in FollowUpOps, content \in Contents : FollowUpRefused(p, op, content)
           \/ \E i \in ImageOps, image \in Images : UploadAnswered(p, i, image)
    PROVE  IInv'
<1>0. handed \in [ImageOps -> SUBSET (1..MaxHandles)] /\ ImagesFit
  BY DEF IInv, ConversationTypeOK
<1>1. CASE \E op \in FollowUpOps, content \in Contents : FollowUpRefused(p, op, content)
  <2>1. route' = Pinned /\ UNCHANGED <<now, call, posted, handles, handed>>
    BY <1>1 DEF FollowUpRefused
  <2> QED
    BY <2>1, <1>0, PinStep
<1>2. CASE \E i \in ImageOps, image \in Images : UploadAnswered(p, i, image)
  <2>1. PICK i \in ImageOps, image \in Images : UploadAnswered(p, i, image)
    BY <1>2
  <2>2. route' = Pinned /\ UNCHANGED <<now, call, posted, handles>>
        /\ handed' = IF route.images[i].image = image
                     THEN [handed EXCEPT ![i] = @ \cup {route.images[i].key}]
                     ELSE handed
    BY <2>1 DEF UploadAnswered
  <2>3. route.images[i].image = image => route.images[i] # NoImage
    BY DEF NoImage
  <2>4. route.images[i] # NoImage => route.images[i].key \in 1..MaxHandles
    BY <1>0 DEF ImagesFit
  <2>5. handed' \in [ImageOps -> SUBSET (1..MaxHandles)]
    BY <1>0, <2>2, <2>3, <2>4
  <2>6. \A j \in ImageOps : \/ handed'[j] = handed[j]
                            \/ /\ route.images[j] # NoImage
                               /\ handed'[j] = handed[j] \cup {route.images[j].key}
    BY <1>0, <2>2, <2>3
  <2> QED
    BY <2>2, <2>5, <2>6, PinStep
<1> QED
  BY <1>1, <1>2

(* What a call that is taken up or ends does to the routes of the others.  *)
LEMMA HeldRoute ==
    ASSUME IInv, ConversationTypeOK', NEW c \in Calls, now' = now,
           \A d \in Calls \ {c} : call'[d] = call[d],
           route'.app = route.app, route'.expiresAt >= route.expiresAt,
           \/ call'[c].kind = "idle"
           \/ Busy(c) /\ call'[c].deadline = call[c].deadline
           \/ /\ RouteLive /\ call'[c].deadline = now + FollowUpTimeout
              /\ route'.expiresAt >= now + FollowUpTimeout
    PROVE  RouteHeld'
<1> SUFFICES ASSUME NEW d \in Calls, Busy(d)'
             PROVE  /\ route'.app # Nothing
                    /\ now <= call'[d].deadline /\ call'[d].deadline <= route'.expiresAt
  BY DEF RouteHeld
<1>1. /\ now \in Int /\ route.expiresAt \in Int /\ route'.expiresAt \in Int
      /\ call[d].deadline \in Int /\ call'[d].deadline \in Int
  BY DEF IInv, ConversationTypeOK, RouteType, RouteUntil, CallType
<1>2. CASE d # c \/ (Busy(c) /\ call'[c].deadline = call[c].deadline)
  BY <1>1, <1>2 DEF IInv, RouteHeld, Busy
<1>3. CASE d = c /\ RouteLive /\ call'[c].deadline = now + FollowUpTimeout
           /\ route'.expiresAt >= now + FollowUpTimeout
  BY <1>1, <1>3 DEF RouteLive
<1> QED
  BY <1>2, <1>3 DEF Busy

LEMMA BeginNewStep ==
    ASSUME IInv, NEW c \in Calls, NEW p \in Agents, NEW op \in FollowUpOps,
           NEW content \in Contents, BeginNew(c, p, op, content)
    PROVE  IInv'
<1> DEFINE r == [provider |-> p, content |-> content, handle |-> handles + 1,
                 state |-> "pending", ambiguousAt |-> 0]
           k == [kind |-> "follow-up", provider |-> p, op |-> op, content |-> content,
                 handle |-> handles + 1, sent |-> 0, deadline |-> now + FollowUpTimeout]
<1>0. ConversationTypeOK
  BY DEF IInv
<1>1. /\ ~Busy(c) /\ RouteLive /\ route.ops[KeyOf(p, op)] = NoRecord
      /\ handles < MaxHandles /\ handles' = handles + 1
      /\ route' = [Pinned EXCEPT !.ops[KeyOf(p, op)] = r]
      /\ call' = [call EXCEPT ![c] = k]
      /\ UNCHANGED <<now, posted, handed>>
  BY DEF BeginNew, Begun
<1>2. KeyOf(p, op) \in Keys
  BY KeyType
<1>3. /\ handles \in Nat /\ handles + 1 \in handles..MaxHandles /\ handles + 1 \in 0..MaxHandles
      /\ now \in 1..ConversationUntil
  BY <1>0, <1>1 DEF ConversationTypeOK
<1>4. r \in RecordType
  BY <1>3 DEF RecordType
<1>5. k \in CallType
  BY <1>3 DEF CallType
<1>6. /\ Pinned \in RouteType
      /\ Pinned.app = route.app /\ Pinned.ops = route.ops /\ Pinned.images = route.images
      /\ Pinned.expiresAt >= route.expiresAt
      /\ Pinned.expiresAt >= now + FollowUpTimeout
  BY <1>0, PinnedType
<1>7. /\ route' \in RouteType /\ route'.app = route.app /\ route'.images = route.images
      /\ route'.expiresAt = Pinned.expiresAt
      /\ route'.ops = [route.ops EXCEPT ![KeyOf(p, op)] = r]
  BY <1>1, <1>2, <1>4, <1>6 DEF RouteType
<1>8. /\ call' \in [Calls -> CallType] /\ call'[c] = k
      /\ \A d \in Calls \ {c} : call'[d] = call[d]
  BY <1>0, <1>1, <1>5 DEF ConversationTypeOK
<1>9. ConversationTypeOK'
  BY <1>0, <1>1, <1>3, <1>7, <1>8 DEF ConversationTypeOK
<1>10. \A d \in Calls \ {c} :
          call[d].kind = "follow-up" => ~Held(route.ops, KeyOf(p, op), call[d])
  BY <1>1 DEF Held, NoRecord
<1>11. /\ LedgerFits(route'.ops, handles + 1)
       /\ PostsFit(route'.ops, posted, handles + 1)
       /\ \A d \in Calls \ {c} : CallFits(call[d], route'.ops, posted)
       /\ KeyOf(p, op) \in KeysOf(p, op) /\ route'.ops[KeyOf(p, op)] = r
  <2> HIDE DEF r, k
  <2>1. r.provider = p /\ r.content \in Contents /\ r.state = "pending" /\ r.handle = handles + 1
    BY DEF r
  <2> QED
    BY <1>3, <1>4, <1>7, <1>10, <2>1, FilingKeeps
<1>12. CallsFit'
  <2>1. CallFits(call'[c], route'.ops, posted)
    <3>1. PartsOf[content] \in Nat
      BY PartsType
    <3>2. Held(route'.ops, KeyOf(p, op), k)
      BY <1>11 DEF Held
    <3>3. k.sent \in 0..PartsOf[k.content] /\ 1..k.sent = {}
      BY <3>1
    <3> QED
      BY <1>8, <1>11, <3>2, <3>3 DEF CallFits
  <2>2. \A d \in Calls \ {c} : call[d].kind = "follow-up" => call[d].handle # handles + 1
    <3> SUFFICES ASSUME NEW d \in Calls \ {c}, call[d].kind = "follow-up"
                 PROVE  call[d].handle \in 1..handles
      BY <1>3
    <3>1. PICK l \in KeysOf(call[d].provider, call[d].op) : Held(route.ops, l, call[d])
      BY DEF IInv, CallsFit, CallFits
    <3>2. l \in Keys
      BY <3>1, KeyType DEF IInv, CallsFit, CallFits
    <3> QED
      BY <3>1, <3>2 DEF Held, NoRecord, IInv, LedgerFits, Proper
  <2>3. \A d \in Calls \ {c} : call[d].kind # "follow-up" => call[d].handle = 0
    BY DEF IInv, CallsFit, CallFits
  <2>4. \A d, e \in Calls : call'[d].kind = "follow-up" /\ d # e => call'[d].handle # call'[e].handle
    <3>1. k.handle = handles + 1 /\ k.kind = "follow-up"
      OBVIOUS
    <3>2. \A d \in Calls \ {c} : call[d].handle # handles + 1
      BY <1>3, <2>2, <2>3
    <3>3. \A d, e \in Calls : call[d].kind = "follow-up" /\ d # e => call[d].handle # call[e].handle
      BY DEF IInv, CallsFit
    <3> HIDE DEF k
    <3> QED
      BY <1>8, <3>1, <3>2, <3>3
  <2> QED
    BY <1>1, <1>8, <1>11, <2>1, <2>4 DEF CallsFit
<1>13. RouteHeld'
  BY <1>1, <1>6, <1>7, <1>8, <1>9, HeldRoute
<1>14. ImagesFit'
  BY <1>1, <1>7 DEF IInv, ImagesFit
<1> QED
  BY <1>1, <1>9, <1>11, <1>12, <1>13, <1>14 DEF IInv

LEMMA BeginAgainStep ==
    ASSUME IInv, NEW c \in Calls, NEW p \in Agents, NEW op \in FollowUpOps,
           NEW content \in Contents, BeginAgain(c, p, op, content)
    PROVE  IInv'
<1> DEFINE K == KeyOf(p, op)
           o == route.ops[K]
           r == [o EXCEPT !.state = "pending"]
           k == [kind |-> "follow-up", provider |-> p, op |-> op, content |-> content,
                 handle |-> o.handle, sent |-> 0, deadline |-> now + FollowUpTimeout]
<1>0. ConversationTypeOK /\ LedgerFits(route.ops, handles)
  BY DEF IInv
<1>1. /\ ~Busy(c) /\ RouteLive /\ o # NoRecord /\ MayResume(o, content)
      /\ route' = [Pinned EXCEPT !.ops[K].state = "pending"]
      /\ call' = [call EXCEPT ![c] = k]
      /\ UNCHANGED <<now, posted, handles, handed>>
  BY DEF BeginAgain, Begun
<1>2. K \in Keys /\ K \in KeysOf(p, op) /\ K = KeyIn(route.ops, p, op)
  BY KeyType
<1>3. o \in RecordType /\ o.content = content /\ o.state = "open"
      /\ o.provider \in Agents /\ o.handle \in 1..handles
  BY <1>0, <1>1, <1>2 DEF MayResume, LedgerFits, Proper
<1>4. o.provider = p
  <2>1. K = <<Nothing, op>> => o.provider \in {p, Nothing}
    BY <1>1, <1>2 DEF KeyIn, KeysOf
  <2>2. K = <<p, op>> => o.provider \in {p, Nothing}
    BY <1>0 DEF LedgerFits, Placed
  <2> QED
    BY <2>1, <2>2, <1>2, <1>3 DEF KeysOf
<1>5. handles \in Nat /\ handles \in handles..MaxHandles /\ now \in 1..ConversationUntil
  BY <1>0 DEF ConversationTypeOK
<1> HIDE DEF K, o
<1>6. r \in RecordType /\ r.provider = p /\ r.content = content /\ r.handle = o.handle
      /\ r.state = "pending"
  BY <1>3, <1>4 DEF RecordType
<1>7. k \in CallType
  BY <1>3, <1>5 DEF CallType, RecordType
<1>8. /\ Pinned \in RouteType
      /\ Pinned.app = route.app /\ Pinned.ops = route.ops /\ Pinned.images = route.images
      /\ Pinned.expiresAt >= route.expiresAt
      /\ Pinned.expiresAt >= now + FollowUpTimeout
  BY <1>0, PinnedType
<1>9. /\ route' \in RouteType /\ route'.app = route.app /\ route'.images = route.images
      /\ route'.expiresAt = Pinned.expiresAt
      /\ route'.ops = [route.ops EXCEPT ![K] = r]
  <2>1. route' = [Pinned EXCEPT !.ops = [route.ops EXCEPT ![K] = r]]
    BY <1>1, <1>8 DEF RouteType, o
  <2> HIDE DEF r
  <2>2. [route.ops EXCEPT ![K] = r] \in [Keys -> RecordType]
    BY <1>0, <1>2, <1>6 DEF LedgerFits
  <2> QED
    BY <1>8, <2>1, <2>2 DEF RouteType
<1>10. /\ call' \in [Calls -> CallType] /\ call'[c] = k
       /\ \A d \in Calls \ {c} : call'[d] = call[d]
  BY <1>0, <1>1, <1>7 DEF ConversationTypeOK
<1>11. ConversationTypeOK'
  BY <1>0, <1>1, <1>9, <1>10 DEF ConversationTypeOK
<1>12. \A d \in Calls \ {c} : call[d].kind = "follow-up" => ~Held(route.ops, K, call[d])
  BY <1>3 DEF Held, o
<1>13. /\ LedgerFits(route'.ops, handles)
       /\ PostsFit(route'.ops, posted, handles)
       /\ \A d \in Calls \ {c} : CallFits(call[d], route'.ops, posted)
       /\ route'.ops[K] = r
  <2> HIDE DEF r, k
  <2>1. K = KeyOf(p, op) /\ o = route.ops[KeyOf(p, op)]
    BY DEF K, o
  <2>2. r.content \in Contents /\ r.content = o.content
    BY <1>3, <1>6
  <2>3. r.state = "complete" => \A part \in 1..PartsOf[r.content] :
                                   posted[<<r.handle, part>>].content = r.content
    BY <1>6
  <2> QED
    BY <1>1, <1>5, <1>6, <1>9, <1>12, <2>1, <2>2, <2>3, FilingKeeps
<1>14. CallsFit'
  <2>1. CallFits(call'[c], route'.ops, posted)
    <3>1. PartsOf[content] \in Nat
      BY PartsType
    <3>2. Held(route'.ops, K, k)
      BY <1>13, <1>6 DEF Held
    <3>3. k.sent \in 0..PartsOf[k.content] /\ 1..k.sent = {}
      BY <3>1
    <3> QED
      BY <1>2, <1>10, <3>2, <3>3 DEF CallFits
  <2>2. \A d \in Calls \ {c} : call[d].handle # o.handle
    <3> SUFFICES ASSUME NEW d \in Calls \ {c}, call[d].kind = "follow-up"
                 PROVE  call[d].handle # o.handle
      BY <1>3 DEF IInv, CallsFit, CallFits
    <3>1. PICK l \in KeysOf(call[d].provider, call[d].op) : Held(route.ops, l, call[d])
      BY DEF IInv, CallsFit, CallFits
    <3>2. l \in Keys
      BY <3>1, KeyType DEF IInv, CallsFit, CallFits
    <3>3. l # K
      BY <3>1, <1>12
    <3>4. route.ops[l] # NoRecord
      BY <3>1 DEF Held, NoRecord
    <3> QED
      BY <1>0, <1>1, <1>2, <3>1, <3>2, <3>3, <3>4 DEF Held, LedgerFits, Apart, o
  <2>3. \A d, e \in Calls : call'[d].kind = "follow-up" /\ d # e => call'[d].handle # call'[e].handle
    <3>1. k.handle = o.handle
      OBVIOUS
    <3>2. \A d, e \in Calls : call[d].kind = "follow-up" /\ d # e => call[d].handle # call[e].handle
      BY DEF IInv, CallsFit
    <3> HIDE DEF k
    <3> QED
      BY <1>10, <2>2, <3>1, <3>2
  <2> QED
    BY <1>1, <1>10, <1>13, <2>1, <2>3 DEF CallsFit
<1>15. RouteHeld'
  BY <1>1, <1>8, <1>9, <1>10, <1>11, HeldRoute
<1>16. ImagesFit'
  BY <1>1, <1>9 DEF IInv, ImagesFit
<1> QED
  BY <1>1, <1>11, <1>13, <1>14, <1>15, <1>16 DEF IInv

(* A part reaches Feishu under a UUID that no other call uses.             *)
LEMMA ArriveStep ==
    ASSUME IInv, NEW c \in Calls, Arrive(c)
    PROVE  IInv'
<1> DEFINE k == call[c]
           u == <<k.handle, k.sent + 1>>
           v == [provider |-> k.provider, op |-> k.op, content |-> k.content, at |-> now]
           k2 == [k EXCEPT !.sent = 1 + k.sent]
<1>0. ConversationTypeOK /\ LedgerFits(route.ops, handles)
  BY DEF IInv
<1>1. /\ k.kind = "follow-up" /\ k.sent < PartsOf[k.content]
      /\ \/ posted' = posted /\ posted[u].at # 0
         \/ posted' = [posted EXCEPT ![u] = v]
      /\ call' = [call EXCEPT ![c].sent = 1 + k.sent]
      /\ UNCHANGED <<now, route, handles, handed>>
  BY DEF Arrive
<1>2. /\ k \in CallType /\ k.provider \in Agents /\ k.op \in FollowUpOps /\ k.content \in Contents
      /\ k.sent \in 0..PartsOf[k.content]
      /\ \A part \in 1..k.sent : posted[<<k.handle, part>>].content = k.content
  BY <1>0, <1>1 DEF ConversationTypeOK, IInv, CallsFit, CallFits
<1>3. PICK l \in KeysOf(k.provider, k.op) : Held(route.ops, l, k)
  BY <1>1 DEF IInv, CallsFit, CallFits
<1>4. l \in Keys /\ route.ops[l] # NoRecord
  BY <1>2, <1>3, KeyType DEF Held, NoRecord
<1>5. k.handle \in 1..handles /\ handles \in 0..MaxHandles /\ k.handle \in Handles
  BY <1>0, <1>3, <1>4 DEF Held, LedgerFits, Proper, ConversationTypeOK, Handles
<1>6. PartsOf[k.content] \in Nat /\ 1..PartsOf[k.content] \subseteq Parts
      /\ k.sent + 1 \in 1..PartsOf[k.content]
  <2>1. PartsOf[k.content] \in Nat /\ 1..PartsOf[k.content] \subseteq Parts
    BY <1>2, PartsType
  <2> QED
    BY <2>1, <1>1, <1>2
<1>7. u \in Handles \X Parts
  BY <1>5, <1>6
<1>8. /\ call' \in [Calls -> CallType] /\ call'[c] = k2 /\ \A d \in Calls \ {c} : call'[d] = call[d]
      /\ k2 = [k EXCEPT !.sent = k.sent + 1]
  <2>1. k2 \in CallType
    BY <1>2, <1>6 DEF CallType
  <2>2. call' = [call EXCEPT ![c] = k2]
    BY <1>0, <1>1 DEF ConversationTypeOK
  <2>3. 1 + k.sent = k.sent + 1
    BY <1>2
  <2> HIDE DEF k2
  <2>4. call' \in [Calls -> CallType] /\ call'[c] = k2 /\ \A d \in Calls \ {c} : call'[d] = call[d]
    BY <1>0, <2>1, <2>2 DEF ConversationTypeOK
  <2> QED
    BY <2>3, <2>4 DEF k2
<1> HIDE DEF k2
<1>9. /\ posted' \in [Handles \X Parts ->
                     [provider : Agents \cup {Nothing}, op : FollowUpOps \cup {Nothing},
                      content : Contents \cup {Nothing}, at : 0..ConversationUntil]]
      /\ \A w \in (Handles \X Parts) \ {u} : posted'[w] = posted[w]
      /\ posted'[u].content = k.content
      /\ posted'[u] = posted[u] \/ posted'[u] = v
  <2>1. v \in [provider : Agents \cup {Nothing}, op : FollowUpOps \cup {Nothing},
               content : Contents \cup {Nothing}, at : 0..ConversationUntil]
    BY <1>0, <1>2 DEF ConversationTypeOK
  <2>2. posted[u].at # 0 => posted[u].content = k.content
    BY <1>3, <1>4, <1>6 DEF Held, IInv, PostsFit
  <2>3. v.content = k.content
    OBVIOUS
  <2> HIDE DEF v, u, k
  <2>4. CASE posted' = posted /\ posted[u].at # 0
    BY <1>0, <2>2, <2>4 DEF ConversationTypeOK
  <2>5. CASE posted' = [posted EXCEPT ![u] = v]
    BY <1>0, <1>7, <2>1, <2>3, <2>5 DEF ConversationTypeOK
  <2> QED
    BY <1>1, <2>4, <2>5
<1>10. ConversationTypeOK'
  BY <1>0, <1>1, <1>8, <1>9 DEF ConversationTypeOK
<1>11. \A m \in Keys : route.ops[m] # NoRecord /\ m # l => route.ops[m].handle # k.handle
  BY <1>0, <1>3, <1>4 DEF Held, LedgerFits, Apart
<1>12. \A m \in Keys : route.ops[m] # NoRecord => route.ops[m].handle \in Handles
                          /\ route.ops[m].content \in Contents
  BY <1>0, <1>5 DEF LedgerFits, Proper, Handles
<1>13. PostsFit(route.ops, posted', handles)
  <2>1. \A h \in Handles, part \in Parts : h > handles => posted'[<<h, part>>] = NotPosted
    <3> SUFFICES ASSUME NEW h \in Handles, NEW part \in Parts, h > handles
                 PROVE  posted'[<<h, part>>] = NotPosted
      OBVIOUS
    <3>1. <<h, part>> # u
      BY <1>5
    <3> QED
      BY <1>9, <3>1 DEF IInv, PostsFit
  <2>2. \A m \in Keys : route.ops[m] # NoRecord => \A part \in Parts :
          posted'[<<route.ops[m].handle, part>>].at # 0 =>
              posted'[<<route.ops[m].handle, part>>].content = route.ops[m].content
    <3> SUFFICES ASSUME NEW m \in Keys, route.ops[m] # NoRecord, NEW part \in Parts,
                        posted'[<<route.ops[m].handle, part>>].at # 0
                 PROVE  posted'[<<route.ops[m].handle, part>>].content = route.ops[m].content
      OBVIOUS
    <3>1. CASE <<route.ops[m].handle, part>> = u
      <4>1. m = l
        BY <1>11, <3>1
      <4> QED
        BY <4>1, <3>1, <1>3, <1>9 DEF Held
    <3>2. CASE <<route.ops[m].handle, part>> # u
      BY <1>9, <1>12, <3>2 DEF IInv, PostsFit
    <3> QED
      BY <3>1, <3>2
  <2>3. \A m \in Keys : route.ops[m].state = "complete" => \A part \in 1..PartsOf[route.ops[m].content] :
          posted'[<<route.ops[m].handle, part>>].content = route.ops[m].content
    <3> SUFFICES ASSUME NEW m \in Keys, route.ops[m].state = "complete",
                        NEW part \in 1..PartsOf[route.ops[m].content]
                 PROVE  posted'[<<route.ops[m].handle, part>>].content = route.ops[m].content
      OBVIOUS
    <3>1. m # l /\ route.ops[m] # NoRecord
      BY <1>3 DEF Held, NoRecord
    <3>2. part \in Parts
      BY <1>12, <3>1, PartsType
    <3>3. <<route.ops[m].handle, part>> \in (Handles \X Parts) \ {u}
      BY <1>11, <1>12, <3>1, <3>2
    <3> QED
      BY <1>9, <3>3 DEF IInv, PostsFit
  <2> QED
    BY <2>1, <2>2, <2>3 DEF PostsFit
<1>14. CallsFit'
  <2>1. CallFits(call'[c], route.ops, posted')
    <3>1. \A part \in 1..(k.sent + 1) : posted'[<<k.handle, part>>].content = k.content
      <4> SUFFICES ASSUME NEW part \in 1..(k.sent + 1)
                   PROVE  posted'[<<k.handle, part>>].content = k.content
        OBVIOUS
      <4>1. part = k.sent + 1 \/ (part \in 1..k.sent /\ part \in Parts /\ part # k.sent + 1)
        BY <1>2, <1>6
      <4> QED
        BY <4>1, <1>2, <1>5, <1>9
    <3>2. k2.kind = "follow-up" /\ k2.provider = k.provider /\ k2.op = k.op /\ k2.content = k.content
          /\ k2.handle = k.handle /\ k2.sent = k.sent + 1
      BY <1>1, <1>2, <1>8 DEF CallType
    <3>3. Held(route.ops, l, k2)
      BY <1>3, <3>2 DEF Held
    <3>4. k2.sent \in 0..PartsOf[k2.content]
      BY <3>2, <1>2, <1>6
    <3> HIDE DEF k
    <3> QED
      BY <1>2, <1>3, <1>8, <3>1, <3>2, <3>3, <3>4 DEF CallFits
  <2>2. \A d \in Calls \ {c} : CallFits(call[d], route.ops, posted')
    <3> SUFFICES ASSUME NEW d \in Calls \ {c}, call[d].kind = "follow-up",
                        NEW part \in 1..call[d].sent
                 PROVE  posted'[<<call[d].handle, part>>].content = call[d].content
      BY DEF IInv, CallsFit, CallFits
    <3>1. PICK m \in KeysOf(call[d].provider, call[d].op) : Held(route.ops, m, call[d])
      BY DEF IInv, CallsFit, CallFits
    <3>2. m \in Keys /\ route.ops[m] # NoRecord
      <4>1. call[d].provider \in Agents /\ call[d].op \in FollowUpOps
        BY DEF IInv, CallsFit, CallFits
      <4>2. m \in Keys
        BY <3>1, <4>1, KeyType
      <4> QED
        BY <3>1, <4>2 DEF Held, NoRecord
    <3>3. call[d].handle \in Handles /\ call[d].handle # k.handle
      BY <1>12, <3>1, <3>2 DEF Held, IInv, CallsFit
    <3>4. part \in Parts
      <4>1. call[d].content \in Contents /\ call[d].sent \in 0..PartsOf[call[d].content]
        BY DEF IInv, CallsFit, CallFits
      <4>2. PartsOf[call[d].content] \in Nat /\ 1..PartsOf[call[d].content] \subseteq Parts
        BY <4>1, PartsType
      <4> QED
        BY <4>1, <4>2
    <3>5. <<call[d].handle, part>> \in (Handles \X Parts) \ {u}
      BY <3>3, <3>4
    <3> QED
      BY <1>9, <3>5 DEF IInv, CallsFit, CallFits
  <2>3. \A d \in Calls : call'[d].handle = call[d].handle /\ call'[d].kind = call[d].kind
    BY <1>2, <1>8 DEF CallType
  <2> QED
    BY <1>1, <1>8, <2>1, <2>2, <2>3 DEF CallsFit, IInv
<1>15. RouteHeld'
  <2>1. call'[c].deadline = call[c].deadline /\ Busy(c)
    BY <1>1, <1>2, <1>8 DEF CallType, Busy
  <2>2. route.expiresAt >= route.expiresAt
    BY <1>0 DEF ConversationTypeOK, RouteType, RouteUntil
  <2> QED
    BY <1>1, <1>8, <1>10, <2>1, <2>2, HeldRoute
<1>16. ImagesFit'
  BY <1>1 DEF IInv, ImagesFit
<1> QED
  BY <1>0, <1>1, <1>10, <1>13, <1>14, <1>15, <1>16 DEF IInv

(* A call that ends finds the record it claimed.                           *)
LEMMA EndFinds ==
    ASSUME IInv, NEW c \in Calls, call[c].kind = "follow-up"
    PROVE  /\ call[c].provider \in Agents /\ call[c].op \in FollowUpOps
           /\ call[c].content \in Contents
           /\ Held(route.ops, KeyOf(call[c].provider, call[c].op), call[c])
           /\ FiledUnder(c) # NoRecord /\ FiledUnder(c) \in RecordType
           /\ call[c].handle \in 1..handles
           /\ \A d \in Calls \ {c} : call[d].handle # call[c].handle
<1>0. LedgerFits(route.ops, handles)
  BY DEF IInv
<1>1. /\ call[c].provider \in Agents /\ call[c].op \in FollowUpOps
      /\ call[c].content \in Contents
  BY DEF IInv, CallsFit, CallFits
<1>2. PICK k \in KeysOf(call[c].provider, call[c].op) : Held(route.ops, k, call[c])
  BY DEF IInv, CallsFit, CallFits
<1>3. route.ops[k].provider = call[c].provider
  BY <1>2 DEF Held
<1>4. KeyIn(route.ops, call[c].provider, call[c].op) = k
  BY <1>0, <1>1, <1>2, <1>3, OwnKey
<1>5. KeyOf(call[c].provider, call[c].op) = k /\ k \in Keys
  BY <1>1, <1>2, <1>4, KeyType
<1>6. FiledUnder(c) = route.ops[k] /\ FiledUnder(c) # NoRecord
  BY <1>2, <1>5 DEF FiledUnder, Held, NoRecord
<1>7. FiledUnder(c) \in RecordType /\ call[c].handle \in 1..handles
  BY <1>0, <1>2, <1>5, <1>6 DEF LedgerFits, Proper, Held
<1>8. \A d \in Calls \ {c} : call[d].handle # call[c].handle
  BY DEF IInv, CallsFit
<1> QED
  BY <1>1, <1>2, <1>5, <1>6, <1>7, <1>8

LEMMA EndKeeps ==
    ASSUME IInv, NEW p \in Agents, NEW op \in FollowUpOps, NEW r \in RecordType, NEW c \in Calls,
           r # NoRecord =>
              /\ r.provider = p /\ r.content \in Contents
              /\ r.state \in {"open", "pending", "complete"}
              /\ route.ops[KeyOf(p, op)] # NoRecord
              /\ r.handle = route.ops[KeyOf(p, op)].handle
              /\ r.content = route.ops[KeyOf(p, op)].content
              /\ r.state = "complete" => \A part \in 1..PartsOf[r.content] :
                                            posted[<<r.handle, part>>].content = r.content,
           \A d \in Calls \ {c} :
               call[d].kind = "follow-up" => ~Held(route.ops, KeyOf(p, op), call[d]),
           route'.ops = [route.ops EXCEPT ![KeyOf(p, op)] = r]
    PROVE  /\ LedgerFits(route'.ops, handles)
           /\ PostsFit(route'.ops, posted, handles)
           /\ \A d \in Calls \ {c} : CallFits(call[d], route'.ops, posted)
<1>1. handles \in handles..MaxHandles
  BY DEF IInv, ConversationTypeOK
<1>2. CASE r = NoRecord
  BY <1>1, <1>2, FilingKeeps
<1>3. CASE r # NoRecord
  BY <1>1, <1>3, FilingKeeps
<1> QED
  BY <1>2, <1>3

LEMMA EndStep ==
    ASSUME IInv, NEW c \in Calls, call[c].kind = "follow-up", NEW r \in RecordType,
           \/ r = NoRecord
           \/ /\ r.provider = call[c].provider
              /\ r.handle = FiledUnder(c).handle /\ r.content = FiledUnder(c).content
              /\ \/ r.state = "open"
                 \/ r.state = "complete" /\ call[c].sent = PartsOf[call[c].content],
           Filed(c, r), call' = [call EXCEPT ![c] = Idle],
           UNCHANGED <<now, posted, handles, handed>>
    PROVE  IInv'
<1> DEFINE K == KeyOf(call[c].provider, call[c].op)
<1>0. ConversationTypeOK
  BY DEF IInv
<1>1. /\ call[c].provider \in Agents /\ call[c].op \in FollowUpOps
      /\ call[c].content \in Contents
      /\ Held(route.ops, K, call[c])
      /\ route.ops[K] # NoRecord /\ FiledUnder(c) = route.ops[K]
      /\ call[c].handle \in 1..handles
      /\ \A d \in Calls \ {c} : call[d].handle # call[c].handle
  BY EndFinds DEF FiledUnder
<1>2. K \in Keys
  BY <1>1, KeyType
<1>3. handles \in handles..MaxHandles
  BY <1>0 DEF ConversationTypeOK
<1>4. /\ route' \in RouteType /\ route'.app = route.app /\ route'.images = route.images
      /\ route'.expiresAt = route.expiresAt
      /\ route'.ops = [route.ops EXCEPT ![K] = r]
  BY <1>0, <1>2 DEF Filed, ConversationTypeOK, RouteType
<1>5. Idle \in CallType
  BY DEF Idle, CallType
<1>6. call' \in [Calls -> CallType] /\ call'[c] = Idle /\ \A d \in Calls \ {c} : call'[d] = call[d]
  BY <1>0, <1>5 DEF ConversationTypeOK
<1>7. ConversationTypeOK'
  BY <1>0, <1>4, <1>6 DEF ConversationTypeOK
<1>8. \A d \in Calls \ {c} : call[d].kind = "follow-up" => ~Held(route.ops, K, call[d])
  BY <1>1 DEF Held
<1>9. r # NoRecord =>
          /\ r.content \in Contents /\ r.content = call[c].content /\ r.handle = call[c].handle
          /\ r.state = "complete" => \A part \in 1..PartsOf[r.content] :
                posted[<<r.handle, part>>].content = r.content
  <2>1. \A part \in 1..call[c].sent : posted[<<call[c].handle, part>>].content = call[c].content
    BY DEF IInv, CallsFit, CallFits
  <2>2. r # NoRecord => r.content = call[c].content /\ r.handle = call[c].handle
    BY <1>1 DEF Held
  <2> QED
    BY <1>1, <2>1, <2>2
<1>10. /\ LedgerFits(route'.ops, handles)
       /\ PostsFit(route'.ops, posted, handles)
       /\ \A d \in Calls \ {c} : CallFits(call[d], route'.ops, posted)
  <2> SUFFICES ASSUME NEW p \in Agents, NEW op \in FollowUpOps,
                      p = call[c].provider, op = call[c].op
               PROVE  /\ LedgerFits(route'.ops, handles)
                      /\ PostsFit(route'.ops, posted, handles)
                      /\ \A d \in Calls \ {c} : CallFits(call[d], route'.ops, posted)
    BY <1>1
  <2>1. /\ \A d \in Calls \ {c} :
              call[d].kind = "follow-up" => ~Held(route.ops, KeyOf(p, op), call[d])
        /\ route'.ops = [route.ops EXCEPT ![KeyOf(p, op)] = r]
    BY <1>4, <1>8
  <2>2. r # NoRecord =>
           /\ r.provider = p /\ r.content \in Contents
           /\ r.state \in {"open", "pending", "complete"}
           /\ route.ops[KeyOf(p, op)] # NoRecord
           /\ r.handle = route.ops[KeyOf(p, op)].handle
           /\ r.content = route.ops[KeyOf(p, op)].content
           /\ r.state = "complete" => \A part \in 1..PartsOf[r.content] :
                                         posted[<<r.handle, part>>].content = r.content
    BY <1>1, <1>9
  <2> HIDE DEF K
  <2> QED
    BY <2>1, <2>2, EndKeeps
<1>11. CallsFit'
  <2>1. CallFits(Idle, route'.ops, posted) /\ Idle.kind # "follow-up" /\ Idle.handle = 0
    BY DEF CallFits, Idle
  <2>2. \A d \in Calls \ {c} : call[d].kind = "follow-up" => call[d].handle # 0
    <3> SUFFICES ASSUME NEW d \in Calls \ {c}, call[d].kind = "follow-up"
                 PROVE  call[d].handle # 0
      OBVIOUS
    <3>1. call[d].handle \in 1..handles
      BY EndFinds
    <3> QED
      BY <3>1
  <2>3. \A d, e \in Calls : call'[d].kind = "follow-up" /\ d # e => call'[d].handle # call'[e].handle
    BY <1>6, <2>1, <2>2 DEF IInv, CallsFit
  <2> QED
    BY <1>6, <1>10, <2>1, <2>3 DEF CallsFit
<1>12. RouteHeld'
  <2>1. call'[c].kind = "idle"
    BY <1>6 DEF Idle
  <2>2. route'.expiresAt >= route.expiresAt
    BY <1>0, <1>4 DEF ConversationTypeOK, RouteType, RouteUntil
  <2> QED
    BY <1>4, <1>6, <1>7, <2>1, <2>2, HeldRoute
<1>13. ImagesFit'
  BY <1>4 DEF IInv, ImagesFit
<1> QED
  BY <1>7, <1>10, <1>11, <1>12, <1>13 DEF IInv

LEMMA SendSteps ==
    ASSUME IInv, NEW c \in Calls,
           SendSucceeds(c) \/ \E error \in {"final", "limited", "doubt"} : SendFails(c, error)
    PROVE  IInv'
<1> DEFINE o == FiledUnder(c)
<1>1. call[c].kind = "follow-up"
  BY DEF SendSucceeds, SendFails
<1>2. /\ o \in RecordType /\ o.provider = call[c].provider
      /\ call[c].provider \in Agents
  BY <1>1, EndFinds DEF Held, FiledUnder
<1>3. NoRecord \in RecordType
  BY DEF NoRecord, RecordType
<1> HIDE DEF o
<1>4. CASE SendSucceeds(c)
  <2> DEFINE r == [o EXCEPT !.state = "complete"]
  <2>1. r \in RecordType /\ r.provider = o.provider /\ r.handle = o.handle /\ r.content = o.content
        /\ r.state = "complete"
    BY <1>2 DEF RecordType
  <2>2. /\ Filed(c, r) /\ call' = [call EXCEPT ![c] = Idle]
        /\ UNCHANGED <<now, posted, handles, handed>>
        /\ call[c].sent = PartsOf[call[c].content]
    BY <1>4 DEF SendSucceeds, o
  <2> HIDE DEF r
  <2> QED
    BY <1>1, <1>2, <2>1, <2>2, EndStep DEF o
<1>5. CASE \E error \in {"final", "limited", "doubt"} : SendFails(c, error)
  <2>1. PICK error \in {"final", "limited", "doubt"} : SendFails(c, error)
    BY <1>5
  <2> DEFINE r == Aborted(o, error)
  <2>2. r = NoRecord \/ /\ r \in RecordType /\ r.provider = o.provider /\ r.handle = o.handle
                        /\ r.content = o.content /\ r.state = "open"
    <3>1. now \in 0..ConversationUntil
      BY DEF IInv, ConversationTypeOK
    <3> QED
      BY <1>2, <3>1 DEF Aborted, RecordType
  <2>3. /\ Filed(c, r) /\ call' = [call EXCEPT ![c] = Idle]
        /\ UNCHANGED <<now, posted, handles, handed>>
    BY <2>1 DEF SendFails, o
  <2> HIDE DEF r
  <2> QED
    BY <1>1, <1>2, <1>3, <2>2, <2>3, EndStep DEF o
<1> QED
  BY <1>4, <1>5

LEMMA UploadSteps ==
    ASSUME IInv, NEW c \in Calls,
           \/ \E p \in Agents, i \in ImageOps, image \in Images : BeginUpload(c, p, i, image)
           \/ Uploaded(c) \/ UploadFails(c)
    PROVE  IInv'
<1>0. /\ ConversationTypeOK /\ LedgerFits(route.ops, handles)
      /\ PostsFit(route.ops, posted, handles) /\ ImagesFit
      /\ \A d \in Calls : CallFits(call[d], route.ops, posted)
      /\ \A d, e \in Calls : call[d].kind = "follow-up" /\ d # e => call[d].handle # call[e].handle
  BY DEF IInv, CallsFit
(* The ledger of operations and the calls that post are left alone.        *)
<1>1. ASSUME NEW k \in CallType, k.kind \in {"idle", "upload"}, k.handle = 0,
             k.kind = "upload" => k.op \in ImageOps /\ k.content \in Images,
             call' = [call EXCEPT ![c] = k],
             call[c].kind # "follow-up",
             route'.ops = route.ops, posted' = posted
      PROVE  CallsFit' /\ call' \in [Calls -> CallType] /\ call'[c] = k
             /\ \A d \in Calls \ {c} : call'[d] = call[d]
  <2>1. call' \in [Calls -> CallType] /\ call'[c] = k /\ \A d \in Calls \ {c} : call'[d] = call[d]
    BY <1>0, <1>1 DEF ConversationTypeOK
  <2>2. call[c].handle = 0
    BY <1>0, <1>1 DEF CallFits
  <2>3. CallFits(k, route.ops, posted)
    BY <1>1 DEF CallFits
  <2>4. \A d, e \in Calls : call'[d].kind = "follow-up" /\ d # e => call'[d].handle # call'[e].handle
    BY <1>0, <1>1, <2>1, <2>2
  <2> QED
    BY <1>0, <1>1, <2>1, <2>3, <2>4 DEF CallsFit
<1>2. Idle \in CallType /\ Idle.kind = "idle" /\ Idle.handle = 0
  BY DEF Idle, CallType
<1>3. CASE \E p \in Agents, i \in ImageOps, image \in Images : BeginUpload(c, p, i, image)
  <2>1. PICK p \in Agents, i \in ImageOps, image \in Images : BeginUpload(c, p, i, image)
    BY <1>3
  <2> DEFINE k == [Idle EXCEPT !.kind = "upload", !.provider = p, !.op = i,
                               !.content = image, !.deadline = now + FollowUpTimeout]
  <2>2. /\ ~Busy(c) /\ RouteLive /\ route' = Pinned /\ call' = [call EXCEPT ![c] = k]
        /\ UNCHANGED <<now, posted, handles, handed>>
    BY <2>1 DEF BeginUpload
  <2>3. /\ k \in CallType /\ k.kind = "upload" /\ k.handle = 0 /\ k.op = i /\ k.content = image
        /\ k.deadline = now + FollowUpTimeout
    <3>1. now + FollowUpTimeout \in 0..(ConversationUntil + FollowUpTimeout)
      BY <1>0 DEF ConversationTypeOK
    <3> QED
      BY <1>2, <3>1 DEF CallType
  <2>4. /\ Pinned \in RouteType
        /\ Pinned.app = route.app /\ Pinned.ops = route.ops /\ Pinned.images = route.images
        /\ Pinned.expiresAt >= route.expiresAt
        /\ Pinned.expiresAt >= now + FollowUpTimeout
    BY <1>0, PinnedType
  <2> HIDE DEF k
  <2>5. /\ CallsFit' /\ call' \in [Calls -> CallType] /\ call'[c] = k
        /\ \A d \in Calls \ {c} : call'[d] = call[d]
    BY <1>1, <2>2, <2>3, <2>4 DEF Busy
  <2>6. ConversationTypeOK'
    BY <1>0, <2>2, <2>4, <2>5 DEF ConversationTypeOK
  <2>7. RouteHeld'
    BY <2>2, <2>3, <2>4, <2>5, <2>6, HeldRoute
  <2>8. ImagesFit'
    BY <1>0, <2>2, <2>4 DEF ImagesFit
  <2> QED
    BY <1>0, <2>2, <2>4, <2>5, <2>6, <2>7, <2>8 DEF IInv
<1>4. CASE UploadFails(c)
  <2>1. call[c].kind = "upload" /\ call' = [call EXCEPT ![c] = Idle]
        /\ UNCHANGED <<now, route, posted, handles, handed>>
    BY <1>4 DEF UploadFails
  <2>2. CallsFit' /\ call' \in [Calls -> CallType] /\ call'[c] = Idle
        /\ \A d \in Calls \ {c} : call'[d] = call[d]
    BY <1>1, <1>2, <2>1
  <2>3. ConversationTypeOK'
    BY <1>0, <2>1, <2>2 DEF ConversationTypeOK
  <2>4. RouteHeld'
    <3>1. route.expiresAt >= route.expiresAt
      BY <1>0 DEF ConversationTypeOK, RouteType, RouteUntil
    <3> QED
      BY <1>2, <2>1, <2>2, <2>3, <3>1, HeldRoute
  <2>5. ImagesFit'
    BY <1>0, <2>1 DEF ImagesFit
  <2> QED
    BY <1>0, <2>1, <2>2, <2>3, <2>4, <2>5 DEF IInv
<1>5. CASE Uploaded(c)
  <2> DEFINE i    == call[c].op
             new  == [key |-> handles + 1, image |-> call[c].content]
             kept == Kept(i, new)
  <2>1. /\ call[c].kind = "upload" /\ handles < MaxHandles /\ handles' = handles + 1
        /\ route' = [route EXCEPT !.images[i] = kept]
        /\ handed' = [handed EXCEPT ![i] = @ \cup {kept.key}]
        /\ call' = [call EXCEPT ![c] = Idle]
        /\ UNCHANGED <<now, posted>>
    BY <1>5 DEF Uploaded
  <2>2. i \in ImageOps /\ call[c].content \in Images
    BY <1>0, <2>1 DEF CallFits
  <2>3. handles \in Nat /\ handles + 1 \in 1..MaxHandles /\ handles + 1 \in 0..MaxHandles
    BY <1>0, <2>1 DEF ConversationTypeOK
  <2>4. new \in ImageType /\ new # NoImage /\ new.key \in 1..MaxHandles
    BY <2>2, <2>3 DEF ImageType, NoImage
  <2> HIDE DEF new, i
  <2>5. /\ kept \in ImageType /\ kept # NoImage /\ kept.key \in 1..MaxHandles
        /\ handed[i] \subseteq {kept.key}
    <3>1. route.images[i] \in ImageType
      BY <1>0, <2>2 DEF ConversationTypeOK, RouteType
    <3> QED
      BY <1>0, <2>2, <2>4, <3>1 DEF Kept, ImagesFit
  <2> HIDE DEF kept
  <2>6. /\ route' \in RouteType /\ route'.app = route.app /\ route'.ops = route.ops
        /\ route'.expiresAt = route.expiresAt
        /\ route'.images[i] = kept /\ \A j \in ImageOps \ {i} : route'.images[j] = route.images[j]
    BY <1>0, <2>1, <2>2, <2>5 DEF ConversationTypeOK, RouteType
  <2>7. CallsFit' /\ call' \in [Calls -> CallType] /\ call'[c] = Idle
        /\ \A d \in Calls \ {c} : call'[d] = call[d]
    BY <1>1, <1>2, <2>1, <2>6
  <2>8. /\ handed' \in [ImageOps -> SUBSET (1..MaxHandles)]
        /\ handed'[i] = handed[i] \cup {kept.key}
        /\ \A j \in ImageOps \ {i} : handed'[j] = handed[j]
    BY <1>0, <2>1, <2>2, <2>5 DEF ConversationTypeOK
  <2>9. ConversationTypeOK'
    BY <1>0, <2>1, <2>3, <2>6, <2>7, <2>8 DEF ConversationTypeOK
  <2>10. RouteHeld'
    <3>1. route'.expiresAt >= route.expiresAt
      BY <1>0, <2>6 DEF ConversationTypeOK, RouteType, RouteUntil
    <3> QED
      BY <1>2, <2>1, <2>6, <2>7, <2>9, <3>1, HeldRoute
  <2>11. ImagesFit'
    BY <1>0, <2>5, <2>6, <2>8 DEF ImagesFit
  <2>12. LedgerFits(route.ops, handles)'
    BY <1>0, <2>1, <2>3, <2>6 DEF LedgerFits, Proper
  <2>13. PostsFit(route.ops, posted, handles)'
    <3>1. \A h \in Handles : h > handles + 1 => h > handles
      BY <2>3 DEF Handles
    <3> QED
      BY <1>0, <2>1, <2>6, <3>1 DEF PostsFit
  <2> QED
    BY <2>7, <2>9, <2>10, <2>11, <2>12, <2>13 DEF IInv
<1> QED
  BY <1>3, <1>4, <1>5

(* Time stops for no longer than the deadline of a call under way.         *)
LEMMA TickStep ==
    ASSUME IInv, ConversationTick
    PROVE  IInv'
<1>1. /\ now < ConversationUntil /\ now' = now + 1
      /\ \A c \in Calls : Busy(c) => now < call[c].deadline
      /\ UNCHANGED <<route, call, posted, handles, handed>>
  BY DEF ConversationTick, Tick
<1>2. ConversationTypeOK'
  BY <1>1 DEF IInv, ConversationTypeOK
<1>3. RouteHeld'
  <2> SUFFICES ASSUME NEW c \in Calls, Busy(c)
               PROVE  now' <= call[c].deadline /\ route.app # Nothing
                      /\ call[c].deadline <= route.expiresAt
    BY <1>1 DEF RouteHeld, Busy
  <2>1. now \in Int /\ call[c].deadline \in Int
    BY DEF IInv, ConversationTypeOK, CallType
  <2> QED
    BY <1>1, <2>1 DEF IInv, RouteHeld
<1>4. LedgerFits(route.ops, handles)' /\ PostsFit(route.ops, posted, handles)' /\ CallsFit' /\ ImagesFit'
  BY <1>1 DEF IInv, LedgerFits, PostsFit, CallsFit, ImagesFit
<1> QED
  BY <1>2, <1>3, <1>4 DEF IInv

-----------------------------------------------------------------------------
LEMMA StepIInv ==
    ASSUME IInv, [ConversationNext]_conversationVars
    PROVE  IInv'
<1>1. CASE \E app \in ConversationApps, ps \in SUBSET Agents \ {{}} : Record(app, ps)
  BY <1>1, RecordStep
<1>2. CASE \E p \in Agents : Refresh(p)
  BY <1>2, RefreshStep
<1>3. CASE \E p \in Agents, op \in FollowUpOps, content \in Contents :
              FollowUpRefused(p, op, content)
  BY <1>3, AnswerSteps
<1>4. CASE \E p \in Agents, op \in FollowUpOps, content \in Contents, c \in Calls :
              BeginNew(c, p, op, content) \/ BeginAgain(c, p, op, content)
  BY <1>4, BeginNewStep, BeginAgainStep
<1>5. CASE \E p \in Agents, i \in ImageOps, image \in Images : UploadAnswered(p, i, image)
  BY <1>5, AnswerSteps
<1>6. CASE \E p \in Agents, i \in ImageOps, image \in Images, c \in Calls :
              BeginUpload(c, p, i, image)
  BY <1>6, UploadSteps
<1>7. CASE \E c \in Calls : Arrive(c)
  BY <1>7, ArriveStep
<1>8. CASE \E c \in Calls : \/ SendSucceeds(c)
                            \/ \E error \in {"final", "limited", "doubt"} : SendFails(c, error)
  BY <1>8, SendSteps
<1>9. CASE \E c \in Calls : Uploaded(c) \/ UploadFails(c)
  BY <1>9, UploadSteps
<1>10. CASE ConversationTick
  BY <1>10, TickStep
<1>11. CASE UNCHANGED conversationVars
  <2>1. UNCHANGED <<now, route, call, posted, handles, handed>>
    BY <1>11 DEF conversationVars
  <2> QED
    BY <2>1 DEF IInv, ConversationTypeOK, LedgerFits, PostsFit, CallsFit, RouteHeld, Busy, ImagesFit
<1> QED
  BY <1>1, <1>2, <1>3, <1>4, <1>5, <1>6, <1>7, <1>8, <1>9, <1>10, <1>11 DEF ConversationNext

LEMMA SpecIInv == ConversationSpec => []IInv
<1>1. IInv /\ [ConversationNext]_conversationVars => IInv'
  BY StepIInv
<1> QED
  BY InitIInv, <1>1, PTL DEF ConversationSpec

(* The route, its ledgers and grants, the calls and the posts keep their   *)
(* types, the times among them within what a grant or a pin reaches.       *)
THEOREM ConversationTypeCorrect == ConversationSpec => []ConversationTypeOK
<1>1. IInv => ConversationTypeOK
  BY DEF IInv
<1> QED
  BY <1>1, SpecIInv, PTL

(* For any number of providers, operations and calls, a follow-up under    *)
(* way finds its route, and under its operation the record it claimed,     *)
(* whoever files, releases or claims the same operation id meanwhile.      *)
THEOREM RecordsAreOwned == ConversationSpec => []CallsOwnTheirRecords
<1>1. IInv => CallsOwnTheirRecords
  <2> SUFFICES ASSUME IInv, NEW c \in Calls, Busy(c)
               PROVE  /\ RouteLive
                      /\ call[c].kind = "follow-up" =>
                            /\ FiledUnder(c).provider = call[c].provider
                            /\ FiledUnder(c).content = call[c].content
                            /\ FiledUnder(c).handle = call[c].handle
                            /\ FiledUnder(c).state = "pending"
                            /\ \A d \in Calls \ {c} : call[d].handle # call[c].handle
    BY DEF CallsOwnTheirRecords
  <2> QED
    BY BusyLive, EndFinds DEF Held, FiledUnder
<1> QED
  BY <1>1, SpecIInv, PTL

(* For any number of providers, operations and calls and any split of the  *)
(* content, what is on file as complete has all its parts in Feishu.       *)
THEOREM CompletionIsPosted == ConversationSpec => []CompleteIsPosted
<1>1. IInv => CompleteIsPosted
  BY DEF IInv, PostsFit, CompleteIsPosted
<1> QED
  BY <1>1, SpecIInv, PTL

-----------------------------------------------------------------------------
(* The limit on images is read before an upload: each image on file beyond *)
(* it took the place of an upload that ran beside the last one admitted.   *)
Uploading == {c \in Calls : call[c].kind = "upload"}

ImagesCounted ==
    /\ IsFiniteSet(Stored)
    /\ Cardinality(Stored) + Cardinality(Uploading) <= MaxImages + Cardinality(Calls) - 1

LEMMA CountTypes ==
    /\ IsFiniteSet(Uploading) /\ Cardinality(Uploading) \in Nat
    /\ Cardinality(Calls) \in Nat /\ Cardinality(Calls) >= 1
    /\ Cardinality(Uploading) <= Cardinality(Calls)
    /\ IsFiniteSet(Stored) => Cardinality(Stored) \in Nat
<1>1. Uploading \subseteq Calls
  BY DEF Uploading
<1>2. Cardinality(Calls) # 0
  BY FS_EmptySet
<1> QED
  BY <1>1, <1>2, FS_Subset, FS_CardinalityType

LEMMA CountShrinks ==
    ASSUME ImagesCounted, Stored' \subseteq Stored, Uploading' \subseteq Uploading
    PROVE  ImagesCounted'
<1>1. IsFiniteSet(Stored') /\ Cardinality(Stored') <= Cardinality(Stored)
  BY FS_Subset DEF ImagesCounted
<1>2. IsFiniteSet(Uploading') /\ Cardinality(Uploading') <= Cardinality(Uploading)
  BY CountTypes, FS_Subset
<1>3. /\ Cardinality(Stored) \in Nat /\ Cardinality(Uploading) \in Nat
      /\ Cardinality(Stored') \in Nat /\ Cardinality(Uploading') \in Nat
  BY <1>1, <1>2, CountTypes, FS_CardinalityType DEF ImagesCounted
<1> QED
  BY <1>1, <1>2, <1>3, CountTypes DEF ImagesCounted

LEMMA CountUploads ==
    ASSUME IInv, ImagesCounted, NEW c \in Calls,
           \/ \E p \in Agents, i \in ImageOps, image \in Images : BeginUpload(c, p, i, image)
           \/ Uploaded(c) \/ UploadFails(c)
    PROVE  ImagesCounted'
<1>0. /\ call \in [Calls -> CallType] /\ route \in RouteType
      /\ Cardinality(Stored) \in Nat /\ IsFiniteSet(Stored)
  BY CountTypes DEF IInv, ConversationTypeOK, ImagesCounted
<1>1. CASE \E p \in Agents, i \in ImageOps, image \in Images : BeginUpload(c, p, i, image)
  <2>1. Cardinality(Stored) < MaxImages /\ route' = Pinned
    BY <1>1 DEF BeginUpload
  <2>2. Stored' = Stored
    BY <2>1, PinnedType DEF Stored, IInv
  <2>3. Uploading' \in SUBSET Calls
    BY DEF Uploading
  <2>4. IsFiniteSet(Uploading') /\ Cardinality(Uploading') <= Cardinality(Calls)
        /\ Cardinality(Uploading') \in Nat
    BY <2>3, FS_Subset, FS_CardinalityType
  <2> QED
    BY <1>0, <2>1, <2>2, <2>4, CountTypes DEF ImagesCounted
<1>2. CASE UploadFails(c)
  <2>1. route' = route /\ call' = [call EXCEPT ![c] = Idle]
    BY <1>2 DEF UploadFails
  <2>2. Stored' \subseteq Stored /\ Uploading' \subseteq Uploading
    BY <1>0, <2>1 DEF Stored, Uploading, Idle
  <2> QED
    BY <2>2, CountShrinks
<1>3. CASE Uploaded(c)
  <2> DEFINE i    == call[c].op
             kept == Kept(i, [key |-> handles + 1, image |-> call[c].content])
  <2>1. /\ call[c].kind = "upload" /\ call' = [call EXCEPT ![c] = Idle]
        /\ route' = [route EXCEPT !.images[i] = kept]
    BY <1>3 DEF Uploaded
  <2>2. c \in Uploading /\ Uploading' = Uploading \ {c}
    BY <1>0, <2>1 DEF Uploading, Idle
  <2>3. Cardinality(Uploading') = Cardinality(Uploading) - 1
    BY <2>2, CountTypes, FS_RemoveElement
  <2> HIDE DEF kept, i
  <2>4. Stored' \subseteq Stored \cup {i}
    <3>1. \A j \in ImageOps \ {i} : route'.images[j] = route.images[j]
      BY <1>0, <2>1 DEF RouteType
    <3> QED
      BY <3>1 DEF Stored
  <2>5. IsFiniteSet(Stored \cup {i}) /\ Cardinality(Stored \cup {i}) <= Cardinality(Stored) + 1
    <3>1. Cardinality(Stored \cup {i}) = IF i \in Stored THEN Cardinality(Stored)
                                                         ELSE Cardinality(Stored) + 1
      BY <1>0, FS_AddElement, Zenon
    <3>2. IsFiniteSet(Stored \cup {i})
      BY <1>0, FS_AddElement, Zenon
    <3> QED
      BY <1>0, <3>1, <3>2
  <2>6. IsFiniteSet(Stored') /\ Cardinality(Stored') <= Cardinality(Stored \cup {i})
    BY <2>4, <2>5, FS_Subset
  <2>7. Cardinality(Stored') \in Nat /\ Cardinality(Stored \cup {i}) \in Nat
    BY <2>5, <2>6, FS_CardinalityType
  <2> QED
    BY <1>0, <2>3, <2>5, <2>6, <2>7, CountTypes DEF ImagesCounted
<1> QED
  BY <1>1, <1>2, <1>3

LEMMA CountStep ==
    ASSUME IInv, ImagesCounted, [ConversationNext]_conversationVars
    PROVE  ImagesCounted'
<1>0. /\ ConversationTypeOK /\ call \in [Calls -> CallType] /\ route \in RouteType
  BY DEF IInv, ConversationTypeOK
<1>1. CASE \E app \in ConversationApps, ps \in SUBSET Agents \ {{}} : Record(app, ps)
  <2>1. call' = call /\ (route'.images = route.images \/ route'.images = NoRoute.images)
    <3>1. NoRoute = [app |-> Nothing, expiresAt |-> NoRoute.expiresAt, grant |-> NoRoute.grant,
                     ops |-> NoRoute.ops, images |-> NoRoute.images]
      BY DEF NoRoute
    <3> QED
      BY <1>0, <1>1, <3>1 DEF Record, RouteType
  <2>2. Stored' \subseteq Stored /\ Uploading' \subseteq Uploading
    BY <2>1 DEF Stored, Uploading, NoRoute
  <2> QED
    BY <2>2, CountShrinks
<1>2. CASE \/ \E p \in Agents : Refresh(p)
           \/ ConversationTick \/ UNCHANGED conversationVars
  <2>1. call' = call /\ route'.images = route.images
    BY <1>0, <1>2 DEF Refresh, ConversationTick, conversationVars, RouteType
  <2>2. Stored' \subseteq Stored /\ Uploading' \subseteq Uploading
    BY <2>1 DEF Stored, Uploading
  <2> QED
    BY <2>2, CountShrinks
<1>3. CASE \E p \in Agents :
              \/ \E op \in FollowUpOps, content \in Contents : FollowUpRefused(p, op, content)
              \/ \E i \in ImageOps, image \in Images : UploadAnswered(p, i, image)
  <2>1. call' = call /\ route'.images = route.images
    BY <1>0, <1>3, PinnedType DEF FollowUpRefused, UploadAnswered
  <2>2. Stored' \subseteq Stored /\ Uploading' \subseteq Uploading
    BY <2>1 DEF Stored, Uploading
  <2> QED
    BY <2>2, CountShrinks
<1>4. CASE \E p \in Agents, op \in FollowUpOps, content \in Contents, c \in Calls :
              BeginNew(c, p, op, content) \/ BeginAgain(c, p, op, content)
  <2>1. PICK p \in Agents, op \in FollowUpOps, content \in Contents, c \in Calls :
              BeginNew(c, p, op, content) \/ BeginAgain(c, p, op, content)
    BY <1>4
  <2>2. route'.images = route.images
    BY <1>0, <2>1, PinnedType DEF BeginNew, BeginAgain, RouteType
  <2>3. \A d \in Calls : call'[d].kind = "upload" => call[d].kind = "upload"
    BY <1>0, <2>1 DEF BeginNew, BeginAgain, Begun
  <2>4. Stored' \subseteq Stored /\ Uploading' \subseteq Uploading
    BY <2>2, <2>3 DEF Stored, Uploading
  <2> QED
    BY <2>4, CountShrinks
<1>5. CASE \E c \in Calls : \/ Arrive(c) \/ SendSucceeds(c)
                            \/ \E error \in {"final", "limited", "doubt"} : SendFails(c, error)
  <2>1. PICK c \in Calls : \/ Arrive(c) \/ SendSucceeds(c)
                           \/ \E error \in {"final", "limited", "doubt"} : SendFails(c, error)
    BY <1>5
  <2>2. route'.images = route.images
    BY <1>0, <2>1 DEF Arrive, SendSucceeds, SendFails, Filed, RouteType
  <2>3. \A d \in Calls : call'[d].kind = "upload" => call[d].kind = "upload"
    BY <1>0, <2>1 DEF Arrive, SendSucceeds, SendFails, Idle, CallType
  <2>4. Stored' \subseteq Stored /\ Uploading' \subseteq Uploading
    BY <2>2, <2>3 DEF Stored, Uploading
  <2> QED
    BY <2>4, CountShrinks
<1>6. CASE \E c \in Calls :
              \/ \E p \in Agents, i \in ImageOps, image \in Images : BeginUpload(c, p, i, image)
              \/ Uploaded(c) \/ UploadFails(c)
  BY <1>6, CountUploads
<1> QED
  BY <1>1, <1>2, <1>3, <1>4, <1>5, <1>6 DEF ConversationNext

(* For any number of uploads side by side, all callers of an operation     *)
(* hold one key.                                                           *)
THEOREM UploadsKeepOneKey == ConversationSpec => []OneKeyPerUpload
<1>1. IInv => OneKeyPerUpload
  <2> SUFFICES ASSUME IInv, NEW i \in ImageOps PROVE Cardinality(handed[i]) <= 1
    BY DEF OneKeyPerUpload
  <2> DEFINE key == route.images[i].key
  <2>1. handed[i] \subseteq {key}
    BY DEF IInv, ImagesFit
  <2> HIDE DEF key
  <2>2. CASE handed[i] = {}
    BY <2>2, FS_EmptySet
  <2>3. CASE handed[i] = {key}
    <3>1. Cardinality({key}) = 1
      BY FS_Singleton
    <3> QED
      BY <2>3, <3>1
  <2> QED
    BY <2>1, <2>2, <2>3
<1> QED
  BY <1>1, SpecIInv, PTL

(* The limit on images is passed, but by fewer images than there are       *)
(* concurrent calls.                                                       *)
THEOREM OvershootIsBounded ==
    ConversationSpec => [](Cardinality(Stored) <= MaxImages + Cardinality(Calls) - 1)
<1>1. ConversationInit => ImagesCounted
  <2> SUFFICES ASSUME ConversationInit PROVE ImagesCounted
    OBVIOUS
  <2>1. Stored = {} /\ Uploading = {}
    BY DEF ConversationInit, NoRoute, Idle, Stored, Uploading
  <2> QED
    BY <2>1, FS_EmptySet, CountTypes DEF ImagesCounted
<1>2. IInv /\ ImagesCounted /\ [ConversationNext]_conversationVars => ImagesCounted'
  BY CountStep
<1>3. ImagesCounted => Cardinality(Stored) <= MaxImages + Cardinality(Calls) - 1
  BY CountTypes, ConversationAssumption DEF ImagesCounted
<1> QED
  BY <1>1, <1>2, <1>3, SpecIInv, PTL DEF ConversationSpec

=============================================================================
