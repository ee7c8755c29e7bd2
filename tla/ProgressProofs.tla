---------------------------- MODULE ProgressProofs ----------------------------
(***************************************************************************)
(* Theorems about Progress for any number of steps, starts and updates:    *)
(* a CoT message gets every event it is due, once and in order.            *)
(*                                                                         *)
(* The events of an update are computed by going through the steps one by  *)
(* one, so what they are is shown by induction over the number of steps.   *)
(***************************************************************************)
EXTENDS Progress, WellFoundedInduction, SequenceTheorems, FiniteSetTheorems, TLAPS

USE ProgressAssumption

-----------------------------------------------------------------------------
(***************************************************************************)
(* Induction, over a set instead of a predicate.                           *)
(***************************************************************************)
LEMMA LeastNumber ==
    ASSUME NEW T, T \subseteq Nat, T # {}
    PROVE  \E n \in T : \A m \in T : ~(m < n)
<1> DEFINE R == {ss \in Nat \X Nat : ss[1] < ss[2]}
<1>1. IsWellFoundedOn(R, Nat)
  BY NatLessThanWellFounded DEF OpToRel
<1>2. PICK n \in T : \A m \in T : ~(<<m, n>> \in R)
  <2> HIDE DEF R
  <2> QED
    BY <1>1, WFMin
<1>3. \A m \in Nat, k \in Nat : m < k => <<m, k>> \in R
  OBVIOUS
<1> QED
  BY <1>2, <1>3

LEMMA SetInduction ==
    ASSUME NEW S, 0 \in S, \A n \in Nat : n \in S => n + 1 \in S
    PROVE  \A n \in Nat : n \in S
<1> SUFFICES ASSUME Nat \ S # {} PROVE FALSE
  OBVIOUS
<1> DEFINE T == Nat \ S
<1>1. T \subseteq Nat /\ T # {}
  OBVIOUS
<1>2. PICK n \in T : \A m \in T : ~(m < n)
  <2> HIDE DEF T
  <2> QED
    BY <1>1, LeastNumber
<1>3. n # 0 /\ n - 1 \in Nat
  OBVIOUS
<1>4. n - 1 \in S
  BY <1>2, <1>3
<1> QED
  BY <1>3, <1>4

(* Concatenation from the left, as FlattenSeq does it, has a value for     *)
(* every number of pieces.                                                 *)
LEMMA JoinsExist ==
    ASSUME NEW pieces, NEW n \in Nat
    PROVE  \E f : f = [i \in 1..n |-> IF i = 1 THEN pieces[i] ELSE f[i-1] \o pieces[i]]
<1> DEFINE Joined(f, k) == f = [i \in 1..k |-> IF i = 1 THEN pieces[i] ELSE f[i-1] \o pieces[i]]
           S == {k \in Nat : \E f : Joined(f, k)}
<1>1. 0 \in S
  <2>1. Joined([i \in 1..0 |-> i], 0)
    OBVIOUS
  <2> QED
    BY <2>1
<1>2. ASSUME NEW k \in Nat, k \in S PROVE k + 1 \in S
  <2>1. PICK f : Joined(f, k)
    BY <1>2
  <2> DEFINE g == [i \in 1..(k+1) |->
                     IF i = k + 1 THEN IF i = 1 THEN pieces[i] ELSE f[k] \o pieces[i]
                     ELSE f[i]]
  <2>2. ASSUME NEW i \in 1..(k+1)
        PROVE  g[i] = IF i = 1 THEN pieces[i] ELSE g[i-1] \o pieces[i]
    <3>1. CASE i = k + 1 /\ i # 1
      <4>1. i - 1 = k /\ k \in 1..(k+1) /\ k # k + 1
        BY <3>1
      <4>2. g[k] = f[k]
        BY <4>1
      <4> QED
        BY <3>1, <4>1, <4>2
    <3>2. CASE i = 1
      <4>1. k + 1 # 1 => f[1] = pieces[1]
        BY <2>1
      <4> QED
        BY <3>2, <4>1
    <3>3. CASE i # k + 1 /\ i # 1
      <4>1. i \in 1..k /\ i - 1 \in 1..(k+1) /\ i - 1 # k + 1
        BY <3>3
      <4>2. g[i] = f[i] /\ g[i-1] = f[i-1]
        BY <3>3, <4>1
      <4>3. f[i] = f[i-1] \o pieces[i]
        BY <2>1, <3>3, <4>1
      <4> QED
        BY <3>3, <4>2, <4>3
    <3> QED
      BY <3>1, <3>2, <3>3
  <2>3. Joined(g, k + 1)
    <3>1. g = [i \in 1..(k+1) |-> g[i]]
      OBVIOUS
    <3> HIDE DEF g
    <3> QED
      BY <2>2, <3>1
  <2> HIDE DEF g, Joined
  <2> QED
    BY <2>3
<1> HIDE DEF S
<1>3. \A k \in Nat : k \in S
  BY <1>1, <1>2, SetInduction
<1> QED
  BY <1>3 DEF S

LEMMA FlattenIsJoin ==
    ASSUME NEW pieces, NEW n \in Nat, n # 0, Len(pieces) = n
    PROVE  \E f : /\ f = [i \in 1..n |-> IF i = 1 THEN pieces[i] ELSE f[i-1] \o pieces[i]]
                  /\ FlattenSeq(pieces) = f[n]
<1> DEFINE flatten == CHOOSE f : f = [i \in 1..n |-> IF i = 1 THEN pieces[i]
                                                    ELSE f[i-1] \o pieces[i]]
<1>1. flatten = [i \in 1..n |-> IF i = 1 THEN pieces[i] ELSE flatten[i-1] \o pieces[i]]
  BY JoinsExist
<1>2. FlattenSeq(pieces) = flatten[n]
  BY DEF FlattenSeq
<1> HIDE DEF flatten
<1> QED
  BY <1>1, <1>2

-----------------------------------------------------------------------------
(***************************************************************************)
(* Sequences of events.                                                    *)
(***************************************************************************)
Events == Seq(CoTEvents)

(* The events of a step come in the order they happened.                   *)
StartsFirst(events) ==
    \A i, j \in DOMAIN events :
        events[i].kind = "finished" /\ events[j] = Event("started", events[i].step) => j < i

(* Neither of two sequences repeats an event of the other.                 *)
Apart(a, b) == \A i \in DOMAIN a, j \in DOMAIN b : a[i] # b[j]

(* No step starts in the second that has finished in the first.            *)
NoneReopens(a, b) ==
    \A i \in DOMAIN a, j \in DOMAIN b :
        ~(a[i].kind = "finished" /\ b[j] = Event("started", a[i].step))

LEMMA JoinedAt ==
    ASSUME NEW a \in Events, NEW b \in Events
    PROVE  /\ a \o b \in Events
           /\ DOMAIN (a \o b) = 1..(Len(a) + Len(b))
           /\ \A i \in DOMAIN (a \o b) :
                 \/ i \in DOMAIN a /\ (a \o b)[i] = a[i]
                 \/ i - Len(a) \in DOMAIN b /\ i > Len(a) /\ (a \o b)[i] = b[i - Len(a)]
           /\ \A i \in DOMAIN a : i \in DOMAIN (a \o b) /\ (a \o b)[i] = a[i]
           /\ \A j \in DOMAIN b :
                 j + Len(a) \in DOMAIN (a \o b) /\ (a \o b)[j + Len(a)] = b[j]
<1>1. /\ DOMAIN a = 1..Len(a) /\ DOMAIN b = 1..Len(b)
      /\ Len(a) \in Nat /\ Len(b) \in Nat
  BY DEF Events
<1>2. /\ a \o b \in Seq(CoTEvents) /\ Len(a \o b) = Len(a) + Len(b)
      /\ \A i \in 1..(Len(a) + Len(b)) :
            (a \o b)[i] = IF i <= Len(a) THEN a[i] ELSE b[i - Len(a)]
  BY ConcatProperties DEF Events
<1>3. DOMAIN (a \o b) = 1..(Len(a) + Len(b))
  BY <1>2
<1> QED
  BY <1>1, <1>2, <1>3 DEF Events

LEMMA JoinedSet ==
    ASSUME NEW a \in Events, NEW b \in Events
    PROVE  ToSet(a \o b) = ToSet(a) \cup ToSet(b)
<1>1. \A e \in ToSet(a \o b) : e \in ToSet(a) \cup ToSet(b)
  BY JoinedAt DEF ToSet
<1>2. \A e \in ToSet(a) : e \in ToSet(a \o b)
  BY JoinedAt DEF ToSet
<1>3. ASSUME NEW j \in DOMAIN b PROVE b[j] \in ToSet(a \o b)
  <2>1. j + Len(a) \in DOMAIN (a \o b) /\ (a \o b)[j + Len(a)] = b[j]
    BY JoinedAt
  <2> QED
    BY <2>1 DEF ToSet
<1>4. \A e \in ToSet(b) : e \in ToSet(a \o b)
  BY <1>3 DEF ToSet
<1> QED
  BY <1>1, <1>2, <1>4

LEMMA JoinedInjective ==
    ASSUME NEW a \in Events, NEW b \in Events, IsInjective(a), IsInjective(b), Apart(a, b)
    PROVE  IsInjective(a \o b)
<1> SUFFICES ASSUME NEW i \in DOMAIN (a \o b), NEW j \in DOMAIN (a \o b),
                    (a \o b)[i] = (a \o b)[j]
             PROVE  i = j
  BY DEF IsInjective
<1>1. i \in Nat /\ j \in Nat /\ Len(a) \in Nat
  BY JoinedAt DEF Events
<1>2. CASE i \in DOMAIN a /\ (a \o b)[i] = a[i]
  <2>1. ~(j - Len(a) \in DOMAIN b /\ (a \o b)[j] = b[j - Len(a)])
    BY <1>2 DEF Apart
  <2>2. j \in DOMAIN a /\ (a \o b)[j] = a[j]
    BY <2>1, JoinedAt
  <2> QED
    BY <1>2, <2>2 DEF IsInjective
<1>3. CASE i - Len(a) \in DOMAIN b /\ (a \o b)[i] = b[i - Len(a)]
  <2>1. ~(j \in DOMAIN a /\ (a \o b)[j] = a[j])
    BY <1>3 DEF Apart
  <2>2. j - Len(a) \in DOMAIN b /\ (a \o b)[j] = b[j - Len(a)]
    BY <2>1, JoinedAt
  <2>3. i - Len(a) = j - Len(a)
    BY <1>3, <2>2 DEF IsInjective
  <2> QED
    BY <1>1, <2>3
<1> QED
  BY <1>2, <1>3, JoinedAt

LEMMA JoinedStartsFirst ==
    ASSUME NEW a \in Events, NEW b \in Events, StartsFirst(a), StartsFirst(b), NoneReopens(a, b)
    PROVE  StartsFirst(a \o b)
<1> SUFFICES ASSUME NEW i \in DOMAIN (a \o b), NEW j \in DOMAIN (a \o b),
                    (a \o b)[i].kind = "finished",
                    (a \o b)[j] = Event("started", (a \o b)[i].step)
             PROVE  j < i
  BY DEF StartsFirst
<1>1. i \in Nat /\ j \in Nat /\ Len(a) \in Nat /\ DOMAIN a = 1..Len(a)
  BY JoinedAt DEF Events
<1>2. CASE i \in DOMAIN a /\ (a \o b)[i] = a[i]
  <2>1. ~(j - Len(a) \in DOMAIN b /\ (a \o b)[j] = b[j - Len(a)])
    BY <1>2 DEF NoneReopens
  <2>2. j \in DOMAIN a /\ (a \o b)[j] = a[j]
    BY <2>1, JoinedAt
  <2> QED
    BY <1>2, <2>2 DEF StartsFirst
<1>3. CASE i - Len(a) \in DOMAIN b /\ i > Len(a) /\ (a \o b)[i] = b[i - Len(a)]
  <2>1. CASE j \in DOMAIN a
    BY <1>1, <1>3, <2>1
  <2>2. CASE j - Len(a) \in DOMAIN b /\ (a \o b)[j] = b[j - Len(a)]
    <3>1. j - Len(a) < i - Len(a)
      BY <1>3, <2>2 DEF StartsFirst
    <3> QED
      BY <1>1, <3>1
  <2> QED
    BY <2>1, <2>2, JoinedAt
<1> QED
  BY <1>2, <1>3, JoinedAt

(* What the sequences hold tells whether they are apart.                   *)
LEMMA DisjointApart ==
    ASSUME NEW a, NEW b, ToSet(a) \cap ToSet(b) = {}
    PROVE  Apart(a, b)
BY DEF ToSet, Apart

-----------------------------------------------------------------------------
(***************************************************************************)
(* agentCoTStepEvents: the events of a snapshot, by their steps.           *)
(***************************************************************************)
(* The events a step has had, up to step n.                                *)
StepsDue(steps, n) ==
    {Event("started", s)  : s \in {t \in 1..n : steps[t] # "unseen"}}
    \cup {Event("finished", s) : s \in {t \in 1..n : steps[t] = "finished"}}

NewDue(steps, snapshot, n) == StepsDue(Moved(steps, snapshot), n) \ StepsDue(steps, n)

Piece(steps, snapshot, s) ==
    (IF steps[s] = "unseen" /\ Moved(steps, snapshot)[s] # "unseen"
     THEN <<Event("started", s)>> ELSE <<>>)
    \o (IF steps[s] # "finished" /\ Moved(steps, snapshot)[s] = "finished"
        THEN <<Event("finished", s)>> ELSE <<>>)

(* The events of the first n steps as they ought to be.                    *)
Told(events, steps, snapshot, n) ==
    /\ events \in Events
    /\ ToSet(events) = NewDue(steps, snapshot, n)
    /\ IsInjective(events)
    /\ StartsFirst(events)

LEMMA EventsDiffer ==
    /\ \A k1, k2, s1, s2 : Event(k1, s1) = Event(k2, s2) <=> k1 = k2 /\ s1 = s2
    /\ \A k, s : Event(k, s).kind = k /\ Event(k, s).step = s
BY DEF Event

LEMMA MovedType ==
    ASSUME NEW steps \in Snapshots, NEW snapshot \in Snapshots
    PROVE  /\ Moved(steps, snapshot) \in Snapshots
           /\ \A s \in StepIds :
                 /\ steps[s] # "unseen" => Moved(steps, snapshot)[s] # "unseen"
                 /\ steps[s] = "finished" => Moved(steps, snapshot)[s] = "finished"
BY DEF Moved, Snapshots

LEMMA PieceIs ==
    ASSUME NEW steps \in Snapshots, NEW snapshot \in Snapshots, NEW s \in StepIds
    PROVE  /\ Piece(steps, snapshot, s) \in Events
           /\ \A e : e \in ToSet(Piece(steps, snapshot, s)) <=>
                 \/ /\ e = Event("started", s)
                    /\ steps[s] = "unseen" /\ Moved(steps, snapshot)[s] # "unseen"
                 \/ /\ e = Event("finished", s)
                    /\ steps[s] # "finished" /\ Moved(steps, snapshot)[s] = "finished"
           /\ IsInjective(Piece(steps, snapshot, s))
           /\ StartsFirst(Piece(steps, snapshot, s))
<1> DEFINE first  == IF steps[s] = "unseen" /\ Moved(steps, snapshot)[s] # "unseen"
                     THEN <<Event("started", s)>> ELSE <<>>
           second == IF steps[s] # "finished" /\ Moved(steps, snapshot)[s] = "finished"
                     THEN <<Event("finished", s)>> ELSE <<>>
<1>1. Piece(steps, snapshot, s) = first \o second
  BY DEF Piece
<1>2. Event("started", s) \in CoTEvents /\ Event("finished", s) \in CoTEvents
  BY DEF CoTEvents
<1>3. /\ first \in Events /\ second \in Events
      /\ \A i \in DOMAIN first : first[i] = Event("started", s) /\ i = 1
      /\ \A i \in DOMAIN second : second[i] = Event("finished", s) /\ i = 1
      /\ ToSet(first) = IF steps[s] = "unseen" /\ Moved(steps, snapshot)[s] # "unseen"
                        THEN {Event("started", s)} ELSE {}
      /\ ToSet(second) = IF steps[s] # "finished" /\ Moved(steps, snapshot)[s] = "finished"
                         THEN {Event("finished", s)} ELSE {}
  BY <1>2 DEF Events, ToSet
<1> HIDE DEF first, second
<1>4. /\ IsInjective(first) /\ IsInjective(second) /\ Apart(first, second)
      /\ StartsFirst(first) /\ StartsFirst(second) /\ NoneReopens(first, second)
  BY <1>3, EventsDiffer DEF IsInjective, Apart, StartsFirst, NoneReopens
<1>5. ToSet(first \o second) = ToSet(first) \cup ToSet(second)
  BY <1>3, JoinedSet
<1> QED
  BY <1>1, <1>3, <1>4, <1>5, JoinedAt, JoinedInjective, JoinedStartsFirst

(* One more step.                                                          *)
LEMMA ToldNext ==
    ASSUME NEW steps \in Snapshots, NEW snapshot \in Snapshots, NEW n \in Nat,
           n + 1 \in StepIds, NEW events, Told(events, steps, snapshot, n)
    PROVE  Told(events \o Piece(steps, snapshot, n + 1), steps, snapshot, n + 1)
<1> DEFINE piece == Piece(steps, snapshot, n + 1)
<1>1. /\ piece \in Events /\ IsInjective(piece) /\ StartsFirst(piece)
      /\ \A e \in ToSet(piece) : e.step = n + 1
  BY PieceIs, EventsDiffer
<1>2. /\ events \in Events /\ IsInjective(events) /\ StartsFirst(events)
      /\ ToSet(events) = NewDue(steps, snapshot, n)
  BY DEF Told
<1>3. \A e \in ToSet(events) : e.step # n + 1
  BY <1>2, EventsDiffer DEF NewDue, StepsDue
<1>4. ToSet(events) \cup ToSet(piece) = NewDue(steps, snapshot, n + 1)
  <2>1. \A t : t \in 1..(n+1) <=> t \in 1..n \/ t = n + 1
    OBVIOUS
  <2>2. n + 1 \notin 1..n
    OBVIOUS
  <2> DEFINE moved == Moved(steps, snapshot)
  <2>3. ASSUME NEW e
        PROVE  e \in NewDue(steps, snapshot, n + 1) <=>
                  \/ e \in NewDue(steps, snapshot, n)
                  \/ e = Event("started", n + 1) /\ steps[n+1] = "unseen" /\ moved[n+1] # "unseen"
                  \/ e = Event("finished", n + 1) /\ steps[n+1] # "finished" /\ moved[n+1] = "finished"
    <3> HIDE DEF moved
    <3>1. \A some : e \in StepsDue(some, n + 1) <=>
             \/ e \in StepsDue(some, n)
             \/ e = Event("started", n + 1) /\ some[n+1] # "unseen"
             \/ e = Event("finished", n + 1) /\ some[n+1] = "finished"
      BY <2>1 DEF StepsDue
    <3>2. \A some : e = Event("started", n + 1) \/ e = Event("finished", n + 1)
             => e \notin StepsDue(some, n)
      BY <2>2, EventsDiffer DEF StepsDue
    <3>3. "started" # "finished"
      OBVIOUS
    <3> QED
      BY <3>1, <3>2, <3>3, EventsDiffer DEF NewDue, moved
  <2> QED
    BY <1>2, <2>3, PieceIs
<1>5. Apart(events, piece)
  BY <1>1, <1>3, DisjointApart
<1>6. NoneReopens(events, piece)
  <2>1. \A i \in DOMAIN events : events[i].step # n + 1
    BY <1>3 DEF ToSet
  <2>2. \A j \in DOMAIN piece : piece[j].step = n + 1
    BY <1>1 DEF ToSet
  <2> HIDE DEF piece
  <2> QED
    BY <2>1, <2>2, EventsDiffer DEF NoneReopens
<1> HIDE DEF piece
<1>7. events \o piece \in Events
  BY <1>1, <1>2, JoinedAt
<1>8. ToSet(events \o piece) = NewDue(steps, snapshot, n + 1)
  BY <1>1, <1>2, <1>4, JoinedSet
<1>9. IsInjective(events \o piece) /\ StartsFirst(events \o piece)
  BY <1>1, <1>2, <1>5, <1>6, JoinedInjective, JoinedStartsFirst
<1> QED
  BY <1>7, <1>8, <1>9 DEF Told, piece

(* The events of an update are those the steps have had since the last:    *)
(* each once, a start before its end.                                      *)
LEMMA StepEventsTold ==
    ASSUME NEW steps \in Snapshots, NEW snapshot \in Snapshots
    PROVE  Told(StepEvents(steps, snapshot), steps, snapshot, StepCount)
<1> DEFINE pieces == [s \in StepIds |-> Piece(steps, snapshot, s)]
<1>1. StepEvents(steps, snapshot) = FlattenSeq(pieces)
  BY DEF StepEvents, Piece
<1>2. StepCount \in Nat /\ StepIds = 1..StepCount
  BY DEF StepIds
<1>3. pieces \in Seq(Events) /\ Len(pieces) = StepCount
  <2>1. \A s \in StepIds : Piece(steps, snapshot, s) \in Events
    BY PieceIs
  <2> QED
    BY <1>2, <2>1
<1>4. Told(<<>>, steps, snapshot, 0)
  <2>1. StepsDue(steps, 0) = {} /\ StepsDue(Moved(steps, snapshot), 0) = {}
    BY DEF StepsDue
  <2> QED
    BY <2>1 DEF Told, Events, NewDue, ToSet, IsInjective, StartsFirst
<1>5. CASE StepCount = 0
  <2>1. FlattenSeq(pieces) = pieces
    BY <1>3, <1>5 DEF FlattenSeq
  <2>2. pieces = <<>>
    BY <1>3, <1>5
  <2> QED
    BY <1>1, <1>4, <1>5, <2>1, <2>2
<1>6. CASE StepCount # 0
  <2>1. PICK f : /\ f = [i \in StepIds |-> IF i = 1 THEN pieces[i] ELSE f[i-1] \o pieces[i]]
                 /\ FlattenSeq(pieces) = f[StepCount]
    BY <1>2, <1>3, <1>6, FlattenIsJoin
  <2> DEFINE S == {n \in Nat : n = 0 \/ n > StepCount \/ Told(f[n], steps, snapshot, n)}
  <2>2. 0 \in S
    OBVIOUS
  <2>3. ASSUME NEW n \in Nat, n \in S PROVE n + 1 \in S
    <3>1. CASE n + 1 > StepCount
      BY <3>1
    <3>2. CASE n = 0 /\ n + 1 <= StepCount
      <4>1. 1 \in StepIds /\ f[1] = Piece(steps, snapshot, 1)
        BY <1>2, <2>1, <3>2
      <4>2. Told(<<>> \o Piece(steps, snapshot, 1), steps, snapshot, 1)
        <5>1. 0 + 1 = 1
          OBVIOUS
        <5>2. 0 + 1 \in StepIds => Told(<<>> \o Piece(steps, snapshot, 0 + 1), steps, snapshot, 0 + 1)
          BY <1>4, ToldNext
        <5> QED
          BY <4>1, <5>1, <5>2
      <4>3. <<>> \o Piece(steps, snapshot, 1) = Piece(steps, snapshot, 1)
        BY <4>1, PieceIs DEF Events
      <4>4. Told(f[1], steps, snapshot, 1)
        BY <4>1, <4>2, <4>3
      <4> QED
        BY <3>2, <4>4
    <3>3. CASE n # 0 /\ n + 1 <= StepCount
      <4>1. n + 1 \in StepIds /\ n + 1 # 1 /\ (n + 1) - 1 = n
        BY <1>2, <3>3
      <4>2. f[n + 1] = f[n] \o Piece(steps, snapshot, n + 1)
        BY <2>1, <4>1
      <4>3. Told(f[n], steps, snapshot, n)
        BY <2>3, <3>3, <1>2
      <4>4. Told(f[n + 1], steps, snapshot, n + 1)
        BY <4>1, <4>2, <4>3, ToldNext
      <4> QED
        BY <4>4
    <3> QED
      BY <1>2, <3>1, <3>2, <3>3
  <2> HIDE DEF S
  <2>4. StepCount \in S
    BY <1>2, <2>2, <2>3, SetInduction
  <2>5. Told(f[StepCount], steps, snapshot, StepCount)
    BY <1>2, <1>6, <2>4 DEF S
  <2> QED
    BY <1>1, <2>1, <2>5
<1> QED
  BY <1>5, <1>6

-----------------------------------------------------------------------------
(***************************************************************************)
(* The CoT messages at Feishu.  What the daemon knows of them is a set of  *)
(* events that are due; every one of them is in the message, or is missed, *)
(* and one that is under way is missed.  As due events only grow and new   *)
(* ones are never due already, no event is ever sent twice.                *)
(***************************************************************************)
Endings == {"done", "error"}

Streams  == [events : Events, state : {"open"} \cup Endings]
Requests == [id : Nat, events : Events, state : {"open"} \cup Endings]

SideType == [streams : Seq(Streams), underway : SUBSET Requests, missed : SUBSET CoTEvents]

Closable(endings, state) == state = "open" \/ state \in endings

NothingTwice(side) ==
    /\ \A id \in DOMAIN side.streams : IsInjective(side.streams[id].events)
    /\ \A r \in side.underway :
          /\ r.id \in DOMAIN side.streams
          /\ IsInjective(r.events)
          /\ ToSet(r.events) \cap ToSet(side.streams[r.id].events) = {}
    /\ \A q, r \in side.underway :
          q # r /\ q.id = r.id => ToSet(q.events) \cap ToSet(r.events) = {}

ClosedBy(side, endings) ==
    /\ \A id \in DOMAIN side.streams : Closable(endings, side.streams[id].state)
    /\ \A r \in side.underway : Closable(endings, r.state)

(* The message of the response, if it has one.                             *)
Accounted(side, id, due) ==
    id # 0 =>
        /\ id \in DOMAIN side.streams
        /\ ToSet(side.streams[id].events) \cup side.missed = due
        /\ \A r \in side.underway : r.id = id => ToSet(r.events) \subseteq side.missed
        /\ side.missed = {} /\ due # {} => InOrder(side.streams[id].events)

SideOK(side, id, due, endings) ==
    /\ side \in SideType
    /\ NothingTwice(side)
    /\ ClosedBy(side, endings)
    /\ Accounted(side, id, due)

(* A message takes a request, and nothing is lost or repeated.             *)
MayTake(side, request) ==
    /\ side \in SideType /\ NothingTwice(side)
    /\ request \in Requests /\ IsInjective(request.events)
    /\ request.id \in DOMAIN side.streams
    /\ side.streams[request.id].state = "open"
    /\ ToSet(side.streams[request.id].events) \cap ToSet(request.events) = {}

Took(side, request, id, all) ==
    /\ all \in Seq(Streams) /\ DOMAIN all = DOMAIN side.streams
    /\ all[id].events = side.streams[id].events \o request.events
    /\ all[id].state = request.state
    /\ \A i \in DOMAIN side.streams \ {id} : all[i] = side.streams[i]
    /\ ToSet(all[id].events) = ToSet(side.streams[id].events) \cup ToSet(request.events)
    /\ IsInjective(all[id].events)

LEMMA StreamTakes ==
    ASSUME NEW side, NEW request, MayTake(side, request)
    PROVE  Took(side, request, request.id, Taken(side.streams, request))
<1> USE DEF MayTake
<1> DEFINE all == Taken(side.streams, request)
           id  == request.id
           next == [events |-> side.streams[id].events \o request.events, state |-> request.state]
<1>1. side.streams \in Seq(Streams) /\ side.streams[id] \in Streams
  BY DEF SideType
<1>2. side.streams[id].events \in Events /\ IsInjective(side.streams[id].events)
  BY <1>1 DEF Streams, NothingTwice
<1>3. all = [side.streams EXCEPT ![id] = next]
  BY <1>1 DEF Taken, Streams
<1>4. next \in Streams /\ request.events \in Events
  BY <1>2, JoinedAt DEF Streams, Requests
<1>5. Apart(side.streams[id].events, request.events)
  BY DisjointApart
<1>6. /\ ToSet(next.events) = ToSet(side.streams[id].events) \cup ToSet(request.events)
      /\ IsInjective(next.events)
  BY <1>2, <1>4, <1>5, JoinedSet, JoinedInjective
<1> HIDE DEF next
<1>7. /\ all \in Seq(Streams) /\ DOMAIN all = DOMAIN side.streams
      /\ all[id] = next /\ \A i \in DOMAIN side.streams \ {id} : all[i] = side.streams[i]
  BY <1>1, <1>3, <1>4
<1> HIDE DEF all, id
<1>8. /\ all[id].events = next.events /\ all[id].state = request.state
      /\ next.events = side.streams[id].events \o request.events
  <2>1. /\ next.events = side.streams[id].events \o request.events
        /\ next.state = request.state
    BY DEF next
  <2> QED
    BY <1>7, <2>1
<1>9. /\ ToSet(all[id].events) = ToSet(side.streams[id].events) \cup ToSet(request.events)
      /\ IsInjective(all[id].events)
  BY <1>6, <1>8
<1> QED
  BY <1>7, <1>8, <1>9 DEF Took, all, id

(* A request with events nobody has sent before.                           *)
LEMMA SentOK ==
    ASSUME NEW side, NEW id \in Nat \ {0}, NEW due, NEW endings, SideOK(side, id, due, endings),
           side.streams[id].state = "open",
           NEW events \in Events, IsInjective(events), ToSet(events) \cap due = {},
           side.missed = {} => InOrder(side.streams[id].events \o events) \/ events = <<>>,
           NEW outcome \in Outcomes
    PROVE  LET next == Sent(side, Appending(id, events), outcome)
           IN  /\ SideOK(next, id, due \cup ToSet(events), endings)
               /\ next.streams[id].state = "open"
<1> DEFINE request == [id |-> id, events |-> events, state |-> "open"]
           next == Sent(side, request, outcome)
<1>0. /\ side \in SideType /\ NothingTwice(side) /\ ClosedBy(side, endings)
      /\ Accounted(side, id, due) /\ id \in DOMAIN side.streams
      /\ ToSet(side.streams[id].events) \cup side.missed = due
      /\ \A r \in side.underway : r.id = id => ToSet(r.events) \subseteq side.missed
      /\ side.streams \in Seq(Streams) /\ side.underway \subseteq Requests
      /\ side.missed \subseteq CoTEvents
  BY DEF SideOK, Accounted, SideType
<1>1. Appending(id, events) = request /\ request \in Requests
  BY DEF Appending, Requests
<1>2. CASE events = <<>>
  <2>1. next = side /\ ToSet(events) = {}
    BY <1>2 DEF Sent, ToSet
  <2>2. due \cup ToSet(events) = due
    BY <2>1
  <2> QED
    BY <1>1, <2>1, <2>2
<1>3. CASE events # <<>>
  <2>1. next = [streams  |-> IF outcome = "ok" THEN Taken(side.streams, request) ELSE side.streams,
                underway |-> side.underway \cup (IF outcome = "doubt" THEN {request} ELSE {}),
                missed   |-> side.missed \cup (IF outcome = "ok" THEN {} ELSE ToSet(events))]
    BY <1>3 DEF Sent
  <2>2. ToSet(events) \subseteq CoTEvents /\ ToSet(events) # {}
    <3>1. events \in Seq(CoTEvents) /\ DOMAIN events = 1..Len(events) /\ Len(events) \in Nat
      BY DEF Events
    <3>2. Len(events) # 0
      BY <1>3, <3>1
    <3>3. 1 \in DOMAIN events
      BY <3>1, <3>2
    <3> QED
      BY <3>1, <3>3 DEF ToSet
  <2>3. CASE outcome = "ok"
    <3> DEFINE all == Taken(side.streams, request)
    <3>1. next = [streams |-> all, underway |-> side.underway, missed |-> side.missed]
      BY <2>1, <2>3
    <3>2. ToSet(side.streams[id].events) \cap ToSet(events) = {}
      BY <1>0
    <3>3. /\ all \in Seq(Streams) /\ DOMAIN all = DOMAIN side.streams
          /\ all[id].events = side.streams[id].events \o events
          /\ all[id].state = "open"
          /\ \A i \in DOMAIN side.streams \ {id} : all[i] = side.streams[i]
          /\ ToSet(all[id].events) = ToSet(side.streams[id].events) \cup ToSet(events)
          /\ IsInjective(all[id].events)
      <4>1. request.id = id /\ request.events = events /\ request.state = "open"
        OBVIOUS
      <4>2. all = Taken(side.streams, request)
        OBVIOUS
      <4> HIDE DEF request, all
      <4>3. MayTake(side, request)
        BY <1>0, <1>1, <3>2, <4>1 DEF MayTake
      <4>4. Took(side, request, id, all)
        BY <4>1, <4>2, <4>3, StreamTakes
      <4> QED
        BY <4>1, <4>4 DEF Took
    <3> HIDE DEF all
    <3>4. next.streams = all /\ next.underway = side.underway /\ next.missed = side.missed
      BY <3>1
    <3>5. next \in SideType
      BY <1>0, <3>1, <3>3 DEF SideType
    <3> HIDE DEF next
    <3>6. NothingTwice(next)
      <4>1. \A i \in DOMAIN all : IsInjective(all[i].events)
        BY <1>0, <3>3 DEF NothingTwice
      <4>2. ASSUME NEW r \in side.underway
            PROVE  /\ r.id \in DOMAIN all /\ IsInjective(r.events)
                   /\ ToSet(r.events) \cap ToSet(all[r.id].events) = {}
        <5>1. /\ r.id \in DOMAIN side.streams /\ IsInjective(r.events)
              /\ ToSet(r.events) \cap ToSet(side.streams[r.id].events) = {}
          BY <1>0 DEF NothingTwice
        <5>2. CASE r.id = id
          <6>1. ToSet(r.events) \subseteq due
            BY <1>0, <5>2
          <6> QED
            BY <3>3, <5>1, <5>2, <6>1
        <5>3. CASE r.id # id
          BY <3>3, <5>1, <5>3
        <5> QED
          BY <5>2, <5>3
      <4> QED
        BY <1>0, <3>4, <4>1, <4>2 DEF NothingTwice
    <3>7. ClosedBy(next, endings)
      BY <1>0, <3>3, <3>4 DEF ClosedBy, Closable
    <3>8. Accounted(next, id, due \cup ToSet(events))
      <4>1. next.missed = {} => InOrder(all[id].events)
        BY <1>3, <3>3, <3>4
      <4> QED
        BY <1>0, <3>3, <3>4, <4>1 DEF Accounted
    <3> QED
      BY <1>1, <3>3, <3>4, <3>5, <3>6, <3>7, <3>8 DEF SideOK, next
  <2>4. CASE outcome # "ok"
    <3>1. /\ next.streams = side.streams
          /\ next.underway = side.underway \cup (IF outcome = "doubt" THEN {request} ELSE {})
          /\ next.missed = side.missed \cup ToSet(events)
      BY <2>1, <2>4
    <3>2. next \in SideType
      BY <1>0, <1>1, <2>1, <2>2, <2>4 DEF SideType
    <3> HIDE DEF next
    <3>3. \A r \in next.underway : r \in side.underway \/ r = request
      BY <3>1
    <3>4. NothingTwice(next)
      <4>1. \A r \in side.underway : r.id = id => ToSet(r.events) \cap ToSet(events) = {}
        BY <1>0
      <4>2. ToSet(events) \cap ToSet(side.streams[id].events) = {}
        BY <1>0
      <4>3. request.id = id /\ request.events = events
        OBVIOUS
      <4> HIDE DEF request
      <4> QED
        BY <1>0, <3>1, <3>3, <4>1, <4>2, <4>3 DEF NothingTwice
    <3>5. ClosedBy(next, endings)
      BY <1>0, <3>1, <3>3 DEF ClosedBy, Closable
    <3>6. Accounted(next, id, due \cup ToSet(events))
      <4>1. \A r \in next.underway : r.id = id => ToSet(r.events) \subseteq next.missed
        BY <1>0, <3>1, <3>3
      <4> QED
        BY <1>0, <2>2, <3>1, <4>1 DEF Accounted
    <3> QED
      BY <1>1, <3>1, <3>2, <3>4, <3>5, <3>6 DEF SideOK, next
  <2> QED
    BY <2>3, <2>4
<1> QED
  BY <1>2, <1>3

(* The request that closes a message has no events.                        *)
LEMMA ClosingOK ==
    ASSUME NEW side, NEW id \in Nat \ {0}, NEW due, SideOK(side, id, due, {}),
           NEW ending \in Endings, NEW outcome \in Outcomes
    PROVE  SideOK(Sent(side, [id |-> id, events |-> <<>>, state |-> ending], outcome),
                  id, due, {ending})
<1> DEFINE request == [id |-> id, events |-> <<>>, state |-> ending]
           next == Sent(side, request, outcome)
<1>0. /\ side \in SideType /\ NothingTwice(side) /\ ClosedBy(side, {})
      /\ Accounted(side, id, due) /\ id \in DOMAIN side.streams
      /\ side.streams \in Seq(Streams) /\ side.underway \subseteq Requests
      /\ side.missed \subseteq CoTEvents
      /\ side.streams[id].state = "open" /\ side.streams[id].events \in Events
  <2>1. /\ side \in SideType /\ NothingTwice(side) /\ ClosedBy(side, {})
        /\ Accounted(side, id, due) /\ id \in DOMAIN side.streams
    BY DEF SideOK, Accounted
  <2>2. /\ side.streams \in Seq(Streams) /\ side.underway \subseteq Requests
        /\ side.missed \subseteq CoTEvents
    BY <2>1 DEF SideType
  <2>3. side.streams[id] \in Streams /\ side.streams[id].state = "open"
    BY <2>1, <2>2 DEF ClosedBy, Closable
  <2> QED
    BY <2>1, <2>2, <2>3 DEF Streams
<1>1. request \in Requests /\ <<>> \in Events /\ IsInjective(<<>>) /\ ToSet(<<>>) = {}
  BY DEF Requests, Events, IsInjective, ToSet
<1>2. next = [streams  |-> IF outcome = "ok" THEN Taken(side.streams, request) ELSE side.streams,
              underway |-> side.underway \cup (IF outcome = "doubt" THEN {request} ELSE {}),
              missed   |-> side.missed]
  BY <1>1 DEF Sent, Endings
<1>3. CASE outcome = "ok"
  <2> DEFINE all == Taken(side.streams, request)
  <2>1. /\ next.streams = all /\ next.underway = side.underway /\ next.missed = side.missed
        /\ next = [streams |-> all, underway |-> side.underway, missed |-> side.missed]
    BY <1>2, <1>3
  <2>2. /\ all \in Seq(Streams) /\ DOMAIN all = DOMAIN side.streams
        /\ all[id].events = side.streams[id].events \o <<>>
        /\ all[id].state = ending
        /\ \A i \in DOMAIN side.streams \ {id} : all[i] = side.streams[i]
    <3>1. /\ request.id = id /\ request.events = <<>> /\ request.state = ending
          /\ ToSet(side.streams[id].events) \cap ToSet(request.events) = {}
          /\ request \in Requests /\ IsInjective(request.events)
      BY <1>1
    <3>2. all = Taken(side.streams, request)
      OBVIOUS
    <3> HIDE DEF request, all
    <3>3. MayTake(side, request)
      BY <1>0, <3>1 DEF MayTake
    <3>4. Took(side, request, id, all)
      BY <3>1, <3>2, <3>3, StreamTakes
    <3> QED
      BY <3>1, <3>4 DEF Took
  <2>3. all[id].events = side.streams[id].events
    BY <1>0, <2>2 DEF Events
  <2> HIDE DEF all
  <2>4. next \in SideType
    BY <1>0, <2>1, <2>2 DEF SideType
  <2> HIDE DEF next
  <2>5. \A i \in DOMAIN all : all[i].events = side.streams[i].events
    BY <2>2, <2>3
  <2>6. NothingTwice(next)
    BY <1>0, <2>1, <2>2, <2>5 DEF NothingTwice
  <2>7. ClosedBy(next, {ending})
    BY <1>0, <2>1, <2>2 DEF ClosedBy, Closable
  <2>8. Accounted(next, id, due)
    BY <1>0, <2>1, <2>2, <2>3 DEF Accounted
  <2> QED
    BY <2>4, <2>6, <2>7, <2>8 DEF SideOK, next
<1>4. CASE outcome # "ok"
  <2>1. /\ next.streams = side.streams /\ next.missed = side.missed
        /\ next.underway = side.underway \cup (IF outcome = "doubt" THEN {request} ELSE {})
    BY <1>2, <1>4
  <2>2. next \in SideType
    BY <1>0, <1>1, <1>2, <1>4 DEF SideType
  <2> HIDE DEF next
  <2>3. \A r \in next.underway : r \in side.underway \/ r = request
    BY <2>1
  <2>4. request.id = id /\ request.events = <<>> /\ request.state = ending
    OBVIOUS
  <2> HIDE DEF request
  <2>5. NothingTwice(next)
    BY <1>0, <1>1, <2>1, <2>3, <2>4 DEF NothingTwice
  <2>6. ClosedBy(next, {ending})
    BY <1>0, <2>1, <2>3, <2>4 DEF ClosedBy, Closable
  <2>7. Accounted(next, id, due)
    <3>1. \A r \in next.underway : r.id = id => ToSet(r.events) \subseteq next.missed
      BY <1>0, <1>1, <2>1, <2>3, <2>4 DEF Accounted
    <3> QED
      BY <1>0, <2>1, <3>1 DEF Accounted
  <2> QED
    BY <2>2, <2>5, <2>6, <2>7 DEF SideOK, next, request
<1> QED
  BY <1>3, <1>4

-----------------------------------------------------------------------------
(***************************************************************************)
(* The inductive invariant: the messages as above, with what is due by now *)
(* and how the response ended, if it did; and the reactions.               *)
(***************************************************************************)
Ended == IF period \in Endings THEN {period} ELSE {}

ReactionsOK ==
    /\ period \in {"delivered", "streaming"} \cup Endings
    /\ worn \in [shown : BOOLEAN, known : BOOLEAN]
    /\ worn.known /\ period = "streaming" => worn.shown
    /\ worn.shown /\ (period # "streaming" \/ ~worn.known) => Working \in doubted
    /\ chosen \in [ReactionOps -> Emojis \cup {NoEmoji}]
    /\ shown \subseteq ReactionOps \X Emojis
    /\ doubted \subseteq ReactionOps \cup {Working}
    /\ \A op \in ReactionOps \ doubted :
          {e \in Emojis : <<op, e>> \in shown} = {chosen[op]} \ {NoEmoji}

MessagesOK ==
    /\ cot \in [id : Nat, steps : Snapshots]
    /\ SideOK(Present, cot.id, Due, Ended)

ProgressInv == MessagesOK /\ ReactionsOK

(* What is due by a snapshot is what was due and the events it adds.       *)
DueOf(steps) == {RunStarted} \cup StepsDue(steps, StepCount)

LEMMA DueIs ==
    /\ Due = DueOf(cot.steps) \cup (IF period \in Endings THEN {RunFinished} ELSE {})
    /\ Due' = DueOf(cot'.steps) \cup (IF period' \in Endings THEN {RunFinished} ELSE {})
BY DEF Due, DueOf, StepsDue, StepIds, Endings

LEMMA DueAdds ==
    ASSUME NEW steps \in Snapshots, NEW snapshot \in Snapshots
    PROVE  LET new == StepEvents(steps, snapshot)
           IN  /\ new \in Events /\ IsInjective(new) /\ StartsFirst(new)
               /\ DueOf(Moved(steps, snapshot)) = DueOf(steps) \cup ToSet(new)
               /\ ToSet(new) \cap DueOf(steps) = {}
               /\ RunFinished \notin ToSet(new) /\ RunStarted \notin ToSet(new)
               /\ RunFinished \notin DueOf(steps)
<1> DEFINE new == StepEvents(steps, snapshot)
<1>1. /\ new \in Events /\ IsInjective(new) /\ StartsFirst(new)
      /\ ToSet(new) = NewDue(steps, snapshot, StepCount)
  BY StepEventsTold DEF Told
<1>2. StepsDue(steps, StepCount) \subseteq StepsDue(Moved(steps, snapshot), StepCount)
  <2>1. 1..StepCount = StepIds
    BY DEF StepIds
  <2> QED
    BY <2>1, MovedType DEF StepsDue
<1>3. \A any : RunStarted \notin StepsDue(any, StepCount)
               /\ RunFinished \notin StepsDue(any, StepCount)
  BY EventsDiffer DEF StepsDue, RunStarted, RunFinished
<1>4. RunStarted # RunFinished
  BY EventsDiffer DEF RunStarted, RunFinished
<1> HIDE DEF new
<1>5. RunFinished \notin ToSet(new) /\ RunStarted \notin ToSet(new)
  BY <1>1, <1>3 DEF NewDue
<1>6. DueOf(Moved(steps, snapshot)) = DueOf(steps) \cup ToSet(new)
  BY <1>1, <1>2 DEF NewDue, DueOf
<1>7. ToSet(new) \cap DueOf(steps) = {}
  BY <1>1, <1>5 DEF NewDue, DueOf
<1>8. RunFinished \notin DueOf(steps)
  BY <1>3, <1>4 DEF DueOf
<1> QED
  BY <1>1, <1>5, <1>6, <1>7, <1>8 DEF new

(* A message in order stays so when the next events are those of an update *)
(* or the end of the run.                                                  *)
LEMMA OrderGrows ==
    ASSUME NEW a \in Events, NEW b \in Events, InOrder(a), a # <<>>, RunFinished \notin ToSet(a),
           StartsFirst(b), NoneReopens(a, b), RunFinished \in ToSet(b) => b = <<RunFinished>>
    PROVE  InOrder(a \o b)
<1>1. StartsFirst(a) /\ a[1] = RunStarted
  BY DEF InOrder, StartsFirst
<1>2. StartsFirst(a \o b)
  BY <1>1, JoinedStartsFirst
<1>3. 1 \in DOMAIN a /\ Len(a) \in Nat /\ Len(b) \in Nat
  <2>1. a \in Seq(CoTEvents) /\ DOMAIN a = 1..Len(a) /\ Len(a) \in Nat /\ Len(b) \in Nat
    BY DEF Events
  <2>2. Len(a) # 0
    BY <2>1
  <2> QED
    BY <2>1, <2>2
<1>4. (a \o b)[1] = RunStarted
  BY <1>1, <1>3, JoinedAt
<1>5. RunFinished \in ToSet(a \o b) => Last(a \o b) = RunFinished
  <2> SUFFICES ASSUME RunFinished \in ToSet(a \o b) PROVE Last(a \o b) = RunFinished
    OBVIOUS
  <2>1. b = <<RunFinished>>
    BY JoinedSet
  <2>2. Len(a \o b) = Len(a) + 1
    BY <1>3, <2>1, ConcatProperties DEF Events
  <2>3. (a \o b)[1 + Len(a)] = b[1]
    BY <2>1, JoinedAt
  <2> QED
    BY <1>3, <2>1, <2>2, <2>3 DEF Last
<1> QED
  BY <1>2, <1>4, <1>5 DEF InOrder, StartsFirst

(* What is due to a message in order, a sequence of new events may follow. *)
LEMMA NextInOrder ==
    ASSUME NEW side, NEW id \in Nat \ {0}, NEW due, NEW endings, SideOK(side, id, due, endings),
           RunStarted \in due, RunFinished \notin due,
           NEW events \in Events, StartsFirst(events),
           \A s : Event("finished", s) \in due => Event("started", s) \notin ToSet(events),
           RunFinished \in ToSet(events) => events = <<RunFinished>>,
           side.missed = {}
    PROVE  InOrder(side.streams[id].events \o events)
<1> DEFINE sofar == side.streams[id].events
<1>1. /\ id \in DOMAIN side.streams /\ side.streams \in Seq(Streams)
      /\ ToSet(sofar) = due /\ InOrder(sofar)
  BY DEF SideOK, Accounted, SideType
<1>2. sofar \in Events
  <2>1. side.streams[id] \in Streams
    BY <1>1
  <2> QED
    BY <2>1 DEF Streams
<1>3. sofar # <<>>
  BY <1>1 DEF ToSet
<1>4. NoneReopens(sofar, events)
  <2> SUFFICES ASSUME NEW i \in DOMAIN sofar, NEW j \in DOMAIN events,
                      sofar[i].kind = "finished", events[j] = Event("started", sofar[i].step)
               PROVE  FALSE
    BY DEF NoneReopens
  <2>1. sofar[i] \in CoTEvents /\ sofar[i] \in due
    BY <1>1, <1>2 DEF Events, ToSet
  <2>2. sofar[i] = Event("finished", sofar[i].step)
    BY <2>1, EventsDiffer DEF CoTEvents, RunStarted, RunFinished
  <2>3. events[j] \in ToSet(events)
    BY DEF ToSet
  <2> HIDE DEF sofar
  <2> QED
    BY <2>1, <2>2, <2>3
<1> HIDE DEF sofar
<1>5. InOrder(sofar \o events)
  BY <1>1, <1>2, <1>3, <1>4, OrderGrows
<1> QED
  BY <1>5 DEF sofar

-----------------------------------------------------------------------------
(* The requests of a response, one by one.                                 *)
LEMMA UnclosedIsOpen ==
    ASSUME NEW side, NEW id \in Nat \ {0}, NEW due, SideOK(side, id, due, {})
    PROVE  side.streams[id].state = "open"
BY DEF SideOK, Accounted, ClosedBy, Closable

LEMMA StepsSent ==
    ASSUME NEW side, NEW id \in Nat \ {0}, NEW steps \in Snapshots, NEW snapshot \in Snapshots,
           SideOK(side, id, DueOf(steps), {}), NEW outcome \in Outcomes
    PROVE  SideOK(Sent(side, Appending(id, StepEvents(steps, snapshot)), outcome),
                  id, DueOf(Moved(steps, snapshot)), {})
<1> DEFINE new == StepEvents(steps, snapshot)
           due == DueOf(steps)
<1>1. /\ new \in Events /\ IsInjective(new) /\ StartsFirst(new)
      /\ DueOf(Moved(steps, snapshot)) = due \cup ToSet(new) /\ ToSet(new) \cap due = {}
      /\ RunFinished \notin ToSet(new) /\ RunFinished \notin due
  BY DueAdds
<1>2. RunStarted \in due
  BY DEF DueOf
<1>3. \A s : Event("finished", s) \in due => Event("started", s) \in due
  BY EventsDiffer DEF DueOf, StepsDue, RunStarted, Snapshots
<1> HIDE DEF new, due
<1>4. SideOK(side, id, due, {})
  BY DEF due
<1>5. side.missed = {} => InOrder(side.streams[id].events \o new)
  <2>1. \A s : Event("finished", s) \in due => Event("started", s) \notin ToSet(new)
    BY <1>1, <1>3
  <2> QED
    BY <1>1, <1>2, <1>4, <2>1, NextInOrder
<1>6. SideOK(Sent(side, Appending(id, new), outcome), id, due \cup ToSet(new), {})
  BY <1>1, <1>4, <1>5, UnclosedIsOpen, SentOK
<1> QED
  BY <1>1, <1>6 DEF new

LEMMA EndSent ==
    ASSUME NEW side, NEW id \in Nat \ {0}, NEW steps \in Snapshots,
           SideOK(side, id, DueOf(steps), {}), NEW outcome \in Outcomes
    PROVE  SideOK(Sent(side, Appending(id, <<RunFinished>>), outcome),
                  id, DueOf(steps) \cup {RunFinished}, {})
<1> DEFINE due == DueOf(steps)
<1>1. RunStarted \in due /\ RunFinished \notin due
  BY EventsDiffer DEF DueOf, StepsDue, RunStarted, RunFinished
<1>2. PICK events : events = <<RunFinished>>
  OBVIOUS
<1>3. /\ events \in Events /\ IsInjective(events) /\ ToSet(events) = {RunFinished}
      /\ DOMAIN events = {1} /\ events[1] = RunFinished
  <2>1. RunFinished \in CoTEvents
    BY DEF CoTEvents
  <2> QED
    BY <1>2, <2>1 DEF Events, IsInjective, ToSet
<1>4. StartsFirst(events)
  BY <1>3, EventsDiffer DEF StartsFirst, RunFinished
<1>5. \A s : Event("started", s) \notin ToSet(events)
  BY <1>3, EventsDiffer DEF RunFinished
<1> HIDE DEF due
<1>6. SideOK(side, id, due, {})
  BY DEF due
<1>7. side.missed = {} => InOrder(side.streams[id].events \o events)
  BY <1>1, <1>2, <1>3, <1>4, <1>5, <1>6, NextInOrder
<1>8. SideOK(Sent(side, Appending(id, events), outcome), id, due \cup ToSet(events), {})
  <2>1. ToSet(events) \cap due = {}
    BY <1>1, <1>3
  <2>2. side.streams[id].state = "open"
    BY <1>6, UnclosedIsOpen
  <2>3. side.missed = {} => InOrder(side.streams[id].events \o events) \/ events = <<>>
    BY <1>7
  <2>4. events \in Events /\ IsInjective(events)
    BY <1>3
  <2> QED
    BY <1>6, <2>1, <2>2, <2>3, <2>4, SentOK
<1> QED
  BY <1>2, <1>3, <1>8 DEF due

(* A new message, with nothing in it and nothing due.                      *)
OpenedSide(side) ==
    [streams  |-> Append(side.streams, [events |-> <<>>, state |-> "open"]),
     underway |-> side.underway,
     missed   |-> {}]

(* What a Start without a message leaves: nothing is missed.               *)
ForgottenSide(side) == [streams |-> side.streams, underway |-> side.underway, missed |-> {}]

LEMMA OpenedOK ==
    ASSUME NEW side, NEW id, NEW due, SideOK(side, id, due, {})
    PROVE  /\ SideOK(OpenedSide(side), Len(side.streams) + 1, {}, {})
           /\ OpenedSide(side).streams[Len(side.streams) + 1].events = <<>>
           /\ Len(side.streams) + 1 \in Nat \ {0}
<1> DEFINE new == Len(side.streams) + 1
           all == Append(side.streams, [events |-> <<>>, state |-> "open"])
           next == OpenedSide(side)
<1>1. /\ side \in SideType /\ NothingTwice(side) /\ ClosedBy(side, {})
      /\ side.streams \in Seq(Streams) /\ side.underway \subseteq Requests
  BY DEF SideOK, SideType
<1>2. next = [streams |-> all, underway |-> side.underway, missed |-> {}]
  BY DEF OpenedSide
<1>3. [events |-> <<>>, state |-> "open"] \in Streams
  BY DEF Streams, Events
<1>4. /\ all \in Seq(Streams) /\ new \in DOMAIN all /\ all[new] = [events |-> <<>>, state |-> "open"]
      /\ DOMAIN all = DOMAIN side.streams \cup {new} /\ new \notin DOMAIN side.streams
      /\ \A i \in DOMAIN side.streams : all[i] = side.streams[i]
  BY <1>1, <1>3, AppendProperties
<1>5. all[new].events = <<>> /\ all[new].state = "open"
  BY <1>4
<1>6. IsInjective(<<>>) /\ ToSet(<<>>) = {}
  BY DEF IsInjective, ToSet
<1> HIDE DEF all, new
<1>7. next \in SideType /\ next.streams = all /\ next.underway = side.underway /\ next.missed = {}
  BY <1>1, <1>2, <1>4 DEF SideType
<1> HIDE DEF next
<1>8. NothingTwice(next)
  BY <1>1, <1>4, <1>5, <1>6, <1>7 DEF NothingTwice
<1>9. ClosedBy(next, {})
  BY <1>1, <1>4, <1>5, <1>7 DEF ClosedBy, Closable
<1>10. Accounted(next, new, {})
  <2>1. \A r \in side.underway : r.id # new
    BY <1>1, <1>4 DEF NothingTwice
  <2> QED
    BY <1>4, <1>5, <1>6, <1>7, <2>1 DEF Accounted
<1>11. next.streams[new].events = <<>>
  BY <1>5, <1>7
<1>12. Len(side.streams) \in Nat
  BY <1>1
<1> QED
  BY <1>7, <1>8, <1>9, <1>10, <1>11, <1>12 DEF SideOK, next, new

LEMMA BeginSent ==
    ASSUME NEW side, NEW id \in Nat \ {0}, SideOK(side, id, {}, {}),
           side.streams[id].events = <<>>,
           NEW snapshot \in Snapshots, NEW outcome \in Outcomes
    PROVE  SideOK(Sent(side, Appending(id, <<RunStarted>> \o StepEvents(Unseen, snapshot)),
                       outcome),
                  id, DueOf(Moved(Unseen, snapshot)), {})
<1> DEFINE new == StepEvents(Unseen, snapshot)
<1>1. Unseen \in Snapshots
  BY DEF Unseen, Snapshots
<1>2. /\ new \in Events /\ IsInjective(new) /\ StartsFirst(new)
      /\ DueOf(Moved(Unseen, snapshot)) = DueOf(Unseen) \cup ToSet(new)
      /\ RunFinished \notin ToSet(new) /\ RunStarted \notin ToSet(new)
  BY <1>1, DueAdds
<1>3. DueOf(Unseen) = {RunStarted}
  BY DEF DueOf, StepsDue, Unseen, StepIds
<1>4. PICK first : first = <<RunStarted>>
  OBVIOUS
<1>5. /\ first \in Events /\ IsInjective(first) /\ ToSet(first) = {RunStarted}
      /\ DOMAIN first = {1} /\ first[1] = RunStarted
  <2>1. RunStarted \in CoTEvents
    BY DEF CoTEvents
  <2> QED
    BY <1>4, <2>1 DEF Events, IsInjective, ToSet
<1>6. StartsFirst(first) /\ NoneReopens(first, new)
  BY <1>5, EventsDiffer DEF StartsFirst, NoneReopens, RunStarted
<1> HIDE DEF new
<1> DEFINE events == first \o new
<1>7. events \in Events /\ ToSet(events) = {RunStarted} \cup ToSet(new)
  <2>1. events \in Events
    BY <1>2, <1>5, JoinedAt
  <2>2. ToSet(events) = ToSet(first) \cup ToSet(new)
    BY <1>2, <1>5, JoinedSet
  <2> QED
    BY <1>5, <2>1, <2>2
<1>8. IsInjective(events)
  <2>1. Apart(first, new)
    BY <1>2, <1>5, DisjointApart
  <2> QED
    BY <1>2, <1>5, <2>1, JoinedInjective
<1>9. StartsFirst(events)
  BY <1>2, <1>5, <1>6, JoinedStartsFirst
<1>10. events[1] = RunStarted
  BY <1>2, <1>5, JoinedAt
<1> HIDE DEF events
<1>11. InOrder(events)
  <2>1. RunFinished \notin ToSet(events)
    BY <1>2, <1>7, EventsDiffer DEF RunStarted, RunFinished
  <2> QED
    BY <1>9, <1>10, <2>1 DEF InOrder, StartsFirst
<1>12. side.streams[id].events \o events = events
  BY <1>7 DEF Events
<1>13. SideOK(Sent(side, Appending(id, events), outcome), id, {} \cup ToSet(events), {})
  <2>1. ToSet(events) \cap {} = {}
    OBVIOUS
  <2> QED
    BY <1>7, <1>8, <1>11, <1>12, <2>1, UnclosedIsOpen, SentOK
<1>14. {} \cup ToSet(events) = DueOf(Moved(Unseen, snapshot))
  BY <1>2, <1>3, <1>7
<1> QED
  BY <1>4, <1>13, <1>14 DEF events, new

(* What the handlers compute is what Feishu has.                           *)
LEMMA BecomesOK ==
    ASSUME NEW side, NEW id, NEW due, NEW endings, SideOK(side, id, due, endings), Becomes(side)
    PROVE  SideOK(Present', id, due, endings)
<1>1. side = [streams |-> side.streams, underway |-> side.underway, missed |-> side.missed]
  BY DEF SideOK, SideType
<1>2. Present' = side
  BY <1>1 DEF Becomes, Present
<1> QED
  BY <1>2

(* Without a message to account for, only repetition matters.              *)
LEMMA NoMessageOK ==
    ASSUME NEW side, NEW id, NEW due, NEW endings, SideOK(side, id, due, endings)
    PROVE  /\ \A any : SideOK(ForgottenSide(side), 0, any, endings)
           /\ \A any : SideOK(side, 0, any, endings)
           /\ \A any, ending : endings = {} => SideOK(side, 0, any, {ending})
<1> DEFINE next == ForgottenSide(side)
<1>1. /\ next \in SideType /\ next.streams = side.streams /\ next.underway = side.underway
      /\ side \in SideType
  BY DEF SideOK, SideType, ForgottenSide
<1> HIDE DEF next
<1>2. NothingTwice(next) /\ ClosedBy(next, endings) /\ NothingTwice(side) /\ ClosedBy(side, endings)
  BY <1>1 DEF SideOK, NothingTwice, ClosedBy
<1>3. \A ending : endings = {} => ClosedBy(side, {ending})
  BY <1>2 DEF ClosedBy, Closable
<1>4. \A some, any : Accounted(some, 0, any)
  BY DEF Accounted
<1> QED
  BY <1>1, <1>2, <1>3, <1>4 DEF SideOK, next

(* A request that comes late.                                              *)
LEMMA LateOK ==
    ASSUME NEW side, NEW id, NEW due, NEW endings, SideOK(side, id, due, endings),
           NEW request \in side.underway
    PROVE  SideOK([streams  |-> Taken(side.streams, request),
                   underway |-> side.underway \ {request},
                   missed   |-> side.missed], id, due, endings)
<1> DEFINE all  == Taken(side.streams, request)
           next == [streams |-> all, underway |-> side.underway \ {request}, missed |-> side.missed]
<1>1. /\ side \in SideType /\ NothingTwice(side) /\ ClosedBy(side, endings)
      /\ Accounted(side, id, due)
      /\ side.streams \in Seq(Streams) /\ side.underway \subseteq Requests
      /\ side.missed \subseteq CoTEvents
  BY DEF SideOK, SideType
<1>2. /\ next.streams = all /\ next.underway = side.underway \ {request}
      /\ next.missed = side.missed
  OBVIOUS
<1>3. CASE side.streams[request.id].state # "open"
  <2>1. all = side.streams
    BY <1>3 DEF Taken
  <2>2. next \in SideType
    BY <1>1, <2>1 DEF SideType
  <2> HIDE DEF next, all
  <2>3. NothingTwice(next) /\ ClosedBy(next, endings) /\ Accounted(next, id, due)
    BY <1>1, <1>2, <2>1 DEF NothingTwice, ClosedBy, Accounted
  <2> QED
    BY <2>2, <2>3 DEF SideOK, next, all
<1>4. CASE side.streams[request.id].state = "open"
  <2>1. /\ request \in Requests /\ IsInjective(request.events)
        /\ request.id \in DOMAIN side.streams
        /\ ToSet(side.streams[request.id].events) \cap ToSet(request.events) = {}
    BY <1>1 DEF NothingTwice
  <2>2. Took(side, request, request.id, all)
    BY <1>1, <1>4, <2>1, StreamTakes DEF MayTake
  <2> HIDE DEF all
  <2>3. next \in SideType
    BY <1>1, <2>2 DEF SideType, Took
  <2> HIDE DEF next
  <2>4. \A i \in DOMAIN all : IsInjective(all[i].events)
    BY <1>1, <2>2 DEF NothingTwice, Took
  <2>5. ASSUME NEW r \in side.underway, r # request
        PROVE  /\ r.id \in DOMAIN all /\ IsInjective(r.events)
               /\ ToSet(r.events) \cap ToSet(all[r.id].events) = {}
    <3>1. /\ r.id \in DOMAIN side.streams /\ IsInjective(r.events)
          /\ ToSet(r.events) \cap ToSet(side.streams[r.id].events) = {}
          /\ r.id = request.id => ToSet(r.events) \cap ToSet(request.events) = {}
      BY <1>1, <2>5 DEF NothingTwice
    <3>2. CASE r.id = request.id
      BY <2>2, <3>1, <3>2 DEF Took
    <3>3. CASE r.id # request.id
      <4>1. all[r.id] = side.streams[r.id] /\ r.id \in DOMAIN all
        BY <2>2, <3>1, <3>3 DEF Took
      <4> QED
        BY <3>1, <4>1
    <3> QED
      BY <3>2, <3>3
  <2>6. NothingTwice(next)
    BY <1>1, <1>2, <2>4, <2>5 DEF NothingTwice
  <2>7. ClosedBy(next, endings)
    <3>1. Closable(endings, request.state)
      BY <1>1 DEF ClosedBy
    <3>2. \A i \in DOMAIN all : Closable(endings, all[i].state)
      <4>1. /\ DOMAIN all = DOMAIN side.streams /\ all[request.id].state = request.state
            /\ \A i \in DOMAIN side.streams \ {request.id} : all[i] = side.streams[i]
        BY <2>2 DEF Took
      <4> QED
        BY <1>1, <3>1, <4>1 DEF ClosedBy
    <3> QED
      BY <1>1, <1>2, <3>2 DEF ClosedBy
  <2>8. Accounted(next, id, due)
    <3>1. CASE id = 0
      BY <3>1 DEF Accounted
    <3>2. CASE id # 0 /\ id # request.id
      <4>1. id \in DOMAIN side.streams
        BY <1>1, <3>2 DEF Accounted
      <4>2. all[id] = side.streams[id] /\ id \in DOMAIN all
        BY <2>2, <3>2, <4>1 DEF Took
      <4> QED
        BY <1>1, <1>2, <4>2 DEF Accounted
    <3>3. CASE id # 0 /\ id = request.id
      <4>1. /\ id \in DOMAIN side.streams
            /\ ToSet(side.streams[id].events) \cup side.missed = due
            /\ \A r \in side.underway : r.id = id => ToSet(r.events) \subseteq side.missed
            /\ side.missed = {} /\ due # {} => InOrder(side.streams[id].events)
        BY <1>1, <3>3 DEF Accounted
      <4>2. ToSet(request.events) \subseteq side.missed
        BY <3>3, <4>1
      <4>3. /\ DOMAIN all = DOMAIN side.streams
            /\ all[id].events = side.streams[id].events \o request.events
            /\ ToSet(all[id].events) = ToSet(side.streams[id].events) \cup ToSet(request.events)
        BY <2>2, <3>3 DEF Took
      <4>4. side.missed = {} => all[id].events = side.streams[id].events
        <5> SUFFICES ASSUME side.missed = {} PROVE all[id].events = side.streams[id].events
          OBVIOUS
        <5>1. request.events \in Seq(CoTEvents)
          BY <2>1 DEF Requests, Events
        <5>2. \A i \in DOMAIN request.events : FALSE
          BY <4>2 DEF ToSet
        <5>3. request.events = <<>>
          <6>1. Len(request.events) \in Nat /\ DOMAIN request.events = 1..Len(request.events)
            BY <5>1
          <6>2. Len(request.events) = 0
            BY <5>2, <6>1
          <6> QED
            BY <5>1, <6>2
        <5>4. side.streams[id].events \in Seq(CoTEvents)
          <6>1. side.streams[id] \in Streams
            BY <1>1, <4>1
          <6> QED
            BY <6>1 DEF Streams, Events
        <5> QED
          BY <4>3, <5>3, <5>4
      <4> QED
        BY <1>2, <4>1, <4>2, <4>3, <4>4 DEF Accounted
    <3> QED
      BY <3>1, <3>2, <3>3
  <2> QED
    BY <2>3, <2>6, <2>7, <2>8 DEF SideOK, next, all
<1> QED
  BY <1>3, <1>4

-----------------------------------------------------------------------------
(***************************************************************************)
(* The handlers, as they leave the messages.                               *)
(***************************************************************************)
LEMMA UnseenIs ==
    Unseen \in Snapshots /\ NoCoT \in [id : Nat, steps : Snapshots] /\ NoCoT.id = 0
BY DEF Unseen, NoCoT, Snapshots

LEMMA CreateKeeps ==
    ASSUME MessagesOK, period = "delivered", period' \in {"delivered", "streaming"},
           NEW snapshot \in Snapshots, NEW created \in Outcomes, NEW appended \in Outcomes,
           CreateCoT(snapshot, created, appended)
    PROVE  MessagesOK'
<1> DEFINE id     == Len(streams) + 1
           opened == OpenedSide(Present)
           begun  == Appending(id, <<RunStarted>> \o StepEvents(Unseen, snapshot))
<1>1. Ended = {} /\ Ended' = {}
  BY DEF Ended, Endings
<1>2. Due' = DueOf(cot'.steps)
  BY DueIs DEF Endings
<1>3. SideOK(Present, cot.id, Due, {}) /\ Present.streams = streams
  BY <1>1 DEF MessagesOK, Present
<1>4. \/ cot' = NoCoT /\ Becomes(ForgottenSide(Present))
      \/ cot' = NoCoT /\ Becomes(opened)
      \/ /\ cot' = [id |-> id, steps |-> Moved(Unseen, snapshot)]
         /\ Becomes(Sent(opened, begun, appended))
  <2>1. [Present EXCEPT !.missed = {}] = ForgottenSide(Present)
    BY DEF Present, ForgottenSide
  <2>2. opened = [streams  |-> Append(streams, [events |-> <<>>, state |-> "open"]),
                  underway |-> underway,
                  missed   |-> {}]
    BY DEF Present, OpenedSide
  <2> HIDE DEF opened
  <2> QED
    BY <2>1, <2>2 DEF CreateCoT, Bookkept
<1> HIDE DEF opened, begun
<1>5. SideOK(opened, id, {}, {}) /\ opened.streams[id].events = <<>> /\ id \in Nat \ {0}
  BY <1>3, OpenedOK DEF opened
<1> HIDE DEF id
<1>6. CASE cot' = NoCoT /\ Becomes(ForgottenSide(Present))
  <2>1. SideOK(ForgottenSide(Present), 0, Due', {})
    BY <1>3, NoMessageOK
  <2>2. SideOK(Present', 0, Due', {})
    BY <1>6, <2>1, BecomesOK
  <2> QED
    BY <1>1, <1>6, <2>2, UnseenIs DEF MessagesOK
<1>7. CASE cot' = NoCoT /\ Becomes(opened)
  <2>1. SideOK(opened, 0, Due', {})
    BY <1>5, NoMessageOK
  <2>2. SideOK(Present', 0, Due', {})
    BY <1>7, <2>1, BecomesOK
  <2> QED
    BY <1>1, <1>7, <2>2, UnseenIs DEF MessagesOK
<1>8. CASE /\ cot' = [id |-> id, steps |-> Moved(Unseen, snapshot)]
           /\ Becomes(Sent(opened, begun, appended))
  <2>1. SideOK(Sent(opened, begun, appended), id, DueOf(Moved(Unseen, snapshot)), {})
    BY <1>5, BeginSent DEF begun
  <2>2. SideOK(Present', id, DueOf(Moved(Unseen, snapshot)), {})
    BY <1>8, <2>1, BecomesOK
  <2>3. cot'.id = id /\ cot'.steps = Moved(Unseen, snapshot)
    BY <1>8
  <2>4. cot' \in [id : Nat, steps : Snapshots]
    BY <1>5, <1>8, UnseenIs, MovedType
  <2> QED
    BY <1>1, <1>2, <2>2, <2>3, <2>4 DEF MessagesOK
<1> QED
  BY <1>4, <1>6, <1>7, <1>8

(* advanceAgentCoT, before the response has ended.                         *)
LEMMA AdvanceKeeps ==
    ASSUME MessagesOK, period = "streaming",
           NEW snapshot \in Snapshots, NEW appended \in Outcomes
    PROVE  /\ Counted(snapshot, appended) \in [id : Nat, steps : Snapshots]
           /\ Counted(snapshot, appended).id = cot.id
           /\ SideOK(Advanced(snapshot, appended), cot.id,
                     DueOf(Counted(snapshot, appended).steps), {})
<1>1. SideOK(Present, cot.id, DueOf(cot.steps), {})
  <2>1. Ended = {} /\ Due = DueOf(cot.steps)
    BY DueIs DEF Ended, Endings
  <2> QED
    BY <2>1 DEF MessagesOK
<1>2. cot.id \in Nat /\ cot.steps \in Snapshots
  BY DEF MessagesOK
<1>3. CASE cot.id = 0
  BY <1>1, <1>3 DEF Counted, Advanced, MessagesOK
<1>4. CASE cot.id # 0
  <2>1. Counted(snapshot, appended) = [id |-> cot.id, steps |-> Moved(cot.steps, snapshot)]
    BY <1>4 DEF Counted, Bookkept, MessagesOK
  <2>2. Moved(cot.steps, snapshot) \in Snapshots
    BY <1>2, MovedType
  <2>3. SideOK(Advanced(snapshot, appended), cot.id, DueOf(Moved(cot.steps, snapshot)), {})
    <3>1. Advanced(snapshot, appended)
             = Sent(Present, Appending(cot.id, StepEvents(cot.steps, snapshot)), appended)
      BY <1>4 DEF Advanced
    <3> QED
      BY <1>1, <1>2, <1>4, <3>1, StepsSent
  <2>4. /\ Counted(snapshot, appended).id = cot.id
        /\ Counted(snapshot, appended).steps = Moved(cot.steps, snapshot)
        /\ Counted(snapshot, appended) \in [id : Nat, steps : Snapshots]
    BY <1>2, <2>1, <2>2
  <2> QED
    BY <2>3, <2>4
<1> QED
  BY <1>3, <1>4

LEMMA UpdateKeeps ==
    ASSUME MessagesOK, Update
    PROVE  MessagesOK'
<1>1. PICK snapshot \in Snapshots, appended \in Outcomes :
         cot' = Counted(snapshot, appended) /\ Becomes(Advanced(snapshot, appended))
  BY DEF Update
<1>2. period = "streaming" /\ period' = "streaming"
  BY DEF Update
<1>3. Ended' = {} /\ Due' = DueOf(cot'.steps)
  BY <1>2, DueIs DEF Ended, Endings
<1>4. /\ cot' \in [id : Nat, steps : Snapshots] /\ cot'.id = cot.id
      /\ SideOK(Advanced(snapshot, appended), cot.id, DueOf(cot'.steps), {})
  BY <1>1, <1>2, AdvanceKeeps
<1>5. SideOK(Present', cot.id, DueOf(cot'.steps), {})
  BY <1>1, <1>4, BecomesOK
<1> QED
  BY <1>3, <1>4, <1>5 DEF MessagesOK

LEMMA FinishKeeps ==
    ASSUME MessagesOK, Finish
    PROVE  MessagesOK'
<1>1. PICK outcome \in Endings, snapshot \in Snapshots,
           advanced \in Outcomes, appended \in Outcomes, completed \in Outcomes :
         /\ period' = outcome
         /\ cot' = Counted(snapshot, advanced)
         /\ Becomes(Concluded(Advanced(snapshot, advanced), outcome, appended, completed))
  BY DEF Finish, Endings
<1>2. period = "streaming"
  BY DEF Finish
<1>3. Ended' = {outcome} /\ Due' = DueOf(cot'.steps) \cup {RunFinished}
  BY <1>1, DueIs DEF Ended
<1> DEFINE side == Advanced(snapshot, advanced)
<1> HIDE DEF side
<1>4. /\ cot' \in [id : Nat, steps : Snapshots] /\ cot'.id = cot.id
      /\ SideOK(side, cot.id, DueOf(cot'.steps), {})
  BY <1>1, <1>2, AdvanceKeeps DEF side
<1>5. CASE cot.id = 0
  <2>1. Becomes(side)
    BY <1>1, <1>5 DEF Concluded, side
  <2>2. SideOK(side, 0, Due', {outcome})
    BY <1>4, NoMessageOK
  <2>3. SideOK(Present', 0, Due', {outcome})
    BY <2>1, <2>2, BecomesOK
  <2> QED
    BY <1>3, <1>4, <1>5, <2>3 DEF MessagesOK
<1>6. CASE cot.id # 0
  <2> DEFINE ended  == Sent(side, Appending(cot.id, <<RunFinished>>), appended)
             closed == Sent(ended, [id |-> cot.id, events |-> <<>>, state |-> outcome], completed)
  <2>1. Becomes(closed)
    BY <1>1, <1>6 DEF Concluded, side
  <2>2. cot.id \in Nat \ {0} /\ cot'.steps \in Snapshots
    BY <1>4, <1>6 DEF MessagesOK
  <2>3. SideOK(ended, cot.id, DueOf(cot'.steps) \cup {RunFinished}, {})
    BY <1>4, <2>2, EndSent
  <2> HIDE DEF ended
  <2>4. SideOK(closed, cot.id, DueOf(cot'.steps) \cup {RunFinished}, {outcome})
    BY <2>2, <2>3, ClosingOK
  <2> HIDE DEF closed
  <2>5. SideOK(Present', cot.id, DueOf(cot'.steps) \cup {RunFinished}, {outcome})
    BY <2>1, <2>4, BecomesOK
  <2> QED
    BY <1>3, <1>4, <2>5 DEF MessagesOK
<1> QED
  BY <1>5, <1>6

LEMMA LateRequestKeeps ==
    ASSUME MessagesOK, LateRequest
    PROVE  MessagesOK'
<1>1. PICK request \in underway : /\ streams' = Taken(streams, request)
                                  /\ underway' = underway \ {request}
  BY DEF LateRequest
<1>2. UNCHANGED <<period, cot, missed>>
  BY DEF LateRequest
<1>3. Due' = Due /\ Ended' = Ended
  BY <1>2 DEF Due, Ended
<1>4. /\ Present.streams = streams /\ Present.underway = underway /\ Present.missed = missed
      /\ Present' = [streams |-> streams', underway |-> underway', missed |-> missed']
  BY DEF Present
<1>5. SideOK(Present', cot.id, Due, Ended)
  BY <1>1, <1>2, <1>4, LateOK DEF MessagesOK
<1> QED
  BY <1>2, <1>3, <1>5 DEF MessagesOK

LEMMA MessagesKept ==
    ASSUME ProgressInv, [ProgressNext]_progressVars
    PROVE  MessagesOK'
<1>1. MessagesOK
  BY DEF ProgressInv
<1>2. CASE LateRequest
  BY <1>1, <1>2, LateRequestKeeps
<1>3. CASE StartFails \/ StartSucceeds
  <2>1. PICK snapshot \in Snapshots, created \in Outcomes, appended \in Outcomes :
           CreateCoT(snapshot, created, appended)
    BY <1>3 DEF StartFails, StartSucceeds, Start
  <2>2. period = "delivered" /\ period' \in {"delivered", "streaming"}
    BY <1>3 DEF StartFails, StartSucceeds, Start
  <2> QED
    BY <1>1, <2>1, <2>2, CreateKeeps
<1>4. CASE Update
  BY <1>1, <1>4, UpdateKeeps
<1>5. CASE Finish
  BY <1>1, <1>5, FinishKeeps
<1>6. CASE UNCHANGED <<period, cot, streams, underway, missed>>
  <2>1. Due' = Due /\ Ended' = Ended /\ Present' = Present /\ cot' = cot
    BY <1>6 DEF Due, Ended, Present
  <2> QED
    BY <1>1, <2>1 DEF MessagesOK
<1>7. CASE \E op \in ReactionOps, emoji \in Emojis, outcome \in {"ok", "doubt"} :
              React(op, emoji, outcome)
  BY <1>6, <1>7 DEF React
<1>8. CASE UNCHANGED progressVars
  BY <1>6, <1>8 DEF progressVars
<1> QED
  BY <1>2, <1>3, <1>4, <1>5, <1>7, <1>8 DEF ProgressNext

(* Of the reactions: the working one, and those an agent chose.            *)
LEMMA ReactKeeps ==
    ASSUME ReactionsOK, NEW op \in ReactionOps, NEW emoji \in Emojis,
           NEW outcome \in {"ok", "doubt"}, React(op, emoji, outcome)
    PROVE  ReactionsOK'
<1>1. UNCHANGED <<period, worn>>
  BY DEF React
<1>2. CASE outcome = "doubt"
  <2>1. /\ chosen' = chosen /\ doubted' = doubted \cup {op}
        /\ shown' \in {shown \cup {<<op, emoji>>}, shown}
    BY <1>2 DEF React
  <2>2. ASSUME NEW other \in ReactionOps \ doubted'
        PROVE  {e \in Emojis : <<other, e>> \in shown'} = {chosen'[other]} \ {NoEmoji}
    <3>1. other # op /\ other \in ReactionOps \ doubted
      BY <2>1, <2>2
    <3>2. \A e : <<other, e>> \in shown' <=> <<other, e>> \in shown
      BY <2>1, <3>1
    <3> QED
      BY <2>1, <3>1, <3>2 DEF ReactionsOK
  <2>3. shown' \subseteq ReactionOps \X Emojis
    BY <2>1 DEF ReactionsOK
  <2> QED
    BY <1>1, <2>1, <2>2, <2>3 DEF ReactionsOK
<1>3. CASE outcome = "ok"
  <2>1. /\ chosen' = [chosen EXCEPT ![op] = emoji] /\ doubted' = doubted
        /\ shown' = shown \cup {<<op, emoji>>} /\ chosen[op] = NoEmoji
    BY <1>3 DEF React
  <2>2. emoji # NoEmoji
    BY DEF NoEmoji
  <2>3. chosen \in [ReactionOps -> Emojis \cup {NoEmoji}]
    BY DEF ReactionsOK
  <2>4. ASSUME NEW other \in ReactionOps \ doubted'
        PROVE  {e \in Emojis : <<other, e>> \in shown'} = {chosen'[other]} \ {NoEmoji}
    <3>1. {e \in Emojis : <<other, e>> \in shown} = {chosen[other]} \ {NoEmoji}
      BY <2>1 DEF ReactionsOK
    <3>2. CASE other = op
      <4>1. chosen'[other] = emoji
        BY <2>1, <2>3, <3>2
      <4>2. \A e \in Emojis : <<other, e>> \notin shown
        BY <2>1, <3>1, <3>2
      <4>3. \A e \in Emojis : <<other, e>> \in shown' <=> e = emoji
        BY <2>1, <3>2, <4>2
      <4> QED
        BY <2>2, <4>1, <4>3
    <3>3. CASE other # op
      <4>1. chosen'[other] = chosen[other]
        BY <2>1, <2>3, <3>3
      <4>2. \A e : <<other, e>> \in shown' <=> <<other, e>> \in shown
        BY <2>1, <3>3
      <4> QED
        BY <3>1, <4>1, <4>2
    <3> QED
      BY <3>2, <3>3
  <2>5. shown' \subseteq ReactionOps \X Emojis
    BY <2>1 DEF ReactionsOK
  <2>6. chosen' \in [ReactionOps -> Emojis \cup {NoEmoji}]
    BY <2>1, <2>3
  <2> QED
    BY <1>1, <2>1, <2>4, <2>5, <2>6 DEF ReactionsOK
<1> QED
  BY <1>2, <1>3

(* What a handler may do to the working reaction keeps it accounted for.   *)
WornOK ==
    /\ period \in {"delivered", "streaming"} \cup Endings
    /\ worn \in [shown : BOOLEAN, known : BOOLEAN]
    /\ worn.known /\ period = "streaming" => worn.shown
    /\ worn.shown /\ (period # "streaming" \/ ~worn.known) => Working \in doubted

LEMMA OthersKept ==
    ASSUME ReactionsOK, WornOK', UNCHANGED <<chosen, shown>>, doubted' \in {doubted, doubted \cup {Working}}
    PROVE  ReactionsOK'
<1>1. doubted' \subseteq ReactionOps \cup {Working}
  BY DEF ReactionsOK
<1>2. \A op \in ReactionOps \ doubted' : op \in ReactionOps \ doubted
  OBVIOUS
<1> QED
  BY <1>1, <1>2 DEF ReactionsOK, WornOK

LEMMA ReactionsKept ==
    ASSUME ProgressInv, [ProgressNext]_progressVars
    PROVE  ReactionsOK'
<1>1. ReactionsOK
  BY DEF ProgressInv
<1>2. CASE UNCHANGED <<period, worn, chosen, shown, doubted>>
  BY <1>1, <1>2 DEF ReactionsOK
<1>3. CASE LateRequest \/ Update
  BY <1>2, <1>3 DEF LateRequest, Update
<1>4. CASE StartFails
  BY <1>2, <1>4 DEF StartFails, Start
<1>5. CASE StartSucceeds
  <2>1. PICK reacted \in Outcomes :
           /\ worn' \in Added(reacted)
           /\ doubted' = IF reacted = "doubt" THEN doubted \cup {Working} ELSE doubted
    BY <1>5 DEF StartSucceeds
  <2>2. period' = "streaming" /\ UNCHANGED <<chosen, shown>>
    BY <1>5 DEF StartSucceeds, Start
  <2>3. \/ worn' = [shown |-> TRUE, known |-> TRUE]
        \/ worn' = [shown |-> FALSE, known |-> FALSE]
        \/ /\ worn' \in [shown : BOOLEAN, known : {FALSE}]
           /\ Working \in doubted'
    BY <2>1 DEF Added
  <2>4. WornOK'
    <3>1. CASE worn' = [shown |-> TRUE, known |-> TRUE]
      BY <2>2, <3>1 DEF WornOK
    <3>2. CASE worn' = [shown |-> FALSE, known |-> FALSE]
      BY <2>2, <3>2 DEF WornOK
    <3>3. CASE worn' \in [shown : BOOLEAN, known : {FALSE}] /\ Working \in doubted'
      <4>1. worn' \in [shown : BOOLEAN, known : BOOLEAN] /\ worn'.known = FALSE
        BY <3>3
      <4> QED
        BY <2>2, <3>3, <4>1 DEF WornOK
    <3> QED
      BY <2>3, <3>1, <3>2, <3>3
  <2> QED
    BY <1>1, <2>1, <2>2, <2>4, OthersKept
<1>6. CASE Finish
  <2>1. PICK removed \in Outcomes : TakeOff(removed)
    BY <1>6 DEF Finish
  <2>2. period = "streaming" /\ period' \in Endings /\ UNCHANGED <<chosen, shown>>
    BY <1>6 DEF Finish, Endings
  <2>3. /\ worn \in [shown : BOOLEAN, known : BOOLEAN]
        /\ worn.shown /\ ~worn.known => Working \in doubted
    BY <1>1 DEF ReactionsOK
  <2>4. CASE ~worn.known
    <3>1. worn' = worn /\ doubted' = doubted
      BY <2>1, <2>4 DEF TakeOff
    <3>2. WornOK'
      BY <2>2, <2>3, <2>4, <3>1 DEF WornOK, Endings
    <3> QED
      BY <1>1, <2>2, <3>1, <3>2, OthersKept
  <2>5. CASE worn.known
    <3>1. /\ worn' \in Removed(removed)
          /\ doubted' = IF removed # "ok" THEN doubted \cup {Working} ELSE doubted
      BY <2>1, <2>5 DEF TakeOff
    <3>2. CASE removed = "ok"
      <4>1. worn' = [shown |-> FALSE, known |-> FALSE]
        BY <3>1, <3>2 DEF Removed
      <4>2. WornOK'
        BY <2>2, <4>1 DEF WornOK, Endings
      <4> QED
        BY <1>1, <2>2, <3>1, <4>2, OthersKept
    <3>3. CASE removed # "ok"
      <4>1. worn' \in [shown : BOOLEAN, known : BOOLEAN]
        <5>1. CASE removed = "failed"
          BY <2>3, <3>1, <5>1 DEF Removed
        <5>2. CASE removed = "doubt"
          BY <3>1, <5>2 DEF Removed
        <5> QED
          BY <3>3, <5>1, <5>2 DEF Outcomes
      <4>2. Working \in doubted' /\ period' # "streaming"
        BY <2>2, <3>1, <3>3 DEF Endings
      <4>3. WornOK'
        BY <2>2, <4>1, <4>2 DEF WornOK
      <4> QED
        BY <1>1, <2>2, <3>1, <4>3, OthersKept
    <3> QED
      BY <3>2, <3>3
  <2> QED
    BY <2>4, <2>5
<1>7. CASE \E op \in ReactionOps, emoji \in Emojis, outcome \in {"ok", "doubt"} :
              React(op, emoji, outcome)
  BY <1>1, <1>7, ReactKeeps
<1>8. CASE UNCHANGED progressVars
  BY <1>2, <1>8 DEF progressVars
<1> QED
  BY <1>3, <1>4, <1>5, <1>6, <1>7, <1>8 DEF ProgressNext

LEMMA ProgressInvInit == ProgressInit => ProgressInv
<1> SUFFICES ASSUME ProgressInit PROVE ProgressInv
  OBVIOUS
<1>1. ReactionsOK
  BY DEF ProgressInit, ReactionsOK, NoEmoji
<1>2. cot \in [id : Nat, steps : Snapshots] /\ cot.id = 0
  BY UnseenIs DEF ProgressInit
<1>3. Present \in SideType /\ NothingTwice(Present)
  BY DEF ProgressInit, Present, SideType, NothingTwice, ToSet
<1>4. ClosedBy(Present, Ended) /\ Accounted(Present, 0, Due)
  BY DEF ProgressInit, Present, ClosedBy, Accounted
<1> QED
  BY <1>1, <1>2, <1>3, <1>4 DEF ProgressInv, MessagesOK, SideOK

LEMMA ProgressInvHolds == ProgressSpec => []ProgressInv
<1>1. ProgressInv /\ [ProgressNext]_progressVars => ProgressInv'
  BY MessagesKept, ReactionsKept DEF ProgressInv
<1> QED
  BY <1>1, ProgressInvInit, PTL DEF ProgressSpec

(* A CoT message never repeats an event, gets every event it is due that   *)
(* is not lost, in order unless one was, and ends with the outcome of the  *)
(* response; the reactions on the message are those of the work and those  *)
(* the agent chose, but for calls that did not succeed.  For any number of *)
(* steps, of Starts and updates, and of requests under way.                *)
THEOREM ProgressReachesReader == ProgressSpec => []ProgressIsFaithful
<1>1. ProgressInv => ProgressIsFaithful
  <2> SUFFICES ASSUME ProgressInv PROVE ProgressIsFaithful
    OBVIOUS
  <2>1. /\ SideOK(Present, cot.id, Due, Ended)
        /\ Present.streams = streams /\ Present.missed = missed
    BY DEF ProgressInv, MessagesOK, Present
  <2>2. \A id \in DOMAIN streams : IsInjective(streams[id].events)
    BY <2>1 DEF SideOK, NothingTwice
  <2>3. \A id \in DOMAIN streams : streams[id].state \in {"open", period}
    BY <2>1 DEF SideOK, ClosedBy, Closable, Ended
  <2>4. cot.id # 0 => /\ ToSet(streams[cot.id].events) \cup missed = Due
                      /\ missed = {} => InOrder(streams[cot.id].events)
    <3>1. RunStarted \in Due
      BY DEF Due
    <3> QED
      BY <2>1, <3>1 DEF SideOK, Accounted
  <2>5. /\ worn.known /\ period = "streaming" => worn.shown
        /\ worn.shown /\ period # "streaming" => Working \in doubted
        /\ \A op \in ReactionOps \ doubted :
              {e \in Emojis : <<op, e>> \in shown} = {chosen[op]} \ {NoEmoji}
    BY DEF ProgressInv, ReactionsOK
  <2> QED
    BY <2>2, <2>3, <2>4, <2>5 DEF ProgressIsFaithful
<1> QED
  BY <1>1, ProgressInvHolds, PTL

-----------------------------------------------------------------------------
(***************************************************************************)
(* Type correctness: a request adds at most itself to those under way.     *)
(***************************************************************************)
CountsOK ==
    /\ starts \in 0..MaxStarts /\ updates \in 0..MaxUpdates
    /\ IsFiniteSet(underway) /\ Cardinality(underway) <= MaxUnderway

LEMMA SentFinite ==
    ASSUME NEW side, NEW request, NEW outcome, IsFiniteSet(side.underway)
    PROVE  IsFiniteSet(Sent(side, request, outcome).underway)
<1>1. /\ IsFiniteSet(side.underway \cup {request})
      /\ IsFiniteSet(side.underway \cup {})
  BY FS_AddElement
<1>2. \/ Sent(side, request, outcome) = side
      \/ Sent(side, request, outcome).underway = side.underway \cup {request}
      \/ Sent(side, request, outcome).underway = side.underway \cup {}
  BY DEF Sent
<1> QED
  BY <1>1, <1>2

LEMMA AdvancedFinite ==
    ASSUME IsFiniteSet(underway), NEW snapshot, NEW appended
    PROVE  IsFiniteSet(Advanced(snapshot, appended).underway)
<1>1. Present.underway = underway
  BY DEF Present
<1>2. IsFiniteSet(Present.underway)
  BY <1>1
<1> QED
  BY <1>2, SentFinite DEF Advanced

LEMMA BecomesFinite ==
    ASSUME NEW side, IsFiniteSet(side.underway), Becomes(side)
    PROVE  IsFiniteSet(underway') /\ Cardinality(underway') <= MaxUnderway
BY DEF Becomes

LEMMA CountsKept ==
    ASSUME CountsOK, [ProgressNext]_progressVars
    PROVE  CountsOK'
<1>1. IsFiniteSet(underway) /\ {MaxStarts, MaxUpdates, MaxUnderway} \subseteq Nat
  BY DEF CountsOK
<1>2. CASE LateRequest
  <2>1. PICK request \in underway : underway' = underway \ {request}
    BY <1>2 DEF LateRequest
  <2>2. /\ IsFiniteSet(underway') /\ Cardinality(underway') = Cardinality(underway) - 1
    BY <1>1, <2>1, FS_RemoveElement
  <2>3. Cardinality(underway) \in Nat
    BY <1>1, FS_CardinalityType
  <2>4. UNCHANGED <<starts, updates>>
    BY <1>2 DEF LateRequest
  <2> QED
    BY <2>2, <2>3, <2>4 DEF CountsOK
<1>3. CASE StartFails \/ StartSucceeds
  <2>1. PICK snapshot \in Snapshots, created \in Outcomes, appended \in Outcomes :
           CreateCoT(snapshot, created, appended)
    BY <1>3 DEF StartFails, StartSucceeds, Start
  <2>2. starts < MaxStarts /\ starts' = starts + 1 /\ updates' = updates
    BY <1>3 DEF StartFails, StartSucceeds, Start
  <2>3. IsFiniteSet(underway') /\ Cardinality(underway') <= MaxUnderway
    <3>1. \/ Becomes(ForgottenSide(Present))
          \/ Becomes(OpenedSide(Present))
          \/ \E request : Becomes(Sent(OpenedSide(Present), request, appended))
      <4>1. [Present EXCEPT !.missed = {}] = ForgottenSide(Present)
        BY DEF Present, ForgottenSide
      <4>2. [streams  |-> Append(streams, [events |-> <<>>, state |-> "open"]),
             underway |-> underway,
             missed   |-> {}] = OpenedSide(Present)
        BY DEF Present, OpenedSide
      <4> QED
        BY <2>1, <4>1, <4>2 DEF CreateCoT
    <3>2. IsFiniteSet(ForgottenSide(Present).underway) /\ IsFiniteSet(OpenedSide(Present).underway)
      BY <1>1 DEF ForgottenSide, OpenedSide, Present
    <3> QED
      BY <3>1, <3>2, SentFinite, BecomesFinite
  <2> QED
    BY <1>1, <2>2, <2>3 DEF CountsOK
<1>4. CASE Update
  <2>1. PICK snapshot \in Snapshots, appended \in Outcomes : Becomes(Advanced(snapshot, appended))
    BY <1>4 DEF Update
  <2>2. IsFiniteSet(underway') /\ Cardinality(underway') <= MaxUnderway
    BY <1>1, <2>1, AdvancedFinite, BecomesFinite
  <2>3. updates < MaxUpdates /\ updates' = updates + 1 /\ starts' = starts
    BY <1>4 DEF Update
  <2> QED
    BY <1>1, <2>2, <2>3 DEF CountsOK
<1>5. CASE Finish
  <2>1. PICK outcome \in {"done", "error"}, snapshot \in Snapshots,
             advanced \in Outcomes, appended \in Outcomes, completed \in Outcomes :
           Becomes(Concluded(Advanced(snapshot, advanced), outcome, appended, completed))
    BY <1>5 DEF Finish
  <2>2. IsFiniteSet(Concluded(Advanced(snapshot, advanced), outcome, appended, completed).underway)
    BY <1>1, AdvancedFinite, SentFinite DEF Concluded
  <2>3. IsFiniteSet(underway') /\ Cardinality(underway') <= MaxUnderway
    BY <2>1, <2>2, BecomesFinite
  <2>4. UNCHANGED <<starts, updates>>
    BY <1>5 DEF Finish
  <2> QED
    BY <2>3, <2>4 DEF CountsOK
<1>6. CASE UNCHANGED <<starts, updates, underway>>
  BY <1>6 DEF CountsOK
<1>7. CASE \E op \in ReactionOps, emoji \in Emojis, outcome \in {"ok", "doubt"} :
              React(op, emoji, outcome)
  BY <1>6, <1>7 DEF React
<1>8. CASE UNCHANGED progressVars
  BY <1>6, <1>8 DEF progressVars
<1> QED
  BY <1>2, <1>3, <1>4, <1>5, <1>7, <1>8 DEF ProgressNext

(* Type correctness, with the bounds.                                      *)
THEOREM ProgressTypes == ProgressSpec => []ProgressTypeOK
<1>1. ProgressInit => CountsOK
  BY FS_EmptySet DEF ProgressInit, CountsOK
<1>2. CountsOK /\ [ProgressNext]_progressVars => CountsOK'
  BY CountsKept
<1>3. ProgressInv /\ CountsOK => ProgressTypeOK
  <2> SUFFICES ASSUME ProgressInv, CountsOK PROVE ProgressTypeOK
    OBVIOUS
  <2>1. /\ Present \in SideType /\ Accounted(Present, cot.id, Due)
        /\ cot.id \in Nat /\ cot.steps \in Snapshots
        /\ Present.streams = streams /\ Present.missed = missed
    BY DEF ProgressInv, MessagesOK, SideOK, Present
  <2>2. streams \in Seq(Streams) /\ missed \subseteq CoTEvents
    BY <2>1 DEF SideType
  <2>3. cot.id \in 0..Len(streams)
    <3>1. DOMAIN streams = 1..Len(streams) /\ Len(streams) \in Nat
      BY <2>2
    <3> QED
      BY <2>1, <3>1 DEF Accounted
  <2>4. ASSUME NEW id \in DOMAIN streams
        PROVE  /\ ToSet(streams[id].events) \subseteq CoTEvents
               /\ streams[id].state \in {"open", "done", "error"}
    <3>1. streams[id] \in Streams
      BY <2>2
    <3>2. streams[id].events \in Seq(CoTEvents) /\ streams[id].state \in {"open"} \cup Endings
      BY <3>1 DEF Streams, Events
    <3> QED
      BY <3>2 DEF ToSet, Endings
  <2>5. ReactionsOK
    BY DEF ProgressInv
  <2> QED
    BY <2>1, <2>2, <2>3, <2>4, <2>5 DEF CountsOK, ReactionsOK, Endings, ProgressTypeOK
<1> QED
  BY <1>1, <1>2, <1>3, ProgressInvHolds, PTL DEF ProgressSpec

=============================================================================
