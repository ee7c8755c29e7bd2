----------------------------- MODULE ContextProofs -----------------------------
(***************************************************************************)
(* Proofs about AttachedContext: whatever is posted, recalled or fails     *)
(* while a topic is listed and its files are fetched, the snapshot is what *)
(* led to the trigger, or says what is missing, and a stream that ends has *)
(* brought its files.                                                      *)
(***************************************************************************)
EXTENDS AttachedContext, WellFoundedInduction, FiniteSetTheorems, SequenceTheorems, TLAPS

-----------------------------------------------------------------------------
(***************************************************************************)
(* The inductive invariant.                                                *)
(***************************************************************************)
Phases == {"idle", "listing", "assembling", "header", "streaming", "ended", "broken"}

Codes == {"history_unreadable", "boundary_not_found", "message_limit", "boundary_scan_limit",
          "malformed_message", "unsupported_message", "text_limit",
          "image_limit", "image_unreadable", "image_too_large", "image_type", "total_image_limit",
          "video_omitted", "video_limit", "video_too_long", "video_unreadable", "video_too_large",
          "video_type"}

Reading ==
    [phase : Phases, thread : BOOLEAN, video : BOOLEAN, known : BOOLEAN, next : Nat, scanned : Nat,
     candidates : Seq(Nat), gone : SUBSET Nat, atStart : SUBSET Nat, issues : SUBSET Codes,
     truncated : BOOLEAN, unreadable : BOOLEAN,
     status : {"none", "found", "missing", "unreadable"}, text : Nat, images : Nat, videos : Nat]

(* Only a file of a known type is kept, so it is not empty.                *)
KeptImages == {f \in ImageFiles : f.supported}
KeptVideos == {f \in VideoFiles : f.supported}
Kept       == KeptImages \cup KeptVideos

Rows   == [at : Nat, text : Nat, images : Seq(KeptImages), videos : Seq(KeptVideos)]
Frames == [file : Nat, offset : Nat, bytes : Nat, final : BOOLEAN]

Types ==
    /\ topic \in Seq(TopicMessages) /\ trigger \in DOMAIN topic /\ recalled \subseteq DOMAIN topic
    /\ reading \in Reading /\ carried \in Seq(Rows) /\ frames \in Seq(Frames)

(* Messages of a later second than the trigger's are the last of the topic.*)
LateLast ==
    /\ ~topic[trigger].late
    /\ \A i, j \in DOMAIN topic : i < j /\ topic[i].late => topic[j].late

(* Candidates are a run of messages that ends with the trigger.            *)
EndWithTrigger ==
    /\ Len(reading.candidates) <= trigger
    /\ \A k \in DOMAIN reading.candidates :
          reading.candidates[k] = trigger - Len(reading.candidates) + k

(* The next page begins where the candidates do, or not before the trigger *)
(* if that is not among them yet; and there is room for one more.          *)
ListingFits ==
    /\ reading.phase = "idle" => reading = Requested
    /\ reading.phase = "listing" =>
          /\ reading.thread /\ reading.issues = {} /\ ~reading.truncated
          /\ reading.status = "none"
          /\ reading.text = 0 /\ reading.images = 0 /\ reading.videos = 0
          /\ reading.scanned < MaxBoundaryScan
          /\ Len(reading.candidates) <= MaxMessages
          /\ reading.scanned = 0 => reading.candidates = <<>>
          /\ reading.scanned > 0 =>
                /\ reading.next \in DOMAIN topic
                /\ IF reading.candidates = <<>> THEN trigger <= reading.next
                   ELSE Len(reading.candidates) = trigger - reading.next

(* What had been recalled when it was asked for is known to be gone.       *)
GoneFits ==
    /\ reading.gone \subseteq recalled /\ reading.atStart \subseteq recalled
    /\ reading.phase \in {"listing", "assembling"} =>
          ToSet(reading.candidates) \cap reading.atStart \subseteq reading.gone

(* Rows are those of messages before the candidates, in their order.       *)
RowsFit ==
    /\ reading.phase \in {"idle", "listing"} => carried = <<>>
    /\ Len(carried) + (IF reading.phase = "assembling" THEN Len(reading.candidates) ELSE 0)
          <= MaxMessages + 1
    /\ \A k \in DOMAIN carried :
          /\ carried[k].at <= trigger
          /\ reading.phase = "assembling" => carried[k].at <= trigger - Len(reading.candidates)
          /\ carried[k].at \in reading.atStart => carried[k].at = trigger
          /\ carried[k].videos # <<>> => reading.video
    /\ \A k, l \in DOMAIN carried : k < l => carried[k].at < carried[l].at

(* What is carried is no more than what was tried, nor more than fits.     *)
LimitsKept ==
    /\ Len(Images(carried)) <= reading.images /\ reading.images <= MaxImages
    /\ Len(Videos(carried)) <= reading.videos /\ reading.videos <= MaxVideos
    /\ Bytes(Images(carried)) <= MaxTotalImageBytes
    /\ Bytes(Videos(carried)) <= MaxTotalVideoBytes
    /\ reading.text <= MaxTextBytes

(* Something says that the snapshot is not all there is.                   *)
Told == reading.truncated \/ reading.issues # {} \/ reading.scanned = MaxBoundaryScan

First == IF reading.thread THEN 1 ELSE trigger

(* If nothing does, every message before the candidates is there in full.  *)
WholeOrTold ==
    /\ reading.phase = "assembling" => reading.status = "none"
    /\ reading.status \in {"found", "missing"} => reading.candidates = <<>>
    /\ reading.phase = "assembling" \/ reading.status \in {"found", "missing"} =>
          \/ Told
          \/ \A i \in First..(trigger - Len(reading.candidates)) : i \notin recalled => InFull(i)

(* The frames of a file so far, in order and one after the other.          *)
Run(f, first, last) ==
    /\ first \in DOMAIN frames /\ last \in DOMAIN frames /\ first <= last
    /\ \A k \in DOMAIN frames : frames[k].file = f <=> k \in first..last
    /\ Bytes(SubSeq(frames, first, last)) = frames[last].offset + frames[last].bytes
    /\ \A k \in first..last :
          /\ frames[k].bytes \in 1..ChunkBytes
          /\ frames[k].offset = Bytes(SubSeq(frames, first, k - 1))
          /\ frames[k].final => k = last

(* The last frame: where it ends, its file does, or it is full.            *)
EndsWith(frame) ==
    /\ frame.file \in DOMAIN Files
    /\ frame.offset + frame.bytes <= Files[frame.file].bytes
    /\ frame.final <=> frame.offset + frame.bytes = Files[frame.file].bytes
    /\ ~frame.final => frame.bytes = ChunkBytes

(* The stream is inside the file of its last frame: those before it are    *)
(* done and those after it have not begun.                                 *)
StreamFits ==
    /\ reading.phase \notin {"streaming", "ended", "broken"} => frames = <<>>
    /\ reading.phase = "ended" => Complete
    /\ \A k \in DOMAIN frames : EndsWith(frames[k]) /\ frames[k].file <= Last(frames).file
    /\ frames # <<>> =>
          \A f \in 1..Last(frames).file : \E first, last \in DOMAIN frames :
              /\ Run(f, first, last)
              /\ f < Last(frames).file => frames[last].final
              /\ f = Last(frames).file => last = Len(frames)

ContextInv ==
    /\ Types /\ LateLast /\ EndWithTrigger /\ ListingFits /\ GoneFits /\ RowsFit
    /\ LimitsKept /\ WholeOrTold /\ StreamFits

-----------------------------------------------------------------------------
(***************************************************************************)
(* Induction, over a set instead of a predicate.                           *)
(***************************************************************************)
LEMMA LeastNumber ==
    ASSUME NEW T, T \subseteq Nat, T # {}
    PROVE  \E n \in T : \A m \in T : ~(m < n)
<1> DEFINE R == {ss \in Nat \X Nat : ss[1] < ss[2]}
<1>1. IsWellFoundedOn(R, Nat)
  BY NatLessThanWellFounded DEF OpToRel
<1>2. PICK n \in T : \A m \in T : ~(<<m, n>> \in R)
  <2> HIDE DEF R
  <2> QED
    BY <1>1, WFMin
<1>3. \A m \in Nat, k \in Nat : m < k => <<m, k>> \in R
  OBVIOUS
<1> QED
  BY <1>2, <1>3

LEMMA SetInduction ==
    ASSUME NEW S, 0 \in S, \A n \in Nat : n \in S => n + 1 \in S
    PROVE  \A n \in Nat : n \in S
<1> SUFFICES ASSUME Nat \ S # {} PROVE FALSE
  OBVIOUS
<1> DEFINE T == Nat \ S
<1>1. T \subseteq Nat /\ T # {}
  OBVIOUS
<1>2. PICK n \in T : \A m \in T : ~(m < n)
  <2> HIDE DEF T
  <2> QED
    BY <1>1, LeastNumber
<1>3. n # 0 /\ n - 1 \in Nat
  OBVIOUS
<1>4. n - 1 \in S
  BY <1>2, <1>3
<1> QED
  BY <1>3, <1>4

-----------------------------------------------------------------------------
(***************************************************************************)
(* The bytes of files or frames: a fold goes through subsets of positions, *)
(* and comes to the sum over the positions up to each.                     *)
(***************************************************************************)
LEMMA MaxIs ==
    ASSUME NEW k \in Nat, NEW t \in SUBSET (1..(k+1)), k + 1 \in t
    PROVE  Max(t) = k + 1
<1>1. k + 1 \in t /\ \A y \in t : k + 1 >= y
  OBVIOUS
<1>2. \A x \in t : (\A y \in t : x >= y) => x = k + 1
  OBVIOUS
<1> QED
  BY <1>1, <1>2 DEF Max

LEMMA BytesExist ==
    ASSUME NEW s, NEW n \in Nat
    PROVE  \E iter : iter = [t \in SUBSET (1..n) |->
                                IF t = {} THEN 0 ELSE iter[t \ {Max(t)}] + s[Max(t)].bytes]
<1> DEFINE Sums(iter, k) == iter = [t \in SUBSET (1..k) |->
                                IF t = {} THEN 0 ELSE iter[t \ {Max(t)}] + s[Max(t)].bytes]
           S == {k \in Nat : \E iter : Sums(iter, k)}
<1>1. 0 \in S
  <2>1. Sums([t \in SUBSET (1..0) |-> 0], 0)
    OBVIOUS
  <2> QED
    BY <2>1
<1>2. ASSUME NEW k \in Nat, k \in S PROVE k + 1 \in S
  <2>1. PICK f : Sums(f, k)
    BY <1>2
  <2> DEFINE g == [t \in SUBSET (1..(k+1)) |->
                     IF k + 1 \in t THEN f[t \ {k + 1}] + s[k + 1].bytes ELSE f[t]]
  <2>2. ASSUME NEW t \in SUBSET (1..(k+1))
        PROVE  g[t] = IF t = {} THEN 0 ELSE g[t \ {Max(t)}] + s[Max(t)].bytes
    <3>1. CASE k + 1 \in t
      <4>1. Max(t) = k + 1
        BY <3>1, MaxIs
      <4>2. g[t \ {k + 1}] = f[t \ {k + 1}]
        OBVIOUS
      <4> QED
        BY <3>1, <4>1, <4>2
    <3>2. CASE k + 1 \notin t
      <4>1. t \in SUBSET (1..k) /\ g[t] = f[t]
        BY <3>2
      <4>2. f[t] = IF t = {} THEN 0 ELSE f[t \ {Max(t)}] + s[Max(t)].bytes
        BY <2>1, <4>1
      <4>3. t \ {Max(t)} \in SUBSET (1..(k+1)) /\ k + 1 \notin t \ {Max(t)}
        BY <3>2
      <4>4. g[t \ {Max(t)}] = f[t \ {Max(t)}]
        BY <4>3
      <4> QED
        BY <4>1, <4>2, <4>4
    <3> QED
      BY <3>1, <3>2
  <2>3. Sums(g, k + 1)
    <3>1. g = [t \in SUBSET (1..(k+1)) |-> g[t]]
      OBVIOUS
    <3> HIDE DEF g
    <3> QED
      BY <2>2, <3>1
  <2> HIDE DEF Sums, g
  <2> QED
    BY <2>3
<1>3. \A k \in Nat : k \in S
  <2> HIDE DEF S
  <2> QED
    BY <1>1, <1>2, SetInduction
<1> QED
  BY <1>3 DEF S

LEMMA BytesFold ==
    ASSUME NEW s, NEW n \in Nat, DOMAIN s = 1..n
    PROVE  \E iter : /\ iter = [t \in SUBSET (1..n) |->
                                IF t = {} THEN 0 ELSE iter[t \ {Max(t)}] + s[Max(t)].bytes]
                     /\ Bytes(s) = iter[1..n]
<1> DEFINE sums == CHOOSE iter : iter = [t \in SUBSET (1..n) |->
                                IF t = {} THEN 0 ELSE iter[t \ {Max(t)}] + s[Max(t)].bytes]
<1>1. sums = [t \in SUBSET (1..n) |->
                                IF t = {} THEN 0 ELSE sums[t \ {Max(t)}] + s[Max(t)].bytes]
  BY BytesExist
<1>2. Bytes(s) = sums[1..n]
  BY DEF Bytes, FoldLeft, MapThenFoldSet
<1> HIDE DEF sums
<1> QED
  BY <1>1, <1>2

(* A function that adds up the bytes one position after the other has      *)
(* their sum as its last value.                                            *)
LEMMA BytesAre ==
    ASSUME NEW n \in Nat, NEW s, DOMAIN s = 1..n, NEW up \in [0..n -> Nat], up[0] = 0,
           \A k \in 1..n : up[k] = up[k - 1] + s[k].bytes
    PROVE  Bytes(s) = up[n]
<1>1. PICK iter : /\ iter = [t \in SUBSET (1..n) |->
                                IF t = {} THEN 0 ELSE iter[t \ {Max(t)}] + s[Max(t)].bytes]
                  /\ Bytes(s) = iter[1..n]
  BY BytesFold
<1> DEFINE S == {k \in Nat : k <= n => iter[1..k] = up[k]}
<1>2. 0 \in S
  BY <1>1
<1>3. ASSUME NEW k \in Nat, k \in S PROVE k + 1 \in S
  <2> SUFFICES ASSUME k + 1 <= n PROVE iter[1..(k+1)] = up[k + 1]
    OBVIOUS
  <2>1. iter[1..k] = up[k]
    BY <1>3
  <2>2. Max(1..(k+1)) = k + 1 /\ (1..(k+1)) \ {k + 1} = 1..k /\ 1..(k+1) # {}
    <3>1. k + 1 \in 1..(k+1) /\ 1..(k+1) \in SUBSET (1..(k+1))
      OBVIOUS
    <3>2. Max(1..(k+1)) = k + 1
      BY ONLY k \in Nat, <3>1, MaxIs
    <3>3. (1..(k+1)) \ {k + 1} = 1..k
      <4>1. \A x : x \in (1..(k+1)) \ {k + 1} <=> x \in 1..k
        OBVIOUS
      <4> QED
        BY <4>1
    <3> QED
      BY <3>1, <3>2, <3>3
  <2>3. 1..(k+1) \in SUBSET (1..n) /\ k + 1 \in 1..n
    OBVIOUS
  <2>4. iter[1..(k+1)] = iter[1..k] + s[k + 1].bytes
    <3> DEFINE t == 1..(k+1)
    <3>1. iter[t] = IF t = {} THEN 0 ELSE iter[t \ {Max(t)}] + s[Max(t)].bytes
      <4> HIDE DEF t
      <4> QED
        BY <1>1, <2>3 DEF t
    <3> QED
      BY <2>2, <3>1
  <2> QED
    BY <2>1, <2>3, <2>4
<1>4. \A k \in Nat : k \in S
  <2> HIDE DEF S
  <2> QED
    BY <1>2, <1>3, SetInduction
<1>5. iter[1..n] = up[n]
  BY <1>4
<1> QED
  BY <1>1, <1>5

(* There is such a function.                                               *)
LEMMA BytesUpTo ==
    ASSUME NEW F, \A f \in F : f.bytes \in Nat, NEW s \in Seq(F)
    PROVE  \E up \in [0..Len(s) -> Nat] :
              up[0] = 0 /\ \A k \in 1..Len(s) : up[k] = up[k - 1] + s[k].bytes
<1> DEFINE Up(up, n) == /\ up \in [0..n -> Nat] /\ up[0] = 0
                        /\ \A k \in 1..n : up[k] = up[k - 1] + s[k].bytes
           S == {n \in Nat : n <= Len(s) => \E up : Up(up, n)}
<1>1. 0 \in S
  <2>1. Up([k \in 0..0 |-> 0], 0)
    OBVIOUS
  <2> QED
    BY <2>1
<1>2. ASSUME NEW n \in Nat, n \in S PROVE n + 1 \in S
  <2> SUFFICES ASSUME n + 1 <= Len(s) PROVE \E up : Up(up, n + 1)
    <3> HIDE DEF Up
    <3> QED
      OBVIOUS
  <2>1. PICK up : Up(up, n)
    <3> HIDE DEF Up
    <3> QED
      BY <1>2
  <2>2. s[n + 1].bytes \in Nat
    OBVIOUS
  <2> DEFINE next == [k \in 0..(n + 1) |-> IF k = n + 1 THEN up[n] + s[n + 1].bytes ELSE up[k]]
  <2>3. next \in [0..(n + 1) -> Nat] /\ next[0] = 0
    BY <2>1, <2>2
  <2>4. ASSUME NEW k \in 1..(n + 1) PROVE next[k] = next[k - 1] + s[k].bytes
    BY <2>1
  <2>5. Up(next, n + 1)
    <3> HIDE DEF next
    <3> QED
      BY <2>3, <2>4
  <2> HIDE DEF Up, next
  <2> QED
    BY <2>5
<1>3. Len(s) \in S
  <2>1. \A n \in Nat : n \in S
    <3> HIDE DEF S
    <3> QED
      BY <1>1, <1>2, SetInduction
  <2> HIDE DEF S
  <2> QED
    BY <2>1
<1>4. PICK up : Up(up, Len(s))
  BY SMTT(30), <1>3
<1> QED
  BY <1>4

LEMMA BytesType ==
    ASSUME NEW F, \A f \in F : f.bytes \in Nat, NEW s \in Seq(F)
    PROVE  Bytes(s) \in Nat /\ (s = <<>> => Bytes(s) = 0)
<1>1. PICK up \in [0..Len(s) -> Nat] :
          up[0] = 0 /\ \A k \in 1..Len(s) : up[k] = up[k - 1] + s[k].bytes
  BY BytesUpTo
<1>2. Bytes(s) = up[Len(s)]
  <2>1. Len(s) \in Nat /\ DOMAIN s = 1..Len(s)
    OBVIOUS
  <2> QED
    BY <1>1, <2>1, BytesAre
<1> QED
  BY <1>1, <1>2

LEMMA BytesJoin ==
    ASSUME NEW F, \A f \in F : f.bytes \in Nat, NEW a \in Seq(F), NEW b \in Seq(F)
    PROVE  Bytes(a \o b) = Bytes(a) + Bytes(b)
<1>1. PICK upA \in [0..Len(a) -> Nat] :
          upA[0] = 0 /\ \A k \in 1..Len(a) : upA[k] = upA[k - 1] + a[k].bytes
  BY BytesUpTo
<1>2. PICK upB \in [0..Len(b) -> Nat] :
          upB[0] = 0 /\ \A k \in 1..Len(b) : upB[k] = upB[k - 1] + b[k].bytes
  BY BytesUpTo
<1>3. /\ Bytes(a) = upA[Len(a)] /\ Bytes(b) = upB[Len(b)]
      /\ Len(a) \in Nat /\ Len(b) \in Nat
  <2>1. /\ Len(a) \in Nat /\ DOMAIN a = 1..Len(a)
        /\ Len(b) \in Nat /\ DOMAIN b = 1..Len(b)
    OBVIOUS
  <2>2. Bytes(a) = upA[Len(a)]
    BY <1>1, <2>1, BytesAre
  <2>3. Bytes(b) = upB[Len(b)]
    BY <1>2, <2>1, BytesAre
  <2> QED
    BY <2>1, <2>2, <2>3
<1> DEFINE n == Len(a) + Len(b)
           up == [k \in 0..n |-> IF k <= Len(a) THEN upA[k] ELSE upA[Len(a)] + upB[k - Len(a)]]
<1>4. n \in Nat /\ DOMAIN (a \o b) = 1..n /\ up \in [0..n -> Nat] /\ up[0] = 0
  <2>1. upA[Len(a)] \in Nat
    BY <1>1, <1>3
  <2>2. ASSUME NEW k \in 0..n PROVE up[k] \in Nat
    <3>1. CASE k <= Len(a)
      <4>1. up[k] = upA[k] /\ k \in 0..Len(a)
        BY <1>3, <3>1
      <4> QED
        BY <1>1, <4>1
    <3>2. CASE k > Len(a)
      <4>1. k - Len(a) \in 0..Len(b)
        BY <1>3, <3>2
      <4>2. upB[k - Len(a)] \in Nat
        BY <1>2, <4>1
      <4> QED
        BY <2>1, <3>2, <4>2, <1>3
    <3> QED
      BY <1>3, <3>1, <3>2
  <2> QED
    BY <1>1, <1>3, <2>2
<1>5. ASSUME NEW k \in 1..n PROVE up[k] = up[k - 1] + (a \o b)[k].bytes
  <2>1. CASE k <= Len(a)
    BY <1>1, <2>1
  <2>2. CASE k = Len(a) + 1
    <3>1. (a \o b)[k] = b[1] /\ 1 \in 1..Len(b) /\ up[k] = upA[Len(a)] + upB[1]
      BY <2>2
    <3>2. upB[1] = b[1].bytes
      <4>1. upB[1] = upB[1 - 1] + b[1].bytes
        BY <1>2, <3>1
      <4>2. b[1].bytes \in Nat /\ upB[1 - 1] = 0
        BY <1>2, <3>1
      <4> QED
        BY <4>1, <4>2
    <3>3. up[k - 1] = upA[Len(a)]
      BY <2>2
    <3> QED
      BY <3>1, <3>2, <3>3
  <2>3. CASE k > Len(a) + 1
    <3>1. (a \o b)[k] = b[k - Len(a)] /\ k - Len(a) \in 1..Len(b)
      BY <2>3
    <3>2. upB[k - Len(a)] = upB[k - Len(a) - 1] + b[k - Len(a)].bytes
      BY <1>2, <3>1
    <3>3. /\ up[k] = upA[Len(a)] + upB[k - Len(a)]
          /\ up[k - 1] = upA[Len(a)] + upB[k - Len(a) - 1]
      BY <2>3
    <3>4. upA[Len(a)] \in Nat /\ upB[k - Len(a) - 1] \in Nat /\ b[k - Len(a)].bytes \in Nat
      <4>1. k - Len(a) - 1 \in 0..Len(b)
        BY <1>3, <3>1
      <4>2. b[k - Len(a)].bytes \in Nat
        BY <3>1
      <4>3. upA[Len(a)] \in Nat
        <5>1. Len(a) \in 0..Len(a)
          BY <1>3
        <5> QED
          BY <1>1, <5>1
      <4>4. upB[k - Len(a) - 1] \in Nat
        BY <1>2, <4>1
      <4> QED
        BY <4>2, <4>3, <4>4
    <3> QED
      BY <3>1, <3>2, <3>3, <3>4
  <2> QED
    BY <2>1, <2>2, <2>3
<1>6. Bytes(a \o b) = up[n]
  <2> HIDE DEF n, up
  <2> QED
    BY <1>4, <1>5, BytesAre
<1>7. up[n] = upA[Len(a)] + upB[Len(b)]
  <2>1. CASE Len(b) = 0
    BY <1>2, <2>1
  <2>2. CASE Len(b) # 0
    BY <2>2
  <2> QED
    BY <2>1, <2>2
<1> QED
  BY <1>3, <1>6, <1>7

LEMMA BytesAppend ==
    ASSUME NEW F, \A f \in F : f.bytes \in Nat, NEW s \in Seq(F), NEW e \in F
    PROVE  Bytes(Append(s, e)) = Bytes(s) + e.bytes
<1>1. <<e>> \in Seq(F) /\ Append(s, e) = s \o <<e>>
  OBVIOUS
<1>2. Bytes(<<e>>) = e.bytes
  <2> DEFINE up == [k \in 0..1 |-> IF k = 0 THEN 0 ELSE e.bytes]
  <2>1. up \in [0..1 -> Nat] /\ up[0] = 0 /\ DOMAIN <<e>> = 1..1 /\ up[1] = e.bytes
    OBVIOUS
  <2>2. \A k \in 1..1 : up[k] = up[k - 1] + <<e>>[k].bytes
    OBVIOUS
  <2> HIDE DEF up
  <2> QED
    BY <2>1, <2>2, BytesAre
<1> QED
  BY <1>1, <1>2, BytesJoin

-----------------------------------------------------------------------------
(***************************************************************************)
(* Images and videos of several messages, joined one after the other.      *)
(***************************************************************************)
LEMMA JoinedAre ==
    ASSUME NEW T, NEW p \in Seq(Seq(T)), NEW up \in [0..Len(p) -> Seq(T)], up[0] = <<>>,
           \A k \in 1..Len(p) : up[k] = up[k - 1] \o p[k]
    PROVE  FlattenSeq(p) = up[Len(p)]
<1>1. CASE Len(p) = 0
  <2>1. p = <<>>
    BY <1>1
  <2> QED
    BY <1>1, <2>1 DEF FlattenSeq
<1>2. CASE Len(p) # 0
  <2> DEFINE Joins(f) == f = [i \in 1..Len(p) |-> IF i = 1 THEN p[i] ELSE f[i-1] \o p[i]]
             known   == [i \in 1..Len(p) |-> up[i]]
             flatten == CHOOSE f : Joins(f)
  <2>1. up[1] = p[1]
    <3>1. 1 \in 1..Len(p) /\ p[1] \in Seq(T)
      BY <1>2
    <3>2. up[1] = up[1 - 1] \o p[1]
      BY <3>1
    <3>3. up[1 - 1] = <<>>
      OBVIOUS
    <3> QED
      BY <3>1, <3>2, <3>3, ConcatEmptySeq
  <2>2. ASSUME NEW i \in 1..Len(p)
        PROVE  known[i] = IF i = 1 THEN p[i] ELSE known[i-1] \o p[i]
    <3>1. CASE i = 1
      BY <2>1, <3>1
    <3>2. CASE i # 1
      <4>1. i - 1 \in 1..Len(p)
        BY <3>2
      <4>2. known[i - 1] = up[i - 1] /\ known[i] = up[i]
        BY <4>1
      <4> QED
        BY <3>2, <4>2
    <3> QED
      BY <3>1, <3>2
  <2>3. Joins(known)
    <3>1. known = [i \in 1..Len(p) |-> known[i]]
      OBVIOUS
    <3> HIDE DEF known
    <3> QED
      BY <2>2, <3>1
  <2>4. Joins(flatten)
    <3> HIDE DEF known, Joins
    <3> QED
      BY <2>3
  <2>5. FlattenSeq(p) = flatten[Len(p)]
    BY <1>2 DEF FlattenSeq
  <2> DEFINE S == {k \in Nat : k + 1 <= Len(p) => flatten[k + 1] = up[k + 1]}
  <2> HIDE DEF flatten
  <2>6. 0 \in S
    <3>1. flatten[1] = p[1]
      BY <2>4, <1>2
    <3> QED
      BY <2>1, <3>1
  <2>7. ASSUME NEW k \in Nat, k \in S PROVE k + 1 \in S
    <3> SUFFICES ASSUME k + 1 + 1 <= Len(p) PROVE flatten[k + 1 + 1] = up[k + 1 + 1]
      OBVIOUS
    <3>1. flatten[k + 1] = up[k + 1]
      BY <2>7
    <3>2. k + 1 + 1 \in 1..Len(p) /\ k + 1 + 1 # 1 /\ k + 1 + 1 - 1 = k + 1
      OBVIOUS
    <3> DEFINE i == k + 1 + 1
    <3>3. flatten[i] = IF i = 1 THEN p[i] ELSE flatten[i - 1] \o p[i]
      <4>1. i \in 1..Len(p)
        BY <3>2
      <4> HIDE DEF i
      <4> QED
        BY <2>4, <4>1
    <3>4. up[i] = up[i - 1] \o p[i]
      <4>1. i \in 1..Len(p)
        BY <3>2
      <4> HIDE DEF i
      <4> QED
        BY <4>1
    <3>5. i # 1 /\ i - 1 = k + 1
      BY <3>2
    <3> HIDE DEF i
    <3>6. flatten[i] = up[i]
      BY <3>1, <3>3, <3>4, <3>5
    <3> QED
      BY <3>6 DEF i
  <2>8. \A k \in Nat : k \in S
    <3> HIDE DEF S
    <3> QED
      BY <2>6, <2>7, SetInduction
  <2>9. flatten[Len(p)] = up[Len(p)]
    <3>1. Len(p) - 1 \in Nat /\ Len(p) - 1 + 1 = Len(p)
      BY <1>2
    <3>2. Len(p) - 1 \in S
      BY <2>8, <3>1
    <3> QED
      BY <3>1, <3>2
  <2> QED
    BY <2>5, <2>9
<1> QED
  BY <1>1, <1>2

LEMMA JoinedUpTo ==
    ASSUME NEW T, NEW p \in Seq(Seq(T))
    PROVE  \E up \in [0..Len(p) -> Seq(T)] :
              up[0] = <<>> /\ \A k \in 1..Len(p) : up[k] = up[k - 1] \o p[k]
<1> DEFINE Up(up, n) == /\ up \in [0..n -> Seq(T)] /\ up[0] = <<>>
                        /\ \A k \in 1..n : up[k] = up[k - 1] \o p[k]
           S == {n \in Nat : n <= Len(p) => \E up : Up(up, n)}
<1>1. 0 \in S
  <2>1. Up([k \in 0..0 |-> <<>>], 0)
    OBVIOUS
  <2> QED
    BY <2>1
<1>2. ASSUME NEW n \in Nat, n \in S PROVE n + 1 \in S
  <2> SUFFICES ASSUME n + 1 <= Len(p) PROVE \E up : Up(up, n + 1)
    <3> HIDE DEF Up
    <3> QED
      OBVIOUS
  <2>1. PICK up : Up(up, n)
    <3> HIDE DEF Up
    <3> QED
      BY <1>2
  <2> DEFINE joined == up[n] \o p[n + 1]
             next == [k \in 0..(n + 1) |-> IF k = n + 1 THEN joined ELSE up[k]]
  <2>2. joined \in Seq(T)
    <3>1. up[n] \in Seq(T) /\ p[n + 1] \in Seq(T)
      BY <2>1
    <3> QED
      BY <3>1
  <2>3. next \in [0..(n + 1) -> Seq(T)] /\ next[0] = <<>>
    <3> HIDE DEF joined
    <3> QED
      BY <2>1, <2>2
  <2>4. ASSUME NEW k \in 1..(n + 1) PROVE next[k] = next[k - 1] \o p[k]
    <3>1. next[k - 1] = up[k - 1] /\ k - 1 \in 0..n
      OBVIOUS
    <3>2. CASE k = n + 1
      <4>1. next[k] = joined /\ k - 1 = n
        <5> HIDE DEF joined
        <5> QED
          BY <3>2
      <4> QED
        BY <3>1, <3>2, <4>1
    <3>3. CASE k \in 1..n
      <4>1. next[k] = up[k]
        BY <3>3
      <4> QED
        BY <2>1, <3>1, <3>3, <4>1
    <3>4. k = n + 1 \/ k \in 1..n
      OBVIOUS
    <3> HIDE DEF next
    <3> QED
      BY <3>2, <3>3, <3>4
  <2>5. Up(next, n + 1)
    <3> HIDE DEF next
    <3> QED
      BY <2>3, <2>4
  <2> HIDE DEF Up, next
  <2> QED
    BY <2>5
<1>3. Len(p) \in S
  <2>1. \A n \in Nat : n \in S
    <3> HIDE DEF S
    <3> QED
      BY <1>1, <1>2, SetInduction
  <2> HIDE DEF S
  <2> QED
    BY <2>1
<1>4. PICK up : Up(up, Len(p))
  <2> HIDE DEF Up
  <2> QED
    BY <1>3
<1> QED
  BY <1>4

LEMMA Joined ==
    ASSUME NEW T, NEW p \in Seq(Seq(T)), NEW x \in Seq(T)
    PROVE  /\ FlattenSeq(p) \in Seq(T)
           /\ p = <<>> => FlattenSeq(p) = <<>>
           /\ FlattenSeq(Append(p, x)) = FlattenSeq(p) \o x
<1>1. PICK up \in [0..Len(p) -> Seq(T)] :
          up[0] = <<>> /\ \A k \in 1..Len(p) : up[k] = up[k - 1] \o p[k]
  BY JoinedUpTo
<1>2. /\ FlattenSeq(p) = up[Len(p)] /\ up[Len(p)] \in Seq(T)
      /\ Len(p) \in Nat /\ p = <<>> <=> Len(p) = 0
  <2>1. FlattenSeq(p) = up[Len(p)]
    BY <1>1, JoinedAre
  <2>2. Len(p) \in 0..Len(p) /\ Len(p) \in Nat /\ p = <<>> <=> Len(p) = 0
    OBVIOUS
  <2> QED
    BY <2>1, <2>2
<1> DEFINE longer == Append(p, x)
           all    == up[Len(p)] \o x
           next   == [k \in 0..Len(longer) |-> IF k = Len(p) + 1 THEN all ELSE up[k]]
<1>3. /\ longer \in Seq(Seq(T)) /\ Len(longer) = Len(p) + 1 /\ all \in Seq(T)
      /\ longer[Len(p) + 1] = x /\ \A k \in 1..Len(p) : longer[k] = p[k]
  BY <1>2
<1>4. next \in [0..Len(longer) -> Seq(T)] /\ next[0] = <<>> /\ next[Len(longer)] = all
  <2> HIDE DEF all, longer
  <2> QED
    BY <1>1, <1>3
<1>5. ASSUME NEW k \in 1..Len(longer) PROVE next[k] = next[k - 1] \o longer[k]
  <2> HIDE DEF longer
  <2>1. next[k - 1] = up[k - 1]
    BY <1>2, <1>3
  <2>2. CASE k = Len(p) + 1
    <3>1. next[k] = up[Len(p)] \o x /\ k - 1 = Len(p)
      BY <1>2, <1>3, <2>2
    <3> QED
      BY <1>3, <2>1, <2>2, <3>1
  <2>3. CASE k \in 1..Len(p)
    <3>1. next[k] = up[k] /\ longer[k] = p[k]
      BY <1>2, <1>3, <2>3
    <3> QED
      BY <1>1, <2>1, <2>3, <3>1
  <2>4. k = Len(p) + 1 \/ k \in 1..Len(p)
    BY <1>2, <1>3
  <2> QED
    BY <2>2, <2>3, <2>4
<1>6. FlattenSeq(longer) = all
  <2> HIDE DEF longer, all, next
  <2> QED
    BY <1>3, <1>4, <1>5, JoinedAre
<1> QED
  BY <1>1, <1>2, <1>6

(* What one more row adds to the files of a snapshot.                      *)
LEMMA FilesOfRows ==
    ASSUME NEW rows \in Seq(Rows), NEW row \in Rows
    PROVE  /\ Images(rows) \in Seq(KeptImages) /\ Videos(rows) \in Seq(KeptVideos)
           /\ rows = <<>> => Images(rows) = <<>> /\ Videos(rows) = <<>>
           /\ Images(Append(rows, row)) = Images(rows) \o row.images
           /\ Videos(Append(rows, row)) = Videos(rows) \o row.videos
<1> DEFINE longer == Append(rows, row)
           images == [i \in DOMAIN rows |-> rows[i].images]
           videos == [i \in DOMAIN rows |-> rows[i].videos]
<1>1. /\ images \in Seq(Seq(KeptImages)) /\ row.images \in Seq(KeptImages)
      /\ videos \in Seq(Seq(KeptVideos)) /\ row.videos \in Seq(KeptVideos)
      /\ rows = <<>> => images = <<>> /\ videos = <<>>
  <2>1. \A i \in DOMAIN rows : /\ rows[i].images \in Seq(KeptImages)
                               /\ rows[i].videos \in Seq(KeptVideos)
    <3>1. \A i \in DOMAIN rows : rows[i] \in Rows
      OBVIOUS
    <3> QED
      BY <3>1 DEF Rows
  <2>2. /\ Len(rows) \in Nat /\ DOMAIN rows = 1..Len(rows)
        /\ row.images \in Seq(KeptImages) /\ row.videos \in Seq(KeptVideos)
    BY DEF Rows
  <2>3. images \in Seq(Seq(KeptImages)) /\ videos \in Seq(Seq(KeptVideos))
    BY <2>1, <2>2, SeqDef
  <2> QED
    BY <2>2, <2>3
<1>2. /\ [i \in DOMAIN longer |-> longer[i].images] = Append(images, row.images)
      /\ [i \in DOMAIN longer |-> longer[i].videos] = Append(videos, row.videos)
  OBVIOUS
<1>3. /\ Images(rows) = FlattenSeq(images) /\ Videos(rows) = FlattenSeq(videos)
      /\ Images(longer) = FlattenSeq(Append(images, row.images))
      /\ Videos(longer) = FlattenSeq(Append(videos, row.videos))
  BY <1>2 DEF Images, Videos
<1> HIDE DEF images, videos
<1> QED
  BY ZenonT(60), <1>1, <1>3, Joined

-----------------------------------------------------------------------------
(***************************************************************************)
(* The files of a message, fetched one after the other.                    *)
(***************************************************************************)
NoneYet(tried) == [kept |-> <<>>, tried |-> tried, issues |-> {}]

IssueAt(kind, files, got, before, acc, i) ==
    Issue(kind, files[i], got[i], acc.tried, Bytes(before) + Bytes(acc.kept))

FetchedOne(kind, files, got, before, acc, i) ==
    [kept   |-> IF IssueAt(kind, files, got, before, acc, i) = "none"
                THEN Append(acc.kept, files[i]) ELSE acc.kept,
     tried  |-> IF acc.tried >= MaxTried(kind) THEN acc.tried ELSE acc.tried + 1,
     issues |-> acc.issues \cup ({IssueAt(kind, files, got, before, acc, i)} \ {"none"})]

IsFetches(iter, kind, files, got, before, tried, index, n) ==
    iter = [t \in SUBSET (1..n) |->
               IF t = {} THEN NoneYet(tried)
               ELSE FetchedOne(kind, files, got, before, iter[t \ {Max(t)}], index[Max(t)])]

LEMMA FetchesExist ==
    ASSUME NEW kind, NEW files, NEW got, NEW before, NEW tried,
           NEW index, NEW n \in Nat
    PROVE  \E iter : IsFetches(iter, kind, files, got, before, tried, index, n)
<1> DEFINE Fetches(iter, k) == IsFetches(iter, kind, files, got, before, tried, index, k)
           S == {k \in Nat : \E iter : Fetches(iter, k)}
<1>1. 0 \in S
  <2>1. Fetches([t \in SUBSET (1..0) |-> NoneYet(tried)], 0)
    BY DEF IsFetches
  <2> HIDE DEF Fetches
  <2> QED
    BY <2>1
<1>2. ASSUME NEW k \in Nat, k \in S PROVE k + 1 \in S
  <2>1. PICK f : Fetches(f, k)
    BY <1>2
  <2> DEFINE g == [t \in SUBSET (1..(k+1)) |->
                     IF k + 1 \in t
                     THEN FetchedOne(kind, files, got, before, f[t \ {k + 1}], index[k + 1])
                     ELSE f[t]]
  <2>2. ASSUME NEW t \in SUBSET (1..(k+1))
        PROVE  g[t] = IF t = {} THEN NoneYet(tried)
                      ELSE FetchedOne(kind, files, got, before, g[t \ {Max(t)}], index[Max(t)])
    <3>1. CASE k + 1 \in t
      <4>1. Max(t) = k + 1
        BY <3>1, MaxIs
      <4>2. g[t \ {k + 1}] = f[t \ {k + 1}]
        OBVIOUS
      <4> QED
        BY <3>1, <4>1, <4>2
    <3>2. CASE k + 1 \notin t
      <4>1. t \in SUBSET (1..k) /\ g[t] = f[t]
        BY <3>2
      <4>2. f[t] = IF t = {} THEN NoneYet(tried)
                   ELSE FetchedOne(kind, files, got, before, f[t \ {Max(t)}], index[Max(t)])
        BY <2>1, <4>1 DEF IsFetches
      <4>3. t \ {Max(t)} \in SUBSET (1..(k+1)) /\ k + 1 \notin t \ {Max(t)}
        BY <3>2
      <4>4. g[t \ {Max(t)}] = f[t \ {Max(t)}]
        BY <4>3
      <4> QED
        BY <4>1, <4>2, <4>4
    <3> QED
      BY <3>1, <3>2
  <2>3. Fetches(g, k + 1)
    <3>1. g = [t \in SUBSET (1..(k+1)) |-> g[t]]
      OBVIOUS
    <3> HIDE DEF g
    <3> QED
      BY <2>2, <3>1 DEF IsFetches
  <2> HIDE DEF Fetches, g
  <2> QED
    BY <2>3
<1>3. \A k \in Nat : k \in S
  <2> HIDE DEF S
  <2> QED
    BY <1>1, <1>2, SetInduction
<1> QED
  BY <1>3 DEF S

(* What has been fetched up to each file.                                  *)
LEMMA FetchedUpTo ==
    ASSUME NEW kind, NEW files, NEW got, NEW before, NEW tried,
           NEW n \in Nat, DOMAIN files = 1..n
    PROVE  \E up : /\ up[0] = NoneYet(tried)
                   /\ \A k \in 1..n : up[k] = FetchedOne(kind, files, got, before, up[k - 1], k)
                   /\ Fetched(kind, files, got, tried, before) = up[n]
<1> DEFINE index == [i \in DOMAIN files |-> i]
           Fetches(iter) == IsFetches(iter, kind, files, got, before, tried, index, n)
           iter == CHOOSE iter : Fetches(iter)
<1>1. DOMAIN index = 1..n
  OBVIOUS
<1>2. Fetched(kind, files, got, tried, before) = iter[1..n]
  BY <1>1 DEF Fetched, FoldLeftDomain, FoldLeft, MapThenFoldSet, FetchedOne, NoneYet,
              IssueAt, IsFetches
<1>3. Fetches(iter)
  <2>1. \E f : Fetches(f)
    <3> HIDE DEF index
    <3> QED
      BY FetchesExist
  <2> HIDE DEF Fetches
  <2> QED
    BY <2>1
<1> HIDE DEF iter
<1> DEFINE up == [k \in 0..n |-> iter[1..k]]
<1>4. up[0] = NoneYet(tried)
  BY <1>1, <1>3 DEF IsFetches
<1>5. ASSUME NEW k \in 1..n
      PROVE  up[k] = FetchedOne(kind, files, got, before, up[k - 1], k)
  <2>1. k \in 1..k /\ k - 1 \in Nat /\ k - 1 + 1 = k
    OBVIOUS
  <2>2. Max(1..k) = k
    <3>1. 1..k \in SUBSET (1..(k - 1 + 1))
      BY <2>1
    <3>2. k - 1 + 1 \in 1..k
      BY <2>1
    <3>3. Max(1..k) = k - 1 + 1
      BY ONLY <2>1, <3>1, <3>2, MaxIs
    <3> QED
      BY <2>1, <3>3
  <2>3. (1..k) \ {k} = 1..(k - 1)
    <3>1. \A x : x \in (1..k) \ {k} <=> x \in 1..(k - 1)
      OBVIOUS
    <3> QED
      BY <3>1
  <2>4. index[k] = k
    OBVIOUS
  <2> DEFINE t == 1..k
  <2>5. t \in SUBSET (1..n) /\ t # {}
    <3>1. \A x \in 1..k : x \in 1..n
      OBVIOUS
    <3> QED
      BY <2>1, <3>1
  <2> HIDE DEF index
  <2>6. iter[t] = FetchedOne(kind, files, got, before, iter[t \ {Max(t)}], index[Max(t)])
    <3> HIDE DEF t
    <3> QED
      BY <1>3, <2>5 DEF IsFetches
  <2>7. up[k] = iter[1..k] /\ up[k - 1] = iter[1..(k - 1)]
    OBVIOUS
  <2> HIDE DEF up
  <2> QED
    BY <2>2, <2>3, <2>4, <2>6, <2>7
<1>6. up[n] = iter[1..n]
  OBVIOUS
<1> HIDE DEF up, index
<1> QED
  BY <1>2, <1>4, <1>5, <1>6

FilesOf(kind)  == IF kind = "image" THEN ImageFiles ELSE VideoFiles
KeptOf(kind)   == IF kind = "image" THEN KeptImages ELSE KeptVideos
MaxTotal(kind) == IF kind = "image" THEN MaxTotalImageBytes ELSE MaxTotalVideoBytes

LEMMA Numbers ==
    /\ PageSize \in Nat \ {0} /\ MaxBoundaryScan \in Nat \ {0} /\ MaxMessages \in Nat \ {0}
    /\ ChunkBytes \in Nat \ {0} /\ PlaceholderBytes \in Nat \ {0}
    /\ MaxTextBytes \in Nat /\ MaxImages \in Nat /\ MaxTotalImageBytes \in Nat
    /\ MaxVideos \in Nat /\ MaxTotalVideoBytes \in Nat
    /\ \A kind : MaxTried(kind) \in Nat /\ MaxTotal(kind) \in Nat
BY AttachedContextAssumption DEF MaxTried, MaxTotal

LEMMA FilesHaveBytes ==
    ASSUME NEW kind
    PROVE  /\ KeptOf(kind) \subseteq FilesOf(kind)
           /\ \A f \in FilesOf(kind) : f.bytes \in Nat
BY DEF FilesOf, KeptOf, KeptImages, KeptVideos, ImageFiles, VideoFiles

(* A file without an issue was within the limits, and of a known type.     *)
LEMMA IssueIs ==
    ASSUME NEW kind \in {"image", "video"}, NEW file \in FilesOf(kind), NEW got,
           NEW tried \in Nat, NEW total \in Nat
    PROVE  /\ Issue(kind, file, got, tried, total) \in Codes \cup {"none"}
           /\ Issue(kind, file, got, tried, total) = "none" =>
                 /\ tried < MaxTried(kind) /\ file \in KeptOf(kind)
                 /\ total + file.bytes <= MaxTotal(kind)
<1>1. CASE kind = "image"
  <2>1. file \in ImageFiles /\ file.bytes \in Nat
    BY <1>1 DEF FilesOf, ImageFiles
  <2>2. Issue(kind, file, got, tried, total) = ImageIssue(file, got, tried, total)
    BY <1>1 DEF Issue
  <2>3. ImageIssue(file, got, tried, total) \in Codes \cup {"none"}
    BY DEF ImageIssue, Codes
  <2>4. ImageIssue(file, got, tried, total) = "none" =>
            tried < MaxImages /\ file.supported /\ total + file.bytes <= MaxTotalImageBytes
    BY <2>1, Numbers DEF ImageIssue
  <2> QED
    BY <1>1, <2>1, <2>2, <2>3, <2>4 DEF MaxTried, MaxTotal, KeptOf, KeptImages
<1>2. CASE kind = "video"
  <2>1. file \in VideoFiles /\ file.bytes \in Nat
    BY <1>2 DEF FilesOf, VideoFiles
  <2>2. Issue(kind, file, got, tried, total) = VideoIssue(file, got, tried, total)
    BY <1>2 DEF Issue
  <2>3. VideoIssue(file, got, tried, total) \in Codes \cup {"none"}
    BY DEF VideoIssue, Codes
  <2>4. VideoIssue(file, got, tried, total) = "none" =>
            tried < MaxVideos /\ file.supported /\ total + file.bytes <= MaxTotalVideoBytes
    BY <2>1, Numbers DEF VideoIssue
  <2> QED
    BY <1>2, <2>1, <2>2, <2>3, <2>4 DEF MaxTried, MaxTotal, KeptOf, KeptVideos
<1> QED
  BY <1>1, <1>2

(* What is kept fits the limits, and without an issue everything is.       *)
FetchFits(kind, files, tried, before, acc) ==
    /\ acc.kept \in Seq(KeptOf(kind)) /\ acc.tried \in Nat /\ acc.issues \in SUBSET Codes
    /\ acc.tried <= MaxTried(kind)
    /\ tried + Len(acc.kept) <= acc.tried
    /\ Bytes(before) + Bytes(acc.kept) <= MaxTotal(kind)
    /\ acc.issues = {} => acc.kept = files

LEMMA FetchedOneFits ==
    ASSUME NEW kind \in {"image", "video"}, NEW files \in Seq(FilesOf(kind)), NEW got,
           NEW tried \in Nat, NEW before \in Seq(KeptOf(kind)), NEW acc,
           NEW k \in 1..Len(files),
           FetchFits(kind, SubSeq(files, 1, k - 1), tried, before, acc)
    PROVE  FetchFits(kind, SubSeq(files, 1, k), tried, before,
                     FetchedOne(kind, files, got, before, acc, k))
<1> DEFINE issue == IssueAt(kind, files, got, before, acc, k)
           one   == FetchedOne(kind, files, got, before, acc, k)
<1>1. /\ Bytes(before) \in Nat /\ Bytes(acc.kept) \in Nat
      /\ \A f \in KeptOf(kind) : f.bytes \in Nat
      /\ MaxTried(kind) \in Nat /\ MaxTotal(kind) \in Nat
  <2>1. \A f \in KeptOf(kind) : f.bytes \in Nat
    BY FilesHaveBytes
  <2>2. acc.kept \in Seq(KeptOf(kind))
    BY DEF FetchFits
  <2> QED
    BY <2>1, <2>2, BytesType, Numbers
<1>2. /\ files[k] \in FilesOf(kind) /\ acc.tried \in Nat /\ acc.kept \in Seq(KeptOf(kind))
      /\ acc.issues \in SUBSET Codes /\ acc.tried <= MaxTried(kind)
      /\ tried + Len(acc.kept) <= acc.tried /\ Len(acc.kept) \in Nat
      /\ Bytes(before) + Bytes(acc.kept) <= MaxTotal(kind)
      /\ acc.issues = {} => acc.kept = SubSeq(files, 1, k - 1)
  BY DEF FetchFits
<1>3. /\ issue \in Codes \cup {"none"}
      /\ issue = "none" =>
            /\ acc.tried < MaxTried(kind) /\ files[k] \in KeptOf(kind)
            /\ Bytes(before) + Bytes(acc.kept) + files[k].bytes <= MaxTotal(kind)
  BY <1>1, <1>2, IssueIs DEF IssueAt
<1>4. /\ one.kept = IF issue = "none" THEN Append(acc.kept, files[k]) ELSE acc.kept
      /\ one.tried = IF acc.tried >= MaxTried(kind) THEN acc.tried ELSE acc.tried + 1
      /\ one.issues = acc.issues \cup ({issue} \ {"none"})
  BY DEF FetchedOne
<1> HIDE DEF issue, one
<1>5. CASE issue = "none"
  <2>1. /\ one.kept = Append(acc.kept, files[k]) /\ one.tried = acc.tried + 1
        /\ one.issues = acc.issues
    BY <1>1, <1>2, <1>3, <1>4, <1>5
  <2>2. Bytes(one.kept) = Bytes(acc.kept) + files[k].bytes
    BY <1>1, <1>2, <1>3, <1>5, <2>1, BytesAppend
  <2>3. one.kept \in Seq(KeptOf(kind)) /\ Len(one.kept) = Len(acc.kept) + 1
    BY <1>2, <1>3, <1>5, <2>1
  <2>4. files[k].bytes \in Nat
    BY <1>1, <1>3, <1>5
  <2>5. ASSUME one.issues = {} PROVE one.kept = SubSeq(files, 1, k)
    <3>1. one.kept = Append(SubSeq(files, 1, k - 1), files[k])
      BY <1>2, <2>1, <2>5
    <3> QED
      BY <3>1
  <2>6. one.tried \in Nat /\ one.tried <= MaxTried(kind) /\ tried + Len(one.kept) <= one.tried
    <3>1. MaxTried(kind) \in Nat /\ acc.tried < MaxTried(kind)
      BY <1>3, <1>5, Numbers
    <3> QED
      BY SMTT(30), <1>2, <2>1, <2>3, <3>1
  <2>7. Bytes(before) + Bytes(one.kept) <= MaxTotal(kind)
    BY <1>1, <1>3, <1>5, <2>2, <2>4
  <2> QED
    BY <1>2, <2>1, <2>3, <2>5, <2>6, <2>7 DEF FetchFits, one
<1>6. CASE issue # "none"
  <2>1. one.kept = acc.kept /\ one.issues = acc.issues \cup {issue}
    BY <1>4, <1>6
  <2>2. one.tried \in Nat /\ acc.tried <= one.tried /\ one.tried <= MaxTried(kind)
    <3>1. MaxTried(kind) \in Nat
      BY Numbers
    <3>2. CASE acc.tried >= MaxTried(kind)
      BY <1>2, <1>4, <3>2
    <3>3. CASE ~(acc.tried >= MaxTried(kind))
      BY <1>2, <1>4, <3>1, <3>3
    <3> QED
      BY <3>2, <3>3
  <2>3. one.issues # {} /\ one.issues \in SUBSET Codes
    <3>1. issue \in Codes
      BY <1>3, <1>6
    <3> QED
      BY <1>2, <2>1, <3>1
  <2>4. tried + Len(one.kept) <= one.tried
    BY <1>2, <2>1, <2>2
  <2> QED
    BY <1>2, <2>1, <2>2, <2>3, <2>4 DEF FetchFits, one
<1> QED
  BY <1>5, <1>6 DEF one

LEMMA FetchedFits ==
    ASSUME NEW kind \in {"image", "video"}, NEW files \in Seq(FilesOf(kind)), NEW got,
           NEW tried \in Nat, tried <= MaxTried(kind), NEW before \in Seq(KeptOf(kind)),
           Bytes(before) <= MaxTotal(kind)
    PROVE  FetchFits(kind, files, tried, before, Fetched(kind, files, got, tried, before))
<1>1. Len(files) \in Nat /\ DOMAIN files = 1..Len(files)
  OBVIOUS
<1>2. PICK up : /\ up[0] = NoneYet(tried)
                /\ \A k \in 1..Len(files) :
                       up[k] = FetchedOne(kind, files, got, before, up[k - 1], k)
                /\ Fetched(kind, files, got, tried, before) = up[Len(files)]
  <2> DEFINE n == Len(files)
  <2>1. n \in Nat /\ DOMAIN files = 1..n
    BY <1>1
  <2> HIDE DEF n
  <2>2. \E up : /\ up[0] = NoneYet(tried)
                /\ \A k \in 1..n : up[k] = FetchedOne(kind, files, got, before, up[k - 1], k)
                /\ Fetched(kind, files, got, tried, before) = up[n]
    BY <2>1, FetchedUpTo
  <2> QED
    BY <2>2 DEF n
<1> DEFINE S == {k \in Nat : k <= Len(files) =>
                      FetchFits(kind, SubSeq(files, 1, k), tried, before, up[k])}
<1>3. 0 \in S
  <2>1. /\ up[0].kept = <<>> /\ up[0].tried = tried /\ up[0].issues = {}
        /\ SubSeq(files, 1, 0) = <<>>
    BY <1>2 DEF NoneYet
  <2>2. Bytes(<<>>) = 0 /\ Bytes(before) \in Nat /\ <<>> \in Seq(KeptOf(kind))
    <3>1. \A f \in KeptOf(kind) : f.bytes \in Nat
      BY FilesHaveBytes
    <3>2. <<>> \in Seq(KeptOf(kind))
      OBVIOUS
    <3> QED
      BY <3>1, <3>2, BytesType
  <2>3. MaxTried(kind) \in Nat /\ MaxTotal(kind) \in Nat /\ Len(<<>>) = 0
    BY Numbers
  <2> QED
    <3>1. FetchFits(kind, <<>>, tried, before, up[0])
      BY <2>1, <2>2, <2>3 DEF FetchFits
    <3> QED
      BY <2>1, <3>1
<1>4. ASSUME NEW k \in Nat, k \in S PROVE k + 1 \in S
  <2> SUFFICES ASSUME k + 1 <= Len(files)
               PROVE  FetchFits(kind, SubSeq(files, 1, k + 1), tried, before, up[k + 1])
    OBVIOUS
  <2>1. k + 1 \in 1..Len(files) /\ k + 1 - 1 = k
    BY <1>1
  <2>2. FetchFits(kind, SubSeq(files, 1, k), tried, before, up[k])
    BY <1>4, <1>1
  <2>3. up[k + 1] = FetchedOne(kind, files, got, before, up[k], k + 1)
    BY <1>2, <2>1
  <2> QED
    BY <2>1, <2>2, <2>3, FetchedOneFits
<1>5. Len(files) \in S
  <2>1. \A k \in Nat : k \in S
    <3> HIDE DEF S
    <3> QED
      BY <1>3, <1>4, SetInduction
  <2> QED
    BY <1>1, <2>1
<1>6. SubSeq(files, 1, Len(files)) = files
  OBVIOUS
<1>7. FetchFits(kind, SubSeq(files, 1, Len(files)), tried, before, up[Len(files)])
  BY <1>1, <1>5
<1> QED
  BY <1>2, <1>6, <1>7

-----------------------------------------------------------------------------
(***************************************************************************)
(* A page: where it starts, what is looked at and what is taken.           *)
(***************************************************************************)
LEMMA OldestFirstIs ==
    ASSUME NEW a \in Nat, NEW b \in Nat
    PROVE  OldestFirst(a..b) = [k \in 1..(IF a > b THEN 0 ELSE b - a + 1) |-> a + k - 1]
<1> DEFINE n == IF a > b THEN 0 ELSE b - a + 1
<1>1. Cardinality(a..b) = n
  BY FS_Interval
<1>2. ASSUME NEW i \in a..b PROVE Cardinality({j \in a..b : j < i}) = i - a
  <2>1. {j \in a..b : j < i} = a..(i - 1)
    OBVIOUS
  <2>2. a \in Int /\ i - 1 \in Int /\ i \in Int /\ a <= i
    OBVIOUS
  <2>3. Cardinality(a..(i - 1)) = IF a > i - 1 THEN 0 ELSE i - 1 - a + 1
    BY <2>2, FS_Interval
  <2>4. (IF a > i - 1 THEN 0 ELSE i - 1 - a + 1) = i - a
    BY <2>2
  <2> QED
    BY <2>1, <2>3, <2>4
<1>3. ASSUME NEW k \in 1..n
      PROVE  (CHOOSE i \in a..b : Cardinality({j \in a..b : j < i}) = k - 1) = a + k - 1
  <2>1. a + k - 1 \in a..b
    OBVIOUS
  <2>2. \A i \in a..b : Cardinality({j \in a..b : j < i}) = k - 1 <=> i = a + k - 1
    BY <1>2
  <2> QED
    BY <2>1, <2>2
<1> QED
  BY <1>1, <1>3 DEF OldestFirst

Listing == Types /\ LateLast /\ EndWithTrigger /\ ListingFits /\ reading.phase = "listing"

LEMMA PageStartIs ==
    ASSUME Listing
    PROVE  /\ PageStart \in 1..Len(topic)
           /\ reading.scanned > 0 => PageStart = reading.next
           /\ reading.scanned = 0 => trigger <= PageStart
<1>1. /\ Len(topic) \in Nat /\ DOMAIN topic = 1..Len(topic) /\ trigger \in 1..Len(topic)
      /\ reading.scanned \in Nat
  BY DEF Listing, Types, Reading
<1>2. CASE reading.scanned > 0
  BY <1>1, <1>2 DEF PageStart, Listing, ListingFits
<1>3. CASE reading.scanned = 0
  <2> DEFINE Starts(i) == /\ reading.known => ~topic[i].late
                          /\ \A j \in DOMAIN topic : j > i => reading.known /\ topic[j].late
  <2>1. \E i \in DOMAIN topic : Starts(i)
    <3>1. CASE ~reading.known
      <4>1. Len(topic) \in DOMAIN topic /\ \A j \in DOMAIN topic : ~(j > Len(topic))
        BY <1>1
      <4> QED
        BY <3>1, <4>1
    <3>2. CASE reading.known
      <4> DEFINE T == {n \in Nat : n < Len(topic) /\ ~topic[Len(topic) - n].late}
      <4>1. T \subseteq Nat /\ Len(topic) - trigger \in T
        BY <1>1 DEF Listing, LateLast
      <4>2. PICK n \in T : \A m \in T : ~(m < n)
        <5> HIDE DEF T
        <5> QED
          BY <4>1, LeastNumber
      <4> DEFINE i == Len(topic) - n
      <4>3. i \in DOMAIN topic /\ ~topic[i].late
        BY <1>1
      <4>4. ASSUME NEW j \in DOMAIN topic, j > i PROVE topic[j].late
        <5>1. Len(topic) - j \in Nat /\ Len(topic) - j < n /\ Len(topic) - (Len(topic) - j) = j
          BY <1>1, <4>4
        <5> QED
          BY <4>2, <5>1
      <4> QED
        BY <3>2, <4>3, <4>4
    <3> QED
      BY <3>1, <3>2
  <2>2. PageStart = CHOOSE i \in DOMAIN topic : Starts(i)
    BY <1>3 DEF PageStart
  <2>3. PageStart \in DOMAIN topic /\ Starts(PageStart)
    <3> HIDE DEF Starts
    <3> QED
      BY <2>1, <2>2
  <2>4. ~topic[trigger].late
    BY DEF Listing, LateLast
  <2> QED
    BY <1>1, <1>3, <2>3, <2>4
<1> QED
  BY <1>1, <1>2, <1>3

LEMMA LookedIs ==
    ASSUME Listing
    PROVE  /\ PageStart \in Nat /\ PageLength \in 1..PageStart /\ Looked \in 1..PageLength
           /\ reading.scanned + Looked <= MaxBoundaryScan
           /\ Looked # PageLength => reading.scanned + Looked = MaxBoundaryScan
           /\ HasMore <=> PageStart > PageLength
<1>1. PageStart \in 1..Len(topic) /\ Len(topic) \in Nat
  BY PageStartIs DEF Listing, Types
<1>2. reading.scanned \in Nat /\ reading.scanned < MaxBoundaryScan
  BY DEF Listing, Types, Reading, ListingFits
<1> QED
  BY <1>1, <1>2, Numbers DEF PageLength, Looked, Smaller, HasMore

(* The last message before the trigger that has not been looked at.        *)
Before == IF reading.candidates = <<>> THEN trigger - 1 ELSE PageStart

LEMMA CandidatesAre ==
    ASSUME EndWithTrigger, Types
    PROVE  /\ Len(reading.candidates) \in 0..trigger /\ trigger \in Nat \ {0}
           /\ reading.candidates = <<>> <=> Len(reading.candidates) = 0
           /\ ToSet(reading.candidates) = (trigger - Len(reading.candidates) + 1)..trigger
           /\ trigger \in ToSet(reading.candidates) <=> reading.candidates # <<>>
<1>1. /\ reading.candidates \in Seq(Nat) /\ Len(reading.candidates) \in Nat
      /\ DOMAIN reading.candidates = 1..Len(reading.candidates)
      /\ trigger \in Nat \ {0}
  BY DEF Types, Reading
<1> DEFINE n == Len(reading.candidates)
<1>2. /\ n <= trigger
      /\ \A k \in 1..n : reading.candidates[k] = trigger - n + k
      /\ n \in Nat
  BY <1>1 DEF EndWithTrigger
<1> HIDE DEF n
<1>3. ASSUME NEW i \in (trigger - n + 1)..trigger PROVE i \in ToSet(reading.candidates)
  <2>1. i - (trigger - n) \in 1..n /\ trigger - n + (i - (trigger - n)) = i
    BY <1>1, <1>2
  <2>2. reading.candidates[i - (trigger - n)] = i
    BY <1>2, <2>1
  <2> QED
    BY <1>1, <2>1, <2>2 DEF ToSet, n
<1>4. ASSUME NEW i \in ToSet(reading.candidates) PROVE i \in (trigger - n + 1)..trigger
  <2>1. PICK k \in 1..n : reading.candidates[k] = i
    BY <1>1 DEF ToSet, n
  <2> QED
    BY <1>1, <1>2, <2>1
<1>5. ToSet(reading.candidates) = (trigger - n + 1)..trigger
  BY <1>3, <1>4
<1>6. reading.candidates = <<>> <=> n = 0
  BY <1>1 DEF n
<1>7. trigger \in (trigger - n + 1)..trigger <=> n # 0
  BY <1>1, <1>2
<1>8. Len(reading.candidates) = n /\ n \in 0..trigger
  BY <1>1, <1>2 DEF n
<1> QED
  BY <1>1, <1>5, <1>6, <1>7, <1>8

LEMMA Positions ==
    ASSUME Listing
    PROVE  /\ Before \in Nat /\ Before < trigger
           /\ reading.candidates # <<>> => Len(reading.candidates) = trigger - Before
           /\ Found => /\ PageStart - Looked <= Before
                       /\ Earlier = (PageStart - Looked + 1)..Before
           /\ ~Found => /\ reading.candidates = <<>> /\ Earlier = {}
                        /\ trigger <= PageStart - Looked
           /\ Room \in 1..MaxMessages
           /\ Room = MaxMessages - (IF reading.candidates = <<>> THEN 0 ELSE trigger - Before - 1)
<1> DEFINE n == Len(reading.candidates)
<1>1. /\ n \in 0..trigger /\ trigger \in Nat \ {0}
      /\ reading.candidates = <<>> <=> n = 0
      /\ ToSet(reading.candidates) = (trigger - n + 1)..trigger
      /\ trigger \in ToSet(reading.candidates) <=> reading.candidates # <<>>
  BY CandidatesAre DEF Listing
<1>2. /\ PageStart \in Nat /\ Looked \in 1..PageStart
      /\ reading.scanned > 0 => PageStart = reading.next
      /\ reading.scanned = 0 => trigger <= PageStart
  BY PageStartIs, LookedIs
<1>3. /\ reading.scanned \in Nat /\ n <= MaxMessages
      /\ reading.scanned = 0 => reading.candidates = <<>>
      /\ reading.scanned > 0 => IF reading.candidates = <<>> THEN trigger <= reading.next
                                ELSE n = trigger - reading.next
  BY DEF Listing, ListingFits, Types, Reading
<1>4. IF reading.candidates = <<>> THEN trigger <= PageStart ELSE n = trigger - PageStart
  BY <1>2, <1>3
<1>5. Cardinality(ToSet(reading.candidates) \ {trigger}) = IF reading.candidates = <<>> THEN 0 ELSE n - 1
  <2>1. ToSet(reading.candidates) \ {trigger} = (trigger - n + 1)..(trigger - 1)
    <3>1. \A i : i \in ((trigger - n + 1)..trigger) \ {trigger} <=> i \in (trigger - n + 1)..(trigger - 1)
      <4> HIDE DEF n
      <4> QED
        BY <1>1
    <3> QED
      BY <1>1, <3>1
  <2>2. trigger - n + 1 \in Int /\ trigger - 1 \in Int
    BY <1>1
  <2>3. Cardinality((trigger - n + 1)..(trigger - 1)) =
            IF trigger - n + 1 > trigger - 1 THEN 0 ELSE trigger - 1 - (trigger - n + 1) + 1
    BY <2>2, FS_Interval
  <2>4. (IF trigger - n + 1 > trigger - 1 THEN 0 ELSE trigger - 1 - (trigger - n + 1) + 1)
            = IF n = 0 THEN 0 ELSE n - 1
    <3> HIDE DEF n
    <3> QED
      BY <1>1
  <2> QED
    BY <1>1, <2>1, <2>3, <2>4
<1>6. CASE reading.candidates = <<>>
  <2>1. Found <=> PageStart - Looked < trigger
    BY <1>1, <1>4, <1>6 DEF Found
  <2>2. Before = trigger - 1 /\ Room = MaxMessages
    BY <1>5, <1>6, Numbers DEF Before, Room
  <2>3. Found => Earlier = (PageStart - Looked + 1)..Before
    BY <1>1, <1>2, <1>4, <1>6, <2>2 DEF Earlier
  <2> QED
    BY <1>1, <1>2, <1>6, <2>1, <2>2, <2>3, Numbers DEF Earlier
<1>7. CASE reading.candidates # <<>>
  <2>1. Found /\ Before = PageStart /\ n = trigger - PageStart /\ n > 0
    BY <1>1, <1>4, <1>7 DEF Found, Before
  <2>2. Room = MaxMessages - (n - 1)
    BY <1>5, <1>7 DEF Room
  <2>3. Earlier = (PageStart - Looked + 1)..Before
    BY <1>1, <1>2, <2>1 DEF Earlier
  <2> QED
    BY <1>1, <1>2, <1>3, <1>7, <2>1, <2>2, <2>3, Numbers
<1> QED
  BY <1>6, <1>7

Upwards(a, n) == [k \in 1..n |-> a + k - 1]

LEMMA UpwardsJoin ==
    ASSUME NEW a \in Nat, NEW n \in Nat, NEW s \in Seq(Nat),
           \A k \in 1..Len(s) : s[k] = a + n + k - 1
    PROVE  /\ Upwards(a, n) \o s = Upwards(a, n + Len(s))
           /\ a > 0 => Upwards(a, n) \in Seq(Nat) /\ Len(Upwards(a, n)) = n
<1>1. Upwards(a, n) \in Seq(Int) /\ Len(Upwards(a, n)) = n
      /\ \A k \in 1..n : Upwards(a, n)[k] = a + k - 1
  BY DEF Upwards
<1>2. s \in Seq(Int) /\ Len(s) \in Nat
  OBVIOUS
<1>3. Upwards(a, n) \o s = Upwards(a, n + Len(s))
  <2>1. Upwards(a, n) \o s = [k \in 1..(n + Len(s)) |->
                                IF k <= n THEN Upwards(a, n)[k] ELSE s[k - n]]
    <3> DEFINE u == Upwards(a, n)
    <3>1. u \in Seq(Int) /\ s \in Seq(Int) /\ Len(u) = n
      BY <1>1, <1>2
    <3> HIDE DEF u
    <3>2. u \o s \in Seq(Int) /\ Len(u \o s) = n + Len(s)
      BY <3>1, ConcatProperties
    <3>3. DOMAIN (u \o s) = 1..(n + Len(s))
      BY <3>2
    <3>5. u \o s = [k \in DOMAIN (u \o s) |-> (u \o s)[k]]
      <4> DEFINE w == u \o s
      <4>1. w \in Seq(Int)
        BY <3>2
      <4> HIDE DEF w
      <4>2. w = [k \in DOMAIN w |-> w[k]]
        BY <4>1
      <4> QED
        BY <4>2 DEF w
    <3>4. \A k \in 1..(n + Len(s)) : (u \o s)[k] = IF k <= n THEN u[k] ELSE s[k - n]
      BY <3>1
    <3> QED
      BY <3>3, <3>4, <3>5 DEF u
  <2>2. ASSUME NEW k \in 1..(n + Len(s))
        PROVE  (IF k <= n THEN Upwards(a, n)[k] ELSE s[k - n]) = a + k - 1
    <3>1. CASE k <= n
      BY <1>1, <3>1
    <3>2. CASE ~(k <= n)
      <4>1. k - n \in 1..Len(s) /\ a + n + (k - n) - 1 = a + k - 1
        BY <1>2, <3>2
      <4> QED
        BY <3>2, <4>1
    <3> QED
      BY <3>1, <3>2
  <2> QED
    BY <2>1, <2>2 DEF Upwards
<1>4. a > 0 => Upwards(a, n) \in Seq(Nat)
  BY DEF Upwards
<1> QED
  BY <1>1, <1>3, <1>4

(* The oldest message taken.                                               *)
Oldest ==
    IF Before - (PageStart - Looked) <= Room THEN PageStart - Looked + 1 ELSE Before - Room + 1

LEMMA TakenIs ==
    ASSUME Listing
    PROVE  /\ ~Found => Taken = {} /\ Cardinality(Taken) = 0
           /\ Found => /\ Taken = Oldest..Before /\ Oldest \in 1..(Before + 1)
                       /\ Cardinality(Taken) = Before - Oldest + 1
                       /\ Before - Oldest + 1 <= Room
                       /\ PageStart - Looked < Oldest
                       /\ Before - Oldest + 1 # Room => Oldest = PageStart - Looked + 1
<1>1. /\ Before \in Nat /\ Before < trigger /\ Room \in Nat \ {0}
      /\ Found => /\ PageStart - Looked <= Before
                  /\ Earlier = (PageStart - Looked + 1)..Before
      /\ ~Found => Earlier = {}
  BY Positions, Numbers
<1>2. PageStart \in Nat /\ Looked \in 1..PageStart
  BY LookedIs
<1>3. CASE ~Found
  <2>1. Taken = {}
    BY <1>1, <1>3 DEF Taken
  <2> QED
    BY <1>3, <2>1, FS_EmptySet
<1>4. CASE Found
  <2> DEFINE start == PageStart - Looked
  <2>1. start \in Nat /\ start <= Before /\ Earlier = (start + 1)..Before
    BY <1>1, <1>2, <1>4
  <2> HIDE DEF start
  <2>2. ASSUME NEW i \in Earlier PROVE Cardinality({j \in Earlier : j > i}) = Before - i
    <3>1. i \in Int /\ i <= Before
      BY <1>1, <2>1
    <3>2. {j \in Earlier : j > i} = (i + 1)..Before
      <4>1. \A j : j \in {l \in Earlier : l > i} <=> j \in (i + 1)..Before
        BY <1>1, <2>1
      <4> QED
        BY <4>1
    <3>3. Cardinality((i + 1)..Before) = IF i + 1 > Before THEN 0 ELSE Before - (i + 1) + 1
      BY <1>1, <3>1, FS_Interval
    <3>4. (IF i + 1 > Before THEN 0 ELSE Before - (i + 1) + 1) = Before - i
      BY <1>1, <3>1
    <3> QED
      BY <3>2, <3>3, <3>4
  <2>3. Oldest = IF Before - start <= Room THEN start + 1 ELSE Before - Room + 1
    BY DEF Oldest, start
  <2>4. Oldest \in 1..(Before + 1) /\ start < Oldest /\ Before - Oldest + 1 <= Room
    BY <1>1, <2>1, <2>3
  <2>5. Before - Oldest + 1 # Room => Oldest = start + 1
    BY <1>1, <2>1, <2>3
  <2>6. Taken = Oldest..Before
    <3>1. \A i : i \in Taken <=> i \in Earlier /\ Before - i < Room
      BY <2>2 DEF Taken
    <3>2. \A i : i \in Earlier /\ Before - i < Room <=> i \in Oldest..Before
      BY <1>1, <2>1, <2>3
    <3> QED
      BY <3>1, <3>2
  <2>7. Cardinality(Oldest..Before) = IF Oldest > Before THEN 0 ELSE Before - Oldest + 1
    BY <1>1, <2>4, FS_Interval
  <2>8. (IF Oldest > Before THEN 0 ELSE Before - Oldest + 1) = Before - Oldest + 1
    BY <1>1, <2>4
  <2> QED
    BY <1>4, <2>4, <2>5, <2>6, <2>7, <2>8 DEF start
<1> QED
  BY <1>3, <1>4

LEMMA CollectedIs ==
    ASSUME Listing
    PROVE  /\ ~Found => Collected = <<>> /\ reading.candidates = <<>>
           /\ Found => Collected = Upwards(Oldest, trigger - Oldest + 1)
<1>1. /\ Before \in Nat /\ Before < trigger
      /\ reading.candidates # <<>> => Len(reading.candidates) = trigger - Before
      /\ ~Found => reading.candidates = <<>>
  BY Positions
<1>2. /\ Len(reading.candidates) \in 0..trigger /\ trigger \in Nat \ {0}
      /\ trigger \in ToSet(reading.candidates) <=> reading.candidates # <<>>
      /\ reading.candidates \in Seq(Nat)
  BY CandidatesAre DEF Listing, Types, Reading
<1>3. /\ ~Found => Taken = {}
      /\ Found => Taken = Oldest..Before /\ Oldest \in 1..(Before + 1)
  BY TakenIs
<1>4. CASE ~Found
  <2>1. Collected = OldestFirst({}) \o <<>>
    BY <1>1, <1>3, <1>4 DEF Collected
  <2>2. OldestFirst({}) = <<>>
    <3>1. Cardinality({}) = 0
      BY FS_EmptySet
    <3> QED
      BY <3>1 DEF OldestFirst
  <2> QED
    BY <1>1, <1>4, <2>1, <2>2
<1>5. CASE Found /\ reading.candidates = <<>>
  <2>1. Before = trigger - 1
    BY <1>5 DEF Before
  <2>2. (Oldest..Before) \cup {trigger} = Oldest..trigger
    <3>1. \A i : i \in (Oldest..Before) \cup {trigger} <=> i \in Oldest..trigger
      BY <1>1, <1>2, <1>3, <1>5, <2>1
    <3> QED
      BY <3>1
  <2>3. Collected = OldestFirst(Oldest..trigger) \o <<>>
    BY <1>2, <1>3, <1>5, <2>2 DEF Collected
  <2>4. OldestFirst(Oldest..trigger) =
          Upwards(Oldest, IF Oldest > trigger THEN 0 ELSE trigger - Oldest + 1)
    <3>1. Oldest \in Nat /\ trigger \in Nat
      BY <1>1, <1>2, <1>3, <1>5
    <3> QED
      BY <3>1, OldestFirstIs DEF Upwards
  <2>5. (IF Oldest > trigger THEN 0 ELSE trigger - Oldest + 1) = trigger - Oldest + 1
        /\ trigger - Oldest + 1 \in Nat /\ Oldest \in Nat /\ Oldest > 0
    BY <1>1, <1>2, <1>3, <1>5
  <2>6. Upwards(Oldest, trigger - Oldest + 1) \in Seq(Nat)
    <3> DEFINE none == <<>>
    <3>1. none \in Seq(Nat) /\ \A k \in 1..Len(none) : none[k] = Oldest + (trigger - Oldest + 1) + k - 1
      OBVIOUS
    <3> HIDE DEF none
    <3> QED
      BY <2>5, <3>1, UpwardsJoin
  <2> QED
    BY <1>5, <2>3, <2>4, <2>5, <2>6
<1>6. CASE Found /\ reading.candidates # <<>>
  <2> DEFINE n == Len(reading.candidates)
             m == Before - Oldest + 1
  <2>1. n = trigger - Before /\ Oldest \in Nat \ {0} /\ n \in Nat /\ m \in Nat
    BY <1>1, <1>2, <1>3, <1>6
  <2>2. Collected = OldestFirst(Oldest..Before) \o reading.candidates
    BY <1>2, <1>3, <1>6 DEF Collected
  <2>3. OldestFirst(Oldest..Before) = Upwards(Oldest, m)
    <3>1. (IF Oldest > Before THEN 0 ELSE Before - Oldest + 1) = m
      BY <1>1, <2>1
    <3> QED
      BY <1>1, <2>1, <3>1, OldestFirstIs DEF Upwards
  <2>4. \A k \in 1..n : reading.candidates[k] = Oldest + m + k - 1
    <3>1. \A k \in DOMAIN reading.candidates : reading.candidates[k] = trigger - n + k
      BY DEF Listing, EndWithTrigger
    <3>2. DOMAIN reading.candidates = 1..n
      BY <1>2
    <3>3. ASSUME NEW k \in 1..n PROVE trigger - n + k = Oldest + m + k - 1
      <4>1. k \in Int /\ trigger - n = Before /\ Oldest + m - 1 = Before
        BY <1>1, <1>2, <2>1
      <4> HIDE DEF n, m
      <4> QED
        BY <1>1, <1>2, <2>1, <4>1
    <3> HIDE DEF n, m
    <3> QED
      BY <3>1, <3>2, <3>3
  <2>5. m + n = trigger - Oldest + 1
    <3>1. Before - Oldest + 1 + (trigger - Before) = trigger - Oldest + 1
      BY <1>1, <1>2, <2>1
    <3> QED
      BY <2>1, <3>1
  <2> HIDE DEF m
  <2>6. Upwards(Oldest, m) \o reading.candidates = Upwards(Oldest, m + n)
    <3>1. Oldest \in Nat /\ m \in Nat /\ reading.candidates \in Seq(Nat)
      BY <1>2, <2>1
    <3>2. \A k \in 1..Len(reading.candidates) : reading.candidates[k] = Oldest + m + k - 1
      BY <2>4
    <3> QED
      BY <3>1, <3>2, UpwardsJoin
  <2> QED
    BY <1>6, <2>2, <2>3, <2>5, <2>6
<1> QED
  BY <1>4, <1>5, <1>6

(* What a page leaves: candidates that fit, of which none is left out      *)
(* before them but by a limit.                                             *)
LEMMA PageFits ==
    ASSUME Listing
    PROVE  /\ Collected \in Seq(Nat) /\ Len(Collected) \in 0..trigger
           /\ Len(Collected) <= MaxMessages + 1
           /\ \A k \in DOMAIN Collected : Collected[k] = trigger - Len(Collected) + k
           /\ Collected # <<>> <=> Found
           /\ trigger \in ToSet(Collected) <=> Found
           /\ HasMore /\ ~LimitReached =>
                 /\ Len(Collected) <= MaxMessages
                 /\ PageStart - Looked \in 1..Len(topic)
                 /\ IF Collected = <<>> THEN trigger <= PageStart - Looked
                    ELSE Len(Collected) = trigger - (PageStart - Looked)
           /\ ~HasMore /\ ~LimitReached /\ Found =>
                 Len(Collected) = trigger \/ reading.scanned + Looked = MaxBoundaryScan
<1>1. /\ Before \in Nat /\ Before < trigger /\ Room \in 1..MaxMessages
      /\ ~Found => trigger <= PageStart - Looked
      /\ Room = MaxMessages - (IF reading.candidates = <<>> THEN 0 ELSE trigger - Before - 1)
  BY Positions
<1>2. reading.candidates = <<>> => Before = trigger - 1
  BY DEF Before
<1>3. /\ PageStart \in 1..Len(topic) /\ Len(topic) \in Nat
      /\ PageLength \in 1..PageStart /\ Looked \in 1..PageLength
      /\ Looked # PageLength => reading.scanned + Looked = MaxBoundaryScan
      /\ HasMore <=> PageStart > PageLength
  BY LookedIs, PageStartIs DEF Listing, Types
<1>4. trigger \in Nat \ {0} /\ MaxMessages \in Nat \ {0}
  BY CandidatesAre, Numbers DEF Listing
<1>5. CASE ~Found
  <2>1. Collected = <<>>
    BY <1>5, CollectedIs
  <2>2. Collected \in Seq(Nat) /\ Len(Collected) = 0 /\ ToSet(Collected) = {} /\ DOMAIN Collected = {}
    BY <2>1 DEF ToSet
  <2>3. HasMore => PageStart - Looked \in 1..Len(topic)
    BY <1>3
  <2> QED
    BY <1>1, <1>4, <1>5, <2>1, <2>2, <2>3
<1>6. CASE Found
  <2> DEFINE n == trigger - Oldest + 1
  <2>1. /\ Taken = Oldest..Before /\ Oldest \in 1..(Before + 1)
        /\ Cardinality(Taken) = Before - Oldest + 1
        /\ Before - Oldest + 1 <= Room
        /\ Before - Oldest + 1 # Room => Oldest = PageStart - Looked + 1
    BY <1>6, TakenIs
  <2>2. n \in 1..trigger
    BY <1>1, <1>4, <2>1
  <2>3. Collected = Upwards(Oldest, n)
    BY <1>6, CollectedIs
  <2>4. /\ Collected \in Seq(Nat) /\ Len(Collected) = n /\ DOMAIN Collected = 1..n
        /\ \A k \in 1..n : Collected[k] = Oldest + k - 1
    <3>1. n \in Nat /\ Oldest \in Nat \ {0}
      BY <2>1, <2>2
    <3> HIDE DEF n
    <3> QED
      BY <2>3, <3>1 DEF Upwards
  <2>5. \A k \in 1..n : Oldest + k - 1 = trigger - n + k
    BY <1>4, <2>1
  <2>6. trigger \in ToSet(Collected)
    <3>1. n \in DOMAIN Collected /\ trigger - n + n = trigger
      BY <1>4, <2>2, <2>4
    <3>2. Collected[n] = trigger
      <4> HIDE DEF n
      <4> QED
        BY <2>4, <2>5, <3>1
    <3> QED
      BY <3>1, <3>2 DEF ToSet
  <2>7. n <= MaxMessages + 1 /\ (Before - Oldest + 1 # Room => n <= MaxMessages)
    <3>1. CASE reading.candidates = <<>>
      BY <1>1, <1>2, <1>4, <2>1, <3>1
    <3>2. CASE reading.candidates # <<>>
      BY <1>1, <1>4, <2>1, <3>2
    <3> QED
      BY <3>1, <3>2
  <2>8. ASSUME HasMore, ~LimitReached
        PROVE  /\ n <= MaxMessages /\ PageStart - Looked \in 1..Len(topic)
               /\ n = trigger - (PageStart - Looked)
    <3>1. Cardinality(Taken) # Room
      BY <2>8 DEF LimitReached
    <3>2. Oldest = PageStart - Looked + 1
      BY <2>1, <3>1
    <3> QED
      BY <1>3, <1>4, <2>1, <2>7, <2>8, <3>1, <3>2
  <2>9. ASSUME ~HasMore, ~LimitReached PROVE n = trigger \/ reading.scanned + Looked = MaxBoundaryScan
    <3>1. PageStart = PageLength
      BY <1>3, <2>9
    <3>2. CASE Cardinality(Taken) = Room
      <4>1. ~(1 \in 1..PageStart /\ 1 > PageStart - PageLength /\ 1 \notin Taken /\ 1 < trigger)
        BY <2>9, <3>2 DEF LimitReached
      <4>2. 1 \in 1..PageStart /\ 1 > PageStart - PageLength
        BY <1>3, <3>1
      <4>3. Oldest = 1
        BY <1>1, <1>4, <2>1, <4>1, <4>2
      <4> QED
        BY <1>4, <4>3
    <3>3. CASE Cardinality(Taken) # Room
      <4>1. Oldest = PageStart - Looked + 1
        BY <2>1, <3>3
      <4> QED
        BY <1>3, <1>4, <3>1, <4>1
    <3> QED
      BY <3>2, <3>3
  <2>10. \A k \in DOMAIN Collected : Collected[k] = trigger - Len(Collected) + k
    <3> HIDE DEF n
    <3> QED
      BY <2>4, <2>5
  <2>11. Collected # <<>> /\ n \in 0..trigger
    BY <2>2, <2>4
  <2> HIDE DEF n
  <2> QED
    BY <1>6, <2>4, <2>6, <2>7, <2>8, <2>9, <2>10, <2>11
<1> QED
  BY <1>5, <1>6

-----------------------------------------------------------------------------
(***************************************************************************)
(* Every step keeps the invariant.                                         *)
(***************************************************************************)
LEMMA NoFiles == Images(<<>>) = <<>> /\ Videos(<<>>) = <<>> /\ Bytes(<<>>) = 0
<1> DEFINE row == [at |-> 0, text |-> 0, images |-> <<>>, videos |-> <<>>]
<1>1. row \in Rows /\ <<>> \in Seq(Rows)
  BY DEF Rows
<1>2. Images(<<>>) = <<>> /\ Videos(<<>>) = <<>>
  <2> HIDE DEF row
  <2> QED
    BY <1>1, FilesOfRows
<1>3. Bytes(<<>>) = 0
  <2>1. <<>> \in Seq(KeptImages) /\ \A f \in KeptImages : f.bytes \in Nat
    BY DEF KeptImages, ImageFiles
  <2> QED
    BY <2>1, BytesType
<1> QED
  BY <1>2, <1>3

LEMMA StartInv == ContextInit => ContextInv
<1> SUFFICES ASSUME ContextInit PROVE ContextInv
  OBVIOUS
<1> USE DEF ContextInit
<1>1. Types
  <2>1. topic \in Seq(TopicMessages)
    BY AttachedContextAssumption
  <2>2. Requested \in Reading
    BY DEF Requested, Reading, Phases
  <2> QED
    BY <2>1, <2>2 DEF Types
<1>2. LateLast
  <2>1. \A i, j \in DOMAIN topic : i < j /\ topic[i].late => topic[j].late
    BY AttachedContextAssumption
  <2>2. trigger \in Nat
    BY <1>1 DEF Types
  <2> QED
    BY <2>1, <2>2 DEF LateLast
<1>3. EndWithTrigger /\ ListingFits /\ GoneFits
  <2>1. trigger \in Nat
    BY <1>1 DEF Types
  <2> QED
    BY <2>1 DEF EndWithTrigger, ListingFits, GoneFits, Requested
<1>4. RowsFit /\ WholeOrTold /\ StreamFits
  BY Numbers DEF RowsFit, WholeOrTold, StreamFits, Requested
<1>5. LimitsKept
  BY NoFiles, Numbers, AttachedContextAssumption DEF LimitsKept, Requested
<1> QED
  BY <1>1, <1>2, <1>3, <1>4, <1>5 DEF ContextInv

(* The stream does not change but where it sends a frame.                  *)
LEMMA StreamStays ==
    ASSUME StreamFits, UNCHANGED <<carried, frames>>,
           reading'.phase \notin {"streaming", "ended", "broken"} => frames = <<>>,
           reading'.phase = "ended" => Complete
    PROVE  StreamFits'
<1>1. Files' = Files
  BY DEF Files
<1>2. \A f, first, last : Run(f, first, last)' = Run(f, first, last)
  BY DEF Run
<1>3. \A frame : EndsWith(frame)' = EndsWith(frame)
  BY <1>1 DEF EndsWith
<1>4. Complete' = Complete
  BY <1>1 DEF Complete
<1> QED
  BY <1>2, <1>3, <1>4 DEF StreamFits

LEMMA PostFits == ContextInv /\ Post => ContextInv'
<1> SUFFICES ASSUME ContextInv, Post PROVE ContextInv'
  OBVIOUS
<1>1. /\ Types /\ LateLast /\ EndWithTrigger /\ ListingFits /\ GoneFits /\ RowsFit
      /\ LimitsKept /\ WholeOrTold /\ StreamFits
  BY DEF ContextInv
<1>2. PICK m \in Additions : (topic[Len(topic)].late => m.late) /\ topic' = Append(topic, m)
  BY DEF Post
<1>3. /\ reading.phase \in {"idle", "listing"}
      /\ UNCHANGED <<recalled, trigger, reading, carried, frames>>
  BY DEF Post
<1>4. /\ m \in TopicMessages /\ topic \in Seq(TopicMessages) /\ Len(topic) \in Nat
      /\ DOMAIN topic = 1..Len(topic) /\ trigger \in 1..Len(topic)
      /\ recalled \subseteq DOMAIN topic
  BY SMTT(30), <1>1, AttachedContextAssumption DEF Types
<1>5. /\ topic' \in Seq(TopicMessages) /\ DOMAIN topic' = 1..(Len(topic) + 1)
      /\ \A i \in 1..Len(topic) : topic'[i] = topic[i]
      /\ topic'[Len(topic) + 1] = m
  BY <1>2, <1>4
<1>6. Types'
  <2>1. trigger' \in DOMAIN topic' /\ recalled' \subseteq DOMAIN topic'
    BY <1>3, <1>4, <1>5
  <2> QED
    BY <1>1, <1>3, <1>5, <2>1 DEF Types
<1>7. LateLast'
  <2>1. ASSUME NEW i \in 1..(Len(topic) + 1), NEW j \in 1..(Len(topic) + 1), i < j, topic'[i].late
        PROVE  topic'[j].late
    <3>0. i \in 1..Len(topic)
      BY <1>4, <2>1
    <3>1. i \in 1..Len(topic) /\ topic[i].late
      BY <1>4, <1>5, <2>1
    <3>2. CASE j \in 1..Len(topic)
      BY <1>1, <1>4, <1>5, <2>1, <3>1, <3>2 DEF LateLast
    <3>3. CASE j = Len(topic) + 1
      <4>1. topic[Len(topic)].late
        <5>1. CASE i = Len(topic)
          BY <3>1, <5>1
        <5>2. CASE i < Len(topic)
          <6>1. i \in DOMAIN topic /\ Len(topic) \in DOMAIN topic
            BY <1>4, <3>0, <5>2
          <6> QED
            BY <1>1, <3>1, <5>2, <6>1 DEF LateLast
        <5>3. i = Len(topic) \/ i < Len(topic)
          <6>1. \A n \in Nat : \A k \in 1..n : k = n \/ k < n
            OBVIOUS
          <6> QED
            BY <1>4, <3>0, <6>1, Zenon
        <5> QED
          BY <5>1, <5>2, <5>3
      <4> QED
        BY <1>2, <1>5, <3>3, <4>1
    <3> QED
      BY <1>4, <3>2, <3>3
  <2>2. ~topic'[trigger'].late
    BY <1>1, <1>3, <1>4, <1>5 DEF LateLast
  <2> QED
    BY <1>5, <2>1, <2>2 DEF LateLast
<1>8. EndWithTrigger' /\ GoneFits' /\ RowsFit' /\ LimitsKept'
  BY <1>1, <1>3 DEF EndWithTrigger, GoneFits, RowsFit, LimitsKept
<1>9. ListingFits'
  <2>1. \A i : i \in DOMAIN topic => i \in DOMAIN topic'
    BY <1>4, <1>5
  <2> QED
    BY <1>1, <1>3, <2>1 DEF ListingFits
<1>10. WholeOrTold'
  <2>1. reading.status = "none"
    BY <1>1, <1>3 DEF ListingFits, Requested
  <2> QED
    BY <1>3, <2>1 DEF WholeOrTold
<1>11. StreamFits'
  BY <1>1, <1>3, StreamStays DEF StreamFits
<1> QED
  BY <1>6, <1>7, <1>8, <1>9, <1>10, <1>11 DEF ContextInv

LEMMA RecallFits == ContextInv /\ Recall => ContextInv'
<1> SUFFICES ASSUME ContextInv, Recall PROVE ContextInv'
  OBVIOUS
<1>1. /\ Types /\ LateLast /\ EndWithTrigger /\ ListingFits /\ GoneFits /\ RowsFit
      /\ LimitsKept /\ WholeOrTold /\ StreamFits
  BY DEF ContextInv
<1>2. /\ reading.phase \in {"idle", "listing"} /\ recalled \subseteq recalled'
      /\ recalled' \subseteq DOMAIN topic
      /\ UNCHANGED <<topic, trigger, reading, carried, frames>>
  BY <1>1 DEF Recall, Types
<1>3. Types' /\ LateLast' /\ EndWithTrigger' /\ ListingFits' /\ RowsFit' /\ LimitsKept'
  BY <1>1, <1>2 DEF Types, LateLast, EndWithTrigger, ListingFits, RowsFit, LimitsKept
<1>4. GoneFits'
  BY <1>1, <1>2 DEF GoneFits
<1>5. WholeOrTold'
  <2>1. reading.status = "none"
    BY <1>1, <1>2 DEF ListingFits, Requested
  <2> QED
    BY <1>2, <2>1 DEF WholeOrTold
<1>6. StreamFits'
  BY <1>1, <1>2, StreamStays DEF StreamFits
<1> QED
  BY <1>3, <1>4, <1>5, <1>6 DEF ContextInv

LEMMA AskFits == ContextInv /\ (Ask \/ AskTrigger) => ContextInv'
<1> SUFFICES ASSUME ContextInv, Ask \/ AskTrigger PROVE ContextInv'
  OBVIOUS
<1>1. /\ Types /\ LateLast /\ EndWithTrigger /\ ListingFits /\ GoneFits /\ RowsFit
      /\ LimitsKept /\ WholeOrTold /\ StreamFits
  BY DEF ContextInv
<1>2. /\ reading.phase = "idle" /\ UNCHANGED <<topic, recalled, trigger, carried, frames>>
      /\ reading = Requested /\ carried = <<>> /\ frames = <<>>
  BY <1>1 DEF Ask, AskTrigger, ListingFits, RowsFit, StreamFits
<1>3. /\ trigger \in Nat \ {0} /\ recalled \subseteq Nat
  BY <1>1 DEF Types
<1>4. LateLast'
  BY <1>1, <1>2 DEF LateLast
<1>5. PICK video \in BOOLEAN, known \in BOOLEAN :
        \/ reading' = [Requested EXCEPT !.phase = "listing", !.video = video, !.known = known,
                                        !.atStart = recalled]
        \/ reading' = [Requested EXCEPT !.phase = "assembling", !.thread = FALSE, !.video = video,
                            !.candidates = <<trigger>>, !.gone = recalled, !.atStart = recalled]
        \/ reading' = [Requested EXCEPT !.phase = "header", !.status = "unreadable",
                            !.issues = {"history_unreadable"}]
  BY <1>2 DEF Ask, AskTrigger
<1>6. /\ reading' \in Reading
      /\ reading'.phase \in {"listing", "assembling", "header"}
      /\ reading'.status \in {"none", "unreadable"}
      /\ reading'.phase = "assembling" => reading'.status = "none" /\ ~reading'.thread
      /\ reading'.candidates = IF reading'.phase = "assembling" THEN <<trigger>> ELSE <<>>
      /\ reading'.phase = "listing" =>
            /\ reading'.thread /\ reading'.issues = {} /\ ~reading'.truncated
            /\ reading'.status = "none"
      /\ reading'.scanned = 0 /\ reading'.text = 0 /\ reading'.images = 0 /\ reading'.videos = 0
      /\ reading'.gone \subseteq recalled /\ reading'.atStart \subseteq recalled
      /\ reading'.phase = "assembling" => reading'.gone = recalled
  <2>0. Requested \in Reading
    BY <1>1, <1>2 DEF Types
  <2>1. CASE reading' = [Requested EXCEPT !.phase = "listing", !.video = video, !.known = known,
                                        !.atStart = recalled]
    <3>1. reading' \in Reading
      BY <1>3, <2>0, <2>1 DEF Reading, Phases
    <3> QED
      BY <1>3, <2>1, <3>1 DEF Requested
  <2>2. CASE reading' = [Requested EXCEPT !.phase = "assembling", !.thread = FALSE, !.video = video,
                            !.candidates = <<trigger>>, !.gone = recalled, !.atStart = recalled]
    <3>1. reading' \in Reading
      <4>1. <<trigger>> \in Seq(Nat) /\ recalled \in SUBSET Nat
        BY <1>3
      <4> QED
        BY <2>0, <2>2, <4>1 DEF Reading, Phases
    <3> QED
      BY <1>3, <2>2, <3>1 DEF Requested
  <2>3. CASE reading' = [Requested EXCEPT !.phase = "header", !.status = "unreadable",
                            !.issues = {"history_unreadable"}]
    <3>1. reading' \in Reading
      BY <1>3, <2>0, <2>3 DEF Reading, Phases, Codes
    <3> QED
      BY <1>3, <2>3, <3>1 DEF Requested
  <2> QED
    BY <1>5, <2>1, <2>2, <2>3
<1>7. Types'
  BY <1>1, <1>2, <1>6 DEF Types
<1>8. EndWithTrigger' /\ ListingFits' /\ GoneFits'
  <2>1. EndWithTrigger'
    BY <1>2, <1>3, <1>6 DEF EndWithTrigger
  <2>2. ListingFits'
    BY <1>2, <1>6, Numbers DEF ListingFits
  <2>3. GoneFits'
    <3>1. reading'.phase = "listing" => ToSet(reading'.candidates) = {}
      BY <1>6 DEF ToSet
    <3> QED
      BY <1>2, <1>6, <3>1 DEF GoneFits
  <2> QED
    BY <2>1, <2>2, <2>3
<1>9. RowsFit'
  <2>1. Len(reading'.candidates) \in {0, 1}
    BY <1>6
  <2> QED
    BY <1>2, <1>6, <2>1, Numbers DEF RowsFit
<1>10. LimitsKept'
  BY <1>1, <1>2, <1>6, NoFiles, Numbers DEF LimitsKept
<1>11. WholeOrTold'
  <2>1. reading'.phase = "assembling" => First' = trigger /\ Len(reading'.candidates) = 1
    BY <1>2, <1>6 DEF First
  <2>2. trigger..(trigger - 1) = {}
    BY <1>3
  <2> QED
    BY <1>2, <1>6, <2>1, <2>2 DEF WholeOrTold
<1>12. StreamFits'
  BY <1>1, <1>2, <1>6, StreamStays
<1> QED
  BY <1>4, <1>7, <1>8, <1>9, <1>10, <1>11, <1>12 DEF ContextInv

LEMMA ListedFits ==
    ASSUME ContextInv, reading.phase = "listing",
           UNCHANGED <<topic, recalled, trigger, carried, frames>>,
           NEW cands \in Seq(Nat), NEW issues \in SUBSET Codes, NEW truncated \in BOOLEAN,
           NEW unreadable \in BOOLEAN, Listed(cands, issues, truncated, unreadable),
           Len(cands) \in 0..trigger, Len(cands) <= MaxMessages + 1,
           \A k \in DOMAIN cands : cands[k] = trigger - Len(cands) + k,
           trigger \in ToSet(cands) => \/ issues # {} \/ Len(cands) = trigger
                                      \/ reading.scanned + Looked = MaxBoundaryScan
    PROVE  ContextInv'
<1>1. /\ Types /\ LateLast /\ EndWithTrigger /\ ListingFits /\ GoneFits /\ RowsFit
      /\ LimitsKept /\ WholeOrTold /\ StreamFits /\ Listing
  BY DEF ContextInv, Listing
<1>2. /\ reading.thread /\ reading.issues = {} /\ ~reading.truncated /\ reading.status = "none"
      /\ reading.text = 0 /\ reading.images = 0 /\ reading.videos = 0
      /\ carried = <<>> /\ frames = <<>>
  BY <1>1 DEF ListingFits, RowsFit, StreamFits
<1>3. /\ reading \in Reading /\ reading.scanned \in Nat /\ Looked \in Nat /\ recalled \in SUBSET Nat
      /\ trigger \in Nat \ {0}
  <2>1. reading \in Reading /\ recalled \in SUBSET Nat
    BY <1>1 DEF Types
  <2>2. reading.scanned \in Nat
    BY <2>1 DEF Reading
  <2>3. Looked \in Nat /\ trigger \in Nat \ {0}
    BY <1>1, LookedIs, CandidatesAre
  <2> QED
    BY <2>1, <2>2, <2>3
<1> DEFINE found == trigger \in ToSet(cands)
           gone  == reading.gone \cup (recalled \ ToSet(reading.candidates))
           codes == reading.issues \cup issues
                       \cup (IF found THEN {} ELSE {"boundary_not_found"})
<1>4. reading' = [reading EXCEPT
                    !.candidates = cands, !.gone = gone, !.issues = codes,
                    !.truncated = truncated, !.unreadable = unreadable,
                    !.scanned = reading.scanned + Looked,
                    !.phase = IF found THEN "assembling" ELSE "header",
                    !.status = IF found THEN reading.status ELSE "unreadable"]
  BY DEF Listed
<1>5. gone \in SUBSET Nat /\ codes \in SUBSET Codes /\ reading.scanned + Looked \in Nat
  <2>1. reading.gone \in SUBSET Nat /\ reading.issues \in SUBSET Codes
    BY <1>3 DEF Reading
  <2>2. "boundary_not_found" \in Codes
    BY DEF Codes
  <2>3. codes \in SUBSET Codes
    <3> HIDE DEF found
    <3> QED
      BY <2>1, <2>2
  <2>4. gone \in SUBSET Nat
    BY <1>3, <2>1
  <2> QED
    BY <1>3, <2>3, <2>4
<1> HIDE DEF gone, codes
<1>6. reading' \in Reading
  <2>1. (IF found THEN "assembling" ELSE "header") \in Phases
        /\ (IF found THEN reading.status ELSE "unreadable") \in {"none", "found", "missing", "unreadable"}
    BY <1>2 DEF Phases
  <2> DEFINE phase == IF found THEN "assembling" ELSE "header"
             status == IF found THEN reading.status ELSE "unreadable"
             scanned == reading.scanned + Looked
  <2>2. reading' = [reading EXCEPT
                    !.candidates = cands, !.gone = gone, !.issues = codes,
                    !.truncated = truncated, !.unreadable = unreadable,
                    !.scanned = scanned, !.phase = phase, !.status = status]
    BY <1>4
  <2>3. scanned \in Nat /\ phase \in Phases /\ status \in {"none", "found", "missing", "unreadable"}
    BY <1>5, <2>1
  <2> HIDE DEF found, phase, status, scanned
  <2> QED
    BY ZenonT(60), <1>3, <1>5, <2>2, <2>3 DEF Reading
<1>7. /\ reading'.phase = IF found THEN "assembling" ELSE "header"
      /\ reading'.status = IF found THEN "none" ELSE "unreadable"
      /\ reading'.candidates = cands /\ reading'.gone = gone /\ reading'.issues = codes
      /\ reading'.atStart = reading.atStart /\ reading'.thread
      /\ reading'.scanned = reading.scanned + Looked
      /\ reading'.text = 0 /\ reading'.images = 0 /\ reading'.videos = 0
  <2> HIDE DEF found
  <2> QED
    BY <1>2, <1>3, <1>4 DEF Reading
<1>8. Types' /\ LateLast'
  BY <1>1, <1>6 DEF Types, LateLast
<1>9. EndWithTrigger' /\ ListingFits'
  BY <1>7, <1>3 DEF EndWithTrigger, ListingFits
<1>10. GoneFits'
  <2>1. gone \subseteq recalled /\ reading.atStart \subseteq recalled
    BY <1>1 DEF GoneFits, gone
  <2>2. ToSet(reading.candidates) \cap reading.atStart \subseteq reading.gone
    BY <1>1 DEF GoneFits
  <2>3. ToSet(cands) \cap reading.atStart \subseteq gone
    BY <2>1, <2>2 DEF gone
  <2> QED
    BY <1>7, <2>1, <2>3 DEF GoneFits
<1>11. RowsFit' /\ LimitsKept'
  <2>1. RowsFit'
    BY <1>2, <1>3, <1>7, Numbers DEF RowsFit
  <2>2. LimitsKept'
    BY <1>2, <1>7, NoFiles, Numbers DEF LimitsKept
  <2> QED
    BY <2>1, <2>2
<1>12. WholeOrTold'
  <2>1. CASE found
    <3>1. reading'.issues # {} \/ reading'.scanned = MaxBoundaryScan \/ Len(cands) = trigger
      BY <1>7, <2>1 DEF codes
    <3>2. First' = 1 /\ 1..(trigger - trigger) = {}
      BY <1>3, <1>7 DEF First
    <3> QED
      BY <1>7, <2>1, <3>1, <3>2 DEF WholeOrTold, Told
  <2>2. CASE ~found
    BY <1>7, <2>2 DEF WholeOrTold
  <2> QED
    BY <2>1, <2>2
<1>13. StreamFits'
  BY <1>1, <1>2, <1>7, StreamStays
<1> QED
  BY <1>8, <1>9, <1>10, <1>11, <1>12, <1>13 DEF ContextInv

LEMMA ListFailsFits == ContextInv /\ ListFails => ContextInv'
<1> SUFFICES ASSUME ContextInv, ListFails PROVE ContextInv'
  OBVIOUS
<1>1. Listing /\ reading.phase = "listing" /\ UNCHANGED <<topic, recalled, trigger, carried, frames>>
  BY DEF ListFails, ContextInv, Listing
<1>2. {"history_unreadable"} \in SUBSET Codes
  BY DEF Codes
<1>3. CASE Listed(reading.candidates, {"history_unreadable"}, FALSE, TRUE)
  <2>1. /\ reading.candidates \in Seq(Nat) /\ Len(reading.candidates) \in 0..trigger
        /\ \A k \in DOMAIN reading.candidates :
              reading.candidates[k] = trigger - Len(reading.candidates) + k
    BY <1>1, CandidatesAre DEF Listing, Types, Reading, EndWithTrigger
  <2>2. Len(reading.candidates) <= MaxMessages + 1
    BY <1>1, <2>1, Numbers DEF Listing, ListingFits
  <2> QED
    BY <1>1, <1>2, <1>3, <2>1, <2>2, ListedFits
<1>4. CASE Listed(Collected, {"history_unreadable"}, FALSE, TRUE)
  BY <1>1, <1>2, <1>4, PageFits, ListedFits
<1> QED
  BY <1>3, <1>4 DEF ListFails

LEMMA ListPageFits == ContextInv /\ ListPage => ContextInv'
<1> SUFFICES ASSUME ContextInv, ListPage PROVE ContextInv'
  OBVIOUS
<1>1. Listing /\ reading.phase = "listing" /\ UNCHANGED <<topic, recalled, trigger, carried, frames>>
  BY DEF ListPage, ContextInv, Listing
<1>2. {"message_limit"} \in SUBSET Codes /\ {"boundary_scan_limit"} \in SUBSET Codes
      /\ {} \in SUBSET Codes
  BY DEF Codes
<1>3. CASE LimitReached
  <2>1. Listed(Collected, {"message_limit"}, TRUE, FALSE)
    BY <1>3 DEF ListPage
  <2> QED
    BY <1>1, <1>2, <2>1, PageFits, ListedFits
<1>4. CASE ~LimitReached /\ ~HasMore
  <2>1. Listed(Collected, {}, FALSE, FALSE)
    BY <1>4 DEF ListPage
  <2> QED
    BY <1>1, <1>2, <1>4, <2>1, PageFits, ListedFits
<1>5. CASE ~LimitReached /\ HasMore /\ reading.scanned + Looked >= MaxBoundaryScan
  <2>1. Listed(Collected, {"boundary_scan_limit"}, TRUE, TRUE)
    BY <1>5 DEF ListPage
  <2> QED
    BY <1>1, <1>2, <2>1, PageFits, ListedFits
<1>6. CASE ~LimitReached /\ HasMore /\ ~(reading.scanned + Looked >= MaxBoundaryScan)
  <2> DEFINE gone == reading.gone \cup (recalled \ ToSet(reading.candidates))
  <2>1. reading' = [reading EXCEPT !.candidates = Collected, !.gone = gone,
                                   !.scanned = reading.scanned + Looked,
                                   !.next = PageStart - Looked]
    BY <1>6 DEF ListPage
  <2>2. /\ Types /\ LateLast /\ EndWithTrigger /\ ListingFits /\ GoneFits /\ RowsFit
        /\ LimitsKept /\ WholeOrTold /\ StreamFits
    BY DEF ContextInv
  <2>3. /\ Collected \in Seq(Nat) /\ Len(Collected) \in 0..trigger
        /\ Len(Collected) <= MaxMessages
        /\ \A k \in DOMAIN Collected : Collected[k] = trigger - Len(Collected) + k
        /\ PageStart - Looked \in 1..Len(topic) /\ Len(topic) \in Nat
        /\ IF Collected = <<>> THEN trigger <= PageStart - Looked
           ELSE Len(Collected) = trigger - (PageStart - Looked)
    BY <1>1, <1>6, <2>2, PageFits DEF Types
  <2>4. /\ reading.scanned \in Nat /\ Looked \in Nat \ {0} /\ reading \in Reading
        /\ trigger \in Nat /\ recalled \in SUBSET Nat
    <3>1. reading \in Reading /\ trigger \in DOMAIN topic /\ topic \in Seq(TopicMessages)
          /\ recalled \subseteq DOMAIN topic
      BY <2>2 DEF Types
    <3>2. reading.scanned \in Nat /\ DOMAIN topic \subseteq Nat
      BY <3>1 DEF Reading
    <3>3. Looked \in Nat \ {0}
      BY <1>1, LookedIs
    <3> QED
      BY <3>1, <3>2, <3>3
  <2>5. /\ gone \in SUBSET Nat /\ gone \subseteq recalled
        /\ ToSet(Collected) \cap reading.atStart \subseteq gone
    <3>1. /\ reading.gone \subseteq recalled /\ reading.atStart \subseteq recalled
          /\ ToSet(reading.candidates) \cap reading.atStart \subseteq reading.gone
      BY <1>1, <2>2 DEF GoneFits
    <3> QED
      BY <2>4, <3>1
  <2> HIDE DEF gone
  <2>6. PageStart - Looked \in Nat /\ reading.scanned + Looked \in Nat
        /\ reading.scanned + Looked < MaxBoundaryScan /\ reading.scanned + Looked > 0
    BY <1>6, <2>3, <2>4, Numbers
  <2>7. reading' \in Reading
    BY <2>1, <2>3, <2>4, <2>5, <2>6 DEF Reading
  <2>8. /\ reading'.candidates = Collected /\ reading'.gone = gone
        /\ reading'.scanned = reading.scanned + Looked /\ reading'.next = PageStart - Looked
        /\ \A f \in {"phase", "thread", "video", "known", "atStart", "issues", "truncated",
                     "unreadable", "status", "text", "images", "videos"} : reading'[f] = reading[f]
    BY <2>1, <2>4 DEF Reading
  <2>9. /\ reading'.phase = reading.phase /\ reading'.thread = reading.thread
        /\ reading'.video = reading.video
        /\ reading'.atStart = reading.atStart /\ reading'.issues = reading.issues
        /\ reading'.truncated = reading.truncated /\ reading'.status = reading.status
        /\ reading'.text = reading.text /\ reading'.images = reading.images
        /\ reading'.videos = reading.videos
    BY <2>8
  <2>10. Types' /\ LateLast'
    BY <1>1, <2>2, <2>7 DEF Types, LateLast
  <2>11. EndWithTrigger'
    BY <1>1, <2>3, <2>4, <2>8 DEF EndWithTrigger
  <2>12. ListingFits'
    <3>1. DOMAIN topic = 1..Len(topic)
      BY <2>2 DEF Types
    <3> QED
      BY <1>1, <2>2, <2>3, <2>6, <2>8, <2>9, <3>1 DEF ListingFits
  <2>13. GoneFits'
    BY <1>1, <2>2, <2>5, <2>8, <2>9 DEF GoneFits
  <2>14. RowsFit' /\ LimitsKept' /\ WholeOrTold'
    <3>1. reading.status = "none"
      BY <1>1, <2>2 DEF ListingFits
    <3> QED
      BY <1>1, <2>2, <2>9, <3>1 DEF RowsFit, LimitsKept, WholeOrTold
  <2>15. StreamFits'
    BY <1>1, <2>2, <2>9, StreamStays DEF StreamFits
  <2> QED
    BY <2>10, <2>11, <2>12, <2>13, <2>14, <2>15 DEF ContextInv
<1> QED
  BY <1>3, <1>4, <1>5, <1>6

(* The parts of a message, and what is kept of them.                       *)
LEMMA PartsAre ==
    ASSUME NEW m \in TopicMessages, NEW isTrigger
    PROVE  /\ TextOf(m, isTrigger) \in Nat
           /\ ImagesOf(m) \in Seq(ImageFiles) /\ VideosOf(m) \in Seq(VideoFiles)
           /\ ParseIssues(m) \in SUBSET Codes
           /\ ~reading.video => VideosOf(m) = <<>>
<1>1. m.text \in Nat /\ m.images \in Seq(ImageFiles) /\ m.videos \in Seq(VideoFiles)
  BY DEF TopicMessages
<1>2. PlaceholderBytes \in Nat /\ Len(m.videos) \in Nat
  BY <1>1, Numbers
<1>3. PlaceholderBytes * Len(m.videos) \in Nat
  <2>1. \A a, b \in Nat : a * b \in Nat
    OBVIOUS
  <2> QED
    BY <1>2, <2>1
<1>4. TextOf(m, isTrigger) \in Nat
  BY <1>1, <1>2, <1>3 DEF TextOf
<1>5. ImagesOf(m) \in Seq(ImageFiles) /\ VideosOf(m) \in Seq(VideoFiles)
  BY <1>1 DEF ImagesOf, VideosOf
<1>6. ParseIssues(m) \in SUBSET Codes
  BY DEF ParseIssues, Codes
<1> QED
  BY <1>4, <1>5, <1>6 DEF VideosOf

LEMMA FetchedNone ==
    ASSUME NEW kind, NEW got, NEW tried, NEW before
    PROVE  Fetched(kind, <<>>, got, tried, before).kept = <<>>
<1>1. DOMAIN <<>> = 1..0 /\ 0 \in Nat
  OBVIOUS
<1> DEFINE none == <<>>
<1>2. DOMAIN none = 1..0
  BY <1>1
<1>3. Fetched(kind, none, got, tried, before) = NoneYet(tried)
  <2> HIDE DEF none
  <2>1. PICK up : up[0] = NoneYet(tried) /\ Fetched(kind, none, got, tried, before) = up[0]
    BY <1>1, <1>2, FetchedUpTo
  <2> QED
    BY <2>1
<1> QED
  BY <1>3 DEF NoneYet

(* A message that was in full stays so.                                    *)
LEMMA InFullStays ==
    ASSUME UNCHANGED <<topic, trigger>>, reading'.video = reading.video,
           ToSet(carried) \subseteq ToSet(carried'), NEW i, InFull(i)
    PROVE  InFull(i)'
<1>1. /\ TextOf(topic[i], i = trigger)' = TextOf(topic[i], i = trigger)
      /\ ImagesOf(topic[i])' = ImagesOf(topic[i]) /\ VideosOf(topic[i])' = VideosOf(topic[i])
  BY DEF TextOf, ImagesOf, VideosOf
<1> QED
  BY <1>1 DEF InFull

(* The candidates are there, and the oldest of them is next.               *)
LEMMA NextCandidate ==
    ASSUME Types, EndWithTrigger, reading.candidates # <<>>
    PROVE  LET n == Len(reading.candidates)
               i == Head(reading.candidates)
               rest == Tail(reading.candidates)
           IN  /\ n \in 1..trigger /\ trigger \in Nat /\ i = trigger - n + 1 /\ i \in Nat
               /\ i \in 1..Len(topic) /\ topic[i] \in TopicMessages
               /\ i \in ToSet(reading.candidates)
               /\ rest \in Seq(Nat) /\ Len(rest) = n - 1 /\ DOMAIN rest = 1..(n - 1)
               /\ \A k \in 1..(n - 1) : rest[k] = trigger - (n - 1) + k
               /\ ToSet(rest) \subseteq ToSet(reading.candidates)
<1> DEFINE n == Len(reading.candidates)
           rest == Tail(reading.candidates)
<1>1. /\ reading.candidates \in Seq(Nat) /\ n \in Nat \ {0} /\ n <= trigger
      /\ DOMAIN reading.candidates = 1..n
      /\ trigger \in 1..Len(topic) /\ Len(topic) \in Nat /\ topic \in Seq(TopicMessages)
      /\ \A k \in 1..n : reading.candidates[k] = trigger - n + k
  BY SMTT(30) DEF Types, Reading, EndWithTrigger
<1>2. rest \in Seq(Nat) /\ Len(rest) = n - 1 /\ DOMAIN rest = 1..(n - 1)
  BY <1>1
<1>3. \A k \in 1..(n - 1) : rest[k] = reading.candidates[k + 1] /\ k + 1 \in 1..n
  BY <1>1
<1>4. Head(reading.candidates) = reading.candidates[1] /\ 1 \in 1..n
  BY <1>1
<1> HIDE DEF n, rest
<1>5. \A k \in 1..(n - 1) : rest[k] = trigger - (n - 1) + k
  <2>1. ASSUME NEW k \in 1..(n - 1) PROVE rest[k] = trigger - (n - 1) + k
    <3>1. rest[k] = trigger - n + (k + 1)
      BY <1>1, <1>3
    <3>2. trigger - n + (k + 1) = trigger - (n - 1) + k
      BY <1>1
    <3> QED
      BY <3>1, <3>2
  <2> QED
    BY <2>1
<1>6. ToSet(rest) \subseteq ToSet(reading.candidates)
  <2>1. ASSUME NEW x \in ToSet(rest) PROVE x \in ToSet(reading.candidates)
    <3>1. PICK k \in 1..(n - 1) : rest[k] = x
      BY <1>2, <2>1 DEF ToSet
    <3>2. reading.candidates[k + 1] = x /\ k + 1 \in 1..n
      BY <1>3, <3>1
    <3> QED
      BY <1>1, <3>2 DEF ToSet
  <2> QED
    BY <2>1
<1>7. Head(reading.candidates) = trigger - n + 1 /\ trigger - n + 1 \in 1..Len(topic)
  BY <1>1, <1>4
<1>8. Head(reading.candidates) \in ToSet(reading.candidates)
  BY <1>1, <1>4 DEF ToSet
<1> DEFINE i == Head(reading.candidates)
<1>9. i \in 1..Len(topic) /\ i = trigger - n + 1
  BY <1>7
<1> HIDE DEF i
<1>10. i \in Nat /\ topic[i] \in TopicMessages
  BY <1>1, <1>9
<1>11. n \in 1..trigger /\ trigger \in Nat
  BY <1>1
<1> QED
  BY <1>2, <1>5, <1>6, <1>8, <1>9, <1>10, <1>11 DEF n, rest, i

(* A candidate is done with: at most one row more, and nothing left out    *)
(* that is not told.                                                       *)
LEMMA CandidateDone ==
    ASSUME ContextInv, reading.phase = "assembling", reading.candidates # <<>>,
           NEW i, i = Head(reading.candidates),
           UNCHANGED <<topic, recalled, trigger, frames>>,
           reading' \in Reading, reading'.candidates = Tail(reading.candidates),
           reading'.phase = "assembling", reading'.thread = reading.thread,
           reading'.video = reading.video, reading'.gone = reading.gone,
           reading'.atStart = reading.atStart, reading'.scanned = reading.scanned,
           reading'.status = reading.status,
           reading.issues \subseteq reading'.issues, reading.truncated => reading'.truncated,
           \/ carried' = carried
           \/ \E row \in Rows :
                 /\ carried' = Append(carried, row) /\ row.at = i
                 /\ row.at \in reading.atStart => row.at = trigger
                 /\ row.videos # <<>> => reading.video,
           LimitsKept',
           Told' \/ i \in recalled \/ InFull(i)'
    PROVE  ContextInv'
<1> DEFINE n == Len(reading.candidates)
           rest == Tail(reading.candidates)
<1>1. /\ Types /\ LateLast /\ EndWithTrigger /\ ListingFits /\ GoneFits /\ RowsFit
      /\ LimitsKept /\ WholeOrTold /\ StreamFits
  BY DEF ContextInv
<1>2. /\ n \in 1..trigger /\ trigger \in Nat /\ i = trigger - n + 1 /\ i \in Nat
      /\ rest \in Seq(Nat) /\ Len(rest) = n - 1 /\ DOMAIN rest = 1..(n - 1)
      /\ \A k \in 1..(n - 1) : rest[k] = trigger - (n - 1) + k
      /\ ToSet(rest) \subseteq ToSet(reading.candidates)
  BY <1>1, NextCandidate
<1>3. /\ carried \in Seq(Rows) /\ Len(carried) \in Nat /\ frames = <<>>
      /\ Len(carried) + n <= MaxMessages + 1
      /\ \A k \in DOMAIN carried :
            /\ carried[k].at <= trigger - n
            /\ carried[k].at \in reading.atStart => carried[k].at = trigger
            /\ carried[k].videos # <<>> => reading.video
      /\ \A k, l \in DOMAIN carried : k < l => carried[k].at < carried[l].at
  BY <1>1 DEF Types, RowsFit, StreamFits
<1>4. \A k \in DOMAIN carried : carried[k].at \in Nat
  <2>1. \A k \in DOMAIN carried : carried[k] \in Rows
    BY <1>3
  <2> QED
    BY <2>1 DEF Rows
<1>5. reading'.candidates = rest
  OBVIOUS
<1> HIDE DEF n, rest
<1>6. EndWithTrigger'
  <2>1. n - 1 <= trigger
    BY <1>2
  <2> QED
    BY <1>2, <1>5, <2>1 DEF EndWithTrigger
<1>7. CASE carried' = carried
  <2>1. Types' /\ LateLast'
    BY <1>1, <1>7 DEF Types, LateLast
  <2>2. ListingFits' /\ GoneFits'
    BY <1>1, <1>2, <1>5 DEF ListingFits, GoneFits
  <2>3. RowsFit'
    <3>1. \A k \in DOMAIN carried : carried[k].at <= trigger /\ carried[k].at <= trigger - (n - 1)
      BY <1>2, <1>3, <1>4
    <3>2. Len(carried) + (n - 1) <= MaxMessages + 1
      BY <1>2, <1>3, Numbers
    <3> QED
      BY <1>2, <1>3, <1>5, <1>7, <3>1, <3>2 DEF RowsFit
  <2>4. StreamFits'
    BY <1>1, <1>3, <1>7, StreamStays
  <2>5. WholeOrTold'
    <3>1. reading'.status = "none" /\ (Told \/ \A j \in First..(trigger - n) : j \notin recalled => InFull(j))
      BY <1>1 DEF WholeOrTold, n
    <3>2. Told => Told'
      BY DEF Told
    <3>3. First' = First /\ trigger - (n - 1) = i
      BY <1>2 DEF First
    <3>4. ASSUME ~Told', NEW j \in First..i, j \notin recalled PROVE InFull(j)'
      <4>1. CASE j = i
        BY <3>4, <4>1
      <4>2. CASE j # i
        <5>1. j \in First..(trigger - n)
          <6>1. First \in Nat
            BY <1>2 DEF First
          <6> QED
            BY <1>2, <3>4, <4>2, <6>1
        <5> QED
          BY <1>7, <3>1, <3>2, <3>4, <5>1, InFullStays
      <4> QED
        BY <4>1, <4>2
    <3> QED
      BY <1>2, <1>5, <3>1, <3>3, <3>4 DEF WholeOrTold
  <2> QED
    BY <1>6, <2>1, <2>2, <2>3, <2>4, <2>5 DEF ContextInv
<1>8. CASE \E row \in Rows :
                 /\ carried' = Append(carried, row) /\ row.at = i
                 /\ row.at \in reading.atStart => row.at = trigger
                 /\ row.videos # <<>> => reading.video
  <2>0. PICK row \in Rows : /\ carried' = Append(carried, row) /\ row.at = i
                            /\ row.at \in reading.atStart => row.at = trigger
                            /\ row.videos # <<>> => reading.video
    BY <1>8
  <2> DEFINE c == Len(carried)
  <2>6. /\ carried' \in Seq(Rows) /\ Len(carried') = c + 1 /\ c \in Nat
        /\ DOMAIN carried' = 1..(c + 1) /\ DOMAIN carried = 1..c
        /\ \A k \in 1..c : carried'[k] = carried[k]
        /\ carried'[c + 1] = row
    BY <1>3, <2>0
  <2> HIDE DEF c
  <2>1. Types' /\ LateLast'
    BY <1>1, <2>6 DEF Types, LateLast
  <2>2. ListingFits' /\ GoneFits'
    BY <1>1, <1>2, <1>5 DEF ListingFits, GoneFits
  <2>3. RowsFit'
    <3>1. ASSUME NEW k \in DOMAIN carried'
          PROVE  /\ carried'[k].at <= trigger /\ carried'[k].at <= trigger - (n - 1)
                 /\ carried'[k].at \in reading.atStart => carried'[k].at = trigger
                 /\ carried'[k].videos # <<>> => reading.video
      <4>1. CASE k \in 1..c
        BY SMTT(30), <1>2, <1>3, <1>4, <2>6, <4>1
      <4>2. CASE k = c + 1
        <5>1. trigger - n + 1 <= trigger /\ trigger - n + 1 <= trigger - (n - 1)
          BY <1>2
        <5> QED
          BY <1>2, <2>0, <2>6, <4>2, <5>1
      <4> QED
        BY <2>6, <4>1, <4>2
    <3>2. ASSUME NEW k \in DOMAIN carried', NEW l \in DOMAIN carried', k < l
          PROVE  carried'[k].at < carried'[l].at
      <4>1. k \in 1..c
        BY <2>6, <3>2
      <4>2. CASE l \in 1..c
        BY <1>3, <2>6, <3>2, <4>1, <4>2
      <4>3. CASE l = c + 1
        BY SMTT(30), <1>2, <1>3, <1>4, <2>0, <2>6, <4>1, <4>3
      <4> QED
        BY <2>6, <4>2, <4>3
    <3>3. Len(carried') + (n - 1) <= MaxMessages + 1
      BY <1>2, <1>3, <2>6, Numbers DEF c
    <3> QED
      BY <1>2, <1>5, <3>1, <3>2, <3>3 DEF RowsFit
  <2>4. StreamFits'
    BY <1>3 DEF StreamFits
  <2>5. WholeOrTold'
    <3>1. reading'.status = "none" /\ (Told \/ \A j \in First..(trigger - n) : j \notin recalled => InFull(j))
      BY <1>1 DEF WholeOrTold, n
    <3>2. Told => Told'
      BY DEF Told
    <3>3. First' = First /\ trigger - (n - 1) = i
      BY <1>2 DEF First
    <3>5. ToSet(carried) \subseteq ToSet(carried')
      BY <2>6 DEF ToSet
    <3>4. ASSUME ~Told', NEW j \in First..i, j \notin recalled PROVE InFull(j)'
      <4>1. CASE j = i
        BY <3>4, <4>1
      <4>2. CASE j # i
        <5>1. j \in First..(trigger - n)
          <6>1. First \in Nat
            BY <1>2 DEF First
          <6> QED
            BY <1>2, <3>4, <4>2, <6>1
        <5> QED
          BY <3>1, <3>2, <3>4, <3>5, <5>1, InFullStays
      <4> QED
        BY <4>1, <4>2
    <3> QED
      BY <1>2, <1>5, <3>1, <3>3, <3>4 DEF WholeOrTold
  <2> QED
    BY <1>6, <2>1, <2>2, <2>3, <2>4, <2>5 DEF ContextInv
<1> QED
  BY <1>7, <1>8

AssembledBy(i, m, got, seen) ==
    LET text   == TextOf(m, i = trigger)
        kept   == TextKept(text)
        images == Fetched("image", ImagesOf(m), got, reading.images, Images(carried))
        videos == Fetched("video", VideosOf(m), seen, reading.videos, Videos(carried))
        issues == ParseIssues(m) \cup images.issues \cup videos.issues
                  \cup (IF kept < text THEN {"text_limit"} ELSE {})
        shown  == IF kept = 0 /\ videos.issues # {} THEN PlaceholderBytes ELSE kept
    IN  /\ reading' =
             [reading EXCEPT
                 !.candidates = Tail(@), !.issues = @ \cup issues,
                 !.truncated = @ \/ issues \cap Limits # {},
                 !.unreadable = @ \/ m.garbled \/ "image_unreadable" \in issues,
                 !.text = @ + kept, !.images = images.tried, !.videos = videos.tried]
        /\ carried' =
             IF shown = 0 /\ images.kept = <<>> /\ videos.kept = <<>> THEN carried
             ELSE Append(carried, [at |-> i, text |-> shown,
                                   images |-> images.kept, videos |-> videos.kept])

LEMMA AssembleFits == ContextInv /\ Assemble => ContextInv'
<1> SUFFICES ASSUME ContextInv, Assemble PROVE ContextInv'
  OBVIOUS
<1>1. /\ Types /\ EndWithTrigger /\ GoneFits /\ LimitsKept
  BY DEF ContextInv
<1>2. /\ reading.phase = "assembling" /\ reading.candidates # <<>>
      /\ UNCHANGED <<topic, recalled, trigger, frames>>
  BY DEF Assemble
<1> DEFINE rest == Tail(reading.candidates)
<1>3. PICK i : i = Head(reading.candidates)
  OBVIOUS
<1>4. /\ i \in Nat /\ i \in 1..Len(topic) /\ topic[i] \in TopicMessages
      /\ i \in ToSet(reading.candidates) /\ rest \in Seq(Nat)
  BY <1>1, <1>2, <1>3, NextCandidate
<1>5. PICK m \in TopicMessages : m = topic[i]
  BY <1>4
<1>6. /\ reading \in Reading /\ carried \in Seq(Rows) /\ reading.text \in Nat
      /\ reading.images \in Nat /\ reading.videos \in Nat /\ reading.issues \in SUBSET Codes
      /\ reading.truncated \in BOOLEAN /\ reading.unreadable \in BOOLEAN
  BY <1>1 DEF Types, Reading
<1>7. CASE i \in reading.gone /\ i # trigger
  <2>1. reading' = [reading EXCEPT !.candidates = rest] /\ carried' = carried
    BY <1>3, <1>7 DEF Assemble
  <2>2. reading' \in Reading
    BY <1>4, <1>6, <2>1 DEF Reading
  <2>3. /\ reading'.candidates = rest /\ reading'.phase = "assembling"
        /\ reading'.thread = reading.thread /\ reading'.video = reading.video
        /\ reading'.gone = reading.gone /\ reading'.atStart = reading.atStart
        /\ reading'.scanned = reading.scanned /\ reading'.status = reading.status
        /\ reading'.issues = reading.issues /\ reading'.truncated = reading.truncated
        /\ reading'.text = reading.text /\ reading'.images = reading.images
        /\ reading'.videos = reading.videos
    BY <1>2, <1>6, <2>1 DEF Reading
  <2>4. LimitsKept'
    BY <1>1, <2>1, <2>3 DEF LimitsKept
  <2>5. i \in recalled
    BY <1>1, <1>7 DEF GoneFits
  <2> QED
    BY <1>2, <1>3, <2>1, <2>2, <2>3, <2>4, <2>5, CandidateDone
<1>8. CASE ~(i \in reading.gone /\ i # trigger)
  <2> DEFINE text == TextOf(m, i = trigger)
             kept == TextKept(text)
  <2>1. PICK got \in [DOMAIN ImagesOf(m) -> BOOLEAN], seen \in [DOMAIN VideosOf(m) -> BOOLEAN] :
          AssembledBy(i, m, got, seen)
    <3>1. \E got \in [DOMAIN ImagesOf(topic[Head(reading.candidates)]) -> BOOLEAN],
             seen \in [DOMAIN VideosOf(topic[Head(reading.candidates)]) -> BOOLEAN] :
                AssembledBy(Head(reading.candidates), topic[Head(reading.candidates)], got, seen)
      BY <1>3, <1>8, Zenon DEF Assemble, AssembledBy
    <3> QED
      BY <1>3, <1>5, <3>1
  <2> DEFINE images == Fetched("image", ImagesOf(m), got, reading.images, Images(carried))
             videos == Fetched("video", VideosOf(m), seen, reading.videos, Videos(carried))
             issues == ParseIssues(m) \cup images.issues \cup videos.issues
                        \cup (IF kept < text THEN {"text_limit"} ELSE {})
             shown  == IF kept = 0 /\ videos.issues # {} THEN PlaceholderBytes ELSE kept
             row    == [at |-> i, text |-> shown, images |-> images.kept, videos |-> videos.kept]
             truncated  == reading.truncated \/ issues \cap Limits # {}
             unreadable == reading.unreadable \/ m.garbled \/ "image_unreadable" \in issues
  <2>2. /\ reading' = [reading EXCEPT
                       !.candidates = rest, !.issues = reading.issues \cup issues,
                       !.truncated = truncated, !.unreadable = unreadable,
                       !.text = reading.text + kept, !.images = images.tried,
                       !.videos = videos.tried]
        /\ carried' = IF shown = 0 /\ images.kept = <<>> /\ videos.kept = <<>> THEN carried
                      ELSE Append(carried, row)
    BY <2>1 DEF AssembledBy
  <2>3. /\ text \in Nat /\ ImagesOf(m) \in Seq(ImageFiles) /\ VideosOf(m) \in Seq(VideoFiles)
        /\ ParseIssues(m) \in SUBSET Codes /\ (~reading.video => VideosOf(m) = <<>>)
    BY PartsAre
  <2>4. /\ kept \in Nat /\ reading.text + kept <= MaxTextBytes
        /\ kept <= text /\ (~(kept < text) => kept = text)
    <3>1. reading.text <= MaxTextBytes /\ MaxTextBytes \in Nat
      BY <1>1, Numbers DEF LimitsKept
    <3> DEFINE left == MaxTextBytes - reading.text
    <3>2. left \in Nat /\ reading.text + left = MaxTextBytes
      BY <1>6, <3>1
    <3>3. kept = IF text < left THEN text ELSE left
      BY DEF TextKept, Smaller
    <3> HIDE DEF text, kept, left
    <3>4. text \in Nat
      BY <2>3
    <3> QED
      BY <1>6, <3>1, <3>2, <3>3, <3>4
  <2>5. /\ Images(carried) \in Seq(KeptImages) /\ Videos(carried) \in Seq(KeptVideos)
    <3>1. [at |-> 0, text |-> 0, images |-> <<>>, videos |-> <<>>] \in Rows
      BY DEF Rows
    <3> QED
      BY <1>6, <3>1, FilesOfRows
  <2>6. FetchFits("image", ImagesOf(m), reading.images, Images(carried), images)
    <3>1. /\ ImagesOf(m) \in Seq(FilesOf("image")) /\ Images(carried) \in Seq(KeptOf("image"))
          /\ reading.images <= MaxTried("image") /\ Bytes(Images(carried)) <= MaxTotal("image")
      BY <1>1, <2>3, <2>5 DEF FilesOf, KeptOf, MaxTried, MaxTotal, LimitsKept
    <3> QED
      BY <1>6, <3>1, FetchedFits
  <2>7. FetchFits("video", VideosOf(m), reading.videos, Videos(carried), videos)
    <3>1. /\ VideosOf(m) \in Seq(FilesOf("video")) /\ Videos(carried) \in Seq(KeptOf("video"))
          /\ reading.videos <= MaxTried("video") /\ Bytes(Videos(carried)) <= MaxTotal("video")
      BY <1>1, <2>3, <2>5 DEF FilesOf, KeptOf, MaxTried, MaxTotal, LimitsKept
    <3> QED
      BY <1>6, <3>1, FetchedFits
  <2>8. ~reading.video => videos.kept = <<>>
    BY <2>3, FetchedNone
  <2> HIDE DEF images, videos, text, kept
  <2>9. /\ images.kept \in Seq(KeptImages) /\ images.tried \in Nat /\ images.issues \in SUBSET Codes
        /\ images.tried <= MaxImages /\ reading.images + Len(images.kept) <= images.tried
        /\ Bytes(Images(carried)) + Bytes(images.kept) <= MaxTotalImageBytes
        /\ images.issues = {} => images.kept = ImagesOf(m)
    BY <2>6 DEF FetchFits, KeptOf, MaxTried, MaxTotal
  <2>10. /\ videos.kept \in Seq(KeptVideos) /\ videos.tried \in Nat /\ videos.issues \in SUBSET Codes
         /\ videos.tried <= MaxVideos /\ reading.videos + Len(videos.kept) <= videos.tried
         /\ Bytes(Videos(carried)) + Bytes(videos.kept) <= MaxTotalVideoBytes
         /\ videos.issues = {} => videos.kept = VideosOf(m)
    BY <2>7 DEF FetchFits, KeptOf, MaxTried, MaxTotal
  <2>11. issues \in SUBSET Codes /\ shown \in Nat
    <3>1. "text_limit" \in Codes /\ PlaceholderBytes \in Nat
      BY Numbers DEF Codes
    <3> QED
      BY <2>3, <2>4, <2>9, <2>10, <3>1
  <2>12. issues = {} => /\ images.kept = ImagesOf(m) /\ videos.kept = VideosOf(m)
                        /\ shown = text
    BY <2>4, <2>9, <2>10
  <2>13. row \in Rows
    BY <1>4, <2>9, <2>10, <2>11 DEF Rows
  <2> DEFINE empty == shown = 0 /\ images.kept = <<>> /\ videos.kept = <<>>
  <2>14. carried' = IF empty THEN carried ELSE Append(carried, row)
    BY <2>2
  <2>15. row.at = i /\ row.text = shown /\ row.images = images.kept /\ row.videos = videos.kept
    OBVIOUS
  <2>16. truncated \in BOOLEAN /\ unreadable \in BOOLEAN /\ (reading.truncated => truncated)
    OBVIOUS
  <2> HIDE DEF issues, shown, row, empty, truncated, unreadable
  <2>17. reading' \in Reading
    <3> DEFINE all   == reading.issues \cup issues
               bytes == reading.text + kept
    <3>1. reading' = [reading EXCEPT
                       !.candidates = rest, !.issues = all,
                       !.truncated = truncated, !.unreadable = unreadable,
                       !.text = bytes, !.images = images.tried,
                       !.videos = videos.tried]
      BY <2>2
    <3>2. all \in SUBSET Codes /\ bytes \in Nat /\ rest \in Seq(Nat)
      BY SMTT(30), <1>4, <1>6, <2>4, <2>11
    <3>3. images.tried \in Nat /\ videos.tried \in Nat /\ reading \in Reading
      BY <1>6, <2>9, <2>10
    <3> HIDE DEF all, bytes, rest
    <3> QED
      BY ZenonT(60), <2>16, <3>1, <3>2, <3>3 DEF Reading
  <2>18. /\ reading'.candidates = rest /\ reading'.phase = "assembling"
         /\ reading'.thread = reading.thread /\ reading'.video = reading.video
         /\ reading'.gone = reading.gone /\ reading'.atStart = reading.atStart
         /\ reading'.scanned = reading.scanned /\ reading'.status = reading.status
         /\ reading'.issues = reading.issues \cup issues /\ reading'.truncated = truncated
         /\ reading'.text = reading.text + kept /\ reading'.images = images.tried
         /\ reading'.videos = videos.tried
    BY <1>2, <1>6, <2>2 DEF Reading
  <2>19. LimitsKept'
    <3>1. CASE empty
      <4>1. reading.images <= images.tried /\ reading.videos <= videos.tried
        BY <1>6, <2>9, <2>10
      <4>2. Len(Images(carried)) \in Nat /\ Len(Videos(carried)) \in Nat
        BY <2>5
      <4>3. Len(Images(carried)) <= images.tried /\ Len(Videos(carried)) <= videos.tried
        <5>1. Len(Images(carried)) <= reading.images /\ Len(Videos(carried)) <= reading.videos
          BY <1>1 DEF LimitsKept
        <5>2. images.tried \in Nat /\ videos.tried \in Nat
          BY <2>9, <2>10
        <5> QED
          BY <1>6, <4>1, <4>2, <5>1, <5>2
      <4>4. images.tried <= MaxImages /\ videos.tried <= MaxVideos
        BY <2>9, <2>10
      <4>5. carried' = carried
        BY <2>14, <3>1
      <4> QED
        BY <1>1, <2>4, <2>18, <4>3, <4>4, <4>5 DEF LimitsKept
    <3>2. CASE ~empty
      <4>1. /\ Images(carried') = Images(carried) \o images.kept
            /\ Videos(carried') = Videos(carried) \o videos.kept
        BY <1>6, <2>13, <2>14, <2>15, <3>2, FilesOfRows
      <4>2. (\A f \in KeptImages : f.bytes \in Nat) /\ (\A f \in KeptVideos : f.bytes \in Nat)
        BY DEF KeptImages, KeptVideos, ImageFiles, VideoFiles
      <4>3. /\ Bytes(Images(carried')) = Bytes(Images(carried)) + Bytes(images.kept)
            /\ Bytes(Videos(carried')) = Bytes(Videos(carried)) + Bytes(videos.kept)
        BY <2>5, <2>9, <2>10, <4>1, <4>2, BytesJoin
      <4>4. /\ Len(Images(carried')) = Len(Images(carried)) + Len(images.kept)
            /\ Len(Videos(carried')) = Len(Videos(carried)) + Len(videos.kept)
            /\ Len(Images(carried)) \in Nat /\ Len(Videos(carried)) \in Nat
            /\ Len(images.kept) \in Nat /\ Len(videos.kept) \in Nat
        BY <2>5, <2>9, <2>10, <4>1
      <4>5. Len(Images(carried')) <= images.tried /\ Len(Videos(carried')) <= videos.tried
        <5>1. Len(Images(carried)) <= reading.images /\ Len(Videos(carried)) <= reading.videos
          BY <1>1 DEF LimitsKept
        <5>2. /\ images.tried \in Nat /\ reading.images + Len(images.kept) <= images.tried
              /\ videos.tried \in Nat /\ reading.videos + Len(videos.kept) <= videos.tried
          BY <2>9, <2>10
        <5>3. reading.images \in Nat /\ reading.videos \in Nat
          BY <1>6
        <5>4. Len(Images(carried')) <= images.tried
          BY <4>4, <5>1, <5>2, <5>3
        <5>5. Len(Videos(carried')) <= videos.tried
          BY <4>4, <5>1, <5>2, <5>3
        <5> QED
          BY <5>4, <5>5
      <4> QED
        BY <2>4, <2>9, <2>10, <2>18, <4>3, <4>5 DEF LimitsKept
    <3> QED
      BY <3>1, <3>2
  <2>20. Told' \/ InFull(i)'
    <3> SUFFICES ASSUME ~Told' PROVE InFull(i)'
      OBVIOUS
    <3>1. images.kept = ImagesOf(m) /\ videos.kept = VideosOf(m) /\ shown = text
      BY <2>12, <2>18 DEF Told
    <3> DEFINE whole == [at |-> i, text |-> text, images |-> ImagesOf(m), videos |-> VideosOf(m)]
    <3>2. /\ TextOf(topic[i], i = trigger)' = text
          /\ ImagesOf(topic[i])' = ImagesOf(m) /\ VideosOf(topic[i])' = VideosOf(m)
      BY <1>2, <1>5, <2>18 DEF TextOf, ImagesOf, VideosOf, text
    <3>3. CASE empty
      BY <3>1, <3>2, <3>3 DEF InFull, empty
    <3>4. CASE ~empty
      <4>1. carried' = Append(carried, whole)
        BY <2>14, <3>1, <3>4 DEF row
      <4>2. whole \in ToSet(carried')
        <5> HIDE DEF whole
        <5>1. Len(carried) + 1 \in DOMAIN carried' /\ carried'[Len(carried) + 1] = whole
          BY <1>6, <4>1
        <5> QED
          BY <5>1 DEF ToSet
      <4> QED
        BY <3>2, <4>2 DEF InFull
    <3> QED
      BY <3>3, <3>4
  <2>21. i \in reading.atStart => i = trigger
    BY <1>1, <1>2, <1>4, <1>8 DEF GoneFits
  <2>22. \/ carried' = carried
         \/ \E r \in Rows :
               /\ carried' = Append(carried, r) /\ r.at = i
               /\ r.at \in reading.atStart => r.at = trigger
               /\ r.videos # <<>> => reading.video
    BY <2>8, <2>13, <2>14, <2>15, <2>21
  <2> QED
    BY <1>2, <1>3, <2>16, <2>17, <2>18, <2>19, <2>20, <2>22, CandidateDone
<1> QED
  BY <1>7, <1>8

LEMMA ConcludeFits == ContextInv /\ Conclude => ContextInv'
<1> SUFFICES ASSUME ContextInv, Conclude PROVE ContextInv'
  OBVIOUS
<1>1. /\ Types /\ LateLast /\ EndWithTrigger /\ ListingFits /\ GoneFits /\ RowsFit
      /\ LimitsKept /\ WholeOrTold /\ StreamFits
  BY DEF ContextInv
<1>2. /\ reading.phase = "assembling" /\ reading.candidates = <<>> /\ reading \in Reading
      /\ UNCHANGED <<topic, recalled, trigger, carried, frames>>
  BY <1>1 DEF Conclude, Types
<1> DEFINE status == IF carried # <<>> THEN "found" ELSE IF reading.unreadable THEN "unreadable"
                     ELSE "missing"
<1>3. reading' = [reading EXCEPT !.phase = "header", !.status = status]
  BY DEF Conclude
<1>4. status \in {"none", "found", "missing", "unreadable"} /\ "header" \in Phases
  BY DEF Phases
<1> HIDE DEF status
<1>5. reading' \in Reading
  BY <1>2, <1>3, <1>4 DEF Reading
<1>6. /\ reading'.phase = "header" /\ reading'.candidates = <<>> /\ reading'.thread = reading.thread
      /\ reading'.video = reading.video /\ reading'.gone = reading.gone
      /\ reading'.atStart = reading.atStart /\ reading'.scanned = reading.scanned
      /\ reading'.issues = reading.issues /\ reading'.truncated = reading.truncated
      /\ reading'.text = reading.text /\ reading'.images = reading.images
      /\ reading'.videos = reading.videos
  BY <1>2, <1>3 DEF Reading
<1>7. Types' /\ LateLast' /\ EndWithTrigger' /\ ListingFits' /\ GoneFits' /\ LimitsKept'
  BY <1>1, <1>2, <1>5, <1>6 DEF Types, LateLast, EndWithTrigger, ListingFits, GoneFits, LimitsKept
<1>8. RowsFit'
  <2>1. Len(carried) \in Nat /\ Len(carried) <= MaxMessages + 1
    BY <1>1, <1>2 DEF RowsFit, Types
  <2> QED
    BY <1>1, <1>2, <1>6, <2>1, Numbers DEF RowsFit
<1>9. WholeOrTold'
  <2>1. Told' = Told /\ First' = First /\ \A j : InFull(j) => InFull(j)'
    BY <1>2, <1>6, InFullStays DEF Told, First
  <2>2. Told \/ \A j \in First..(trigger - Len(reading.candidates)) : j \notin recalled => InFull(j)
    BY <1>1, <1>2 DEF WholeOrTold
  <2> QED
    BY <1>2, <1>6, <2>1, <2>2 DEF WholeOrTold
<1>10. StreamFits'
  BY <1>1, <1>2, <1>6, StreamStays DEF StreamFits
<1> QED
  BY <1>7, <1>8, <1>9, <1>10 DEF ContextInv

LEMMA PhaseOnly ==
    ASSUME ContextInv, reading.phase \in {"header", "streaming"},
           NEW phase \in {"streaming", "ended", "broken"}, reading' = [reading EXCEPT !.phase = phase],
           UNCHANGED <<topic, recalled, trigger, carried, frames>>,
           phase = "ended" => Complete
    PROVE  ContextInv'
<1>1. /\ Types /\ LateLast /\ EndWithTrigger /\ ListingFits /\ GoneFits /\ RowsFit
      /\ LimitsKept /\ WholeOrTold /\ StreamFits
  BY DEF ContextInv
<1>2. reading \in Reading /\ phase \in Phases
  BY <1>1 DEF Types, Phases
<1>3. reading' \in Reading
  BY <1>2 DEF Reading
<1>4. /\ reading'.phase = phase /\ reading'.candidates = reading.candidates
      /\ reading'.thread = reading.thread
      /\ reading'.video = reading.video /\ reading'.gone = reading.gone
      /\ reading'.atStart = reading.atStart /\ reading'.scanned = reading.scanned
      /\ reading'.issues = reading.issues /\ reading'.truncated = reading.truncated
      /\ reading'.text = reading.text /\ reading'.images = reading.images
      /\ reading'.videos = reading.videos /\ reading'.status = reading.status
  BY <1>2 DEF Reading
<1>5. Types' /\ LateLast' /\ EndWithTrigger' /\ ListingFits' /\ GoneFits' /\ LimitsKept'
  BY <1>1, <1>3, <1>4 DEF Types, LateLast, EndWithTrigger, ListingFits, GoneFits, LimitsKept
<1>6. RowsFit'
  BY <1>1, <1>4 DEF RowsFit
<1>7. WholeOrTold'
  <2>1. Told' = Told /\ First' = First /\ \A j : InFull(j) => InFull(j)'
    BY <1>4, InFullStays DEF Told, First
  <2> QED
    BY <1>1, <1>4, <2>1 DEF WholeOrTold
<1>8. StreamFits'
  BY <1>1, <1>4, StreamStays
<1> QED
  BY <1>5, <1>6, <1>7, <1>8 DEF ContextInv

LEMMA EndFits == ContextInv /\ (Header \/ EndStream) => ContextInv'
<1> SUFFICES ASSUME ContextInv, Header \/ EndStream PROVE ContextInv'
  OBVIOUS
<1>1. CASE Header
  BY <1>1, PhaseOnly DEF Header
<1>2. CASE EndStream
  <2> DEFINE phase == IF reading.phase = "streaming" /\ Complete THEN "ended" ELSE "broken"
  <2>1. phase \in {"streaming", "ended", "broken"} /\ (phase = "ended" => Complete)
    OBVIOUS
  <2>2. reading' = [reading EXCEPT !.phase = phase] /\ reading.phase \in {"header", "streaming"}
        /\ UNCHANGED <<topic, recalled, trigger, carried, frames>>
    BY <1>2 DEF EndStream
  <2>3. PICK p : p = phase
    OBVIOUS
  <2> QED
    BY <2>1, <2>2, <2>3, PhaseOnly
<1> QED
  BY <1>1, <1>2

(* Parts of a sequence, and of one that is longer.                         *)
LEMMA PartOf ==
    ASSUME NEW F, NEW s \in Seq(F), NEW a \in 1..(Len(s) + 1), NEW b \in (a - 1)..Len(s)
    PROVE  /\ SubSeq(s, a, b) \in Seq(F) /\ Len(SubSeq(s, a, b)) = b - a + 1
           /\ \A k \in 1..(b - a + 1) : SubSeq(s, a, b)[k] = s[a + k - 1]
<1>1. a \in Int /\ b \in Int /\ (IF a <= b THEN b - a + 1 ELSE 0) = b - a + 1
  OBVIOUS
<1>2. \A k \in a..b : s[k] \in F
  OBVIOUS
<1> QED
  BY <1>1, <1>2, SubSeqProperties

LEMMA PrefixOf ==
    ASSUME NEW F, NEW s \in Seq(F), NEW b \in 0..Len(s)
    PROVE  /\ SubSeq(s, 1, b) \in Seq(F) /\ Len(SubSeq(s, 1, b)) = b
           /\ \A k \in 1..b : SubSeq(s, 1, b)[k] = s[k]
OBVIOUS

LEMMA PartOfLonger ==
    ASSUME NEW F, NEW s \in Seq(F), NEW e \in F, NEW a \in 1..(Len(s) + 1)
    PROVE  /\ \A b \in (a - 1)..Len(s) : SubSeq(Append(s, e), a, b) = SubSeq(s, a, b)
           /\ SubSeq(Append(s, e), a, Len(s) + 1) = Append(SubSeq(s, a, Len(s)), e)
<1> DEFINE n == Len(s)
           l == Append(s, e)
<1>1. /\ l \in Seq(F) /\ Len(l) = n + 1 /\ n \in Nat
      /\ \A k \in 1..n : l[k] = s[k]
      /\ l[n + 1] = e
  OBVIOUS
<1> HIDE DEF n, l
<1>2. a \in 1..(n + 1)
  BY DEF n
<1>3. ASSUME NEW b \in (a - 1)..n PROVE SubSeq(l, a, b) = SubSeq(s, a, b)
  <2>1. /\ SubSeq(s, a, b) \in Seq(F) /\ Len(SubSeq(s, a, b)) = b - a + 1
        /\ \A k \in 1..(b - a + 1) : SubSeq(s, a, b)[k] = s[a + k - 1]
    BY <1>3, PartOf DEF n
  <2>2. /\ SubSeq(l, a, b) \in Seq(F) /\ Len(SubSeq(l, a, b)) = b - a + 1
        /\ \A k \in 1..(b - a + 1) : SubSeq(l, a, b)[k] = l[a + k - 1]
    <3>1. a \in 1..(Len(l) + 1) /\ b \in (a - 1)..Len(l)
      BY <1>1, <1>2, <1>3
    <3> QED
      BY <1>1, <3>1, PartOf
  <2>3. \A k \in 1..(b - a + 1) : a + k - 1 \in 1..n
    BY <1>1, <1>2
  <2>4. \A k \in 1..(b - a + 1) : SubSeq(s, a, b)[k] = SubSeq(l, a, b)[k]
    BY <1>1, <2>1, <2>2, <2>3
  <2> DEFINE p == SubSeq(s, a, b)
             q == SubSeq(l, a, b)
  <2> HIDE DEF p, q
  <2>5. p \in Seq(F) /\ q \in Seq(F) /\ Len(p) = Len(q) /\ \A k \in 1..Len(p) : p[k] = q[k]
    BY <2>1, <2>2, <2>4 DEF p, q
  <2>6. p = q
    BY <2>5, SeqEqual
  <2> QED
    BY <2>6 DEF p, q
<1>4. SubSeq(l, a, n + 1) = Append(SubSeq(s, a, n), e)
  <2> DEFINE p == SubSeq(s, a, n)
             q == SubSeq(l, a, n + 1)
             m == n - a + 1
  <2>1. m \in Nat /\ \A k \in 1..m : a + k - 1 \in 1..n
    BY <1>1, <1>2
  <2>2. p \in Seq(F) /\ Len(p) = m /\ \A k \in 1..m : p[k] = s[a + k - 1]
    <3>1. n \in (a - 1)..n
      BY <1>1, <1>2
    <3> QED
      BY <3>1, PartOf DEF n
  <2>3. q \in Seq(F) /\ Len(q) = m + 1 /\ \A k \in 1..(m + 1) : q[k] = l[a + k - 1]
    <3>1. a \in 1..(Len(l) + 1) /\ n + 1 \in (a - 1)..Len(l) /\ n + 1 - a + 1 = m + 1
      BY <1>1, <1>2
    <3> QED
      BY <1>1, <3>1, PartOf
  <2>4. a + (m + 1) - 1 = n + 1
    BY <1>1, <1>2
  <2> HIDE DEF p, q, m
  <2>5. ASSUME NEW k \in 1..m PROVE p[k] = q[k]
    <3>1. k \in 1..(m + 1) /\ a + k - 1 \in 1..n
      BY <2>1
    <3>2. q[k] = l[a + k - 1] /\ p[k] = s[a + k - 1]
      BY <2>2, <2>3, <3>1
    <3> QED
      BY <1>1, <3>1, <3>2
  <2>6. q[m + 1] = e
    BY <1>1, <2>1, <2>3, <2>4
  <2>7. /\ Append(p, e) \in Seq(F) /\ Len(Append(p, e)) = m + 1
        /\ \A k \in 1..m : Append(p, e)[k] = p[k]
        /\ Append(p, e)[m + 1] = e
    BY <2>1, <2>2
  <2>8. \A k \in 1..(m + 1) : k \in 1..m \/ k = m + 1
    BY <2>1
  <2>9. \A k \in 1..(m + 1) : Append(p, e)[k] = q[k]
    BY <2>5, <2>6, <2>7, <2>8
  <2> DEFINE r == Append(p, e)
  <2> HIDE DEF r
  <2>10. r \in Seq(F) /\ q \in Seq(F) /\ Len(r) = Len(q) /\ \A k \in 1..Len(r) : r[k] = q[k]
    BY <2>3, <2>7, <2>9 DEF r
  <2>11. r = q
    BY <2>10, SeqEqual
  <2> QED
    BY <2>11 DEF r, p, q
<1> QED
  BY <1>3, <1>4 DEF n, l

(* The files of a snapshot are not empty, and a frame that begins inside a *)
(* file ends inside it.                                                    *)
LEMMA FilesAre ==
    ASSUME Types
    PROVE  /\ Files \in Seq(Kept) /\ Len(Files) \in Nat /\ DOMAIN Files = 1..Len(Files)
           /\ \A f \in DOMAIN Files : Files[f].bytes \in Nat \ {0}
<1>1. Images(carried) \in Seq(KeptImages) /\ Videos(carried) \in Seq(KeptVideos)
  <2>1. [at |-> 0, text |-> 0, images |-> <<>>, videos |-> <<>>] \in Rows
    BY DEF Rows
  <2> QED
    BY <2>1, FilesOfRows DEF Types
<1>2. Images(carried) \in Seq(Kept) /\ Videos(carried) \in Seq(Kept)
  BY <1>1 DEF Kept
<1>3. Files \in Seq(Kept)
  BY <1>2, ConcatProperties DEF Files
<1>4. \A f \in Kept : f.bytes \in Nat \ {0}
  BY DEF Kept, KeptImages, KeptVideos, ImageFiles, VideoFiles
<1>5. Len(Files) \in Nat /\ DOMAIN Files = 1..Len(Files) /\ \A f \in DOMAIN Files : Files[f] \in Kept
  BY <1>3
<1> QED
  BY <1>3, <1>4, <1>5

LEMMA NextFrameIs ==
    ASSUME Types, NEW file \in DOMAIN Files, NEW offset \in Nat, offset < Files[file].bytes
    PROVE  LET frame == NextFrame(file, offset)
           IN  /\ frame \in Frames /\ frame.file = file /\ frame.offset = offset
               /\ frame.bytes \in 1..ChunkBytes /\ EndsWith(frame)
<1> DEFINE frame == NextFrame(file, offset)
           size == Files[file].bytes
           end == IF offset + ChunkBytes < size THEN offset + ChunkBytes ELSE size
<1>1. size \in Nat /\ file \in Nat /\ ChunkBytes \in Nat \ {0} /\ offset < size
  BY FilesAre, Numbers
<1>2. frame = [file |-> file, offset |-> offset, bytes |-> end - offset, final |-> end = size]
  BY DEF NextFrame, Smaller
<1> HIDE DEF size, frame
<1>3. /\ end - offset \in 1..ChunkBytes /\ offset + (end - offset) = end /\ end <= size
      /\ end # size => end - offset = ChunkBytes
  BY <1>1
<1>4. /\ frame.file = file /\ frame.offset = offset /\ frame.bytes = end - offset
      /\ frame.final = (end = size)
  BY <1>2
<1> HIDE DEF end
<1>5. frame \in Frames
  BY <1>1, <1>2, <1>3 DEF Frames
<1>6. EndsWith(frame)
  BY <1>3, <1>4 DEF EndsWith, size
<1> QED
  BY <1>3, <1>4, <1>5, <1>6 DEF frame

LEMMA SendChunkFits == ContextInv /\ SendChunk => ContextInv'
<1> SUFFICES ASSUME ContextInv, SendChunk PROVE ContextInv'
  OBVIOUS
<1>0. PICK n, frame, now : /\ n = Len(frames) /\ frame = Following
                          /\ now = IF frames = <<>> THEN 0 ELSE Last(frames).file
  OBVIOUS
<1>1. /\ Types /\ LateLast /\ EndWithTrigger /\ ListingFits /\ GoneFits /\ RowsFit
      /\ LimitsKept /\ WholeOrTold /\ StreamFits
  BY DEF ContextInv
<1>2. /\ reading.phase = "streaming" /\ ~Complete
      /\ UNCHANGED <<topic, recalled, trigger, reading, carried>>
  BY DEF SendChunk
<1>3. /\ frames \in Seq(Frames) /\ n \in Nat /\ DOMAIN frames = 1..n
      /\ frames # <<>> <=> n # 0
      /\ Last(frames) = frames[n]
      /\ \A k \in 1..n : frames[k] \in Frames
  BY <1>0, <1>1 DEF Types, Last
<1>4. \A fr \in Frames : fr.file \in Nat /\ fr.offset \in Nat /\ fr.bytes \in Nat
  BY DEF Frames
<1>5. /\ Len(Files) \in Nat /\ DOMAIN Files = 1..Len(Files)
      /\ \A f \in DOMAIN Files : Files[f].bytes \in Nat \ {0}
  BY <1>1, FilesAre
<1>6. \A k \in 1..n : EndsWith(frames[k]) /\ frames[k].file <= now
  BY <1>0, <1>1, <1>3 DEF StreamFits
<1>7. \A f \in 1..now : \E first \in 1..n, last \in 1..n :
              /\ Run(f, first, last)
              /\ f < now => frames[last].final
              /\ f = now => last = n
  <2>1. CASE frames = <<>>
    BY <1>0, <2>1
  <2>2. CASE frames # <<>>
    BY <1>0, <1>1, <1>3, <2>2 DEF StreamFits
  <2> QED
    BY <2>1, <2>2
<1>22. now \in Nat
  BY <1>0, <1>3, <1>4
<1>8. \/ frame = NextFrame(now + 1, 0) /\ now + 1 \in DOMAIN Files
         /\ (frames # <<>> => frames[n].final)
      \/ frame = NextFrame(now, frames[n].offset + frames[n].bytes) /\ frames # <<>>
         /\ now \in DOMAIN Files /\ frames[n].offset + frames[n].bytes < Files[now].bytes
         /\ frames[n].file = now /\ ~frames[n].final
  <2>1. CASE frames = <<>>
    BY <1>0, <1>2, <1>5, <2>1 DEF Complete, Following
  <2>2. CASE frames # <<>> /\ frames[n].final
    <3>1. now \in DOMAIN Files /\ now # Len(Files)
      BY <1>0, <1>2, <1>3, <1>6, <2>2 DEF EndsWith, Complete
    <3> QED
      BY <1>0, <1>3, <1>5, <2>2, <3>1 DEF Following
  <2>3. CASE frames # <<>> /\ ~frames[n].final
    <3>1. n \in 1..n /\ EndsWith(frames[n]) /\ now = frames[n].file
      BY <1>0, <1>3, <1>6, <2>3
    <3>2. /\ now \in DOMAIN Files /\ frames[n].bytes = ChunkBytes
          /\ frames[n].offset + frames[n].bytes <= Files[now].bytes
          /\ frames[n].offset + frames[n].bytes # Files[now].bytes
      BY <2>3, <3>1 DEF EndsWith
    <3>3. frames[n].offset + frames[n].bytes < Files[now].bytes
      <4>1. frames[n].offset \in Nat /\ frames[n].bytes \in Nat /\ Files[now].bytes \in Nat
        BY <1>3, <1>4, <1>5, <3>1, <3>2
      <4> QED
        BY <3>2, <4>1
    <3>4. frame = NextFrame(now, frames[n].offset + frames[n].bytes)
      BY <1>0, <1>3, <2>3, <3>1, <3>2 DEF Following
    <3> QED
      BY <2>3, <3>1, <3>2, <3>3, <3>4
  <2> QED
    BY <2>1, <2>2, <2>3
<1>9. /\ frame \in Frames /\ frame.bytes \in 1..ChunkBytes /\ EndsWith(frame)
      /\ \/ frame.file = now + 1 /\ frame.offset = 0 /\ (frames # <<>> => frames[n].final)
         \/ frame.file = now /\ frame.offset = frames[n].offset + frames[n].bytes
            /\ frames # <<>> /\ ~frames[n].final
  <2>1. CASE frame = NextFrame(now + 1, 0) /\ now + 1 \in DOMAIN Files
             /\ (frames # <<>> => frames[n].final)
    <3>1. 0 < Files[now + 1].bytes
      BY <1>5, <2>1
    <3> QED
      BY <1>1, <2>1, <3>1, NextFrameIs
  <2>2. CASE /\ frame = NextFrame(now, frames[n].offset + frames[n].bytes) /\ frames # <<>>
             /\ now \in DOMAIN Files /\ frames[n].offset + frames[n].bytes < Files[now].bytes
             /\ frames[n].file = now /\ ~frames[n].final
    <3>1. frames[n].offset + frames[n].bytes \in Nat
      BY <1>3, <1>4, <2>2
    <3> QED
      BY <1>1, <2>2, <3>1, NextFrameIs
  <2> QED
    BY <1>8, <2>1, <2>2
<1>10. frames' = Append(frames, frame)
  BY <1>0 DEF SendChunk
<1>11. /\ frames' \in Seq(Frames) /\ Len(frames') = n + 1 /\ DOMAIN frames' = 1..(n + 1)
       /\ \A k \in 1..n : frames'[k] = frames[k]
       /\ frames'[n + 1] = frame
       /\ Last(frames') = frame /\ frames' # <<>>
  BY <1>0, <1>3, <1>9, <1>10 DEF Last
<1>12. /\ \A a \in 1..(n + 1), b \in 0..n : a <= b + 1 => SubSeq(frames', a, b) = SubSeq(frames, a, b)
       /\ \A a \in 1..(n + 1) : SubSeq(frames', a, n + 1) = Append(SubSeq(frames, a, n), frame)
       /\ \A a \in 1..(n + 1) : SubSeq(frames, a, n) \in Seq(Frames)
  <2>1. ASSUME NEW a \in 1..(n + 1), NEW b \in 0..n, a <= b + 1
        PROVE  SubSeq(frames', a, b) = SubSeq(frames, a, b)
    <3>1. b \in (a - 1)..n
      BY <1>3, <2>1
    <3> QED
      BY <1>0, <1>3, <1>9, <1>10, <3>1, PartOfLonger
  <2>2. ASSUME NEW a \in 1..(n + 1)
        PROVE  SubSeq(frames', a, n + 1) = Append(SubSeq(frames, a, n), frame)
    BY <1>0, <1>3, <1>9, <1>10, PartOfLonger
  <2>3. ASSUME NEW a \in 1..(n + 1) PROVE SubSeq(frames, a, n) \in Seq(Frames)
    <3>1. n \in (a - 1)..n
      BY <1>3
    <3> QED
      BY <1>0, <1>3, <3>1, PartOf
  <2> QED
    BY <2>1, <2>2, <2>3
<1>13. \A a \in 1..(n + 1) : Bytes(SubSeq(frames', a, n + 1)) = Bytes(SubSeq(frames, a, n)) + frame.bytes
  BY <1>4, <1>9, <1>12, BytesAppend
<1>14. frame.file \in Nat /\ now <= frame.file /\ frame.file <= now + 1
  BY <1>4, <1>9, <1>22
<1>15. ASSUME NEW f \in 1..now, f # frame.file, NEW first \in 1..n, NEW last \in 1..n,
              Run(f, first, last)
       PROVE  Run(f, first, last)'
  <2>1. /\ first <= last
        /\ \A k \in 1..n : frames[k].file = f <=> k \in first..last
        /\ Bytes(SubSeq(frames, first, last)) = frames[last].offset + frames[last].bytes
        /\ \A k \in first..last :
              /\ frames[k].bytes \in 1..ChunkBytes
              /\ frames[k].offset = Bytes(SubSeq(frames, first, k - 1))
              /\ frames[k].final => k = last
    BY <1>3, <1>15 DEF Run
  <2>2. \A k \in 1..(n + 1) : frames'[k].file = f <=> k \in first..last
    <3> SUFFICES ASSUME NEW k \in 1..(n + 1) PROVE frames'[k].file = f <=> k \in first..last
      OBVIOUS
    <3>1. CASE k \in 1..n
      BY <1>11, <2>1, <3>1
    <3>2. CASE k = n + 1
      <4>1. k \notin first..last
        BY <1>3, <3>2
      <4> QED
        BY <1>11, <1>15, <3>2, <4>1
    <3> QED
      BY <1>3, <3>1, <3>2
  <2>3. SubSeq(frames', first, last) = SubSeq(frames, first, last)
    <3>1. first \in 1..(n + 1) /\ last \in 0..n /\ first <= last + 1
      BY <1>3, <2>1
    <3> QED
      BY <1>12, <3>1
  <2>4. ASSUME NEW k \in first..last
        PROVE  /\ frames'[k].bytes \in 1..ChunkBytes
               /\ frames'[k].offset = Bytes(SubSeq(frames', first, k - 1))
               /\ frames'[k].final => k = last
    <3>1. k \in 1..n /\ k - 1 \in 0..n /\ first <= k - 1 + 1 /\ first \in 1..(n + 1)
      BY <1>3
    <3>2. SubSeq(frames', first, k - 1) = SubSeq(frames, first, k - 1)
      BY <1>12, <3>1
    <3> QED
      BY <1>11, <2>1, <3>1, <3>2
  <2>5. first \in 1..(n + 1) /\ last \in 1..(n + 1)
    BY <1>3
  <2> QED
    BY <1>11, <2>1, <2>2, <2>3, <2>4, <2>5 DEF Run
<1>16. ASSUME frame.file = now + 1, frame.offset = 0 PROVE Run(frame.file, n + 1, n + 1)'
  <2>1. n + 1 \in 1..(n + 1) /\ \A k \in (n + 1)..(n + 1) : k = n + 1
    BY <1>3
  <2>2. SubSeq(frames, n + 1, n) = <<>>
    BY <1>3, SubSeqEmpty
  <2>3. SubSeq(frames', n + 1, n) = <<>>
    BY <1>3, SubSeqEmpty
  <2>4. Bytes(SubSeq(frames', n + 1, n + 1)) = frame.offset + frame.bytes
    BY <1>13, <1>16, <2>1, <2>2, NoFiles
  <2>5. \A k \in 1..(n + 1) : frames'[k].file = frame.file <=> k \in (n + 1)..(n + 1)
    <3>1. ASSUME NEW k \in 1..n PROVE frames'[k].file # frame.file
      <4>1. frames'[k] = frames[k] /\ frames[k].file \in Nat /\ frames[k].file <= now
        BY <1>3, <1>4, <1>6, <1>11
      <4> QED
        BY <1>16, <1>22, <4>1
    <3> QED
      BY <1>3, <1>11, <3>1
  <2> QED
    <3>1. ASSUME NEW k \in (n + 1)..(n + 1)
          PROVE  /\ frames'[k].bytes \in 1..ChunkBytes
                 /\ frames'[k].offset = Bytes(SubSeq(frames', n + 1, k - 1))
                 /\ frames'[k].final => k = n + 1
      <4>1. k = n + 1 /\ k - 1 = n
        BY <1>3
      <4> QED
        BY <1>9, <1>11, <1>16, <2>3, <4>1, NoFiles
    <3>2. Bytes(SubSeq(frames', n + 1, n + 1)) = frames'[n + 1].offset + frames'[n + 1].bytes
      BY <1>11, <2>4
    <3>3. n + 1 <= n + 1 /\ n + 1 \in DOMAIN frames'
      BY <1>3, <1>11
    <3> QED
      BY <1>11, <2>5, <3>1, <3>2, <3>3 DEF Run
<1>17. ASSUME frame.file = now, frame.offset = frames[n].offset + frames[n].bytes, ~frames[n].final,
              NEW first \in 1..n, Run(now, first, n)
       PROVE  Run(now, first, n + 1)'
  <2>1. /\ first <= n
        /\ \A k \in 1..n : frames[k].file = now <=> k \in first..n
        /\ Bytes(SubSeq(frames, first, n)) = frame.offset
        /\ \A k \in first..n :
              /\ frames[k].bytes \in 1..ChunkBytes
              /\ frames[k].offset = Bytes(SubSeq(frames, first, k - 1))
              /\ ~frames[k].final
    BY <1>3, <1>17 DEF Run
  <2>2. \A k \in 1..(n + 1) : frames'[k].file = now <=> k \in first..(n + 1)
    <3> SUFFICES ASSUME NEW k \in 1..(n + 1) PROVE frames'[k].file = now <=> k \in first..(n + 1)
      OBVIOUS
    <3>1. CASE k \in 1..n
      <4>1. k \in first..n <=> k \in first..(n + 1)
        BY <1>3, <3>1
      <4> QED
        BY <1>11, <2>1, <3>1, <4>1
    <3>2. CASE k = n + 1
      <4>1. k \in first..(n + 1)
        BY <1>3, <3>2
      <4> QED
        BY <1>11, <1>17, <3>2, <4>1
    <3> QED
      BY <1>3, <3>1, <3>2
  <2>3. first \in 1..(n + 1) /\ n + 1 \in 1..(n + 1) /\ first <= n + 1
    BY <1>3
  <2>4. Bytes(SubSeq(frames', first, n + 1)) = frame.offset + frame.bytes
    BY <1>13, <2>1, <2>3
  <2>5. ASSUME NEW k \in first..(n + 1)
        PROVE  /\ frames'[k].bytes \in 1..ChunkBytes
               /\ frames'[k].offset = Bytes(SubSeq(frames', first, k - 1))
               /\ frames'[k].final => k = n + 1
    <3>1. k - 1 \in 0..n /\ first <= k - 1 + 1
      BY <1>3
    <3>2. SubSeq(frames', first, k - 1) = SubSeq(frames, first, k - 1)
      BY <1>12, <2>3, <3>1
    <3>3. CASE k \in first..n
      <4>1. k \in 1..n
        BY <1>3, <3>3
      <4> QED
        BY <1>11, <2>1, <3>2, <3>3, <4>1
    <3>4. CASE k = n + 1
      <4>1. k - 1 = n
        BY <1>3, <3>4
      <4> QED
        BY <1>9, <1>11, <2>1, <3>2, <3>4, <4>1
    <3>5. k \in first..n \/ k = n + 1
      BY <1>3
    <3> QED
      BY <3>3, <3>4, <3>5
  <2> QED
    BY <1>11, <2>2, <2>3, <2>4, <2>5 DEF Run
<1>18. \A f \in 1..frame.file : \E first \in 1..(n + 1), last \in 1..(n + 1) :
          /\ Run(f, first, last)'
          /\ f < frame.file => frames'[last].final
          /\ f = frame.file => last = n + 1
  <2> SUFFICES ASSUME NEW f \in 1..frame.file
               PROVE  \E first \in 1..(n + 1), last \in 1..(n + 1) :
                        /\ Run(f, first, last)'
                        /\ f < frame.file => frames'[last].final
                        /\ f = frame.file => last = n + 1
    OBVIOUS
  <2>1. CASE f < frame.file
    <3>1. f \in 1..now
      BY <1>14, <1>22, <2>1
    <3>2. PICK first \in 1..n, last \in 1..n :
              /\ Run(f, first, last)
              /\ f < now => frames[last].final
              /\ f = now => last = n
      BY <1>7, <3>1
    <3>3. Run(f, first, last)'
      BY <1>14, <1>15, <2>1, <3>1, <3>2
    <3>4. frames[last].final
      <4>1. CASE f < now
        BY <3>2, <4>1
      <4>2. CASE f = now
        <5>1. frame.file # now /\ frames # <<>>
          BY <1>3, <1>14, <2>1, <4>2
        <5> QED
          BY <1>9, <3>2, <4>2, <5>1
      <4> QED
        BY <1>22, <3>1, <4>1, <4>2
    <3>5. frames'[last] = frames[last] /\ first \in 1..(n + 1) /\ last \in 1..(n + 1)
      BY <1>3, <1>11
    <3>6. f # frame.file
      BY <1>14, <2>1
    <3> QED
      BY <3>3, <3>4, <3>5, <3>6
  <2>2. CASE f = frame.file /\ frame.file = now + 1 /\ frame.offset = 0
    <3>1. Run(f, n + 1, n + 1)'
      BY <1>16, <2>2
    <3>2. n + 1 \in 1..(n + 1) /\ ~(f < frame.file)
      BY <1>3, <1>14, <2>2
    <3> QED
      BY <3>1, <3>2
  <2>3. CASE /\ f = frame.file /\ frame.file = now /\ ~frames[n].final
             /\ frame.offset = frames[n].offset + frames[n].bytes
    <3>1. PICK first \in 1..n, last \in 1..n : Run(f, first, last) /\ (f = now => last = n)
      BY <1>7, <2>3
    <3>2. Run(f, first, n + 1)'
      BY <1>17, <2>3, <3>1
    <3>3. first \in 1..(n + 1) /\ n + 1 \in 1..(n + 1) /\ ~(f < frame.file)
      BY <1>3, <1>14, <2>3
    <3> QED
      BY <3>2, <3>3
  <2> QED
    BY <1>9, <1>14, <2>1, <2>2, <2>3
<1>19. StreamFits'
  <2>1. \A fr : EndsWith(fr)' = EndsWith(fr)
    BY <1>2 DEF EndsWith, Files
  <2>2. \A k \in DOMAIN frames' : EndsWith(frames'[k]) /\ frames'[k].file <= frame.file
    <3> SUFFICES ASSUME NEW k \in 1..(n + 1)
                 PROVE  EndsWith(frames'[k]) /\ frames'[k].file <= frame.file
      BY <1>11
    <3>1. CASE k \in 1..n
      <4>1. frames[k].file \in Nat /\ frames[k].file <= now /\ EndsWith(frames[k])
        BY <1>3, <1>4, <1>6, <3>1
      <4> QED
        BY <1>11, <1>14, <1>22, <3>1, <4>1
    <3>2. CASE k = n + 1
      BY <1>9, <1>11, <1>14, <3>2
    <3> QED
      BY <1>3, <3>1, <3>2
  <2> QED
    BY <1>2, <1>11, <1>18, <2>1, <2>2 DEF StreamFits
<1>20. Types' /\ LateLast' /\ EndWithTrigger' /\ ListingFits' /\ GoneFits' /\ RowsFit' /\ LimitsKept'
  BY <1>1, <1>2, <1>11 DEF Types, LateLast, EndWithTrigger, ListingFits, GoneFits, RowsFit, LimitsKept
<1>21. WholeOrTold'
  <2>1. Told' = Told /\ First' = First /\ \A j : InFull(j) => InFull(j)'
    BY <1>2, InFullStays DEF Told, First
  <2> QED
    BY <1>1, <1>2, <2>1 DEF WholeOrTold
<1> QED
  BY <1>19, <1>20, <1>21 DEF ContextInv

LEMMA ContextStep == ContextInv /\ [ContextNext]_contextVars => ContextInv'
<1> SUFFICES ASSUME ContextInv, [ContextNext]_contextVars PROVE ContextInv'
  OBVIOUS
<1>1. CASE Post
  BY <1>1, PostFits
<1>2. CASE Recall
  BY <1>2, RecallFits
<1>3. CASE Ask \/ AskTrigger
  BY <1>3, AskFits
<1>4. CASE ListPage
  BY <1>4, ListPageFits
<1>5. CASE ListFails
  BY <1>5, ListFailsFits
<1>6. CASE Assemble
  BY <1>6, AssembleFits
<1>7. CASE Conclude
  BY <1>7, ConcludeFits
<1>8. CASE Header \/ EndStream
  BY <1>8, EndFits
<1>9. CASE SendChunk
  BY <1>9, SendChunkFits
<1>10. CASE UNCHANGED contextVars
  <2>1. UNCHANGED <<topic, recalled, trigger, reading, carried, frames>>
    BY <1>10 DEF contextVars
  <2>2. /\ Types /\ LateLast /\ EndWithTrigger /\ ListingFits /\ GoneFits /\ RowsFit
        /\ LimitsKept /\ WholeOrTold /\ StreamFits
    BY DEF ContextInv
  <2>3. Types' /\ LateLast' /\ EndWithTrigger' /\ ListingFits' /\ GoneFits' /\ RowsFit' /\ LimitsKept'
    BY <2>1, <2>2 DEF Types, LateLast, EndWithTrigger, ListingFits, GoneFits, RowsFit, LimitsKept
  <2>4. WholeOrTold'
    <3>1. Told' = Told /\ First' = First /\ \A j : InFull(j) => InFull(j)'
      BY <2>1, InFullStays DEF Told, First
    <3> QED
      BY <2>1, <2>2, <3>1 DEF WholeOrTold
  <2>5. StreamFits'
    BY <2>1, <2>2, StreamStays DEF StreamFits
  <2> QED
    BY <2>3, <2>4, <2>5 DEF ContextInv
<1> QED
  BY <1>1, <1>2, <1>3, <1>4, <1>5, <1>6, <1>7, <1>8, <1>9, <1>10 DEF ContextNext

-----------------------------------------------------------------------------
(***************************************************************************)
(* What the invariant says of a snapshot.                                  *)
(***************************************************************************)
LEMMA StreamWhole == ContextInv => Reassembles
<1> SUFFICES ASSUME ContextInv, reading.phase = "ended", NEW f \in DOMAIN Files
             PROVE  \E first, last \in DOMAIN frames :
                      LET chunks == SubSeq(frames, first, last)
                      IN  /\ \A k \in DOMAIN frames : frames[k].file = f <=> k \in first..last
                          /\ Bytes(chunks) = Files[f].bytes
                          /\ \A k \in DOMAIN chunks :
                                /\ chunks[k].bytes \in 1..ChunkBytes
                                /\ chunks[k].offset = Bytes(SubSeq(chunks, 1, k - 1))
                                /\ chunks[k].final <=> k = Len(chunks)
  BY DEF Reassembles
<1>1. Types /\ StreamFits /\ Complete
  BY DEF ContextInv, StreamFits
<1>2. Len(Files) \in Nat /\ DOMAIN Files = 1..Len(Files)
  BY <1>1, FilesAre
<1>3. frames # <<>> /\ frames \in Seq(Frames)
  BY <1>1, <1>2 DEF Complete, Types
<1>4. /\ Len(frames) \in Nat /\ DOMAIN frames = 1..Len(frames) /\ Last(frames) = frames[Len(frames)]
      /\ Last(frames).final /\ Last(frames).file = Len(Files)
  BY <1>1, <1>3 DEF Complete, Last
<1>5. PICK first \in DOMAIN frames, last \in DOMAIN frames :
          /\ Run(f, first, last)
          /\ f < Last(frames).file => frames[last].final
          /\ f = Last(frames).file => last = Len(frames)
  BY <1>1, <1>2, <1>3, <1>4 DEF StreamFits
<1>6. frames[last].final
  <2>1. f < Len(Files) \/ f = Len(Files)
    BY <1>2
  <2> QED
    BY <1>4, <1>5, <2>1
<1>7. /\ first <= last
      /\ \A k \in DOMAIN frames : frames[k].file = f <=> k \in first..last
      /\ Bytes(SubSeq(frames, first, last)) = frames[last].offset + frames[last].bytes
      /\ \A k \in first..last :
            /\ frames[k].bytes \in 1..ChunkBytes
            /\ frames[k].offset = Bytes(SubSeq(frames, first, k - 1))
            /\ frames[k].final => k = last
  BY <1>5 DEF Run
<1>8. frames[last].offset + frames[last].bytes = Files[f].bytes
  <2>1. last \in first..last
    BY <1>4, <1>7
  <2>2. frames[last].file = f
    BY <1>7, <2>1
  <2>3. EndsWith(frames[last])
    BY <1>1 DEF StreamFits
  <2> QED
    BY <1>6, <2>2, <2>3 DEF EndsWith
<1>9. PICK chunks : chunks = SubSeq(frames, first, last)
  OBVIOUS
<1>10. PICK n : n = last - first + 1
  OBVIOUS
<1>11. /\ n \in Nat \ {0} /\ first \in Nat /\ last \in Nat /\ first + n - 1 = last
       /\ \A k \in 1..n : first + k - 1 \in first..last
       /\ \A k \in 1..n : first + k - 1 = last <=> k = n
  <2>1. first \in Nat /\ last \in Nat /\ first <= last
    BY <1>4, <1>7
  <2>2. n \in Nat \ {0} /\ first + n - 1 = last
    BY <1>10, <2>1
  <2>3. \A k \in 1..n : first + k - 1 \in first..last
    BY <2>1, <2>2
  <2>4. \A k \in 1..n : first + k - 1 = last <=> k = n
    BY <2>1, <2>2
  <2> QED
    BY <2>1, <2>2, <2>3, <2>4
<1>12. /\ Len(chunks) = n /\ DOMAIN chunks = 1..n /\ chunks \in Seq(Frames)
       /\ \A k \in 1..n : chunks[k] = frames[first + k - 1]
  <2>1. first \in 1..(Len(frames) + 1) /\ last \in (first - 1)..Len(frames)
    BY <1>4, <1>7
  <2>2. /\ Len(chunks) = n /\ chunks \in Seq(Frames)
        /\ \A k \in 1..n : chunks[k] = frames[first + k - 1]
    BY <1>3, <1>9, <1>10, <2>1, PartOf
  <2> QED
    BY <2>2
<1>13. ASSUME NEW k \in 1..n, NEW j \in first..last, j = first + k - 1
       PROVE  SubSeq(frames, first, j - 1) = SubSeq(chunks, 1, k - 1)
  <2>1. PICK b, c : b = j - 1 /\ c = k - 1
    OBVIOUS
  <2>2. /\ first \in 1..(Len(frames) + 1) /\ b \in (first - 1)..Len(frames)
        /\ c \in 0..Len(chunks) /\ b - first + 1 = c
    <3>1. /\ first \in Nat /\ first >= 1 /\ last \in Nat /\ first <= last
          /\ last <= Len(frames) /\ Len(frames) \in Nat /\ n \in Nat /\ k \in 1..n
          /\ first + n - 1 = last /\ j = first + k - 1
      BY <1>4, <1>7, <1>11, <1>13
    <3>2. first \in 1..(Len(frames) + 1) /\ b \in (first - 1)..Len(frames)
      BY SMTT(30), <2>1, <3>1
    <3>3. b - first + 1 = c
      <4>1. b = first + k - 2 /\ c = k - 1 /\ b \in Int /\ c \in Int /\ k \in Int
        BY <2>1, <3>1
      <4>2. \A x, y \in Int : (x + y - 2) - x + 1 = y - 1
        OBVIOUS
      <4>3. (first + k - 2) - first + 1 = k - 1
        <5>1. first \in Int /\ k \in Int
          BY <3>1
        <5> QED
          BY <4>2, <5>1, Zenon
      <4> QED
        BY <4>1, <4>3, Zenon
    <3>4. c \in 0..Len(chunks)
      <4>1. Len(chunks) = n
        BY <1>12
      <4> QED
        BY <2>1, <3>1, <4>1
    <3> QED
      BY <3>2, <3>3, <3>4
  <2>3. PICK p, q : p = SubSeq(frames, first, b) /\ q = SubSeq(chunks, 1, c)
    OBVIOUS
  <2>4. p \in Seq(Frames) /\ Len(p) = c /\ \A l \in 1..c : p[l] = frames[first + l - 1]
    BY <1>3, <2>2, <2>3, PartOf
  <2>5. q \in Seq(Frames) /\ Len(q) = c /\ \A l \in 1..c : q[l] = chunks[l]
    BY <1>12, <2>2, <2>3, PrefixOf
  <2>6. ASSUME NEW l \in 1..c PROVE p[l] = q[l]
    <3>1. l \in 1..n
      BY <1>11, <2>1
    <3> QED
      BY <1>12, <2>4, <2>5, <3>1
  <2>7. p = q
    BY <2>4, <2>5, <2>6, SeqEqual
  <2> QED
    BY <2>1, <2>3, <2>7
<1>14. ASSUME NEW k \in DOMAIN chunks
       PROVE  /\ chunks[k].bytes \in 1..ChunkBytes
              /\ chunks[k].offset = Bytes(SubSeq(chunks, 1, k - 1))
              /\ chunks[k].final <=> k = Len(chunks)
  <2>1. k \in 1..n
    BY <1>12
  <2>2. PICK j \in first..last : j = first + k - 1 /\ (j = last <=> k = n)
    BY <1>11, <2>1
  <2>3. chunks[k] = frames[j]
    BY <1>12, <2>1, <2>2
  <2>4. frames[j].bytes \in 1..ChunkBytes /\ frames[j].offset = Bytes(SubSeq(frames, first, j - 1))
    BY <1>7
  <2>5. SubSeq(frames, first, j - 1) = SubSeq(chunks, 1, k - 1)
    BY <1>13, <2>1, <2>2
  <2>6. frames[j].final <=> j = last
    BY <1>6, <1>7
  <2> QED
    BY <1>12, <2>2, <2>3, <2>4, <2>5, <2>6
<1>15. Bytes(chunks) = Files[f].bytes /\ \A k \in DOMAIN frames : frames[k].file = f <=> k \in first..last
  BY <1>7, <1>8, <1>9
<1> HIDE DEF Files
<1> QED
  BY <1>9, <1>14, <1>15

LEMMA SnapshotFits == ContextInv => SnapshotIsFaithful
<1> SUFFICES ASSUME ContextInv PROVE SnapshotIsFaithful
  OBVIOUS
<1>1. Types /\ EndWithTrigger /\ RowsFit /\ LimitsKept /\ WholeOrTold
  BY DEF ContextInv
<1>2. EndsAtTrigger
  <2>1. Len(carried) \in Nat /\ Len(reading.candidates) \in Nat /\ trigger \in Nat
    BY <1>1 DEF Types, Reading
  <2>2. Len(carried) <= MaxMessages + 1
    BY <1>1, <2>1, Numbers DEF RowsFit
  <2>3. Len(Images(carried)) <= MaxImages /\ Len(Videos(carried)) <= MaxVideos
    <3>1. Images(carried) \in Seq(KeptImages) /\ Videos(carried) \in Seq(KeptVideos)
      <4>1. [at |-> 0, text |-> 0, images |-> <<>>, videos |-> <<>>] \in Rows
        BY DEF Rows
      <4> QED
        BY <1>1, <4>1, FilesOfRows DEF Types
    <3>2. reading.images \in Nat /\ reading.videos \in Nat
      BY <1>1 DEF Types, Reading
    <3>3. Len(Images(carried)) \in Nat /\ Len(Videos(carried)) \in Nat
      BY <3>1
    <3>4. /\ Len(Images(carried)) <= reading.images /\ reading.images <= MaxImages
          /\ Len(Videos(carried)) <= reading.videos /\ reading.videos <= MaxVideos
      BY <1>1 DEF LimitsKept
    <3> QED
      BY <3>2, <3>3, <3>4, Numbers
  <2> QED
    BY <1>1, <2>2, <2>3 DEF EndsAtTrigger, RowsFit, LimitsKept
<1>3. LeftOutByScanOnly
  <2> SUFFICES ASSUME LeftOut, reading.scanned # MaxBoundaryScan PROVE FALSE
    BY DEF LeftOutByScanOnly
  <2>1. /\ reading.status \in {"found", "missing"} /\ ~Told
    BY DEF LeftOut, Told
  <2>2. reading.candidates = <<>> /\ \A i \in First..(trigger - 0) : i \notin recalled => InFull(i)
    BY <1>1, <2>1 DEF WholeOrTold
  <2>3. PICK i \in First..trigger : i \notin recalled /\ ~InFull(i)
    BY DEF LeftOut, First
  <2>4. trigger - 0 = trigger
    BY <1>1 DEF Types
  <2> QED
    BY <2>2, <2>3, <2>4
<1> QED
  BY <1>2, <1>3, StreamWhole DEF SnapshotIsFaithful

(***************************************************************************)
(* The snapshot holds what led to the trigger or says what is missing, and *)
(* a stream that ends has brought every file whole: pages and limits of    *)
(* sdkAttachedContextLookup, frames of GetAgentAttachedContext.            *)
(***************************************************************************)
THEOREM SnapshotFaithful == ContextSpec => []SnapshotIsFaithful
<1>1. ContextInit => ContextInv
  BY StartInv
<1>2. ContextInv /\ [ContextNext]_contextVars => ContextInv'
  BY ContextStep
<1>3. ContextInv => SnapshotIsFaithful
  BY SnapshotFits
<1> QED
  BY <1>1, <1>2, <1>3, PTL DEF ContextSpec

(* The types of a request: a frame is always of a file of the snapshot.    *)
THEOREM ContextTypes == ContextSpec => []ContextTypeOK
<1>1. ContextInit => ContextInv
  BY StartInv
<1>2. ContextInv /\ [ContextNext]_contextVars => ContextInv'
  BY ContextStep
<1>3. ContextInv => ContextTypeOK
  <2> SUFFICES ASSUME ContextInv PROVE ContextTypeOK
    OBVIOUS
  <2>1. Types /\ StreamFits
    BY DEF ContextInv
  <2>2. /\ reading.phase \in Phases /\ reading.status \in {"none", "found", "missing", "unreadable"}
        /\ {reading.text, reading.images, reading.videos, reading.scanned} \subseteq Nat
    BY <2>1 DEF Types, Reading
  <2>3. \A i \in DOMAIN frames : frames[i].file \in DOMAIN Files
    BY <2>1 DEF StreamFits, EndsWith
  <2> QED
    BY <2>1, <2>2, <2>3 DEF ContextTypeOK, Types, Phases
<1> QED
  BY <1>1, <1>2, <1>3, PTL DEF ContextSpec

=============================================================================
