--------------------------- MODULE AttachedContext ---------------------------
(***************************************************************************)
(* The snapshot of a topic that a provider asks for with a delivery        *)
(* (GetAgentAttachedContext).  The daemon lists the topic, newest message  *)
(* first and page by page, until it has found the message that triggered   *)
(* the delivery and collected the ones before it; it reads those oldest    *)
(* first, fetches their images and videos, and streams what fits.  People  *)
(* go on posting and recalling messages, and any request may fail.         *)
(***************************************************************************)
EXTENDS Naturals, FiniteSets, SequencesExt

CONSTANTS
    Topics,             \* topics there may be, oldest message first
    Additions,          \* messages people may add
    MaxTopic,           \* length of a topic
    PageSize,           \* messages of a page
    MaxBoundaryScan,    \* messages looked at
    MaxMessages,        \* messages before the trigger
    MaxTextBytes,
    MaxImages, MaxImageBytes, MaxTotalImageBytes,
    MaxVideos, MaxVideoBytes, MaxTotalVideoBytes, MaxVideoDuration,
    PlaceholderBytes,   \* text that stands for what cannot be carried
    ChunkBytes          \* of a frame

(* A file: how large it is, and whether the daemon knows its type, which   *)
(* it tells from the first bytes.  A video has a length too.  A message:   *)
(* its text, images and videos, and whether it is a video and nothing      *)
(* else, of a kind that cannot be carried, or garbled.  `late' is a later  *)
(* second than the trigger's.                                              *)
ImageFiles == {f \in [bytes : Nat, supported : BOOLEAN] : f.supported => f.bytes > 0}
VideoFiles == {f \in [bytes : Nat, supported : BOOLEAN, ms : Nat] : f.supported => f.bytes > 0}
TopicMessages == [text : Nat, images : Seq(ImageFiles), videos : Seq(VideoFiles),
                  alone : BOOLEAN, other : BOOLEAN, garbled : BOOLEAN, late : BOOLEAN]

ASSUME AttachedContextAssumption ==
    /\ {PageSize, MaxBoundaryScan, MaxMessages, ChunkBytes} \subseteq Nat \ {0}
    /\ PlaceholderBytes \in Nat \ {0}
    /\ {MaxTextBytes, MaxImages, MaxImageBytes, MaxTotalImageBytes, MaxVideos, MaxVideoBytes,
        MaxTotalVideoBytes, MaxVideoDuration, MaxTopic} \subseteq Nat
    /\ Additions \subseteq TopicMessages
    /\ \A t \in Topics :
          /\ t \in Seq(TopicMessages)
          /\ \A i, j \in DOMAIN t : i < j /\ t[i].late => t[j].late

VARIABLES
    topic,      \* the messages
    recalled,   \* positions of those taken back
    trigger,    \* position of the trigger
    reading,    \* what the request has done so far
    carried,    \* the messages of the snapshot
    frames      \* what the stream has sent

contextVars == <<topic, recalled, trigger, reading, carried, frames>>

Requested ==
    [phase |-> "idle", thread |-> TRUE, video |-> FALSE, known |-> FALSE, next |-> 0, scanned |-> 0,
     candidates |-> <<>>, gone |-> {}, atStart |-> {}, issues |-> {}, truncated |-> FALSE,
     unreadable |-> FALSE, status |-> "none", text |-> 0, images |-> 0, videos |-> 0]

Images(messages) == FlattenSeq([i \in DOMAIN messages |-> messages[i].images])
Videos(messages) == FlattenSeq([i \in DOMAIN messages |-> messages[i].videos])

Bytes(files)   == FoldLeft(LAMBDA n, f : n + f.bytes, 0, files)

ContextInit ==
    /\ topic \in Topics
    /\ trigger \in DOMAIN topic
    /\ \A i \in DOMAIN topic : topic[i].late => i > trigger
    /\ recalled = {}
    /\ reading = Requested
    /\ carried = <<>> /\ frames = <<>>

-----------------------------------------------------------------------------
(* People, whatever the daemon does.                                       *)
Post ==
    /\ Len(topic) < MaxTopic /\ reading.phase \in {"idle", "listing"}
    /\ \E m \in Additions :
          /\ topic[Len(topic)].late => m.late
          /\ topic' = Append(topic, m)
    /\ UNCHANGED <<recalled, trigger, reading, carried, frames>>

Recall ==
    /\ reading.phase \in {"idle", "listing"}
    /\ \E i \in DOMAIN topic \ recalled : recalled' = recalled \cup {i}
    /\ UNCHANGED <<topic, trigger, reading, carried, frames>>

(* The request, for a delivery in a thread: with the grant for videos or   *)
(* not, and with the time of the trigger or without.                       *)
Ask ==
    /\ reading.phase = "idle"
    /\ \E video, known \in BOOLEAN :
          reading' = [reading EXCEPT !.phase = "listing", !.video = video, !.known = known,
                                     !.atStart = recalled]
    /\ UNCHANGED <<topic, recalled, trigger, carried, frames>>

(* No thread: lookupTriggerOnly gets the trigger.                          *)
AskTrigger ==
    /\ reading.phase = "idle"
    /\ \E video \in BOOLEAN :
          \/ reading' = [reading EXCEPT !.phase = "assembling", !.thread = FALSE, !.video = video,
                            !.candidates = <<trigger>>, !.gone = recalled, !.atStart = recalled]
          \/ reading' = [reading EXCEPT !.phase = "header", !.status = "unreadable",
                            !.issues = {"history_unreadable"}]
    /\ UNCHANGED <<topic, recalled, trigger, carried, frames>>

-----------------------------------------------------------------------------
(* The page starts where the last one ended; the first one at the newest   *)
(* message, of the second of the trigger if that is known.                 *)
PageStart ==
    IF reading.scanned > 0 THEN reading.next
    ELSE CHOOSE i \in DOMAIN topic :
            /\ reading.known => ~topic[i].late
            /\ \A j \in DOMAIN topic : j > i => reading.known /\ topic[j].late

(* Positions of the page that are looked at, and of those before the       *)
(* trigger the ones that still fit.                                        *)
Smaller(a, b) == IF a < b THEN a ELSE b

PageLength == Smaller(PageSize, PageStart)
Looked     == Smaller(PageLength, MaxBoundaryScan - reading.scanned)

Found == \/ trigger \in ToSet(reading.candidates)
         \/ PageStart - Looked < trigger /\ trigger <= PageStart

Earlier == {i \in 1..PageStart : i > PageStart - Looked /\ i < trigger /\ Found}
Room    == MaxMessages - Cardinality(ToSet(reading.candidates) \ {trigger})
Taken   == {i \in Earlier : Cardinality({j \in Earlier : j > i}) < Room}
HasMore == PageStart > PageLength

(* Mutation of LimitReached: what is left of the page does not count.      *)
OnlyMorePages == Cardinality(Taken) = Room /\ HasMore

(* The last message that fits, and there are others.                       *)
LimitReached ==
    /\ Cardinality(Taken) = Room
    /\ HasMore \/ \E i \in 1..PageStart : i > PageStart - PageLength /\ i \notin Taken /\ i < trigger

(* Oldest first, as they will be read.                                     *)
OldestFirst(page) ==
    [k \in 1..Cardinality(page) |-> CHOOSE i \in page : Cardinality({j \in page : j < i}) = k - 1]

Collected ==
    LET page == Taken \cup (IF trigger \in ToSet(reading.candidates) \/ ~Found
                            THEN {} ELSE {trigger})
    IN  OldestFirst(page) \o reading.candidates

(* Without the trigger there is no snapshot.                               *)
Listed(candidates, issues, truncated, unreadable) ==
    reading' =
        [reading EXCEPT
            !.candidates = candidates, !.gone = @ \cup (recalled \ ToSet(reading.candidates)),
            !.issues = @ \cup issues \cup
                       (IF trigger \in ToSet(candidates) THEN {} ELSE {"boundary_not_found"}),
            !.truncated = truncated, !.unreadable = unreadable,
            !.scanned = @ + Looked,
            !.phase = IF trigger \in ToSet(candidates) THEN "assembling" ELSE "header",
            !.status = IF trigger \in ToSet(candidates) THEN @ ELSE "unreadable"]

(* One page.  The scan limit is noticed before the next page only.         *)
ListPage ==
    /\ reading.phase = "listing"
    /\ IF LimitReached
       THEN Listed(Collected, {"message_limit"}, TRUE, FALSE)
       ELSE IF ~HasMore THEN Listed(Collected, {}, FALSE, FALSE)
       ELSE IF reading.scanned + Looked >= MaxBoundaryScan
       THEN Listed(Collected, {"boundary_scan_limit"}, TRUE, TRUE)
       ELSE reading' = [reading EXCEPT !.candidates = Collected, !.gone = @ \cup
                                          (recalled \ ToSet(reading.candidates)),
                                       !.scanned = @ + Looked, !.next = PageStart - Looked]
    /\ UNCHANGED <<topic, recalled, trigger, carried, frames>>

(* The request fails, or has more pages and no token for them.             *)
ListFails ==
    /\ reading.phase = "listing"
    /\ \/ Listed(reading.candidates, {"history_unreadable"}, FALSE, TRUE)
       \/ HasMore /\ ~LimitReached /\ Listed(Collected, {"history_unreadable"}, FALSE, TRUE)
    /\ UNCHANGED <<topic, recalled, trigger, carried, frames>>

-----------------------------------------------------------------------------
(* parseAttachedMessage.  A video alone leaves no text if it is carried; a *)
(* video in a text keeps its place either way; the words of the trigger    *)
(* are in the prompt of the delivery already.                              *)
TextOf(m, isTrigger) ==
    IF isTrigger \/ m.garbled THEN 0
    ELSE IF m.other THEN PlaceholderBytes
    ELSE IF m.alone /\ reading.video THEN 0
    ELSE m.text + PlaceholderBytes * Len(m.videos)

ImagesOf(m) == IF m.garbled THEN <<>> ELSE m.images
VideosOf(m) == IF m.garbled \/ ~reading.video THEN <<>> ELSE m.videos

ParseIssues(m) ==
    IF m.garbled THEN {"malformed_message"}
    ELSE IF m.other THEN {"unsupported_message"}
    ELSE IF ~reading.video /\ m.videos # <<>> THEN {"video_omitted"} ELSE {}

(* downloadImage and the limits around it: the issue, or "none".           *)
ImageIssue(image, got, tried, total) ==
    IF tried >= MaxImages THEN "image_limit"
    ELSE IF ~got THEN "image_unreadable"
    ELSE IF image.bytes > MaxImageBytes THEN "image_too_large"
    ELSE IF ~image.supported THEN "image_type"
    ELSE IF total + image.bytes > MaxTotalImageBytes THEN "total_image_limit"
    ELSE "none"

VideoIssue(video, got, tried, total) ==
    IF tried >= MaxVideos THEN "video_limit"
    ELSE IF video.ms > MaxVideoDuration THEN "video_too_long"
    ELSE IF ~got THEN "video_unreadable"
    ELSE IF video.bytes > MaxVideoBytes THEN "video_too_large"
    ELSE IF ~video.supported THEN "video_type"
    ELSE IF total + video.bytes > MaxTotalVideoBytes THEN "video_limit"
    ELSE "none"

Issue(kind, file, got, tried, total) ==
    IF kind = "image" THEN ImageIssue(file, got, tried, total) ELSE VideoIssue(file, got, tried, total)

MaxTried(kind) == IF kind = "image" THEN MaxImages ELSE MaxVideos

Limits == {"image_limit", "image_too_large", "total_image_limit",
           "video_limit", "video_too_long", "video_too_large", "text_limit"}

(* The files of a message one by one: those kept, how many were tried so   *)
(* far, and the issues.                                                    *)
Fetched(kind, files, got, tried, before) ==
    FoldLeftDomain(
        LAMBDA acc, i :
            LET issue == Issue(kind, files[i], got[i], acc.tried, Bytes(before) + Bytes(acc.kept))
            IN  [kept   |-> IF issue = "none" THEN Append(acc.kept, files[i]) ELSE acc.kept,
                 tried  |-> IF acc.tried >= MaxTried(kind) THEN acc.tried ELSE acc.tried + 1,
                 issues |-> acc.issues \cup ({issue} \ {"none"})],
        [kept |-> <<>>, tried |-> tried, issues |-> {}], files)

TextKept(text) == Smaller(text, MaxTextBytes - reading.text)

(* The next candidate, the oldest left; a recalled message is skipped.     *)
Assemble ==
    /\ reading.phase = "assembling" /\ reading.candidates # <<>>
    /\ LET i    == Head(reading.candidates)
           m    == topic[i]
           text == TextOf(m, i = trigger)
           kept == TextKept(text)
       IN  IF i \in reading.gone /\ i # trigger
           THEN /\ reading' = [reading EXCEPT !.candidates = Tail(@)]
                /\ UNCHANGED carried
           ELSE \E got \in [DOMAIN ImagesOf(m) -> BOOLEAN], seen \in [DOMAIN VideosOf(m) -> BOOLEAN] :
                LET images == Fetched("image", ImagesOf(m), got, reading.images, Images(carried))
                    videos == Fetched("video", VideosOf(m), seen, reading.videos, Videos(carried))
                    issues == ParseIssues(m) \cup images.issues \cup videos.issues
                              \cup (IF kept < text THEN {"text_limit"} ELSE {})
                    shown  == IF kept = 0 /\ videos.issues # {} THEN PlaceholderBytes ELSE kept
                IN  /\ reading' =
                         [reading EXCEPT
                             !.candidates = Tail(@), !.issues = @ \cup issues,
                             !.truncated = @ \/ issues \cap Limits # {},
                             !.unreadable = @ \/ m.garbled \/ "image_unreadable" \in issues,
                             !.text = @ + kept, !.images = images.tried, !.videos = videos.tried]
                    /\ carried' =
                         IF shown = 0 /\ images.kept = <<>> /\ videos.kept = <<>> THEN carried
                         ELSE Append(carried, [at |-> i, text |-> shown,
                                               images |-> images.kept, videos |-> videos.kept])
    /\ UNCHANGED <<topic, recalled, trigger, frames>>

Conclude ==
    /\ reading.phase = "assembling" /\ reading.candidates = <<>>
    /\ reading' = [reading EXCEPT
                      !.phase = "header",
                      !.status = IF carried # <<>> THEN "found"
                                 ELSE IF reading.unreadable THEN "unreadable" ELSE "missing"]
    /\ UNCHANGED <<topic, recalled, trigger, carried, frames>>

-----------------------------------------------------------------------------
(* The stream: a header that describes the files, then the files, images   *)
(* first, in frames of ChunkBytes.                                         *)
Files == Images(carried) \o Videos(carried)

Header ==
    /\ reading.phase = "header"
    /\ reading' = [reading EXCEPT !.phase = "streaming"]
    /\ UNCHANGED <<topic, recalled, trigger, carried, frames>>

NextFrame(file, offset) ==
    LET end == Smaller(offset + ChunkBytes, Files[file].bytes)
    IN  [file |-> file, offset |-> offset, bytes |-> end - offset,
         final |-> end = Files[file].bytes]

Complete ==
    IF frames = <<>> THEN Files = <<>>
    ELSE Last(frames).final /\ Last(frames).file = Len(Files)

(* Mutation of Following: an empty frame after a full one.                 *)
FullFramesFirst ==
    IF frames # <<>> /\ Last(frames).bytes = ChunkBytes
    THEN NextFrame(Last(frames).file, Last(frames).offset + ChunkBytes)
    ELSE NextFrame(IF frames = <<>> THEN 1 ELSE Last(frames).file + 1, 0)

Following ==
    IF frames = <<>> THEN NextFrame(1, 0)
    ELSE IF Last(frames).final THEN NextFrame(Last(frames).file + 1, 0)
    ELSE NextFrame(Last(frames).file, Last(frames).offset + ChunkBytes)

SendChunk ==
    /\ reading.phase = "streaming" /\ ~Complete
    /\ frames' = Append(frames, Following)
    /\ UNCHANGED <<topic, recalled, trigger, reading, carried>>

(* The stream ends, or breaks before it does.                              *)
EndStream ==
    /\ reading.phase \in {"header", "streaming"}
    /\ reading' = [reading EXCEPT
                      !.phase = IF reading.phase = "streaming" /\ Complete THEN "ended" ELSE "broken"]
    /\ UNCHANGED <<topic, recalled, trigger, carried, frames>>

ContextNext ==
    \/ Post \/ Recall \/ Ask \/ AskTrigger
    \/ ListPage \/ ListFails \/ Assemble \/ Conclude
    \/ Header \/ SendChunk \/ EndStream

ContextSpec == ContextInit /\ [][ContextNext]_contextVars

-----------------------------------------------------------------------------
ContextTypeOK ==
    /\ recalled \subseteq DOMAIN topic /\ trigger \in DOMAIN topic
    /\ reading.phase \in {"idle", "listing", "assembling", "header", "streaming", "ended", "broken"}
    /\ reading.status \in {"none", "found", "missing", "unreadable"}
    /\ {reading.text, reading.images, reading.videos, reading.scanned} \subseteq Nat
    /\ \A i \in DOMAIN frames : frames[i].file \in DOMAIN Files

(* Nothing but what led to the trigger, in the order it was written, and   *)
(* within the limits: no message after the trigger, none that had been     *)
(* recalled when it was asked for, no video without the grant.             *)
EndsAtTrigger ==
    /\ \A k, l \in DOMAIN carried : k < l => carried[k].at < carried[l].at
    /\ \A k \in DOMAIN carried :
          /\ carried[k].at <= trigger
          /\ carried[k].at \in reading.atStart => carried[k].at = trigger
          /\ carried[k].videos # <<>> => reading.video
    /\ Len(carried) <= MaxMessages + 1
    /\ Len(Images(carried)) <= MaxImages /\ Bytes(Images(carried)) <= MaxTotalImageBytes
    /\ Len(Videos(carried)) <= MaxVideos /\ Bytes(Videos(carried)) <= MaxTotalVideoBytes
    /\ reading.text <= MaxTextBytes

InFull(i) ==
    LET m == topic[i]
        whole == [at |-> i, text |-> TextOf(m, i = trigger), images |-> ImagesOf(m),
                  videos |-> VideosOf(m)]
    IN  \/ whole.text = 0 /\ whole.images = <<>> /\ whole.videos = <<>>
        \/ whole \in ToSet(carried)

(* A message before the trigger, or the files of the trigger, are missing  *)
(* or cut and nothing says so.                                             *)
LeftOut ==
    /\ reading.status \in {"found", "missing"}
    /\ ~reading.truncated /\ reading.issues = {}
    /\ \E i \in (IF reading.thread THEN 1 ELSE trigger)..trigger : i \notin recalled /\ ~InFull(i)

(* docs/agent.md:339-340: "Every limit and every partial image/message     *)
(* failure produces a typed issue".  The scan limit may pass unnoticed:    *)
(* see LimitsSaySo.                                                        *)
LeftOutByScanOnly == LeftOut => reading.scanned = MaxBoundaryScan

(* A stream that ends has brought every file whole, its frames one after   *)
(* the other and in order.                                                 *)
Reassembles ==
    reading.phase = "ended" =>
        \A f \in DOMAIN Files : \E first, last \in DOMAIN frames :
            LET chunks == SubSeq(frames, first, last)
            IN  /\ \A k \in DOMAIN frames : frames[k].file = f <=> k \in first..last
                /\ Bytes(chunks) = Files[f].bytes
                /\ \A k \in DOMAIN chunks :
                      /\ chunks[k].bytes \in 1..ChunkBytes
                      /\ chunks[k].offset = Bytes(SubSeq(chunks, 1, k - 1))
                      /\ chunks[k].final <=> k = Len(chunks)

(* The snapshot is what the topic held, from the trigger back, or it says  *)
(* what is missing: whatever is posted, recalled or fails while a request  *)
(* of sdkAttachedContextLookup lists and fetches, and the stream of        *)
(* GetAgentAttachedContext delivers it.                                    *)
SnapshotIsFaithful == EndsAtTrigger /\ LeftOutByScanOnly /\ Reassembles

(* docs/agent.md:339-340, as it says: no exception for the scan limit.     *)
LimitsSaySo == ~LeftOut

=============================================================================
