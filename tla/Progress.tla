------------------------------- MODULE Progress -------------------------------
(***************************************************************************)
(* What goes on around a card: the progress of the agent's steps, a CoT    *)
(* message above the card, and the reactions on the message it answers --  *)
(* one while the agent works, and those the agent asks for.                *)
(*                                                                         *)
(* The calls to Feishu are best effort: what fails is logged and not done  *)
(* again.  They are made under the lock of the delivery or the response,   *)
(* so handlers do not overlap; but a request whose caller gave up may      *)
(* reach Feishu later.  What the handlers do to the card and the receipts  *)
(* is the subject of AgentStart and AgentResponse: here a Start has sent   *)
(* its card or has not, and an update or a finish has committed.           *)
(***************************************************************************)
EXTENDS Naturals, FiniteSets, SequencesExt

CONSTANTS
    StepCount,      \* steps an agent reports, in this order
    ReactionOps,    \* operation ids of reactions the agent asks for
    Emojis,
    MaxStarts,      \* bound: attempts at the Start
    MaxUpdates,     \* bound: updates of the response
    MaxUnderway     \* bound: requests given up that are still under way

ASSUME ProgressAssumption ==
    /\ {StepCount, MaxStarts, MaxUpdates, MaxUnderway} \subseteq Nat
    /\ "none" \notin Emojis       \* AddAgentReaction asks for one: see NoEmoji

VARIABLES
    period,     \* "delivered", "streaming", "done" or "error"
    origin,     \* is there a message the delivery came from?
    starts,     \* attempts at the Start
    updates,    \* updates committed
    cot,        \* agentCoTState: [id, steps]; no id, no CoT
    streams,    \* at Feishu: the CoT messages, [events, state]
    underway,   \* requests given up that may still reach Feishu
    missed,     \* history: events of the present CoT that were not confirmed
    worn,       \* the working reaction: is it shown, is its id known?
    chosen,     \* freeformReactions: operation -> emoji
    shown,      \* at Feishu: <<operation, emoji>>
    doubted     \* history: reaction calls that did not succeed

progressVars == <<period, origin, starts, updates, cot, streams, underway, missed,
                  worn, chosen, shown, doubted>>

StepIds == 1..StepCount
Unseen  == [s \in StepIds |-> "unseen"]
NoCoT   == [id |-> 0, steps |-> Unseen]
NoEmoji == "none"
Working == "working"

(* A snapshot has some of the steps, each of them running or finished.     *)
Snapshots == [StepIds -> {"unseen", "started", "finished"}]

(* A call succeeds, fails, or leaves its caller in doubt.                  *)
Outcomes == {"ok", "failed", "doubt"}

Event(kind, s) == [kind |-> kind, step |-> s]
RunStarted     == Event("runStarted", 0)
RunFinished    == Event("runFinished", 0)

ProgressInit ==
    /\ period = "delivered" /\ origin \in BOOLEAN
    /\ starts = 0 /\ updates = 0
    /\ cot = NoCoT
    /\ streams = <<>> /\ underway = {} /\ missed = {}
    /\ worn = [shown |-> FALSE, known |-> FALSE]
    /\ chosen = [op \in ReactionOps |-> NoEmoji]
    /\ shown = {} /\ doubted = {}

-----------------------------------------------------------------------------
(* agentCoTStepEvents.  A step that is new starts, also if it has finished *)
(* already; none goes back.                                                *)
Moved(steps, snapshot) ==
    [s \in StepIds |-> IF snapshot[s] = "unseen" \/ steps[s] = "finished"
                       THEN steps[s] ELSE snapshot[s]]

StepEvents(steps, snapshot) ==
    LET moved == Moved(steps, snapshot)
        Started(s)  == steps[s] = "unseen" /\ moved[s] # "unseen"
        Finished(s) == steps[s] # "finished" /\ moved[s] = "finished"
    IN  FlattenSeq([s \in StepIds |->
            (IF Started(s) THEN <<Event("started", s)>> ELSE <<>>)
            \o (IF Finished(s) THEN <<Event("finished", s)>> ELSE <<>>)])

(* Mutation of Bookkept: the steps move once Feishu has confirmed them.    *)
BookkeptIfSent(steps, snapshot, outcome) ==
    IF outcome = "ok" THEN Moved(steps, snapshot) ELSE steps

(* Whether the events arrive or not: they are not sent again.              *)
Bookkept(steps, snapshot, outcome) == Moved(steps, snapshot)

(* A CoT message as a request, an append or a completion, leaves it.       *)
Taken(all, request) ==
    IF all[request.id].state # "open" THEN all
    ELSE [all EXCEPT ![request.id] = [events |-> @.events \o request.events,
                                      state |-> request.state]]

(* A request, after those before it: what Feishu has, what may still come. *)
Sent(side, request, outcome) ==
    IF request.events = <<>> /\ request.state = "open" THEN side
    ELSE [streams  |-> IF outcome = "ok" THEN Taken(side.streams, request) ELSE side.streams,
          underway |-> side.underway \cup (IF outcome = "doubt" THEN {request} ELSE {}),
          missed   |-> side.missed \cup (IF outcome = "ok" THEN {} ELSE ToSet(request.events))]

Appending(id, events) == [id |-> id, events |-> events, state |-> "open"]

Becomes(side) ==
    /\ Cardinality(side.underway) <= MaxUnderway
    /\ streams' = side.streams /\ underway' = side.underway /\ missed' = side.missed

Present == [streams |-> streams, underway |-> underway, missed |-> missed]

(* A request that was given up reaches Feishu after all.                   *)
LateRequest ==
    /\ \E request \in underway :
          /\ streams' = Taken(streams, request)
          /\ underway' = underway \ {request}
    /\ UNCHANGED <<period, origin, starts, updates, cot, missed, worn, chosen, shown, doubted>>

-----------------------------------------------------------------------------
(* createAgentCoT, by a Start: before the card, bound to the message the   *)
(* delivery came from, open with the steps known so far.  A Start that     *)
(* does not get its card into the chat forgets it.                         *)
CreateCoT(snapshot, created, appended) ==
    LET id     == Len(streams) + 1
        opened == [streams  |-> Append(streams, [events |-> <<>>, state |-> "open"]),
                   underway |-> underway,
                   missed   |-> {}]
        events == <<RunStarted>> \o StepEvents(Unseen, snapshot)
    IN  CASE ~origin \/ created = "failed" ->
                cot' = NoCoT /\ Becomes([Present EXCEPT !.missed = {}])
          [] origin /\ created = "doubt" -> cot' = NoCoT /\ Becomes(opened)
          [] OTHER ->
                /\ cot' = [id |-> id, steps |-> Bookkept(Unseen, snapshot, appended)]
                /\ Becomes(Sent(opened, Appending(id, events), appended))

Start(to) ==
    /\ period = "delivered" /\ starts < MaxStarts
    /\ starts' = starts + 1 /\ period' = to
    /\ \E snapshot \in Snapshots, created, appended \in Outcomes :
          CreateCoT(snapshot, created, appended)
    /\ UNCHANGED <<origin, updates, chosen, shown>>

StartFails == Start("delivered") /\ UNCHANGED <<worn, doubted>>

(* What becomes of the working reaction: without an answer nobody knows    *)
(* its id; one that could not be taken off keeps its own.                  *)
Added(outcome) ==
    IF outcome = "doubt" THEN [shown : BOOLEAN, known : {FALSE}]
    ELSE {[shown |-> outcome = "ok", known |-> outcome = "ok"]}

Removed(outcome) ==
    CASE outcome = "ok" -> {[shown |-> FALSE, known |-> FALSE]}
      [] outcome = "failed" -> {worn}
      [] outcome = "doubt" -> [shown : BOOLEAN, known : {TRUE}]

(* With the card in the chat, the working reaction: if the provider has    *)
(* one, and there is a message to put it on.                               *)
StartSucceeds ==
    /\ Start("streaming")
    /\ \E reacted \in Outcomes :
          /\ origin \/ reacted = "failed"
          /\ worn' \in Added(reacted)
          /\ doubted' = IF reacted = "doubt" THEN doubted \cup {Working} ELSE doubted

(* advanceAgentCoT, once the card has what it describes: a CoT that Start  *)
(* did not get stays away for good.                                        *)
Advanced(snapshot, appended) ==
    IF cot.id = 0 THEN Present
    ELSE Sent(Present, Appending(cot.id, StepEvents(cot.steps, snapshot)), appended)

Counted(snapshot, appended) ==
    IF cot.id = 0 THEN cot ELSE [cot EXCEPT !.steps = Bookkept(@, snapshot, appended)]

Update ==
    /\ period = "streaming" /\ updates < MaxUpdates
    /\ updates' = updates + 1
    /\ \E snapshot \in Snapshots, appended \in Outcomes :
          cot' = Counted(snapshot, appended) /\ Becomes(Advanced(snapshot, appended))
    /\ UNCHANGED <<period, origin, starts, worn, chosen, shown, doubted>>

(* Mutation of Concluded: the CoT is completed, and then the run.          *)
CompletedFirst(side, outcome, appended, completed) ==
    LET closing == [id |-> cot.id, events |-> <<>>, state |-> outcome]
    IN  IF cot.id = 0 THEN side
        ELSE Sent(Sent(side, closing, completed), Appending(cot.id, <<RunFinished>>), appended)

(* finishAgentCoT: the run ends, and then the CoT with the outcome.        *)
Concluded(side, outcome, appended, completed) ==
    LET closing == [id |-> cot.id, events |-> <<>>, state |-> outcome]
    IN  IF cot.id = 0 THEN side
        ELSE Sent(Sent(side, Appending(cot.id, <<RunFinished>>), appended), closing, completed)

(* The working reaction goes, if its id is known; if that fails it stays.  *)
TakeOff(removed) ==
    /\ worn' \in IF worn.known THEN Removed(removed) ELSE {worn}
    /\ doubted' = IF worn.known /\ removed # "ok" THEN doubted \cup {Working} ELSE doubted

Finish ==
    /\ period = "streaming"
    /\ \E outcome \in {"done", "error"}, snapshot \in Snapshots,
          advanced, appended, completed \in Outcomes :
          /\ period' = outcome
          /\ cot' = Counted(snapshot, advanced)
          /\ Becomes(Concluded(Advanced(snapshot, advanced), outcome, appended, completed))
    /\ \E removed \in Outcomes : TakeOff(removed)
    /\ UNCHANGED <<origin, starts, updates, chosen, shown>>

(* AddAgentReaction, also when the response is finished.  Only a success   *)
(* is recorded; the record makes a duplicate or a conflict of the next.    *)
React(op, emoji, outcome) ==
    /\ period # "delivered" /\ origin
    /\ chosen[op] = NoEmoji
    /\ chosen' = IF outcome = "ok" THEN [chosen EXCEPT ![op] = emoji] ELSE chosen
    /\ shown' \in {shown \cup {<<op, emoji>>}} \cup (IF outcome = "doubt" THEN {shown} ELSE {})
    /\ doubted' = IF outcome = "doubt" THEN doubted \cup {op} ELSE doubted
    /\ UNCHANGED <<period, origin, starts, updates, cot, streams, underway, missed, worn>>

ProgressNext ==
    \/ LateRequest
    \/ StartFails \/ StartSucceeds \/ Update \/ Finish
    \/ \E op \in ReactionOps, emoji \in Emojis, outcome \in {"ok", "doubt"} :
          React(op, emoji, outcome)

ProgressSpec == ProgressInit /\ [][ProgressNext]_progressVars

-----------------------------------------------------------------------------
CoTEvents == {RunStarted, RunFinished}
             \cup {Event(kind, s) : kind \in {"started", "finished"}, s \in StepIds}

ProgressTypeOK ==
    /\ period \in {"delivered", "streaming", "done", "error"}
    /\ starts \in 0..MaxStarts /\ updates \in 0..MaxUpdates
    /\ cot.id \in 0..Len(streams) /\ cot.steps \in Snapshots
    /\ \A id \in DOMAIN streams : /\ ToSet(streams[id].events) \subseteq CoTEvents
                                  /\ streams[id].state \in {"open", "done", "error"}
    /\ Cardinality(underway) <= MaxUnderway
    /\ missed \subseteq CoTEvents
    /\ chosen \in [ReactionOps -> Emojis \cup {NoEmoji}]
    /\ shown \subseteq ReactionOps \X Emojis
    /\ doubted \subseteq ReactionOps \cup {Working}

(* What the CoT message of the response must have got.                     *)
Due == {RunStarted} \cup (IF period \in {"done", "error"} THEN {RunFinished} ELSE {})
       \cup {Event("started", s) : s \in {t \in StepIds : cot.steps[t] # "unseen"}}
       \cup {Event("finished", s) : s \in {t \in StepIds : cot.steps[t] = "finished"}}

InOrder(events) ==
    /\ events[1] = RunStarted
    /\ RunFinished \in ToSet(events) => Last(events) = RunFinished
    /\ \A i, j \in DOMAIN events :
          events[i].kind = "finished" /\ events[j] = Event("started", events[i].step) => j < i

(* A CoT message never repeats an event, whatever was lost, came late or   *)
(* was reported again; it gets every event it is due that is not lost, in  *)
(* order unless one was, and ends with the outcome of the response.  The   *)
(* working reaction is there while the agent works, and after it only if a *)
(* call failed; what the agent chose for an operation stays, once.         *)
ProgressIsFaithful ==
    /\ \A id \in DOMAIN streams : /\ IsInjective(streams[id].events)
                                  /\ streams[id].state \in {"open", period}
    /\ cot.id # 0 =>
          LET events == streams[cot.id].events
          IN  /\ ToSet(events) \cup missed = Due
              /\ missed = {} => InOrder(events)
    /\ worn.known /\ period = "streaming" => worn.shown
    /\ worn.shown /\ period # "streaming" => Working \in doubted
    /\ \A op \in ReactionOps \ doubted :
          {e \in Emojis : <<op, e>> \in shown} = {chosen[op]} \ {NoEmoji}

=============================================================================
