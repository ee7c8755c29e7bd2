------------------------- MODULE AgentResponseProofs -------------------------
(***************************************************************************)
(* Theorems about AgentResponse for every set of operation ids, requests   *)
(* and texts.                                                              *)
(***************************************************************************)
EXTENDS AgentResponse, SequenceTheorems, TLAPS

USE ResponseAssumption

(* A plan is a list of stages, whatever the request and the snapshot.      *)
LEMMA PlanType ==
    ASSUME NEW req \in RequestSpace
    PROVE  Plan(req) \in Seq(Stages)
<1>1. \A b \in BOOLEAN, st \in Stages : Planned(b, st) \in Seq(Stages)
  BY DEF Planned
<1>2. TimelineCalls(req) \in Seq(Stages)
  BY <1>1, ConcatProperties DEF TimelineCalls, Stages, Changes
<1>3. <<"content">> \in Seq(Stages) /\ <<"settings">> \in Seq(Stages)
      /\ <<"panel", "settings">> \in Seq(Stages)
  BY DEF Stages
<1>4. CASE req.kind = "update"
  BY <1>2, <1>3, <1>4, ConcatProperties DEF Plan
<1>5. CASE req.kind = "finish"
  <2>1. Planned(req.markdown # snapshot.markdown, "content") \in Seq(Stages)
    BY <1>1 DEF Stages
  <2> QED
    BY <1>2, <1>3, <1>5, <2>1, ConcatProperties DEF Plan
<1>6. CASE req.kind = "replace"
  BY <1>3, <1>6 DEF Plan
<1> QED
  BY <1>4, <1>5, <1>6 DEF RequestSpace, Kinds

(* A text laid over a part of the card is a part again.                    *)
LEMMA OverlayType ==
    ASSUME NEW text \in Parts, NEW shown \in Parts
    PROVE  Overlay(text, shown) \in Parts
BY DEF Overlay

(* The call an operation is at, while it is still making calls.            *)
LEMMA CurrentCallType ==
    ASSUME TypeOK, PendingIsCurrent, NEW o \in OperationIds, Calling(o)
    PROVE  /\ pendingOp = o /\ Pending
           /\ operations[o].request \in Requests
           /\ operations[o].done + 1 \in 1 .. Len(operations[o].calls)
           /\ CurrentCall(o) \in CallSpace
<1>1. pendingOp = o /\ Pending
  BY DEF Calling, PendingIsCurrent, Pending
<1>2. operations[o] \in OperationSpace
  BY DEF TypeOK
<1>3. /\ operations[o].request \in Requests
      /\ operations[o].kind = operations[o].request.kind
      /\ operations[o].done <= Len(operations[o].calls)
  BY <1>1 DEF PendingIsCurrent
<1>4. operations[o].done + 1 \in 1 .. Len(operations[o].calls)
  <2>1. operations[o].done \in Nat /\ operations[o].calls \in Seq(Stages)
    BY <1>2 DEF OperationSpace
  <2>2. Len(operations[o].calls) \in Nat
    BY <2>1
  <2> QED
    BY <1>3, <2>1, <2>2 DEF Calling, Finished
<1>5. operations[o].calls[operations[o].done + 1] \in Stages
  BY <1>2, <1>4 DEF OperationSpace
<1>6. operations[o].base + operations[o].done + 1 \in Nat
  BY <1>2 DEF OperationSpace
<1>7. operations[o].request.kind \in Kinds
  BY <1>3 DEF RequestSpace
<1> QED
  BY <1>1, <1>3, <1>4, <1>5, <1>6, <1>7 DEF CurrentCall, CallSpace

(* What a call leaves on the card and in the snapshot has their types.     *)
LEMMA WriteType ==
    ASSUME TypeOK, NEW call \in CallSpace
    PROVE  /\ [Write(card, call) EXCEPT !.sequence = call.sequence] \in
                 [content : Texts, timeline : Parts, title : Parts,
                  streaming : BOOLEAN, sequence : Nat]
           /\ UUID(call) \in UUIDKinds \X OperationIds
           /\ Recorded(call) \in Snapshots
<1> DEFINE req == call.request
<1>1. req \in RequestSpace /\ call.stage \in Stages /\ call.kind \in Kinds
      /\ call.sequence \in Nat /\ call.op \in OperationIds
  BY DEF CallSpace
<1>2. req.markdown \in Texts /\ req.timeline \in Parts /\ req.title \in Parts
  BY <1>1 DEF RequestSpace
<1>3. Overlay(req.timeline, card.timeline) \in Parts
      /\ Overlay(req.title, card.title) \in Parts
  BY <1>2, OverlayType DEF TypeOK
<1>4. [Write(card, call) EXCEPT !.sequence = call.sequence] \in
                 [content : Texts, timeline : Parts, title : Parts,
                  streaming : BOOLEAN, sequence : Nat]
  <2>1. CASE call.stage = "content"
    BY <1>1, <1>2, <2>1 DEF Write, TypeOK
  <2>2. CASE call.stage = "timeline"
    BY <1>1, <1>2, <2>2 DEF Write, TypeOK
  <2>3. CASE call.stage = "settings"
    BY <1>1, <1>2, <2>3 DEF Write, TypeOK
  <2>4. CASE call.stage = "panel" /\ call.kind # "replace"
    BY <1>1, <1>2, <2>4 DEF Write, TypeOK
  <2>5. CASE call.stage = "panel" /\ call.kind = "replace"
    BY <1>1, <1>2, <1>3, <2>5 DEF Write, TypeOK
  <2> QED
    BY <1>1, <2>1, <2>2, <2>3, <2>4, <2>5 DEF Stages
<1>5. UUID(call) \in UUIDKinds \X OperationIds
  BY <1>1 DEF UUID, UUIDKind, UUIDKinds, Stages, Kinds
<1>6. Recorded(call) \in Snapshots
  BY <1>1, <1>2 DEF Recorded, Snapshots, TypeOK, Parts
<1> QED
  BY <1>4, <1>5, <1>6

(***************************************************************************)
(* The inductive invariant.  Types alone are not inductive: that the call  *)
(* an RPC makes is well formed rests on the pending operation being the    *)
(* one begun from a request, with calls left to make.                      *)
(***************************************************************************)
IInv == TypeOK /\ PendingIsCurrent

LEMMA NoOperationType == NoOperation \in OperationSpace
BY DEF NoOperation, OperationSpace

LEMMA InitIInv == Init => IInv
<1> SUFFICES ASSUME Init PROVE IInv
  OBVIOUS
<1>1. snapshot \in Snapshots /\ snapshot.markdown \in Texts
  BY DEF Init, Snapshots, Parts
<1>2. TypeOK
  <2>1. card \in [content : Texts, timeline : Parts, title : Parts,
                 streaming : BOOLEAN, sequence : Nat]
    BY <1>1 DEF Init, Snapshots
  <2>2. operations \in [OperationIds -> OperationSpace]
    BY NoOperationType DEF Init
  <2> QED
    BY <1>1, <2>1, <2>2 DEF Init, TypeOK
<1>3. PendingIsCurrent
  BY DEF Init, PendingIsCurrent, Pending, Known, NoOperation
<1> QED
  BY <1>2, <1>3 DEF IInv

LEMMA BeginIInv ==
    ASSUME IInv, NEW o \in OperationIds, NEW req \in Requests, Begin(o, req)
    PROVE  IInv'
<1> USE DEF IInv, Begin, UpToDate, response, feishu
<1>1. req \in RequestSpace /\ Plan(req) \in Seq(Stages)
  BY PlanType
<1>2. NewOperation(req) \in OperationSpace
  BY <1>1 DEF NewOperation, NoOperation, OperationSpace, TypeOK, RequestSpace
<1>3. TypeOK'
  BY <1>2 DEF TypeOK
<1>4. /\ NewOperation(req).kind = req.kind /\ NewOperation(req).request = req
      /\ ~NewOperation(req).complete /\ NewOperation(req).done = 0
      /\ NewOperation(req).calls = Plan(req)
  BY DEF NewOperation, NoOperation
<1>5. operations' = [operations EXCEPT ![o] = NewOperation(req)]
      /\ operations'[o] = NewOperation(req)
  BY DEF TypeOK
<1>6. ASSUME NEW p \in OperationIds
      PROVE  /\ Known(p)' /\ ~operations'[p].complete => pendingOp' = p
             /\ ~Known(p)' => operations'[p] = NoOperation
  <2>1. CASE p = o
    BY <1>1, <1>4, <1>5, <2>1 DEF Known, RequestSpace, Kinds
  <2>2. CASE p # o
    BY <1>5, <2>2 DEF Known, PendingIsCurrent, TypeOK
  <2> QED
    BY <2>1, <2>2
<1>7. /\ operations'[o].kind = operations'[o].request.kind
      /\ operations'[o].request = req
      /\ req.expected = revision' /\ PhaseAllows(req)'
      /\ ~operations'[o].complete
      /\ operations'[o].done <= Len(operations'[o].calls)
  BY <1>1, <1>4, <1>5 DEF PhaseAllows
<1>8. PendingIsCurrent'
  BY <1>6, <1>7 DEF PendingIsCurrent, Pending, PhaseAllows
<1> QED
  BY <1>3, <1>8

LEMMA ResumeIInv ==
    ASSUME IInv, NEW o \in OperationIds, Resume(o)
    PROVE  IInv'
<1> USE DEF IInv, Resume, response, feishu
<1>1. TypeOK'
  BY DEF TypeOK
<1>2. PendingIsCurrent'
  BY DEF PendingIsCurrent, Pending, Known, PhaseAllows
<1> QED
  BY <1>1, <1>2

(* Serving a call keeps the type of what Feishu holds.                     *)
LEMMA ServedType ==
    ASSUME TypeOK, NEW call \in CallSpace,
           Served(call) \/ UNCHANGED <<card, accepted>> \/ Applied(call)
    PROVE  /\ card' \in [content : Texts, timeline : Parts, title : Parts,
                         streaming : BOOLEAN, sequence : Nat]
           /\ accepted' \subseteq (UUIDKinds \X OperationIds)
BY WriteType DEF Served, Applied, TypeOK

(* Changing the progress of the pending operation, and nothing it stands   *)
(* on, keeps it current.                                                   *)
LEMMA ProgressIsCurrent ==
    ASSUME TypeOK, PendingIsCurrent, NEW o \in OperationIds, Calling(o),
           NEW progress \in OperationSpace,
           progress.kind = operations[o].kind,
           progress.request = operations[o].request,
           progress.complete = operations[o].complete,
           progress.calls = operations[o].calls,
           progress.done <= Len(progress.calls),
           operations' = [operations EXCEPT ![o] = progress],
           pendingOp' = pendingOp, revision' = revision, phase' = phase,
           caller' \in {None, caller}
    PROVE  PendingIsCurrent'
<1>1. pendingOp = o /\ Pending
  BY CurrentCallType
<1>2. operations'[o] = progress
  BY DEF TypeOK
<1>3. ASSUME NEW p \in OperationIds
      PROVE  /\ Known(p)' /\ ~operations'[p].complete => pendingOp' = p
             /\ ~Known(p)' => operations'[p] = NoOperation
  <2>1. CASE p = o
    <3>1. operations[o].kind # "none"
      BY <1>1 DEF PendingIsCurrent, RequestSpace, Kinds
    <3> QED
      BY <1>1, <1>2, <2>1, <3>1 DEF Known
  <2>2. CASE p # o
    BY <2>2 DEF Known, PendingIsCurrent, TypeOK
  <2> QED
    BY <2>1, <2>2
<1> QED
  BY <1>1, <1>2, <1>3 DEF PendingIsCurrent, Pending, PhaseAllows, Calling

LEMMA CallSucceedsIInv ==
    ASSUME IInv, NEW o \in OperationIds, CallSucceeds(o)
    PROVE  IInv'
<1> DEFINE moved == [operations[o] EXCEPT !.done = @ + 1, !.inDoubt = FALSE]
<1>1. /\ CurrentCall(o) \in CallSpace
      /\ operations[o].done + 1 \in 1 .. Len(operations[o].calls)
  BY CurrentCallType DEF IInv, CallSucceeds
<1>2. operations[o] \in OperationSpace
  BY DEF IInv, TypeOK
<1>3. moved \in OperationSpace /\ moved.done <= Len(moved.calls)
  <2>1. operations[o].done + 1 \in Nat
    BY <1>2 DEF OperationSpace
  <2>2. moved \in OperationSpace
    BY <1>2, <2>1 DEF OperationSpace
  <2>3. moved.done = operations[o].done + 1 /\ moved.calls = operations[o].calls
    BY <1>2 DEF OperationSpace
  <2>4. Len(operations[o].calls) \in Nat
    BY <1>2 DEF OperationSpace
  <2> QED
    BY <1>1, <2>1, <2>2, <2>3, <2>4
<1>4. operations' = [operations EXCEPT ![o] = moved]
  BY DEF CallSucceeds
<1>5. TypeOK'
  <2>1. CurrentCall(o).sequence \in Nat
    BY <1>1 DEF CallSpace
  <2>2. operations' \in [OperationIds -> OperationSpace]
    BY <1>3, <1>4 DEF IInv, TypeOK
  <2>3. snapshot' \in Snapshots
    BY <1>1, WriteType DEF IInv, CallSucceeds
  <2>4. /\ card' \in [content : Texts, timeline : Parts, title : Parts,
                      streaming : BOOLEAN, sequence : Nat]
        /\ accepted' \subseteq (UUIDKinds \X OperationIds)
    BY <1>1, ServedType DEF IInv, CallSucceeds
  <2> QED
    BY <2>1, <2>2, <2>3, <2>4 DEF IInv, TypeOK, CallSucceeds
<1>6. PendingIsCurrent'
  <2> HIDE DEF moved
  <2>1. /\ moved.kind = operations[o].kind
        /\ moved.request = operations[o].request
        /\ moved.complete = operations[o].complete
        /\ moved.calls = operations[o].calls
    BY <1>2 DEF moved, OperationSpace
  <2> QED
    BY <1>3, <1>4, <2>1, ProgressIsCurrent DEF IInv, CallSucceeds
<1> QED
  BY <1>5, <1>6 DEF IInv

LEMMA CallRejectedIInv ==
    ASSUME IInv, NEW o \in OperationIds, CallRejected(o)
    PROVE  IInv'
<1> DEFINE shut == [operations[o] EXCEPT !.closed = TRUE]
<1>1. operations[o] \in OperationSpace
  BY DEF IInv, TypeOK
<1>2. CASE operations[o].inDoubt
  <2>1. operations' = [operations EXCEPT ![o] = shut] /\ pendingOp' = pendingOp
        /\ released' = released
    BY <1>2 DEF CallRejected, CloseOrAbort
  <2>2. shut \in OperationSpace
    BY <1>1 DEF OperationSpace
  <2>3. /\ shut.kind = operations[o].kind
        /\ shut.request = operations[o].request
        /\ shut.complete = operations[o].complete
        /\ shut.calls = operations[o].calls
        /\ shut.done = operations[o].done
    BY <1>1 DEF OperationSpace
  <2>4. operations[o].done <= Len(operations[o].calls)
    BY CurrentCallType DEF IInv, CallRejected, PendingIsCurrent
  <2> HIDE DEF shut
  <2>5. TypeOK'
    BY <2>1, <2>2 DEF IInv, TypeOK, CallRejected, feishu
  <2>6. PendingIsCurrent'
    BY <2>1, <2>2, <2>3, <2>4, ProgressIsCurrent DEF IInv, CallRejected
  <2> QED
    BY <2>5, <2>6 DEF IInv
<1>3. CASE ~operations[o].inDoubt
  <2>1. operations' = [operations EXCEPT ![o] = NoOperation] /\ pendingOp' = None
        /\ released' = released \cup {o}
    BY <1>3 DEF CallRejected, CloseOrAbort
  <2>2. TypeOK'
    BY <2>1, NoOperationType DEF IInv, TypeOK, CallRejected, feishu
  <2>3. pendingOp = o
    BY CurrentCallType DEF IInv, CallRejected
  <2>4. ASSUME NEW p \in OperationIds
        PROVE  /\ Known(p)' /\ ~operations'[p].complete => pendingOp' = p
               /\ ~Known(p)' => operations'[p] = NoOperation
    <3>1. CASE p = o
      BY <2>1, <3>1 DEF Known, NoOperation, IInv, TypeOK
    <3>2. CASE p # o
      BY <2>1, <2>3, <3>2 DEF Known, PendingIsCurrent, IInv, TypeOK
    <3> QED
      BY <3>1, <3>2
  <2>5. PendingIsCurrent'
    BY <2>1, <2>4 DEF PendingIsCurrent, Pending, CallRejected
  <2> QED
    BY <2>2, <2>5 DEF IInv
<1> QED
  BY <1>2, <1>3

LEMMA CallDeferredIInv ==
    ASSUME IInv, NEW o \in OperationIds, CallDeferred(o)
    PROVE  IInv'
<1> USE DEF IInv, CallDeferred, response, feishu
<1>1. TypeOK'
  BY DEF TypeOK
<1>2. PendingIsCurrent'
  BY DEF PendingIsCurrent, Pending, Known, PhaseAllows
<1> QED
  BY <1>1, <1>2

LEMMA CallInDoubtIInv ==
    ASSUME IInv, NEW o \in OperationIds, CallInDoubt(o)
    PROVE  IInv'
<1> DEFINE doubted == [operations[o] EXCEPT !.inDoubt = TRUE]
<1>1. operations[o] \in OperationSpace
  BY DEF IInv, TypeOK
<1>2. operations' = [operations EXCEPT ![o] = doubted]
  BY DEF CallInDoubt
<1>3. doubted \in OperationSpace
  BY <1>1 DEF OperationSpace
<1>4. /\ doubted.kind = operations[o].kind
      /\ doubted.request = operations[o].request
      /\ doubted.complete = operations[o].complete
      /\ doubted.calls = operations[o].calls
      /\ doubted.done = operations[o].done
  BY <1>1 DEF OperationSpace
<1>5. /\ operations[o].done <= Len(operations[o].calls)
      /\ CurrentCall(o) \in CallSpace
  BY CurrentCallType DEF IInv, CallInDoubt, PendingIsCurrent
<1> HIDE DEF doubted
<1>6. TypeOK'
  <2>1. /\ card' \in [content : Texts, timeline : Parts, title : Parts,
                      streaming : BOOLEAN, sequence : Nat]
        /\ accepted' \subseteq (UUIDKinds \X OperationIds)
    BY <1>5, ServedType DEF IInv, CallInDoubt, feishu
  <2>2. network' \subseteq CallSpace
    BY <1>5 DEF IInv, TypeOK, CallInDoubt, feishu
  <2> QED
    BY <1>2, <1>3, <2>1, <2>2 DEF IInv, TypeOK, CallInDoubt
<1>7. PendingIsCurrent'
  BY <1>2, <1>3, <1>4, <1>5, ProgressIsCurrent DEF IInv, CallInDoubt
<1> QED
  BY <1>6, <1>7 DEF IInv

LEMMA ArriveIInv ==
    ASSUME IInv, NEW call \in network, Arrive(call)
    PROVE  IInv'
<1>1. call \in CallSpace
  BY DEF IInv, TypeOK
<1>2. TypeOK'
  BY <1>1, ServedType DEF IInv, TypeOK, Arrive, response
<1>3. PendingIsCurrent'
  BY DEF IInv, Arrive, response, PendingIsCurrent, Pending, Known, PhaseAllows
<1> QED
  BY <1>2, <1>3 DEF IInv

(* What compact() keeps of an operation is a complete operation.           *)
LEMMA CompactedType ==
    ASSUME NEW op, NEW rev \in Nat, NEW ph \in Outcomes \cup {"streaming"},
           op.kind \in Kinds, op.request \in Requests
    PROVE  /\ Compacted(op, rev, ph) \in OperationSpace
           /\ Compacted(op, rev, ph).complete
           /\ Compacted(op, rev, ph).kind = op.kind
           /\ Compacted(op, rev, ph).request = op.request
           /\ Compacted(op, rev, ph).revision = rev
           /\ Compacted(op, rev, ph).phase = ph
           /\ ~Compacted(op, rev, ph).inDoubt
<1> DEFINE named == [NoOperation EXCEPT !.kind = op.kind, !.request = op.request]
           done  == [named EXCEPT !.complete = TRUE]
           dated == [done EXCEPT !.revision = rev, !.phase = ph]
<1>1. Compacted(op, rev, ph) = dated
  BY DEF Compacted, NoOperation
<1>2. named \in OperationSpace /\ ~named.inDoubt
      /\ named.kind = op.kind /\ named.request = op.request
  BY NoOperationType DEF OperationSpace, NoOperation
<1> HIDE DEF named
<1>3. done \in OperationSpace /\ ~done.inDoubt /\ done.complete
      /\ done.kind = op.kind /\ done.request = op.request
  BY <1>2 DEF OperationSpace
<1> HIDE DEF done
<1>4. dated \in OperationSpace /\ ~dated.inDoubt /\ dated.complete
      /\ dated.kind = op.kind /\ dated.request = op.request
      /\ dated.revision = rev /\ dated.phase = ph
  BY <1>3 DEF OperationSpace
<1> QED
  BY <1>1, <1>4

LEMMA CommitIInv ==
    ASSUME IInv, NEW o \in OperationIds, Commit(o)
    PROVE  IInv'
<1> DEFINE op == operations[o]
           ph == IF op.kind = "finish" THEN op.request.outcome ELSE phase
           kept == Compacted(op, revision + 1, ph)
<1>1. pendingOp = o /\ Pending /\ op \in OperationSpace
  BY DEF IInv, Commit, PendingIsCurrent, TypeOK, Pending
<1>2. op.request \in Requests /\ op.kind = op.request.kind /\ op.kind \in Kinds
  BY <1>1 DEF IInv, PendingIsCurrent, RequestSpace
<1>3. ph \in Outcomes \cup {"streaming"}
  BY <1>2 DEF IInv, TypeOK, RequestSpace
<1>4. operations' = [operations EXCEPT ![o] = kept] /\ phase' = ph
  BY DEF Commit
<1> HIDE DEF ph
<1>5. /\ kept \in OperationSpace
      /\ kept.complete /\ kept.kind = op.kind
  <2>1. revision + 1 \in Nat
    BY DEF IInv, TypeOK
  <2> HIDE DEF op
  <2> QED
    BY <1>2, <1>3, <2>1, CompactedType
<1>6. Settled(op.request) \in Snapshots
  BY <1>2, OverlayType DEF Settled, IInv, TypeOK, RequestSpace, Kinds, Snapshots, Parts
<1> HIDE DEF kept
<1>7. TypeOK'
  <2>1. operations' \in [OperationIds -> OperationSpace]
    BY <1>4, <1>5 DEF IInv, TypeOK
  <2>2. snapshot' \in Snapshots
    BY <1>6 DEF Commit
  <2> QED
    BY <1>3, <1>4, <2>1, <2>2 DEF IInv, TypeOK, Commit, feishu
<1>8. ASSUME NEW p \in OperationIds
      PROVE  /\ Known(p)' /\ ~operations'[p].complete => pendingOp' = p
             /\ ~Known(p)' => operations'[p] = NoOperation
  <2>1. CASE p = o
    BY <1>2, <1>4, <1>5, <2>1 DEF Known, Kinds, IInv, TypeOK
  <2>2. CASE p # o
    BY <1>1, <1>4, <2>2 DEF Known, PendingIsCurrent, IInv, TypeOK
  <2> QED
    BY <2>1, <2>2
<1>9. PendingIsCurrent'
  BY <1>8 DEF PendingIsCurrent, Pending, Commit
<1> QED
  BY <1>7, <1>9 DEF IInv

LEMMA NextIInv == IInv /\ [Next]_vars => IInv'
<1> SUFFICES ASSUME IInv, [Next]_vars PROVE IInv'
  OBVIOUS
<1>1. CASE UNCHANGED vars
  BY <1>1 DEF vars, response, feishu, IInv, TypeOK, PendingIsCurrent, Pending, Known,
              PhaseAllows
<1>2. ASSUME NEW o \in OperationIds, Attempt(o) PROVE IInv'
  BY <1>2, CallSucceedsIInv, CallRejectedIInv, CallDeferredIInv, CallInDoubtIInv,
     CommitIInv DEF Attempt
<1> QED
  BY <1>1, <1>2, BeginIInv, ResumeIInv, ArriveIInv DEF Next

(* Every behaviour is well typed, and at most one operation of a response  *)
(* is ever under way, at the revision it was begun against.                *)
THEOREM TypeCorrect == Spec => []TypeOK
<1>1. IInv => TypeOK
  BY DEF IInv
<1> QED
  BY <1>1, InitIInv, NextIInv, PTL DEF Spec

THEOREM OneCurrentOperation == Spec => []PendingIsCurrent
<1>1. IInv => PendingIsCurrent
  BY DEF IInv
<1> QED
  BY <1>1, InitIInv, NextIInv, PTL DEF Spec

(***************************************************************************)
(* The refinement: the receipts of complete operations are the log.        *)
(***************************************************************************)
receipts ==
    [o \in OperationIds |->
        IF operations[o].complete
        THEN [request |-> operations[o].request,
              revision |-> operations[o].revision,
              phase |-> operations[o].phase]
        ELSE None]

LEMMA InitImplementsLog == Init => Log!Init
BY DEF Init, Log!Init, NoOperation

(* Receipts move only with the operation that becomes complete.            *)
LEMMA ReceiptsUnmoved ==
    ASSUME IInv, NEW o \in OperationIds, NEW op, ~operations[o].complete, ~op.complete,
           operations' = [operations EXCEPT ![o] = op]
    PROVE  receipts' = receipts
<1>1. ASSUME NEW p \in OperationIds, operations'[p] # operations[p]
      PROVE  ~operations[p].complete /\ ~operations'[p].complete
  BY <1>1 DEF IInv, TypeOK
<1> QED
  BY <1>1 DEF receipts

LEMMA CommitImplementsLog ==
    ASSUME IInv, NEW o \in OperationIds, NEW req, req = operations[o].request, Commit(o)
    PROVE  Log!Commit(o, req)
<1> DEFINE op == operations[o]
           ph == IF op.kind = "finish" THEN op.request.outcome ELSE phase
           kept == Compacted(op, revision + 1, ph)
<1>1. pendingOp = o /\ Pending /\ o \in OperationIds
  BY DEF IInv, Commit, PendingIsCurrent, TypeOK, Pending
<1>2. /\ op.request \in Requests /\ op.kind = op.request.kind /\ op.kind \in Kinds
      /\ op.request.expected = revision /\ PhaseAllows(op.request) /\ ~op.complete
  BY <1>1 DEF IInv, PendingIsCurrent, RequestSpace
<1>3. ph \in Outcomes \cup {"streaming"} /\ revision + 1 \in Nat
  BY <1>2 DEF IInv, TypeOK, RequestSpace
<1>4. /\ operations' = [operations EXCEPT ![o] = kept]
      /\ phase' = ph /\ revision' = revision + 1
  BY DEF Commit
<1>5. ph = Log!Resulting(req)
  BY <1>2 DEF Log!Resulting
<1>6. operations'[o] = kept
  BY <1>4 DEF IInv, TypeOK
<1> HIDE DEF ph
<1>7. /\ kept.complete /\ kept.request = op.request
      /\ kept.revision = revision + 1 /\ kept.phase = ph
  <2> HIDE DEF op
  <2> QED
    BY <1>2, <1>3, CompactedType
<1> HIDE DEF kept
<1>8. receipts' = [receipts EXCEPT ![o] = Log!Receipt(req, revision + 1, ph)]
  <2>1. ASSUME NEW p \in OperationIds, p # o PROVE operations'[p] = operations[p]
    BY <1>4, <2>1 DEF IInv, TypeOK
  <2> QED
    BY <1>6, <1>7, <2>1 DEF receipts, Log!Receipt
<1>9. receipts[o] = None
  BY <1>2 DEF receipts
<1> QED
  BY <1>2, <1>4, <1>5, <1>8, <1>9
  DEF Log!Commit, receipts, PhaseAllows, Outcomes, Log!Outcomes

LEMMA NextImplementsLog == IInv /\ [Next]_vars => [Log!Next]_(Log!vars)
<1> SUFFICES ASSUME IInv, [Next]_vars PROVE [Log!Next]_(Log!vars)
  OBVIOUS
<1> USE DEF Log!vars
<1>1. ASSUME receipts' = receipts, revision' = revision, phase' = phase
      PROVE  UNCHANGED Log!vars
  BY <1>1 DEF receipts
<1>2. CASE UNCHANGED vars
  BY <1>1, <1>2 DEF vars, response, receipts
<1>3. ASSUME NEW o \in OperationIds, NEW req \in Requests, Begin(o, req)
      PROVE  UNCHANGED Log!vars
  <2>1. ~operations[o].complete
    BY <1>3 DEF Begin, IInv, PendingIsCurrent, NoOperation
  <2>2. ~NewOperation(req).complete
    BY DEF NewOperation, NoOperation
  <2> QED
    BY <1>1, <1>3, <2>1, <2>2, ReceiptsUnmoved DEF Begin
<1>4. ASSUME NEW o \in OperationIds, Resume(o)
      PROVE  UNCHANGED Log!vars
  BY <1>1, <1>4 DEF Resume, response, receipts
<1>5. ASSUME NEW o \in OperationIds, Calling(o)
      PROVE  ~operations[o].complete /\ operations[o] \in OperationSpace
  BY <1>5, CurrentCallType DEF IInv, PendingIsCurrent, TypeOK
<1>6. ASSUME NEW o \in OperationIds, CallSucceeds(o)
      PROVE  UNCHANGED Log!vars
  <2> DEFINE moved == [operations[o] EXCEPT !.done = @ + 1, !.inDoubt = FALSE]
  <2>1. ~operations[o].complete /\ ~moved.complete
    BY <1>5, <1>6 DEF CallSucceeds, OperationSpace
  <2>2. operations' = [operations EXCEPT ![o] = moved]
    BY <1>6 DEF CallSucceeds
  <2> HIDE DEF moved
  <2> QED
    BY <1>1, <1>6, <2>1, <2>2, ReceiptsUnmoved DEF CallSucceeds
<1>7. ASSUME NEW o \in OperationIds, CallRejected(o)
      PROVE  UNCHANGED Log!vars
  <2> DEFINE shut == [operations[o] EXCEPT !.closed = TRUE]
  <2>1. ~operations[o].complete /\ ~shut.complete /\ ~NoOperation.complete
    BY <1>5, <1>7 DEF CallRejected, OperationSpace, NoOperation
  <2>2. \/ operations' = [operations EXCEPT ![o] = shut]
        \/ operations' = [operations EXCEPT ![o] = NoOperation]
    BY <1>7 DEF CallRejected, CloseOrAbort
  <2> HIDE DEF shut
  <2> QED
    BY <1>1, <1>7, <2>1, <2>2, ReceiptsUnmoved DEF CallRejected
<1>8. ASSUME NEW o \in OperationIds, CallDeferred(o)
      PROVE  UNCHANGED Log!vars
  BY <1>1, <1>8 DEF CallDeferred, response, receipts
<1>9. ASSUME NEW o \in OperationIds, CallInDoubt(o)
      PROVE  UNCHANGED Log!vars
  <2> DEFINE doubted == [operations[o] EXCEPT !.inDoubt = TRUE]
  <2>1. ~operations[o].complete /\ ~doubted.complete
    BY <1>5, <1>9 DEF CallInDoubt, OperationSpace
  <2>2. operations' = [operations EXCEPT ![o] = doubted]
    BY <1>9 DEF CallInDoubt
  <2> HIDE DEF doubted
  <2> QED
    BY <1>1, <1>9, <2>1, <2>2, ReceiptsUnmoved DEF CallInDoubt
<1>10. ASSUME NEW o \in OperationIds, Commit(o)
       PROVE  Log!Next
  <2>1. operations[o].request \in Requests
    BY <1>10 DEF IInv, Commit, PendingIsCurrent, Pending
  <2>2. PICK req \in Requests : req = operations[o].request
    BY <2>1
  <2>3. Log!Commit(o, req)
    BY <1>10, <2>2, CommitImplementsLog
  <2> QED
    BY <2>3 DEF Log!Next
<1>11. ASSUME NEW call \in network, Arrive(call)
       PROVE  UNCHANGED Log!vars
  BY <1>1, <1>11 DEF Arrive, response, receipts
<1> QED
  BY <1>2, <1>3, <1>4, <1>6, <1>7, <1>8, <1>9, <1>10, <1>11 DEF Next, Attempt

(* Every behaviour of a response is one of the compare-and-swap register:  *)
(* an operation id commits at most once, at exactly the revision after the *)
(* one it expected, and only in the phase its kind may change.             *)
THEOREM ResponseImplementsLog == Spec => ImplementsLog
<1>1. Spec => []IInv
  BY InitIInv, NextIInv, PTL DEF Spec
<1> QED
  BY <1>1, InitImplementsLog, NextImplementsLog, PTL DEF Spec, ImplementsLog, Log!Spec

(***************************************************************************)
(* The card.  The invariant says where the card can differ from what the   *)
(* daemon believes: a call in doubt may have landed, and nothing else.     *)
(***************************************************************************)
(* The pending operation and the calls it has yet to make.                 *)
Op     == operations[pendingOp]
Ahead  == (Op.done + 1) .. Len(Op.calls)

(* A plan names no stage twice; it disables streaming at its end and only  *)
(* then, an update not at all; and a replacement has one plan.             *)
PlanOf(kind, calls) ==
    /\ Len(calls) >= 1
    /\ \A i, j \in 1 .. Len(calls) : calls[i] = calls[j] => i = j
    /\ \A i \in 1 .. Len(calls) : calls[i] = "settings" <=> kind # "update" /\ i = Len(calls)
    /\ kind = "replace" => calls = <<"panel", "settings">>

(* The pending operation is at the card sequence its plan has come to, and *)
(* doubt is about a call it has yet to make.                               *)
PlanIsKept ==
    Pending =>
        /\ PlanOf(Op.kind, Op.calls)
        /\ Op.base + Op.done = nextSequence
        /\ Op.inDoubt => ~Finished(Op)

(* The call in doubt has reached Feishu.                                   *)
Landed == Pending /\ Op.inDoubt /\ UUID(CurrentCall(pendingOp)) \in accepted

LandedAt(stage) == Landed /\ CurrentCall(pendingOp).stage = stage

(* Feishu knows the UUIDs of operations that were begun, and of the        *)
(* pending one only those it has done and the one it is in doubt about.    *)
UUIDAt(i) == <<UUIDKind([kind |-> Op.kind, stage |-> Op.calls[i]]), pendingOp>>

UUIDsAreFresh ==
    /\ \A u \in accepted : u[2] \in released \/ Known(u[2])
    /\ \A o \in released : ~Known(o)
    /\ Pending => \A i \in Ahead : UUIDAt(i) \in accepted => i = Op.done + 1 /\ Op.inDoubt

(* The card is at the sequence of the last call it took; what is still on  *)
(* its way is behind that, or is the call in doubt.                        *)
SequencesAgree ==
    /\ card.sequence = IF Landed THEN nextSequence + 1 ELSE nextSequence
    /\ \A call \in network :
          \/ call.sequence <= nextSequence
          \/ Pending /\ Op.inDoubt /\ call = CurrentCall(pendingOp)

(* The card streams until the settings of a finish reach it.               *)
Closed == Pending /\ Op.kind = "finish" /\ (Finished(Op) \/ LandedAt("settings"))

StreamsUntilClosed == card.streaming <=> phase = "streaming" /\ ~Closed

(* While it does, its parts are those of the snapshot, but for the one     *)
(* whose call was in doubt and has landed.                                 *)
Picture(stage, asked, believed) == IF LandedAt(stage) THEN asked ELSE believed

CardFollows ==
    phase = "streaming" =>
        /\ card.content = Picture("content", Op.request.markdown, snapshot.markdown)
        /\ card.timeline = Picture("timeline", Op.request.timeline, snapshot.timeline)
        /\ card.title = Picture("panel", Op.request.title, snapshot.title)

(* What the pending operation no longer has to write is as it asks.        *)
Fits(req, content, timeline, title) ==
    /\ content = req.markdown
    /\ Overlay(req.timeline, timeline) = timeline
    /\ Overlay(req.title, title) = title

Behind(stage) == \A i \in Ahead : Op.calls[i] # stage

Progressed ==
    Pending =>
        /\ Op.kind # "replace" =>
              /\ Behind("content") => snapshot.markdown = Op.request.markdown
              /\ Behind("timeline") =>
                    Overlay(Op.request.timeline, snapshot.timeline) = snapshot.timeline
              /\ Behind("panel") =>
                    Overlay(Op.request.title, snapshot.title) = snapshot.title
        /\ Op.kind = "replace" /\ (Op.done >= 1 \/ Landed) =>
              Fits(Op.request, card.content, card.timeline, card.title)

CardInv ==
    /\ PlanIsKept
    /\ UUIDsAreFresh /\ SequencesAgree /\ StreamsUntilClosed /\ CardFollows /\ Progressed

-----------------------------------------------------------------------------
(* The shape of a plan: what is in it, each stage once, and what is last.  *)
Holds(s, stage) == \E i \in 1 .. Len(s) : s[i] = stage
Distinct(s)     == \A i, j \in 1 .. Len(s) : s[i] = s[j] => i = j

LEMMA OneStage ==
    ASSUME NEW stage \in Stages
    PROVE  /\ <<stage>> \in Seq(Stages) /\ Len(<<stage>>) = 1 /\ <<stage>>[1] = stage
           /\ Distinct(<<stage>>)
           /\ \A other \in Stages : Holds(<<stage>>, other) <=> other = stage
BY DEF Distinct, Holds

LEMMA PlannedShape ==
    ASSUME NEW wanted \in BOOLEAN, NEW stage \in Stages
    PROVE  /\ Planned(wanted, stage) \in Seq(Stages)
           /\ Distinct(Planned(wanted, stage))
           /\ \A other \in Stages :
                 Holds(Planned(wanted, stage), other) <=> wanted /\ other = stage
<1>1. CASE wanted
  BY <1>1, OneStage DEF Planned
<1>2. CASE ~wanted
  BY <1>2 DEF Planned, Distinct, Holds
<1> QED
  BY <1>1, <1>2

LEMMA JoinedShape ==
    ASSUME NEW s \in Seq(Stages), NEW t \in Seq(Stages), Distinct(s), Distinct(t),
           \A stage \in Stages : ~(Holds(s, stage) /\ Holds(t, stage))
    PROVE  /\ s \o t \in Seq(Stages) /\ Len(s \o t) = Len(s) + Len(t)
           /\ Distinct(s \o t)
           /\ \A stage \in Stages : Holds(s \o t, stage) <=> Holds(s, stage) \/ Holds(t, stage)
           /\ Len(t) >= 1 => (s \o t)[Len(s) + Len(t)] = t[Len(t)]
<1>1. /\ s \o t \in Seq(Stages) /\ Len(s \o t) = Len(s) + Len(t)
      /\ Len(s) \in Nat /\ Len(t) \in Nat
      /\ \A i \in 1 .. Len(s) : (s \o t)[i] = s[i] /\ s[i] \in Stages
      /\ \A i \in 1 .. Len(t) : (s \o t)[Len(s) + i] = t[i] /\ t[i] \in Stages
  OBVIOUS
<1> HIDE DEF Stages
<1>2. ASSUME NEW i \in 1 .. Len(s) + Len(t)
      PROVE  \/ i \in 1 .. Len(s)
             \/ i - Len(s) \in 1 .. Len(t) /\ i = Len(s) + (i - Len(s))
  BY <1>1
<1>3. ASSUME NEW i \in 1 .. Len(s), NEW j \in 1 .. Len(t)
      PROVE  (s \o t)[i] # (s \o t)[Len(s) + j]
  <2>1. s[i] # t[j]
    BY <1>1 DEF Holds
  <2> QED
    BY <1>1, <2>1
<1>4. Distinct(s \o t)
  <2> SUFFICES ASSUME NEW i \in 1 .. Len(s) + Len(t), NEW j \in 1 .. Len(s) + Len(t),
                      (s \o t)[i] = (s \o t)[j]
               PROVE  i = j
    BY <1>1 DEF Distinct
  <2>1. CASE i \in 1 .. Len(s) /\ j \in 1 .. Len(s)
    BY <1>1, <2>1 DEF Distinct
  <2>2. CASE i \in 1 .. Len(s) /\ j \notin 1 .. Len(s)
    BY <1>2, <1>3, <2>2
  <2>3. CASE i \notin 1 .. Len(s) /\ j \in 1 .. Len(s)
    BY <1>2, <1>3, <2>3
  <2>4. CASE i \notin 1 .. Len(s) /\ j \notin 1 .. Len(s)
    <3>1. i - Len(s) \in 1 .. Len(t) /\ j - Len(s) \in 1 .. Len(t)
      BY <1>2, <2>4
    <3>2. (s \o t)[i] = t[i - Len(s)] /\ (s \o t)[j] = t[j - Len(s)]
      BY <1>1, <1>2, <2>4
    <3>3. i - Len(s) = j - Len(s)
      BY <3>1, <3>2 DEF Distinct
    <3> QED
      BY <1>1, <3>3
  <2> QED
    BY <2>1, <2>2, <2>3, <2>4
<1>5. ASSUME NEW stage \in Stages
      PROVE  Holds(s \o t, stage) <=> Holds(s, stage) \/ Holds(t, stage)
  <2>1. ASSUME Holds(s \o t, stage) PROVE Holds(s, stage) \/ Holds(t, stage)
    BY <1>1, <1>2, <2>1 DEF Holds
  <2>2. ASSUME Holds(s, stage) PROVE Holds(s \o t, stage)
    BY <1>1, <2>2 DEF Holds
  <2>3. ASSUME Holds(t, stage) PROVE Holds(s \o t, stage)
    <3>1. PICK j \in 1 .. Len(t) : t[j] = stage
      BY <2>3 DEF Holds
    <3>2. Len(s) + j \in 1 .. Len(s) + Len(t) /\ (s \o t)[Len(s) + j] = stage
      BY <1>1, <3>1
    <3> QED
      BY <1>1, <3>2 DEF Holds
  <2> QED
    BY <2>1, <2>2, <2>3
<1> QED
  BY <1>1, <1>4, <1>5

LEMMA TimelineShape ==
    ASSUME NEW req \in RequestSpace
    PROVE  /\ TimelineCalls(req) \in Seq(Stages) /\ Distinct(TimelineCalls(req))
           /\ Holds(TimelineCalls(req), "timeline")
                 <=> Changes(req.timeline, snapshot.timeline)
           /\ Holds(TimelineCalls(req), "panel") <=> Changes(req.title, snapshot.title)
           /\ ~Holds(TimelineCalls(req), "content") /\ ~Holds(TimelineCalls(req), "settings")
<1> DEFINE body  == Planned(Changes(req.timeline, snapshot.timeline), "timeline")
           title == Planned(Changes(req.title, snapshot.title), "panel")
<1>1. /\ "timeline" \in Stages /\ "panel" \in Stages
      /\ "content" \in Stages /\ "settings" \in Stages
  BY DEF Stages
<1>2. /\ Changes(req.timeline, snapshot.timeline) \in BOOLEAN
      /\ Changes(req.title, snapshot.title) \in BOOLEAN
  BY DEF Changes
<1>3. /\ body \in Seq(Stages) /\ Distinct(body)
      /\ \A s \in Stages :
            Holds(body, s) <=> Changes(req.timeline, snapshot.timeline) /\ s = "timeline"
  BY <1>1, <1>2, PlannedShape
<1>4. /\ title \in Seq(Stages) /\ Distinct(title)
      /\ \A s \in Stages : Holds(title, s) <=> Changes(req.title, snapshot.title) /\ s = "panel"
  BY <1>1, <1>2, PlannedShape
<1>5. TimelineCalls(req) = body \o title
  BY DEF TimelineCalls
<1> HIDE DEF body, title
<1>6. \A s \in Stages : ~(Holds(body, s) /\ Holds(title, s))
  BY <1>3, <1>4
<1>7. /\ body \o title \in Seq(Stages) /\ Distinct(body \o title)
      /\ \A s \in Stages : Holds(body \o title, s) <=> Holds(body, s) \/ Holds(title, s)
  BY <1>3, <1>4, <1>6, JoinedShape
<1> QED
  BY <1>1, <1>3, <1>4, <1>5, <1>7

(* Whatever the request, its plan is one that PlanOf describes, and what   *)
(* it leaves out is as the request asks already.                           *)
LEMMA PlanShape ==
    ASSUME NEW req \in RequestSpace
    PROVE  /\ PlanOf(req.kind, Plan(req))
           /\ req.kind # "replace" =>
                 /\ ~Holds(Plan(req), "content") => snapshot.markdown = req.markdown
                 /\ ~Holds(Plan(req), "timeline") =>
                       ~Changes(req.timeline, snapshot.timeline)
                 /\ ~Holds(Plan(req), "panel") => ~Changes(req.title, snapshot.title)
<1> DEFINE rest == TimelineCalls(req)
<1>1. /\ "timeline" \in Stages /\ "panel" \in Stages
      /\ "content" \in Stages /\ "settings" \in Stages
  BY DEF Stages
<1>2. /\ rest \in Seq(Stages) /\ Distinct(rest)
      /\ Holds(rest, "timeline") <=> Changes(req.timeline, snapshot.timeline)
      /\ Holds(rest, "panel") <=> Changes(req.title, snapshot.title)
      /\ ~Holds(rest, "content") /\ ~Holds(rest, "settings")
  BY TimelineShape
<1>3. \A stage \in {"content", "settings"} :
         /\ <<stage>> \in Seq(Stages) /\ Len(<<stage>>) = 1 /\ <<stage>>[1] = stage
         /\ Distinct(<<stage>>)
         /\ \A other \in Stages : Holds(<<stage>>, other) <=> other = stage
  BY <1>1, OneStage
<1>4. CASE req.kind = "update"
  <2>1. Plan(req) = <<"content">> \o rest
    BY <1>4 DEF Plan
  <2> HIDE DEF rest
  <2>2. \A s \in Stages : ~(Holds(<<"content">>, s) /\ Holds(rest, s))
    BY <1>2, <1>3
  <2>3. /\ Len(Plan(req)) = 1 + Len(rest) /\ Distinct(Plan(req))
        /\ \A s \in Stages : Holds(Plan(req), s) <=> Holds(<<"content">>, s) \/ Holds(rest, s)
    <3> DEFINE answer == <<"content">>
    <3>1. answer \in Seq(Stages) /\ Distinct(answer) /\ Len(answer) = 1
      BY <1>3
    <3>2. \A s \in Stages : ~(Holds(answer, s) /\ Holds(rest, s))
      BY <2>2
    <3>3. Plan(req) = answer \o rest
      BY <2>1
    <3> HIDE DEF answer
    <3>4. /\ Len(answer \o rest) = Len(answer) + Len(rest) /\ Distinct(answer \o rest)
          /\ \A s \in Stages :
                Holds(answer \o rest, s) <=> Holds(answer, s) \/ Holds(rest, s)
      BY <1>2, <3>1, <3>2, JoinedShape
    <3>5. /\ Len(Plan(req)) = 1 + Len(rest) /\ Distinct(Plan(req))
          /\ \A s \in Stages : Holds(Plan(req), s) <=> Holds(answer, s) \/ Holds(rest, s)
      BY <3>1, <3>3, <3>4
    <3> QED
      BY <3>5 DEF answer
  <2>4. Len(rest) \in Nat
    BY <1>2
  <2>5. ~Holds(Plan(req), "settings") /\ Holds(Plan(req), "content")
    BY <1>1, <1>2, <1>3, <2>3
  <2>6. PlanOf(req.kind, Plan(req))
    BY <1>4, <2>3, <2>4, <2>5 DEF PlanOf, Distinct, Holds
  <2> QED
    BY <1>1, <1>2, <2>3, <2>5, <2>6
<1>5. CASE req.kind = "finish"
  <2> DEFINE first == Planned(req.markdown # snapshot.markdown, "content")
  <2>1. Plan(req) = (first \o rest) \o <<"settings">>
    BY <1>5 DEF Plan
  <2>2. /\ first \in Seq(Stages) /\ Distinct(first)
        /\ \A s \in Stages :
              Holds(first, s) <=> req.markdown # snapshot.markdown /\ s = "content"
    <3>1. (req.markdown # snapshot.markdown) \in BOOLEAN
      OBVIOUS
    <3> QED
      BY <1>1, <3>1, PlannedShape
  <2> HIDE DEF first, rest
  <2> DEFINE middle == first \o rest
  <2>3. \A s \in Stages : ~(Holds(first, s) /\ Holds(rest, s))
    BY <1>2, <2>2
  <2>4. /\ middle \in Seq(Stages) /\ Distinct(middle)
        /\ \A s \in Stages : Holds(middle, s) <=> Holds(first, s) \/ Holds(rest, s)
    BY <1>2, <2>2, <2>3, JoinedShape
  <2> HIDE DEF middle
  <2>5. \A s \in Stages : ~(Holds(middle, s) /\ Holds(<<"settings">>, s))
    BY <1>1, <1>2, <1>3, <2>2, <2>4
  <2>6. /\ Len(middle \o <<"settings">>) = Len(middle) + 1
        /\ Distinct(middle \o <<"settings">>)
        /\ \A s \in Stages : Holds(middle \o <<"settings">>, s)
                                <=> Holds(middle, s) \/ Holds(<<"settings">>, s)
        /\ (middle \o <<"settings">>)[Len(middle) + 1] = "settings"
    BY <1>3, <2>4, <2>5, JoinedShape
  <2>7. Plan(req) = middle \o <<"settings">>
    BY <2>1 DEF middle
  <2>8. Len(middle) \in Nat
    BY <2>4
  <2>9. PlanOf(req.kind, Plan(req))
    <3>1. Len(Plan(req)) = Len(middle) + 1 /\ Plan(req)[Len(Plan(req))] = "settings"
          /\ Distinct(Plan(req))
      BY <2>6, <2>7
    <3>2. Len(Plan(req)) \in 1 .. Len(Plan(req))
      BY <2>8, <3>1
    <3> QED
      BY <1>5, <3>1, <3>2 DEF PlanOf, Distinct
  <2>10. \A s \in Stages : Holds(Plan(req), s)
            <=> Holds(first, s) \/ Holds(rest, s) \/ Holds(<<"settings">>, s)
    BY <2>4, <2>6, <2>7
  <2> QED
    BY <1>1, <1>2, <1>3, <2>2, <2>9, <2>10
<1>6. CASE req.kind = "replace"
  <2>1. Plan(req) = <<"panel", "settings">>
    BY <1>6 DEF Plan
  <2>2. /\ Len(<<"panel", "settings">>) = 2
        /\ <<"panel", "settings">>[1] = "panel" /\ <<"panel", "settings">>[2] = "settings"
        /\ 1 .. 2 = {1, 2}
    OBVIOUS
  <2> QED
    BY <1>6, <2>1, <2>2 DEF PlanOf
<1> QED
  BY <1>4, <1>5, <1>6 DEF RequestSpace, Kinds

-----------------------------------------------------------------------------
(* The call the pending operation is at, while it has calls to make.       *)
LEMMA AtWork ==
    ASSUME IInv, CardInv, Pending, ~Finished(Op)
    PROVE  /\ Op \in OperationSpace /\ Op.request \in RequestSpace
           /\ Op.request \in Requests /\ Op.kind = Op.request.kind
           /\ Op.done \in Nat /\ Len(Op.calls) \in Nat /\ nextSequence \in Nat
           /\ Op.done + 1 \in 1 .. Len(Op.calls) /\ Op.done + 1 \in Ahead
           /\ Op.calls[Op.done + 1] \in Stages
           /\ CurrentCall(pendingOp) =
                 [op |-> pendingOp, kind |-> Op.kind, stage |-> Op.calls[Op.done + 1],
                  sequence |-> nextSequence + 1, request |-> Op.request]
           /\ UUID(CurrentCall(pendingOp)) = UUIDAt(Op.done + 1)
           /\ Landed <=> Duplicate(CurrentCall(pendingOp))
<1>1. /\ Op \in OperationSpace /\ Op.request \in Requests /\ Op.request \in RequestSpace
      /\ Op.kind = Op.request.kind /\ Op.done <= Len(Op.calls)
  BY DEF IInv, TypeOK, PendingIsCurrent, Op, Pending
<1>2. Op.done \in Nat /\ Op.base \in Nat /\ Op.calls \in Seq(Stages) /\ nextSequence \in Nat
  BY <1>1 DEF OperationSpace, IInv, TypeOK
<1>3. Len(Op.calls) \in Nat
  BY <1>2
<1>4. Op.done + 1 \in 1 .. Len(Op.calls) /\ Op.done + 1 \in Ahead
  BY <1>1, <1>2, <1>3 DEF Finished, Ahead
<1>5. Op.calls[Op.done + 1] \in Stages
  BY <1>2, <1>4
<1>6. CurrentCall(pendingOp) =
        [op |-> pendingOp, kind |-> Op.kind, stage |-> Op.calls[Op.done + 1],
         sequence |-> nextSequence + 1, request |-> Op.request]
  BY <1>1, <1>2 DEF CurrentCall, Op, CardInv, PlanIsKept
<1>7. UUID(CurrentCall(pendingOp)) = UUIDAt(Op.done + 1)
  BY <1>6 DEF UUID, UUIDAt, UUIDKind
<1>8. Landed <=> Duplicate(CurrentCall(pendingOp))
  BY <1>4, <1>7 DEF Landed, Duplicate, CardInv, UUIDsAreFresh
<1> QED
  BY <1>1, <1>2, <1>3, <1>4, <1>5, <1>6, <1>7, <1>8

(* The stage it is at, by the kind of the operation.                       *)
LEMMA StageAtWork ==
    ASSUME IInv, CardInv, Pending, ~Finished(Op)
    PROVE  /\ Op.kind = "replace" <=> phase # "streaming"
           /\ Op.kind \in Kinds
           /\ Op.calls[Op.done + 1] = "settings"
                 <=> Op.kind # "update" /\ Op.done + 1 = Len(Op.calls)
           /\ Op.kind = "replace" =>
                 /\ Op.done = 0 => Op.calls[Op.done + 1] = "panel"
                 /\ Op.done # 0 => Op.calls[Op.done + 1] = "settings" /\ Op.done = 1
           /\ \A i \in Ahead \ {Op.done + 1} :
                 Op.calls[i] # Op.calls[Op.done + 1] /\ UUIDAt(i) # UUIDAt(Op.done + 1)
<1>1. /\ Op \in OperationSpace /\ Op.request \in RequestSpace /\ Op.kind = Op.request.kind
      /\ Op.done \in Nat /\ Len(Op.calls) \in Nat
      /\ Op.done + 1 \in 1 .. Len(Op.calls) /\ Op.done + 1 \in Ahead
  BY AtWork
<1>2. /\ PlanOf(Op.kind, Op.calls)
      /\ Op.kind = "replace" => /\ Len(Op.calls) = 2
                               /\ Op.calls[1] = "panel" /\ Op.calls[2] = "settings"
  <2>1. PlanOf(Op.kind, Op.calls)
    BY DEF CardInv, PlanIsKept
  <2>2. /\ Len(<<"panel", "settings">>) = 2
        /\ <<"panel", "settings">>[1] = "panel" /\ <<"panel", "settings">>[2] = "settings"
    OBVIOUS
  <2>3. Op.kind = "replace" => Op.calls = <<"panel", "settings">>
    BY <2>1 DEF PlanOf
  <2> QED
    BY <2>1, <2>2, <2>3
<1>3. Op.kind \in Kinds
  BY <1>1 DEF RequestSpace
<1>4. Op.kind = "replace" <=> phase # "streaming"
  <2>1. PhaseAllows(Op.request)
    BY DEF IInv, PendingIsCurrent, Op
  <2> QED
    BY <1>1, <2>1 DEF PhaseAllows, Outcomes
<1>5. Op.calls[Op.done + 1] = "settings"
         <=> Op.kind # "update" /\ Op.done + 1 = Len(Op.calls)
  BY <1>1, <1>2 DEF PlanOf
<1>6. ASSUME Op.kind = "replace"
      PROVE  /\ Op.done = 0 => Op.calls[Op.done + 1] = "panel"
             /\ Op.done # 0 => Op.calls[Op.done + 1] = "settings" /\ Op.done = 1
  <2>1. Len(Op.calls) = 2 /\ Op.calls[1] = "panel" /\ Op.calls[2] = "settings"
    BY <1>2, <1>6
  <2>2. Op.done \in {0, 1}
    BY <1>1, <2>1
  <2> QED
    BY <2>1, <2>2
<1>7. ASSUME NEW i \in Ahead, i # Op.done + 1
      PROVE  Op.calls[i] # Op.calls[Op.done + 1] /\ UUIDAt(i) # UUIDAt(Op.done + 1)
  <2>1. i \in 1 .. Len(Op.calls)
    BY <1>1 DEF Ahead
  <2>2. Op.calls[i] # Op.calls[Op.done + 1]
    BY <1>1, <1>2, <1>7, <2>1 DEF PlanOf
  <2>3. Op.calls[i] \in Stages /\ Op.calls[Op.done + 1] \in Stages
    BY <1>1, <2>1 DEF OperationSpace
  <2>4. ASSUME Op.kind = "replace" PROVE UUIDAt(i) # UUIDAt(Op.done + 1)
    <3>1. Len(Op.calls) = 2 /\ Op.calls[1] = "panel" /\ Op.calls[2] = "settings"
      BY <1>2, <2>4
    <3>2. i \in {1, 2} /\ Op.done + 1 \in {1, 2}
      BY <1>1, <2>1, <3>1
    <3> QED
      BY <1>7, <2>4, <3>1, <3>2 DEF UUIDAt, UUIDKind
  <2>5. ASSUME Op.kind # "replace" PROVE UUIDAt(i) # UUIDAt(Op.done + 1)
    BY <2>2, <2>3, <2>5 DEF UUIDAt, UUIDKind, Stages
  <2> QED
    BY <2>2, <2>4, <2>5
<1> QED
  BY <1>3, <1>4, <1>5, <1>6, <1>7

-----------------------------------------------------------------------------
(* What a step does to the pending operation: it goes on with its plan ... *)
GoesOn ==
    /\ Pending /\ pendingOp' = pendingOp
    /\ Op'.kind = Op.kind /\ Op'.request = Op.request
    /\ Op'.calls = Op.calls /\ Op'.base = Op.base
    /\ \A p \in OperationIds : Known(p)' <=> Known(p)

LEMMA GoesOnWith ==
    ASSUME IInv, NEW o \in OperationIds, caller = o, pendingOp' = pendingOp,
           NEW op \in OperationSpace, operations' = [operations EXCEPT ![o] = op],
           op.kind = operations[o].kind, op.request = operations[o].request,
           op.calls = operations[o].calls, op.base = operations[o].base
    PROVE  GoesOn /\ Op' = op /\ pendingOp = o
<1>1. pendingOp = o /\ Pending
  BY DEF IInv, PendingIsCurrent, Pending
<1>2. operations'[o] = op /\ \A p \in OperationIds \ {o} : operations'[p] = operations[p]
  BY DEF IInv, TypeOK
<1>3. Op' = op
  BY <1>1, <1>2 DEF Op
<1> QED
  BY <1>1, <1>2, <1>3 DEF GoesOn, Op, Known

LEMMA SucceedingGoesOn ==
    ASSUME IInv, NEW o \in OperationIds, CallSucceeds(o)
    PROVE  GoesOn /\ pendingOp = o /\ ~Finished(Op) /\ Op'.done = Op.done + 1 /\ ~Op'.inDoubt
<1> DEFINE moved == [operations[o] EXCEPT !.done = @ + 1, !.inDoubt = FALSE]
<1>1. operations[o] \in OperationSpace
  BY DEF IInv, TypeOK
<1>2. /\ moved \in OperationSpace
      /\ moved.kind = operations[o].kind /\ moved.request = operations[o].request
      /\ moved.calls = operations[o].calls /\ moved.base = operations[o].base
      /\ moved.done = operations[o].done + 1 /\ ~moved.inDoubt
  <2>1. operations[o].done + 1 \in Nat
    BY <1>1 DEF OperationSpace
  <2>2. moved \in OperationSpace
    BY <1>1, <2>1 DEF OperationSpace
  <2> QED
    BY <1>1, <2>2 DEF OperationSpace
<1>3. operations' = [operations EXCEPT ![o] = moved]
  BY DEF CallSucceeds
<1> HIDE DEF moved
<1>4. GoesOn /\ Op' = moved /\ pendingOp = o
  BY <1>2, <1>3, GoesOnWith DEF CallSucceeds, Calling
<1> QED
  BY <1>2, <1>4 DEF CallSucceeds, Calling, Op

LEMMA DoubtingGoesOn ==
    ASSUME IInv, NEW o \in OperationIds, CallInDoubt(o)
    PROVE  GoesOn /\ pendingOp = o /\ ~Finished(Op) /\ Op'.done = Op.done /\ Op'.inDoubt
<1> DEFINE doubted == [operations[o] EXCEPT !.inDoubt = TRUE]
<1>1. operations[o] \in OperationSpace
  BY DEF IInv, TypeOK
<1>2. /\ doubted \in OperationSpace
      /\ doubted.kind = operations[o].kind /\ doubted.request = operations[o].request
      /\ doubted.calls = operations[o].calls /\ doubted.base = operations[o].base
      /\ doubted.done = operations[o].done /\ doubted.inDoubt
  BY <1>1 DEF OperationSpace
<1>3. operations' = [operations EXCEPT ![o] = doubted]
  BY DEF CallInDoubt
<1> HIDE DEF doubted
<1>4. GoesOn /\ Op' = doubted /\ pendingOp = o
  BY <1>2, <1>3, GoesOnWith DEF CallInDoubt, Calling
<1> QED
  BY <1>2, <1>4 DEF CallInDoubt, Calling, Op

(* ... or, refused while in doubt, is closed with its plan ...             *)
LEMMA ClosingGoesOn ==
    ASSUME IInv, NEW o \in OperationIds, CallRejected(o), operations[o].inDoubt
    PROVE  /\ GoesOn /\ pendingOp = o /\ ~Finished(Op)
           /\ Op'.done = Op.done /\ Op.inDoubt /\ Op'.inDoubt /\ released' = released
<1> DEFINE shut == [operations[o] EXCEPT !.closed = TRUE]
<1>1. operations[o] \in OperationSpace
  BY DEF IInv, TypeOK
<1>2. /\ shut \in OperationSpace
      /\ shut.kind = operations[o].kind /\ shut.request = operations[o].request
      /\ shut.calls = operations[o].calls /\ shut.base = operations[o].base
      /\ shut.done = operations[o].done /\ shut.inDoubt
  BY <1>1 DEF OperationSpace
<1>3. operations' = [operations EXCEPT ![o] = shut] /\ pendingOp' = pendingOp
      /\ released' = released
  BY DEF CallRejected, CloseOrAbort
<1> HIDE DEF shut
<1>4. GoesOn /\ Op' = shut /\ pendingOp = o
  BY <1>2, <1>3, GoesOnWith DEF CallRejected, Calling
<1> QED
  BY <1>2, <1>3, <1>4 DEF CallRejected, Calling, Op

(* ... or, refused otherwise, is forgotten ...                             *)
LEMMA AbortingForgets ==
    ASSUME IInv, NEW o \in OperationIds, CallRejected(o), ~operations[o].inDoubt
    PROVE  /\ pendingOp = o /\ Pending /\ ~Finished(Op) /\ ~Op.inDoubt
           /\ pendingOp' = None /\ ~Pending'
           /\ released' = released \cup {o} /\ ~Known(o)'
           /\ \A p \in OperationIds \ {o} : Known(p)' <=> Known(p)
<1>1. pendingOp = o /\ Pending
  BY DEF IInv, PendingIsCurrent, Pending, CallRejected, Calling
<1>2. operations' = [operations EXCEPT ![o] = NoOperation] /\ pendingOp' = None
      /\ released' = released \cup {o}
  BY DEF CallRejected, CloseOrAbort
<1>3. \A p \in OperationIds : Known(p)' <=> p # o /\ Known(p)
  BY <1>2 DEF Known, NoOperation, IInv, TypeOK
<1> QED
  BY <1>1, <1>2, <1>3 DEF CallRejected, Calling, Op, Pending

(* ... and it is new when it begins and gone when it commits.              *)
LEMMA BeginningStarts ==
    ASSUME IInv, NEW o \in OperationIds, NEW req \in Requests, Begin(o, req)
    PROVE  /\ ~Pending /\ pendingOp' = o /\ Pending'
           /\ Op'.kind = req.kind /\ Op'.request = req /\ Op'.calls = Plan(req)
           /\ Op'.base = nextSequence /\ Op'.done = 0 /\ ~Op'.inDoubt
           /\ ~Known(o) /\ Known(o)' /\ (o \in released => ReuseReleased)
           /\ \A p \in OperationIds \ {o} : Known(p)' <=> Known(p)
<1>1. /\ NewOperation(req).kind = req.kind /\ NewOperation(req).request = req
      /\ NewOperation(req).calls = Plan(req) /\ NewOperation(req).base = nextSequence
      /\ NewOperation(req).done = 0 /\ ~NewOperation(req).inDoubt
  BY DEF NewOperation, NoOperation
<1>2. operations' = [operations EXCEPT ![o] = NewOperation(req)] /\ pendingOp' = o
  BY DEF Begin
<1>3. operations'[o] = NewOperation(req)
      /\ \A p \in OperationIds \ {o} : operations'[p] = operations[p]
  BY <1>2 DEF IInv, TypeOK
<1>4. Known(o)'
  BY <1>1, <1>3 DEF Known, RequestSpace, Kinds
<1> QED
  BY <1>1, <1>2, <1>3, <1>4 DEF Op, Pending, Known, Begin

LEMMA CommittingEnds ==
    ASSUME IInv, NEW o \in OperationIds, Commit(o)
    PROVE  /\ pendingOp = o /\ Pending /\ Finished(Op) /\ ~Pending'
           /\ Op.request \in RequestSpace /\ Op.kind = Op.request.kind /\ PhaseAllows(Op.request)
           /\ phase' = IF Op.kind = "finish" THEN Op.request.outcome ELSE phase
           /\ snapshot' = Settled(Op.request)
           /\ \A p \in OperationIds : Known(p)' <=> Known(p)
<1>1. pendingOp = o /\ Pending
  BY DEF IInv, PendingIsCurrent, Pending, Commit
<1>2. Op.request \in RequestSpace /\ Op.kind = Op.request.kind /\ PhaseAllows(Op.request)
  BY <1>1 DEF IInv, PendingIsCurrent, Op
<1>3. PICK rev, ph : operations' = [operations EXCEPT ![o] = Compacted(operations[o], rev, ph)]
  BY DEF Commit
<1>4. \A p \in OperationIds : operations'[p].kind = operations[p].kind
  BY <1>3 DEF Compacted, NoOperation, IInv, TypeOK
<1> QED
  BY <1>1, <1>2, <1>4 DEF Commit, Op, Pending, Known

(* A frozen plan is kept to its end, whatever the provider does with ids.  *)
LEMMA InitPlan == Init => PlanIsKept
BY DEF Init, PlanIsKept, Pending

LEMMA NextPlan == IInv /\ PlanIsKept /\ [Next]_vars => PlanIsKept'
<1> SUFFICES ASSUME IInv, PlanIsKept, [Next]_vars PROVE PlanIsKept'
  OBVIOUS
<1>1. ASSUME UNCHANGED response PROVE PlanIsKept'
  BY <1>1 DEF response, PlanIsKept, Pending, Op, Finished
<1>2. ASSUME NEW o \in OperationIds, NEW req \in Requests, Begin(o, req)
      PROVE  PlanIsKept'
  <2>1. PlanOf(req.kind, Plan(req))
    BY PlanShape
  <2>2. nextSequence' = nextSequence /\ nextSequence \in Nat
    BY <1>2 DEF Begin, IInv, TypeOK
  <2> QED
    BY <1>2, <2>1, <2>2, BeginningStarts DEF PlanIsKept
<1>3. ASSUME NEW o \in OperationIds, CallSucceeds(o)
      PROVE  PlanIsKept'
  <2>1. GoesOn /\ pendingOp = o /\ Op'.done = Op.done + 1 /\ ~Op'.inDoubt
    BY <1>3, SucceedingGoesOn
  <2>2. nextSequence' = Op.base + Op.done + 1
    BY <1>3, <2>1 DEF CallSucceeds, CurrentCall, Op
  <2>3. Op.base \in Nat /\ Op.done \in Nat
    BY <2>1 DEF IInv, TypeOK, Op, OperationSpace
  <2> QED
    BY <2>1, <2>2, <2>3 DEF PlanIsKept, GoesOn
<1>4. ASSUME NEW o \in OperationIds, CallRejected(o)
      PROVE  PlanIsKept'
  <2>1. CASE operations[o].inDoubt
    BY <1>4, <2>1, ClosingGoesOn DEF PlanIsKept, GoesOn, Finished, CallRejected
  <2>2. CASE ~operations[o].inDoubt
    BY <1>4, <2>2, AbortingForgets DEF PlanIsKept
  <2> QED
    BY <2>1, <2>2
<1>5. ASSUME NEW o \in OperationIds, CallInDoubt(o)
      PROVE  PlanIsKept'
  BY <1>5, DoubtingGoesOn DEF PlanIsKept, GoesOn, Finished, CallInDoubt
<1>6. ASSUME NEW o \in OperationIds, Commit(o)
      PROVE  PlanIsKept'
  BY <1>6, CommittingEnds DEF PlanIsKept
<1> QED
  BY <1>1, <1>2, <1>3, <1>4, <1>5, <1>6
  DEF Next, Attempt, Resume, CallDeferred, Arrive, vars

(* An operation in doubt stays pending until the call it is in doubt about *)
(* is known to have been served.                                           *)
THEOREM DoubtIsSettled == Spec => DoubtEndsAtFeishu
<1> DEFINE Settles ==
      \A o \in OperationIds :
          operations[o].inDoubt /\ ~operations'[o].inDoubt =>
              /\ operations'[o].done = operations[o].done + 1
              /\ UUID(CurrentCall(o)) \in accepted'
<1>1. Spec => [](IInv /\ PlanIsKept)
  <2>1. Init => IInv /\ PlanIsKept
    BY InitIInv, InitPlan
  <2>2. IInv /\ PlanIsKept /\ [Next]_vars => (IInv /\ PlanIsKept)'
    BY NextIInv, NextPlan
  <2> QED
    BY <2>1, <2>2, PTL DEF Spec
<1>2. IInv /\ PlanIsKept /\ [Next]_vars => [Settles]_vars
  <2> SUFFICES ASSUME IInv, PlanIsKept, Next, NEW o \in OperationIds,
                      operations[o].inDoubt, ~operations'[o].inDoubt
               PROVE  /\ operations'[o].done = operations[o].done + 1
                      /\ UUID(CurrentCall(o)) \in accepted'
    OBVIOUS
  <2>1. operations' # operations
    OBVIOUS
  <2>2. ASSUME NEW p \in OperationIds, NEW req \in Requests, Begin(p, req)
        PROVE  FALSE
    <3>1. p = o
      BY <2>2 DEF Begin, IInv, TypeOK
    <3> QED
      BY <2>2, <3>1 DEF Begin, IInv, PendingIsCurrent, NoOperation
  <2>3. ASSUME NEW p \in OperationIds, CallSucceeds(p)
        PROVE  /\ operations'[o].done = operations[o].done + 1
               /\ UUID(CurrentCall(o)) \in accepted'
    <3>1. p = o
      BY <2>3 DEF CallSucceeds, IInv, TypeOK
    <3>2. Served(CurrentCall(o))
      BY <2>3, <3>1 DEF CallSucceeds
    <3>3. UUID(CurrentCall(o)) \in accepted'
      BY <3>2 DEF Served, Duplicate, Applied
    <3>4. operations[o] \in OperationSpace
      BY DEF IInv, TypeOK
    <3> QED
      BY <2>3, <3>1, <3>3, <3>4 DEF CallSucceeds, IInv, TypeOK, OperationSpace
  <2>4. ASSUME NEW p \in OperationIds, CallRejected(p)
        PROVE  FALSE
    <3>1. p = o
      BY <2>4 DEF CallRejected, CloseOrAbort, IInv, TypeOK
    <3> QED
      BY <2>4, <3>1, ClosingGoesOn DEF Op, GoesOn
  <2>5. ASSUME NEW p \in OperationIds, CallInDoubt(p)
        PROVE  FALSE
    <3>1. p = o
      BY <2>5 DEF CallInDoubt, IInv, TypeOK
    <3> QED
      BY <2>5, <3>1, DoubtingGoesOn DEF Op, GoesOn
  <2>6. ASSUME NEW p \in OperationIds, Commit(p)
        PROVE  FALSE
    <3>1. p = o
      BY <2>6 DEF Commit, IInv, TypeOK
    <3>2. pendingOp = o /\ Pending /\ Finished(Op) /\ Op.inDoubt
      BY <2>6, <3>1, CommittingEnds DEF Op
    <3> QED
      BY <3>2 DEF PlanIsKept
  <2> QED
    BY <2>1, <2>2, <2>3, <2>4, <2>5, <2>6
    DEF Next, Attempt, Resume, CallDeferred, Arrive, response
<1> QED
  BY <1>1, <1>2, PTL DEF Spec, DoubtEndsAtFeishu

-----------------------------------------------------------------------------
(* Whatever step leaves the card, and the plan and progress of the pending *)
(* operation, as they were leaves the card agreeing with them.             *)
LEMMA Steady ==
    ASSUME IInv, CardInv, PlanIsKept',
           pendingOp' = pendingOp, nextSequence' = nextSequence, phase' = phase,
           snapshot' = snapshot, present' = present, released' = released,
           card' = card, accepted' = accepted,
           \A p \in OperationIds : Known(p)' <=> Known(p),
           Pending => /\ Op'.kind = Op.kind /\ Op'.request = Op.request
                      /\ Op'.calls = Op.calls /\ Op'.base = Op.base /\ Op'.done = Op.done
                      /\ Op.inDoubt => Op'.inDoubt,
           \A call \in network' :
              \/ call \in network
              \/ Pending /\ Op'.inDoubt /\ call = CurrentCall(pendingOp)
    PROVE  CardInv'
<1>1. Pending' <=> Pending
  BY DEF Pending
<1>2. ASSUME Pending PROVE Ahead' = Ahead /\ \A i : UUIDAt(i)' = UUIDAt(i)
  BY <1>2 DEF Ahead, UUIDAt
<1>3. ASSUME Pending PROVE CurrentCall(pendingOp)' = CurrentCall(pendingOp)
  BY <1>3 DEF CurrentCall, Op
<1>4. Pending => (Finished(Op)' <=> Finished(Op))
  BY DEF Finished
<1>5. Landed' <=> Landed
  <2>1. ASSUME Pending, ~Finished(Op), UUID(CurrentCall(pendingOp)) \in accepted
        PROVE  Op.inDoubt
    BY <2>1, AtWork DEF Landed, Duplicate
  <2>2. Landed' => Landed
    <3> SUFFICES ASSUME Landed' PROVE Landed
      OBVIOUS
    <3>1. Pending /\ Op'.inDoubt /\ UUID(CurrentCall(pendingOp))' \in accepted
      BY <1>1 DEF Landed
    <3>2. UUID(CurrentCall(pendingOp))' = UUID(CurrentCall(pendingOp))
      BY <1>3, <3>1 DEF UUID, UUIDKind
    <3>3. ~Finished(Op)
      BY <1>1, <1>4, <3>1 DEF PlanIsKept
    <3> QED
      BY <2>1, <3>1, <3>2, <3>3 DEF Landed
  <2>3. Landed => Landed'
    BY <1>1, <1>3 DEF Landed, UUID, UUIDKind
  <2> QED
    BY <2>2, <2>3
<1>6. ASSUME NEW stage PROVE LandedAt(stage)' <=> LandedAt(stage)
  BY <1>3, <1>5 DEF LandedAt, Landed
<1>7. UUIDsAreFresh'
  <2>1. \A u \in accepted : u[2] \in OperationIds
    BY DEF IInv, TypeOK
  <2>2. \A p \in released : p \in OperationIds
    BY DEF IInv, TypeOK
  <2> QED
    BY <1>1, <1>2, <2>1, <2>2 DEF CardInv, UUIDsAreFresh
<1>8. SequencesAgree'
  <2>1. ASSUME NEW call \in network'
        PROVE  \/ call.sequence <= nextSequence'
               \/ Pending' /\ Op'.inDoubt /\ call = CurrentCall(pendingOp)'
    BY <1>1, <1>3 DEF CardInv, SequencesAgree
  <2> QED
    BY <1>5, <2>1 DEF CardInv, SequencesAgree
<1>9. StreamsUntilClosed'
  BY <1>1, <1>4, <1>6 DEF CardInv, StreamsUntilClosed, Closed
<1>10. CardFollows'
  <2>1. ASSUME NEW stage, LandedAt(stage) PROVE Op'.request = Op.request
    BY <2>1 DEF LandedAt, Landed
  <2> QED
    BY <1>6, <2>1 DEF CardInv, CardFollows, Picture
<1>11. Progressed'
  <2>1. ASSUME Pending, NEW stage PROVE Behind(stage)' <=> Behind(stage)
    BY <1>2, <2>1 DEF Behind
  <2> QED
    BY <1>1, <1>5, <2>1 DEF CardInv, Progressed, Fits, Overlay
<1> QED
  BY <1>7, <1>8, <1>9, <1>10, <1>11 DEF CardInv

(* The card after Feishu has served the call the pending operation is at,  *)
(* now or when it was in doubt.                                            *)
LEMMA ServedCard ==
    ASSUME IInv, CardInv, Pending, ~Finished(Op), Served(CurrentCall(pendingOp)),
           NEW stage, stage = Op.calls[Op.done + 1]
    PROVE  /\ card'.sequence = nextSequence + 1
           /\ accepted' = accepted \cup {UUIDAt(Op.done + 1)}
           /\ card'.streaming <=> phase = "streaming" /\ stage # "settings"
           /\ phase = "streaming" =>
                 /\ card'.content =
                       IF stage = "content" THEN Op.request.markdown ELSE snapshot.markdown
                 /\ card'.timeline =
                       IF stage = "timeline" THEN Op.request.timeline ELSE snapshot.timeline
                 /\ card'.title = IF stage = "panel" THEN Op.request.title ELSE snapshot.title
           /\ Op.kind = "replace" =>
                 Fits(Op.request, card'.content, card'.timeline, card'.title)
<1> DEFINE call == CurrentCall(pendingOp)
<1>1. /\ Op.request \in RequestSpace /\ Op.kind = Op.request.kind
      /\ Op.done \in Nat /\ Len(Op.calls) \in Nat /\ nextSequence \in Nat
      /\ stage \in Stages
      /\ call = [op |-> pendingOp, kind |-> Op.kind, stage |-> stage,
                 sequence |-> nextSequence + 1, request |-> Op.request]
      /\ UUID(call) = UUIDAt(Op.done + 1)
      /\ Landed <=> Duplicate(call)
  BY AtWork
<1>2. /\ Op.kind = "replace" <=> phase # "streaming"
      /\ Op.kind \in Kinds
      /\ stage = "settings" <=> Op.kind # "update" /\ Op.done + 1 = Len(Op.calls)
      /\ Op.kind = "replace" =>
            /\ Op.done = 0 => stage = "panel"
            /\ Op.done # 0 => stage = "settings" /\ Op.done = 1
  BY StageAtWork
<1>3. \A s : LandedAt(s) <=> Landed /\ s = stage
  BY <1>1 DEF LandedAt
<1>4. Closed <=> Op.kind = "finish" /\ Landed /\ stage = "settings"
  BY <1>3 DEF Closed
<1>5. /\ card \in [content : Texts, timeline : Parts, title : Parts,
                   streaming : BOOLEAN, sequence : Nat]
      /\ card.sequence = IF Landed THEN nextSequence + 1 ELSE nextSequence
      /\ card.streaming <=> phase = "streaming" /\ ~Closed
  BY DEF IInv, TypeOK, CardInv, SequencesAgree, StreamsUntilClosed
<1>6. phase = "streaming" =>
        /\ card.content =
              IF Landed /\ stage = "content" THEN Op.request.markdown ELSE snapshot.markdown
        /\ card.timeline =
              IF Landed /\ stage = "timeline" THEN Op.request.timeline ELSE snapshot.timeline
        /\ card.title =
              IF Landed /\ stage = "panel" THEN Op.request.title ELSE snapshot.title
  BY <1>3 DEF CardInv, CardFollows, Picture
<1>7. Op.kind = "replace" /\ (Op.done # 0 \/ Landed) =>
         Fits(Op.request, card.content, card.timeline, card.title)
  BY <1>1 DEF CardInv, Progressed
<1>8. CASE Landed
  <2>1. card' = card /\ accepted' = accepted /\ UUIDAt(Op.done + 1) \in accepted
    BY <1>1, <1>8 DEF Served, Duplicate
  <2> HIDE DEF call
  <2> QED
    BY <1>2, <1>4, <1>5, <1>6, <1>7, <1>8, <2>1 DEF Kinds
<1>9. CASE ~Landed
  <2> DEFINE written == Write(card, call)
  <2>1. /\ card' = [written EXCEPT !.sequence = nextSequence + 1]
        /\ accepted' = accepted \cup {UUIDAt(Op.done + 1)}
    BY <1>1, <1>9 DEF Served, Applied
  <2>2. ~Closed
    BY <1>4, <1>9
  <2> HIDE DEF call
  <2>3. CASE stage = "content"
    <3>1. written = [card EXCEPT !.content = Op.request.markdown]
      BY <1>1, <2>3 DEF Write
    <3> HIDE DEF written
    <3> QED
      BY <1>2, <1>5, <1>6, <1>9, <2>1, <2>2, <2>3, <3>1
  <2>4. CASE stage = "timeline"
    <3>1. written = [card EXCEPT !.timeline = Op.request.timeline]
      BY <1>1, <2>4 DEF Write
    <3> HIDE DEF written
    <3> QED
      BY <1>2, <1>5, <1>6, <1>9, <2>1, <2>2, <2>4, <3>1
  <2>5. CASE stage = "settings"
    <3>1. written = [card EXCEPT !.streaming = FALSE]
      BY <1>1, <2>5 DEF Write
    <3> HIDE DEF written
    <3> QED
      BY <1>2, <1>5, <1>6, <1>7, <1>9, <2>1, <2>2, <2>5, <3>1
  <2>6. CASE stage = "panel" /\ Op.kind # "replace"
    <3>1. written = [card EXCEPT !.title = Op.request.title]
      BY <1>1, <2>6 DEF Write
    <3> HIDE DEF written
    <3> QED
      BY <1>2, <1>5, <1>6, <1>9, <2>1, <2>2, <2>6, <3>1
  <2>7. CASE stage = "panel" /\ Op.kind = "replace"
    <3>1. written = [card EXCEPT !.content = Op.request.markdown,
                                 !.timeline = Overlay(Op.request.timeline, @),
                                 !.title = Overlay(Op.request.title, @)]
      BY <1>1, <2>7 DEF Write
    <3> HIDE DEF written
    <3>2. /\ card'.sequence = nextSequence + 1 /\ card'.streaming = card.streaming
          /\ card'.content = Op.request.markdown
          /\ card'.timeline = Overlay(Op.request.timeline, card.timeline)
          /\ card'.title = Overlay(Op.request.title, card.title)
      BY <1>5, <2>1, <3>1
    <3>3. Fits(Op.request, card'.content, card'.timeline, card'.title)
      BY <3>2 DEF Fits, Overlay
    <3> QED
      BY <1>2, <1>5, <2>1, <2>2, <2>7, <3>2, <3>3
  <2> QED
    BY <1>1, <2>3, <2>4, <2>5, <2>6, <2>7 DEF Stages
<1> QED
  BY <1>8, <1>9

(* A call served without the daemon learning of it is in doubt and landed. *)
LEMMA Lands ==
    ASSUME IInv, CardInv, PlanIsKept', GoesOn, ~Finished(Op), Op'.done = Op.done, Op'.inDoubt,
           Served(CurrentCall(pendingOp)), network' \subseteq network,
           nextSequence' = nextSequence, phase' = phase, snapshot' = snapshot,
           present' = present, released' = released
    PROVE  CardInv'
<1> DEFINE stage == Op.calls[Op.done + 1]
<1>1. Pending /\ Pending' /\ pendingOp' = pendingOp
  BY DEF GoesOn, Pending
<1>2. /\ card'.sequence = nextSequence + 1
      /\ accepted' = accepted \cup {UUIDAt(Op.done + 1)}
      /\ card'.streaming <=> phase = "streaming" /\ stage # "settings"
      /\ phase = "streaming" =>
            /\ card'.content =
                  IF stage = "content" THEN Op.request.markdown ELSE snapshot.markdown
            /\ card'.timeline =
                  IF stage = "timeline" THEN Op.request.timeline ELSE snapshot.timeline
            /\ card'.title = IF stage = "panel" THEN Op.request.title ELSE snapshot.title
      /\ Op.kind = "replace" => Fits(Op.request, card'.content, card'.timeline, card'.title)
  BY <1>1, ServedCard
<1>3. /\ CurrentCall(pendingOp) =
            [op |-> pendingOp, kind |-> Op.kind, stage |-> stage,
             sequence |-> nextSequence + 1, request |-> Op.request]
      /\ UUID(CurrentCall(pendingOp)) = UUIDAt(Op.done + 1)
      /\ Op.done + 1 \in Ahead
  BY <1>1, AtWork
<1>4. /\ Op.kind = "replace" <=> phase # "streaming"
      /\ Op.kind \in Kinds
      /\ stage = "settings" <=> Op.kind # "update" /\ Op.done + 1 = Len(Op.calls)
      /\ \A i \in Ahead \ {Op.done + 1} : UUIDAt(i) # UUIDAt(Op.done + 1)
  BY <1>1, StageAtWork
<1>5. CurrentCall(pendingOp)' = CurrentCall(pendingOp)
  BY <1>1 DEF CurrentCall, Op, GoesOn
<1>6. UUID(CurrentCall(pendingOp))' = UUIDAt(Op.done + 1)
  BY <1>3, <1>5 DEF UUID, UUIDKind
<1>7. Landed' /\ \A s : LandedAt(s)' <=> s = stage
  BY <1>1, <1>2, <1>3, <1>5, <1>6 DEF Landed, LandedAt
<1>8. Ahead' = Ahead /\ \A i : UUIDAt(i)' = UUIDAt(i)
  BY <1>1 DEF Ahead, UUIDAt, GoesOn
<1>9. ~Finished(Op)'
  BY DEF GoesOn, Finished
<1>10. UUIDsAreFresh'
  <2>1. \A u \in accepted : u[2] \in OperationIds
    BY DEF IInv, TypeOK
  <2>2. pendingOp \in OperationIds /\ Known(pendingOp)
    BY <1>1, <1>4 DEF IInv, TypeOK, Pending, Known, Op, Kinds
  <2>3. UUIDAt(Op.done + 1)[2] = pendingOp
    BY DEF UUIDAt
  <2>4. \A u \in accepted' : u[2] \in released' \/ Known(u[2])'
    BY <1>2, <2>1, <2>2, <2>3 DEF CardInv, UUIDsAreFresh, GoesOn
  <2>5. \A p \in released' : ~Known(p)'
    BY DEF CardInv, UUIDsAreFresh, GoesOn, IInv, TypeOK
  <2>6. \A i \in Ahead : UUIDAt(i) \in accepted' => i = Op.done + 1
    BY <1>1, <1>2, <1>4 DEF CardInv, UUIDsAreFresh
  <2> QED
    BY <1>1, <1>8, <2>4, <2>5, <2>6 DEF UUIDsAreFresh
<1>11. SequencesAgree'
  <2>1. ASSUME NEW call \in network'
        PROVE  \/ call.sequence <= nextSequence'
               \/ Pending' /\ Op'.inDoubt /\ call = CurrentCall(pendingOp)'
    BY <1>1, <1>5 DEF CardInv, SequencesAgree
  <2> QED
    BY <1>2, <1>7, <2>1 DEF SequencesAgree
<1> HIDE DEF stage
<1>12. StreamsUntilClosed'
  BY <1>1, <1>2, <1>4, <1>7, <1>9 DEF StreamsUntilClosed, Closed, GoesOn, Kinds
<1>13. CardFollows'
  BY <1>2, <1>7 DEF CardFollows, Picture, GoesOn
<1>14. Progressed'
  <2>1. ASSUME NEW s PROVE Behind(s)' <=> Behind(s)
    BY <1>8 DEF Behind, GoesOn
  <2>2. Op.kind # "replace" =>
              /\ Behind("content") => snapshot.markdown = Op.request.markdown
              /\ Behind("timeline") =>
                    Overlay(Op.request.timeline, snapshot.timeline) = snapshot.timeline
              /\ Behind("panel") =>
                    Overlay(Op.request.title, snapshot.title) = snapshot.title
    BY <1>1 DEF CardInv, Progressed
  <2> QED
    BY <1>2, <2>1, <2>2 DEF Progressed, Fits, Overlay, GoesOn
<1> QED
  BY <1>10, <1>11, <1>12, <1>13, <1>14 DEF CardInv

(* A call known to be served is done, and the snapshot takes it over.      *)
LEMMA SucceedsCard ==
    ASSUME IInv, CardInv, PlanIsKept', NEW o \in OperationIds, CallSucceeds(o)
    PROVE  CardInv'
<1> DEFINE stage == Op.calls[Op.done + 1]
<1>1. /\ GoesOn /\ pendingOp = o /\ ~Finished(Op) /\ Op'.done = Op.done + 1 /\ ~Op'.inDoubt
      /\ Pending /\ Pending' /\ pendingOp' = pendingOp
  BY SucceedingGoesOn DEF GoesOn, Pending
<1>2. /\ card'.sequence = nextSequence + 1
      /\ accepted' = accepted \cup {UUIDAt(Op.done + 1)}
      /\ card'.streaming <=> phase = "streaming" /\ stage # "settings"
      /\ phase = "streaming" =>
            /\ card'.content =
                  IF stage = "content" THEN Op.request.markdown ELSE snapshot.markdown
            /\ card'.timeline =
                  IF stage = "timeline" THEN Op.request.timeline ELSE snapshot.timeline
            /\ card'.title = IF stage = "panel" THEN Op.request.title ELSE snapshot.title
      /\ Op.kind = "replace" => Fits(Op.request, card'.content, card'.timeline, card'.title)
  <2>1. Served(CurrentCall(pendingOp))
    BY <1>1 DEF CallSucceeds
  <2> QED
    BY <1>1, <2>1, ServedCard
<1>3. /\ CurrentCall(pendingOp) =
            [op |-> pendingOp, kind |-> Op.kind, stage |-> stage,
             sequence |-> nextSequence + 1, request |-> Op.request]
      /\ Op.done + 1 \in Ahead /\ Op.done + 1 \in 1 .. Len(Op.calls)
      /\ Op.done \in Nat /\ Len(Op.calls) \in Nat /\ nextSequence \in Nat
      /\ stage \in Stages
  BY <1>1, AtWork
<1>4. /\ Op.kind = "replace" <=> phase # "streaming"
      /\ Op.kind \in Kinds
      /\ stage = "settings" <=> Op.kind # "update" /\ Op.done + 1 = Len(Op.calls)
      /\ \A i \in Ahead \ {Op.done + 1} : UUIDAt(i) # UUIDAt(Op.done + 1)
  BY <1>1, StageAtWork
<1>5. /\ nextSequence' = nextSequence + 1 /\ phase' = phase /\ present' = present
      /\ released' = released /\ network' = network
      /\ snapshot' = Recorded(CurrentCall(pendingOp))
  BY <1>1, <1>3 DEF CallSucceeds
<1>6. ~Landed' /\ \A s : ~LandedAt(s)'
  BY <1>1 DEF Landed, LandedAt
<1>7. Ahead' = Ahead \ {Op.done + 1} /\ \A i : UUIDAt(i)' = UUIDAt(i)
  BY <1>1, <1>3 DEF Ahead, UUIDAt, GoesOn
<1>8. Finished(Op)' <=> Op.done + 1 = Len(Op.calls)
  BY <1>1 DEF GoesOn, Finished
<1>9. UUIDsAreFresh'
  <2>1. \A u \in accepted : u[2] \in OperationIds
    BY DEF IInv, TypeOK
  <2>2. pendingOp \in OperationIds /\ Known(pendingOp)
    BY <1>1, <1>4 DEF IInv, TypeOK, Pending, Known, Op, Kinds
  <2>3. UUIDAt(Op.done + 1)[2] = pendingOp
    BY DEF UUIDAt
  <2>4. \A u \in accepted' : u[2] \in released' \/ Known(u[2])'
    BY <1>1, <1>2, <1>5, <2>1, <2>2, <2>3 DEF CardInv, UUIDsAreFresh, GoesOn
  <2>5. \A p \in released' : ~Known(p)'
    BY <1>1, <1>5 DEF CardInv, UUIDsAreFresh, GoesOn, IInv, TypeOK
  <2>6. \A i \in Ahead' : UUIDAt(i)' \notin accepted'
    BY <1>1, <1>2, <1>4, <1>7 DEF CardInv, UUIDsAreFresh
  <2> QED
    BY <2>4, <2>5, <2>6 DEF UUIDsAreFresh
<1>10. SequencesAgree'
  <2>1. ASSUME NEW call \in network' PROVE call.sequence <= nextSequence'
    <3>1. call \in CallSpace
      BY <1>5 DEF IInv, TypeOK
    <3>2. call.sequence \in Nat
      BY <3>1 DEF CallSpace
    <3>3. call.sequence <= nextSequence \/ call.sequence = nextSequence + 1
      BY <1>3, <1>5 DEF CardInv, SequencesAgree
    <3> QED
      BY <1>3, <1>5, <3>2, <3>3
  <2> QED
    BY <1>2, <1>5, <1>6, <2>1 DEF SequencesAgree
<1>11. /\ snapshot' \in Snapshots
       /\ Op.kind # "replace" =>
             /\ snapshot'.markdown =
                   IF stage = "content" THEN Op.request.markdown ELSE snapshot.markdown
             /\ snapshot'.timeline =
                   IF stage = "timeline" THEN Op.request.timeline ELSE snapshot.timeline
             /\ snapshot'.title = IF stage = "panel" THEN Op.request.title ELSE snapshot.title
  <2> DEFINE call == CurrentCall(pendingOp)
  <2>1. call \in CallSpace
    BY <1>1, CurrentCallType DEF IInv, CallSucceeds
  <2>2. snapshot' \in Snapshots
    BY <1>5, <2>1, WriteType DEF IInv
  <2>3. /\ call.stage = stage /\ call.kind = Op.kind /\ call.request = Op.request
        /\ snapshot \in Snapshots
    BY <1>3 DEF IInv, TypeOK
  <2>4. snapshot' = Recorded(call)
    BY <1>5
  <2> HIDE DEF call, stage
  <2> QED
    BY <1>3, <2>2, <2>3, <2>4 DEF Recorded, Snapshots, Stages
<1>12. ASSUME NEW s, s # stage, Behind(s)' PROVE Behind(s)
  BY <1>1, <1>7, <1>12 DEF Behind, GoesOn
<1> HIDE DEF stage
<1>13. StreamsUntilClosed'
  BY <1>1, <1>2, <1>4, <1>5, <1>6, <1>8 DEF StreamsUntilClosed, Closed, GoesOn, Kinds
<1>14. CardFollows'
  BY <1>2, <1>4, <1>5, <1>6, <1>11 DEF CardFollows, Picture
<1>15. Progressed'
  <2>1. Op.kind # "replace" =>
              /\ Behind("content") => snapshot.markdown = Op.request.markdown
              /\ Behind("timeline") =>
                    Overlay(Op.request.timeline, snapshot.timeline) = snapshot.timeline
              /\ Behind("panel") =>
                    Overlay(Op.request.title, snapshot.title) = snapshot.title
    BY <1>1 DEF CardInv, Progressed
  <2>2. Op.kind # "replace" =>
              /\ Behind("content")' => snapshot'.markdown = Op.request.markdown
              /\ Behind("timeline")' =>
                    Overlay(Op.request.timeline, snapshot'.timeline) = snapshot'.timeline
              /\ Behind("panel")' =>
                    Overlay(Op.request.title, snapshot'.title) = snapshot'.title
    BY <1>11, <1>12, <2>1 DEF Overlay
  <2> QED
    BY <1>1, <1>2, <1>5, <2>2 DEF Progressed, Fits, Overlay, GoesOn
<1> QED
  BY <1>9, <1>10, <1>13, <1>14, <1>15 DEF CardInv

(* An operation refused with nothing in doubt leaves no trace of itself.   *)
LEMMA AbortsCard ==
    ASSUME IInv, CardInv, NEW o \in OperationIds, CallRejected(o), ~operations[o].inDoubt
    PROVE  CardInv'
<1>1. /\ pendingOp = o /\ Pending /\ ~Finished(Op) /\ ~Op.inDoubt
      /\ ~Pending' /\ released' = released \cup {o} /\ ~Known(o)'
      /\ \A p \in OperationIds \ {o} : Known(p)' <=> Known(p)
  BY AbortingForgets
<1>2. UNCHANGED <<phase, present, snapshot, nextSequence, card, accepted, network>>
  BY DEF CallRejected, feishu
<1>3. ~Landed /\ ~Closed /\ \A s : ~LandedAt(s)
  BY <1>1 DEF Landed, LandedAt, Closed
<1>4. ~Landed' /\ ~Closed' /\ \A s : ~LandedAt(s)'
  BY <1>1 DEF Landed, LandedAt, Closed
<1>5. UUIDsAreFresh'
  <2>1. \A u \in accepted : u[2] \in OperationIds
    BY DEF IInv, TypeOK
  <2>2. \A p \in released : p \in OperationIds
    BY DEF IInv, TypeOK
  <2>3. \A u \in accepted' : u[2] \in released' \/ Known(u[2])'
    BY <1>1, <1>2, <2>1 DEF CardInv, UUIDsAreFresh
  <2>4. \A p \in released' : ~Known(p)'
    BY <1>1, <2>2 DEF CardInv, UUIDsAreFresh
  <2> QED
    BY <1>1, <2>3, <2>4 DEF UUIDsAreFresh
<1>6. SequencesAgree'
  BY <1>1, <1>2, <1>3, <1>4 DEF CardInv, SequencesAgree
<1>7. StreamsUntilClosed' /\ CardFollows'
  BY <1>2, <1>3, <1>4 DEF CardInv, StreamsUntilClosed, CardFollows, Picture
<1> QED
  BY <1>1, <1>5, <1>6, <1>7 DEF CardInv, PlanIsKept, Progressed

(* An operation begins with UUIDs Feishu has never seen, as long as no id  *)
(* is used twice, and leaves out what the card shows already.              *)
LEMMA BeginsCard ==
    ASSUME ~ReuseReleased, IInv, CardInv, PlanIsKept',
           NEW o \in OperationIds, NEW req \in Requests, Begin(o, req)
    PROVE  CardInv'
<1>1. /\ ~Pending /\ pendingOp' = o /\ Pending'
      /\ Op'.kind = req.kind /\ Op'.request = req /\ Op'.calls = Plan(req)
      /\ Op'.base = nextSequence /\ Op'.done = 0 /\ ~Op'.inDoubt
      /\ ~Known(o) /\ Known(o)' /\ o \notin released
      /\ \A p \in OperationIds \ {o} : Known(p)' <=> Known(p)
  BY BeginningStarts
<1>2. UNCHANGED <<phase, present, snapshot, nextSequence, released, card, accepted, network>>
  BY DEF Begin, feishu
<1>3. /\ PlanOf(req.kind, Plan(req))
      /\ req.kind # "replace" =>
            /\ ~Holds(Plan(req), "content") => snapshot.markdown = req.markdown
            /\ ~Holds(Plan(req), "timeline") => ~Changes(req.timeline, snapshot.timeline)
            /\ ~Holds(Plan(req), "panel") => ~Changes(req.title, snapshot.title)
  BY PlanShape
<1>4. ~Landed /\ ~Closed /\ \A s : ~LandedAt(s)
  BY <1>1 DEF Landed, LandedAt, Closed
<1>5. ~Landed' /\ \A s : ~LandedAt(s)'
  BY <1>1 DEF Landed, LandedAt
<1>6. ~Finished(Op)'
  BY <1>1, <1>3 DEF Finished, PlanOf
<1>7. ~Closed'
  BY <1>5, <1>6 DEF Closed
<1>8. UUIDsAreFresh'
  <2>1. \A u \in accepted : u[2] \in OperationIds /\ u[2] # o
    BY <1>1 DEF IInv, TypeOK, CardInv, UUIDsAreFresh
  <2>2. \A p \in released : p \in OperationIds /\ p # o
    BY <1>1 DEF IInv, TypeOK
  <2>3. \A u \in accepted' : u[2] \in released' \/ Known(u[2])'
    BY <1>1, <1>2, <2>1 DEF CardInv, UUIDsAreFresh
  <2>4. \A p \in released' : ~Known(p)'
    BY <1>1, <1>2, <2>2 DEF CardInv, UUIDsAreFresh
  <2>5. \A i : UUIDAt(i)'[2] = o
    BY <1>1 DEF UUIDAt
  <2>6. \A i : UUIDAt(i)' \notin accepted'
    BY <1>2, <2>1, <2>5
  <2> QED
    BY <2>3, <2>4, <2>6 DEF UUIDsAreFresh
<1>9. SequencesAgree'
  BY <1>1, <1>2, <1>4, <1>5 DEF CardInv, SequencesAgree
<1>10. StreamsUntilClosed' /\ CardFollows'
  BY <1>2, <1>4, <1>5, <1>7 DEF CardInv, StreamsUntilClosed, CardFollows, Picture
<1>11. Progressed'
  <2>1. Ahead' = 1 .. Len(Plan(req))
    BY <1>1 DEF Ahead
  <2>2. \A s : Behind(s)' <=> ~Holds(Plan(req), s)
    BY <1>1, <2>1 DEF Behind, Holds
  <2>3. /\ ~Changes(req.timeline, snapshot.timeline)
              => Overlay(req.timeline, snapshot.timeline)' = snapshot'.timeline
        /\ ~Changes(req.title, snapshot.title)
              => Overlay(req.title, snapshot.title)' = snapshot'.title
    BY <1>2 DEF Changes, Overlay
  <2> QED
    BY <1>1, <1>2, <1>3, <1>5, <2>2, <2>3 DEF Progressed
<1> QED
  BY <1>8, <1>9, <1>10, <1>11 DEF CardInv

(* A commit finds every call done, and takes streaming off with a finish.  *)
LEMMA CommitsCard ==
    ASSUME IInv, CardInv, NEW o \in OperationIds, Commit(o)
    PROVE  CardInv'
<1>1. /\ pendingOp = o /\ Pending /\ Finished(Op) /\ ~Pending'
      /\ Op.request \in RequestSpace /\ Op.kind = Op.request.kind /\ PhaseAllows(Op.request)
      /\ phase' = IF Op.kind = "finish" THEN Op.request.outcome ELSE phase
      /\ snapshot' = Settled(Op.request)
      /\ \A p \in OperationIds : Known(p)' <=> Known(p)
  BY CommittingEnds
<1>2. UNCHANGED <<present, nextSequence, released, card, accepted, network>>
  BY DEF Commit, feishu
<1>3. ~Op.inDoubt
  BY <1>1 DEF CardInv, PlanIsKept
<1>4. ~Landed /\ (\A s : ~LandedAt(s)) /\ (Closed <=> Op.kind = "finish")
  BY <1>1, <1>3 DEF Landed, LandedAt, Closed
<1>5. ~Landed' /\ ~Closed' /\ \A s : ~LandedAt(s)'
  BY <1>1 DEF Landed, LandedAt, Closed
<1>6. UUIDsAreFresh'
  BY <1>1, <1>2 DEF CardInv, UUIDsAreFresh, IInv, TypeOK
<1>7. SequencesAgree'
  BY <1>1, <1>2, <1>3, <1>4, <1>5 DEF CardInv, SequencesAgree
<1>8. phase' = "streaming" <=> phase = "streaming" /\ Op.kind # "finish"
  BY <1>1 DEF RequestSpace, Outcomes
<1>9. StreamsUntilClosed'
  BY <1>2, <1>4, <1>5, <1>8 DEF CardInv, StreamsUntilClosed
<1>10. phase' = "streaming" => snapshot' = snapshot
  BY <1>1, <1>8 DEF RequestSpace, Kinds, PhaseAllows, Outcomes, Settled
<1>11. CardFollows'
  BY <1>2, <1>4, <1>5, <1>8, <1>10 DEF CardInv, CardFollows, Picture
<1> QED
  BY <1>1, <1>6, <1>7, <1>9, <1>11 DEF CardInv, PlanIsKept, Progressed

LEMMA InitCard == Init => CardInv
<1> SUFFICES ASSUME Init PROVE CardInv
  OBVIOUS
<1>1. ~Pending /\ ~Landed /\ ~Closed /\ \A s : ~LandedAt(s)
  BY DEF Init, Pending, Landed, LandedAt, Closed
<1> QED
  BY <1>1 DEF CardInv, PlanIsKept, UUIDsAreFresh, SequencesAgree, StreamsUntilClosed,
              CardFollows, Picture, Progressed, Init

LEMMA NextCard ==
    ASSUME ~ReuseReleased
    PROVE  IInv /\ CardInv /\ [Next]_vars => CardInv'
<1> SUFFICES ASSUME IInv, CardInv, [Next]_vars PROVE CardInv'
  OBVIOUS
<1>1. PlanIsKept'
  BY NextPlan DEF CardInv
<1>2. ASSUME UNCHANGED response, released' = released, card' = card, accepted' = accepted,
             network' \subseteq network
      PROVE  CardInv'
  <2>1. /\ pendingOp' = pendingOp /\ nextSequence' = nextSequence /\ phase' = phase
        /\ snapshot' = snapshot /\ present' = present /\ operations' = operations
    BY <1>2 DEF response
  <2>2. \A p \in OperationIds : Known(p)' <=> Known(p)
    BY <2>1 DEF Known
  <2>3. Op' = Op
    BY <2>1 DEF Op
  <2> QED
    BY <1>1, <1>2, <2>1, <2>2, <2>3, Steady
<1>3. ASSUME NEW o \in OperationIds, NEW req \in Requests, Begin(o, req)
      PROVE  CardInv'
  BY <1>1, <1>3, BeginsCard
<1>4. ASSUME NEW o \in OperationIds, CallSucceeds(o)
      PROVE  CardInv'
  BY <1>1, <1>4, SucceedsCard
<1>5. ASSUME NEW o \in OperationIds, CallRejected(o)
      PROVE  CardInv'
  <2>1. CASE operations[o].inDoubt
    <3>1. /\ GoesOn /\ pendingOp = o /\ Op'.done = Op.done /\ Op'.inDoubt
          /\ released' = released
      BY <1>5, <2>1, ClosingGoesOn
    <3>2. UNCHANGED <<phase, present, snapshot, nextSequence, card, accepted, network>>
      BY <1>5 DEF CallRejected, feishu
    <3> QED
      BY <1>1, <3>1, <3>2, Steady DEF GoesOn
  <2>2. CASE ~operations[o].inDoubt
    BY <1>5, <2>2, AbortsCard
  <2> QED
    BY <2>1, <2>2
<1>6. ASSUME NEW o \in OperationIds, CallInDoubt(o)
      PROVE  CardInv'
  <2>1. GoesOn /\ pendingOp = o /\ ~Finished(Op) /\ Op'.done = Op.done /\ Op'.inDoubt
    BY <1>6, DoubtingGoesOn
  <2>2. UNCHANGED <<phase, present, snapshot, nextSequence, released>>
    BY <1>6 DEF CallInDoubt
  <2>3. CASE Served(CurrentCall(o)) /\ network' = network
    BY <1>1, <2>1, <2>2, <2>3, Lands
  <2>4. CASE UNCHANGED <<card, accepted>> /\ network' \subseteq network \cup {CurrentCall(o)}
    BY <1>1, <2>1, <2>2, <2>4, Steady DEF GoesOn
  <2> QED
    BY <1>6, <2>3, <2>4 DEF CallInDoubt, feishu
<1>7. ASSUME NEW o \in OperationIds, Commit(o)
      PROVE  CardInv'
  BY <1>7, CommitsCard
<1>8. ASSUME NEW call \in network, Arrive(call)
      PROVE  CardInv'
  <2>1. UNCHANGED response /\ released' = released /\ network' \subseteq network
    BY <1>8 DEF Arrive
  <2>2. CASE UNCHANGED <<card, accepted>>
    BY <1>2, <2>1, <2>2
  <2>3. CASE ~Duplicate(call) /\ Acceptable(call) /\ Applied(call)
    <3>1. call.sequence \in Nat /\ nextSequence \in Nat
      BY DEF IInv, TypeOK, CallSpace
    <3>2. card.sequence \in Nat /\ card.sequence >= nextSequence
      BY <3>1 DEF CardInv, SequencesAgree, IInv, TypeOK
    <3>3. Pending /\ Op.inDoubt /\ call = CurrentCall(pendingOp)
      BY <2>3, <3>1, <3>2 DEF Acceptable, CardInv, SequencesAgree
    <3>4. ~Finished(Op)
      BY <3>3 DEF CardInv, PlanIsKept
    <3>5. Served(CurrentCall(pendingOp))
      BY <2>3, <3>3 DEF Served
    <3>6. Op' = Op /\ pendingOp' = pendingOp /\ \A p \in OperationIds : Known(p)' <=> Known(p)
      BY <2>1 DEF response, Op, Known
    <3>7. GoesOn
      BY <3>3, <3>6 DEF GoesOn
    <3> QED
      BY <1>1, <2>1, <3>3, <3>4, <3>5, <3>6, <3>7, Lands DEF response
  <2> QED
    BY <1>8, <2>2, <2>3 DEF Arrive
<1> QED
  BY <1>2, <1>3, <1>4, <1>5, <1>6, <1>7, <1>8
  DEF Next, Attempt, Resume, CallDeferred, vars, feishu

LEMMA CardIsKept ==
    ASSUME ~ReuseReleased
    PROVE  Spec => [](IInv /\ CardInv)
<1>1. Init => IInv /\ CardInv
  BY InitIInv, InitCard
<1>2. IInv /\ CardInv /\ [Next]_vars => (IInv /\ CardInv)'
  BY NextIInv, NextCard
<1> QED
  BY <1>1, <1>2, PTL DEF Spec

(* Nothing an abort, a retry or a late call does makes the daemon mistake  *)
(* what the card shows, except where its own call is in doubt -- provided  *)
(* no operation id is used twice, rejected ones included.                  *)
THEOREM PictureIsTrue ==
    ASSUME ~ReuseReleased
    PROVE  Spec => []SnapshotAgrees
<1>1. CardInv => SnapshotAgrees
  BY DEF CardInv, CardFollows, Picture, LandedAt, Landed, SnapshotAgrees, DoubtfulAt, Op
<1> QED
  BY <1>1, CardIsKept, PTL

(* Nor does Feishu ever have a reason to refuse the next call.             *)
THEOREM CallsAreTaken ==
    ASSUME ~ReuseReleased
    PROVE  Spec => []NextCallAcceptable
<1>1. IInv /\ CardInv => NextCallAcceptable
  <2> SUFFICES ASSUME IInv, CardInv, Pending, ~Finished(Op),
                      ~Duplicate(CurrentCall(pendingOp))
               PROVE  Acceptable(CurrentCall(pendingOp))
    BY DEF NextCallAcceptable, Op
  <2>1. /\ nextSequence \in Nat
        /\ CurrentCall(pendingOp).sequence = nextSequence + 1
        /\ CurrentCall(pendingOp).stage = Op.calls[Op.done + 1]
        /\ Op.done \in Nat /\ ~Landed
    BY AtWork
  <2>2. card.sequence = nextSequence
    BY <2>1 DEF CardInv, SequencesAgree
  <2>3. ~Closed
    BY <2>1 DEF Closed, LandedAt
  <2>4. Op.calls[Op.done + 1] \in {"content", "timeline"} => phase = "streaming"
    BY <2>1, StageAtWork
  <2> QED
    BY <2>1, <2>2, <2>3, <2>4 DEF Acceptable, CardInv, StreamsUntilClosed
<1> QED
  BY <1>1, CardIsKept, PTL

(* A call that comes late finds the card past it, or is the one in doubt.  *)
THEOREM LateCallsAreHarmless ==
    ASSUME ~ReuseReleased
    PROVE  Spec => []LateCallsAreInDoubt
<1>1. IInv /\ CardInv => LateCallsAreInDoubt
  <2> SUFFICES ASSUME IInv, CardInv, NEW call \in network, Acceptable(call)
               PROVE  Pending /\ Op.inDoubt /\ call = CurrentCall(pendingOp)
    BY DEF LateCallsAreInDoubt, Op
  <2>1. call.sequence \in Nat /\ nextSequence \in Nat
    BY DEF IInv, TypeOK, CallSpace
  <2>2. card.sequence \in Nat /\ card.sequence >= nextSequence
    BY <2>1 DEF CardInv, SequencesAgree, IInv, TypeOK
  <2> QED
    BY <2>1, <2>2 DEF Acceptable, CardInv, SequencesAgree
<1> QED
  BY <1>1, CardIsKept, PTL

(* Streaming goes off last, and only for a finish.                         *)
THEOREM FinishClosesLast ==
    ASSUME ~ReuseReleased
    PROVE  Spec => []StreamingClosesLast
<1>1. IInv /\ CardInv => StreamingClosesLast
  <2> SUFFICES ASSUME IInv, CardInv, ~card.streaming, phase \notin Outcomes
               PROVE  Pending /\ Op.kind = "finish" /\ Op.done >= Len(Op.calls) - 1
    BY DEF StreamingClosesLast, Op
  <2>1. Closed
    BY DEF IInv, TypeOK, CardInv, StreamsUntilClosed
  <2>2. Pending /\ Op.kind = "finish" /\ (Finished(Op) \/ LandedAt("settings"))
    BY <2>1 DEF Closed
  <2>3. Op.done \in Nat /\ Len(Op.calls) \in Nat
    BY <2>2 DEF IInv, TypeOK, Op, Pending, OperationSpace
  <2>4. CASE Finished(Op)
    BY <2>2, <2>3, <2>4 DEF Finished
  <2>5. CASE ~Finished(Op)
    <3>1. Op.calls[Op.done + 1] = "settings"
      BY <2>2, <2>5, AtWork DEF LandedAt
    <3>2. Op.done + 1 = Len(Op.calls)
      BY <2>2, <2>5, <3>1, StageAtWork
    <3> QED
      BY <2>2, <2>3, <3>2
  <2> QED
    BY <2>4, <2>5
<1> QED
  BY <1>1, CardIsKept, PTL

(* A receipt tells the truth: when it is written, the card shows what the  *)
(* operation asked for.                                                    *)
LEMMA CommitsWhatShows ==
    ASSUME IInv, CardInv, NEW o \in OperationIds, Commit(o)
    PROVE  Shows(operations[o].request, card)
<1>1. /\ pendingOp = o /\ Pending /\ Finished(Op)
      /\ Op.request \in RequestSpace /\ Op.kind = Op.request.kind /\ PhaseAllows(Op.request)
  BY CommittingEnds
<1>2. ~Op.inDoubt
  BY <1>1 DEF CardInv, PlanIsKept
<1>3. ~Landed /\ (\A s : ~LandedAt(s)) /\ (Closed <=> Op.kind = "finish")
  BY <1>1, <1>2 DEF Landed, LandedAt, Closed
<1>4. Op.done \in Nat /\ Len(Op.calls) \in Nat /\ Op.done = Len(Op.calls)
      /\ (Op.kind = "replace" => Op.done >= 1)
  <2>1. Op \in OperationSpace
    BY <1>1 DEF IInv, TypeOK, Op
  <2>2. Len(Op.calls) >= 1
    BY <1>1 DEF CardInv, PlanIsKept, PlanOf
  <2> QED
    BY <1>1, <2>1, <2>2 DEF OperationSpace, Finished
<1>5. \A s : Behind(s)
  BY <1>4 DEF Behind, Ahead
<1>6. card.streaming <=> Op.kind = "update"
  BY <1>1, <1>3 DEF CardInv, StreamsUntilClosed, RequestSpace, Kinds, PhaseAllows, Outcomes
<1>7. Fits(Op.request, card.content, card.timeline, card.title)
  <2>1. CASE Op.kind = "replace"
    BY <1>1, <1>4, <2>1 DEF CardInv, Progressed
  <2>2. CASE Op.kind # "replace"
    <3>1. phase = "streaming"
      BY <1>1, <2>2 DEF PhaseAllows
    <3> QED
      BY <1>1, <1>3, <1>5, <2>2, <3>1 DEF CardInv, Progressed, CardFollows, Picture, Fits
  <2> QED
    BY <2>1, <2>2
<1>8. card.streaming \in BOOLEAN
  BY DEF IInv, TypeOK
<1> QED
  BY <1>1, <1>6, <1>7, <1>8 DEF Shows, Fits, Op

THEOREM CommitsAreShown ==
    ASSUME ~ReuseReleased
    PROVE  Spec => CommitShowsRequest
<1> DEFINE Shown ==
      \A o \in OperationIds :
          operations'[o].complete /\ ~operations[o].complete =>
              Shows(operations[o].request, card)
<1>1. IInv /\ CardInv /\ [Next]_vars => [Shown]_vars
  <2> SUFFICES ASSUME IInv, CardInv, Next, NEW o \in OperationIds,
                      operations'[o].complete, ~operations[o].complete
               PROVE  Shows(operations[o].request, card)
    OBVIOUS
  <2>1. ASSUME NEW p \in OperationIds, NEW op, ~op.complete,
               operations' = [operations EXCEPT ![p] = op]
        PROVE  FALSE
    BY <2>1 DEF IInv, TypeOK
  <2>2. ASSUME NEW p \in OperationIds, Calling(p)
        PROVE  ~operations[p].complete /\ operations[p] \in OperationSpace
    BY <2>2, CurrentCallType DEF IInv, PendingIsCurrent, TypeOK
  <2>3. ASSUME NEW p \in OperationIds, NEW req \in Requests, Begin(p, req)
        PROVE  FALSE
    <3>1. ~NewOperation(req).complete
      BY DEF NewOperation, NoOperation
    <3> QED
      BY <2>1, <2>3, <3>1 DEF Begin
  <2>4. ASSUME NEW p \in OperationIds, CallSucceeds(p)
        PROVE  FALSE
    <3> DEFINE moved == [operations[p] EXCEPT !.done = @ + 1, !.inDoubt = FALSE]
    <3>1. ~moved.complete
      BY <2>2, <2>4 DEF CallSucceeds, OperationSpace
    <3>2. operations' = [operations EXCEPT ![p] = moved]
      BY <2>4 DEF CallSucceeds
    <3> HIDE DEF moved
    <3> QED
      BY <2>1, <3>1, <3>2
  <2>5. ASSUME NEW p \in OperationIds, CallRejected(p)
        PROVE  FALSE
    <3> DEFINE shut == [operations[p] EXCEPT !.closed = TRUE]
    <3>1. ~shut.complete /\ ~NoOperation.complete
      BY <2>2, <2>5 DEF CallRejected, OperationSpace, NoOperation
    <3>2. \/ operations' = [operations EXCEPT ![p] = shut]
          \/ operations' = [operations EXCEPT ![p] = NoOperation]
      BY <2>5 DEF CallRejected, CloseOrAbort
    <3> HIDE DEF shut
    <3> QED
      BY <2>1, <3>1, <3>2
  <2>6. ASSUME NEW p \in OperationIds, CallInDoubt(p)
        PROVE  FALSE
    <3> DEFINE doubted == [operations[p] EXCEPT !.inDoubt = TRUE]
    <3>1. ~doubted.complete
      BY <2>2, <2>6 DEF CallInDoubt, OperationSpace
    <3>2. operations' = [operations EXCEPT ![p] = doubted]
      BY <2>6 DEF CallInDoubt
    <3> HIDE DEF doubted
    <3> QED
      BY <2>1, <3>1, <3>2
  <2>7. ASSUME NEW p \in OperationIds, Commit(p)
        PROVE  Shows(operations[o].request, card)
    <3>1. p = o
      BY <2>7 DEF Commit, IInv, TypeOK
    <3> QED
      BY <2>7, <3>1, CommitsWhatShows
  <2>8. operations' # operations
    OBVIOUS
  <2> QED
    BY <2>3, <2>4, <2>5, <2>6, <2>7, <2>8
    DEF Next, Attempt, Resume, CallDeferred, Arrive, response
<1> QED
  BY <1>1, CardIsKept, PTL DEF Spec, CommitShowsRequest
=============================================================================
