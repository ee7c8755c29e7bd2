----------------------------- MODULE RevisionLog -----------------------------
(***************************************************************************)
(* What an agent response promises its provider, with no Feishu in it: a   *)
(* register that moves by compare-and-swap.  An operation names the        *)
(* revision it was computed against; it commits at most once, at exactly   *)
(* the next revision; a finish closes the response for updates and a       *)
(* replacement exists only behind a finish and keeps its outcome.          *)
(***************************************************************************)
EXTENDS Naturals

CONSTANTS
    OperationIds,   \* operation ids the provider may generate
    Requests,       \* the semantic requests (what a fingerprint identifies)
    None            \* no entry

VARIABLES
    revision,       \* the revision of the latest receipt
    phase,          \* "streaming" or the outcome of the finish
    log             \* operation id -> its receipt, or None

vars == <<revision, phase, log>>

Outcomes == {"completed", "failed", "cancelled"}

Receipt(req, rev, ph) == [request |-> req, revision |-> rev, phase |-> ph]

Init ==
    /\ revision = 1
    /\ phase = "streaming"
    /\ log = [o \in OperationIds |-> None]

(* The phase an operation of each kind leaves the response in.             *)
Resulting(req) == IF req.kind = "finish" THEN req.outcome ELSE phase

Commit(o, req) ==
    /\ log[o] = None
    /\ req.expected = revision
    /\ IF req.kind = "replace" THEN phase \in Outcomes ELSE phase = "streaming"
    /\ revision' = revision + 1
    /\ phase' = Resulting(req)
    /\ log' = [log EXCEPT ![o] = Receipt(req, revision + 1, Resulting(req))]

Next == \E o \in OperationIds, req \in Requests : Commit(o, req)

Spec == Init /\ [][Next]_vars

=============================================================================
