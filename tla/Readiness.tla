------------------------------ MODULE Readiness ------------------------------
(***************************************************************************)
(* The readiness check: Service.Ready asks the sender of every app for its *)
(* credentials, all at once and within one deadline, and then reads the    *)
(* connection states.  A sender remembers the outcome of its last check,   *)
(* and concurrent checks overwrite each other's.                           *)
(***************************************************************************)
EXTENDS Clock

CONSTANTS
    ReadyApps,      \* the configured apps
    Probes,         \* concurrent readiness checks
    ReadyFor,       \* how long a sender remembers that it is ready
    UnreadyFor,     \* how long it remembers that it is not
    ReadyTimeout,   \* cfg.SendTimeout
    ReadinessUntil  \* bound: the clock stops here

ASSUME ReadinessAssumption ==
    /\ {ReadyFor, UnreadyFor, ReadyTimeout} \subseteq Nat
    /\ ReadinessUntil \in Nat \ {0}

VARIABLES
    valid,          \* apps whose credentials Feishu accepts now
    acceptedLast,   \* history: app -> when it last accepted them
    connected,      \* apps whose connection state is "connected"
    remembered,     \* app -> readyUntil and lastReadyError of its sender
    probe,          \* what each check has heard: [at, ready, pending, asking]
    verdict         \* the answer a check has just given

readinessVars == <<now, valid, acceptedLast, connected, remembered, probe, verdict>>

NoProbe == [at |-> 0, ready |-> FALSE, pending |-> {}, asking |-> {}]

ReadinessInit ==
    /\ now = 1
    /\ valid \in SUBSET ReadyApps
    /\ acceptedLast = [a \in ReadyApps |-> 0]
    /\ connected = {}
    /\ remembered = [a \in ReadyApps |-> [ok |-> FALSE, until |-> 0]]
    /\ probe = [p \in Probes |-> NoProbe]
    /\ verdict = "none"

Probing(p) == probe[p] # NoProbe

(* Credentials are revoked and restored, connections come and go.          *)
World ==
    /\ \/ \E a \in ReadyApps : valid' \in {valid \cup {a}, valid \ {a}} /\ UNCHANGED connected
       \/ \E a \in ReadyApps : connected' \in {connected \cup {a}, connected \ {a}}
                                   /\ UNCHANGED valid
    /\ UNCHANGED <<now, acceptedLast, remembered, probe>>
    /\ verdict' = "none"

Probe(p) ==
    /\ ~Probing(p)
    /\ probe' = [probe EXCEPT ![p] =
                    [at |-> now, ready |-> TRUE, pending |-> ReadyApps, asking |-> {}]]
    /\ verdict' = "none"
    /\ UNCHANGED <<now, valid, acceptedLast, connected, remembered>>

Hears(p, a, ok) ==
    probe' = [probe EXCEPT ![p].pending = @ \ {a}, ![p].asking = @ \ {a}, ![p].ready = @ /\ ok]

(* sender.Ready answers from memory, or asks for a tenant token.           *)
Recall(p, a) ==
    /\ a \in probe[p].pending \ probe[p].asking
    /\ \/ now < remembered[a].until /\ Hears(p, a, remembered[a].ok)
       \/ now >= remembered[a].until /\ probe' = [probe EXCEPT ![p].asking = @ \cup {a}]
    /\ verdict' = "none"
    /\ UNCHANGED <<now, valid, acceptedLast, connected, remembered>>

(* Mutation of Remembered: a refusal is kept as long as a success.         *)
RememberedAlike(ok, at) == [ok |-> ok, until |-> at + ReadyFor]

(* Counted from the start of the check, whatever was remembered since.     *)
Remembered(ok, at) == [ok |-> ok, until |-> at + (IF ok THEN ReadyFor ELSE UnreadyFor)]

(* The token comes, or is refused, or the call ends: with the deadline, or *)
(* because whoever asked for readiness has gone.                           *)
Ask(p, a, ok) ==
    /\ a \in probe[p].asking
    /\ ok => a \in valid
    /\ remembered' = [remembered EXCEPT ![a] = Remembered(ok, probe[p].at)]
    /\ acceptedLast' = IF ok THEN [acceptedLast EXCEPT ![a] = now] ELSE acceptedLast
    /\ Hears(p, a, ok)
    /\ verdict' = "none"
    /\ UNCHANGED <<now, valid, connected>>

(* Every app has answered, or the deadline has passed, which also ends the *)
(* calls that still ask: then the connection states are read.              *)
Verdict(p) ==
    /\ Probing(p)
    /\ probe[p].pending = {} \/ now >= probe[p].at + ReadyTimeout
    /\ verdict' = IF probe[p].ready /\ probe[p].pending = {} /\ connected = ReadyApps
                  THEN "ready" ELSE "unready"
    /\ remembered' = [a \in ReadyApps |-> IF a \in probe[p].asking
                                          THEN Remembered(FALSE, probe[p].at)
                                          ELSE remembered[a]]
    /\ probe' = [probe EXCEPT ![p] = NoProbe]
    /\ UNCHANGED <<now, valid, acceptedLast, connected>>

ReadinessTick ==
    /\ \A p \in Probes : Probing(p) => now < probe[p].at + ReadyTimeout
    /\ Tick(ReadinessUntil)
    /\ verdict' = "none"
    /\ UNCHANGED <<valid, acceptedLast, connected, remembered, probe>>

ReadinessNext ==
    \/ World
    \/ \E p \in Probes :
          \/ Probe(p) \/ Verdict(p)
          \/ \E a \in ReadyApps : Recall(p, a) \/ \E ok \in BOOLEAN : Ask(p, a, ok)
    \/ ReadinessTick

ReadinessSpec == ReadinessInit /\ [][ReadinessNext]_readinessVars

-----------------------------------------------------------------------------
ReadinessTypeOK ==
    /\ now \in 1 .. ReadinessUntil
    /\ valid \subseteq ReadyApps /\ connected \subseteq ReadyApps
    /\ acceptedLast \in [ReadyApps -> 0 .. ReadinessUntil]
    /\ remembered \in [ReadyApps -> [ok : BOOLEAN, until : Nat]]
    /\ probe \in [Probes -> [at : 0 .. ReadinessUntil, ready : BOOLEAN,
                             pending : SUBSET ReadyApps, asking : SUBSET ReadyApps]]
    /\ verdict \in {"none", "ready", "unready"}

(* "ready" is only said while every app is connected and its credentials   *)
(* were accepted no longer ago than the memory and one check last, and a   *)
(* refusal, even of a check its caller abandoned, is soon asked again:     *)
(* checks that overlap and end in the other order extend neither.          *)
ReadinessIsRecent ==
    /\ verdict = "ready" =>
           \A a \in ReadyApps : /\ a \in connected
                                /\ acceptedLast[a] > 0
                                /\ now < acceptedLast[a] + ReadyFor + ReadyTimeout + 1
    /\ \A a \in ReadyApps : now < remembered[a].until =>
           IF remembered[a].ok THEN now < acceptedLast[a] + ReadyFor
                               ELSE remembered[a].until <= now + UnreadyFor

=============================================================================
