----------------------------- MODULE OrdinarySend -----------------------------
(***************************************************************************)
(* One call of ChannelSender.Send.  A content too long for one message is  *)
(* split, and the messages are sent in turn; each is tried up to Attempts  *)
(* times while the error is temporary, with a pause between the attempts   *)
(* that the end of the context cuts short; and a rich text that Feishu     *)
(* does not accept is sent once more as plain text, with attempts of its   *)
(* own.  All requests of a message carry one UUID, so what Feishu takes    *)
(* twice it posts once.                                                    *)
(***************************************************************************)
EXTENDS Integers, FiniteSets

CONSTANTS
    MostMessages,   \* bound: messages a content is split into
    Attempts        \* ordinarySendMaxAttempts

ASSUME OrdinarySendAssumption ==
    /\ MostMessages \in Nat \ {0}
    /\ Attempts \in Nat \ {0}

VARIABLES
    messages,   \* the number of messages
    rich,       \* are they rich text?  A card has no plain form
    message,    \* the one being sent
    attempt,
    plain,      \* has it been replaced by plain text?
    step,       \* "calling", "pausing" or "done"
    reached,    \* has Feishu taken a request of this attempt?
    taken,      \* messages Feishu has taken
    outcome     \* what Send returned

sendVars == <<messages, rich, message, attempt, plain, step, reached, taken, outcome>>

SendInit ==
    /\ messages \in 1..MostMessages
    /\ rich \in BOOLEAN
    /\ ~rich => messages = 1
    /\ message = 1 /\ attempt = 1 /\ plain = FALSE
    /\ step = "calling"
    /\ reached = FALSE
    /\ taken = {}
    /\ outcome = "none"

(* The request reaches Feishu, which posts the message unless it did.      *)
Reach ==
    /\ step = "calling" /\ ~reached
    /\ reached' = TRUE
    /\ taken' = taken \cup {message}
    /\ UNCHANGED <<messages, rich, message, attempt, plain, step, outcome>>

Returns(value) ==
    /\ step' = "done"
    /\ outcome' = value
    /\ UNCHANGED <<messages, rich, message, attempt, plain, reached, taken>>

(* Mutation of Succeeds: a request that got through counts, whichever.     *)
SucceedsEarly ==
    /\ step = "calling" /\ reached
    /\ Returns("sent")

(* An answer that names the message id: on to the next message.            *)
Succeeds ==
    /\ step = "calling" /\ reached
    /\ IF message = messages
       THEN Returns("sent")
       ELSE /\ message' = message + 1
            /\ attempt' = 1 /\ plain' = FALSE /\ reached' = FALSE
            /\ UNCHANGED <<messages, rich, step, taken, outcome>>

(* Code 230001: the content is not accepted as it is.                      *)
RejectsFormat ==
    /\ step = "calling" /\ ~reached /\ rich /\ ~plain
    /\ plain' = TRUE /\ attempt' = 1
    /\ UNCHANGED <<messages, rich, message, step, reached, taken, outcome>>

Rejects ==
    /\ step = "calling" /\ ~reached
    /\ Returns("final")

(* A temporary error: a rate limit, which answers, or a server or network  *)
(* error, which may hide that Feishu took the message.  The last attempt   *)
(* returns it.                                                             *)
FailsForNow ==
    /\ step = "calling"
    /\ IF attempt < Attempts
       THEN /\ step' = "pausing"
            /\ UNCHANGED <<messages, rich, message, attempt, plain, reached, taken, outcome>>
       ELSE \/ ~reached /\ Returns("limited")
            \/ Returns("doubt")

TriesAgain ==
    /\ step = "pausing"
    /\ step' = "calling"
    /\ attempt' = attempt + 1
    /\ reached' = FALSE
    /\ UNCHANGED <<messages, rich, message, plain, taken, outcome>>

(* The context ends, during a call or a pause, or an answer is unreadable. *)
(* During a pause that replaces the error of the last attempt.             *)
GivesUp ==
    /\ step \in {"calling", "pausing"}
    /\ Returns("doubt")

SendNext ==
    \/ Reach \/ Succeeds \/ RejectsFormat \/ Rejects
    \/ FailsForNow \/ TriesAgain \/ GivesUp

SendSpec == SendInit /\ [][SendNext]_sendVars

-----------------------------------------------------------------------------
OrdinarySendTypeOK ==
    /\ messages \in 1..MostMessages
    /\ rich \in BOOLEAN
    /\ message \in 1..messages
    /\ attempt \in 1..Attempts
    /\ plain \in BOOLEAN
    /\ step \in {"calling", "pausing", "done"}
    /\ reached \in BOOLEAN
    /\ taken \in SUBSET (1..messages)
    /\ outcome \in {"none", "sent", "final", "limited", "doubt"}

(* Whatever is retried, replaced by plain text or cut short, the call does *)
(* what its callers are promised: it never skips a message, and reports    *)
(* success only when Feishu has taken them all.                            *)
Promise == INSTANCE MessageSend
              WITH total <- messages, sent <- Cardinality(taken), result <- outcome

KeepsPromise == Promise!Spec

=============================================================================
