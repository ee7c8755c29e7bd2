---------------------------- MODULE OwnershipStore ----------------------------
(***************************************************************************)
(* The ownership store: which provider authored which message, kept in     *)
(* memory and in one snapshot file, so that a reaction on a message finds  *)
(* its author after a restart.                                             *)
(*                                                                         *)
(* A message has one author for good, so an owner is its expiry, 0 when    *)
(* there is none.  Put and Lookup hold the store's mutex for their whole   *)
(* call; what can come between their steps is the end of the process or of *)
(* the machine, and the failure of any of the file operations.             *)
(***************************************************************************)
EXTENDS Clock, Integers, FiniteSets

CONSTANTS
    Authored,       \* messages agents have posted
    OwnerTTL,       \* agentOwnershipTTL
    Room,           \* owners a snapshot of 8 MiB holds
    OwnershipUntil  \* bound: the clock stops here

ASSUME OwnershipAssumption ==
    /\ OwnerTTL \in Nat \ {0}              \* Open refuses any other
    /\ Room \in Nat
    /\ OwnershipUntil \in Nat \ {0}

VARIABLES
    store,          \* "down", "open", or "refused" by Open
    owners,         \* Store.owners: message -> expiry
    file,           \* the snapshot under FileName
    durable,        \* the snapshots a power failure may leave there
    persisting,     \* how far persistLocked is: "idle", "temp", "renamed"
    put,            \* the messages whose Put is being persisted: none, or one
    acked,          \* history: message -> expiry of the last Put that succeeded
    crowded         \* history: more owners than Room were unexpired at once

ownershipVars ==
    <<now, store, owners, file, durable, persisting, put, acked, crowded>>

NoOwners == [m \in Authored |-> 0]

OwnershipInit ==
    /\ now = 1
    /\ store = "down"
    /\ owners = NoOwners
    /\ file = NoOwners
    /\ durable = {NoOwners}
    /\ persisting = "idle"
    /\ put = {}
    /\ acked = NoOwners
    /\ crowded = FALSE

(* load: the decoder reads at most 8 MiB, so a larger snapshot does not    *)
(* parse, and a snapshot that does not parse keeps the daemon from         *)
(* starting.  What has expired is loaded with the rest.                    *)
Fits(snapshot) == Cardinality({m \in Authored : snapshot[m] # 0}) <= Room

Open ==
    /\ store = "down"
    /\ store' = IF Fits(file) THEN "open" ELSE "refused"
    /\ owners' = IF Fits(file) THEN file ELSE owners
    /\ UNCHANGED <<now, file, durable, persisting, put, acked, crowded>>

(* The owner is in memory before it is on disk, and stays there when       *)
(* writing it fails.                                                       *)
Put(m) ==
    /\ store = "open" /\ persisting = "idle"
    /\ owners' = [owners EXCEPT ![m] = now + OwnerTTL]
    /\ put' = {m}
    /\ persisting' = "temp"
    /\ crowded' = (crowded \/ Cardinality({n \in Authored : now < owners'[n]}) > Room)
    /\ UNCHANGED <<now, store, file, durable, acked>>

Unexpired(m) == now < owners[m]

(* A lookup of an owner whose time is over deletes it and writes the       *)
(* snapshot; any other lookup changes nothing.                             *)
Lookup(m) ==
    /\ store = "open" /\ persisting = "idle"
    /\ owners[m] # 0 /\ ~Unexpired(m)
    /\ owners' = [owners EXCEPT ![m] = 0]
    /\ persisting' = "temp"
    /\ UNCHANGED <<now, store, file, durable, put, acked, crowded>>

(* The temporary file is written, synced and renamed over the snapshot.    *)
Rename ==
    /\ persisting = "temp"
    /\ file' = owners
    /\ durable' = durable \cup {owners}
    /\ persisting' = "renamed"
    /\ UNCHANGED <<now, store, owners, put, acked, crowded>>

(* Mutation of Synced: the call succeeds once the file is renamed.         *)
AckedWhenRenamed ==
    /\ persisting = "renamed"
    /\ acked' = [m \in Authored |-> IF m \in put THEN owners[m] ELSE acked[m]]
    /\ persisting' = "idle"
    /\ put' = {}
    /\ UNCHANGED <<now, store, owners, file, durable, crowded>>

(* The directory is synced: only now does the call succeed.                *)
Synced ==
    /\ persisting = "renamed"
    /\ durable' = {file}
    /\ acked' = [m \in Authored |-> IF m \in put THEN owners[m] ELSE acked[m]]
    /\ persisting' = "idle"
    /\ put' = {}
    /\ UNCHANGED <<now, store, owners, file, crowded>>

(* A file operation fails, before the rename or after it; the call returns *)
(* an error and everything done so far stays.                              *)
PersistFails ==
    /\ persisting # "idle"
    /\ persisting' = "idle"
    /\ put' = {}
    /\ UNCHANGED <<now, store, owners, file, durable, acked, crowded>>

(* The process ends, or fails to start and is started again; with it the   *)
(* machine may lose the renames that were never synced.                    *)
Stop ==
    /\ store # "down"
    /\ store' = "down"
    /\ owners' = NoOwners
    /\ persisting' = "idle"
    /\ put' = {}
    /\ \/ UNCHANGED <<file, durable>>
       \/ \E s \in durable : file' = s /\ durable' = {s}
    /\ UNCHANGED <<now, acked, crowded>>

OwnershipTick ==
    /\ Tick(OwnershipUntil)
    /\ UNCHANGED <<store, owners, file, durable, persisting, put, acked, crowded>>

OwnershipNext ==
    \/ Open
    \/ \E m \in Authored : Put(m) \/ Lookup(m)
    \/ Rename
    \/ Synced
    \/ PersistFails
    \/ Stop
    \/ OwnershipTick

OwnershipSpec == OwnershipInit /\ [][OwnershipNext]_ownershipVars

-----------------------------------------------------------------------------
(* The values a snapshot may hold.                                         *)
Expiry == {0} \cup (OwnerTTL + 1)..(OwnershipUntil + OwnerTTL)

OwnershipTypeOK ==
    /\ now \in 1..OwnershipUntil
    /\ store \in {"down", "open", "refused"}
    /\ owners \in [Authored -> Expiry]
    /\ file \in [Authored -> Expiry]
    /\ durable \in SUBSET [Authored -> Expiry]
    /\ persisting \in {"idle", "temp", "renamed"}
    /\ put \in SUBSET Authored
    /\ acked \in [Authored -> Expiry]
    /\ crowded \in BOOLEAN

(* docs/ipc.md: "botd atomically persists the opaque ownership mapping for *)
(* 24 hours so a restart does not make old messages ownerless".  Until an  *)
(* acknowledged owner expires, every snapshot that a crash or a power      *)
(* failure can leave has it, and so has the memory of an open store:       *)
(* whatever failed or was looked up in between, and in whatever order.     *)
Keeps(snapshot) == \A m \in Authored : now < acked[m] => snapshot[m] >= acked[m]

AckedOwnersSurvive ==
    /\ Keeps(file)
    /\ \A s \in durable : Keeps(s)
    /\ store = "open" => Keeps(owners)

(* docs/deployment.md says of the snapshot that it "expires ownership      *)
(* after 24 hours" and "survives restart".  Read together: a daemon that   *)
(* never had more unexpired owners than a snapshot holds opens its own     *)
(* snapshot.  Expired owners leave only when someone looks them up,        *)
(* though, and take room until then.                                       *)
LiveOwnersReopen == store = "refused" => crowded

=============================================================================
