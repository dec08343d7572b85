---------------------------- MODULE DeviceStore ----------------------------
(***************************************************************************)
(* The devices table of the relay (internal/database) and the operations   *)
(* that change it, each issued by the REST API, the admin UI, the CLI or a *)
(* connected device's control message.                                     *)
(*                                                                         *)
(* A statement or transaction of SQLite is one step: the server owns a     *)
(* single connection (SetMaxOpenConns(1)) and SQLite locks the file        *)
(* against the CLI's process.  DeleteDevice is two statements and thus two *)
(* steps, with every other operation free to run in between, and the       *)
(* second one may fail or never be reached.                                *)
(***************************************************************************)
EXTENDS FiniteSets

CONSTANTS
    DeviceID,      \* the UUIDs the server may hand out
    StaticKey,     \* the keys devices may announce
    NULL,          \* SQL NULL
    ForeignKeys    \* whether the SQLite connection enforces REFERENCES

ASSUME NullAssumption ==
    NULL \notin DeviceID \cup StaticKey \cup {"ahead", "passed"}
ASSUME ForeignKeysAssumption == ForeignKeys \in BOOLEAN

VARIABLES
    issued,        \* ids ever handed out: uuid.NewString never repeats one
    devices,       \* the ids that have a row
    pairedWith,    \* column paired_with
    staticKey,     \* column static_key
    expiresAt,     \* column expires_at: not yet passed, passed, or NULL
    halfDeleted    \* ids whose DeleteDevice ran its first statement but not its second

vars == <<issued, devices, pairedWith, staticKey, expiresAt, halfDeleted>>

TypeOK ==
    /\ issued \subseteq DeviceID
    /\ devices \subseteq issued
    /\ pairedWith \in [DeviceID -> DeviceID \cup {NULL}]
    /\ staticKey \in [DeviceID -> StaticKey \cup {NULL}]
    /\ expiresAt \in [DeviceID -> {"ahead", "passed", NULL}]
    /\ halfDeleted \subseteq issued

Init ==
    /\ issued = {}
    /\ devices = {}
    /\ pairedWith = [d \in DeviceID |-> NULL]
    /\ staticKey = [d \in DeviceID |-> NULL]
    /\ expiresAt = [d \in DeviceID |-> NULL]
    /\ halfDeleted = {}

-----------------------------------------------------------------------------
(* Clearing the links that satisfy a WHERE clause.                         *)
ClearLinks(S) ==
    pairedWith' = [d \in DeviceID |-> IF d \in S THEN NULL ELSE pairedWith[d]]

PointingAt(id) == {d \in devices : pairedWith[d] = id}

(* Faulty variant: an id is not remembered as handed out.                  *)
CreateDeviceUnrecorded(id) ==
    /\ id \notin devices
    /\ devices' = devices \cup {id}
    /\ expiresAt' = [expiresAt EXCEPT ![id] = "ahead"]
    /\ UNCHANGED <<issued, pairedWith, staticKey, halfDeleted>>

(* NewDevice draws a fresh id with an expiry deviceTokenTTL ahead, and     *)
(* CreateDevice inserts it.                                                *)
CreateDevice(id) ==
    /\ id \notin issued
    /\ issued' = issued \cup {id}
    /\ devices' = devices \cup {id}
    /\ expiresAt' = [expiresAt EXCEPT ![id] = "ahead"]
    /\ UNCHANGED <<pairedWith, staticKey, halfDeleted>>

(* deviceTokenTTL elapses.                                                 *)
TokenTTLElapses(id) ==
    /\ expiresAt[id] = "ahead"
    /\ expiresAt' = [expiresAt EXCEPT ![id] = "passed"]
    /\ UNCHANGED <<issued, devices, pairedWith, staticKey, halfDeleted>>

(* Faulty variant: only the first device is checked to be unpaired.        *)
CanPairUnchecked(idA, idB) ==
    /\ {idA, idB} \subseteq devices
    /\ pairedWith[idA] = NULL

(* Both rows must exist and be unpaired, otherwise the transaction rolls   *)
(* back.  The map literal {idA: idB, idB: idA} has one entry if idA = idB. *)
CanPair(idA, idB) ==
    /\ {idA, idB} \subseteq devices
    /\ pairedWith[idA] = NULL
    /\ pairedWith[idB] = NULL

(* Faulty variant: the UPDATE leaves expires_at alone.                     *)
PairDevicesKeepExpiry(idA, idB) ==
    /\ CanPair(idA, idB)
    /\ pairedWith' = [pairedWith EXCEPT ![idA] = idB, ![idB] = idA]
    /\ UNCHANGED <<issued, devices, staticKey, expiresAt, halfDeleted>>

PairDevices(idA, idB) ==
    /\ CanPair(idA, idB)
    /\ pairedWith' = [pairedWith EXCEPT ![idA] = idB, ![idB] = idA]
    /\ expiresAt' = [expiresAt EXCEPT ![idA] = NULL, ![idB] = NULL]
    /\ UNCHANGED <<issued, devices, staticKey, halfDeleted>>

(* Faulty variant: WHERE id = ? without OR paired_with = ?.                *)
UnpairDeviceOneSided(id) ==
    /\ ClearLinks({id})
    /\ UNCHANGED <<issued, devices, staticKey, expiresAt, halfDeleted>>

UnpairDevice(id) ==
    /\ ClearLinks({id} \cup PointingAt(id))
    /\ UNCHANGED <<issued, devices, staticKey, expiresAt, halfDeleted>>

(* Faulty variant: a later announcement replaces the key.                  *)
SetStaticKeyAlways(id, key) ==
    /\ id \in devices
    /\ staticKey' = [staticKey EXCEPT ![id] = key]
    /\ UNCHANGED <<issued, devices, pairedWith, expiresAt, halfDeleted>>

SetStaticKeyIfUnset(id, key) ==
    /\ id \in devices
    /\ staticKey[id] = NULL
    /\ staticKey' = [staticKey EXCEPT ![id] = key]
    /\ UNCHANGED <<issued, devices, pairedWith, expiresAt, halfDeleted>>

(* DeleteDevice, first statement: the links that point at id.              *)
DeleteDeviceLinks(id) ==
    /\ id \in devices
    /\ ClearLinks(PointingAt(id))
    /\ halfDeleted' = halfDeleted \cup {id}
    /\ UNCHANGED <<issued, devices, staticKey, expiresAt>>

(* Faulty variant: the column has no ON DELETE SET NULL.                   *)
DeleteDeviceRowOnly(id) ==
    /\ id \in halfDeleted
    /\ id \in devices
    /\ devices' = devices \ {id}
    /\ halfDeleted' = halfDeleted \ {id}
    /\ ClearLinks({id})
    /\ staticKey' = [staticKey EXCEPT ![id] = NULL]
    /\ expiresAt' = [expiresAt EXCEPT ![id] = NULL]
    /\ UNCHANGED issued

(* DeleteDevice, second statement: the row.  With foreign keys enforced,   *)
(* ON DELETE SET NULL clears the links made since the first statement.     *)
DeleteDeviceRow(id) ==
    /\ id \in halfDeleted
    /\ id \in devices
    /\ devices' = devices \ {id}
    /\ halfDeleted' = halfDeleted \ {id}
    /\ ClearLinks({id} \cup (IF ForeignKeys THEN PointingAt(id) ELSE {}))
    /\ staticKey' = [staticKey EXCEPT ![id] = NULL]
    /\ expiresAt' = [expiresAt EXCEPT ![id] = NULL]
    /\ UNCHANGED issued

-----------------------------------------------------------------------------
(* The callers.  POST /api/v1/devices and `relayly pair` both register a   *)
(* device, and announce_key is answered with an error when the key is not  *)
(* the locked one.  The admin UI refuses to pair a device with itself (and *)
(* so does pair_accept, see Pairing); `relayly link` passes both its       *)
(* arguments through.                                                      *)
HandleCreateDevice(id) == CreateDevice(id)
RunPair(id) == CreateDevice(id)
HandleAnnounceKey(id, key) == SetStaticKeyIfUnset(id, key)
AdminPairDevices(id1, id2) == id1 # id2 /\ PairDevices(id1, id2)
RunLink(id1, id2) == PairDevices(id1, id2)

Next ==
    \E idA \in DeviceID :
        \/ HandleCreateDevice(idA)
        \/ RunPair(idA)
        \/ TokenTTLElapses(idA)
        \/ UnpairDevice(idA)
        \/ DeleteDeviceLinks(idA)
        \/ DeleteDeviceRow(idA)
        \/ \E key \in StaticKey : HandleAnnounceKey(idA, key)
        \/ \E idB \in DeviceID :
              \/ AdminPairDevices(idA, idB)
              \/ RunLink(idA, idB)

Spec == Init /\ [][Next]_vars

-----------------------------------------------------------------------------
(* Links are symmetric: if a's row names b, b's row names a.  A device     *)
(* whose DeleteDevice stopped between its two statements is the exception: *)
(* its own link survives the one that pointed back at it.                  *)
LinksSymmetric ==
    \A a \in devices \ halfDeleted, b \in devices :
        pairedWith[a] = b => pairedWith[b] = a

(* No row names a device that has no row, provided SQLite enforces the     *)
(* REFERENCES clause: a PairDevices that runs between DeleteDevice's two   *)
(* statements is undone by ON DELETE SET NULL and by nothing else.         *)
NoDanglingLinks ==
    ForeignKeys => \A d \in devices : pairedWith[d] \in devices \cup {NULL}

(* A paired device's token does not expire (docs/PROTOCOL.md section 2):   *)
(* PairDevices clears expires_at of both rows in the transaction that      *)
(* links them.                                                             *)
PairedNeverExpires ==
    \A d \in devices : pairedWith[d] # NULL => expiresAt[d] = NULL

(* The first announced key is locked (docs/PROTOCOL.md section 7.2): no    *)
(* operation changes it as long as the row exists.                         *)
KeyIsLocked ==
    [][\A d \in devices \cap devices' :
          staticKey[d] # NULL => staticKey'[d] = staticKey[d]]_vars

(***************************************************************************)
(* What the table promises its clients: a set of devices, some of them     *)
(* joined in pairs (module Pairs).  A device has a partner if its row and  *)
(* the row it names name each other.                                       *)
(***************************************************************************)
Mutual(d) ==
    /\ pairedWith[d] \in devices
    /\ pairedWith[pairedWith[d]] = d

partnerOf == [d \in DeviceID |-> IF Mutual(d) THEN pairedWith[d] ELSE NULL]

Promise == INSTANCE Pairs
    WITH Member <- DeviceID, Nobody <- NULL,
         members <- devices, partner <- partnerOf

(* Every step of the table is a step of Pairs: devices join, two free ones *)
(* are joined, a pair is parted, a device leaves and frees its partner,    *)
(* even while a DeleteDevice is half done.                                 *)
RefinesPairs == Promise!Spec
=============================================================================
