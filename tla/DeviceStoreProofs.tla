------------------------- MODULE DeviceStoreProofs -------------------------
(***************************************************************************)
(* Proofs about DeviceStore for any set of devices and keys, whether or    *)
(* not SQLite enforces foreign keys.                                       *)
(***************************************************************************)
EXTENDS DeviceStore, TLAPS

(***************************************************************************)
(* The strengthening that makes the invariants inductive: an id without a  *)
(* row carries no data, and a link only ever names an id that was handed   *)
(* out, so a fresh id is pointed at by nobody.                             *)
(***************************************************************************)
NoRowNoData ==
    \A d \in DeviceID \ devices :
        pairedWith[d] = NULL /\ staticKey[d] = NULL

LinksNameIssued == \A d \in DeviceID : pairedWith[d] \in issued \cup {NULL}

IInv ==
    /\ TypeOK
    /\ NoRowNoData
    /\ LinksNameIssued
    /\ LinksSymmetric
    /\ NoDanglingLinks
    /\ PairedNeverExpires

(* The invariant holds of the empty store.                                 *)
LEMMA InitIInv == Init => IInv
BY NullAssumption
   DEF Init, IInv, TypeOK, NoRowNoData, LinksNameIssued, LinksSymmetric,
       NoDanglingLinks, PairedNeverExpires

(* Each call of the store keeps the invariant: inserting a device ...      *)
LEMMA CreateDeviceIInv ==
    ASSUME IInv, NEW id \in DeviceID, CreateDevice(id)
    PROVE  IInv'
<1> USE NullAssumption DEF IInv
<1>1. TypeOK' /\ NoRowNoData' /\ LinksNameIssued'
  BY DEF CreateDevice, TypeOK, NoRowNoData, LinksNameIssued
<1>2. id \notin devices /\ pairedWith[id] = NULL
  BY DEF CreateDevice, TypeOK, NoRowNoData
<1>3. LinksSymmetric'
  BY <1>2 DEF CreateDevice, TypeOK, LinksSymmetric, LinksNameIssued
<1>4. NoDanglingLinks'
  BY <1>2 DEF CreateDevice, TypeOK, NoDanglingLinks
<1>5. PairedNeverExpires'
  BY <1>2 DEF CreateDevice, TypeOK, PairedNeverExpires
<1> QED
  BY <1>1, <1>3, <1>4, <1>5

(* ... linking two devices, in one transaction ...                         *)
LEMMA PairDevicesIInv ==
    ASSUME IInv, NEW idA \in DeviceID, NEW idB \in DeviceID,
           PairDevices(idA, idB)
    PROVE  IInv'
<1> USE NullAssumption DEF IInv
<1>1. TypeOK' /\ NoRowNoData' /\ LinksNameIssued'
  BY DEF PairDevices, CanPair, TypeOK, NoRowNoData, LinksNameIssued
<1>2. LinksSymmetric'
  BY DEF PairDevices, CanPair, TypeOK, LinksSymmetric
<1>3. NoDanglingLinks'
  BY DEF PairDevices, CanPair, TypeOK, NoDanglingLinks
<1>4. PairedNeverExpires'
  BY DEF PairDevices, CanPair, TypeOK, PairedNeverExpires
<1> QED
  BY <1>1, <1>2, <1>3, <1>4

(* ... removing the links of one ...                                       *)
LEMMA UnpairDeviceIInv ==
    ASSUME IInv, NEW id \in DeviceID, UnpairDevice(id)
    PROVE  IInv'
<1> USE NullAssumption DEF IInv, ClearLinks, PointingAt, UnpairDevice
<1>1. TypeOK' /\ NoRowNoData' /\ LinksNameIssued'
  BY DEF TypeOK, NoRowNoData, LinksNameIssued
<1>2. LinksSymmetric'
  BY DEF TypeOK, LinksSymmetric
<1>3. NoDanglingLinks' /\ PairedNeverExpires'
  BY DEF TypeOK, NoDanglingLinks, PairedNeverExpires
<1> QED
  BY <1>1, <1>2, <1>3

(* ... and deleting one, its links first ...                               *)
LEMMA DeleteDeviceLinksIInv ==
    ASSUME IInv, NEW id \in DeviceID, DeleteDeviceLinks(id)
    PROVE  IInv'
<1> USE NullAssumption DEF IInv, ClearLinks, PointingAt, DeleteDeviceLinks
<1>1. TypeOK' /\ NoRowNoData' /\ LinksNameIssued'
  BY DEF TypeOK, NoRowNoData, LinksNameIssued
<1>2. LinksSymmetric'
  BY DEF TypeOK, LinksSymmetric
<1>3. NoDanglingLinks' /\ PairedNeverExpires'
  BY DEF TypeOK, NoDanglingLinks, PairedNeverExpires
<1> QED
  BY <1>1, <1>2, <1>3

(* ... and its row afterwards.                                             *)
LEMMA DeleteDeviceRowIInv ==
    ASSUME IInv, NEW id \in DeviceID, DeleteDeviceRow(id)
    PROVE  IInv'
<1> USE NullAssumption DEF IInv, ClearLinks, PointingAt, DeleteDeviceRow
<1>1. TypeOK' /\ NoRowNoData' /\ LinksNameIssued'
  BY DEF TypeOK, NoRowNoData, LinksNameIssued
<1>2. LinksSymmetric'
  BY DEF TypeOK, LinksSymmetric
<1>3. NoDanglingLinks'
  BY ForeignKeysAssumption DEF TypeOK, NoDanglingLinks
<1>4. PairedNeverExpires'
  BY DEF TypeOK, PairedNeverExpires
<1> QED
  BY <1>1, <1>2, <1>3, <1>4

(* Every step keeps the invariant.                                         *)
LEMMA NextIInv == IInv /\ [Next]_vars => IInv'
<1> SUFFICES ASSUME IInv, [Next]_vars PROVE IInv'
  OBVIOUS
<1> USE NullAssumption
<1>1. ASSUME NEW idA \in DeviceID, TokenTTLElapses(idA) PROVE IInv'
  BY <1>1 DEF IInv, TokenTTLElapses, TypeOK, NoRowNoData, LinksNameIssued,
              LinksSymmetric, NoDanglingLinks, PairedNeverExpires
<1>2. ASSUME NEW idA \in DeviceID, NEW key \in StaticKey,
             SetStaticKeyIfUnset(idA, key)
      PROVE  IInv'
  BY <1>2 DEF IInv, SetStaticKeyIfUnset, TypeOK, NoRowNoData, LinksNameIssued,
              LinksSymmetric, NoDanglingLinks, PairedNeverExpires
<1>3. CASE UNCHANGED vars
  BY <1>3 DEF vars, IInv, TypeOK, NoRowNoData, LinksNameIssued,
              LinksSymmetric, NoDanglingLinks, PairedNeverExpires
<1>4. CASE Next
  BY <1>4, <1>1, <1>2, CreateDeviceIInv, PairDevicesIInv, UnpairDeviceIInv,
     DeleteDeviceLinksIInv, DeleteDeviceRowIInv
     DEF Next, HandleCreateDevice, RunPair, HandleAnnounceKey, AdminPairDevices, RunLink
<1> QED
  BY <1>3, <1>4

(* The inductive invariant holds in every reachable state.                 *)
THEOREM StoreInvariant == Spec => []IInv
BY InitIInv, NextIInv, PTL DEF Spec

(* Every column of the table stays within its type.                        *)
THEOREM StoreTypeOK == Spec => []TypeOK
BY StoreInvariant, PTL DEF IInv

(* Links are symmetric, in every interleaving of the operations, except    *)
(* for a device whose DeleteDevice stopped half-way.                       *)
THEOREM StoreLinksSymmetric == Spec => []LinksSymmetric
BY StoreInvariant, PTL DEF IInv

(* With foreign keys enforced, no link outlives the device it names.       *)
THEOREM StoreNoDanglingLinks == Spec => []NoDanglingLinks
BY StoreInvariant, PTL DEF IInv

(* A paired device's token never expires.                                  *)
THEOREM StorePairedNeverExpires == Spec => []PairedNeverExpires
BY StoreInvariant, PTL DEF IInv

-----------------------------------------------------------------------------
(***************************************************************************)
(* Key locking: only SetStaticKeyIfUnset and the removal of a row touch    *)
(* static_key, the first only from NULL.                                   *)
(***************************************************************************)
LEMMA NextKeepsKeys ==
    ASSUME IInv, [Next]_vars,
           NEW d \in devices \cap devices', staticKey[d] # NULL
    PROVE  staticKey'[d] = staticKey[d]
<1> USE DEF IInv, TypeOK
<1>1. CASE UNCHANGED vars
  BY <1>1 DEF vars
<1>2. CASE Next
  BY <1>2 DEF Next, HandleCreateDevice, RunPair, HandleAnnounceKey,
              CreateDevice, TokenTTLElapses, UnpairDevice,
              DeleteDeviceLinks, DeleteDeviceRow, SetStaticKeyIfUnset,
              AdminPairDevices, RunLink, PairDevices
<1> QED
  BY <1>1, <1>2

(* No operation replaces an announced key while the device exists.         *)
THEOREM StoreKeyIsLocked == Spec => KeyIsLocked
<1>1. IInv /\ [Next]_vars =>
        [\A d \in devices \cap devices' :
            staticKey[d] # NULL => staticKey'[d] = staticKey[d]]_vars
  BY NextKeepsKeys
<1> QED
  BY <1>1, StoreInvariant, PTL DEF Spec, KeyIsLocked

-----------------------------------------------------------------------------
(***************************************************************************)
(* The table implements Pairs.  Each operation maps to the abstract step   *)
(* of the same meaning; clearing the links of a device maps to Part.       *)
(***************************************************************************)
LEMMA InitRefines == Init => Promise!Init
BY NullAssumption DEF Init, Promise!Init, partnerOf, Mutual

(* Each call is a step of the abstract pairing relation, or no step of it. *)
LEMMA CreateDeviceRefines ==
    ASSUME IInv, NEW id \in DeviceID, CreateDevice(id)
    PROVE  Promise!Join(id)
<1> USE NullAssumption DEF IInv, TypeOK, CreateDevice, partnerOf, Mutual
<1>1. \A d \in DeviceID : pairedWith[d] # id
  BY DEF LinksNameIssued
<1>2. partnerOf' = partnerOf
  BY <1>1
<1> QED
  BY <1>2 DEF Promise!Join

(* PairDevices links both directions at once.                              *)
LEMMA PairDevicesRefines ==
    ASSUME IInv, NEW idA \in DeviceID, NEW idB \in DeviceID,
           PairDevices(idA, idB)
    PROVE  Promise!Link(idA, idB)
<1> USE NullAssumption DEF IInv, TypeOK, PairDevices, CanPair
<1>1. partnerOf[idA] = NULL /\ partnerOf[idB] = NULL
  BY DEF partnerOf, Mutual
<1>2. partnerOf' = [partnerOf EXCEPT ![idA] = idB, ![idB] = idA]
  BY DEF partnerOf, Mutual
<1> QED
  BY <1>1, <1>2 DEF Promise!Link

(* UnpairDevice removes both directions at once.                           *)
LEMMA UnpairDeviceRefines ==
    ASSUME IInv, NEW id \in DeviceID, UnpairDevice(id)
    PROVE  Promise!Unlink(id)
<1> USE NullAssumption DEF IInv, TypeOK, UnpairDevice, ClearLinks, PointingAt
<1>1. partnerOf' = [x \in DeviceID |->
            IF x = id \/ partnerOf[x] = id THEN NULL ELSE partnerOf[x]]
  BY DEF partnerOf, Mutual, NoRowNoData
<1> QED
  BY <1>1 DEF Promise!Unlink, Promise!Part

(* Deleting a device first removes it from the relation ...                *)
LEMMA DeleteDeviceLinksRefines ==
    ASSUME IInv, NEW id \in DeviceID, DeleteDeviceLinks(id)
    PROVE  Promise!Unlink(id)
<1> USE NullAssumption
    DEF IInv, TypeOK, DeleteDeviceLinks, ClearLinks, PointingAt
<1>1. partnerOf' = [x \in DeviceID |->
            IF x = id \/ partnerOf[x] = id THEN NULL ELSE partnerOf[x]]
  BY DEF partnerOf, Mutual, NoRowNoData
<1> QED
  BY <1>1 DEF Promise!Unlink, Promise!Part

(* ... and then changes nothing of it.                                     *)
LEMMA DeleteDeviceRowRefines ==
    ASSUME IInv, NEW id \in DeviceID, DeleteDeviceRow(id)
    PROVE  Promise!Leave(id)
<1> USE NullAssumption
    DEF IInv, TypeOK, DeleteDeviceRow, ClearLinks, PointingAt
<1>1. partnerOf' = [x \in DeviceID |->
            IF x = id \/ partnerOf[x] = id THEN NULL ELSE partnerOf[x]]
  BY DEF partnerOf, Mutual, NoRowNoData
<1> QED
  BY <1>1 DEF Promise!Leave, Promise!Part

(* Every step implements a step of the abstract relation.                  *)
LEMMA NextRefines ==
    ASSUME IInv, [Next]_vars
    PROVE  [Promise!Next]_<<devices, partnerOf>>
<1>1. ASSUME UNCHANGED <<devices, pairedWith>>
      PROVE  UNCHANGED <<devices, partnerOf>>
  BY <1>1 DEF partnerOf, Mutual
<1>2. CASE UNCHANGED vars
  BY <1>1, <1>2 DEF vars
<1>3. ASSUME NEW idA \in DeviceID,
             \/ TokenTTLElapses(idA)
             \/ \E key \in StaticKey : SetStaticKeyIfUnset(idA, key)
      PROVE  UNCHANGED <<devices, partnerOf>>
  BY <1>1, <1>3 DEF TokenTTLElapses, SetStaticKeyIfUnset
<1>4. CASE Next
  <2>1. PICK idA \in DeviceID :
            \/ CreateDevice(idA)
            \/ TokenTTLElapses(idA)
            \/ UnpairDevice(idA)
            \/ DeleteDeviceLinks(idA)
            \/ DeleteDeviceRow(idA)
            \/ \E key \in StaticKey : SetStaticKeyIfUnset(idA, key)
            \/ \E idB \in DeviceID : PairDevices(idA, idB)
    BY <1>4 DEF Next, HandleCreateDevice, RunPair, HandleAnnounceKey, AdminPairDevices, RunLink
  <2> QED
    BY <2>1, <1>3, CreateDeviceRefines, UnpairDeviceRefines,
       DeleteDeviceLinksRefines, DeleteDeviceRowRefines, PairDevicesRefines
       DEF Promise!Next
<1> QED
  BY <1>2, <1>4

(* Whatever is interleaved with a half-done DeleteDevice, clients see a    *)
(* set of devices joined in mutual pairs.                                  *)
THEOREM StoreRefinesPairs == Spec => RefinesPairs
<1>1. IInv /\ [Next]_vars => [Promise!Next]_<<devices, partnerOf>>
  BY NextRefines
<1> QED
  BY <1>1, InitRefines, StoreInvariant, PTL
     DEF Spec, RefinesPairs, Promise!Spec
=============================================================================
