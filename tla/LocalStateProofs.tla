------------------------- MODULE LocalStateProofs -------------------------
(***************************************************************************)
(* Proofs about module LocalState, for any peers and keys, any number of   *)
(* starts and any number of failures.                                      *)
(*                                                                         *)
(* IdentityInv relates the program's memory to its files: from the moment  *)
(* it has connected once, both files are complete and are what it uses.    *)
(* PinsInv says that memory never has less than the disk, and that without *)
(* failed saves what was accepted is what the disk has.                    *)
(***************************************************************************)
EXTENDS LocalState, TLAPS

Running == Saving \cup {"run"}

IdentityInv ==
    /\ pc = "truncateKey" => keyFile = NULL /\ own \in Nat
    /\ pc = "writeKey" => keyFile = Torn /\ own \in Nat
    /\ pc \in {"creds", "truncateCreds", "writeCreds", "peers"} \cup Running =>
           own = keyFile /\ own \in Nat
    /\ pc \in {"truncateCreds", "writeCreds"} => credsFile \in {NULL, Torn} /\ id \in Nat
    /\ pc \in {"peers"} \cup Running => id = credsFile /\ id \in Nat
    /\ \A u \in used : u = <<credsFile, keyFile>> /\ credsFile \in Nat /\ keyFile \in Nat

OnFile(p) == IF peersFile = NULL THEN NULL ELSE peersFile[p]

PinsInv ==
    /\ pc \in Running => \A p \in Peer : OnFile(p) # NULL => peers[p] = OnFile(p)
    /\ pc = "rename" => tmpFile = peers
    /\ pc \in Saving => pinning \in Peer \X StaticKey /\ peers[pinning[1]] = pinning[2]
    /\ ~unsaved /\ pc = "run" => \A p \in Peer : peers[p] = OnFile(p)
    /\ ~unsaved => \A u \in accepted : OnFile(u[1]) = u[2]

Inv == TypeOK /\ IdentityInv /\ PinsInv

(* The invariant holds at the start and is kept by every step.             *)
LEMMA InitInv == Init => Inv
BY FileAssumption
DEF Init, Inv, TypeOK, IdentityInv, PinsInv, Pins, NoPins, Starting, Saving, Running, OnFile

(* Every step keeps the invariant.                                         *)
LEMMA NextInv == Inv /\ [Next]_vars => Inv'
<1> SUFFICES ASSUME Inv, [Next]_vars PROVE Inv'
  OBVIOUS
<1> USE FileAssumption DEF Inv, Step, Starting, Saving, Running, memory, files, counters, ghosts
<1>1. CASE Start
  <2>1. TypeOK'
    BY <1>1 DEF Start, TypeOK, IdentityInv, PinsInv, Pins, NoPins
  <2>2. IdentityInv'
    BY <1>1 DEF Start, TypeOK, IdentityInv
  <2>3. PinsInv'
    BY <1>1 DEF Start, TypeOK, PinsInv, Pins, NoPins, OnFile
  <2> QED BY <2>1, <2>2, <2>3
<1>2. CASE LoadKey
  <2>1. TypeOK'
    BY <1>2 DEF LoadKey, TypeOK, IdentityInv, PinsInv, Pins, NoPins
  <2>2. IdentityInv'
    BY <1>2 DEF LoadKey, TypeOK, IdentityInv
  <2>3. PinsInv'
    BY <1>2 DEF LoadKey, TypeOK, PinsInv, Pins, NoPins, OnFile
  <2> QED BY <2>1, <2>2, <2>3
<1>3. CASE GenerateKey
  <2>1. TypeOK'
    BY <1>3 DEF GenerateKey, TypeOK, IdentityInv, PinsInv, Pins, NoPins
  <2>2. IdentityInv'
    BY <1>3 DEF GenerateKey, TypeOK, IdentityInv
  <2>3. PinsInv'
    BY <1>3 DEF GenerateKey, TypeOK, PinsInv, Pins, NoPins, OnFile
  <2> QED BY <2>1, <2>2, <2>3
<1>4. CASE TruncateKey
  <2>1. TypeOK'
    BY <1>4 DEF TruncateKey, TypeOK, IdentityInv, PinsInv, Pins, NoPins
  <2>2. IdentityInv'
    BY <1>4 DEF TruncateKey, TypeOK, IdentityInv
  <2>3. PinsInv'
    BY <1>4 DEF TruncateKey, TypeOK, PinsInv, Pins, NoPins, OnFile
  <2> QED BY <2>1, <2>2, <2>3
<1>5. CASE WriteKey
  <2>1. TypeOK'
    BY <1>5 DEF WriteKey, TypeOK, IdentityInv, PinsInv, Pins, NoPins
  <2>2. IdentityInv'
    BY <1>5 DEF WriteKey, TypeOK, IdentityInv
  <2>3. PinsInv'
    BY <1>5 DEF WriteKey, TypeOK, PinsInv, Pins, NoPins, OnFile
  <2> QED BY <2>1, <2>2, <2>3
<1>6. CASE KeyInvalid
  <2>1. TypeOK'
    BY <1>6 DEF KeyInvalid, Down, TypeOK, IdentityInv, PinsInv, Pins, NoPins
  <2>2. IdentityInv'
    BY <1>6 DEF KeyInvalid, Down, TypeOK, IdentityInv
  <2>3. PinsInv'
    BY <1>6 DEF KeyInvalid, Down, TypeOK, PinsInv, Pins, NoPins, OnFile
  <2> QED BY <2>1, <2>2, <2>3
<1>7. CASE LoadCreds
  <2>1. TypeOK'
    BY <1>7 DEF LoadCreds, TypeOK, IdentityInv, PinsInv, Pins, NoPins
  <2>2. IdentityInv'
    BY <1>7 DEF LoadCreds, TypeOK, IdentityInv
  <2>3. PinsInv'
    BY <1>7 DEF LoadCreds, TypeOK, PinsInv, Pins, NoPins, OnFile
  <2> QED BY <2>1, <2>2, <2>3
<1>8. CASE Register
  <2>1. TypeOK'
    BY <1>8 DEF Register, TypeOK, IdentityInv, PinsInv, Pins, NoPins
  <2>2. IdentityInv'
    BY <1>8 DEF Register, TypeOK, IdentityInv
  <2>3. PinsInv'
    BY <1>8 DEF Register, TypeOK, PinsInv, Pins, NoPins, OnFile
  <2> QED BY <2>1, <2>2, <2>3
<1>9. CASE TruncateCreds
  <2>1. TypeOK'
    BY <1>9 DEF TruncateCreds, TypeOK, IdentityInv, PinsInv, Pins, NoPins
  <2>2. IdentityInv'
    BY <1>9 DEF TruncateCreds, TypeOK, IdentityInv
  <2>3. PinsInv'
    BY <1>9 DEF TruncateCreds, TypeOK, PinsInv, Pins, NoPins, OnFile
  <2> QED BY <2>1, <2>2, <2>3
<1>10. CASE WriteCreds
  <2>1. TypeOK'
    BY <1>10 DEF WriteCreds, TypeOK, IdentityInv, PinsInv, Pins, NoPins
  <2>2. IdentityInv'
    BY <1>10 DEF WriteCreds, TypeOK, IdentityInv
  <2>3. PinsInv'
    BY <1>10 DEF WriteCreds, TypeOK, PinsInv, Pins, NoPins, OnFile
  <2> QED BY <2>1, <2>2, <2>3
<1>11. CASE LoadPeerStore
  <2>1. TypeOK'
    BY <1>11 DEF LoadPeerStore, TypeOK, IdentityInv, PinsInv, Pins, NoPins
  <2>2. IdentityInv'
    BY <1>11 DEF LoadPeerStore, TypeOK, IdentityInv
  <2>3. PinsInv'
    BY <1>11 DEF LoadPeerStore, TypeOK, PinsInv, Pins, NoPins, OnFile
  <2> QED BY <2>1, <2>2, <2>3
<1>12. CASE TruncateTmp
  <2>1. TypeOK'
    BY <1>12 DEF TruncateTmp, TypeOK, IdentityInv, PinsInv, Pins, NoPins
  <2>2. IdentityInv'
    BY <1>12 DEF TruncateTmp, TypeOK, IdentityInv
  <2>3. PinsInv'
    BY <1>12 DEF TruncateTmp, TypeOK, PinsInv, Pins, NoPins, OnFile
  <2> QED BY <2>1, <2>2, <2>3
<1>13. CASE WriteTmp
  <2>1. TypeOK'
    BY <1>13 DEF WriteTmp, TypeOK, IdentityInv, PinsInv, Pins, NoPins
  <2>2. IdentityInv'
    BY <1>13 DEF WriteTmp, TypeOK, IdentityInv
  <2>3. PinsInv'
    BY <1>13 DEF WriteTmp, TypeOK, PinsInv, Pins, NoPins, OnFile
  <2> QED BY <2>1, <2>2, <2>3
<1>14. CASE Rename
  <2>1. TypeOK'
    BY <1>14 DEF Rename, TypeOK, IdentityInv, PinsInv, Pins, NoPins
  <2>2. IdentityInv'
    BY <1>14 DEF Rename, TypeOK, IdentityInv
  <2>3. PinsInv'
    BY <1>14 DEF Rename, TypeOK, PinsInv, Pins, NoPins, OnFile
  <2> QED BY <2>1, <2>2, <2>3
<1>15. CASE StartFails
  <2>1. TypeOK'
    BY <1>15 DEF StartFails, Down, TypeOK, IdentityInv, PinsInv, Pins, NoPins
  <2>2. IdentityInv'
    BY <1>15 DEF StartFails, Down, TypeOK, IdentityInv
  <2>3. PinsInv'
    BY <1>15 DEF StartFails, Down, TypeOK, PinsInv, Pins, NoPins, OnFile
  <2> QED BY <2>1, <2>2, <2>3
<1>16. CASE SaveFails
  <2>1. TypeOK'
    BY <1>16 DEF SaveFails, TypeOK, IdentityInv, PinsInv, Pins, NoPins
  <2>2. IdentityInv'
    BY <1>16 DEF SaveFails, TypeOK, IdentityInv
  <2>3. PinsInv'
    BY <1>16 DEF SaveFails, TypeOK, PinsInv, Pins, NoPins, OnFile
  <2> QED BY <2>1, <2>2, <2>3
<1>17. CASE Stop
  <2>1. TypeOK'
    BY <1>17 DEF Stop, Down, TypeOK, IdentityInv, PinsInv, Pins, NoPins
  <2>2. IdentityInv'
    BY <1>17 DEF Stop, Down, TypeOK, IdentityInv
  <2>3. PinsInv'
    BY <1>17 DEF Stop, Down, TypeOK, PinsInv, Pins, NoPins, OnFile
  <2> QED BY <2>1, <2>2, <2>3
<1>18. ASSUME NEW p \in Peer, NEW k \in StaticKey, Verify(p, k) PROVE Inv'
  <2>1. TypeOK'
    BY <1>18 DEF Verify, TypeOK, IdentityInv, PinsInv, Pins, NoPins
  <2>2. IdentityInv'
    BY <1>18 DEF Verify, TypeOK, IdentityInv
  <2>3. PinsInv'
    BY <1>18 DEF Verify, TypeOK, PinsInv, Pins, NoPins, OnFile
  <2> QED BY <2>1, <2>2, <2>3
<1>19. ASSUME NEW p \in Peer, NEW k \in StaticKey, Pin(p, k) PROVE Inv'
  <2>1. TypeOK'
    BY <1>19 DEF Pin, TypeOK, IdentityInv, PinsInv, Pins, NoPins
  <2>2. IdentityInv'
    BY <1>19 DEF Pin, TypeOK, IdentityInv
  <2>3. PinsInv'
    BY <1>19 DEF Pin, TypeOK, PinsInv, Pins, NoPins, OnFile
  <2> QED BY <2>1, <2>2, <2>3
<1>20. CASE UNCHANGED vars
  <2>1. TypeOK'
    BY <1>20 DEF vars, TypeOK, IdentityInv, PinsInv, Pins, NoPins
  <2>2. IdentityInv'
    BY <1>20 DEF vars, TypeOK, IdentityInv
  <2>3. PinsInv'
    BY <1>20 DEF vars, TypeOK, PinsInv, Pins, NoPins, OnFile
  <2> QED BY <2>1, <2>2, <2>3
<1> QED BY <1>1, <1>2, <1>3, <1>4, <1>5, <1>6, <1>7, <1>8, <1>9, <1>10, <1>11, <1>12, <1>13, <1>14, <1>15, <1>16, <1>17, <1>18, <1>19, <1>20 DEF Next

(* The invariant, and with it TypeOK: peers.json is never left torn,       *)
(* wherever saveLocked is interrupted.                                     *)
THEOREM Invariance == Spec => []Inv
BY InitInv, NextInv, PTL DEF Spec

(* Every variable has its type.                                            *)
THEOREM Typing == Spec => []TypeOK
BY Invariance, PTL DEF Inv

(* The program connects with one device ID and one key for ever            *)
(* (LoadOrGenerateKey, registerOrLoadDevice).                              *)
THEOREM Identity == Spec => []OneIdentity
<1>1. Inv => OneIdentity
  BY DEF Inv, IdentityInv, OneIdentity
<1> QED BY <1>1, Invariance, PTL

(* A pin that reached the disk stays there (PinOrVerify, saveLocked).      *)
THEOREM PinsArePermanent == Spec => PinsStay
<1> DEFINE Kept == peersFile # NULL =>
              peersFile' # NULL /\ \A p \in Peer :
                  peersFile[p] # NULL => peersFile'[p] = peersFile[p]
<1>1. ASSUME Inv, [Next]_vars PROVE Kept
  <2>1. CASE Rename
    BY <1>1, <2>1, FileAssumption
    DEF Inv, TypeOK, PinsInv, OnFile, Rename, Step, Running, Saving, Pins
  <2>2. CASE ~Rename
    <3>1. peersFile' = peersFile
      BY <1>1, <2>2
      DEF Next, Start, LoadKey, GenerateKey, TruncateKey, WriteKey, KeyInvalid, LoadCreds,
          Register, TruncateCreds, WriteCreds, LoadPeerStore, Verify, Pin, TruncateTmp,
          WriteTmp, StartFails, SaveFails, Stop, vars, files
    <3> QED BY <3>1
  <2> QED BY <2>1, <2>2
<1>2. ASSUME Inv, [Next]_vars PROVE [Kept]_vars
  BY <1>1, <1>2
<1> HIDE DEF Kept
<1>3. Spec => [][Kept]_vars
  BY <1>2, Invariance, PTL DEF Spec
<1> QED BY <1>3, PTL DEF PinsStay, Kept

(* Unless a save failed, no peer is ever accepted with two keys            *)
(* (PinOrVerify).                                                          *)
THEOREM OneKey == Spec => []OneKeyPerPeer
<1>1. Inv => OneKeyPerPeer
  BY DEF Inv, PinsInv, OneKeyPerPeer
<1> QED BY <1>1, Invariance, PTL
=============================================================================
