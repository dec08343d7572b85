--------------------------- MODULE PairingProofs ---------------------------
(***************************************************************************)
(* Whatever the interleaving of the handlers, the Hub, the admin UI and    *)
(* the CLI, routing and messages never get ahead of the devices table, and *)
(* no pairing code is redeemed twice.  While only in-band operations       *)
(* change the table, routing and messages also agree with it at rest.  The *)
(* table they share keeps what DeviceStore promises of it.                 *)
(***************************************************************************)
EXTENDS Pairing, TLAPS

Joined(d, e) == {d, e} \in linked

(* The pairs in the table, the ones a handler works on after its           *)
(* transaction, and the ones a new connection read, were all linked.       *)
RowsJoined == \A d \in DeviceID : pairedWith[d] # NULL => Joined(pairedWith[d], d)
SeenJoined == \A c \in Client : seen[c] # NULL => Joined(seen[c], DeviceOf(c))
PeerJoined == \A c \in Client : peer[c] # NULL => Joined(peer[c], DeviceOf(c))
ToldJoined == \A c \in Client : \A d \in told[c] : Joined(d, DeviceOf(c))
JobJoined ==
    \A c \in Client :
        job[c].pairing /\ pc[c] \in Working \ {"db"} => Joined(job[c].other, DeviceOf(c))

(* A job is with another device, and GetClient returned a client of it.    *)
JobOther ==
    \A c \in Client :
        /\ job[c].pairing => job[c].other \in DeviceID /\ job[c].other # DeviceOf(c)
        /\ pc[c] \in {"lookup", "peer", "tellpeer"} => job[c].other \in DeviceID
        /\ pc[c] \in {"peer", "tellpeer"} =>
               job[c].found \in Client /\ DeviceOf(job[c].found) = job[c].other
OwnClients == \A d \in DeviceID : clients[d] # NULL => DeviceOf(clients[d]) = d

(* Links join two devices.                                                 *)
LinkedPairs == \A d \in DeviceID : ~Joined(d, d)

(* The part of TypeOK the argument needs.                                  *)
Types ==
    /\ pairedWith \in [DeviceID -> DeviceID \cup {NULL}]
    /\ clients \in [DeviceID -> Client \cup {NULL}]
    /\ pc \in [Client -> Position]
    /\ peer \in [Client -> DeviceID \cup {NULL}]
    /\ seen \in [Client -> DeviceID \cup {NULL}]
    /\ job \in [Client -> Job]
    /\ told \in [Client -> SUBSET DeviceID]
    /\ waiting \subseteq Client
    /\ grants \in Nat
    /\ requester \in [1..MaxGrants -> DeviceID \cup {NULL}]
    /\ entries \in [Code -> 1..MaxGrants \cup {NULL}]
    /\ \A code \in Code : entries[code] # NULL => requester[entries[code]] \in DeviceID

IInv ==
    /\ Types /\ RowsJoined /\ SeenJoined /\ PeerJoined /\ ToldJoined
    /\ JobJoined /\ JobOther /\ OwnClients /\ LinkedPairs

-----------------------------------------------------------------------------
(* Every client belongs to a device.                                       *)
LEMMA ClientDevice == \A c \in Client : DeviceOf(c) \in DeviceID
  <1> TAKE c \in Client
  <1>1. PICK d \in DeviceID : c \in {d} \X (1..Conns[d])
    BY Zenon DEF Client
  <1>2. c[1] = d
    BY Zenon, <1>1
  <1> QED BY Zenon, <1>2 DEF DeviceOf

(* The invariant holds at the start.                                       *)
LEMMA InitEstablishes == Init => IInv
  <1> SUFFICES ASSUME Init PROVE IInv
    OBVIOUS
  <1> USE NullAssumption, BoundsAssumption DEF Init
  <1>1. \A d \in Online : <<d, 1>> \in Client
    <2> TAKE d \in Online
    <2>1. d \in DeviceID /\ Conns[d] \in Nat /\ Conns[d] > 0
      OBVIOUS
    <2>2. <<d, 1>> \in {d} \X (1..Conns[d])
      BY <2>1
    <2> QED BY Zenon, <2>1, <2>2 DEF Client
  <1>2. Types
    <2>1. NoJob \in Job
      BY Zenon DEF NoJob, Job
    <2> QED BY Zenon, <1>1, <2>1 DEF Types, Codes!Init, Codes!Grant, Position
  <1>3. JobOther
    BY Zenon DEF JobOther, NoJob
  <1>4. JobJoined
    BY Zenon DEF JobJoined, Working
  <1>5. OwnClients
    BY Zenon DEF OwnClients, DeviceOf
  <1>6. RowsJoined /\ SeenJoined /\ PeerJoined /\ ToldJoined /\ LinkedPairs
    BY Zenon DEF RowsJoined, SeenJoined, PeerJoined, ToldJoined, LinkedPairs, Joined
  <1> QED BY Zenon, <1>2, <1>3, <1>4, <1>5, <1>6 DEF IInv

(* Every step keeps the invariant.                                         *)
LEMMA NextPreserves == IInv /\ [Next]_vars => IInv'
  <1> SUFFICES ASSUME IInv, [Next]_vars PROVE IInv'
    OBVIOUS
  <1> USE ClientDevice, NullAssumption
          DEF IInv, Types, Joined, Goto, Position, Working,
              storeVars, codeVars, hubVars, clientVars
  <1>1. ASSUME NEW c \in Client, Connect(c) PROVE IInv'
    <2>1. Types'
      BY Zenon, <1>1 DEF Connect
    <2>2. RowsJoined' /\ SeenJoined' /\ PeerJoined' /\ ToldJoined'
      BY <1>1 DEF Connect, RowsJoined, SeenJoined, PeerJoined, ToldJoined,
                  JobJoined, JobOther, OwnClients, LinkedPairs
    <2>3. JobJoined' /\ JobOther'
      BY Zenon, <1>1 DEF Connect, JobJoined, JobOther, OwnClients
    <2>4. OwnClients' /\ LinkedPairs'
      BY Zenon, <1>1 DEF Connect, JobJoined, JobOther, OwnClients, LinkedPairs
    <2> QED BY Zenon, <2>1, <2>2, <2>3, <2>4
  <1>2. ASSUME NEW c \in Client, SendWelcome(c) PROVE IInv'
    <2>1. Types'
      BY <1>2 DEF SendWelcome
    <2>2. RowsJoined' /\ SeenJoined' /\ PeerJoined' /\ ToldJoined'
      BY <1>2 DEF SendWelcome, RowsJoined, SeenJoined, PeerJoined, ToldJoined,
                  JobJoined, JobOther, OwnClients, LinkedPairs
    <2>3. JobJoined' /\ JobOther'
      BY Zenon, <1>2 DEF SendWelcome, JobJoined, JobOther, OwnClients
    <2>4. OwnClients' /\ LinkedPairs'
      BY Zenon, <1>2 DEF SendWelcome, JobJoined, JobOther, OwnClients, LinkedPairs
    <2> QED BY Zenon, <2>1, <2>2, <2>3, <2>4
  <1>3. ASSUME NEW c \in Client, HubRegister(c) PROVE IInv'
    <2>1. Types'
      BY Zenon, <1>3 DEF HubRegister
    <2>2. RowsJoined' /\ SeenJoined' /\ PeerJoined' /\ ToldJoined'
      BY Zenon, <1>3 DEF HubRegister, RowsJoined, SeenJoined, PeerJoined, ToldJoined,
                  JobJoined, JobOther, OwnClients, LinkedPairs
    <2>3. JobJoined' /\ JobOther'
      BY Zenon, <1>3 DEF HubRegister, JobJoined, JobOther, OwnClients
    <2>4. OwnClients' /\ LinkedPairs'
      BY Zenon, <1>3 DEF HubRegister, JobJoined, JobOther, OwnClients, LinkedPairs
    <2> QED BY Zenon, <2>1, <2>2, <2>3, <2>4
  <1>4. ASSUME NEW c \in Client, HubUnregister(c) PROVE IInv'
    <2>1. Types'
      BY Zenon, <1>4 DEF HubUnregister
    <2>2. RowsJoined' /\ SeenJoined' /\ PeerJoined' /\ ToldJoined'
      BY Zenon, <1>4 DEF HubUnregister, RowsJoined, SeenJoined, PeerJoined, ToldJoined,
                  JobJoined, JobOther, OwnClients, LinkedPairs
    <2>3. JobJoined' /\ JobOther'
      BY Zenon, <1>4 DEF HubUnregister, JobJoined, JobOther, OwnClients
    <2>4. OwnClients' /\ LinkedPairs'
      BY Zenon, <1>4 DEF HubUnregister, JobJoined, JobOther, OwnClients, LinkedPairs
    <2> QED BY Zenon, <2>1, <2>2, <2>3, <2>4
  <1>5. ASSUME NEW c \in Client, Disconnect(c) PROVE IInv'
    <2>1. Types'
      BY Zenon, <1>5 DEF Disconnect
    <2>2. RowsJoined' /\ SeenJoined' /\ PeerJoined' /\ ToldJoined'
      BY <1>5 DEF Disconnect, RowsJoined, SeenJoined, PeerJoined, ToldJoined,
                  JobJoined, JobOther, OwnClients, LinkedPairs
    <2>3. JobJoined' /\ JobOther'
      BY <1>5 DEF Disconnect, JobJoined, JobOther, OwnClients
    <2>4. OwnClients' /\ LinkedPairs'
      BY Zenon, <1>5 DEF Disconnect, JobJoined, JobOther, OwnClients, LinkedPairs
    <2> QED BY Zenon, <2>1, <2>2, <2>3, <2>4
  <1>6. ASSUME NEW c \in Client, HandleUnpair(c) PROVE IInv'
    <2>1. Types'
      BY Zenon, <1>6 DEF HandleUnpair, Reads, Job
    <2>2. RowsJoined' /\ SeenJoined' /\ PeerJoined' /\ ToldJoined'
      BY Zenon, <1>6 DEF HandleUnpair, Reads, Job, RowsJoined, SeenJoined, PeerJoined,
                  ToldJoined, JobJoined, JobOther, OwnClients, LinkedPairs
    <2>3. JobJoined' /\ JobOther'
      BY <1>6 DEF HandleUnpair, Reads, Job, JobJoined, JobOther, OwnClients
    <2>4. OwnClients' /\ LinkedPairs'
      BY Zenon, <1>6 DEF HandleUnpair, Reads, Job, JobJoined, JobOther, OwnClients,
                  LinkedPairs
    <2> QED BY Zenon, <2>1, <2>2, <2>3, <2>4
  <1>7. ASSUME NEW c \in Client, Pair(c) PROVE IInv'
    <2> DEFINE r == job[c].other
               d == DeviceOf(c)
    <2>5. /\ pairedWith' = [pairedWith EXCEPT ![r] = d, ![d] = r]
          /\ linked' = linked \cup {{r, d}} /\ r \in DeviceID /\ r # d
          /\ pc' = [pc EXCEPT ![c] = "self"]
          /\ UNCHANGED <<codeVars, hubVars, peer, seen, job, told>>
      BY Zenon, <1>7 DEF Pair, Store!PairDevices, JobOther
    <2>1. Types'
      BY Zenon, <2>5
    <2>2. RowsJoined' /\ SeenJoined' /\ PeerJoined' /\ ToldJoined'
      BY <1>7 DEF Pair, Store!PairDevices, Store!CanPair, RowsJoined,
                  SeenJoined, PeerJoined, ToldJoined, JobJoined, JobOther,
                  OwnClients, LinkedPairs
    <2>3. JobJoined' /\ JobOther'
      BY Zenon, <1>7 DEF Pair, Store!PairDevices, Store!CanPair, JobJoined, JobOther,
                  OwnClients
    <2>4. OwnClients' /\ LinkedPairs'
      <3>1. \A x : {x, x} # {r, d}
        BY Zenon, <2>5
      <3> HIDE DEF r, d
      <3> QED BY Zenon, <2>5, <3>1 DEF OwnClients, LinkedPairs
    <2> QED BY Zenon, <2>1, <2>2, <2>3, <2>4
  <1>8. ASSUME NEW c \in Client, PairFails(c) PROVE IInv'
    <2>1. Types'
      BY Zenon, <1>8 DEF PairFails, NoJob, Job
    <2>2. RowsJoined' /\ SeenJoined' /\ PeerJoined' /\ ToldJoined'
      BY Zenon, <1>8 DEF PairFails, NoJob, Job, RowsJoined, SeenJoined, PeerJoined,
                  ToldJoined, JobJoined, JobOther, OwnClients, LinkedPairs
    <2>3. JobJoined' /\ JobOther'
      BY <1>8 DEF PairFails, NoJob, Job, JobJoined, JobOther, OwnClients
    <2>4. OwnClients' /\ LinkedPairs'
      BY Zenon, <1>8 DEF PairFails, NoJob, Job, JobJoined, JobOther, OwnClients,
                  LinkedPairs
    <2> QED BY Zenon, <2>1, <2>2, <2>3, <2>4
  <1>9. ASSUME NEW c \in Client, Unpair(c) PROVE IInv'
    <2>1. Types'
      BY Zenon, <1>9 DEF Unpair, Store!UnpairDevice, Store!ClearLinks
    <2>2. RowsJoined' /\ SeenJoined' /\ PeerJoined' /\ ToldJoined'
      BY Zenon, <1>9 DEF Unpair, Store!UnpairDevice, Store!ClearLinks, RowsJoined,
                  SeenJoined, PeerJoined, ToldJoined, JobJoined, JobOther,
                  OwnClients, LinkedPairs
    <2>3. JobJoined' /\ JobOther'
      BY Zenon, <1>9 DEF Unpair, Store!UnpairDevice, Store!ClearLinks, JobJoined,
                  JobOther, OwnClients
    <2>4. OwnClients' /\ LinkedPairs'
      BY Zenon, <1>9 DEF Unpair, Store!UnpairDevice, Store!ClearLinks, JobJoined,
                  JobOther, OwnClients, LinkedPairs
    <2> QED BY Zenon, <2>1, <2>2, <2>3, <2>4
  <1>10. ASSUME NEW c \in Client, SetOwnPeer(c) PROVE IInv'
    <2>5. job[c].other \in DeviceID \cup {NULL}
      BY Zenon DEF Job
    <2>1. Types'
      BY Zenon, <1>10, <2>5 DEF SetOwnPeer, SetPeer
    <2>2. RowsJoined' /\ SeenJoined' /\ PeerJoined' /\ ToldJoined'
      BY Zenon, <1>10 DEF SetOwnPeer, SetPeer, RowsJoined, SeenJoined, PeerJoined,
                   ToldJoined, JobJoined, JobOther, OwnClients, LinkedPairs
    <2>3. JobJoined' /\ JobOther'
      BY Zenon, <1>10 DEF SetOwnPeer, SetPeer, JobJoined, JobOther, OwnClients
    <2>4. OwnClients' /\ LinkedPairs'
      BY Zenon, <1>10 DEF SetOwnPeer, SetPeer, JobJoined, JobOther, OwnClients,
                   LinkedPairs
    <2> QED BY Zenon, <2>1, <2>2, <2>3, <2>4
  <1>11. ASSUME NEW c \in Client, TellOwn(c) PROVE IInv'
    <2>5. job[c].other \in DeviceID \cup {NULL}
      BY Zenon DEF Job
    <2>6. job[c].pairing => job[c].other \in DeviceID
      BY Zenon DEF JobOther
    <2>7. told' \in [Client -> SUBSET DeviceID]
      BY Zenon, <1>11, <2>6 DEF TellOwn, Tell
    <2>1. Types'
      BY Zenon, <1>11, <2>7 DEF TellOwn
    <2>2. RowsJoined' /\ SeenJoined' /\ PeerJoined' /\ ToldJoined'
      BY Zenon, <1>11 DEF TellOwn, Tell, RowsJoined, SeenJoined, PeerJoined,
                   ToldJoined, JobJoined, JobOther, OwnClients, LinkedPairs
    <2>8. pc'[c] = "lookup" => job[c].other # NULL
      BY Zenon, <1>11 DEF TellOwn
    <2>9. /\ pc[c] = "tellself" /\ pc'[c] \in {"ready", "lookup"}
          /\ \A x \in Client \ {c} : pc'[x] = pc[x]
          /\ UNCHANGED <<job, linked>>
      BY Zenon, <1>11 DEF TellOwn
    <2>3. JobJoined' /\ JobOther'
      BY Zenon, <2>5, <2>8, <2>9 DEF JobJoined, JobOther
    <2>4. OwnClients' /\ LinkedPairs'
      BY Zenon, <1>11 DEF TellOwn, Tell, JobJoined, JobOther, OwnClients, LinkedPairs
    <2> QED BY Zenon, <2>1, <2>2, <2>3, <2>4
  <1>12. ASSUME NEW c \in Client, GetClient(c) PROVE IInv'
    <2> DEFINE o == clients[job[c].other]
    <2>5. job[c].other \in DeviceID
      BY Zenon, <1>12 DEF GetClient, JobOther
    <2>6. o \in Client \cup {NULL} /\ (o # NULL => DeviceOf(o) = job[c].other)
      BY Zenon, <2>5 DEF OwnClients
    <2>7. NoJob \in Job /\ (o # NULL => [job[c] EXCEPT !.found = o] \in Job)
      BY <2>6 DEF NoJob, Job
    <2>8. job' = [job EXCEPT ![c] = IF o = NULL THEN NoJob ELSE [job[c] EXCEPT !.found = o]]
      BY Zenon, <1>12 DEF GetClient
    <2>1. Types'
      BY <1>12, <2>7, <2>8 DEF GetClient
    <2>2. RowsJoined' /\ SeenJoined' /\ PeerJoined' /\ ToldJoined'
      BY Zenon, <1>12 DEF GetClient, NoJob, Job, RowsJoined, SeenJoined, PeerJoined,
                   ToldJoined, JobJoined, JobOther, OwnClients, LinkedPairs
    <2>3. JobJoined' /\ JobOther'
      <3>1. CASE o = NULL
        BY <1>12, <2>8, <3>1 DEF GetClient, NoJob, JobJoined, JobOther
      <3>2. CASE o # NULL
        <4>1. /\ job'[c].pairing = job[c].pairing /\ job'[c].other = job[c].other
              /\ job'[c].found = o
          BY <2>8, <3>2 DEF Job
        <4>2. \A x \in Client \ {c} : job'[x] = job[x]
          BY Zenon, <2>8
        <4>3. pc[c] = "lookup" /\ pc' = [pc EXCEPT ![c] = "peer"] /\ UNCHANGED linked
          BY Zenon, <1>12, <3>2 DEF GetClient
        <4> HIDE DEF o
        <4> QED BY <2>5, <2>6, <3>2, <4>1, <4>2, <4>3 DEF JobJoined, JobOther
      <3> QED BY Zenon, <3>1, <3>2
    <2>4. OwnClients' /\ LinkedPairs'
      BY Zenon, <1>12 DEF GetClient, NoJob, Job, JobJoined, JobOther, OwnClients,
                   LinkedPairs
    <2> QED BY Zenon, <2>1, <2>2, <2>3, <2>4
  <1>13. ASSUME NEW c \in Client, SetOtherPeer(c) PROVE IInv'
    <2>1. Types'
      BY Zenon, <1>13 DEF SetOtherPeer, SetPeer
    <2>2. RowsJoined' /\ SeenJoined' /\ PeerJoined' /\ ToldJoined'
      BY <1>13 DEF SetOtherPeer, SetPeer, RowsJoined, SeenJoined, PeerJoined,
                   ToldJoined, JobJoined, JobOther, OwnClients, LinkedPairs
    <2>3. JobJoined' /\ JobOther'
      BY Zenon, <1>13 DEF SetOtherPeer, SetPeer, JobJoined, JobOther, OwnClients
    <2>4. OwnClients' /\ LinkedPairs'
      BY Zenon, <1>13 DEF SetOtherPeer, SetPeer, JobJoined, JobOther, OwnClients,
                   LinkedPairs
    <2> QED BY Zenon, <2>1, <2>2, <2>3, <2>4
  <1>14. ASSUME NEW c \in Client, TellOther(c) PROVE IInv'
    <2>5. /\ job' = [job EXCEPT ![c] = NoJob]
          /\ pc' = [pc EXCEPT ![c] = "ready"]
          /\ UNCHANGED <<storeVars, codeVars, hubVars, peer, seen, linked>>
      BY Zenon, <1>14 DEF TellOther
    <2>6. NoJob \in Job /\ ~NoJob.pairing
      BY Zenon DEF NoJob, Job
    <2>7. job' \in [Client -> Job]
      BY Zenon, <2>5, <2>6
    <2>8. told' \in [Client -> SUBSET DeviceID]
      <3> DEFINE f == job[c].found
                 new == IF job[c].pairing THEN told[f] \cup {DeviceOf(c)}
                                          ELSE told[f] \ {DeviceOf(c)}
      <3>1. told' = [told EXCEPT ![f] = new]
        BY Zenon, <1>14 DEF TellOther, Tell
      <3>2. f \in Client => new \in SUBSET DeviceID
        OBVIOUS
      <3>3. told \in [Client -> SUBSET DeviceID]
        OBVIOUS
      <3> HIDE DEF f, new
      <3> QED BY ONLY Zenon, <3>1, <3>2, <3>3
    <2>1. Types'
      BY Zenon, <2>5, <2>7, <2>8
    <2>2. RowsJoined' /\ SeenJoined' /\ PeerJoined' /\ ToldJoined'
      <3>1. RowsJoined' /\ SeenJoined' /\ PeerJoined'
        BY Zenon, <2>5 DEF RowsJoined, SeenJoined, PeerJoined
      <3>2. ToldJoined'
        <4> DEFINE f == job[c].found
        <4>1. f \in Client /\ DeviceOf(f) = job[c].other
          BY Zenon, <1>14 DEF TellOther, JobOther
        <4>2. job[c].pairing => Joined(DeviceOf(c), DeviceOf(f))
          BY <1>14, <4>1 DEF TellOther, JobJoined
        <4>3. told'[f] \subseteq told[f] \cup (IF job[c].pairing THEN {DeviceOf(c)} ELSE {})
          BY Zenon, <1>14, <4>1 DEF TellOther, Tell
        <4>4. \A x \in Client : x # f => told'[x] = told[x]
          BY Zenon, <1>14, <4>1 DEF TellOther, Tell
        <4>5. linked' = linked
          BY Zenon, <2>5
        <4> HIDE DEF f
        <4> QED BY Zenon, <4>1, <4>2, <4>3, <4>4, <4>5 DEF ToldJoined
      <3> QED BY Zenon, <3>1, <3>2
    <2>3. JobJoined' /\ JobOther'
      <3>1. ~job'[c].pairing /\ pc'[c] = "ready"
        BY Zenon, <2>5, <2>6
      <3>2. \A x \in Client \ {c} : job'[x] = job[x] /\ pc'[x] = pc[x]
        BY Zenon, <2>5
      <3>3. linked' = linked
        BY Zenon, <2>5
      <3> QED BY Zenon, <3>1, <3>2, <3>3 DEF JobJoined, JobOther
    <2>4. OwnClients' /\ LinkedPairs'
      BY Zenon, <1>14 DEF TellOther, Tell, NoJob, Job, JobJoined, JobOther, OwnClients,
                   LinkedPairs
    <2> QED BY Zenon, <2>1, <2>2, <2>3, <2>4
  <1>15. ASSUME NEW c \in Client, NEW code \in Code, HandlePairRequest(c, code) PROVE IInv'
    <2>1. Types'
      BY <1>15, BoundsAssumption DEF HandlePairRequest, Codes!Put
    <2> QED BY Zenon, <1>15, <2>1 DEF HandlePairRequest, RowsJoined, SeenJoined,
                               PeerJoined, ToldJoined, JobJoined, JobOther,
                               OwnClients, LinkedPairs
  <1>16. ASSUME NEW c \in Client, NEW code \in Code, HandlePairAccept(c, code) PROVE IInv'
    <2> DEFINE r == requester[entries[code]]
               new == [pairing |-> TRUE, other |-> r, found |-> NULL]
    <2>1. r \in DeviceID
      BY Zenon, <1>16 DEF HandlePairAccept
    <2>2. new \in Job
      BY Zenon, <2>1 DEF Job
    <2>10. \/ UNCHANGED <<pc, job>>
           \/ /\ pc' = [pc EXCEPT ![c] = "db"]
              /\ job' = [job EXCEPT ![c] = new]
      BY Zenon, <1>16 DEF HandlePairAccept
    <2>7. job' \in [Client -> Job] /\ pc' \in [Client -> Position]
      <3> HIDE DEF new
      <3>1. job' \in [Client -> Job]
        BY Zenon, <2>2, <2>10
      <3>2. pc' \in [Client -> Position]
        BY Zenon, <2>10
      <3> QED BY Zenon, <3>1, <3>2
    <2>8. entries' = [entries EXCEPT ![code] = NULL] /\ UNCHANGED <<grants, requester>>
      BY Zenon, <1>16 DEF HandlePairAccept, Codes!Take
    <2>9. UNCHANGED <<pairedWith, clients, waiting, peer, seen, told>>
      BY Zenon, <1>16 DEF HandlePairAccept
    <2>3. Types'
      BY Zenon, <2>7, <2>8, <2>9
    <2>4. RowsJoined' /\ SeenJoined' /\ PeerJoined' /\ ToldJoined'
      BY Zenon, <1>16 DEF HandlePairAccept, RowsJoined, SeenJoined, PeerJoined,
                   ToldJoined
    <2>5. JobJoined' /\ JobOther'
      <3>1. CASE UNCHANGED <<pc, job>>
        BY Zenon, <1>16, <3>1 DEF HandlePairAccept, JobJoined, JobOther
      <3>2. CASE ~UNCHANGED <<pc, job>>
        <4>1. r # DeviceOf(c) /\ linked' = linked
          BY Zenon, <1>16, <3>2 DEF HandlePairAccept
        <4>5. /\ pc' = [pc EXCEPT ![c] = "db"]
              /\ job' = [job EXCEPT ![c] = new]
          BY Zenon, <2>10, <3>2
        <4>6. pc \in [Client -> Position] /\ job \in [Client -> Job]
          OBVIOUS
        <4>7. new.pairing /\ new.other = r
          OBVIOUS
        <4> HIDE DEF r, new
        <4>2. pc'[c] = "db" /\ job'[c] = new
          BY ONLY Zenon, <4>5, <4>6, c \in Client
        <4>3. \A x \in Client \ {c} : job'[x] = job[x] /\ pc'[x] = pc[x]
          BY ONLY Zenon, <4>5, <4>6
        <4>4. job'[c].pairing /\ job'[c].other = r
          BY ONLY Zenon, <4>2, <4>7
        <4> QED BY Zenon, <2>1, <4>1, <4>2, <4>3, <4>4 DEF JobJoined, JobOther
      <3> QED BY Zenon, <3>1, <3>2
    <2>6. OwnClients' /\ LinkedPairs'
      BY Zenon, <1>16 DEF HandlePairAccept, OwnClients, LinkedPairs
    <2> QED BY Zenon, <2>3, <2>4, <2>5, <2>6
  <1>17. ASSUME NEW d \in DeviceID, NEW e \in DeviceID, AdminLink(d, e) PROVE IInv'
    <2>1. d # e /\ pairedWith' = [pairedWith EXCEPT ![d] = e, ![e] = d]
      BY Zenon, <1>17 DEF AdminLink, Store!AdminPairDevices, Store!PairDevices
    <2>2. linked' = linked \cup {{d, e}} /\ UNCHANGED <<codeVars, hubVars, clientVars>>
      BY Zenon, <1>17 DEF AdminLink
    <2>3. Types'
      BY Zenon, <2>1, <2>2
    <2>4. RowsJoined' /\ SeenJoined' /\ PeerJoined' /\ ToldJoined'
      <3>1. RowsJoined'
        BY <2>1, <2>2 DEF RowsJoined
      <3>2. SeenJoined' /\ PeerJoined' /\ ToldJoined'
        BY Zenon, <2>2 DEF SeenJoined, PeerJoined, ToldJoined
      <3> QED BY Zenon, <3>1, <3>2
    <2>5. JobJoined' /\ JobOther' /\ OwnClients'
      BY Zenon, <2>2 DEF JobJoined, JobOther, OwnClients
    <2>6. LinkedPairs'
      <3>1. \A x : {x, x} # {d, e}
        BY Zenon, <2>1
      <3> QED BY Zenon, <2>2, <3>1 DEF LinkedPairs
    <2> QED BY Zenon, <2>3, <2>4, <2>5, <2>6
  <1>18. ASSUME NEW d \in DeviceID, AdminDelete(d) PROVE IInv'
    <2>1. /\ pairedWith' \in [DeviceID -> DeviceID \cup {NULL}]
          /\ \A x \in DeviceID : pairedWith'[x] \in {pairedWith[x], NULL}
      BY Zenon, <1>18 DEF AdminDelete, Store!DeleteDeviceLinks, Store!DeleteDeviceRow,
                   Store!ClearLinks
    <2>2. UNCHANGED <<codeVars, hubVars, clientVars, linked>>
      BY Zenon, <1>18 DEF AdminDelete
    <2> QED BY Zenon, <2>1, <2>2 DEF RowsJoined, SeenJoined, PeerJoined, ToldJoined,
                              JobJoined, JobOther, OwnClients, LinkedPairs
  <1>19. ASSUME UNCHANGED <<pairedWith, entries, grants, requester, hubVars,
                           clientVars, linked>>
         PROVE  IInv'
    BY Zenon, <1>19 DEF RowsJoined, SeenJoined, PeerJoined, ToldJoined, JobJoined,
                 JobOther, OwnClients, LinkedPairs
  <1>20. ASSUME NEW d \in DeviceID, TokenExpires(d) PROVE IInv'
    BY Zenon, <1>19, <1>20 DEF TokenExpires, Store!TokenTTLElapses
  <1>21. ASSUME NEW g \in 1..MaxGrants, CodeExpires(g) PROVE IInv'
    BY Zenon, <1>19, <1>21 DEF CodeExpires, Codes!TTLElapses
  <1>22. ASSUME UNCHANGED vars PROVE IInv'
    BY Zenon, <1>19, <1>22 DEF vars
  <1> QED
    BY Zenon, <1>1, <1>2, <1>3, <1>4, <1>5, <1>6, <1>7, <1>8, <1>9, <1>10, <1>11, <1>12, <1>13,
       <1>14, <1>15, <1>16, <1>17, <1>18, <1>20, <1>21, <1>22 DEF Next,
                                                                  HandlerStep

-----------------------------------------------------------------------------
(* The invariant holds in every reachable state (completePair,             *)
(* removePair).                                                            *)
THEOREM PairingInvariant == Spec => []IInv
  BY InitEstablishes, NextPreserves, PTL DEF Spec

(* A client only routes to, and is only told of, a device that the table   *)
(* linked to its own, under every interleaving of control messages,        *)
(* reconnects and administration.                                          *)
THEOREM PairingRoutesWereLinked == Spec => []RoutesWereLinked
  <1>1. IInv => RoutesWereLinked
    BY Zenon DEF IInv, Types, PeerJoined, ToldJoined, Joined, RoutesWereLinked
  <1> QED BY <1>1, PairingInvariant, PTL

(* In-band and admin pairing never pair a device with itself.              *)
THEOREM PairingNeverSelfPaired == Spec => []NeverSelfPaired
  <1>1. IInv => NeverSelfPaired
    <2> SUFFICES ASSUME IInv, NEW c \in Client
                 PROVE  peer[c] # DeviceOf(c) /\ DeviceOf(c) \notin told[c]
      BY Zenon DEF NeverSelfPaired
    <2>1. DeviceOf(c) \in DeviceID /\ DeviceOf(c) # NULL
      BY Zenon, ClientDevice, NullAssumption
    <2>2. ~Joined(DeviceOf(c), DeviceOf(c))
      BY Zenon, <2>1 DEF IInv, LinkedPairs
    <2> QED BY Zenon, <2>1, <2>2 DEF IInv, PeerJoined, ToldJoined
  <1> QED BY <1>1, PairingInvariant, PTL

-----------------------------------------------------------------------------
(* Pairing codes are single-use, for any set of codes, any number of       *)
(* grants and any interleaving of the handlers that draw and take them.    *)
Grant == 1..MaxGrants

(***************************************************************************)
(* CodesSingleUse alone is not inductive: Take could redeem a grant a      *)
(* second time if the registry could still hold it.  A pending grant has   *)
(* not been redeemed and is pending under one code only; and grants not    *)
(* made yet are not redeemed.                                              *)
(***************************************************************************)
CodeTypes ==
    /\ entries \in [Code -> Grant \cup {NULL}]
    /\ grants \in 0..MaxGrants
    /\ redeemed \in [Grant -> Nat]
PendingUnredeemed ==
    \A c \in Code :
        entries[c] # NULL =>
            /\ entries[c] <= grants
            /\ redeemed[entries[c]] = 0
            /\ \A c2 \in Code : entries[c2] = entries[c] => c2 = c
FutureUnredeemed == \A g \in Grant : g > grants => redeemed[g] = 0
AtMostOnce == \A g \in Grant : redeemed[g] <= 1

CodesInv == CodeTypes /\ AtMostOnce /\ PendingUnredeemed /\ FutureUnredeemed

-----------------------------------------------------------------------------
(* There are no codes at the start.                                        *)
LEMMA CodesInit == Init => CodesInv
BY BoundsAssumption
   DEF Init, Codes!Init, Codes!Grant, Grant, CodesInv, CodeTypes, AtMostOnce,
       PendingUnredeemed, FutureUnredeemed

(* Issuing a code keeps the invariant ...                                  *)
LEMMA PutPreserves ==
    ASSUME CodesInv, NEW code \in Code, NEW d, Codes!Put(code, d)
    PROVE  CodesInv'
<1> USE BoundsAssumption, NullAssumption DEF CodesInv, CodeTypes, Codes!Put, Grant
<1>1. CodeTypes' /\ AtMostOnce' /\ FutureUnredeemed'
  BY DEF AtMostOnce, FutureUnredeemed
<1>2. grants + 1 \in Grant /\ redeemed[grants + 1] = 0
  BY DEF FutureUnredeemed
<1>3. PendingUnredeemed'
  BY <1>2 DEF PendingUnredeemed
<1> QED
  BY Zenon, <1>1, <1>3

(* ... and so does redeeming one.                                          *)
LEMMA TakePreserves ==
    ASSUME CodesInv, NEW code \in Code, Codes!Take(code)
    PROVE  CodesInv'
<1> USE BoundsAssumption, NullAssumption DEF CodesInv, CodeTypes, Codes!Take, Grant
<1>1. CASE Codes!Redeemable(code)
  <2>1. entries[code] \in Grant /\ redeemed[entries[code]] = 0
        /\ entries[code] <= grants
    BY Zenon, <1>1 DEF Codes!Redeemable, PendingUnredeemed
  <2>2. redeemed' = [redeemed EXCEPT ![entries[code]] = 1]
    BY <1>1, <2>1
  <2>3. CodeTypes' /\ AtMostOnce' /\ FutureUnredeemed'
    BY <2>1, <2>2 DEF AtMostOnce, FutureUnredeemed
  <2>4. PendingUnredeemed'
    BY <2>1, <2>2 DEF PendingUnredeemed
  <2> QED
    BY Zenon, <2>3, <2>4
<1>2. CASE ~Codes!Redeemable(code)
  BY Zenon, <1>2 DEF AtMostOnce, PendingUnredeemed, FutureUnredeemed
<1> QED
  BY Zenon, <1>1, <1>2

(* Every other step leaves the registry and its history alone.             *)
LEMMA OthersPreserve ==
    ASSUME CodesInv, UNCHANGED <<entries, grants, redeemed>>
    PROVE  CodesInv'
BY Zenon DEF CodesInv, CodeTypes, AtMostOnce, PendingUnredeemed, FutureUnredeemed

(* Every step keeps the invariant.                                         *)
LEMMA CodesNext == CodesInv /\ [Next]_vars => CodesInv'
<1> SUFFICES ASSUME CodesInv, [Next]_vars PROVE CodesInv'
  OBVIOUS
<1>1. ASSUME NEW c \in Client, NEW code \in Code, HandlePairRequest(c, code)
      PROVE  CodesInv'
  BY Zenon, <1>1, PutPreserves DEF HandlePairRequest
<1>2. ASSUME NEW c \in Client, NEW code \in Code, HandlePairAccept(c, code)
      PROVE  CodesInv'
  BY Zenon, <1>2, TakePreserves DEF HandlePairAccept
<1>3. ASSUME NEW g \in 1..MaxGrants, CodeExpires(g) PROVE CodesInv'
  BY Zenon, <1>3, OthersPreserve DEF CodeExpires, Codes!TTLElapses
<1>4. ASSUME NEW c \in Client,
             \/ HandlerStep(c) \/ Connect(c) \/ Disconnect(c)
             \/ HubRegister(c) \/ HubUnregister(c) \/ HandleUnpair(c)
      PROVE  CodesInv'
  <2>1. UNCHANGED codeVars
    BY Zenon, <1>4 DEF HandlerStep, Connect, Disconnect, HubRegister, HubUnregister,
                HandleUnpair, SendWelcome, Pair, PairFails, Unpair, SetOwnPeer,
                TellOwn, GetClient, SetOtherPeer, TellOther
  <2> QED
    BY Zenon, <2>1, OthersPreserve DEF codeVars
<1>5. ASSUME NEW d \in DeviceID, AdminDelete(d) \/ TokenExpires(d) PROVE CodesInv'
  BY Zenon, <1>5, OthersPreserve DEF AdminDelete, TokenExpires, codeVars
<1>6. ASSUME NEW d \in DeviceID, NEW e \in DeviceID, AdminLink(d, e) PROVE CodesInv'
  BY Zenon, <1>6, OthersPreserve DEF AdminLink, codeVars
<1>7. CASE UNCHANGED vars
  BY Zenon, <1>7, OthersPreserve DEF vars, codeVars
<1> QED
  BY Zenon, <1>1, <1>2, <1>3, <1>4, <1>5, <1>6, <1>7 DEF Next

(* No grant of a pairing code is ever handed out twice, whoever draws and  *)
(* takes codes at the same time.                                           *)
THEOREM PairingCodesSingleUse == Spec => []CodesSingleUse
<1>1. CodesInv => CodesSingleUse
  BY Zenon DEF CodesInv, AtMostOnce, CodesSingleUse, Codes!SingleUse, Codes!Grant, Grant
<1> QED
  BY <1>1, CodesInit, CodesNext, PTL DEF Spec

-----------------------------------------------------------------------------
(* The rest of TypeOK: what the two inductive invariants do not mention.   *)
RestTypes ==
    /\ issued \subseteq DeviceID /\ devices \subseteq issued /\ halfDeleted \subseteq issued
    /\ staticKey \in [DeviceID -> {NULL}]
    /\ expiresAt \in [DeviceID -> {"ahead", "passed", NULL}]
    /\ \A g \in 1..grants : requester[g] \in DeviceID
    /\ lapsed \subseteq Grant
    /\ closed \subseteq Client
    /\ linked \subseteq SUBSET DeviceID

(* They hold at the start.                                                 *)
LEMMA RestTypesInit == Init => RestTypes
BY DEF Init, Codes!Init, RestTypes

(* Every step keeps them.                                                  *)
LEMMA RestTypesNext == IInv /\ CodesInv /\ RestTypes /\ [Next]_vars => RestTypes'
<1> SUFFICES ASSUME IInv, CodesInv, RestTypes, [Next]_vars PROVE RestTypes'
  OBVIOUS
<1> DEFINE T == <<issued, devices, halfDeleted, staticKey, expiresAt, grants, requester,
                  lapsed, closed, linked>>
<1>0. ASSUME UNCHANGED T PROVE RestTypes'
  BY Zenon, <1>0 DEF RestTypes
<1>1. ASSUME NEW c \in Client,
             \/ SendWelcome(c) \/ PairFails(c) \/ Unpair(c) \/ SetOwnPeer(c) \/ TellOwn(c)
             \/ GetClient(c) \/ SetOtherPeer(c) \/ TellOther(c)
      PROVE  RestTypes'
  BY Zenon, <1>0, <1>1 DEF SendWelcome, PairFails, Unpair, SetOwnPeer, TellOwn, GetClient,
     SetOtherPeer,
                    TellOther, Store!UnpairDevice, storeVars, codeVars, hubVars
<1>2. ASSUME NEW c \in Client,
             Connect(c) \/ Disconnect(c) \/ HubUnregister(c) \/ HandleUnpair(c)
      PROVE  RestTypes'
  BY Zenon, <1>0, <1>2 DEF Connect, Disconnect, HubUnregister, HandleUnpair, storeVars, codeVars,
     hubVars
<1>3. ASSUME NEW c \in Client, HubRegister(c) PROVE RestTypes'
  <2>1. clients[DeviceOf(c)] \in Client \cup {NULL}
    BY Zenon, ClientDevice DEF IInv, Types
  <2> QED BY Zenon, <1>3, <2>1 DEF HubRegister, RestTypes, storeVars, codeVars
<1>4. ASSUME NEW c \in Client, Pair(c) PROVE RestTypes'
  <2>1. job[c].other \in DeviceID /\ DeviceOf(c) \in DeviceID
    BY Zenon, <1>4, ClientDevice DEF Pair, IInv, JobOther
  <2>2. linked' \subseteq SUBSET DeviceID
    BY Zenon, <1>4, <2>1 DEF Pair, RestTypes
  <2> QED BY Zenon, <1>4, <2>1, <2>2 DEF Pair, Store!PairDevices, RestTypes, codeVars, hubVars
<1>5. ASSUME NEW c \in Client, NEW code \in Code, HandlePairRequest(c, code) PROVE RestTypes'
  <2>1. /\ grants \in Nat /\ grants' = grants + 1 /\ grants + 1 \in 1..MaxGrants
        /\ requester' = [requester EXCEPT ![grants + 1] = DeviceOf(c)]
    BY <1>5, BoundsAssumption DEF HandlePairRequest, Codes!Put, CodesInv, CodeTypes
  <2>2. \A g \in 1..grants' : requester'[g] \in DeviceID
    BY <2>1, ClientDevice DEF RestTypes, IInv, Types
  <2> QED BY Zenon, <1>5, <2>2 DEF HandlePairRequest, Codes!Put, RestTypes, storeVars, hubVars
<1>6. ASSUME NEW c \in Client, NEW code \in Code, HandlePairAccept(c, code) PROVE RestTypes'
  BY Zenon, <1>0, <1>6 DEF HandlePairAccept, Codes!Take, storeVars, hubVars
<1>7. ASSUME NEW g \in 1..MaxGrants, CodeExpires(g) PROVE RestTypes'
  BY Zenon, <1>7 DEF CodeExpires, Codes!TTLElapses, RestTypes, Grant, storeVars, hubVars
<1>8. ASSUME NEW d \in DeviceID, TokenExpires(d) PROVE RestTypes'
  BY Zenon, <1>8 DEF TokenExpires, Store!TokenTTLElapses, RestTypes, codeVars, hubVars
<1>9. ASSUME NEW d \in DeviceID, AdminDelete(d) PROVE RestTypes'
  BY Zenon, <1>9 DEF AdminDelete, Store!DeleteDeviceLinks, Store!DeleteDeviceRow, RestTypes,
     codeVars,
              hubVars
<1>10. ASSUME NEW d \in DeviceID, NEW e \in DeviceID, AdminLink(d, e) PROVE RestTypes'
  BY Zenon, <1>10 DEF AdminLink, Store!AdminPairDevices, Store!PairDevices, RestTypes, codeVars,
     hubVars
<1>11. CASE UNCHANGED vars
  BY Zenon, <1>0, <1>11 DEF vars, storeVars, codeVars, hubVars
<1> QED
  BY Zenon, <1>1, <1>2, <1>3, <1>4, <1>5, <1>6, <1>7, <1>8, <1>9, <1>10, <1>11 DEF Next, HandlerStep

(* Every value keeps its type: a job's peer is a device, a client is told  *)
(* of devices and never of NULL, a redeemed code has a requester.          *)
THEOREM PairingTypes == Spec => []TypeOK
<1>1. IInv /\ CodesInv /\ RestTypes => TypeOK
  BY Zenon DEF IInv, Types, CodesInv, CodeTypes, RestTypes, TypeOK, Store!TypeOK, Codes!TypeOK,
         Codes!Grant, Grant
<1> QED
  BY <1>1, PairingInvariant, CodesInit, CodesNext, RestTypesInit, RestTypesNext, PTL DEF Spec

-----------------------------------------------------------------------------
(***************************************************************************)
(* Agreement at rest.  It is claimed for a relay whose table only in-band  *)
(* operations change, pairings running concurrently and the others one at  *)
(* a time: the admin UI and the CLI tell the clients nothing, and an       *)
(* unpair, connect or disconnect that overlaps another operation may leave *)
(* a client with a stale peer.                                             *)
(***************************************************************************)
InBandOnly == Overlap \subseteq {"pair"} /\ {"link", "delete"} \cap Ops = {}

(* The clients with an operation under way, and the ones that are pairing. *)
Busy(c) ==
    \/ pc[c] \in Working \cup {"welcome"}
    \/ c \in waiting
    \/ pc[c] = "done" /\ clients[DeviceOf(c)] = c
InPairing(c) == pc[c] \in Working /\ job[c].pairing

(* Only pairings overlap.                                                  *)
Exclusive ==
    \A x, y \in Client : x # y /\ Busy(x) /\ Busy(y) => InPairing(x) /\ InPairing(y)

(* Where a client can be: one that waits has read nothing, one that was    *)
(* replaced reads no more, and the others are the ones the Hub serves.     *)
Places ==
    \A c \in Client :
        /\ c \in waiting => /\ pc[c] \in {"welcome", "ready"} /\ c \notin closed
                            /\ clients[DeviceOf(c)] # c
        /\ c \in closed => pc[c] \in {"ready", "done"} /\ clients[DeviceOf(c)] # c
        /\ pc[c] \in {"welcome", "ready"} \cup Working /\ c \notin closed \cup waiting
               => clients[DeviceOf(c)] = c
        /\ pc[c] = "idle" => told[c] = {} /\ clients[DeviceOf(c)] # c

(* The rows link devices in pairs.                                         *)
Paired ==
    /\ devices = DeviceID
    /\ \A d, e \in DeviceID : pairedWith[d] = e => pairedWith[e] = d

(* A handler whose transaction is done is bringing the clients of two      *)
(* devices into line with the table, and no other handler is concerned     *)
(* with either.                                                            *)
Past(c) == pc[c] \in Working \ {"db"}
Disturbs(c, d) == Past(c) /\ d \in {DeviceOf(c), job[c].other}
Apart ==
    \A x, y \in Client : \A d \in DeviceID : Disturbs(x, d) /\ Disturbs(y, d) => x = y

(* How far it is with a new pair ...                                       *)
PairingHalf(c) ==
    LET D == DeviceOf(c)
        O == job[c].other
        k == clients[O]
    IN
    /\ pairedWith[D] = O /\ pairedWith[O] = D
    /\ peer[c] = IF pc[c] = "self" THEN NULL ELSE O
    /\ told[c] = IF pc[c] \in {"self", "tellself"} THEN {} ELSE {O}
    /\ k # NULL => peer[k] = (IF pc[c] = "tellpeer" THEN D ELSE NULL) /\ told[k] = {}

(* ... and with one that was parted.                                       *)
UnpairingHalf(c) ==
    LET D == DeviceOf(c)
        O == job[c].other
        k == clients[O]
    IN
    /\ pairedWith[D] = NULL
    /\ peer[c] = IF pc[c] = "self" THEN O ELSE NULL
    /\ told[c] = IF pc[c] \in {"self", "tellself"} THEN {O} \ {NULL} ELSE {}
    /\ O # NULL =>
           /\ O # D /\ pairedWith[O] = NULL
           /\ k # NULL => peer[k] = (IF pc[c] = "tellpeer" THEN NULL ELSE D) /\ told[k] = {D}

HalfwayAt(c) ==
    /\ Past(c) /\ job[c].pairing => PairingHalf(c)
    /\ Past(c) /\ ~job[c].pairing => UnpairingHalf(c)
    /\ pc[c] \in {"peer", "tellpeer"} => job[c].found = clients[job[c].other]
    /\ pc[c] = "db" /\ ~job[c].pairing => job[c].other = pairedWith[DeviceOf(c)]
Halfway == \A c \in Client : HalfwayAt(c)

(* A new client agrees with its row as soon as it is welcomed, and one     *)
(* that is served as long as no handler is half way with its device.       *)
ArrivingAt(c) ==
    LET p == pairedWith[DeviceOf(c)] IN
    /\ pc[c] = "welcome" => seen[c] = p /\ peer[c] = p /\ told[c] = {}
    /\ pc[c] = "ready" /\ c \in waiting => peer[c] = p /\ told[c] = {p} \ {NULL}
Arriving == \A c \in Client : ArrivingAt(c)

SettledAt(d) ==
    /\ clients[d] # NULL
    /\ pc[clients[d]] \notin {"welcome", "done"}
    /\ \A x \in Client : ~Disturbs(x, d)
    => LET p == pairedWith[d] IN peer[clients[d]] = p /\ told[clients[d]] = {p} \ {NULL}
Settled == \A d \in DeviceID : SettledAt(d)

RestInv == Exclusive /\ Places /\ Paired /\ Apart /\ Halfway /\ Arriving /\ Settled

(* An operation other than a pairing starts when nothing is under way ...  *)
LEMMA StartsAlone ==
    ASSUME InBandOnly, NEW op, op # "pair", MayStart(op), NEW x \in Client
    PROVE  ~Busy(x)
<1>1. UnderWay = {}
  BY Zenon DEF MayStart, InBandOnly
<1>2. ~(pc[x] \in Working)
  <2>1. pc[x] \in Working => (IF job[x].pairing THEN "pair" ELSE "unpair") \in UnderWay
    BY Zenon DEF UnderWay
  <2> QED BY Zenon, <1>1, <2>1
<1>3. ~(pc[x] = "welcome" \/ x \in waiting)
  <2>1. pc[x] = "welcome" \/ x \in waiting => "connect" \in UnderWay
    BY Zenon DEF UnderWay
  <2> QED BY Zenon, <1>1, <2>1
<1>4. ~(pc[x] = "done" /\ clients[DeviceOf(x)] = x)
  <2>1. pc[x] = "done" /\ clients[DeviceOf(x)] = x => "disconnect" \in UnderWay
    BY Zenon DEF UnderWay
  <2> QED BY Zenon, <1>1, <2>1
<1> QED BY Zenon, <1>2, <1>3, <1>4 DEF Busy

(* ... and a pairing when nothing but pairings is.                         *)
LEMMA PairingStarts ==
    ASSUME InBandOnly, MayStart("pair"), NEW x \in Client, Busy(x)
    PROVE  InPairing(x) /\ x \notin waiting
<1>1. UnderWay \subseteq {"pair"}
  BY Zenon DEF MayStart, InBandOnly
<1>2. pc[x] \in Working => job[x].pairing
  <2>1. pc[x] \in Working => (IF job[x].pairing THEN "pair" ELSE "unpair") \in UnderWay
    BY Zenon DEF UnderWay
  <2> QED BY Zenon, <1>1, <2>1
<1>3. ~(pc[x] = "welcome" \/ x \in waiting)
  <2>1. pc[x] = "welcome" \/ x \in waiting => "connect" \in UnderWay
    BY Zenon DEF UnderWay
  <2> QED BY Zenon, <1>1, <2>1
<1>4. ~(pc[x] = "done" /\ clients[DeviceOf(x)] = x)
  <2>1. pc[x] = "done" /\ clients[DeviceOf(x)] = x => "disconnect" \in UnderWay
    BY Zenon DEF UnderWay
  <2> QED BY Zenon, <1>1, <2>1
<1> QED BY Zenon, <1>2, <1>3, <1>4 DEF Busy, InPairing

(* A client that is busy with anything but a pairing is so alone.          *)
LEMMA Alone ==
    ASSUME RestInv, NEW c \in Client, Busy(c), ~InPairing(c), NEW x \in Client, x # c
    PROVE  ~Busy(x) /\ ~Past(x)
BY Zenon DEF RestInv, Exclusive, Past, Busy

(* While a handler works, nobody connects or leaves.                       *)
LEMMA WorkStep ==
    ASSUME IInv, RestInv, NEW c \in Client, pc[c] \in Working,
           NEW to \in Working \cup {"ready"}, pc' = [pc EXCEPT ![c] = to],
           UNCHANGED hubVars,
           \A x \in Client : x # c => job'[x] = job[x],
           to \in Working => (job'[c].pairing <=> job[c].pairing),
           \A x \in Client : pc[x] = "idle" => told'[x] = told[x]
    PROVE  Exclusive' /\ Places' /\ Arriving'
<1>1. /\ pc \in [Client -> Position] /\ pc'[c] = to
      /\ \A x \in Client : x # c => pc'[x] = pc[x]
  BY Zenon DEF IInv, Types
<1>2. c \notin waiting /\ c \notin closed /\ clients[DeviceOf(c)] = c
  BY Zenon DEF RestInv, Places, Working
<1>3. \A x \in Client : x # c /\ Busy(x) => InPairing(x) /\ x \notin waiting /\ pc[x] # "welcome"
  BY Zenon DEF RestInv, Exclusive, Busy, Places, InPairing, Working
<1>4. \A x \in Client : x # c => (Busy(x)' <=> Busy(x)) /\ (InPairing(x)' <=> InPairing(x))
  BY Zenon, <1>1 DEF Busy, InPairing, hubVars
<1>5. Busy(c)' => InPairing(c)' \/ ~InPairing(c)
  BY Zenon, <1>1, <1>2 DEF Busy, InPairing, hubVars
<1>6. Exclusive'
  <2>1. Busy(c)
    BY Zenon DEF Busy
  <2> QED BY Zenon, <1>4, <1>5, <2>1 DEF RestInv, Exclusive
<1>7. Places'
  BY <1>1, <1>2 DEF RestInv, Places, hubVars, Working
<1>8. Arriving'
  <2>1. \A x \in Client : pc'[x] # "welcome" /\ x \notin waiting
    <3>1. \A x \in Client : x # c => pc[x] # "welcome" /\ x \notin waiting
      BY Zenon, <1>3 DEF Busy
    <3> QED BY Zenon, <1>1, <1>2, <3>1 DEF Working
  <2> QED BY Zenon, <2>1 DEF Arriving, ArrivingAt, hubVars
<1> QED BY Zenon, <1>6, <1>7, <1>8

(* A handler that touches the rows and the clients of two devices disturbs *)
(* neither the handlers concerned with others nor their agreement.         *)
LEMMA WorkFrame ==
    ASSUME IInv, RestInv, NEW c \in Client, pc[c] \in Working, NEW O,
           \A x \in Client : x # c => pc'[x] = pc[x] /\ job'[x] = job[x],
           clients' = clients,
           Past(c)' => job'[c].other = O,
           \A x \in Client : x # c => ~Disturbs(x, DeviceOf(c)) /\ ~Disturbs(x, O),
           \A e \in DeviceID : e \notin {DeviceOf(c), O} => pairedWith'[e] = pairedWith[e],
           \A y \in Client : DeviceOf(y) \notin {DeviceOf(c), O} =>
                                 peer'[y] = peer[y] /\ told'[y] = told[y],
           Past(c) => job[c].other = O
    PROVE  /\ Apart'
           /\ \A x \in Client : x # c => HalfwayAt(x)'
           /\ \A d \in DeviceID : d \notin {DeviceOf(c), O} => SettledAt(d)'
<1> DEFINE D == DeviceOf(c)
<1>0. \A x \in Client : x # c => (Past(x)' <=> Past(x))
                        /\ \A d \in DeviceID : Disturbs(x, d)' <=> Disturbs(x, d)
  BY Zenon DEF Past, Disturbs
<1>1. Apart'
  <2> SUFFICES ASSUME NEW x \in Client, NEW y \in Client, NEW d \in DeviceID,
                      Disturbs(x, d)', Disturbs(y, d)'
               PROVE  x = y
    BY Zenon DEF Apart
  <2>1. Disturbs(c, d)' => d \in {D, O}
    BY Zenon DEF Disturbs
  <2>2. CASE x # c /\ y # c
    BY Zenon, <1>0, <2>2 DEF RestInv, Apart
  <2>3. CASE x = c /\ y # c
    BY Zenon, <1>0, <2>1, <2>3
  <2>4. CASE y = c /\ x # c
    BY Zenon, <1>0, <2>1, <2>4
  <2> QED BY Zenon, <2>2, <2>3, <2>4
<1>2. ASSUME NEW x \in Client, x # c PROVE HalfwayAt(x)'
  <2> DEFINE d == DeviceOf(x)
             o == job[x].other
             k == clients[o]
  <2>1. /\ HalfwayAt(x) /\ pc'[x] = pc[x] /\ job'[x] = job[x] /\ d \in DeviceID
        /\ (Past(x)' <=> Past(x))
    BY Zenon, <1>0, <1>2, ClientDevice DEF RestInv, Halfway
  <2>2. ~(pc[x] = "db" /\ ~job[x].pairing)
    BY Zenon, <1>2 DEF RestInv, Exclusive, Busy, InPairing, Working
  <2>3. ASSUME Past(x)
        PROVE  /\ pairedWith'[d] = pairedWith[d] /\ peer'[x] = peer[x] /\ told'[x] = told[x]
               /\ o # NULL => /\ pairedWith'[o] = pairedWith[o]
                              /\ k # NULL => peer'[k] = peer[k] /\ told'[k] = told[k]
    <3>1. d \notin {D, O} /\ (o # NULL => o \notin {D, O} /\ o \in DeviceID)
      BY <1>2, <2>3 DEF Disturbs, IInv, Types, Job
    <3>2. o # NULL /\ k # NULL => k \in Client /\ DeviceOf(k) = o
      BY <3>1 DEF IInv, Types, OwnClients
    <3> QED BY Zenon, <2>1, <3>1, <3>2
  <2>4. Past(x)' /\ job'[x].pairing => PairingHalf(x)'
    <3>1. SUFFICES ASSUME Past(x), job[x].pairing PROVE PairingHalf(x)'
      BY Zenon, <2>1
    <3>2. o # NULL
      BY Zenon, <3>1, NullAssumption DEF IInv, JobOther
    <3>3. PairingHalf(x)
      BY Zenon, <2>1, <3>1 DEF HalfwayAt
    <3> QED BY <2>1, <2>3, <3>1, <3>2, <3>3 DEF PairingHalf
  <2>5. Past(x)' /\ ~job'[x].pairing => UnpairingHalf(x)'
    <3>1. SUFFICES ASSUME Past(x), ~job[x].pairing PROVE UnpairingHalf(x)'
      BY Zenon, <2>1
    <3>2. UnpairingHalf(x)
      BY Zenon, <2>1, <3>1 DEF HalfwayAt
    <3> QED BY Zenon, <2>1, <2>3, <3>1, <3>2 DEF UnpairingHalf
  <2> QED BY Zenon, <2>1, <2>2, <2>4, <2>5 DEF HalfwayAt
<1>3. ASSUME NEW d \in DeviceID, d \notin {D, O} PROVE SettledAt(d)'
  <2> DEFINE k == clients[d]
  <2>1. SUFFICES ASSUME k # NULL, pc'[k] \notin {"welcome", "done"},
                        \A x \in Client : ~Disturbs(x, d)'
                 PROVE  LET p == pairedWith'[d] IN peer'[k] = p /\ told'[k] = {p} \ {NULL}
    BY Zenon DEF SettledAt
  <2>2. k \in Client /\ DeviceOf(k) = d /\ k # c
    BY <1>3, <2>1 DEF IInv, Types, OwnClients
  <2>3. \A x \in Client : ~Disturbs(x, d)
    BY Zenon, <1>0, <1>3, <2>1 DEF Disturbs
  <2>4. SettledAt(d)
    BY Zenon DEF RestInv, Settled
  <2>5. peer'[k] = peer[k] /\ told'[k] = told[k] /\ pairedWith'[d] = pairedWith[d]
        /\ pc'[k] = pc[k]
    BY Zenon, <1>3, <2>2
  <2> QED BY Zenon, <2>1, <2>3, <2>4, <2>5 DEF SettledAt
<1> QED BY Zenon, <1>1, <1>2, <1>3

(* Two handlers past their transactions are concerned with other devices.  *)
LEMMA PastApart ==
    ASSUME IInv, RestInv, NEW c \in Client, Past(c), NEW x \in Client, x # c
    PROVE  ~Disturbs(x, DeviceOf(c)) /\ ~Disturbs(x, job[c].other)
<1>1. ~Disturbs(x, DeviceOf(c))
  BY Zenon, ClientDevice DEF RestInv, Apart, Disturbs
<1>2. CASE job[c].other \in DeviceID
  BY Zenon, <1>1, <1>2 DEF RestInv, Apart, Disturbs
<1>3. CASE job[c].other \notin DeviceID
  <2>1. Busy(c) /\ ~InPairing(c)
    BY Zenon, <1>3 DEF IInv, JobOther, Busy, Past, InPairing
  <2> QED BY Zenon, <2>1, Alone DEF Disturbs
<1> QED BY Zenon, <1>2, <1>3

(* A step of a handler after its transaction: it changes what one client   *)
(* of the two devices, t, routes to or was told.                           *)
LEMMA PastStep ==
    ASSUME IInv, RestInv, NEW c \in Client, Past(c),
           NEW to \in (Working \ {"db"}) \cup {"ready"}, pc' = [pc EXCEPT ![c] = to],
           UNCHANGED <<hubVars, devices, pairedWith>>,
           \A x \in Client : x # c => job'[x] = job[x],
           to \in Working => /\ job'[c].pairing <=> job[c].pairing
                             /\ job'[c].other = job[c].other,
           NEW t \in Client, t = c \/ (job[c].other \in DeviceID /\ t = clients[job[c].other]),
           \A y \in Client : y # t => peer'[y] = peer[y] /\ told'[y] = told[y],
           HalfwayAt(c)',
           to = "ready" => \A d \in DeviceID \cap {DeviceOf(c), job[c].other} : SettledAt(d)'
    PROVE  RestInv'
<1> DEFINE D == DeviceOf(c)
           O == job[c].other
<1>1. /\ pc \in [Client -> Position] /\ pc'[c] = to /\ pc[c] \in Working
      /\ \A x \in Client : x # c => pc'[x] = pc[x]
  BY Zenon DEF IInv, Types, Past
<1>2. DeviceOf(t) \in {D, O} /\ pc[t] # "idle"
  <2>1. clients[D] = c /\ pc[c] # "idle"
    BY Zenon, <1>1 DEF RestInv, Places, Working
  <2>2. CASE t = c
    BY Zenon, <2>1, <2>2
  <2>3. CASE t # c
    <3>1. O \in DeviceID /\ t = clients[O] /\ t # NULL
      BY Zenon, <2>3, NullAssumption
    <3>2. DeviceOf(t) = O
      BY Zenon, <3>1 DEF IInv, OwnClients
    <3> QED BY Zenon, <3>1, <3>2 DEF RestInv, Places
  <2> QED BY Zenon, <2>2, <2>3
<1>3. Exclusive' /\ Places' /\ Arriving'
  <2>1. to \in Working \cup {"ready"}
    OBVIOUS
  <2>2. \A x \in Client : pc[x] = "idle" => told'[x] = told[x]
    BY Zenon, <1>2
  <2> QED BY Zenon, <1>1, <2>1, <2>2, WorkStep
<1>4. /\ Apart' /\ \A x \in Client : x # c => HalfwayAt(x)'
      /\ \A d \in DeviceID : d \notin {D, O} => SettledAt(d)'
  <2>1. Past(c)' => job'[c].other = O
    BY Zenon, <1>1 DEF Past
  <2>2. \A x \in Client : x # c => ~Disturbs(x, D) /\ ~Disturbs(x, O)
    BY Zenon, PastApart
  <2>3. \A y \in Client : DeviceOf(y) \notin {D, O} => peer'[y] = peer[y] /\ told'[y] = told[y]
    BY Zenon, <1>2
  <2>4. clients' = clients /\ pairedWith' = pairedWith
    BY Zenon DEF hubVars
  <2> QED BY <1>1, <2>1, <2>2, <2>3, <2>4, WorkFrame
<1>5. Paired'
  BY Zenon DEF RestInv, Paired
<1>6. Halfway'
  BY Zenon, <1>4 DEF Halfway
<1>7. Settled'
  <2> SUFFICES ASSUME NEW d \in DeviceID, d \in {D, O} PROVE SettledAt(d)'
    BY Zenon, <1>4 DEF Settled
  <2>1. CASE to = "ready"
    BY Zenon, <2>1
  <2>2. CASE to # "ready"
    <3>1. Disturbs(c, d)'
      BY Zenon, <1>1, <2>2 DEF Disturbs, Past, Working
    <3> QED BY Zenon, <3>1 DEF SettledAt
  <2> QED BY Zenon, <2>1, <2>2
<1> QED BY Zenon, <1>3, <1>4, <1>5, <1>6, <1>7 DEF RestInv

(* What is known of a handler past its transaction.                        *)
LEMMA PastFacts ==
    ASSUME IInv, RestInv, NEW c \in Client, Past(c),
           NEW O, O = job[c].other, NEW k, k = clients[O]
    PROVE  /\ DeviceOf(c) \in DeviceID /\ O \in DeviceID \cup {NULL} /\ O # DeviceOf(c)
           /\ clients[DeviceOf(c)] = c /\ pc[c] \in Working
           /\ job[c].pairing => O \in DeviceID /\ PairingHalf(c)
           /\ ~job[c].pairing => UnpairingHalf(c)
           /\ O \in DeviceID => k \in Client \cup {NULL}
           /\ O \in DeviceID /\ k # NULL => k # c /\ DeviceOf(k) = O
<1>1. DeviceOf(c) \in DeviceID /\ O \in DeviceID \cup {NULL}
  BY Zenon, ClientDevice DEF IInv, Types, Job
<1>2. HalfwayAt(c)
  BY Zenon DEF RestInv, Halfway
<1>3. /\ job[c].pairing => O \in DeviceID /\ PairingHalf(c)
      /\ ~job[c].pairing => UnpairingHalf(c)
  BY Zenon, <1>2 DEF HalfwayAt, IInv, JobOther
<1>4. O # DeviceOf(c)
  <2>1. CASE job[c].pairing
    BY Zenon, <2>1 DEF IInv, JobOther
  <2>2. CASE ~job[c].pairing
    BY Zenon, <1>1, <1>3, <2>2, NullAssumption DEF UnpairingHalf
  <2> QED BY Zenon, <2>1, <2>2
<1>5. pc[c] \in Working /\ clients[DeviceOf(c)] = c
  BY Zenon DEF Past, RestInv, Places, Working
<1>6. O \in DeviceID => k \in Client \cup {NULL} /\ (k # NULL => DeviceOf(k) = O)
  BY Zenon DEF IInv, Types, OwnClients
<1> QED BY Zenon, <1>1, <1>3, <1>4, <1>5, <1>6

(* setPeer of the handler's own client.                                    *)
LEMMA RestSetOwn ==
    ASSUME IInv, RestInv, NEW c \in Client, SetOwnPeer(c)
    PROVE  RestInv'
<1> DEFINE O == job[c].other
           k == clients[O]
           v == IF job[c].pairing THEN O ELSE NULL
<1>1. /\ pc[c] = "self" /\ pc' = [pc EXCEPT ![c] = "tellself"] /\ pc'[c] = "tellself"
      /\ peer' = [peer EXCEPT ![c] = v]
      /\ UNCHANGED <<devices, pairedWith, hubVars, clients, job, told>> /\ Past(c)
  BY Zenon DEF SetOwnPeer, Goto, SetPeer, storeVars, hubVars, Past, Working, IInv, Types
<1>2. peer'[c] = v /\ \A y \in Client : y # c => peer'[y] = peer[y]
  BY Zenon, <1>1 DEF IInv, Types
<1>3. /\ DeviceOf(c) \in DeviceID /\ O \in DeviceID \cup {NULL} /\ O # DeviceOf(c)
      /\ clients[DeviceOf(c)] = c /\ pc[c] \in Working
      /\ job[c].pairing => O \in DeviceID /\ PairingHalf(c)
      /\ ~job[c].pairing => UnpairingHalf(c)
      /\ O \in DeviceID => k \in Client \cup {NULL}
      /\ O \in DeviceID /\ k # NULL => k # c /\ DeviceOf(k) = O
  BY <1>1, PastFacts
<1>4. HalfwayAt(c)'
  <2>1. CASE job[c].pairing
    <3>1. PairingHalf(c)'
      BY <1>1, <1>2, <1>3, <2>1 DEF PairingHalf
    <3> QED BY Zenon, <1>1, <2>1, <3>1 DEF HalfwayAt
  <2>2. CASE ~job[c].pairing
    <3>1. UnpairingHalf(c)'
      BY Zenon, <1>1, <1>2, <1>3, <2>2 DEF UnpairingHalf
    <3> QED BY Zenon, <1>1, <2>2, <3>1 DEF HalfwayAt
  <2> QED BY Zenon, <2>1, <2>2
<1>5. "tellself" \in (Working \ {"db"}) \cup {"ready"} /\ "tellself" # "ready"
  BY Zenon DEF Working
<1> DEFINE to == "tellself"
<1> HIDE DEF v
<1>6. /\ UNCHANGED <<hubVars, devices, pairedWith>> /\ pc' = [pc EXCEPT ![c] = to]
      /\ Past(c) /\ \A x \in Client : x # c => job'[x] = job[x]
      /\ to \in Working => /\ job'[c].pairing <=> job[c].pairing
                           /\ job'[c].other = job[c].other
      /\ \A y \in Client : y # c => peer'[y] = peer[y] /\ told'[y] = told[y]
  BY Zenon, <1>1, <1>2
<1>7. to = "ready" => \A d \in DeviceID \cap {DeviceOf(c), job[c].other} : SettledAt(d)'
  BY Zenon, <1>5
<1> QED BY ONLY Zenon, <1>4, <1>5, <1>6, <1>7, c \in Client, IInv, RestInv, PastStep

(* Telling the handler's own client.                                       *)
LEMMA RestTellOwn ==
    ASSUME IInv, RestInv, NEW c \in Client, TellOwn(c)
    PROVE  RestInv'
<1> DEFINE O == job[c].other
           k == clients[O]
           to == IF O = NULL THEN "ready" ELSE "lookup"
           v == IF job[c].pairing THEN told[c] \cup {O} ELSE told[c] \ {O}
<1>1. /\ pc[c] = "tellself" /\ pc' = [pc EXCEPT ![c] = to] /\ pc'[c] = to
      /\ told' = [told EXCEPT ![c] = v]
      /\ UNCHANGED <<devices, pairedWith, hubVars, clients, job, peer>> /\ Past(c)
  BY Zenon DEF TellOwn, Goto, Tell, storeVars, hubVars, Past, Working, IInv, Types
<1>2. told'[c] = v /\ \A y \in Client : y # c => told'[y] = told[y]
  BY Zenon, <1>1 DEF IInv, Types
<1>3. /\ DeviceOf(c) \in DeviceID /\ O \in DeviceID \cup {NULL} /\ O # DeviceOf(c)
      /\ clients[DeviceOf(c)] = c /\ pc[c] \in Working
      /\ job[c].pairing => O \in DeviceID /\ PairingHalf(c)
      /\ ~job[c].pairing => UnpairingHalf(c)
      /\ O \in DeviceID => k \in Client \cup {NULL}
      /\ O \in DeviceID /\ k # NULL => k # c /\ DeviceOf(k) = O
  BY <1>1, PastFacts
<1>4. HalfwayAt(c)'
  <2>1. CASE job[c].pairing
    <3>1. PairingHalf(c) /\ O # NULL /\ told[c] = {} /\ v = {O}
      BY Zenon, <1>1, <1>3, <2>1, NullAssumption DEF PairingHalf
    <3>2. PairingHalf(c)'
      BY <1>1, <1>2, <1>3, <2>1, <3>1 DEF PairingHalf
    <3> QED BY <1>1, <2>1, <3>2 DEF HalfwayAt
  <2>2. CASE ~job[c].pairing
    <3>1. UnpairingHalf(c) /\ told[c] = {O} \ {NULL} /\ v = {}
      BY Zenon, <1>1, <1>3, <2>2 DEF UnpairingHalf
    <3>2. pc'[c] \notin {"self", "tellself", "tellpeer"}
      BY <1>1
    <3>3. pairedWith[DeviceOf(c)] = NULL /\ peer[c] = NULL
      BY Zenon, <1>1, <3>1 DEF UnpairingHalf
    <3>4. ASSUME O # NULL
          PROVE  /\ O # DeviceOf(c) /\ pairedWith[O] = NULL
                 /\ k # NULL => peer[k] = DeviceOf(c) /\ told'[k] = {DeviceOf(c)}
      BY Zenon, <1>1, <1>2, <1>3, <3>1, <3>4 DEF UnpairingHalf
    <3>5. UnpairingHalf(c)'
      BY Zenon, <1>1, <1>2, <3>1, <3>2, <3>3, <3>4 DEF UnpairingHalf
    <3> QED BY <1>1, <2>2, <3>5 DEF HalfwayAt
  <2> QED BY Zenon, <2>1, <2>2
<1>5. ASSUME to = "ready", NEW d \in DeviceID \cap {DeviceOf(c), O} PROVE SettledAt(d)'
  <2>1. O = NULL /\ d = DeviceOf(c) /\ clients'[d] = c /\ ~job[c].pairing
    BY Zenon, <1>1, <1>3, <1>5, NullAssumption
  <2>2. told[c] = {} /\ peer[c] = NULL /\ pairedWith[d] = NULL
    BY Zenon, <1>1, <1>3, <2>1 DEF UnpairingHalf
  <2> QED BY Zenon, <1>1, <1>2, <2>1, <2>2 DEF SettledAt
<1>6. to \in (Working \ {"db"}) \cup {"ready"}
  BY Zenon DEF Working
<1> HIDE DEF to, v
<1>7. /\ UNCHANGED <<hubVars, devices, pairedWith>> /\ pc' = [pc EXCEPT ![c] = to]
      /\ Past(c) /\ \A x \in Client : x # c => job'[x] = job[x]
      /\ to \in Working => /\ job'[c].pairing <=> job[c].pairing
                           /\ job'[c].other = job[c].other
      /\ \A y \in Client : y # c => peer'[y] = peer[y] /\ told'[y] = told[y]
  BY Zenon, <1>1, <1>2
<1>8. to = "ready" => \A d \in DeviceID \cap {DeviceOf(c), job[c].other} : SettledAt(d)'
  BY Zenon, <1>5
<1> QED BY ONLY Zenon, <1>4, <1>6, <1>7, <1>8, c \in Client, IInv, RestInv, PastStep

(* GetClient of the other device.                                          *)
LEMMA RestGetClient ==
    ASSUME IInv, RestInv, NEW c \in Client, GetClient(c)
    PROVE  RestInv'
<1> DEFINE O == job[c].other
           k == clients[O]
           to == IF k = NULL THEN "ready" ELSE "peer"
           v == IF k = NULL THEN NoJob ELSE [job[c] EXCEPT !.found = k]
<1>1. /\ pc[c] = "lookup" /\ pc' = [pc EXCEPT ![c] = to] /\ pc'[c] = to
      /\ job' = [job EXCEPT ![c] = v]
      /\ UNCHANGED <<devices, pairedWith, hubVars, clients, told, peer>> /\ Past(c)
  BY Zenon DEF GetClient, Goto, storeVars, hubVars, Past, Working, IInv, Types
<1>2. /\ job'[c] = v /\ (\A y \in Client : y # c => job'[y] = job[y]) /\ O \in DeviceID
      /\ job[c] \in Job
  BY Zenon, <1>1 DEF IInv, Types, JobOther
<1>3. /\ DeviceOf(c) \in DeviceID /\ O \in DeviceID \cup {NULL} /\ O # DeviceOf(c)
      /\ clients[DeviceOf(c)] = c /\ pc[c] \in Working
      /\ job[c].pairing => O \in DeviceID /\ PairingHalf(c)
      /\ ~job[c].pairing => UnpairingHalf(c)
      /\ O \in DeviceID => k \in Client \cup {NULL}
      /\ O \in DeviceID /\ k # NULL => k # c /\ DeviceOf(k) = O
  BY <1>1, PastFacts
<1>4. k # NULL => /\ job'[c].pairing <=> job[c].pairing
                  /\ job'[c].other = O /\ job'[c].found = k
  BY Zenon, <1>2 DEF Job
<1>5. HalfwayAt(c)'
  <2>1. CASE k = NULL
    BY <1>1, <2>1 DEF HalfwayAt, Past, Working
  <2>2. CASE k # NULL /\ job[c].pairing
    <3>1. PairingHalf(c)'
      BY <1>1, <1>3, <1>4, <2>2 DEF PairingHalf
    <3> QED BY Zenon, <1>1, <1>4, <2>2, <3>1 DEF HalfwayAt
  <2>3. CASE k # NULL /\ ~job[c].pairing
    <3>1. UnpairingHalf(c)'
      BY <1>1, <1>3, <1>4, <2>3 DEF UnpairingHalf
    <3> QED BY <1>1, <1>4, <2>3, <3>1 DEF HalfwayAt
  <2> QED BY Zenon, <2>1, <2>2, <2>3
<1>6. ASSUME to = "ready", NEW d \in DeviceID \cap {DeviceOf(c), O} PROVE SettledAt(d)'
  <2>1. k = NULL
    BY Zenon, <1>6
  <2>2. CASE d = O
    BY Zenon, <1>1, <2>1, <2>2 DEF SettledAt
  <2>3. CASE d = DeviceOf(c)
    <3>1. peer[c] = pairedWith[d] /\ told[c] = {pairedWith[d]} \ {NULL}
      <4>1. CASE job[c].pairing
        BY <1>1, <1>2, <1>3, <2>3, <4>1, NullAssumption DEF PairingHalf
      <4>2. CASE ~job[c].pairing
        BY Zenon, <1>1, <1>2, <1>3, <2>3, <4>2, NullAssumption DEF UnpairingHalf
      <4> QED BY Zenon, <4>1, <4>2
    <3> QED BY Zenon, <1>1, <1>3, <2>3, <3>1 DEF SettledAt
  <2> QED BY Zenon, <2>2, <2>3
<1>7. to \in (Working \ {"db"}) \cup {"ready"} /\ (to \in Working => k # NULL)
  BY Zenon DEF Working
<1> HIDE DEF to, v
<1>8. /\ UNCHANGED <<hubVars, devices, pairedWith>> /\ pc' = [pc EXCEPT ![c] = to]
      /\ Past(c) /\ \A x \in Client : x # c => job'[x] = job[x]
      /\ to \in Working => /\ job'[c].pairing <=> job[c].pairing
                           /\ job'[c].other = job[c].other
      /\ \A y \in Client : y # c => peer'[y] = peer[y] /\ told'[y] = told[y]
  BY Zenon, <1>1, <1>2, <1>4, <1>7
<1>9. to = "ready" => \A d \in DeviceID \cap {DeviceOf(c), job[c].other} : SettledAt(d)'
  BY Zenon, <1>6
<1> QED BY ONLY Zenon, <1>5, <1>7, <1>8, <1>9, c \in Client, IInv, RestInv, PastStep

(* The client GetClient returned is still the other device's.              *)
LEMMA FoundFacts ==
    ASSUME IInv, RestInv, NEW c \in Client, pc[c] \in {"peer", "tellpeer"}
    PROVE  /\ job[c].other \in DeviceID /\ job[c].found \in Client /\ job[c].found # NULL
           /\ job[c].found = clients[job[c].other] /\ Past(c)
<1>1. HalfwayAt(c)
  BY Zenon DEF RestInv, Halfway
<1> QED BY Zenon, <1>1, NullAssumption DEF HalfwayAt, IInv, JobOther, Past, Working

(* setPeer of the other device's client.                                   *)
LEMMA RestSetOther ==
    ASSUME IInv, RestInv, NEW c \in Client, SetOtherPeer(c)
    PROVE  RestInv'
<1> DEFINE O == job[c].other
           k == clients[O]
           v == IF job[c].pairing THEN DeviceOf(c) ELSE NULL
           to == "tellpeer"
<1>1. /\ pc[c] = "peer" /\ pc' = [pc EXCEPT ![c] = to] /\ pc'[c] = to
      /\ peer' = [peer EXCEPT ![job[c].found] = v]
      /\ UNCHANGED <<devices, pairedWith, hubVars, clients, job, told>>
  BY Zenon DEF SetOtherPeer, Goto, SetPeer, storeVars, hubVars, IInv, Types
<1>2. O \in DeviceID /\ k \in Client /\ k # NULL /\ job[c].found = k /\ Past(c)
  BY Zenon, <1>1, FoundFacts
<1>3. peer'[k] = v /\ \A y \in Client : y # k => peer'[y] = peer[y]
  BY Zenon, <1>1, <1>2 DEF IInv, Types
<1>4. /\ DeviceOf(c) \in DeviceID /\ O # DeviceOf(c) /\ k # c
      /\ job[c].pairing => PairingHalf(c)
      /\ ~job[c].pairing => UnpairingHalf(c)
  BY <1>2, PastFacts
<1>5. HalfwayAt(c)'
  <2>1. CASE job[c].pairing
    <3>1. PairingHalf(c)'
      BY Zenon, <1>1, <1>2, <1>3, <1>4, <2>1 DEF PairingHalf
    <3> QED BY Zenon, <1>1, <1>2, <2>1, <3>1 DEF HalfwayAt
  <2>2. CASE ~job[c].pairing
    <3>1. UnpairingHalf(c)'
      BY Zenon, <1>1, <1>2, <1>3, <1>4, <2>2 DEF UnpairingHalf
    <3> QED BY Zenon, <1>1, <1>2, <2>2, <3>1 DEF HalfwayAt
  <2> QED BY Zenon, <2>1, <2>2
<1>6. to \in (Working \ {"db"}) \cup {"ready"} /\ to # "ready"
  BY Zenon DEF Working
<1> HIDE DEF v, to
<1>7. /\ UNCHANGED <<hubVars, devices, pairedWith>> /\ pc' = [pc EXCEPT ![c] = to]
      /\ Past(c) /\ \A x \in Client : x # c => job'[x] = job[x]
      /\ to \in Working => /\ job'[c].pairing <=> job[c].pairing
                           /\ job'[c].other = job[c].other
      /\ k \in Client /\ job[c].other \in DeviceID /\ k = clients[job[c].other]
      /\ \A y \in Client : y # k => peer'[y] = peer[y] /\ told'[y] = told[y]
  BY Zenon, <1>1, <1>2, <1>3
<1> HIDE DEF k
<1> QED BY ONLY Zenon, <1>5, <1>6, <1>7, c \in Client, IInv, RestInv, PastStep

(* Telling the other device's client, which ends the job.                  *)
LEMMA RestTellOther ==
    ASSUME IInv, RestInv, NEW c \in Client, TellOther(c)
    PROVE  RestInv'
<1> DEFINE D == DeviceOf(c)
           O == job[c].other
           k == clients[O]
           v == IF job[c].pairing THEN told[k] \cup {D} ELSE told[k] \ {D}
           to == "ready"
<1>1. O \in DeviceID /\ k \in Client /\ k # NULL /\ job[c].found = k /\ Past(c)
      /\ pc[c] = "tellpeer"
  BY Zenon, FoundFacts DEF TellOther, Goto
<1>2. /\ pc' = [pc EXCEPT ![c] = to] /\ pc'[c] = to
      /\ told' = [told EXCEPT ![k] = v]
      /\ job' = [job EXCEPT ![c] = NoJob]
      /\ UNCHANGED <<devices, pairedWith, hubVars, clients, peer>>
  BY Zenon, <1>1 DEF TellOther, Goto, Tell, storeVars, hubVars, IInv, Types
<1>3. told'[k] = v /\ \A y \in Client : y # k => told'[y] = told[y]
  BY Zenon, <1>1, <1>2 DEF IInv, Types
<1>4. /\ D \in DeviceID /\ O # D /\ k # c /\ clients[D] = c
      /\ job[c].pairing => PairingHalf(c)
      /\ ~job[c].pairing => UnpairingHalf(c)
  BY <1>1, PastFacts
<1>5. HalfwayAt(c)'
  BY Zenon, <1>2 DEF HalfwayAt, Past, Working
<1>6. /\ peer[c] = pairedWith[D] /\ told[c] = {pairedWith[D]} \ {NULL}
      /\ peer[k] = pairedWith[O] /\ v = {pairedWith[O]} \ {NULL}
  <2>1. CASE job[c].pairing
    BY Zenon, <1>1, <1>4, <2>1, NullAssumption DEF PairingHalf
  <2>2. CASE ~job[c].pairing
    BY Zenon, <1>1, <1>4, <2>2, NullAssumption DEF UnpairingHalf
  <2> QED BY Zenon, <2>1, <2>2
<1>7. ASSUME NEW d \in DeviceID \cap {D, O} PROVE SettledAt(d)'
  <2>1. CASE d = D
    BY Zenon, <1>2, <1>3, <1>4, <1>6, <2>1 DEF SettledAt
  <2>2. CASE d = O
    BY Zenon, <1>1, <1>2, <1>3, <1>6, <2>2 DEF SettledAt
  <2> QED BY Zenon, <2>1, <2>2
<1>8. to \in (Working \ {"db"}) \cup {"ready"} /\ to \notin Working
  BY Zenon DEF Working
<1>9. \A d \in DeviceID \cap {D, O} : SettledAt(d)'
  BY Zenon, <1>7
<1> HIDE DEF v, to
<1>10. /\ UNCHANGED <<hubVars, devices, pairedWith>> /\ pc' = [pc EXCEPT ![c] = to]
       /\ Past(c) /\ \A x \in Client : x # c => job'[x] = job[x]
       /\ k \in Client /\ job[c].other \in DeviceID /\ k = clients[job[c].other]
       /\ \A y \in Client : y # k => peer'[y] = peer[y] /\ told'[y] = told[y]
  BY Zenon, <1>1, <1>2, <1>3 DEF IInv, Types
<1> HIDE DEF k
<1> QED BY ONLY Zenon, <1>5, <1>8, <1>9, <1>10, c \in Client, IInv, RestInv, PastStep

(* The transactions.  A pairing that fails leaves all as it was ...        *)
LEMMA RestPairFails ==
    ASSUME IInv, RestInv, NEW c \in Client, PairFails(c)
    PROVE  RestInv'
<1> DEFINE to == "ready"
<1>1. /\ pc[c] = "db" /\ pc' = [pc EXCEPT ![c] = to] /\ pc'[c] = to /\ pc[c] \in Working
      /\ \A x \in Client : x # c => pc'[x] = pc[x] /\ job'[x] = job[x]
      /\ to \in Working \cup {"ready"} /\ to \notin Working
      /\ UNCHANGED <<devices, pairedWith, hubVars, clients, told, peer>>
  BY Zenon DEF PairFails, Goto, storeVars, hubVars, Working, IInv, Types
<1>2. Exclusive' /\ Places' /\ Arriving'
  BY Zenon, <1>1, WorkStep
<1>3. ~Past(c) /\ ~Past(c)'
  BY Zenon, <1>1 DEF Past, Working
<1>4. \A x \in Client : (Past(x)' <=> Past(x)) /\ \A d : Disturbs(x, d)' <=> Disturbs(x, d)
  BY Zenon, <1>1, <1>3 DEF Past, Disturbs
<1>5. Apart' /\ Paired'
  BY Zenon, <1>1, <1>4 DEF RestInv, Apart, Paired
<1>6. ASSUME NEW x \in Client PROVE HalfwayAt(x)'
  <2>1. CASE x = c
    BY Zenon, <1>1, <1>3, <2>1 DEF HalfwayAt
  <2>2. CASE x # c
    <3>1. HalfwayAt(x) /\ pc'[x] = pc[x] /\ job'[x] = job[x] /\ (Past(x)' <=> Past(x))
      BY Zenon, <1>1, <1>4, <2>2 DEF RestInv, Halfway
    <3> QED BY Zenon, <1>1, <3>1 DEF HalfwayAt, PairingHalf, UnpairingHalf
  <2> QED BY Zenon, <2>1, <2>2
<1>7. ASSUME NEW d \in DeviceID PROVE SettledAt(d)'
  <2>1. SettledAt(d) /\ clients[d] \in Client \cup {NULL}
    BY Zenon DEF RestInv, Settled, IInv, Types
  <2>2. clients[d] \in Client =>
            (pc'[clients[d]] \in {"welcome", "done"} <=> pc[clients[d]] \in {"welcome", "done"})
    BY Zenon, <1>1
  <2> QED BY Zenon, <1>1, <1>4, <2>1, <2>2 DEF SettledAt
<1> QED BY Zenon, <1>2, <1>5, <1>6, <1>7 DEF RestInv, Halfway, Settled

(* ... one that succeeds finds both devices free and agreeing ...          *)
LEMMA RestPair ==
    ASSUME IInv, RestInv, NEW c \in Client, Pair(c)
    PROVE  RestInv'
<1>0. PICK O : O = job[c].other
  OBVIOUS
<1> DEFINE D == DeviceOf(c)
           k == clients[O]
           to == "self"
<1>1. /\ pc[c] = "db" /\ pc' = [pc EXCEPT ![c] = to] /\ pc'[c] = to /\ pc[c] \in Working
      /\ \A x \in Client : x # c => pc'[x] = pc[x] /\ job'[x] = job[x]
      /\ to \in Working /\ job[c].pairing
      /\ UNCHANGED <<devices, hubVars, clients, job, told, peer>>
  BY Zenon DEF Pair, Goto, Store!PairDevices, hubVars, Working, IInv, Types
<1>2. O \in DeviceID /\ O # D /\ D \in DeviceID
  BY Zenon, <1>0, <1>1, ClientDevice DEF IInv, JobOther
<1>3. /\ pairedWith[O] = NULL /\ pairedWith[D] = NULL
      /\ pairedWith' = [pairedWith EXCEPT ![O] = D, ![D] = O]
  BY Zenon, <1>0 DEF Pair, Store!PairDevices, Store!CanPair
<1>4. /\ pairedWith'[O] = D /\ pairedWith'[D] = O
      /\ \A e \in DeviceID : e \notin {D, O} => pairedWith'[e] = pairedWith[e]
  BY Zenon, <1>2, <1>3 DEF IInv, Types
<1>5. \A x \in Client : x # c => ~Disturbs(x, D) /\ ~Disturbs(x, O)
  <2> SUFFICES ASSUME NEW x \in Client, x # c, Past(x)
               PROVE  DeviceOf(x) \notin {D, O} /\ job[x].other \notin {D, O}
    BY Zenon DEF Disturbs
  <2>1. job[x].pairing
    BY Zenon, <1>1 DEF RestInv, Exclusive, Busy, InPairing, Past
  <2>2. PairingHalf(x) /\ DeviceOf(x) \in DeviceID /\ job[x].other \in DeviceID
    BY <2>1, PastFacts
  <2>3. pairedWith[DeviceOf(x)] # NULL /\ pairedWith[job[x].other] # NULL
    BY Zenon, <2>2, NullAssumption DEF PairingHalf
  <2> QED BY Zenon, <1>3, <2>3
<1>6. Exclusive' /\ Places' /\ Arriving'
  <2>1. to \in Working \cup {"ready"}
    BY Zenon, <1>1
  <2> HIDE DEF to
  <2> QED BY Zenon, <1>1, <2>1, WorkStep
<1>7. /\ Apart' /\ \A x \in Client : x # c => HalfwayAt(x)'
      /\ \A d \in DeviceID : d \notin {D, O} => SettledAt(d)'
  <2>1. (Past(c)' => job'[c].other = O) /\ (Past(c) => job[c].other = O)
    BY Zenon, <1>0, <1>1
  <2>2. \A y \in Client : DeviceOf(y) \notin {D, O} => peer'[y] = peer[y] /\ told'[y] = told[y]
    BY Zenon, <1>1
  <2>3. clients' = clients
    BY Zenon, <1>1
  <2> QED BY ONLY <1>1, <1>4, <1>5, <2>1, <2>2, <2>3, c \in Client, IInv, RestInv, WorkFrame
<1>8. Paired'
  <2>1. \A e \in DeviceID : e \notin {D, O} => pairedWith[e] \notin {D, O}
    BY Zenon, <1>2, <1>3, NullAssumption DEF RestInv, Paired
  <2>2. devices' = DeviceID
    BY Zenon, <1>1 DEF RestInv, Paired
  <2>3. ASSUME NEW d \in DeviceID, NEW e \in DeviceID, pairedWith'[d] = e
        PROVE  pairedWith'[e] = d
    <3>1. CASE d \in {D, O}
      BY Zenon, <1>4, <2>3, <3>1
    <3>2. CASE d \notin {D, O}
      <4>1. pairedWith[d] = e /\ e \notin {D, O}
        BY Zenon, <1>4, <2>1, <2>3, <3>2
      <4> QED BY Zenon, <1>4, <2>3, <4>1 DEF RestInv, Paired
    <3> QED BY Zenon, <3>1, <3>2
  <2> QED BY Zenon, <2>2, <2>3 DEF Paired
<1>9. HalfwayAt(c)'
  <2>1. \A x \in Client : ~Disturbs(x, D) /\ ~Disturbs(x, O)
    BY Zenon, <1>1, <1>5 DEF Disturbs, Past
  <2>2. SettledAt(D) /\ SettledAt(O)
    BY Zenon, <1>2 DEF RestInv, Settled
  <2>3. clients[D] = c
    BY Zenon, <1>1 DEF RestInv, Places
  <2>4. peer[c] = NULL /\ told[c] = {}
    BY Zenon, <1>1, <1>3, <2>1, <2>2, <2>3, NullAssumption DEF SettledAt
  <2>5. k # NULL => peer[k] = NULL /\ told[k] = {}
    <3> SUFFICES ASSUME k # NULL PROVE peer[k] = NULL /\ told[k] = {}
      OBVIOUS
    <3>1. k \in Client /\ DeviceOf(k) = O /\ k # c
      BY Zenon, <1>2 DEF IInv, Types, OwnClients
    <3>2. pc[k] \notin {"welcome", "done"}
      BY Zenon, <1>1, <3>1 DEF RestInv, Exclusive, Busy, InPairing, Working
    <3> QED BY Zenon, <1>3, <2>1, <2>2, <3>2 DEF SettledAt
  <2>6. PairingHalf(c)'
    BY Zenon, <1>0, <1>1, <1>4, <2>4, <2>5 DEF PairingHalf
  <2> QED BY Zenon, <1>1, <2>6 DEF HalfwayAt
<1>10. ASSUME NEW d \in {D, O} PROVE SettledAt(d)'
  <2>1. Disturbs(c, d)'
    BY Zenon, <1>0, <1>1, <1>10 DEF Disturbs, Past
  <2> QED BY Zenon, <2>1 DEF SettledAt
<1> QED BY Zenon, <1>6, <1>7, <1>8, <1>9, <1>10 DEF RestInv, Halfway, Settled

(* ... and an unpair parts two devices whose clients agreed.               *)
LEMMA RestUnpair ==
    ASSUME IInv, RestInv, NEW c \in Client, Unpair(c)
    PROVE  RestInv'
<1>0. PICK O : O = job[c].other
  OBVIOUS
<1> DEFINE D == DeviceOf(c)
           k == clients[O]
           to == "self"
<1>1. /\ pc[c] = "db" /\ pc' = [pc EXCEPT ![c] = to] /\ pc'[c] = to /\ pc[c] \in Working
      /\ \A x \in Client : x # c => pc'[x] = pc[x] /\ job'[x] = job[x]
      /\ to \in Working /\ ~job[c].pairing
      /\ UNCHANGED <<devices, hubVars, clients, job, told, peer>>
  BY Zenon DEF Unpair, Goto, Store!UnpairDevice, hubVars, Working, IInv, Types
<1>2. D \in DeviceID /\ O = pairedWith[D] /\ O \in DeviceID \cup {NULL}
  BY <1>0, <1>1, ClientDevice DEF RestInv, Halfway, HalfwayAt, IInv, Types
<1>3. O # D
  <2> SUFFICES ASSUME O = D PROVE FALSE
    OBVIOUS
  <2>1. {D, D} \in linked
    BY Zenon, <1>2, NullAssumption DEF IInv, RowsJoined, Joined
  <2> QED BY Zenon, <1>2, <2>1 DEF IInv, LinkedPairs, Joined
<1>4. \A e \in DeviceID : pairedWith[e] = D => e = O
  BY Zenon, <1>2 DEF RestInv, Paired
<1>5. /\ pairedWith'[D] = NULL /\ (O # NULL => pairedWith'[O] = NULL)
      /\ \A e \in DeviceID : e \notin {D, O} => pairedWith'[e] = pairedWith[e]
  <2>1. pairedWith' = [d \in DeviceID |->
            IF d \in {D} \cup {e \in devices : pairedWith[e] = D} THEN NULL ELSE pairedWith[d]]
    BY Zenon DEF Unpair, Store!UnpairDevice, Store!ClearLinks, Store!PointingAt
  <2>2. O # NULL => O \in DeviceID /\ pairedWith[O] = D /\ devices = DeviceID
    BY Zenon, <1>2 DEF RestInv, Paired
  <2> QED BY Zenon, <1>2, <1>4, <2>1, <2>2
<1>6. \A x \in Client : x # c => ~Busy(x) /\ ~Past(x)
  BY Zenon, <1>1, Alone DEF Busy, InPairing
<1>7. Exclusive' /\ Places' /\ Arriving'
  <2>1. to \in Working \cup {"ready"}
    BY Zenon, <1>1
  <2> HIDE DEF to
  <2> QED BY Zenon, <1>1, <2>1, WorkStep
<1>8. /\ Apart' /\ \A x \in Client : x # c => HalfwayAt(x)'
      /\ \A d \in DeviceID : d \notin {D, O} => SettledAt(d)'
  <2>1. (Past(c)' => job'[c].other = O) /\ (Past(c) => job[c].other = O)
    BY Zenon, <1>0, <1>1
  <2>2. \A y \in Client : DeviceOf(y) \notin {D, O} => peer'[y] = peer[y] /\ told'[y] = told[y]
    BY Zenon, <1>1
  <2>3. clients' = clients
    BY Zenon, <1>1
  <2>4. \A x \in Client : x # c => ~Disturbs(x, D) /\ ~Disturbs(x, O)
    BY Zenon, <1>6 DEF Disturbs
  <2> QED BY ONLY Zenon, <1>1, <1>5, <2>1, <2>2, <2>3, <2>4, c \in Client, IInv, RestInv, WorkFrame
<1>9. Paired'
  <2>2. devices' = DeviceID
    BY Zenon, <1>1 DEF RestInv, Paired
  <2>3. ASSUME NEW d \in DeviceID, NEW e \in DeviceID, pairedWith'[d] = e
        PROVE  pairedWith'[e] = d
    <3>1. d \notin {D, O}
      BY Zenon, <1>2, <1>5, <2>3, NullAssumption
    <3>2. pairedWith[d] = e /\ pairedWith[e] = d
      BY Zenon, <1>5, <2>3, <3>1 DEF RestInv, Paired
    <3>3. e \notin {D, O}
      BY Zenon, <1>2, <1>4, <2>3, <3>1, <3>2 DEF RestInv, Paired
    <3> QED BY Zenon, <1>5, <2>3, <3>2, <3>3
  <2> QED BY Zenon, <2>2, <2>3 DEF Paired
<1>10. HalfwayAt(c)'
  <2>1. \A x \in Client : \A d : ~Disturbs(x, d)
    BY Zenon, <1>1, <1>6 DEF Disturbs, Past
  <2>2. SettledAt(D) /\ (O # NULL => SettledAt(O))
    BY Zenon, <1>2 DEF RestInv, Settled
  <2>3. clients[D] = c
    BY Zenon, <1>1 DEF RestInv, Places
  <2>4. peer[c] = O /\ told[c] = {O} \ {NULL}
    BY Zenon, <1>1, <1>2, <2>1, <2>2, <2>3, NullAssumption DEF SettledAt
  <2>5. O # NULL /\ k # NULL => peer[k] = D /\ told[k] = {D}
    <3> SUFFICES ASSUME O # NULL, k # NULL PROVE peer[k] = D /\ told[k] = {D}
      OBVIOUS
    <3>1. k \in Client /\ DeviceOf(k) = O /\ k # c
      BY Zenon, <1>2, <1>3 DEF IInv, Types, OwnClients
    <3>2. pc[k] \notin {"welcome", "done"}
      BY Zenon, <1>6, <3>1 DEF Busy
    <3>3. pairedWith[O] = D /\ D # NULL
      BY Zenon, <1>2, NullAssumption DEF RestInv, Paired
    <3> QED BY Zenon, <2>1, <2>2, <3>2, <3>3 DEF SettledAt
  <2>6. UnpairingHalf(c)'
    BY Zenon, <1>0, <1>1, <1>3, <1>5, <2>4, <2>5 DEF UnpairingHalf
  <2> QED BY Zenon, <1>1, <2>6 DEF HalfwayAt
<1>11. ASSUME NEW d \in {D, O} PROVE SettledAt(d)'
  <2>1. Disturbs(c, d)'
    BY Zenon, <1>0, <1>1, <1>11 DEF Disturbs, Past
  <2> QED BY Zenon, <2>1 DEF SettledAt
<1> QED BY Zenon, <1>7, <1>8, <1>9, <1>10, <1>11 DEF RestInv, Halfway, Settled

(* A step in which client c moves and nothing is half way with c.          *)
LEMMA QuietFrame ==
    ASSUME IInv, RestInv, NEW c \in Client, ~Past(c), ~Past(c)',
           UNCHANGED <<devices, pairedWith, clients>>,
           \A x \in Client : x # c => /\ pc'[x] = pc[x] /\ job'[x] = job[x]
                                      /\ peer'[x] = peer[x] /\ told'[x] = told[x],
           clients[DeviceOf(c)] = c => peer'[c] = peer[c] /\ told'[c] = told[c]
    PROVE  /\ Apart' /\ Paired' /\ \A x \in Client : x # c => HalfwayAt(x)'
           /\ \A d \in DeviceID : clients[d] # c => SettledAt(d)'
<1>0. \A x \in Client : /\ Past(x)' <=> Past(x)
                        /\ \A d \in DeviceID : Disturbs(x, d)' <=> Disturbs(x, d)
  BY Zenon DEF Past, Disturbs
<1>1. Apart' /\ Paired'
  BY Zenon, <1>0 DEF RestInv, Apart, Paired
<1>2. \A d \in DeviceID : clients[d] # NULL =>
          peer'[clients[d]] = peer[clients[d]] /\ told'[clients[d]] = told[clients[d]]
  BY DEF IInv, Types, OwnClients
<1>3. ASSUME NEW x \in Client, x # c PROVE HalfwayAt(x)'
  <2>1. /\ HalfwayAt(x) /\ pc'[x] = pc[x] /\ job'[x] = job[x] /\ (Past(x)' <=> Past(x))
        /\ peer'[x] = peer[x] /\ told'[x] = told[x] /\ pairedWith' = pairedWith
        /\ clients' = clients
    BY Zenon, <1>0, <1>3 DEF RestInv, Halfway
  <2>2. job[x].other \in DeviceID \cup {NULL} /\ (job[x].pairing => job[x].other \in DeviceID)
    BY Zenon DEF IInv, Types, Job, JobOther
  <2>3. Past(x)' /\ job'[x].pairing => PairingHalf(x)'
    BY <1>2, <2>1, <2>2 DEF HalfwayAt, PairingHalf
  <2>4. Past(x)' /\ ~job'[x].pairing => UnpairingHalf(x)'
    BY Zenon, <1>2, <2>1, <2>2 DEF HalfwayAt, UnpairingHalf
  <2> QED BY Zenon, <2>1, <2>3, <2>4 DEF HalfwayAt
<1>4. ASSUME NEW d \in DeviceID, clients[d] # c PROVE SettledAt(d)'
  <2>1. SettledAt(d) /\ clients[d] \in Client \cup {NULL}
    BY Zenon DEF RestInv, Settled, IInv, Types
  <2> QED BY Zenon, <1>0, <1>2, <1>4, <2>1 DEF SettledAt
<1> QED BY Zenon, <1>1, <1>3, <1>4

(* handlePairAccept takes a code.                                          *)
LEMMA RestAccept ==
    ASSUME InBandOnly, IInv, RestInv, NEW c \in Client, NEW code \in Code,
           HandlePairAccept(c, code), ~UNCHANGED <<pc, job>>
    PROVE  RestInv'
<1> DEFINE new == [pairing |-> TRUE, other |-> requester[entries[code]], found |-> NULL]
<1>1. /\ pc[c] = "ready" /\ c \notin closed /\ MayStart("pair")
      /\ pc' = [pc EXCEPT ![c] = "db"] /\ job' = [job EXCEPT ![c] = new]
      /\ UNCHANGED <<devices, pairedWith, clients, waiting, closed, peer, told>>
  BY Zenon DEF HandlePairAccept, Reads, storeVars, hubVars
<1>2. /\ pc'[c] = "db" /\ job'[c] = new /\ new.pairing
      /\ \A x \in Client : x # c => pc'[x] = pc[x] /\ job'[x] = job[x]
  <2>1. new.pairing
    OBVIOUS
  <2> HIDE DEF new
  <2> QED BY Zenon, <1>1, <2>1 DEF IInv, Types
<1> HIDE DEF new
<1>3. \A x \in Client : Busy(x) => InPairing(x) /\ x \notin waiting
  BY Zenon, <1>1, PairingStarts
<1>4. c \notin waiting /\ clients[DeviceOf(c)] = c
  <2>1. c \notin waiting
    BY Zenon, <1>3 DEF Busy
  <2> QED BY Zenon, <1>1, <2>1 DEF RestInv, Places
<1>5. \A x \in Client : Busy(x)' => InPairing(x)'
  <2>1. InPairing(c)'
    BY Zenon, <1>2 DEF InPairing, Working
  <2>2. \A x \in Client : x # c => (Busy(x)' <=> Busy(x)) /\ (InPairing(x)' <=> InPairing(x))
    BY Zenon, <1>1, <1>2 DEF Busy, InPairing
  <2> QED BY Zenon, <1>3, <2>1, <2>2
<1>6. Exclusive'
  BY Zenon, <1>5 DEF Exclusive
<1>7. Places'
  BY <1>1, <1>2, <1>4 DEF RestInv, Places, Working
<1>8. Arriving'
  <2>1. \A x \in Client : pc'[x] # "welcome" /\ x \notin waiting'
    BY Zenon, <1>1, <1>2, <1>3, <1>4 DEF Busy, InPairing, Working
  <2> QED BY Zenon, <2>1 DEF Arriving, ArrivingAt
<1>9. ~Past(c) /\ ~Past(c)'
  BY Zenon, <1>1, <1>2 DEF Past, Working
<1>10. /\ Apart' /\ Paired' /\ \A x \in Client : x # c => HalfwayAt(x)'
       /\ \A d \in DeviceID : clients[d] # c => SettledAt(d)'
  BY Zenon, <1>1, <1>2, <1>9, QuietFrame
<1>11. HalfwayAt(c)'
  BY Zenon, <1>2, <1>9 DEF HalfwayAt
<1>12. ASSUME NEW d \in DeviceID, clients[d] = c PROVE SettledAt(d)'
  <2>1. SettledAt(d) /\ \A x \in Client : Disturbs(x, d)' <=> Disturbs(x, d)
    BY Zenon, <1>2, <1>9 DEF RestInv, Settled, Disturbs, Past
  <2> QED BY Zenon, <1>1, <1>12, <2>1 DEF SettledAt
<1> QED BY Zenon, <1>6, <1>7, <1>8, <1>10, <1>11, <1>12 DEF RestInv, Halfway, Settled

(* handleUnpair reads the peer.                                            *)
LEMMA RestHandleUnpair ==
    ASSUME InBandOnly, IInv, RestInv, NEW c \in Client, HandleUnpair(c)
    PROVE  RestInv'
<1> DEFINE new == [pairing |-> FALSE, other |-> peer[c], found |-> NULL]
<1>1. /\ pc[c] = "ready" /\ c \notin closed /\ MayStart("unpair")
      /\ pc' = [pc EXCEPT ![c] = "db"] /\ job' = [job EXCEPT ![c] = new]
      /\ UNCHANGED <<devices, pairedWith, clients, waiting, closed, peer, told>>
  BY Zenon DEF HandleUnpair, Reads, storeVars, hubVars
<1>2. /\ pc'[c] = "db" /\ job'[c].other = peer[c]
      /\ \A x \in Client : x # c => pc'[x] = pc[x] /\ job'[x] = job[x]
  BY Zenon, <1>1 DEF IInv, Types
<1>3. \A x \in Client : ~Busy(x)
  BY Zenon, <1>1, StartsAlone
<1>4. c \notin waiting /\ clients[DeviceOf(c)] = c /\ DeviceOf(c) \in DeviceID
  <2>1. c \notin waiting
    BY Zenon, <1>3 DEF Busy
  <2> QED BY Zenon, <1>1, <2>1, ClientDevice DEF RestInv, Places
<1>5. \A x \in Client : x # c => ~Busy(x)'
  BY Zenon, <1>1, <1>2, <1>3 DEF Busy
<1>6. Exclusive'
  BY Zenon, <1>5 DEF Exclusive
<1>7. Places'
  BY Zenon, <1>1, <1>2, <1>4 DEF RestInv, Places, Working
<1>8. Arriving'
  <2>1. \A x \in Client : pc'[x] # "welcome" /\ x \notin waiting'
    BY Zenon, <1>1, <1>2, <1>3, <1>4 DEF Busy
  <2> QED BY Zenon, <2>1 DEF Arriving, ArrivingAt
<1>9. ~Past(c) /\ ~Past(c)'
  BY Zenon, <1>1, <1>2 DEF Past, Working
<1>10. /\ Apart' /\ Paired' /\ \A x \in Client : x # c => HalfwayAt(x)'
       /\ \A d \in DeviceID : clients[d] # c => SettledAt(d)'
  BY Zenon, <1>1, <1>2, <1>9, QuietFrame
<1>11. HalfwayAt(c)'
  <2>1. SettledAt(DeviceOf(c)) /\ \A x \in Client : ~Disturbs(x, DeviceOf(c))
    BY Zenon, <1>3, <1>4 DEF RestInv, Settled, Busy, Disturbs, Past
  <2>2. peer[c] = pairedWith[DeviceOf(c)]
    BY Zenon, <1>1, <1>4, <2>1, NullAssumption DEF SettledAt
  <2> QED BY Zenon, <1>1, <1>2, <1>9, <2>2 DEF HalfwayAt
<1>12. ASSUME NEW d \in DeviceID, clients[d] = c PROVE SettledAt(d)'
  <2>1. SettledAt(d) /\ \A x \in Client : Disturbs(x, d)' <=> Disturbs(x, d)
    BY Zenon, <1>2, <1>9 DEF RestInv, Settled, Disturbs, Past
  <2> QED BY Zenon, <1>1, <1>12, <2>1 DEF SettledAt
<1> QED BY Zenon, <1>6, <1>7, <1>8, <1>10, <1>11, <1>12 DEF RestInv, Halfway, Settled

(* With no handler at work nothing is half way.                            *)
LEMMA NoneHalfway ==
    ASSUME \A x \in Client : pc'[x] \notin Working
    PROVE  Apart' /\ Halfway'
BY Zenon DEF Apart, Disturbs, Past, Halfway, HalfwayAt, Working

(* Handler reads the row and sends the client to the Hub.                  *)
LEMMA RestConnect ==
    ASSUME InBandOnly, IInv, RestInv, NEW c \in Client, Connect(c)
    PROVE  RestInv'
<1> DEFINE p == pairedWith[DeviceOf(c)]
<1>1. /\ pc[c] = "idle" /\ pc' = [pc EXCEPT ![c] = "welcome"] /\ MayStart("connect")
      /\ seen' = [seen EXCEPT ![c] = p] /\ peer' = [peer EXCEPT ![c] = p]
      /\ waiting' = waiting \cup {c}
      /\ UNCHANGED <<devices, pairedWith, clients, closed, told>>
  BY Zenon DEF Connect, Goto, storeVars
<1>2. /\ pc'[c] = "welcome" /\ seen'[c] = p /\ peer'[c] = p
      /\ \A x \in Client : x # c => pc'[x] = pc[x] /\ peer'[x] = peer[x]
  BY Zenon, <1>1 DEF IInv, Types
<1>3. \A x \in Client : ~Busy(x)
  BY Zenon, <1>1, StartsAlone
<1>4. c \notin closed /\ clients[DeviceOf(c)] # c /\ told[c] = {}
  BY Zenon, <1>1 DEF RestInv, Places
<1>5. \A x \in Client : x # c => ~Busy(x)'
  BY Zenon, <1>1, <1>2, <1>3 DEF Busy
<1>6. Exclusive'
  BY Zenon, <1>5 DEF Exclusive
<1>7. Places'
  BY Zenon, <1>1, <1>2, <1>4 DEF RestInv, Places, Working
<1>8. Arriving'
  <2>1. \A x \in Client : x # c => pc'[x] # "welcome" /\ x \notin waiting'
    BY Zenon, <1>1, <1>2, <1>3 DEF Busy
  <2> QED BY Zenon, <1>1, <1>2, <1>4, <2>1 DEF Arriving, ArrivingAt
<1>9. Apart' /\ Halfway'
  <2>1. \A x \in Client : pc'[x] \notin Working
    BY Zenon, <1>2, <1>3 DEF Busy, Working
  <2> QED BY Zenon, <2>1, NoneHalfway
<1>10. ASSUME NEW d \in DeviceID PROVE SettledAt(d)'
  <2>1. clients[d] # NULL => clients[d] \in Client /\ clients[d] # c
    BY Zenon, <1>4 DEF IInv, Types, OwnClients
  <2>2. SettledAt(d) /\ \A x \in Client : ~Disturbs(x, d)
    BY Zenon, <1>3 DEF RestInv, Settled, Busy, Disturbs, Past
  <2> QED BY Zenon, <1>1, <1>2, <2>1, <2>2 DEF SettledAt
<1>11. Paired'
  BY Zenon, <1>1 DEF RestInv, Paired
<1> QED BY Zenon, <1>6, <1>7, <1>8, <1>9, <1>10, <1>11 DEF RestInv, Settled

(* sendWelcome tells the client of the peer in the row that was read.      *)
LEMMA RestSendWelcome ==
    ASSUME IInv, RestInv, NEW c \in Client, SendWelcome(c)
    PROVE  RestInv'
<1> DEFINE p == pairedWith[DeviceOf(c)]
<1>1. /\ pc[c] = "welcome" /\ pc' = [pc EXCEPT ![c] = "ready"]
      /\ told' = [told EXCEPT ![c] = told[c] \cup ({seen[c]} \ {NULL})]
      /\ UNCHANGED <<devices, pairedWith, clients, waiting, closed, peer>>
  BY Zenon DEF SendWelcome, Goto, storeVars, hubVars
<1>2. /\ pc'[c] = "ready" /\ told'[c] = told[c] \cup ({seen[c]} \ {NULL})
      /\ \A x \in Client : x # c => pc'[x] = pc[x] /\ told'[x] = told[x]
  BY Zenon, <1>1 DEF IInv, Types
<1>3. \A x \in Client : x # c => ~Busy(x) /\ ~Past(x)
  BY Zenon, <1>1, Alone DEF Busy, InPairing, Working
<1>4. peer[c] = p /\ told'[c] = {p} \ {NULL}
  BY Zenon, <1>1, <1>2 DEF RestInv, Arriving, ArrivingAt
<1>5. \A x \in Client : x # c => ~Busy(x)'
  BY Zenon, <1>1, <1>2, <1>3 DEF Busy
<1>6. Exclusive'
  BY Zenon, <1>5 DEF Exclusive
<1>7. Places'
  BY Zenon, <1>1, <1>2 DEF RestInv, Places, Working
<1>8. Arriving'
  <2>1. \A x \in Client : x # c => pc'[x] # "welcome" /\ x \notin waiting'
    BY Zenon, <1>1, <1>2, <1>3 DEF Busy
  <2> QED BY Zenon, <1>1, <1>2, <1>4, <2>1 DEF Arriving, ArrivingAt
<1>9. Apart' /\ Halfway'
  <2>1. \A x \in Client : pc'[x] \notin Working
    BY Zenon, <1>2, <1>3 DEF Busy, Working
  <2> QED BY Zenon, <2>1, NoneHalfway
<1>10. ASSUME NEW d \in DeviceID PROVE SettledAt(d)'
  <2>1. CASE clients[d] = c
    <3>1. d = DeviceOf(c)
      BY Zenon, <2>1, NullAssumption DEF IInv, OwnClients
    <3> QED BY Zenon, <1>1, <1>4, <2>1, <3>1 DEF SettledAt
  <2>2. CASE clients[d] # c
    <3>1. clients[d] \in Client \cup {NULL}
      BY Zenon DEF IInv, Types
    <3>2. SettledAt(d) /\ \A x \in Client : ~Disturbs(x, d)
      BY Zenon, <1>1, <1>3 DEF RestInv, Settled, Disturbs, Past, Working
    <3> QED BY Zenon, <1>1, <1>2, <2>2, <3>1, <3>2 DEF SettledAt
  <2> QED BY Zenon, <2>1, <2>2
<1>11. Paired'
  BY Zenon, <1>1 DEF RestInv, Paired
<1> QED BY Zenon, <1>6, <1>7, <1>8, <1>9, <1>10, <1>11 DEF RestInv, Settled

(* The Hub registers the client.                                           *)
LEMMA RestHubRegister ==
    ASSUME IInv, RestInv, NEW c \in Client, HubRegister(c)
    PROVE  RestInv'
<1> DEFINE D == DeviceOf(c)
           q == clients[D]
<1>1. /\ c \in waiting /\ waiting' = waiting \ {c} /\ closed' = closed \cup ({q} \ {NULL})
      /\ clients' = [clients EXCEPT ![D] = c]
      /\ UNCHANGED <<devices, pairedWith, pc, peer, seen, job, told>>
  BY Zenon DEF HubRegister, storeVars, clientVars
<1>2. /\ D \in DeviceID /\ clients'[D] = c
      /\ \A d \in DeviceID : d # D => clients'[d] = clients[d]
  BY Zenon, <1>1, ClientDevice DEF IInv, Types
<1>3. pc[c] \in {"welcome", "ready"} /\ c \notin closed /\ q # c
  BY Zenon, <1>1 DEF RestInv, Places
<1>4. \A x \in Client : x # c => ~Busy(x) /\ ~Past(x)
  BY Zenon, <1>1, <1>3, Alone DEF Busy, InPairing, Working
<1>5. q # NULL => q \in Client /\ DeviceOf(q) = D /\ pc[q] = "ready" /\ q \notin waiting
  <2> SUFFICES ASSUME q # NULL
               PROVE  q \in Client /\ DeviceOf(q) = D /\ pc[q] = "ready" /\ q \notin waiting
    OBVIOUS
  <2>1. q \in Client /\ DeviceOf(q) = D
    BY Zenon, <1>2 DEF IInv, Types, OwnClients
  <2>2. ~Busy(q)
    BY Zenon, <1>3, <1>4, <2>1
  <2> QED BY Zenon, <2>1, <2>2 DEF Busy, RestInv, Places, IInv, Types, Position
<1>6. \A x \in Client : x # c => ~Busy(x)'
  BY Zenon, <1>1, <1>2, <1>4, ClientDevice DEF Busy
<1>7. Exclusive'
  BY Zenon, <1>6 DEF Exclusive
<1>8. Places'
  <2> SUFFICES ASSUME NEW x \in Client
               PROVE  /\ x \in waiting' => /\ pc[x] \in {"welcome", "ready"} /\ x \notin closed'
                                           /\ clients'[DeviceOf(x)] # x
                      /\ x \in closed' => pc[x] \in {"ready", "done"} /\ clients'[DeviceOf(x)] # x
                      /\ pc[x] \in {"welcome", "ready"} \cup Working
                         /\ x \notin closed' \cup waiting' => clients'[DeviceOf(x)] = x
                      /\ pc[x] = "idle" => told[x] = {} /\ clients'[DeviceOf(x)] # x
    BY Zenon, <1>1 DEF Places
  <2>1. DeviceOf(x) \in DeviceID
    BY Zenon, ClientDevice
  <2>2. CASE x = c
    BY Zenon, <1>1, <1>2, <1>3, <2>2 DEF Working
  <2>3. CASE x # c /\ DeviceOf(x) # D
    BY Zenon, <1>1, <1>2, <1>5, <2>1, <2>3 DEF RestInv, Places
  <2>4. CASE x # c /\ DeviceOf(x) = D
    <3>1. x \notin waiting
      BY Zenon, <1>4, <2>4 DEF Busy
    <3>2. x \notin closed /\ pc[x] \in {"welcome", "ready"} \cup Working => x = q
      BY Zenon, <2>4, <3>1 DEF RestInv, Places
    <3>3. x \in closed => pc[x] \in {"ready", "done"}
      BY Zenon DEF RestInv, Places
    <3>4. pc[x] = "idle" => told[x] = {}
      BY Zenon DEF RestInv, Places
    <3> QED BY Zenon, <1>1, <1>2, <1>5, <2>4, <3>1, <3>2, <3>3, <3>4, NullAssumption
  <2> QED BY Zenon, <2>2, <2>3, <2>4
<1>9. Arriving'
  <2>1. \A x \in Client : x # c => pc'[x] # "welcome" /\ x \notin waiting'
    BY Zenon, <1>1, <1>4 DEF Busy
  <2>2. c \notin waiting' /\ ArrivingAt(c)
    BY Zenon, <1>1 DEF RestInv, Arriving
  <2> QED BY Zenon, <1>1, <2>1, <2>2 DEF Arriving, ArrivingAt
<1>10. Apart' /\ Halfway'
  <2>1. \A x \in Client : pc'[x] \notin Working
    BY Zenon, <1>1, <1>3, <1>4 DEF Busy, Working
  <2> QED BY Zenon, <2>1, NoneHalfway
<1>11. ASSUME NEW d \in DeviceID PROVE SettledAt(d)'
  <2>1. CASE d = D
    BY <1>1, <1>2, <1>3, <2>1 DEF SettledAt, RestInv, Arriving, ArrivingAt
  <2>2. CASE d # D
    <3>1. SettledAt(d) /\ \A x \in Client : ~Disturbs(x, d)
      BY Zenon, <1>3, <1>4 DEF RestInv, Settled, Disturbs, Past, Working
    <3> QED BY Zenon, <1>1, <1>2, <2>2, <3>1 DEF SettledAt
  <2> QED BY Zenon, <2>1, <2>2
<1>12. Paired'
  BY Zenon, <1>1 DEF RestInv, Paired
<1> QED BY Zenon, <1>7, <1>8, <1>9, <1>10, <1>11, <1>12 DEF RestInv, Settled

(* The Hub drops a client whose handler has left.                          *)
LEMMA RestHubUnregister ==
    ASSUME IInv, RestInv, NEW c \in Client, HubUnregister(c)
    PROVE  RestInv'
<1> DEFINE D == DeviceOf(c)
<1>1. /\ pc[c] = "done" /\ clients[D] = c /\ clients' = [clients EXCEPT ![D] = NULL]
      /\ UNCHANGED <<devices, pairedWith, waiting, closed, pc, peer, seen, job, told>>
  BY Zenon DEF HubUnregister, storeVars, clientVars
<1>2. /\ D \in DeviceID /\ clients'[D] = NULL /\ NULL \notin Client
      /\ \A d \in DeviceID : d # D => clients'[d] = clients[d]
  BY Zenon, <1>1, ClientDevice, NullAssumption DEF IInv, Types
<1>3. \A x \in Client : x # c => ~Busy(x) /\ ~Past(x)
  BY Zenon, <1>1, Alone DEF Busy, InPairing, Working
<1>4. \A x \in Client : ~Busy(x)'
  <2>1. c \notin waiting
    BY Zenon, <1>1 DEF RestInv, Places
  <2> QED BY <1>1, <1>2, <1>3, <2>1, ClientDevice DEF Busy, Working
<1>5. Exclusive'
  BY Zenon, <1>4 DEF Exclusive
<1>6. Places'
  <2>1. \A x \in Client : DeviceOf(x) \in DeviceID
    BY Zenon, ClientDevice
  <2> QED BY <1>1, <1>2, <2>1 DEF RestInv, Places, Working
<1>7. Arriving'
  <2>1. \A x \in Client : pc'[x] # "welcome" /\ x \notin waiting'
    BY Zenon, <1>1, <1>4 DEF Busy
  <2> QED BY Zenon, <2>1 DEF Arriving, ArrivingAt
<1>8. Apart' /\ Halfway'
  <2>1. \A x \in Client : pc'[x] \notin Working
    BY Zenon, <1>4 DEF Busy
  <2> QED BY Zenon, <2>1, NoneHalfway
<1>9. ASSUME NEW d \in DeviceID PROVE SettledAt(d)'
  <2>1. CASE d = D
    BY Zenon, <1>2, <2>1 DEF SettledAt
  <2>2. CASE d # D
    <3>1. SettledAt(d) /\ \A x \in Client : ~Disturbs(x, d)
      BY Zenon, <1>1, <1>3 DEF RestInv, Settled, Disturbs, Past, Working
    <3> QED BY Zenon, <1>1, <1>2, <2>2, <3>1 DEF SettledAt
  <2> QED BY Zenon, <2>1, <2>2
<1>10. Paired'
  BY Zenon, <1>1 DEF RestInv, Paired
<1> QED BY Zenon, <1>5, <1>6, <1>7, <1>8, <1>9, <1>10 DEF RestInv, Settled

(* The socket is lost, or was closed by the Hub.                           *)
LEMMA RestDisconnect ==
    ASSUME InBandOnly, IInv, RestInv, NEW c \in Client, Disconnect(c)
    PROVE  RestInv'
<1>1. /\ pc[c] = "ready" /\ pc' = [pc EXCEPT ![c] = "done"]
      /\ peer' = [peer EXCEPT ![c] = NULL] /\ told' = [told EXCEPT ![c] = {}]
      /\ c \in closed \/ MayStart("disconnect")
      /\ UNCHANGED <<devices, pairedWith, clients, waiting, closed, seen, job>>
  BY Zenon DEF Disconnect, Goto, storeVars, hubVars
<1>2. /\ pc'[c] = "done"
      /\ \A x \in Client : x # c => pc'[x] = pc[x] /\ peer'[x] = peer[x] /\ told'[x] = told[x]
  BY Zenon, <1>1 DEF IInv, Types
<1>3. \/ clients[DeviceOf(c)] # c /\ c \notin waiting
      \/ \A x \in Client : ~Busy(x)
  BY Zenon, <1>1, StartsAlone DEF RestInv, Places
<1>4. c \notin waiting
  BY Zenon, <1>3 DEF Busy
<1>5. \A x \in Client : x # c => (Busy(x)' <=> Busy(x)) /\ (InPairing(x)' <=> InPairing(x))
  BY Zenon, <1>1, <1>2 DEF Busy, InPairing
<1>6. Exclusive'
  <2>1. CASE \A x \in Client : ~Busy(x)
    BY Zenon, <1>5, <2>1 DEF Exclusive
  <2>2. CASE clients[DeviceOf(c)] # c
    <3>1. ~Busy(c)'
      BY Zenon, <1>1, <1>2, <1>4, <2>2 DEF Busy, Working
    <3> QED BY Zenon, <1>5, <3>1 DEF RestInv, Exclusive
  <2> QED BY Zenon, <1>3, <2>1, <2>2
<1>7. Places'
  BY Zenon, <1>1, <1>2, <1>4 DEF RestInv, Places, Working
<1>8. Arriving'
  BY Zenon, <1>1, <1>2, <1>4 DEF RestInv, Arriving, ArrivingAt
<1>9. ~Past(c) /\ ~Past(c)'
  BY Zenon, <1>1, <1>2 DEF Past, Working
<1>10. Apart' /\ Paired' /\ Halfway' /\ \A d \in DeviceID : clients[d] # c => SettledAt(d)'
  <2>1. CASE clients[DeviceOf(c)] # c
    <3>1. /\ Apart' /\ Paired' /\ \A x \in Client : x # c => HalfwayAt(x)'
          /\ \A d \in DeviceID : clients[d] # c => SettledAt(d)'
      BY Zenon, <1>1, <1>2, <1>9, <2>1, QuietFrame
    <3>2. HalfwayAt(c)'
      BY Zenon, <1>2, <1>9 DEF HalfwayAt
    <3> QED BY Zenon, <3>1, <3>2 DEF Halfway
  <2>2. CASE \A x \in Client : ~Busy(x)
    <3>1. Apart' /\ Halfway'
      <4>1. \A x \in Client : pc'[x] \notin Working
        BY Zenon, <1>2, <2>2 DEF Busy, Working
      <4> QED BY Zenon, <4>1, NoneHalfway
    <3>2. ASSUME NEW d \in DeviceID, clients[d] # c PROVE SettledAt(d)'
      <4>1. SettledAt(d) /\ (\A x \in Client : ~Disturbs(x, d)) /\ clients[d] \in Client \cup {NULL}
        BY Zenon, <2>2 DEF RestInv, Settled, Disturbs, Past, Busy, IInv, Types
      <4> QED BY Zenon, <1>1, <1>2, <3>2, <4>1 DEF SettledAt
    <3>3. Paired'
      BY Zenon, <1>1 DEF RestInv, Paired
    <3> QED BY Zenon, <3>1, <3>2, <3>3
  <2> QED BY Zenon, <1>3, <2>1, <2>2
<1>11. ASSUME NEW d \in DeviceID, clients[d] = c PROVE SettledAt(d)'
  BY Zenon, <1>1, <1>2, <1>11 DEF SettledAt
<1> QED BY Zenon, <1>6, <1>7, <1>8, <1>10, <1>11 DEF RestInv, Settled

(* Steps that concern the codes or the tokens alone.                       *)
LEMMA RestFrame ==
    ASSUME RestInv, UNCHANGED <<devices, pairedWith, hubVars, clientVars>>
    PROVE  RestInv'
<1>1. UNCHANGED <<devices, pairedWith, clients, waiting, closed, pc, peer, seen, job, told>>
  BY Zenon DEF hubVars, clientVars
<1>2. Exclusive' /\ Places' /\ Paired'
  BY <1>1 DEF RestInv, Exclusive, Places, Paired, Busy, InPairing
<1>3. Apart' /\ Arriving'
  BY Zenon, <1>1 DEF RestInv, Apart, Arriving, ArrivingAt, Disturbs, Past
<1>4. Halfway'
  <2> SUFFICES ASSUME NEW c \in Client PROVE HalfwayAt(c)'
    BY Zenon DEF Halfway
  <2>1. HalfwayAt(c) /\ (Past(c)' <=> Past(c))
    BY Zenon, <1>1 DEF RestInv, Halfway, Past
  <2>2. (PairingHalf(c)' <=> PairingHalf(c)) /\ (UnpairingHalf(c)' <=> UnpairingHalf(c))
    BY Zenon, <1>1 DEF PairingHalf, UnpairingHalf
  <2> QED BY Zenon, <1>1, <2>1, <2>2 DEF HalfwayAt
<1>5. Settled'
  BY Zenon, <1>1 DEF RestInv, Settled, SettledAt, Disturbs, Past
<1> QED BY Zenon, <1>2, <1>3, <1>4, <1>5 DEF RestInv

(* At the start nobody is paired and nobody was told anything.             *)
LEMMA RestInit == Init => RestInv
<1> SUFFICES ASSUME Init PROVE RestInv
  OBVIOUS
<1>1. /\ devices = DeviceID /\ waiting = {} /\ closed = {}
      /\ \A d \in DeviceID : /\ pairedWith[d] = NULL
                             /\ clients[d] = IF d \in Online THEN <<d, 1>> ELSE NULL
      /\ \A c \in Client :
            /\ pc[c] = IF DeviceOf(c) \in Online /\ c[2] = 1 THEN "ready" ELSE "idle"
            /\ peer[c] = NULL /\ told[c] = {}
  BY Zenon DEF Init
<1>2. \A c \in Client : ~Busy(c) /\ ~Past(c) /\ pc[c] # "db"
  BY Zenon, <1>1 DEF Busy, Past, Working
<1>3. \A c \in Client : clients[DeviceOf(c)] = c <=> pc[c] = "ready"
  <2> TAKE c \in Client
  <2>1. PICK d \in DeviceID : c \in {d} \X (1..Conns[d])
    BY Zenon DEF Client
  <2>2. c = <<c[1], c[2]>> /\ DeviceOf(c) = c[1] /\ c[1] \in DeviceID
    BY <2>1 DEF DeviceOf
  <2>3. c # NULL
    BY Zenon, NullAssumption
  <2>4. c[1] \in Online => (clients[c[1]] = c <=> c[2] = 1)
    <3>1. <<c[1], 1>> = <<c[1], c[2]>> <=> c[2] = 1
      OBVIOUS
    <3> QED BY Zenon, <1>1, <2>2, <3>1
  <2>5. c[1] \notin Online => clients[c[1]] # c
    BY Zenon, <1>1, <2>2, <2>3
  <2> QED BY Zenon, <1>1, <2>2, <2>4, <2>5
<1>4. Exclusive
  BY Zenon, <1>2 DEF Exclusive
<1>5. Places
  BY Zenon, <1>1, <1>3 DEF Places, Working
<1>6. Paired
  BY Zenon, <1>1, NullAssumption DEF Paired
<1>7. Apart /\ Halfway
  BY Zenon, <1>1, <1>2 DEF Apart, Disturbs, Halfway, HalfwayAt
<1>8. Arriving
  BY Zenon, <1>1 DEF Arriving, ArrivingAt
<1>9. Settled
  <2> SUFFICES ASSUME NEW d \in DeviceID, clients[d] # NULL
               PROVE  peer[clients[d]] = NULL /\ told[clients[d]] = {}
    BY Zenon, <1>1 DEF Settled, SettledAt
  <2>1. clients[d] \in Client
    BY Zenon, InitEstablishes DEF IInv, Types
  <2> QED BY Zenon, <1>1, <2>1
<1> QED BY Zenon, <1>4, <1>5, <1>6, <1>7, <1>8, <1>9 DEF RestInv

(* Every step keeps the invariant.                                         *)
LEMMA RestNext == InBandOnly /\ IInv /\ RestInv /\ [Next]_vars => RestInv'
<1> SUFFICES ASSUME InBandOnly, IInv, RestInv, [Next]_vars PROVE RestInv'
  OBVIOUS
<1>1. ASSUME NEW c \in Client, HandlerStep(c) PROVE RestInv'
  BY Zenon, <1>1, RestSendWelcome, RestPair, RestPairFails, RestUnpair, RestSetOwn, RestTellOwn,
     RestGetClient, RestSetOther, RestTellOther DEF HandlerStep
<1>2. ASSUME NEW c \in Client,
             \/ Connect(c) \/ Disconnect(c) \/ HubRegister(c) \/ HubUnregister(c)
             \/ HandleUnpair(c)
      PROVE  RestInv'
  BY Zenon, <1>2, RestConnect, RestDisconnect, RestHubRegister, RestHubUnregister, RestHandleUnpair
<1>3. ASSUME NEW c \in Client, NEW code \in Code, HandlePairRequest(c, code) PROVE RestInv'
  BY Zenon, <1>3, RestFrame DEF HandlePairRequest, storeVars
<1>4. ASSUME NEW c \in Client, NEW code \in Code, HandlePairAccept(c, code) PROVE RestInv'
  <2>1. CASE UNCHANGED <<pc, job>>
    BY Zenon, <1>4, <2>1, RestFrame DEF HandlePairAccept, storeVars, clientVars
  <2>2. CASE ~UNCHANGED <<pc, job>>
    BY Zenon, <1>4, <2>2, RestAccept
  <2> QED BY Zenon, <2>1, <2>2
<1>5. ASSUME NEW d \in DeviceID, AdminDelete(d) \/ TokenExpires(d) PROVE RestInv'
  <2>1. TokenExpires(d)
    BY Zenon, <1>5 DEF InBandOnly, AdminDelete
  <2> QED BY Zenon, <2>1, RestFrame DEF TokenExpires, Store!TokenTTLElapses
<1>6. ASSUME NEW d \in DeviceID, NEW e \in DeviceID, AdminLink(d, e) PROVE RestInv'
  BY Zenon, <1>6 DEF InBandOnly, AdminLink
<1>7. ASSUME NEW g \in 1..MaxGrants, CodeExpires(g) PROVE RestInv'
  BY Zenon, <1>7, RestFrame DEF CodeExpires, storeVars
<1>8. CASE UNCHANGED vars
  BY Zenon, <1>8, RestFrame DEF vars, storeVars
<1> QED BY Zenon, <1>1, <1>2, <1>3, <1>4, <1>5, <1>6, <1>7, <1>8 DEF Next

(* Whenever nothing is under way, every connected client routes to the     *)
(* peer its row names and was told of that peer and no other, whatever     *)
(* pairings overlapped, failed or raced before (completePair, removePair,  *)
(* sendWelcome).                                                           *)
THEOREM PairingAgreementAtRest ==
    ASSUME InBandOnly
    PROVE  Spec => []AgreementAtRest
<1>1. IInv /\ RestInv => AgreementAtRest
  <2> SUFFICES ASSUME IInv, RestInv, AtRest, NEW d \in devices, clients[d] # NULL
               PROVE  /\ peer[clients[d]] = pairedWith[d]
                      /\ told[clients[d]] = {pairedWith[d]} \ {NULL}
    BY Zenon DEF AgreementAtRest
  <2> DEFINE c == clients[d]
  <2>1. d \in DeviceID /\ SettledAt(d)
    BY Zenon DEF RestInv, Paired, Settled
  <2>2. c \in Client /\ DeviceOf(c) = d
    BY Zenon, <2>1 DEF IInv, Types, OwnClients
  <2>3. UnderWay = {}
    BY Zenon DEF AtRest
  <2>4. \A x \in Client : pc[x] \notin Working
    <3> SUFFICES ASSUME NEW x \in Client, pc[x] \in Working PROVE FALSE
      OBVIOUS
    <3>1. (IF job[x].pairing THEN "pair" ELSE "unpair") \in UnderWay
      BY Zenon DEF UnderWay
    <3> QED BY Zenon, <2>3, <3>1
  <2>5. pc[c] # "welcome"
    <3>1. pc[c] = "welcome" => "connect" \in UnderWay
      BY Zenon, <2>2 DEF UnderWay
    <3> QED BY Zenon, <2>3, <3>1
  <2>6. pc[c] # "done"
    <3>1. pc[c] = "done" => "disconnect" \in UnderWay
      BY Zenon, <2>2 DEF UnderWay
    <3> QED BY Zenon, <2>3, <3>1
  <2>7. \A x \in Client : ~Disturbs(x, d)
    BY Zenon, <2>4 DEF Disturbs, Past
  <2> QED BY Zenon, <2>1, <2>5, <2>6, <2>7 DEF SettledAt
<1>2. IInv /\ RestInv /\ [Next]_vars => RestInv'
  BY Zenon, RestNext
<1> QED BY <1>1, <1>2, PairingInvariant, RestInit, PTL DEF Spec
-----------------------------------------------------------------------------
(***************************************************************************)
(* Pairing and the table.  Whatever the handlers, the admin UI and the CLI *)
(* do to the table is an operation of DeviceStore, so what is proved of    *)
(* the table by itself holds of the table they share.  Table is            *)
(* DeviceStore with its proofs; here no key is ever announced.             *)
(***************************************************************************)
Table == INSTANCE DeviceStoreProofs WITH StaticKey <- {}

(* What DeviceStore assumes of its constants.                              *)
LEMMA TableAssumptions ==
    /\ NULL \notin DeviceID \cup {} \cup {"ahead", "passed"}
    /\ ForeignKeys \in BOOLEAN
BY Zenon, NullAssumption, OpsAssumption

(* A step of Pairing is one operation of the table or leaves it alone.     *)
LEMMA TableStep ==
    ASSUME IInv, [Next]_vars
    PROVE  [Store!Next]_(Store!vars)
<1> USE DEF storeVars, Store!vars
<1>1. ASSUME NEW c \in Client, Pair(c) PROVE Store!Next
  <2>1. job[c].other \in DeviceID /\ DeviceOf(c) \in DeviceID
    BY Zenon, <1>1, ClientDevice DEF Pair, IInv, JobOther
  <2>2. Store!RunLink(job[c].other, DeviceOf(c))
    BY Zenon, <1>1 DEF Pair, Store!RunLink
  <2> QED BY Zenon, <2>1, <2>2 DEF Store!Next
<1>2. ASSUME NEW c \in Client, Unpair(c) PROVE Store!Next
  <2>1. DeviceOf(c) \in DeviceID /\ Store!UnpairDevice(DeviceOf(c))
    BY Zenon, <1>2, ClientDevice DEF Unpair
  <2> QED BY Zenon, <2>1 DEF Store!Next
<1>3. ASSUME NEW c \in Client, HandlerStep(c) PROVE [Store!Next]_(Store!vars)
  <2>1. CASE UNCHANGED storeVars
    BY Zenon, <2>1
  <2>2. CASE Pair(c) \/ Unpair(c)
    BY Zenon, <2>2, <1>1, <1>2
  <2>3. Pair(c) \/ Unpair(c) \/ UNCHANGED storeVars
    BY Zenon, <1>3
       DEF HandlerStep, SendWelcome, PairFails, SetOwnPeer, TellOwn, GetClient,
           SetOtherPeer, TellOther
  <2> QED BY Zenon, <2>1, <2>2, <2>3
<1>4. ASSUME NEW c \in Client,
             \/ Connect(c) \/ Disconnect(c)
             \/ HubRegister(c) \/ HubUnregister(c) \/ HandleUnpair(c)
             \/ \E code \in Code : HandlePairRequest(c, code) \/ HandlePairAccept(c, code)
      PROVE  UNCHANGED storeVars
  BY Zenon, <1>4
     DEF Connect, Disconnect, HubRegister, HubUnregister, HandleUnpair,
         HandlePairRequest, HandlePairAccept
<1>5. ASSUME NEW d \in DeviceID, AdminDelete(d) \/ TokenExpires(d)
      PROVE  Store!Next
  BY Zenon, <1>5 DEF AdminDelete, TokenExpires, Store!Next
<1>6. ASSUME NEW d \in DeviceID, NEW e \in DeviceID, AdminLink(d, e)
      PROVE  Store!Next
  BY Zenon, <1>6 DEF AdminLink, Store!Next
<1>7. ASSUME NEW g \in 1..MaxGrants, CodeExpires(g) PROVE UNCHANGED storeVars
  BY Zenon, <1>7 DEF CodeExpires
<1>8. CASE UNCHANGED vars
  BY Zenon, <1>8 DEF vars
<1>9. CASE Next
  <2>1. CASE \E c \in Client : HandlerStep(c)
    BY Zenon, <2>1, <1>3
  <2>2. CASE \E d \in DeviceID : AdminDelete(d) \/ TokenExpires(d)
    BY Zenon, <2>2, <1>5
  <2>3. CASE \E d, e \in DeviceID : AdminLink(d, e)
    BY Zenon, <2>3, <1>6
  <2>4. CASE UNCHANGED storeVars
    BY Zenon, <2>4
  <2> QED BY Zenon, <1>9, <2>1, <2>2, <2>3, <2>4, <1>4, <1>7 DEF Next
<1> QED BY Zenon, <1>8, <1>9

(* Every step of the handlers, the admin UI and the CLI that touches the   *)
(* table is one whole operation of DeviceStore: no handler leaves a link   *)
(* half made (PairDevices, UnpairDevice), and only DeleteDevice is two.    *)
THEOREM PairingUsesStore == Spec => [][Store!Next]_(Store!vars)
<1>1. IInv /\ [Next]_vars => [Store!Next]_(Store!vars)
  BY Zenon, TableStep
<1> QED
  BY <1>1, PairingInvariant, PTL DEF Spec

(* The invariant of the table holds of the registered, unpaired devices.   *)
LEMMA TableInit == Init => Table!IInv
<1> SUFFICES ASSUME Init PROVE Table!IInv
  OBVIOUS
<1> USE NullAssumption DEF Init
<1>1. Table!TypeOK
  BY Zenon DEF Table!TypeOK
<1>2. Table!NoRowNoData /\ Table!LinksNameIssued /\ Table!LinksSymmetric
  BY Zenon DEF Table!NoRowNoData, Table!LinksNameIssued, Table!LinksSymmetric
<1>3. Table!NoDanglingLinks /\ Table!PairedNeverExpires
  BY Zenon DEF Table!NoDanglingLinks, Table!PairedNeverExpires
<1> QED
  BY Zenon, <1>1, <1>2, <1>3 DEF Table!IInv

(* Table's steps are Store's.                                              *)
LEMMA TableIsStore == [Store!Next]_(Store!vars) => [Table!Next]_(Table!vars)
BY DEF Store!Next, Store!vars, Table!Next, Table!vars,
       Store!HandleCreateDevice, Store!RunPair, Store!CreateDevice,
       Store!TokenTTLElapses, Store!UnpairDevice, Store!ClearLinks,
       Store!PointingAt, Store!DeleteDeviceLinks, Store!DeleteDeviceRow,
       Store!HandleAnnounceKey, Store!SetStaticKeyIfUnset,
       Store!AdminPairDevices, Store!RunLink, Store!PairDevices, Store!CanPair,
       Table!HandleCreateDevice, Table!RunPair, Table!CreateDevice,
       Table!TokenTTLElapses, Table!UnpairDevice, Table!ClearLinks,
       Table!PointingAt, Table!DeleteDeviceLinks, Table!DeleteDeviceRow,
       Table!HandleAnnounceKey, Table!SetStaticKeyIfUnset,
       Table!AdminPairDevices, Table!RunLink, Table!PairDevices, Table!CanPair

(* The table's invariant is inductive.                                     *)
LEMMA TableNext == Table!IInv /\ [Table!Next]_(Table!vars) => Table!IInv'
BY Table!NextIInv, TableAssumptions

(* The table's invariant holds throughout.                                 *)
LEMMA TableInvariant == Spec => []Table!IInv
BY TableInit, TableIsStore, TableNext, PairingUsesStore, PTL DEF Spec

(* Under all the interleavings of handlers, admin UI and CLI, links stay   *)
(* symmetric, name devices that exist, and never expire (PairDevices,      *)
(* UnpairDevice, DeleteDevice).                                            *)
THEOREM PairingTableSound ==
    Spec => [](Store!LinksSymmetric /\ Store!NoDanglingLinks /\ Store!PairedNeverExpires)
<1>1. Table!IInv =>
        Store!LinksSymmetric /\ Store!NoDanglingLinks /\ Store!PairedNeverExpires
  BY Zenon
     DEF Table!IInv, Table!LinksSymmetric, Table!NoDanglingLinks,
         Table!PairedNeverExpires, Store!LinksSymmetric, Store!NoDanglingLinks,
         Store!PairedNeverExpires
<1> QED
  BY <1>1, TableInvariant, PTL

(* However the operations of both sides interleave, what the table         *)
(* promises its clients keeps being true: two free devices are joined, a   *)
(* pair is parted on both sides at once, nobody is joined to two.          *)
THEOREM PairingKeepsPairs ==
    Spec => [][Store!Promise!Next]_<<devices, Store!partnerOf>>
<1>1. Table!IInv /\ [Table!Next]_(Table!vars) =>
        [Table!Promise!Next]_<<devices, Table!partnerOf>>
  BY Table!NextRefines, TableAssumptions
<1>2. [Table!Promise!Next]_<<devices, Table!partnerOf>> =>
        [Store!Promise!Next]_<<devices, Store!partnerOf>>
  <2>1. Table!partnerOf = Store!partnerOf /\ Table!partnerOf' = Store!partnerOf'
    BY DEF Table!partnerOf, Store!partnerOf, Table!Mutual, Store!Mutual
  <2> QED
    BY <2>1
       DEF Table!Promise!Next, Table!Promise!Join, Table!Promise!Unlink,
           Table!Promise!Leave, Table!Promise!Link, Table!Promise!Part,
           Store!Promise!Next, Store!Promise!Join, Store!Promise!Unlink,
           Store!Promise!Leave, Store!Promise!Link, Store!Promise!Part
<1> QED
  BY <1>1, <1>2, TableIsStore, PairingUsesStore, TableInvariant, PTL
=============================================================================
