----------------------------- MODULE LocalState -----------------------------
(***************************************************************************)
(* What a client program keeps on disk and how it starts: its private key  *)
(* (sdk/go/crypto.go), its device credentials (registerOrLoadDevice of the *)
(* examples, with the server's POST /api/v1/devices) and the pins of its   *)
(* peers (sdk/go/peerstore.go).                                            *)
(*                                                                         *)
(* One process uses the files, which may be killed and started again.  A   *)
(* step is one system call or one change in memory, and every call that    *)
(* touches the disk or the server may fail.  os.WriteFile truncates the    *)
(* file and then writes it; os.Rename is atomic.  A torn file is one that  *)
(* was truncated and not written: key and credentials are then invalid.    *)
(***************************************************************************)
EXTENDS Naturals, FiniteSets

CONSTANTS
    Peer,          \* device IDs of peers
    StaticKey,     \* static keys they may present
    NULL,          \* no file, no pin
    Torn,          \* a file that was truncated and not written
    MaxStarts,     \* bound: how often the program is started
    MaxFailures    \* bound: how many system calls fail

ASSUME FileAssumption ==
    /\ NULL \notin StaticKey \cup Nat \cup {Torn}
    /\ Torn \notin Nat \cup [Peer -> StaticKey \cup {NULL}]
    /\ NULL \notin [Peer -> StaticKey \cup {NULL}]
ASSUME BoundsAssumption == MaxStarts \in Nat /\ MaxFailures \in Nat

VARIABLES
    pc,            \* where the program is
    own,           \* its private key
    id,            \* its device ID
    peers,         \* ps.peers, in memory
    pinning,       \* the pin that is being saved
    keyFile, credsFile, peersFile, tmpFile,
    keys,          \* keys generated so far
    devices,       \* devices the server has registered so far
    starts,        \* starts so far
    failures,      \* failed system calls so far
    unsaved,       \* ghost: did saving a pin ever fail?
    used,          \* ghost: the device IDs and keys it connected with
    accepted       \* ghost: the peers and keys PinOrVerify returned nil for

memory == <<own, id, peers, pinning>>
files == <<keyFile, credsFile, peersFile, tmpFile>>
counters == <<keys, devices, starts, failures>>
ghosts == <<unsaved, used, accepted>>
vars == <<pc, memory, files, counters, ghosts>>

Pins == [Peer -> StaticKey \cup {NULL}]
NoPins == [p \in Peer |-> NULL]

Init ==
    /\ pc = "down" /\ own = NULL /\ id = NULL /\ peers = NoPins /\ pinning = NULL
    /\ keyFile = NULL /\ credsFile = NULL /\ peersFile = NULL /\ tmpFile = NULL
    /\ keys = 0 /\ devices = 0 /\ starts = 0 /\ failures = 0
    /\ unsaved = FALSE /\ used = {} /\ accepted = {}

Step(from, to) == pc = from /\ pc' = to
Down == own' = NULL /\ id' = NULL /\ peers' = NoPins /\ pinning' = NULL

Start ==
    /\ Step("down", "key") /\ starts < MaxStarts
    /\ starts' = starts + 1
    /\ UNCHANGED <<memory, files, keys, devices, failures, ghosts>>

-----------------------------------------------------------------------------
(* LoadOrGenerateKey: a key is generated only if there is no file.         *)
LoadKey ==
    /\ Step("key", "creds") /\ keyFile \notin {NULL, Torn}
    /\ own' = keyFile
    /\ UNCHANGED <<id, peers, pinning, files, counters, ghosts>>

GenerateKey ==
    /\ Step("key", "truncateKey") /\ keyFile = NULL
    /\ own' = keys + 1 /\ keys' = keys + 1
    /\ UNCHANGED <<id, peers, pinning, files, devices, starts, failures, ghosts>>

(* SaveToFile.                                                             *)
TruncateKey ==
    /\ Step("truncateKey", "writeKey")
    /\ keyFile' = Torn
    /\ UNCHANGED <<memory, credsFile, peersFile, tmpFile, counters, ghosts>>

WriteKey ==
    /\ Step("writeKey", "creds")
    /\ keyFile' = own
    /\ UNCHANGED <<memory, credsFile, peersFile, tmpFile, counters, ghosts>>

(* registerOrLoadDevice: credentials that are missing or cannot be read    *)
(* are replaced by new ones.                                               *)
LoadCreds ==
    /\ Step("creds", "peers") /\ credsFile \notin {NULL, Torn}
    /\ id' = credsFile
    /\ UNCHANGED <<own, peers, pinning, files, counters, ghosts>>

(* handleCreateDevice, and its answer.                                     *)
Register ==
    /\ Step("creds", "truncateCreds") /\ credsFile \in {NULL, Torn}
    /\ id' = devices + 1 /\ devices' = devices + 1
    /\ UNCHANGED <<own, peers, pinning, files, keys, starts, failures, ghosts>>

TruncateCreds ==
    /\ Step("truncateCreds", "writeCreds")
    /\ credsFile' = Torn
    /\ UNCHANGED <<memory, keyFile, peersFile, tmpFile, counters, ghosts>>

(* A wrong form: the error of os.WriteFile is ignored.                     *)
WriteCredsIgnored ==
    /\ Step("writeCreds", "peers")
    /\ UNCHANGED <<memory, files, counters, ghosts>>

WriteCreds ==
    /\ Step("writeCreds", "peers")
    /\ credsFile' = id
    /\ UNCHANGED <<memory, keyFile, peersFile, tmpFile, counters, ghosts>>

(* A wrong form: the store always starts empty.                            *)
ForgetPeerStore ==
    /\ Step("peers", "run")
    /\ peers' = NoPins
    /\ used' = used \cup {<<id, own>>}
    /\ UNCHANGED <<own, id, pinning, files, counters, unsaved, accepted>>

(* Connect: LoadPeerStore, where an empty file counts as no pins, and the  *)
(* first use of the device ID and the key.                                 *)
LoadPeerStore ==
    /\ Step("peers", "run")
    /\ peers' = IF peersFile \in {NULL, Torn} THEN NoPins ELSE peersFile
    /\ used' = used \cup {<<id, own>>}
    /\ UNCHANGED <<own, id, pinning, files, counters, unsaved, accepted>>

-----------------------------------------------------------------------------
(* PinOrVerify: a peer's key is compared with its pin, or else pinned in   *)
(* memory and then saved.  The wrong form compares nothing.                *)
VerifyNothing(p, k) ==
    /\ Step("run", "run") /\ peers[p] # NULL
    /\ accepted' = accepted \cup {<<p, k>>}
    /\ UNCHANGED <<memory, files, counters, unsaved, used>>

Verify(p, k) ==
    /\ Step("run", "run") /\ peers[p] # NULL
    /\ accepted' = IF peers[p] = k THEN accepted \cup {<<p, k>>} ELSE accepted
    /\ UNCHANGED <<memory, files, counters, unsaved, used>>

Pin(p, k) ==
    /\ Step("run", "truncateTmp") /\ peers[p] = NULL
    /\ peers' = [peers EXCEPT ![p] = k]
    /\ pinning' = <<p, k>>
    /\ UNCHANGED <<own, id, files, counters, ghosts>>

(* saveLocked: write a temporary file, then rename.  The wrong form writes *)
(* the file in place.                                                      *)
TruncateInPlace ==
    /\ Step("truncateTmp", "writeTmp")
    /\ peersFile' = Torn
    /\ UNCHANGED <<memory, keyFile, credsFile, tmpFile, counters, ghosts>>

TruncateTmp ==
    /\ Step("truncateTmp", "writeTmp")
    /\ tmpFile' = Torn
    /\ UNCHANGED <<memory, keyFile, credsFile, peersFile, counters, ghosts>>

WriteTmp ==
    /\ Step("writeTmp", "rename")
    /\ tmpFile' = peers
    /\ UNCHANGED <<memory, keyFile, credsFile, peersFile, counters, ghosts>>

Rename ==
    /\ Step("rename", "run")
    /\ peersFile' = tmpFile /\ tmpFile' = NULL
    /\ pinning' = NULL
    /\ accepted' = accepted \cup {pinning}
    /\ UNCHANGED <<own, id, peers, keyFile, credsFile, counters, unsaved, used>>

-----------------------------------------------------------------------------
(* A failed call ends a start with an error ...                            *)
Starting ==
    {"key", "truncateKey", "writeKey", "creds", "truncateCreds", "writeCreds", "peers"}

StartFails ==
    /\ pc \in Starting /\ failures < MaxFailures
    /\ pc' = "down" /\ Down
    /\ failures' = failures + 1
    /\ UNCHANGED <<files, keys, devices, starts, ghosts>>

(* ... as does a key file that is torn ...                                 *)
KeyInvalid ==
    /\ Step("key", "down") /\ keyFile = Torn /\ Down
    /\ UNCHANGED <<files, counters, ghosts>>

(* ... and makes saveLocked, and so PinOrVerify, return an error: the pin  *)
(* stays in memory.                                                        *)
Saving == {"truncateTmp", "writeTmp", "rename"}

SaveFails ==
    /\ pc \in Saving /\ failures < MaxFailures
    /\ pc' = "run"
    /\ failures' = failures + 1
    /\ unsaved' = TRUE
    /\ pinning' = NULL
    /\ UNCHANGED <<own, id, peers, files, keys, devices, starts, used, accepted>>

(* The program is killed, or ends.                                         *)
Stop ==
    /\ pc # "down" /\ pc' = "down" /\ Down
    /\ UNCHANGED <<files, counters, ghosts>>

Next ==
    \/ Start \/ LoadKey \/ GenerateKey \/ TruncateKey \/ WriteKey \/ KeyInvalid
    \/ LoadCreds \/ Register \/ TruncateCreds \/ WriteCreds \/ LoadPeerStore
    \/ \E p \in Peer, k \in StaticKey : Verify(p, k) \/ Pin(p, k)
    \/ TruncateTmp \/ WriteTmp \/ Rename
    \/ StartFails \/ SaveFails \/ Stop

Spec == Init /\ [][Next]_vars

-----------------------------------------------------------------------------
TypeOK ==
    /\ pc \in Starting \cup Saving \cup {"down", "run"}
    /\ own \in Nat \cup {NULL} /\ id \in Nat \cup {NULL} /\ peers \in Pins
    /\ pinning \in (Peer \X StaticKey) \cup {NULL}
    /\ keyFile \in Nat \cup {NULL, Torn} /\ credsFile \in Nat \cup {NULL, Torn}
    /\ peersFile \in Pins \cup {NULL} /\ tmpFile \in Pins \cup {NULL, Torn}
    /\ keys \in Nat /\ devices \in Nat
    /\ accepted \subseteq Peer \X StaticKey

(* The program connects with one device ID and one key for ever, wherever  *)
(* its earlier starts failed or were killed (LoadOrGenerateKey,            *)
(* registerOrLoadDevice): the server locks a device to its key.            *)
OneIdentity == \A u, v \in used : u = v

(* A pin that reached the disk stays there, whatever save is interrupted   *)
(* (PinOrVerify, saveLocked): unpinning is never automatic.                *)
PinsStay ==
    [][peersFile # NULL =>
          peersFile' # NULL /\ \A p \in Peer :
              peersFile[p] # NULL => peersFile'[p] = peersFile[p]]_vars

(* If no save ever failed, no peer is accepted with two keys, in one run   *)
(* of the program or across runs (PinOrVerify).                            *)
OneKeyPerPeer ==
    ~unsaved => \A u, v \in accepted : u[1] = v[1] => u[2] = v[2]
=============================================================================
