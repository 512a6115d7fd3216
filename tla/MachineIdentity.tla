--------------------------- MODULE MachineIdentity ---------------------------
(***************************************************************************)
(* The machine's long-term key, as pairing/storage.ts resolves it: two     *)
(* stores (the OS keyring and a file), several processes that look in them *)
(* in different orders, a keyring that may be locked, and a first run that *)
(* mints a key.  Every awaited read or write of the keyring is a step of    *)
(* its own; a read that is retried is one step: what counts is the state   *)
(* at its last try.  peers.json, where the paired devices are, is read and *)
(* written by all of them with nothing between them, and a write empties   *)
(* it first.  identity.json is written in one step: a reader that meets it *)
(* half-written throws, as it does on a damaged one.  The                  *)
(* UNBIEN_IDENTITY_SEED override, which reads and writes no store, is left *)
(* out.                                                                    *)
(***************************************************************************)
EXTENDS Naturals, FiniteSets

CONSTANTS
    KeychainUsers,  \* interactive processes with identity.storage = "keychain"
    FileUsers,      \* interactive processes with identity.storage = "file"
    Daemons,        \* processes in launcher-daemon mode
    CoreKeyring,    \* _keyringExpectedAvailable(): macOS and Windows
    MaxMints,       \* keys minted over a behaviour
    MaxUpsets       \* times the keyring locks or unlocks, a file is damaged or a
                    \* process dies while it writes one

Users == KeychainUsers \cup FileUsers \cup Daemons

ASSUME IdentityAssumption ==
    /\ KeychainUsers \cap FileUsers = {} /\ Users \cap Daemons = Daemons
    /\ (KeychainUsers \cup FileUsers) \cap Daemons = {}
    /\ CoreKeyring \in BOOLEAN /\ MaxMints \in Nat /\ MaxUpsets \in Nat

VARIABLES
    ring,       \* the keyring's entry under the current service name
    oldRing,    \* the entry under the legacy service name
    locked,     \* every keyring operation throws
    disk,       \* identity.json
    devices,    \* keys the devices in peers.json were paired against, when last whole
    torn,       \* peers.json cannot be parsed: emptied for a write, or damaged
    toWrite,    \* what a process is about to write to peers.json
    step,       \* where a process is in getOrCreateEd25519Keypair
    heard,      \* what its keyring read said
    mine,       \* the key a process runs with
    minted,     \* keys minted so far
    upsets,     \* what is left of MaxUpsets
    began       \* what there was when a process began to resolve

peersVars == <<devices, torn, toWrite>>
identityVars == <<ring, oldRing, locked, disk, devices, torn, toWrite, step, heard, mine,
                  minted, upsets, began>>

NoKey == 0
Damaged == MaxMints + 2
Keys == 1 .. MaxMints + 1
LegacyKey == 1                     \* the key an earlier release left behind
Steps == {"idle", "ring", "legacy", "promote", "drop", "file", "peers", "mint",
          "pairing", "writing"}

IdentityTypeOK ==
    /\ ring \in Keys \cup {NoKey} /\ oldRing \in Keys \cup {NoKey}
    /\ disk \in Keys \cup {NoKey, Damaged}
    /\ locked \in BOOLEAN /\ devices \subseteq Keys /\ torn \in BOOLEAN
    /\ toWrite \in [Users -> SUBSET Keys]
    /\ step \in [Users -> Steps] /\ heard \in [Users -> {"nothing", "empty", "threw"}]
    /\ mine \in [Users -> Keys \cup {NoKey}]
    /\ minted \in 0 .. MaxMints /\ upsets \in 0 .. MaxUpsets
    /\ began \in [Users -> [ring : BOOLEAN, disk : BOOLEAN, paired : BOOLEAN,
                            blind : BOOLEAN]]

\* blind: peers.json could not be parsed when the process looked in it.
Fresh == [ring |-> FALSE, disk |-> FALSE, paired |-> FALSE, blind |-> FALSE]

IdentityInit ==
    /\ ring = NoKey /\ oldRing \in {NoKey, LegacyKey} /\ disk = NoKey
    /\ locked \in BOOLEAN /\ devices = {} /\ torn = FALSE
    /\ toWrite = [p \in Users |-> {}]
    /\ step = [p \in Users |-> "idle"] /\ heard = [p \in Users |-> "nothing"]
    /\ mine = [p \in Users |-> NoKey]
    /\ minted = 0 /\ upsets = MaxUpsets
    /\ began = [p \in Users |-> Fresh]

-----------------------------------------------------------------------------
(* getOrCreateEd25519Keypair *)

At(p, s) == step[p] = s
StepTo(p, s) == step' = [step EXCEPT ![p] = s]
Continue(p, s) == StepTo(p, s) /\ UNCHANGED <<heard, began>>

(* The resolver returns k, or throws; its locals are gone. *)
Finish(p) ==
    /\ StepTo(p, "idle")
    /\ heard' = [heard EXCEPT ![p] = "nothing"] /\ began' = [began EXCEPT ![p] = Fresh]
Return(p, k) == Finish(p) /\ mine' = [mine EXCEPT ![p] = k]
Fail(p) == Finish(p) /\ UNCHANGED mine

(* _selectedStorageBackend, unless the daemon mode pins it to the file. *)
Resolve(p) ==
    /\ At(p, "idle") /\ mine[p] = NoKey
    /\ StepTo(p, IF p \in KeychainUsers THEN "ring" ELSE "file")
    /\ UNCHANGED heard
    /\ began' = [began EXCEPT ![p] = [ring |-> ring # NoKey, disk |-> disk # NoKey,
                                      paired |-> devices # {}, blind |-> FALSE]]
    /\ UNCHANGED <<ring, oldRing, locked, disk, peersVars, mine, minted, upsets>>

(* Where to look when the keyring gave no key. *)
AfterRing(p, said) ==
    /\ heard' = [heard EXCEPT ![p] = said]
    /\ StepTo(p, IF p \in KeychainUsers THEN "file" ELSE "peers")
    /\ UNCHANGED <<mine, began>>

(* _readKeychain: the current service, then the legacy one. *)
ReadRing(p) ==
    /\ At(p, "ring")
    /\ \/ locked /\ AfterRing(p, "threw")
       \/ ~ locked /\ ring # NoKey /\ Return(p, ring)
       \/ ~ locked /\ ring = NoKey /\ Continue(p, "legacy") /\ UNCHANGED mine
    /\ UNCHANGED <<ring, oldRing, locked, disk, peersVars, minted, upsets>>

ReadLegacy(p) ==
    /\ At(p, "legacy")
    /\ \/ locked /\ AfterRing(p, "threw")
       \/ ~ locked /\ oldRing = NoKey /\ AfterRing(p, "empty")
       \/ ~ locked /\ oldRing # NoKey /\ Continue(p, "promote") /\ UNCHANGED mine
    /\ UNCHANGED <<ring, oldRing, locked, disk, peersVars, minted, upsets>>

(* The legacy entry goes under the current name, over what is there by now; a *)
(* write that throws is an attempt that failed: another from the start, or none. *)
PromoteLegacy(p) ==
    /\ At(p, "promote")
    /\ \/ ~ locked /\ ring' = LegacyKey /\ Continue(p, "drop") /\ UNCHANGED mine
       \/ locked /\ UNCHANGED ring /\ AfterRing(p, "threw")
       \/ locked /\ UNCHANGED ring /\ Continue(p, "ring") /\ UNCHANGED mine
    /\ UNCHANGED <<oldRing, locked, disk, peersVars, minted, upsets>>

(* backend.delete swallows its errors. *)
DropLegacy(p) ==
    /\ At(p, "drop")
    /\ Return(p, LegacyKey)
    /\ oldRing' = IF locked THEN oldRing ELSE NoKey
    /\ UNCHANGED <<ring, locked, disk, peersVars, minted, upsets>>

(* _readKeypairFromFile; a file user looks in a core keyring next. *)
ReadFile(p) ==
    /\ At(p, "file")
    /\ \/ disk = Damaged /\ Fail(p)
       \/ disk \in Keys /\ Return(p, disk)
       \/ /\ disk = NoKey
          /\ Continue(p, IF p \in FileUsers /\ CoreKeyring THEN "ring" ELSE "peers")
          /\ UNCHANGED mine
    /\ UNCHANGED <<ring, oldRing, locked, disk, peersVars, minted, upsets>>

(* listPeers: what cannot be read or parsed holds no device. *)
listPeers == IF torn THEN {} ELSE devices

GoMint(p) ==
    /\ StepTo(p, "mint") /\ began' = [began EXCEPT ![p].blind = torn]
    /\ UNCHANGED <<heard, mine>>

(* Mutated form of CheckPeers: a keyring that threw is taken for an empty one. *)
CheckPeersOnly(p) ==
    /\ At(p, "peers")
    /\ IF listPeers # {} THEN Fail(p) ELSE GoMint(p)
    /\ UNCHANGED <<ring, oldRing, locked, disk, peersVars, minted, upsets>>

(* Nothing found: KeyringUnavailableError, PairedIdentityMissingError, or a first run. *)
CheckPeers(p) ==
    /\ At(p, "peers")
    /\ IF (heard[p] = "threw" /\ CoreKeyring) \/ listPeers # {} THEN Fail(p) ELSE GoMint(p)
    /\ UNCHANGED <<ring, oldRing, locked, disk, peersVars, minted, upsets>>

(* The fresh key goes to the selected store, to the file if the keyring threw. *)
Mint(p) ==
    /\ At(p, "mint") /\ minted < MaxMints
    /\ IF p \in KeychainUsers /\ heard[p] # "threw"
       THEN /\ UNCHANGED disk
            /\ IF locked THEN Fail(p) /\ UNCHANGED <<ring, minted>>
               ELSE Return(p, minted + 2) /\ ring' = minted + 2 /\ minted' = minted + 1
       ELSE /\ Return(p, minted + 2) /\ disk' = minted + 2 /\ minted' = minted + 1
            /\ UNCHANGED ring
    /\ UNCHANGED <<oldRing, locked, peersVars, upsets>>

-----------------------------------------------------------------------------
(* What happens around it *)

(* provisionFileIdentity, by the installer, for the daemon. *)
provisionFileIdentity(p) ==
    /\ At(p, "idle") /\ mine[p] # NoKey /\ p \notin Daemons
    /\ disk = NoKey
    /\ disk' = mine[p]
    /\ UNCHANGED <<ring, oldRing, locked, peersVars, step, heard, mine, minted, upsets,
                   began>>

(* addPeer: a device pairs with p; what p could not read is not written back. *)
PairDevice(p) ==
    /\ At(p, "idle") /\ mine[p] # NoKey
    /\ StepTo(p, "pairing")
    /\ toWrite' = [toWrite EXCEPT ![p] = listPeers \cup {mine[p]}]
    /\ UNCHANGED <<ring, oldRing, locked, disk, devices, torn, heard, mine, minted, upsets,
                   began>>

(* removePeer and conditionalRemovePeer; neither does a thing to a file it cannot read. *)
UnpairDevice(p, k) ==
    /\ At(p, "idle") /\ mine[p] # NoKey /\ k \in listPeers
    /\ StepTo(p, "pairing")
    /\ toWrite' = [toWrite EXCEPT ![p] = listPeers \ {k}]
    /\ UNCHANGED <<ring, oldRing, locked, disk, devices, torn, heard, mine, minted, upsets,
                   began>>

(* writeFile empties peers.json when it opens it, ... *)
TruncatePeers(p) ==
    /\ At(p, "pairing")
    /\ StepTo(p, "writing") /\ torn' = TRUE
    /\ UNCHANGED <<ring, oldRing, locked, disk, devices, toWrite, heard, mine, minted, upsets,
                   began>>

(* ... and then writes it.  With no record left, no pairing binds anyone. *)
WritePeers(p) ==
    /\ At(p, "writing")
    /\ StepTo(p, "idle")
    /\ devices' = toWrite[p] /\ toWrite' = [toWrite EXCEPT ![p] = {}]
    /\ torn' = \E q \in Users \ {p} : At(q, "writing")
    /\ began' = IF toWrite[p] = {} THEN [q \in Users |-> [began[q] EXCEPT !.paired = FALSE]]
                ELSE began
    /\ UNCHANGED <<ring, oldRing, locked, disk, heard, mine, minted, upsets>>

Exit(p) ==
    /\ At(p, "idle") /\ mine[p] # NoKey
    /\ mine' = [mine EXCEPT ![p] = NoKey]
    /\ UNCHANGED <<ring, oldRing, locked, disk, peersVars, step, heard, minted, upsets,
                   began>>

(* Killed while it writes peers.json. *)
Die(p) ==
    /\ At(p, "writing") /\ upsets > 0 /\ upsets' = upsets - 1
    /\ StepTo(p, "idle")
    /\ mine' = [mine EXCEPT ![p] = NoKey] /\ toWrite' = [toWrite EXCEPT ![p] = {}]
    /\ UNCHANGED <<ring, oldRing, locked, disk, devices, torn, heard, minted, began>>

(* The keyring locks or unlocks; identity.json or peers.json becomes unreadable. *)
Upset ==
    /\ upsets > 0 /\ upsets' = upsets - 1
    /\ \/ locked' = ~ locked /\ UNCHANGED <<disk, torn>>
       \/ disk \in Keys /\ disk' = Damaged /\ UNCHANGED <<locked, torn>>
       \/ ~ torn /\ devices # {} /\ torn' = TRUE /\ UNCHANGED <<locked, disk>>
    /\ UNCHANGED <<ring, oldRing, devices, toWrite, step, heard, mine, minted, began>>

IdentityNext ==
    \/ \E p \in Users :
          \/ Resolve(p) \/ ReadRing(p) \/ ReadLegacy(p) \/ PromoteLegacy(p) \/ DropLegacy(p)
          \/ ReadFile(p) \/ CheckPeers(p) \/ Mint(p)
          \/ provisionFileIdentity(p) \/ PairDevice(p) \/ TruncatePeers(p)
          \/ WritePeers(p) \/ Exit(p) \/ Die(p)
          \/ \E k \in Keys : UnpairDevice(p, k)
    \/ Upset

IdentitySpec == IdentityInit /\ [][IdentityNext]_identityVars

-----------------------------------------------------------------------------
(* Properties *)

(***************************************************************************)
(* No process mints over an identity it could have known of: nothing was   *)
(* in the file when it began; a device was paired then only if peers.json  *)
(* has lost its last record since, or could not be parsed when the process *)
(* looked; and the keyring's current entry was empty unless the process    *)
(* may not read it or is on a platform where a keyring that throws counts  *)
(* as absent; whatever other processes and the keyring do meanwhile.  (An  *)
(* entry under the legacy name is not covered: a process that promotes it  *)
(* between another's two reads hides it from the other.)                   *)
(***************************************************************************)
SafeMint ==
    [][\A p \in Users : At(p, "mint") /\ mine'[p] # NoKey =>
          /\ ~ began[p].disk /\ (began[p].paired => began[p].blind)
          /\ began[p].ring => \/ p \in Daemons
                              \/ ~ CoreKeyring /\ (p \in FileUsers \/ heard[p] = "threw")
      ]_identityVars

(***************************************************************************)
(* "Devices already paired ... an identity provably existed; ... Minting   *)
(* would let SelfRevoke wipe the pairings ... Fail loud on every platform" *)
(* (storage.ts:716): a process that began with a device paired does not    *)
(* mint.  listPeers (storage.ts:895) takes a file it cannot parse, and so  *)
(* one that another process is writing, for one without devices.           *)
(***************************************************************************)
PairedNeverMintedOver ==
    [][\A p \in Users : At(p, "mint") /\ mine'[p] # NoKey => ~ began[p].paired]_identityVars

(***************************************************************************)
(* "this resolver's ONE job is to never change the identity out from under *)
(* an existing pairing" (storage.ts:652).                                  *)
(***************************************************************************)
PairedIdentityKept ==
    [][\A p \in Users : mine[p] = NoKey /\ mine'[p] # NoKey /\ devices # {} =>
          mine'[p] \in devices]_identityVars
==============================================================================
