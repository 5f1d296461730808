----------------------------- MODULE PskRotation -----------------------------
(***************************************************************************)
(* The key of a private E2E chat, on the two devices that hold the chat:   *)
(* a master PSK is made on one side, handed over out of band, compared and *)
(* marked verified by the users, and rotated, and the chat's epoch and its *)
(* message numbers move with it.                                           *)
(*                                                                         *)
(* Translated from                                                         *)
(*   PskSessionCoordinator.cpp, PskBundleCodec.cpp,                        *)
(*   IPeerSessionStore.cpp and SqlitePeerSessionStore.cpp  (the keys),     *)
(*   SqliteThreadStore.cpp  (the chat's epoch, numbers and sync states),   *)
(*   OutboundMessage.cpp  (sending), and RelayReceivePipeline.cpp and      *)
(*   E2eIngestClassifier.cpp  (which epochs a message is taken from).      *)
(*                                                                         *)
(* The key's epoch and the chat's are one column of one row: chat_targets. *)
(*                                                                         *)
(* Simplifications.                                                        *)
(*  - A message sealed may arrive at any time, again or never; taking one  *)
(*    changes nothing here (its place in the stream is PeerStream's).      *)
(*  - Anything ever copied on one side may be pasted on the other: each    *)
(*    key, and each bundle a rotation has exported.                        *)
(*  - Messages that wait for a retry are left out: a change of epoch       *)
(*    deletes them, and they are sealed already.                           *)
(*  - MaxEpoch, MaxSeq and MaxKeys bound what the users do, MaxFaults the  *)
(*    crashes.                                                             *)
(***************************************************************************)
EXTENDS Naturals, FiniteSets

CONSTANTS
  Device,      \* the two devices
  MaxRetired,  \* kMaxRetiredPskEpochs
  MaxEpoch,    \* bound: the last session_epoch
  MaxSeq,      \* bound: the last sender_seq of an epoch
  MaxKeys,     \* bound: how many master PSKs are generated
  MaxFaults    \* bound: crashes

ASSUME PskRotationAssumption ==
  /\ MaxRetired \in Nat
  /\ MaxEpoch \in Nat \ {0}
  /\ MaxSeq \in Nat
  /\ MaxKeys \in Nat
  /\ MaxFaults \in Nat

VARIABLES
  row,      \* each device's chat_targets row of the chat
  synced,   \* the devices that have a sync_state row for the chat's epoch
  last,     \* the last message each device has sealed
  bundles,  \* the key bundles exported
  keys,     \* how many master PSKs have been generated
  faults    \* crashes so far

vars == <<row, synced, last, bundles, keys, faults>>

Epoch == 1..MaxEpoch
Key   == 1..MaxKeys
NoPsk == 0

RetiredPskEntry == [epoch : Epoch, psk : Key]

Row == [epoch    : Epoch,                    \* session_epoch
        seq      : Nat \ {0},                \* next_outgoing_seq
        psk      : Key \cup {NoPsk},         \* master_psk_b64
        verified : BOOLEAN,                  \* psk_verified_at is set
        retired  : SUBSET RetiredPskEntry]   \* retired_psks_json

Message == [epoch : Epoch, seq : Nat \ {0}, psk : Key]
NoMessage == [epoch |-> 0]

PskBundle == [from : Device, epoch : Epoch, psk : Key, retired : SUBSET RetiredPskEntry]

-----------------------------------------------------------------------------
(***************************************************************************)
(* PskBundleCodec and IPeerSessionStore: the retired keys.                 *)
(***************************************************************************)

\* Mutant: one entry too many is kept.
CapOneMore(retired, active) ==
  LET below == {r \in retired : r.epoch < active}
  IN  {r \in below : Cardinality({later \in below : later.epoch > r.epoch}) <= MaxRetired}

\* Mutant: the tail that is kept is the oldest.
CapKeepsOldest(retired, active) ==
  LET below == {r \in retired : r.epoch < active}
  IN  {r \in below : Cardinality({older \in below : older.epoch < r.epoch}) < MaxRetired}

\* Entries below the active epoch, the last MaxRetired of them.
CapRetiredTail(retired, active) ==
  LET below == {r \in retired : r.epoch < active}
  IN  {r \in below : Cardinality({later \in below : later.epoch > r.epoch}) < MaxRetired}

\* An incoming entry replaces the existing one of its epoch.
MergeRetired(existing, incoming) ==
  incoming \cup {r \in existing : \A i \in incoming : i.epoch # r.epoch}

ValidateBundle(b) ==
  /\ Cardinality(b.retired) <= MaxRetired
  /\ \A r \in b.retired : r.epoch < b.epoch
  /\ \A r, s \in b.retired : r.epoch = s.epoch => r = s

\* ResolveMasterPskForEpoch: the active key, else a retired one.
ResolveMasterPskForEpoch(r, epoch) ==
  IF epoch = r.epoch /\ r.psk # NoPsk
    THEN r.psk
    ELSE LET entries == {e \in r.retired : e.epoch = epoch}
         IN  IF entries = {} THEN NoPsk ELSE (CHOOSE e \in entries : TRUE).psk

ExportPskBundle(d, r) ==
  [from |-> d, epoch |-> r.epoch, psk |-> r.psk,
   retired |-> CapRetiredTail(r.retired, r.epoch)]

\* Mutant: the new key counts as verified already.
ImportKeepsVerified(r, b) ==
  [r EXCEPT !.epoch = b.epoch, !.psk = b.psk,
            !.retired = CapRetiredTail(MergeRetired(@, b.retired), b.epoch)]

\* Mutant: the epoch is left to AdoptChatTargetEpoch.
ImportKeepsEpoch(r, b) ==
  [r EXCEPT !.psk = b.psk, !.verified = FALSE,
            !.retired = CapRetiredTail(MergeRetired(@, b.retired), b.epoch)]

\* ImportPskBundle: the row under the bundle's key.
ImportPskBundle(r, b) ==
  [r EXCEPT !.epoch = b.epoch, !.psk = b.psk, !.verified = FALSE,
            !.retired = CapRetiredTail(MergeRetired(@, b.retired), b.epoch)]

\* The row a rotation saves: the active key retires, a new one opens the next epoch.
Rotated(r, psk) ==
  [r EXCEPT !.epoch = @ + 1, !.psk = psk, !.verified = FALSE,
            !.retired = CapRetiredTail(@ \cup {[epoch |-> r.epoch, psk |-> r.psk]}, r.epoch + 1)]

\* Mutant: the numbering starts over, the epoch stays.
ResetsSeqOnly(r, epoch) == [r EXCEPT !.seq = 1]

\* AdoptChatTargetEpoch.
AdoptChatTargetEpoch(r, epoch) == [r EXCEPT !.epoch = epoch, !.seq = 1]

-----------------------------------------------------------------------------
(***************************************************************************)
(* The users' operations.                                                  *)
(***************************************************************************)

\* The chat was opened from the contact, on both sides: no key yet.
Init ==
  /\ row = [d \in Device |-> [epoch |-> 1, seq |-> 1, psk |-> NoPsk,
                              verified |-> FALSE, retired |-> {}]]
  /\ synced = Device
  /\ last = [d \in Device |-> NoMessage]
  /\ bundles = {}
  /\ keys = 0
  /\ faults = 0

\* GenerateMasterPsk: keys' is the new key.
GenerateMasterPsk == keys < MaxKeys /\ keys' = keys + 1

\* The app dies between two writes.
Crash == faults < MaxFaults /\ faults' = faults + 1

\* EnsureGenerated: the screen of a chat that has no key makes one.
EnsureGenerated(d) ==
  /\ row[d].psk = NoPsk
  /\ GenerateMasterPsk
  /\ row' = [row EXCEPT ![d].psk = keys', ![d].verified = FALSE, ![d].retired = {}]
  /\ UNCHANGED <<synced, last, bundles, faults>>

\* ApplyBundleToThread: the chat adopts the bundle's epoch, if it is another.
\* The sync state of that epoch is not made.
ApplyBundle(d, b) ==
  /\ IF b.epoch = row[d].epoch
       THEN /\ row' = [row EXCEPT ![d] = ImportPskBundle(@, b)]
            /\ UNCHANGED synced
       ELSE /\ row' = [row EXCEPT ![d] = AdoptChatTargetEpoch(ImportPskBundle(@, b), b.epoch)]
            /\ synced' = synced \ {d}
  /\ UNCHANGED <<last, bundles, keys>>

\* ImportRawBase64: a bare key, for the epoch the chat is in.
ImportRaw(d, psk) ==
  /\ psk \in 1..keys
  /\ ApplyBundle(d, [epoch |-> row[d].epoch, psk |-> psk, retired |-> {}])
  /\ UNCHANGED faults

\* ImportBundleJson.
ImportBundle(d, b) ==
  /\ ApplyBundle(d, b)
  /\ UNCHANGED faults

\* The app dies between ImportPskBundle and AdoptChatTargetEpoch.
DieInImport(d, b) ==
  /\ Crash
  /\ b.epoch # row[d].epoch
  /\ row' = [row EXCEPT ![d] = ImportPskBundle(@, b)]
  /\ synced' = synced \ {d}
  /\ UNCHANGED <<last, bundles, keys>>

\* MarkVerified: the user has compared the fingerprints (asked where there is a key).
MarkVerified(d) ==
  /\ row[d].psk # NoPsk
  /\ row' = [row EXCEPT ![d].verified = TRUE]
  /\ UNCHANGED <<synced, last, bundles, keys, faults>>

\* Mutant: a chat without a key is rotated too.
RotatesNothing(d) == row[d].epoch < MaxEpoch

\* There is a key to rotate (and an epoch to rotate to: bound).
CanRotate(d) == row[d].psk # NoPsk /\ row[d].epoch < MaxEpoch

\* RotatePskAndExportBundle.
RotatePskAndExportBundle(d) ==
  /\ CanRotate(d)
  /\ GenerateMasterPsk
  /\ row' = [row EXCEPT ![d] =
               AdoptChatTargetEpoch(Rotated(@, keys'), Rotated(@, keys').epoch)]
  /\ bundles' = bundles \cup {ExportPskBundle(d, row'[d])}
  /\ synced' = synced \ {d}
  /\ UNCHANGED <<last, faults>>

\* The app dies in it, between Save and AdoptChatTargetEpoch.
DieInRotate(d) ==
  /\ Crash
  /\ CanRotate(d)
  /\ GenerateMasterPsk
  /\ row' = [row EXCEPT ![d] = Rotated(@, keys')]
  /\ synced' = synced \ {d}
  /\ UNCHANGED <<last, bundles>>

\* StartNewSecureChat, BumpLocalChatTargetEpoch: the next epoch under the same key.
NewSecureChat(d) ==
  /\ row[d].epoch < MaxEpoch
  /\ row' = [row EXCEPT ![d] = AdoptChatTargetEpoch(@, @.epoch + 1)]
  /\ UNCHANGED <<last, bundles, keys>>

StartNewSecureChat(d) ==
  /\ NewSecureChat(d)
  /\ synced' = synced \cup {d}
  /\ UNCHANGED faults

\* The app dies in it, between chat_targets (profile.db) and sync_state (thread.db).
DieInNewChat(d) ==
  /\ Crash
  /\ NewSecureChat(d)
  /\ synced' = synced \ {d}

\* FindOrCreateDirectThread: the user opens the chat from the contact.
OpenFromContact(d) ==
  /\ synced' = synced \cup {d}
  /\ UNCHANGED <<row, last, bundles, keys, faults>>

\* IsPskReadyToSend, the private chat's send gate.
PskReady(r) == r.psk # NoPsk /\ r.verified

\* SendUserMessage: the next number, sealed under the epoch's key.
Send(d) ==
  /\ PskReady(row[d])
  /\ row[d].seq <= MaxSeq
  /\ last' = [last EXCEPT ![d] =
                [epoch |-> row[d].epoch, seq |-> row[d].seq,
                 psk |-> ResolveMasterPskForEpoch(row[d], row[d].epoch)]]
  /\ row' = [row EXCEPT ![d].seq = @ + 1]
  /\ UNCHANGED <<synced, bundles, keys, faults>>

\* Receiving: whether d holds the key that opens m, and then takes m: a retired
\* epoch is refused, and the current one needs its sync state.
Decrypts(d, m) == ResolveMasterPskForEpoch(row[d], m.epoch) = m.psk

Taken(d, m) ==
  /\ Decrypts(d, m)
  /\ m.epoch >= row[d].epoch
  /\ m.epoch = row[d].epoch => d \in synced

\* The bundles for d of the epoch its chat is in or a later one: so no epoch is
\* entered twice, and of a new one there is no sync state yet.
Current(d) == {b \in bundles : b.from # d /\ b.epoch >= row[d].epoch}

Next ==
  \E d \in Device :
    \/ EnsureGenerated(d) \/ MarkVerified(d)
    \/ \E psk \in Key : ImportRaw(d, psk)
    \/ \E b \in Current(d) : ImportBundle(d, b) \/ DieInImport(d, b)
    \/ RotatePskAndExportBundle(d) \/ DieInRotate(d)
    \/ StartNewSecureChat(d) \/ DieInNewChat(d)
    \/ OpenFromContact(d)
    \/ Send(d)

\* The users install no bundle of an epoch the chat has left.
Spec == Init /\ [][Next]_vars

-----------------------------------------------------------------------------
(***************************************************************************)
(* Properties.                                                             *)
(***************************************************************************)

\* The shape of every variable.
TypeOK ==
  /\ row \in [Device -> Row]
  /\ synced \subseteq Device
  /\ last \in [Device -> Message \cup {NoMessage}]
  /\ bundles \subseteq PskBundle
  /\ keys \in 0..MaxKeys
  /\ faults \in 0..MaxFaults

\* No key opens a message of an epoch the chat has not come to, whatever was
\* rotated, merged or crossed: a private chat never adopts its peer's epoch by
\* receiving (AcceptEpochAdvance).
NoLaterKey ==
  \A d \in Device, e \in Epoch :
    e > row[d].epoch => ResolveMasterPskForEpoch(row[d], e) = NoPsk

\* A number is used once: what a device will send next in its epoch was not sent
\* before, however keys, bundles, new chats and crashes move the epoch and reset
\* the numbering.
NextIsUnused ==
  \A d \in Device :
    last[d] # NoMessage /\ last[d].epoch = row[d].epoch => last[d].seq < row[d].seq

\* A new key is never sealed with before the user has marked it verified,
\* however it came (generated, pasted, in a bundle or by a rotation): the mark of
\* the key before does not pass to it.
NewKeyIsUnverified ==
  [][\A d \in Device : row'[d].psk # row[d].psk => ~PskReady(row'[d])]_vars

\* A rotation's bundle can be exported and installed: the retired keys it
\* carries are within the limit, of earlier epochs, one for each.  (A rotation
\* exports last: refused there, the new key would never leave the device.)
BundlesAreValid == \A b \in bundles : ValidateBundle(b)

\* A rotation loses no key of the last MaxRetired epochs: what opened before it
\* opens after it, whatever merged ledger it starts from (D083, D086).
RotationKeepsTail ==
  [][\A d \in Device, e \in Epoch :
       /\ keys' # keys
       /\ e + MaxRetired >= row'[d].epoch
       /\ ResolveMasterPskForEpoch(row[d], e) # NoPsk
       => ResolveMasterPskForEpoch(row[d], e)' = ResolveMasterPskForEpoch(row[d], e)]_vars

\* A message sealed in the epoch the chat is in, under the key it has there, is
\* taken: installing a bundle initializes the sync state of its epoch (D086).
CurrentIsTaken ==
  \A d, p \in Device :
    /\ p # d /\ last[p] # NoMessage
    /\ last[p].epoch = row[d].epoch /\ last[p].psk = row[d].psk
    => Taken(d, last[p])
=============================================================================
