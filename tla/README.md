# Verification of pp-browser's messaging and calls

pp-browser is a peer-to-peer messenger and browser: accounts with several devices,
end-to-end encrypted direct and group chats over a relay mailbox and direct links,
calls, social posts, and the services of a mesh node. This directory holds TLA+ models of
the parts whose correctness depends on the order of events, the TLC runs that check them
on small instances, and TLAPS proofs for all instances.

All paths below are relative to the repository. `PROJECT.json` maps every definition to
the source lines it stands for.

| module | what it is |
| --- | --- |
| `PairSession` | the session (key, epoch, numbering) of two devices on a public chat |
| `MCPairSession` | PairSession for TLC: convergence of an undisturbed exchange from every state |
| `PairSessionProofs` | its inductive invariant; all its properties and the convergence of an exchange |
| `PeerStream` | what a device makes of one peer's numbered messages: ingest classifier, history sync, clears, epochs |
| `PeerStreamProofs` | its inductive invariant and six theorems on it |
| `PskRotation` | the key of a private chat on both devices: made, handed over, verified, rotated; the chat's epoch and numbering |
| `MCPskRotation` | PskRotation for TLC: the symmetry of the two devices |
| `PskRotationProofs` | its inductive invariant and six theorems on it |
| `DeliveryPromise` | what an outbox promises of each record: held until taken or let go of, then never sent again |
| `Outbox` | the outbox of a device: sends, retries, timers, cancels, restarts, and the row of the message |
| `MCOutbox` | Outbox for TLC: which messages have which records |
| `OutboxProofs` | its inductive invariant, three properties, and the safety part of "Outbox implements DeliveryPromise" |
| `CallSession` | one-to-one calls between accounts of several devices, with everything that crosses on the way |
| `MCCallSession` | CallSession for TLC: who owns which device, who calls whom |
| `CallSessionProofs` | its two inductive invariants and all its safety properties |
| `GroupRoster` | who is in a group: signed statements and changes, the roster they give, and everything that crosses between the members |
| `MCGroupRoster` | GroupRoster for TLC: the accounts |
| `RosterViewProofs` | what the recursive roster rules compute, by induction on their rounds |
| `GroupRosterProofs` | its inductive invariants and all its properties |
| `MediaDevices` | microphone, speaker and camera of a device: holders, the device threads, opens that come late |
| `MCMediaDevices` | MediaDevices for TLC: who asks for what, under which policy |
| `MediaDevicesProofs` | its inductive invariant, types and `OpensInTurn` |

## 1. Inventory

The program is written in C++: "capabilities" (libraries with a domain, a lib and a
feature layer) under `src/capabilities`, and the application under `src/src`. One process
per device; the GUI thread, a worker pool with lanes (critical, normal) and the mesh
library's callbacks run concurrently. A device's state is in SQLite files (`profile.db`,
sessions included, and one `thread.db` per chat) and is written by separate autocommitted
statements unless a transaction is named.

### Modelled

**Device-pair sessions** (`capabilities/delivery`, `E2ePublicSessionLogic.cpp`,
`SqlitePeerSessionStore.cpp`; part of `OutboundMessage.cpp` and of `MeshDeliveryOrchestrator.cpp`).
*State*: one `device_sessions` row per pair: epoch, master PSK, pending `key_init`, when the
peer was last heard under the session, next number, retired PSKs, `restart_pending`.
*Operations*: Ensure (on send), Reconcile (on receive), Restart, AllocateSenderSeq, Reset
chats. *Hard*: both sides open at once; openers are lost, late or repeated; a device that
lost its numbering must not reuse a number; several saves per operation, so crashes in
between. *Correct when*: numbers are never reused, the pair is never locked out, epochs do
not go back, and an undisturbed exchange converges.

**Receive stream of a direct chat** (`E2eIngestClassifier.cpp`, `RelayReceivePipeline.cpp`,
`EpochBumpCoordinator.cpp`). *State*: `PeerSyncState` per sender and epoch (contiguous
tail, loaded range, floor, phase, closed seqs), a `ReplayWindow` in memory, the stored rows.
*Operations*: classify and store an envelope, adopt the peer's epoch, pause. *Hard*: the same
message over the relay, a direct link and a history answer; the window is lost in a restart;
row and state are written apart. *Correct when*: the tail passes nothing that is missing,
the strict channel's compromised latch holds, and the relaxed channel loses nothing.

**Chat history sync** (`ChatSyncLogic.cpp`, `ChatSyncWorkflow.cpp`, `ChatHistoryResponder.cpp`).
*Operations*: tail sync, gap repair, scroll backfill; taking an answer; closing a range on
an empty answer. *Interacts* with the classifier (every answered message goes through it)
and reads and writes the same `PeerSyncState`. *Hard*: the answer comes long after the
state it was asked from. *Correct when*: no hole the peer can still fill is closed, and nothing
cleared comes back.

**Thread store** (`SqliteThreadStore.cpp`). *State*: chats, their rows, epochs, sync states.
Modelled as far as the streams and the keys need it: `ClearMessages`, the changes of epoch, a new secure chat and what a
crash between its writes leaves, message numbers, and where a sync state is made.

**Private-chat PSK** (`PskSessionCoordinator.cpp`, `PskBundleCodec.cpp`, `IPeerSessionStore.cpp`).
*State*: the chat's `chat_targets` row: epoch, next number, master PSK, verified mark, retired PSKs. One row holds what is
the key's and what is the chat's. *Operations*: generate, paste a bare key, install a bundle, verify, rotate and export, new
secure chat, send. *Hard*: both sides change keys and epochs on their own; key, numbering and sync state are written one after
the other; ledgers are merged and capped. *Correct when*: numbers are unique, a new key is used after a new
verification only, a rotation keeps what can still be needed, and what both sides hold the key for is read.

**Mesh delivery orchestrator** (`MeshDeliveryOrchestrator.cpp`). The hub that sends, polls the inbox,
starts syncs and control messages. Its direct send (which first restarts a restored pair), sync
triggers, new secure chat and pause are actions of the modules; polling cadence, wake, routes and group fan-out are
not.

**App lifecycle** (`Application.cpp`). Only Reset chats is an action (of PairSession).

**Delivery outbox and control lane** (`DeliveryOutbox.cpp`, part of `OutboundMessage.cpp` and `MeshDeliveryOrchestrator.cpp`).
*State*: a queue of sealed records and a list of control retries, in memory only; an attempt count per record; the
`delivery` column of the message's row. *Operations*: Send (direct link first, then relay), Retry (a wake drains the queue), a
control's back-off timer, Cancel, PurgeThread; the outcome handler that marks the row. *Hard*: each of these runs on a
pool of workers and gives the lock up around every send, so two wakes, a timer, a cancel and a restart interleave; a message has
several records. *Correct when*: a record is in one place, what was stopped is gone, the row tells no delivery that was not, a
record is sent a bounded number of times, and nothing waits for ever.

**Calls** (`CallSessionWorkflow.cpp`, `CallSessionManager.cpp`, `CallSessionQueries.cpp`, `CallSessionLogic.cpp`, `LiveCall.cpp`,
`SqliteCallSessionStore.cpp`). *State*: per call a session row, a participant row for each account, an invite row,
and in memory the `LiveCall` that the interface shows. *Operations*: place, accept, decline, leave; a handler per call
control; the sweep of timeouts; the cleanup after a restart. Every device runs its call code on one owner thread. *Hard*: the
controls of two accounts and their several devices cross, are lost, late or repeated; two people call each other at
once; each handler writes rows and LiveCall by separate statements. *Correct when*: a device is in one call, shows what it
stored, an ended call stays ended, nobody calls for ever, and the two ends agree. *Partly*: group calls, media and their keys, prices,
video and hold are left out.

**Group roster** (`GroupRosterRules.cpp`, `GroupRosterSync.cpp`, `GroupMembershipApply.cpp`, `GroupMembershipWorkflow.cpp`).
*State*: per device a group's metadata (roster epoch, state), member rows, invites, the statement it holds and the signed changes on
top of it. *Operations*: invite, accept, refuse, admit, remove, leave; taking a change, a statement or a join bundle; the owner's fold;
catching up with a member that is ahead. *Hard*: nothing orders the changes of different members, each device computes its rows
from what it happens to hold, the owner's rows run ahead of its statement, and a change that was folded and dropped must not count
again. *Correct when*: equal copies give equal rosters, a fold changes nobody's membership, a removed member comes back only by
who may bring it back, and nobody is dropped without a say. *Partly*: links, renames, roles and presets, hand-over and dissolve are left out.

**Media devices** (`MediaDeviceArbiter.cpp`). *State*: who holds microphone, speaker and camera, the queue and running task of two device
threads (lanes), the endpoint in each lease. *Operations*: acquire (hold, post the open, wait within a budget), reopen, give up, release (unhold,
post the close), the worker's steps of an open, a reopen and a close, an operation that runs over its time, shutdown. *Hard*: an open blocks in the operating
system for as long as it likes, the caller may be gone when it returns, and an exclusive device is asked for again before its close ran. *Correct when*: two
endpoints of an exclusive kind are not in use at once, and what was let go is closed and free in the end. *Partly*: reads and writes through an endpoint, backends.

### Not modelled, with what would make them correct

| component | state and operations | hard behaviour / property worth checking | status |
| --- | --- | --- | --- |
| Device lock of a public chat (`PublicPskLockCoordinator.cpp`, `PskRotateCodec.cpp`) | a rotation of the account-level session: prepare, commit, abort, apply inbound | both sides rotate at once; one rotation must win on both | planned |
| Profile unlock and data key (`DataKeyVault.cpp`, `GraceUnlock.cpp`, ...) | key slots, grace window | a PIN change dies between two writes | candidate |
| Pricing (`PaymentPromiseStore.cpp`, ...) | a phase per promise | small state machine, sequential | candidate |
| People and identity (`AccountLocker.cpp`, ...) | contacts, account locker snapshots | merge of snapshots of several devices | candidate |
| Attachments (`AttachmentFetch.cpp`, `LargeTransferLane.cpp`, `AttachmentCache.cpp`) | transfers, a bounded cache | queue limits, a fetch that is cancelled | candidate |
| Routes and account cards | address cache with expiry | last writer wins | no |
| Social posts, content store | content-addressed files | pure data | no |
| Broadcast | like calls | after the calls | no |
| HTTP, relay cursor | I/O; the cursor is saved before its batch is taken | covered by the loss every model allows | no |
| Node | wiring of the external mesh library | no protocol of its own | no |
| AI agent, GUI | external answers, presentation | - | no |

### Who calls what

```
 user ──> GUI ──> MeshDeliveryOrchestrator ──send──> Restart? / Ensure / AllocateSenderSeq ──> mailbox
                        │  (PairSession)                                                          │
                        │                                                                         v
 history answers ──> ChatSyncWorkflow ──> RelayReceivePipeline <───── direct link, relay poll ────┘
                        │                    │ decrypt + Reconcile           (PairSession)
                        │                    │ Classify, AppendMessage, SetPeerSyncState
                        v                    v                               (PeerStream)
                        └───> PeerSyncState, rows (SqliteThreadStore) <─── ClearMessages, new secure chat
```

PairSession supplies what PeerStream assumes: a sender never gives two messages the same
`(epoch, sender_seq)` (`NeverRewinds`, proved). So PeerStream names a message by that pair, and
lets any message arrive at any time, any number of times or never.

The records the sends seal go through Outbox, whose `DeliveryPromise` is what the mailbox of the other modules relies on, and no more: a
record may be delivered late, more than once (a link that failed after the peer took it, then the relay), or never.
Call controls are sealed and sent like other control messages; CallSession keeps of that only that those of one event go
out in no order, and that one may be lost, late or repeated.

## 2. PairSession

| in the model | in the code |
| --- | --- |
| `row[d]` | the `device_sessions` row (`PeerSessionRecord`); `psk` stands for the master PSK, the `key_init` that opens it, and its session id |
| `mailbox` | every envelope sealed so far; delivered at any time, repeatedly, or never |
| `stored[d]`, `thread[d]` | the messages in d's chat; whether the chat exists |
| `Resolve`, `Retire`, `Save` | `ResolveMasterPskForEpoch`, `retired_psks`, `SaveDeviceSession` (a change of epoch numbers from 1) |
| `Ensure`, `Reconcile`, `Restart` | the functions of `E2ePublicSessionLogic.cpp` |
| `Send(d)` | the whole direct send: restart if restored, Ensure, allocate, seal |
| `Receive(d)` | duplicate check, decrypt, Reconcile, the classifier's retired-epoch refusal, the store's unique `(epoch, seq)` |
| `DieInSend`, `DieInReceive` | the app dies in a send after the session is saved, with the number allocated or not; in a receive after Reconcile's save |
| `ResetChats` | chats deleted, sessions with a PSK put back marked `restart_pending` |
| `DieInRestart` | a crash between the two saves of a restart; only in `RestartCrashSpec` |

Session ids are naturals compared with `<`, as the hex strings are compared in the code; a fresh
session takes any unused id, so the tie-break goes either way. Timestamps do not decrease on one
device and may be equal (`Send` takes the same or the next one).

This crash point is apart because there the code does break its promise (finding 1); keeping it out of `Spec` lets the rest
be checked and proved. A crash inside Reset chats is left out too (see the observations under Findings).

Properties:

- `NeverRewinds`: no two messages of a device share `(epoch, seq)`.
- `NoLockout`: a device that stopped attaching `key_init` shares its session with its peer.
- `EpochsOnlyGrow`: no step takes a device's epoch back.
- `ExchangeConverges` (in `MCPairSession`): from every reachable state, two undisturbed messages each way
  bring both devices to one confirmed session in one epoch, whichever of them starts. This is
  a safety form of convergence: it plays the exchange as a function of the state, so it needs no fairness.

## 3. PeerStream

| in the model | in the code |
| --- | --- |
| `channel` | `private` is the strict classifier mode, `public` the relaxed one |
| `st`, `win` | the saved `PeerSyncState`, and the `ReplayWindow` kept in memory only (the crypto library's, modelled from its uses) |
| `rows`, `cleared`, `base` | messages in the chat; history variables: what a clear deleted, and where the contiguous tail began |
| `Classify` | `E2eIngestClassifier::Classify`, every branch in its order, for a message of the current epoch |
| `Receive`, `TakeAnswered` | the persist step for a live envelope, and for one of a history answer |
| `ReceiveNewEpoch` | a message of a later epoch on a public chat: the pair's new session. A private chat cannot decrypt one (`NoLaterKey` of PskRotation) |
| `TailSync`, `RepairGap`, `ScrollBackfill` | the three requests, with the floor clamp of `BoundHistoryRequest` |
| `Answered`, `FinishAnswer`, `Unanswered` | authorization of an older backfill when the answer is there; closing an empty range, `AdvanceContiguous`; no answer |
| `ClearMessages`, `StartNewSecureChat`, `PauseOnly` | the user's operations |
| `Restart`, `DieInReceive` | the window and the request are lost; the row is stored and the state is not |

A request is three steps (asked, answered, finished) with anything in between: live messages,
a clear, a new epoch, a restart. The answer may hold any of the messages in the asked range, or none.

Properties:

- `ClearedStaysCleared`: a private chat's cleared message never comes back over any path.
- `ContiguousHasNoHoles`: each seq from the start of the tail to its end was stored, cleared, or
  closed, or is below the floor. A message the tail has passed is refused for good, so this is what keeps it from being lost.
- `ClosedIsCleared`: an empty answer never closes a hole the peer may still fill.
- `PublicLosesNothing`: a public chat takes every message it never had, in every reachable state.
- `LatchHolds`: a compromised private chat is reopened only by a new epoch or a clear.

## 4. PskRotation

| in the model | in the code |
| --- | --- |
| `row[d]` | the chat's `chat_targets` row; `retired` is `retired_psks_json`, a set, since every writer sorts it and keeps one entry per epoch |
| `synced` | the devices that have a `sync_state` row for the epoch their chat is in |
| `last[d]` | the last message d has sealed; it may arrive at any time |
| `bundles` | every key bundle a rotation has exported; it may be installed at any time, or again |
| `CapRetiredTail`, `MergeRetired`, `ValidateBundle`, `ResolveMasterPskForEpoch`, `ExportPskBundle`, `ImportPskBundle`, `AdoptChatTargetEpoch` | the functions of those names |
| `EnsureGenerated`, `ImportRaw`, `ImportBundle`, `MarkVerified`, `RotatePskAndExportBundle` | the operations of `PskSessionCoordinator` |
| `StartNewSecureChat`, `OpenFromContact` | `BumpLocalChatTargetEpoch` (same key, next epoch); `FindOrCreateDirectThread`, which makes a missing sync state |
| `Send` | the send gate, `AllocateSenderSeq`, and the key the message is sealed under |
| `DieInImport`, `DieInRotate`, `DieInNewChat` | the app dies between two writes of the operation |
| `Decrypts`, `Taken` | whether the key for the message's epoch opens it; whether the ingest then takes it |

The users are assumed to install no bundle of an epoch their chat has left (`Current`). The code does not refuse
one, and numbers would then be given twice; the hazard is listed.

Properties:

- `NextIsUnused`: the number a device gives next was not sent before in its epoch.
- `NoLaterKey`: no key opens a message of an epoch the chat has not come to. It is what lets PeerStream leave the
  passive adopt of a private chat out.
- `NewKeyIsUnverified`: no step changes a key and leaves the chat ready to send.
- `BundlesAreValid`: what a rotation exports can be installed: within the limit, of earlier epochs, one key for each.
- `RotationKeepsTail`: a rotation keeps the key of each of the last `MaxRetired` epochs.
- `CurrentIsTaken`: a message of the epoch both sides are in, under the key both hold, is taken, as the design promises; violated (finding 2).

## 5. Outbox and DeliveryPromise

| in the model | in the code |
| --- | --- |
| `kind[m]`, `row[m]` | what a message is sent as (one record; copies for devices; a record per member; a control), and its row's `delivery` |
| `sending[r]` | how far the work that `DeliveryOutbox::Send` posted has come: posted, waiting for the link's callback, waiting for the relay |
| `queue`, `timers`, `fired` | `queue_`; `control_retries_`; timers that have fired, before their worker takes the entry out |
| `drains[d]` | a batch that one `Retry` has swapped out of the queue: what is to do, in hand, still to be kept |
| `attempts`, `expired` | `attempt_count`; control records past `kControlRetryWindowMs` |
| `reports`, `Look`, `Mark` | outcomes on their way to the row. A failure reads the row (`MarkDelivery` 1411) and writes it later, two steps |
| `Compose`, `SendDecides`, `DirectDone`, `RelaySend` | `SendUserMessage`, then `Send`: the pause check and choice of a way, the link's callback, the relay |
| `TimerFires`, `RetryControlNow` | `RetryControlLater`'s timer and the worker it posts |
| `Wake`, `DrainStarts`, `DrainPicks`, `DrainDirectDone`, `DrainRelays`, `DrainEnds` | `Retry`, from one wait to the next |
| `Cancel`, `PauseIntegrityOnly`, `StartNewSecureChat`, `PublicKeyRotates` | `DeleteMessageForMe`; the callers of `PurgeThread` |
| `RelayGoes`, `RelayComes`, `Restart` | `SetRelay`, and a restart of the app, in which every queue is lost |

`DeliveryPromise` knows of a record only where it stands (new, held, taken, dropped) and how often the relay was asked.
`KeepsPromise` is the refinement: *held* is "in one of the places of the outbox" (`Held`), *taken* "confirmed by a transport",
`sends` the relay sends, at most `MaxAttempts + 1`. The history variables `taken`, `sent`, `stopped` and `lost` record what the
properties speak of and decide nothing.

Properties:

- `OneHolder`: a record is in one place. It is what makes a double send impossible, whatever wake, timer and cancel do at once.
- `StoppedIsGone`: what a cancel or a purge found waiting never comes back, although a batch puts back what failed.
- `NoFalseDelivered`: a row says delivered only if a transport confirmed one of its records.
- `PendingSettles` (liveness): a chat message's row does not stay pending, unless the app was restarted meanwhile, or it is a group's.
- `KeepsPromise` (refinement, liveness included).
- `RowTellsDelivery`: the converse of `NoFalseDelivered`, which the header states; violated (finding 3).

## 6. CallSession

| in the model | in the code |
| --- | --- |
| `rows[d][c]` | the call's rows on d: session state, participant state of our account (`self`) and of the other (`peer`), invite status; `live` is the `LiveCall` |
| `Open`, `InCall` | `ListActiveSessions`; `ActiveLocalCall` |
| `wire[s][d]` | the controls on their way, in batches: those of one handler go out on several workers, in no order (`SendToEach`) |
| `LeaveCall`, `EndCallLocal`, `StoreRingingInvite`, `CommitLocalJoin`, `ApplyRemoteAccept`, `ParticipantGone`, `StopRingingAnsweredElsewhere` | the functions of those names, as functions of a row |
| `LeaveOthers`, `AcceptInvite` | `LeaveCallIfActiveExcept`; `AcceptInvite` with `CommitAccept`, every way it may fail, and `AcceptSuperseded` |
| `Place`, `ClickAccept`, `ClickDecline`, `ClickLeave` | the clicks of `CallSessionManager`. A send that fails is a choice of the step |
| `Expire`, `GiveUpUnanswered` | the two timeouts of `SweepExpiredInvites` |
| `ReceiveInvite` ... `ReceiveAnswered` | `ApplyInboundControl`, who may send what (`SenderIsInCall`), and the handlers |
| `HearAnswer` | `ApplyImplicitAccept`: the answerer's media arrive before its accept |
| `Restart` | `AbandonOrphanedCallsAfterRestart` |
| `Lose`, `Delay`, `Repeat` | the network, the inbox and its replays |

A call's id is a number that says who places it; of two calls that cross the lower wins, as the lower hex string does. An invite that was too
old, or was sent by someone who may not call, is a choice of `ReceiveInvite`.

Properties:

- `OneActiveCall`: a device is in one call. `LiveCalls::WarnIfSecondActive` logs a second one and goes on.
- `LiveMatchesStore`: the call shown and the rows, written by different statements, agree.
- `EndedIsFinal`: an ended call neither opens nor rings again (B24), whatever is repeated or late.
- `EndsMeet`: with nothing lost and nothing on its way, the two ends agree: the one device that answered talks exactly if the caller does; a ring is
  a call still offered; of two crossed calls one is left.
- `CallsSettle` (liveness): nobody calls for ever and no invite stays pending, whatever was lost.

## 7. GroupRoster

| in the model | in the code |
| --- | --- |
| `stmts` | the roster statements the owner has signed, by epoch: members, admins, removed list, folded changes, floor; `to` is whom it was sent to |
| `copy[d]` | d's metadata (`meta` is `roster_epoch`), member rows, the statement it holds (`at`, 0 for none) and the changes it holds |
| `signed` | every change that was sent; it reaches each of its `to` in any order, repeatedly, or never |
| `invites`, `bundles`, `publish` | invites and where they stand, join bundles on their way, newcomers whose `PublishMemberJoined` is still to run |
| `View` and what it uses | `ComputeRoster` of `RosterRules`: which removes count, which adds stand, who waits, what a statement over it folds |
| `RemoveCounts`, `Barred`, `AddEntitled`, `TakeIn`, `RunAdds` | `Entitlement` (R3), `StaticAddReason` (R1, R2), `AddEntitlement`, `TryAccept` (with R5), `RunAdds` |
| `Refresh`, `Finish` | `ApplyView`, `FinishView`: a device whose own row goes is out |
| `Statement`, `Signs`, `Fold` | `OwnerDraft`, `SignRoster`, `FoldNow`; `NextEpoch` is the epoch the draft chooses |
| `Invite`, `Accept`, `Refuse`, `TakeRefusal`, `Admit`, `ResendBundle`, `OwnerTakes` | `InviteIdentity`, `AcceptInvite`, what `AdmitInvitee` and `AddAsOwner` do with an acceptance |
| `PublishMemberJoined`, `PublishFails` | the statement that follows the owner's add, or never comes |
| `AdminRemoves`, `OwnerRemoves`, `Leave` | `RemoveAsAdmin`, `RemoveAsOwner`, `LeaveGroup` |
| `Receive`, `ReceiveStatement`, `TakeBundle` | `ApplyGroupChange`; `ApplyRosterStatement`, or the owner's event that carries the statement; `ApplyJoinBundle` |
| `Asks`, `SignToAnswer`, `CatchUp` | `NeedsCatchUp`, `AnswerRosterRequest`, `ApplyReply` |

Ids of changes are numbers given in any order, as the hashes of the code are: the order of `RunAdds` and the ties of the removed list
are by id. A catch-up is asked and answered in one step. An account has one device. Nobody invites someone its own roster
lists, and an inviter has one open invite to an account at a time. The epochs are bounded through `MaxChanges` and `MaxInvites` alone.
The recursion of the code over changes and accounts is a function by rounds (`CountingRemoves`): a remove depends on removes of
its signer only, and those chains end at the owner.

Properties:

- `StaysFolded`: a change that was folded is live under no later statement: the statements name it until the floor has passed it.
- `OneStatementAnEpoch`: no statement is taken back or signed twice, although the owner's rows run ahead of it.
- `NothingToAsk`: two copies in which a message shows no difference (statement's epoch, hash of the changes) list the same members.
- `RemovedReturnsByKeepers`: a listed removal is undone by the owner's own add, or by an add that names it, of the owner or an admin.
- `GoesOutBySay`: who is in a statement and not in the next left or was removed by a keeper: no race drops anyone else.
- `FoldKeepsRoster`: with the owner's rows up to date, a fold gives the same members, admins and removed list as before.
- `LeaverIsOut`: a statement that folds a leave does not list its signer; violated (finding 4).

`StoodBehind` is whom the owner and the admins of a statement stand behind: their own changes, and those that a remove they stand behind keeps.
The properties about removals and returns first spoke of changes *signed by* a keeper of order; the attempt to prove them showed that this is not what the
rules give: a remove that a keeper's remove names as kept counts outright, whoever signed it (see the observations).

## 8. MediaDevices

| in the model | in the code |
| --- | --- |
| `setup` | the share policy, and who asks for what; fixed for a behaviour |
| `phase[r]` | how far the caller of request r is: asked, holding (half of a duplex), waiting, granted, reopening, leaving, refused |
| `holders`, `rel`, `endpoint` | `holders_`; how far the release of each slot is; the leases that have their endpoint |
| `open` | the endpoints the operating system has open |
| `queue[f]`, `run[f]`, `lane[f]` | a lane's tasks, the task it runs (and whether it passed its budget), whether the thread still runs |
| `Ask`, `Hold`, `HoldSpeaker`, `PostOpen` | `Acquire`, `AcquireDuplex`: the check against the holders, one kind after the other, then the post |
| `Answer`, `GiveUp`, `Reopen` | the wait within its budget, and what comes of it |
| `Release`, `Unhold`, `PostClose` | `Release`, in three steps: its two locks and the post |
| `TakeTask`, `StartOpen`, `DeviceOpens`, `Install`, `EndOpen`, `StartReopen`, `CloseOld`, `Close`, `Skip`, `Finish` | the worker, between two locks or waits each |
| `Overrun`, `Stop`, `ExitAtOnce`, `Exit` | an operation past its budget; the shutdown of a lane, with a worker that is stuck or not |

Properties:

- `OpensInTurn`: of two open endpoints of an exclusive kind one is being let go, and they are not of one caller. The header of `Release` says that the close is
  ahead of the next open; that is so for the caller that lets go (a session rebuild), and not for another one (see the observations).
- `LetGoIsFree` (liveness): what was released, given up or refused is in the end neither open nor held, for good.

## 9. Runs

Run with `tlc -config <run>.cfg <module>`.

| run | module | shows | distinct states |
| --- | --- | --- | --- |
| `pair_session` | MCPairSession | the four pair properties and types | 548,247 |
| `peer_stream` | PeerStream | the five stream properties and types | 848,521 |
| `pair_restart_crash` | MCPairSession | finding 1 (violation) | |
| `psk_rotation` | MCPskRotation | the five key properties and types | 1,339,957 |
| `psk_unopened` | MCPskRotation | finding 2 (violation) | |
| `outbox` | MCOutbox | types, three invariants, `PendingSettles` and the refinement of DeliveryPromise, under fairness | 288,950 |
| `outbox_row` | MCOutbox | finding 3 (violation) | |
| `calls_crossed` | MCCallSession | two people, one device each, a call each way: the five call properties and types, under fairness | 520,623 |
| `calls_siblings` | MCCallSession | `EndsMeet` for a call to an account with two devices | 132,101 |
| `group_roster` | MCGroupRoster | an owner, an admin, a member and a newcomer: the six roster properties and types | 320,405 |
| `roster_fold` | MCGroupRoster | finding 4 (violation) | |
| `media_devices` | MCMediaDevices | types, `OpensInTurn` and `LetGoIsFree`, under fairness | 141,970 |

Each property of the passing runs has a mutant of the code in `PROJECT.json` (a definition beside the
original, marked "Mutant") that TLC finds to violate it: a dropped guard, a `<` for a `<=`, a mark that is not set.

**Bounds.** PairSession: `MaxSent` 2 messages per device, `MaxFaults` 2 resets or crashes over both,
`MaxTime` 2 timestamps (one equal, one later), sessions 2 to 5, epochs up to 5. Two messages per
device are the smallest number with an opener, a later message under the same session and a copy of each that
comes late, and with equal and different timestamps. Two faults give both devices a reset, or one device a
reset and then a crash in its next send. A device opens a session only when it has none, at first and after
a reset, so four ids are never too few; `Spare` (1 and 6, below and above them) lets the exchange of
`ExchangeConverges` win and lose the tie-break. PairSession has no symmetry set: ids are ordered,
and the devices' counterparts are given by `Peer`.
PeerStream: `MaxEpoch` 2, `MaxSeq` 4, `Window` 2 and `MaxFaults` 2. With four seqs and a window of two there
are messages in the window, past it, two holes, and a hole before and after the floor; two faults
allow a clear followed by a restart or a second clear.
PskRotation: `MaxRetired` 1, `MaxEpoch` 3, `MaxKeys` 3, `MaxSeq` 1 and `MaxFaults` 1. Three epochs are two changes of epoch on
each side, enough for the cap to drop a key, for a bundle to skip an epoch, and for the sides to cross; with three keys each side can
make one and one of them can rotate, or one can rotate twice. One message per epoch shows a number given again. The two devices do the same
things, so they are a symmetry set (no property is a liveness property).
Outbox: a chat message and a control message of one record each, `Drains` 2, `MaxAttempts` 2 and `MaxFaults` 1. Two batches
are two wakes at once, the least that could share a record; two attempts reach a retry that is not the last and the last one; the fault is a
restart or an outage of the relay. `OutboxRow.cfg` needs one message of two records and no retry.
CallSession: `calls_crossed` has a call each way, `MaxFaults` 1 and `MaxRestarts` 1. Two calls are what a device can be in at once here, and
the caller with the lower id wins or loses the race depending on who is looked at. One fault is enough to take away any single control, or have it
come after everything else; `EndsMeet` is asserted where none happened. `calls_siblings` has one call, two devices that ring, no fault and one restart.
GroupRoster: an owner, an admin and a member start the group, one account is outside; an open preset, so that the member may invite; `MaxChanges` 2,
`MaxInvites` 1, `MaxMembers` 4, `Lag` 1. Two changes are two signers at once on one statement (a remove against the add of whom it removes, a leave against a
remove, an add that its remover keeps); with a lag of 1 the floor passes a change within the run (`kChangeFloorLag` is 32). With one invite no
bundle is sent twice (`ResendBundle`), no expired invite is accepted, no add fails in its signer's own view (the refusing branch of `Admit`), and
nobody is at the member limit. Two larger instances reach the first two and pass as well: `MaxChanges` 1 with `MaxInvites` 2 (272,406 states), and the accounts O, A, X with two of
each (1,125,231 states). `RosterFold.cfg` has the code's lag.
MediaDevices: two requests are what may get in each other's way; `MCSetups` lists the five pairs that share a kind or a lane (a microphone or a camera
asked for again, by the same caller or another one, a duplex against each of its halves), under the default policy and one that shares nothing.
The theorems hold for all bounds.

**Fairness.** PairSession, PeerStream, PskRotation and GroupRoster assume none: all their properties are safety properties. The mailbox may lose everything, so
"eventually delivered" would be an assumption on the network; `ExchangeConverges` states instead what happens if nothing is lost.
`Outbox!FairSpec` asks for weak fairness of what the device itself does: workers run what was posted, the direct send ends (4 s,
`AmpDirectChatTransport.cpp:262`), a relay request ends, timers fire, the outcome handler runs, the inbox is synced again (`SyncInboxFromWake`, which calls
`Retry`), and time passes. One assumption is on the environment: a relay client that went is set again. No send is assumed to succeed.
`CallSession!FairSpec` asks only that the sweep comes to each invite and each call that waits: `CallPresenter::Tick` calls `SweepExpiredInvites` on every
tick of a running app (`CallPresenter.cpp:78`). No control is assumed to arrive.
`MediaDevices!FairSpec` asks that a device operation returns (a lane that is stuck was detached and a new one made, but nothing in the code ends a call
into the operating system), that a lane takes its next task, and that a caller that began to let go, or was not granted what it took, goes on with it. Nobody is assumed to ask,
to let a granted lease go, or to give up.

**Deadlock** is not checked: in the bounded instances every message may have been sent and every
fault spent, and the system may then really stop.

## 10. Findings

1. **A crash in a restart rewinds the pair** (`E2ePublicSessionLogic.cpp:190`). Restart and the session opened after
   it are two saves. In between the row has neither PSK nor mark, so the epoch guards of Reconcile are off and a
   late opener of an earlier epoch is adopted; numbers are then given twice.
2. **After a rotation nothing of the new epoch is taken until the chat is opened from the contact** (`PskSessionCoordinator.cpp:132`
   and `217`): the change of epoch makes no sync state, and an envelope of the current epoch without one is refused.
3. **A failed copy marks a delivered message failed** (`MeshDeliveryOrchestrator.cpp:1417`): the row is read and written in two steps, and the other copy's
   success may be written in between; the row then says failed for good.
4. **A leave taken between the owner's add and its statement is lost in the fold** (`GroupMembershipApply.cpp:61`): the rows' epoch is ahead of
   the statement, so the change is held and not applied; the next statement signs the rows as they are and names the leave as folded. Who
   left stays listed.

`PROJECT.json` quotes the comment or document each of these contradicts.

Observations met while modelling, for which no run is kept:

- A crash in Reset chats locks the pair out (`Application.cpp:491`): the kept sessions are in memory only between the deletion and the put-back. A device
  that lost them starts at epoch 1, and a peer at a later epoch ignores its openers. PairSession's reset is one step.
- Clearing an empty chat again lowers the floor to 0 (`SqliteThreadStore.cpp:1022`), and what the earlier clear removed is taken again.
  PeerStream clears only a chat that holds messages.
- The outbox is in memory only, and after a restart nothing sends its records again (`ReconcileOutbox` does not): the rows stay pending, where
  `projects/chat-storage-and-memory/DECISIONS.md:172` (D017) asks that a restart not drop unsent messages. `lost` excludes them from `PendingSettles`.
- A group message whose members' copies all fail stays pending (`ApplyGroupMemberOutcome`, `MeshDeliveryOrchestrator.cpp:1957-1963`), where line 475 of the same file
  describes a failed state.
- A cancel does not reach a record that is in a worker's hands or in a running retry's batch: it may still go out, once
  (`StoppedIsGone` speaks of what the cancel found waiting).
- Two devices of an account that accept within one another's notice (`call_answered_elsewhere`) both stay joined, and a sibling's decline after an accept
  ends the caller's call without a word to the device that answered (`CallSessionWorkflow.cpp:1645-1690`), where `projects/multi-device-account/PHASES.md:165` has the first answer win. `EndsMeet` therefore
  speaks of calls that one device answered.
- An answered notice that outruns its invite leaves a sibling ringing for a call that may be over until the invite expires; an accept for an ended call
  gets no reply.
- An invite that expires between the sweep (`AcceptInvite`) and `LoadAcceptableInvite` leaves the `LiveCall` ringing with an expired invite, which no
  sweep looks for. A later call between the same two can then be swallowed on both sides until their timeouts.
- A failed accept has left the other call all the same (`CallSessionWorkflow.cpp:429-465`).
- The second of two holes in a stream is forgotten (`E2eIngestClassifier.cpp:55`): filling the first one ends the gap phase, where
  `projects/chat-storage-and-memory/DESIGN.md:926` calls any stream with a missing number below a received one a gap to repair.
- The peer of a new secure chat cannot read it (`IPeerSessionStore.cpp:30`): the key is the same, but it is looked up by an epoch the peer does not know, so it
  cannot decrypt the message that would make it adopt the epoch, as `DECISIONS.md:1060` and `DESIGN.md:1165` of the same project describe.
- What a group's fold keeps depends on what has arrived (`projects/group-chat/DECISIONS.md:244` gives R1 to R3 for a set of changes). If the owner folds an admin's remove that
  keeps the removed member's add before that add arrives, the add is void later and the newcomer dropped; a leave that arrives after a re-add was folded takes the leaver
  off though the re-add stands; a leave that names two adds and is folded before the second one arrives lets that one bring the leaver back.
- An owner with two devices can sign two statements for one epoch: `OneStatementAnEpoch` is of one device.
- The comment "the change ids form no cycle" (`GroupRosterRules.cpp:226`) is true of the ids; the recursion runs over accounts, which may form one once roles are swapped.
- A private chat's stream starts at whatever arrives first, and what was sent before it then counts as out of order and compromises the chat
  (`E2eIngestClassifier.cpp:153` and `166`), where `projects/chat-storage-and-memory/DECISIONS.md:202` wants no false alarm from a benign reorder.
- A call that lost to an earlier one is swallowed for good (`CallSessionWorkflow.cpp:1248`, `1310`). If that earlier call was ignored as too old at the other end and its caller
  then places a third one, the third loses to the swallowed call there, and both sides call until their timeouts. `EndsMeet` leaves this case (`Beating`) out; an earlier
  form of it did not, and was found false with three calls while its proof was prepared.
- A remove that an admin signed, and that later a keeper's remove of that admin names as kept, counts outright (`RemoveKept`, `GroupRosterRules.cpp:255-265`,
  `336-349`) though its signer may by then be a plain member of the owner's statement, where `projects/group-chat/DESIGN.md:506` lets only the owner and admins of the
  statement remove. Example: admin A removes M, and only admin B hears of it; the owner removes A and invites A back as a member; B's remove of A keeps A's. M goes.
- `MediaDeviceArbiter::Release` takes the device from the holders before it posts the close (`MediaDeviceArbiter.cpp:402`, `405`): another thread may hold it and post its
  open in between, and two endpoints of an exclusive kind are open for a moment, where the comment at 389 has the close ahead of the next open.
- Two rotations of a public chat's account-level session that cross and are both committed give two keys for one epoch (`PublicPskLockCoordinator.cpp`), and a commit purges the
  retry queue that may hold its own notice (`MeshDeliveryOrchestrator.cpp:1144-1147`). Not modelled; the hazard is listed.
- A newcomer that waits for its bundle and catches up from a member whose statement does not list it yet marks itself removed (`GroupRosterSync.cpp:1033-1039`), and so does
  a member that took an admin's remove which proves void later: both stay listed.

## 11. Proofs

The proof modules are checked by `tlapm` (SMT, Zenon, LS4) without unproved leaves. They assume only
`PairSessionAssumption` (two different devices, ids and bounds are naturals, ids positive),
`PeerStreamAssumption` (bounds and window size are naturals, at least one epoch and one seq) and
`PskRotationAssumption` (bounds and the limit on retired keys are naturals, at least one epoch),
`OutboxAssumption` (who sends which record; at least one attempt), `CallAssumption` (who owns which device and places which call, to whom; nobody calls
the own account), `RosterAssumption` (the owner is a start member, its admins are others; bounds, lag and limit are naturals), `MediaAssumption` (two lanes,
what a setup is) and `SpareAssumption` (the ids an exchange may use are not those of `Session`).

**PairSessionProofs**: `TypeCorrect`, `NumbersUnique` (`NeverRewinds`), `NoEpochRollback` (`EpochsOnlyGrow`), from `Invariance`;
`NoPairLockedOut` (`NoLockout`) and `PairConverges` (`ExchangeConverges`), from stronger invariants. `NeverRewinds` is not inductive: it says nothing of the number a row will give next. `Inv` adds

- `NumbersAhead(d)`: no message of d lies in an epoch after its row's, and none of the row's epoch at or
  past its next number, *unless the row is marked to restart*, when its number is void. The exception is
  what a reset needs, and sending first runs the restart, which moves on to an epoch with no messages;
- `RowOK`: a row without a PSK was never written, and an epoch is retired only by moving past it. Without
  it, adopting an opener could take the row back (as it does in `RestartCrashSpec`, where the first half fails).

There is one lemma per session rule (what Save, Retire, Restart, Ensure, Adopt, Reconcile make of a good row), one per
action, and `NextInv` combines them.

`NoLockout` needs the history of openers. In one epoch there are at most two, one of each device; a device adopts the peer's only if it has none of its own
or the peer's id is lower; and a device stops attaching its opener only on a message under that session. So if the device that stopped has the lower of the two, the other one has seen it
and gave way. The stale-opener test (by the time the peer was last heard) keeps an opener from before a reset out. The invariant is stated over
arbitrary rows and mail (operators of a pair and a mailbox), because a send is two steps, Ensure and seal, and both keep it.

`ExchangeConverges` is shown by following the four turns from any pair of rows that the invariant allows, with `HeardFits` (nobody heard the peer later
than the peer's clock says), which makes each message of the exchange newer than all before. After the first turn the peer is in a later epoch, in the writer's session, or
has a lower own one; the second brings both to one session (`Meets`), and the third and fourth confirm it at each side (`Took`).

**PeerStreamProofs**: `TypeCorrect`, `NoResurrection` (`ClearedStaysCleared`), `TailHasNoHoles`
(`ContiguousHasNoHoles`), `NothingFillableIsClosed` (`ClosedIsCleared`), `PublicTakesAll`
(`PublicLosesNothing`), `NoReopening` (`LatchHolds`), for every window size and number of messages.
`Inv` is `ChatOK /\ AskOK`:

- `FloorParts`: in a private chat everything stored is above the floor and everything cleared is at or below it, which is
  what `Classify`'s first test turns into `ClearedStaysCleared`; `NoLaterEpoch` starts this afresh in a new epoch;
- `TailKnown`, the property about the tail, and `WindowKnown`: what the window holds was stored, and what it has passed
  beyond the tail was stored, cleared or is below the floor. It is needed because a clear resets the saved state and *keeps* the window:
  the tail may later jump over what the window passed, and this is harmless only because that is below the new floor;
- `Anchored`: the loaded bounds of a private chat are stored messages or below the floor, so that a gap repair really asks for a hole;
- `AskOK`: while a request with an upper end is in flight, there is a stored message right after the range, or the range is
  below the floor. So an empty answer passes the guard of `ClosesGap` only in the second case: this is `ClosedIsCleared`;
- `PublicOpen`: a public chat has no floor and is never compromised, which `PublicLosesNothing` rests on.

The argument has four layers: what the window operations and state updates return (`ThroughWindow` to `GapState`; the `Max` they use is
characterised by `MaxOfBounded`, from well-foundedness of `<`); `ClassifyOutcome`, which reduces all
branches of the classifier to "refused, nothing of the tail moved" or "taken, and the tail passes only what is known";
one lemma per kind of step (`TakeKeeps`, `SameEpochKeeps`, `FreshEpochKeeps`, `ClearKeeps`, `PauseKeeps`, `FinishKeeps`,
`AskKeeps`); and `NextInv`.

**PskRotationProofs**: `TypeCorrect`, `NumbersAreFresh` (`NextIsUnused`), `NoKeyAhead` (`NoLaterKey`), `ExportsAreValid`
(`BundlesAreValid`), `VerificationIsOfTheKey` (`NewKeyIsUnverified`), `NoKeyIsLost` (`RotationKeepsTail`), for any set of devices. `Inv` adds

- `LedgerOK(r)`: the retired keys are of epochs before the row's, one for each, and there are none without a key. The first
  part gives `NoLaterKey`; the second is what lets a ledger be counted; the third covers a key that is generated;
- `SentBefore(m, r)`: the last message lies before the row's next number, or in an earlier epoch. A change of epoch
  may reset the numbering because it enters an epoch past everything sent; cut off before the reset, it is just as good.

The ledger lemmas come first: `LedgerSize` counts the entries between two epochs by an injection into the interval, `CapIsCapped` bounds what
the cap keeps by ordering it by the number of later entries, `CapKeepsTail` shows that it drops nothing of the last epochs. Then what
import, rotation and adopt make of a good row, one lemma per action, and `NextInv`.

**OutboxProofs**: `TypeCorrect`, `HeldOnce` (`OneHolder`), `StoppedForGood` (`StoppedIsGone`), `DeliveredIsTaken` (`NoFalseDelivered`) and
`PromiseKept`: the initial states map to initial states of DeliveryPromise and every step to one of its steps or a stutter, for any
number of messages, records, batches and attempts. `Inv` adds to the properties

- `Shape`: a batch that is idle holds nothing, one at a send has a record in hand. It says where a record can be at each point of `Retry`;
- `Composed`: only records of composed messages are anywhere, so that *new* records are not held;
- `ReportsTrue`: an outcome on its way that says delivered is of a record a transport confirmed; the row can then be trusted;
- `SentOK`: a record in its first send was never sent by the relay, and a record that is held at most as often as its attempts. This gives the bound of `MaxSends`.

Each action has three lemmas: for the places (`OneHolder`, `StoppedIsGone`), for the rows and reports, and for the mapped step.

**CallSessionProofs**: `TypeCorrect`, `InOneCall` (`OneActiveCall`), `ShowsWhatIsStored` (`LiveMatchesStore`), `NeverReopens` (`EndedIsFinal`) and
`TwoEndsAgree` (`EndsMeet`), for any accounts, devices, calls, faults and restarts. The first three properties together are inductive, and the argument is on single rows: each row function `Keeps` a row
(it agrees with the call shown; an ended call stays ended; no call becomes joined), so a handler that changes one row keeps the device in at most one
call. Two steps join a call, placing and answering; `LeaveOthersWell` shows that every other call of the device is left first, and `JoinWell` that this is enough. The same
lemmas give the action property.

`EndsMeet` speaks of a state where nothing is on its way, so its invariant has to say what each control on its way will do. `MeetInv` holds as long as
no control was lost, late or repeated:

- `CallFits`, per call, in four parts. `RowsFit`: the rows of the caller and of those called are of few forms. `WiresFit`: a control on its way says what its sender
  did. `Knows`: a caller that does more than ring has heard of someone who answered. `Paired`: of the caller and the one device that answered, each is in
  the call that the other is in, or a control that says otherwise is on its way.
- `AllOrdered`, per call: the invite is ahead of whatever else its sender says of the call.
- `Crosses`, per device: an invite that did not ring met a call of the device's own (of two that cross, one gives way in `ReceiveInvite`).

What a step does to a call is `CallerStep` or `CalleeStep`, which speak of the row and of what is sent alone. `CallKept` shows once that such a step keeps `CallFits`; a lemma for each
action (`...Moves`) shows that it takes such a step, or none, of every call. `MeetEnds` reads `EndsMeet` off the invariant when the queues are empty.

**GroupRosterProofs**: `FoldedStays` (`StaysFolded`), `StatementsGrow` (`OneStatementAnEpoch`), `CopiesAgree` (`NothingToAsk`), for any accounts, any
statements and changes, any lag and limit. `Inv` is `CopiesOK /\ StatementsOK /\ OwnerAhead /\ SentOK`:

- `CopiesOK`: a copy whose rows are of the statement it holds has what `View` makes of that statement and the copy's live changes (`Computed`);
- `StatementsOK`: each statement follows the one it was made on (`Follows`): its floor is no lower, and it names every folded change that the floor has not passed;
- `OwnerAhead`: the owner holds the latest statement, and its rows are at that epoch or later. So the epoch a draft chooses is new, between an add and its statement too;
- `SentOK`: bundles carry statements there are.

`FoldedStays`, `StatementsGrow` and `CopiesAgree` use `View` only as a function of the statement and the live changes (`SameLiveSameView`).
`TypeCorrect`, `OutBySay` (`GoesOutBySay`), `BackByKeepers` (`RemovedReturnsByKeepers`) and `FoldChangesNobody` (`FoldKeepsRoster`) need to know what it computes:

- **RosterViewProofs** shows it. The rounds of removes and adds are recursive functions. `RecursionExists` proves that such a function is defined everywhere, from
  functions on `0..n`, and every fact about all rounds is an induction stated of *sets* of naturals (`SetInduction`, from the well-foundedness of `<`), so that
  no theorem with an operator parameter is needed. `CountingIsBacked`: each remove that counts is stood behind. `RunAddsKeeps`: each account that the adds take in
  has an add that is signed, of one who may add, and not barred. `ViewFacts` puts these together; `FoldedView`: the statement of the fold, with what the fold
  leaves, has the same view, since the fold leaves only adds that wait.
- `RosterInv` adds to `Inv` that each statement follows from the one it was made on by changes that went out (`Passed`: who is gone left or is removed by a change stood behind, who is
  back was brought back by the owner or by one), and so do the owner's rows while they are ahead of its statement. `StoodBehind` is the least set closed under `Upheld`; it only grows with
  `signed` (`BackedGrows`), so what was true of a statement when it was made stays true.

**MediaDevicesProofs**: `TypeCorrect`, `OpenedInTurn` (`OpensInTurn`), for any requests, callers and policies. The inductive invariant has two parts beside types and
phases: `OpenFits`, an endpoint that is open is in its lease, in the hands of a release, or with a task; and `OrderFits`, a lane holds the tasks of a caller's
requests in their order. When a lane opens a device, what the same caller had open before would have its close in the same lane, ahead of the open.

**Only model-checked**: every safety and action property of the passing runs is proved. Liveness under fairness (`PendingSettles`, `CallsSettle`, `LetGoIsFree`, the last part of
`KeepsPromise`) is out of the prover's reach, as is `ENABLED`. The violation runs are TLC's alone.

## 12. What the models leave out

- **Cryptography**: sealing, signatures, key derivation. Envelopes are honest; what is checked is who holds which key.
- **Ingest as several steps.** Taking an envelope is one step of PeerStream, a crash inside it apart. In the code a clear on the UI thread, or
  a history ingest on another worker, may run between the read of the sync state and its write. These races are
  listed as hazards and are the next refinement of PeerStream.
- **A message the window accepted that is then not stored** (a failed insert): a hazard, not a step.
- **A retry of a private message across a change of epoch**: the change deletes what waits, and a send in flight is sealed already.
- **Several history requests at once**, batch limits, peer-first routing.
- **Clock steps backwards**: a device's timestamps never decrease.
- **Sibling devices of the own account** (except in CallSession), group messages themselves (their keys, numbers and fan-out), and what controls of other kinds than calls and rosters do once applied.
- **Convergence of a group's copies**: that members who keep talking end on one roster needs fair catch-ups over unbounded epochs, beyond TLC here; `NothingToAsk` is its safety part.
- Everything in the table "Not modelled" of section 1.

## 13. Plan

In order of weight in the system; each line is a module with its MC configuration and proofs.

1. `PairSession`: done, all its properties proved.
2. `PeerStream`: done, six properties proved. Open: a split ingest (read, classify, store, save) interleaved with
   `ClearMessages` and a history ingest.
3. `PskRotation`: done, six properties proved. Open: the device lock of a public chat, a variant with one more choice: of two
   crossing rotations the greater id wins on both sides.
4. `GroupRoster`: done, all its properties proved. Open: links, changes of role and preset, hand-over, dissolve, several devices of an account.
5. `Outbox` with `DeliveryPromise`: done, the safety part of the refinement proved. Open: group fan-out (`ApplyGroupMemberOutcome`) as a refinement of its own.
6. `CallSession`: done, all its safety properties proved. Open: group calls, media.
7. `MediaDevices`: done, its safety property proved.
8. Vault and PIN, payment promises, app lifecycle, attachment fetch, account locker, as far as their code has such behaviour.
