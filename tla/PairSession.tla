---------------------------- MODULE PairSession ----------------------------
(***************************************************************************)
(* The AutoKey session of one device pair on a public (e2e_public) chat:   *)
(* how two devices agree on a key, number their messages in it, and move   *)
(* to the pair's next epoch after one of them lost its numbering.          *)
(*                                                                         *)
(* Translated from                                                         *)
(*   capabilities/delivery/.../E2ePublicSessionLogic.cpp  (Ensure,         *)
(*     Reconcile, Restart),                                                *)
(*   IPeerSessionStore.cpp  (ResolveMasterPskForEpoch),                    *)
(*   SqlitePeerSessionStore.cpp  (SaveDeviceSession, AllocateSenderSeq),   *)
(*   OutboundMessage.cpp  (SealPairCopy),                                  *)
(*   E2eRelayPayloadCodec.cpp  (DecryptEnvelopePlaintext),                 *)
(*   RelayReceivePipeline.cpp  (the direct-envelope path),                 *)
(*   MeshDeliveryOrchestrator.cpp  (StartNextPairEpochIfRestored), and     *)
(*   Application.cpp  (ResetChatData).                                     *)
(*                                                                         *)
(* Simplifications.                                                        *)
(*  - A session is one natural number.  It stands for the master PSK, for  *)
(*    the key_init that opens it and for AutoKeySessionId(key_init), which *)
(*    are in one-to-one correspondence; ids are compared with <, as the    *)
(*    hex strings are, and a fresh session gets an arbitrary unused id.    *)
(*  - The mailbox is the set of all envelopes ever sent.  Any of them may  *)
(*    be delivered at any time, any number of times, or never: loss,       *)
(*    duplication and reordering need no actions of their own.             *)
(*  - Every envelope is honestly signed; contents are left out.            *)
(*  - MaxEpoch, MaxSent, MaxTime and MaxFaults only bound TLC's search.    *)
(***************************************************************************)
EXTENDS Naturals

CONSTANTS
  Alice, Bob,   \* the two devices
  Session,      \* ids of the sessions a device may open
  MaxEpoch,     \* bound: the last session_epoch
  MaxSent,      \* bound: envelopes a device sends
  MaxTime,      \* bound: the last timestamp
  MaxFaults     \* bound: chat resets and crashes, over both devices

ASSUME PairSessionAssumption ==
  /\ Alice # Bob
  /\ Session \subseteq Nat \ {0}
  /\ MaxEpoch \in Nat \ {0}
  /\ MaxSent \in Nat
  /\ MaxTime \in Nat
  /\ MaxFaults \in Nat

VARIABLES
  row,       \* row[d]: d's device_sessions row for the pair (PeerSessionRecord)
  mailbox,   \* every envelope ever sent
  stored,    \* stored[d]: the peer's messages in d's chat
  thread,    \* thread[d]: d has the direct chat (its row in the thread store)
  opened,    \* the sessions opened so far, by either device
  clock,     \* clock[d]: the timestamp of d's latest envelope
  sent,      \* sent[d]: how many messages d has sent (the next message_id)
  faults     \* how many chat resets and crashes there were

vars == <<row, mailbox, stored, thread, opened, clock, sent, faults>>

Device == {Alice, Bob}
Peer(d) == IF d = Alice THEN Bob ELSE Alice

None == 0                    \* an empty std::optional: session or timestamp
Epoch == 1..MaxEpoch
Optional(S) == S \cup {None}

(***************************************************************************)
(* PeerSessionRecord.  saved: the row exists.  init: key_init is pending   *)
(* (we opened the session and have not heard the peer under it).  heard:   *)
(* auto_key_peer_heard_ms.  seq: next_outgoing_seq.  retired: the first    *)
(* retired PSK of each epoch, which is the one a lookup finds.             *)
(***************************************************************************)
Row == [saved   : BOOLEAN,
        epoch   : Epoch,
        psk     : Optional(Session),
        init    : BOOLEAN,
        heard   : Nat,
        restart : BOOLEAN,
        seq     : Nat \ {0},
        retired : [Epoch -> Optional(Session)]]

NoRow == [saved   |-> FALSE,
          epoch   |-> 1,
          psk     |-> None,
          init    |-> FALSE,
          heard   |-> None,
          restart |-> FALSE,
          seq     |-> 1,
          retired |-> [e \in Epoch |-> None]]

\* id tells messages apart; init: the envelope carries the key_init of psk.
Envelope == [from  : Device,
             id    : Nat,
             epoch : Epoch,
             seq   : Nat \ {0},
             psk   : Session,
             init  : BOOLEAN,
             ts    : Nat]

-----------------------------------------------------------------------------
(***************************************************************************)
(* The session rules, as functions of a row.                               *)
(***************************************************************************)

\* ResolveMasterPskForEpoch: the current PSK, else the one retired at e.
Resolve(r, e) ==
  IF e = r.epoch /\ r.psk # None THEN r.psk ELSE r.retired[e]

\* retired_psks.push_back; a lookup still finds an older entry of that epoch.
Retire(r, e) ==
  [r EXCEPT !.retired[e] = IF @ = None THEN r.psk ELSE @]

\* Mutant: numbering starts at 0, which the receiver's classifier refuses.
SaveFromZero(old, new) ==
  [new EXCEPT !.saved = TRUE,
              !.seq = IF new.epoch = old.epoch THEN old.seq ELSE 0]

\* SaveDeviceSession of `new` over `old`: another epoch numbers from 1.
Save(old, new) ==
  [new EXCEPT !.saved = TRUE,
              !.seq = IF new.epoch = old.epoch THEN old.seq ELSE 1]

\* RestartE2ePublicSession: the next epoch, with no session in it yet.
Restart(r) ==
  LET kept == IF r.psk # None THEN Retire(r, r.epoch) ELSE r
  IN  Save(r, [kept EXCEPT !.epoch = r.epoch + 1,
                           !.psk = None,
                           !.init = FALSE,
                           !.heard = None,
                           !.restart = FALSE])

\* StartNextPairEpochIfRestored, which every send runs first.
RestartIfRestored(r) == IF r.saved /\ r.restart THEN Restart(r) ELSE r

\* The sessions EnsureE2ePublicMasterPsk may settle on: the stored one, else a fresh one.
SendSessions(r) ==
  IF Resolve(r, r.epoch) # None THEN {Resolve(r, r.epoch)} ELSE Session \ opened

\* EnsureE2ePublicMasterPsk, s being the session it opens if none is stored.
Ensure(r, s) ==
  IF Resolve(r, r.epoch) # None
    THEN r
    ELSE Save(r, [r EXCEPT !.psk = s, !.init = TRUE])

\* DecryptEnvelopePlaintext: the stored PSK first, then the one key_init opens.
ReadsStored(r, m)  == Resolve(r, m.epoch) = m.psk
ReadsKeyInit(r, m) == ~ReadsStored(r, m) /\ m.init
Readable(r, m)     == ReadsStored(r, m) \/ ReadsKeyInit(r, m)

\* note_heard of ReconcileE2ePublicSession.
NoteHeard(r, ts) == [r EXCEPT !.heard = IF ts > @ THEN ts ELSE @]

\* The session of m's key_init becomes ours, at m's epoch.
Adopt(r, m) ==
  Save(r, [r EXCEPT !.epoch = m.epoch,
                    !.psk = m.psk,
                    !.init = FALSE,
                    !.heard = m.ts])

\* Mutant: each side insists on its own session.
OursAlwaysWins(r, m) == r.psk # None /\ r.init

\* Both opened at once, ours unconfirmed and lower: the peer moves to ours.
WinsTie(r, m) == r.psk # None /\ r.init /\ r.psk < m.psk

\* Mutant: an opener signed in the same millisecond counts as newer.
IsEarlierOpener(r, m) == r.psk # None /\ r.heard # None /\ m.ts < r.heard

\* The peer wrote under our session no earlier than it signed this opener.
IsStaleOpener(r, m) == r.psk # None /\ r.heard # None /\ m.ts <= r.heard

\* Mutant: a key_init is adopted whatever epoch it opens.
AdoptAnyOpener(r, m) == IF ReadsKeyInit(r, m) THEN Adopt(r, m) ELSE NoteHeard(r, m.ts)

\* ReconcileE2ePublicSession, for an envelope m that r reads.
Reconcile(r, m) ==
  IF r.psk # None /\ r.epoch > m.epoch THEN r
  ELSE IF r.psk # None /\ r.epoch < m.epoch
    THEN IF ReadsKeyInit(r, m) THEN Adopt(Retire(r, r.epoch), m) ELSE r
  ELSE IF ReadsStored(r, m) THEN Save(r, [NoteHeard(r, m.ts) EXCEPT !.init = FALSE])
  ELSE IF r.psk = m.psk THEN NoteHeard(r, m.ts)
  ELSE IF WinsTie(r, m) \/ IsStaleOpener(r, m) THEN r
  ELSE Adopt(r, m)

-----------------------------------------------------------------------------
(***************************************************************************)
(* The actions.                                                            *)
(***************************************************************************)

Init ==
  /\ row = [d \in Device |-> NoRow]
  /\ mailbox = {}
  /\ stored = [d \in Device |-> {}]
  /\ thread = [d \in Device |-> FALSE]
  /\ opened = {}
  /\ clock = [d \in Device |-> 0]
  /\ sent = [d \in Device |-> 0]
  /\ faults = 0

\* SealPairCopy: the envelope d seals from a row that holds a session.
Sealed(d, r, ts) ==
  [from  |-> d,
   id    |-> sent[d] + 1,
   epoch |-> r.epoch,
   seq   |-> r.seq,
   psk   |-> Resolve(r, r.epoch),
   init  |-> r.init,
   ts    |-> ts]

\* A restart has an epoch left to go to (bound).
HasNextEpoch(d) == row[d].restart => row[d].epoch < MaxEpoch

\* The user writes: restart if restored, then the session, then our number in it.
Send(d) ==
  /\ sent[d] < MaxSent
  /\ HasNextEpoch(d)
  /\ LET restarted == RestartIfRestored(row[d])
     IN  \E s \in SendSessions(restarted), ts \in {clock[d], clock[d] + 1} :
           LET ready == Ensure(restarted, s)
           IN  /\ ts \in 1..MaxTime
               /\ row' = [row EXCEPT ![d] = [ready EXCEPT !.seq = @ + 1]]
               /\ mailbox' = mailbox \cup {Sealed(d, ready, ts)}
               /\ opened' = opened \cup {s}
               /\ clock' = [clock EXCEPT ![d] = ts]
  /\ sent' = [sent EXCEPT ![d] = @ + 1]
  /\ thread' = [thread EXCEPT ![d] = TRUE]
  /\ UNCHANGED <<stored, faults>>

\* A chat reset or a crash is spent (bound).
Fault == faults < MaxFaults /\ faults' = faults + 1

\* The app dies in a send, once the session is saved: before or after the
\* number is allocated, but with nothing sealed under it.
DieInSend(d) ==
  /\ Fault
  /\ HasNextEpoch(d)
  /\ LET restarted == RestartIfRestored(row[d])
     IN  \E s \in SendSessions(restarted), used \in {0, 1} :
           LET ready == Ensure(restarted, s)
           IN  /\ row' = [row EXCEPT ![d] = [ready EXCEPT !.seq = @ + used]]
               /\ opened' = opened \cup {s}
  /\ thread' = [thread EXCEPT ![d] = TRUE]
  /\ UNCHANGED <<mailbox, stored, clock, sent>>

\* The app dies in a send, between the restart's save and the session's.
DieInRestart(d) ==
  /\ Fault
  /\ row[d].saved /\ row[d].restart
  /\ HasNextEpoch(d)
  /\ row' = [row EXCEPT ![d] = Restart(@)]
  /\ thread' = [thread EXCEPT ![d] = TRUE]
  /\ UNCHANGED <<mailbox, stored, opened, clock, sent>>

\* HasMessageId: a message this chat already holds is dropped before it is read.
IsDuplicate(d, m) == thread[d] /\ \E k \in stored[d] : k.id = m.id

\* The epoch the pair had before this envelope was reconciled is past m's: "from a retired epoch".
FromRetiredEpoch(d, m) == thread[d] /\ row[d].saved /\ m.epoch < row[d].epoch

\* Another message holds m's number: the first one is kept.
SeqTaken(d, m) ==
  thread[d] /\ \E k \in stored[d] : k.epoch = m.epoch /\ k.seq = m.seq /\ k.id # m.id

Kept(d, m) == ~FromRetiredEpoch(d, m) /\ ~SeqTaken(d, m)

(***************************************************************************)
(* d takes an envelope of its peer: read it, reconcile the session, then   *)
(* store the message unless its epoch is retired or its number is taken.   *)
(* With no chat one is created first, and the pair's epoch is the          *)
(* envelope's own.  What cannot be read leaves no trace.                   *)
(***************************************************************************)
Read(d, m) ==
  /\ m.from = Peer(d)
  /\ ~IsDuplicate(d, m)
  /\ Readable(row[d], m)
  /\ row' = [row EXCEPT ![d] = Reconcile(@, m)]

Receive(d) ==
  \E m \in mailbox :
    /\ Read(d, m)
    /\ stored' = [stored EXCEPT ![d] = IF Kept(d, m) THEN @ \cup {m} ELSE @]
    /\ thread' = [thread EXCEPT ![d] = TRUE]
    /\ UNCHANGED <<mailbox, opened, clock, sent, faults>>

\* The app dies once the session is saved: the chat may be new, the message is not in it.
DieInReceive(d) ==
  /\ Fault
  /\ \E m \in mailbox : Read(d, m)
  /\ \E created \in {thread[d], TRUE} : thread' = [thread EXCEPT ![d] = created]
  /\ UNCHANGED <<mailbox, stored, opened, clock, sent>>

\* Mutant: the sessions come back without the mark.
PutBackUnmarked(r) == IF r.psk # None THEN [r EXCEPT !.seq = 1] ELSE NoRow

(***************************************************************************)
(* Reset chats deletes the chats and the sessions' database, then puts the *)
(* public sessions that have a PSK back, marked restart_pending.  A crash  *)
(* in between (they are only in memory then) loses them.                   *)
(***************************************************************************)
PutBack(r) == IF r.psk # None THEN [r EXCEPT !.restart = TRUE, !.seq = 1] ELSE NoRow

ClearChats(d) ==
  /\ Fault
  /\ stored' = [stored EXCEPT ![d] = {}]
  /\ thread' = [thread EXCEPT ![d] = FALSE]
  /\ UNCHANGED <<mailbox, opened, clock, sent>>

ResetChats(d) ==
  /\ ClearChats(d)
  /\ row' = [row EXCEPT ![d] = PutBack(@)]

Next ==
  \E d \in Device :
    Send(d) \/ DieInSend(d) \/ Receive(d) \/ DieInReceive(d) \/ ResetChats(d)

Spec == Init /\ [][Next]_vars

(***************************************************************************)
(* The same, with a crash where what is on disk does not yet say that this *)
(* device numbers anew.                                                    *)
(***************************************************************************)
RestartCrashSpec == Init /\ [][Next \/ \E d \in Device : DieInRestart(d)]_vars

-----------------------------------------------------------------------------
(***************************************************************************)
(* Properties.                                                             *)
(***************************************************************************)

\* The shape of every variable.
TypeOK ==
  /\ row \in [Device -> Row]
  /\ mailbox \subseteq Envelope
  /\ stored \in [Device -> SUBSET Envelope]
  /\ thread \in [Device -> BOOLEAN]
  /\ opened \subseteq Session
  /\ clock \in [Device -> Nat]
  /\ sent \in [Device -> Nat]
  /\ faults \in Nat

\* A device never gives two messages of the pair the same (epoch, sender_seq):
\* a chat reset starts the next epoch instead of rewinding in this one, so
\* what the peer already holds never hides a new message.
NeverRewinds ==
  \A m, k \in mailbox :
    m.from = k.from /\ m.epoch = k.epoch /\ m.seq = k.seq => m = k

\* What d's next envelope is sealed under if it needs no key_init to be read.
IsSettled(r) == r.saved /\ r.psk # None /\ ~r.init /\ ~r.restart

\* No lost, late, duplicated or crossing envelope locks the pair out: once a
\* device stops attaching key_init, its peer holds that very session, as the
\* current or the retired one of that epoch.
NoLockout ==
  \A d \in Device :
    IsSettled(row[d]) => Resolve(row[Peer(d)], row[d].epoch) = row[d].psk

\* Reset chats and adopting the peer's session never move a pair backwards:
\* the epoch a device sends in only grows.
EpochsOnlyGrow ==
  [][\A d \in Device : row[d].epoch <= row'[d].epoch]_vars
=============================================================================
