----------------------------- MODULE PeerStream -----------------------------
(***************************************************************************)
(* The receiving side of a direct E2E chat: what a device makes of the     *)
(* numbered messages of one peer (or, on a public chat, of one of the      *)
(* peer's devices), which arrive over several paths in any order, and how  *)
(* history requests, a cleared chat, a new epoch and a restart of the app  *)
(* change what it takes.                                                   *)
(*                                                                         *)
(* Translated from                                                         *)
(*   E2eIngestClassifier.cpp  (Classify),                                  *)
(*   RelayReceivePipeline.cpp  (the persist step of a direct envelope),    *)
(*   ChatSyncLogic.cpp and ChatSyncWorkflow.cpp  (history requests),       *)
(*   SqliteThreadStore.cpp  (ClearMessages, a new secure chat), and        *)
(*   EpochBumpCoordinator.cpp.                                             *)
(*                                                                         *)
(* Simplifications.                                                        *)
(*  - The peer numbers its messages once (PairSession!NeverRewinds), so    *)
(*    <<epoch, sender_seq>> stands for the message id too, and any of them *)
(*    may arrive at any time, again, or never.                             *)
(*  - Taking one envelope is one step.                                     *)
(*  - A private chat cannot decrypt a message of a later epoch than its    *)
(*    own (PskRotation!NoLaterKey): it gets there by a new secure chat of  *)
(*    its own.  The other way, an installed key, is PskRotation's.         *)
(*  - History requests concern the private channel: a public chat's ask    *)
(*    for rows that name no device, of which a device's stream has none.   *)
(*    One request is in flight at a time.                                  *)
(*  - ReplayWindow is the crypto library's: modelled from its uses here.   *)
(*  - MaxEpoch and MaxSeq bound what the peer sends, MaxFaults the app's   *)
(*    restarts and the user's clears.                                      *)
(***************************************************************************)
EXTENDS Naturals, FiniteSetsExt

CONSTANTS
  MaxEpoch,    \* bound: the last session_epoch
  MaxSeq,      \* bound: the last sender_seq of an epoch
  Window,      \* kReplayWindowSize: how far past the contiguous tail the window reaches
  MaxFaults    \* bound: restarts and clears

ASSUME PeerStreamAssumption ==
  /\ MaxEpoch \in Nat \ {0}
  /\ MaxSeq \in Nat \ {0}
  /\ Window \in Nat
  /\ MaxFaults \in Nat

VARIABLES
  channel,   \* "private" (strict) or "public" (relaxed); never changes
  epoch,     \* the chat's session_epoch (private), the device pair's (public)
  st,        \* the saved PeerSyncState of that epoch
  win,       \* its ReplayWindow: memory only
  rows,      \* the peer's messages in the chat, as <<epoch, seq>>
  cleared,   \* the peer's messages a clear has deleted
  base,      \* the seq the contiguous tail starts at, 0 with no tail
  sync,      \* the history request in flight
  faults     \* restarts and clears so far

vars == <<channel, epoch, st, win, rows, cleared, base, sync, faults>>

Epoch == 1..MaxEpoch
Seq   == 1..MaxSeq
NoSeq == 0                            \* an unset seq: 0 or an empty optional
Strict == channel = "private"

PeerSyncState == [contig : Seq \cup {NoSeq},    \* contiguous_peer_seq
                  min    : Seq \cup {NoSeq},    \* loaded_min_seq
                  max    : Seq \cup {NoSeq},    \* loaded_max_seq
                  floor  : Seq \cup {NoSeq},    \* history_floor_seq
                  phase  : {"ok", "gap", "compromised"},
                  closed : SUBSET Seq]          \* empty_closed_seqs

DefaultPeerSyncState == [contig |-> NoSeq, min |-> NoSeq, max |-> NoSeq,
                         floor |-> NoSeq, phase |-> "ok", closed |-> {}]

\* ChatHistoryRequest: its seq range (NoSeq: open); older: it was found to be
\* an authorized older backfill; got: something of its answer was stored.
Request == [stage : {"asked", "answered"}, epoch : Epoch,
            min : Nat, max : Seq \cup {NoSeq},
            older : BOOLEAN, got : BOOLEAN]
NoRequest == [stage |-> "idle"]

-----------------------------------------------------------------------------
(***************************************************************************)
(* ReplayWindow: last is LastContiguous, held what came after a hole.      *)
(***************************************************************************)
ReplayWindow == [last : Seq \cup {NoSeq}, held : SUBSET Seq]

EmptyWindow == [last |-> NoSeq, held |-> {}]

\* The window after its contiguous part ran through what it holds.
Through(w) ==
  LET reach == Max({n \in {w.last} \cup w.held : (w.last + 1)..n \subseteq w.held})
  IN  [last |-> reach, held |-> {h \in w.held : h > reach}]

CatchUpTo(w, seq) == IF seq > w.last THEN Through([w EXCEPT !.last = seq]) ELSE w

Accepts(w, seq) == seq \in (w.last + 1)..(w.last + Window) \ w.held
Accept(w, seq)  == IF Accepts(w, seq) THEN Through([w EXCEPT !.held = @ \cup {seq}]) ELSE w

-----------------------------------------------------------------------------
(***************************************************************************)
(* E2eIngestClassifier: the updates of a PeerSyncState.                    *)
(***************************************************************************)
Larger(a, b) == IF a < b THEN b ELSE a

\* ApplyBackfillMessage: seq is loaded.
ApplyBackfillMessage(s, seq) ==
  [s EXCEPT !.min = IF @ = NoSeq \/ seq < @ THEN seq ELSE @,
            !.max = Larger(@, seq)]

ApplyContiguousAdvance(s, seq) ==
  [ApplyBackfillMessage(s, seq) EXCEPT !.contig = Larger(@, seq)]

ApplyPersistedMessage(s, seq) ==
  LET advanced == ApplyContiguousAdvance(s, seq)
  IN  [advanced EXCEPT !.closed = @ \ {seq},
                       !.phase = IF @ = "gap" /\ seq = advanced.contig THEN "ok" ELSE @]

ApplyRelaxedPersist(s, seq) ==
  [ApplyContiguousAdvance(s, seq) EXCEPT
     !.closed = @ \ {seq},
     !.phase = IF @ = "compromised" THEN "ok" ELSE @]

\* The next message: the tail grows over it and over what had come after it.
ContiguousFill(s, w, seq) ==
  LET filled == ApplyPersistedMessage(s, seq)
      longer == ApplyContiguousAdvance(filled, w.last)
  IN  IF w.last <= filled.contig
        THEN filled
        ELSE [longer EXCEPT !.phase = IF @ = "gap" /\ longer.contig >= longer.max THEN "ok" ELSE @]

\* A message past a hole that the window takes.
WindowedGap(s, w, seq) ==
  LET gap == [ApplyBackfillMessage(s, seq) EXCEPT !.phase = "gap"]
  IN  IF w.last > gap.contig
        THEN [ApplyContiguousAdvance(gap, w.last) EXCEPT !.phase = "ok"]
        ELSE gap

\* What Classify decides: whether the message is stored, the state and the
\* window it leaves behind.
Outcome(keep, s, w) == [keep |-> keep, st |-> s, win |-> w]

\* Mutant: a compromised private chat goes on classifying.
NeverLatched(s) == FALSE

\* A private chat found compromised takes nothing more.
Latched(s) == s.phase = "compromised"

\* Mutant: the relaxed channel refuses too.
StrictOnly(s, w, relaxed) == Outcome(FALSE, [s EXCEPT !.phase = "compromised"], w)

\* Out of order: strict mode compromises the chat, the relaxed one goes on.
StrictElse(s, w, relaxed) ==
  IF Strict THEN Outcome(FALSE, [s EXCEPT !.phase = "compromised"], w) ELSE relaxed

\* Classify, for a message of the current epoch that the chat does not hold;
\* older: it answers an authorized older backfill.
Classify(seq, older) ==
  LET w == CatchUpTo(win, st.contig)
  IN  IF seq <= st.floor \/ Latched(st)
        THEN Outcome(FALSE, st, w)
      ELSE IF seq \in st.closed
        THEN Outcome(TRUE, ApplyPersistedMessage(st, seq), Accept(w, seq))
      ELSE IF seq < st.contig /\ older /\ (st.min = NoSeq \/ seq < st.min)
        THEN Outcome(TRUE, ApplyBackfillMessage(st, seq), w)
      ELSE IF seq < st.contig
        THEN StrictElse(st, w, Outcome(TRUE, ApplyRelaxedPersist(st, seq), w))
      ELSE IF st.contig = NoSeq /\ st.max = NoSeq
        THEN Outcome(TRUE, ApplyPersistedMessage(st, seq), Accept(w, seq))
      ELSE IF seq = st.contig + 1
        THEN Outcome(TRUE, ContiguousFill(st, Accept(w, seq), seq), Accept(w, seq))
      ELSE IF seq = 1
        THEN StrictElse(st, w, Outcome(TRUE, ApplyRelaxedPersist(st, seq), w))
      ELSE IF seq > st.contig + 1 /\ Accepts(w, seq)
        THEN Outcome(TRUE, WindowedGap(st, Accept(w, seq), seq), Accept(w, seq))
      ELSE IF seq > st.contig + 1
        THEN StrictElse(st, w,
               Outcome(TRUE, [ApplyBackfillMessage(st, seq) EXCEPT !.phase = "gap"], w))
      ELSE Outcome(FALSE, st, w)

\* AcceptEpochAdvance: the first message of a later epoch.
FirstOfEpoch(seq) ==
  Outcome(TRUE,
          [DefaultPeerSyncState EXCEPT !.contig = seq, !.min = seq, !.max = seq],
          Accept(EmptyWindow, seq))

-----------------------------------------------------------------------------
(***************************************************************************)
(* Taking messages.                                                        *)
(***************************************************************************)
Init ==
  /\ channel \in {"private", "public"}
  /\ epoch = 1
  /\ st = DefaultPeerSyncState
  /\ win = EmptyWindow
  /\ rows = {}
  /\ cleared = {}
  /\ base = NoSeq
  /\ sync = NoRequest
  /\ faults = 0

\* A private SoftCompromised still stores a message that applies out of order
\* (membership, call controls).
SoftCompromised(outcome, seq) ==
  ~outcome.keep /\ Strict /\ Latched(outcome.st) /\ seq > st.floor

\* A message of the current epoch, unless the chat holds it (HasMessageId).
Take(seq, older) ==
  LET outcome == Classify(seq, older)
  IN  /\ <<epoch, seq>> \notin rows
      /\ st' = outcome.st
      /\ win' = outcome.win
      /\ \E stored \in {outcome.keep, outcome.keep \/ SoftCompromised(outcome, seq)} :
           rows' = IF stored THEN rows \cup {<<epoch, seq>>} ELSE rows
      /\ base' = IF st.contig = NoSeq THEN outcome.st.contig ELSE base
      /\ UNCHANGED <<channel, epoch, cleared, faults>>

\* A message arrives over the relay or a direct link.
Receive(seq) == Take(seq, FALSE) /\ UNCHANGED sync

\* A public pair whose peer moved to a later epoch; from a retired one nothing
\* is taken.
ReceiveNewEpoch(e, seq) ==
  /\ ~Strict
  /\ e > epoch
  /\ epoch' = e
  /\ st' = FirstOfEpoch(seq).st
  /\ win' = FirstOfEpoch(seq).win
  /\ rows' = rows \cup {<<e, seq>>}
  /\ base' = seq
  /\ UNCHANGED <<channel, cleared, sync, faults>>

\* A restart of the app or a clear of the chat is spent (bound).
Fault == faults < MaxFaults /\ faults' = faults + 1

\* The app starts again: the windows and the request are gone.
Restarted == win' = EmptyWindow /\ sync' = NoRequest

\* The app dies after AppendMessage, before SetPeerSyncState.  A public pair's
\* epoch is its session's, saved before.
DieInReceive(e, seq) ==
  /\ Fault
  /\ <<e, seq>> \notin rows
  /\ IF e = epoch
       THEN Classify(seq, FALSE).keep /\ UNCHANGED <<st, base>>
       ELSE e > epoch /\ ~Strict /\ st' = DefaultPeerSyncState /\ base' = NoSeq
  /\ epoch' = e
  /\ rows' = rows \cup {<<e, seq>>}
  /\ Restarted
  /\ UNCHANGED <<channel, cleared>>

Restart ==
  /\ Fault
  /\ Restarted
  /\ UNCHANGED <<channel, epoch, st, rows, cleared, base>>

-----------------------------------------------------------------------------
(***************************************************************************)
(* History requests of a private chat.                                     *)
(***************************************************************************)

\* BoundHistoryRequest: never below the floor.
BoundHistoryRequest(min, max) ==
  [stage |-> "asked", epoch |-> epoch,
   min   |-> IF min = NoSeq /\ st.floor = NoSeq THEN NoSeq ELSE Larger(min, st.floor + 1),
   max   |-> max, older |-> FALSE, got |-> FALSE]

\* A compromised chat asks for nothing.
CanAsk == Strict /\ sync = NoRequest /\ ~Latched(st)

Ask(min, max) ==
  /\ sync' = BoundHistoryRequest(min, max)
  /\ UNCHANGED <<channel, epoch, st, win, rows, cleared, base, faults>>

\* TailSync: what comes after everything loaded.
TailSync == CanAsk /\ Ask(IF st.max = NoSeq THEN NoSeq ELSE st.max + 1, NoSeq)

\* The last seqs of the holes to ask for: the known gap's (RepairKnownGap),
\* or that before a message which came after a hole (MaybeRepairGap).
GapEnds ==
  {m \in Seq : st.phase = "gap" /\ m + 1 = st.max}
    \cup {m \in Seq : <<epoch, m + 1>> \in rows}

\* RepairGap, clamped to what is above the floor.
RepairGap ==
  /\ CanAsk
  /\ \E max \in GapEnds :
       /\ Larger(st.contig, st.floor) < max
       /\ Ask(st.contig + 1, max)

\* ScrollBackfill: what comes before everything loaded.
ScrollBackfill == CanAsk /\ st.min > st.floor + 1 /\ Ask(NoSeq, st.min - 1)

\* The answer is there.  An older backfill is still one if nothing older came meanwhile.
Answered ==
  /\ sync # NoRequest /\ sync.stage = "asked"
  /\ sync' = [sync EXCEPT !.stage = "answered",
                          !.older = sync.epoch = epoch /\ sync.max # NoSeq
                                      /\ st.min # NoSeq /\ sync.max < st.min]
  /\ UNCHANGED <<channel, epoch, st, win, rows, cleared, base, faults>>

InRange(seq) == sync.min <= seq /\ (sync.max = NoSeq \/ seq <= sync.max)

\* One of the messages in it; those of a retired epoch are refused.
TakeAnswered(seq) ==
  /\ sync # NoRequest /\ sync.stage = "answered" /\ sync.epoch = epoch
  /\ InRange(seq)
  /\ Take(seq, sync.older)
  /\ sync' = [sync EXCEPT !.got = @ \/ rows' # rows]

\* Mutant: an empty answer closes the range whatever is stored past it.
ClosesAnyGap(r) == TRUE

\* PassesEmptyGapGuard: nothing is stored past the range.
PassesEmptyGapGuard(r) == \A seq \in Seq : <<r.epoch, seq>> \in rows => seq <= r.max

\* An empty answer to a request with both ends, past which nothing is stored.
ClosesGap(r) == ~r.got /\ r.min # NoSeq /\ r.max # NoSeq /\ PassesEmptyGapGuard(r)

CloseEmptyGap(s, min, max) ==
  [s EXCEPT !.closed = @ \cup min..max,
            !.contig = Larger(@, max),
            !.phase = IF @ = "gap" THEN "ok" ELSE @]

\* Mutant: the tail jumps to what is loaded.
AdvanceToLoaded(s, held) ==
  [s EXCEPT !.contig = Larger(@, s.max), !.phase = IF @ = "gap" THEN "ok" ELSE @]

\* AdvanceContiguous: the tail grows over the seqs that are stored, up to loaded_max.
AdvanceContiguous(s, held) ==
  LET reach == Max({n \in {s.contig} \cup Seq :
                      n <= Larger(s.contig, s.max) /\ (s.contig + 1)..n \subseteq held})
  IN  [s EXCEPT !.contig = reach,
                !.phase = IF @ = "gap" /\ reach = s.max THEN "ok" ELSE @]

\* The end of IngestHistoryResponse.
FinishAnswer ==
  /\ sync # NoRequest /\ sync.stage = "answered"
  /\ IF sync.epoch = epoch /\ (sync.got \/ ClosesGap(sync))
       THEN LET closed == IF ClosesGap(sync) THEN CloseEmptyGap(st, sync.min, sync.max) ELSE st
            IN  /\ st' = AdvanceContiguous(closed, {seq \in Seq : <<epoch, seq>> \in rows})
                /\ base' = IF st.contig = NoSeq /\ ClosesGap(sync) THEN sync.min ELSE base
       ELSE UNCHANGED <<st, base>>
  /\ sync' = NoRequest
  /\ UNCHANGED <<channel, epoch, win, rows, cleared, faults>>

\* The peer and the relay give no answer.
Unanswered ==
  /\ sync # NoRequest /\ sync.stage = "asked"
  /\ sync' = NoRequest
  /\ UNCHANGED <<channel, epoch, st, win, rows, cleared, base, faults>>

-----------------------------------------------------------------------------
(***************************************************************************)
(* What the user does to the chat.                                         *)
(***************************************************************************)
StoredSeqs == {seq \in Seq : <<epoch, seq>> \in rows}

\* Mutant: the floor stops at the contiguous tail.
FloorAtTail == st.contig

\* Mutant: the floor is the first seq still taken.
FloorPastEnd == IF StoredSeqs = {} THEN NoSeq ELSE Max(StoredSeqs) + 1

\* The floor of a cleared chat: MAX(sender_seq) of its rows, else 0.
ClearedFloor == IF StoredSeqs = {} THEN NoSeq ELSE Max(StoredSeqs)

\* ClearMessages.  The sync state it resets is the account's: a public chat's
\* messages are numbered by device, and no device's state is touched.
Clear ==
  /\ Fault
  /\ st' = IF Strict THEN [DefaultPeerSyncState EXCEPT !.floor = ClearedFloor] ELSE st
  /\ base' = IF Strict THEN NoSeq ELSE base
  /\ cleared' = cleared \cup rows
  /\ rows' = {}
  /\ UNCHANGED <<channel, epoch, win, sync>>

\* The user clears a chat that holds something of the peer's in this epoch.  (A
\* clear of one that does not is left out: the floor it writes is 0, which takes
\* back what an earlier clear has promised.)
ClearMessages == StoredSeqs # {} /\ Clear

\* StartNewSecureChat: BumpLocalChatTargetEpoch.
StartNewSecureChat ==
  /\ Strict
  /\ epoch < MaxEpoch
  /\ epoch' = epoch + 1
  /\ st' = DefaultPeerSyncState
  /\ win' = EmptyWindow
  /\ base' = NoSeq
  /\ UNCHANGED <<channel, rows, cleared, sync, faults>>

\* PauseIntegrityOnly: the user freezes the chat.
PauseOnly ==
  /\ Strict
  /\ st' = [st EXCEPT !.phase = "compromised"]
  /\ UNCHANGED <<channel, epoch, win, rows, cleared, base, sync, faults>>

Next ==
  \/ \E seq \in Seq : Receive(seq) \/ TakeAnswered(seq)
  \/ \E e \in Epoch, seq \in Seq : ReceiveNewEpoch(e, seq) \/ DieInReceive(e, seq)
  \/ TailSync \/ RepairGap \/ ScrollBackfill
  \/ Answered \/ FinishAnswer \/ Unanswered
  \/ ClearMessages \/ StartNewSecureChat \/ PauseOnly \/ Restart

Spec == Init /\ [][Next]_vars

-----------------------------------------------------------------------------
(***************************************************************************)
(* Properties.                                                             *)
(***************************************************************************)

\* The shape of every variable.
TypeOK ==
  /\ channel \in {"private", "public"}
  /\ epoch \in Epoch
  /\ st \in PeerSyncState
  /\ win \in ReplayWindow
  /\ rows \subseteq Epoch \X Seq
  /\ cleared \subseteq Epoch \X Seq
  /\ base \in Seq \cup {NoSeq}
  /\ sync \in Request \cup {NoRequest}
  /\ faults \in Nat

\* A private chat's cleared message never comes back, over no path: not by a
\* late duplicate, a tail sync, a gap repair or a scroll back asked before or
\* after the clear, across restarts (the floor of ClearMessages).
ClearedStaysCleared == Strict => rows \cap cleared = {}

\* The contiguous tail has no holes: each seq from where it starts is stored,
\* was cleared, or was closed as empty, whatever mix of windowed gaps, fills,
\* backfills, empty answers and crashes moved it.  A message the tail has
\* passed would be refused for good.
ContiguousHasNoHoles ==
  st.contig # NoSeq =>
    \A seq \in base..st.contig :
      <<epoch, seq>> \in rows \cup cleared \/ seq \in st.closed \/ seq <= st.floor

\* A compromised private chat stays so until a new epoch or a clear: neither a
\* late fill, an answer on its way nor a restart reopens it.
LatchHolds ==
  [][Strict /\ st.phase = "compromised" =>
       st'.phase = "compromised" \/ epoch' # epoch \/ rows' = {}]_vars

\* An empty answer never closes a hole the peer may still fill (D067): at most
\* what a clear has put below the floor since it was asked for is closed.
ClosedIsCleared == \A seq \in st.closed : seq <= st.floor

\* A public chat takes every honest message it never had, however late,
\* reordered or far ahead it comes (D046).
PublicLosesNothing ==
  ~Strict =>
    \A seq \in Seq : <<epoch, seq>> \notin rows \cup cleared => Classify(seq, FALSE).keep
=============================================================================
