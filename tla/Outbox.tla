-------------------------------- MODULE Outbox --------------------------------
(***************************************************************************)
(* The outbox of one device: how the sealed records of a message reach the *)
(* peer, over a link or by the relay, and how the message's row comes to   *)
(* say so.                                                                 *)
(*                                                                         *)
(* Translated from                                                         *)
(*   DeliveryOutbox.cpp               (sends, retries, timers, cancels),   *)
(*   OutboundMessage.cpp              (whether and when to try again),     *)
(*   MeshDeliveryOrchestrator.cpp     (composing, the outcome of a send),  *)
(*   SqliteThreadStore.cpp            (the row),                            *)
(*   ConversationsFacade.cpp          (deleting a message).                *)
(*                                                                         *)
(* A worker's code between two waits is one action; the waits are for a    *)
(* worker, for the callback of a direct send, and for the relay, whose     *)
(* Send blocks.  Every worker lane has several threads.                    *)
(*                                                                         *)
(* Simplifications.                                                        *)
(*  - A thread holds the messages of one kind; the threads that are        *)
(*    purged are those of the kinds "direct" and "copies".                 *)
(*  - What is queued, or is in one batch, is a set: the order in which it  *)
(*    is tried is any.                                                     *)
(*  - The age of a record and the back-off delay are one fact: whether it  *)
(*    is now too late to try again (expired).                              *)
(*  - A control message's direct copy (#431) leaves no trace here.         *)
(*  - attempts counts no further than MaxAttempts, past which nothing      *)
(*    tells two counts apart.                                              *)
(*  - MaxFaults bounds the environment, Drains the retries that run at     *)
(*    once.                                                                *)
(***************************************************************************)
EXTENDS Naturals, FiniteSets

CONSTANTS
  Messages,
  Records,      \* the records they are sent as
  MessageOf,    \* whose record each is
  KindsOf,      \* the kinds each message may be of: one record only for some
  Drains,       \* bound: batches of retries that run at once
  MaxAttempts,  \* kMaxOutboxRetryAttempts
  MaxFaults,    \* bound: restarts, and times the relay client is taken away
  None          \* no record

Kinds == {"direct",   \* a chat message sent as one record
          "copies",   \* one sent as a record for each device, or one for several
          "group",    \* one sent as a record for each member
          "control"}  \* a control-lane message: no row

ASSUME OutboxAssumption ==
  /\ MessageOf \in [Records -> Messages]
  /\ KindsOf \in [Messages -> SUBSET Kinds]
  /\ MaxAttempts \in Nat \ {0}
  /\ MaxFaults \in Nat
  /\ None \notin Records

VARIABLES
  kind,      \* what each message is; "none" before it is composed
  row,       \* the delivery its row shows
  sending,   \* how far Send's work for a record is
  queue,     \* queue_
  timers,    \* control_retries_: records that wait for their timer
  fired,     \* records whose timer has fired, before their worker runs
  drains,    \* the batches Retry has taken from the queue
  attempts,  \* attempt_count
  reports,   \* outcomes on their way to the row
  paused,    \* the thread of the kind "direct" is compromised
  relay,     \* a relay client is set
  expired,   \* control records past kControlRetryWindowMs
  faults,    \* restarts and outages so far
  taken,     \* history: the records a transport has confirmed
  sent,      \* history: relay sends of each record
  stopped,   \* history: the records a cancel or a purge took out
  lost       \* history: the messages whose row was pending at a restart

work    == <<sending, queue, timers, fired, drains, attempts>>
rows    == <<kind, row, reports>>
world   == <<paused, relay, expired, faults>>
history == <<taken, sent, stopped, lost>>
vars    == <<work, rows, world, history>>

Idle == [at |-> "idle", todo |-> {}, cur |-> None, still |-> {}]

RecordsOf(m) == {r \in Records : MessageOf[r] = m}
KindOf(r) == kind[MessageOf[r]]
IsControl(r) == KindOf(r) = "control"

\* Where a record is held.
InSend(r)     == sending[r] # "none"
InDrain(d, r) == r \in drains[d].todo \cup drains[d].still \cup {drains[d].cur}
Held(r) == \/ InSend(r)
           \/ r \in queue \cup timers \cup fired
           \/ \E d \in Drains : InDrain(d, r)

-----------------------------------------------------------------------------
(***************************************************************************)
(* Whether to try again.                                                   *)
(***************************************************************************)

\* What the relay's Send comes to: taken, out of reach, or refused.
RelayAnswers == {"ok", "unreachable", "refused"}

\* Mutant: the cap is off by one.
RetryOnceMore(n, answer) == answer # "refused" /\ n <= MaxAttempts

OutboxRetryAgain(n, answer) == answer # "refused" /\ n < MaxAttempts

ControlRetryAfter(r, answer) == answer # "refused" /\ r \notin expired

OutboxSendStillWanted(r) ==
  IF IsControl(r) THEN r \notin expired ELSE ~(paused /\ KindOf(r) = "direct")

Count(n) == IF n < MaxAttempts THEN n + 1 ELSE n

-----------------------------------------------------------------------------
(***************************************************************************)
(* The outcome of a send and the row.                                      *)
(***************************************************************************)

\* Mutant: a copy's failure is nobody's, like a group member's.
ReportNoCopies(r, by, ok) ==
  IF IsControl(r) \/ (KindOf(r) \in {"group", "copies"} /\ ~ok) THEN {}
  ELSE {[rec |-> r, by |-> by, ok |-> ok, at |-> "mark"]}

\* Report: `by` tells the outcome of Send itself from that of a retry.  A
\* control message has no row; a group member's failure does not touch it; a
\* failed copy first looks whether the row is delivered.
Report(r, by, ok) ==
  IF IsControl(r) \/ (KindOf(r) = "group" /\ ~ok) THEN {}
  ELSE {[rec |-> r, by |-> by, ok |-> ok,
         at |-> IF KindOf(r) = "copies" /\ ~ok THEN "look" ELSE "mark"]}

\* MarkDelivery reads the row of a failed copy: a delivered one is left alone.
Look(p) ==
  /\ p.at = "look"
  /\ reports' = (reports \ {p}) \cup
       IF row[MessageOf[p.rec]] = "relayed" THEN {} ELSE {[p EXCEPT !.at = "mark"]}
  /\ UNCHANGED <<kind, row, work, world, history>>

\* Mutant: success and failure are mixed up.
OutcomeSwapped(ok) == IF ok THEN "failed" ELSE "relayed"

Outcome(ok) == IF ok THEN "relayed" ELSE "failed"

\* MarkDelivery writes it: a tombstone is final.
Mark(p) ==
  LET m == MessageOf[p.rec] IN
  /\ p.at = "mark"
  /\ reports' = reports \ {p}
  /\ row' = IF row[m] = "deleted" THEN row ELSE [row EXCEPT ![m] = Outcome(p.ok)]
  /\ UNCHANGED <<kind, work, world, history>>

-----------------------------------------------------------------------------
(***************************************************************************)
(* Sending.                                                                *)
(***************************************************************************)

\* A message is composed: its row is written and every record is handed over.
Compose(m, k) ==
  /\ kind[m] = "none"
  /\ k \in KindsOf[m]
  /\ k = "direct" => ~paused
  /\ kind' = [kind EXCEPT ![m] = k]
  /\ row' = IF k = "control" THEN row ELSE [row EXCEPT ![m] = "pending"]
  /\ sending' = [r \in Records |-> IF r \in RecordsOf(m) THEN "posted" ELSE sending[r]]
  /\ UNCHANGED <<queue, timers, fired, drains, attempts, reports, world, history>>

\* DirectSendTriesAmpFirst and finish_relay's first checks: the link, the relay,
\* or nothing.  A control message with a route goes by the relay.
SendDecides(r, reachable, routed) ==
  /\ sending[r] = "posted"
  /\ IF reachable /\ ~(IsControl(r) /\ routed)
     THEN /\ sending' = [sending EXCEPT ![r] = IF routed THEN "direct" ELSE "direct-only"]
          /\ UNCHANGED reports
     ELSE IF routed /\ relay
     THEN sending' = [sending EXCEPT ![r] = "relay"] /\ UNCHANGED reports
     ELSE /\ sending' = [sending EXCEPT ![r] = "none"]
          /\ reports' = reports \cup Report(r, "send", FALSE)
  /\ UNCHANGED <<queue, timers, fired, drains, attempts, kind, row, world, history>>

\* The callback of the direct send, on a worker: done, or the relay next.
DirectDone(r, ok) ==
  /\ sending[r] \in {"direct", "direct-only"}
  /\ LET toRelay == ~ok /\ sending[r] = "direct" /\ relay IN
     /\ sending' = [sending EXCEPT ![r] = IF toRelay THEN "relay" ELSE "none"]
     /\ reports' = reports \cup IF toRelay THEN {} ELSE Report(r, "send", ok)
  /\ taken' = IF ok THEN taken \cup {r} ELSE taken
  /\ UNCHANGED <<queue, timers, fired, drains, attempts, kind, row, world,
                 sent, stopped, lost>>

CountSend(r) == IF IsControl(r) THEN sent ELSE [sent EXCEPT ![r] = @ + 1]

\* The relay's answer to the first send.  What is to be tried again is queued
\* (or given a timer) before the failure is reported.
RelaySend(r, answer) ==
  LET again == IF IsControl(r) THEN ControlRetryAfter(r, answer)
               ELSE OutboxRetryAgain(1, answer)
  IN
  /\ sending[r] = "relay"
  /\ sending' = [sending EXCEPT ![r] = "none"]
  /\ sent' = CountSend(r)
  /\ IF answer = "ok"
     THEN /\ taken' = taken \cup {r}
          /\ UNCHANGED <<queue, timers, attempts>>
     ELSE /\ attempts' = [attempts EXCEPT ![r] = 1]
          /\ queue' = IF again /\ ~IsControl(r) THEN queue \cup {r} ELSE queue
          /\ timers' = IF again /\ IsControl(r) THEN timers \cup {r} ELSE timers
          /\ UNCHANGED taken
  /\ reports' = reports \cup Report(r, "send", answer = "ok")
  /\ UNCHANGED <<fired, drains, kind, row, world, stopped, lost>>

-----------------------------------------------------------------------------
(***************************************************************************)
(* The control lane's retries.                                             *)
(***************************************************************************)

\* The timer's task: it finds its entry, and posts the retry to a worker.
TimerFires(r) ==
  /\ r \in timers
  /\ timers' = timers \ {r}
  /\ fired' = fired \cup {r}
  /\ UNCHANGED <<sending, queue, drains, attempts, rows, world, history>>

RetryControlNow(r, answer) ==
  /\ r \in fired
  /\ fired' = fired \ {r}
  /\ IF ~relay
     THEN queue' = queue \cup {r} /\ UNCHANGED <<timers, attempts, taken>>
     ELSE IF answer = "ok"
     THEN taken' = taken \cup {r} /\ UNCHANGED <<queue, timers, attempts>>
     ELSE /\ attempts' = [attempts EXCEPT ![r] = Count(@)]
          /\ timers' = IF ControlRetryAfter(r, answer) THEN timers \cup {r} ELSE timers
          /\ UNCHANGED <<queue, taken>>
  /\ UNCHANGED <<sending, drains, rows, world, sent, stopped, lost>>

-----------------------------------------------------------------------------
(***************************************************************************)
(* Retry: a wake takes the whole queue as one batch, and works through it  *)
(* one record at a time.                                                   *)
(***************************************************************************)

\* Mutant: the batch is a copy of the queue.
WakeCopies(d) ==
  LET pending == {r \in queue : OutboxSendStillWanted(r)} IN
  /\ drains[d].at = "idle"
  /\ queue # {}
  /\ drains' = IF pending = {} THEN drains
               ELSE [drains EXCEPT ![d] = [Idle EXCEPT !.at = "posted", !.todo = pending]]
  /\ UNCHANGED <<sending, queue, timers, fired, attempts, rows, world, history>>

Wake(d) ==
  LET pending == {r \in queue : OutboxSendStillWanted(r)} IN
  /\ drains[d].at = "idle"
  /\ queue # {}
  /\ queue' = {}
  /\ drains' = IF pending = {} THEN drains
               ELSE [drains EXCEPT ![d] = [Idle EXCEPT !.at = "posted", !.todo = pending]]
  /\ UNCHANGED <<sending, timers, fired, attempts, rows, world, history>>

\* The worker starts on the batch; without a relay client it is put back.
DrainStarts(d) ==
  /\ drains[d].at = "posted"
  /\ IF relay
     THEN drains' = [drains EXCEPT ![d].at = "next"] /\ UNCHANGED queue
     ELSE drains' = [drains EXCEPT ![d] = Idle] /\ queue' = queue \cup drains[d].todo
  /\ UNCHANGED <<sending, timers, fired, attempts, rows, world, history>>

\* The next record of the batch: dropped if its thread is paused by now.
DrainPicks(d, r, reachable) ==
  /\ drains[d].at = "next"
  /\ r \in drains[d].todo
  /\ drains' = [drains EXCEPT ![d].todo = @ \ {r},
                              ![d].cur = IF paused /\ KindOf(r) = "direct" THEN None ELSE r,
                              ![d].at = IF paused /\ KindOf(r) = "direct" THEN "next"
                                        ELSE IF reachable THEN "direct" ELSE "relay"]
  /\ UNCHANGED <<sending, queue, timers, fired, attempts, rows, world, history>>

DrainEnds(d) ==
  /\ drains[d].at = "next"
  /\ drains[d].todo = {}
  /\ queue' = queue \cup drains[d].still
  /\ drains' = [drains EXCEPT ![d] = Idle]
  /\ UNCHANGED <<sending, timers, fired, attempts, rows, world, history>>

DrainDirectDone(d, ok) ==
  LET r == drains[d].cur IN
  /\ drains[d].at = "direct"
  /\ IF ok
     THEN /\ drains' = [drains EXCEPT ![d].at = "next", ![d].cur = None]
          /\ reports' = reports \cup Report(r, "retry", TRUE)
          /\ taken' = taken \cup {r}
     ELSE drains' = [drains EXCEPT ![d].at = "relay"] /\ UNCHANGED <<reports, taken>>
  /\ UNCHANGED <<sending, queue, timers, fired, attempts, kind, row, world,
                 sent, stopped, lost>>

\* try_relay.  Without a relay client the attempt counts, and fails.
DrainRelays(d, answer) ==
  LET r == drains[d].cur
      again == answer # "ok" /\ OutboxRetryAgain(attempts[r], answer)
  IN
  /\ drains[d].at = "relay"
  /\ ~relay => answer = "unreachable"
  /\ drains' = [drains EXCEPT ![d].at = "next", ![d].cur = None,
                              ![d].still = IF again THEN @ \cup {r} ELSE @]
  /\ attempts' = IF again THEN [attempts EXCEPT ![r] = @ + 1] ELSE attempts
  /\ reports' = reports \cup IF again THEN {} ELSE Report(r, "retry", answer = "ok")
  /\ taken' = IF answer = "ok" THEN taken \cup {r} ELSE taken
  /\ sent' = IF relay THEN CountSend(r) ELSE sent
  /\ UNCHANGED <<sending, queue, timers, fired, kind, row, world, stopped, lost>>

-----------------------------------------------------------------------------
(***************************************************************************)
(* Cancels and purges: they reach what is queued, or waits for a timer.    *)
(***************************************************************************)

\* Mutant: the timers are left.
DropQueued(gone) ==
  /\ queue' = queue \ gone
  /\ timers' = timers
  /\ stopped' = stopped \cup (gone \cap (queue \cup timers))

Drop(gone) ==
  /\ queue' = queue \ gone
  /\ timers' = timers \ gone
  /\ stopped' = stopped \cup (gone \cap (queue \cup timers))

\* A control message may be cancelled; of a chat message the row becomes a
\* tombstone after (DeleteMessageForMe).
Cancel(m) ==
  /\ kind[m] # "none"
  /\ row[m] # "deleted"
  /\ Drop(RecordsOf(m))
  /\ row' = IF kind[m] = "control" THEN row ELSE [row EXCEPT ![m] = "deleted"]
  /\ UNCHANGED <<sending, fired, drains, attempts, kind, reports, world, taken, sent, lost>>

\* PurgeThread: the queued sends of a thread.
Purge(k) == Drop({r \in queue : KindOf(r) = k})

\* The integrity check pauses the thread; the user keeps it paused; or starts a
\* new secure chat (or rotates the key), which ends the pause.
Compromise ==
  /\ ~paused
  /\ paused' = TRUE
  /\ UNCHANGED <<work, rows, relay, expired, faults, history>>

PauseIntegrityOnly ==
  /\ paused' = TRUE
  /\ Purge("direct")
  /\ UNCHANGED <<sending, fired, drains, attempts, rows, relay, expired, faults,
                 taken, sent, lost>>

StartNewSecureChat ==
  /\ paused' = FALSE
  /\ Purge("direct")
  /\ UNCHANGED <<sending, fired, drains, attempts, rows, relay, expired, faults,
                 taken, sent, lost>>

\* The account-level key of a public chat has been rotated.
PublicKeyRotates ==
  /\ Purge("copies")
  /\ UNCHANGED <<sending, fired, drains, attempts, rows, world, taken, sent, lost>>

-----------------------------------------------------------------------------
(***************************************************************************)
(* The environment.                                                        *)
(***************************************************************************)

\* SetRelayClient.
RelayGoes ==
  /\ relay
  /\ faults < MaxFaults
  /\ relay' = FALSE
  /\ faults' = faults + 1
  /\ UNCHANGED <<work, rows, paused, expired, history>>

RelayComes ==
  /\ ~relay
  /\ relay' = TRUE
  /\ UNCHANGED <<work, rows, paused, expired, faults, history>>

Expires(r) ==
  /\ IsControl(r)
  /\ r \notin expired
  /\ expired' = expired \cup {r}
  /\ UNCHANGED <<work, rows, paused, relay, faults, history>>

\* The app ends and starts again: the outbox is empty.  The outbox table of the
\* profile database lists the pending rows, but nothing reads it to send again.
Restart ==
  /\ faults < MaxFaults
  /\ faults' = faults + 1
  /\ sending' = [r \in Records |-> "none"]
  /\ queue' = {} /\ timers' = {} /\ fired' = {} /\ reports' = {}
  /\ drains' = [d \in Drains |-> Idle]
  /\ lost' = lost \cup {m \in Messages : row[m] = "pending"}
  /\ UNCHANGED <<attempts, kind, row, paused, relay, expired, taken, sent, stopped>>

-----------------------------------------------------------------------------
Init ==
  /\ kind = [m \in Messages |-> "none"]
  /\ row = [m \in Messages |-> "none"]
  /\ reports = {}
  /\ sending = [r \in Records |-> "none"]
  /\ queue = {} /\ timers = {} /\ fired = {}
  /\ drains = [d \in Drains |-> Idle]
  /\ attempts = [r \in Records |-> 0]
  /\ paused = FALSE /\ relay = TRUE
  /\ expired = {} /\ faults = 0
  /\ taken = {} /\ stopped = {} /\ lost = {}
  /\ sent = [r \in Records |-> 0]

SendStep(r) ==
  \/ \E reachable, routed \in BOOLEAN : SendDecides(r, reachable, routed)
  \/ \E ok \in BOOLEAN : DirectDone(r, ok)
  \/ \E answer \in RelayAnswers : RelaySend(r, answer)

ControlStep(r) ==
  \/ TimerFires(r)
  \/ \E answer \in RelayAnswers : RetryControlNow(r, answer)

DrainStep(d) ==
  \/ DrainStarts(d)
  \/ \E r \in Records, reachable \in BOOLEAN : DrainPicks(d, r, reachable)
  \/ DrainEnds(d)
  \/ \E ok \in BOOLEAN : DrainDirectDone(d, ok)
  \/ \E answer \in RelayAnswers : DrainRelays(d, answer)

ReportStep == \E p \in reports : Look(p) \/ Mark(p)

User ==
  \/ \E m \in Messages, k \in Kinds : Compose(m, k)
  \/ \E m \in Messages : Cancel(m)
  \/ PauseIntegrityOnly
  \/ StartNewSecureChat

Next ==
  \/ User
  \/ \E r \in Records : SendStep(r) \/ ControlStep(r) \/ Expires(r)
  \/ \E d \in Drains : Wake(d) \/ DrainStep(d)
  \/ ReportStep
  \/ Compromise \/ PublicKeyRotates
  \/ RelayGoes \/ RelayComes
  \/ Restart

Spec == Init /\ [][Next]_vars

(***************************************************************************)
(* Workers run what is posted, a direct send ends (AmpDirectChatTransport  *)
(* gives it 4 s) and so does a request to the relay, timers fire, the      *)
(* inbox is synced again and again (SyncInboxFromWake), and time passes.   *)
(* That a relay client is set again is asked of the environment.           *)
(***************************************************************************)
Fairness ==
  /\ WF_vars(\E r \in Records : SendStep(r))
  /\ WF_vars(\E r \in Records : ControlStep(r))
  /\ WF_vars(\E d \in Drains : Wake(d))
  /\ WF_vars(\E d \in Drains : DrainStep(d))
  /\ WF_vars(ReportStep)
  /\ WF_vars(\E r \in Records : Expires(r))
  /\ WF_vars(RelayComes)

FairSpec == Spec /\ Fairness

-----------------------------------------------------------------------------
(***************************************************************************)
(* Properties.                                                             *)
(***************************************************************************)

ReportType == [rec : Records, by : {"send", "retry"}, ok : BOOLEAN, at : {"look", "mark"}]

DrainType == [at : {"idle", "posted", "next", "direct", "relay"},
              todo : SUBSET Records, cur : Records \cup {None}, still : SUBSET Records]

\* The state is made of what the code can hold.
TypeOK ==
  /\ kind \in [Messages -> Kinds \cup {"none"}]
  /\ row \in [Messages -> {"none", "pending", "relayed", "failed", "deleted"}]
  /\ sending \in [Records -> {"none", "posted", "direct", "direct-only", "relay"}]
  /\ queue \subseteq Records /\ timers \subseteq Records /\ fired \subseteq Records
  /\ drains \in [Drains -> DrainType]
  /\ attempts \in [Records -> 0..MaxAttempts]
  /\ reports \subseteq ReportType
  /\ paused \in BOOLEAN /\ relay \in BOOLEAN
  /\ expired \subseteq Records
  /\ faults \in 0..MaxFaults
  /\ taken \subseteq Records /\ stopped \subseteq Records
  /\ sent \in [Records -> Nat]
  /\ lost \subseteq Messages

\* A batch holds a record in one of its places.
Apart(d, r) ==
  /\ r \in drains[d].todo => r \notin drains[d].still /\ r # drains[d].cur
  /\ r = drains[d].cur => r \notin drains[d].still

\* A record is in one place at a time: what two workers, the queue, a batch and
\* the timers hold of it never overlaps, so nothing sends it twice at once
\* (DeliveryOutbox.cpp:234-240 swaps the queue, 165-172 takes the timer's entry).
OneHolder ==
  \A r \in Records :
    /\ ~(r \in queue /\ r \in timers) /\ ~(r \in queue /\ r \in fired)
    /\ ~(r \in timers /\ r \in fired)
    /\ InSend(r) => r \notin queue \cup timers \cup fired
    /\ \A d \in Drains :
         InDrain(d, r) =>
           /\ ~InSend(r) /\ r \notin queue \cup timers \cup fired
           /\ \A e \in Drains \ {d} : ~InDrain(e, r)
           /\ Apart(d, r)

\* What a cancel or a purge took from the queue or the timers is out for good,
\* whatever runs at the same time ("Drop a message's queued sends and its
\* control-lane retries", DeliveryOutbox.h).
StoppedIsGone == \A r \in stopped : ~Held(r)

\* A row that says delivered has a record a transport confirmed.
NoFalseDelivered ==
  \A m \in Messages : row[m] = "relayed" => RecordsOf(m) \cap taken # {}

\* A chat message does not show as being sent for ever: its row is marked, or
\* the app was restarted while it was pending.  A group's row is another matter:
\* nothing marks it when every member's copy has failed.
PendingSettles ==
  \A m \in Messages :
    []<>(row[m] # "pending" \/ kind[m] = "group" \/ m \in lost)

\* Once its outcomes have arrived, the row of a message that a transport has
\* confirmed says so ("the row is delivered once any is, and failed only while
\* none is", "in send order per request", DeliveryOutbox.h:40 and 45).
RowTellsDelivery ==
  \A m \in Messages :
    /\ RecordsOf(m) \cap taken # {}
    /\ kind[m] # "control"
    /\ \A p \in reports : MessageOf[p.rec] # m
    => row[m] \in {"relayed", "deleted"}

StatusOf(r) ==
  CASE KindOf(r) = "none" -> "new"
    [] KindOf(r) # "none" /\ Held(r) -> "held"
    [] KindOf(r) # "none" /\ ~Held(r) /\ r \in taken -> "taken"
    [] OTHER -> "dropped"

Promise == INSTANCE DeliveryPromise
             WITH MaxSends <- MaxAttempts + 1,
                  status <- [r \in Records |-> StatusOf(r)],
                  sends <- sent

\* The outbox keeps the promise made of one: each record is held until it is
\* taken or let go of, never sent after, sent a bounded number of times, and not
\* held for ever.
KeepsPromise == Promise!Spec
=============================================================================
