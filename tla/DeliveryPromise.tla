--------------------------- MODULE DeliveryPromise ---------------------------
(***************************************************************************)
(* What an outbox promises of each record (a sealed envelope) it is        *)
(* given, whatever queues, timers and workers it uses (DeliveryOutbox.h):  *)
(*  - it holds the record until a transport has taken it ("taken") or it   *)
(*    has let go of it ("dropped": refused, given up, cancelled, stale);   *)
(*  - it then never sends it again;                                        *)
(*  - it sends a chat message's record at most MaxSends times;             *)
(*  - it does not hold a record for ever.                                  *)
(***************************************************************************)
EXTENDS Naturals

CONSTANTS
  Records,
  MaxSends   \* how often the record of a chat message is sent by the relay

VARIABLES
  status,    \* where each record stands
  sends      \* how often each was sent by the relay

vars == <<status, sends>>

Status == {"new", "held", "taken", "dropped"}

Init ==
  /\ status = [r \in Records |-> "new"]
  /\ sends = [r \in Records |-> 0]

\* One step of the outbox for record r.
Step(r) ==
  LET from == status[r]
      to   == status'[r]
  IN
  /\ \/ to = from
     \/ from = "new" /\ to = "held"
     \/ from = "held" /\ to \in {"taken", "dropped"}
  /\ \/ sends'[r] = sends[r]
     \/ from = "held" /\ sends[r] < MaxSends /\ sends'[r] = sends[r] + 1

\* One event may concern several records: a message is sent as several, a
\* cancel or a restart drops all that wait.
Next == \A r \in Records : Step(r)

Settles == \A r \in Records : []<>(status[r] # "held")

Spec == Init /\ [][Next]_vars /\ Settles
=============================================================================
