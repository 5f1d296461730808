------------------------------ MODULE CallSession ------------------------------
(***************************************************************************)
(* One-to-one calls between accounts of several devices: placing, ringing, *)
(* answering, declining and leaving a call, the controls that cross on the *)
(* way, and what is left of them after a restart.                          *)
(*                                                                         *)
(* Translated from                                                         *)
(*   CallSessionWorkflow.cpp   (the steps of a call),                      *)
(*   CallSessionManager.cpp    (clicks, who may send what),                *)
(*   CallSessionQueries.cpp, CallSessionLogic.cpp (what the rows say),     *)
(*   LiveCall.cpp              (the calls a device shows),                 *)
(*   SqliteCallSessionStore.cpp (the rows).                                *)
(*                                                                         *)
(* All call code of a device runs on its calls owner, so a handler is one  *)
(* action; the controls it sends are on their way when it ends.  Controls  *)
(* sent by one handler go out on several workers, in no order.             *)
(*                                                                         *)
(* Simplifications.                                                        *)
(*  - The calls of direct threads, not those of groups.                    *)
(*  - A call's id says who places it, and whom it invites: an id is random *)
(*    and used once.                                                       *)
(*  - The roster that follows an accept, sent as the owner's next event,    *)
(*    goes out with it.  It says that its sender is in the call.           *)
(*  - Time is the moment a timeout comes: an invite may expire, and a call *)
(*    be given up, whenever it is open.                                    *)
(*  - Media, its keys, prices and who may call whom are left out.          *)
(*  - Faults, within MaxFaults, are a control that is lost, late or        *)
(*    repeated; MaxRestarts bounds the restarts.                           *)
(***************************************************************************)
EXTENDS Naturals, Sequences, FiniteSets

CONSTANTS
  Accounts,
  Devices,
  Owner,       \* the account of each device
  Calls,       \* call ids: the lower of two that cross wins
  Placer,      \* the device that may place each
  Invitee,     \* the account it invites
  MaxFaults,   \* bound: controls lost, late or repeated
  MaxRestarts  \* bound

ASSUME CallAssumption ==
  /\ Owner \in [Devices -> Accounts]
  /\ Calls \subseteq Nat
  /\ Placer \in [Calls -> Devices]
  /\ Invitee \in [Calls -> Accounts]
  /\ \A c \in Calls : Invitee[c] # Owner[Placer[c]]
  /\ MaxFaults \in Nat
  /\ MaxRestarts \in Nat

VARIABLES
  rows,     \* what each device holds of each call: its rows and its LiveCall
  wire,     \* for each two devices, the controls on their way, oldest first
  faults,
  restarts

vars == <<rows, wire, faults, restarts>>

Parties == {"none", "ringing", "joined", "left", "declined", "missed"}

Rows == [session : {"none", "ringing", "active", "ended"},
         self    : Parties,    \* our account's participant row
         peer    : Parties,    \* the other account's
         invite  : {"none", "pending", "accepted", "declined", "expired"},
         live    : {"none", "calling", "ringing", "joined"}]  \* "none" once closed

NoRow == [session |-> "none", self |-> "none", peer |-> "none",
          invite |-> "none", live |-> "none"]

Controls == [type : {"invite", "accept", "decline", "leave", "ended", "roster",
                     "answered"},
             call : Calls]

Control(type, c) == [type |-> type, call |-> c]

\* The account at the other end of the call.
Other(d, c) == IF Owner[d] = Invitee[c] THEN Owner[Placer[c]] ELSE Invitee[c]

-----------------------------------------------------------------------------
(***************************************************************************)
(* What the steps of a call do to its rows.                                *)
(***************************************************************************)

Open(r) == r.session \in {"ringing", "active"}

\* ActiveLocalCall: an open session that this device's account is joined in.
InCall(r) == Open(r) /\ r.self = "joined"

EndCallLocal(r) == [r EXCEPT !.session = "ended", !.live = "none"]

\* The end of a call for a device that was not in it.
EndRing(r) == IF Open(r) THEN EndCallLocal(r) ELSE [r EXCEPT !.live = "none"]

\* Mutant: as in a group, where the others go on.
EndsWhenEmpty(r, remaining) == ~ remaining

\* A one-to-one call that was answered ends with the first to leave.
EndsOnLeave(r, remaining) == ~ remaining \/ r.session = "active"

\* Mutant: the call stays on the screen when it goes on for the other.
LeaveCallShown(r) ==
  LET gone == [r EXCEPT !.self = "left"]
  IN  IF ~ Open(r) \/ r.self = "left"
      THEN r
      ELSE IF EndsOnLeave(r, r.peer = "joined") THEN EndCallLocal(gone) ELSE gone

LeaveCall(r) ==
  LET gone == [r EXCEPT !.self = "left", !.live = "none"]
  IN  IF ~ Open(r) \/ r.self = "left"
      THEN [r EXCEPT !.live = "none"]
      ELSE IF EndsOnLeave(r, r.peer = "joined") THEN EndCallLocal(gone) ELSE gone

\* Mutant: who has not answered yet is not told that the call is over.
LeavingJoined(c, r) ==
  IF Open(r) /\ r.self # "left" /\ r.peer = "joined"
  THEN {Control("leave", c), Control("ended", c)}
  ELSE {}

\* What leaving tells the other account.
Leaving(c, r) ==
  IF ~ Open(r) \/ r.self = "left"
  THEN {}
  ELSE {m \in {Control("leave", c), Control("ended", c)} :
          \/ m.type = "leave" /\ r.peer = "joined"
          \/ /\ m.type = "ended"
             /\ EndsOnLeave(r, r.peer = "joined")
             /\ r.peer \in {"joined", "ringing"}}

StoreRingingInvite(r) ==
  [r EXCEPT !.session = "ringing", !.self = "ringing", !.peer = "joined",
            !.invite = "pending",
            !.live = IF @ = "none" THEN "ringing" ELSE @]

CommitLocalJoin(r) ==
  [r EXCEPT !.session = "active", !.self = "joined", !.invite = "accepted",
            !.live = IF @ = "none" THEN @ ELSE "joined"]

\* Mutant: the session stays ringing.
RemoteAcceptRings(r) ==
  IF Open(r)
  THEN [r EXCEPT !.peer = "joined", !.live = IF @ = "calling" THEN "joined" ELSE @]
  ELSE [r EXCEPT !.peer = "joined"]

ApplyRemoteAccept(r) ==
  IF Open(r)
  THEN [r EXCEPT !.peer = "joined", !.session = "active",
                 !.live = IF @ = "calling" THEN "joined" ELSE @]
  ELSE [r EXCEPT !.peer = "joined"]

\* No one else has an interest in a call of two: it is over.
AfterDecline(r) ==
  LET s == [r EXCEPT !.peer = "declined"]
  IN  IF Open(r) THEN EndCallLocal(s) ELSE s

ParticipantGone(r) ==
  LET s == [r EXCEPT !.peer = "left"]
  IN  IF Open(r) /\ EndsOnLeave(r, r.self = "joined") THEN EndCallLocal(s) ELSE s

AfterEnded(r) ==
  LET s == [r EXCEPT !.invite = IF @ = "none" THEN @ ELSE "expired",
                     !.peer = IF @ = "joined" THEN "left" ELSE @]
  IN  IF Open(r) THEN EndCallLocal(s) ELSE s

\* Who left, declined or missed is not brought back by a roster that lists
\* them as joined.
ApplyCallRoster(r) ==
  IF r.peer \in {"left", "declined", "missed"} THEN r ELSE [r EXCEPT !.peer = "joined"]

StopRingingAnsweredElsewhere(r) ==
  IF r.live = "ringing" THEN EndCallLocal([r EXCEPT !.invite = "expired"]) ELSE r

\* Mutant: the participant takes the status of the invite.
ExpireBoth(r) == EndRing([r EXCEPT !.invite = "expired", !.self = "expired"])

ExpireInvite(r) == EndRing([r EXCEPT !.invite = "expired", !.self = "missed"])

\* AbandonOrphanedCallsAfterRestart, on one call.
AbandonOrphaned(r) ==
  LET s == [r EXCEPT !.live = "none"]
      t == IF InCall(s) THEN LeaveCall(s) ELSE EndRing(s)
  IN  IF t.invite = "pending"
      THEN [t EXCEPT !.invite = "expired", !.self = "missed"]
      ELSE t

-----------------------------------------------------------------------------
(***************************************************************************)
(* Controls.  A control to an account goes to each of its devices; what a  *)
(* device sends to its own account goes to the others.                     *)
(***************************************************************************)

Nothing == [a \in Accounts |-> {}]

Say(a, ms) == [Nothing EXCEPT ![a] = ms]

TellOwnDevicesAnswered(d, c) == Say(Owner[d], {Control("answered", c)})

Both(f, g) == [a \in Accounts |-> f[a] \cup g[a]]

Post(q, d, said) ==
  [s \in Devices |-> [t \in Devices |->
     IF s = d /\ t # d /\ said[Owner[t]] # {}
     THEN Append(q[s][t], said[Owner[t]])
     ELSE q[s][t]]]

Without(q, m) == IF Head(q) = {m} THEN Tail(q) ELSE [q EXCEPT ![1] = @ \ {m}]

\* The controls that d may take next of those s sent it.
Coming(s, d) == IF wire[s][d] = <<>> THEN {} ELSE Head(wire[s][d])

Taken(s, d, m) == [wire EXCEPT ![s][d] = Without(@, m)]

\* SenderIsInCall: the one who placed a call this device knows, or who is
\* invited to it or in it.
SenderIsInCall(d, c, a) ==
  \/ rows[d][c].session # "none" /\ a = Owner[Placer[c]]
  \/ a = Other(d, c) /\ rows[d][c].peer \in {"ringing", "joined"}

-----------------------------------------------------------------------------
(***************************************************************************)
(* Leaving and answering, which other steps end with.                      *)
(***************************************************************************)

\* Mutant: only a call that was answered is left.
LeaveAnswered(x, c) ==
  [k \in Calls |->
     IF k # c /\ InCall(x[k]) /\ x[k].session = "active" THEN LeaveCall(x[k]) ELSE x[k]]

\* LeaveCallIfActiveExcept.
LeaveOthers(x, c) ==
  [k \in Calls |-> IF k # c /\ InCall(x[k]) THEN LeaveCall(x[k]) ELSE x[k]]

LeavingOthers(d, x, c) ==
  [a \in Accounts |->
     UNION {Leaving(k, x[k]) : k \in {j \in Calls : /\ j # c
                                                    /\ InCall(x[j])
                                                    /\ Other(d, j) = a}}]

\* AcceptInvite, with the rows x, the queues q and what was said before.  The
\* other call is left whether or not the accept then goes through.
AcceptInvite(d, c, x, q, said) ==
  LET y     == LeaveOthers(x, c)
      left  == Both(said, LeavingOthers(d, x, c))
      other == Other(d, c)
      r     == CommitLocalJoin(y[c])
  IN  \/ \* no longer pending, the call over, or a send that fails
         /\ rows' = [rows EXCEPT ![d] = y]
         /\ wire' = Post(q, d, left)
      \/ \* expired since the sweep
         /\ y[c].invite = "pending"
         /\ rows' = [rows EXCEPT ![d] = [y EXCEPT ![c].invite = "expired"]]
         /\ wire' = Post(q, d, left)
      \/ \* accepted
         /\ y[c].invite = "pending"
         /\ y[c].session # "ended"
         /\ r.live = "joined"
         /\ rows' = [rows EXCEPT ![d] = [y EXCEPT ![c] = r]]
         /\ wire' = Post(q, d, Both(left, Both(
                      Say(other, {Control("accept", c), Control("roster", c)}),
                      TellOwnDevicesAnswered(d, c))))
      \/ \* AcceptSuperseded: not a live call any more
         /\ y[c].invite = "pending"
         /\ y[c].session # "ended"
         /\ r.live = "none"
         /\ rows' = [rows EXCEPT ![d] = [y EXCEPT ![c] = LeaveCall(r)]]
         /\ wire' = Post(q, d, Both(left,
                      Say(other, {Control("accept", c)} \cup Leaving(c, r))))

-----------------------------------------------------------------------------
(***************************************************************************)
(* The user's steps.                                                       *)
(***************************************************************************)

Put(d, c, r) == rows' = [rows EXCEPT ![d][c] = r]

Send(d, said) == wire' = Post(wire, d, said)

\* StartCall.  A call that is ringing here is answered or declined first; one
\* whose invite cannot be sent is over, and leaves the current call alone.
Place(d, c) ==
  LET placed == [NoRow EXCEPT !.session = "ringing", !.self = "joined"]
      other  == Other(d, c)
  IN  /\ Placer[c] = d
      /\ rows[d][c].session = "none"
      /\ \A k \in Calls : rows[d][k].invite # "pending"
      /\ \/ /\ Put(d, c, LeaveCall(placed))
            /\ UNCHANGED wire
         \/ /\ rows' = [rows EXCEPT ![d] =
                 [LeaveOthers(@, c) EXCEPT
                    ![c] = [placed EXCEPT !.peer = "ringing", !.live = "calling"]]]
            /\ Send(d, Both(LeavingOthers(d, rows[d], c),
                            Say(other, {Control("invite", c)})))
      /\ UNCHANGED <<faults, restarts>>

\* Also what calling someone whose call rings here comes to.
ClickAccept(d, c) ==
  /\ rows[d][c].invite = "pending" \/ rows[d][c].live = "ringing"
  /\ rows[d][c].live # "joined"
  /\ AcceptInvite(d, c, rows[d], wire, Nothing)
  /\ UNCHANGED <<faults, restarts>>

ClickDecline(d, c) ==
  LET r == rows[d][c]
  IN  /\ r.live = "ringing"
      /\ \/ /\ r.invite = "pending"
            /\ Put(d, c, EndRing([r EXCEPT !.self = "declined", !.invite = "declined"]))
            /\ Send(d, Both(Say(Other(d, c), {Control("decline", c)}),
                            TellOwnDevicesAnswered(d, c)))
         \/ \* the send fails, or no invite is pending: the ring goes either way
            /\ Put(d, c, [r EXCEPT !.live = "none"])
            /\ UNCHANGED wire
      /\ UNCHANGED <<faults, restarts>>

Leave(d, c) ==
  /\ Put(d, c, LeaveCall(rows[d][c]))
  /\ Send(d, Say(Other(d, c), Leaving(c, rows[d][c])))
  /\ UNCHANGED <<faults, restarts>>

ClickLeave(d, c) == rows[d][c].live \in {"calling", "joined"} /\ Leave(d, c)

-----------------------------------------------------------------------------
(***************************************************************************)
(* Timeouts, which the sweep of every interface tick finds.                *)
(***************************************************************************)

Expire(d, c) ==
  /\ rows[d][c].invite = "pending"
  /\ Put(d, c, ExpireInvite(rows[d][c]))
  /\ UNCHANGED <<wire, faults, restarts>>

GiveUpUnanswered(d, c) ==
  /\ rows[d][c].live = "calling"
  /\ InCall(rows[d][c])
  /\ Leave(d, c)

-----------------------------------------------------------------------------
(***************************************************************************)
(* What a control does to the device that takes it.                        *)
(***************************************************************************)

\* Our call to the one who now calls us.
Crossing(d, a, c) ==
  {k \in Calls : /\ k # c
                 /\ Owner[Placer[k]] = Owner[d]
                 /\ Invitee[k] = a
                 /\ Open(rows[d][k])
                 /\ rows[d][k].peer = "ringing"}

\* Mutant: before B24.
IgnoresJoined(r) == r.self = "joined"

\* Already joined, or over (B24: a repeated invite must not ring again).
IgnoresInvite(r) == r.self = "joined" \/ r.session = "ended"

ReceiveInvite(s, d, m) ==
  LET c     == m.call
      x     == rows[d]
      cross == Crossing(d, Owner[s], c)
      rung  == [x EXCEPT ![c] = StoreRingingInvite(@)]
  IN  /\ m.type = "invite"
      /\ \/ \* ignored, or too old
            /\ wire' = Taken(s, d, m)
            /\ UNCHANGED rows
         \/ /\ ~ IgnoresInvite(x[c])
            /\ cross = {}
            /\ rows' = [rows EXCEPT ![d] = rung]
            /\ wire' = Taken(s, d, m)
         \/ \* ours wins: theirs never rings here
            /\ ~ IgnoresInvite(x[c])
            /\ \E k \in cross : k < c
            /\ Put(d, c, [x[c] EXCEPT !.session = "ended"])
            /\ wire' = Taken(s, d, m)
         \/ \* theirs wins: ours gives way and theirs is answered
            /\ ~ IgnoresInvite(x[c])
            /\ \E k \in cross :
                 /\ c < k
                 /\ AcceptInvite(d, c, [rung EXCEPT ![k] = LeaveCall(@)],
                                 Taken(s, d, m), Say(Owner[s], Leaving(k, x[k])))
      /\ UNCHANGED <<faults, restarts>>

\* Any other control, by what it makes of the row of its call.
Take(s, d, m, r) ==
  /\ wire' = Taken(s, d, m)
  /\ Put(d, m.call, r)
  /\ UNCHANGED <<faults, restarts>>

\* Dropped unless its sender is in the call.
TakeFromParty(s, d, m, r) ==
  Take(s, d, m, IF SenderIsInCall(d, m.call, Owner[s]) THEN r ELSE rows[d][m.call])

\* With what is then sent: the roster, as the owner's next event.
RemoteJoined(d, c, q) ==
  /\ Put(d, c, ApplyRemoteAccept(rows[d][c]))
  /\ wire' = IF Open(rows[d][c])
             THEN Post(q, d, Say(Other(d, c), {Control("roster", c)}))
             ELSE q

ReceiveAccept(s, d, m) ==
  /\ m.type = "accept"
  /\ IF SenderIsInCall(d, m.call, Owner[s])
     THEN RemoteJoined(d, m.call, Taken(s, d, m))
     ELSE wire' = Taken(s, d, m) /\ UNCHANGED rows
  /\ UNCHANGED <<faults, restarts>>

\* The media of the one who answered reach us, by a link of their own, before
\* its accept does.
HearAnswer(s, d, c) ==
  /\ Owner[s] = Other(d, c)
  /\ rows[s][c].live = "joined"
  /\ InCall(rows[d][c])
  /\ rows[d][c].peer = "ringing"
  /\ RemoteJoined(d, c, wire)
  /\ UNCHANGED <<faults, restarts>>

ReceiveDecline(s, d, m) ==
  m.type = "decline" /\ TakeFromParty(s, d, m, AfterDecline(rows[d][m.call]))

ReceiveLeave(s, d, m) ==
  m.type = "leave" /\ TakeFromParty(s, d, m, ParticipantGone(rows[d][m.call]))

ReceiveEnded(s, d, m) ==
  m.type = "ended" /\ TakeFromParty(s, d, m, AfterEnded(rows[d][m.call]))

ReceiveRoster(s, d, m) ==
  /\ m.type = "roster"
  /\ TakeFromParty(s, d, m, ApplyCallRoster(rows[d][m.call]))

ReceiveAnswered(s, d, m) ==
  /\ m.type = "answered"
  /\ Take(s, d, m, StopRingingAnsweredElsewhere(rows[d][m.call]))

Receive(s, d, m) ==
  \/ ReceiveInvite(s, d, m)
  \/ ReceiveAccept(s, d, m)
  \/ ReceiveDecline(s, d, m)
  \/ ReceiveLeave(s, d, m)
  \/ ReceiveEnded(s, d, m)
  \/ ReceiveRoster(s, d, m)
  \/ ReceiveAnswered(s, d, m)

-----------------------------------------------------------------------------
(***************************************************************************)
(* Restarts and faults.                                                    *)
(***************************************************************************)

\* The app stops and starts again: what the store shows open is left or ended.
Restart(d) ==
  /\ restarts < MaxRestarts
  /\ restarts' = restarts + 1
  /\ rows' = [rows EXCEPT ![d] = [c \in Calls |-> AbandonOrphaned(@[c])]]
  /\ Send(d, [a \in Accounts |->
               UNION {Leaving(c, rows[d][c]) :
                        c \in {k \in Calls : /\ InCall(rows[d][k])
                                             /\ Other(d, k) = a}}])
  /\ UNCHANGED faults

Fault(s, d, q) ==
  /\ faults < MaxFaults
  /\ faults' = faults + 1
  /\ wire' = [wire EXCEPT ![s][d] = q]
  /\ UNCHANGED <<rows, restarts>>

Lose(s, d, m) == Fault(s, d, Without(wire[s][d], m))

Delay(s, d, m) == Fault(s, d, Append(Without(wire[s][d], m), {m}))

Repeat(s, d, m) == Fault(s, d, Append(wire[s][d], {m}))

-----------------------------------------------------------------------------
Init ==
  /\ rows = [d \in Devices |-> [c \in Calls |-> NoRow]]
  /\ wire = [s \in Devices |-> [d \in Devices |-> <<>>]]
  /\ faults = 0
  /\ restarts = 0

UserStep(d, c) ==
  \/ Place(d, c)
  \/ ClickAccept(d, c)
  \/ ClickDecline(d, c)
  \/ ClickLeave(d, c)

Next ==
  \/ \E d \in Devices, c \in Calls : UserStep(d, c)
  \/ \E d \in Devices, c \in Calls : Expire(d, c)
  \/ \E d \in Devices, c \in Calls : GiveUpUnanswered(d, c)
  \/ \E s, d \in Devices : \E m \in Coming(s, d) : Receive(s, d, m)
  \/ \E s, d \in Devices, c \in Calls : HearAnswer(s, d, c)
  \/ \E d \in Devices : Restart(d)
  \/ \E s, d \in Devices : \E m \in Coming(s, d) : Lose(s, d, m)
  \/ \E s, d \in Devices : \E m \in Coming(s, d) : Delay(s, d, m)
  \/ \E s, d \in Devices : \E m \in Coming(s, d) : Repeat(s, d, m)

Spec == Init /\ [][Next]_vars

\* CallPresenter::Tick sweeps on every tick of a running app.
FairSpec ==
  /\ Spec
  /\ \A d \in Devices, c \in Calls : WF_vars(Expire(d, c))
  /\ \A d \in Devices, c \in Calls : WF_vars(GiveUpUnanswered(d, c))

-----------------------------------------------------------------------------
(***************************************************************************)
(* Properties.                                                             *)
(***************************************************************************)

\* Types of the variables, and the bounds on faults and restarts.
TypeOK ==
  /\ rows \in [Devices -> [Calls -> Rows]]
  /\ wire \in [Devices -> [Devices -> Seq(SUBSET Controls)]]
  /\ faults \in 0..MaxFaults
  /\ restarts \in 0..MaxRestarts

\* A device is in one call at a time, whichever calls it places and answers
\* and however the controls of the others arrive (LiveCalls::WarnIfSecondActive
\* only logs a second one).
OneActiveCall ==
  \A d \in Devices : \A c, k \in Calls :
    (InCall(rows[d][c]) /\ InCall(rows[d][k])) => c = k

\* The calls a device shows and the rows it stored, written by different
\* statements, agree: it shows that it is calling or talking exactly in the
\* open call its account joined, and it talks only once the call was answered.
LiveMatchesStore ==
  \A d \in Devices, c \in Calls :
    LET r == rows[d][c]
    IN  /\ r.live \in {"calling", "joined"} <=> InCall(r)
        /\ r.live = "calling" => r.session = "ringing"
        /\ r.live = "joined" => r.session = "active"

\* A call that ended on a device never opens or rings there again (B24),
\* whatever is repeated or comes late.
EndedIsFinal ==
  [][\A d \in Devices, c \in Calls :
       rows[d][c].session = "ended" =>
         /\ rows'[d][c].session = "ended"
         /\ rows'[d][c].live \in {"none", rows[d][c].live}]_vars

Quiet == \A s, d \in Devices : wire[s][d] = <<>>

Talks(d, c) == rows[d][c].live = "joined"

Invited(c) == {d \in Devices : Owner[d] = Invitee[c]}

\* The devices that answered, whatever they answered.
Answered(c) == {d \in Invited(c) : rows[d][c].self \in {"joined", "left", "declined"}}

\* The calls d placed to who calls it in c, and that c may have lost to.
Beating(d, c) ==
  {k \in Calls : /\ Placer[k] = d
                 /\ Invitee[k] = Owner[Placer[c]]
                 /\ k < c
                 /\ rows[d][k].session # "none"}

\* Once everything sent has arrived in its order, the two ends of a call agree:
\* when one device answered, it talks exactly if the caller does; where none
\* did, a device that rings is still being called; and of two calls that crossed,
\* neither expired nor answered nor lost to a third before, one is left, so nobody
\* waits for an answer from someone who waits for theirs.
EndsMeet ==
  (Quiet /\ faults = 0) =>
    \A c \in Calls :
      /\ \A d \in Invited(c) : Answered(c) = {d} => (Talks(d, c) <=> Talks(Placer[c], c))
      /\ \A d \in Invited(c) :
           (rows[d][c].live = "ringing" /\ Answered(c) = {})
             => rows[Placer[c]][c].live = "calling"
      /\ \A k \in Calls :
           ~ /\ Answered(c) = {} /\ Answered(k) = {}
             /\ Owner[Placer[k]] = Invitee[c]
             /\ Owner[Placer[c]] = Invitee[k]
             /\ rows[Placer[c]][c].live = "calling"
             /\ rows[Placer[k]][k].live = "calling"
             /\ rows[Placer[c]][k].session # "none" /\ rows[Placer[c]][k].invite # "expired"
             /\ rows[Placer[k]][c].session # "none" /\ rows[Placer[k]][c].invite # "expired"
             /\ Beating(Placer[c], k) \subseteq {c}
             /\ Beating(Placer[k], c) \subseteq {k}

\* Nobody calls for ever, and no invite stays pending, whatever was lost.
CallsSettle ==
  \A d \in Devices, c \in Calls :
    []<>(rows[d][c].live # "calling" /\ rows[d][c].invite # "pending")

=============================================================================
