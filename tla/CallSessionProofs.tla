--------------------------- MODULE CallSessionProofs ---------------------------
(***************************************************************************)
(* Proofs about CallSession, for any accounts, devices and calls and any   *)
(* number of faults and restarts.                                          *)
(*                                                                         *)
(* Every step changes the rows of one device.  It either keeps each of     *)
(* them (Keeps: the row agrees with the call shown, an ended call stays    *)
(* ended, and no call is joined), or joins one call after it left every    *)
(* other.  Either way the device is in at most one call (Fine).            *)
(*                                                                         *)
(* That the ends of a call meet (EndsMeet) rests on a second invariant     *)
(* (MeetOK), which holds until a control is lost, late or repeated.  Per   *)
(* call (CallFits): the caller's row and the rows of those called are of   *)
(* few forms; a control on its way says what its sender did, the invite    *)
(* first; a caller that no longer only rings knows of someone who          *)
(* answered; and of a caller and the one device that answered, each is in  *)
(* the call that the other is in, or is about to be told why not (Paired). *)
(* Per device (Crosses): an invite that did not ring lost to a call of its *)
(* own.  What a step does to a call is CallerStep or CalleeStep, of the    *)
(* row alone; CallKept shows that such a step keeps CallFits, and a lemma  *)
(* for each action (...Moves) that it takes such a step of every call.     *)
(***************************************************************************)
EXTENDS CallSession, TLAPS

\* The row and the call shown agree.
Agrees(r) ==
  /\ r.live \in {"calling", "joined"} <=> InCall(r)
  /\ r.live = "calling" => r.session = "ringing"
  /\ r.live = "joined" => r.session = "active"

RowOK(r) == r \in Rows /\ Agrees(r)

\* A call that ended stays ended, and is not shown anew.
StaysEnded(r, s) ==
  r.session = "ended" => s.session = "ended" /\ s.live \in {"none", r.live}

Keeps(r, s) == RowOK(s) /\ StaysEnded(r, s) /\ (InCall(s) => InCall(r))

WireOK(q) == q \in [Devices -> [Devices -> Seq(SUBSET Controls)]]

Said(f) == f \in [Accounts -> SUBSET Controls]

OneOf(x) == \A c, k \in Calls : (InCall(x[c]) /\ InCall(x[k])) => c = k

\* The rows of a device, as they were and as a step leaves them.
Fine(x, y) ==
  /\ \A k \in Calls : RowOK(y[k]) /\ StaysEnded(x[k], y[k])
  /\ OneOf(y)

\* A step changes the rows of this device, and them well.
ChangesWell(d) ==
  \E y \in [Calls -> Rows] : rows' = [rows EXCEPT ![d] = y] /\ Fine(rows[d], y)

RowsOK == \A d \in Devices : (\A c \in Calls : RowOK(rows[d][c])) /\ OneOf(rows[d])

Inv == TypeOK /\ RowsOK

-----------------------------------------------------------------------------
(***************************************************************************)
(* What the steps of a call do to a row.                                   *)
(***************************************************************************)

\* A row that is out of its call, which is shown no more.
LEMMA OutKeeps ==
  ASSUME NEW r \in Rows, NEW s \in Rows, s.live = "none", ~ InCall(s),
         r.session = "ended" => s.session = "ended"
  PROVE  Keeps(r, s)
  BY DEF Keeps, RowOK, Agrees, StaysEnded

\* Ending a call, or a ring, takes the device out of it.
LEMMA EndKeeps ==
  ASSUME NEW r \in Rows
  PROVE  /\ Keeps(r, EndRing(r)) /\ ~ InCall(EndRing(r))
         /\ Keeps(r, EndCallLocal(r)) /\ ~ InCall(EndCallLocal(r))
<1>1. PICK s : s = EndCallLocal(r)
  OBVIOUS
<1>2. s \in Rows /\ s.live = "none" /\ s.session = "ended"
  BY <1>1 DEF EndCallLocal, Rows
<1>3. ~ InCall(s)
  BY <1>2 DEF InCall, Open
<1>4. Keeps(r, s)
  BY <1>2, <1>3, OutKeeps
<1>5. PICK t : t = [r EXCEPT !.live = "none"]
  OBVIOUS
<1>6. t \in Rows /\ t.live = "none" /\ t.session = r.session
  BY <1>5 DEF Rows
<1>7. ~ Open(r) => ~ InCall(t) /\ Keeps(r, t)
  BY <1>6, OutKeeps DEF InCall, Open
<1>8. EndRing(r) = IF Open(r) THEN s ELSE t
  BY <1>1, <1>5 DEF EndRing
<1>9. QED
  BY <1>1, <1>3, <1>4, <1>7, <1>8

\* So does leaving it, whatever the row says.
LEMMA LeaveKeeps ==
  ASSUME NEW r \in Rows
  PROVE  Keeps(r, LeaveCall(r)) /\ ~ InCall(LeaveCall(r))
<1>1. PICK s : s = [r EXCEPT !.live = "none"]
  OBVIOUS
<1>2. PICK g : g = [r EXCEPT !.self = "left", !.live = "none"]
  OBVIOUS
<1>3. s \in Rows /\ s.live = "none" /\ s.session = r.session /\ s.self = r.self
  BY <1>1 DEF Rows
<1>4. g \in Rows /\ g.live = "none" /\ g.session = r.session /\ g.self = "left"
  BY <1>2 DEF Rows, Parties
<1>5. ~ InCall(g) /\ Keeps(r, g)
  BY <1>4, OutKeeps DEF InCall
<1>6. ~ InCall(EndCallLocal(g)) /\ Keeps(r, EndCallLocal(g))
  BY <1>4, EndKeeps DEF Keeps, RowOK, StaysEnded
<1>7. (~ Open(r) \/ r.self = "left") => ~ InCall(s) /\ Keeps(r, s)
  BY <1>3, OutKeeps DEF InCall, Open
<1>8. LeaveCall(r) = IF ~ Open(r) \/ r.self = "left"
                     THEN s
                     ELSE IF EndsOnLeave(r, r.peer = "joined") THEN EndCallLocal(g) ELSE g
  BY <1>1, <1>2 DEF LeaveCall
<1>9. QED
  BY <1>5, <1>6, <1>7, <1>8

\* What changes neither the session, our own row nor the call shown changes
\* nothing of what a device is in.
LEMMA SameKeeps ==
  ASSUME NEW r, RowOK(r), NEW s \in Rows,
         s.session = r.session, s.self = r.self, s.live = r.live
  PROVE  Keeps(r, s)
  BY DEF Keeps, RowOK, Agrees, StaysEnded, InCall, Open

\* Nor does it matter before a call ends.
LEMMA EndAfter ==
  ASSUME NEW r, RowOK(r), NEW s \in Rows, s.session = r.session, s.live = r.live
  PROVE  Keeps(r, EndCallLocal(s)) /\ Keeps(r, EndRing(s))
<1>1. Keeps(s, EndCallLocal(s)) /\ Keeps(s, EndRing(s))
  BY EndKeeps
<1>2. ~ InCall(EndCallLocal(s)) /\ ~ InCall(EndRing(s))
  BY EndKeeps
<1>3. QED
  BY <1>1, <1>2 DEF Keeps, StaysEnded

\* The other's accept joins the call of a device that is in it, and no other.
LEMMA RemoteKeeps ==
  ASSUME NEW r, RowOK(r)
  PROVE  /\ Keeps(r, r)
         /\ Keeps(r, ApplyRemoteAccept(r))
         /\ Keeps(r, ApplyCallRoster(r))
         /\ Keeps(r, StopRingingAnsweredElsewhere(r))
<1>1. r \in Rows
  BY DEF RowOK
<1>2. Keeps(r, r)
  BY <1>1, SameKeeps
<1>3. Keeps(r, ApplyRemoteAccept(r))
  <2> DEFINE s == ApplyRemoteAccept(r)
  <2>1. s \in Rows /\ s.self = r.self /\ (~ Open(r) => s.session = r.session /\ s.live = r.live)
    BY <1>1 DEF ApplyRemoteAccept, Rows, Parties, Open
  <2>2. Open(r) => s.session = "active" /\ s.live = IF r.live = "calling" THEN "joined" ELSE r.live
    BY <1>1 DEF ApplyRemoteAccept, Rows, Parties, Open
  <2> HIDE DEF s
  <2>3. ~ Open(r) => Keeps(r, s)
    BY <2>1, SameKeeps
  <2>4. Open(r) => Keeps(r, s)
    BY <2>1, <2>2 DEF Keeps, RowOK, Agrees, StaysEnded, InCall, Open
  <2>5. QED
    BY <2>3, <2>4 DEF s
<1>4. Keeps(r, ApplyCallRoster(r))
  <2>1. CASE r.peer \in {"left", "declined", "missed"}
    BY <1>2, <2>1 DEF ApplyCallRoster
  <2>2. CASE r.peer \notin {"left", "declined", "missed"}
    <3> DEFINE s == [r EXCEPT !.peer = "joined"]
    <3>1. s \in Rows /\ s.session = r.session /\ s.self = r.self /\ s.live = r.live
      BY <1>1 DEF Rows, Parties
    <3>2. ApplyCallRoster(r) = s
      BY <2>2 DEF ApplyCallRoster
    <3> HIDE DEF s
    <3>3. QED
      BY <3>1, <3>2, SameKeeps
  <2>3. QED
    BY <2>1, <2>2
<1>5. Keeps(r, StopRingingAnsweredElsewhere(r))
  <2>1. CASE r.live = "ringing"
    <3> DEFINE s == [r EXCEPT !.invite = "expired"]
    <3>1. s \in Rows /\ s.session = r.session /\ s.live = r.live
      BY <1>1 DEF Rows, Parties
    <3>2. StopRingingAnsweredElsewhere(r) = EndCallLocal(s)
      BY <2>1 DEF StopRingingAnsweredElsewhere
    <3> HIDE DEF s
    <3>3. QED
      BY <3>1, <3>2, EndAfter
  <2>2. CASE r.live # "ringing"
    BY <1>2, <2>2 DEF StopRingingAnsweredElsewhere
  <2>3. QED
    BY <2>1, <2>2
<1>6. QED
  BY <1>2, <1>3, <1>4, <1>5

\* What the other tells of its end of the call.
LEMMA GoneKeeps ==
  ASSUME NEW r, RowOK(r)
  PROVE  /\ Keeps(r, AfterDecline(r))
         /\ Keeps(r, ParticipantGone(r))
         /\ Keeps(r, AfterEnded(r))
<1>1. r \in Rows
  BY DEF RowOK
<1>2. ASSUME NEW s \in Rows, s.session = r.session, s.self = r.self, s.live = r.live,
             NEW t, t = s \/ t = EndCallLocal(s)
      PROVE  Keeps(r, t)
  BY <1>2, SameKeeps, EndAfter
<1>3. Keeps(r, AfterDecline(r))
  <2> DEFINE s == [r EXCEPT !.peer = "declined"]
  <2>1. s \in Rows /\ s.session = r.session /\ s.self = r.self /\ s.live = r.live
    BY <1>1 DEF Rows, Parties
  <2>2. AfterDecline(r) = s \/ AfterDecline(r) = EndCallLocal(s)
    BY DEF AfterDecline
  <2> HIDE DEF s
  <2>3. QED
    BY <1>2, <2>1, <2>2
<1>4. Keeps(r, ParticipantGone(r))
  <2> DEFINE s == [r EXCEPT !.peer = "left"]
  <2>1. s \in Rows /\ s.session = r.session /\ s.self = r.self /\ s.live = r.live
    BY <1>1 DEF Rows, Parties
  <2>2. ParticipantGone(r) = s \/ ParticipantGone(r) = EndCallLocal(s)
    BY DEF ParticipantGone
  <2> HIDE DEF s
  <2>3. QED
    BY <1>2, <2>1, <2>2
<1>5. Keeps(r, AfterEnded(r))
  <2> DEFINE s == [r EXCEPT !.invite = IF @ = "none" THEN @ ELSE "expired",
                            !.peer = IF @ = "joined" THEN "left" ELSE @]
  <2>1. s \in Rows /\ s.session = r.session /\ s.self = r.self /\ s.live = r.live
    BY <1>1 DEF Rows, Parties
  <2>2. AfterEnded(r) = s \/ AfterEnded(r) = EndCallLocal(s)
    BY DEF AfterEnded
  <2> HIDE DEF s
  <2>3. QED
    BY <1>2, <2>1, <2>2
<1>6. QED
  BY <1>3, <1>4, <1>5

\* An invite that expired, was declined, or whose ring is dismissed.
LEMMA ExpireKeeps ==
  ASSUME NEW r, RowOK(r)
  PROVE  /\ Keeps(r, ExpireInvite(r))
         /\ Keeps(r, EndRing([r EXCEPT !.self = "declined", !.invite = "declined"]))
         /\ Keeps(r, [r EXCEPT !.invite = "expired"])
         /\ r.live = "ringing" => Keeps(r, [r EXCEPT !.live = "none"])
<1>1. r \in Rows
  BY DEF RowOK
<1>2. Keeps(r, ExpireInvite(r))
  <2> DEFINE s == [r EXCEPT !.invite = "expired", !.self = "missed"]
  <2>1. s \in Rows /\ s.session = r.session /\ s.live = r.live
    BY <1>1 DEF Rows, Parties
  <2>2. ExpireInvite(r) = EndRing(s)
    BY DEF ExpireInvite
  <2> HIDE DEF s
  <2>3. QED
    BY <2>1, <2>2, EndAfter
<1>3. Keeps(r, EndRing([r EXCEPT !.self = "declined", !.invite = "declined"]))
  <2> DEFINE s == [r EXCEPT !.self = "declined", !.invite = "declined"]
  <2>1. s \in Rows /\ s.session = r.session /\ s.live = r.live
    BY <1>1 DEF Rows, Parties
  <2> HIDE DEF s
  <2>2. Keeps(r, EndRing(s))
    BY <2>1, EndAfter
  <2>3. QED
    BY <2>2 DEF s
<1>4. Keeps(r, [r EXCEPT !.invite = "expired"])
  <2> DEFINE s == [r EXCEPT !.invite = "expired"]
  <2>1. s \in Rows /\ s.session = r.session /\ s.self = r.self /\ s.live = r.live
    BY <1>1 DEF Rows, Parties
  <2> HIDE DEF s
  <2>2. Keeps(r, s)
    BY <2>1, SameKeeps
  <2>3. QED
    BY <2>2 DEF s
<1>5. ASSUME r.live = "ringing"
      PROVE  Keeps(r, [r EXCEPT !.live = "none"])
  <2> DEFINE s == [r EXCEPT !.live = "none"]
  <2>1. s \in Rows /\ s.session = r.session /\ s.self = r.self /\ s.live = "none"
    BY <1>1 DEF Rows, Parties
  <2> HIDE DEF s
  <2>2. Keeps(r, s)
    BY <1>5, <2>1 DEF Keeps, RowOK, Agrees, StaysEnded, InCall, Open
  <2>3. QED
    BY <2>2 DEF s
<1>6. QED
  BY <1>2, <1>3, <1>4, <1>5

\* After a restart no call is joined or shown.
LEMMA AbandonKeeps ==
  ASSUME NEW r, RowOK(r)
  PROVE  Keeps(r, AbandonOrphaned(r))
<1> DEFINE s == [r EXCEPT !.live = "none"]
           t == IF InCall(s) THEN LeaveCall(s) ELSE EndRing(s)
           u == [t EXCEPT !.invite = "expired", !.self = "missed"]
<1>1. s \in Rows /\ s.session = r.session /\ s.live = "none"
  BY DEF RowOK, Rows
<1>2. AbandonOrphaned(r) = u \/ AbandonOrphaned(r) = t
  BY DEF AbandonOrphaned
<1>3. t = LeaveCall(s) \/ t = EndRing(s)
  OBVIOUS
<1> HIDE DEF s, t
<1>4. Keeps(s, t) /\ ~ InCall(t)
  BY <1>1, <1>3, LeaveKeeps, EndKeeps
<1>5. t \in Rows /\ Agrees(t) /\ StaysEnded(s, t)
  BY <1>4 DEF Keeps, RowOK
<1>6. u \in Rows /\ u.session = t.session /\ u.self = "missed" /\ u.live = t.live
  BY <1>5 DEF Rows, Parties
<1> HIDE DEF u
<1>7. Keeps(r, t)
  BY <1>1, <1>4, <1>5 DEF Keeps, RowOK, StaysEnded
<1>8. Keeps(r, u)
  BY <1>4, <1>6, <1>7 DEF Keeps, RowOK, Agrees, StaysEnded, InCall
<1>9. QED
  BY <1>2, <1>7, <1>8

\* A call rings only where it is not joined and not over.
LEMMA RingKeeps ==
  ASSUME NEW r, RowOK(r), ~ IgnoresInvite(r)
  PROVE  /\ Keeps(r, StoreRingingInvite(r))
         /\ ~ InCall(StoreRingingInvite(r))
         /\ Keeps(r, [r EXCEPT !.session = "ended"])
<1>1. /\ r \in Rows /\ r.self # "joined" /\ r.session # "ended"
      /\ r.live \notin {"calling", "joined"}
  BY DEF RowOK, Agrees, IgnoresInvite, InCall
<1>2. PICK s : s = StoreRingingInvite(r)
  OBVIOUS
<1>3. s \in Rows /\ s.self = "ringing" /\ s.live = IF r.live = "none" THEN "ringing" ELSE r.live
  BY <1>1, <1>2 DEF StoreRingingInvite, Rows, Parties
<1>4. Keeps(r, s) /\ ~ InCall(s)
  BY <1>1, <1>3 DEF Keeps, RowOK, Agrees, StaysEnded, InCall
<1>5. PICK t : t = [r EXCEPT !.session = "ended"]
  OBVIOUS
<1>6. t \in Rows /\ t.session = "ended" /\ t.self = r.self /\ t.live = r.live
  BY <1>1, <1>5 DEF Rows
<1>7. Keeps(r, t)
  BY <1>1, <1>6 DEF Keeps, RowOK, Agrees, StaysEnded, InCall, Open
<1>8. QED
  BY <1>2, <1>4, <1>5, <1>7

\* Joining makes an open call of a ring that is still shown.
LEMMA JoinKeeps ==
  ASSUME NEW r, r \in Rows
  PROVE  /\ CommitLocalJoin(r) \in Rows
         /\ CommitLocalJoin(r).live = "joined" => RowOK(CommitLocalJoin(r))
<1>1. PICK s : s = CommitLocalJoin(r)
  OBVIOUS
<1>2. s \in Rows /\ s.session = "active" /\ s.self = "joined"
  BY <1>1 DEF CommitLocalJoin, Rows, Parties
<1>3. s.live = "joined" => RowOK(s)
  BY <1>2 DEF RowOK, Agrees, InCall, Open
<1>4. QED
  BY <1>1, <1>2, <1>3

-----------------------------------------------------------------------------
(***************************************************************************)
(* What is said, and the queues it goes into.                              *)
(***************************************************************************)

\* What is told to an account are controls.
LEMMA SaidTyped ==
  /\ Said(Nothing)
  /\ \A a \in Accounts : \A ms \in SUBSET Controls : Said(Say(a, ms))
  /\ \A f, g : Said(f) /\ Said(g) => Said(Both(f, g))
<1>1. Said(Nothing)
  BY DEF Said, Nothing
<1>2. \A a \in Accounts : \A ms \in SUBSET Controls : Said(Say(a, ms))
  BY <1>1 DEF Said, Say
<1>3. \A f, g : Said(f) /\ Said(g) => Said(Both(f, g))
  BY DEF Said, Both
<1>4. QED
  BY <1>1, <1>2, <1>3

LEMMA ControlTyped ==
  ASSUME NEW c \in Calls
  PROVE  /\ \A t \in {"invite", "accept", "decline", "leave", "ended", "roster",
                      "answered"} : Control(t, c) \in Controls
         /\ \A r : Leaving(c, r) \in SUBSET Controls
<1>1. \A t \in {"invite", "accept", "decline", "leave", "ended", "roster",
                "answered"} : Control(t, c) \in Controls
  BY DEF Control, Controls
<1>2. \A r : Leaving(c, r) \in SUBSET {Control("leave", c), Control("ended", c)}
  BY DEF Leaving
<1>3. QED
  BY <1>1, <1>2

\* A device and the other account of a call are of the accounts there are.
LEMMA PartiesTyped ==
  ASSUME NEW d \in Devices, NEW c \in Calls
  PROVE  Owner[d] \in Accounts /\ Other(d, c) \in Accounts
  BY CallAssumption DEF Other

LEMMA LeavingOthersTyped ==
  ASSUME NEW d \in Devices, NEW c \in Calls, NEW x
  PROVE  Said(LeavingOthers(d, x, c))
  BY ControlTyped DEF Said, LeavingOthers

LEMMA AnsweredTyped ==
  ASSUME NEW d \in Devices, NEW c \in Calls
  PROVE  Said(TellOwnDevicesAnswered(d, c))
  BY SaidTyped, ControlTyped, PartiesTyped DEF TellOwnDevicesAnswered

LEMMA PostTyped ==
  ASSUME NEW q, WireOK(q), NEW d \in Devices, NEW f, Said(f)
  PROVE  WireOK(Post(q, d, f))
<1>1. ASSUME NEW s \in Devices, NEW t \in Devices
      PROVE  (IF s = d /\ t # d /\ f[Owner[t]] # {}
              THEN Append(q[s][t], f[Owner[t]])
              ELSE q[s][t]) \in Seq(SUBSET Controls)
  <2>1. q[s][t] \in Seq(SUBSET Controls)
    BY DEF WireOK
  <2>2. f[Owner[t]] \in SUBSET Controls
    BY CallAssumption DEF Said
  <2>3. QED
    BY <2>1, <2>2
<1>2. QED
  BY <1>1 DEF WireOK, Post

LEMMA TakenTyped ==
  ASSUME WireOK(wire), NEW s \in Devices, NEW d \in Devices, NEW m \in Coming(s, d)
  PROVE  /\ m \in Controls
         /\ Without(wire[s][d], m) \in Seq(SUBSET Controls)
         /\ WireOK(Taken(s, d, m))
<1> DEFINE q == wire[s][d]
<1>1. q \in Seq(SUBSET Controls) /\ q # <<>> /\ m \in Head(q)
  BY DEF WireOK, Coming
<1>2. Head(q) \in SUBSET Controls /\ Head(q) = q[1] /\ Tail(q) \in Seq(SUBSET Controls)
  BY <1>1
<1>3. [q EXCEPT ![1] = @ \ {m}] \in Seq(SUBSET Controls)
  BY <1>1, <1>2
<1>4. Without(q, m) \in Seq(SUBSET Controls)
  BY <1>2, <1>3 DEF Without
<1>5. QED
  BY <1>1, <1>2, <1>4 DEF WireOK, Taken

-----------------------------------------------------------------------------
(***************************************************************************)
(* The rows of a device.                                                   *)
(***************************************************************************)

\* A step that changes one device's rows well keeps the invariant on rows, and
\* ends stay ends.
LEMMA WellKeeps ==
  ASSUME Inv, NEW d \in Devices, ChangesWell(d)
  PROVE  /\ rows' \in [Devices -> [Calls -> Rows]]
         /\ RowsOK'
         /\ \A e \in Devices, c \in Calls : StaysEnded(rows[e][c], rows'[e][c])
<1>1. PICK y \in [Calls -> Rows] : rows' = [rows EXCEPT ![d] = y] /\ Fine(rows[d], y)
  BY DEF ChangesWell
<1>2. rows \in [Devices -> [Calls -> Rows]]
  BY DEF Inv, TypeOK
<1>3. rows' \in [Devices -> [Calls -> Rows]]
  BY <1>1, <1>2
<1>4. rows'[d] = y /\ \A e \in Devices : e # d => rows'[e] = rows[e]
  BY <1>1, <1>2
<1>5. RowsOK'
  <2>1. ASSUME NEW e \in Devices
        PROVE  (\A c \in Calls : RowOK(rows'[e][c])) /\ OneOf(rows'[e])
    <3>1. CASE e = d
      BY <1>1, <1>4, <3>1 DEF Fine
    <3>2. CASE e # d
      BY <1>4, <3>2 DEF Inv, RowsOK
    <3>3. QED
      BY <3>1, <3>2
  <2>2. QED
    BY <2>1 DEF RowsOK
<1>6. \A e \in Devices, c \in Calls : StaysEnded(rows[e][c], rows'[e][c])
  BY <1>1, <1>4 DEF Fine, StaysEnded
<1>7. QED
  BY <1>3, <1>5, <1>6

\* Rows that each step keeps, one by one.
LEMMA EachWell ==
  ASSUME Inv, NEW d \in Devices, NEW y \in [Calls -> Rows],
         \A k \in Calls : Keeps(rows[d][k], y[k])
  PROVE  Fine(rows[d], y)
<1>1. OneOf(rows[d])
  BY DEF Inv, RowsOK
<1>2. QED
  BY <1>1 DEF Fine, OneOf, Keeps

\* One row that is kept.
LEMMA PutWell ==
  ASSUME Inv, NEW d \in Devices, NEW c \in Calls, NEW r,
         Keeps(rows[d][c], r), Put(d, c, r)
  PROVE  ChangesWell(d)
<1>1. PICK y : y = [rows[d] EXCEPT ![c] = r]
  OBVIOUS
<1>2. rows[d] \in [Calls -> Rows] /\ \A k \in Calls : RowOK(rows[d][k])
  BY DEF Inv, TypeOK, RowsOK
<1>3. y \in [Calls -> Rows] /\ y[c] = r /\ \A k \in Calls : k # c => y[k] = rows[d][k]
  BY <1>1, <1>2 DEF Keeps, RowOK
<1>4. \A k \in Calls : Keeps(rows[d][k], y[k])
  BY <1>2, <1>3, RemoteKeeps
<1>5. Fine(rows[d], y)
  BY <1>3, <1>4, EachWell
<1>6. rows' = [rows EXCEPT ![d] = y]
  BY <1>1 DEF Put
<1>7. QED
  BY <1>3, <1>5, <1>6 DEF ChangesWell

\* Leaving the other calls.
LEMMA LeaveOthersWell ==
  ASSUME NEW x \in [Calls -> Rows], \A k \in Calls : RowOK(x[k]), NEW c \in Calls
  PROVE  /\ LeaveOthers(x, c) \in [Calls -> Rows]
         /\ LeaveOthers(x, c)[c] = x[c]
         /\ \A k \in Calls : /\ Keeps(x[k], LeaveOthers(x, c)[k])
                             /\ k # c => ~ InCall(LeaveOthers(x, c)[k])
<1>1. \A k \in Calls : x[k] \in Rows /\ Keeps(x[k], x[k]) /\ Keeps(x[k], LeaveCall(x[k]))
                       /\ ~ InCall(LeaveCall(x[k]))
  BY RemoteKeeps, LeaveKeeps
<1>2. \A k \in Calls : LeaveCall(x[k]) \in Rows
  BY <1>1 DEF Keeps, RowOK
<1>3. \A k \in Calls : LeaveOthers(x, c)[k] =
                         IF k # c /\ InCall(x[k]) THEN LeaveCall(x[k]) ELSE x[k]
  BY DEF LeaveOthers
<1>4. LeaveOthers(x, c) \in [Calls -> Rows]
  BY <1>1, <1>2 DEF LeaveOthers
<1>5. QED
  BY <1>1, <1>3, <1>4

\* One call joined, once every other was left.
LEMMA JoinWell ==
  ASSUME NEW x \in [Calls -> Rows], NEW c \in Calls, NEW r, RowOK(r),
         StaysEnded(x[c], r),
         NEW y \in [Calls -> Rows],
         \A k \in Calls : Keeps(x[k], y[k]) /\ (k # c => ~ InCall(y[k]))
  PROVE  [y EXCEPT ![c] = r] \in [Calls -> Rows] /\ Fine(x, [y EXCEPT ![c] = r])
<1>1. PICK z : z = [y EXCEPT ![c] = r]
  OBVIOUS
<1>2. z \in [Calls -> Rows] /\ z[c] = r /\ \A k \in Calls : k # c => z[k] = y[k]
  BY <1>1 DEF RowOK
<1>3. \A k \in Calls : RowOK(z[k]) /\ StaysEnded(x[k], z[k])
  BY <1>2 DEF Keeps
<1>4. \A k \in Calls : k # c => ~ InCall(z[k])
  BY <1>2
<1>5. QED
  BY <1>1, <1>2, <1>3, <1>4 DEF Fine, OneOf

\* What AcceptInvite does to rows x that a step before it kept.
LEMMA AcceptWell ==
  ASSUME Inv, NEW d \in Devices, NEW c \in Calls,
         NEW x \in [Calls -> Rows], \A k \in Calls : Keeps(rows[d][k], x[k]),
         NEW q, WireOK(q), NEW said, Said(said),
         AcceptInvite(d, c, x, q, said)
  PROVE  ChangesWell(d) /\ WireOK(wire')
<1> DEFINE y == LeaveOthers(x, c)
           left == Both(said, LeavingOthers(d, x, c))
           other == Other(d, c)
           r == CommitLocalJoin(y[c])
<1>1. \A k \in Calls : RowOK(x[k])
  BY DEF Keeps
<1>2. /\ y \in [Calls -> Rows]
      /\ y[c] = x[c]
      /\ \A k \in Calls : Keeps(x[k], y[k]) /\ (k # c => ~ InCall(y[k]))
  BY <1>1, LeaveOthersWell
<1>3. \A k \in Calls : Keeps(rows[d][k], y[k])
  <2>1. \A k \in Calls : Keeps(rows[d][k], x[k]) /\ Keeps(x[k], y[k])
    BY <1>2
  <2> HIDE DEF y
  <2>2. QED
    BY <2>1 DEF Keeps, StaysEnded
<1>4. Said(left) /\ other \in Accounts
  BY SaidTyped, LeavingOthersTyped, PartiesTyped
<1>5. \A f : Said(f) => WireOK(Post(q, d, f))
  BY PostTyped
<1>6. /\ {Control("accept", c), Control("roster", c)} \in SUBSET Controls
      /\ \A p : {Control("accept", c)} \cup Leaving(c, p) \in SUBSET Controls
  BY ControlTyped
<1>7. y[c] \in Rows
  BY <1>2
<1>8. r \in Rows /\ (r.live = "joined" => RowOK(r))
  BY <1>7, JoinKeeps
<1>9. \/ /\ rows' = [rows EXCEPT ![d] = y]
         /\ wire' = Post(q, d, left)
      \/ /\ rows' = [rows EXCEPT ![d] = [y EXCEPT ![c].invite = "expired"]]
         /\ wire' = Post(q, d, left)
      \/ /\ y[c].session # "ended"
         /\ r.live = "joined"
         /\ rows' = [rows EXCEPT ![d] = [y EXCEPT ![c] = r]]
         /\ wire' = Post(q, d, Both(left, Both(
                      Say(other, {Control("accept", c), Control("roster", c)}),
                      TellOwnDevicesAnswered(d, c))))
      \/ /\ y[c].session # "ended"
         /\ rows' = [rows EXCEPT ![d] = [y EXCEPT ![c] = LeaveCall(r)]]
         /\ wire' = Post(q, d, Both(left,
                      Say(other, {Control("accept", c)} \cup Leaving(c, r))))
  BY DEF AcceptInvite
<1> HIDE DEF y, left, other, r
<1>10. CASE /\ rows' = [rows EXCEPT ![d] = y]
            /\ wire' = Post(q, d, left)
  BY <1>2, <1>3, <1>4, <1>5, <1>10, EachWell DEF ChangesWell
<1>11. CASE /\ rows' = [rows EXCEPT ![d] = [y EXCEPT ![c].invite = "expired"]]
            /\ wire' = Post(q, d, left)
  <2>1. PICK z : z = [y EXCEPT ![c].invite = "expired"]
    OBVIOUS
  <2>2. Keeps(y[c], [y[c] EXCEPT !.invite = "expired"])
    BY <1>3, ExpireKeeps DEF Keeps
  <2>3. PICK s : s = [y[c] EXCEPT !.invite = "expired"]
    OBVIOUS
  <2>4. z[c] = s /\ \A k \in Calls : k # c => z[k] = y[k]
    BY <1>2, <2>1, <2>3
  <2>5. s \in Rows /\ Keeps(rows[d][c], s)
    BY <1>3, <2>2, <2>3 DEF Keeps, RowOK, StaysEnded
  <2>6. z \in [Calls -> Rows]
    BY <1>2, <2>1, <2>3, <2>5
  <2>7. \A k \in Calls : Keeps(rows[d][k], z[k])
    BY <1>3, <2>4, <2>5
  <2>8. Fine(rows[d], z)
    BY <2>6, <2>7, EachWell
  <2>9. QED
    BY <1>4, <1>5, <1>11, <2>1, <2>6, <2>8 DEF ChangesWell
<1>12. CASE /\ y[c].session # "ended"
            /\ r.live = "joined"
            /\ rows' = [rows EXCEPT ![d] = [y EXCEPT ![c] = r]]
            /\ wire' = Post(q, d, Both(left, Both(
                         Say(other, {Control("accept", c), Control("roster", c)}),
                         TellOwnDevicesAnswered(d, c))))
  <2>1. StaysEnded(rows[d][c], r)
    BY <1>3, <1>12 DEF Keeps, StaysEnded
  <2>2. rows[d] \in [Calls -> Rows]
    BY DEF Inv, TypeOK
  <2>3. [y EXCEPT ![c] = r] \in [Calls -> Rows] /\ Fine(rows[d], [y EXCEPT ![c] = r])
    BY <1>2, <1>3, <1>8, <1>12, <2>1, <2>2, JoinWell
  <2>4. Said(Both(left, Both(
               Say(other, {Control("accept", c), Control("roster", c)}),
               TellOwnDevicesAnswered(d, c))))
    BY <1>4, <1>6, SaidTyped, AnsweredTyped
  <2>5. QED
    BY <1>5, <1>12, <2>3, <2>4 DEF ChangesWell
<1>13. CASE /\ y[c].session # "ended"
            /\ rows' = [rows EXCEPT ![d] = [y EXCEPT ![c] = LeaveCall(r)]]
            /\ wire' = Post(q, d, Both(left,
                         Say(other, {Control("accept", c)} \cup Leaving(c, r))))
  <2>1. StaysEnded(rows[d][c], LeaveCall(r))
    BY <1>3, <1>13 DEF Keeps, StaysEnded
  <2>2. rows[d] \in [Calls -> Rows]
    BY DEF Inv, TypeOK
  <2>3. RowOK(LeaveCall(r))
    BY <1>8, LeaveKeeps DEF Keeps
  <2>4. /\ [y EXCEPT ![c] = LeaveCall(r)] \in [Calls -> Rows]
        /\ Fine(rows[d], [y EXCEPT ![c] = LeaveCall(r)])
    BY <1>2, <1>3, <2>1, <2>2, <2>3, JoinWell
  <2>5. Said(Both(left, Say(other, {Control("accept", c)} \cup Leaving(c, r))))
    BY <1>4, <1>6, SaidTyped
  <2>6. QED
    BY <1>5, <1>13, <2>4, <2>5 DEF ChangesWell
<1>14. QED
  BY <1>9, <1>10, <1>11, <1>12, <1>13

-----------------------------------------------------------------------------
(***************************************************************************)
(* The steps.                                                              *)
(***************************************************************************)

\* A step that leaves the rows alone.
LEMMA SameWell ==
  ASSUME Inv, NEW d \in Devices, rows' = rows
  PROVE  ChangesWell(d)
<1>1. PICK y : y = rows[d]
  OBVIOUS
<1>2. y \in [Calls -> Rows] /\ \A k \in Calls : Keeps(rows[d][k], y[k])
  BY <1>1, RemoteKeeps DEF Inv, TypeOK, RowsOK
<1>3. rows' = [rows EXCEPT ![d] = y]
  BY <1>1 DEF Inv, TypeOK
<1>4. QED
  BY <1>2, <1>3, EachWell DEF ChangesWell

\* What a device sends.
LEMMA SendTyped ==
  ASSUME Inv, NEW d \in Devices, NEW f, Said(f), Send(d, f)
  PROVE  WireOK(wire')
  BY PostTyped DEF Inv, TypeOK, WireOK, Send

\* StartCall.
LEMMA PlaceWell ==
  ASSUME Inv, NEW d \in Devices, NEW c \in Calls, Place(d, c)
  PROVE  ChangesWell(d) /\ WireOK(wire')
<1>1. /\ rows[d] \in [Calls -> Rows]
      /\ \A k \in Calls : RowOK(rows[d][k])
      /\ WireOK(wire)
  BY DEF Inv, TypeOK, RowsOK, WireOK
<1>2. rows[d][c].session = "none"
  BY DEF Place
<1>3. PICK p : p = [NoRow EXCEPT !.session = "ringing", !.self = "joined"]
  OBVIOUS
<1>4. PICK r : r = [p EXCEPT !.peer = "ringing", !.live = "calling"]
  OBVIOUS
<1>5. p \in Rows
  BY <1>3 DEF NoRow, Rows, Parties
<1>6. RowOK(r)
  BY <1>3, <1>4 DEF NoRow, RowOK, Agrees, InCall, Open, Rows, Parties
<1>7. CASE Put(d, c, LeaveCall(p)) /\ UNCHANGED wire
  <2>1. Keeps(p, LeaveCall(p)) /\ ~ InCall(LeaveCall(p))
    BY <1>5, LeaveKeeps
  <2>2. Keeps(rows[d][c], LeaveCall(p))
    BY <1>2, <2>1 DEF Keeps, StaysEnded
  <2>3. QED
    BY <1>1, <1>7, <2>2, PutWell
<1>8. CASE /\ rows' = [rows EXCEPT ![d] = [LeaveOthers(@, c) EXCEPT ![c] = r]]
           /\ Send(d, Both(LeavingOthers(d, rows[d], c),
                           Say(Other(d, c), {Control("invite", c)})))
  <2>1. PICK y : y = LeaveOthers(rows[d], c)
    OBVIOUS
  <2>2. /\ y \in [Calls -> Rows]
        /\ \A k \in Calls : Keeps(rows[d][k], y[k]) /\ (k # c => ~ InCall(y[k]))
    BY <1>1, <2>1, LeaveOthersWell
  <2>3. StaysEnded(rows[d][c], r)
    BY <1>2 DEF StaysEnded
  <2>4. [y EXCEPT ![c] = r] \in [Calls -> Rows] /\ Fine(rows[d], [y EXCEPT ![c] = r])
    BY <1>1, <1>6, <2>2, <2>3, JoinWell
  <2>5. rows' = [rows EXCEPT ![d] = [y EXCEPT ![c] = r]]
    BY <1>8, <2>1
  <2>6. Said(Both(LeavingOthers(d, rows[d], c), Say(Other(d, c), {Control("invite", c)})))
    BY SaidTyped, LeavingOthersTyped, ControlTyped, PartiesTyped
  <2>7. QED
    BY <1>8, <2>4, <2>5, <2>6, SendTyped DEF ChangesWell
<1>9. QED
  BY <1>3, <1>4, <1>7, <1>8 DEF Place

LEMMA ClickAcceptWell ==
  ASSUME Inv, NEW d \in Devices, NEW c \in Calls, ClickAccept(d, c)
  PROVE  ChangesWell(d) /\ WireOK(wire')
<1>1. rows[d] \in [Calls -> Rows] /\ WireOK(wire) /\ Said(Nothing)
  BY SaidTyped DEF Inv, TypeOK, WireOK
<1>2. \A k \in Calls : Keeps(rows[d][k], rows[d][k])
  BY RemoteKeeps DEF Inv, RowsOK
<1>3. AcceptInvite(d, c, rows[d], wire, Nothing)
  BY DEF ClickAccept
<1>4. QED
  BY <1>1, <1>2, <1>3, AcceptWell

LEMMA ClickDeclineWell ==
  ASSUME Inv, NEW d \in Devices, NEW c \in Calls, ClickDecline(d, c)
  PROVE  ChangesWell(d) /\ WireOK(wire')
<1>1. RowOK(rows[d][c]) /\ WireOK(wire)
  BY DEF Inv, TypeOK, RowsOK, WireOK
<1>2. Said(Both(Say(Other(d, c), {Control("decline", c)}), TellOwnDevicesAnswered(d, c)))
  BY SaidTyped, ControlTyped, PartiesTyped, AnsweredTyped
<1>3. CASE /\ Put(d, c, EndRing([rows[d][c] EXCEPT !.self = "declined", !.invite = "declined"]))
           /\ Send(d, Both(Say(Other(d, c), {Control("decline", c)}),
                           TellOwnDevicesAnswered(d, c)))
  BY <1>1, <1>2, <1>3, ExpireKeeps, PutWell, SendTyped
<1>4. CASE /\ rows[d][c].live = "ringing"
           /\ Put(d, c, [rows[d][c] EXCEPT !.live = "none"])
           /\ UNCHANGED wire
  BY <1>1, <1>4, ExpireKeeps, PutWell
<1>5. QED
  BY <1>3, <1>4 DEF ClickDecline

LEMMA LeaveWell ==
  ASSUME Inv, NEW d \in Devices, NEW c \in Calls, Leave(d, c)
  PROVE  ChangesWell(d) /\ WireOK(wire')
<1>1. rows[d][c] \in Rows
  BY DEF Inv, TypeOK
<1>2. Said(Say(Other(d, c), Leaving(c, rows[d][c])))
  BY SaidTyped, ControlTyped, PartiesTyped
<1>3. QED
  BY <1>1, <1>2, LeaveKeeps, PutWell, SendTyped DEF Leave

LEMMA ExpireWell ==
  ASSUME Inv, NEW d \in Devices, NEW c \in Calls, Expire(d, c)
  PROVE  ChangesWell(d) /\ WireOK(wire')
<1>1. RowOK(rows[d][c]) /\ WireOK(wire)
  BY DEF Inv, TypeOK, RowsOK, WireOK
<1>2. QED
  BY <1>1, ExpireKeeps, PutWell DEF Expire

\* HandleInboundInvite.
LEMMA ReceiveInviteWell ==
  ASSUME Inv, NEW s \in Devices, NEW d \in Devices, NEW m \in Coming(s, d),
         ReceiveInvite(s, d, m)
  PROVE  ChangesWell(d) /\ WireOK(wire')
<1> DEFINE c == m.call
           x == rows[d]
           rung == [x EXCEPT ![c] = StoreRingingInvite(@)]
<1>1. m \in Controls /\ WireOK(wire) /\ WireOK(Taken(s, d, m))
  BY TakenTyped DEF Inv, TypeOK, WireOK
<1>2. c \in Calls
  BY <1>1 DEF Controls
<1>3. x \in [Calls -> Rows] /\ \A k \in Calls : RowOK(x[k])
  BY DEF Inv, TypeOK, RowsOK
<1>4. CASE wire' = Taken(s, d, m) /\ UNCHANGED rows
  BY <1>1, <1>4, SameWell
<1>5. ASSUME ~ IgnoresInvite(x[c])
      PROVE  rung \in [Calls -> Rows] /\ \A k \in Calls : Keeps(x[k], rung[k])
  <2>1. PICK r : r = StoreRingingInvite(x[c])
    OBVIOUS
  <2>2. Keeps(x[c], r)
    BY <1>2, <1>3, <1>5, <2>1, RingKeeps
  <2>3. rung = [x EXCEPT ![c] = r]
    BY <2>1
  <2>4. r \in Rows
    BY <2>2 DEF Keeps, RowOK
  <2>5. QED
    BY <1>2, <1>3, <2>2, <2>3, <2>4, RemoteKeeps
<1>6. CASE /\ ~ IgnoresInvite(x[c])
           /\ rows' = [rows EXCEPT ![d] = rung]
           /\ wire' = Taken(s, d, m)
  BY <1>1, <1>5, <1>6, EachWell DEF ChangesWell
<1>7. CASE /\ ~ IgnoresInvite(x[c])
           /\ Put(d, c, [x[c] EXCEPT !.session = "ended"])
           /\ wire' = Taken(s, d, m)
  BY <1>1, <1>2, <1>3, <1>7, RingKeeps, PutWell
<1>8. ASSUME NEW k \in Calls, ~ IgnoresInvite(x[c]),
             AcceptInvite(d, c, [rung EXCEPT ![k] = LeaveCall(@)],
                          Taken(s, d, m), Say(Owner[s], Leaving(k, x[k])))
      PROVE  ChangesWell(d) /\ WireOK(wire')
  <2>1. rung \in [Calls -> Rows] /\ \A j \in Calls : Keeps(x[j], rung[j])
    BY <1>5, <1>8
  <2>2. PICK z : z = [rung EXCEPT ![k] = LeaveCall(@)]
    OBVIOUS
  <2> HIDE DEF rung
  <2>3. Keeps(rung[k], LeaveCall(rung[k]))
    BY <2>1, LeaveKeeps
  <2>4. z \in [Calls -> Rows] /\ z[k] = LeaveCall(rung[k])
        /\ \A j \in Calls : j # k => z[j] = rung[j]
    BY <2>1, <2>2, <2>3 DEF Keeps, RowOK
  <2>5. Keeps(x[k], z[k])
    BY <2>1, <2>3, <2>4 DEF Keeps, StaysEnded
  <2>6. \A j \in Calls : Keeps(rows[d][j], z[j])
    BY <2>1, <2>4, <2>5
  <2>7. Said(Say(Owner[s], Leaving(k, x[k])))
    BY SaidTyped, ControlTyped, CallAssumption
  <2>8. AcceptInvite(d, c, z, Taken(s, d, m), Say(Owner[s], Leaving(k, x[k])))
    BY <1>8, <2>2 DEF rung
  <2>9. QED
    BY <1>1, <1>2, <2>4, <2>6, <2>7, <2>8, AcceptWell
<1>9. QED
  BY <1>4, <1>6, <1>7, <1>8 DEF ReceiveInvite, Crossing

\* A control that a row takes or, from one who is not in the call, does not.
LEMMA TakeWell ==
  ASSUME Inv, NEW s \in Devices, NEW d \in Devices, NEW m \in Coming(s, d), NEW r,
         Keeps(rows[d][m.call], r),
         Take(s, d, m, r) \/ TakeFromParty(s, d, m, r)
  PROVE  ChangesWell(d) /\ WireOK(wire')
<1>1. m \in Controls /\ WireOK(Taken(s, d, m))
  BY TakenTyped DEF Inv, TypeOK, WireOK
<1>2. m.call \in Calls
  BY <1>1 DEF Controls
<1>3. Keeps(rows[d][m.call], rows[d][m.call])
  BY <1>2, RemoteKeeps DEF Inv, RowsOK
<1>4. PICK t \in {r, rows[d][m.call]} : Take(s, d, m, t)
  BY DEF TakeFromParty
<1>5. Keeps(rows[d][m.call], t) /\ Put(d, m.call, t) /\ wire' = Taken(s, d, m)
  BY <1>3, <1>4 DEF Take
<1>6. QED
  BY <1>1, <1>2, <1>5, PutWell

\* The other's accept, by its control or by its media.
LEMMA RemoteJoinedWell ==
  ASSUME Inv, NEW d \in Devices, NEW c \in Calls, NEW q, WireOK(q),
         RemoteJoined(d, c, q)
  PROVE  ChangesWell(d) /\ WireOK(wire')
<1>1. RowOK(rows[d][c])
  BY DEF Inv, RowsOK
<1>2. ChangesWell(d)
  BY <1>1, RemoteKeeps, PutWell DEF RemoteJoined
<1>3. Said(Say(Other(d, c), {Control("roster", c)}))
  BY SaidTyped, ControlTyped, PartiesTyped
<1>4. WireOK(wire')
  BY <1>3, PostTyped DEF RemoteJoined
<1>5. QED
  BY <1>2, <1>4

LEMMA ReceiveWell ==
  ASSUME Inv, NEW s \in Devices, NEW d \in Devices, NEW m \in Coming(s, d),
         Receive(s, d, m)
  PROVE  ChangesWell(d) /\ WireOK(wire')
<1>1. m \in Controls /\ WireOK(Taken(s, d, m))
  BY TakenTyped DEF Inv, TypeOK, WireOK
<1>2. m.call \in Calls
  BY <1>1 DEF Controls
<1>3. RowOK(rows[d][m.call])
  BY <1>2 DEF Inv, RowsOK
<1>4. CASE ReceiveInvite(s, d, m)
  BY <1>4, ReceiveInviteWell
<1>5. CASE ReceiveAccept(s, d, m)
  <2>1. CASE RemoteJoined(d, m.call, Taken(s, d, m))
    BY <1>1, <1>2, <2>1, RemoteJoinedWell
  <2>2. CASE wire' = Taken(s, d, m) /\ UNCHANGED rows
    BY <1>1, <2>2, SameWell
  <2>3. QED
    BY <1>5, <2>1, <2>2 DEF ReceiveAccept
<1>6. CASE ReceiveDecline(s, d, m)
  BY <1>3, <1>6, GoneKeeps, TakeWell DEF ReceiveDecline
<1>7. CASE ReceiveLeave(s, d, m)
  BY <1>3, <1>7, GoneKeeps, TakeWell DEF ReceiveLeave
<1>8. CASE ReceiveEnded(s, d, m)
  BY <1>3, <1>8, GoneKeeps, TakeWell DEF ReceiveEnded
<1>9. CASE ReceiveRoster(s, d, m)
  BY <1>3, <1>9, RemoteKeeps, TakeWell DEF ReceiveRoster
<1>10. CASE ReceiveAnswered(s, d, m)
  BY <1>3, <1>10, RemoteKeeps, TakeWell DEF ReceiveAnswered
<1>11. QED
  BY <1>4, <1>5, <1>6, <1>7, <1>8, <1>9, <1>10 DEF Receive

LEMMA RestartWell ==
  ASSUME Inv, NEW d \in Devices, Restart(d)
  PROVE  ChangesWell(d) /\ WireOK(wire')
<1>1. PICK y : y = [c \in Calls |-> AbandonOrphaned(rows[d][c])]
  OBVIOUS
<1>2. \A k \in Calls : Keeps(rows[d][k], AbandonOrphaned(rows[d][k]))
  BY AbandonKeeps DEF Inv, RowsOK
<1>3. y \in [Calls -> Rows] /\ \A k \in Calls : Keeps(rows[d][k], y[k])
  BY <1>1, <1>2 DEF Keeps, RowOK
<1>4. rows' = [rows EXCEPT ![d] = y]
  BY <1>1 DEF Restart
<1>5. PICK f : f = [a \in Accounts |->
                     UNION {Leaving(c, rows[d][c]) :
                              c \in {k \in Calls : /\ InCall(rows[d][k])
                                                   /\ Other(d, k) = a}}]
  OBVIOUS
<1>6. Said(f)
  BY <1>5, ControlTyped DEF Said
<1>7. Send(d, f)
  BY <1>5 DEF Restart
<1>8. QED
  BY <1>3, <1>4, <1>6, <1>7, EachWell, SendTyped DEF ChangesWell

LEMMA FaultWell ==
  ASSUME Inv, NEW s \in Devices, NEW d \in Devices, NEW m \in Coming(s, d),
         Lose(s, d, m) \/ Delay(s, d, m) \/ Repeat(s, d, m)
  PROVE  ChangesWell(d) /\ WireOK(wire')
<1>1. /\ m \in Controls
      /\ WireOK(wire)
      /\ wire[s][d] \in Seq(SUBSET Controls)
      /\ Without(wire[s][d], m) \in Seq(SUBSET Controls)
  BY TakenTyped DEF Inv, TypeOK, WireOK
<1>2. PICK q \in Seq(SUBSET Controls) : Fault(s, d, q)
  <2>1. CASE Lose(s, d, m)
    BY <1>1, <2>1 DEF Lose
  <2>2. CASE Delay(s, d, m)
    <3>1. Append(Without(wire[s][d], m), {m}) \in Seq(SUBSET Controls)
      BY <1>1
    <3>2. QED
      BY <2>2, <3>1 DEF Delay
  <2>3. CASE Repeat(s, d, m)
    <3>1. Append(wire[s][d], {m}) \in Seq(SUBSET Controls)
      BY <1>1
    <3>2. QED
      BY <2>3, <3>1 DEF Repeat
  <2>4. QED
    BY <2>1, <2>2, <2>3
<1>3. rows' = rows /\ wire' = [wire EXCEPT ![s][d] = q]
  BY <1>2 DEF Fault
<1>4. WireOK(wire')
  BY <1>1, <1>2, <1>3 DEF WireOK
<1>5. QED
  BY <1>3, <1>4, SameWell

-----------------------------------------------------------------------------
(***************************************************************************)
(* The invariant.                                                          *)
(***************************************************************************)

\* Every step changes the rows of one device, and those well.
LEMMA NextWell ==
  ASSUME Inv, Next
  PROVE  (\E d \in Devices : ChangesWell(d)) /\ WireOK(wire')
<1>1. ASSUME NEW d \in Devices, NEW c \in Calls, UserStep(d, c)
      PROVE  ChangesWell(d) /\ WireOK(wire')
  <2>1. CASE Place(d, c)
    BY <2>1, PlaceWell
  <2>2. CASE ClickAccept(d, c)
    BY <2>2, ClickAcceptWell
  <2>3. CASE ClickDecline(d, c)
    BY <2>3, ClickDeclineWell
  <2>4. CASE ClickLeave(d, c)
    BY <2>4, LeaveWell DEF ClickLeave
  <2>5. QED
    BY <1>1, <2>1, <2>2, <2>3, <2>4 DEF UserStep
<1>2. ASSUME NEW d \in Devices, NEW c \in Calls, GiveUpUnanswered(d, c)
      PROVE  ChangesWell(d) /\ WireOK(wire')
  BY <1>2, LeaveWell DEF GiveUpUnanswered
<1>3. ASSUME NEW s \in Devices, NEW d \in Devices, NEW c \in Calls, HearAnswer(s, d, c)
      PROVE  ChangesWell(d) /\ WireOK(wire')
  <2>1. WireOK(wire)
    BY DEF Inv, TypeOK, WireOK
  <2>2. QED
    BY <1>3, <2>1, RemoteJoinedWell DEF HearAnswer
<1>4. QED
  BY <1>1, <1>2, <1>3, ExpireWell, ReceiveWell, RestartWell, FaultWell DEF Next

\* The bounds.
LEMMA BoundsKept ==
  ASSUME Inv, Next
  PROVE  faults' \in 0..MaxFaults /\ restarts' \in 0..MaxRestarts
<1>1. faults \in 0..MaxFaults /\ restarts \in 0..MaxRestarts
  BY DEF Inv, TypeOK
<1>2. CASE \E d \in Devices, c \in Calls : UserStep(d, c)
  BY <1>1, <1>2 DEF UserStep, Place, ClickAccept, ClickDecline, ClickLeave, Leave
<1>3. CASE \E d \in Devices, c \in Calls : Expire(d, c) \/ GiveUpUnanswered(d, c)
  BY <1>1, <1>3 DEF Expire, GiveUpUnanswered, Leave
<1>4. ASSUME NEW s \in Devices, NEW d \in Devices, NEW m \in Coming(s, d), Receive(s, d, m)
      PROVE  UNCHANGED <<faults, restarts>>
  BY <1>4 DEF Receive, ReceiveInvite, ReceiveAccept, ReceiveDecline, ReceiveLeave,
              ReceiveEnded, ReceiveRoster, ReceiveAnswered, TakeFromParty, Take
<1>5. CASE \E s, d \in Devices, c \in Calls : HearAnswer(s, d, c)
  BY <1>1, <1>5 DEF HearAnswer
<1>6. CASE \E d \in Devices : Restart(d)
  BY <1>1, <1>6, CallAssumption DEF Restart
<1>7. ASSUME NEW s \in Devices, NEW d \in Devices, NEW q, Fault(s, d, q)
      PROVE  faults' \in 0..MaxFaults /\ restarts' \in 0..MaxRestarts
  BY <1>1, <1>7, CallAssumption DEF Fault
<1>8. QED
  BY <1>1, <1>2, <1>3, <1>4, <1>5, <1>6, <1>7 DEF Next, Lose, Delay, Repeat

LEMMA InitInv == Init => Inv
<1> SUFFICES ASSUME Init PROVE Inv
  OBVIOUS
<1>1. NoRow \in Rows
  BY DEF NoRow, Rows, Parties
<1>2. RowOK(NoRow) /\ ~ InCall(NoRow)
  BY <1>1 DEF NoRow, RowOK, Agrees, InCall, Open
<1>3. \A d \in Devices, c \in Calls : rows[d][c] = NoRow
  BY DEF Init
<1>4. TypeOK
  BY <1>1, CallAssumption DEF Init, TypeOK
<1>5. RowsOK
  BY <1>2, <1>3 DEF RowsOK, OneOf
<1>6. QED
  BY <1>4, <1>5 DEF Inv

LEMMA NextInv == Inv /\ [Next]_vars => Inv'
<1>1. ASSUME Inv, Next
      PROVE  Inv'
  <2>1. PICK d \in Devices : ChangesWell(d)
    BY <1>1, NextWell
  <2>2. rows' \in [Devices -> [Calls -> Rows]] /\ RowsOK'
    BY <1>1, <2>1, WellKeeps
  <2>3. TypeOK'
    BY <1>1, <2>2, NextWell, BoundsKept DEF TypeOK, WireOK
  <2>4. QED
    BY <2>2, <2>3 DEF Inv
<1>2. ASSUME Inv, UNCHANGED vars
      PROVE  Inv'
  BY <1>2 DEF Inv, TypeOK, RowsOK, OneOf, vars
<1>3. QED
  BY <1>1, <1>2

\* The invariant holds in every behaviour.
THEOREM Invariance == Spec => []Inv
BY InitInv, NextInv, PTL DEF Spec

\* Types, and the bounds on faults and restarts.
THEOREM TypeCorrect == Spec => []TypeOK
<1>1. Inv => TypeOK
  BY DEF Inv
<1>2. QED
  BY <1>1, Invariance, PTL

\* A device is in one call at a time: AcceptInvite and StartCall leave every
\* other (LeaveCallIfActiveExcept) before they join theirs, and no control that
\* arrives joins one.
THEOREM InOneCall == Spec => []OneActiveCall
<1>1. Inv => OneActiveCall
  BY DEF Inv, RowsOK, OneOf, OneActiveCall
<1>2. QED
  BY <1>1, Invariance, PTL

\* The call a device shows is the call it stored: every handler writes both.
THEOREM ShowsWhatIsStored == Spec => []LiveMatchesStore
<1>1. Inv => LiveMatchesStore
  BY DEF Inv, RowsOK, RowOK, Agrees, LiveMatchesStore
<1>2. QED
  BY <1>1, Invariance, PTL

\* A call that ended on a device never opens or rings there again, whatever
\* invite or accept is repeated or comes late.
THEOREM NeverReopens == Spec => EndedIsFinal
<1>1. ASSUME Inv, [Next]_vars
      PROVE  \A d \in Devices, c \in Calls :
               rows[d][c].session = "ended" =>
                 /\ rows'[d][c].session = "ended"
                 /\ rows'[d][c].live \in {"none", rows[d][c].live}
  <2>1. CASE Next
    <3>1. PICK d \in Devices : ChangesWell(d)
      BY <1>1, <2>1, NextWell
    <3>2. QED
      BY <1>1, <3>1, WellKeeps DEF StaysEnded
  <2>2. CASE UNCHANGED vars
    BY <2>2 DEF vars
  <2>3. QED
    BY <1>1, <2>1, <2>2
<1>2. QED
  BY <1>1, Invariance, PTL DEF Spec, EndedIsFinal

-----------------------------------------------------------------------------
(***************************************************************************)
(* The two ends of a call: what their rows are, and what a step of either  *)
(* does to its row and says.                                               *)
(***************************************************************************)

Types == {"invite", "accept", "decline", "leave", "ended", "roster", "answered"}

Ends == {"leave", "ended"}

HasAnswered(r) == r.self \in {"joined", "left", "declined"}

\* The row of the device that places the call.
CallerRow(r) ==
  /\ r.invite = "none" /\ r.live # "ringing"
  /\ r.session = "none" => r = NoRow
  /\ r.session # "none" => r.self \in {"joined", "left"}
  /\ r.session = "active" => r.peer = "joined"
  /\ InCall(r) => r.peer \in {"ringing", "joined", "left"}

\* The row of a device that is called.
CalleeRow(r) ==
  /\ r.session = "none" => r = NoRow
  /\ r.session = "ringing" =>
       r.peer = "joined" /\ r.self = "ringing" /\ r.invite \in {"pending", "expired"}
  /\ r.session = "active" =>
       r.peer = "joined" /\ r.self = "joined" /\ r.invite = "accepted"
  /\ r.live = "ringing" => Open(r)
  /\ r.invite = "pending" => r.self = "ringing"
  /\ r.invite = "accepted" => r.self \in {"joined", "left"}
  /\ r.invite = "declined" => r.self = "declined"
  /\ HasAnswered(r) => r.invite \notin {"none", "pending"}

\* A step of the caller from row r to row t, which takes a control of type tk
\* about the call ("heard": the other's media; "nothing") and says out.
CallerStep(r, t, out, tk) ==
  /\ CallerRow(t)
  /\ r.session # "none" => t.session # "none"
  /\ out \subseteq {"invite", "leave", "ended", "roster"}
  /\ out # {} => t.session # "none"
  /\ "invite" \in out => InCall(t)
  /\ IF r = NoRow THEN out \subseteq {"invite"} ELSE "invite" \notin out
  /\ out \cap Ends # {} => ~ InCall(t)
  /\ InCall(t) => InCall(r) \/ (r = NoRow /\ t.peer = "ringing" /\ t.session = "ringing")
  /\ InCall(r) /\ ~ InCall(t) =>
       out \cap Ends # {} \/ r.peer = "left" \/ tk \in Ends \cup {"decline"}
  /\ InCall(t) /\ t.session = "active" =>
       \/ r.session = "active" /\ tk \notin Ends
       \/ tk \in {"accept", "heard"} /\ r.peer \in {"ringing", "joined"}
  /\ InCall(t) /\ r.session = "active" => t.session = "active"
  /\ InCall(t) /\ tk = "accept" => t.session = "active" \/ r.peer = "left"
  /\ InCall(t) /\ tk \in Ends => t.peer = "left"
  /\ InCall(r) /\ InCall(t) /\ t.peer # "left" => r.peer # "left"
  /\ InCall(r) /\ InCall(t) /\ t.peer # r.peer =>
       \/ t.peer = "joined" /\ tk \in {"accept", "roster", "heard"}
       \/ t.peer = "left" /\ tk = "leave"

\* A step of a device that is called, which tells the other devices of its
\* account own.
CalleeStep(r, t, out, own, tk) ==
  /\ CalleeRow(t)
  /\ r.session # "none" => t.session # "none"
  /\ r.session = "none" /\ t.session # "none" => tk = "invite"
  /\ out \subseteq {"accept", "decline", "leave", "ended", "roster"}
  /\ own \subseteq {"answered"}
  /\ "decline" \in out => t.self = "declined"
  /\ out \cap Ends # {} => t.self = "left"
  /\ out \cap {"accept", "roster"} # {} => t.self \in {"joined", "left"}
  /\ own # {} => HasAnswered(t)
  /\ r.self \in {"left", "declined"} => t.self = r.self
  /\ r.self = "joined" => t.self \in {"joined", "left"}
  /\ Open(t) => (Open(r) \/ tk = "invite") /\ tk \notin Ends
  /\ InCall(t) => InCall(r) \/ "accept" \in out
  /\ InCall(r) => InCall(t) \/ out \cap Ends # {} \/ tk \in Ends
  /\ "accept" \in out => InCall(t) \/ out \cap Ends # {}
  /\ t.invite = "pending" => r.invite = "pending" \/ tk = "invite"
  /\ t.invite = "none" /\ t.session # "none" =>
       (r.invite = "none" /\ r.session # "none") \/ tk = "invite"

\* The types of what leaving says.
Parting(r) ==
  IF ~ Open(r) \/ r.self = "left"
  THEN {}
  ELSE {t \in Ends :
          \/ t = "leave" /\ r.peer = "joined"
          \/ /\ t = "ended"
             /\ EndsOnLeave(r, r.peer = "joined")
             /\ r.peer \in {"joined", "ringing"}}

\* A row once the call is left, and what that says.
Left(r) == IF InCall(r) THEN LeaveCall(r) ELSE r

LeftSays(r) == IF InCall(r) THEN Parting(r) ELSE {}

-----------------------------------------------------------------------------
(***************************************************************************)
(* The rows of the caller.                                                 *)
(***************************************************************************)

LEMMA NoRowFacts ==
  /\ NoRow \in Rows /\ RowOK(NoRow)
  /\ NoRow.session = "none" /\ NoRow.self = "none" /\ NoRow.peer = "none"
  /\ NoRow.invite = "none" /\ NoRow.live = "none"
  /\ ~ Open(NoRow) /\ ~ InCall(NoRow) /\ ~ HasAnswered(NoRow)
  /\ CallerRow(NoRow) /\ CalleeRow(NoRow)
<1>1. NoRow \in Rows /\ ~ InCall(NoRow)
  BY DEF NoRow, Rows, Parties, InCall, Open
<1>2. RowOK(NoRow)
  BY <1>1 DEF NoRow, RowOK, Agrees
<1>3. QED
  BY <1>1, <1>2 DEF NoRow, CallerRow, CalleeRow, HasAnswered, Open, InCall

\* A row is not that of no call once it has a session.
LEMMA CallerIdles ==
  ASSUME NEW r \in Rows, CallerRow(r), NEW tk, tk \notin Ends \cup {"accept"}
  PROVE  CallerStep(r, r, {}, tk)
BY NoRowFacts DEF CallerStep, CallerRow, Ends, InCall

\* Controls of someone who is not in the call any more are dropped.
LEMMA CallerDrops ==
  ASSUME NEW r \in Rows, CallerRow(r), r.peer \notin {"ringing", "joined"}, NEW tk
  PROVE  CallerStep(r, r, {}, tk)
BY NoRowFacts DEF CallerStep, CallerRow, Ends, InCall

\* Leaving a call one is in.
LEMMA LeaveCallFields ==
  ASSUME NEW r \in Rows, InCall(r)
  PROVE  LET t == LeaveCall(r) IN
         /\ t \in Rows /\ t.self = "left" /\ t.peer = r.peer /\ t.invite = r.invite /\ t.live = "none"
         /\ t.session = IF EndsOnLeave(r, r.peer = "joined") THEN "ended" ELSE r.session
         /\ ~ InCall(t)
<1>1. PICK g : g = [r EXCEPT !.self = "left", !.live = "none"]
  OBVIOUS
<1>2. /\ g \in Rows /\ g.self = "left" /\ g.peer = r.peer /\ g.invite = r.invite
      /\ g.live = "none" /\ g.session = r.session
  BY <1>1 DEF Rows, Parties
<1>3. PICK e : e = EndCallLocal(g)
  OBVIOUS
<1>4. /\ e \in Rows /\ e.self = "left" /\ e.peer = r.peer /\ e.invite = r.invite
      /\ e.live = "none" /\ e.session = "ended"
  BY <1>2, <1>3 DEF EndCallLocal, Rows
<1>5. LeaveCall(r) = IF EndsOnLeave(r, r.peer = "joined") THEN e ELSE g
  BY <1>1, <1>3 DEF LeaveCall, InCall
<1>6. QED
  BY <1>2, <1>4, <1>5 DEF InCall

\* So does whoever leaves every call it is in.
LEMMA CallerLeaves ==
  ASSUME NEW r \in Rows, CallerRow(r), NEW tk, tk \notin Ends \cup {"accept"}
  PROVE  CallerStep(r, Left(r), LeftSays(r), tk)
<1>1. CASE ~ InCall(r)
  BY <1>1, CallerIdles DEF Left, LeftSays
<1>2. CASE InCall(r)
  <2>1. PICK t : t = Left(r)
    OBVIOUS
  <2>2. /\ t \in Rows /\ t.self = "left" /\ t.peer = r.peer /\ t.invite = r.invite /\ t.live = "none"
        /\ t.session = IF EndsOnLeave(r, r.peer = "joined") THEN "ended" ELSE r.session
        /\ ~ InCall(t)
    BY <1>2, <2>1, LeaveCallFields DEF Left
  <2>3. /\ r.session \in {"ringing", "active"} /\ r.self = "joined" /\ r # NoRow
        /\ r.peer \in {"ringing", "joined", "left"}
    BY <1>2, NoRowFacts DEF InCall, Open, CallerRow
  <2>4. CallerRow(t)
    BY <2>2, <2>3 DEF CallerRow, EndsOnLeave
  <2>5. LeftSays(r) \subseteq Ends /\ (r.peer # "left" => LeftSays(r) \cap Ends # {})
    <3>1. LeftSays(r) = {u \in Ends :
              \/ u = "leave" /\ r.peer = "joined"
              \/ /\ u = "ended"
                 /\ EndsOnLeave(r, r.peer = "joined")
                 /\ r.peer \in {"joined", "ringing"}}
      BY <1>2, <2>3 DEF LeftSays, Parting, Open
    <3>2. r.peer = "joined" => "leave" \in LeftSays(r)
      BY <3>1 DEF Ends
    <3>3. r.peer = "ringing" => "ended" \in LeftSays(r)
      BY <3>1 DEF Ends, EndsOnLeave
    <3>4. QED
      BY <2>3, <3>1, <3>2, <3>3 DEF Ends
  <2>6. QED
    BY <1>2, <2>1, <2>2, <2>3, <2>4, <2>5 DEF CallerStep, Ends
<1>3. QED
  BY <1>1, <1>2

\* StartCall: a call that cannot be sent is over, another one rings there.
LEMMA CallerPlaces ==
  ASSUME NEW p, p = [NoRow EXCEPT !.session = "ringing", !.self = "joined"]
  PROVE  /\ CallerStep(NoRow, LeaveCall(p), {}, "nothing")
         /\ CallerStep(NoRow, [p EXCEPT !.peer = "ringing", !.live = "calling"], {"invite"}, "nothing")
<1>1. /\ p \in Rows /\ p.session = "ringing" /\ p.self = "joined" /\ p.peer = "none"
      /\ p.invite = "none" /\ p.live = "none"
  BY DEF NoRow, Rows, Parties
<1>2. InCall(p)
  BY <1>1 DEF InCall, Open
<1>3. CallerStep(NoRow, LeaveCall(p), {}, "nothing")
  <2>1. PICK t : t = LeaveCall(p)
    OBVIOUS
  <2>2. /\ t.self = "left" /\ t.peer = "none" /\ t.invite = "none" /\ t.live = "none"
        /\ t.session = "ended" /\ ~ InCall(t)
    BY <1>1, <1>2, <2>1, LeaveCallFields DEF EndsOnLeave
  <2>3. QED
    BY <2>1, <2>2, NoRowFacts DEF CallerStep, CallerRow
<1>4. CallerStep(NoRow, [p EXCEPT !.peer = "ringing", !.live = "calling"], {"invite"}, "nothing")
  <2>1. PICK t : t = [p EXCEPT !.peer = "ringing", !.live = "calling"]
    OBVIOUS
  <2>2. /\ t.self = "joined" /\ t.peer = "ringing" /\ t.invite = "none" /\ t.live = "calling"
        /\ t.session = "ringing"
    BY <1>1, <2>1 DEF Rows
  <2>3. InCall(t)
    BY <2>2 DEF InCall, Open
  <2>4. QED
    BY <2>1, <2>2, <2>3, NoRowFacts DEF CallerStep, CallerRow, Ends
<1>5. QED
  BY <1>3, <1>4

\* What the caller hears of the others.
LEMMA CallerHears ==
  ASSUME NEW r \in Rows, CallerRow(r), NEW tk \in {"accept", "heard"},
         tk = "heard" \/ r.peer \in {"ringing", "joined"},
         tk = "heard" => InCall(r) /\ r.peer = "ringing",
         r.session # "none"
  PROVE  CallerStep(r, ApplyRemoteAccept(r), IF Open(r) THEN {"roster"} ELSE {}, tk)
<1>1. PICK t : t = ApplyRemoteAccept(r)
  OBVIOUS
<1>2. t \in Rows /\ t.self = r.self /\ t.peer = "joined" /\ t.invite = r.invite
  BY <1>1 DEF ApplyRemoteAccept, Rows, Parties
<1>3. /\ t.session = IF Open(r) THEN "active" ELSE r.session
      /\ t.live = IF Open(r) /\ r.live = "calling" THEN "joined" ELSE r.live
  BY <1>1 DEF ApplyRemoteAccept, Rows, Parties
<1>4. CallerRow(t)
  BY <1>2, <1>3 DEF CallerRow, InCall, Open
<1>5. CASE Open(r)
  BY <1>1, <1>2, <1>3, <1>4, <1>5, NoRowFacts DEF CallerStep, CallerRow, Ends, InCall, Open
<1>6. CASE ~ Open(r)
  BY <1>1, <1>2, <1>3, <1>4, <1>6, NoRowFacts DEF CallerStep, CallerRow, Ends, InCall, Open
<1>7. QED
  BY <1>5, <1>6

LEMMA CallerIsDeclined ==
  ASSUME NEW r \in Rows, CallerRow(r), r.session # "none"
  PROVE  CallerStep(r, AfterDecline(r), {}, "decline")
<1>1. PICK t : t = AfterDecline(r)
  OBVIOUS
<1>2. /\ t \in Rows /\ t.self = r.self /\ t.peer = "declined" /\ t.invite = r.invite
      /\ t.session = (IF Open(r) THEN "ended" ELSE r.session)
      /\ t.live = (IF Open(r) THEN "none" ELSE r.live)
  BY <1>1 DEF AfterDecline, EndCallLocal, Rows, Parties
<1>3. QED
  BY <1>1, <1>2, NoRowFacts DEF CallerStep, CallerRow, Ends, InCall, Open

LEMMA CallerIsLeft ==
  ASSUME NEW r \in Rows, CallerRow(r), r.session # "none"
  PROVE  /\ CallerStep(r, ParticipantGone(r), {}, "leave")
         /\ CallerStep(r, AfterEnded(r), {}, "ended")
<1>1. CallerStep(r, ParticipantGone(r), {}, "leave")
  <2>1. PICK t : t = ParticipantGone(r)
    OBVIOUS
  <2>2. /\ t \in Rows /\ t.self = r.self /\ t.peer = "left" /\ t.invite = r.invite
        /\ t.session = (IF Open(r) /\ EndsOnLeave(r, r.self = "joined") THEN "ended" ELSE r.session)
        /\ t.live = (IF Open(r) /\ EndsOnLeave(r, r.self = "joined") THEN "none" ELSE r.live)
    BY <2>1 DEF ParticipantGone, EndCallLocal, Rows, Parties
  <2>3. QED
    BY <2>1, <2>2, NoRowFacts DEF CallerStep, CallerRow, Ends, InCall, Open, EndsOnLeave
<1>2. CallerStep(r, AfterEnded(r), {}, "ended")
  <2>1. PICK t : t = AfterEnded(r)
    OBVIOUS
  <2>2. /\ t \in Rows /\ t.self = r.self /\ t.invite = "none"
        /\ t.peer = (IF r.peer = "joined" THEN "left" ELSE r.peer)
        /\ t.session = (IF Open(r) THEN "ended" ELSE r.session)
        /\ t.live = (IF Open(r) THEN "none" ELSE r.live)
    BY <2>1 DEF AfterEnded, EndCallLocal, CallerRow, Rows, Parties
  <2>3. QED
    BY <2>1, <2>2, NoRowFacts DEF CallerStep, CallerRow, Ends, InCall, Open
<1>3. QED
  BY <1>1, <1>2

LEMMA CallerIsListed ==
  ASSUME NEW r \in Rows, CallerRow(r), r.peer \in {"ringing", "joined"}, r.session # "none"
  PROVE  CallerStep(r, ApplyCallRoster(r), {}, "roster")
<1>1. PICK t : t = ApplyCallRoster(r)
  OBVIOUS
<1>2. /\ t \in Rows /\ t.self = r.self /\ t.invite = r.invite /\ t.live = r.live
      /\ t.session = r.session /\ t.peer = "joined"
  BY <1>1 DEF ApplyCallRoster, Rows, Parties
<1>3. QED
  BY <1>1, <1>2, NoRowFacts DEF CallerStep, CallerRow, Ends, InCall, Open

\* After a restart.
LEMMA CallerRestarts ==
  ASSUME NEW r, RowOK(r), CallerRow(r)
  PROVE  CallerStep(r, AbandonOrphaned(r), LeftSays(r), "nothing")
<1>1. PICK s : s = [r EXCEPT !.live = "none"]
  OBVIOUS
<1>2. /\ r \in Rows /\ s \in Rows /\ s.self = r.self /\ s.peer = r.peer /\ s.invite = "none"
      /\ s.live = "none" /\ s.session = r.session
  BY <1>1 DEF RowOK, Rows, CallerRow
<1>3. CASE InCall(r)
  <2>1. InCall(s)
    BY <1>2, <1>3 DEF InCall, Open
  <2>2. /\ EndCallLocal([s EXCEPT !.self = "left", !.live = "none"]) =
             EndCallLocal([r EXCEPT !.self = "left", !.live = "none"])
        /\ [s EXCEPT !.self = "left", !.live = "none"] = [r EXCEPT !.self = "left", !.live = "none"]
    BY <1>1, <1>2 DEF Rows
  <2>3. LeaveCall(s) = LeaveCall(r)
    BY <1>2, <1>3, <2>1, <2>2 DEF LeaveCall, InCall, Open, EndsOnLeave
  <2>4. LeaveCall(s).invite = "none"
    BY <1>2, <2>1, LeaveCallFields
  <2>5. AbandonOrphaned(r) = Left(r)
    BY <1>1, <1>3, <2>1, <2>3, <2>4 DEF AbandonOrphaned, Left
  <2>6. QED
    BY <1>2, <2>5, CallerLeaves DEF Ends
<1>4. CASE ~ InCall(r)
  <2>1. ~ InCall(s)
    BY <1>2, <1>4 DEF InCall, Open
  <2>2. PICK t : t = EndRing(s)
    OBVIOUS
  <2>3. /\ t \in Rows /\ t.self = r.self /\ t.peer = r.peer /\ t.invite = "none" /\ t.live = "none"
        /\ t.session = (IF Open(r) THEN "ended" ELSE r.session)
    BY <1>2, <2>2 DEF EndRing, EndCallLocal, Open, Rows
  <2>4. AbandonOrphaned(r) = t
    BY <1>1, <2>1, <2>2, <2>3 DEF AbandonOrphaned
  <2>5. ~ Open(r) => t = r
    <3>1. SUFFICES ASSUME ~ Open(r) PROVE t = r
      OBVIOUS
    <3>2. r.live = "none"
      BY <1>4, <1>2 DEF RowOK, Agrees, CallerRow, Rows
    <3>3. QED
      BY <1>2, <2>3, <3>1, <3>2 DEF Rows, CallerRow
  <2>6. LeftSays(r) = {}
    BY <1>4 DEF LeftSays
  <2>7. CASE ~ Open(r)
    BY <1>2, <2>4, <2>5, <2>6, <2>7, CallerIdles DEF Ends
  <2>8. CASE Open(r)
    BY <1>2, <1>4, <2>3, <2>4, <2>6, <2>8, NoRowFacts DEF CallerStep, CallerRow, Ends, InCall, Open
  <2>9. QED
    BY <2>7, <2>8
<1>5. QED
  BY <1>3, <1>4

-----------------------------------------------------------------------------
(***************************************************************************)
(* The rows of a device that is called.                                    *)
(***************************************************************************)

LEMMA CalleeIdles ==
  ASSUME NEW r \in Rows, CalleeRow(r), NEW tk, tk \in Ends => ~ Open(r)
  PROVE  CalleeStep(r, r, {}, {}, tk)
BY DEF CalleeStep, CalleeRow, HasAnswered, InCall

\* The only row that is in its call is active, and knows the caller in it.
LEMMA CalleeInCall ==
  ASSUME NEW r \in Rows, CalleeRow(r)
  PROVE  InCall(r) <=> r.session = "active"
BY DEF InCall, Open, CalleeRow

\* A device that is called leaves.
LEMMA CalleeLeaves ==
  ASSUME NEW r \in Rows, CalleeRow(r), NEW tk, tk \notin Ends
  PROVE  CalleeStep(r, Left(r), LeftSays(r), {}, tk)
<1>1. CASE ~ InCall(r)
  BY <1>1, CalleeIdles DEF Left, LeftSays
<1>2. CASE InCall(r)
  <2>1. PICK t : t = Left(r)
    OBVIOUS
  <2>2. /\ r.session = "active" /\ r.peer = "joined" /\ r.self = "joined" /\ r.invite = "accepted"
        /\ Open(r)
    BY <1>2, CalleeInCall DEF CalleeRow, Open
  <2>3. /\ t \in Rows /\ t.self = "left" /\ t.peer = r.peer /\ t.invite = r.invite /\ t.live = "none"
        /\ t.session = "ended" /\ ~ InCall(t)
    BY <1>2, <2>1, <2>2, LeaveCallFields DEF Left, EndsOnLeave
  <2>4. LeftSays(r) = Ends
    BY <1>2, <2>2 DEF LeftSays, Parting, Ends, EndsOnLeave
  <2>5. QED
    BY <1>2, <2>1, <2>2, <2>3, <2>4 DEF CalleeStep, CalleeRow, HasAnswered, Ends, Open
<1>3. QED
  BY <1>1, <1>2

\* An invite rings, or is marked expired as it is answered.
LEMMA CalleeRings ==
  ASSUME NEW g, g = StoreRingingInvite(NoRow)
  PROVE  /\ g \in Rows /\ g.session = "ringing" /\ g.self = "ringing" /\ g.peer = "joined"
         /\ g.invite = "pending" /\ g.live = "ringing"
         /\ CalleeStep(NoRow, g, {}, {}, "invite")
         /\ CalleeStep(NoRow, [g EXCEPT !.invite = "expired"], {}, {}, "invite")
         /\ CalleeStep(NoRow, [NoRow EXCEPT !.session = "ended"], {}, {}, "invite")
<1>1. /\ g \in Rows /\ g.session = "ringing" /\ g.self = "ringing" /\ g.peer = "joined"
      /\ g.invite = "pending" /\ g.live = "ringing"
  BY DEF StoreRingingInvite, NoRow, Rows, Parties
<1>2. CalleeStep(NoRow, g, {}, {}, "invite")
  BY <1>1, NoRowFacts DEF CalleeStep, CalleeRow, HasAnswered, InCall, Open, Ends
<1>3. CalleeStep(NoRow, [g EXCEPT !.invite = "expired"], {}, {}, "invite")
  <2>1. PICK t : t = [g EXCEPT !.invite = "expired"]
    OBVIOUS
  <2>2. /\ t.session = "ringing" /\ t.self = "ringing" /\ t.peer = "joined"
        /\ t.invite = "expired" /\ t.live = "ringing"
    BY <1>1, <2>1 DEF Rows
  <2>3. QED
    BY <2>1, <2>2, NoRowFacts DEF CalleeStep, CalleeRow, HasAnswered, InCall, Open, Ends
<1>4. CalleeStep(NoRow, [NoRow EXCEPT !.session = "ended"], {}, {}, "invite")
  <2>1. PICK t : t = [NoRow EXCEPT !.session = "ended"]
    OBVIOUS
  <2>2. /\ t.session = "ended" /\ t.self = "none" /\ t.peer = "none"
        /\ t.invite = "none" /\ t.live = "none"
    BY <2>1 DEF NoRow
  <2>3. QED
    BY <2>1, <2>2, NoRowFacts DEF CalleeStep, CalleeRow, HasAnswered, InCall, Open, Ends
<1>5. QED
  BY <1>1, <1>2, <1>3, <1>4

\* CommitLocalJoin, on a row that rings.
LEMMA JoinFields ==
  ASSUME NEW g \in Rows
  PROVE  LET t == CommitLocalJoin(g) IN
         /\ t \in Rows /\ t.session = "active" /\ t.self = "joined" /\ t.peer = g.peer
         /\ t.invite = "accepted" /\ t.live = IF g.live = "none" THEN "none" ELSE "joined"
BY DEF CommitLocalJoin, Rows, Parties

\* Accepting a row g that rings, which was r before the step.
LEMMA CalleeAccepts ==
  ASSUME NEW r \in Rows, CalleeRow(r), NEW g \in Rows, CalleeRow(g),
         NEW tk, (g = r /\ tk = "nothing") \/ (r = NoRow /\ tk = "invite"),
         g.invite = "pending"
  PROVE  LET t == CommitLocalJoin(g) IN
         /\ g.session = "ringing" => CalleeStep(r, t, {"accept", "roster"}, {"answered"}, tk)
         /\ g.session = "ringing" /\ t.live = "none" =>
              CalleeStep(r, LeaveCall(t), {"accept"} \cup Parting(t), {}, tk)
<1>1. PICK t : t = CommitLocalJoin(g)
  OBVIOUS
<1>2. /\ t \in Rows /\ t.session = "active" /\ t.self = "joined" /\ t.peer = g.peer
      /\ t.invite = "accepted" /\ t.live = IF g.live = "none" THEN "none" ELSE "joined"
  BY <1>1, JoinFields
<1>3. g.self = "ringing" /\ (g.session = "ringing" => g.peer = "joined")
  BY DEF CalleeRow
<1>4. InCall(t) /\ Open(t)
  BY <1>2 DEF InCall, Open
<1>5. /\ r.self \notin {"left", "declined", "joined"} /\ ~ InCall(r) /\ tk \notin Ends
      /\ tk # "invite" => r = g
      /\ tk = "invite" => r = NoRow
  BY <1>3, NoRowFacts DEF InCall, Ends
<1>6. ASSUME g.session = "ringing"
      PROVE  CalleeStep(r, t, {"accept", "roster"}, {"answered"}, tk)
  BY <1>2, <1>3, <1>4, <1>5, <1>6, NoRowFacts DEF CalleeStep, CalleeRow, HasAnswered, Ends, Open
<1>7. ASSUME g.session = "ringing", t.live = "none"
      PROVE  CalleeStep(r, LeaveCall(t), {"accept"} \cup Parting(t), {}, tk)
  <2>1. PICK l : l = LeaveCall(t)
    OBVIOUS
  <2>2. /\ l \in Rows /\ l.self = "left" /\ l.peer = "joined" /\ l.invite = "accepted" /\ l.live = "none"
        /\ l.session = "ended" /\ ~ InCall(l)
    BY <1>2, <1>3, <1>4, <1>7, <2>1, LeaveCallFields DEF EndsOnLeave
  <2>3. Parting(t) = Ends
    BY <1>2, <1>3, <1>4, <1>7 DEF Parting, Ends, EndsOnLeave
  <2>4. QED
    BY <1>3, <1>5, <1>7, <2>1, <2>2, <2>3, NoRowFacts DEF CalleeStep, CalleeRow, HasAnswered, Ends, Open
<1>8. QED
  BY <1>1, <1>6, <1>7

\* Expired while it is answered.
LEMMA CalleeTooLate ==
  ASSUME NEW r \in Rows, CalleeRow(r), r.invite = "pending"
  PROVE  CalleeStep(r, [r EXCEPT !.invite = "expired"], {}, {}, "nothing")
<1>1. PICK t : t = [r EXCEPT !.invite = "expired"]
  OBVIOUS
<1>2. /\ t \in Rows /\ t.session = r.session /\ t.self = r.self /\ t.peer = r.peer
      /\ t.invite = "expired" /\ t.live = r.live
  BY <1>1 DEF Rows
<1>3. r # NoRow /\ r.session # "none"
  BY NoRowFacts DEF CalleeRow
<1>4. QED
  BY <1>1, <1>2, <1>3 DEF CalleeStep, CalleeRow, HasAnswered, InCall, Open, Ends

LEMMA CalleeDeclines ==
  ASSUME NEW r \in Rows, CalleeRow(r), r.live = "ringing"
  PROVE  /\ r.invite = "pending" =>
              CalleeStep(r, EndRing([r EXCEPT !.self = "declined", !.invite = "declined"]),
                         {"decline"}, {"answered"}, "nothing")
         /\ CalleeStep(r, [r EXCEPT !.live = "none"], {}, {}, "nothing")
<1>1. ASSUME r.invite = "pending"
      PROVE  CalleeStep(r, EndRing([r EXCEPT !.self = "declined", !.invite = "declined"]),
                        {"decline"}, {"answered"}, "nothing")
  <2>1. PICK s : s = [r EXCEPT !.self = "declined", !.invite = "declined"]
    OBVIOUS
  <2>2. /\ s \in Rows /\ s.session = r.session /\ s.self = "declined" /\ s.peer = r.peer
        /\ s.invite = "declined"
    BY <2>1 DEF Rows, Parties
  <2>3. Open(r) /\ Open(s)
    BY <2>2 DEF CalleeRow, Open
  <2>4. PICK t : t = EndRing(s)
    OBVIOUS
  <2>5. /\ t.session = "ended" /\ t.self = "declined" /\ t.peer = r.peer
        /\ t.invite = "declined" /\ t.live = "none"
    BY <2>2, <2>3, <2>4 DEF EndRing, EndCallLocal, Rows
  <2>6. r.self = "ringing" /\ ~ InCall(r) /\ r.session # "none"
    BY <1>1, <2>3 DEF CalleeRow, InCall, Open
  <2>7. QED
    BY <1>1, <2>1, <2>4, <2>5, <2>6 DEF CalleeStep, CalleeRow, HasAnswered, InCall, Open, Ends
<1>2. CalleeStep(r, [r EXCEPT !.live = "none"], {}, {}, "nothing")
  <2>1. PICK t : t = [r EXCEPT !.live = "none"]
    OBVIOUS
  <2>2. /\ t.session = r.session /\ t.self = r.self /\ t.peer = r.peer
        /\ t.invite = r.invite /\ t.live = "none"
    BY <2>1 DEF Rows
  <2>3. r.session # "none"
    BY NoRowFacts DEF CalleeRow
  <2>4. QED
    BY <2>1, <2>2, <2>3 DEF CalleeStep, CalleeRow, HasAnswered, InCall, Open, Ends
<1>3. QED
  BY <1>1, <1>2

LEMMA CalleeExpires ==
  ASSUME NEW r \in Rows, CalleeRow(r), r.invite = "pending"
  PROVE  CalleeStep(r, ExpireInvite(r), {}, {}, "nothing")
<1>1. PICK s : s = [r EXCEPT !.invite = "expired", !.self = "missed"]
  OBVIOUS
<1>2. /\ s \in Rows /\ s.session = r.session /\ s.self = "missed" /\ s.peer = r.peer
      /\ s.invite = "expired"
  BY <1>1 DEF Rows, Parties
<1>3. PICK t : t = EndRing(s)
  OBVIOUS
<1>4. /\ t.session = (IF Open(r) THEN "ended" ELSE r.session) /\ t.self = "missed" /\ t.peer = r.peer
      /\ t.invite = "expired" /\ t.live = "none"
  BY <1>2, <1>3 DEF EndRing, EndCallLocal, Open, Rows
<1>5. ExpireInvite(r) = t
  BY <1>1, <1>3 DEF ExpireInvite
<1>6. r.self = "ringing" /\ r.session # "none"
  BY NoRowFacts DEF CalleeRow
<1>7. QED
  BY <1>4, <1>5, <1>6 DEF CalleeStep, CalleeRow, HasAnswered, InCall, Open, Ends

\* What the caller says.
LEMMA CalleeIsLeft ==
  ASSUME NEW r \in Rows, CalleeRow(r), r.session # "none"
  PROVE  /\ CalleeStep(r, ParticipantGone(r), {}, {}, "leave")
         /\ CalleeStep(r, AfterEnded(r), {}, {}, "ended")
         /\ CalleeStep(r, ApplyCallRoster(r), {}, {}, "roster")
<1>1. CalleeStep(r, ParticipantGone(r), {}, {}, "leave")
  <2>1. PICK t : t = ParticipantGone(r)
    OBVIOUS
  <2>2. Open(r) => EndsOnLeave(r, r.self = "joined")
    BY DEF CalleeRow, EndsOnLeave, Open
  <2>3. /\ t.session = (IF Open(r) THEN "ended" ELSE r.session) /\ t.self = r.self
        /\ t.peer = "left" /\ t.invite = r.invite
        /\ t.live = (IF Open(r) THEN "none" ELSE r.live)
    BY <2>1, <2>2 DEF ParticipantGone, EndCallLocal, Rows, Parties
  <2>4. QED
    BY <2>1, <2>3 DEF CalleeStep, CalleeRow, HasAnswered, InCall, Open, Ends
<1>2. CalleeStep(r, AfterEnded(r), {}, {}, "ended")
  <2>1. PICK t : t = AfterEnded(r)
    OBVIOUS
  <2>2. /\ t.session = (IF Open(r) THEN "ended" ELSE r.session) /\ t.self = r.self
        /\ t.invite = (IF r.invite = "none" THEN "none" ELSE "expired")
        /\ t.live = (IF Open(r) THEN "none" ELSE r.live)
    BY <2>1 DEF AfterEnded, EndCallLocal, Rows, Parties
  <2>3. QED
    BY <2>1, <2>2 DEF CalleeStep, CalleeRow, HasAnswered, InCall, Open, Ends
<1>3. CalleeStep(r, ApplyCallRoster(r), {}, {}, "roster")
  <2>1. PICK t : t = ApplyCallRoster(r)
    OBVIOUS
  <2>2. /\ t.session = r.session /\ t.self = r.self
        /\ t.peer = (IF r.peer \in {"left", "declined", "missed"} THEN r.peer ELSE "joined")
        /\ t.invite = r.invite /\ t.live = r.live
    BY <2>1 DEF ApplyCallRoster, Rows, Parties
  <2>3. QED
    BY <2>1, <2>2 DEF CalleeStep, CalleeRow, HasAnswered, InCall, Open, Ends
<1>4. QED
  BY <1>1, <1>2, <1>3

\* What a sibling says.
LEMMA CalleeIsSilenced ==
  ASSUME NEW r, RowOK(r), CalleeRow(r)
  PROVE  CalleeStep(r, StopRingingAnsweredElsewhere(r), {}, {}, "answered")
<1>1. CASE r.live # "ringing"
  BY <1>1, CalleeIdles DEF RowOK, StopRingingAnsweredElsewhere, Ends
<1>2. CASE r.live = "ringing"
  <2>1. PICK t : t = StopRingingAnsweredElsewhere(r)
    OBVIOUS
  <2>2. /\ t.session = "ended" /\ t.self = r.self /\ t.peer = r.peer
        /\ t.invite = "expired" /\ t.live = "none"
    BY <1>2, <2>1 DEF StopRingingAnsweredElsewhere, EndCallLocal, RowOK, Rows
  <2>3. r.self = "ringing" /\ ~ InCall(r) /\ r.session # "none"
    BY <1>2 DEF RowOK, Agrees, CalleeRow, InCall, Open
  <2>4. QED
    BY <2>1, <2>2, <2>3 DEF CalleeStep, CalleeRow, HasAnswered, InCall, Open, Ends
<1>3. QED
  BY <1>1, <1>2

LEMMA CalleeRestarts ==
  ASSUME NEW r, RowOK(r), CalleeRow(r)
  PROVE  CalleeStep(r, AbandonOrphaned(r), LeftSays(r), {}, "nothing")
<1>1. PICK s : s = [r EXCEPT !.live = "none"]
  OBVIOUS
<1>2. /\ r \in Rows /\ s \in Rows /\ s.self = r.self /\ s.peer = r.peer /\ s.invite = r.invite
      /\ s.live = "none" /\ s.session = r.session
  BY <1>1 DEF RowOK, Rows
<1>3. CASE InCall(r)
  <2>1. InCall(s)
    BY <1>2, <1>3 DEF InCall, Open
  <2>2. [s EXCEPT !.self = "left", !.live = "none"] = [r EXCEPT !.self = "left", !.live = "none"]
    BY <1>1, <1>2 DEF Rows
  <2>3. LeaveCall(s) = LeaveCall(r)
    BY <1>2, <1>3, <2>1, <2>2 DEF LeaveCall, InCall, Open, EndsOnLeave
  <2>4. r.invite = "accepted"
    BY <1>2, <1>3, CalleeInCall DEF CalleeRow
  <2>5. LeaveCall(s).invite = "accepted"
    BY <1>2, <2>1, <2>4, LeaveCallFields
  <2>6. AbandonOrphaned(r) = Left(r)
    BY <1>1, <1>3, <2>1, <2>3, <2>5 DEF AbandonOrphaned, Left
  <2>7. QED
    BY <1>2, <2>6, CalleeLeaves DEF Ends
<1>4. CASE ~ InCall(r)
  <2>1. ~ InCall(s) /\ LeftSays(r) = {}
    BY <1>2, <1>4 DEF InCall, Open, LeftSays
  <2>2. PICK t : t = EndRing(s)
    OBVIOUS
  <2>3. /\ t \in Rows /\ t.self = r.self /\ t.peer = r.peer /\ t.invite = r.invite /\ t.live = "none"
        /\ t.session = (IF Open(r) THEN "ended" ELSE r.session)
    BY <1>2, <2>2 DEF EndRing, EndCallLocal, Open, Rows
  <2>4. PICK u : u = [t EXCEPT !.invite = "expired", !.self = "missed"]
    OBVIOUS
  <2>5. /\ u.self = "missed" /\ u.peer = r.peer /\ u.invite = "expired" /\ u.live = "none"
        /\ u.session = (IF Open(r) THEN "ended" ELSE r.session)
    BY <2>3, <2>4 DEF Rows
  <2>6. AbandonOrphaned(r) = IF r.invite = "pending" THEN u ELSE t
    BY <1>1, <2>1, <2>2, <2>3, <2>4 DEF AbandonOrphaned
  <2>7. CASE r.invite = "pending"
    <3>1. r.self = "ringing" /\ r.session # "none"
      BY <2>7, NoRowFacts DEF CalleeRow
    <3>2. QED
      BY <2>1, <2>5, <2>6, <2>7, <3>1 DEF CalleeStep, CalleeRow, HasAnswered, InCall, Open, Ends
  <2>8. CASE r.invite # "pending" /\ r.session = "none"
    <3>1. t = r
      BY <2>3, <2>8, NoRowFacts DEF CalleeRow, Rows, Open
    <3>2. QED
      BY <1>2, <2>1, <2>6, <2>8, <3>1, CalleeIdles DEF Ends
  <2>9. CASE r.invite # "pending" /\ r.session # "none"
    BY <1>4, <2>1, <2>3, <2>6, <2>9 DEF CalleeStep, CalleeRow, HasAnswered, InCall, Open, Ends
  <2>10. QED
    BY <2>7, <2>8, <2>9
<1>5. QED
  BY <1>3, <1>4

-----------------------------------------------------------------------------
(***************************************************************************)
(* What is on its way, and what is said.                                   *)
(***************************************************************************)

Holds(q, m) == \E i \in 1..Len(q) : m \in q[i]

In(w, s, t, type, c) == Holds(w[s][t], Control(type, c))

\* The invite to a call is the first of its controls, and alone of them in its batch.
Ordered(q, c) ==
  \A i \in 1..Len(q) : Control("invite", c) \in q[i] =>
    /\ \A m \in q[i] : m.call = c => m = Control("invite", c)
    /\ \A j \in 1..Len(q) : j < i => \A m \in q[j] : m.call # c

\* A control is its type and its call.
LEMMA ControlIs ==
  /\ \A t, c : Control(t, c).type = t /\ Control(t, c).call = c
  /\ \A m \in Controls : m = Control(m.type, m.call) /\ m.type \in Types /\ m.call \in Calls
  /\ \A t, u, c, k : Control(t, c) = Control(u, k) <=> t = u /\ c = k
<1>1. \A t, c : Control(t, c).type = t /\ Control(t, c).call = c
  BY DEF Control
<1>2. \A m \in Controls : m = Control(m.type, m.call) /\ m.type \in Types /\ m.call \in Calls
  BY DEF Control, Controls, Types
<1>3. QED
  BY <1>1, <1>2

\* One more batch at the end of a queue.
LEMMA AppendHolds ==
  ASSUME NEW q \in Seq(SUBSET Controls), NEW S \in SUBSET Controls, NEW c \in Calls
  PROVE  /\ \A m : Holds(Append(q, S), m) <=> Holds(q, m) \/ m \in S
         /\ Ordered(q, c) /\ Control("invite", c) \notin S => Ordered(Append(q, S), c)
         /\ /\ \A t \in Types : ~ Holds(q, Control(t, c))
            /\ \A t \in Types : Control(t, c) \in S => t = "invite"
            => Ordered(Append(q, S), c)
<1>1. PICK p : p = Append(q, S)
  OBVIOUS
<1>2. /\ Len(q) \in Nat /\ Len(p) = Len(q) + 1
      /\ p[Len(q) + 1] = S /\ \A i \in 1..Len(q) : p[i] = q[i]
  BY <1>1
<1>3. \A m : Holds(p, m) <=> Holds(q, m) \/ m \in S
  <2>1. ASSUME NEW m, Holds(p, m)
        PROVE  Holds(q, m) \/ m \in S
    <3>1. PICK i \in 1..Len(p) : m \in p[i]
      BY <2>1 DEF Holds
    <3>2. i \in 1..Len(q) \/ i = Len(q) + 1
      BY <1>2
    <3>3. QED
      BY <1>2, <3>1, <3>2 DEF Holds
  <2>2. ASSUME NEW m, m \in S
        PROVE  Holds(p, m)
    <3>1. Len(q) + 1 \in 1..Len(p)
      BY <1>2
    <3>2. QED
      BY <1>2, <2>2, <3>1 DEF Holds
  <2>3. ASSUME NEW m, Holds(q, m)
        PROVE  Holds(p, m)
    <3>1. PICK i \in 1..Len(q) : m \in q[i]
      BY <2>3 DEF Holds
    <3>2. i \in 1..Len(p) /\ p[i] = q[i]
      BY <1>2
    <3>3. QED
      BY <3>1, <3>2 DEF Holds
  <2>4. QED
    BY <2>1, <2>2, <2>3
<1>4. ASSUME Ordered(q, c), Control("invite", c) \notin S
      PROVE  Ordered(p, c)
  <2>1. ASSUME NEW i \in 1..Len(p), Control("invite", c) \in p[i]
        PROVE  /\ \A m \in p[i] : m.call = c => m = Control("invite", c)
               /\ \A j \in 1..Len(p) : j < i => \A m \in p[j] : m.call # c
    <3>1. i \in 1..Len(q) /\ p[i] = q[i]
      BY <1>2, <1>4, <2>1
    <3>2. \A j \in 1..Len(p) : j < i => j \in 1..Len(q) /\ p[j] = q[j]
      BY <1>2, <3>1
    <3>3. QED
      BY <1>4, <2>1, <3>1, <3>2 DEF Ordered
  <2>2. QED
    BY <2>1 DEF Ordered
<1>5. ASSUME \A t \in Types : ~ Holds(q, Control(t, c)),
             \A t \in Types : Control(t, c) \in S => t = "invite"
      PROVE  Ordered(p, c)
  <2>1. \A i \in 1..Len(q) : \A m \in q[i] : m.call # c
    <3>1. ASSUME NEW i \in 1..Len(q), NEW m \in q[i], m.call = c
          PROVE  FALSE
      <4>1. m \in Controls
        OBVIOUS
      <4>2. m.type \in Types /\ m = Control(m.type, c)
        BY <3>1, <4>1, ControlIs
      <4>3. QED
        BY <1>5, <4>2 DEF Holds
    <3>2. QED
      BY <3>1
  <2>2. \A m \in S : m.call = c => m = Control("invite", c)
    <3>1. ASSUME NEW m \in S, m.call = c
          PROVE  m = Control("invite", c)
      <4>1. m \in Controls
        OBVIOUS
      <4>2. m.type \in Types /\ m = Control(m.type, c)
        BY <3>1, <4>1, ControlIs
      <4>3. QED
        BY <1>5, <4>2
    <3>2. QED
      BY <3>1
  <2>3. ASSUME NEW i \in 1..Len(p), Control("invite", c) \in p[i]
        PROVE  /\ \A m \in p[i] : m.call = c => m = Control("invite", c)
               /\ \A j \in 1..Len(p) : j < i => \A m \in p[j] : m.call # c
    <3>1. i \in 1..Len(q) => i = Len(q) + 1
      BY <1>2, <2>1, <2>3, ControlIs
    <3>2. i = Len(q) + 1
      BY <1>2, <3>1
    <3>3. \A j \in 1..Len(p) : j < i => j \in 1..Len(q) /\ p[j] = q[j]
      BY <1>2, <3>2
    <3>4. QED
      BY <1>2, <2>1, <2>2, <3>2, <3>3
  <2>4. QED
    BY <2>3 DEF Ordered
<1>6. QED
  BY <1>1, <1>3, <1>4, <1>5

\* One control less in the first batch.
LEMMA WithoutHolds ==
  ASSUME NEW q \in Seq(SUBSET Controls), q # <<>>, NEW m \in Head(q), NEW c \in Calls
  PROVE  /\ Holds(q, m)
         /\ \A n : Holds(Without(q, m), n) => Holds(q, n)
         /\ \A n : Holds(q, n) => Holds(Without(q, m), n) \/ n = m
         /\ Ordered(q, c) => Ordered(Without(q, m), c)
         /\ Ordered(q, c) /\ m.call = c => ~ Holds(Without(q, m), Control("invite", c))
         /\ Ordered(q, c) /\ m.call = c /\ m.type # "invite" => ~ Holds(q, Control("invite", c))
<1>1. /\ Len(q) \in Nat /\ Len(q) > 0 /\ Head(q) = q[1] /\ 1 \in 1..Len(q) /\ m \in q[1]
      /\ m \in Controls
  OBVIOUS
<1>2. Holds(q, m)
  BY <1>1 DEF Holds
<1>3. ASSUME Ordered(q, c), m.call = c, NEW i \in 1..Len(q), Control("invite", c) \in q[i]
      PROVE  i = 1 /\ m = Control("invite", c)
  <2>1. ~ (1 < i)
    BY <1>1, <1>3 DEF Ordered
  <2>2. i = 1
    BY <1>1, <2>1
  <2>3. QED
    BY <1>1, <1>3, <2>2 DEF Ordered
<1>4. Ordered(q, c) /\ m.call = c /\ m.type # "invite" => ~ Holds(q, Control("invite", c))
  BY <1>3, ControlIs DEF Holds
<1>5. CASE Head(q) = {m}
  <2>1. PICK p : p = Tail(q)
    OBVIOUS
  <2>2. p = Without(q, m)
    BY <1>5, <2>1 DEF Without
  <2>3. /\ Len(p) = Len(q) - 1 /\ \A i \in 1..Len(p) : p[i] = q[i + 1] /\ i + 1 \in 1..Len(q)
    BY <1>1, <2>1
  <2>4. \A n : Holds(p, n) => Holds(q, n)
    BY <2>3 DEF Holds
  <2>5. ASSUME NEW n, Holds(q, n), n # m
        PROVE  Holds(p, n)
    <3>1. PICK i \in 1..Len(q) : n \in q[i]
      BY <2>5 DEF Holds
    <3>2. i # 1
      BY <1>1, <1>5, <2>5, <3>1
    <3>3. i - 1 \in 1..Len(p) /\ p[i - 1] = q[i]
      BY <1>1, <2>3, <3>2
    <3>4. QED
      BY <3>1, <3>3 DEF Holds
  <2>6. ASSUME Ordered(q, c)
        PROVE  Ordered(p, c)
    <3>1. ASSUME NEW i \in 1..Len(p), Control("invite", c) \in p[i]
          PROVE  /\ \A n \in p[i] : n.call = c => n = Control("invite", c)
                 /\ \A j \in 1..Len(p) : j < i => \A n \in p[j] : n.call # c
      <4>1. i + 1 \in 1..Len(q) /\ p[i] = q[i + 1]
        BY <2>3
      <4>2. \A j \in 1..Len(p) : j < i => j + 1 \in 1..Len(q) /\ j + 1 < i + 1 /\ p[j] = q[j + 1]
        BY <1>1, <2>3
      <4>3. QED
        BY <2>6, <3>1, <4>1, <4>2 DEF Ordered
    <3>2. QED
      BY <3>1 DEF Ordered
  <2>7. ASSUME Ordered(q, c), m.call = c
        PROVE  ~ Holds(p, Control("invite", c))
    <3>1. SUFFICES ASSUME NEW i \in 1..Len(p), Control("invite", c) \in p[i] PROVE FALSE
      BY DEF Holds
    <3>2. i + 1 = 1
      BY <1>3, <2>3, <2>7, <3>1
    <3>3. QED
      BY <1>1, <3>2
  <2>8. QED
    BY <1>2, <1>4, <2>2, <2>4, <2>5, <2>6, <2>7
<1>6. CASE Head(q) # {m}
  <2>1. PICK p : p = [q EXCEPT ![1] = @ \ {m}]
    OBVIOUS
  <2>2. p = Without(q, m)
    BY <1>6, <2>1 DEF Without
  <2>3. /\ Len(p) = Len(q) /\ p[1] = q[1] \ {m}
        /\ \A i \in 1..Len(q) : i # 1 => p[i] = q[i]
    BY <1>1, <2>1
  <2>4. \A i \in 1..Len(q) : p[i] \subseteq q[i] /\ (q[i] \subseteq p[i] \cup {m})
    <3>1. ASSUME NEW i \in 1..Len(q)
          PROVE  p[i] \subseteq q[i] /\ (q[i] \subseteq p[i] \cup {m})
      <4>1. CASE i = 1
        BY <2>3, <4>1
      <4>2. CASE i # 1
        BY <2>3, <4>2
      <4>3. QED
        BY <4>1, <4>2
    <3>2. QED
      BY <3>1
  <2>5. \A n : Holds(p, n) => Holds(q, n)
    BY <2>3, <2>4 DEF Holds
  <2>6. \A n : Holds(q, n) => Holds(p, n) \/ n = m
    BY <2>3, <2>4 DEF Holds
  <2>7. Ordered(q, c) => Ordered(p, c)
    BY <2>3, <2>4 DEF Ordered
  <2>8. ASSUME Ordered(q, c), m.call = c
        PROVE  ~ Holds(p, Control("invite", c))
    <3>1. SUFFICES ASSUME NEW i \in 1..Len(p), Control("invite", c) \in p[i] PROVE FALSE
      BY DEF Holds
    <3>2. i \in 1..Len(q) /\ Control("invite", c) \in q[i]
      BY <2>3, <2>4, <3>1
    <3>3. i = 1 /\ m = Control("invite", c)
      BY <1>3, <2>8, <3>2
    <3>4. QED
      BY <2>3, <3>1, <3>3
  <2>9. QED
    BY <1>2, <1>4, <2>2, <2>5, <2>6, <2>7, <2>8
<1>7. QED
  BY <1>5, <1>6

\* The types of what f says of call c to account a.
SaidOf(f, a, c) == {t \in Types : Control(t, c) \in f[a]}

\* A step that takes a control of type tk about c that s sent to d (if it is
\* a type: not "heard" or "nothing"), and says f.
WireStep(w, v, d, s, c, tk, f) ==
  /\ \A u, t \in Devices : \A type \in Types :
       /\ In(v, u, t, type, c) =>
            In(w, u, t, type, c) \/ (u = d /\ t # d /\ type \in SaidOf(f, Owner[t], c))
       /\ In(w, u, t, type, c) => In(v, u, t, type, c) \/ (u = s /\ t = d /\ type = tk)
       /\ u = d /\ t # d /\ type \in SaidOf(f, Owner[t], c) => In(v, u, t, type, c)
  /\ tk \in Types =>
       /\ In(w, s, d, tk, c)
       /\ ~ In(v, s, d, "invite", c)
       /\ tk # "invite" => ~ In(w, s, d, "invite", c)

AllOrdered(w, c) == \A u, t \in Devices : Ordered(w[u][t], c)

\* d says f after w only where it keeps the order.
InOrder(w, d, f, c) ==
  \A t \in Devices : t # d /\ "invite" \in SaidOf(f, Owner[t], c) =>
    /\ SaidOf(f, Owner[t], c) \subseteq {"invite"}
    /\ \A type \in Types : ~ In(w, d, t, type, c)

\* What is said of a call by the pieces what is said is made of.
LEMMA SaidOfs ==
  ASSUME NEW c \in Calls
  PROVE  /\ \A f, g : \A a \in Accounts : SaidOf(Both(f, g), a, c) = SaidOf(f, a, c) \cup SaidOf(g, a, c)
         /\ \A a \in Accounts : SaidOf(Nothing, a, c) = {}
         /\ \A b, a \in Accounts : \A ms :
              SaidOf(Say(b, ms), a, c) = IF a = b THEN {t \in Types : Control(t, c) \in ms} ELSE {}
         /\ \A k, r : {t \in Types : Control(t, c) \in Leaving(k, r)} =
                        IF k = c THEN Parting(r) ELSE {}
<1>1. \A f, g : \A a \in Accounts : SaidOf(Both(f, g), a, c) = SaidOf(f, a, c) \cup SaidOf(g, a, c)
  BY DEF SaidOf, Both
<1>2. \A a \in Accounts : Nothing[a] = {}
  BY DEF Nothing
<1>3. \A a \in Accounts : SaidOf(Nothing, a, c) = {}
  BY <1>2 DEF SaidOf
<1>4. \A b, a \in Accounts : \A ms : Say(b, ms)[a] = IF a = b THEN ms ELSE {}
  BY DEF Say, Nothing
<1>5. \A b, a \in Accounts : \A ms :
        SaidOf(Say(b, ms), a, c) = IF a = b THEN {t \in Types : Control(t, c) \in ms} ELSE {}
  BY <1>4 DEF SaidOf
<1>6. ASSUME NEW k, NEW r
      PROVE  {t \in Types : Control(t, c) \in Leaving(k, r)} = IF k = c THEN Parting(r) ELSE {}
  <2>1. CASE ~ Open(r) \/ r.self = "left"
    BY <2>1 DEF Leaving, Parting
  <2>2. CASE ~ (~ Open(r) \/ r.self = "left")
    <3>1. \A t : Control(t, c) \in Leaving(k, r) <=> k = c /\ t \in Parting(r)
      <4>1. \A t : Control(t, c) \in {Control("leave", k), Control("ended", k)} <=> k = c /\ t \in Ends
        BY ControlIs DEF Ends
      <4>2. \A t : Control(t, c) \in Leaving(k, r) <=>
               /\ Control(t, c) \in {Control("leave", k), Control("ended", k)}
               /\ \/ t = "leave" /\ r.peer = "joined"
                  \/ /\ t = "ended"
                     /\ EndsOnLeave(r, r.peer = "joined")
                     /\ r.peer \in {"joined", "ringing"}
        BY <2>2, ControlIs DEF Leaving
      <4>3. \A t : t \in Parting(r) <=>
               /\ t \in Ends
               /\ \/ t = "leave" /\ r.peer = "joined"
                  \/ /\ t = "ended"
                     /\ EndsOnLeave(r, r.peer = "joined")
                     /\ r.peer \in {"joined", "ringing"}
        BY <2>2 DEF Parting
      <4>4. QED
        BY <4>1, <4>2, <4>3
    <3>2. Parting(r) \subseteq Types
      BY DEF Parting, Types, Ends
    <3>3. QED
      BY <3>1, <3>2
  <2>3. QED
    BY <2>1, <2>2
<1>7. QED
  BY <1>1, <1>3, <1>5, <1>6

\* Leaving the other calls says what leaving each of them says.
LEMMA LeavingOthersSays ==
  ASSUME NEW d \in Devices, NEW c \in Calls, NEW x, NEW k \in Calls, NEW a \in Accounts
  PROVE  SaidOf(LeavingOthers(d, x, c), a, k) =
           IF k # c /\ Other(d, k) = a THEN LeftSays(x[k]) ELSE {}
<1>1. LeavingOthers(d, x, c)[a] =
        UNION {Leaving(j, x[j]) : j \in {i \in Calls : i # c /\ InCall(x[i]) /\ Other(d, i) = a}}
  BY DEF LeavingOthers
<1>2. \A t \in Types : \A j : Control(t, k) \in Leaving(j, x[j]) <=> j = k /\ t \in Parting(x[k])
  <2>1. \A j : {t \in Types : Control(t, k) \in Leaving(j, x[j])} = IF j = k THEN Parting(x[j]) ELSE {}
    BY SaidOfs
  <2>2. QED
    BY <2>1
<1>3. \A t \in Types : Control(t, k) \in LeavingOthers(d, x, c)[a] <=>
        k # c /\ InCall(x[k]) /\ Other(d, k) = a /\ t \in Parting(x[k])
  BY <1>1, <1>2
<1>4. Parting(x[k]) \subseteq Types
  BY DEF Parting, Types, Ends
<1>5. SaidOf(LeavingOthers(d, x, c), a, k) =
        IF k # c /\ InCall(x[k]) /\ Other(d, k) = a THEN Parting(x[k]) ELSE {}
  BY <1>3, <1>4 DEF SaidOf
<1>6. QED
  BY <1>5 DEF LeftSays

\* What is said is on its way.
LEMMA PostHolds ==
  ASSUME NEW q, WireOK(q), NEW d \in Devices, NEW f, Said(f), NEW c \in Calls
  PROVE  /\ \A u, t \in Devices : \A type \in Types :
              In(Post(q, d, f), u, t, type, c) <=>
                In(q, u, t, type, c) \/ (u = d /\ t # d /\ type \in SaidOf(f, Owner[t], c))
         /\ AllOrdered(q, c) /\ InOrder(q, d, f, c) => AllOrdered(Post(q, d, f), c)
<1>1. ASSUME NEW u \in Devices, NEW t \in Devices
      PROVE  /\ \A type \in Types :
                  In(Post(q, d, f), u, t, type, c) <=>
                    In(q, u, t, type, c) \/ (u = d /\ t # d /\ type \in SaidOf(f, Owner[t], c))
             /\ AllOrdered(q, c) /\ InOrder(q, d, f, c) => Ordered(Post(q, d, f)[u][t], c)
  <2>1. /\ q[u][t] \in Seq(SUBSET Controls)
        /\ f[Owner[t]] \in SUBSET Controls
    BY CallAssumption DEF WireOK, Said
  <2>2. Post(q, d, f)[u][t] =
          IF u = d /\ t # d /\ f[Owner[t]] # {} THEN Append(q[u][t], f[Owner[t]]) ELSE q[u][t]
    BY DEF Post
  <2>3. CASE ~ (u = d /\ t # d /\ f[Owner[t]] # {})
    BY <2>2, <2>3 DEF In, SaidOf, AllOrdered
  <2>4. CASE u = d /\ t # d /\ f[Owner[t]] # {}
    <3>1. Post(q, d, f)[u][t] = Append(q[u][t], f[Owner[t]])
      BY <2>2, <2>4
    <3>2. \A type \in Types : In(Post(q, d, f), u, t, type, c) <=>
            In(q, u, t, type, c) \/ type \in SaidOf(f, Owner[t], c)
      BY <2>1, <3>1, AppendHolds DEF In, SaidOf
    <3>3. ASSUME AllOrdered(q, c), InOrder(q, d, f, c)
          PROVE  Ordered(Post(q, d, f)[u][t], c)
      <4>1. Ordered(q[u][t], c)
        BY <3>3 DEF AllOrdered
      <4>2. CASE "invite" \notin SaidOf(f, Owner[t], c)
        <5>1. Control("invite", c) \notin f[Owner[t]]
          BY <4>2 DEF SaidOf, Types
        <5>2. QED
          BY <2>1, <3>1, <4>1, <5>1, AppendHolds
      <4>3. CASE "invite" \in SaidOf(f, Owner[t], c)
        <5>1. /\ SaidOf(f, Owner[t], c) \subseteq {"invite"}
              /\ \A type \in Types : ~ In(q, d, t, type, c)
          BY <2>4, <3>3, <4>3 DEF InOrder
        <5>2. \A type \in Types : ~ Holds(q[u][t], Control(type, c))
          BY <2>4, <5>1 DEF In
        <5>3. \A type \in Types : Control(type, c) \in f[Owner[t]] => type = "invite"
          BY <5>1 DEF SaidOf
        <5>4. QED
          BY <2>1, <3>1, <5>2, <5>3, AppendHolds
      <4>4. QED
        BY <4>2, <4>3
    <3>4. QED
      BY <2>4, <3>2, <3>3
  <2>5. QED
    BY <2>3, <2>4
<1>2. \A u, t \in Devices : \A type \in Types :
        In(Post(q, d, f), u, t, type, c) <=>
          In(q, u, t, type, c) \/ (u = d /\ t # d /\ type \in SaidOf(f, Owner[t], c))
  BY <1>1
<1>3. AllOrdered(q, c) /\ InOrder(q, d, f, c) => AllOrdered(Post(q, d, f), c)
  BY <1>1 DEF AllOrdered
<1>4. QED
  BY <1>2, <1>3

\* Saying nothing.
LEMMA PostNothing ==
  ASSUME NEW q, WireOK(q), NEW d \in Devices
  PROVE  Post(q, d, Nothing) = q
<1>1. \A t \in Devices : Nothing[Owner[t]] = {}
  BY CallAssumption DEF Nothing
<1>2. QED
  BY <1>1 DEF Post, WireOK

\* What is taken is not.
LEMMA TakenHolds ==
  ASSUME WireOK(wire), NEW s \in Devices, NEW d \in Devices, NEW m \in Coming(s, d), NEW c \in Calls,
         AllOrdered(wire, c)
  PROVE  /\ \A u, t \in Devices : \A type \in Types :
              /\ In(Taken(s, d, m), u, t, type, c) => In(wire, u, t, type, c)
              /\ In(wire, u, t, type, c) =>
                   In(Taken(s, d, m), u, t, type, c)
                   \/ (u = s /\ t = d /\ type = m.type /\ c = m.call)
         /\ AllOrdered(Taken(s, d, m), c)
         /\ c = m.call =>
              /\ In(wire, s, d, m.type, c)
              /\ ~ In(Taken(s, d, m), s, d, "invite", c)
              /\ m.type # "invite" => ~ In(wire, s, d, "invite", c)
<1>1. /\ wire[s][d] \in Seq(SUBSET Controls) /\ wire[s][d] # <<>> /\ m \in Head(wire[s][d])
      /\ m \in Controls
  BY TakenTyped DEF WireOK, Coming
<1>2. PICK p : p = Without(wire[s][d], m)
  OBVIOUS
<1>3. /\ Holds(wire[s][d], m)
      /\ \A n : Holds(p, n) => Holds(wire[s][d], n)
      /\ \A n : Holds(wire[s][d], n) => Holds(p, n) \/ n = m
      /\ Ordered(wire[s][d], c) => Ordered(p, c)
      /\ Ordered(wire[s][d], c) /\ m.call = c => ~ Holds(p, Control("invite", c))
      /\ Ordered(wire[s][d], c) /\ m.call = c /\ m.type # "invite"
           => ~ Holds(wire[s][d], Control("invite", c))
  BY <1>1, <1>2, WithoutHolds
<1>4. \A u, t \in Devices : Taken(s, d, m)[u][t] = IF u = s /\ t = d THEN p ELSE wire[u][t]
  BY <1>2 DEF Taken, WireOK
<1>5. m = Control(m.type, m.call)
  BY <1>1, ControlIs
<1>6. Ordered(wire[s][d], c)
  BY DEF AllOrdered
<1>7. ASSUME NEW u \in Devices, NEW t \in Devices, NEW type \in Types
      PROVE  /\ In(Taken(s, d, m), u, t, type, c) => In(wire, u, t, type, c)
             /\ In(wire, u, t, type, c) =>
                  In(Taken(s, d, m), u, t, type, c)
                  \/ (u = s /\ t = d /\ type = m.type /\ c = m.call)
  <2>1. CASE u = s /\ t = d
    <3>1. Control(type, c) = m => type = m.type /\ c = m.call
      BY <1>5, ControlIs
    <3>2. QED
      BY <1>3, <1>4, <2>1, <3>1 DEF In
  <2>2. CASE ~ (u = s /\ t = d)
    BY <1>4, <2>2 DEF In
  <2>3. QED
    BY <2>1, <2>2
<1>8. AllOrdered(Taken(s, d, m), c)
  BY <1>3, <1>4, <1>6 DEF AllOrdered
<1>9. c = m.call =>
        /\ In(wire, s, d, m.type, c)
        /\ ~ In(Taken(s, d, m), s, d, "invite", c)
        /\ m.type # "invite" => ~ In(wire, s, d, "invite", c)
  BY <1>3, <1>4, <1>5, <1>6 DEF In
<1>10. QED
  BY <1>7, <1>8, <1>9

\* A step that posts f after w or after it took m.
LEMMA WirePosts ==
  ASSUME NEW w, WireOK(w), NEW d \in Devices, NEW s, NEW f, Said(f), NEW c \in Calls,
         NEW tk, tk \notin Types
  PROVE  /\ WireStep(w, Post(w, d, f), d, s, c, tk, f)
         /\ AllOrdered(w, c) /\ InOrder(w, d, f, c) => AllOrdered(Post(w, d, f), c)
BY PostHolds DEF WireStep

TypeTaken(m, c) == IF m.call = c THEN m.type ELSE "nothing"

LEMMA WireTakes ==
  ASSUME WireOK(wire), NEW s \in Devices, NEW d \in Devices, NEW m \in Coming(s, d),
         NEW f, Said(f), NEW c \in Calls, AllOrdered(wire, c)
  PROVE  /\ WireStep(wire, Post(Taken(s, d, m), d, f), d, s, c, TypeTaken(m, c), f)
         /\ InOrder(wire, d, f, c) => AllOrdered(Post(Taken(s, d, m), d, f), c)
<1> DEFINE q == Taken(s, d, m)
           v == Post(q, d, f)
<1>1. WireOK(q) /\ m \in Controls
  BY TakenTyped
<1>2. /\ \A u, t \in Devices : \A type \in Types :
            /\ In(q, u, t, type, c) => In(wire, u, t, type, c)
            /\ In(wire, u, t, type, c) =>
                 In(q, u, t, type, c) \/ (u = s /\ t = d /\ type = m.type /\ c = m.call)
      /\ AllOrdered(q, c)
      /\ c = m.call =>
           /\ In(wire, s, d, m.type, c)
           /\ ~ In(q, s, d, "invite", c)
           /\ m.type # "invite" => ~ In(wire, s, d, "invite", c)
  BY TakenHolds
<1> HIDE DEF q
<1>3. /\ \A u, t \in Devices : \A type \in Types :
            In(v, u, t, type, c) <=>
              In(q, u, t, type, c) \/ (u = d /\ t # d /\ type \in SaidOf(f, Owner[t], c))
      /\ AllOrdered(q, c) /\ InOrder(q, d, f, c) => AllOrdered(v, c)
  BY <1>1, PostHolds
<1> HIDE DEF v
<1>4. InOrder(wire, d, f, c) => InOrder(q, d, f, c)
  BY <1>2 DEF InOrder
<1>5. "nothing" \notin Types /\ "invite" \in Types
  BY DEF Types
<1>6. WireStep(wire, v, d, s, c, TypeTaken(m, c), f)
  <2>1. CASE m.call = c
    <3>1. TypeTaken(m, c) = m.type
      BY <2>1 DEF TypeTaken
    <3>2. QED
      BY <1>2, <1>3, <1>5, <2>1, <3>1 DEF WireStep
  <2>2. CASE m.call # c
    <3>1. TypeTaken(m, c) = "nothing"
      BY <2>2 DEF TypeTaken
    <3>2. QED
      BY <1>2, <1>3, <1>5, <2>2, <3>1 DEF WireStep
  <2>3. QED
    BY <2>1, <2>2
<1>7. QED
  BY <1>2, <1>3, <1>4, <1>6 DEF q, v

-----------------------------------------------------------------------------
(***************************************************************************)
(* What holds of one call while nothing is lost, late or repeated: of its  *)
(* rows x, and of its controls on their way w.                             *)
(***************************************************************************)

RowsFit(x, c) ==
  /\ CallerRow(x[Placer[c]][c])
  /\ \A d \in Invited(c) :
       CalleeRow(x[d][c]) /\ (x[d][c].session # "none" => x[Placer[c]][c].session # "none")
  /\ \A d \in Devices : d # Placer[c] /\ d \notin Invited(c) => x[d][c] = NoRow

\* What is on its way says what its sender did.
FromCaller(x, s, t, type, c) ==
  /\ s = Placer[c] /\ t \in Invited(c)
  /\ type \in {"invite", "leave", "ended", "roster"}
  /\ type \in Ends => ~ InCall(x[s][c])
  /\ type = "invite" => x[t][c] = NoRow

FromCallee(x, s, t, type, c) ==
  /\ s \in Invited(c) /\ Owner[t] = Owner[Placer[c]]
  /\ \/ type = "decline" /\ x[s][c].self = "declined"
     \/ type \in Ends /\ x[s][c].self = "left"
     \/ type \in {"accept", "roster"} /\ x[s][c].self \in {"joined", "left"}

FromSibling(x, s, t, type, c) ==
  /\ s \in Invited(c) /\ t \in Invited(c) /\ s # t
  /\ type = "answered" /\ HasAnswered(x[s][c])

WiresFit(x, w, c) ==
  \A s, t \in Devices : \A type \in Types :
    In(w, s, t, type, c) =>
      /\ x[Placer[c]][c].session # "none"
      /\ \/ FromCaller(x, s, t, type, c)
         \/ FromCallee(x, s, t, type, c)
         \/ FromSibling(x, s, t, type, c)

\* A caller that no longer only rings knows of someone who answered.
Knows(x, c) ==
  LET P == x[Placer[c]][c]
  IN  InCall(P) /\ P.peer # "ringing" =>
        \E e \in Invited(c) : HasAnswered(x[e][c]) /\ (P.peer = "left" => x[e][c].self = "left")

\* No other device answered than d, if it did.
Sole(x, c, d) == \A e \in Invited(c) : e # d => ~ HasAnswered(x[e][c])

Ended(w, s, t, c) == \E type \in Ends : In(w, s, t, type, c)

\* The two ends agree up to what is on its way between them.
Paired(x, w, c, d) ==
  LET p == Placer[c]
      P == x[p][c]
      D == x[d][c]
  IN  /\ In(w, p, d, "invite", c) \/ Open(D) => InCall(P) \/ Ended(w, p, d, c)
      /\ InCall(D) /\ InCall(P) => P.session = "active" \/ In(w, d, p, "accept", c)
      /\ InCall(P) /\ P.session = "active" => InCall(D) \/ Ended(w, d, p, c)
      /\ In(w, d, p, "accept", c) /\ InCall(P) /\ P.peer \in {"ringing", "joined"}
           => InCall(D) \/ Ended(w, d, p, c)

CallFits(x, w, c) ==
  /\ RowsFit(x, c)
  /\ WiresFit(x, w, c)
  /\ Knows(x, c)
  /\ \A d \in Invited(c) : Sole(x, c, d) => Paired(x, w, c, d)

\* What device d does to its row of call c and says of it: what the caller or
\* a device that is called does, and nothing on any other.
PartyStep(x, r, d, s, c, tk, f) ==
  /\ d = Placer[c] => CallerStep(x[d][c], r, SaidOf(f, Invitee[c], c), tk)
  /\ d \in Invited(c) =>
       CalleeStep(x[d][c], r, SaidOf(f, Owner[Placer[c]], c), SaidOf(f, Owner[d], c), tk)
  /\ d # Placer[c] /\ d \notin Invited(c) => r = x[d][c]
  /\ \A t \in Devices : SaidOf(f, Owner[t], c) # {} =>
       \/ d = Placer[c] /\ t \in Invited(c)
       \/ d \in Invited(c) /\ (t \in Invited(c) \/ Owner[t] = Owner[Placer[c]])
  /\ tk = "heard" => d = Placer[c] /\ s \in Invited(c) /\ InCall(x[s][c])

\* The hypotheses of a step.
CallStep(x, z, w, v, d, s, c, r, tk, f) ==
  /\ \A e \in Devices : z[e][c] = IF e = d THEN r ELSE x[e][c]
  /\ r \in Rows /\ \A e \in Devices : x[e][c] \in Rows
  /\ CallFits(x, w, c)
  /\ WireStep(w, v, d, s, c, tk, f)
  /\ PartyStep(x, r, d, s, c, tk, f)

\* A caller is not of the account it calls.
LEMMA Two ==
  ASSUME NEW c \in Calls
  PROVE  /\ Placer[c] \in Devices /\ Placer[c] \notin Invited(c)
         /\ Invitee[c] \in Accounts /\ Owner[Placer[c]] \in Accounts
         /\ Invitee[c] # Owner[Placer[c]]
         /\ \A d \in Devices : Owner[d] \in Accounts /\ (d \in Invited(c) <=> Owner[d] = Invitee[c])
         /\ \A d \in Invited(c) : d \in Devices /\ d # Placer[c]
BY CallAssumption DEF Invited

\* A device that is open has not declined, missed or left its call.
LEMMA OpenCallee ==
  ASSUME NEW r, CalleeRow(r)
  PROVE  /\ Open(r) => r.self \in {"ringing", "joined"} /\ r # NoRow
         /\ InCall(r) => HasAnswered(r) /\ r.self = "joined" /\ r # NoRow /\ r.session # "none"
         /\ HasAnswered(r) => r # NoRow /\ r.session # "none"
BY NoRowFacts DEF CalleeRow, Open, InCall, HasAnswered

-----------------------------------------------------------------------------
(***************************************************************************)
(* A step of the caller.                                                   *)
(***************************************************************************)

\* What the caller is told comes from a device that answered.
LEMMA ToCaller ==
  ASSUME NEW c \in Calls, NEW x, NEW w, NEW s \in Devices, NEW type \in Types,
         WiresFit(x, w, c), In(w, s, Placer[c], type, c)
  PROVE  /\ s \in Invited(c) /\ HasAnswered(x[s][c])
         /\ \/ type = "decline" /\ x[s][c].self = "declined"
            \/ type \in Ends /\ x[s][c].self = "left"
            \/ type \in {"accept", "roster"}
<1>1. FromCallee(x, s, Placer[c], type, c)
  BY Two DEF WiresFit, FromCaller, FromSibling
<1>2. QED
  BY <1>1 DEF FromCallee, HasAnswered

\* It keeps what holds of the call.
LEMMA CallerMoves ==
  ASSUME NEW x, NEW z, NEW w, NEW v, NEW c \in Calls, NEW s \in Devices, NEW r, NEW tk, NEW f,
         CallStep(x, z, w, v, Placer[c], s, c, r, tk, f)
  PROVE  CallFits(z, v, c)
<1> DEFINE p == Placer[c]
           P == x[p][c]
           out == SaidOf(f, Invitee[c], c)
<1>1. /\ p \in Devices /\ p \notin Invited(c) /\ z[p][c] = r /\ P \in Rows
      /\ \A e \in Devices : e # p => z[e][c] = x[e][c]
      /\ \A e \in Invited(c) : e \in Devices /\ e # p /\ z[e][c] = x[e][c]
      /\ \A e \in Devices : Owner[e] = Invitee[c] <=> e \in Invited(c)
  BY Two DEF CallStep
<1>2. /\ RowsFit(x, c) /\ WiresFit(x, w, c) /\ Knows(x, c)
      /\ \A e \in Invited(c) : Sole(x, c, e) => Paired(x, w, c, e)
      /\ WireStep(w, v, p, s, c, tk, f)
      /\ CallerStep(P, r, out, tk)
      /\ tk = "heard" => s \in Invited(c) /\ InCall(x[s][c])
  BY DEF CallStep, CallFits, PartyStep
<1>3. \A t \in Devices : SaidOf(f, Owner[t], c) # {} => t \in Invited(c) /\ SaidOf(f, Owner[t], c) = out
  BY <1>1 DEF CallStep, PartyStep
<1>4. /\ CallerRow(P) /\ \A e \in Invited(c) : CalleeRow(x[e][c])
      /\ \A e \in Invited(c) : P = NoRow => x[e][c] = NoRow
  BY <1>2, NoRowFacts DEF RowsFit, CalleeRow
<1>5. tk \in Types => /\ In(w, s, p, tk, c) /\ P.session # "none" /\ P # NoRow
                      /\ s \in Invited(c) /\ HasAnswered(x[s][c])
                      /\ \/ tk = "decline" /\ x[s][c].self = "declined"
                         \/ tk \in Ends /\ x[s][c].self = "left"
                         \/ tk \in {"accept", "roster"}
  <2>1. ASSUME tk \in Types
        PROVE  In(w, s, p, tk, c)
    BY <1>2, <2>1 DEF WireStep
  <2>2. tk \in Types => P.session # "none"
    BY <1>1, <1>2, <2>1 DEF WiresFit
  <2>3. QED
    BY <1>1, <1>2, <2>1, <2>2, ToCaller, NoRowFacts
<1>6. /\ P.session # "none" => r.session # "none"
      /\ CallerRow(r)
      /\ out \subseteq {"invite", "leave", "ended", "roster"}
      /\ out # {} => r.session # "none"
      /\ "invite" \in out => InCall(r)
      /\ IF P = NoRow THEN out \subseteq {"invite"} ELSE "invite" \notin out
      /\ out \cap Ends # {} => ~ InCall(r)
      /\ InCall(r) => InCall(P) \/ (P = NoRow /\ r.peer = "ringing" /\ r.session = "ringing")
  BY <1>2 DEF CallerStep
<1>7. /\ InCall(P) /\ ~ InCall(r) =>
           out \cap Ends # {} \/ P.peer = "left" \/ tk \in Ends \cup {"decline"}
      /\ InCall(r) /\ r.session = "active" =>
           \/ P.session = "active" /\ tk \notin Ends
           \/ tk \in {"accept", "heard"} /\ P.peer \in {"ringing", "joined"}
      /\ InCall(r) /\ P.session = "active" => r.session = "active"
      /\ InCall(r) /\ tk = "accept" => r.session = "active" \/ P.peer = "left"
      /\ InCall(r) /\ tk \in Ends => r.peer = "left"
      /\ InCall(P) /\ InCall(r) /\ r.peer # "left" => P.peer # "left"
      /\ InCall(P) /\ InCall(r) /\ r.peer # P.peer =>
           \/ r.peer = "joined" /\ tk \in {"accept", "roster", "heard"}
           \/ r.peer = "left" /\ tk = "leave"
  BY <1>2 DEF CallerStep
<1> HIDE DEF p, P, out
<1>8. RowsFit(z, c)
  BY <1>1, <1>2, <1>6 DEF RowsFit, p, P
<1>9. /\ \A u, t \in Devices : \A type \in Types :
           /\ In(v, u, t, type, c) =>
                In(w, u, t, type, c) \/ (u = p /\ t \in Invited(c) /\ type \in out)
           /\ In(w, u, t, type, c) => In(v, u, t, type, c) \/ (u = s /\ t = p /\ type = tk)
           /\ u = p /\ t \in Invited(c) /\ type \in out => In(v, u, t, type, c)
  <2>1. \A t \in Invited(c) : t \in Devices /\ t # p /\ Owner[t] = Invitee[c]
    BY <1>1
  <2>2. QED
    BY <1>1, <1>2, <1>3, <2>1 DEF WireStep, out
<1>10. WiresFit(z, v, c)
  <2>1. ASSUME NEW u \in Devices, NEW t \in Devices, NEW type \in Types, In(v, u, t, type, c)
        PROVE  /\ z[p][c].session # "none"
               /\ \/ FromCaller(z, u, t, type, c)
                  \/ FromCallee(z, u, t, type, c)
                  \/ FromSibling(z, u, t, type, c)
    <3>1. CASE In(w, u, t, type, c)
      <4>1. P.session # "none" /\ P # NoRow
        BY <1>2, <3>1, NoRowFacts DEF WiresFit, p, P
      <4>2. r.session # "none" /\ (~ InCall(P) => ~ InCall(r))
        BY <1>6, <4>1
      <4>3. \/ FromCaller(x, u, t, type, c)
            \/ FromCallee(x, u, t, type, c)
            \/ FromSibling(x, u, t, type, c)
        BY <1>2, <3>1 DEF WiresFit
      <4>4. FromCaller(x, u, t, type, c) => FromCaller(z, u, t, type, c)
        BY <1>1, <4>2 DEF FromCaller, p, P
      <4>5. FromCallee(x, u, t, type, c) => FromCallee(z, u, t, type, c)
        BY <1>1 DEF FromCallee
      <4>6. FromSibling(x, u, t, type, c) => FromSibling(z, u, t, type, c)
        BY <1>1 DEF FromSibling
      <4>7. QED
        BY <1>1, <4>2, <4>3, <4>4, <4>5, <4>6
    <3>2. CASE u = p /\ t \in Invited(c) /\ type \in out
      <4>1. type = "invite" => z[t][c] = NoRow
        BY <1>1, <1>4, <1>6, <3>2
      <4>2. type \in Ends => ~ InCall(r)
        BY <1>6, <3>2
      <4>3. FromCaller(z, u, t, type, c)
        BY <1>1, <1>6, <3>2, <4>1, <4>2 DEF FromCaller, p
      <4>4. QED
        BY <1>1, <1>6, <3>2, <4>3
    <3>3. QED
      BY <1>9, <2>1, <3>1, <3>2
  <2>2. QED
    BY <2>1 DEF WiresFit, p
<1>11. \A e \in Invited(c) : InCall(x[e][c]) => HasAnswered(x[e][c])
  BY <1>4, OpenCallee
<1>12. Knows(z, c)
  <2>1. SUFFICES ASSUME InCall(r), r.peer # "ringing"
                 PROVE  \E e \in Invited(c) :
                          HasAnswered(x[e][c]) /\ (r.peer = "left" => x[e][c].self = "left")
    BY <1>1 DEF Knows, p
  <2>2. InCall(P)
    BY <1>6, <2>1
  <2>3. CASE r.peer = P.peer
    BY <1>2, <2>1, <2>2, <2>3 DEF Knows, p, P
  <2>4. CASE r.peer = "joined" /\ tk \in {"accept", "roster"}
    BY <1>5, <2>4 DEF Types
  <2>5. CASE r.peer = "joined" /\ tk = "heard"
    BY <1>2, <1>11, <2>5
  <2>6. CASE r.peer = "left" /\ tk = "leave"
    BY <1>5, <2>6 DEF Types, Ends
  <2>7. QED
    BY <1>7, <2>1, <2>2, <2>3, <2>4, <2>5, <2>6
<1>13. ASSUME NEW e \in Invited(c), Sole(z, c, e)
       PROVE  Paired(z, v, c, e)
  <2> DEFINE D == x[e][c]
  <2>1. e \in Devices /\ e # p /\ z[e][c] = D /\ CalleeRow(D) /\ Sole(x, c, e)
    BY <1>1, <1>4, <1>13 DEF Sole
  <2>2. /\ In(w, p, e, "invite", c) \/ Open(D) => InCall(P) \/ Ended(w, p, e, c)
        /\ InCall(D) /\ InCall(P) => P.session = "active" \/ In(w, e, p, "accept", c)
        /\ InCall(P) /\ P.session = "active" => InCall(D) \/ Ended(w, e, p, c)
        /\ In(w, e, p, "accept", c) /\ InCall(P) /\ P.peer \in {"ringing", "joined"}
             => InCall(D) \/ Ended(w, e, p, c)
    BY <1>2, <2>1 DEF Paired, p, P
  <2>3. \A g \in Invited(c) : HasAnswered(x[g][c]) => g = e
    BY <2>1 DEF Sole
  <2>4. InCall(P) /\ P.peer = "left" => D.self = "left"
    BY <1>2, <2>3 DEF Knows, p, P
  <2>5. "invite" \in Types /\ "accept" \in Types /\ Ends \subseteq Types
    BY DEF Types, Ends
  <2>6. In(w, p, e, "invite", c) => D = NoRow /\ P # NoRow
    <3>1. SUFFICES ASSUME In(w, p, e, "invite", c)
                   PROVE  D = NoRow /\ P.session # "none"
      BY NoRowFacts
    <3>2. /\ P.session # "none"
          /\ \/ FromCaller(x, p, e, "invite", c)
             \/ FromCallee(x, p, e, "invite", c)
             \/ FromSibling(x, p, e, "invite", c)
      BY <1>1, <1>2, <2>1, <2>5, <3>1 DEF WiresFit, p, P
    <3>3. QED
      BY <1>1, <3>2 DEF FromCaller, FromCallee, FromSibling
  <2>7. Open(D) \/ In(w, p, e, "invite", c) => D.self \notin {"left", "declined"}
    BY <2>1, <2>6, OpenCallee, NoRowFacts
  <2>8. Ended(w, p, e, c) => Ended(v, p, e, c)
    BY <1>1, <1>9, <2>1, <2>5 DEF Ended
  <2>9. Ended(w, e, p, c) => Ended(v, e, p, c) \/ (s = e /\ tk \in Ends)
    BY <1>1, <1>9, <2>1, <2>5 DEF Ended
  <2>10. out \cap Ends # {} => Ended(v, p, e, c)
    BY <1>1, <1>9, <2>1, <2>5 DEF Ended
  <2> HIDE DEF D
  <2>11. In(v, p, e, "invite", c) \/ Open(D) => InCall(r) \/ Ended(v, p, e, c)
    <3>1. CASE In(w, p, e, "invite", c) \/ Open(D)
      <4>1. CASE InCall(P) /\ ~ InCall(r)
        <5>1. D.self \notin {"left", "declined"}
          BY <2>7, <3>1
        <5>2. tk \notin Ends \cup {"decline"}
          <6>1. tk \in Ends \cup {"decline"} => x[s][c].self \in {"left", "declined"} /\ s = e
            BY <1>5, <2>3, <2>5 DEF Types, Ends
          <6>2. QED
            BY <5>1, <6>1 DEF D
        <5>3. QED
          BY <1>7, <2>4, <2>10, <4>1, <5>1, <5>2
      <4>2. QED
        BY <2>2, <2>8, <3>1, <4>1
    <3>2. CASE ~ In(w, p, e, "invite", c) /\ In(v, p, e, "invite", c)
      BY <1>1, <1>6, <1>9, <2>1, <2>5, <3>2
    <3>3. QED
      BY <3>1, <3>2
  <2>12. InCall(D) /\ InCall(r) => r.session = "active" \/ In(v, e, p, "accept", c)
    <3>1. SUFFICES ASSUME InCall(D), InCall(r)
                   PROVE  r.session = "active" \/ In(v, e, p, "accept", c)
      OBVIOUS
    <3>2. D.self = "joined" /\ D # NoRow
      BY <2>1, <3>1, OpenCallee
    <3>3. InCall(P)
      BY <1>4, <1>6, <3>1, <3>2 DEF D
    <3>4. CASE P.session = "active"
      BY <1>7, <3>1, <3>4
    <3>5. CASE In(w, e, p, "accept", c)
      <4>1. In(v, e, p, "accept", c) \/ tk = "accept"
        BY <1>1, <1>9, <2>1, <2>5, <3>5
      <4>2. QED
        BY <1>7, <2>4, <3>1, <3>2, <3>3, <4>1
    <3>6. QED
      BY <2>2, <3>1, <3>3, <3>4, <3>5
  <2>13. InCall(r) /\ r.session = "active" => InCall(D) \/ Ended(v, e, p, c)
    <3>1. SUFFICES ASSUME InCall(r), r.session = "active"
                   PROVE  InCall(D) \/ Ended(v, e, p, c)
      OBVIOUS
    <3>2. InCall(P)
      BY <1>6, <3>1
    <3>3. CASE P.session = "active" /\ tk \notin Ends
      BY <2>2, <2>9, <3>2, <3>3
    <3>4. CASE tk = "heard"
      <4>1. s = e /\ InCall(D)
        BY <1>2, <1>11, <2>3, <3>4 DEF D
      <4>2. QED
        BY <4>1
    <3>5. CASE tk = "accept" /\ P.peer \in {"ringing", "joined"}
      <4>1. s = e /\ In(w, e, p, "accept", c)
        BY <1>5, <2>3, <2>5, <3>5
      <4>2. tk \notin Ends
        BY <3>5 DEF Ends
      <4>3. QED
        BY <2>2, <2>9, <3>2, <3>5, <4>1, <4>2
    <3>6. QED
      BY <1>7, <3>1, <3>3, <3>4, <3>5
  <2>14. In(v, e, p, "accept", c) /\ InCall(r) /\ r.peer \in {"ringing", "joined"}
           => InCall(D) \/ Ended(v, e, p, c)
    <3>1. SUFFICES ASSUME In(v, e, p, "accept", c), InCall(r), r.peer \in {"ringing", "joined"}
                   PROVE  InCall(D) \/ Ended(v, e, p, c)
      OBVIOUS
    <3>2. In(w, e, p, "accept", c)
      BY <1>1, <1>9, <2>1, <2>5, <3>1
    <3>3. P # NoRow
      BY <1>1, <1>2, <2>1, <2>5, <3>2, NoRowFacts DEF WiresFit, p, P
    <3>4. InCall(P)
      BY <1>6, <3>1, <3>3
    <3>5. P.peer \in {"ringing", "joined"}
      BY <1>4, <1>7, <3>1, <3>4 DEF CallerRow
    <3>6. tk \notin Ends
      BY <1>7, <3>1
    <3>7. QED
      BY <2>2, <2>9, <3>2, <3>4, <3>5, <3>6
  <2>15. QED
    BY <1>1, <2>1, <2>11, <2>12, <2>13, <2>14 DEF Paired, p
<1>14. QED
  BY <1>8, <1>10, <1>12, <1>13 DEF CallFits

-----------------------------------------------------------------------------
(***************************************************************************)
(* A step of a device that is called, and one of any other.                *)
(***************************************************************************)

LEMMA CalleeMoves ==
  ASSUME NEW x, NEW z, NEW w, NEW v, NEW c \in Calls, NEW d \in Invited(c), NEW s \in Devices,
         NEW r, NEW tk, NEW f,
         CallStep(x, z, w, v, d, s, c, r, tk, f)
  PROVE  CallFits(z, v, c)
<1> DEFINE p == Placer[c]
           P == x[p][c]
           D == x[d][c]
           out == SaidOf(f, Owner[p], c)
           own == SaidOf(f, Owner[d], c)
<1>1. /\ p \in Devices /\ p \notin Invited(c) /\ d \in Devices /\ d # p
      /\ z[p][c] = P /\ z[d][c] = r /\ D \in Rows /\ r \in Rows
      /\ \A e \in Devices : e # d => z[e][c] = x[e][c]
      /\ \A e \in Invited(c) : e \in Devices /\ e # p
      /\ \A e \in Devices : Owner[e] = Invitee[c] <=> e \in Invited(c)
      /\ \A e \in Invited(c) : Owner[e] = Owner[d] /\ Owner[e] # Owner[p]
  BY Two DEF CallStep
<1>2. /\ RowsFit(x, c) /\ WiresFit(x, w, c) /\ Knows(x, c)
      /\ \A e \in Invited(c) : Sole(x, c, e) => Paired(x, w, c, e)
      /\ WireStep(w, v, d, s, c, tk, f)
      /\ CalleeStep(D, r, out, own, tk)
  BY DEF CallStep, CallFits, PartyStep
<1>3. \A t \in Devices : SaidOf(f, Owner[t], c) # {} =>
        \/ t \in Invited(c) /\ SaidOf(f, Owner[t], c) = own
        \/ Owner[t] = Owner[p] /\ SaidOf(f, Owner[t], c) = out
  BY <1>1 DEF CallStep, PartyStep
<1>4. /\ CalleeRow(D) /\ \A e \in Invited(c) : CalleeRow(x[e][c])
      /\ \A e \in Invited(c) : x[e][c].session # "none" => P.session # "none"
  BY <1>2 DEF RowsFit
<1>5. /\ CalleeRow(r)
      /\ D.session # "none" => r.session # "none"
      /\ D.session = "none" /\ r.session # "none" => tk = "invite"
      /\ out \subseteq {"accept", "decline", "leave", "ended", "roster"}
      /\ own \subseteq {"answered"}
      /\ "decline" \in out => r.self = "declined"
      /\ out \cap Ends # {} => r.self = "left"
      /\ out \cap {"accept", "roster"} # {} => r.self \in {"joined", "left"}
      /\ own # {} => HasAnswered(r)
      /\ D.self \in {"left", "declined"} => r.self = D.self
      /\ D.self = "joined" => r.self \in {"joined", "left"}
      /\ Open(r) => (Open(D) \/ tk = "invite") /\ tk \notin Ends
      /\ InCall(r) => InCall(D) \/ "accept" \in out
      /\ InCall(D) => InCall(r) \/ out \cap Ends # {} \/ tk \in Ends
      /\ "accept" \in out => InCall(r) \/ out \cap Ends # {}
  BY <1>2 DEF CalleeStep
<1> HIDE DEF p, P, D, out, own
<1>6. HasAnswered(D) => HasAnswered(r)
  BY <1>5 DEF HasAnswered
<1>7. "invite" \in Types /\ "accept" \in Types /\ Ends \subseteq Types /\ "invite" \notin Ends
  BY DEF Types, Ends
\* What it takes comes from the caller, or is a sibling's answer.
<1>8. tk \in Types => /\ In(w, s, d, tk, c) /\ P.session # "none"
                      /\ (s = p /\ (tk \in Ends => ~ InCall(P))) \/ tk = "answered"
                      /\ s = p => ~ In(v, p, d, "invite", c)
                      /\ s = p /\ tk # "invite" => ~ In(w, p, d, "invite", c)
  <2>1. SUFFICES ASSUME tk \in Types
                 PROVE  /\ In(w, s, d, tk, c) /\ P.session # "none"
                        /\ (s = p /\ (tk \in Ends => ~ InCall(P))) \/ tk = "answered"
                        /\ s = p => ~ In(v, p, d, "invite", c)
                        /\ s = p /\ tk # "invite" => ~ In(w, p, d, "invite", c)
    OBVIOUS
  <2>2. /\ In(w, s, d, tk, c)
        /\ ~ In(v, s, d, "invite", c)
        /\ tk # "invite" => ~ In(w, s, d, "invite", c)
    BY <1>2, <2>1 DEF WireStep
  <2>3. /\ P.session # "none"
        /\ \/ FromCaller(x, s, d, tk, c)
           \/ FromCallee(x, s, d, tk, c)
           \/ FromSibling(x, s, d, tk, c)
    BY <1>1, <1>2, <2>1, <2>2 DEF WiresFit, p, P
  <2>4. (s = p /\ (tk \in Ends => ~ InCall(P))) \/ tk = "answered"
    BY <1>1, <2>3 DEF FromCaller, FromCallee, FromSibling, p, P
  <2>5. QED
    BY <2>2, <2>3, <2>4
<1>9. /\ \A u, t \in Devices : \A type \in Types :
           /\ In(v, u, t, type, c) =>
                \/ In(w, u, t, type, c)
                \/ u = d /\ t # d /\ t \in Invited(c) /\ type \in own
                \/ u = d /\ Owner[t] = Owner[p] /\ type \in out
           /\ In(w, u, t, type, c) => In(v, u, t, type, c) \/ (u = s /\ t = d /\ type = tk)
      /\ \A type \in Types : type \in out => In(v, d, p, type, c)
  <2>1. \A type \in out : type \in SaidOf(f, Owner[p], c)
    BY DEF out
  <2>2. QED
    BY <1>1, <1>2, <1>3, <2>1 DEF WireStep
<1>10. RowsFit(z, c)
  <2>1. r.session # "none" => P.session # "none"
    BY <1>1, <1>4, <1>5, <1>7, <1>8 DEF D
  <2>2. ASSUME NEW e \in Invited(c)
        PROVE  CalleeRow(z[e][c]) /\ (z[e][c].session # "none" => P.session # "none")
    BY <1>1, <1>4, <1>5, <2>1
  <2>3. QED
    BY <1>1, <1>2, <2>2 DEF RowsFit, p, P
<1>11. r # NoRow => r.session # "none" /\ P.session # "none"
  BY <1>1, <1>5, <1>10 DEF CalleeRow, RowsFit, p
<1>12. WiresFit(z, v, c)
  <2>1. ASSUME NEW u \in Devices, NEW t \in Devices, NEW type \in Types, In(v, u, t, type, c)
        PROVE  /\ z[p][c].session # "none"
               /\ \/ FromCaller(z, u, t, type, c)
                  \/ FromCallee(z, u, t, type, c)
                  \/ FromSibling(z, u, t, type, c)
    <3>1. CASE In(w, u, t, type, c)
      <4>1. /\ P.session # "none"
            /\ \/ FromCaller(x, u, t, type, c)
               \/ FromCallee(x, u, t, type, c)
               \/ FromSibling(x, u, t, type, c)
        BY <1>2, <3>1 DEF WiresFit, p, P
      <4>2. FromCaller(x, u, t, type, c) => FromCaller(z, u, t, type, c)
        <5>1. SUFFICES ASSUME FromCaller(x, u, t, type, c), type = "invite", t = d
                       PROVE  r = NoRow
          BY <1>1 DEF FromCaller, p, P
        <5>2. u = p /\ D = NoRow /\ In(v, p, d, "invite", c) /\ In(w, p, d, "invite", c)
          BY <2>1, <3>1, <5>1 DEF FromCaller, p, D
        <5>3. tk # "invite"
          BY <1>7, <1>8, <5>2
        <5>4. r.session = "none"
          BY <1>5, <5>2, <5>3, NoRowFacts
        <5>5. QED
          BY <1>5, <5>4 DEF CalleeRow
      <4>3. FromCallee(x, u, t, type, c) => FromCallee(z, u, t, type, c)
        <5>1. CASE u = d
          BY <1>1, <1>5, <5>1 DEF FromCallee, D
        <5>2. CASE u # d
          BY <1>1, <5>2 DEF FromCallee
        <5>3. QED
          BY <5>1, <5>2
      <4>4. FromSibling(x, u, t, type, c) => FromSibling(z, u, t, type, c)
        BY <1>1, <1>6 DEF FromSibling, D
      <4>5. QED
        BY <1>1, <4>1, <4>2, <4>3, <4>4
    <3>2. CASE u = d /\ t # d /\ t \in Invited(c) /\ type \in own
      <4>1. type = "answered" /\ HasAnswered(r)
        BY <1>5, <3>2
      <4>2. FromSibling(z, u, t, type, c)
        BY <1>1, <3>2, <4>1 DEF FromSibling
      <4>3. P.session # "none"
        BY <1>5, <1>11, <4>1, OpenCallee
      <4>4. QED
        BY <1>1, <4>2, <4>3
    <3>3. CASE u = d /\ Owner[t] = Owner[p] /\ type \in out
      <4>1. \/ type = "decline" /\ r.self = "declined"
            \/ type \in Ends /\ r.self = "left"
            \/ type \in {"accept", "roster"} /\ r.self \in {"joined", "left"}
        BY <1>5, <3>3 DEF Ends
      <4>2. FromCallee(z, u, t, type, c)
        BY <1>1, <3>3, <4>1 DEF FromCallee, p
      <4>3. P.session # "none"
        BY <1>5, <1>11, <4>1, OpenCallee DEF HasAnswered
      <4>4. QED
        BY <1>1, <4>2, <4>3
    <3>4. QED
      BY <1>9, <2>1, <3>1, <3>2, <3>3
  <2>2. QED
    BY <2>1 DEF WiresFit, p
<1>13. \A e \in Invited(c) : HasAnswered(x[e][c]) => HasAnswered(z[e][c])
  BY <1>1, <1>6 DEF D
<1>14. Knows(z, c)
  <2>1. SUFFICES ASSUME InCall(P), P.peer # "ringing"
                 PROVE  \E e \in Invited(c) :
                          HasAnswered(z[e][c]) /\ (P.peer = "left" => z[e][c].self = "left")
    BY <1>1 DEF Knows, p
  <2>2. PICK e \in Invited(c) : HasAnswered(x[e][c]) /\ (P.peer = "left" => x[e][c].self = "left")
    BY <1>2, <2>1 DEF Knows, p, P
  <2>3. P.peer = "left" => z[e][c].self = "left"
    BY <1>1, <1>5, <2>2 DEF D
  <2>4. QED
    BY <1>13, <2>2, <2>3
<1>15. ASSUME NEW e \in Invited(c), Sole(z, c, e), e # d
       PROVE  Paired(z, v, c, e)
  <2>1. Sole(x, c, e) /\ e \in Devices /\ e # p /\ z[e][c] = x[e][c]
    BY <1>1, <1>13, <1>15 DEF Sole
  <2>2. Paired(x, w, c, e)
    BY <1>2, <2>1
  <2>3. /\ \A type \in Types : In(v, p, e, type, c) => In(w, p, e, type, c)
        /\ \A type \in Types : In(w, p, e, type, c) => In(v, p, e, type, c)
        /\ \A type \in Types : In(v, e, p, type, c) => In(w, e, p, type, c)
        /\ \A type \in Types : In(w, e, p, type, c) => In(v, e, p, type, c)
    BY <1>1, <1>9, <1>15, <2>1
  <2>4. (Ended(w, p, e, c) <=> Ended(v, p, e, c)) /\ (Ended(w, e, p, c) <=> Ended(v, e, p, c))
    BY <1>7, <2>3 DEF Ended
  <2>5. QED
    BY <1>1, <1>7, <2>1, <2>2, <2>3, <2>4 DEF Paired, p, P
<1>16. ASSUME Sole(z, c, d)
       PROVE  Paired(z, v, c, d)
  <2>1. Sole(x, c, d)
    BY <1>1, <1>13, <1>16 DEF Sole
  <2>2. /\ In(w, p, d, "invite", c) \/ Open(D) => InCall(P) \/ Ended(w, p, d, c)
        /\ InCall(D) /\ InCall(P) => P.session = "active" \/ In(w, d, p, "accept", c)
        /\ InCall(P) /\ P.session = "active" => InCall(D) \/ Ended(w, d, p, c)
        /\ In(w, d, p, "accept", c) /\ InCall(P) /\ P.peer \in {"ringing", "joined"}
             => InCall(D) \/ Ended(w, d, p, c)
    BY <1>2, <2>1 DEF Paired, p, P, D
  <2>3. In(v, p, d, "invite", c) => In(w, p, d, "invite", c)
    BY <1>1, <1>7, <1>9
  <2>4. Ended(w, p, d, c) => Ended(v, p, d, c) \/ (s = p /\ tk \in Ends)
    BY <1>1, <1>7, <1>9 DEF Ended
  <2>5. Ended(w, d, p, c) => Ended(v, d, p, c)
    BY <1>1, <1>7, <1>9 DEF Ended
  <2>6. out \cap Ends # {} => Ended(v, d, p, c)
    BY <1>7, <1>9 DEF Ended
  <2>7. In(v, p, d, "invite", c) \/ Open(r) => InCall(P) \/ Ended(v, p, d, c)
    <3>1. CASE Open(r)
      <4>1. In(w, p, d, "invite", c) \/ Open(D)
        <5>1. tk = "invite" => s = p
          BY <1>7, <1>8
        <5>2. tk = "invite" => In(w, p, d, "invite", c)
          BY <1>7, <1>8, <5>1
        <5>3. QED
          BY <1>5, <3>1, <5>2
      <4>2. QED
        BY <1>5, <2>2, <2>4, <3>1, <4>1
    <3>2. CASE In(v, p, d, "invite", c)
      <4>1. ~ (s = p /\ tk \in Ends)
        BY <1>7, <1>8, <2>3, <3>2
      <4>2. QED
        BY <2>2, <2>3, <2>4, <3>2, <4>1
    <3>3. QED
      BY <3>1, <3>2
  <2>8. InCall(r) /\ InCall(P) => P.session = "active" \/ In(v, d, p, "accept", c)
    <3>1. In(w, d, p, "accept", c) => In(v, d, p, "accept", c)
      BY <1>1, <1>7, <1>9
    <3>2. "accept" \in out => In(v, d, p, "accept", c)
      BY <1>7, <1>9
    <3>3. QED
      BY <1>5, <2>2, <3>1, <3>2
  <2>9. InCall(P) /\ InCall(D) => InCall(r) \/ Ended(v, d, p, c)
    <3>1. InCall(P) => tk \notin Ends
      BY <1>7, <1>8 DEF Ends
    <3>2. QED
      BY <1>5, <2>6, <3>1
  <2>10. InCall(P) /\ P.session = "active" => InCall(r) \/ Ended(v, d, p, c)
    BY <2>2, <2>5, <2>9
  <2>11. In(v, d, p, "accept", c) /\ InCall(P) /\ P.peer \in {"ringing", "joined"}
           => InCall(r) \/ Ended(v, d, p, c)
    <3>1. In(v, d, p, "accept", c) => In(w, d, p, "accept", c) \/ "accept" \in out
      BY <1>1, <1>7, <1>9
    <3>2. QED
      BY <1>5, <2>2, <2>5, <2>6, <2>9, <3>1
  <2>12. QED
    BY <1>1, <2>7, <2>8, <2>10, <2>11 DEF Paired, p
<1>17. QED
  BY <1>10, <1>12, <1>14, <1>15, <1>16 DEF CallFits

LEMMA OtherMoves ==
  ASSUME NEW x, NEW z, NEW w, NEW v, NEW c \in Calls, NEW d \in Devices, NEW s \in Devices,
         d # Placer[c], d \notin Invited(c), NEW r, NEW tk, NEW f,
         CallStep(x, z, w, v, d, s, c, r, tk, f)
  PROVE  CallFits(z, v, c)
<1> DEFINE p == Placer[c]
<1>1. /\ p \in Devices /\ p # d /\ \A e \in Invited(c) : e \in Devices /\ e # d /\ e # p
      /\ \A e \in Devices : z[e][c] = x[e][c]
  BY Two DEF CallStep, PartyStep
<1>2. /\ RowsFit(x, c) /\ WiresFit(x, w, c) /\ Knows(x, c)
      /\ \A e \in Invited(c) : Sole(x, c, e) => Paired(x, w, c, e)
      /\ WireStep(w, v, d, s, c, tk, f)
      /\ \A t \in Devices : SaidOf(f, Owner[t], c) = {}
  BY DEF CallStep, CallFits, PartyStep
<1> HIDE DEF p
<1>3. \A u, t \in Devices : \A type \in Types :
        /\ In(v, u, t, type, c) => In(w, u, t, type, c)
        /\ In(w, u, t, type, c) => In(v, u, t, type, c) \/ t = d
  BY <1>2 DEF WireStep
<1>4. RowsFit(z, c) /\ Knows(z, c) /\ \A e \in Invited(c) : Sole(z, c, e) <=> Sole(x, c, e)
  <2>1. RowsFit(z, c)
    BY <1>1, <1>2 DEF RowsFit, p
  <2>2. Knows(z, c)
    BY <1>1, <1>2 DEF Knows, p
  <2>3. QED
    BY <1>1, <2>1, <2>2 DEF Sole
<1>5. WiresFit(z, v, c)
  <2>1. ASSUME NEW u \in Devices, NEW t \in Devices, NEW type \in Types, In(v, u, t, type, c)
        PROVE  /\ z[p][c].session # "none"
               /\ \/ FromCaller(z, u, t, type, c)
                  \/ FromCallee(z, u, t, type, c)
                  \/ FromSibling(z, u, t, type, c)
    <3>1. /\ x[p][c].session # "none"
          /\ \/ FromCaller(x, u, t, type, c)
             \/ FromCallee(x, u, t, type, c)
             \/ FromSibling(x, u, t, type, c)
      BY <1>2, <1>3, <2>1 DEF WiresFit, p
    <3>2. QED
      BY <1>1, <3>1 DEF FromCaller, FromCallee, FromSibling
  <2>2. QED
    BY <2>1 DEF WiresFit, p
<1>6. ASSUME NEW e \in Invited(c), Sole(x, c, e)
      PROVE  Paired(z, v, c, e)
  <2>1. Paired(x, w, c, e) /\ e \in Devices /\ e # d /\ e # p
    BY <1>1, <1>2, <1>6
  <2>2. "invite" \in Types /\ "accept" \in Types /\ Ends \subseteq Types
    BY DEF Types, Ends
  <2>3. /\ Ended(w, p, e, c) => Ended(v, p, e, c)
        /\ Ended(w, e, p, c) => Ended(v, e, p, c)
        /\ In(v, p, e, "invite", c) => In(w, p, e, "invite", c)
        /\ In(v, e, p, "accept", c) <=> In(w, e, p, "accept", c)
    BY <1>1, <1>3, <2>1, <2>2 DEF Ended
  <2>4. QED
    BY <1>1, <2>1, <2>3 DEF Paired, p
<1>7. QED
  BY <1>4, <1>5, <1>6 DEF CallFits

\* A step of any device.
LEMMA CallKept ==
  ASSUME NEW x, NEW z, NEW w, NEW v, NEW c \in Calls, NEW d \in Devices, NEW s \in Devices,
         NEW r, NEW tk, NEW f,
         CallStep(x, z, w, v, d, s, c, r, tk, f)
  PROVE  CallFits(z, v, c)
BY CallerMoves, CalleeMoves, OtherMoves

-----------------------------------------------------------------------------
(***************************************************************************)
(* Two calls that cross, on a device that places one and is called in the  *)
(* other: its rows x.                                                      *)
(***************************************************************************)

Crossed(x, d, c) ==
  /\ x[c].session # "none" /\ x[c].invite = "none" =>
       \E k \in Calls : /\ Placer[k] = d /\ Invitee[k] = Owner[Placer[c]]
                        /\ k < c /\ x[k].session # "none"
  /\ \A k \in Calls :
       (/\ Placer[k] = d /\ Invitee[k] = Owner[Placer[c]]
        /\ InCall(x[k]) /\ x[k].peer = "ringing") => x[c].invite # "pending"

Crosses(x, d) == \A c \in Calls : d \in Invited(c) => Crossed(x, d, c)

\* What d takes from s, by call, and says then.
Wired(v, d, s, tk, f) ==
  /\ Said(f)
  /\ \/ v = Post(wire, d, f) /\ \A c \in Calls : tk[c] \notin Types
     \/ \E m \in Coming(s, d) :
          v = Post(Taken(s, d, m), d, f) /\ \A c \in Calls : tk[c] = TypeTaken(m, c)

\* A step of device d, which leaves its rows as y.
Moves(y, v, d, s, tk, f) ==
  /\ Wired(v, d, s, tk, f)
  /\ \A c \in Calls : PartyStep(rows, y[c], d, s, c, tk[c], f)
  /\ Crosses(y, d)

MeetOK ==
  /\ \A c \in Calls : CallFits(rows, wire, c) /\ AllOrdered(wire, c)
  /\ \A d \in Devices : Crosses(rows[d], d)

\* An invite to a call goes out before anything else of it.
LEMMA InvitesInOrder ==
  ASSUME NEW c \in Calls, NEW d \in Devices, NEW s, NEW r, NEW tk, NEW f,
         CallFits(rows, wire, c), PartyStep(rows, r, d, s, c, tk, f)
  PROVE  InOrder(wire, d, f, c)
<1>1. SUFFICES ASSUME NEW t \in Devices, t # d, "invite" \in SaidOf(f, Owner[t], c)
               PROVE  /\ SaidOf(f, Owner[t], c) \subseteq {"invite"}
                      /\ \A type \in Types : ~ In(wire, d, t, type, c)
  BY DEF InOrder
<1>2. /\ RowsFit(rows, c) /\ WiresFit(rows, wire, c)
  BY DEF CallFits
<1>3. CASE d = Placer[c] /\ t \in Invited(c)
  <2>1. Owner[t] = Invitee[c] /\ CallerStep(rows[d][c], r, SaidOf(f, Owner[t], c), tk)
    BY <1>3, Two DEF PartyStep
  <2>2. rows[d][c] = NoRow /\ SaidOf(f, Owner[t], c) \subseteq {"invite"}
    BY <1>1, <2>1 DEF CallerStep
  <2>3. \A type \in Types : ~ In(wire, d, t, type, c)
    BY <1>2, <1>3, <2>2, NoRowFacts DEF WiresFit
  <2>4. QED
    BY <2>2, <2>3
<1>4. CASE d \in Invited(c) /\ (t \in Invited(c) \/ Owner[t] = Owner[Placer[c]])
  <2>1. CalleeStep(rows[d][c], r, SaidOf(f, Owner[Placer[c]], c), SaidOf(f, Owner[d], c), tk)
    BY <1>4 DEF PartyStep
  <2>2. t \in Invited(c) => Owner[t] = Owner[d]
    BY <1>4, Two
  <2>3. QED
    BY <1>1, <1>4, <2>1, <2>2 DEF CalleeStep
<1>5. QED
  BY <1>1, <1>3, <1>4 DEF PartyStep

\* A step that says of every call what a party may keeps the ends meeting.
LEMMA MeetKept ==
  ASSUME Inv, Inv', MeetOK, NEW d \in Devices, NEW s \in Devices, NEW tk, NEW f, NEW y,
         rows' = [rows EXCEPT ![d] = y], Moves(y, wire', d, s, tk, f)
  PROVE  MeetOK'
<1>1. /\ rows \in [Devices -> [Calls -> Rows]] /\ rows' \in [Devices -> [Calls -> Rows]]
      /\ WireOK(wire)
  BY DEF Inv, TypeOK, WireOK
<1>2. /\ \A e \in Devices, c \in Calls : rows[e][c] \in Rows
      /\ \A e \in Devices : rows'[e] = IF e = d THEN y ELSE rows[e]
      /\ \A c \in Calls : y[c] \in Rows
  BY <1>1
<1>3. ASSUME NEW c \in Calls
      PROVE  CallFits(rows', wire', c) /\ AllOrdered(wire', c)
  <2>1. CallFits(rows, wire, c) /\ AllOrdered(wire, c)
    BY DEF MeetOK
  <2>2. PartyStep(rows, y[c], d, s, c, tk[c], f)
    BY DEF Moves
  <2>3. InOrder(wire, d, f, c)
    BY <2>1, <2>2, InvitesInOrder
  <2>4. WireStep(wire, wire', d, s, c, tk[c], f) /\ AllOrdered(wire', c)
    <3>1. Said(f)
      BY DEF Moves, Wired
    <3>2. CASE wire' = Post(wire, d, f) /\ tk[c] \notin Types
      BY <1>1, <2>1, <2>3, <3>1, <3>2, WirePosts
    <3>3. CASE \E m \in Coming(s, d) : wire' = Post(Taken(s, d, m), d, f) /\ tk[c] = TypeTaken(m, c)
      BY <1>1, <2>1, <2>3, <3>1, <3>3, WireTakes
    <3>4. QED
      BY <3>2, <3>3 DEF Moves, Wired
  <2>5. \A e \in Devices : rows'[e][c] = IF e = d THEN y[c] ELSE rows[e][c]
    BY <1>2
  <2>6. CallStep(rows, rows', wire, wire', d, s, c, y[c], tk[c], f)
    BY <1>2, <2>1, <2>2, <2>4, <2>5 DEF CallStep
  <2>7. QED
    BY <2>4, <2>6, CallKept
<1>4. \A e \in Devices : Crosses(rows'[e], e)
  BY <1>2 DEF Moves, MeetOK
<1>5. QED
  BY <1>3, <1>4 DEF MeetOK

\* What a step must show of the calls that cross: only of an invite it takes,
\* and of a call it places.
LEMMA CrossesKept ==
  ASSUME NEW d \in Devices, NEW s, NEW tk, NEW f, NEW y,
         \A c \in Calls : PartyStep(rows, y[c], d, s, c, tk[c], f),
         Crosses(rows[d], d),
         \A c \in Calls : d \in Invited(c) /\ tk[c] = "invite" => Crossed(y, d, c),
         \A k \in Calls : Placer[k] = d /\ rows[d][k] = NoRow /\ InCall(y[k]) =>
           \A c \in Calls : d \in Invited(c) => y[c].invite # "pending"
  PROVE  Crosses(y, d)
<1>1. SUFFICES ASSUME NEW c \in Calls, d \in Invited(c), tk[c] # "invite"
               PROVE  Crossed(y, d, c)
  BY DEF Crosses
<1>2. Crossed(rows[d], d, c)
  BY <1>1 DEF Crosses
<1>3. /\ y[c].invite = "pending" => rows[d][c].invite = "pending"
      /\ y[c].invite = "none" /\ y[c].session # "none" =>
           rows[d][c].invite = "none" /\ rows[d][c].session # "none"
  BY <1>1 DEF PartyStep, CalleeStep
<1>4. \A k \in Calls : Placer[k] = d =>
        /\ rows[d][k].session # "none" => y[k].session # "none"
        /\ InCall(y[k]) /\ y[k].peer = "ringing" =>
             (InCall(rows[d][k]) /\ rows[d][k].peer = "ringing") \/ rows[d][k] = NoRow
  <2>1. ASSUME NEW k \in Calls, Placer[k] = d
        PROVE  /\ rows[d][k].session # "none" => y[k].session # "none"
               /\ InCall(y[k]) /\ y[k].peer = "ringing" =>
                    (InCall(rows[d][k]) /\ rows[d][k].peer = "ringing") \/ rows[d][k] = NoRow
    <3>1. PICK out : CallerStep(rows[d][k], y[k], out, tk[k])
      BY <2>1 DEF PartyStep
    <3>2. QED
      BY <3>1 DEF CallerStep
  <2>2. QED
    BY <2>1
<1>5. QED
  BY <1>1, <1>2, <1>3, <1>4 DEF Crossed

\* What is said of a call to the other account, and to one's own devices.
SaysTo(f, d, c, out, own) ==
  \A a \in Accounts : SaidOf(f, a, c) = IF a = Other(d, c) THEN out ELSE IF a = Owner[d] THEN own ELSE {}

LEMMA Parts ==
  ASSUME NEW c \in Calls, NEW d \in Devices
  PROVE  /\ d = Placer[c] => Other(d, c) = Invitee[c]
         /\ d \in Invited(c) => Other(d, c) = Owner[Placer[c]] /\ d # Placer[c]
         /\ Other(d, c) # Owner[d] /\ Other(d, c) \in Accounts /\ Owner[d] \in Accounts
BY CallAssumption DEF Other, Invited

LEMMA PartyMoves ==
  ASSUME NEW c \in Calls, NEW d \in Devices, NEW s, NEW r, NEW tk, NEW f, NEW out, NEW own,
         SaysTo(f, d, c, out, own),
         d = Placer[c] => own = {} /\ CallerStep(rows[d][c], r, out, tk),
         d \in Invited(c) => CalleeStep(rows[d][c], r, out, own, tk),
         d # Placer[c] /\ d \notin Invited(c) => r = rows[d][c] /\ out = {} /\ own = {},
         tk = "heard" => d = Placer[c] /\ s \in Invited(c) /\ InCall(rows[s][c])
  PROVE  PartyStep(rows, r, d, s, c, tk, f)
<1>1. /\ Placer[c] \in Devices /\ Placer[c] \notin Invited(c)
      /\ Invitee[c] \in Accounts /\ Owner[Placer[c]] \in Accounts
      /\ Invitee[c] # Owner[Placer[c]]
      /\ \A t \in Devices : Owner[t] \in Accounts /\ (t \in Invited(c) <=> Owner[t] = Invitee[c])
  BY Two
<1>2. CASE d = Placer[c]
  <2>1. Other(d, c) = Invitee[c] /\ own = {}
    BY <1>2, Parts
  <2>2. SaidOf(f, Invitee[c], c) = out
    BY <1>1, <2>1 DEF SaysTo
  <2>3. \A t \in Devices : SaidOf(f, Owner[t], c) # {} => t \in Invited(c)
    BY <1>1, <2>1 DEF SaysTo
  <2>4. QED
    BY <1>1, <1>2, <2>2, <2>3 DEF PartyStep
<1>3. CASE d \in Invited(c)
  <2>1. Other(d, c) = Owner[Placer[c]] /\ d # Placer[c] /\ Other(d, c) # Owner[d]
    BY <1>3, Parts
  <2>2. SaidOf(f, Owner[Placer[c]], c) = out /\ SaidOf(f, Owner[d], c) = own
    BY <1>1, <2>1 DEF SaysTo
  <2>3. \A t \in Devices : SaidOf(f, Owner[t], c) # {} =>
          Owner[t] = Owner[Placer[c]] \/ t \in Invited(c)
    BY <1>1, <1>3, <2>1 DEF SaysTo
  <2>4. QED
    BY <1>1, <1>3, <2>1, <2>2, <2>3 DEF PartyStep
<1>4. CASE d # Placer[c] /\ d \notin Invited(c)
  <2>1. \A t \in Devices : SaidOf(f, Owner[t], c) = {}
    BY <1>1, <1>4 DEF SaysTo
  <2>2. QED
    BY <1>4, <2>1 DEF PartyStep
<1>5. QED
  BY <1>2, <1>3, <1>4

-----------------------------------------------------------------------------
(***************************************************************************)
(* What is said, call by call.                                             *)
(***************************************************************************)

LEMMA Says ==
  ASSUME NEW d \in Devices, NEW c \in Calls
  PROVE  /\ SaysTo(Nothing, d, c, {}, {})
         /\ \A k : \A T \in SUBSET Types : \A ms :
              (\A t \in Types : Control(t, c) \in ms <=> c = k /\ t \in T) =>
                \A a : a = Other(d, k) =>
                  SaysTo(Say(a, ms), d, c, IF c = k THEN T ELSE {}, {})
         /\ \A k : SaysTo(TellOwnDevicesAnswered(d, k), d, c, {}, IF c = k THEN {"answered"} ELSE {})
         /\ \A k \in Calls : \A r :
              SaysTo(Say(Other(d, k), Leaving(k, r)), d, c, IF c = k THEN Parting(r) ELSE {}, {})
         /\ \A k \in Calls : \A x :
              SaysTo(LeavingOthers(d, x, k), d, c, IF c = k THEN {} ELSE LeftSays(x[c]), {})
         /\ \A f, g : \A o, p, u, v : SaysTo(f, d, c, o, u) /\ SaysTo(g, d, c, p, v) =>
              SaysTo(Both(f, g), d, c, o \cup p, u \cup v)
<1>1. Owner[d] \in Accounts /\ \A k \in Calls : Other(d, k) \in Accounts /\ Other(d, k) # Owner[d]
  BY Parts
<1>2. SaysTo(Nothing, d, c, {}, {})
  BY SaidOfs DEF SaysTo
<1>3. ASSUME NEW k, NEW T \in SUBSET Types, NEW ms,
             \A t \in Types : Control(t, c) \in ms <=> c = k /\ t \in T, NEW a, a = Other(d, k)
      PROVE  SaysTo(Say(a, ms), d, c, IF c = k THEN T ELSE {}, {})
  <2>1. {t \in Types : Control(t, c) \in ms} = IF c = k THEN T ELSE {}
    BY <1>3
  <2>2. \A b \in Accounts : SaidOf(Say(a, ms), b, c) = IF b = a THEN {t \in Types : Control(t, c) \in ms} ELSE {}
    <3>1. \A b \in Accounts : Say(a, ms)[b] = IF b = a THEN ms ELSE {}
      BY DEF Say, Nothing
    <3>2. QED
      BY <3>1 DEF SaidOf
  <2>3. CASE c = k
    BY <1>3, <2>1, <2>2, <2>3 DEF SaysTo
  <2>4. CASE c # k
    BY <1>3, <2>1, <2>2, <2>4 DEF SaysTo
  <2>5. QED
    BY <2>3, <2>4
<1>4. ASSUME NEW k
      PROVE  SaysTo(TellOwnDevicesAnswered(d, k), d, c, {}, IF c = k THEN {"answered"} ELSE {})
  <2>1. {t \in Types : Control(t, c) \in {Control("answered", k)}} = IF c = k THEN {"answered"} ELSE {}
    BY ControlIs DEF Types
  <2>2. \A b \in Accounts : SaidOf(Say(Owner[d], {Control("answered", k)}), b, c) =
          IF b = Owner[d] THEN {t \in Types : Control(t, c) \in {Control("answered", k)}} ELSE {}
    BY <1>1, SaidOfs
  <2>3. QED
    BY <1>1, <2>1, <2>2 DEF SaysTo, TellOwnDevicesAnswered
<1>5. ASSUME NEW k \in Calls, NEW r
      PROVE  SaysTo(Say(Other(d, k), Leaving(k, r)), d, c, IF c = k THEN Parting(r) ELSE {}, {})
  <2>1. {t \in Types : Control(t, c) \in Leaving(k, r)} = IF k = c THEN Parting(r) ELSE {}
    BY SaidOfs
  <2>2. \A b \in Accounts : SaidOf(Say(Other(d, k), Leaving(k, r)), b, c) =
          IF b = Other(d, k) THEN {t \in Types : Control(t, c) \in Leaving(k, r)} ELSE {}
    BY <1>1, SaidOfs
  <2>3. QED
    BY <1>1, <2>1, <2>2 DEF SaysTo
<1>6. ASSUME NEW k \in Calls, NEW x
      PROVE  SaysTo(LeavingOthers(d, x, k), d, c, IF c = k THEN {} ELSE LeftSays(x[c]), {})
  BY <1>1, LeavingOthersSays DEF SaysTo
<1>7. ASSUME NEW f, NEW g, NEW o, NEW p, NEW u, NEW v,
             SaysTo(f, d, c, o, u), SaysTo(g, d, c, p, v)
      PROVE  SaysTo(Both(f, g), d, c, o \cup p, u \cup v)
  <2>1. \A a \in Accounts : SaidOf(Both(f, g), a, c) = SaidOf(f, a, c) \cup SaidOf(g, a, c)
    BY SaidOfs
  <2>2. QED
    BY <1>7, <2>1 DEF SaysTo
<1>8. QED
  BY <1>2, <1>3, <1>4, <1>5, <1>6, <1>7

-----------------------------------------------------------------------------
(***************************************************************************)
(* Steps that change the row of one call.                                  *)
(***************************************************************************)

\* Whose rows these are.
LEMMA WhoseRow ==
  ASSUME Inv, MeetOK, NEW d \in Devices, NEW c \in Calls
  PROVE  /\ RowOK(rows[d][c]) /\ rows[d][c] \in Rows
         /\ d = Placer[c] => CallerRow(rows[d][c])
         /\ d \in Invited(c) => CalleeRow(rows[d][c])
         /\ d # Placer[c] /\ d \notin Invited(c) => rows[d][c] = NoRow
         /\ rows[d][c].invite = "pending" \/ rows[d][c].live = "ringing" => d \in Invited(c) /\ d # Placer[c]
<1>1. RowOK(rows[d][c]) /\ rows[d][c] \in Rows
  BY DEF Inv, RowsOK, RowOK
<1>2. RowsFit(rows, c)
  BY DEF MeetOK, CallFits
<1>3. /\ d = Placer[c] => CallerRow(rows[d][c])
      /\ d \in Invited(c) => CalleeRow(rows[d][c])
      /\ d # Placer[c] /\ d \notin Invited(c) => rows[d][c] = NoRow
  BY <1>2 DEF RowsFit
<1>4. QED
  BY <1>1, <1>3, NoRowFacts DEF CallerRow

\* A call that nothing is said of keeps its row.
LEMMA IdleMoves ==
  ASSUME Inv, MeetOK, NEW d \in Devices, NEW c \in Calls, NEW s, NEW tk, NEW f,
         tk \notin Ends \cup {"accept", "heard"}, SaysTo(f, d, c, {}, {})
  PROVE  PartyStep(rows, rows[d][c], d, s, c, tk, f)
BY WhoseRow, CallerIdles, CalleeIdles, PartyMoves

\* A call that is left as another is placed or answered.
LEMMA LeftMoves ==
  ASSUME Inv, MeetOK, NEW d \in Devices, NEW c \in Calls, NEW s, NEW tk, NEW f,
         tk \notin Ends \cup {"accept", "heard"}, SaysTo(f, d, c, LeftSays(rows[d][c]), {})
  PROVE  PartyStep(rows, Left(rows[d][c]), d, s, c, tk, f)
<1>1. /\ d = Placer[c] => CallerStep(rows[d][c], Left(rows[d][c]), LeftSays(rows[d][c]), tk)
      /\ d \in Invited(c) => CalleeStep(rows[d][c], Left(rows[d][c]), LeftSays(rows[d][c]), {}, tk)
  BY WhoseRow, CallerLeaves, CalleeLeaves
<1>2. d # Placer[c] /\ d \notin Invited(c) =>
        Left(rows[d][c]) = rows[d][c] /\ LeftSays(rows[d][c]) = {}
  BY WhoseRow, NoRowFacts DEF Left, LeftSays
<1>3. QED
  BY <1>1, <1>2, PartyMoves

Moved ==
  \E d, s \in Devices : \E tk, f, y :
    rows' = [rows EXCEPT ![d] = y] /\ Moves(y, wire', d, s, tk, f)

\* A step that changes the row of one call.
OnCall(c, tk) == [k \in Calls |-> IF k = c THEN tk ELSE "nothing"]

LEMMA PutMoves ==
  ASSUME Inv, MeetOK, NEW d \in Devices, NEW s \in Devices, NEW c \in Calls, NEW r, NEW f, NEW tk,
         NEW out, NEW own,
         Put(d, c, r), Wired(wire', d, s, OnCall(c, tk), f),
         \A k \in Calls : SaysTo(f, d, k, IF k = c THEN out ELSE {}, IF k = c THEN own ELSE {}),
         d = Placer[c] => own = {} /\ CallerStep(rows[d][c], r, out, tk),
         d \in Invited(c) => CalleeStep(rows[d][c], r, out, own, tk),
         d # Placer[c] /\ d \notin Invited(c) => r = rows[d][c] /\ out = {} /\ own = {},
         tk = "heard" => d = Placer[c] /\ s \in Invited(c) /\ InCall(rows[s][c]),
         d \in Invited(c) /\ tk = "invite" => Crossed([rows[d] EXCEPT ![c] = r], d, c),
         d = Placer[c] /\ rows[d][c] = NoRow => ~ InCall(r)
  PROVE  Moved
<1>1. PICK y : y = [rows[d] EXCEPT ![c] = r]
  OBVIOUS
<1>2. /\ rows \in [Devices -> [Calls -> Rows]]
      /\ rows' = [rows EXCEPT ![d] = y]
      /\ \A k \in Calls : y[k] = IF k = c THEN r ELSE rows[d][k]
  BY <1>1 DEF Inv, TypeOK, Put
<1>3. PICK tks : tks = OnCall(c, tk)
  OBVIOUS
<1>4. \A k \in Calls : tks[k] = IF k = c THEN tk ELSE "nothing"
  BY <1>3 DEF OnCall
<1>5. ASSUME NEW k \in Calls
      PROVE  PartyStep(rows, y[k], d, s, k, tks[k], f)
  <2>1. CASE k = c
    <3>1. SaysTo(f, d, c, out, own)
      BY <2>1
    <3>2. PartyStep(rows, r, d, s, c, tk, f)
      BY <3>1, PartyMoves
    <3>3. QED
      BY <1>2, <1>4, <2>1, <3>2
  <2>2. CASE k # c
    <3>1. SaysTo(f, d, k, {}, {}) /\ "nothing" \notin Ends \cup {"accept", "heard"}
      BY <2>2 DEF Ends
    <3>2. PartyStep(rows, rows[d][k], d, s, k, "nothing", f)
      BY <3>1, IdleMoves
    <3>3. QED
      BY <1>2, <1>4, <2>2, <3>2
  <2>3. QED
    BY <2>1, <2>2
<1>6. Crosses(rows[d], d)
  BY DEF MeetOK
<1>7. \A k \in Calls : d \in Invited(k) /\ tks[k] = "invite" => Crossed(y, d, k)
  BY <1>1, <1>4
<1>8. \A k \in Calls : Placer[k] = d /\ rows[d][k] = NoRow => ~ InCall(y[k])
  BY <1>2, NoRowFacts
<1>9. Crosses(y, d)
  BY <1>5, <1>6, <1>7, <1>8, CrossesKept
<1>10. Moves(y, wire', d, s, tks, f)
  BY <1>3, <1>5, <1>9 DEF Moves
<1>11. QED
  BY <1>2, <1>10 DEF Moved

LEMMA OnCalls ==
  ASSUME NEW c
  PROVE  /\ \A tk : \A k \in Calls : OnCall(c, tk)[k] = IF k = c THEN tk ELSE "nothing"
         /\ "nothing" \notin Types /\ "heard" \notin Types
         /\ Ends \subseteq Types /\ {"invite", "accept", "decline", "roster", "answered"} \subseteq Types
BY DEF OnCall, Types, Ends

LEMMA Wirings ==
  ASSUME Inv, NEW d \in Devices, NEW c \in Calls, NEW tk, tk \notin Types
  PROVE  /\ wire' = wire => \A s : Wired(wire', d, s, OnCall(c, tk), Nothing)
         /\ \A f : Said(f) /\ wire' = Post(wire, d, f) => \A s : Wired(wire', d, s, OnCall(c, tk), f)
<1>1. WireOK(wire) /\ Said(Nothing)
  BY SaidTyped DEF Inv, TypeOK, WireOK
<1>2. \A k \in Calls : OnCall(c, tk)[k] \notin Types
  BY OnCalls DEF OnCall
<1>3. QED
  BY <1>1, <1>2, PostNothing DEF Wired

LEMMA WiringTaken ==
  ASSUME Inv, NEW d \in Devices, NEW s \in Devices, NEW m \in Coming(s, d)
  PROVE  /\ wire' = Taken(s, d, m) => Wired(wire', d, s, OnCall(m.call, m.type), Nothing)
         /\ \A f : Said(f) /\ wire' = Post(Taken(s, d, m), d, f) =>
              Wired(wire', d, s, OnCall(m.call, m.type), f)
<1>1. WireOK(Taken(s, d, m)) /\ Said(Nothing)
  BY SaidTyped, TakenTyped DEF Inv, TypeOK, WireOK
<1>2. \A k \in Calls : OnCall(m.call, m.type)[k] = TypeTaken(m, k)
  BY OnCalls DEF TypeTaken
<1>3. QED
  BY <1>1, <1>2, PostNothing DEF Wired

\* What a single control says.
LEMMA OneSaid ==
  ASSUME NEW d \in Devices, NEW c \in Calls, NEW t \in Types
  PROVE  /\ \A k \in Calls : SaysTo(Say(Other(d, c), {Control(t, c)}), d, k, IF k = c THEN {t} ELSE {}, {})
         /\ Said(Say(Other(d, c), {Control(t, c)}))
<1>1. \A k \in Calls : \A u \in Types : Control(u, k) \in {Control(t, c)} <=> k = c /\ u \in {t}
  BY ControlIs
<1>2. Control(t, c) \in Controls
  BY ControlTyped DEF Types
<1>3. QED
  BY <1>1, <1>2, Says, SaidTyped, PartiesTyped

LEMMA ClickDeclineMoves ==
  ASSUME Inv, MeetOK, NEW d \in Devices, NEW c \in Calls, ClickDecline(d, c)
  PROVE  Moved
<1> DEFINE r == rows[d][c]
<1>1. /\ r \in Rows /\ r.live = "ringing" /\ d \in Invited(c) /\ d # Placer[c] /\ CalleeRow(r)
  BY WhoseRow DEF ClickDecline
<1>2. "nothing" \notin Types /\ "decline" \in Types
  BY OnCalls
<1>3. CASE /\ r.invite = "pending"
           /\ Put(d, c, EndRing([r EXCEPT !.self = "declined", !.invite = "declined"]))
           /\ Send(d, Both(Say(Other(d, c), {Control("decline", c)}), TellOwnDevicesAnswered(d, c)))
  <2>1. PICK f : f = Both(Say(Other(d, c), {Control("decline", c)}), TellOwnDevicesAnswered(d, c))
    OBVIOUS
  <2>2. Said(f)
    BY <1>2, <2>1, OneSaid, AnsweredTyped, SaidTyped
  <2>3. Wired(wire', d, d, OnCall(c, "nothing"), f)
    BY <1>2, <1>3, <2>1, <2>2, Wirings DEF Send
  <2>4. \A k \in Calls : SaysTo(f, d, k, IF k = c THEN {"decline"} ELSE {},
                                         IF k = c THEN {"answered"} ELSE {})
    <3>1. ASSUME NEW k \in Calls
          PROVE  SaysTo(f, d, k, (IF k = c THEN {"decline"} ELSE {}) \cup {},
                                 {} \cup (IF k = c THEN {"answered"} ELSE {}))
      <4>1. SaysTo(Say(Other(d, c), {Control("decline", c)}), d, k, IF k = c THEN {"decline"} ELSE {}, {})
        BY <1>2, OneSaid
      <4>2. SaysTo(TellOwnDevicesAnswered(d, c), d, k, {}, IF k = c THEN {"answered"} ELSE {})
        BY Says
      <4>3. QED
        BY <2>1, <4>1, <4>2, Says
    <3>2. QED
      BY <3>1
  <2>5. CalleeStep(r, EndRing([r EXCEPT !.self = "declined", !.invite = "declined"]),
                   {"decline"}, {"answered"}, "nothing")
    BY <1>1, <1>3, CalleeDeclines
  <2>6. QED
    BY <1>1, <1>3, <2>3, <2>4, <2>5, PutMoves
<1>4. CASE Put(d, c, [r EXCEPT !.live = "none"]) /\ UNCHANGED wire
  <2>1. Wired(wire', d, d, OnCall(c, "nothing"), Nothing)
    BY <1>2, <1>4, Wirings
  <2>2. \A k \in Calls : SaysTo(Nothing, d, k, {}, {})
    BY Says
  <2>3. CalleeStep(r, [r EXCEPT !.live = "none"], {}, {}, "nothing")
    BY <1>1, CalleeDeclines
  <2>4. QED
    BY <1>1, <1>4, <2>1, <2>2, <2>3, PutMoves
<1>5. QED
  BY <1>3, <1>4 DEF ClickDecline

LEMMA LeaveMoves ==
  ASSUME Inv, MeetOK, NEW d \in Devices, NEW c \in Calls, InCall(rows[d][c]), Leave(d, c)
  PROVE  Moved
<1> DEFINE r == rows[d][c]
<1>1. /\ r \in Rows /\ ~ (d # Placer[c] /\ d \notin Invited(c))
      /\ d = Placer[c] => CallerRow(r) /\ d \notin Invited(c)
      /\ d \in Invited(c) => CalleeRow(r)
  BY WhoseRow, NoRowFacts, Two
<1>2. "nothing" \notin Types \cup Ends \cup {"accept"}
  BY OnCalls
<1>3. LeaveCall(r) = Left(r) /\ Parting(r) = LeftSays(r) /\ ~ InCall(Left(r))
  BY <1>1, LeaveCallFields DEF Left, LeftSays
<1>4. PICK f : f = Say(Other(d, c), Leaving(c, r))
  OBVIOUS
<1>5. Said(f)
  BY <1>4, SaidTyped, ControlTyped, PartiesTyped
<1>6. Wired(wire', d, d, OnCall(c, "nothing"), f)
  BY <1>2, <1>4, <1>5, Wirings DEF Leave, Send
<1>7. \A k \in Calls : SaysTo(f, d, k, IF k = c THEN LeftSays(r) ELSE {}, {})
  BY <1>3, <1>4, Says
<1>8. d = Placer[c] => CallerStep(r, Left(r), LeftSays(r), "nothing")
  BY <1>1, <1>2, CallerLeaves
<1>9. d \in Invited(c) => CalleeStep(r, Left(r), LeftSays(r), {}, "nothing")
  BY <1>1, <1>2, CalleeLeaves
<1>10. Put(d, c, Left(r))
  BY <1>3 DEF Leave
<1>11. \A k \in Calls : SaysTo(f, d, k, IF k = c THEN LeftSays(r) ELSE {}, IF k = c THEN {} ELSE {})
  BY <1>7
<1> HIDE DEF r
<1>12. QED
  BY <1>1, <1>3, <1>6, <1>8, <1>9, <1>10, <1>11, PutMoves DEF r

LEMMA ExpireMoves ==
  ASSUME Inv, MeetOK, NEW d \in Devices, NEW c \in Calls, Expire(d, c)
  PROVE  Moved
<1> DEFINE r == rows[d][c]
<1>1. /\ r \in Rows /\ r.invite = "pending" /\ d \in Invited(c) /\ d # Placer[c] /\ CalleeRow(r)
  BY WhoseRow DEF Expire
<1>2. Wired(wire', d, d, OnCall(c, "nothing"), Nothing)
  BY OnCalls, Wirings DEF Expire
<1>3. \A k \in Calls : SaysTo(Nothing, d, k, {}, {})
  BY Says
<1>4. CalleeStep(r, ExpireInvite(r), {}, {}, "nothing")
  BY <1>1, CalleeExpires
<1>5. Put(d, c, ExpireInvite(r))
  BY DEF Expire
<1>6. QED
  BY <1>1, <1>2, <1>3, <1>4, <1>5, PutMoves

LEMMA HearAnswerMoves ==
  ASSUME Inv, MeetOK, NEW s \in Devices, NEW d \in Devices, NEW c \in Calls, HearAnswer(s, d, c)
  PROVE  Moved
<1> DEFINE r == rows[d][c]
           f == IF Open(r) THEN Say(Other(d, c), {Control("roster", c)}) ELSE Nothing
<1>1. /\ r \in Rows /\ InCall(r) /\ r.peer = "ringing" /\ Owner[s] = Other(d, c)
      /\ rows[s][c].live = "joined"
  BY WhoseRow DEF HearAnswer
<1>2. Open(r) /\ r.session # "none"
  BY <1>1 DEF InCall, Open
<1>3. d = Placer[c] /\ CallerRow(r) /\ d \notin Invited(c)
  <2>1. d \notin Invited(c)
    BY <1>1, <1>2, WhoseRow DEF CalleeRow, Open
  <2>2. QED
    BY <1>1, <2>1, WhoseRow, NoRowFacts
<1>4. s \in Invited(c) /\ InCall(rows[s][c])
  <2>1. s \in Invited(c)
    BY <1>1, <1>3, Parts, Two
  <2>2. RowOK(rows[s][c])
    BY WhoseRow
  <2>3. QED
    BY <1>1, <2>1, <2>2 DEF RowOK, Agrees
<1>5. /\ Put(d, c, ApplyRemoteAccept(r))
      /\ wire' = Post(wire, d, Say(Other(d, c), {Control("roster", c)}))
  BY <1>2 DEF HearAnswer, RemoteJoined
<1>6. "roster" \in Types /\ "heard" \notin Types
  BY OnCalls
<1>7. PICK g : g = Say(Other(d, c), {Control("roster", c)})
  OBVIOUS
<1>8. Said(g) /\ \A k \in Calls : SaysTo(g, d, k, IF k = c THEN {"roster"} ELSE {}, {})
  BY <1>6, <1>7, OneSaid
<1>9. Wired(wire', d, s, OnCall(c, "heard"), g)
  BY <1>5, <1>6, <1>7, <1>8, Wirings
<1>10. CallerStep(r, ApplyRemoteAccept(r), {"roster"}, "heard")
  BY <1>1, <1>2, <1>3, CallerHears
<1>11. r # NoRow
  BY <1>1, NoRowFacts
<1>12. \A k \in Calls : SaysTo(g, d, k, IF k = c THEN {"roster"} ELSE {}, IF k = c THEN {} ELSE {})
  BY <1>8
<1>13. QED
  BY <1>3, <1>4, <1>5, <1>9, <1>10, <1>11, <1>12, PutMoves

\* Who a control that arrives comes from, and whether it counts as in the call.
LEMMA Arrives ==
  ASSUME Inv, MeetOK, NEW s \in Devices, NEW d \in Devices, NEW m \in Coming(s, d)
  PROVE  LET c == m.call
             r == rows[d][c]
         IN  /\ m \in Controls /\ c \in Calls /\ m.type \in Types
             /\ d = Placer[c] =>
                  /\ s \in Invited(c) /\ r.session # "none" /\ r # NoRow
                  /\ m.type \in {"accept", "decline", "leave", "ended", "roster"}
                  /\ SenderIsInCall(d, c, Owner[s]) <=> r.peer \in {"ringing", "joined"}
             /\ d \in Invited(c) =>
                  \/ /\ s = Placer[c] /\ m.type \in {"invite", "leave", "ended", "roster"}
                     /\ m.type = "invite" => r = NoRow
                     /\ SenderIsInCall(d, c, Owner[s]) <=> r.session # "none"
                  \/ m.type = "answered"
             /\ d # Placer[c] /\ d \notin Invited(c) =>
                  /\ ~ SenderIsInCall(d, c, Owner[s])
                  /\ m.type \in {"accept", "decline", "leave", "ended", "roster"}
<1> DEFINE c == m.call
           r == rows[d][c]
<1>1. m \in Controls /\ WireOK(wire)
  BY TakenTyped DEF Inv, TypeOK, WireOK
<1>2. c \in Calls /\ m.type \in Types
  BY <1>1, ControlIs
<1>3. WiresFit(rows, wire, c) /\ RowsFit(rows, c) /\ AllOrdered(wire, c)
  BY <1>2 DEF MeetOK, CallFits
<1>4. In(wire, s, d, m.type, c)
  BY <1>1, <1>2, <1>3, TakenHolds
<1>5. /\ rows[Placer[c]][c].session # "none"
      /\ \/ FromCaller(rows, s, d, m.type, c)
         \/ FromCallee(rows, s, d, m.type, c)
         \/ FromSibling(rows, s, d, m.type, c)
  BY <1>2, <1>3, <1>4 DEF WiresFit
<1>6. /\ Placer[c] \in Devices /\ Placer[c] \notin Invited(c)
      /\ Invitee[c] # Owner[Placer[c]]
      /\ \A t \in Devices : t \in Invited(c) <=> Owner[t] = Invitee[c]
  BY <1>2, Two
<1>7. /\ d = Placer[c] => Other(d, c) = Invitee[c]
      /\ d \in Invited(c) => Other(d, c) = Owner[Placer[c]]
  BY <1>2, Parts
<1>8. /\ d \in Invited(c) => CalleeRow(r)
      /\ d # Placer[c] /\ d \notin Invited(c) => r = NoRow
  BY <1>2, WhoseRow
<1>9. ASSUME d = Placer[c]
      PROVE  /\ s \in Invited(c) /\ r.session # "none" /\ r # NoRow
             /\ m.type \in {"accept", "decline", "leave", "ended", "roster"}
             /\ SenderIsInCall(d, c, Owner[s]) <=> r.peer \in {"ringing", "joined"}
  <2>1. FromCallee(rows, s, d, m.type, c)
    BY <1>5, <1>6, <1>9 DEF FromCaller, FromSibling
  <2>2. s \in Invited(c) /\ m.type \in {"accept", "decline", "leave", "ended", "roster"}
    BY <2>1 DEF FromCallee, Ends
  <2>3. SenderIsInCall(d, c, Owner[s]) <=> r.peer \in {"ringing", "joined"}
    BY <1>6, <1>7, <1>9, <2>2 DEF SenderIsInCall
  <2>4. QED
    BY <1>5, <1>9, <2>2, <2>3, NoRowFacts
<1>10. ASSUME d \in Invited(c)
       PROVE  \/ /\ s = Placer[c] /\ m.type \in {"invite", "leave", "ended", "roster"}
                 /\ m.type = "invite" => r = NoRow
                 /\ SenderIsInCall(d, c, Owner[s]) <=> r.session # "none"
              \/ m.type = "answered"
  <2>1. FromCaller(rows, s, d, m.type, c) \/ m.type = "answered"
    BY <1>5, <1>6, <1>10 DEF FromCallee, FromSibling
  <2>2. SUFFICES ASSUME FromCaller(rows, s, d, m.type, c)
                 PROVE  /\ s = Placer[c] /\ m.type \in {"invite", "leave", "ended", "roster"}
                        /\ m.type = "invite" => r = NoRow
                        /\ SenderIsInCall(d, c, Owner[s]) <=> r.session # "none"
    BY <2>1
  <2>3. s = Placer[c]
    BY <2>2 DEF FromCaller
  <2>4. r.session = "none" => r.peer = "none"
    BY <1>8, <1>10, NoRowFacts DEF CalleeRow
  <2>5. SenderIsInCall(d, c, Owner[s]) <=> r.session # "none"
    BY <2>3, <2>4 DEF SenderIsInCall
  <2>6. QED
    BY <2>2, <2>5 DEF FromCaller
<1>11. ASSUME d # Placer[c], d \notin Invited(c)
       PROVE  /\ ~ SenderIsInCall(d, c, Owner[s])
              /\ m.type \in {"accept", "decline", "leave", "ended", "roster"}
  <2>1. ~ SenderIsInCall(d, c, Owner[s])
    BY <1>8, <1>11, NoRowFacts DEF SenderIsInCall
  <2>2. FromCallee(rows, s, d, m.type, c)
    BY <1>5, <1>11 DEF FromCaller, FromSibling
  <2>3. QED
    BY <2>1, <2>2 DEF FromCallee, Ends
<1>12. QED
  BY <1>1, <1>2, <1>9, <1>10, <1>11

\* A control that changes the row of its call, and says nothing.
LEMMA TakeMoves ==
  ASSUME Inv, MeetOK, NEW s \in Devices, NEW d \in Devices, NEW m \in Coming(s, d), NEW r,
         m.type # "invite", Take(s, d, m, r),
         d = Placer[m.call] => CallerStep(rows[d][m.call], r, {}, m.type),
         d \in Invited(m.call) => CalleeStep(rows[d][m.call], r, {}, {}, m.type),
         d # Placer[m.call] /\ d \notin Invited(m.call) => r = rows[d][m.call]
  PROVE  Moved
<1> DEFINE c == m.call
<1>1. c \in Calls /\ m.type \in Types /\ (d = Placer[c] => rows[d][c] # NoRow)
  BY Arrives
<1>2. Put(d, c, r) /\ Wired(wire', d, s, OnCall(c, m.type), Nothing)
  BY WiringTaken DEF Take
<1>3. m.type # "heard"
  BY <1>1, OnCalls
<1>4. \A k \in Calls : SaysTo(Nothing, d, k, IF k = c THEN {} ELSE {}, IF k = c THEN {} ELSE {})
  BY Says
<1>5. QED
  BY <1>1, <1>2, <1>3, <1>4, PutMoves

\* The same, from a party to the call, or it is dropped.
LEMMA PartyTakes ==
  ASSUME Inv, MeetOK, NEW s \in Devices, NEW d \in Devices, NEW m \in Coming(s, d), NEW r,
         m.type \in {"decline", "leave", "ended", "roster"}, TakeFromParty(s, d, m, r),
         d = Placer[m.call] /\ rows[d][m.call].session # "none"
             /\ rows[d][m.call].peer \in {"ringing", "joined"}
           => CallerStep(rows[d][m.call], r, {}, m.type),
         d \in Invited(m.call) /\ rows[d][m.call].session # "none" /\ m.type # "decline"
           => CalleeStep(rows[d][m.call], r, {}, {}, m.type)
  PROVE  Moved
<1> DEFINE c == m.call
           x == rows[d][c]
<1>1. PICK y : y = IF SenderIsInCall(d, c, Owner[s]) THEN r ELSE x
  OBVIOUS
<1>2. Take(s, d, m, y) /\ c \in Calls
  BY <1>1, Arrives DEF TakeFromParty
<1>3. x \in Rows /\ (d = Placer[c] => CallerRow(x)) /\ (d \in Invited(c) => CalleeRow(x))
  BY <1>2, WhoseRow
<1>4. d = Placer[c] => CallerStep(x, y, {}, m.type)
  <2>1. SUFFICES ASSUME d = Placer[c] PROVE CallerStep(x, y, {}, m.type)
    OBVIOUS
  <2>2. x.session # "none" /\ (SenderIsInCall(d, c, Owner[s]) <=> x.peer \in {"ringing", "joined"})
    BY <2>1, Arrives
  <2>3. CASE x.peer \in {"ringing", "joined"}
    BY <1>1, <2>1, <2>2, <2>3
  <2>4. CASE x.peer \notin {"ringing", "joined"}
    BY <1>1, <1>3, <2>1, <2>2, <2>4, CallerDrops
  <2>5. QED
    BY <2>3, <2>4
<1>5. d \in Invited(c) => CalleeStep(x, y, {}, {}, m.type)
  <2>1. SUFFICES ASSUME d \in Invited(c) PROVE CalleeStep(x, y, {}, {}, m.type)
    OBVIOUS
  <2>2. m.type # "decline" /\ (SenderIsInCall(d, c, Owner[s]) <=> x.session # "none")
    BY <2>1, Arrives
  <2>3. CASE x.session # "none"
    BY <1>1, <2>1, <2>2, <2>3
  <2>4. CASE x.session = "none"
    BY <1>1, <1>3, <2>1, <2>2, <2>4, CalleeIdles DEF Open
  <2>5. QED
    BY <2>3, <2>4
<1>6. d # Placer[c] /\ d \notin Invited(c) => y = x
  BY <1>1, Arrives
<1>7. QED
  BY <1>2, <1>4, <1>5, <1>6, TakeMoves

LEMMA ReceiveAcceptMoves ==
  ASSUME Inv, MeetOK, NEW s \in Devices, NEW d \in Devices, NEW m \in Coming(s, d), ReceiveAccept(s, d, m)
  PROVE  Moved
<1> DEFINE c == m.call
           r == rows[d][c]
<1>1. m.type = "accept" /\ c \in Calls
  BY Arrives DEF ReceiveAccept
<1>2. r \in Rows /\ (d = Placer[c] => CallerRow(r)) /\ d \notin Invited(c)
  BY <1>1, WhoseRow, Arrives
<1>3. CASE ~ SenderIsInCall(d, c, Owner[s])
  <2>1. Take(s, d, m, r)
    BY <1>3 DEF ReceiveAccept, Take, Put, Inv, TypeOK
  <2>2. d = Placer[c] => CallerStep(r, r, {}, "accept")
    BY <1>2, <1>3, Arrives, CallerDrops
  <2>3. QED
    BY <1>1, <1>2, <2>1, <2>2, TakeMoves
<1>4. CASE SenderIsInCall(d, c, Owner[s])
  <2>1. d = Placer[c] /\ r.peer \in {"ringing", "joined"} /\ r.session # "none" /\ r # NoRow
    BY <1>2, <1>4, Arrives
  <2>2. RemoteJoined(d, c, Taken(s, d, m))
    BY <1>4 DEF ReceiveAccept
  <2>3. CallerStep(r, ApplyRemoteAccept(r), IF Open(r) THEN {"roster"} ELSE {}, "accept")
    BY <1>2, <2>1, CallerHears
  <2>4. CASE ~ Open(r)
    <3>1. Take(s, d, m, ApplyRemoteAccept(r))
      BY <2>2, <2>4 DEF RemoteJoined, Take, ReceiveAccept
    <3>2. QED
      BY <1>1, <1>2, <2>1, <2>3, <2>4, <3>1, TakeMoves
  <2>5. CASE Open(r)
    <3>1. PICK g : g = Say(Other(d, c), {Control("roster", c)})
      OBVIOUS
    <3>2. "roster" \in Types
      BY OnCalls
    <3>3. Said(g) /\ \A k \in Calls : SaysTo(g, d, k, IF k = c THEN {"roster"} ELSE {}, {})
      BY <1>1, <3>1, <3>2, OneSaid
    <3>4. \A k \in Calls : SaysTo(g, d, k, IF k = c THEN {"roster"} ELSE {}, IF k = c THEN {} ELSE {})
      BY <3>3
    <3>5. Put(d, c, ApplyRemoteAccept(r)) /\ wire' = Post(Taken(s, d, m), d, g)
      BY <2>2, <2>5, <3>1 DEF RemoteJoined
    <3>6. Wired(wire', d, s, OnCall(c, "accept"), g)
      BY <1>1, <3>3, <3>5, WiringTaken
    <3>7. CallerStep(r, ApplyRemoteAccept(r), {"roster"}, "accept")
      BY <2>3, <2>5
    <3>8. QED
      BY <1>1, <1>2, <2>1, <3>4, <3>5, <3>6, <3>7, PutMoves
  <2>6. QED
    BY <2>4, <2>5
<1>5. QED
  BY <1>3, <1>4

\* Every control but an invite.
LEMMA ReceiveMoves ==
  ASSUME Inv, MeetOK, NEW s \in Devices, NEW d \in Devices, NEW m \in Coming(s, d),
         Receive(s, d, m), ~ ReceiveInvite(s, d, m)
  PROVE  Moved
<1> DEFINE c == m.call
           r == rows[d][c]
<1>1. c \in Calls
  BY Arrives
<1>2. /\ RowOK(r) /\ r \in Rows /\ (d = Placer[c] => CallerRow(r)) /\ (d \in Invited(c) => CalleeRow(r))
      /\ d # Placer[c] /\ d \notin Invited(c) => r = NoRow
  BY <1>1, WhoseRow
<1>3. CASE ReceiveAccept(s, d, m)
  BY <1>3, ReceiveAcceptMoves
<1>4. CASE ReceiveDecline(s, d, m)
  BY <1>2, <1>4, CallerIsDeclined, PartyTakes DEF ReceiveDecline
<1>5. CASE ReceiveLeave(s, d, m)
  <2>1. m.type = "leave" /\ TakeFromParty(s, d, m, ParticipantGone(r))
    BY <1>5 DEF ReceiveLeave
  <2>2. /\ d = Placer[c] /\ r.session # "none" => CallerStep(r, ParticipantGone(r), {}, "leave")
        /\ d \in Invited(c) /\ r.session # "none" => CalleeStep(r, ParticipantGone(r), {}, {}, "leave")
    BY <1>2, CallerIsLeft, CalleeIsLeft
  <2>3. QED
    BY <2>1, <2>2, PartyTakes
<1>6. CASE ReceiveEnded(s, d, m)
  <2>1. m.type = "ended" /\ TakeFromParty(s, d, m, AfterEnded(r))
    BY <1>6 DEF ReceiveEnded
  <2>2. /\ d = Placer[c] /\ r.session # "none" => CallerStep(r, AfterEnded(r), {}, "ended")
        /\ d \in Invited(c) /\ r.session # "none" => CalleeStep(r, AfterEnded(r), {}, {}, "ended")
    BY <1>2, CallerIsLeft, CalleeIsLeft
  <2>3. QED
    BY <2>1, <2>2, PartyTakes
<1>7. CASE ReceiveRoster(s, d, m)
  <2>1. m.type = "roster" /\ TakeFromParty(s, d, m, ApplyCallRoster(r))
    BY <1>7 DEF ReceiveRoster
  <2>2. /\ d = Placer[c] /\ r.session # "none" /\ r.peer \in {"ringing", "joined"}
             => CallerStep(r, ApplyCallRoster(r), {}, "roster")
        /\ d \in Invited(c) /\ r.session # "none" => CalleeStep(r, ApplyCallRoster(r), {}, {}, "roster")
    BY <1>2, CallerIsListed, CalleeIsLeft
  <2>3. QED
    BY <2>1, <2>2, PartyTakes
<1>8. CASE ReceiveAnswered(s, d, m)
  <2>1. m.type = "answered" /\ Take(s, d, m, StopRingingAnsweredElsewhere(r))
    BY <1>8 DEF ReceiveAnswered
  <2>2. d \in Invited(c)
    BY <1>1, <2>1, Arrives
  <2>3. d # Placer[c]
    BY <1>1, <2>2, Two
  <2>4. CalleeStep(r, StopRingingAnsweredElsewhere(r), {}, {}, "answered")
    BY <1>2, <2>2, CalleeIsSilenced
  <2>5. QED
    BY <2>1, <2>2, <2>3, <2>4, TakeMoves
<1>9. QED
  BY <1>3, <1>4, <1>5, <1>6, <1>7, <1>8 DEF Receive

-----------------------------------------------------------------------------
(***************************************************************************)
(* Steps that leave every other call.                                      *)
(***************************************************************************)

LEMMA RestartMoves ==
  ASSUME Inv, MeetOK, NEW d \in Devices, Restart(d)
  PROVE  Moved
<1>1. PICK y : y = [c \in Calls |-> AbandonOrphaned(rows[d][c])]
  OBVIOUS
<1>2. PICK f : f = [a \in Accounts |->
                     UNION {Leaving(c, rows[d][c]) :
                              c \in {k \in Calls : /\ InCall(rows[d][k])
                                                   /\ Other(d, k) = a}}]
  OBVIOUS
<1>3. PICK tks : tks = [k \in Calls |-> "nothing"]
  OBVIOUS
<1>4. \A c \in Calls : y[c] = AbandonOrphaned(rows[d][c]) /\ tks[c] = "nothing"
  BY <1>1, <1>3
<1>5. Said(f) /\ WireOK(wire)
  BY <1>2, ControlTyped DEF Said, Inv, TypeOK, WireOK
<1>6. Wired(wire', d, d, tks, f)
  <2>1. wire' = Post(wire, d, f)
    BY <1>2 DEF Restart, Send
  <2>2. "nothing" \notin Types
    BY OnCalls
  <2>3. QED
    BY <1>4, <1>5, <2>1, <2>2 DEF Wired
<1>7. ASSUME NEW k \in Calls
      PROVE  SaysTo(f, d, k, LeftSays(rows[d][k]), {})
  <2>1. \A t \in Types : \A j : Control(t, k) \in Leaving(j, rows[d][j]) <=> j = k /\ t \in Parting(rows[d][k])
    <3>1. \A j : {t \in Types : Control(t, k) \in Leaving(j, rows[d][j])} =
                   IF j = k THEN Parting(rows[d][j]) ELSE {}
      BY SaidOfs
    <3>2. QED
      BY <3>1
  <2>2. \A a \in Accounts : \A t \in Types : Control(t, k) \in f[a] <=>
          InCall(rows[d][k]) /\ Other(d, k) = a /\ t \in Parting(rows[d][k])
    BY <1>2, <2>1
  <2>3. Parting(rows[d][k]) \subseteq Types
    BY DEF Parting, Types, Ends
  <2>4. \A a \in Accounts : SaidOf(f, a, k) =
          IF InCall(rows[d][k]) /\ Other(d, k) = a THEN Parting(rows[d][k]) ELSE {}
    BY <2>2, <2>3 DEF SaidOf
  <2>5. QED
    BY <2>4 DEF SaysTo, LeftSays
<1>8. ASSUME NEW k \in Calls
      PROVE  PartyStep(rows, y[k], d, d, k, tks[k], f)
  <2>1. /\ RowOK(rows[d][k])
        /\ d = Placer[k] => CallerRow(rows[d][k])
        /\ d \in Invited(k) => CalleeRow(rows[d][k])
        /\ d # Placer[k] /\ d \notin Invited(k) => rows[d][k] = NoRow
    BY WhoseRow
  <2>2. d = Placer[k] => CallerStep(rows[d][k], y[k], LeftSays(rows[d][k]), "nothing")
    BY <1>4, <2>1, CallerRestarts
  <2>3. d \in Invited(k) => CalleeStep(rows[d][k], y[k], LeftSays(rows[d][k]), {}, "nothing")
    BY <1>4, <2>1, CalleeRestarts
  <2>4. d # Placer[k] /\ d \notin Invited(k) => y[k] = rows[d][k] /\ LeftSays(rows[d][k]) = {}
    <3>1. AbandonOrphaned(NoRow) = NoRow
      <4>1. [NoRow EXCEPT !.live = "none"] = NoRow
        BY DEF NoRow
      <4>2. EndRing(NoRow) = NoRow
        BY <4>1, NoRowFacts DEF EndRing
      <4>3. QED
        BY <4>1, <4>2, NoRowFacts DEF AbandonOrphaned
    <3>2. QED
      BY <1>4, <2>1, <3>1, NoRowFacts DEF LeftSays
  <2>5. PartyStep(rows, y[k], d, d, k, "nothing", f)
    BY <1>7, <2>2, <2>3, <2>4, PartyMoves
  <2>6. QED
    BY <1>4, <2>5
<1>9. Crosses(y, d)
  <2>1. Crosses(rows[d], d)
    BY DEF MeetOK
  <2>2. \A k \in Calls : Placer[k] = d /\ rows[d][k] = NoRow => ~ InCall(y[k])
    <3>1. ASSUME NEW k \in Calls, Placer[k] = d, rows[d][k] = NoRow
          PROVE  ~ InCall(y[k])
      BY <1>4, <3>1, AbandonKeeps, WhoseRow, NoRowFacts DEF Keeps
    <3>2. QED
      BY <3>1
  <2>3. \A k \in Calls : tks[k] # "invite"
    BY <1>4
  <2>4. QED
    BY <1>8, <2>1, <2>2, <2>3, CrossesKept
<1>10. Moves(y, wire', d, d, tks, f)
  BY <1>6, <1>8, <1>9 DEF Moves
<1>11. rows' = [rows EXCEPT ![d] = y]
  BY <1>1 DEF Restart
<1>12. QED
  BY <1>10, <1>11 DEF Moved

\* StartCall.
LEMMA PlaceMoves ==
  ASSUME Inv, MeetOK, NEW d \in Devices, NEW c \in Calls, Place(d, c)
  PROVE  Moved
<1>1. /\ Placer[c] = d /\ d \notin Invited(c) /\ rows[d] \in [Calls -> Rows]
      /\ \A k \in Calls : rows[d][k].invite # "pending"
  BY Two DEF Place, Inv, TypeOK
<1>2. rows[d][c] = NoRow
  BY <1>1, WhoseRow DEF Place, CallerRow
<1>3. PICK p : p = [NoRow EXCEPT !.session = "ringing", !.self = "joined"]
  OBVIOUS
<1>4. PICK r : r = [p EXCEPT !.peer = "ringing", !.live = "calling"]
  OBVIOUS
<1>5. p \in Rows
  BY <1>3 DEF NoRow, Rows, Parties
<1>6. CallerStep(NoRow, LeaveCall(p), {}, "nothing") /\ CallerStep(NoRow, r, {"invite"}, "nothing")
  BY <1>3, <1>4, CallerPlaces
<1>7. "nothing" \notin Types /\ "invite" \in Types
  BY OnCalls
<1>8. CASE Put(d, c, LeaveCall(p)) /\ UNCHANGED wire
  <2>1. Wired(wire', d, d, OnCall(c, "nothing"), Nothing)
    BY <1>7, <1>8, Wirings
  <2>2. \A k \in Calls : SaysTo(Nothing, d, k, IF k = c THEN {} ELSE {}, IF k = c THEN {} ELSE {})
    BY Says
  <2>3. ~ InCall(LeaveCall(p))
    BY <1>5, LeaveKeeps
  <2>4. QED
    BY <1>1, <1>2, <1>6, <1>8, <2>1, <2>2, <2>3, PutMoves
<1>9. CASE /\ rows' = [rows EXCEPT ![d] = [LeaveOthers(@, c) EXCEPT ![c] = r]]
           /\ Send(d, Both(LeavingOthers(d, rows[d], c),
                           Say(Other(d, c), {Control("invite", c)})))
  <2>1. PICK y : y = [LeaveOthers(rows[d], c) EXCEPT ![c] = r]
    OBVIOUS
  <2>2. \A k \in Calls : y[k] = IF k = c THEN r ELSE Left(rows[d][k])
    BY <2>1 DEF LeaveOthers, Left
  <2>3. rows' = [rows EXCEPT ![d] = y]
    BY <1>9, <2>1
  <2>4. PICK f : f = Both(LeavingOthers(d, rows[d], c), Say(Other(d, c), {Control("invite", c)}))
    OBVIOUS
  <2>5. Said(f)
    BY <1>7, <2>4, SaidTyped, LeavingOthersTyped, OneSaid
  <2>6. Wired(wire', d, d, OnCall(c, "nothing"), f)
    BY <1>7, <1>9, <2>4, <2>5, Wirings DEF Send
  <2>7. ASSUME NEW k \in Calls
        PROVE  SaysTo(f, d, k, (IF k = c THEN {} ELSE LeftSays(rows[d][k])) \cup (IF k = c THEN {"invite"} ELSE {}),
                      {} \cup {})
    <3>1. SaysTo(LeavingOthers(d, rows[d], c), d, k, IF k = c THEN {} ELSE LeftSays(rows[d][k]), {})
      BY Says
    <3>2. SaysTo(Say(Other(d, c), {Control("invite", c)}), d, k, IF k = c THEN {"invite"} ELSE {}, {})
      BY <1>7, OneSaid
    <3>3. QED
      BY <2>4, <3>1, <3>2, Says
  <2>8. SaysTo(f, d, c, {"invite"}, {}) /\ \A k \in Calls : k # c => SaysTo(f, d, k, LeftSays(rows[d][k]), {})
    BY <2>7
  <2>9. PICK tks : tks = OnCall(c, "nothing")
    OBVIOUS
  <2>10. \A k \in Calls : tks[k] = "nothing"
    BY <2>9 DEF OnCall
  <2>11. ASSUME NEW k \in Calls
         PROVE  PartyStep(rows, y[k], d, d, k, tks[k], f)
    <3>1. CASE k = c
      <4>1. PartyStep(rows, r, d, d, c, "nothing", f)
        BY <1>1, <1>2, <1>6, <2>8, PartyMoves
      <4>2. QED
        BY <2>2, <2>10, <3>1, <4>1
    <3>2. CASE k # c
      <4>1. PartyStep(rows, Left(rows[d][k]), d, d, k, "nothing", f)
        BY <2>8, <3>2, LeftMoves DEF Ends
      <4>2. QED
        BY <2>2, <2>10, <3>2, <4>1
    <3>3. QED
      BY <3>1, <3>2
  <2>12. Crosses(y, d)
    <3>1. Crosses(rows[d], d)
      BY DEF MeetOK
    <3>2. \A k \in Calls : d \in Invited(k) => y[k].invite # "pending"
      <4>1. ASSUME NEW k \in Calls, d \in Invited(k)
            PROVE  y[k].invite # "pending"
        <5>1. k # c /\ rows[d][k] \in Rows
          BY <1>1, <4>1
        <5>2. Left(rows[d][k]).invite = rows[d][k].invite
          BY <5>1, LeaveCallFields DEF Left
        <5>3. QED
          BY <1>1, <2>2, <5>1, <5>2
      <4>2. QED
        BY <4>1
    <3>3. QED
      BY <2>10, <2>11, <3>1, <3>2, CrossesKept
  <2>13. Moves(y, wire', d, d, tks, f)
    BY <2>6, <2>9, <2>11, <2>12 DEF Moves
  <2>14. QED
    BY <2>3, <2>13 DEF Moved
<1>10. QED
  BY <1>3, <1>4, <1>8, <1>9 DEF Place

\* One call answered, or not, once every other was left: row r of it, rows y.
AnswerOf(d, c, tk, y, r, f, out, own) ==
  /\ tk \in {"nothing", "invite"}
  /\ \A k \in Calls : y[k] = IF k = c THEN r ELSE Left(rows[d][k])
  /\ SaysTo(f, d, c, out, own)
  /\ \A k \in Calls : k # c => SaysTo(f, d, k, LeftSays(rows[d][k]), {})
  /\ CalleeStep(rows[d][c], r, out, own, tk)
  /\ tk = "invite" => r.invite # "none"

LEMMA AnswerMoves ==
  ASSUME Inv, MeetOK, NEW d \in Devices, NEW s \in Devices, NEW c \in Calls, d \in Invited(c),
         NEW tk, NEW y, NEW r, NEW f, NEW out, NEW own,
         rows' = [rows EXCEPT ![d] = y],
         Wired(wire', d, s, OnCall(c, tk), f),
         AnswerOf(d, c, tk, y, r, f, out, own)
  PROVE  Moved
<1>1. /\ d # Placer[c]
      /\ tk \in {"nothing", "invite"}
      /\ \A k \in Calls : y[k] = IF k = c THEN r ELSE Left(rows[d][k])
      /\ SaysTo(f, d, c, out, own)
      /\ \A k \in Calls : k # c => SaysTo(f, d, k, LeftSays(rows[d][k]), {})
      /\ CalleeStep(rows[d][c], r, out, own, tk)
      /\ tk = "invite" => r.invite # "none"
  BY Two DEF AnswerOf
<1>2. PICK tks : tks = OnCall(c, tk)
  OBVIOUS
<1>3. \A k \in Calls : tks[k] = IF k = c THEN tk ELSE "nothing"
  BY <1>2 DEF OnCall
<1>4. ASSUME NEW k \in Calls
      PROVE  PartyStep(rows, y[k], d, s, k, tks[k], f)
  <2>1. CASE k = c
    <3>1. PartyStep(rows, r, d, s, c, tk, f)
      BY <1>1, PartyMoves
    <3>2. QED
      BY <1>1, <1>3, <2>1, <3>1
  <2>2. CASE k # c
    <3>1. PartyStep(rows, Left(rows[d][k]), d, s, k, "nothing", f)
      BY <1>1, <2>2, LeftMoves DEF Ends
    <3>2. QED
      BY <1>1, <1>3, <2>2, <3>1
  <2>3. QED
    BY <2>1, <2>2
<1>5. \A k \in Calls : k # c => ~ InCall(y[k])
  <2>1. ASSUME NEW k \in Calls, k # c
        PROVE  ~ InCall(Left(rows[d][k]))
    BY WhoseRow, LeaveCallFields DEF Left
  <2>2. QED
    BY <1>1, <2>1
<1>6. tk = "invite" => Crossed(y, d, c)
  BY <1>1, <1>5 DEF Crossed
<1>7. \A k \in Calls : tks[k] = "invite" => Crossed(y, d, k)
  BY <1>3, <1>6
<1>8. \A k \in Calls : Placer[k] = d => ~ InCall(y[k])
  BY <1>1, <1>5
<1>9. Crosses(rows[d], d)
  BY DEF MeetOK
<1>10. Crosses(y, d)
  BY <1>4, <1>7, <1>8, <1>9, CrossesKept
<1>11. Moves(y, wire', d, s, tks, f)
  BY <1>2, <1>4, <1>10 DEF Moves
<1>12. QED
  BY <1>11 DEF Moved

\* What was left and said before the call is answered.
LeftAlready(x, d, k, said) ==
  \E o : /\ SaysTo(said, d, k, o, {})
         /\ o \cup LeftSays(x[k]) = LeftSays(rows[d][k])
         /\ Left(x[k]) = Left(rows[d][k])

\* A call that rings already, or that its invite lets ring.
Answering(g, r, tk) ==
  \/ g = r /\ tk = "nothing"
  \/ r = NoRow /\ tk = "invite" /\ g = StoreRingingInvite(NoRow)

LEMMA AcceptMoves ==
  ASSUME Inv, MeetOK, NEW d \in Devices, NEW s \in Devices, NEW c \in Calls, d \in Invited(c),
         NEW tk, NEW x \in [Calls -> Rows], NEW q, NEW said, Said(said),
         \A f : Said(f) /\ wire' = Post(q, d, f) => Wired(wire', d, s, OnCall(c, tk), f),
         Answering(x[c], rows[d][c], tk),
         SaysTo(said, d, c, {}, {}),
         \A k \in Calls : k # c => LeftAlready(x, d, k, said),
         AcceptInvite(d, c, x, q, said)
  PROVE  Moved
<1> DEFINE r0 == rows[d][c]
           g == x[c]
           y == LeaveOthers(x, c)
           left == Both(said, LeavingOthers(d, x, c))
           j == CommitLocalJoin(g)
           f3 == Both(left, Both(Say(Other(d, c), {Control("accept", c), Control("roster", c)}),
                                 TellOwnDevicesAnswered(d, c)))
           f4 == Both(left, Say(Other(d, c), {Control("accept", c)} \cup Leaving(c, j)))
<1>1. /\ r0 \in Rows /\ CalleeRow(r0) /\ g \in Rows
  BY WhoseRow
<1>2. \A k \in Calls : y[k] = IF k = c THEN g ELSE Left(rows[d][k])
  <2>1. \A k \in Calls : y[k] = IF k = c THEN g ELSE Left(x[k])
    BY DEF LeaveOthers, Left
  <2>2. QED
    BY <2>1 DEF LeftAlready
<1>3. /\ SaysTo(left, d, c, {}, {})
      /\ \A k \in Calls : k # c => SaysTo(left, d, k, LeftSays(rows[d][k]), {})
  <2>1. \A k \in Calls : SaysTo(LeavingOthers(d, x, c), d, k, IF k = c THEN {} ELSE LeftSays(x[k]), {})
    BY Says
  <2>2. SaysTo(left, d, c, {} \cup {}, {} \cup {})
    <3>1. SaysTo(LeavingOthers(d, x, c), d, c, {}, {})
      BY <2>1
    <3>2. QED
      BY <3>1, Says
  <2>3. ASSUME NEW k \in Calls, k # c
        PROVE  SaysTo(left, d, k, LeftSays(rows[d][k]), {})
    <3>1. PICK o : /\ SaysTo(said, d, k, o, {})
                   /\ o \cup LeftSays(x[k]) = LeftSays(rows[d][k])
      BY <2>3 DEF LeftAlready
    <3>2. SaysTo(LeavingOthers(d, x, c), d, k, LeftSays(x[k]), {})
      BY <2>1, <2>3
    <3>3. SaysTo(left, d, k, o \cup LeftSays(x[k]), {} \cup {})
      BY <3>1, <3>2, Says
    <3>4. QED
      BY <3>1, <3>3
  <2>4. QED
    BY <2>2, <2>3
<1>4. Said(left) /\ Other(d, c) \in Accounts
  BY SaidTyped, LeavingOthersTyped, PartiesTyped
<1>5. Owner[d] # Other(d, c) /\ {"accept", "roster"} \subseteq Types /\ "accept" \in Types
  BY Parts, OnCalls
<1> HIDE DEF y, left
\* What the branches say of other calls is what leaving them says.
<1>6. /\ Said(f3) /\ SaysTo(f3, d, c, {"accept", "roster"}, {"answered"})
      /\ \A k \in Calls : k # c => SaysTo(f3, d, k, LeftSays(rows[d][k]), {})
  <2>1. PICK a : a = Say(Other(d, c), {Control("accept", c), Control("roster", c)})
    OBVIOUS
  <2>2. \A k \in Calls : SaysTo(a, d, k, IF k = c THEN {"accept", "roster"} ELSE {}, {})
    <3>1. \A k \in Calls : \A t \in Types :
            Control(t, k) \in {Control("accept", c), Control("roster", c)} <=> k = c /\ t \in {"accept", "roster"}
      BY ControlIs
    <3>2. QED
      BY <1>5, <2>1, <3>1, Says
  <2>3. Said(a)
    BY <1>4, <2>1, ControlTyped, SaidTyped
  <2>4. PICK b : b = Both(a, TellOwnDevicesAnswered(d, c))
    OBVIOUS
  <2>5. Said(b)
    BY <2>3, <2>4, AnsweredTyped, SaidTyped
  <2>6. ASSUME NEW k \in Calls
        PROVE  SaysTo(b, d, k, (IF k = c THEN {"accept", "roster"} ELSE {}) \cup {},
                               {} \cup (IF k = c THEN {"answered"} ELSE {}))
    <3>1. SaysTo(TellOwnDevicesAnswered(d, c), d, k, {}, IF k = c THEN {"answered"} ELSE {})
      BY Says
    <3>2. SaysTo(a, d, k, IF k = c THEN {"accept", "roster"} ELSE {}, {})
      BY <2>2
    <3>3. QED
      BY <2>4, <3>1, <3>2, Says
  <2>7. f3 = Both(left, b)
    BY <2>1, <2>4
  <2>8. Said(f3)
    BY <1>4, <2>5, <2>7, SaidTyped
  <2>9. SaysTo(f3, d, c, {} \cup {"accept", "roster"}, {} \cup {"answered"})
    <3>1. SaysTo(b, d, c, {"accept", "roster"}, {"answered"})
      BY <2>6
    <3>2. QED
      BY <1>3, <2>7, <3>1, Says
  <2>10. ASSUME NEW k \in Calls, k # c
         PROVE  SaysTo(f3, d, k, LeftSays(rows[d][k]) \cup {}, {} \cup {})
    <3>1. SaysTo(b, d, k, {}, {})
      BY <2>6, <2>10
    <3>2. QED
      BY <1>3, <2>7, <2>10, <3>1, Says
  <2>11. QED
    BY <2>8, <2>9, <2>10
<1>7. /\ Said(f4) /\ SaysTo(f4, d, c, {"accept"} \cup Parting(j), {})
      /\ \A k \in Calls : k # c => SaysTo(f4, d, k, LeftSays(rows[d][k]), {})
  <2>1. PICK ms : ms = {Control("accept", c)} \cup Leaving(c, j)
    OBVIOUS
  <2>2. PICK T : T = {"accept"} \cup Parting(j)
    OBVIOUS
  <2>3. T \in SUBSET Types
    BY <1>5, <2>2 DEF Parting, Types, Ends
  <2>4. ASSUME NEW k \in Calls, NEW t \in Types
        PROVE  Control(t, k) \in ms <=> k = c /\ t \in T
    <3>1. Control(t, k) \in Leaving(c, j) <=> k = c /\ t \in Parting(j)
      <4>1. {u \in Types : Control(u, k) \in Leaving(c, j)} = IF c = k THEN Parting(j) ELSE {}
        BY SaidOfs
      <4>2. QED
        BY <4>1
    <3>2. Control(t, k) = Control("accept", c) <=> k = c /\ t = "accept"
      BY ControlIs
    <3>3. QED
      BY <2>1, <2>2, <3>1, <3>2
  <2>5. PICK b : b = Say(Other(d, c), ms)
    OBVIOUS
  <2>6. \A k \in Calls : SaysTo(b, d, k, IF k = c THEN T ELSE {}, {})
    BY <2>3, <2>4, <2>5, Says
  <2>7. Said(b)
    BY <1>4, <2>1, <2>5, ControlTyped, SaidTyped
  <2>8. f4 = Both(left, b)
    BY <2>1, <2>5
  <2>9. Said(f4)
    BY <1>4, <2>7, <2>8, SaidTyped
  <2>10. SaysTo(f4, d, c, {} \cup T, {} \cup {})
    <3>1. SaysTo(b, d, c, T, {})
      BY <2>6
    <3>2. QED
      BY <1>3, <2>8, <3>1, Says
  <2>11. ASSUME NEW k \in Calls, k # c
         PROVE  SaysTo(f4, d, k, LeftSays(rows[d][k]) \cup {}, {} \cup {})
    <3>1. SaysTo(b, d, k, {}, {})
      BY <2>6, <2>11
    <3>2. QED
      BY <1>3, <2>8, <2>11, <3>1, Says
  <2>12. QED
    BY <2>2, <2>9, <2>10, <2>11
<1> HIDE DEF f3, f4
\* What becomes of the call.
<1>8. /\ CalleeRow(g) /\ tk \in {"nothing", "invite"}
      /\ tk = "invite" => g.invite = "pending"
      /\ (g = r0 /\ tk = "nothing") \/ (r0 = NoRow /\ tk = "invite")
      /\ CalleeStep(r0, g, {}, {}, tk)
      /\ g.invite = "pending" => CalleeStep(r0, [g EXCEPT !.invite = "expired"], {}, {}, tk)
  <2>1. CASE g = r0 /\ tk = "nothing"
    BY <1>1, <2>1, CalleeIdles, CalleeTooLate DEF Ends
  <2>2. CASE r0 = NoRow /\ tk = "invite" /\ g = StoreRingingInvite(NoRow)
    <3>1. CalleeStep(NoRow, g, {}, {}, "invite") /\ g.invite = "pending"
          /\ CalleeStep(NoRow, [g EXCEPT !.invite = "expired"], {}, {}, "invite")
      BY <2>2, CalleeRings
    <3>2. CalleeRow(g)
      BY <3>1 DEF CalleeStep
    <3>3. QED
      BY <2>2, <3>1, <3>2
  <2>3. QED
    BY <2>1, <2>2 DEF Answering
<1>9. y[c] = g /\ y \in [Calls -> Rows]
  <2>1. \A k \in Calls : LeaveCall(x[k]) \in Rows
    BY LeaveKeeps DEF Keeps, RowOK
  <2>2. QED
    BY <1>2, <2>1 DEF y, LeaveOthers
<1>10. g.invite = "pending" /\ g.session # "ended" => g.session = "ringing"
  BY <1>1, <1>8, NoRowFacts DEF CalleeRow, Rows
<1>11. CASE rows' = [rows EXCEPT ![d] = y] /\ wire' = Post(q, d, left)
  <2>1. Wired(wire', d, s, OnCall(c, tk), left)
    BY <1>4, <1>11
  <2>2. AnswerOf(d, c, tk, y, g, left, {}, {})
    BY <1>2, <1>3, <1>8 DEF AnswerOf
  <2>3. QED
    BY <1>11, <2>1, <2>2, AnswerMoves
<1>12. CASE /\ g.invite = "pending"
            /\ rows' = [rows EXCEPT ![d] = [y EXCEPT ![c].invite = "expired"]]
            /\ wire' = Post(q, d, left)
  <2>1. Wired(wire', d, s, OnCall(c, tk), left)
    BY <1>4, <1>12
  <2>2. PICK e : e = [g EXCEPT !.invite = "expired"]
    OBVIOUS
  <2>3. e.invite = "expired"
    BY <1>1, <2>2 DEF Rows
  <2>4. PICK z : z = [y EXCEPT ![c].invite = "expired"]
    OBVIOUS
  <2>5. \A k \in Calls : z[k] = IF k = c THEN e ELSE Left(rows[d][k])
    BY <1>2, <1>9, <2>2, <2>4
  <2>6. rows' = [rows EXCEPT ![d] = z]
    BY <1>12, <2>4
  <2>7. CalleeStep(r0, e, {}, {}, tk)
    BY <1>8, <1>12, <2>2
  <2>8. AnswerOf(d, c, tk, z, e, left, {}, {})
    BY <1>3, <1>8, <2>3, <2>5, <2>7 DEF AnswerOf
  <2>9. QED
    BY <2>1, <2>6, <2>8, AnswerMoves
<1>13. CASE /\ g.invite = "pending" /\ g.session # "ended"
            /\ rows' = [rows EXCEPT ![d] = [y EXCEPT ![c] = j]]
            /\ wire' = Post(q, d, f3)
  <2>1. Wired(wire', d, s, OnCall(c, tk), f3)
    BY <1>6, <1>13
  <2>2. CalleeStep(r0, j, {"accept", "roster"}, {"answered"}, tk)
    BY <1>1, <1>8, <1>10, <1>13, CalleeAccepts
  <2>3. j.invite = "accepted"
    BY <1>1, JoinFields
  <2>4. PICK z : z = [y EXCEPT ![c] = j]
    OBVIOUS
  <2>5. \A k \in Calls : z[k] = IF k = c THEN j ELSE Left(rows[d][k])
    BY <1>2, <1>9, <2>4
  <2>6. rows' = [rows EXCEPT ![d] = z]
    BY <1>13, <2>4
  <2> HIDE DEF j
  <2>7. AnswerOf(d, c, tk, z, j, f3, {"accept", "roster"}, {"answered"})
    BY <1>6, <1>8, <2>2, <2>3, <2>5 DEF AnswerOf
  <2>8. QED
    BY <2>1, <2>6, <2>7, AnswerMoves
<1>14. CASE /\ g.invite = "pending" /\ g.session # "ended" /\ j.live = "none"
            /\ rows' = [rows EXCEPT ![d] = [y EXCEPT ![c] = LeaveCall(j)]]
            /\ wire' = Post(q, d, f4)
  <2>1. Wired(wire', d, s, OnCall(c, tk), f4)
    BY <1>7, <1>14
  <2>2. CalleeStep(r0, LeaveCall(j), {"accept"} \cup Parting(j), {}, tk)
    BY <1>1, <1>8, <1>10, <1>14, CalleeAccepts
  <2>3. LeaveCall(j).invite = "accepted"
    <3>1. j \in Rows /\ InCall(j) /\ j.invite = "accepted"
      BY <1>1, JoinFields DEF InCall, Open
    <3>2. QED
      BY <3>1, LeaveCallFields
  <2>4. PICK l : l = LeaveCall(j)
    OBVIOUS
  <2>5. PICK z : z = [y EXCEPT ![c] = l]
    OBVIOUS
  <2>6. \A k \in Calls : z[k] = IF k = c THEN l ELSE Left(rows[d][k])
    BY <1>2, <1>9, <2>5
  <2>7. rows' = [rows EXCEPT ![d] = z]
    BY <1>14, <2>4, <2>5
  <2>8. PICK out : out = {"accept"} \cup Parting(j)
    OBVIOUS
  <2> HIDE DEF j
  <2>9. CalleeStep(r0, l, out, {}, tk) /\ SaysTo(f4, d, c, out, {}) /\ l.invite = "accepted"
    BY <1>7, <2>2, <2>3, <2>4, <2>8
  <2>10. AnswerOf(d, c, tk, z, l, f4, out, {})
    BY <1>7, <1>8, <2>6, <2>9 DEF AnswerOf
  <2>11. QED
    BY <2>1, <2>7, <2>10, AnswerMoves
<1>15. QED
  BY <1>9, <1>11, <1>12, <1>13, <1>14 DEF AcceptInvite, y, left, f3, f4

LEMMA ClickAcceptMoves ==
  ASSUME Inv, MeetOK, NEW d \in Devices, NEW c \in Calls, ClickAccept(d, c)
  PROVE  Moved
<1>1. d \in Invited(c) /\ rows[d] \in [Calls -> Rows]
  BY WhoseRow DEF ClickAccept, Inv, TypeOK
<1>2. \A f : Said(f) /\ wire' = Post(wire, d, f) => Wired(wire', d, d, OnCall(c, "nothing"), f)
  BY OnCalls, Wirings
<1>3. \A k \in Calls : SaysTo(Nothing, d, k, {}, {})
  BY Says
<1>4. \A k \in Calls : LeftAlready(rows[d], d, k, Nothing)
  BY <1>3 DEF LeftAlready
<1>5. Answering(rows[d][c], rows[d][c], "nothing")
  BY DEF Answering
<1>6. Said(Nothing) /\ AcceptInvite(d, c, rows[d], wire, Nothing)
  BY SaidTyped DEF ClickAccept
<1>7. QED
  BY <1>1, <1>2, <1>3, <1>4, <1>5, <1>6, AcceptMoves

\* Ours gives way: it is left, whoever it had reached.
LEMMA CrossLeaves ==
  ASSUME NEW r, RowOK(r), CallerRow(r), Open(r)
  PROVE  /\ Left(LeaveCall(r)) = Left(r)
         /\ Parting(r) \cup LeftSays(LeaveCall(r)) = LeftSays(r)
<1>1. r \in Rows /\ ~ InCall(LeaveCall(r))
  BY LeaveKeeps DEF RowOK
<1>2. Left(LeaveCall(r)) = LeaveCall(r) /\ LeftSays(LeaveCall(r)) = {}
  BY <1>1 DEF Left, LeftSays
<1>3. CASE InCall(r)
  BY <1>2, <1>3 DEF Left, LeftSays
<1>4. CASE ~ InCall(r)
  <2>1. r.self = "left" /\ r.live = "none"
    BY <1>1, <1>4 DEF RowOK, Agrees, CallerRow, InCall, Open, Rows
  <2>2. LeaveCall(r) = r
    <3>1. [r EXCEPT !.live = "none"] = r
      BY <1>1, <2>1 DEF Rows
    <3>2. QED
      BY <2>1, <3>1 DEF LeaveCall
  <2>3. Parting(r) = {}
    BY <2>1 DEF Parting
  <2>4. QED
    BY <1>2, <1>4, <2>2, <2>3 DEF Left, LeftSays
<1>5. QED
  BY <1>3, <1>4

LEMMA ReceiveInviteMoves ==
  ASSUME Inv, MeetOK, NEW s \in Devices, NEW d \in Devices, NEW m \in Coming(s, d),
         ReceiveInvite(s, d, m)
  PROVE  Moved
<1> DEFINE c == m.call
           x == rows[d]
           cross == Crossing(d, Owner[s], c)
           g == StoreRingingInvite(NoRow)
<1>1. m.type = "invite" /\ c \in Calls /\ x \in [Calls -> Rows]
  BY Arrives DEF ReceiveInvite, Inv, TypeOK
<1>2. d \in Invited(c) /\ s = Placer[c] /\ x[c] = NoRow
  BY <1>1, Arrives
<1>3. d # Placer[c] /\ Owner[d] = Invitee[c] /\ Owner[s] # Owner[d]
  BY <1>1, <1>2, Two
\* Our own call is the one that crosses, not a sibling's.
<1>4. ASSUME NEW k \in cross
      PROVE  /\ k \in Calls /\ k # c /\ Placer[k] = d /\ Invitee[k] = Owner[Placer[c]]
             /\ Open(x[k]) /\ Other(d, k) = Owner[s] /\ CallerRow(x[k])
  <2>1. /\ k \in Calls /\ k # c /\ Invitee[k] = Owner[s] /\ Open(x[k])
    BY <1>4 DEF Crossing
  <2>2. d \notin Invited(k)
    BY <1>3, <2>1, Two
  <2>3. d = Placer[k]
    BY <2>1, <2>2, WhoseRow, NoRowFacts
  <2>4. QED
    BY <1>2, <2>1, <2>3, Parts, WhoseRow
<1>5. /\ g \in Rows /\ g.invite = "pending" /\ g.session = "ringing"
      /\ CalleeStep(NoRow, g, {}, {}, "invite")
      /\ CalleeStep(NoRow, [NoRow EXCEPT !.session = "ended"], {}, {}, "invite")
  BY CalleeRings
<1>6. \A k \in Calls : SaysTo(Nothing, d, k, IF k = c THEN {} ELSE {}, IF k = c THEN {} ELSE {})
  BY Says
<1>7. \A k \in Calls : SaysTo(Nothing, d, k, {}, {})
  BY Says
<1>8. wire' = Taken(s, d, m) => Wired(wire', d, s, OnCall(c, "invite"), Nothing)
  BY <1>1, WiringTaken
<1> HIDE DEF g
<1>9. CASE wire' = Taken(s, d, m) /\ UNCHANGED rows
  <2>1. Put(d, c, NoRow)
    BY <1>1, <1>2, <1>9 DEF Put, Inv, TypeOK
  <2>2. CalleeStep(NoRow, NoRow, {}, {}, "invite")
    BY NoRowFacts, CalleeIdles DEF Ends
  <2>3. Crossed([x EXCEPT ![c] = NoRow], d, c)
    <3>1. [x EXCEPT ![c] = NoRow] = x
      BY <1>1, <1>2
    <3>2. Crossed(x, d, c)
      BY <1>1, <1>2 DEF MeetOK, Crosses
    <3>3. QED
      BY <3>1, <3>2
  <2>4. QED
    BY <1>1, <1>2, <1>3, <1>6, <1>8, <1>9, <2>1, <2>2, <2>3, PutMoves
<1>10. CASE /\ cross = {}
            /\ rows' = [rows EXCEPT ![d] = [x EXCEPT ![c] = StoreRingingInvite(@)]]
            /\ wire' = Taken(s, d, m)
  <2>1. Put(d, c, g)
    BY <1>1, <1>2, <1>10 DEF Put, Inv, TypeOK, g
  <2>2. Crossed([x EXCEPT ![c] = g], d, c)
    <3>1. PICK y : y = [x EXCEPT ![c] = g]
      OBVIOUS
    <3>2. y[c] = g /\ \A k \in Calls : k # c => y[k] = x[k]
      BY <1>1, <3>1
    <3>3. ASSUME NEW k \in Calls, Placer[k] = d, Invitee[k] = Owner[Placer[c]],
                 InCall(y[k]), y[k].peer = "ringing"
          PROVE  FALSE
      <4>1. k # c /\ y[k] = x[k]
        BY <1>3, <3>2, <3>3
      <4>2. k \in cross
        BY <1>2, <3>3, <4>1 DEF Crossing, InCall
      <4>3. QED
        BY <1>10, <4>2
    <3>4. QED
      BY <1>5, <3>1, <3>2, <3>3 DEF Crossed
  <2>3. QED
    BY <1>1, <1>2, <1>3, <1>5, <1>6, <1>8, <1>10, <2>1, <2>2, PutMoves
<1>11. CASE /\ \E k \in cross : k < c
            /\ Put(d, c, [x[c] EXCEPT !.session = "ended"])
            /\ wire' = Taken(s, d, m)
  <2>1. PICK e : e = [NoRow EXCEPT !.session = "ended"]
    OBVIOUS
  <2>2. e.session = "ended" /\ e.invite = "none"
    BY <2>1 DEF NoRow
  <2>3. Put(d, c, e)
    BY <1>2, <1>11, <2>1
  <2>4. Crossed([x EXCEPT ![c] = e], d, c)
    <3>1. PICK y : y = [x EXCEPT ![c] = e]
      OBVIOUS
    <3>2. y[c] = e /\ \A k \in Calls : k # c => y[k] = x[k]
      BY <1>1, <3>1
    <3>3. PICK k \in cross : k < c
      BY <1>11
    <3>4. /\ k \in Calls /\ Placer[k] = d /\ Invitee[k] = Owner[Placer[c]] /\ y[k].session # "none"
      BY <1>4, <3>2, <3>3 DEF Open
    <3>5. QED
      BY <2>2, <3>1, <3>2, <3>3, <3>4 DEF Crossed
  <2>5. CalleeStep(NoRow, e, {}, {}, "invite")
    BY <1>5, <2>1
  <2>6. QED
    BY <1>1, <1>2, <1>3, <1>6, <1>8, <1>11, <2>3, <2>4, <2>5, PutMoves
<1>12. ASSUME NEW k \in cross, c < k,
              AcceptInvite(d, c, [[x EXCEPT ![c] = StoreRingingInvite(@)] EXCEPT ![k] = LeaveCall(@)],
                           Taken(s, d, m), Say(Owner[s], Leaving(k, x[k])))
       PROVE  Moved
  <2>1. /\ k \in Calls /\ k # c /\ Open(x[k]) /\ Other(d, k) = Owner[s] /\ CallerRow(x[k])
        /\ RowOK(x[k])
    BY <1>4, <1>12, WhoseRow
  <2>2. PICK z : z = [[x EXCEPT ![c] = StoreRingingInvite(@)] EXCEPT ![k] = LeaveCall(@)]
    OBVIOUS
  <2>3. LeaveCall(x[k]) \in Rows
    BY <1>1, <2>1, LeaveKeeps DEF Keeps, RowOK
  <2>4. /\ z \in [Calls -> Rows] /\ z[c] = g /\ z[k] = LeaveCall(x[k])
        /\ \A i \in Calls : i # c /\ i # k => z[i] = x[i]
    BY <1>1, <1>2, <1>5, <2>1, <2>2, <2>3 DEF g
  <2>5. PICK said : said = Say(Other(d, k), Leaving(k, x[k]))
    OBVIOUS
  <2>6. Said(said) /\ said = Say(Owner[s], Leaving(k, x[k]))
    BY <2>1, <2>5, ControlTyped, PartiesTyped, SaidTyped
  <2>7. \A i \in Calls : SaysTo(said, d, i, IF i = k THEN Parting(x[k]) ELSE {}, {})
    BY <2>1, <2>5, Says
  <2>8. SaysTo(said, d, c, {}, {})
    BY <1>1, <2>1, <2>7
  <2>9. ASSUME NEW i \in Calls, i # c
        PROVE  LeftAlready(z, d, i, said)
    <3>1. CASE i = k
      <4>1. SaysTo(said, d, i, Parting(x[k]), {})
        BY <2>7, <3>1
      <4>2. /\ Left(z[i]) = Left(x[i])
            /\ Parting(x[k]) \cup LeftSays(z[i]) = LeftSays(x[i])
        BY <2>1, <2>4, <3>1, CrossLeaves
      <4>3. QED
        BY <4>1, <4>2 DEF LeftAlready
    <3>2. CASE i # k
      <4>1. SaysTo(said, d, i, {}, {}) /\ z[i] = x[i]
        BY <2>4, <2>7, <2>9, <3>2
      <4>2. QED
        BY <4>1 DEF LeftAlready
    <3>3. QED
      BY <3>1, <3>2
  <2>10. Answering(z[c], x[c], "invite")
    BY <1>2, <2>4 DEF Answering, g
  <2>11. \A f : Said(f) /\ wire' = Post(Taken(s, d, m), d, f) => Wired(wire', d, s, OnCall(c, "invite"), f)
    BY <1>1, WiringTaken
  <2>12. AcceptInvite(d, c, z, Taken(s, d, m), said)
    BY <1>12, <2>2, <2>6
  <2>13. QED
    BY <1>1, <1>2, <2>4, <2>6, <2>8, <2>9, <2>10, <2>11, <2>12, AcceptMoves
<1>13. QED
  BY <1>9, <1>10, <1>11, <1>12 DEF ReceiveInvite

-----------------------------------------------------------------------------
(***************************************************************************)
(* The ends meet.                                                          *)
(***************************************************************************)

MeetInv == faults = 0 => MeetOK

LEMMA InitMeets == Init => MeetInv
<1> SUFFICES ASSUME Init PROVE MeetOK
  BY DEF MeetInv
<1>1. \A d \in Devices, c \in Calls : rows[d][c] = NoRow
  BY DEF Init
<1>2. \A s, t \in Devices : wire[s][t] = <<>>
  BY DEF Init
<1>3. \A s, t \in Devices : \A m : ~ Holds(wire[s][t], m)
  BY <1>2 DEF Holds
<1>4. ASSUME NEW c \in Calls
      PROVE  CallFits(rows, wire, c) /\ AllOrdered(wire, c)
  <2>1. \A s, t \in Devices : \A type \in Types : ~ In(wire, s, t, type, c)
    BY <1>3 DEF In
  <2>2. Placer[c] \in Devices /\ \A d \in Invited(c) : d \in Devices
    BY Two
  <2>3. RowsFit(rows, c) /\ WiresFit(rows, wire, c) /\ Knows(rows, c)
    BY <1>1, <2>1, <2>2, NoRowFacts DEF RowsFit, WiresFit, Knows
  <2>4. ASSUME NEW d \in Invited(c)
        PROVE  Paired(rows, wire, c, d)
    <3>1. "invite" \in Types /\ "accept" \in Types
      BY OnCalls
    <3>2. QED
      BY <1>1, <2>1, <2>2, <3>1, NoRowFacts DEF Paired
  <2>5. AllOrdered(wire, c)
    BY <1>2 DEF AllOrdered, Ordered
  <2>6. QED
    BY <2>3, <2>4, <2>5 DEF CallFits
<1>5. \A d \in Devices : Crosses(rows[d], d)
  BY <1>1, NoRowFacts DEF Crosses, Crossed
<1>6. QED
  BY <1>4, <1>5 DEF MeetOK

LEMMA NextMeets == Inv /\ Inv' /\ MeetInv /\ [Next]_vars => MeetInv'
<1> SUFFICES ASSUME Inv, Inv', MeetInv, [Next]_vars, faults' = 0
             PROVE  MeetOK'
  BY DEF MeetInv
<1>1. faults \in Nat
  BY CallAssumption DEF Inv, TypeOK
<1>2. Moved /\ MeetOK => MeetOK'
  BY MeetKept DEF Moved
<1>3. faults = 0 => MeetOK
  BY DEF MeetInv
<1>4. ASSUME NEW d \in Devices, NEW c \in Calls, UserStep(d, c)
      PROVE  MeetOK'
  <2>1. faults = 0
    BY <1>4 DEF UserStep, Place, ClickAccept, ClickDecline, ClickLeave, Leave
  <2>2. CASE ClickLeave(d, c)
    <3>1. InCall(rows[d][c])
      BY <2>2 DEF ClickLeave, Inv, RowsOK, RowOK, Agrees
    <3>2. QED
      BY <1>2, <1>3, <2>1, <2>2, <3>1, LeaveMoves DEF ClickLeave
  <2>3. QED
    BY <1>2, <1>3, <1>4, <2>1, <2>2, PlaceMoves, ClickAcceptMoves, ClickDeclineMoves DEF UserStep
<1>5. ASSUME NEW d \in Devices, NEW c \in Calls, Expire(d, c)
      PROVE  MeetOK'
  BY <1>2, <1>3, <1>5, ExpireMoves DEF Expire
<1>6. ASSUME NEW d \in Devices, NEW c \in Calls, GiveUpUnanswered(d, c)
      PROVE  MeetOK'
  <2>1. InCall(rows[d][c]) /\ Leave(d, c)
    BY <1>6 DEF GiveUpUnanswered
  <2>2. faults = 0
    BY <2>1 DEF Leave
  <2>3. QED
    BY <1>2, <1>3, <2>1, <2>2, LeaveMoves
<1>7. ASSUME NEW s \in Devices, NEW d \in Devices, NEW m \in Coming(s, d), Receive(s, d, m)
      PROVE  MeetOK'
  <2>1. faults = 0
    BY <1>7 DEF Receive, ReceiveInvite, ReceiveAccept, ReceiveDecline, ReceiveLeave,
                ReceiveEnded, ReceiveRoster, ReceiveAnswered, TakeFromParty, Take
  <2>2. QED
    BY <1>2, <1>3, <1>7, <2>1, ReceiveMoves, ReceiveInviteMoves
<1>8. ASSUME NEW s \in Devices, NEW d \in Devices, NEW c \in Calls, HearAnswer(s, d, c)
      PROVE  MeetOK'
  BY <1>2, <1>3, <1>8, HearAnswerMoves DEF HearAnswer
<1>9. ASSUME NEW d \in Devices, Restart(d)
      PROVE  MeetOK'
  BY <1>2, <1>3, <1>9, RestartMoves DEF Restart
<1>10. ASSUME NEW s \in Devices, NEW d \in Devices, NEW q, Fault(s, d, q)
       PROVE  FALSE
  BY <1>1, <1>10 DEF Fault
<1>11. CASE UNCHANGED vars
  BY <1>3, <1>11 DEF vars, MeetOK
<1>12. QED
  BY <1>4, <1>5, <1>6, <1>7, <1>8, <1>9, <1>10, <1>11 DEF Next, Lose, Delay, Repeat

\* With nothing on its way.
LEMMA MeetingEnds ==
  ASSUME Inv, MeetOK, Quiet, NEW c \in Calls, NEW d \in Invited(c), Sole(rows, c, d)
  PROVE  LET P == rows[Placer[c]][c]
             D == rows[d][c]
         IN  /\ Open(D) => InCall(P)
             /\ InCall(D) /\ InCall(P) => P.session = "active"
             /\ InCall(P) /\ P.session = "active" => InCall(D)
<1>1. Placer[c] \in Devices /\ d \in Devices
  BY Two
<1>2. wire[d][Placer[c]] = <<>> /\ wire[Placer[c]][d] = <<>>
  BY <1>1 DEF Quiet
<1>3. /\ \A type : ~ In(wire, d, Placer[c], type, c)
      /\ \A type : ~ In(wire, Placer[c], d, type, c)
  BY <1>2 DEF In, Holds
<1>4. Paired(rows, wire, c, d)
  BY DEF MeetOK, CallFits
<1>5. QED
  BY <1>3, <1>4 DEF Paired, Ended

LEMMA MeetEnds == Inv /\ MeetInv => EndsMeet
<1> SUFFICES ASSUME Inv, MeetOK, Quiet, NEW c \in Calls
             PROVE  /\ \A d \in Invited(c) : Answered(c) = {d} => (Talks(d, c) <=> Talks(Placer[c], c))
                    /\ \A d \in Invited(c) :
                         (rows[d][c].live = "ringing" /\ Answered(c) = {})
                           => rows[Placer[c]][c].live = "calling"
                    /\ \A k \in Calls :
                         ~ /\ Answered(c) = {} /\ Answered(k) = {}
                           /\ Owner[Placer[k]] = Invitee[c]
                           /\ Owner[Placer[c]] = Invitee[k]
                           /\ rows[Placer[c]][c].live = "calling"
                           /\ rows[Placer[k]][k].live = "calling"
                           /\ rows[Placer[c]][k].session # "none" /\ rows[Placer[c]][k].invite # "expired"
                           /\ rows[Placer[k]][c].session # "none" /\ rows[Placer[k]][c].invite # "expired"
                           /\ Beating(Placer[c], k) \subseteq {c}
                           /\ Beating(Placer[k], c) \subseteq {k}
  BY DEF EndsMeet, MeetInv
<1>1. \A k \in Calls : \A d \in Devices : d \in Answered(k) <=> d \in Invited(k) /\ HasAnswered(rows[d][k])
  BY DEF Answered, HasAnswered, Invited
<1>2. \A k \in Calls : Placer[k] \in Devices /\ Invited(k) \subseteq Devices
  BY Two
<1>3. \A d \in Devices : \A k \in Calls : Agrees(rows[d][k])
  BY DEF Inv, RowsOK, RowOK
<1>4. \A k \in Calls : \A d \in Invited(k) :
        /\ CalleeRow(rows[d][k]) /\ (InCall(rows[d][k]) => HasAnswered(rows[d][k]))
        /\ InCall(rows[d][k]) => rows[d][k].session = "active"
  <2>1. ASSUME NEW k \in Calls, NEW d \in Invited(k)
        PROVE  /\ CalleeRow(rows[d][k]) /\ (InCall(rows[d][k]) => HasAnswered(rows[d][k]))
               /\ InCall(rows[d][k]) => rows[d][k].session = "active"
    BY <1>2, WhoseRow, OpenCallee, CalleeInCall
  <2>2. QED
    BY <2>1
\* The device that answered and the caller.
<1>5. ASSUME NEW d \in Invited(c), Answered(c) = {d}
      PROVE  Talks(d, c) <=> Talks(Placer[c], c)
  <2>1. Sole(rows, c, d)
    BY <1>1, <1>2, <1>5 DEF Sole
  <2>2. Talks(d, c) => Talks(Placer[c], c)
    <3>1. SUFFICES ASSUME Talks(d, c) PROVE Talks(Placer[c], c)
      OBVIOUS
    <3>2. InCall(rows[d][c]) /\ Open(rows[d][c])
      BY <1>2, <1>3, <3>1 DEF Talks, Agrees, InCall
    <3>3. InCall(rows[Placer[c]][c]) /\ rows[Placer[c]][c].session = "active"
      BY <2>1, <3>2, MeetingEnds
    <3>4. QED
      BY <1>2, <1>3, <3>3 DEF Talks, Agrees
  <2>3. Talks(Placer[c], c) => Talks(d, c)
    <3>1. SUFFICES ASSUME Talks(Placer[c], c) PROVE Talks(d, c)
      OBVIOUS
    <3>2. InCall(rows[Placer[c]][c]) /\ rows[Placer[c]][c].session = "active"
      BY <1>2, <1>3, <3>1 DEF Talks, Agrees
    <3>3. InCall(rows[d][c]) /\ rows[d][c].session = "active"
      BY <1>4, <2>1, <3>2, MeetingEnds
    <3>4. QED
      BY <1>2, <1>3, <3>3 DEF Talks, Agrees
  <2>4. QED
    BY <2>2, <2>3
\* A device that rings and the caller.
<1>6. ASSUME NEW d \in Invited(c), rows[d][c].live = "ringing", Answered(c) = {}
      PROVE  rows[Placer[c]][c].live = "calling"
  <2>1. Sole(rows, c, d) /\ ~ HasAnswered(rows[d][c])
    BY <1>1, <1>2, <1>6 DEF Sole
  <2>2. Open(rows[d][c])
    BY <1>4, <1>6 DEF CalleeRow
  <2>3. InCall(rows[Placer[c]][c])
    BY <2>1, <2>2, MeetingEnds
  <2>4. rows[Placer[c]][c].session # "active"
    BY <1>4, <2>1, <2>3, MeetingEnds
  <2>5. QED
    BY <1>2, <1>3, <2>3, <2>4 DEF Agrees
\* Two calls that cross: who still calls and was not called elsewhere lost to
\* an earlier call of its own.
<1>7. ASSUME NEW a \in Calls, NEW b \in Calls, Answered(a) = {}, Answered(b) = {},
             Owner[Placer[a]] = Invitee[b], Owner[Placer[b]] = Invitee[a],
             rows[Placer[a]][a].live = "calling",
             rows[Placer[a]][b].session # "none", rows[Placer[a]][b].invite # "expired",
             Beating(Placer[a], b) \subseteq {a}
      PROVE  a < b
  <2> DEFINE p == Placer[a]
  <2>1. p \in Devices /\ p \in Invited(b)
    BY <1>2, <1>7, Two
  <2>2. InCall(rows[p][a])
    BY <1>3, <1>7, <2>1 DEF Agrees
  <2>3. rows[p][a].peer = "ringing"
    <3>1. Knows(rows, a)
      BY DEF MeetOK, CallFits
    <3>2. \A e \in Invited(a) : ~ HasAnswered(rows[e][a])
      BY <1>1, <1>2, <1>7
    <3>3. QED
      BY <2>2, <3>1, <3>2 DEF Knows
  <2>4. Crossed(rows[p], p, b)
    BY <2>1 DEF MeetOK, Crosses
  <2>5. rows[p][b].invite # "pending"
    BY <1>7, <2>2, <2>3, <2>4 DEF Crossed
  <2>6. rows[p][b].invite \notin {"accepted", "declined"}
    <3>1. ~ HasAnswered(rows[p][b]) /\ CalleeRow(rows[p][b])
      BY <1>1, <1>4, <1>7, <2>1
    <3>2. QED
      BY <3>1 DEF CalleeRow, HasAnswered
  <2>7. rows[p][b] \in Rows
    BY <2>1, WhoseRow
  <2>8. rows[p][b].invite = "none"
    BY <1>7, <2>5, <2>6, <2>7 DEF Rows
  <2>9. PICK k \in Calls : /\ Placer[k] = p /\ Invitee[k] = Owner[Placer[b]]
                           /\ k < b /\ rows[p][k].session # "none"
    BY <1>7, <2>4, <2>8 DEF Crossed
  <2>10. k \in Beating(p, b)
    BY <2>9 DEF Beating
  <2>11. QED
    BY <1>7, <2>9, <2>10
<1>8. ASSUME NEW k \in Calls,
             Answered(c) = {}, Answered(k) = {},
             Owner[Placer[k]] = Invitee[c],
             Owner[Placer[c]] = Invitee[k],
             rows[Placer[c]][c].live = "calling",
             rows[Placer[k]][k].live = "calling",
             rows[Placer[c]][k].session # "none", rows[Placer[c]][k].invite # "expired",
             rows[Placer[k]][c].session # "none", rows[Placer[k]][c].invite # "expired",
             Beating(Placer[c], k) \subseteq {c},
             Beating(Placer[k], c) \subseteq {k}
      PROVE  FALSE
  <2>1. c < k
    BY <1>7, <1>8
  <2>2. k < c
    BY <1>7, <1>8
  <2>3. c \in Nat /\ k \in Nat
    BY CallAssumption
  <2>4. QED
    BY <2>1, <2>2, <2>3
<1>9. QED
  BY <1>5, <1>6, <1>8

\* Once everything sent has arrived in its order, the two ends of a call agree:
\* the accept, the leave and the ended that cross on their way leave no one
\* talking alone, no ring outlives its call, and of two calls that cross one
\* gives way (ReceiveInvite).
THEOREM TwoEndsAgree == Spec => []EndsMeet
<1>1. Spec => []MeetInv
  BY Invariance, InitMeets, NextMeets, PTL DEF Spec
<1>2. QED
  BY <1>1, Invariance, MeetEnds, PTL

=============================================================================
