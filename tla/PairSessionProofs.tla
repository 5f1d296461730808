------------------------- MODULE PairSessionProofs --------------------------
(***************************************************************************)
(* What holds of PairSession for every number of sessions, messages,       *)
(* resets and crashes: the variables keep their types, no number is used   *)
(* twice, no device goes back to an earlier epoch, no pair locks itself    *)
(* out of its session, and an undisturbed exchange brings it to one.       *)
(***************************************************************************)
EXTENDS MCPairSession, TLAPS

-----------------------------------------------------------------------------
(***************************************************************************)
(* The inductive invariant.                                                *)
(***************************************************************************)

\* A row without a session was never written, and an epoch is retired only
\* by moving past it.
RowOK(r) ==
  /\ r.psk = None => r = NoRow
  /\ r.psk # None => r.saved
  /\ \A e \in Epoch : r.retired[e] # None => e < r.epoch

\* d sent nothing in an epoch after its row's, and nothing at or past the
\* row's next number in that one, unless the number is void (restart pending).
NumbersAhead(d) ==
  \A m \in mailbox : m.from = d =>
    /\ m.epoch <= row[d].epoch
    /\ (m.epoch = row[d].epoch /\ ~row[d].restart) => m.seq < row[d].seq

Inv ==
  /\ TypeOK
  /\ \A d \in Device : RowOK(row[d])
  /\ \A d \in Device : NumbersAhead(d)
  /\ NeverRewinds

-----------------------------------------------------------------------------
(***************************************************************************)
(* The session rules keep the shape of a row.                              *)
(***************************************************************************)

\* Saving a row (SaveDeviceSession) renumbers it exactly when its epoch changes.
LEMMA SaveRow ==
  ASSUME NEW old \in Row, NEW new \in Row
  PROVE  /\ Save(old, new) \in Row
         /\ Save(old, new).epoch = new.epoch
         /\ Save(old, new).psk = new.psk
         /\ Save(old, new).restart = new.restart
         /\ Save(old, new).retired = new.retired
         /\ Save(old, new).seq = IF new.epoch = old.epoch THEN old.seq ELSE 1
  <1> DEFINE n == IF new.epoch = old.epoch THEN old.seq ELSE 1
             s == [new EXCEPT !.saved = TRUE, !.seq = n]
  <1>1. n \in Nat \ {0}
    BY DEF Row
  <1>2. s \in Row
    <2> HIDE DEF n
    <2> QED  BY <1>1 DEF Row
  <1>3. /\ s.epoch = new.epoch
        /\ s.psk = new.psk
        /\ s.restart = new.restart
        /\ s.retired = new.retired
        /\ s.seq = n
    <2> HIDE DEF n
    <2> QED  BY DEF Row
  <1>4. Save(old, new) = s
    BY DEF Save
  <1> QED
    <2> HIDE DEF s
    <2> QED  BY <1>2, <1>3, <1>4

\* A saved row exists.
LEMMA SaveSaves ==
  ASSUME NEW old \in Row, NEW new \in Row
  PROVE  Save(old, new).saved = TRUE
  BY DEF Save, Row

\* Retiring touches nothing but the retired PSK of that epoch.
LEMMA RetireRow ==
  ASSUME NEW r \in Row, NEW e \in Epoch
  PROVE  /\ Retire(r, e) \in Row
         /\ Retire(r, e) = [r EXCEPT !.retired = Retire(r, e).retired]
         /\ \A f \in Epoch : f # e => Retire(r, e).retired[f] = r.retired[f]
  BY DEF Retire, Row, Optional

\* A lookup (ResolveMasterPskForEpoch) finds a session or nothing.
LEMMA ResolveType ==
  ASSUME NEW r \in Row, NEW e \in Epoch
  PROVE  Resolve(r, e) \in Optional(Session)
  BY DEF Resolve, Row, Optional

\* A restart opens the next epoch, with its numbers unused and nothing retired in it.
LEMMA RestartRow ==
  ASSUME NEW r \in Row, RowOK(r), r.epoch + 1 \in Epoch
  PROVE  /\ Restart(r) \in Row
         /\ Restart(r).epoch = r.epoch + 1
         /\ Restart(r).seq = 1
         /\ Restart(r).psk = None
         /\ Restart(r).restart = FALSE
         /\ \A e \in Epoch : Restart(r).retired[e] # None => e < r.epoch + 1
  <1> DEFINE kept == IF r.psk # None THEN Retire(r, r.epoch) ELSE r
             new  == [kept EXCEPT !.epoch = r.epoch + 1,
                                  !.psk = None,
                                  !.init = FALSE,
                                  !.heard = None,
                                  !.restart = FALSE]
  <1>1. r.epoch \in Epoch
    BY DEF Row
  <1>2. /\ kept \in Row
        /\ \A e \in Epoch : e # r.epoch => kept.retired[e] = r.retired[e]
    BY <1>1, RetireRow
  <1>3. new \in Row
    BY <1>2 DEF Row, Optional, None
  <1>4. /\ new.epoch = r.epoch + 1
        /\ new.psk = None
        /\ new.restart = FALSE
        /\ new.retired = kept.retired
    BY <1>2 DEF Row
  <1>5. new.epoch # r.epoch
    BY <1>1, <1>4 DEF Epoch
  <1>6. \A e \in Epoch : new.retired[e] # None => e < r.epoch + 1
    BY <1>1, <1>2, <1>4 DEF RowOK, Epoch
  <1>7. Restart(r) = Save(r, new)
    BY DEF Restart
  <1> HIDE DEF kept, new
  <1>8. /\ Save(r, new) \in Row
        /\ Save(r, new).epoch = new.epoch
        /\ Save(r, new).psk = new.psk
        /\ Save(r, new).restart = new.restart
        /\ Save(r, new).retired = new.retired
        /\ Save(r, new).seq = IF new.epoch = r.epoch THEN r.seq ELSE 1
    BY <1>3, SaveRow
  <1> QED
    BY <1>4, <1>5, <1>6, <1>7, <1>8

\* What every send starts from (StartNextPairEpochIfRestored): a row whose
\* numbers are not void, at this epoch or, from the first number on, at the next.
LEMMA SendRow ==
  ASSUME NEW r \in Row, RowOK(r), r.restart => r.epoch + 1 \in Epoch
  PROVE  LET q == RestartIfRestored(r)
         IN  /\ q \in Row
             /\ q.restart = FALSE
             /\ q.psk # None => q.saved
             /\ \A e \in Epoch : q.retired[e] # None => e < q.epoch
             /\ \/ q.epoch = r.epoch + 1 /\ q.seq = 1
                \/ q = r
  <1>1. CASE r.saved /\ r.restart
    BY <1>1, RestartRow DEF RestartIfRestored
  <1>2. CASE ~(r.saved /\ r.restart)
    <2>1. r.restart = FALSE
      BY <1>2 DEF RowOK, NoRow, Row
    <2> QED
      BY <1>2, <2>1 DEF RestartIfRestored, RowOK
  <1> QED
    BY <1>1, <1>2

\* The session a send settles on (EnsureE2ePublicMasterPsk): the row's own, or
\* the one it opens, in the row's epoch and from the row's next number on.
LEMMA EnsureRow ==
  ASSUME NEW q \in Row, q.restart = FALSE, q.psk # None => q.saved,
         \A e \in Epoch : q.retired[e] # None => e < q.epoch,
         NEW s \in SendSessions(q)
  PROVE  LET ready == Ensure(q, s)
         IN  /\ s \in Session
             /\ ready \in Row
             /\ RowOK(ready)
             /\ ready.epoch = q.epoch
             /\ ready.seq = q.seq
             /\ ready.restart = FALSE
             /\ ready.psk # None
             /\ Resolve(ready, ready.epoch) \in Session
  <1>1. CASE Resolve(q, q.epoch) # None
    <2>1. q.epoch \in Epoch /\ ~(q.epoch < q.epoch)
      BY DEF Row, Epoch
    <2>2. q.psk # None
      BY <1>1, <2>1 DEF Resolve
    <2>3. Resolve(q, q.epoch) \in Session
      BY <1>1, <2>1, ResolveType DEF Optional
    <2>4. Ensure(q, s) = q /\ s = Resolve(q, q.epoch)
      BY <1>1 DEF Ensure, SendSessions
    <2> QED
      BY <2>2, <2>3, <2>4 DEF RowOK
  <1>2. CASE Resolve(q, q.epoch) = None
    <2>1. s \in Session /\ s # None
      BY <1>2, PairSessionAssumption DEF SendSessions, None
    <2> DEFINE new == [q EXCEPT !.psk = s, !.init = TRUE]
    <2>2. new \in Row
      BY <2>1 DEF Row, Optional
    <2>3. /\ new.epoch = q.epoch
          /\ new.psk = s
          /\ new.restart = FALSE
          /\ new.retired = q.retired
      BY DEF Row
    <2>4. Ensure(q, s) = Save(q, new)
      BY <1>2 DEF Ensure
    <2> HIDE DEF new
    <2>5. /\ Save(q, new) \in Row
          /\ Save(q, new).epoch = new.epoch
          /\ Save(q, new).psk = new.psk
          /\ Save(q, new).restart = new.restart
          /\ Save(q, new).retired = new.retired
          /\ Save(q, new).seq = IF new.epoch = q.epoch THEN q.seq ELSE 1
      BY <2>2, SaveRow
    <2>6. Save(q, new).saved
      BY <2>2, SaveSaves
    <2>7. RowOK(Save(q, new))
      BY <2>1, <2>3, <2>5, <2>6 DEF RowOK
    <2>8. Resolve(Save(q, new), q.epoch) = s
      BY <2>1, <2>3, <2>5 DEF Resolve
    <2> QED
      BY <2>1, <2>3, <2>4, <2>5, <2>7, <2>8
  <1> QED
    BY <1>1, <1>2

\* Adopting a session moves the row to its epoch, where nothing is retired yet.
LEMMA AdoptRow ==
  ASSUME NEW r \in Row, NEW m \in Envelope,
         \A e \in Epoch : r.retired[e] # None => e < m.epoch
  PROVE  /\ Adopt(r, m) \in Row
         /\ RowOK(Adopt(r, m))
         /\ Adopt(r, m).epoch = m.epoch
         /\ Adopt(r, m).restart = r.restart
         /\ m.epoch = r.epoch => Adopt(r, m).seq = r.seq
  <1> DEFINE new == [r EXCEPT !.epoch = m.epoch,
                              !.psk = m.psk,
                              !.init = FALSE,
                              !.heard = m.ts]
  <1>1. m.epoch \in Epoch /\ m.psk \in Session /\ m.ts \in Nat
    BY DEF Envelope
  <1>2. m.psk # None
    BY <1>1, PairSessionAssumption DEF None
  <1>3. new \in Row
    BY <1>1 DEF Row, Optional
  <1>4. /\ new.epoch = m.epoch
        /\ new.psk = m.psk
        /\ new.restart = r.restart
        /\ new.retired = r.retired
    BY DEF Row
  <1>5. Adopt(r, m) = Save(r, new)
    BY DEF Adopt
  <1> HIDE DEF new
  <1>6. /\ Save(r, new) \in Row
        /\ Save(r, new).epoch = new.epoch
        /\ Save(r, new).psk = new.psk
        /\ Save(r, new).restart = new.restart
        /\ Save(r, new).retired = new.retired
        /\ Save(r, new).seq = IF new.epoch = r.epoch THEN r.seq ELSE 1
    BY <1>3, SaveRow
  <1>7. Save(r, new).saved
    BY <1>3, SaveSaves
  <1>8. RowOK(Save(r, new))
    BY <1>2, <1>4, <1>6, <1>7 DEF RowOK
  <1> QED
    BY <1>4, <1>5, <1>6, <1>8

\* What a row q that replaces r may not do: go back an epoch, number anew in
\* the same one, or forget that a restart is pending.
Continues(r, q) ==
  /\ q \in Row
  /\ RowOK(q)
  /\ r.epoch <= q.epoch
  /\ q.restart = r.restart
  /\ q.epoch = r.epoch => q.seq = r.seq

\* Hearing the peer confirms the session and changes nothing else.
LEMMA HeardRow ==
  ASSUME NEW r \in Row, RowOK(r), r.psk # None, NEW ts \in Nat
  PROVE  LET heard == NoteHeard(r, ts)
             saved == Save(r, [heard EXCEPT !.init = FALSE])
         IN  /\ Continues(r, heard)
             /\ Continues(r, saved)
  <1> DEFINE heard == NoteHeard(r, ts)
             new   == [heard EXCEPT !.init = FALSE]
  <1>1. heard \in Row /\ new \in Row
    BY DEF NoteHeard, Row, None
  <1>2. /\ heard.epoch = r.epoch
        /\ heard.psk = r.psk
        /\ heard.seq = r.seq
        /\ heard.restart = r.restart
        /\ heard.retired = r.retired
    BY DEF NoteHeard, Row
  <1>3. heard.saved = r.saved
    BY DEF NoteHeard, Row
  <1>4. /\ new.epoch = heard.epoch
        /\ new.psk = heard.psk
        /\ new.restart = heard.restart
        /\ new.retired = heard.retired
    BY <1>1 DEF Row
  <1>5. RowOK(heard)
    BY <1>2, <1>3 DEF RowOK
  <1> HIDE DEF heard, new
  <1>6. /\ Save(r, new) \in Row
        /\ Save(r, new).epoch = new.epoch
        /\ Save(r, new).psk = new.psk
        /\ Save(r, new).restart = new.restart
        /\ Save(r, new).retired = new.retired
        /\ Save(r, new).seq = IF new.epoch = r.epoch THEN r.seq ELSE 1
    BY <1>1, SaveRow
  <1>7. Save(r, new).saved
    BY <1>1, SaveSaves
  <1>8. RowOK(Save(r, new))
    BY <1>2, <1>4, <1>6, <1>7 DEF RowOK
  <1> QED
    <2>1. r.epoch \in Nat /\ r.epoch <= r.epoch
      BY DEF Row, Epoch
    <2>2. Continues(r, heard)
      BY <1>1, <1>2, <1>5, <2>1 DEF Continues
    <2>3. Continues(r, Save(r, new))
      BY <1>2, <1>4, <1>6, <1>8, <2>1 DEF Continues
    <2> QED
      BY <2>2, <2>3 DEF heard, new

\* Whatever envelope it reads, ReconcileE2ePublicSession never goes back an
\* epoch, and keeps the row's number and restart mark within one.
LEMMA ReconcileRow ==
  ASSUME NEW r \in Row, RowOK(r), NEW m \in Envelope
  PROVE  Continues(r, Reconcile(r, m))
  <1>1. /\ r.epoch \in Epoch /\ m.epoch \in Epoch
        /\ Epoch \subseteq Nat
        /\ m.psk \in Session /\ m.psk # None
        /\ m.ts \in Nat
    BY PairSessionAssumption DEF Row, Envelope, Epoch, None
  <1>2. CASE Reconcile(r, m) = r
    <2>1. r.epoch <= r.epoch
      BY DEF Row, Epoch
    <2> QED
      BY <1>2, <2>1 DEF Continues
  <1>3. CASE r.psk # None /\ r.epoch < m.epoch /\ ReadsKeyInit(r, m)
    <2>1. Reconcile(r, m) = Adopt(Retire(r, r.epoch), m)
      BY <1>1, <1>3 DEF Reconcile
    <2> DEFINE old == Retire(r, r.epoch)
    <2>2. /\ old \in Row
          /\ \A e \in Epoch : e # r.epoch => old.retired[e] = r.retired[e]
      BY <1>1, RetireRow
    <2>3. /\ old.epoch = r.epoch
          /\ old.restart = r.restart
      BY <1>1 DEF Retire, Row
    <2>4. \A e \in Epoch : old.retired[e] # None => e < m.epoch
      BY <1>1, <1>3, <2>2 DEF RowOK, Epoch
    <2> HIDE DEF old
    <2>5. /\ Adopt(old, m) \in Row
          /\ RowOK(Adopt(old, m))
          /\ Adopt(old, m).epoch = m.epoch
          /\ Adopt(old, m).restart = old.restart
      BY <2>2, <2>4, AdoptRow
    <2>6. r.epoch <= m.epoch /\ m.epoch # r.epoch
      BY <1>3 DEF Row, Envelope, Epoch
    <2>7. Continues(r, Adopt(old, m))
      BY <2>3, <2>5, <2>6 DEF Continues
    <2> QED
      BY <2>1, <2>7 DEF old
  <1>4. CASE r.psk = None \/ r.epoch = m.epoch
    <2>1. CASE r.psk = None
      <3>1. /\ \A e \in Epoch : r.retired[e] = None
            /\ r.epoch = 1
        BY <2>1 DEF RowOK, NoRow
      <3>2. Reconcile(r, m) = Adopt(r, m)
        BY <1>1, <2>1, <3>1 DEF Reconcile, ReadsStored, Resolve, WinsTie, IsStaleOpener
      <3>3. 1 <= m.epoch
        BY <1>1 DEF Epoch
      <3>4. /\ Adopt(r, m) \in Row
            /\ RowOK(Adopt(r, m))
            /\ Adopt(r, m).epoch = m.epoch
            /\ Adopt(r, m).restart = r.restart
            /\ m.epoch = r.epoch => Adopt(r, m).seq = r.seq
        BY <3>1, AdoptRow
      <3> QED
        BY <3>1, <3>2, <3>3, <3>4 DEF Continues
    <2>2. CASE r.psk # None /\ r.epoch = m.epoch
      <3>1. CASE ReadsStored(r, m)
        <4>1. Reconcile(r, m) = Save(r, [NoteHeard(r, m.ts) EXCEPT !.init = FALSE])
          BY <1>1, <2>2, <3>1 DEF Reconcile
        <4> QED
          BY <1>1, <2>2, <4>1, HeardRow
      <3>2. CASE ~ReadsStored(r, m) /\ r.psk = m.psk
        <4>1. Reconcile(r, m) = NoteHeard(r, m.ts)
          BY <1>1, <2>2, <3>2 DEF Reconcile
        <4> QED
          BY <1>1, <2>2, <4>1, HeardRow
      <3>3. CASE /\ ~ReadsStored(r, m) /\ r.psk # m.psk
                 /\ ~(WinsTie(r, m) \/ IsStaleOpener(r, m))
        <4>1. Reconcile(r, m) = Adopt(r, m)
          BY <1>1, <2>2, <3>3 DEF Reconcile
        <4>2. \A e \in Epoch : r.retired[e] # None => e < m.epoch
          BY <2>2 DEF RowOK
        <4>3. /\ Adopt(r, m) \in Row
              /\ RowOK(Adopt(r, m))
              /\ Adopt(r, m).epoch = m.epoch
              /\ Adopt(r, m).restart = r.restart
              /\ m.epoch = r.epoch => Adopt(r, m).seq = r.seq
          BY <4>2, AdoptRow
        <4>4. r.epoch <= m.epoch
          BY <1>1, <2>2
        <4> QED
          BY <2>2, <4>1, <4>3, <4>4 DEF Continues
      <3>4. CASE ~ReadsStored(r, m) /\ r.psk # m.psk /\ (WinsTie(r, m) \/ IsStaleOpener(r, m))
        BY <1>1, <1>2, <2>2, <3>4 DEF Reconcile
      <3> QED
        BY <3>1, <3>2, <3>3, <3>4
    <2> QED
      BY <1>4, <2>1, <2>2
  <1>5. CASE r.psk # None /\ r.epoch # m.epoch /\ ~(r.epoch < m.epoch /\ ReadsKeyInit(r, m))
    <2>1. Reconcile(r, m) = r
      BY <1>1, <1>5 DEF Reconcile
    <2> QED
      BY <1>2, <2>1
  <1> QED
    BY <1>1, <1>3, <1>4, <1>5

-----------------------------------------------------------------------------
(***************************************************************************)
(* Every step keeps the invariant.                                         *)
(***************************************************************************)

\* Whatever was numbered under r stays behind the next number of q.
Outruns(r, q) ==
  /\ r.epoch <= q.epoch
  /\ (q.epoch = r.epoch /\ ~q.restart) => (~r.restart /\ r.seq <= q.seq)

\* No device goes back an epoch.
Advance == \A e \in Device : row[e].epoch <= row'[e].epoch

\* A row that continues another outruns it.
LEMMA ContinuesOutruns ==
  ASSUME NEW r \in Row, NEW q, Continues(r, q)
  PROVE  q \in Row /\ RowOK(q) /\ Outruns(r, q)
  <1>1. r.seq \in Nat /\ r.seq <= r.seq
    BY DEF Row
  <1> QED
    BY <1>1 DEF Continues, Outruns

\* A step that sends nothing and replaces d's row by one that outruns it.
LEMMA QuietStep ==
  ASSUME Inv, TypeOK', mailbox' = mailbox,
         NEW d \in Device, NEW q \in Row, row' = [row EXCEPT ![d] = q],
         RowOK(q), Outruns(row[d], q)
  PROVE  Inv' /\ Advance
  <1>1. /\ row'[d] = q
        /\ \A e \in Device : e # d => row'[e] = row[e]
        /\ row[d] \in Row
    BY DEF Inv, TypeOK
  <1>2. \A e \in Device : RowOK(row'[e])
    BY <1>1 DEF Inv
  <1>3. \A e \in Device : NumbersAhead(e)'
    <2>1. NumbersAhead(d)'
      <3> SUFFICES ASSUME NEW m \in mailbox, m.from = d
                   PROVE  /\ m.epoch <= q.epoch
                          /\ (m.epoch = q.epoch /\ ~q.restart) => m.seq < q.seq
        BY <1>1 DEF NumbersAhead
      <3>1. /\ m.epoch \in Nat /\ m.seq \in Nat
            /\ row[d].epoch \in Nat /\ row[d].seq \in Nat
            /\ q.epoch \in Nat /\ q.seq \in Nat
        <4>1. m \in Envelope
          BY DEF Inv, TypeOK
        <4> QED
          BY <1>1, <4>1 DEF Envelope, Row, Epoch
      <3>2. /\ m.epoch <= row[d].epoch
            /\ (m.epoch = row[d].epoch /\ ~row[d].restart) => m.seq < row[d].seq
        BY DEF Inv, NumbersAhead
      <3> QED
        BY <3>1, <3>2 DEF Outruns
    <2>2. ASSUME NEW e \in Device, e # d
          PROVE  NumbersAhead(e)'
      BY <1>1, <2>2 DEF Inv, NumbersAhead
    <2> QED
      BY <2>1, <2>2
  <1>4. NeverRewinds'
    BY DEF Inv, NeverRewinds
  <1>5. Advance
    <2>1. \A e \in Device : row[e].epoch <= row[e].epoch
      BY DEF Inv, TypeOK, Row, Epoch
    <2> QED
      BY <1>1, <2>1 DEF Advance, Outruns
  <1> QED
    BY <1>2, <1>3, <1>4, <1>5 DEF Inv

\* What d writes next is numbered past everything it sent (SealPairCopy).
LEMMA ReadyRow ==
  ASSUME Inv, NEW d \in Device, HasNextEpoch(d),
         NEW s \in SendSessions(RestartIfRestored(row[d]))
  PROVE  LET ready == Ensure(RestartIfRestored(row[d]), s)
         IN  /\ s \in Session
             /\ ready \in Row
             /\ RowOK(ready)
             /\ ready.restart = FALSE
             /\ ready.psk # None
             /\ Resolve(ready, ready.epoch) \in Session
             /\ Outruns(row[d], ready)
  <1> DEFINE r == row[d]
             q == RestartIfRestored(r)
             ready == Ensure(q, s)
  <1>1. r \in Row /\ RowOK(r)
    BY DEF Inv, TypeOK
  <1>2. /\ r.epoch \in Nat /\ r.seq \in Nat
        /\ r.epoch <= r.epoch /\ r.seq <= r.seq
        /\ r.epoch < r.epoch + 1 /\ r.epoch # r.epoch + 1 /\ r.epoch <= r.epoch + 1
    BY <1>1 DEF Row, Epoch
  <1>3. r.restart => r.epoch + 1 \in Epoch
    BY <1>1, PairSessionAssumption DEF HasNextEpoch, Row, Epoch
  <1> HIDE DEF r
  <1>4. /\ q \in Row
        /\ q.restart = FALSE
        /\ q.psk # None => q.saved
        /\ \A e \in Epoch : q.retired[e] # None => e < q.epoch
        /\ \/ q.epoch = r.epoch + 1 /\ q.seq = 1
           \/ q = r
    BY <1>1, <1>3, SendRow
  <1>5. s \in SendSessions(q)
    BY DEF r
  <1> HIDE DEF q
  <1>6. /\ s \in Session
        /\ ready \in Row
        /\ RowOK(ready)
        /\ ready.epoch = q.epoch
        /\ ready.seq = q.seq
        /\ ready.restart = FALSE
        /\ ready.psk # None
        /\ Resolve(ready, ready.epoch) \in Session
    BY <1>4, <1>5, EnsureRow
  <1> HIDE DEF ready
  <1>7. Outruns(r, ready)
    BY <1>2, <1>4, <1>6 DEF Outruns
  <1> QED
    BY <1>6, <1>7 DEF ready, q, r

\* Sending keeps the invariant: the new envelope takes a number of its own.
LEMMA SendStep ==
  ASSUME Inv, NEW d \in Device, Send(d)
  PROVE  Inv' /\ Advance
  <1> DEFINE r == row[d]
             q == RestartIfRestored(r)
  <1>1. PICK s \in SendSessions(q), ts \in {clock[d], clock[d] + 1} :
          /\ ts \in 1..MaxTime
          /\ row' = [row EXCEPT ![d] = [Ensure(q, s) EXCEPT !.seq = @ + 1]]
          /\ mailbox' = mailbox \cup {Sealed(d, Ensure(q, s), ts)}
          /\ opened' = opened \cup {s}
          /\ clock' = [clock EXCEPT ![d] = ts]
    BY DEF Send
  <1> DEFINE ready == Ensure(q, s)
             m == Sealed(d, ready, ts)
             next == [ready EXCEPT !.seq = @ + 1]
  <1>2. /\ s \in Session
        /\ ready \in Row
        /\ RowOK(ready)
        /\ ready.restart = FALSE
        /\ ready.psk # None
        /\ Resolve(ready, ready.epoch) \in Session
        /\ Outruns(r, ready)
    BY <1>1, ReadyRow DEF Send
  <1>3. /\ r \in Row /\ RowOK(r)
        /\ row \in [Device -> Row]
        /\ mailbox \subseteq Envelope
        /\ sent \in [Device -> Nat]
        /\ clock \in [Device -> Nat]
        /\ ts \in Nat
    BY <1>1, PairSessionAssumption DEF Inv, TypeOK
  <1>4. /\ row' = [row EXCEPT ![d] = next]
        /\ mailbox' = mailbox \cup {m}
    BY <1>1
  <1> HIDE DEF q, ready
  <1>5. /\ m \in Envelope
        /\ m.from = d
        /\ m.epoch = ready.epoch
        /\ m.seq = ready.seq
    BY <1>2, <1>3 DEF Sealed, Envelope, Row
  <1>6. /\ next \in Row
        /\ RowOK(next)
        /\ next.epoch = ready.epoch
        /\ next.seq = ready.seq + 1
    BY <1>2 DEF Row, RowOK, NoRow
  <1> HIDE DEF m, next
  <1>7. TypeOK'
    <2>1. row' \in [Device -> Row] /\ mailbox' \subseteq Envelope
      BY <1>3, <1>4, <1>5, <1>6
    <2>2. thread' \in [Device -> BOOLEAN]
      BY DEF Send, Inv, TypeOK
    <2>3. opened' \subseteq Session /\ clock' \in [Device -> Nat]
      BY <1>1, <1>2, <1>3 DEF Inv, TypeOK
    <2>4. sent' \in [Device -> Nat]
      BY <1>3 DEF Send
    <2>5. stored' \in [Device -> SUBSET Envelope] /\ faults' \in Nat
      BY DEF Send, Inv, TypeOK
    <2> QED
      BY <2>1, <2>2, <2>3, <2>4, <2>5 DEF TypeOK
  <1>8. /\ row'[d] = next
        /\ \A e \in Device : e # d => row'[e] = row[e]
    BY <1>3, <1>4
  <1>9. /\ ready.epoch \in Nat /\ ready.seq \in Nat
        /\ r.epoch \in Nat /\ r.seq \in Nat
    BY <1>2, <1>3 DEF Row, Epoch
  <1>10. ASSUME NEW k \in mailbox, k.from = d
         PROVE  /\ k.epoch <= ready.epoch
                /\ k.epoch = ready.epoch => k.seq < ready.seq
    <2>1. k \in Envelope
      BY <1>3
    <2>2. k.epoch \in Nat /\ k.seq \in Nat
      BY <2>1 DEF Envelope, Epoch
    <2>3. /\ k.epoch <= r.epoch
          /\ (k.epoch = r.epoch /\ ~r.restart) => k.seq < r.seq
      BY <1>10 DEF Inv, NumbersAhead
    <2> QED
      BY <1>2, <1>9, <2>2, <2>3 DEF Outruns
  <1>11. \A e \in Device : RowOK(row'[e])
    BY <1>6, <1>8 DEF Inv
  <1>12. NumbersAhead(d)'
    <2> SUFFICES ASSUME NEW k \in mailbox', k.from = d
                 PROVE  k.epoch <= next.epoch /\ (k.epoch = next.epoch => k.seq < next.seq)
      BY <1>8 DEF NumbersAhead
    <2>1. CASE k \in mailbox
      <3>1. k \in Envelope
        BY <1>3, <2>1
      <3>2. k.epoch \in Nat /\ k.seq \in Nat
        BY <3>1 DEF Envelope, Epoch
      <3> QED
        BY <1>6, <1>9, <1>10, <2>1, <3>2
    <2>2. CASE k = m
      BY <1>5, <1>6, <1>9, <2>2
    <2> QED
      BY <1>4, <2>1, <2>2
  <1>13. ASSUME NEW e \in Device, e # d
         PROVE  NumbersAhead(e)'
    BY <1>4, <1>5, <1>8, <1>13 DEF Inv, NumbersAhead
  <1>14. NeverRewinds'
    <2> SUFFICES ASSUME NEW k \in mailbox', NEW l \in mailbox',
                        k.from = l.from, k.epoch = l.epoch, k.seq = l.seq
                 PROVE  k = l
      BY DEF NeverRewinds
    <2>1. CASE k \in mailbox /\ l \in mailbox
      BY <2>1 DEF Inv, NeverRewinds
    <2>2. ASSUME NEW old \in mailbox,
                 old.from = m.from, old.epoch = m.epoch, old.seq = m.seq
          PROVE  FALSE
      <3>1. old.seq < ready.seq
        BY <1>5, <1>10, <2>2
      <3> QED
        BY <1>5, <1>9, <2>2, <3>1
    <2> QED
      BY <1>4, <2>1, <2>2
  <1>15. Advance
    <2>1. \A e \in Device : row[e].epoch <= row[e].epoch
      BY DEF Inv, TypeOK, Row, Epoch
    <2> QED
      BY <1>2, <1>6, <1>8, <2>1 DEF Advance, Outruns
  <1> QED
    BY <1>7, <1>11, <1>12, <1>13, <1>14, <1>15 DEF Inv

\* A send that dies with its number unused keeps the invariant.
LEMMA DieInSendStep ==
  ASSUME Inv, NEW d \in Device, DieInSend(d)
  PROVE  Inv' /\ Advance
  <1> DEFINE q == RestartIfRestored(row[d])
  <1>1. PICK s \in SendSessions(q), used \in {0, 1} :
          /\ row' = [row EXCEPT ![d] = [Ensure(q, s) EXCEPT !.seq = @ + used]]
          /\ opened' = opened \cup {s}
    BY DEF DieInSend
  <1> DEFINE ready == Ensure(q, s)
             next == [ready EXCEPT !.seq = @ + used]
  <1>2. /\ s \in Session
        /\ ready \in Row
        /\ RowOK(ready)
        /\ ready.restart = FALSE
        /\ ready.psk # None
        /\ Outruns(row[d], ready)
    BY <1>1, ReadyRow DEF DieInSend
  <1>3. row' = [row EXCEPT ![d] = next]
    BY <1>1
  <1>4. row \in [Device -> Row] /\ row[d] \in Row
    BY DEF Inv, TypeOK
  <1> HIDE DEF q, ready
  <1>5. /\ next \in Row
        /\ RowOK(next)
        /\ next.epoch = ready.epoch
        /\ next.seq = ready.seq + used
    BY <1>2 DEF Row, RowOK, NoRow
  <1>6. /\ ready.seq \in Nat /\ row[d].seq \in Nat
        /\ used \in Nat
    BY <1>2, <1>4 DEF Row
  <1>7. next.restart = FALSE
    BY <1>2 DEF Row
  <1> HIDE DEF next
  <1>8. Outruns(row[d], next)
    BY <1>2, <1>5, <1>6, <1>7 DEF Outruns
  <1>9. TypeOK'
    <2>1. row' \in [Device -> Row]
      BY <1>3, <1>4, <1>5
    <2>2. thread' \in [Device -> BOOLEAN]
      BY DEF DieInSend, Inv, TypeOK
    <2>3. opened' \subseteq Session
      BY <1>1, <1>2 DEF Inv, TypeOK
    <2>4. /\ stored' \in [Device -> SUBSET Envelope]
          /\ mailbox' \subseteq Envelope
          /\ clock' \in [Device -> Nat]
          /\ sent' \in [Device -> Nat]
          /\ faults' \in Nat
      BY DEF DieInSend, Fault, Inv, TypeOK
    <2> QED
      BY <2>1, <2>2, <2>3, <2>4 DEF TypeOK
  <1> QED
    BY <1>3, <1>5, <1>8, <1>9, QuietStep DEF DieInSend

\* Reading an envelope keeps the row in shape.
LEMMA ReadRow ==
  ASSUME Inv, NEW d \in Device, NEW m \in mailbox, Read(d, m)
  PROVE  /\ Continues(row[d], Reconcile(row[d], m))
         /\ row' \in [Device -> Row]
         /\ row' = [row EXCEPT ![d] = Reconcile(row[d], m)]
  <1>1. /\ row \in [Device -> Row]
        /\ row[d] \in Row
        /\ RowOK(row[d])
        /\ m \in Envelope
    BY DEF Inv, TypeOK
  <1>2. Continues(row[d], Reconcile(row[d], m))
    BY <1>1, ReconcileRow
  <1>3. row' = [row EXCEPT ![d] = Reconcile(row[d], m)]
    BY DEF Read
  <1> QED
    BY <1>1, <1>2, <1>3 DEF Continues

\* Receiving keeps the invariant, whatever is received and how often.
LEMMA ReceiveStep ==
  ASSUME Inv, NEW d \in Device, Receive(d)
  PROVE  Inv' /\ Advance
  <1>1. PICK m \in mailbox :
          /\ Read(d, m)
          /\ stored' = [stored EXCEPT ![d] = IF Kept(d, m) THEN @ \cup {m} ELSE @]
          /\ thread' = [thread EXCEPT ![d] = TRUE]
          /\ UNCHANGED <<mailbox, opened, clock, sent, faults>>
    BY DEF Receive
  <1>2. /\ Continues(row[d], Reconcile(row[d], m))
        /\ row' \in [Device -> Row]
        /\ row' = [row EXCEPT ![d] = Reconcile(row[d], m)]
    BY <1>1, ReadRow
  <1>3. TypeOK'
    <2>1. m \in Envelope
      BY DEF Inv, TypeOK
    <2>2. thread' \in [Device -> BOOLEAN]
      BY <1>1 DEF Inv, TypeOK
    <2>3. stored' \in [Device -> SUBSET Envelope]
      BY <1>1, <2>1 DEF Inv, TypeOK
    <2>4. /\ mailbox' \subseteq Envelope
          /\ opened' \subseteq Session
          /\ clock' \in [Device -> Nat]
          /\ sent' \in [Device -> Nat]
          /\ faults' \in Nat
      BY <1>1 DEF Inv, TypeOK
    <2> QED
      BY <1>2, <2>2, <2>3, <2>4 DEF TypeOK
  <1>4. row[d] \in Row
    BY DEF Inv, TypeOK
  <1> QED
    BY <1>1, <1>2, <1>3, <1>4, ContinuesOutruns, QuietStep

\* So does receiving half of it.
LEMMA DieInReceiveStep ==
  ASSUME Inv, NEW d \in Device, DieInReceive(d)
  PROVE  Inv' /\ Advance
  <1>1. PICK m \in mailbox : Read(d, m)
    BY DEF DieInReceive
  <1>2. /\ Continues(row[d], Reconcile(row[d], m))
        /\ row' \in [Device -> Row]
        /\ row' = [row EXCEPT ![d] = Reconcile(row[d], m)]
    BY <1>1, ReadRow
  <1>3. TypeOK'
    <2>1. thread' \in [Device -> BOOLEAN]
      BY DEF DieInReceive, Inv, TypeOK
    <2>2. /\ stored' \in [Device -> SUBSET Envelope]
          /\ mailbox' \subseteq Envelope
          /\ opened' \subseteq Session
          /\ clock' \in [Device -> Nat]
          /\ sent' \in [Device -> Nat]
          /\ faults' \in Nat
      BY DEF DieInReceive, Fault, Inv, TypeOK
    <2> QED
      BY <1>2, <2>1, <2>2 DEF TypeOK
  <1>4. row[d] \in Row /\ mailbox' = mailbox
    BY DEF Inv, TypeOK, DieInReceive
  <1> QED
    BY <1>2, <1>3, <1>4, ContinuesOutruns, QuietStep

\* The row a chat reset puts back is a row.
LEMMA VoidRow ==
  ASSUME NEW r \in Row
  PROVE  [r EXCEPT !.restart = TRUE, !.seq = 1] \in Row
  <1>1. [r EXCEPT !.seq = 1] \in Row
    BY DEF Row
  <1>2. ASSUME NEW q \in Row
        PROVE  [q EXCEPT !.restart = TRUE] \in Row
    BY DEF Row
  <1>3. [r EXCEPT !.restart = TRUE, !.seq = 1] = [[r EXCEPT !.seq = 1] EXCEPT !.restart = TRUE]
    BY DEF Row
  <1> QED
    BY <1>1, <1>2, <1>3

\* A chat reset voids the row's numbers, it does not reuse them.
LEMMA ResetStep ==
  ASSUME Inv, NEW d \in Device, ResetChats(d)
  PROVE  Inv' /\ Advance
  <1> DEFINE r == row[d]
             q == PutBack(r)
  <1>1. /\ row \in [Device -> Row]
        /\ r \in Row
        /\ RowOK(r)
    BY DEF Inv, TypeOK
  <1>2. row' = [row EXCEPT ![d] = q]
    BY DEF ResetChats
  <1>3. q \in Row /\ RowOK(q) /\ Outruns(r, q)
    <2>1. r.epoch \in Nat /\ r.seq \in Nat /\ r.epoch <= r.epoch /\ r.seq <= r.seq
      BY <1>1 DEF Row, Epoch
    <2>2. CASE r.psk = None
      <3>1. q = r /\ r = NoRow
        BY <1>1, <2>2 DEF PutBack, RowOK
      <3>2. NoRow.restart = FALSE
        BY DEF NoRow
      <3> QED
        BY <1>1, <2>1, <3>1, <3>2 DEF Outruns
    <2>3. CASE r.psk # None
      <3> DEFINE put == [r EXCEPT !.restart = TRUE, !.seq = 1]
      <3>1. q = put
        BY <2>3 DEF PutBack
      <3>2. put \in Row
        BY <1>1, VoidRow
      <3>3. /\ put.epoch = r.epoch
            /\ put.psk = r.psk
            /\ put.retired = r.retired
        BY <1>1 DEF Row
      <3>4. put.saved = r.saved
        BY <1>1 DEF Row
      <3>5. put.restart = TRUE
        BY <1>1 DEF Row
      <3>6. RowOK(put)
        <4> HIDE DEF put
        <4> QED
          BY <1>1, <2>3, <3>3, <3>4 DEF RowOK
      <3>7. Outruns(r, put)
        <4> HIDE DEF put
        <4> QED
          BY <2>1, <3>3, <3>5 DEF Outruns
      <3> QED
        BY <3>1, <3>2, <3>6, <3>7
    <2> QED
      BY <2>2, <2>3
  <1> HIDE DEF q
  <1>4. TypeOK'
    <2>1. row' \in [Device -> Row]
      BY <1>1, <1>2, <1>3
    <2>2. thread' \in [Device -> BOOLEAN]
      BY DEF ResetChats, ClearChats, Inv, TypeOK
    <2>3. /\ stored' \in [Device -> SUBSET Envelope]
          /\ mailbox' \subseteq Envelope
          /\ opened' \subseteq Session
          /\ clock' \in [Device -> Nat]
          /\ sent' \in [Device -> Nat]
          /\ faults' \in Nat
      BY DEF ResetChats, ClearChats, Fault, Inv, TypeOK
    <2> QED
      BY <2>1, <2>2, <2>3 DEF TypeOK
  <1> QED
    BY <1>2, <1>3, <1>4, QuietStep DEF ResetChats, ClearChats

\* The invariant holds at the start.
LEMMA InitInv ==
  Init => Inv
  <1> SUFFICES ASSUME Init
               PROVE  Inv
    OBVIOUS
  <1>1. NoRow \in Row
    BY PairSessionAssumption DEF NoRow, Row, Optional, Epoch, None
  <1>2. RowOK(NoRow)
    BY DEF RowOK, NoRow
  <1>3. TypeOK
    BY <1>1 DEF Init, TypeOK
  <1> QED
    BY <1>2, <1>3 DEF Init, Inv, NumbersAhead, NeverRewinds

\* A step keeps the invariant and takes no device back an epoch.
LEMMA NextInv ==
  Inv /\ [Next]_vars => Inv' /\ Advance
  <1> SUFFICES ASSUME Inv, [Next]_vars
               PROVE  Inv' /\ Advance
    OBVIOUS
  <1>1. ASSUME NEW d \in Device, Send(d)
        PROVE  Inv' /\ Advance
    BY <1>1, SendStep
  <1>2. ASSUME NEW d \in Device, DieInSend(d)
        PROVE  Inv' /\ Advance
    BY <1>2, DieInSendStep
  <1>3. ASSUME NEW d \in Device, Receive(d)
        PROVE  Inv' /\ Advance
    BY <1>3, ReceiveStep
  <1>4. ASSUME NEW d \in Device, DieInReceive(d)
        PROVE  Inv' /\ Advance
    BY <1>4, DieInReceiveStep
  <1>5. ASSUME NEW d \in Device, ResetChats(d)
        PROVE  Inv' /\ Advance
    BY <1>5, ResetStep
  <1>6. CASE UNCHANGED vars
    <2>1. Inv'
      BY <1>6 DEF vars, Inv, TypeOK, NumbersAhead, NeverRewinds
    <2>2. \A e \in Device : row[e].epoch <= row[e].epoch
      BY DEF Inv, TypeOK, Row, Epoch
    <2> QED
      BY <1>6, <2>1, <2>2 DEF vars, Advance
  <1> QED
    BY <1>1, <1>2, <1>3, <1>4, <1>5, <1>6 DEF Next

-----------------------------------------------------------------------------
(***************************************************************************)
(* Why no pair locks itself out.  Each device opens at most one session in *)
(* an epoch.  When both open one there, only the device with the higher    *)
(* one moves to the other's (WinsTie), and a session that was confirmed is *)
(* not given up for an opener signed before that (IsStaleOpener): so of    *)
(* two devices at most one moves, and the other holds what it moved to.    *)
(* The facts are stated of any rows rw, envelopes mb, opened sessions op   *)
(* and clocks ck, because a send takes two of the steps below at once.     *)
(***************************************************************************)

\* The session d holds for epoch e, the current one or the retired one.
Holds(rw, d, e) == Resolve(rw[d], e)

\* An opener is an envelope with key_init; d sealed m as one at epoch e.
IsOpenerOf(m, d, e) == m.from = d /\ m.init /\ m.epoch = e

\* d sealed an opener of session s at epoch e.
Opener(mb, d, e, s) == \E m \in mb : IsOpenerOf(m, d, e) /\ m.psk = s

\* A session with key_init pending was not heard under; any other was adopted
\* from an opener, or heard of from a peer that adopted it.
RowsFit(rw, mb, op) ==
  \A d \in Device :
    /\ rw[d].init => rw[d].psk # None /\ rw[d].heard = None
    /\ rw[d].psk # None => rw[d].psk \in op
    /\ (rw[d].psk # None /\ ~rw[d].init) =>
         \E x \in Device : Opener(mb, x, rw[d].epoch, rw[d].psk)

\* An envelope is of an opened session, whose opener was sealed by then.
MailFits(rw, mb, op, ck) ==
  \A m \in mb :
    /\ m.psk \in op
    /\ rw[m.from].psk # None
    /\ 1 <= m.ts /\ m.ts <= ck[m.from]
    /\ \E x \in Device : Opener(mb, x, m.epoch, m.psk)

\* A device opens one session in an epoch, and nobody else opens that one.
OneOpening(rw, mb) ==
  /\ \A m, k \in mb : (m.init /\ k.init) =>
       /\ (m.from = k.from /\ m.epoch = k.epoch) => m.psk = k.psk
       /\ m.from # k.from => m.psk # k.psk
  /\ \A m \in mb, d \in Device : (m.init /\ rw[d].init) =>
       /\ IsOpenerOf(m, d, rw[d].epoch) => m.psk = rw[d].psk
       /\ m.from # d => m.psk # rw[d].psk
  /\ \A d \in Device :
       (rw[d].init /\ rw[Peer(d)].init) => rw[d].psk # rw[Peer(d)].psk

\* Who opened a session holds it, or moved to a lower one of its peer.
OpenersHold(rw, mb) ==
  \A m \in mb : m.init =>
    \/ Holds(rw, m.from, m.epoch) = m.psk
    \/ /\ Holds(rw, m.from, m.epoch) < m.psk
       /\ Opener(mb, Peer(m.from), m.epoch, Holds(rw, m.from, m.epoch))

\* Who wrote under its peer's session holds that.
AdoptersStay(rw, mb) ==
  \A k \in mb :
    Opener(mb, Peer(k.from), k.epoch, k.psk) => Holds(rw, k.from, k.epoch) = k.psk

\* d's own session, heard under.
Confirmed(rw, mb, d) ==
  rw[d].psk # None /\ ~rw[d].init /\ Opener(mb, d, rw[d].epoch, rw[d].psk)

\* The peer holds a confirmed session, and its own openers are stale.
ConfirmedFits(rw, mb) ==
  \A d \in Device : Confirmed(rw, mb, d) =>
    /\ Holds(rw, Peer(d), rw[d].epoch) = rw[d].psk
    /\ \A m \in mb : IsOpenerOf(m, Peer(d), rw[d].epoch) => m.ts <= rw[d].heard

\* A device writes under its peer's session after it sealed its own openers.
InTime(mb) ==
  \A k, m \in mb :
    (Opener(mb, Peer(k.from), k.epoch, k.psk) /\ IsOpenerOf(m, k.from, k.epoch))
      => m.ts <= k.ts

Agrees(rw, mb, op, ck) ==
  /\ RowsFit(rw, mb, op)
  /\ MailFits(rw, mb, op, ck)
  /\ OneOpening(rw, mb)
  /\ OpenersHold(rw, mb)
  /\ AdoptersStay(rw, mb)
  /\ ConfirmedFits(rw, mb)
  /\ InTime(mb)

\* What the facts are stated of.
Typed(rw, mb, op, ck) ==
  /\ rw \in [Device -> Row]
  /\ \A d \in Device : RowOK(rw[d])
  /\ mb \subseteq Envelope
  /\ op \subseteq Session
  /\ ck \in [Device -> Nat]

\* The sessions agree in the state.
Agreement == Inv /\ Agrees(row, mailbox, opened, clock)

-----------------------------------------------------------------------------
(***************************************************************************)
(* What a step does to the session a row q holds in place of r.            *)
(***************************************************************************)

\* The session stays as it is.
SameSession(r, q) ==
  /\ q.epoch = r.epoch
  /\ q.psk = r.psk
  /\ q.init = r.init
  /\ q.heard = r.heard
  /\ q.retired = r.retired

\* Only the epoch q is in may hold another session than before.
HoldsElsewhere(r, q) == \A e \in Epoch : e # q.epoch => Resolve(q, e) = Resolve(r, e)

\* A session none of op is opened, in an epoch that has none.
Opens(r, q, op) ==
  /\ q.psk \in Session \ op
  /\ q.init
  /\ q.heard = None
  /\ Resolve(r, q.epoch) = None
  /\ HoldsElsewhere(r, q)

\* The session is heard under.
Confirms(r, q, m) ==
  /\ r.psk # None
  /\ r.psk = m.psk
  /\ r.epoch = m.epoch
  /\ q.epoch = r.epoch
  /\ q.psk = r.psk
  /\ ~q.init
  /\ q.heard >= r.heard /\ q.heard >= m.ts
  /\ q.retired = r.retired

\* The session m opens takes the place of none, or of one that must yield.
Adopts(r, q, m) ==
  /\ m.init
  /\ q.epoch = m.epoch
  /\ q.psk = m.psk
  /\ ~q.init
  /\ q.heard = m.ts
  /\ HoldsElsewhere(r, q)
  /\ \/ Resolve(r, m.epoch) = None
     \/ /\ r.epoch = m.epoch
        /\ r.psk # None
        /\ r.psk # m.psk
        /\ ~WinsTie(r, m)
        /\ ~IsStaleOpener(r, m)

\* A lookup finds the row's own session at its epoch, the retired one at any
\* other, and nothing past it.
LEMMA ResolveRow ==
  ASSUME NEW r \in Row, RowOK(r), NEW e \in Epoch
  PROVE  /\ e = r.epoch => Resolve(r, e) = r.psk
         /\ e # r.epoch => Resolve(r, e) = r.retired[e]
         /\ r.epoch < e => Resolve(r, e) = None
  <1>1. /\ r.epoch \in Nat /\ e \in Nat
        /\ r.retired[e] # None => e < r.epoch
    BY DEF RowOK, Row, Epoch
  <1> QED
    BY <1>1 DEF Resolve

\* Rows that hold the same sessions resolve alike.
LEMMA SameResolve ==
  ASSUME NEW r, NEW q, SameSession(r, q), NEW e
  PROVE  Resolve(q, e) = Resolve(r, e)
  BY DEF SameSession, Resolve

\* What Save leaves as the caller set it.
LEMMA SaveKeeps ==
  ASSUME NEW old \in Row, NEW new \in Row
  PROVE  SameSession(new, Save(old, new))
  <1> DEFINE n == IF new.epoch = old.epoch THEN old.seq ELSE 1
             s == [new EXCEPT !.saved = TRUE, !.seq = n]
  <1>1. /\ s.epoch = new.epoch
        /\ s.psk = new.psk
        /\ s.init = new.init
        /\ s.heard = new.heard
        /\ s.retired = new.retired
    <2> HIDE DEF n
    <2> QED  BY DEF Row
  <1>2. Save(old, new) = s
    BY DEF Save
  <1> HIDE DEF s
  <1> QED
    BY <1>1, <1>2 DEF SameSession

\* A chat reset puts the session back as it was.
LEMMA ResetMoves ==
  ASSUME NEW r \in Row, RowOK(r)
  PROVE  SameSession(r, PutBack(r))
  <1>1. CASE r.psk = None
    BY <1>1 DEF PutBack, RowOK, SameSession
  <1>2. CASE r.psk # None
    <2> DEFINE put == [r EXCEPT !.restart = TRUE, !.seq = 1]
    <2>1. put.epoch = r.epoch /\ put.psk = r.psk /\ put.init = r.init
      BY DEF Row
    <2>2. put.heard = r.heard /\ put.retired = r.retired
      BY DEF Row
    <2>3. PutBack(r) = put
      BY <1>2 DEF PutBack
    <2> HIDE DEF put
    <2> QED
      BY <2>1, <2>2, <2>3 DEF SameSession
  <1> QED
    BY <1>1, <1>2

\* A restart retires the session where it was held.
LEMMA RestartMoves ==
  ASSUME NEW r \in Row, RowOK(r), r.epoch + 1 \in Epoch
  PROVE  /\ Restart(r).heard = None
         /\ \A e \in Epoch :
              Resolve(Restart(r), e) = IF e = r.epoch + 1 THEN None ELSE Resolve(r, e)
  <1> DEFINE kept == IF r.psk # None THEN Retire(r, r.epoch) ELSE r
             new  == [kept EXCEPT !.epoch = r.epoch + 1,
                                  !.psk = None,
                                  !.init = FALSE,
                                  !.heard = None,
                                  !.restart = FALSE]
  <1>1. r.epoch \in Epoch
    BY DEF Row
  <1>2. /\ kept \in Row
        /\ \A e \in Epoch : e # r.epoch => kept.retired[e] = r.retired[e]
        /\ kept.retired[r.epoch] = r.psk
    <2>1. r.retired[r.epoch] = None
      BY <1>1 DEF RowOK, Epoch
    <2>2. CASE r.psk = None
      BY <2>1, <2>2
    <2>3. CASE r.psk # None
      <3>1. Retire(r, r.epoch).retired[r.epoch] = r.psk
        BY <1>1, <2>1 DEF Retire, Row
      <3> QED
        BY <1>1, <2>3, <3>1, RetireRow
    <2> QED
      BY <2>2, <2>3
  <1>3. new \in Row
    BY <1>2 DEF Row, Optional, None
  <1>4. /\ new.epoch = r.epoch + 1
        /\ new.psk = None
        /\ new.heard = None
        /\ new.retired = kept.retired
    BY <1>2 DEF Row
  <1>5. Restart(r) = Save(r, new)
    BY DEF Restart
  <1> HIDE DEF kept, new
  <1>6. \A e \in Epoch : Resolve(Save(r, new), e) = new.retired[e]
    BY <1>3, <1>4, SaveRow DEF Resolve
  <1>7. Restart(r).heard = None
    BY <1>3, <1>4, <1>5, SaveKeeps DEF SameSession
  <1> SUFFICES ASSUME NEW e \in Epoch
               PROVE  new.retired[e] = IF e = r.epoch + 1 THEN None ELSE Resolve(r, e)
    BY <1>5, <1>6, <1>7
  <1>8. e \in Nat /\ r.epoch \in Nat
    BY <1>1 DEF Epoch
  <1>9. CASE e = r.epoch
    BY <1>2, <1>4, <1>8, <1>9, ResolveRow
  <1>10. CASE e # r.epoch
    <2>1. new.retired[e] = Resolve(r, e)
      BY <1>2, <1>4, <1>10, ResolveRow
    <2>2. e = r.epoch + 1 => Resolve(r, e) = None
      BY <1>8, ResolveRow
    <2> QED
      BY <2>1, <2>2
  <1> QED
    BY <1>9, <1>10

\* A send keeps the session of its row or opens a fresh one, here or in the
\* next epoch, and s is what it sends under.
LEMMA ReadyMoves ==
  ASSUME NEW r \in Row, RowOK(r), r.restart => r.epoch + 1 \in Epoch,
         NEW s \in SendSessions(RestartIfRestored(r))
  PROVE  LET ready == Ensure(RestartIfRestored(r), s)
         IN  /\ ready.psk = s
             /\ SameSession(r, ready) \/ Opens(r, ready, opened)
  <1> DEFINE q == RestartIfRestored(r)
             ready == Ensure(q, s)
  <1>1. /\ q \in Row
        /\ q.restart = FALSE
        /\ q.psk # None => q.saved
        /\ \A e \in Epoch : q.retired[e] # None => e < q.epoch
    BY SendRow
  <1>2. q.epoch \in Epoch
    BY <1>1 DEF Row
  <1>3. /\ s \in SendSessions(q)
        /\ \/ q = r
           \/ /\ q.epoch = r.epoch + 1
              /\ q.psk = None
              /\ \A e \in Epoch :
                   Resolve(q, e) = IF e = r.epoch + 1 THEN None ELSE Resolve(r, e)
    <2>1. CASE r.saved /\ r.restart
      BY <2>1, RestartRow, RestartMoves DEF RestartIfRestored
    <2>2. CASE ~(r.saved /\ r.restart)
      BY <2>2 DEF RestartIfRestored
    <2> QED
      BY <2>1, <2>2
  <1> HIDE DEF q
  <1>4. Resolve(q, q.epoch) = q.psk
    BY <1>1, <1>2 DEF Resolve, Epoch
  <1>5. CASE q.psk # None
    <2>1. q = r /\ ready = q /\ s = q.psk
      BY <1>3, <1>4, <1>5 DEF Ensure, SendSessions
    <2> QED
      BY <2>1 DEF SameSession, q
  <1>6. CASE q.psk = None
    <2> DEFINE new == [q EXCEPT !.psk = s, !.init = TRUE]
    <2>1. s \in Session \ opened /\ s # None
      BY <1>3, <1>4, <1>6, PairSessionAssumption DEF SendSessions, None
    <2>2. ready = Save(q, new)
      BY <1>4, <1>6 DEF Ensure
    <2>3. new \in Row
      BY <1>1, <2>1 DEF Row, Optional
    <2>4. /\ new.epoch = q.epoch
          /\ new.psk = s
          /\ new.init = TRUE
          /\ new.heard = q.heard
          /\ new.retired = q.retired
      BY <1>1 DEF Row
    <2> HIDE DEF new
    <2>5. SameSession(new, ready)
      BY <1>1, <2>2, <2>3, SaveKeeps
    <2>6. q.heard = None
      <3>1. q = r => q = NoRow
        BY <1>6 DEF RowOK
      <3>2. q # r => q = Restart(r) /\ r.epoch + 1 \in Epoch
        BY DEF q, RestartIfRestored
      <3> QED
        BY <3>1, <3>2, RestartMoves DEF NoRow
    <2>7. \A e \in Epoch : e # q.epoch => Resolve(ready, e) = Resolve(q, e)
      BY <2>4, <2>5 DEF SameSession, Resolve
    <2>8. Resolve(r, q.epoch) = None
      BY <1>2, <1>3, <1>4, <1>6, ResolveRow DEF Epoch, Row
    <2>9. HoldsElsewhere(r, ready)
      BY <1>3, <2>4, <2>5, <2>7 DEF HoldsElsewhere, SameSession
    <2> HIDE DEF ready
    <2>10. Opens(r, ready, opened)
      BY <2>1, <2>4, <2>5, <2>6, <2>8, <2>9 DEF Opens, SameSession
    <2> QED
      BY <2>4, <2>5, <2>10 DEF SameSession, ready, q
  <1> QED
    BY <1>5, <1>6
\* What is adopted, and what the row held before it.
LEMMA AdoptMoves ==
  ASSUME NEW r \in Row, RowOK(r), NEW old \in Row, NEW m \in Envelope,
         \A e \in Epoch : old.retired[e] # None => e < m.epoch,
         \A e \in Epoch : e # m.epoch => Resolve(r, e) = old.retired[e]
  PROVE  LET q == Adopt(old, m)
         IN  /\ q.epoch = m.epoch
             /\ q.psk = m.psk
             /\ ~q.init
             /\ q.heard = m.ts
             /\ HoldsElsewhere(r, q)
  <1> DEFINE new == [old EXCEPT !.epoch = m.epoch,
                                !.psk = m.psk,
                                !.init = FALSE,
                                !.heard = m.ts]
  <1>1. m.epoch \in Epoch /\ m.psk \in Session /\ m.ts \in Nat
    BY DEF Envelope
  <1>2. new \in Row
    BY <1>1 DEF Row, Optional
  <1>3. /\ new.epoch = m.epoch
        /\ new.psk = m.psk
        /\ new.init = FALSE
        /\ new.heard = m.ts
        /\ new.retired = old.retired
    BY DEF Row
  <1>4. Adopt(old, m) = Save(old, new)
    BY DEF Adopt
  <1> HIDE DEF new
  <1>5. SameSession(new, Adopt(old, m))
    BY <1>2, <1>4, SaveKeeps
  <1>6. HoldsElsewhere(r, Adopt(old, m))
    BY <1>3, <1>5 DEF HoldsElsewhere, SameSession, Resolve
  <1> QED
    BY <1>3, <1>5, <1>6 DEF SameSession

\* What reading an envelope (ReconcileE2ePublicSession) does to the session.
LEMMA ReadMoves ==
  ASSUME NEW r \in Row, RowOK(r), NEW m \in Envelope, Readable(r, m)
  PROVE  LET q == Reconcile(r, m)
         IN  q = r \/ Confirms(r, q, m) \/ Adopts(r, q, m)
  <1>1. /\ r.epoch \in Epoch /\ m.epoch \in Epoch
        /\ Epoch \subseteq Nat
        /\ m.psk \in Session /\ m.psk # None
        /\ m.ts \in Nat /\ r.heard \in Nat
        /\ r.init \in BOOLEAN
    BY PairSessionAssumption DEF Row, Envelope, Epoch, None
  <1>2. CASE r.psk = None
    <2>1. r = NoRow
      BY <1>2 DEF RowOK
    <2>2. \A e \in Epoch : Resolve(r, e) = None /\ r.retired[e] = None
      BY <2>1 DEF Resolve, NoRow
    <2>3. m.init
      BY <1>1, <2>2 DEF Readable, ReadsStored, ReadsKeyInit
    <2>4. Reconcile(r, m) = Adopt(r, m)
      BY <1>1, <1>2, <2>2 DEF Reconcile, ReadsStored, WinsTie, IsStaleOpener
    <2>5. Adopts(r, Adopt(r, m), m)
      BY <1>1, <2>2, <2>3, AdoptMoves DEF Adopts
    <2> QED
      BY <2>4, <2>5
  <1>3. CASE r.psk # None /\ r.epoch < m.epoch
    <2>1. Resolve(r, m.epoch) = None
      BY <1>1, <1>3, ResolveRow
    <2>2. m.init /\ ReadsKeyInit(r, m)
      BY <1>1, <2>1 DEF Readable, ReadsStored, ReadsKeyInit
    <2>3. Reconcile(r, m) = Adopt(Retire(r, r.epoch), m)
      BY <1>1, <1>3, <2>2 DEF Reconcile
    <2> DEFINE old == Retire(r, r.epoch)
    <2>4. /\ old \in Row
          /\ \A e \in Epoch : e # r.epoch => old.retired[e] = r.retired[e]
      BY <1>1, RetireRow
    <2>5. old.retired[r.epoch] = r.psk
      <3>1. r.retired[r.epoch] = None
        BY <1>1 DEF RowOK, Epoch
      <3> QED
        BY <1>1, <3>1 DEF Retire, Row
    <2> HIDE DEF old
    <2>6. \A e \in Epoch : old.retired[e] # None => e < m.epoch
      BY <1>1, <1>3, <2>4 DEF RowOK, Epoch
    <2>7. \A e \in Epoch : Resolve(r, e) = old.retired[e]
      BY <2>4, <2>5, ResolveRow
    <2>8. Adopts(r, Adopt(old, m), m)
      BY <2>1, <2>2, <2>4, <2>6, <2>7, AdoptMoves DEF Adopts
    <2> QED
      BY <2>3, <2>8 DEF old
  <1>4. CASE r.psk # None /\ m.epoch < r.epoch
    BY <1>1, <1>4 DEF Reconcile
  <1>5. CASE r.psk # None /\ r.epoch = m.epoch
    <2>1. Resolve(r, m.epoch) = r.psk
      BY <1>1, <1>5, ResolveRow
    <2>2. CASE r.psk = m.psk
      <3> DEFINE heard == NoteHeard(r, m.ts)
                 new   == [heard EXCEPT !.init = FALSE]
      <3>1. Reconcile(r, m) = Save(r, new)
        BY <1>1, <1>5, <2>1, <2>2 DEF Reconcile, ReadsStored
      <3>2. heard \in Row
        BY <1>1 DEF NoteHeard, Row
      <3>3. /\ heard.epoch = r.epoch
            /\ heard.psk = r.psk
            /\ heard.heard >= r.heard /\ heard.heard >= m.ts
            /\ heard.retired = r.retired
        BY <1>1 DEF NoteHeard, Row
      <3> HIDE DEF heard
      <3>4. new \in Row
        BY <3>2 DEF Row
      <3>5. /\ new.epoch = heard.epoch
            /\ new.psk = heard.psk
            /\ new.init = FALSE
            /\ new.heard = heard.heard
            /\ new.retired = heard.retired
        BY <3>2 DEF Row
      <3> HIDE DEF new
      <3>6. SameSession(new, Save(r, new))
        BY <3>4, SaveKeeps
      <3>7. Confirms(r, Save(r, new), m)
        BY <1>5, <2>2, <3>3, <3>5, <3>6 DEF Confirms, SameSession
      <3> QED
        BY <3>1, <3>7
    <2>3. CASE r.psk # m.psk /\ (WinsTie(r, m) \/ IsStaleOpener(r, m))
      BY <1>1, <1>5, <2>1, <2>3 DEF Reconcile, ReadsStored
    <2>4. CASE r.psk # m.psk /\ ~(WinsTie(r, m) \/ IsStaleOpener(r, m))
      <3>1. Reconcile(r, m) = Adopt(r, m)
        BY <1>1, <1>5, <2>1, <2>4 DEF Reconcile, ReadsStored
      <3>2. m.init
        BY <2>1, <2>4 DEF Readable, ReadsStored, ReadsKeyInit
      <3>3. \A e \in Epoch : r.retired[e] # None => e < m.epoch
        BY <1>5 DEF RowOK
      <3>4. \A e \in Epoch : e # m.epoch => Resolve(r, e) = r.retired[e]
        BY <1>5, ResolveRow
      <3>5. Adopts(r, Adopt(r, m), m)
        BY <1>5, <2>4, <3>2, <3>3, <3>4, AdoptMoves DEF Adopts
      <3> QED
        BY <3>1, <3>5
    <2> QED
      BY <2>2, <2>3, <2>4
  <1>6. r.epoch < m.epoch \/ m.epoch < r.epoch \/ r.epoch = m.epoch
    BY <1>1 DEF Epoch
  <1> QED
    BY <1>2, <1>3, <1>4, <1>5, <1>6
-----------------------------------------------------------------------------
(***************************************************************************)
(* Each of these keeps the agreement: nothing, an opening, a posted        *)
(* envelope, a confirmation and an adoption.                               *)
(***************************************************************************)

\* A device has one peer, whose peer it is.
LEMMA Peers ==
  ASSUME NEW d \in Device
  PROVE  /\ Peer(d) \in Device
         /\ Peer(d) # d
         /\ Peer(Peer(d)) = d
         /\ \A x \in Device : x = d \/ x = Peer(d)
  BY PairSessionAssumption DEF Device, Peer

\* The fields of an envelope.
LEMMA MailTypes ==
  ASSUME NEW rw, NEW mb, NEW op, NEW ck, Typed(rw, mb, op, ck), NEW m \in mb
  PROVE  /\ m.from \in Device
         /\ m.epoch \in Epoch
         /\ m.psk \in Session /\ m.psk # None /\ m.psk \in Nat
         /\ m.ts \in Nat
         /\ m.init \in BOOLEAN
  BY PairSessionAssumption DEF Typed, Envelope, None

\* The fields of a row.
LEMMA RowTypes ==
  ASSUME NEW rw, NEW mb, NEW op, NEW ck, Typed(rw, mb, op, ck), NEW d \in Device
  PROVE  /\ rw[d] \in Row
         /\ RowOK(rw[d])
         /\ rw[d].epoch \in Epoch
         /\ rw[d].psk \in Optional(Session) /\ rw[d].psk \in Nat
         /\ rw[d].init \in BOOLEAN
         /\ rw[d].heard \in Nat
         /\ ck[d] \in Nat
         /\ Holds(rw, d, rw[d].epoch) = rw[d].psk
         /\ \A e \in Epoch : Holds(rw, d, e) \in Nat
  <1>1. rw[d] \in Row /\ RowOK(rw[d]) /\ ck[d] \in Nat
    BY DEF Typed
  <1>2. /\ rw[d].epoch \in Epoch
        /\ rw[d].psk \in Optional(Session) /\ rw[d].psk \in Nat
        /\ rw[d].init \in BOOLEAN
        /\ rw[d].heard \in Nat
    BY <1>1, PairSessionAssumption DEF Row, Optional, None
  <1>3. Holds(rw, d, rw[d].epoch) = rw[d].psk
    BY <1>1, <1>2, ResolveRow DEF Holds
  <1>4. Optional(Session) \subseteq Nat
    BY PairSessionAssumption DEF Optional, None
  <1>5. \A e \in Epoch : Resolve(rw[d], e) \in Nat
    BY <1>1, <1>4, ResolveType
  <1> QED
    BY <1>1, <1>2, <1>3, <1>5 DEF Holds

\* Who opened a session in an epoch holds one there.
LEMMA OpenersHoldSome ==
  ASSUME NEW rw, NEW mb, NEW op, NEW ck, Typed(rw, mb, op, ck), Agrees(rw, mb, op, ck),
         NEW m \in mb, m.init
  PROVE  Holds(rw, m.from, m.epoch) # None
  <1>1. CASE Holds(rw, m.from, m.epoch) = m.psk
    BY <1>1, MailTypes
  <1>2. CASE Opener(mb, Peer(m.from), m.epoch, Holds(rw, m.from, m.epoch))
    BY <1>2, MailTypes DEF Opener
  <1> QED
    BY <1>1, <1>2 DEF Agrees, OpenersHold

\* Rows that hold the same sessions agree alike.
LEMMA KeepAgrees ==
  ASSUME NEW rw, NEW mb, NEW op, NEW ck, Typed(rw, mb, op, ck), Agrees(rw, mb, op, ck),
         NEW rx, \A x \in Device : SameSession(rw[x], rx[x])
  PROVE  Agrees(rx, mb, op, ck)
  <1>1. ASSUME NEW x \in Device
        PROVE  /\ rx[x].epoch = rw[x].epoch
               /\ rx[x].psk = rw[x].psk
               /\ rx[x].init = rw[x].init
               /\ rx[x].heard = rw[x].heard
    BY DEF SameSession
  <1>2. ASSUME NEW x \in Device, NEW e
        PROVE  Holds(rx, x, e) = Holds(rw, x, e)
    BY SameResolve DEF Holds
  <1>3. \A m \in mb : m.from \in Device
    BY MailTypes
  <1>4. RowsFit(rx, mb, op) /\ MailFits(rx, mb, op, ck)
    BY <1>1, <1>3 DEF Agrees, RowsFit, MailFits
  <1>5. OneOpening(rx, mb)
    BY <1>1, Peers DEF Agrees, OneOpening
  <1>6. OpenersHold(rx, mb) /\ AdoptersStay(rx, mb)
    BY <1>2, <1>3 DEF Agrees, OpenersHold, AdoptersStay
  <1>7. ConfirmedFits(rx, mb)
    BY <1>1, <1>2, Peers DEF Agrees, ConfirmedFits, Confirmed
  <1> QED
    BY <1>4, <1>5, <1>6, <1>7 DEF Agrees

\* Opening a session (EnsureE2ePublicMasterPsk) where there is none.
LEMMA OpenAgrees ==
  ASSUME NEW rw, NEW mb, NEW op, NEW ck, Typed(rw, mb, op, ck), Agrees(rw, mb, op, ck),
         NEW d \in Device, NEW q, Opens(rw[d], q, op), q.epoch \in Epoch
  PROVE  Agrees([rw EXCEPT ![d] = q], mb, op \cup {q.psk}, ck)
  <1> DEFINE rx == [rw EXCEPT ![d] = q]
             ox == op \cup {q.psk}
             e  == q.epoch
  <1>1. rx[d] = q /\ \A x \in Device : x # d => rx[x] = rw[x]
    BY DEF Typed
  <1> HIDE DEF rx
  <1>2. /\ q.psk \in Session /\ q.psk \notin op /\ q.psk # None
        /\ q.init /\ q.heard = None
        /\ Holds(rw, d, e) = None
        /\ \A f \in Epoch : f # e => Holds(rx, d, f) = Holds(rw, d, f)
    BY <1>1, PairSessionAssumption DEF Opens, HoldsElsewhere, Holds, None
  <1>3. \A x \in Device, f \in Epoch : x # d => Holds(rx, x, f) = Holds(rw, x, f)
    BY <1>1 DEF Holds
  <1>4. \A m \in mb : m.from \in Device /\ m.epoch \in Epoch /\ m.psk # None
    BY MailTypes
  <1>5. \A m \in mb : m.init => Holds(rw, m.from, m.epoch) # None
    BY OpenersHoldSome
  <1>6. \A m \in mb, x \in Device :
          (m.from = x /\ Holds(rw, x, m.epoch) # None) =>
            Holds(rx, x, m.epoch) = Holds(rw, x, m.epoch)
    BY <1>2, <1>3, <1>4
  <1>7. \A m \in mb : m.psk # q.psk
    BY <1>2 DEF Agrees, MailFits
  <1>8. RowsFit(rx, mb, ox)
    BY <1>1, <1>2 DEF Agrees, RowsFit
  <1>9. MailFits(rx, mb, ox, ck)
    <2>1. \A m \in mb : rx[m.from].psk # None
      BY <1>1, <1>2, <1>4 DEF Agrees, MailFits
    <2> QED
      BY <2>1 DEF Agrees, MailFits
  <1>10. OneOpening(rx, mb)
    <2>1. \A m \in mb : m.init => ~IsOpenerOf(m, d, e)
      BY <1>2, <1>5 DEF IsOpenerOf
    <2>2. rw[Peer(d)].init => rw[Peer(d)].psk # q.psk
      BY <1>2, Peers DEF Agrees, RowsFit
    <2>3. \A m \in mb, x \in Device : (m.init /\ rx[x].init) =>
            /\ IsOpenerOf(m, x, rx[x].epoch) => m.psk = rx[x].psk
            /\ m.from # x => m.psk # rx[x].psk
      BY <1>1, <1>7, <2>1 DEF Agrees, OneOpening
    <2>4. \A x \in Device :
            (rx[x].init /\ rx[Peer(x)].init) => rx[x].psk # rx[Peer(x)].psk
      BY <1>1, <2>2, Peers
    <2> QED
      BY <2>3, <2>4 DEF Agrees, OneOpening
  <1>11. OpenersHold(rx, mb)
    BY <1>4, <1>5, <1>6 DEF Agrees, OpenersHold
  <1>12. AdoptersStay(rx, mb)
    BY <1>4, <1>6 DEF Agrees, AdoptersStay
  <1>13. ConfirmedFits(rx, mb)
    <2> SUFFICES ASSUME NEW x \in Device, Confirmed(rx, mb, x)
                 PROVE  /\ Holds(rx, Peer(x), rx[x].epoch) = rx[x].psk
                        /\ \A m \in mb : IsOpenerOf(m, Peer(x), rx[x].epoch) => m.ts <= rx[x].heard
      BY DEF ConfirmedFits
    <2>1. x # d /\ rx[x] = rw[x]
      BY <1>1, <1>2 DEF Confirmed
    <2>2. Confirmed(rw, mb, x)
      BY <2>1 DEF Confirmed
    <2>3. /\ Holds(rw, d, rw[x].epoch) = rw[x].psk
          /\ \A m \in mb : IsOpenerOf(m, d, rw[x].epoch) => m.ts <= rw[x].heard
          /\ Peer(x) = d
      BY <2>1, <2>2, Peers DEF Agrees, ConfirmedFits
    <2>4. rw[x].psk # None /\ rw[x].epoch \in Epoch
      BY <2>2, RowTypes DEF Confirmed
    <2> QED
      BY <1>2, <2>1, <2>3, <2>4
  <1> QED
    BY <1>8, <1>9, <1>10, <1>11, <1>12, <1>13 DEF Agrees, rx
\* What d posts from its row (SealPairCopy).
Posts(rw, op, ck, d, p) ==
  /\ rw[d].psk # None
  /\ p.from = d
  /\ p.epoch = rw[d].epoch
  /\ p.psk = rw[d].psk
  /\ p.init = rw[d].init
  /\ p.ts \in Nat /\ 1 <= p.ts /\ ck[d] <= p.ts

\* Posting an envelope under the session of the row.
LEMMA PostAgrees ==
  ASSUME NEW rw, NEW mb, NEW op, NEW ck, Typed(rw, mb, op, ck), Agrees(rw, mb, op, ck),
         NEW d \in Device, NEW p, Posts(rw, op, ck, d, p)
  PROVE  Agrees(rw, mb \cup {p}, op, [ck EXCEPT ![d] = p.ts])
  <1> DEFINE mx == mb \cup {p}
             cx == [ck EXCEPT ![d] = p.ts]
             e  == rw[d].epoch
             s  == rw[d].psk
  <1>1. /\ p.from = d /\ p.epoch = e /\ p.psk = s /\ p.init = rw[d].init
        /\ p.ts \in Nat /\ 1 <= p.ts /\ ck[d] <= p.ts
        /\ s # None
    BY DEF Posts
  <1>2. /\ e \in Epoch
        /\ Holds(rw, d, e) = s
        /\ s \in op
    BY <1>1, RowTypes DEF Agrees, RowsFit
  <1>3. \A m \in mb : /\ m.from \in Device /\ m.epoch \in Epoch
                      /\ m.ts \in Nat /\ m.init \in BOOLEAN
    BY MailTypes
  <1>4. /\ cx[d] = p.ts
        /\ \A x \in Device : x # d => cx[x] = ck[x]
        /\ \A x \in Device : ck[x] \in Nat /\ cx[x] \in Nat /\ ck[x] <= cx[x]
    <2>1. cx[d] = p.ts /\ \A x \in Device : x # d => cx[x] = ck[x]
      BY DEF Typed
    <2>2. \A x \in Device : ck[x] \in Nat
      BY DEF Typed
    <2> QED
      BY <1>1, <2>1, <2>2
  <1> HIDE DEF cx
  \* An opener is an old one, or p.
  <1>5. ASSUME NEW x, NEW f, NEW u
        PROVE  /\ Opener(mb, x, f, u) => Opener(mx, x, f, u)
               /\ Opener(mx, x, f, u) =>
                    \/ Opener(mb, x, f, u)
                    \/ p.init /\ x = d /\ f = e /\ u = s
    BY <1>1 DEF Opener, IsOpenerOf
  \* The peer sealed no opener of a session d has pending.
  <1>6. ASSUME p.init, Opener(mb, Peer(d), e, s)
        PROVE  FALSE
    <2>1. PICK m \in mb : IsOpenerOf(m, Peer(d), e) /\ m.psk = s
      BY <1>6 DEF Opener
    <2> QED
      BY <1>1, <1>6, <2>1, Peers DEF Agrees, OneOpening, IsOpenerOf
  \* So what the peer wrote under d's session it wrote on an opener of d's.
  <1>7. ASSUME NEW k \in mb, Opener(mx, Peer(k.from), k.epoch, k.psk)
        PROVE  Opener(mb, Peer(k.from), k.epoch, k.psk)
    <2>1. CASE p.init /\ Peer(k.from) = d /\ k.epoch = e /\ k.psk = s
      <3>1. PICK x \in Device : Opener(mb, x, e, s)
        BY <2>1 DEF Agrees, MailFits
      <3> QED
        BY <1>6, <2>1, <3>1, Peers
    <2> QED
      BY <1>5, <1>7, <2>1
  <1>8. RowsFit(rw, mx, op)
    BY <1>5 DEF Agrees, RowsFit
  <1>9. MailFits(rw, mx, op, cx)
    <2>1. ASSUME NEW m \in mb
          PROVE  /\ m.psk \in op /\ rw[m.from].psk # None
                 /\ 1 <= m.ts /\ m.ts <= cx[m.from]
                 /\ \E x \in Device : Opener(mx, x, m.epoch, m.psk)
      <3>1. /\ m.psk \in op /\ rw[m.from].psk # None
            /\ 1 <= m.ts /\ m.ts <= ck[m.from]
            /\ \E x \in Device : Opener(mb, x, m.epoch, m.psk)
        BY DEF Agrees, MailFits
      <3>2. m.ts <= cx[m.from]
        <4>1. /\ m.ts \in Nat
              /\ ck[m.from] \in Nat /\ cx[m.from] \in Nat /\ ck[m.from] <= cx[m.from]
          BY <1>3, <1>4
        <4> QED
          BY <3>1, <4>1
      <3> QED
        BY <1>5, <3>1, <3>2
    <2>2. \E x \in Device : Opener(mx, x, e, s)
      <3>1. CASE p.init
        <4>1. Opener(mx, d, e, s)
          BY <1>1, <3>1 DEF Opener, IsOpenerOf
        <4> QED
          BY <4>1
      <3>2. CASE ~p.init
        <4>1. PICK x \in Device : Opener(mb, x, e, s)
          BY <1>1, <3>2 DEF Agrees, RowsFit
        <4> QED
          BY <1>5, <4>1
      <3> QED
        BY <3>1, <3>2
    <2>3. p.ts <= cx[d]
      BY <1>1, <1>4
    <2> QED
      BY <1>1, <1>2, <2>1, <2>2, <2>3 DEF MailFits
  <1>10. OneOpening(rw, mx)
    <2>1. \A m \in mb : (m.init /\ p.init) =>
            /\ (m.from = d /\ m.epoch = e) => m.psk = s
            /\ m.from # d => m.psk # s
      BY <1>1 DEF Agrees, OneOpening, IsOpenerOf
    <2>2. \A m, k \in mx : (m.init /\ k.init) =>
            /\ (m.from = k.from /\ m.epoch = k.epoch) => m.psk = k.psk
            /\ m.from # k.from => m.psk # k.psk
      BY <1>1, <2>1 DEF Agrees, OneOpening
    <2>3. \A x \in Device : (p.init /\ rw[x].init) =>
            /\ IsOpenerOf(p, x, rw[x].epoch) => p.psk = rw[x].psk
            /\ p.from # x => p.psk # rw[x].psk
      BY <1>1, Peers DEF Agrees, OneOpening, IsOpenerOf
    <2> QED
      BY <2>2, <2>3 DEF Agrees, OneOpening
  <1>11. OpenersHold(rw, mx)
    <2>1. \A m \in mb : m.init =>
            \/ Holds(rw, m.from, m.epoch) = m.psk
            \/ /\ Holds(rw, m.from, m.epoch) < m.psk
               /\ Opener(mx, Peer(m.from), m.epoch, Holds(rw, m.from, m.epoch))
      BY <1>5 DEF Agrees, OpenersHold
    <2> QED
      BY <1>1, <1>2, <2>1 DEF OpenersHold
  <1>12. AdoptersStay(rw, mx)
    BY <1>1, <1>2, <1>7 DEF Agrees, AdoptersStay
  <1>13. ConfirmedFits(rw, mx)
    <2> SUFFICES ASSUME NEW x \in Device, Confirmed(rw, mx, x)
                 PROVE  /\ Holds(rw, Peer(x), rw[x].epoch) = rw[x].psk
                        /\ \A m \in mx : IsOpenerOf(m, Peer(x), rw[x].epoch) => m.ts <= rw[x].heard
      BY DEF ConfirmedFits
    <2>1. Confirmed(rw, mb, x)
      BY <1>1, <1>5 DEF Confirmed
    <2>2. /\ Holds(rw, Peer(x), rw[x].epoch) = rw[x].psk
          /\ \A m \in mb : IsOpenerOf(m, Peer(x), rw[x].epoch) => m.ts <= rw[x].heard
      BY <2>1 DEF Agrees, ConfirmedFits
    <2>3. ~IsOpenerOf(p, Peer(x), rw[x].epoch)
      <3> SUFFICES ASSUME IsOpenerOf(p, Peer(x), rw[x].epoch)
                   PROVE  FALSE
        OBVIOUS
      <3>1. p.init /\ d = Peer(x) /\ e = rw[x].epoch /\ x = Peer(d)
        BY <1>1, Peers DEF IsOpenerOf
      <3>2. rw[x].psk = s
        BY <1>2, <2>2, <3>1
      <3>3. Opener(mb, Peer(d), e, s)
        BY <2>1, <3>1, <3>2 DEF Confirmed
      <3> QED
        BY <1>6, <3>1, <3>3
    <2> QED
      BY <2>2, <2>3
  <1>14. InTime(mx)
    <2> SUFFICES ASSUME NEW k \in mx, NEW m \in mx,
                        Opener(mx, Peer(k.from), k.epoch, k.psk), IsOpenerOf(m, k.from, k.epoch)
                 PROVE  m.ts <= k.ts
      BY DEF InTime
    <2>1. CASE k \in mb /\ m \in mb
      BY <1>7, <2>1 DEF Agrees, InTime
    <2>2. CASE k = p /\ m \in mb
      <3>1. m.from = d /\ m.ts <= ck[d]
        BY <1>1, <2>2 DEF IsOpenerOf, Agrees, MailFits
      <3> QED
        BY <1>1, <1>3, <1>4, <2>2, <3>1
    <2>3. CASE k \in mb /\ m = p
      <3>1. p.init /\ k.from = d /\ k.epoch = e
        BY <1>1, <2>3 DEF IsOpenerOf
      <3>2. Opener(mb, Peer(d), e, k.psk)
        BY <1>7, <2>3, <3>1
      <3>3. k.psk = s
        BY <1>2, <2>3, <3>1, <3>2 DEF Agrees, AdoptersStay
      <3> QED
        BY <1>6, <3>1, <3>2, <3>3
    <2>4. CASE k = p /\ m = p
      BY <1>1, <2>4
    <2> QED
      BY <2>1, <2>2, <2>3, <2>4
  <1> QED
    BY <1>8, <1>9, <1>10, <1>11, <1>12, <1>13, <1>14 DEF Agrees, cx
\* Hearing the peer under the row's session (note_heard).
LEMMA ConfirmAgrees ==
  ASSUME NEW rw, NEW mb, NEW op, NEW ck, Typed(rw, mb, op, ck), Agrees(rw, mb, op, ck),
         NEW d \in Device, NEW m \in mb, m.from = Peer(d),
         NEW q, Confirms(rw[d], q, m), q.heard \in Nat
  PROVE  Agrees([rw EXCEPT ![d] = q], mb, op, ck)
  <1> DEFINE rx == [rw EXCEPT ![d] = q]
             e  == rw[d].epoch
             s  == rw[d].psk
  <1>1. rx[d] = q /\ \A x \in Device : x # d => rx[x] = rw[x]
    BY DEF Typed
  <1> HIDE DEF rx
  <1>2. /\ s # None /\ m.psk = s /\ m.epoch = e
        /\ q.epoch = e /\ q.psk = s /\ ~q.init /\ q.retired = rw[d].retired
        /\ m.ts <= q.heard
    BY <1>1 DEF Confirms
  <1>3. ASSUME NEW x \in Device, NEW f
        PROVE  Holds(rx, x, f) = Holds(rw, x, f)
    BY <1>1, <1>2 DEF Holds, Resolve
  <1>4. \A x \in Device : /\ rx[x].epoch = rw[x].epoch
                          /\ rx[x].psk = rw[x].psk
                          /\ rx[x].init => rw[x].init
    BY <1>1, <1>2
  <1>5. \A k \in mb : k.from \in Device /\ k.ts \in Nat
    BY MailTypes
  <1>6. RowsFit(rx, mb, op)
    <2>1. s \in op /\ \E x \in Device : Opener(mb, x, e, s)
      BY <1>2 DEF Agrees, MailFits
    <2> QED
      BY <1>1, <1>2, <2>1 DEF Agrees, RowsFit
  <1>7. MailFits(rx, mb, op, ck)
    BY <1>4, <1>5 DEF Agrees, MailFits
  <1>8. OneOpening(rx, mb)
    BY <1>4, Peers DEF Agrees, OneOpening
  <1>9. OpenersHold(rx, mb) /\ AdoptersStay(rx, mb)
    BY <1>3, <1>5 DEF Agrees, OpenersHold, AdoptersStay
  <1>10. ConfirmedFits(rx, mb)
    <2> SUFFICES ASSUME NEW x \in Device, Confirmed(rx, mb, x)
                 PROVE  /\ Holds(rw, Peer(x), rx[x].epoch) = rx[x].psk
                        /\ \A k \in mb : IsOpenerOf(k, Peer(x), rx[x].epoch) => k.ts <= rx[x].heard
      BY <1>3, Peers DEF ConfirmedFits
    <2>1. CASE x = d
      <3>1. Opener(mb, Peer(m.from), m.epoch, m.psk)
        BY <1>1, <1>2, <2>1, Peers DEF Confirmed
      <3>2. Holds(rw, Peer(d), e) = s
        BY <1>2, <3>1 DEF Agrees, AdoptersStay
      <3>3. ASSUME NEW k \in mb, IsOpenerOf(k, Peer(d), e)
            PROVE  k.ts <= q.heard
        <4>1. k.ts <= m.ts
          BY <1>2, <3>1, <3>3 DEF Agrees, InTime
        <4> QED
          BY <1>2, <1>5, <4>1
      <3> QED
        BY <1>1, <1>2, <2>1, <3>2, <3>3
    <2>2. CASE x # d
      <3>1. rx[x] = rw[x] /\ Confirmed(rw, mb, x)
        BY <1>1, <2>2 DEF Confirmed
      <3> QED
        BY <3>1 DEF Agrees, ConfirmedFits
    <2> QED
      BY <2>1, <2>2
  <1> QED
    BY <1>6, <1>7, <1>8, <1>9, <1>10 DEF Agrees, rx

\* Moving to the session an opener of the peer opens.
LEMMA AdoptAgrees ==
  ASSUME NEW rw, NEW mb, NEW op, NEW ck, Typed(rw, mb, op, ck), Agrees(rw, mb, op, ck),
         NEW d \in Device, NEW m \in mb, m.from = Peer(d),
         NEW q, Adopts(rw[d], q, m)
  PROVE  Agrees([rw EXCEPT ![d] = q], mb, op, ck)
  <1> DEFINE rx == [rw EXCEPT ![d] = q]
             e  == m.epoch
             t  == m.psk
  <1>1. rx[d] = q /\ \A x \in Device : x # d => rx[x] = rw[x]
    BY DEF Typed
  <1> HIDE DEF rx
  <1>2. /\ t \in Session /\ t # None /\ t \in Nat /\ e \in Epoch /\ m.ts \in Nat
        /\ 1 <= m.ts
        /\ t \in op
    BY MailTypes DEF Agrees, MailFits
  <1>3. /\ m.init /\ q.epoch = e /\ q.psk = t /\ ~q.init /\ q.heard = m.ts
        /\ \A f \in Epoch : f # e => Holds(rx, d, f) = Holds(rw, d, f)
    BY <1>1 DEF Adopts, HoldsElsewhere, Holds
  <1>4. Holds(rx, d, e) = t
    BY <1>1, <1>2, <1>3 DEF Holds, Resolve
  <1>5. \A x \in Device, f \in Epoch : x # d => Holds(rx, x, f) = Holds(rw, x, f)
    BY <1>1 DEF Holds
  <1>6. \A k \in mb : k.from \in Device /\ k.epoch \in Epoch /\ k.psk \in Nat
    BY MailTypes
  \* The peer's opener of this epoch.
  <1>7. /\ Opener(mb, Peer(d), e, t)
        /\ \A u : Opener(mb, Peer(d), e, u) => u = t
        /\ ~Opener(mb, d, e, t)
    <2>1. Opener(mb, Peer(d), e, t)
      BY <1>3 DEF Opener, IsOpenerOf
    <2>2. \A u : Opener(mb, Peer(d), e, u) => u = t
      BY <1>3 DEF Opener, IsOpenerOf, Agrees, OneOpening
    <2>3. ~Opener(mb, d, e, t)
      BY <1>3, Peers DEF Opener, IsOpenerOf, Agrees, OneOpening
    <2> QED
      BY <2>1, <2>2, <2>3
  <1>8. RowsFit(rx, mb, op)
    BY <1>1, <1>2, <1>3, <1>7, Peers DEF Agrees, RowsFit
  <1>9. MailFits(rx, mb, op, ck)
    <2>1. \A k \in mb : rx[k.from].psk # None
      BY <1>1, <1>2, <1>3, <1>6 DEF Agrees, MailFits
    <2> QED
      BY <2>1 DEF Agrees, MailFits
  <1>10. OneOpening(rx, mb)
    BY <1>1, <1>3, Peers DEF Agrees, OneOpening
  <1>11. OpenersHold(rx, mb)
    <2> SUFFICES ASSUME NEW k \in mb, k.init
                 PROVE  \/ Holds(rx, k.from, k.epoch) = k.psk
                        \/ /\ Holds(rx, k.from, k.epoch) < k.psk
                           /\ Opener(mb, Peer(k.from), k.epoch, Holds(rx, k.from, k.epoch))
      BY DEF OpenersHold
    <2>1. \/ Holds(rw, k.from, k.epoch) = k.psk
          \/ /\ Holds(rw, k.from, k.epoch) < k.psk
             /\ Opener(mb, Peer(k.from), k.epoch, Holds(rw, k.from, k.epoch))
      BY DEF Agrees, OpenersHold
    <2>2. CASE k.from # d \/ k.epoch # e
      BY <1>3, <1>5, <1>6, <2>1, <2>2
    <2>3. CASE k.from = d /\ k.epoch = e
      <3>1. Holds(rw, d, e) # None
        BY <2>3, OpenersHoldSome
      <3>2. /\ rw[d].epoch = e
            /\ rw[d].psk # None
            /\ rw[d].psk # t
            /\ ~WinsTie(rw[d], m)
            /\ ~IsStaleOpener(rw[d], m)
        BY <3>1 DEF Adopts, Holds
      <3>3. Holds(rw, d, e) = rw[d].psk
        BY <3>2, RowTypes
      <3>4. k.psk = rw[d].psk
        BY <1>7, <2>1, <2>3, <3>2, <3>3
      <3>5. CASE rw[d].init
        <4>1. ~(rw[d].psk < t)
          BY <3>2, <3>5 DEF WinsTie
        <4>2. t < k.psk
          BY <1>2, <1>6, <3>2, <3>4, <4>1
        <4> QED
          BY <1>4, <1>7, <2>3, <4>2
      <3>6. CASE ~rw[d].init
        <4>1. Confirmed(rw, mb, d)
          BY <2>3, <3>2, <3>4, <3>6 DEF Confirmed, Opener, IsOpenerOf
        <4>2. m.ts <= rw[d].heard
          BY <1>3, <3>2, <4>1 DEF Agrees, ConfirmedFits, IsOpenerOf
        <4>3. rw[d].heard \in Nat
          BY RowTypes
        <4>4. rw[d].heard # None
          BY <1>2, <4>2, <4>3 DEF None
        <4> QED
          BY <3>2, <4>2, <4>4 DEF IsStaleOpener
      <3> QED
        BY <3>5, <3>6
    <2> QED
      BY <2>2, <2>3
  <1>12. AdoptersStay(rx, mb)
    <2> SUFFICES ASSUME NEW k \in mb, Opener(mb, Peer(k.from), k.epoch, k.psk)
                 PROVE  Holds(rx, k.from, k.epoch) = k.psk
      BY DEF AdoptersStay
    <2>1. Holds(rw, k.from, k.epoch) = k.psk
      BY DEF Agrees, AdoptersStay
    <2>2. CASE k.from # d \/ k.epoch # e
      BY <1>3, <1>5, <1>6, <2>1, <2>2
    <2>3. CASE k.from = d /\ k.epoch = e
      BY <1>4, <1>7, <2>3
    <2> QED
      BY <2>2, <2>3
  <1>13. ConfirmedFits(rx, mb)
    <2> SUFFICES ASSUME NEW x \in Device, Confirmed(rx, mb, x)
                 PROVE  /\ Holds(rx, Peer(x), rx[x].epoch) = rx[x].psk
                        /\ \A k \in mb : IsOpenerOf(k, Peer(x), rx[x].epoch) => k.ts <= rx[x].heard
      BY DEF ConfirmedFits
    <2>1. x # d
      BY <1>1, <1>3, <1>7 DEF Confirmed
    <2>2. rx[x] = rw[x] /\ Confirmed(rw, mb, x) /\ Peer(x) = d /\ x = Peer(d)
      BY <1>1, <2>1, Peers DEF Confirmed
    <2>3. /\ Holds(rw, d, rw[x].epoch) = rw[x].psk
          /\ \A k \in mb : IsOpenerOf(k, d, rw[x].epoch) => k.ts <= rw[x].heard
      BY <2>2 DEF Agrees, ConfirmedFits
    <2>4. Holds(rx, d, rw[x].epoch) = rw[x].psk
      <3>1. CASE rw[x].epoch = e
        BY <1>4, <1>7, <2>2, <3>1 DEF Confirmed
      <3>2. CASE rw[x].epoch # e
        <4>1. rw[x].epoch \in Epoch
          BY RowTypes
        <4> QED
          BY <1>3, <2>3, <3>2, <4>1
      <3> QED
        BY <3>1, <3>2
    <2> QED
      BY <2>2, <2>3, <2>4
  <1>14. InTime(mb)
    BY DEF Agrees
  <1> QED
    BY <1>8, <1>9, <1>10, <1>11, <1>12, <1>13, <1>14 DEF Agrees, rx
-----------------------------------------------------------------------------
(***************************************************************************)
(* Every step of the pair is one or two of these.                          *)
(***************************************************************************)

\* The state is what the facts are stated of.
LEMMA InvTyped ==
  ASSUME Inv
  PROVE  Typed(row, mailbox, opened, clock)
  BY DEF Inv, TypeOK, Typed

\* d's row is replaced by one with the same session.
LEMMA SameRowStep ==
  ASSUME Agreement, NEW d \in Device, NEW q, SameSession(row[d], q)
  PROVE  Agrees([row EXCEPT ![d] = q], mailbox, opened, clock)
  <1> DEFINE rx == [row EXCEPT ![d] = q]
  <1>1. rx[d] = q /\ \A x \in Device : x # d => rx[x] = row[x]
    BY DEF Agreement, Inv, TypeOK
  <1> HIDE DEF rx
  <1>2. \A x \in Device : SameSession(row[x], rx[x])
    BY <1>1 DEF SameSession
  <1>3. Agrees(rx, mailbox, opened, clock)
    BY <1>2, InvTyped, KeepAgrees DEF Agreement
  <1> QED
    BY <1>3 DEF rx

\* The row a send leaves, whatever number it leaves it at.
LEMMA ReadyStep ==
  ASSUME Agreement, NEW d \in Device, HasNextEpoch(d),
         NEW s \in SendSessions(RestartIfRestored(row[d])), NEW n \in Nat \ {0}
  PROVE  LET ready == Ensure(RestartIfRestored(row[d]), s)
             next  == [ready EXCEPT !.seq = n]
         IN  /\ SameSession(ready, next)
             /\ ready.psk = s
             /\ Agrees([row EXCEPT ![d] = next], mailbox, opened \cup {s}, clock)
  <1> DEFINE r == row[d]
             ready == Ensure(RestartIfRestored(r), s)
             next  == [ready EXCEPT !.seq = n]
  <1>1. /\ r \in Row /\ RowOK(r)
        /\ r.restart => r.epoch + 1 \in Epoch
    <2>1. r \in Row /\ RowOK(r)
      BY DEF Agreement, Inv, TypeOK
    <2> QED
      BY <2>1, PairSessionAssumption DEF HasNextEpoch, Row, Epoch
  <1>2. /\ ready.psk = s
        /\ SameSession(r, ready) \/ Opens(r, ready, opened)
    BY <1>1, ReadyMoves
  <1>3. ready \in Row /\ s \in Session /\ ready.psk # None
    BY ReadyRow DEF Agreement
  <1> HIDE DEF ready
  <1>4. SameSession(ready, next)
    <2>1. next.epoch = ready.epoch /\ next.psk = ready.psk /\ next.init = ready.init
      BY <1>3 DEF Row
    <2>2. next.heard = ready.heard /\ next.retired = ready.retired
      BY <1>3 DEF Row
    <2> HIDE DEF next
    <2> QED
      BY <2>1, <2>2 DEF SameSession
  <1> HIDE DEF next
  <1>5. CASE SameSession(r, ready)
    <2>1. SameSession(r, next)
      BY <1>4, <1>5 DEF SameSession
    <2>2. s \in opened
      BY <1>2, <1>3, <1>5 DEF SameSession, Agreement, Agrees, RowsFit
    <2>3. opened \cup {s} = opened
      BY <2>2
    <2> QED
      BY <1>2, <1>4, <2>1, <2>3, SameRowStep DEF ready, next
  <1>6. CASE Opens(r, ready, opened)
    <2>1. Opens(r, next, opened)
      BY <1>4, <1>6 DEF Opens, SameSession, HoldsElsewhere, Resolve
    <2>2. next.epoch \in Epoch /\ next.psk = s
      BY <1>2, <1>3, <1>4 DEF SameSession, Row
    <2>3. Agrees([row EXCEPT ![d] = next], mailbox, opened \cup {s}, clock)
      BY <2>1, <2>2, InvTyped, OpenAgrees DEF Agreement
    <2> QED
      BY <1>2, <1>4, <2>3 DEF ready, next
  <1> QED
    BY <1>2, <1>5, <1>6

\* Sending: the session is kept or opened, then an envelope is posted under it.
LEMMA SendAgrees ==
  ASSUME Agreement, NEW d \in Device, Send(d)
  PROVE  Agrees(row', mailbox', opened', clock')
  <1> DEFINE q == RestartIfRestored(row[d])
  <1>1. PICK s \in SendSessions(q), ts \in {clock[d], clock[d] + 1} :
          /\ ts \in 1..MaxTime
          /\ row' = [row EXCEPT ![d] = [Ensure(q, s) EXCEPT !.seq = @ + 1]]
          /\ mailbox' = mailbox \cup {Sealed(d, Ensure(q, s), ts)}
          /\ opened' = opened \cup {s}
          /\ clock' = [clock EXCEPT ![d] = ts]
    BY DEF Send
  <1> DEFINE ready == Ensure(q, s)
             p == Sealed(d, ready, ts)
             n == ready.seq + 1
             next == [ready EXCEPT !.seq = n]
             rx == [row EXCEPT ![d] = next]
  <1>2. /\ ready \in Row
        /\ RowOK(ready)
        /\ ready.psk # None
    BY <1>1, ReadyRow DEF Agreement, Send
  <1>3. n \in Nat \ {0}
    BY <1>2 DEF Row
  <1>4. /\ SameSession(ready, next)
        /\ Agrees(rx, mailbox, opened \cup {s}, clock)
    <2> HIDE DEF n
    <2> QED
      BY <1>1, <1>3, ReadyStep DEF Send
  <1>5. row' = rx
    BY <1>1
  <1>6. /\ Inv'
        /\ row \in [Device -> Row] /\ mailbox \subseteq Envelope
        /\ clock \in [Device -> Nat]
    BY SendStep DEF Agreement, Inv, TypeOK
  <1>7. Typed(rx, mailbox, opened \cup {s}, clock)
    <2>1. /\ row' \in [Device -> Row]
          /\ \A x \in Device : RowOK(row'[x])
          /\ opened' \subseteq Session
      BY <1>6 DEF Inv, TypeOK
    <2> HIDE DEF rx
    <2> QED
      BY <1>1, <1>5, <1>6, <2>1 DEF Typed
  <1>8. rx[d] = next
    BY <1>6
  <1> HIDE DEF q, ready, next, rx
  <1>9. Posts(rx, opened \cup {s}, clock, d, p)
    <2>1. Resolve(ready, ready.epoch) = ready.psk
      BY <1>2, ResolveRow DEF Row
    <2>2. /\ p.from = d /\ p.epoch = ready.epoch /\ p.psk = ready.psk
          /\ p.init = ready.init /\ p.ts = ts
      BY <2>1 DEF Sealed
    <2>3. ts \in Nat /\ 1 <= ts /\ clock[d] <= ts
      BY <1>1, <1>6, PairSessionAssumption
    <2> HIDE DEF p
    <2> QED
      BY <1>2, <1>4, <1>8, <2>2, <2>3 DEF Posts, SameSession
  <1>10. p.ts = ts
    BY DEF Sealed
  <1> HIDE DEF p
  <1>11. Agrees(rx, mailbox \cup {p}, opened \cup {s}, [clock EXCEPT ![d] = p.ts])
    BY <1>4, <1>7, <1>9, PostAgrees
  <1>12. mailbox' = mailbox \cup {p} /\ clock' = [clock EXCEPT ![d] = p.ts]
    BY <1>1, <1>10 DEF p, ready
  <1> QED
    BY <1>1, <1>5, <1>11, <1>12

\* A send that dies before it posts.
LEMMA DieInSendAgrees ==
  ASSUME Agreement, NEW d \in Device, DieInSend(d)
  PROVE  Agrees(row', mailbox', opened', clock')
  <1> DEFINE q == RestartIfRestored(row[d])
  <1>1. PICK s \in SendSessions(q), used \in {0, 1} :
          /\ row' = [row EXCEPT ![d] = [Ensure(q, s) EXCEPT !.seq = @ + used]]
          /\ opened' = opened \cup {s}
    BY DEF DieInSend
  <1> DEFINE ready == Ensure(q, s)
             n == ready.seq + used
  <1>2. ready \in Row
    BY <1>1, ReadyRow DEF Agreement, DieInSend
  <1>3. n \in Nat \ {0}
    BY <1>1, <1>2 DEF Row
  <1>4. Agrees([row EXCEPT ![d] = [ready EXCEPT !.seq = n]], mailbox, opened \cup {s}, clock)
    <2> HIDE DEF n
    <2> QED
      BY <1>1, <1>3, ReadyStep DEF DieInSend
  <1> QED
    BY <1>1, <1>4 DEF DieInSend

\* Reading an envelope: nothing, a confirmation or an adoption.
LEMMA ReadAgrees ==
  ASSUME Agreement, NEW d \in Device, NEW m \in mailbox, Read(d, m)
  PROVE  Agrees(row', mailbox, opened, clock)
  <1> DEFINE r == row[d]
             q == Reconcile(r, m)
  <1>1. /\ row' = [row EXCEPT ![d] = q]
        /\ m.from = Peer(d)
        /\ Readable(r, m)
    BY DEF Read
  <1>2. /\ row \in [Device -> Row] /\ r \in Row /\ RowOK(r) /\ m \in Envelope
        /\ Typed(row, mailbox, opened, clock)
        /\ Agrees(row, mailbox, opened, clock)
    BY InvTyped DEF Agreement, Inv, TypeOK
  <1>3. q = r \/ Confirms(r, q, m) \/ Adopts(r, q, m)
    BY <1>1, <1>2, ReadMoves
  <1>4. q.heard \in Nat
    BY <1>2, ReconcileRow DEF Continues, Row
  <1> HIDE DEF q
  <1>5. CASE q = r
    <2>1. row' = row
      BY <1>1, <1>2, <1>5
    <2> QED
      BY <1>2, <2>1
  <1>6. CASE Confirms(r, q, m)
    <2>1. Agrees([row EXCEPT ![d] = q], mailbox, opened, clock)
      BY <1>1, <1>2, <1>4, <1>6, ConfirmAgrees
    <2> QED
      BY <1>1, <2>1
  <1>7. CASE Adopts(r, q, m)
    <2>1. Agrees([row EXCEPT ![d] = q], mailbox, opened, clock)
      BY <1>1, <1>2, <1>7, AdoptAgrees
    <2> QED
      BY <1>1, <2>1
  <1> QED
    BY <1>3, <1>5, <1>6, <1>7

\* A chat reset puts the session back.
LEMMA ResetAgrees ==
  ASSUME Agreement, NEW d \in Device, ResetChats(d)
  PROVE  Agrees(row', mailbox', opened', clock')
  <1>1. row[d] \in Row /\ RowOK(row[d])
    BY DEF Agreement, Inv, TypeOK
  <1>2. SameSession(row[d], PutBack(row[d]))
    BY <1>1, ResetMoves
  <1>3. Agrees([row EXCEPT ![d] = PutBack(row[d])], mailbox, opened, clock)
    BY <1>2, SameRowStep
  <1> QED
    BY <1>3 DEF ResetChats, ClearChats

\* Before anything is sent there is nothing to disagree on.
LEMMA InitAgreement ==
  Init => Agreement
  <1> SUFFICES ASSUME Init
               PROVE  Agrees(row, mailbox, opened, clock)
    BY InitInv DEF Agreement
  <1>1. mailbox = {} /\ \A d \in Device : row[d].psk = None /\ ~row[d].init
    BY DEF Init, NoRow
  <1>2. RowsFit(row, mailbox, opened) /\ MailFits(row, mailbox, opened, clock)
    BY <1>1 DEF RowsFit, MailFits
  <1>3. OneOpening(row, mailbox) /\ OpenersHold(row, mailbox) /\ AdoptersStay(row, mailbox)
    BY <1>1 DEF OneOpening, OpenersHold, AdoptersStay
  <1>4. ConfirmedFits(row, mailbox) /\ InTime(mailbox)
    BY <1>1 DEF ConfirmedFits, Confirmed, InTime
  <1> QED
    BY <1>2, <1>3, <1>4 DEF Agrees

\* Every step of the pair keeps the agreement.
LEMMA NextAgreement ==
  Agreement /\ [Next]_vars => Agreement'
  <1> SUFFICES ASSUME Agreement, [Next]_vars
               PROVE  Agrees(row', mailbox', opened', clock')
    BY NextInv DEF Agreement
  <1>1. ASSUME NEW d \in Device, Send(d)
        PROVE  Agrees(row', mailbox', opened', clock')
    BY <1>1, SendAgrees
  <1>2. ASSUME NEW d \in Device, DieInSend(d)
        PROVE  Agrees(row', mailbox', opened', clock')
    BY <1>2, DieInSendAgrees
  <1>3. ASSUME NEW d \in Device, Receive(d)
        PROVE  Agrees(row', mailbox', opened', clock')
    <2>1. PICK m \in mailbox : Read(d, m) /\ UNCHANGED <<mailbox, opened, clock>>
      BY <1>3 DEF Receive
    <2> QED
      BY <2>1, ReadAgrees
  <1>4. ASSUME NEW d \in Device, DieInReceive(d)
        PROVE  Agrees(row', mailbox', opened', clock')
    <2>1. PICK m \in mailbox : Read(d, m)
      BY <1>4 DEF DieInReceive
    <2>2. UNCHANGED <<mailbox, opened, clock>>
      BY <1>4 DEF DieInReceive
    <2> QED
      BY <2>1, <2>2, ReadAgrees
  <1>5. ASSUME NEW d \in Device, ResetChats(d)
        PROVE  Agrees(row', mailbox', opened', clock')
    BY <1>5, ResetAgrees
  <1>6. CASE UNCHANGED vars
    BY <1>6 DEF vars, Agreement
  <1> QED
    BY <1>1, <1>2, <1>3, <1>4, <1>5, <1>6 DEF Next

\* A settled session is the peer's: it was opened by the one or the other, and
\* of two openers at most one moved.
LEMMA AgreementNoLockout ==
  Agreement => NoLockout
  <1> SUFFICES ASSUME Agreement, NEW d \in Device, IsSettled(row[d])
               PROVE  Holds(row, Peer(d), row[d].epoch) = row[d].psk
    BY DEF NoLockout, Holds
  <1> DEFINE e == row[d].epoch
             s == row[d].psk
             p == Peer(d)
  <1>1. s # None /\ ~row[d].init
    BY DEF IsSettled
  <1>2. PICK x \in Device : Opener(mailbox, x, e, s)
    BY <1>1 DEF Agreement, Agrees, RowsFit
  <1>3. CASE x = d
    BY <1>1, <1>2, <1>3 DEF Confirmed, Agreement, Agrees, ConfirmedFits
  <1>4. CASE x = p
    <2>1. PICK m \in mailbox : IsOpenerOf(m, p, e) /\ m.psk = s
      BY <1>2, <1>4 DEF Opener
    <2> DEFINE u == Holds(row, p, e)
    <2>2. u = s \/ (u < s /\ Opener(mailbox, d, e, u))
      BY <2>1, Peers DEF Agreement, Agrees, OpenersHold, IsOpenerOf
    <2>3. ASSUME u < s, Opener(mailbox, d, e, u)
          PROVE  FALSE
      <3>1. PICK k \in mailbox : IsOpenerOf(k, d, e) /\ k.psk = u
        BY <2>3 DEF Opener
      <3>2. Holds(row, d, e) = s /\ s \in Nat /\ u \in Nat
        BY <3>1, InvTyped, RowTypes, MailTypes DEF Agreement
      <3>3. s = u \/ s < u
        BY <3>1, <3>2 DEF Agreement, Agrees, OpenersHold, IsOpenerOf
      <3> QED
        BY <2>3, <3>2, <3>3
    <2> QED
      BY <2>2, <2>3
  <1> QED
    BY <1>3, <1>4, Peers

-----------------------------------------------------------------------------
(***************************************************************************)
(* Why an undisturbed exchange converges (MCPairSession).  Its sessions    *)
(* are not among Session, so its rows are described anew, and by what they *)
(* say of the session only.  The first turn leaves the peer ahead, with    *)
(* the writer's session, or with a lower one of its own; after the second  *)
(* both have one session and the first writer holds it as confirmed, which *)
(* the last two turns bring to the other side.                             *)
(***************************************************************************)

\* A row of any session.
AnyRow == [saved   : BOOLEAN,
           epoch   : Epoch,
           psk     : Nat,
           init    : BOOLEAN,
           heard   : Nat,
           restart : BOOLEAN,
           seq     : Nat,
           retired : [Epoch -> Nat]]

\* An envelope of any session.
AnyMail(m) ==
  /\ m.epoch \in Epoch
  /\ m.psk \in Nat \ {None}
  /\ m.init \in BOOLEAN
  /\ m.ts \in Nat

Sound(r) == r \in AnyRow /\ RowOK(r)

\* q holds session s at epoch e, heard under.
Took(q, e, s) == q.epoch = e /\ q.psk = s /\ ~q.init

\* A row of the state is one.
LEMMA RowsAreSound ==
  ASSUME Inv, NEW d \in Device
  PROVE  Sound(row[d])
  <1>1. row[d] \in Row /\ RowOK(row[d])
    BY DEF Inv, TypeOK
  <1>2. Optional(Session) \subseteq Nat
    BY PairSessionAssumption DEF Optional, None
  <1>3. row[d].retired \in [Epoch -> Nat] /\ row[d].psk \in Nat
    BY <1>1, <1>2 DEF Row
  <1>4. row[d] \in AnyRow
    BY <1>1, <1>3 DEF Row, AnyRow
  <1> QED
    BY <1>1, <1>4 DEF Sound

\* A lookup at the row's own epoch finds its session.
LEMMA SoundResolve ==
  ASSUME NEW r, Sound(r)
  PROVE  /\ Resolve(r, r.epoch) = r.psk
         /\ \A e \in Epoch : r.epoch <= e /\ e # r.epoch => Resolve(r, e) = None
  <1>1. r.epoch \in Nat /\ r.epoch \in Epoch /\ Epoch \subseteq Nat
    BY DEF Sound, AnyRow, Epoch
  <1>2. \A e \in Epoch : r.retired[e] # None => e < r.epoch
    BY DEF Sound, RowOK
  <1>3. r.retired[r.epoch] = None
    BY <1>1, <1>2
  <1>4. \A e \in Epoch : r.epoch <= e /\ e # r.epoch => r.retired[e] = None
    BY <1>1, <1>2
  <1> QED
    BY <1>3, <1>4 DEF Resolve

\* A restart leaves a row of no session at the next epoch.
LEMMA RestartSound ==
  ASSUME NEW r, Sound(r), r.epoch + 1 \in Epoch
  PROVE  LET q == Restart(r)
         IN  /\ q \in AnyRow
             /\ q.epoch = r.epoch + 1
             /\ q.psk = None
             /\ ~q.restart
             /\ \A e \in Epoch : q.retired[e] # None => e < q.epoch
  <1> DEFINE kept == IF r.psk # None THEN Retire(r, r.epoch) ELSE r
             new  == [kept EXCEPT !.epoch = r.epoch + 1,
                                  !.psk = None,
                                  !.init = FALSE,
                                  !.heard = None,
                                  !.restart = FALSE]
  <1>1. /\ r \in AnyRow /\ r.epoch \in Epoch /\ Epoch \subseteq Nat
        /\ \A e \in Epoch : r.retired[e] # None => e < r.epoch
    BY DEF Sound, RowOK, AnyRow, Epoch
  <1>2. /\ kept \in AnyRow
        /\ \A e \in Epoch : e # r.epoch => kept.retired[e] = r.retired[e]
    BY <1>1 DEF Retire, AnyRow
  <1>3. /\ new \in AnyRow
        /\ new.epoch = r.epoch + 1
        /\ new.psk = None
        /\ ~new.restart
        /\ new.retired = kept.retired
    <2> HIDE DEF kept
    <2> QED  BY <1>2 DEF AnyRow, None
  <1>4. \A e \in Epoch : new.retired[e] # None => e < r.epoch + 1
    BY <1>1, <1>2, <1>3
  <1>5. Restart(r) = Save(r, new)
    BY DEF Restart
  <1> HIDE DEF kept, new
  <1>6. /\ Save(r, new) \in AnyRow
        /\ Save(r, new).epoch = new.epoch
        /\ Save(r, new).psk = new.psk
        /\ Save(r, new).restart = new.restart
        /\ Save(r, new).retired = new.retired
    BY <1>1, <1>3 DEF Save, AnyRow
  <1> QED
    BY <1>3, <1>4, <1>5, <1>6

\* What a device writes from: the row it has, or one that opens session s, at
\* the next epoch or in place of none.
LEMMA ReadySound ==
  ASSUME NEW r, Sound(r), r.restart => r.epoch + 1 \in Epoch, NEW s \in Nat \ {0}
  PROVE  LET q == Ensure(RestartIfRestored(r), s)
         IN  /\ Sound(q)
             /\ q.psk # None
             /\ ~q.restart
             /\ \/ q = r
                \/ q.init /\ q.heard = None /\ r.restart /\ q.epoch = r.epoch + 1
                \/ q.init /\ q.heard = None /\ r.psk = None /\ q.epoch = r.epoch
  <1> DEFINE a == RestartIfRestored(r)
             q == Ensure(a, s)
             new == [a EXCEPT !.psk = s, !.init = TRUE]
  <1>1. r \in AnyRow /\ RowOK(r) /\ r.epoch \in Epoch /\ Epoch \subseteq Nat
    BY DEF Sound, AnyRow, Epoch
  <1>2. CASE r.saved /\ r.restart
    <2>1. /\ a \in AnyRow
          /\ a.epoch = r.epoch + 1
          /\ a.psk = None
          /\ ~a.restart
          /\ \A e \in Epoch : a.retired[e] # None => e < a.epoch
      BY <1>2, RestartSound DEF RestartIfRestored
    <2>1a. a.heard = None
      BY <1>1, <1>2 DEF RestartIfRestored, Restart, Retire, Save, AnyRow
    <2> HIDE DEF a
    <2>2a. a.epoch \in Epoch /\ a.epoch \in Nat
      BY <1>1, <2>1 DEF AnyRow
    <2>2. a.epoch \in Epoch /\ a.retired[a.epoch] = None
      BY <2>1, <2>2a
    <2>3. Resolve(a, a.epoch) = None
      BY <2>1, <2>2 DEF Resolve
    <2>4. q = Save(a, new)
      BY <2>3 DEF Ensure
    <2>5. /\ q \in AnyRow
          /\ q.saved
          /\ q.epoch = a.epoch
          /\ q.psk = s
          /\ q.init
          /\ q.heard = a.heard
          /\ q.restart = a.restart
          /\ q.retired = a.retired
      BY <2>1, <2>4 DEF Save, AnyRow
    <2>6. RowOK(q)
      BY <2>1, <2>5 DEF RowOK, None
    <2> HIDE DEF q
    <2>7. Sound(q) /\ q.psk # None /\ ~q.restart /\ q.init /\ q.heard = None /\ q.epoch = r.epoch + 1
      BY <2>1, <2>1a, <2>5, <2>6 DEF Sound, None
    <2> QED
      BY <1>2, <2>7 DEF q, a
  <1>3. CASE ~(r.saved /\ r.restart)
    <2>1. a = r
      BY <1>3 DEF RestartIfRestored
    <2>2. ~r.restart
      BY <1>1, <1>3 DEF RowOK, NoRow, AnyRow
    <2>3. Resolve(r, r.epoch) = r.psk
      BY SoundResolve
    <2>4. CASE r.psk # None
      BY <2>1, <2>2, <2>3, <2>4 DEF Ensure
    <2>5. CASE r.psk = None
      <3>1. q = Save(r, [r EXCEPT !.psk = s, !.init = TRUE])
        BY <2>1, <2>3, <2>5 DEF Ensure
      <3>2. r.heard = None
        BY <1>1, <2>5 DEF RowOK, NoRow
      <3> HIDE DEF a, q
      <3>3. /\ q \in AnyRow
            /\ q.saved
            /\ q.epoch = r.epoch
            /\ q.psk = s
            /\ q.init
            /\ q.heard = r.heard
            /\ q.restart = r.restart
            /\ q.retired = r.retired
        BY <1>1, <3>1 DEF Save, AnyRow
      <3>4. RowOK(q)
        BY <1>1, <3>3 DEF RowOK, None
      <3>5. Sound(q) /\ q.psk # None /\ ~q.restart
        BY <2>2, <3>3, <3>4 DEF Sound, None
      <3> QED
        BY <2>5, <3>2, <3>3, <3>5 DEF q, a
    <2> QED
      BY <2>4, <2>5
  <1> QED
    BY <1>2, <1>3

\* What the peer makes of an envelope that is later than what it heard: one of
\* an earlier epoch does nothing, one of its session confirms it, and an opener
\* is adopted unless the peer's own unconfirmed session is the lower one.
TakenBy(r, m) == IF Readable(r, m) THEN Reconcile(r, m) ELSE r

LEMMA TakenSound ==
  ASSUME NEW r, Sound(r), NEW m, AnyMail(m), r.heard < m.ts
  PROVE  LET q == TakenBy(r, m)
         IN  /\ Sound(q)
             /\ q.restart = r.restart
             /\ r.epoch > m.epoch => q = r
             /\ (r.epoch = m.epoch /\ r.psk = m.psk) => Took(q, m.epoch, m.psk)
             /\ (r.epoch <= m.epoch /\ m.init) =>
                   \/ Took(q, m.epoch, m.psk)
                   \/ q = r /\ r.epoch = m.epoch /\ r.init /\ r.psk # None /\ r.psk < m.psk
  <1> DEFINE q == TakenBy(r, m)
  <1>1. /\ r \in AnyRow /\ RowOK(r) /\ r.epoch \in Epoch /\ Epoch \subseteq Nat
        /\ m.epoch \in Epoch /\ m.psk \in Nat /\ m.psk # None /\ m.ts \in Nat
        /\ m.init \in BOOLEAN /\ r.heard \in Nat /\ r.psk \in Nat
        /\ r.epoch \in Nat /\ m.epoch \in Nat
    BY DEF Sound, AnyRow, AnyMail, Epoch
  <1>2. ~IsStaleOpener(r, m)
    BY <1>1 DEF IsStaleOpener
  <1>3. /\ Resolve(r, r.epoch) = r.psk
        /\ m.epoch >= r.epoch /\ m.epoch # r.epoch => Resolve(r, m.epoch) = None
    BY <1>1, SoundResolve
  \* The rows the rules make.
  <1>4. ASSUME NEW o \in AnyRow, \A e \in Epoch : o.retired[e] # None => e < m.epoch
        PROVE  /\ Sound(Adopt(o, m))
               /\ Took(Adopt(o, m), m.epoch, m.psk)
               /\ Adopt(o, m).restart = o.restart
    <2>1. /\ Adopt(o, m) \in AnyRow
          /\ Adopt(o, m).saved
          /\ Adopt(o, m).epoch = m.epoch
          /\ Adopt(o, m).psk = m.psk
          /\ ~Adopt(o, m).init
          /\ Adopt(o, m).restart = o.restart
          /\ Adopt(o, m).retired = o.retired
      BY <1>1, <1>4 DEF Adopt, Save, AnyRow
    <2> QED
      BY <1>1, <1>4, <2>1 DEF Sound, RowOK, Took
  <1>5. ASSUME r.psk # None
        PROVE  LET c == Save(r, [NoteHeard(r, m.ts) EXCEPT !.init = FALSE])
               IN  Sound(c) /\ Took(c, r.epoch, r.psk) /\ c.restart = r.restart
    <2> DEFINE c == Save(r, [NoteHeard(r, m.ts) EXCEPT !.init = FALSE])
    <2>1. /\ c \in AnyRow
          /\ c.saved
          /\ c.epoch = r.epoch
          /\ c.psk = r.psk
          /\ ~c.init
          /\ c.restart = r.restart
          /\ c.retired = r.retired
      BY <1>1 DEF NoteHeard, Save, AnyRow
    <2> HIDE DEF c
    <2>2. Sound(c) /\ Took(c, r.epoch, r.psk) /\ c.restart = r.restart
      BY <1>1, <1>5, <2>1 DEF Sound, RowOK, Took
    <2> QED
      BY <2>2 DEF c
  <1>6. ASSUME r.psk = None
        PROVE  r.epoch = 1 /\ r.retired[m.epoch] = None /\ ~r.init
    BY <1>1, <1>6 DEF RowOK, NoRow
  <1>7. 1 <= m.epoch
    BY <1>1 DEF Epoch
  <1>8. CASE r.epoch > m.epoch
    <2>1. r.psk # None
      BY <1>1, <1>6, <1>7, <1>8
    <2>2. q = r
      BY <1>1, <1>8, <2>1 DEF TakenBy, Reconcile
    <2> QED
      BY <1>1, <1>8, <2>2
  <1>9. CASE r.epoch = m.epoch /\ r.psk = m.psk
    <2>1. ReadsStored(r, m) /\ Readable(r, m)
      BY <1>3, <1>9 DEF ReadsStored, Readable
    <2>2. q = Save(r, [NoteHeard(r, m.ts) EXCEPT !.init = FALSE])
      BY <1>1, <1>9, <2>1 DEF TakenBy, Reconcile
    <2>3. Sound(q) /\ Took(q, m.epoch, m.psk) /\ q.restart = r.restart
      BY <1>1, <1>5, <1>9, <2>2
    <2> QED
      BY <1>1, <1>9, <2>3
  <1>10. CASE r.epoch = m.epoch /\ r.psk # m.psk
    <2>1. ~ReadsStored(r, m)
      BY <1>3, <1>10 DEF ReadsStored
    <2>2. CASE ~m.init
      <3>1. q = r
        BY <2>1, <2>2 DEF TakenBy, Readable, ReadsKeyInit
      <3> QED
        BY <1>1, <1>10, <2>2, <3>1
    <2>3. CASE m.init /\ WinsTie(r, m)
      <3>1. q = r
        BY <1>1, <1>10, <2>1, <2>3 DEF TakenBy, Reconcile
      <3> QED
        BY <1>1, <1>10, <2>3, <3>1 DEF WinsTie
    <2>4. CASE m.init /\ ~WinsTie(r, m)
      <3>1. q = Adopt(r, m)
        BY <1>1, <1>2, <1>10, <2>1, <2>4 DEF TakenBy, Readable, ReadsKeyInit, Reconcile
      <3>2. \A e \in Epoch : r.retired[e] # None => e < m.epoch
        BY <1>1, <1>10 DEF RowOK
      <3>3. Sound(q) /\ Took(q, m.epoch, m.psk) /\ q.restart = r.restart
        BY <1>1, <1>4, <3>1, <3>2
      <3> QED
        BY <1>1, <1>10, <3>3
    <2> QED
      BY <1>1, <2>2, <2>3, <2>4
  <1>11. CASE r.epoch < m.epoch
    <2>1. Resolve(r, m.epoch) = None
      BY <1>1, <1>3, <1>11
    <2>2. ~ReadsStored(r, m)
      BY <1>1, <2>1 DEF ReadsStored
    <2>3. CASE ~m.init
      <3>1. q = r
        BY <2>2, <2>3 DEF TakenBy, Readable, ReadsKeyInit
      <3> QED
        BY <1>1, <1>11, <2>3, <3>1
    <2>4. CASE m.init /\ r.psk # None
      <3> DEFINE o == Retire(r, r.epoch)
      <3>1. q = Adopt(o, m)
        BY <1>1, <1>11, <2>2, <2>4 DEF TakenBy, Readable, ReadsKeyInit, Reconcile
      <3>2. /\ o \in AnyRow
            /\ \A e \in Epoch : e # r.epoch => o.retired[e] = r.retired[e]
            /\ o.restart = r.restart
        BY <1>1 DEF Retire, AnyRow
      <3> HIDE DEF o
      <3>3. ASSUME NEW e \in Epoch, o.retired[e] # None
            PROVE  e < m.epoch
        <4>1. e = r.epoch \/ r.retired[e] # None
          BY <3>2, <3>3
        <4>2. r.retired[e] # None => e < r.epoch
          BY <1>1 DEF RowOK
        <4>3. e \in Nat
          BY <1>1
        <4> QED
          BY <1>1, <1>11, <4>1, <4>2, <4>3
      <3>4. Sound(q) /\ Took(q, m.epoch, m.psk) /\ q.restart = r.restart
        BY <1>4, <3>1, <3>2, <3>3
      <3> QED
        BY <1>1, <1>11, <3>4
    <2>5. CASE m.init /\ r.psk = None
      <3>1. ~WinsTie(r, m)
        BY <2>5 DEF WinsTie
      <3>2. q = Adopt(r, m)
        BY <1>1, <1>2, <2>2, <2>5, <3>1 DEF TakenBy, Readable, ReadsKeyInit, Reconcile
      <3>3. \A e \in Epoch : r.retired[e] # None => e < m.epoch
        BY <1>1, <1>11 DEF RowOK
      <3>4. Sound(q) /\ Took(q, m.epoch, m.psk) /\ q.restart = r.restart
        BY <1>1, <1>4, <3>2, <3>3
      <3> QED
        BY <1>1, <1>11, <3>4
    <2> QED
      BY <1>1, <2>3, <2>4, <2>5
  <1> QED
    BY <1>1, <1>8, <1>9, <1>10, <1>11

\* Nobody heard the peer later than the peer's clock says.
HeardFits == \A d \in Device : row[d].heard <= clock[Peer(d)]

\* What an envelope leaves in heard is what was there or the envelope's time.
LEMMA HeardAfter ==
  ASSUME NEW r \in Row, NEW m \in Envelope
  PROVE  Reconcile(r, m).heard \in {r.heard, m.ts}
  <1>1. ASSUME NEW o \in Row
        PROVE  Adopt(o, m).heard = m.ts
    BY <1>1 DEF Adopt, Save, Row
  <1>2. /\ NoteHeard(r, m.ts).heard \in {r.heard, m.ts}
        /\ Save(r, [NoteHeard(r, m.ts) EXCEPT !.init = FALSE]).heard \in {r.heard, m.ts}
    BY DEF NoteHeard, Save, Row
  <1>3. r.epoch \in Epoch
    BY DEF Row
  <1>4. Retire(r, r.epoch) \in Row
    BY <1>3, RetireRow
  <1> QED
    BY <1>1, <1>2, <1>4 DEF Reconcile

\* A step that replaces one row, with a heard time the peer's clock has passed.
LEMMA HeardStep ==
  ASSUME Inv, HeardFits, NEW d \in Device, NEW q,
         row' = [row EXCEPT ![d] = q],
         q.heard \in Nat, q.heard <= clock[Peer(d)],
         \A e \in Device : clock'[e] \in Nat /\ clock[e] <= clock'[e]
  PROVE  HeardFits'
  <1> SUFFICES ASSUME NEW e \in Device
               PROVE  row'[e].heard <= clock'[Peer(e)]
    BY DEF HeardFits
  <1>1. /\ row'[e] = IF e = d THEN q ELSE row[e]
        /\ row[e].heard \in Nat
        /\ clock[Peer(e)] \in Nat /\ clock'[Peer(e)] \in Nat
        /\ clock[Peer(e)] <= clock'[Peer(e)]
    BY Peers DEF Inv, TypeOK, Row
  <1>2. row'[e].heard \in Nat /\ row'[e].heard <= clock[Peer(e)]
    BY <1>1 DEF HeardFits
  <1> QED
    BY <1>1, <1>2

\* A row a send starts from was heard under no later than the one before it.
LEMMA ReadyHeard ==
  ASSUME Inv, HeardFits, NEW d \in Device, HasNextEpoch(d),
         NEW s \in SendSessions(RestartIfRestored(row[d])), NEW used \in Nat
  PROVE  LET q == [Ensure(RestartIfRestored(row[d]), s) EXCEPT !.seq = @ + used]
         IN  q.heard \in Nat /\ q.heard <= clock[Peer(d)]
  <1> DEFINE ready == Ensure(RestartIfRestored(row[d]), s)
  <1>1. s \in Session /\ ready \in Row
    BY ReadyRow
  <1>2. s \in Nat \ {0}
    BY <1>1, PairSessionAssumption
  <1>3. row[d].restart => row[d].epoch + 1 \in Epoch
    BY PairSessionAssumption DEF Inv, TypeOK, Row, HasNextEpoch, Epoch
  <1>4. ready = row[d] \/ ready.heard = None
    BY <1>2, <1>3, RowsAreSound, ReadySound
  <1>5. clock[Peer(d)] \in Nat /\ row[d].heard \in Nat /\ row[d].heard <= clock[Peer(d)]
    BY Peers DEF HeardFits, Inv, TypeOK, Row
  <1> HIDE DEF ready
  <1>6. [ready EXCEPT !.seq = @ + used].heard = ready.heard
    BY <1>1 DEF Row
  <1> QED
    BY <1>4, <1>5, <1>6 DEF ready, None

\* Every step keeps heard behind the peer's clock.
LEMMA NextHeard ==
  Agreement /\ HeardFits /\ [Next]_vars => HeardFits'
  <1> SUFFICES ASSUME Agreement, HeardFits, [Next]_vars
               PROVE  HeardFits'
    OBVIOUS
  <1>1. /\ Inv
        /\ clock \in [Device -> Nat]
        /\ \A e \in Device : clock[e] <= clock[e]
    BY DEF Agreement, Inv, TypeOK
  <1>2. ASSUME NEW d \in Device, Send(d)
        PROVE  HeardFits'
    <2>1. PICK s \in SendSessions(RestartIfRestored(row[d])), ts \in {clock[d], clock[d] + 1} :
            /\ row' = [row EXCEPT ![d] = [Ensure(RestartIfRestored(row[d]), s) EXCEPT !.seq = @ + 1]]
            /\ clock' = [clock EXCEPT ![d] = ts]
      BY <1>2 DEF Send
    <2>2. HasNextEpoch(d)
      BY <1>2 DEF Send
    <2>3. \A e \in Device : clock'[e] \in Nat /\ clock[e] <= clock'[e]
      BY <1>1, <2>1
    <2> DEFINE q == [Ensure(RestartIfRestored(row[d]), s) EXCEPT !.seq = @ + 1]
    <2>4. q.heard \in Nat /\ q.heard <= clock[Peer(d)]
      BY <1>1, <2>2, ReadyHeard
    <2>5. row' = [row EXCEPT ![d] = q]
      BY <2>1
    <2> HIDE DEF q
    <2> QED
      BY <1>1, <2>3, <2>4, <2>5, HeardStep
  <1>3. ASSUME NEW d \in Device, DieInSend(d)
        PROVE  HeardFits'
    <2>1. PICK s \in SendSessions(RestartIfRestored(row[d])), used \in {0, 1} :
            row' = [row EXCEPT ![d] = [Ensure(RestartIfRestored(row[d]), s) EXCEPT !.seq = @ + used]]
      BY <1>3 DEF DieInSend
    <2>2. HasNextEpoch(d) /\ clock' = clock
      BY <1>3 DEF DieInSend
    <2> DEFINE q == [Ensure(RestartIfRestored(row[d]), s) EXCEPT !.seq = @ + used]
    <2>3. used \in Nat
      OBVIOUS
    <2>4. q.heard \in Nat /\ q.heard <= clock[Peer(d)]
      BY <1>1, <2>2, <2>3, ReadyHeard
    <2>5. row' = [row EXCEPT ![d] = q]
      BY <2>1
    <2> HIDE DEF q
    <2> QED
      BY <1>1, <2>2, <2>4, <2>5, HeardStep
  <1>4. ASSUME NEW d \in Device, NEW m \in mailbox, Read(d, m), clock' = clock
        PROVE  HeardFits'
    <2>1. row[d] \in Row /\ m \in Envelope /\ m.from = Peer(d)
      BY <1>1, <1>4 DEF Inv, TypeOK, Read
    <2>2. m.ts \in Nat /\ m.ts <= clock[Peer(d)]
      BY <2>1 DEF Agreement, Agrees, MailFits, Envelope
    <2>3. row[d].heard \in Nat /\ row[d].heard <= clock[Peer(d)]
      BY <2>1 DEF HeardFits, Row
    <2> DEFINE q == Reconcile(row[d], m)
    <2>4. q.heard \in {row[d].heard, m.ts}
      BY <2>1, HeardAfter
    <2>5. row' = [row EXCEPT ![d] = q]
      BY <1>4 DEF Read
    <2> HIDE DEF q
    <2>6. q.heard \in Nat /\ q.heard <= clock[Peer(d)]
      BY <2>2, <2>3, <2>4
    <2> QED
      BY <1>1, <1>4, <2>5, <2>6, HeardStep
  <1>5. ASSUME NEW d \in Device, Receive(d)
        PROVE  HeardFits'
    BY <1>4, <1>5 DEF Receive
  <1>6. ASSUME NEW d \in Device, DieInReceive(d)
        PROVE  HeardFits'
    BY <1>4, <1>6 DEF DieInReceive
  <1>7. ASSUME NEW d \in Device, ResetChats(d)
        PROVE  HeardFits'
    <2> DEFINE q == PutBack(row[d])
    <2>1. row[d] \in Row /\ row[d].heard \in Nat /\ row[d].heard <= clock[Peer(d)]
          /\ clock[Peer(d)] \in Nat
      BY <1>1, Peers DEF Inv, TypeOK, HeardFits, Row
    <2>2. q.heard = row[d].heard \/ q.heard = 0
      BY <2>1 DEF PutBack, NoRow, None, Row
    <2>3. row' = [row EXCEPT ![d] = q] /\ clock' = clock
      BY <1>7 DEF ResetChats, ClearChats
    <2> HIDE DEF q
    <2>4. q.heard \in Nat /\ q.heard <= clock[Peer(d)]
      BY <2>1, <2>2
    <2> QED
      BY <1>1, <2>3, <2>4, HeardStep
  <1>8. CASE UNCHANGED vars
    BY <1>8 DEF vars, HeardFits
  <1> QED
    BY <1>2, <1>3, <1>5, <1>6, <1>7, <1>8 DEF Next

\* Before anything is sent nothing was heard.
LEMMA InitHeard ==
  Init => HeardFits
  BY Peers DEF Init, HeardFits, NoRow, None

\* The writer of a turn: w continues the session of r, or opens one.
Goes(r, w) ==
  /\ w.psk # None
  /\ ~w.restart
  /\ \/ /\ r.psk # None /\ ~r.restart
        /\ w.epoch = r.epoch /\ w.psk = r.psk /\ w.init = r.init /\ w.heard = r.heard
     \/ w.init /\ w.heard = None /\ r.restart /\ w.epoch = r.epoch + 1
     \/ w.init /\ w.heard = None /\ r.psk = None /\ w.epoch = r.epoch

\* The other side of it: q replaces r once the envelope of w, of time ts, is taken.
Meets(r, w, q, ts) ==
  /\ q.restart = r.restart
  /\ q.heard \in {r.heard, ts}
  /\ r.epoch > w.epoch => q = r
  /\ (r.epoch = w.epoch /\ r.psk = w.psk) => Took(q, w.epoch, w.psk)
  /\ (r.epoch <= w.epoch /\ w.init) =>
        \/ Took(q, w.epoch, w.psk)
        \/ q = r /\ r.epoch = w.epoch /\ r.init /\ r.psk # None /\ r.psk < w.psk

\* What the taken envelope leaves in heard.
LEMMA TakenHeard ==
  ASSUME NEW r, Sound(r), NEW m, AnyMail(m)
  PROVE  TakenBy(r, m).heard \in {r.heard, m.ts}
  <1>1. r \in AnyRow /\ r.epoch \in Epoch /\ m.ts \in Nat
    BY DEF Sound, AnyMail, AnyRow
  <1>2. ASSUME NEW o \in AnyRow
        PROVE  Adopt(o, m).heard = m.ts
    BY <1>2 DEF Adopt, Save, AnyRow
  <1>3. /\ NoteHeard(r, m.ts).heard \in {r.heard, m.ts}
        /\ Save(r, [NoteHeard(r, m.ts) EXCEPT !.init = FALSE]).heard \in {r.heard, m.ts}
    BY <1>1 DEF NoteHeard, Save, AnyRow
  <1>4. Retire(r, r.epoch) \in AnyRow
    BY <1>1 DEF Retire, AnyRow
  <1>5. Reconcile(r, m).heard \in {r.heard, m.ts}
    BY <1>1, <1>2, <1>3, <1>4 DEF Reconcile
  <1> QED
    BY <1>5 DEF TakenBy

\* The rows of the two devices.
Pair(f) == f = [x \in Device |-> f[x]] /\ \A x \in Device : Sound(f[x])

\* A turn replaces the two rows as described.
LEMMA TurnRows ==
  ASSUME NEW f, Pair(f), NEW d \in Device, f[d].restart => f[d].epoch + 1 \in Epoch,
         NEW s \in Nat \ {0}, NEW ts \in Nat, f[Peer(d)].heard < ts
  PROVE  LET g == Turn(f, d, s, ts)
         IN  /\ Pair(g)
             /\ Goes(f[d], g[d])
             /\ Meets(f[Peer(d)], g[d], g[Peer(d)], ts)
  <1> DEFINE p == Peer(d)
             w == Ensure(RestartIfRestored(f[d]), s)
             m == Sealed(d, w, ts)
             v == [w EXCEPT !.seq = @ + 1]
             q == TakenBy(f[p], m)
             g == Turn(f, d, s, ts)
  <1>1. p \in Device /\ p # d /\ \A x \in Device : x = d \/ x = p
    BY Peers
  <1>2. Sound(f[d]) /\ Sound(f[p])
    BY <1>1 DEF Pair
  <1>3. /\ Sound(w)
        /\ w.psk # None
        /\ ~w.restart
        /\ \/ w = f[d]
           \/ w.init /\ w.heard = None /\ f[d].restart /\ w.epoch = f[d].epoch + 1
           \/ w.init /\ w.heard = None /\ f[d].psk = None /\ w.epoch = f[d].epoch
    BY <1>2, ReadySound
  <1>4. g = [f EXCEPT ![d] = v, ![p] = q]
    BY DEF Turn, TakenBy
  <1>5. Goes(f[d], w)
    BY <1>3 DEF Goes
  <1> HIDE DEF w
  <1>6. /\ v \in AnyRow
        /\ v.saved = w.saved
        /\ v.epoch = w.epoch
        /\ v.psk = w.psk
        /\ v.init = w.init
        /\ v.heard = w.heard
        /\ v.restart = w.restart
        /\ v.retired = w.retired
    BY <1>3 DEF Sound, AnyRow
  <1> HIDE DEF v
  <1>7. Sound(v)
    BY <1>3, <1>6 DEF Sound, RowOK
  <1>8. Goes(f[d], v)
    BY <1>5, <1>6 DEF Goes
  <1>9. /\ AnyMail(m)
        /\ m.epoch = w.epoch
        /\ m.psk = w.psk
        /\ m.init = w.init
        /\ m.ts = ts
    <2>1. Resolve(w, w.epoch) = w.psk
      BY <1>3, SoundResolve
    <2>2. w.epoch \in Epoch /\ w.psk \in Nat /\ w.init \in BOOLEAN
      BY <1>3 DEF Sound, AnyRow
    <2> QED
      BY <1>3, <2>1, <2>2 DEF Sealed, AnyMail
  <1> HIDE DEF m
  <1>10. /\ Sound(q)
         /\ q.restart = f[p].restart
         /\ f[p].epoch > m.epoch => q = f[p]
         /\ (f[p].epoch = m.epoch /\ f[p].psk = m.psk) => Took(q, m.epoch, m.psk)
         /\ (f[p].epoch <= m.epoch /\ m.init) =>
              \/ Took(q, m.epoch, m.psk)
              \/ q = f[p] /\ f[p].epoch = m.epoch /\ f[p].init /\ f[p].psk # None /\ f[p].psk < m.psk
    BY <1>2, <1>9, TakenSound
  <1>11. q.heard \in {f[p].heard, ts}
    BY <1>2, <1>9, TakenHeard
  <1> HIDE DEF q
  <1>12. Meets(f[p], v, q, ts)
    BY <1>6, <1>9, <1>10, <1>11 DEF Meets
  <1>13. /\ g = [x \in Device |-> g[x]]
         /\ g[d] = v /\ g[p] = q
    BY <1>1, <1>4 DEF Pair
  <1> HIDE DEF g
  <1>14. Pair(g)
    BY <1>1, <1>7, <1>10, <1>13 DEF Pair
  <1> QED
    BY <1>8, <1>12, <1>13, <1>14 DEF g, p

\* What the numbers in a row are.
LEMMA PairTypes ==
  ASSUME NEW f, Pair(f), NEW d \in Device
  PROVE  /\ f[d].epoch \in Epoch /\ f[d].epoch \in Nat /\ f[d].epoch \in 1..MaxEpoch
         /\ f[d].psk \in Nat /\ f[d].heard \in Nat /\ f[d].saved \in BOOLEAN
         /\ f[d].init \in BOOLEAN /\ f[d].restart \in BOOLEAN
  BY DEF Pair, Sound, AnyRow, Epoch

\* From a state of the pair, d first, four turns bring both to one session.
LEMMA ExchangeLemma ==
  ASSUME Agreement, HeardFits, NEW d \in Device, NEW s \in Spare, NEW t \in Spare,
         \A e \in Device : row[e].epoch + 2 <= MaxEpoch
  PROVE  LET after == Exchange(d, s, t)
         IN  /\ after[d].epoch = after[Peer(d)].epoch
             /\ after[d].psk = after[Peer(d)].psk
             /\ ~after[d].init /\ ~after[Peer(d)].init
  <1> DEFINE p  == Peer(d)
             d1 == Turn(row, d, s, clock[d] + 1)
             p1 == Turn(d1,  p, t, clock[p] + 1)
             d2 == Turn(p1,  d, t, clock[d] + 2)
             p2 == Turn(d2,  p, t, clock[p] + 2)
  <1>1. /\ p \in Device /\ Peer(p) = d /\ p # d
        /\ Inv /\ NoLockout
        /\ clock[d] \in Nat /\ clock[p] \in Nat
        /\ s \in Nat \ {0} /\ t \in Nat \ {0}
        /\ MaxEpoch \in Nat
    BY Peers, AgreementNoLockout, SpareAssumption, PairSessionAssumption DEF Agreement, Inv, TypeOK
  <1>2. Pair(row)
    BY <1>1, RowsAreSound DEF Pair, Inv, TypeOK
  <1>3. /\ row[d].heard <= clock[p] /\ row[p].heard <= clock[d]
        /\ row[d].heard \in Nat /\ row[p].heard \in Nat
    BY <1>1, <1>2, PairTypes DEF HeardFits
  <1>4. /\ row[d].epoch \in 1..MaxEpoch /\ row[p].epoch \in 1..MaxEpoch
        /\ row[d].epoch + 2 <= MaxEpoch /\ row[p].epoch + 2 <= MaxEpoch
    BY <1>1, <1>2, PairTypes
  \* Who is settled shares its session with the peer.
  <1>5. ASSUME NEW x \in Device, row[x].psk # None, ~row[x].init, ~row[x].restart
        PROVE  /\ row[x].epoch <= row[Peer(x)].epoch
               /\ row[x].epoch = row[Peer(x)].epoch => row[x].psk = row[Peer(x)].psk
    <2>1. row[x].saved
      BY <1>1, <1>5 DEF Inv, RowOK
    <2>2. Resolve(row[Peer(x)], row[x].epoch) = row[x].psk
      BY <1>1, <1>5, <2>1 DEF NoLockout, IsSettled
    <2>3. Peer(x) \in Device /\ Sound(row[Peer(x)])
      BY <1>2, Peers DEF Pair
    <2>4. row[x].epoch \in Epoch /\ row[x].epoch \in Nat /\ row[Peer(x)].epoch \in Nat
      BY <1>2, <2>3, PairTypes
    <2> QED
      BY <1>5, <2>2, <2>3, <2>4, SoundResolve
  \* The first turn.
  <1>6. /\ Pair(d1)
        /\ Goes(row[d], d1[d])
        /\ Meets(row[p], d1[d], d1[p], clock[d] + 1)
    <2>1. row[d].epoch + 1 \in Epoch
      BY <1>1, <1>4 DEF Epoch
    <2>2. clock[d] + 1 \in Nat /\ row[p].heard < clock[d] + 1
      BY <1>1, <1>3
    <2> QED
      BY <1>1, <1>2, <2>1, <2>2, TurnRows
  <1> HIDE DEF d1
  <1>7. /\ d1[d].epoch \in 1..MaxEpoch /\ d1[p].epoch \in 1..MaxEpoch
        /\ d1[d].psk \in Nat /\ d1[p].psk \in Nat
        /\ d1[d].heard \in Nat /\ d1[p].heard \in Nat
        /\ d1[d].init \in BOOLEAN /\ d1[p].init \in BOOLEAN
    BY <1>1, <1>6, PairTypes
  <1>8. /\ d1[d].heard <= clock[p]
        /\ d1[p].heard <= clock[d] + 1
        /\ row[d].epoch <= d1[d].epoch /\ d1[d].epoch + 1 <= MaxEpoch
        /\ ~d1[d].restart /\ d1[d].psk # None
    BY <1>1, <1>3, <1>4, <1>6, <1>7 DEF Goes, Meets, None
  \* The peer is ahead, has the session, or has a lower one that is not heard under.
  <1>9. \/ d1[p] = row[p] /\ d1[p].epoch > d1[d].epoch
        \/ Took(d1[p], d1[d].epoch, d1[d].psk)
        \/ /\ d1[p] = row[p] /\ d1[p].epoch = d1[d].epoch
           /\ d1[p].init /\ d1[p].psk # None /\ d1[p].psk < d1[d].psk
    <2>1. CASE row[p].epoch > d1[d].epoch
      BY <1>6, <2>1 DEF Meets
    <2>2. CASE row[p].epoch <= d1[d].epoch /\ d1[d].init
      BY <1>6, <2>2 DEF Meets
    <2>3. CASE row[p].epoch <= d1[d].epoch /\ ~d1[d].init
      <3>1. /\ row[d].psk # None /\ ~row[d].restart /\ ~row[d].init
            /\ d1[d].epoch = row[d].epoch /\ d1[d].psk = row[d].psk
        BY <1>6, <2>3 DEF Goes
      <3>2. row[p].epoch = d1[d].epoch /\ row[p].psk = d1[d].psk
        BY <1>4, <1>5, <2>3, <3>1
      <3> QED
        BY <1>6, <3>2 DEF Meets
    <2> QED
      BY <1>4, <1>7, <2>1, <2>2, <2>3
  <1>10. /\ d1[d].epoch <= d1[p].epoch
         /\ d1[p].restart => d1[p].epoch + 1 \in Epoch
    BY <1>1, <1>4, <1>7, <1>8, <1>9 DEF Took, Epoch
  \* The second turn.
  <1>11. /\ Pair(p1)
         /\ Goes(d1[p], p1[p])
         /\ Meets(d1[d], p1[p], p1[d], clock[p] + 1)
    <2>1. clock[p] + 1 \in Nat /\ d1[d].heard < clock[p] + 1
      BY <1>1, <1>7, <1>8
    <2> QED
      BY <1>1, <1>6, <1>10, <2>1, TurnRows
  <1> HIDE DEF p1
  <1>12. /\ p1[d].epoch \in 1..MaxEpoch /\ p1[p].epoch \in 1..MaxEpoch
         /\ p1[d].psk \in Nat /\ p1[p].psk \in Nat
         /\ p1[d].heard \in Nat /\ p1[p].heard \in Nat
         /\ p1[d].init \in BOOLEAN /\ p1[p].init \in BOOLEAN
    BY <1>1, <1>11, PairTypes
  <1>13. /\ p1[p].heard <= clock[d] + 1
         /\ p1[d].heard <= clock[p] + 1
         /\ ~p1[d].restart /\ ~p1[p].restart /\ p1[p].psk # None
    BY <1>1, <1>7, <1>8, <1>11, <1>12 DEF Goes, Meets, None
  <1>14. Took(p1[d], p1[p].epoch, p1[p].psk)
    <2>1. CASE p1[p].init /\ p1[p].epoch > d1[d].epoch
      BY <1>7, <1>11, <1>12, <2>1 DEF Meets
    <2>2. CASE p1[p].epoch > d1[p].epoch
      <3>1. p1[p].init
        BY <1>7, <1>11, <1>12, <2>2 DEF Goes
      <3>2. p1[p].epoch > d1[d].epoch
        BY <1>7, <1>10, <1>12, <2>2
      <3> QED
        BY <2>1, <3>1, <3>2
    <2>3. CASE d1[p].psk = None
      <3>1. d1[p].epoch > d1[d].epoch
        BY <1>8, <1>9, <2>3 DEF Took
      <3>2. p1[p].init /\ p1[p].epoch >= d1[p].epoch
        BY <1>7, <1>11, <1>12, <2>3 DEF Goes
      <3>3. p1[p].epoch > d1[d].epoch
        BY <1>7, <1>12, <3>1, <3>2
      <3> QED
        BY <2>1, <3>2, <3>3
    <2>4. CASE /\ d1[p].psk # None /\ ~d1[p].restart
               /\ p1[p].epoch = d1[p].epoch /\ p1[p].psk = d1[p].psk /\ p1[p].init = d1[p].init
      <3>1. CASE d1[p] = row[p] /\ d1[p].epoch > d1[d].epoch
        <4>1. p1[p].init
          <5>1. SUFFICES ASSUME ~row[p].init
                         PROVE  FALSE
            BY <1>12, <2>4, <3>1
          <5>2. row[p].epoch <= row[d].epoch
            BY <1>1, <1>5, <2>4, <3>1, <5>1
          <5> QED
            BY <1>4, <1>7, <1>8, <3>1, <5>2
        <4> QED
          BY <2>1, <2>4, <3>1, <4>1
      <3>2. CASE Took(d1[p], d1[d].epoch, d1[d].psk)
        BY <1>11, <2>4, <3>2 DEF Meets, Took
      <3>3. CASE /\ d1[p].epoch = d1[d].epoch
                 /\ d1[p].init /\ d1[p].psk # None /\ d1[p].psk < d1[d].psk
        <4>1. p1[p].init /\ d1[d].epoch <= p1[p].epoch /\ ~(d1[d].psk < p1[p].psk)
          BY <1>7, <1>12, <2>4, <3>3
        <4> QED
          BY <1>11, <4>1 DEF Meets
      <3> QED
        BY <1>9, <3>1, <3>2, <3>3
    <2> QED
      BY <1>7, <1>11, <1>12, <2>2, <2>3, <2>4 DEF Goes
  \* The third turn confirms the session at the peer.
  <1>15. /\ Pair(d2)
         /\ Goes(p1[d], d2[d])
         /\ Meets(p1[p], d2[d], d2[p], clock[d] + 2)
    <2>1. clock[d] + 2 \in Nat /\ p1[p].heard < clock[d] + 2
      BY <1>1, <1>12, <1>13
    <2> QED
      BY <1>1, <1>11, <1>13, <2>1, TurnRows
  <1> HIDE DEF d2
  <1>16. /\ d2[d].epoch = p1[p].epoch /\ d2[d].psk = p1[p].psk /\ ~d2[d].init
         /\ d2[d].heard = p1[d].heard
         /\ d2[d].psk # None
         /\ ~d2[p].restart
         /\ Took(d2[p], d2[d].epoch, d2[d].psk)
    <2>1. /\ d2[d].epoch = p1[p].epoch /\ d2[d].psk = p1[p].psk /\ ~d2[d].init
          /\ d2[d].heard = p1[d].heard
          /\ d2[d].psk # None
      BY <1>13, <1>14, <1>15 DEF Goes, Took
    <2>2. ~d2[p].restart /\ Took(d2[p], d2[d].epoch, d2[d].psk)
      BY <1>13, <1>15, <2>1 DEF Meets
    <2> QED
      BY <2>1, <2>2
  \* The fourth changes nothing more.
  <1>17. /\ Pair(p2)
         /\ Goes(d2[p], p2[p])
         /\ Meets(d2[d], p2[p], p2[d], clock[p] + 2)
    <2>1. clock[p] + 2 \in Nat /\ d2[d].heard < clock[p] + 2
      BY <1>1, <1>12, <1>13, <1>16
    <2> QED
      BY <1>1, <1>15, <1>16, <2>1, TurnRows
  <1> HIDE DEF p2
  <1>18. /\ p2[p].epoch = d2[d].epoch /\ p2[p].psk = d2[d].psk /\ ~p2[p].init
    BY <1>16, <1>17 DEF Goes, Took
  <1>19. Took(p2[d], p2[p].epoch, p2[p].psk)
    BY <1>17, <1>18 DEF Meets
  <1>20. Exchange(d, s, t) = p2
    BY DEF Exchange, p2, d2, p1, d1
  <1> QED
    BY <1>18, <1>19, <1>20 DEF Took

\* The property the runs check, in every state of the pair.
LEMMA AgreementConverges ==
  Agreement /\ HeardFits => ExchangeConverges
  <1> SUFFICES ASSUME Agreement, HeardFits, NEW d \in Device, NEW s \in Spare, NEW t \in Spare,
                      \A e \in Device : row[e].epoch + 2 <= MaxEpoch
               PROVE  LET after == Exchange(d, s, t)
                      IN  /\ after[Alice].epoch = after[Bob].epoch
                          /\ after[Alice].psk = after[Bob].psk
                          /\ ~after[Alice].init /\ ~after[Bob].init
    BY DEF ExchangeConverges
  <1> DEFINE after == Exchange(d, s, t)
  <1>1. /\ after[d].epoch = after[Peer(d)].epoch
        /\ after[d].psk = after[Peer(d)].psk
        /\ ~after[d].init /\ ~after[Peer(d)].init
    BY ExchangeLemma
  <1>2. (d = Alice /\ Peer(d) = Bob) \/ (d = Bob /\ Peer(d) = Alice)
    BY PairSessionAssumption DEF Device, Peer
  <1> HIDE DEF after
  <1> QED
    BY <1>1, <1>2 DEF after

-----------------------------------------------------------------------------
(***************************************************************************)
(* The theorems.                                                           *)
(***************************************************************************)

\* The invariant holds in every state the pair can reach.
THEOREM Invariance == Spec => []Inv
  BY InitInv, NextInv, PTL DEF Spec

\* Rows, envelopes and counters keep their types, whatever is lost,
\* duplicated, reordered, reset or cut short by a crash (a send or a receive).
THEOREM TypeCorrect == Spec => []TypeOK
  <1>1. Inv => TypeOK
    BY DEF Inv
  <1> QED
    BY <1>1, Invariance, PTL

\* AllocateSenderSeq and the restart of a restored session never hand out the
\* same (epoch, sender_seq) twice, for any number of sends, crashes and resets.
THEOREM NumbersUnique == Spec => []NeverRewinds
  <1>1. Inv => NeverRewinds
    BY DEF Inv
  <1> QED
    BY <1>1, Invariance, PTL

\* No send, reset, crash or adopted opener takes a device back to an earlier epoch.
THEOREM NoEpochRollback == Spec => EpochsOnlyGrow
  <1>1. Inv /\ [Next]_vars => [\A d \in Device : row[d].epoch <= row'[d].epoch]_vars
    BY NextInv DEF Advance
  <1> QED
    BY <1>1, Invariance, PTL DEF Spec, EpochsOnlyGrow

\* No lost, late, duplicated or crossing envelope, chat reset or crash leaves a
\* device sealing without key_init under a session that its peer does not hold.
THEOREM NoPairLockedOut == Spec => []NoLockout
  BY InitAgreement, NextAgreement, AgreementNoLockout, PTL DEF Spec

\* From every state the pair can reach, whatever was lost, crossed, reset or cut
\* short before, two undisturbed messages each way (EnsureE2ePublicMasterPsk and
\* ReconcileE2ePublicSession in turn) bring both devices to one confirmed session.
THEOREM PairConverges == Spec => []ExchangeConverges
  <1>1. Spec => [](Agreement /\ HeardFits)
    BY InitAgreement, InitHeard, NextAgreement, NextHeard, PTL DEF Spec
  <1> QED
    BY <1>1, AgreementConverges, PTL

=============================================================================
