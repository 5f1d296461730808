------------------------- MODULE GroupRosterProofs -------------------------
(***************************************************************************)
(* Proofs about GroupRoster, for any accounts, roles, preset and bounds.   *)
(*                                                                         *)
(* What the copies and the statements owe each other (Inv) needs of the    *)
(* rules only that they are a function of the statement and the live       *)
(* changes (SameLiveSameView): the owner's statement is the latest, each   *)
(* follows from the one before (Follows), and a copy with its device in it *)
(* has the rows of what it holds (Computed).                               *)
(*                                                                         *)
(* Who may be gone or back in the next statement (RosterInv) rests on what *)
(* the rules compute (RosterViewProofs): every statement, and the owner's  *)
(* rows when they are ahead of it, follow from a statement by changes that *)
(* were sent (Passed).                                                     *)
(***************************************************************************)
EXTENDS RosterViewProofs

Dated(H) == \A c \in H : c.base \in Nat

CopyFields == {"state", "meta", "at", "members", "admins", "held"}

Shape(c) ==
  /\ DOMAIN c = CopyFields
  /\ c.at \in Nat
  /\ c.meta \in Nat
  /\ Dated(c.held)

\* The rows are those of the statement and the changes held.
Computed(c, S) ==
  c.at # 0 /\ c.at = c.meta =>
      /\ c.members = View(S[c.at], c.held).members
      /\ c.admins = View(S[c.at], c.held).admins

CopyOK(d, c, S) ==
  /\ Shape(c)
  /\ c.at = 0 \/ c.at \in DOMAIN S
  /\ d \in c.members => Computed(c, S)

CopiesOK ==
  /\ copy = [d \in Accounts |-> copy[d]]
  /\ \A d \in Accounts : CopyOK(d, copy[d], stmts)

\* A later statement drops nothing an earlier one folded but what its floor passed.
Follows(s, t) ==
  /\ s.floor <= t.floor
  /\ \A c \in s.folded : c \in t.folded \/ ~ (c.base >= t.floor)

StatementOK(s) == s.floor \in Nat /\ Dated(s.folded) /\ Owner \notin s.to

StatementsOK ==
  /\ DOMAIN stmts \subseteq Nat
  /\ \A n \in DOMAIN stmts : StatementOK(stmts[n])
  /\ \A n, m \in DOMAIN stmts : n <= m => Follows(stmts[n], stmts[m])

OwnerAhead ==
  /\ copy[Owner].at \in DOMAIN stmts
  /\ copy[Owner].at # 0
  /\ copy[Owner].at <= copy[Owner].meta
  /\ \A n \in DOMAIN stmts : n <= copy[Owner].at

InviteOK(v) ==
  /\ DOMAIN v = {"by", "to", "epoch", "status"}
  /\ v.by \in Accounts /\ v.to \in Accounts \ {Owner} /\ v.epoch \in Nat

SentOK ==
  /\ \A v \in invites : InviteOK(v)
  /\ \A b \in bundles : b.to \in Accounts \ {Owner} /\ b.at \in DOMAIN stmts /\ Dated(b.held)
  /\ \A p \in publish : p.who \in Accounts \ {Owner}
  /\ Dated(signed)

Inv == CopiesOK /\ StatementsOK /\ OwnerAhead /\ SentOK

-----------------------------------------------------------------------------
(***************************************************************************)
(* The operators.                                                          *)
(***************************************************************************)

LEMMA OwnerIn == Owner \in Accounts
  BY RosterAssumption

\* A view depends on the changes held only by those that are live.
LEMMA SameLiveSameView ==
  ASSUME NEW s, NEW G, NEW H, Live(s, G) = Live(s, H)
  PROVE  View(s, G) = View(s, H)
  BY DEF View

LEMMA LiveOfLive ==
  ASSUME NEW s, NEW H
  PROVE  Live(s, Live(s, H)) = Live(s, H)
  BY DEF Live

LEMMA RefreshFacts ==
  ASSUME NEW c, NEW S, Shape(c)
  PROVE  LET r == Refresh(c, S) IN
         /\ Shape(r) /\ r.at = c.at /\ r.state = c.state
         /\ r.meta = c.meta \/ r.meta = c.at
         /\ c.at # 0 /\ c.at <= c.meta => r.meta = c.meta
         /\ Computed(r, S)
         /\ r = c \/ c.at = r.meta
  <1> DEFINE r == Refresh(c, S)
  <1>1. CASE c.at = 0 \/ c.at < c.meta
    BY <1>1 DEF Refresh, Computed, Shape
  <1>2. CASE ~ (c.at = 0 \/ c.at < c.meta)
    <2> DEFINE v == View(S[c.at], c.held)
    <2>1. r = [c EXCEPT !.members = v.members, !.admins = v.admins, !.meta = c.at,
                        !.held = Live(S[c.at], c.held)]
      BY <1>2 DEF Refresh
    <2>2. /\ DOMAIN r = CopyFields /\ r.at = c.at /\ r.state = c.state /\ r.meta = c.at
          /\ r.members = v.members /\ r.admins = v.admins /\ r.held = Live(S[c.at], c.held)
      BY <2>1 DEF Shape, CopyFields
    <2>3. Dated(r.held)
      BY <2>2 DEF Shape, Dated, Live
    <2>4. View(S[r.at], r.held) = v
      BY <2>2, LiveOfLive, SameLiveSameView
    <2> HIDE DEF v
    <2>5. Computed(r, S)
      BY <2>2, <2>4 DEF Computed
    <2> QED
      BY <1>2, <2>2, <2>3, <2>5 DEF Shape
  <1> QED
    BY <1>1, <1>2

LEMMA FinishFacts ==
  ASSUME NEW d, NEW c, NEW S, Shape(c)
  PROVE  LET f == Finish(d, c, S) IN
         /\ Shape(f) /\ f.at = c.at
         /\ f.meta = c.meta \/ f.meta = c.at
         /\ c.at # 0 /\ c.at <= c.meta => f.meta = c.meta
         /\ Computed(f, S)
  <1> DEFINE r == Refresh(c, S)
             f == Finish(d, c, S)
  <1>1. /\ Shape(r) /\ r.at = c.at
        /\ r.meta = c.meta \/ r.meta = c.at
        /\ c.at # 0 /\ c.at <= c.meta => r.meta = c.meta
        /\ Computed(r, S)
    BY RefreshFacts
  <1>2. f = r \/ f = [r EXCEPT !.state = "removed"]
    BY DEF Finish
  <1> HIDE DEF r, f
  <1>3. /\ DOMAIN f = CopyFields /\ f.at = r.at /\ f.meta = r.meta /\ f.held = r.held
        /\ f.members = r.members /\ f.admins = r.admins
    BY <1>1, <1>2 DEF Shape, CopyFields
  <1>4. Shape(f) /\ Computed(f, S)
    BY <1>1, <1>3 DEF Shape, Computed
  <1> QED
    BY <1>1, <1>3, <1>4 DEF f

\* The owner's next statement follows from the one it was made on.
LEMMA StatementFacts ==
  ASSUME Inv, NEW m, NEW r, NEW held, Dated(held), NEW e \in Nat, NEW event, NEW to,
         Owner \notin to
  PROVE  LET s == Statement(m, r, held, e, event, to) IN
         StatementOK(s) /\ Follows(stmts[copy[Owner].at], s)
  <1> DEFINE base == stmts[copy[Owner].at]
             v == View(base, held)
             floor == IF e > Lag /\ e - Lag > base.floor THEN e - Lag ELSE base.floor
             s == Statement(m, r, held, e, event, to)
  <1>1. StatementOK(base)
    BY DEF Inv, OwnerAhead, StatementsOK
  <1>2. floor \in Nat /\ base.floor <= floor
    BY <1>1, RosterAssumption DEF StatementOK
  <1>3. v.folds \subseteq held
    BY DEF View, Live
  <1>4. s.floor = floor /\ s.to = to /\ s.folded = {c \in base.folded \cup v.folds : c.base >= floor}
    BY DEF Statement
  <1> HIDE DEF s, floor, base, v
  <1>5. Dated(s.folded)
    BY <1>1, <1>3, <1>4 DEF StatementOK, Dated
  <1>6. Follows(base, s)
    BY <1>2, <1>4 DEF Follows
  <1> QED
    BY <1>2, <1>4, <1>5, <1>6 DEF StatementOK, s, base
-----------------------------------------------------------------------------
(***************************************************************************)
(* The two ways a step changes the copies: one copy changes, or the owner  *)
(* keeps a new statement.                                                  *)
(***************************************************************************)

Grows == \A n \in DOMAIN stmts : n \in DOMAIN stmts' /\ stmts'[n] = stmts[n]

LEMMA OneCopy ==
  ASSUME Inv, stmts' = stmts, NEW d \in Accounts, NEW c, CopyOK(d, c, stmts),
         d = Owner => c.at = copy[Owner].at /\ c.at <= c.meta,
         copy' = [copy EXCEPT ![d] = c]
  PROVE  CopiesOK' /\ StatementsOK' /\ OwnerAhead' /\ Grows
  <1>1. copy' = [x \in Accounts |-> IF x = d THEN c ELSE copy[x]]
    BY DEF Inv, CopiesOK
  <1>2. \A x \in Accounts : CopyOK(x, copy'[x], stmts)
    BY <1>1 DEF Inv, CopiesOK
  <1>3. CopiesOK'
    <2>1. \A x \in Accounts : CopyOK(x, copy[x], stmts)'
      BY <1>2 DEF CopyOK, Computed
    <2> QED
      BY <1>1, <2>1 DEF CopiesOK
  <1>4. StatementsOK'
    BY DEF Inv, StatementsOK, StatementOK, Follows
  <1>5. copy'[Owner].at = copy[Owner].at /\ copy'[Owner].at <= copy'[Owner].meta
    BY <1>1, OwnerIn DEF Inv, OwnerAhead
  <1> QED
    BY <1>3, <1>4, <1>5 DEF Inv, OwnerAhead, Grows

LEMMA OwnerStep ==
  ASSUME Inv, NEW e \in Nat, e > copy[Owner].at, NEW s, StatementOK(s),
         Follows(stmts[copy[Owner].at], s), NEW held, Dated(held), OwnerKeeps(s, e, held)
  PROVE  CopiesOK' /\ StatementsOK' /\ OwnerAhead' /\ Grows
  <1> PICK S : S = [n \in DOMAIN stmts \cup {e} |-> IF n = e THEN s ELSE stmts[n]]
    OBVIOUS
  <1> PICK c : c = [copy[Owner] EXCEPT !.at = e, !.meta = e, !.members = s.members,
                                       !.admins = s.admins, !.held = held]
    OBVIOUS
  <1>1. stmts' = S /\ copy' = [copy EXCEPT ![Owner] = Refresh(c, S)]
    BY DEF OwnerKeeps
  <1>2. \A n \in DOMAIN stmts : n \in Nat /\ n < e
    BY DEF Inv, StatementsOK, OwnerAhead, CopiesOK, CopyOK, Shape
  <1>3. \A n \in DOMAIN stmts : n \in DOMAIN S /\ S[n] = stmts[n]
    BY <1>2
  <1>4. e \in DOMAIN S /\ S[e] = s
    OBVIOUS
  <1>5. Shape(c) /\ c.at = e /\ c.meta = e
    <2>1. DOMAIN copy[Owner] = CopyFields
      BY OwnerIn DEF Inv, CopiesOK, CopyOK, Shape
    <2>2. DOMAIN c = CopyFields /\ c.at = e /\ c.meta = e /\ c.held = held
      BY <2>1 DEF CopyFields
    <2> QED
      BY <2>2 DEF Shape
  <1>6. e # 0
    BY OwnerIn DEF Inv, CopiesOK, CopyOK, Shape
  <1> PICK r : r = Refresh(c, S)
    OBVIOUS
  <1>7. Shape(r) /\ r.at = e /\ r.meta = e /\ Computed(r, S)
    BY <1>5, RefreshFacts
  <1>8. copy' = [x \in Accounts |-> IF x = Owner THEN r ELSE copy[x]]
    BY <1>1 DEF Inv, CopiesOK
  <1>9. CopiesOK'
    <2>1. CopyOK(Owner, r, S)
      BY <1>4, <1>7 DEF CopyOK
    <2>2. ASSUME NEW x \in Accounts
          PROVE  CopyOK(x, copy[x], S)
      <3>1. CopyOK(x, copy[x], stmts)
        BY DEF Inv, CopiesOK
      <3>2. CASE copy[x].at = 0
        BY <3>1, <3>2 DEF CopyOK, Computed
      <3>3. CASE copy[x].at # 0
        BY <3>1, <3>3, <1>3 DEF CopyOK, Computed
      <3> QED
        BY <3>2, <3>3
    <2>3. \A x \in Accounts : CopyOK(x, copy'[x], S)
      BY <1>8, <2>1, <2>2
    <2>4. \A x \in Accounts : CopyOK(x, copy[x], stmts)'
      BY <2>3, <1>1 DEF CopyOK, Computed
    <2> QED
      BY <1>8, <2>4 DEF CopiesOK
  <1>10. StatementsOK'
    <2>1. DOMAIN S \subseteq Nat /\ \A n \in DOMAIN S : StatementOK(S[n])
      BY <1>2, <1>3, <1>4 DEF Inv, StatementsOK
    <2>2. ASSUME NEW n \in DOMAIN S, NEW m \in DOMAIN S, n <= m
          PROVE  Follows(S[n], S[m])
      <3>1. CASE m # e
        <4>1. n # e
          BY <1>2, <2>2, <3>1
        <4> QED
          BY <1>3, <2>2, <3>1, <4>1 DEF Inv, StatementsOK
      <3>2. CASE m = e /\ n = e
        BY <1>4, <2>1, <3>2 DEF Follows, StatementOK, Dated
      <3>3. CASE m = e /\ n # e
        <4> PICK o : o = copy[Owner].at
          OBVIOUS
        <4>1. n \in DOMAIN stmts /\ o \in DOMAIN stmts /\ n <= o
          BY <3>3 DEF Inv, OwnerAhead
        <4>2. Follows(stmts[n], stmts[o])
          BY <4>1 DEF Inv, StatementsOK
        <4>3. StatementOK(stmts[n]) /\ StatementOK(stmts[o])
          BY <4>1 DEF Inv, StatementsOK
        <4>4. Follows(stmts[n], s)
          <5>1. Follows(stmts[o], s)
            OBVIOUS
          <5> QED
            BY <4>2, <4>3, <5>1 DEF Follows, StatementOK, Dated
        <4> QED
          BY <1>3, <1>4, <3>3, <4>1, <4>4
      <3> QED
        BY <3>1, <3>2, <3>3
    <2>3. /\ DOMAIN stmts' \subseteq Nat
          /\ \A n \in DOMAIN stmts' : StatementOK(stmts'[n])
          /\ \A n, m \in DOMAIN stmts' : n <= m => Follows(stmts'[n], stmts'[m])
      BY <1>1, <2>1, <2>2
    <2> QED
      BY <2>3 DEF StatementsOK, Follows, StatementOK, Dated
  <1>11. OwnerAhead'
    <2>1. copy'[Owner].at = e /\ copy'[Owner].meta = e
      BY <1>7, <1>8, OwnerIn
    <2>2. \A n \in DOMAIN S : n <= e
      BY <1>2
    <2> QED
      BY <1>1, <1>4, <1>6, <2>1, <2>2 DEF OwnerAhead
  <1> QED
    BY <1>1, <1>3, <1>9, <1>10, <1>11 DEF Grows
LEMMA SignsStep ==
  ASSUME Inv, NEW event, NEW to, Owner \notin to, Signs(event, to)
  PROVE  CopiesOK' /\ StatementsOK' /\ OwnerAhead' /\ Grows
  <1> PICK c : c = copy[Owner]
    OBVIOUS
  <1>1. Shape(c) /\ c.at <= c.meta
    BY OwnerIn DEF Inv, CopiesOK, CopyOK, OwnerAhead
  <1>2. NextEpoch \in Nat /\ NextEpoch > c.at
    BY <1>1 DEF NextEpoch, Shape
  <1> PICK s : s = Statement(c.members, c.admins, c.held, NextEpoch, event, to)
    OBVIOUS
  <1>3. StatementOK(s) /\ Follows(stmts[c.at], s)
    BY <1>1, <1>2, StatementFacts DEF Shape
  <1>4. OwnerKeeps(s, NextEpoch, c.held)
    BY DEF Signs
  <1> QED
    BY <1>1, <1>2, <1>3, <1>4, OwnerStep DEF Shape

\* An invite changes its status, and nothing else.
LEMMA OnlyStatus ==
  ASSUME NEW v, InviteOK(v), NEW st
  PROVE  InviteOK([v EXCEPT !.status = st])
  <1> PICK w : w = [v EXCEPT !.status = st]
    OBVIOUS
  <1>1. /\ DOMAIN w = {"by", "to", "epoch", "status"}
        /\ w.by = v.by /\ w.to = v.to /\ w.epoch = v.epoch
    BY DEF InviteOK
  <1> QED
    BY <1>1 DEF InviteOK

LEMMA BecomesRows ==
  ASSUME Inv, NEW v \in invites, NEW st, Becomes(v, st)
  PROVE  \A w \in invites' : InviteOK(w)
  <1>1. \A w \in invites : InviteOK(w)
    BY DEF Inv, SentOK
  <1>2. InviteOK([v EXCEPT !.status = st])
    BY <1>1, OnlyStatus
  <1> QED
    BY <1>1, <1>2 DEF Becomes

LEMMA ExpireRows ==
  ASSUME Inv, NEW d, NEW x, Expire(d, x)
  PROVE  \A w \in invites' : InviteOK(w)
  <1>1. ASSUME NEW v \in invites
        PROVE  /\ InviteOK(v)
               /\ InviteOK([v EXCEPT !.status = "expired"])
               /\ InviteOK([v EXCEPT !.status = "closed"])
    <2>1. InviteOK(v)
      BY DEF Inv, SentOK
    <2> QED
      BY <2>1, OnlyStatus
  <1> QED
    BY <1>1 DEF Expire

LEMMA DraftDated ==
  ASSUME Inv, NEW d \in Accounts, NEW id, NEW kind, NEW m, NEW adds, NEW keeps, NEW readmits, NEW to
  PROVE  Draft(d, id, kind, m, adds, keeps, readmits, to).base \in Nat
  BY DEF Draft, Inv, CopiesOK, CopyOK, Shape

\* A device that holds more changes, and maybe a statement further on.
TakesOn(d, at, H) == [copy[d] EXCEPT !.at = at, !.held = copy[d].held \cup H]

LEMMA HoldsMore ==
  ASSUME Inv, NEW d \in Accounts, NEW H, Dated(H), NEW at,
         at = copy[d].at \/ (d # Owner /\ at \in DOMAIN stmts)
  PROVE  LET c == TakesOn(d, at, H) IN
         /\ Shape(c) /\ c.at = at /\ c.meta = copy[d].meta /\ c.members = copy[d].members
         /\ at = 0 \/ at \in DOMAIN stmts
         /\ d = Owner => c.at = copy[Owner].at /\ c.at # 0 /\ c.at <= c.meta
  <1> PICK c : c = TakesOn(d, at, H)
    OBVIOUS
  <1>1. Shape(copy[d]) /\ (copy[d].at = 0 \/ copy[d].at \in DOMAIN stmts)
    BY DEF Inv, CopiesOK, CopyOK
  <1>2. at \in Nat
    BY <1>1 DEF Shape, Inv, StatementsOK
  <1>3. /\ DOMAIN c = CopyFields /\ c.at = at /\ c.meta = copy[d].meta
        /\ c.members = copy[d].members /\ c.held = copy[d].held \cup H
    BY <1>1 DEF TakesOn, Shape, CopyFields
  <1>4. Shape(c)
    BY <1>1, <1>2, <1>3 DEF Shape, Dated
  <1> QED
    BY <1>1, <1>3, <1>4 DEF Inv, OwnerAhead

LEMMA HoldsOnly ==
  ASSUME Inv, NEW d \in Accounts, NEW H
  PROVE  TakesOn(d, copy[d].at, H) = [copy[d] EXCEPT !.held = copy[d].held \cup H]
  BY DEF TakesOn, Inv, CopiesOK, CopyOK, Shape, CopyFields

\* ... and computes its rows from them.
LEMMA Recomputes ==
  ASSUME Inv, NEW d \in Accounts, NEW c, NEW r,
         r = Refresh(c, stmts) \/ r = Finish(d, c, stmts),
         Shape(c), c.at = 0 \/ c.at \in DOMAIN stmts,
         d = Owner => c.at = copy[Owner].at /\ c.at # 0 /\ c.at <= c.meta
  PROVE  /\ CopyOK(d, r, stmts) /\ r.at = c.at
         /\ d = Owner => r.at = copy[Owner].at /\ r.at <= r.meta
  <1>1. /\ Shape(r) /\ r.at = c.at /\ Computed(r, stmts)
        /\ c.at # 0 /\ c.at <= c.meta => r.meta = c.meta
    BY RefreshFacts, FinishFacts
  <1> QED
    BY <1>1 DEF CopyOK

-----------------------------------------------------------------------------
(***************************************************************************)
(* Coming in.                                                              *)
(***************************************************************************)

\* What a step changes is well formed again.
Good == Inv' /\ Grows

LEMMA Kept ==
  ASSUME CopiesOK' /\ StatementsOK' /\ OwnerAhead' /\ Grows,
         \A v \in invites' : InviteOK(v),
         \A b \in bundles' : /\ b.to \in Accounts \ {Owner} /\ b.at \in DOMAIN stmts \cup DOMAIN stmts'
                             /\ Dated(b.held),
         \A p \in publish' : p.who \in Accounts \ {Owner}, Dated(signed')
  PROVE  Good
  <1>1. SentOK'
    BY DEF SentOK, Grows, Dated, InviteOK
  <1> QED
    BY <1>1 DEF Good, Inv

LEMMA NoCopyChanges ==
  ASSUME Inv, UNCHANGED <<copy, stmts>>
  PROVE  CopiesOK' /\ StatementsOK' /\ OwnerAhead' /\ Grows
  BY DEF Inv, CopiesOK, CopyOK, Computed, StatementsOK, StatementOK, Follows, OwnerAhead, Grows

LEMMA InviteStep ==
  ASSUME Inv, NEW i \in Accounts, NEW x \in Accounts, Invite(i, x)
  PROVE  Good
  <1>1. copy[i].meta \in Nat
    BY DEF Inv, CopiesOK, CopyOK, Shape
  <1>2. \A v \in invites' : InviteOK(v)
    BY <1>1 DEF Invite, Inv, SentOK, InviteOK
  <1> QED
    BY <1>2, NoCopyChanges, Kept DEF Invite, Inv, SentOK

LEMMA AcceptStep ==
  ASSUME Inv, NEW v \in invites, Accept(v)
  PROVE  Good
  <1>1. v.to \in Accounts \ {Owner} /\ v.epoch \in Nat
    BY DEF Inv, SentOK, InviteOK
  <1> PICK c : c = [copy[v.to] EXCEPT !.state = "active", !.meta = v.epoch, !.at = 0,
                                   !.members = copy[v.to].members \cup {Owner, v.by, v.to},
                                   !.admins = copy[v.to].admins \ {v.by, v.to}]
    OBVIOUS
  <1>2. Shape(copy[v.to])
    BY <1>1 DEF Inv, CopiesOK, CopyOK
  <1>3. DOMAIN c = CopyFields /\ c.at = 0 /\ c.meta = v.epoch /\ c.held = copy[v.to].held
    BY <1>2 DEF Shape, CopyFields
  <1>4. CopyOK(v.to, c, stmts)
    BY <1>1, <1>2, <1>3 DEF CopyOK, Shape, Computed
  <1>5. copy' = [copy EXCEPT ![v.to] = c] /\ stmts' = stmts
    BY DEF Accept
  <1>6. \A w \in invites' : InviteOK(w)
    <2> PICK st : st = IF v.status = "sent" THEN "accepted" ELSE "closed"
      OBVIOUS
    <2>1. Becomes(v, st)
      BY DEF Accept
    <2> QED
      BY <2>1, BecomesRows
  <1> QED
    BY <1>1, <1>4, <1>5, <1>6, OneCopy, Kept DEF Accept, Inv, SentOK

LEMMA TakeRefusalStep ==
  ASSUME Inv, NEW v \in invites, TakeRefusal(v)
  PROVE  Good
  <1>1. v.to \in Accounts \ {Owner}
    BY DEF Inv, SentOK, InviteOK
  <1> PICK c : c = [copy[v.to] EXCEPT !.members = copy[v.to].members \ {v.to}, !.state = "removed"]
    OBVIOUS
  <1>2. Shape(copy[v.to]) /\ (copy[v.to].at = 0 \/ copy[v.to].at \in DOMAIN stmts)
    BY <1>1 DEF Inv, CopiesOK, CopyOK
  <1>3. /\ DOMAIN c = CopyFields /\ c.at = copy[v.to].at /\ c.meta = copy[v.to].meta
        /\ c.held = copy[v.to].held /\ c.members = copy[v.to].members \ {v.to}
    BY <1>2 DEF Shape, CopyFields
  <1>4. CopyOK(v.to, c, stmts)
    BY <1>2, <1>3 DEF CopyOK, Shape
  <1>5. copy' = [copy EXCEPT ![v.to] = c] /\ stmts' = stmts
    BY DEF TakeRefusal
  <1>6. \A w \in invites' : InviteOK(w)
    <2>1. Becomes(v, "closed")
      BY DEF TakeRefusal
    <2> QED
      BY <2>1, BecomesRows
  <1> QED
    BY <1>1, <1>4, <1>5, <1>6, OneCopy, Kept DEF TakeRefusal, Inv, SentOK

LEMMA RefuseStep ==
  ASSUME Inv, NEW v \in invites, Refuse(v)
  PROVE  Good
  <1>1. \A w \in invites' : InviteOK(w)
    <2>1. Becomes(v, "refused")
      BY DEF Refuse
    <2> QED
      BY <2>1, BecomesRows
  <1> QED
    BY <1>1, NoCopyChanges, Kept DEF Refuse, Inv, SentOK

LEMMA PublishFailsStep ==
  ASSUME Inv, NEW p \in publish, PublishFails(p)
  PROVE  Good
  BY NoCopyChanges, Kept DEF PublishFails, Inv, SentOK

LEMMA OwnerTakesStep ==
  ASSUME Inv, NEW v \in invites, OwnerTakes(v)
  PROVE  Good
  <1> PICK o : o = copy[Owner]
    OBVIOUS
  <1> PICK c : c = [o EXCEPT !.members = o.members \cup {v.to}, !.admins = o.admins \ {v.to},
                             !.meta = o.meta + 1]
    OBVIOUS
  <1>1. /\ Shape(o) /\ o.at \in DOMAIN stmts /\ o.at <= o.meta
        /\ v.to \in Accounts \ {Owner}
    BY OwnerIn DEF Inv, CopiesOK, CopyOK, OwnerAhead, SentOK, InviteOK
  <1>2. DOMAIN c = CopyFields /\ c.at = o.at /\ c.meta = o.meta + 1 /\ c.held = o.held
    BY <1>1 DEF Shape, CopyFields
  <1>3. CopyOK(Owner, c, stmts) /\ c.at <= c.meta
    BY <1>1, <1>2 DEF CopyOK, Shape, Computed
  <1>4. copy' = [copy EXCEPT ![Owner] = c] /\ stmts' = stmts
    BY DEF OwnerTakes
  <1>5. CopiesOK' /\ StatementsOK' /\ OwnerAhead' /\ Grows
    BY <1>2, <1>3, <1>4, OneCopy, OwnerIn
  <1>6. \A w \in invites' : InviteOK(w)
    <2>1. Becomes(v, "closed")
      BY DEF OwnerTakes
    <2> QED
      BY <2>1, BecomesRows
  <1>7. \A p \in publish' : p.who \in Accounts \ {Owner}
    BY <1>1 DEF OwnerTakes, Inv, SentOK
  <1> QED
    BY <1>5, <1>6, <1>7, Kept DEF OwnerTakes, Inv, SentOK

LEMMA PublishMemberJoinedStep ==
  ASSUME Inv, NEW p \in publish, PublishMemberJoined(p)
  PROVE  Good
  <1>1. CopiesOK' /\ StatementsOK' /\ OwnerAhead' /\ Grows
    <2>1. CASE SaysNew
      <3> PICK to : to = copy[Owner].members \ {Owner, p.who}
        OBVIOUS
      <3>1. Signs(p.epoch, to) /\ Owner \notin to
        BY <2>1 DEF PublishMemberJoined
      <3> QED
        BY <3>1, SignsStep
    <2>2. CASE ~ SaysNew
      BY <2>2, NoCopyChanges DEF PublishMemberJoined
    <2> QED
      BY <2>1, <2>2
  <1>2. p.who \in Accounts \ {Owner} /\ copy'[Owner].at \in DOMAIN stmts'
    BY <1>1 DEF OwnerAhead, Inv, SentOK
  <1>3. \A b \in bundles' : \/ b \in bundles
                            \/ b = [to |-> p.who, at |-> copy'[Owner].at, held |-> {}]
    BY DEF PublishMemberJoined
  <1>4. \A b \in bundles' : /\ b.to \in Accounts \ {Owner} /\ b.at \in DOMAIN stmts'
                            /\ Dated(b.held)
    BY <1>1, <1>2, <1>3 DEF Inv, SentOK, Grows, Dated
  <1> QED
    BY <1>1, <1>4, Kept DEF PublishMemberJoined, Inv, SentOK

\* A bundle of a copy has a statement there is.
LEMMA BundleSent ==
  ASSUME Inv, NEW x \in Accounts \ {Owner}, NEW d, NEW c, CopyOK(d, c, stmts), Bundle(x, c)
  PROVE  \A b \in bundles' : /\ b.to \in Accounts \ {Owner} /\ b.at \in DOMAIN stmts
                             /\ Dated(b.held)
  BY DEF Inv, SentOK, Bundle, CopyOK, Shape

LEMMA AdmitStep ==
  ASSUME Inv, NEW v \in invites, NEW id, Admit(v, id)
  PROVE  Good
  <1>1. v.by \in Accounts /\ v.to \in Accounts \ {Owner} /\ v.by # Owner
    BY DEF Inv, SentOK, InviteOK, Admit
  <1> PICK a : a = Draft(v.by, id, "add", v.to, {}, {}, RemovalOf(v.by, v.to),
                         copy[v.by].members \ {v.by})
    OBVIOUS
  <1> PICK h : h = TakesOn(v.by, copy[v.by].at, {a})
    OBVIOUS
  <1> PICK c : c = Refresh(h, stmts)
    OBVIOUS
  <1>2. Dated({a})
    BY <1>1, DraftDated DEF Dated
  <1>3. Shape(h) /\ h.at = copy[v.by].at /\ (h.at = 0 \/ h.at \in DOMAIN stmts)
    BY <1>1, <1>2, HoldsMore
  <1>4. CopyOK(v.by, c, stmts)
    BY <1>1, <1>3, Recomputes
  <1>5. h = [copy[v.by] EXCEPT !.held = copy[v.by].held \cup {a}]
    BY <1>1, HoldsOnly
  <1>6. CASE v.to \in c.members
    <2>1. /\ copy' = [copy EXCEPT ![v.by] = c] /\ signed' = signed \cup {a}
          /\ Becomes(v, "closed") /\ Bundle(v.to, c)
          /\ stmts' = stmts /\ publish' = publish
      BY <1>5, <1>6 DEF Admit
    <2>2. CopiesOK' /\ StatementsOK' /\ OwnerAhead' /\ Grows
      BY <1>1, <1>4, <2>1, OneCopy
    <2>3. \A w \in invites' : InviteOK(w)
      BY <2>1, BecomesRows
    <2>4. Dated(signed')
      BY <1>2, <2>1 DEF Dated, Inv, SentOK
    <2> QED
      BY <1>1, <1>4, <2>1, <2>2, <2>3, <2>4, BundleSent, Kept DEF Inv, SentOK
  <1>7. CASE v.to \notin c.members
    <2>1. Becomes(v, "refused") /\ UNCHANGED <<copy, signed, bundles, stmts, publish>>
      BY <1>5, <1>7 DEF Admit
    <2>2. \A w \in invites' : InviteOK(w)
      BY <2>1, BecomesRows
    <2> QED
      BY <2>1, <2>2, NoCopyChanges, Kept DEF Inv, SentOK
  <1> QED
    BY <1>6, <1>7

LEMMA ResendBundleStep ==
  ASSUME Inv, NEW v \in invites, ResendBundle(v)
  PROVE  Good
  <1>1. v.by \in Accounts /\ v.to \in Accounts \ {Owner}
    BY DEF Inv, SentOK, InviteOK
  <1>2. CopyOK(v.by, copy[v.by], stmts)
    BY <1>1 DEF Inv, CopiesOK
  <1>3. Becomes(v, "closed") /\ Bundle(v.to, copy[v.by]) /\ UNCHANGED <<copy, stmts, signed, publish>>
    BY DEF ResendBundle
  <1>4. \A w \in invites' : InviteOK(w)
    BY <1>3, BecomesRows
  <1> QED
    BY <1>1, <1>2, <1>3, <1>4, BundleSent, NoCopyChanges, Kept DEF Inv, SentOK

\* A device takes on a statement and changes, and finishes its view of them; its state is
\* whatever the step says.
LEMMA Finishes ==
  ASSUME Inv, NEW d \in Accounts, NEW H, Dated(H), NEW at,
         at = copy[d].at \/ (d # Owner /\ at \in DOMAIN stmts),
         NEW c, NEW st,
         \/ c = Finish(d, TakesOn(d, at, H), stmts)
         \/ c = [Finish(d, TakesOn(d, at, H), stmts) EXCEPT !.state = st],
         stmts' = stmts, copy' = [copy EXCEPT ![d] = c]
  PROVE  CopiesOK' /\ StatementsOK' /\ OwnerAhead' /\ Grows
  <1> PICK h : h = TakesOn(d, at, H)
    OBVIOUS
  <1> PICK r : r = Finish(d, h, stmts)
    OBVIOUS
  <1>1. /\ Shape(h) /\ (h.at = 0 \/ h.at \in DOMAIN stmts)
        /\ d = Owner => h.at = copy[Owner].at /\ h.at # 0 /\ h.at <= h.meta
    BY HoldsMore
  <1>2. /\ CopyOK(d, r, stmts)
        /\ d = Owner => r.at = copy[Owner].at /\ r.at <= r.meta
    BY <1>1, Recomputes
  <1>3. c = r \/ c = [r EXCEPT !.state = st]
    OBVIOUS
  <1>4. /\ DOMAIN c = CopyFields /\ c.at = r.at /\ c.meta = r.meta /\ c.held = r.held
        /\ c.members = r.members /\ c.admins = r.admins
    BY <1>2, <1>3 DEF CopyOK, Shape, CopyFields
  <1>5. CopyOK(d, c, stmts)
    BY <1>2, <1>4 DEF CopyOK, Shape, Computed
  <1> QED
    BY <1>2, <1>4, <1>5, OneCopy

LEMMA TakeBundleStep ==
  ASSUME Inv, NEW b \in bundles, TakeBundle(b)
  PROVE  Good
  <1>1. b.to \in Accounts \ {Owner} /\ b.at \in DOMAIN stmts /\ Dated(b.held)
    BY DEF Inv, SentOK
  <1> PICK d \in Accounts : d = b.to /\ d # Owner
    BY <1>1
  <1> PICK at : at = IF b.at > copy[d].at THEN b.at ELSE copy[d].at
    OBVIOUS
  <1>2. /\ stmts' = stmts
        /\ copy' = [copy EXCEPT ![d] = Finish(d, TakesOn(d, at, b.held), stmts)]
    BY DEF TakeBundle, TakesOn
  <1>3. at = copy[d].at \/ (d # Owner /\ at \in DOMAIN stmts)
    BY <1>1
  <1>4. CopiesOK' /\ StatementsOK' /\ OwnerAhead' /\ Grows
    BY <1>1, <1>2, <1>3, Finishes
  <1> QED
    BY <1>4, Kept DEF TakeBundle, Inv, SentOK

-----------------------------------------------------------------------------
(***************************************************************************)
(* Going out.                                                              *)
(***************************************************************************)

LEMMA RemoveDraftDated ==
  ASSUME Inv, NEW d \in Accounts, NEW id, NEW m, NEW to
  PROVE  Dated({RemoveDraft(d, id, m, to)})
  BY DraftDated DEF RemoveDraft, Dated

LEMMA AdminRemovesStep ==
  ASSUME Inv, NEW d \in Accounts, NEW m, NEW id, AdminRemoves(d, m, id)
  PROVE  Good
  <1> PICK r : r = RemoveDraft(d, id, m, copy[d].members \ {d})
    OBVIOUS
  <1> PICK h : h = TakesOn(d, copy[d].at, {r})
    OBVIOUS
  <1> PICK c : c = Refresh(h, stmts)
    OBVIOUS
  <1>1. Dated({r})
    BY RemoveDraftDated
  <1>2. /\ Shape(h) /\ (h.at = 0 \/ h.at \in DOMAIN stmts)
        /\ d = Owner => h.at = copy[Owner].at /\ h.at # 0 /\ h.at <= h.meta
    BY <1>1, HoldsMore
  <1>3. /\ CopyOK(d, c, stmts)
        /\ d = Owner => c.at = copy[Owner].at /\ c.at <= c.meta
    BY <1>2, Recomputes
  <1>4. h = [copy[d] EXCEPT !.held = copy[d].held \cup {r}]
    BY HoldsOnly
  <1>5. copy' = [copy EXCEPT ![d] = c] /\ stmts' = stmts /\ signed' = signed \cup {r}
    BY <1>4 DEF AdminRemoves
  <1>6. CopiesOK' /\ StatementsOK' /\ OwnerAhead' /\ Grows
    BY <1>3, <1>5, OneCopy
  <1>7. \A w \in invites' : InviteOK(w)
    BY ExpireRows DEF AdminRemoves
  <1>8. Dated(signed')
    BY <1>1, <1>5 DEF Dated, Inv, SentOK
  <1> QED
    BY <1>6, <1>7, <1>8, Kept DEF AdminRemoves, Inv, SentOK

LEMMA OwnerRemovesStep ==
  ASSUME Inv, NEW m, NEW id, OwnerRemoves(m, id)
  PROVE  Good
  <1> PICK r : r = RemoveDraft(Owner, id, m, {})
    OBVIOUS
  <1> PICK c : c = copy[Owner]
    OBVIOUS
  <1> PICK held : held = c.held \cup {r}
    OBVIOUS
  <1> PICK e : e = c.meta + 1
    OBVIOUS
  <1> PICK to : to = ((c.members \ {m}) \ {Owner}) \cup {m}
    OBVIOUS
  <1> PICK s : s = Statement(c.members \ {m}, c.admins \ {m}, held, e, e, to)
    OBVIOUS
  <1>1. Dated({r})
    BY OwnerIn, RemoveDraftDated
  <1>2. Shape(c) /\ c.at <= c.meta
    BY OwnerIn DEF Inv, CopiesOK, CopyOK, OwnerAhead
  <1>3. Dated(held) /\ e \in Nat /\ e > c.at
    BY <1>1, <1>2 DEF Shape, Dated
  <1>4. Owner \notin to
    BY DEF OwnerRemoves, MayRemoveNow
  <1>5. StatementOK(s) /\ Follows(stmts[c.at], s)
    BY <1>3, <1>4, StatementFacts
  <1>6. OwnerKeeps(s, e, held) /\ signed' = signed \cup {r}
    BY DEF OwnerRemoves
  <1>7. CopiesOK' /\ StatementsOK' /\ OwnerAhead' /\ Grows
    BY <1>3, <1>5, <1>6, OwnerStep
  <1>8. \A w \in invites' : InviteOK(w)
    BY ExpireRows DEF OwnerRemoves
  <1>9. Dated(signed')
    BY <1>1, <1>6 DEF Dated, Inv, SentOK
  <1> QED
    BY <1>7, <1>8, <1>9, Kept DEF OwnerRemoves, Inv, SentOK

LEMMA LeaveStep ==
  ASSUME Inv, NEW d \in Accounts, NEW id, Leave(d, id)
  PROVE  Good
  <1> PICK l : l = Draft(d, id, "leave", d, AddsOf(copy[d].held, d), SignedBy(copy[d].held, d),
                         NoId, copy[d].members \ {d})
    OBVIOUS
  <1> PICK h : h = TakesOn(d, copy[d].at, {l})
    OBVIOUS
  <1> PICK r : r = Refresh(h, stmts)
    OBVIOUS
  <1> PICK c : c = [r EXCEPT !.members = r.members \ {d}]
    OBVIOUS
  <1>1. Dated({l}) /\ d # Owner
    BY DraftDated DEF Dated, Leave
  <1>2. Shape(h) /\ (h.at = 0 \/ h.at \in DOMAIN stmts)
    BY <1>1, HoldsMore
  <1>3. Shape(r) /\ r.at = h.at
    BY <1>2, RefreshFacts
  <1>4. /\ DOMAIN c = CopyFields /\ c.at = r.at /\ c.meta = r.meta /\ c.held = r.held
        /\ d \notin c.members
    BY <1>3 DEF Shape, CopyFields
  <1>5. CopyOK(d, c, stmts)
    BY <1>2, <1>3, <1>4 DEF CopyOK, Shape
  <1>6. h = [copy[d] EXCEPT !.held = copy[d].held \cup {l}]
    BY HoldsOnly
  <1>7. copy' = [copy EXCEPT ![d] = c] /\ stmts' = stmts /\ signed' = signed \cup {l}
    BY <1>6 DEF Leave
  <1>8. CopiesOK' /\ StatementsOK' /\ OwnerAhead' /\ Grows
    BY <1>1, <1>5, <1>7, OneCopy
  <1>9. Dated(signed')
    BY <1>1, <1>7 DEF Dated, Inv, SentOK
  <1> QED
    BY <1>8, <1>9, Kept DEF Leave, Inv, SentOK

-----------------------------------------------------------------------------
(***************************************************************************)
(* What reaches the others, and the fold.                                  *)
(***************************************************************************)

LEMMA ReceiveStep ==
  ASSUME Inv, NEW d \in Accounts, NEW c \in signed, Receive(d, c)
  PROVE  Good
  <1>1. Dated({c})
    BY DEF Inv, SentOK, Dated
  <1>2. /\ stmts' = stmts
        /\ copy' = [copy EXCEPT ![d] = Finish(d, TakesOn(d, copy[d].at, {c}), stmts)]
    BY HoldsOnly DEF Receive
  <1>3. CopiesOK' /\ StatementsOK' /\ OwnerAhead' /\ Grows
    BY <1>1, <1>2, Finishes
  <1> QED
    BY <1>3, Kept DEF Receive, Inv, SentOK

LEMMA ReceiveStatementStep ==
  ASSUME Inv, NEW d \in Accounts, NEW e \in DOMAIN stmts, ReceiveStatement(d, e)
  PROVE  Good
  <1> PICK r : r = Finish(d, TakesOn(d, e, {}), stmts)
    OBVIOUS
  <1> PICK c : c = IF d \in stmts[e].members THEN r ELSE [r EXCEPT !.state = "removed"]
    OBVIOUS
  <1>1. d # Owner
    BY DEF ReceiveStatement, Inv, StatementsOK, StatementOK
  <1>2. TakesOn(d, e, {}) = [copy[d] EXCEPT !.at = e]
    BY DEF TakesOn, Inv, CopiesOK, CopyOK, Shape, CopyFields
  <1>3. /\ stmts' = stmts
        /\ copy' = [copy EXCEPT ![d] = c]
    BY <1>2 DEF ReceiveStatement
  <1>4. Dated({})
    BY DEF Dated
  <1>5. CopiesOK' /\ StatementsOK' /\ OwnerAhead' /\ Grows
    <2>1. c = r \/ c = [r EXCEPT !.state = "removed"]
      OBVIOUS
    <2> QED
      BY <1>1, <1>3, <1>4, <2>1, Finishes
  <1> QED
    BY <1>5, Kept DEF ReceiveStatement, Inv, SentOK

LEMMA FoldStep ==
  ASSUME Inv, Fold
  PROVE  Good
  <1> PICK to : to = copy[Owner].members \ {Owner}
    OBVIOUS
  <1>1. Signs(0, to) /\ Owner \notin to
    BY DEF Fold
  <1>2. CopiesOK' /\ StatementsOK' /\ OwnerAhead' /\ Grows
    BY <1>1, SignsStep
  <1> QED
    BY <1>2, Kept DEF Fold, Inv, SentOK

LEMMA SignToAnswerStep ==
  ASSUME Inv, NEW d, SignToAnswer(d)
  PROVE  Good
  <1>1. Signs(0, {}) /\ Owner \notin {}
    BY DEF SignToAnswer
  <1>2. CopiesOK' /\ StatementsOK' /\ OwnerAhead' /\ Grows
    BY <1>1, SignsStep
  <1> QED
    BY <1>2, Kept DEF SignToAnswer, Inv, SentOK

LEMMA CatchUpStep ==
  ASSUME Inv, NEW d \in Accounts, NEW e \in Accounts, CatchUp(d, e)
  PROVE  Good
  <1>1. PICK H : H = copy[e].held
    OBVIOUS
  <1>2. PICK at : at = IF copy[e].at > copy[d].at THEN copy[e].at ELSE copy[d].at
    OBVIOUS
  <1>3. PICK r : r = Finish(d, TakesOn(d, at, H), stmts)
    OBVIOUS
  <1>4. PICK st : st = IF IF r.at < r.meta THEN d \in stmts[r.at].members ELSE d \in r.members
                       THEN "active" ELSE "removed"
    OBVIOUS
  <1>5. /\ Dated(H)
        /\ copy[e].at = 0 \/ copy[e].at \in DOMAIN stmts
        /\ copy[d].at \in Nat /\ copy[e].at \in Nat
    BY <1>1 DEF Inv, CopiesOK, CopyOK, Shape
  <1>6. at = copy[d].at \/ (d # Owner /\ at \in DOMAIN stmts)
    <2>1. CASE d = Owner
      BY <1>2, <1>5, <2>1 DEF Inv, OwnerAhead
    <2>2. CASE d # Owner
      BY <1>2, <1>5, <2>2
    <2> QED
      BY <2>1, <2>2
  <1>7. PICK c : c = [r EXCEPT !.state = st]
    OBVIOUS
  <1>8. copy' = [copy EXCEPT ![d] = c] /\ stmts' = stmts
    BY <1>1, <1>2, <1>3, <1>4, <1>7 DEF CatchUp, TakesOn
  <1>9. CopiesOK' /\ StatementsOK' /\ OwnerAhead' /\ Grows
    BY <1>3, <1>5, <1>6, <1>7, <1>8, Finishes
  <1> QED
    BY <1>9, Kept DEF CatchUp, Inv, SentOK

-----------------------------------------------------------------------------
(***************************************************************************)
(* The invariant.                                                          *)
(***************************************************************************)

LEMMA InitInv == Init => Inv
  <1> SUFFICES ASSUME Init
               PROVE  Inv
    OBVIOUS
  <1>1. stmts = [n \in {1} |-> First]
    BY DEF Init
  <1>2. First.floor = 0 /\ First.folded = {} /\ First.to = StartMembers \ {Owner}
    BY DEF First
  <1> PICK v : v = View(First, {})
    OBVIOUS
  <1> PICK c : c = [NoCopy EXCEPT !.state = "active", !.meta = 1, !.at = 1,
                                  !.members = v.members, !.admins = v.admins]
    OBVIOUS
  <1>3. copy = [d \in Accounts |-> IF d \in StartMembers THEN c ELSE NoCopy]
    BY DEF Init
  <1>4. /\ DOMAIN c = CopyFields /\ c.at = 1 /\ c.meta = 1 /\ c.held = {}
        /\ c.members = v.members /\ c.admins = v.admins
    BY DEF NoCopy, CopyFields
  <1>5. /\ DOMAIN NoCopy = CopyFields /\ NoCopy.at = 0 /\ NoCopy.meta = 0 /\ NoCopy.held = {}
        /\ NoCopy.members = {}
    BY DEF NoCopy, CopyFields
  <1>6. \A d \in Accounts : CopyOK(d, c, stmts) /\ CopyOK(d, NoCopy, stmts)
    BY <1>1, <1>4, <1>5 DEF CopyOK, Shape, Computed, Dated
  <1>7. CopiesOK
    BY <1>3, <1>6 DEF CopiesOK
  <1>8. StatementsOK
    BY <1>1, <1>2 DEF StatementsOK, StatementOK, Follows, Dated
  <1>9. OwnerAhead
    <2>1. copy[Owner] = c
      BY <1>3, OwnerIn, RosterAssumption
    <2> QED
      BY <1>1, <1>4, <2>1 DEF OwnerAhead
  <1>10. SentOK
    BY DEF Init, SentOK, Dated
  <1> QED
    BY <1>7, <1>8, <1>9, <1>10 DEF Inv

LEMMA StutterStep ==
  ASSUME Inv, UNCHANGED vars
  PROVE  Good
  BY NoCopyChanges, Kept DEF vars, Inv, SentOK

LEMMA ComingInStep ==
  ASSUME Inv, ComingIn
  PROVE  Good
  BY InviteStep, AcceptStep, RefuseStep, TakeRefusalStep, OwnerTakesStep, ResendBundleStep,
     AdmitStep, PublishMemberJoinedStep, PublishFailsStep, TakeBundleStep DEF ComingIn

LEMMA GoingOutStep ==
  ASSUME Inv, GoingOut
  PROVE  Good
  BY LeaveStep, OwnerRemovesStep, AdminRemovesStep DEF GoingOut

LEMMA SpreadingStep ==
  ASSUME Inv, Spreading
  PROVE  Good
  BY ReceiveStep, ReceiveStatementStep, CatchUpStep, SignToAnswerStep, FoldStep DEF Spreading

LEMMA NextGood ==
  ASSUME Inv, [Next]_vars
  PROVE  Good
  BY ComingInStep, GoingOutStep, SpreadingStep, StutterStep DEF Next

\* The invariant holds in every behaviour.
THEOREM Invariance == Spec => []Inv
  <1>1. Inv /\ [Next]_vars => Inv'
    BY NextGood DEF Good
  <1> QED
    BY InitInv, <1>1, PTL DEF Spec

\* What the owner folded once is never live again: no statement loses a change that its floor
\* has not passed (FoldInto).
THEOREM FoldedStays == Spec => []StaysFolded
  <1>1. Inv => StaysFolded
    BY DEF Inv, StatementsOK, Follows, StaysFolded, Live
  <1> QED
    BY <1>1, Invariance, PTL

\* No statement is taken back or signed twice for an epoch (OwnerDraft).
THEOREM StatementsGrow == Spec => OneStatementAnEpoch
  <1>1. Inv /\ [Next]_vars =>
          [\A n \in DOMAIN stmts : n \in DOMAIN stmts' /\ stmts'[n] = stmts[n]]_vars
    BY NextGood DEF Good, Grows
  <1> QED
    BY <1>1, Invariance, PTL DEF Spec, OneStatementAnEpoch

\* Copies that differ in nothing a message shows list the same members (NeedsCatchUp).
THEOREM CopiesAgree == Spec => []NothingToAsk
  <1>1. Inv => NothingToAsk
    BY DEF Inv, CopiesOK, CopyOK, Computed, NothingToAsk, Current, In
  <1> QED
    BY <1>1, Invariance, PTL

-----------------------------------------------------------------------------
(***************************************************************************)
(* Who is in, and why.  The rows of the owner follow from its statement    *)
(* (Passed), whatever it received, took in or signed since; so do those of *)
(* the statement it signs over them.  Every variable is of its type along  *)
(* the way, and the rows anybody computes are of accounts and have the     *)
(* owner in them.  Rosters is a predicate of the six values, so that a     *)
(* step is a change of its arguments.                                      *)
(***************************************************************************)

CopyFits(c, S, sent) ==
  /\ c \in CopyType
  /\ c.at \in DOMAIN S \cup {0}
  /\ c.held \subseteq sent
  /\ c.members # {} /\ c.state = "active" => Owner \in c.members

StatementFits(s, S, sent) ==
  /\ s \in StatementType
  /\ Lists(s)
  /\ s.folded \subseteq sent
  /\ s.after # 0 => s.after \in DOMAIN S

StatementsFit(S, sent) == \A n \in DOMAIN S : StatementFits(S[n], S, sent)

Settled(S, sent, asked) ==
  \A n \in DOMAIN S : S[n].after # 0 => Passed(sent, asked, S[S[n].after], S[n].members)

OwnerFits(c, S, sent, asked) ==
  /\ c.state = "active"
  /\ Owner \in c.members
  /\ Passed(sent, asked, S[c.at], c.members)

BundlesFit(bs, S, sent) == \A b \in bs : b \in BundleType /\ b.at \in DOMAIN S /\ b.held \subseteq sent

Rosters(cp, S, sent, asked, bs, pub) ==
  /\ 1 \in DOMAIN S /\ DOMAIN S \subseteq Nat
  /\ Sendable(sent)
  /\ StatementsFit(S, sent)
  /\ Settled(S, sent, asked)
  /\ \A d \in Accounts : CopyFits(cp[d], S, sent)
  /\ OwnerFits(cp[Owner], S, sent, asked)
  /\ asked \subseteq InviteType
  /\ BundlesFit(bs, S, sent)
  /\ pub \subseteq PublishType

RosterInv == Inv /\ Rosters(copy, stmts, signed, invites, bundles, publish)

\* Nothing that was said or settled goes away.
Onward(sent, asked, more, then) ==
  /\ sent \subseteq more /\ Sendable(more)
  /\ then \subseteq InviteType
  /\ \A v \in asked : v.status = "closed" => v \in then

LEMMA PassedStays ==
  ASSUME NEW sent, NEW asked, NEW more, NEW then, Onward(sent, asked, more, then),
         NEW s, NEW m, Passed(sent, asked, s, m)
  PROVE  Passed(more, then, s, m)
  <1>1. Backed(sent, s) \subseteq Backed(more, s)
    BY BackedGrows DEF Onward
  <1>2. \A x : OutBy(sent, s, x) => OutBy(more, s, x)
    BY <1>1 DEF OutBy, Onward
  <1>3. \A x : BackBy(sent, asked, s, x) => BackBy(more, then, s, x)
    BY <1>1 DEF BackBy, Onward
  <1> QED
    BY <1>2, <1>3 DEF Passed

\* Rows computed from a statement and changes that went out fit.
LEMMA RefreshFits ==
  ASSUME NEW S, NEW sent, Sendable(sent), StatementsFit(S, sent), NEW c, CopyFits(c, S, sent),
         DOMAIN S \subseteq Nat
  PROVE  LET r == Refresh(c, S) IN
         /\ CopyFits(r, S, sent) /\ r.at = c.at /\ r.state = c.state
         /\ r = c \/ Owner \in r.members
         /\ \A asked : r = c \/ Passed(sent, asked, S[c.at], r.members)
  <1> DEFINE r == Refresh(c, S)
             v == View(S[c.at], c.held)
  <1>1. CASE c.at = 0 \/ c.at < c.meta
    BY <1>1 DEF Refresh
  <1>2. CASE ~ (c.at = 0 \/ c.at < c.meta)
    <2>1. /\ c = [state |-> c.state, meta |-> c.meta, at |-> c.at, members |-> c.members,
                  admins |-> c.admins, held |-> c.held]
          /\ c.at \in Nat /\ c.at \in DOMAIN S /\ c.held \subseteq sent /\ c.held \subseteq ChangeType
          /\ c.state \in {"out", "active", "removed"}
      BY <1>2 DEF CopyFits, CopyType
    <2>2. Lists(S[c.at])
      BY <2>1 DEF StatementsFit, StatementFits
    <2>3. /\ v.members \subseteq Accounts /\ v.admins \subseteq Accounts /\ Owner \in v.members
          /\ \A asked : Passed(sent, asked, S[c.at], v.members)
      BY <2>1, <2>2, ViewFacts
    <2>4. Live(S[c.at], c.held) \subseteq c.held
      BY DEF Live
    <2>5. r = [c EXCEPT !.members = v.members, !.admins = v.admins, !.meta = c.at,
                        !.held = Live(S[c.at], c.held)]
      BY <1>2 DEF Refresh
    <2> HIDE DEF r, v
    <2>6. r = [state |-> c.state, meta |-> c.at, at |-> c.at, members |-> v.members,
               admins |-> v.admins, held |-> Live(S[c.at], c.held)]
      BY <2>1, <2>5
    <2>7. /\ r.state = c.state /\ r.at = c.at /\ r.members = v.members
          /\ r.held = Live(S[c.at], c.held)
      BY <2>6
    <2>8. r \in CopyType
      BY <2>1, <2>3, <2>4, <2>6 DEF CopyType
    <2>9. CopyFits(r, S, sent)
      BY <2>1, <2>3, <2>4, <2>7, <2>8 DEF CopyFits
    <2> QED
      BY <2>3, <2>7, <2>9 DEF r
  <1> QED
    BY <1>1, <1>2

LEMMA FinishFits ==
  ASSUME NEW S, NEW sent, Sendable(sent), StatementsFit(S, sent), NEW c, CopyFits(c, S, sent),
         DOMAIN S \subseteq Nat, NEW d
  PROVE  LET f == Finish(d, c, S) IN
         /\ CopyFits(f, S, sent) /\ f.at = c.at
         /\ CopyFits([f EXCEPT !.state = "removed"], S, sent)
         /\ f.members = c.members \/ Owner \in f.members
         /\ \A asked : OwnerFits(c, S, sent, asked) /\ d = Owner => OwnerFits(f, S, sent, asked)
  <1> DEFINE r == Refresh(c, S)
             f == Finish(d, c, S)
  <1>1. /\ CopyFits(r, S, sent) /\ r.at = c.at /\ r.state = c.state
        /\ r = c \/ Owner \in r.members
        /\ \A asked : r = c \/ Passed(sent, asked, S[c.at], r.members)
    BY RefreshFits
  <1>2. f = IF d \in c.members /\ d \notin r.members THEN [r EXCEPT !.state = "removed"] ELSE r
    BY DEF Finish
  <1> HIDE DEF r, f
  <1>3. r = [state |-> r.state, meta |-> r.meta, at |-> r.at, members |-> r.members,
             admins |-> r.admins, held |-> r.held]
    BY <1>1 DEF CopyFits, CopyType
  <1>4. f.at = r.at /\ f.members = r.members /\ f.held = r.held /\ f \in CopyType
    BY <1>1, <1>2, <1>3 DEF CopyFits, CopyType
  <1>5. CopyFits(f, S, sent)
    BY <1>1, <1>2, <1>3, <1>4 DEF CopyFits
  <1> PICK g : g = [f EXCEPT !.state = "removed"]
    OBVIOUS
  <1>6. /\ g.at = f.at /\ g.members = f.members /\ g.held = f.held /\ g.state = "removed"
        /\ g \in CopyType
    BY <1>4 DEF CopyType
  <1>7. CopyFits(g, S, sent)
    BY <1>5, <1>6 DEF CopyFits
  <1>8. ASSUME NEW asked, OwnerFits(c, S, sent, asked), d = Owner
        PROVE  OwnerFits(f, S, sent, asked)
    BY <1>1, <1>2, <1>8 DEF OwnerFits
  <1> QED
    BY <1>1, <1>4, <1>5, <1>7, <1>8 DEF f

LEMMA FinishAt ==
  ASSUME NEW S, NEW sent, Sendable(sent), StatementsFit(S, sent), NEW c, CopyFits(c, S, sent),
         DOMAIN S \subseteq Nat, NEW d
  PROVE  Finish(d, c, S).at = c.at
  BY FinishFits

\* What fits goes on fitting as more goes out.
LEMMA FitsOnward ==
  ASSUME NEW S, NEW sent, NEW asked, NEW more, NEW then, Onward(sent, asked, more, then)
  PROVE  /\ StatementsFit(S, sent) => StatementsFit(S, more)
         /\ Settled(S, sent, asked) => Settled(S, more, then)
         /\ \A c : CopyFits(c, S, sent) => CopyFits(c, S, more)
         /\ \A c : OwnerFits(c, S, sent, asked) => OwnerFits(c, S, more, then)
         /\ \A bs : BundlesFit(bs, S, sent) => BundlesFit(bs, S, more)
  <1>1. sent \subseteq more
    BY DEF Onward
  <1>2. StatementsFit(S, sent) => StatementsFit(S, more)
    BY <1>1 DEF StatementsFit, StatementFits
  <1>3. Settled(S, sent, asked) => Settled(S, more, then)
    BY PassedStays DEF Settled
  <1>4. \A c : CopyFits(c, S, sent) => CopyFits(c, S, more)
    BY <1>1 DEF CopyFits
  <1>5. \A c : OwnerFits(c, S, sent, asked) => OwnerFits(c, S, more, then)
    BY PassedStays DEF OwnerFits
  <1>6. \A bs : BundlesFit(bs, S, sent) => BundlesFit(bs, S, more)
    BY <1>1 DEF BundlesFit
  <1> QED
    BY <1>2, <1>3, <1>4, <1>5, <1>6

LEMMA NoCopyFits ==
  ASSUME NEW cp, NEW S, NEW sent, NEW asked, NEW bs, NEW pub, Rosters(cp, S, sent, asked, bs, pub),
         NEW more, NEW then, Onward(sent, asked, more, then), NEW bs2, BundlesFit(bs2, S, more),
         NEW pub2 \in SUBSET PublishType
  PROVE  Rosters(cp, S, more, then, bs2, pub2)
  <1> QED
    BY FitsOnward DEF Rosters, Onward

LEMMA OneCopyFits ==
  ASSUME NEW cp, NEW S, NEW sent, NEW asked, NEW bs, NEW pub, Rosters(cp, S, sent, asked, bs, pub),
         NEW more, NEW then, Onward(sent, asked, more, then), NEW bs2, BundlesFit(bs2, S, more),
         NEW pub2 \in SUBSET PublishType,
         cp = [x \in Accounts |-> cp[x]],
         NEW d \in Accounts, NEW c, CopyFits(c, S, more), d = Owner => OwnerFits(c, S, more, then)
  PROVE  Rosters([cp EXCEPT ![d] = c], S, more, then, bs2, pub2)
  <1> PICK cp2 : cp2 = [cp EXCEPT ![d] = c]
    OBVIOUS
  <1>1. \A x \in Accounts : cp2[x] = IF x = d THEN c ELSE cp[x]
    OBVIOUS
  <1>2. Rosters(cp, S, more, then, bs2, pub2)
    BY NoCopyFits
  <1>3. \A x \in Accounts : CopyFits(cp2[x], S, more)
    BY <1>1, <1>2 DEF Rosters
  <1>4. OwnerFits(cp2[Owner], S, more, then)
    BY <1>1, <1>2, OwnerIn DEF Rosters
  <1> QED
    BY <1>2, <1>3, <1>4 DEF Rosters

\* A copy with all but its state remade.
Remade(o, e, m, a, h) ==
  [o EXCEPT !.at = e, !.meta = e, !.members = m, !.admins = a, !.held = h]

LEMMA RemadeIs ==
  ASSUME NEW o \in CopyType, NEW e, NEW m, NEW a, NEW h
  PROVE  Remade(o, e, m, a, h) =
         [state |-> o.state, meta |-> e, at |-> e, members |-> m, admins |-> a, held |-> h]
  <1>1. o = [state |-> o.state, meta |-> o.meta, at |-> o.at, members |-> o.members,
             admins |-> o.admins, held |-> o.held]
    BY DEF CopyType
  <1> DEFINE x == Remade(o, e, m, a, h)
  <1>2. DOMAIN o = CopyFields
    BY <1>1 DEF CopyFields
  <1>3. x = [f \in CopyFields |-> x[f]]
    BY <1>2 DEF Remade
  <1>4. /\ x.at = e /\ x.meta = e /\ x.members = m /\ x.admins = a /\ x.held = h
        /\ x.state = o.state
    BY <1>2 DEF CopyFields, Remade
  <1> HIDE DEF x
  <1>5. x = [state |-> o.state, meta |-> e, at |-> e, members |-> m, admins |-> a, held |-> h]
    BY <1>3, <1>4 DEF CopyFields
  <1> QED
    BY <1>5 DEF x

\* A new statement, of rows that follow the statement before it.
LEMMA OwnerKeepsFits ==
  ASSUME RosterInv, NEW more, NEW then, Onward(signed, invites, more, then),
         NEW e \in Nat, e > copy[Owner].at,
         NEW s, s \in StatementType, Lists(s), s.folded \subseteq more, s.after = copy[Owner].at,
         Passed(more, then, stmts[copy[Owner].at], s.members),
         NEW held, held \subseteq more, OwnerKeeps(s, e, held),
         NEW bs, \A b \in bs : b \in BundleType /\ b.at \in DOMAIN stmts \cup {e} /\ b.held \subseteq more,
         NEW pub \in SUBSET PublishType
  PROVE  Rosters(copy', stmts', more, then, bs, pub)
  <1> PICK S : S = [n \in DOMAIN stmts \cup {e} |-> IF n = e THEN s ELSE stmts[n]]
    OBVIOUS
  <1> PICK o : o = copy[Owner]
    OBVIOUS
  <1> PICK c : c = [state |-> "active", meta |-> e, at |-> e, members |-> s.members,
                    admins |-> s.admins, held |-> held]
    OBVIOUS
  <1> PICK r : r = Refresh(c, S)
    OBVIOUS
  <1>2. \A n \in DOMAIN stmts : n \in Nat /\ n < e /\ n \in DOMAIN S /\ S[n] = stmts[n]
    BY DEF RosterInv, Inv, StatementsOK, OwnerAhead, CopiesOK, CopyOK, Shape
  <1>3. e \in DOMAIN S /\ S[e] = s /\ o.at \in DOMAIN stmts /\ o.at # 0 /\ DOMAIN S \subseteq Nat
    BY <1>2 DEF RosterInv, Inv, OwnerAhead
  <1>4. /\ StatementsFit(stmts, more) /\ Settled(stmts, more, then)
        /\ \A d \in Accounts : CopyFits(copy[d], stmts, more)
        /\ o.state = "active" /\ o \in CopyType
    BY FitsOnward, OwnerIn DEF RosterInv, Rosters, OwnerFits, CopyFits
  <1>5. StatementsFit(S, more)
    <2>1. StatementFits(s, S, more)
      BY <1>2, <1>3 DEF StatementFits
    <2>2. ASSUME NEW n \in DOMAIN stmts
          PROVE  StatementFits(stmts[n], S, more)
      <3>1. StatementFits(stmts[n], stmts, more)
        BY <1>4 DEF StatementsFit
      <3> QED
        BY <1>2, <3>1 DEF StatementFits
    <2> QED
      BY <1>2, <2>1, <2>2 DEF StatementsFit
  <1>6. Settled(S, more, then)
    <2> SUFFICES ASSUME NEW n \in DOMAIN S, S[n].after # 0
                 PROVE  Passed(more, then, S[S[n].after], S[n].members)
      BY DEF Settled
    <2>1. CASE n = e
      BY <1>2, <1>3, <2>1
    <2>2. CASE n # e
      <3>1. n \in DOMAIN stmts /\ S[n] = stmts[n]
        BY <1>2, <2>2
      <3>2. stmts[n].after \in DOMAIN stmts
        BY <1>4, <3>1 DEF StatementsFit, StatementFits
      <3> QED
        BY <1>2, <1>4, <3>1, <3>2 DEF Settled
    <2> QED
      BY <2>1, <2>2
  <1>7. c = [o EXCEPT !.at = e, !.meta = e, !.members = s.members,
                      !.admins = s.admins, !.held = held]
    <2>1. Remade(o, e, s.members, s.admins, held) =
            [state |-> o.state, meta |-> e, at |-> e, members |-> s.members,
             admins |-> s.admins, held |-> held]
      BY <1>4, RemadeIs
    <2> QED
      BY <1>4, <2>1 DEF Remade
  <1>1. stmts' = S /\ copy' = [copy EXCEPT ![Owner] = r]
    BY <1>7 DEF OwnerKeeps
  <1>8. /\ c.state = "active" /\ c.meta = e /\ c.at = e /\ c.members = s.members
        /\ c.admins = s.admins /\ c.held = held
    OBVIOUS
  <1>9. CopyFits(c, S, more)
    <2>1. held \subseteq ChangeType
      BY DEF Onward, Sendable
    <2>2. c \in CopyType
      BY <2>1 DEF CopyType, Lists
    <2> QED
      BY <1>3, <1>8, <2>2 DEF CopyFits, Lists
  <1>10. /\ CopyFits(r, S, more) /\ r.at = e /\ r.state = "active"
         /\ r = c \/ Owner \in r.members
         /\ r = c \/ Passed(more, then, S[e], r.members)
    BY <1>3, <1>5, <1>8, <1>9, RefreshFits DEF Onward
  <1>11. OwnerFits(r, S, more, then)
    <2>1. Passed(more, then, s, s.members)
      BY DEF Passed, Lists
    <2> QED
      BY <1>3, <1>8, <1>10, <2>1 DEF OwnerFits, Lists
  <1>12. copy' = [x \in Accounts |-> IF x = Owner THEN r ELSE copy[x]]
    BY <1>1 DEF RosterInv, Inv, CopiesOK
  <1>13. \A d \in Accounts : CopyFits(copy'[d], S, more)
    <2>1. \A d \in Accounts : CopyFits(copy[d], S, more)
      BY <1>2, <1>4 DEF CopyFits
    <2> QED
      BY <1>10, <1>12, <2>1
  <1>14. OwnerFits(copy'[Owner], S, more, then)
    BY <1>11, <1>12, OwnerIn
  <1>15. BundlesFit(bs, S, more)
    BY <1>2, <1>3 DEF BundlesFit
  <1>16. 1 \in DOMAIN S
    BY <1>2 DEF RosterInv, Rosters
  <1> QED
    BY <1>1, <1>3, <1>5, <1>6, <1>13, <1>14, <1>15, <1>16 DEF Rosters, Onward

LEMMA OnwardSame ==
  ASSUME RosterInv
  PROVE  Onward(signed, invites, signed, invites)
  BY DEF RosterInv, Rosters, Onward

\* More changes go out, of the type of changes and not the owner's leave.
LEMMA OnwardMore ==
  ASSUME RosterInv, NEW c \in ChangeType, c.kind = "leave" => c.signer # Owner,
         NEW then \in SUBSET InviteType, \A v \in invites : v.status = "closed" => v \in then
  PROVE  Onward(signed, invites, signed \cup {c}, then)
  <1>1. IsFiniteSet(signed) /\ signed \subseteq ChangeType
        /\ \A b \in signed : b.kind = "leave" => b.signer # Owner
    BY DEF RosterInv, Rosters, Sendable
  <1>2. IsFiniteSet(signed \cup {c})
    BY <1>1, FS_AddElement
  <1>3. Sendable(signed \cup {c})
    BY <1>1, <1>2 DEF Sendable
  <1> QED
    BY <1>3 DEF Onward

\* An invite takes another status; one that is closed stays.
LEMMA BecomesOnward ==
  ASSUME RosterInv, NEW v \in invites, v.status # "closed",
         NEW st \in {"sent", "expired", "accepted", "refused", "closed"}, Becomes(v, st)
  PROVE  /\ invites' \in SUBSET InviteType
         /\ \A w \in invites : w.status = "closed" => w \in invites'
         /\ Onward(signed, invites, signed, invites')
  <1> PICK w : w = [v EXCEPT !.status = st]
    OBVIOUS
  <1>1. invites \subseteq InviteType
    BY DEF RosterInv, Rosters
  <1>2. w \in InviteType
    BY <1>1 DEF InviteType
  <1>3. invites' = (invites \ {v}) \cup {w}
    BY DEF Becomes
  <1> QED
    BY <1>1, <1>2, <1>3 DEF RosterInv, Rosters, Onward

LEMMA ExpireOnward ==
  ASSUME RosterInv, NEW d, NEW x, Expire(d, x)
  PROVE  /\ invites' \in SUBSET InviteType
         /\ \A w \in invites : w.status = "closed" => w \in invites'
  <1>1. invites \subseteq InviteType
    BY DEF RosterInv, Rosters
  <1>2. \A v \in InviteType : /\ [v EXCEPT !.status = "expired"] \in InviteType
                              /\ [v EXCEPT !.status = "closed"] \in InviteType
    BY DEF InviteType
  <1>3. invites' \in SUBSET InviteType
    BY <1>1, <1>2 DEF Expire
  <1>4. ASSUME NEW w \in invites, w.status = "closed"
        PROVE  w \in invites'
    BY <1>4 DEF Expire
  <1> QED
    BY <1>3, <1>4

\* What the owner signs is a statement that lists its rows.
LEMMA StatementMade ==
  ASSUME RosterInv, NEW more, NEW then, Onward(signed, invites, more, then),
         NEW m \in SUBSET Accounts, Owner \in m, NEW r \in SUBSET Accounts,
         NEW held \in SUBSET more, NEW e \in Nat, NEW event \in Nat, NEW to \in SUBSET Accounts
  PROVE  LET s == Statement(m, r, held, e, event, to) IN
         /\ s \in StatementType /\ Lists(s) /\ s.folded \subseteq more
         /\ s.after = copy[Owner].at /\ s.members = m /\ s.admins = r
  <1> DEFINE base == stmts[copy[Owner].at]
             v == View(base, held)
             floor == IF e > Lag /\ e - Lag > base.floor THEN e - Lag ELSE base.floor
             s == Statement(m, r, held, e, event, to)
             removed == {x \in v.removed : x.who \notin m}
             folded == {c \in base.folded \cup v.folds : c.base >= floor}
  <1>1. copy[Owner].at \in DOMAIN stmts /\ copy[Owner].at \in Nat
    BY DEF RosterInv, Inv, OwnerAhead, StatementsOK
  <1>2. Lists(base) /\ base.folded \subseteq more /\ base.floor \in Nat
    BY <1>1 DEF RosterInv, Rosters, StatementsFit, StatementFits, StatementType, Onward
  <1>3. Sendable(more)
    BY DEF Onward
  <1>4. v.removed \subseteq RemovedType /\ Once(v.removed) /\ v.folds \subseteq held
    BY <1>2, <1>3, ViewFacts
  <1>5. s = [members |-> m, admins |-> r, removed |-> removed, folded |-> folded, floor |-> floor,
             to |-> to, after |-> copy[Owner].at, event |-> event]
    BY DEF Statement
  <1>6. floor \in Nat
    BY <1>2, RosterAssumption
  <1>7. removed \subseteq RemovedType /\ Once(removed) /\ \A x \in removed : x.who \notin m
    BY <1>4 DEF Once
  <1>8. folded \subseteq more /\ folded \subseteq ChangeType
    BY <1>2, <1>3, <1>4 DEF Sendable
  <1> HIDE DEF s, floor, removed, folded
  <1>9. /\ s.members = m /\ s.admins = r /\ s.removed = removed /\ s.folded = folded
        /\ s.after = copy[Owner].at
    BY <1>5
  <1>10. s \in StatementType
    BY <1>1, <1>5, <1>6, <1>7, <1>8 DEF StatementType
  <1>11. Lists(s)
    BY <1>7, <1>9 DEF Lists
  <1> QED
    BY <1>8, <1>9, <1>10, <1>11 DEF s

\* The owner signs rows that follow from its statement, and keeps the new one.
LEMMA RowsSigned ==
  ASSUME RosterInv, NEW more, NEW then, Onward(signed, invites, more, then),
         NEW m \in SUBSET Accounts, Owner \in m, NEW r \in SUBSET Accounts,
         NEW held \in SUBSET more, NEW e \in Nat, e > copy[Owner].at,
         NEW event \in Nat, NEW to \in SUBSET Accounts,
         Passed(more, then, stmts[copy[Owner].at], m),
         OwnerKeeps(Statement(m, r, held, e, event, to), e, held)
  PROVE  Rosters(copy', stmts', more, then, bundles, publish)
  <1> PICK s : s = Statement(m, r, held, e, event, to)
    OBVIOUS
  <1>1. /\ s \in StatementType /\ Lists(s) /\ s.folded \subseteq more
        /\ s.after = copy[Owner].at /\ s.members = m
    BY StatementMade
  <1>2. \A b \in bundles : /\ b \in BundleType /\ b.at \in DOMAIN stmts \cup {e}
                           /\ b.held \subseteq more
    BY DEF RosterInv, Rosters, BundlesFit, Onward
  <1>3. publish \in SUBSET PublishType
    BY DEF RosterInv, Rosters
  <1>4. Passed(more, then, stmts[copy[Owner].at], s.members) /\ OwnerKeeps(s, e, held)
    BY <1>1
  <1> QED
    BY <1>1, <1>2, <1>3, <1>4, OwnerKeepsFits

\* The owner signs its rows as they are.
LEMMA SignsFits ==
  ASSUME RosterInv, NEW event \in Nat, NEW to \in SUBSET Accounts, Signs(event, to)
  PROVE  Rosters(copy', stmts', signed, invites, bundles, publish)
  <1> PICK o : o = copy[Owner]
    OBVIOUS
  <1>1. /\ o \in CopyType /\ Owner \in o.members /\ o.held \subseteq signed
        /\ Passed(signed, invites, stmts[o.at], o.members)
    BY OwnerIn DEF RosterInv, Rosters, CopyFits, OwnerFits
  <1>2. /\ o.members \in SUBSET Accounts /\ o.admins \in SUBSET Accounts
        /\ o.meta \in Nat /\ o.at \in Nat
    BY <1>1 DEF CopyType
  <1>3. NextEpoch \in Nat /\ NextEpoch > o.at
    BY <1>2 DEF NextEpoch
  <1>4. OwnerKeeps(Statement(o.members, o.admins, o.held, NextEpoch, event, to), NextEpoch, o.held)
    BY DEF Signs
  <1> QED
    BY <1>1, <1>2, <1>3, <1>4, OnwardSame, RowsSigned

-----------------------------------------------------------------------------
(***************************************************************************)
(* Each step keeps them: coming in.                                        *)
(***************************************************************************)

RostersNext == Rosters(copy', stmts', signed', invites', bundles', publish')

LEMMA CopyTyped ==
  ASSUME RosterInv, NEW d \in Accounts
  PROVE  /\ CopyFits(copy[d], stmts, signed)
         /\ copy[d] = [state |-> copy[d].state, meta |-> copy[d].meta, at |-> copy[d].at,
                       members |-> copy[d].members, admins |-> copy[d].admins,
                       held |-> copy[d].held]
         /\ copy[d].state \in {"out", "active", "removed"}
         /\ copy[d].meta \in Nat /\ copy[d].at \in Nat /\ copy[d].at \in DOMAIN stmts \cup {0}
         /\ copy[d].members \subseteq Accounts /\ copy[d].admins \subseteq Accounts
         /\ copy[d].held \subseteq signed /\ copy[d].held \subseteq ChangeType
  <1>1. CopyFits(copy[d], stmts, signed)
    BY DEF RosterInv, Rosters
  <1> QED
    BY <1>1 DEF CopyFits, CopyType

\* Only the copy of one who is not the owner changes.
LEMMA TheirCopy ==
  ASSUME RosterInv, NEW then \in SUBSET InviteType, Onward(signed, invites, signed, then),
         NEW d \in Accounts \ {Owner}, NEW c, CopyFits(c, stmts, signed),
         copy' = [copy EXCEPT ![d] = c]
  PROVE  Rosters(copy', stmts, signed, then, bundles, publish)
  <1>1. BundlesFit(bundles, stmts, signed) /\ publish \in SUBSET PublishType
    BY DEF RosterInv, Rosters
  <1> QED
    BY <1>1, OneCopyFits DEF RosterInv, Inv, CopiesOK

LEMMA InviteFits ==
  ASSUME RosterInv, NEW i \in Accounts, NEW x \in Accounts, Invite(i, x)
  PROVE  RostersNext
  <1>1. [by |-> i, to |-> x, epoch |-> copy[i].meta, status |-> "sent"] \in InviteType
    BY CopyTyped DEF InviteType
  <1>2. invites \subseteq invites' /\ invites' \in SUBSET InviteType
    BY <1>1 DEF Invite, RosterInv, Rosters
  <1>3. Onward(signed, invites, signed, invites')
    BY <1>2 DEF RosterInv, Rosters, Onward
  <1>4. BundlesFit(bundles, stmts, signed) /\ publish \in SUBSET PublishType
    BY DEF RosterInv, Rosters
  <1>5. Rosters(copy, stmts, signed, invites', bundles, publish)
    BY <1>3, <1>4, NoCopyFits DEF RosterInv
  <1> QED
    BY <1>5 DEF Invite, RostersNext

LEMMA AcceptFits ==
  ASSUME RosterInv, NEW v \in invites, Accept(v)
  PROVE  RostersNext
  <1>1. v.to \in Accounts \ {Owner} /\ v.by \in Accounts /\ v.epoch \in Nat
    BY DEF RosterInv, Inv, SentOK, InviteOK
  <1> PICK o : o = copy[v.to]
    OBVIOUS
  <1> PICK c : c = [o EXCEPT !.state = "active", !.meta = v.epoch, !.at = 0,
                             !.members = o.members \cup {Owner, v.by, v.to},
                             !.admins = o.admins \ {v.by, v.to}]
    OBVIOUS
  <1>2. /\ o = [state |-> o.state, meta |-> o.meta, at |-> o.at, members |-> o.members,
                admins |-> o.admins, held |-> o.held]
        /\ o.members \subseteq Accounts /\ o.admins \subseteq Accounts
        /\ o.held \subseteq signed /\ o.held \subseteq ChangeType
    BY <1>1, CopyTyped
  <1>3. /\ DOMAIN c = CopyFields /\ c = [f \in CopyFields |-> c[f]]
        /\ c.state = "active" /\ c.meta = v.epoch /\ c.at = 0
        /\ c.members = o.members \cup {Owner, v.by, v.to} /\ c.admins = o.admins \ {v.by, v.to}
        /\ c.held = o.held
    BY <1>2 DEF CopyFields
  <1>4. c = [state |-> c.state, meta |-> c.meta, at |-> c.at, members |-> c.members,
             admins |-> c.admins, held |-> c.held]
    BY <1>3 DEF CopyFields
  <1>5. c \in CopyType
    BY <1>1, <1>2, <1>3, <1>4, OwnerIn DEF CopyType
  <1>6. CopyFits(c, stmts, signed)
    BY <1>2, <1>3, <1>5 DEF CopyFits
  <1> PICK st \in {"accepted", "closed"} : st = IF v.status = "sent" THEN "accepted" ELSE "closed"
    OBVIOUS
  <1>7. Becomes(v, st) /\ v.status # "closed"
    BY DEF Accept
  <1>8. invites' \in SUBSET InviteType /\ Onward(signed, invites, signed, invites')
    BY <1>7, BecomesOnward
  <1>9. copy' = [copy EXCEPT ![v.to] = c]
    BY DEF Accept
  <1>10. Rosters(copy', stmts, signed, invites', bundles, publish)
    BY <1>1, <1>6, <1>8, <1>9, TheirCopy
  <1> QED
    BY <1>10 DEF Accept, RostersNext

LEMMA RefuseFits ==
  ASSUME RosterInv, NEW v \in invites, Refuse(v)
  PROVE  RostersNext
  <1>1. Becomes(v, "refused") /\ v.status # "closed"
    BY DEF Refuse
  <1>2. Onward(signed, invites, signed, invites')
    BY <1>1, BecomesOnward
  <1>3. BundlesFit(bundles, stmts, signed) /\ publish \in SUBSET PublishType
    BY DEF RosterInv, Rosters
  <1>4. Rosters(copy, stmts, signed, invites', bundles, publish)
    BY <1>2, <1>3, NoCopyFits DEF RosterInv
  <1> QED
    BY <1>4 DEF Refuse, RostersNext

LEMMA TakeRefusalFits ==
  ASSUME RosterInv, NEW v \in invites, TakeRefusal(v)
  PROVE  RostersNext
  <1>1. v.to \in Accounts \ {Owner}
    BY DEF RosterInv, Inv, SentOK, InviteOK
  <1> PICK o : o = copy[v.to]
    OBVIOUS
  <1> PICK c : c = [o EXCEPT !.members = o.members \ {v.to}, !.state = "removed"]
    OBVIOUS
  <1>2. /\ o = [state |-> o.state, meta |-> o.meta, at |-> o.at, members |-> o.members,
                admins |-> o.admins, held |-> o.held]
        /\ o \in CopyType /\ o.at \in DOMAIN stmts \cup {0}
        /\ o.held \subseteq signed
    BY <1>1, CopyTyped DEF CopyFits
  <1>3. /\ c.at = o.at /\ c.held = o.held /\ c.state = "removed" /\ c \in CopyType
    BY <1>2 DEF CopyType
  <1>4. CopyFits(c, stmts, signed)
    BY <1>2, <1>3 DEF CopyFits
  <1>5. Becomes(v, "closed") /\ v.status # "closed" /\ copy' = [copy EXCEPT ![v.to] = c]
    BY DEF TakeRefusal
  <1>6. invites' \in SUBSET InviteType /\ Onward(signed, invites, signed, invites')
    BY <1>5, BecomesOnward
  <1>7. Rosters(copy', stmts, signed, invites', bundles, publish)
    BY <1>1, <1>4, <1>5, <1>6, TheirCopy
  <1> QED
    BY <1>7 DEF TakeRefusal, RostersNext

\* Whom the owner takes in comes by an invite of the owner's own, closed by it.
LEMMA OwnerTakesFits ==
  ASSUME RosterInv, NEW v \in invites, OwnerTakes(v)
  PROVE  RostersNext
  <1>1. v \in InviteType /\ v.to \in Accounts \ {Owner} /\ v.by = Owner /\ v.status # "closed"
    BY DEF RosterInv, Rosters, Inv, SentOK, InviteOK, OwnerTakes
  <1> PICK o : o = copy[Owner]
    OBVIOUS
  <1> PICK c : c = [o EXCEPT !.members = o.members \cup {v.to}, !.admins = o.admins \ {v.to},
                             !.meta = o.meta + 1]
    OBVIOUS
  <1>2. /\ o = [state |-> o.state, meta |-> o.meta, at |-> o.at, members |-> o.members,
                admins |-> o.admins, held |-> o.held]
        /\ o \in CopyType /\ o.at \in DOMAIN stmts \cup {0} /\ o.held \subseteq signed
        /\ o.members \subseteq Accounts /\ o.admins \subseteq Accounts /\ o.meta \in Nat
    BY OwnerIn, CopyTyped DEF CopyFits
  <1>3. /\ c.at = o.at /\ c.held = o.held /\ c.state = o.state
        /\ c.members = o.members \cup {v.to} /\ c \in CopyType
    <2>1. /\ DOMAIN c = CopyFields /\ c = [f \in CopyFields |-> c[f]]
          /\ c.state = o.state /\ c.meta = o.meta + 1 /\ c.at = o.at
          /\ c.members = o.members \cup {v.to} /\ c.admins = o.admins \ {v.to}
          /\ c.held = o.held
      BY <1>2 DEF CopyFields
    <2>2. c = [state |-> c.state, meta |-> c.meta, at |-> c.at, members |-> c.members,
               admins |-> c.admins, held |-> c.held]
      BY <2>1 DEF CopyFields
    <2> QED
      BY <1>1, <1>2, <2>1, <2>2 DEF CopyType
  <1>4. Becomes(v, "closed") /\ copy' = [copy EXCEPT ![Owner] = c]
    BY DEF OwnerTakes
  <1>5. Onward(signed, invites, signed, invites')
    BY <1>1, <1>4, BecomesOnward
  <1>6. \E w \in invites' : w.by = Owner /\ w.to = v.to /\ w.status = "closed"
    <2> PICK w : w = [v EXCEPT !.status = "closed"]
      OBVIOUS
    <2>1. w.by = v.by /\ w.to = v.to /\ w.status = "closed"
      BY <1>1 DEF InviteType
    <2>2. w \in invites'
      BY <1>4 DEF Becomes
    <2> QED
      BY <1>1, <2>1, <2>2
  <1>7. OwnerFits(o, stmts, signed, invites')
    BY <1>5, FitsOnward DEF RosterInv, Rosters
  <1>8. OwnerFits(c, stmts, signed, invites')
    <2>1. ASSUME NEW x \in stmts[c.at].removed, x.who \in c.members
          PROVE  BackBy(signed, invites', stmts[c.at], x)
      <3>1. CASE x.who = v.to
        BY <1>6, <3>1 DEF BackBy
      <3>2. CASE x.who # v.to
        BY <1>3, <1>7, <2>1, <3>2 DEF OwnerFits, Passed
      <3> QED
        BY <3>1, <3>2
    <2> QED
      BY <1>3, <1>7, <2>1 DEF OwnerFits, Passed
  <1>9. CopyFits(c, stmts, signed)
    BY <1>2, <1>3, <1>8 DEF CopyFits, OwnerFits
  <1>10. publish' \in SUBSET PublishType
    BY <1>1, <1>2 DEF OwnerTakes, PublishType, RosterInv, Rosters
  <1>11. BundlesFit(bundles, stmts, signed)
    BY DEF RosterInv, Rosters
  <1>12. Rosters(copy', stmts, signed, invites', bundles, publish')
    BY <1>4, <1>5, <1>8, <1>9, <1>10, <1>11, OneCopyFits, OwnerIn DEF RosterInv, Inv, CopiesOK
  <1> QED
    BY <1>12 DEF OwnerTakes, RostersNext

LEMMA PublishFailsFits ==
  ASSUME RosterInv, NEW p \in publish, PublishFails(p)
  PROVE  RostersNext
  <1>1. publish' \in SUBSET PublishType /\ BundlesFit(bundles, stmts, signed)
    BY DEF PublishFails, RosterInv, Rosters
  <1>2. Rosters(copy, stmts, signed, invites, bundles, publish')
    BY <1>1, OnwardSame, NoCopyFits DEF RosterInv
  <1> QED
    BY <1>2 DEF PublishFails, RostersNext

\* The owner tells of a newcomer: its rows signed, and the bundle.
LEMMA PublishMemberJoinedFits ==
  ASSUME RosterInv, NEW p \in publish, PublishMemberJoined(p)
  PROVE  RostersNext
  <1>1. p \in PublishType /\ p.who \in Accounts /\ p.epoch \in Nat
    BY DEF RosterInv, Rosters, PublishType
  <1>2. Rosters(copy', stmts', signed, invites, bundles, publish)
    <2>1. CASE SaysNew
      <3>1. copy[Owner].members \ {Owner, p.who} \in SUBSET Accounts
        BY CopyTyped, OwnerIn
      <3> QED
        BY <1>1, <2>1, <3>1, SignsFits DEF PublishMemberJoined
    <2>2. CASE ~ SaysNew
      BY <2>2 DEF PublishMemberJoined, RosterInv
    <2> QED
      BY <2>1, <2>2
  <1> PICK b : b = [to |-> p.who, at |-> copy'[Owner].at, held |-> {}]
    OBVIOUS
  <1>3. bundles' = bundles \cup {b} /\ publish' = publish \ {p}
    BY DEF PublishMemberJoined
  <1>4. copy'[Owner].at \in DOMAIN stmts' /\ DOMAIN stmts' \subseteq Nat
    <2>1. Good
      BY PublishMemberJoinedStep DEF RosterInv
    <2> QED
      BY <2>1 DEF Good, Inv, OwnerAhead, StatementsOK
  <1>5. BundlesFit(bundles', stmts', signed)
    <2>1. b.to \in Accounts /\ b.at \in DOMAIN stmts' /\ b.at \in Nat /\ b.held = {}
      BY <1>1, <1>4
    <2>2. b \in BundleType
      BY <1>1, <1>4 DEF BundleType
    <2>3. BundlesFit(bundles, stmts', signed)
      BY <1>2 DEF Rosters
    <2> QED
      BY <1>3, <2>1, <2>2, <2>3 DEF BundlesFit
  <1>6. publish' \in SUBSET PublishType
    BY <1>3 DEF RosterInv, Rosters
  <1>7. Rosters(copy', stmts', signed, invites, bundles', publish')
    BY <1>2, <1>5, <1>6, OnwardSame, NoCopyFits
  <1> QED
    BY <1>7 DEF PublishMemberJoined, RostersNext

\* The removal that a re-admit names is that of a remove, or none.
LEMMA RemovalTyped ==
  ASSUME RosterInv, NEW d \in Accounts, NEW x
  PROVE  RemovalOf(d, x) \in Ids \cup {NoId}
  <1> DEFINE c == copy[d]
             entries(R) == {e \in R : e.who = x}
             ids(R) == {e.by : e \in entries(R)}
             R0 == stmts[c.at].removed
             R1 == View(stmts[c.at], c.held).removed
  <1>1. CASE c.at = 0
    BY <1>1 DEF RemovalOf
  <1>2. CASE c.at # 0
    <2>1. c.at \in DOMAIN stmts /\ c.held \subseteq signed
      BY <1>2, CopyTyped
    <2>2. Lists(stmts[c.at]) /\ Sendable(signed)
      BY <2>1 DEF RosterInv, Rosters, StatementsFit, StatementFits
    <2>3. R0 \subseteq RemovedType /\ R1 \subseteq RemovedType
      BY <2>1, <2>2, ViewFacts DEF Lists
    <2>4. ids(R0) \subseteq Ids /\ ids(R1) \subseteq Ids
      BY <2>3 DEF RemovedType
    <2>5. CASE entries(R0) # {}
      <3>1. RemovalOf(d, x) = CHOOSE id \in ids(R0) : TRUE
        BY <1>2, <2>5 DEF RemovalOf
      <3>2. ids(R0) # {}
        BY <2>5
      <3> HIDE DEF ids, R0
      <3> QED
        BY <2>4, <3>1, <3>2
    <2>6. CASE entries(R0) = {} /\ entries(R1) = {}
      BY <1>2, <2>6 DEF RemovalOf
    <2>7. CASE entries(R0) = {} /\ entries(R1) # {}
      <3>1. RemovalOf(d, x) = CHOOSE id \in ids(R1) : TRUE
        BY <1>2, <2>7 DEF RemovalOf
      <3>2. ids(R1) # {}
        BY <2>7
      <3> HIDE DEF ids, R1
      <3> QED
        BY <2>4, <3>1, <3>2
    <2> QED
      BY <2>5, <2>6, <2>7
  <1> QED
    BY <1>1, <1>2

\* What a device signs is a change.
LEMMA DraftTyped ==
  ASSUME RosterInv, NEW d \in Accounts, NEW id \in Ids, NEW kind \in {"add", "remove", "leave"},
         NEW m \in Accounts, NEW adds \in SUBSET ChangeType, NEW keeps \in SUBSET ChangeType,
         NEW readmits \in Ids \cup {NoId}, NEW to \in SUBSET Accounts
  PROVE  LET c == Draft(d, id, kind, m, adds, keeps, readmits, to) IN
         c \in ChangeType /\ c.kind = kind /\ c.signer = d
  <1>1. \A c \in ChangeType : c.id \in Ids
    BY DEF ChangeType
  <1>2. {c.id : c \in adds} \subseteq Ids /\ {c.id : c \in keeps} \subseteq Ids
    BY <1>1
  <1>3. (IF copy[d].at > 0 THEN copy[d].at ELSE copy[d].meta) \in Nat
    BY CopyTyped
  <1> QED
    BY <1>2, <1>3 DEF Draft, ChangeType

\* A device that holds more of what went out, and maybe a statement further on.
LEMMA HoldsMoreFits ==
  ASSUME RosterInv, NEW more, NEW then, Onward(signed, invites, more, then),
         NEW d \in Accounts, NEW H \in SUBSET more, NEW at, at \in DOMAIN stmts \/ at = copy[d].at
  PROVE  LET c == TakesOn(d, at, H) IN
         /\ CopyFits(c, stmts, more) /\ c.at = at /\ c.members = copy[d].members
         /\ c.state = copy[d].state
         /\ d = Owner /\ at = copy[Owner].at => OwnerFits(c, stmts, more, then)
  <1> PICK o : o = copy[d]
    OBVIOUS
  <1> PICK c : c = TakesOn(d, at, H)
    OBVIOUS
  <1>1. /\ CopyFits(o, stmts, more)
        /\ o = [state |-> o.state, meta |-> o.meta, at |-> o.at, members |-> o.members,
                admins |-> o.admins, held |-> o.held]
        /\ o \in CopyType /\ o.at \in DOMAIN stmts \cup {0}
        /\ DOMAIN stmts \subseteq Nat
    <2>1. CopyFits(o, stmts, signed)
      BY CopyTyped
    <2>2. CopyFits(o, stmts, more)
      BY <2>1, FitsOnward
    <2> QED
      BY <2>2, CopyTyped DEF CopyFits, RosterInv, Rosters
  <1>2. c = [o EXCEPT !.at = at, !.held = o.held \cup H]
    BY DEF TakesOn
  <1>3. /\ DOMAIN c = CopyFields /\ c = [f \in CopyFields |-> c[f]]
        /\ c.state = o.state /\ c.meta = o.meta /\ c.at = at /\ c.members = o.members
        /\ c.admins = o.admins /\ c.held = o.held \cup H
    BY <1>1, <1>2 DEF CopyFields
  <1>4. c = [state |-> c.state, meta |-> c.meta, at |-> c.at, members |-> c.members,
             admins |-> c.admins, held |-> c.held]
    BY <1>3 DEF CopyFields
  <1>5. at \in Nat /\ at \in DOMAIN stmts \cup {0} /\ H \subseteq ChangeType
    BY <1>1 DEF CopyType, Onward, Sendable
  <1>6. c \in CopyType
    BY <1>1, <1>3, <1>4, <1>5 DEF CopyType
  <1>7. CopyFits(c, stmts, more)
    BY <1>1, <1>3, <1>5, <1>6 DEF CopyFits
  <1>8. ASSUME d = Owner, at = copy[Owner].at
        PROVE  OwnerFits(c, stmts, more, then)
    <2>1. OwnerFits(o, stmts, more, then)
      BY <1>8, FitsOnward DEF RosterInv, Rosters
    <2> QED
      BY <1>3, <1>8, <2>1 DEF OwnerFits
  <1> QED
    BY <1>3, <1>7, <1>8

LEMMA BundleFits ==
  ASSUME RosterInv, NEW more, signed \subseteq more, NEW x \in Accounts, NEW c,
         CopyFits(c, stmts, more), Bundle(x, c)
  PROVE  BundlesFit(bundles', stmts, more)
  <1>1. BundlesFit(bundles, stmts, more)
    BY DEF RosterInv, Rosters, BundlesFit
  <1>2. CASE c.at = 0
    BY <1>1, <1>2 DEF Bundle
  <1>3. CASE c.at # 0
    <2> PICK b : b = [to |-> x, at |-> c.at, held |-> c.held]
      OBVIOUS
    <2>1. /\ c \in CopyType /\ c.at \in DOMAIN stmts /\ c.held \subseteq more
          /\ c.at \in Nat /\ c.held \subseteq ChangeType
      BY <1>3 DEF CopyFits, CopyType
    <2>2. b \in BundleType /\ b.at \in DOMAIN stmts /\ b.held \subseteq more
      BY <2>1 DEF BundleType
    <2>3. bundles' = bundles \cup {b}
      BY <1>3 DEF Bundle
    <2> QED
      BY <1>1, <2>2, <2>3 DEF BundlesFit
  <1> QED
    BY <1>2, <1>3

LEMMA AdmitFits ==
  ASSUME RosterInv, NEW v \in invites, NEW id \in Ids, Admit(v, id)
  PROVE  RostersNext
  <1> PICK d : d = v.by
    OBVIOUS
  <1>1. d \in Accounts \ {Owner} /\ v.to \in Accounts /\ v.status # "closed"
    BY DEF RosterInv, Inv, SentOK, InviteOK, Admit
  <1> PICK a : a = Draft(d, id, "add", v.to, {}, {}, RemovalOf(d, v.to), copy[d].members \ {d})
    OBVIOUS
  <1> PICK h : h = TakesOn(d, copy[d].at, {a})
    OBVIOUS
  <1> PICK c : c = Refresh(h, stmts)
    OBVIOUS
  <1>2. a \in ChangeType /\ a.kind = "add"
    <2>1. copy[d].members \ {d} \in SUBSET Accounts
      BY <1>1, CopyTyped
    <2>2. RemovalOf(d, v.to) \in Ids \cup {NoId}
      BY <1>1, RemovalTyped
    <2> QED
      BY <1>1, <2>1, <2>2, DraftTyped
  <1>3. h = [copy[d] EXCEPT !.held = copy[d].held \cup {a}]
    BY <1>1, HoldsOnly DEF RosterInv
  <1>4. CASE v.to \in c.members
    <2>1. /\ copy' = [copy EXCEPT ![d] = c] /\ signed' = signed \cup {a}
          /\ Becomes(v, "closed") /\ Bundle(v.to, c)
          /\ stmts' = stmts /\ publish' = publish
      BY <1>3, <1>4 DEF Admit
    <2>2. /\ invites' \in SUBSET InviteType
          /\ \A w \in invites : w.status = "closed" => w \in invites'
      BY <1>1, <2>1, BecomesOnward
    <2>3. Onward(signed, invites, signed', invites')
      BY <1>2, <2>1, <2>2, OnwardMore
    <2>4. CopyFits(h, stmts, signed')
      BY <1>1, <2>1, <2>3, HoldsMoreFits
    <2>5. CopyFits(c, stmts, signed')
      <3>1. StatementsFit(stmts, signed') /\ DOMAIN stmts \subseteq Nat
        BY <2>3, FitsOnward DEF RosterInv, Rosters
      <3>2. Sendable(signed')
        BY <2>3 DEF Onward
      <3> QED
        BY <2>4, <3>1, <3>2, RefreshFits
    <2>6. BundlesFit(bundles', stmts, signed')
      BY <1>1, <2>1, <2>5, BundleFits
    <2>7. publish \in SUBSET PublishType /\ copy = [x \in Accounts |-> copy[x]]
      BY DEF RosterInv, Rosters, Inv, CopiesOK
    <2>8. Rosters([copy EXCEPT ![d] = c], stmts, signed', invites', bundles', publish)
      BY <1>1, <2>3, <2>5, <2>6, <2>7, OneCopyFits DEF RosterInv
    <2> QED
      BY <2>1, <2>8 DEF RostersNext
  <1>5. CASE v.to \notin c.members
    <2>1. Becomes(v, "refused") /\ UNCHANGED <<copy, signed, bundles, stmts, publish>>
      BY <1>3, <1>5 DEF Admit
    <2>2. Onward(signed, invites, signed, invites')
      BY <1>1, <2>1, BecomesOnward
    <2>3. BundlesFit(bundles, stmts, signed) /\ publish \in SUBSET PublishType
      BY DEF RosterInv, Rosters
    <2>4. Rosters(copy, stmts, signed, invites', bundles, publish)
      BY <2>2, <2>3, NoCopyFits DEF RosterInv
    <2> QED
      BY <2>1, <2>4 DEF RostersNext
  <1> QED
    BY <1>4, <1>5

LEMMA ResendBundleFits ==
  ASSUME RosterInv, NEW v \in invites, ResendBundle(v)
  PROVE  RostersNext
  <1>1. v.by \in Accounts /\ v.to \in Accounts /\ v.status # "closed"
    BY DEF RosterInv, Inv, SentOK, InviteOK, ResendBundle
  <1>2. Becomes(v, "closed") /\ Bundle(v.to, copy[v.by]) /\ UNCHANGED <<copy, stmts, signed, publish>>
    BY DEF ResendBundle
  <1>3. Onward(signed, invites, signed, invites')
    BY <1>1, <1>2, BecomesOnward
  <1>4. CopyFits(copy[v.by], stmts, signed)
    BY <1>1, CopyTyped
  <1>5. BundlesFit(bundles', stmts, signed)
    BY <1>1, <1>2, <1>4, BundleFits
  <1>6. publish \in SUBSET PublishType
    BY DEF RosterInv, Rosters
  <1>7. Rosters(copy, stmts, signed, invites', bundles', publish)
    BY <1>3, <1>5, <1>6, NoCopyFits DEF RosterInv
  <1> QED
    BY <1>2, <1>7 DEF RostersNext

\* A device takes on what went out and finishes its view; its state is whatever the step says.
LEMMA FinishesFits ==
  ASSUME RosterInv, NEW d \in Accounts, NEW H \in SUBSET signed, NEW at,
         at = copy[d].at \/ (d # Owner /\ at \in DOMAIN stmts),
         NEW c,
         \/ c = Finish(d, TakesOn(d, at, H), stmts)
         \/ d # Owner /\ c = [Finish(d, TakesOn(d, at, H), stmts) EXCEPT !.state = "removed"],
         copy' = [copy EXCEPT ![d] = c]
  PROVE  Rosters(copy', stmts, signed, invites, bundles, publish)
  <1> PICK h : h = TakesOn(d, at, H)
    OBVIOUS
  <1> PICK f : f = Finish(d, h, stmts)
    OBVIOUS
  <1>1. at \in DOMAIN stmts \/ at = copy[d].at
    OBVIOUS
  <1>2. /\ CopyFits(h, stmts, signed)
        /\ d = Owner => OwnerFits(h, stmts, signed, invites)
    BY <1>1, OnwardSame, HoldsMoreFits
  <1>3. Sendable(signed) /\ StatementsFit(stmts, signed) /\ DOMAIN stmts \subseteq Nat
    BY DEF RosterInv, Rosters
  <1>4. /\ CopyFits(f, stmts, signed)
        /\ CopyFits([f EXCEPT !.state = "removed"], stmts, signed)
        /\ d = Owner => OwnerFits(f, stmts, signed, invites)
    BY <1>2, <1>3, FinishFits
  <1>5. CopyFits(c, stmts, signed) /\ (d = Owner => OwnerFits(c, stmts, signed, invites))
    BY <1>4
  <1>6. BundlesFit(bundles, stmts, signed) /\ publish \in SUBSET PublishType
    BY DEF RosterInv, Rosters
  <1> QED
    BY <1>5, <1>6, OnwardSame, OneCopyFits DEF RosterInv, Inv, CopiesOK

LEMMA TakeBundleFits ==
  ASSUME RosterInv, NEW b \in bundles, TakeBundle(b)
  PROVE  RostersNext
  <1>1. b.to \in Accounts \ {Owner} /\ b.at \in DOMAIN stmts /\ b.held \subseteq signed
    BY DEF RosterInv, Inv, SentOK, Rosters, BundlesFit
  <1> PICK d \in Accounts : d = b.to /\ d # Owner
    BY <1>1
  <1> PICK at : at = IF b.at > copy[d].at THEN b.at ELSE copy[d].at
    OBVIOUS
  <1>2. copy' = [copy EXCEPT ![d] = Finish(d, TakesOn(d, at, b.held), stmts)]
    BY DEF TakeBundle, TakesOn
  <1>3. at = copy[d].at \/ (d # Owner /\ at \in DOMAIN stmts)
    BY <1>1
  <1>4. Rosters(copy', stmts, signed, invites, bundles, publish)
    BY <1>1, <1>2, <1>3, FinishesFits
  <1> QED
    BY <1>4 DEF TakeBundle, RostersNext

-----------------------------------------------------------------------------
(***************************************************************************)
(* ... going out.                                                          *)
(***************************************************************************)

LEMMA RemoveDraftTyped ==
  ASSUME RosterInv, NEW d \in Accounts, NEW id \in Ids, NEW m \in Accounts, NEW to \in SUBSET Accounts
  PROVE  LET r == RemoveDraft(d, id, m, to) IN
         r \in ChangeType /\ r.kind = "remove" /\ r.signer = d /\ r.member = m
  <1> DEFINE adds == AddsOf(copy[d].held, m)
             keeps == SignedBy(copy[d].held, m)
  <1>1. adds \in SUBSET ChangeType /\ keeps \in SUBSET ChangeType
    BY CopyTyped DEF AddsOf, SignedBy
  <1>2. RemoveDraft(d, id, m, to) = Draft(d, id, "remove", m, adds, keeps, NoId, to)
    BY DEF RemoveDraft
  <1> HIDE DEF adds, keeps
  <1>3. Draft(d, id, "remove", m, adds, keeps, NoId, to) \in ChangeType
    BY <1>1, DraftTyped
  <1> QED
    BY <1>2, <1>3 DEF Draft

LEMMA AdminRemovesFits ==
  ASSUME RosterInv, NEW d \in Accounts, NEW m \in Accounts, NEW id \in Ids, AdminRemoves(d, m, id)
  PROVE  RostersNext
  <1> PICK r : r = RemoveDraft(d, id, m, copy[d].members \ {d})
    OBVIOUS
  <1> PICK h : h = TakesOn(d, copy[d].at, {r})
    OBVIOUS
  <1> PICK c : c = Refresh(h, stmts)
    OBVIOUS
  <1>1. r \in ChangeType /\ r.kind = "remove"
    <2>1. copy[d].members \ {d} \in SUBSET Accounts
      BY CopyTyped
    <2> QED
      BY <2>1, RemoveDraftTyped
  <1>2. h = [copy[d] EXCEPT !.held = copy[d].held \cup {r}]
    BY HoldsOnly DEF RosterInv
  <1>3. /\ d # Owner /\ signed' = signed \cup {r} /\ copy' = [copy EXCEPT ![d] = c]
        /\ UNCHANGED <<stmts, bundles, publish>> /\ Expire(d, m)
    BY <1>2 DEF AdminRemoves
  <1>4. /\ invites' \in SUBSET InviteType
        /\ \A w \in invites : w.status = "closed" => w \in invites'
    BY <1>3, ExpireOnward
  <1>5. Onward(signed, invites, signed', invites')
    BY <1>1, <1>3, <1>4, OnwardMore
  <1>6. CopyFits(h, stmts, signed')
    BY <1>3, <1>5, HoldsMoreFits
  <1>7. CopyFits(c, stmts, signed')
    <2>1. StatementsFit(stmts, signed') /\ DOMAIN stmts \subseteq Nat
      BY <1>5, FitsOnward DEF RosterInv, Rosters
    <2>2. Sendable(signed')
      BY <1>5 DEF Onward
    <2> QED
      BY <1>6, <2>1, <2>2, RefreshFits
  <1>8. BundlesFit(bundles, stmts, signed') /\ publish \in SUBSET PublishType
        /\ copy = [x \in Accounts |-> copy[x]]
    BY <1>3 DEF RosterInv, Rosters, BundlesFit, Inv, CopiesOK
  <1>9. Rosters([copy EXCEPT ![d] = c], stmts, signed', invites', bundles, publish)
    BY <1>3, <1>5, <1>7, <1>8, OneCopyFits DEF RosterInv
  <1> QED
    BY <1>3, <1>9 DEF RostersNext

LEMMA LeaveFits ==
  ASSUME RosterInv, NEW d \in Accounts, NEW id \in Ids, Leave(d, id)
  PROVE  RostersNext
  <1> PICK adds \in SUBSET ChangeType : adds = AddsOf(copy[d].held, d)
    BY CopyTyped DEF AddsOf
  <1> PICK keeps \in SUBSET ChangeType : keeps = SignedBy(copy[d].held, d)
    BY CopyTyped DEF SignedBy
  <1> PICK to \in SUBSET Accounts : to = copy[d].members \ {d}
    BY CopyTyped
  <1> PICK l : l = Draft(d, id, "leave", d, adds, keeps, NoId, to)
    OBVIOUS
  <1> PICK h : h = TakesOn(d, copy[d].at, {l})
    OBVIOUS
  <1> PICK r : r = Refresh(h, stmts)
    OBVIOUS
  <1> PICK c : c = [r EXCEPT !.members = r.members \ {d}]
    OBVIOUS
  <1>1. l \in ChangeType /\ l.kind = "leave" /\ l.signer = d
    BY DraftTyped
  <1>2. h = [copy[d] EXCEPT !.held = copy[d].held \cup {l}]
    BY HoldsOnly DEF RosterInv
  <1>3. /\ d # Owner /\ signed' = signed \cup {l} /\ copy' = [copy EXCEPT ![d] = c]
        /\ UNCHANGED <<stmts, invites, bundles, publish>>
    BY <1>2 DEF Leave
  <1>4. Onward(signed, invites, signed', invites)
    <2>1. invites \in SUBSET InviteType /\ \A w \in invites : w.status = "closed" => w \in invites
      BY DEF RosterInv, Rosters
    <2> QED
      BY <1>1, <1>3, <2>1, OnwardMore
  <1>5. CopyFits(h, stmts, signed')
    BY <1>3, <1>4, HoldsMoreFits
  <1>6. CopyFits(r, stmts, signed')
    <2>1. StatementsFit(stmts, signed') /\ DOMAIN stmts \subseteq Nat
      BY <1>4, FitsOnward DEF RosterInv, Rosters
    <2>2. Sendable(signed')
      BY <1>4 DEF Onward
    <2> QED
      BY <1>5, <2>1, <2>2, RefreshFits
  <1>7. CopyFits(c, stmts, signed')
    <2>1. r \in CopyType /\ r.members \subseteq Accounts
      BY <1>6 DEF CopyFits, CopyType
    <2>2. /\ c.at = r.at /\ c.held = r.held /\ c.state = r.state
          /\ c.members = r.members \ {d} /\ c \in CopyType
      BY <2>1 DEF CopyType
    <2> QED
      BY <1>3, <1>6, <2>2 DEF CopyFits
  <1>8. BundlesFit(bundles, stmts, signed') /\ publish \in SUBSET PublishType
        /\ copy = [x \in Accounts |-> copy[x]]
    BY <1>3 DEF RosterInv, Rosters, BundlesFit, Inv, CopiesOK
  <1>9. Rosters([copy EXCEPT ![d] = c], stmts, signed', invites, bundles, publish)
    <2>1. Rosters(copy, stmts, signed, invites, bundles, publish)
      BY DEF RosterInv
    <2>2. d = Owner => OwnerFits(c, stmts, signed', invites)
      BY <1>3
    <2> QED
      BY <1>4, <1>7, <1>8, <2>1, <2>2, OneCopyFits
  <1> QED
    BY <1>3, <1>9 DEF RostersNext

\* Whom the owner removes goes out by the owner's own remove.
LEMMA OwnerRemovesFits ==
  ASSUME RosterInv, NEW m \in Accounts, NEW id \in Ids, OwnerRemoves(m, id)
  PROVE  RostersNext
  <1> PICK r : r = RemoveDraft(Owner, id, m, {})
    OBVIOUS
  <1> PICK o : o = copy[Owner]
    OBVIOUS
  <1> PICK held : held = o.held \cup {r}
    OBVIOUS
  <1> PICK rows : rows = o.members \ {m}
    OBVIOUS
  <1> PICK admins : admins = o.admins \ {m}
    OBVIOUS
  <1> PICK e : e = o.meta + 1
    OBVIOUS
  <1> PICK to : to = (rows \ {Owner}) \cup {m}
    OBVIOUS
  <1> PICK s : s = Statement(rows, admins, held, e, e, to)
    OBVIOUS
  <1> PICK base : base = stmts[o.at]
    OBVIOUS
  <1>1. r \in ChangeType /\ r.kind = "remove" /\ r.signer = Owner /\ r.member = m
    BY OwnerIn, RemoveDraftTyped
  <1>2. /\ m # Owner /\ signed' = signed \cup {r} /\ OwnerKeeps(s, e, held) /\ Expire(Owner, m)
        /\ UNCHANGED <<bundles, publish>>
    BY DEF OwnerRemoves, MayRemoveNow
  <1>3. /\ invites' \in SUBSET InviteType
        /\ \A w \in invites : w.status = "closed" => w \in invites'
    BY <1>2, ExpireOnward
  <1>4. Onward(signed, invites, signed', invites')
    BY <1>1, <1>2, <1>3, OnwardMore
  <1>5. /\ o.members \subseteq Accounts /\ o.admins \subseteq Accounts /\ o.held \subseteq signed
        /\ o.meta \in Nat /\ o.at \in Nat /\ o.at <= o.meta
    BY OwnerIn, CopyTyped DEF RosterInv, Inv, OwnerAhead
  <1>6. e \in Nat /\ e > o.at
    BY <1>5
  <1>7. OwnerFits(o, stmts, signed', invites')
    BY <1>4, FitsOnward DEF RosterInv, Rosters
  <1>8. /\ rows \in SUBSET Accounts /\ Owner \in rows /\ admins \in SUBSET Accounts
        /\ held \in SUBSET signed' /\ to \in SUBSET Accounts
    BY <1>2, <1>5, <1>7 DEF OwnerFits
  <1>9. r \in Backed(signed', base)
    <2>1. r \in signed' /\ KeepsOrder(base, r.signer)
      BY <1>1, <1>2 DEF KeepsOrder
    <2> QED
      BY <2>1 DEF Backed, UpheldIn
  <1>10. Passed(signed', invites', base, rows)
    <2>1. Passed(signed', invites', base, o.members)
      BY <1>7 DEF OwnerFits
    <2>2. ASSUME NEW x \in base.members \ rows
          PROVE  OutBy(signed', base, x)
      <3>1. CASE x = m
        BY <1>1, <1>9, <3>1 DEF OutBy
      <3>2. CASE x # m
        BY <2>1, <3>2 DEF Passed
      <3> QED
        BY <3>1, <3>2
    <2>3. ASSUME NEW x \in base.removed, x.who \in rows
          PROVE  BackBy(signed', invites', base, x)
      BY <2>1, <2>3 DEF Passed
    <2> QED
      BY <2>2, <2>3 DEF Passed
  <1>11. OwnerKeeps(Statement(rows, admins, held, e, e, to), e, held)
    BY <1>2
  <1>12. Rosters(copy', stmts', signed', invites', bundles, publish)
    BY <1>4, <1>6, <1>8, <1>10, <1>11, RowsSigned
  <1> QED
    BY <1>2, <1>12 DEF RostersNext

-----------------------------------------------------------------------------
(***************************************************************************)
(* ... and what reaches the others.                                        *)
(***************************************************************************)

LEMMA ReceiveFits ==
  ASSUME RosterInv, NEW d \in Accounts, NEW c \in signed, Receive(d, c)
  PROVE  RostersNext
  <1>1. copy' = [copy EXCEPT ![d] = Finish(d, TakesOn(d, copy[d].at, {c}), stmts)]
    BY HoldsOnly DEF Receive, RosterInv
  <1>2. Rosters(copy', stmts, signed, invites, bundles, publish)
    BY <1>1, FinishesFits
  <1> QED
    BY <1>2 DEF Receive, RostersNext

LEMMA ReceiveStatementFits ==
  ASSUME RosterInv, NEW d \in Accounts, NEW e \in DOMAIN stmts, ReceiveStatement(d, e)
  PROVE  RostersNext
  <1> PICK r : r = Finish(d, TakesOn(d, e, {}), stmts)
    OBVIOUS
  <1> PICK c : c = IF d \in stmts[e].members THEN r ELSE [r EXCEPT !.state = "removed"]
    OBVIOUS
  <1>1. d # Owner
    BY DEF ReceiveStatement, RosterInv, Inv, StatementsOK, StatementOK
  <1>2. TakesOn(d, e, {}) = [copy[d] EXCEPT !.at = e]
    BY DEF TakesOn, RosterInv, Inv, CopiesOK, CopyOK, Shape, CopyFields
  <1>3. copy' = [copy EXCEPT ![d] = c]
    BY <1>2 DEF ReceiveStatement
  <1>4. c = r \/ c = [r EXCEPT !.state = "removed"]
    OBVIOUS
  <1>5. Rosters(copy', stmts, signed, invites, bundles, publish)
    BY <1>1, <1>3, <1>4, FinishesFits
  <1> QED
    BY <1>5 DEF ReceiveStatement, RostersNext

LEMMA FoldFits ==
  ASSUME RosterInv, Fold
  PROVE  RostersNext
  <1>1. copy[Owner].members \ {Owner} \in SUBSET Accounts
    BY OwnerIn, CopyTyped
  <1>2. Rosters(copy', stmts', signed, invites, bundles, publish)
    BY <1>1, SignsFits DEF Fold
  <1> QED
    BY <1>2 DEF Fold, RostersNext

LEMMA SignToAnswerFits ==
  ASSUME RosterInv, NEW d, SignToAnswer(d)
  PROVE  RostersNext
  <1>1. {} \in SUBSET Accounts
    OBVIOUS
  <1>2. Rosters(copy', stmts', signed, invites, bundles, publish)
    BY <1>1, SignsFits DEF SignToAnswer
  <1> QED
    BY <1>2 DEF SignToAnswer, RostersNext

\* Who catches up was in the group, and is out only if what it took does not list it; the owner
\* is always listed.
LEMMA CatchUpFits ==
  ASSUME RosterInv, NEW d \in Accounts, NEW e \in Accounts, CatchUp(d, e)
  PROVE  RostersNext
  <1> PICK H : H = copy[e].held
    OBVIOUS
  <1> PICK at : at = IF copy[e].at > copy[d].at THEN copy[e].at ELSE copy[d].at
    OBVIOUS
  <1> PICK h : h = TakesOn(d, at, H)
    OBVIOUS
  <1> PICK f : f = Finish(d, h, stmts)
    OBVIOUS
  <1> PICK listed : listed = IF f.at < f.meta THEN d \in stmts[f.at].members ELSE d \in f.members
    OBVIOUS
  <1> PICK c : c = [f EXCEPT !.state = IF listed THEN "active" ELSE "removed"]
    OBVIOUS
  <1>1. /\ copy[e].at \in DOMAIN stmts \cup {0} /\ copy[d].at \in DOMAIN stmts \cup {0}
        /\ copy[e].at \in Nat /\ copy[d].at \in Nat /\ H \in SUBSET signed
    BY CopyTyped
  <1>2. at \in DOMAIN stmts \/ at = copy[d].at
    BY <1>1
  <1>3. d = Owner => at = copy[Owner].at
    BY <1>1 DEF RosterInv, Inv, OwnerAhead
  <1>4. /\ CopyFits(h, stmts, signed) /\ h.members = copy[d].members /\ h.at = at
        /\ d = Owner => OwnerFits(h, stmts, signed, invites)
    BY <1>1, <1>2, <1>3, OnwardSame, HoldsMoreFits
  <1>5. Sendable(signed) /\ StatementsFit(stmts, signed) /\ DOMAIN stmts \subseteq Nat
    BY DEF RosterInv, Rosters
  <1>6. /\ CopyFits(f, stmts, signed) /\ f.at = at
        /\ f.members = h.members \/ Owner \in f.members
        /\ d = Owner => OwnerFits(f, stmts, signed, invites)
    <2>1. CopyFits(f, stmts, signed)
      BY <1>4, <1>5, FinishFits
    <2>4. f.at = h.at
      BY <1>4, <1>5, FinishAt
    <2>2. f.members = h.members \/ Owner \in f.members
      BY <1>4, <1>5, FinishFits
    <2>3. d = Owner => OwnerFits(f, stmts, signed, invites)
      BY <1>4, <1>5, FinishFits
    <2> QED
      BY <1>4, <2>1, <2>2, <2>3, <2>4
  <1>7. Owner \in f.members
    <2>1. d \in copy[d].members /\ copy[d].state = "active"
      BY DEF CatchUp, Asks, In
    <2>2. Owner \in copy[d].members
      BY <2>1 DEF RosterInv, Rosters, CopyFits
    <2> QED
      BY <1>4, <1>6, <2>2
  <1>8. /\ c.at = f.at /\ c.held = f.held /\ c.members = f.members /\ c \in CopyType
        /\ c.state = IF listed THEN "active" ELSE "removed"
    BY <1>6 DEF CopyFits, CopyType
  <1>9. CopyFits(c, stmts, signed)
    BY <1>6, <1>7, <1>8 DEF CopyFits
  <1>10. d = Owner => OwnerFits(c, stmts, signed, invites)
    <2> SUFFICES ASSUME d = Owner
                 PROVE  OwnerFits(c, stmts, signed, invites)
      OBVIOUS
    <2>1. at \in DOMAIN stmts
      BY <1>3 DEF RosterInv, Inv, OwnerAhead
    <2>2. Owner \in stmts[at].members
      BY <1>5, <2>1 DEF StatementsFit, StatementFits, Lists
    <2>3. listed
      BY <1>6, <1>7, <2>2
    <2> QED
      BY <1>6, <1>8, <2>3 DEF OwnerFits
  <1>11. copy' = [copy EXCEPT ![d] = c]
    BY DEF CatchUp, TakesOn
  <1>12. BundlesFit(bundles, stmts, signed) /\ publish \in SUBSET PublishType
         /\ copy = [x \in Accounts |-> copy[x]]
    BY DEF RosterInv, Rosters, Inv, CopiesOK
  <1>13. Rosters([copy EXCEPT ![d] = c], stmts, signed, invites, bundles, publish)
    BY <1>9, <1>10, <1>12, OnwardSame, OneCopyFits DEF RosterInv
  <1> QED
    BY <1>11, <1>13 DEF CatchUp, RostersNext

-----------------------------------------------------------------------------
(***************************************************************************)
(* The theorems.                                                           *)
(***************************************************************************)

LEMMA InitRosters == Init => Rosters(copy, stmts, signed, invites, bundles, publish)
  <1> SUFFICES ASSUME Init
               PROVE  Rosters(copy, stmts, signed, invites, bundles, publish)
    OBVIOUS
  <1>1. stmts = [n \in {1} |-> First] /\ stmts[1] = First /\ DOMAIN stmts = {1}
    BY DEF Init
  <1>2. signed = {} /\ invites = {} /\ bundles = {} /\ publish = {}
    BY DEF Init
  <1>3. Sendable({})
    BY FS_EmptySet DEF Sendable
  <1>4. /\ First.members = StartMembers /\ First.admins = StartAdmins /\ First.removed = {}
        /\ First.folded = {} /\ First.after = 0
    BY DEF First
  <1>5. Lists(First)
    BY <1>4, RosterAssumption DEF Lists, Once
  <1>6. First \in StatementType
    BY RosterAssumption DEF First, StatementType
  <1>7. StatementsFit(stmts, {})
    BY <1>1, <1>4, <1>5, <1>6 DEF StatementsFit, StatementFits
  <1>8. Settled(stmts, {}, {})
    BY <1>1, <1>4 DEF Settled
  <1> PICK v : v = View(First, {})
    OBVIOUS
  <1> PICK c : c = [state |-> "active", meta |-> 1, at |-> 1, members |-> v.members,
                    admins |-> v.admins, held |-> {}]
    OBVIOUS
  <1>9. /\ v.members \subseteq Accounts /\ v.admins \subseteq Accounts /\ Owner \in v.members
        /\ Passed({}, {}, First, v.members)
    BY <1>3, <1>5, ViewFacts
  <1>10. c = [NoCopy EXCEPT !.state = "active", !.meta = 1, !.at = 1,
                            !.members = v.members, !.admins = v.admins]
    <2> PICK x : x = [NoCopy EXCEPT !.state = "active", !.meta = 1, !.at = 1,
                                    !.members = v.members, !.admins = v.admins]
      OBVIOUS
    <2>1. /\ DOMAIN x = CopyFields /\ x = [f \in CopyFields |-> x[f]]
          /\ x.state = "active" /\ x.meta = 1 /\ x.at = 1 /\ x.members = v.members
          /\ x.admins = v.admins /\ x.held = {}
      BY DEF NoCopy, CopyFields
    <2>2. x = [state |-> x.state, meta |-> x.meta, at |-> x.at, members |-> x.members,
               admins |-> x.admins, held |-> x.held]
      BY <2>1 DEF CopyFields
    <2> QED
      BY <2>1, <2>2
  <1>11. copy = [d \in Accounts |-> IF d \in StartMembers THEN c ELSE NoCopy]
    BY <1>10 DEF Init
  <1>12. /\ c.state = "active" /\ c.at = 1 /\ c.members = v.members /\ c.held = {}
         /\ c \in CopyType
    BY <1>9 DEF CopyType
  <1>13. CopyFits(c, stmts, {})
    BY <1>1, <1>9, <1>12 DEF CopyFits
  <1>14. CopyFits(NoCopy, stmts, {})
    BY DEF CopyFits, NoCopy, CopyType
  <1>15. \A d \in Accounts : CopyFits(copy[d], stmts, {})
    BY <1>11, <1>13, <1>14
  <1>16. OwnerFits(copy[Owner], stmts, {}, {})
    BY <1>1, <1>9, <1>11, <1>12, OwnerIn, RosterAssumption DEF OwnerFits
  <1> QED
    BY <1>1, <1>2, <1>3, <1>7, <1>8, <1>15, <1>16 DEF Rosters, BundlesFit

LEMMA NextRosters ==
  ASSUME RosterInv, [Next]_vars
  PROVE  RostersNext
  <1>1. CASE ComingIn
    BY <1>1, InviteFits, AcceptFits, RefuseFits, TakeRefusalFits, OwnerTakesFits, ResendBundleFits,
       AdmitFits, PublishMemberJoinedFits, PublishFailsFits, TakeBundleFits DEF ComingIn
  <1>2. CASE GoingOut
    BY <1>2, LeaveFits, OwnerRemovesFits, AdminRemovesFits DEF GoingOut
  <1>3. CASE Spreading
    BY <1>3, ReceiveFits, ReceiveStatementFits, CatchUpFits, SignToAnswerFits, FoldFits DEF Spreading
  <1>4. CASE UNCHANGED vars
    BY <1>4 DEF vars, RosterInv, RostersNext
  <1> QED
    BY <1>1, <1>2, <1>3, <1>4 DEF Next

\* The roster of every statement and copy fits what was said, in every behaviour.
THEOREM RostersFit == Spec => []RosterInv
  <1>1. Init => RosterInv
    BY InitInv, InitRosters DEF RosterInv
  <1>2. RosterInv /\ [Next]_vars => RosterInv'
    BY NextGood, NextRosters DEF Good, RosterInv, RostersNext
  <1> QED
    BY <1>1, <1>2, PTL DEF Spec

\* Every variable keeps its type, and every copy of a member in the group lists the owner.
THEOREM TypeCorrect == Spec => []TypeOK
  <1>1. RosterInv => TypeOK
    <2> SUFFICES ASSUME RosterInv
                 PROVE  TypeOK
      OBVIOUS
    <2>1. 1 \in DOMAIN stmts /\ DOMAIN stmts \subseteq Nat
      BY DEF RosterInv, Rosters
    <2>2. \A n \in DOMAIN stmts : stmts[n] \in StatementType
      BY DEF RosterInv, Rosters, StatementsFit, StatementFits
    <2>3. \A d \in Accounts : /\ copy[d] \in CopyType /\ copy[d].at \in DOMAIN stmts \cup {0}
                              /\ copy[d].members # {} /\ copy[d].state = "active"
                                 => Owner \in copy[d].members
      BY DEF RosterInv, Rosters, CopyFits
    <2>4. /\ signed \in SUBSET ChangeType /\ invites \in SUBSET InviteType
          /\ publish \in SUBSET PublishType
          /\ \A b \in bundles : b \in BundleType /\ b.at \in DOMAIN stmts
      BY DEF RosterInv, Rosters, Sendable, BundlesFit
    <2> QED
      BY <2>1, <2>2, <2>3, <2>4 DEF TypeOK
  <1> QED
    BY <1>1, RostersFit, PTL

\* Nobody falls out of the group by a race: between a statement and the next, whoever is gone
\* left or was removed by a remove that the owner or an admin of it stands behind (R3).
THEOREM OutBySay == Spec => []GoesOutBySay
  <1>1. RosterInv => GoesOutBySay
    <2> SUFFICES ASSUME RosterInv, NEW n \in Later,
                        NEW x \in stmts[stmts[n].after].members \ stmts[n].members
                 PROVE  \/ \E c \in signed : c.kind = "leave" /\ c.signer = x
                        \/ \E c \in StoodBehind(stmts[stmts[n].after]) :
                              c.kind = "remove" /\ c.member = x
      BY DEF GoesOutBySay
    <2>1. Passed(signed, invites, stmts[stmts[n].after], stmts[n].members)
      BY DEF Later, RosterInv, Rosters, Settled
    <2> QED
      BY <2>1, BackedIsStoodBehind DEF Passed, OutBy
  <1> QED
    BY <1>1, RostersFit, PTL

\* Whom a statement lists as removed comes back by the owner's own invite, or by an add that
\* names that removal and that the owner or an admin stands behind (R2, G020 5).
THEOREM BackByKeepers == Spec => []RemovedReturnsByKeepers
  <1>1. RosterInv => RemovedReturnsByKeepers
    <2> SUFFICES ASSUME RosterInv, NEW n \in Later, NEW x \in stmts[stmts[n].after].removed,
                        x.who \in stmts[n].members
                 PROVE  \/ \E v \in invites : v.by = Owner /\ v.to = x.who /\ v.status = "closed"
                        \/ \E c \in StoodBehind(stmts[stmts[n].after]) :
                              c.kind = "add" /\ c.member = x.who /\ c.readmits = x.by
      BY DEF RemovedReturnsByKeepers
    <2>1. Passed(signed, invites, stmts[stmts[n].after], stmts[n].members)
      BY DEF Later, RosterInv, Rosters, Settled
    <2> QED
      BY <2>1, BackedIsStoodBehind DEF Passed, BackBy
  <1> QED
    BY <1>1, RostersFit, PTL

-----------------------------------------------------------------------------
(***************************************************************************)
(* A fold says nothing new.                                                *)
(***************************************************************************)

LEMMA FoldSaysNothing ==
  ASSUME RosterInv, Fold, copy[Owner].meta = copy[Owner].at
  PROVE  LET v == View(stmts[copy[Owner].at], copy[Owner].held)
             w == View(stmts'[copy'[Owner].at], copy'[Owner].held)
         IN /\ v.members = copy'[Owner].members /\ v.members = w.members
            /\ v.admins = w.admins /\ v.removed = w.removed
  <1> PICK o : o = copy[Owner]
    OBVIOUS
  <1> PICK base : base = stmts[o.at]
    OBVIOUS
  <1> PICK e : e = o.at + 1
    OBVIOUS
  <1> PICK to : to = o.members \ {Owner}
    OBVIOUS
  <1> PICK t : t = Statement(o.members, o.admins, o.held, e, 0, to)
    OBVIOUS
  <1> PICK S : S = [n \in DOMAIN stmts \cup {e} |-> IF n = e THEN t ELSE stmts[n]]
    OBVIOUS
  <1> PICK c : c = [o EXCEPT !.at = e, !.meta = e, !.members = t.members, !.admins = t.admins,
                             !.held = o.held]
    OBVIOUS
  <1> DEFINE v == View(base, o.held)
  <1>1. /\ o \in CopyType /\ o.held \subseteq signed /\ o.at \in Nat /\ o.meta = o.at
        /\ Owner \in o.members /\ o.at # 0 /\ o.at \in DOMAIN stmts
    BY OwnerIn, CopyTyped DEF RosterInv, Rosters, OwnerFits, CopyFits, Inv, OwnerAhead
  <1>2. o.members = v.members /\ o.admins = v.admins
    <2>1. CopyOK(Owner, o, stmts)
      BY OwnerIn DEF RosterInv, Inv, CopiesOK
    <2> QED
      BY <1>1, <2>1 DEF CopyOK, Computed
  <1>3. NextEpoch = e
    BY <1>1 DEF NextEpoch
  <1>4. stmts' = S /\ copy' = [copy EXCEPT ![Owner] = Refresh(c, S)]
    BY <1>3 DEF Fold, Signs, OwnerKeeps
  <1> PICK r : r = Refresh(c, S)
    OBVIOUS
  <1>5. S[e] = t
    OBVIOUS
  <1>6. Sendable(signed) /\ StatementOK(base)
    BY <1>1 DEF RosterInv, Rosters, Inv, StatementsOK
  <1>7. IsFiniteSet(o.held) /\ \A b \in o.held : b.base \in Nat
    BY <1>1, <1>6, FS_Subset DEF Sendable, ChangeType
  <1> PICK floor : floor = IF e > Lag /\ e - Lag > base.floor THEN e - Lag ELSE base.floor
    OBVIOUS
  <1>8. /\ t.members = v.members /\ t.admins = v.admins
        /\ t.removed = {x \in v.removed : x.who \notin t.members}
        /\ t.floor = floor
        /\ t.folded = {b \in base.folded \cup v.folds : b.base >= floor}
    <2>1. /\ t.members = o.members /\ t.admins = o.admins
          /\ t.removed = {x \in v.removed : x.who \notin o.members}
          /\ t.floor = floor
          /\ t.folded = {b \in base.folded \cup v.folds : b.base >= floor}
      BY DEF Statement
    <2> QED
      BY <1>2, <2>1
  <1> HIDE DEF v
  <1>9. Live(t, o.held) \subseteq Live(base, o.held) \ v.folds
    <2> SUFFICES ASSUME NEW b \in o.held, b \notin t.folded, b.base >= t.floor
                 PROVE  b \notin base.folded /\ b.base >= base.floor /\ b \notin v.folds
      BY DEF Live
    <2>1. b.base \in Nat /\ base.floor \in Nat /\ floor \in Nat /\ base.floor <= floor
      BY <1>1, <1>6, <1>7, RosterAssumption DEF StatementOK
    <2>2. b.base >= floor /\ b \notin base.folded \cup v.folds
      BY <1>8
    <2> QED
      BY <2>1, <2>2
  <1>10. /\ View(t, o.held).members = v.members
         /\ View(t, o.held).admins = v.admins
         /\ View(t, o.held).removed = v.removed
    <2>1. FoldOf(base, o.held, t)
      BY <1>8, <1>9 DEF v, FoldOf
    <2>2. /\ View(t, o.held).members = View(base, o.held).members
          /\ View(t, o.held).admins = View(base, o.held).admins
          /\ View(t, o.held).removed = View(base, o.held).removed
      BY <1>7, <2>1, FoldedView
    <2> QED
      BY <2>2 DEF v
  <1> PICK w : w = View(t, o.held)
    OBVIOUS
  <1>11. r.at = e /\ r.members = w.members /\ r.held = Live(t, o.held)
    <2>1. DOMAIN o = CopyFields
      BY <1>1 DEF CopyType, CopyFields
    <2>2. DOMAIN c = CopyFields /\ c.at = e /\ c.meta = e /\ c.held = o.held
      BY <2>1 DEF CopyFields
    <2>3. ~ (c.at = 0 \/ c.at < c.meta)
      BY <1>1, <2>2
    <2>4. r = [c EXCEPT !.members = w.members, !.admins = w.admins, !.meta = e,
                        !.held = Live(t, o.held)]
      BY <1>5, <2>2, <2>3 DEF Refresh
    <2> QED
      BY <2>2, <2>4 DEF CopyFields
  <1>12. copy'[Owner] = r /\ stmts'[r.at] = t
    BY <1>4, <1>5, <1>11, OwnerIn DEF RosterInv, Inv, CopiesOK
  <1>13. View(t, r.held) = w
    BY <1>11, LiveOfLive, SameLiveSameView
  <1> QED
    BY <1>10, <1>11, <1>12, <1>13 DEF v

\* Folding changes nobody's membership (FoldChanges).
THEOREM FoldChangesNobody == Spec => FoldKeepsRoster
  <1>1. RosterInv /\ [Next]_vars =>
          [Fold /\ copy[Owner].meta = copy[Owner].at =>
             LET v == View(stmts[copy[Owner].at], copy[Owner].held)
                 w == View(stmts'[copy'[Owner].at], copy'[Owner].held)
             IN /\ v.members = copy'[Owner].members /\ v.members = w.members
                /\ v.admins = w.admins /\ v.removed = w.removed]_vars
    BY FoldSaysNothing
  <1> QED
    BY <1>1, RostersFit, PTL DEF Spec, FoldKeepsRoster
=============================================================================
