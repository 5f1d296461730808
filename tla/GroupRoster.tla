---------------------------- MODULE GroupRoster ----------------------------
(***************************************************************************)
(* Who is in a group chat.  The owner signs statements of the roster, one  *)
(* after the other; members sign changes (add, remove, leave) on top of    *)
(* the latest one.  Every device computes its rows from the statement it   *)
(* holds and the set of changes it holds (ComputeRoster), and the owner    *)
(* folds the changes it holds into its next statement.  Nothing orders the *)
(* changes: they and the statements reach each device in any order, or     *)
(* never, and a device that sees a copy ahead of its own catches up.       *)
(*                                                                         *)
(* Simplifications: one device for each account, and each signature        *)
(* proves itself; no renames, links, changes of role or preset, hand-over, *)
(* dissolve; a catch-up is asked and answered in one step.  Changes are    *)
(* named by numbers, picked in no order, as their ids are hashes.          *)
(***************************************************************************)
EXTENDS Naturals, FiniteSets

CONSTANTS
    Accounts,       \* whoever may ever be in the group
    Owner,          \* its owner
    StartMembers,   \* who the first statement lists
    StartAdmins,    \* and which of them as admins
    Open,           \* the preset: any member invites (else the owner and admins)
    MaxMembers,     \* kMaxGroupMembers
    Lag,            \* kChangeFloorLag
    MaxChanges,     \* bound: signed changes
    MaxInvites      \* bound: invites

ASSUME RosterAssumption ==
    /\ StartMembers \subseteq Accounts
    /\ Owner \in StartMembers
    /\ StartAdmins \subseteq StartMembers \ {Owner}
    /\ Open \in BOOLEAN
    /\ MaxMembers \in Nat /\ Lag \in Nat
    /\ MaxChanges \in Nat /\ MaxInvites \in Nat

VARIABLES
    copy,       \* each account's copy of the group: metadata, member rows, held changes
    stmts,      \* the statements the owner signed, each at its epoch
    signed,     \* every change that went out
    invites,    \* invites, and what became of them
    bundles,    \* the join bundles sent to newcomers
    publish     \* who the owner took in and has not told of yet (PublishMemberJoined)

vars == <<copy, stmts, signed, invites, bundles, publish>>

Ids == 1..MaxChanges
NoId == 0

ChangeType ==
    [id : Ids, kind : {"add", "remove", "leave"}, signer : Accounts, member : Accounts,
     base : Nat, adds : SUBSET Ids, keeps : SUBSET Ids, readmits : Ids \cup {NoId},
     to : SUBSET Accounts]

CopyType ==
    [state : {"out", "active", "removed"}, meta : Nat, at : Nat,
     members : SUBSET Accounts, admins : SUBSET Accounts, held : SUBSET ChangeType]

RemovedType == [who : Accounts, by : Ids]

StatementType ==
    [members : SUBSET Accounts, admins : SUBSET Accounts, removed : SUBSET RemovedType,
     folded : SUBSET ChangeType, floor : Nat, to : SUBSET Accounts, after : Nat, event : Nat]

InviteType == [by : Accounts, to : Accounts, epoch : Nat,
               status : {"sent", "expired", "accepted", "refused", "closed"}]

PublishType == [who : Accounts, epoch : Nat]

BundleType == [to : Accounts, at : Nat, held : SUBSET ChangeType]

-----------------------------------------------------------------------------
(* Who may do what (GroupAllows), at the role r lists the account with; r is *)
(* a statement or a copy.                                                    *)

KeepsOrder(r, a) == a = Owner \/ a \in r.admins

\* Mutant: whom someone removed, any member of an open group brings back.
MayAddAnyone(keepsOrder, readmits) == keepsOrder \/ Open

MayAdd(keepsOrder, readmits) == keepsOrder \/ (Open /\ readmits = NoId)

\* Mutant: the role of the remover is not asked for.
MayRemoveAsMember(r, a, m) == m # Owner /\ (a = Owner \/ m \notin r.admins)

MayRemove(r, a, m) ==
    /\ m # Owner
    /\ a = Owner \/ (a \in r.admins /\ m \notin r.admins)

-----------------------------------------------------------------------------
(* The rules (RosterRules): what a statement s and a set L of live changes   *)
(* make of the roster.  Removals come first, from the statement's owner and  *)
(* admins alone; V is the set of removes that count.                         *)

\* Mutant: the floor is not looked at.
LiveForever(s, held) == {c \in held : c \notin s.folded}

Live(s, held) == {c \in held : c \notin s.folded /\ c.base >= s.floor}

RemovedIn(V, a) == \E r \in V : r.member = a
LeavesOf(L, a) == {l \in L : l.kind = "leave" /\ l.signer = a}
AddsOf(L, a) == {c \in L : c.kind = "add" /\ c.member = a}

\* R3: what a remove of the signer, or the signer's own leave, vouches for
RemoveKept(V, c) == \E r \in V : r.member = c.signer /\ c.id \in r.keeps
LeaveKept(L, V, c) ==
    ~RemovedIn(V, c.signer) /\ \E l \in LeavesOf(L, c.signer) : c.id \in l.keeps

Present(s, V, a) == a \in s.members /\ ~RemovedIn(V, a)
Stands(s, L, V, a) == Present(s, V, a) /\ LeavesOf(L, a) = {}

RemoveCounts(s, L, V, r) ==
    /\ r.member # Owner
    /\ \/ RemoveKept(V, r)
       \/ /\ MayRemove(s, r.signer, r.member)
          /\ Present(s, V, r.signer)
          /\ Stands(s, L, V, r.signer) \/ LeaveKept(L, V, r)

\* A remove depends on the removes of its signer only, and those chains end
\* at the owner: as many rounds as there are removes settle them all.
CountingRemoves(s, L) ==
    LET removes == {c \in L : c.kind = "remove"}
        V[n \in Nat] == IF n = 0 THEN {}
                        ELSE {r \in removes : RemoveCounts(s, L, V[n - 1], r)}
    IN V[Cardinality(removes)]

ReadmitFits(s, V, a) ==
    IF \E x \in s.removed : x.who = a.member
    THEN \E x \in s.removed : x.who = a.member /\ x.by = a.readmits
    ELSE a.readmits = NoId \/ \E r \in V : r.id = a.readmits /\ r.member = a.member

NamedByRemove(V, a) == \E r \in V : r.member = a.member /\ a.id \in r.adds
NamedByLeave(L, a) == \E l \in LeavesOf(L, a.member) : a.id \in l.adds

\* R1 and R2, before who signed it matters
Barred(s, V, a) ==
    \/ NamedByRemove(V, a)
    \/ RemovedIn(V, a.member) /\ ~KeepsOrder(s, a.signer)
    \/ ~ReadmitFits(s, V, a)

\* R3 for an add, given who is in and who came in so far
Vouched(L, V, in, present, a) ==
    a.signer \in in \/ (LeaveKept(L, V, a) /\ a.signer \in present)

AddEntitled(s, L, V, in, present, a) ==
    \/ RemoveKept(V, a)
    \/ /\ Vouched(L, V, in, present, a)
       /\ MayAdd(KeepsOrder(s, a.signer), a.readmits)
       /\ MayAdd(/\ KeepsOrder(s, a.signer)
                 /\ IF a.signer \in in THEN Stands(s, L, V, a.signer)
                                       ELSE Present(s, V, a.signer),
                 a.readmits)

\* One try of the loop of RunAdds: take the add in if its signer stands now
TakeIn(s, L, V, so, a) ==
    IF ~AddEntitled(s, L, V, so.in, so.present, a) THEN so
    ELSE IF NamedByLeave(L, a)
         THEN [so EXCEPT !.present = @ \cup {a.member}, !.taken = @ \cup {a}]
         ELSE IF a.member \notin so.in /\ Cardinality(so.in) >= MaxMembers THEN so
              ELSE [in |-> so.in \cup {a.member}, present |-> so.present \cup {a.member},
                    taken |-> so.taken \cup {a}]

\* The adds in the order of their ids, over and over until none more comes in
RunAdds(s, L, V) ==
    LET start == [in |-> {a \in s.members : Stands(s, L, V, a)},
                  present |-> {a \in s.members : Present(s, V, a)}, taken |-> {}]
        open == {a \in L : a.kind = "add" /\ ~Barred(s, V, a)}
        Try(so, id) == LET now == {a \in open \ so.taken : a.id = id} IN
                       IF now = {} THEN so ELSE TakeIn(s, L, V, so, CHOOSE a \in now : TRUE)
        after[n \in Nat] == IF n = 0 THEN start
                            ELSE Try(after[n - 1], ((n - 1) % MaxChanges) + 1)
    IN after[MaxChanges * Cardinality(open)]

KnownOut(s, L, V, a) ==
    \/ a \in s.members \/ \E x \in s.removed : x.who = a
    \/ RemovedIn(V, a) \/ LeavesOf(L, a) # {}

\* Void only because its signer has not come in yet (SignerNotJoined)
Waiting(s, L, V, ran, c) ==
    CASE c.kind = "leave" ->
           /\ c.signer \notin s.members /\ AddsOf(L, c.signer) = {}
           /\ ~\E x \in s.removed : x.who = c.signer
      [] c.kind = "add" ->
           /\ c \notin ran.taken /\ ~Barred(s, V, c) /\ ~RemoveKept(V, c)
           /\ MayAdd(KeepsOrder(s, c.signer), c.readmits)
           /\ ~Vouched(L, V, ran.in, ran.present, c) /\ ~KnownOut(s, L, V, c.signer)
      [] OTHER -> FALSE

RemovedRows(s, V, in) ==
    {x \in s.removed : x.who \notin in /\ ~RemovedIn(V, x.who)} \cup
    {[who |-> r.member, by |-> r.id] :
        r \in {v \in V : /\ v.member \notin in
                         /\ \A w \in V : w.member = v.member => v.id <= w.id}}

\* ComputeRoster: the roster, the removed list, and what a statement over it folds
View(s, held) ==
    LET L == Live(s, held)
        V == CountingRemoves(s, L)
        ran == RunAdds(s, L, V)
    IN [members |-> ran.in,
        admins |-> {a \in s.admins : Stands(s, L, V, a)},
        removed |-> RemovedRows(s, V, ran.in),
        folds |-> {c \in L : ~Waiting(s, L, V, ran, c)}]

-----------------------------------------------------------------------------
(* A device's copy                                                           *)

\* Mutant: rows are computed when the epoch moves, not for each change.
RefreshAtNewEpoch(c, S) ==
    IF c.at = 0 \/ c.at <= c.meta THEN c
    ELSE LET v == View(S[c.at], c.held) IN
         [c EXCEPT !.members = v.members, !.admins = v.admins, !.meta = c.at,
                   !.held = Live(S[c.at], c.held)]

\* ApplyView: rows from the statement and the changes; what a statement
\* folded or its floor passed is dropped.  Nothing while the statement is
\* older than the epoch the copy was made at.
Refresh(c, S) ==
    IF c.at = 0 \/ c.at < c.meta THEN c
    ELSE LET v == View(S[c.at], c.held) IN
         [c EXCEPT !.members = v.members, !.admins = v.admins, !.meta = c.at,
                   !.held = Live(S[c.at], c.held)]

\* ... and FinishView: a device whose own row goes is out
Finish(d, c, S) ==
    LET r == Refresh(c, S) IN
    IF d \in c.members /\ d \notin r.members THEN [r EXCEPT !.state = "removed"] ELSE r

\* SignRoster, OwnerDraft: of rows m with admins r, at epoch e, folding the changes held;
\* "event" is the epoch of the member_joined or member_removed that carries it (0: none)
Statement(m, r, held, e, event, to) ==
    LET base == stmts[copy[Owner].at]
        v == View(base, held)
        floor == IF e > Lag /\ e - Lag > base.floor THEN e - Lag ELSE base.floor
    IN [members |-> m, admins |-> r, removed |-> {x \in v.removed : x.who \notin m},
        folded |-> {c \in base.folded \cup v.folds : c.base >= floor},
        floor |-> floor, to |-> to, after |-> copy[Owner].at, event |-> event]

\* ... kept, and the owner's rows computed from it
OwnerKeeps(s, e, held) ==
    LET S == [n \in DOMAIN stmts \cup {e} |-> IF n = e THEN s ELSE stmts[n]] IN
    /\ stmts' = S
    /\ copy' = [copy EXCEPT ![Owner] =
                   Refresh([copy[Owner] EXCEPT !.at = e, !.meta = e, !.members = s.members,
                                               !.admins = s.admins, !.held = held], S)]

\* Mutant: a fold alone does not raise the epoch.
EpochOfRows == copy[Owner].meta

\* The epoch of rows not signed yet, else the next one: never two statements at one epoch
NextEpoch == IF copy[Owner].meta > copy[Owner].at THEN copy[Owner].meta ELSE copy[Owner].at + 1

\* Mutant: the changes are dropped before the statement folds them.
SignsAfterDrop(event, to) ==
    LET c == copy[Owner] IN
    OwnerKeeps(Statement(c.members, c.admins, {}, NextEpoch, event, to), NextEpoch, {})

\* The owner's rows as they are, signed
Signs(event, to) ==
    LET c == copy[Owner] IN
    OwnerKeeps(Statement(c.members, c.admins, c.held, NextEpoch, event, to), NextEpoch, c.held)

Foldable == View(stmts[copy[Owner].at], copy[Owner].held).folds # {}
SaysNew == Foldable \/ copy[Owner].meta > copy[Owner].at

UnusedId(id) == \A c \in signed : c.id # id

\* A change d signs: by DraftOn, against the statement it holds
Draft(d, id, kind, m, adds, keeps, readmits, to) ==
    [id |-> id, kind |-> kind, signer |-> d, member |-> m,
     base |-> IF copy[d].at > 0 THEN copy[d].at ELSE copy[d].meta,
     adds |-> {c.id : c \in adds}, keeps |-> {c.id : c \in keeps}, readmits |-> readmits,
     to |-> to]

SignedBy(L, a) == {c \in L : c.signer = a}

\* RemovedEntry: the removal a re-admit of x names, as d knows it (NoId: none)
RemovalOf(d, x) ==
    LET c == copy[d]
        entries(R) == {e \in R : e.who = x}
        ids(R) == {e.by : e \in entries(R)}
    IN CASE c.at = 0 -> NoId
         [] c.at # 0 /\ entries(stmts[c.at].removed) # {} ->
              CHOOSE id \in ids(stmts[c.at].removed) : TRUE
         [] OTHER ->
              LET R == View(stmts[c.at], c.held).removed IN
              IF entries(R) = {} THEN NoId ELSE CHOOSE id \in ids(R) : TRUE

-----------------------------------------------------------------------------
(* Coming in: an invite, its acceptance, the inviter's add, the join bundle  *)

In(d) == d \in copy[d].members /\ copy[d].state = "active"

\* InviteIdentity, and the invite kept by x, which is not in the group as it knows;
\* never the owner, whom every roster lists
Invite(i, x) ==
    /\ Cardinality(invites) < MaxInvites
    /\ In(i)
    /\ x # Owner /\ x \notin copy[i].members /\ x \notin copy[x].members
    /\ ~\E v \in invites : v.by = i /\ v.to = x /\ v.status # "closed"
    /\ MayAdd(KeepsOrder(copy[i], i), RemovalOf(i, x))
    /\ Cardinality(copy[i].members) < MaxMembers
    /\ invites' = invites \cup
           {[by |-> i, to |-> x, epoch |-> copy[i].meta, status |-> "sent"]}
    /\ UNCHANGED <<copy, stmts, signed, bundles, publish>>

Becomes(v, status) == invites' = (invites \ {v}) \cup {[v EXCEPT !.status = status]}

\* Mutant: the newcomer lists who invited it, and not the owner.
AcceptFromInviter(v) ==
    /\ v.status \in {"sent", "expired"}
    /\ copy' = [copy EXCEPT ![v.to] =
                   [copy[v.to] EXCEPT !.state = "active", !.meta = v.epoch, !.at = 0,
                             !.members = @ \cup {v.by, v.to}, !.admins = @ \ {v.by, v.to}]]
    /\ Becomes(v, IF v.status = "sent" THEN "accepted" ELSE "closed")
    /\ UNCHANGED <<stmts, signed, bundles, publish>>

\* AcceptInvite, also of an invite its sender let go of: until the bundle comes, the owner, the
\* inviter and itself are added to what rows it has, and it holds no statement
Accept(v) ==
    /\ v.status \in {"sent", "expired"}
    /\ copy' = [copy EXCEPT ![v.to] =
                   [copy[v.to] EXCEPT !.state = "active", !.meta = v.epoch, !.at = 0,
                             !.members = @ \cup {Owner, v.by, v.to},
                             !.admins = @ \ {v.by, v.to}]]
    /\ Becomes(v, IF v.status = "sent" THEN "accepted" ELSE "closed")
    /\ UNCHANGED <<stmts, signed, bundles, publish>>

\* The acceptance reaches the inviter, which cannot add (any more): it refuses,
\* and the invitee drops the group it made
Refusal(v) ==
    LET c == copy[v.by] IN
    \/ Cardinality(c.members) >= MaxMembers
    \/ ~In(v.by) \/ ~MayAdd(KeepsOrder(c, v.by), NoId)
    \/ /\ v.to \notin c.members /\ v.by # Owner
       /\ ~MayAdd(KeepsOrder(c, v.by), RemovalOf(v.by, v.to))

Refuse(v) ==
    /\ v.status = "accepted" /\ Refusal(v)
    /\ Becomes(v, "refused")
    /\ UNCHANGED <<copy, stmts, signed, bundles, publish>>

TakeRefusal(v) ==
    /\ v.status = "refused"
    /\ copy' = [copy EXCEPT ![v.to] =
                   [copy[v.to] EXCEPT !.members = @ \ {v.to}, !.state = "removed"]]
    /\ Becomes(v, "closed")
    /\ UNCHANGED <<stmts, signed, bundles, publish>>

\* ExpireOutboundInvitesTo: what else d invited x by is void
Expire(d, x) ==
    invites' = {IF v.by # d \/ v.to # x THEN v
                ELSE CASE v.status = "sent" -> [v EXCEPT !.status = "expired"]
                       [] v.status = "accepted" -> [v EXCEPT !.status = "closed"]
                       [] OTHER -> v : v \in invites}

Bundle(x, c) ==
    bundles' = IF c.at = 0 THEN bundles
               ELSE bundles \cup {[to |-> x, at |-> c.at, held |-> c.held]}

\* The owner's own add (AddAsOwner): a row and the next epoch, and no statement of it yet
OwnerTakes(v) ==
    LET c == copy[Owner] IN
    /\ v.status = "accepted" /\ v.by = Owner /\ ~Refusal(v)
    /\ copy' = [copy EXCEPT ![Owner] = [c EXCEPT !.members = @ \cup {v.to},
                                              !.admins = @ \ {v.to}, !.meta = @ + 1]]
    /\ publish' = publish \cup {[who |-> v.to, epoch |-> c.meta + 1]}
    /\ Becomes(v, "closed")
    /\ UNCHANGED <<stmts, signed, bundles>>

\* PublishMemberJoined, once the receiving worker is done with the acceptance: signed and
\* sent to the members, and to the newcomer as its bundle
PublishMemberJoined(p) ==
    /\ publish' = publish \ {p}
    /\ IF SaysNew THEN Signs(p.epoch, copy[Owner].members \ {Owner, p.who})
                  ELSE UNCHANGED <<copy, stmts>>
    /\ bundles' = bundles \cup {[to |-> p.who, at |-> copy'[Owner].at, held |-> {}]}
    /\ UNCHANGED <<signed, invites>>

\* ... or never: the key is not to be had, or the app ends first
PublishFails(p) ==
    /\ publish' = publish \ {p}
    /\ UNCHANGED <<copy, stmts, signed, invites, bundles>>

\* AdmitInvitee by a member or an admin: a signed add, if it counts in its own view
Admit(v, id) ==
    LET d == v.by
        a == Draft(d, id, "add", v.to, {}, {}, RemovalOf(d, v.to), copy[d].members \ {d})
        c == Refresh([copy[d] EXCEPT !.held = @ \cup {a}], stmts)
    IN
    /\ v.status = "accepted" /\ d # Owner /\ ~Refusal(v)
    /\ v.to \notin copy[d].members /\ UnusedId(id)
    /\ IF v.to \in c.members
       THEN /\ copy' = [copy EXCEPT ![d] = c]
            /\ signed' = signed \cup {a}
            /\ Becomes(v, "closed")
            /\ Bundle(v.to, c)
       ELSE /\ Becomes(v, "refused")
            /\ UNCHANGED <<copy, signed, bundles>>
    /\ UNCHANGED <<stmts, publish>>

\* ... or it has them already: the bundle again
ResendBundle(v) ==
    /\ v.status = "accepted" /\ v.by # Owner /\ ~Refusal(v)
    /\ v.to \in copy[v.by].members
    /\ Becomes(v, "closed")
    /\ Bundle(v.to, copy[v.by])
    /\ UNCHANGED <<copy, stmts, signed, publish>>

\* ApplyJoinBundle: taken only if what it proves has us (CheckJoin)
TakeBundle(b) ==
    LET d == b.to
        c == copy[d]
    IN
    /\ d \in c.members
    /\ d \in View(stmts[b.at], c.held \cup b.held).members
    /\ copy' = [copy EXCEPT ![d] =
                   Finish(d, [c EXCEPT !.at = IF b.at > @ THEN b.at ELSE @,
                                       !.held = @ \cup b.held], stmts)]
    /\ UNCHANGED <<stmts, signed, invites, bundles, publish>>

-----------------------------------------------------------------------------
(* Going out                                                                 *)

MayRemoveNow(d, m) ==
    /\ In(d) /\ m # d /\ m \in copy[d].members
    /\ MayRemove(copy[d], d, m)

\* DraftRemove: it names the adds of the member and keeps the changes the member signed
RemoveDraft(d, id, m, to) ==
    Draft(d, id, "remove", m, AddsOf(copy[d].held, m), SignedBy(copy[d].held, m), NoId, to)

\* RemoveAsAdmin: held, sent to all members as they were, then applied
AdminRemoves(d, m, id) ==
    LET r == RemoveDraft(d, id, m, copy[d].members \ {d}) IN
    /\ d # Owner /\ MayRemoveNow(d, m) /\ UnusedId(id)
    /\ signed' = signed \cup {r}
    /\ copy' = [copy EXCEPT ![d] = Refresh([copy[d] EXCEPT !.held = @ \cup {r}], stmts)]
    /\ Expire(d, m)
    /\ UNCHANGED <<stmts, bundles, publish>>

\* RemoveAsOwner: the remove is folded at once by the statement that lists the
\* member no more; nobody else gets it as a change
OwnerRemoves(m, id) ==
    LET r == RemoveDraft(Owner, id, m, {})
        c == copy[Owner]
        rows == c.members \ {m}
        held == c.held \cup {r}
        e == c.meta + 1
    IN
    /\ MayRemoveNow(Owner, m) /\ UnusedId(id)
    /\ signed' = signed \cup {r}
    /\ OwnerKeeps(Statement(rows, c.admins \ {m}, held, e, e, (rows \ {Owner}) \cup {m}), e, held)
    /\ Expire(Owner, m)
    /\ UNCHANGED <<bundles, publish>>

\* LeaveGroup: the leave names the adds that brought it in and keeps what it signed
Leave(d, id) ==
    LET c == copy[d]
        l == Draft(d, id, "leave", d, AddsOf(c.held, d), SignedBy(c.held, d), NoId,
                   c.members \ {d})
    IN
    /\ d # Owner /\ In(d) /\ UnusedId(id)
    /\ signed' = signed \cup {l}
    /\ copy' = [copy EXCEPT ![d] =
                   [Refresh([c EXCEPT !.held = @ \cup {l}], stmts) EXCEPT !.members = @ \ {d}]]
    /\ UNCHANGED <<stmts, invites, bundles, publish>>

-----------------------------------------------------------------------------
(* What reaches the others, and the fold                                     *)

\* ApplyGroupChange
Receive(d, c) ==
    /\ c \in signed /\ d \in c.to /\ d \in copy[d].members
    /\ copy' = [copy EXCEPT ![d] = Finish(d, [copy[d] EXCEPT !.held = @ \cup {c}], stmts)]
    /\ UNCHANGED <<stmts, signed, invites, bundles, publish>>

\* A statement, on its own (ApplyRosterStatement) or with the owner's event
\* (member_joined, member_removed), which an epoch already reached refuses;
\* the one it removes is out, whatever else it holds (MarkRemovedHere)
ReceiveStatement(d, e) ==
    LET c == copy[d]
        new == Finish(d, [c EXCEPT !.at = e], stmts)
    IN
    /\ d \in stmts[e].to /\ d \in c.members
    /\ IF stmts[e].event # 0 THEN stmts[e].event > c.meta ELSE e > c.at
    /\ copy' = [copy EXCEPT ![d] =
                   IF d \in stmts[e].members THEN new ELSE [new EXCEPT !.state = "removed"]]
    /\ UNCHANGED <<stmts, signed, invites, bundles, publish>>

\* FoldNow: 3 s after a change reached the owner, at its start, and before it answers
Fold ==
    /\ Foldable
    /\ Signs(0, copy[Owner].members \ {Owner})
    /\ UNCHANGED <<signed, invites, bundles, publish>>

\* NeedsCatchUp: e's copy is ahead of d's, or has other changes
Behind(d, e) ==
    \/ copy[d].at < copy[e].at
    \/ copy[d].at = copy[e].at /\ copy[d].held # copy[e].held

\* A message of e shows d that it is behind, and d asks e
Asks(d, e) ==
    /\ d # e /\ In(d) /\ In(e)
    /\ e \in copy[d].members /\ d \in copy[e].members
    /\ Behind(d, e) /\ copy[e].at # 0

\* AnswerRosterRequest: the owner, asked, signs its rows first
SignToAnswer(d) ==
    /\ Asks(d, Owner) /\ ~Foldable /\ SaysNew
    /\ Signs(0, {})
    /\ UNCHANGED <<signed, invites, bundles, publish>>

\* The reply taken (ApplyReply): e's statement and all the changes e holds
CatchUp(d, e) ==
    LET c == copy[d]
        new == Finish(d, [c EXCEPT !.at = IF copy[e].at > @ THEN copy[e].at ELSE @,
                                   !.held = @ \cup copy[e].held], stmts)
        listed == IF new.at < new.meta THEN d \in stmts[new.at].members ELSE d \in new.members
    IN
    /\ Asks(d, e)
    /\ e = Owner => ~SaysNew
    /\ copy' = [copy EXCEPT ![d] =
                   [new EXCEPT !.state = IF listed THEN "active" ELSE "removed"]]
    /\ UNCHANGED <<stmts, signed, invites, bundles, publish>>

-----------------------------------------------------------------------------
NoCopy == [state |-> "out", meta |-> 0, at |-> 0, members |-> {}, admins |-> {}, held |-> {}]

First == [members |-> StartMembers, admins |-> StartAdmins, removed |-> {}, folded |-> {},
          floor |-> 0, to |-> StartMembers \ {Owner}, after |-> 0, event |-> 0]

\* The group stands: all its members hold the first statement
Init ==
    /\ stmts = [n \in {1} |-> First]
    /\ copy = [d \in Accounts |->
                  IF d \in StartMembers
                  THEN [NoCopy EXCEPT !.state = "active", !.meta = 1, !.at = 1,
                                      !.members = View(First, {}).members,
                                      !.admins = View(First, {}).admins]
                  ELSE NoCopy]
    /\ signed = {} /\ invites = {} /\ bundles = {} /\ publish = {}

ComingIn ==
    \/ \E i, x \in Accounts : Invite(i, x)
    \/ \E v \in invites : \/ Accept(v) \/ Refuse(v) \/ TakeRefusal(v)
                          \/ OwnerTakes(v) \/ ResendBundle(v)
                          \/ \E id \in Ids : Admit(v, id)
    \/ \E p \in publish : PublishMemberJoined(p) \/ PublishFails(p)
    \/ \E b \in bundles : TakeBundle(b)

GoingOut ==
    \E id \in Ids, d \in Accounts :
        \/ Leave(d, id) \/ OwnerRemoves(d, id)
        \/ \E m \in Accounts : AdminRemoves(d, m, id)

Spreading ==
    \/ \E d \in Accounts, c \in signed : Receive(d, c)
    \/ \E d \in Accounts, e \in DOMAIN stmts : ReceiveStatement(d, e)
    \/ \E d, e \in Accounts : CatchUp(d, e)
    \/ \E d \in Accounts : SignToAnswer(d)
    \/ Fold

Next == ComingIn \/ GoingOut \/ Spreading

Spec == Init /\ [][Next]_vars

-----------------------------------------------------------------------------
\* Every variable keeps its type; a copy is made on a statement there is, and lists the owner
TypeOK ==
    /\ 1 \in DOMAIN stmts /\ DOMAIN stmts \subseteq Nat
    /\ \A n \in DOMAIN stmts : stmts[n] \in StatementType
    /\ \A d \in Accounts : /\ copy[d] \in CopyType /\ copy[d].at \in DOMAIN stmts \cup {0}
                           /\ copy[d].members # {} /\ copy[d].state = "active"
                              => Owner \in copy[d].members
    /\ signed \in SUBSET ChangeType
    /\ invites \in SUBSET InviteType
    /\ publish \in SUBSET PublishType
    /\ \A b \in bundles : b \in BundleType /\ b.at \in DOMAIN stmts

\* What the owner folded once is never live again, under any later statement: it is named as
\* folded, or, once the floor let its name go, it is below the floor (FoldInto, TooOld).
StaysFolded ==
    \A n, m \in DOMAIN stmts : \A c \in stmts[n].folded :
        n <= m => Live(stmts[m], {c}) = {}

\* The owner never signs two statements of one epoch, and takes none back, although the epoch
\* of its rows runs ahead of its statement between an add and its publication (OwnerDraft).
OneStatementAnEpoch ==
    [][\A n \in DOMAIN stmts : n \in DOMAIN stmts' /\ stmts'[n] = stmts[n]]_vars

\* Folding changes nobody's membership: while the owner's rows are those of its statement and
\* its changes, the new statement with what is left of the changes gives the same members,
\* admins and removed list (FoldChanges; "FoldingThenComputingGivesTheSameRoster").
FoldKeepsRoster ==
    [][Fold /\ copy[Owner].meta = copy[Owner].at =>
          LET v == View(stmts[copy[Owner].at], copy[Owner].held)
              w == View(stmts'[copy'[Owner].at], copy'[Owner].held)
          IN /\ v.members = copy'[Owner].members /\ v.members = w.members
             /\ v.admins = w.admins /\ v.removed = w.removed]_vars

\* The statements the owner made on another
Later == {n \in DOMAIN stmts : stmts[n].after # 0}

\* What a statement's keepers of order stand behind: the changes that the owner or an admin
\* signed, and those that a remove they stand behind keeps, which count outright (R3).
Upheld(s, C) ==
    \A c \in signed :
        \/ c \in C
        \/ /\ ~KeepsOrder(s, c.signer)
           /\ ~\E r \in C : r.kind = "remove" /\ r.member = c.signer /\ c.id \in r.keeps

StoodBehind(s) == {c \in signed : \A C \in SUBSET signed : Upheld(s, C) => c \in C}

\* Whoever a statement lists as removed is a member of the next only if the owner took them in
\* itself, or a keeper of order stands behind an add that names that very removal (R2, G020 5).
RemovedReturnsByKeepers ==
    \A n \in Later : \A x \in stmts[stmts[n].after].removed :
        x.who \in stmts[n].members =>
            \/ \E v \in invites : v.by = Owner /\ v.to = x.who /\ v.status = "closed"
            \/ \E c \in StoodBehind(stmts[stmts[n].after]) :
                  c.kind = "add" /\ c.member = x.who /\ c.readmits = x.by

\* Whoever was in a statement and is not in the next has left, or a keeper of order of that
\* statement stands behind their removal: no race of changes drops anyone else.
GoesOutBySay ==
    \A n \in Later : \A x \in stmts[stmts[n].after].members \ stmts[n].members :
        \/ \E c \in signed : c.kind = "leave" /\ c.signer = x
        \/ \E c \in StoodBehind(stmts[stmts[n].after]) : c.kind = "remove" /\ c.member = x

\* A copy that computed its rows from the statement it holds, its device in them
Current(d) == In(d) /\ copy[d].at # 0 /\ copy[d].at = copy[d].meta

\* Two such copies that differ in nothing a message shows (the statement's epoch and the hash
\* of the changes held) list the same members: NeedsCatchUp misses no difference.
NothingToAsk ==
    \A d, e \in Accounts :
        /\ Current(d) /\ Current(e) /\ copy[d].at = copy[e].at /\ copy[d].held = copy[e].held
        => copy[d].members = copy[e].members /\ copy[d].admins = copy[e].admins

\* A statement that folds the leave of an account nobody invited since does not list it: the
\* fold "holds the computed members" (DESIGN.md), and a leave takes its signer off.
LeaverIsOut ==
    \A n \in DOMAIN stmts : \A l \in stmts[n].folded :
        l.kind = "leave" /\ (~\E v \in invites : v.to = l.signer) => l.signer \notin stmts[n].members
=============================================================================
