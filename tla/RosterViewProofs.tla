-------------------------- MODULE RosterViewProofs --------------------------
(***************************************************************************)
(* What the roster rules of GroupRoster compute, for any statement and any *)
(* finite set of changes: the rounds of the removes and of the adds are    *)
(* functions by recursion, and what every round keeps is shown by          *)
(* induction on the rounds.                                                *)
(***************************************************************************)
EXTENDS GroupRoster, WellFoundedInduction, FiniteSetTheorems, TLAPS

-----------------------------------------------------------------------------
(***************************************************************************)
(* Induction over the natural numbers, stated of sets.                     *)
(***************************************************************************)

\* A set of naturals that is not empty has a least element.
LEMMA LeastNatural ==
  ASSUME NEW T, T \subseteq Nat, T # {}
  PROVE  \E x \in T : \A y \in T : ~(y < x)
  <1>1. \E x \in T : \A y \in T : <<y, x>> \notin OpToRel(<, Nat)
    BY NatLessThanWellFounded, WFMin
  <1> QED
    BY <1>1 DEF OpToRel

\* A set with 0, and with n + 1 for each n in it, holds every natural.
LEMMA SetInduction ==
  ASSUME NEW T, 0 \in T, \A n \in Nat : n \in T => n + 1 \in T
  PROVE  Nat \subseteq T
  <1> SUFFICES ASSUME Nat \ T # {}
               PROVE  FALSE
    OBVIOUS
  <1>1. PICK x \in Nat \ T : \A y \in Nat \ T : ~(y < x)
    BY LeastNatural
  <1>2. x # 0 /\ x - 1 \in Nat /\ x - 1 < x /\ (x - 1) + 1 = x
    BY <1>1
  <1>3. x - 1 \in T
    BY <1>1, <1>2
  <1> QED
    BY <1>1, <1>2, <1>3

\* A function over 0..n that starts at a and makes each value from the one before.
Rounds(S, a, G, n) ==
  {h \in [0..n -> S] : h[0] = a /\ \A i \in 0..n : i # n => h[i + 1] = G[i][h[i]]}

\* Two of them agree where both are defined.
LEMMA RoundsAgree ==
  ASSUME NEW S, NEW a \in S, NEW G \in [Nat -> [S -> S]],
         NEW n \in Nat, NEW m \in Nat, n <= m,
         NEW h \in Rounds(S, a, G, n), NEW g \in Rounds(S, a, G, m)
  PROVE  \A i \in 0..n : h[i] = g[i]
  <1> DEFINE T == {i \in Nat : i <= n => h[i] = g[i]}
  <1>1. 0 \in T
    BY DEF Rounds
  <1>2. ASSUME NEW i \in Nat, i \in T
        PROVE  i + 1 \in T
    <2> SUFFICES ASSUME i + 1 <= n
                 PROVE  h[i + 1] = g[i + 1]
      OBVIOUS
    <2>1. i \in 0..n /\ i # n /\ i \in 0..m /\ i # m
      OBVIOUS
    <2>2. h[i] = g[i]
      BY <1>2, <2>1
    <2> QED
      BY <2>1, <2>2 DEF Rounds
  <1>3. Nat \subseteq T
    <2> HIDE DEF T
    <2> QED
      BY <1>1, <1>2, SetInduction
  <1> QED
    BY <1>3

\* There is one over each 0..n.
LEMMA RoundsExist ==
  ASSUME NEW S, NEW a \in S, NEW G \in [Nat -> [S -> S]]
  PROVE  \A n \in Nat : Rounds(S, a, G, n) # {}
  <1> DEFINE T == {n \in Nat : Rounds(S, a, G, n) # {}}
  <1>1. 0 \in T
    <2>1. [i \in 0..0 |-> a] \in Rounds(S, a, G, 0)
      BY DEF Rounds
    <2> QED
      BY <2>1
  <1>2. ASSUME NEW n \in Nat, n \in T
        PROVE  n + 1 \in T
    <2>1. PICK h \in Rounds(S, a, G, n) : TRUE
      BY <1>2
    <2>2. h \in [0..n -> S] /\ h[0] = a /\ \A i \in 0..n : i # n => h[i + 1] = G[i][h[i]]
      BY <2>1 DEF Rounds
    <2> DEFINE g == [i \in 0..(n + 1) |-> IF i = n + 1 THEN G[n][h[n]] ELSE h[i]]
    <2>3. /\ n + 1 \in 0..(n + 1) /\ n \in 0..n
          /\ \A i \in 0..(n + 1) : i # n + 1 => i \in 0..n
          /\ \A i \in 0..n : i # n + 1 /\ i \in 0..(n + 1) /\ (i # n => i + 1 # n + 1 /\ i + 1 \in 0..n)
      OBVIOUS
    <2>4. g \in [0..(n + 1) -> S]
      BY <2>2, <2>3
    <2>5. g[0] = a
      BY <2>2, <2>3
    <2>6. ASSUME NEW i \in 0..(n + 1), i # n + 1
          PROVE  g[i + 1] = G[i][g[i]]
      <3>1. i \in 0..n /\ g[i] = h[i]
        BY <2>3, <2>6
      <3>2. CASE i = n
        BY <2>3, <3>1, <3>2
      <3>3. CASE i # n
        BY <2>2, <2>3, <3>1, <3>3
      <3> QED
        BY <3>2, <3>3
    <2>7. g \in Rounds(S, a, G, n + 1)
      BY <2>4, <2>5, <2>6 DEF Rounds
    <2> QED
      BY <2>7
  <1>3. Nat \subseteq T
    <2> HIDE DEF T
    <2> QED
      BY <1>1, <1>2, SetInduction
  <1> QED
    BY <1>3

\* The functions over all naturals that do.
ByRounds(S, a, G) ==
  {h \in [Nat -> S] : h[0] = a /\ \A n \in Nat : h[n + 1] = G[n][h[n]]}

\* There is one: what a definition by recursion chooses is such a function.
LEMMA RecursionExists ==
  ASSUME NEW S, NEW a \in S, NEW G \in [Nat -> [S -> S]]
  PROVE  ByRounds(S, a, G) # {}
  <1> DEFINE pick == [n \in Nat |-> CHOOSE h \in Rounds(S, a, G, n) : TRUE]
             f == [n \in Nat |-> pick[n][n]]
  <1>1. ASSUME NEW n \in Nat
        PROVE  /\ pick[n] \in Rounds(S, a, G, n)
               /\ pick[n] \in [0..n -> S]
               /\ n \in 0..n /\ 0 \in 0..n
    <2>1. pick[n] \in Rounds(S, a, G, n)
      BY RoundsExist
    <2> HIDE DEF pick
    <2>2. pick[n] \in [0..n -> S]
      BY <2>1 DEF Rounds
    <2> QED
      BY <2>1, <2>2
  <1> HIDE DEF pick
  <1>2. f \in [Nat -> S]
    BY <1>1
  <1>3. f[0] = a
    BY <1>1 DEF Rounds
  <1>4. ASSUME NEW n \in Nat
        PROVE  f[n + 1] = G[n][f[n]]
    <2>1. n + 1 \in Nat /\ n <= n + 1 /\ n \in 0..(n + 1) /\ n # n + 1 /\ n \in 0..n
      OBVIOUS
    <2>2. pick[n + 1] \in Rounds(S, a, G, n + 1) /\ pick[n] \in Rounds(S, a, G, n)
      BY <1>1, <2>1
    <2>3. pick[n + 1][n + 1] = G[n][pick[n + 1][n]]
      BY <2>1, <2>2 DEF Rounds
    <2>4. pick[n][n] = pick[n + 1][n]
      BY <2>1, <2>2, RoundsAgree
    <2> QED
      BY <2>1, <2>3, <2>4
  <1>5. f \in ByRounds(S, a, G)
    BY <1>2, <1>3, <1>4 DEF ByRounds
  <1> QED
    BY <1>5

-----------------------------------------------------------------------------
(***************************************************************************)
(* The removes that count.                                                 *)
(***************************************************************************)

\* Whatever holds every remove that counts by removes it holds, holds them all.
LEMMA CountingRemovesIn ==
  ASSUME NEW s, NEW L, IsFiniteSet(L), NEW D,
         D \subseteq {c \in L : c.kind = "remove"},
         \A W \in SUBSET D : \A r \in {c \in L : c.kind = "remove"} : RemoveCounts(s, L, W, r) => r \in D
  PROVE  CountingRemoves(s, L) \subseteq D
  <1> DEFINE removes == {c \in L : c.kind = "remove"}
             Rest(W) == {r \in removes : RemoveCounts(s, L, W, r)}
             S == SUBSET D
             G == [n \in Nat |-> [W \in S |-> Rest(W)]]
             Is(v) == v = [n \in Nat |-> IF n = 0 THEN {} ELSE Rest(v[n - 1])]
             V == CHOOSE v : Is(v)
  <1>1. CountingRemoves(s, L) = V[Cardinality(removes)]
    BY DEF CountingRemoves
  <1>2. Cardinality(removes) \in Nat
    <2>1. IsFiniteSet(removes)
      BY FS_Subset
    <2> QED
      BY <2>1, FS_CardinalityType
  <1> HIDE DEF V, removes
  <1>3. PICK h \in [Nat -> S] : h[0] = {} /\ \A n \in Nat : h[n + 1] = G[n][h[n]]
    <2>1. {} \in S
      OBVIOUS
    <2>2. \A W \in S : Rest(W) \in S
      BY DEF removes
    <2> HIDE DEF S, Rest
    <2>3. G \in [Nat -> [S -> S]]
      BY <2>2
    <2> HIDE DEF G
    <2>4. ByRounds(S, {}, G) # {}
      BY <2>1, <2>3, RecursionExists
    <2> QED
      BY <2>4 DEF ByRounds
  <1>4. Is(h)
    <2>1. ASSUME NEW n \in Nat, n # 0
          PROVE  h[n] = Rest(h[n - 1])
      <3>1. n - 1 \in Nat /\ (n - 1) + 1 = n
        BY <2>1
      <3>2. h[n] = G[n - 1][h[n - 1]] /\ h[n - 1] \in S
        BY <3>1, <1>3
      <3> HIDE DEF S, Rest
      <3> QED
        BY <3>1, <3>2
    <2> HIDE DEF Rest
    <2> QED
      BY <1>3, <2>1
  <1>5. Is(V)
    <2> HIDE DEF Is
    <2> QED
      BY <1>4 DEF V
  <1>6. \A n \in Nat : V[n] = h[n]
    <2> DEFINE T == {n \in Nat : V[n] = h[n]}
    <2> HIDE DEF Rest
    <2>1. 0 \in T
      BY <1>4, <1>5
    <2>2. ASSUME NEW n \in Nat, n \in T
          PROVE  n + 1 \in T
      <3>1. n + 1 \in Nat /\ n + 1 # 0 /\ (n + 1) - 1 = n
        OBVIOUS
      <3>2. V[n + 1] = Rest(V[n]) /\ h[n + 1] = Rest(h[n])
        BY <1>4, <1>5, <3>1
      <3>3. V[n] = h[n]
        BY <2>2
      <3> QED
        BY <3>1, <3>2, <3>3
    <2> HIDE DEF T
    <2>3. Nat \subseteq T
      BY <2>1, <2>2, SetInduction
    <2> QED
      BY <2>3 DEF T
  <1> QED
    BY <1>1, <1>2, <1>3, <1>6

\* A remove that counts is a remove, of someone who is not the owner.
LEMMA CountingRemovesAre ==
  ASSUME NEW s, NEW L, IsFiniteSet(L)
  PROVE  \A r \in CountingRemoves(s, L) : r \in L /\ r.kind = "remove" /\ r.member # Owner
  <1> DEFINE D == {c \in L : c.kind = "remove" /\ c.member # Owner}
  <1>1. \A W \in SUBSET D : \A r \in {c \in L : c.kind = "remove"} : RemoveCounts(s, L, W, r) => r \in D
    BY DEF RemoveCounts
  <1>2. D \subseteq {c \in L : c.kind = "remove"}
    OBVIOUS
  <1> HIDE DEF D
  <1>3. CountingRemoves(s, L) \subseteq D
    BY <1>1, <1>2, CountingRemovesIn
  <1> QED
    BY <1>3 DEF D

-----------------------------------------------------------------------------
(***************************************************************************)
(* The adds that count.                                                    *)
(***************************************************************************)

\* Where the rounds of RunAdds start.
AtFirst(s, L, V) == [in |-> {a \in s.members : Stands(s, L, V, a)},
                     present |-> {a \in s.members : Present(s, V, a)}, taken |-> {}]

\* RunAdds ends in whatever it starts in and no add leads out of.
LEMMA RunAddsIn ==
  ASSUME NEW s, NEW L, IsFiniteSet(L), NEW V, NEW S, AtFirst(s, L, V) \in S,
         \A so \in S : \A a \in L : a.kind = "add" /\ ~ Barred(s, V, a) => TakeIn(s, L, V, so, a) \in S
  PROVE  RunAdds(s, L, V) \in S
  <1> DEFINE start == AtFirst(s, L, V)
             open == {a \in L : a.kind = "add" /\ ~Barred(s, V, a)}
             Now(so, id) == {a \in open \ so.taken : a.id = id}
             Try(so, id) == IF Now(so, id) = {} THEN so
                            ELSE TakeIn(s, L, V, so, CHOOSE a \in Now(so, id) : TRUE)
             Turn(n) == (n % MaxChanges) + 1
             G == [n \in Nat |-> [so \in S |-> Try(so, Turn(n))]]
             Is(v) == v = [n \in Nat |-> IF n = 0 THEN start ELSE Try(v[n - 1], Turn(n - 1))]
             after == CHOOSE v : Is(v)
  <1>1. RunAdds(s, L, V) = after[MaxChanges * Cardinality(open)]
    BY DEF RunAdds, AtFirst
  <1>2. MaxChanges * Cardinality(open) \in Nat
    <2>1. IsFiniteSet(open)
      BY FS_Subset
    <2>2. Cardinality(open) \in Nat
      BY <2>1, FS_CardinalityType
    <2> HIDE DEF open
    <2> QED
      BY <2>2, RosterAssumption
  <1>3. start \in S
    OBVIOUS
  <1> HIDE DEF after, start
  <1>4. ASSUME NEW so \in S, NEW id
        PROVE  Try(so, id) \in S
    <2>1. CASE Now(so, id) = {}
      BY <2>1
    <2>2. CASE Now(so, id) # {}
      <3> PICK a : a = CHOOSE b \in Now(so, id) : TRUE
        OBVIOUS
      <3>1. a \in Now(so, id)
        BY <2>2
      <3>2. a \in L /\ a.kind = "add" /\ ~ Barred(s, V, a)
        BY <3>1
      <3>3. Try(so, id) = TakeIn(s, L, V, so, a)
        BY <2>2
      <3> QED
        BY <3>2, <3>3
    <2> QED
      BY <2>1, <2>2
  <1> HIDE DEF Try, Turn
  <1>5. PICK h \in [Nat -> S] : h[0] = start /\ \A n \in Nat : h[n + 1] = G[n][h[n]]
    <2>1. G \in [Nat -> [S -> S]]
      BY <1>4
    <2> HIDE DEF G
    <2>2. ByRounds(S, start, G) # {}
      BY <1>3, <2>1, RecursionExists
    <2> QED
      BY <2>2 DEF ByRounds
  <1>6. Is(h)
    <2>1. ASSUME NEW n \in Nat, n # 0
          PROVE  h[n] = Try(h[n - 1], Turn(n - 1))
      <3>1. n - 1 \in Nat /\ (n - 1) + 1 = n
        BY <2>1
      <3>2. h[n] = G[n - 1][h[n - 1]] /\ h[n - 1] \in S
        BY <3>1, <1>5
      <3> QED
        BY <3>1, <3>2
    <2> QED
      BY <1>5, <2>1
  <1>7. Is(after)
    <2> HIDE DEF Is
    <2> QED
      BY <1>6 DEF after
  <1>8. \A n \in Nat : after[n] = h[n]
    <2> DEFINE T == {n \in Nat : after[n] = h[n]}
    <2>1. 0 \in T
      BY <1>6, <1>7
    <2>2. ASSUME NEW n \in Nat, n \in T
          PROVE  n + 1 \in T
      <3>1. n + 1 \in Nat /\ n + 1 # 0 /\ (n + 1) - 1 = n
        OBVIOUS
      <3>2. after[n + 1] = Try(after[n], Turn(n)) /\ h[n + 1] = Try(h[n], Turn(n))
        BY <1>6, <1>7, <3>1
      <3>3. after[n] = h[n]
        BY <2>2
      <3> QED
        BY <3>1, <3>2, <3>3
    <2> HIDE DEF T
    <2>3. Nat \subseteq T
      BY <2>1, <2>2, SetInduction
    <2> QED
      BY <2>3 DEF T
  <1> QED
    BY <1>1, <1>2, <1>5, <1>8

\* The adds that may come in at all: not barred, and kept, or by one who may add.
Addable(s, L, V) ==
  {a \in L : /\ a.kind = "add" /\ ~ Barred(s, V, a)
             /\ RemoveKept(V, a) \/ MayAdd(KeepsOrder(s, a.signer), a.readmits)}

StandingIn(s, L, V) == {a \in s.members : Stands(s, L, V, a)}

\* What every round of RunAdds keeps: those who stand are in, and the others by an add taken.
AddRounds(s, L, V) ==
  {so \in [in : SUBSET (s.members \cup {a.member : a \in L}),
           present : SUBSET (s.members \cup {a.member : a \in L}),
           taken : SUBSET Addable(s, L, V)] :
     /\ StandingIn(s, L, V) \subseteq so.in
     /\ \A x \in so.in : x \in StandingIn(s, L, V) \/ \E a \in so.taken : a.member = x}

LEMMA TakeInKeeps ==
  ASSUME NEW s, NEW L, NEW V, NEW so \in AddRounds(s, L, V),
         NEW a \in L, a.kind = "add", ~ Barred(s, V, a)
  PROVE  TakeIn(s, L, V, so, a) \in AddRounds(s, L, V)
  <1> DEFINE X == s.members \cup {b.member : b \in L}
             stand == StandingIn(s, L, V)
  <1>1. CASE ~ AddEntitled(s, L, V, so.in, so.present, a)
    BY <1>1 DEF TakeIn
  <1>2. CASE AddEntitled(s, L, V, so.in, so.present, a)
    <2>1. a \in Addable(s, L, V)
      BY <1>2 DEF AddEntitled, Addable
    <2>2. /\ so = [in |-> so.in, present |-> so.present, taken |-> so.taken]
          /\ so.in \subseteq X /\ so.present \subseteq X /\ so.taken \subseteq Addable(s, L, V)
          /\ stand \subseteq so.in
          /\ \A x \in so.in : x \in stand \/ \E b \in so.taken : b.member = x
      BY DEF AddRounds
    <2>3. a.member \in X
      OBVIOUS
    <2> HIDE DEF X, stand
    <2>4. CASE NamedByLeave(L, a)
      <3>1. TakeIn(s, L, V, so, a) =
              [in |-> so.in, present |-> so.present \cup {a.member}, taken |-> so.taken \cup {a}]
        BY <1>2, <2>2, <2>4 DEF TakeIn
      <3> PICK to : to = TakeIn(s, L, V, so, a)
        OBVIOUS
      <3>2. to.in = so.in /\ to.present = so.present \cup {a.member} /\ to.taken = so.taken \cup {a}
        BY <3>1
      <3>3. to \in [in : SUBSET X, present : SUBSET X, taken : SUBSET Addable(s, L, V)]
        BY <3>1, <2>1, <2>2, <2>3
      <3> QED
        BY <3>2, <3>3, <2>2 DEF AddRounds, X, stand
    <2>5. CASE ~ NamedByLeave(L, a) /\ a.member \notin so.in /\ Cardinality(so.in) >= MaxMembers
      BY <1>2, <2>5 DEF TakeIn
    <2>6. CASE ~ NamedByLeave(L, a) /\ ~ (a.member \notin so.in /\ Cardinality(so.in) >= MaxMembers)
      <3>1. TakeIn(s, L, V, so, a) =
              [in |-> so.in \cup {a.member}, present |-> so.present \cup {a.member},
               taken |-> so.taken \cup {a}]
        BY <1>2, <2>6 DEF TakeIn
      <3> PICK to : to = TakeIn(s, L, V, so, a)
        OBVIOUS
      <3>2. /\ to.in = so.in \cup {a.member} /\ to.present = so.present \cup {a.member}
            /\ to.taken = so.taken \cup {a}
        BY <3>1
      <3>3. to \in [in : SUBSET X, present : SUBSET X, taken : SUBSET Addable(s, L, V)]
        BY <3>1, <2>1, <2>2, <2>3
      <3> QED
        BY <3>2, <3>3, <2>2 DEF AddRounds, X, stand
    <2> QED
      BY <2>4, <2>5, <2>6
  <1> QED
    BY <1>1, <1>2

\* They are kept to the end.
LEMMA RunAddsKeeps ==
  ASSUME NEW s, NEW L, IsFiniteSet(L), NEW V
  PROVE  RunAdds(s, L, V) \in AddRounds(s, L, V)
  <1>1. AtFirst(s, L, V) \in AddRounds(s, L, V)
    <2>1. AtFirst(s, L, V) \in [in : SUBSET (s.members \cup {a.member : a \in L}),
                               present : SUBSET (s.members \cup {a.member : a \in L}),
                               taken : SUBSET Addable(s, L, V)]
      BY DEF AtFirst
    <2> QED
      BY <2>1 DEF AddRounds, StandingIn, AtFirst
  <1> QED
    BY <1>1, TakeInKeeps, RunAddsIn

-----------------------------------------------------------------------------
(***************************************************************************)
(* What a view says of who goes out and who comes back, for any set of     *)
(* changes that went out (StoodBehind with that set as a parameter).       *)
(***************************************************************************)

UpheldIn(sent, s, C) ==
  \A c \in sent :
     \/ c \in C
     \/ /\ ~ KeepsOrder(s, c.signer)
        /\ ~ \E r \in C : r.kind = "remove" /\ r.member = c.signer /\ c.id \in r.keeps

Backed(sent, s) == {c \in sent : \A C \in SUBSET sent : UpheldIn(sent, s, C) => c \in C}

LEMMA BackedIsStoodBehind ==
  ASSUME NEW s
  PROVE  StoodBehind(s) = Backed(signed, s)
  BY DEF StoodBehind, Backed, Upheld, UpheldIn

\* What is stood behind stays so as more changes go out.
LEMMA BackedGrows ==
  ASSUME NEW s, NEW sent, NEW more, sent \subseteq more
  PROVE  Backed(sent, s) \subseteq Backed(more, s)
  <1> SUFFICES ASSUME NEW c \in Backed(sent, s), NEW C \in SUBSET more, UpheldIn(more, s, C)
               PROVE  c \in C
    BY DEF Backed
  <1> DEFINE D == C \cap sent
  <1>1. UpheldIn(sent, s, D)
    <2> SUFFICES ASSUME NEW b \in sent, b \notin D
                 PROVE  /\ ~ KeepsOrder(s, b.signer)
                        /\ ~ \E r \in D : r.kind = "remove" /\ r.member = b.signer /\ b.id \in r.keeps
      BY DEF UpheldIn
    <2>1. b \in more /\ b \notin C
      OBVIOUS
    <2> QED
      BY <2>1 DEF UpheldIn
  <1>2. D \in SUBSET sent
    OBVIOUS
  <1> HIDE DEF D
  <1>3. c \in D
    BY <1>1, <1>2 DEF Backed
  <1> QED
    BY <1>3 DEF D

\* A remove that counts is stood behind, and so is an add that may come in by what keeps it.
LEMMA CountingIsBacked ==
  ASSUME NEW s, NEW sent, NEW L, L \subseteq sent, IsFiniteSet(L)
  PROVE  CountingRemoves(s, L) \subseteq Backed(sent, s)
  <1> SUFFICES ASSUME NEW C \in SUBSET sent, UpheldIn(sent, s, C)
               PROVE  CountingRemoves(s, L) \subseteq C
    BY CountingRemovesAre DEF Backed
  <1> DEFINE removes == {c \in L : c.kind = "remove"}
             D == {c \in removes : c \in C}
  <1>1. ASSUME NEW W \in SUBSET D, NEW r \in removes, RemoveCounts(s, L, W, r)
        PROVE  r \in D
    <2>1. CASE RemoveKept(W, r)
      BY <2>1 DEF RemoveKept, UpheldIn
    <2>2. CASE ~ RemoveKept(W, r)
      <3>1. KeepsOrder(s, r.signer)
        BY <1>1, <2>2 DEF RemoveCounts, MayRemove, KeepsOrder
      <3> QED
        BY <3>1 DEF UpheldIn
    <2> QED
      BY <2>1, <2>2
  <1>2. D \subseteq removes
    OBVIOUS
  <1> HIDE DEF D
  <1>3. CountingRemoves(s, L) \subseteq D
    BY <1>1, <1>2, CountingRemovesIn
  <1> QED
    BY <1>3 DEF D

LEMMA KeptIsBacked ==
  ASSUME NEW s, NEW sent, NEW c \in sent, NEW V, V \subseteq Backed(sent, s),
         \A r \in V : r.kind = "remove",
         RemoveKept(V, c) \/ KeepsOrder(s, c.signer)
  PROVE  c \in Backed(sent, s)
  <1> SUFFICES ASSUME NEW C \in SUBSET sent, UpheldIn(sent, s, C)
               PROVE  c \in C
    BY DEF Backed
  <1>1. V \subseteq C
    BY DEF Backed
  <1> QED
    BY <1>1 DEF UpheldIn, RemoveKept

OutBy(sent, s, x) ==
  \/ \E c \in sent : c.kind = "leave" /\ c.signer = x
  \/ \E c \in Backed(sent, s) : c.kind = "remove" /\ c.member = x

BackBy(sent, asked, s, x) ==
  \/ \E v \in asked : v.by = Owner /\ v.to = x.who /\ v.status = "closed"
  \/ \E c \in Backed(sent, s) : c.kind = "add" /\ c.member = x.who /\ c.readmits = x.by

\* The rows m may follow the statement s: who is gone went by say, who is back came by keepers.
Passed(sent, asked, s, m) ==
  /\ \A x \in s.members \ m : OutBy(sent, s, x)
  /\ \A x \in s.removed : x.who \in m => BackBy(sent, asked, s, x)

\* The changes that went out: finitely many, and no leave of the owner.
Sendable(sent) ==
  /\ IsFiniteSet(sent)
  /\ sent \subseteq ChangeType
  /\ \A c \in sent : c.kind = "leave" => c.signer # Owner

Once(R) == \A x, y \in R : x.who = y.who => x.by = y.by

\* A statement lists the owner, and nobody both as a member and as removed.
Lists(s) ==
  /\ s.members \subseteq Accounts /\ s.admins \subseteq Accounts
  /\ Owner \in s.members
  /\ s.removed \subseteq RemovedType
  /\ Once(s.removed)
  /\ \A x \in s.removed : x.who \notin s.members

\* What a statement and the live changes make of the list of the removed.
LEMMA RemovedRowsFacts ==
  ASSUME NEW s, s.removed \subseteq RemovedType, Once(s.removed),
         NEW V, V \subseteq ChangeType, NEW in
  PROVE  RemovedRows(s, V, in) \subseteq RemovedType /\ Once(RemovedRows(s, V, in))
  <1> DEFINE Old == {x \in s.removed : x.who \notin in /\ ~RemovedIn(V, x.who)}
             Firsts == {v \in V : /\ v.member \notin in
                                  /\ \A w \in V : w.member = v.member => v.id <= w.id}
             New == {[who |-> r.member, by |-> r.id] : r \in Firsts}
  <1>1. RemovedRows(s, V, in) = Old \cup New
    BY DEF RemovedRows
  <1>2. \A r \in V : r.id \in Ids /\ r.member \in Accounts
    BY DEF ChangeType
  <1>3. \A x \in New : \E r \in Firsts : x = [who |-> r.member, by |-> r.id]
    OBVIOUS
  <1>4. New \subseteq RemovedType
    BY <1>2 DEF RemovedType
  <1>5. ASSUME NEW x \in Old \cup New, NEW y \in Old \cup New, x.who = y.who
        PROVE  x.by = y.by
    <2>1. CASE x \in Old /\ y \in Old
      BY <1>5, <2>1 DEF Once
    <2>2. CASE x \in New /\ y \in New
      <3>1. PICK q \in Firsts, r \in Firsts :
               /\ x = [who |-> q.member, by |-> q.id] /\ y = [who |-> r.member, by |-> r.id]
        BY <2>2
      <3>2. q \in V /\ r \in V /\ q.member = r.member /\ q.id <= r.id /\ r.id <= q.id
        BY <3>1, <1>5
      <3>3. q.id \in Nat /\ r.id \in Nat
        BY <3>2, <1>2, RosterAssumption DEF Ids
      <3>4. q.id = r.id
        BY <3>2, <3>3
      <3> QED
        BY <3>1, <3>4
    <2>3. ASSUME NEW z \in Old, NEW r \in Firsts, z.who = r.member
          PROVE  FALSE
      BY <2>3 DEF RemovedIn
    <2>4. CASE x \in Old /\ y \in New
      <3>1. PICK r \in Firsts : y = [who |-> r.member, by |-> r.id]
        BY <2>4
      <3>2. y.who = r.member
        BY <3>1
      <3> QED
        BY <1>5, <2>3, <2>4, <3>2
    <2>5. CASE x \in New /\ y \in Old
      <3>1. PICK r \in Firsts : x = [who |-> r.member, by |-> r.id]
        BY <2>5
      <3>2. x.who = r.member
        BY <3>1
      <3> QED
        BY <1>5, <2>3, <2>5, <3>2
    <2> QED
      BY <2>1, <2>2, <2>4, <2>5
  <1> HIDE DEF Old, New
  <1>6. Once(Old \cup New)
    BY <1>5 DEF Once
  <1>7. Old \subseteq RemovedType
    BY DEF Old
  <1> QED
    BY <1>1, <1>4, <1>6, <1>7

LEMMA ViewFacts ==
  ASSUME NEW s, Lists(s), NEW sent, Sendable(sent), NEW held, held \subseteq sent, NEW asked
  PROVE  LET v == View(s, held) IN
         /\ v.members \subseteq Accounts /\ v.admins \subseteq Accounts /\ Owner \in v.members
         /\ v.removed \subseteq RemovedType /\ Once(v.removed)
         /\ v.folds \subseteq held
         /\ Passed(sent, asked, s, v.members)
  <1> DEFINE L == Live(s, held)
             V == CountingRemoves(s, L)
             ran == RunAdds(s, L, V)
             v == View(s, held)
             stand == StandingIn(s, L, V)
  <1>1. /\ v.members = ran.in /\ v.removed = RemovedRows(s, V, ran.in)
        /\ v.admins = {a \in s.admins : Stands(s, L, V, a)}
        /\ v.folds \subseteq L
    BY DEF View
  <1>2. L \subseteq held /\ L \subseteq sent /\ IsFiniteSet(L)
    <2>1. L \subseteq held
      BY DEF Live
    <2> QED
      BY <2>1, FS_Subset DEF Sendable
  <1> HIDE DEF L
  <1>3. \A r \in V : r \in L /\ r.kind = "remove" /\ r.member # Owner
    BY <1>2, CountingRemovesAre
  <1>4. V \subseteq Backed(sent, s)
    BY <1>2, CountingIsBacked
  <1>5. ran \in AddRounds(s, L, V)
    BY <1>2, RunAddsKeeps
  <1> HIDE DEF V, ran, v
  <1>6. /\ stand \subseteq ran.in /\ ran.in \subseteq s.members \cup {a.member : a \in L}
        /\ \A x \in ran.in : x \in stand \/ \E a \in ran.taken : a.member = x
        /\ ran.taken \subseteq Addable(s, L, V)
    BY <1>5 DEF AddRounds
  <1>7. \A c \in L : c.member \in Accounts /\ c.id \in Ids /\ (c.kind = "leave" => c.signer # Owner)
    BY <1>2 DEF Sendable, ChangeType
  <1>8. v.members \subseteq Accounts /\ v.admins \subseteq Accounts
    BY <1>1, <1>6, <1>7 DEF Lists
  <1>9. Owner \in v.members
    <2>1. Owner \in stand
      BY <1>3, <1>7 DEF StandingIn, Stands, Present, RemovedIn, LeavesOf, Lists
    <2> QED
      BY <1>1, <1>6, <2>1
  <1>10. v.removed \subseteq RemovedType /\ Once(v.removed)
    <2>1. V \subseteq ChangeType
      BY <1>2, <1>3 DEF Sendable
    <2> QED
      BY <1>1, <2>1, RemovedRowsFacts DEF Lists
  <1>11. ASSUME NEW x \in s.members \ v.members
         PROVE  OutBy(sent, s, x)
    <2>1. ~ Stands(s, L, V, x)
      BY <1>1, <1>6 DEF StandingIn
    <2>2. CASE RemovedIn(V, x)
      BY <2>2, <1>3, <1>4 DEF RemovedIn, OutBy
    <2>3. CASE LeavesOf(L, x) # {}
      BY <2>3, <1>2 DEF LeavesOf, OutBy
    <2> QED
      BY <2>1, <2>2, <2>3 DEF Stands, Present
  <1>12. ASSUME NEW x \in s.removed, x.who \in v.members
         PROVE  BackBy(sent, asked, s, x)
    <2>1. x.who \notin stand
      BY DEF Lists, StandingIn
    <2>2. PICK a \in ran.taken : a.member = x.who
      BY <1>1, <1>6, <1>12, <2>1
    <2>3. /\ a \in L /\ a.kind = "add" /\ ~ Barred(s, V, a)
          /\ RemoveKept(V, a) \/ MayAdd(KeepsOrder(s, a.signer), a.readmits)
      BY <1>6, <2>2 DEF Addable
    <2>4. PICK y \in s.removed : y.who = a.member /\ y.by = a.readmits
      BY <2>2, <2>3 DEF Barred, ReadmitFits
    <2>5. a.readmits = x.by /\ x.by \in Ids
      BY <2>2, <2>4 DEF Lists, Once, RemovedType
    <2>6. a.readmits # NoId
      BY <2>5, RosterAssumption DEF Ids, NoId
    <2>7. a \in Backed(sent, s)
      BY <1>2, <1>3, <1>4, <2>3, <2>6, KeptIsBacked DEF MayAdd
    <2> QED
      BY <2>2, <2>3, <2>5, <2>7 DEF BackBy
  <1>13. Passed(sent, asked, s, v.members)
    BY <1>11, <1>12 DEF Passed
  <1> QED
    BY <1>1, <1>2, <1>8, <1>9, <1>10, <1>13 DEF v

-----------------------------------------------------------------------------
(***************************************************************************)
(* What a fold leaves over changes nothing.                                *)
(***************************************************************************)

\* The statement t says what a view from s made of the changes, and leaves live only what that
\* view did not fold: changes that wait for their signer to come in.
FoldOf(s, held, t) ==
  /\ t.members = View(s, held).members /\ t.admins = View(s, held).admins
  /\ t.removed = {x \in View(s, held).removed : x.who \notin t.members}
  /\ Live(t, held) \subseteq Live(s, held) \ View(s, held).folds

\* The view from it is the view from s.
LEMMA FoldedView ==
  ASSUME NEW s, NEW held, IsFiniteSet(held), NEW t, FoldOf(s, held, t)
  PROVE  /\ View(t, held).members = View(s, held).members
         /\ View(t, held).admins = View(s, held).admins
         /\ View(t, held).removed = View(s, held).removed
  <1> DEFINE L == Live(s, held)
             V == CountingRemoves(s, L)
             ran == RunAdds(s, L, V)
             v == View(s, held)
             K == Live(t, held)
             stay == [in |-> t.members, present |-> t.members, taken |-> {}]
  <1> USE DEF FoldOf
  <1>1. /\ v.members = ran.in /\ v.removed = RemovedRows(s, V, ran.in)
        /\ v.admins = {a \in s.admins : Stands(s, L, V, a)}
        /\ v.folds = {c \in L : ~Waiting(s, L, V, ran, c)}
    BY DEF View
  <1>2. IsFiniteSet(L) /\ IsFiniteSet(K)
    BY FS_Subset DEF Live
  <1>3. ran \in AddRounds(s, L, V)
    BY <1>2, RunAddsKeeps
  <1>4. View(t, held) =
          [members |-> RunAdds(t, K, CountingRemoves(t, K)).in,
           admins |-> {a \in t.admins : Stands(t, K, CountingRemoves(t, K), a)},
           removed |-> RemovedRows(t, CountingRemoves(t, K), RunAdds(t, K, CountingRemoves(t, K)).in),
           folds |-> {c \in K : ~Waiting(t, K, CountingRemoves(t, K),
                                         RunAdds(t, K, CountingRemoves(t, K)), c)}]
    BY DEF View
  <1>5. K \subseteq L \ v.folds
    OBVIOUS
  <1> HIDE DEF L, V, ran, v, K
  <1>6. \A c \in K : c \in L /\ Waiting(s, L, V, ran, c)
    BY <1>1, <1>5
  <1>7. \A c \in K : c.kind = "leave" \/ c.kind = "add"
    BY <1>6 DEF Waiting
  <1>8. CountingRemoves(t, K) = {}
    BY <1>2, <1>7, CountingRemovesAre
  <1>9. t.members = ran.in
    BY <1>1 DEF v
  <1>10. ASSUME NEW a \in t.members
         PROVE  LeavesOf(K, a) = {}
    <2> SUFFICES ASSUME NEW c \in K, c.kind = "leave", c.signer = a
                 PROVE  FALSE
      BY DEF LeavesOf
    <2>1. a \notin s.members /\ AddsOf(L, a) = {}
      BY <1>6 DEF Waiting
    <2>2. PICK b \in ran.taken : b.member = a
      BY <1>3, <1>9, <2>1 DEF AddRounds, StandingIn
    <2>3. b \in L /\ b.kind = "add"
      BY <1>3, <2>2 DEF AddRounds, Addable
    <2> QED
      BY <2>1, <2>2, <2>3 DEF AddsOf
  <1>11. \A a \in t.members : Stands(t, K, {}, a) /\ Present(t, {}, a)
    BY <1>10 DEF Stands, Present, RemovedIn
  <1>12. AtFirst(t, K, {}) = stay
    BY <1>11 DEF AtFirst
  <1>13. ASSUME NEW a \in K, a.kind = "add"
         PROVE  TakeIn(t, K, {}, stay, a) = stay
    <2>1. a.signer \notin t.members
      BY <1>6, <1>9, <1>13 DEF Waiting, Vouched
    <2>2. ~ AddEntitled(t, K, {}, stay.in, stay.present, a)
      BY <2>1 DEF AddEntitled, RemoveKept, Vouched
    <2> QED
      BY <2>2 DEF TakeIn
  <1>14. RunAdds(t, K, {}) = stay
    <2>1. AtFirst(t, K, {}) \in {stay}
      BY <1>12
    <2>2. \A so \in {stay} : \A a \in K : a.kind = "add" /\ ~ Barred(t, {}, a) =>
             TakeIn(t, K, {}, so, a) \in {stay}
      BY <1>13
    <2> HIDE DEF stay
    <2>3. RunAdds(t, K, {}) \in {stay}
      BY <1>2, <2>1, <2>2, RunAddsIn
    <2> QED
      BY <2>3
  <1>15. /\ View(t, held).members = t.members
         /\ View(t, held).admins = {a \in t.admins : Stands(t, K, {}, a)}
         /\ View(t, held).removed = RemovedRows(t, {}, t.members)
    BY <1>4, <1>8, <1>14
  <1>16. t.admins \subseteq t.members
    BY <1>1, <1>3, <1>9 DEF v, AddRounds, StandingIn, Stands, Present
  <1>17. View(t, held).admins = t.admins
    BY <1>11, <1>15, <1>16
  <1>18. RemovedRows(t, {}, t.members) = t.removed
    <2>1. \A x \in t.removed : x.who \notin t.members
      OBVIOUS
    <2> QED
      BY <2>1 DEF RemovedRows, RemovedIn
  <1>19. t.removed = v.removed
    <2>1. \A x \in v.removed : x.who \notin t.members
      BY <1>1, <1>9 DEF RemovedRows
    <2> QED
      BY <2>1 DEF v
  <1> QED
    BY <1>15, <1>17, <1>18, <1>19 DEF v
=============================================================================
