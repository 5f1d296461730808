-------------------------- MODULE PeerStreamProofs --------------------------
(***************************************************************************)
(* What holds of PeerStream for every number of epochs, messages, restarts *)
(* and clears, and every size of the replay window.                        *)
(***************************************************************************)
EXTENDS PeerStream, WellFoundedInduction, TLAPS

-----------------------------------------------------------------------------
(***************************************************************************)
(* The largest of a bounded set.                                           *)
(***************************************************************************)

\* A bounded set of numbers that is not empty has a largest element.
LEMMA MaxOfBounded ==
  ASSUME NEW S, S \subseteq Nat, S # {}, NEW b \in Nat, \A s \in S : s <= b
  PROVE  /\ Max(S) \in S
         /\ \A s \in S : s <= Max(S)
  <1> DEFINE Bounds == {n \in Nat : \A s \in S : s <= n}
  <1>1. PICK x \in Bounds : \A y \in Bounds : ~(<<y, x>> \in OpToRel(<, Nat))
    <2>1. Bounds \subseteq Nat /\ Bounds # {}
      OBVIOUS
    <2> HIDE DEF Bounds
    <2> QED
      BY <2>1, NatLessThanWellFounded, WFMin
  <1>2. ASSUME NEW y \in Bounds
        PROVE  x <= y
    <2>1. x \in Nat /\ y \in Nat
      BY <1>1
    <2>2. <<y, x>> \notin OpToRel(<, Nat)
      BY <1>1
    <2> HIDE DEF Bounds
    <2>3. ~(y < x)
      BY <2>1, <2>2 DEF OpToRel
    <2> QED
      BY <2>1, <2>3
  <1>3. x \in S
    <2> SUFFICES ASSUME x \notin S
                 PROVE  FALSE
      OBVIOUS
    <2>1. \A s \in S : s \in Nat /\ s <= x /\ s # x
      OBVIOUS
    <2>2. x \in Nat /\ x # 0
      <3>1. PICK s \in S : TRUE
        OBVIOUS
      <3> QED
        BY <2>1, <3>1
    <2>3. x - 1 \in Bounds
      BY <2>1, <2>2
    <2> QED
      BY <1>2, <2>2, <2>3
  <1>4. \A y \in S : x >= y
    BY <1>1
  <1>5. Max(S) \in S /\ \A y \in S : Max(S) >= y
    <2> HIDE DEF Bounds
    <2> QED
      BY <1>3, <1>4 DEF Max
  <1> QED
    BY <1>5

\* The numbers after l, up to n.
LEMMA RangeAfter ==
  ASSUME NEW l \in Nat, NEW n \in Nat
  PROVE  /\ (l + 1)..l = {}
         /\ \A k \in Nat : l < k /\ k <= n => k \in (l + 1)..n
         /\ \A k \in (l + 1)..n : k \in Nat /\ l < k /\ k <= n
  OBVIOUS

-----------------------------------------------------------------------------
(***************************************************************************)
(* The replay window.                                                      *)
(***************************************************************************)

\* The window moves on only over what it holds.
LEMMA ThroughWindow ==
  ASSUME NEW w \in ReplayWindow
  PROVE  /\ Through(w) \in ReplayWindow
         /\ w.last <= Through(w).last
         /\ \A n \in Nat : w.last < n /\ n <= Through(w).last => n \in w.held
         /\ Through(w).held \subseteq w.held
  <1> DEFINE S == {n \in {w.last} \cup w.held : (w.last + 1)..n \subseteq w.held}
             reach == Max(S)
             t == [last |-> reach, held |-> {h \in w.held : h > reach}]
  <1>1. /\ w.last \in Seq \cup {NoSeq} /\ w.held \subseteq Seq
        /\ MaxSeq \in Nat
        /\ Seq \subseteq Nat /\ \A n \in Seq \cup {NoSeq} : n \in Nat /\ n <= MaxSeq
    BY PeerStreamAssumption DEF ReplayWindow, Seq, NoSeq
  <1>2. (w.last + 1)..w.last = {}
    BY <1>1, RangeAfter
  <1>3. S \subseteq Nat /\ S # {} /\ \A s \in S : s <= MaxSeq
    BY <1>1, <1>2
  <1>4. reach \in S /\ \A s \in S : s <= reach
    <2> HIDE DEF S
    <2> QED
      BY <1>1, <1>3, MaxOfBounded
  <1>5. w.last \in S
    BY <1>2
  <1>6. reach \in Seq \cup {NoSeq}
    BY <1>1, <1>4
  <1>7. t \in ReplayWindow
    <2> HIDE DEF reach
    <2> QED
      BY <1>1, <1>6 DEF ReplayWindow
  <1>8. \A n \in Nat : w.last < n /\ n <= reach => n \in w.held
    <2>1. (w.last + 1)..reach \subseteq w.held
      BY <1>4
    <2>2. \A n \in Nat : w.last < n /\ n <= reach => n \in (w.last + 1)..reach
      <3>1. w.last \in Nat /\ reach \in Nat
        BY <1>1, <1>6
      <3> HIDE DEF reach
      <3> QED
        BY <3>1, RangeAfter
    <2> QED
      BY <2>1, <2>2
  <1>9. Through(w) = t
    BY DEF Through
  <1>10. t.last = reach /\ t.held \subseteq w.held
    OBVIOUS
  <1> HIDE DEF t, reach, S
  <1> QED
    BY <1>4, <1>5, <1>7, <1>8, <1>9, <1>10

\* CatchUpTo passes no seq but those up to the one it is told and those held.
LEMMA CatchUpToWindow ==
  ASSUME NEW w \in ReplayWindow, NEW seq \in Seq \cup {NoSeq}
  PROVE  /\ CatchUpTo(w, seq) \in ReplayWindow
         /\ \A n \in Nat : seq < n /\ n <= CatchUpTo(w, seq).last => n <= w.last \/ n \in w.held
         /\ CatchUpTo(w, seq).held \subseteq w.held
  <1>1. seq \in Nat /\ w.last \in Nat
    BY PeerStreamAssumption DEF ReplayWindow, Seq, NoSeq
  <1>2. CASE seq > w.last
    <2> DEFINE c == [w EXCEPT !.last = seq]
    <2>1. c \in ReplayWindow /\ c.last = seq /\ c.held = w.held
      BY DEF ReplayWindow
    <2>2. CatchUpTo(w, seq) = Through(c)
      BY <1>2 DEF CatchUpTo
    <2> HIDE DEF c
    <2> QED
      BY <2>1, <2>2, ThroughWindow
  <1>3. CASE ~(seq > w.last)
    BY <1>1, <1>3 DEF CatchUpTo
  <1> QED
    BY <1>2, <1>3

\* Accept passes no seq but those it holds and the one it is given.
LEMMA AcceptWindow ==
  ASSUME NEW w \in ReplayWindow, NEW seq \in Seq
  PROVE  /\ Accept(w, seq) \in ReplayWindow
         /\ w.last <= Accept(w, seq).last
         /\ \A n \in Nat : w.last < n /\ n <= Accept(w, seq).last => n \in w.held \cup {seq}
         /\ Accept(w, seq).held \subseteq w.held \cup {seq}
  <1>1. seq \in Nat /\ w.last \in Nat
    BY PeerStreamAssumption DEF ReplayWindow, Seq, NoSeq
  <1>2. CASE Accepts(w, seq)
    <2> DEFINE c == [w EXCEPT !.held = @ \cup {seq}]
    <2>1. c \in ReplayWindow /\ c.last = w.last /\ c.held = w.held \cup {seq}
      BY DEF ReplayWindow
    <2>2. Accept(w, seq) = Through(c)
      BY <1>2 DEF Accept
    <2> HIDE DEF c
    <2> QED
      BY <2>1, <2>2, ThroughWindow
  <1>3. CASE ~Accepts(w, seq)
    BY <1>1, <1>3 DEF Accept
  <1> QED
    BY <1>2, <1>3

-----------------------------------------------------------------------------
(***************************************************************************)
(* The updates of a PeerSyncState.                                         *)
(***************************************************************************)

\* What every update keeps: the floor stays, nothing more is closed, and the
\* bounds and the contiguous tail move to seqs of X, the tail never back.
Follows(s, t, X) ==
  /\ t \in PeerSyncState
  /\ t.floor = s.floor
  /\ t.closed \subseteq s.closed
  /\ t.min \in {s.min} \cup X
  /\ t.max \in {s.max} \cup X
  /\ t.contig \in {s.contig} \cup X
  /\ s.contig <= t.contig

\* Follows composes.
LEMMA FollowsTwice ==
  ASSUME NEW X, NEW Y, NEW s \in PeerSyncState, NEW t, NEW u,
         Follows(s, t, X), Follows(t, u, Y)
  PROVE  Follows(s, u, X \cup Y)
  <1>1. s.contig \in Nat /\ t.contig \in Nat /\ u.contig \in Nat
    BY PeerStreamAssumption DEF Follows, PeerSyncState, Seq, NoSeq
  <1>2. s.contig <= u.contig
    BY <1>1 DEF Follows
  <1>3. u.min \in {s.min} \cup X \cup Y /\ u.max \in {s.max} \cup X \cup Y
    BY DEF Follows
  <1>4. u.contig \in {s.contig} \cup X \cup Y
    BY DEF Follows
  <1>5. u.floor = s.floor /\ u.closed \subseteq s.closed
    BY DEF Follows
  <1> QED
    BY <1>2, <1>3, <1>4, <1>5 DEF Follows

\* Larger is the maximum.
LEMMA LargerOf ==
  ASSUME NEW a \in Seq \cup {NoSeq}, NEW b \in Seq \cup {NoSeq}
  PROVE  /\ Larger(a, b) \in Seq \cup {NoSeq}
         /\ Larger(a, b) \in {a, b}
         /\ a <= Larger(a, b) /\ b <= Larger(a, b)
  BY PeerStreamAssumption DEF Larger, Seq, NoSeq

\* Changing the phase alone.
LEMMA PhaseState ==
  ASSUME NEW s \in PeerSyncState, NEW p \in {"ok", "gap", "compromised"}
  PROVE  LET t == [s EXCEPT !.phase = p]
         IN  /\ Follows(s, t, {})
             /\ t.contig = s.contig
             /\ t.max = s.max
             /\ t.phase = p
  <1> DEFINE t == [s EXCEPT !.phase = p]
  <1>1. s.contig \in Nat
    BY PeerStreamAssumption DEF PeerSyncState, Seq, NoSeq
  <1>2. t \in PeerSyncState
    BY DEF PeerSyncState
  <1>3. /\ t.floor = s.floor /\ t.closed = s.closed
        /\ t.min = s.min /\ t.max = s.max
        /\ t.contig = s.contig /\ t.phase = p
    BY DEF PeerSyncState
  <1> HIDE DEF t
  <1>4. Follows(s, t, {})
    BY <1>1, <1>2, <1>3 DEF Follows
  <1> QED
    BY <1>3, <1>4 DEF t

\* A loaded seq moves the loaded bounds only.
LEMMA BackfillState ==
  ASSUME NEW s \in PeerSyncState, NEW seq \in Seq
  PROVE  LET t == ApplyBackfillMessage(s, seq)
         IN  /\ Follows(s, t, {seq})
             /\ t.contig = s.contig
             /\ t.phase = s.phase
  <1> DEFINE min == IF s.min = NoSeq \/ seq < s.min THEN seq ELSE s.min
             max == Larger(s.max, seq)
             t   == [s EXCEPT !.min = min, !.max = max]
  <1>1. /\ s.contig \in Nat
        /\ s.max \in Seq \cup {NoSeq} /\ s.min \in Seq \cup {NoSeq}
    BY PeerStreamAssumption DEF PeerSyncState, Seq, NoSeq
  <1>2. /\ min \in Seq \cup {NoSeq} /\ min \in {s.min, seq}
        /\ max \in Seq \cup {NoSeq} /\ max \in {s.max, seq}
    BY <1>1, LargerOf
  <1>3. ApplyBackfillMessage(s, seq) = t
    BY DEF ApplyBackfillMessage
  <1> HIDE DEF min, max
  <1>4. t \in PeerSyncState
    BY <1>2 DEF PeerSyncState
  <1>5. /\ t.floor = s.floor /\ t.closed = s.closed
        /\ t.min = min /\ t.max = max
        /\ t.contig = s.contig /\ t.phase = s.phase
    BY DEF PeerSyncState
  <1> HIDE DEF t
  <1>6. Follows(s, t, {seq})
    BY <1>1, <1>2, <1>4, <1>5 DEF Follows
  <1> QED
    BY <1>3, <1>5, <1>6

\* The tail advances to a seq, never back.
LEMMA AdvanceState ==
  ASSUME NEW s \in PeerSyncState, NEW seq \in Seq
  PROVE  LET t == ApplyContiguousAdvance(s, seq)
         IN  /\ Follows(s, t, {seq})
             /\ t.contig = Larger(s.contig, seq)
             /\ t.phase = s.phase
  <1> DEFINE b == ApplyBackfillMessage(s, seq)
             c == Larger(s.contig, seq)
             t == [b EXCEPT !.contig = c]
  <1>1. /\ Follows(s, b, {seq})
        /\ b.contig = s.contig
        /\ b.phase = s.phase
    BY BackfillState
  <1>2. b \in PeerSyncState
    BY <1>1 DEF Follows
  <1>3. ApplyContiguousAdvance(s, seq) = [b EXCEPT !.contig = Larger(b.contig, seq)]
    BY DEF ApplyContiguousAdvance
  <1>4. ApplyContiguousAdvance(s, seq) = t
    BY <1>1, <1>3
  <1>5. s.contig \in Seq \cup {NoSeq}
    BY DEF PeerSyncState
  <1>6. c \in Seq \cup {NoSeq} /\ c \in {s.contig, seq} /\ s.contig <= c
    BY <1>5, LargerOf
  <1> HIDE DEF b, c
  <1>7. t \in PeerSyncState
    BY <1>2, <1>6 DEF PeerSyncState
  <1>8. /\ t.floor = b.floor /\ t.closed = b.closed
        /\ t.min = b.min /\ t.max = b.max
        /\ t.contig = c /\ t.phase = b.phase
    BY <1>2 DEF PeerSyncState
  <1> HIDE DEF t
  <1>9. Follows(s, t, {seq})
    BY <1>1, <1>6, <1>7, <1>8 DEF Follows
  <1> QED
    BY <1>1, <1>4, <1>8, <1>9 DEF c

\* A stored message: the tail advances to it, and a gap it ends is over.
LEMMA PersistState ==
  ASSUME NEW s \in PeerSyncState, NEW seq \in Seq
  PROVE  LET t == ApplyPersistedMessage(s, seq)
         IN  /\ Follows(s, t, {seq})
             /\ t.contig = Larger(s.contig, seq)
             /\ t.phase \in {s.phase, "ok"}
  <1> DEFINE a == ApplyContiguousAdvance(s, seq)
             p == IF a.phase = "gap" /\ seq = a.contig THEN "ok" ELSE a.phase
             t == [a EXCEPT !.closed = @ \ {seq}, !.phase = p]
  <1>1. /\ Follows(s, a, {seq})
        /\ a.contig = Larger(s.contig, seq)
        /\ a.phase = s.phase
    BY AdvanceState
  <1>2. a \in PeerSyncState
    BY <1>1 DEF Follows
  <1>3. ApplyPersistedMessage(s, seq) = t
    BY DEF ApplyPersistedMessage
  <1>4. p \in {a.phase, "ok"} /\ p \in {"ok", "gap", "compromised"}
    BY <1>2 DEF PeerSyncState
  <1> HIDE DEF a, p
  <1>5. Follows(a, t, {}) /\ t.contig = a.contig /\ t.phase = p
    <2>1. a.contig \in Nat
      BY <1>2, PeerStreamAssumption DEF PeerSyncState, Seq, NoSeq
    <2>2. t \in PeerSyncState
      BY <1>2, <1>4 DEF PeerSyncState
    <2>3. /\ t.floor = a.floor /\ t.closed \subseteq a.closed
          /\ t.min = a.min /\ t.max = a.max
          /\ t.contig = a.contig /\ t.phase = p
      BY <1>2 DEF PeerSyncState
    <2> HIDE DEF t
    <2> QED
      BY <2>1, <2>2, <2>3 DEF Follows
  <1> HIDE DEF t
  <1>6. Follows(s, t, {seq} \cup {})
    BY <1>1, <1>5, FollowsTwice
  <1>7. {seq} \cup {} = {seq}
    OBVIOUS
  <1> QED
    BY <1>1, <1>3, <1>4, <1>5, <1>6, <1>7

\* The same on the relaxed channel, which leaves a compromised phase.
LEMMA RelaxedState ==
  ASSUME NEW s \in PeerSyncState, NEW seq \in Seq
  PROVE  LET t == ApplyRelaxedPersist(s, seq)
         IN  /\ Follows(s, t, {seq})
             /\ t.contig = Larger(s.contig, seq)
             /\ t.phase # "compromised"
  <1> DEFINE a == ApplyContiguousAdvance(s, seq)
             p == IF a.phase = "compromised" THEN "ok" ELSE a.phase
             t == [a EXCEPT !.closed = @ \ {seq}, !.phase = p]
  <1>1. /\ Follows(s, a, {seq})
        /\ a.contig = Larger(s.contig, seq)
    BY AdvanceState
  <1>2. a \in PeerSyncState
    BY <1>1 DEF Follows
  <1>3. ApplyRelaxedPersist(s, seq) = t
    BY DEF ApplyRelaxedPersist
  <1>4. p # "compromised" /\ p \in {"ok", "gap", "compromised"}
    BY <1>2 DEF PeerSyncState
  <1> HIDE DEF a, p
  <1>5. Follows(a, t, {}) /\ t.contig = a.contig /\ t.phase = p
    <2>1. a.contig \in Nat
      BY <1>2, PeerStreamAssumption DEF PeerSyncState, Seq, NoSeq
    <2>2. t \in PeerSyncState
      BY <1>2, <1>4 DEF PeerSyncState
    <2>3. /\ t.floor = a.floor /\ t.closed \subseteq a.closed
          /\ t.min = a.min /\ t.max = a.max
          /\ t.contig = a.contig /\ t.phase = p
      BY <1>2 DEF PeerSyncState
    <2> HIDE DEF t
    <2> QED
      BY <2>1, <2>2, <2>3 DEF Follows
  <1> HIDE DEF t
  <1>6. Follows(s, t, {seq} \cup {})
    BY <1>1, <1>5, FollowsTwice
  <1>7. {seq} \cup {} = {seq}
    OBVIOUS
  <1> QED
    BY <1>1, <1>3, <1>4, <1>5, <1>6, <1>7

\* The seqs a message may move the bounds to: its own, and the window's
\* contiguous end where that is past the tail.
Reached(s, w, seq) == {seq} \cup {n \in {w.last} : s.contig < n}

\* The next message: the tail ends at it or at the window's contiguous end.
LEMMA NextState ==
  ASSUME NEW s \in PeerSyncState, NEW w \in ReplayWindow, NEW seq \in Seq,
         seq = s.contig + 1
  PROVE  LET t == ContiguousFill(s, w, seq)
         IN  /\ Follows(s, t, Reached(s, w, seq))
             /\ t.contig = seq \/ t.contig = w.last
             /\ t.phase \in {s.phase, "ok"}
  <1> DEFINE f == ApplyPersistedMessage(s, seq)
             l == ApplyContiguousAdvance(f, w.last)
             p == IF l.phase = "gap" /\ l.contig >= l.max THEN "ok" ELSE l.phase
             t == [l EXCEPT !.phase = p]
  <1>1. /\ Follows(s, f, {seq})
        /\ f.contig = Larger(s.contig, seq)
        /\ f.phase \in {s.phase, "ok"}
    BY PersistState
  <1>2. s.contig \in Nat /\ seq \in Nat /\ w.last \in Nat
    BY PeerStreamAssumption DEF PeerSyncState, ReplayWindow, Seq, NoSeq
  <1>3. f \in PeerSyncState /\ f.contig = seq
    BY <1>1, <1>2 DEF Follows, Larger
  <1>4. Follows(s, f, Reached(s, w, seq))
    BY <1>1 DEF Follows, Reached
  <1>5. CASE w.last <= f.contig
    <2>1. ContiguousFill(s, w, seq) = f
      BY <1>5 DEF ContiguousFill
    <2> HIDE DEF f
    <2> QED
      BY <1>1, <1>3, <1>4, <2>1
  <1>6. CASE ~(w.last <= f.contig)
    <2>1. ContiguousFill(s, w, seq) = t
      BY <1>6 DEF ContiguousFill
    <2> HIDE DEF f
    <2>2. w.last \in Seq /\ s.contig < w.last /\ seq < w.last
      BY <1>2, <1>3, <1>6 DEF ReplayWindow, Seq, NoSeq
    <2>3. /\ Follows(f, l, {w.last})
          /\ l.contig = Larger(f.contig, w.last)
          /\ l.phase = f.phase
      BY <1>3, <2>2, AdvanceState
    <2>4. l \in PeerSyncState /\ l.contig = w.last
      BY <1>2, <1>3, <2>2, <2>3 DEF Follows, Larger
    <2>5. p \in {"ok", "gap", "compromised"} /\ p \in {s.phase, "ok"}
      BY <1>1, <2>3, <2>4 DEF PeerSyncState
    <2> HIDE DEF l, p
    <2>6. Follows(l, t, {}) /\ t.contig = l.contig /\ t.phase = p
      BY <2>4, <2>5, PhaseState
    <2> HIDE DEF t
    <2>7. Follows(f, t, {w.last} \cup {})
      BY <1>3, <2>3, <2>6, FollowsTwice
    <2>8. Follows(s, t, {seq} \cup ({w.last} \cup {}))
      BY <1>1, <2>7, FollowsTwice
    <2>9. {seq} \cup ({w.last} \cup {}) = Reached(s, w, seq)
      BY <2>2 DEF Reached
    <2>10. Follows(s, t, Reached(s, w, seq))
      BY <2>8, <2>9
    <2> QED
      BY <2>1, <2>4, <2>5, <2>6, <2>10
  <1> QED
    BY <1>5, <1>6

\* Past a hole: the tail stays, or ends at the window's contiguous end.
LEMMA GapState ==
  ASSUME NEW s \in PeerSyncState, NEW w \in ReplayWindow, NEW seq \in Seq
  PROVE  LET t == WindowedGap(s, w, seq)
         IN  /\ Follows(s, t, Reached(s, w, seq))
             /\ t.contig = s.contig \/ t.contig = w.last
             /\ t.phase # "compromised"
  <1> DEFINE b == ApplyBackfillMessage(s, seq)
             g == [b EXCEPT !.phase = "gap"]
             a == ApplyContiguousAdvance(g, w.last)
             t == [a EXCEPT !.phase = "ok"]
  <1>1. Follows(s, b, {seq}) /\ b.contig = s.contig /\ b \in PeerSyncState
    BY BackfillState DEF Follows
  <1> HIDE DEF b
  <1>2. Follows(b, g, {}) /\ g.contig = b.contig /\ g.phase = "gap"
    BY <1>1, PhaseState
  <1> HIDE DEF g
  <1>3. g \in PeerSyncState /\ g.contig = s.contig
    BY <1>1, <1>2 DEF Follows
  <1>4. Follows(s, g, {seq} \cup {})
    BY <1>1, <1>2, FollowsTwice
  <1>5. Follows(s, g, Reached(s, w, seq))
    BY <1>4 DEF Follows, Reached
  <1>6. CASE w.last > g.contig
    <2>1. WindowedGap(s, w, seq) = t
      BY <1>6 DEF WindowedGap, g, b
    <2>2. w.last \in Seq /\ s.contig < w.last
      BY <1>3, <1>6, PeerStreamAssumption DEF ReplayWindow, PeerSyncState, Seq, NoSeq
    <2>3. Follows(g, a, {w.last}) /\ a.contig = Larger(g.contig, w.last) /\ a \in PeerSyncState
      BY <1>3, <2>2, AdvanceState DEF Follows
    <2>4. a.contig = w.last
      BY <1>3, <2>2, <2>3 DEF Larger
    <2> HIDE DEF a
    <2>5. Follows(a, t, {}) /\ t.contig = a.contig /\ t.phase = "ok"
      BY <2>3, PhaseState
    <2> HIDE DEF t
    <2>6. Follows(g, t, {w.last} \cup {})
      BY <1>3, <2>3, <2>5, FollowsTwice
    <2>7. Follows(s, t, ({seq} \cup {}) \cup ({w.last} \cup {}))
      BY <1>4, <2>6, FollowsTwice
    <2>8. ({seq} \cup {}) \cup ({w.last} \cup {}) = Reached(s, w, seq)
      BY <2>2 DEF Reached
    <2>9. Follows(s, t, Reached(s, w, seq))
      BY <2>7, <2>8
    <2>10. t.phase # "compromised"
      BY <2>5
    <2> QED
      BY <2>1, <2>4, <2>5, <2>9, <2>10
  <1>7. CASE ~(w.last > g.contig)
    <2>1. WindowedGap(s, w, seq) = g
      BY <1>7 DEF WindowedGap, g, b
    <2>2. g.phase # "compromised"
      BY <1>2
    <2> QED
      BY <1>3, <1>5, <2>1, <2>2
  <1> QED
    BY <1>6, <1>7

-----------------------------------------------------------------------------
(***************************************************************************)
(* What Classify decides.                                                  *)
(***************************************************************************)

\* The window passes or holds only what it did before, and the seqs of K.
WindowFollows(w, K) ==
  /\ w \in ReplayWindow
  /\ w.held \subseteq win.held \cup K
  /\ \A n \in Nat : st.contig < n /\ n <= w.last => n <= win.last \/ n \in win.held \cup K

\* A message taken: it is past the floor, the chat was not compromised and is
\* not, and the tail passes no seq but this one and the window's contiguous ones.
Taken(s, w, seq) ==
  /\ seq > st.floor
  /\ st.phase # "compromised"
  /\ s.phase # "compromised"
  /\ Follows(st, s, Reached(st, w, seq))
  /\ WindowFollows(w, {seq})
  /\ \/ st.contig = NoSeq
     \/ \A n \in Nat : st.contig < n /\ n <= s.contig => n = seq \/ n <= w.last

\* A message refused: nothing moves, and no public chat becomes compromised.
Refused(s, w) ==
  /\ Follows(st, s, {})
  /\ WindowFollows(w, {})
  /\ st.phase = "compromised" => s.phase = "compromised"
  /\ ~Strict /\ st.phase # "compromised" => s.phase # "compromised"

GoodOutcome(o, seq) ==
  IF o.keep THEN Taken(o.st, o.win, seq) ELSE Refused(o.st, o.win)

\* An outcome that keeps the message.
LEMMA KeepsIt ==
  ASSUME NEW s, NEW w, NEW seq, Taken(s, w, seq)
  PROVE  GoodOutcome(Outcome(TRUE, s, w), seq)
  <1>1. Outcome(TRUE, s, w).keep
    BY DEF Outcome
  <1>2. Outcome(TRUE, s, w).st = s /\ Outcome(TRUE, s, w).win = w
    BY DEF Outcome
  <1> QED
    BY <1>1, <1>2 DEF GoodOutcome

\* An outcome that does not.
LEMMA RefusesIt ==
  ASSUME NEW s, NEW w, NEW seq, Refused(s, w)
  PROVE  GoodOutcome(Outcome(FALSE, s, w), seq)
  <1>1. ~Outcome(FALSE, s, w).keep
    BY DEF Outcome
  <1>2. Outcome(FALSE, s, w).st = s /\ Outcome(FALSE, s, w).win = w
    BY DEF Outcome
  <1> QED
    BY <1>1, <1>2 DEF GoodOutcome

\* CatchUpTo and Accept, which every outcome's window comes from.
LEMMA OutcomeWindow ==
  ASSUME st \in PeerSyncState, win \in ReplayWindow, NEW seq \in Seq
  PROVE  LET w == CatchUpTo(win, st.contig)
         IN  /\ WindowFollows(w, {})
             /\ WindowFollows(w, {seq})
             /\ WindowFollows(Accept(w, seq), {seq})
  <1> DEFINE w == CatchUpTo(win, st.contig)
             a == Accept(w, seq)
  <1>1. st.contig \in Seq \cup {NoSeq}
    BY DEF PeerSyncState
  <1>2. /\ w \in ReplayWindow
        /\ \A n \in Nat : st.contig < n /\ n <= w.last => n <= win.last \/ n \in win.held
        /\ w.held \subseteq win.held
    BY <1>1, CatchUpToWindow
  <1> HIDE DEF w
  <1>3. /\ a \in ReplayWindow
        /\ w.last <= a.last
        /\ \A n \in Nat : w.last < n /\ n <= a.last => n \in w.held \cup {seq}
        /\ a.held \subseteq w.held \cup {seq}
    BY <1>2, AcceptWindow
  <1> HIDE DEF a
  <1>4. w.last \in Nat /\ a.last \in Nat
    BY <1>2, <1>3, PeerStreamAssumption DEF ReplayWindow, Seq, NoSeq
  <1>5. WindowFollows(w, {}) /\ WindowFollows(w, {seq})
    BY <1>2 DEF WindowFollows
  <1>6. ASSUME NEW n \in Nat, st.contig < n, n <= a.last
        PROVE  n <= win.last \/ n \in win.held \cup {seq}
    <2>1. CASE n <= w.last
      BY <1>2, <1>6, <2>1
    <2>2. CASE ~(n <= w.last)
      BY <1>2, <1>3, <1>4, <1>6, <2>2
    <2> QED
      BY <2>1, <2>2
  <1>7. WindowFollows(a, {seq})
    BY <1>2, <1>3, <1>6 DEF WindowFollows
  <1> QED
    BY <1>5, <1>7 DEF a, w

\* Whatever the branch it takes, Classify moves the state and the window only
\* over what is stored or known, and refuses what is below the floor.
LEMMA ClassifyOutcome ==
  ASSUME st \in PeerSyncState, win \in ReplayWindow, ClosedIsCleared,
         NEW seq \in Seq, NEW older \in BOOLEAN
  PROVE  GoodOutcome(Classify(seq, older), seq)
  <1> DEFINE w == CatchUpTo(win, st.contig)
             a == Accept(w, seq)
  <1>1. /\ WindowFollows(w, {})
        /\ WindowFollows(w, {seq})
        /\ WindowFollows(a, {seq})
    BY OutcomeWindow
  <1>2. w \in ReplayWindow /\ a \in ReplayWindow
    BY <1>1 DEF WindowFollows
  <1>3. /\ st.contig \in Seq \cup {NoSeq} /\ st.floor \in Seq \cup {NoSeq}
        /\ seq \in Nat /\ st.contig \in Nat /\ st.floor \in Nat
        /\ st.closed \subseteq Seq
        /\ st.phase \in {"ok", "gap", "compromised"}
    BY PeerStreamAssumption DEF PeerSyncState, Seq, NoSeq
  <1> HIDE DEF w, a
  <1>4. CASE seq <= st.floor \/ Latched(st)
    <2>1. Classify(seq, older) = Outcome(FALSE, st, w)
      BY <1>4 DEF Classify, w
    <2>2. Follows(st, st, {})
      BY <1>3 DEF Follows
    <2>3. Refused(st, w)
      BY <1>1, <2>2 DEF Refused
    <2> QED
      BY <2>1, <2>3, RefusesIt
  <1>5. ASSUME ~(seq <= st.floor \/ Latched(st))
        PROVE  GoodOutcome(Classify(seq, older), seq)
    <2>1. seq > st.floor /\ st.phase # "compromised" /\ seq \notin st.closed
      BY <1>3, <1>5 DEF Latched, ClosedIsCleared
    <2> DEFINE c == [st EXCEPT !.phase = "compromised"]
               back == ApplyBackfillMessage(st, seq)
               stored == ApplyPersistedMessage(st, seq)
               relaxed == ApplyRelaxedPersist(st, seq)
               fill == ContiguousFill(st, a, seq)
               gap == WindowedGap(st, a, seq)
               far == [back EXCEPT !.phase = "gap"]
    <2>2. ASSUME NEW relax, GoodOutcome(relax, seq)
          PROVE  GoodOutcome(StrictElse(st, w, relax), seq)
      <3>1. CASE Strict
        <4>1. StrictElse(st, w, relax) = Outcome(FALSE, c, w)
          BY <3>1 DEF StrictElse
        <4>2. Follows(st, c, {}) /\ c.phase = "compromised"
          BY PhaseState
        <4> HIDE DEF c
        <4>3. Refused(c, w)
          BY <1>1, <2>1, <3>1, <4>2 DEF Refused
        <4> QED
          BY <4>1, <4>3, RefusesIt
      <3>2. CASE ~Strict
        BY <2>2, <3>2 DEF StrictElse
      <3> QED
        BY <3>1, <3>2
    <2>3. /\ Follows(st, back, {seq}) /\ back.contig = st.contig /\ back.phase = st.phase
      BY BackfillState
    <2>4. /\ Follows(st, stored, {seq}) /\ stored.contig = Larger(st.contig, seq)
          /\ stored.phase \in {st.phase, "ok"}
      BY PersistState
    <2>5. /\ Follows(st, relaxed, {seq}) /\ relaxed.contig = Larger(st.contig, seq)
          /\ relaxed.phase # "compromised"
      BY RelaxedState
    <2>6. /\ Follows(st, far, {seq}) /\ far.contig = st.contig /\ far.phase # "compromised"
      <3> HIDE DEF back
      <3>1. back \in PeerSyncState
        BY <2>3 DEF Follows
      <3>2. Follows(back, far, {}) /\ far.contig = back.contig /\ far.phase = "gap"
        BY <3>1, PhaseState
      <3> HIDE DEF far
      <3>3. Follows(st, far, {seq} \cup {})
        BY <2>3, <3>2, FollowsTwice
      <3>4. {seq} \cup {} = {seq}
        OBVIOUS
      <3> QED
        BY <2>3, <3>2, <3>3, <3>4
    <2> HIDE DEF c, back, stored, relaxed, fill, gap, far
    \* What each branch that keeps the message keeps.
    <2>7. ASSUME NEW s, Follows(st, s, {seq}), s.phase # "compromised",
                 NEW v \in {w, a},
                 s.contig = st.contig \/ s.contig = Larger(st.contig, seq),
                 \/ s.contig = st.contig
                 \/ st.contig = NoSeq
                 \/ seq <= st.contig
          PROVE  GoodOutcome(Outcome(TRUE, s, v), seq)
      <3>1. Follows(st, s, Reached(st, v, seq))
        BY <2>7 DEF Follows, Reached
      <3>2. WindowFollows(v, {seq})
        BY <1>1, <2>7
      <3>3. \/ st.contig = NoSeq
            \/ \A n \in Nat : st.contig < n /\ n <= s.contig => n = seq \/ n <= v.last
        BY <1>3, <2>7 DEF Larger
      <3>4. Taken(s, v, seq)
        BY <2>1, <2>7, <3>1, <3>2, <3>3 DEF Taken
      <3> QED
        BY <3>4, KeepsIt
    <2>8. CASE seq < st.contig /\ older /\ (st.min = NoSeq \/ seq < st.min)
      <3>1. Classify(seq, older) = Outcome(TRUE, back, w)
        BY <1>5, <2>1, <2>8 DEF Classify, w, back
      <3> QED
        BY <2>1, <2>3, <2>7, <3>1
    <2>9. CASE /\ ~(seq < st.contig /\ older /\ (st.min = NoSeq \/ seq < st.min))
               /\ seq < st.contig
      <3>1. Classify(seq, older) = StrictElse(st, w, Outcome(TRUE, relaxed, w))
        BY <1>5, <2>1, <2>9 DEF Classify, w, relaxed
      <3>2. seq <= st.contig
        BY <1>3, <2>9
      <3>3. GoodOutcome(Outcome(TRUE, relaxed, w), seq)
        BY <2>5, <2>7, <3>2
      <3> QED
        BY <2>2, <3>1, <3>3
    <2>10. CASE ~(seq < st.contig) /\ st.contig = NoSeq /\ st.max = NoSeq
      <3>1. Classify(seq, older) = Outcome(TRUE, stored, a)
        BY <1>5, <2>1, <2>10 DEF Classify, w, a, stored
      <3> QED
        BY <2>1, <2>4, <2>7, <2>10, <3>1
    <2>11. CASE /\ ~(seq < st.contig) /\ ~(st.contig = NoSeq /\ st.max = NoSeq)
                /\ seq = st.contig + 1
      <3>1. Classify(seq, older) = Outcome(TRUE, fill, a)
        BY <1>5, <2>1, <2>11 DEF Classify, w, a, fill
      <3>2. /\ Follows(st, fill, Reached(st, a, seq))
            /\ fill.contig = seq \/ fill.contig = a.last
            /\ fill.phase \in {st.phase, "ok"}
        BY <1>2, <2>11, NextState DEF fill
      <3>3. a.last \in Nat
        BY <1>2, PeerStreamAssumption DEF ReplayWindow, Seq, NoSeq
      <3>4. \A n \in Nat : st.contig < n /\ n <= fill.contig => n = seq \/ n <= a.last
        BY <1>3, <2>11, <3>2, <3>3
      <3>5. Taken(fill, a, seq)
        BY <1>1, <2>1, <3>2, <3>4 DEF Taken
      <3> QED
        BY <3>1, <3>5, KeepsIt
    <2>12. CASE /\ ~(seq < st.contig) /\ ~(st.contig = NoSeq /\ st.max = NoSeq)
                /\ seq # st.contig + 1 /\ seq = 1
      <3>1. Classify(seq, older) = StrictElse(st, w, Outcome(TRUE, relaxed, w))
        BY <1>5, <2>1, <2>12 DEF Classify, w, relaxed
      <3>2. seq <= st.contig
        BY <1>3, <2>12
      <3>3. GoodOutcome(Outcome(TRUE, relaxed, w), seq)
        BY <2>5, <2>7, <3>2
      <3> QED
        BY <2>2, <3>1, <3>3
    <2>13. CASE /\ ~(seq < st.contig) /\ ~(st.contig = NoSeq /\ st.max = NoSeq)
                /\ seq # st.contig + 1 /\ seq # 1
                /\ seq > st.contig + 1 /\ Accepts(w, seq)
      <3>1. Classify(seq, older) = Outcome(TRUE, gap, a)
        BY <1>5, <2>1, <2>13 DEF Classify, w, a, gap
      <3>2. /\ Follows(st, gap, Reached(st, a, seq))
            /\ gap.contig = st.contig \/ gap.contig = a.last
            /\ gap.phase # "compromised"
        BY <1>2, GapState DEF gap
      <3>3. \A n \in Nat : st.contig < n /\ n <= gap.contig => n = seq \/ n <= a.last
        BY <1>3, <3>2
      <3>4. Taken(gap, a, seq)
        BY <1>1, <2>1, <3>2, <3>3 DEF Taken
      <3> QED
        BY <3>1, <3>4, KeepsIt
    <2>14. CASE /\ ~(seq < st.contig) /\ ~(st.contig = NoSeq /\ st.max = NoSeq)
                /\ seq # st.contig + 1 /\ seq # 1
                /\ seq > st.contig + 1 /\ ~Accepts(w, seq)
      <3>1. Classify(seq, older) = StrictElse(st, w, Outcome(TRUE, far, w))
        BY <1>5, <2>1, <2>14 DEF Classify, w, far, back
      <3>2. GoodOutcome(Outcome(TRUE, far, w), seq)
        BY <2>6, <2>7
      <3> QED
        BY <2>2, <3>1, <3>2
    <2>15. CASE /\ ~(seq < st.contig) /\ ~(st.contig = NoSeq /\ st.max = NoSeq)
                /\ seq # st.contig + 1 /\ seq # 1 /\ ~(seq > st.contig + 1)
      <3>1. Classify(seq, older) = Outcome(FALSE, st, w)
        BY <1>5, <2>1, <2>15 DEF Classify, w
      <3>2. Follows(st, st, {})
        BY <1>3 DEF Follows
      <3>3. Refused(st, w)
        BY <1>1, <3>2 DEF Refused
      <3> QED
        BY <3>1, <3>3, RefusesIt
    <2> QED
      BY <2>8, <2>9, <2>10, <2>11, <2>12, <2>13, <2>14, <2>15
  <1> QED
    BY <1>4, <1>5

-----------------------------------------------------------------------------
(***************************************************************************)
(* The inductive invariant.                                                *)
(***************************************************************************)

\* The types, but the request's.
ChatType ==
  /\ channel \in {"private", "public"}
  /\ epoch \in Epoch
  /\ st \in PeerSyncState
  /\ win \in ReplayWindow
  /\ rows \subseteq Epoch \X Seq
  /\ cleared \subseteq Epoch \X Seq
  /\ base \in Seq \cup {NoSeq}
  /\ faults \in Nat

\* Nothing is stored or cleared of an epoch to come.
NoLaterEpoch == \A e \in Epoch, n \in Seq : <<e, n>> \in rows \cup cleared => e <= epoch

\* A public chat has no floor and is never compromised.
PublicOpen == ~Strict => st.floor = NoSeq /\ st.phase # "compromised"

\* In a private chat the floor parts what was cleared from what is stored.
FloorParts ==
  Strict => \A n \in Seq : /\ <<epoch, n>> \in rows => n > st.floor
                           /\ <<epoch, n>> \in cleared => n <= st.floor

\* A seq that a hole cannot be at: it was stored, or it is below the floor.
Known(n) == <<epoch, n>> \in rows \cup cleared \/ n <= st.floor

\* The tail, from where it starts, has no holes.
TailKnown ==
  IF st.contig = NoSeq
    THEN base = NoSeq
    ELSE base <= st.contig /\ \A n \in Nat : base <= n /\ n <= st.contig => Known(n)

\* What the window holds was stored, and what it has passed beyond the tail is
\* known, also when a clear has put the tail back.
WindowKnown ==
  /\ \A h \in win.held : <<epoch, h>> \in rows \cup cleared
  /\ \A n \in Nat : st.contig < n /\ n <= win.last => Known(n)

\* The loaded bounds of a private chat are those of stored messages.
Anchored ==
  Strict => \A v \in {st.min, st.max} : v = NoSeq \/ v <= st.floor \/ <<epoch, v>> \in rows

ChatOK ==
  /\ ChatType
  /\ NoLaterEpoch
  /\ ClosedIsCleared
  /\ PublicOpen
  /\ FloorParts
  /\ ClearedStaysCleared
  /\ TailKnown
  /\ WindowKnown
  /\ Anchored

\* A hole is asked for when something after it is stored; if that is gone by
\* the time of the answer, a clear has put the hole below the floor.
AskedBelow(r) ==
  r.epoch = epoch /\ r.max # NoSeq =>
    /\ r.min <= r.max
    /\ r.max < st.floor \/ <<epoch, r.max + 1>> \in rows

AskOK ==
  /\ sync \in Request \cup {NoRequest}
  /\ sync # NoRequest => Strict /\ sync.epoch <= epoch /\ AskedBelow(sync)

Inv == ChatOK /\ AskOK

-----------------------------------------------------------------------------
(***************************************************************************)
(* Taking a message keeps the invariant.                                   *)
(***************************************************************************)

\* The numbers in play.
LEMMA ChatNumbers ==
  ASSUME ChatType
  PROVE  /\ epoch \in Nat
         /\ st.contig \in Nat /\ st.min \in Nat /\ st.max \in Nat /\ st.floor \in Nat
         /\ win.last \in Nat /\ base \in Nat
         /\ win.held \subseteq Seq
         /\ Epoch \subseteq Nat /\ Seq \subseteq Nat
         /\ NoSeq = 0
         /\ \A n \in Seq : n > 0
  BY PeerStreamAssumption DEF ChatType, PeerSyncState, ReplayWindow, Epoch, Seq, NoSeq

\* A new state's seqs: X are those the bounds and the tail moved to, K the seq
\* that was stored, if any.
TakenOver(X, K) ==
  /\ Follows(st, st', X)
  /\ WindowFollows(win', K)
  /\ \A k \in K : k \in Seq /\ <<epoch, k>> \in rows'
  /\ \A x \in X : x \in K \/ (x = win'.last /\ st.contig < x)
  /\ \/ st.contig = NoSeq
     \/ \A n \in Nat : st.contig < n /\ n <= st'.contig => n \in K \/ n <= win'.last

\* What is common to storing a message and refusing it.
LEMMA TakeMoves ==
  ASSUME ChatOK, NEW seq \in Seq, NEW older \in BOOLEAN, Take(seq, older)
  PROVE  /\ \E X, K : TakenOver(X, K)
         /\ \/ rows' = rows
            \/ rows' = rows \cup {<<epoch, seq>>} /\ seq > st.floor
         /\ st.phase = "compromised" => st'.phase = "compromised"
         /\ ~Strict /\ st.phase # "compromised" => st'.phase # "compromised"
  <1> DEFINE o == Classify(seq, older)
  <1>1. GoodOutcome(o, seq)
    BY ClassifyOutcome DEF ChatOK, ChatType
  <1>2. st' = o.st /\ win' = o.win
    BY DEF Take
  <1>3. PICK stored \in {o.keep, o.keep \/ SoftCompromised(o, seq)} :
          rows' = IF stored THEN rows \cup {<<epoch, seq>>} ELSE rows
    BY DEF Take
  <1> HIDE DEF o
  <1>4. CASE o.keep
    <2>1. Taken(st', win', seq)
      BY <1>1, <1>2, <1>4 DEF GoodOutcome
    <2>2. rows' = rows \cup {<<epoch, seq>>}
      BY <1>3, <1>4
    <2>3. TakenOver(Reached(st, win', seq), {seq})
      <3>1. \A x \in Reached(st, win', seq) : x \in {seq} \/ (x = win'.last /\ st.contig < x)
        BY DEF Reached
      <3>2. \A k \in {seq} : k \in Seq /\ <<epoch, k>> \in rows'
        BY <2>2
      <3> QED
        BY <2>1, <3>1, <3>2 DEF Taken, TakenOver
    <2> QED
      BY <2>1, <2>2, <2>3 DEF Taken
  <1>5. CASE ~o.keep
    <2>1. Refused(st', win')
      BY <1>1, <1>2, <1>5 DEF GoodOutcome
    <2>2. TakenOver({}, {})
      <3>1. st'.contig = st.contig
        BY <2>1 DEF Refused, Follows
      <3>2. st.contig \in Nat
        BY ChatNumbers DEF ChatOK
      <3>3. \A n \in Nat : ~(st.contig < n /\ n <= st'.contig)
        BY <3>1, <3>2
      <3> QED
        BY <2>1, <3>3 DEF Refused, TakenOver
    <2>3. \/ rows' = rows
          \/ rows' = rows \cup {<<epoch, seq>>} /\ seq > st.floor
      <3>1. st'.floor = st.floor
        BY <2>1 DEF Refused, Follows
      <3>2. CASE SoftCompromised(o, seq)
        BY <1>2, <1>3, <3>1, <3>2 DEF SoftCompromised
      <3>3. CASE ~SoftCompromised(o, seq)
        BY <1>3, <1>5, <3>3
      <3> QED
        BY <3>2, <3>3
    <2> QED
      BY <2>1, <2>2, <2>3 DEF Refused
  <1> QED
    BY <1>4, <1>5

\* Taking a message, stored or refused, keeps what holds of the chat.
LEMMA TakeKeeps ==
  ASSUME ChatOK, NEW seq \in Seq, NEW older \in BOOLEAN, Take(seq, older)
  PROVE  /\ ChatOK'
         /\ rows \subseteq rows'
         /\ st'.floor = st.floor
         /\ channel' = channel /\ epoch' = epoch
         /\ st.phase = "compromised" => st'.phase = "compromised"
  <1>1. PICK X, K : TakenOver(X, K)
    BY TakeMoves
  <1>2. /\ \/ rows' = rows
           \/ rows' = rows \cup {<<epoch, seq>>} /\ seq > st.floor
        /\ st.phase = "compromised" => st'.phase = "compromised"
        /\ ~Strict /\ st.phase # "compromised" => st'.phase # "compromised"
    BY TakeMoves
  <1>3. /\ channel' = channel /\ epoch' = epoch
        /\ cleared' = cleared /\ faults' = faults
        /\ base' = IF st.contig = NoSeq THEN st'.contig ELSE base
    BY DEF Take
  <1>4. /\ epoch \in Nat
        /\ st.contig \in Nat /\ st.min \in Nat /\ st.max \in Nat /\ st.floor \in Nat
        /\ win.last \in Nat /\ base \in Nat
        /\ win.held \subseteq Seq
        /\ Epoch \subseteq Nat /\ Seq \subseteq Nat
        /\ NoSeq = 0
        /\ \A n \in Seq : n > 0
    BY ChatNumbers DEF ChatOK
  <1>5. /\ st' \in PeerSyncState
        /\ st'.floor = st.floor
        /\ st'.closed \subseteq st.closed
        /\ st'.min \in {st.min} \cup X
        /\ st'.max \in {st.max} \cup X
        /\ st'.contig \in {st.contig} \cup X
        /\ st.contig <= st'.contig
    BY <1>1 DEF TakenOver, Follows
  <1>6. /\ win' \in ReplayWindow
        /\ win'.held \subseteq win.held \cup K
        /\ \A n \in Nat : st.contig < n /\ n <= win'.last => n <= win.last \/ n \in win.held \cup K
    BY <1>1 DEF TakenOver, WindowFollows
  <1>7. /\ \A k \in K : k \in Seq /\ <<epoch, k>> \in rows'
        /\ \A x \in X : x \in K \/ (x = win'.last /\ st.contig < x)
        /\ \/ st.contig = NoSeq
           \/ \A n \in Nat : st.contig < n /\ n <= st'.contig => n \in K \/ n <= win'.last
    BY <1>1 DEF TakenOver
  <1>8. Strict' <=> Strict
    BY <1>3 DEF Strict
  <1>9. rows \subseteq rows'
    BY <1>2
  <1>10. st'.contig \in Nat /\ win'.last \in Nat /\ win'.last \in Seq \cup {NoSeq}
    BY <1>5, <1>6, PeerStreamAssumption DEF PeerSyncState, ReplayWindow, Seq, NoSeq
  <1>11. ASSUME NEW n, Known(n)
         PROVE  Known(n)'
    BY <1>3, <1>5, <1>9, <1>11 DEF Known
  <1>12. ASSUME NEW n \in Nat, st.contig < n, n <= win'.last
         PROVE  Known(n)'
    <2>1. CASE n <= win.last
      BY <1>11, <1>12, <2>1 DEF ChatOK, WindowKnown
    <2>2. CASE n \in win.held
      BY <1>3, <1>9, <2>2 DEF ChatOK, WindowKnown, Known
    <2>3. CASE n \in K
      BY <1>3, <1>7, <2>3 DEF Known
    <2> QED
      BY <1>6, <1>12, <2>1, <2>2, <2>3
  <1>13. ASSUME NEW x \in X
         PROVE  Known(x)' /\ x \in Seq \cup {NoSeq}
    <2>1. CASE x \in K
      BY <1>3, <1>7, <2>1 DEF Known
    <2>2. CASE x = win'.last /\ st.contig < x
      BY <1>10, <1>12, <2>2
    <2> QED
      BY <1>7, <1>13, <2>1, <2>2
  <1>14. ChatType'
    <2>1. rows' \subseteq Epoch \X Seq
      BY <1>2 DEF ChatOK, ChatType
    <2>2. base' \in Seq \cup {NoSeq}
      BY <1>3, <1>5 DEF ChatOK, ChatType, PeerSyncState
    <2> QED
      BY <1>3, <1>5, <1>6, <2>1, <2>2 DEF ChatOK, ChatType
  <1>15. NoLaterEpoch'
    <2>1. ASSUME NEW e \in Epoch, NEW n \in Seq, <<e, n>> \in rows' \cup cleared
          PROVE  e <= epoch
      <3>1. CASE <<e, n>> \in rows \cup cleared
        BY <3>1 DEF ChatOK, NoLaterEpoch
      <3>2. CASE <<e, n>> = <<epoch, seq>>
        BY <1>4, <3>2
      <3> QED
        BY <1>2, <2>1, <3>1, <3>2
    <2> QED
      BY <1>3, <2>1 DEF NoLaterEpoch
  <1>16. ClosedIsCleared'
    BY <1>5 DEF ChatOK, ClosedIsCleared
  <1>17. PublicOpen'
    BY <1>2, <1>5, <1>8 DEF ChatOK, PublicOpen
  <1>18. FloorParts'
    BY <1>2, <1>3, <1>5, <1>8 DEF ChatOK, FloorParts
  <1>19. ClearedStaysCleared'
    <2> SUFFICES ASSUME Strict
                 PROVE  rows' \cap cleared = {}
      BY <1>3, <1>8 DEF ClearedStaysCleared
    <2>1. rows \cap cleared = {}
      BY DEF ChatOK, ClearedStaysCleared
    <2>2. seq > st.floor => <<epoch, seq>> \notin cleared
      BY <1>4 DEF ChatOK, FloorParts
    <2> QED
      BY <1>2, <2>1, <2>2
  <1>20. TailKnown'
    <2>1. CASE st.contig = NoSeq
      <3>1. base' = st'.contig
        BY <1>3, <2>1
      <3>2. \/ st'.contig = NoSeq
            \/ <<epoch', st'.contig>> \in rows' \cup cleared' \/ st'.contig <= st'.floor
        BY <1>5, <1>13, <2>1 DEF Known
      <3>3. \A n \in Nat : st'.contig <= n /\ n <= st'.contig => n = st'.contig
        BY <1>10
      <3> QED
        BY <1>10, <3>1, <3>2, <3>3 DEF TailKnown, Known
    <2>2. CASE st.contig # NoSeq
      <3>1. base' = base
        BY <1>3, <2>2
      <3>2. base <= st.contig /\ \A n \in Nat : base <= n /\ n <= st.contig => Known(n)
        BY <2>2 DEF ChatOK, TailKnown
      <3>3. st'.contig # NoSeq
        BY <1>4, <1>5, <1>10, <2>2
      <3>4. ASSUME NEW n \in Nat, base <= n, n <= st'.contig
            PROVE  Known(n)'
        <4>1. CASE n <= st.contig
          BY <1>11, <3>2, <3>4, <4>1
        <4>2. CASE n \in K
          BY <1>3, <1>7, <4>2 DEF Known
        <4>3. CASE st.contig < n /\ n <= win'.last
          BY <1>12, <4>3
        <4> QED
          BY <1>4, <1>7, <2>2, <3>4, <4>1, <4>2, <4>3
      <3>5. base <= st'.contig
        BY <1>4, <1>5, <1>10, <3>2
      <3> QED
        BY <3>1, <3>3, <3>4, <3>5 DEF TailKnown
    <2> QED
      BY <2>1, <2>2
  <1>21. WindowKnown'
    <2>1. \A h \in win'.held : <<epoch, h>> \in rows' \cup cleared
      BY <1>6, <1>7, <1>9 DEF ChatOK, WindowKnown
    <2>2. \A n \in Nat : st'.contig < n /\ n <= win'.last => Known(n)'
      BY <1>4, <1>5, <1>10, <1>12
    <2> QED
      BY <1>3, <2>1, <2>2 DEF WindowKnown
  <1>22. Anchored'
    <2> SUFFICES ASSUME Strict, NEW v \in {st'.min, st'.max}
                 PROVE  v = NoSeq \/ v <= st'.floor \/ <<epoch', v>> \in rows'
      BY <1>8 DEF Anchored
    <2>1. CASE v \in {st.min, st.max}
      BY <1>3, <1>5, <1>9, <2>1 DEF ChatOK, Anchored
    <2>2. CASE v \in X
      <3>1. Known(v)' /\ v \in Seq \cup {NoSeq}
        BY <1>13, <2>2
      <3>2. v \in Seq /\ <<epoch, v>> \in cleared => v <= st.floor
        BY DEF ChatOK, FloorParts
      <3> QED
        BY <1>3, <1>5, <3>1, <3>2 DEF Known
    <2> QED
      BY <1>5, <2>1, <2>2
  <1>23. ChatOK'
    BY <1>14, <1>15, <1>16, <1>17, <1>18, <1>19, <1>20, <1>21, <1>22 DEF ChatOK
  <1> QED
    BY <1>2, <1>3, <1>5, <1>9, <1>23

-----------------------------------------------------------------------------
(***************************************************************************)
(* The other steps: the chat.                                              *)
(***************************************************************************)

\* Nothing changes but that a message may be stored past the floor, and the
\* window may be lost.
LEMMA SameEpochKeeps ==
  ASSUME ChatOK, NEW seq \in Seq,
         channel' = channel, epoch' = epoch, st' = st, base' = base,
         cleared' = cleared, faults' \in Nat,
         win' = win \/ win' = EmptyWindow,
         rows' = rows \/ (rows' = rows \cup {<<epoch, seq>>} /\ seq > st.floor)
  PROVE  ChatOK'
  <1>1. /\ epoch \in Nat
        /\ st.contig \in Nat /\ st.floor \in Nat
        /\ NoSeq = 0
    BY ChatNumbers DEF ChatOK
  <1>2. Strict' <=> Strict
    BY DEF Strict
  <1>3. rows \subseteq rows'
    OBVIOUS
  <1>4. EmptyWindow \in ReplayWindow /\ EmptyWindow.held = {} /\ EmptyWindow.last = 0
    BY DEF EmptyWindow, ReplayWindow, NoSeq
  <1>5. ChatType'
    BY <1>4 DEF ChatOK, ChatType
  <1>6. NoLaterEpoch'
    <2>1. ASSUME NEW e \in Epoch, NEW n \in Seq, <<e, n>> \in rows' \cup cleared
          PROVE  e <= epoch
      <3>1. CASE <<e, n>> \in rows \cup cleared
        BY <3>1 DEF ChatOK, NoLaterEpoch
      <3>2. CASE <<e, n>> = <<epoch, seq>>
        BY <1>1, <3>2
      <3> QED
        BY <2>1, <3>1, <3>2
    <2> QED
      BY <2>1 DEF NoLaterEpoch
  <1>7. ClosedIsCleared' /\ PublicOpen'
    BY <1>2 DEF ChatOK, ClosedIsCleared, PublicOpen
  <1>8. FloorParts'
    BY <1>2 DEF ChatOK, FloorParts
  <1>9. ClearedStaysCleared'
    <2> SUFFICES ASSUME Strict
                 PROVE  rows' \cap cleared = {}
      BY <1>2 DEF ClearedStaysCleared
    <2>1. rows \cap cleared = {}
      BY DEF ChatOK, ClearedStaysCleared
    <2>2. seq > st.floor => <<epoch, seq>> \notin cleared
      BY <1>1, ChatNumbers DEF ChatOK, FloorParts
    <2> QED
      BY <2>1, <2>2
  <1>10. \A n \in Nat : Known(n) => <<epoch, n>> \in rows' \cup cleared \/ n <= st.floor
    BY <1>3 DEF Known
  <1>11. TailKnown'
    BY <1>10 DEF ChatOK, TailKnown, Known
  <1>12. WindowKnown'
    <2>1. CASE win' = win
      BY <1>3, <1>10, <2>1 DEF ChatOK, WindowKnown, Known
    <2>2. CASE win' = EmptyWindow
      <3>1. \A n \in Nat : ~(st.contig < n /\ n <= 0)
        BY <1>1
      <3> QED
        BY <1>4, <2>2, <3>1 DEF WindowKnown
    <2> QED
      BY <2>1, <2>2
  <1>13. Anchored'
    BY <1>2, <1>3 DEF ChatOK, Anchored
  <1> QED
    BY <1>5, <1>6, <1>7, <1>8, <1>9, <1>11, <1>12, <1>13 DEF ChatOK

\* The chat in a new epoch, with or without its first message.
LEMMA FreshEpochKeeps ==
  ASSUME ChatOK, NEW seq \in Seq,
         channel' = channel, epoch' \in Epoch, epoch' > epoch,
         cleared' = cleared, faults' \in Nat,
         \/ /\ rows' = rows \/ rows' = rows \cup {<<epoch', seq>>}
            /\ st' = DefaultPeerSyncState /\ win' = EmptyWindow /\ base' = NoSeq
         \/ /\ rows' = rows \cup {<<epoch', seq>>}
            /\ st' = FirstOfEpoch(seq).st /\ win' = FirstOfEpoch(seq).win /\ base' = seq
  PROVE  ChatOK'
  <1> DEFINE first == [DefaultPeerSyncState EXCEPT !.contig = seq, !.min = seq, !.max = seq]
             opened == Accept(EmptyWindow, seq)
  <1>1. /\ epoch \in Nat /\ epoch' \in Nat /\ Epoch \subseteq Nat
        /\ Seq \subseteq Nat /\ NoSeq = 0 /\ seq > 0 /\ seq \in Nat
        /\ \A n \in Seq : n > 0
    BY ChatNumbers DEF ChatOK
  <1>2. /\ DefaultPeerSyncState \in PeerSyncState
        /\ DefaultPeerSyncState.contig = NoSeq
        /\ DefaultPeerSyncState.min = NoSeq /\ DefaultPeerSyncState.max = NoSeq
        /\ DefaultPeerSyncState.floor = NoSeq /\ DefaultPeerSyncState.phase = "ok"
        /\ DefaultPeerSyncState.closed = {}
    BY DEF DefaultPeerSyncState, PeerSyncState
  <1>3. /\ first \in PeerSyncState
        /\ first.contig = seq /\ first.min = seq /\ first.max = seq
        /\ first.floor = NoSeq /\ first.phase = "ok" /\ first.closed = {}
    BY <1>2 DEF PeerSyncState
  <1>4. EmptyWindow \in ReplayWindow /\ EmptyWindow.held = {} /\ EmptyWindow.last = NoSeq
    BY DEF EmptyWindow, ReplayWindow, NoSeq
  <1>5. /\ opened \in ReplayWindow
        /\ \A n \in Nat : NoSeq < n /\ n <= opened.last => n \in {seq}
        /\ opened.held \subseteq {seq}
    BY <1>4, AcceptWindow
  <1>6. FirstOfEpoch(seq).st = first /\ FirstOfEpoch(seq).win = opened
    BY DEF FirstOfEpoch, Outcome
  <1> HIDE DEF first, opened
  <1>7. /\ st' \in PeerSyncState /\ win' \in ReplayWindow
        /\ st'.floor = NoSeq /\ st'.phase = "ok" /\ st'.closed = {}
        /\ rows' = rows \/ rows' = rows \cup {<<epoch', seq>>}
        /\ base' = st'.contig
        /\ \/ /\ st'.contig = NoSeq /\ st'.min = NoSeq /\ st'.max = NoSeq
              /\ win'.held = {} /\ win'.last = NoSeq
           \/ /\ st'.contig = seq /\ st'.min = seq /\ st'.max = seq
              /\ <<epoch', seq>> \in rows'
              /\ win'.held \subseteq {seq}
              /\ \A n \in Nat : NoSeq < n /\ n <= win'.last => n = seq
    BY <1>2, <1>3, <1>4, <1>5, <1>6
  <1>8. Strict' <=> Strict
    BY DEF Strict
  <1>9. \A n \in Seq : <<epoch', n>> \notin rows \cup cleared
    BY <1>1 DEF ChatOK, NoLaterEpoch
  <1>10. ChatType'
    <2>1. rows' \subseteq Epoch \X Seq
      BY <1>7 DEF ChatOK, ChatType
    <2>2. base' \in Seq \cup {NoSeq}
      BY <1>7
    <2> QED
      BY <1>7, <2>1, <2>2 DEF ChatOK, ChatType
  <1>11. NoLaterEpoch'
    <2>1. ASSUME NEW e \in Epoch, NEW n \in Seq, <<e, n>> \in rows' \cup cleared
          PROVE  e <= epoch'
      <3>1. CASE <<e, n>> \in rows \cup cleared
        <4>1. e <= epoch
          BY <3>1 DEF ChatOK, NoLaterEpoch
        <4>2. e \in Nat
          BY <1>1
        <4> QED
          BY <1>1, <4>1, <4>2
      <3>2. CASE <<e, n>> = <<epoch', seq>>
        BY <1>1, <3>2
      <3> QED
        BY <1>7, <2>1, <3>1, <3>2
    <2> QED
      BY <2>1 DEF NoLaterEpoch
  <1>12. ClosedIsCleared' /\ PublicOpen'
    BY <1>7 DEF ClosedIsCleared, PublicOpen
  <1>13. FloorParts'
    BY <1>1, <1>7, <1>9 DEF FloorParts
  <1>14. ClearedStaysCleared'
    BY <1>7, <1>8, <1>9 DEF ChatOK, ClearedStaysCleared
  <1>15. TailKnown'
    <2>1. \A n \in Nat : seq <= n /\ n <= seq => n = seq
      BY <1>1
    <2> QED
      BY <1>1, <1>7, <2>1 DEF TailKnown, Known
  <1>16. WindowKnown'
    <2>1. \A n \in Nat : ~(NoSeq < n /\ n <= NoSeq) /\ ~(seq < n /\ n = seq)
      BY <1>1
    <2>2. \A n \in Nat : seq < n => NoSeq < n
      BY <1>1
    <2>3. \A h \in win'.held : <<epoch', h>> \in rows' \cup cleared'
      BY <1>7
    <2>4. \A n \in Nat : ~(st'.contig < n /\ n <= win'.last)
      BY <1>7, <2>1, <2>2
    <2> QED
      BY <2>3, <2>4 DEF WindowKnown
  <1>17. Anchored'
    BY <1>7 DEF Anchored
  <1> QED
    BY <1>10, <1>11, <1>12, <1>13, <1>14, <1>15, <1>16, <1>17 DEF ChatOK

\* The floor of a cleared chat is past everything the private chat held or knew.
LEMMA ClearedFloorPast ==
  ASSUME ChatOK, Strict, StoredSeqs # {}
  PROVE  /\ ClearedFloor \in Seq
         /\ st.floor < ClearedFloor
         /\ \A n \in Nat : Known(n) => n <= ClearedFloor
  <1>1. StoredSeqs \subseteq Nat /\ \A n \in StoredSeqs : n <= MaxSeq
    BY PeerStreamAssumption DEF StoredSeqs, Seq
  <1>2. MaxSeq \in Nat
    BY PeerStreamAssumption
  <1>3. ClearedFloor \in StoredSeqs /\ \A n \in StoredSeqs : n <= ClearedFloor
    BY <1>1, <1>2, MaxOfBounded DEF ClearedFloor
  <1>4. ClearedFloor \in Seq /\ <<epoch, ClearedFloor>> \in rows
    BY <1>3 DEF StoredSeqs
  <1>5. /\ st.floor \in Nat /\ Seq \subseteq Nat
    BY ChatNumbers DEF ChatOK
  <1>6. st.floor < ClearedFloor
    BY <1>4, <1>5 DEF ChatOK, FloorParts
  <1>7. ASSUME NEW n \in Nat, Known(n)
        PROVE  n <= ClearedFloor
    <2>1. CASE <<epoch, n>> \in rows
      <3>1. n \in StoredSeqs
        BY <2>1 DEF ChatOK, ChatType, StoredSeqs
      <3> QED
        BY <1>3, <3>1
    <2>2. CASE <<epoch, n>> \in cleared
      <3>1. n \in Seq
        BY <2>2 DEF ChatOK, ChatType
      <3>2. n <= st.floor
        BY <2>2, <3>1 DEF ChatOK, FloorParts
      <3> QED
        BY <1>4, <1>5, <1>6, <3>2
    <2>3. CASE n <= st.floor
      BY <1>4, <1>5, <1>6, <2>3
    <2> QED
      BY <1>7, <2>1, <2>2, <2>3 DEF Known
  <1> QED
    BY <1>4, <1>6, <1>7

\* Clearing keeps what holds of the chat: its floor takes over from the rows.
LEMMA ClearKeeps ==
  ASSUME ChatOK, ClearMessages
  PROVE  ChatOK'
  <1>1. /\ StoredSeqs # {}
        /\ st' = IF Strict THEN [DefaultPeerSyncState EXCEPT !.floor = ClearedFloor] ELSE st
        /\ base' = IF Strict THEN NoSeq ELSE base
        /\ cleared' = cleared \cup rows
        /\ rows' = {}
        /\ channel' = channel /\ epoch' = epoch /\ win' = win
        /\ faults' = faults + 1
    BY DEF ClearMessages, Clear, Fault
  <1>2. /\ epoch \in Nat
        /\ st.contig \in Nat /\ st.floor \in Nat /\ base \in Nat /\ win.last \in Nat
        /\ Seq \subseteq Nat /\ NoSeq = 0
        /\ \A n \in Seq : n > 0
    BY ChatNumbers DEF ChatOK
  <1>3. Strict' <=> Strict
    BY <1>1 DEF Strict
  <1>4. NoLaterEpoch' /\ ClearedStaysCleared'
    BY <1>1 DEF ChatOK, NoLaterEpoch, ClearedStaysCleared
  <1>5. faults' \in Nat
    BY <1>1 DEF ChatOK, ChatType
  <1>6. CASE Strict
    <2>1. /\ ClearedFloor \in Seq
          /\ st.floor < ClearedFloor
          /\ \A n \in Nat : Known(n) => n <= ClearedFloor
      BY <1>1, <1>6, ClearedFloorPast
    <2>2. ClearedFloor \in Nat
      BY <1>2, <2>1
    <2> DEFINE s == [DefaultPeerSyncState EXCEPT !.floor = ClearedFloor]
    <2>3. /\ s \in PeerSyncState
          /\ s.contig = NoSeq /\ s.min = NoSeq /\ s.max = NoSeq
          /\ s.floor = ClearedFloor /\ s.phase = "ok" /\ s.closed = {}
      BY <2>1 DEF DefaultPeerSyncState, PeerSyncState
    <2>4. st' = s /\ base' = NoSeq
      BY <1>1, <1>6
    <2> HIDE DEF s
    <2>5. \A n \in Nat : n <= win.last => n <= ClearedFloor
      <3> SUFFICES ASSUME NEW n \in Nat, n <= win.last
                   PROVE  n <= ClearedFloor
        OBVIOUS
      <3>1. CASE st.contig < n
        BY <2>1, <3>1 DEF ChatOK, WindowKnown
      <3>2. CASE n <= st.contig /\ st.contig # NoSeq
        <4>1. /\ base <= st.contig
              /\ \A k \in Nat : base <= k /\ k <= st.contig => Known(k)
          BY <3>2 DEF ChatOK, TailKnown
        <4>2. CASE base <= n
          BY <2>1, <3>2, <4>1, <4>2
        <4>3. CASE n < base
          <5>1. Known(base)
            BY <1>2, <4>1
          <5>2. base <= ClearedFloor
            BY <1>2, <2>1, <5>1
          <5> QED
            BY <1>2, <2>2, <4>3, <5>2
        <4> QED
          BY <1>2, <4>2, <4>3
      <3>3. CASE n <= st.contig /\ st.contig = NoSeq
        BY <1>2, <2>2, <3>3
      <3> QED
        BY <1>2, <3>1, <3>2, <3>3
    <2>6. ChatType'
      BY <1>1, <1>5, <2>3, <2>4 DEF ChatOK, ChatType
    <2>7. ClosedIsCleared' /\ PublicOpen'
      BY <1>3, <1>6, <2>3, <2>4 DEF ClosedIsCleared, PublicOpen
    <2>8. FloorParts'
      <3>1. ASSUME NEW n \in Seq, <<epoch, n>> \in cleared \cup rows
            PROVE  n <= ClearedFloor
        BY <1>2, <2>1, <3>1 DEF Known
      <3> QED
        BY <1>1, <2>3, <2>4, <3>1 DEF FloorParts
    <2>9. TailKnown'
      BY <2>3, <2>4 DEF TailKnown
    <2>10. WindowKnown'
      BY <1>1, <2>3, <2>4, <2>5 DEF ChatOK, WindowKnown, Known
    <2>11. Anchored'
      BY <2>3, <2>4 DEF Anchored
    <2> QED
      BY <1>4, <2>6, <2>7, <2>8, <2>9, <2>10, <2>11 DEF ChatOK
  <1>7. CASE ~Strict
    <2>1. st' = st /\ base' = base
      BY <1>1, <1>7
    <2>2. \A n : Known(n) => <<epoch, n>> \in rows' \cup cleared' \/ n <= st.floor
      BY <1>1 DEF Known
    <2>3. ChatType'
      BY <1>1, <1>5, <2>1 DEF ChatOK, ChatType
    <2>4. ClosedIsCleared' /\ PublicOpen' /\ FloorParts' /\ Anchored'
      BY <1>3, <1>7, <2>1 DEF ChatOK, ClosedIsCleared, PublicOpen, FloorParts, Anchored
    <2>5. TailKnown'
      BY <1>1, <2>1, <2>2 DEF ChatOK, TailKnown, Known
    <2>6. WindowKnown'
      BY <1>1, <2>1, <2>2 DEF ChatOK, WindowKnown, Known
    <2> QED
      BY <1>4, <2>3, <2>4, <2>5, <2>6 DEF ChatOK
  <1> QED
    BY <1>6, <1>7

\* Freezing a private chat.
LEMMA PauseKeeps ==
  ASSUME ChatOK, PauseOnly
  PROVE  ChatOK'
  <1> DEFINE s == [st EXCEPT !.phase = "compromised"]
  <1>1. /\ Strict /\ st' = s
        /\ channel' = channel /\ epoch' = epoch /\ win' = win /\ rows' = rows
        /\ cleared' = cleared /\ base' = base /\ faults' = faults
    BY DEF PauseOnly
  <1>2. Strict'
    BY <1>1 DEF Strict
  <1>3. st \in PeerSyncState
    BY DEF ChatOK, ChatType
  <1>4. /\ s \in PeerSyncState
        /\ s.contig = st.contig /\ s.min = st.min /\ s.max = st.max
        /\ s.floor = st.floor /\ s.closed = st.closed
    BY <1>3 DEF PeerSyncState
  <1> HIDE DEF s
  <1>5. ChatType' /\ NoLaterEpoch'
    BY <1>1, <1>4 DEF ChatOK, ChatType, NoLaterEpoch
  <1>6. ClosedIsCleared' /\ PublicOpen' /\ FloorParts' /\ ClearedStaysCleared' /\ Anchored'
    BY <1>1, <1>2, <1>4 DEF ChatOK, ClosedIsCleared, PublicOpen, FloorParts,
                            ClearedStaysCleared, Anchored
  <1>7. TailKnown' /\ WindowKnown'
    BY <1>1, <1>4 DEF ChatOK, TailKnown, WindowKnown, Known
  <1> QED
    BY <1>5, <1>6, <1>7 DEF ChatOK

-----------------------------------------------------------------------------
(***************************************************************************)
(* The end of an answer.                                                   *)
(***************************************************************************)

\* Closing a range moves the tail at most to its end.
LEMMA CloseState ==
  ASSUME NEW s \in PeerSyncState, NEW min \in Seq, NEW max \in Seq
  PROVE  LET t == CloseEmptyGap(s, min, max)
         IN  /\ t \in PeerSyncState
             /\ t.floor = s.floor /\ t.min = s.min /\ t.max = s.max
             /\ \A n \in t.closed : n \in s.closed \/ n <= max
             /\ t.contig = Larger(s.contig, max)
             /\ s.phase = "compromised" => t.phase = "compromised"
  <1> DEFINE closed == s.closed \cup min..max
             contig == Larger(s.contig, max)
             phase  == IF s.phase = "gap" THEN "ok" ELSE s.phase
             t      == [s EXCEPT !.closed = closed, !.contig = contig, !.phase = phase]
  <1>1. min..max \subseteq Seq /\ \A n \in min..max : n <= max
    BY PeerStreamAssumption DEF Seq
  <1>2. closed \subseteq Seq
    BY <1>1 DEF PeerSyncState
  <1>3. contig \in Seq \cup {NoSeq}
    BY LargerOf DEF PeerSyncState
  <1>4. /\ phase \in {"ok", "gap", "compromised"}
        /\ s.phase = "compromised" => phase = "compromised"
    BY DEF PeerSyncState
  <1>5. CloseEmptyGap(s, min, max) = t
    BY DEF CloseEmptyGap
  <1>6. \A n \in closed : n \in s.closed \/ n <= max
    BY <1>1
  <1> HIDE DEF closed, contig, phase
  <1>7. t \in PeerSyncState
    BY <1>2, <1>3, <1>4 DEF PeerSyncState
  <1>8. /\ t.floor = s.floor /\ t.min = s.min /\ t.max = s.max
        /\ t.closed = closed /\ t.contig = contig /\ t.phase = phase
    BY DEF PeerSyncState
  <1> HIDE DEF t
  <1> QED
    BY <1>6, <1>4, <1>5, <1>7, <1>8 DEF contig

\* Advancing over what is stored passes nothing else.
LEMMA StoredState ==
  ASSUME NEW s \in PeerSyncState, NEW held \in SUBSET Seq
  PROVE  LET t == AdvanceContiguous(s, held)
         IN  /\ t \in PeerSyncState
             /\ t.floor = s.floor /\ t.min = s.min /\ t.max = s.max /\ t.closed = s.closed
             /\ s.contig <= t.contig
             /\ \A n \in Nat : s.contig < n /\ n <= t.contig => n \in held
             /\ s.phase = "compromised" => t.phase = "compromised"
  <1> DEFINE S == {n \in {s.contig} \cup Seq :
                     n <= Larger(s.contig, s.max) /\ (s.contig + 1)..n \subseteq held}
             reach == Max(S)
             phase == IF s.phase = "gap" /\ reach = s.max THEN "ok" ELSE s.phase
             t     == [s EXCEPT !.contig = reach, !.phase = phase]
  <1>1. /\ s.contig \in Seq \cup {NoSeq} /\ s.contig \in Nat /\ s.max \in Seq \cup {NoSeq}
        /\ Seq \subseteq Nat /\ MaxSeq \in Nat
        /\ \A n \in Seq \cup {NoSeq} : n \in Nat /\ n <= MaxSeq
    BY PeerStreamAssumption DEF PeerSyncState, Seq, NoSeq
  <1>2. s.contig \in S
    BY <1>1, LargerOf, RangeAfter
  <1>3. S \subseteq Nat /\ \A n \in S : n <= MaxSeq
    BY <1>1
  <1>4. reach \in S /\ \A n \in S : n <= reach
    <2> HIDE DEF S
    <2> QED
      BY <1>1, <1>2, <1>3, MaxOfBounded
  <1>5. reach \in Seq \cup {NoSeq} /\ s.contig <= reach
    BY <1>1, <1>2, <1>4
  <1>6. (s.contig + 1)..reach \subseteq held
    BY <1>4
  <1>7. \A n \in Nat : s.contig < n /\ n <= reach => n \in held
    <2>1. reach \in Nat
      BY <1>1, <1>5
    <2> HIDE DEF reach
    <2> QED
      BY <1>1, <1>6, <2>1, RangeAfter
  <1>8. /\ phase \in {"ok", "gap", "compromised"}
        /\ s.phase = "compromised" => phase = "compromised"
    BY DEF PeerSyncState
  <1>9. AdvanceContiguous(s, held) = t
    BY DEF AdvanceContiguous
  <1> HIDE DEF S, reach, phase
  <1>10. t \in PeerSyncState
    BY <1>5, <1>8 DEF PeerSyncState
  <1>11. /\ t.floor = s.floor /\ t.min = s.min /\ t.max = s.max
         /\ t.closed = s.closed /\ t.contig = reach /\ t.phase = phase
    BY DEF PeerSyncState
  <1> HIDE DEF t
  <1> QED
    BY <1>5, <1>7, <1>8, <1>9, <1>10, <1>11

\* An empty answer closes a hole only if a clear has put it below the floor.
LEMMA ClosesBelowFloor ==
  ASSUME Inv, sync # NoRequest, sync.epoch = epoch, ClosesGap(sync)
  PROVE  /\ sync.min \in Seq /\ sync.max \in Seq
         /\ sync.min <= sync.max /\ sync.max < st.floor
  <1>1. sync \in Request /\ AskedBelow(sync)
    BY DEF Inv, AskOK
  <1>2. sync.min \in Nat /\ sync.max \in Seq \cup {NoSeq}
    BY <1>1 DEF Request
  <1>3. /\ sync.min # NoSeq /\ sync.max # NoSeq
        /\ \A n \in Seq : <<epoch, n>> \in rows => n <= sync.max
    BY DEF ClosesGap, PassesEmptyGapGuard
  <1>4. sync.min <= sync.max /\ (sync.max < st.floor \/ <<epoch, sync.max + 1>> \in rows)
    BY <1>1, <1>3 DEF AskedBelow
  <1>5. sync.max \in Seq /\ sync.max \in Nat
    BY <1>2, <1>3, PeerStreamAssumption DEF Seq
  <1>6. <<epoch, sync.max + 1>> \notin rows
    <2>1. <<epoch, sync.max + 1>> \in rows => sync.max + 1 \in Seq
      BY DEF Inv, ChatOK, ChatType
    <2> QED
      BY <1>3, <1>5, <2>1
  <1>7. sync.min \in Seq
    BY <1>2, <1>3, <1>4, <1>5, PeerStreamAssumption DEF Seq, NoSeq
  <1> QED
    BY <1>4, <1>5, <1>6, <1>7

\* The end of an answer keeps what holds of the chat.
LEMMA FinishKeeps ==
  ASSUME Inv, FinishAnswer
  PROVE  /\ ChatOK'
         /\ st'.floor = st.floor
         /\ st.phase = "compromised" => st'.phase = "compromised"
  <1>1. /\ sync # NoRequest
        /\ channel' = channel /\ epoch' = epoch /\ win' = win /\ rows' = rows
        /\ cleared' = cleared /\ faults' = faults
    BY DEF FinishAnswer
  <1>2. /\ epoch \in Nat
        /\ st.contig \in Nat /\ st.floor \in Nat /\ base \in Nat /\ win.last \in Nat
        /\ Seq \subseteq Nat /\ NoSeq = 0
        /\ \A n \in Seq : n > 0
    BY ChatNumbers DEF Inv, ChatOK
  <1>3. /\ st \in PeerSyncState
        /\ st.contig \in Seq \cup {NoSeq}
    BY DEF Inv, ChatOK, ChatType, PeerSyncState
  <1>4. CASE ~(sync.epoch = epoch /\ (sync.got \/ ClosesGap(sync)))
    <2>1. st' = st /\ base' = base
      BY <1>4 DEF FinishAnswer
    <2>2. PICK n : n \in Seq
      BY PeerStreamAssumption DEF Seq
    <2>3. faults' \in Nat
      BY <1>1 DEF Inv, ChatOK, ChatType
    <2>4. ChatOK'
      BY <1>1, <2>1, <2>2, <2>3, SameEpochKeeps DEF Inv
    <2> QED
      BY <2>1, <2>4
  <1>5. CASE sync.epoch = epoch /\ (sync.got \/ ClosesGap(sync))
    <2> DEFINE c    == IF ClosesGap(sync) THEN CloseEmptyGap(st, sync.min, sync.max) ELSE st
               held == {seq \in Seq : <<epoch, seq>> \in rows}
    <2>1. /\ st' = AdvanceContiguous(c, held)
          /\ base' = IF st.contig = NoSeq /\ ClosesGap(sync) THEN sync.min ELSE base
      BY <1>5 DEF FinishAnswer
    <2>2. ClosesGap(sync) =>
            /\ sync.min \in Seq /\ sync.max \in Seq
            /\ sync.min <= sync.max /\ sync.max < st.floor
      BY <1>1, <1>5, ClosesBelowFloor
    <2>3. /\ c \in PeerSyncState
          /\ c.floor = st.floor /\ c.min = st.min /\ c.max = st.max
          /\ \A n \in c.closed : n <= st.floor
          /\ st.contig <= c.contig
          /\ \A n \in Nat : st.contig < n /\ n <= c.contig => n <= st.floor
          /\ ClosesGap(sync) => sync.max <= c.contig
          /\ st.phase = "compromised" => c.phase = "compromised"
      <3>1. CASE ClosesGap(sync)
        <4>1. PICK lo \in Seq, hi \in Seq : lo = sync.min /\ hi = sync.max
          BY <2>2, <3>1
        <4>2. c = CloseEmptyGap(st, lo, hi)
          BY <3>1, <4>1
        <4>3. st \in PeerSyncState
          BY <1>3
        <4> HIDE DEF c, held
        <4>4. /\ c \in PeerSyncState
              /\ c.floor = st.floor /\ c.min = st.min /\ c.max = st.max
              /\ \A n \in c.closed : n \in st.closed \/ n <= hi
              /\ c.contig = Larger(st.contig, hi)
              /\ st.phase = "compromised" => c.phase = "compromised"
          BY <4>2, <4>3, CloseState
        <4>5. /\ c \in PeerSyncState
              /\ c.floor = st.floor /\ c.min = st.min /\ c.max = st.max
              /\ \A n \in c.closed : n \in st.closed \/ n <= sync.max
              /\ c.contig = Larger(st.contig, sync.max)
              /\ st.phase = "compromised" => c.phase = "compromised"
          BY <4>1, <4>4
        <4>6. sync.min \in Nat /\ sync.max \in Nat
          BY <1>2, <2>2, <3>1
        <4>7. c.closed \subseteq Nat
          BY <1>2, <4>5 DEF PeerSyncState
        <4>8. \A n \in c.closed : n <= st.floor
          BY <1>2, <2>2, <3>1, <4>5, <4>6, <4>7 DEF Inv, ChatOK, ClosedIsCleared
        <4>9. st.contig <= c.contig /\ sync.max <= c.contig
          BY <1>2, <4>5, <4>6 DEF Larger
        <4>10. \A n \in Nat : st.contig < n /\ n <= c.contig => n <= st.floor
          BY <1>2, <2>2, <3>1, <4>5, <4>6 DEF Larger
        <4> QED
          BY <4>5, <4>8, <4>9, <4>10
      <3>2. CASE ~ClosesGap(sync)
        <4>1. c = st
          BY <3>2
        <4> HIDE DEF c
        <4>2. \A n \in Nat : ~(st.contig < n /\ n <= st.contig)
          BY <1>2
        <4> QED
          BY <1>2, <1>3, <3>2, <4>1, <4>2 DEF Inv, ChatOK, ClosedIsCleared
      <3> QED
        BY <3>1, <3>2
    <2>4. held \in SUBSET Seq
      OBVIOUS
    <2> HIDE DEF c
    <2>5. /\ st' \in PeerSyncState
          /\ st'.floor = c.floor /\ st'.min = c.min /\ st'.max = c.max /\ st'.closed = c.closed
          /\ c.contig <= st'.contig
          /\ \A n \in Nat : c.contig < n /\ n <= st'.contig => n \in held
          /\ c.phase = "compromised" => st'.phase = "compromised"
      <3> HIDE DEF held
      <3> QED
        BY <2>1, <2>3, <2>4, StoredState
    <2>6. c.contig \in Nat /\ st'.contig \in Nat
      BY <2>3, <2>5, PeerStreamAssumption DEF PeerSyncState, Seq, NoSeq
    <2>7. \A n \in Nat : st.contig < n /\ n <= st'.contig => Known(n)
      BY <1>2, <2>3, <2>5, <2>6 DEF Known
    <2>8. st.contig <= st'.contig
      BY <1>2, <2>3, <2>5, <2>6
    <2>9. Strict /\ Strict'
      BY <1>1 DEF Inv, AskOK, Strict
    <2>10. ChatType'
      <3>1. base' \in Seq \cup {NoSeq}
        BY <2>1, <2>2 DEF Inv, ChatOK, ChatType
      <3> QED
        BY <1>1, <2>5, <3>1 DEF Inv, ChatOK, ChatType
    <2>11. NoLaterEpoch' /\ ClearedStaysCleared'
      BY <1>1, <2>9 DEF Inv, ChatOK, NoLaterEpoch, ClearedStaysCleared
    <2>12. ClosedIsCleared' /\ PublicOpen' /\ FloorParts' /\ Anchored'
      BY <1>1, <2>3, <2>5, <2>9 DEF Inv, ChatOK, ClosedIsCleared, PublicOpen, FloorParts, Anchored
    <2>13. \A n : Known(n) => <<epoch', n>> \in rows' \cup cleared' \/ n <= st'.floor
      BY <1>1, <2>3, <2>5 DEF Known
    <2>14. WindowKnown'
      <3>1. \A n \in Nat : st'.contig < n => st.contig < n
        BY <1>2, <2>6, <2>8
      <3> QED
        BY <1>1, <2>13, <3>1 DEF Inv, ChatOK, WindowKnown, Known
    <2>15. TailKnown'
      <3>1. CASE st.contig = NoSeq
        <4>1. \A n \in Nat : n <= st'.contig => Known(n)
          <5>1. Known(0)
            BY <1>2 DEF Known
          <5> QED
            BY <1>2, <2>7, <3>1, <5>1
        <4>2. base = NoSeq
          BY <3>1 DEF Inv, ChatOK, TailKnown
        <4>3. CASE ClosesGap(sync)
          <5>1. base' = sync.min /\ sync.min \in Nat /\ sync.max \in Nat /\ sync.min > 0
            BY <1>2, <2>1, <2>2, <3>1, <4>3
          <5>2. base' <= st'.contig /\ st'.contig # NoSeq
            BY <1>2, <2>2, <2>3, <2>5, <2>6, <4>3, <5>1
          <5> QED
            BY <2>13, <4>1, <5>2 DEF TailKnown, Known
        <4>4. CASE ~ClosesGap(sync)
          <5>1. base' = NoSeq
            BY <2>1, <4>2, <4>4
          <5>2. base' <= st'.contig
            BY <1>2, <2>6, <5>1
          <5> QED
            BY <2>13, <4>1, <5>1, <5>2 DEF TailKnown, Known
        <4> QED
          BY <4>3, <4>4
      <3>2. CASE st.contig # NoSeq
        <4>1. base' = base
          BY <2>1, <3>2
        <4>2. /\ base <= st.contig
              /\ \A n \in Nat : base <= n /\ n <= st.contig => Known(n)
          BY <3>2 DEF Inv, ChatOK, TailKnown
        <4>3. base <= st'.contig /\ st'.contig # NoSeq
          BY <1>2, <2>6, <2>8, <3>2, <4>2
        <4>4. \A n \in Nat : base <= n /\ n <= st'.contig => Known(n)
          BY <1>2, <2>7, <4>2
        <4> QED
          BY <2>13, <4>1, <4>3, <4>4 DEF TailKnown, Known
      <3> QED
        BY <3>1, <3>2
    <2>16. ChatOK'
      BY <2>10, <2>11, <2>12, <2>14, <2>15 DEF ChatOK
    <2> QED
      BY <2>3, <2>5, <2>16
  <1> QED
    BY <1>4, <1>5

-----------------------------------------------------------------------------
(***************************************************************************)
(* The other steps: the request.                                           *)
(***************************************************************************)

\* The request in flight stays what it was, or is over.
SameAsk ==
  \/ sync' = NoRequest
  \/ /\ sync # NoRequest /\ sync' \in Request
     /\ sync'.epoch = sync.epoch /\ sync'.min = sync.min /\ sync'.max = sync.max

\* Nothing that is stored is lost, or the epoch moves on: the request stays sound.
LEMMA AskKeeps ==
  ASSUME AskOK, ChatType, SameAsk, channel' = channel, epoch' \in Nat,
         \/ epoch' = epoch /\ rows \subseteq rows' /\ st'.floor = st.floor
         \/ epoch' > epoch
  PROVE  AskOK'
  <1>1. CASE sync' = NoRequest
    BY <1>1 DEF AskOK
  <1>2. CASE sync' # NoRequest
    <2>1. /\ sync # NoRequest /\ sync' \in Request
          /\ sync'.epoch = sync.epoch /\ sync'.min = sync.min /\ sync'.max = sync.max
      BY <1>2 DEF SameAsk
    <2>2. Strict /\ sync.epoch <= epoch /\ AskedBelow(sync)
      BY <2>1 DEF AskOK
    <2>3. Strict'
      BY <2>2 DEF Strict
    <2>4. sync.epoch \in Nat /\ epoch \in Nat
      BY <2>1, ChatNumbers DEF AskOK, Request
    <2>5. sync'.epoch <= epoch'
      BY <2>1, <2>2, <2>4
    <2>6. CASE epoch' = epoch /\ rows \subseteq rows' /\ st'.floor = st.floor
      BY <2>1, <2>2, <2>3, <2>5, <2>6 DEF AskOK, AskedBelow
    <2>7. CASE epoch' > epoch
      <3>1. sync'.epoch # epoch'
        BY <2>1, <2>2, <2>4, <2>7
      <3> QED
        BY <2>1, <2>3, <2>5, <3>1 DEF AskOK, AskedBelow
    <2> QED
      BY <2>6, <2>7
  <1> QED
    BY <1>1, <1>2

\* A clear takes the rows past an asked hole, and puts the floor past it.
LEMMA ClearKeepsAsk ==
  ASSUME Inv, ClearMessages
  PROVE  AskOK'
  <1>1. /\ StoredSeqs # {}
        /\ sync' = sync /\ channel' = channel /\ epoch' = epoch
        /\ Strict => st' = [DefaultPeerSyncState EXCEPT !.floor = ClearedFloor]
    BY DEF ClearMessages, Clear
  <1>2. CASE sync = NoRequest
    BY <1>1, <1>2 DEF Inv, AskOK
  <1>3. CASE sync # NoRequest
    <2>1. /\ sync \in Request /\ Strict /\ sync.epoch <= epoch /\ AskedBelow(sync)
      BY <1>3 DEF Inv, AskOK
    <2>2. Strict'
      BY <1>1, <2>1 DEF Strict
    <2>3. st'.floor = ClearedFloor
      BY <1>1, <2>1 DEF DefaultPeerSyncState
    <2>4. /\ ClearedFloor \in Seq /\ st.floor < ClearedFloor
          /\ \A n \in Nat : Known(n) => n <= ClearedFloor
      BY <1>1, <2>1, ClearedFloorPast DEF Inv
    <2>5. st.floor \in Nat /\ ClearedFloor \in Nat
      BY <2>4, ChatNumbers DEF Inv, ChatOK
    <2>6. sync.max \in Nat
      BY <2>1, PeerStreamAssumption DEF Request, Seq, NoSeq
    <2>7. ASSUME sync.epoch = epoch, sync.max # NoSeq
          PROVE  sync.min <= sync.max /\ sync.max < ClearedFloor
      <3>1. /\ sync.min <= sync.max
            /\ sync.max < st.floor \/ <<epoch, sync.max + 1>> \in rows
        BY <2>1, <2>7 DEF AskedBelow
      <3>2. <<epoch, sync.max + 1>> \in rows => sync.max + 1 <= ClearedFloor
        BY <2>4, <2>6 DEF Known
      <3> QED
        BY <2>4, <2>5, <2>6, <3>1, <3>2
    <2>8. AskedBelow(sync)'
      BY <1>1, <2>3, <2>7 DEF AskedBelow
    <2> QED
      BY <1>1, <2>1, <2>2, <2>8 DEF AskOK
  <1> QED
    BY <1>2, <1>3

\* A request as it is made, with something stored after what it asks for.
LEMMA NewAsk ==
  ASSUME ChatOK, Strict, NEW min \in Nat, NEW max \in Seq \cup {NoSeq}, Ask(min, max),
         max # NoSeq => /\ min <= max /\ st.floor < max
                        /\ max < st.floor \/ <<epoch, max + 1>> \in rows
  PROVE  AskOK'
  <1> DEFINE lo == IF min = NoSeq /\ st.floor = NoSeq THEN NoSeq ELSE Larger(min, st.floor + 1)
             r  == [stage |-> "asked", epoch |-> epoch, min |-> lo, max |-> max,
                    older |-> FALSE, got |-> FALSE]
  <1>1. sync' = r
    BY DEF Ask, BoundHistoryRequest
  <1>2. /\ channel' = channel /\ epoch' = epoch /\ st' = st /\ rows' = rows
    BY DEF Ask
  <1>3. epoch \in Epoch /\ epoch \in Nat /\ st.floor \in Nat /\ NoSeq = 0
    BY ChatNumbers DEF ChatOK, ChatType
  <1>4. lo \in Nat
    BY <1>3 DEF Larger
  <1>5. max # NoSeq => lo <= max
    <2>1. max \in Nat
      BY PeerStreamAssumption DEF Seq, NoSeq
    <2> QED
      BY <1>3, <2>1 DEF Larger
  <1> HIDE DEF lo
  <1>6. r \in Request /\ r.epoch = epoch /\ r.min = lo /\ r.max = max
    BY <1>3, <1>4 DEF Request
  <1> HIDE DEF r
  <1>7. Strict'
    BY <1>2 DEF Strict
  <1>8. AskedBelow(sync)'
    BY <1>1, <1>2, <1>5, <1>6 DEF AskedBelow
  <1>9. sync'.epoch <= epoch'
    BY <1>1, <1>2, <1>3, <1>6
  <1> QED
    BY <1>1, <1>6, <1>7, <1>8, <1>9 DEF AskOK

\* The three kinds of request are sound when they are made.
LEMMA AskIsSound ==
  ASSUME Inv, TailSync \/ RepairGap \/ ScrollBackfill
  PROVE  AskOK' /\ ChatOK'
  <1>1. ChatOK /\ Strict
    BY DEF Inv, TailSync, RepairGap, ScrollBackfill, CanAsk
  <1>2. /\ st.contig \in Nat /\ st.min \in Nat /\ st.max \in Nat /\ st.floor \in Nat
        /\ Seq \subseteq Nat /\ NoSeq = 0
    BY <1>1, ChatNumbers DEF ChatOK
  <1>3. st.min \in Seq \cup {NoSeq} /\ st.max \in Seq \cup {NoSeq}
    BY <1>1 DEF ChatOK, ChatType, PeerSyncState
  <1>4. \A v \in {st.min, st.max} : v = NoSeq \/ v <= st.floor \/ <<epoch, v>> \in rows
    BY <1>1 DEF ChatOK, Anchored
  <1>5. ASSUME NEW min, NEW max, Ask(min, max)
        PROVE  ChatOK'
    <2>1. PICK n : n \in Seq
      BY PeerStreamAssumption DEF Seq
    <2>2. faults' \in Nat
      BY <1>1, <1>5 DEF Ask, ChatOK, ChatType
    <2> QED
      BY <1>1, <1>5, <2>1, <2>2, SameEpochKeeps DEF Ask
  <1>6. CASE TailSync
    <2> DEFINE min == IF st.max = NoSeq THEN NoSeq ELSE st.max + 1
    <2>1. Ask(min, NoSeq)
      BY <1>6 DEF TailSync
    <2>2. min \in Nat
      BY <1>2
    <2> HIDE DEF min
    <2> QED
      BY <1>1, <1>5, <2>1, <2>2, NewAsk
  <1>7. CASE RepairGap
    <2>1. PICK max \in GapEnds :
            /\ Larger(st.contig, st.floor) < max
            /\ Ask(st.contig + 1, max)
      BY <1>7 DEF RepairGap
    <2>2. max \in Seq /\ max \in Nat
      BY <1>2, <2>1 DEF GapEnds
    <2>3. st.contig < max /\ st.floor < max
      BY <1>2, <2>1, <2>2 DEF Larger
    <2>4. <<epoch, max + 1>> \in rows
      <3>1. CASE <<epoch, max + 1>> \in rows
        BY <3>1
      <3>2. CASE max + 1 = st.max
        BY <1>2, <1>4, <2>2, <2>3, <3>2
      <3> QED
        BY <2>1, <3>1, <3>2 DEF GapEnds
    <2>5. st.contig + 1 \in Nat /\ st.contig + 1 <= max
      BY <1>2, <2>2, <2>3
    <2> QED
      BY <1>1, <1>5, <2>1, <2>2, <2>3, <2>4, <2>5, NewAsk
  <1>8. CASE ScrollBackfill
    <2>1. st.min > st.floor + 1 /\ Ask(NoSeq, st.min - 1)
      BY <1>8 DEF ScrollBackfill
    <2>2. st.min - 1 \in Seq /\ st.min - 1 \in Nat /\ st.floor < st.min - 1
          /\ (st.min - 1) + 1 = st.min /\ 0 <= st.min - 1
      BY <1>2, <1>3, <2>1, PeerStreamAssumption DEF Seq, NoSeq
    <2>3. <<epoch, (st.min - 1) + 1>> \in rows
      BY <1>2, <1>4, <2>1, <2>2
    <2> QED
      BY <1>1, <1>2, <1>5, <2>1, <2>2, <2>3, NewAsk
  <1> QED
    BY <1>6, <1>7, <1>8

-----------------------------------------------------------------------------
(***************************************************************************)
(* The theorems.                                                           *)
(***************************************************************************)

\* A chat begins with nothing stored, cleared or asked for.
LEMMA InitInv == Init => Inv
  <1> SUFFICES ASSUME Init
               PROVE  Inv
    OBVIOUS
  <1>1. /\ st \in PeerSyncState
        /\ st.contig = NoSeq /\ st.min = NoSeq /\ st.max = NoSeq
        /\ st.floor = NoSeq /\ st.phase = "ok" /\ st.closed = {}
    BY DEF Init, DefaultPeerSyncState, PeerSyncState
  <1>2. win \in ReplayWindow /\ win.held = {} /\ win.last = NoSeq
    BY DEF Init, EmptyWindow, ReplayWindow
  <1>3. epoch \in Epoch
    BY PeerStreamAssumption DEF Init, Epoch
  <1>4. ChatType
    BY <1>1, <1>2, <1>3 DEF Init, ChatType
  <1>5. NoLaterEpoch /\ ClosedIsCleared /\ PublicOpen /\ FloorParts /\ ClearedStaysCleared
    BY <1>1 DEF Init, NoLaterEpoch, ClosedIsCleared, PublicOpen, FloorParts, ClearedStaysCleared
  <1>6. TailKnown /\ Anchored
    BY <1>1 DEF Init, TailKnown, Anchored
  <1>7. WindowKnown
    <2>1. \A n \in Nat : ~(0 < n /\ n <= 0)
      OBVIOUS
    <2> QED
      BY <1>1, <1>2, <2>1 DEF WindowKnown, NoSeq
  <1>8. AskOK
    BY DEF Init, AskOK
  <1> QED
    BY <1>4, <1>5, <1>6, <1>7, <1>8 DEF Inv, ChatOK

\* A crash in a receive: the message is there, the window and the request are not.
LEMMA DieInReceiveKeeps ==
  ASSUME Inv, NEW e \in Epoch, NEW seq \in Seq, DieInReceive(e, seq)
  PROVE  Inv'
  <1>1. /\ channel' = channel /\ cleared' = cleared /\ epoch' = e
        /\ rows' = rows \cup {<<e, seq>>}
        /\ win' = EmptyWindow /\ sync' = NoRequest
    BY DEF DieInReceive, Restarted
  <1>2. faults' \in Nat
    BY DEF DieInReceive, Fault, Inv, ChatOK, ChatType
  <1>3. AskOK'
    BY <1>1 DEF AskOK
  <1>4. CASE e = epoch
    <2>1. Classify(seq, FALSE).keep /\ st' = st /\ base' = base
      BY <1>4 DEF DieInReceive
    <2>2. GoodOutcome(Classify(seq, FALSE), seq)
      BY ClassifyOutcome DEF Inv, ChatOK, ChatType
    <2>3. seq > st.floor
      BY <2>1, <2>2 DEF GoodOutcome, Taken
    <2>4. ChatOK'
      BY <1>1, <1>2, <1>4, <2>1, <2>3, SameEpochKeeps DEF Inv
    <2> QED
      BY <1>3, <2>4 DEF Inv
  <1>5. CASE e # epoch
    <2>1. e > epoch /\ st' = DefaultPeerSyncState /\ base' = NoSeq
      BY <1>5 DEF DieInReceive
    <2>2. ChatOK'
      BY <1>1, <1>2, <2>1, FreshEpochKeeps DEF Inv
    <2> QED
      BY <1>3, <2>2 DEF Inv
  <1> QED
    BY <1>4, <1>5

\* Every step keeps the invariant.
LEMMA NextInv == Inv /\ [Next]_vars => Inv'
  <1> SUFFICES ASSUME Inv, [Next]_vars
               PROVE  Inv'
    OBVIOUS
  <1>1. /\ epoch \in Epoch /\ epoch \in Nat /\ Epoch \subseteq Nat
        /\ faults \in Nat /\ ChatOK /\ AskOK /\ ChatType
    BY ChatNumbers DEF Inv, ChatOK, ChatType
  <1>2. sync # NoRequest => sync \in Request
    BY DEF Inv, AskOK
  <1>3. sync' = sync => SameAsk
    BY <1>2 DEF SameAsk
  <1>4. PICK some : some \in Seq
    BY PeerStreamAssumption DEF Seq
  \* A step that changes nothing of the chat but, perhaps, its window.
  <1>5. ASSUME SameAsk, channel' = channel, epoch' = epoch, st' = st, base' = base,
               cleared' = cleared, faults' \in Nat, rows' = rows,
               win' = win \/ win' = EmptyWindow
        PROVE  Inv'
    <2>1. ChatOK'
      BY <1>1, <1>4, <1>5, SameEpochKeeps
    <2>2. AskOK'
      BY <1>1, <1>5, AskKeeps
    <2> QED
      BY <2>1, <2>2 DEF Inv
  <1>6. ASSUME NEW seq \in Seq, Receive(seq)
        PROVE  Inv'
    <2>1. Take(seq, FALSE) /\ SameAsk
      BY <1>3, <1>6 DEF Receive
    <2>2. /\ ChatOK' /\ rows \subseteq rows' /\ st'.floor = st.floor
          /\ channel' = channel /\ epoch' = epoch
      BY <1>1, <2>1, TakeKeeps
    <2>3. AskOK'
      BY <1>1, <2>1, <2>2, AskKeeps
    <2> QED
      BY <2>2, <2>3 DEF Inv
  <1>7. ASSUME NEW seq \in Seq, TakeAnswered(seq)
        PROVE  Inv'
    <2>1. /\ sync # NoRequest /\ Take(seq, sync.older)
          /\ sync' = [sync EXCEPT !.got = @ \/ rows' # rows]
      BY <1>7 DEF TakeAnswered
    <2>2. sync \in Request /\ sync.older \in BOOLEAN /\ sync.got \in BOOLEAN
      BY <1>2, <2>1 DEF Request
    <2>3. SameAsk
      <3>1. sync' \in Request
        BY <2>1, <2>2 DEF Request
      <3>2. sync'.epoch = sync.epoch /\ sync'.min = sync.min /\ sync'.max = sync.max
        BY <2>1, <2>2 DEF Request
      <3> QED
        BY <2>1, <3>1, <3>2 DEF SameAsk
    <2>4. /\ ChatOK' /\ rows \subseteq rows' /\ st'.floor = st.floor
          /\ channel' = channel /\ epoch' = epoch
      BY <1>1, <2>1, <2>2, TakeKeeps
    <2>5. AskOK'
      BY <1>1, <2>3, <2>4, AskKeeps
    <2> QED
      BY <2>4, <2>5 DEF Inv
  <1>8. ASSUME NEW e \in Epoch, NEW seq \in Seq, ReceiveNewEpoch(e, seq)
        PROVE  Inv'
    <2>1. SameAsk /\ epoch' > epoch /\ epoch' \in Epoch /\ epoch' \in Nat /\ channel' = channel
      BY <1>1, <1>3, <1>8 DEF ReceiveNewEpoch
    <2>2. ChatOK'
      BY <1>1, <1>8, <2>1, FreshEpochKeeps DEF ReceiveNewEpoch
    <2>3. AskOK'
      BY <1>1, <2>1, AskKeeps
    <2> QED
      BY <2>2, <2>3 DEF Inv
  <1>9. ASSUME NEW e \in Epoch, NEW seq \in Seq, DieInReceive(e, seq)
        PROVE  Inv'
    BY <1>9, DieInReceiveKeeps
  <1>10. CASE TailSync \/ RepairGap \/ ScrollBackfill
    BY <1>10, AskIsSound DEF Inv
  <1>11. CASE Answered
    <2>1. SameAsk
      <3>1. sync # NoRequest /\ sync \in Request
        BY <1>2, <1>11 DEF Answered
      <3>2. sync' \in Request
        BY <1>11, <3>1 DEF Answered, Request
      <3>3. sync'.epoch = sync.epoch /\ sync'.min = sync.min /\ sync'.max = sync.max
        BY <1>11, <3>1 DEF Answered, Request
      <3> QED
        BY <3>1, <3>2, <3>3 DEF SameAsk
    <2> QED
      BY <1>1, <1>5, <1>11, <2>1 DEF Answered
  <1>12. CASE Unanswered
    <2>1. SameAsk
      BY <1>12 DEF Unanswered, SameAsk
    <2> QED
      BY <1>1, <1>5, <1>12, <2>1 DEF Unanswered
  <1>13. CASE FinishAnswer
    <2>1. SameAsk /\ channel' = channel /\ epoch' = epoch /\ rows' = rows
      BY <1>13 DEF FinishAnswer, SameAsk
    <2>2. ChatOK' /\ st'.floor = st.floor
      BY <1>13, FinishKeeps
    <2>3. AskOK'
      BY <1>1, <2>1, <2>2, AskKeeps
    <2> QED
      BY <2>2, <2>3 DEF Inv
  <1>14. CASE ClearMessages
    BY <1>1, <1>14, ClearKeeps, ClearKeepsAsk DEF Inv
  <1>15. CASE StartNewSecureChat
    <2>1. /\ epoch < MaxEpoch /\ epoch' = epoch + 1
          /\ channel' = channel /\ rows' = rows /\ cleared' = cleared
          /\ st' = DefaultPeerSyncState /\ win' = EmptyWindow /\ base' = NoSeq
          /\ sync' = sync /\ faults' = faults
      BY <1>15 DEF StartNewSecureChat
    <2>2. epoch' \in Epoch /\ epoch' \in Nat /\ epoch' > epoch
      BY <1>1, <2>1, PeerStreamAssumption DEF Epoch
    <2>3. ChatOK'
      BY <1>1, <1>4, <2>1, <2>2, FreshEpochKeeps
    <2>4. AskOK'
      BY <1>1, <1>3, <2>1, <2>2, AskKeeps
    <2> QED
      BY <2>3, <2>4 DEF Inv
  <1>16. CASE PauseOnly
    <2>1. /\ sync' = sync /\ channel' = channel /\ epoch' = epoch /\ rows' = rows
      BY <1>16 DEF PauseOnly
    <2>2. st'.floor = st.floor
      BY <1>1, <1>16 DEF PauseOnly, ChatType, PeerSyncState
    <2>3. ChatOK'
      BY <1>1, <1>16, PauseKeeps
    <2>4. AskOK'
      BY <1>1, <1>3, <2>1, <2>2, AskKeeps
    <2> QED
      BY <2>3, <2>4 DEF Inv
  <1>17. CASE Restart
    <2>1. SameAsk /\ faults' \in Nat
      BY <1>1, <1>17 DEF Restart, Restarted, Fault, SameAsk
    <2> QED
      BY <1>5, <1>17, <2>1 DEF Restart, Restarted
  <1>18. CASE UNCHANGED vars
    BY <1>1, <1>3, <1>5, <1>18 DEF vars
  <1> QED
    BY <1>6, <1>7, <1>8, <1>9, <1>10, <1>11, <1>12, <1>13, <1>14, <1>15, <1>16, <1>17, <1>18
       DEF Next

\* The inductive invariant holds throughout.
THEOREM Invariance == Spec => []Inv
  <1> QED
    BY InitInv, NextInv, PTL DEF Spec

\* Every variable keeps its type.
THEOREM TypeCorrect == Spec => []TypeOK
  <1>1. Inv => TypeOK
    BY DEF Inv, ChatOK, ChatType, AskOK, TypeOK
  <1> QED
    BY Invariance, <1>1, PTL

\* A private chat's cleared messages never come back, for any window, any
\* number of clears and any answer to a request made before one.
THEOREM NoResurrection == Spec => []ClearedStaysCleared
  <1>1. Inv => ClearedStaysCleared
    BY DEF Inv, ChatOK
  <1> QED
    BY Invariance, <1>1, PTL

\* The contiguous tail never passes a message that is missing.
THEOREM TailHasNoHoles == Spec => []ContiguousHasNoHoles
  <1>1. Inv => ContiguousHasNoHoles
    <2> SUFFICES ASSUME Inv, st.contig # NoSeq, NEW seq \in base..st.contig
                 PROVE  <<epoch, seq>> \in rows \cup cleared \/ seq \in st.closed \/ seq <= st.floor
      BY DEF ContiguousHasNoHoles
    <2>1. base \in Nat /\ st.contig \in Nat
      BY ChatNumbers DEF Inv, ChatOK
    <2>2. seq \in Nat /\ base <= seq /\ seq <= st.contig
      BY <2>1
    <2> QED
      BY <2>2 DEF Inv, ChatOK, TailKnown, Known
  <1> QED
    BY Invariance, <1>1, PTL

\* No empty answer closes a hole the peer may still fill.
THEOREM NothingFillableIsClosed == Spec => []ClosedIsCleared
  <1>1. Inv => ClosedIsCleared
    BY DEF Inv, ChatOK
  <1> QED
    BY Invariance, <1>1, PTL

\* What keeps a message out of an open public chat: the floor, and the end of
\* the tail, which the chat already holds.
LEMMA PublicKeeps ==
  ASSUME ~Strict, st \in PeerSyncState, st.phase # "compromised",
         NEW seq \in Seq, seq > st.floor, seq # st.contig
  PROVE  Classify(seq, FALSE).keep
  <1>1. seq \in Nat /\ st.contig \in Nat /\ st.floor \in Nat
    BY PeerStreamAssumption DEF PeerSyncState, Seq, NoSeq
  <1>2. ~(seq <= st.floor) /\ ~Latched(st)
    BY <1>1 DEF Latched
  <1> DEFINE w == CatchUpTo(win, st.contig)
             a == Accept(w, seq)
             keeps(o) == \E s, v : o = Outcome(TRUE, s, v)
  <1> SUFFICES keeps(Classify(seq, FALSE))
    <2>1. ASSUME NEW o, keeps(o)
          PROVE  o.keep
      <3>1. PICK s, v : o = Outcome(TRUE, s, v)
        BY <2>1
      <3> QED
        BY <3>1 DEF Outcome
    <2> QED
      BY <2>1
  <1>3. \A s, v : keeps(Outcome(TRUE, s, v))
    OBVIOUS
  <1>5. CASE seq \in st.closed
    <2>1. Classify(seq, FALSE) = Outcome(TRUE, ApplyPersistedMessage(st, seq), a)
      BY <1>2, <1>5 DEF Classify
    <2> QED
      BY <1>3, <2>1
  <1>6. CASE seq \notin st.closed /\ seq < st.contig
    <2>1. Classify(seq, FALSE) = Outcome(TRUE, ApplyRelaxedPersist(st, seq), w)
      BY <1>2, <1>6 DEF Classify, StrictElse
    <2> QED
      BY <1>3, <2>1
  <1>7. CASE seq \notin st.closed /\ ~(seq < st.contig)
    <2>1. CASE st.contig = NoSeq /\ st.max = NoSeq
      <3>1. Classify(seq, FALSE) = Outcome(TRUE, ApplyPersistedMessage(st, seq), a)
        BY <1>2, <1>7, <2>1 DEF Classify
      <3> QED
        BY <1>3, <3>1
    <2>2. CASE ~(st.contig = NoSeq /\ st.max = NoSeq) /\ seq = st.contig + 1
      <3>1. Classify(seq, FALSE) = Outcome(TRUE, ContiguousFill(st, a, seq), a)
        BY <1>2, <1>7, <2>2 DEF Classify
      <3> QED
        BY <1>3, <3>1
    <2>3. CASE ~(st.contig = NoSeq /\ st.max = NoSeq) /\ seq # st.contig + 1 /\ seq = 1
      <3>1. Classify(seq, FALSE) = Outcome(TRUE, ApplyRelaxedPersist(st, seq), w)
        BY <1>2, <1>7, <2>3 DEF Classify, StrictElse
      <3> QED
        BY <1>3, <3>1
    <2>4. CASE ~(st.contig = NoSeq /\ st.max = NoSeq) /\ seq # st.contig + 1 /\ seq # 1
      <3>1. seq > st.contig + 1
        BY <1>1, <1>7, <2>4
      <3>2. CASE Accepts(w, seq)
        <4>1. Classify(seq, FALSE) = Outcome(TRUE, WindowedGap(st, a, seq), a)
          BY <1>2, <1>7, <2>4, <3>1, <3>2 DEF Classify
        <4> QED
          BY <1>3, <4>1
      <3>3. CASE ~Accepts(w, seq)
        <4>1. Classify(seq, FALSE) =
                Outcome(TRUE, [ApplyBackfillMessage(st, seq) EXCEPT !.phase = "gap"], w)
          BY <1>2, <1>7, <2>4, <3>1, <3>3 DEF Classify, StrictElse
        <4> QED
          BY <1>3, <4>1
      <3> QED
        BY <3>2, <3>3
    <2> QED
      BY <2>1, <2>2, <2>3, <2>4
  <1> QED
    BY <1>5, <1>6, <1>7

\* A public chat takes every message it never had.
THEOREM PublicTakesAll == Spec => []PublicLosesNothing
  <1>1. Inv => PublicLosesNothing
    <2> SUFFICES ASSUME Inv, ~Strict, NEW seq \in Seq, <<epoch, seq>> \notin rows \cup cleared
                 PROVE  Classify(seq, FALSE).keep
      BY DEF PublicLosesNothing
    <2>1. st \in PeerSyncState /\ st.floor = NoSeq /\ st.phase # "compromised"
      BY DEF Inv, ChatOK, ChatType, PublicOpen
    <2>2. /\ NoSeq = 0 /\ seq > 0 /\ seq \in Nat
          /\ st.contig \in Nat
      BY ChatNumbers DEF Inv, ChatOK
    <2>3. seq # st.contig
      <3> SUFFICES ASSUME seq = st.contig
                   PROVE  FALSE
        OBVIOUS
      <3>1. /\ base <= st.contig
            /\ \A n \in Nat : base <= n /\ n <= st.contig => Known(n)
        BY <2>2 DEF Inv, ChatOK, TailKnown
      <3>2. Known(st.contig)
        BY <2>2, <3>1
      <3> QED
        BY <2>1, <2>2, <3>2 DEF Known
    <2> QED
      BY <2>1, <2>2, <2>3, PublicKeeps
  <1> QED
    BY Invariance, <1>1, PTL

\* A compromised private chat is reopened by a new epoch or a clear only.
THEOREM NoReopening == Spec => LatchHolds
  <1> DEFINE Holds == Strict /\ st.phase = "compromised" =>
                        st'.phase = "compromised" \/ epoch' # epoch \/ rows' = {}
  <1>1. Inv /\ [Next]_vars => [Holds]_vars
    <2> SUFFICES ASSUME Inv, Next, Strict, st.phase = "compromised", epoch' = epoch
                 PROVE  st'.phase = "compromised" \/ rows' = {}
      BY DEF vars
    <2>1. ChatOK /\ st \in PeerSyncState /\ epoch \in Nat
      BY ChatNumbers DEF Inv, ChatOK, ChatType
    <2>2. ASSUME NEW seq \in Seq, Receive(seq)
          PROVE  st'.phase = "compromised"
      BY <2>1, <2>2, TakeKeeps DEF Receive
    <2>3. ASSUME NEW seq \in Seq, TakeAnswered(seq)
          PROVE  st'.phase = "compromised"
      <3>1. sync # NoRequest /\ Take(seq, sync.older)
        BY <2>3 DEF TakeAnswered
      <3>2. sync.older \in BOOLEAN
        BY <3>1 DEF Inv, AskOK, Request
      <3> QED
        BY <2>1, <3>1, <3>2, TakeKeeps
    <2>4. ASSUME NEW e \in Epoch, NEW seq \in Seq, ReceiveNewEpoch(e, seq)
          PROVE  FALSE
      BY <2>1, <2>4 DEF ReceiveNewEpoch
    <2>5. ASSUME NEW e \in Epoch, NEW seq \in Seq, DieInReceive(e, seq)
          PROVE  st'.phase = "compromised"
      BY <2>5 DEF DieInReceive
    <2>6. CASE TailSync \/ RepairGap \/ ScrollBackfill
      BY <2>6 DEF TailSync, RepairGap, ScrollBackfill, Ask
    <2>7. CASE Answered \/ Unanswered \/ Restart
      BY <2>7 DEF Answered, Unanswered, Restart
    <2>8. CASE FinishAnswer
      BY <2>8, FinishKeeps
    <2>9. CASE ClearMessages
      BY <2>9 DEF ClearMessages, Clear
    <2>10. CASE StartNewSecureChat
      BY <2>1, <2>10 DEF StartNewSecureChat
    <2>11. CASE PauseOnly
      BY <2>1, <2>11 DEF PauseOnly, PeerSyncState
    <2> QED
      BY <2>2, <2>3, <2>4, <2>5, <2>6, <2>7, <2>8, <2>9, <2>10, <2>11 DEF Next
  <1>2. Spec => [][Holds]_vars
    BY Invariance, <1>1, PTL DEF Spec
  <1> QED
    BY <1>2 DEF LatchHolds
=============================================================================
