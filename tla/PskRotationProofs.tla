-------------------------- MODULE PskRotationProofs --------------------------
(***************************************************************************)
(* Proofs about PskRotation, for any number of devices, keys and epochs    *)
(* and any limit on retired keys.                                          *)
(*                                                                         *)
(* The invariant says of each row that its retired keys are of earlier     *)
(* epochs, one for each, and of each device that it has sent nothing past  *)
(* the number its row gives next.                                          *)
(***************************************************************************)
EXTENDS PskRotation, TLAPS, FiniteSetTheorems

OnePerEpoch(S) == \A r, s \in S : r.epoch = s.epoch => r = s

\* The retired keys of a row; a row gets them with a key only.
LedgerOK(r) ==
  /\ \A e \in r.retired : e.epoch < r.epoch
  /\ OnePerEpoch(r.retired)
  /\ r.psk = NoPsk => r.retired = {}

\* A device's last message lies before the number its row gives next.
SentBefore(m, r) ==
  m # NoMessage => /\ m.epoch <= r.epoch
                   /\ m.epoch = r.epoch => m.seq < r.seq

RowsOK == \A d \in Device : LedgerOK(row[d]) /\ SentBefore(last[d], row[d])

Inv == TypeOK /\ RowsOK /\ BundlesAreValid

-----------------------------------------------------------------------------
(***************************************************************************)
(* Ledgers.                                                                *)
(***************************************************************************)

\* CapRetiredTail keeps entries of the ledger, all of them below the active epoch.
LEMMA CapIsBelow ==
  ASSUME NEW S, NEW a
  PROVE  /\ CapRetiredTail(S, a) \subseteq S
         /\ \A r \in CapRetiredTail(S, a) : r.epoch < a
  BY DEF CapRetiredTail

\* Between two epochs a ledger of one key per epoch has at most one entry for
\* each epoch: what lies past lo and not past hi counts hi - lo at most.
LEMMA LedgerSize ==
  ASSUME NEW S \in SUBSET RetiredPskEntry, OnePerEpoch(S),
         NEW lo \in Nat, NEW hi \in Nat, lo <= hi,
         \A r \in S : lo < r.epoch /\ r.epoch <= hi
  PROVE  IsFiniteSet(S) /\ Cardinality(S) \in Nat /\ Cardinality(S) <= hi - lo
<1> DEFINE f == [r \in S |-> r.epoch]
           T == (lo + 1)..hi
<1>1. \A r \in S : r.epoch \in Nat
  BY DEF RetiredPskEntry, Epoch
<1>2. f \in Injection(S, T)
  BY <1>1 DEF Injection, IsInjective, OnePerEpoch
<1>3. IsFiniteSet(T) /\ Cardinality(T) = hi - lo
  <2>1. lo + 1 \in Int /\ hi \in Int
    OBVIOUS
  <2>2. /\ IsFiniteSet(T)
        /\ Cardinality(T) = IF lo + 1 > hi THEN 0 ELSE hi - (lo + 1) + 1
    BY <2>1, FS_Interval
  <2> HIDE DEF T
  <2> QED BY <2>2
<1> HIDE DEF f, T
<1>4. IsFiniteSet(S) /\ Cardinality(S) <= Cardinality(T)
  BY <1>2, <1>3, FS_Injection
<1>5. Cardinality(S) \in Nat
  BY <1>4, FS_CardinalityType
<1> QED BY <1>3, <1>4, <1>5

\* What lies below an epoch of such a ledger is finite.
LEMMA LedgerFinite ==
  ASSUME NEW S \in SUBSET RetiredPskEntry, OnePerEpoch(S)
  PROVE  IsFiniteSet(S)
<1>1. MaxEpoch \in Nat /\ 0 \in Nat /\ 0 <= MaxEpoch
  BY PskRotationAssumption
<1>2. \A r \in S : 0 < r.epoch /\ r.epoch <= MaxEpoch
  BY PskRotationAssumption DEF RetiredPskEntry, Epoch
<1> QED BY <1>1, <1>2, LedgerSize

\* Entries of a ledger past r's epoch: fewer, the later r is.
LEMMA FewerLater ==
  ASSUME NEW S \in SUBSET RetiredPskEntry, OnePerEpoch(S),
         NEW r \in S, NEW s \in S, r.epoch < s.epoch
  PROVE  Cardinality({later \in S : later.epoch > s.epoch})
           < Cardinality({later \in S : later.epoch > r.epoch})
<1> DEFINE R == {later \in S : later.epoch > r.epoch}
           T == {later \in S : later.epoch > s.epoch}
<1>1. IsFiniteSet(S)
  BY LedgerFinite
<1>2. \A x \in S : x.epoch \in Nat
  BY DEF RetiredPskEntry, Epoch
<1>3. R \in SUBSET S /\ T \in SUBSET R /\ s \in R /\ s \notin T
  BY <1>2
<1> HIDE DEF R, T
<1>4. IsFiniteSet(R) /\ Cardinality(R) \in Nat
  BY <1>1, <1>3, FS_Subset, FS_CardinalityType
<1>5. Cardinality(T) <= Cardinality(R) /\ (Cardinality(R) = Cardinality(T) => R = T)
      /\ IsFiniteSet(T)
  BY <1>3, <1>4, FS_Subset
<1>6. Cardinality(T) \in Nat
  BY <1>5, FS_CardinalityType
<1>7. Cardinality(T) < Cardinality(R)
  BY <1>3, <1>4, <1>5, <1>6
<1> QED BY <1>7 DEF R, T

\* CapRetiredTail keeps MaxRetired entries at most: it orders what it keeps by
\* how many entries come later, and that is a number below MaxRetired.
LEMMA CapIsCapped ==
  ASSUME NEW S \in SUBSET RetiredPskEntry, OnePerEpoch(S), NEW a \in Nat
  PROVE  Cardinality(CapRetiredTail(S, a)) <= MaxRetired
<1> DEFINE below == {r \in S : r.epoch < a}
           later(r) == {l \in below : l.epoch > r.epoch}
           Kept == {r \in below : Cardinality(later(r)) < MaxRetired}
           f == [r \in Kept |-> Cardinality(later(r))]
           T == 0..(MaxRetired - 1)
<1>1. below \in SUBSET RetiredPskEntry /\ OnePerEpoch(below)
  BY DEF OnePerEpoch
<1>2. \A r, s \in below : r.epoch < s.epoch => Cardinality(later(s)) < Cardinality(later(r))
  <2> HIDE DEF below
  <2> QED BY <1>1, FewerLater
<1>3. \A r \in below : Cardinality(later(r)) \in Nat
  <2>1. IsFiniteSet(below)
    BY <1>1, LedgerFinite
  <2>2. \A r \in below : later(r) \in SUBSET below
    OBVIOUS
  <2> HIDE DEF below, later
  <2>3. \A r \in below : IsFiniteSet(later(r))
    BY <2>1, <2>2, FS_Subset
  <2> QED BY <2>3, FS_CardinalityType
<1>4. \A r, s \in below : r # s => r.epoch < s.epoch \/ s.epoch < r.epoch
  BY DEF OnePerEpoch, RetiredPskEntry, Epoch
<1>5. MaxRetired \in Nat
  BY PskRotationAssumption
<1> HIDE DEF below, later
<1>6. \A r \in Kept : f[r] \in T
  BY <1>3, <1>5
<1>7. \A r, s \in Kept : r # s => f[r] # f[s]
  BY <1>2, <1>3, <1>4
<1> HIDE DEF Kept
<1>8. f \in Injection(Kept, T)
  <2>1. f \in [Kept -> T]
    BY <1>6
  <2> QED BY <2>1, <1>7 DEF Injection, IsInjective
<1>9. IsFiniteSet(T) /\ Cardinality(T) = MaxRetired
  <2>1. 0 \in Int /\ MaxRetired - 1 \in Int
    BY <1>5
  <2>2. /\ IsFiniteSet(T)
        /\ Cardinality(T) = IF 0 > MaxRetired - 1 THEN 0 ELSE (MaxRetired - 1) - 0 + 1
    BY <2>1, FS_Interval
  <2> HIDE DEF T
  <2> QED BY <1>5, <2>2
<1> HIDE DEF f, T
<1>10. Cardinality(Kept) <= Cardinality(T)
  BY <1>8, <1>9, FS_Injection
<1>11. CapRetiredTail(S, a) = Kept
  BY DEF CapRetiredTail, Kept, later, below
<1> QED BY <1>9, <1>10, <1>11

\* CapRetiredTail keeps every key of the last MaxRetired epochs.
LEMMA CapKeepsTail ==
  ASSUME NEW S \in SUBSET RetiredPskEntry, OnePerEpoch(S), NEW hi \in Nat,
         \A s \in S : s.epoch <= hi,
         NEW x \in S, x.epoch + MaxRetired >= hi + 1
  PROVE  x \in CapRetiredTail(S, hi + 1)
<1> DEFINE below == {r \in S : r.epoch < hi + 1}
           later == {l \in below : l.epoch > x.epoch}
<1>1. \A s \in S : s.epoch \in Nat
  BY DEF RetiredPskEntry, Epoch
<1>2. x \in below /\ x.epoch \in Nat /\ x.epoch <= hi
  BY <1>1
<1>3. /\ later \in SUBSET RetiredPskEntry /\ OnePerEpoch(later)
      /\ \A l \in later : x.epoch < l.epoch /\ l.epoch <= hi
  BY <1>1 DEF OnePerEpoch
<1> HIDE DEF later
<1>4. Cardinality(later) \in Nat /\ Cardinality(later) <= hi - x.epoch
  BY <1>2, <1>3, LedgerSize
<1>5. Cardinality(later) < MaxRetired
  BY <1>2, <1>4, PskRotationAssumption
<1> QED BY <1>2, <1>5 DEF CapRetiredTail, later

\* A retired key resolves to itself.
LEMMA EntryResolves ==
  ASSUME NEW r, OnePerEpoch(r.retired), NEW x \in r.retired, x.epoch # r.epoch
  PROVE  ResolveMasterPskForEpoch(r, x.epoch) = x.psk
<1> DEFINE entries == {e \in r.retired : e.epoch = x.epoch}
<1>1. entries = {x}
  BY DEF OnePerEpoch
<1> QED BY <1>1 DEF ResolveMasterPskForEpoch

\* MergeRetired keeps one key per epoch.
LEMMA MergeIsOnePerEpoch ==
  ASSUME NEW S \in SUBSET RetiredPskEntry, NEW I \in SUBSET RetiredPskEntry,
         OnePerEpoch(S), OnePerEpoch(I)
  PROVE  MergeRetired(S, I) \in SUBSET RetiredPskEntry /\ OnePerEpoch(MergeRetired(S, I))
  BY DEF MergeRetired, OnePerEpoch

-----------------------------------------------------------------------------
(***************************************************************************)
(* Rows.                                                                   *)
(***************************************************************************)

\* The row under an imported key: its retired keys are those of the row and of
\* the bundle, below the bundle's epoch.
LEMMA ImportKeeps ==
  ASSUME NEW r \in Row, LedgerOK(r), NEW b,
         b.epoch \in Epoch, b.psk \in Key,
         b.retired \in SUBSET RetiredPskEntry, OnePerEpoch(b.retired)
  PROVE  /\ ImportPskBundle(r, b) \in Row
         /\ LedgerOK(ImportPskBundle(r, b))
         /\ ImportPskBundle(r, b).epoch = b.epoch
         /\ ImportPskBundle(r, b).seq = r.seq
         /\ ~PskReady(ImportPskBundle(r, b))
<1> DEFINE tail == CapRetiredTail(MergeRetired(r.retired, b.retired), b.epoch)
           n == ImportPskBundle(r, b)
<1>1. r.retired \in SUBSET RetiredPskEntry /\ OnePerEpoch(r.retired)
  BY DEF Row, LedgerOK
<1>2. /\ MergeRetired(r.retired, b.retired) \in SUBSET RetiredPskEntry
      /\ OnePerEpoch(MergeRetired(r.retired, b.retired))
  BY <1>1, MergeIsOnePerEpoch
<1>3. /\ tail \subseteq MergeRetired(r.retired, b.retired)
      /\ \A e \in tail : e.epoch < b.epoch
  BY CapIsBelow
<1> HIDE DEF tail
<1>4. n = [r EXCEPT !.epoch = b.epoch, !.psk = b.psk, !.verified = FALSE, !.retired = tail]
  BY DEF ImportPskBundle, tail
<1> HIDE DEF n
<1>5. tail \in SUBSET RetiredPskEntry /\ OnePerEpoch(tail)
  BY <1>2, <1>3 DEF OnePerEpoch
<1>6. n \in Row
  BY <1>4, <1>5 DEF Row
<1>7. /\ n.epoch = b.epoch /\ n.seq = r.seq /\ n.psk = b.psk
      /\ n.retired = tail
  BY <1>4 DEF Row
<1>8. n.verified = FALSE
  BY <1>4 DEF Row
<1>9. n.psk # NoPsk
  BY <1>7, PskRotationAssumption DEF Key, NoPsk
<1>10. LedgerOK(n)
  BY <1>3, <1>5, <1>7, <1>9 DEF LedgerOK
<1> QED BY <1>6, <1>7, <1>8, <1>10 DEF PskReady, n

\* The row a rotation saves.
LEMMA RotatedKeeps ==
  ASSUME NEW r \in Row, LedgerOK(r), r.psk # NoPsk, r.epoch < MaxEpoch, NEW k \in Key
  PROVE  /\ Rotated(r, k) \in Row
         /\ LedgerOK(Rotated(r, k))
         /\ Rotated(r, k).epoch = r.epoch + 1
         /\ Rotated(r, k).seq = r.seq
         /\ ~PskReady(Rotated(r, k))
<1> DEFINE entry == [epoch |-> r.epoch, psk |-> r.psk]
           all == r.retired \cup {entry}
           tail == CapRetiredTail(all, r.epoch + 1)
           n == Rotated(r, k)
<1>1. r.epoch \in Epoch /\ r.epoch + 1 \in Epoch /\ r.psk \in Key
  BY PskRotationAssumption DEF Row, Epoch
<1>2. all \in SUBSET RetiredPskEntry
  BY <1>1 DEF Row, RetiredPskEntry
<1>3. OnePerEpoch(all)
  <2>1. \A e \in r.retired : e.epoch < r.epoch /\ e.epoch \in Nat
    BY DEF LedgerOK, Row, RetiredPskEntry, Epoch
  <2>2. OnePerEpoch(r.retired)
    BY DEF LedgerOK
  <2>3. entry.epoch = r.epoch
    OBVIOUS
  <2> HIDE DEF entry
  <2> QED BY <1>1, <2>1, <2>2, <2>3 DEF OnePerEpoch, Epoch
<1>4. tail \subseteq all /\ \A e \in tail : e.epoch < r.epoch + 1
  BY CapIsBelow
<1>5. n = [r EXCEPT !.epoch = r.epoch + 1, !.psk = k, !.verified = FALSE, !.retired = tail]
  BY DEF Rotated
<1> HIDE DEF n, tail, all
<1>6. tail \in SUBSET RetiredPskEntry /\ OnePerEpoch(tail)
  BY <1>2, <1>3, <1>4 DEF OnePerEpoch
<1>7. n \in Row
  BY <1>1, <1>5, <1>6 DEF Row
<1>8. /\ n.epoch = r.epoch + 1 /\ n.seq = r.seq /\ n.psk = k
      /\ n.retired = tail
  BY <1>5 DEF Row
<1>9. n.verified = FALSE
  BY <1>5 DEF Row
<1>10. n.psk # NoPsk
  BY <1>8, PskRotationAssumption DEF Key, NoPsk
<1>11. LedgerOK(n)
  BY <1>4, <1>6, <1>8, <1>10 DEF LedgerOK
<1> QED BY <1>7, <1>8, <1>9, <1>11 DEF PskReady, n

\* A row moved to its epoch or a later one numbers from 1, under the same keys.
LEMMA AdoptKeeps ==
  ASSUME NEW r \in Row, LedgerOK(r), NEW e \in Epoch, r.epoch <= e
  PROVE  /\ AdoptChatTargetEpoch(r, e) \in Row
         /\ LedgerOK(AdoptChatTargetEpoch(r, e))
         /\ AdoptChatTargetEpoch(r, e).epoch = e
         /\ AdoptChatTargetEpoch(r, e).psk = r.psk
         /\ AdoptChatTargetEpoch(r, e).retired = r.retired
         /\ PskReady(AdoptChatTargetEpoch(r, e)) <=> PskReady(r)
<1> DEFINE n == AdoptChatTargetEpoch(r, e)
<1>1. n = [r EXCEPT !.epoch = e, !.seq = 1]
  BY DEF AdoptChatTargetEpoch
<1> HIDE DEF n
<1>2. n \in Row
  <2>1. 1 \in Nat \ {0}
    OBVIOUS
  <2> QED BY <1>1, <2>1 DEF Row
<1>3. n.epoch = e /\ n.psk = r.psk /\ n.retired = r.retired
  BY <1>1 DEF Row
<1>4. n.verified = r.verified
  BY <1>1 DEF Row
<1>5. r.epoch \in Nat /\ e \in Nat /\ \A x \in r.retired : x.epoch \in Nat
  BY DEF Row, RetiredPskEntry, Epoch
<1>6. LedgerOK(n)
  BY <1>3, <1>5 DEF LedgerOK
<1> QED BY <1>2, <1>3, <1>4, <1>6 DEF PskReady, n

\* A bundle can be exported from a row.
LEMMA ExportIsValid ==
  ASSUME NEW d \in Device, NEW r \in Row, LedgerOK(r), r.psk # NoPsk
  PROVE  ExportPskBundle(d, r) \in PskBundle /\ ValidateBundle(ExportPskBundle(d, r))
<1> DEFINE tail == CapRetiredTail(r.retired, r.epoch)
<1>1. /\ r.retired \in SUBSET RetiredPskEntry /\ OnePerEpoch(r.retired)
      /\ r.epoch \in Nat /\ r.epoch \in Epoch /\ r.psk \in Key
  BY DEF Row, LedgerOK, Epoch
<1>2. /\ tail \subseteq r.retired
      /\ \A e \in tail : e.epoch < r.epoch
  BY CapIsBelow
<1>3. Cardinality(tail) <= MaxRetired
  BY <1>1, CapIsCapped
<1>4. ExportPskBundle(d, r) = [from |-> d, epoch |-> r.epoch, psk |-> r.psk, retired |-> tail]
  BY DEF ExportPskBundle
<1> HIDE DEF tail
<1> QED BY <1>1, <1>2, <1>3, <1>4 DEF PskBundle, ValidateBundle, OnePerEpoch

\* The key a row seals with.
LEMMA ActiveResolves ==
  ASSUME NEW r \in Row, r.psk # NoPsk
  PROVE  ResolveMasterPskForEpoch(r, r.epoch) = r.psk
  BY DEF ResolveMasterPskForEpoch

-----------------------------------------------------------------------------
(***************************************************************************)
(* Steps.                                                                  *)
(***************************************************************************)

\* What of Inv each step has to show apart from the rows.
Others ==
  /\ synced' \subseteq Device
  /\ bundles' \subseteq PskBundle
  /\ \A b \in bundles' : ValidateBundle(b)
  /\ keys' \in 0..MaxKeys
  /\ faults' \in 0..MaxFaults

\* A step that gives d the row r, after the last message m.
LEMMA RowStep ==
  ASSUME Inv, Others, NEW d \in Device, NEW r \in Row, NEW m \in Message \cup {NoMessage},
         row' = [row EXCEPT ![d] = r], last' = [last EXCEPT ![d] = m],
         LedgerOK(r), SentBefore(m, r)
  PROVE  Inv'
<1>1. TypeOK'
  BY DEF Inv, TypeOK, Others
<1>2. RowsOK'
  BY DEF Inv, TypeOK, RowsOK, LedgerOK, SentBefore
<1>3. BundlesAreValid'
  BY DEF Others, BundlesAreValid
<1> QED BY <1>1, <1>2, <1>3 DEF Inv

\* A step that gives d the row r, and sends nothing.
LEMMA QuietStep ==
  ASSUME Inv, Others, NEW d \in Device, NEW r \in Row,
         row' = [row EXCEPT ![d] = r], UNCHANGED last,
         LedgerOK(r), SentBefore(last[d], r)
  PROVE  Inv'
<1>1. last[d] \in Message \cup {NoMessage} /\ last' = [last EXCEPT ![d] = last[d]]
  BY DEF Inv, TypeOK
<1> QED BY <1>1, RowStep

\* A row of a later epoch is past everything sent; one of the same epoch is, if
\* the numbering went on.
LEMMA StillBefore ==
  ASSUME Inv, NEW d \in Device, NEW r \in Row,
         \/ row[d].epoch < r.epoch
         \/ row[d].epoch = r.epoch /\ row[d].seq <= r.seq
  PROVE  SentBefore(last[d], r)
<1>1. SentBefore(last[d], row[d]) /\ row[d] \in Row /\ last[d] \in Message \cup {NoMessage}
  BY DEF Inv, TypeOK, RowsOK
<1>2. CASE last[d] = NoMessage
  BY <1>2 DEF SentBefore
<1>3. CASE last[d] \in Message /\ last[d] # NoMessage
  <2>1. /\ last[d].epoch \in Nat /\ last[d].seq \in Nat
        /\ row[d].epoch \in Nat /\ row[d].seq \in Nat
        /\ r.epoch \in Nat /\ r.seq \in Nat
    BY <1>1, <1>3 DEF Message, Row, Epoch
  <2> QED BY <1>1, <1>3, <2>1 DEF SentBefore
<1> QED BY <1>1, <1>2, <1>3

LEMMA RowOf ==
  ASSUME Inv, NEW d \in Device
  PROVE  row[d] \in Row /\ LedgerOK(row[d])
  BY DEF Inv, TypeOK, RowsOK

\* A fresh key.
LEMMA FreshKey ==
  ASSUME Inv, GenerateMasterPsk
  PROVE  keys' \in Key /\ keys' \in 0..MaxKeys
  BY PskRotationAssumption DEF Inv, TypeOK, GenerateMasterPsk, Key

LEMMA CrashCounts ==
  ASSUME Inv, Crash
  PROVE  faults' \in 0..MaxFaults
  BY PskRotationAssumption DEF Inv, TypeOK, Crash

-----------------------------------------------------------------------------
(***************************************************************************)
(* One lemma per action.                                                   *)
(***************************************************************************)

LEMMA EnsureGeneratedKeeps ==
  ASSUME Inv, NEW d \in Device, EnsureGenerated(d)
  PROVE  Inv' /\ ~PskReady(row'[d])
<1> DEFINE n == [row[d] EXCEPT !.psk = keys', !.verified = FALSE, !.retired = {}]
<1>1. row[d] \in Row /\ LedgerOK(row[d]) /\ row \in [Device -> Row]
  BY RowOf DEF Inv, TypeOK
<1>2. keys' \in Key /\ keys' \in 0..MaxKeys
  BY FreshKey DEF EnsureGenerated
<1>3. row' = [row EXCEPT ![d] = n]
  BY <1>1 DEF EnsureGenerated
<1>4. n \in Row
  <2>1. {} \in SUBSET RetiredPskEntry
    OBVIOUS
  <2> QED BY <1>1, <1>2, <2>1 DEF Row
<1>5. n.epoch = row[d].epoch /\ n.seq = row[d].seq /\ n.retired = {}
  BY <1>1 DEF Row
<1>6. n.verified = FALSE
  BY <1>1 DEF Row
<1> HIDE DEF n
<1>7. LedgerOK(n)
  BY <1>5 DEF LedgerOK, OnePerEpoch
<1>8. SentBefore(last[d], n)
  <2>1. row[d].seq <= n.seq
    BY <1>1, <1>5 DEF Row
  <2> QED BY <1>4, <1>5, <2>1, StillBefore
<1>9. Others /\ UNCHANGED last
  BY <1>2 DEF EnsureGenerated, Others, Inv, TypeOK, BundlesAreValid
<1>10. Inv'
  BY <1>3, <1>4, <1>7, <1>8, <1>9, QuietStep
<1>11. row'[d] = n
  BY <1>1, <1>3
<1> QED BY <1>6, <1>10, <1>11 DEF PskReady

\* What ImportRaw and ImportBundle hand to ApplyBundle.
LEMMA ApplyBundleKeeps ==
  ASSUME Inv, NEW d \in Device, NEW b,
         b.epoch \in Epoch, b.psk \in Key, row[d].epoch <= b.epoch,
         b.retired \in SUBSET RetiredPskEntry, OnePerEpoch(b.retired),
         ApplyBundle(d, b), UNCHANGED faults
  PROVE  Inv' /\ ~PskReady(row'[d])
<1> DEFINE i == ImportPskBundle(row[d], b)
           n == AdoptChatTargetEpoch(i, b.epoch)
<1>1. row[d] \in Row /\ LedgerOK(row[d]) /\ row \in [Device -> Row]
  BY RowOf DEF Inv, TypeOK
<1>2. /\ i \in Row /\ LedgerOK(i) /\ i.epoch = b.epoch /\ i.seq = row[d].seq
      /\ ~PskReady(i)
  BY <1>1, ImportKeeps
<1>3. Others /\ UNCHANGED last
  BY DEF ApplyBundle, Others, Inv, TypeOK, BundlesAreValid
<1>4. CASE b.epoch = row[d].epoch
  <2>1. row' = [row EXCEPT ![d] = i]
    BY <1>4 DEF ApplyBundle
  <2> HIDE DEF i
  <2>2. row[d].seq <= i.seq
    BY <1>1, <1>2 DEF Row
  <2>3. SentBefore(last[d], i)
    BY <1>2, <1>4, <2>2, StillBefore
  <2>4. Inv'
    BY <1>2, <1>3, <2>1, <2>3, QuietStep
  <2> QED BY <1>1, <1>2, <2>1, <2>4
<1>5. CASE b.epoch # row[d].epoch
  <2>1. row' = [row EXCEPT ![d] = n]
    BY <1>5 DEF ApplyBundle
  <2> HIDE DEF i
  <2>2. i.epoch <= b.epoch
    BY <1>2 DEF Epoch
  <2>3. n \in Row /\ LedgerOK(n) /\ n.epoch = b.epoch /\ ~PskReady(n)
    BY <1>2, <2>2, AdoptKeeps
  <2> HIDE DEF n
  <2>4. row[d].epoch < n.epoch
    BY <1>1, <1>5, <2>3 DEF Row, Epoch
  <2>5. SentBefore(last[d], n)
    BY <2>3, <2>4, StillBefore
  <2>6. Inv'
    BY <1>3, <2>1, <2>3, <2>5, QuietStep
  <2> QED BY <1>1, <2>1, <2>3, <2>6
<1> QED BY <1>4, <1>5

LEMMA ImportRawKeeps ==
  ASSUME Inv, NEW d \in Device, NEW psk \in Key, ImportRaw(d, psk)
  PROVE  Inv' /\ ~PskReady(row'[d])
<1> DEFINE b == [epoch |-> row[d].epoch, psk |-> psk, retired |-> {}]
<1>1. /\ b.epoch \in Epoch /\ b.psk \in Key /\ row[d].epoch <= b.epoch
      /\ b.retired \in SUBSET RetiredPskEntry /\ OnePerEpoch(b.retired)
  BY RowOf DEF Row, Epoch, OnePerEpoch
<1>2. ApplyBundle(d, b) /\ UNCHANGED faults
  BY DEF ImportRaw
<1> HIDE DEF b
<1> QED BY <1>1, <1>2, ApplyBundleKeeps

\* A bundle the users may install.
LEMMA CurrentBundle ==
  ASSUME Inv, NEW d \in Device, NEW b \in Current(d)
  PROVE  /\ b.epoch \in Epoch /\ b.psk \in Key /\ row[d].epoch <= b.epoch
         /\ b.retired \in SUBSET RetiredPskEntry /\ OnePerEpoch(b.retired)
<1>1. b \in PskBundle /\ ValidateBundle(b) /\ b.epoch >= row[d].epoch
  BY DEF Inv, TypeOK, BundlesAreValid, Current
<1>2. row[d].epoch \in Nat /\ b.epoch \in Nat
  BY <1>1, RowOf DEF Row, Epoch, PskBundle
<1> QED BY <1>1, <1>2 DEF PskBundle, ValidateBundle, OnePerEpoch

LEMMA ImportBundleKeeps ==
  ASSUME Inv, NEW d \in Device, NEW b \in Current(d), ImportBundle(d, b)
  PROVE  Inv' /\ ~PskReady(row'[d])
<1>1. ApplyBundle(d, b) /\ UNCHANGED faults
  BY DEF ImportBundle
<1> QED BY <1>1, CurrentBundle, ApplyBundleKeeps

\* Cut off before AdoptChatTargetEpoch, an import leaves the old numbering in a
\* later epoch: no number of that epoch was used.
LEMMA DieInImportKeeps ==
  ASSUME Inv, NEW d \in Device, NEW b \in Current(d), DieInImport(d, b)
  PROVE  Inv' /\ ~PskReady(row'[d])
<1> DEFINE i == ImportPskBundle(row[d], b)
<1>1. row[d] \in Row /\ LedgerOK(row[d]) /\ row \in [Device -> Row]
  BY RowOf DEF Inv, TypeOK
<1>2. /\ b.epoch \in Epoch /\ b.psk \in Key /\ row[d].epoch <= b.epoch
      /\ b.retired \in SUBSET RetiredPskEntry /\ OnePerEpoch(b.retired)
  BY CurrentBundle
<1>3. i \in Row /\ LedgerOK(i) /\ i.epoch = b.epoch /\ ~PskReady(i)
  BY <1>1, <1>2, ImportKeeps
<1>4. row' = [row EXCEPT ![d] = i] /\ b.epoch # row[d].epoch
  BY DEF DieInImport
<1> HIDE DEF i
<1>5. row[d].epoch < i.epoch
  BY <1>1, <1>2, <1>3, <1>4 DEF Row, Epoch
<1>6. SentBefore(last[d], i)
  BY <1>3, <1>5, StillBefore
<1>7. Others /\ UNCHANGED last
  <2>1. faults' \in 0..MaxFaults
    BY CrashCounts DEF DieInImport
  <2> QED BY <2>1 DEF DieInImport, Others, Inv, TypeOK, BundlesAreValid
<1>8. Inv'
  BY <1>3, <1>4, <1>6, <1>7, QuietStep
<1> QED BY <1>1, <1>3, <1>4, <1>8

LEMMA MarkVerifiedKeeps ==
  ASSUME Inv, NEW d \in Device, MarkVerified(d)
  PROVE  Inv' /\ row'[d].psk = row[d].psk
<1> DEFINE n == [row[d] EXCEPT !.verified = TRUE]
<1>1. row[d] \in Row /\ LedgerOK(row[d]) /\ row \in [Device -> Row]
  BY RowOf DEF Inv, TypeOK
<1>2. row' = [row EXCEPT ![d] = n]
  BY <1>1 DEF MarkVerified
<1>3. n \in Row
  BY <1>1 DEF Row
<1>4. /\ n.epoch = row[d].epoch /\ n.seq = row[d].seq
      /\ n.psk = row[d].psk /\ n.retired = row[d].retired
  BY <1>1 DEF Row
<1> HIDE DEF n
<1>5. LedgerOK(n)
  BY <1>1, <1>4 DEF LedgerOK
<1>6. SentBefore(last[d], n)
  <2>1. row[d].seq <= n.seq
    BY <1>1, <1>4 DEF Row
  <2> QED BY <1>3, <1>4, <2>1, StillBefore
<1>7. Others /\ UNCHANGED last
  BY DEF MarkVerified, Others, Inv, TypeOK, BundlesAreValid
<1>8. Inv'
  BY <1>2, <1>3, <1>5, <1>6, <1>7, QuietStep
<1> QED BY <1>1, <1>2, <1>4, <1>8

\* The rotated row moved to its own epoch.
LEMMA RotatedAdopted ==
  ASSUME Inv, NEW d \in Device, CanRotate(d), NEW k \in Key
  PROVE  LET n == AdoptChatTargetEpoch(Rotated(row[d], k), Rotated(row[d], k).epoch)
         IN  /\ n \in Row /\ LedgerOK(n) /\ n.epoch = row[d].epoch + 1
             /\ n.psk # NoPsk
             /\ n.retired = Rotated(row[d], k).retired
             /\ ~PskReady(n)
<1> DEFINE t == Rotated(row[d], k)
           n == AdoptChatTargetEpoch(t, t.epoch)
<1>1. row[d] \in Row /\ LedgerOK(row[d]) /\ row[d].psk # NoPsk /\ row[d].epoch < MaxEpoch
  BY RowOf DEF CanRotate
<1>2. t \in Row /\ LedgerOK(t) /\ t.epoch = row[d].epoch + 1 /\ ~PskReady(t)
  BY <1>1, RotatedKeeps
<1>3. t.psk = k /\ k # NoPsk
  BY <1>1 DEF Rotated, Row, Key, NoPsk
<1> HIDE DEF t
<1>4. t.epoch \in Epoch /\ t.epoch <= t.epoch
  BY <1>2 DEF Row, Epoch
<1>5. /\ n \in Row /\ LedgerOK(n) /\ n.epoch = t.epoch /\ n.psk = t.psk
      /\ n.retired = t.retired /\ (PskReady(n) <=> PskReady(t))
  BY <1>2, <1>4, AdoptKeeps
<1> HIDE DEF n
<1>6. /\ n \in Row /\ LedgerOK(n) /\ n.epoch = row[d].epoch + 1
      /\ n.psk # NoPsk /\ n.retired = t.retired /\ ~PskReady(n)
  BY <1>2, <1>3, <1>5
<1> QED BY <1>6 DEF n, t

LEMMA RotateKeeps ==
  ASSUME Inv, NEW d \in Device, RotatePskAndExportBundle(d)
  PROVE  /\ Inv' /\ ~PskReady(row'[d])
         /\ row'[d].epoch = row[d].epoch + 1
         /\ row'[d].retired = Rotated(row[d], keys').retired
<1> DEFINE n == AdoptChatTargetEpoch(Rotated(row[d], keys'), Rotated(row[d], keys').epoch)
<1>1. row[d] \in Row /\ row \in [Device -> Row] /\ keys' \in Key /\ keys' \in 0..MaxKeys
  BY RowOf, FreshKey DEF Inv, TypeOK, RotatePskAndExportBundle
<1>2. /\ n \in Row /\ LedgerOK(n) /\ n.epoch = row[d].epoch + 1
      /\ n.psk # NoPsk
      /\ n.retired = Rotated(row[d], keys').retired
      /\ ~PskReady(n)
  BY <1>1, RotatedAdopted DEF RotatePskAndExportBundle
<1>3. row' = [row EXCEPT ![d] = n]
  BY DEF RotatePskAndExportBundle
<1> HIDE DEF n
<1>4. row[d].epoch < n.epoch
  BY <1>1, <1>2 DEF Row, Epoch
<1>5. SentBefore(last[d], n)
  BY <1>2, <1>4, StillBefore
<1>6. row'[d] = n
  BY <1>1, <1>3
<1>7. bundles' = bundles \cup {ExportPskBundle(d, n)}
  BY <1>6 DEF RotatePskAndExportBundle
<1>8. ExportPskBundle(d, n) \in PskBundle /\ ValidateBundle(ExportPskBundle(d, n))
  BY <1>2, ExportIsValid
<1>9. Others /\ UNCHANGED last
  <2>1. bundles \subseteq PskBundle /\ \A b \in bundles : ValidateBundle(b)
    BY DEF Inv, TypeOK, BundlesAreValid
  <2>2. bundles' \subseteq PskBundle /\ \A b \in bundles' : ValidateBundle(b)
    BY <1>7, <1>8, <2>1
  <2> QED BY <1>1, <2>2 DEF RotatePskAndExportBundle, Others, Inv, TypeOK
<1>10. Inv'
  BY <1>2, <1>3, <1>5, <1>9, QuietStep
<1> QED BY <1>2, <1>6, <1>10

LEMMA DieInRotateKeeps ==
  ASSUME Inv, NEW d \in Device, DieInRotate(d)
  PROVE  /\ Inv' /\ ~PskReady(row'[d])
         /\ row'[d].epoch = row[d].epoch + 1
         /\ row'[d].retired = Rotated(row[d], keys').retired
<1> DEFINE t == Rotated(row[d], keys')
<1>1. /\ row[d] \in Row /\ LedgerOK(row[d]) /\ row \in [Device -> Row]
      /\ keys' \in Key /\ keys' \in 0..MaxKeys
  BY RowOf, FreshKey DEF Inv, TypeOK, DieInRotate
<1>2. t \in Row /\ LedgerOK(t) /\ t.epoch = row[d].epoch + 1 /\ ~PskReady(t)
  BY <1>1, RotatedKeeps DEF DieInRotate, CanRotate
<1>3. row' = [row EXCEPT ![d] = t]
  BY DEF DieInRotate
<1>4. Others /\ UNCHANGED last
  <2>1. faults' \in 0..MaxFaults
    BY CrashCounts DEF DieInRotate
  <2> QED BY <1>1, <2>1 DEF DieInRotate, Others, Inv, TypeOK, BundlesAreValid
<1> HIDE DEF t
<1>5. row[d].epoch < t.epoch
  BY <1>1, <1>2 DEF Row, Epoch
<1>6. SentBefore(last[d], t)
  BY <1>2, <1>5, StillBefore
<1>7. Inv'
  BY <1>2, <1>3, <1>4, <1>6, QuietStep
<1>8. row'[d] = t
  BY <1>1, <1>3
<1> QED BY <1>2, <1>7, <1>8 DEF t

LEMMA NewSecureChatKeeps ==
  ASSUME Inv, NEW d \in Device, NewSecureChat(d),
         synced' \subseteq Device, faults' \in 0..MaxFaults
  PROVE  Inv' /\ row'[d].psk = row[d].psk
<1> DEFINE e == row[d].epoch + 1
           n == AdoptChatTargetEpoch(row[d], e)
<1>1. row[d] \in Row /\ LedgerOK(row[d]) /\ row \in [Device -> Row]
  BY RowOf DEF Inv, TypeOK
<1>2. e \in Epoch /\ row[d].epoch <= e /\ row[d].epoch < e
  BY <1>1, PskRotationAssumption DEF NewSecureChat, Row, Epoch
<1>3. row' = [row EXCEPT ![d] = n]
  BY DEF NewSecureChat
<1> HIDE DEF e
<1>4. n \in Row /\ LedgerOK(n) /\ n.epoch = e /\ n.psk = row[d].psk
  BY <1>1, <1>2, AdoptKeeps
<1> HIDE DEF n
<1>5. SentBefore(last[d], n)
  BY <1>2, <1>4, StillBefore
<1>6. Others /\ UNCHANGED last
  BY DEF NewSecureChat, Others, Inv, TypeOK, BundlesAreValid
<1>7. Inv'
  BY <1>3, <1>4, <1>5, <1>6, QuietStep
<1> QED BY <1>1, <1>3, <1>4, <1>7

LEMMA StartNewSecureChatKeeps ==
  ASSUME Inv, NEW d \in Device, StartNewSecureChat(d)
  PROVE  Inv' /\ row'[d].psk = row[d].psk
<1>1. NewSecureChat(d) /\ synced' \subseteq Device /\ faults' \in 0..MaxFaults
  BY DEF StartNewSecureChat, Inv, TypeOK
<1> QED BY <1>1, NewSecureChatKeeps

LEMMA DieInNewChatKeeps ==
  ASSUME Inv, NEW d \in Device, DieInNewChat(d)
  PROVE  Inv' /\ row'[d].psk = row[d].psk
<1>1. faults' \in 0..MaxFaults
  BY CrashCounts DEF DieInNewChat
<1>2. NewSecureChat(d) /\ synced' \subseteq Device
  BY DEF DieInNewChat, Inv, TypeOK
<1> QED BY <1>1, <1>2, NewSecureChatKeeps

\* Steps that change no row and send nothing.
LEMMA RowsUnchanged ==
  ASSUME Inv, Others, UNCHANGED <<row, last>>
  PROVE  Inv'
  BY DEF Inv, TypeOK, RowsOK, BundlesAreValid, Others

LEMMA OpenFromContactKeeps ==
  ASSUME Inv, NEW d \in Device, OpenFromContact(d)
  PROVE  Inv' /\ row'[d].psk = row[d].psk
<1>1. Others
  BY DEF OpenFromContact, Others, Inv, TypeOK, BundlesAreValid
<1> QED BY <1>1, RowsUnchanged DEF OpenFromContact

\* The number sent lies right below the next one.
LEMMA SendKeeps ==
  ASSUME Inv, NEW d \in Device, Send(d)
  PROVE  Inv' /\ row'[d].psk = row[d].psk
<1> DEFINE n == [row[d] EXCEPT !.seq = row[d].seq + 1]
           key == ResolveMasterPskForEpoch(row[d], row[d].epoch)
           m == [epoch |-> row[d].epoch, seq |-> row[d].seq, psk |-> key]
<1>1. row[d] \in Row /\ LedgerOK(row[d]) /\ row \in [Device -> Row]
  BY RowOf DEF Inv, TypeOK
<1>2. row[d].psk # NoPsk
  BY DEF Send, PskReady
<1>3. row' = [row EXCEPT ![d] = n] /\ last' = [last EXCEPT ![d] = m]
  BY <1>1 DEF Send
<1>4. key \in Key
  <2>1. key = row[d].psk
    BY <1>1, <1>2, ActiveResolves
  <2> QED BY <1>1, <1>2, <2>1 DEF Row
<1> HIDE DEF key
<1>5. m \in Message
  BY <1>1, <1>4 DEF Row, Message
<1>6. n \in Row
  <2> DEFINE next == row[d].seq + 1
  <2>1. next \in Nat \ {0}
    BY <1>1 DEF Row
  <2> HIDE DEF next
  <2> QED BY <1>1, <2>1 DEF Row, next
<1>7. /\ n.epoch = row[d].epoch /\ n.seq = row[d].seq + 1
      /\ n.psk = row[d].psk /\ n.retired = row[d].retired
  BY <1>1 DEF Row
<1>8. m.epoch = row[d].epoch /\ m.seq = row[d].seq
  OBVIOUS
<1> HIDE DEF n, m
<1>9. LedgerOK(n)
  BY <1>1, <1>7 DEF LedgerOK
<1>10. SentBefore(m, n)
  BY <1>1, <1>7, <1>8 DEF SentBefore, Row, Epoch
<1>11. Others
  BY DEF Send, Others, Inv, TypeOK, BundlesAreValid
<1>12. Inv'
  BY <1>3, <1>5, <1>6, <1>9, <1>10, <1>11, RowStep
<1> QED BY <1>1, <1>3, <1>7, <1>12

-----------------------------------------------------------------------------
(***************************************************************************)
(* The invariant, and what follows from it.                                *)
(***************************************************************************)

LEMMA InitInv == Init => Inv
<1> SUFFICES ASSUME Init PROVE Inv
  OBVIOUS
<1> DEFINE first == [epoch |-> 1, seq |-> 1, psk |-> NoPsk, verified |-> FALSE, retired |-> {}]
<1>1. first \in Row
  BY PskRotationAssumption DEF Row, Epoch
<1>2. TypeOK
  <2>1. row \in [Device -> Row]
    BY <1>1 DEF Init
  <2>2. last \in [Device -> Message \cup {NoMessage}]
    BY DEF Init
  <2>3. keys \in 0..MaxKeys /\ faults \in 0..MaxFaults
    BY PskRotationAssumption DEF Init
  <2> QED BY <2>1, <2>2, <2>3 DEF Init, TypeOK
<1>3. RowsOK
  BY DEF Init, RowsOK, LedgerOK, SentBefore, OnePerEpoch
<1> QED BY <1>2, <1>3 DEF Inv, Init, BundlesAreValid

LEMMA NextInv == Inv /\ [Next]_vars => Inv'
<1> SUFFICES ASSUME Inv, [Next]_vars PROVE Inv'
  OBVIOUS
<1>1. CASE UNCHANGED vars
  <2>1. Others /\ UNCHANGED <<row, last>>
    BY <1>1 DEF vars, Others, Inv, TypeOK, BundlesAreValid
  <2> QED BY <2>1, RowsUnchanged
<1>2. ASSUME NEW d \in Device, EnsureGenerated(d) PROVE Inv'
  BY <1>2, EnsureGeneratedKeeps
<1>3. ASSUME NEW d \in Device, MarkVerified(d) PROVE Inv'
  BY <1>3, MarkVerifiedKeeps
<1>4. ASSUME NEW d \in Device, NEW psk \in Key, ImportRaw(d, psk) PROVE Inv'
  BY <1>4, ImportRawKeeps
<1>5. ASSUME NEW d \in Device, NEW b \in Current(d), ImportBundle(d, b) PROVE Inv'
  BY <1>5, ImportBundleKeeps
<1>6. ASSUME NEW d \in Device, NEW b \in Current(d), DieInImport(d, b) PROVE Inv'
  BY <1>6, DieInImportKeeps
<1>7. ASSUME NEW d \in Device, RotatePskAndExportBundle(d) PROVE Inv'
  BY <1>7, RotateKeeps
<1>8. ASSUME NEW d \in Device, DieInRotate(d) PROVE Inv'
  BY <1>8, DieInRotateKeeps
<1>9. ASSUME NEW d \in Device, StartNewSecureChat(d) PROVE Inv'
  BY <1>9, StartNewSecureChatKeeps
<1>10. ASSUME NEW d \in Device, DieInNewChat(d) PROVE Inv'
  BY <1>10, DieInNewChatKeeps
<1>11. ASSUME NEW d \in Device, OpenFromContact(d) PROVE Inv'
  BY <1>11, OpenFromContactKeeps
<1>12. ASSUME NEW d \in Device, Send(d) PROVE Inv'
  BY <1>12, SendKeeps
<1> QED BY <1>1, <1>2, <1>3, <1>4, <1>5, <1>6, <1>7, <1>8, <1>9, <1>10, <1>11, <1>12 DEF Next

\* In every reachable state each ledger holds keys of earlier epochs, one for
\* each, no device has sent a number its row may give again, and every exported
\* bundle is valid.
THEOREM Invariance == Spec => []Inv
  BY InitInv, NextInv, PTL DEF Spec

\* Type correctness.
THEOREM TypeCorrect == Spec => []TypeOK
<1>1. Inv => TypeOK
  BY DEF Inv
<1> QED BY <1>1, Invariance, PTL

\* No device sends two messages under one number: AllocateSenderSeq's next number
\* was not sent in this epoch, whatever a rotation, an import or a crash did.
THEOREM NumbersAreFresh == Spec => []NextIsUnused
<1>1. Inv => NextIsUnused
  BY DEF Inv, RowsOK, SentBefore, NextIsUnused
<1> QED BY <1>1, Invariance, PTL

\* ResolveMasterPskForEpoch gives no key for an epoch past the chat's.
THEOREM NoKeyAhead == Spec => []NoLaterKey
<1>1. Inv => NoLaterKey
  <2> SUFFICES ASSUME Inv, NEW d \in Device, NEW e \in Epoch, e > row[d].epoch
               PROVE  ResolveMasterPskForEpoch(row[d], e) = NoPsk
    BY DEF NoLaterKey
  <2>1. row[d] \in Row /\ LedgerOK(row[d])
    BY RowOf
  <2>2. \A x \in row[d].retired : x.epoch # e
    BY <2>1 DEF LedgerOK, Row, RetiredPskEntry, Epoch
  <2>3. e # row[d].epoch
    BY <2>1 DEF Row, Epoch
  <2> QED BY <2>2, <2>3 DEF ResolveMasterPskForEpoch
<1> QED BY <1>1, Invariance, PTL

\* Every bundle RotatePskAndExportBundle exports passes ValidateBundle on both
\* sides: for any limit the capped tail is within it.
THEOREM ExportsAreValid == Spec => []BundlesAreValid
<1>1. Inv => BundlesAreValid
  BY DEF Inv
<1> QED BY <1>1, Invariance, PTL

\* Whatever makes a key makes it unverified: no step both changes a device's key
\* and leaves it ready to send.
THEOREM VerificationIsOfTheKey == Spec => NewKeyIsUnverified
<1>1. ASSUME Inv, Next, NEW d \in Device, row'[d].psk # row[d].psk
      PROVE  ~PskReady(row'[d])
  <2>1. PICK p \in Device :
          \/ EnsureGenerated(p) \/ MarkVerified(p)
          \/ \E psk \in Key : ImportRaw(p, psk)
          \/ \E b \in Current(p) : ImportBundle(p, b) \/ DieInImport(p, b)
          \/ RotatePskAndExportBundle(p) \/ DieInRotate(p)
          \/ StartNewSecureChat(p) \/ DieInNewChat(p)
          \/ OpenFromContact(p)
          \/ Send(p)
    BY <1>1 DEF Next
  <2>2. p = d
    <3>1. p # d => row'[d] = row[d]
      BY <1>1, <2>1
         DEF EnsureGenerated, MarkVerified, ImportRaw, ImportBundle, ApplyBundle, DieInImport,
             RotatePskAndExportBundle, DieInRotate, StartNewSecureChat, DieInNewChat,
             NewSecureChat, OpenFromContact, Send, Inv, TypeOK
    <3> QED BY <1>1, <3>1
  <2> QED BY <1>1, <2>1, <2>2, EnsureGeneratedKeeps, ImportRawKeeps, ImportBundleKeeps,
             DieInImportKeeps, RotateKeeps, DieInRotateKeeps, MarkVerifiedKeeps,
             StartNewSecureChatKeeps, DieInNewChatKeeps, OpenFromContactKeeps, SendKeeps
<1>2. Inv /\ [Next]_vars
      => [\A d \in Device : row'[d].psk # row[d].psk => ~PskReady(row'[d])]_vars
  BY <1>1
<1> QED BY <1>2, Invariance, PTL DEF Spec, NewKeyIsUnverified

\* What the rotated row still resolves.
LEMMA RotatedResolves ==
  ASSUME NEW r \in Row, LedgerOK(r), r.psk # NoPsk, r.epoch < MaxEpoch, NEW k \in Key,
         NEW n \in Row, LedgerOK(n), n.epoch = r.epoch + 1, n.retired = Rotated(r, k).retired,
         NEW e \in Epoch, e + MaxRetired >= n.epoch,
         ResolveMasterPskForEpoch(r, e) # NoPsk
  PROVE  ResolveMasterPskForEpoch(n, e) = ResolveMasterPskForEpoch(r, e)
<1> DEFINE active == [epoch |-> r.epoch, psk |-> r.psk]
           all == r.retired \cup {active}
<1>1. r.epoch \in Nat /\ e \in Nat /\ MaxRetired \in Nat /\ active \in RetiredPskEntry
  BY PskRotationAssumption DEF Row, RetiredPskEntry, Epoch
<1>2. all \in SUBSET RetiredPskEntry /\ OnePerEpoch(r.retired)
  BY <1>1 DEF Row, LedgerOK
<1>3. active.epoch = r.epoch /\ active.psk = r.psk
  OBVIOUS
<1>4. \A x \in r.retired : x.epoch < r.epoch /\ x.epoch \in Nat
  BY DEF LedgerOK, Row, RetiredPskEntry, Epoch
<1>5. n.retired = CapRetiredTail(all, r.epoch + 1)
  BY DEF Rotated, Row
<1> HIDE DEF active
<1>6. OnePerEpoch(all) /\ \A x \in all : x.epoch <= r.epoch
  BY <1>1, <1>2, <1>3, <1>4 DEF OnePerEpoch
<1>7. PICK x \in all : x.epoch = e /\ x.psk = ResolveMasterPskForEpoch(r, e)
  <2>1. CASE e = r.epoch
    BY <1>3, <2>1, ActiveResolves
  <2>2. CASE e # r.epoch
    <3>1. PICK x \in r.retired : x.epoch = e
      BY <2>2 DEF ResolveMasterPskForEpoch
    <3>2. ResolveMasterPskForEpoch(r, x.epoch) = x.psk
      BY <1>2, <2>2, <3>1, EntryResolves
    <3> QED BY <3>1, <3>2
  <2> QED BY <2>1, <2>2
<1> HIDE DEF all
<1>8. x.epoch + MaxRetired >= r.epoch + 1
  BY <1>7
<1>9. x \in n.retired
  BY <1>1, <1>2, <1>5, <1>6, <1>7, <1>8, CapKeepsTail
<1>10. OnePerEpoch(n.retired) /\ x.epoch # n.epoch
  BY <1>9 DEF LedgerOK, Row, RetiredPskEntry, Epoch
<1> QED BY <1>7, <1>9, <1>10, EntryResolves

\* RotatePskAndExportBundle, and a crash in it, keep the key of every one of the
\* last MaxRetired epochs that had one.
THEOREM NoKeyIsLost == Spec => RotationKeepsTail
<1> DEFINE Kept(d, e) ==
             /\ keys' # keys
             /\ e + MaxRetired >= row'[d].epoch
             /\ ResolveMasterPskForEpoch(row[d], e) # NoPsk
             => ResolveMasterPskForEpoch(row'[d], e) = ResolveMasterPskForEpoch(row[d], e)
<1>1. ASSUME Inv, Next, NEW d \in Device, NEW e \in Epoch PROVE Kept(d, e)
  <2> SUFFICES ASSUME keys' # keys, e + MaxRetired >= row'[d].epoch,
                      ResolveMasterPskForEpoch(row[d], e) # NoPsk
               PROVE  ResolveMasterPskForEpoch(row'[d], e) = ResolveMasterPskForEpoch(row[d], e)
    OBVIOUS
  <2>1. PICK p \in Device :
          EnsureGenerated(p) \/ RotatePskAndExportBundle(p) \/ DieInRotate(p)
    BY <1>1 DEF Next, MarkVerified, ImportRaw, ImportBundle, ApplyBundle, DieInImport,
                StartNewSecureChat, DieInNewChat, NewSecureChat, OpenFromContact, Send
  <2>2. CASE p # d
    <3>1. row'[d] = row[d]
      BY <1>1, <2>1, <2>2
         DEF EnsureGenerated, RotatePskAndExportBundle, DieInRotate, Inv, TypeOK
    <3> QED BY <3>1
  <2>3. CASE p = d /\ EnsureGenerated(d)
    <3>1. row[d].psk = NoPsk /\ row[d].retired = {}
      BY <1>1, <2>3, RowOf DEF EnsureGenerated, LedgerOK
    <3> QED BY <3>1 DEF ResolveMasterPskForEpoch
  <2>4. CASE p = d /\ (RotatePskAndExportBundle(d) \/ DieInRotate(d))
    <3>1. /\ Inv' /\ row'[d].epoch = row[d].epoch + 1
          /\ row'[d].retired = Rotated(row[d], keys').retired
      BY <1>1, <2>4, RotateKeeps, DieInRotateKeeps
    <3>2. row[d] \in Row /\ LedgerOK(row[d])
      BY <1>1, RowOf
    <3>3. row'[d] \in Row /\ LedgerOK(row'[d])
      BY <3>1 DEF Inv, TypeOK, RowsOK, LedgerOK, OnePerEpoch
    <3>4. row[d].psk # NoPsk /\ row[d].epoch < MaxEpoch /\ keys' \in Key
      BY <1>1, <2>4, FreshKey DEF RotatePskAndExportBundle, DieInRotate, CanRotate
    <3> QED BY <3>1, <3>2, <3>3, <3>4, RotatedResolves
  <2> QED BY <2>1, <2>2, <2>3, <2>4
<1>2. Inv /\ [Next]_vars
      => [\A d \in Device, e \in Epoch :
            /\ keys' # keys
            /\ e + MaxRetired >= row'[d].epoch
            /\ ResolveMasterPskForEpoch(row[d], e) # NoPsk
            => ResolveMasterPskForEpoch(row[d], e)' = ResolveMasterPskForEpoch(row[d], e)]_vars
  <2>1. \A d \in Device, e \in Epoch : ResolveMasterPskForEpoch(row[d], e)' = ResolveMasterPskForEpoch(row'[d], e)
    BY DEF ResolveMasterPskForEpoch
  <2> QED BY <1>1, <2>1
<1> QED BY <1>2, Invariance, PTL DEF Spec, RotationKeepsTail
=============================================================================
