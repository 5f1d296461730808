------------------------------ MODULE OutboxProofs ------------------------------
(***************************************************************************)
(* Proofs about Outbox, for any number of messages, records, batches and   *)
(* retries.                                                                *)
(*                                                                         *)
(* What makes them go through: a batch that is not running holds nothing   *)
(* (Shape), nothing holds a record before its message is composed          *)
(* (Composed), and an outcome that says delivered is of a record a         *)
(* transport confirmed (ReportsTrue).                                      *)
(***************************************************************************)
EXTENDS Outbox, TLAPS

\* What a batch holds at each point of its work.
Shape ==
  \A d \in Drains :
    /\ drains[d].at = "idle" => drains[d] = Idle
    /\ drains[d].at \in {"idle", "posted", "next"} => drains[d].cur = None
    /\ drains[d].at = "posted" => drains[d].still = {}
    /\ drains[d].at \in {"direct", "relay"} => drains[d].cur \in Records

\* A message that was not composed has no records anywhere.
Composed ==
  \A r \in Records :
    KindOf(r) = "none" => ~Held(r) /\ r \notin taken /\ r \notin stopped

\* An outcome says delivered of a record a transport has confirmed.
ReportsTrue == \A p \in reports : p.ok => p.rec \in taken

-----------------------------------------------------------------------------
(***************************************************************************)
(* Types.                                                                  *)
(***************************************************************************)


\* The outcomes a report adds are outcomes.
LEMMA ReportIsTyped ==
  ASSUME NEW r \in Records, NEW by \in {"send", "retry"}, NEW ok \in BOOLEAN
  PROVE  /\ Report(r, by, ok) \subseteq ReportType
         /\ \A p \in Report(r, by, ok) : p.rec = r /\ p.ok = ok
  BY DEF Report, ReportType

LEMMA InitType == Init => TypeOK /\ Shape
<1> SUFFICES ASSUME Init PROVE TypeOK /\ Shape
  OBVIOUS
<1>1. drains = [d \in Drains |-> Idle] /\ Idle \in DrainType
  BY DEF Init, Idle, DrainType
<1>2. drains \in [Drains -> DrainType]
  BY <1>1
<1>3. Shape
  BY <1>1 DEF Shape, Idle
<1>4. /\ reports = {} /\ queue = {} /\ timers = {} /\ fired = {} /\ expired = {}
      /\ taken = {} /\ stopped = {} /\ lost = {} /\ faults = 0
      /\ paused \in BOOLEAN /\ relay \in BOOLEAN
  BY DEF Init
<1>5. attempts \in [Records -> 0..MaxAttempts] /\ faults \in 0..MaxFaults
      /\ sent \in [Records -> Nat]
  BY <1>4, OutboxAssumption DEF Init
<1>6. /\ kind \in [Messages -> Kinds \cup {"none"}]
      /\ row \in [Messages -> {"none", "pending", "relayed", "failed", "deleted"}]
      /\ sending \in [Records -> {"none", "posted", "direct", "direct-only", "relay"}]
  BY DEF Init
<1> QED BY <1>2, <1>3, <1>4, <1>5, <1>6 DEF TypeOK

\* What the steps of a batch make of it.
LEMMA StartsTo ==
  ASSUME TypeOK, NEW d \in Drains, DrainStarts(d)
  PROVE  /\ drains' \in [Drains -> DrainType]
         /\ \A e \in Drains \ {d} : drains'[e] = drains[e]
         /\ \/ /\ drains'[d].at = "next" /\ drains'[d].todo = drains[d].todo
               /\ drains'[d].cur = drains[d].cur /\ drains'[d].still = drains[d].still
               /\ queue' = queue
            \/ drains'[d] = Idle /\ queue' = queue \cup drains[d].todo
<1>1. drains \in [Drains -> DrainType] /\ drains[d] \in DrainType
  BY DEF TypeOK
<1>2. Idle \in DrainType
  BY DEF Idle, DrainType
<1>3. CASE relay
  <2>1. drains' = [drains EXCEPT ![d].at = "next"]
    BY <1>3 DEF DrainStarts
  <2> queue' = queue
    BY <1>3 DEF DrainStarts
  <2>2. drains'[d] = [at |-> "next", todo |-> drains[d].todo,
                      cur |-> drains[d].cur, still |-> drains[d].still]
    BY <1>1, <2>1 DEF DrainType
  <2>3. drains'[d] \in DrainType
    BY <1>1, <2>2 DEF DrainType
  <2> QED BY <1>1, <1>3, <2>1, <2>2, <2>3
<1>4. CASE ~relay
  BY <1>1, <1>2, <1>4 DEF DrainStarts
<1> QED BY <1>3, <1>4

LEMMA PicksTo ==
  ASSUME TypeOK, NEW d \in Drains, NEW r \in Records, NEW reachable \in BOOLEAN,
         DrainPicks(d, r, reachable)
  PROVE  /\ drains' \in [Drains -> DrainType]
         /\ \A e \in Drains \ {d} : drains'[e] = drains[e]
         /\ drains'[d].todo = drains[d].todo \ {r}
         /\ drains'[d].still = drains[d].still
         /\ \/ drains'[d].cur = None /\ drains'[d].at = "next"
            \/ drains'[d].cur = r /\ drains'[d].at \in {"direct", "relay"}
<1>1. drains \in [Drains -> DrainType] /\ drains[d] \in DrainType
  BY DEF TypeOK
<1> DEFINE stays == paused /\ KindOf(r) = "direct"
           cur == IF stays THEN None ELSE r
           at == IF stays THEN "next" ELSE IF reachable THEN "direct" ELSE "relay"
<1>2. drains' = [drains EXCEPT ![d].todo = @ \ {r}, ![d].cur = cur, ![d].at = at]
  BY DEF DrainPicks
<1>3. /\ cur \in Records \cup {None}
      /\ at \in {"next", "direct", "relay"}
      /\ \/ cur = None /\ at = "next"
         \/ cur = r /\ at \in {"direct", "relay"}
  OBVIOUS
<1> HIDE DEF stays, cur, at
<1>4. drains'[d] = [at |-> at, todo |-> drains[d].todo \ {r}, cur |-> cur,
                    still |-> drains[d].still]
  BY <1>1, <1>2 DEF DrainType
<1>5. drains'[d] \in DrainType
  BY <1>1, <1>3, <1>4 DEF DrainType
<1>6. \A e \in Drains \ {d} : drains'[e] = drains[e]
  BY <1>1, <1>2
<1>7. drains' \in [Drains -> DrainType]
  BY <1>1, <1>2, <1>5, <1>6
<1> QED BY <1>3, <1>4, <1>6, <1>7

LEMMA DirectTo ==
  ASSUME TypeOK, NEW d \in Drains, NEW ok \in BOOLEAN, DrainDirectDone(d, ok)
  PROVE  /\ drains' \in [Drains -> DrainType]
         /\ \A e \in Drains \ {d} : drains'[e] = drains[e]
         /\ drains'[d].todo = drains[d].todo
         /\ drains'[d].still = drains[d].still
         /\ drains'[d].cur = IF ok THEN None ELSE drains[d].cur
         /\ drains'[d].at = IF ok THEN "next" ELSE "relay"
<1>1. drains \in [Drains -> DrainType] /\ drains[d] \in DrainType
  BY DEF TypeOK
<1>2. CASE ok
  <2>1. drains' = [drains EXCEPT ![d].at = "next", ![d].cur = None]
    BY <1>2 DEF DrainDirectDone
  <2>2. drains'[d] = [at |-> "next", todo |-> drains[d].todo, cur |-> None,
                      still |-> drains[d].still]
    BY <1>1, <2>1 DEF DrainType
  <2>3. drains'[d] \in DrainType
    BY <1>1, <2>2 DEF DrainType
  <2> QED BY <1>1, <1>2, <2>1, <2>2, <2>3
<1>3. CASE ~ok
  <2>1. drains' = [drains EXCEPT ![d].at = "relay"]
    BY <1>3 DEF DrainDirectDone
  <2>2. drains'[d] = [at |-> "relay", todo |-> drains[d].todo, cur |-> drains[d].cur,
                      still |-> drains[d].still]
    BY <1>1, <2>1 DEF DrainType
  <2>3. drains'[d] \in DrainType
    BY <1>1, <2>2 DEF DrainType
  <2> QED BY <1>1, <1>3, <2>1, <2>2, <2>3
<1> QED BY <1>2, <1>3

Again(d, answer) == answer # "ok" /\ OutboxRetryAgain(attempts[drains[d].cur], answer)

LEMMA RelaysTo ==
  ASSUME TypeOK, Shape, NEW d \in Drains, NEW answer \in RelayAnswers, DrainRelays(d, answer)
  PROVE  /\ drains' \in [Drains -> DrainType]
         /\ \A e \in Drains \ {d} : drains'[e] = drains[e]
         /\ drains'[d].todo = drains[d].todo
         /\ drains'[d].still = IF Again(d, answer) THEN drains[d].still \cup {drains[d].cur}
                               ELSE drains[d].still
         /\ drains'[d].cur = None
         /\ drains'[d].at = "next"
         /\ drains[d].cur \in Records
<1>1. drains \in [Drains -> DrainType] /\ drains[d] \in DrainType
  BY DEF TypeOK
<1>2. drains[d].cur \in Records
  BY DEF DrainRelays, Shape
<1> DEFINE still == IF Again(d, answer) THEN drains[d].still \cup {drains[d].cur}
                    ELSE drains[d].still
<1>3. drains' = [drains EXCEPT ![d].at = "next", ![d].cur = None, ![d].still = still]
  BY DEF DrainRelays, Again
<1>4. still \in SUBSET Records
  BY <1>1, <1>2 DEF DrainType
<1> HIDE DEF still
<1>5. drains'[d] = [at |-> "next", todo |-> drains[d].todo, cur |-> None, still |-> still]
  BY <1>1, <1>3 DEF DrainType
<1>6. drains'[d] \in DrainType
  BY <1>1, <1>4, <1>5 DEF DrainType
<1>7. \A e \in Drains \ {d} : drains'[e] = drains[e]
  BY <1>1, <1>3
<1>8. drains' \in [Drains -> DrainType]
  BY <1>1, <1>3, <1>6, <1>7
<1> QED BY <1>2, <1>5, <1>7, <1>8 DEF still

\* Every step keeps the types.
LEMMA TypeStep ==
  ASSUME TypeOK, Shape, [Next]_vars
  PROVE  TypeOK'
<1>1. ASSUME NEW m \in Messages, NEW k \in Kinds,
            Compose(m, k)
     PROVE  TypeOK'
  BY <1>1, OutboxAssumption
       DEF Compose, TypeOK, RecordsOf, Kinds, vars, work, rows, world, history
<1>2. ASSUME NEW m \in Messages,
            Cancel(m)
     PROVE  TypeOK'
  BY <1>2, OutboxAssumption
       DEF Cancel, Drop, TypeOK, vars, work, rows, world, history
<1>3. ASSUME PauseIntegrityOnly PROVE TypeOK'
  BY <1>3, OutboxAssumption
       DEF PauseIntegrityOnly, Purge, Drop, TypeOK, vars, work, rows, world, history
<1>4. ASSUME StartNewSecureChat PROVE TypeOK'
  BY <1>4, OutboxAssumption
       DEF StartNewSecureChat, Purge, Drop, TypeOK, vars, work, rows, world, history
<1>5. ASSUME NEW r \in Records, NEW reachable \in BOOLEAN, NEW routed \in BOOLEAN,
            SendDecides(r, reachable, routed)
     PROVE  TypeOK'
  <2>1. sending' \in [Records -> {"none", "posted", "direct", "direct-only", "relay"}]
    BY <1>5 DEF SendDecides, TypeOK
  <2>2. reports' \subseteq ReportType
    BY <1>5, ReportIsTyped DEF SendDecides, TypeOK
  <2> QED BY <1>5, <2>1, <2>2 DEF SendDecides, TypeOK, world, history
<1>6. ASSUME NEW r \in Records, NEW ok \in BOOLEAN,
            DirectDone(r, ok)
     PROVE  TypeOK'
  <2>1. reports' \subseteq ReportType
    BY <1>6, ReportIsTyped DEF DirectDone, TypeOK
  <2>2. sending' \in [Records -> {"none", "posted", "direct", "direct-only", "relay"}]
    BY <1>6 DEF DirectDone, TypeOK
  <2> QED BY <1>6, <2>1, <2>2 DEF DirectDone, TypeOK, world
<1>7. ASSUME NEW r \in Records, NEW answer \in RelayAnswers,
            RelaySend(r, answer)
     PROVE  TypeOK'
  <2>1. /\ sending' \in [Records -> {"none", "posted", "direct", "direct-only", "relay"}]
        /\ sent' \in [Records -> Nat]
        /\ taken' \subseteq Records
    BY <1>7 DEF RelaySend, TypeOK, CountSend
  <2>2. attempts' \in [Records -> 0..MaxAttempts]
    BY <1>7, OutboxAssumption DEF RelaySend, TypeOK
  <2>3. queue' \subseteq Records /\ timers' \subseteq Records
    BY <1>7 DEF RelaySend, TypeOK
  <2>4. reports' \subseteq ReportType
    <3>1. (answer = "ok") \in BOOLEAN
      OBVIOUS
    <3> QED BY <1>7, <3>1, ReportIsTyped DEF RelaySend, TypeOK
  <2> QED BY <1>7, <2>1, <2>2, <2>3, <2>4 DEF RelaySend, TypeOK, world
<1>8. ASSUME NEW r \in Records,
            TimerFires(r)
     PROVE  TypeOK'
  BY <1>8, OutboxAssumption DEF TimerFires, TypeOK, vars, work, rows, world, history
<1>9. ASSUME NEW r \in Records, NEW answer \in RelayAnswers,
            RetryControlNow(r, answer)
     PROVE  TypeOK'
  BY <1>9, OutboxAssumption
       DEF RetryControlNow, TypeOK, Count, vars, work, rows, world, history
<1>10. ASSUME NEW r \in Records,
            Expires(r)
     PROVE  TypeOK'
  BY <1>10, OutboxAssumption DEF Expires, TypeOK, vars, work, rows, world, history
<1>11. ASSUME NEW d \in Drains,
            Wake(d)
     PROVE  TypeOK'
  BY <1>11, OutboxAssumption
       DEF Wake, TypeOK, DrainType, Idle, vars, work, rows, world, history
<1>12. ASSUME NEW d \in Drains,
            DrainStarts(d)
     PROVE  TypeOK'
  <2>1. drains' \in [Drains -> DrainType] /\ drains[d] \in DrainType
    BY <1>12, StartsTo DEF TypeOK
  <2>2. queue' \subseteq Records
    BY <1>12, <2>1 DEF DrainStarts, TypeOK, DrainType
  <2> QED BY <1>12, <2>1, <2>2 DEF DrainStarts, TypeOK, rows, world, history
<1>13. ASSUME NEW d \in Drains, NEW r \in Records, NEW reachable \in BOOLEAN,
            DrainPicks(d, r, reachable)
     PROVE  TypeOK'
  <2>1. drains' \in [Drains -> DrainType]
    BY <1>13, PicksTo
  <2> QED BY <1>13, <2>1 DEF DrainPicks, TypeOK, rows, world, history
<1>14. ASSUME NEW d \in Drains,
            DrainEnds(d)
     PROVE  TypeOK'
  BY <1>14, OutboxAssumption
       DEF DrainEnds, TypeOK, DrainType, Idle, vars, work, rows, world, history
<1>15. ASSUME NEW d \in Drains, NEW ok \in BOOLEAN,
            DrainDirectDone(d, ok)
     PROVE  TypeOK'
  <2>1. drains' \in [Drains -> DrainType] /\ drains[d].cur \in Records
    BY <1>15, DirectTo DEF DrainDirectDone, Shape
  <2>2. Report(drains[d].cur, "retry", TRUE) \subseteq ReportType
    BY <2>1, ReportIsTyped
  <2>3. reports' \subseteq ReportType /\ taken' \subseteq Records
    BY <1>15, <2>1, <2>2 DEF DrainDirectDone, TypeOK
  <2> QED BY <1>15, <2>1, <2>3 DEF DrainDirectDone, TypeOK, world
<1>16. ASSUME NEW d \in Drains, NEW answer \in RelayAnswers,
            DrainRelays(d, answer)
     PROVE  TypeOK'
  <2>1. drains' \in [Drains -> DrainType] /\ drains[d].cur \in Records
    BY <1>16, RelaysTo
  <2>2. attempts' \in [Records -> 0..MaxAttempts]
    BY <1>16, <2>1, OutboxAssumption DEF DrainRelays, TypeOK, OutboxRetryAgain
  <2>3. sent' \in [Records -> Nat] /\ taken' \subseteq Records
    BY <1>16, <2>1 DEF DrainRelays, TypeOK, CountSend
  <2>4. reports' \subseteq ReportType
    <3>1. (answer = "ok") \in BOOLEAN
      OBVIOUS
    <3> QED BY <1>16, <2>1, <3>1, ReportIsTyped DEF DrainRelays, TypeOK
  <2> QED BY <1>16, <2>1, <2>2, <2>3, <2>4 DEF DrainRelays, TypeOK, world
<1>17. ASSUME NEW p \in reports,
            Look(p)
     PROVE  TypeOK'
  BY <1>17, OutboxAssumption
       DEF Look, TypeOK, ReportType, vars, work, rows, world, history
<1>18. ASSUME NEW p \in reports,
            Mark(p)
     PROVE  TypeOK'
  BY <1>18, OutboxAssumption
       DEF Mark, TypeOK, Outcome, vars, work, rows, world, history
<1>19. ASSUME Compromise PROVE TypeOK'
  BY <1>19, OutboxAssumption
       DEF Compromise, TypeOK, vars, work, rows, world, history
<1>20. ASSUME PublicKeyRotates PROVE TypeOK'
  BY <1>20, OutboxAssumption
       DEF PublicKeyRotates, Purge, Drop, TypeOK, vars, work, rows, world, history
<1>21. ASSUME RelayGoes PROVE TypeOK'
  <2>1. faults' \in 0..MaxFaults
    BY <1>21, OutboxAssumption DEF RelayGoes, TypeOK
  <2> QED BY <1>21, <2>1 DEF RelayGoes, TypeOK, work, rows, history
<1>22. ASSUME RelayComes PROVE TypeOK'
  BY <1>22, OutboxAssumption
       DEF RelayComes, TypeOK, vars, work, rows, world, history
<1>23. ASSUME Restart PROVE TypeOK'
  BY <1>23, OutboxAssumption
       DEF Restart, TypeOK, DrainType, Idle, vars, work, rows, world, history
<1>24. ASSUME UNCHANGED vars PROVE TypeOK'
  BY <1>24 DEF TypeOK, vars, work, rows, world, history
<1> QED BY <1>1, <1>2, <1>3, <1>4, <1>5, <1>6, <1>7, <1>8, <1>9, <1>10, <1>11,
           <1>12, <1>13, <1>14, <1>15, <1>16, <1>17, <1>18, <1>19, <1>20,
           <1>21, <1>22, <1>23, <1>24
           DEF Next, User, SendStep, ControlStep, DrainStep, ReportStep

\* Every step keeps the shape of the batches.
LEMMA ShapeStep ==
  ASSUME TypeOK, Shape, [Next]_vars
  PROVE  Shape'
<1>1. ASSUME NEW m \in Messages, NEW k \in Kinds,
            Compose(m, k)
     PROVE  Shape'
  BY <1>1, OutboxAssumption
       DEF Compose, TypeOK, DrainType, Idle, Shape, vars, work, rows, world, history
<1>2. ASSUME NEW m \in Messages,
            Cancel(m)
     PROVE  Shape'
  BY <1>2, OutboxAssumption
       DEF Cancel, Drop, TypeOK, DrainType, Idle, Shape, vars, work, rows, world,
           history
<1>3. ASSUME PauseIntegrityOnly PROVE Shape'
  BY <1>3, OutboxAssumption
       DEF PauseIntegrityOnly, Purge, Drop, TypeOK, DrainType, Idle, Shape, vars,
           work, rows, world, history
<1>4. ASSUME StartNewSecureChat PROVE Shape'
  BY <1>4, OutboxAssumption
       DEF StartNewSecureChat, Purge, Drop, TypeOK, DrainType, Idle, Shape, vars,
           work, rows, world, history
<1>5. ASSUME NEW r \in Records, NEW reachable \in BOOLEAN, NEW routed \in BOOLEAN,
            SendDecides(r, reachable, routed)
     PROVE  Shape'
  BY <1>5, OutboxAssumption
       DEF SendDecides, TypeOK, DrainType, Idle, Shape, vars, work, rows, world,
           history
<1>6. ASSUME NEW r \in Records, NEW ok \in BOOLEAN,
            DirectDone(r, ok)
     PROVE  Shape'
  BY <1>6, OutboxAssumption
       DEF DirectDone, TypeOK, DrainType, Idle, Shape, vars, work, rows, world,
           history
<1>7. ASSUME NEW r \in Records, NEW answer \in RelayAnswers,
            RelaySend(r, answer)
     PROVE  Shape'
  BY <1>7, OutboxAssumption
       DEF RelaySend, TypeOK, DrainType, Idle, Shape, vars, work, rows, world,
           history
<1>8. ASSUME NEW r \in Records,
            TimerFires(r)
     PROVE  Shape'
  BY <1>8, OutboxAssumption
       DEF TimerFires, TypeOK, DrainType, Idle, Shape, vars, work, rows, world,
           history
<1>9. ASSUME NEW r \in Records, NEW answer \in RelayAnswers,
            RetryControlNow(r, answer)
     PROVE  Shape'
  BY <1>9, OutboxAssumption
       DEF RetryControlNow, TypeOK, DrainType, Idle, Shape, vars, work, rows, world,
           history
<1>10. ASSUME NEW r \in Records,
            Expires(r)
     PROVE  Shape'
  BY <1>10, OutboxAssumption
       DEF Expires, TypeOK, DrainType, Idle, Shape, vars, work, rows, world, history
<1>11. ASSUME NEW d \in Drains,
            Wake(d)
     PROVE  Shape'
  BY <1>11, OutboxAssumption
       DEF Wake, TypeOK, DrainType, Idle, Shape, vars, work, rows, world, history
<1>12. ASSUME NEW d \in Drains,
            DrainStarts(d)
     PROVE  Shape'
  <2>1. drains[d].at = "posted" /\ drains[d].cur = None
    BY <1>12 DEF DrainStarts, Shape
  <2>2. Idle.at = "idle" /\ Idle.cur = None
    BY DEF Idle
  <2>3. drains'[d] = Idle \/ (drains'[d].at = "next" /\ drains'[d].cur = None)
    BY <1>12, <2>1, StartsTo
  <2>4. \A e \in Drains \ {d} : drains'[e] = drains[e]
    BY <1>12, StartsTo
  <2> QED BY <2>2, <2>3, <2>4 DEF Shape
<1>13. ASSUME NEW d \in Drains, NEW r \in Records, NEW reachable \in BOOLEAN,
            DrainPicks(d, r, reachable)
     PROVE  Shape'
  <2>1. drains[d].at = "next"
    BY <1>13 DEF DrainPicks
  <2> QED BY <1>13, <2>1, PicksTo DEF Shape
<1>14. ASSUME NEW d \in Drains,
            DrainEnds(d)
     PROVE  Shape'
  BY <1>14, OutboxAssumption
       DEF DrainEnds, TypeOK, DrainType, Idle, Shape, vars, work, rows, world,
           history
<1>15. ASSUME NEW d \in Drains, NEW ok \in BOOLEAN,
            DrainDirectDone(d, ok)
     PROVE  Shape'
  <2>1. drains[d].at = "direct" /\ drains[d].cur \in Records
    BY <1>15 DEF DrainDirectDone, Shape
  <2> QED BY <1>15, <2>1, DirectTo DEF Shape
<1>16. ASSUME NEW d \in Drains, NEW answer \in RelayAnswers,
            DrainRelays(d, answer)
     PROVE  Shape'
  BY <1>16, RelaysTo DEF Shape
<1>17. ASSUME NEW p \in reports,
            Look(p)
     PROVE  Shape'
  BY <1>17, OutboxAssumption
       DEF Look, TypeOK, DrainType, Idle, Shape, vars, work, rows, world, history
<1>18. ASSUME NEW p \in reports,
            Mark(p)
     PROVE  Shape'
  BY <1>18, OutboxAssumption
       DEF Mark, TypeOK, DrainType, Idle, Shape, vars, work, rows, world, history
<1>19. ASSUME Compromise PROVE Shape'
  BY <1>19, OutboxAssumption
       DEF Compromise, TypeOK, DrainType, Idle, Shape, vars, work, rows, world,
           history
<1>20. ASSUME PublicKeyRotates PROVE Shape'
  BY <1>20, OutboxAssumption
       DEF PublicKeyRotates, Purge, Drop, TypeOK, DrainType, Idle, Shape, vars,
           work, rows, world, history
<1>21. ASSUME RelayGoes PROVE Shape'
  BY <1>21, OutboxAssumption
       DEF RelayGoes, TypeOK, DrainType, Idle, Shape, vars, work, rows, world,
           history
<1>22. ASSUME RelayComes PROVE Shape'
  BY <1>22, OutboxAssumption
       DEF RelayComes, TypeOK, DrainType, Idle, Shape, vars, work, rows, world,
           history
<1>23. ASSUME Restart PROVE Shape'
  BY <1>23, OutboxAssumption
       DEF Restart, TypeOK, DrainType, Idle, Shape, vars, work, rows, world, history
<1>24. ASSUME UNCHANGED vars PROVE Shape'
  BY <1>24 DEF TypeOK, DrainType, Idle, Shape, vars, work, rows, world, history
<1> QED BY <1>1, <1>2, <1>3, <1>4, <1>5, <1>6, <1>7, <1>8, <1>9, <1>10, <1>11,
           <1>12, <1>13, <1>14, <1>15, <1>16, <1>17, <1>18, <1>19, <1>20,
           <1>21, <1>22, <1>23, <1>24
           DEF Next, User, SendStep, ControlStep, DrainStep, ReportStep

-----------------------------------------------------------------------------
(***************************************************************************)
(* Who holds a record.                                                     *)
(***************************************************************************)

\* A batch that is not running holds nothing.
LEMMA IdleIs == Idle.at = "idle" /\ Idle.todo = {} /\ Idle.cur = None /\ Idle.still = {}
  BY DEF Idle

\* A step gets hold of no record but of a message it composes.
LEMMA HeldStep ==
  ASSUME TypeOK, Shape, [Next]_vars
  PROVE  \A x \in Records : Held(x)' => Held(x) \/ (KindOf(x) = "none" /\ KindOf(x)' # "none")
<1>1. ASSUME NEW m \in Messages, NEW k \in Kinds,
            Compose(m, k)
     PROVE  \A x \in Records : Held(x)' => Held(x) \/ (KindOf(x) = "none" /\ KindOf(x)' # "none")
  BY <1>1, OutboxAssumption
       DEF Compose, Held, InSend, InDrain, TypeOK, RecordsOf, KindOf, Kinds, vars,
           work, rows, world, history
<1>2. ASSUME NEW m \in Messages,
            Cancel(m)
     PROVE  \A x \in Records : Held(x)' => Held(x) \/ (KindOf(x) = "none" /\ KindOf(x)' # "none")
  BY <1>2, OutboxAssumption
       DEF Cancel, Drop, Held, InSend, InDrain, TypeOK, vars, work, rows, world,
           history
<1>3. ASSUME PauseIntegrityOnly PROVE \A x \in Records : Held(x)' => Held(x) \/ (KindOf(x) = "none" /\ KindOf(x)' # "none")
  BY <1>3, OutboxAssumption
       DEF PauseIntegrityOnly, Purge, Drop, Held, InSend, InDrain, TypeOK, vars,
           work, rows, world, history
<1>4. ASSUME StartNewSecureChat PROVE \A x \in Records : Held(x)' => Held(x) \/ (KindOf(x) = "none" /\ KindOf(x)' # "none")
  BY <1>4, OutboxAssumption
       DEF StartNewSecureChat, Purge, Drop, Held, InSend, InDrain, TypeOK, vars,
           work, rows, world, history
<1>5. ASSUME NEW r \in Records, NEW reachable \in BOOLEAN, NEW routed \in BOOLEAN,
            SendDecides(r, reachable, routed)
     PROVE  \A x \in Records : Held(x)' => Held(x) \/ (KindOf(x) = "none" /\ KindOf(x)' # "none")
  BY <1>5, OutboxAssumption
       DEF SendDecides, Held, InSend, InDrain, TypeOK, vars, work, rows, world,
           history
<1>6. ASSUME NEW r \in Records, NEW ok \in BOOLEAN,
            DirectDone(r, ok)
     PROVE  \A x \in Records : Held(x)' => Held(x) \/ (KindOf(x) = "none" /\ KindOf(x)' # "none")
  BY <1>6, OutboxAssumption
       DEF DirectDone, Held, InSend, InDrain, TypeOK, vars, work, rows, world,
           history
<1>7. ASSUME NEW r \in Records, NEW answer \in RelayAnswers,
            RelaySend(r, answer)
     PROVE  \A x \in Records : Held(x)' => Held(x) \/ (KindOf(x) = "none" /\ KindOf(x)' # "none")
  BY <1>7, OutboxAssumption
       DEF RelaySend, Held, InSend, InDrain, TypeOK, vars, work, rows, world,
           history
<1>8. ASSUME NEW r \in Records,
            TimerFires(r)
     PROVE  \A x \in Records : Held(x)' => Held(x) \/ (KindOf(x) = "none" /\ KindOf(x)' # "none")
  BY <1>8, OutboxAssumption
       DEF TimerFires, Held, InSend, InDrain, TypeOK, vars, work, rows, world,
           history
<1>9. ASSUME NEW r \in Records, NEW answer \in RelayAnswers,
            RetryControlNow(r, answer)
     PROVE  \A x \in Records : Held(x)' => Held(x) \/ (KindOf(x) = "none" /\ KindOf(x)' # "none")
  BY <1>9, OutboxAssumption
       DEF RetryControlNow, Held, InSend, InDrain, TypeOK, vars, work, rows, world,
           history
<1>10. ASSUME NEW r \in Records,
            Expires(r)
     PROVE  \A x \in Records : Held(x)' => Held(x) \/ (KindOf(x) = "none" /\ KindOf(x)' # "none")
  BY <1>10, OutboxAssumption
       DEF Expires, Held, InSend, InDrain, TypeOK, vars, work, rows, world, history
<1>11. ASSUME NEW d \in Drains,
            Wake(d)
     PROVE  \A x \in Records : Held(x)' => Held(x) \/ (KindOf(x) = "none" /\ KindOf(x)' # "none")
  <2>1. drains[d] = Idle
    BY <1>11 DEF Wake, Shape
  <2> DEFINE pending == {r \in queue : OutboxSendStillWanted(r)}
  <2>2. drains \in [Drains -> DrainType] /\ queue' = {} /\ pending \subseteq queue
    BY <1>11 DEF Wake, TypeOK
  <2>3. /\ \A e \in Drains \ {d} : drains'[e] = drains[e]
        /\ \/ drains'[d] = drains[d]
           \/ drains'[d].todo = pending /\ drains'[d].cur = None /\ drains'[d].still = {}
    <3>1. CASE pending = {}
      BY <1>11, <3>1 DEF Wake
    <3>2. CASE pending # {}
      <4>1. drains' = [drains EXCEPT ![d] = [Idle EXCEPT !.at = "posted", !.todo = pending]]
        BY <1>11, <3>2 DEF Wake
      <4> HIDE DEF pending
      <4>2. drains'[d] = [Idle EXCEPT !.at = "posted", !.todo = pending]
        BY <2>2, <4>1
      <4>3. drains'[d].todo = pending /\ drains'[d].cur = None /\ drains'[d].still = {}
        BY <4>2 DEF Idle
      <4> QED BY <2>2, <4>1, <4>3
    <3> QED BY <3>1, <3>2
  <2> HIDE DEF pending
  <2> QED BY <1>11, <2>1, <2>2, <2>3, IdleIs, OutboxAssumption
       DEF Wake, Held, InSend, InDrain, TypeOK
<1>12. ASSUME NEW d \in Drains,
            DrainStarts(d)
     PROVE  \A x \in Records : Held(x)' => Held(x) \/ (KindOf(x) = "none" /\ KindOf(x)' # "none")
  <2>1. drains[d].cur = None /\ drains[d].still = {}
    BY <1>12 DEF DrainStarts, Shape
  <2> QED BY <1>12, <2>1, StartsTo, IdleIs
       DEF DrainStarts, Held, InSend, InDrain, TypeOK
<1>13. ASSUME NEW d \in Drains, NEW r \in Records, NEW reachable \in BOOLEAN,
            DrainPicks(d, r, reachable)
     PROVE  \A x \in Records : Held(x)' => Held(x) \/ (KindOf(x) = "none" /\ KindOf(x)' # "none")
  <2>1. drains[d].cur = None /\ r \in drains[d].todo
    BY <1>13 DEF DrainPicks, Shape
  <2>2. \A x \in Records : InDrain(d, x)' => InDrain(d, x)
    BY <1>13, <2>1, PicksTo, OutboxAssumption DEF InDrain
  <2>3. \A x \in Records, e \in Drains \ {d} : InDrain(e, x)' <=> InDrain(e, x)
    BY <1>13, PicksTo DEF InDrain
  <2>4. UNCHANGED <<sending, queue, timers, fired>>
    BY <1>13 DEF DrainPicks
  <2>5. \A x \in Records : Held(x)' => Held(x)
    BY <2>2, <2>3, <2>4 DEF Held, InSend
  <2> QED BY <2>5
<1>14. ASSUME NEW d \in Drains,
            DrainEnds(d)
     PROVE  \A x \in Records : Held(x)' => Held(x) \/ (KindOf(x) = "none" /\ KindOf(x)' # "none")
  <2>1. drains[d].cur = None /\ drains[d].todo = {}
    BY <1>14 DEF DrainEnds, Shape
  <2>2. drains' = [drains EXCEPT ![d] = Idle] /\ drains \in [Drains -> DrainType]
    BY <1>14 DEF DrainEnds, TypeOK
  <2>3. drains'[d] = Idle /\ \A e \in Drains \ {d} : drains'[e] = drains[e]
    BY <2>2
  <2> QED BY <1>14, <2>1, <2>3, IdleIs DEF DrainEnds, Held, InSend, InDrain, TypeOK
<1>15. ASSUME NEW d \in Drains, NEW ok \in BOOLEAN,
            DrainDirectDone(d, ok)
     PROVE  \A x \in Records : Held(x)' => Held(x) \/ (KindOf(x) = "none" /\ KindOf(x)' # "none")
  <2>2. \A x \in Records : InDrain(d, x)' => InDrain(d, x)
    BY <1>15, DirectTo, OutboxAssumption DEF InDrain
  <2>3. \A x \in Records, e \in Drains \ {d} : InDrain(e, x)' <=> InDrain(e, x)
    BY <1>15, DirectTo DEF InDrain
  <2>4. UNCHANGED <<sending, queue, timers, fired>>
    BY <1>15 DEF DrainDirectDone
  <2>5. \A x \in Records : Held(x)' => Held(x)
    BY <2>2, <2>3, <2>4 DEF Held, InSend
  <2> QED BY <2>5
<1>16. ASSUME NEW d \in Drains, NEW answer \in RelayAnswers,
            DrainRelays(d, answer)
     PROVE  \A x \in Records : Held(x)' => Held(x) \/ (KindOf(x) = "none" /\ KindOf(x)' # "none")
  <2>2. \A x \in Records : InDrain(d, x)' => InDrain(d, x)
    BY <1>16, RelaysTo, OutboxAssumption DEF InDrain
  <2>3. \A x \in Records, e \in Drains \ {d} : InDrain(e, x)' <=> InDrain(e, x)
    BY <1>16, RelaysTo DEF InDrain
  <2>4. UNCHANGED <<sending, queue, timers, fired>>
    BY <1>16 DEF DrainRelays
  <2>5. \A x \in Records : Held(x)' => Held(x)
    BY <2>2, <2>3, <2>4 DEF Held, InSend
  <2> QED BY <2>5
<1>17. ASSUME NEW p \in reports,
            Look(p)
     PROVE  \A x \in Records : Held(x)' => Held(x) \/ (KindOf(x) = "none" /\ KindOf(x)' # "none")
  BY <1>17, OutboxAssumption
       DEF Look, Held, InSend, InDrain, TypeOK, vars, work, rows, world, history
<1>18. ASSUME NEW p \in reports,
            Mark(p)
     PROVE  \A x \in Records : Held(x)' => Held(x) \/ (KindOf(x) = "none" /\ KindOf(x)' # "none")
  BY <1>18, OutboxAssumption
       DEF Mark, Held, InSend, InDrain, TypeOK, vars, work, rows, world, history
<1>19. ASSUME Compromise PROVE \A x \in Records : Held(x)' => Held(x) \/ (KindOf(x) = "none" /\ KindOf(x)' # "none")
  BY <1>19, OutboxAssumption
       DEF Compromise, Held, InSend, InDrain, TypeOK, vars, work, rows, world,
           history
<1>20. ASSUME PublicKeyRotates PROVE \A x \in Records : Held(x)' => Held(x) \/ (KindOf(x) = "none" /\ KindOf(x)' # "none")
  BY <1>20, OutboxAssumption
       DEF PublicKeyRotates, Purge, Drop, Held, InSend, InDrain, TypeOK, vars, work,
           rows, world, history
<1>21. ASSUME RelayGoes PROVE \A x \in Records : Held(x)' => Held(x) \/ (KindOf(x) = "none" /\ KindOf(x)' # "none")
  BY <1>21, OutboxAssumption
       DEF RelayGoes, Held, InSend, InDrain, TypeOK, vars, work, rows, world,
           history
<1>22. ASSUME RelayComes PROVE \A x \in Records : Held(x)' => Held(x) \/ (KindOf(x) = "none" /\ KindOf(x)' # "none")
  BY <1>22, OutboxAssumption
       DEF RelayComes, Held, InSend, InDrain, TypeOK, vars, work, rows, world,
           history
<1>23. ASSUME Restart PROVE \A x \in Records : Held(x)' => Held(x) \/ (KindOf(x) = "none" /\ KindOf(x)' # "none")
  <2>1. \A d \in Drains : drains'[d] = Idle
    BY <1>23 DEF Restart
  <2> QED BY <1>23, <2>1, IdleIs, OutboxAssumption
       DEF Restart, Held, InSend, InDrain, TypeOK
<1>24. ASSUME UNCHANGED vars PROVE \A x \in Records : Held(x)' => Held(x) \/ (KindOf(x) = "none" /\ KindOf(x)' # "none")
  BY <1>24 DEF Held, InSend, InDrain, vars, work, rows, world, history
<1> QED BY <1>1, <1>2, <1>3, <1>4, <1>5, <1>6, <1>7, <1>8, <1>9, <1>10, <1>11,
           <1>12, <1>13, <1>14, <1>15, <1>16, <1>17, <1>18, <1>19, <1>20,
           <1>21, <1>22, <1>23, <1>24
           DEF Next, User, SendStep, ControlStep, DrainStep, ReportStep

\* Every step keeps a record in one place.
LEMMA OneHolderStep ==
  ASSUME TypeOK, Shape, Composed, OneHolder, [Next]_vars
  PROVE  OneHolder'
<1>1. ASSUME NEW m \in Messages, NEW k \in Kinds,
            Compose(m, k)
     PROVE  OneHolder'
  BY <1>1, OutboxAssumption
       DEF Compose, OneHolder, Apart, Composed, Held, InSend, InDrain, TypeOK,
           RecordsOf, KindOf, vars, work, rows, world, history
<1>2. ASSUME NEW m \in Messages,
            Cancel(m)
     PROVE  OneHolder'
  BY <1>2, OutboxAssumption
       DEF Cancel, Drop, OneHolder, Apart, InSend, InDrain, TypeOK, vars, work,
           rows, world, history
<1>3. ASSUME PauseIntegrityOnly PROVE OneHolder'
  BY <1>3, OutboxAssumption
       DEF PauseIntegrityOnly, Purge, Drop, OneHolder, Apart, InSend, InDrain,
           TypeOK, vars, work, rows, world, history
<1>4. ASSUME StartNewSecureChat PROVE OneHolder'
  BY <1>4, OutboxAssumption
       DEF StartNewSecureChat, Purge, Drop, OneHolder, Apart, InSend, InDrain,
           TypeOK, vars, work, rows, world, history
<1>5. ASSUME NEW r \in Records, NEW reachable \in BOOLEAN, NEW routed \in BOOLEAN,
            SendDecides(r, reachable, routed)
     PROVE  OneHolder'
  <2>1. \A x \in Records : InSend(x)' => InSend(x)
    BY <1>5 DEF SendDecides, InSend, TypeOK
  <2>2. UNCHANGED <<queue, timers, fired, drains>>
    BY <1>5 DEF SendDecides
  <2> QED BY <2>1, <2>2 DEF OneHolder, Apart, InDrain
<1>6. ASSUME NEW r \in Records, NEW ok \in BOOLEAN,
            DirectDone(r, ok)
     PROVE  OneHolder'
  BY <1>6, OutboxAssumption
       DEF DirectDone, OneHolder, Apart, InSend, InDrain, TypeOK, vars, work, rows,
           world, history
<1>7. ASSUME NEW r \in Records, NEW answer \in RelayAnswers,
            RelaySend(r, answer)
     PROVE  OneHolder'
  BY <1>7, OutboxAssumption
       DEF RelaySend, OneHolder, Apart, InSend, InDrain, TypeOK, vars, work, rows,
           world, history
<1>8. ASSUME NEW r \in Records,
            TimerFires(r)
     PROVE  OneHolder'
  BY <1>8, OutboxAssumption
       DEF TimerFires, OneHolder, Apart, InSend, InDrain, TypeOK, vars, work, rows,
           world, history
<1>9. ASSUME NEW r \in Records, NEW answer \in RelayAnswers,
            RetryControlNow(r, answer)
     PROVE  OneHolder'
  BY <1>9, OutboxAssumption
       DEF RetryControlNow, OneHolder, Apart, InSend, InDrain, TypeOK, vars, work,
           rows, world, history
<1>10. ASSUME NEW r \in Records,
            Expires(r)
     PROVE  OneHolder'
  BY <1>10, OutboxAssumption
       DEF Expires, OneHolder, Apart, InSend, InDrain, TypeOK, vars, work, rows,
           world, history
<1>11. ASSUME NEW d \in Drains,
            Wake(d)
     PROVE  OneHolder'
  <2>1. drains[d] = Idle
    BY <1>11 DEF Wake, Shape
  <2> DEFINE pending == {r \in queue : OutboxSendStillWanted(r)}
  <2>2. drains \in [Drains -> DrainType] /\ queue' = {} /\ pending \subseteq queue
    BY <1>11 DEF Wake, TypeOK
  <2>3. /\ \A e \in Drains \ {d} : drains'[e] = drains[e]
        /\ \/ drains'[d] = drains[d]
           \/ drains'[d].todo = pending /\ drains'[d].cur = None /\ drains'[d].still = {}
    <3>1. CASE pending = {}
      BY <1>11, <3>1 DEF Wake
    <3>2. CASE pending # {}
      <4>1. drains' = [drains EXCEPT ![d] = [Idle EXCEPT !.at = "posted", !.todo = pending]]
        BY <1>11, <3>2 DEF Wake
      <4> HIDE DEF pending
      <4>2. drains'[d] = [Idle EXCEPT !.at = "posted", !.todo = pending]
        BY <2>2, <4>1
      <4>3. drains'[d].todo = pending /\ drains'[d].cur = None /\ drains'[d].still = {}
        BY <4>2 DEF Idle
      <4> QED BY <2>2, <4>1, <4>3
    <3> QED BY <3>1, <3>2
  <2> HIDE DEF pending
  <2> QED BY <1>11, <2>1, <2>2, <2>3, IdleIs, OutboxAssumption
       DEF Wake, OneHolder, Apart, InSend, InDrain, TypeOK
<1>12. ASSUME NEW d \in Drains,
            DrainStarts(d)
     PROVE  OneHolder'
  <2>1. drains[d].cur = None /\ drains[d].still = {}
    BY <1>12 DEF DrainStarts, Shape
  <2> QED BY <1>12, <2>1, StartsTo, IdleIs
       DEF DrainStarts, OneHolder, Apart, InSend, InDrain, TypeOK
<1>13. ASSUME NEW d \in Drains, NEW r \in Records, NEW reachable \in BOOLEAN,
            DrainPicks(d, r, reachable)
     PROVE  OneHolder'
  <2>1. drains[d].cur = None /\ r \in drains[d].todo
    BY <1>13 DEF DrainPicks, Shape
  <2>2. \A x \in Records : InDrain(d, x)' => InDrain(d, x)
    BY <1>13, <2>1, PicksTo, OutboxAssumption DEF InDrain
  <2>3. \A x \in Records, e \in Drains \ {d} : InDrain(e, x)' <=> InDrain(e, x)
    BY <1>13, PicksTo DEF InDrain
  <2>4. UNCHANGED <<sending, queue, timers, fired>>
    BY <1>13 DEF DrainPicks
  <2>5. \A x \in Records : Apart(d, x)'
    BY <1>13, <2>1, PicksTo, OutboxAssumption DEF OneHolder, InDrain, Apart
  <2>6. \A e \in Drains \ {d} : drains'[e] = drains[e]
    BY <1>13, PicksTo
  <2>7. \A x \in Records, e \in Drains : InDrain(e, x)' => InDrain(e, x)
    BY <2>2, <2>3
  <2>8. \A x \in Records, e \in Drains : InDrain(e, x)' => Apart(e, x)'
    <3> SUFFICES ASSUME NEW x \in Records, NEW e \in Drains, InDrain(e, x)'
                 PROVE  Apart(e, x)'
      OBVIOUS
    <3>1. CASE e = d
      BY <2>5, <3>1 DEF Apart
    <3>2. CASE e # d
      BY <2>6, <3>2 DEF OneHolder, Apart, InDrain
    <3> QED BY <3>1, <3>2
  <2> QED BY <2>4, <2>7, <2>8 DEF OneHolder, InSend, Apart, InDrain
<1>14. ASSUME NEW d \in Drains,
            DrainEnds(d)
     PROVE  OneHolder'
  <2>1. drains[d].cur = None /\ drains[d].todo = {}
    BY <1>14 DEF DrainEnds, Shape
  <2>2. drains' = [drains EXCEPT ![d] = Idle] /\ drains \in [Drains -> DrainType]
    BY <1>14 DEF DrainEnds, TypeOK
  <2>3. drains'[d] = Idle /\ \A e \in Drains \ {d} : drains'[e] = drains[e]
    BY <2>2
  <2> QED BY <1>14, <2>1, <2>3, IdleIs
       DEF DrainEnds, OneHolder, Apart, InSend, InDrain, TypeOK
<1>15. ASSUME NEW d \in Drains, NEW ok \in BOOLEAN,
            DrainDirectDone(d, ok)
     PROVE  OneHolder'
  <2>2. \A x \in Records : InDrain(d, x)' => InDrain(d, x)
    BY <1>15, DirectTo, OutboxAssumption DEF InDrain
  <2>3. \A x \in Records, e \in Drains \ {d} : InDrain(e, x)' <=> InDrain(e, x)
    BY <1>15, DirectTo DEF InDrain
  <2>4. UNCHANGED <<sending, queue, timers, fired>>
    BY <1>15 DEF DrainDirectDone
  <2>5. \A x \in Records : Apart(d, x)'
    BY <1>15, DirectTo, OutboxAssumption DEF OneHolder, InDrain, Apart
  <2>6. \A e \in Drains \ {d} : drains'[e] = drains[e]
    BY <1>15, DirectTo
  <2>7. \A x \in Records, e \in Drains : InDrain(e, x)' => InDrain(e, x)
    BY <2>2, <2>3
  <2>8. \A x \in Records, e \in Drains : InDrain(e, x)' => Apart(e, x)'
    <3> SUFFICES ASSUME NEW x \in Records, NEW e \in Drains, InDrain(e, x)'
                 PROVE  Apart(e, x)'
      OBVIOUS
    <3>1. CASE e = d
      BY <2>5, <3>1 DEF Apart
    <3>2. CASE e # d
      BY <2>6, <3>2 DEF OneHolder, Apart, InDrain
    <3> QED BY <3>1, <3>2
  <2> QED BY <2>4, <2>7, <2>8 DEF OneHolder, InSend, Apart, InDrain
<1>16. ASSUME NEW d \in Drains, NEW answer \in RelayAnswers,
            DrainRelays(d, answer)
     PROVE  OneHolder'
  <2>2. \A x \in Records : InDrain(d, x)' => InDrain(d, x)
    BY <1>16, RelaysTo, OutboxAssumption DEF InDrain
  <2>3. \A x \in Records, e \in Drains \ {d} : InDrain(e, x)' <=> InDrain(e, x)
    BY <1>16, RelaysTo DEF InDrain
  <2>4. UNCHANGED <<sending, queue, timers, fired>>
    BY <1>16 DEF DrainRelays
  <2>5. \A x \in Records : Apart(d, x)'
    <3> SUFFICES ASSUME NEW x \in Records PROVE Apart(d, x)'
      OBVIOUS
    <3>1. InDrain(d, x) => Apart(d, x)
      BY DEF OneHolder
    <3>2. /\ drains'[d].todo = drains[d].todo /\ drains'[d].cur = None
          /\ drains'[d].still \subseteq drains[d].still \cup {drains[d].cur}
      BY <1>16, RelaysTo
    <3> QED BY <3>1, <3>2, OutboxAssumption DEF Apart, InDrain
  <2>6. \A e \in Drains \ {d} : drains'[e] = drains[e]
    BY <1>16, RelaysTo
  <2>7. \A x \in Records, e \in Drains : InDrain(e, x)' => InDrain(e, x)
    BY <2>2, <2>3
  <2>8. \A x \in Records, e \in Drains : InDrain(e, x)' => Apart(e, x)'
    <3> SUFFICES ASSUME NEW x \in Records, NEW e \in Drains, InDrain(e, x)'
                 PROVE  Apart(e, x)'
      OBVIOUS
    <3>1. CASE e = d
      BY <2>5, <3>1 DEF Apart
    <3>2. CASE e # d
      BY <2>6, <3>2 DEF OneHolder, Apart, InDrain
    <3> QED BY <3>1, <3>2
  <2> QED BY <2>4, <2>7, <2>8 DEF OneHolder, InSend, Apart, InDrain
<1>17. ASSUME NEW p \in reports,
            Look(p)
     PROVE  OneHolder'
  BY <1>17, OutboxAssumption
       DEF Look, OneHolder, Apart, InSend, InDrain, TypeOK, vars, work, rows, world,
           history
<1>18. ASSUME NEW p \in reports,
            Mark(p)
     PROVE  OneHolder'
  BY <1>18, OutboxAssumption
       DEF Mark, OneHolder, Apart, InSend, InDrain, TypeOK, vars, work, rows, world,
           history
<1>19. ASSUME Compromise PROVE OneHolder'
  BY <1>19, OutboxAssumption
       DEF Compromise, OneHolder, Apart, InSend, InDrain, TypeOK, vars, work, rows,
           world, history
<1>20. ASSUME PublicKeyRotates PROVE OneHolder'
  BY <1>20, OutboxAssumption
       DEF PublicKeyRotates, Purge, Drop, OneHolder, Apart, InSend, InDrain, TypeOK,
           vars, work, rows, world, history
<1>21. ASSUME RelayGoes PROVE OneHolder'
  BY <1>21, OutboxAssumption
       DEF RelayGoes, OneHolder, Apart, InSend, InDrain, TypeOK, vars, work, rows,
           world, history
<1>22. ASSUME RelayComes PROVE OneHolder'
  BY <1>22, OutboxAssumption
       DEF RelayComes, OneHolder, Apart, InSend, InDrain, TypeOK, vars, work, rows,
           world, history
<1>23. ASSUME Restart PROVE OneHolder'
  <2>1. \A d \in Drains : drains'[d] = Idle
    BY <1>23 DEF Restart
  <2> QED BY <1>23, <2>1, IdleIs, OutboxAssumption
       DEF Restart, OneHolder, Apart, InSend, InDrain, TypeOK
<1>24. ASSUME UNCHANGED vars PROVE OneHolder'
  BY <1>24 DEF OneHolder, Apart, InSend, InDrain, vars, work, rows, world, history
<1> QED BY <1>1, <1>2, <1>3, <1>4, <1>5, <1>6, <1>7, <1>8, <1>9, <1>10, <1>11,
           <1>12, <1>13, <1>14, <1>15, <1>16, <1>17, <1>18, <1>19, <1>20,
           <1>21, <1>22, <1>23, <1>24
           DEF Next, User, SendStep, ControlStep, DrainStep, ReportStep

\* A message is composed once, and its records are then held.
ComposedOnce(x) ==
  /\ KindOf(x) # "none" => KindOf(x)' = KindOf(x)
  /\ KindOf(x) = "none" /\ KindOf(x)' # "none" => Held(x)'

LEMMA KindStep ==
  ASSUME TypeOK, [Next]_vars
  PROVE  \A x \in Records : ComposedOnce(x)
<1>1. ASSUME NEW m \in Messages, NEW k \in Kinds,
            Compose(m, k)
     PROVE  \A x \in Records : ComposedOnce(x)
  BY <1>1, OutboxAssumption
       DEF Compose, KindOf, TypeOK, RecordsOf, Held, InSend, vars, work, rows,
           world, history, ComposedOnce
<1>2. ASSUME NEW m \in Messages,
            Cancel(m)
     PROVE  \A x \in Records : ComposedOnce(x)
  BY <1>2, OutboxAssumption
       DEF Cancel, Drop, KindOf, vars, work, rows, world, history, ComposedOnce
<1>3. ASSUME PauseIntegrityOnly PROVE \A x \in Records : ComposedOnce(x)
  BY <1>3, OutboxAssumption
       DEF PauseIntegrityOnly, Purge, Drop, KindOf, vars, work, rows, world,
           history, ComposedOnce
<1>4. ASSUME StartNewSecureChat PROVE \A x \in Records : ComposedOnce(x)
  BY <1>4, OutboxAssumption
       DEF StartNewSecureChat, Purge, Drop, KindOf, vars, work, rows, world,
           history, ComposedOnce
<1>5. ASSUME NEW r \in Records, NEW reachable \in BOOLEAN, NEW routed \in BOOLEAN,
            SendDecides(r, reachable, routed)
     PROVE  \A x \in Records : ComposedOnce(x)
  BY <1>5, OutboxAssumption
       DEF SendDecides, KindOf, vars, work, rows, world, history, ComposedOnce
<1>6. ASSUME NEW r \in Records, NEW ok \in BOOLEAN,
            DirectDone(r, ok)
     PROVE  \A x \in Records : ComposedOnce(x)
  BY <1>6, OutboxAssumption
       DEF DirectDone, KindOf, vars, work, rows, world, history, ComposedOnce
<1>7. ASSUME NEW r \in Records, NEW answer \in RelayAnswers,
            RelaySend(r, answer)
     PROVE  \A x \in Records : ComposedOnce(x)
  BY <1>7, OutboxAssumption
       DEF RelaySend, KindOf, vars, work, rows, world, history, ComposedOnce
<1>8. ASSUME NEW r \in Records,
            TimerFires(r)
     PROVE  \A x \in Records : ComposedOnce(x)
  BY <1>8, OutboxAssumption
       DEF TimerFires, KindOf, vars, work, rows, world, history, ComposedOnce
<1>9. ASSUME NEW r \in Records, NEW answer \in RelayAnswers,
            RetryControlNow(r, answer)
     PROVE  \A x \in Records : ComposedOnce(x)
  BY <1>9, OutboxAssumption
       DEF RetryControlNow, KindOf, vars, work, rows, world, history, ComposedOnce
<1>10. ASSUME NEW r \in Records,
            Expires(r)
     PROVE  \A x \in Records : ComposedOnce(x)
  BY <1>10, OutboxAssumption
       DEF Expires, KindOf, vars, work, rows, world, history, ComposedOnce
<1>11. ASSUME NEW d \in Drains,
            Wake(d)
     PROVE  \A x \in Records : ComposedOnce(x)
  BY <1>11, OutboxAssumption
       DEF Wake, KindOf, vars, work, rows, world, history, ComposedOnce
<1>12. ASSUME NEW d \in Drains,
            DrainStarts(d)
     PROVE  \A x \in Records : ComposedOnce(x)
  BY <1>12, OutboxAssumption
       DEF DrainStarts, KindOf, vars, work, rows, world, history, ComposedOnce
<1>13. ASSUME NEW d \in Drains, NEW r \in Records, NEW reachable \in BOOLEAN,
            DrainPicks(d, r, reachable)
     PROVE  \A x \in Records : ComposedOnce(x)
  BY <1>13, OutboxAssumption
       DEF DrainPicks, KindOf, vars, work, rows, world, history, ComposedOnce
<1>14. ASSUME NEW d \in Drains,
            DrainEnds(d)
     PROVE  \A x \in Records : ComposedOnce(x)
  BY <1>14, OutboxAssumption
       DEF DrainEnds, KindOf, vars, work, rows, world, history, ComposedOnce
<1>15. ASSUME NEW d \in Drains, NEW ok \in BOOLEAN,
            DrainDirectDone(d, ok)
     PROVE  \A x \in Records : ComposedOnce(x)
  BY <1>15, OutboxAssumption
       DEF DrainDirectDone, KindOf, vars, work, rows, world, history, ComposedOnce
<1>16. ASSUME NEW d \in Drains, NEW answer \in RelayAnswers,
            DrainRelays(d, answer)
     PROVE  \A x \in Records : ComposedOnce(x)
  BY <1>16, OutboxAssumption
       DEF DrainRelays, KindOf, vars, work, rows, world, history, ComposedOnce
<1>17. ASSUME NEW p \in reports,
            Look(p)
     PROVE  \A x \in Records : ComposedOnce(x)
  BY <1>17, OutboxAssumption
       DEF Look, KindOf, vars, work, rows, world, history, ComposedOnce
<1>18. ASSUME NEW p \in reports,
            Mark(p)
     PROVE  \A x \in Records : ComposedOnce(x)
  BY <1>18, OutboxAssumption
       DEF Mark, KindOf, vars, work, rows, world, history, ComposedOnce
<1>19. ASSUME Compromise PROVE \A x \in Records : ComposedOnce(x)
  BY <1>19, OutboxAssumption
       DEF Compromise, KindOf, vars, work, rows, world, history, ComposedOnce
<1>20. ASSUME PublicKeyRotates PROVE \A x \in Records : ComposedOnce(x)
  BY <1>20, OutboxAssumption
       DEF PublicKeyRotates, Purge, Drop, KindOf, vars, work, rows, world, history,
           ComposedOnce
<1>21. ASSUME RelayGoes PROVE \A x \in Records : ComposedOnce(x)
  BY <1>21, OutboxAssumption
       DEF RelayGoes, KindOf, vars, work, rows, world, history, ComposedOnce
<1>22. ASSUME RelayComes PROVE \A x \in Records : ComposedOnce(x)
  BY <1>22, OutboxAssumption
       DEF RelayComes, KindOf, vars, work, rows, world, history, ComposedOnce
<1>23. ASSUME Restart PROVE \A x \in Records : ComposedOnce(x)
  BY <1>23, OutboxAssumption
       DEF Restart, KindOf, vars, work, rows, world, history, ComposedOnce
<1>24. ASSUME UNCHANGED vars PROVE \A x \in Records : ComposedOnce(x)
  BY <1>24 DEF KindOf, vars, work, rows, world, history, ComposedOnce
<1> QED BY <1>1, <1>2, <1>3, <1>4, <1>5, <1>6, <1>7, <1>8, <1>9, <1>10, <1>11,
           <1>12, <1>13, <1>14, <1>15, <1>16, <1>17, <1>18, <1>19, <1>20,
           <1>21, <1>22, <1>23, <1>24
           DEF Next, User, SendStep, ControlStep, DrainStep, ReportStep

\* What a transport confirms was held, and is held no longer.
LEMMA TakenStep ==
  ASSUME TypeOK, Shape, OneHolder, [Next]_vars
  PROVE  \A x \in taken' \ taken : x \in Records /\ Held(x) /\ ~Held(x)'
<1>1. ASSUME NEW m \in Messages, NEW k \in Kinds,
            Compose(m, k)
     PROVE  \A x \in taken' \ taken : x \in Records /\ Held(x) /\ ~Held(x)'
  BY <1>1, OutboxAssumption DEF Compose, vars, vars, work, rows, world, history
<1>2. ASSUME NEW m \in Messages,
            Cancel(m)
     PROVE  \A x \in taken' \ taken : x \in Records /\ Held(x) /\ ~Held(x)'
  BY <1>2, OutboxAssumption DEF Cancel, Drop, vars, vars, work, rows, world, history
<1>3. ASSUME PauseIntegrityOnly PROVE \A x \in taken' \ taken : x \in Records /\ Held(x) /\ ~Held(x)'
  BY <1>3, OutboxAssumption
       DEF PauseIntegrityOnly, Purge, Drop, vars, vars, work, rows, world, history
<1>4. ASSUME StartNewSecureChat PROVE \A x \in taken' \ taken : x \in Records /\ Held(x) /\ ~Held(x)'
  BY <1>4, OutboxAssumption
       DEF StartNewSecureChat, Purge, Drop, vars, vars, work, rows, world, history
<1>5. ASSUME NEW r \in Records, NEW reachable \in BOOLEAN, NEW routed \in BOOLEAN,
            SendDecides(r, reachable, routed)
     PROVE  \A x \in taken' \ taken : x \in Records /\ Held(x) /\ ~Held(x)'
  BY <1>5, OutboxAssumption DEF SendDecides, vars, vars, work, rows, world, history
<1>6. ASSUME NEW r \in Records, NEW ok \in BOOLEAN,
            DirectDone(r, ok)
     PROVE  \A x \in taken' \ taken : x \in Records /\ Held(x) /\ ~Held(x)'
  <2>1. /\ UNCHANGED <<queue, timers, fired, drains>>
        /\ taken' = IF ok THEN taken \cup {r} ELSE taken
        /\ InSend(r)
    BY <1>6 DEF DirectDone, InSend
  <2>2. ok => ~InSend(r)'
    BY <1>6 DEF DirectDone, InSend, TypeOK
  <2> QED BY <2>1, <2>2 DEF OneHolder, Held, InDrain
<1>7. ASSUME NEW r \in Records, NEW answer \in RelayAnswers,
            RelaySend(r, answer)
     PROVE  \A x \in taken' \ taken : x \in Records /\ Held(x) /\ ~Held(x)'
  <2>1. /\ UNCHANGED <<fired, drains>>
        /\ InSend(r) /\ ~InSend(r)'
    BY <1>7 DEF RelaySend, InSend, TypeOK
  <2>2. \/ taken' = taken
        \/ taken' = taken \cup {r} /\ UNCHANGED <<queue, timers>>
    BY <1>7 DEF RelaySend
  <2> QED BY <2>1, <2>2 DEF OneHolder, Held, InDrain
<1>8. ASSUME NEW r \in Records,
            TimerFires(r)
     PROVE  \A x \in taken' \ taken : x \in Records /\ Held(x) /\ ~Held(x)'
  BY <1>8, OutboxAssumption DEF TimerFires, vars, vars, work, rows, world, history
<1>9. ASSUME NEW r \in Records, NEW answer \in RelayAnswers,
            RetryControlNow(r, answer)
     PROVE  \A x \in taken' \ taken : x \in Records /\ Held(x) /\ ~Held(x)'
  <2>1. /\ UNCHANGED <<sending, drains>>
        /\ r \in fired /\ fired' = fired \ {r}
    BY <1>9 DEF RetryControlNow
  <2>2. \/ taken' = taken
        \/ taken' = taken \cup {r} /\ UNCHANGED <<queue, timers>>
    BY <1>9 DEF RetryControlNow
  <2> QED BY <2>1, <2>2 DEF OneHolder, Held, InDrain, InSend
<1>10. ASSUME NEW r \in Records,
            Expires(r)
     PROVE  \A x \in taken' \ taken : x \in Records /\ Held(x) /\ ~Held(x)'
  BY <1>10, OutboxAssumption DEF Expires, vars, vars, work, rows, world, history
<1>11. ASSUME NEW d \in Drains,
            Wake(d)
     PROVE  \A x \in taken' \ taken : x \in Records /\ Held(x) /\ ~Held(x)'
  BY <1>11, OutboxAssumption DEF Wake, vars, vars, work, rows, world, history
<1>12. ASSUME NEW d \in Drains,
            DrainStarts(d)
     PROVE  \A x \in taken' \ taken : x \in Records /\ Held(x) /\ ~Held(x)'
  BY <1>12, OutboxAssumption DEF DrainStarts, vars, vars, work, rows, world, history
<1>13. ASSUME NEW d \in Drains, NEW r \in Records, NEW reachable \in BOOLEAN,
            DrainPicks(d, r, reachable)
     PROVE  \A x \in taken' \ taken : x \in Records /\ Held(x) /\ ~Held(x)'
  BY <1>13, OutboxAssumption DEF DrainPicks, vars, vars, work, rows, world, history
<1>14. ASSUME NEW d \in Drains,
            DrainEnds(d)
     PROVE  \A x \in taken' \ taken : x \in Records /\ Held(x) /\ ~Held(x)'
  BY <1>14, OutboxAssumption DEF DrainEnds, vars, vars, work, rows, world, history
<1>15. ASSUME NEW d \in Drains, NEW ok \in BOOLEAN,
            DrainDirectDone(d, ok)
     PROVE  \A x \in taken' \ taken : x \in Records /\ Held(x) /\ ~Held(x)'
  <2>1. drains[d].cur \in Records
    BY <1>15 DEF DrainDirectDone, Shape
  <2> PICK x \in Records : x = drains[d].cur
    BY <2>1
  <2>2. UNCHANGED <<sending, queue, timers, fired>>
    BY <1>15 DEF DrainDirectDone
  <2>3. InDrain(d, x) /\ Apart(d, x) /\ Held(x)
    BY <2>1 DEF OneHolder, InDrain, Held
  <2>4. x \notin queue \cup timers \cup fired /\ ~InSend(x)
    BY <2>1, <2>3 DEF OneHolder
  <2>5. \A e \in Drains \ {d} : ~InDrain(e, x)
    BY <2>1, <2>3 DEF OneHolder
  <2>6. \A e \in Drains \ {d} : ~InDrain(e, x)'
    BY <1>15, DirectTo, <2>5 DEF InDrain
  <2>7. \/ taken' = taken
        \/ taken' = taken \cup {x} /\ ~InDrain(d, x)'
    BY <1>15, DirectTo, <2>1, <2>3, OutboxAssumption
         DEF DrainDirectDone, InDrain, Apart
  <2>8. ~InSend(x)'
    BY <2>2, <2>4 DEF InSend
  <2> QED BY <2>1, <2>2, <2>3, <2>4, <2>6, <2>7, <2>8 DEF Held
<1>16. ASSUME NEW d \in Drains, NEW answer \in RelayAnswers,
            DrainRelays(d, answer)
     PROVE  \A x \in taken' \ taken : x \in Records /\ Held(x) /\ ~Held(x)'
  <2>1. drains[d].cur \in Records
    BY <1>16 DEF DrainRelays, Shape
  <2> PICK x \in Records : x = drains[d].cur
    BY <2>1
  <2>2. UNCHANGED <<sending, queue, timers, fired>>
    BY <1>16 DEF DrainRelays
  <2>3. InDrain(d, x) /\ Apart(d, x) /\ Held(x)
    BY <2>1 DEF OneHolder, InDrain, Held
  <2>4. x \notin queue \cup timers \cup fired /\ ~InSend(x)
    BY <2>1, <2>3 DEF OneHolder
  <2>5. \A e \in Drains \ {d} : ~InDrain(e, x)
    BY <2>1, <2>3 DEF OneHolder
  <2>6. \A e \in Drains \ {d} : ~InDrain(e, x)'
    BY <1>16, RelaysTo, <2>5 DEF InDrain
  <2>7. \/ taken' = taken
        \/ taken' = taken \cup {x} /\ ~InDrain(d, x)'
    BY <1>16, RelaysTo, <2>1, <2>3, OutboxAssumption
         DEF DrainRelays, InDrain, Apart, Again
  <2>8. ~InSend(x)'
    BY <2>2, <2>4 DEF InSend
  <2> QED BY <2>1, <2>2, <2>3, <2>4, <2>6, <2>7, <2>8 DEF Held
<1>17. ASSUME NEW p \in reports,
            Look(p)
     PROVE  \A x \in taken' \ taken : x \in Records /\ Held(x) /\ ~Held(x)'
  BY <1>17, OutboxAssumption DEF Look, vars, vars, work, rows, world, history
<1>18. ASSUME NEW p \in reports,
            Mark(p)
     PROVE  \A x \in taken' \ taken : x \in Records /\ Held(x) /\ ~Held(x)'
  BY <1>18, OutboxAssumption DEF Mark, vars, vars, work, rows, world, history
<1>19. ASSUME Compromise PROVE \A x \in taken' \ taken : x \in Records /\ Held(x) /\ ~Held(x)'
  BY <1>19, OutboxAssumption DEF Compromise, vars, vars, work, rows, world, history
<1>20. ASSUME PublicKeyRotates PROVE \A x \in taken' \ taken : x \in Records /\ Held(x) /\ ~Held(x)'
  BY <1>20, OutboxAssumption
       DEF PublicKeyRotates, Purge, Drop, vars, vars, work, rows, world, history
<1>21. ASSUME RelayGoes PROVE \A x \in taken' \ taken : x \in Records /\ Held(x) /\ ~Held(x)'
  BY <1>21, OutboxAssumption DEF RelayGoes, vars, vars, work, rows, world, history
<1>22. ASSUME RelayComes PROVE \A x \in taken' \ taken : x \in Records /\ Held(x) /\ ~Held(x)'
  BY <1>22, OutboxAssumption DEF RelayComes, vars, vars, work, rows, world, history
<1>23. ASSUME Restart PROVE \A x \in taken' \ taken : x \in Records /\ Held(x) /\ ~Held(x)'
  BY <1>23, OutboxAssumption DEF Restart, vars, vars, work, rows, world, history
<1>24. ASSUME UNCHANGED vars PROVE \A x \in taken' \ taken : x \in Records /\ Held(x) /\ ~Held(x)'
  BY <1>24 DEF vars, vars, work, rows, world, history
<1> QED BY <1>1, <1>2, <1>3, <1>4, <1>5, <1>6, <1>7, <1>8, <1>9, <1>10, <1>11,
           <1>12, <1>13, <1>14, <1>15, <1>16, <1>17, <1>18, <1>19, <1>20,
           <1>21, <1>22, <1>23, <1>24
           DEF Next, User, SendStep, ControlStep, DrainStep, ReportStep

\* What is dropped was queued or waited for a timer, and is held no longer.
LEMMA DropStep ==
  ASSUME TypeOK, OneHolder, NEW gone, Drop(gone), UNCHANGED <<sending, fired, drains>>
  PROVE  \A x \in stopped' \ stopped : x \in Records /\ Held(x) /\ ~Held(x)'
<1> SUFFICES ASSUME NEW x \in stopped' \ stopped
             PROVE  x \in Records /\ Held(x) /\ ~Held(x)'
  OBVIOUS
<1>1. x \in queue \cup timers /\ x \notin queue' \cup timers' /\ x \in Records
  BY DEF Drop, TypeOK
<1>2. x \notin fired /\ ~InSend(x) /\ \A d \in Drains : ~InDrain(d, x)
  BY <1>1 DEF OneHolder
<1>3. ~InSend(x)' /\ \A d \in Drains : ~InDrain(d, x)'
  BY <1>2 DEF InSend, InDrain
<1> QED BY <1>1, <1>2, <1>3 DEF Held

\* What is stopped was held, and is held no longer.
LEMMA StoppedStep ==
  ASSUME TypeOK, OneHolder, [Next]_vars
  PROVE  \A x \in stopped' \ stopped : x \in Records /\ Held(x) /\ ~Held(x)'
<1>1. ASSUME NEW m \in Messages, NEW k \in Kinds,
            Compose(m, k)
     PROVE  \A x \in stopped' \ stopped : x \in Records /\ Held(x) /\ ~Held(x)'
  BY <1>1 DEF Compose, vars, vars, work, rows, world, history
<1>2. ASSUME NEW m \in Messages,
            Cancel(m)
     PROVE  \A x \in stopped' \ stopped : x \in Records /\ Held(x) /\ ~Held(x)'
  BY <1>2, DropStep DEF Cancel
<1>3. ASSUME PauseIntegrityOnly PROVE \A x \in stopped' \ stopped : x \in Records /\ Held(x) /\ ~Held(x)'
  BY <1>3, DropStep DEF PauseIntegrityOnly, Purge
<1>4. ASSUME StartNewSecureChat PROVE \A x \in stopped' \ stopped : x \in Records /\ Held(x) /\ ~Held(x)'
  BY <1>4, DropStep DEF StartNewSecureChat, Purge
<1>5. ASSUME NEW r \in Records, NEW reachable \in BOOLEAN, NEW routed \in BOOLEAN,
            SendDecides(r, reachable, routed)
     PROVE  \A x \in stopped' \ stopped : x \in Records /\ Held(x) /\ ~Held(x)'
  BY <1>5 DEF SendDecides, vars, vars, work, rows, world, history
<1>6. ASSUME NEW r \in Records, NEW ok \in BOOLEAN,
            DirectDone(r, ok)
     PROVE  \A x \in stopped' \ stopped : x \in Records /\ Held(x) /\ ~Held(x)'
  BY <1>6 DEF DirectDone, vars, vars, work, rows, world, history
<1>7. ASSUME NEW r \in Records, NEW answer \in RelayAnswers,
            RelaySend(r, answer)
     PROVE  \A x \in stopped' \ stopped : x \in Records /\ Held(x) /\ ~Held(x)'
  BY <1>7 DEF RelaySend, vars, vars, work, rows, world, history
<1>8. ASSUME NEW r \in Records,
            TimerFires(r)
     PROVE  \A x \in stopped' \ stopped : x \in Records /\ Held(x) /\ ~Held(x)'
  BY <1>8 DEF TimerFires, vars, vars, work, rows, world, history
<1>9. ASSUME NEW r \in Records, NEW answer \in RelayAnswers,
            RetryControlNow(r, answer)
     PROVE  \A x \in stopped' \ stopped : x \in Records /\ Held(x) /\ ~Held(x)'
  BY <1>9 DEF RetryControlNow, vars, vars, work, rows, world, history
<1>10. ASSUME NEW r \in Records,
            Expires(r)
     PROVE  \A x \in stopped' \ stopped : x \in Records /\ Held(x) /\ ~Held(x)'
  BY <1>10 DEF Expires, vars, vars, work, rows, world, history
<1>11. ASSUME NEW d \in Drains,
            Wake(d)
     PROVE  \A x \in stopped' \ stopped : x \in Records /\ Held(x) /\ ~Held(x)'
  BY <1>11 DEF Wake, vars, vars, work, rows, world, history
<1>12. ASSUME NEW d \in Drains,
            DrainStarts(d)
     PROVE  \A x \in stopped' \ stopped : x \in Records /\ Held(x) /\ ~Held(x)'
  BY <1>12 DEF DrainStarts, vars, vars, work, rows, world, history
<1>13. ASSUME NEW d \in Drains, NEW r \in Records, NEW reachable \in BOOLEAN,
            DrainPicks(d, r, reachable)
     PROVE  \A x \in stopped' \ stopped : x \in Records /\ Held(x) /\ ~Held(x)'
  BY <1>13 DEF DrainPicks, vars, vars, work, rows, world, history
<1>14. ASSUME NEW d \in Drains,
            DrainEnds(d)
     PROVE  \A x \in stopped' \ stopped : x \in Records /\ Held(x) /\ ~Held(x)'
  BY <1>14 DEF DrainEnds, vars, vars, work, rows, world, history
<1>15. ASSUME NEW d \in Drains, NEW ok \in BOOLEAN,
            DrainDirectDone(d, ok)
     PROVE  \A x \in stopped' \ stopped : x \in Records /\ Held(x) /\ ~Held(x)'
  BY <1>15 DEF DrainDirectDone, vars, vars, work, rows, world, history
<1>16. ASSUME NEW d \in Drains, NEW answer \in RelayAnswers,
            DrainRelays(d, answer)
     PROVE  \A x \in stopped' \ stopped : x \in Records /\ Held(x) /\ ~Held(x)'
  BY <1>16 DEF DrainRelays, vars, vars, work, rows, world, history
<1>17. ASSUME NEW p \in reports,
            Look(p)
     PROVE  \A x \in stopped' \ stopped : x \in Records /\ Held(x) /\ ~Held(x)'
  BY <1>17 DEF Look, vars, vars, work, rows, world, history
<1>18. ASSUME NEW p \in reports,
            Mark(p)
     PROVE  \A x \in stopped' \ stopped : x \in Records /\ Held(x) /\ ~Held(x)'
  BY <1>18 DEF Mark, vars, vars, work, rows, world, history
<1>19. ASSUME Compromise PROVE \A x \in stopped' \ stopped : x \in Records /\ Held(x) /\ ~Held(x)'
  BY <1>19 DEF Compromise, vars, vars, work, rows, world, history
<1>20. ASSUME PublicKeyRotates PROVE \A x \in stopped' \ stopped : x \in Records /\ Held(x) /\ ~Held(x)'
  BY <1>20, DropStep DEF PublicKeyRotates, Purge, work
<1>21. ASSUME RelayGoes PROVE \A x \in stopped' \ stopped : x \in Records /\ Held(x) /\ ~Held(x)'
  BY <1>21 DEF RelayGoes, vars, vars, work, rows, world, history
<1>22. ASSUME RelayComes PROVE \A x \in stopped' \ stopped : x \in Records /\ Held(x) /\ ~Held(x)'
  BY <1>22 DEF RelayComes, vars, vars, work, rows, world, history
<1>23. ASSUME Restart PROVE \A x \in stopped' \ stopped : x \in Records /\ Held(x) /\ ~Held(x)'
  BY <1>23 DEF Restart, vars, vars, work, rows, world, history
<1>24. ASSUME UNCHANGED vars PROVE \A x \in stopped' \ stopped : x \in Records /\ Held(x) /\ ~Held(x)'
  BY <1>24 DEF vars, vars, work, rows, world, history
<1> QED BY <1>1, <1>2, <1>3, <1>4, <1>5, <1>6, <1>7, <1>8, <1>9, <1>10, <1>11,
           <1>12, <1>13, <1>14, <1>15, <1>16, <1>17, <1>18, <1>19, <1>20,
           <1>21, <1>22, <1>23, <1>24
           DEF Next, User, SendStep, ControlStep, DrainStep, ReportStep

\* An invariant from step facts: what was stopped stays out.
LEMMA ComposedStep ==
  ASSUME TypeOK, Shape, OneHolder, Composed, StoppedIsGone, [Next]_vars
  PROVE  Composed' /\ StoppedIsGone'
<1>1. \A x \in Records : Held(x)' => Held(x) \/ (KindOf(x) = "none" /\ KindOf(x)' # "none")
  BY HeldStep
<1>2. \A x \in Records : KindOf(x) # "none" => KindOf(x)' = KindOf(x)
  BY KindStep DEF ComposedOnce
<1>3. \A x \in taken' \ taken : x \in Records /\ Held(x)
  BY TakenStep
<1>4. \A x \in stopped' \ stopped : x \in Records /\ Held(x) /\ ~Held(x)'
  BY StoppedStep
<1>5. Composed'
  <2> SUFFICES ASSUME NEW x \in Records, KindOf(x)' = "none"
               PROVE  ~Held(x)' /\ x \notin taken' /\ x \notin stopped'
    BY DEF Composed
  <2>1. KindOf(x) = "none"
    BY <1>2
  <2>2. ~Held(x) /\ x \notin taken /\ x \notin stopped
    BY <2>1 DEF Composed
  <2> QED BY <1>1, <1>3, <1>4, <2>2
<1>6. StoppedIsGone'
  <2> SUFFICES ASSUME NEW x \in stopped' PROVE ~Held(x)'
    BY DEF StoppedIsGone
  <2>1. CASE x \in stopped
    <3>1. x \in Records
      BY <2>1 DEF TypeOK
    <3>2. ~Held(x) /\ KindOf(x) # "none"
      BY <2>1, <3>1 DEF StoppedIsGone, Composed
    <3> QED BY <1>1, <3>1, <3>2
  <2>2. CASE x \notin stopped
    BY <1>4, <2>2
  <2> QED BY <2>1, <2>2
<1> QED BY <1>5, <1>6

-----------------------------------------------------------------------------
(***************************************************************************)
(* The row.                                                                *)
(***************************************************************************)

\* An outcome that says delivered is of a record a transport has confirmed.
LEMMA ReportsStep ==
  ASSUME TypeOK, Shape, ReportsTrue, [Next]_vars
  PROVE  ReportsTrue' /\ taken \subseteq taken'
<1>1. ASSUME NEW m \in Messages, NEW k \in Kinds,
            Compose(m, k)
     PROVE  ReportsTrue' /\ taken \subseteq taken'
  BY <1>1 DEF Compose, ReportsTrue, vars, vars, work, rows, world, history
<1>2. ASSUME NEW m \in Messages,
            Cancel(m)
     PROVE  ReportsTrue' /\ taken \subseteq taken'
  BY <1>2 DEF Cancel, Drop, ReportsTrue, vars, vars, work, rows, world, history
<1>3. ASSUME PauseIntegrityOnly PROVE ReportsTrue' /\ taken \subseteq taken'
  BY <1>3
       DEF PauseIntegrityOnly, Purge, Drop, ReportsTrue, vars, vars, work, rows,
           world, history
<1>4. ASSUME StartNewSecureChat PROVE ReportsTrue' /\ taken \subseteq taken'
  BY <1>4
       DEF StartNewSecureChat, Purge, Drop, ReportsTrue, vars, vars, work, rows,
           world, history
<1>5. ASSUME NEW r \in Records, NEW reachable \in BOOLEAN, NEW routed \in BOOLEAN,
            SendDecides(r, reachable, routed)
     PROVE  ReportsTrue' /\ taken \subseteq taken'
  <2>1. taken' = taken /\ reports' \subseteq reports \cup Report(r, "send", FALSE)
    BY <1>5 DEF SendDecides, history
  <2> QED BY <2>1, ReportIsTyped DEF ReportsTrue
<1>6. ASSUME NEW r \in Records, NEW ok \in BOOLEAN,
            DirectDone(r, ok)
     PROVE  ReportsTrue' /\ taken \subseteq taken'
  <2>1. /\ taken' = IF ok THEN taken \cup {r} ELSE taken
        /\ reports' \subseteq reports \cup Report(r, "send", ok)
    BY <1>6 DEF DirectDone
  <2>2. \A p \in Report(r, "send", ok) : p.ok => p.rec \in taken'
    BY <2>1, ReportIsTyped
  <2> QED BY <2>1, <2>2 DEF ReportsTrue
<1>7. ASSUME NEW r \in Records, NEW answer \in RelayAnswers,
            RelaySend(r, answer)
     PROVE  ReportsTrue' /\ taken \subseteq taken'
  <2>1. /\ taken' = IF answer = "ok" THEN taken \cup {r} ELSE taken
        /\ reports' = reports \cup Report(r, "send", answer = "ok")
    BY <1>7 DEF RelaySend
  <2>2. (answer = "ok") \in BOOLEAN
    OBVIOUS
  <2>3. \A p \in Report(r, "send", answer = "ok") : p.rec = r /\ p.ok = (answer = "ok")
    BY <2>2, ReportIsTyped
  <2>4. \A p \in Report(r, "send", answer = "ok") : p.ok => p.rec \in taken'
    BY <2>1, <2>3
  <2> QED BY <2>1, <2>4 DEF ReportsTrue
<1>8. ASSUME NEW r \in Records,
            TimerFires(r)
     PROVE  ReportsTrue' /\ taken \subseteq taken'
  BY <1>8 DEF TimerFires, ReportsTrue, vars, vars, work, rows, world, history
<1>9. ASSUME NEW r \in Records, NEW answer \in RelayAnswers,
            RetryControlNow(r, answer)
     PROVE  ReportsTrue' /\ taken \subseteq taken'
  BY <1>9 DEF RetryControlNow, ReportsTrue, vars, vars, work, rows, world, history
<1>10. ASSUME NEW r \in Records,
            Expires(r)
     PROVE  ReportsTrue' /\ taken \subseteq taken'
  BY <1>10 DEF Expires, ReportsTrue, vars, vars, work, rows, world, history
<1>11. ASSUME NEW d \in Drains,
            Wake(d)
     PROVE  ReportsTrue' /\ taken \subseteq taken'
  BY <1>11 DEF Wake, ReportsTrue, vars, vars, work, rows, world, history
<1>12. ASSUME NEW d \in Drains,
            DrainStarts(d)
     PROVE  ReportsTrue' /\ taken \subseteq taken'
  BY <1>12 DEF DrainStarts, ReportsTrue, vars, vars, work, rows, world, history
<1>13. ASSUME NEW d \in Drains, NEW r \in Records, NEW reachable \in BOOLEAN,
            DrainPicks(d, r, reachable)
     PROVE  ReportsTrue' /\ taken \subseteq taken'
  BY <1>13 DEF DrainPicks, ReportsTrue, vars, vars, work, rows, world, history
<1>14. ASSUME NEW d \in Drains,
            DrainEnds(d)
     PROVE  ReportsTrue' /\ taken \subseteq taken'
  BY <1>14 DEF DrainEnds, ReportsTrue, vars, vars, work, rows, world, history
<1>15. ASSUME NEW d \in Drains, NEW ok \in BOOLEAN,
            DrainDirectDone(d, ok)
     PROVE  ReportsTrue' /\ taken \subseteq taken'
  <2>1. drains[d].cur \in Records
    BY <1>15 DEF DrainDirectDone, Shape
  <2>2. \/ taken' = taken /\ reports' = reports
        \/ /\ taken' = taken \cup {drains[d].cur}
           /\ reports' = reports \cup Report(drains[d].cur, "retry", TRUE)
    BY <1>15 DEF DrainDirectDone
  <2>3. \A p \in Report(drains[d].cur, "retry", TRUE) : p.rec = drains[d].cur
    BY <2>1, ReportIsTyped
  <2> QED BY <2>2, <2>3 DEF ReportsTrue
<1>16. ASSUME NEW d \in Drains, NEW answer \in RelayAnswers,
            DrainRelays(d, answer)
     PROVE  ReportsTrue' /\ taken \subseteq taken'
  <2> PICK r \in Records : r = drains[d].cur
    BY <1>16, RelaysTo
  <2>1. /\ taken' = IF answer = "ok" THEN taken \cup {r} ELSE taken
        /\ reports' \subseteq reports \cup Report(r, "retry", answer = "ok")
    BY <1>16 DEF DrainRelays
  <2>2. (answer = "ok") \in BOOLEAN
    OBVIOUS
  <2>3. \A p \in Report(r, "retry", answer = "ok") : p.rec = r /\ p.ok = (answer = "ok")
    BY <2>2, ReportIsTyped
  <2>4. \A p \in Report(r, "retry", answer = "ok") : p.ok => p.rec \in taken'
    BY <2>1, <2>3
  <2> QED BY <2>1, <2>4 DEF ReportsTrue
<1>17. ASSUME NEW p \in reports,
            Look(p)
     PROVE  ReportsTrue' /\ taken \subseteq taken'
  <2>1. /\ taken' = taken
        /\ \A q \in reports' : q \in reports \/ q = [p EXCEPT !.at = "mark"]
    BY <1>17 DEF Look, history
  <2>2. LET q == [p EXCEPT !.at = "mark"] IN q.ok = p.ok /\ q.rec = p.rec
    BY DEF TypeOK, ReportType
  <2> QED BY <2>1, <2>2 DEF ReportsTrue
<1>18. ASSUME NEW p \in reports,
            Mark(p)
     PROVE  ReportsTrue' /\ taken \subseteq taken'
  BY <1>18 DEF Mark, ReportsTrue, vars, work, rows, world, history
<1>19. ASSUME Compromise PROVE ReportsTrue' /\ taken \subseteq taken'
  BY <1>19 DEF Compromise, ReportsTrue, vars, vars, work, rows, world, history
<1>20. ASSUME PublicKeyRotates PROVE ReportsTrue' /\ taken \subseteq taken'
  BY <1>20
       DEF PublicKeyRotates, Purge, Drop, ReportsTrue, vars, vars, work, rows,
           world, history
<1>21. ASSUME RelayGoes PROVE ReportsTrue' /\ taken \subseteq taken'
  BY <1>21 DEF RelayGoes, ReportsTrue, vars, vars, work, rows, world, history
<1>22. ASSUME RelayComes PROVE ReportsTrue' /\ taken \subseteq taken'
  BY <1>22 DEF RelayComes, ReportsTrue, vars, vars, work, rows, world, history
<1>23. ASSUME Restart PROVE ReportsTrue' /\ taken \subseteq taken'
  BY <1>23 DEF Restart, ReportsTrue, vars, vars, work, rows, world, history
<1>24. ASSUME UNCHANGED vars PROVE ReportsTrue' /\ taken \subseteq taken'
  BY <1>24 DEF ReportsTrue, vars, vars, work, rows, world, history
<1> QED BY <1>1, <1>2, <1>3, <1>4, <1>5, <1>6, <1>7, <1>8, <1>9, <1>10, <1>11,
           <1>12, <1>13, <1>14, <1>15, <1>16, <1>17, <1>18, <1>19, <1>20,
           <1>21, <1>22, <1>23, <1>24
           DEF Next, User, SendStep, ControlStep, DrainStep, ReportStep

\* A row comes to say delivered by such an outcome.
LEMMA RowStep ==
  ASSUME TypeOK, ReportsTrue, [Next]_vars
  PROVE  \A n \in Messages :
           row'[n] = "relayed" => row[n] = "relayed" \/ RecordsOf(n) \cap taken # {}
<1>1. ASSUME NEW m \in Messages, NEW k \in Kinds,
            Compose(m, k)
     PROVE  \A n \in Messages :
           row'[n] = "relayed" => row[n] = "relayed" \/ RecordsOf(n) \cap taken # {}
  BY <1>1, OutboxAssumption DEF Compose, TypeOK, vars, work, rows, world, history
<1>2. ASSUME NEW m \in Messages,
            Cancel(m)
     PROVE  \A n \in Messages :
           row'[n] = "relayed" => row[n] = "relayed" \/ RecordsOf(n) \cap taken # {}
  BY <1>2, OutboxAssumption
       DEF Cancel, Drop, TypeOK, vars, work, rows, world, history
<1>3. ASSUME PauseIntegrityOnly PROVE \A n \in Messages :
           row'[n] = "relayed" => row[n] = "relayed" \/ RecordsOf(n) \cap taken # {}
  BY <1>3, OutboxAssumption
       DEF PauseIntegrityOnly, Purge, Drop, rows, vars, work, rows, world, history
<1>4. ASSUME StartNewSecureChat PROVE \A n \in Messages :
           row'[n] = "relayed" => row[n] = "relayed" \/ RecordsOf(n) \cap taken # {}
  BY <1>4, OutboxAssumption
       DEF StartNewSecureChat, Purge, Drop, rows, vars, work, rows, world, history
<1>5. ASSUME NEW r \in Records, NEW reachable \in BOOLEAN, NEW routed \in BOOLEAN,
            SendDecides(r, reachable, routed)
     PROVE  \A n \in Messages :
           row'[n] = "relayed" => row[n] = "relayed" \/ RecordsOf(n) \cap taken # {}
  BY <1>5, OutboxAssumption DEF SendDecides, rows, vars, work, rows, world, history
<1>6. ASSUME NEW r \in Records, NEW ok \in BOOLEAN,
            DirectDone(r, ok)
     PROVE  \A n \in Messages :
           row'[n] = "relayed" => row[n] = "relayed" \/ RecordsOf(n) \cap taken # {}
  BY <1>6, OutboxAssumption DEF DirectDone, rows, vars, work, rows, world, history
<1>7. ASSUME NEW r \in Records, NEW answer \in RelayAnswers,
            RelaySend(r, answer)
     PROVE  \A n \in Messages :
           row'[n] = "relayed" => row[n] = "relayed" \/ RecordsOf(n) \cap taken # {}
  BY <1>7, OutboxAssumption DEF RelaySend, rows, vars, work, rows, world, history
<1>8. ASSUME NEW r \in Records,
            TimerFires(r)
     PROVE  \A n \in Messages :
           row'[n] = "relayed" => row[n] = "relayed" \/ RecordsOf(n) \cap taken # {}
  BY <1>8, OutboxAssumption DEF TimerFires, rows, vars, work, rows, world, history
<1>9. ASSUME NEW r \in Records, NEW answer \in RelayAnswers,
            RetryControlNow(r, answer)
     PROVE  \A n \in Messages :
           row'[n] = "relayed" => row[n] = "relayed" \/ RecordsOf(n) \cap taken # {}
  BY <1>9, OutboxAssumption
       DEF RetryControlNow, rows, vars, work, rows, world, history
<1>10. ASSUME NEW r \in Records,
            Expires(r)
     PROVE  \A n \in Messages :
           row'[n] = "relayed" => row[n] = "relayed" \/ RecordsOf(n) \cap taken # {}
  BY <1>10, OutboxAssumption DEF Expires, rows, vars, work, rows, world, history
<1>11. ASSUME NEW d \in Drains,
            Wake(d)
     PROVE  \A n \in Messages :
           row'[n] = "relayed" => row[n] = "relayed" \/ RecordsOf(n) \cap taken # {}
  BY <1>11, OutboxAssumption DEF Wake, rows, vars, work, rows, world, history
<1>12. ASSUME NEW d \in Drains,
            DrainStarts(d)
     PROVE  \A n \in Messages :
           row'[n] = "relayed" => row[n] = "relayed" \/ RecordsOf(n) \cap taken # {}
  BY <1>12, OutboxAssumption DEF DrainStarts, rows, vars, work, rows, world, history
<1>13. ASSUME NEW d \in Drains, NEW r \in Records, NEW reachable \in BOOLEAN,
            DrainPicks(d, r, reachable)
     PROVE  \A n \in Messages :
           row'[n] = "relayed" => row[n] = "relayed" \/ RecordsOf(n) \cap taken # {}
  BY <1>13, OutboxAssumption DEF DrainPicks, rows, vars, work, rows, world, history
<1>14. ASSUME NEW d \in Drains,
            DrainEnds(d)
     PROVE  \A n \in Messages :
           row'[n] = "relayed" => row[n] = "relayed" \/ RecordsOf(n) \cap taken # {}
  BY <1>14, OutboxAssumption DEF DrainEnds, rows, vars, work, rows, world, history
<1>15. ASSUME NEW d \in Drains, NEW ok \in BOOLEAN,
            DrainDirectDone(d, ok)
     PROVE  \A n \in Messages :
           row'[n] = "relayed" => row[n] = "relayed" \/ RecordsOf(n) \cap taken # {}
  BY <1>15, OutboxAssumption
       DEF DrainDirectDone, rows, vars, work, rows, world, history
<1>16. ASSUME NEW d \in Drains, NEW answer \in RelayAnswers,
            DrainRelays(d, answer)
     PROVE  \A n \in Messages :
           row'[n] = "relayed" => row[n] = "relayed" \/ RecordsOf(n) \cap taken # {}
  BY <1>16, OutboxAssumption DEF DrainRelays, rows, vars, work, rows, world, history
<1>17. ASSUME NEW p \in reports,
            Look(p)
     PROVE  \A n \in Messages :
           row'[n] = "relayed" => row[n] = "relayed" \/ RecordsOf(n) \cap taken # {}
  BY <1>17, OutboxAssumption DEF Look, rows, vars, work, rows, world, history
<1>18. ASSUME NEW p \in reports,
            Mark(p)
     PROVE  \A n \in Messages :
           row'[n] = "relayed" => row[n] = "relayed" \/ RecordsOf(n) \cap taken # {}
  <2>1. p.rec \in Records
    BY DEF TypeOK, ReportType
  <2>2. \A m \in Messages :
          row'[m] = row[m] \/ (m = MessageOf[p.rec] /\ row'[m] = Outcome(p.ok))
    BY <1>18 DEF Mark, TypeOK
  <2>3. Outcome(p.ok) = "relayed" => p.ok
    BY DEF Outcome
  <2>4. p.ok => p.rec \in RecordsOf(MessageOf[p.rec]) \cap taken
    BY <2>1 DEF ReportsTrue, RecordsOf
  <2> QED BY <2>2, <2>3, <2>4
<1>19. ASSUME Compromise PROVE \A n \in Messages :
           row'[n] = "relayed" => row[n] = "relayed" \/ RecordsOf(n) \cap taken # {}
  BY <1>19, OutboxAssumption DEF Compromise, rows, vars, work, rows, world, history
<1>20. ASSUME PublicKeyRotates PROVE \A n \in Messages :
           row'[n] = "relayed" => row[n] = "relayed" \/ RecordsOf(n) \cap taken # {}
  BY <1>20, OutboxAssumption
       DEF PublicKeyRotates, Purge, Drop, rows, vars, work, rows, world, history
<1>21. ASSUME RelayGoes PROVE \A n \in Messages :
           row'[n] = "relayed" => row[n] = "relayed" \/ RecordsOf(n) \cap taken # {}
  BY <1>21, OutboxAssumption DEF RelayGoes, rows, vars, work, rows, world, history
<1>22. ASSUME RelayComes PROVE \A n \in Messages :
           row'[n] = "relayed" => row[n] = "relayed" \/ RecordsOf(n) \cap taken # {}
  BY <1>22, OutboxAssumption DEF RelayComes, rows, vars, work, rows, world, history
<1>23. ASSUME Restart PROVE \A n \in Messages :
           row'[n] = "relayed" => row[n] = "relayed" \/ RecordsOf(n) \cap taken # {}
  BY <1>23, OutboxAssumption DEF Restart, rows, vars, work, rows, world, history
<1>24. ASSUME UNCHANGED vars PROVE \A n \in Messages :
           row'[n] = "relayed" => row[n] = "relayed" \/ RecordsOf(n) \cap taken # {}
  BY <1>24 DEF rows, vars, work, rows, world, history
<1> QED BY <1>1, <1>2, <1>3, <1>4, <1>5, <1>6, <1>7, <1>8, <1>9, <1>10, <1>11,
           <1>12, <1>13, <1>14, <1>15, <1>16, <1>17, <1>18, <1>19, <1>20,
           <1>21, <1>22, <1>23, <1>24
           DEF Next, User, SendStep, ControlStep, DrainStep, ReportStep

\* Only an outcome that says delivered marks a row so.
LEMMA DeliveredStep ==
  ASSUME TypeOK, Shape, ReportsTrue, NoFalseDelivered, [Next]_vars
  PROVE  NoFalseDelivered'
<1>1. taken \subseteq taken'
  BY ReportsStep
<1>2. \A m \in Messages : row'[m] = "relayed" => row[m] = "relayed" \/ RecordsOf(m) \cap taken # {}
  BY RowStep
<1>3. \A m \in Messages : row'[m] = "relayed" => RecordsOf(m) \cap taken' # {}
  BY <1>1, <1>2 DEF NoFalseDelivered
<1> QED BY <1>3 DEF NoFalseDelivered, RecordsOf

-----------------------------------------------------------------------------
(***************************************************************************)
(* How often a record is sent.                                             *)
(***************************************************************************)

\* What is held was sent at most as often as it was counted; what is not yet
\* with the relay was not sent.
SentOK ==
  \A r \in Records :
    /\ KindOf(r) = "none" \/ InSend(r) => sent[r] = 0
    /\ Held(r) => sent[r] <= attempts[r]

\* How a step counts the sends and the attempts of a record.
SendCounted(x) ==
  /\ InSend(x)' => InSend(x) \/ KindOf(x) = "none"
  /\ \/ sent'[x] = sent[x] /\ attempts[x] <= attempts'[x]
     \/ /\ InSend(x) /\ ~InSend(x)' /\ sent'[x] \in {sent[x], sent[x] + 1}
        /\ attempts'[x] = 1 \/ ~Held(x)'
     \/ /\ Held(x) /\ ~InSend(x)' /\ sent'[x] = sent[x] + 1
        /\ attempts'[x] = attempts[x] + 1 \/ ~Held(x)'

\* Every step counts them so.
LEMMA SendsStep ==
  ASSUME TypeOK, Shape, OneHolder, [Next]_vars
  PROVE  \A x \in Records : SendCounted(x)
<1>1. ASSUME NEW m \in Messages, NEW k \in Kinds,
            Compose(m, k)
     PROVE  \A x \in Records : SendCounted(x)
  BY <1>1, OutboxAssumption
       DEF Compose, TypeOK, InSend, KindOf, RecordsOf, history, SendCounted
<1>2. ASSUME NEW m \in Messages,
            Cancel(m)
     PROVE  \A x \in Records : SendCounted(x)
  BY <1>2, OutboxAssumption
       DEF Cancel, Drop, TypeOK, InSend, vars, work, rows, world, history,
           SendCounted
<1>3. ASSUME PauseIntegrityOnly PROVE \A x \in Records : SendCounted(x)
  BY <1>3, OutboxAssumption
       DEF PauseIntegrityOnly, Purge, Drop, TypeOK, InSend, vars, work, rows, world,
           history, SendCounted
<1>4. ASSUME StartNewSecureChat PROVE \A x \in Records : SendCounted(x)
  BY <1>4, OutboxAssumption
       DEF StartNewSecureChat, Purge, Drop, TypeOK, InSend, vars, work, rows, world,
           history, SendCounted
<1>5. ASSUME NEW r \in Records, NEW reachable \in BOOLEAN, NEW routed \in BOOLEAN,
            SendDecides(r, reachable, routed)
     PROVE  \A x \in Records : SendCounted(x)
  <2>1. \A x \in Records : InSend(x)' => InSend(x)
    BY <1>5 DEF SendDecides, InSend, TypeOK
  <2>2. UNCHANGED <<sent, attempts>>
    BY <1>5 DEF SendDecides, history
  <2>3. \A x \in Records : attempts[x] <= attempts[x]
    BY OutboxAssumption DEF TypeOK
  <2> QED BY <2>1, <2>2, <2>3 DEF SendCounted
<1>6. ASSUME NEW r \in Records, NEW ok \in BOOLEAN,
            DirectDone(r, ok)
     PROVE  \A x \in Records : SendCounted(x)
  BY <1>6, OutboxAssumption DEF DirectDone, TypeOK, InSend, SendCounted
<1>7. ASSUME NEW r \in Records, NEW answer \in RelayAnswers,
            RelaySend(r, answer)
     PROVE  \A x \in Records : SendCounted(x)
  <2>1. InSend(r) /\ ~InSend(r)' /\ \A x \in Records \ {r} : InSend(x)' <=> InSend(x)
    BY <1>7 DEF RelaySend, InSend, TypeOK
  <2>2. /\ \A x \in Records \ {r} : sent'[x] = sent[x] /\ attempts'[x] = attempts[x]
        /\ sent'[r] \in {sent[r], sent[r] + 1}
    BY <1>7 DEF RelaySend, CountSend, TypeOK
  <2>3. attempts'[r] = 1 \/ ~Held(r)'
    <3>1. CASE answer = "ok"
      <4>1. UNCHANGED <<queue, timers, fired, drains>>
        BY <1>7, <3>1 DEF RelaySend
      <4> QED BY <2>1, <4>1 DEF OneHolder, Held, InDrain
    <3>2. CASE answer # "ok"
      BY <1>7, <3>2 DEF RelaySend, TypeOK
    <3> QED BY <3>1, <3>2
  <2>4. \A x \in Records : attempts[x] <= attempts[x]
    BY OutboxAssumption DEF TypeOK
  <2> QED BY <2>1, <2>2, <2>3, <2>4 DEF SendCounted
<1>8. ASSUME NEW r \in Records,
            TimerFires(r)
     PROVE  \A x \in Records : SendCounted(x)
  BY <1>8, OutboxAssumption
       DEF TimerFires, TypeOK, InSend, vars, work, rows, world, history, SendCounted
<1>9. ASSUME NEW r \in Records, NEW answer \in RelayAnswers,
            RetryControlNow(r, answer)
     PROVE  \A x \in Records : SendCounted(x)
  <2>1. sent' = sent /\ sending' = sending
    BY <1>9 DEF RetryControlNow
  <2>2. \A x \in Records : attempts[x] <= attempts'[x]
    BY <1>9, OutboxAssumption DEF RetryControlNow, Count, TypeOK
  <2> QED BY <2>1, <2>2 DEF InSend, SendCounted
<1>10. ASSUME NEW r \in Records,
            Expires(r)
     PROVE  \A x \in Records : SendCounted(x)
  BY <1>10, OutboxAssumption
       DEF Expires, TypeOK, InSend, vars, work, rows, world, history, SendCounted
<1>11. ASSUME NEW d \in Drains,
            Wake(d)
     PROVE  \A x \in Records : SendCounted(x)
  BY <1>11, OutboxAssumption
       DEF Wake, TypeOK, InSend, vars, work, rows, world, history, SendCounted
<1>12. ASSUME NEW d \in Drains,
            DrainStarts(d)
     PROVE  \A x \in Records : SendCounted(x)
  BY <1>12, OutboxAssumption
       DEF DrainStarts, TypeOK, InSend, vars, work, rows, world, history,
           SendCounted
<1>13. ASSUME NEW d \in Drains, NEW r \in Records, NEW reachable \in BOOLEAN,
            DrainPicks(d, r, reachable)
     PROVE  \A x \in Records : SendCounted(x)
  BY <1>13, OutboxAssumption
       DEF DrainPicks, TypeOK, InSend, vars, work, rows, world, history, SendCounted
<1>14. ASSUME NEW d \in Drains,
            DrainEnds(d)
     PROVE  \A x \in Records : SendCounted(x)
  BY <1>14, OutboxAssumption
       DEF DrainEnds, TypeOK, InSend, vars, work, rows, world, history, SendCounted
<1>15. ASSUME NEW d \in Drains, NEW ok \in BOOLEAN,
            DrainDirectDone(d, ok)
     PROVE  \A x \in Records : SendCounted(x)
  BY <1>15, OutboxAssumption
       DEF DrainDirectDone, TypeOK, InSend, vars, work, rows, world, history,
           SendCounted
<1>16. ASSUME NEW d \in Drains, NEW answer \in RelayAnswers,
            DrainRelays(d, answer)
     PROVE  \A x \in Records : SendCounted(x)
  <2> PICK r \in Records : r = drains[d].cur
    BY <1>16, RelaysTo
  <2>1. UNCHANGED <<sending, queue, timers, fired>>
    BY <1>16 DEF DrainRelays
  <2>2. InDrain(d, r) /\ Apart(d, r) /\ Held(r)
    BY DEF OneHolder, InDrain, Held
  <2>3. r \notin queue \cup timers \cup fired /\ ~InSend(r)
    BY <2>2 DEF OneHolder
  <2>4. \A e \in Drains \ {d} : ~InDrain(e, r)'
    <3>1. \A e \in Drains \ {d} : ~InDrain(e, r)
      BY <2>2 DEF OneHolder
    <3> QED BY <1>16, RelaysTo, <3>1 DEF InDrain
  <2>5. \A x \in Records : InSend(x)' <=> InSend(x)
    BY <2>1 DEF InSend
  <2>6. /\ \A x \in Records \ {r} : sent'[x] = sent[x]
        /\ sent'[r] \in {sent[r], sent[r] + 1}
    BY <1>16 DEF DrainRelays, CountSend, TypeOK
  <2>7. /\ \A x \in Records \ {r} : attempts'[x] = attempts[x]
        /\ attempts'[r] = IF Again(d, answer) THEN attempts[r] + 1 ELSE attempts[r]
    BY <1>16 DEF DrainRelays, Again, TypeOK
  <2>8. \A x \in Records : attempts[x] \in Nat
    BY OutboxAssumption DEF TypeOK
  <2>9. ~Again(d, answer) => ~Held(r)'
    <3>1. ~Again(d, answer) => ~InDrain(d, r)'
      BY <1>16, RelaysTo, <2>2, OutboxAssumption DEF InDrain, Apart
    <3> QED BY <2>1, <2>3, <2>4, <2>5, <3>1 DEF Held
  <2>10. \A x \in Records : attempts[x] <= attempts[x] /\ attempts[x] <= attempts[x] + 1
    BY <2>8
  <2>11. /\ ~InSend(r)'
         /\ attempts'[r] = attempts[r] + 1 \/ ~Held(r)'
         /\ attempts[r] <= attempts'[r]
    BY <2>3, <2>5, <2>7, <2>9, <2>10
  <2>12. \A x \in Records \ {r} : sent'[x] = sent[x] /\ attempts[x] <= attempts'[x]
    BY <2>6, <2>7, <2>10
  <2>13. CASE sent'[r] = sent[r]
    BY <2>5, <2>11, <2>12, <2>13 DEF SendCounted
  <2>14. CASE sent'[r] = sent[r] + 1
    BY <2>2, <2>5, <2>11, <2>12, <2>14 DEF SendCounted
  <2> QED BY <2>6, <2>13, <2>14
<1>17. ASSUME NEW p \in reports,
            Look(p)
     PROVE  \A x \in Records : SendCounted(x)
  BY <1>17, OutboxAssumption
       DEF Look, TypeOK, InSend, vars, work, rows, world, history, SendCounted
<1>18. ASSUME NEW p \in reports,
            Mark(p)
     PROVE  \A x \in Records : SendCounted(x)
  BY <1>18, OutboxAssumption
       DEF Mark, TypeOK, InSend, vars, work, rows, world, history, SendCounted
<1>19. ASSUME Compromise PROVE \A x \in Records : SendCounted(x)
  BY <1>19, OutboxAssumption
       DEF Compromise, TypeOK, InSend, vars, work, rows, world, history, SendCounted
<1>20. ASSUME PublicKeyRotates PROVE \A x \in Records : SendCounted(x)
  BY <1>20, OutboxAssumption
       DEF PublicKeyRotates, Purge, Drop, TypeOK, InSend, vars, work, rows, world,
           history, SendCounted
<1>21. ASSUME RelayGoes PROVE \A x \in Records : SendCounted(x)
  BY <1>21, OutboxAssumption
       DEF RelayGoes, TypeOK, InSend, vars, work, rows, world, history, SendCounted
<1>22. ASSUME RelayComes PROVE \A x \in Records : SendCounted(x)
  BY <1>22, OutboxAssumption
       DEF RelayComes, TypeOK, InSend, vars, work, rows, world, history, SendCounted
<1>23. ASSUME Restart PROVE \A x \in Records : SendCounted(x)
  <2>1. \A x \in Records : ~InSend(x)'
    BY <1>23 DEF Restart, InSend
  <2>2. sent' = sent /\ attempts' = attempts
    BY <1>23 DEF Restart
  <2>3. \A x \in Records : attempts[x] <= attempts[x]
    BY OutboxAssumption DEF TypeOK
  <2> QED BY <2>1, <2>2, <2>3 DEF SendCounted
<1>24. ASSUME UNCHANGED vars PROVE \A x \in Records : SendCounted(x)
  BY <1>24 DEF TypeOK, InSend, vars, work, rows, world, history, SendCounted
<1> QED BY <1>1, <1>2, <1>3, <1>4, <1>5, <1>6, <1>7, <1>8, <1>9, <1>10, <1>11,
           <1>12, <1>13, <1>14, <1>15, <1>16, <1>17, <1>18, <1>19, <1>20,
           <1>21, <1>22, <1>23, <1>24
           DEF Next, User, SendStep, ControlStep, DrainStep, ReportStep

LEMMA SentStep ==
  ASSUME TypeOK, Shape, OneHolder, Composed, SentOK, TypeOK', [Next]_vars
  PROVE  /\ SentOK'
         /\ \A x \in Records :
              \/ sent'[x] = sent[x]
              \/ Held(x) /\ sent[x] < MaxAttempts + 1 /\ sent'[x] = sent[x] + 1
<1> SUFFICES ASSUME NEW x \in Records
             PROVE  /\ KindOf(x)' = "none" \/ InSend(x)' => sent'[x] = 0
                    /\ Held(x)' => sent'[x] <= attempts'[x]
                    /\ \/ sent'[x] = sent[x]
                       \/ Held(x) /\ sent[x] < MaxAttempts + 1 /\ sent'[x] = sent[x] + 1
  BY DEF SentOK
<1>1. /\ sent[x] \in Nat /\ attempts[x] \in 0..MaxAttempts
      /\ sent'[x] \in Nat /\ attempts'[x] \in 0..MaxAttempts /\ MaxAttempts \in Nat
  BY OutboxAssumption DEF TypeOK
<1>2. /\ KindOf(x) = "none" \/ InSend(x) => sent[x] = 0
      /\ Held(x) => sent[x] <= attempts[x]
      /\ KindOf(x) = "none" => ~Held(x)
      /\ InSend(x) => Held(x)
  BY DEF SentOK, Composed, Held
<1>3. /\ KindOf(x)' = "none" => KindOf(x) = "none"
      /\ Held(x)' => Held(x) \/ KindOf(x) = "none"
      /\ InSend(x)' => InSend(x) \/ KindOf(x) = "none"
  BY KindStep, HeldStep, SendsStep DEF SendCounted, ComposedOnce
<1>4. CASE sent'[x] = sent[x] /\ attempts[x] <= attempts'[x]
  BY <1>1, <1>2, <1>3, <1>4
<1>5. CASE /\ InSend(x) /\ ~InSend(x)' /\ sent'[x] \in {sent[x], sent[x] + 1}
           /\ attempts'[x] = 1 \/ ~Held(x)'
  BY <1>1, <1>2, <1>3, <1>5
<1>6. CASE /\ Held(x) /\ ~InSend(x)' /\ sent'[x] = sent[x] + 1
           /\ attempts'[x] = attempts[x] + 1 \/ ~Held(x)'
  BY <1>1, <1>2, <1>3, <1>6
<1> QED BY <1>4, <1>5, <1>6, SendsStep DEF SendCounted

-----------------------------------------------------------------------------
(***************************************************************************)
(* The invariant.                                                          *)
(***************************************************************************)

Inv ==
  /\ TypeOK /\ Shape /\ OneHolder /\ Composed /\ StoppedIsGone
  /\ ReportsTrue /\ NoFalseDelivered /\ SentOK

LEMMA InitInv == Init => Inv
<1> SUFFICES ASSUME Init PROVE Inv
  OBVIOUS
<1>1. TypeOK /\ Shape
  BY InitType
<1>2. \A r \in Records : ~Held(r) /\ ~InSend(r) /\ \A d \in Drains : ~InDrain(d, r)
  BY IdleIs, OutboxAssumption DEF Init, Held, InSend, InDrain
<1>3. OneHolder
  BY <1>2 DEF OneHolder, Init
<1>4. Composed /\ StoppedIsGone
  BY <1>2 DEF Composed, StoppedIsGone, Init
<1>5. ReportsTrue /\ NoFalseDelivered
  BY DEF ReportsTrue, NoFalseDelivered, Init
<1>6. SentOK
  BY <1>2 DEF SentOK, Init
<1> QED BY <1>1, <1>3, <1>4, <1>5, <1>6 DEF Inv

LEMMA NextInv == Inv /\ [Next]_vars => Inv'
<1> SUFFICES ASSUME Inv, [Next]_vars PROVE Inv'
  OBVIOUS
<1> USE DEF Inv
<1>1. TypeOK'
  BY TypeStep
<1>2. Shape'
  BY ShapeStep
<1>3. OneHolder'
  BY OneHolderStep
<1>4. Composed' /\ StoppedIsGone'
  BY ComposedStep
<1>5. ReportsTrue'
  BY ReportsStep
<1>6. NoFalseDelivered'
  BY DeliveredStep
<1>7. SentOK'
  BY <1>1, SentStep
<1> QED BY <1>1, <1>2, <1>3, <1>4, <1>5, <1>6, <1>7

\* Each record, batch and row stays consistent whatever workers, timers, wakes,
\* cancels and restarts do.
THEOREM Invariance == Spec => []Inv
<1>1. Init => Inv
  BY InitInv
<1>2. Inv /\ [Next]_vars => Inv'
  BY NextInv
<1> QED BY <1>1, <1>2, PTL DEF Spec

\* The types hold in every state, for any limits.
THEOREM TypeCorrect == Spec => []TypeOK
<1>1. Inv => TypeOK
  BY DEF Inv
<1> QED BY <1>1, Invariance, PTL

\* No record is ever in two places, however many wakes run at once.
THEOREM HeldOnce == Spec => []OneHolder
<1>1. Inv => OneHolder
  BY DEF Inv
<1> QED BY <1>1, Invariance, PTL

\* What a cancel or purge took out never comes back.
THEOREM StoppedForGood == Spec => []StoppedIsGone
<1>1. Inv => StoppedIsGone
  BY DEF Inv
<1> QED BY <1>1, Invariance, PTL

\* No row says delivered without a transport's word for one of its records.
THEOREM DeliveredIsTaken == Spec => []NoFalseDelivered
<1>1. Inv => NoFalseDelivered
  BY DEF Inv
<1> QED BY <1>1, Invariance, PTL

-----------------------------------------------------------------------------
(***************************************************************************)
(* The outbox implements DeliveryPromise (its safety part; that no record  *)
(* is held for ever is TLC's).                                             *)
(***************************************************************************)

LEMMA PromiseInit == Init => Promise!Init
<1> SUFFICES ASSUME Init PROVE Promise!Init
  OBVIOUS
<1>1. \A r \in Records : StatusOf(r) = "new"
  BY OutboxAssumption DEF Init, StatusOf, KindOf
<1> QED BY <1>1 DEF Promise!Init, Init

\* The statuses of a record, told apart.
LEMMA StatusIs ==
  ASSUME NEW x \in Records
  PROVE  /\ KindOf(x) = "none" => StatusOf(x) = "new"
         /\ KindOf(x) # "none" /\ Held(x) => StatusOf(x) = "held"
         /\ KindOf(x) # "none" /\ ~Held(x) /\ x \in taken => StatusOf(x) = "taken"
         /\ KindOf(x) # "none" /\ ~Held(x) /\ x \notin taken => StatusOf(x) = "dropped"
  BY DEF StatusOf

LEMMA StatusWillBe ==
  ASSUME NEW x \in Records
  PROVE  /\ KindOf(x)' = "none" => StatusOf(x)' = "new"
         /\ KindOf(x)' # "none" /\ Held(x)' => StatusOf(x)' = "held"
         /\ KindOf(x)' # "none" /\ ~Held(x)' /\ x \in taken' => StatusOf(x)' = "taken"
         /\ KindOf(x)' # "none" /\ ~Held(x)' /\ x \notin taken' => StatusOf(x)' = "dropped"
  BY DEF StatusOf

\* Every step of the outbox is a step of the promise, for each record.
LEMMA RecordStep ==
  ASSUME Inv, [Next]_vars, NEW x \in Records
  PROVE  /\ \/ StatusOf(x)' = StatusOf(x)
            \/ StatusOf(x) = "new" /\ StatusOf(x)' = "held"
            \/ StatusOf(x) = "held" /\ StatusOf(x)' \in {"taken", "dropped"}
         /\ \/ sent'[x] = sent[x]
            \/ StatusOf(x) = "held" /\ sent[x] < MaxAttempts + 1 /\ sent'[x] = sent[x] + 1
<1>1. /\ KindOf(x) # "none" => KindOf(x)' = KindOf(x)
      /\ KindOf(x) = "none" /\ KindOf(x)' # "none" => Held(x)'
  BY KindStep DEF Inv, ComposedOnce
<1>2. Held(x)' => Held(x) \/ (KindOf(x) = "none" /\ KindOf(x)' # "none")
  BY HeldStep DEF Inv
<1>3. KindOf(x) = "none" => ~Held(x) /\ x \notin taken
  BY DEF Inv, Composed
<1>4. (x \in taken' /\ x \notin taken => Held(x)) /\ (x \in taken => x \in taken')
  BY TakenStep, ReportsStep DEF Inv
<1>5. \/ sent'[x] = sent[x]
      \/ Held(x) /\ sent[x] < MaxAttempts + 1 /\ sent'[x] = sent[x] + 1
  BY SentStep, TypeStep DEF Inv
<1> QED BY <1>1, <1>2, <1>3, <1>4, <1>5, StatusIs, StatusWillBe

LEMMA PromiseStep == Inv /\ [Next]_vars => [Promise!Next]_(Promise!vars)
<1> SUFFICES ASSUME Inv, [Next]_vars PROVE Promise!Next
  BY DEF Promise!vars
<1>1. \A x \in Records : Promise!Step(x)
  BY RecordStep DEF Promise!Step
<1> QED BY <1>1 DEF Promise!Next

\* Whatever the outbox does, seen record by record, is what DeliveryPromise allows.
THEOREM PromiseKept == Spec => Promise!Init /\ [][Promise!Next]_(Promise!vars)
<1>1. Init => Promise!Init
  BY PromiseInit
<1>2. Inv /\ [Next]_vars => [Promise!Next]_(Promise!vars)
  BY PromiseStep
<1> QED BY <1>1, <1>2, Invariance, PTL DEF Spec
=============================================================================
