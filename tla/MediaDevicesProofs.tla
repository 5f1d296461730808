---------------------------- MODULE MediaDevicesProofs ----------------------------
(***************************************************************************)
(* Proofs about MediaDevices, for any requests, callers and policies.      *)
(*                                                                         *)
(* What makes them go through: an endpoint that is open is in its lease,   *)
(* in the hands of a release, or with a task (OpenFits), and a lane serves *)
(* the requests of a caller in their order (OrderFits).  So when the lane  *)
(* opens a device for a request, what the caller had open before is shut:  *)
(* its close would be ahead of the open.                                   *)
(***************************************************************************)
EXTENDS MediaDevices, TLAPS

\* The request's task was posted.
Posted(r) == phase[r] \in {"waiting", "granted", "reopening", "reopened", "leaving"}

Pending(f) == {queue[f][i] : i \in 1..Len(queue[f])}

\* A caller goes on to its next request when it is through with the last one.
Turn == \A r \in Request : phase[r] # "idle" => \A p \in Earlier(r) : Over(p)

\* Who is among the holders, and that nobody is missing.
HoldersFit ==
  /\ \A s \in holders :
       /\ s \in Slots(s[1])
       /\ rel[s] \in {"kept", "taken"}
       /\ phase[s[1]] \notin {"idle", "asked", "refused"}
       /\ phase[s[1]] = "half" => s[2] = "mic"
  /\ \A r \in Request : phase[r] = "held" \/ Posted(r) =>
       \A s \in Slots(r) : rel[s] \in {"kept", "taken"} => s \in holders
  /\ \A r \in Request : phase[r] = "half" => Wanted(r) = "duplex" /\ First(r) \in holders
  /\ \A s \in holders, t \in holders : s[2] = t[2] /\ Exclusive(s[2]) => s = t

\* Only a settled request releases its slots.
ReleaseFits ==
  \A s \in Slot : Released(s) => s \in Slots(s[1]) /\ Settled(s[1])

TaskFits(tk) ==
  /\ Posted(tk.req)
  /\ tk.op \in {"open", "reopen"} => tk.slots = Slots(tk.req)
  /\ tk.op = "close" => \E s \in Slots(tk.req) : tk.slots = {s} /\ rel[s] = "done"

RunFits(w) ==
  run[w] # Idle =>
    /\ TaskFits(run[w].task)
    /\ \/ w = LaneOf(run[w].task.req)
       \/ w = run[w].task.req /\ LaneOf(w) \in stopped
    /\ run[w].fresh \subseteq run[w].task.slots
    /\ run[w].at \in {"start", "opening"} => run[w].fresh = {}
    /\ run[w].at = "letting" => run[w].task.op = "reopen"
    /\ run[w].at \in {"opening", "opened"} => run[w].task.op = "open"

LaneFits(f) ==
  /\ \A tk \in Pending(f) : TaskFits(tk) /\ LaneOf(tk.req) = f
  /\ f \in stopped => queue[f] = <<>> /\ run[f] = Idle

TasksFit == (\A w \in Worker : RunFits(w)) /\ (\A f \in Lane : LaneFits(f))

\* A caller that runs a task itself is at nothing else, and it lets its slots go
\* one after the other.
CallerFits ==
  \A r \in Request :
    /\ run[r] # Idle =>
         /\ run[r].task.op \in {"open", "reopen"} => phase[r] \in {"waiting", "reopening"}
         /\ \A s \in Slots(r) : rel[s] \in {"kept", "done"}
    /\ \A s, t \in Slots(r) :
         rel[s] \in {"taken", "unheld"} /\ rel[t] \in {"taken", "unheld"} => s = t

SameCaller(p, r) == setup.caller[p] = setup.caller[r]

\* A lane serves the requests of a caller in their order.
InOrder(f) ==
  /\ \A i, j \in 1..Len(queue[f]) :
       i < j /\ SameCaller(queue[f][i].req, queue[f][j].req) =>
         queue[f][i].req <= queue[f][j].req
  /\ run[f] # Idle =>
       \A tk \in Pending(f) : SameCaller(Req(f), tk.req) => Req(f) <= tk.req

\* While a lane has a task of a request, nothing of a later one is open.
LaterIsShut(tk) ==
  \A s \in open :
    SameCaller(tk.req, s[1]) /\ LaneOf(tk.req) = LaneOf(s[1]) => s[1] <= tk.req

OrderFits ==
  /\ \A f \in Lane : InOrder(f) /\ \A tk \in Pending(f) : LaterIsShut(tk)
  /\ \A f \in Lane : run[f] # Idle => LaterIsShut(run[f].task)

\* Where an open endpoint is.
Closing(tk, s) == tk.op = "close" /\ s \in tk.slots

AtWork(w, s) == run[w] # Idle /\ (s \in run[w].fresh \/ Closing(run[w].task, s))

OpenFits ==
  /\ \A s \in endpoint : s \in Slots(s[1]) /\ ~Released(s) /\ Posted(s[1])
  /\ \A s \in hand : rel[s] \in {"taken", "unheld"}
  /\ \A s \in open :
       \/ s \in endpoint \cup hand
       \/ \E w \in Worker : AtWork(w, s)
       \/ \E f \in Lane : \E tk \in Pending(f) : Closing(tk, s)

OneOfCaller ==
  \A s \in open, t \in open : s[2] = t[2] /\ SameCaller(s[1], t[1]) => s = t

Inv ==
  /\ TypeOK /\ Turn /\ HoldersFit /\ ReleaseFits /\ TasksFit /\ CallerFits
  /\ OrderFits /\ OpenFits /\ OneOfCaller

-----------------------------------------------------------------------------
(***************************************************************************)
(* Types, and what each step leaves of the setup.                          *)
(***************************************************************************)

LEMMA SetupType ==
  ASSUME TypeOK, NEW r \in Request
  PROVE  /\ Wanted(r) \in Want
         /\ KindsOf(r) \subseteq Kind
         /\ Slots(r) \subseteq Slot
         /\ LaneOf(r) \in Lane
         /\ First(r) \in Slots(r)
         /\ \A s \in Slots(r) : s[1] = r
<1>1. Wanted(r) \in Want
  BY MediaAssumption DEF TypeOK, Wanted
<1>2. KindsOf(r) \subseteq Kind
  BY <1>1 DEF KindsOf, Want, Kind
<1>3. First(r) \in Slots(r)
  BY DEF First, Slots, KindsOf
<1> QED BY <1>1, <1>2, <1>3 DEF Slots, Slot, LaneOf, Lane

LEMMA SlotType ==
  ASSUME NEW s \in Slot
  PROVE  s[1] \in Request /\ s[2] \in Kind /\ s = <<s[1], s[2]>>
  BY DEF Slot

\* Slots of one kind belong to requests of one lane, and differ by request.
LEMMA SameKindSameLane ==
  ASSUME TypeOK, NEW p \in Request, NEW r \in Request,
         NEW s \in Slots(p), NEW t \in Slots(r), s[2] = t[2]
  PROVE  LaneOf(p) = LaneOf(r) /\ (p = r => s = t)
  BY SetupType DEF Slots, KindsOf, LaneOf, Want, Kind, Wanted

LEMMA WorkerType ==
  ASSUME TypeOK, NEW w \in Worker, run[w] # Idle
  PROVE  /\ run[w] \in Running
         /\ run[w].task \in Task
         /\ Req(w) \in Request
         /\ run[w].fresh \subseteq Slot
  BY DEF TypeOK, Running, Task, Req

LEMMA StartedType ==
  ASSUME NEW tk \in Task
  PROVE  /\ Started(tk) \in Running /\ Started(tk) # Idle
         /\ Started(tk).task = tk /\ Started(tk).at = "start"
         /\ Started(tk).fresh = {}
  BY DEF Started, Running, Idle

\* What an idle worker and one with a task differ in.
LEMMA RunningIsNotIdle == \A x \in Running : x # Idle
  BY DEF Running, Idle

LEMMA InitType == Init => TypeOK
  BY DEF Init, TypeOK, Phase, Lane

\* What posting a task makes of the lanes and of the caller's own work.
LEMMA PostTo ==
  ASSUME TypeOK, NEW r \in Request, NEW tk \in Task, Post(r, tk)
  PROVE  /\ run' \in [Worker -> Running \cup {Idle}]
         /\ queue' \in [Lane -> Seq(Task)]
         /\ \A w \in Worker \ {r} : run'[w] = run[w]
         /\ \A f \in Lane \ {LaneOf(r)} : queue'[f] = queue[f]
         /\ \/ /\ LaneOf(r) \notin stopped
               /\ run' = run
               /\ queue'[LaneOf(r)] = Append(queue[LaneOf(r)], tk)
            \/ /\ LaneOf(r) \in stopped
               /\ queue' = queue
               /\ run'[r] = Started(tk)
<1>1. LaneOf(r) \in Lane /\ r \in Worker
  BY SetupType DEF Worker
<1>2. /\ run \in [Worker -> Running \cup {Idle}]
      /\ queue \in [Lane -> Seq(Task)]
  BY DEF TypeOK
<1>3. CASE LaneOf(r) \notin stopped
  <2>1. run' = run /\ queue' = [queue EXCEPT ![LaneOf(r)] = Append(@, tk)]
    BY <1>3 DEF Post
  <2>2. Append(queue[LaneOf(r)], tk) \in Seq(Task)
    BY <1>1, <1>2
  <2> QED BY <1>1, <1>2, <1>3, <2>1, <2>2
<1>4. CASE LaneOf(r) \in stopped
  <2>1. queue' = queue /\ run' = [run EXCEPT ![r] = Started(tk)]
    BY <1>4 DEF Post
  <2> QED BY <1>1, <1>2, <1>4, <2>1, StartedType
<1> QED BY <1>3, <1>4

LEMMA TakeTo ==
  ASSUME TypeOK, NEW f \in Lane, TakeTask(f)
  PROVE  /\ run' \in [Worker -> Running \cup {Idle}]
         /\ queue' \in [Lane -> Seq(Task)]
         /\ \A w \in Worker \ {f} : run'[w] = run[w]
         /\ \A g \in Lane \ {f} : queue'[g] = queue[g]
         /\ queue[f] # <<>> /\ Head(queue[f]) \in Task
         /\ run'[f] = Started(Head(queue[f]))
         /\ queue'[f] = Tail(queue[f])
<1>1. /\ run \in [Worker -> Running \cup {Idle}] /\ f \in Worker
      /\ queue \in [Lane -> Seq(Task)]
  BY DEF TypeOK, Worker
<1>2. queue[f] \in Seq(Task) /\ queue[f] # <<>>
  BY <1>1 DEF TakeTask
<1>3. Head(queue[f]) \in Task /\ Tail(queue[f]) \in Seq(Task)
  BY <1>2
<1>4. /\ run' = [run EXCEPT ![f] = Started(Head(queue[f]))]
      /\ queue' = [queue EXCEPT ![f] = Tail(@)]
  BY DEF TakeTask
<1> QED BY <1>1, <1>2, <1>3, <1>4, StartedType

\* The next state of a worker with a task, step by step.
LEMMA FinishTo ==
  ASSUME TypeOK, NEW w \in Worker, run[w] # Idle, Finish(w)
  PROVE  /\ run' \in [Worker -> Running \cup {Idle}]
         /\ run'[w] = Idle
         /\ \A v \in Worker \ {w} : run'[v] = run[v]
         /\ phase' \in [Request -> Phase]
         /\ \A r \in Request : phase'[r] = phase[r] \/ (r = Req(w) /\ phase'[r] = Answer(r))
<1>1. run \in [Worker -> Running \cup {Idle}] /\ phase \in [Request -> Phase]
  BY DEF TypeOK
<1>2. Req(w) \in Request
  BY WorkerType
<1>3. Answer(Req(w)) \in Phase
  BY <1>1, <1>2 DEF Answer, Phase
<1> QED BY <1>1, <1>2, <1>3 DEF Finish

LEMMA StartOpenTo ==
  ASSUME TypeOK, NEW w \in Worker, StartOpen(w)
  PROVE  /\ run[w] # Idle /\ run[w].at = "start" /\ run[w].task.op = "open"
         /\ run' \in [Worker -> Running \cup {Idle}]
         /\ \A v \in Worker \ {w} : run'[v] = run[v]
         /\ run'[w] = [at |-> "opening", task |-> run[w].task, fresh |-> run[w].fresh,
                       over |-> run[w].over]
<1>1. run \in [Worker -> Running \cup {Idle}]
  BY DEF TypeOK
<1>2. run[w] # Idle /\ run[w].at = "start" /\ run[w].task.op = "open"
  BY DEF StartOpen, At, Op
<1>3. run[w] \in Running
  BY <1>2, WorkerType
<1>4. run' = [run EXCEPT ![w].at = "opening"]
  BY DEF StartOpen
<1>5. run'[w] = [at |-> "opening", task |-> run[w].task, fresh |-> run[w].fresh,
                 over |-> run[w].over]
  BY <1>1, <1>3, <1>4 DEF Running
<1>6. run'[w] \in Running
  BY <1>3, <1>5 DEF Running
<1> QED BY <1>1, <1>2, <1>4, <1>5, <1>6

LEMMA StartReopenTo ==
  ASSUME TypeOK, NEW w \in Worker, StartReopen(w)
  PROVE  /\ run[w] # Idle /\ run[w].at = "start" /\ run[w].task.op = "reopen"
         /\ run' \in [Worker -> Running \cup {Idle}]
         /\ \A v \in Worker \ {w} : run'[v] = run[v]
         /\ run'[w] = [at |-> "letting", task |-> run[w].task,
                       fresh |-> endpoint \cap run[w].task.slots, over |-> run[w].over]
<1>1. run \in [Worker -> Running \cup {Idle}]
  BY DEF TypeOK
<1>2. run[w] # Idle /\ run[w].at = "start" /\ run[w].task.op = "reopen"
  BY DEF StartReopen, At, Op
<1>3. run[w] \in Running
  BY <1>2, WorkerType
<1>4. run' = [run EXCEPT ![w].at = "letting", ![w].fresh = endpoint \cap run[w].task.slots]
  BY DEF StartReopen
<1>5. run'[w] = [at |-> "letting", task |-> run[w].task,
                 fresh |-> endpoint \cap run[w].task.slots, over |-> run[w].over]
  BY <1>1, <1>3, <1>4 DEF Running
<1>6. run[w].task.slots \subseteq Slot
  BY <1>3 DEF Running, Task
<1>7. run'[w] \in Running
  BY <1>3, <1>5, <1>6 DEF Running
<1> QED BY <1>1, <1>2, <1>4, <1>5, <1>7

LEMMA CloseOldTo ==
  ASSUME TypeOK, NEW w \in Worker, CloseOld(w)
  PROVE  /\ run[w] # Idle /\ run[w].at = "letting"
         /\ run' \in [Worker -> Running \cup {Idle}]
         /\ \A v \in Worker \ {w} : run'[v] = run[v]
         /\ run'[w] = [at |-> "start",
                       task |-> [op |-> "open", req |-> Req(w), slots |-> run[w].task.slots],
                       fresh |-> {}, over |-> run[w].over]
<1>1. run \in [Worker -> Running \cup {Idle}]
  BY DEF TypeOK
<1>2. run[w] # Idle /\ run[w].at = "letting"
  BY DEF CloseOld, At
<1>3. run[w] \in Running /\ run[w].task \in Task
  BY <1>2, WorkerType
<1>4. run' = [run EXCEPT ![w].at = "start", ![w].fresh = {}, ![w].task.op = "open"]
  BY DEF CloseOld
<1>5. run'[w] = [at |-> "start",
                 task |-> [op |-> "open", req |-> Req(w), slots |-> run[w].task.slots],
                 fresh |-> {}, over |-> run[w].over]
  BY <1>1, <1>3, <1>4 DEF Running, Task, Req
<1>6. run'[w] \in Running
  BY <1>3, <1>5 DEF Running, Task, Req
<1> QED BY <1>1, <1>2, <1>4, <1>5, <1>6

LEMMA DeviceOpensTo ==
  ASSUME TypeOK, NEW w \in Worker, DeviceOpens(w)
  PROVE  /\ run[w] # Idle /\ run[w].at = "opening"
         /\ run' \in [Worker -> Running \cup {Idle}]
         /\ \A v \in Worker \ {w} : run'[v] = run[v]
         /\ \E got \in {{}, run[w].task.slots} :
              /\ run'[w] = [at |-> "opened", task |-> run[w].task, fresh |-> got,
                            over |-> run[w].over]
              /\ open' = open \cup got
<1>1. run \in [Worker -> Running \cup {Idle}]
  BY DEF TypeOK
<1>2. run[w] # Idle /\ run[w].at = "opening"
  BY DEF DeviceOpens, At
<1>3. run[w] \in Running
  BY <1>2, WorkerType
<1>4. PICK got \in {{}, run[w].task.slots} :
        /\ run' = [run EXCEPT ![w].at = "opened", ![w].fresh = got]
        /\ open' = open \cup got
  BY DEF DeviceOpens
<1>5. run'[w] = [at |-> "opened", task |-> run[w].task, fresh |-> got, over |-> run[w].over]
  BY <1>1, <1>3, <1>4 DEF Running
<1>6. run[w].task.slots \subseteq Slot
  BY <1>3 DEF Running, Task
<1>7. run'[w] \in Running
  BY <1>3, <1>5, <1>6 DEF Running
<1> QED BY <1>1, <1>2, <1>4, <1>5, <1>7

LEMMA InstallTo ==
  ASSUME TypeOK, NEW w \in Worker, NEW s \in Slot, Install(w, s)
  PROVE  /\ run[w] # Idle /\ run[w].at = "opened" /\ s \in run[w].fresh
         /\ run' \in [Worker -> Running \cup {Idle}]
         /\ \A v \in Worker \ {w} : run'[v] = run[v]
         /\ run'[w] = [at |-> "opened", task |-> run[w].task, fresh |-> run[w].fresh \ {s},
                       over |-> run[w].over]
<1>1. run \in [Worker -> Running \cup {Idle}]
  BY DEF TypeOK
<1>2. run[w] # Idle /\ run[w].at = "opened" /\ s \in run[w].fresh
  BY DEF Install, At
<1>3. run[w] \in Running
  BY <1>2, WorkerType
<1>4. run' = [run EXCEPT ![w].fresh = @ \ {s}]
  BY DEF Install
<1>5. run'[w] = [at |-> "opened", task |-> run[w].task, fresh |-> run[w].fresh \ {s},
                 over |-> run[w].over]
  BY <1>1, <1>2, <1>3, <1>4 DEF Running
<1>6. run'[w] \in Running
  BY <1>3, <1>5 DEF Running
<1> QED BY <1>1, <1>2, <1>4, <1>5, <1>6

LEMMA OverrunTo ==
  ASSUME TypeOK, NEW w \in Lane, Overrun(w)
  PROVE  /\ run[w] # Idle
         /\ run' \in [Worker -> Running \cup {Idle}]
         /\ \A v \in Worker \ {w} : run'[v] = run[v]
         /\ run'[w] = [at |-> run[w].at, task |-> run[w].task, fresh |-> run[w].fresh,
                       over |-> TRUE]
<1>1. run \in [Worker -> Running \cup {Idle}] /\ w \in Worker
  BY DEF TypeOK, Worker
<1>2. run[w] # Idle
  BY DEF Overrun
<1>3. run[w] \in Running
  BY <1>1, <1>2, WorkerType
<1>4. run' = [run EXCEPT ![w].over = TRUE]
  BY DEF Overrun
<1>5. run'[w] = [at |-> run[w].at, task |-> run[w].task, fresh |-> run[w].fresh,
                 over |-> TRUE]
  BY <1>1, <1>3, <1>4 DEF Running
<1>6. run'[w] \in Running
  BY <1>3, <1>5 DEF Running
<1> QED BY <1>1, <1>2, <1>4, <1>5, <1>6

LEMMA TypeStep == TypeOK /\ [Next]_vars => TypeOK'
<1> SUFFICES ASSUME TypeOK, [Next]_vars PROVE TypeOK'
  OBVIOUS
<1>0. /\ run \in [Worker -> Running \cup {Idle}]
      /\ queue \in [Lane -> Seq(Task)]
      /\ phase \in [Request -> Phase]
      /\ rel \in [Slot -> {"kept", "taken", "unheld", "done"}]
  BY DEF TypeOK
<1>1. ASSUME NEW r \in Request, Ask(r) \/ Hold(r) \/ HoldSpeaker(r) \/ GiveUp(r)
      PROVE  TypeOK'
  <2>1. First(r) \in Slot /\ <<r, "speaker">> \in Slot
    BY SetupType DEF Slot, Kind
  <2> QED BY <1>1, <2>1 DEF TypeOK, Ask, Hold, HoldSpeaker, GiveUp, Phase
<1>2. ASSUME NEW r \in Request, PostOpen(r) PROVE TypeOK'
  <2>1. [op |-> "open", req |-> r, slots |-> Slots(r)] \in Task
    BY SetupType DEF Task
  <2>2. Post(r, [op |-> "open", req |-> r, slots |-> Slots(r)])
    BY <1>2 DEF PostOpen
  <2>3. run' \in [Worker -> Running \cup {Idle}] /\ queue' \in [Lane -> Seq(Task)]
    BY <2>1, <2>2, PostTo
  <2> QED BY <1>2, <2>3 DEF TypeOK, PostOpen, Phase
<1>3. ASSUME NEW r \in Request, Reopen(r) PROVE TypeOK'
  <2>1. [op |-> "reopen", req |-> r, slots |-> Slots(r)] \in Task
    BY SetupType DEF Task
  <2>2. Post(r, [op |-> "reopen", req |-> r, slots |-> Slots(r)])
    BY <1>3 DEF Reopen
  <2>3. run' \in [Worker -> Running \cup {Idle}] /\ queue' \in [Lane -> Seq(Task)]
    BY <2>1, <2>2, PostTo
  <2> QED BY <1>3, <2>3 DEF TypeOK, Reopen, Phase
<1>4. ASSUME NEW s \in Slot, Release(s) \/ Unhold(s) PROVE TypeOK'
  BY <1>4 DEF TypeOK, Release, Unhold
<1>5. ASSUME NEW s \in Slot, PostClose(s) PROVE TypeOK'
  <2>1. s[1] \in Request /\ [op |-> "close", req |-> s[1], slots |-> {s}] \in Task
    BY SlotType DEF Task
  <2>2. run' \in [Worker -> Running \cup {Idle}] /\ queue' \in [Lane -> Seq(Task)]
    <3>1. CASE Post(s[1], [op |-> "close", req |-> s[1], slots |-> {s}])
      BY <2>1, <3>1, PostTo
    <3>2. CASE UNCHANGED <<queue, run>>
      BY <1>0, <3>2
    <3> QED BY <1>5, <3>1, <3>2 DEF PostClose
  <2> QED BY <1>5, <2>2 DEF TypeOK, PostClose
<1>6. ASSUME NEW w \in Worker, Skip(w) \/ EndOpen(w) \/ Close(w) PROVE TypeOK'
  <2>1. run[w] # Idle /\ Finish(w)
    BY <1>6 DEF Skip, EndOpen, Close, At
  <2>2. run' \in [Worker -> Running \cup {Idle}] /\ phase' \in [Request -> Phase]
    BY <2>1, FinishTo
  <2> QED BY <1>6, <2>1, <2>2 DEF TypeOK, Finish, Skip, EndOpen, Close
<1>7. ASSUME NEW w \in Worker, StartOpen(w) PROVE TypeOK'
  <2>1. run' \in [Worker -> Running \cup {Idle}]
    BY <1>7, StartOpenTo
  <2> QED BY <1>7, <2>1 DEF TypeOK, StartOpen
<1>8. ASSUME NEW w \in Worker, StartReopen(w) PROVE TypeOK'
  <2>1. run' \in [Worker -> Running \cup {Idle}]
    BY <1>8, StartReopenTo
  <2> QED BY <1>8, <2>1 DEF TypeOK, StartReopen
<1>9. ASSUME NEW w \in Worker, CloseOld(w) PROVE TypeOK'
  <2>1. run' \in [Worker -> Running \cup {Idle}]
    BY <1>9, CloseOldTo
  <2> QED BY <1>9, <2>1 DEF TypeOK, CloseOld
<1>10. ASSUME NEW w \in Worker, DeviceOpens(w) PROVE TypeOK'
  <2>1. run[w].task.slots \subseteq Slot
    BY <1>10, DeviceOpensTo, WorkerType DEF Task
  <2>2. run' \in [Worker -> Running \cup {Idle}]
    BY <1>10, DeviceOpensTo
  <2>3. \E got \in {{}, run[w].task.slots} : open' = open \cup got
    BY <1>10, DeviceOpensTo
  <2> QED BY <1>10, <2>1, <2>2, <2>3 DEF TypeOK, DeviceOpens
<1>11. ASSUME NEW w \in Worker, NEW s \in Slot, Install(w, s) PROVE TypeOK'
  <2>1. run' \in [Worker -> Running \cup {Idle}]
    BY <1>11, InstallTo
  <2> QED BY <1>11, <2>1 DEF TypeOK, Install
<1>12. ASSUME NEW f \in Lane, TakeTask(f) PROVE TypeOK'
  <2>1. run' \in [Worker -> Running \cup {Idle}] /\ queue' \in [Lane -> Seq(Task)]
    BY <1>12, TakeTo
  <2> QED BY <1>12, <2>1 DEF TypeOK, TakeTask
<1>13. ASSUME NEW f \in Lane, Overrun(f) PROVE TypeOK'
  <2>1. run' \in [Worker -> Running \cup {Idle}]
    BY <1>13, OverrunTo
  <2> QED BY <1>13, <2>1 DEF TypeOK, Overrun
<1>14. ASSUME NEW f \in Lane, Stop(f) \/ Exit(f) PROVE TypeOK'
  BY <1>14 DEF TypeOK, Stop, Exit
<1>15. CASE UNCHANGED vars
  BY <1>15 DEF TypeOK, vars
<1> QED
  BY <1>1, <1>2, <1>3, <1>4, <1>5, <1>6, <1>7, <1>8, <1>9, <1>10, <1>11, <1>12, <1>13,
     <1>14, <1>15 DEF Next, Work

-----------------------------------------------------------------------------
(***************************************************************************)
(* What no step takes back.                                                *)
(***************************************************************************)

LEMMA SetupStays == [Next]_vars => setup' = setup
  BY DEF Next, vars, Ask, Hold, HoldSpeaker, PostOpen, Reopen, GiveUp, Release, Unhold,
         PostClose, Work, Skip, StartOpen, StartReopen, CloseOld, DeviceOpens, Install,
         EndOpen, Close, Finish, TakeTask, Overrun, Stop, Exit

LEMMA StoppedStays == [Next]_vars => stopped \subseteq stopped'
  BY DEF Next, vars, Ask, Hold, HoldSpeaker, PostOpen, Reopen, GiveUp, Release, Unhold,
         PostClose, Work, Skip, StartOpen, StartReopen, CloseOld, DeviceOpens, Install,
         EndOpen, Close, Finish, TakeTask, Overrun, Stop, Exit

LEMMA SameSetup ==
  ASSUME setup' = setup
  PROVE  \A r : /\ Wanted(r)' = Wanted(r) /\ KindsOf(r)' = KindsOf(r)
                /\ Slots(r)' = Slots(r) /\ LaneOf(r)' = LaneOf(r)
                /\ First(r)' = First(r)
  BY DEF Wanted, KindsOf, Slots, LaneOf, First

\* How a step moves a caller on.
LEMMA PhaseMoves ==
  ASSUME TypeOK, [Next]_vars, NEW r \in Request, phase'[r] # phase[r]
  PROVE  \/ Ask(r) \/ Hold(r) \/ HoldSpeaker(r) \/ PostOpen(r) \/ Reopen(r) \/ GiveUp(r)
         \/ \E w \in Worker : /\ run[w] # Idle /\ Req(w) = r
                              /\ Skip(w) \/ EndOpen(w) \/ Close(w)
                              /\ phase'[r] = Answer(r)
<1>0. phase \in [Request -> Phase]
  BY DEF TypeOK
<1>1. ASSUME NEW p \in Request,
             \/ Ask(p) \/ Hold(p) \/ HoldSpeaker(p) \/ PostOpen(p) \/ Reopen(p) \/ GiveUp(p)
      PROVE  p = r
  BY <1>0, <1>1 DEF Ask, Hold, HoldSpeaker, PostOpen, Reopen, GiveUp
<1>2. ASSUME NEW w \in Worker, Skip(w) \/ EndOpen(w) \/ Close(w)
      PROVE  run[w] # Idle /\ Req(w) = r /\ phase'[r] = Answer(r)
  <2>1. run[w] # Idle /\ Finish(w)
    BY <1>2 DEF Skip, EndOpen, Close, At
  <2> QED BY <2>1, FinishTo
<1>3. ASSUME NEW s \in Slot, Release(s) \/ Unhold(s) \/ PostClose(s)
      PROVE  FALSE
  BY <1>3 DEF Release, Unhold, PostClose
<1>4. ASSUME NEW w \in Worker,
             \/ StartOpen(w) \/ StartReopen(w) \/ CloseOld(w) \/ DeviceOpens(w)
             \/ \E s \in Slot : Install(w, s)
      PROVE  FALSE
  BY <1>4 DEF StartOpen, StartReopen, CloseOld, DeviceOpens, Install
<1>5. ASSUME NEW f \in Lane, TakeTask(f) \/ Overrun(f) \/ Stop(f) \/ Exit(f)
      PROVE  FALSE
  BY <1>5 DEF TakeTask, Overrun, Stop, Exit
<1>6. CASE UNCHANGED vars
  BY <1>6 DEF vars
<1> QED BY <1>1, <1>2, <1>3, <1>4, <1>5, <1>6 DEF Next, Work

LEMMA PostedStays ==
  ASSUME TypeOK, [Next]_vars, NEW r \in Request
  PROVE  /\ phase[r] # "idle" => phase'[r] # "idle"
         /\ phase[r] = "refused" => phase'[r] = "refused"
         /\ Posted(r) => Posted(r)'
<1>1. CASE phase'[r] = phase[r]
  BY <1>1 DEF Posted
<1>2. CASE phase'[r] # phase[r]
  <2>0. phase \in [Request -> Phase]
    BY DEF TypeOK
  <2>1. CASE \/ Ask(r) \/ Hold(r) \/ HoldSpeaker(r) \/ PostOpen(r) \/ Reopen(r) \/ GiveUp(r)
    BY <2>0, <2>1 DEF Posted, Ask, Hold, HoldSpeaker, PostOpen, Reopen, GiveUp
  <2>2. CASE phase'[r] = Answer(r)
    BY <1>2, <2>2 DEF Posted, Answer
  <2> QED BY <1>2, <2>1, <2>2, PhaseMoves
<1> QED BY <1>1, <1>2

\* How a step moves a release on.
LEMMA RelMoves ==
  ASSUME TypeOK, [Next]_vars, NEW s \in Slot, rel'[s] # rel[s]
  PROVE  \/ Release(s) /\ rel[s] = "kept" /\ rel'[s] = "taken"
         \/ Unhold(s) /\ rel[s] = "taken" /\ rel'[s] = "unheld"
         \/ PostClose(s) /\ rel[s] = "unheld" /\ rel'[s] = "done"
<1>0. rel \in [Slot -> {"kept", "taken", "unheld", "done"}]
  BY DEF TypeOK
<1>1. ASSUME NEW t \in Slot, Release(t) \/ Unhold(t) \/ PostClose(t)
      PROVE  t = s
  BY <1>0, <1>1 DEF Release, Unhold, PostClose
<1>2. CASE Release(s) \/ Unhold(s) \/ PostClose(s)
  BY <1>0, <1>2 DEF Release, Unhold, PostClose
<1>3. ASSUME NEW r \in Request,
             \/ Ask(r) \/ Hold(r) \/ HoldSpeaker(r) \/ PostOpen(r) \/ Reopen(r) \/ GiveUp(r)
      PROVE  FALSE
  BY <1>3 DEF Ask, Hold, HoldSpeaker, PostOpen, Reopen, GiveUp
<1>4. ASSUME NEW w \in Worker, Work(w) PROVE FALSE
  BY <1>4 DEF Work, Skip, StartOpen, StartReopen, CloseOld, DeviceOpens, Install, EndOpen,
              Close, Finish
<1>5. ASSUME NEW f \in Lane, TakeTask(f) \/ Overrun(f) \/ Stop(f) \/ Exit(f)
      PROVE  FALSE
  BY <1>5 DEF TakeTask, Overrun, Stop, Exit
<1>6. CASE UNCHANGED vars
  BY <1>6 DEF vars
<1> QED BY <1>1, <1>2, <1>3, <1>4, <1>5, <1>6 DEF Next

LEMMA RelStays ==
  ASSUME TypeOK, [Next]_vars, NEW s \in Slot
  PROVE  /\ Released(s) => Released(s)'
         /\ rel[s] = "done" => rel'[s] = "done"
  BY RelMoves DEF Released

LEMMA SettledStays ==
  ASSUME TypeOK, [Next]_vars, NEW r \in Request, Settled(r),
         NEW s \in Slots(r), Released(s)
  PROVE  Settled(r)'
<1>1. CASE phase'[r] = phase[r]
  BY <1>1 DEF Settled
<1>2. CASE phase'[r] # phase[r]
  <2>1. ~Reopen(r)
    <3> SUFFICES ASSUME Wanted(r) \in {"mic", "speaker"} PROVE s = First(r)
      BY DEF Reopen
    <3> QED BY DEF Slots, First, KindsOf
  <2>2. CASE Ask(r) \/ Hold(r) \/ HoldSpeaker(r) \/ PostOpen(r) \/ GiveUp(r)
    BY <2>2 DEF Settled, Ask, Hold, HoldSpeaker, PostOpen, GiveUp
  <2>3. CASE phase'[r] = Answer(r)
    BY <1>2, <2>3 DEF Settled, Answer
  <2> QED BY <1>2, <2>1, <2>2, <2>3, PhaseMoves
<1> QED BY <1>1, <1>2

\* What gives a caller a task to run itself.
LEMMA CallerRuns ==
  ASSUME TypeOK, [Next]_vars, NEW r \in Request, run[r] = Idle, run'[r] # Idle
  PROVE  PostOpen(r) \/ Reopen(r) \/ \E s \in Slot : s[1] = r /\ PostClose(s)
<1>0. r \in Worker /\ run \in [Worker -> Running \cup {Idle}]
  BY DEF TypeOK, Worker
<1>1. ASSUME NEW p \in Request, PostOpen(p) PROVE p = r
  <2>1. [op |-> "open", req |-> p, slots |-> Slots(p)] \in Task
    BY SetupType DEF Task
  <2> QED BY <1>0, <1>1, <2>1, PostTo DEF PostOpen
<1>2. ASSUME NEW p \in Request, Reopen(p) PROVE p = r
  <2>1. [op |-> "reopen", req |-> p, slots |-> Slots(p)] \in Task
    BY SetupType DEF Task
  <2> QED BY <1>0, <1>2, <2>1, PostTo DEF Reopen
<1>3. ASSUME NEW s \in Slot, PostClose(s) PROVE s[1] = r
  <2>1. s[1] \in Request /\ [op |-> "close", req |-> s[1], slots |-> {s}] \in Task
    BY SlotType DEF Task
  <2> QED BY <1>0, <1>3, <2>1, PostTo DEF PostClose
<1>4. ASSUME NEW w \in Worker, Work(w) PROVE FALSE
  <2>1. CASE Skip(w) \/ EndOpen(w) \/ Close(w)
    <3>1. run[w] # Idle /\ Finish(w)
      BY <2>1 DEF Skip, EndOpen, Close, At
    <3> QED BY <1>0, <3>1, FinishTo
  <2>2. CASE StartOpen(w)
    BY <1>0, <2>2, StartOpenTo
  <2>3. CASE StartReopen(w)
    BY <1>0, <2>3, StartReopenTo
  <2>4. CASE CloseOld(w)
    BY <1>0, <2>4, CloseOldTo
  <2>5. CASE DeviceOpens(w)
    BY <1>0, <2>5, DeviceOpensTo
  <2>6. ASSUME NEW s \in Slot, Install(w, s) PROVE FALSE
    BY <1>0, <2>6, InstallTo
  <2> QED BY <1>4, <2>1, <2>2, <2>3, <2>4, <2>5, <2>6 DEF Work
<1>5. ASSUME NEW f \in Lane, TakeTask(f) PROVE FALSE
  BY <1>0, <1>5, TakeTo, MediaAssumption DEF Lane
<1>6. ASSUME NEW f \in Lane, Overrun(f) PROVE FALSE
  BY <1>0, <1>6, OverrunTo
<1>7. ASSUME NEW f \in Lane, Stop(f) \/ Exit(f) PROVE FALSE
  BY <1>7 DEF Stop, Exit
<1>8. ASSUME NEW p \in Request, Ask(p) \/ Hold(p) \/ HoldSpeaker(p) \/ GiveUp(p) PROVE FALSE
  BY <1>8 DEF Ask, Hold, HoldSpeaker, GiveUp
<1>9. ASSUME NEW s \in Slot, Release(s) \/ Unhold(s) PROVE FALSE
  BY <1>9 DEF Release, Unhold
<1>10. CASE UNCHANGED vars
  BY <1>10 DEF vars
<1> QED
  BY <1>1, <1>2, <1>3, <1>4, <1>5, <1>6, <1>7, <1>8, <1>9, <1>10 DEF Next

\* A caller that is through with a request stays so.
LEMMA OverStays ==
  ASSUME TypeOK, ReleaseFits, [Next]_vars, NEW r \in Request, Over(r)
  PROVE  Over(r)'
<1>1. CASE phase[r] = "refused"
  BY <1>1, PostedStays DEF Over
<1>2. CASE phase[r] # "refused"
  <2>1. Settled(r) /\ (\A s \in Slots(r) : rel[s] = "done") /\ run[r] = Idle
    BY <1>2 DEF Over, Settled
  <2>2. First(r) \in Slots(r) /\ Slots(r) \subseteq Slot /\ Slots(r)' = Slots(r)
    BY SetupType, SetupStays, SameSetup
  <2>3. Settled(r)'
    BY <2>1, <2>2, SettledStays DEF Released
  <2>4. \A s \in Slots(r) : rel'[s] = "done"
    BY <2>1, <2>2, RelStays
  <2>5. run'[r] = Idle
    <3>1. ~PostOpen(r) /\ ~Reopen(r)
      BY <2>1, <2>2 DEF PostOpen, Reopen, Settled, Released
    <3>2. ASSUME NEW s \in Slot, s[1] = r, PostClose(s) PROVE FALSE
      BY <2>1, <3>2 DEF PostClose, ReleaseFits, Released
    <3> QED BY <2>1, <3>1, <3>2, CallerRuns
  <2> QED BY <2>2, <2>3, <2>4, <2>5 DEF Over, Settled
<1> QED BY <1>1, <1>2

LEMMA EarlierStays ==
  ASSUME [Next]_vars, NEW r \in Request
  PROVE  Earlier(r)' = Earlier(r)
  BY SetupStays, SameSetup DEF Earlier

LEMMA TurnStep == TypeOK /\ ReleaseFits /\ Turn /\ [Next]_vars => Turn'
<1> SUFFICES ASSUME TypeOK, ReleaseFits, Turn, [Next]_vars,
                    NEW r \in Request, phase'[r] # "idle",
                    NEW p \in Earlier(r)
             PROVE  Over(p)'
  BY EarlierStays DEF Turn
<1>1. p \in Request
  BY DEF Earlier
<1>2. Over(p)
  <2>1. CASE phase[r] # "idle"
    BY <2>1 DEF Turn
  <2>2. CASE phase[r] = "idle"
    <3>1. Ask(r)
      BY <2>2, PhaseMoves DEF Hold, HoldSpeaker, PostOpen, Reopen, GiveUp, Answer
    <3> QED BY <3>1 DEF Ask
  <2> QED BY <2>1, <2>2
<1> QED BY <1>1, <1>2, OverStays

LEMMA ReleaseFitsStep == TypeOK /\ ReleaseFits /\ [Next]_vars => ReleaseFits'
<1> SUFFICES ASSUME TypeOK, ReleaseFits, [Next]_vars,
                    NEW s \in Slot, Released(s)'
             PROVE  (s \in Slots(s[1]) /\ Settled(s[1]))'
  BY DEF ReleaseFits
<1>1. s[1] \in Request /\ Slots(s[1])' = Slots(s[1])
  BY SlotType, SetupStays, SameSetup
<1>2. CASE Released(s)
  BY <1>1, <1>2, SettledStays DEF ReleaseFits
<1>3. CASE ~Released(s)
  <2>1. Release(s)
    BY <1>3, RelMoves DEF Released
  <2>2. phase' = phase
    BY <2>1 DEF Release
  <2> QED BY <1>1, <2>1, <2>2 DEF Release, Settled
<1> QED BY <1>2, <1>3

-----------------------------------------------------------------------------
(***************************************************************************)
(* The holders.                                                            *)
(***************************************************************************)

\* Steps that leave the holders alone.
LEMMA HoldersStay ==
  ASSUME TypeOK, HoldersFit, setup' = setup, holders' = holders, rel' = rel,
         \A r \in Request :
           \/ phase'[r] = phase[r]
           \/ phase[r] \in {"idle", "asked"} /\ phase'[r] \in {"asked", "refused"}
           \/ (phase[r] = "held" \/ Posted(r)) /\ Posted(r)'
  PROVE  HoldersFit'
<1>1. \A r \in Request : phase[r] = "held" \/ Posted(r) => phase'[r] = "held" \/ Posted(r)'
  BY DEF Posted
<1>2. \A r \in Request : phase'[r] = "held" \/ Posted(r)' => phase[r] = "held" \/ Posted(r)
  BY DEF Posted
<1>3. \A s \in holders : s[1] \in Request
  BY SlotType DEF TypeOK
<1>4. ASSUME NEW s \in holders
      PROVE  phase'[s[1]] \notin {"idle", "asked", "refused"} /\
             (phase'[s[1]] = "half" => s[2] = "mic")
  BY <1>3, <1>4 DEF HoldersFit, Posted
<1>5. \A r \in Request : phase'[r] = "half" => phase[r] = "half"
  BY DEF Posted
<1> QED BY <1>2, <1>4, <1>5, SameSetup DEF HoldersFit, Exclusive

LEMMA HoldStep ==
  ASSUME TypeOK, HoldersFit, ReleaseFits, NEW r \in Request, Hold(r) \/ HoldSpeaker(r)
  PROVE  HoldersFit'
<1>0. /\ phase \in [Request -> Phase] /\ holders \subseteq Slot
      /\ \A s \in Slot : s[1] \in Request
      /\ setup' = setup /\ rel' = rel
      /\ \A p \in Request \ {r} : phase'[p] = phase[p]
      /\ phase[r] \in {"asked", "half"}
  BY SlotType DEF TypeOK, Hold, HoldSpeaker
<1>1. \A p : Slots(p)' = Slots(p)
  BY <1>0, SameSetup
<1>2. \A s \in Slots(r) : rel[s] = "kept"
  BY <1>0, SetupType DEF ReleaseFits, Released, Settled
<1>3. \A p \in Request \ {r} : \A s \in Slots(p) : s[1] # r
  BY SetupType
<1>4. ASSUME NEW s \in Slots(r), ~Taken(s), holders' = holders \cup {s},
             phase'[r] \in {"half", "held"}, phase'[r] = "half" => s[2] = "mic",
             \A t \in holders : t[1] = r => phase'[r] = "held",
             phase'[r] = "held" => Slots(r) \subseteq holders',
             phase'[r] = "half" => Wanted(r) = "duplex" /\ s = First(r)
      PROVE  HoldersFit'
  <2>1. s \in Slot /\ s[1] = r
    BY SetupType
  <2>2. \A t \in holders' :
          /\ t \in Slots(t[1])' /\ rel'[t] \in {"kept", "taken"}
          /\ phase'[t[1]] \notin {"idle", "asked", "refused"}
          /\ phase'[t[1]] = "half" => t[2] = "mic"
    <3> SUFFICES ASSUME NEW t \in holders'
                 PROVE  /\ t \in Slots(t[1])' /\ rel'[t] \in {"kept", "taken"}
                        /\ phase'[t[1]] \notin {"idle", "asked", "refused"}
                        /\ phase'[t[1]] = "half" => t[2] = "mic"
      OBVIOUS
    <3>1. CASE t = s
      BY <1>0, <1>1, <1>2, <1>4, <2>1, <3>1
    <3>2. CASE t \in holders
      <4>1. t[1] \in Request /\ t \in Slots(t[1]) /\ rel[t] \in {"kept", "taken"}
        BY <1>0, <3>2 DEF HoldersFit
      <4>2. CASE t[1] = r
        BY <1>0, <1>1, <1>4, <3>2, <4>1, <4>2
      <4>3. CASE t[1] # r
        BY <1>0, <1>1, <3>2, <4>1, <4>3 DEF HoldersFit
      <4> QED BY <4>2, <4>3
    <3> QED BY <1>4, <3>1, <3>2
  <2>3. \A p \in Request : phase'[p] = "held" \/ Posted(p)' =>
          \A t \in Slots(p)' : rel'[t] \in {"kept", "taken"} => t \in holders'
    <3> SUFFICES ASSUME NEW p \in Request, phase'[p] = "held" \/ Posted(p)',
                        NEW t \in Slots(p), rel[t] \in {"kept", "taken"}
                 PROVE  t \in holders'
      BY <1>0, <1>1
    <3>1. CASE p = r
      BY <1>4, <3>1 DEF Posted
    <3>2. CASE p # r
      BY <1>0, <1>4, <3>2 DEF Posted, HoldersFit
    <3> QED BY <3>1, <3>2
  <2>4. \A t \in holders', u \in holders' : t[2] = u[2] /\ Exclusive(t[2])' => t = u
    BY <1>0, <1>4, <2>1 DEF HoldersFit, Exclusive, Taken
  <2>5. \A p \in Request : phase'[p] = "half" => Wanted(p)' = "duplex" /\ First(p)' \in holders'
    BY <1>0, <1>4, SameSetup DEF HoldersFit
  <2> QED BY <2>2, <2>3, <2>4, <2>5 DEF HoldersFit
<1>5. ASSUME phase'[r] = "refused", holders' \subseteq holders,
             \A t \in holders' : t[1] # r,
             \A t \in holders : t[1] # r => t \in holders'
      PROVE  HoldersFit'
  <2>1. \A p \in Request : phase'[p] = "held" \/ Posted(p)' =>
          \A t \in Slots(p)' : rel'[t] \in {"kept", "taken"} => t \in holders'
    <3> SUFFICES ASSUME NEW p \in Request, phase'[p] = "held" \/ Posted(p)',
                        NEW t \in Slots(p), rel[t] \in {"kept", "taken"}
                 PROVE  t \in holders'
      BY <1>0, <1>1
    <3>1. p # r
      BY <1>5 DEF Posted
    <3>2. t \in holders
      BY <1>0, <3>1 DEF Posted, HoldersFit
    <3> QED BY <1>3, <1>5, <3>1, <3>2
  <2>2. \A t \in holders' :
          /\ t \in Slots(t[1])' /\ rel'[t] \in {"kept", "taken"}
          /\ phase'[t[1]] \notin {"idle", "asked", "refused"}
          /\ phase'[t[1]] = "half" => t[2] = "mic"
    BY <1>0, <1>1, <1>5 DEF HoldersFit
  <2>3. \A t \in holders', u \in holders' : t[2] = u[2] /\ Exclusive(t[2])' => t = u
    BY <1>0, <1>5 DEF HoldersFit, Exclusive
  <2>4. \A p \in Request : phase'[p] = "half" => Wanted(p)' = "duplex" /\ First(p)' \in holders'
    <3> SUFFICES ASSUME NEW p \in Request, phase'[p] = "half"
                 PROVE  Wanted(p) = "duplex" /\ First(p) \in holders'
      BY <1>0, SameSetup
    <3>1. p # r /\ Wanted(p) = "duplex" /\ First(p) \in holders
      BY <1>0, <1>5 DEF HoldersFit
    <3> QED BY <1>5, <3>1, SetupType
  <2> QED BY <2>1, <2>2, <2>3, <2>4 DEF HoldersFit
<1>6. CASE Hold(r)
  <2>1. phase[r] = "asked" /\ \A t \in holders : t[1] # r
    BY <1>6 DEF Hold, HoldersFit
  <2>2. CASE Taken(First(r))
    BY <1>0, <1>5, <1>6, <2>1, <2>2 DEF Hold
  <2>3. CASE ~Taken(First(r))
    <3>1. /\ holders' = holders \cup {First(r)}
          /\ phase'[r] = IF Wanted(r) = "duplex" THEN "half" ELSE "held"
      BY <1>0, <1>6, <2>3 DEF Hold
    <3>2. First(r) \in Slots(r)
      BY SetupType
    <3>3. Wanted(r) # "duplex" => Slots(r) = {First(r)}
      BY DEF Slots, First, KindsOf
    <3>4. Wanted(r) = "duplex" => First(r)[2] = "mic"
      BY DEF First
    <3> QED BY <1>4, <2>1, <2>3, <3>1, <3>2, <3>3, <3>4
  <2> QED BY <2>2, <2>3
<1>7. CASE HoldSpeaker(r)
  <2>1. phase[r] = "half" /\ \A t \in holders : t[1] = r => t[2] = "mic"
    BY <1>7 DEF HoldSpeaker, HoldersFit
  <2>2. \A t \in holders : t[1] = r => t = <<r, "mic">>
    BY <1>0, <2>1, SlotType
  <2>3. CASE Taken(<<r, "speaker">>)
    <3>1. holders' = holders \ {<<r, "mic">>} /\ phase'[r] = "refused"
      BY <1>0, <1>7, <2>3 DEF HoldSpeaker
    <3> QED BY <1>5, <2>2, <3>1
  <2>4. CASE ~Taken(<<r, "speaker">>)
    <3>1. holders' = holders \cup {<<r, "speaker">>} /\ phase'[r] = "held"
      BY <1>0, <1>7, <2>4 DEF HoldSpeaker
    <3>2. Wanted(r) = "duplex" /\ <<r, "mic">> \in holders
      BY <2>1 DEF HoldersFit, First
    <3>3. Slots(r) = {<<r, "mic">>, <<r, "speaker">>}
      BY <3>2 DEF Slots, KindsOf
    <3> QED BY <1>4, <2>4, <3>1, <3>2, <3>3
  <2> QED BY <2>3, <2>4
<1> QED BY <1>6, <1>7

\* A step along a release: the slot leaves the holders as it is unheld.
LEMMA LetGoStep ==
  ASSUME TypeOK, HoldersFit, ReleaseFits, NEW s \in Slot, Release(s) \/ Unhold(s) \/ PostClose(s)
  PROVE  HoldersFit'
<1>0. /\ setup' = setup /\ phase' = phase
      /\ rel \in [Slot -> {"kept", "taken", "unheld", "done"}] /\ holders \subseteq Slot
      /\ \A r \in Request : Slots(r) \subseteq Slot
      /\ \A t \in Slot \ {s} : rel'[t] = rel[t]
      /\ \A t \in Slot : t[1] \in Request
  BY SetupType, SlotType DEF TypeOK, Release, Unhold, PostClose
<1>1. \A r : Slots(r)' = Slots(r) /\ Wanted(r)' = Wanted(r) /\ First(r)' = First(r)
  BY <1>0, SameSetup
<1>2. /\ \A t \in holders' : t \in holders /\ rel'[t] \in {"kept", "taken"}
      /\ \A t \in Slot : rel'[t] \in {"kept", "taken"} =>
           rel[t] \in {"kept", "taken"} /\ (t \in holders => t \in holders')
      /\ \A t \in holders \ holders' : Settled(t[1])
  <2>1. CASE Release(s)
    BY <1>0, <2>1 DEF Release, HoldersFit
  <2>2. CASE Unhold(s)
    <3>1. holders' = holders \ {s} /\ rel[s] = "taken" /\ rel'[s] = "unheld"
      BY <1>0, <2>2 DEF Unhold
    <3>2. s \in holders => Settled(s[1])
      BY <3>1 DEF ReleaseFits, Released
    <3> QED BY <1>0, <3>1, <3>2 DEF HoldersFit
  <2>3. CASE PostClose(s)
    <3>1. holders' = holders /\ rel[s] = "unheld" /\ rel'[s] = "done"
      BY <1>0, <2>3 DEF PostClose
    <3> QED BY <1>0, <3>1 DEF HoldersFit
  <2> QED BY <2>1, <2>2, <2>3
<1>3. \A t \in holders' : /\ t \in Slots(t[1])' /\ rel'[t] \in {"kept", "taken"}
                          /\ phase'[t[1]] \notin {"idle", "asked", "refused"}
                          /\ phase'[t[1]] = "half" => t[2] = "mic"
  BY <1>0, <1>1, <1>2 DEF HoldersFit
<1>4. \A r \in Request : phase'[r] = "held" \/ Posted(r)' =>
        \A t \in Slots(r)' : rel'[t] \in {"kept", "taken"} => t \in holders'
  BY <1>0, <1>1, <1>2 DEF HoldersFit, Posted
<1>5. \A r \in Request : phase'[r] = "half" => Wanted(r)' = "duplex" /\ First(r)' \in holders'
  <2> SUFFICES ASSUME NEW r \in Request, phase[r] = "half"
               PROVE  Wanted(r) = "duplex" /\ First(r) \in holders'
    BY <1>0, <1>1
  <2>1. Wanted(r) = "duplex" /\ First(r) \in holders /\ First(r)[1] = r
    BY SetupType DEF HoldersFit
  <2> QED BY <1>2, <2>1 DEF Settled
<1>6. \A t \in holders', u \in holders' : t[2] = u[2] /\ Exclusive(t[2])' => t = u
  BY <1>0, <1>2 DEF HoldersFit, Exclusive
<1> QED BY <1>3, <1>4, <1>5, <1>6 DEF HoldersFit

LEMMA HoldersFitStep ==
  TypeOK /\ HoldersFit /\ ReleaseFits /\ [Next]_vars => HoldersFit'
<1> SUFFICES ASSUME TypeOK, HoldersFit, ReleaseFits, [Next]_vars
             PROVE  HoldersFit'
  OBVIOUS
<1>0. phase \in [Request -> Phase] /\ setup' = setup
  BY SetupStays DEF TypeOK
<1>1. ASSUME NEW r \in Request, Hold(r) \/ HoldSpeaker(r) PROVE HoldersFit'
  BY <1>1, HoldStep
<1>2. ASSUME NEW s \in Slot, Release(s) \/ Unhold(s) \/ PostClose(s) PROVE HoldersFit'
  BY <1>2, LetGoStep
<1>3. CASE /\ \A r \in Request : ~Hold(r) /\ ~HoldSpeaker(r)
           /\ \A s \in Slot : ~Release(s) /\ ~Unhold(s) /\ ~PostClose(s)
  <2>1. holders' = holders /\ rel' = rel
    BY <1>3 DEF Next, vars, Ask, PostOpen, Reopen, GiveUp,
         Work, Skip, StartOpen, StartReopen, CloseOld, DeviceOpens, Install,
         EndOpen, Close, Finish, TakeTask, Overrun, Stop, Exit
  <2>2. ASSUME NEW r \in Request, phase'[r] # phase[r]
        PROVE  \/ phase[r] \in {"idle", "asked"} /\ phase'[r] \in {"asked", "refused"}
               \/ (phase[r] = "held" \/ Posted(r)) /\ Posted(r)'
    <3>1. CASE Ask(r) \/ PostOpen(r) \/ Reopen(r) \/ GiveUp(r)
      BY <1>0, <3>1 DEF Ask, PostOpen, Reopen, GiveUp, Posted
    <3>2. CASE phase'[r] = Answer(r)
      BY <2>2, <3>2 DEF Answer, Posted
    <3> QED BY <1>3, <2>2, <3>1, <3>2, PhaseMoves
  <2> QED BY <1>0, <2>1, <2>2, HoldersStay
<1> QED BY <1>1, <1>2, <1>3

-----------------------------------------------------------------------------
(***************************************************************************)
(* The tasks, queued and at work.                                          *)
(***************************************************************************)

LEMMA PendingTasks ==
  ASSUME TypeOK, NEW f \in Lane
  PROVE  Pending(f) \subseteq Task /\ (queue[f] = <<>> => Pending(f) = {})
<1>1. queue[f] \in Seq(Task)
  BY DEF TypeOK
<1> QED BY <1>1 DEF Pending

LEMMA PendingAppend ==
  ASSUME TypeOK, NEW f \in Lane, NEW tk \in Task, queue'[f] = Append(queue[f], tk)
  PROVE  Pending(f)' = Pending(f) \cup {tk}
<1>1. queue[f] \in Seq(Task)
  BY DEF TypeOK
<1> DEFINE q == queue[f]
           n == Len(queue[f])
<1>2. /\ n \in Nat /\ Len(queue'[f]) = n + 1
      /\ \A i \in 1..n : queue'[f][i] = q[i]
      /\ queue'[f][n + 1] = tk
  BY <1>1
<1>3. 1..(n + 1) = (1..n) \cup {n + 1}
  BY <1>2
<1>4. Pending(f)' = {queue'[f][i] : i \in 1..(n + 1)}
  BY <1>2 DEF Pending
<1>5. Pending(f) = {q[i] : i \in 1..n}
  BY DEF Pending
<1> HIDE DEF q, n
<1> QED BY <1>2, <1>3, <1>4, <1>5

LEMMA PendingTail ==
  ASSUME TypeOK, NEW f \in Lane, queue[f] # <<>>, queue'[f] = Tail(queue[f])
  PROVE  Pending(f) = Pending(f)' \cup {Head(queue[f])}
<1>1. queue[f] \in Seq(Task)
  BY DEF TypeOK
<1> DEFINE q == queue[f]
           n == Len(queue[f])
<1>2. /\ n \in Nat /\ n > 0 /\ Len(queue'[f]) = n - 1
      /\ \A i \in 1..(n - 1) : queue'[f][i] = q[i + 1]
      /\ Head(queue[f]) = q[1]
  BY <1>1
<1>3. Pending(f)' = {queue'[f][i] : i \in 1..(n - 1)}
  BY <1>2 DEF Pending
<1>4. Pending(f) = {q[i] : i \in 1..n}
  BY DEF Pending
<1> HIDE DEF q, n
<1>5. \A x \in Pending(f)' : x \in Pending(f)
  <2> SUFFICES ASSUME NEW i \in 1..(n - 1) PROVE queue'[f][i] \in Pending(f)
    BY <1>3
  <2>1. i + 1 \in 1..n
    BY <1>2
  <2> QED BY <1>2, <1>4, <2>1
<1>6. \A x \in Pending(f) : x = q[1] \/ x \in Pending(f)'
  <2> SUFFICES ASSUME NEW i \in 1..n, i # 1 PROVE q[i] \in Pending(f)'
    BY <1>4
  <2>1. i - 1 \in 1..(n - 1) /\ (i - 1) + 1 = i
    BY <1>2
  <2> QED BY <1>2, <1>3, <2>1
<1>7. q[1] \in Pending(f)
  BY <1>2, <1>4
<1> QED BY <1>2, <1>5, <1>6, <1>7

LEMMA TaskStays ==
  ASSUME TypeOK, [Next]_vars
  PROVE  \A tk \in Task : TaskFits(tk) => TaskFits(tk)'
<1> SUFFICES ASSUME NEW tk \in Task, TaskFits(tk) PROVE TaskFits(tk)'
  OBVIOUS
<1>1. tk.req \in Request /\ Slots(tk.req)' = Slots(tk.req) /\ Slots(tk.req) \subseteq Slot
  BY SetupType, SetupStays, SameSetup DEF Task
<1>2. Posted(tk.req)'
  BY <1>1, PostedStays DEF TaskFits
<1>3. \A s \in Slots(tk.req) : rel[s] = "done" => rel'[s] = "done"
  BY <1>1, RelStays
<1> QED BY <1>1, <1>2, <1>3 DEF TaskFits

LEMMA RunStays ==
  ASSUME TypeOK, [Next]_vars, NEW w \in Worker, RunFits(w), run'[w] = run[w]
  PROVE  RunFits(w)'
<1> SUFFICES ASSUME run[w] # Idle PROVE RunFits(w)'
  BY DEF RunFits
<1>1. run[w].task \in Task /\ LaneOf(run[w].task.req)' = LaneOf(run[w].task.req)
  BY WorkerType, SetupStays, SameSetup
<1> QED BY <1>1, TaskStays, SetupStays, SameSetup, StoppedStays DEF RunFits

LEMMA LaneStays ==
  ASSUME TypeOK, [Next]_vars, NEW f \in Lane, LaneFits(f),
         queue'[f] = queue[f], f \in stopped' => queue[f] = <<>> /\ run'[f] = Idle
  PROVE  LaneFits(f)'
<1>1. Pending(f)' = Pending(f) /\ Pending(f) \subseteq Task
  BY PendingTasks DEF Pending
<1> QED BY <1>1, TaskStays, SetupStays, SameSetup DEF LaneFits

\* A new task, posted to the lane or run by the caller at once.
LEMMA PostFits ==
  ASSUME TypeOK, TasksFit, [Next]_vars, NEW r \in Request, NEW tk \in Task,
         tk.req = r, Post(r, tk), TaskFits(tk)', stopped' = stopped
  PROVE  TasksFit'
<1>1. LaneOf(r) \in Lane /\ r \in Worker /\ LaneOf(r)' = LaneOf(r)
  BY SetupType, SetupStays, SameSetup DEF Worker
<1>2. \A w \in Worker : RunFits(w)'
  <2> SUFFICES ASSUME NEW w \in Worker, run'[w] # run[w] PROVE RunFits(w)'
    BY RunStays DEF TasksFit
  <2>1. w = r /\ run'[r] = Started(tk) /\ LaneOf(r) \in stopped
    BY PostTo
  <2> QED BY <1>1, <2>1, StartedType DEF RunFits
<1>3. \A f \in Lane : LaneFits(f)'
  <2> SUFFICES ASSUME NEW f \in Lane PROVE LaneFits(f)'
    OBVIOUS
  <2>0. LaneFits(f) /\ run'[f] = run[f]
    <3>1. f # r /\ f \in Worker
      BY MediaAssumption DEF Lane, Worker
    <3> QED BY <3>1, PostTo DEF TasksFit
  <2>1. CASE queue'[f] = queue[f]
    BY <2>0, <2>1, LaneStays DEF LaneFits
  <2>2. CASE queue'[f] # queue[f]
    <3>1. f = LaneOf(r) /\ f \notin stopped' /\ queue'[f] = Append(queue[f], tk)
      BY <2>2, PostTo
    <3>2. Pending(f)' = Pending(f) \cup {tk} /\ Pending(f) \subseteq Task
      BY <3>1, PendingAppend, PendingTasks
    <3>3. \A x \in Task : LaneOf(x.req)' = LaneOf(x.req)
      BY SetupStays, SameSetup
    <3> QED BY <1>1, <2>0, <3>1, <3>2, <3>3, TaskStays DEF LaneFits
  <2> QED BY <2>1, <2>2
<1> QED BY <1>2, <1>3 DEF TasksFit

\* A worker goes on with its task; no queue changes.
LEMMA WorkFits ==
  ASSUME TypeOK, TasksFit, [Next]_vars, NEW w \in Worker, run[w] # Idle,
         queue' = queue, stopped' = stopped, RunFits(w)',
         \A v \in Worker \ {w} : run'[v] = run[v]
  PROVE  TasksFit'
<1>1. \A v \in Worker : RunFits(v)'
  BY RunStays DEF TasksFit
<1>2. ASSUME NEW f \in Lane PROVE LaneFits(f)'
  <2>1. LaneFits(f) /\ f \in Worker
    BY DEF TasksFit, Worker
  <2>2. f \in stopped' => queue[f] = <<>> /\ run'[f] = Idle
    BY <2>1 DEF LaneFits
  <2> QED BY <2>1, <2>2, LaneStays
<1> QED BY <1>1, <1>2 DEF TasksFit

\* Nothing posted, taken or worked at.
LEMMA IdleFits ==
  ASSUME TypeOK, TasksFit, [Next]_vars, run' = run, queue' = queue,
         \A f \in stopped' \ stopped : run[f] = Idle /\ queue[f] = <<>>
  PROVE  TasksFit'
<1>1. ASSUME NEW w \in Worker PROVE RunFits(w)'
  BY RunStays DEF TasksFit
<1>2. ASSUME NEW f \in Lane PROVE LaneFits(f)'
  <2>1. LaneFits(f)
    BY DEF TasksFit
  <2>2. f \in stopped' => queue[f] = <<>> /\ run'[f] = Idle
    BY <2>1 DEF LaneFits
  <2> QED BY <2>1, <2>2, LaneStays
<1> QED BY <1>1, <1>2 DEF TasksFit

\* The posts of a caller.
LEMMA Posts ==
  ASSUME TypeOK, NEW r \in Request
  PROVE  /\ PostOpen(r) =>
              \E tk \in Task : /\ tk = [op |-> "open", req |-> r, slots |-> Slots(r)]
                               /\ Post(r, tk) /\ stopped' = stopped
                               /\ phase'[r] = "waiting"
         /\ Reopen(r) =>
              \E tk \in Task : /\ tk = [op |-> "reopen", req |-> r, slots |-> Slots(r)]
                               /\ Post(r, tk) /\ stopped' = stopped
                               /\ phase'[r] = "reopening"
<1>1. \A op \in {"open", "reopen"} : [op |-> op, req |-> r, slots |-> Slots(r)] \in Task
  BY SetupType DEF Task
<1>2. phase \in [Request -> Phase]
  BY DEF TypeOK
<1> QED BY <1>1, <1>2 DEF PostOpen, Reopen

LEMMA ClosePosts ==
  ASSUME TypeOK, ReleaseFits, NEW s \in Slot, PostClose(s)
  PROVE  /\ s[1] \in Request /\ s \in Slots(s[1]) /\ Settled(s[1])
         /\ rel[s] = "unheld" /\ rel'[s] = "done"
         /\ stopped' = stopped /\ open' = open /\ endpoint' = endpoint /\ phase' = phase
         /\ hand' = hand \ {s}
         /\ \/ s \notin hand /\ run' = run /\ queue' = queue
            \/ \E tk \in Task : /\ s \in hand
                                /\ tk = [op |-> "close", req |-> s[1], slots |-> {s}]
                                /\ Post(s[1], tk)
<1>1. s[1] \in Request /\ [op |-> "close", req |-> s[1], slots |-> {s}] \in Task
  BY SlotType DEF Task
<1>2. rel \in [Slot -> {"kept", "taken", "unheld", "done"}]
  BY DEF TypeOK
<1> QED BY <1>1, <1>2 DEF PostClose, ReleaseFits, Released

\* The task a worker is at goes on to fit.
LEMMA WorkOn ==
  ASSUME TypeOK, TasksFit, [Next]_vars, NEW w \in Worker, run[w] # Idle
  PROVE  \E tk \in Task :
           /\ tk = run[w].task /\ TaskFits(tk) /\ TaskFits(tk)'
           /\ w = LaneOf(tk.req)' \/ (w = tk.req /\ LaneOf(w)' \in stopped')
<1>1. PICK tk \in Task : tk = run[w].task
  BY WorkerType
<1>2. RunFits(w)
  BY DEF TasksFit
<1>3. TaskFits(tk) /\ (w = LaneOf(tk.req) \/ (w = tk.req /\ LaneOf(w) \in stopped))
  BY <1>1, <1>2 DEF RunFits
<1>4. TaskFits(tk)' /\ LaneOf(tk.req)' = LaneOf(tk.req) /\ LaneOf(w)' = LaneOf(w)
  BY <1>3, TaskStays, SetupStays, SameSetup
<1> QED BY <1>1, <1>3, <1>4, StoppedStays

LEMMA TasksFitStep ==
  TypeOK /\ TasksFit /\ ReleaseFits /\ [Next]_vars => TasksFit'
<1> SUFFICES ASSUME TypeOK, TasksFit, ReleaseFits, [Next]_vars
             PROVE  TasksFit'
  OBVIOUS
<1>0. \A r : Slots(r)' = Slots(r) /\ LaneOf(r)' = LaneOf(r)
  BY SetupStays, SameSetup
<1>1. ASSUME NEW r \in Request, PostOpen(r) \/ Reopen(r) PROVE TasksFit'
  <2>1. PICK tk \in Task : /\ tk.req = r /\ tk.op \in {"open", "reopen"}
                           /\ tk.slots = Slots(r) /\ Post(r, tk)
                           /\ stopped' = stopped /\ phase'[r] \in {"waiting", "reopening"}
    BY <1>1, Posts
  <2>2. TaskFits(tk)'
    BY <1>0, <2>1 DEF TaskFits, Posted
  <2> QED BY <2>1, <2>2, PostFits
<1>2. ASSUME NEW s \in Slot, PostClose(s) PROVE TasksFit'
  <2>1. CASE run' = run /\ queue' = queue
    BY <1>2, <2>1, ClosePosts, IdleFits
  <2>2. CASE \E tk \in Task : /\ tk = [op |-> "close", req |-> s[1], slots |-> {s}]
                              /\ Post(s[1], tk)
    <3>1. PICK tk \in Task : /\ tk.req = s[1] /\ tk.op = "close" /\ tk.slots = {s}
                             /\ Post(s[1], tk)
      BY <2>2
    <3>2. Posted(s[1])' /\ s \in Slots(s[1])' /\ rel'[s] = "done" /\ stopped' = stopped
      BY <1>0, <1>2, ClosePosts DEF Settled, Posted
    <3>3. TaskFits(tk)'
      BY <3>1, <3>2 DEF TaskFits
    <3>4. s[1] \in Request
      BY SlotType
    <3> QED BY <3>1, <3>2, <3>3, <3>4, PostFits
  <2> QED BY <1>2, <2>1, <2>2, ClosePosts
<1>3. ASSUME NEW w \in Worker, Skip(w) \/ EndOpen(w) \/ Close(w) PROVE TasksFit'
  <2>1. run[w] # Idle /\ Finish(w)
    BY <1>3 DEF Skip, EndOpen, Close, At
  <2>2. RunFits(w)'
    BY <2>1, FinishTo DEF RunFits
  <2> QED BY <2>1, <2>2, FinishTo, WorkFits DEF Finish
<1>4. ASSUME NEW w \in Worker, StartOpen(w) PROVE TasksFit'
  <2>1. RunFits(w) /\ run[w] # Idle /\ queue' = queue /\ stopped' = stopped
    BY <1>4, StartOpenTo DEF TasksFit, StartOpen
  <2>2. PICK tk \in Task : /\ tk = run[w].task /\ TaskFits(tk) /\ TaskFits(tk)'
                           /\ w = LaneOf(tk.req)' \/ (w = tk.req /\ LaneOf(w)' \in stopped')
    BY <2>1, WorkOn
  <2>3. run'[w] = [at |-> "opening", task |-> tk, fresh |-> run[w].fresh,
                 over |-> run[w].over]
    BY <1>4, <2>2, StartOpenTo
  <2>4. RunFits(w)'
    BY <1>4, <2>1, <2>2, <2>3, StartOpenTo DEF RunFits
  <2> QED BY <1>4, <2>1, <2>4, StartOpenTo, WorkFits
<1>5. ASSUME NEW w \in Worker, StartReopen(w) PROVE TasksFit'
  <2>1. RunFits(w) /\ run[w] # Idle /\ queue' = queue /\ stopped' = stopped
    BY <1>5, StartReopenTo DEF TasksFit, StartReopen
  <2>2. PICK tk \in Task : /\ tk = run[w].task /\ TaskFits(tk) /\ TaskFits(tk)'
                           /\ w = LaneOf(tk.req)' \/ (w = tk.req /\ LaneOf(w)' \in stopped')
    BY <2>1, WorkOn
  <2>3. run'[w] = [at |-> "letting", task |-> tk, fresh |-> endpoint \cap tk.slots,
                 over |-> run[w].over]
    BY <1>5, <2>2, StartReopenTo
  <2>4. RunFits(w)'
    BY <1>5, <2>1, <2>2, <2>3, StartReopenTo DEF RunFits
  <2> QED BY <1>5, <2>1, <2>4, StartReopenTo, WorkFits
<1>6. ASSUME NEW w \in Worker, CloseOld(w) PROVE TasksFit'
  <2>1. /\ RunFits(w) /\ run[w] # Idle /\ queue' = queue /\ stopped' = stopped
        /\ run[w].task.op = "reopen"
    BY <1>6, CloseOldTo DEF TasksFit, CloseOld, RunFits
  <2>2. PICK tk \in Task : /\ tk = run[w].task /\ TaskFits(tk) /\ TaskFits(tk)'
                           /\ w = LaneOf(tk.req)' \/ (w = tk.req /\ LaneOf(w)' \in stopped')
    BY <2>1, WorkOn
  <2>3. Posted(tk.req)' /\ tk.slots = Slots(tk.req)'
    BY <2>1, <2>2 DEF TaskFits
  <2>4. run'[w] = [at |-> "start", task |-> [op |-> "open", req |-> tk.req, slots |-> tk.slots],
                   fresh |-> {}, over |-> run[w].over]
    BY <1>6, <2>2, CloseOldTo DEF Req
  <2>5. RunFits(w)'
    BY <2>2, <2>3, <2>4 DEF RunFits, TaskFits
  <2> QED BY <1>6, <2>1, <2>5, CloseOldTo, WorkFits
<1>7. ASSUME NEW w \in Worker, DeviceOpens(w) PROVE TasksFit'
  <2>1. RunFits(w) /\ run[w] # Idle /\ queue' = queue /\ stopped' = stopped
    BY <1>7, DeviceOpensTo DEF TasksFit, DeviceOpens
  <2>2. PICK tk \in Task : /\ tk = run[w].task /\ TaskFits(tk) /\ TaskFits(tk)'
                           /\ w = LaneOf(tk.req)' \/ (w = tk.req /\ LaneOf(w)' \in stopped')
    BY <2>1, WorkOn
  <2>3. PICK got \in {{}, tk.slots} :
          run'[w] = [at |-> "opened", task |-> tk, fresh |-> got, over |-> run[w].over]
    BY <1>7, <2>2, DeviceOpensTo
  <2>4. tk.op = "open"
    BY <1>7, <2>1, <2>2, DeviceOpensTo DEF RunFits
  <2>5. RunFits(w)'
    BY <2>2, <2>3, <2>4 DEF RunFits
  <2> QED BY <1>7, <2>1, <2>5, DeviceOpensTo, WorkFits
<1>8. ASSUME NEW w \in Worker, NEW s \in Slot, Install(w, s) PROVE TasksFit'
  <2>1. RunFits(w) /\ run[w] # Idle /\ queue' = queue /\ stopped' = stopped
    BY <1>8, InstallTo DEF TasksFit, Install
  <2>2. PICK tk \in Task : /\ tk = run[w].task /\ TaskFits(tk) /\ TaskFits(tk)'
                           /\ w = LaneOf(tk.req)' \/ (w = tk.req /\ LaneOf(w)' \in stopped')
    BY <2>1, WorkOn
  <2>3. run'[w] = [at |-> "opened", task |-> tk, fresh |-> run[w].fresh \ {s},
                 over |-> run[w].over]
    BY <1>8, <2>2, InstallTo
  <2>4. RunFits(w)'
    BY <1>8, <2>1, <2>2, <2>3, InstallTo DEF RunFits
  <2> QED BY <1>8, <2>1, <2>4, InstallTo, WorkFits
<1>9. ASSUME NEW f \in Lane, Overrun(f) PROVE TasksFit'
  <2>1. RunFits(f) /\ run[f] # Idle /\ queue' = queue /\ stopped' = stopped /\ f \in Worker
    BY <1>9, OverrunTo DEF TasksFit, Overrun, Worker
  <2>2. PICK tk \in Task : /\ tk = run[f].task /\ TaskFits(tk) /\ TaskFits(tk)'
                           /\ f = LaneOf(tk.req)' \/ (f = tk.req /\ LaneOf(f)' \in stopped')
    BY <2>1, WorkOn
  <2>3. run'[f] = [at |-> run[f].at, task |-> tk, fresh |-> run[f].fresh,
                 over |-> TRUE]
    BY <1>9, <2>2, OverrunTo
  <2>4. RunFits(f)'
    BY <1>9, <2>1, <2>2, <2>3, OverrunTo DEF RunFits
  <2> QED BY <1>9, <2>1, <2>4, OverrunTo, WorkFits
<1>10. ASSUME NEW f \in Lane, TakeTask(f) PROVE TasksFit'
  <2>0. PICK tk \in Task : tk = Head(queue[f])
    BY <1>10, TakeTo
  <2>1. Pending(f) = Pending(f)' \cup {tk} /\ Pending(f) \subseteq Task
    BY <1>10, <2>0, TakeTo, PendingTail, PendingTasks
  <2>2. TaskFits(tk)' /\ LaneOf(tk.req) = f
    BY <2>0, <2>1, TaskStays DEF TasksFit, LaneFits
  <2>3. run'[f] = Started(tk) /\ f \in Worker /\ f \notin stopped /\ stopped' = stopped
    BY <1>10, <2>0, TakeTo DEF TakeTask, Worker
  <2>4. ASSUME NEW w \in Worker PROVE RunFits(w)'
    <3>1. CASE w = f
      BY <1>0, <2>2, <2>3, <3>1, StartedType DEF RunFits
    <3>2. CASE w # f
      BY <1>10, <3>2, TakeTo, RunStays DEF TasksFit
    <3> QED BY <3>1, <3>2
  <2>5. ASSUME NEW g \in Lane PROVE LaneFits(g)'
    <3>1. CASE g = f
      BY <1>0, <2>1, <2>3, <3>1, TaskStays DEF TasksFit, LaneFits
    <3>2. CASE g # f
      <4>1. LaneFits(g) /\ g \in Worker
        BY DEF TasksFit, Worker
      <4>2. queue'[g] = queue[g] /\ run'[g] = run[g]
        BY <1>10, <3>2, <4>1, TakeTo
      <4> QED BY <2>3, <4>1, <4>2, LaneStays DEF LaneFits
    <3> QED BY <3>1, <3>2
  <2> QED BY <2>4, <2>5 DEF TasksFit
<1>11. ASSUME NEW r \in Request, Ask(r) \/ Hold(r) \/ HoldSpeaker(r) \/ GiveUp(r)
       PROVE  TasksFit'
  BY <1>11, IdleFits DEF Ask, Hold, HoldSpeaker, GiveUp
<1>12. ASSUME NEW s \in Slot, Release(s) \/ Unhold(s) PROVE TasksFit'
  BY <1>12, IdleFits DEF Release, Unhold
<1>13. ASSUME NEW f \in Lane, Stop(f) \/ Exit(f) PROVE TasksFit'
  BY <1>13, IdleFits DEF Stop, Exit
<1>14. CASE UNCHANGED vars
  BY <1>14, IdleFits DEF vars
<1> QED
  BY <1>1, <1>2, <1>3, <1>4, <1>5, <1>6, <1>7, <1>8, <1>9, <1>10, <1>11, <1>12, <1>13,
     <1>14 DEF Next, Work

-----------------------------------------------------------------------------
(***************************************************************************)
(* A caller that runs its task itself.                                     *)
(***************************************************************************)

LEMMA CallerIsBusy ==
  ASSUME TypeOK, ReleaseFits, TasksFit, CallerFits, NEW r \in Request, run[r] # Idle
  PROVE  /\ Posted(r) /\ run[LaneOf(r)] = Idle
         /\ ~PostOpen(r) /\ ~Reopen(r) /\ ~GiveUp(r)
         /\ \A s \in Slot : s[1] = r => ~Release(s) /\ ~Unhold(s) /\ ~PostClose(s)
<1>0. r \in Worker /\ LaneOf(r) \in Lane /\ r \notin Lane
  BY SetupType, MediaAssumption DEF Worker
<1>1. PICK tk \in Task : tk = run[r].task
  BY <1>0, WorkerType
<1>2. /\ TaskFits(tk) /\ tk.req = r /\ LaneOf(r) \in stopped
  <2>1. RunFits(r) /\ tk.req \in Request
    BY <1>0 DEF TasksFit, Task
  <2>2. LaneOf(tk.req) # r
    BY <1>0, <2>1, SetupType
  <2> QED BY <1>1, <2>1, <2>2 DEF RunFits
<1>3. Posted(r) /\ run[LaneOf(r)] = Idle
  BY <1>0, <1>2 DEF TaskFits, TasksFit, LaneFits
<1>4. ~PostOpen(r) /\ ~GiveUp(r)
  BY <1>3 DEF PostOpen, GiveUp, Posted
<1>5. ~Reopen(r)
  <2> SUFFICES ASSUME Reopen(r) PROVE FALSE
    OBVIOUS
  <2>1. phase[r] = "granted" /\ Slots(r) = {First(r)} /\ rel[First(r)] = "kept"
    BY DEF Reopen, Slots, First, KindsOf, Released
  <2>2. tk.op = "close"
    BY <1>1, <2>1 DEF CallerFits, Task
  <2>3. rel[First(r)] = "done"
    BY <1>2, <2>1, <2>2 DEF TaskFits
  <2> QED BY <2>1, <2>3
<1>6. ASSUME NEW s \in Slot, s[1] = r, Release(s) \/ Unhold(s) \/ PostClose(s)
      PROVE  FALSE
  <2>1. ~Release(s)
    BY <1>6 DEF Release
  <2>2. rel[s] \in {"taken", "unheld"}
    BY <1>6, <2>1 DEF Unhold, PostClose
  <2>3. s \in Slots(r)
    BY <1>6, <2>2 DEF ReleaseFits, Released
  <2> QED BY <2>2, <2>3 DEF CallerFits
<1> QED BY <1>3, <1>4, <1>5, <1>6

\* The worker goes on with its task, or is through with it.
LEMMA BusyGoesOn ==
  ASSUME TypeOK, ReleaseFits, TasksFit, CallerFits, [Next]_vars,
         NEW w \in Worker, run[w] # Idle
  PROVE  \/ run'[w] = run[w]
         \/ Work(w)
         \/ w \in Lane /\ Overrun(w)
<1>1. ASSUME NEW r \in Request, PostOpen(r) \/ Reopen(r) PROVE run'[w] = run[w]
  <2>1. \E tk \in Task : Post(r, tk)
    BY <1>1, Posts
  <2>2. w # r
    BY <1>1, CallerIsBusy
  <2> QED BY <2>1, <2>2, PostTo
<1>2. ASSUME NEW s \in Slot, PostClose(s) PROVE run'[w] = run[w]
  <2>1. s[1] \in Request /\ s[1] # w
    BY <1>2, SlotType, CallerIsBusy
  <2>2. run' = run \/ \E tk \in Task : Post(s[1], tk)
    BY <1>2, ClosePosts
  <2> QED BY <2>1, <2>2, PostTo
<1>3. ASSUME NEW v \in Worker, Work(v), v # w PROVE run'[w] = run[w]
  <2>1. CASE Skip(v) \/ EndOpen(v) \/ Close(v)
    <3>1. run[v] # Idle /\ Finish(v)
      BY <2>1 DEF Skip, EndOpen, Close, At
    <3> QED BY <1>3, <3>1, FinishTo
  <2>2. CASE StartOpen(v)
    BY <1>3, <2>2, StartOpenTo
  <2>3. CASE StartReopen(v)
    BY <1>3, <2>3, StartReopenTo
  <2>4. CASE CloseOld(v)
    BY <1>3, <2>4, CloseOldTo
  <2>5. CASE DeviceOpens(v)
    BY <1>3, <2>5, DeviceOpensTo
  <2>6. ASSUME NEW s \in Slot, Install(v, s) PROVE run'[w] = run[w]
    BY <1>3, <2>6, InstallTo
  <2> QED BY <1>3, <2>1, <2>2, <2>3, <2>4, <2>5, <2>6 DEF Work
<1>4. ASSUME NEW f \in Lane, TakeTask(f) PROVE run'[w] = run[w]
  <2>1. f # w
    BY <1>4 DEF TakeTask
  <2> QED BY <1>4, <2>1, TakeTo
<1>5. ASSUME NEW f \in Lane, Overrun(f), f # w PROVE run'[w] = run[w]
  BY <1>5, OverrunTo
<1>6. ASSUME NEW f \in Lane, Stop(f) \/ Exit(f) PROVE run'[w] = run[w]
  BY <1>6 DEF Stop, Exit
<1>7. ASSUME NEW r \in Request, Ask(r) \/ Hold(r) \/ HoldSpeaker(r) \/ GiveUp(r)
      PROVE  run'[w] = run[w]
  BY <1>7 DEF Ask, Hold, HoldSpeaker, GiveUp
<1>8. ASSUME NEW s \in Slot, Release(s) \/ Unhold(s) PROVE run'[w] = run[w]
  BY <1>8 DEF Release, Unhold
<1>9. CASE UNCHANGED vars
  BY <1>9 DEF vars
<1> QED
  BY <1>1, <1>2, <1>3, <1>4, <1>5, <1>6, <1>7, <1>8, <1>9 DEF Next

LEMMA CallerFitsStep ==
  TypeOK /\ ReleaseFits /\ TasksFit /\ CallerFits /\ [Next]_vars => CallerFits'
<1> SUFFICES ASSUME TypeOK, ReleaseFits, TasksFit, CallerFits, [Next]_vars,
                    NEW r \in Request
             PROVE  /\ run'[r] # Idle =>
                         /\ run'[r].task.op \in {"open", "reopen"} =>
                              phase'[r] \in {"waiting", "reopening"}
                         /\ \A s \in Slots(r) : rel'[s] \in {"kept", "done"}
                    /\ \A s, t \in Slots(r) :
                         rel'[s] \in {"taken", "unheld"} /\ rel'[t] \in {"taken", "unheld"} =>
                           s = t
  BY SetupStays, SameSetup DEF CallerFits
<1>0. /\ Slots(r) \subseteq Slot /\ \A s \in Slots(r) : s[1] = r
      /\ r \in Worker /\ r \notin Lane
      /\ rel \in [Slot -> {"kept", "taken", "unheld", "done"}]
  BY SetupType, MediaAssumption DEF Worker, TypeOK
<1>1. ASSUME NEW s \in Slots(r), NEW t \in Slots(r),
             rel'[s] \in {"taken", "unheld"}, rel'[t] \in {"taken", "unheld"}
      PROVE  s = t
  <2>1. CASE Release(s) \/ Release(t)
    BY <1>0, <1>1, <2>1 DEF Release
  <2>2. CASE ~Release(s) /\ ~Release(t)
    <3>1. rel[s] \in {"taken", "unheld"} /\ rel[t] \in {"taken", "unheld"}
      BY <1>0, <1>1, <2>2, RelMoves
    <3> QED BY <3>1 DEF CallerFits
  <2> QED BY <2>1, <2>2
<1>2. ASSUME run[r] = Idle, run'[r] # Idle
      PROVE  /\ run'[r].task.op \in {"open", "reopen"} => phase'[r] \in {"waiting", "reopening"}
             /\ \A s \in Slots(r) : rel'[s] \in {"kept", "done"}
  <2>1. CASE PostOpen(r) \/ Reopen(r)
    <3>1. \A s \in Slots(r) : rel[s] = "kept"
      <4>1. CASE PostOpen(r)
        BY <1>0, <4>1 DEF PostOpen, ReleaseFits, Settled, Released
      <4>2. CASE Reopen(r)
        BY <4>2 DEF Reopen, Slots, First, KindsOf, Released
      <4> QED BY <2>1, <4>1, <4>2
    <3>2. rel' = rel /\ phase'[r] \in {"waiting", "reopening"}
      BY <2>1, Posts DEF PostOpen, Reopen
    <3> QED BY <3>1, <3>2
  <2>2. ASSUME NEW s \in Slot, s[1] = r, PostClose(s)
        PROVE  /\ run'[r].task.op = "close"
               /\ \A t \in Slots(r) : rel'[t] \in {"kept", "done"}
    <3>1. \E tk \in Task : tk.op = "close" /\ Post(r, tk)
      BY <1>2, <2>2, ClosePosts
    <3>2. run'[r].task.op = "close"
      BY <1>2, <3>1, PostTo, StartedType
    <3>3. s \in Slots(r) /\ rel[s] = "unheld" /\ rel'[s] = "done"
      BY <2>2, ClosePosts
    <3>4. \A t \in Slots(r) : t # s => rel[t] \in {"kept", "done"} /\ rel'[t] = rel[t]
      BY <1>0, <2>2, <3>3 DEF CallerFits, PostClose
    <3> QED BY <3>2, <3>3, <3>4
  <2> QED BY <1>2, <2>1, <2>2, CallerRuns
<1>3. ASSUME run[r] # Idle, run'[r] # Idle
      PROVE  /\ run'[r].task.op \in {"open", "reopen"} => phase'[r] \in {"waiting", "reopening"}
             /\ \A s \in Slots(r) : rel'[s] \in {"kept", "done"}
  <2>1. \A s \in Slots(r) : rel'[s] \in {"kept", "done"}
    BY <1>0, <1>3, CallerIsBusy, RelMoves DEF CallerFits
  <2>2. run'[r].task.op \in {"open", "reopen"} => run[r].task.op \in {"open", "reopen"}
    <3>1. CASE run'[r] = run[r]
      BY <3>1
    <3>2. CASE Work(r)
      <4>1. ~Skip(r) /\ ~EndOpen(r) /\ ~Close(r)
        BY <1>0, <1>3, FinishTo DEF Skip, EndOpen, Close, At
      <4>2. CASE StartOpen(r)
        BY <1>0, <4>2, StartOpenTo
      <4>3. CASE StartReopen(r)
        BY <1>0, <4>3, StartReopenTo
      <4>4. CASE CloseOld(r)
        BY <1>0, <1>3, <4>4, CloseOldTo DEF TasksFit, RunFits
      <4>5. CASE DeviceOpens(r)
        <5>1. PICK got \in {{}, run[r].task.slots} :
                run'[r] = [at |-> "opened", task |-> run[r].task, fresh |-> got,
                           over |-> run[r].over]
          BY <1>0, <4>5, DeviceOpensTo
        <5> QED BY <5>1
      <4>6. ASSUME NEW s \in Slot, Install(r, s) PROVE run'[r].task.op = run[r].task.op
        <5>1. run'[r] = [at |-> "opened", task |-> run[r].task,
                         fresh |-> run[r].fresh \ {s}, over |-> run[r].over]
          BY <1>0, <4>6, InstallTo
        <5> QED BY <5>1
      <4> QED BY <3>2, <4>1, <4>2, <4>3, <4>4, <4>5, <4>6 DEF Work
    <3> QED BY <1>0, <1>3, <3>1, <3>2, BusyGoesOn
  <2>3. ASSUME phase[r] \in {"waiting", "reopening"} PROVE phase'[r] = phase[r]
    <3> SUFFICES ASSUME phase'[r] # phase[r] PROVE FALSE
      OBVIOUS
    <3>1. PICK w \in Worker : /\ run[w] # Idle /\ Req(w) = r
                              /\ Skip(w) \/ EndOpen(w) \/ Close(w)
      BY <1>3, <2>3, CallerIsBusy, PhaseMoves
         DEF Ask, Hold, HoldSpeaker, PostOpen, Reopen
    <3>2. w = LaneOf(r) \/ w = r
      BY <3>1 DEF TasksFit, RunFits, Req
    <3>3. w = r
      BY <1>3, <3>1, <3>2, CallerIsBusy
    <3>4. Finish(w)
      BY <3>1 DEF Skip, EndOpen, Close
    <3> QED BY <1>3, <3>1, <3>3, <3>4, FinishTo
  <2> QED BY <1>3, <2>1, <2>2, <2>3 DEF CallerFits
<1> QED BY <1>1, <1>2, <1>3

-----------------------------------------------------------------------------
(***************************************************************************)
(* Where the open endpoints are.                                           *)
(***************************************************************************)

\* The caller of a request is about to post a task for it.
Posting(r) == PostOpen(r) \/ Reopen(r) \/ \E s \in Slot : s[1] = r /\ PostClose(s)

LEMMA QueueMoves ==
  ASSUME TypeOK, ReleaseFits, [Next]_vars, NEW f \in Lane, queue'[f] # queue[f]
  PROVE  \/ TakeTask(f)
         \/ \E r \in Request, tk \in Task :
              /\ Posting(r) /\ tk.req = r /\ LaneOf(r) = f
              /\ run' = run /\ queue'[f] = Append(queue[f], tk)
<1>1. ASSUME NEW r \in Request, PostOpen(r) \/ Reopen(r)
      PROVE  \E p \in Request, tk \in Task :
               /\ Posting(p) /\ tk.req = p /\ LaneOf(p) = f
               /\ run' = run /\ queue'[f] = Append(queue[f], tk)
  <2>1. PICK tk \in Task : tk.req = r /\ Post(r, tk)
    BY <1>1, Posts
  <2>2. LaneOf(r) = f /\ run' = run /\ queue'[f] = Append(queue[f], tk)
    BY <2>1, PostTo
  <2> QED BY <1>1, <2>1, <2>2 DEF Posting
<1>2. ASSUME NEW s \in Slot, PostClose(s)
      PROVE  \E p \in Request, tk \in Task :
               /\ Posting(p) /\ tk.req = p /\ LaneOf(p) = f
               /\ run' = run /\ queue'[f] = Append(queue[f], tk)
  <2>1. s[1] \in Request
    BY SlotType
  <2>2. PICK tk \in Task : tk.req = s[1] /\ Post(s[1], tk)
    BY <1>2, ClosePosts
  <2>3. LaneOf(s[1]) = f /\ run' = run /\ queue'[f] = Append(queue[f], tk)
    BY <2>1, <2>2, PostTo
  <2> QED BY <1>2, <2>1, <2>2, <2>3 DEF Posting
<1>3. ASSUME NEW g \in Lane, TakeTask(g) PROVE TakeTask(f)
  BY <1>3, TakeTo
<1>4. ASSUME NEW w \in Worker, Work(w) PROVE FALSE
  BY <1>4 DEF Work, Skip, StartOpen, StartReopen, CloseOld, DeviceOpens, Install, EndOpen,
              Close, Finish
<1>5. ASSUME NEW g \in Lane, Overrun(g) \/ Stop(g) \/ Exit(g) PROVE FALSE
  BY <1>5 DEF Overrun, Stop, Exit
<1>6. ASSUME NEW r \in Request, Ask(r) \/ Hold(r) \/ HoldSpeaker(r) \/ GiveUp(r) PROVE FALSE
  BY <1>6 DEF Ask, Hold, HoldSpeaker, GiveUp
<1>7. ASSUME NEW s \in Slot, Release(s) \/ Unhold(s) PROVE FALSE
  BY <1>7 DEF Release, Unhold
<1>8. CASE UNCHANGED vars
  BY <1>8 DEF vars
<1> QED
  BY <1>1, <1>2, <1>3, <1>4, <1>5, <1>6, <1>7, <1>8 DEF Next

\* Only the device opens anything; where an endpoint is moves in these steps.
LEMMA EndpointMoves ==
  ASSUME TypeOK, [Next]_vars, NEW s \in Slot
  PROVE  /\ s \in open' \ open => \E w \in Worker : DeviceOpens(w)
         /\ s \in endpoint \ endpoint' =>
              Release(s) \/ \E w \in Worker : StartReopen(w) /\ s \in run[w].task.slots
         /\ s \in endpoint' \ endpoint => \E w \in Worker : Install(w, s) /\ ~Released(s)
         /\ s \in hand \ hand' => PostClose(s)
         /\ s \in hand' \ hand => Release(s)
<1>1. ASSUME NEW r \in Request,
             \/ Ask(r) \/ Hold(r) \/ HoldSpeaker(r) \/ PostOpen(r) \/ Reopen(r) \/ GiveUp(r)
      PROVE  UNCHANGED <<open, endpoint, hand>>
  BY <1>1 DEF Ask, Hold, HoldSpeaker, PostOpen, Reopen, GiveUp
<1>2. ASSUME NEW t \in Slot, Release(t)
      PROVE  /\ open' = open /\ endpoint' = endpoint \ {t} /\ hand' = hand \cup (endpoint \cap {t})
  BY <1>2 DEF Release
<1>3. ASSUME NEW t \in Slot, Unhold(t) PROVE UNCHANGED <<open, endpoint, hand>>
  BY <1>3 DEF Unhold
<1>4. ASSUME NEW t \in Slot, PostClose(t)
      PROVE  UNCHANGED <<open, endpoint>> /\ hand' = hand \ {t}
  BY <1>4 DEF PostClose
<1>5. ASSUME NEW w \in Worker, Skip(w) \/ StartOpen(w) \/ EndOpen(w) \/ Close(w) \/ CloseOld(w)
      PROVE  UNCHANGED <<endpoint, hand>> /\ open' \subseteq open
  BY <1>5 DEF Skip, StartOpen, EndOpen, Close, CloseOld, Finish
<1>6. ASSUME NEW w \in Worker, StartReopen(w)
      PROVE  UNCHANGED <<open, hand>> /\ endpoint' = endpoint \ run[w].task.slots
  BY <1>6 DEF StartReopen
<1>7. ASSUME NEW w \in Worker, DeviceOpens(w) PROVE UNCHANGED <<endpoint, hand>>
  BY <1>7 DEF DeviceOpens
<1>8. ASSUME NEW w \in Worker, NEW t \in Slot, Install(w, t)
      PROVE  /\ open' \subseteq open /\ hand' = hand
             /\ endpoint' = endpoint \/ (endpoint' = endpoint \cup {t} /\ ~Released(t))
  BY <1>8 DEF Install
<1>9. ASSUME NEW f \in Lane, TakeTask(f) \/ Overrun(f) \/ Stop(f) \/ Exit(f)
      PROVE  UNCHANGED <<open, endpoint, hand>>
  BY <1>9 DEF TakeTask, Overrun, Stop, Exit
<1>10. CASE UNCHANGED vars
  BY <1>10 DEF vars
<1> QED
  BY <1>1, <1>2, <1>3, <1>4, <1>5, <1>6, <1>7, <1>8, <1>9, <1>10 DEF Next, Work

\* An open endpoint is one of a request that posted its task.
LEMMA OpenPosted ==
  ASSUME TypeOK, ReleaseFits, TasksFit, OpenFits, NEW s \in open
  PROVE  s[1] \in Request /\ s \in Slots(s[1]) /\ Posted(s[1])
<1>0. s \in Slot /\ s[1] \in Request
  BY SlotType DEF TypeOK
<1>1. ASSUME NEW tk \in Task, TaskFits(tk), s \in tk.slots
      PROVE  s \in Slots(s[1]) /\ Posted(s[1])
  <2>1. tk.req \in Request /\ s \in Slots(tk.req) /\ Posted(tk.req)
    BY <1>1 DEF TaskFits, Task
  <2> QED BY <2>1, SetupType
<1>2. CASE s \in endpoint
  BY <1>0, <1>2 DEF OpenFits
<1>3. CASE s \in hand
  <2>1. Released(s)
    BY <1>3 DEF OpenFits, Released
  <2> QED BY <1>0, <2>1 DEF ReleaseFits, Settled, Posted
<1>4. ASSUME NEW w \in Worker, AtWork(w, s) PROVE s \in Slots(s[1]) /\ Posted(s[1])
  <2>1. run[w] # Idle /\ RunFits(w) /\ run[w].task \in Task
    BY <1>4, WorkerType DEF AtWork, TasksFit
  <2>2. TaskFits(run[w].task) /\ s \in run[w].task.slots
    BY <1>4, <2>1 DEF AtWork, RunFits, Closing
  <2> QED BY <1>1, <2>1, <2>2
<1>5. ASSUME NEW f \in Lane, NEW tk \in Pending(f), Closing(tk, s)
      PROVE  s \in Slots(s[1]) /\ Posted(s[1])
  <2>1. tk \in Task /\ TaskFits(tk)
    BY PendingTasks DEF TasksFit, LaneFits
  <2> QED BY <1>1, <1>5, <2>1 DEF Closing
<1>6. \/ s \in endpoint \cup hand
      \/ \E w \in Worker : AtWork(w, s)
      \/ \E f \in Lane : \E tk \in Pending(f) : Closing(tk, s)
  BY DEF OpenFits
<1> QED BY <1>0, <1>2, <1>3, <1>4, <1>5, <1>6

\* Where a step leaves an endpoint that is open.
Somewhere(s) ==
  \/ s \in endpoint \cup hand
  \/ \E w \in Worker : AtWork(w, s)
  \/ \E f \in Lane : \E tk \in Pending(f) : Closing(tk, s)

\* A worker keeps what it holds, gives it to its lease, or closes it.
LEMMA AtWorkStep ==
  ASSUME TypeOK, ReleaseFits, TasksFit, CallerFits, [Next]_vars,
         NEW w \in Worker, NEW s \in Slot, AtWork(w, s), s \in open'
  PROVE  AtWork(w, s)' \/ s \in endpoint'
<1>0. run[w] # Idle /\ RunFits(w) /\ run[w] \in Running
  BY WorkerType DEF AtWork, TasksFit
<1>1. CASE run'[w] = run[w]
  BY <1>1 DEF AtWork
<1>2. CASE Skip(w)
  <2>1. run[w].at = "start" /\ run[w].task.op \in {"open", "reopen"}
    BY <1>2 DEF Skip, At, Op
  <2> QED BY <1>0, <2>1 DEF AtWork, Closing, RunFits
<1>3. CASE EndOpen(w)
  <2>1. run[w].at = "opened" /\ run[w].fresh = {}
    BY <1>3 DEF EndOpen, At
  <2> QED BY <1>0, <2>1 DEF AtWork, Closing, RunFits
<1>4. CASE Close(w)
  <2>1. run[w].at = "start" /\ open' = open \ run[w].task.slots
    BY <1>4 DEF Close, At
  <2> QED BY <1>0, <2>1 DEF AtWork, Closing, RunFits
<1>5. CASE StartOpen(w)
  <2>1. run'[w] = [at |-> "opening", task |-> run[w].task, fresh |-> run[w].fresh,
                   over |-> run[w].over] /\ run[w].task.op = "open" /\ run[w].at = "start"
    BY <1>5, StartOpenTo
  <2> QED BY <1>0, <2>1 DEF AtWork, Closing, RunFits
<1>6. CASE StartReopen(w)
  <2>1. run[w].task.op = "reopen" /\ run[w].at = "start"
    BY <1>6, StartReopenTo
  <2> QED BY <1>0, <2>1 DEF AtWork, Closing, RunFits
<1>7. CASE CloseOld(w)
  <2>1. run[w].at = "letting" /\ open' = open \ run[w].fresh
    BY <1>7 DEF CloseOld, At
  <2> QED BY <1>0, <2>1 DEF AtWork, Closing, RunFits
<1>8. CASE DeviceOpens(w)
  <2>1. run[w].at = "opening"
    BY <1>8 DEF DeviceOpens, At
  <2> QED BY <1>0, <2>1 DEF AtWork, Closing, RunFits
<1>9. ASSUME NEW t \in Slot, Install(w, t) PROVE AtWork(w, s)' \/ s \in endpoint'
  <2>1. /\ run[w].at = "opened"
        /\ run'[w] = [at |-> "opened", task |-> run[w].task,
                      fresh |-> run[w].fresh \ {t}, over |-> run[w].over]
    BY <1>9, InstallTo
  <2>2. s \in run[w].fresh
    BY <1>0, <2>1 DEF AtWork, Closing, RunFits
  <2>3. run'[w] # Idle
    BY <2>1 DEF Idle
  <2>4. CASE s = t
    BY <1>9, <2>4 DEF Install
  <2>5. CASE s # t
    BY <2>1, <2>2, <2>3, <2>5 DEF AtWork
  <2> QED BY <2>4, <2>5
<1>10. ASSUME w \in Lane, Overrun(w) PROVE AtWork(w, s)'
  <2>1. run'[w] = [at |-> run[w].at, task |-> run[w].task, fresh |-> run[w].fresh,
                   over |-> TRUE]
    BY <1>10, OverrunTo
  <2>2. run'[w] # Idle
    BY <2>1 DEF Idle
  <2> QED BY <2>1, <2>2 DEF AtWork, Closing
<1> QED
  BY <1>0, <1>1, <1>2, <1>3, <1>4, <1>5, <1>6, <1>7, <1>8, <1>9, <1>10, BusyGoesOn DEF Work

LEMMA OpenFitsStep ==
  TypeOK /\ ReleaseFits /\ TasksFit /\ CallerFits /\ OpenFits /\ [Next]_vars => OpenFits'
<1> SUFFICES ASSUME TypeOK, ReleaseFits, TasksFit, CallerFits, OpenFits, [Next]_vars
             PROVE  OpenFits'
  OBVIOUS
<1>0. /\ \A r : Slots(r)' = Slots(r)
      /\ \A s \in Slot : s[1] \in Request
      /\ TypeOK' /\ endpoint \subseteq Slot /\ hand \subseteq Slot /\ open \subseteq Slot
  BY SetupStays, SameSetup, SlotType, TypeStep DEF TypeOK
<1>0a. endpoint' \subseteq Slot /\ hand' \subseteq Slot /\ open' \subseteq Slot
  BY <1>0 DEF TypeOK
<1>1. ASSUME NEW s \in endpoint'
      PROVE  s \in Slots(s[1])' /\ ~Released(s)' /\ Posted(s[1])'
  <2>1. s \in Slot /\ s[1] \in Request
    BY <1>0, <1>0a
  <2>2. s \in Slots(s[1]) /\ ~Released(s) /\ Posted(s[1])
    <3>1. CASE s \in endpoint
      BY <3>1 DEF OpenFits
    <3>2. CASE s \notin endpoint
      <4>1. PICK w \in Worker : Install(w, s) /\ ~Released(s)
        BY <2>1, <3>2, EndpointMoves
      <4>2. run[w] # Idle /\ run[w].at = "opened" /\ s \in run[w].fresh
        BY <2>1, <4>1, InstallTo
      <4>3. RunFits(w) /\ run[w].task \in Task
        BY <4>2, WorkerType DEF TasksFit
      <4>4. s \in Slots(run[w].task.req) /\ Posted(run[w].task.req)
        BY <4>2, <4>3 DEF RunFits, TaskFits
      <4>5. run[w].task.req = s[1]
        BY <4>3, <4>4, SetupType DEF Task
      <4> QED BY <4>1, <4>4, <4>5
    <3> QED BY <3>1, <3>2
  <2>3. ~Released(s)'
    <3>1. ~Release(s)
      BY DEF Release
    <3> QED BY <2>1, <2>2, <3>1, RelMoves DEF Released
  <2> QED BY <1>0, <2>1, <2>2, <2>3, PostedStays
<1>2. ASSUME NEW s \in hand' PROVE rel'[s] \in {"taken", "unheld"}
  <2>0. s \in Slot
    BY <1>0a
  <2>1. CASE s \in hand
    <3>1. rel[s] \in {"taken", "unheld"} /\ ~PostClose(s)
      BY <2>1 DEF OpenFits, PostClose
    <3> QED BY <2>0, <3>1, RelMoves
  <2>2. CASE s \notin hand
    BY <2>0, <2>2, EndpointMoves DEF Release, TypeOK
  <2> QED BY <2>1, <2>2
<1>3. ASSUME NEW s \in open' PROVE Somewhere(s)'
  <2>0. s \in Slot
    BY <1>0a
  <2>1. CASE s \notin open
    <3>1. PICK w \in Worker : DeviceOpens(w)
      BY <2>0, <2>1, EndpointMoves
    <3>2. PICK got \in {{}, run[w].task.slots} :
            /\ run'[w] = [at |-> "opened", task |-> run[w].task, fresh |-> got,
                          over |-> run[w].over]
            /\ open' = open \cup got
      BY <3>1, DeviceOpensTo
    <3>3. run'[w] # Idle /\ s \in run'[w].fresh
      BY <2>1, <3>2 DEF Idle
    <3> QED BY <3>3 DEF Somewhere, AtWork
  <2>2. CASE s \in endpoint
    <3> SUFFICES ASSUME s \notin endpoint' PROVE Somewhere(s)'
      BY DEF Somewhere
    <3>1. CASE Release(s)
      BY <2>2, <3>1 DEF Release, Somewhere
    <3>2. ASSUME NEW w \in Worker, StartReopen(w), s \in run[w].task.slots
          PROVE  Somewhere(s)'
      <4>1. run'[w] = [at |-> "letting", task |-> run[w].task,
                       fresh |-> endpoint \cap run[w].task.slots, over |-> run[w].over]
        BY <3>2, StartReopenTo
      <4>2. run'[w] # Idle /\ s \in run'[w].fresh
        BY <2>2, <3>2, <4>1 DEF Idle
      <4> QED BY <4>2 DEF Somewhere, AtWork
    <3> QED BY <2>0, <2>2, <3>1, <3>2, EndpointMoves
  <2>3. CASE s \in hand
    <3> SUFFICES ASSUME s \notin hand' PROVE Somewhere(s)'
      BY DEF Somewhere
    <3>1. PostClose(s)
      BY <2>0, <2>3, EndpointMoves
    <3>2. PICK tk \in Task : /\ tk = [op |-> "close", req |-> s[1], slots |-> {s}]
                             /\ Post(s[1], tk)
      BY <2>0, <2>3, <3>1, ClosePosts
    <3>3. Closing(tk, s) /\ s[1] \in Request
      BY <1>0, <2>0, <3>2 DEF Closing
    <3>4. CASE queue'[LaneOf(s[1])] = Append(queue[LaneOf(s[1])], tk)
      <4>1. LaneOf(s[1]) \in Lane /\ tk \in Pending(LaneOf(s[1]))'
        <5>1. LaneOf(s[1]) \in Lane
          BY <3>3, SetupType
        <5>2. PICK f \in Lane : f = LaneOf(s[1])
          BY <5>1
        <5>3. tk \in Pending(f)'
          BY <3>4, <5>2, PendingAppend
        <5> QED BY <5>1, <5>2, <5>3, SetupStays, SameSetup
      <4> QED BY <3>3, <4>1, SetupStays, SameSetup DEF Somewhere, Closing
    <3>5. CASE run'[s[1]] = Started(tk)
      <4>1. AtWork(s[1], s)'
        BY <3>3, <3>5, StartedType DEF AtWork, Closing
      <4> QED BY <3>3, <4>1 DEF Somewhere, Worker
    <3> QED BY <3>2, <3>3, <3>4, <3>5, PostTo
  <2>4. ASSUME NEW w \in Worker, AtWork(w, s) PROVE Somewhere(s)'
    BY <2>0, <2>4, AtWorkStep DEF Somewhere
  <2>5. ASSUME NEW f \in Lane, NEW tk \in Pending(f), Closing(tk, s) PROVE Somewhere(s)'
    <3>1. CASE TakeTask(f)
      <4>1. CASE tk = Head(queue[f])
        <5>1. run'[f] = Started(tk) /\ tk \in Task
          BY <3>1, <4>1, TakeTo
        <5>2. AtWork(f, s)'
          BY <2>5, <5>1, StartedType DEF AtWork, Closing
        <5> QED BY <5>2 DEF Somewhere, Worker
      <4>2. CASE tk # Head(queue[f])
        <5>1. tk \in Pending(f)'
          BY <3>1, <4>2, TakeTo, PendingTail
        <5> QED BY <2>5, <5>1 DEF Somewhere, Closing
      <4> QED BY <4>1, <4>2
    <3>2. CASE ~TakeTask(f)
      <4>1. tk \in Pending(f)'
        <5>1. CASE queue'[f] = queue[f]
          BY <5>1 DEF Pending
        <5>2. CASE queue'[f] # queue[f]
          BY <3>2, <5>2, QueueMoves, PendingAppend
        <5> QED BY <5>1, <5>2
      <4> QED BY <2>5, <4>1 DEF Somewhere, Closing
    <3> QED BY <3>1, <3>2
  <2>6. CASE s \in open
    <3>1. Somewhere(s)
      BY <2>6 DEF OpenFits, Somewhere
    <3> QED BY <2>2, <2>3, <2>4, <2>5, <3>1 DEF Somewhere
  <2> QED BY <2>1, <2>6
<1> QED BY <1>1, <1>2, <1>3 DEF OpenFits, Somewhere

-----------------------------------------------------------------------------
(***************************************************************************)
(* The order of a lane.                                                    *)
(***************************************************************************)

\* A caller is not through with a request has asked for nothing later.
LEMMA LastOfCaller ==
  ASSUME TypeOK, Turn, NEW r \in Request, ~Over(r),
         NEW p \in Request, SameCaller(p, r), LaneOf(p) = LaneOf(r), phase[p] # "idle"
  PROVE  p <= r
<1> SUFFICES ASSUME r < p PROVE FALSE
  BY MediaAssumption
<1>1. r \in Earlier(p)
  BY DEF Earlier, SameCaller
<1> QED BY <1>1 DEF Turn

LEMMA PostingIsNotOver ==
  ASSUME TypeOK, ReleaseFits, NEW r \in Request, Posting(r)
  PROVE  ~Over(r)
<1>0. First(r) \in Slots(r)
  BY SetupType
<1>1. CASE PostOpen(r)
  BY <1>1 DEF PostOpen, Over
<1>2. CASE Reopen(r)
  BY <1>0, <1>2 DEF Reopen, Over, Released
<1>3. ASSUME NEW s \in Slot, s[1] = r, PostClose(s) PROVE ~Over(r)
  <2>1. s \in Slots(r) /\ rel[s] = "unheld" /\ Settled(r)
    BY <1>3, ClosePosts
  <2> QED BY <2>1 DEF Over, Settled
<1> QED BY <1>1, <1>2, <1>3 DEF Posting

LEMMA PostingOpensNothing ==
  ASSUME NEW r \in Request, Posting(r)
  PROVE  open' = open
  BY DEF Posting, PostOpen, Reopen, PostClose

\* A lane gets its task from its queue.
LEMMA LaneRuns ==
  ASSUME TypeOK, ReleaseFits, [Next]_vars, NEW f \in Lane, run[f] = Idle, run'[f] # Idle
  PROVE  TakeTask(f)
<1>0. f \in Worker /\ \A r \in Request : f # r
  BY MediaAssumption DEF Worker, Lane
<1>1. ASSUME NEW r \in Request, PostOpen(r) \/ Reopen(r) PROVE FALSE
  <2>1. \E tk \in Task : Post(r, tk)
    BY <1>1, Posts
  <2> QED BY <1>0, <2>1, PostTo
<1>2. ASSUME NEW s \in Slot, PostClose(s) PROVE FALSE
  <2>1. s[1] \in Request /\ (run' = run \/ \E tk \in Task : Post(s[1], tk))
    BY <1>2, ClosePosts
  <2> QED BY <1>0, <2>1, PostTo
<1>3. ASSUME NEW w \in Worker, Work(w) PROVE FALSE
  <2>1. CASE Skip(w) \/ EndOpen(w) \/ Close(w)
    <3>1. run[w] # Idle /\ Finish(w)
      BY <2>1 DEF Skip, EndOpen, Close, At
    <3> QED BY <1>0, <3>1, FinishTo
  <2>2. CASE StartOpen(w)
    BY <1>0, <2>2, StartOpenTo
  <2>3. CASE StartReopen(w)
    BY <1>0, <2>3, StartReopenTo
  <2>4. CASE CloseOld(w)
    BY <1>0, <2>4, CloseOldTo
  <2>5. CASE DeviceOpens(w)
    BY <1>0, <2>5, DeviceOpensTo
  <2>6. ASSUME NEW s \in Slot, Install(w, s) PROVE FALSE
    BY <1>0, <2>6, InstallTo
  <2> QED BY <1>3, <2>1, <2>2, <2>3, <2>4, <2>5, <2>6 DEF Work
<1>4. ASSUME NEW g \in Lane, TakeTask(g), g # f PROVE FALSE
  BY <1>0, <1>4, TakeTo
<1>5. ASSUME NEW g \in Lane, Overrun(g) PROVE FALSE
  BY <1>0, <1>5, OverrunTo
<1>6. ASSUME NEW g \in Lane, Stop(g) \/ Exit(g) PROVE FALSE
  BY <1>6 DEF Stop, Exit
<1>7. ASSUME NEW r \in Request, Ask(r) \/ Hold(r) \/ HoldSpeaker(r) \/ GiveUp(r) PROVE FALSE
  BY <1>7 DEF Ask, Hold, HoldSpeaker, GiveUp
<1>8. ASSUME NEW s \in Slot, Release(s) \/ Unhold(s) PROVE FALSE
  BY <1>8 DEF Release, Unhold
<1>9. CASE UNCHANGED vars
  BY <1>9 DEF vars
<1> QED
  BY <1>1, <1>2, <1>3, <1>4, <1>5, <1>6, <1>7, <1>8, <1>9 DEF Next

LEMMA ReqStays ==
  ASSUME TypeOK, ReleaseFits, TasksFit, CallerFits, [Next]_vars,
         NEW w \in Worker, run[w] # Idle, run'[w] # Idle
  PROVE  run'[w].task.req = run[w].task.req
<1>1. CASE run'[w] = run[w]
  BY <1>1
<1>2. ~Skip(w) /\ ~EndOpen(w) /\ ~Close(w)
  BY FinishTo DEF Skip, EndOpen, Close
<1>3. CASE StartOpen(w)
  <2>1. run'[w] = [at |-> "opening", task |-> run[w].task, fresh |-> run[w].fresh,
                   over |-> run[w].over]
    BY <1>3, StartOpenTo
  <2> QED BY <2>1
<1>4. CASE StartReopen(w)
  <2>1. run'[w] = [at |-> "letting", task |-> run[w].task,
                   fresh |-> endpoint \cap run[w].task.slots, over |-> run[w].over]
    BY <1>4, StartReopenTo
  <2> QED BY <2>1
<1>5. CASE CloseOld(w)
  <2>1. run'[w] = [at |-> "start",
                   task |-> [op |-> "open", req |-> Req(w), slots |-> run[w].task.slots],
                   fresh |-> {}, over |-> run[w].over]
    BY <1>5, CloseOldTo
  <2> QED BY <2>1 DEF Req
<1>6. CASE DeviceOpens(w)
  <2>1. PICK got \in {{}, run[w].task.slots} :
          run'[w] = [at |-> "opened", task |-> run[w].task, fresh |-> got,
                     over |-> run[w].over]
    BY <1>6, DeviceOpensTo
  <2> QED BY <2>1
<1>7. ASSUME NEW s \in Slot, Install(w, s) PROVE run'[w].task.req = run[w].task.req
  <2>1. run'[w] = [at |-> "opened", task |-> run[w].task, fresh |-> run[w].fresh \ {s},
                   over |-> run[w].over]
    BY <1>7, InstallTo
  <2> QED BY <2>1
<1>8. ASSUME w \in Lane, Overrun(w) PROVE run'[w].task.req = run[w].task.req
  <2>1. run'[w] = [at |-> run[w].at, task |-> run[w].task, fresh |-> run[w].fresh,
                   over |-> TRUE]
    BY <1>8, OverrunTo
  <2> QED BY <2>1
<1> QED BY <1>1, <1>2, <1>3, <1>4, <1>5, <1>6, <1>7, <1>8, BusyGoesOn DEF Work

\* What a lane opens is of the request it is at, and that is the first there.
LEMMA ShutStays ==
  ASSUME TypeOK, ReleaseFits, TasksFit, OrderFits, [Next]_vars,
         NEW f \in Lane, NEW tk \in Task, LaneOf(tk.req) = f, LaterIsShut(tk),
         tk \in Pending(f) \/ (run[f] # Idle /\ tk.req = Req(f))
  PROVE  LaterIsShut(tk)'
<1> SUFFICES ASSUME NEW s \in open', SameCaller(tk.req, s[1]), LaneOf(tk.req) = LaneOf(s[1])
             PROVE  s[1] <= tk.req
  BY SetupStays, SameSetup DEF LaterIsShut, SameCaller
<1>0. s \in Slot /\ tk.req \in Request /\ tk.req \in Nat
  <2>1. open' \subseteq Slot
    BY TypeStep DEF TypeOK
  <2> QED BY <2>1, MediaAssumption DEF Task
<1>1. CASE s \in open
  BY <1>1 DEF LaterIsShut
<1>2. CASE s \notin open
  <2>1. PICK w \in Worker : DeviceOpens(w)
    BY <1>0, <1>2, EndpointMoves
  <2>2. run[w] # Idle /\ run[w].at = "opening" /\ s \in run[w].task.slots
    <3>1. \E got \in {{}, run[w].task.slots} : open' = open \cup got
      BY <2>1, DeviceOpensTo
    <3>2. run[w] # Idle /\ run[w].at = "opening"
      BY <2>1, DeviceOpensTo
    <3> QED BY <1>2, <3>1, <3>2
  <2>3. PICK job \in Task : job = run[w].task
    BY <2>2, WorkerType
  <2>4. /\ s \in Slots(job.req) /\ job.req \in Request
        /\ w = LaneOf(job.req) \/ (w = job.req /\ LaneOf(w) \in stopped)
    <3>1. RunFits(w)
      BY DEF TasksFit
    <3> QED BY <2>2, <2>3, <3>1 DEF RunFits, TaskFits, Task
  <2>5. s[1] = job.req /\ LaneOf(job.req) = f
    BY <2>4, SetupType
  <2>6. CASE w = f
    <3>1. Req(f) = job.req /\ run[f] # Idle
      BY <2>2, <2>3, <2>6 DEF Req
    <3>2. CASE tk \in Pending(f)
      <4>1. SameCaller(Req(f), tk.req)
        BY <2>5, <3>1 DEF SameCaller
      <4> QED BY <2>5, <3>1, <3>2, <4>1 DEF OrderFits, InOrder
    <3>3. CASE tk.req = Req(f)
      BY <1>0, <2>5, <3>1, <3>3
    <3> QED BY <3>2, <3>3
  <2>7. CASE w # f
    <3>1. f \in stopped
      BY <2>4, <2>5, <2>7
    <3>2. run[f] = Idle /\ Pending(f) = {}
      BY <3>1, PendingTasks DEF TasksFit, LaneFits
    <3> QED BY <3>2
  <2> QED BY <2>6, <2>7
<1> QED BY <1>1, <1>2

\* A task that is posted is of the caller's last request.
LEMMA NewTaskIsLast ==
  ASSUME TypeOK, Turn, ReleaseFits, TasksFit, OpenFits, [Next]_vars,
         NEW f \in Lane, NEW tk \in Task, NEW r \in Request, Posting(r),
         tk.req = r, LaneOf(r) = f
  PROVE  /\ LaterIsShut(tk)'
         /\ \A x \in Pending(f) : SameCaller(x.req, r) => x.req <= r
         /\ run[f] # Idle => (SameCaller(Req(f), r) => Req(f) <= r)
<1>1. ~Over(r)
  BY PostingIsNotOver
<1>2. ASSUME NEW p \in Request, Posted(p), SameCaller(p, r), LaneOf(p) = f
      PROVE  p <= r
  BY <1>1, <1>2, LastOfCaller DEF Posted
<1>3. LaterIsShut(tk)'
  <2> SUFFICES ASSUME NEW s \in open, SameCaller(r, s[1]), LaneOf(s[1]) = f
               PROVE  s[1] <= r
    BY PostingOpensNothing, SetupStays, SameSetup DEF LaterIsShut, SameCaller
  <2> QED BY <1>2, OpenPosted DEF SameCaller
<1>4. ASSUME NEW x \in Pending(f), SameCaller(x.req, r) PROVE x.req <= r
  <2>1. x \in Task /\ TaskFits(x) /\ LaneOf(x.req) = f
    BY PendingTasks DEF TasksFit, LaneFits
  <2> QED BY <1>2, <1>4, <2>1 DEF TaskFits, Task
<1>5. ASSUME run[f] # Idle, SameCaller(Req(f), r) PROVE Req(f) <= r
  <2>1. f \in Worker /\ f \notin Request
    BY MediaAssumption DEF Worker, Lane
  <2>2. PICK job \in Task : job = run[f].task
    BY <1>5, <2>1, WorkerType
  <2>3. RunFits(f)
    BY <2>1 DEF TasksFit
  <2>4. Posted(job.req) /\ job.req \in Request /\ LaneOf(job.req) = f /\ Req(f) = job.req
    BY <1>5, <2>1, <2>2, <2>3 DEF RunFits, TaskFits, Task, Req
  <2> QED BY <1>2, <1>5, <2>4
<1> QED BY <1>3, <1>4, <1>5

LEMMA OrderFitsStep ==
  TypeOK /\ Turn /\ ReleaseFits /\ TasksFit /\ CallerFits /\ OpenFits /\ OrderFits
    /\ [Next]_vars => OrderFits'
<1> SUFFICES ASSUME TypeOK, Turn, ReleaseFits, TasksFit, CallerFits, OpenFits, OrderFits,
                    [Next]_vars, NEW f \in Lane
             PROVE  /\ InOrder(f)'
                    /\ \A tk \in Pending(f)' : LaterIsShut(tk)'
                    /\ run'[f] # Idle => LaterIsShut(run[f].task)'
  BY DEF OrderFits
<1>0. /\ f \in Worker /\ f \notin Request
      /\ queue[f] \in Seq(Task) /\ queue'[f] \in Seq(Task)
      /\ Pending(f) \subseteq Task /\ InOrder(f)
      /\ \A p, q : SameCaller(p, q)' = SameCaller(p, q)
  BY TypeStep, PendingTasks, SetupStays, MediaAssumption
     DEF TypeOK, OrderFits, SameCaller, Worker, Lane
<1>1. \A tk \in Pending(f) : tk \in Task /\ LaneOf(tk.req) = f /\ LaterIsShut(tk)'
  <2> SUFFICES ASSUME NEW tk \in Pending(f)
               PROVE  tk \in Task /\ LaneOf(tk.req) = f /\ LaterIsShut(tk)'
    OBVIOUS
  <2>1. tk \in Task /\ LaneOf(tk.req) = f /\ LaterIsShut(tk)
    BY <1>0 DEF TasksFit, LaneFits, OrderFits
  <2> QED BY <2>1, ShutStays
<1>2. CASE TakeTask(f)
  <2>1. /\ queue[f] # <<>> /\ run'[f] = Started(Head(queue[f]))
        /\ queue'[f] = Tail(queue[f]) /\ Head(queue[f]) \in Task
    BY <1>2, TakeTo
  <2>2. Pending(f) = Pending(f)' \cup {Head(queue[f])}
    BY <2>1, PendingTail
  <2>3. \A tk \in Pending(f)' : LaterIsShut(tk)'
    BY <1>1, <2>2
  <2>4. PICK job \in Task : job = Head(queue[f])
    BY <2>1
  <2>5. LaterIsShut(job)' /\ run'[f].task = job
    BY <1>1, <2>1, <2>2, <2>4, StartedType
  <2>6. InOrder(f)'
    <3> DEFINE q == queue[f]
               n == Len(queue[f])
    <3>1. /\ n \in Nat /\ n > 0 /\ Len(queue'[f]) = n - 1
          /\ \A i \in 1..(n - 1) : queue'[f][i] = q[i + 1]
          /\ job = q[1]
      BY <1>0, <2>1, <2>4
    <3>2. \A i, j \in 1..n :
            i < j /\ SameCaller(q[i].req, q[j].req) => q[i].req <= q[j].req
      BY <1>0 DEF InOrder
    <3>3. Pending(f)' = {queue'[f][i] : i \in 1..(n - 1)}
      BY <3>1 DEF Pending
    <3>4. Req(f)' = job.req
      BY <2>5 DEF Req
    <3> HIDE DEF q, n
    <3>5. ASSUME NEW i \in 1..(n - 1), NEW j \in 1..(n - 1), i < j,
                 SameCaller(queue'[f][i].req, queue'[f][j].req)
          PROVE  queue'[f][i].req <= queue'[f][j].req
      <4>1. i + 1 \in 1..n /\ j + 1 \in 1..n /\ i + 1 < j + 1
        BY <3>1, <3>5
      <4> QED BY <3>1, <3>2, <3>5, <4>1
    <3>6. ASSUME NEW i \in 1..(n - 1), SameCaller(job.req, queue'[f][i].req)
          PROVE  job.req <= queue'[f][i].req
      <4>1. 1 \in 1..n /\ i + 1 \in 1..n /\ 1 < i + 1
        BY <3>1
      <4> QED BY <3>1, <3>2, <3>6, <4>1
    <3> QED BY <1>0, <3>1, <3>3, <3>4, <3>5, <3>6 DEF InOrder
  <2> QED BY <2>3, <2>5, <2>6
<1>3. CASE ~TakeTask(f)
  <2>1. run'[f] # Idle => run[f] # Idle /\ Req(f)' = Req(f) /\ Req(f) \in Request
    BY <1>0, <1>3, LaneRuns, ReqStays, WorkerType DEF Req
  <2>2. run'[f] # Idle => LaterIsShut(run[f].task)'
    <3> SUFFICES ASSUME run'[f] # Idle PROVE LaterIsShut(run[f].task)'
      OBVIOUS
    <3>1. PICK job \in Task : job = run[f].task
      BY <1>0, <2>1, WorkerType
    <3>2. RunFits(f) /\ LaterIsShut(job)
      BY <1>0, <2>1, <3>1 DEF TasksFit, OrderFits
    <3>3. LaneOf(job.req) = f /\ job.req = Req(f)
      BY <1>0, <2>1, <3>1, <3>2 DEF RunFits, Req
    <3>4. LaterIsShut(job)'
      BY <2>1, <3>2, <3>3, ShutStays
    <3>5. run'[f].task.req = job.req
      BY <2>1, <3>3 DEF Req
    <3> QED BY <3>4, <3>5 DEF LaterIsShut
  <2>3. CASE queue'[f] = queue[f]
    <3>1. Pending(f)' = Pending(f)
      BY <2>3 DEF Pending
    <3>2. InOrder(f)'
      BY <1>0, <2>1, <2>3, <3>1 DEF InOrder
    <3> QED BY <1>1, <2>2, <3>1, <3>2
  <2>4. CASE queue'[f] # queue[f]
    <3>1. PICK r \in Request, tk \in Task :
            /\ Posting(r) /\ tk.req = r /\ LaneOf(r) = f
            /\ run' = run /\ queue'[f] = Append(queue[f], tk)
      BY <1>3, <2>4, QueueMoves
    <3>2. Pending(f)' = Pending(f) \cup {tk}
      BY <3>1, PendingAppend
    <3>3. /\ LaterIsShut(tk)'
          /\ \A x \in Pending(f) : SameCaller(x.req, r) => x.req <= r
          /\ run[f] # Idle => (SameCaller(Req(f), r) => Req(f) <= r)
      BY <3>1, NewTaskIsLast
    <3>4. InOrder(f)'
      <4> DEFINE q == queue[f]
                 n == Len(queue[f])
      <4>1. /\ n \in Nat /\ Len(queue'[f]) = n + 1
            /\ \A i \in 1..n : queue'[f][i] = q[i]
            /\ queue'[f][n + 1] = tk
        BY <1>0, <3>1
      <4>2. \A i, j \in 1..n :
              i < j /\ SameCaller(q[i].req, q[j].req) => q[i].req <= q[j].req
        BY <1>0 DEF InOrder
      <4>3. \A i \in 1..n : q[i] \in Pending(f)
        BY DEF Pending
      <4>4. run[f] # Idle => \A x \in Pending(f) : SameCaller(Req(f), x.req) => Req(f) <= x.req
        BY <1>0 DEF InOrder
      <4> HIDE DEF q, n
      <4>5. ASSUME NEW i \in 1..(n + 1), NEW j \in 1..(n + 1), i < j,
                   SameCaller(queue'[f][i].req, queue'[f][j].req)
            PROVE  queue'[f][i].req <= queue'[f][j].req
        <5>1. i \in 1..n
          BY <4>1, <4>5
        <5>2. CASE j = n + 1
          BY <3>1, <3>3, <4>1, <4>3, <4>5, <5>1, <5>2
        <5>3. CASE j # n + 1
          <6>1. j \in 1..n
            BY <4>1, <5>3
          <6> QED BY <4>1, <4>2, <4>5, <5>1, <6>1
        <5> QED BY <5>2, <5>3
      <4>6. run'[f] # Idle =>
              \A x \in Pending(f)' : SameCaller(Req(f)', x.req) => Req(f)' <= x.req
        BY <2>1, <3>1, <3>2, <3>3, <4>4
      <4> QED BY <1>0, <4>1, <4>5, <4>6 DEF InOrder
    <3> QED BY <1>1, <2>2, <3>2, <3>3, <3>4
  <2> QED BY <2>3, <2>4
<1> QED BY <1>2, <1>3

-----------------------------------------------------------------------------
(***************************************************************************)
(* One endpoint of a kind for each caller.                                 *)
(***************************************************************************)

\* A request whose open is at the device, and where it is.
LEMMA Opening ==
  ASSUME TypeOK, TasksFit, NEW w \in Worker, run[w] # Idle, run[w].at = "opening"
  PROVE  \E r \in Request :
           /\ r = Req(w) /\ Posted(r) /\ run[w].task.slots = Slots(r)
           /\ w = LaneOf(r) \/ (w = r /\ LaneOf(r) \in stopped)
<1>1. RunFits(w) /\ run[w].task \in Task
  BY WorkerType DEF TasksFit
<1> QED BY <1>1 DEF RunFits, TaskFits, Req, Task

\* What the caller had open before is shut.
LEMMA EarlierIsShut ==
  ASSUME Inv, NEW w \in Worker, run[w] # Idle, run[w].at = "opening",
         NEW t \in open, SameCaller(t[1], Req(w)), LaneOf(t[1]) = LaneOf(Req(w)),
         t[1] < Req(w)
  PROVE  FALSE
<1>0. t[1] \in Request /\ t \in Slots(t[1]) /\ Posted(t[1]) /\ t \in Slot
  BY OpenPosted DEF Inv, TypeOK
<1>1. PICK r \in Request :
        /\ r = Req(w) /\ Posted(r) /\ run[w].task.slots = Slots(r)
        /\ w = LaneOf(r) \/ (w = r /\ LaneOf(r) \in stopped)
  BY Opening DEF Inv
<1>2. Over(t[1])
  <2>1. t[1] \in Earlier(r) /\ phase[r] # "idle"
    BY <1>0, <1>1 DEF Earlier, SameCaller, Posted
  <2> QED BY <2>1 DEF Inv, Turn
<1>3. rel[t] = "done" /\ run[t[1]] = Idle
  BY <1>0, <1>2 DEF Over, Posted
<1>4. CASE t \in endpoint \cup hand
  BY <1>3, <1>4 DEF Inv, OpenFits, Released
<1>5. PICK f \in Lane : f = LaneOf(r)
  BY SetupType DEF Inv
<1>6. f \in stopped => run[f] = Idle /\ Pending(f) = {}
  BY PendingTasks DEF Inv, TasksFit, LaneFits
<1>7. ASSUME NEW v \in Worker, AtWork(v, t) PROVE FALSE
  <2>1. run[v] # Idle /\ RunFits(v)
    BY <1>7 DEF AtWork, Inv, TasksFit
  <2>2. PICK job \in Task : job = run[v].task
    BY <2>1, WorkerType DEF Inv
  <2>3. /\ t \in Slots(job.req) /\ job.req \in Request
        /\ v = LaneOf(job.req) \/ v = job.req
    BY <1>7, <2>1, <2>2 DEF AtWork, RunFits, TaskFits, Closing, Task
  <2>4. job.req = t[1] /\ v = f
    <3>1. job.req = t[1]
      BY <2>3, SetupType DEF Inv
    <3> QED BY <1>1, <1>3, <1>5, <2>1, <2>3, <3>1
  <2>5. w = f
    BY <1>1, <1>5, <1>6, <2>1, <2>4
  <2> QED BY <1>0, <1>1, <2>2, <2>4, <2>5, MediaAssumption DEF Req
<1>8. ASSUME NEW g \in Lane, NEW tk \in Pending(g), Closing(tk, t) PROVE FALSE
  <2>1. tk \in Task /\ TaskFits(tk) /\ LaneOf(tk.req) = g
    BY <1>8, PendingTasks DEF Inv, TasksFit, LaneFits
  <2>2. t \in Slots(tk.req) /\ tk.req \in Request
    BY <1>8, <2>1 DEF Closing, TaskFits, Task
  <2>3. tk.req = t[1] /\ g = f
    BY <1>1, <1>5, <2>1, <2>2, SetupType DEF Inv
  <2>4. w = f
    BY <1>1, <1>5, <1>6, <1>8, <2>3
  <2>5. SameCaller(Req(f), tk.req) => Req(f) <= tk.req
    BY <1>8, <2>3, <2>4 DEF Inv, OrderFits, InOrder
  <2> QED BY <1>0, <1>1, <2>3, <2>4, <2>5, MediaAssumption DEF SameCaller
<1> QED BY <1>4, <1>7, <1>8 DEF Inv, OpenFits

LEMMA OneOfCallerStep == Inv /\ [Next]_vars => OneOfCaller'
<1> SUFFICES ASSUME Inv, [Next]_vars, NEW s \in open', NEW t \in open',
                    s[2] = t[2], SameCaller(s[1], t[1])
             PROVE  s = t
  BY SetupStays DEF OneOfCaller, SameCaller
<1>0. open' \subseteq Slot
  BY TypeStep DEF Inv, TypeOK
\* The new endpoint u beside v, which was open or is new too.
<1>1. ASSUME NEW u \in open', NEW v \in open', u \notin open,
             u[2] = v[2], SameCaller(v[1], u[1])
      PROVE  u = v
  <2>1. PICK w \in Worker : DeviceOpens(w)
    BY <1>0, <1>1, EndpointMoves DEF Inv
  <2>2. /\ run[w] # Idle /\ run[w].at = "opening"
        /\ \E got \in {{}, run[w].task.slots} : open' = open \cup got
    <3>1. \E got \in {{}, run[w].task.slots} : open' = open \cup got
      BY <2>1, DeviceOpensTo DEF Inv
    <3> QED BY <2>1, <3>1 DEF DeviceOpens, At
  <2>3. PICK r \in Request :
          /\ r = Req(w) /\ Posted(r) /\ run[w].task.slots = Slots(r)
          /\ w = LaneOf(r) \/ (w = r /\ LaneOf(r) \in stopped)
    BY <2>2, Opening DEF Inv
  <2>4. u \in Slots(r) /\ u[1] = r /\ (v \notin open => v \in Slots(r))
    BY <1>1, <2>2, <2>3, SetupType DEF Inv
  <2>5. CASE v \in Slots(r)
    BY <1>1, <2>4, <2>5, SameKindSameLane DEF Inv
  <2>6. CASE v \in open
    <3>1. v[1] \in Request /\ v \in Slots(v[1]) /\ Posted(v[1])
      BY <2>6, OpenPosted DEF Inv
    <3>2. LaneOf(v[1]) = LaneOf(r) /\ (v[1] = r => v = u)
      BY <1>1, <2>4, <3>1, SameKindSameLane DEF Inv
    <3>3. ~(v[1] < r)
      BY <1>1, <2>2, <2>3, <2>4, <2>6, <3>2, EarlierIsShut
    <3>4. ~(r < v[1])
      <4> SUFFICES ASSUME r < v[1] PROVE FALSE
        OBVIOUS
      <4>1. CASE w = LaneOf(r)
        <5>1. PICK f \in Lane : f = w
          BY <4>1, SetupType DEF Inv
        <5>2. LaterIsShut(run[f].task)
          BY <2>2, <5>1 DEF Inv, OrderFits
        <5> QED BY <1>1, <2>3, <2>4, <2>6, <3>1, <3>2, <5>1, <5>2, MediaAssumption
                DEF LaterIsShut, SameCaller, Req
      <4>2. CASE w = r
        <5>1. r \in Earlier(v[1]) /\ phase[v[1]] # "idle"
          BY <1>1, <2>4, <3>1, <3>2 DEF Earlier, SameCaller, Posted
        <5>2. Over(r)
          BY <3>1, <5>1 DEF Inv, Turn
        <5> QED BY <2>2, <2>3, <4>2, <5>2 DEF Over, Posted
      <4> QED BY <2>3, <4>1, <4>2
    <3>5. v[1] \in Nat /\ r \in Nat
      BY <3>1, MediaAssumption
    <3> DEFINE p == v[1]
    <3>6. p = r
      <4> HIDE DEF p
      <4>1. p \in Nat /\ r \in Nat /\ ~(p < r) /\ ~(r < p)
        BY <3>3, <3>4, <3>5 DEF p
      <4> QED BY <4>1
    <3> QED BY <3>2, <3>6
  <2> QED BY <2>4, <2>5, <2>6
<1>2. CASE s \in open /\ t \in open
  BY <1>2 DEF Inv, OneOfCaller
<1>3. CASE s \notin open
  BY <1>1, <1>3 DEF SameCaller
<1>4. CASE t \notin open
  BY <1>1, <1>4 DEF SameCaller
<1> QED BY <1>2, <1>3, <1>4

-----------------------------------------------------------------------------
(***************************************************************************)
(* The theorems.                                                           *)
(***************************************************************************)

LEMMA InvInit == Init => Inv
<1> SUFFICES ASSUME Init PROVE Inv
  OBVIOUS
<1>1. TypeOK
  BY InitType
<1>2. \A f \in Lane : Pending(f) = {} /\ Len(queue[f]) = 0 /\ run[f] = Idle
  BY DEF Init, Pending, Worker
<1>3. Turn /\ HoldersFit /\ ReleaseFits
  BY SlotType DEF Init, Turn, HoldersFit, ReleaseFits, Released, Posted
<1>4. TasksFit /\ CallerFits
  BY <1>2, SetupType, <1>1 DEF Init, TasksFit, RunFits, LaneFits, CallerFits, Worker
<1>5. OrderFits
  BY <1>2 DEF OrderFits, InOrder
<1>6. OpenFits /\ OneOfCaller
  BY DEF Init, OpenFits, OneOfCaller
<1> QED BY <1>1, <1>3, <1>4, <1>5, <1>6 DEF Inv

LEMMA InvStep == Inv /\ [Next]_vars => Inv'
  BY TypeStep, TurnStep, HoldersFitStep, ReleaseFitsStep, TasksFitStep, CallerFitsStep,
     OrderFitsStep, OpenFitsStep, OneOfCallerStep DEF Inv

\* Every reachable state: who holds what, what each lane is at, and where each
\* open endpoint is.
THEOREM Invariance == Spec => []Inv
  BY InvInit, InvStep, PTL DEF Spec

\* The slots, tasks and lanes stay what the arbiter's records are made of.
THEOREM TypeCorrect == Spec => []TypeOK
<1>1. Inv => TypeOK
  BY DEF Inv
<1> QED BY <1>1, Invariance, PTL

\* For any callers, requests and policy: two endpoints of an exclusive kind that
\* are open at once are not both in use, and a caller that asks again finds its
\* old one closed (MediaDeviceArbiter.cpp:388-389).
THEOREM OpenedInTurn == Spec => []OpensInTurn
<1>1. Inv => OpensInTurn
  <2> SUFFICES ASSUME Inv, NEW s \in open, NEW t \in open,
                      s # t, s[2] = t[2], Exclusive(s[2])
               PROVE  /\ Released(s) \/ Released(t)
                      /\ setup.caller[s[1]] # setup.caller[t[1]]
    BY DEF OpensInTurn
  <2>1. \A u \in {s, t} : u \in Slots(u[1]) /\ Posted(u[1]) /\ u[1] \in Request
    BY OpenPosted DEF Inv
  <2>2. \A u \in {s, t} : ~Released(u) => u \in holders
    BY <2>1 DEF Inv, HoldersFit, Released
  <2>3. Released(s) \/ Released(t)
    BY <2>2 DEF Inv, HoldersFit
  <2>4. setup.caller[s[1]] # setup.caller[t[1]]
    BY DEF Inv, OneOfCaller, SameCaller
  <2> QED BY <2>3, <2>4
<1> QED BY <1>1, Invariance, PTL
=============================================================================
