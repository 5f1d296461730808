------------------------------ MODULE MediaDevices ------------------------------
(***************************************************************************)
(* The microphone, the speaker and the camera of one device, shared by     *)
(* calls, the ringtone, voice messages and the scanner: who may hold       *)
(* them, and how the operating system's endpoints are opened and closed.   *)
(*                                                                         *)
(* Translated from MediaDeviceArbiter.cpp.                                 *)
(*                                                                         *)
(* A lane is a device thread with its queue: one for audio, one for the    *)
(* camera.  A caller asks, takes its place among the holders, posts the    *)
(* open and waits for it, at most its budget; it lets a lease go without   *)
(* waiting.  A caller's code between two locks, and a device operation,    *)
(* is one action each.                                                     *)
(*                                                                         *)
(* Simplifications.                                                        *)
(*  - A request is one acquire of one caller; what it asks for, and which  *)
(*    kinds are exclusive, is fixed for a behaviour.                       *)
(*  - A caller makes its requests one after the other: it lets one go      *)
(*    before it makes the next one of that device family.  A thread that   *)
(*    holds a microphone and a speaker apart is two callers.               *)
(*  - Time is left out: a waiter's budget may run out at any moment of its *)
(*    wait, and an operation may pass its own at any moment it runs.       *)
(*  - Bound: a lease is reopened at most once.                             *)
(*  - The arbiter outlives its leases, as Default() does; an endpoint's    *)
(*    own reads and writes are left out, and so is a task posted from the  *)
(*    device thread itself.                                                *)
(***************************************************************************)
EXTENDS Naturals, Sequences

CONSTANTS
  Audio, Camera,  \* the lanes
  Request,        \* the acquires; a caller's come in this order
  Caller,         \* who asks: a session's capture thread, the ringtone...
  Setups          \* what is asked for, by whom, under which policy

Kind == {"mic", "speaker", "camera"}

\* A duplex is a microphone and a speaker in one voice-processing unit.
Want == Kind \cup {"duplex"}

Lane == {Audio, Camera}

\* What runs a task: a lane, or after it stopped the caller itself.
Worker == Lane \cup Request

\* The lease of a request on a kind, and the endpoint opened for it.
Slot == Request \X Kind

ASSUME MediaAssumption ==
  /\ Request \subseteq Nat
  /\ Audio # Camera /\ Lane \cap Request = {}
  /\ Setups \subseteq
       [want : [Request -> Want], caller : [Request -> Caller], exclusive : SUBSET Kind]

VARIABLES
  setup,     \* the MediaDeviceSharePolicy and the requests
  phase,     \* how far each request's caller is
  holders,   \* holders: the slots that hold their kind
  rel,       \* how far the release of each slot is; "kept" while not released
  endpoint,  \* the slots whose lease has its endpoint
  hand,      \* the slots whose endpoint a release has taken and not posted
  open,      \* the slots with an endpoint open at the operating system
  queue,     \* the tasks of each lane
  run,       \* the task each worker is at
  stopping,  \* the lanes told to stop
  stopped    \* the lanes whose thread is gone

vars == <<setup, phase, holders, rel, endpoint, hand, open, queue, run, stopping, stopped>>

Wanted(r) == setup.want[r]

KindsOf(r) == IF Wanted(r) = "duplex" THEN {"mic", "speaker"} ELSE {Wanted(r)}

Slots(r) == {r} \X KindsOf(r)

LaneOf(r) == IF Wanted(r) = "camera" THEN Camera ELSE Audio

\* The slot held first, whose release a task looks at: a duplex's microphone.
First(r) == <<r, IF Wanted(r) = "duplex" THEN "mic" ELSE Wanted(r)>>

Released(s) == rel[s] # "kept"

Exclusive(k) == k \in setup.exclusive

Phase == {"idle", "asked", "half", "held", "waiting", "granted", "reopening", "reopened",
          "leaving", "refused"}

\* The caller has its lease, or has to let go what it took.
Settled(r) == phase[r] \in {"granted", "reopened", "leaving"}

Task == [op : {"open", "reopen", "close"}, req : Request, slots : SUBSET Slot]

Idle == [at |-> "idle"]

Started(task) == [at |-> "start", task |-> task, fresh |-> {}, over |-> FALSE]

\* fresh: the endpoints the task holds itself; over: past its budget.
Running == [at : {"start", "letting", "opening", "opened"}, task : Task,
            fresh : SUBSET Slot, over : BOOLEAN]

TypeOK ==
  /\ setup \in Setups
  /\ phase \in [Request -> Phase]
  /\ holders \subseteq Slot
  /\ rel \in [Slot -> {"kept", "taken", "unheld", "done"}]
  /\ endpoint \subseteq Slot
  /\ hand \subseteq Slot
  /\ open \subseteq Slot
  /\ queue \in [Lane -> Seq(Task)]
  /\ run \in [Worker -> Running \cup {Idle}]
  /\ stopping \subseteq Lane
  /\ stopped \subseteq Lane

Init ==
  /\ setup \in Setups
  /\ phase = [r \in Request |-> "idle"]
  /\ holders = {}
  /\ rel = [s \in Slot |-> "kept"]
  /\ endpoint = {} /\ hand = {} /\ open = {}
  /\ queue = [f \in Lane |-> <<>>]
  /\ run = [w \in Worker |-> Idle]
  /\ stopping = {} /\ stopped = {}

-----------------------------------------------------------------------------
(***************************************************************************)
(* Asking for a device.                                                    *)
(***************************************************************************)

\* The caller of a request is through with it.
Over(r) ==
  \/ phase[r] = "refused"
  \/ /\ phase[r] \in {"granted", "reopened", "leaving"}
     /\ \A s \in Slots(r) : rel[s] = "done"
     /\ run[r] = Idle

\* A caller's requests of this family made before this one.
Earlier(r) ==
  {p \in Request : p < r /\ setup.caller[p] = setup.caller[r] /\ LaneOf(p) = LaneOf(r)}

\* The lane's operation is past its budget.
Stuck(f) == run[f] # Idle /\ run[f].over

\* Another slot holds this exclusive kind.
Taken(s) == Exclusive(s[2]) /\ \E t \in holders : t[2] = s[2]

\* Refused at once while the lane is stuck.
Ask(r) ==
  /\ phase[r] = "idle"
  /\ \A p \in Earlier(r) : Over(p)
  /\ phase' = [phase EXCEPT ![r] = IF Stuck(LaneOf(r)) THEN "refused" ELSE "asked"]
  /\ UNCHANGED <<setup, holders, rel, endpoint, hand, open, queue, run, stopping, stopped>>

\* Take the place of the kind, or of the microphone of a duplex.
Hold(r) ==
  /\ phase[r] = "asked"
  /\ \/ /\ Taken(First(r))
        /\ phase' = [phase EXCEPT ![r] = "refused"]
        /\ UNCHANGED holders
     \/ /\ ~Taken(First(r))
        /\ holders' = holders \cup {First(r)}
        /\ phase' = [phase EXCEPT ![r] = IF Wanted(r) = "duplex" THEN "half" ELSE "held"]
  /\ UNCHANGED <<setup, rel, endpoint, hand, open, queue, run, stopping, stopped>>

\* The speaker of a duplex; refused, the microphone is given back.
HoldSpeaker(r) ==
  /\ phase[r] = "half"
  /\ \/ /\ Taken(<<r, "speaker">>)
        /\ holders' = holders \ {<<r, "mic">>}
        /\ phase' = [phase EXCEPT ![r] = "refused"]
     \/ /\ ~Taken(<<r, "speaker">>)
        /\ holders' = holders \cup {<<r, "speaker">>}
        /\ phase' = [phase EXCEPT ![r] = "held"]
  /\ UNCHANGED <<setup, rel, endpoint, hand, open, queue, run, stopping, stopped>>

\* Mutant: a task jumps the queue.
PostInFront(r, task) ==
  /\ LaneOf(r) \notin stopped
  /\ queue' = [queue EXCEPT ![LaneOf(r)] = <<task>> \o @]
  /\ UNCHANGED run

\* On the lane; by the caller itself once the lane's thread is gone.
Post(r, task) ==
  \/ /\ LaneOf(r) \notin stopped
     /\ queue' = [queue EXCEPT ![LaneOf(r)] = Append(@, task)]
     /\ UNCHANGED run
  \/ /\ LaneOf(r) \in stopped
     /\ run' = [run EXCEPT ![r] = Started(task)]
     /\ UNCHANGED queue

PostOpen(r) ==
  /\ phase[r] = "held"
  /\ Post(r, [op |-> "open", req |-> r, slots |-> Slots(r)])
  /\ phase' = [phase EXCEPT ![r] = "waiting"]
  /\ UNCHANGED <<setup, holders, rel, endpoint, hand, open, stopping, stopped>>

\* An audio lease that is no duplex may be closed and opened again in place.
Reopen(r) ==
  /\ phase[r] = "granted" /\ Wanted(r) \in {"mic", "speaker"}
  /\ ~Released(First(r)) /\ ~Stuck(Audio)
  /\ Post(r, [op |-> "reopen", req |-> r, slots |-> Slots(r)])
  /\ phase' = [phase EXCEPT ![r] = "reopening"]
  /\ UNCHANGED <<setup, holders, rel, endpoint, hand, open, stopping, stopped>>

\* The waiter's budget runs out: an acquire lets go what it took, a reopen
\* leaves the lease as it is.  The task still runs.
GiveUp(r) ==
  /\ phase[r] \in {"waiting", "reopening"}
  /\ run[r] = Idle
  /\ phase' = [phase EXCEPT ![r] = IF @ = "waiting" THEN "leaving" ELSE "reopened"]
  /\ UNCHANGED <<setup, holders, rel, endpoint, hand, open, queue, run, stopping, stopped>>

-----------------------------------------------------------------------------
(***************************************************************************)
(* Letting a device go: the caller marks it released and takes its         *)
(* endpoint, gives up its place, then posts the close.                     *)
(***************************************************************************)

Release(s) ==
  /\ s \in Slots(s[1]) /\ Settled(s[1]) /\ run[s[1]] = Idle
  /\ rel[s] = "kept"
  /\ \A t \in Slots(s[1]) : rel[t] \in {"kept", "done"}
  /\ rel' = [rel EXCEPT ![s] = "taken"]
  /\ hand' = hand \cup (endpoint \cap {s})
  /\ endpoint' = endpoint \ {s}
  /\ UNCHANGED <<setup, phase, holders, open, queue, run, stopping, stopped>>

Unhold(s) ==
  /\ rel[s] = "taken"
  /\ rel' = [rel EXCEPT ![s] = "unheld"]
  /\ holders' = holders \ {s}
  /\ UNCHANGED <<setup, phase, endpoint, hand, open, queue, run, stopping, stopped>>

PostClose(s) ==
  /\ rel[s] = "unheld"
  /\ rel' = [rel EXCEPT ![s] = "done"]
  /\ hand' = hand \ {s}
  /\ \/ /\ s \in hand
        /\ Post(s[1], [op |-> "close", req |-> s[1], slots |-> {s}])
     \/ /\ s \notin hand
        /\ UNCHANGED <<queue, run>>
  /\ UNCHANGED <<setup, phase, holders, endpoint, open, stopping, stopped>>

-----------------------------------------------------------------------------
(***************************************************************************)
(* A worker at a task.                                                     *)
(***************************************************************************)

At(w, at) == run[w] # Idle /\ run[w].at = at

Op(w) == run[w].task.op

Req(w) == run[w].task.req

TakeTask(f) ==
  /\ f \notin stopped
  /\ run[f] = Idle /\ queue[f] # <<>>
  /\ run' = [run EXCEPT ![f] = Started(Head(queue[f]))]
  /\ queue' = [queue EXCEPT ![f] = Tail(@)]
  /\ UNCHANGED <<setup, phase, holders, rel, endpoint, hand, open, stopping, stopped>>

\* Mutant: the state of the slot is taken for that of the request.
AnswerSlot(r) == IF phase[r] = "waiting" THEN rel[First(r)] ELSE phase[r]

\* What a request that waits makes of the end of its task: an audio lease is
\* granted without a device too, a duplex or a camera is not.
Answer(r) ==
  IF phase[r] = "reopening" THEN "reopened"
  ELSE IF phase[r] # "waiting" THEN phase[r]
  ELSE IF Wanted(r) \in {"mic", "speaker"} \/ Slots(r) \subseteq endpoint THEN "granted"
  ELSE "leaving"

Finish(w) ==
  /\ run' = [run EXCEPT ![w] = Idle]
  /\ phase' = [phase EXCEPT ![Req(w)] = Answer(Req(w))]
  /\ UNCHANGED <<setup, holders, rel, hand, queue, stopping, stopped>>

\* The lease was released before its task came: nothing is opened.
Skip(w) ==
  /\ At(w, "start") /\ Op(w) \in {"open", "reopen"}
  /\ Released(First(Req(w)))
  /\ Finish(w)
  /\ UNCHANGED <<endpoint, open>>

StartOpen(w) ==
  /\ At(w, "start") /\ Op(w) = "open"
  /\ ~Released(First(Req(w)))
  /\ run' = [run EXCEPT ![w].at = "opening"]
  /\ UNCHANGED <<setup, phase, holders, rel, endpoint, hand, open, queue, stopping, stopped>>

\* A reopen takes the endpoint out of the lease,
StartReopen(w) ==
  /\ At(w, "start") /\ Op(w) = "reopen"
  /\ ~Released(First(Req(w)))
  /\ run' = [run EXCEPT ![w].at = "letting", ![w].fresh = endpoint \cap run[w].task.slots]
  /\ endpoint' = endpoint \ run[w].task.slots
  /\ UNCHANGED <<setup, phase, holders, rel, hand, open, queue, stopping, stopped>>

\* closes it, and goes on as an open.
CloseOld(w) ==
  /\ At(w, "letting")
  /\ run' = [run EXCEPT ![w].at = "start", ![w].fresh = {}, ![w].task.op = "open"]
  /\ open' = open \ run[w].fresh
  /\ UNCHANGED <<setup, phase, holders, rel, endpoint, hand, queue, stopping, stopped>>

\* The operating system opens what was asked for, or nothing.
DeviceOpens(w) ==
  /\ At(w, "opening")
  /\ \E got \in {{}, run[w].task.slots} :
       /\ run' = [run EXCEPT ![w].at = "opened", ![w].fresh = got]
       /\ open' = open \cup got
  /\ UNCHANGED <<setup, phase, holders, rel, endpoint, hand, queue, stopping, stopped>>

\* The endpoint goes to its lease; of a lease released meanwhile it closes.
Install(w, s) ==
  /\ At(w, "opened") /\ s \in run[w].fresh
  /\ s[2] = "speaker" => <<s[1], "mic">> \notin run[w].fresh
  /\ run' = [run EXCEPT ![w].fresh = @ \ {s}]
  /\ \/ /\ Released(s)
        /\ open' = open \ {s}
        /\ UNCHANGED endpoint
     \/ /\ ~Released(s)
        /\ endpoint' = endpoint \cup {s}
        /\ UNCHANGED open
  /\ UNCHANGED <<setup, phase, holders, rel, hand, queue, stopping, stopped>>

EndOpen(w) ==
  /\ At(w, "opened") /\ run[w].fresh = {}
  /\ Finish(w)
  /\ UNCHANGED <<endpoint, open>>

Close(w) ==
  /\ At(w, "start") /\ Op(w) = "close"
  /\ open' = open \ run[w].task.slots
  /\ Finish(w)
  /\ UNCHANGED endpoint

\* The operation passes its budget: until it ends the lane is stuck.
Overrun(f) ==
  /\ run[f] # Idle /\ ~run[f].over
  /\ run' = [run EXCEPT ![f].over = TRUE]
  /\ UNCHANGED <<setup, phase, holders, rel, endpoint, hand, open, queue, stopping, stopped>>

-----------------------------------------------------------------------------
(***************************************************************************)
(* Shutdown: audio, then the camera; a lane ends after its queued work.    *)
(***************************************************************************)

Stop(f) ==
  /\ f \notin stopping
  /\ f = Camera => Audio \in stopping
  /\ stopping' = stopping \cup {f}
  /\ UNCHANGED <<setup, phase, holders, rel, endpoint, hand, open, queue, run, stopped>>

\* Mutant: the lane's thread ends without its queued tasks.
ExitAtOnce(f) ==
  /\ f \in stopping \ stopped
  /\ run[f] = Idle
  /\ stopped' = stopped \cup {f}
  /\ UNCHANGED <<setup, phase, holders, rel, endpoint, hand, open, queue, run, stopping>>

Exit(f) ==
  /\ f \in stopping \ stopped
  /\ run[f] = Idle /\ queue[f] = <<>>
  /\ stopped' = stopped \cup {f}
  /\ UNCHANGED <<setup, phase, holders, rel, endpoint, hand, open, queue, run, stopping>>

-----------------------------------------------------------------------------

\* A step of a worker that has a task.
Work(w) ==
  \/ Skip(w) \/ StartOpen(w) \/ StartReopen(w) \/ CloseOld(w) \/ DeviceOpens(w)
  \/ \E s \in Slot : Install(w, s)
  \/ EndOpen(w) \/ Close(w)

Next ==
  \/ \E r \in Request :
       Ask(r) \/ Hold(r) \/ HoldSpeaker(r) \/ PostOpen(r) \/ Reopen(r) \/ GiveUp(r)
  \/ \E s \in Slot : Release(s) \/ Unhold(s) \/ PostClose(s)
  \/ \E w \in Worker : Work(w)
  \/ \E f \in Lane : TakeTask(f) \/ Overrun(f) \/ Stop(f) \/ Exit(f)

Spec == Init /\ [][Next]_vars

\* A device operation returns, a lane goes on to its next task, and a caller
\* that began to let go, or was not granted what it took, goes on with it.
\* Nobody has to ask, to let go a lease it was granted, or to give up waiting.
Fairness ==
  /\ \A w \in Worker : WF_vars(Work(w))
  /\ \A f \in Lane : WF_vars(TakeTask(f))
  /\ \A s \in Slot :
       /\ WF_vars(phase[s[1]] = "leaving" /\ Release(s))
       /\ WF_vars(Unhold(s))
       /\ WF_vars(PostClose(s))

FairSpec == Spec /\ Fairness

-----------------------------------------------------------------------------
(***************************************************************************)
(* Properties.                                                             *)
(***************************************************************************)

\* Two endpoints of an exclusive kind that are open at once are never in use
\* both, and never of one caller: a caller that lets its microphone go and asks
\* for it again finds the old one closed (MediaDeviceArbiter.cpp:388-389).
OpensInTurn ==
  \A s \in open, t \in open :
    s # t /\ s[2] = t[2] /\ Exclusive(s[2]) =>
      /\ Released(s) \/ Released(t)
      /\ setup.caller[s[1]] # setup.caller[t[1]]

\* What is let go, given up or refused is in the end closed and free to others
\* for good, whatever the device thread was doing at the time
\* (MediaDeviceArbiter.cpp:368-412).
LetGoIsFree ==
  \A s \in Slot :
    Released(s) \/ phase[s[1]] \in {"leaving", "refused"} ~> [](s \notin open \cup holders)
=============================================================================
