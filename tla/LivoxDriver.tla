----------------------------- MODULE LivoxDriver -----------------------------
(***************************************************************************)
(* The Livox driver: how the points of the lidars reach the thread that    *)
(* publishes them.  Four threads take part.  The thread of the SDK answers *)
(* the configuration commands; the thread of the PubHandler collects       *)
(* points into frames and pushes them on a ring per lidar; the polling     *)
(* thread waits on a semaphore and empties the rings; the main thread      *)
(* destroys the node.  The ring has one producer and one consumer and no   *)
(* lock, so its accesses are steps of their own.                           *)
(*                                                                         *)
(* The indices are volatile and not atomic, and the slots are plain        *)
(* memory.  A machine that keeps the order of loads and of stores (x86)    *)
(* shows a slot no later than the index that was moved over it; another    *)
(* one (the robot's, an aarch64) need not.                                 *)
(***************************************************************************)
EXTENDS Integers, FiniteSets, Sequences

CONSTANTS
    NumLidars,    \* lidars that may be plugged in
    Configured,   \* those the user configuration lists
    Items,        \* what the configuration sets on a lidar (kConfigDataType...)
    QueueSize,    \* LidarDataQueue::size, a power of two
    IndexMod,     \* the counters rd_idx and wr_idx are of a width: 2^32
    Frame,        \* contents of frames
    Sends,        \* [Lidars -> the contents the frames of a lidar may have]
    MaxInfo       \* [Lidars -> bound on the times a lidar announces itself]

ASSUME DriverAssumption ==
    /\ NumLidars \in Nat \ {0}
    /\ Configured \subseteq 1..NumLidars
    /\ QueueSize \in Nat \ {0}
    /\ IndexMod \in Nat \ {0}
    /\ IndexMod % QueueSize = 0
    /\ IndexMod > QueueSize
    /\ Sends \in [1..NumLidars -> (SUBSET Frame) \ {{}}]
    /\ MaxInfo \in [1..NumLidars -> Nat]

Lidars == 1..NumLidars

VARIABLES
    connect_state, set_bits, announced,  \* LidarDevice, and how often it came up
    answers,            \* configuration commands whose callback is still to come
    indexed,            \* whether cache_index_ knows the lidar
    storage_packet,     \* whether the ring is allocated
    rd_idx, wr_idx, slots,
    count,              \* pcd_semaphore_.count_
    producer,           \* [pc, frame: lidars of frame_ still to push]
    poll,               \* [pc, lidar, pkg] of the polling thread
    popped,             \* the package popped last of each lidar: what is published
    main,               \* where ~DriverNode is
    in_order            \* whether the machine keeps the order of the program

ring == <<storage_packet, rd_idx, wr_idx, slots>>
device == <<connect_state, set_bits, announced, answers>>
vars == <<device, indexed, ring, count, producer, poll, popped, main,
          in_order>>

-----------------------------------------------------------------------------
\* ldq.cpp: the ring.
QueueUsedSize(l) == (wr_idx[l] - rd_idx[l]) % IndexMod

QueueIsEmpty(l) == rd_idx[l] = wr_idx[l]

QueueIsFull_OffByOne(l) == QueueUsedSize(l) > QueueSize

QueueIsFull(l) == QueueUsedSize(l) > QueueSize - 1

At(idx) == idx % QueueSize

Succ(idx) == (idx + 1) % IndexMod

\* The frames between the two indices: what the ring holds.
Held(l) == [i \in 1..QueueUsedSize(l) |-> slots[l][At(rd_idx[l] + i - 1)]]

Init ==
    /\ connect_state = [l \in Lidars |-> "Off"]
    /\ set_bits = [l \in Lidars |-> {}]
    /\ announced = [l \in Lidars |-> 0]
    /\ answers = [l \in Lidars |-> [b \in Items |-> 0]]
    /\ indexed = [l \in Lidars |-> l \in Configured]
    /\ storage_packet = [l \in Lidars |-> FALSE]
    /\ rd_idx = [l \in Lidars |-> 0]
    /\ wr_idx = [l \in Lidars |-> 0]
    /\ count = 0
    /\ producer = [pc |-> "collect", frame |-> {}]
    /\ LET f == CHOOSE f \in Frame : TRUE   \* never published
       IN  /\ slots = [l \in Lidars |-> [i \in 0..QueueSize-1 |-> f]]
           /\ poll = [pc |-> "start", lidar |-> 1, pkg |-> f]
           /\ popped = [l \in Lidars |-> f]
    /\ main = "running"
    /\ in_order \in BOOLEAN

-----------------------------------------------------------------------------
\* The SDK's thread.

\* LidarInfoChangeCallback: a lidar that has an index is sent its items; another one only
\* gets an index, so that the next time it is taken for configured, with items of value 0.
LidarInfoChangeCallback(l) ==
    /\ announced[l] < MaxInfo[l]
    /\ announced' = [announced EXCEPT ![l] = @ + 1]
    /\ \/ /\ indexed[l]
          /\ set_bits' = [set_bits EXCEPT ![l] = Items]
          /\ answers' = [answers EXCEPT ![l] = [b \in Items |-> @[b] + 1]]
          /\ UNCHANGED indexed
       \/ /\ ~indexed[l]
          /\ indexed' = [indexed EXCEPT ![l] = TRUE]
          /\ UNCHANGED <<set_bits, answers>>
    /\ UNCHANGED <<in_order, connect_state, ring, count, producer, poll, popped, main>>

\* SetDataTypeCallback, SetPatternModeCallback, SetBlindSpotCallback, SetDualEmitCallback.
setSuccess(l, b) ==
    /\ answers' = [answers EXCEPT ![l][b] = @ - 1]
    /\ set_bits' = [set_bits EXCEPT ![l] = @ \ {b}]
    /\ connect_state' = IF set_bits[l] \ {b} = {}
                        THEN [connect_state EXCEPT ![l] = "Sampling"] ELSE connect_state

\* A timeout sends the command again, a failure gives it up.
SetConfigCallback(l, b) ==
    /\ answers[l][b] > 0
    /\ \/ setSuccess(l, b)
       \/ UNCHANGED <<answers, set_bits, connect_state>>
       \/ /\ answers' = [answers EXCEPT ![l][b] = @ - 1]
          /\ UNCHANGED <<set_bits, connect_state>>
    /\ UNCHANGED <<in_order, announced, indexed, ring, count, producer, poll, popped, main>>

-----------------------------------------------------------------------------
\* The PubHandler's thread.

\* The lidar whose package is being pushed: frame_ is in the order of its index.
Pushed == CHOOSE l \in producer.frame : \A k \in producer.frame : l <= k

produce(pc) == producer' = [producer EXCEPT !.pc = pc]

\* RawDataProcess and CheckTimer collect points until the publishing interval has passed
\* and then make a frame: of the lidar the packet came from when the clocks are
\* synchronised, of all lidars that have points when they are not.
CheckTimer(l) ==
    /\ producer.pc = "collect"
    /\ \E frame \in SUBSET Lidars : l \in frame /\ producer' = [pc |-> "store", frame |-> frame]
    /\ UNCHANGED <<in_order, device, indexed, ring, count, poll, popped, main>>

nextPackage ==
    LET rest == producer.frame \ {Pushed} IN
    producer' = [pc |-> IF rest = {} THEN "collect" ELSE "store", frame |-> rest]

\* StoragePointData: a lidar without an index is left out.  PushLidarData allocates the ring
\* the first time, and looks whether it is full.
StoragePointData ==
    /\ producer.pc = "store"
    /\ \/ /\ ~indexed[Pushed]
          /\ nextPackage
          /\ UNCHANGED ring
       \/ /\ indexed[Pushed]
          /\ ~storage_packet[Pushed]
          /\ storage_packet' = [storage_packet EXCEPT ![Pushed] = TRUE]
          /\ rd_idx' = [rd_idx EXCEPT ![Pushed] = 0]
          /\ wr_idx' = [wr_idx EXCEPT ![Pushed] = 0]
          /\ produce("push")
          /\ UNCHANGED slots
       \/ /\ indexed[Pushed]
          /\ storage_packet[Pushed]
          /\ produce("push")
          /\ UNCHANGED ring
    /\ UNCHANGED <<in_order, device, indexed, count, poll, popped, main>>

FullRing_Silent == nextPackage

FullRing_Overwrite == produce("write")

\* A full ring drops the package but still wakes the polling thread.
FullRing == produce("count")

PushLidarData ==
    /\ producer.pc = "push"
    /\ \/ ~QueueIsFull(Pushed) /\ produce("write")
       \/ QueueIsFull(Pushed) /\ FullRing
    /\ UNCHANGED <<in_order, device, indexed, ring, count, poll, popped, main>>

\* QueuePushAny: the slot first, then the index.  Without an order the contents of the slots
\* are not followed, since a look at one may find any frame.
QueueWrite ==
    /\ producer.pc = "write"
    /\ IF in_order
       THEN \E f \in Sends[Pushed] : slots' = [slots EXCEPT ![Pushed][At(wr_idx[Pushed])] = f]
       ELSE UNCHANGED slots
    /\ produce("advance")
    /\ UNCHANGED <<in_order, device, indexed, storage_packet, rd_idx, wr_idx, count, poll,
                   popped, main>>

QueuePushUpdate ==
    /\ producer.pc = "advance"
    /\ wr_idx' = [wr_idx EXCEPT ![Pushed] = Succ(@)]
    /\ produce("notify")
    /\ UNCHANGED <<in_order, device, indexed, storage_packet, rd_idx, slots, count, poll,
                   popped, main>>

NotifyIfStored ==
    /\ producer.pc = "notify"
    /\ IF QueueIsEmpty(Pushed) THEN nextPackage ELSE produce("count")
    /\ UNCHANGED <<in_order, device, indexed, ring, count, poll, popped, main>>

SignalNeeded_Always == TRUE

SignalNeeded == count <= 0

GetCount ==
    /\ producer.pc = "count"
    /\ IF SignalNeeded THEN produce("signal") ELSE nextPackage
    /\ UNCHANGED <<in_order, device, indexed, ring, count, poll, popped, main>>

Signal ==
    /\ producer.pc = "signal"
    /\ count' = count + 1
    /\ nextPackage
    /\ UNCHANGED <<in_order, device, indexed, ring, poll, popped, main>>

-----------------------------------------------------------------------------
\* The polling thread.
goto(pc) == poll' = [poll EXCEPT !.pc = pc]

ExitRequested == main # "running"

\* DistributePointCloudData returns before it waits when the exit is requested.
Distribute ==
    /\ poll.pc = "start"
    /\ IF ExitRequested THEN goto("future") ELSE goto("wait")
    /\ UNCHANGED <<in_order, device, indexed, ring, count, producer, popped, main>>

Wait ==
    /\ poll.pc = "wait"
    /\ count > 0
    /\ count' = count - 1
    /\ poll' = [poll EXCEPT !.pc = "lidar", !.lidar = 1]
    /\ UNCHANGED <<in_order, device, indexed, ring, producer, popped, main>>

nextLidar ==
    poll' = IF poll.lidar = NumLidars THEN [poll EXCEPT !.pc = "future"]
            ELSE [poll EXCEPT !.pc = "lidar", !.lidar = @ + 1]

Skipped(l) == connect_state[l] # "Sampling" \/ ~storage_packet[l]

PollingLidar ==
    /\ poll.pc = "lidar"
    /\ IF Skipped(poll.lidar) THEN nextLidar ELSE goto("outer")
    /\ UNCHANGED <<in_order, device, indexed, ring, count, producer, popped, main>>

\* The loop of PollingLidarPointCloudData looks at the exit, the loop of PublishPointcloud2
\* inside does not.
PollingLidarPointCloudData ==
    /\ poll.pc = "outer"
    /\ IF ~ExitRequested /\ ~QueueIsEmpty(poll.lidar) THEN goto("inner") ELSE nextLidar
    /\ UNCHANGED <<in_order, device, indexed, ring, count, producer, popped, main>>

PublishPointcloud2 ==
    /\ poll.pc = "inner"
    /\ IF QueueIsEmpty(poll.lidar) THEN goto("outer") ELSE goto("read")
    /\ UNCHANGED <<in_order, device, indexed, ring, count, producer, popped, main>>

\* The slot under rd_idx, or, without an order, whatever the consumer sees of it: an old
\* frame, or one that is not whole.
Visible(l) == IF in_order THEN {slots[l][At(rd_idx[l])]} ELSE Frame

QueuePrePop ==
    /\ poll.pc = "read"
    /\ \E pkg \in Visible(poll.lidar) : poll' = [poll EXCEPT !.pc = "popped", !.pkg = pkg]
    /\ UNCHANGED <<in_order, device, indexed, ring, count, producer, popped, main>>

\* QueuePopUpdate, and the publication of the package.
QueuePopUpdate ==
    /\ poll.pc = "popped"
    /\ rd_idx' = [rd_idx EXCEPT ![poll.lidar] = Succ(@)]
    /\ popped' = [popped EXCEPT ![poll.lidar] = poll.pkg]
    /\ goto("inner")
    /\ UNCHANGED <<in_order, device, indexed, storage_packet, wr_idx, slots, count, producer,
                   main>>

\* PointCloudDataPollThread: the end of its loop.
PollThread ==
    /\ poll.pc = "future"
    /\ IF main \in {"joining", "gone"} THEN goto("done") ELSE goto("start")
    /\ UNCHANGED <<in_order, device, indexed, ring, count, producer, popped, main>>

-----------------------------------------------------------------------------
\* ~DriverNode: RequestExit, the exit signal, the join.
RequestExit ==
    /\ main = "running"
    /\ main' = "requested"
    /\ UNCHANGED <<in_order, device, indexed, ring, count, producer, poll, popped>>

ExitSignal ==
    /\ main = "requested"
    /\ main' = "joining"
    /\ UNCHANGED <<in_order, device, indexed, ring, count, producer, poll, popped>>

Join ==
    /\ main = "joining"
    /\ poll.pc = "done"
    /\ main' = "gone"
    /\ UNCHANGED <<in_order, device, indexed, ring, count, producer, poll, popped>>

-----------------------------------------------------------------------------
Sdk == \E l \in Lidars : LidarInfoChangeCallback(l) \/ \E b \in Items : SetConfigCallback(l, b)

Produce ==
    \/ StoragePointData \/ PushLidarData \/ QueueWrite \/ QueuePushUpdate
    \/ NotifyIfStored \/ GetCount \/ Signal

Poll ==
    \/ Distribute \/ Wait \/ PollingLidar \/ PollingLidarPointCloudData
    \/ PublishPointcloud2 \/ QueuePrePop \/ QueuePopUpdate \/ PollThread

Destroy == RequestExit \/ ExitSignal \/ Join

Next == Sdk \/ (\E l \in Lidars : CheckTimer(l)) \/ Produce \/ Poll \/ Destroy

Spec == Init /\ [][Next]_vars

\* Threads are scheduled, ~DriverNode goes on once begun, and the configured
\* lidars are sending; one that is not configured may fall silent.
FairSpec ==
    /\ Spec
    /\ WF_vars(Produce) /\ WF_vars(Poll) /\ WF_vars(ExitSignal) /\ WF_vars(Join)
    /\ \A l \in Configured : SF_vars(CheckTimer(l))

-----------------------------------------------------------------------------
TypeOK ==
    /\ connect_state \in [Lidars -> {"Off", "Sampling"}]
    /\ set_bits \in [Lidars -> SUBSET Items]
    /\ \A l \in Lidars : announced[l] \in 0..MaxInfo[l]
    /\ \A l \in Lidars : answers[l] \in [Items -> 0..MaxInfo[l]]
    /\ indexed \in [Lidars -> BOOLEAN]
    /\ storage_packet \in [Lidars -> BOOLEAN]
    /\ rd_idx \in [Lidars -> 0..IndexMod-1]
    /\ wr_idx \in [Lidars -> 0..IndexMod-1]
    /\ slots \in [Lidars -> [0..QueueSize-1 -> Frame]]
    /\ count \in 0..1
    /\ producer \in [pc : {"collect", "store", "push", "write", "advance", "notify",
                           "count", "signal"}, frame : SUBSET Lidars]
    /\ poll \in [pc : {"start", "wait", "lidar", "outer", "inner", "read", "popped",
                       "future", "done"}, lidar : Lidars, pkg : Frame]
    /\ popped \in [Lidars -> Frame]
    /\ main \in {"running", "requested", "joining", "gone"}
    /\ in_order \in BOOLEAN

\* The producer and the consumer of a ring never touch the same slot at the same time: the
\* ring has no lock, and the indices alone keep them apart (ldq.cpp).  Nothing is claimed of
\* a machine that moves the accesses across each other.
NoSlotRace ==
    in_order =>
      ~ /\ producer.pc = "write"
        /\ poll.pc = "read"
        /\ Pushed = poll.lidar
        /\ At(wr_idx[Pushed]) = At(rd_idx[poll.lidar])

\* What can be told of a frame: its contents in program order, else only that it is one.
Known(f) == IF in_order THEN f ELSE CHOOSE g \in Frame : TRUE

\* Every stored frame is published once and in its turn, also when the indices run over and
\* when the ring is allocated while the polling thread looks at it.  What is published is
\* what was stored if the machine keeps the order of the program, and only then.  (Which
\* frames are stored is not part of this: a full ring, and a lidar without an index, leave
\* theirs out.)
Queue == INSTANCE FrameQueue WITH
    queue <- [l \in Lidars |-> [i \in DOMAIN Held(l) |-> Known(Held(l)[i])]],
    popped <- [l \in Lidars |-> Known(popped[l])]

DeliversFramesInOrder == Queue!Spec

\* A stored frame of a sampling lidar is published: no wake-up is lost between the look at
\* the count, the signal and the wait, although frames may be stored, and the ring may
\* fill, before the lidar is sampling.
QueuedIsPublished ==
    \A l \in Lidars :
        (connect_state[l] = "Sampling" /\ ~QueueIsEmpty(l))
            ~> (poll.pc = "popped" /\ poll.lidar = l) \/ ExitRequested

\* ~DriverNode ends, if the polling thread keeps up with the lidars: it does not stay in the
\* wait that follows its look at the exit request.
ShutdownCompletes == []<>(poll.pc \in {"wait", "start", "done"}) => (ExitRequested ~> main = "gone")
=============================================================================
