# Verification of the Go2 indoor navigation stack

TLA+ models, TLC configurations and TLAPS proofs for the navigation stack of this
repository. Paths below are relative to the root of the repository; `SCAN` stands for
`src/SCAN-Planner/src/planner`.

- [1 Inventory](#1-inventory)
- [2 Plan](#2-plan)
- [3 What is modelled](#3-what-is-modelled)
- [4 What the runs show](#4-what-the-runs-show)
- [5 Fairness](#5-fairness)
- [6 What is proved](#6-what-is-proved)
- [7 What the models showed about the code](#7-what-the-models-showed-about-the-code)
- [8 What is only model-checked, and what is not modelled](#8-what-is-only-model-checked-and-what-is-not-modelled)

## 1 Inventory

The stack drives a quadruped through a building it has a map of. Data flow in one line:

    Livox driver -> FAST-LIO -> odometry bridge -> global localisation
        -> nav2_scan_bridge (global path from Nav2) -> replanning state machine + grid map
        -> closed loop controller -> cmd_vel_to_sport -> sport service of the robot

Each part is a ROS 2 node of its own, except that the state machine, the planner manager and
the grid map share one node and one executor thread. Parts interact only by topics, by one
action (`ComputePathToPose`) and by the TF tree; inside a node they share members.

| component | state it keeps | operations | what is hard | what makes it correct |
| --- | --- | --- | --- | --- |
| `nav2_scan_bridge` | goal, its sequence number, `planning_`, time of the last request | two goal topics, a timer, goal response and result of an action | answers of old goals, a server that dies, overlapping requests | only paths to the current goal go out; replanning does not stop; the status is true |
| replanning state machine (`scan_replan_fsm.cpp`) | six states, target, waypoints, local trajectory, fail counter, emergency and hover flags | goals, reference paths, odometry, freezes; a 10 ms and a 50 ms timer | two timers that change the same state, failures at every call, a target at any time | work only with a target and a trajectory; targets reached or given up, never lost or retried forever; an emergency stops the robot |
| planner manager | local and global trajectory | `reboundReplan`, `planGlobalTraj`, `updateTrajInfo` | numerical | a trajectory replaces the old one only when it is complete |
| grid map | ring buffer of log-odds, inflation counts, origin | poses, clouds, the occupancy timer | incremental counts across slides, addresses that change owner | every obstacle in the map is inflated, none that left is |
| closed loop controller | trajectory, execution time, last odometry | trajectories, odometry, 10 ms timer | late trajectories, odometry that stops | follows the newest trajectory, freezes only while turning; the state machine's clock stays near its own |
| `cmd_vel_to_sport` | last command, odometry, confidence with their times; `stop_sent_` | three topics, a timer, shutdown | stale inputs, a shutdown thread beside the executor | the robot walks only on fresh, valid inputs |
| odometry bridge | none | one topic | - | a change of frame |
| global localisation | `mat_odom2map_`, confidence, merged scan, their locks | odometry, scans, initial pose, a thread | data shared with the thread, a confidence older than it looks | the confidence says what the pose is worth |
| FAST-LIO | lidar, time and IMU buffers, filter | two topics, the main loop | buffers emptied apart, clocks that go back | a scan is processed with its own time and all its IMU samples |
| Elevator-LIO | filter, elevator state | the same | not started by the navigation launch files | - |
| Livox driver | a ring of frames per lidar, a semaphore, what is set on each lidar | packets and answers of the SDK, a polling thread, shutdown | four threads, a ring without a lock, wake-ups | queued frames come out once each and in order; none is left in the ring; the driver ends |
| Unitree messages, DDS | vendored | - | - | - |
| simulators, launch files, RViz panels | - | - | - | - |

`PROJECT.json` lists every component with its sources and status, and the hazards at their
lines.

## 2 Plan

The order puts first what moves the robot and what stops it. 1 to 8 exist.

1. `PathDelivery`, `Nav2ScanBridge`: an abstract promise and the protocol that keeps it.
2. `SportBridge`: the last gate before the robot.
3. `ReplanFSM`: the state machine with both timers.
4. `GridMap`: the sliding map the state machine plans in.
5. `TrajectoryClock`, what the state machine is to the controller, which `ReplanFSM` implements;
   `ClosedLoopController`; and `LocalPlanner`, which composes the two through the trajectory and
   freeze topics and replaces the free choice of `go2ExecutionFrozenCallback`.
6. `GlobalLocalization`: the localisation thread, `lock_mat_odom2map_`, the confidence.
7. `LaserMapping`: the buffers of FAST-LIO, how scans meet IMU samples.
8. `FrameQueue`, `LivoxDriver`: an abstract queue and the ring without a lock.

Left:

9. `LocalizedSport`, the composition of `GlobalLocalization` with `SportBridge`, with time in
   the first: how long may the robot walk on a registration that no longer happens.
10. `DynAStar`: the search as a bounded algorithm against reachability; its nodes are reused
    from call to call and told apart by `rounds`.
11. In `GridMap`: the marks of the ray walk with the 8-bit scan number.
12. The elevator state machine of Elevator-LIO, which the navigation launch files do not start.

Every invariant, action property and refinement a passing run checks is also a theorem
(section 6). What comes next for the prover are the new modules of the list above.
A composition takes over the properties of the run of its parts only where they can change.

## 3 What is modelled

Each action is one callback (ROS 2 runs callbacks of a node one at a time on its executor
thread); what interleaves is their order. Where a second thread exists (`cmd_vel_to_sport`
during shutdown) the steps of the callback are separate actions.

### Nav2ScanBridge (`src/scan_nav2_navigation/src/nav2_scan_bridge.cpp`)

`goalCallback`, `timerCallbackReached`, `timerCallbackReplan`, `goalResponseAccepted`,
`goalResponseRejected` and `resultCallback` are the callbacks with the calls they make to
`requestPlan` and `publishPaths`. A request is its goal and the sequence number that the
callbacks capture. `sent` and `accepted` count the requests whose response and whose result
are still to come: the answers arrive in any order, and never twice. The environment moves
the clock (`Elapse`), discovers the server, kills it with what it holds (`ServerDies`) and
changes the TF tree; `server_died` is history. Poses are model values; the path is reduced to
what its length leads to.
`PathDelivery` is what the bridge promises to the local planner: one target, and only paths
to it while it is pursued.

### SportBridge (`SCAN/plan_manage/src/cmd_vel_to_sport.cpp`)

Ages stand for the times the code stores; they stop growing one tick beyond the last
timeout that reads them. `publishCommand` decides; publishing the request and setting
`stop_sent_` are steps of their own, because the thread that handles the shutdown may come
between them. `Tick` waits for a due timer: the executor keeps up. `unbacked_for` is
history, read by properties only. `RecordHistory` is a conjunct of every step.

### ReplanFSM (`SCAN/plan_manage/src/scan_replan_fsm.cpp`)

Every branch of the switch of `execFSMCallback` is an action `exec...`, the 50 ms timer is
`checkCollisionCallback`, the subscriptions have their names. `navi_mode` is chosen at the
start and never changes. A local trajectory is `[kind, final, long]`: whether it is a plan, a
stop or none; whether it ends at the target; whether it leaves the neighbourhood
`replan_thresh_` of its start. `ok` is whether the planner, or the search for a free target,
succeeds: any call may fail. `finishProcess` is part of the actions whose code reaches it,
and not of those that return before it.

The timers share their thread with planning and with the grid map, so they may be late:
`since_exec` and `since_freeze` are the times since the last run of the state machine timer and
of `updateLocalTrajTimeFreeze`, up to `MaxLate`. The update counts the whole gap by the freeze
flag as it is at the end of it, and ignores a freeze if the gap is longer than `MaxStep` (0.2 s).
`AwayAt` leaves at least `MaxLate` ticks of a trajectory, because a trajectory that ends within
one gap of leaving its start is never seen on its way; the trajectories of the code last seconds.

`end_moved` says that `end_pt_` was assigned after the local trajectory was planned: by a target
that was accepted, by one that was rejected, or by a path too short to use. The test for "near
end" then compares with another point than the trajectory leads to, and may hold anywhere on it.

### GridMap (`SCAN/plan_env/src/grid_map.cpp`, `grid_map.h`)

The number of dimensions is a parameter. An address is the vector of ring indices; the code
packs the same indices in one integer (`toAddress`). `occupancy` and `inflate_cnt` are the
buffers `occupancy_buffer_` and `occupancy_buffer_inflate_cnt_`;
`occupancy_buffer_inflate_` is not a variable, it is set wherever the count is, to whether the
count is positive. `sensorPoseCallback` stores the pose and slides the map
(`updateSlidingMap`: no slide, a slide, or a reset of everything). `raycastProcess` updates
one voxel with its verdict. A scan of several voxels is several of these steps at one pose;
the ray walk is not modelled, so any cell of the map may be hit or missed. The slide at the
start of `raycastProcess` and of `cloudCallback` repeats that of the last pose and never
moves the map: the last conjunct of `TypeOK` says so. `slid`, the cells a slide brought in,
is history.

### ClosedLoopController, LocalPlanner (`SCAN/plan_manage/src/closed_loop_controller.cpp`)

The controller's timer has three outcomes, an action each: nothing to follow or to follow it
with (`cmdWithoutInput`), the heading off (`cmdTurn`), following (`cmdFollow`). Whether the
heading is off and whether the end is near are free choices; a command is its kind.
`since_update` is the age of `last_update_time_`, up to one tick past the 0.2 s that count.

`TrajectoryClock` keeps of the state machine what the controller has to do with: it sends
trajectories, its clock runs along the newest one unless the robot is said to turn, and the end
on that clock is taken for the arrival. `ClockSpec` of `ReplanFSM` says that the state machine
implements it. `LocalPlanner` extends it and instantiates the controller. `Publish` and
`StayQuiet` split its steps by whether the code sends a trajectory; the topics `bspline` and
`execution_frozen` carry what is sent until the other node takes it. Both keep their order and
the newest `QueueDepth` messages, as the default QoS of the code does. Nothing runs in lock-step:
the timer of either node, a trajectory and the freeze messages wait up to `MaxLate` ticks each, in any
order. `drift` is history: what the arrival of the trajectory, and each start or end of a turn
since, may have put between the two clocks (`Lag`, a change that is told late and is then applied
to a gap that began before it), or no bound at all once time passed without odometry.

### GlobalLocalization (`src/ws_localization/src/open3d_loc/src/global_localization.cpp`)

Two threads: the executor (`cb`) and `thread_loc_` (`loc`, the function `Localization` with
`LocalizationInitialize`). A matrix is read and written in two parts, because not every access
holds the lock. What a part knows of itself is the initial pose it descends from and the
fitness of the match that gave it; a match has any fitness. The loops that poll are steps that
stay where they are. Scans are one of two kinds, with and without points. What the odometry
callback computes and publishes and the Kalman filters change nothing of this and are left out.

### LaserMapping (`src/ws_fastlio/src/FAST_LIO/src/laserMapping.cpp`, `IMU_Processing.hpp`)

The callbacks fill `lidar_buffer`, `time_buffer` and `imu_buffer`; the timer runs
`sync_packages`, `ImuProcess::Process` and the registration as one action, since one thread
runs them. The filter is the time its state stands for: `Propagated` is the sum of the steps
of `UndistortPcl`, a recursive function over the samples as its loop is. `Takes` is the condition
under which the loop of `sync_packages` moves one more sample. A cloud is its stamp and whether
it is empty, too small to register, or neither. Full scans are of one length, so that their mean
is that length; the code takes the mean also for a last point whose offset is less than half of
it (`laserMapping.cpp:399`). The topics drop their oldest message, the clock of the sensors may go back once
(`epoch`). `time_sync_en` is false in every configuration and left out.

### LivoxDriver, FrameQueue (`src/ws_livox/src/livox_ros_driver2/src`)

Four threads: the SDK's (`LidarInfoChangeCallback` and the answers to four configuration
commands), the producer (`producer.pc`), the polling thread (`poll.pc`) and the main thread,
which destroys the node. Each access to a ring, to its indices and to the count of the
semaphore is a step. The counters run over at `IndexMod`. What a packet holds, and how packets
become a frame, is reduced to which lidars have one (`CheckTimer`). The indices are `volatile`,
not atomic, and the slots plain memory: whether the machine keeps the order of the program is the
variable `in_order`, which never changes. If it does not (aarch64, the documented platform), a
slot is not followed, and whoever reads it reads any frame (`Visible`). Sight of an index that
comes late is not modelled: it costs a wake-up, which the next frame makes good, or a frame that
finds the ring full. The IMU path has the same protocol over a list with a lock and is left out.
`FrameQueue` is the promise: a bounded queue per lidar, from which what went in comes out once and
in turn. Which frames go in is not promised: a full ring and a lidar without an index
(`lds.cpp:162`) leave theirs out. The contents of frames are compared only where `in_order` holds
(`Known`).

## 4 What the runs show

| run | shows | bounds and why they suffice |
| --- | --- | --- |
| `bridge` | requests of a goal never overlap, the status is true, the bridge implements `PathDelivery`, and unless Nav2 died an active goal is replanned forever | 2 goal poses, up to 3 goals: an old pose may come back, with answers of two earlier ones still out; period 2; the server may die |
| `sport_bridge` | the robot stops one period after its inputs go bad, and `stop_sent_` agrees with the last request | timeouts of 2 and 3 ticks, period 2, three positions: one out of bounds for a valid reason, two a jump apart |
| `sport_shutdown` (violated) | a Move follows the StopMove of the shutdown | sleep as long as the period, as in the code |
| `replan_fsm` | no work without a target or trajectory, no target lost on the way, no endless failing, the waypoint pursued is the current one, the state machine implements `TrajectoryClock` | all three modes, 2 targets (a waypoint and the last one; a target and one that replaces it), 2 failures to an emergency (one does not suffice), trajectories of 3 ticks (start, middle, end), timers up to 2 ticks late, of which the freeze update takes 1 into account |
| `fsm_emergency` (violated) | the second of two emergencies sends no stop | reference paths only |
| `local_planner` | the clocks of the two nodes are no further apart than late timers and messages may have put them, an arrival finds the controller on the same trajectory and that near to its end, and every freeze ends | timers and messages up to 2 ticks late, in any order; 2 trajectories (a newer and an older one); 11 ticks, so that the bound says something at the arrival of a trajectory (6) and after a start or end of a turn (10); queues of 3 messages, which 2 ticks cannot overrun, as ten cannot be in the code. The proofs of section 6 cover every lateness, duration and depth |
| `grid_map` | no ghost obstacles, exact counts in cells no slide brought in, slides keep and forget the right cells | 2 dimensions, 3 by 2 cells, inflation by one cell; slides along one axis, along both, and out of the map; two hits make an obstacle, as in `planner.yaml` |
| `grid_map_entering` (violated) | a cell that enters beside an obstacle is not inflated | the same |
| `livox_driver` | the rings implement `FrameQueue`, in program order with the contents of the frames and never a slot written and read at once; no frame of a sampling lidar stays in its ring; the shutdown ends | 2 lidars: one outside the configuration that is sampled when it comes up again, one whose ring fills before it is heard of; rings of 2 frames, counters modulo 4, so that each runs over; both values of `in_order` |
| `laser_mapping` | scans are paired with their own times, the filter stands at the stamp it publishes, stamps increase, a scan gets every sample of its time that arrives | scans of 3 ticks, samples every 2, so that scans end on and between samples; subscriptions keep one message; 17 ticks: a first scan, the start-up, the map, a scan without samples and the one after it |
| `laser_mapping_loop_back` (violated) | a lidar clock that goes back leaves the times of the scans it cleared | 6 ticks, then 3 |
| `localization` | no match overwrites a later pose of the operator, no rejected match comes into use, the confidence belongs to the transform, and neither thread blocks the other for good | 2 poses (one during a match started from the other), fitness below, above and far above the threshold, a queue of 2 scans |

Each passing property has a mutant of the model, a plausible slip in the code, that TLC finds
to break it (`_` in the name, beside the definition it replaces).

Bounds that exist only for checking: `MaxGoals`; `MaxPoses`; the saturation of the ages
(`since_update` among them) and of `drift`, where it exceeds a trajectory; `RayCells`;
`NumTargets` (also the number of preset waypoints, a parameter of the code); `MaxTime`, `MaxBacklog`, `MaxEpoch` and
`MaxTimeAgain`; `MaxInfo`. `IndexMod` stands for 2^32 and need only be a multiple of the size
of the ring and larger than it.

## 5 Fairness

- `Nav2ScanBridge`: weak fairness of the replanning timer, of the clock and of the answers to
  each request. A wall timer of a spinning executor is served; that Nav2 answers each request
  is an assumption on Nav2, which a server that dies does not keep: the property excludes it.
- `SportBridge` and `LaserMapping`: none. Their properties are about what has happened.
- `ReplanFSM`: weak fairness of the state machine timer. The controller freezes a trajectory only
  while it turns the robot towards it, so some runs of the timer are not frozen, and the time
  along the trajectory is not withheld forever by always coming while the robot is (strong
  fairness of the tick and of a run that counts it). A robot told to stop slows down, so the exit
  of an emergency, which waits for that, is taken if it stays possible again and again (strong
  fairness). None for targets, odometry, or success of the planner.
- `LocalPlanner`: time goes on (`[]<>` of the tick), and by the bounds on lateness takes both timers
  and both topics with it. A robot that turns on the spot towards its way faces it some time: a
  command that does not turn is taken if it is possible again and again. What `ReplanFSM` assumes
  of freezes is shown here (`FreezesEnd`). It needs queues longer than the messages of the longest
  lateness: a message in 10 ms and a queue of ten. A thread that is later may find only messages
  that say "frozen", the others dropped.
- `GridMap` has no liveness: it reacts to its inputs and promises nothing about time.
- `LivoxDriver`: weak fairness of the producer and polling threads and of `~DriverNode` once it
  began; configured lidars keep sending (strong fairness of `CheckTimer`, which waits for the
  frame before); the others may fall silent, after a frame that nobody was woken for too. None
  for the SDK's callbacks. `ShutdownCompletes` also supposes that the polling
  thread empties the rings faster than they fill; its inner loop does not look at the exit.
- `GlobalLocalization`: weak fairness of both threads. `std::mutex` promises no order, but the
  lock is free while a scan is copied between two matches, so a waiting pose gets it some time
  (strong fairness of `poseLock`). None for odometry, scans or poses.

## 6 What is proved

TLAPS proves the following for every value of the constants allowed by the assumptions of the
module. The assumptions say only that periods, timeouts and sizes are positive, that sets
hold what they should, and for `GridMap` that there are finitely many dimensions and that the
log-odds thresholds are ordered as the parameters are. `LocalPlannerProofs` adds that nothing is
late by more than the 0.2 s that count (`MaxLate <= MaxStep`) for the two theorems on clocks.

- `Nav2ScanBridgeProofs`: `TypeOK`, `OneRequestInFlight`, `StatusTruthful`,
  `PlanningIsAnswered` (if Nav2 does not die) and the refinement of `PathDelivery`. The
  invariant is the conjunction of the first three: that a delivered path leads to the current
  goal rests on no other request of the same number being under way, and that on `planning_`
  guarding the second request.
- `SportBridgeProofs`: `TypeOK`, `StopFlagTruthful` and `StopsWithinOnePeriod`. The invariant compares
  two clocks: while the last request is a Move, the inputs have been bad for no longer than
  the timer is old. It needs the flag to agree with the last request, and what is known at
  each step of `publishCommand`. It ends at the shutdown, where the property does not hold.
- `ReplanFSMProofs`: `TypeOK`, `WorkHasTarget`, `TrajectoryExists`, `TargetKept`,
  `HeadsForCurrentWaypoint`, and that the state machine implements `TrajectoryClock` (`ClockSpec`).
  `TargetInv` adds that a target comes with an end point and a global trajectory, that an
  emergency has a target too, and that the failure count never waits at its limit (so the
  exit to `WAIT_TARGET` is not turned into another emergency); `TrajectoryInv`
  that states after the first plan have a trajectory, and that one that leaves its start and
  does not reach the end point it was planned for, if that is still the end point, is not
  executed further than the timer can have been late since it last found it near its start: it
  is replanned from before it ends. `MissionInv` is
  for preset waypoints: they are under way only in that navigation mode, and then the end point
  planned to is the waypoint `current_wp_` counts, whichever timer counted it.
- `LocalPlannerProofs`: `PlannerTypeOK`, `ClocksAgree` and `ArrivesWithTheRobot`, for every
  lateness up to 0.2 s, duration and depth of the queues; through `ClockSpec` they hold of
  `ReplanFSM`. `TopicInv` says that the last word on each topic is true: the newest freeze message
  tells what the controller does, the newest trajectory is the one the state machine counts on.
  `ModeInv` says what that needs of the nodes. `ClocksInv` is the relation of the clocks, each with
  the time it has not counted yet: they are apart by `drift` at most (`Together`), and either all
  messages under way say what the state machine knows (`Settled`), or the last change still
  costs, and then the clocks are within what was there before it, `MaxLate`, and the time for which
  messages have waited (`PartlyTold`). `ClocksAgree` alone is not inductive: it does not say how
  much of the bound is left for what is under way.
- `GlobalLocalizationProofs`: `TypeOK`, `OperatorPoseKept`, `MatchedOnceInitialised` and
  `ConfidenceSettled`, for any thresholds, number of poses and queue. The invariants follow
  each thread: who holds the lock at which step, what `reg_matrix` and the half-written matrix
  hold there, and which poses they descend from.
- `GridMapProofs`: `TypeOK`, `NoGhostInflation`, `CountsEveryObstacle`, `SlideKeepsCells`, for
  any number of dimensions. First the ring: `RingIsInverse` and `CellOfAddress` (address and
  cell determine each other), `SlideMovesNothing` (an address outside the slabs that leave
  holds the same cell before and after; one inside them holds a cell the old map did not
  have). Then `Good`, the relation between the two buffers: each count is at most the number
  of occupied cells that cover the cell, and equal to it outside the cells slides brought in.
  Each operation preserves it (`applyKeepsGood`, `updateVoxelKeepsGood`, `slideKeepsGood`,
  `emptyIsGood`). Neither property is inductive without the other half of `Good`'s typing:
  the clamp at zero is harmless only because a count is never above the obstacles it counts.

- `LivoxDriverProofs`: `TypeOK`, `NoSlotRace` (in program order) and the refinement of `FrameQueue`
  (with the contents in program order, without them on another machine), for any number of lidars, any size of the ring and any width of the counters that the size divides. First
  the ring's arithmetic, where `%` and the indices that run over meet: the slots of a window
  shorter than the ring differ (`ModApart`, `BetweenFacts`), and a window moves by one at either
  end (`WindowPush`, `WindowPop`, `WindowWrite`). `RingInv` says at each step of the two threads
  what the step knows: that the ring was not full when the producer decided to write and still
  is not, since only the consumer can have moved; and that it was not empty for the consumer.
  Then the refinement step by step: the abstract queue grows where `wr_idx` moves, not where the
  slot is written, and shrinks where `rd_idx` moves, not where the frame is copied.
- `LaserMappingProofs`: `TypeOK`, `PairsOwnTime`, `OdometryTruthful`, `SamplesComplete` and
  `StampsIncrease`, for any scan length, sample period, depths and start-up. `ImuOrder` and `ScanOrder` are what "the clock
  has not gone back" gives: what waits in a topic follows what is buffered, scans are at least
  their length apart, and none begins before the odometry published last; a scan that is new
  comes a whole scan after the others because ends are multiples of the length
  (`MultiplesApart`). `MeanInv` says that a scan that can be published has a known length.
  `OdometryTruthful` needs `FilterInv` (the filter stands at `last_lidar_end_time_`, the last
  sample taken is not after it and none that waits is before it) and `PropagatedToEnd`: the
  steps of `UndistortPcl` telescope. `SamplesComplete` follows from
  `NoneBefore`: a time that the clock has passed and that no waiting sample precedes stays such a
  time, and the end of a scan that is handed over is one. `StampsIncrease` is an action property,
  from `ScanOrder`.

Sums and least elements are needed in two places, where one would use induction. Both take a
least counterexample in a set of indices instead (`LeastExists`, from `WFMin` of the library),
which is first order; so `Telescopes` speaks of every function that solves the recursive
equation, and `LoopIsDefined` gives one that does.

## 7 What the models showed about the code

Backed by a run that TLC finds violated:

1. `cmd_vel_to_sport.cpp:232` (`sport_shutdown`): the timer runs on during the shutdown's sleep
   and publishes a Move after the final StopMove.
2. `scan_replan_fsm.cpp:874` (`fsm_emergency`): an emergency ended by the safety timer leaves
   `flag_escape_emergency_` cleared, and the next emergency sends no stop.
3. `grid_map.cpp:409` (`grid_map_entering`): cells that enter the map beside known obstacles are
   never inflated by them, and lose an inflation they did not get when such an obstacle is
   cleared.
4. `laserMapping.cpp:320` (`laser_mapping_loop_back`): a lidar clock that goes back clears the
   scans and not their times.

Met while modelling; the properties are stated so that they hold with them:

- `nav2_scan_bridge.cpp:168`: no timeout on a request; a Nav2 that dies with it leaves
  `planning_` set, and the goal is never planned again (`PlanningIsAnswered` and
  `ReplannedUnlessNav2Dies` say so). `PATH_TRANSFORM_FAILED` also reports paths that are too
  short.
- `cmd_vel_to_sport.cpp:101`: the jump test mixes the time of the last message with the
  position of the last valid one, and rejects a steady stream for good after one jump. The robot
  then stands although its inputs are good, so no property says that it walks again.
- `scan_replan_fsm.cpp:451`: steps longer than 0.2 s are left out of the freeze, and planning
  that takes part of such a step while the robot turns moves the start of the new trajectory
  into the future; a gap up to 0.2 s counts as a whole by the flag at its end. Each turn may so
  put the two clocks further apart, and nothing joins them before the next trajectory.
- `scan_replan_fsm.cpp:157`, `:204`, `:357`: `end_pt_` is overwritten before a target or path is
  accepted. The trajectory under way is then compared with the rejected point (`:686`), need not be
  replanned when it passes near it, and its end counts as the arrival (`:660`); `TargetKept`
  excludes it (`end_moved`).
- `closed_loop_controller.cpp:122`: without odometry the controller announces no freeze, so the
  state machine's clock runs and may arrive with the robot at the start (`drift` has no bound then); `:113`: with
  odometry that stopped it goes on commanding, and only `cmd_vel_to_sport` ends that.
- `global_localization.cpp:776`: the start value is read without the lock, and a pose given
  then is lost or half lost; `:990` the confidence that rejects a pose is read before the lock;
  `:952` the confidence is published before its transform; `:421` the thread is never joined.
- `livox_lidar_callback.cpp:44`: a lidar outside the configuration that announces itself twice
  is taken for configured. `:151`: a refused command is not sent again. `lddc.cpp:128`: when the
  lidars are silent after the exit request, nothing wakes the polling thread and the join hangs.
- `comm.h:207`, `ldq.cpp:139`: `wr_idx` is `volatile` and there is no barrier between it and the slot,
  so that on aarch64 (`magic_v1.0.md:10`) the polling thread may publish what the slot held
  before; nothing is claimed of the contents of frames there.
- `laserMapping.cpp:983`: a scan without IMU samples publishes the scan before with the new
  stamp. `IMU_Processing.hpp:78`: `last_lidar_end_time_` is never initialised.

## 8 What is only model-checked, and what is not modelled

Only model-checked: the liveness properties (`ReplannedUnlessNav2Dies`,
`GivesUp`, `FreezesEnd`, `QueuedIsPublished`, `ShutdownCompletes`,
`ExecutorFreed`, `MatchesGoOn`), which need fairness and are out of the prover's reach.
Of the clocks of the
local planner nothing is claimed beyond a lateness of 0.2 s, where they may part by any time.

Abstracted: geometry and time are reduced to what the code branches on. The splines, the
optimiser, the search, the registration and the filter are numerical; their discrete outcome,
success or failure, is a free choice. NaN velocities and distances below 0.2 m are not in the
models.

Not modelled: A* and its node pool (planned, section 2); the open loop controller, the
kinematic simulator and the gait publisher (simulation only); the odometry bridge (stateless);
in the grid map the depth camera input, the ray walk and its marks, and `resetBuffer` and
`setOccupancy`, which nothing calls; of the localisation what is numerical, what it publishes,
and its shutdown; of FAST-LIO the filter and the map publishing; of the Livox driver the
packets, the IMU path and the configuration files; Elevator-LIO (not started by the navigation
launch files); vendored code (Unitree messages, DDS, ikd-Tree, IKFoM, rapidjson, nlohmann
JSON), which is most of the lines of the repository; simulators, launch files, RViz panels and
scripts.
