------------------------------- MODULE ReplanFSM -------------------------------
(***************************************************************************)
(* SCANReplanFSM, the state machine of the local planner: it accepts       *)
(* targets (a goal, a list of preset waypoints or a reference path), asks  *)
(* the planner for local trajectories, replans while they are executed,    *)
(* and stops the robot when a trajectory is blocked or planning keeps      *)
(* failing.  One executor thread runs the 10 ms state machine timer, the   *)
(* 50 ms safety timer and the subscriptions, so each callback is one       *)
(* action.  Geometry is abstracted to what the code branches on: which     *)
(* target a trajectory leads to, whether it ends there, whether it leaves  *)
(* the neighbourhood of its start, and how far along it the robot is.  The *)
(* thread also plans and works on the grid map, so a timer may be served   *)
(* late, by up to MaxLate ticks.  The flags that only choose the           *)
(* optimiser's initial guess are left out.                                 *)
(***************************************************************************)
EXTENDS Integers

CONSTANTS
    Modes,          \* the values of the parameter fsm.navi_mode
    NumTargets,     \* the goals that may arrive, or the number of preset waypoints
    MaxFail,        \* max_replan_fail_count_
    Duration,       \* duration of a local trajectory, in ticks
    AwayAt,         \* ticks after which a long one is replan_thresh_ from its start
    MaxLate,        \* ticks within which execFSMCallback and the freeze update run again
    MaxStep,        \* the longest gap the freeze update takes into account, 0.2 s, in ticks
    EmergencyTime,  \* emergency_time_, in ticks
    FailSafe,       \* enable_fail_safe_
    ShortPaths      \* whether a reference path may shrink to fewer than two points

ASSUME ReplanAssumption ==
    /\ Modes \subseteq {"MANUAL_TARGET", "PRESET_TARGET", "REFERENCE_PATH"}
    /\ NumTargets \in Nat \ {0}
    /\ MaxFail \in Nat \ {0}
    /\ Duration \in Nat \ {0}
    /\ MaxLate \in Nat \ {0} /\ MaxStep \in Nat \ {0}
    /\ AwayAt \in 1..(Duration - MaxLate)
    /\ EmergencyTime \in Nat
    /\ FailSafe \in BOOLEAN /\ ShortPaths \in BOOLEAN

VARIABLES
    navi_mode,         \* read once at the start
    exec_state,
    have_odom, trigger, have_target,
    flag_escape_emergency, need_hover_stop,
    replan_fail_count,
    go2_execution_frozen,
    preset_started,
    current_wp,        \* counts from 0
    waypoints_active,  \* active_waypoints_ holds the preset waypoints, or is empty
    end_pt,            \* the target end_pt_ belongs to; NoTarget at first
    global_traj,       \* the target the global trajectory leads to
    end_moved,         \* end_pt_ was assigned after the local trajectory was planned
    near_target,       \* odometry within 0.5 m of end_pt_
    local,             \* local_data_: none yet, a stop, or a plan
    t_cur,             \* last_freeze_update_time_ - start_time_, at most Duration
    since_freeze,      \* time since last_freeze_update_time_
    since_exec         \* time since execFSMCallback last returned

targetVars == <<have_target, end_pt, global_traj, near_target>>
goalVars == <<targetVars, end_moved>>
trajVars == <<local, t_cur, since_freeze>>
missionVars == <<navi_mode, preset_started, current_wp, waypoints_active>>
stopVars == <<flag_escape_emergency, need_hover_stop, replan_fail_count>>
inputVars == <<have_odom, go2_execution_frozen>>
vars == <<exec_state, goalVars, trajVars, missionVars, stopVars, inputVars, trigger, since_exec>>

State == {"INIT", "WAIT_TARGET", "GEN_NEW_TRAJ", "REPLAN_TRAJ", "EXEC_TRAJ",
          "EMERGENCY_STOP"}

NoTarget == 0
Targets == 1..NumTargets

\* final: it comes within no_replan_thresh_ of the end_pt_ it was planned for; long: it
\* leaves replan_thresh_.
Trajectory == [kind : {"none", "stop", "plan"}, final : BOOLEAN, long : BOOLEAN]

NoTrajectory == [kind |-> "none", final |-> FALSE, long |-> FALSE]

Init ==
    /\ navi_mode \in Modes
    /\ exec_state = "INIT"
    /\ have_odom = FALSE /\ trigger = FALSE /\ have_target = FALSE
    /\ flag_escape_emergency = TRUE
    /\ need_hover_stop = FALSE
    /\ replan_fail_count = 0
    /\ go2_execution_frozen = FALSE
    /\ preset_started = FALSE /\ current_wp = 0 /\ waypoints_active = FALSE
    /\ end_pt = NoTarget /\ global_traj = NoTarget
    /\ end_moved = FALSE /\ near_target = FALSE
    /\ local = NoTrajectory /\ t_cur = 0
    /\ since_freeze = 0 /\ since_exec = 0

-----------------------------------------------------------------------------
\* Time along the local trajectory.

\* Variant: the clock of the trajectory runs on while the robot is frozen.
Progress_IgnoresFreeze ==
    IF local.kind = "none" THEN t_cur
    ELSE IF t_cur + since_freeze < Duration THEN t_cur + since_freeze ELSE Duration

\* now - start_time_ after an update: the whole gap since the last update counts for
\* nothing if the robot is frozen at its end, unless it is longer than 0.2 s.
Progress ==
    IF local.kind = "none" \/ (go2_execution_frozen /\ since_freeze <= MaxStep) THEN t_cur
    ELSE IF t_cur + since_freeze < Duration THEN t_cur + since_freeze ELSE Duration

\* The first thing both timers do.
updateLocalTrajTimeFreeze ==
    /\ t_cur' = Progress
    /\ since_freeze' = 0

\* A run of the state machine timer that leaves the local trajectory alone.
execSameTraj ==
    /\ updateLocalTrajTimeFreeze
    /\ since_exec' = 0
    /\ UNCHANGED local

-----------------------------------------------------------------------------
\* Planning.

\* Variant: a blocked target leaves the old end point.
planGlobalTo_KeepsEndOnFailure(t, ok) ==
    /\ end_pt' = (IF ok THEN t ELSE end_pt)
    /\ end_moved' = TRUE
    /\ global_traj' = t
    /\ near_target' = FALSE
    /\ have_target' = (ok \/ have_target)

\* planGlobalTraj to target t, which always succeeds, then adjustGlobalTargetIfOccupied,
\* which succeeds or not (ok): the end point and the global trajectory are new either way.
planGlobalTo(t, ok) ==
    /\ end_pt' = t
    /\ end_moved' = TRUE
    /\ global_traj' = t
    /\ near_target' = FALSE
    /\ have_target' = (ok \/ have_target)

\* getLocalTarget looks planning_horizon_ ahead on the global trajectory and evades
\* occupied points forwards or backwards: the local target may be the end point or not, and
\* any distance away.
getLocalTarget == {tr \in Trajectory : tr.kind = "plan"}

\* A successful reboundReplan: updateTrajInfo stores the new trajectory and starts it at
\* the end of the planning, which took p ticks; the freeze update was at its start.
newPlan ==
    /\ local' \in getLocalTarget
    /\ end_moved' = FALSE
    /\ \E p \in 0..(MaxLate - 1) :
          /\ p <= since_exec /\ p <= since_freeze
          /\ t_cur' = 0 - p
          /\ since_freeze' = p

\* callReboundReplan, which publishes nothing when the planner fails.  (A planner that fails
\* changes nothing at its end, so the step stands for its start.)
callReboundReplan(ok) ==
    IF ok THEN newPlan ELSE updateLocalTrajTimeFreeze /\ UNCHANGED <<local, end_moved>>

\* planFromCurrentTraj: except along a reference path, the global trajectory is planned
\* again from the robot to the end point first, which a blocked end point makes fail.
planFromCurrentTraj(ok) ==
    /\ global_traj' = IF navi_mode = "REFERENCE_PATH" THEN global_traj ELSE end_pt
    /\ callReboundReplan(ok)
    /\ UNCHANGED <<have_target, end_pt, near_target>>

\* callEmergencyStop publishes a trajectory that stays where the robot is.
callEmergencyStop ==
    /\ local' = [kind |-> "stop", final |-> FALSE, long |-> FALSE]
    /\ t_cur' = 0
    /\ since_freeze' = 0

\* finishProcess at the end of a state machine step that would leave the count of failures
\* at count, the state at st and the two flags at escape and hover.
finishProcess(count, st, escape, hover) ==
    \/ /\ count < MaxFail
       /\ replan_fail_count' = count
       /\ exec_state' = st
       /\ flag_escape_emergency' = escape
       /\ need_hover_stop' = hover
    \/ /\ count >= MaxFail
       /\ replan_fail_count' = 0
       /\ exec_state' = "EMERGENCY_STOP"
       /\ flag_escape_emergency' = TRUE
       /\ need_hover_stop' = TRUE

-----------------------------------------------------------------------------
\* Subscriptions.

\* Variant: a new target interrupts planning as well.
onTarget_InterruptsPlanning(ok) ==
    exec_state' = CASE ok /\ exec_state = "WAIT_TARGET" -> "GEN_NEW_TRAJ"
                    [] ok /\ exec_state \in {"GEN_NEW_TRAJ", "EXEC_TRAJ"} -> "REPLAN_TRAJ"
                    [] OTHER -> exec_state

\* A target that was accepted wakes the state machine or interrupts the trajectory.
onTarget(ok) ==
    exec_state' = CASE ok /\ exec_state = "WAIT_TARGET" -> "GEN_NEW_TRAJ"
                    [] ok /\ exec_state = "EXEC_TRAJ" -> "REPLAN_TRAJ"
                    [] OTHER -> exec_state

\* rvizGoalCallback and waypointCallback (the height is taken from the first odometry), and
\* pathCallback with at least two distinct points.
targetCallback(t, ok) ==
    /\ navi_mode # "PRESET_TARGET"
    /\ have_odom
    /\ trigger' = TRUE
    /\ planGlobalTo(t, ok)
    /\ onTarget(ok)
    /\ UNCHANGED <<trajVars, missionVars, stopVars, inputVars, since_exec>>

\* pathCallback with a path that shrinks to one point: planGlobalTrajByWaypoints rejects
\* it, after end_pt_ has been overwritten.
shortPathCallback(t) ==
    /\ navi_mode = "REFERENCE_PATH"
    /\ ShortPaths
    /\ have_odom
    /\ trigger' = TRUE
    /\ end_pt' = t
    /\ end_moved' = TRUE
    /\ near_target' = FALSE
    /\ UNCHANGED <<exec_state, have_target, global_traj, trajVars, missionVars, stopVars,
                   inputVars, since_exec>>

\* planGlobalTrajbyGivenWps starts the preset mission; nothing is tried again if the first
\* waypoint is blocked.
planGlobalTrajbyGivenWps ==
    /\ waypoints_active' = TRUE
    /\ current_wp' = 0
    /\ trigger' = TRUE
    /\ \E ok \in BOOLEAN :
          /\ planGlobalTo(1, ok)
          /\ exec_state' = IF ok THEN "GEN_NEW_TRAJ" ELSE exec_state

\* odometryCallback; the first message starts a preset mission.
odometryCallback ==
    /\ ~have_odom
    /\ have_odom' = TRUE
    /\ \/ /\ navi_mode # "PRESET_TARGET"
          /\ UNCHANGED <<exec_state, goalVars, missionVars, trigger>>
       \/ /\ navi_mode = "PRESET_TARGET"
          /\ preset_started' = TRUE
          /\ planGlobalTrajbyGivenWps
          /\ UNCHANGED navi_mode
    /\ UNCHANGED <<trajVars, stopVars, go2_execution_frozen, since_exec>>

\* A later message: the robot may have come near its target, or left it.
odometryUpdate ==
    /\ have_odom
    /\ navi_mode = "PRESET_TARGET"
    /\ end_pt # NoTarget
    /\ near_target' = ~near_target
    /\ UNCHANGED <<exec_state, have_target, end_pt, end_moved, global_traj, trajVars,
                   missionVars, stopVars, inputVars, trigger, since_exec>>

go2ExecutionFrozenCallback ==
    /\ go2_execution_frozen' = ~go2_execution_frozen
    /\ UNCHANGED <<exec_state, goalVars, trajVars, missionVars, stopVars, have_odom,
                   trigger, since_exec>>

-----------------------------------------------------------------------------
\* execFSMCallback, one action for each branch of its switch.

execInit ==
    /\ exec_state = "INIT"
    /\ have_odom /\ trigger
    /\ finishProcess(replan_fail_count, "WAIT_TARGET", flag_escape_emergency,
                     need_hover_stop)
    /\ execSameTraj
    /\ UNCHANGED <<goalVars, missionVars, inputVars, trigger>>

execWaitTarget ==
    /\ exec_state = "WAIT_TARGET"
    /\ have_target
    /\ finishProcess(replan_fail_count, "GEN_NEW_TRAJ", flag_escape_emergency,
                     need_hover_stop)
    /\ execSameTraj
    /\ UNCHANGED <<goalVars, missionVars, inputVars, trigger>>

\* Variant: failures of a new trajectory are not counted.
execGenNewTraj_NotCounted(ok) ==
    /\ exec_state = "GEN_NEW_TRAJ"
    /\ callReboundReplan(ok)
    /\ \/ ok /\ finishProcess(0, "EXEC_TRAJ", TRUE, need_hover_stop)
       \/ ~ok /\ finishProcess(replan_fail_count, "GEN_NEW_TRAJ",
                               flag_escape_emergency, need_hover_stop)
    /\ since_exec' = 0
    /\ UNCHANGED <<targetVars, missionVars, inputVars, trigger>>

execGenNewTraj(ok) ==
    /\ exec_state = "GEN_NEW_TRAJ"
    /\ callReboundReplan(ok)
    /\ \/ ok /\ finishProcess(0, "EXEC_TRAJ", TRUE, need_hover_stop)
       \/ ~ok /\ finishProcess(replan_fail_count + 1, "GEN_NEW_TRAJ",
                               flag_escape_emergency, need_hover_stop)
    /\ since_exec' = 0
    /\ UNCHANGED <<targetVars, missionVars, inputVars, trigger>>

execReplanTraj(ok) ==
    /\ exec_state = "REPLAN_TRAJ"
    /\ planFromCurrentTraj(ok)
    /\ finishProcess(IF ok THEN 0 ELSE replan_fail_count + 1,
                     IF ok THEN "EXEC_TRAJ" ELSE "REPLAN_TRAJ",
                     flag_escape_emergency, need_hover_stop)
    /\ since_exec' = 0
    /\ UNCHANGED <<missionVars, inputVars, trigger>>

Finished == Progress = Duration

\* Variant: one waypoint too many.
MoreWaypoints_OffByOne ==
    navi_mode = "PRESET_TARGET" /\ waypoints_active /\ current_wp + 1 <= NumTargets

\* A preset mission has waypoints after the current one.
MoreWaypoints ==
    navi_mode = "PRESET_TARGET" /\ waypoints_active /\ current_wp + 1 < NumTargets

\* EXEC_TRAJ, the current preset waypoint is near or the trajectory is over: planNextWaypoint.
\* The step returns before finishProcess.
execNextWaypoint(ok) ==
    /\ exec_state = "EXEC_TRAJ"
    /\ MoreWaypoints
    /\ near_target \/ Finished
    /\ current_wp' = current_wp + 1
    /\ planGlobalTo(current_wp + 2, ok)
    /\ replan_fail_count' = IF ok THEN replan_fail_count ELSE replan_fail_count + 1
    /\ exec_state' = "GEN_NEW_TRAJ"
    /\ execSameTraj
    /\ UNCHANGED <<navi_mode, preset_started, waypoints_active, flag_escape_emergency,
                   need_hover_stop, inputVars, trigger>>

\* EXEC_TRAJ, the trajectory is over and no waypoint is left: the target is dropped.
execFinish ==
    /\ exec_state = "EXEC_TRAJ"
    /\ ~MoreWaypoints
    /\ Finished
    /\ \/ /\ navi_mode = "PRESET_TARGET"
          /\ waypoints_active' = FALSE
          /\ current_wp' = 0
       \/ /\ navi_mode # "PRESET_TARGET"
          /\ UNCHANGED <<waypoints_active, current_wp>>
    /\ have_target' = FALSE
    /\ exec_state' = "WAIT_TARGET"
    /\ execSameTraj
    /\ UNCHANGED <<navi_mode, preset_started, end_pt, global_traj, near_target, end_moved, stopVars,
                   inputVars, trigger>>

NearStart == local.long => Progress < AwayAt

\* Variant: no replanning on the way.
execUnderWay_NeverReplans ==
    /\ exec_state = "EXEC_TRAJ"
    /\ ~Finished
    /\ ~(MoreWaypoints /\ near_target)
    /\ execSameTraj
    /\ UNCHANGED <<exec_state, goalVars, missionVars, stopVars, inputVars, trigger>>

\* EXEC_TRAJ on the way: nothing to do near the start of the trajectory or near end_pt_,
\* which a final trajectory comes near, and any trajectory once end_pt_ is another one ...
execUnderWay ==
    /\ exec_state = "EXEC_TRAJ"
    /\ ~Finished
    /\ ~(MoreWaypoints /\ near_target)
    /\ local.final \/ end_moved \/ NearStart
    /\ execSameTraj
    /\ UNCHANGED <<exec_state, goalVars, missionVars, stopVars, inputVars, trigger>>

\* ... and a new trajectory in between.
execStartReplan ==
    /\ exec_state = "EXEC_TRAJ"
    /\ ~Finished
    /\ ~(MoreWaypoints /\ near_target)
    /\ ~NearStart
    /\ finishProcess(replan_fail_count, "REPLAN_TRAJ", flag_escape_emergency,
                     need_hover_stop)
    /\ execSameTraj
    /\ UNCHANGED <<goalVars, missionVars, inputVars, trigger>>

\* EMERGENCY_STOP with the escape flag: the stop is published once.
execEmergencyEscape ==
    /\ exec_state = "EMERGENCY_STOP"
    /\ flag_escape_emergency
    /\ callEmergencyStop
    /\ finishProcess(replan_fail_count, "EMERGENCY_STOP", FALSE, need_hover_stop)
    /\ since_exec' = 0
    /\ UNCHANGED <<goalVars, missionVars, inputVars, trigger>>

\* EMERGENCY_STOP without it: once the robot is slow, plan again or wait for a new target.
execEmergencyExit ==
    /\ exec_state = "EMERGENCY_STOP"
    /\ ~flag_escape_emergency
    /\ FailSafe
    /\ \/ /\ ~need_hover_stop
          /\ finishProcess(replan_fail_count, "GEN_NEW_TRAJ", FALSE, FALSE)
          /\ UNCHANGED <<have_target, trigger>>
       \/ /\ need_hover_stop
          /\ have_target' = FALSE
          /\ trigger' = FALSE
          /\ finishProcess(replan_fail_count, "WAIT_TARGET", FALSE, FALSE)
    /\ execSameTraj
    /\ UNCHANGED <<end_pt, global_traj, near_target, end_moved, missionVars, inputVars>>

\* EMERGENCY_STOP without it, for a robot that is still moving or without fail-safe.
execEmergencyHold ==
    /\ exec_state = "EMERGENCY_STOP"
    /\ ~flag_escape_emergency
    /\ finishProcess(replan_fail_count, "EMERGENCY_STOP", FALSE, need_hover_stop)
    /\ execSameTraj
    /\ UNCHANGED <<goalVars, missionVars, inputVars, trigger>>

\* The early returns: nothing to start from in INIT, no target in WAIT_TARGET.
execIdle ==
    /\ \/ exec_state = "INIT" /\ ~(have_odom /\ trigger)
       \/ exec_state = "WAIT_TARGET" /\ ~have_target
    /\ execSameTraj
    /\ UNCHANGED <<exec_state, goalVars, missionVars, stopVars, inputVars, trigger>>

execFSMCallback ==
    \/ execInit
    \/ execWaitTarget
    \/ \E ok \in BOOLEAN : execGenNewTraj(ok)
    \/ \E ok \in BOOLEAN : execReplanTraj(ok)
    \/ \E ok \in BOOLEAN : execNextWaypoint(ok)
    \/ execFinish
    \/ execUnderWay
    \/ execStartReplan
    \/ execEmergencyEscape
    \/ execEmergencyExit
    \/ execEmergencyHold
    \/ execIdle

-----------------------------------------------------------------------------
\* The samples of the trajectory that checkCollisionCallback looks at.
CheckedTimes ==
    {t \in Progress..(Duration - 1) : 3 * Progress < 2 * Duration => 3 * t < 2 * Duration}

\* Variant: the check also runs in WAIT_TARGET.
SafetyOff_NeverWaiting == local.kind = "none"

\* checkCollisionCallback returns at once in these cases.
SafetyOff == exec_state = "WAIT_TARGET" \/ local.kind = "none"

\* The first colliding sample is at time hit; a stop stays in one place.
checkCollisionCallback(hit, ok) ==
    /\ ~SafetyOff
    /\ local.kind = "stop" => hit = Progress
    /\ planFromCurrentTraj(ok)
    /\ exec_state' = CASE ok -> "EXEC_TRAJ"
                       [] ~ok /\ hit - Progress < EmergencyTime -> "EMERGENCY_STOP"
                       [] OTHER -> "REPLAN_TRAJ"
    /\ UNCHANGED <<missionVars, stopVars, inputVars, trigger, since_exec>>

\* It returns at once, or finds no collision.
checkNoCollision ==
    /\ updateLocalTrajTimeFreeze
    /\ UNCHANGED <<exec_state, goalVars, local, missionVars, stopVars, inputVars, trigger,
                   since_exec>>

\* A tick of 10 ms, while neither the timer nor the update is more than MaxLate late.
Elapse ==
    /\ since_exec < MaxLate /\ since_freeze < MaxLate
    /\ since_exec' = since_exec + 1
    /\ since_freeze' = since_freeze + 1
    /\ UNCHANGED <<exec_state, goalVars, local, t_cur, missionVars, stopVars, inputVars,
                   trigger>>

Next ==
    \/ \E t \in Targets, ok \in BOOLEAN : targetCallback(t, ok)
    \/ \E t \in Targets : shortPathCallback(t)
    \/ odometryCallback
    \/ odometryUpdate
    \/ go2ExecutionFrozenCallback
    \/ execFSMCallback
    \/ \E hit \in CheckedTimes, ok \in BOOLEAN : checkCollisionCallback(hit, ok)
    \/ checkNoCollision
    \/ Elapse

Spec == Init /\ [][Next]_vars

\* The executor serves the 10 ms timer and time passes.  Freezes end (FreezesEnd of
\* LocalPlanner), and neither the timer nor the tick nor the count of the time between them
\* always waits for the next one.  A robot that is told to stop slows down.
FairSpec ==
    /\ Spec
    /\ WF_vars(execFSMCallback)
    /\ []<>(since_exec = 0 /\ ~go2_execution_frozen)
    /\ SF_vars(Elapse /\ ~go2_execution_frozen)
    /\ SF_vars(execFSMCallback /\ ~go2_execution_frozen /\ since_freeze > 0)
    /\ SF_vars(execEmergencyExit)

-----------------------------------------------------------------------------
\* Every variable keeps its type (members of scan_replan_fsm.h).
TypeOK ==
    /\ navi_mode \in Modes
    /\ exec_state \in State
    /\ have_odom \in BOOLEAN /\ trigger \in BOOLEAN /\ have_target \in BOOLEAN
    /\ flag_escape_emergency \in BOOLEAN /\ need_hover_stop \in BOOLEAN
    /\ replan_fail_count \in Nat
    /\ go2_execution_frozen \in BOOLEAN
    /\ preset_started \in BOOLEAN /\ waypoints_active \in BOOLEAN
    /\ current_wp \in 0..(NumTargets - 1)
    /\ end_pt \in Targets \cup {NoTarget} /\ global_traj \in Targets \cup {NoTarget}
    /\ local \in Trajectory
    /\ end_moved \in BOOLEAN /\ near_target \in BOOLEAN
    /\ t_cur \in (1 - MaxLate)..Duration
    /\ since_freeze \in 0..MaxLate /\ since_exec \in 0..MaxLate

\* The machine never plans or follows anything without a target to go to: neither the
\* safety timer nor an emergency brings it back to work after the target was dropped.
\* (A preset mission counts blocked waypoints without finishProcess; the late emergency may
\* then meet a safety check that resumes the mission after its target was dropped.)
WorkHasTarget ==
    navi_mode # "PRESET_TARGET" /\ exec_state \in {"GEN_NEW_TRAJ", "REPLAN_TRAJ", "EXEC_TRAJ"}
        => have_target /\ global_traj # NoTarget

\* planFromCurrentTraj and EXEC_TRAJ read local_data_ without a check: it exists by then,
\* and what EXEC_TRAJ follows was planned and is not a stop.
TrajectoryExists ==
    /\ exec_state = "EXEC_TRAJ" => local.kind = "plan"
    /\ exec_state = "REPLAN_TRAJ" => local.kind # "none"

\* A preset mission heads for its current waypoint, also when that one is blocked.
HeadsForCurrentWaypoint == waypoints_active => end_pt = current_wp + 1

\* EXEC_TRAJ takes the end of the local trajectory for the arrival.  A trajectory that
\* leaves its start and stops short of the target is replanned before it ends, however late
\* the timer runs (AwayAt leaves it MaxLate ticks), so the target is given up only at the
\* target or on a trajectory shorter than replan_thresh_.  The exception is a target that
\* was rejected on the way: it has replaced end_pt_ all the same, and a trajectory that
\* passes near the rejected point is followed to its end.
TargetKept ==
    [][exec_state = "EXEC_TRAJ" /\ exec_state' = "WAIT_TARGET"
        => local.final \/ ~local.long \/ end_moved]_vars

\* For the controller the machine is a source of trajectories and a clock: whatever state it
\* is in, only callReboundReplan and callEmergencyStop change the trajectory, each run of
\* either timer counts the time since the last one, or nothing of it if the robot is frozen,
\* and EXEC_TRAJ goes over to WAIT_TARGET only at the end of the trajectory.
Clock == INSTANCE TrajectoryClock WITH
    Trajectory <- {"plan", "stop"}, NoTrajectory <- "none",
    exec_state <- IF exec_state \in {"WAIT_TARGET", "EXEC_TRAJ"} THEN exec_state ELSE "OTHER",
    local <- local.kind

ClockSpec == Clock!Spec

\* Planning does not fail forever: it succeeds, or max_replan_fail_count_ failures end in a
\* stop and in WAIT_TARGET, whatever the safety timer and new targets do meanwhile.
GivesUp ==
    exec_state \in {"GEN_NEW_TRAJ", "REPLAN_TRAJ", "EMERGENCY_STOP"}
        ~> exec_state \in {"EXEC_TRAJ", "WAIT_TARGET"}

\* "The robot can stop when its path is blocked": in EMERGENCY_STOP a stop has been
\* published or is about to be.  The escape flag is set again only by GEN_NEW_TRAJ and by
\* finishProcess, so an emergency that the safety timer ended leaves the next one without.
EmergencyStopsRobot ==
    exec_state = "EMERGENCY_STOP" => flag_escape_emergency \/ local.kind = "stop"
================================================================================
