---------------------------- MODULE ReplanFSMProofs ----------------------------
(***************************************************************************)
(* Proofs about ReplanFSM for every set of modes, number of targets,       *)
(* failure limit, trajectory length and lateness of the timers.            *)
(***************************************************************************)
EXTENDS ReplanFSM, TLAPS

\* The parameters and the set of trajectory records, as facts the provers can use.
LEMMA TrajectoryFacts ==
    /\ NoTrajectory \in Trajectory
    /\ [kind |-> "stop", final |-> FALSE, long |-> FALSE] \in Trajectory
    /\ getLocalTarget \subseteq Trajectory
BY DEF Trajectory, NoTrajectory, getLocalTarget

\* The type of the local trajectory and of the place of the clock on it.
TrajTypeOK ==
    /\ local \in Trajectory
    /\ t_cur \in (1 - MaxLate)..Duration
    /\ since_freeze \in 0..MaxLate

\* An update moves the clock on by no more than the time since the last one.
LEMMA ProgressFacts ==
    ASSUME TrajTypeOK
    PROVE  /\ Progress \in (1 - MaxLate)..Duration
           /\ t_cur <= Progress /\ Progress <= t_cur + since_freeze
BY ReplanAssumption DEF ReplanAssumption, TrajTypeOK, Progress

\* Every way the two timers treat the local trajectory keeps its type.
LEMMA TrajTypeStep ==
    ASSUME TrajTypeOK,
           \/ updateLocalTrajTimeFreeze /\ UNCHANGED local
           \/ execSameTraj
           \/ \E ok \in BOOLEAN : callReboundReplan(ok)
           \/ callEmergencyStop
           \/ UNCHANGED trajVars
    PROVE  TrajTypeOK'
<1>0. MaxLate \in Nat /\ MaxLate > 0 /\ Duration \in Nat /\ 0 \in 0..MaxLate
      /\ 0 \in (1 - MaxLate)..Duration
  BY ReplanAssumption DEF ReplanAssumption
<1>1. CASE updateLocalTrajTimeFreeze /\ UNCHANGED local
  BY <1>0, <1>1, ProgressFacts DEF updateLocalTrajTimeFreeze, TrajTypeOK
<1>2. CASE execSameTraj
  BY <1>0, <1>2, ProgressFacts DEF execSameTraj, updateLocalTrajTimeFreeze, TrajTypeOK
<1>3. CASE newPlan
  <2>1. local' \in Trajectory
    BY <1>3, TrajectoryFacts DEF newPlan
  <2>2. PICK p \in 0..(MaxLate - 1) : t_cur' = 0 - p /\ since_freeze' = p
    BY <1>3 DEF newPlan
  <2>3. t_cur' \in (1 - MaxLate)..Duration /\ since_freeze' \in 0..MaxLate
    BY <1>0, <2>2
  <2>4. QED
    BY <2>1, <2>3 DEF TrajTypeOK
<1>4. ASSUME NEW ok \in BOOLEAN, callReboundReplan(ok) PROVE TrajTypeOK'
  BY <1>1, <1>3, <1>4 DEF callReboundReplan
<1>5. CASE callEmergencyStop
  BY <1>0, <1>5, TrajectoryFacts DEF callEmergencyStop, TrajTypeOK
<1>6. CASE UNCHANGED trajVars
  BY <1>6 DEF trajVars, TrajTypeOK
<1>7. QED
  BY <1>1, <1>2, <1>4, <1>5, <1>6

\* The type of what is neither the local trajectory nor a clock.
RestTypeOK ==
    /\ navi_mode \in Modes
    /\ exec_state \in State
    /\ have_odom \in BOOLEAN /\ trigger \in BOOLEAN /\ have_target \in BOOLEAN
    /\ flag_escape_emergency \in BOOLEAN /\ need_hover_stop \in BOOLEAN
    /\ replan_fail_count \in Nat
    /\ go2_execution_frozen \in BOOLEAN
    /\ preset_started \in BOOLEAN /\ waypoints_active \in BOOLEAN
    /\ current_wp \in 0..(NumTargets - 1)
    /\ end_pt \in Targets \cup {NoTarget} /\ global_traj \in Targets \cup {NoTarget}
    /\ end_moved \in BOOLEAN /\ near_target \in BOOLEAN

LEMMA TypeParts == TypeOK <=> RestTypeOK /\ TrajTypeOK /\ since_exec \in 0..MaxLate
BY DEF TypeOK, RestTypeOK, TrajTypeOK

\* Every step treats the local trajectory and the two clocks in one of a few ways.
LEMMA TrajStep ==
    ASSUME TypeOK, [Next]_vars
    PROVE  TrajTypeOK' /\ since_exec' \in 0..MaxLate
<1>0. /\ TrajTypeOK /\ since_exec \in 0..MaxLate /\ 0 \in 0..MaxLate
      /\ MaxLate \in Nat
  BY TypeParts, ReplanAssumption DEF ReplanAssumption
<1>1. CASE \/ \E t \in Targets, ok \in BOOLEAN : targetCallback(t, ok)
           \/ \E t \in Targets : shortPathCallback(t)
           \/ odometryCallback \/ odometryUpdate \/ go2ExecutionFrozenCallback
  <2>1. UNCHANGED trajVars /\ UNCHANGED since_exec
    BY <1>1 DEF targetCallback, shortPathCallback, odometryCallback, odometryUpdate,
                go2ExecutionFrozenCallback
  <2>2. QED
    BY <1>0, <2>1, TrajTypeStep
<1>2. CASE execFSMCallback
  <2>1. /\ \/ execSameTraj
           \/ \E ok \in BOOLEAN : callReboundReplan(ok)
           \/ callEmergencyStop
        /\ since_exec' = 0
    BY <1>2, Zenon
    DEF execFSMCallback, execInit, execWaitTarget, execGenNewTraj, execReplanTraj,
        planFromCurrentTraj, execNextWaypoint, execFinish, execUnderWay, execStartReplan,
        execEmergencyEscape, execEmergencyExit, execEmergencyHold, execIdle, execSameTraj
  <2>2. QED
    BY <1>0, <2>1, TrajTypeStep
<1>3. ASSUME NEW hit \in CheckedTimes, NEW ok \in BOOLEAN, checkCollisionCallback(hit, ok)
      PROVE  TrajTypeOK' /\ since_exec' \in 0..MaxLate
  <2>1. callReboundReplan(ok) /\ UNCHANGED since_exec
    BY <1>3 DEF checkCollisionCallback, planFromCurrentTraj
  <2>2. QED
    BY <1>0, <2>1, TrajTypeStep
<1>4. CASE checkNoCollision
  <2>1. updateLocalTrajTimeFreeze /\ UNCHANGED local /\ UNCHANGED since_exec
    BY <1>4 DEF checkNoCollision
  <2>2. QED
    BY <1>0, <2>1, TrajTypeStep
<1>5. CASE Elapse
  BY <1>0, <1>5 DEF Elapse, TrajTypeOK
<1>6. CASE UNCHANGED vars
  <2>1. UNCHANGED trajVars /\ UNCHANGED since_exec
    BY <1>6 DEF vars
  <2>2. QED
    BY <1>0, <2>1, TrajTypeStep
<1>7. QED
  BY <1>1, <1>2, <1>3, <1>4, <1>5, <1>6 DEF Next

\* Every variable of the state machine keeps its type.
THEOREM TypeCorrect == Spec => []TypeOK
<1>1. Init => TypeOK
  <2>1. /\ 0 \in Nat /\ 0 \in 0..(NumTargets - 1) /\ 0 \in 0..MaxLate
        /\ 0 \in (1 - MaxLate)..Duration
    BY ReplanAssumption DEF ReplanAssumption
  <2>2. QED
    BY <2>1, TrajectoryFacts DEF Init, TypeOK, State
<1>2. TypeOK /\ [Next]_vars => TypeOK'
  <2> SUFFICES ASSUME TypeOK, [Next]_vars PROVE RestTypeOK'
    BY TrajStep, TypeParts DEF TypeOK, RestTypeOK, TrajTypeOK
  <2>00. RestTypeOK
    BY TypeParts
  <2> USE <2>00 DEF RestTypeOK, State, goalVars, targetVars
  <2>0. ASSUME NEW t \in Targets, NEW ok \in BOOLEAN, planGlobalTo(t, ok)
        PROVE  /\ end_pt' \in Targets \cup {NoTarget}
               /\ global_traj' \in Targets \cup {NoTarget}
               /\ near_target' \in BOOLEAN /\ have_target' \in BOOLEAN /\ end_moved' \in BOOLEAN
    BY <2>0, Zenon DEF planGlobalTo
  <2>1. ASSUME NEW t \in Targets, NEW ok \in BOOLEAN, targetCallback(t, ok)
        PROVE  RestTypeOK'
    <3>1. exec_state' \in State
      BY <2>1, Zenon DEF targetCallback, onTarget
    <3>2. /\ end_pt' \in Targets \cup {NoTarget} /\ global_traj' \in Targets \cup {NoTarget}
          /\ near_target' \in BOOLEAN /\ have_target' \in BOOLEAN /\ end_moved' \in BOOLEAN
      BY <2>0, <2>1 DEF targetCallback
    <3>3. QED
      BY <2>1, <3>1, <3>2 DEF targetCallback, missionVars, stopVars, inputVars
  <2>2. ASSUME NEW t \in Targets, shortPathCallback(t) PROVE RestTypeOK'
    BY <2>2 DEF shortPathCallback, missionVars, stopVars, inputVars
  <2>3. CASE odometryCallback
    <3>1. 1 \in Targets /\ 0 \in 0..(NumTargets - 1)
      BY ReplanAssumption DEF ReplanAssumption, Targets
    <3>2. CASE navi_mode # "PRESET_TARGET"
      BY <2>3, <3>2 DEF odometryCallback, missionVars, stopVars
    <3>3. CASE navi_mode = "PRESET_TARGET"
      <4>1. PICK ok \in BOOLEAN :
               /\ planGlobalTo(1, ok)
               /\ exec_state' = IF ok THEN "GEN_NEW_TRAJ" ELSE exec_state
        BY <2>3, <3>3 DEF odometryCallback, planGlobalTrajbyGivenWps
      <4>2. /\ end_pt' \in Targets \cup {NoTarget}
            /\ global_traj' \in Targets \cup {NoTarget}
            /\ near_target' \in BOOLEAN /\ have_target' \in BOOLEAN /\ end_moved' \in BOOLEAN
        BY <2>0, <3>1, <4>1
      <4>3. exec_state' \in State
        BY <4>1
      <4>4. QED
        BY <2>3, <3>1, <3>3, <4>2, <4>3
        DEF odometryCallback, planGlobalTrajbyGivenWps, stopVars
    <3>4. QED
      BY <3>2, <3>3, Zenon
  <2>4. CASE odometryUpdate
    BY <2>4 DEF odometryUpdate, missionVars, stopVars, inputVars
  <2>5. CASE go2ExecutionFrozenCallback
    BY <2>5 DEF go2ExecutionFrozenCallback, missionVars, stopVars
  <2>6. CASE execFSMCallback
    <3>1. ASSUME NEW c \in Nat, NEW st \in State, NEW e \in BOOLEAN, NEW h \in BOOLEAN,
                 finishProcess(c, st, e, h)
          PROVE  /\ replan_fail_count' \in Nat /\ exec_state' \in State
                 /\ flag_escape_emergency' \in BOOLEAN /\ need_hover_stop' \in BOOLEAN
      <4>1. 0 \in Nat
        OBVIOUS
      <4>2. QED
        BY <3>1, <4>1, Zenon DEF finishProcess
    <3>2. ASSUME NEW ok \in BOOLEAN, callReboundReplan(ok)
          PROVE  end_moved' \in BOOLEAN
      BY <3>2 DEF callReboundReplan, newPlan
    <3>3. CASE execInit
      <4>1. finishProcess(replan_fail_count, "WAIT_TARGET", flag_escape_emergency,
                          need_hover_stop)
        BY <3>3 DEF execInit
      <4>2. QED
        BY <3>1, <3>3, <4>1 DEF execInit, missionVars, inputVars
    <3>4. CASE execWaitTarget
      <4>1. finishProcess(replan_fail_count, "GEN_NEW_TRAJ", flag_escape_emergency,
                          need_hover_stop)
        BY <3>4 DEF execWaitTarget
      <4>2. QED
        BY <3>1, <3>4, <4>1 DEF execWaitTarget, missionVars, inputVars
    <3>5. ASSUME NEW ok \in BOOLEAN, execGenNewTraj(ok) PROVE RestTypeOK'
      <4>1. /\ replan_fail_count' \in Nat /\ exec_state' \in State
            /\ flag_escape_emergency' \in BOOLEAN /\ need_hover_stop' \in BOOLEAN
        <5>1. CASE finishProcess(0, "EXEC_TRAJ", TRUE, need_hover_stop)
          BY <3>1, <5>1
        <5>2. CASE finishProcess(replan_fail_count + 1, "GEN_NEW_TRAJ",
                                 flag_escape_emergency, need_hover_stop)
          BY <3>1, <5>2
        <5>3. QED
          BY <3>5, <5>1, <5>2 DEF execGenNewTraj
      <4>2. QED
        BY <3>2, <3>5, <4>1 DEF execGenNewTraj, missionVars, inputVars
    <3>6. ASSUME NEW ok \in BOOLEAN, execReplanTraj(ok) PROVE RestTypeOK'
      <4>1. finishProcess(IF ok THEN 0 ELSE replan_fail_count + 1,
                          IF ok THEN "EXEC_TRAJ" ELSE "REPLAN_TRAJ",
                          flag_escape_emergency, need_hover_stop)
        BY <3>6 DEF execReplanTraj
      <4>2. QED
        BY <3>1, <3>2, <3>6, <4>1
        DEF execReplanTraj, planFromCurrentTraj, missionVars, inputVars
    <3>7. ASSUME NEW ok \in BOOLEAN, execNextWaypoint(ok) PROVE RestTypeOK'
      <4>1. current_wp + 1 \in 0..(NumTargets - 1) /\ current_wp + 2 \in Targets
        BY <3>7, ReplanAssumption
        DEF execNextWaypoint, MoreWaypoints, Targets, ReplanAssumption
      <4>2. QED
        BY <2>0, <3>7, <4>1 DEF execNextWaypoint, inputVars
    <3>8. CASE execFinish
      <4>1. 0 \in 0..(NumTargets - 1)
        BY ReplanAssumption DEF ReplanAssumption
      <4>2. QED
        BY <3>8, <4>1 DEF execFinish, stopVars, inputVars
    <3>9. CASE execUnderWay
      BY <3>9 DEF execUnderWay, missionVars, stopVars, inputVars
    <3>10. CASE execStartReplan
      <4>1. finishProcess(replan_fail_count, "REPLAN_TRAJ", flag_escape_emergency,
                          need_hover_stop)
        BY <3>10 DEF execStartReplan
      <4>2. QED
        BY <3>1, <3>10, <4>1
        DEF execStartReplan, missionVars, inputVars
    <3>11. CASE execEmergencyEscape
      <4>1. finishProcess(replan_fail_count, "EMERGENCY_STOP", FALSE, need_hover_stop)
        BY <3>11 DEF execEmergencyEscape
      <4>2. QED
        BY <3>1, <3>11, <4>1 DEF execEmergencyEscape, missionVars, inputVars
    <3>12. CASE execEmergencyExit
      <4>1. \/ finishProcess(replan_fail_count, "GEN_NEW_TRAJ", FALSE, FALSE)
            \/ finishProcess(replan_fail_count, "WAIT_TARGET", FALSE, FALSE)
        BY <3>12 DEF execEmergencyExit
      <4>2. QED
        BY <3>1, <3>12, <4>1 DEF execEmergencyExit, missionVars, inputVars
    <3>13. CASE execEmergencyHold
      <4>1. finishProcess(replan_fail_count, "EMERGENCY_STOP", FALSE, need_hover_stop)
        BY <3>13 DEF execEmergencyHold
      <4>2. QED
        BY <3>1, <3>13, <4>1
        DEF execEmergencyHold, missionVars, inputVars
    <3>14. CASE execIdle
      BY <3>14 DEF execIdle, missionVars, stopVars, inputVars
    <3>15. QED
      BY <2>6, <3>3, <3>4, <3>5, <3>6, <3>7, <3>8, <3>9, <3>10, <3>11, <3>12, <3>13, <3>14
      DEF execFSMCallback
  <2>7. ASSUME NEW hit \in CheckedTimes, NEW ok \in BOOLEAN,
               checkCollisionCallback(hit, ok)
        PROVE  RestTypeOK'
    <3>1. end_moved' \in BOOLEAN
      BY <2>7 DEF checkCollisionCallback, planFromCurrentTraj, callReboundReplan, newPlan
    <3>2. QED
      BY <2>7, <3>1 DEF checkCollisionCallback, planFromCurrentTraj, missionVars, stopVars,
                        inputVars
  <2>8. CASE checkNoCollision \/ Elapse
    BY <2>8 DEF checkNoCollision, Elapse, missionVars, stopVars, inputVars
  <2>9. CASE UNCHANGED vars
    BY <2>9 DEF vars, missionVars, stopVars, inputVars
  <2>10. QED
    BY <2>1, <2>2, <2>3, <2>4, <2>5, <2>6, <2>7, <2>8, <2>9 DEF Next
<1>3. QED
  BY <1>1, <1>2, PTL DEF Spec

-----------------------------------------------------------------------------
Active == {"GEN_NEW_TRAJ", "REPLAN_TRAJ", "EXEC_TRAJ", "EMERGENCY_STOP"}

\* Why a target is there: a target always comes with an end point and a global trajectory;
\* the count of failures never waits at its limit, so the exit to WAIT_TARGET, which drops
\* the target, is not turned into another emergency.
TargetInv ==
    /\ have_target => end_pt # NoTarget /\ global_traj # NoTarget
    /\ exec_state = "INIT" => local.kind = "none"
    /\ navi_mode # "PRESET_TARGET" =>
          /\ replan_fail_count < MaxFail
          /\ exec_state \in Active => have_target

\* Why a trajectory is there, and why one that stops short is not followed to its end: the
\* last run of the state machine left the robot within replan_thresh_ of its start, and
\* since then the clock has gone on by no more than the time that has passed.
TrajectoryInv ==
    /\ TrajectoryExists
    /\ exec_state = "EXEC_TRAJ" /\ local.long /\ ~local.final /\ ~end_moved =>
          t_cur + since_freeze <= AwayAt - 1 + since_exec

SafetyInv == TargetInv /\ TrajectoryInv

\* What a step of the planner leaves behind when it succeeds.
LEMMA NewPlanFacts ==
    ASSUME newPlan
    PROVE  local'.kind = "plan" /\ t_cur' + since_freeze' = 0 /\ t_cur' <= 0
<1>1. PICK p \in 0..(MaxLate - 1) : t_cur' = 0 - p /\ since_freeze' = p
  BY DEF newPlan
<1>2. t_cur' + since_freeze' = 0 /\ t_cur' <= 0
  BY <1>1, ReplanAssumption DEF ReplanAssumption
<1>3. QED
  BY <1>2 DEF newPlan, getLocalTarget

\* An update brings the clock no further than the time that has passed.
LEMMA UpdateFacts ==
    ASSUME TypeOK, updateLocalTrajTimeFreeze
    PROVE  /\ t_cur' = Progress /\ since_freeze' = 0 /\ Progress \in Int
           /\ \A x \in Int : t_cur + since_freeze <= x => t_cur' + since_freeze' <= x
<1>1. Progress \in (1 - MaxLate)..Duration /\ Progress <= t_cur + since_freeze
  BY ProgressFacts, TypeParts
<1>2. t_cur \in Int /\ since_freeze \in Int
  BY ReplanAssumption DEF TypeOK, ReplanAssumption
<1>3. QED
  BY <1>1, <1>2, ReplanAssumption DEF updateLocalTrajTimeFreeze, ReplanAssumption

\* finishProcess leaves the count below its limit and keeps the state or stops.
LEMMA FinishFacts ==
    ASSUME NEW c \in Nat, NEW st \in State, NEW e, NEW h, finishProcess(c, st, e, h)
    PROVE  /\ replan_fail_count' < MaxFail
           /\ exec_state' \in {st, "EMERGENCY_STOP"}
           /\ c < MaxFail => exec_state' = st
BY ReplanAssumption DEF finishProcess, ReplanAssumption

\* The mode is read once.
LEMMA ModeFixed == [Next]_vars => navi_mode' = navi_mode
BY DEF Next, vars, missionVars, execFSMCallback, targetCallback, shortPathCallback,
       odometryCallback, odometryUpdate, go2ExecutionFrozenCallback, execInit,
       execWaitTarget, execGenNewTraj, execReplanTraj, execNextWaypoint, execFinish,
       execUnderWay, execStartReplan, execEmergencyEscape, execEmergencyExit,
       execEmergencyHold, execIdle, checkCollisionCallback, checkNoCollision, Elapse

LEMMA SafetyStep == TypeOK /\ SafetyInv /\ [Next]_vars => SafetyInv'
<1> SUFFICES ASSUME TypeOK, SafetyInv, [Next]_vars PROVE SafetyInv'
  OBVIOUS
<1> USE DEF SafetyInv, TargetInv, TrajectoryInv, TrajectoryExists, Active, goalVars,
            targetVars, trajVars
<1>0. /\ replan_fail_count \in Nat /\ exec_state \in State
      /\ t_cur \in Int /\ since_freeze \in Int /\ since_exec \in 0..MaxLate
      /\ AwayAt \in Int /\ AwayAt > 0 /\ MaxLate \in Nat /\ MaxFail \in Nat /\ MaxFail > 0
      /\ \A t \in Targets : t # NoTarget
      /\ navi_mode' = navi_mode
  BY ReplanAssumption, ModeFixed DEF TypeOK, ReplanAssumption, Targets, NoTarget
<1>1. ASSUME NEW t \in Targets, NEW ok \in BOOLEAN, targetCallback(t, ok)
      PROVE  SafetyInv'
  BY <1>0, <1>1 DEF targetCallback, planGlobalTo, onTarget, stopVars
<1>2. ASSUME NEW t \in Targets, shortPathCallback(t) PROVE SafetyInv'
  BY <1>0, <1>2 DEF shortPathCallback, stopVars
<1>3. CASE odometryCallback
  <2>1. CASE navi_mode # "PRESET_TARGET"
    BY <1>0, <1>3, <2>1 DEF odometryCallback, stopVars
  <2>2. CASE navi_mode = "PRESET_TARGET"
    BY <1>0, <1>3, <2>2, ReplanAssumption
    DEF odometryCallback, planGlobalTrajbyGivenWps, planGlobalTo, stopVars, Targets,
        ReplanAssumption
  <2>3. QED
    BY <2>1, <2>2
<1>4. CASE odometryUpdate
  BY <1>0, <1>4 DEF odometryUpdate, stopVars
<1>5. CASE go2ExecutionFrozenCallback
  BY <1>0, <1>5 DEF go2ExecutionFrozenCallback, stopVars
<1>6. CASE execInit
  BY <1>0, <1>6, FinishFacts DEF execInit, execSameTraj, State
<1>7. CASE execWaitTarget
  BY <1>0, <1>7, FinishFacts DEF execWaitTarget, execSameTraj, State
<1>8. ASSUME NEW ok \in BOOLEAN, execGenNewTraj(ok) PROVE SafetyInv'
  <2>1. CASE ok
    <3>1. newPlan /\ finishProcess(0, "EXEC_TRAJ", TRUE, need_hover_stop)
      BY <1>8, <2>1 DEF execGenNewTraj, callReboundReplan
    <3>2. replan_fail_count' < MaxFail /\ exec_state' \in {"EXEC_TRAJ", "EMERGENCY_STOP"}
      BY <3>1, FinishFacts DEF State
    <3>3. since_exec' = 0
      BY <1>8 DEF execGenNewTraj
    <3>4. local'.kind = "plan" /\ t_cur' + since_freeze' <= AwayAt - 1 + since_exec'
      BY <1>0, <3>1, <3>3, NewPlanFacts
    <3>5. QED
      BY <1>0, <1>8, <3>2, <3>4 DEF execGenNewTraj
  <2>2. CASE ~ok
    <3>1. UNCHANGED local
      BY <1>8, <2>2 DEF execGenNewTraj, callReboundReplan
    <3>2. /\ replan_fail_count' < MaxFail
          /\ exec_state' \in {"GEN_NEW_TRAJ", "EMERGENCY_STOP"}
      <4>1. finishProcess(replan_fail_count + 1, "GEN_NEW_TRAJ", flag_escape_emergency,
                          need_hover_stop)
        BY <1>8, <2>2 DEF execGenNewTraj
      <4>2. QED
        BY <1>0, <4>1, FinishFacts DEF State
    <3>3. QED
      BY <1>0, <1>8, <3>1, <3>2 DEF execGenNewTraj
  <2>3. QED
    BY <2>1, <2>2
<1>9. ASSUME NEW ok \in BOOLEAN, execReplanTraj(ok) PROVE SafetyInv'
  <2>1. /\ replan_fail_count' < MaxFail
        /\ exec_state' \in {IF ok THEN "EXEC_TRAJ" ELSE "REPLAN_TRAJ", "EMERGENCY_STOP"}
    <3>1. finishProcess(IF ok THEN 0 ELSE replan_fail_count + 1,
                        IF ok THEN "EXEC_TRAJ" ELSE "REPLAN_TRAJ",
                        flag_escape_emergency, need_hover_stop)
      BY <1>9 DEF execReplanTraj
    <3>2. QED
      BY <1>0, <3>1, FinishFacts DEF State
  <2>2. CASE ok
    <3>1. newPlan /\ since_exec' = 0
      BY <1>9, <2>2 DEF execReplanTraj, planFromCurrentTraj, callReboundReplan
    <3>2. local'.kind = "plan" /\ t_cur' + since_freeze' <= AwayAt - 1 + since_exec'
      BY <1>0, <3>1, NewPlanFacts
    <3>3. QED
      BY <1>0, <1>9, <2>1, <2>2, <3>2 DEF execReplanTraj, planFromCurrentTraj
  <2>3. CASE ~ok
    BY <1>0, <1>9, <2>1, <2>3 DEF execReplanTraj, planFromCurrentTraj, callReboundReplan
  <2>4. QED
    BY <2>2, <2>3
<1>10. ASSUME NEW ok \in BOOLEAN, execNextWaypoint(ok) PROVE SafetyInv'
  <2>1. current_wp + 2 # NoTarget
    BY DEF TypeOK, NoTarget
  <2>2. QED
    BY <1>0, <1>10, <2>1 DEF execNextWaypoint, MoreWaypoints, planGlobalTo, execSameTraj
<1>11. CASE execFinish
  BY <1>0, <1>11 DEF execFinish, execSameTraj, stopVars
<1>12. CASE execUnderWay
  <2>1. /\ exec_state' = exec_state /\ local' = local /\ since_exec' = 0
        /\ end_moved' = end_moved
        /\ updateLocalTrajTimeFreeze
        /\ local.final \/ end_moved \/ NearStart
        /\ UNCHANGED <<have_target, end_pt, global_traj, stopVars>>
    BY <1>12 DEF execUnderWay, execSameTraj
  <2>2. t_cur' = Progress /\ since_freeze' = 0 /\ Progress \in Int
    BY <2>1, UpdateFacts
  <2>3. local.long /\ ~local.final /\ ~end_moved
          => t_cur' + since_freeze' <= AwayAt - 1 + since_exec'
    BY <1>0, <2>1, <2>2 DEF NearStart
  <2>4. QED
    BY <1>0, <2>1, <2>3 DEF stopVars
<1>13. CASE execStartReplan
  BY <1>0, <1>13, FinishFacts DEF execStartReplan, execSameTraj, State
<1>14. CASE execEmergencyEscape
  BY <1>0, <1>14, FinishFacts DEF execEmergencyEscape, callEmergencyStop, State
<1>15. CASE execEmergencyExit
  <2>1. CASE ~need_hover_stop
    <3>1. /\ replan_fail_count' < MaxFail
          /\ exec_state' \in {"GEN_NEW_TRAJ", "EMERGENCY_STOP"}
      BY <1>0, <1>15, <2>1, FinishFacts DEF execEmergencyExit, State
    <3>2. exec_state = "EMERGENCY_STOP" /\ have_target' = have_target
      BY <1>15, <2>1 DEF execEmergencyExit
    <3>3. UNCHANGED <<end_pt, global_traj, local>>
      BY <1>15 DEF execEmergencyExit, execSameTraj
    <3>4. QED
      BY <1>0, <3>1, <3>2, <3>3
  <2>2. CASE need_hover_stop
    <3>1. /\ replan_fail_count' < MaxFail
          /\ exec_state' \in {"WAIT_TARGET", "EMERGENCY_STOP"}
          /\ replan_fail_count < MaxFail => exec_state' = "WAIT_TARGET"
      BY <1>0, <1>15, <2>2, FinishFacts DEF execEmergencyExit, State
    <3>2. QED
      BY <1>0, <1>15, <2>2, <3>1 DEF execEmergencyExit, execSameTraj
  <2>3. QED
    BY <2>1, <2>2
<1>16. CASE execEmergencyHold
  BY <1>0, <1>16, FinishFacts DEF execEmergencyHold, execSameTraj, State
<1>17. CASE execIdle
  BY <1>0, <1>17 DEF execIdle, execSameTraj, stopVars
<1>18. ASSUME NEW hit \in CheckedTimes, NEW ok \in BOOLEAN,
              checkCollisionCallback(hit, ok)
       PROVE  SafetyInv'
  <2>1. /\ ok => exec_state' = "EXEC_TRAJ"
        /\ ~ok => exec_state' \in {"EMERGENCY_STOP", "REPLAN_TRAJ"}
    BY <1>18, Zenon DEF checkCollisionCallback
  <2>2. /\ exec_state # "WAIT_TARGET" /\ local.kind # "none"
        /\ planFromCurrentTraj(ok)
        /\ UNCHANGED stopVars /\ UNCHANGED since_exec
    BY <1>18, <1>0 DEF checkCollisionCallback, SafetyOff, State
  <2>3. CASE ok
    <3>1. newPlan
      BY <2>2, <2>3 DEF planFromCurrentTraj, callReboundReplan
    <3>2. local'.kind = "plan" /\ t_cur' + since_freeze' <= AwayAt - 1 + since_exec'
      BY <1>0, <2>2, <3>1, NewPlanFacts
    <3>3. QED
      BY <1>0, <2>1, <2>2, <2>3, <3>2 DEF planFromCurrentTraj, stopVars, State
  <2>4. CASE ~ok
    BY <1>0, <2>1, <2>2, <2>4
    DEF planFromCurrentTraj, callReboundReplan, stopVars, State
  <2>5. QED
    BY <2>3, <2>4
<1>19. CASE checkNoCollision
  <2>1. \A x \in Int : t_cur + since_freeze <= x => t_cur' + since_freeze' <= x
    BY <1>19, UpdateFacts DEF checkNoCollision
  <2>2. /\ UNCHANGED <<exec_state, have_target, end_pt, global_traj, end_moved, local>>
        /\ UNCHANGED <<replan_fail_count, since_exec>>
    BY <1>19 DEF checkNoCollision, stopVars
  <2>3. PICK x \in Int : x = AwayAt - 1 + since_exec
    BY <1>0
  <2>4. x = AwayAt - 1 + since_exec'
    BY <2>2, <2>3
  <2>5. t_cur + since_freeze <= x => t_cur' + since_freeze' <= x
    BY <2>1
  <2>6. QED
    BY <1>0, <2>2, <2>3, <2>4, <2>5
<1>20. CASE Elapse
  BY <1>0, <1>20 DEF Elapse, stopVars
<1>21. CASE UNCHANGED vars
  BY <1>0, <1>21 DEF vars, stopVars
<1>22. QED
  BY <1>1, <1>2, <1>3, <1>4, <1>5, <1>6, <1>7, <1>8, <1>9, <1>10, <1>11, <1>12, <1>13,
     <1>14, <1>15, <1>16, <1>17, <1>18, <1>19, <1>20, <1>21
  DEF Next, execFSMCallback

LEMMA SafetyCorrect == Spec => []SafetyInv
<1>1. Init => SafetyInv
  BY ReplanAssumption
  DEF Init, SafetyInv, TargetInv, TrajectoryInv, TrajectoryExists, Active, NoTrajectory,
      ReplanAssumption
<1>2. QED
  BY <1>1, SafetyStep, TypeCorrect, PTL DEF Spec

\* Except for preset missions, the state machine never works without a target.
THEOREM NoWorkWithoutTarget == Spec => []WorkHasTarget
<1>1. SafetyInv => WorkHasTarget
  BY DEF SafetyInv, TargetInv, WorkHasTarget, Active
<1>2. QED
  BY <1>1, SafetyCorrect, PTL

\* The local trajectory is there, and a plan, wherever the code takes it for granted.
THEOREM TrajectoryAvailable == Spec => []TrajectoryExists
<1>1. SafetyInv => TrajectoryExists
  BY DEF SafetyInv, TrajectoryInv
<1>2. QED
  BY <1>1, SafetyCorrect, PTL

\* A trajectory that leaves its start and stops short of the target never ends the pursuit
\* of the target, however late the timer is served up to MaxLate, unless a rejected target
\* has replaced the end point since.
THEOREM TargetNotDropped == Spec => TargetKept
<1>1. TypeOK /\ SafetyInv /\ [Next]_vars
        => [exec_state = "EXEC_TRAJ" /\ exec_state' = "WAIT_TARGET"
              => local.final \/ ~local.long \/ end_moved]_vars
  <2> SUFFICES ASSUME TypeOK, SafetyInv, [Next]_vars, exec_state = "EXEC_TRAJ",
                      exec_state' = "WAIT_TARGET", ~end_moved
               PROVE  local.final \/ ~local.long
    OBVIOUS
  <2>1. execFinish
    BY FinishFacts
    DEF Next, vars, execFSMCallback, targetCallback, onTarget, shortPathCallback,
        odometryCallback, planGlobalTrajbyGivenWps, odometryUpdate, go2ExecutionFrozenCallback,
        execInit, execWaitTarget, execGenNewTraj, execReplanTraj, execNextWaypoint,
        execUnderWay, execStartReplan, execEmergencyEscape, execEmergencyExit,
        execEmergencyHold, execIdle, checkCollisionCallback, checkNoCollision, Elapse,
        TypeOK, State
  <2>2. Duration <= t_cur + since_freeze
    BY <2>1, TypeParts, ProgressFacts DEF execFinish, Finished
  <2>3. QED
    BY <2>2, ReplanAssumption DEF SafetyInv, TrajectoryInv, TypeOK, ReplanAssumption
<1>2. QED
  BY <1>1, SafetyCorrect, TypeCorrect, PTL DEF Spec, TargetKept

\* A mission is a preset one, and the other sources of targets are closed to it: only
\* planGlobalTrajbyGivenWps and planNextWaypoint move its end point.
MissionInv ==
    /\ waypoints_active => navi_mode = "PRESET_TARGET"
    /\ HeadsForCurrentWaypoint

LEMMA MissionStep == TypeOK /\ MissionInv /\ [Next]_vars => MissionInv'
<1> SUFFICES ASSUME TypeOK, MissionInv, [Next]_vars PROVE MissionInv'
  OBVIOUS
<1>0. navi_mode' = navi_mode /\ current_wp \in Int
  BY ModeFixed DEF TypeOK
<1> USE <1>0 DEF MissionInv, HeadsForCurrentWaypoint
<1>1. ASSUME NEW t \in Targets, NEW ok \in BOOLEAN, targetCallback(t, ok)
      PROVE  MissionInv'
  BY <1>1 DEF targetCallback, missionVars
<1>2. ASSUME NEW t \in Targets, shortPathCallback(t) PROVE MissionInv'
  BY <1>2 DEF shortPathCallback, missionVars
<1>3. CASE odometryCallback
  <2>1. CASE navi_mode # "PRESET_TARGET"
    BY <1>3, <2>1 DEF odometryCallback, missionVars, goalVars, targetVars
  <2>2. CASE navi_mode = "PRESET_TARGET"
    BY <1>3, <2>2 DEF odometryCallback, planGlobalTrajbyGivenWps, planGlobalTo
  <2> QED
    BY <2>1, <2>2
<1>4. ASSUME UNCHANGED <<missionVars, end_pt>> PROVE MissionInv'
  BY <1>4 DEF missionVars
<1>5. ASSUME NEW ok \in BOOLEAN, execReplanTraj(ok) PROVE MissionInv'
  BY <1>4, <1>5 DEF execReplanTraj, planFromCurrentTraj
<1>6. ASSUME NEW ok \in BOOLEAN, execNextWaypoint(ok) PROVE MissionInv'
  <2>1. /\ current_wp' = current_wp + 1 /\ end_pt' = current_wp + 2
        /\ waypoints_active' = waypoints_active
    BY <1>6 DEF execNextWaypoint, planGlobalTo
  <2>2. end_pt' = current_wp' + 1
    BY <2>1
  <2> QED
    BY <1>6, <2>1, <2>2 DEF execNextWaypoint, MoreWaypoints
<1>7. CASE execFinish
  BY <1>7 DEF execFinish
<1>8. ASSUME NEW hit \in CheckedTimes, NEW ok \in BOOLEAN, checkCollisionCallback(hit, ok)
      PROVE  MissionInv'
  BY <1>4, <1>8 DEF checkCollisionCallback, planFromCurrentTraj
<1>9. CASE UNCHANGED vars
  BY <1>4, <1>9 DEF vars, goalVars, targetVars
<1>10. CASE execFSMCallback
  BY <1>4, <1>5, <1>6, <1>7, <1>10
  DEF execFSMCallback, execInit, execWaitTarget, execGenNewTraj, execUnderWay,
      execStartReplan, execEmergencyEscape, execEmergencyExit, execEmergencyHold, execIdle,
      goalVars, targetVars
<1>11. CASE odometryUpdate \/ go2ExecutionFrozenCallback \/ checkNoCollision \/ Elapse
  BY <1>4, <1>11
  DEF odometryUpdate, go2ExecutionFrozenCallback, checkNoCollision, Elapse, goalVars,
      targetVars
<1> QED
  BY <1>1, <1>2, <1>3, <1>8, <1>9, <1>10, <1>11 DEF Next

\* A preset mission heads for its current waypoint, whatever replanning, blocked targets,
\* emergencies and the safety timer do to it: planFromCurrentTraj plans to end_pt_, and
\* every step that counts a waypoint moves end_pt_ as well.
THEOREM MissionHeading == Spec => []HeadsForCurrentWaypoint
<1>1. Init => MissionInv
  BY DEF Init, MissionInv, HeadsForCurrentWaypoint
<1>2. MissionInv => HeadsForCurrentWaypoint
  BY DEF MissionInv
<1> QED
  BY <1>1, <1>2, MissionStep, TypeCorrect, PTL DEF Spec

-----------------------------------------------------------------------------
\* A new trajectory of the state machine is one of the clock's, a stop included.
LEMMA NewTrajectoryStep ==
    ASSUME TypeOK, newPlan \/ callEmergencyStop, exec_state' \in State \ {"WAIT_TARGET"},
           UNCHANGED go2_execution_frozen
    PROVE  Clock!NewTrajectory
<1>1. local'.kind \in {"plan", "stop"}
  BY DEF newPlan, getLocalTarget, callEmergencyStop
<1>2. since_freeze \in Nat /\ 0 \in 0..(MaxLate - 1)
  BY ReplanAssumption DEF TypeOK, ReplanAssumption
<1>3. \E p \in 0..(MaxLate - 1) : p <= since_freeze /\ t_cur' = 0 - p /\ since_freeze' = p
  <2>1. CASE newPlan
    BY <2>1 DEF newPlan
  <2>2. CASE callEmergencyStop
    <3>1. 0 <= since_freeze /\ t_cur' = 0 - 0 /\ since_freeze' = 0
      BY <1>2, <2>2 DEF callEmergencyStop
    <3>2. QED
      BY <1>2, <3>1
  <2>3. QED
    BY <2>1, <2>2
<1>4. (IF exec_state' \in {"WAIT_TARGET", "EXEC_TRAJ"} THEN exec_state' ELSE "OTHER")
        \in {"EXEC_TRAJ", "OTHER"}
  OBVIOUS
<1>5. QED
  BY <1>1, <1>3, <1>4 DEF Clock!NewTrajectory

\* A timer that keeps the trajectory is an update of the clock.
LEMMA UpdateStep ==
    ASSUME updateLocalTrajTimeFreeze, UNCHANGED <<local, go2_execution_frozen>>,
           exec_state' = "EXEC_TRAJ" => exec_state = "EXEC_TRAJ",
           exec_state = "EXEC_TRAJ" /\ exec_state' = "WAIT_TARGET" => Progress = Duration
    PROVE  Clock!Update
<1>1. Clock!Progress = Progress
  BY DEF Clock!Progress, Progress
<1>2. t_cur' = Clock!Progress /\ since_freeze' = 0
  BY <1>1 DEF updateLocalTrajTimeFreeze
<1> DEFINE mode == IF exec_state \in {"WAIT_TARGET", "EXEC_TRAJ"} THEN exec_state ELSE "OTHER"
<1>3. /\ mode' \in Clock!State
      /\ mode' = "EXEC_TRAJ" => mode = "EXEC_TRAJ"
      /\ mode = "EXEC_TRAJ" /\ mode' = "WAIT_TARGET" => Clock!Progress = Duration
  BY <1>1 DEF Clock!State
<1>4. QED
  BY <1>2, <1>3 DEF Clock!Update

\* Each step of the state machine is a step of the clock or leaves it alone.
LEMMA ClockStep == TypeOK /\ SafetyInv /\ [Next]_vars => [Clock!Next]_(Clock!vars)
<1> SUFFICES ASSUME TypeOK, SafetyInv, [Next]_vars PROVE [Clock!Next]_(Clock!vars)
  OBVIOUS
<1>0. exec_state \in State /\ replan_fail_count \in Nat
  BY DEF TypeOK
<1>1. ASSUME UNCHANGED trajVars, UNCHANGED go2_execution_frozen,
             \/ exec_state' = exec_state
             \/ exec_state' \in {"GEN_NEW_TRAJ", "REPLAN_TRAJ"}
      PROVE  [Clock!Next]_(Clock!vars)
  BY <1>1 DEF trajVars, Clock!Next, Clock!vars, Clock!Interrupt
<1>2. ASSUME NEW t \in Targets, NEW ok \in BOOLEAN, targetCallback(t, ok)
      PROVE  [Clock!Next]_(Clock!vars)
  <2>1. exec_state' = exec_state \/ exec_state' \in {"GEN_NEW_TRAJ", "REPLAN_TRAJ"}
    BY <1>2, Zenon DEF targetCallback, onTarget
  <2>2. QED
    BY <1>1, <1>2, <2>1 DEF targetCallback, inputVars
<1>3. ASSUME NEW t \in Targets, shortPathCallback(t) PROVE [Clock!Next]_(Clock!vars)
  BY <1>1, <1>3 DEF shortPathCallback, inputVars
<1>4. CASE odometryCallback
  BY <1>1, <1>4 DEF odometryCallback, planGlobalTrajbyGivenWps
<1>5. CASE odometryUpdate
  BY <1>1, <1>5 DEF odometryUpdate, inputVars
<1>6. CASE go2ExecutionFrozenCallback
  BY <1>6 DEF go2ExecutionFrozenCallback, trajVars, Clock!Freeze, Clock!Next
<1>7. CASE execFSMCallback
  <2>1. UNCHANGED go2_execution_frozen
    BY <1>7
    DEF execFSMCallback, execInit, execWaitTarget, execGenNewTraj, execReplanTraj,
        execNextWaypoint, execFinish, execUnderWay, execStartReplan, execEmergencyEscape,
        execEmergencyExit, execEmergencyHold, execIdle, inputVars
  <2>2. ASSUME execSameTraj,
               exec_state' = "EXEC_TRAJ" => exec_state = "EXEC_TRAJ",
               exec_state = "EXEC_TRAJ" /\ exec_state' = "WAIT_TARGET" => Progress = Duration
        PROVE  Clock!Next
    BY <2>1, <2>2, UpdateStep DEF execSameTraj, Clock!Next
  <2>3. ASSUME NEW st \in State, NEW ok \in BOOLEAN, callReboundReplan(ok),
               exec_state' \in {st, "EMERGENCY_STOP"},
               st # "WAIT_TARGET", ~ok => st # "EXEC_TRAJ"
        PROVE  Clock!Next
    BY <2>1, <2>3, UpdateStep, NewTrajectoryStep
    DEF callReboundReplan, Clock!Next, State
  <2>4. CASE execInit
    BY <1>0, <2>2, <2>4, FinishFacts DEF execInit, State
  <2>5. CASE execWaitTarget
    BY <1>0, <2>2, <2>5, FinishFacts DEF execWaitTarget, State
  <2>6. ASSUME NEW ok \in BOOLEAN, execGenNewTraj(ok) PROVE Clock!Next
    <3>1. /\ ok => exec_state' \in {"EXEC_TRAJ", "EMERGENCY_STOP"}
          /\ ~ok => exec_state' \in {"GEN_NEW_TRAJ", "EMERGENCY_STOP"}
      <4>1. \/ ok /\ finishProcess(0, "EXEC_TRAJ", TRUE, need_hover_stop)
            \/ ~ok /\ finishProcess(replan_fail_count + 1, "GEN_NEW_TRAJ",
                                    flag_escape_emergency, need_hover_stop)
        BY <2>6 DEF execGenNewTraj
      <4>2. 0 \in Nat /\ replan_fail_count + 1 \in Nat
        BY <1>0
      <4>3. CASE ok
        BY <4>1, <4>2, <4>3, FinishFacts DEF State
      <4>4. CASE ~ok
        BY <4>1, <4>2, <4>4, FinishFacts DEF State
      <4>5. QED
        BY <4>3, <4>4
    <3>2. callReboundReplan(ok)
      BY <2>6 DEF execGenNewTraj
    <3>3. QED
      BY <2>3, <3>1, <3>2 DEF State
  <2>7. ASSUME NEW ok \in BOOLEAN, execReplanTraj(ok) PROVE Clock!Next
    <3>1. exec_state' \in {IF ok THEN "EXEC_TRAJ" ELSE "REPLAN_TRAJ", "EMERGENCY_STOP"}
      <4>1. finishProcess(IF ok THEN 0 ELSE replan_fail_count + 1,
                          IF ok THEN "EXEC_TRAJ" ELSE "REPLAN_TRAJ",
                          flag_escape_emergency, need_hover_stop)
        BY <2>7 DEF execReplanTraj
      <4>2. QED
        BY <1>0, <4>1, FinishFacts DEF State
    <3>2. callReboundReplan(ok)
      BY <2>7 DEF execReplanTraj, planFromCurrentTraj
    <3>3. QED
      BY <2>3, <3>1, <3>2 DEF State
  <2>8. ASSUME NEW ok \in BOOLEAN, execNextWaypoint(ok) PROVE Clock!Next
    BY <2>2, <2>8 DEF execNextWaypoint
  <2>9. CASE execFinish
    BY <2>2, <2>9 DEF execFinish, Finished
  <2>10. CASE execUnderWay
    BY <2>2, <2>10 DEF execUnderWay
  <2>11. CASE execStartReplan
    BY <1>0, <2>2, <2>11, FinishFacts DEF execStartReplan, State
  <2>12. CASE execEmergencyEscape
    <3>1. exec_state' = "EMERGENCY_STOP" /\ callEmergencyStop
      BY <1>0, <2>12, FinishFacts DEF execEmergencyEscape, State
    <3>2. QED
      BY <2>1, <3>1, NewTrajectoryStep DEF Clock!Next, State
  <2>13. CASE execEmergencyExit
    BY <1>0, <2>2, <2>13, FinishFacts DEF execEmergencyExit, State
  <2>14. CASE execEmergencyHold
    BY <1>0, <2>2, <2>14, FinishFacts DEF execEmergencyHold, State
  <2>15. CASE execIdle
    BY <2>2, <2>15 DEF execIdle
  <2>16. QED
    BY <1>7, <2>4, <2>5, <2>6, <2>7, <2>8, <2>9, <2>10, <2>11, <2>12, <2>13, <2>14, <2>15
    DEF execFSMCallback
<1>8. ASSUME NEW hit \in CheckedTimes, NEW ok \in BOOLEAN, checkCollisionCallback(hit, ok)
      PROVE  Clock!Next
  <2>1. /\ ok => exec_state' = "EXEC_TRAJ"
        /\ ~ok => exec_state' \in {"EMERGENCY_STOP", "REPLAN_TRAJ"}
    BY <1>8, Zenon DEF checkCollisionCallback
  <2>2. callReboundReplan(ok) /\ UNCHANGED go2_execution_frozen
    BY <1>8 DEF checkCollisionCallback, planFromCurrentTraj, inputVars
  <2>3. CASE ok
    BY <2>1, <2>2, <2>3, NewTrajectoryStep DEF callReboundReplan, Clock!Next, State
  <2>4. CASE ~ok
    BY <2>1, <2>2, <2>4, UpdateStep DEF callReboundReplan, Clock!Next
  <2>5. QED
    BY <2>3, <2>4
<1>9. CASE checkNoCollision
  <2>1. /\ updateLocalTrajTimeFreeze
        /\ UNCHANGED <<local, go2_execution_frozen>> /\ exec_state' = exec_state
    BY <1>9 DEF checkNoCollision, inputVars
  <2>2. QED
    BY <2>1, UpdateStep DEF Clock!Next
<1>10. CASE Elapse
  BY <1>10 DEF Elapse, inputVars, Clock!Elapse, Clock!Next
<1>11. CASE UNCHANGED vars
  BY <1>11 DEF vars, trajVars, inputVars, Clock!vars
<1>12. QED
  BY <1>2, <1>3, <1>4, <1>5, <1>6, <1>7, <1>8, <1>9, <1>10, <1>11 DEF Next

\* The state machine implements the source of trajectories and the clock that LocalPlanner
\* composes with the controller: whatever LocalPlanner shows of the two clocks holds for
\* this state machine.
THEOREM ImplementsClock == Spec => ClockSpec
<1>1. Init => Clock!Init
  BY DEF Init, NoTrajectory, Clock!Init
<1>2. QED
  BY <1>1, ClockStep, SafetyCorrect, TypeCorrect, PTL DEF Spec, ClockSpec, Clock!Spec
================================================================================
