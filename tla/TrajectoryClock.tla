----------------------------- MODULE TrajectoryClock -----------------------------
(***************************************************************************)
(* What the state machine of the local planner is to the controller: a     *)
(* source of trajectories, and a clock that runs along the newest one and  *)
(* stands still while the robot is said to turn in place.  The end of the  *)
(* trajectory on that clock is taken for the arrival.  ReplanFSM           *)
(* implements this module; LocalPlanner composes it with the controller.   *)
(***************************************************************************)
EXTENDS Integers

CONSTANTS
    Trajectory,     \* the trajectories it may plan, a stop among them
    NoTrajectory,   \* local_data_ before the first one
    Duration,       \* duration of a trajectory, in ticks
    MaxLate,        \* ticks within which the freeze update runs again
    MaxStep         \* the longest gap it takes into account, 0.2 s, in ticks

ASSUME TrajectoryClockAssumption ==
    /\ NoTrajectory \notin Trajectory
    /\ MaxLate \in Nat \ {0} /\ MaxStep \in Nat \ {0}
    /\ Duration \in Nat /\ MaxLate < Duration

VARIABLES
    exec_state,     \* "OTHER" for all that is neither waiting nor executing
    local,
    t_cur,          \* last_freeze_update_time_ - start_time_, at most Duration
    since_freeze,   \* time since last_freeze_update_time_
    go2_execution_frozen

vars == <<exec_state, local, t_cur, since_freeze, go2_execution_frozen>>

State == {"WAIT_TARGET", "EXEC_TRAJ", "OTHER"}

Init ==
    /\ exec_state = "OTHER"
    /\ local = NoTrajectory
    /\ t_cur = 0 /\ since_freeze = 0
    /\ go2_execution_frozen = FALSE

\* Variant: the clock of the trajectory runs on while the robot is frozen.
Progress_IgnoresFreeze ==
    IF local = NoTrajectory THEN t_cur
    ELSE IF t_cur + since_freeze < Duration THEN t_cur + since_freeze ELSE Duration

\* The time along the trajectory after an update: the whole gap counts for nothing if the
\* robot is frozen at its end, unless it is longer than 0.2 s.
Progress ==
    IF local = NoTrajectory \/ (go2_execution_frozen /\ since_freeze <= MaxStep) THEN t_cur
    ELSE IF t_cur + since_freeze < Duration THEN t_cur + since_freeze ELSE Duration

\* A trajectory, planned in p ticks since the update, or a stop.
NewTrajectory ==
    /\ local' \in Trajectory
    /\ \E p \in 0..(MaxLate - 1) : p <= since_freeze /\ t_cur' = 0 - p /\ since_freeze' = p
    /\ exec_state' \in {"EXEC_TRAJ", "OTHER"}
    /\ UNCHANGED go2_execution_frozen

\* A timer that keeps the trajectory: only the end of it is taken for the arrival, and only
\* a new one is executed.
Update ==
    /\ t_cur' = Progress
    /\ since_freeze' = 0
    /\ exec_state' \in State
    /\ exec_state' = "EXEC_TRAJ" => exec_state = "EXEC_TRAJ"
    /\ exec_state = "EXEC_TRAJ" /\ exec_state' = "WAIT_TARGET" => Progress = Duration
    /\ UNCHANGED <<local, go2_execution_frozen>>

\* A target wakes it or interrupts the trajectory.
Interrupt ==
    /\ exec_state' = "OTHER"
    /\ UNCHANGED <<local, t_cur, since_freeze, go2_execution_frozen>>

Freeze ==
    /\ go2_execution_frozen' = ~go2_execution_frozen
    /\ UNCHANGED <<exec_state, local, t_cur, since_freeze>>

Elapse ==
    /\ since_freeze < MaxLate
    /\ since_freeze' = since_freeze + 1
    /\ UNCHANGED <<exec_state, local, t_cur, go2_execution_frozen>>

Next == NewTrajectory \/ Update \/ Interrupt \/ Freeze \/ Elapse

Spec == Init /\ [][Next]_vars

ClockTypeOK ==
    /\ exec_state \in State
    /\ local \in Trajectory \cup {NoTrajectory}
    /\ t_cur \in (1 - MaxLate)..Duration
    /\ since_freeze \in 0..MaxLate
    /\ go2_execution_frozen \in BOOLEAN
================================================================================
