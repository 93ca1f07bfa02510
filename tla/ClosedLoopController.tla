-------------------------- MODULE ClosedLoopController --------------------------
(***************************************************************************)
(* The node closed_loop_controller: a 10 ms timer moves along the newest   *)
(* trajectory and commands the velocity that follows it.  While the robot  *)
(* does not face its way it only turns, and the time along the trajectory  *)
(* stands still; the node says so in planning/go2_execution_frozen.  One   *)
(* executor thread runs the timer and both subscriptions.  The pose enters *)
(* through what the timer finds out about it: whether the heading is off   *)
(* by more than heading_error_threshold_, and whether the position is      *)
(* within finish_dist_ of the desired one.                                 *)
(***************************************************************************)
EXTENDS Integers, Sequences

CONSTANTS
    Trajectory,     \* trajectories the planner may send
    NoTrajectory,   \* traj_ before the first one
    Duration,       \* traj_duration_, in ticks, at least one
    MaxStep,        \* the longest step that counts, 0.2 s, in ticks, at least one
    QueueDepth      \* the messages a subscription keeps, at least one

VARIABLES
    receive_traj, have_odom,
    traj,
    exec_time,
    since_update,       \* time since last_update_time_, up to one tick past MaxStep
    command,            \* what cmd_vel asks for
    execution_frozen    \* planning/go2_execution_frozen, oldest message first

inputs == <<receive_traj, have_odom, traj>>
controllerVars == <<inputs, exec_time, since_update, command, execution_frozen>>

Init ==
    /\ receive_traj = FALSE /\ have_odom = FALSE
    /\ traj = NoTrajectory
    /\ exec_time = 0 /\ since_update = 0
    /\ command = "none"
    /\ execution_frozen = <<>>

-----------------------------------------------------------------------------
\* Variant: the end of the trajectory does not end the time along it.
AtMost_Unlimited(limit, t) == t

AtMost(limit, t) == IF t > limit THEN limit ELSE t

\* Variant: a new trajectory is taken up at the time reached on the old one.
bsplineCallback_KeepsExecTime(tr) ==
    /\ traj' = tr
    /\ since_update' = 0
    /\ receive_traj' = TRUE
    /\ UNCHANGED <<have_odom, exec_time, command, execution_frozen>>

\* A trajectory replaces the old one, whatever is left of it.  (The planner never sends
\* one without points or knots, which would be ignored.)
bsplineCallback(tr) ==
    /\ traj' = tr
    /\ exec_time' = 0
    /\ since_update' = 0
    /\ receive_traj' = TRUE
    /\ UNCHANGED <<have_odom, command, execution_frozen>>

odomCallback ==
    /\ have_odom' = TRUE
    /\ UNCHANGED <<receive_traj, traj, exec_time, since_update, command, execution_frozen>>

\* A message on a topic: the oldest one gives way when the queue is full.
Queued(topic, message) ==
    Append(IF Len(topic) < QueueDepth THEN topic ELSE Tail(topic), message)

publishExecutionFrozen(frozen) == execution_frozen' = Queued(execution_frozen, frozen)

\* cmdCallback before there is anything to follow, or to follow it with.
cmdWithoutInput ==
    /\ ~(receive_traj /\ have_odom)
    /\ publishExecutionFrozen(FALSE)
    /\ command' = "stop"
    /\ UNCHANGED <<inputs, exec_time, since_update>>

\* cmdCallback with the heading off: turn in place.
cmdTurn ==
    /\ receive_traj /\ have_odom
    /\ publishExecutionFrozen(TRUE)
    /\ command' = "turn"
    /\ since_update' = 0
    /\ UNCHANGED <<inputs, exec_time>>

\* The step that counts: none after a gap.
dt == IF since_update > MaxStep THEN 0 ELSE since_update

\* Variant: only the start of a turn is announced.
cmdFollow_SaysNothing(near) ==
    /\ receive_traj /\ have_odom
    /\ exec_time' = AtMost(Duration, exec_time + dt)
    /\ since_update' = 0
    /\ command' = IF exec_time' >= Duration /\ near THEN "stop" ELSE "follow"
    /\ UNCHANGED <<inputs, execution_frozen>>

\* cmdCallback with the heading right: follow the trajectory, up to its end; near is
\* whether the robot is within finish_dist_ of the point it should be at.
cmdFollow(near) ==
    /\ receive_traj /\ have_odom
    /\ publishExecutionFrozen(FALSE)
    /\ exec_time' = AtMost(Duration, exec_time + dt)
    /\ since_update' = 0
    /\ command' = IF exec_time' >= Duration /\ near THEN "stop" ELSE "follow"
    /\ UNCHANGED inputs

cmdCallback ==
    \/ cmdWithoutInput
    \/ cmdTurn
    \/ \E near \in BOOLEAN : cmdFollow(near)

TimePasses ==
    /\ since_update' = AtMost(MaxStep + 1, since_update + 1)
    /\ UNCHANGED <<inputs, exec_time, command, execution_frozen>>

-----------------------------------------------------------------------------
ControllerTypeOK ==
    /\ receive_traj \in BOOLEAN /\ have_odom \in BOOLEAN
    /\ traj \in Trajectory \cup {NoTrajectory}
    /\ exec_time \in 0..Duration
    /\ since_update \in 0..(MaxStep + 1)
    /\ command \in {"none", "stop", "turn", "follow"}
    /\ execution_frozen \in Seq(BOOLEAN) /\ Len(execution_frozen) <= QueueDepth
================================================================================
