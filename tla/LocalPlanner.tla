------------------------------ MODULE LocalPlanner ------------------------------
(***************************************************************************)
(* The local planner as two nodes: the state machine SCANReplanFSM and the *)
(* closed loop controller.  The state machine never hears how far the      *)
(* controller has got.  It sends a trajectory on planning/bspline, lets    *)
(* its own clock run along it, and stops that clock while the controller   *)
(* says on planning/go2_execution_frozen that it turns in place.  On that  *)
(* clock it replans, checks for collisions, and takes the end of the       *)
(* trajectory for the arrival.  Both topics keep their order and the       *)
(* newest QueueDepth messages.  Nothing runs in lock-step: either timer,   *)
(* and either topic, may wait for its thread for up to MaxLate ticks.      *)
(***************************************************************************)
EXTENDS TrajectoryClock, Sequences

CONSTANT QueueDepth     \* messages a subscription keeps, ten in both nodes

ASSUME LocalPlannerAssumption == QueueDepth \in Nat \ {0}

VARIABLES
    receive_traj, ctl_have_odom, traj, exec_time, since_update, command,
    execution_frozen,
    bspline,            \* planning/bspline, oldest message first
    since_cmd,          \* time since cmdCallback last ran
    since_heard,        \* time for which planning/go2_execution_frozen was never empty
    \* History: what the arrival of the trajectory, and every change of the controller
    \* between turning and following since, may have put between the two clocks.  NoBound
    \* once time has passed without odometry: the controller then says that it is free, and
    \* its clock stands.
    drift

Controller == INSTANCE ClosedLoopController WITH have_odom <- ctl_have_odom

controllerVars == <<receive_traj, ctl_have_odom, traj, exec_time, since_update, command,
                    execution_frozen>>
plannerVars == <<vars, controllerVars, bspline, since_cmd, since_heard, drift>>

\* A change reaches the other clock at most MaxLate ticks late and is applied to a gap of at
\* most MaxLate ticks.
Lag == 2 * MaxLate

\* More than the two clocks can ever be apart.
NoBound == Duration + MaxLate

InitPlanner ==
    /\ Init
    /\ Controller!Init
    /\ bspline = <<>>
    /\ since_cmd = 0 /\ since_heard = 0
    /\ drift = Lag

-----------------------------------------------------------------------------
\* Both callReboundReplan and callEmergencyStop publish what they have stored.
Publish ==
    /\ NewTrajectory
    /\ bspline' = Controller!Queued(bspline, local')
    /\ UNCHANGED <<controllerVars, since_cmd, since_heard, drift>>

StayQuiet ==
    /\ Update \/ Interrupt
    /\ UNCHANGED <<controllerVars, bspline, since_cmd, since_heard, drift>>

\* The state machine takes the next freeze message.
FreezeArrives ==
    /\ execution_frozen # <<>>
    /\ execution_frozen' = Tail(execution_frozen)
    /\ since_heard' = IF execution_frozen' = <<>> THEN 0 ELSE since_heard
    /\ IF go2_execution_frozen = Head(execution_frozen)
       THEN UNCHANGED vars
       ELSE Freeze
    /\ UNCHANGED <<receive_traj, ctl_have_odom, traj, exec_time, since_update, command,
                   bspline, since_cmd, drift>>

\* The controller takes the next trajectory.
TrajectoryArrives ==
    /\ bspline # <<>>
    /\ bspline' = Tail(bspline)
    /\ Controller!bsplineCallback(Head(bspline))
    /\ drift' = Lag
    /\ UNCHANGED <<vars, since_cmd, since_heard>>

OdometryArrives ==
    /\ ~ctl_have_odom
    /\ Controller!odomCallback
    /\ UNCHANGED <<vars, bspline, since_cmd, since_heard, drift>>

\* The controller turns the robot in place.
Turning == command = "turn"

\* The controller's timer: late by up to MaxLate, but never twice in a tick, since a timer
\* that was missed is not made up for.  The count stops where it leaves nothing to claim.
Command ==
    /\ since_cmd > 0
    /\ Controller!cmdCallback
    /\ since_cmd' = 0
    /\ drift' = IF Turning' = Turning THEN drift
                ELSE IF drift + Lag < NoBound THEN drift + Lag ELSE NoBound
    /\ UNCHANGED <<vars, bspline, since_heard>>

\* A tick of the clock.  The controller's thread has nothing but its timer and its messages:
\* when it runs the one it takes the other.  The state machine's thread has more to do, but
\* finds the freeze topic empty again within MaxLate ticks.
Tick ==
    /\ since_cmd < MaxLate
    /\ since_cmd = 0 => bspline = <<>>
    /\ since_heard < MaxLate
    /\ Elapse
    /\ Controller!TimePasses
    /\ since_cmd' = since_cmd + 1
    /\ since_heard' = IF execution_frozen = <<>> THEN 0 ELSE since_heard + 1
    /\ drift' = IF receive_traj /\ ~ctl_have_odom THEN NoBound ELSE drift
    /\ UNCHANGED bspline

NextPlanner ==
    \/ Publish
    \/ StayQuiet
    \/ FreezeArrives
    \/ TrajectoryArrives
    \/ OdometryArrives
    \/ Command
    \/ Tick

SpecPlanner == InitPlanner /\ [][NextPlanner]_plannerVars

\* Time goes on, which takes both timers and both topics with it; a robot that turns towards
\* its way faces it some time.
FairSpecPlanner ==
    /\ SpecPlanner
    /\ []<><<Tick>>_plannerVars
    /\ SF_plannerVars(Command /\ command' # "turn")

-----------------------------------------------------------------------------
\* Every variable of the two nodes and of the topics between them keeps its type.
PlannerTypeOK ==
    /\ ClockTypeOK
    /\ Controller!ControllerTypeOK
    /\ bspline \in Seq(Trajectory) /\ Len(bspline) <= QueueDepth
    /\ since_cmd \in 0..MaxLate /\ since_heard \in 0..MaxLate
    /\ drift \in 0..(Lag + NoBound)

\* How far the two clocks may be apart: what is in drift, and a controller that has not
\* counted its last MaxLate ticks yet.
Apart == drift + MaxLate

\* The two clocks agree: they run along the same trajectory, and every message and every
\* timer that was late, by up to 0.2 s, has cost no more than a fixed time for the arrival
\* of the trajectory and for each start or end of a turn.  Nothing brings them together
\* again, so the bound grows with the turns.  (Later than 0.2 s, updateLocalTrajTimeFreeze
\* counts time as travelled for which the robot turned, and cmdFollow drops time for which
\* it walked; without odometry nothing is claimed either.)
ClocksAgree ==
    bspline = <<>> /\ local # NoTrajectory =>
        /\ receive_traj /\ traj = local
        /\ t_cur <= exec_time + Apart /\ exec_time <= t_cur + Apart

\* The state machine takes the end of its own clock for the arrival and drops the target.
\* The controller is then on the same trajectory, and no further from its end than the two
\* clocks may be apart: no late message lets the machine count a trajectory as over that
\* the controller has not taken up yet.
ArrivesWithTheRobot ==
    [][exec_state = "EXEC_TRAJ" /\ exec_state' = "WAIT_TARGET"
        => traj = local /\ exec_time >= Duration - Apart]_plannerVars

\* Freezes end: the state machine is not kept from moving on by a freeze message that is
\* never taken back, as FairSpec of ReplanFSM assumes.  It needs a queue longer than the
\* messages of MaxLate ticks (ten in the code, at one message in 10 ms): a shorter one can
\* lose each message that says free before it is taken.
FreezesEnd == []<>~go2_execution_frozen
================================================================================
