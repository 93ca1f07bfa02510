------------------------------ MODULE SportBridge ------------------------------
(***************************************************************************)
(* The node cmd_vel_to_sport: a timer turns the latest velocity command    *)
(* into Move requests for the robot's sport service, and into one StopMove *)
(* request when the command, the odometry or the localisation confidence   *)
(* is missing, invalid or stale.  The executor thread runs the callbacks;  *)
(* the thread that handles Ctrl+C runs the pre-shutdown callback beside    *)
(* it, so publishing a request and recording it in stop_sent_ are separate *)
(* steps.  Ages saturate one tick after the last timeout that reads them.  *)
(***************************************************************************)
EXTENDS Integers

CONSTANTS
    CmdTimeout, OdomTimeout, LocTimeout,  \* the timeouts, in clock ticks
    JumpWindow,           \* the 1.0 s of the jump test, in ticks
    TimerPeriod,          \* 1 / publish_rate, in ticks
    ShutdownSleep,        \* the sleep of the pre-shutdown callback, in ticks
    MaxAbs,               \* max_abs_position_
    MaxJump,              \* max_odom_jump_
    Positions,            \* positions an odometry message may report
    RequireLocalization   \* require_localization_

ASSUME SportAssumption ==
    /\ {CmdTimeout, OdomTimeout, LocTimeout, JumpWindow, TimerPeriod, ShutdownSleep,
        MaxAbs, MaxJump} \subseteq Nat \ {0}
    /\ Positions \subseteq Int
    /\ RequireLocalization \in BOOLEAN

VARIABLES
    have_cmd, cmd_age,
    odom_received, odom_valid, have_valid_odom, odom_age,
    last_odom,      \* last_odom_{x,y,z}_, the last valid position
    loc_received, loc_valid, loc_age,
    stop_sent,
    timer_age,      \* ticks since publish_timer_ last fired
    exec,           \* where the executor thread is in publishCommand
    shutdown,       \* where the thread handling Ctrl+C is
    sleep_left,     \* what is left of its sleep
    last_request,   \* the last request on api/sport/request
    \* History: time since the commands were last backed by fresh, valid inputs.
    unbacked_for

inputs == <<have_cmd, cmd_age, odom_received, odom_valid, have_valid_odom, odom_age,
            last_odom, loc_received, loc_valid, loc_age>>
control == <<stop_sent, exec, shutdown, sleep_left, last_request>>
vars == <<inputs, control, timer_age, unbacked_for>>

NaN == MaxAbs + MaxJump + 1    \* stands for a position that is not finite

\* The longest odometry age that publishCommand or the jump test tells apart.
OdomHorizon == IF OdomTimeout > JumpWindow THEN OdomTimeout ELSE JumpWindow

Older(age, limit) == IF age > limit THEN age ELSE age + 1

Init ==
    /\ have_cmd = FALSE /\ cmd_age = 0
    /\ odom_received = FALSE /\ odom_valid = FALSE /\ have_valid_odom = FALSE
    /\ odom_age = 0 /\ last_odom = 0
    /\ loc_received = FALSE /\ loc_valid = FALSE /\ loc_age = 0
    /\ stop_sent = TRUE
    /\ timer_age = 0
    /\ exec = "idle" /\ shutdown = "no" /\ sleep_left = ShutdownSleep
    /\ last_request = "None"
    /\ unbacked_for = 0

-----------------------------------------------------------------------------
safetyReady ==
    /\ odom_received /\ odom_valid /\ odom_age <= OdomTimeout
    /\ RequireLocalization => loc_received /\ loc_valid /\ loc_age <= LocTimeout

\* The negation of both reasons for which publishCommand stops the robot.
Backed == have_cmd /\ safetyReady /\ cmd_age <= CmdTimeout

\* The executor thread runs one callback at a time, until the context is shut down.
ExecutorFree == exec = "idle" /\ shutdown # "down"

cmdVelCallback ==
    /\ ExecutorFree
    /\ have_cmd' = TRUE
    /\ cmd_age' = 0
    /\ UNCHANGED <<odom_received, odom_valid, have_valid_odom, odom_age, last_odom,
                   loc_received, loc_valid, loc_age, control,
                   timer_age>>

InBounds_FiniteOnly(p) == p # NaN

InBounds(p) == p # NaN /\ p \in -MaxAbs..MaxAbs

\* The jump test: dt is the time since the last message, valid or not, but the distance
\* is taken from the last valid position.  Two messages never share an instant (dt > 0).
Jumped(p) ==
    /\ have_valid_odom
    /\ odom_age < JumpWindow
    /\ p - last_odom > MaxJump \/ last_odom - p > MaxJump

odomCallback(p) ==
    /\ ExecutorFree
    /\ odom_received' = TRUE
    /\ odom_valid' = (InBounds(p) /\ ~Jumped(p))
    /\ odom_age' = 0
    /\ \/ /\ odom_valid'
          /\ have_valid_odom' = TRUE
          /\ last_odom' = p
       \/ /\ ~odom_valid'
          /\ UNCHANGED <<have_valid_odom, last_odom>>
    /\ UNCHANGED <<have_cmd, cmd_age, loc_received, loc_valid, loc_age, control, timer_age>>

\* The confidence is finite and at least min_localization_confidence_, or it is not.
\* The subscription exists only with require_localization_.
localizationCallback(confident) ==
    /\ ExecutorFree
    /\ RequireLocalization
    /\ loc_received' = TRUE
    /\ loc_valid' = confident
    /\ loc_age' = 0
    /\ UNCHANGED <<have_cmd, cmd_age, odom_received, odom_valid, have_valid_odom, odom_age,
                   last_odom, control, timer_age>>

\* publishCommand decides between a Move, a StopMove and nothing.
Decision_NoCmdTimeout ==
    CASE have_cmd /\ safetyReady -> "move"
      [] have_cmd /\ ~safetyReady /\ ~stop_sent -> "stop"
      [] OTHER -> "idle"

Decision ==
    CASE Backed -> "move"
      [] ~Backed /\ have_cmd /\ ~stop_sent -> "stop"
      [] OTHER -> "idle"

publishCommand ==
    /\ ExecutorFree
    /\ timer_age >= TimerPeriod
    /\ timer_age' = 0
    /\ exec' = Decision
    /\ UNCHANGED <<inputs, stop_sent, shutdown, sleep_left, last_request>>

\* Its publication of the request, and publishStop's.
PublishMove ==
    /\ exec = "move"
    /\ last_request' = "Move"
    /\ exec' = "moved"
    /\ UNCHANGED <<inputs, stop_sent, shutdown, sleep_left, timer_age>>

PublishStop ==
    /\ exec = "stop"
    /\ last_request' = "StopMove"
    /\ exec' = "stopped"
    /\ UNCHANGED <<inputs, stop_sent, shutdown, sleep_left, timer_age>>

\* stop_sent_ after each of them.
RecordRequest_MissingReset ==
    /\ exec \in {"moved", "stopped"}
    /\ stop_sent' = (stop_sent \/ exec = "stopped")
    /\ exec' = "idle"
    /\ UNCHANGED <<inputs, shutdown, sleep_left, last_request, timer_age>>

RecordRequest ==
    /\ exec \in {"moved", "stopped"}
    /\ stop_sent' = (exec = "stopped")
    /\ exec' = "idle"
    /\ UNCHANGED <<inputs, shutdown, sleep_left, last_request, timer_age>>

-----------------------------------------------------------------------------
\* The pre-shutdown callback: stop(), a sleep, and then the context goes down.
ShutdownStop ==
    /\ shutdown = "no"
    /\ last_request' = "StopMove"
    /\ shutdown' = "stopped"
    /\ UNCHANGED <<inputs, stop_sent, exec, sleep_left, timer_age>>

ShutdownRecord ==
    /\ shutdown = "stopped"
    /\ stop_sent' = TRUE
    /\ shutdown' = "sleeping"
    /\ UNCHANGED <<inputs, exec, sleep_left, last_request, timer_age>>

ContextDown ==
    /\ shutdown = "sleeping"
    /\ sleep_left = 0
    /\ shutdown' = "down"
    /\ exec' = "idle"
    /\ UNCHANGED <<inputs, stop_sent, sleep_left, last_request, timer_age>>

\* A clock tick.  The executor keeps up: a due timer is served, and a callback completes,
\* before the clock moves on.
Tick ==
    /\ shutdown # "down"
    /\ exec = "idle"
    /\ timer_age < TimerPeriod
    /\ timer_age' = timer_age + 1
    /\ shutdown = "sleeping" => sleep_left > 0
    /\ sleep_left' = IF shutdown = "sleeping" THEN sleep_left - 1 ELSE sleep_left
    /\ cmd_age' = Older(cmd_age, CmdTimeout)
    /\ odom_age' = Older(odom_age, OdomHorizon)
    /\ loc_age' = Older(loc_age, LocTimeout)
    /\ UNCHANGED <<have_cmd, odom_received, odom_valid, have_valid_odom, last_odom,
                   loc_received, loc_valid, stop_sent, exec, shutdown,
                   last_request>>

\* The context is down: nothing moves any more.
Down ==
    /\ shutdown = "down"
    /\ UNCHANGED <<inputs, control, timer_age>>

Executor ==
    \/ publishCommand
    \/ PublishMove
    \/ PublishStop
    \/ RecordRequest

Shutdown == ShutdownStop \/ ShutdownRecord \/ ContextDown

Step ==
    \/ cmdVelCallback
    \/ \E p \in Positions \cup {NaN} : odomCallback(p)
    \/ \E confident \in BOOLEAN : localizationCallback(confident)
    \/ Executor
    \/ Shutdown
    \/ Tick
    \/ Down

\* unbacked_for grows with the clock while the commands are not backed.
RecordHistory ==
    unbacked_for' = IF Backed' THEN 0
                    ELSE IF timer_age' > timer_age THEN Older(unbacked_for, TimerPeriod)
                    ELSE unbacked_for

Next == Step /\ RecordHistory

Spec == Init /\ [][Next]_vars

-----------------------------------------------------------------------------
TypeOK ==
    /\ have_cmd \in BOOLEAN /\ stop_sent \in BOOLEAN
    /\ odom_received \in BOOLEAN /\ odom_valid \in BOOLEAN /\ have_valid_odom \in BOOLEAN
    /\ loc_received \in BOOLEAN /\ loc_valid \in BOOLEAN
    /\ cmd_age \in 0..(CmdTimeout + 1)
    /\ odom_age \in 0..(OdomHorizon + 1)
    /\ loc_age \in 0..(LocTimeout + 1)
    /\ last_odom \in -MaxAbs..MaxAbs
    /\ timer_age \in 0..TimerPeriod
    /\ exec \in {"idle", "move", "moved", "stop", "stopped"}
    /\ shutdown \in {"no", "stopped", "sleeping", "down"}
    /\ sleep_left \in 0..ShutdownSleep
    /\ last_request \in {"None", "Move", "StopMove"}
    /\ unbacked_for \in 0..(TimerPeriod + 1)

\* The robot is never left walking on bad inputs: before shutdown, once the command, the
\* odometry or the confidence has become stale or invalid, the last request is a Move for
\* at most one timer period (publishCommand, safetyReady).
StopsWithinOnePeriod ==
    shutdown = "no" /\ last_request = "Move" => unbacked_for <= TimerPeriod

\* stop_sent_, which suppresses repeated StopMoves, never suppresses a needed one: between
\* callbacks it is set exactly when the last request is not a Move (publishStop).
StopFlagTruthful ==
    shutdown = "no" /\ exec = "idle" => (stop_sent <=> last_request # "Move")

\* scan_nav2_navigation/README.md: "`Ctrl+C` sends a final Go2 `StopMove` request."
FinalRequestIsStop == shutdown = "down" => last_request = "StopMove"
================================================================================
