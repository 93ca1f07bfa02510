---------------------------- MODULE Nav2ScanBridge ----------------------------
(***************************************************************************)
(* The node nav2_scan_bridge: it takes a goal pose, asks Nav2's            *)
(* ComputePathToPose action for a global path, re-asks while the goal is   *)
(* not reached, and hands each path, moved to the odometry frame, to the   *)
(* SCAN local planner.  The node spins on one thread, so each callback is  *)
(* one action; what interleaves is the order in which the goal topic, the  *)
(* timer and the answers of the action server reach it.                    *)
(***************************************************************************)
EXTENDS Integers

CONSTANTS
    Goals,         \* goal poses, already in the global frame
    MaxGoals,      \* bound on the number of goals of one behaviour
    ReplanPeriod   \* replan_period_, in clock ticks

ASSUME BridgeAssumption ==
    /\ Goals # {}
    /\ MaxGoals \in Nat
    /\ ReplanPeriod \in Nat \ {0}

VARIABLES
    goal_active,
    planning,
    goal_sequence,
    goal,
    request_age,   \* now() - last_plan_request_, or Never for the zero time
    status,        \* the last message on hybrid_navigation/status
    sent,          \* requests whose goal response is still to come
    accepted,      \* accepted requests whose result is still to come
    server_ready,  \* action_server_is_ready()
    tf_ok,         \* whether the path's frame can be transformed to odom
    scan_path,     \* the last path published for SCAN
    server_died    \* history: Nav2 died and lost what it was computing

vars == <<goal_active, planning, goal_sequence, goal, request_age, status,
          sent, accepted, server_ready, tf_ok, scan_path, server_died>>

Never == -1

\* A request is the goal it carries and the request_sequence its callbacks capture.
Request == [seq : 0..MaxGoals, goal : Goals]

RequestOf(n, g) == [seq |-> n, goal |-> g]

CurrentRequest == RequestOf(goal_sequence, goal)

\* What Nav2 may answer with.
\* usable: at least two waypoints survive the downsampling of publishPaths;
\* too_close: fewer do; too_short: fewer than two poses to begin with.
Outcome == {"failed", "too_short", "too_close", "usable"}

Status == {"WAITING_FOR_GOAL", "WAITING_FOR_NAV2", "PLANNING", "PLAN_REJECTED",
           "PLAN_FAILED", "PATH_TRANSFORM_FAILED", "FOLLOWING", "GOAL_REACHED"}

Init ==
    /\ goal_active = FALSE
    /\ planning = FALSE
    /\ goal_sequence = 0
    /\ goal \in Goals       \* a default pose, read by nothing before a goal arrives
    /\ request_age = Never
    /\ status = "WAITING_FOR_GOAL"
    /\ sent = [r \in Request |-> 0]
    /\ accepted = [r \in Request |-> 0]
    /\ server_ready = FALSE
    /\ tf_ok = FALSE
    /\ scan_path = [to |-> CurrentRequest, stamp |-> 0]
    /\ server_died = FALSE

-----------------------------------------------------------------------------
\* The early return of requestPlan(): planning_ and last_plan_request_ stay as its caller
\* left them.
serverNotReady_SetsPlanning(pl, age) ==
    /\ planning' = TRUE
    /\ request_age' = age
    /\ status' = "WAITING_FOR_NAV2"

serverNotReady_Silent(pl, age) ==
    /\ planning' = pl
    /\ request_age' = age
    /\ status' = "GOAL_RECEIVED"

serverNotReady(pl, age) ==
    /\ planning' = pl
    /\ request_age' = age
    /\ status' = "WAITING_FOR_NAV2"

\* requestPlan(): request r is sent if the action server is there.
requestPlan(r, pl, age) ==
    \/ /\ server_ready
       /\ planning' = TRUE
       /\ request_age' = 0
       /\ status' = "PLANNING"
       /\ sent' = [sent EXCEPT ![r] = @ + 1]
    \/ /\ ~server_ready
       /\ serverNotReady(pl, age)
       /\ UNCHANGED sent

\* goalCallback of either goal topic.  A pose that cannot be brought to the global frame
\* returns early and changes nothing.  GOAL_RECEIVED is overwritten by requestPlan.
goalCallback(g) ==
    /\ goal_sequence < MaxGoals
    /\ goal' = g
    /\ goal_active' = TRUE
    /\ goal_sequence' = goal_sequence + 1
    /\ requestPlan(RequestOf(goal_sequence + 1, g), FALSE, Never)
    /\ UNCHANGED <<accepted, server_ready, tf_ok, scan_path, server_died>>

\* timerCallback when goalReached() holds.
timerCallbackReached ==
    /\ goal_active
    /\ goal_active' = FALSE
    /\ status' = "GOAL_REACHED"
    /\ UNCHANGED <<planning, goal_sequence, goal, request_age, sent, accepted,
                   server_ready, tf_ok, scan_path, server_died>>

\* No answer is awaited, and last_plan_request_ is the zero time or at least
\* replan_period_ old.
MayReplan_Impatient == request_age = Never \/ request_age >= ReplanPeriod

MayReplan_NoZeroTime == ~planning /\ request_age >= ReplanPeriod

MayReplan == ~planning /\ (request_age = Never \/ request_age >= ReplanPeriod)

\* timerCallback when the robot is not at the goal, or its pose cannot be looked up.
timerCallbackReplan ==
    /\ goal_active
    /\ MayReplan
    /\ requestPlan(CurrentRequest, planning, request_age)
    /\ UNCHANGED <<goal_active, goal_sequence, goal, accepted, server_ready, tf_ok,
                   scan_path, server_died>>

\* The goal response callback, with a goal handle.
goalResponseAccepted(r) ==
    /\ sent[r] > 0
    /\ sent' = [sent EXCEPT ![r] = @ - 1]
    /\ accepted' = [accepted EXCEPT ![r] = @ + 1]
    /\ UNCHANGED <<goal_active, planning, goal_sequence, goal, request_age, status,
                   server_ready, tf_ok, scan_path, server_died>>

\* The goal response callback without one.  Unlike the result callback it does not ask
\* whether the goal is still active.
goalResponseRejected(r) ==
    /\ sent[r] > 0
    /\ sent' = [sent EXCEPT ![r] = @ - 1]
    /\ \/ /\ r.seq # goal_sequence
          /\ UNCHANGED <<planning, status>>
       \/ /\ r.seq = goal_sequence
          /\ planning' = FALSE
          /\ status' = "PLAN_REJECTED"
    /\ UNCHANGED <<goal_active, goal_sequence, goal, request_age, accepted,
                   server_ready, tf_ok, scan_path, server_died>>

\* publishPaths(): whether both paths go out.
publishPaths(outcome) == outcome = "usable" /\ tf_ok

\* The path of request r goes out; every message differs from the one before.
publishScanPath(r) == scan_path' = [to |-> r, stamp |-> 1 - scan_path.stamp]

\* Results for a superseded goal, or for a goal already reached, are dropped.
StaleResult_AnyGoal(r) == ~goal_active

StaleResult_ReachedToo(r) == r.seq # goal_sequence

StaleResult(r) == r.seq # goal_sequence \/ ~goal_active

resultCallback(r, outcome) ==
    /\ accepted[r] > 0
    /\ accepted' = [accepted EXCEPT ![r] = @ - 1]
    /\ \/ /\ StaleResult(r)
          /\ UNCHANGED <<planning, status, scan_path>>
       \/ /\ ~StaleResult(r)
          /\ planning' = FALSE
          /\ \/ /\ outcome = "failed"
                /\ status' = "PLAN_FAILED"
                /\ UNCHANGED scan_path
             \/ /\ outcome # "failed"
                /\ ~publishPaths(outcome)
                /\ status' = "PATH_TRANSFORM_FAILED"
                /\ UNCHANGED scan_path
             \/ /\ publishPaths(outcome)
                /\ publishScanPath(r)
                /\ status' = "FOLLOWING"
    /\ UNCHANGED <<goal_active, goal_sequence, goal, request_age, sent, server_ready,
                   tf_ok, server_died>>

-----------------------------------------------------------------------------
\* The environment: the clock, the action server's discovery, the TF tree.
Elapse ==
    /\ request_age \in 0..(ReplanPeriod - 1)
    /\ request_age' = request_age + 1
    /\ UNCHANGED <<goal_active, planning, goal_sequence, goal, status, sent, accepted,
                   server_ready, tf_ok, scan_path, server_died>>

ServerDiscovery ==
    /\ server_ready' = ~server_ready
    /\ UNCHANGED <<goal_active, planning, goal_sequence, goal, request_age, status,
                   sent, accepted, tf_ok, scan_path, server_died>>

\* A planner server that dies answers none of the requests it holds.
ServerDies ==
    /\ server_ready
    /\ server_ready' = FALSE
    /\ server_died' = TRUE
    /\ sent' = [r \in Request |-> 0]
    /\ accepted' = [r \in Request |-> 0]
    /\ UNCHANGED <<goal_active, planning, goal_sequence, goal, request_age, status,
                   tf_ok, scan_path>>

TransformChange ==
    /\ tf_ok' = ~tf_ok
    /\ UNCHANGED <<goal_active, planning, goal_sequence, goal, request_age, status,
                   sent, accepted, server_ready, scan_path, server_died>>

goalResponse(r) == goalResponseAccepted(r) \/ goalResponseRejected(r)

result(r) == \E outcome \in Outcome : resultCallback(r, outcome)

Next ==
    \/ \E g \in Goals : goalCallback(g)
    \/ timerCallbackReached
    \/ timerCallbackReplan
    \/ \E r \in Request : goalResponse(r)
    \/ \E r \in Request : result(r)
    \/ Elapse
    \/ ServerDiscovery
    \/ ServerDies
    \/ TransformChange

Spec == Init /\ [][Next]_vars

\* The executor keeps serving the timer, time passes, and Nav2 answers what it holds.
Fairness ==
    /\ WF_vars(timerCallbackReplan)
    /\ WF_vars(Elapse)
    /\ \A r \in Request : WF_vars(goalResponse(r)) /\ WF_vars(result(r))

FairSpec == Spec /\ Fairness

-----------------------------------------------------------------------------
TypeOK ==
    /\ goal_active \in BOOLEAN
    /\ planning \in BOOLEAN
    /\ goal_sequence \in 0..MaxGoals
    /\ goal \in Goals
    /\ request_age \in {Never} \cup 0..ReplanPeriod
    /\ status \in Status
    /\ sent \in [Request -> Nat]
    /\ accepted \in [Request -> Nat]
    /\ server_ready \in BOOLEAN
    /\ tf_ok \in BOOLEAN
    /\ scan_path \in [to : Request, stamp : {0, 1}]
    /\ server_died \in BOOLEAN

\* Requests of the newest goal are sent one at a time: one is in flight only while
\* planning_ is set, and nothing is in flight for a sequence number not yet used.  Were
\* two in flight, an old path could overwrite a newer one (requestPlan, the stale checks).
OneRequestInFlight ==
    /\ \A r \in Request :
          (sent[r] + accepted[r] > 0 /\ r.seq >= goal_sequence)
             => planning /\ r = CurrentRequest
    /\ sent[CurrentRequest] + accepted[CurrentRequest] <= 1

\* planning_ is never left set with nobody to clear it: unless Nav2 died, while the goal is
\* active a set planning_ means that an answer which will clear it is still to come.
PlanningIsAnswered ==
    goal_active /\ planning /\ ~server_died =>
        sent[CurrentRequest] + accepted[CurrentRequest] = 1

\* The published status never misleads the operator: FOLLOWING means that SCAN's last
\* path leads to the goal still being pursued, PLANNING that an answer is awaited, and
\* GOAL_REACHED that no goal is active.
StatusTruthful ==
    /\ status = "FOLLOWING" => goal_active /\ ~planning /\ scan_path.to = CurrentRequest
    /\ status = "PLANNING" => goal_active /\ planning
    /\ status = "GOAL_REACHED" => ~goal_active

\* The bridge keeps the promise of PathDelivery whatever the order of the answers.
Promise == INSTANCE PathDelivery
    WITH target <- CurrentRequest, pursued <- goal_active, delivery <- scan_path

DeliversCurrentPathsOnly == Promise!Spec

\* "While the goal is not reached, the global path is requested again every 2 s"
\* (magic_v1.0.md).  Unless Nav2 dies with a request, which nothing but its answer ends, the
\* bridge never waits forever for one answer, and never stays forever between two requests
\* while Nav2 is there: answers that come in any order, and goals that arrive, are reached
\* or are rejected in between, never stop the replanning of the next goal.
ReplannedUnlessNav2Dies ==
    \/ <>server_died
    \/ /\ []<>(~goal_active \/ ~planning)
       /\ []<>(~goal_active \/ planning \/ ~server_ready)
===============================================================================
