--------------------------- MODULE LocalPlannerProofs ---------------------------
(***************************************************************************)
(* Proofs about LocalPlanner for every parameter: the two clocks agree,    *)
(* and the robot is near the end of its trajectory when its target is      *)
(* dropped, as long as nothing is late by more than 0.2 s.                 *)
(***************************************************************************)
EXTENDS LocalPlanner, TLAPS, SequenceTheorems

\* What the parameters say.
LEMMA Parameters ==
    /\ Duration \in Nat /\ MaxLate \in Nat /\ MaxLate >= 1 /\ MaxLate < Duration
    /\ MaxStep \in Nat /\ MaxStep >= 1
    /\ QueueDepth \in Nat /\ QueueDepth >= 1
    /\ Lag \in Nat /\ Lag = MaxLate + MaxLate
    /\ NoBound \in Nat /\ NoBound = Duration + MaxLate
    /\ NoTrajectory \notin Trajectory
BY TrajectoryClockAssumption, LocalPlannerAssumption
DEF TrajectoryClockAssumption, LocalPlannerAssumption, Lag, NoBound

-----------------------------------------------------------------------------
\* Topics as sequences: the newest message is the last one until it is taken.

AllAre(q, v) == \A i \in 1..Len(q) : q[i] = v

LEMMA TailFacts ==
    ASSUME NEW S, NEW q \in Seq(S), q # <<>>
    PROVE  /\ Head(q) \in S
           /\ Tail(q) \in Seq(S) /\ Len(Tail(q)) = Len(q) - 1 /\ Len(q) >= 1
           /\ Tail(q) = <<>> => Head(q) = q[Len(q)]
           /\ Tail(q) # <<>> => Tail(q)[Len(Tail(q))] = q[Len(q)]
           /\ \A v : AllAre(q, v) => Head(q) = v /\ AllAre(Tail(q), v)
<1>1. /\ Head(q) \in S /\ Tail(q) \in Seq(S) /\ Len(Tail(q)) = Len(q) - 1
      /\ \A i \in 1..Len(Tail(q)) : Tail(q)[i] = q[i + 1]
  BY HeadTailProperties
<1>2. Len(q) \in Nat /\ Len(Tail(q)) \in Nat /\ Head(q) = q[1]
  BY <1>1
<1>3. ASSUME Tail(q) = <<>> PROVE Head(q) = q[Len(q)]
  BY <1>1, <1>2, <1>3
<1>4. ASSUME Tail(q) # <<>> PROVE Tail(q)[Len(Tail(q))] = q[Len(q)]
  <2>1. Len(Tail(q)) # 0
    BY <1>1, <1>4, EmptySeq
  <2>2. QED
    BY <1>1, <1>2, <2>1
<1>5. ASSUME NEW v, AllAre(q, v) PROVE Head(q) = v /\ AllAre(Tail(q), v)
  <2>1. 1 \in 1..Len(q) /\ \A i \in 1..Len(Tail(q)) : i + 1 \in 1..Len(q)
    BY <1>1, <1>2
  <2>2. QED
    BY <1>1, <1>2, <1>5, <2>1 DEF AllAre
<1>6. QED
  BY <1>1, <1>2, <1>3, <1>4, <1>5

LEMMA AppendFacts ==
    ASSUME NEW S, NEW q \in Seq(S), NEW m \in S
    PROVE  /\ Append(q, m) \in Seq(S) /\ Append(q, m) # <<>>
           /\ Len(Append(q, m)) = Len(q) + 1
           /\ Append(q, m)[Len(Append(q, m))] = m
           /\ AllAre(q, m) => AllAre(Append(q, m), m)
<1>1. /\ Append(q, m) \in Seq(S) /\ Append(q, m) # <<>>
      /\ Len(Append(q, m)) = Len(q) + 1
      /\ \A i \in 1..Len(q) : Append(q, m)[i] = q[i]
      /\ Append(q, m)[Len(q) + 1] = m
  BY AppendProperties
<1>2. Len(q) \in Nat
  OBVIOUS
<1>3. QED
  BY <1>1, <1>2 DEF AllAre

\* A queue that is full loses its oldest message, and never the one that comes.
LEMMA QueuedFacts ==
    ASSUME NEW S, NEW q \in Seq(S), Len(q) <= QueueDepth, NEW m \in S
    PROVE  /\ Controller!Queued(q, m) \in Seq(S) /\ Controller!Queued(q, m) # <<>>
           /\ Len(Controller!Queued(q, m)) <= QueueDepth
           /\ Controller!Queued(q, m)[Len(Controller!Queued(q, m))] = m
           /\ AllAre(q, m) => AllAre(Controller!Queued(q, m), m)
<1>0. Len(q) \in Nat /\ (q = <<>> => Len(q) = 0)
  OBVIOUS
<1>1. CASE Len(q) < QueueDepth
  <2>1. Controller!Queued(q, m) = Append(q, m)
    BY <1>1 DEF Controller!Queued
  <2>2. QED
    BY <1>0, <1>1, <2>1, AppendFacts, Parameters
<1>2. CASE ~(Len(q) < QueueDepth)
  <2>1. Controller!Queued(q, m) = Append(Tail(q), m)
    BY <1>2 DEF Controller!Queued
  <2>2. q # <<>>
    BY <1>0, <1>2, Parameters
  <2>3. /\ Tail(q) \in Seq(S) /\ Len(Tail(q)) = Len(q) - 1
        /\ AllAre(q, m) => AllAre(Tail(q), m)
    BY <2>2, TailFacts
  <2>4. PICK r \in Seq(S) :
           r = Tail(q) /\ Len(r) = Len(q) - 1 /\ (AllAre(q, m) => AllAre(r, m))
    BY <2>3
  <2>5. Controller!Queued(q, m) = Append(r, m)
    BY <2>1, <2>4
  <2>6. Len(Append(r, m)) <= QueueDepth
    BY <1>0, <2>4, AppendFacts, Parameters
  <2>7. /\ Append(r, m) \in Seq(S) /\ Append(r, m) # <<>>
        /\ Append(r, m)[Len(Append(r, m))] = m
        /\ AllAre(r, m) => AllAre(Append(r, m), m)
    BY AppendFacts
  <2>8. QED
    BY <2>4, <2>5, <2>6, <2>7, Zenon
<1>3. QED
  BY <1>1, <1>2

-----------------------------------------------------------------------------
\* Types.

\* An update moves the clock on by no more than the time since the last one.
LEMMA ProgressFacts ==
    ASSUME ClockTypeOK
    PROVE  /\ Progress \in (1 - MaxLate)..Duration
           /\ t_cur <= Progress /\ Progress <= t_cur + since_freeze
BY Parameters DEF ClockTypeOK, Progress

LEMMA ClockTypeStep == ClockTypeOK /\ [Next]_vars => ClockTypeOK'
<1> SUFFICES ASSUME ClockTypeOK, [Next]_vars PROVE ClockTypeOK'
  OBVIOUS
<1>0. MaxLate \in Nat /\ MaxLate >= 1 /\ Duration \in Nat /\ 0 \in 0..MaxLate
  BY Parameters
<1>1. CASE NewTrajectory
  <2>1. PICK p \in 0..(MaxLate - 1) : t_cur' = 0 - p /\ since_freeze' = p
    BY <1>1 DEF NewTrajectory
  <2>2. t_cur' \in (1 - MaxLate)..Duration /\ since_freeze' \in 0..MaxLate
    BY <1>0, <2>1
  <2>3. QED
    BY <1>1, <2>2 DEF NewTrajectory, ClockTypeOK, State
<1>2. CASE Update
  BY <1>0, <1>2, ProgressFacts DEF Update, ClockTypeOK
<1>3. CASE Interrupt
  BY <1>3 DEF Interrupt, ClockTypeOK, State
<1>4. CASE Freeze
  BY <1>4 DEF Freeze, ClockTypeOK
<1>5. CASE Elapse
  BY <1>0, <1>5 DEF Elapse, ClockTypeOK
<1>6. CASE UNCHANGED vars
  BY <1>6 DEF vars, ClockTypeOK
<1>7. QED
  BY <1>1, <1>2, <1>3, <1>4, <1>5, <1>6 DEF Next

\* Every step of the two nodes is one of the clock's or leaves it alone.
LEMMA ClockOfPlanner == [NextPlanner]_plannerVars => [Next]_vars
<1> SUFFICES ASSUME [NextPlanner]_plannerVars PROVE Next \/ UNCHANGED vars
  BY Zenon
<1>1. CASE Publish
  BY <1>1 DEF Publish, Next
<1>2. CASE StayQuiet
  BY <1>2 DEF StayQuiet, Next
<1>3. CASE FreezeArrives
  BY <1>3, Zenon DEF FreezeArrives, Next
<1>4. CASE TrajectoryArrives \/ OdometryArrives \/ Command
  BY <1>4 DEF TrajectoryArrives, OdometryArrives, Command
<1>5. CASE Tick
  BY <1>5 DEF Tick, Next
<1>6. CASE UNCHANGED plannerVars
  BY <1>6 DEF plannerVars
<1>7. QED
  BY <1>1, <1>2, <1>3, <1>4, <1>5, <1>6 DEF NextPlanner

\* What cmdCallback does to the controller's clock.
LEMMA CommandFacts ==
    ASSUME Controller!ControllerTypeOK, Controller!cmdCallback
    PROVE  /\ UNCHANGED <<receive_traj, ctl_have_odom, traj>>
           /\ exec_time' \in 0..Duration /\ since_update' \in 0..(MaxStep + 1)
           /\ command' \in {"none", "stop", "turn", "follow"}
           /\ command' = "turn" => execution_frozen' = Controller!Queued(execution_frozen, TRUE)
           /\ command' # "turn" => execution_frozen' = Controller!Queued(execution_frozen, FALSE)
           /\ ~(receive_traj /\ ctl_have_odom) =>
                 command' # "turn" /\ UNCHANGED <<exec_time, since_update>>
           /\ receive_traj /\ ctl_have_odom =>
                 /\ since_update' = 0
                 /\ command' = "turn" => exec_time' = exec_time
                 /\ command' # "turn" /\ since_update <= MaxStep =>
                       exec_time' = IF exec_time + since_update < Duration
                                    THEN exec_time + since_update ELSE Duration
<1> USE DEF Controller!ControllerTypeOK, Controller!publishExecutionFrozen,
            Controller!inputs
<1>1. CASE Controller!cmdWithoutInput
  BY <1>1 DEF Controller!cmdWithoutInput
<1>2. CASE Controller!cmdTurn
  BY <1>2, Parameters DEF Controller!cmdTurn
<1>3. ASSUME NEW near \in BOOLEAN, Controller!cmdFollow(near)
      PROVE  /\ exec_time' \in 0..Duration /\ since_update' \in 0..(MaxStep + 1)
             /\ since_update' = 0
             /\ command' \in {"stop", "follow"}
             /\ since_update <= MaxStep =>
                   exec_time' = IF exec_time + since_update < Duration
                                THEN exec_time + since_update ELSE Duration
  BY <1>3, Parameters DEF Controller!cmdFollow, Controller!AtMost, Controller!dt
<1>4. ASSUME NEW near \in BOOLEAN, Controller!cmdFollow(near)
      PROVE  /\ receive_traj /\ ctl_have_odom
             /\ execution_frozen' = Controller!Queued(execution_frozen, FALSE)
             /\ UNCHANGED <<receive_traj, ctl_have_odom, traj>>
  BY <1>4 DEF Controller!cmdFollow
<1>5. CASE \E near \in BOOLEAN : Controller!cmdFollow(near)
  <2>1. PICK near \in BOOLEAN : Controller!cmdFollow(near)
    BY <1>5
  <2>2. /\ exec_time' \in 0..Duration /\ since_update' \in 0..(MaxStep + 1)
        /\ since_update' = 0
        /\ command' \in {"stop", "follow"}
        /\ since_update <= MaxStep =>
              exec_time' = IF exec_time + since_update < Duration
                           THEN exec_time + since_update ELSE Duration
    BY <1>3, <2>1
  <2>3. /\ receive_traj /\ ctl_have_odom
        /\ execution_frozen' = Controller!Queued(execution_frozen, FALSE)
        /\ UNCHANGED <<receive_traj, ctl_have_odom, traj>>
    BY <1>4, <2>1
  <2>4. QED
    BY <2>2, <2>3
<1>6. QED
  BY <1>1, <1>2, <1>5 DEF Controller!cmdCallback

\* A message of the controller on a topic that keeps its type.
LEMMA FreezeTopicFacts ==
    ASSUME Controller!ControllerTypeOK, NEW m \in BOOLEAN
    PROVE  /\ Controller!Queued(execution_frozen, m) \in Seq(BOOLEAN)
           /\ Controller!Queued(execution_frozen, m) # <<>>
           /\ Len(Controller!Queued(execution_frozen, m)) <= QueueDepth
           /\ LET q == Controller!Queued(execution_frozen, m) IN q[Len(q)] = m
           /\ AllAre(execution_frozen, m)
                 => AllAre(Controller!Queued(execution_frozen, m), m)
<1>1. execution_frozen \in Seq(BOOLEAN) /\ Len(execution_frozen) <= QueueDepth
  BY DEF Controller!ControllerTypeOK
<1>2. QED
  BY <1>1, QueuedFacts

LEMMA CommandTypeStep ==
    ASSUME Controller!ControllerTypeOK, Controller!cmdCallback
    PROVE  Controller!ControllerTypeOK'
<1>1. execution_frozen' \in Seq(BOOLEAN) /\ Len(execution_frozen') <= QueueDepth
  <2>1. TRUE \in BOOLEAN /\ FALSE \in BOOLEAN
    OBVIOUS
  <2>2. \/ execution_frozen' = Controller!Queued(execution_frozen, TRUE)
        \/ execution_frozen' = Controller!Queued(execution_frozen, FALSE)
    BY CommandFacts
  <2>3. QED
    BY <2>1, <2>2, FreezeTopicFacts
<1>2. QED
  BY <1>1, CommandFacts DEF Controller!ControllerTypeOK

LEMMA PlannerTypeStep == PlannerTypeOK /\ [NextPlanner]_plannerVars => PlannerTypeOK'
<1> SUFFICES ASSUME PlannerTypeOK, [NextPlanner]_plannerVars PROVE PlannerTypeOK'
  OBVIOUS
<1>0. ClockTypeOK'
  BY ClockOfPlanner, ClockTypeStep DEF PlannerTypeOK
<1>p. /\ MaxLate \in Nat /\ Lag \in Nat /\ NoBound \in Nat /\ 0 \in 0..MaxLate
      /\ MaxStep \in Nat /\ Duration \in Nat /\ 0 \in 0..Duration /\ 0 \in 0..(MaxStep + 1)
      /\ Lag \in 0..(Lag + NoBound) /\ NoBound \in 0..(Lag + NoBound)
  BY Parameters
<1> USE <1>0 DEF PlannerTypeOK, controllerVars
<1>1. CASE Publish
  <2>1. local' \in Trajectory /\ bspline' = Controller!Queued(bspline, local')
    BY <1>1 DEF Publish, NewTrajectory
  <2>2. bspline' \in Seq(Trajectory) /\ Len(bspline') <= QueueDepth
    BY <2>1, QueuedFacts
  <2>3. QED
    BY <1>1, <2>2 DEF Publish, Controller!ControllerTypeOK
<1>2. CASE StayQuiet
  BY <1>2 DEF StayQuiet, Controller!ControllerTypeOK
<1>3. CASE FreezeArrives
  <2>1. /\ execution_frozen' \in Seq(BOOLEAN)
        /\ Len(execution_frozen') <= QueueDepth
    BY <1>3, TailFacts, Parameters DEF FreezeArrives, Controller!ControllerTypeOK
  <2>2. since_heard' \in 0..MaxLate
    BY <1>p, <1>3 DEF FreezeArrives
  <2>3. QED
    BY <1>3, <2>1, <2>2 DEF FreezeArrives, Controller!ControllerTypeOK
<1>4. CASE TrajectoryArrives
  <2>1. /\ Head(bspline) \in Trajectory /\ Tail(bspline) \in Seq(Trajectory)
        /\ Len(Tail(bspline)) <= QueueDepth
    BY <1>4, TailFacts, Parameters DEF TrajectoryArrives
  <2>2. Controller!ControllerTypeOK'
    BY <1>p, <1>4, <2>1
    DEF TrajectoryArrives, Controller!bsplineCallback, Controller!ControllerTypeOK
  <2>3. QED
    BY <1>p, <1>4, <2>1, <2>2 DEF TrajectoryArrives
<1>5. CASE OdometryArrives
  BY <1>5 DEF OdometryArrives, Controller!odomCallback, Controller!ControllerTypeOK
<1>6. CASE Command
  <2>1. Controller!ControllerTypeOK'
    BY <1>6, CommandTypeStep DEF Command
  <2>2. drift' \in 0..(Lag + NoBound)
    BY <1>p, <1>6 DEF Command
  <2>3. QED
    BY <1>p, <1>6, <2>1, <2>2 DEF Command
<1>7. CASE Tick
  <2>1. Controller!ControllerTypeOK'
    BY <1>p, <1>7 DEF Tick, Controller!TimePasses, Controller!AtMost, Controller!inputs,
                      Controller!ControllerTypeOK
  <2>2. since_cmd' \in 0..MaxLate /\ since_heard' \in 0..MaxLate
    BY <1>p, <1>7 DEF Tick
  <2>3. QED
    BY <1>p, <1>7, <2>1, <2>2 DEF Tick
<1>8. CASE UNCHANGED plannerVars
  BY <1>8 DEF plannerVars, Controller!ControllerTypeOK
<1>9. QED
  BY <1>1, <1>2, <1>3, <1>4, <1>5, <1>6, <1>7, <1>8 DEF NextPlanner

\* Every variable of the two nodes and of the topics between them keeps its type.
THEOREM PlannerTypeCorrect == SpecPlanner => []PlannerTypeOK
<1>1. InitPlanner => PlannerTypeOK
  <2> SUFFICES ASSUME InitPlanner PROVE PlannerTypeOK
    OBVIOUS
  <2>1. /\ 0 \in (1 - MaxLate)..Duration /\ 0 \in 0..MaxLate /\ 0 \in 0..Duration
        /\ 0 \in 0..(MaxStep + 1) /\ Lag \in 0..(Lag + NoBound) /\ 0 <= QueueDepth
    BY Parameters
  <2>2. /\ <<>> \in Seq(BOOLEAN) /\ Len(<<>>) = 0
        /\ <<>> \in Seq(Trajectory)
    BY EmptySeq
  <2>3. ClockTypeOK
    BY <2>1 DEF InitPlanner, Init, ClockTypeOK, State
  <2>4. Controller!ControllerTypeOK
    BY <2>1, <2>2 DEF InitPlanner, Controller!Init, Controller!ControllerTypeOK
  <2>5. QED
    BY <2>1, <2>2, <2>3, <2>4 DEF InitPlanner, PlannerTypeOK
<1>2. QED
  BY <1>1, PlannerTypeStep, PTL DEF SpecPlanner

-----------------------------------------------------------------------------
\* The two clocks as numbers: the state machine's at t with a not yet counted, the
\* controller's at e with s not yet counted.  b bounds their distance once everything the
\* controller has said has been applied; on the way there they may be c, MaxLate and the
\* time q for which its messages have been waiting apart.

Capped(x) == IF x < Duration THEN x ELSE Duration

TurnTogether(t, e, b) == t <= e + b /\ e <= t + b

FollowTogether(t, a, e, s, b) ==
    /\ Capped(t + a) <= Capped(e + s) + b
    /\ Capped(e + s) <= Capped(t + a) + b

\* A robot that turns: the state machine's clock may still run.
TurnApart(t, a, e, q, c) ==
    /\ Capped(t + a) <= e + c + MaxLate + q
    /\ e <= t + c + MaxLate

\* A robot that follows: the state machine's clock may still stand.
FollowApart(t, a, e, s, q, c) ==
    /\ Capped(e + s) <= t + c + MaxLate + q
    /\ Capped(t + a) <= Capped(e + s) + c + MaxLate

\* A tick.
LEMMA TickBounds ==
    ASSUME NEW t \in Int, NEW a \in Nat, NEW e \in Nat, NEW s \in Nat, NEW q \in Nat,
           NEW b \in Nat, NEW c \in Nat
    PROVE  /\ FollowTogether(t, a, e, s, b) => FollowTogether(t, a + 1, e, s + 1, b)
           /\ TurnApart(t, a, e, q, c) => TurnApart(t, a + 1, e, q + 1, c)
           /\ FollowApart(t, a, e, s, q, c) => FollowApart(t, a + 1, e, s + 1, q + 1, c)
BY Parameters DEF FollowTogether, TurnApart, FollowApart, Capped

\* A freeze update.
LEMMA UpdateBounds ==
    ASSUME NEW t \in Int, t <= Duration, NEW a \in Nat, NEW e \in Nat, NEW s \in Nat,
           NEW q \in Nat, NEW b \in Nat, NEW c \in Nat, NEW u
    PROVE  /\ u = Capped(t + a) /\ FollowTogether(t, a, e, s, b)
                 => FollowTogether(u, 0, e, s, b)
           /\ u \in {t, Capped(t + a)} /\ TurnApart(t, a, e, q, c) => TurnApart(u, 0, e, q, c)
           /\ u \in {t, Capped(t + a)} /\ FollowApart(t, a, e, s, q, c)
                 => FollowApart(u, 0, e, s, q, c)
BY Parameters DEF FollowTogether, TurnApart, FollowApart, Capped

\* What the messages on the way may still put between the clocks is in the bound already.
LEMMA SettleBounds ==
    ASSUME NEW t \in Int, t <= Duration, NEW a \in Nat, NEW e \in 0..Duration, NEW s \in Nat,
           NEW q \in 0..MaxLate, NEW b \in Nat, Lag <= b
    PROVE  /\ TurnApart(t, a, e, q, b - Lag) => TurnTogether(t, e, b)
           /\ FollowApart(t, a, e, s, q, b - Lag) => FollowTogether(t, a, e, s, b)
BY Parameters DEF TurnTogether, FollowTogether, TurnApart, FollowApart, Capped

\* The controller goes on turning or following ...
LEMMA FollowBounds ==
    ASSUME NEW t \in Int, NEW a \in Nat, NEW e \in 0..Duration, NEW s \in Nat,
           NEW q \in Nat, NEW b \in Nat, NEW c \in Nat, NEW f, f = Capped(e + s)
    PROVE  /\ FollowTogether(t, a, e, s, b) => FollowTogether(t, a, f, 0, b)
           /\ FollowApart(t, a, e, s, q, c) => FollowApart(t, a, f, 0, q, c)
BY Parameters DEF FollowTogether, FollowApart, Capped

\* ... or changes from one to the other.
LEMMA ChangeBounds ==
    ASSUME NEW t \in Int, t <= Duration, NEW a \in 0..MaxLate, NEW e \in 0..Duration,
           NEW s \in 0..MaxLate, NEW q \in Nat, NEW b \in Nat, NEW f, f = Capped(e + s)
    PROVE  /\ TurnTogether(t, e, b) => FollowApart(t, a, f, 0, q, b)
           /\ FollowTogether(t, a, e, s, b) => TurnApart(t, a, e, q, b)
BY Parameters DEF TurnTogether, FollowTogether, TurnApart, FollowApart, Capped

\* A trajectory arrives.
LEMMA ArriveBounds ==
    ASSUME NEW t \in Int, 1 - MaxLate <= t, NEW a \in Nat, t + a <= MaxLate, NEW q \in Nat
    PROVE  TurnApart(t, a, 0, q, 0) /\ FollowApart(t, a, 0, 0, q, 0)
BY Parameters DEF TurnApart, FollowApart, Capped

\* What the bounds say of the two clocks, and of the state machine's after an update.
LEMMA CloseBounds ==
    ASSUME NEW t \in Int, t <= Duration, NEW a \in 0..MaxLate, NEW e \in 0..Duration,
           NEW s \in 0..MaxLate, NEW q \in 0..MaxLate, NEW b \in Nat, Lag <= b
    PROVE  /\ TurnTogether(t, e, b) => t <= e + b + MaxLate /\ e <= t + b + MaxLate
           /\ FollowTogether(t, a, e, s, b) =>
                 /\ t <= e + b + MaxLate /\ e <= t + b + MaxLate
                 /\ Capped(t + a) <= e + b + MaxLate
           /\ TurnApart(t, a, e, q, b - Lag) => Capped(t + a) <= e + b + MaxLate
           /\ FollowApart(t, a, e, s, q, b - Lag) => Capped(t + a) <= e + b + MaxLate
BY Parameters DEF TurnTogether, FollowTogether, TurnApart, FollowApart, Capped

-----------------------------------------------------------------------------
\* The last word on a topic is true: the newest freeze message says what the controller
\* does, and the newest trajectory is the state machine's, which has hardly moved on it.
TopicInv ==
    /\ execution_frozen = <<>> => (go2_execution_frozen <=> Turning)
    /\ execution_frozen # <<>> => (execution_frozen[Len(execution_frozen)] <=> Turning)
    /\ bspline # <<>> =>
          /\ bspline[Len(bspline)] = local
          /\ t_cur + since_freeze <= MaxLate
          /\ since_cmd > 0 => t_cur + since_freeze <= since_cmd
    /\ bspline = <<>> /\ local # NoTrajectory => receive_traj /\ traj = local

ModeInv ==
    /\ local = NoTrajectory => bspline = <<>>
    /\ exec_state = "EXEC_TRAJ" => local # NoTrajectory
    /\ ~ctl_have_odom => ~Turning
    /\ Lag <= drift \/ NoBound <= drift
    /\ receive_traj /\ drift < NoBound =>
          /\ since_update <= since_cmd
          /\ ~ctl_have_odom => since_update = 0

\* Everything that is on its way to the state machine says what it knows already.
Settled ==
    /\ go2_execution_frozen <=> Turning
    /\ Turning => AllAre(execution_frozen, TRUE)
    /\ ~Turning => AllAre(execution_frozen, FALSE)

Together ==
    /\ Turning => TurnTogether(t_cur, exec_time, drift)
    /\ ~Turning => FollowTogether(t_cur, since_freeze, exec_time, since_update, drift)

PartlyTold ==
    /\ Turning => TurnApart(t_cur, since_freeze, exec_time, since_heard, drift - Lag)
    /\ ~Turning => FollowApart(t_cur, since_freeze, exec_time, since_update, since_heard,
                              drift - Lag)

\* Both nodes are on the same trajectory, and there is a bound to claim.
SameTrajectory == bspline = <<>> /\ local # NoTrajectory /\ drift < NoBound

ClocksInv == SameTrajectory => Together /\ (Settled \/ PartlyTold)

PlannerInv == TopicInv /\ ModeInv /\ ClocksInv

\* The types of the clocks and of the topics.
LEMMA PlannerFacts ==
    ASSUME PlannerTypeOK
    PROVE  /\ t_cur \in Int /\ t_cur <= Duration /\ 1 - MaxLate <= t_cur
           /\ since_freeze \in 0..MaxLate /\ since_freeze \in Nat
           /\ exec_time \in 0..Duration /\ exec_time \in Nat
           /\ since_update \in Nat
           /\ since_cmd \in 0..MaxLate /\ since_heard \in 0..MaxLate /\ since_heard \in Nat
           /\ drift \in Nat
           /\ go2_execution_frozen \in BOOLEAN
           /\ execution_frozen \in Seq(BOOLEAN) /\ Len(execution_frozen) <= QueueDepth
           /\ bspline \in Seq(Trajectory) /\ Len(bspline) <= QueueDepth
BY Parameters DEF PlannerTypeOK, ClockTypeOK, Controller!ControllerTypeOK

\* A trajectory is the newest message on its topic.
LEMMA TrajectoryTopicFacts ==
    ASSUME PlannerTypeOK, NEW m \in Trajectory
    PROVE  /\ Controller!Queued(bspline, m) # <<>>
           /\ LET q == Controller!Queued(bspline, m) IN q[Len(q)] = m
<1>1. bspline \in Seq(Trajectory) /\ Len(bspline) <= QueueDepth
  BY PlannerFacts
<1>2. QED
  BY <1>1, QueuedFacts

\* A run of the controller: what it does is the newest message, and if all the others said
\* the same so do all now.
LEMMA CommandSays ==
    ASSUME PlannerTypeOK, Command
    PROVE  /\ execution_frozen' # <<>>
           /\ execution_frozen'[Len(execution_frozen')] <=> Turning'
           /\ Turning' /\ AllAre(execution_frozen, TRUE) => AllAre(execution_frozen', TRUE)
           /\ ~Turning' /\ AllAre(execution_frozen, FALSE) => AllAre(execution_frozen', FALSE)
<1>0. Controller!ControllerTypeOK /\ Controller!cmdCallback
  BY DEF PlannerTypeOK, Command
<1>1. CASE command' = "turn"
  <2>1. execution_frozen' = Controller!Queued(execution_frozen, TRUE) /\ TRUE \in BOOLEAN
    BY <1>0, <1>1, CommandFacts
  <2>2. /\ execution_frozen' # <<>>
        /\ execution_frozen'[Len(execution_frozen')] = TRUE
        /\ AllAre(execution_frozen, TRUE) => AllAre(execution_frozen', TRUE)
    BY <1>0, <2>1, FreezeTopicFacts
  <2>3. QED
    BY <1>1, <2>2 DEF Turning
<1>2. CASE command' # "turn"
  <2>1. execution_frozen' = Controller!Queued(execution_frozen, FALSE) /\ FALSE \in BOOLEAN
    BY <1>0, <1>2, CommandFacts
  <2>2. /\ execution_frozen' # <<>>
        /\ execution_frozen'[Len(execution_frozen')] = FALSE
        /\ AllAre(execution_frozen, FALSE) => AllAre(execution_frozen', FALSE)
    BY <1>0, <2>1, FreezeTopicFacts
  <2>3. QED
    BY <1>2, <2>2 DEF Turning
<1>3. QED
  BY <1>1, <1>2

\* The state machine takes a message.
LEMMA FreezeArrivesFacts ==
    ASSUME PlannerTypeOK, TopicInv, FreezeArrives
    PROVE  /\ go2_execution_frozen' = Head(execution_frozen)
           /\ UNCHANGED <<exec_state, local, t_cur, since_freeze>>
           /\ UNCHANGED <<receive_traj, ctl_have_odom, traj, exec_time, since_update, command,
                          bspline, since_cmd, drift>>
           /\ execution_frozen' = <<>> => (go2_execution_frozen' <=> Turning')
           /\ execution_frozen' # <<>> =>
                 /\ since_heard' = since_heard
                 /\ execution_frozen'[Len(execution_frozen')] <=> Turning'
           /\ Settled => Settled'
<1>1. /\ execution_frozen \in Seq(BOOLEAN) /\ execution_frozen # <<>>
      /\ execution_frozen' = Tail(execution_frozen)
      /\ go2_execution_frozen \in BOOLEAN
  BY PlannerFacts DEF FreezeArrives
<1>2. /\ Head(execution_frozen) \in BOOLEAN
      /\ execution_frozen' = <<>>
           => Head(execution_frozen) = execution_frozen[Len(execution_frozen)]
      /\ execution_frozen' # <<>>
           => execution_frozen'[Len(execution_frozen')] = execution_frozen[Len(execution_frozen)]
  BY <1>1, TailFacts
<1>3. /\ AllAre(execution_frozen, TRUE)
           => Head(execution_frozen) = TRUE /\ AllAre(execution_frozen', TRUE)
      /\ AllAre(execution_frozen, FALSE)
           => Head(execution_frozen) = FALSE /\ AllAre(execution_frozen', FALSE)
  BY <1>1, TailFacts
<1>4. go2_execution_frozen' = Head(execution_frozen)
      /\ UNCHANGED <<exec_state, local, t_cur, since_freeze>>
  <2>1. CASE go2_execution_frozen = Head(execution_frozen)
    BY <2>1 DEF FreezeArrives, vars
  <2>2. CASE go2_execution_frozen # Head(execution_frozen)
    BY <1>1, <1>2, <2>2 DEF FreezeArrives, Freeze
  <2>3. QED
    BY <2>1, <2>2
<1>5. /\ UNCHANGED <<receive_traj, ctl_have_odom, traj, exec_time, since_update, command,
                     bspline, since_cmd, drift>>
      /\ execution_frozen' # <<>> => since_heard' = since_heard
  BY DEF FreezeArrives
<1>6. Turning' <=> Turning
  BY <1>5 DEF Turning
<1>7. execution_frozen[Len(execution_frozen)] <=> Turning
  BY <1>1 DEF TopicInv
<1>8. Settled => Settled'
  BY <1>3, <1>4, <1>6, Zenon DEF Settled
<1>9. QED
  BY <1>2, <1>4, <1>5, <1>6, <1>7, <1>8

LEMMA TopicStep ==
    ASSUME PlannerTypeOK, TopicInv, ModeInv, [NextPlanner]_plannerVars
    PROVE  TopicInv'
<1>0. /\ t_cur \in Int /\ since_freeze \in Nat /\ since_cmd \in Nat /\ MaxLate \in Nat
      /\ MaxLate >= 1
  BY PlannerFacts, Parameters
<1>f. ASSUME UNCHANGED <<execution_frozen, go2_execution_frozen, command>>
      PROVE  /\ execution_frozen' = <<>> => (go2_execution_frozen' <=> Turning')
             /\ execution_frozen' # <<>> =>
                   (execution_frozen'[Len(execution_frozen')] <=> Turning')
  BY <1>f DEF TopicInv, Turning
<1>1. CASE Publish
  <2>1. local' \in Trajectory /\ bspline' = Controller!Queued(bspline, local')
    BY <1>1 DEF Publish, NewTrajectory
  <2>2. bspline' # <<>> /\ bspline'[Len(bspline')] = local'
    BY <2>1, TrajectoryTopicFacts
  <2>3. t_cur' + since_freeze' = 0
    <3>1. PICK p \in 0..(MaxLate - 1) : t_cur' = 0 - p /\ since_freeze' = p
      BY <1>1 DEF Publish, NewTrajectory
    <3>2. QED
      BY <1>0, <3>1
  <2>4. UNCHANGED <<execution_frozen, go2_execution_frozen, command, since_cmd>>
    BY <1>1 DEF Publish, NewTrajectory, controllerVars
  <2>5. t_cur' + since_freeze' <= MaxLate /\ (since_cmd' > 0 => t_cur' + since_freeze' <= since_cmd')
    BY <1>0, <2>3, <2>4
  <2>6. QED
    BY <1>f, <2>2, <2>4, <2>5 DEF TopicInv
<1>2. CASE StayQuiet
  <2>1. UNCHANGED <<execution_frozen, go2_execution_frozen, command, since_cmd, bspline, local,
                   receive_traj, traj>>
    BY <1>2 DEF StayQuiet, Update, Interrupt, controllerVars
  <2>2. ASSUME NEW x \in Int, t_cur + since_freeze <= x
        PROVE  t_cur' + since_freeze' <= x
    <3>1. CASE Update
      <4>1. Progress <= t_cur + since_freeze /\ Progress \in Int
        BY ProgressFacts, Parameters DEF PlannerTypeOK
      <4>2. QED
        BY <1>0, <2>2, <3>1, <4>1 DEF Update
    <3>2. CASE Interrupt
      BY <2>2, <3>2 DEF Interrupt
    <3>3. QED
      BY <1>2, <3>1, <3>2 DEF StayQuiet
  <2>3. bspline # <<>> =>
          /\ t_cur' + since_freeze' <= MaxLate
          /\ since_cmd > 0 => t_cur' + since_freeze' <= since_cmd
    BY <1>0, <2>2 DEF TopicInv
  <2>4. QED
    BY <1>f, <2>1, <2>3 DEF TopicInv
<1>3. CASE FreezeArrives
  BY <1>3, FreezeArrivesFacts DEF TopicInv
<1>4. CASE TrajectoryArrives
  <2>1. /\ bspline # <<>> /\ bspline' = Tail(bspline)
        /\ receive_traj' = TRUE /\ traj' = Head(bspline)
        /\ UNCHANGED <<execution_frozen, go2_execution_frozen, command, since_cmd, local, t_cur,
                      since_freeze>>
    BY <1>4 DEF TrajectoryArrives, Controller!bsplineCallback, vars
  <2>2. /\ bspline' = <<>> => Head(bspline) = bspline[Len(bspline)]
        /\ bspline' # <<>> => bspline'[Len(bspline')] = bspline[Len(bspline)]
    BY <2>1, PlannerFacts, TailFacts
  <2>3. QED
    BY <1>f, <2>1, <2>2 DEF TopicInv
<1>5. CASE OdometryArrives
  BY <1>f, <1>5 DEF OdometryArrives, Controller!odomCallback, vars, TopicInv
<1>6. CASE Command
  <2>1. /\ UNCHANGED <<bspline, local, t_cur, since_freeze, go2_execution_frozen>>
        /\ since_cmd' = 0
    BY <1>6 DEF Command, vars
  <2>2. UNCHANGED <<receive_traj, traj>>
    BY <1>6, CommandFacts DEF Command, PlannerTypeOK
  <2>3. /\ execution_frozen' # <<>>
        /\ execution_frozen'[Len(execution_frozen')] <=> Turning'
    BY <1>6, CommandSays
  <2>4. QED
    BY <2>1, <2>2, <2>3 DEF TopicInv
<1>7. CASE Tick
  <2>1. /\ UNCHANGED <<execution_frozen, go2_execution_frozen, command, local, bspline, t_cur,
                      receive_traj, traj>>
        /\ since_freeze' = since_freeze + 1 /\ since_cmd' = since_cmd + 1
        /\ since_cmd < MaxLate /\ (since_cmd = 0 => bspline = <<>>)
    BY <1>7 DEF Tick, Elapse, Controller!TimePasses, Controller!inputs
  <2>2. bspline' # <<>> =>
          /\ t_cur' + since_freeze' <= MaxLate
          /\ since_cmd' > 0 => t_cur' + since_freeze' <= since_cmd'
    BY <1>0, <2>1 DEF TopicInv
  <2>3. QED
    BY <1>f, <2>1, <2>2 DEF TopicInv
<1>8. CASE UNCHANGED plannerVars
  BY <1>f, <1>8 DEF plannerVars, controllerVars, vars, TopicInv
<1>9. QED
  BY <1>1, <1>2, <1>3, <1>4, <1>5, <1>6, <1>7, <1>8 DEF NextPlanner

LEMMA ModeStep ==
    ASSUME PlannerTypeOK, TopicInv, ModeInv, [NextPlanner]_plannerVars
    PROVE  ModeInv'
<1>0. /\ since_update \in Nat /\ since_cmd \in Nat /\ drift \in Nat /\ Lag \in Nat
      /\ NoBound \in Nat /\ MaxStep \in Nat /\ NoTrajectory \notin Trajectory
  BY PlannerFacts, Parameters
<1> USE DEF ModeInv, Turning
<1>1. CASE Publish
  BY <1>0, <1>1 DEF Publish, NewTrajectory, controllerVars
<1>2. CASE StayQuiet
  BY <1>2 DEF StayQuiet, Update, Interrupt, controllerVars
<1>3. CASE FreezeArrives
  <2>1. UNCHANGED <<exec_state, local, bspline, receive_traj, ctl_have_odom, command, drift,
                   since_update, since_cmd>>
    BY <1>3, FreezeArrivesFacts DEF FreezeArrives
  <2>2. QED
    BY <2>1
<1>4. CASE TrajectoryArrives
  <2>1. /\ bspline # <<>>
        /\ since_update' = 0 /\ drift' = Lag
        /\ UNCHANGED <<exec_state, local, ctl_have_odom, command, since_cmd>>
    BY <1>4 DEF TrajectoryArrives, Controller!bsplineCallback, vars
  <2>2. local # NoTrajectory
    BY <2>1
  <2>3. since_update' <= since_cmd' /\ Lag <= drift'
    BY <1>0, <2>1
  <2>4. QED
    BY <2>1, <2>2, <2>3
<1>5. CASE OdometryArrives
  BY <1>5 DEF OdometryArrives, Controller!odomCallback, vars
<1>6. CASE Command
  <2>1. /\ UNCHANGED <<exec_state, local, bspline>>
        /\ drift' = (IF Turning' = Turning THEN drift
                     ELSE IF drift + Lag < NoBound THEN drift + Lag ELSE NoBound)
    BY <1>6 DEF Command, vars
  <2>2. /\ UNCHANGED <<receive_traj, ctl_have_odom>>
        /\ ~(receive_traj /\ ctl_have_odom) =>
              command' # "turn" /\ UNCHANGED since_update
        /\ receive_traj /\ ctl_have_odom => since_update' = 0
        /\ since_cmd' = 0
    BY <1>6, CommandFacts DEF Command, PlannerTypeOK
  <2>3. /\ Lag <= drift' \/ NoBound <= drift'
        /\ drift <= drift' \/ NoBound <= drift'
    BY <1>0, <2>1
  <2>4. drift' < NoBound => drift < NoBound
    BY <1>0, <2>1
  <2>5. receive_traj' /\ drift' < NoBound =>
           /\ since_update' <= since_cmd'
           /\ ~ctl_have_odom' => since_update' = 0
    <3>1. CASE receive_traj /\ ctl_have_odom
      BY <2>2, <3>1
    <3>2. CASE receive_traj /\ ~ctl_have_odom
      BY <2>2, <2>4, <3>2
    <3>3. CASE ~receive_traj
      BY <2>2, <3>3
    <3>4. QED
      BY <3>1, <3>2, <3>3
  <2>6. ~ctl_have_odom' => ~Turning'
    BY <2>2
  <2>7. QED
    BY <2>1, <2>3, <2>5, <2>6
<1>7. CASE Tick
  <2>1. /\ UNCHANGED <<exec_state, local, bspline, receive_traj, ctl_have_odom, command>>
        /\ since_update' <= since_update + 1
        /\ since_cmd' = since_cmd + 1
        /\ drift' = IF receive_traj /\ ~ctl_have_odom THEN NoBound ELSE drift
    BY <1>0, <1>7 DEF Tick, Elapse, Controller!TimePasses, Controller!inputs,
                      Controller!AtMost
  <2>2. since_update' \in Nat
    BY <1>0, <1>7 DEF Tick, Controller!TimePasses, Controller!AtMost
  <2>3. QED
    BY <1>0, <2>1, <2>2
<1>8. CASE UNCHANGED plannerVars
  BY <1>8 DEF plannerVars, controllerVars, vars
<1>9. QED
  BY <1>1, <1>2, <1>3, <1>4, <1>5, <1>6, <1>7, <1>8 DEF NextPlanner

\* The two clocks come no further apart than the bound in any step of the two nodes.
LEMMA ClocksStep ==
    ASSUME MaxLate <= MaxStep, PlannerTypeOK, PlannerTypeOK', TopicInv, TopicInv', ModeInv,
           ModeInv', ClocksInv, [NextPlanner]_plannerVars
    PROVE  ClocksInv'
<1> SUFFICES ASSUME SameTrajectory' PROVE Together' /\ (Settled' \/ PartlyTold')
  BY DEF ClocksInv
<1>0. /\ t_cur \in Int /\ t_cur <= Duration /\ 1 - MaxLate <= t_cur
      /\ since_freeze \in 0..MaxLate /\ since_freeze \in Nat
      /\ exec_time \in 0..Duration /\ exec_time \in Nat /\ since_update \in Nat
      /\ since_heard \in 0..MaxLate /\ since_heard \in Nat /\ drift \in Nat
      /\ Lag \in Nat /\ NoBound \in Nat /\ MaxLate \in Nat /\ Duration \in Nat
  BY PlannerFacts, Parameters
<1>1. Lag <= drift' /\ drift' < NoBound /\ drift' \in Nat
  BY Parameters, PlannerFacts DEF SameTrajectory, ModeInv, PlannerTypeOK
<1>2. PartlyTold' => Together'
  <2>1. /\ t_cur' \in Int /\ t_cur' <= Duration /\ since_freeze' \in Nat
        /\ exec_time' \in 0..Duration /\ since_update' \in Nat
        /\ since_heard' \in 0..MaxLate
    BY Parameters DEF PlannerTypeOK, ClockTypeOK, Controller!ControllerTypeOK
  <2>2. QED
    BY <1>1, <2>1, SettleBounds DEF PartlyTold, Together
<1>c. ASSUME SameTrajectory
      PROVE  /\ Together /\ (Settled \/ PartlyTold)
             /\ receive_traj /\ traj = local
             /\ since_update <= since_cmd /\ since_update \in 0..MaxLate
             /\ Lag <= drift /\ drift - Lag \in Nat
  <2>1. receive_traj /\ traj = local /\ drift < NoBound
    BY <1>c DEF SameTrajectory, TopicInv
  <2>2. since_update <= since_cmd /\ since_cmd \in 0..MaxLate
    BY <2>1, PlannerFacts DEF ModeInv
  <2>3. Lag <= drift
    BY <1>0, <2>1 DEF ModeInv
  <2>4. QED
    BY <1>0, <1>c, <2>1, <2>2, <2>3 DEF ClocksInv
<1>3. CASE Publish
  <2>1. bspline' # <<>>
    <3>1. local' \in Trajectory /\ bspline' = Controller!Queued(bspline, local')
      BY <1>3 DEF Publish, NewTrajectory
    <3>2. QED
      BY <3>1, TrajectoryTopicFacts
  <2>2. QED
    BY <2>1 DEF SameTrajectory
<1>4. CASE StayQuiet
  <2>1. UNCHANGED <<controllerVars, bspline, since_cmd, since_heard, drift, local,
                   go2_execution_frozen>>
    BY <1>4 DEF StayQuiet, Update, Interrupt
  <2>2. SameTrajectory /\ (Settled => Settled') /\ (Turning' <=> Turning)
    BY <2>1 DEF SameTrajectory, Settled, Turning, controllerVars
  <2>3. CASE Interrupt
    BY <1>c, <2>1, <2>2, <2>3
    DEF Interrupt, Together, PartlyTold, controllerVars
  <2>4. CASE Update
    <3>1. t_cur' = Progress /\ since_freeze' = 0
      BY <2>4 DEF Update
    <3>2. local # NoTrajectory /\ since_freeze <= MaxStep
      BY <1>0, <2>2, Parameters DEF SameTrajectory
    <3>3. /\ go2_execution_frozen => Progress = t_cur
          /\ ~go2_execution_frozen => Progress = Capped(t_cur + since_freeze)
      BY <3>2 DEF Progress, Capped
    <3>4. PartlyTold => PartlyTold'
      <4>1. Progress \in {t_cur, Capped(t_cur + since_freeze)}
        BY <3>3
      <4>2. QED
        BY <1>0, <1>c, <2>1, <2>2, <3>1, <4>1, UpdateBounds DEF PartlyTold, controllerVars
    <3>5. Settled => Together'
      <4>1. CASE Settled /\ Turning
        <5>1. t_cur' = t_cur
          BY <3>1, <3>3, <4>1 DEF Settled
        <5>2. QED
          BY <1>c, <2>1, <2>2, <4>1, <5>1 DEF Together, controllerVars
      <4>2. CASE Settled /\ ~Turning
        <5>1. t_cur' = Capped(t_cur + since_freeze)
          BY <3>1, <3>3, <4>2 DEF Settled
        <5>2. QED
          BY <1>0, <1>c, <2>1, <2>2, <3>1, <4>2, <5>1, UpdateBounds
          DEF Together, controllerVars
      <4>3. QED
        BY <4>1, <4>2
    <3>6. QED
      BY <1>2, <1>c, <2>2, <3>4, <3>5
  <2>5. QED
    BY <1>4, <2>3, <2>4 DEF StayQuiet
<1>5. CASE FreezeArrives
  <2>1. UNCHANGED <<local, t_cur, since_freeze, exec_time, since_update, command, bspline,
                   drift>>
    BY <1>5, FreezeArrivesFacts
  <2>2. SameTrajectory /\ (Turning' <=> Turning) /\ (Settled => Settled')
    BY <1>5, <2>1, FreezeArrivesFacts DEF SameTrajectory, Turning
  <2>3. Together'
    BY <1>c, <2>1, <2>2 DEF Together
  <2>4. CASE execution_frozen' = <<>>
    <3>1. go2_execution_frozen' <=> Turning'
      BY <1>5, <2>4, FreezeArrivesFacts
    <3>2. AllAre(execution_frozen', TRUE) /\ AllAre(execution_frozen', FALSE)
      BY <2>4 DEF AllAre
    <3>3. QED
      BY <2>3, <3>1, <3>2 DEF Settled
  <2>5. CASE execution_frozen' # <<>>
    <3>1. since_heard' = since_heard
      BY <1>5, <2>5, FreezeArrivesFacts
    <3>2. PartlyTold => PartlyTold'
      BY <2>1, <2>2, <3>1 DEF PartlyTold
    <3>3. QED
      BY <1>c, <2>2, <2>3, <3>2
  <2>6. QED
    BY <2>4, <2>5
<1>6. CASE TrajectoryArrives
  <2>1. /\ exec_time' = 0 /\ since_update' = 0 /\ drift' = Lag /\ bspline # <<>>
        /\ UNCHANGED <<t_cur, since_freeze, since_heard>>
    BY <1>6 DEF TrajectoryArrives, Controller!bsplineCallback, vars
  <2>2. t_cur + since_freeze <= MaxLate /\ drift' - Lag = 0
    BY <1>0, <2>1 DEF TopicInv
  <2>3. PartlyTold'
    BY <1>0, <2>1, <2>2, ArriveBounds DEF PartlyTold
  <2>4. QED
    BY <1>2, <2>3
<1>7. CASE OdometryArrives
  <2>1. UNCHANGED <<vars, bspline, since_heard, drift, exec_time, since_update, command,
                   execution_frozen>>
    BY <1>7 DEF OdometryArrives, Controller!odomCallback
  <2>2. QED
    BY <1>c, <2>1 DEF vars, SameTrajectory, Together, PartlyTold, Settled, Turning
<1>8. CASE Command
  <2>1. /\ UNCHANGED <<local, t_cur, since_freeze, go2_execution_frozen, bspline, since_heard>>
        /\ drift' = (IF Turning' = Turning THEN drift
                     ELSE IF drift + Lag < NoBound THEN drift + Lag ELSE NoBound)
        /\ Controller!cmdCallback /\ Controller!ControllerTypeOK
    BY <1>8 DEF Command, vars, PlannerTypeOK
  <2>2. SameTrajectory
    BY <1>0, <1>1, <2>1 DEF SameTrajectory
  <2>3. receive_traj /\ (~ctl_have_odom => ~Turning /\ since_update = 0)
    BY <1>c, <2>2 DEF ModeInv, SameTrajectory
  <2>4. since_update <= MaxStep
    BY <1>c, <2>2, Parameters
  <2>5. /\ Turning' => exec_time' = exec_time /\ ctl_have_odom
        /\ ~Turning' => exec_time' = Capped(exec_time + since_update) /\ since_update' = 0
    <3>1. CASE ctl_have_odom
      BY <2>1, <2>3, <2>4, <3>1, CommandFacts DEF Turning, Capped
    <3>2. CASE ~ctl_have_odom
      <4>1. /\ command' # "turn" /\ exec_time' = exec_time /\ since_update' = since_update
            /\ since_update = 0
        BY <2>1, <2>3, <3>2, CommandFacts
      <4>2. exec_time = Capped(exec_time + since_update)
        BY <1>0, <4>1 DEF Capped
      <4>3. QED
        BY <4>1, <4>2 DEF Turning
    <3>3. QED
      BY <3>1, <3>2
  <2>d. /\ (Turning' <=> Turning) => drift' = drift
        /\ ~(Turning' <=> Turning) => drift' = drift + Lag /\ drift' - Lag = drift
    <3>1. CASE Turning' <=> Turning
      BY <2>1, <3>1 DEF Turning
    <3>2. CASE ~(Turning' <=> Turning)
      <4>1. drift' = IF drift + Lag < NoBound THEN drift + Lag ELSE NoBound
        BY <2>1, <3>2 DEF Turning
      <4>2. QED
        BY <1>0, <1>1, <3>2, <4>1
    <3>3. QED
      BY <3>1, <3>2
  <2>6. CASE Turning' /\ Turning
    <3>1. drift' = drift
      BY <2>d, <2>6
    <3>2. Together'
      BY <1>c, <2>1, <2>2, <2>5, <2>6, <3>1 DEF Together
    <3>3. Settled => Settled'
      BY <1>8, <2>1, <2>6, CommandSays DEF Settled
    <3>4. PartlyTold => PartlyTold'
      BY <2>1, <2>5, <2>6, <3>1 DEF PartlyTold
    <3>5. QED
      BY <1>c, <2>2, <3>2, <3>3, <3>4
  <2>7. CASE ~Turning' /\ ~Turning
    <3>1. drift' = drift
      BY <2>d, <2>7
    <3>2. Together'
      BY <1>0, <1>c, <2>1, <2>2, <2>5, <2>7, <3>1, FollowBounds DEF Together
    <3>3. Settled => Settled'
      BY <1>8, <2>1, <2>7, CommandSays DEF Settled
    <3>4. PartlyTold => PartlyTold'
      <4>1. PICK c \in Nat : c = drift - Lag /\ c = drift' - Lag
        BY <1>c, <2>2, <3>1
      <4>2. FollowApart(t_cur, since_freeze, exec_time, since_update, since_heard, c)
              => FollowApart(t_cur, since_freeze, exec_time', 0, since_heard, c)
        BY <1>0, <2>5, <2>7, FollowBounds
      <4>3. QED
        BY <2>1, <2>5, <2>7, <4>1, <4>2 DEF PartlyTold
    <3>5. QED
      BY <1>c, <2>2, <3>2, <3>3, <3>4
  <2>8. CASE Turning' /\ ~Turning
    <3>1. drift' - Lag = drift
      BY <2>d, <2>8
    <3>2. PartlyTold'
      BY <1>0, <1>c, <2>1, <2>2, <2>5, <2>8, <3>1, ChangeBounds DEF Together, PartlyTold
    <3>3. QED
      BY <1>2, <3>2
  <2>9. CASE ~Turning' /\ Turning
    <3>1. drift' - Lag = drift
      BY <2>d, <2>9
    <3>2. PartlyTold'
      <4>1. TurnTogether(t_cur, exec_time, drift) /\ since_update \in 0..MaxLate
        BY <1>c, <2>2, <2>9 DEF Together
      <4>2. exec_time' = Capped(exec_time + since_update)
        BY <2>5, <2>9
      <4>3. FollowApart(t_cur, since_freeze, exec_time', 0, since_heard, drift)
        BY <1>0, <4>1, <4>2, ChangeBounds
      <4>4. QED
        BY <2>1, <2>5, <2>9, <3>1, <4>3 DEF PartlyTold
    <3>3. QED
      BY <1>2, <3>2
  <2>10. QED
    BY <2>6, <2>7, <2>8, <2>9
<1>9. CASE Tick
  <2>1. /\ UNCHANGED <<local, t_cur, go2_execution_frozen, bspline, exec_time, command,
                      execution_frozen>>
        /\ since_freeze' = since_freeze + 1
        /\ since_heard' = IF execution_frozen = <<>> THEN 0 ELSE since_heard + 1
        /\ drift' = IF receive_traj /\ ~ctl_have_odom THEN NoBound ELSE drift
    BY <1>9 DEF Tick, Elapse, Controller!TimePasses, Controller!inputs
  <2>2. drift' = drift
    BY <1>0, <1>1, <2>1
  <2>3. SameTrajectory /\ (Turning' <=> Turning) /\ (Settled => Settled')
    BY <2>1, <2>2 DEF SameTrajectory, Settled, Turning
  <2>4. since_update' = since_update + 1
    <3>1. since_cmd < MaxLate /\ since_cmd \in Nat
      BY <1>9, PlannerFacts, Parameters DEF Tick
    <3>2. since_update + 1 <= MaxStep /\ MaxStep \in Nat
      BY <1>0, <1>c, <2>3, <3>1, Parameters
    <3>3. QED
      BY <1>0, <1>9, <3>2 DEF Tick, Controller!TimePasses, Controller!AtMost
  <2>5. Settled => Together'
    BY <1>0, <1>c, <2>1, <2>2, <2>3, <2>4, TickBounds DEF Together
  <2>6. ASSUME PartlyTold, ~Settled PROVE PartlyTold'
    <3>1. execution_frozen # <<>>
      <4>1. ASSUME execution_frozen = <<>> PROVE FALSE
        <5>1. AllAre(execution_frozen, TRUE) /\ AllAre(execution_frozen, FALSE)
          BY <4>1 DEF AllAre
        <5>2. QED
          BY <2>6, <4>1, <5>1 DEF Settled, TopicInv
      <4>2. QED
        BY <4>1
    <3>2. since_heard' = since_heard + 1
      BY <2>1, <3>1
    <3>3. QED
      <4>1. PICK c \in Nat : c = drift - Lag /\ c = drift' - Lag
        BY <1>c, <2>2, <2>3
      <4>2. /\ TurnApart(t_cur, since_freeze, exec_time, since_heard, c)
                => TurnApart(t_cur, since_freeze + 1, exec_time, since_heard + 1, c)
            /\ FollowApart(t_cur, since_freeze, exec_time, since_update, since_heard, c)
                => FollowApart(t_cur, since_freeze + 1, exec_time, since_update + 1,
                               since_heard + 1, c)
        BY <1>0, TickBounds
      <4>3. QED
        BY <2>1, <2>3, <2>4, <2>6, <3>2, <4>1, <4>2 DEF PartlyTold
  <2>7. QED
    BY <1>2, <1>c, <2>3, <2>5, <2>6
<1>10. CASE UNCHANGED plannerVars
  <2>1. UNCHANGED <<vars, controllerVars, bspline, since_heard, drift>>
    BY <1>10 DEF plannerVars
  <2>2. QED
    BY <1>c, <2>1
    DEF vars, controllerVars, SameTrajectory, Together, PartlyTold, Settled, Turning
<1>11. QED
  BY <1>3, <1>4, <1>5, <1>6, <1>7, <1>8, <1>9, <1>10 DEF NextPlanner

\* The clocks stay within their bounds.
LEMMA PlannerInvariant == MaxLate <= MaxStep => (SpecPlanner => []PlannerInv)
<1> SUFFICES ASSUME MaxLate <= MaxStep PROVE SpecPlanner => []PlannerInv
  OBVIOUS
<1>1. InitPlanner => PlannerInv
  <2> SUFFICES ASSUME InitPlanner PROVE PlannerInv
    OBVIOUS
  <2>1. /\ local = NoTrajectory /\ exec_state = "OTHER" /\ go2_execution_frozen = FALSE
        /\ bspline = <<>> /\ execution_frozen = <<>> /\ command = "none"
        /\ receive_traj = FALSE /\ drift = Lag
    BY DEF InitPlanner, Init, Controller!Init
  <2>2. TopicInv
    BY <2>1 DEF TopicInv, Turning
  <2>3. ModeInv
    BY <2>1, Parameters DEF ModeInv, Turning
  <2>4. ClocksInv
    BY <2>1 DEF ClocksInv, SameTrajectory
  <2>5. QED
    BY <2>2, <2>3, <2>4 DEF PlannerInv
<1>2. PlannerTypeOK /\ PlannerTypeOK' /\ PlannerInv /\ [NextPlanner]_plannerVars => PlannerInv'
  BY TopicStep, ModeStep, ClocksStep DEF PlannerInv
<1>3. QED
  BY <1>1, <1>2, PlannerTypeCorrect, PTL DEF SpecPlanner

\* In every state: the two clocks, and the state machine's after an update.
LEMMA PlannerInvBounds ==
    ASSUME MaxLate <= MaxStep, PlannerTypeOK, PlannerInv, bspline = <<>>, local # NoTrajectory
    PROVE  /\ t_cur <= exec_time + Apart /\ exec_time <= t_cur + Apart
           /\ Progress <= exec_time + Apart
<1>0. /\ t_cur \in Int /\ t_cur <= Duration /\ 1 - MaxLate <= t_cur
      /\ since_freeze \in 0..MaxLate /\ exec_time \in 0..Duration /\ since_update \in Nat
      /\ since_heard \in 0..MaxLate /\ since_cmd \in 0..MaxLate /\ drift \in Nat
      /\ go2_execution_frozen \in BOOLEAN
      /\ Lag \in Nat /\ NoBound = Duration + MaxLate /\ MaxLate \in Nat /\ Duration \in Nat
      /\ MaxStep \in Nat /\ Apart = drift + MaxLate
  BY PlannerFacts, Parameters DEF Apart
<1>1. /\ go2_execution_frozen => Progress = t_cur
      /\ ~go2_execution_frozen => Progress = Capped(t_cur + since_freeze)
      /\ Progress <= Duration /\ Progress \in Int
  BY <1>0 DEF Progress, Capped
<1>2. CASE NoBound <= drift
  BY <1>0, <1>1, <1>2
<1>3. CASE drift < NoBound
  <2>1. Together /\ (Settled \/ PartlyTold)
    BY <1>3 DEF PlannerInv, ClocksInv, SameTrajectory
  <2>2. since_update \in 0..MaxLate /\ Lag <= drift
    BY <1>0, <1>3 DEF PlannerInv, ModeInv, TopicInv
  <2>3. t_cur <= exec_time + drift + MaxLate /\ exec_time <= t_cur + drift + MaxLate
    BY <1>0, <2>1, <2>2, CloseBounds DEF Together
  <2>4. CASE go2_execution_frozen
    BY <1>0, <1>1, <2>3, <2>4
  <2>5. CASE ~go2_execution_frozen
    <3>1. Capped(t_cur + since_freeze) <= exec_time + drift + MaxLate
      <4>1. CASE Settled
        BY <1>0, <2>1, <2>2, <2>5, <4>1, CloseBounds DEF Together, Settled
      <4>2. CASE PartlyTold
        BY <1>0, <2>2, <4>2, CloseBounds DEF PartlyTold
      <4>3. QED
        BY <2>1, <4>1, <4>2
    <3>2. QED
      BY <1>0, <1>1, <2>3, <2>5, <3>1
  <2>6. QED
    BY <1>0, <2>4, <2>5
<1>4. QED
  BY <1>0, <1>2, <1>3

\* The clocks of the two nodes stay together, for every length of a trajectory, every queue
\* and every order and lateness of the timers and the messages up to 0.2 s.
THEOREM ClocksStayTogether == MaxLate <= MaxStep => (SpecPlanner => []ClocksAgree)
<1> SUFFICES ASSUME MaxLate <= MaxStep PROVE SpecPlanner => []ClocksAgree
  OBVIOUS
<1>1. PlannerTypeOK /\ PlannerInv => ClocksAgree
  <2> SUFFICES ASSUME PlannerTypeOK, PlannerInv, bspline = <<>>, local # NoTrajectory
               PROVE  /\ receive_traj /\ traj = local
                      /\ t_cur <= exec_time + Apart /\ exec_time <= t_cur + Apart
    BY DEF ClocksAgree
  <2>1. receive_traj /\ traj = local
    BY DEF PlannerInv, TopicInv
  <2>2. QED
    BY <2>1, PlannerInvBounds
<1>2. QED
  BY <1>1, PlannerInvariant, PlannerTypeCorrect, PTL

\* When the target is dropped at the end of the state machine's clock, the controller is on
\* the same trajectory and no further from its end than the clocks are apart.
THEOREM RobotArrives == MaxLate <= MaxStep => (SpecPlanner => ArrivesWithTheRobot)
<1> SUFFICES ASSUME MaxLate <= MaxStep PROVE SpecPlanner => ArrivesWithTheRobot
  OBVIOUS
<1>1. PlannerTypeOK /\ PlannerInv /\ [NextPlanner]_plannerVars
        => [exec_state = "EXEC_TRAJ" /\ exec_state' = "WAIT_TARGET"
              => traj = local /\ exec_time >= Duration - Apart]_plannerVars
  <2> SUFFICES ASSUME PlannerTypeOK, PlannerInv, [NextPlanner]_plannerVars,
                      exec_state = "EXEC_TRAJ", exec_state' = "WAIT_TARGET"
               PROVE  traj = local /\ exec_time >= Duration - Apart
    OBVIOUS
  <2>1. Update
    <3>1. [Next]_vars
      BY ClockOfPlanner
    <3>2. QED
      BY <3>1 DEF Next, vars, NewTrajectory, Interrupt, Freeze, Elapse
  <2>2. Progress = Duration
    BY <2>1 DEF Update
  <2>3. local # NoTrajectory
    BY DEF PlannerInv, ModeInv
  <2>4. bspline = <<>>
    <3>1. ASSUME bspline # <<>> PROVE FALSE
      <4>1. t_cur + since_freeze <= MaxLate
        BY <3>1 DEF PlannerInv, TopicInv
      <4>2. Progress <= t_cur + since_freeze
        BY ProgressFacts DEF PlannerTypeOK
      <4>3. t_cur \in Int /\ since_freeze \in Nat
        BY PlannerFacts
      <4>4. QED
        BY <2>2, <4>1, <4>2, <4>3, Parameters
    <3>2. QED
      BY <3>1
  <2>5. Progress <= exec_time + Apart
    BY <2>3, <2>4, PlannerInvBounds
  <2>6. exec_time \in Nat /\ Apart \in Nat /\ Duration \in Nat
    BY PlannerFacts, Parameters DEF Apart
  <2>7. traj = local
    BY <2>3, <2>4 DEF PlannerInv, TopicInv
  <2>8. QED
    BY <2>2, <2>5, <2>6, <2>7
<1>2. QED
  BY <1>1, PlannerInvariant, PlannerTypeCorrect, PTL DEF SpecPlanner, ArrivesWithTheRobot
================================================================================
