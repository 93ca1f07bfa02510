--------------------------- MODULE SportBridgeProofs ---------------------------
(***************************************************************************)
(* Proofs about SportBridge for every choice of timeouts, periods and      *)
(* positions.  That the robot is stopped within one timer period follows   *)
(* from comparing two clocks: while the last request is a Move, the time   *)
(* for which the inputs have been bad is at most the age of the timer.     *)
(* The argument needs the flag stop_sent_ to agree with the last request,  *)
(* for the timer stops the robot only when the flag is unset.              *)
(***************************************************************************)
EXTENDS SportBridge, TLAPS

\* What is known of the executor before shutdown begins.
ExecInv ==
    /\ exec = "idle" => (stop_sent <=> last_request # "Move")
    /\ exec = "moved" => last_request = "Move"
    /\ exec = "stopped" => last_request # "Move"
    /\ exec = "move" => have_cmd
    /\ last_request = "Move" => have_cmd

DelayInv ==
    /\ unbacked_for \in Nat /\ timer_age \in Nat /\ timer_age <= TimerPeriod
    /\ exec = "idle" /\ last_request = "Move" => unbacked_for <= timer_age
    /\ exec \in {"move", "moved"} => unbacked_for = 0
    /\ exec = "stop" => unbacked_for <= TimerPeriod

\* "stopped" and "moved" are reached from "stop" and "move" only.
ExecTypes == exec \in {"idle", "move", "moved", "stop", "stopped"}

Inv == (shutdown = "no" => ExecInv /\ DelayInv) /\ ExecTypes

LEMMA InitInv == Init => Inv
BY SportAssumption DEF Init, Inv, ExecInv, DelayInv, ExecTypes

LEMMA NextInv == Inv /\ [Next]_vars => Inv'
<1> SUFFICES ASSUME Inv, [Next]_vars PROVE Inv'
  OBVIOUS
<1> USE SportAssumption
<1>1. ASSUME shutdown' = "no", shutdown = "no", Next PROVE ExecInv' /\ DelayInv' /\ ExecTypes'
  <2> USE <1>1 DEF Inv, ExecTypes
  <2>0. RecordHistory
    BY DEF Next
  <2>1. ASSUME UNCHANGED <<control, timer_age>>, have_cmd => have_cmd'
        PROVE  ExecInv' /\ DelayInv' /\ ExecTypes'
    <3>1. unbacked_for' \in {0, unbacked_for}
      BY <2>0, <2>1 DEF RecordHistory, DelayInv
    <3> QED
      BY <2>1, <3>1 DEF ExecInv, DelayInv, control
  <2>2. CASE cmdVelCallback
    BY <2>1, <2>2 DEF cmdVelCallback
  <2>3. CASE \E p \in Positions \cup {NaN} : odomCallback(p)
    BY <2>1, <2>3 DEF odomCallback
  <2>4. CASE \E confident \in BOOLEAN : localizationCallback(confident)
    BY <2>1, <2>4 DEF localizationCallback
  <2>5. CASE publishCommand
    <3>1. /\ Backed' = Backed /\ have_cmd' = have_cmd /\ stop_sent' = stop_sent
          /\ last_request' = last_request /\ timer_age' = 0 /\ exec = "idle"
      BY <2>5 DEF publishCommand, inputs, ExecutorFree, Backed, safetyReady
    <3>2. unbacked_for' \in {0, unbacked_for}
      BY <2>0, <3>1 DEF RecordHistory, DelayInv
    <3>3. CASE Backed
      <4>1. exec' = "move" /\ unbacked_for' = 0
        BY <2>0, <2>5, <3>1, <3>3 DEF publishCommand, Decision, RecordHistory
      <4> QED
        BY <3>1, <3>3, <4>1 DEF ExecInv, DelayInv, Backed
    <3>4. CASE ~Backed
      <4>1. CASE have_cmd /\ ~stop_sent
        <5>1. exec' = "stop"
          BY <2>5, <3>4, <4>1 DEF publishCommand, Decision
        <5> QED
          BY <3>1, <3>2, <4>1, <5>1 DEF ExecInv, DelayInv
      <4>2. CASE ~(have_cmd /\ ~stop_sent)
        <5>1. exec' = "idle"
          BY <2>5, <3>4, <4>2 DEF publishCommand, Decision
        <5>2. last_request # "Move"
          BY <3>1, <4>2 DEF ExecInv
        <5> QED
          BY <3>1, <3>2, <5>1, <5>2 DEF ExecInv, DelayInv
      <4> QED
        BY <4>1, <4>2
    <3> QED
      BY <3>3, <3>4
  <2>6. ASSUME exec # "idle", UNCHANGED <<inputs, timer_age>>,
               exec = "move"  => exec' = "moved" /\ last_request' = "Move"
                                 /\ stop_sent' = stop_sent,
               exec = "stop"  => exec' = "stopped" /\ last_request' = "StopMove"
                                 /\ stop_sent' = stop_sent,
               exec \in {"moved", "stopped"} =>
                   exec' = "idle" /\ (stop_sent' <=> exec = "stopped")
                   /\ last_request' = last_request
        PROVE  ExecInv' /\ DelayInv' /\ ExecTypes'
    <3>1. have_cmd' = have_cmd /\ unbacked_for' \in {0, unbacked_for}
      BY <2>0, <2>6 DEF RecordHistory, DelayInv, inputs
    <3> QED
      BY <2>6, <3>1 DEF ExecInv, DelayInv
  <2>7. CASE PublishMove
    BY <2>6, <2>7 DEF PublishMove
  <2>8. CASE PublishStop
    BY <2>6, <2>8 DEF PublishStop
  <2>9. CASE RecordRequest
    BY <2>6, <2>9 DEF RecordRequest
  <2>10. CASE Shutdown
    BY <2>10 DEF Shutdown, ShutdownStop, ShutdownRecord, ContextDown
  <2>11. CASE Tick
    <3>1. /\ UNCHANGED <<have_cmd, stop_sent, exec, last_request>>
          /\ exec = "idle" /\ timer_age' = timer_age + 1 /\ timer_age < TimerPeriod
      BY <2>11 DEF Tick
    <3>2. unbacked_for' \in {0, unbacked_for, unbacked_for + 1}
      BY <2>0, <3>1 DEF RecordHistory, Older
    <3> QED
      BY <3>1, <3>2 DEF ExecInv, DelayInv
  <2>12. CASE Down
    BY <2>12 DEF Down
  <2> QED
    BY <2>2, <2>3, <2>4, <2>5, <2>7, <2>8, <2>9, <2>10, <2>11, <2>12
    DEF Next, Step, Executor
<1>2. ASSUME UNCHANGED vars PROVE Inv'
  BY <1>2 DEF vars, inputs, control, Inv, ExecInv, DelayInv, ExecTypes
<1>3. ASSUME Next PROVE ExecTypes' /\ (shutdown' = "no" => shutdown = "no")
  BY <1>3 DEF Next, Step, Executor, Shutdown, cmdVelCallback, odomCallback,
       localizationCallback, publishCommand, Decision, PublishMove, PublishStop,
       RecordRequest, ShutdownStop, ShutdownRecord, ContextDown, Tick, Down, control,
       Inv, ExecTypes
<1> QED
  BY <1>1, <1>2, <1>3 DEF Inv

LEMMA SpecInv == Spec => []Inv
BY InitInv, NextInv, PTL DEF Spec

\* stop_sent_ agrees with the last request whenever the executor is between callbacks.
THEOREM StopFlagAgrees == Spec => []StopFlagTruthful
<1>1. Inv => StopFlagTruthful
  BY DEF Inv, ExecInv, StopFlagTruthful
<1> QED
  BY <1>1, SpecInv, PTL

\* Before shutdown, a robot whose inputs have gone bad is walking for at most one period
\* of the publishing timer.
THEOREM BoundedStop == Spec => []StopsWithinOnePeriod
<1>1. Inv => StopsWithinOnePeriod
  BY SportAssumption DEF Inv, ExecTypes, ExecInv, DelayInv, StopsWithinOnePeriod
<1> QED
  BY <1>1, SpecInv, PTL

-----------------------------------------------------------------------------
\* TypeOK in the parts that different actions disturb.
FlagsOK ==
    /\ have_cmd \in BOOLEAN /\ stop_sent \in BOOLEAN
    /\ odom_received \in BOOLEAN /\ odom_valid \in BOOLEAN /\ have_valid_odom \in BOOLEAN
    /\ loc_received \in BOOLEAN /\ loc_valid \in BOOLEAN

ControlOK ==
    /\ exec \in {"idle", "move", "moved", "stop", "stopped"}
    /\ shutdown \in {"no", "stopped", "sleeping", "down"}
    /\ last_request \in {"None", "Move", "StopMove"}

ClocksOK ==
    /\ cmd_age \in 0..(CmdTimeout + 1)
    /\ odom_age \in 0..(OdomHorizon + 1)
    /\ loc_age \in 0..(LocTimeout + 1)
    /\ timer_age \in 0..TimerPeriod
    /\ sleep_left \in 0..ShutdownSleep
    /\ unbacked_for \in 0..(TimerPeriod + 1)

LEMMA TypeParts ==
    TypeOK <=> FlagsOK /\ ControlOK /\ ClocksOK /\ last_odom \in -MaxAbs..MaxAbs
BY DEF TypeOK, FlagsOK, ControlOK, ClocksOK

LEMMA HorizonNat == OdomHorizon \in Nat
BY SportAssumption DEF OdomHorizon

LEMMA OlderBounded ==
    ASSUME NEW limit \in Nat, NEW age \in 0..(limit + 1)
    PROVE  Older(age, limit) \in 0..(limit + 1)
BY DEF Older

LEMMA DecisionType == Decision \in {"idle", "move", "stop"}
<1>1. CASE Backed
  BY <1>1 DEF Decision
<1>2. CASE ~Backed /\ have_cmd /\ ~stop_sent
  BY <1>2 DEF Decision
<1>3. CASE ~Backed /\ ~(have_cmd /\ ~stop_sent)
  BY <1>3 DEF Decision
<1> QED
  BY <1>1, <1>2, <1>3

LEMMA InitType == Init => TypeOK
<1> SUFFICES ASSUME Init PROVE FlagsOK /\ ControlOK /\ ClocksOK /\ last_odom \in -MaxAbs..MaxAbs
  BY TypeParts
<1>1. FlagsOK /\ ControlOK
  BY DEF Init, FlagsOK, ControlOK
<1>2. ClocksOK /\ last_odom \in -MaxAbs..MaxAbs
  BY SportAssumption, HorizonNat DEF Init, ClocksOK
<1> QED
  BY <1>1, <1>2

LEMMA StepFlags == TypeOK /\ [Next]_vars => FlagsOK'
<1> SUFFICES ASSUME FlagsOK, [Next]_vars PROVE FlagsOK'
  BY TypeParts
<1> USE DEF FlagsOK
<1>1. CASE cmdVelCallback
  BY <1>1 DEF cmdVelCallback, control
<1>2. CASE \E p \in Positions \cup {NaN} : odomCallback(p)
  <2>1. PICK p \in Positions \cup {NaN} : odomCallback(p)
    BY <1>2
  <2>2. UNCHANGED <<have_cmd, stop_sent, loc_received, loc_valid>>
    BY <2>1 DEF odomCallback, control
  <2>3. odom_received' \in BOOLEAN /\ odom_valid' \in BOOLEAN
    BY <2>1 DEF odomCallback
  <2>4. have_valid_odom' \in BOOLEAN
    BY <2>1 DEF odomCallback
  <2> QED
    BY <2>2, <2>3, <2>4
<1>3. CASE \E confident \in BOOLEAN : localizationCallback(confident)
  BY <1>3 DEF localizationCallback, control
<1>4. CASE publishCommand
  BY <1>4 DEF publishCommand, inputs
<1>5. CASE PublishMove \/ PublishStop
  BY <1>5 DEF PublishMove, PublishStop, inputs
<1>6. CASE RecordRequest
  BY <1>6 DEF RecordRequest, inputs
<1>7. CASE Shutdown
  BY <1>7 DEF Shutdown, ShutdownStop, ShutdownRecord, ContextDown, inputs
<1>8. CASE Tick
  BY <1>8 DEF Tick
<1>9. CASE Down \/ UNCHANGED vars
  BY <1>9 DEF Down, vars, inputs, control
<1> QED
  BY <1>1, <1>2, <1>3, <1>4, <1>5, <1>6, <1>7, <1>8, <1>9 DEF Next, Step, Executor

LEMMA StepControl == TypeOK /\ [Next]_vars => ControlOK'
<1> SUFFICES ASSUME ControlOK, [Next]_vars PROVE ControlOK'
  BY TypeParts
<1> USE DEF ControlOK
<1>1. CASE UNCHANGED control
  BY <1>1 DEF control
<1>2. CASE publishCommand
  BY <1>2, DecisionType DEF publishCommand
<1>3. CASE PublishMove \/ PublishStop \/ RecordRequest
  BY <1>3 DEF PublishMove, PublishStop, RecordRequest
<1>4. CASE Shutdown
  BY <1>4 DEF Shutdown, ShutdownStop, ShutdownRecord, ContextDown
<1>5. CASE Tick
  BY <1>5 DEF Tick
<1> QED
  BY <1>1, <1>2, <1>3, <1>4, <1>5 DEF Next, Step, Executor, cmdVelCallback, odomCallback,
     localizationCallback, Down, vars

LEMMA StepHistory ==
    ASSUME TypeOK, RecordHistory PROVE unbacked_for' \in 0..(TimerPeriod + 1)
<1>1. unbacked_for \in 0..(TimerPeriod + 1)
  BY DEF TypeOK
<1>2. unbacked_for' \in {0, unbacked_for, Older(unbacked_for, TimerPeriod)}
  BY DEF RecordHistory
<1>3. TimerPeriod \in Nat
  BY SportAssumption
<1>4. Older(unbacked_for, TimerPeriod) \in 0..(TimerPeriod + 1)
  BY <1>1, <1>3, OlderBounded
<1> QED
  BY <1>1, <1>2, <1>3, <1>4

LEMMA StepClocks == TypeOK /\ [Next]_vars => ClocksOK'
<1> SUFFICES ASSUME TypeOK, Next PROVE ClocksOK'
  <2>1. CASE UNCHANGED vars
    BY <2>1, TypeParts DEF ClocksOK, vars, inputs, control, OdomHorizon
  <2> QED
    BY <2>1
<1>0. ClocksOK /\ unbacked_for' \in 0..(TimerPeriod + 1)
  BY TypeParts, StepHistory DEF Next
<1> USE <1>0, SportAssumption, HorizonNat DEF ClocksOK
<1>1. CASE cmdVelCallback
  BY <1>1 DEF cmdVelCallback, control
<1>2. CASE \E p \in Positions \cup {NaN} : odomCallback(p)
  <2>1. /\ odom_age' = 0
        /\ UNCHANGED <<cmd_age, loc_age, timer_age, sleep_left>>
    BY <1>2 DEF odomCallback, control
  <2> QED
    BY <2>1
<1>3. CASE \E confident \in BOOLEAN : localizationCallback(confident)
  BY <1>3 DEF localizationCallback, control
<1>4. CASE publishCommand
  BY <1>4 DEF publishCommand, inputs
<1>5. CASE PublishMove \/ PublishStop \/ RecordRequest
  BY <1>5 DEF PublishMove, PublishStop, RecordRequest, inputs
<1>6. CASE Shutdown
  BY <1>6 DEF Shutdown, ShutdownStop, ShutdownRecord, ContextDown, inputs
<1>7. CASE Tick
  <2>1. /\ cmd_age' \in 0..(CmdTimeout + 1)
        /\ odom_age' \in 0..(OdomHorizon + 1)
        /\ loc_age' \in 0..(LocTimeout + 1)
    BY <1>7, OlderBounded DEF Tick
  <2>2. timer_age' \in 0..TimerPeriod
    BY <1>7 DEF Tick
  <2>3. sleep_left' \in 0..ShutdownSleep
    BY <1>7 DEF Tick
  <2> QED
    BY <2>1, <2>2, <2>3
<1>8. CASE Down
  BY <1>8 DEF Down, inputs, control
<1> QED
  BY <1>1, <1>2, <1>3, <1>4, <1>5, <1>6, <1>7, <1>8 DEF Next, Step, Executor

\* Only a position within the bounds becomes the reference of the jump test.
LEMMA StepLastOdom == TypeOK /\ [Next]_vars => last_odom' \in -MaxAbs..MaxAbs
<1> SUFFICES ASSUME last_odom \in -MaxAbs..MaxAbs, [Next]_vars
             PROVE  last_odom' \in -MaxAbs..MaxAbs
  BY TypeParts
<1>1. CASE \E p \in Positions \cup {NaN} : odomCallback(p)
  <2>1. PICK p \in Positions \cup {NaN} : odomCallback(p)
    BY <1>1
  <2>2. CASE odom_valid'
    BY <2>1, <2>2 DEF odomCallback, InBounds
  <2>3. CASE ~odom_valid'
    BY <2>1, <2>3 DEF odomCallback
  <2> QED
    BY <2>2, <2>3
<1>2. CASE UNCHANGED last_odom
  BY <1>2
<1> QED
  BY <1>1, <1>2 DEF Next, Step, Executor, Shutdown, cmdVelCallback, localizationCallback,
     publishCommand, PublishMove, PublishStop, RecordRequest, ShutdownStop, ShutdownRecord,
     ContextDown, Tick, Down, inputs, vars

\* Every age stays within one tick of its timeout, and the reference of the jump test is
\* always a position that odomCallback accepts: finite and within max_abs_position_.
THEOREM TypeCorrect == Spec => []TypeOK
<1>1. TypeOK /\ [Next]_vars => TypeOK'
  <2> SUFFICES ASSUME TypeOK, [Next]_vars PROVE TypeOK'
    OBVIOUS
  <2>1. FlagsOK' /\ ControlOK' /\ ClocksOK' /\ last_odom' \in -MaxAbs..MaxAbs
    BY StepFlags, StepControl, StepClocks, StepLastOdom
  <2> QED
    BY <2>1 DEF TypeOK, FlagsOK, ControlOK, ClocksOK
<1> QED
  BY InitType, <1>1, PTL DEF Spec
================================================================================
