------------------------- MODULE Nav2ScanBridgeProofs -------------------------
(***************************************************************************)
(* Proofs about Nav2ScanBridge for every set of goals, every number of     *)
(* goals and every replanning period.  The inductive invariant joins the   *)
(* type invariant with OneRequestInFlight and StatusTruthful: that a path  *)
(* published by resultCallback leads to the current goal rests on there    *)
(* being no other request of the same sequence number in flight, which     *)
(* rests in turn on planning_ guarding every second request.               *)
(***************************************************************************)
EXTENDS Nav2ScanBridge, TLAPS

Inv == TypeOK /\ OneRequestInFlight /\ StatusTruthful

\* A request is determined by its number and its goal.
LEMMA RequestFacts ==
    /\ \A n \in 0..MaxGoals, g \in Goals : RequestOf(n, g) \in Request
    /\ \A r \in Request :
          r.seq \in 0..MaxGoals /\ r.goal \in Goals /\ r = RequestOf(r.seq, r.goal)
    /\ \A n, g : RequestOf(n, g).seq = n /\ RequestOf(n, g).goal = g
BY DEF Request, RequestOf

\* The node starts in the invariant.
LEMMA InitInv == Init => Inv
<1> SUFFICES ASSUME Init PROVE Inv
  OBVIOUS
<1> USE BridgeAssumption, RequestFacts DEF Init, CurrentRequest, Never
<1>1. TypeOK
  <2>1. sent \in [Request -> Nat] /\ accepted \in [Request -> Nat]
    OBVIOUS
  <2>2. scan_path \in [to : Request, stamp : {0, 1}]
    OBVIOUS
  <2>3. status \in Status
    BY DEF Status
  <2>4. goal_sequence \in 0..MaxGoals /\ request_age \in {Never} \cup 0..ReplanPeriod
    OBVIOUS
  <2> QED
    BY <2>1, <2>2, <2>3, <2>4 DEF TypeOK
<1>2. OneRequestInFlight
  BY DEF OneRequestInFlight
<1>3. StatusTruthful
  BY DEF StatusTruthful
<1> QED
  BY <1>1, <1>2, <1>3 DEF Inv

\* No callback, answer or failure of the server takes the node out of it.
LEMMA NextInv == Inv /\ [Next]_vars => Inv'
<1> SUFFICES ASSUME Inv, [Next]_vars PROVE Inv'
  OBVIOUS
<1> USE BridgeAssumption, RequestFacts DEF Inv, CurrentRequest, Never
<1>1. ASSUME NEW g \in Goals, goalCallback(g) PROVE Inv'
  <2> DEFINE new == RequestOf(goal_sequence + 1, g)
  <2>0. goal_sequence + 1 \in 0..MaxGoals /\ new \in Request
    BY <1>1 DEF goalCallback, TypeOK
  <2>a. /\ sent \in [Request -> Nat] /\ accepted \in [Request -> Nat]
        /\ goal_sequence \in 0..MaxGoals
    BY DEF TypeOK
  <2>b. /\ accepted' = accepted
        /\ sent' = sent \/ (planning' /\ sent' = [sent EXCEPT ![new] = @ + 1])
    BY <1>1 DEF goalCallback, requestPlan
  <2> HIDE DEF new
  <2>1. TypeOK'
    <3>1. sent' \in [Request -> Nat]
      BY <2>0, <2>a, <2>b
    <3>2. planning' \in BOOLEAN /\ status' \in Status
      BY <1>1 DEF goalCallback, requestPlan, serverNotReady, Status
    <3>3. request_age' \in {Never} \cup 0..ReplanPeriod
      BY <1>1 DEF goalCallback, requestPlan, serverNotReady
    <3> QED
      BY <1>1, <2>0, <3>1, <3>2, <3>3 DEF goalCallback, TypeOK
  <2>2. OneRequestInFlight'
    <3>1. \A r \in Request : r.seq > goal_sequence => sent[r] = 0 /\ accepted[r] = 0
      <4> SUFFICES ASSUME NEW r \in Request, r.seq > goal_sequence
                   PROVE  sent[r] = 0 /\ accepted[r] = 0
        OBVIOUS
      <4>1. r # CurrentRequest /\ r.seq >= goal_sequence
        BY <2>a
      <4>2. ~(sent[r] + accepted[r] > 0)
        BY <4>1 DEF OneRequestInFlight
      <4> QED
        BY <4>2, <2>a
    <3>2. CurrentRequest' = new
      BY <1>1 DEF goalCallback, new
    <3>3. \A r \in Request : r.seq > goal_sequence /\ r # new
                              => sent'[r] = 0 /\ accepted'[r] = 0
      BY <2>a, <2>b, <3>1
    <3>4. accepted'[new] = 0 /\ sent'[new] \in {0, 1} /\ (sent'[new] = 1 => planning')
      <4>1. new.seq > goal_sequence
        BY <2>a DEF new
      <4> QED
        BY <2>0, <2>a, <2>b, <3>1, <4>1
    <3> QED
      BY <1>1, <3>2, <3>3, <3>4 DEF goalCallback, TypeOK, OneRequestInFlight
  <2>3. StatusTruthful'
    BY <1>1 DEF goalCallback, requestPlan, serverNotReady, TypeOK, StatusTruthful
  <2> QED BY <2>1, <2>2, <2>3
<1>2. CASE timerCallbackReached
  <2>1. TypeOK'
    BY <1>2 DEF timerCallbackReached, TypeOK, Status
  <2>2. OneRequestInFlight'
    BY <1>2 DEF timerCallbackReached, OneRequestInFlight
  <2>3. StatusTruthful'
    BY <1>2 DEF timerCallbackReached, StatusTruthful
  <2> QED BY <2>1, <2>2, <2>3
<1>3. CASE timerCallbackReplan
  <2>1. TypeOK'
    <3>1. sent' \in [Request -> Nat]
      BY <1>3 DEF timerCallbackReplan, requestPlan, TypeOK
    <3>2. planning' \in BOOLEAN /\ status' \in Status
      BY <1>3 DEF timerCallbackReplan, requestPlan, serverNotReady, Status, TypeOK
    <3>3. request_age' \in {Never} \cup 0..ReplanPeriod
      BY <1>3 DEF timerCallbackReplan, requestPlan, serverNotReady, TypeOK
    <3> QED
      BY <1>3, <3>1, <3>2, <3>3 DEF timerCallbackReplan, TypeOK
  <2>2. OneRequestInFlight'
    BY <1>3 DEF timerCallbackReplan, MayReplan, requestPlan, serverNotReady, TypeOK,
                OneRequestInFlight
  <2>3. StatusTruthful'
    BY <1>3 DEF timerCallbackReplan, requestPlan, serverNotReady, StatusTruthful
  <2> QED BY <2>1, <2>2, <2>3
<1>4. ASSUME NEW r \in Request, goalResponseAccepted(r) PROVE Inv'
  <2>1. TypeOK'
    BY <1>4 DEF goalResponseAccepted, TypeOK
  <2>2. OneRequestInFlight'
    BY <1>4 DEF goalResponseAccepted, TypeOK, OneRequestInFlight
  <2>3. StatusTruthful'
    BY <1>4 DEF goalResponseAccepted, StatusTruthful
  <2> QED BY <2>1, <2>2, <2>3
<1>5. ASSUME NEW r \in Request, goalResponseRejected(r) PROVE Inv'
  <2>1. TypeOK'
    <3>1. sent' \in [Request -> Nat]
      BY <1>5 DEF goalResponseRejected, TypeOK
    <3>2. planning' \in BOOLEAN /\ status' \in Status
      BY <1>5 DEF goalResponseRejected, Status, TypeOK
    <3> QED
      BY <1>5, <3>1, <3>2 DEF goalResponseRejected, TypeOK
  <2>2. OneRequestInFlight'
    BY <1>5 DEF goalResponseRejected, TypeOK, OneRequestInFlight
  <2>3. StatusTruthful'
    BY <1>5 DEF goalResponseRejected, StatusTruthful
  <2> QED BY <2>1, <2>2, <2>3
<1>6. ASSUME NEW r \in Request, NEW outcome \in Outcome, resultCallback(r, outcome)
      PROVE Inv'
  <2>1. TypeOK'
    <3>1. accepted' \in [Request -> Nat]
      BY <1>6 DEF resultCallback, TypeOK
    <3>2. planning' \in BOOLEAN /\ status' \in Status
      BY <1>6 DEF resultCallback, Status, TypeOK
    <3>3. scan_path' \in [to : Request, stamp : {0, 1}]
      BY <1>6 DEF resultCallback, publishScanPath, TypeOK
    <3> QED
      BY <1>6, <3>1, <3>2, <3>3 DEF resultCallback, TypeOK
  <2>2. OneRequestInFlight'
    BY <1>6 DEF resultCallback, StaleResult, TypeOK, OneRequestInFlight
  <2>3. StatusTruthful'
    BY <1>6 DEF resultCallback, StaleResult, publishScanPath, TypeOK, OneRequestInFlight,
                StatusTruthful
  <2> QED BY <2>1, <2>2, <2>3
<1>7. CASE Elapse
  BY <1>7 DEF Elapse, TypeOK, OneRequestInFlight, StatusTruthful
<1>8. CASE ServerDiscovery
  BY <1>8 DEF ServerDiscovery, TypeOK, OneRequestInFlight, StatusTruthful
<1>9. CASE ServerDies
  <2>1. sent' \in [Request -> Nat] /\ accepted' \in [Request -> Nat]
    BY <1>9 DEF ServerDies
  <2>2. TypeOK'
    BY <1>9, <2>1 DEF ServerDies, TypeOK
  <2>3. OneRequestInFlight'
    BY <1>9 DEF ServerDies, TypeOK, OneRequestInFlight
  <2>4. StatusTruthful'
    BY <1>9 DEF ServerDies, StatusTruthful
  <2> QED BY <2>2, <2>3, <2>4
<1>10. CASE TransformChange
  BY <1>10 DEF TransformChange, TypeOK, OneRequestInFlight, StatusTruthful
<1>11. CASE UNCHANGED vars
  BY <1>11 DEF vars, TypeOK, OneRequestInFlight, StatusTruthful
<1> QED
  BY <1>1, <1>2, <1>3, <1>4, <1>5, <1>6, <1>7, <1>8, <1>9, <1>10, <1>11
  DEF Next, goalResponse, result

LEMMA SpecInv == Spec => []Inv
<1> QED
  BY InitInv, NextInv, PTL DEF Spec

\* Every variable of the node keeps its type.
THEOREM TypeCorrect == Spec => []TypeOK
<1>1. Inv => TypeOK
  BY DEF Inv
<1> QED
  BY <1>1, SpecInv, PTL

\* At most one request of the newest goal is ever in flight, and only while planning_ is
\* set, whatever the order of goals, timer ticks, answers and server failures.
THEOREM RequestsNeverOverlap == Spec => []OneRequestInFlight
<1>1. Inv => OneRequestInFlight
  BY DEF Inv
<1> QED
  BY <1>1, SpecInv, PTL

\* The published status is true of the node's state.
THEOREM StatusNeverMisleads == Spec => []StatusTruthful
<1>1. Inv => StatusTruthful
  BY DEF Inv
<1> QED
  BY <1>1, SpecInv, PTL

\* As long as Nav2 does not die with a request in hand, no step strands planning_: one
\* answer is under way exactly as long as the goal is active and planning_ is set.
LEMMA AnswerStep ==
    ASSUME Inv, PlanningIsAnswered, [Next]_vars
    PROVE  PlanningIsAnswered'
<1> USE BridgeAssumption, RequestFacts DEF Inv, CurrentRequest, PlanningIsAnswered
<1>a. /\ sent \in [Request -> Nat] /\ accepted \in [Request -> Nat]
      /\ CurrentRequest \in Request
  BY DEF TypeOK
<1>1. ASSUME NEW g \in Goals, goalCallback(g) PROVE PlanningIsAnswered'
  <2> DEFINE new == RequestOf(goal_sequence + 1, g)
  <2>1. new \in Request /\ CurrentRequest' = new
    BY <1>1 DEF goalCallback, TypeOK
  <2>2. sent[new] = 0 /\ accepted[new] = 0
    <3>1. new # CurrentRequest /\ new.seq >= goal_sequence
      BY DEF TypeOK
    <3>2. ~(sent[new] + accepted[new] > 0)
      BY <2>1, <3>1 DEF OneRequestInFlight
    <3>3. sent[new] \in Nat /\ accepted[new] \in Nat
      BY <1>a, <2>1
    <3> HIDE DEF new
    <3> QED
      BY <3>2, <3>3
  <2>3. CASE server_ready
    <3>1. sent' = [sent EXCEPT ![new] = @ + 1] /\ accepted' = accepted
      BY <1>1, <2>3 DEF goalCallback, requestPlan
    <3> QED
      BY <1>a, <2>1, <2>2, <3>1
  <2>4. CASE ~server_ready
    BY <1>1, <2>4 DEF goalCallback, requestPlan, serverNotReady
  <2> QED
    BY <2>3, <2>4
<1>2. CASE timerCallbackReached
  BY <1>2 DEF timerCallbackReached
<1>3. CASE timerCallbackReplan
  <2>1. sent[CurrentRequest] = 0 /\ accepted[CurrentRequest] = 0
    <3>1. ~(sent[CurrentRequest] + accepted[CurrentRequest] > 0)
      BY <1>3, <1>a DEF timerCallbackReplan, MayReplan, OneRequestInFlight, TypeOK
    <3>2. sent[CurrentRequest] \in Nat /\ accepted[CurrentRequest] \in Nat
      BY <1>a
    <3> HIDE DEF CurrentRequest, PlanningIsAnswered
    <3> QED
      BY <3>1, <3>2
  <2>2. /\ CurrentRequest' = CurrentRequest /\ accepted' = accepted
        /\ planning' => sent' = [sent EXCEPT ![CurrentRequest] = @ + 1]
    BY <1>3 DEF timerCallbackReplan, MayReplan, requestPlan, serverNotReady
  <2> HIDE DEF CurrentRequest
  <2> QED
    BY <1>a, <2>1, <2>2
<1>4. ASSUME NEW r \in Request, goalResponseAccepted(r) PROVE PlanningIsAnswered'
  BY <1>4, <1>a DEF goalResponseAccepted
<1>5. ASSUME NEW r \in Request, goalResponseRejected(r) PROVE PlanningIsAnswered'
  <2>1. /\ CurrentRequest' = CurrentRequest /\ accepted' = accepted
        /\ goal_active' = goal_active /\ sent' = [sent EXCEPT ![r] = @ - 1]
        /\ server_died' = server_died
    BY <1>5 DEF goalResponseRejected
  <2>2. CASE r.seq = goal_sequence
    BY <1>5, <2>2 DEF goalResponseRejected
  <2>3. CASE r.seq # goal_sequence
    <3>1. planning' = planning /\ r # CurrentRequest
      BY <1>5, <2>3 DEF goalResponseRejected
    <3> HIDE DEF CurrentRequest
    <3> QED
      BY <1>a, <2>1, <3>1
  <2> QED
    BY <2>2, <2>3
<1>6. ASSUME NEW r \in Request, NEW outcome \in Outcome, resultCallback(r, outcome)
      PROVE PlanningIsAnswered'
  <2>1. /\ CurrentRequest' = CurrentRequest /\ sent' = sent
        /\ goal_active' = goal_active /\ accepted' = [accepted EXCEPT ![r] = @ - 1]
        /\ server_died' = server_died
    BY <1>6 DEF resultCallback
  <2>2. CASE ~StaleResult(r)
    BY <1>6, <2>2 DEF resultCallback
  <2>3. CASE StaleResult(r)
    <3>1. planning' = planning /\ (goal_active => r # CurrentRequest)
      BY <1>6, <2>3 DEF resultCallback, StaleResult
    <3> HIDE DEF CurrentRequest
    <3> QED
      BY <1>a, <2>1, <3>1
  <2> QED
    BY <2>2, <2>3
<1>7. CASE Elapse
  BY <1>7 DEF Elapse
<1>8. CASE ServerDiscovery
  BY <1>8 DEF ServerDiscovery
<1>9. CASE ServerDies
  BY <1>9 DEF ServerDies
<1>10. CASE TransformChange
  BY <1>10 DEF TransformChange
<1>11. CASE UNCHANGED vars
  BY <1>11 DEF vars
<1> QED
  BY <1>1, <1>2, <1>3, <1>4, <1>5, <1>6, <1>7, <1>8, <1>9, <1>10, <1>11
  DEF Next, goalResponse, result

\* planning_ never waits for an answer that nobody will give, unless Nav2 dies.
THEOREM PlanningNeverStranded == Spec => []PlanningIsAnswered
<1>1. Init => PlanningIsAnswered
  BY DEF Init, PlanningIsAnswered
<1>2. Inv /\ PlanningIsAnswered /\ [Next]_vars => PlanningIsAnswered'
  BY AnswerStep
<1> QED
  BY <1>1, <1>2, SpecInv, PTL DEF Spec

\* The bridge implements PathDelivery: SCAN only ever receives paths to the goal that is
\* current and still pursued when the path is sent.
THEOREM BridgeDelivers == Spec => DeliversCurrentPathsOnly
<1>1. Init => Promise!Init
  BY DEF Init, Promise!Init, Promise!NoTarget, CurrentRequest, RequestOf
<1>2. Inv /\ [Next]_vars => [Promise!Next]_<<CurrentRequest, goal_active, scan_path>>
  <2> SUFFICES ASSUME Inv, [Next]_vars
               PROVE  [Promise!Next]_<<CurrentRequest, goal_active, scan_path>>
    OBVIOUS
  <2> USE DEF CurrentRequest
  <2>1. ASSUME NEW g \in Goals, goalCallback(g) PROVE Promise!NewTarget
    BY <2>1 DEF goalCallback, Promise!NewTarget, RequestOf
  <2>2. CASE timerCallbackReached
    BY <2>2 DEF timerCallbackReached, Promise!Arrive, Promise!Next
  <2>3. CASE timerCallbackReplan
    BY <2>3 DEF timerCallbackReplan
  <2>4. ASSUME NEW r \in Request, goalResponse(r)
        PROVE  UNCHANGED <<CurrentRequest, goal_active, scan_path>>
    BY <2>4 DEF goalResponse, goalResponseAccepted, goalResponseRejected
  <2>5. ASSUME NEW r \in Request, NEW outcome \in Outcome, resultCallback(r, outcome)
        PROVE  Promise!Deliver \/ UNCHANGED <<CurrentRequest, goal_active, scan_path>>
    <3>1. UNCHANGED <<CurrentRequest, goal_active>>
      BY <2>5 DEF resultCallback
    <3>2. CASE scan_path' = scan_path
      BY <3>1, <3>2
    <3>3. CASE scan_path' # scan_path
      <4>1. ~StaleResult(r) /\ accepted[r] > 0 /\ publishScanPath(r)
        BY <2>5, <3>3 DEF resultCallback
      <4>2. sent[r] \in Nat /\ accepted[r] \in Nat /\ goal_sequence \in Nat
        BY DEF Inv, TypeOK
      <4>3. r = CurrentRequest
        BY <4>1, <4>2 DEF StaleResult, Inv, OneRequestInFlight
      <4> QED
        BY <3>1, <4>1, <4>3 DEF StaleResult, publishScanPath, Promise!Deliver
    <3> QED
      BY <3>2, <3>3
  <2>6. CASE Elapse \/ ServerDiscovery \/ ServerDies \/ TransformChange \/ UNCHANGED vars
    BY <2>6 DEF Elapse, ServerDiscovery, ServerDies, TransformChange, vars
  <2> QED
    BY <2>1, <2>2, <2>3, <2>4, <2>5, <2>6 DEF Next, result, Promise!Next
<1> QED
  BY <1>1, <1>2, SpecInv, PTL DEF Spec, DeliversCurrentPathsOnly, Promise!Spec
===============================================================================
