------------------------ MODULE GlobalLocalizationProofs ------------------------
(***************************************************************************)
(* Proofs about GlobalLocalization, for any number of fitness levels and   *)
(* initial poses, any thresholds and any length of the scan queue.         *)
(***************************************************************************)
EXTENDS GlobalLocalization, SequenceTheorems, TLAPS

\* Two matches in a row end the initialisation, so the count stops there.
CountStops == count_success = 2 => loc = "initialized" \/ loc_initialized_

TypeInv == TypeOK /\ CountStops

\* The lock is held exactly where the code holds it.
LockHeld ==
    /\ lock = "executor" <=> cb \in {"poseRotation", "poseTranslation"}
    /\ lock = "loc" <=> loc \in {"match", "storeRotation", "storeTranslation", "unlock"}

\* What CallbackInitialPose has written so far.
PoseWritten ==
    /\ cb \in Callback \ {"idle", "initialRotation"} => mat_initialpose_["rotation"] = poses
    /\ cb \in {"poseLock", "poseRotation", "poseTranslation"} =>
           mat_initialpose_["translation"] = poses
    /\ cb = "poseTranslation" => mat_odom2map_["rotation"].pose >= late

\* Before the start value is written no pose counts as late, and a match that is still to
\* be stored descends from the last pose.
MatchKeepsPose ==
    /\ loc \in Waiting \cup Starting => late = 0
    /\ cb = "idle" /\ loc \in {"storeRotation", "storeTranslation"} =>
           \A p \in Part : reg_matrix[p].pose >= late

PoseInv == LockHeld /\ PoseWritten /\ MatchKeepsPose /\ OperatorPoseKept

Accepted(v) ==
    v.fit = Given \/ v.fit > threshold_fitness_ \/ v.fit > threshold_fitness_init_

\* A match is stored as it was found, and only one above its threshold is stored, or ends
\* the initialisation, once ...
MatchStored ==
    /\ loc = "storeTranslation" => mat_odom2map_["rotation"] = reg_matrix["rotation"]
    /\ loc \in {"storeRotation", "storeTranslation"} =>
           \A p \in Part : /\ ~loc_initialized_ => reg_matrix[p].fit = fitness_initial
                           /\ loc_initialized_ => Accepted(reg_matrix[p])
    /\ loc = "unlock" /\ ~loc_initialized_ =>
           \A p \in Part : mat_odom2map_[p].fit = fitness_initial
    /\ loc = "initialized" => \A p \in Part : Accepted(mat_odom2map_[p])

MatchInv == LockHeld /\ MatchStored /\ MatchedOnceInitialised

InUse == \A p \in Part : mat_odom2map_[p] = [pose |-> reg_matrix[p].pose, fit |-> loc_fitness_]

Replaced == \A p \in Part : mat_odom2map_[p].fit = Given

\* A confidence above the threshold on its way from the match to the transform in use, or
\* with an operator's pose half written.
ConfidenceOnItsWay ==
    /\ loc \in Waiting \cup Starting => ~loc_initialized_
    /\ ~loc_initialized_ => loc_fitness_ = 0
    /\ loc_fitness_ > threshold_fitness_ =>
           /\ loc \in {"storeRotation", "storeTranslation"} =>
                  \A p \in Part : reg_matrix[p].fit = loc_fitness_
           /\ loc = "storeTranslation" => mat_odom2map_["rotation"] = reg_matrix["rotation"]
           /\ loc = "unlock" => InUse
           /\ cb = "poseTranslation" => mat_odom2map_["rotation"].fit = Given
           /\ loc \notin {"storeRotation", "storeTranslation", "unlock"}
                  /\ cb # "poseTranslation" => InUse \/ Replaced

ConfidenceInv == LockHeld /\ ConfidenceOnItsWay
-----------------------------------------------------------------------------
(* Types.                                                                   *)

\* A pose as it was given is a value of a transform (PoseValue).
LEMMA PoseValueType ==
    ASSUME NEW n \in 0..MaxPoses
    PROVE  PoseValue(n) \in Value
BY DEF PoseValue, Value, Given, Fitness

\* So is its pose (PoseValue).
LEMMA PoseOfPoseValue ==
    ASSUME NEW n
    PROVE  PoseValue(n).pose = n /\ PoseValue(n).fit = Given
BY DEF PoseValue

\* Writing one part of a transform gives a transform (writePose, writeStart, store).
LEMMA PartWritten ==
    ASSUME NEW t \in Transform, NEW p \in Part, NEW v \in Value
    PROVE  [t EXCEPT ![p] = v] \in Transform
BY DEF Transform

\* What a scan added to the queue makes of it (CallbackScan).
LEMMA ScanAdded ==
    ASSUME NEW q \in Seq(Scan), NEW scan \in Scan
    PROVE  Append(q, scan) \in Seq(Scan) /\ Len(Append(q, scan)) = Len(q) + 1
BY AppendProperties

\* Every step of either thread keeps the types.
LEMMA TypeStep ==
    ASSUME TypeInv, [Next]_vars
    PROVE  TypeInv'
<1> USE LocalizationAssumption DEF TypeInv, TypeOK, CountStops, Callback, Waiting, Starting, Matching,
        matrices, matching, inputs, history
<1>1. CASE CallbackBaselink2Odom
  BY <1>1 DEF CallbackBaselink2Odom
<1>2. ASSUME NEW scan \in Scan, CallbackScan(scan) PROVE TypeInv'
  <2>1. /\ pcd_scan_cur_' \in BOOLEAN
        /\ \/ /\ Len(que_pcd_scan_) < queue_maxsize_
              /\ que_pcd_scan_' = Append(que_pcd_scan_, scan)
           \/ /\ Len(que_pcd_scan_) >= queue_maxsize_
              /\ que_pcd_scan_' = Append(Tail(que_pcd_scan_), scan)
    BY <1>2, Zenon DEF CallbackScan
  <2>2. que_pcd_scan_ \in Seq(Scan) /\ Len(que_pcd_scan_) <= queue_maxsize_
    OBVIOUS
  <2>3. CASE /\ Len(que_pcd_scan_) < queue_maxsize_
             /\ que_pcd_scan_' = Append(que_pcd_scan_, scan)
    BY <1>2, <2>1, <2>2, <2>3, ScanAdded DEF CallbackScan
  <2>4. CASE /\ Len(que_pcd_scan_) >= queue_maxsize_
             /\ que_pcd_scan_' = Append(Tail(que_pcd_scan_), scan)
    <3>1. que_pcd_scan_ # <<>>
      BY <2>2, <2>4
    <3>2. /\ Tail(que_pcd_scan_) \in Seq(Scan)
          /\ Len(Tail(que_pcd_scan_)) = Len(que_pcd_scan_) - 1
      BY <2>2, <3>1, HeadTailProperties, Zenon
    <3>3. que_pcd_scan_' \in Seq(Scan) /\ Len(que_pcd_scan_') <= queue_maxsize_
      BY <2>2, <2>4, <3>2, ScanAdded
    <3> QED
      BY <1>2, <2>1, <3>3 DEF CallbackScan
  <2> QED
    BY <2>1, <2>3, <2>4
<1>3. CASE CallbackInitialPose
  BY <1>3 DEF CallbackInitialPose
<1>4. CASE poseLock
  BY <1>4 DEF poseLock
<1>5. CASE writeInitialPose("rotation", "initialRotation", "initialTranslation")
  BY <1>5 DEF writeInitialPose
<1>6. CASE writeInitialPose("translation", "initialTranslation", "poseLock")
  BY <1>6 DEF writeInitialPose
<1>7. CASE writePose("rotation", "poseRotation", "poseTranslation")
  <2>1. "rotation" \in Part /\ PoseValue(mat_initialpose_["rotation"]) \in Value
    BY PoseValueType DEF Part
  <2>2. mat_odom2map_' \in Transform
    BY <1>7, <2>1, PartWritten DEF writePose
  <2> QED
    BY <1>7, <2>2 DEF writePose, lockAfter
<1>8. CASE writePose("translation", "poseTranslation", "idle")
  <2>1. "translation" \in Part /\ PoseValue(mat_initialpose_["translation"]) \in Value
    BY PoseValueType DEF Part
  <2>2. mat_odom2map_' \in Transform
    BY <1>8, <2>1, PartWritten DEF writePose
  <2> QED
    BY <1>8, <2>2 DEF writePose, lockAfter
<1>9. CASE waitOdom
  BY <1>9 DEF waitOdom
<1>10. CASE waitScan
  BY <1>10 DEF waitScan
<1>11. CASE readInitialPose("rotation", "readRotation", "readTranslation")
  BY <1>11 DEF readInitialPose
<1>12. CASE readInitialPose("translation", "readTranslation", "startRotation")
  BY <1>12 DEF readInitialPose
<1>13. CASE writeStart("rotation", "startRotation", "startTranslation")
  <2>1. "rotation" \in Part /\ PoseValue(copy["rotation"]) \in Value
    BY PoseValueType DEF Part
  <2>2. mat_odom2map_' \in Transform
    BY <1>13, <2>1, PartWritten DEF writeStart
  <2> QED
    BY <1>13, <2>2 DEF writeStart
<1>14. CASE writeStart("translation", "startTranslation", "scan")
  <2>1. "translation" \in Part /\ PoseValue(copy["translation"]) \in Value
    BY PoseValueType DEF Part
  <2>2. mat_odom2map_' \in Transform
    BY <1>14, <2>1, PartWritten DEF writeStart
  <2> QED
    BY <1>14, <2>2 DEF writeStart
<1>15. CASE nextStamp
  BY <1>15 DEF nextStamp
<1>16. CASE copyScan
  BY <1>16 DEF copyScan
<1>17. CASE lockMatch
  BY <1>17 DEF lockMatch
<1>18. ASSUME NEW f \in Fitness, match(f) PROVE TypeInv'
  <2>1. \A p \in Part : mat_odom2map_[p].pose \in 0..MaxPoses
    BY DEF Transform, Value
  <2>2. matched(f) \in Transform
    BY <2>1 DEF matched, Transform, Value
  <2> QED
    BY <1>18, <2>2 DEF match, matchInitial, matchAgain
<1>19. CASE store("rotation", "storeRotation", "storeTranslation")
  <2>1. "rotation" \in Part /\ reg_matrix["rotation"] \in Value
    BY DEF Part, Transform
  <2>2. mat_odom2map_' \in Transform
    BY <1>19, <2>1, PartWritten DEF store
  <2> QED
    BY <1>19, <2>2 DEF store
<1>20. CASE store("translation", "storeTranslation", "unlock")
  <2>1. "translation" \in Part /\ reg_matrix["translation"] \in Value
    BY DEF Part, Transform
  <2>2. mat_odom2map_' \in Transform
    BY <1>20, <2>1, PartWritten DEF store
  <2> QED
    BY <1>20, <2>2 DEF store
<1>21. CASE unlock
  <2>1. CASE loc_initialized_
    BY <1>21, <2>1 DEF unlock, unlocked
  <2>2. CASE ~loc_initialized_
    <3>1. count_success \in 0..1
      BY <1>21, <2>2 DEF unlock
    <3>2. inARow \in 0..2
      BY <3>1 DEF inARow
    <3> QED
      BY <1>21, <2>2, <3>2 DEF unlock, unlocked, enough
  <2> QED
    BY <2>1, <2>2
<1>22. CASE setInitialized
  BY <1>22 DEF setInitialized
<1>23. CASE UNCHANGED vars
  BY <1>23 DEF vars, matrices, matching, inputs, history
<1> QED
  BY <1>1, <1>2, <1>3, <1>4, <1>5, <1>6, <1>7, <1>8, <1>9, <1>10, <1>11, <1>12, <1>13, <1>14, <1>15, <1>16, <1>17, <1>18, <1>19, <1>20, <1>21, <1>22, <1>23 DEF Next, poseStep, Localization, start

-----------------------------------------------------------------------------
(* An operator's pose.                                                      *)

\* No step of either thread loses a late pose.
LEMMA PoseStep ==
    ASSUME TypeInv, PoseInv, [Next]_vars
    PROVE  PoseInv'
<1> USE LocalizationAssumption DEF PoseInv, LockHeld, PoseWritten, MatchKeepsPose, OperatorPoseKept,
        TypeInv, TypeOK, Part, Callback, Waiting, Starting, Matching, mayLock,
        matrices, matching, inputs, history
<1>1. CASE CallbackBaselink2Odom
  BY <1>1 DEF CallbackBaselink2Odom
<1>2. ASSUME NEW scan \in Scan, CallbackScan(scan) PROVE PoseInv'
  BY <1>2 DEF CallbackScan
<1>3. CASE CallbackInitialPose
  BY <1>3 DEF CallbackInitialPose
<1>4. CASE poseLock
  BY <1>4 DEF poseLock
<1>5. CASE writeInitialPose("rotation", "initialRotation", "initialTranslation")
  BY <1>5 DEF writeInitialPose
<1>6. CASE writeInitialPose("translation", "initialTranslation", "poseLock")
  BY <1>6 DEF writeInitialPose
<1>7. CASE writePose("rotation", "poseRotation", "poseTranslation")
  <2>1. mat_odom2map_'["rotation"].pose = mat_initialpose_["rotation"]
    BY <1>7, PoseOfPoseValue DEF writePose, Transform
  <2> QED
    BY <1>7, <2>1 DEF writePose, lockAfter, Transform
<1>8. CASE writePose("translation", "poseTranslation", "idle")
  <2>1. mat_odom2map_'["translation"].pose = mat_initialpose_["translation"]
    BY <1>8, PoseOfPoseValue DEF writePose, Transform
  <2> QED
    BY <1>8, <2>1 DEF writePose, lockAfter, Transform
<1>9. CASE waitOdom
  BY <1>9 DEF waitOdom
<1>10. CASE waitScan
  BY <1>10 DEF waitScan
<1>11. CASE readInitialPose("rotation", "readRotation", "readTranslation")
  BY <1>11 DEF readInitialPose
<1>12. CASE readInitialPose("translation", "readTranslation", "startRotation")
  BY <1>12 DEF readInitialPose
<1>13. CASE writeStart("rotation", "startRotation", "startTranslation")
  <2>1. late = 0 /\ late' = 0
    BY <1>13 DEF writeStart, Starting
  <2>2. \A q \in Part : mat_odom2map_'[q].pose \in 0..MaxPoses
    BY <1>13, TypeStep DEF TypeInv, Transform, Value
  <2> QED
    BY <1>13, <2>1, <2>2 DEF writeStart
<1>14. CASE writeStart("translation", "startTranslation", "scan")
  <2>1. late = 0 /\ late' = 0
    BY <1>14 DEF writeStart, Starting
  <2>2. \A q \in Part : mat_odom2map_'[q].pose \in 0..MaxPoses
    BY <1>14, TypeStep DEF TypeInv, Transform, Value
  <2> QED
    BY <1>14, <2>1, <2>2 DEF writeStart
<1>15. CASE nextStamp
  BY <1>15 DEF nextStamp
<1>16. CASE copyScan
  BY <1>16 DEF copyScan
<1>17. CASE lockMatch
  BY <1>17 DEF lockMatch
<1>18. ASSUME NEW f \in Fitness, match(f) PROVE PoseInv'
  BY <1>18 DEF match, matched, matchInitial, matchAgain
<1>19. CASE store("rotation", "storeRotation", "storeTranslation")
  BY <1>19 DEF store
<1>20. CASE store("translation", "storeTranslation", "unlock")
  BY <1>20 DEF store
<1>21. CASE unlock
  BY <1>21 DEF unlock, unlocked, inARow, enough
<1>22. CASE setInitialized
  BY <1>22 DEF setInitialized
<1>23. CASE UNCHANGED vars
  BY <1>23 DEF vars, matrices, matching, inputs, history
<1> QED
  BY <1>1, <1>2, <1>3, <1>4, <1>5, <1>6, <1>7, <1>8, <1>9, <1>10, <1>11, <1>12, <1>13, <1>14, <1>15, <1>16, <1>17, <1>18, <1>19, <1>20, <1>21, <1>22, <1>23 DEF Next, poseStep, Localization, start

-----------------------------------------------------------------------------
(* Matches and the confidence.                                              *)

\* No step of either thread brings a rejected match into use.
LEMMA MatchStep ==
    ASSUME TypeInv, MatchInv, [Next]_vars
    PROVE  MatchInv'
<1> USE LocalizationAssumption DEF MatchInv, LockHeld, MatchStored, MatchedOnceInitialised, Accepted,
        TypeInv, TypeOK, Transform, Part, Callback, Waiting, Starting, Matching, mayLock,
        matrices, matching, inputs, history
<1>1. CASE CallbackBaselink2Odom
  BY <1>1 DEF CallbackBaselink2Odom
<1>2. ASSUME NEW scan \in Scan, CallbackScan(scan) PROVE MatchInv'
  BY <1>2 DEF CallbackScan
<1>3. CASE CallbackInitialPose
  BY <1>3 DEF CallbackInitialPose
<1>4. CASE poseLock
  BY <1>4 DEF poseLock
<1>5. CASE writeInitialPose("rotation", "initialRotation", "initialTranslation")
  BY <1>5 DEF writeInitialPose
<1>6. CASE writeInitialPose("translation", "initialTranslation", "poseLock")
  BY <1>6 DEF writeInitialPose
<1>7. CASE writePose("rotation", "poseRotation", "poseTranslation")
  BY <1>7, PoseOfPoseValue DEF writePose, lockAfter
<1>8. CASE writePose("translation", "poseTranslation", "idle")
  BY <1>8, PoseOfPoseValue DEF writePose, lockAfter
<1>9. CASE waitOdom
  BY <1>9 DEF waitOdom
<1>10. CASE waitScan
  BY <1>10 DEF waitScan
<1>11. CASE readInitialPose("rotation", "readRotation", "readTranslation")
  BY <1>11 DEF readInitialPose
<1>12. CASE readInitialPose("translation", "readTranslation", "startRotation")
  BY <1>12 DEF readInitialPose
<1>13. CASE writeStart("rotation", "startRotation", "startTranslation")
  BY <1>13, PoseOfPoseValue DEF writeStart
<1>14. CASE writeStart("translation", "startTranslation", "scan")
  BY <1>14, PoseOfPoseValue DEF writeStart
<1>15. CASE nextStamp
  BY <1>15 DEF nextStamp
<1>16. CASE copyScan
  BY <1>16 DEF copyScan
<1>17. CASE lockMatch
  BY <1>17 DEF lockMatch
<1>18. ASSUME NEW f \in Fitness, match(f) PROVE MatchInv'
  BY <1>18 DEF match, matched, matchInitial, matchAgain, taken
<1>19. CASE store("rotation", "storeRotation", "storeTranslation")
  BY <1>19 DEF store
<1>20. CASE store("translation", "storeTranslation", "unlock")
  BY <1>20 DEF store
<1>21. CASE unlock
  BY <1>21 DEF unlock, unlocked, inARow, enough
<1>22. CASE setInitialized
  BY <1>22 DEF setInitialized
<1>23. CASE UNCHANGED vars
  BY <1>23 DEF vars, matrices, matching, inputs, history
<1> QED
  BY <1>1, <1>2, <1>3, <1>4, <1>5, <1>6, <1>7, <1>8, <1>9, <1>10, <1>11, <1>12, <1>13, <1>14, <1>15, <1>16, <1>17, <1>18, <1>19, <1>20, <1>21, <1>22, <1>23 DEF Next, poseStep, Localization, start

\* No step of either thread parts the confidence from its transform.
LEMMA ConfidenceStep ==
    ASSUME TypeInv, ConfidenceInv, [Next]_vars
    PROVE  ConfidenceInv'
<1> USE LocalizationAssumption DEF ConfidenceInv, LockHeld, ConfidenceOnItsWay, InUse, Replaced,
        TypeInv, TypeOK, Transform, Value, Part, Callback, Waiting, Starting, Matching, mayLock,
        matrices, matching, inputs, history
<1>1. CASE CallbackBaselink2Odom
  BY <1>1 DEF CallbackBaselink2Odom
<1>2. ASSUME NEW scan \in Scan, CallbackScan(scan) PROVE ConfidenceInv'
  BY <1>2 DEF CallbackScan
<1>3. CASE CallbackInitialPose
  BY <1>3 DEF CallbackInitialPose
<1>4. CASE poseLock
  BY <1>4 DEF poseLock
<1>5. CASE writeInitialPose("rotation", "initialRotation", "initialTranslation")
  BY <1>5 DEF writeInitialPose
<1>6. CASE writeInitialPose("translation", "initialTranslation", "poseLock")
  BY <1>6 DEF writeInitialPose
<1>7. CASE writePose("rotation", "poseRotation", "poseTranslation")
  BY <1>7, PoseOfPoseValue DEF writePose, lockAfter
<1>8. CASE writePose("translation", "poseTranslation", "idle")
  BY <1>8, PoseOfPoseValue DEF writePose, lockAfter
<1>9. CASE waitOdom
  BY <1>9 DEF waitOdom
<1>10. CASE waitScan
  BY <1>10 DEF waitScan
<1>11. CASE readInitialPose("rotation", "readRotation", "readTranslation")
  BY <1>11 DEF readInitialPose
<1>12. CASE readInitialPose("translation", "readTranslation", "startRotation")
  BY <1>12 DEF readInitialPose
<1>13. CASE writeStart("rotation", "startRotation", "startTranslation")
  BY <1>13, PoseOfPoseValue DEF writeStart
<1>14. CASE writeStart("translation", "startTranslation", "scan")
  BY <1>14, PoseOfPoseValue DEF writeStart
<1>15. CASE nextStamp
  BY <1>15 DEF nextStamp
<1>16. CASE copyScan
  BY <1>16 DEF copyScan
<1>17. CASE lockMatch
  BY <1>17 DEF lockMatch
<1>18. ASSUME NEW f \in Fitness, match(f) PROVE ConfidenceInv'
  BY <1>18 DEF match, matched, matchInitial, matchAgain, taken
<1>19. CASE store("rotation", "storeRotation", "storeTranslation")
  BY <1>19 DEF store
<1>20. CASE store("translation", "storeTranslation", "unlock")
  BY <1>20 DEF store
<1>21. CASE unlock
  BY <1>21 DEF unlock, unlocked, inARow, enough
<1>22. CASE setInitialized
  BY <1>22 DEF setInitialized
<1>23. CASE UNCHANGED vars
  BY <1>23 DEF vars, matrices, matching, inputs, history
<1> QED
  BY <1>1, <1>2, <1>3, <1>4, <1>5, <1>6, <1>7, <1>8, <1>9, <1>10, <1>11, <1>12, <1>13, <1>14, <1>15, <1>16, <1>17, <1>18, <1>19, <1>20, <1>21, <1>22, <1>23 DEF Next, poseStep, Localization, start

-----------------------------------------------------------------------------
\* Every invariant holds at the start.
LEMMA Start ==
    ASSUME Init
    PROVE  TypeInv /\ PoseInv /\ MatchInv /\ ConfidenceInv
<1> USE LocalizationAssumption DEF Init, Part, Waiting, Starting, Matching, Callback
<1>1. TypeInv
  <2>1. 0 \in 0..MaxPoses
    OBVIOUS
  <2>2. PoseValue(0) \in Value
    BY <2>1, PoseValueType
  <2>3. <<>> \in Seq(Scan) /\ Len(<<>>) = 0
    OBVIOUS
  <2>4. mat_odom2map_ \in Transform /\ reg_matrix \in Transform
    BY <2>2 DEF Transform
  <2>5. 0 \in Fitness
    BY DEF Fitness
  <2>6. que_pcd_scan_ \in Seq(Scan) /\ Len(que_pcd_scan_) <= queue_maxsize_
    BY <2>3
  <2>7. copy \in [Part -> 0..MaxPoses] /\ mat_initialpose_ \in [Part -> 0..MaxPoses]
    BY <2>1
  <2>8. /\ loc \in Waiting /\ cb \in Callback /\ lock = "free"
        /\ poses \in 0..MaxPoses /\ late \in 0..poses /\ count_success = 0
        /\ fitness_initial \in Fitness /\ loc_fitness_ \in Fitness
    BY <2>1, <2>5
  <2>9. /\ loc_initialized_ \in BOOLEAN /\ odom_received \in BOOLEAN /\ odom_new \in BOOLEAN
        /\ pcd_scan_cur_ \in BOOLEAN
    OBVIOUS
  <2> HIDE DEF Part, Waiting, Starting, Matching, Callback
  <2> QED
    BY <2>4, <2>6, <2>7, <2>8, <2>9 DEF TypeInv, TypeOK, CountStops
<1>2. PoseInv
  BY PoseOfPoseValue DEF PoseInv, LockHeld, PoseWritten, MatchKeepsPose, OperatorPoseKept
<1>3. MatchInv
  BY DEF MatchInv, LockHeld, MatchStored, MatchedOnceInitialised
<1>4. ConfidenceInv
  BY DEF ConfidenceInv, LockHeld, ConfidenceOnItsWay
<1> QED
  BY <1>1, <1>2, <1>3, <1>4

\* Every variable of the node keeps its type, and the initialisation ends at the second
\* match in a row (LocalizationInitialize).
THEOREM TypeCorrect == Spec => []TypeOK
<1>1. TypeInv => TypeOK
  BY DEF TypeInv
<1>2. Spec => []TypeInv
  BY Start, TypeStep, PTL DEF Spec
<1> QED
  BY <1>1, <1>2, PTL

\* A match that started before an operator's pose never overwrites it
\* (CallbackInitialPose, lock_mat_odom2map_).
THEOREM PoseNeverLost == Spec => []OperatorPoseKept
<1>1. PoseInv => OperatorPoseKept
  BY DEF PoseInv
<1>2. TypeInv /\ PoseInv /\ [Next]_vars => (TypeInv /\ PoseInv)'
  BY TypeStep, PoseStep
<1> QED
  BY Start, <1>1, <1>2, PTL DEF Spec

\* After the initialisation no match below its threshold is in use
\* (LocalizationInitialize, Localization).
THEOREM RejectedNeverInUse == Spec => []MatchedOnceInitialised
<1>1. MatchInv => MatchedOnceInitialised
  BY DEF MatchInv
<1>2. TypeInv /\ MatchInv /\ [Next]_vars => (TypeInv /\ MatchInv)'
  BY TypeStep, MatchStep
<1> QED
  BY Start, <1>1, <1>2, PTL DEF Spec

\* Between two matches, a confidence above the threshold belongs to the transform in use,
\* or the operator has replaced it (Localization, CallbackInitialPose).
THEOREM ConfidenceBelongs == Spec => []ConfidenceSettled
<1>1. ConfidenceInv => ConfidenceSettled
  BY DEF ConfidenceInv, ConfidenceOnItsWay, ConfidenceSettled, LockHeld, InUse, Replaced
<1>2. TypeInv /\ ConfidenceInv /\ [Next]_vars => (TypeInv /\ ConfidenceInv)'
  BY TypeStep, ConfidenceStep
<1> QED
  BY Start, <1>1, <1>2, PTL DEF Spec
===============================================================================
