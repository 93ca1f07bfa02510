-------------------------- MODULE GlobalLocalization --------------------------
(***************************************************************************)
(* The node global_loc_node: it matches the scans of FAST-LIO with the map *)
(* of the building and keeps mat_odom2map_, the transform every pose of    *)
(* the robot in the map is computed with, and loc_fitness_, the confidence *)
(* it publishes.  Two threads share them: the executor, which runs one     *)
(* callback at a time (all are in the default callback group), and         *)
(* thread_loc_, which runs Localization().  lock_mat_odom2map_ is held     *)
(* while a match is computed; not every access takes it, so a matrix is    *)
(* read and written one part after the other.                              *)
(*                                                                         *)
(* A part of a transform is what the properties ask of it: the initial     *)
(* pose it descends from and the fitness of the match that gave it.  The   *)
(* sections under lock_scan_ and lock_timestamp_ are single steps.  What   *)
(* the odometry callback computes and publishes from mat_odom2map_, and    *)
(* the Kalman filters, change nothing that is modelled.                    *)
(***************************************************************************)
EXTENDS Integers, Sequences

CONSTANTS
    MaxFitness,               \* fitness is one of 0..MaxFitness
    threshold_fitness_init_,
    threshold_fitness_,
    Certain,                  \* the 0.99 of CallbackInitialPose
    queue_maxsize_,
    MaxPoses                  \* bound on the initial poses of one behaviour

ASSUME LocalizationAssumption ==
    /\ MaxFitness \in Nat
    /\ threshold_fitness_init_ \in 0..MaxFitness
    /\ threshold_fitness_ \in 0..MaxFitness
    /\ Certain \in 0..MaxFitness
    /\ queue_maxsize_ \in Nat \ {0}
    /\ MaxPoses \in Nat

VARIABLES
    loc,               \* where thread_loc_ is
    cb,                \* where the executor is; "idle" between two callbacks
    lock,              \* who holds lock_mat_odom2map_
    mat_odom2map_,
    mat_initialpose_,
    copy,              \* what thread_loc_ has read of mat_initialpose_
    reg_matrix,        \* the result of the last match
    fitness_initial,
    count_success,
    loc_initialized_,
    loc_fitness_,
    odom_received,     \* timestamp_odom_ # 0
    odom_new,          \* timestamp_odom_ # time_last
    que_pcd_scan_,     \* the scans of the queue
    pcd_scan_cur_,     \* whether the merged scan has points
    poses,             \* history: initial poses taken over so far
    late               \* history: the last of them that came after the start value

matrices == <<mat_odom2map_, mat_initialpose_, copy, reg_matrix>>
matching == <<fitness_initial, count_success, loc_initialized_, loc_fitness_>>
inputs == <<odom_received, odom_new, que_pcd_scan_, pcd_scan_cur_>>
history == <<poses, late>>
vars == <<loc, cb, lock, matrices, matching, inputs, history>>

Fitness == 0..MaxFitness
Given == -1                           \* a transform no match has touched
Part == {"rotation", "translation"}   \* a matrix is copied in this order
Value == [pose : 0..MaxPoses, fit : Fitness \cup {Given}]
Transform == [Part -> Value]

Scan == {"points", "none"}           \* a cloud may have no points

PoseValue(n) == [pose |-> n, fit |-> Given]

Waiting == {"waitOdom", "waitScan"}
Starting == {"readRotation", "readTranslation", "startRotation", "startTranslation"}
Matching == {"scan", "lock", "match", "storeRotation", "storeTranslation", "unlock"}
Callback == {"idle", "initialRotation", "initialTranslation", "poseLock",
             "poseRotation", "poseTranslation"}

Init ==
    /\ loc = "waitOdom"
    /\ cb = "idle"
    /\ lock = "free"
    /\ mat_odom2map_ = [p \in Part |-> PoseValue(0)]
    /\ mat_initialpose_ = [p \in Part |-> 0]      \* the pose of the configuration
    /\ copy = [p \in Part |-> 0]
    /\ reg_matrix = [p \in Part |-> PoseValue(0)]
    /\ fitness_initial = 0
    /\ count_success = 0
    /\ loc_initialized_ = FALSE
    /\ loc_fitness_ = 0
    /\ odom_received = FALSE
    /\ odom_new = FALSE
    /\ que_pcd_scan_ = <<>>
    /\ pcd_scan_cur_ = FALSE
    /\ poses = 0
    /\ late = 0

-----------------------------------------------------------------------------
(* The callbacks.                                                           *)

\* CallbackBaselink2Odom: what it leaves behind besides its messages is the stamp.
CallbackBaselink2Odom ==
    /\ cb = "idle"
    /\ odom_received' = TRUE
    /\ odom_new' = TRUE
    /\ UNCHANGED <<loc, cb, lock, matrices, matching, que_pcd_scan_, pcd_scan_cur_, history>>

\* CallbackScan: a full queue is merged into
\* pcd_scan_cur_, its oldest scan dropped.
CallbackScan(scan) ==
    /\ cb = "idle"
    /\ \/ /\ Len(que_pcd_scan_) < queue_maxsize_
          /\ que_pcd_scan_' = Append(que_pcd_scan_, scan)
          /\ UNCHANGED pcd_scan_cur_
       \/ /\ Len(que_pcd_scan_) >= queue_maxsize_
          /\ pcd_scan_cur_' = \E i \in DOMAIN que_pcd_scan_ : que_pcd_scan_[i] = "points"
          /\ que_pcd_scan_' = Append(Tail(que_pcd_scan_), scan)
    /\ UNCHANGED <<loc, cb, lock, matrices, matching, odom_received, odom_new, history>>

\* CallbackInitialPose takes the pose over unless the match is certain already.
CallbackInitialPose ==
    /\ cb = "idle"
    /\ poses < MaxPoses
    /\ ~(loc_initialized_ /\ loc_fitness_ > Certain)
    /\ cb' = "initialRotation"
    /\ poses' = poses + 1
    /\ late' = IF loc \in Waiting \cup Starting THEN late ELSE poses + 1
    /\ UNCHANGED <<loc, lock, matrices, matching, inputs>>

\* It writes mat_initialpose_ without a lock ...
writeInitialPose(p, here, next) ==
    /\ cb = here
    /\ cb' = next
    /\ mat_initialpose_' = [mat_initialpose_ EXCEPT ![p] = poses]
    /\ UNCHANGED <<loc, lock, mat_odom2map_, copy, reg_matrix, matching, inputs, history>>

\* Whether lock_mat_odom2map_ can be taken: the other thread does not hold it.
mayLock_Always(other) == TRUE

mayLock(other) == lock # other

\* ... waits for a match under way to end ...
poseLock ==
    /\ cb = "poseLock"
    /\ mayLock("loc")
    /\ lock' = "executor"
    /\ cb' = "poseRotation"
    /\ UNCHANGED <<loc, matrices, matching, inputs, history>>

\* ... and writes mat_odom2map_.  The lock is free again after the second part.
lockAfter_Kept(next) == lock

lockAfter(next) == IF next = "idle" THEN "free" ELSE lock

writePose(p, here, next) ==
    /\ cb = here
    /\ cb' = next
    /\ mat_odom2map_' = [mat_odom2map_ EXCEPT ![p] = PoseValue(mat_initialpose_[p])]
    /\ lock' = lockAfter(next)
    /\ UNCHANGED <<loc, mat_initialpose_, copy, reg_matrix, matching, inputs, history>>

poseStep ==
    \/ writeInitialPose("rotation", "initialRotation", "initialTranslation")
    \/ writeInitialPose("translation", "initialTranslation", "poseLock")
    \/ writePose("rotation", "poseRotation", "poseTranslation")
    \/ writePose("translation", "poseTranslation", "idle")

-----------------------------------------------------------------------------
(* Localization(): the start.  Every wait of thread_loc_ is a loop that      *)
(* sleeps, or does not even sleep, and asks again.                          *)

waitOdom ==
    /\ loc = "waitOdom"
    /\ loc' = IF odom_received THEN "waitScan" ELSE loc
    /\ UNCHANGED <<cb, lock, matrices, matching, inputs, history>>

waitScan ==
    /\ loc = "waitScan"
    /\ loc' = IF pcd_scan_cur_ THEN "readRotation" ELSE loc
    /\ UNCHANGED <<cb, lock, matrices, matching, inputs, history>>

\* mat_odom2map_ = mat_initialpose_ with no lock held: what is read may be old when it is
\* written.
readInitialPose(p, here, next) ==
    /\ loc = here
    /\ loc' = next
    /\ copy' = [copy EXCEPT ![p] = mat_initialpose_[p]]
    /\ UNCHANGED <<cb, lock, mat_odom2map_, mat_initialpose_, reg_matrix, matching,
                   inputs, history>>

writeStart(p, here, next) ==
    /\ loc = here
    /\ loc' = next
    /\ mat_odom2map_' = [mat_odom2map_ EXCEPT ![p] = PoseValue(copy[p])]
    /\ UNCHANGED <<cb, lock, mat_initialpose_, copy, reg_matrix, matching, inputs, history>>

start ==
    \/ readInitialPose("rotation", "readRotation", "readTranslation")
    \/ readInitialPose("translation", "readTranslation", "startRotation")
    \/ writeStart("rotation", "startRotation", "startTranslation")
    \/ writeStart("translation", "startTranslation", "scan")

-----------------------------------------------------------------------------
(* A match, in LocalizationInitialize() and then in the loop of             *)
(* Localization().                                                          *)

\* The loop waits for another odometry stamp and remembers it, matched or not.
nextStamp ==
    /\ loc = "stamp"
    /\ odom_new' = FALSE
    /\ loc' = IF odom_new THEN "scan" ELSE loc
    /\ UNCHANGED <<cb, lock, matrices, matching, odom_received, que_pcd_scan_, pcd_scan_cur_,
                   history>>

\* The merged scan is copied; without points LocalizationInitialize asks for it again,
\* and the loop waits for the next stamp.
copyScan ==
    /\ loc = "scan"
    /\ \/ pcd_scan_cur_ /\ loc' = "lock"
       \/ ~pcd_scan_cur_ /\ loc' = IF loc_initialized_ THEN "stamp" ELSE loc
    /\ UNCHANGED <<cb, lock, matrices, matching, inputs, history>>

lockMatch ==
    /\ loc = "lock"
    /\ mayLock("executor")
    /\ lock' = "loc"
    /\ loc' = "match"
    /\ UNCHANGED <<cb, matrices, matching, inputs, history>>

\* The match starts from mat_odom2map_; whatever it finds, it descends from that pose.
matched(f) == [p \in Part |-> [pose |-> mat_odom2map_[p].pose, fit |-> f]]

\* LocalizationInitialize takes every match over.
matchInitial(f) ==
    /\ ~loc_initialized_
    /\ fitness_initial' = f
    /\ loc' = "storeRotation"
    /\ UNCHANGED loc_fitness_

\* The loop takes over a match above the threshold, and publishes the fitness of any.
taken_Any(f) == TRUE

taken_Certain(f) == f > Certain

taken(f) == f > threshold_fitness_

matchAgain(f) ==
    /\ loc_initialized_
    /\ loc_fitness_' = f
    /\ loc' = IF taken(f) THEN "storeRotation" ELSE "unlock"
    /\ UNCHANGED fitness_initial

match(f) ==
    /\ loc = "match"
    /\ reg_matrix' = matched(f)
    /\ matchInitial(f) \/ matchAgain(f)
    /\ UNCHANGED <<cb, lock, mat_odom2map_, mat_initialpose_, copy, count_success,
                   loc_initialized_, inputs, history>>

store(p, here, next) ==
    /\ loc = here
    /\ loc' = next
    /\ mat_odom2map_' = [mat_odom2map_ EXCEPT ![p] = reg_matrix[p]]
    /\ UNCHANGED <<cb, lock, mat_initialpose_, copy, reg_matrix, matching, inputs, history>>

unlocked_Kept == lock

unlocked == "free"

\* count_success after a match of LocalizationInitialize: matches in a row.
inARow == IF fitness_initial > threshold_fitness_init_ THEN count_success + 1 ELSE 0

enough_More == inARow > 2

enough == inARow >= 2

unlock ==
    /\ loc = "unlock"
    /\ lock' = unlocked
    /\ \/ /\ loc_initialized_
          /\ loc' = "stamp"
          /\ UNCHANGED count_success
       \/ /\ ~loc_initialized_
          /\ count_success' = inARow
          /\ loc' = IF enough THEN "initialized" ELSE "scan"
    /\ UNCHANGED <<cb, matrices, fitness_initial, loc_initialized_, loc_fitness_, inputs,
                   history>>

\* loc_initialized_ is set; time_last starts 3 s before the last stamp.
setInitialized ==
    /\ loc = "initialized"
    /\ loc_initialized_' = TRUE
    /\ odom_new' = TRUE
    /\ loc' = "stamp"
    /\ UNCHANGED <<cb, lock, matrices, fitness_initial, count_success, loc_fitness_,
                   odom_received, que_pcd_scan_, pcd_scan_cur_, history>>

Localization ==
    \/ waitOdom
    \/ waitScan
    \/ start
    \/ nextStamp
    \/ copyScan
    \/ lockMatch
    \/ \E f \in Fitness : match(f)
    \/ store("rotation", "storeRotation", "storeTranslation")
    \/ store("translation", "storeTranslation", "unlock")
    \/ unlock
    \/ setInitialized

Next ==
    \/ CallbackBaselink2Odom
    \/ \E scan \in Scan : CallbackScan(scan)
    \/ CallbackInitialPose
    \/ poseLock
    \/ poseStep
    \/ Localization

Spec == Init /\ [][Next]_vars

\* Both threads run.  std::mutex promises no order, but the lock is free for the copy of a
\* scan between two matches, which a waiting callback does not miss forever.
FairSpec == Spec /\ WF_vars(Localization) /\ WF_vars(poseStep) /\ SF_vars(poseLock)

-----------------------------------------------------------------------------
TypeOK ==
    /\ loc \in Waiting \cup Starting \cup Matching \cup {"initialized", "stamp"}
    /\ cb \in Callback
    /\ lock \in {"free", "executor", "loc"}
    /\ mat_odom2map_ \in Transform
    /\ mat_initialpose_ \in [Part -> 0..MaxPoses]
    /\ copy \in [Part -> 0..MaxPoses]
    /\ reg_matrix \in Transform
    /\ fitness_initial \in Fitness
    /\ count_success \in 0..2
    /\ loc_initialized_ \in BOOLEAN
    /\ loc_fitness_ \in Fitness
    /\ odom_received \in BOOLEAN
    /\ odom_new \in BOOLEAN
    /\ que_pcd_scan_ \in Seq(Scan) /\ Len(que_pcd_scan_) <= queue_maxsize_
    /\ pcd_scan_cur_ \in BOOLEAN
    /\ poses \in 0..MaxPoses
    /\ late \in 0..poses

\* A pose the operator gives while matches are computed is never overwritten by a match
\* that started from an older transform: between two callbacks both parts of
\* mat_odom2map_ descend from it (CallbackInitialPose, lock_mat_odom2map_).  A pose that
\* arrives before the start value is written may be lost to it.
OperatorPoseKept ==
    cb = "idle" => \A p \in Part : mat_odom2map_[p].pose >= late

\* Once the localisation is initialised, poses in the map are computed from an operator's
\* pose or from a match above its threshold, never from a rejected one.
MatchedOnceInitialised ==
    loc_initialized_ =>
        \A p \in Part : \/ mat_odom2map_[p].fit = Given
                        \/ mat_odom2map_[p].fit > threshold_fitness_
                        \/ mat_odom2map_[p].fit > threshold_fitness_init_

\* With no match and no pose under way, a published confidence above the threshold is the
\* fitness of the very transform in use, unless the operator has replaced it since.
ConfidenceSettled ==
    lock = "free" /\ loc_fitness_ > threshold_fitness_ =>
        \/ \A p \in Part : mat_odom2map_[p] = [pose |-> reg_matrix[p].pose, fit |-> loc_fitness_]
        \/ \A p \in Part : mat_odom2map_[p].fit = Given

\* The executor, which odometry and scans need too, is never held for good by a pose that
\* waits for a match to end.
ExecutorFreed == cb # "idle" ~> cb = "idle"

\* As long as the merged scan has points and odometry arrives, matches go on.
MatchesGoOn ==
    <>[]pcd_scan_cur_ /\ []<>odom_new => []<>(loc = "match")
=============================================================================
