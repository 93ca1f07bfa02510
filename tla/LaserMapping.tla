---------------------------- MODULE LaserMapping ----------------------------
(***************************************************************************)
(* FAST-LIO's node (laserMapping.cpp): the callbacks that buffer lidar     *)
(* scans and IMU samples, and the timer that pairs a scan with the samples *)
(* up to its end, propagates the filter over them, and publishes the       *)
(* odometry.  One thread runs them all; the two topics arrive in any       *)
(* order, each in its own, and a topic that is not served in time drops    *)
(* its oldest messages.                                                    *)
(*                                                                         *)
(* The filter is abstracted to the time its state stands for, a cloud to   *)
(* its stamp and whether it has enough points.  Scans are of one length.   *)
(***************************************************************************)
EXTENDS Integers, Sequences, SequencesExt

CONSTANTS
    ScanLen,       \* duration of a scan, which the lidar repeats
    ImuPeriod,     \* time between IMU samples
    LidarDepth, ImuDepth,   \* KEEP_LAST depths of the subscriptions
    MAX_INI_COUNT, \* samples the initialisation takes
    Uninitialised, \* values last_lidar_end_time_ may start with: no constructor sets it
    MaxTime,       \* bound on the clock of the sensors
    MaxBacklog,    \* bound on the messages buffered when the clock goes on
    MaxEpoch,      \* bound on the times their clock goes back
    MaxTimeAgain   \* bound on the clock once it went back

ASSUME LaserMappingAssumption ==
    /\ {ScanLen, ImuPeriod, LidarDepth, ImuDepth} \subseteq Nat \ {0}
    /\ {MAX_INI_COUNT, MaxTime, MaxBacklog, MaxEpoch, MaxTimeAgain} \subseteq Nat
    /\ MaxTimeAgain <= MaxTime
    /\ Uninitialised \subseteq Nat

\* How many points a scan has left: at most one, fewer than an update needs, or enough.
Points == {"none", "few", "many"}
Time == 0..MaxTime
Scan == [epoch : 0..MaxEpoch, beg : Time, points : Points]

VARIABLES
    now, epoch,                      \* the sensors: their clock, and how often it went back
    lidar_topic, imu_topic,          \* messages not yet delivered
    lidar_buffer, time_buffer, imu_buffer,
    last_timestamp_lidar, last_timestamp_imu,
    lidar_pushed, lidar_mean_scantime,
    meas,                            \* Measures: [lidar, beg, end]
    flg_first_scan,
    init_iter_num, last_imu, last_lidar_end_time,   \* ImuProcess
    filter_time,                     \* the time the state of the filter stands for, counted
                                     \* from the scan the map was made of
    feats_undistort, ikdtree,        \* the scan last undistorted; whether there is a map
    odom                             \* what was published last

sensors == <<now, epoch>>
buffers == <<lidar_buffer, time_buffer, imu_buffer, last_timestamp_lidar, last_timestamp_imu>>
pairing == <<lidar_pushed, lidar_mean_scantime, meas>>
process == <<flg_first_scan, init_iter_num, last_imu, last_lidar_end_time, filter_time,
             feats_undistort, ikdtree, odom>>
vars == <<sensors, lidar_topic, imu_topic, buffers, pairing, process>>

NoScan == [epoch |-> 0, beg |-> 0, points |-> "none"]

Init ==
    /\ now = 0 /\ epoch = 0
    /\ lidar_topic = <<>> /\ imu_topic = <<>>
    /\ lidar_buffer = <<>> /\ time_buffer = <<>> /\ imu_buffer = <<>>
    /\ last_timestamp_lidar = 0 /\ last_timestamp_imu = -1
    /\ lidar_pushed = FALSE /\ lidar_mean_scantime = 0
    /\ meas = [lidar |-> NoScan, beg |-> 0, end |-> 0]
    /\ flg_first_scan = TRUE
    /\ init_iter_num = 1 /\ last_imu = 0
    /\ last_lidar_end_time \in Uninitialised
    /\ filter_time = 0
    /\ feats_undistort = NoScan /\ ikdtree = FALSE
    /\ odom = [stamp |-> 0, scan |-> NoScan, of |-> NoScan, at |-> 0, fresh |-> FALSE]

-----------------------------------------------------------------------------
\* The sensors, and the topics that keep the last messages only.
KeepLast(topic, msg, depth) ==
    IF Len(topic) < depth THEN Append(topic, msg) ELSE Append(Tail(topic), msg)

Tick ==
    /\ now < IF epoch = 0 THEN MaxTime ELSE MaxTimeAgain
    /\ Len(lidar_buffer) + Len(imu_buffer) <= MaxBacklog
    /\ now' = now + 1
    /\ imu_topic' = IF now' % ImuPeriod = 0 THEN KeepLast(imu_topic, now', ImuDepth)
                    ELSE imu_topic
    /\ IF now' % ScanLen # 0 THEN UNCHANGED lidar_topic
       ELSE \E p \in Points :
               lidar_topic' = KeepLast(lidar_topic, [epoch |-> epoch, beg |-> now' - ScanLen,
                                                     points |-> p], LidarDepth)
    /\ UNCHANGED <<epoch, buffers, pairing, process>>

LoopBack ==
    /\ epoch < MaxEpoch
    /\ epoch' = epoch + 1
    /\ now' = 0
    /\ UNCHANGED <<lidar_topic, imu_topic, buffers, pairing, process>>

-----------------------------------------------------------------------------
\* The callbacks.  A stamp that goes back clears the buffer of the scans, not of their times.
livox_pcl_cbk ==
    /\ lidar_topic # <<>>
    /\ LET scan == Head(lidar_topic)
           back == scan.beg < last_timestamp_lidar
       IN  /\ lidar_buffer' = IF back THEN <<scan>> ELSE Append(lidar_buffer, scan)
           /\ time_buffer' = Append(time_buffer, scan.beg)
           /\ last_timestamp_lidar' = scan.beg
    /\ lidar_topic' = Tail(lidar_topic)
    /\ UNCHANGED <<sensors, imu_topic, imu_buffer, last_timestamp_imu, pairing, process>>

imu_cbk ==
    /\ imu_topic # <<>>
    /\ LET stamp == Head(imu_topic) IN
          /\ imu_buffer' = IF stamp < last_timestamp_imu THEN <<stamp>> ELSE Append(imu_buffer, stamp)
          /\ last_timestamp_imu' = stamp
    /\ imu_topic' = Tail(imu_topic)
    /\ UNCHANGED <<sensors, lidar_topic, lidar_buffer, time_buffer, last_timestamp_lidar,
                   pairing, process>>

-----------------------------------------------------------------------------
\* sync_packages: the scan being paired, and the samples it takes.
scanTime(scan) == IF scan.points = "none" THEN lidar_mean_scantime ELSE ScanLen

Paired ==
    IF lidar_pushed THEN meas
    ELSE [lidar |-> Head(lidar_buffer), beg |-> Head(time_buffer),
          end |-> Head(time_buffer) + scanTime(Head(lidar_buffer))]

\* The loop takes a sample that is not past the end, if the one before it is before the end.
Takes(i, end) == imu_buffer[i] <= end /\ imu_buffer[IF i = 1 THEN 1 ELSE i - 1] < end

ImuUpTo(end) ==
    LET n == CHOOSE n \in 0..Len(imu_buffer) :
                /\ \A i \in 1..n : Takes(i, end)
                /\ n < Len(imu_buffer) => ~Takes(n + 1, end)
    IN  SubSeq(imu_buffer, 1, n)

CanSync == lidar_buffer # <<>> /\ imu_buffer # <<>>

\* Variant: the wait is for the samples up to the start of the scan.
ImuReached_Start(end) == last_timestamp_imu >= end - ScanLen

ImuReached(end) == last_timestamp_imu >= end

\* Every full scan has the same length, which is then also their mean.
pushScan_Sum ==
    lidar_mean_scantime' = lidar_mean_scantime + IF lidar_pushed THEN 0 ELSE ScanLen

pushScan ==
    lidar_mean_scantime' = IF ~lidar_pushed /\ Head(lidar_buffer).points # "none"
                           THEN ScanLen ELSE lidar_mean_scantime

\* The scan is taken, its end lies ahead of the IMU samples.
syncWaits ==
    /\ CanSync
    /\ ~lidar_pushed
    /\ ~ImuReached(Paired.end)
    /\ lidar_pushed' = TRUE
    /\ meas' = Paired
    /\ pushScan
    /\ UNCHANGED <<sensors, lidar_topic, imu_topic, buffers, process>>

popTime_Forgotten == UNCHANGED time_buffer

popTime == time_buffer' = Tail(time_buffer)

scanDone_Kept == UNCHANGED lidar_pushed

scanDone == lidar_pushed' = FALSE

syncDone(imu) ==
    /\ ImuReached(Paired.end)
    /\ imu = ImuUpTo(Paired.end)
    /\ imu_buffer' = SubSeq(imu_buffer, Len(imu) + 1, Len(imu_buffer))
    /\ lidar_buffer' = Tail(lidar_buffer)
    /\ popTime
    /\ scanDone
    /\ meas' = Paired
    /\ pushScan
    /\ UNCHANGED <<sensors, lidar_topic, imu_topic, last_timestamp_lidar, last_timestamp_imu>>

-----------------------------------------------------------------------------
\* ImuProcess.

\* UndistortPcl: how long the filter is propagated between two samples, and over a scan.
step_Whole(head, tail) == tail - head

step(head, tail) ==
    IF tail < last_lidar_end_time THEN 0
    ELSE IF head < last_lidar_end_time THEN tail - last_lidar_end_time
    ELSE tail - head

Absolute(x) == IF x < 0 THEN -x ELSE x

Propagated(imu, end) ==
    LET v == <<last_imu>> \o imu
        total[i \in 0..Len(imu)] == IF i = 0 THEN 0 ELSE total[i - 1] + step(v[i], v[i + 1])
    IN  total[Len(imu)] + Absolute(end - Last(imu))

\* Process: nothing without samples, so that feats_undistort is still the scan before.
noSamples(imu) ==
    /\ imu = <<>>
    /\ UNCHANGED <<init_iter_num, last_imu, last_lidar_end_time, filter_time, feats_undistort>>

imu_need_init == init_iter_num <= MAX_INI_COUNT

IMU_init(imu) ==
    /\ imu # <<>>
    /\ imu_need_init
    /\ init_iter_num' = init_iter_num + Len(imu)
    /\ last_imu' = Last(imu)
    /\ UNCHANGED <<last_lidar_end_time, filter_time, feats_undistort>>

UndistortPcl(imu) ==
    /\ imu # <<>>
    /\ ~imu_need_init
    /\ filter_time' = IF ikdtree THEN filter_time + Propagated(imu, Paired.end) ELSE Paired.end
    /\ last_imu' = Last(imu)
    /\ last_lidar_end_time' = Paired.end
    /\ feats_undistort' = Paired.lidar
    /\ UNCHANGED init_iter_num

Process(imu) == noSamples(imu) \/ IMU_init(imu) \/ UndistortPcl(imu)

-----------------------------------------------------------------------------
\* timer_callback.
timerFirstScan ==
    /\ CanSync
    /\ flg_first_scan
    /\ \E imu \in {ImuUpTo(Paired.end)} : syncDone(imu)
    /\ flg_first_scan' = FALSE
    /\ UNCHANGED <<init_iter_num, last_imu, last_lidar_end_time, filter_time, feats_undistort,
                   ikdtree, odom>>

\* The first scan with points makes the map; the following ones are registered and published.
register(imu) ==
    IF feats_undistort'.points # "many" THEN UNCHANGED <<ikdtree, odom>>
    ELSE IF ~ikdtree THEN ikdtree' = TRUE /\ UNCHANGED odom
    ELSE /\ odom' = [stamp |-> Paired.end, scan |-> feats_undistort', of |-> Paired.lidar,
                     at |-> filter_time', fresh |-> imu # <<>>]
         /\ UNCHANGED ikdtree

timerScan ==
    /\ CanSync
    /\ ~flg_first_scan
    /\ \E imu \in {ImuUpTo(Paired.end)} : syncDone(imu) /\ Process(imu) /\ register(imu)
    /\ UNCHANGED flg_first_scan

timer_callback == syncWaits \/ timerFirstScan \/ timerScan

Next == Tick \/ LoopBack \/ livox_pcl_cbk \/ imu_cbk \/ timer_callback

Spec == Init /\ [][Next]_vars

-----------------------------------------------------------------------------
TypeOK ==
    /\ now \in Time /\ epoch \in 0..MaxEpoch
    /\ lidar_topic \in Seq(Scan) /\ Len(lidar_topic) <= LidarDepth
    /\ imu_topic \in Seq(Time) /\ Len(imu_topic) <= ImuDepth
    /\ lidar_buffer \in Seq(Scan) /\ time_buffer \in Seq(Time) /\ imu_buffer \in Seq(Time)
    /\ last_timestamp_lidar \in Time /\ last_timestamp_imu \in Time \union {-1}
    /\ lidar_pushed \in BOOLEAN /\ lidar_mean_scantime \in {0, ScanLen}
    /\ meas \in [lidar : Scan, beg : Time, end : 0..MaxTime + ScanLen]
    /\ flg_first_scan \in BOOLEAN
    /\ init_iter_num \in Nat /\ last_imu \in Time
    /\ last_lidar_end_time \in Uninitialised \union 0..MaxTime + ScanLen
    /\ filter_time \in Int
    /\ feats_undistort \in Scan /\ ikdtree \in BOOLEAN
    /\ odom \in [stamp : 0..MaxTime + ScanLen, scan : Scan, of : Scan, at : Int, fresh : BOOLEAN]

\* A scan is paired with its own time: the buffers of the scans and of their times run in
\* step, and the scan being paired is the front one.
OwnTimes ==
    /\ Len(time_buffer) = Len(lidar_buffer)
    /\ \A i \in DOMAIN lidar_buffer : time_buffer[i] = lidar_buffer[i].beg
    /\ lidar_pushed => lidar_buffer # <<>> /\ meas.lidar = Head(lidar_buffer)

\* Scans keep their own time as long as the clock of the lidar does not go back, whatever is
\* dropped or late, and also while a scan waits for its samples.
PairsOwnTime == epoch = 0 => OwnTimes

\* They keep it also when the clock goes back, if what is said then is done: "lidar loop
\* back, clear buffer" (laserMapping.cpp:319).
LoopBackClearsBuffer == OwnTimes

\* An odometry published for a scan that had IMU samples is of that scan, and the filter was
\* propagated exactly to its stamp, also when a scan ends between two samples and when the
\* scan before it found none (samples lost) and left the filter behind (sync_packages,
\* UndistortPcl).
OdometryTruthful ==
    epoch = 0 /\ odom.fresh => odom.scan = odom.of /\ odom.at = odom.stamp

\* Odometry is published with increasing stamps, each scan at most once, as long as the clock
\* does not go back: its readers drop transforms that do not advance.
StampsIncrease == [][epoch = 0 /\ odom' # odom => odom'.stamp > odom.stamp]_vars

\* A scan is processed with every sample of its time that the node gets, although scans and
\* samples come on two topics and wait for each other from one timer to the next: no sample
\* from before a published stamp, or from before the end of the last scan paired, is still
\* in the buffer or arrives later.
SamplesComplete ==
    epoch = 0 =>
        \A t \in Range(imu_buffer) \union Range(imu_topic) :
            t >= odom.stamp /\ (~lidar_pushed => t >= meas.end)
=============================================================================
