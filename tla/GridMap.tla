------------------------------ MODULE GridMap ------------------------------
(***************************************************************************)
(* The sliding occupancy map of SCAN-Planner, plan_env/src/grid_map.cpp.   *)
(*                                                                         *)
(* The map is a box of cells that follows the sensor.  The cells live in a *)
(* ring buffer: a cell of the world is stored at its index modulo the size *)
(* of the box, so a slide moves no data and only empties the cells that    *)
(* leave.  Every cell keeps a log-odds level, and the number of occupied   *)
(* cells that inflate it; the trajectories avoid the cells whose number is *)
(* positive.  The numbers are kept incrementally: +1 when a cell becomes   *)
(* occupied, -1 when it stops being occupied or leaves the map.            *)
(*                                                                         *)
(* The dimensions are a parameter (the code has three).  An address is the *)
(* vector of ring indices, which the code packs in one integer.  Log-odds  *)
(* are integers, 0 for clamp_min_log_.  A scan is a sequence of voxels,    *)
(* each with its verdict: raycastProcess does one, and a scan of several   *)
(* is several of them from the same sensor pose.  slid is the set of the   *)
(* cells that a slide brought into the map; the code has no such variable. *)
(***************************************************************************)
EXTENDS Integers, FiniteSets

CONSTANTS
  Axes,             \* the dimensions of the map
  map_voxel_num,    \* the number of cells along each dimension
  inflate_offsets,  \* where an occupied cell inflates, relative to itself
  map_sliding_thresh_vox,   \* the smallest shift that moves the map
  local_update_range,       \* beyond it a hit is not believed
  prob_hit_log, prob_miss_log, min_occupancy_log, clamp_max_log,
  StartIndex,       \* the cell the map is centred on at the start
  RayCells          \* the cells the sensor visits

Vector == [Axes -> Int]

ASSUME DimensionsAssumption ==
  /\ IsFiniteSet(Axes)
  /\ map_voxel_num \in [Axes -> Nat \ {0}]
  /\ local_update_range \in [Axes -> Nat]
  /\ map_sliding_thresh_vox \in Nat \ {0}
  /\ inflate_offsets \subseteq Vector
  /\ StartIndex \in Vector
  /\ RayCells \subseteq Vector

ASSUME LogOddsAssumption ==
  /\ prob_hit_log \in Nat /\ prob_miss_log \in Int /\ prob_miss_log < 0
  /\ min_occupancy_log \in Nat /\ clamp_max_log \in Nat
  /\ min_occupancy_log < clamp_max_log

VARIABLES
  origin,         \* map_origin_idx_, the cell the map is centred on
  occupancy,      \* occupancy_buffer_, the log-odds of every address
  inflate_cnt,    \* occupancy_buffer_inflate_cnt_ of every address
  ray_pos,        \* ray_pos_, the cell of the sensor
  has_ray_pose,   \* has_ray_pose_
  slid

vars == <<origin, occupancy, inflate_cnt, ray_pos, has_ray_pose, slid>>

----------------------------------------------------------------------------
(* The ring buffer.                                                        *)

clamp_min_log == 0
Unknown == clamp_min_log - 1

Levels == Unknown .. clamp_max_log

Minus(a, b) == [i \in Axes |-> a[i] - b[i]]

BoundMin(o) == [i \in Axes |-> o[i] - map_voxel_num[i] \div 2]

isInMap(o, c) ==
  \A i \in Axes : c[i] \in BoundMin(o)[i] .. BoundMin(o)[i] + map_voxel_num[i] - 1

toAddress(c) == [i \in Axes |-> c[i] % map_voxel_num[i]]

Addresses ==
  {a \in [Axes -> UNION {0 .. map_voxel_num[i] - 1 : i \in Axes}] :
     \A i \in Axes : a[i] < map_voxel_num[i]}

\* The cell of the map centred on o that is stored at address a.
hashIdToGlobalIndex(o, a) ==
  [i \in Axes |->
     BoundMin(o)[i] + ((a[i] - (BoundMin(o)[i] % map_voxel_num[i])) % map_voxel_num[i])]

Cells(o) == {hashIdToGlobalIndex(o, a) : a \in Addresses}

----------------------------------------------------------------------------
(* Occupancy and inflation.                                                *)

Occupied(level) == level > min_occupancy_log

\* Variant: a number is decremented below zero.
NotNegative_Unchecked(n) == n

NotNegative(n) == IF n < 0 THEN 0 ELSE n

Covers(d, c) == Minus(c, d) \in inflate_offsets

Buffers(occ, cnt) == [occupancy |-> occ, inflate_cnt |-> cnt]

\* Every cell of the map that d covers, d's own included if the offsets say so.
updateInflation(o, cnt, d, delta) ==
  [a \in Addresses |-> IF Covers(d, hashIdToGlobalIndex(o, a))
                       THEN NotNegative(cnt[a] + delta) ELSE cnt[a]]

\* Variant: every update of an occupied cell inflates again.
applyOccupancyUpdate_Always(o, b, c, level) ==
  Buffers([b.occupancy EXCEPT ![toAddress(c)] = level],
          updateInflation(o, b.inflate_cnt, c, IF Occupied(level) THEN 1 ELSE -1))

applyOccupancyUpdate(o, b, c, level) ==
  LET was == Occupied(b.occupancy[toAddress(c)])
      now == Occupied(level)
  IN Buffers([b.occupancy EXCEPT ![toAddress(c)] = level],
             IF was = now THEN b.inflate_cnt
             ELSE updateInflation(o, b.inflate_cnt, c, IF now THEN 1 ELSE -1))

Clamped(level) ==
  IF level < clamp_min_log THEN clamp_min_log
  ELSE IF level > clamp_max_log THEN clamp_max_log ELSE level

InLocalRange(c) ==
  \A i \in Axes : c[i] - ray_pos[i] \in -local_update_range[i] .. local_update_range[i]

\* The update of one voxel of the cache: hit when at least half its rays end there.
updateVoxel(o, b, c, hit) ==
  LET level == b.occupancy[toAddress(c)]
      update == IF hit THEN prob_hit_log ELSE prob_miss_log
      near == IF InLocalRange(c) THEN b ELSE applyOccupancyUpdate(o, b, c, clamp_min_log)
  IN IF update >= 0 /\ level >= clamp_max_log THEN b
     ELSE IF update <= 0 /\ level <= clamp_min_log
       THEN applyOccupancyUpdate(o, b, c, clamp_min_log)
     ELSE applyOccupancyUpdate(o, near, c, Clamped(near.occupancy[toAddress(c)] + update))

----------------------------------------------------------------------------
(* Sliding.                                                                *)

Abs(n) == IF n < 0 THEN -n ELSE n

TooSmall(shift) == \A i \in Axes : Abs(shift[i]) < map_sliding_thresh_vox

LeavesNothing(shift) == \E i \in Axes : Abs(shift[i]) >= map_voxel_num[i]

\* Variant: the last slab of a slide is not emptied.
ClearMask_OffByOne(o, shift) ==
  {a \in Addresses :
     \E i \in Axes :
       LET first == BoundMin(o)[i]
           c == hashIdToGlobalIndex(o, a)[i]
       IN \/ shift[i] > 0 /\ c < first + shift[i] - 1
          \/ shift[i] < 0 /\ c > first + map_voxel_num[i] - 1 + shift[i]}

\* The addresses of the slabs that leave, dimension by dimension: clear_mask.
ClearMask(o, shift) ==
  {a \in Addresses :
     \E i \in Axes :
       LET first == BoundMin(o)[i]
           last == first + map_voxel_num[i] - 1
           c == hashIdToGlobalIndex(o, a)[i]
       IN \/ shift[i] > 0 /\ c < first + shift[i]
          \/ shift[i] < 0 /\ c > last + shift[i]}

\* Variant: the cells that leave are emptied, and what they gave is not taken back.
ResetForSliding_Forgets(o, b, mask) == b.inflate_cnt

\* What the occupied cells that leave give back to the cells that stay.
ResetForSliding(o, b, mask) ==
  LET leaving(a) == {d \in mask : /\ Occupied(b.occupancy[d])
                                  /\ Covers(hashIdToGlobalIndex(o, d), hashIdToGlobalIndex(o, a))}
  IN [a \in Addresses |-> NotNegative(b.inflate_cnt[a] - Cardinality(leaving(a)))]

Empty == Buffers([a \in Addresses |-> Unknown], [a \in Addresses |-> 0])

Slide(o, b, new) ==
  LET mask == ClearMask(o, Minus(new, o))
      given == ResetForSliding(o, b, mask)
  IN Buffers([a \in Addresses |-> IF a \in mask THEN Unknown ELSE b.occupancy[a]],
             [a \in Addresses |-> IF a \in mask THEN 0 ELSE given[a]])

SetBuffers(b) == occupancy' = b.occupancy /\ inflate_cnt' = b.inflate_cnt

updateSlidingMap(new) ==
  LET shift == Minus(new, origin)
      b == Buffers(occupancy, inflate_cnt)
  IN \/ TooSmall(shift) /\ UNCHANGED <<origin, occupancy, inflate_cnt, slid>>
     \/ /\ ~TooSmall(shift) /\ LeavesNothing(shift)
        /\ SetBuffers(Empty) /\ origin' = new /\ slid' = {}
     \/ /\ ~TooSmall(shift) /\ ~LeavesNothing(shift)
        /\ SetBuffers(Slide(origin, b, new)) /\ origin' = new
        /\ slid' = (slid \cap Cells(new)) \cup (Cells(new) \ Cells(origin))

----------------------------------------------------------------------------
(* The callbacks, serialised by the executor of the node.                  *)

Init ==
  /\ origin = StartIndex
  /\ occupancy = Empty.occupancy /\ inflate_cnt = Empty.inflate_cnt
  /\ ray_pos = StartIndex /\ has_ray_pose = FALSE
  /\ slid = {}

\* A pose of the sensor: the map follows it at once.
sensorPoseCallback(pos) ==
  /\ ray_pos' = pos /\ has_ray_pose' = TRUE
  /\ updateSlidingMap(pos)

\* One voxel of a scan.  The slide that precedes it in the code is the one of
\* the last pose again, a shift below the threshold.
raycastProcess(c, hit) ==
  /\ has_ray_pose
  /\ SetBuffers(updateVoxel(origin, Buffers(occupancy, inflate_cnt), c, hit))
  /\ UNCHANGED <<origin, ray_pos, has_ray_pose, slid>>

Next ==
  \/ \E pos \in RayCells : sensorPoseCallback(pos)
  \/ \E c \in Cells(origin), hit \in BOOLEAN : raycastProcess(c, hit)

Spec == Init /\ [][Next]_vars

----------------------------------------------------------------------------
(* Properties.                                                             *)

Level(c) == occupancy[toAddress(c)]
InflatedBy(c) == inflate_cnt[toAddress(c)]

\* The addresses of the occupied cells of the map that ought to inflate c.
Sources(c) ==
  {a \in Addresses : Occupied(occupancy[a]) /\ Covers(hashIdToGlobalIndex(origin, a), c)}

\* The variables keep their types, and the map follows the sensor: after a pose,
\* no scan finds the sensor a slide away from the centre (grid_map.cpp:548).
TypeOK ==
  /\ origin \in Vector /\ ray_pos \in Vector
  /\ has_ray_pose \in BOOLEAN
  /\ occupancy \in [Addresses -> Levels]
  /\ inflate_cnt \in [Addresses -> Nat]
  /\ slid \subseteq Cells(origin)
  /\ TooSmall(Minus(ray_pos, origin))

\* No ghost obstacle: the number a cell carries never exceeds the occupied cells
\* of the map around it, so a cell whose obstacles were cleared or left the map is
\* free again, however scans and slides alternate (grid_map.cpp:259-322, 400-412).
NoGhostInflation ==
  \A c \in Cells(origin) : InflatedBy(c) <= Cardinality(Sources(c))

\* The count is exact for a cell no slide brought in: no obstacle in the map is
\* missing from it (grid_map.cpp:288-300).
CountsEveryObstacle ==
  \A c \in Cells(origin) \ slid : InflatedBy(c) = Cardinality(Sources(c))

\* A slide forgets nothing it need not and remembers nothing it must forget: each
\* cell that stays keeps its level, each cell that enters is unknown, although it
\* takes the address of a cell that left (grid_map.cpp:343-415).
SlideKeepsCells ==
  [][origin' # origin =>
       \A c \in Cells(origin') :
         occupancy'[toAddress(c)] = IF c \in Cells(origin) THEN Level(c) ELSE Unknown]_vars

\* magic_v1.0.md:363 expects a safety zone around the obstacles: every cell that
\* an occupied cell of the map covers is inflated.
InflatesEveryObstacle ==
  \A c \in Cells(origin) : Sources(c) # {} => InflatedBy(c) > 0

============================================================================
