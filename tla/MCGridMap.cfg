SPECIFICATION Spec
CONSTANTS
  Axes <- MCAxes
  map_voxel_num <- MCSize
  inflate_offsets <- MCOffsets
  map_sliding_thresh_vox = 1
  local_update_range <- MCRange
  prob_hit_log = 1
  prob_miss_log <- MCMiss
  min_occupancy_log = 0
  clamp_max_log = 1
  StartIndex <- MCStart
  RayCells <- MCRays
INVARIANTS TypeOK NoGhostInflation CountsEveryObstacle
PROPERTY SlideKeepsCells
