---------------------------- MODULE MCLaneLeases ----------------------------
(* Instances of LaneLeases for TLC: the shape of KNOWN_LANES and of         *)
(* LANE_CONFLICTS on three lanes, with research_lane the one lane whose     *)
(* capacity the boot rewrites.                                              *)
EXTENDS LaneLeases

MCLane == {"benchmark_lane", "gpu_research_lane", "research_lane"}
MCConflicts == [l \in MCLane |->
    CASE l = "benchmark_lane" -> {"gpu_research_lane"}
      [] l = "gpu_research_lane" -> {"benchmark_lane"}
      [] l = "research_lane" -> {}]
MCRequests == {{"benchmark_lane"}, {"research_lane"}, {"research_lane", "gpu_research_lane"}}
MCCapacity(n) == [l \in MCLane |-> IF l = "research_lane" THEN n ELSE 1]
MCCapacityChoice == {MCCapacity(0), MCCapacity(1), MCCapacity(2)}
MCBound == MCCapacity(2)
=============================================================================
