----------------------------- MODULE MCTaskRuns -----------------------------
(* Instances of TaskRuns for TLC.  bench and gpu need lanes that conflict,  *)
(* build is of the unjoined kind, note is an inline action without lanes.   *)
EXTENDS TaskRuns

CONSTANTS bench, gpu, build, note

MCLane == {"benchmark_lane", "gpu_research_lane", "build_lane"}
MCConflicts == [l \in MCLane |->
    CASE l = "benchmark_lane" -> {"gpu_research_lane"}
      [] l = "gpu_research_lane" -> {"benchmark_lane"}
      [] OTHER -> {}]
MCLanes == [t \in Task |->
    CASE t = bench -> {"benchmark_lane"}
      [] t = gpu -> {"gpu_research_lane"}
      [] t = build -> {"build_lane"}
      [] OTHER -> {}]
MCTtl == [t \in Task |-> IF t = gpu THEN 0 ELSE 1]
MCBound == [l \in MCLane |-> 1]
MCCapacityChoice == {MCBound}
=============================================================================
