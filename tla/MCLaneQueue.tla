---------------------------- MODULE MCLaneQueue ----------------------------
(* LaneQueue with items dealt to the lanes in turn; the last has no run_id. *)
EXTENDS LaneQueue

CONSTANT NumItems

MCItems == 1..NumItems
MCLaneOf == [i \in MCItems |-> (i + 1) % N]
MCHasRunId == MCItems \ {NumItems}
=============================================================================
