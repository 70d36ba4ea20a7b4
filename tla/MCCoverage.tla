----------------------------- MODULE MCCoverage -----------------------------
(***************************************************************************)
(* Instances of CoverageMission for TLC: grids that are free but for a few  *)
(* cells or walls.                                                         *)
(***************************************************************************)
EXTENDS CoverageProperties

CONSTANT Walls       \* whether the only map is the one of two rooms

\* A map that is free except for the given cells, which are occupied or unknown.
Survey(cells) == [p \in Cells |-> IF p \notin cells THEN 0
                                  ELSE IF (p[1] + p[2]) % 2 = 0 THEN 100 ELSE -1]

\* A room of five rows and six columns without the cells no row sweeps, and beside it
\* a free cell nobody can get to; the same with one more cell taken; rooms in a U around
\* a wall; two rooms with a wall between them and no door, side by side and one above
\* the other; two cells that are not free, in some position to each other.
Taken == {p \in Cells : p[1] > 4 \/ p[2] > 5} \cup ({0, 4} \X {0, 5})
            \cup {<<2, 0>>}
Room == Survey(Taken \ {<<6, 2>>})
RoomWithNiche == Survey((Taken \ {<<6, 2>>}) \cup {<<2, 5>>})
URoom == Survey({p \in Cells : p[1] > 2 /\ p[2] = 3})
TwoRooms == Survey({p \in Cells : p[2] = Cols \div 2})
TwoFloors == Survey({p \in Cells : p[1] = 4})
Spots == {Survey({p, Shift(p, d)} \cap Cells) :
             p \in Cells,
             d \in {<<0, 0>>, <<1, 1>>, <<2, -1>>, <<0, 4>>}}

MCSurveys == IF Walls THEN {TwoRooms}
             ELSE {Room, RoomWithNiche, URoom, TwoFloors} \cup Spots
MCNextSurveys == IF Walls THEN {} ELSE {Room, RoomWithNiche}

MCStarts == IF Walls THEN {<<1, 1>>} ELSE {<<1, 1>>, <<3, 4>>, <<6, 5>>}

MCPaths == 1 .. MaxTasks

MCCheckpoints ==
    [id : Paths, disp : Seq({"PENDING", "COVERED", "EXEMPT", "FAILED"}),
     counts : [Cells -> Nat]]

\* The proofs that rows are drivable, and that their passes leave no hole, rest on this.
ASSUME RowsAssumption == InsetIsSmall /\ ToolRadius > 1

\* All maps are planned on.  One task is driven in the U; second tasks and restarts are
\* explored for the room.  Both are driven from one start, and a segment is given up only
\* in the first task of the room.
Explored ==
    \/ tasks = 0
    \/ /\ "FAILED" \in ToSet(disp) => tasks = 1 /\ latest_map_ = Room
       /\ \/ tasks = 1 /\ deaths = 0 /\ latest_map_ = URoom /\ start_ \in {<<0, 0>>, <<6, 5>>}
          \/ named # << >> /\ named[1][1] = Room /\ start_ \in {<<0, 0>>, <<1, 1>>}
=============================================================================
