------------------------- MODULE CoverageProperties -------------------------
(***************************************************************************)
(* What the coverage data owes the tasks that use it: properties of        *)
(* CoverageMission, and of the frontier detector on the same maps.         *)
(***************************************************************************)
EXTENDS CoverageMission, FrontierDetector

\* A task has begun and its plan is as the planner left it.
Begun == phase = "EXECUTING_SEGMENT" /\ plan_ = named[plan_id_][2]
            /\ \A i \in DOMAIN disp : disp[i] = "PENDING"

WorkOf(plan0) == {plan0[i] : i \in {j \in DOMAIN plan0 : plan0[j].type = "WORK"}}

-----------------------------------------------------------------------------
(* Masks *)

\* A cell is to be cleaned only when the tool reaches it from a place the robot can
\* get to without leaving the navigable cells, and what else is free is exempt.
MasksSound ==
    Begun =>
    LET clean == masks_.reachable_cleanable
        home  == connectedComponentFrom(masks_.navigable_center, start_, Connectivity)
    IN  /\ clean \cup masks_.exempt = classify(latest_map_) /\ clean \cap masks_.exempt = {}
        /\ \A c \in clean : \E h \in home : 4 * Dist2(c, h) <= ToolRadius * ToolRadius

-----------------------------------------------------------------------------
(* Decomposition and plan *)

RowOf(mask, r) == {c[2] : c \in {d \in mask : d[1] = r}}
OneRun(cols) == \A a, b \in cols : a .. b \subseteq cols

Over(m, n) == \E c \in m : <<c[1] + 1, c[2]>> \in n

Sweepable(m) ==
    LET rows == {c[1] : c \in m}
    IN  /\ OneRun(rows)
        /\ \A r \in rows : OneRun(RowOf(m, r))
        /\ \A r \in rows : r + 1 \in rows => RowOf(m, r) \cap RowOf(m, r + 1) # {}

Decomposes(cells, region) ==
    /\ UNION {cells[i].mask : i \in DOMAIN cells} = region
    /\ \A i \in DOMAIN cells :
          /\ Sweepable(cells[i].mask)
          /\ \A j \in DOMAIN cells \ {i} :
                /\ cells[i].mask \cap cells[j].mask = {}
                /\ j \in cells[i].neighbors <=>
                      Over(cells[i].mask, cells[j].mask) \/ Over(cells[j].mask, cells[i].mask)

\* The cells of the decomposition share out the region; each of them is one run of
\* columns in each of its rows, and the runs of consecutive rows overlap, so that it
\* can be swept from one side to the other; and two cells are neighbours exactly when
\* a run of one lies over a run of the other.
DecompositionSound ==
    Begun => LET region == masks_.reachable_cleanable IN Decomposes(decompose(region), region)

Visits(p, cells) ==
    Len(cells) > 1 =>
    LET rows == {i \in DOMAIN p : p[i].type = "WORK"}
    IN  /\ \A i, j, k \in rows :
              i < j /\ j < k /\ p[i].cell = p[k].cell => p[j].cell = p[i].cell
        /\ \A h \in DOMAIN cells : start_ \in cells[h].mask =>
              \A i, k \in rows : i < k /\ p[k].cell = h => p[i].cell = h

\* The plan of several cells sweeps one cell after the other, comes back to none, and
\* begins in the cell the robot is in when that one has rows at all.
PlanVisitsCells == Begun => Visits(plan_, decompose(masks_.reachable_cleanable))

\* The half cells from one end of an axis-parallel segment to the other.
Along(seg) ==
    LET Between(k) == Least({seg.start[k], seg.end[k]}) .. Greatest({seg.start[k], seg.end[k]})
    IN  Between(1) \X Between(2)
Straight(seg) == seg.start[1] = seg.end[1] \/ seg.start[2] = seg.end[2]

\* The inset is small: cut at both ends, the shortest row of a cell is still a row (0.05 m
\* of 0.15 m in the configuration that is shipped; the planner only refuses an inset below
\* 0).
InsetIsSmall == 2 * EndpointInset < ShortInCell

RowsInCells(cells) ==
    Len(cells) > 1 =>
        \A s \in WorkOf(plan_) : \A p \in Along(s) : worldToGridCell(p) \in cells[s.cell].mask

\* Every row goes over navigable cells only, inside its cell of the decomposition,
\* and the segments of a plan are joined: each starts where the one before ends.
PlanIsDrivable ==
    Begun =>
        /\ RowsInCells(decompose(masks_.reachable_cleanable))
        /\ \A s \in WorkOf(plan_) :
              /\ Straight(s) /\ s.start # s.end
              /\ \A p \in Along(s) : worldToGridCell(p) \in masks_.navigable_center
        /\ \A i \in DOMAIN plan_ \ {1} : plan_[i].start = plan_[i - 1].end

\* A WORK segment is over the reachable-cleanable mask (the class comment of
\* ScanlinePlanner): its row can be got to from where the robot is.
RowsAreReachable ==
    Begun => \A s \in WorkOf(plan_) :
        worldToGridCell(s.start) \in connectedComponentFrom(masks_.navigable_center, start_, 8)

-----------------------------------------------------------------------------
(* Driving and counting *)

\* What the clamp owes a coordinate: the inset from both edges of the valid cells'
\* bounding box, when that box is not thinner than two insets.
KeepsInset(mask, p) ==
    \A k \in 1 .. 2 :
        LET lo == 2 * Least({c[k] : c \in mask})  hi == 2 * Greatest({c[k] : c \in mask}) + 2
        IN  hi - lo >= 2 * ClampInset => p[k] - lo >= ClampInset /\ hi - p[k] >= ClampInset

Points == Int \X Int
Segments == [type : {"WORK", "TRANSITION"}, cell : Nat, start : Points, end : Points]

\* What the planner makes is a sequence of segments.
PlansAreSegments == \A b \in Planned : b.plan \in Seq(Segments)

\* The goals a segment is sent with are on navigable cells, and where some navigable
\* cell keeps the inset they keep it too and settle: a segment that is sent again,
\* clamped once more, goes to the same place (sendNextSegment clamps in the plan).
ClampSettles ==
    Begun =>
        LET nav == masks_.navigable_center
            room == \E c \in nav : KeepsInset(nav, gridToWorld(c))
        IN  \A s \in ToSet(plan_) :
              LET goal == clampSegmentGoals(nav, s)
              IN  /\ onValidCell(nav, goal.start) /\ onValidCell(nav, goal.end)
                  /\ room => /\ KeepsInset(nav, goal.start) /\ KeepsInset(nav, goal.end)
                             /\ clampSegmentGoals(nav, goal) = goal

\* The cells whose centre is beside the way from a to b and not further from it than
\* a disc reaches half a step away from its centre, which is half a unit.
Beside(a, b) ==
    LET len2 == Dist2(a, b)
        d == <<b[1] - a[1], b[2] - a[2]>>
        Rel(c) == <<gridToWorld(c)[1] - a[1], gridToWorld(c)[2] - a[2]>>
        Dot(c) == d[1] * Rel(c)[1] + d[2] * Rel(c)[2]
        Cross(c) == d[1] * Rel(c)[2] - d[2] * Rel(c)[1]
    IN  {c \in Cells : /\ Dot(c) \in 0 .. len2
                       /\ 4 * Cross(c) * Cross(c) <= (4 * ToolRadius * ToolRadius - 1) * len2}

\* The ends of a row, and the pose beside it a robot is sampled at that had to leave the
\* line, are three points of the map.
RowsOnMap ==
    \A b \in Planned : \A s \in WorkOf(b.plan) :
        /\ \A p \in {s.start, Round(s), s.end} : p \in Points /\ onMap(p)
        /\ s.start # s.end /\ s.start # Round(s) /\ Round(s) # s.end

\* A pass leaves no hole between two poses, "sparse odometry does not create uncovered
\* holes between samples" (addSweepSegment), in whatever direction the robot went.
SweepLeavesNoHoles ==
    Begun =>
    \A s \in WorkOf(plan_) :
        /\ Beside(s.start, s.end) \subseteq SegmentPass(s.start, s.end)
        /\ Beside(s.start, Round(s)) \cup Beside(Round(s), s.end)
              \subseteq PathPass(<<s.start, Round(s), s.end>>)

-----------------------------------------------------------------------------
(* Across tasks and restarts *)

\* A segment that counts as COVERED was driven to its end in this very plan, by this
\* task or by the one whose checkpoint it took over.
CoveredWasDriven ==
    \A i \in DOMAIN disp : disp[i] = "COVERED" => <<plan_id_, i>> \in driven

\* A task that reports a success has min_effective_coverage of the cells it had to
\* clean really behind it: on this map some committed pass, of this task or of one
\* whose checkpoint it resumed, went over them.
SuccessIsSwept ==
    phase = "TERMINAL" /\ result \in {"SUCCEEDED_FULL", "SUCCEEDED_WITH_EXEMPTIONS"} =>
        100 * Cardinality({c \in Effective(masks_) : <<latest_map_, c>> \in swept})
            >= MinCoverage * Cardinality(Effective(masks_))

-----------------------------------------------------------------------------
(* Frontier detection *)

Gathers(clusters, large) ==
    /\ {ToSet(clusters[i].cells) : i \in DOMAIN clusters} = large
    /\ Len(clusters) = Cardinality(large)
    /\ \A i \in DOMAIN clusters : \A p \in ToSet(clusters[i].cells) :
          /\ clusters[i].rep \in ToSet(clusters[i].cells)
          /\ CentroidDist2(clusters[i].cells, clusters[i].rep)
                <= CentroidDist2(clusters[i].cells, p)

\* The clusters are the connected components of the frontier cells that are large
\* enough, each once, and a representative is a cell of its cluster that no other
\* one is nearer to the centroid than.
ClustersAreComponents ==
    phase = "IDLE" /\ tasks = 0 =>
        Gathers(detect(latest_map_),
                {k \in Components(FrontierCells(latest_map_), ClusterConnectivity) :
                    Cardinality(k) >= MinClusterSize})
=============================================================================
