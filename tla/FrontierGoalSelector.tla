------------------------ MODULE FrontierGoalSelector ------------------------
(***************************************************************************)
(* From clusters to goal points (frontier_goal_selector.cpp) and the two   *)
(* filters on points, the blacklist (frontier_blacklist.cpp) and the       *)
(* entrance hysteresis (entrance_hysteresis.hpp).  Points are cell         *)
(* centres, distances are compared squared, and an expiry time is the      *)
(* time that is left until it.                                             *)
(***************************************************************************)
EXTENDS Integers, Sequences

CONSTANTS MinGoalDistance2,       \* squared radii and distances
          BlacklistRadius2, SuccessRadius2, HysteresisRadius2

Dist2(p, q) == (p[1] - q[1]) * (p[1] - q[1]) + (p[2] - q[2]) * (p[2] - q[2])

FarEnough(p, robot) == Dist2(p, robot) >= MinGoalDistance2

\* As FrontierDetector's CentroidDist2, on the sums the cluster carries.
FromCentroid(c, p) ==
    LET n == Len(c.cells)
    IN  (n * p[1] - c.sum[1]) * (n * p[1] - c.sum[1])
        + (n * p[2] - c.sum[2]) * (n * p[2] - c.sum[2])

\* The cells a too close representative is replaced by: of those far enough from
\* the robot the first that is nearest to the centroid.
Alternatives(c, robot) ==
    LET far == {i \in DOMAIN c.cells : FarEnough(c.cells[i], robot)}
    IN  {c.cells[i] : i \in {i \in far :
            \A j \in far : \/ FromCentroid(c, c.cells[i]) < FromCentroid(c, c.cells[j])
                           \/ /\ FromCentroid(c, c.cells[i]) = FromCentroid(c, c.cells[j])
                              /\ i <= j}}

\* The goal point of cluster c: none when every cell is too close.
GoalPoints(c, robot) ==
    IF FarEnough(c.rep, robot) THEN {c.rep} ELSE Alternatives(c, robot)

selectAll(clusters, robot) == UNION {GoalPoints(c, robot) : c \in clusters}

\* The order std::sort leaves between equal distances is not specified.
select(clusters, robot) ==
    {p \in selectAll(clusters, robot) :
        \A q \in selectAll(clusters, robot) : Dist2(p, robot) <= Dist2(q, robot)}

Radius2(kind) == IF kind = "failed" THEN BlacklistRadius2 ELSE SuccessRadius2

\* blacklist gives the time left of the entry of each kind at each point, 0 for
\* an expired or absent one; a second entry at a point outlasts the first.
contains(blacklist, p) ==
    \E e \in DOMAIN blacklist :
        blacklist[e] > 0 /\ Dist2(p, e[2]) <= Radius2(e[1])

add(blacklist, kind, p, timeout) == [blacklist EXCEPT ![<<kind, p>>] = timeout]

entranceHysteresisRejects(last, left, p) ==
    left > 0 /\ Dist2(p, last) < HysteresisRadius2
=============================================================================
