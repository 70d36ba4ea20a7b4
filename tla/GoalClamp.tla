------------------------------ MODULE GoalClamp -----------------------------
(***************************************************************************)
(* The goal endpoint clamp (goal_clamp.cpp), in half cells: an endpoint is *)
(* moved into a window, inset from the edge of the valid cells' bounding   *)
(* box, and from there to the nearest valid cell centre.                   *)
(***************************************************************************)
EXTENDS GridGeometry

CONSTANT ClampInset              \* goal_clamp_inset_m, in half cells
ASSUME ClampAssumption == ClampInset \in Nat

Least(S) == CHOOSE x \in S : \A y \in S : x <= y
Greatest(S) == CHOOSE x \in S : \A y \in S : y <= x

\* Variant of Window: the inset is kept on a region too thin for it.
WindowAlwaysInset(mask, k) ==
    LET lines == {c[k] : c \in mask}
    IN  <<2 * Least(lines) + ClampInset, 2 * Greatest(lines) + 2 - ClampInset>>

\* The window of coordinate k: no inset when the box is thinner than two insets.
Window(mask, k) ==
    LET lines == {c[k] : c \in mask}
        lo == 2 * Least(lines)  hi == 2 * Greatest(lines) + 2
    IN  IF hi - lo >= 2 * ClampInset THEN <<lo + ClampInset, hi - ClampInset>> ELSE <<lo, hi>>

Into(v, window) == IF v < window[1] THEN window[1] ELSE IF v > window[2] THEN window[2] ELSE v

\* p moved into the windows of both coordinates.
IntoBox(box, p) == <<Into(p[1], box[1]), Into(p[2], box[2])>>

\* The valid cells that are left when the inset is kept.
Inside(mask, box) == {c \in mask : IntoBox(box, gridToWorld(c)) = gridToWorld(c)}

onValidCell(mask, p) == onMap(p) /\ worldToGridCell(p) \in mask

\* The first in row-major order of the cells nearest to p.
NearestCentre(cells, p) ==
    LET d    == Least({Dist2(gridToWorld(c), p) : c \in cells})
        near == {c \in cells : Dist2(gridToWorld(c), p) = d}
        row  == Least({c[1] : c \in near})
    IN  gridToWorld(<<row, Least({c[2] : c \in {n \in near : n[1] = row}})>>)

clampGoalEndpoint(mask, p) ==
    LET box    == <<Window(mask, 1), Window(mask, 2)>>
        q      == IntoBox(box, p)
        inside == Inside(mask, box)
    IN  IF mask = {} \/ (onValidCell(mask, p) /\ q = p) THEN p
        ELSE NearestCentre(IF inside # {} THEN inside ELSE mask, q)

\* Both ends, each time a segment is dispatched; the plan itself is changed.
clampSegmentGoals(mask, seg) ==
    [seg EXCEPT !.start = clampGoalEndpoint(mask, @), !.end = clampGoalEndpoint(mask, @)]
=============================================================================
