---------------------------- MODULE CleanableMap ----------------------------
(***************************************************************************)
(* The masks a coverage task works on (cleanable_map_builder.cpp,          *)
(* coverage_masks.hpp, robot_cleaning_geometry.hpp).  A mask is the set of *)
(* the cells that are set in it; radii are in half cells.                  *)
(***************************************************************************)
EXTENDS GridGeometry

CONSTANTS FreeMax, Connectivity,
          ClearanceRadius,       \* clearanceRadiusM
          ToolRadius,            \* toolSweepRadiusM
          MinRegion              \* min_cleanable_region_area_m2, in cells

ASSUME RobotAssumption ==
    /\ FreeMax \in Nat /\ Connectivity \in {4, 8} /\ MinRegion \in Nat
    /\ ClearanceRadius \in Nat \ {0} /\ ToolRadius \in Nat \ {0}

\* Offsets of the cells whose centres are within the radius of a cell's centre.
Disc(radius) ==
    LET k == (radius + 1) \div 2
    IN  {d \in (-k .. k) \X (-k .. k) : 4 * Dist2(d, <<0, 0>>) <= radius * radius}

classify(map) == {p \in Cells : map[p] \in 0 .. FreeMax}

\* Off the map nothing is free.
erodeByDisc(mask, radius) == {p \in mask : \A d \in Disc(radius) : Shift(p, d) \in mask}

dilateByDisc(mask, radius) == {Shift(p, d) : p \in mask, d \in Disc(radius)} \cap Cells

TooSmall(region) == Cardinality(region) < MinRegion

\* Whether build(map, ., seed) returns; otherwise it throws.
canBuild(map, seed) ==
    onMap(seed) /\ worldToGridCell(seed) \in erodeByDisc(classify(map), ClearanceRadius)

\* Variant of Home: the places the robot cannot get to as well.
HomeAndAway(navigable, seed) == navigable

\* The navigable cells that are connected to the seed's.
Home(navigable, seed) ==
    connectedComponentFrom(navigable, worldToGridCell(seed), Connectivity)

build(map, seed) ==
    LET target    == classify(map)
        navigable == erodeByDisc(target, ClearanceRadius)
        reach     == target \cap dilateByDisc(Home(navigable, seed), ToolRadius)
        islands   == UNION {r \in Components(reach, Connectivity) : TooSmall(r)}
    IN  [intended_target |-> target, navigable_center |-> navigable,
         reachable_cleanable |-> reach \ islands,
         exempt |-> target \ (reach \ islands), island |-> islands]
=============================================================================
