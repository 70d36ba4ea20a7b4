----------------------------- MODULE MCExecutor -----------------------------
EXTENDS ExecutorProperties, TLC

MapSymmetry == Permutations(Maps)

(* State constraints: how many child goals, given up ones included, may be at  *)
(* the Nav2 servers or have a callback on its way at the same time.            *)
OneGoalInFlight == Cardinality(goals) <= 1
TwoGoalsInFlight == Cardinality(goals) <= 2

(* A second task of one process is followed as far as it can meet the goal that *)
(* a task whose stop failed left behind, or the handle of that goal.  What it   *)
(* inherits in any other way is the subject of the theorems.                    *)
MeetsOldGoal == CancelThrows \/ \E g \in goals : g.task < tasks
SecondTaskMeetsFirst ==
    tasks = 2 => /\ MeetsOldGoal
                 /\ restarts = 0 /\ ~mapChanged /\ execAttempt = 0
                 /\ \A p \in PlanIds : disk[p] = {}

(* Tasks of the second life are followed while nobody stops them, and of a row *)
(* one sampled pose is enough here.                                            *)
LivesExplored ==
    /\ IF tasks < 2 THEN OneGoalInFlight ELSE TwoGoalsInFlight
    /\ SecondTaskMeetsFirst
    /\ restarts = 1 => phase # "CANCELLING"
    /\ rowPath.n <= 1
=============================================================================
