--------------------------- MODULE CoverageMission --------------------------
(***************************************************************************)
(* The data of coverage tasks, from the map to the checkpoint: the parts   *)
(* of coverage_executor_node.cpp that build masks and plans, drive rows,   *)
(* count visits, decide on success and save and resume.  The callbacks and *)
(* child goals between them are the subject of CoverageExecutor; here a    *)
(* segment is driven or fails in one step.                                 *)
(***************************************************************************)
EXTENDS CoverageTracker, GoalClamp, CheckpointStore

CONSTANTS
    Surveys,          \* the maps a process can be started on
    NextSurveys,      \* and the maps it can find when it is started again
    Starts,           \* the cells the robot can be in when a task begins
    MinCoverage,      \* min_effective_coverage, in percent
    MaxTasks, MaxDeaths     \* bounds

ASSUME MissionAssumption ==
    /\ Starts \subseteq Cells /\ NextSurveys \subseteq Surveys
    /\ MinCoverage \in 1 .. 100
    /\ MaxTasks \in Nat /\ MaxDeaths \in Nat
    /\ Paths = 1 .. MaxTasks

VARIABLES
    latest_map_,    \* the one map of the process
    phase,          \* "IDLE", "EXECUTING_SEGMENT" or "TERMINAL"
    start_,         \* the cell the robot was in when the task began
    masks_,         \* masks_
    plan_,          \* the segments of plan_, with the goals they have by now
    plan_id_,       \* of the checkpoint file: its name is made of the two identities
    named,          \* the identities <<map, plan>> so far; their indices stand for names
    disp,           \* the dispositions in core_
    counts_,        \* the visit counts of tracker_
    result,         \* terminal_result_ of the last task, and "NONE" during a task
    driven,         \* ghost: the <<path, segment>> that were driven to their end
    swept,          \* ghost: the <<map, cell>> that some committed pass went over
    tasks, deaths

taskVars == <<start_, masks_, plan_, plan_id_, disp, counts_>>
missionVars == <<latest_map_, phase, start_, masks_, plan_, plan_id_, named, disp, counts_,
                 result, driven, swept, tasks, deaths, storeVars>>

CoreOf(p) == INSTANCE CoverageTaskCore WITH NumSegs <- Len(p)

NoMasks == [intended_target |-> {}, navigable_center |-> {}, reachable_cleanable |-> {},
            exempt |-> {}, island |-> {}]

NoTask ==
    /\ start_ = <<0, 0>> /\ masks_ = NoMasks /\ plan_ = << >> /\ plan_id_ = 0
    /\ disp = << >> /\ counts_ = NoCounts

MissionInit ==
    /\ latest_map_ \in Surveys
    /\ phase = "IDLE" /\ result = "NONE" /\ named = << >> /\ driven = {} /\ swept = {}
    /\ NoTask /\ StoreInit /\ tasks = 0 /\ deaths = 0

-----------------------------------------------------------------------------
(* beginTask *)

\* FNV-1a names are taken to be different for different identities.
NameOf(id) ==
    IF \E n \in DOMAIN named : named[n] = id
    THEN CHOOSE n \in DOMAIN named : named[n] = id
    ELSE Len(named) + 1

Refuse(why) ==
    /\ result' = why
    /\ UNCHANGED <<latest_map_, phase, taskVars, named, driven, swept, deaths, storeVars>>

\* The task starts with the dispositions d and the visit counts c.
StartTask(s, b, p, d, c) ==
    /\ phase' = "EXECUTING_SEGMENT" /\ result' = "NONE"
    /\ start_' = s /\ masks_' = b /\ plan_' = p
    /\ plan_id_' = NameOf(<<latest_map_, p>>)
    /\ named' = IF plan_id_' \in DOMAIN named THEN named
                ELSE Append(named, <<latest_map_, p>>)
    /\ disp' = d /\ counts_' = c
    /\ UNCHANGED <<latest_map_, driven, swept, deaths, storeVars>>

\* A plan was made; it starts afresh unless the file is a whole checkpoint of it.
StartPlan(s, b, p, resume) ==
    LET status == loadAndValidate(resume, NameOf(<<latest_map_, p>>))
        fresh  == CoreOf(p)!FreshCore
    IN  CASE p = << >> -> Refuse("EMPTY_PLAN")
          [] p # << >> /\ status = "MISMATCH" -> Refuse("CHECKPOINT_MISMATCH")
          [] p # << >> /\ status = "OK" ->
               StartTask(s, b, p, CoreOf(p)!ApplyCheckpointDispositions(fresh, resume.disp),
                         resume.counts)
          [] OTHER -> StartTask(s, b, p, fresh, NoCounts)

\* What build and planMultiCell make of a map and a start, where build does not throw.
Brief(m, s, b) == [map |-> m, start |-> s, masks |-> b, plan |-> planMultiCell(b, s)]
Planned ==
    {Brief(t[1], t[2], build(t[1], gridToWorld(t[2]))) :
        t \in {u \in Surveys \X Starts : canBuild(u[1], gridToWorld(u[2]))}}

\* resume is the content of the file the client names, NoFile without one.
BeginTask(s, resume) ==
    /\ phase = "IDLE" /\ tasks < MaxTasks /\ tasks' = tasks + 1
    /\ IF ~canBuild(latest_map_, gridToWorld(s)) THEN Refuse("PLANNING_FAILED")
       ELSE \E briefing \in {b \in Planned : b.map = latest_map_ /\ b.start = s} :
               StartPlan(s, briefing.masks, briefing.plan, resume)

-----------------------------------------------------------------------------
(* sendNextSegment and processOutcome *)

Executing == phase = "EXECUTING_SEGMENT" /\ stage = "idle"

\* The segment in hand, 0 for none.
InHand == CoreOf(plan_)!NextPendingIndex(disp)

\* Its goals are clamped in the plan itself, at every dispatch.
Dispatch(i, seg) ==
    /\ Executing /\ i # 0
    /\ plan_' = [plan_ EXCEPT ![i] = seg]
    /\ UNCHANGED <<latest_map_, phase, start_, masks_, plan_id_, named, result, tasks,
                   deaths, storeVars>>
Clamped(i) == IF i = 0 THEN << >> ELSE clampSegmentGoals(masks_.navigable_center, plan_[i])

\* The pass of a row that was driven from its start to its end: the sampled poses of
\* a robot that had to leave the line, or the two ends when less than two were sampled.
Round(seg) == Shift(<<(seg.start[1] + seg.end[1]) \div 2,
                      (seg.start[2] + seg.end[2]) \div 2>>, <<1, 1>>)
Passes(seg) ==
    {PathPass(<<seg.start, Round(seg), seg.end>>), SegmentPass(seg.start, seg.end)}

\* The segment is driven.  The pass of a row is committed, unless the end pose cannot
\* be read; a transition sweeps nothing.
SegmentDone(i, seg) ==
    /\ Dispatch(i, seg)
    /\ \E marked \in IF seg.type = "WORK" THEN Passes(seg) \cup {{}} ELSE {{}} :
           /\ counts_' = commitPass(counts_, marked)
           /\ swept' = swept \cup {<<latest_map_, c>> : c \in marked}
    /\ disp' = CoreOf(plan_)!MarkCovered(disp, i)
    /\ driven' = driven \cup {<<plan_id_, i>>}

\* It fails: it stays PENDING and is sent again, or it is given up.  How many attempts
\* it has is CoverageExecutor's subject.
SegmentFails(i, seg) ==
    /\ Dispatch(i, seg)
    /\ disp' \in {disp, CoreOf(plan_)!MarkFailed(disp, i)}
    /\ UNCHANGED <<counts_, driven, swept>>

sendNextSegment ==
    LET i == InHand  seg == Clamped(i)
    IN  SegmentDone(i, seg) \/ SegmentFails(i, seg)

\* effective_coverage reaches the bar.
Enough ==
    100 * Cardinality(Visited(counts_, Effective(masks_)))
        >= MinCoverage * Cardinality(Effective(masks_))

checkpoint == [id |-> plan_id_, disp |-> disp, counts |-> counts_]

\* saveCheckpoint: a save that throws is logged.
Save == Open(plan_id_, checkpoint) \/ OpenFails(plan_id_, checkpoint)

\* Nothing is left to be driven.
Finish ==
    /\ Executing /\ InHand = 0
    /\ result' = CoreOf(plan_)!ResolveCoverageGate(CoreOf(plan_)!TerminalResult(disp), Enough)
    /\ phase' = "TERMINAL"
    /\ Save
    /\ UNCHANGED <<latest_map_, taskVars, named, driven, swept, tasks, deaths>>

\* The client or a new map stops the task.
Stop ==
    /\ Executing
    /\ result' = "CANCELLED" /\ phase' = "TERMINAL"
    /\ Save
    /\ UNCHANGED <<latest_map_, taskVars, named, driven, swept, tasks, deaths>>

Saving ==
    /\ phase = "TERMINAL" /\ SaveStep
    /\ UNCHANGED <<latest_map_, phase, taskVars, named, result, driven, swept, tasks, deaths>>

\* What the task had is not read any more.
DropTask ==
    /\ phase' = "IDLE"
    /\ start_' = <<0, 0>> /\ masks_' = NoMasks /\ plan_' = << >> /\ plan_id_' = 0
    /\ disp' = << >> /\ counts_' = NoCounts

\* The result is sent; the node is ready for another task.
FinishTask ==
    /\ phase = "TERMINAL" /\ SaveEnds /\ DropTask
    /\ UNCHANGED <<latest_map_, named, result, driven, swept, tasks, deaths>>

\* The process dies at any moment and is started again, perhaps on another map.
Death ==
    /\ phase # "IDLE" /\ deaths < MaxDeaths /\ deaths' = deaths + 1
    /\ SaveDies
    /\ latest_map_' \in {latest_map_} \cup NextSurveys
    /\ DropTask /\ result' = "NONE"
    /\ UNCHANGED <<named, driven, swept, tasks>>

MissionNext ==
    \/ \E s \in Starts, p \in Paths : BeginTask(s, file[p])
    \/ sendNextSegment
    \/ Finish \/ Stop \/ Saving \/ FinishTask
    \/ Death

MissionSpec == MissionInit /\ [][MissionNext]_missionVars
=============================================================================
