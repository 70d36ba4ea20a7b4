-------------------------- MODULE CoverageExecutor --------------------------
(***************************************************************************)
(* The coverage executor node (coverage_executor_node.cpp): readiness      *)
(* gates, the ExecuteCoverage action server, the per-segment execution     *)
(* state machine, its child goals at the two Nav2 action servers, the      *)
(* watchdog, cancelling with stop confirmation, and checkpoints.           *)
(*                                                                         *)
(* The node spins in a single-threaded executor, so every callback is one  *)
(* atomic step; what interleaves is the order of timer ticks, map          *)
(* messages, client requests and Nav2 callbacks.  Time is seen only by the *)
(* tick: the age of a child goal and the time spent stopping advance by    *)
(* dt \in {0, 1} coarse units when a tick reads the clock, so that every   *)
(* unit is seen by some tick (a tick lasts 0.1 s, a unit many seconds).    *)
(*                                                                         *)
(* An optional value of the code is a set with at most one element.        *)
(***************************************************************************)
EXTENDS ChildGoalTracker, CoverageTaskCore

CONSTANTS
    WorkSegs,        \* the WORK segments; the others are TRANSITION segments
    MaxAttempts,     \* max_attempts_per_segment
    StopSamples,     \* stop_confirm_samples
    ChildTimeout,    \* child_goal_timeout_s, in coarse time units
    CancelGrace,     \* cancel_grace_s
    StopSettle,      \* the 0.5 s before a stop can be confirmed
    StopTimeout,     \* stop_confirm_timeout_s
    Maps,            \* contents (digests) a map message can have
    Seeds,           \* robot cells that lead to different plans of one map
    MaxTasks,        \* bound: tasks accepted by one process
    MaxRestarts      \* bound: restarts of the process

ASSUME ExecutorAssumption ==
    /\ WorkSegs \subseteq Segs
    /\ MaxAttempts \in Nat \ {0}         \* CoverageTaskCore refuses less
    /\ StopSamples \in Nat
    /\ ChildTimeout \in Nat /\ CancelGrace \in Nat
    /\ StopSettle \in Nat /\ StopTimeout \in Nat
    /\ MaxTasks \in Nat /\ MaxRestarts \in Nat

VARIABLES
    proc,          \* the process: "up", "killed" or "threw" (uncaught exception)
    phase,         \* phase_
    active,        \* task_active_; core_, plan_ and tracker_ exist iff it holds
    goalSt,        \* state of current_goal_ in the action server library
    reply,         \* optional: the last result sent to the client
    mapChanged,    \* map_changed_
    frozen,        \* optional: frozen_map_digest_ (latest_map_ has this content)
    plan,          \* optional: <<task_input_id_, plan_id_>> of the current plan
    disp,          \* dispositions of core_
    failure,       \* failure_class_
    resumed,       \* the task took over the checkpoint of its plan
    trk,           \* child_tracker_
    navGh,         \* generation of the goal whose handle nav_gh_ holds, or 0
    followGh,      \* the same for follow_gh_
    pending,       \* optional: pending_outcome_
    mode,          \* child_mode_
    age,           \* now() - child_send_time_
    execIndex,     \* exec_index_
    execAttempt,   \* exec_attempt_
    workNav,       \* work_nav_mode_
    rowStart,      \* work_row_start_pose_ holds a pose
    rowPath,       \* work_row_path_: its size up to 2 and the rows its poses are from
    cancelStarted, \* cancel_started_
    elapsed,       \* now() - cancel_start_time_
    quiet,         \* stop_samples_quiet_
    lastSample,    \* last_cancel_pose_ holds a sample
    tasks,         \* tasks accepted by this process
    disk,          \* per plan, optional: dispositions in its checkpoint file
    goals,         \* external: child goals sent to the Nav2 servers and not over
    restarts       \* restarts so far

taskVars   == <<active, goalSt, reply, tasks>>
planVars   == <<plan, disp, failure, resumed>>
mapVars    == <<frozen, mapChanged>>
childVars  == <<trk, navGh, followGh, goals>>
segVars    == <<execIndex, execAttempt, workNav>>
rowVars    == <<rowStart, rowPath>>
stopVars   == <<cancelStarted, elapsed, quiet, lastSample>>
worldVars  == <<proc, restarts>>

vars == <<proc, phase, active, goalSt, reply, mapChanged, frozen, plan, disp,
          failure, resumed, trk, navGh, followGh, pending, mode, age, execIndex,
          execAttempt, workNav, rowStart, rowPath, cancelStarted, elapsed,
          quiet, lastSample, tasks, disk, goals, restarts>>

PlanIds == Maps \X Seeds

Phases == {"BOOTSTRAP", "WAIT_MAP", "WAIT_LOCALIZATION", "WAIT_NAV2", "READY_IDLE",
           "TRANSITING", "EXECUTING_SEGMENT", "CANCELLING"}

FailureClasses == {"", "LOCALIZATION_FAILED", "EMPTY_PLAN", "PLANNING_FAILED",
                   "CHECKPOINT_MISMATCH", "WORK_APPROACH_FAILED",
                   "WORK_TRACKING_FAILED", "TRANSITION_FAILED",
                   "COVERAGE_BELOW_THRESHOLD", "MAP_CHANGED",
                   "STOP_CONFIRMATION_TIMEOUT"}

Outcomes == [idx : Segs, ok : BOOLEAN]

\* A child goal at a Nav2 server: sent, then accepted or rejected (the response
\* is on its way), running once the client has the response, ok or bad when it
\* has ended and the result is on its way.  cancel: async_cancel was issued for
\* it.
GoalStates == {"sent", "accepted", "rejected", "running", "ok", "bad"}

ChildGoals == [gen : Nat, task : Nat, idx : Segs, kind : {"nav", "follow"},
               to : {"start", "end"}, st : GoalStates, cancel : BOOLEAN]

Replies == [code : TerminalResults, class : FailureClasses,
            failed : Nat, left : Nat]

EmptyPath == [n |-> 0, from |-> {}]

Capped(n, bound) == IF n > bound THEN bound ELSE n

FirstFailure(class) == IF failure = "" THEN class ELSE failure

-----------------------------------------------------------------------------
(* The process *)

\* The process has just been constructed; nothing is stored or at the servers.
Init ==
    /\ phase = "BOOTSTRAP" /\ active = FALSE /\ goalSt = "none" /\ reply = {}
    /\ mapChanged = FALSE /\ frozen = {} /\ plan = {} /\ disp = FreshCore
    /\ failure = "" /\ resumed = FALSE /\ trk = NewTracker /\ navGh = 0
    /\ followGh = 0 /\ pending = {} /\ mode = 0 /\ age = 0 /\ execIndex = 0
    /\ execAttempt = 0 /\ workNav = FALSE /\ rowStart = FALSE
    /\ rowPath = EmptyPath /\ cancelStarted = FALSE /\ elapsed = 0
    /\ quiet = 0 /\ lastSample = FALSE /\ tasks = 0
    /\ proc = "up" /\ restarts = 0
    /\ disk = [p \in PlanIds |-> {}]
    /\ goals = {}

\* The process ends for the given reason and its memory is lost.  The launch
\* file does not respawn it: it is down until Restart.  Its child goals may run
\* on at Nav2, but no callback of theirs runs any more: they are forgotten.
Dies(reason) ==
    /\ phase' = "BOOTSTRAP" /\ active' = FALSE /\ goalSt' = "none" /\ reply' = {}
    /\ mapChanged' = FALSE /\ frozen' = {} /\ plan' = {} /\ disp' = FreshCore
    /\ failure' = "" /\ resumed' = FALSE /\ trk' = NewTracker /\ navGh' = 0
    /\ followGh' = 0 /\ pending' = {} /\ mode' = 0 /\ age' = 0 /\ execIndex' = 0
    /\ execAttempt' = 0 /\ workNav' = FALSE /\ rowStart' = FALSE
    /\ rowPath' = EmptyPath /\ cancelStarted' = FALSE /\ elapsed' = 0
    /\ quiet' = 0 /\ lastSample' = FALSE /\ tasks' = 0
    /\ proc' = reason
    /\ goals' = {}

Crash ==
    /\ proc = "up" /\ restarts < MaxRestarts
    /\ Dies("killed")
    /\ UNCHANGED <<disk, restarts>>

Restart ==
    /\ proc # "up" /\ restarts < MaxRestarts
    /\ proc' = "up"
    /\ restarts' = restarts + 1
    /\ UNCHANGED <<phase, taskVars, planVars, mapVars, childVars, pending, mode, age,
                   segVars, rowVars, stopVars, disk>>

-----------------------------------------------------------------------------
(* Readiness and the map *)

\* tickReadiness: no task; each gate is passed when its condition is met.
TickReadiness ==
    /\ proc = "up" /\ ~active
    /\ \/ phase = "BOOTSTRAP" /\ phase' = "WAIT_MAP"
       \/ phase = "WAIT_LOCALIZATION" /\ phase' = "WAIT_NAV2"    \* fresh pose
       \/ phase = "WAIT_NAV2" /\ phase' = "READY_IDLE"           \* both servers up
    /\ UNCHANGED <<worldVars, taskVars, planVars, mapVars, childVars, pending, mode,
                   age, segVars, rowVars, stopVars, disk>>

\* A valid map with content m; an identical re-publish changes nothing.
MapCallback(m) ==
    /\ proc = "up" /\ m \notin frozen
    /\ \/ /\ frozen = {}                      \* the first map freezes the identity
          /\ frozen' = {m}
          /\ phase' = "WAIT_LOCALIZATION"
          /\ UNCHANGED mapChanged
       \/ /\ frozen # {} /\ ~active           \* refreeze while idle
          /\ frozen' = {m}
          /\ UNCHANGED <<phase, mapChanged>>
       \/ /\ frozen # {} /\ active            \* safe stop
          /\ mapChanged' = TRUE
          /\ phase' = "CANCELLING"
          /\ UNCHANGED frozen
    /\ UNCHANGED <<worldVars, taskVars, planVars, childVars, pending, mode, age,
                   segVars, rowVars, stopVars, disk>>

-----------------------------------------------------------------------------
(* Tasks: the ExecuteCoverage action server *)

\* finishTask: the reply, then the task state is dropped.  The child tracker, the
\* handles, child_mode_, exec_* and work_row_path_ are left as they are.
FinishTask(code, class, failed, left) ==
    /\ reply' = {[code |-> code, class |-> class, failed |-> failed, left |-> left]}
    /\ active' = FALSE /\ goalSt' = "none"
    /\ phase' = "READY_IDLE"
    /\ plan' = {} /\ disp' = FreshCore /\ resumed' = FALSE /\ failure' = class
    /\ cancelStarted' = FALSE /\ lastSample' = FALSE
    /\ rowStart' = FALSE

\* saveCheckpoint for the running task; an I/O error is logged and ignored.
SaveCheckpoint ==
    \/ \E p \in plan : disk' = [disk EXCEPT ![p] = {disp}]
    \/ UNCHANGED disk

\* What the client asks for: a fresh task, a resume from a file that is missing
\* or corrupt, or a resume from the checkpoint written for some plan.
ResumeRequests == {"fresh", "unusable"} \cup {p \in PlanIds : disk[p] # {}}

\* What every accepted goal resets first.
BeginTaskResets ==
    /\ tasks' = tasks + 1
    /\ mapChanged' = FALSE
    /\ trk' = Clear(trk)
    /\ pending' = {}
    /\ UNCHANGED <<worldVars, frozen, navGh, followGh, goals, mode, age, segVars,
                   rowPath, elapsed, quiet, disk>>

CanBegin == proc = "up" /\ ~active /\ phase = "READY_IDLE" /\ tasks < MaxTasks

\* No pose, an empty plan, or an exception while planning.
BeginTaskFails(class) ==
    /\ CanBegin
    /\ BeginTaskResets
    /\ FinishTask("PARTIAL_FAILED", class, 0, 0)

\* The checkpoint asked for belongs to another plan.
BeginTaskMismatch(resume, seed) ==
    /\ CanBegin
    /\ resume \in PlanIds
    /\ \A m \in frozen : resume # <<m, seed>>
    /\ BeginTaskResets
    /\ FinishTask("PARTIAL_FAILED", "CHECKPOINT_MISMATCH", 0, NumSegs)

\* The plan of the frozen map for the robot's cell, with the dispositions of
\* its checkpoint when that is what the client asked for and it can be read.
BeginTaskStarts(resume, seed) ==
    /\ CanBegin
    /\ \E m \in frozen :
          /\ resume \in PlanIds => resume = <<m, seed>>
          /\ plan' = {<<m, seed>>}
    /\ resumed' = (resume \in PlanIds)
    /\ disp' = IF resume \in PlanIds
               THEN ApplyCheckpointDispositions(FreshCore, CHOOSE d \in disk[resume] : TRUE)
               ELSE FreshCore
    /\ BeginTaskResets
    /\ active' = TRUE /\ goalSt' = "executing" /\ reply' = {}
    /\ failure' = ""
    /\ phase' = "EXECUTING_SEGMENT"
    /\ rowStart' = FALSE
    /\ cancelStarted' = FALSE
    /\ UNCHANGED lastSample

\* The cancel callback; the library calls it for a goal that is executing.
ClientCancel ==
    /\ proc = "up" /\ active /\ goalSt = "executing"
    /\ goalSt' = "canceling"
    /\ phase' = "CANCELLING"
    /\ UNCHANGED <<worldVars, active, reply, tasks, planVars, mapVars, childVars,
                   pending, mode, age, segVars, rowVars, stopVars, disk>>

-----------------------------------------------------------------------------
(* Child goals: sending, and the callbacks of the two action clients *)

\* sendNavigate / sendFollow for the segment idx, when the tracker is t and the
\* handles are nav and fol: the server is not ready and the outcome is a
\* failure at once, or a goal of the next generation is sent.
Send(kind, to, idx, t, nav, fol) ==
    \/ /\ pending' = {[idx |-> idx, ok |-> FALSE]}
       /\ trk' = t /\ navGh' = nav /\ followGh' = fol
       /\ UNCHANGED <<goals, age>>
    \/ /\ pending' = {}
       /\ trk' = Dispatch(t)
       /\ goals' = goals \cup
             {[gen |-> t.gen + 1, task |-> tasks, idx |-> idx, kind |-> kind,
               to |-> to, st |-> "sent", cancel |-> FALSE]}
       /\ navGh' = IF kind = "nav" THEN 0 ELSE nav
       /\ followGh' = IF kind = "follow" THEN 0 ELSE fol
       /\ age' = 0

SendsNothing(t, nav, fol) ==
    /\ pending' = {}
    /\ trk' = t /\ navGh' = nav /\ followGh' = fol
    /\ UNCHANGED <<goals, age>>

StoreHandle(g) ==
    /\ navGh' = IF g.kind = "nav" THEN g.gen ELSE navGh
    /\ followGh' = IF g.kind = "follow" THEN g.gen ELSE followGh

DropHandle(g) ==
    /\ navGh' = IF g.kind = "nav" THEN 0 ELSE navGh
    /\ followGh' = IF g.kind = "follow" THEN 0 ELSE followGh

Replaced(g, h) == (goals \ {g}) \cup {h}

\* goal_response_callback of goal g.
GoalResponseCallback(g) ==
    /\ proc = "up" /\ g.st \in {"accepted", "rejected"}
    /\ LET accepted == g.st = "accepted"
           answer   == OnGoalResponse(trk, g.gen, accepted)
           after    == AfterGoalResponse(trk, g.gen, accepted)
           known    == [g EXCEPT !.st = "running"]
       IN  \/ /\ answer = "stale"
              /\ goals' = IF accepted THEN Replaced(g, known) ELSE goals \ {g}
              /\ UNCHANGED <<trk, navGh, followGh, pending>>
           \/ /\ answer = "rejected_current"
              /\ goals' = goals \ {g}
              /\ trk' = after
              /\ DropHandle(g)
              /\ pending' = IF phase # "CANCELLING" THEN {[idx |-> g.idx, ok |-> FALSE]}
                            ELSE pending
           \/ /\ answer = "store_and_cancel"        \* the handle is not stored
              /\ goals' = Replaced(g, [known EXCEPT !.cancel = TRUE])
              /\ trk' = NoteCancelSent(after)
              /\ UNCHANGED <<navGh, followGh, pending>>
           \/ /\ answer = "store_only"
              /\ goals' = Replaced(g, known)
              /\ trk' = after
              /\ StoreHandle(g)
              /\ UNCHANGED pending
    /\ UNCHANGED <<worldVars, phase, taskVars, planVars, mapVars, mode, age, segVars,
                   rowVars, stopVars, disk>>

\* result_callback of goal g.
GoalResultCallback(g) ==
    /\ proc = "up" /\ g.st \in {"ok", "bad"}
    /\ goals' = goals \ {g}
    /\ trk' = AfterResult(trk, g.gen)
    /\ LET answer == OnResult(trk, g.gen, phase = "CANCELLING")
       IN  \/ answer = "stale_ignored" /\ UNCHANGED <<navGh, followGh, pending>>
           \/ answer = "cleared_cancelling" /\ DropHandle(g) /\ UNCHANGED pending
           \/ /\ answer = "ready" /\ DropHandle(g)
              /\ pending' = {[idx |-> g.idx, ok |-> (g.st = "ok")]}
    /\ UNCHANGED <<worldVars, phase, taskVars, planVars, mapVars, mode, age, segVars,
                   rowVars, stopVars, disk>>

\* async_cancel_goal on the stored handles: the client library throws for a
\* handle whose result it has already delivered.
Dangling(gen) == gen # 0 /\ \A g \in goals : g.gen # gen

CancelThrows == Dangling(navGh) \/ Dangling(followGh)

CancelAsked(gens) ==
    {IF g.gen \in gens THEN [g EXCEPT !.cancel = TRUE] ELSE g : g \in goals}

KnownHandles == {navGh, followGh} \ {0}

-----------------------------------------------------------------------------
(* External: the Nav2 action servers *)

\* The server answers a goal request: late, or never, for all the client knows.
ServerAnswers(g, st) ==
    /\ g.st = "sent"
    /\ goals' = Replaced(g, [g EXCEPT !.st = st])

\* A goal ends: reached, aborted, cancelled on request, or preempted.
ServerEnds(g, st) ==
    /\ g.st = "running"
    /\ goals' = Replaced(g, [g EXCEPT !.st = st])

Nav2(g) ==
    /\ \/ \E st \in {"accepted", "rejected"} : ServerAnswers(g, st)
       \/ \E st \in {"ok", "bad"} : ServerEnds(g, st)
    /\ UNCHANGED <<worldVars, phase, taskVars, planVars, mapVars, trk, navGh, followGh,
                   pending, mode, age, segVars, rowVars, stopVars, disk>>

-----------------------------------------------------------------------------
(* Executing a task: the tick outside CANCELLING *)

\* Variant of RowStarts: the start pose is forgotten.
RowStartsNowhere == UNCHANGED rowStart

RowStarts == rowStart' = TRUE

\* sendNextSegment with nothing left: the coverage gate, then the result.
\* enough: the effective coverage of the tracker's grid reaches the bar.
FinishPlan(enough) ==
    /\ NextPendingIndex(disp) = 0
    /\ SaveCheckpoint
    /\ FinishTask(ResolveCoverageGate(TerminalResult(disp), enough),
                  IF enough THEN failure ELSE FirstFailure("COVERAGE_BELOW_THRESHOLD"),
                  Count(disp, "FAILED"), Count(disp, "PENDING"))
    /\ UNCHANGED <<mapVars, tasks, childVars, pending, mode, age, segVars, rowPath,
                   elapsed, quiet>>

\* sendNextSegment for segment idx.  near: the pose is known and close to the
\* start of the row.
StartSegment(idx, near) ==
    LET new == idx # execIndex
        nav == workNav /\ ~new
        Sends(m, kind, to) == mode' = m /\ Send(kind, to, idx, trk, navGh, followGh)
    IN  /\ idx = NextPendingIndex(disp) /\ idx # 0
        /\ execIndex' = idx
        /\ execAttempt' = IF new THEN 0 ELSE execAttempt
        /\ workNav' = nav
        /\ phase' = IF idx \in WorkSegs THEN "EXECUTING_SEGMENT" ELSE "TRANSITING"
        /\ \/ /\ idx \notin WorkSegs
              /\ Sends(2, "nav", "end")
              /\ UNCHANGED rowVars
           \/ /\ idx \in WorkSegs /\ nav             \* drive the row with NavigateToPose
              /\ Sends(4, "nav", "end")
              /\ RowStarts
              /\ UNCHANGED rowPath
           \/ /\ idx \in WorkSegs /\ ~nav /\ ~near    \* approach the row start
              /\ Sends(1, "nav", "start")
              /\ UNCHANGED rowVars
           \/ /\ idx \in WorkSegs /\ ~nav /\ near     \* follow the row
              /\ Sends(3, "follow", "end")
              /\ RowStarts
              /\ rowPath' = [n |-> 1, from |-> {<<tasks, idx>>}]
        /\ UNCHANGED <<taskVars, planVars, mapVars, stopVars, disk>>

\* Variants of AttemptsLeft with an off-by-one, and with the bound left out.
AttemptsLeftOffByOne == execAttempt <= MaxAttempts
AttemptsLeftAlways == execAttempt <= execAttempt

AttemptsLeft == execAttempt < MaxAttempts

\* processOutcome for outcome o, when the tracker is t and the handles are nav
\* and fol.  reached: the pose is known and within the endpoint tolerance.
ApproachSucceeded(o, t, nav, fol) ==
    /\ mode = 1 /\ o.ok
    /\ mode' = 3
    /\ RowStarts
    /\ Send("follow", "end", execIndex, t, nav, fol)
    /\ UNCHANGED <<disp, failure, execAttempt, workNav, rowPath>>

\* The retry is sent with the segment itself, whose goal pose is the row end.
ApproachRetried(o, t, nav, fol) ==
    /\ mode = 1 /\ ~o.ok /\ AttemptsLeft
    /\ execAttempt' = execAttempt + 1
    /\ mode' = 1
    /\ Send("nav", "end", execIndex, t, nav, fol)
    /\ UNCHANGED <<disp, failure, workNav, rowVars>>

ApproachExhausted(o, t, nav, fol) ==
    /\ mode = 1 /\ ~o.ok /\ ~AttemptsLeft
    /\ mode' = 0
    /\ disp' = MarkFailed(disp, o.idx)
    /\ failure' = FirstFailure("WORK_APPROACH_FAILED")
    /\ SendsNothing(t, nav, fol)
    /\ UNCHANGED <<execAttempt, workNav, rowVars>>

DriveOk(o, reached) == o.ok /\ (mode \in {3, 4} => reached)

\* The poses of work_row_path_ are committed to the coverage grid as one pass.
DriveSucceeded(o, reached, t, nav, fol) ==
    /\ mode # 1 /\ DriveOk(o, reached)
    /\ mode' = 0
    /\ disp' = MarkCovered(disp, o.idx)
    /\ rowStart' = FALSE /\ rowPath' = EmptyPath
    /\ SendsNothing(t, nav, fol)
    /\ UNCHANGED <<failure, execAttempt, workNav>>

DriveFailed(o, reached, t, nav, fol) ==
    /\ mode # 1 /\ ~DriveOk(o, reached)
    /\ mode' = 0
    /\ rowStart' = FALSE
    /\ workNav' = (workNav \/ mode = 3)
    /\ \/ /\ AttemptsLeft           \* stays PENDING: sent again
          /\ execAttempt' = execAttempt + 1
          /\ UNCHANGED <<disp, failure>>
       \/ /\ ~AttemptsLeft
          /\ disp' = MarkFailed(disp, o.idx)
          /\ failure' = FirstFailure(IF mode \in {3, 4} THEN "WORK_TRACKING_FAILED"
                                     ELSE "TRANSITION_FAILED")
          /\ UNCHANGED execAttempt
    /\ SendsNothing(t, nav, fol)
    /\ UNCHANGED rowPath

ProcessOutcome(o, reached, t, nav, fol) ==
    /\ \/ ApproachSucceeded(o, t, nav, fol)
       \/ ApproachRetried(o, t, nav, fol)
       \/ ApproachExhausted(o, t, nav, fol)
       \/ DriveSucceeded(o, reached, t, nav, fol)
       \/ DriveFailed(o, reached, t, nav, fol)
    /\ UNCHANGED <<phase, taskVars, plan, resumed, mapVars, execIndex, stopVars, disk>>

\* The age of the child goal that a tick dt later reads from the clock.
AgeAt(dt) == IF trk.sent THEN Capped(age + dt, ChildTimeout + CancelGrace + 1) ELSE age

Watched(dt) == Watch(trk, AgeAt(dt), ChildTimeout, CancelGrace)

Executing == proc = "up" /\ active /\ phase \in {"TRANSITING", "EXECUTING_SEGMENT"}

\* The watchdog gives the goal up: its failure is processed in the same tick.
TickAbandon(dt) ==
    /\ Executing /\ Watched(dt) = "abandon"
    /\ ProcessOutcome([idx |-> execIndex, ok |-> FALSE], FALSE, Abandon(trk), 0, 0)
    /\ UNCHANGED worldVars

\* The watchdog asks for a cancel, on the known handle or when it arrives.
TickCancelChild(dt) ==
    /\ Executing /\ Watched(dt) = "cancel" /\ ~CancelThrows
    /\ IF KnownHandles # {}
       THEN /\ goals' = CancelAsked(KnownHandles)
            /\ trk' = NoteCancelSent(trk)
       ELSE /\ trk' = RequestCancel(trk)
            /\ UNCHANGED goals
    /\ age' = AgeAt(dt)
    /\ UNCHANGED <<worldVars, phase, taskVars, planVars, mapVars, navGh, followGh,
                   pending, mode, segVars, rowVars, stopVars, disk>>

\* The tick of a child goal that is still within its time.
TickWait(dt) ==
    /\ Executing /\ Watched(dt) = "none" /\ trk.sent
    /\ age' = AgeAt(dt)
    /\ UNCHANGED <<worldVars, phase, taskVars, planVars, mapVars, childVars, pending,
                   mode, segVars, rowVars, stopVars, disk>>

\* tickExecution: consume the outcome, else send the next segment.
TickOutcome(o, reached) ==
    /\ Executing /\ ~trk.sent
    /\ ProcessOutcome(o, reached, trk, navGh, followGh)
    /\ UNCHANGED worldVars

TickNextSegment ==
    /\ Executing /\ ~trk.sent /\ pending = {}
    /\ \/ \E enough \in BOOLEAN : FinishPlan(enough)
       \/ \E idx \in Segs, near \in BOOLEAN : StartSegment(idx, near)
    /\ UNCHANGED worldVars

\* tfSamplerCallback with a fresh pose, while a row is being driven.
TfSampler ==
    /\ proc = "up" /\ mode \in {3, 4} /\ rowStart
    /\ rowPath' = [n |-> Capped(rowPath.n + 1, 2),
                   from |-> rowPath.from \cup {<<tasks, execIndex>>}]
    /\ UNCHANGED <<worldVars, phase, taskVars, planVars, mapVars, childVars, pending,
                   mode, age, segVars, rowStart, stopVars, disk>>

-----------------------------------------------------------------------------
(* Cancelling: the tick in CANCELLING *)

Cancelling == proc = "up" /\ active /\ phase = "CANCELLING"

\* The first tick asks for the stop, once.
TickStopRequest ==
    /\ Cancelling /\ ~cancelStarted /\ ~CancelThrows
    /\ cancelStarted' = TRUE
    /\ elapsed' = 0
    /\ goals' = CancelAsked(KnownHandles)
    /\ trk' = IF KnownHandles = {} THEN RequestCancel(trk)
              ELSE NoteCancelSent(RequestCancel(trk))
    /\ UNCHANGED <<worldVars, phase, taskVars, planVars, mapVars, navGh, followGh,
                   pending, mode, age, segVars, rowVars, quiet, lastSample, disk>>

\* A pose sample: none could be read, or it does not show the robot still (it
\* moved, or there is no usable earlier sample), or it shows it still.
QuietAfter(s) == IF s = "still" THEN Capped(quiet + 1, StopSamples) ELSE 0

Samples == {"none", "not_still"} \cup (IF lastSample THEN {"still"} ELSE {})

ElapsedAt(dt) == Capped(elapsed + dt, StopTimeout + 1)

\* Variants: a stop is confirmed by the robot's stillness alone; a stop whose
\* confirmation never times out; a result that does not look at the map change.
StopConfirmedByStillness(dt, s) ==
    ElapsedAt(dt) > StopSettle /\ QuietAfter(s) >= StopSamples
StopNeverTimesOut(dt) == elapsed > ElapsedAt(dt)
StopResultForgetsMap(dt, s) ==
    IF trk.sent \/ QuietAfter(s) < StopSamples \/ ElapsedAt(dt) <= StopSettle
    THEN "STOP_FAILED" ELSE "CANCELLED"

StopConfirmed(dt, s) ==
    ~trk.sent /\ ElapsedAt(dt) > StopSettle /\ QuietAfter(s) >= StopSamples

StopTimedOut(dt) == ElapsedAt(dt) > StopTimeout

StopResult(dt, s) ==
    IF ~StopConfirmed(dt, s) THEN "STOP_FAILED"
    ELSE IF mapChanged THEN "MAP_CHANGED" ELSE "CANCELLED"

StopClass(dt, s) ==
    IF ~StopConfirmed(dt, s) THEN "STOP_CONFIRMATION_TIMEOUT"
    ELSE IF mapChanged THEN "MAP_CHANGED" ELSE failure

TickStopWait(dt, s) ==
    /\ Cancelling /\ cancelStarted
    /\ s \in Samples
    /\ lastSample' = (s # "none") /\ quiet' = QuietAfter(s)
    /\ ~StopConfirmed(dt, s) /\ ~StopTimedOut(dt)
    /\ elapsed' = ElapsedAt(dt)
    /\ UNCHANGED <<worldVars, phase, taskVars, planVars, mapVars, childVars, pending,
                   mode, age, segVars, rowVars, cancelStarted, disk>>

\* finishTask ends the goal with canceled(), which the library allows only for
\* a goal in the canceling state.
TickStopped(dt, s) ==
    /\ Cancelling /\ cancelStarted /\ goalSt = "canceling"
    /\ s \in Samples
    /\ quiet' = QuietAfter(s)
    /\ StopConfirmed(dt, s) \/ StopTimedOut(dt)
    /\ SaveCheckpoint
    /\ FinishTask(StopResult(dt, s), StopClass(dt, s), Count(disp, "FAILED"), Count(disp, "PENDING"))
    /\ elapsed' = ElapsedAt(dt)
    /\ UNCHANGED <<worldVars, tasks, mapVars, childVars, pending, mode, age, segVars,
                   rowPath>>

-----------------------------------------------------------------------------
(* Uncaught exceptions end the process *)

\* async_cancel_goal on a dangling handle, from the watchdog or the stop request.
TickCancelThrows(dt) ==
    /\ \/ Executing /\ Watched(dt) = "cancel"
       \/ Cancelling /\ ~cancelStarted
    /\ CancelThrows
    /\ Dies("threw")
    /\ UNCHANGED <<disk, restarts>>

\* canceled() on a goal that nobody cancelled, after the checkpoint was saved.
TickResultThrows(dt, s) ==
    /\ Cancelling /\ cancelStarted /\ goalSt = "executing"
    /\ s \in Samples
    /\ StopConfirmed(dt, s) \/ StopTimedOut(dt)
    /\ SaveCheckpoint
    /\ Dies("threw")
    /\ UNCHANGED restarts

-----------------------------------------------------------------------------
(* The specification *)

\* One run of the 10 Hz tick, dt after the previous reading of the clock.
Tick(dt) ==
    \/ TickReadiness
    \/ TickAbandon(dt)
    \/ TickCancelChild(dt)
    \/ TickWait(dt)
    \/ \E o \in pending, reached \in BOOLEAN : TickOutcome(o, reached)
    \/ TickNextSegment
    \/ TickStopRequest
    \/ \E s \in Samples : TickStopWait(dt, s) \/ TickStopped(dt, s) \/ TickResultThrows(dt, s)
    \/ TickCancelThrows(dt)

\* Nothing to do: a tick without a task that waits for a map or a client, or a
\* process that stays down.
Idle ==
    /\ \/ proc = "up" /\ ~active /\ phase \in {"WAIT_MAP", "READY_IDLE"}
       \/ proc # "up"
    /\ UNCHANGED vars

Client ==
    \/ ClientCancel
    \/ \E class \in {"LOCALIZATION_FAILED", "EMPTY_PLAN", "PLANNING_FAILED"} :
          BeginTaskFails(class)
    \/ \E resume \in ResumeRequests, seed \in Seeds :
          BeginTaskStarts(resume, seed) \/ BeginTaskMismatch(resume, seed)

Callbacks(g) == GoalResponseCallback(g) \/ GoalResultCallback(g)

Next ==
    \/ \E dt \in {0, 1} : Tick(dt)
    \/ Idle
    \/ TfSampler
    \/ \E m \in Maps : MapCallback(m)
    \/ Client
    \/ \E g \in goals : Callbacks(g) \/ Nav2(g)
    \/ Crash
    \/ Restart

Spec == Init /\ [][Next]_vars

\* The timer keeps firing and time passes.  Nothing is assumed of Nav2, of the
\* client, of localisation or of the delivery of callbacks.
Fairness == WF_vars(Tick(1))

FairSpec == Spec /\ Fairness
=============================================================================
