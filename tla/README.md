# Verification of ros2_tunnel_explorer

TLA+ models, TLC configurations and TLAPS proofs for the two applications of
this repository, coverage tasks and frontier exploration. Paths below are those
of the repository under `src/`; `node.cpp` is short for
`tunnel_coverage_executor/src/coverage_executor_node.cpp`, `node.hpp` for its
header, `frontier.cpp` for `tunnel_frontier_explorer/src/frontier_explorer_node.cpp`.

## 1. Inventory

The repository holds two applications on one robot: a *coverage* (cleaning)
task that plans rows over a known map and drives them through Nav2, and a
*frontier exploration* of an unknown tunnel.

| component | state it keeps | operations | interacts with |
|---|---|---|---|
| **Coverage executor node** (`node.cpp`) | phase, active task and goal handle, frozen map identity, plan, dispositions, child goal handles, pending outcome, mode, attempts, row start and driven path, stop bookkeeping | map message, goal / cancel / accepted callbacks, 10 Hz tick, 10 Hz pose sampler, goal response and result callbacks of two action clients | clients (action `execute_coverage`), Nav2 (`navigate_to_pose`, `follow_path`), map server, TF, checkpoint files |
| **Child goal tracker** (`child_goal_tracker.hpp`) | generation, sent, handle known, cancel wanted / asked | clear, dispatch, requestCancel, onGoalResponse, onResult, noteCancelSent, watch, abandon | passive, called by the node |
| **Coverage task core** (`coverage_task_core.cpp`) | disposition per segment | nextPendingIndex, mark..., count..., terminalResult, resolveCoverageGate, applyCheckpointDispositions | passive, called by the node |
| **Checkpoint store** (`checkpoint_store.cpp`) | one file per (map, plan) | save (write, rename), loadAndValidate | file system |
| **Stop confirmation** (`stop_confirm.hpp`) | none (the last sample is the node's) | classifyStopSampleTimed | called in CANCELLING |
| **Goal clamp** (`goal_clamp.cpp`) | none (it changes the goals in the plan) | clampGoalEndpoint | called at every dispatch of a segment |
| **Coverage planning** (`tunnel_coverage_planner`) | none | masks, decomposition, scanlines, segment order; a residual planner that only its tests call | called by beginTask |
| **Coverage tracker** (`coverage_tracker.cpp`) | visit counts, path length | addSweptPath, addSweepSegment, metrics, restore | called by the node |
| **Frontier explorer node** (`frontier_explorer_node.cpp`) | exploration state, current goal and handle, blacklist, visit history, empty / suppressed counters, recovery counters, hysteresis | map message, timer, goal response, result | Nav2, map, TF |
| **Frontier detection, scoring, selection, blacklist, visit history, hysteresis** | expiry lists | pure functions and small containers | called by the explorer |
| **Map core** (`tunnel_map_core`) | none | grid geometry, content digest | both nodes |
| **Messages** (`tunnel_coverage_msgs`) | - | ExecuteCoverage action, status | - |
| **Python planners, benchmark tools, scripts, bringup, worlds** | - | offline evaluation, launch | - |

What is hard here:

* **ordering** - one thread per node, so callbacks are atomic, but ticks, map
  messages, client requests, goal responses and results come in any order, and
  a child goal's callbacks may come long after it was given up;
* **timeouts and retries** - a watchdog that cancels, then abandons; one attempt
  counter over three ways to drive a row; a stop that has to be confirmed from
  observations or to time out;
* **several tasks of one process** - what beginTask resets and what it leaves;
* **failure** - servers that are down or silent, missing transforms, exceptions
  that leave a callback, process death with checkpoints on disk.

What makes each part correct:

* executor: one truthful answer per task; every task and every stop ends; an
  outcome is applied once and to the segment it belongs to; a cancel reaches
  the child goal; only what was driven is committed; a resume never loses what
  the file holds;
* tracker: a callback is current exactly for the goal being waited for;
* core: the terminal result follows from the dispositions;
* checkpoint store: after a crash the file of a plan is an old or a new one;
* planning: what is to be cleaned can be got to, the cells of the decomposition
  can be swept and are visited once, rows stay on navigable cells;
* goal clamp: a goal is on a valid cell and stays where it is when sent again;
* stop confirmation: no stop without that many consecutive observations of one;
* coverage tracker: a pass leaves no holes, a success is backed by passes that
  were driven;
* frontier detection: clusters are the connected components of the frontier;
* frontier explorer: a result is applied to the goal it is for, the
  exploration never completes merely because frontiers are suppressed, a
  point in the blacklist is not chosen, no state is kept for ever.

`PROJECT.json` lists the hazards behind these, each at its line.

## 2. Modules

The project has three parts, one per question: what a client of the executor
is owed whatever its callbacks do (*executor*), what the data of its tasks is
worth (*mission*), and whether the exploration makes progress without losing
goals (*frontier*).

| part | module | models |
|---|---|---|
| executor | `ChildGoalTracker` | the tracker: a record, one operator per method; a method that answers and updates is a pair `X` / `AfterX` |
| | `CoverageTaskCore` | dispositions as a function on segments, terminal result, coverage gate, inheritance from a checkpoint |
| | `CoverageExecutor` | the node, composed of the two above, with Nav2, the client, the map and the file system around it |
| | `CoverageService` | abstract specification of what a client is promised |
| | `ExecutorProperties`, `MCExecutor` | what is stated about the executor, with the refinement mapping; constraints and symmetry for TLC |
| | `ExecutorProofs`, `ExecutorChildGoals` | proofs: what holds for every client; what holds for a patient one |
| mission | `GridGeometry` | cells, world points, neighbourhoods, flood fill, components |
| | `CleanableMap` | the masks (`cleanable_map_builder.cpp`) |
| | `BoustrophedonDecomposer` | decomposition into cells, visit order |
| | `ScanlinePlanner` | rows, transitions, the plan of one and of several cells |
| | `CoverageTracker` | discs, passes, visit counts, coverage metric |
| | `GoalClamp` | the goals a segment is sent with |
| | `CheckpointStore` | save as its system calls, load by its answer |
| | `CheckpointRegister` | abstract specification: a register per path, replaced in one step |
| | `CoverageMission` | the tasks of one node over these: plan, drive, commit, save, die, resume |
| | `CoverageProperties`, `MCCoverage` | what is stated about them; maps for TLC |
| | `CheckpointProofs`, `CoverageProofs`, `DecompositionProofs`, `PlanProofs`, `DetectorProofs` | proofs; the last four build on one another in this order |
| frontier | `FrontierDetector` | frontier cells, clusters, representatives (checked with the mission's maps, proved in `DetectorProofs`) |
| | `FrontierGoalSelector` | blacklist, hysteresis, both selections |
| | `FrontierExplorer` | the node with its timer, map, goals and answers, and its properties |
| | `MCFrontier`, `FrontierProofs` | maps for TLC; proofs |

### From the code to CoverageExecutor

* **Variables.** One per member of the node that is read somewhere; the comment
  at each names it. An `optional` is a set of at most one element. Segments are
  counted from 1, and 0 is the code's -1. `exec_index_` is the segment in hand,
  `trk` the tracker, `navGh`/`followGh` the generation of the goal whose handle
  is stored. `goals` is external: the child goals at the Nav2 servers, each with
  its generation, segment, task, destination and state. A goal's response and
  result are on their way in the states `accepted`/`rejected` and `ok`/`bad`;
  any of them may be delayed for ever, and callbacks of different goals may
  overtake each other.
* **Actions.** One per path of a handler. The tick is `Tick(dt)`: without a
  task `TickReadiness`; while executing, the watchdog followed in the same
  action by tickExecution (`TickAbandon` processes the failure it has just
  queued, as the code does); in CANCELLING `TickStopRequest`, `TickStopWait`,
  `TickStopped`. `ProcessOutcome` is the five ways out of processOutcome, and
  takes the tracker and the handles as parameters since abandon changes them
  first. `BeginTask...` are the four ways out of beginTask, `FinishTask` is
  finishTask with what it does not reset left alone.
* **Exceptions.** `canceled()` is a legal transition only for a goal in the
  CANCELING state, and `async_cancel_goal` throws for a handle the client
  library no longer knows. `main.cpp` has no handler, so both end the process:
  `TickResultThrows`, `TickCancelThrows`.
* **Time.** Only the tick reads the clock. Each tick adds `dt` in {0, 1} coarse
  units to the age of the child goal and to the time spent stopping: a unit is
  many ticks long (0.1 s against a grace of 20 s), so no unit passes unseen by a
  tick. A callback that blocks the single thread for a whole grace period would
  break this, and is left out.
* **Data.** A pose is what the code asks of it: `near` the row start, `reached`
  the row end, `still` between two samples, or unknown. Coverage is one
  Boolean, `enough`, at the gate. A map is its content, a plan the pair of the
  map and the robot's cell it was made for (planMultiCell starts from the cell
  of the robot). `rowPath` keeps its length up to 2, which is what the commit
  tests, and which row each pose was taken on.

### From the code to CoverageMission

* **Units.** World points are integers in half cells, so that cell centres are
  odd, borders even, and the tracker's interpolation step (half a cell) is one
  unit. Samples between two points are fractions; distances to them are compared
  after multiplying by the denominator, which is exact.
* **Tasks.** `BeginTask` builds the masks and the plan from the map and the
  robot's cell, and applies a checkpoint. A segment is driven (`SegmentDone`:
  its goals are clamped in the plan itself, its pass is committed unless the end
  pose cannot be read) or given up (`SegmentFailed`) in one step: how its
  callbacks get there is the subject of `CoverageExecutor`. A save is a sequence
  of the store's calls, of which each may fail, with the process dying between
  any two.
* **Names.** `named` lists the pairs of map and plan so far; the index of a pair
  is what the code calls its FNV-1a digests, which are taken not to collide.
* **Ghosts.** `driven` and `swept` record what was really driven and committed,
  across deaths of the process; nothing in the model reads them but properties.

### From the code to FrontierExplorer

* **Actions.** The timer callback is one action per outcome (`Timer...`): no
  map, no transform, completion, a goal sent, a probe, a timeout. `Elapse`
  lets periods pass, up to `MaxLag` at once when another callback held up the
  thread. The response and the result of each goal in flight are callbacks of
  their own; a goal occupies a slot from its dispatch to its rejection or result,
  so that answers of an old goal meet a newer one, as they do in the code.
* **Time.** Every deadline is kept as the periods left until it. One clock stands
  for the ROS clock and the steady clock; cooldowns count down to 0.
* **Candidates.** The explorer takes any cluster that passes its filters where
  the code takes the one its scorer ranks first; "nearest" takes a nearest one.
  `goal` is the point that was chosen (`current_goal_`), which timeouts and results
  blacklist. The pose in the message may be moved towards the robot
  (`projectGoalTowardRobot`, on by default); the node never reads that pose again
  and Nav2 may answer a goal in any way, so the model does not have it.

## 3. Runs

| run | instance | distinct states | what it shows |
|---|---|---|---|
| `MCTask` | a transition and a work row; one task, cancel and map change at any moment, at most two child goals in flight | 1 280 773 | outcomes belong to the segment in hand and count once; a stop reaches the child goal; an answered task leaves none behind; a driven row has a start pose; no goal with a known handle is given up without a cancel |
| `MCLives` | a work row and a transition, two maps, two tasks per life, one crash or restart | 646 586 | types; truthful results, also with goals left over from a failed stop; a resumed task never goes behind its file; every step is one of the service |
| `MCProgress` | one work row, fair timer | 59 638 | bounded dispatches; every task ends, a stopped one too; the whole service, progress included |
| `MCCoverage` | 8 x 8 cells, 191 pairs of map and start; two tasks, one death | 129 354 | masks, decomposition, plans, clamp, passes, clusters; what is COVERED was driven; a success was swept |
| `MCFrontier` | three maps on four columns, two goals in flight, strategy `nearest` | 263 623 | no false completion, a blacklisted point only where it replaced a representative, live handles, no state for ever |

Seven more runs state what the repository says of the code and the code does
not do; section 6 goes through them.

**Bounds, executor.** `MaxAttempts` is 1, the least the code accepts: one
failure that is retried and one that settles the segment, which takes a row
through approach, approach retry, following, and the fallback. Two segments,
one of each type, are enough for an outcome to meet a segment it is not of.
ChildTimeout 0 and CancelGrace 1 give the watchdog all three answers in order;
StopSettle 0 and StopTimeout 1 give a stop too early, one in time and a timeout;
two stop samples a streak that can be broken (one in `MCLives` and
`MCProgress`). A third goal in flight (constraint `TwoGoalsInFlight`) would add
a second stale goal beside the current one; stale goals are ignored one by one
and do not interact. `MCLives` follows the second task of a process only as far
as it meets the goal a failed stop left behind, and a task of the second life
only while nobody stops it (`LivesExplored`); what the constraint leaves out is
covered by the proofs, which hold for any number of tasks and lives. Its maps
are interchangeable and it checks no liveness, so it uses their symmetry.
`MaxTasks` and `MaxRestarts` are guards of the model only.

**Bounds, mission.** The tool radius is 3 half cells, the clearance 2, the rows
4 apart, the endpoint inset 1 and the clamp inset 5, so that rows overlap, short
rows are dropped and the clamp finds room in some maps and none in others. The
maps are a room, the same room with a niche, a U, two floors, and all maps with
one or two taken cells in four relative positions; all are planned on. A task is
driven in the U and in the room, second tasks and restarts in the room
(`Explored`). The mission stops after `MaxTasks` tasks, so deadlock is not
checked here; it is in every other run.

**Bounds, frontier.** Durations are 1 or 2 periods; `MaxSuppressedCycles` is 3,
which stands to the longest entry as the defaults do (180 >= 60 + 120): an
entry lasts up to 2 periods, and 1 more can be added when its goal times out.
Two slots give one stale goal beside the current one. The strategy is the default,
`nearest`; `MCFailedGoal` runs the other one, and the theorems hold for both. The
entrance hysteresis, off by default, plays a part only in the latter.

**Fairness.** `WF_vars(Tick(1))` for the executor: the wall timer of 100 ms
keeps firing, and time passes. Nothing is assumed of Nav2, the client, the
localisation or the delivery of any callback: that is the point of the watchdog
and of the stop timeout, and `TaskEnds` holds without. A spinning
process with a live timer is what `rclcpp::spin` gives (`main.cpp`). For the
explorer, weak fairness of the clock and of the timer, and strong fairness of
its two look-ups, the Nav2 server being found and the robot located: a node that
finds neither for ever rightly does nothing. Nothing is assumed of Nav2's
answers or of new maps.

## 4. Abstract specifications

`CoverageService` has four variables: whether the service is idle, running or
stopping, whether the client asked for a cancel, whether the map moved, and the
last answer. Its steps are what the action file and R21/R23 promise. The
mapping (`Service` in `ExecutorProperties`) reads the first off `task_active_`
and `phase_`, `asked` off the state of the goal handle, `moved` off
`map_changed_`, the answer off the result message. The executor implements it,
progress included (`ServiceImplemented`); the safety part is `ServiceKept`.
`Vanish`, the end of the process without an answer, had to be part of the
service: section 6, `MCMapChange`, is why.

`CheckpointRegister` has a path hold nothing or a whole checkpoint, replaced in
one step. The store's open, write, close and rename implement it, whatever fails
and wherever the process dies, provided that closing the stream loses nothing;
the code looks at the stream before the last flush, so a full disk can leave a
torn file under the final name, which `loadAndValidate` then rejects. The
mission is checked with such torn files (`FlushMayFail`).

## 5. Proofs

Every theorem is for all values of the constants under the named assumptions of
the modules, which TLC evaluates in the runs. Hypotheses beyond these are stated
in the theorem and named here.

**Executor (`ExecutorProofs`), no further hypothesis: any plan, limits, tasks and
restarts.**

* `TypeCorrect` (`TypeOK`). `TypeOK` is not inductive:
  a result or an approach retry in flight needs a segment in hand. `TypeInv`
  adds that before the first segment (`execIndex = 0`) nothing is sent and the
  mode is 0. One lemma per operation of the tracker and the core, one per
  handler, then `TypeStep` goes through `Next`.
* `RepliesAreTruthful` (`ReplyTruthful`). The strengthening
  `FailureNamed` says that `failure_class_` is set as soon as a segment of the
  active task is FAILED; it needs that every markFailed comes with a class and
  that only beginTask and finishTask clear it. That a success leaves nothing
  open needs `NextPendingFinds`: the least pending index is one
  (from the well-foundedness of `<`).
* `OutcomesComeAlone` (`OutcomeOnlyWhenIdle`), inductive as it
  stands: an outcome is never waiting while a goal is.
* `NodeKeepsService` (`ServiceKept`). `LinkInv` ties phase,
  goal handle state, map change and task together: a task is in CANCELLING
  exactly when the client asked or the map moved. Then every action is mapped to
  a service step or a stutter.

**Executor, with a patient client.** The run `MCOldGoal` shows that a task
accepted after a STOP_FAILED answer meets a current goal that is not its own, and
then most of what follows fails. So the theorems of
`ExecutorChildGoals` assume `PatientClient`: no step accepts a task while the last answer is
STOP_FAILED. `OneTaskIsPatient` shows that clients with one task per life meet
it. Nothing bounds the tasks, lives, plans or limits.

* The invariant `NodeInv` is `TypeInv`, `LinkInv` and five parts: `IdleInv`
  (between tasks nothing is waited for), `FlightInv` (the one current goal is the
  one waited for, and the stored handle is its own), `ToldInv` (in a stop or past
  its deadline it was asked to cancel or will be at its response), `HandInv` (it
  and its outcome are of the open segment in hand), `DiskInv` (a
  path holds one checkpoint, and a resumed task keeps what it had COVERED).
* From it: `StopReaches`, `OutcomesAreInHand`, `DrivenRowsHaveStart`,
  `ResumesKeepCoverage`, `OldGoalsAreStale`, and the action properties
  `SegmentsSettleOnce`, `AnswersLeaveNoChild`, `GoalsLeftWereCancelled` (the last
  with `CancelGrace # 0`: with a grace of zero the watchdog may abandon a goal in
  the tick that would cancel it).
* `RetriesAreBounded` (`DispatchesBounded`). `CountInv` is an
  account: a settled segment pays for all goals its attempts may take, the
  segment in hand for those it has taken, and generations never exceed what is
  paid for. It needs that retries stay with the segment in hand, which is the
  least open one. The bound has `MaxAttempts + 1` attempts per segment, which is
  what the code makes and one more than a comment says (section 6).

**Checkpoints.** `CheckpointProofs!SavedIsStored` and `StoreImplementsRegister`,
both with `~FlushMayFail`. `StoreInv` says that a closed temporary file is whole.

**Mission.** In `CoverageProofs`, for every map, grid, plan and number of
tasks and deaths, saves and flushes failing as they like.

* `CoveredStaysTrue` (`CoveredWasDriven`) and `SuccessStaysTrue`
  (`SuccessIsSwept`) from `MissionInv`: whatever holds a checkpoint (the task, a
  running save, a temporary or final file) vouches for it (`Vouches`).
* `FloodFillFindsReachable`: the flood fill computes exactly the reachable cells.
  Its recursion over sets of cells is unfolded by exhibiting the function it
  defines, then by the least size of a set that still grows. `ComponentsAreExact`:
  the components are the sets of mutually reachable cells. From the
  former, `MasksStaySound` (`MasksSound`).
* `ClampedGoalsSettle`: on any region the clamp is onto it, keeps the inset where
  a cell does, and is idempotent then.
* `PassMarksBeside`: between any two points of a map the samples of a pass leave
  no hole. The sample nearest to the foot of the perpendicular from a cell's
  centre is at most half a step away (`SomeSampleIsNear`, from Lagrange's
  identity), and the square that `stampDisc` searches around it holds the cell
  (`SquareHolds`).

**Planning.** For every map, grid, row spacing and connectivity.

* `DecompositionIsSound` and `DecompositionStaysSound` (`DecompositionSound`, in
  `DecompositionProofs`). The sweep is a recursive function over rows whose values
  are records of sequences; that such a function exists is `RecursionExists`, and
  `Climb` carries a fact from row to row. The fact is `SweepInv`: the cells so far
  share out the rows swept, no cell of the decomposition has two runs in a row, the
  runs of the last row know their labels, and neighbours are exactly the pairs of
  which one lies over the other. That a row keeps it is `SweepRowHolds`, from what a
  row adds (`SweepRowAdds`, `RowAdded`).
* `PlansAreTyped` (`PlansAreSegments`), `PlansAreDrivable` (`PlanIsDrivable`),
  `PlansVisitCells` (`PlanVisitsCells`) and `RowsAreOnMap` (in `PlanProofs`). Rows:
  what one line of a region gives (`RowIsGood`) is carried through the order of
  rows and of cells by facts about sequences put one after the other
  (`FlattenJoins`, `FlattenInOrder`). Visits: "nearer" compares fractions and is a
  strict weak order (`LessOrders`, cross products in `CrossProducts`), so that a
  nearest cell exists and the order names each cell once (`VisitOrderIs`).
  `PlanInv` says that a task's plan is the planner's for its masks and start.
* `GoalsSettle` (`ClampSettles`) and `PassesLeaveNoHoles` (`SweepLeavesNoHoles`)
  lift the results on the clamp and on passes to all tasks; the first needs
  `GoalsInv`, that dispatched goals are goals of the plan, clamped or not.
* `PlansAreDrivable` has the hypothesis `InsetIsSmall`: twice the row inset is less
  than the shortest row. The constructor of the planner only demands an inset that
  is not negative (`scanline_planner.cpp:86`); with a larger one the ends of a row
  cross and it is driven backwards or shrinks to a point. `RowsAreOnMap` and
  `PassesLeaveNoHoles` assume besides that the tool is wider than a cell. Both hold
  of the configuration that is shipped, and `MCCoverage` assumes them too.

**Frontier detection** (`DetectorProofs`, any grid, connectivities and limits).
`SearchFindsReachable`: a turn of the search leaves no neighbour of its cell
unfound, what was found stays, and as there are no more turns to take than cells the
queue runs empty. `DetectedAreComponents`: the scan comes to every cell, what is
visited are whole components, so that each is grown once, and the strict comparison
keeps a nearest cell to the centroid. `ClustersStayComponents`
(`ClustersAreComponents`) is the same for the maps that are explored.

**Frontier.** `BaseInv` is types, a known map, a goal while NAVIGATING and a live
handle: `TypeCorrect`, `GoalWhileNavigating`, `HandleAlwaysLive`.
`CompletionNeverFalse` (`NoFalseCompletion`) needs `SuppressionInv`: the
suppressed cycles so far and the entries left never reach the limit, from
`SuppressionAssumption`; with the default limits, completion by suppression is
therefore unreachable. `GoalSeldomBlacklisted` (`GoalNotBlacklisted`) is for both
strategies. Only a dispatch can make the node head for a blacklisted point, as
whatever makes an entry ends the navigation; what is chosen was looked up, except
where `nearest` replaced the representative of a cluster.

**Only model-checked.** No safety property of a run that passes: each is stated by a
theorem, those of the executor that need it for a patient client. Liveness (`TaskEnds`, `ServiceImplemented`,
`NavigationEnds`, `IdleEnds`, `EmptyMapCompletes`): out of the prover's reach, as it takes
ENABLED and fairness. The seven runs of section 6 show counterexamples and need no
proof.

## 6. Where the code and its words differ

| run | statement | what happens |
|---|---|---|
| `MCOldGoal` | `child_goal_tracker.hpp:92` "The generation is kept monotonic so stale callbacks from a previous task stay stale." | clear() does not advance the generation. A goal that outlives a STOP_FAILED task stays current for the next task until that dispatches |
| `MCSingleChild` | `node.hpp:99` "single active child invariant" | a goal abandoned before its response arrived is accepted later; the stale response is ignored and the goal never cancelled |
| `MCApproach` | `node.hpp:168` "repositioning to a work-line start (approach)" | the retry of an approach is sent to the end of the row |
| `MCOwnRow` | `node.hpp:194` "actual driven poses sampled during a work row; committed as a polyline sweep on row completion" | poses of a row that failed are committed with the next one |
| `MCMapChange` | `node.cpp:226` "Content change during a task: safe stop (R23 -> MAP_CHANGED)" | canceled() on a goal nobody cancelled throws, and the process ends |
| `MCFailedGoal` | `frontier.cpp:845` "Blacklist the failed goal (frontier goals only)." | the abort of a goal that had timed out blacklists the goal sent after it (checked under `information_gain_revisit`; the branch is the same under `nearest`) |
| `MCRowsReach` | `scanline_planner.hpp:98` "Boustrophedon (scanline) coverage planner over the reachable-cleanable mask" | when the reachable region is a single cell of the decomposition, rows are planned on all navigable cells, on the far side of a wall too (5 x 13 cells, two rooms) |

The first has consequences: with a second task after a STOP_FAILED,
`OutcomeIsOfSegmentInHand`, `SegmentSettlesOnce`, `LeftGoalsWereCancelled`,
`AnsweredTaskLeavesNoChild`, `DrivenRowHasStart`, `StopReachesChild` and
`DispatchesBounded` can fail. That is why they are checked with one task and
proved for a patient client.

Smaller ones, seen while modelling:

* `goal_clamp.hpp:43` says that goals on a valid cell are returned unchanged; the
  code pulls those near the edge of the mask's box into the inset window, and the
  test `ValidButNearEdgeEndpointPulledToInset` wants it so. The model follows the
  code.
* `scanline_planner.cpp:391` calls the entry cell's fallback "nearest"; it is
  cell 0.
* `coverage_task_core.hpp:62` says of `max_attempts_per_segment`: "Attempts granted
  to one segment before it is marked FAILED." The node counts in `exec_attempt_`,
  from 0, and retries while that is less (`node.cpp:604`, `669`), so a segment gets
  one attempt more, three with the default of 2. The core's own counter, which
  would stop at two, is called by its tests only. `DispatchesBounded` has the
  bound the code keeps (`AttemptsPerSegment`).
* `frontier.cpp:713` says of a goal that timed out "Blacklist before cancelling to
  prevent re-selection", and `docs/stage1c_smoke_integration.md:215` "select nearest
  non-blacklisted". Under `nearest` the point can be chosen again at once: when the
  robot is too close to the representative of a cluster, `select` replaces it by
  another cell, the entry is made of that cell, and the next cycle looks up the
  representative, which the entry need not reach. With `BlacklistRadius2` and
  `SuccessRadius2` 0 in `MCFrontier.cfg`, TLC dispatches to a point with an
  unexpired "failed" entry. `GoalNotBlacklisted` excepts just this case.
* `residual_planner.hpp:33` says "executor appends these after the main plan"; no
  code but its tests calls `planResidual`.

## 7. Not modelled

* Executor: `cancel_requested_`, `sampling_enabled_`, `last_tool_pose_` (never
  read), the core's attempt counters, `markExempt` and `markBlockedTemp` (never
  called by the node; SUCCEEDED_WITH_EXEMPTIONS needs a checkpoint that holds
  EXEMPT); the phases PLANNING, RESIDUAL_CHECK and TERMINAL, entered and left
  within one callback, and RECOVERY and REPLANNING, never entered; the guards of
  processOutcome and sendNextSegment against a missing plan or an index out of
  range (the task is active, and no outcome has such an index); feedback and
  status messages; child goals of a process that died (they may run on at Nav2,
  but no callback of theirs runs in the new process); the counts in the result of
  a PLANNING_FAILED. A refused or lost cancel is the goal's going on to any end.
* Stop confirmation: the arithmetic of `classifyStopSampleTimed` (poses and
  stamps in floating point); its three answers are modelled.
* Mission: how a segment is driven. A pass goes from its start to its end, straight
  or round one pose, whereas the code's goes from where the robot is (mode 4) to
  within a tolerance of the end, and may have poses of a row that failed before it
  (`MCOwnRow`); yaw, plan and map digests (names do not collide), path length and
  total swept area, the tracker's completion test and the residual planner (called by
  their tests only), grid rotation, the rows of the checkpoint's text format.
* Frontier: the scorer's ranking, the visit history that feeds its penalty,
  `projectGoalTowardRobot` (the pose in the message, section 2), markers, recovery metrics, the state STALLED (never
  entered), unknown result codes.
* The Python planners, benchmark tools, scripts, launch files and worlds.

## 8. What is left

The liveness properties stay with TLC. What could be added to the model: the
visit history and the scorer's ranking, the projection of a goal towards the robot,
and the comparison of poses in the stop confirmation, all of which are
floating-point arithmetic.
