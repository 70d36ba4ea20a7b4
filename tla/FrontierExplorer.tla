-------------------------- MODULE FrontierExplorer --------------------------
(***************************************************************************)
(* The frontier exploration node (frontier_explorer_node.cpp): a timer     *)
(* callback that walks the exploration states and sends NavigateToPose     *)
(* goals, the map subscription, and the callbacks of the goals in flight.  *)
(* One thread runs them all, so each is one action.                        *)
(*                                                                         *)
(* Time is counted in exploration periods, and every deadline is kept as   *)
(* the time left until it.  One clock stands for the ROS clock and for the *)
(* steady clock.  A goal in flight occupies a slot until its rejection or  *)
(* its result arrives.                                                     *)
(***************************************************************************)
EXTENDS FrontierGoalSelector, FiniteSets

CONSTANTS
    Points, NoGoal,         \* goal points, and the absence of one
    Maps, NoMap,            \* maps, and the absence of one
    Detected,               \* the clusters of each map (FrontierDetector)
    Free,                   \* the points of each map whose occupancy is 0
    Robots,                 \* where the robot may be found
    Headings,               \* offsets tried by a probe, in order, per heading
    BinOf,                  \* the loop detection bin of each point
    Strategy,               \* "information_gain_revisit" or "nearest"
    Slots, NoHandle,        \* goals in flight, and the absence of a handle
    MaxLag,                 \* periods that pass when a callback delays the timer
    Cooldown, GoalTimeout, BlacklistTimeout, SuccessCooldown,
    ProbeCooldown, HysteresisCooldown,      \* durations, in periods
    MaxEmptyCycles, MaxSuppressedCycles,    \* k_max_*_cycles_
    LoopWindow, LoopBins, LoopSuccesses, MaxAttempts

ASSUME PointsAssumption ==
    /\ NoGoal \notin Points /\ NoMap \notin Maps /\ NoHandle \notin Slots
    /\ \A m \in Maps : /\ Free[m] \subseteq Points
                       /\ \A c \in Detected[m] : /\ c.rep \in Points
                                                 /\ c.cells \in Seq(Points)
    /\ IsFiniteSet(Slots) /\ Cardinality(Slots) > 1

\* Any other strategy is refused by the constructor.
ASSUME StrategyAssumption == Strategy \in {"information_gain_revisit", "nearest"}

ASSUME NumbersAssumption ==
    /\ {MaxLag, GoalTimeout, MaxEmptyCycles, MaxSuppressedCycles,
        LoopWindow, MaxAttempts} \subseteq Nat \ {0}
    /\ {Cooldown, BlacklistTimeout, SuccessCooldown, ProbeCooldown,
        HysteresisCooldown, LoopBins, LoopSuccesses} \subseteq Nat

Larger(a, b) == IF a > b THEN a ELSE b
LongestEntry == Larger(BlacklistTimeout, SuccessCooldown)
\* How long an entry can still last when its goal, or a later one, times out.
LeftAtTimeout == Larger(BlacklistTimeout, SuccessCooldown - GoalTimeout)

\* The suppressed cycles outlast every entry: with the defaults, 180 >= 60 + 120.
ASSUME SuppressionAssumption ==
    /\ BlacklistTimeout > 0
    /\ MaxSuppressedCycles >= LeftAtTimeout + LongestEntry

VARIABLES
    state,          \* state_
    map,            \* latest_map_
    goal,           \* current_goal_
    isRecovery,     \* current_goal_is_recovery_
    handle,         \* current_goal_handle_: the slot whose goal it names
    emptyCount, suppressedCount,    \* frontier_empty_count_, all_suppressed_count_
    attempts,       \* recovery_attempt_count_
    window,         \* recent_goal_bins_
    blacklist,      \* time left of each entry
    hysteresis,     \* last_hysteresis_goal_, NoGoal once its cooldown is over
    left,           \* time left of the goal timeout and of the cooldowns
    due,            \* the timer has fired and its callback has not run
    inFlight        \* the goals Nav2 has or is being sent

counters == <<emptyCount, suppressedCount, attempts>>
memory == <<window, blacklist, hysteresis>>
vars == <<state, map, goal, isRecovery, handle, counters, memory, left, due, inFlight>>

States == {"WAITING_FOR_MAP", "WAITING_FOR_NAV2", "IDLE", "NAVIGATING", "COOLDOWN",
           "COMPLETED"}

Entries == {"failed", "reached"} \X Points
Timers == {"navigating", "cooldown", "probe", "hysteresis"}

\* st: sent (no response yet), running, or free when the slot holds no goal; at:
\* the frontier point it was sent for, NoGoal for a probe; cancel: a cancel was sent.
FreeSlot == [st |-> "free", at |-> NoGoal, cancel |-> FALSE]

Init ==
    /\ state = "WAITING_FOR_MAP" /\ map = NoMap
    /\ goal = NoGoal /\ isRecovery = FALSE /\ handle = NoHandle
    /\ emptyCount = 0 /\ suppressedCount = 0 /\ attempts = 0
    /\ window = << >>
    /\ blacklist = [e \in Entries |-> 0]
    /\ hysteresis = NoGoal
    /\ left = [t \in Timers |-> 0]
    /\ due = FALSE
    /\ inFlight = [s \in Slots |-> FreeSlot]

\* The counters are only compared with a limit, and are kept up to it.
UpTo(limit, n) == IF n > limit THEN limit ELSE n
Minus(n, d) == IF n > d THEN n - d ELSE 0

--------------------------------------------------------------------------
(* Time and the map *)

Elapse(d) ==
    /\ ~due /\ due' = TRUE
    /\ blacklist' = [e \in Entries |-> Minus(blacklist[e], d)]
    /\ left' = [t \in Timers |-> Minus(left[t], d)]
    /\ hysteresis' = IF left["hysteresis"] > d THEN hysteresis ELSE NoGoal
    /\ UNCHANGED <<state, map, goal, isRecovery, handle, counters, window, inFlight>>

\* Variant of mapCallback: every map starts the count of empty cycles again.
mapCallbackRestarts(m) ==
    /\ map' = m /\ emptyCount' = 0
    /\ state' = CASE state = "WAITING_FOR_MAP" -> "WAITING_FOR_NAV2"
                  [] state = "COMPLETED" -> "IDLE"
                  [] OTHER -> state
    /\ UNCHANGED <<goal, isRecovery, handle, suppressedCount, attempts, memory, left,
                   due, inFlight>>

mapCallback(m) ==
    /\ map' = m
    /\ state' = CASE state = "WAITING_FOR_MAP" -> "WAITING_FOR_NAV2"
                  [] state = "COMPLETED" -> "IDLE"
                  [] OTHER -> state
    /\ emptyCount' = IF state = "COMPLETED" THEN 0 ELSE emptyCount
    /\ UNCHANGED <<goal, isRecovery, handle, suppressedCount, attempts, memory, left,
                   due, inFlight>>

--------------------------------------------------------------------------
(* The timer callback: one action per outcome, each of which uses up due *)

Tick(s) == state = s /\ due /\ due' = FALSE

\* transitionTo stamps the start of a cooldown, and only when the state changes.
EnterCooldown ==
    /\ state' = "COOLDOWN"
    /\ left' = IF state = "COOLDOWN" THEN left
               ELSE [left EXCEPT !["cooldown"] = Cooldown]

Nav2Found ==
    /\ Tick("WAITING_FOR_NAV2") /\ state' = "IDLE"
    /\ UNCHANGED <<map, goal, isRecovery, handle, counters, memory, left, inFlight>>

\* The timer finds nothing to do: no map, no Nav2, no pose of the robot, a goal or
\* a cooldown that has time left, or a finished exploration.
NothingToDo ==
    /\ \/ \E s \in {"WAITING_FOR_MAP", "WAITING_FOR_NAV2", "IDLE", "COMPLETED"} : Tick(s)
       \/ Tick("NAVIGATING") /\ ~(goal # NoGoal /\ left["navigating"] = 0)
       \/ Tick("COOLDOWN") /\ left["cooldown"] > 0
    /\ UNCHANGED <<state, map, goal, isRecovery, handle, counters, memory, left, inFlight>>

CooldownOver ==
    /\ Tick("COOLDOWN") /\ left["cooldown"] = 0 /\ state' = "IDLE"
    /\ UNCHANGED <<map, goal, isRecovery, handle, counters, memory, left, inFlight>>

\* Variant of Valid: the clusters are not looked up in the blacklist.
ValidUnfiltered == Detected[map]

\* The clusters whose representative is not blacklisted.
Valid == {c \in Detected[map] : ~contains(blacklist, c.rep)}

\* The counter of the cycles in a row that were alike in what they lacked.
CycleWithoutGoal ==
    IF Detected[map] # {}
    THEN /\ suppressedCount' = UpTo(MaxSuppressedCycles, suppressedCount + 1)
         /\ emptyCount' = 0
    ELSE suppressedCount' = 0 /\ emptyCount' = UpTo(MaxEmptyCycles, emptyCount + 1)

NothingValid ==
    /\ Tick("IDLE") /\ Valid = {}
    /\ CycleWithoutGoal
    /\ state' = IF \/ Detected[map] # {} /\ suppressedCount' >= MaxSuppressedCycles
                   \/ Detected[map] = {} /\ emptyCount' >= MaxEmptyCycles
                THEN "COMPLETED" ELSE "IDLE"
    /\ UNCHANGED <<map, goal, isRecovery, handle, attempts, memory, left, inFlight>>

\* Variant of ResetCycles: the run of suppressed cycles goes on over a dispatch.
ResetEmptyOnly == emptyCount' = 0 /\ UNCHANGED suppressedCount

ResetCycles == emptyCount' = 0 /\ suppressedCount' = 0

detectLocalLoop ==
    /\ Len(window) >= LoopWindow
    /\ Cardinality({window[i].bin : i \in DOMAIN window}) <= LoopBins
    /\ Cardinality({i \in DOMAIN window : window[i].succeeded}) >= LoopSuccesses

\* At most one point: the first of the heading's offsets that is known to be free.
generateRecoveryProbe(robot, offsets) ==
    LET At(i) == <<robot[1] + offsets[i][1], robot[2] + offsets[i][2]>>
    IN  {At(i) : i \in {i \in DOMAIN offsets :
                           /\ At(i) \in Free[map]
                           /\ \A j \in 1 .. i - 1 : At(j) \notin Free[map]}}

\* A slot for the next goal.  When none is free a goal other than the handle's
\* gives its slot up: its response and result are then lost.
SlotFor(s) ==
    \/ inFlight[s].st = "free"
    \/ s # handle /\ \A t \in Slots : inFlight[t].st # "free"

Send(s, at) ==
    /\ SlotFor(s)
    /\ inFlight' = [inFlight EXCEPT ![s] = [st |-> "sent", at |-> at, cancel |-> FALSE]]
    /\ state' = "NAVIGATING"

Probe(robot, offsets, s) ==
    /\ Tick("IDLE") /\ Valid # {} /\ detectLocalLoop /\ left["probe"] = 0
    /\ \E p \in generateRecoveryProbe(robot, offsets) : goal' = p
    /\ ResetCycles
    /\ attempts' = UpTo(MaxAttempts, attempts + 1)
    /\ isRecovery' = TRUE
    /\ left' = [left EXCEPT !["navigating"] = GoalTimeout, !["probe"] = ProbeCooldown]
    /\ Send(s, NoGoal)
    /\ UNCHANGED <<map, handle, memory>>

\* Variant of NoProbe: a cycle that finds no probe is not an attempt.
NoProbeUncounted(robot, offsets) ==
    /\ Tick("IDLE") /\ Valid # {} /\ detectLocalLoop /\ left["probe"] = 0
    /\ generateRecoveryProbe(robot, offsets) = {}
    /\ ResetCycles
    /\ left' = [left EXCEPT !["probe"] = ProbeCooldown]
    /\ UNCHANGED <<state, map, goal, isRecovery, handle, attempts, memory, inFlight>>

NoProbe(robot, offsets) ==
    /\ Tick("IDLE") /\ Valid # {} /\ detectLocalLoop /\ left["probe"] = 0
    /\ generateRecoveryProbe(robot, offsets) = {}
    /\ ResetCycles
    /\ attempts' = UpTo(MaxAttempts, attempts + 1)
    /\ left' = [left EXCEPT !["probe"] = ProbeCooldown]
    /\ state' = IF attempts' >= MaxAttempts THEN "COMPLETED" ELSE "IDLE"
    /\ UNCHANGED <<map, goal, isRecovery, handle, memory, inFlight>>

ProbeCoolingDown ==
    /\ Tick("IDLE") /\ Valid # {} /\ detectLocalLoop /\ left["probe"] > 0
    /\ ResetCycles
    /\ UNCHANGED <<state, map, goal, isRecovery, handle, attempts, memory, left, inFlight>>

\* The points the strategy may settle on.  Which of them the scorer ranks first is
\* left open.  goal is the point settled on; the pose in the message, which
\* projectGoalTowardRobot may move towards the robot, is not read again.
Choosable(robot) ==
    IF Strategy = "information_gain_revisit"
    THEN {p \in selectAll(Valid, robot) :
            /\ ~contains(blacklist, p)
            /\ ~entranceHysteresisRejects(hysteresis, left["hysteresis"], p)}
    ELSE select(Valid, robot)

resetRecoveryState == attempts' = 0 /\ isRecovery' = FALSE

NoCandidate(robot) ==
    /\ Tick("IDLE") /\ Valid # {} /\ ~detectLocalLoop
    /\ Choosable(robot) = {}
    /\ ResetCycles /\ resetRecoveryState
    /\ UNCHANGED <<state, map, goal, handle, memory, left, inFlight>>

Dispatch(robot, s) ==
    /\ Tick("IDLE") /\ Valid # {} /\ ~detectLocalLoop
    /\ ResetCycles /\ resetRecoveryState
    /\ goal' \in Choosable(robot)
    /\ hysteresis' = IF HysteresisCooldown > 0 THEN goal' ELSE NoGoal
    /\ left' = [left EXCEPT !["navigating"] = GoalTimeout,
                            !["hysteresis"] = HysteresisCooldown]
    /\ Send(s, goal')
    /\ UNCHANGED <<map, handle, window, blacklist>>

\* Variant of recordGoalBin: the window is not cut.
recordGoalBinUncut(succeeded) ==
    window' = Append(window, [bin |-> BinOf[goal], succeeded |-> succeeded])

recordGoalBin(succeeded) ==
    LET w == Append(window, [bin |-> BinOf[goal], succeeded |-> succeeded])
    IN  window' = IF Len(w) > LoopWindow THEN Tail(w) ELSE w

\* Probes are in free space and are not blacklisted.
blacklistGoal(kind, timeout) ==
    blacklist' = IF isRecovery THEN blacklist ELSE add(blacklist, kind, goal, timeout)

\* Variant of TimedOut: only a goal that was accepted times out.
TimedOutAccepted ==
    /\ Tick("NAVIGATING") /\ goal # NoGoal /\ left["navigating"] = 0
    /\ handle # NoHandle /\ inFlight' = [inFlight EXCEPT ![handle].cancel = TRUE]
    /\ recordGoalBin(FALSE)
    /\ blacklistGoal("failed", BlacklistTimeout)
    /\ EnterCooldown
    /\ UNCHANGED <<map, goal, isRecovery, handle, counters, hysteresis>>

TimedOut ==
    /\ Tick("NAVIGATING") /\ goal # NoGoal /\ left["navigating"] = 0
    /\ recordGoalBin(FALSE)
    /\ blacklistGoal("failed", BlacklistTimeout)
    /\ inFlight' = IF handle = NoHandle THEN inFlight
                   ELSE [inFlight EXCEPT ![handle].cancel = TRUE]
    /\ EnterCooldown
    /\ UNCHANGED <<map, goal, isRecovery, handle, counters, hysteresis>>

--------------------------------------------------------------------------
(* The callbacks of a goal; none of them looks at which goal it is for *)

\* Variant of goalRejected: the state stays.
goalRejectedInPlace(s) ==
    /\ inFlight[s].st = "sent" /\ inFlight' = [inFlight EXCEPT ![s] = FreeSlot]
    /\ goal' = NoGoal
    /\ UNCHANGED <<state, map, isRecovery, handle, counters, memory, left, due>>

goalRejected(s) ==
    /\ inFlight[s].st = "sent" /\ inFlight' = [inFlight EXCEPT ![s] = FreeSlot]
    /\ goal' = NoGoal
    /\ state' = "IDLE"
    /\ UNCHANGED <<map, isRecovery, handle, counters, memory, left, due>>

goalAccepted(s) ==
    /\ inFlight[s].st = "sent" /\ inFlight' = [inFlight EXCEPT ![s].st = "running"]
    /\ handle' = s
    /\ UNCHANGED <<state, map, goal, isRecovery, counters, memory, left, due>>

\* Variant of ForgetGoal: the handle of the finished goal stays.
ForgetGoalOnly == goal' = NoGoal /\ isRecovery' = FALSE /\ UNCHANGED handle

ForgetGoal == goal' = NoGoal /\ isRecovery' = FALSE /\ handle' = NoHandle

ResultArrives(s) ==
    /\ inFlight[s].st = "running" /\ inFlight' = [inFlight EXCEPT ![s] = FreeSlot]
    /\ ForgetGoal
    /\ EnterCooldown
    /\ UNCHANGED <<map, counters, hysteresis, due>>

Succeeded(s) ==
    /\ ResultArrives(s)
    /\ IF goal = NoGoal THEN UNCHANGED <<window, blacklist>>
       ELSE recordGoalBin(TRUE) /\ blacklistGoal("reached", SuccessCooldown)

\* Also what Nav2 answers for a goal that a newer one replaces.
Aborted(s) ==
    /\ ResultArrives(s)
    /\ IF goal = NoGoal THEN UNCHANGED <<window, blacklist>>
       ELSE recordGoalBin(FALSE) /\ blacklistGoal("failed", BlacklistTimeout)

Canceled(s) ==
    /\ inFlight[s].cancel
    /\ ResultArrives(s)
    /\ UNCHANGED <<window, blacklist>>

--------------------------------------------------------------------------

Selecting(robot) ==
    \/ NoCandidate(robot)
    \/ \E s \in Slots : Dispatch(robot, s)
    \/ \E h \in Headings : NoProbe(robot, h) \/ \E s \in Slots : Probe(robot, h, s)

\* The timer callback of a cycle in which the pose of the robot is known.
Located == NothingValid \/ ProbeCoolingDown \/ \E r \in Robots : Selecting(r)

Timer == Nav2Found \/ NothingToDo \/ CooldownOver \/ TimedOut \/ Located

Response == \E s \in Slots : goalRejected(s) \/ goalAccepted(s)
Result == \E s \in Slots : Succeeded(s) \/ Aborted(s) \/ Canceled(s)

Next ==
    \/ \E d \in 1 .. MaxLag : Elapse(d)
    \/ \E m \in Maps : mapCallback(m)
    \/ Timer
    \/ Response
    \/ Result

\* The timer fires and its callback runs for ever; the Nav2 server is there, and
\* the pose of the robot known, again and again.  Nothing is assumed of Nav2's
\* answers, nor of the maps.
Fairness ==
    /\ WF_vars(\E d \in 1 .. MaxLag : Elapse(d))
    /\ WF_vars(Timer)
    /\ SF_vars(Nav2Found)
    /\ SF_vars(Located)

Spec == Init /\ [][Next]_vars /\ Fairness

--------------------------------------------------------------------------
(* Properties *)

\* The variables have their types.
TypeOK ==
    /\ state \in States /\ map \in Maps \cup {NoMap}
    /\ goal \in Points \cup {NoGoal} /\ isRecovery \in BOOLEAN
    /\ handle \in Slots \cup {NoHandle}
    /\ emptyCount \in 0 .. MaxEmptyCycles /\ suppressedCount \in 0 .. MaxSuppressedCycles
    /\ attempts \in 0 .. MaxAttempts
    /\ window \in Seq([bin : {BinOf[p] : p \in Points}, succeeded : BOOLEAN])
    /\ Len(window) <= LoopWindow
    /\ blacklist \in [Entries -> 0 .. LongestEntry]
    /\ hysteresis \in Points \cup {NoGoal}
    /\ left \in [Timers -> Nat] /\ due \in BOOLEAN
    /\ inFlight \in [Slots -> [st : {"free", "sent", "running"},
                               at : Points \cup {NoGoal}, cancel : BOOLEAN]]

\* While the node is NAVIGATING it knows its goal, without which the timeout would
\* never be looked at: no late answer of an earlier goal clears the goal and leaves
\* the state (timer callback, case NAVIGATING).
NavigatingHasGoal == state = "NAVIGATING" => goal # NoGoal

\* The handle that a timeout would cancel names a goal Nav2 still executes:
\* async_cancel_goal throws on any other, which would end the node.
HandleIsLive == handle # NoHandle => inFlight[handle].st = "running"

\* The node is on its way to a frontier point that is blacklisted.
HeadsForBlocked == state = "NAVIGATING" /\ ~isRecovery /\ contains(blacklist, goal)

\* The node comes to head for a frontier point inside the region of an unexpired
\* entry only under `nearest`, and only when that point replaced the representative
\* of a cluster the robot is too close to: the filter on clusters has looked up the
\* representative, and information_gain_revisit alone looks up the point again.  An
\* entry made while the node is on its way, by the late result of an earlier goal
\* too, ends the navigation.  The point is current_goal_, which entries are made
\* of; Nav2 may be given a pose nearer to the robot, which is not looked up.
GoalNotBlacklisted ==
    [][~HeadsForBlocked /\ HeadsForBlocked'
          => /\ Strategy = "nearest"
             /\ \E c \in Detected[map], r \in Robots :
                   /\ ~FarEnough(c.rep, r) /\ ~contains(blacklist, c.rep)
                   /\ goal' \in Alternatives(c, r)]_vars

\* The exploration is declared complete only when the map has no frontier, or when
\* the probes of a local loop are used up: it is never declared complete because the
\* frontiers that are left are in a cooldown, which would be "a false positive"
\* (the comment of k_max_all_suppressed_cycles_).
NoFalseCompletion ==
    [][state = "IDLE" /\ state' = "COMPLETED"
          => Detected[map] = {} \/ attempts' >= MaxAttempts]_vars

\* No goal is navigated to for ever, whatever Nav2 answers or leaves unanswered.
NavigationEnds == []<>(state # "NAVIGATING")

\* The node does not stay IDLE for ever when every map it gets from some time on has
\* each cluster a goal point wherever the robot is, or has no cluster: blacklist
\* entries, hysteresis and probe cooldowns all end.
IdleEnds ==
    <>[](map # NoMap => \A c \in Detected[map], r \in Robots : GoalPoints(c, r) # {})
        => []<>(state # "IDLE")

\* When no map has a frontier any more, the exploration completes, again after each
\* further map, whatever answers of earlier goals still come in.
EmptyMapCompletes ==
    <>[](map # NoMap /\ Detected[map] = {}) => []<>(state = "COMPLETED")

\* What resultCallback's comment says of an aborted goal, "Blacklist the failed goal
\* (frontier goals only)": the point of the goal that failed gets an entry.
FailedGoalIsBlacklisted ==
    [][\A s \in Slots : Aborted(s) /\ inFlight[s].at # NoGoal
          => blacklist'[<<"failed", inFlight[s].at>>] > 0]_vars
=============================================================================
