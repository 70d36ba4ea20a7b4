-------------------------- MODULE CoverageService --------------------------
(***************************************************************************)
(* What the executor promises a client of the ExecuteCoverage action       *)
(* (ExecuteCoverage.action, R21, R23): one task at a time; every accepted  *)
(* task ends; it is answered once, with a result of the class its course   *)
(* allows; a cancel result only for a goal the client asked to cancel; or  *)
(* the process ends and there is no answer.                                *)
(***************************************************************************)
CONSTANTS SuccessResults, PartialResult

VARIABLES
    svc,      \* "idle", "running" or "stopping"
    asked,    \* the client asked for a cancel of the running task
    moved,    \* the map changed under the running task
    answer    \* optional: the last answer

svcVars == <<svc, asked, moved, answer>>

ServiceInit == svc = "idle" /\ asked = FALSE /\ moved = FALSE /\ answer = {}

Busy == svc # "idle"

Ends(codes) ==
    /\ svc' = "idle" /\ asked' = FALSE /\ moved' = FALSE
    /\ answer' = codes

Accept ==
    /\ ~Busy
    /\ svc' = "running" /\ answer' = {}
    /\ UNCHANGED <<asked, moved>>

\* An accepted goal that cannot be started is answered at once.
AnswerAtOnce == ~Busy /\ Ends({PartialResult})

RequestStop ==
    /\ Busy /\ ~asked
    /\ svc' = "stopping" /\ asked' = TRUE
    /\ UNCHANGED <<moved, answer>>

MapMoves ==
    /\ Busy
    /\ svc' = "stopping" /\ moved' = TRUE
    /\ UNCHANGED <<asked, answer>>

Complete == svc = "running" /\ \E code \in SuccessResults \cup {PartialResult} : Ends({code})

\* A stop that is confirmed names its cause; one that is not is STOP_FAILED.
Stopped ==
    /\ svc = "stopping" /\ asked
    /\ \E code \in {"STOP_FAILED", IF moved THEN "MAP_CHANGED" ELSE "CANCELLED"} : Ends({code})

Vanish == Ends({})

ServiceNext ==
    Accept \/ AnswerAtOnce \/ RequestStop \/ MapMoves \/ Complete \/ Stopped \/ Vanish

ServiceSafety == ServiceInit /\ [][ServiceNext]_svcVars

\* No task stays for ever.
ServiceSpec == ServiceSafety /\ WF_svcVars(Complete \/ Stopped \/ (Busy /\ Vanish))
=============================================================================
