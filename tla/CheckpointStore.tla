--------------------------- MODULE CheckpointStore --------------------------
(***************************************************************************)
(* The checkpoint files (checkpoint_store.cpp): save writes <path>.tmp and *)
(* renames it over <path>, and loadAndValidate tells whether a file is a   *)
(* whole checkpoint of the plan it is asked for.  A save is a sequence of  *)
(* system calls; each may fail, and the process may die between any two.   *)
(* A file that was not written to its end is Torn; the parser refuses it.  *)
(***************************************************************************)
CONSTANTS
    Paths, Checkpoints,
    NoFile, Torn,           \* the contents of a path beside a checkpoint
    FlushMayFail            \* whether what is buffered can be lost at the close

ASSUME StoreAssumption ==
    /\ NoFile \notin Checkpoints /\ Torn \notin Checkpoints /\ NoFile # Torn
    /\ FlushMayFail \in BOOLEAN

VARIABLES
    file,       \* what is stored under each path
    tmp,        \* and under each <path>.tmp
    stage,      \* how far save got
    dest,       \* the path of the running save
    data        \* the checkpoint it was given

storeVars == <<file, tmp, stage, dest, data>>

Stages == {"idle", "writing", "checked", "closed", "returned", "thrown"}

StoreInit ==
    /\ file = [p \in Paths |-> NoFile] /\ tmp = [p \in Paths |-> NoFile]
    /\ stage = "idle" /\ dest = NoFile /\ data = NoFile

Throw == stage' = "thrown" /\ UNCHANGED file

\* save(p, c) is called, and opens the temporary file, which truncates it.
Open(p, c) ==
    /\ stage = "idle" /\ stage' = "writing"
    /\ dest' = p /\ data' = c
    /\ tmp' = [tmp EXCEPT ![p] = Torn]
    /\ UNCHANGED file

OpenFails(p, c) ==
    /\ stage = "idle" /\ Throw
    /\ dest' = p /\ data' = c
    /\ UNCHANGED tmp

\* The stream is good; the last bytes are still in its buffer.
Write ==
    /\ stage = "writing" /\ stage' = "checked"
    /\ UNCHANGED <<file, tmp, dest, data>>

WriteFails == stage = "writing" /\ Throw /\ UNCHANGED <<tmp, dest, data>>

\* The stream goes out of scope and writes its buffer; nobody looks at its state again.
Close ==
    /\ stage = "checked" /\ stage' = "closed"
    /\ tmp' = [tmp EXCEPT ![dest] = data]
    /\ UNCHANGED <<file, dest, data>>

CloseLoses ==
    /\ FlushMayFail
    /\ stage = "checked" /\ stage' = "closed"
    /\ UNCHANGED <<file, tmp, dest, data>>

Rename ==
    /\ stage = "closed" /\ stage' = "returned"
    /\ file' = [file EXCEPT ![dest] = tmp[dest]]
    /\ tmp' = [tmp EXCEPT ![dest] = NoFile]
    /\ UNCHANGED <<dest, data>>

RenameFails == stage = "closed" /\ Throw /\ UNCHANGED <<tmp, dest, data>>

SaveStep ==
    \/ Write \/ WriteFails
    \/ Close \/ CloseLoses
    \/ Rename \/ RenameFails

\* save returned or threw; its caller logs which.
SaveEnds ==
    /\ stage \in {"returned", "thrown"} /\ stage' = "idle"
    /\ UNCHANGED <<file, tmp, dest, data>>

\* The process dies: what was buffered is lost, the files stay.
SaveDies == stage' = "idle" /\ UNCHANGED <<file, tmp, dest, data>>

\* Variant of loadAndValidate: the plan identity is not compared.
loadUnvalidated(content, id) ==
    IF content = NoFile THEN "NOT_FOUND" ELSE IF content = Torn THEN "CORRUPT" ELSE "OK"

\* id stands for task_input_id and plan_id.
loadAndValidate(content, id) ==
    IF content = NoFile THEN "NOT_FOUND"
    ELSE IF content = Torn THEN "CORRUPT"
    ELSE IF content.id # id THEN "MISMATCH"
    ELSE "OK"

-----------------------------------------------------------------------------
(* The store on its own *)

StoreNext ==
    \/ \E p \in Paths, c \in Checkpoints : Open(p, c) \/ OpenFails(p, c)
    \/ SaveStep \/ SaveEnds \/ SaveDies

StoreSpec == StoreInit /\ [][StoreNext]_storeVars

\* What a path holds is a whole checkpoint, replaced in one step by the one that was
\* saved, "so a crash never leaves a half-written checkpoint" (checkpoint_store.hpp).
Register == INSTANCE CheckpointRegister
StoreIsAtomic == Register!Spec

\* save throws when the checkpoint is not stored: once it has returned, the path
\* holds what it was given.
ReturnedIsStored == stage = "returned" => file[dest] = data
=============================================================================
