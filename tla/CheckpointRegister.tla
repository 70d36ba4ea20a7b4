------------------------- MODULE CheckpointRegister -------------------------
(***************************************************************************)
(* What a reader of checkpoints is promised (checkpoint_store.hpp): under  *)
(* each path there is nothing or a whole checkpoint, and a checkpoint is   *)
(* replaced by another one in a single step, whenever a process dies.      *)
(***************************************************************************)
CONSTANTS Paths, Checkpoints, NoFile

VARIABLE file

Init == file = [p \in Paths |-> NoFile]

Replace(p) == file'[p] \in Checkpoints /\ file' = [file EXCEPT ![p] = file'[p]]

Next == \E p \in Paths : Replace(p)

Spec == Init /\ [][Next]_file
=============================================================================
