-------------------------- MODULE CheckpointProofs --------------------------
(***************************************************************************)
(* Proofs about the checkpoint store: when closing the stream loses        *)
(* nothing, a path holds nothing or a whole checkpoint, replaced in one    *)
(* step, whatever fails and wherever the process dies; and save returns    *)
(* only when the path holds what it was given.                             *)
(***************************************************************************)
EXTENDS CheckpointStore, TLAPS

\* The shape of the files, and of a running save.
FilesTyped ==
    /\ file \in [Paths -> Checkpoints \cup {NoFile}]
    /\ tmp \in [Paths -> Checkpoints \cup {NoFile, Torn}]
    /\ stage \in Stages
    /\ stage # "idle" => dest \in Paths /\ data \in Checkpoints

\* What is renamed is all that was to be stored: this makes ReturnedIsStored inductive.
ClosedIsWhole == stage = "closed" => tmp[dest] = data

\* What holds of the store as long as closing the stream loses nothing.
StoreInv == FilesTyped /\ ClosedIsWhole /\ ReturnedIsStored

\* It holds of an empty store.
LEMMA StoreInitInv == StoreInit => StoreInv
  BY DEF StoreInit, StoreInv, FilesTyped, ClosedIsWhole, ReturnedIsStored, Stages

\* A step that does not store anything.
LEMMA QuietStep ==
    ASSUME StoreInv, UNCHANGED file, tmp' \in [Paths -> Checkpoints \cup {NoFile, Torn}],
           stage' \in {"idle", "writing", "checked", "thrown"},
           stage' = "idle" \/ (dest' \in Paths /\ data' \in Checkpoints)
    PROVE  StoreInv'
  BY DEF StoreInv, FilesTyped, ClosedIsWhole, ReturnedIsStored, Stages

\* Every step of the store keeps the invariant, provided that what is buffered is
\* written when the stream is closed.
LEMMA StoreStepInv ==
    ASSUME ~FlushMayFail, StoreInv, [StoreNext]_storeVars
    PROVE  StoreInv'
<1> USE DEF StoreInv, FilesTyped
<1>1. ASSUME NEW p \in Paths, NEW c \in Checkpoints, Open(p, c)
      PROVE  StoreInv'
  BY <1>1, QuietStep DEF Open
<1>2. ASSUME NEW p \in Paths, NEW c \in Checkpoints, OpenFails(p, c)
      PROVE  StoreInv'
  BY <1>2, QuietStep DEF OpenFails, Throw
<1>3. CASE Write
  BY <1>3, QuietStep DEF Write
<1>4. CASE WriteFails
  BY <1>4, QuietStep DEF WriteFails, Throw
<1>5. CASE Close
  <2>1. tmp' = [tmp EXCEPT ![dest] = data] /\ dest \in Paths /\ data \in Checkpoints
    BY <1>5 DEF Close
  <2>2. tmp' \in [Paths -> Checkpoints \cup {NoFile, Torn}] /\ tmp'[dest'] = data'
    BY <1>5, <2>1 DEF Close
  <2> QED
    BY <1>5, <2>1, <2>2 DEF Close, ClosedIsWhole, ReturnedIsStored, Stages
<1>6. CASE CloseLoses
  BY <1>6 DEF CloseLoses
<1>7. CASE Rename
  <2>1. dest \in Paths /\ data \in Checkpoints /\ tmp[dest] = data
    BY <1>7 DEF Rename, ClosedIsWhole
  <2>2. file' \in [Paths -> Checkpoints \cup {NoFile}] /\ file'[dest'] = data'
    BY <1>7, <2>1 DEF Rename
  <2>3. tmp' \in [Paths -> Checkpoints \cup {NoFile, Torn}]
    BY <1>7 DEF Rename
  <2> QED
    BY <1>7, <2>1, <2>2, <2>3 DEF Rename, ClosedIsWhole, ReturnedIsStored, Stages
<1>8. CASE RenameFails
  BY <1>8, QuietStep DEF RenameFails, Throw
<1>9. CASE SaveEnds
  BY <1>9, QuietStep DEF SaveEnds
<1>10. CASE SaveDies
  BY <1>10, QuietStep DEF SaveDies
<1>11. CASE UNCHANGED storeVars
  BY <1>11 DEF storeVars, ClosedIsWhole, ReturnedIsStored
<1> QED
  BY <1>1, <1>2, <1>3, <1>4, <1>5, <1>6, <1>7, <1>8, <1>9, <1>10, <1>11
     DEF StoreNext, SaveStep

\* It holds always.
LEMMA StoreInvariant == ASSUME ~FlushMayFail PROVE StoreSpec => []StoreInv
<1>1. StoreInv /\ [StoreNext]_storeVars => StoreInv'
  BY StoreStepInv
<1> QED
  BY StoreInitInv, <1>1, PTL DEF StoreSpec

\* Once save has returned, the path holds what it was given.
THEOREM SavedIsStored == ASSUME ~FlushMayFail PROVE StoreSpec => []ReturnedIsStored
<1>1. StoreInv => ReturnedIsStored
  BY DEF StoreInv
<1> QED
  BY StoreInvariant, <1>1, PTL

\* A step of the store replaces a checkpoint by another one, or changes none.
LEMMA StepReplaces ==
    ASSUME StoreInv, [StoreNext]_storeVars
    PROVE  [Register!Next]_file
<1>1. CASE Rename
  <2>1. dest \in Paths /\ data \in Checkpoints /\ tmp[dest] = data
    BY <1>1 DEF Rename, StoreInv, FilesTyped, ClosedIsWhole
  <2>2. file' = [file EXCEPT ![dest] = data] /\ file'[dest] = data
    BY <1>1, <2>1 DEF Rename, StoreInv, FilesTyped
  <2>3. Register!Replace(dest)
    BY <2>1, <2>2 DEF Register!Replace
  <2> QED
    BY <2>1, <2>3 DEF Register!Next
<1>2. ASSUME NEW p \in Paths, NEW c \in Checkpoints, Open(p, c) \/ OpenFails(p, c)
      PROVE  UNCHANGED file
  BY <1>2 DEF Open, OpenFails, Throw
<1>3. CASE Write \/ WriteFails \/ Close \/ CloseLoses \/ RenameFails
  BY <1>3 DEF Write, WriteFails, Close, CloseLoses, RenameFails, Throw
<1>4. CASE SaveEnds \/ SaveDies \/ UNCHANGED storeVars
  BY <1>4 DEF SaveEnds, SaveDies, storeVars
<1> QED
  BY <1>1, <1>2, <1>3, <1>4 DEF StoreNext, SaveStep

\* "A crash never leaves a half-written checkpoint" (checkpoint_store.hpp): the store
\* implements the register of whole checkpoints.
THEOREM StoreImplementsRegister == ASSUME ~FlushMayFail PROVE StoreSpec => StoreIsAtomic
<1>1. StoreInit => Register!Init
  BY DEF StoreInit, Register!Init
<1>2. StoreInv /\ [StoreNext]_storeVars => [Register!Next]_file
  BY StepReplaces
<1> QED
  BY StoreInvariant, <1>1, <1>2, PTL DEF StoreSpec, StoreIsAtomic, Register!Spec
=============================================================================
