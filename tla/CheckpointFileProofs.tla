------------------------ MODULE CheckpointFileProofs ------------------------
(***************************************************************************)
(* Proofs about CheckpointFile for every number of chunks, files and       *)
(* changes.                                                                *)
(*                                                                         *)
(* Types and NamesDiffer hold for both writers and every fault.  Writers   *)
(* that have not met never edit the checkpoint (OwnTemp), and when no      *)
(* write was lost in silence either, the file implements AtomicCheckpoint  *)
(* (FileInv).                                                              *)
(***************************************************************************)
EXTENDS CheckpointFile, TLAPS

USE DEF writerVars, diskVars, historyVars

-----------------------------------------------------------------------------
LEMMA InitTyped == Init => TypeOK
<1> SUFFICES ASSUME Init PROVE TypeOK
  OBVIOUS
<1>1. overlapped \in BOOLEAN /\ lossy \in BOOLEAN
  BY Zenon DEF Init
<1> QED
  BY <1>1, FileAssumption DEF Init, TypeOK, Empty

(* Every step keeps the types. *)
LEMMA StepTyped == TypeOK /\ [Next]_vars => TypeOK'
<1> SUFFICES ASSUME TypeOK, [Next]_vars PROVE TypeOK'
  OBVIOUS
<1> USE FileAssumption
<1>1. CASE Change
  BY <1>1 DEF TypeOK, Change
<1>2. ASSUME NEW w \in Writers, Open(w) PROVE TypeOK'
  <2>1. PICK f \in Inodes : OpenTemp(f) /\ out' = [out EXCEPT ![w] = f]
    BY <1>2 DEF Open
  <2>2. content' \in [Inodes -> [1 .. Chunks -> Nat]] /\ temp' \in Inodes
    BY <2>1 DEF TypeOK, OpenTemp, Empty
  <2>3. server' \in {"running", "stopping", "down"}
    BY <1>2 DEF TypeOK, Open, MayBegin
  <2>4. offset' \in [Writers -> 0 .. Chunks]
    BY <1>2 DEF TypeOK, Open
  <2>5. \A v \in Writers : step'[v] = "writing" => offset'[v] < Chunks
    BY <1>2 DEF TypeOK, Open
  <2>6. world \in Nat /\ snapshot' \in [Writers -> Nat]
    BY <1>2 DEF TypeOK, Open
  <2> QED
    BY <1>2, <2>1, <2>2, <2>3, <2>4, <2>5, <2>6 DEF TypeOK, Open
<1>3. ASSUME NEW w \in Writers, Write(w) PROVE TypeOK'
  <2>1. content' \in [Inodes -> [1 .. Chunks -> Nat]]
    BY <1>3 DEF TypeOK, Write, Put
  <2>2. offset' \in [Writers -> 0 .. Chunks]
    BY <1>3 DEF TypeOK, Write
  <2>3. \A v \in Writers : step'[v] = "writing" => offset'[v] < Chunks
    BY <1>3 DEF TypeOK, Write, LastChunk
  <2> QED
    BY <1>3, <2>1, <2>2, <2>3 DEF TypeOK, Write
<1>4. ASSUME NEW w \in Writers, WriteFails(w) PROVE TypeOK'
  <2>1. CASE LastChunk(w)
    BY <1>4, <2>1 DEF TypeOK, WriteFails
  <2>2. CASE ~LastChunk(w)
    <3>1. EndSave(w)
      BY <1>4, <2>2 DEF WriteFails
    <3>2. offset' \in [Writers -> 0 .. Chunks]
      BY <3>1 DEF TypeOK, EndSave
    <3>3. \A v \in Writers : step'[v] = "writing" => offset'[v] < Chunks
      BY <3>1 DEF TypeOK, EndSave
    <3> QED
      BY <1>4, <3>1, <3>2, <3>3 DEF TypeOK, WriteFails, EndSave
  <2> QED
    BY <2>1, <2>2
<1>5. ASSUME NEW w \in Writers, Rename(w) PROVE TypeOK'
  BY <1>5 DEF TypeOK, Rename, Replace, EndSave
<1>6. CASE Exit
  BY <1>6 DEF TypeOK, Exit, NobodySaves
<1>7. CASE Start
  BY <1>7 DEF TypeOK, Start, Whole
<1>8. CASE UNCHANGED vars
  BY <1>8 DEF TypeOK, vars
<1> QED
  BY <1>1, <1>2, <1>3, <1>4, <1>5, <1>6, <1>7, <1>8 DEF Next, Save

(* Type correctness, also when both writers meet. *)
THEOREM FileTypeCorrect == Spec => []TypeOK
  BY InitTyped, StepTyped, PTL DEF Spec

-----------------------------------------------------------------------------
LEMMA StepNamesDiffer == TypeOK /\ NamesDiffer /\ [Next]_vars => NamesDiffer'
<1> SUFFICES ASSUME TypeOK, NamesDiffer, [Next]_vars PROVE NamesDiffer'
  OBVIOUS
<1>1. ASSUME NEW w \in Writers, Open(w) PROVE NamesDiffer'
  <2>1. PICK f \in Inodes : OpenTemp(f)
    BY <1>1 DEF Open
  <2>2. temp' = f /\ f # path
    BY <2>1, FileAssumption DEF OpenTemp, InUse, NamesDiffer, TypeOK
  <2> QED
    BY <1>1, <2>2 DEF NamesDiffer, Open
<1>2. ASSUME NEW w \in Writers, Rename(w) PROVE NamesDiffer'
  BY <1>2 DEF NamesDiffer, Rename, Replace
<1>3. CASE UNCHANGED <<temp, path>>
  BY <1>3 DEF NamesDiffer
<1> QED
  BY <1>1, <1>2, <1>3
  DEF Next, Save, vars, Change, Write, WriteFails, Exit, Start

(* The two names of serializator.cpp never mean one file, whoever renames
   whose. *)
THEOREM AlwaysNamesDiffer == Spec => []NamesDiffer
<1>1. Init => NamesDiffer
  BY DEF Init, NamesDiffer
<1> QED
  BY <1>1, FileTypeCorrect, StepNamesDiffer, PTL DEF Spec

-----------------------------------------------------------------------------
Names == TypeOK /\ NamesDiffer /\ OwnTemp

(* What has happened once remains so. *)
LEMMA HistoryGrows ==
  ASSUME TypeOK, [Next]_vars
  PROVE  (overlapped => overlapped') /\ (lossy => lossy')
  BY DEF TypeOK, Next, Save, vars, Change, Open, Write, WriteFails, Rename, Exit, Start

(* Until writers meet, the one that saves has the temporary file to itself. *)
LEMMA StepOwnTemp == Names /\ [Next]_vars /\ ~overlapped' => OwnTemp'
<1> SUFFICES ASSUME Names, [Next]_vars, ~overlapped' PROVE OwnTemp'
  OBVIOUS
<1>1. CASE Change
  BY <1>1 DEF OwnTemp, Names, Change
<1>2. ASSUME NEW w \in Writers, Open(w) PROVE OwnTemp'
  <2>1. PICK f \in Inodes : OpenTemp(f) /\ out' = [out EXCEPT ![w] = f]
    BY <1>2 DEF Open
  <2>2. \A v \in Writers : step[v] = "idle"
    BY <1>2 DEF Open, Idle
  <2>3. server' # "down"
    BY <1>2 DEF Open, MayBegin, Up
  <2> QED
    BY <1>2, <2>1, <2>2, <2>3 DEF OwnTemp, Names, TypeOK, Open, OpenTemp
<1>3. ASSUME NEW w \in Writers, Write(w) PROVE OwnTemp'
  <2>1. \A v \in Writers : step'[v] # "idle" => step[v] # "idle"
    BY <1>3 DEF Names, TypeOK, Write
  <2> QED
    BY <1>3, <2>1 DEF OwnTemp, Names, TypeOK, Write
<1>4. ASSUME NEW w \in Writers, WriteFails(w) PROVE OwnTemp'
  <2>1. \A v \in Writers : step'[v] # "idle" => step[v] # "idle" /\ out'[v] = out[v]
    BY <1>4 DEF Names, TypeOK, WriteFails, EndSave
  <2> QED
    BY <1>4, <2>1 DEF OwnTemp, Names, WriteFails
<1>5. ASSUME NEW w \in Writers, Rename(w) PROVE OwnTemp'
  <2>1. \A v \in Writers : step[v] # "idle" => v = w
    BY <1>5 DEF OwnTemp, Names, Rename
  <2> QED
    BY <1>5, <2>1 DEF OwnTemp, Names, TypeOK, Rename, EndSave
<1>6. CASE Exit
  BY <1>6 DEF OwnTemp, Exit, NobodySaves
<1>7. CASE Start
  BY <1>7 DEF OwnTemp, Names, Start
<1>8. CASE UNCHANGED vars
  BY <1>8 DEF OwnTemp, Names, vars
<1> QED
  BY <1>1, <1>2, <1>3, <1>4, <1>5, <1>6, <1>7, <1>8 DEF Next, Save

LEMMA AlwaysNames == Spec => [](TypeOK /\ NamesDiffer /\ (overlapped \/ OwnTemp))
<1> DEFINE Tidy == TypeOK /\ NamesDiffer /\ (overlapped \/ OwnTemp)
<1>1. Init => Tidy
  BY InitTyped DEF Init, NamesDiffer, OwnTemp
<1>2. Tidy /\ [Next]_vars => Tidy'
  BY StepTyped, StepNamesDiffer, StepOwnTemp, HistoryGrows DEF Names
<1> QED
  BY <1>1, <1>2, PTL DEF Spec

(* A step changes files only by opening and by writing. *)
LEMMA OnlyTempChanges ==
  ASSUME Names, [Next]_vars, path # NoFile, path' = path
  PROVE  content'[path] = content[path]
<1>1. ASSUME NEW w \in Writers, Open(w) PROVE content'[path] = content[path]
  <2>1. PICK f \in Inodes : OpenTemp(f)
    BY <1>1 DEF Open
  <2>2. f # path
    BY <2>1, FileAssumption DEF OpenTemp, InUse, Names, NamesDiffer, TypeOK
  <2> QED
    BY <2>1, <2>2 DEF OpenTemp, Names, TypeOK
<1>2. ASSUME NEW w \in Writers, Write(w) PROVE content'[path] = content[path]
  <2>1. out[w] \in Inodes /\ out[w] # path
    BY <1>2, FileAssumption DEF Write, Names, OwnTemp, NamesDiffer, TypeOK
  <2> QED
    BY <1>2, <2>1 DEF Write, Put, Names, TypeOK
<1>3. CASE UNCHANGED content
  BY <1>3
<1> QED
  BY <1>1, <1>2, <1>3
  DEF Next, Save, vars, Change, WriteFails, Rename, Exit, Start

(* Until writers meet the checkpoint is never edited, also on a full disk. *)
THEOREM CheckpointNeverEdited == Spec => NeverEdited
<1>1. TypeOK /\ NamesDiffer /\ (overlapped \/ OwnTemp) /\ [Next]_vars
        => [path # NoFile /\ path' = path /\ ~overlapped
              => content'[path] = content[path]]_vars
  BY OnlyTempChanges DEF Names
<1> QED
  BY <1>1, AlwaysNames, PTL DEF Spec, NeverEdited
-----------------------------------------------------------------------------
Saved == IF path = NoFile THEN 0 ELSE content[path][1]

(* The archive that is renamed is whole. *)
LEMMA RenamedIsWhole ==
  ASSUME FileInv, NEW w \in Writers, Rename(w)
  PROVE  /\ path' = out[w] /\ path' \in Inodes
         /\ content' = content
         /\ \A k \in 1 .. Chunks : content[out[w]][k] = snapshot[w]
         /\ snapshot[w] > 0 /\ snapshot[w] <= world
<1>1. step[w] = "renaming" /\ out[w] \in Inodes /\ temp = out[w] /\ offset[w] = Chunks
  BY DEF FileInv, OwnTemp, WrittenSoFar, Rename
<1>2. path' = temp /\ content' = content
  BY <1>1, FileAssumption DEF Rename, Replace
<1>3. \A k \in 1 .. Chunks : content[out[w]][k] = snapshot[w]
  BY <1>1, FileAssumption DEF FileInv, WrittenSoFar
<1> QED
  BY <1>1, <1>2, <1>3 DEF FileInv, WrittenSoFar

LEMMA StepWhole ==
  ASSUME FileInv, [Next]_vars
  PROVE  CheckpointWhole'
<1>1. ASSUME NEW w \in Writers, Rename(w) PROVE CheckpointWhole'
  <2>1. \A k \in 1 .. Chunks : content'[path'][k] > 0
                               /\ content'[path'][k] = snapshot[w]
    BY <1>1, RenamedIsWhole
  <2>2. 1 \in 1 .. Chunks
    BY FileAssumption
  <2> QED
    BY <2>1, <2>2 DEF CheckpointWhole, Whole
<1>2. CASE path' = path
  <2>1. path # NoFile => content'[path] = content[path]
    BY <1>2, OnlyTempChanges DEF FileInv, Names
  <2> QED
    BY <1>2, <2>1 DEF CheckpointWhole, Whole, FileInv
<1> QED
  BY <1>1, <1>2 DEF Next, Save, vars, Change, Open, Write, WriteFails, Exit, Start

LEMMA StepWritten ==
  ASSUME FileInv, [Next]_vars, ~overlapped', ~lossy'
  PROVE  WrittenSoFar'
<1> USE FileAssumption
<1>1. CASE Change
  BY <1>1 DEF WrittenSoFar, FileInv, TypeOK, Change
<1>2. ASSUME NEW w \in Writers, Open(w) PROVE WrittenSoFar'
  <2>1. PICK f \in Inodes : OpenTemp(f) /\ out' = [out EXCEPT ![w] = f]
    BY <1>2 DEF Open
  <2>2. f # path /\ path' = path
    BY <1>2, <2>1 DEF Open, OpenTemp, InUse, FileInv, NamesDiffer, TypeOK
  <2>3. path # NoFile => content'[path] = content[path]
    BY <2>1, <2>2 DEF OpenTemp, FileInv, TypeOK
  <2>4. server # "down"
    BY <1>2 DEF Open, MayBegin, Up
  <2>5. path # NoFile => content[path][1] <= world
    BY <2>4 DEF FileInv, SavedBefore
  <2>6. /\ step'[w] = "writing" /\ offset'[w] = 0 /\ snapshot'[w] = world
        /\ world' = world /\ world \in Nat \ {0}
    BY <1>2 DEF Open, FileInv, TypeOK
  <2>7. \A v \in Writers : step'[v] # "idle" => v = w
    BY <1>2 DEF Open, Idle, FileInv, TypeOK
  <2>8. \A k \in 1 .. Chunks : ~(k <= offset'[w])
    BY <2>6
  <2>9. snapshot'[w] > 0 /\ snapshot'[w] <= world'
    BY <2>6
  <2>10. path' # NoFile => content'[path'][1] <= snapshot'[w]
    BY <2>2, <2>3, <2>5, <2>6
  <2> QED
    BY <2>6, <2>7, <2>8, <2>9, <2>10 DEF WrittenSoFar
<1>3. ASSUME NEW w \in Writers, Write(w) PROVE WrittenSoFar'
  <2>1. /\ step[w] = "writing" /\ out[w] \in Inodes /\ out[w] # path
        /\ out' = out /\ snapshot' = snapshot /\ world' = world /\ path' = path
    BY <1>3 DEF Write, FileInv, OwnTemp, NamesDiffer, TypeOK
  <2>2. offset'[w] = offset[w] + 1 /\ offset[w] \in Nat /\ offset[w] < Chunks
    BY <1>3, <2>1 DEF Write, FileInv, TypeOK
  <2>3. content'[out[w]] = [content[out[w]] EXCEPT ![offset[w] + 1] = snapshot[w]]
    BY <1>3, <2>1 DEF Write, Put, FileInv, TypeOK
  <2>4. content[out[w]] \in [1 .. Chunks -> Nat]
    BY <2>1 DEF FileInv, TypeOK
  <2>5. \A k \in 1 .. Chunks : k <= offset'[w] => content'[out[w]][k] = snapshot[w]
    <3> SUFFICES ASSUME NEW k \in 1 .. Chunks, k <= offset[w] + 1
                 PROVE  content'[out[w]][k] = snapshot[w]
      BY <2>2
    <3>1. CASE k = offset[w] + 1
      BY <2>3, <2>4, <3>1
    <3>2. CASE k <= offset[w]
      BY <2>1, <2>2, <2>3, <2>4, <3>2 DEF FileInv, WrittenSoFar
    <3> QED
      BY <2>2, <3>1, <3>2
  <2>6. step'[w] = "renaming" => offset'[w] = Chunks
    BY <1>3, <2>1, <2>2 DEF Write, LastChunk, FileInv, TypeOK
  <2>7. path # NoFile => content'[path] = content[path]
    BY <1>3, <2>1 DEF Write, Put, FileInv, TypeOK
  <2>8. \A v \in Writers : step'[v] # "idle" => v = w
    BY <1>3 DEF Write, FileInv, OwnTemp, TypeOK
  <2>9. /\ snapshot[w] > 0 /\ snapshot[w] <= world
        /\ path # NoFile => content[path][1] <= snapshot[w]
    BY <2>1 DEF FileInv, WrittenSoFar
  <2> QED
    BY <2>1, <2>5, <2>6, <2>7, <2>8, <2>9 DEF WrittenSoFar
<1>4. ASSUME NEW w \in Writers, Rename(w) PROVE WrittenSoFar'
  <2>1. \A v \in Writers : step[v] # "idle" => v = w
    BY <1>4 DEF OwnTemp, FileInv, Rename
  <2> QED
    BY <1>4, <2>1 DEF WrittenSoFar, Rename, EndSave, FileInv, TypeOK
<1>5. CASE Exit
  BY <1>5 DEF WrittenSoFar, Exit, NobodySaves
<1>6. CASE Start
  BY <1>6 DEF WrittenSoFar, FileInv, OwnTemp, Start
<1>7. CASE UNCHANGED vars
  BY <1>7 DEF WrittenSoFar, FileInv, vars
<1>8. ASSUME NEW w \in Writers, WriteFails(w) PROVE WrittenSoFar'
  <2>1. EndSave(w) /\ UNCHANGED <<world, content, path>>
    BY <1>8 DEF WriteFails
  <2>2. \A v \in Writers : step'[v] # "idle" => v # w /\ step'[v] = step[v]
    BY <2>1 DEF EndSave, FileInv, TypeOK
  <2> QED
    BY <2>1, <2>2 DEF WrittenSoFar, EndSave, FileInv, TypeOK
<1> QED
  BY <1>1, <1>2, <1>3, <1>4, <1>5, <1>6, <1>7, <1>8 DEF Next, Save

(* Every step is one of AtomicCheckpoint, or none at all. *)
LEMMA StepImplements ==
  ASSUME FileInv, [Next]_vars
  PROVE  [Checkpoint!Next]_(Checkpoint!vars)
<1> USE DEF Checkpoint!Next, Checkpoint!vars
<1>1. CASE Change
  BY <1>1 DEF Change, Checkpoint!Change
<1>2. ASSUME NEW w \in Writers, Open(w) \/ Write(w)
      PROVE  UNCHANGED Checkpoint!vars
  <2>1. path' = path /\ world' = world
    BY <1>2 DEF Open, Write
  <2>2. path # NoFile => content'[path] = content[path]
    BY <2>1, OnlyTempChanges DEF FileInv, Names
  <2> QED
    BY <2>1, <2>2
<1>3. ASSUME NEW w \in Writers, Rename(w)
      PROVE  Checkpoint!Save
  <2>1. /\ path' = out[w] /\ path' # NoFile /\ content'[path'][1] = snapshot[w]
        /\ snapshot[w] <= world
    BY <1>3, RenamedIsWhole, FileAssumption
  <2>2. world' = world
    BY <1>3 DEF Rename
  <2>3. Saved \in Nat /\ snapshot[w] \in Nat /\ world \in Nat
    BY FileAssumption DEF Saved, FileInv, TypeOK
  <2>4. Saved <= snapshot[w]
    BY <1>3, <2>3 DEF Saved, FileInv, WrittenSoFar, Rename
  <2> QED
    BY <2>1, <2>2, <2>3, <2>4 DEF Checkpoint!Save, Saved
<1>4. CASE Exit
  BY <1>4 DEF Exit
<1>5. CASE Start
  <2>1. path # NoFile => content[path][1] > 0
    BY FileAssumption DEF FileInv, CheckpointWhole, Whole
  <2> QED
    BY <1>5, <2>1 DEF Start, FileInv, CheckpointWhole, Checkpoint!Restart
<1>6. CASE UNCHANGED vars
  BY <1>6 DEF vars
<1> QED
  BY <1>1, <1>2, <1>3, <1>4, <1>5, <1>6 DEF Next, Save, WriteFails

LEMMA StepSavedBefore ==
  ASSUME FileInv, [Next]_vars, ~overlapped', ~lossy'
  PROVE  SavedBefore'
<1> DEFINE Before == path # NoFile => content[path][1] <= world
<1>1. CASE Start
  BY <1>1, FileAssumption DEF Start, SavedBefore, FileInv, CheckpointWhole, TypeOK
<1>2. ASSUME NEW w \in Writers, Rename(w) PROVE SavedBefore'
  <2>1. content'[path'][1] = snapshot[w] /\ snapshot[w] <= world /\ world' = world
    BY <1>2, RenamedIsWhole, FileAssumption DEF Rename
  <2> QED
    BY <2>1 DEF SavedBefore
<1>3. ASSUME path' = path, world' >= world, server' # "down" => server # "down"
      PROVE  SavedBefore'
  <2>1. path # NoFile => content'[path] = content[path] /\ path \in Inodes
    BY <1>3, OnlyTempChanges DEF FileInv, Names, TypeOK
  <2>2. path # NoFile => content[path][1] \in Nat /\ world \in Nat /\ world' \in Nat
    BY <2>1, StepTyped, FileAssumption DEF FileInv, TypeOK
  <2> QED
    BY <1>3, <2>1, <2>2 DEF SavedBefore, FileInv
<1>4. world \in Nat
  BY DEF FileInv, TypeOK
<1> QED
  BY <1>1, <1>2, <1>3, <1>4
  DEF Next, Save, vars, Change, Open, MayBegin, Write, WriteFails, Exit, Up

LEMMA AlwaysUnlessSpoiled == Spec => []UnlessSpoiled
<1>1. Init => UnlessSpoiled
  BY InitTyped
  DEF Init, UnlessSpoiled, FileInv, NamesDiffer, OwnTemp, CheckpointWhole,
      WrittenSoFar, SavedBefore
<1>2. ASSUME UnlessSpoiled, [Next]_vars PROVE UnlessSpoiled'
  <2>1. TypeOK' /\ NamesDiffer' /\ (overlapped' \/ OwnTemp')
    BY <1>2, StepTyped, StepNamesDiffer, StepOwnTemp, HistoryGrows
    DEF UnlessSpoiled, Names
  <2>2. ASSUME ~overlapped', ~lossy' PROVE FileInv'
    <3>1. FileInv
      BY <1>2, <2>2, HistoryGrows DEF UnlessSpoiled
    <3> QED
      BY <1>2, <2>1, <2>2, <3>1, StepWhole, StepWritten, StepSavedBefore DEF FileInv
  <2> QED
    BY <2>1, <2>2 DEF UnlessSpoiled
<1> QED
  BY <1>1, <1>2, PTL DEF Spec

(* A restart never finds a torn checkpoint, unless writers have met or a write
   was lost in silence. *)
THEOREM CheckpointAlwaysWhole == Spec => []WholeUnlessSpoiled
<1>1. UnlessSpoiled => WholeUnlessSpoiled
  BY DEF UnlessSpoiled, FileInv, WholeUnlessSpoiled
<1> QED
  BY <1>1, AlwaysUnlessSpoiled, PTL

(* Until then the file changes in one step from a state of the game to a later
   one. *)
THEOREM FileImplementsCheckpoint == Spec => SavesAtomically
<1>1. Init => Checkpoint!Init
  BY DEF Init, Checkpoint!Init
<1>2. UnlessSpoiled /\ [Next]_vars
        => [overlapped \/ lossy \/ Checkpoint!Next]_(Checkpoint!vars)
  BY StepImplements DEF UnlessSpoiled
<1> QED
  BY <1>1, <1>2, AlwaysUnlessSpoiled, PTL DEF Spec, SavesAtomically
=============================================================================
