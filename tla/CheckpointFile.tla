--------------------------- MODULE CheckpointFile ---------------------------
(***************************************************************************)
(* How a checkpoint gets on the disk (serializator.cpp): WriteGameDate     *)
(* writes the archive to "<path>.bak" and renames it to path.  It is       *)
(* called by a tick, on the API strand, and by the signal handler of       *)
(* main.cpp, on any thread.  The archive reaches its file in chunks, the   *)
(* last one when it is closed.                                             *)
(*                                                                         *)
(* A state of the game is the number of changes that led to it.  Whatever  *)
(* a process has written stays when it crashes.                            *)
(***************************************************************************)
EXTENDS Integers, FiniteSets

CONSTANTS
    Writers,      \* who saves, a subset of {"tick", "signal"}
    Inodes,       \* the files of the disk
    NoFile,       \* no file has this name
    Chunks,       \* the number of chunks of an archive
    MaxChanges,   \* bound: the changes of the game
    Faults        \* a subset of {"crash", "full"}

ASSUME FileAssumption ==
    /\ Writers \subseteq {"tick", "signal"}
    /\ NoFile \notin Inodes
    /\ Chunks \in Nat \ {0}
    /\ MaxChanges \in Nat \ {0}
    /\ Faults \subseteq {"crash", "full"}

VARIABLES
    server,     \* "running", "stopping" after a signal, or "down"
    world,      \* the state of the game, 1 when it is new
    step,       \* per writer: "idle", "writing" or "renaming"
    snapshot,   \* per writer: the state it saves
    out,        \* per writer: the file it has open
    offset,     \* per writer: the chunks it has written
    content,    \* per file: chunk -> state, 0 where nothing is written
    temp,       \* the file with the name "<path>.bak", or NoFile
    path,       \* the file with the name path, or NoFile
    overlapped, \* history: two writers have been at work at once
    lossy       \* history: a chunk was lost and nobody was told

writerVars == <<step, snapshot, out, offset>>
diskVars   == <<content, temp, path>>
historyVars == <<overlapped, lossy>>
vars == <<server, world, writerVars, diskVars, historyVars>>

-----------------------------------------------------------------------------
Empty == [k \in 1 .. Chunks |-> 0]

Up == server \in {"running", "stopping"}

Idle(w) == step[w] = "idle"

Active(w) == Up /\ ~Idle(w)

(* Handlers of the strand change the game, one at a time: not while a tick
   saves it. *)
Change ==
    /\ Up
    /\ "tick" \in Writers => Idle("tick")
    /\ world < MaxChanges
    /\ world' = world + 1
    /\ UNCHANGED <<server, writerVars, diskVars, historyVars>>

(* The signal handler runs once. *)
MayBegin(w) ==
    /\ Idle(w)
    /\ Up
    /\ IF w = "signal" THEN server = "running" /\ server' = "stopping"
                       ELSE UNCHANGED server

InUse(f) == f \in {temp, path} \/ \E w \in Writers : Active(w) /\ out[w] = f

(* Mutant: the checkpoint is written in place. *)
OpenPath(f) ==
    /\ f \in Inodes
    /\ IF path = NoFile THEN ~InUse(f) ELSE f = path
    /\ temp' = f
    /\ content' = [content EXCEPT ![f] = Empty]

(* std::ofstream out(temp_path): a new file, or the one that has the name. *)
OpenTemp(f) ==
    /\ f \in Inodes
    /\ IF temp = NoFile THEN ~InUse(f) ELSE f = temp
    /\ temp' = f
    /\ content' = [content EXCEPT ![f] = Empty]

Open(w) ==
    /\ MayBegin(w)
    /\ \E f \in Inodes : OpenTemp(f) /\ out' = [out EXCEPT ![w] = f]
    /\ step' = [step EXCEPT ![w] = "writing"]
    /\ snapshot' = [snapshot EXCEPT ![w] = world]
    /\ offset' = [offset EXCEPT ![w] = 0]
    /\ overlapped' = (overlapped \/ \E v \in Writers : ~Idle(v))
    /\ UNCHANGED <<world, path, lossy>>

(* WriteGameDate is left, and its stream with it. *)
EndSave(w) ==
    /\ step' = [step EXCEPT ![w] = "idle"]
    /\ snapshot' = [snapshot EXCEPT ![w] = 0]
    /\ out' = [out EXCEPT ![w] = NoFile]
    /\ offset' = [offset EXCEPT ![w] = 0]

Put(w) == content' = [content EXCEPT ![out[w]][offset[w] + 1] = snapshot[w]]

(* Mutants: the archive is renamed before it is closed; one chunk too many. *)
AlmostWritten(w) == offset[w] + 1 = Chunks - 1
PastLast(w) == offset[w] = Chunks
LastChunk(w) == offset[w] + 1 = Chunks

Write(w) ==
    /\ Active(w) /\ step[w] = "writing"
    /\ Put(w)
    /\ offset' = [offset EXCEPT ![w] = @ + 1]
    /\ step' = [step EXCEPT ![w] = IF LastChunk(w) THEN "renaming" ELSE @]
    /\ UNCHANGED <<server, world, snapshot, out, temp, path, historyVars>>

(* A chunk does not fit on the disk: the archive throws, but out.close() does
   not, and nobody looks at the state of the stream. *)
WriteFails(w) ==
    /\ "full" \in Faults
    /\ Active(w) /\ step[w] = "writing"
    /\ IF LastChunk(w)
       THEN /\ step' = [step EXCEPT ![w] = "renaming"]
            /\ lossy' = TRUE
            /\ UNCHANGED <<snapshot, out, offset>>
       ELSE EndSave(w) /\ UNCHANGED lossy
    /\ UNCHANGED <<server, world, diskVars, overlapped>>

Replace == path' = temp /\ temp' = NoFile

(* std::filesystem::rename, which throws when the other writer was faster. *)
Rename(w) ==
    /\ Active(w) /\ step[w] = "renaming"
    /\ \/ temp = NoFile /\ UNCHANGED <<temp, path>>
       \/ temp # NoFile /\ Replace
    /\ EndSave(w)
    /\ UNCHANGED <<server, world, content, historyVars>>

NobodySaves ==
    /\ step' = [w \in Writers |-> "idle"]
    /\ snapshot' = [w \in Writers |-> 0]
    /\ out' = [w \in Writers |-> NoFile]
    /\ offset' = [w \in Writers |-> 0]

(* The process ends: after a signal when all handlers have ended, or any time
   by a crash. *)
Exit ==
    /\ \/ server = "stopping" /\ \A w \in Writers : Idle(w)
       \/ server # "down" /\ "crash" \in Faults
    /\ server' = "down"
    /\ NobodySaves
    /\ UNCHANGED <<world, diskVars, historyVars>>

Whole(f) == \A k \in 1 .. Chunks : content[f][k] > 0 /\ content[f][k] = content[f][1]

(* UploadGameState, or a new game when there is no file or it is broken. *)
Start ==
    /\ server = "down"
    /\ server' = "running"
    /\ world' = IF path # NoFile /\ Whole(path) THEN content[path][1] ELSE 1
    /\ UNCHANGED <<writerVars, diskVars, historyVars>>

-----------------------------------------------------------------------------
Init ==
    /\ server = "running" /\ world = 1
    /\ step = [w \in Writers |-> "idle"]
    /\ snapshot = [w \in Writers |-> 0]
    /\ out = [w \in Writers |-> NoFile]
    /\ offset = [w \in Writers |-> 0]
    /\ content = [f \in Inodes |-> Empty]
    /\ temp = NoFile /\ path = NoFile
    /\ overlapped = FALSE /\ lossy = FALSE

Save(w) == Open(w) \/ Write(w) \/ WriteFails(w) \/ Rename(w)

Next == Change \/ (\E w \in Writers : Save(w)) \/ Exit \/ Start

Spec == Init /\ [][Next]_vars
-----------------------------------------------------------------------------
(* Every variable has its type, and a writer has something left to write. *)
TypeOK ==
    /\ server \in {"running", "stopping", "down"}
    /\ world \in Nat \ {0}
    /\ step \in [Writers -> {"idle", "writing", "renaming"}]
    /\ snapshot \in [Writers -> Nat]
    /\ out \in [Writers -> Inodes \cup {NoFile}]
    /\ offset \in [Writers -> 0 .. Chunks]
    /\ \A w \in Writers : step[w] = "writing" => offset[w] < Chunks
    /\ content \in [Inodes -> [1 .. Chunks -> Nat]]
    /\ temp \in Inodes \cup {NoFile} /\ path \in Inodes \cup {NoFile}
    /\ overlapped \in BOOLEAN /\ lossy \in BOOLEAN

(* The checkpoint under its name is the whole archive of one state, at every
   moment: a restart never finds it torn, cut short or mixed. *)
CheckpointWhole == path # NoFile => Whole(path)

(* Two things only can spoil it: writers that meet, and a full disk that shows
   at the very end.  Neither a crash at any step, nor a stale temporary file,
   nor a write that throws, nor a signal between two ticks does. *)
WholeUnlessSpoiled == overlapped \/ lossy \/ CheckpointWhole

(* A checkpoint is replaced, never edited: whatever fails while the next one
   is written, the last one stays as it was, unless two writers meet. *)
NeverEdited ==
    [][path # NoFile /\ path' = path /\ ~overlapped
          => content'[path] = content[path]]_vars

(* A writer that opens "<path>.bak" never gets the checkpoint itself, also when
   two writers rename each other's files. *)
NamesDiffer == temp # NoFile => temp # path

Checkpoint == INSTANCE AtomicCheckpoint
                  WITH saved <- IF path = NoFile THEN 0 ELSE content[path][1]

(* Until it is spoiled the file implements AtomicCheckpoint: it only ever
   changes to a later state of the game, whatever the writer was doing when the
   process crashed. *)
SavesAtomically ==
    /\ Checkpoint!Init
    /\ [][overlapped \/ lossy \/ Checkpoint!Next]_(Checkpoint!vars)

(* Why: while writers have not met, the temporary file belongs to the writer;
   and while no write was lost in silence either, what it has written of it is
   what it set out to save, a state no older than the checkpoint. *)
OwnTemp ==
    \A w \in Writers :
        step[w] # "idle" => /\ server # "down"
                            /\ out[w] \in Inodes
                            /\ temp = out[w]
                            /\ \A v \in Writers : step[v] # "idle" => v = w
WrittenSoFar ==
    \A w \in Writers :
        step[w] # "idle" =>
            /\ snapshot[w] > 0
            /\ \A k \in 1 .. Chunks :
                  k <= offset[w] => content[out[w]][k] = snapshot[w]
            /\ step[w] = "renaming" => offset[w] = Chunks
            /\ snapshot[w] <= world
            /\ path # NoFile => content[path][1] <= snapshot[w]
SavedBefore ==
    path # NoFile /\ server # "down" => content[path][1] <= world
FileInv ==
    /\ TypeOK /\ NamesDiffer /\ OwnTemp
    /\ CheckpointWhole /\ WrittenSoFar /\ SavedBefore
UnlessSpoiled ==
    /\ TypeOK /\ NamesDiffer
    /\ overlapped \/ OwnTemp
    /\ overlapped \/ lossy \/ FileInv
=============================================================================
