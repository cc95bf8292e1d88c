-------------------------- MODULE CheckpointStore --------------------------
(***************************************************************************)
(* Snapshots of a workspace: FilesystemCheckpointStore and the file        *)
(* primitives under it (crates/checkpoints/src/{store,fs_ops}.rs), with    *)
(* the daemon's startup check of them (apps/daemon/src/lib.rs).            *)
(*                                                                         *)
(* A workspace or a snapshot is a function from file names to contents.    *)
(* Every directory walk is one step per file, in any order; between two    *)
(* steps the user's editor may write to the workspace, an I/O error may    *)
(* abort the operation, or the process may die, half of a file written.    *)
(* One workspace is modelled: a restore of another workspace's checkpoint  *)
(* is refused before anything is touched.                                  *)
(***************************************************************************)
EXTENDS Naturals, FiniteSets

CONSTANTS Files, Contents,
          Absent, Torn,   \* no such file; a half-written one
          Checkpoints,    \* checkpoint ids, each drawn once
          NoCheckpoint,
          RootPlaces      \* where checkpoints_root may be

ASSUME CheckpointConstants ==
  /\ RootPlaces \subseteq {"outside", "top", "nested"}
  /\ Absent # Torn /\ {Absent, Torn} \cap Contents = {}
  /\ NoCheckpoint \notin Checkpoints

VARIABLES
  place,    \* of checkpoints_root: outside the workspace, an entry of its
            \* top level, or nested deeper; set by --data-dir
  relative, \* rows from before paths were made absolute: theirs is relative
  work,     \* the workspace
  snap,     \* the files of each snapshot directory
  dir,      \* the snapshot directories that exist
  recorded, \* checkpoint ids with a metadata row
  running,  \* the daemon is up
  op, cur,  \* the operation in progress and its checkpoint
  left,     \* file names its directory walk may still yield
  dirty,    \* files the editor has written since the operation began
  taken,    \* the workspace when each checkpoint's creation began
  blurred,  \* files the editor wrote while it was being created
  doomed    \* checkpoints whose deletion has been asked for

disk == <<place, relative, work, snap, dir, recorded>>
walk == <<op, cur, left, dirty>>
history == <<taken, blurred, doomed>>
checkpointVars == <<disk, running, walk, history>>

Tree == [Files -> Contents \cup {Absent, Torn}]

Nothing == [f \in Files |-> Absent]

CheckpointInit ==
  /\ place \in RootPlaces
  /\ work \in [Files -> Contents \cup {Absent}]
  /\ snap = [k \in Checkpoints |-> Nothing]
  /\ dir = {} /\ relative \in SUBSET Checkpoints /\ recorded = relative
  /\ running = (relative = {})
  /\ op = "idle" /\ cur = NoCheckpoint /\ left = {} /\ dirty = {}
  /\ taken = [k \in Checkpoints |-> Nothing]
  /\ blurred = [k \in Checkpoints |-> {}]
  /\ doomed = {}

Begin(step, k) ==
  /\ running /\ op = "idle"
  /\ op' = step /\ cur' = k
  /\ left' = Files /\ dirty' = {}

(* The operation returns, with or without an error.                       *)
Finish ==
  /\ op' = "idle" /\ cur' = NoCheckpoint
  /\ left' = {} /\ dirty' = {}

Advance(step) == op' = step /\ UNCHANGED <<cur, dirty>>

-----------------------------------------------------------------------------
(* create: copy the workspace into a fresh directory, then insert the     *)
(* row.  The walk does not enter checkpoints_root wherever that is.       *)
CreateCheckpoint(k) ==
  /\ k \notin dir \cup recorded \cup doomed
  /\ Begin("create", k)
  /\ dir' = dir \cup {k}
  /\ taken' = [taken EXCEPT ![k] = work]
  /\ blurred' = [blurred EXCEPT ![k] = {}]
  /\ UNCHANGED <<place, relative, work, snap, recorded, running, doomed>>

(* A name the walk yields is copied.  A file the editor has just created  *)
(* may not be yielded; one it has just removed may be, and then fails     *)
(* (OperationFails).                                                      *)
CreateCopy(f) ==
  /\ running /\ op = "create" /\ f \in left
  /\ left' = left \ {f} /\ Advance(op)
  /\ \/ snap' = [snap EXCEPT ![cur][f] = work[f]]
     \/ f \in dirty /\ UNCHANGED snap
  /\ UNCHANGED <<place, relative, work, dir, recorded, running, history>>

(* Variant: the row is written while files are still being copied.        *)
InsertRowEarly ==
  /\ running /\ op = "create"
  /\ recorded' = recorded \cup {cur}
  /\ Finish
  /\ UNCHANGED <<place, relative, work, snap, dir, running, history>>

InsertRow ==
  /\ running /\ op = "create" /\ left = {}
  /\ recorded' = recorded \cup {cur}
  /\ Finish
  /\ UNCHANGED <<place, relative, work, snap, dir, running, history>>

-----------------------------------------------------------------------------
(* restore: check the row, that its path is absolute and its directory    *)
(* there, empty the workspace, copy the snapshot back.                    *)
Restore(k) ==
  /\ k \in (recorded \ relative) \cap dir
  /\ Begin("clear", k)
  /\ UNCHANGED <<disk, running, history>>

(* Variant: the workspace is not emptied first.                           *)
ClearFileKept(f) ==
  /\ running /\ op = "clear" /\ f \in left
  /\ left' = left \ {f} /\ Advance(op)
  /\ UNCHANGED <<disk, running, history>>

ClearFile(f) ==
  /\ running /\ op = "clear" /\ f \in left
  /\ left' = left \ {f} /\ Advance(op)
  /\ \/ work' = [work EXCEPT ![f] = Absent]
     \/ f \in dirty /\ UNCHANGED work
  /\ UNCHANGED <<place, relative, snap, dir, recorded, running, history>>

(* clear_dir_excluding compares checkpoints_root with the top-level       *)
(* entries only: an entry that contains it further down goes with         *)
(* remove_dir_all, snapshot by snapshot.                                  *)
ClearNested(k) ==
  /\ running /\ op = "clear" /\ place = "nested" /\ k \in dir
  /\ dir' = dir \ {k}
  /\ snap' = [snap EXCEPT ![k] = Nothing]
  /\ UNCHANGED <<place, relative, work, recorded, running, walk, history>>

ClearDone ==
  /\ running /\ op = "clear" /\ left = {}
  /\ place = "nested" => dir = {}
  /\ left' = Files /\ Advance("copy")
  /\ UNCHANGED <<disk, running, history>>

CopyBack(f) ==
  /\ running /\ op = "copy" /\ f \in left /\ cur \in dir
  /\ left' = left \ {f} /\ Advance(op)
  /\ \/ /\ snap[cur][f] # Absent
        /\ work' = [work EXCEPT ![f] = snap[cur][f]]
     \/ snap[cur][f] = Absent /\ UNCHANGED work
  /\ UNCHANGED <<place, relative, snap, dir, recorded, running, history>>

RestoreDone ==
  /\ running /\ op = "copy" /\ left = {}
  /\ Finish
  /\ UNCHANGED <<disk, running, history>>

-----------------------------------------------------------------------------
(* delete: remove the directory if it is there, then the row.  A relative *)
(* path is refused.                                                       *)
Delete(k) ==
  /\ k \in recorded \ relative
  /\ Begin(IF k \in dir THEN "remove" ELSE "unrow", k)
  /\ doomed' = doomed \cup {k}
  /\ UNCHANGED <<disk, running, taken, blurred>>

RemoveFile(f) ==
  /\ running /\ op = "remove" /\ f \in left
  /\ left' = left \ {f} /\ Advance(op)
  /\ snap' = [snap EXCEPT ![cur][f] = Absent]
  /\ UNCHANGED <<place, relative, work, dir, recorded, running, history>>

RemoveDir ==
  /\ running /\ op = "remove" /\ left = {}
  /\ dir' = dir \ {cur}
  /\ Advance("unrow")
  /\ UNCHANGED <<place, relative, work, snap, recorded, running, left, history>>

DeleteRow ==
  /\ running /\ op = "unrow"
  /\ recorded' = recorded \ {cur}
  /\ Finish
  /\ UNCHANGED <<place, relative, work, snap, dir, running, history>>

-----------------------------------------------------------------------------
(* The file being copied when an operation is cut short may be left half  *)
(* written.                                                               *)
HalfWritten ==
  \/ UNCHANGED <<work, snap>>
  \/ \E f \in left : /\ op = "create" /\ work[f] # Absent
                     /\ snap' = [snap EXCEPT ![cur][f] = Torn]
                     /\ UNCHANGED work
  \/ \E f \in left : /\ op = "copy" /\ cur \in dir /\ snap[cur][f] # Absent
                     /\ work' = [work EXCEPT ![f] = Torn]
                     /\ UNCHANGED snap

(* Any file operation or statement may fail: the error is returned as is, *)
(* nothing is undone.                                                     *)
OperationFails ==
  /\ running /\ op # "idle"
  /\ HalfWritten /\ Finish
  /\ UNCHANGED <<place, relative, dir, recorded, running, history>>

CheckpointCrash ==
  /\ running /\ running' = FALSE
  /\ HalfWritten /\ Finish
  /\ UNCHANGED <<place, relative, dir, recorded, history>>

(* Variant: the path is taken as it stands, against some directory that   *)
(* is there.                                                              *)
UnusableMissing == recorded \ (dir \cup relative)

(* check_recovery_integrity refuses to start while some row's path is     *)
(* relative or its snapshot directory does not exist.                     *)
UnusableSnapshots == recorded \ (dir \ relative)

Start ==
  /\ ~running /\ UnusableSnapshots = {}
  /\ running' = TRUE
  /\ UNCHANGED <<disk, walk, history>>

(* The user's editor writes, creates or removes a file.                   *)
Edit(f, v) ==
  /\ work' = [work EXCEPT ![f] = v]
  /\ dirty' = IF op = "idle" THEN dirty ELSE dirty \cup {f}
  /\ blurred' = IF op = "create" THEN [blurred EXCEPT ![cur] = @ \cup {f}]
                                 ELSE blurred
  /\ UNCHANGED <<place, relative, snap, dir, recorded, running, op, cur, left, taken,
                 doomed>>

CheckpointNext ==
  \/ \E k \in Checkpoints : CreateCheckpoint(k) \/ Restore(k) \/ Delete(k)
                            \/ ClearNested(k)
  \/ \E f \in Files : \/ CreateCopy(f) \/ ClearFile(f) \/ CopyBack(f)
                      \/ RemoveFile(f)
                      \/ \E v \in Contents \cup {Absent} : Edit(f, v)
  \/ InsertRow \/ ClearDone \/ RestoreDone \/ RemoveDir \/ DeleteRow
  \/ OperationFails \/ CheckpointCrash \/ Start

CheckpointSpec == CheckpointInit /\ [][CheckpointNext]_checkpointVars

-----------------------------------------------------------------------------
CheckpointTypeOK ==
  /\ place \in RootPlaces
  /\ work \in Tree /\ snap \in [Checkpoints -> Tree]
  /\ dir \subseteq Checkpoints /\ recorded \subseteq Checkpoints
  /\ relative \subseteq Checkpoints
  /\ running \in BOOLEAN
  /\ op \in {"idle", "create", "clear", "copy", "remove", "unrow"}
  /\ cur \in Checkpoints \cup {NoCheckpoint}
  /\ left \subseteq Files /\ dirty \subseteq Files
  /\ taken \in [Checkpoints -> Tree]
  /\ blurred \in [Checkpoints -> SUBSET Files]
  /\ doomed \subseteq Checkpoints

(* What a snapshot must still hold: the workspace at the time, but for    *)
(* the files that were being edited meanwhile.                            *)
Intact(k) ==
  /\ k \in dir
  /\ \A f \in Files \ blurred[k] : snap[k][f] = taken[k][f]

(* A row the store wrote can be restored until the checkpoint's own       *)
(* deletion is asked for: no crash, failed operation, edit or other       *)
(* checkpoint's creation, restore or deletion damages it (create writes   *)
(* the row last, and the walks exclude a checkpoints_root at the          *)
(* workspace's top level).                                                *)
RowsAreRestorable ==
  place # "nested" => \A k \in recorded \ (doomed \cup relative) : Intact(k)

(* Claim (crates/checkpoints/src/fs_ops.rs:1-5): an operation never walks *)
(* into previously created checkpoints "even when the checkpoints         *)
(* directory happens to live inside the workspace".                       *)
NeverWalksIntoRoot == \A k \in recorded \ (doomed \cup relative) : Intact(k)

(* A restore that returns Ok has put the workspace back, extra files      *)
(* removed included, up to files edited during the restore or the         *)
(* creation; that holds again when an earlier restore was cut short.      *)
Restored ==
  (op = "copy" /\ left = {} /\ op' = "idle" /\ running' /\ cur \notin doomed)
    => \A f \in Files \ (dirty \cup blurred[cur]) :
         work[f] = taken[cur][f]

RestoreIsExact == [][Restored]_checkpointVars

(* Claim (crates/checkpoints/src/store.rs:94-96): startup fails closed    *)
(* "instead of running with a recovery guarantee it cannot honour".       *)
StartupVouches == running /\ op = "idle" => \A k \in recorded : Intact(k)

-----------------------------------------------------------------------------
(* What a walk has done so far, for the files nobody edits meanwhile.     *)
CreateSoFar ==
  op = "create" =>
    /\ cur \in dir \ (recorded \cup doomed)
    /\ \A f \in Files \ blurred[cur] :
         /\ work[f] = taken[cur][f]
         /\ f \notin left => snap[cur][f] = taken[cur][f]
    /\ dirty \subseteq blurred[cur]

RestoreSoFar ==
  /\ op \in {"clear", "copy"} => cur \in recorded \ relative
  /\ op = "clear" => \A f \in Files \ (left \cup dirty) : work[f] = Absent
  /\ op = "copy" =>
       /\ \A f \in Files \ dirty :
            work[f] = IF f \in left THEN Absent ELSE snap[cur][f]
       /\ place = "nested" => left = Files /\ dir = {}

(* The inductive invariant behind the properties above: each walk has     *)
(* treated the files it has passed, only a deletion touches the snapshot  *)
(* of a row, and the daemon is not up over a row whose path is relative.  *)
CheckpointInvariant ==
  /\ RowsAreRestorable /\ CreateSoFar /\ RestoreSoFar
  /\ (op = "idle") <=> (cur = NoCheckpoint)
  /\ op \in {"remove", "unrow"} => cur \in doomed
  /\ running => relative = {}
  /\ relative \subseteq recorded

(* The same with the types of the trees, the rows and the operation.      *)
CheckpointInductive == CheckpointTypeOK /\ CheckpointInvariant
=============================================================================
