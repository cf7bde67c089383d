----------------------------- MODULE Snapshots -----------------------------
(***************************************************************************)
(* SnapshotManager (src/src/workspace/SnapshotManager.cpp).                *)
(*                                                                         *)
(* One mutex serialises the operations, so at most one of them is under    *)
(* way: job says which and how far it has got. The mutex does not keep the *)
(* agents, the tools or the user from writing the files meanwhile, so an   *)
(* operation advances one file at a time and Edit is enabled in between.   *)
(* A crash forgets the snapshots: their copies under .aios/snapshots are   *)
(* written and deleted, and never read back.                               *)
(***************************************************************************)
EXTENDS UnifiedDiff

CONSTANTS
    Path,       \* the files of the workspace
    Hidden,     \* those scanWorkspaceFiles skips: .git*, .aios*, build/, .vs/
    Id,         \* snapshot identifiers
    Text,       \* file contents; the empty one is <<>>
    Absent,     \* the file does not exist
    NoPath,
    NoId,
    MaxEdits    \* bound: writes by others in one behaviour

ASSUME SnapshotsAssumption ==
    /\ Hidden \subseteq Path
    /\ <<>> \in Text
    /\ Absent \notin Text
    /\ NoPath \notin Path
    /\ MaxEdits \in Nat

VARIABLES
    disk,       \* path -> contents, or Absent
    unusable,   \* paths that can neither be opened nor removed at present
    snapshots,  \* snapshots_: id -> (tracked path -> FileSnapshot)
    shadow,     \* the ids that have a directory under .aios/snapshots
    job,        \* the operation holding mutex_
    recorded,   \* cp.files of the createSnapshot under way
    edits,      \* number of writes by others so far
    origin      \* history: the disk an undisturbed createSnapshot recorded

vars == <<disk, unusable, snapshots, shadow, job, recorded, edits, origin>>

Visible == Path \ Hidden

\* FileSnapshot: a file that was not there is kept with empty contents.
Existing(c) == [content |-> c, existed |-> TRUE]
Missing == [content |-> <<>>, existed |-> FALSE]
FileSnapshot == {Existing(c) : c \in Text} \cup {Missing}

\* todo: the files still to visit; at: the file seen to exist and not read
\* yet; success: summary.success. touched and swallowed are history: the files
\* others wrote meanwhile, and those whose failure the code does not notice.
Job == [op : {"none", "create", "sweep", "restore"}, id : Id \cup {NoId},
        todo : SUBSET Path, at : Path \cup {NoPath}, success : BOOLEAN,
        touched : SUBSET Path, swallowed : SUBSET Path]

Starting(op, id, files) ==
    [op |-> op, id |-> id, todo |-> files, at |-> NoPath, success |-> TRUE,
     touched |-> {}, swallowed |-> {}]

Idle == Starting("none", NoId, {})

\* m[k] = v on a std::unordered_map
Assign(m, k, v) == [x \in DOMAIN m \cup {k} |-> IF x = k THEN v ELSE m[x]]

IsPartial(f, S, T) == DOMAIN f \subseteq S /\ \A x \in DOMAIN f : f[x] \in T

TypeOK ==
    /\ disk \in [Path -> Text \cup {Absent}]
    /\ unusable \subseteq Path
    /\ DOMAIN snapshots \subseteq Id
    /\ \A id \in DOMAIN snapshots : IsPartial(snapshots[id], Path, FileSnapshot)
    /\ shadow \subseteq Id
    /\ edits \in 0..MaxEdits
    /\ IsPartial(origin, Id, [Path -> Text \cup {Absent}])
    /\ job \in Job
    /\ IsPartial(recorded, Path, FileSnapshot)
    /\ job.op = "none" \/ job.id \in Id
    /\ job.op \in {"sweep", "restore"} => job.id \in DOMAIN snapshots

Init ==
    /\ disk \in [Path -> Text \cup {Absent}]
    /\ unusable = {}
    /\ snapshots = <<>>
    /\ shadow = {}
    /\ job = Idle
    /\ recorded = <<>>
    /\ edits = 0
    /\ origin = <<>>

\* Mutant: the scan does not skip the hidden directories.
ScanEverything == {p \in Path : disk[p] # Absent}

\* scanWorkspaceFiles
Scan == {p \in Visible : disk[p] # Absent}

Tracked(id) == DOMAIN snapshots[id]

----------------------------------------------------------------------------
(* createSnapshot                                                          *)

\* An empty files_to_track means every file the scan finds.
BeginCreate(id, files) ==
    /\ job = Idle
    /\ job' = Starting("create", id, IF files = {} THEN Scan ELSE files)
    /\ recorded' = <<>>
    /\ UNCHANGED <<disk, unusable, snapshots, shadow, edits, origin>>

\* std::filesystem::exists(full_path)
Probe(p) ==
    /\ job.op = "create"
    /\ job.at = NoPath
    /\ p \in job.todo
    /\ IF disk[p] = Absent
       THEN /\ job' = [job EXCEPT !.todo = @ \ {p}]
            /\ recorded' = Assign(recorded, p, Missing)
       ELSE /\ job' = [job EXCEPT !.at = p]
            /\ UNCHANGED recorded
    /\ UNCHANGED <<disk, unusable, snapshots, shadow, edits, origin>>

\* readFileContent: a file that cannot be opened by now reads as empty.
Read ==
    /\ job.op = "create"
    /\ job.at # NoPath
    /\ LET p == job.at
           opened == disk[p] # Absent /\ p \notin unusable
       IN  /\ job' = [job EXCEPT !.at = NoPath,
                                 !.todo = @ \ {p},
                                 !.swallowed = IF opened THEN @ ELSE @ \cup {p}]
           /\ recorded' = Assign(recorded, p, Existing(IF opened THEN disk[p] ELSE <<>>))
    /\ UNCHANGED <<disk, unusable, snapshots, shadow, edits, origin>>

\* A snapshot of the same id is replaced.
FinishCreate ==
    /\ job.op = "create"
    /\ job.at = NoPath
    /\ job.todo = {}
    /\ snapshots' = Assign(snapshots, job.id, recorded)
    /\ shadow' = shadow \cup {job.id}
    /\ origin' = IF job.touched = {} /\ job.swallowed = {}
                 THEN Assign(origin, job.id, disk)
                 ELSE Restrict(origin, DOMAIN origin \ {job.id})
    /\ job' = Idle
    /\ recorded' = <<>>
    /\ UNCHANGED <<disk, unusable, edits>>

----------------------------------------------------------------------------
(* rollbackSnapshot                                                        *)

\* Mutant: only the tracked files are looked at.
BeginWithoutSweep(id) ==
    /\ job = Idle
    /\ id \in DOMAIN snapshots
    /\ job' = Starting("sweep", id, {})
    /\ UNCHANGED <<disk, unusable, snapshots, shadow, recorded, edits, origin>>

BeginRollback(id) ==
    /\ job = Idle
    /\ id \in DOMAIN snapshots
    /\ job' = Starting("sweep", id, Scan \ Tracked(id))
    /\ UNCHANGED <<disk, unusable, snapshots, shadow, recorded, edits, origin>>

\* Step 1 deletes what the scan found and the snapshot does not track. A file
\* that has gone meanwhile is no error.
Sweep(p) ==
    /\ job.op = "sweep"
    /\ p \in job.todo
    /\ IF p \in unusable /\ disk[p] # Absent
       THEN /\ job' = [job EXCEPT !.todo = @ \ {p}, !.success = FALSE]
            /\ UNCHANGED disk
       ELSE /\ job' = [job EXCEPT !.todo = @ \ {p}]
            /\ disk' = [disk EXCEPT ![p] = Absent]
    /\ UNCHANGED <<unusable, snapshots, shadow, recorded, edits, origin>>

\* Mutant: files recorded as missing are not removed.
EndSweepExisting ==
    /\ job.op = "sweep"
    /\ job.todo = {}
    /\ job' = [job EXCEPT !.op = "restore",
                          !.todo = {p \in Tracked(job.id) : snapshots[job.id][p].existed}]
    /\ UNCHANGED <<disk, unusable, snapshots, shadow, recorded, edits, origin>>

EndSweep ==
    /\ job.op = "sweep"
    /\ job.todo = {}
    /\ job' = [job EXCEPT !.op = "restore", !.todo = Tracked(job.id)]
    /\ UNCHANGED <<disk, unusable, snapshots, shadow, recorded, edits, origin>>

\* writeFileContent truncates the file and does not look at the outcome of the
\* write: when the disk is full the file is left empty and TRUE is returned.
WriteFile(p, c) ==
    IF p \in unusable
    THEN {[written |-> FALSE, now |-> disk[p]]}
    ELSE {[written |-> TRUE, now |-> c], [written |-> TRUE, now |-> <<>>]}

\* std::filesystem::remove(full_path, ec), with ec ignored
RemoveFile(p) == IF p \in unusable THEN disk[p] ELSE Absent

\* Step 2 restores a tracked file, or removes it if it did not exist then.
Restore(p) ==
    /\ job.op = "restore"
    /\ p \in job.todo
    /\ LET file == snapshots[job.id][p]
       IN  IF file.existed
           THEN \E w \in WriteFile(p, file.content) :
                   /\ disk' = [disk EXCEPT ![p] = w.now]
                   /\ job' = [job EXCEPT !.todo = @ \ {p},
                                         !.success = @ /\ w.written,
                                         !.swallowed =
                                            IF w.written /\ w.now # file.content
                                            THEN @ \cup {p} ELSE @]
           ELSE /\ disk' = [disk EXCEPT ![p] = RemoveFile(p)]
                /\ job' = [job EXCEPT !.todo = @ \ {p},
                                      !.swallowed = IF RemoveFile(p) # Absent
                                                    THEN @ \cup {p} ELSE @]
    /\ UNCHANGED <<unusable, snapshots, shadow, recorded, edits, origin>>

FinishRollback ==
    /\ job.op = "restore"
    /\ job.todo = {}
    /\ job' = Idle
    /\ UNCHANGED <<disk, unusable, snapshots, shadow, recorded, edits, origin>>

\* rollbackFile: one file, of a snapshot that tracks it
RollbackFile(id, p) ==
    /\ job = Idle
    /\ id \in DOMAIN snapshots
    /\ p \in Tracked(id)
    /\ IF snapshots[id][p].existed
       THEN \E w \in WriteFile(p, snapshots[id][p].content) :
               disk' = [disk EXCEPT ![p] = w.now]
       ELSE disk' = [disk EXCEPT ![p] = RemoveFile(p)]
    /\ UNCHANGED <<unusable, snapshots, shadow, job, recorded, edits, origin>>

----------------------------------------------------------------------------
(* generateDiffFromSnapshot and generateDiffBetweenSnapshots: the set of   *)
(* file diffs; a path whose two texts split alike has none.                *)

FileDiffs(paths, before, after) ==
    {d \in {[path |-> p, hunks |-> ComputeDiffBetweenContents(before[p], after[p])] : p \in paths} :
        d.hunks # <<>>}

Recorded(files) == [p \in Path |-> IF p \in DOMAIN files THEN files[p].content ELSE <<>>]

\* A file that is missing or cannot be opened reads as empty.
OnDisk == [p \in Path |-> IF disk[p] = Absent \/ p \in unusable THEN <<>> ELSE disk[p]]

DiffFromSnapshot(id) ==
    FileDiffs(Tracked(id) \cup Scan, Recorded(snapshots[id]), OnDisk)

\* Mutant: files that only the newer snapshot tracks are left out.
DiffOfOlderFiles(old, new) ==
    FileDiffs(Tracked(old), Recorded(snapshots[old]), Recorded(snapshots[new]))

DiffBetweenSnapshots(old, new) ==
    FileDiffs(Tracked(old) \cup Tracked(new), Recorded(snapshots[old]), Recorded(snapshots[new]))

----------------------------------------------------------------------------
(* The rest of the interface, and the world around it                      *)

\* deleteSnapshot: also removes a shadow left by an earlier process
DeleteSnapshot(id) ==
    /\ job = Idle
    /\ snapshots' = Restrict(snapshots, DOMAIN snapshots \ {id})
    /\ shadow' = shadow \ {id}
    /\ UNCHANGED <<disk, unusable, job, recorded, edits, origin>>

ClearSnapshots ==
    /\ job = Idle
    /\ snapshots' = <<>>
    /\ shadow' = {}
    /\ UNCHANGED <<disk, unusable, job, recorded, edits, origin>>

\* The process dies and a new manager starts, in the middle of anything.
Restart ==
    /\ snapshots' = <<>>
    /\ job' = Idle
    /\ recorded' = <<>>
    /\ UNCHANGED <<disk, unusable, shadow, edits, origin>>

\* Somebody else writes, creates or deletes a file.
Edit(p, c) ==
    /\ edits < MaxEdits
    /\ p \notin unusable
    /\ disk[p] # c
    /\ disk' = [disk EXCEPT ![p] = c]
    /\ edits' = edits + 1
    /\ job' = IF job = Idle THEN job ELSE [job EXCEPT !.touched = @ \cup {p}]
    /\ UNCHANGED <<unusable, snapshots, shadow, recorded, origin>>

\* Permissions, or another process's hold on the file, change.
ToggleUsable(p) ==
    /\ edits < MaxEdits
    /\ edits' = edits + 1
    /\ unusable' = (unusable \ {p}) \cup ({p} \ unusable)
    /\ UNCHANGED <<disk, snapshots, shadow, job, recorded, origin>>

Manager ==
    \/ \E id \in Id, files \in SUBSET Path : BeginCreate(id, files)
    \/ \E p \in Path : Probe(p)
    \/ Read
    \/ FinishCreate
    \/ \E id \in Id : BeginRollback(id)
    \/ \E p \in Path : Sweep(p)
    \/ EndSweep
    \/ \E p \in Path : Restore(p)
    \/ FinishRollback
    \/ \E id \in Id, p \in Path : RollbackFile(id, p)
    \/ \E id \in Id : DeleteSnapshot(id)
    \/ ClearSnapshots

World ==
    \/ Restart
    \/ \E p \in Path, c \in Text \cup {Absent} : Edit(p, c)
    \/ \E p \in Path : ToggleUsable(p)

Next == Manager \/ World

Spec == Init /\ [][Next]_vars

----------------------------------------------------------------------------
(* Properties                                                              *)

\* A rollback that reported success while nobody else wrote, and of whose
\* failures the code missed none.
CleanRollback ==
    /\ job.op = "restore"
    /\ job'.op = "none"
    /\ job.todo = {}
    /\ job.success
    /\ job.touched = {}
    /\ job.swallowed = {}
    /\ job.id \in DOMAIN snapshots'

\* rollbackSnapshot undoes: a clean rollback to a snapshot taken undisturbed
\* brings back every tracked file as it was on the disk at that time, existing
\* or not, and leaves no visible file that did not exist then.
RollbackUndoes ==
    [][\A id \in DOMAIN origin :
          CleanRollback /\ job.id = id =>
              \A p \in Path : p \in Tracked(id) \/ (p \in Visible /\ origin[id][p] = Absent)
                              => disk[p] = origin[id][p]]_vars

\* generateDiffFromSnapshot against the snapshot just rolled back to is empty,
\* whatever was tracked and whatever happened since it was taken.
RollbackLeavesNoDiff ==
    [][CleanRollback /\ unusable = {} =>
          DiffFromSnapshot(job.id) = {}]_vars

\* The two diff operations agree: after a clean rollback to one snapshot, the
\* diff of the disk from another is the diff between the two.
DiffsAgree ==
    [][CleanRollback /\ unusable = {} =>
          \A id \in DOMAIN snapshots :
              Tracked(id) \cup Tracked(job.id) \subseteq Visible =>
                  DiffFromSnapshot(id) = DiffBetweenSnapshots(id, job.id)]_vars

\* The manager writes or deletes a file of the hidden directories only to
\* restore it from a snapshot that tracks it explicitly.
HiddenIsSpared ==
    [][\A p \in Hidden :
          disk'[p] # disk[p] /\ edits' = edits =>
              \E id \in DOMAIN snapshots : p \in Tracked(id)]_vars
=============================================================================
