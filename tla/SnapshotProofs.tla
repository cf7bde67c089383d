-------------------------- MODULE SnapshotProofs ---------------------------
(***************************************************************************)
(* Theorems about module Snapshots, for any files, texts and identifiers.  *)
(*                                                                         *)
(* The argument follows a file through one operation: what a create that   *)
(* nobody disturbed has recorded is what is on the disk; a sweep leaves    *)
(* untracked visible files only where it has still to come; a restore has  *)
(* brought back every tracked file it has passed.                          *)
(***************************************************************************)
EXTENDS Snapshots, TLAPS

----------------------------------------------------------------------------
(* The inductive invariant                                                 *)

\* What a snapshot keeps of a file, and what a rollback makes of it.
Rec(c) == IF c = Absent THEN Missing ELSE Existing(c)
Back(file) == IF file.existed THEN file.content ELSE Absent

Undisturbed == job.touched = {} /\ job.swallowed = {}

\* A snapshot whose creation nobody disturbed records the disk of that time.
FaithfulInv ==
    \A id \in DOMAIN snapshots : id \in DOMAIN origin =>
        \A p \in Tracked(id) : snapshots[id][p] = Rec(origin[id][p])

CreateInv ==
    job.op = "create" /\ Undisturbed =>
        \A p \in DOMAIN recorded : recorded[p] = Rec(disk[p])

TodoInv ==
    /\ job.op = "sweep" => job.todo \subseteq Visible \ Tracked(job.id)
    /\ job.op = "restore" => job.todo \subseteq Tracked(job.id)

SweepInv ==
    job.op \in {"sweep", "restore"} /\ job.touched = {} /\ job.success =>
        \A p \in Visible \ Tracked(job.id) :
            disk[p] # Absent => job.op = "sweep" /\ p \in job.todo

RestoreInv ==
    job.op = "restore" /\ Undisturbed /\ job.success =>
        \A p \in Tracked(job.id) \ job.todo : disk[p] = Back(snapshots[job.id][p])

Inv ==
    /\ TypeOK
    /\ FaithfulInv
    /\ CreateInv
    /\ TodoInv
    /\ SweepInv
    /\ RestoreInv

----------------------------------------------------------------------------
(* Every step keeps the invariant                                          *)

\* The invariant holds when the manager is constructed.
LEMMA InitInv == Init => Inv
  BY SnapshotsAssumption
  DEF Init, Inv, TypeOK, FaithfulInv, CreateInv, TodoInv, SweepInv, RestoreInv,
      Idle, Starting, Job, IsPartial

\* The steps of createSnapshot keep it.
LEMMA BeginCreateInv ==
    ASSUME Inv, NEW id \in Id, NEW files \in SUBSET Path, BeginCreate(id, files)
    PROVE  Inv'
  <1> USE SnapshotsAssumption DEF Inv, BeginCreate
  <1>1. job' \in Job /\ job'.op = "create" /\ job'.id = id
    BY DEF Starting, Job, Scan, Visible
  <1>2. UNCHANGED <<disk, unusable, snapshots, shadow, edits, origin>>
    OBVIOUS
  <1>3. recorded' = <<>> /\ DOMAIN recorded' = {}
    OBVIOUS
  <1>4. TypeOK'
    BY <1>1, <1>2, <1>3 DEF TypeOK, IsPartial
  <1>5. FaithfulInv' /\ TodoInv' /\ SweepInv' /\ RestoreInv'
    BY <1>1, <1>2 DEF FaithfulInv, TodoInv, SweepInv, RestoreInv, Tracked
  <1>6. CreateInv'
    BY <1>3 DEF CreateInv
  <1> QED
    BY <1>4, <1>5, <1>6

LEMMA ProbeInv ==
    ASSUME Inv, NEW p \in Path, Probe(p)
    PROVE  Inv'
  <1> USE SnapshotsAssumption DEF Inv, Probe
  <1>1. UNCHANGED <<disk, unusable, snapshots, shadow, edits, origin>>
    OBVIOUS
  <1>2. /\ job \in Job /\ job' \in Job
        /\ job.op = "create" /\ job'.op = "create" /\ job'.id = job.id
        /\ job'.touched = job.touched /\ job'.swallowed = job.swallowed
    BY DEF TypeOK, Job
  <1>3. \/ recorded' = recorded
        \/ disk[p] = Absent /\ recorded' = Assign(recorded, p, Missing)
    OBVIOUS
  <1>4. IsPartial(recorded, Path, FileSnapshot)' /\ CreateInv'
    <2>1. CASE recorded' = recorded
      BY <2>1, <1>1, <1>2 DEF TypeOK, IsPartial, CreateInv, Undisturbed
    <2>2. CASE disk[p] = Absent /\ recorded' = Assign(recorded, p, Missing)
      <3>1. Missing \in FileSnapshot
        BY DEF Missing, FileSnapshot
      <3>2. IsPartial(recorded, Path, FileSnapshot)'
        BY <2>2, <3>1 DEF TypeOK, IsPartial, Assign
      <3>3. CreateInv'
        BY <2>2, <1>1, <1>2 DEF Assign, CreateInv, Undisturbed, Rec
      <3> QED
        BY <3>2, <3>3
    <2> QED
      BY <1>3, <2>1, <2>2
  <1>5. TypeOK'
    BY <1>1, <1>2, <1>4 DEF TypeOK, Job
  <1>6. FaithfulInv' /\ TodoInv' /\ SweepInv' /\ RestoreInv'
    BY <1>1, <1>2 DEF FaithfulInv, TodoInv, SweepInv, RestoreInv, Tracked
  <1> QED
    BY <1>4, <1>5, <1>6

LEMMA ReadInv ==
    ASSUME Inv, Read
    PROVE  Inv'
  <1> USE SnapshotsAssumption DEF Inv
  <1> DEFINE p == job.at
             opened == disk[p] # Absent /\ p \notin unusable
             text == IF opened THEN disk[p] ELSE <<>>
  <1>1. UNCHANGED <<disk, unusable, snapshots, shadow, edits, origin>>
    BY DEF Read
  <1>2. /\ job \in Job /\ job' \in Job /\ p \in Path
        /\ job.op = "create" /\ job'.op = "create" /\ job'.id = job.id
        /\ job'.touched = job.touched
        /\ job'.swallowed = IF opened THEN job.swallowed ELSE job.swallowed \cup {p}
    BY DEF TypeOK, Job, Read
  <1>3. recorded' = Assign(recorded, p, Existing(text)) /\ text \in Text
    BY <1>2 DEF Read, TypeOK
  <1>4. job'.swallowed = {} => text = disk[p] /\ disk[p] # Absent /\ job.swallowed = {}
    BY <1>2
  <1> HIDE DEF text, opened, p
  <1>5. IsPartial(recorded, Path, FileSnapshot)' /\ CreateInv'
    BY <1>1, <1>2, <1>3, <1>4
    DEF TypeOK, IsPartial, Assign, Existing, FileSnapshot, Missing, Existing, CreateInv, Undisturbed, Rec
  <1>6. TypeOK'
    BY <1>1, <1>2, <1>5 DEF TypeOK, Job
  <1>7. FaithfulInv' /\ TodoInv' /\ SweepInv' /\ RestoreInv'
    BY <1>1, <1>2 DEF FaithfulInv, TodoInv, SweepInv, RestoreInv, Tracked
  <1> QED
    BY <1>5, <1>6, <1>7

LEMMA FinishCreateInv ==
    ASSUME Inv, FinishCreate
    PROVE  Inv'
  <1> USE SnapshotsAssumption DEF Inv
  <1>1. /\ UNCHANGED <<disk, unusable, edits>>
        /\ snapshots' = Assign(snapshots, job.id, recorded)
        /\ shadow' = shadow \cup {job.id}
        /\ recorded' = <<>> /\ DOMAIN recorded' = {}
        /\ job.op = "create" /\ job.id \in Id
    BY DEF FinishCreate, TypeOK
  <1>2. job' \in Job /\ job'.op = "none"
    BY DEF FinishCreate, Idle, Starting, Job
  <1>3. \/ Undisturbed /\ origin' = Assign(origin, job.id, disk)
        \/ origin' = [id \in DOMAIN origin \ {job.id} |-> origin[id]]
    BY DEF FinishCreate, Undisturbed, Restrict
  <1>4. TypeOK'
    BY <1>1, <1>2, <1>3 DEF TypeOK, IsPartial, Assign
  <1>5. FaithfulInv'
    BY <1>1, <1>3 DEF FaithfulInv, Tracked, Assign, CreateInv
  <1>6. CreateInv' /\ TodoInv' /\ SweepInv' /\ RestoreInv'
    BY <1>2 DEF CreateInv, TodoInv, SweepInv, RestoreInv
  <1> QED
    BY <1>4, <1>5, <1>6

\* The steps of rollbackSnapshot keep it.
LEMMA BeginRollbackInv ==
    ASSUME Inv, NEW id \in Id, BeginRollback(id)
    PROVE  Inv'
  <1> USE SnapshotsAssumption DEF Inv
  <1>1. UNCHANGED <<disk, unusable, snapshots, shadow, recorded, edits, origin>>
    BY DEF BeginRollback
  <1>2. /\ id \in DOMAIN snapshots
        /\ job' \in Job /\ job'.op = "sweep" /\ job'.id = id
        /\ job'.todo = Scan \ Tracked(id)
    BY DEF BeginRollback, Starting, Job, Scan, Visible
  <1>3. TypeOK'
    BY <1>1, <1>2 DEF TypeOK
  <1>4. FaithfulInv' /\ CreateInv' /\ RestoreInv'
    BY <1>1, <1>2 DEF FaithfulInv, CreateInv, RestoreInv, Tracked
  <1>5. TodoInv' /\ SweepInv'
    BY <1>1, <1>2 DEF TodoInv, SweepInv, Tracked, Scan
  <1> QED
    BY <1>3, <1>4, <1>5

LEMMA SweepStepInv ==
    ASSUME Inv, NEW p \in Path, Sweep(p)
    PROVE  Inv'
  <1> USE SnapshotsAssumption DEF Inv
  <1>1. UNCHANGED <<unusable, snapshots, shadow, recorded, edits, origin>>
    BY DEF Sweep
  <1>2. /\ job \in Job /\ job' \in Job /\ p \in job.todo
        /\ job.op = "sweep" /\ job'.op = "sweep" /\ job'.id = job.id
        /\ job'.todo = job.todo \ {p} /\ job'.touched = job.touched
    <2>1. job \in Job /\ job.op = "sweep" /\ p \in job.todo
      BY DEF Sweep, TypeOK
    <2>2. \/ job' = [job EXCEPT !.todo = @ \ {p}, !.success = FALSE]
          \/ job' = [job EXCEPT !.todo = @ \ {p}]
      BY DEF Sweep
    <2> QED
      BY <2>1, <2>2 DEF Job
  <1>3. \/ ~job'.success /\ disk' = disk
        \/ job'.success = job.success /\ disk' = [disk EXCEPT ![p] = Absent]
    <2>1. CASE p \in unusable /\ disk[p] # Absent
      BY <2>1, <1>2 DEF Sweep, Job
    <2>2. CASE ~(p \in unusable /\ disk[p] # Absent)
      <3>1. job' = [job EXCEPT !.todo = @ \ {p}] /\ disk' = [disk EXCEPT ![p] = Absent]
        BY <2>2 DEF Sweep
      <3> QED
        BY <3>1, <1>2 DEF Job
    <2> QED
      BY <2>1, <2>2
  <1>4. TypeOK'
    BY <1>1, <1>2, <1>3 DEF TypeOK
  <1>5. FaithfulInv' /\ CreateInv' /\ RestoreInv' /\ TodoInv'
    BY <1>1, <1>2 DEF FaithfulInv, CreateInv, RestoreInv, TodoInv, Tracked
  <1>6. SweepInv'
    BY <1>1, <1>2, <1>3 DEF SweepInv, Tracked, TypeOK, Visible
  <1> QED
    BY <1>4, <1>5, <1>6

LEMMA EndSweepInv ==
    ASSUME Inv, EndSweep
    PROVE  Inv'
  <1> USE SnapshotsAssumption DEF Inv
  <1>1. UNCHANGED <<disk, unusable, snapshots, shadow, recorded, edits, origin>>
    BY DEF EndSweep
  <1>2. /\ job \in Job /\ job.op = "sweep" /\ job.todo = {}
        /\ job.id \in DOMAIN snapshots /\ Tracked(job.id) \subseteq Path
    BY DEF EndSweep, TypeOK, Tracked, IsPartial
  <1>3. /\ job' \in Job /\ job'.op = "restore" /\ job'.id = job.id
        /\ job'.todo = Tracked(job.id)
        /\ job'.touched = job.touched /\ job'.success = job.success
    BY <1>2 DEF EndSweep, Job
  <1>4. TypeOK'
    BY <1>1, <1>2, <1>3 DEF TypeOK
  <1>5. FaithfulInv' /\ CreateInv' /\ RestoreInv' /\ TodoInv' /\ SweepInv'
    BY <1>1, <1>2, <1>3
    DEF FaithfulInv, CreateInv, RestoreInv, TodoInv, SweepInv, Tracked
  <1> QED
    BY <1>4, <1>5

LEMMA RestoreStepInv ==
    ASSUME Inv, NEW p \in Path, Restore(p)
    PROVE  Inv'
  <1> USE SnapshotsAssumption DEF Inv
  <1> DEFINE file == snapshots[job.id][p]
  <1>1. UNCHANGED <<unusable, snapshots, shadow, recorded, edits, origin>>
    BY DEF Restore
  <1>2. /\ job \in Job /\ job.op = "restore" /\ p \in job.todo
        /\ job.id \in DOMAIN snapshots /\ p \in Tracked(job.id)
        /\ file \in FileSnapshot
    BY DEF Restore, TypeOK, TodoInv, Tracked, IsPartial
  <1>3. \E now \in Text \cup {Absent} : disk' = [disk EXCEPT ![p] = now]
    <2>1. CASE file.existed
      <3>1. PICK w \in WriteFile(p, file.content) : disk' = [disk EXCEPT ![p] = w.now]
        BY <2>1 DEF Restore
      <3>2. w.now \in Text \cup {Absent}
        BY <1>2 DEF WriteFile, TypeOK, FileSnapshot, Existing, Missing
      <3> QED
        BY <3>1, <3>2
    <2>2. CASE ~file.existed
      BY <2>2 DEF Restore, RemoveFile, TypeOK
    <2> QED
      BY <2>1, <2>2
  <1>4. /\ job' \in Job /\ job'.op = "restore" /\ job'.id = job.id
        /\ job'.todo = job.todo \ {p} /\ job'.touched = job.touched
        /\ job'.success => job.success
        /\ job'.swallowed = {} => job.swallowed = {}
    <2>1. CASE file.existed
      <3>1. PICK w \in WriteFile(p, file.content) :
                job' = [job EXCEPT !.todo = @ \ {p},
                                   !.success = @ /\ w.written,
                                   !.swallowed = IF w.written /\ w.now # file.content
                                                 THEN @ \cup {p} ELSE @]
        BY <2>1 DEF Restore
      <3> QED
        BY <3>1, <1>2 DEF Job
    <2>2. CASE ~file.existed
      <3>1. job' = [job EXCEPT !.todo = @ \ {p},
                               !.swallowed = IF RemoveFile(p) # Absent
                                             THEN @ \cup {p} ELSE @]
        BY <2>2 DEF Restore
      <3> QED
        BY <3>1, <1>2 DEF Job
    <2> QED
      BY <2>1, <2>2
  <1>5. job'.success /\ job'.swallowed = {} => disk'[p] = Back(file)
    <2>1. CASE file.existed
      <3>1. PICK w \in WriteFile(p, file.content) :
                /\ disk' = [disk EXCEPT ![p] = w.now]
                /\ job' = [job EXCEPT !.todo = @ \ {p},
                                      !.success = @ /\ w.written,
                                      !.swallowed = IF w.written /\ w.now # file.content
                                                    THEN @ \cup {p} ELSE @]
        BY <2>1 DEF Restore
      <3>2. CASE w.written /\ w.now # file.content
        BY <3>1, <3>2, <1>2 DEF Job
      <3>3. CASE ~w.written
        BY <3>1, <3>3, <1>2 DEF Job
      <3>4. CASE w.now = file.content
        BY <3>1, <3>4, <2>1 DEF Back, TypeOK
      <3> QED
        BY <3>2, <3>3, <3>4
    <2>2. CASE ~file.existed
      <3>1. CASE RemoveFile(p) # Absent
        <4>1. job' = [job EXCEPT !.todo = @ \ {p}, !.swallowed = @ \cup {p}]
          BY <3>1, <2>2 DEF Restore
        <4> QED
          BY <4>1, <1>2 DEF Job
      <3>2. CASE RemoveFile(p) = Absent
        BY <3>2, <2>2 DEF Restore, Back, TypeOK
      <3> QED
        BY <3>1, <3>2
    <2> QED
      BY <2>1, <2>2
  <1> HIDE DEF file
  <1>6. TypeOK'
    BY <1>1, <1>2, <1>3, <1>4 DEF TypeOK
  <1>7. FaithfulInv' /\ CreateInv' /\ TodoInv'
    BY <1>1, <1>2, <1>4 DEF FaithfulInv, CreateInv, TodoInv, Tracked
  <1>8. SweepInv'
    BY <1>1, <1>2, <1>3, <1>4 DEF SweepInv, Tracked, TypeOK, Visible
  <1>9. RestoreInv'
    <2> SUFFICES ASSUME Undisturbed', job'.success, NEW q \in Tracked(job.id) \ (job.todo \ {p})
                 PROVE  disk'[q] = Back(snapshots[job.id][q])
      BY <1>1, <1>4 DEF RestoreInv, Tracked
    <2>1. CASE q = p
      BY <2>1, <1>4, <1>5 DEF Undisturbed, file
    <2>2. CASE q # p
      BY <2>2, <1>2, <1>3, <1>4 DEF RestoreInv, Undisturbed, TypeOK
    <2> QED
      BY <2>1, <2>2
  <1> QED
    BY <1>6, <1>7, <1>8, <1>9

\* The remaining operations, and the world around the manager.
LEMMA FinishRollbackInv ==
    ASSUME Inv, FinishRollback
    PROVE  Inv'
  <1>1. UNCHANGED <<disk, unusable, snapshots, shadow, recorded, edits, origin>>
    BY DEF FinishRollback
  <1>2. job' \in Job /\ job'.op = "none"
    BY DEF FinishRollback, Idle, Starting, Job
  <1> QED
    BY <1>1, <1>2 DEF Inv, TypeOK, FaithfulInv, CreateInv, TodoInv, SweepInv, RestoreInv,
                      Tracked

LEMMA RollbackFileInv ==
    ASSUME Inv, NEW id \in Id, NEW p \in Path, RollbackFile(id, p)
    PROVE  Inv'
  <1> USE SnapshotsAssumption DEF Inv
  <1> DEFINE file == snapshots[id][p]
  <1>1. /\ UNCHANGED <<unusable, snapshots, shadow, job, recorded, edits, origin>>
        /\ job.op = "none" /\ file \in FileSnapshot
    BY DEF RollbackFile, Idle, Starting, TypeOK, Tracked, IsPartial
  <1>2. \E now \in Text \cup {Absent} : disk' = [disk EXCEPT ![p] = now]
    <2>1. CASE file.existed
      <3>1. PICK w \in WriteFile(p, file.content) : disk' = [disk EXCEPT ![p] = w.now]
        BY <2>1 DEF RollbackFile
      <3>2. w.now \in Text \cup {Absent}
        BY <1>1 DEF WriteFile, TypeOK, FileSnapshot, Existing, Missing
      <3> QED
        BY <3>1, <3>2
    <2>2. CASE ~file.existed
      BY <2>2 DEF RollbackFile, RemoveFile, TypeOK
    <2> QED
      BY <2>1, <2>2
  <1> QED
    BY <1>1, <1>2 DEF TypeOK, FaithfulInv, CreateInv, TodoInv, SweepInv, RestoreInv, Tracked

LEMMA ForgetInv ==
    ASSUME Inv, (\E id \in Id : DeleteSnapshot(id)) \/ ClearSnapshots \/ Restart
    PROVE  Inv'
  <1> USE SnapshotsAssumption DEF Inv
  <1>1. job = Idle => job.op = "none"
    BY DEF Idle, Starting
  <1>2. Idle \in Job /\ Idle.op = "none"
    BY DEF Idle, Starting, Job
  <1>3. /\ UNCHANGED <<disk, unusable, edits, origin>> /\ shadow' \subseteq Id
        /\ job' \in Job /\ job'.op = "none"
        /\ IsPartial(recorded, Path, FileSnapshot)'
        /\ DOMAIN snapshots' \subseteq DOMAIN snapshots
        /\ \A id \in DOMAIN snapshots' : snapshots'[id] = snapshots[id]
    <2>1. ASSUME NEW id \in Id, DeleteSnapshot(id)
          PROVE  <1>3
      BY <2>1, <1>1 DEF DeleteSnapshot, TypeOK, IsPartial, Restrict
    <2>2. CASE ClearSnapshots
      <3>1. snapshots' = <<>> /\ DOMAIN snapshots' = {}
        BY <2>2 DEF ClearSnapshots
      <3> QED
        BY <2>2, <3>1, <1>1 DEF ClearSnapshots, TypeOK, IsPartial
    <2>3. CASE Restart
      <3>1. /\ snapshots' = <<>> /\ DOMAIN snapshots' = {}
            /\ recorded' = <<>> /\ DOMAIN recorded' = {}
        BY <2>3 DEF Restart
      <3> QED
        BY <2>3, <3>1, <1>2 DEF Restart, TypeOK, IsPartial
    <2> QED
      BY <2>1, <2>2, <2>3
  <1>4. TypeOK'
    BY <1>3 DEF TypeOK
  <1> QED
    BY <1>3, <1>4
    DEF FaithfulInv, CreateInv, TodoInv, SweepInv, RestoreInv, Tracked

LEMMA EditInv ==
    ASSUME Inv, NEW p \in Path, NEW c \in Text \cup {Absent}, Edit(p, c)
    PROVE  Inv'
  <1> USE SnapshotsAssumption DEF Inv
  <1>1. /\ UNCHANGED <<unusable, snapshots, shadow, recorded, origin>>
        /\ disk' = [disk EXCEPT ![p] = c]
        /\ edits' = edits + 1 /\ edits < MaxEdits
    BY DEF Edit
  <1>2. /\ job' \in Job /\ job'.op = job.op /\ job'.id = job.id /\ job'.todo = job.todo
        /\ job.op # "none" => job'.touched # {}
    <2>1. CASE job = Idle
      BY <2>1 DEF Edit, TypeOK, Idle, Starting
    <2>2. CASE job # Idle
      <3>1. job' = [job EXCEPT !.touched = @ \cup {p}]
        BY <2>2 DEF Edit
      <3> QED
        BY <3>1 DEF TypeOK, Job
    <2> QED
      BY <2>1, <2>2
  <1>3. TypeOK'
    BY <1>1, <1>2 DEF TypeOK
  <1> QED
    BY <1>1, <1>2, <1>3
    DEF FaithfulInv, CreateInv, TodoInv, SweepInv, RestoreInv, Tracked, Undisturbed

LEMMA ToggleInv ==
    ASSUME Inv, NEW p \in Path, ToggleUsable(p)
    PROVE  Inv'
  BY SnapshotsAssumption
  DEF ToggleUsable, Inv, TypeOK, FaithfulInv, CreateInv, TodoInv, SweepInv, RestoreInv,
      Tracked, Undisturbed

LEMMA StutterInv == Inv /\ UNCHANGED vars => Inv'
  BY DEF vars, Inv, TypeOK, FaithfulInv, CreateInv, TodoInv, SweepInv, RestoreInv,
         Tracked, Undisturbed

LEMMA NextInv == Inv /\ [Next]_vars => Inv'
  BY BeginCreateInv, ProbeInv, ReadInv, FinishCreateInv, BeginRollbackInv, SweepStepInv,
     EndSweepInv, RestoreStepInv, FinishRollbackInv, RollbackFileInv, ForgetInv, EditInv,
     ToggleInv, StutterInv
  DEF Next, Manager, World

----------------------------------------------------------------------------
(* The theorems                                                            *)

\* The inductive invariant of SnapshotManager holds of every behaviour.
THEOREM InvariantHolds == Spec => []Inv
  BY InitInv, NextInv, PTL DEF Spec

\* Every variable keeps its type.
THEOREM TypeCorrect == Spec => []TypeOK
  <1>1. Inv => TypeOK
    BY DEF Inv
  <1> QED
    BY <1>1, InvariantHolds, PTL

\* rollbackSnapshot undoes, whatever the files and however many snapshots.
THEOREM RollbackUndoesHolds == Spec => RollbackUndoes
  <1>1. ASSUME Inv
        PROVE  \A id \in DOMAIN origin :
                  CleanRollback /\ job.id = id =>
                      \A p \in Path :
                          p \in Tracked(id) \/ (p \in Visible /\ origin[id][p] = Absent)
                              => disk[p] = origin[id][p]
    <2> SUFFICES ASSUME NEW id \in DOMAIN origin, CleanRollback, job.id = id, NEW p \in Path,
                        p \in Tracked(id) \/ (p \in Visible /\ origin[id][p] = Absent)
                 PROVE  disk[p] = origin[id][p]
      OBVIOUS
    <2>1. /\ job.op = "restore" /\ job.todo = {} /\ job.success
          /\ Undisturbed /\ id \in DOMAIN snapshots
      BY <1>1 DEF CleanRollback, Undisturbed, Inv, TypeOK
    <2>2. CASE p \in Tracked(id)
      <3>1. disk[p] = Back(snapshots[id][p])
        BY <1>1, <2>1, <2>2 DEF Inv, RestoreInv
      <3>2. snapshots[id][p] = Rec(origin[id][p])
        BY <1>1, <2>1, <2>2 DEF Inv, FaithfulInv
      <3> QED
        BY <3>1, <3>2 DEF Back, Rec, Existing, Missing
    <2>3. CASE p \notin Tracked(id)
      BY <1>1, <2>1, <2>3 DEF Inv, SweepInv, Undisturbed
    <2> QED
      BY <2>2, <2>3
  <1> QED
    BY <1>1, InvariantHolds, PTL DEF RollbackUndoes

\* A file that existed is kept with a text, one that did not with the empty one.
LEMMA FileSnapshotFacts ==
    ASSUME NEW file \in FileSnapshot
    PROVE  /\ file.existed => file.content \in Text
           /\ ~file.existed => file.content = <<>>
  <1>1. CASE file = Missing
    BY <1>1 DEF Missing
  <1>2. ASSUME NEW c \in Text, file = Existing(c)
        PROVE  file.existed /\ file.content = c
    BY <1>2 DEF Existing
  <1> QED
    BY <1>1, <1>2 DEF FileSnapshot

\* A clean rollback leaves every visible or tracked file readable as recorded.
LEMMA CleanDisk ==
    ASSUME Inv, CleanRollback, unusable = {}
    PROVE  /\ job.id \in DOMAIN snapshots
           /\ Scan \subseteq Tracked(job.id)
           /\ \A p \in Tracked(job.id) \cup Visible :
                 Recorded(snapshots[job.id])[p] = OnDisk[p]
  <1>1. /\ job.op = "restore" /\ job.todo = {} /\ job.success
        /\ Undisturbed /\ job.id \in DOMAIN snapshots
    BY DEF CleanRollback, Undisturbed, Inv, TypeOK
  <1>2. \A p \in Visible \ Tracked(job.id) : disk[p] = Absent
    BY <1>1 DEF Inv, SweepInv, Undisturbed
  <1>3. ASSUME NEW p \in Tracked(job.id)
        PROVE  Recorded(snapshots[job.id])[p] = OnDisk[p]
    <2>0. p \in Path
      BY <1>1 DEF Inv, TypeOK, IsPartial, Tracked
    <2>1. disk[p] = Back(snapshots[job.id][p]) /\ snapshots[job.id][p] \in FileSnapshot
      BY <1>1 DEF Inv, RestoreInv, TypeOK, IsPartial, Tracked
    <2>2. Recorded(snapshots[job.id])[p] = snapshots[job.id][p].content
      BY <2>0 DEF Recorded, Tracked
    <2>3. CASE snapshots[job.id][p].existed
      <3>1. snapshots[job.id][p].content \in Text
        BY <2>1, <2>3, FileSnapshotFacts
      <3> QED
        BY <2>0, <2>1, <2>2, <2>3, <3>1, SnapshotsAssumption DEF OnDisk, Back
    <2>4. CASE ~snapshots[job.id][p].existed
      <3>1. snapshots[job.id][p].content = <<>>
        BY <2>1, <2>4, FileSnapshotFacts
      <3> QED
        BY <2>0, <2>1, <2>2, <2>4, <3>1 DEF OnDisk, Back
    <2> QED
      BY <2>3, <2>4
  <1>4. ASSUME NEW p \in Visible \ Tracked(job.id)
        PROVE  Recorded(snapshots[job.id])[p] = OnDisk[p]
    BY <1>2 DEF Recorded, OnDisk, Tracked, Visible
  <1> QED
    BY <1>1, <1>2, <1>3, <1>4 DEF Scan

\* After a clean rollback generateDiffFromSnapshot reports nothing.
THEOREM RollbackLeavesNoDiffHolds == Spec => RollbackLeavesNoDiff
  <1>1. ASSUME Inv, CleanRollback, unusable = {}
        PROVE  DiffFromSnapshot(job.id) = {}
    <2>1. \A p \in Tracked(job.id) \cup Scan : Recorded(snapshots[job.id])[p] = OnDisk[p]
      BY <1>1, CleanDisk
    <2> QED
      BY <2>1 DEF DiffFromSnapshot, FileDiffs, ComputeDiffBetweenContents
  <1> QED
    BY <1>1, InvariantHolds, PTL DEF RollbackLeavesNoDiff

\* The two diff operations agree after a clean rollback.
THEOREM DiffsAgreeHolds == Spec => DiffsAgree
  <1>1. ASSUME Inv, CleanRollback, unusable = {}, NEW id \in DOMAIN snapshots,
               Tracked(id) \cup Tracked(job.id) \subseteq Visible
        PROVE  DiffFromSnapshot(id) = DiffBetweenSnapshots(id, job.id)
    <2> DEFINE before(p) == Recorded(snapshots[id])[p]
               after(p) == Recorded(snapshots[job.id])[p]
               entry(p, text) ==
                   [path |-> p, hunks |-> ComputeDiffBetweenContents(before(p), text)]
               disk1 == Tracked(id) \cup Scan
               both == Tracked(id) \cup Tracked(job.id)
    <2>1. \A p \in both : OnDisk[p] = after(p)
      BY <1>1, CleanDisk
    <2>2. disk1 \subseteq both
      BY <1>1, CleanDisk
    <2>3. \A p \in both \ disk1 : before(p) = <<>> /\ OnDisk[p] = <<>>
      BY <1>1 DEF Recorded, OnDisk, Scan, Tracked, Visible
    <2>4. \A p \in both \ disk1 : entry(p, after(p)).hunks = <<>>
      BY <2>1, <2>3 DEF ComputeDiffBetweenContents
    <2>5. DiffFromSnapshot(id) = {d \in {entry(p, OnDisk[p]) : p \in disk1} : d.hunks # <<>>}
      BY DEF DiffFromSnapshot, FileDiffs
    <2>6. DiffBetweenSnapshots(id, job.id) =
              {d \in {entry(p, after(p)) : p \in both} : d.hunks # <<>>}
      BY DEF DiffBetweenSnapshots, FileDiffs
    <2>7. \A p \in both : entry(p, OnDisk[p]) = entry(p, after(p))
      BY <2>1
    <2> HIDE DEF before, after, entry, disk1, both
    <2>8. ASSUME NEW d \in DiffFromSnapshot(id)
          PROVE  d \in DiffBetweenSnapshots(id, job.id)
      BY <2>2, <2>5, <2>6, <2>7
    <2>9. ASSUME NEW d \in DiffBetweenSnapshots(id, job.id)
          PROVE  d \in DiffFromSnapshot(id)
      BY <2>4, <2>5, <2>6, <2>7
    <2> QED
      BY <2>8, <2>9
  <1>2. Inv => (CleanRollback /\ unusable = {} =>
                   \A id \in DOMAIN snapshots :
                       Tracked(id) \cup Tracked(job.id) \subseteq Visible =>
                           DiffFromSnapshot(id) = DiffBetweenSnapshots(id, job.id))
    BY <1>1
  <1> QED
    BY <1>2, InvariantHolds, PTL DEF DiffsAgree

\* The manager spares the hidden directories, whatever they hold.
THEOREM HiddenIsSparedHolds == Spec => HiddenIsSpared
  <1>1. ASSUME Inv, [Next]_vars, NEW p \in Hidden, disk'[p] # disk[p], edits' = edits
        PROVE  \E id \in DOMAIN snapshots : p \in Tracked(id)
    <2>1. \/ \E q \in Path : Sweep(q) \/ Restore(q)
          \/ \E id \in Id, q \in Path : RollbackFile(id, q)
          \/ \E q \in Path, c \in Text \cup {Absent} : Edit(q, c)
      BY <1>1 DEF Next, Manager, World, vars, BeginCreate, Probe, Read, FinishCreate,
                  BeginRollback, EndSweep, FinishRollback, DeleteSnapshot, ClearSnapshots,
                  Restart, ToggleUsable
    <2>2. ASSUME NEW q \in Path, Sweep(q)
          PROVE  FALSE
      <3>1. q \notin Hidden
        BY <1>1, <2>2 DEF Sweep, Inv, TodoInv, Visible
      <3> QED
        BY <1>1, <2>2, <3>1, SnapshotsAssumption DEF Sweep, Inv, TypeOK
    <2>3. ASSUME NEW q \in Path, Restore(q)
          PROVE  \E id \in DOMAIN snapshots : p \in Tracked(id)
      <3>1. q \in Tracked(job.id) /\ job.id \in DOMAIN snapshots
        BY <1>1, <2>3 DEF Restore, Inv, TodoInv, TypeOK
      <3>2. CASE q = p
        BY <3>1, <3>2
      <3>3. CASE q # p
        BY <1>1, <2>3, <3>3, SnapshotsAssumption DEF Restore, Inv, TypeOK
      <3> QED
        BY <3>2, <3>3
    <2>4. ASSUME NEW id \in Id, NEW q \in Path, RollbackFile(id, q)
          PROVE  \E i \in DOMAIN snapshots : p \in Tracked(i)
      <3>1. q \in Tracked(id) /\ id \in DOMAIN snapshots
        BY <2>4 DEF RollbackFile
      <3>2. CASE q = p
        BY <3>1, <3>2
      <3>3. CASE q # p
        BY <1>1, <2>4, <3>3, SnapshotsAssumption DEF RollbackFile, Inv, TypeOK
      <3> QED
        BY <3>2, <3>3
    <2>5. ASSUME NEW q \in Path, NEW c \in Text \cup {Absent}, Edit(q, c)
          PROVE  FALSE
      BY <1>1, <2>5, SnapshotsAssumption DEF Edit, Inv, TypeOK
    <2> QED
      BY <2>1, <2>2, <2>3, <2>4, <2>5
  <1>2. Inv /\ [Next]_vars =>
            [\A p \in Hidden : disk'[p] # disk[p] /\ edits' = edits =>
                 \E id \in DOMAIN snapshots : p \in Tracked(id)]_vars
    BY <1>1
  <1> QED
    BY <1>2, InvariantHolds, PTL DEF Spec, HiddenIsSpared
=============================================================================
