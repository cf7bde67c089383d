----------------------------- MODULE Sandboxes -----------------------------
(***************************************************************************)
(* workspace/WorkspaceManager: one worktree with a branch of its own per   *)
(* task, commits in it as checkpoints, and the way back to the base        *)
(* branch.  Only the edits that a commit, an index or a tree holds matter; *)
(* what git answers is modelled from version 2.39.  Every result of a git  *)
(* command that the code drops is one of the choices here.                 *)
(***************************************************************************)
EXTENDS Naturals, FiniteSets, Sequences, SequencesExt, FiniteSetsExt, Maps

CONSTANTS
    Task,           \* task ids, and the worktree paths made of them
    Change,         \* edits that agents make
    TrackedChange,  \* those of tracked files; the others create files
    MaxCommits,     \* bound: commits of a sandbox
    MaxRecords,     \* bound: createSandbox calls of a process
    MaxLives        \* bound: sandboxes created

VARIABLES
    base,           \* the branch checked out in the repository: [has, state]
    box,            \* task -> its worktree
    records,        \* sandboxes_
    born,           \* sandboxes created so far; number n is the n-th's
    told            \* history: edits an apply has reported as applied

sandboxVars == <<base, box, records, born, told>>

sandboxInit ==
    /\ base = [has |-> {}, state |-> "clean"]
    /\ box = <<>> /\ records = <<>>
    /\ born = 0 /\ told = {}

\* A worktree: what it was branched from, its commits, and what is not committed.
NewBox == [life |-> born + 1, commits |-> <<>>, staged |-> {}, unstaged |-> {}]
Committed(b) == UNION ToSet(b.commits)
RecordOf(t, b) == [task |-> t, life |-> b.life, commits |-> b.commits]

\* createSandbox.  Where a worktree stands already git refuses, and the code
\* takes it for the one it has made.
CreateSandbox(t) ==
    /\ Len(records) < MaxRecords
    /\ IF t \in DOMAIN box
       THEN records' = Append(records, RecordOf(t, box[t])) /\ UNCHANGED <<box, born>>
       ELSE /\ born < MaxLives
            /\ box' = Put(box, t, NewBox)
            /\ born' = born + 1
            /\ records' = Append(records, RecordOf(t, NewBox))
    /\ UNCHANGED <<base, told>>

\* The agent of the task edits, or adds what it has edited to the index.
AgentEdits(t, e) ==
    /\ t \in DOMAIN box /\ e \notin Committed(box[t]) \cup box[t].staged \cup box[t].unstaged
    /\ box' = [box EXCEPT ![t].unstaged = @ \cup {e}]
    /\ UNCHANGED <<base, records, born, told>>

AgentStages(t) ==
    /\ t \in DOMAIN box /\ box[t].unstaged # {}
    /\ box' = [box EXCEPT ![t].staged = @ \cup box[t].unstaged, ![t].unstaged = {}]
    /\ UNCHANGED <<base, records, born, told>>

\* add -A; commit --allow-empty, which a hook or a missing identity may stop.
Saved(b, ok) ==
    LET all == b.staged \cup b.unstaged
    IN  IF ok THEN [b EXCEPT !.commits = Append(@, all), !.staged = {}, !.unstaged = {}]
              ELSE [b EXCEPT !.staged = all, !.unstaged = {}]
CommitEnds(b, ok) == ok => Len(b.commits) < MaxCommits

\* checkpoint: the id it returns is recorded nowhere.
Checkpoint(t) ==
    /\ t \in DOMAIN box
    /\ \E ok \in BOOLEAN :
         /\ CommitEnds(box[t], ok)
         /\ box' = [box EXCEPT ![t] = Saved(@, ok)]
    /\ UNCHANGED <<base, records, born, told>>

\* rollback("") restores the tree from the index, and deletes new files.
RollbackClean(t) ==
    /\ t \in DOMAIN box
    /\ box' = [box EXCEPT ![t].unstaged = {}]
    /\ UNCHANGED <<base, records, born, told>>

\* rollback(id) to one of the records; new files are left.
RollbackTo(t) ==
    /\ t \in DOMAIN box
    /\ \E r \in ToSet(records) :
         /\ r.task = t
         /\ box' = [box EXCEPT ![t].commits = r.commits, ![t].staged = {},
                               ![t].unstaged = @ \ TrackedChange]
    /\ UNCHANGED <<base, records, born, told>>

\* applySandboxToBase commits what is left, cherry-picks the tip, and tries a
\* merge when that fails.  The merge fails as well: over unmerged files and
\* over a cherry-pick in progress, the first with the word "conflict" in its
\* message, the second, as over files that are in the way, without it.
ApplySandbox(t) ==
    /\ t \in DOMAIN box
    /\ \E ok \in BOOLEAN :
         /\ CommitEnds(box[t], ok)
         /\ LET b == Saved(box[t], ok)
                tip == IF b.commits = <<>> THEN {} ELSE Last(b.commits)
                Answer(yes) == told' = (IF yes THEN told \cup Committed(b) ELSE told)
            IN  /\ box' = [box EXCEPT ![t] = b]
                /\ \/ /\ base.state # "unmerged" /\ ~(tip \subseteq base.has)
                      /\ base' = [has |-> base.has \cup tip, state |-> "clean"]
                      /\ Answer(TRUE)
                   \/ /\ base.state # "unmerged" /\ tip \subseteq base.has
                      /\ base' = [base EXCEPT !.state = "picking"]
                      /\ Answer(TRUE)
                   \/ base.state # "unmerged" /\ UNCHANGED base /\ Answer(TRUE)
                   \/ base' = [base EXCEPT !.state = "unmerged"] /\ Answer(FALSE)
    /\ UNCHANGED <<records, born>>

\* Somebody ends the cherry-pick.
ConcludePick ==
    /\ base.state # "clean"
    /\ base' = [base EXCEPT !.state = "clean"]
    /\ UNCHANGED <<box, records, born, told>>

----------------------------------------------------------------------------
(* destroySandbox, the destructor, and the end without one                 *)

\* Mutant: the records stay.
DestroyUnrecorded(t) ==
    /\ t \in DOMAIN box
    /\ box' = Drop(box, {t})
    /\ UNCHANGED <<base, records, born, told>>

\* By git or, when git refuses, by hand; then the records of the path are
\* erased, and the others keep their order.
DestroySandbox(t) ==
    /\ t \in DOMAIN box
    /\ box' = Drop(box, {t})
    /\ LET rest == {i \in DOMAIN records : records[i].task # t}
       IN  \E place \in [1..Cardinality(rest) -> rest] :
             /\ \A i, j \in DOMAIN place : i < j => place[i] < place[j]
             /\ records' = [i \in DOMAIN place |-> records[place[i]]]
    /\ UNCHANGED <<base, born, told>>

\* The destructor walks the vector from which destroySandbox erases: the
\* first record's sandbox goes, and of the others those the walk meets.
ExitManager ==
    /\ \E ts \in SUBSET {records[i].task : i \in DOMAIN records} :
         /\ records # <<>> => records[1].task \in ts
         /\ box' = Drop(box, ts)
    /\ records' = <<>>
    /\ UNCHANGED <<base, born, told>>

CrashManager ==
    /\ records' = <<>>
    /\ UNCHANGED <<base, box, born, told>>

sandboxNext ==
    \/ \E t \in Task :
         \/ CreateSandbox(t) \/ AgentStages(t) \/ Checkpoint(t) \/ RollbackClean(t)
         \/ RollbackTo(t) \/ ApplySandbox(t) \/ DestroySandbox(t)
         \/ \E e \in Change : AgentEdits(t, e)
    \/ ConcludePick \/ ExitManager \/ CrashManager

sandboxSpec == sandboxInit /\ [][sandboxNext]_sandboxVars

----------------------------------------------------------------------------
\* A record is of the worktree that stands at its path now, not of one that
\* was destroyed there before: a rollback never brings back the commits of a
\* sandbox that has been given up, however often the task gets a new one.
RecordsAreOwn ==
    \A r \in ToSet(records) : r.task \in DOMAIN box /\ r.life = box[r.task].life

\* "Apply sandbox changes back to base branch": what an apply has reported as
\* applied is in the base branch.
AppliedIsWhole == told \subseteq base.has
=============================================================================
