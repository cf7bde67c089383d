---------------------------- MODULE GitWorktree ----------------------------
(***************************************************************************)
(* workspace/GitWorktree: worktrees of one repository, made and removed by *)
(* running git, with a map of what this process knows of them.  Each       *)
(* operation holds mutex_ throughout.                                      *)
(*                                                                         *)
(* A name stands for a worktree id, its branch, its path and the id that   *)
(* is read off that path: nothing in the repository passes a custom path,  *)
(* and none is modelled.  git itself is modelled from the answers of 2.39. *)
(***************************************************************************)
EXTENDS FiniteSets, Maps, PlainMutex

CONSTANTS
    Name,           \* ids, branches, paths
    Root            \* the main worktree: its path, and its directory's name

ASSUME WorktreeAssumption == Root \notin Name

VARIABLES
    registered,     \* git's list: path -> [branch, locked]
    dirs,           \* existing directories: path -> "clean" or "dirty"
    branches,       \* branches of the repository
    active,         \* active_worktrees_: id -> is_locked
    wtBlocked       \* a call waits for the mutex it holds

worktreeVars == <<registered, dirs, branches, active, wtBlocked, relock>>

worktreeInit ==
    /\ registered = [p \in {Root} |-> [branch |-> Root, locked |-> FALSE]]
    /\ dirs = [p \in {Root} |-> "clean"]
    /\ branches = {} /\ active = <<>> /\ wtBlocked = FALSE

----------------------------------------------------------------------------
(* git worktree add, remove, lock, unlock, prune                           *)

GitRuns == Root \in DOMAIN dirs /\ ~wtBlocked

\* A branch to attach exists and is checked out nowhere, and the path is not
\* that of a worktree that has vanished.
CanAttach(path, branch) ==
    /\ path \notin DOMAIN registered
    /\ branch \in branches
    /\ \A p \in DOMAIN registered : registered[p].branch # branch

CanRemove(reg, path, force) ==
    /\ path \in DOMAIN reg /\ path # Root /\ ~reg[path].locked
    /\ force \/ path \notin DOMAIN dirs \/ dirs[path] = "clean"

\* Registered worktrees that have vanished, and are not locked, go.
Pruned(reg) ==
    [p \in {q \in DOMAIN reg : q \in DOMAIN dirs \/ reg[q].locked} |-> reg[p]]

SetLock(reg, path, flag) == [reg EXCEPT ![path].locked = flag]
Lockable(path, flag) == path \in DOMAIN registered \ {Root} /\ registered[path].locked = ~flag

----------------------------------------------------------------------------
(* The operations                                                          *)

\* createWorktree: git makes a new branch, or attaches one, or detaches;
\* whatever fails is tried again as an attachment.  (A branch that was made
\* before the path was refused stays.)  The lock comes last.
CreateWorktree(id, branch, mode, lock) ==
    /\ GitRuns
    /\ id \notin DOMAIN dirs
    /\ LET made == mode = "new" /\ branch \notin branches
           ok == id \notin DOMAIN registered /\ (made \/ mode = "detach")
       IN  /\ branches' = (IF made THEN branches \cup {branch} ELSE branches)
           /\ IF ok \/ CanAttach(id, branch)
              THEN /\ registered' = Put(registered, id,
                          [branch |-> IF ok /\ mode = "detach" THEN "none" ELSE branch,
                           locked |-> lock])
                   /\ dirs' = Put(dirs, id, "clean")
                   /\ active' = Put(active, id, lock)
              ELSE UNCHANGED <<registered, dirs, active>>
    /\ UNCHANGED <<wtBlocked, relock>>

\* removeWorktree, by id or by path: a lock is looked up by id and in this
\* process' map only; a removal that git refuses is one by hand: the list is
\* pruned and then the directory removed, whatever the reason was.
RemoveWorktree(name, byId, force) ==
    /\ GitRuns
    /\ LET locked == byId /\ name \in DOMAIN active /\ active[name]
           reg == IF locked /\ Lockable(name, FALSE)
                  THEN SetLock(registered, name, FALSE) ELSE registered
       IN  /\ locked => force
           /\ registered' = (IF CanRemove(reg, name, force) THEN Drop(reg, {name}) ELSE Pruned(reg))
    /\ dirs' = Drop(dirs, {name})
    /\ active' = Drop(active, {name})
    /\ UNCHANGED <<branches, wtBlocked, relock>>

\* Mutant: an unlock that leaves the map alone.
SetLockOnly(name, flag) ==
    /\ GitRuns
    /\ Lockable(name, flag)
    /\ registered' = SetLock(registered, name, flag)
    /\ active' = (IF flag /\ name \in DOMAIN active THEN [active EXCEPT ![name] = TRUE] ELSE active)
    /\ UNCHANGED <<dirs, branches, wtBlocked, relock>>

\* lockWorktree and unlockWorktree: git first, then the map, in which the
\* worktree need not be.
SetWorktreeLock(name, flag) ==
    /\ GitRuns
    /\ Lockable(name, flag)
    /\ registered' = SetLock(registered, name, flag)
    /\ active' = (IF name \in DOMAIN active THEN [active EXCEPT ![name] = flag] ELSE active)
    /\ UNCHANGED <<dirs, branches, wtBlocked, relock>>

\* refreshActiveWorktreesUnlocked: the list is read into the map, under the
\* names of the paths, the main worktree included; nothing is erased.
Refreshed(reg) ==
    [k \in DOMAIN active \cup DOMAIN reg |->
        IF k \in DOMAIN reg THEN reg[k].locked ELSE active[k]]

PruneWorktrees ==
    /\ GitRuns
    /\ registered' = Pruned(registered)
    /\ active' = Refreshed(registered')
    /\ UNCHANGED <<dirs, branches, wtBlocked, relock>>

\* getWorktree of an id that the map does not hold calls listWorktrees, which
\* locks the mutex again.
GetWorktree(id) ==
    /\ GitRuns
    /\ id \notin DOMAIN active
    /\ wtBlocked' = SecondLockBlocks
    /\ UNCHANGED <<registered, dirs, branches, active, relock>>

----------------------------------------------------------------------------
(* Agents in their worktrees, and people                                   *)

TouchTree(path) ==
    /\ path \in DOMAIN dirs \ {Root}
    /\ dirs' = [dirs EXCEPT ![path] = IF @ = "clean" THEN "dirty" ELSE "clean"]
    /\ UNCHANGED <<registered, branches, active, wtBlocked, relock>>

DeleteByHand(path) ==
    /\ path \in DOMAIN dirs \ {Root}
    /\ dirs' = Drop(dirs, {path})
    /\ UNCHANGED <<registered, branches, active, wtBlocked, relock>>

\* A new process knows of no worktree.
RestartEngine ==
    /\ active' = <<>> /\ wtBlocked' = FALSE
    /\ UNCHANGED <<registered, dirs, branches, relock>>

worktreeNext ==
    \/ \E id, branch \in Name, mode \in {"new", "attach", "detach"}, lock \in BOOLEAN :
         CreateWorktree(id, branch, mode, lock)
    \/ \E n \in Name \cup {Root}, flag, byId \in BOOLEAN :
         RemoveWorktree(n, byId, flag) \/ SetWorktreeLock(n, flag)
    \/ \E n \in Name : GetWorktree(n) \/ TouchTree(n) \/ DeleteByHand(n)
    \/ PruneWorktrees \/ RestartEngine

worktreeSpec == worktreeInit /\ relockInit /\ [][worktreeNext]_worktreeVars

----------------------------------------------------------------------------
\* The map's word on a lock, by which removeWorktree refuses, is git's word
\* for every worktree that both know of, whatever was created over a stale
\* entry, removed by hand, by path or by id, pruned or read back.
LocksAgree ==
    \A k \in DOMAIN active \cap DOMAIN registered : active[k] = registered[k].locked
=============================================================================
