--------------------------- MODULE BranchSandbox ---------------------------
(***************************************************************************)
(* workspace/BranchSandbox: branches, commits, stashes and merges in one   *)
(* working tree, each operation one or more git commands under mutex_.     *)
(* A branch, a stash or the tree is the set of edits it holds; what git    *)
(* refuses or cannot merge is a choice, as git 2.39 makes it.              *)
(***************************************************************************)
EXTENDS Naturals, Sequences, SequencesExt, FiniteSetsExt, Maps

CONSTANTS
    Branch,         \* branches; Trunk exists from the start
    Trunk,
    Work,           \* edits
    MaxStashes      \* bound: entries of the stash

ASSUME BranchAssumption == Trunk \in Branch /\ MaxStashes \in Nat

VARIABLES
    tips,           \* branch -> edits it holds
    current,        \* the branch checked out
    staged,         \* edits of the index
    unstaged,       \* edits of the tree that are not in the index
    merging,        \* "no", or the operation that stopped in a conflict
    incoming,       \* edits that operation brings
    ahead,          \* edits committed on the detached head of a rebase
    since,          \* edits made or staged since the operation began
    stashes,        \* the stash, newest first
    done,           \* history: edits made
    givenUp         \* history: edits a caller has asked to discard

branchVars == <<tips, current, staged, unstaged, merging, incoming, ahead, since, stashes, done, givenUp>>

branchInit ==
    /\ tips = [b \in {Trunk} |-> {}] /\ current = Trunk
    /\ staged = {} /\ unstaged = {} /\ merging = "no" /\ incoming = {}
    /\ ahead = {} /\ since = {} /\ stashes = <<>>
    /\ done = {} /\ givenUp = {}

WriteWork(e) ==
    /\ e \notin done
    /\ done' = done \cup {e} /\ unstaged' = unstaged \cup {e}
    /\ since' = (IF merging = "no" THEN since ELSE since \cup {e})
    /\ UNCHANGED <<tips, current, staged, merging, incoming, ahead, stashes, givenUp>>

\* createEphemeralBranch: a branch that exists is the answer, checked out or
\* not; one that cannot be checked out is made all the same.
CreateEphemeralBranch(b, from) ==
    /\ b \notin DOMAIN tips /\ from \in DOMAIN tips
    /\ tips' = Put(tips, b, tips[from])
    /\ current' \in (IF merging = "no" THEN {b, current} ELSE {current})
    /\ UNCHANGED <<staged, unstaged, merging, incoming, ahead, since, stashes, done, givenUp>>

\* checkout carries uncommitted edits along, or refuses.
CheckoutBranch(b) ==
    /\ b \in DOMAIN tips /\ merging = "no"
    /\ current' = b
    /\ UNCHANGED <<tips, staged, unstaged, merging, incoming, ahead, since, stashes, done, givenUp>>

\* -D, or -d of a branch that is merged.
DeleteBranch(b, force) ==
    /\ b \in DOMAIN tips \ {current}
    /\ force \/ tips[b] \subseteq tips[current]
    /\ tips' = Drop(tips, {b})
    /\ givenUp' = (IF force THEN givenUp \cup tips[b] ELSE givenUp)
    /\ UNCHANGED <<current, staged, unstaged, merging, incoming, ahead, since, stashes, done>>

\* stageAndCommit of some files: a commit that a hook stops leaves the index.
\* add ends a conflict; the commit of a rebase is on no branch yet.
StageAndCommit(files, ok) ==
    /\ LET index == staged \cup (files \cap unstaged) \cup incoming
       IN  /\ index # {} \/ ~ok
           /\ unstaged' = unstaged \ files
           /\ staged' = (IF ok THEN {} ELSE index)
           /\ tips' = (IF ok /\ merging # "rebase"
                       THEN [tips EXCEPT ![current] = @ \cup index] ELSE tips)
           /\ since' = (IF merging = "no" \/ (ok /\ merging # "rebase") THEN {} ELSE since \cup index)
           /\ ahead' = (IF ok /\ merging = "rebase" THEN ahead \cup index ELSE ahead)
    /\ merging' = (IF ok /\ merging # "rebase" THEN "no" ELSE merging)
    /\ incoming' = {}
    /\ UNCHANGED <<current, stashes, done, givenUp>>

----------------------------------------------------------------------------
(* The stash                                                               *)

CreateStash(new) ==
    /\ merging = "no" /\ Len(stashes) < MaxStashes
    /\ new \subseteq unstaged     \* files git does not know yet, without -u
    /\ staged \cup (unstaged \ new) # {}
    /\ stashes' = <<staged \cup (unstaged \ new)>> \o stashes
    /\ staged' = {} /\ unstaged' = new
    /\ UNCHANGED <<tips, current, merging, incoming, ahead, since, done, givenUp>>

\* A pop that meets a conflict keeps the entry.
PopStash(i, clean) ==
    /\ i \in DOMAIN stashes /\ merging = "no"
    /\ unstaged' = unstaged \cup stashes[i]
    /\ stashes' = (IF clean THEN RemoveAt(stashes, i) ELSE stashes)
    /\ merging' = (IF clean THEN "no" ELSE "pop")
    /\ UNCHANGED <<tips, current, staged, incoming, ahead, since, done, givenUp>>

DropStash(i) ==
    /\ i \in DOMAIN stashes
    /\ stashes' = RemoveAt(stashes, i)
    /\ givenUp' = givenUp \cup stashes[i]
    /\ UNCHANGED <<tips, current, staged, unstaged, merging, incoming, ahead, since, done>>

----------------------------------------------------------------------------
(* merge, rebase, abortMerge                                               *)

\* merge with --no-ff, --ff-only or --squash, whose commit may fail, which the
\* code does not look at.
MergeClean(b, squash, ok) ==
    /\ b \in DOMAIN tips /\ merging = "no" /\ staged = {}
    /\ IF squash /\ ~ok
       THEN staged' = tips[b] \ tips[current] /\ UNCHANGED tips
       ELSE tips' = [tips EXCEPT ![current] = @ \cup tips[b]] /\ UNCHANGED staged
    /\ UNCHANGED <<current, unstaged, merging, incoming, ahead, since, stashes, done, givenUp>>

\* The conflict stays in the tree for the caller to end.
MergeConflicts(b, how) ==
    /\ b \in DOMAIN tips /\ merging = "no" /\ staged = {}
    /\ how = "rebase" => unstaged = {}
    /\ ~(tips[b] \subseteq tips[current])
    /\ merging' = how
    /\ incoming' = tips[b] \ tips[current]
    /\ since' = {}
    /\ UNCHANGED <<tips, current, staged, unstaged, ahead, stashes, done, givenUp>>

\* Mutant: reset --hard instead of the two aborts.
AbortByReset ==
    /\ merging \in {"merge", "rebase"}
    /\ merging' = "no" /\ incoming' = {} /\ ahead' = {} /\ since' = {}
    /\ staged' = {} /\ unstaged' = {}
    /\ givenUp' = givenUp \cup since
    /\ UNCHANGED <<tips, current, stashes, done>>

\* merge --abort, then rebase --abort; neither ends the conflict of a squash
\* or of a pop.  What was made or added to the index meanwhile goes.
AbortMerge ==
    /\ merging \in {"merge", "rebase"}
    /\ merging' = "no" /\ incoming' = {} /\ ahead' = {} /\ since' = {}
    /\ staged' = {} /\ unstaged' = unstaged \ since
    /\ givenUp' = givenUp \cup since
    /\ UNCHANGED <<tips, current, stashes, done>>

branchNext ==
    \/ \E e \in Work : WriteWork(e)
    \/ \E b, c \in Branch, ok, squash \in BOOLEAN :
         \/ CreateEphemeralBranch(b, c) \/ CheckoutBranch(b) \/ DeleteBranch(b, ok)
         \/ MergeClean(b, squash, ok)
    \/ \E b \in Branch, how \in {"merge", "squash", "rebase"} : MergeConflicts(b, how)
    \/ \E files \in SUBSET Work, ok \in BOOLEAN : StageAndCommit(files, ok)
    \/ \E new \in SUBSET Work : CreateStash(new)
    \/ \E i \in 1..MaxStashes : DropStash(i) \/ \E clean \in BOOLEAN : PopStash(i, clean)
    \/ AbortMerge

branchSpec == branchInit /\ [][branchNext]_branchVars

----------------------------------------------------------------------------
\* Through conflicts, aborts, stashes and commits that fail, an edit is in the
\* tree, in the index, in the stash or on a branch, unless a caller dropped
\* its stash, forced its branch away or aborted the merge it was made or
\* staged in.
NoWorkVanishes ==
    done \subseteq (UNION {tips[b] : b \in DOMAIN tips}) \cup staged \cup unstaged \cup ahead
                   \cup (UNION ToSet(stashes)) \cup givenUp
=============================================================================
