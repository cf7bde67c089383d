------------------------------ MODULE MCServices ------------------------------
(***************************************************************************)
(* The parts of the program that share no state, for TLC in one run: each  *)
(* behaviour runs the part named by focus and leaves the others in their   *)
(* initial states.  Interleaving them would add nothing.                   *)
(***************************************************************************)
EXTENDS ToolRegistry, Planner, TaskGraphAlgorithms, UnifiedDiff, Kernel, GitWorktree, Sandboxes, BranchSandbox,
    LineReader, CommandLine, AgentToolParser, PathContainment, VectorKernels, TestingEngine, Conversations,
    ModelProviders, TLC

----------------------------------------------------------------------------
(* UnifiedDiff: every pair of texts of at most MaxLines lines, reached by  *)
(* appending, and what a reader of a unified diff takes a diff to mean     *)

CONSTANT MaxLines

VARIABLES old, new

diffVars == <<old, new>>

DiffBare == [l \in {"a", "b", "b\r"} |-> IF l = "b\r" THEN "b" ELSE l]

diffInit == old = <<>> /\ new = <<>>

AppendOld == Len(old) < MaxLines /\ \E l \in DOMAIN Bare : old' = Append(old, l) /\ UNCHANGED new
AppendNew == Len(new) < MaxLines /\ \E l \in DOMAIN Bare : new' = Append(new, l) /\ UNCHANGED old

diffNext == AppendOld \/ AppendNew

----------------------------------------------------------------------------
(* Reading a diff                                                          *)

\* The lines of a hunk as they stand on the side whose own mark is given.
Shown(lines, line, mark) ==
    IF line[1] \in {"Unchanged", mark} THEN Append(lines, line[2]) ELSE lines

Side(hunk, mark) == FoldLeft(LAMBDA lines, line : Shown(lines, line, mark), <<>>, hunk.lines)

\* One hunk: copy what precedes it and put its new lines for the old ones.  A
\* hunk that does not fit is refused: the text must have the lines it replaces,
\* at the place it says.
ApplyHunk(source, from, to, fromMark, toMark, acc, hunk) ==
    LET replaced == Side(hunk, fromMark)
        end == hunk[from] + Len(replaced)
        here == acc.out \o SubSeq(source, acc.next, hunk[from] - 1)
    IN  IF /\ acc.next <= hunk[from] /\ end <= Len(source) + 1
           /\ SubSeq(source, hunk[from], end - 1) = replaced
           /\ hunk[to] = Len(here) + 1
        THEN [out |-> here \o Side(hunk, toMark), next |-> end, fits |-> acc.fits]
        ELSE [out |-> acc.out, next |-> acc.next, fits |-> FALSE]

Patch(source, hunks, from, to, fromMark, toMark) ==
    LET patched == FoldLeft(LAMBDA acc, h : ApplyHunk(source, from, to, fromMark, toMark, acc, h),
                         [out |-> <<>>, next |-> 1, fits |-> TRUE], hunks)
    IN  [fits |-> patched.fits, text |-> patched.out \o SubSeq(source, patched.next, Len(source))]

Applied(hunks) ==
    Patch(SplitLines(old), hunks, "oldStart", "newStart", "Deleted", "Added")
Reverted(hunks) ==
    Patch(SplitLines(new), hunks, "newStart", "oldStart", "Added", "Deleted")

\* What is left of a sequence of lines when some are left out.
Longer(some, line) == some \cup {Append(s, line) : s \in some}

Subsequences(lines) == FoldLeft(Longer, {<<>>}, lines)

\* No shorter script exists: one that keeps a common subsequence deletes the
\* other old lines and adds the other new ones.
DiffIsMinimal ==
    LET a == SplitLines(old)
        b == SplitLines(new)
        edits == ComputeDiffEdits(a, b)
    IN  \A s \in Subsequences(a) \cap Subsequences(b) : Len(edits) <= Len(a) + Len(b) - Len(s)

\* The report on two texts is a patch, and no longer than need be: applied to
\* the old lines it gives the new ones, applied backwards the old ones, each
\* hunk at the line its header names on both sides, with the counts it names,
\* and none reaching into the one before it.
DiffIsExact ==
    LET hunks == ComputeDiffBetweenContents(old, new)
    IN  /\ DiffIsMinimal
        /\ Applied(hunks) = [fits |-> TRUE, text |-> SplitLines(new)]
        /\ Reverted(hunks) = [fits |-> TRUE, text |-> SplitLines(old)]
        /\ \A h \in ToSet(hunks) : /\ h.oldLines = Len(Side(h, "Deleted"))
                                   /\ h.newLines = Len(Side(h, "Added"))

----------------------------------------------------------------------------
(* All parts                                                               *)

VARIABLE focus

servicesVars == <<focus, toolVars, plannerVars, nodes, diffVars, kernelVars, worktreeVars, sandboxVars, branchVars,
    readerVars, cliVars, answer, globVars, kernelsVars, runnerVars, reportVars, conversationVars, providerVars>>

Parts == {"planner", "tools", "graph", "diff", "kernel", "worktrees", "sandboxes", "branches", "reader", "cli", "calls", "globs", "kernels", "runs", "reports", "chats", "providers"}

servicesInit ==
    /\ focus \in Parts
    /\ toolInit /\ plannerInit /\ Init /\ diffInit /\ kernelInit /\ worktreeInit /\ sandboxInit /\ branchInit
    /\ readerInit /\ cliInit /\ answerInit /\ globInit /\ kernelsInit
    /\ runnerInit /\ reportInit /\ conversationInit /\ providerInit
    /\ relock \in (IF focus = "worktrees" THEN {"blocks", "enters"} ELSE {"blocks"})

\* The part runs when it has the focus, and rests otherwise.
Runs(part, next, partVars) == IF focus = part THEN next ELSE UNCHANGED partVars

servicesNext ==
    /\ UNCHANGED focus
    /\ Runs("tools", toolNext, toolVars)
    /\ Runs("planner", plannerNext, plannerVars)
    /\ Runs("graph", Next, nodes)
    /\ Runs("diff", diffNext, diffVars)
    /\ Runs("kernel", kernelNext, kernelVars)
    /\ Runs("worktrees", worktreeNext, worktreeVars)
    /\ Runs("sandboxes", sandboxNext, sandboxVars)
    /\ Runs("branches", branchNext, branchVars)
    /\ Runs("reader", readerNext, readerVars)
    /\ Runs("cli", cliNext, cliVars)
    /\ Runs("calls", answerNext, answer)
    /\ Runs("globs", globNext, globVars)
    /\ Runs("kernels", kernelsNext, kernelsVars)
    /\ Runs("runs", runnerNext, runnerVars)
    /\ Runs("reports", reportNext, reportVars)
    /\ Runs("chats", conversationNext, conversationVars)
    /\ Runs("providers", providerNext, providerVars)

servicesSpec == servicesInit /\ [][servicesNext]_servicesVars

\* The bus past a race on its subscribers is not followed: nothing is claimed
\* of what comes after.
Followed == ~raced

\* A history that is saved comes back, so does a session, and the file of
\* conversations agrees with those held: see the conditions in LineReader,
\* CommandLine and Conversations.
WhatIsSavedComesBack == HistoryComesBack /\ LoadIsWhole /\ HeldIsStored

\* The pure algorithms that read texts and vectors give what their definitions
\* say, where they can differ.
ReadersAreExact ==
    /\ focus = "calls" => CallsAreFound
    /\ focus = "globs" => GlobIsExact
    /\ focus = "kernels" => KernelsCountOnce /\ FeaturesAreOfTheText
    /\ focus = "chats" /\ conversations = <<>> => WindowIsLongest
    /\ focus = "runs" => VerdictIsRight /\ CountsAreRight
    /\ focus = "providers" => StreamIsExact /\ ChatIsServed /\ HealthIsSeen /\ (call = NoRequest => DeltaIsExact)
    /\ focus = "reports" => RangesAreExact /\ GateIsRight /\ DiagnosesAreRight /\ ErrorsAreRead

\* What is typed: the start of a command, and what continues a line.
MCChar == {"/", "\\"}
MCCompletion == [line \in {<<"/">>} |-> ExitLine]
MCArgument == {<<>>, <<"x">>, <<"x", "x">>, <<"x", "x", "x">>, <<"-f", "x">>, <<"-f", "-f", "x", "x">>}

MCChain == SetToSeq(Id)

Symmetry == Permutations(Task)
=============================================================================
