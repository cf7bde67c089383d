-------------------------- MODULE PathContainment --------------------------
(***************************************************************************)
(* workspace/PathContainment: the patterns that protect a file.  Paths and *)
(* patterns are sequences of characters, "/" among them.                   *)
(***************************************************************************)
EXTENDS Naturals, Sequences, SequencesExt

CONSTANTS
    Letter,         \* characters of paths; patterns have "*" and "?" too
    MaxLetters      \* bound: length of both

VARIABLES glob, path
globVars == <<glob, path>>

----------------------------------------------------------------------------
(* globMatch: one pass, which goes back to the last star only              *)

\* The last star takes one character more.
Back(at) == [at EXCEPT !.p = at.star + 1, !.s = at.from + 1, !.from = @ + 1]

\* One turn of the loop; the positions where it ends.
GlobTurn(at, p, s) ==
    CASE at.stuck \/ at.s > Len(s) -> at
      [] ~at.stuck /\ at.s <= Len(s) /\ at.p <= Len(p) /\ p[at.p] \in {"?", s[at.s]} ->
           [at EXCEPT !.p = @ + 1, !.s = @ + 1]
      [] ~at.stuck /\ at.s <= Len(s) /\ at.p <= Len(p) /\ p[at.p] = "*" /\ s[at.s] # "*" ->
           [at EXCEPT !.star = at.p, !.from = at.s, !.p = @ + 1]
      [] OTHER -> IF at.star = 0 THEN [at EXCEPT !.stuck = TRUE] ELSE Back(at)

\* No more turns than that: the loop goes back at most once for each
\* character of the string, and forth at most to the end of the pattern.
Turns(p, s) == (Len(p) + 2) * (Len(s) + 1)

GlobMatch(p, s) ==
    LET end == FoldLeft(LAMBDA at, i : GlobTurn(at, p, s),
                        [p |-> 1, s |-> 1, star |-> 0, from |-> 0, stuck |-> FALSE],
                        [i \in 1..Turns(p, s) |-> i])
    IN  end.s > Len(s) /\ \A i \in end.p..Len(p) : p[i] = "*"

\* What comes after the last "/".
Filename(s) == LET after == SelectLastInSubSeq(s, 1, Len(s), LAMBDA c : c = "/")
               IN  SubSeq(s, after + 1, Len(s))

\* normalizeSeparators: no "/" at the end, unless it is all there is.
Normalized(s) ==
    LET ends == {n \in 1..Len(s) : n = 1 \/ s[n] # "/"}
    IN  IF s = <<>> THEN s ELSE SubSeq(s, 1, CHOOSE n \in ends : \A m \in ends : m <= n)

\* matchesPattern: the path or its last component.
MatchesPattern(s, p) ==
    \/ GlobMatch(Normalized(p), Normalized(s))
    \/ GlobMatch(Normalized(p), Filename(Normalized(s)))

----------------------------------------------------------------------------
globInit == glob = <<>> /\ path = <<>>
globNext ==
    \/ /\ Len(glob) < MaxLetters
       /\ \E c \in Letter \cup {"*", "?"} : glob' = Append(glob, c)
       /\ UNCHANGED path
    \/ Len(path) < MaxLetters /\ (\E c \in Letter : path' = Append(path, c)) /\ UNCHANGED glob

\* A way to cut s into stretches, one for each character of p.
CutsInto(p, s) ==
    \E cut \in [0..Len(p) -> 0..Len(s)] :
      /\ cut[0] = 0 /\ cut[Len(p)] = Len(s)
      /\ \A i \in 1..Len(p) :
           IF p[i] = "*" THEN cut[i - 1] <= cut[i]
           ELSE cut[i] = cut[i - 1] + 1 /\ p[i] \in {"?", s[cut[i]]}

\* Going back to the last star is enough: a path is protected by a pattern
\* exactly when it, or its last component, can be cut into what the
\* characters of the pattern stand for.
GlobIsExact ==
    MatchesPattern(path, glob) <=>
      \/ CutsInto(Normalized(glob), Normalized(path))
      \/ CutsInto(Normalized(glob), Filename(Normalized(path)))
=============================================================================
