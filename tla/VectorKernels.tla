--------------------------- MODULE VectorKernels ---------------------------
(***************************************************************************)
(* The kernels of vector/VectorStore, scalar and AVX2: the loops that run  *)
(* through two vectors in blocks and leave a rest to a loop of its own.    *)
(* Floating-point sums are bags here: a kernel's result is how often each  *)
(* element has been added, for rounding depends on the order.              *)
(***************************************************************************)
EXTENDS Naturals, FiniteSets, Sequences, SequencesExt

CONSTANTS
    MaxDim,         \* bound: dimensions tried, beyond the largest block
    Alnum,          \* letters and digits, in lower case
    MaxText         \* bound: characters of a text

VARIABLES
    dim,            \* of the vectors
    text            \* what is embedded: letters, digits and one delimiter

kernelsVars == <<dim, text>>

\* A loop over i in steps of width, whose accumulators take the offsets: the
\* elements added, and where it stops.
Loop(i, width, offsets) ==
    LET blocks == IF i > dim THEN 0 ELSE (dim - i) \div width
    IN  [next |-> i + blocks * width,
         added |-> FlattenSeq([b \in 1..blocks |->
                     FlattenSeq([o \in DOMAIN offsets |->
                       [lane \in 1..(width \div Len(offsets)) |-> i + (b - 1) * width + offsets[o] + lane - 1]])])]

\* The rest goes on where the last loop stopped.
Rest(loops) == Loop(loops[Len(loops)].next, 1, <<0>>)

\* The elements a kernel adds.
Total(loops) == FlattenSeq([l \in DOMAIN loops |-> loops[l].added]) \o Rest(loops).added

\* dotProductScalarInternal.
DotScalar == Total(<<Loop(0, 4, <<0, 1, 2, 3>>)>>)

\* dotProductAVX2Internal: 32 with four registers, then 8 with one.
DotAvx2 == LET wide == Loop(0, 32, <<0, 8, 16, 24>>) IN Total(<<wide, Loop(wide.next, 8, <<0>>)>>)

\* cosineSimilarity: 16 with two registers, then 8 with one; below 8, or
\* without AVX2, two by two.
CosineAvx2 == LET wide == Loop(0, 16, <<0, 8>>) IN Total(<<wide, Loop(wide.next, 8, <<0>>)>>)
CosineScalar == Total(<<Loop(0, 2, <<0, 1>>)>>)
Cosine(avx2) == IF avx2 /\ dim >= 8 THEN CosineAvx2 ELSE CosineScalar

\* normalizeVector: what it scales.
Normalize(avx2) == IF avx2 /\ dim >= 8 THEN Total(<<Loop(0, 8, <<0>>)>>) ELSE Total(<<Loop(0, 1, <<0>>)>>)

----------------------------------------------------------------------------
(* computeDeterministicEmbedding: every feature goes to one element by its *)
(* hash; here, the features.                                               *)

\* The end of a word, which begins the next one with an empty window.
WordEnds(acc) == [features |-> Append(acc.features, <<"word", acc.word>>), word |-> <<>>, window |-> <<>>]

\* A letter: the last three of the word are a feature.
LetterComes(acc, c) ==
    LET window == Append(IF Len(acc.window) = 3 THEN Tail(acc.window) ELSE acc.window, c)
    IN  [features |-> IF Len(window) = 3 THEN Append(acc.features, <<"trigram", window>>) ELSE acc.features,
         word |-> Append(acc.word, c), window |-> window]

Features(s) ==
    LET step(acc, c) == IF c \in Alnum THEN LetterComes(acc, c)
                        ELSE IF acc.word = <<>> THEN acc ELSE WordEnds(acc)
        end == FoldLeft(step, [features |-> <<>>, word |-> <<>>, window |-> <<>>], s)
    IN  IF end.word = <<>> THEN end.features ELSE WordEnds(end).features

----------------------------------------------------------------------------
kernelsInit == dim = 0 /\ text = <<>>
kernelsNext ==
    \/ text = <<>> /\ dim < MaxDim /\ dim' = dim + 1 /\ UNCHANGED text
    \/ /\ dim = 0 /\ Len(text) < MaxText
       /\ \E c \in Alnum \cup {" "} : text' = Append(text, c)
       /\ UNCHANGED dim

\* Every kernel takes every element of the vectors once, whatever their
\* dimension: results do not depend on the processor but for rounding.
KernelsCountOnce ==
    \A taken \in {DotScalar, DotAvx2, Cosine(TRUE), Cosine(FALSE), Normalize(TRUE), Normalize(FALSE)} :
      /\ ToSet(taken) = 0..(dim - 1)
      /\ Len(taken) = dim

\* The places of a word, and of three letters in one.
WordAt(x, i, j) ==
    /\ SubSeq(text, i, j) = x
    /\ i = 1 \/ text[i - 1] = " "
    /\ j = Len(text) \/ text[j + 1] = " "
Where(feature) ==
    {i \in 1..(Len(text) - Len(feature[2]) + 1) :
       IF feature[1] = "word" THEN WordAt(feature[2], i, i + Len(feature[2]) - 1)
       ELSE SubSeq(text, i, i + 2) = feature[2]}

\* A text's features are its words and the triples of letters within them,
\* each as often as it is there: what stands before a word does not matter.
FeaturesAreOfTheText ==
    LET words == {SubSeq(text, i, j) : i, j \in DOMAIN text} \cap UNION {[1..n -> Alnum] : n \in 1..MaxText}
        possible == {<<"word", w>> : w \in words} \cup {<<"trigram", w>> : w \in {v \in words : Len(v) = 3}}
    IN  /\ ToSet(Features(text)) \subseteq possible
        /\ \A f \in possible : Len(SelectSeq(Features(text), LAMBDA g : g = f)) = Cardinality(Where(f))
=============================================================================
