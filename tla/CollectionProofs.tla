-------------------------- MODULE CollectionProofs --------------------------
(***************************************************************************)
(* Lemmas about sums, lists and folds.                                     *)
(*                                                                         *)
(* Sums are those of the community modules (SumFunctionOnSet), for any     *)
(* finite set of summands. A sum is a function defined by recursion on the *)
(* subsets of the set, whose order is the prover's to choose; that such a  *)
(* function exists, and that the order does not matter, is shown with a    *)
(* smallest set for which it fails, in place of an induction. Folds and    *)
(* concatenations are treated in the same way.                             *)
(***************************************************************************)
EXTENDS SequencesExt, Maps, FunctionTheorems, FiniteSetTheorems, WellFoundedInduction, TLAPS

\* A collection of finite sets that is not empty has a smallest member.
LEMMA SmallestSet ==
    ASSUME NEW C, C # {}, \A U \in C : IsFiniteSet(U)
    PROVE  \E U \in C : \A V \in C : ~(Cardinality(V) < Cardinality(U))
<1> DEFINE Sizes == {Cardinality(U) : U \in C}
<1>1. Sizes \subseteq Nat /\ Sizes # {}
  BY FS_CardinalityType
<1>2. \E x \in Sizes : \A y \in Sizes : <<y, x>> \notin OpToRel(<, Nat)
  BY <1>1, NatLessThanWellFounded, WFMin
<1>3. \E x \in Sizes : \A y \in Sizes : ~(y < x)
  BY <1>1, <1>2 DEF OpToRel
<1> QED
  BY <1>3

\* Taking an element away makes a finite set smaller.
LEMMA SmallerWithout ==
    ASSUME NEW S, IsFiniteSet(S), NEW x \in S
    PROVE  IsFiniteSet(S \ {x}) /\ Cardinality(S \ {x}) < Cardinality(S)
<1>1. Cardinality(S) \in Nat /\ IsFiniteSet(S \ {x}) /\ Cardinality(S \ {x}) = Cardinality(S) - 1
  BY FS_RemoveElement, FS_CardinalityType
<1> QED
  BY <1>1

\* What holds at 0 and passes from each number to the next holds up to N.
LEMMA CountUp ==
    ASSUME NEW N \in Nat, NEW P, 0 \in P, \A n \in 1..N : n - 1 \in P => n \in P
    PROVE  \A n \in 0..N : n \in P
<1> DEFINE Bad == {n \in Nat : n \leq N /\ n \notin P}
<1>1. Bad = {}
  <2> SUFFICES ASSUME Bad # {} PROVE FALSE
    OBVIOUS
  <2>1. PICK n \in Bad : \A m \in Bad : ~(m < n)
    <3>1. \E x \in Bad : \A y \in Bad : <<y, x>> \notin OpToRel(<, Nat)
      BY NatLessThanWellFounded, WFMin
    <3> QED
      BY <3>1 DEF OpToRel
  <2>2. n # 0 /\ n \in 1..N /\ n - 1 \in Nat /\ n - 1 < n /\ n - 1 \leq N
    BY <2>1
  <2>3. n - 1 \in P
    BY <2>1, <2>2
  <2> QED
    BY <2>1, <2>2, <2>3
<1> QED
  BY <1>1

----------------------------------------------------------------------------
(* The function behind a sum                                               *)

First(s) == CHOOSE x \in s : TRUE
Others(s) == s \ {First(s)}

\* g gives every subset of S the sum of f over it.
Sums(g, f, S) == g = [s \in SUBSET S |-> IF s = {} THEN 0 ELSE f[First(s)] + g[Others(s)]]

LEMMA SumDefinition ==
    ASSUME NEW f, NEW S
    PROVE  SumFunctionOnSet(f, S) = (CHOOSE g : Sums(g, f, S))[S]
BY DEF SumFunctionOnSet, FoldFunctionOnSet, MapThenFoldSet, Sums, First, Others

LEMMA FirstIsIn == ASSUME NEW s, s # {} PROVE First(s) \in s
BY DEF First

\* There is such a function: one for the subsets of up to n elements gives
\* one for those of up to n + 1.
LEMMA SumsExist ==
    ASSUME NEW f, NEW S, IsFiniteSet(S)
    PROVE  \E g : Sums(g, f, S)
<1> DEFINE UpTo(n) == {s \in SUBSET S : Cardinality(s) \leq n}
           Step(g, n) == [s \in UpTo(n) |-> IF s = {} THEN 0 ELSE f[First(s)] + g[Others(s)]]
           Bad == {n \in Nat : ~ \E g : g = Step(g, n)}
<1>1. \A s \in SUBSET S : IsFiniteSet(s) /\ Cardinality(s) \in Nat
  BY FS_Subset, FS_CardinalityType
<1>2. \A s \in SUBSET S : s # {} =>
        Others(s) \in SUBSET S /\ Cardinality(Others(s)) = Cardinality(s) - 1
  BY <1>1, FirstIsIn, FS_RemoveElement DEF Others
<1>3. Bad = {}
  <2> SUFFICES ASSUME Bad # {} PROVE FALSE
    OBVIOUS
  <2>1. PICK n \in Bad : \A m \in Bad : ~(m < n)
    <3>1. \E x \in Bad : \A y \in Bad : <<y, x>> \notin OpToRel(<, Nat)
      BY NatLessThanWellFounded, WFMin
    <3> QED
      BY <3>1 DEF OpToRel
  <2>2. \E g : \A s \in SUBSET S : s # {} /\ Cardinality(s) \leq n =>
           g[Others(s)] = IF Others(s) = {} THEN 0 ELSE f[First(Others(s))] + g[Others(Others(s))]
    <3>1. CASE n = 0
      <4>1. \A s \in SUBSET S : s # {} => ~(Cardinality(s) \leq n)
        BY <1>1, <3>1, FS_EmptySet
      <4> QED
        BY <4>1
    <3>2. CASE n # 0
      <4>1. n - 1 \in Nat /\ n - 1 \notin Bad
        <5>1. n - 1 \in Nat /\ n - 1 < n
          BY <3>2
        <5> HIDE DEF Bad
        <5> QED
          BY <2>1, <5>1
      <4>2. PICK g : g = Step(g, n - 1)
        BY <4>1
      <4>3. ASSUME NEW s \in SUBSET S, s # {}, Cardinality(s) \leq n
            PROVE  g[Others(s)] = IF Others(s) = {} THEN 0 ELSE f[First(Others(s))] + g[Others(Others(s))]
        <5>1. Others(s) \in UpTo(n - 1)
          BY <1>1, <1>2, <4>1, <4>3
        <5> QED
          BY <4>2, <5>1
      <4> QED
        BY <4>3
    <3> QED
      BY <3>1, <3>2
  <2>3. PICK g : \A s \in SUBSET S : s # {} /\ Cardinality(s) \leq n =>
           g[Others(s)] = IF Others(s) = {} THEN 0 ELSE f[First(Others(s))] + g[Others(Others(s))]
    BY <2>2
  <2> DEFINE h == Step(g, n)
  <2>4. ASSUME NEW s \in UpTo(n), s # {} PROVE h[Others(s)] = g[Others(s)]
    <3>1. Others(s) \in UpTo(n)
      BY <1>1, <1>2, <2>4
    <3>2. h[Others(s)] = IF Others(s) = {} THEN 0 ELSE f[First(Others(s))] + g[Others(Others(s))]
      BY <3>1
    <3> QED
      BY <2>3, <2>4, <3>2
  <2>5. h = Step(h, n)
    BY <2>4
  <2> QED
    BY <2>1, <2>5
<1>4. PICK g : g = Step(g, Cardinality(S))
  BY <1>1, <1>3
<1>5. UpTo(Cardinality(S)) = SUBSET S
  BY FS_Subset
<1>6. Sums(g, f, S)
  BY <1>4, <1>5 DEF Sums
<1> QED
  BY <1>6

LEMMA SumIs ==
    ASSUME NEW f, NEW S, IsFiniteSet(S)
    PROVE  \E g : Sums(g, f, S) /\ SumFunctionOnSet(f, S) = g[S]
BY SumsExist, SumDefinition

\* Two such functions agree where their summands do.
LEMMA SumsAgree ==
    ASSUME NEW f, NEW e, NEW S, NEW T, NEW g, NEW h, Sums(g, f, S), Sums(h, e, T),
           NEW U \in SUBSET (S \cap T), IsFiniteSet(U), \A x \in U : f[x] = e[x]
    PROVE  g[U] = h[U]
<1> DEFINE Bad == {V \in SUBSET U : g[V] # h[V]}
<1> SUFFICES ASSUME Bad # {} PROVE FALSE
  OBVIOUS
<1>1. \A V \in SUBSET U : IsFiniteSet(V)
  BY FS_Subset
<1>2. PICK V \in Bad : \A W \in Bad : ~(Cardinality(W) < Cardinality(V))
  BY <1>1, SmallestSet
<1>3. /\ g[V] = IF V = {} THEN 0 ELSE f[First(V)] + g[Others(V)]
      /\ h[V] = IF V = {} THEN 0 ELSE e[First(V)] + h[Others(V)]
  <2>1. V \in SUBSET S /\ V \in SUBSET T
    OBVIOUS
  <2> QED
    BY <2>1 DEF Sums
<1>4. V # {}
  BY <1>3
<1>5. First(V) \in V /\ Others(V) \in SUBSET U
  BY <1>4, FirstIsIn DEF Others
<1>6. Cardinality(Others(V)) < Cardinality(V)
  BY <1>1, <1>5, SmallerWithout DEF Others
<1>7. g[Others(V)] = h[Others(V)]
  BY <1>2, <1>5, <1>6
<1> QED
  BY <1>3, <1>4, <1>5, <1>7

----------------------------------------------------------------------------
(* What is known of a sum                                                  *)

Values(f, S) == \A x \in S : f[x] \in Nat

\* The sum depends on the summands only.
LEMMA SumOfSame ==
    ASSUME NEW f, NEW e, NEW S, IsFiniteSet(S), \A x \in S : f[x] = e[x]
    PROVE  SumFunctionOnSet(f, S) = SumFunctionOnSet(e, S)
<1>1. PICK g : Sums(g, f, S) /\ SumFunctionOnSet(f, S) = g[S]
  BY SumIs
<1>2. PICK h : Sums(h, e, S) /\ SumFunctionOnSet(e, S) = h[S]
  BY SumIs
<1>3. S \in SUBSET (S \cap S)
  OBVIOUS
<1>4. g[S] = h[S]
  BY <1>1, <1>2, <1>3, SumsAgree
<1> QED
  BY <1>1, <1>2, <1>4

LEMMA SumOfNone == ASSUME NEW f PROVE SumFunctionOnSet(f, {}) = 0
<1>1. PICK g : Sums(g, f, {}) /\ SumFunctionOnSet(f, {}) = g[{}]
  BY SumIs, FS_EmptySet
<1> QED
  BY <1>1 DEF Sums

\* The summand taken first, and the sum of the rest.
LEMMA SumSplits ==
    ASSUME NEW f, NEW S, IsFiniteSet(S), S # {}
    PROVE  SumFunctionOnSet(f, S) = f[First(S)] + SumFunctionOnSet(f, Others(S))
<1>1. First(S) \in S /\ Others(S) \in SUBSET S /\ IsFiniteSet(Others(S))
  BY FirstIsIn, FS_Subset DEF Others
<1>2. PICK g : Sums(g, f, S) /\ SumFunctionOnSet(f, S) = g[S]
  BY SumIs
<1>3. PICK h : Sums(h, f, Others(S)) /\ SumFunctionOnSet(f, Others(S)) = h[Others(S)]
  BY <1>1, SumIs
<1>4. g[S] = f[First(S)] + g[Others(S)]
  <2>1. S \in SUBSET S
    OBVIOUS
  <2> QED
    BY <1>2, <2>1 DEF Sums
<1>5. Others(S) \in SUBSET (S \cap Others(S))
  BY <1>1
<1>6. g[Others(S)] = h[Others(S)]
  BY <1>1, <1>2, <1>3, <1>5, SumsAgree
<1> QED
  BY <1>2, <1>3, <1>4, <1>6

\* A sum of naturals is one.
LEMMA SumIsNatural ==
    ASSUME NEW f, NEW S, IsFiniteSet(S), Values(f, S)
    PROVE  SumFunctionOnSet(f, S) \in Nat
<1> DEFINE Bad == {T \in SUBSET S : SumFunctionOnSet(f, T) \notin Nat}
<1> SUFFICES ASSUME Bad # {} PROVE FALSE
  OBVIOUS
<1>1. \A T \in SUBSET S : IsFiniteSet(T)
  BY FS_Subset
<1>2. PICK T \in Bad : \A U \in Bad : ~(Cardinality(U) < Cardinality(T))
  BY <1>1, SmallestSet
<1>3. T # {}
  BY <1>2, SumOfNone
<1>4. First(T) \in T /\ Others(T) \in SUBSET S
  BY <1>3, FirstIsIn DEF Others
<1>5. Cardinality(Others(T)) < Cardinality(T)
  BY <1>1, <1>4, SmallerWithout DEF Others
<1>6. SumFunctionOnSet(f, Others(T)) \in Nat
  BY <1>2, <1>4, <1>5
<1>7. SumFunctionOnSet(f, T) = f[First(T)] + SumFunctionOnSet(f, Others(T))
  BY <1>1, <1>3, SumSplits
<1>8. f[First(T)] \in Nat
  BY <1>4 DEF Values
<1> QED
  BY <1>2, <1>6, <1>7, <1>8

\* One summand more, whichever the sum takes first.
LEMMA SumWithOneMore ==
    ASSUME NEW f, NEW S, NEW y, IsFiniteSet(S), y \notin S, Values(f, S \cup {y})
    PROVE  SumFunctionOnSet(f, S \cup {y}) = SumFunctionOnSet(f, S) + f[y]
<1> DEFINE D == S \cup {y}
           Sum(T) == SumFunctionOnSet(f, T)
           Bad == {T \in SUBSET D : \E x \in D \ T : Sum(T \cup {x}) # Sum(T) + f[x]}
<1>1. IsFiniteSet(D) /\ \A T \in SUBSET D : IsFiniteSet(T)
  BY FS_AddElement, FS_Subset
<1>2. \A T \in SUBSET D : Sum(T) \in Nat
  BY <1>1, SumIsNatural DEF Values
<1>3. \A T \in SUBSET D : T # {} => Sum(T) = f[First(T)] + Sum(Others(T))
  BY <1>1, SumSplits
<1>4. Bad = {}
  <2> SUFFICES ASSUME Bad # {} PROVE FALSE
    OBVIOUS
  <2>1. PICK T \in Bad : \A U \in Bad : ~(Cardinality(U) < Cardinality(T))
    BY <1>1, SmallestSet
  <2>2. PICK x \in D \ T : Sum(T \cup {x}) # Sum(T) + f[x]
    BY <2>1
  <2> DEFINE z == First(T \cup {x})
  <2>3. z \in T \cup {x} /\ T \cup {x} \in SUBSET D
    BY <2>1, <2>2, FirstIsIn
  <2>4. Sum(T \cup {x}) = f[z] + Sum((T \cup {x}) \ {z})
    BY <1>3, <2>3 DEF Others
  <2>5. f[x] \in Nat /\ f[z] \in Nat
    BY <2>2, <2>3 DEF Values
  <2> HIDE DEF z
  <2>6. CASE z = x
    <3>1. (T \cup {x}) \ {z} = T
      BY <2>2, <2>6
    <3> QED
      BY <1>2, <2>1, <2>2, <2>4, <2>5, <2>6, <3>1
  <2>7. CASE z # x
    <3> DEFINE U == T \ {z}
    <3>1. z \in T /\ U \in SUBSET D /\ (T \cup {x}) \ {z} = U \cup {x} /\ U \cup {z} = T
      BY <2>1, <2>3, <2>7
    <3>2. Cardinality(U) < Cardinality(T)
      BY <1>1, <2>1, <3>1, SmallerWithout
    <3>3. U \notin Bad
      BY <2>1, <3>2
    <3>4. x \in D \ U /\ z \in D \ U
      BY <2>2, <2>3, <3>1
    <3>5. Sum(U \cup {x}) = Sum(U) + f[x] /\ Sum(U \cup {z}) = Sum(U) + f[z]
      BY <3>1, <3>3, <3>4
    <3>6. Sum(U) \in Nat
      BY <1>2, <3>1
    <3> HIDE DEF U, Sum
    <3>7. Sum(T) = Sum(U) + f[z] /\ Sum(T \cup {x}) = f[z] + (Sum(U) + f[x])
      BY <2>4, <3>1, <3>5
    <3> QED
      BY <2>2, <2>5, <3>6, <3>7
  <2> QED
    BY <2>6, <2>7
<1> QED
  BY <1>4

\* One summand less.
LEMMA SumWithout ==
    ASSUME NEW f, NEW S, NEW y \in S, IsFiniteSet(S), Values(f, S)
    PROVE  /\ SumFunctionOnSet(f, S) = SumFunctionOnSet(f, S \ {y}) + f[y]
           /\ SumFunctionOnSet(f, S \ {y}) = SumFunctionOnSet(f, S) - f[y]
<1> DEFINE T == S \ {y}
<1>1. IsFiniteSet(T) /\ y \notin T /\ T \cup {y} = S
  BY FS_Subset
<1>2. Values(f, T) /\ Values(f, T \cup {y}) /\ f[y] \in Nat
  BY <1>1 DEF Values
<1>3. SumFunctionOnSet(f, T) \in Nat
  BY <1>1, <1>2, SumIsNatural
<1>4. SumFunctionOnSet(f, T \cup {y}) = SumFunctionOnSet(f, T) + f[y]
  BY <1>1, <1>2, SumWithOneMore
<1> HIDE DEF T
<1>5. SumFunctionOnSet(f, S) = SumFunctionOnSet(f, T) + f[y]
  BY <1>1, <1>4
<1>6. SumFunctionOnSet(f, T) = SumFunctionOnSet(f, S) - f[y]
  BY <1>2, <1>3, <1>5
<1> QED
  BY <1>5, <1>6 DEF T

\* A set of summands split in two.
LEMMA SumOfParts ==
    ASSUME NEW f, NEW S, NEW P \in SUBSET S, IsFiniteSet(S), Values(f, S)
    PROVE  SumFunctionOnSet(f, S) = SumFunctionOnSet(f, S \ P) + SumFunctionOnSet(f, P)
<1> DEFINE Sum(T) == SumFunctionOnSet(f, T)
           Bad == {T \in SUBSET P : Sum(S) # Sum(S \ T) + Sum(T)}
<1>1. \A T \in SUBSET S : IsFiniteSet(T) /\ Values(f, T)
  BY FS_Subset DEF Values
<1>2. \A T \in SUBSET S : Sum(T) \in Nat
  BY <1>1, SumIsNatural
<1>3. \A T \in SUBSET S : \A x \in T : Sum(T) = Sum(T \ {x}) + f[x] /\ f[x] \in Nat
  BY <1>1, SumWithout DEF Values
<1>4. Sum({}) = 0
  BY SumOfNone
<1>5. Bad = {}
  <2> SUFFICES ASSUME Bad # {} PROVE FALSE
    OBVIOUS
  <2>1. PICK T \in Bad : \A U \in Bad : ~(Cardinality(U) < Cardinality(T))
    BY <1>1, SmallestSet
  <2>2. T # {}
    <3>1. S \ {} = S /\ Sum(S) \in Nat
      BY <1>2
    <3> HIDE DEF Sum
    <3>2. Sum(S) = Sum(S \ {}) + Sum({})
      BY <1>4, <3>1
    <3> QED
      BY <2>1, <3>2
  <2>3. PICK x \in T : TRUE
    BY <2>2
  <2> DEFINE U == T \ {x}
  <2>4. T \in SUBSET S /\ U \in SUBSET P /\ x \in S \ U /\ (S \ U) \ {x} = S \ T
    BY <2>1, <2>3
  <2>5. Cardinality(U) < Cardinality(T)
    BY <1>1, <2>3, <2>4, SmallerWithout
  <2>6. Sum(S) = Sum(S \ U) + Sum(U)
    BY <2>1, <2>4, <2>5
  <2>7. Sum(T) = Sum(U) + f[x] /\ f[x] \in Nat
    BY <1>3, <2>3, <2>4
  <2>8. Sum(S \ U) = Sum(S \ T) + f[x]
    BY <1>3, <2>4
  <2>9. Sum(S \ T) \in Nat /\ Sum(U) \in Nat
    BY <1>2, <2>4
  <2> HIDE DEF Sum, U
  <2>10. Sum(S) = Sum(S \ T) + Sum(T)
    BY <2>6, <2>7, <2>8, <2>9
  <2> QED
    BY <2>1, <2>10
<1>6. P \in SUBSET P /\ P \notin Bad
  BY <1>5
<1> QED
  BY <1>6

\* A part of the summands is no more than all of them.
LEMMA SumOfPart ==
    ASSUME NEW f, NEW S, NEW P \in SUBSET S, IsFiniteSet(S), Values(f, S)
    PROVE  SumFunctionOnSet(f, P) \leq SumFunctionOnSet(f, S)
<1>1. /\ IsFiniteSet(P) /\ Values(f, P)
      /\ IsFiniteSet(S \ P) /\ Values(f, S \ P)
  BY FS_Subset DEF Values
<1>2. SumFunctionOnSet(f, P) \in Nat /\ SumFunctionOnSet(f, S \ P) \in Nat
  BY <1>1, SumIsNatural
<1> QED
  BY <1>2, SumOfParts

\* Summed in two ledgers or in one.
LEMMA SumOfTwo ==
    ASSUME NEW f, NEW g, NEW h, NEW S, IsFiniteSet(S), Values(f, S), Values(g, S),
           \A x \in S : h[x] = f[x] + g[x]
    PROVE  SumFunctionOnSet(h, S) = SumFunctionOnSet(f, S) + SumFunctionOnSet(g, S)
<1> DEFINE F(T) == SumFunctionOnSet(f, T)
           G(T) == SumFunctionOnSet(g, T)
           H(T) == SumFunctionOnSet(h, T)
           Bad == {T \in SUBSET S : H(T) # F(T) + G(T)}
<1> SUFFICES ASSUME Bad # {} PROVE FALSE
  <2>1. S \in SUBSET S
    OBVIOUS
  <2> QED
    BY <2>1
<1>1. \A T \in SUBSET S : IsFiniteSet(T) /\ Values(f, T) /\ Values(g, T)
  BY FS_Subset DEF Values
<1>2. PICK T \in Bad : \A U \in Bad : ~(Cardinality(U) < Cardinality(T))
  BY <1>1, SmallestSet
<1>3. T # {}
  <2>1. H({}) = 0 /\ F({}) = 0 /\ G({}) = 0
    BY SumOfNone
  <2> HIDE DEF F, G, H
  <2>2. H({}) = F({}) + G({})
    BY <2>1
  <2> QED
    BY <1>2, <2>2
<1> DEFINE x == First(T)
           U == Others(T)
<1>4. x \in T /\ U \in SUBSET S
  BY <1>3, FirstIsIn DEF Others
<1>5. Cardinality(U) < Cardinality(T)
  BY <1>1, <1>4, SmallerWithout DEF Others
<1>6. H(U) = F(U) + G(U)
  BY <1>2, <1>4, <1>5
<1>7. H(T) = h[x] + H(U) /\ F(T) = f[x] + F(U) /\ G(T) = g[x] + G(U)
  BY <1>1, <1>3, SumSplits
<1>8. F(U) \in Nat /\ G(U) \in Nat
  BY <1>1, <1>4, SumIsNatural
<1>9. f[x] \in Nat /\ g[x] \in Nat /\ h[x] = f[x] + g[x]
  BY <1>4 DEF Values
<1>10. H(T) # F(T) + G(T)
  BY <1>2
<1> HIDE DEF F, G, H, x, U
<1> QED
  BY <1>6, <1>7, <1>8, <1>9, <1>10

----------------------------------------------------------------------------
(* Lists                                                                   *)

\* A finite set of numbers can be listed from the least to the greatest: of
\* the sets that cannot, a smallest one without its least number can.
LEMMA ListedInOrder ==
    ASSUME NEW S \in SUBSET Nat, IsFiniteSet(S)
    PROVE  \E p \in Bijection(1..Cardinality(S), S) :
               \A i, j \in DOMAIN p : i < j => p[i] < p[j]
<1> DEFINE Listed(T, p) == /\ p \in Bijection(1..Cardinality(T), T)
                           /\ \A i, j \in DOMAIN p : i < j => p[i] < p[j]
           Bad == {T \in SUBSET S : ~ \E p : Listed(T, p)}
<1> SUFFICES ASSUME Bad # {} PROVE FALSE
  OBVIOUS
<1>1. \A T \in Bad : IsFiniteSet(T)
  BY FS_Subset
<1>2. PICK U \in Bad : \A V \in Bad : ~(Cardinality(V) < Cardinality(U))
  <2> HIDE DEF Bad
  <2> QED
    BY <1>1, SmallestSet
<1>3. U # {}
  <2> SUFFICES ASSUME U = {} PROVE FALSE
    OBVIOUS
  <2>1. Cardinality(U) = 0
    BY FS_EmptySet
  <2>2. Listed(U, <<>>)
    BY <2>1 DEF Bijection, Injection, Surjection, IsInjective
  <2> QED
    BY <2>2
<1>4. PICK least \in U : \A x \in U : least \leq x
  <2>1. U \in SUBSET Nat /\ U # {}
    BY <1>3
  <2> HIDE DEF Bad
  <2>2. \E x \in U : \A y \in U : <<y, x>> \notin OpToRel(<, Nat)
    BY <2>1, NatLessThanWellFounded, WFMin
  <2>3. \E x \in U : \A y \in U : ~(y < x)
    BY <2>1, <2>2 DEF OpToRel
  <2> QED
    BY <2>1, <2>3
<1> DEFINE R == U \ {least}
           n == Cardinality(R)
<1>5. IsFiniteSet(R) /\ R \in SUBSET S /\ n \in Nat /\ Cardinality(U) = n + 1
  <2>1. IsFiniteSet(U) /\ U \in SUBSET S
    BY <1>1
  <2>2. IsFiniteSet(R) /\ Cardinality(R) = Cardinality(U) - 1
    BY <2>1, FS_RemoveElement
  <2>3. Cardinality(R) \in Nat /\ Cardinality(U) \in Nat
    BY <2>1, <2>2, FS_CardinalityType
  <2> QED
    BY <2>1, <2>2, <2>3
<1>6. PICK q : Listed(R, q)
  <2>1. Cardinality(R) < Cardinality(U)
    BY <1>5
  <2>2. R \notin Bad
    BY <1>2, <2>1
  <2> QED
    BY <1>5, <2>2
<1>7. /\ q \in [1..n -> R]
      /\ \A i, j \in 1..n : q[i] = q[j] => i = j
      /\ \A x \in R : \E i \in 1..n : q[i] = x
      /\ \A i, j \in 1..n : i < j => q[i] < q[j]
  BY <1>6 DEF Bijection, Injection, Surjection, IsInjective
<1> HIDE DEF n, R
<1> DEFINE p == [i \in 1..(n + 1) |-> IF i = 1 THEN least ELSE q[i - 1]]
<1>8. \A i \in 1..(n + 1) : i = 1 \/ (i - 1 \in 1..n /\ p[i] = q[i - 1])
  BY <1>5
<1>9. p[1] = least /\ 1 \in 1..(n + 1)
  BY <1>5
<1>10. \A x \in R : least < x /\ x \in U
  BY <1>4 DEF R
<1>11. \A i, j \in 1..(n + 1) : i < j => p[i] < p[j]
  <2> SUFFICES ASSUME NEW i \in 1..(n + 1), NEW j \in 1..(n + 1), i < j
               PROVE  p[i] < p[j]
    OBVIOUS
  <2>1. j - 1 \in 1..n /\ p[j] = q[j - 1] /\ q[j - 1] \in R
    BY <1>5, <1>7, <1>8
  <2>2. CASE i = 1
    BY <2>1, <2>2, <1>9, <1>10
  <2>3. CASE i # 1
    <3>1. i - 1 \in 1..n /\ p[i] = q[i - 1] /\ i - 1 < j - 1
      BY <1>5, <1>8, <2>3
    <3> QED
      BY <3>1, <2>1, <1>7
  <2> QED
    BY <2>2, <2>3
<1>12. p \in [1..(n + 1) -> U]
  <2>1. ASSUME NEW i \in 1..(n + 1) PROVE p[i] \in U
    <3>1. CASE i = 1
      BY <3>1, <1>9
    <3>2. CASE i # 1
      <4>1. i - 1 \in 1..n /\ p[i] = q[i - 1]
        BY <1>8, <3>2
      <4> QED
        BY <4>1, <1>7, <1>10
    <3> QED
      BY <3>1, <3>2
  <2> QED
    BY <2>1
<1>13. \A x \in U : \E i \in 1..(n + 1) : p[i] = x
  <2> SUFFICES ASSUME NEW x \in U PROVE \E i \in 1..(n + 1) : p[i] = x
    OBVIOUS
  <2>1. CASE x = least
    BY <2>1, <1>9
  <2>2. CASE x # least
    <3>1. PICK i \in 1..n : q[i] = x
      BY <2>2, <1>7 DEF R
    <3>2. i + 1 \in 1..(n + 1) /\ i + 1 # 1 /\ (i + 1) - 1 = i
      BY <1>5
    <3> QED
      BY <3>1, <3>2
  <2> QED
    BY <2>1, <2>2
<1>14. IsInjective(p)
  <2> SUFFICES ASSUME NEW i \in 1..(n + 1), NEW j \in 1..(n + 1), i # j
               PROVE  p[i] # p[j]
    BY DEF IsInjective
  <2>1. p[i] \in Nat /\ p[j] \in Nat
    BY <1>12
  <2> HIDE DEF p
  <2>2. i < j \/ j < i
    BY <1>5
  <2> QED
    BY <2>1, <2>2, <1>11
<1>15. Listed(U, p)
  <2>1. p \in Bijection(1..(n + 1), U)
    BY <1>12, <1>13, <1>14 DEF Bijection, Injection, Surjection
  <2>2. DOMAIN p = 1..(n + 1)
    OBVIOUS
  <2> HIDE DEF p
  <2> QED
    BY <2>1, <2>2, <1>5, <1>11
<1> QED
  BY <1>15

\* What is left of a list: the other keys, none twice if none was there twice.
LEMMA ErasedLeaves ==
    ASSUME NEW K, NEW order \in Seq(K), NEW keys
    PROVE  /\ Erased(order, keys) \in Seq(K)
           /\ IsInjective(order) => IsInjective(Erased(order, keys))
           /\ ToSet(Erased(order, keys)) = ToSet(order) \ keys
<1> DEFINE left == {i \in DOMAIN order : order[i] \notin keys}
           n == Cardinality(left)
           place == CHOOSE p \in [1..n -> left] :
                        \A i, j \in DOMAIN p : i < j => p[i] < p[j]
           W == [i \in 1..n |-> order[place[i]]]
<1>1. DOMAIN order = 1..Len(order) /\ Len(order) \in Nat /\ \A i \in DOMAIN order : order[i] \in K
  OBVIOUS
<1>2. left \in SUBSET Nat /\ IsFiniteSet(left) /\ n \in Nat
  <2>1. IsFiniteSet(1..Len(order))
    BY <1>1, FS_Interval
  <2> QED
    BY <1>1, <2>1, FS_Subset, FS_CardinalityType
<1>3. place \in Bijection(1..n, left)
  <2> HIDE DEF left, n
  <2>1. \E p \in Bijection(1..n, left) : \A i, j \in DOMAIN p : i < j => p[i] < p[j]
    BY <1>2, ListedInOrder DEF n
  <2>2. \E p \in [1..n -> left] : \A i, j \in DOMAIN p : i < j => p[i] < p[j]
    BY <2>1 DEF Bijection, Injection
  <2>3. place \in [1..n -> left] /\ \A i, j \in DOMAIN place : i < j => place[i] < place[j]
    BY <2>2
  <2> HIDE DEF place
  <2>4. \A i, j \in 1..n : i # j => place[i] # place[j]
    <3> SUFFICES ASSUME NEW i \in 1..n, NEW j \in 1..n, i # j PROVE place[i] # place[j]
      OBVIOUS
    <3>1. DOMAIN place = 1..n /\ place[i] \in Nat /\ place[j] \in Nat /\ n \in Nat
      BY <1>2, <2>3
    <3>2. i < j => place[i] < place[j]
      BY <2>3, <3>1
    <3>3. j < i => place[j] < place[i]
      BY <2>3, <3>1
    <3>4. i < j \/ j < i
      BY <3>1
    <3> QED
      BY <3>1, <3>2, <3>3, <3>4
  <2>5. place \in Injection(1..n, left)
    BY <2>3, <2>4 DEF Injection, IsInjective
  <2>6. IsFiniteSet(1..n) /\ Cardinality(1..n) = n /\ Cardinality(left) = n /\ IsFiniteSet(left)
    BY <1>2, FS_Interval DEF n
  <2>7. place \in Surjection(1..n, left)
    BY <2>5, <2>6, FS_Injection
  <2> QED
    BY <2>5, <2>7 DEF Bijection
<1>4. /\ \A i \in 1..n : place[i] \in DOMAIN order /\ order[place[i]] \notin keys
      /\ \A i, j \in 1..n : place[i] = place[j] => i = j
      /\ \A x \in left : \E i \in 1..n : place[i] = x
  <2> HIDE DEF place, n
  <2> QED
    BY <1>3 DEF Bijection, Injection, Surjection, IsInjective
<1>5. Erased(order, keys) = W
  BY DEF Erased
<1> HIDE DEF place, n
<1>6. W \in [1..n -> K]
  BY <1>1, <1>4
<1>7. W \in Seq(K)
  BY <1>2, <1>6
<1>8. IsInjective(order) => IsInjective(W)
  BY <1>4 DEF IsInjective
<1>9. ToSet(W) = ToSet(order) \ keys
  <2>1. ASSUME NEW x \in ToSet(order) \ keys PROVE x \in ToSet(W)
    <3>1. PICK i \in DOMAIN order : order[i] = x
      BY DEF ToSet
    <3>2. PICK j \in 1..n : place[j] = i
      BY <1>4, <3>1
    <3> QED
      BY <3>1, <3>2 DEF ToSet
  <2>2. ASSUME NEW x \in ToSet(W) PROVE x \in ToSet(order) \ keys
    BY <1>4 DEF ToSet
  <2> QED
    BY <2>1, <2>2
<1> QED
  BY <1>5, <1>7, <1>8, <1>9

LEMMA LengthIsCardinality ==
    ASSUME NEW K, NEW s \in Seq(K), IsInjective(s)
    PROVE  Len(s) = Cardinality(ToSet(s))
<1> DEFINE D == 1..Len(s)
           R == ToSet(s)
<1>1. DOMAIN s = D /\ Len(s) \in Nat
  OBVIOUS
<1>2. IsFiniteSet(D) /\ Cardinality(D) = Len(s)
  BY <1>1, FS_Interval
<1>3. s \in [D -> R] /\ \A x \in R : \E i \in D : s[i] = x
  BY <1>1 DEF ToSet
<1> HIDE DEF D, R
<1>4. s \in Injection(D, R)
  BY <1>3 DEF Injection
<1>5. s \in Surjection(D, R)
  BY <1>3 DEF Surjection
<1>6. s \in Bijection(D, R)
  BY <1>4, <1>5 DEF Bijection
<1>7. Cardinality(R) = Cardinality(D)
  BY <1>2, <1>6, FS_Bijection DEF ExistsBijection
<1> QED
  BY <1>2, <1>7 DEF R

\* What the first sequences of a concatenation give.
Joins(g, seqs, K) ==
    /\ g \in [1..Len(seqs) -> Seq(K)]
    /\ \A i \in 1..Len(seqs) : g[i] = IF i = 1 THEN seqs[i] ELSE g[i - 1] \o seqs[i]

LEMMA FlattenAlong ==
    ASSUME NEW K, NEW seqs \in Seq(Seq(K)), seqs # <<>>
    PROVE  \E g : Joins(g, seqs, K) /\ FlattenSeq(seqs) = g[Len(seqs)]
<1> DEFINE N == Len(seqs)
           Next(g, i) == IF i = 1 THEN seqs[i] ELSE g[i - 1] \o seqs[i]
           Fits(g, n) == g \in [1..n -> Seq(K)] /\ \A i \in 1..n : g[i] = Next(g, i)
           Bad == {n \in Nat : n \leq N /\ ~ \E g : Fits(g, n)}
<1>1. N \in Nat /\ \A i \in 1..N : seqs[i] \in Seq(K)
  OBVIOUS
<1>2. Bad = {}
  <2> SUFFICES ASSUME Bad # {} PROVE FALSE
    OBVIOUS
  <2>1. PICK n \in Bad : \A m \in Bad : ~(m < n)
    <3>1. \E x \in Bad : \A y \in Bad : <<y, x>> \notin OpToRel(<, Nat)
      BY NatLessThanWellFounded, WFMin
    <3> QED
      BY <3>1 DEF OpToRel
  <2>2. CASE n = 0
    <3>1. Fits([i \in {} |-> <<>>], 0)
      OBVIOUS
    <3> QED
      BY <2>1, <2>2, <3>1
  <2>3. CASE n # 0
    <3>1. n - 1 \in Nat /\ n - 1 < n /\ n \leq N /\ n \in Nat
      BY <1>1, <2>1, <2>3
    <3>2. PICK g : Fits(g, n - 1)
      <4> HIDE DEF Fits, N
      <4>1. n - 1 \notin Bad
        <5> HIDE DEF Bad
        <5> QED
          BY <2>1, <3>1
      <4>2. n - 1 \leq N
        BY <1>1, <3>1
      <4> QED
        BY <3>1, <4>1, <4>2
    <3> DEFINE h == [i \in 1..n |-> Next(g, i)]
    <3>3. ASSUME NEW i \in 1..n PROVE Next(g, i) \in Seq(K)
      <4>1. seqs[i] \in Seq(K)
        BY <1>1, <3>1
      <4>2. i # 1 => g[i - 1] \in Seq(K)
        BY <3>1, <3>2
      <4> QED
        BY <4>1, <4>2
    <3>4. ASSUME NEW i \in 1..n, i # 1 PROVE h[i - 1] = g[i - 1]
      <4>1. i - 1 \in 1..n /\ i - 1 \in 1..(n - 1)
        BY <3>1, <3>4
      <4>2. h[i - 1] = Next(g, i - 1)
        <5> HIDE DEF Next
        <5> QED
          BY <4>1
      <4>3. g[i - 1] = Next(g, i - 1)
        <5> HIDE DEF Next
        <5> QED
          BY <3>2, <4>1
      <4> QED
        BY <4>2, <4>3
    <3>5. ASSUME NEW i \in 1..n PROVE h[i] = Next(h, i)
      <4>1. Next(h, i) = Next(g, i)
        <5> HIDE DEF h
        <5> QED
          BY <3>4
      <4> HIDE DEF Next
      <4> QED
        BY <4>1
    <3>6. Fits(h, n)
      <4>1. h \in [1..n -> Seq(K)]
        <5> HIDE DEF Next
        <5> QED
          BY <3>3
      <4> HIDE DEF h, Next
      <4> QED
        BY <3>5, <4>1
    <3> HIDE DEF Fits, h
    <3> QED
      BY <2>1, <3>6
  <2> QED
    BY <2>2, <2>3
<1>3. PICK g : Fits(g, N)
  <2>1. N \in Nat /\ N \leq N
    BY <1>1
  <2> HIDE DEF Fits, N
  <2> QED
    BY <1>2, <2>1
<1>4. N # 0
  OBVIOUS
<1>5. QED
  <2> DEFINE IsFlatten(f) == f = [i \in 1..N |-> Next(f, i)]
             F == CHOOSE f : IsFlatten(f)
  <2>1. FlattenSeq(seqs) = F[N]
    BY <1>4 DEF FlattenSeq
  <2>2. IsFlatten(g)
    <3> HIDE DEF Next
    <3> QED
      BY <1>3
  <2>3. IsFlatten(F)
    <3> HIDE DEF IsFlatten
    <3> QED
      BY <2>2
  <2> HIDE DEF F
  <2>4. \A i \in 1..N : F[i] = IF i = 1 THEN seqs[i] ELSE F[i - 1] \o seqs[i]
    BY <2>3
  <2> DEFINE Strange == {i \in Nat : i \in 1..N /\ F[i] \notin Seq(K)}
  <2>5. Strange = {}
    <3> SUFFICES ASSUME Strange # {} PROVE FALSE
      OBVIOUS
    <3>1. PICK n \in Strange : \A m \in Strange : ~(m < n)
      <4>1. \E x \in Strange : \A y \in Strange : <<y, x>> \notin OpToRel(<, Nat)
        BY NatLessThanWellFounded, WFMin
      <4> QED
        BY <4>1 DEF OpToRel
    <3>2. CASE n = 1
      BY <1>1, <2>4, <3>1, <3>2
    <3>3. CASE n # 1
      <4>1. n - 1 \in Nat /\ n - 1 \in 1..N /\ n - 1 < n
        BY <1>1, <3>1, <3>3
      <4>2. F[n - 1] \in Seq(K)
        BY <3>1, <4>1
      <4>3. F[n] = F[n - 1] \o seqs[n] /\ seqs[n] \in Seq(K)
        BY <1>1, <2>4, <3>1, <3>3
      <4>4. F[n] \in Seq(K)
        <5> HIDE DEF F
        <5> QED
          BY <4>2, <4>3
      <4> QED
        BY <3>1, <4>4
    <3> QED
      BY <3>2, <3>3
  <2>6. N \in 1..N
    BY <1>1, <1>4
  <2>7. F \in [1..N -> Seq(K)]
    <3>1. ASSUME NEW i \in 1..N PROVE F[i] \in Seq(K)
      <4>1. i \in Nat
        BY <1>1
      <4>2. i \notin Strange
        BY <2>5
      <4> HIDE DEF N
      <4> QED
        BY <4>1, <4>2
    <3>2. DOMAIN F = 1..N /\ F = [i \in 1..N |-> Next(F, i)]
      BY <2>3
    <3> HIDE DEF Next
    <3> QED
      BY <3>1, <3>2
  <2> QED
    BY <2>1, <2>4, <2>7 DEF Joins

LEMMA FlattenedIsSequence ==
    ASSUME NEW K, NEW seqs \in Seq(Seq(K))
    PROVE  FlattenSeq(seqs) \in Seq(K)
<1>1. CASE seqs = <<>>
  BY <1>1 DEF FlattenSeq
<1>2. CASE seqs # <<>>
  <2>1. Len(seqs) \in 1..Len(seqs)
    BY <1>2
  <2>2. PICK g : Joins(g, seqs, K) /\ FlattenSeq(seqs) = g[Len(seqs)]
    BY <1>2, FlattenAlong
  <2> QED
    BY <2>1, <2>2 DEF Joins
<1> QED
  BY <1>1, <1>2

\* Sequences of one element each.
LEMMA FlattenOfSingles ==
    ASSUME NEW K, NEW s \in Seq(K), NEW seqs \in Seq(Seq(K)), Len(seqs) = Len(s),
           \A i \in 1..Len(s) : seqs[i] = <<s[i]>>
    PROVE  FlattenSeq(seqs) = s
<1> DEFINE N == Len(s)
           Begins(t, n) == Len(t) = n /\ \A i \in 1..n : t[i] = s[i]
<1>1. N \in Nat /\ Len(seqs) = N /\ \A n \in 1..N : s[n] \in K
  OBVIOUS
<1>2. CASE seqs = <<>>
  BY <1>2 DEF FlattenSeq
<1>3. CASE seqs # <<>>
  <2>1. N \in 1..N
    BY <1>1, <1>3
  <2>2. PICK g : /\ g \in [1..N -> Seq(K)]
                 /\ \A i \in 1..N : g[i] = IF i = 1 THEN seqs[i] ELSE g[i - 1] \o seqs[i]
                 /\ FlattenSeq(seqs) = g[N]
    <3>1. PICK g : Joins(g, seqs, K) /\ FlattenSeq(seqs) = g[Len(seqs)]
      BY <1>3, FlattenAlong
    <3> QED
      BY <1>1, <3>1 DEF Joins
  <2> DEFINE P == {n \in 0..N : n = 0 \/ Begins(g[n], n)}
  <2>3. 0 \in P
    BY <1>1
  <2>4. ASSUME NEW n \in 1..N, n - 1 \in P PROVE n \in P
    <3>1. n \in 0..N /\ n - 1 \in 0..N /\ seqs[n] = <<s[n]>> /\ s[n] \in K
      BY <1>1
    <3>2. CASE n = 1
      <4>1. g[1] = <<s[1]>>
        BY <2>2, <3>1, <3>2
      <4>2. Begins(<<s[1]>>, 1)
        OBVIOUS
      <4> QED
        BY <3>1, <3>2, <4>1, <4>2
    <3>3. CASE n # 1
      <4> DEFINE t == g[n - 1]
      <4>1. t \in Seq(K) /\ Begins(t, n - 1)
        <5>1. n - 1 \in 1..N
          BY <1>1, <3>3
        <5>2. t \in Seq(K)
          BY <2>2, <5>1
        <5> QED
          BY <2>4, <3>3, <5>2
      <4>2. g[n] = t \o <<s[n]>>
        BY <2>2, <3>1, <3>3
      <4> HIDE DEF t
      <4>3. Begins(t \o <<s[n]>>, n)
        BY <1>1, <3>1, <4>1
      <4> QED
        BY <3>1, <4>2, <4>3
    <3> QED
      BY <3>2, <3>3
  <2> HIDE DEF P
  <2>5. N \in P
    <3>1. \A n \in 0..N : n \in P
      BY <1>1, <2>3, <2>4, CountUp
    <3> QED
      BY <1>1, <3>1
  <2>6. g[N] \in Seq(K) /\ Begins(g[N], N)
    BY <2>1, <2>2, <2>5 DEF P
  <2>7. ASSUME NEW t \in Seq(K), Begins(t, N) PROVE t = s
    <3>1. Len(t) = Len(s) /\ \A i \in 1..Len(s) : t[i] = s[i]
      BY <2>7
    <3> QED
      BY <3>1
  <2> QED
    BY <2>2, <2>6, <2>7
<1> QED
  BY <1>2, <1>3

----------------------------------------------------------------------------
(* Folds from the left                                                     *)

LEMMA MaxIsIn ==
    ASSUME NEW n \in Nat, NEW s \in SUBSET (1..n), s # {}
    PROVE  Max(s) \in s /\ \A x \in s : x \leq Max(s)
<1> DEFINE Bounds == {m \in Nat : \A x \in s : x \leq m}
<1>1. n \in Bounds
  OBVIOUS
<1>2. PICK m \in Bounds : \A y \in Bounds : ~(y < m)
  <2>1. \E m \in Bounds : \A y \in Bounds : <<y, m>> \notin OpToRel(<, Nat)
    <3>1. Bounds \subseteq Nat /\ Bounds # {}
      BY <1>1
    <3> HIDE DEF Bounds
    <3> QED
      BY <3>1, NatLessThanWellFounded, WFMin
  <2> QED
    BY <2>1 DEF OpToRel
<1>3. m \in s
  <2> SUFFICES ASSUME m \notin s PROVE FALSE
    OBVIOUS
  <2>0. \A y \in s : y \in Nat /\ y >= 1
    OBVIOUS
  <2>1. PICK x \in s : x \in Nat /\ x >= 1
    BY <2>0
  <2>2. \A y \in s : y \in Nat /\ y \leq m /\ y # m
    BY <1>2, <2>0
  <2>3. m \in Nat /\ m - 1 \in Nat /\ m - 1 < m
    BY <1>2, <2>1, <2>2
  <2>4. \A y \in s : y \leq m - 1
    BY <2>2, <2>3
  <2>5. m - 1 \in Bounds
    BY <2>3, <2>4
  <2> QED
    BY <1>2, <2>3, <2>5
<1>4. \E x \in s : \A y \in s : x >= y
  BY <1>2, <1>3
<1>5. Max(s) \in s /\ \A y \in s : Max(s) >= y
  BY <1>4 DEF Max
<1> QED
  BY <1>5

\* The beginnings of 1..N are its last steps.
LEMMA BeginningsAre ==
    ASSUME NEW N \in Nat, NEW n \in 1..N
    PROVE  /\ 1..n \in SUBSET (1..N) /\ 1..n # {}
           /\ Max(1..n) = n /\ (1..n) \ {n} = 1..(n - 1)
<1>1. 1..n \in SUBSET (1..N) /\ 1..n # {} /\ n \in Nat /\ n \in 1..n
  OBVIOUS
<1>2. Max(1..n) \in 1..n /\ n \leq Max(1..n)
  BY <1>1, MaxIsIn
<1>3. (1..n) \ {n} = 1..(n - 1)
  BY <1>1
<1> QED
  BY <1>1, <1>2, <1>3

\* h gives each set of places what a fold from the left gives of them.
FoldOf(h, base, N, step) ==
    \A s \in SUBSET (1..N) : h[s] = IF s = {} THEN base ELSE step[Max(s)][h[s \ {Max(s)}]]

LEMMA FoldsExist ==
    ASSUME NEW V, NEW base \in V, NEW N \in Nat, NEW step \in [1..N -> [V -> V]]
    PROVE  \E h \in [SUBSET (1..N) -> V] : FoldOf(h, base, N, step)
<1> DEFINE S == 1..N
           Later(s) == s \ {Max(s)}
           UpTo(n) == {s \in SUBSET S : Cardinality(s) \leq n}
           Next(g, s) == IF s = {} THEN base ELSE step[Max(s)][g[Later(s)]]
           Fits(g, n) == g \in [UpTo(n) -> V] /\ \A s \in UpTo(n) : g[s] = Next(g, s)
           Bad == {n \in Nat : ~ \E g : Fits(g, n)}
<1>0. IsFiniteSet(S)
  BY FS_Interval
<1>1. \A s \in SUBSET S : IsFiniteSet(s) /\ Cardinality(s) \in Nat
  BY <1>0, FS_Subset, FS_CardinalityType
<1>2. \A s \in SUBSET S : s # {} =>
        /\ Later(s) \in SUBSET S /\ Cardinality(Later(s)) = Cardinality(s) - 1
        /\ Max(s) \in S
  BY <1>1, MaxIsIn, FS_RemoveElement
<1>e. \A s \in SUBSET S : s # {} => Cardinality(s) # 0
  BY <1>1, FS_EmptySet
<1>t. \A i \in S, v \in V : step[i][v] \in V
  OBVIOUS
<1> HIDE DEF S, Later
<1>3. Bad = {}
  <2> SUFFICES ASSUME Bad # {} PROVE FALSE
    OBVIOUS
  <2>1. PICK n \in Bad : \A m \in Bad : ~(m < n)
    <3>1. \E x \in Bad : \A y \in Bad : <<y, x>> \notin OpToRel(<, Nat)
      BY NatLessThanWellFounded, WFMin
    <3> QED
      BY <3>1 DEF OpToRel
  <2>2. \E g : \A s \in UpTo(n) : s # {} =>
            g[Later(s)] \in V /\ g[Later(s)] = Next(g, Later(s))
    <3>1. CASE n = 0
      <4>1. \A s \in UpTo(n) : s = {}
        BY <1>1, <1>e, <3>1
      <4> QED
        BY <4>1
    <3>2. CASE n # 0
      <4>1. n - 1 \in Nat /\ n - 1 \notin Bad
        <5>1. n - 1 \in Nat /\ n - 1 < n
          BY <3>2
        <5> HIDE DEF Bad
        <5> QED
          BY <2>1, <5>1
      <4>2. PICK g : Fits(g, n - 1)
        BY <4>1
      <4>3. ASSUME NEW s \in UpTo(n), s # {}
            PROVE  g[Later(s)] \in V /\ g[Later(s)] = Next(g, Later(s))
        <5>1. Later(s) \in UpTo(n - 1)
          BY <1>1, <1>2, <4>1, <4>3
        <5> HIDE DEF Next, UpTo
        <5> QED
          BY <4>2, <5>1
      <4> QED
        BY <4>3
    <3> QED
      BY <3>1, <3>2
  <2>3. PICK g : \A s \in UpTo(n) : s # {} => g[Later(s)] \in V /\ g[Later(s)] = Next(g, Later(s))
    BY <2>2
  <2> DEFINE h == [s \in UpTo(n) |-> Next(g, s)]
  <2>4. ASSUME NEW s \in UpTo(n) PROVE Next(g, s) \in V
    BY <1>2, <1>t, <2>3
  <2>5. ASSUME NEW s \in UpTo(n), s # {} PROVE h[Later(s)] = g[Later(s)]
    <3>1. Later(s) \in UpTo(n)
      BY <1>1, <1>2, <2>5
    <3> HIDE DEF Next
    <3>2. h[Later(s)] = Next(g, Later(s))
      BY <3>1
    <3> QED
      BY <2>3, <2>5, <3>2
  <2>6. \A s \in UpTo(n) : h[s] = Next(h, s)
    <3>1. \A s \in UpTo(n) : Next(h, s) = Next(g, s)
      <4> HIDE DEF h, UpTo
      <4> QED
        BY <2>5
    <3> HIDE DEF Next
    <3> QED
      BY <3>1
  <2>7. h \in [UpTo(n) -> V]
    <3> HIDE DEF Next
    <3> QED
      BY <2>4
  <2> QED
    <3> HIDE DEF Next, UpTo, h
    <3>1. Fits(h, n)
      BY <2>6, <2>7
    <3> QED
      BY <2>1, <3>1
<1>4. PICK g : Fits(g, Cardinality(S))
  BY <1>0, <1>1, <1>3
<1>5. UpTo(Cardinality(S)) = SUBSET S
  BY <1>0, FS_Subset
<1>6. g \in [SUBSET S -> V] /\ \A s \in SUBSET S : g[s] = Next(g, s)
  <2> HIDE DEF Next, UpTo
  <2> QED
    BY <1>4, <1>5
<1> QED
  BY <1>6 DEF S, Later, FoldOf

\* F gives each set of places what a fold from the left gives of them, as far
\* as its values are in V.
Folded(F, V, base, N, step) ==
    /\ F[{}] = base
    /\ \A s \in SUBSET (1..N) :
          s # {} /\ F[s \ {Max(s)}] \in V => F[s] = step[Max(s)][F[s \ {Max(s)}]]

\* The values after each place.
Along(r, V, base, N, step) ==
    /\ r \in [0..N -> V] /\ r[0] = base
    /\ \A n \in 1..N : r[n] = step[n][r[n - 1]]

\* A fold from the left passes through the values after each place.
LEMMA FoldedAlong ==
    ASSUME NEW V, NEW base \in V, NEW N \in Nat, NEW step \in [1..N -> [V -> V]],
           NEW F, Folded(F, V, base, N, step)
    PROVE  \E r : Along(r, V, base, N, step) /\ F[1..N] = r[N]
<1>1. F[1..0] = base
  <2>1. 1..0 = {}
    OBVIOUS
  <2> QED
    BY <2>1 DEF Folded
<1>2. ASSUME NEW n \in 1..N, F[1..(n - 1)] \in V
      PROVE  F[1..n] = step[n][F[1..(n - 1)]] /\ F[1..n] \in V
  <2>1. 1..n \in SUBSET (1..N) /\ 1..n # {} /\ Max(1..n) = n /\ (1..n) \ {n} = 1..(n - 1)
    BY BeginningsAre
  <2>2. F[1..n] = step[n][F[1..(n - 1)]]
    BY <1>2, <2>1 DEF Folded
  <2>3. step[n] \in [V -> V]
    OBVIOUS
  <2> QED
    BY <1>2, <2>2, <2>3
<1> DEFINE P == {n \in 0..N : F[1..n] \in V}
<1>3. \A n \in 0..N : n \in P
  <2>1. 0 \in P
    BY <1>1
  <2>2. ASSUME NEW n \in 1..N, n - 1 \in P PROVE n \in P
    BY <1>2, <2>2
  <2> HIDE DEF P
  <2> QED
    BY <2>1, <2>2, CountUp
<1> DEFINE r == [n \in 0..N |-> F[1..n]]
<1>4. r \in [0..N -> V] /\ r[0] = base /\ F[1..N] = r[N]
  BY <1>1, <1>3
<1>5. ASSUME NEW n \in 1..N PROVE r[n] = step[n][r[n - 1]]
  <2>1. n \in 0..N /\ n - 1 \in 0..N /\ F[1..(n - 1)] \in V
    BY <1>3
  <2> QED
    BY <1>2, <2>1
<1> HIDE DEF r
<1> QED
  BY <1>4, <1>5 DEF Along

\* A function defined step by step exists.
LEMMA StepsExist ==
    ASSUME NEW V, NEW base \in V, NEW N \in Nat, NEW step \in [1..N -> [V -> V]]
    PROVE  \E r : Along(r, V, base, N, step)
<1> DEFINE Upto(r, n) == /\ r \in [0..n -> V] /\ r[0] = base
                         /\ \A m \in 1..n : r[m] = step[m][r[m - 1]]
           P == {n \in 0..N : \E r : Upto(r, n)}
<1>1. 0 \in P
  <2>1. Upto([m \in 0..0 |-> base], 0)
    OBVIOUS
  <2> HIDE DEF Upto
  <2> QED
    BY <2>1
<1>2. ASSUME NEW n \in 1..N, n - 1 \in P PROVE n \in P
  <2>1. PICK r : Upto(r, n - 1)
    BY <1>2
  <2> DEFINE v == step[n][r[n - 1]]
             q == [m \in 0..n |-> IF m = n THEN v ELSE r[m]]
  <2>2. n \in Nat /\ n - 1 \in Nat /\ 0..(n - 1) = (0..n) \ {n} /\ n - 1 \in 0..(n - 1) /\ n # 0
    OBVIOUS
  <2>3. r[n - 1] \in V /\ step[n] \in [V -> V]
    BY <2>1, <2>2
  <2>4. v \in V
    BY <2>3
  <2> HIDE DEF v
  <2>5. q \in [0..n -> V] /\ q[0] = base
    BY <2>1, <2>2, <2>4
  <2>6. ASSUME NEW m \in 1..n PROVE q[m] = step[m][q[m - 1]]
    <3>1. m - 1 \in 0..n /\ m \in 0..n /\ m - 1 # n
      OBVIOUS
    <3>2. q[m - 1] = r[m - 1]
      BY <3>1
    <3>3. CASE m = n
      BY <3>1, <3>2, <3>3 DEF v
    <3>4. CASE m # n
      <4>1. m \in 1..(n - 1)
        BY <3>4
      <4>2. r[m] = step[m][r[m - 1]]
        BY <2>1, <4>1
      <4>3. q[m] = r[m]
        BY <3>1, <3>4
      <4> QED
        BY <3>2, <4>2, <4>3
    <3> QED
      BY <3>3, <3>4
  <2> HIDE DEF q
  <2>7. Upto(q, n)
    BY <2>5, <2>6
  <2> HIDE DEF Upto
  <2> QED
    BY <2>7
<1>3. N \in P
  <2> HIDE DEF P
  <2>1. \A n \in 0..N : n \in P
    BY <1>1, <1>2, CountUp
  <2> QED
    BY <2>1
<1> QED
  BY <1>3 DEF Along
=============================================================================
