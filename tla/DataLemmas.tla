----------------------------- MODULE DataLemmas -----------------------------
(***************************************************************************)
(* Facts about data that the proofs of several components share: queues,   *)
(* least numbers and smallest sets, the largest element of a finite set,   *)
(* sums over finite sets, and sequences put together.  The proofs argue by *)
(* a least counterexample, which WFMin yields, where a textbook would use  *)
(* induction.                                                              *)
(***************************************************************************)
EXTENDS Integers, Sequences, FiniteSets, FiniteSetsExt, SequencesExt,
        FiniteSetTheorems, WellFoundedInduction, TLAPS

\* Taking the front of the queue: the elements keep their order, one place
\* earlier, and the front is the only one that goes.
LEMMA TailElements ==
  ASSUME NEW S, NEW q \in Seq(S), q # <<>>
  PROVE  /\ Head(q) \in S /\ Head(q) = q[1]
         /\ Tail(q) \in Seq(S)
         /\ Len(q) \in Nat \ {0} /\ Len(Tail(q)) = Len(q) - 1
         /\ DOMAIN q = 1..Len(q) /\ DOMAIN Tail(q) = 1..(Len(q) - 1)
         /\ \A i \in 1..(Len(q) - 1) : Tail(q)[i] = q[i + 1]
  OBVIOUS

\* The same, said of the places of the old queue and of the new one.
LEMMA TailPlaces ==
  ASSUME NEW S, NEW q \in Seq(S), q # <<>>
  PROVE  /\ 1 \in DOMAIN q /\ Len(Tail(q)) <= Len(q)
         /\ \A i \in DOMAIN Tail(q) :
              i \in Nat \ {0} /\ i + 1 \in DOMAIN q /\ Tail(q)[i] = q[i + 1]
         /\ \A i \in DOMAIN q : i # 1 => \E j \in DOMAIN Tail(q) : Tail(q)[j] = q[i]
<1> DEFINE n == Len(q)
<1>1. /\ n \in Nat \ {0} /\ DOMAIN q = 1..n /\ DOMAIN Tail(q) = 1..(n - 1)
      /\ Len(Tail(q)) = n - 1
  BY TailElements
<1>2. \A i \in 1..(n - 1) : Tail(q)[i] = q[i + 1]
  BY TailElements
<1> HIDE DEF n
<1>3. /\ \A i \in 1..(n - 1) : i \in Nat \ {0} /\ i + 1 \in 1..n
      /\ \A i \in 1..n : i # 1 => i - 1 \in 1..(n - 1) /\ (i - 1) + 1 = i
  BY <1>1
<1>4. \A i \in 1..n : i # 1 => Tail(q)[i - 1] = q[i]
  BY <1>2, <1>3
<1>5. 1 \in 1..n /\ n - 1 <= n
  BY <1>1
<1> QED
  BY <1>1, <1>2, <1>3, <1>4, <1>5 DEF n

\* Joining the back of the queue: the others keep their places.
LEMMA AppendElements ==
  ASSUME NEW S, NEW q \in Seq(S), NEW e \in S
  PROVE  /\ Append(q, e) \in Seq(S)
         /\ Len(q) \in Nat /\ Len(Append(q, e)) = Len(q) + 1
         /\ DOMAIN q = 1..Len(q) /\ DOMAIN Append(q, e) = 1..(Len(q) + 1)
         /\ \A i \in 1..Len(q) : Append(q, e)[i] = q[i]
         /\ Append(q, e)[Len(q) + 1] = e
  OBVIOUS
-----------------------------------------------------------------------------
\* A set of naturals that has an element has a least one.
LEMMA LeastNatural ==
  ASSUME NEW T, T \subseteq Nat, T # {}
  PROVE  \E n \in T : \A m \in T : n <= m
<1> DEFINE R == {ss \in Nat \X Nat : ss[1] < ss[2]}
<1>1. IsWellFoundedOn(R, Nat)
  BY NatLessThanWellFounded, Zenon DEF OpToRel
<1> HIDE DEF R
<1>2. PICK n \in T : \A m \in T : ~ <<m, n>> \in R
  BY <1>1, WFMin
<1>3. \A m \in T : ~(m < n)
  BY <1>2 DEF R
<1> QED
  BY <1>3

\* Among some finite sets there is one none of whose proper subsets is there.
LEMMA SmallestSet ==
  ASSUME NEW S, IsFiniteSet(S), NEW B, B \subseteq SUBSET S, B # {}
  PROVE  \E T \in B : IsFiniteSet(T) /\ \A U \in SUBSET T : U # T => U \notin B
<1>1. B \subseteq FiniteSubsetsOf(S)
  BY FS_FiniteSubsetsOfFinite
<1>2. PICK T \in B : \A U \in B : ~ <<U, T>> \in StrictSubsetOrdering(S)
  BY <1>1, FS_StrictSubsetOrderingWellFounded, WFMin
<1>3. \A U \in SUBSET T : U # T => U \in SUBSET S /\ <<U, T>> \in StrictSubsetOrdering(S)
  BY DEF StrictSubsetOrdering
<1>4. IsFiniteSet(T)
  BY FS_Subset
<1>5. \A U \in SUBSET T : U # T => U \notin B
  BY <1>2, <1>3
<1> QED
  BY <1>4, <1>5

\* A finite set of integers has a largest element, and Max is it.
LEMMA FiniteSetHasMaximum ==
  ASSUME NEW S, S \subseteq Int, IsFiniteSet(S), S # {}
  PROVE  Max(S) \in S /\ \A x \in S : x <= Max(S)
<1> DEFINE Bounded(T) == \E x \in T : \A y \in T : x >= y
           B == {T \in SUBSET S : T # {} /\ ~Bounded(T)}
<1>1. B = {}
  <2> SUFFICES ASSUME B # {} PROVE FALSE
    OBVIOUS
  <2>1. PICK T \in B : \A U \in SUBSET T : U # T => U \notin B
    <3>1. B \subseteq SUBSET S
      OBVIOUS
    <3> HIDE DEF B
    <3> QED
      BY <3>1, SmallestSet
  <2>2. PICK z \in T : TRUE
    BY <2>1
  <2>3. T \ {z} \notin B /\ T \subseteq Int
    BY <2>1, <2>2
  <2>4. CASE T \ {z} = {}
    BY <2>1, <2>2, <2>3, <2>4
  <2>5. CASE T \ {z} # {}
    <3>1. PICK x \in T \ {z} : \A y \in T \ {z} : x >= y
      BY <2>1, <2>3, <2>5
    <3>2. \A y \in T : x >= y \/ y = z
      BY <3>1
    <3>3. x >= z \/ \A y \in T : z >= y
      BY <2>2, <2>3, <3>1, <3>2
    <3> QED
      BY <2>1, <2>2, <3>1, <3>2, <3>3
  <2> QED
    BY <2>4, <2>5
<1>2. PICK x \in S : \A y \in S : x >= y
  BY <1>1
<1>3. Max(S) \in S /\ \A y \in S : Max(S) >= y
  BY <1>2 DEF Max
<1> QED
  BY <1>3

\* A finite set of integers has a least element too.
LEMMA FiniteSetHasMinimum ==
  ASSUME NEW S, S \subseteq Int, IsFiniteSet(S), S # {}
  PROVE  Min(S) \in S /\ \A x \in S : Min(S) <= x
<1> DEFINE Bounded(T) == \E x \in T : \A y \in T : x <= y
           B == {T \in SUBSET S : T # {} /\ ~Bounded(T)}
<1>1. B = {}
  <2> SUFFICES ASSUME B # {} PROVE FALSE
    OBVIOUS
  <2>1. PICK T \in B : \A U \in SUBSET T : U # T => U \notin B
    <3>1. B \subseteq SUBSET S
      OBVIOUS
    <3> HIDE DEF B
    <3> QED
      BY <3>1, SmallestSet
  <2>2. PICK z \in T : TRUE
    BY <2>1
  <2>3. T \ {z} \notin B /\ T \subseteq Int
    BY <2>1, <2>2
  <2>4. CASE T \ {z} = {}
    BY <2>1, <2>2, <2>3, <2>4
  <2>5. CASE T \ {z} # {}
    <3>1. PICK x \in T \ {z} : \A y \in T \ {z} : x <= y
      BY <2>1, <2>3, <2>5
    <3>2. \A y \in T : x <= y \/ y = z
      BY <3>1
    <3>3. x <= z \/ \A y \in T : z <= y
      BY <2>2, <2>3, <3>1, <3>2
    <3> QED
      BY <2>1, <2>2, <3>1, <3>2, <3>3
  <2> QED
    BY <2>4, <2>5
<1>2. PICK x \in S : \A y \in S : x <= y
  BY <1>1
<1>3. Min(S) \in S /\ \A y \in S : Min(S) <= y
  BY <1>2 DEF Min
<1> QED
  BY <1>3

\* What a function makes of a finite set is finite.
LEMMA FiniteImage ==
  ASSUME NEW S, IsFiniteSet(S), NEW f
  PROVE  IsFiniteSet({f[x] : x \in S})
<1> DEFINE T == {f[x] : x \in S}
           g == [x \in S |-> f[x]]
<1>1. g \in Surjection(S, T)
  BY DEF Surjection
<1> QED
  BY <1>1, FS_Surjection
-----------------------------------------------------------------------------
\* SumFunctionOnSet adds the values up in the order in which CHOOSE takes the
\* elements.  UpTo is the part of that sum on the sets of at most n elements.
Chosen(s) == CHOOSE x \in s : TRUE
AddsUp(f, D, g) ==
  g = [s \in D |-> IF s = {} THEN 0 ELSE f[Chosen(s)] + g[s \ {Chosen(s)}]]
UpTo(S, n) == {s \in SUBSET S : Cardinality(s) <= n}

\* A set without its chosen element is one of at most n - 1 elements.
LEMMA OneLess ==
  ASSUME NEW S, IsFiniteSet(S), NEW n \in Nat, NEW s \in UpTo(S, n), s # {}
  PROVE  /\ n # 0 /\ Chosen(s) \in s /\ s \ {Chosen(s)} \in UpTo(S, n - 1)
         /\ IsFiniteSet(s)
<1>1. Chosen(s) \in s
  BY DEF Chosen
<1>2. IsFiniteSet(s) /\ Cardinality(s) \in Nat /\ Cardinality(s) <= n
  BY FS_Subset, FS_CardinalityType DEF UpTo
<1>3. Cardinality(s \ {Chosen(s)}) = Cardinality(s) - 1 /\ Cardinality(s) # 0
  BY <1>1, <1>2, FS_RemoveElement, FS_EmptySet
<1>4. s \ {Chosen(s)} \in SUBSET S
  BY DEF UpTo
<1> QED
  BY <1>1, <1>2, <1>3, <1>4 DEF UpTo

\* There is a function that adds up: on sets of at most n elements for every n,
\* since one for n - 1 can be continued.
LEMMA SumExists ==
  ASSUME NEW f, NEW S, IsFiniteSet(S)
  PROVE  \E g : AddsUp(f, SUBSET S, g)
<1> DEFINE T == {n \in Nat : ~ \E g : AddsUp(f, UpTo(S, n), g)}
<1>1. T = {}
  <2> SUFFICES ASSUME T # {} PROVE FALSE
    OBVIOUS
  <2>1. PICK n \in T : \A m \in T : n <= m
    <3>1. T \subseteq Nat
      OBVIOUS
    <3> HIDE DEF T
    <3> QED
      BY <3>1, LeastNatural
  <2>2. n \in Nat /\ ~ \E g : AddsUp(f, UpTo(S, n), g)
    BY <2>1
  <2>3. PICK h : n # 0 => AddsUp(f, UpTo(S, n - 1), h)
    <3>1. n # 0 => n - 1 \in Nat /\ n - 1 \notin T
      BY <2>1, <2>2
    <3> QED
      BY <3>1
  <2> HIDE DEF T
  <2> DEFINE g == [s \in UpTo(S, n) |-> IF s = {} THEN 0
                                        ELSE f[Chosen(s)] + h[s \ {Chosen(s)}]]
  <2>4. ASSUME NEW s \in UpTo(S, n), s # {}
        PROVE  g[s \ {Chosen(s)}] = h[s \ {Chosen(s)}]
    <3> DEFINE t == s \ {Chosen(s)}
    <3>1. n # 0 /\ t \in UpTo(S, n - 1)
      BY <2>2, <2>4, OneLess
    <3>2. t \in UpTo(S, n)
      <4>1. IsFiniteSet(t) /\ Cardinality(t) \in Nat
        BY <3>1, FS_Subset, FS_CardinalityType DEF UpTo
      <4> QED
        BY <2>2, <3>1, <4>1 DEF UpTo
    <3> HIDE DEF t
    <3>3. h[t] = IF t = {} THEN 0 ELSE f[Chosen(t)] + h[t \ {Chosen(t)}]
      BY <2>3, <3>1 DEF AddsUp
    <3> QED
      BY <3>2, <3>3 DEF t
  <2>5. AddsUp(f, UpTo(S, n), g)
    <3>1. g = [s \in UpTo(S, n) |-> IF s = {} THEN 0
                                    ELSE f[Chosen(s)] + g[s \ {Chosen(s)}]]
      BY <2>4
    <3> HIDE DEF g
    <3> QED
      BY <3>1 DEF AddsUp
  <2> QED
    BY <2>2, <2>5
<1>2. UpTo(S, Cardinality(S)) = SUBSET S /\ Cardinality(S) \in Nat
  BY FS_Subset, FS_CardinalityType DEF UpTo
<1>3. \E g : AddsUp(f, UpTo(S, Cardinality(S)), g)
  BY <1>1, <1>2
<1> QED
  BY <1>2, <1>3

\* SumFunctionOnSet is the value of such a function.
LEMMA SumDefinition ==
  ASSUME NEW f, NEW S, IsFiniteSet(S)
  PROVE  \E g : AddsUp(f, SUBSET S, g) /\ SumFunctionOnSet(f, S) = g[S]
<1> DEFINE g == CHOOSE g : AddsUp(f, SUBSET S, g)
<1>1. AddsUp(f, SUBSET S, g)
  BY SumExists
<1>2. SumFunctionOnSet(f, S) = g[S]
  BY DEF SumFunctionOnSet, FoldFunctionOnSet, MapThenFoldSet, AddsUp, Chosen
<1> QED
  BY <1>1, <1>2

Alike(f, g, S) == \A x \in S : f[x] = g[x]

\* Two such functions agree on the sets on which the summands do.
LEMMA SumsAgree ==
  \A f, g, S, T, a, b :
    /\ IsFiniteSet(S) /\ S \subseteq T /\ Alike(f, g, S)
    /\ AddsUp(f, SUBSET S, a) /\ AddsUp(g, SUBSET T, b)
    => a[S] = b[S]
<1> SUFFICES ASSUME NEW f, NEW g, NEW S, NEW T, NEW a, NEW b,
                    IsFiniteSet(S), S \subseteq T, Alike(f, g, S),
                    AddsUp(f, SUBSET S, a), AddsUp(g, SUBSET T, b)
             PROVE  a[S] = b[S]
  OBVIOUS
<1> DEFINE B == {s \in SUBSET S : a[s] # b[s]}
<1> SUFFICES ASSUME B # {} PROVE FALSE
  OBVIOUS
<1>1. PICK s \in B : IsFiniteSet(s) /\ \A u \in SUBSET s : u # s => u \notin B
  <2>1. B \subseteq SUBSET S
    OBVIOUS
  <2> HIDE DEF B
  <2> QED
    BY <2>1, SmallestSet
<1>2. s \in SUBSET S /\ s \in SUBSET T /\ a[s] # b[s]
  BY <1>1
<1>3. CASE s = {}
  BY <1>2, <1>3 DEF AddsUp
<1>4. CASE s # {}
  <2> DEFINE c == Chosen(s)
  <2>1. c \in s
    BY <1>4 DEF Chosen
  <2>2. a[s \ {c}] = b[s \ {c}]
    BY <1>1, <1>2, <2>1
  <2>3. f[c] = g[c]
    BY <1>2, <2>1 DEF Alike
  <2>4. a[s] = f[c] + a[s \ {c}] /\ b[s] = g[c] + b[s \ {c}]
    BY <1>2, <1>4 DEF AddsUp
  <2> QED
    BY <1>2, <2>2, <2>3, <2>4
<1> QED
  BY <1>3, <1>4

\* The empty sum is zero.
LEMMA SumOfNothing ==
  ASSUME NEW f
  PROVE  SumFunctionOnSet(f, {}) = 0
<1>1. PICK g : AddsUp(f, SUBSET {}, g) /\ SumFunctionOnSet(f, {}) = g[{}]
  BY FS_EmptySet, SumDefinition
<1> QED
  BY <1>1 DEF AddsUp

\* The sum depends on the summands only.
LEMMA SumOfSame ==
  ASSUME NEW f, NEW g, NEW S, IsFiniteSet(S), \A x \in S : f[x] = g[x]
  PROVE  SumFunctionOnSet(f, S) = SumFunctionOnSet(g, S)
<1>1. PICK a : AddsUp(f, SUBSET S, a) /\ SumFunctionOnSet(f, S) = a[S]
  BY SumDefinition
<1>2. PICK b : AddsUp(g, SUBSET S, b) /\ SumFunctionOnSet(g, S) = b[S]
  BY SumDefinition
<1>3. Alike(f, g, S) /\ S \subseteq S
  BY DEF Alike
<1>4. a[S] = b[S]
  BY <1>1, <1>2, <1>3, SumsAgree
<1> QED
  BY <1>1, <1>2, <1>4

\* The chosen element is added to the sum of the others.
LEMMA SumStep ==
  ASSUME NEW f, NEW S, IsFiniteSet(S), S # {}
  PROVE  /\ Chosen(S) \in S
         /\ SumFunctionOnSet(f, S) =
              f[Chosen(S)] + SumFunctionOnSet(f, S \ {Chosen(S)})
<1> DEFINE R == S \ {Chosen(S)}
<1>1. Chosen(S) \in S
  BY DEF Chosen
<1>2. IsFiniteSet(R) /\ R \subseteq S
  BY FS_RemoveElement
<1> HIDE DEF R
<1>3. PICK a : AddsUp(f, SUBSET R, a) /\ SumFunctionOnSet(f, R) = a[R]
  BY <1>2, SumDefinition
<1>4. PICK b : AddsUp(f, SUBSET S, b) /\ SumFunctionOnSet(f, S) = b[S]
  BY SumDefinition
<1>5. a[R] = b[R]
  <2>1. Alike(f, f, R)
    BY DEF Alike
  <2> QED
    BY <1>2, <1>3, <1>4, <2>1, SumsAgree
<1>6. b[S] = f[Chosen(S)] + b[R]
  BY <1>4 DEF AddsUp, R
<1> QED
  BY <1>1, <1>3, <1>4, <1>5, <1>6 DEF R

\* A sum of integers is an integer, one of naturals a natural.
LEMMA SumIsInteger ==
  ASSUME NEW f, NEW S, IsFiniteSet(S), \A x \in S : f[x] \in Int
  PROVE  SumFunctionOnSet(f, S) \in Int
<1> DEFINE B == {s \in SUBSET S : SumFunctionOnSet(f, s) \notin Int}
<1> SUFFICES ASSUME B # {} PROVE FALSE
  OBVIOUS
<1>1. PICK s \in B : IsFiniteSet(s) /\ \A u \in SUBSET s : u # s => u \notin B
  <2>1. B \subseteq SUBSET S
    OBVIOUS
  <2> HIDE DEF B
  <2> QED
    BY <2>1, SmallestSet
<1>2. s # {}
  <2>1. SumFunctionOnSet(f, s) \notin Int
    BY <1>1
  <2>2. SumFunctionOnSet(f, {}) \in Int
    BY SumOfNothing
  <2> QED
    BY <2>1, <2>2, Zenon
<1>3. /\ Chosen(s) \in s
      /\ SumFunctionOnSet(f, s) = f[Chosen(s)] + SumFunctionOnSet(f, s \ {Chosen(s)})
  BY <1>1, <1>2, SumStep
<1>4. SumFunctionOnSet(f, s \ {Chosen(s)}) \in Int
  BY <1>1, <1>3
<1> QED
  BY <1>1, <1>3, <1>4

LEMMA SumIsNatural ==
  ASSUME NEW f, NEW S, IsFiniteSet(S), \A x \in S : f[x] \in Nat
  PROVE  SumFunctionOnSet(f, S) \in Nat
<1> DEFINE B == {s \in SUBSET S : SumFunctionOnSet(f, s) \notin Nat}
<1> SUFFICES ASSUME B # {} PROVE FALSE
  OBVIOUS
<1>1. PICK s \in B : IsFiniteSet(s) /\ \A u \in SUBSET s : u # s => u \notin B
  <2>1. B \subseteq SUBSET S
    OBVIOUS
  <2> HIDE DEF B
  <2> QED
    BY <2>1, SmallestSet
<1>2. s # {}
  <2>1. SumFunctionOnSet(f, s) \notin Nat
    BY <1>1
  <2>2. SumFunctionOnSet(f, {}) \in Nat
    BY SumOfNothing
  <2> QED
    BY <2>1, <2>2, Zenon
<1>3. /\ Chosen(s) \in s
      /\ SumFunctionOnSet(f, s) = f[Chosen(s)] + SumFunctionOnSet(f, s \ {Chosen(s)})
  BY <1>1, <1>2, SumStep
<1>4. SumFunctionOnSet(f, s \ {Chosen(s)}) \in Nat
  BY <1>1, <1>3
<1> QED
  BY <1>1, <1>3, <1>4

\* Any element may be taken out: the order does not matter.
LEMMA SumWithout ==
  ASSUME NEW f, NEW S, IsFiniteSet(S), \A y \in S : f[y] \in Int, NEW x \in S
  PROVE  SumFunctionOnSet(f, S) = f[x] + SumFunctionOnSet(f, S \ {x})
<1> DEFINE Sum(s) == SumFunctionOnSet(f, s)
           B == {s \in SUBSET S : \E z \in s : Sum(s) # f[z] + Sum(s \ {z})}
<1>1. B = {}
  <2> SUFFICES ASSUME B # {} PROVE FALSE
    OBVIOUS
  <2>1. PICK s \in B : IsFiniteSet(s) /\ \A u \in SUBSET s : u # s => u \notin B
    <3>1. B \subseteq SUBSET S
      OBVIOUS
    <3> HIDE DEF B
    <3> QED
      BY <3>1, SmallestSet
  <2>2. PICK z \in s : Sum(s) # f[z] + Sum(s \ {z})
    BY <2>1
  <2> DEFINE c == Chosen(s)
  <2>3. c \in s /\ Sum(s) = f[c] + Sum(s \ {c})
    BY <2>1, <2>2, SumStep
  <2>4. \A u \in SUBSET s : u # s => \A y \in u : Sum(u) = f[y] + Sum(u \ {y})
    BY <2>1
  <2>5. \A u \in SUBSET s : Sum(u) \in Int
    BY <2>1, SumIsInteger, FS_Subset
  <2> HIDE DEF c, Sum, B
  <2>6. c # z
    BY <2>2, <2>3
  <2>7. Sum(s \ {c}) = f[z] + Sum((s \ {c}) \ {z})
    BY <2>2, <2>3, <2>4, <2>6
  <2>8. Sum(s \ {z}) = f[c] + Sum((s \ {z}) \ {c})
    BY <2>2, <2>3, <2>4, <2>6
  <2>9. (s \ {c}) \ {z} = (s \ {z}) \ {c}
    OBVIOUS
  <2>10. f[z] \in Int /\ f[c] \in Int /\ Sum((s \ {c}) \ {z}) \in Int
    BY <2>1, <2>2, <2>3, <2>5 DEF B
  <2>11. Sum(s) = f[c] + (f[z] + Sum((s \ {c}) \ {z}))
    BY <2>3, <2>7
  <2>12. f[z] + Sum(s \ {z}) = f[z] + (f[c] + Sum((s \ {c}) \ {z}))
    BY <2>8, <2>9
  <2>13. \A i, j, k \in Int : i + (j + k) = j + (i + k)
    OBVIOUS
  <2> QED
    BY <2>2, <2>10, <2>11, <2>12, <2>13
<1> QED
  BY <1>1

\* One more summand.
LEMMA SumWith ==
  ASSUME NEW f, NEW S, IsFiniteSet(S), NEW x, x \notin S,
         \A y \in S \cup {x} : f[y] \in Int
  PROVE  /\ SumFunctionOnSet(f, S \cup {x}) = f[x] + SumFunctionOnSet(f, S)
         /\ SumFunctionOnSet(f, S) \in Int
<1>1. (S \cup {x}) \ {x} = S /\ IsFiniteSet(S \cup {x})
  BY FS_AddElement
<1>2. SumFunctionOnSet(f, S \cup {x}) = f[x] + SumFunctionOnSet(f, (S \cup {x}) \ {x})
  BY <1>1, SumWithout
<1> QED
  BY <1>1, <1>2, SumIsInteger

\* The same of SumFunction, which sums over the whole domain.
LEMMA SumOneMore ==
  ASSUME NEW S, IsFiniteSet(S), NEW x, x \notin S,
         NEW f \in [S \cup {x} -> Int], NEW g \in [S -> Int], \A y \in S : f[y] = g[y]
  PROVE  /\ SumFunction(f) = f[x] + SumFunction(g)
         /\ SumFunction(g) \in Int /\ f[x] \in Int
<1>1. SumFunction(f) = SumFunctionOnSet(f, S \cup {x})
  BY DEF SumFunction
<1>2. SumFunction(g) = SumFunctionOnSet(g, S)
  BY DEF SumFunction
<1>3. SumFunctionOnSet(f, S) = SumFunctionOnSet(g, S)
  BY SumOfSame
<1>4. \A y \in S \cup {x} : f[y] \in Int
  OBVIOUS
<1>5. /\ SumFunctionOnSet(f, S \cup {x}) = f[x] + SumFunctionOnSet(f, S)
      /\ SumFunctionOnSet(f, S) \in Int
  BY <1>4, SumWith
<1> QED
  BY <1>1, <1>2, <1>3, <1>4, <1>5

LEMMA SumFunctionEmpty ==
  ASSUME NEW f, DOMAIN f = {}
  PROVE  SumFunction(f) = 0
  BY SumOfNothing DEF SumFunction

LEMMA SumFunctionNatural ==
  ASSUME NEW S, IsFiniteSet(S), NEW f \in [S -> Nat]
  PROVE  SumFunction(f) \in Nat
<1>1. SumFunction(f) = SumFunctionOnSet(f, S)
  BY DEF SumFunction
<1>2. \A x \in S : f[x] \in Nat
  OBVIOUS
<1> QED
  BY <1>1, <1>2, SumIsNatural

-----------------------------------------------------------------------------
(***************************************************************************)
(* Sequences put together by FlattenSeq.                                   *)
(***************************************************************************)
\* f[i] is the first i sequences of s put together, as FlattenSeq does it.
Concats(s, n, f) == f = [i \in 1..n |-> IF i = 1 THEN s[i] ELSE f[i-1] \o s[i]]

\* The function that FlattenSeq is computed with exists for every length.
LEMMA ConcatsExist ==
  ASSUME NEW s, NEW n \in Nat
  PROVE  \E f : Concats(s, n, f)
<1> DEFINE T == {m \in Nat : ~ \E f : Concats(s, m, f)}
<1>1. T = {}
  <2> SUFFICES ASSUME T # {} PROVE FALSE
    OBVIOUS
  <2>1. PICK m \in T : \A l \in T : m <= l
    <3>1. T \subseteq Nat
      OBVIOUS
    <3> HIDE DEF T
    <3> QED
      BY <3>1, LeastNatural
  <2>2. m \in Nat /\ ~ \E f : Concats(s, m, f)
    BY <2>1
  <2>3. PICK h : m # 0 => Concats(s, m - 1, h)
    <3>1. m # 0 => m - 1 \in Nat /\ m - 1 \notin T
      BY <2>1, <2>2
    <3> QED
      BY <3>1
  <2> HIDE DEF T
  <2> DEFINE f == [i \in 1..m |-> IF i = 1 THEN s[i] ELSE h[i-1] \o s[i]]
  <2>4. ASSUME NEW i \in 1..m, i # 1 PROVE f[i-1] = h[i-1]
    <3>1. i - 1 \in 1..(m - 1) /\ i - 1 \in 1..m /\ m # 0
      BY <2>2, <2>4
    <3>2. h[i-1] = IF i - 1 = 1 THEN s[i-1] ELSE h[(i-1)-1] \o s[i-1]
      BY <2>3, <3>1 DEF Concats
    <3> QED
      BY <3>1, <3>2
  <2>5. f = [i \in 1..m |-> IF i = 1 THEN s[i] ELSE f[i-1] \o s[i]]
    BY <2>4
  <2> HIDE DEF f
  <2> QED
    BY <2>2, <2>5 DEF Concats
<1> QED
  BY <1>1

\* How much comes before the k-th.
StartsAt(f, k) == IF k = 1 THEN 0 ELSE Len(f[k-1])

\* What the first n of them are put together to.
Joined(T, s, f, n) ==
  /\ f[n] \in Seq(T) /\ Len(f[n]) = StartsAt(f, n) + Len(s[n])
  /\ \A k \in 1..n :
       /\ StartsAt(f, k) \in Nat /\ StartsAt(f, k) + Len(s[k]) <= Len(f[n])
       /\ \A i \in 1..Len(s[k]) : f[n][StartsAt(f, k) + i] = s[k][i]

\* What \o keeps of its arguments.
LEMMA Appended ==
  ASSUME NEW T, NEW a \in Seq(T), NEW b \in Seq(T)
  PROVE  /\ a \o b \in Seq(T) /\ Len(a \o b) = Len(a) + Len(b)
         /\ Len(a) \in Nat /\ Len(b) \in Nat
         /\ \A i \in 1..Len(a) : (a \o b)[i] = a[i]
         /\ \A i \in 1..Len(b) : (a \o b)[Len(a) + i] = b[i]
  OBVIOUS

\* It puts the first n sequences together, each at its place.
LEMMA JoinedSoFar ==
  ASSUME NEW T, NEW s \in Seq(Seq(T)), NEW f, Concats(s, Len(s), f), NEW n \in 1..Len(s)
  PROVE  Joined(T, s, f, n)
<1> DEFINE B == {m \in 1..Len(s) : ~Joined(T, s, f, m)}
<1> SUFFICES ASSUME B # {} PROVE FALSE
  OBVIOUS
<1>1. PICK m \in B : \A l \in B : m <= l
  <2>1. B \subseteq Nat
    OBVIOUS
  <2> HIDE DEF B
  <2> QED
    BY <2>1, LeastNatural
<1>2. m \in 1..Len(s) /\ ~Joined(T, s, f, m) /\ Len(s) \in Nat
  BY <1>1
<1>3. s[m] \in Seq(T) /\ \A k \in 1..Len(s) : s[k] \in Seq(T)
  BY <1>2
<1>4. CASE m = 1
  <2>1. f[1] = s[1]
    BY <1>2, <1>4 DEF Concats
  <2>2. Joined(T, s, f, 1)
    BY <1>3, <1>4, <2>1 DEF Joined, StartsAt
  <2> QED
    BY <1>2, <1>4, <2>2
<1>5. CASE m # 1
  <2>1. m - 1 \in 1..Len(s) /\ m - 1 \notin B /\ m \in Nat
    BY <1>1, <1>2, <1>5
  <2>2. Joined(T, s, f, m - 1)
    BY <2>1
  <2>3. f[m] = f[m-1] \o s[m]
    BY <1>2, <1>5 DEF Concats
  <2> DEFINE a == f[m-1]
             b == s[m]
  <2>4. a \in Seq(T) /\ b \in Seq(T)
    BY <1>3, <2>2 DEF Joined
  <2>5. /\ f[m] = a \o b /\ StartsAt(f, m) = Len(a)
        /\ \A k \in 1..(m - 1) :
             /\ StartsAt(f, k) \in Nat /\ StartsAt(f, k) + Len(s[k]) <= Len(a)
             /\ \A i \in 1..Len(s[k]) : a[StartsAt(f, k) + i] = s[k][i]
    BY <1>5, <2>2, <2>3 DEF Joined, StartsAt
  <2>6. b = s[m]
    OBVIOUS
  <2> HIDE DEF a, b, B
  <2>7. /\ a \o b \in Seq(T) /\ Len(a \o b) = Len(a) + Len(b)
        /\ Len(a) \in Nat /\ Len(b) \in Nat
        /\ \A i \in 1..Len(a) : (a \o b)[i] = a[i]
        /\ \A i \in 1..Len(b) : (a \o b)[Len(a) + i] = b[i]
    BY <2>4, Appended
  <2>8. ASSUME NEW k \in 1..m
        PROVE  /\ StartsAt(f, k) \in Nat /\ StartsAt(f, k) + Len(s[k]) <= Len(f[m])
               /\ \A i \in 1..Len(s[k]) : f[m][StartsAt(f, k) + i] = s[k][i]
    <3>1. CASE k = m
      <4>1. /\ StartsAt(f, m) \in Nat /\ StartsAt(f, m) + Len(b) <= Len(f[m])
            /\ \A i \in 1..Len(b) : f[m][StartsAt(f, m) + i] = b[i]
        BY <2>5, <2>7
      <4> QED
        BY <2>6, <3>1, <4>1
    <3>2. CASE k \in 1..(m - 1)
      <4>1. /\ StartsAt(f, k) \in Nat /\ StartsAt(f, k) + Len(s[k]) <= Len(a)
            /\ \A i \in 1..Len(s[k]) : a[StartsAt(f, k) + i] = s[k][i]
        BY <2>5, <3>2
      <4>2. Len(s[k]) \in Nat
        BY <1>2, <1>3, <3>2
      <4>3. \A i \in 1..Len(s[k]) : StartsAt(f, k) + i \in 1..Len(a)
        BY <2>7, <4>1, <4>2
      <4>4. StartsAt(f, k) + Len(s[k]) <= Len(f[m])
        <5>1. Len(f[m]) = Len(a) + Len(b)
          BY <2>5, <2>7
        <5> QED
          BY <2>7, <4>1, <4>2, <5>1
      <4>5. \A i \in 1..Len(s[k]) : f[m][StartsAt(f, k) + i] = s[k][i]
        <5>1. \A i \in 1..Len(s[k]) : f[m][StartsAt(f, k) + i] = a[StartsAt(f, k) + i]
          BY <2>5, <2>7, <4>3
        <5> QED
          BY <4>1, <5>1
      <4> QED
        BY <4>1, <4>4, <4>5
    <3> QED
      BY <2>1, <3>1, <3>2
  <2>9. Joined(T, s, f, m)
    BY <2>5, <2>6, <2>7, <2>8 DEF Joined
  <2> QED
    BY <1>2, <2>9
<1> QED
  BY <1>4, <1>5

\* start[k] elements come before the k-th of the sequences.
Laid(s, all, start) ==
  /\ start \in [1..(Len(s) + 1) -> Nat]
  /\ start[1] = 0 /\ start[Len(s) + 1] = Len(all)
  /\ \A k \in 1..Len(s) :
       /\ start[k + 1] = start[k] + Len(s[k]) /\ start[k + 1] <= Len(all)
       /\ \A i \in 1..Len(s[k]) : all[start[k] + i] = s[k][i]

\* FlattenSeq lays the sequences one after another.
LEMMA FlattenLays ==
  ASSUME NEW T, NEW s \in Seq(Seq(T))
  PROVE  FlattenSeq(s) \in Seq(T) /\ \E start : Laid(s, FlattenSeq(s), start)
<1>1. CASE Len(s) = 0
  <2>1. s = <<>> /\ FlattenSeq(s) = <<>> /\ FlattenSeq(s) \in Seq(T) /\ Len(FlattenSeq(s)) = 0
    BY <1>1 DEF FlattenSeq
  <2>2. Laid(s, FlattenSeq(s), [k \in 1..1 |-> 0])
    BY <1>1, <2>1 DEF Laid
  <2> QED
    BY <2>1, <2>2
<1>2. CASE Len(s) # 0
  <2> DEFINE f == CHOOSE f : Concats(s, Len(s), f)
             N == Len(s)
             start == [k \in 1..(N + 1) |-> StartsAt(f, k)]
  <2>1. Concats(s, Len(s), f)
    <3>1. Len(s) \in Nat
      OBVIOUS
    <3> QED
      BY <3>1, ConcatsExist
  <2>2. FlattenSeq(s) = f[N]
    BY <1>2 DEF FlattenSeq, Concats
  <2>3. N \in Nat /\ N \in 1..N
    BY <1>2
  <2> HIDE DEF f
  <2>4. \A n \in 1..N : Joined(T, s, f, n)
    BY <2>1, JoinedSoFar
  <2>5. StartsAt(f, N + 1) = Len(f[N]) /\ StartsAt(f, 1) = 0
    BY <2>3 DEF StartsAt
  <2>6. \A k \in 1..N : StartsAt(f, k + 1) = StartsAt(f, k) + Len(s[k])
    <3>1. \A k \in 1..N : (k + 1) - 1 = k /\ k + 1 # 1
      BY <2>3
    <3>2. \A k \in 1..N : Len(f[k]) = StartsAt(f, k) + Len(s[k])
      BY <2>4 DEF Joined
    <3> QED
      BY <3>1, <3>2 DEF StartsAt
  <2>7. f[N] \in Seq(T) /\ Len(f[N]) \in Nat
    BY <2>3, <2>4 DEF Joined
  <2>8. \A k \in 1..N : /\ StartsAt(f, k) \in Nat /\ StartsAt(f, k) + Len(s[k]) <= Len(f[N])
                        /\ \A i \in 1..Len(s[k]) : f[N][StartsAt(f, k) + i] = s[k][i]
    BY <2>3, <2>4 DEF Joined
  <2>9. \A k \in 1..(N + 1) : StartsAt(f, k) \in Nat
    BY <2>3, <2>5, <2>7, <2>8
  <2>10. start \in [1..(N + 1) -> Nat] /\ \A k \in 1..(N + 1) : start[k] = StartsAt(f, k)
    BY <2>9
  <2>11. \A k \in 1..N : k \in 1..(N + 1) /\ k + 1 \in 1..(N + 1)
    BY <2>3
  <2>12. 1 \in 1..(N + 1) /\ N + 1 \in 1..(N + 1)
    BY <2>3
  <2> HIDE DEF start
  <2>13. Laid(s, FlattenSeq(s), start)
    BY <2>2, <2>5, <2>6, <2>8, <2>10, <2>11, <2>12 DEF Laid
  <2> QED
    BY <2>2, <2>7, <2>13
<1> QED
  BY <1>1, <1>2

-----------------------------------------------------------------------------
(***************************************************************************)
(* Loops over a sequence, as FoldLeft computes them: a function on the     *)
(* sets of places, of which the last place is taken off.                   *)
(***************************************************************************)
Loops(h, base, seq, D, g) ==
  g = [s \in D |-> IF s = {} THEN base ELSE h[<<g[s \ {Max(s)}], seq[Max(s)]>>]]

\* What is left of a set of numbers up to n without its largest lies below n.
LEMMA BelowLargest ==
  ASSUME NEW n \in Nat, NEW s \in SUBSET (1..n), s # {}
  PROVE  /\ n # 0 /\ Max(s) \in s /\ Max(s) \in 1..n
         /\ s \ {Max(s)} \in SUBSET (1..(n - 1))
         /\ s \ {Max(s)} \in SUBSET (1..n)
<1>1. IsFiniteSet(s)
  <2>1. 1 \in Int /\ n \in Int /\ s \subseteq 1..n
    OBVIOUS
  <2>2. IsFiniteSet(1..n)
    BY <2>1, FS_Interval
  <2> QED
    BY <2>1, <2>2, FS_Subset
<1> DEFINE M == Max(s)
<1>2. M \in s /\ \A x \in s : x <= M
  <2>1. s \subseteq Int
    OBVIOUS
  <2> QED
    BY <1>1, <2>1, FiniteSetHasMaximum
<1> HIDE DEF M
<1>3. M \in 1..n /\ n # 0
  BY <1>2
<1>4. ASSUME NEW x \in s, x # M PROVE x \in 1..(n - 1)
  <2>1. x \in 1..n /\ x <= M
    BY <1>2
  <2> QED
    BY <1>3, <1>4, <2>1
<1>5. s \ {M} \in SUBSET (1..(n - 1)) /\ s \ {M} \in SUBSET (1..n)
  BY <1>4
<1> QED
  BY <1>2, <1>3, <1>5 DEF M

\* The first n places without the last are the first n - 1.
LEMMA LastPlace ==
  ASSUME NEW n \in Nat, n # 0
  PROVE  /\ Max(1..n) = n /\ (1..n) \ {Max(1..n)} = 1..(n - 1) /\ 1..n # {}
<1>1. n \in 1..n /\ 1..n \subseteq Int /\ 1..n # {} /\ 1 \in Int /\ n \in Int
  OBVIOUS
<1> DEFINE M == Max(1..n)
<1>2. M \in 1..n /\ \A x \in 1..n : x <= M
  <2>1. IsFiniteSet(1..n)
    BY <1>1, FS_Interval
  <2> QED
    BY <1>1, <2>1, FiniteSetHasMaximum
<1> HIDE DEF M
<1>3. M = n
  BY <1>1, <1>2
<1>4. (1..n) \ {n} = 1..(n - 1)
  OBVIOUS
<1> QED
  BY <1>1, <1>3, <1>4 DEF M

\* A loop whose body is a function on a set of states runs through its
\* sequence, and its states stay in the set.
LEMMA LoopExists ==
  ASSUME NEW St, NEW E, NEW h \in [St \X E -> St], NEW base \in St,
         NEW n \in Nat, NEW seq, \A i \in 1..n : seq[i] \in E
  PROVE  \E g \in [SUBSET (1..n) -> St] : Loops(h, base, seq, SUBSET (1..n), g)
<1> DEFINE Runs(m) == \E g \in [SUBSET (1..m) -> St] : Loops(h, base, seq, SUBSET (1..m), g)
           T == {m \in 0..n : ~Runs(m)}
<1>1. T = {}
  <2> SUFFICES ASSUME T # {} PROVE FALSE
    OBVIOUS
  <2>1. PICK m \in T : \A l \in T : m <= l
    <3>1. T \subseteq Nat
      OBVIOUS
    <3> HIDE DEF T
    <3> QED
      BY <3>1, LeastNatural
  <2>2. m \in 0..n /\ ~Runs(m)
    BY <2>1
  <2>3. m # 0 => Runs(m - 1)
    <3>1. m # 0 => m - 1 \in 0..n /\ m - 1 \notin T
      <4> HIDE DEF T
      <4> QED
        BY <2>1, <2>2
    <3> QED
      BY <3>1
  <2> HIDE DEF T
  <2>4. PICK k : m # 0 => /\ k \in [SUBSET (1..(m - 1)) -> St]
                          /\ Loops(h, base, seq, SUBSET (1..(m - 1)), k)
    BY <2>3
  <2> DEFINE D == SUBSET (1..m)
             g == [s \in D |-> IF s = {} THEN base ELSE h[<<k[s \ {Max(s)}], seq[Max(s)]>>]]
  <2>5. ASSUME NEW s \in D, s # {}
        PROVE  /\ k[s \ {Max(s)}] \in St /\ seq[Max(s)] \in E
               /\ g[s \ {Max(s)}] = k[s \ {Max(s)}]
    <3> DEFINE t == s \ {Max(s)}
    <3>1. m \in Nat /\ m # 0 /\ Max(s) \in 1..n /\ t \in SUBSET (1..(m - 1)) /\ t \in D
      <4>1. m \in Nat
        BY <2>2
      <4>2. m # 0 /\ Max(s) \in 1..m /\ t \in SUBSET (1..(m - 1)) /\ t \in SUBSET (1..m)
        BY <2>5, <4>1, BelowLargest
      <4> QED
        BY <2>2, <4>1, <4>2
    <3> HIDE DEF t
    <3>2. k[t] \in St /\ Loops(h, base, seq, SUBSET (1..(m - 1)), k)
      BY <2>4, <3>1
    <3>3. k[t] = IF t = {} THEN base ELSE h[<<k[t \ {Max(t)}], seq[Max(t)]>>]
      BY <3>1, <3>2 DEF Loops
    <3>4. g[t] = IF t = {} THEN base ELSE h[<<k[t \ {Max(t)}], seq[Max(t)]>>]
      BY <3>1
    <3> QED
      BY <3>1, <3>2, <3>3, <3>4 DEF t
  <2>6. g \in [D -> St]
    <3>1. ASSUME NEW s \in D, s # {} PROVE h[<<k[s \ {Max(s)}], seq[Max(s)]>>] \in St
      BY <2>5, <3>1
    <3> QED
      BY <3>1
  <2>7. g = [s \in D |-> IF s = {} THEN base ELSE h[<<g[s \ {Max(s)}], seq[Max(s)]>>]]
    BY <2>5
  <2> HIDE DEF g
  <2>8. Loops(h, base, seq, D, g)
    BY <2>7 DEF Loops
  <2> QED
    BY <2>2, <2>6, <2>8
<1>2. n \in 0..n
  OBVIOUS
<1> QED
  BY <1>1, <1>2

=============================================================================
