----------------------------- MODULE FiniteFacts -----------------------------
(***************************************************************************)
(* Facts about finite sets that the proofs of several components rest on:  *)
(* least and greatest numbers, the order a comparison puts a set in, sums  *)
(* of the values of a function as the community module Functions defines   *)
(* them, and what a loop's states are, step by step. The models rank       *)
(* documents, walk directories, and count receipts, hits and sizes with    *)
(* these.                                                                  *)
(*                                                                         *)
(* What holds for all finite sets is proved from the least number for which *)
(* it would not hold.                                                      *)
(***************************************************************************)
EXTENDS Functions, FiniteSetTheorems, WellFoundedInduction, TLAPS

LEMMA Least == ASSUME NEW S, S \subseteq Nat, S # {} PROVE \E x \in S : \A y \in S : x <= y
<1> DEFINE R == OpToRel(<, Nat)
<1>1. IsWellFoundedOn(R, Nat)
  BY NatLessThanWellFounded
<1>2. ASSUME NEW x \in Nat, NEW y \in Nat, x < y PROVE <<x, y>> \in R
  BY <1>2 DEF OpToRel
<1> HIDE DEF R
<1>3. PICK x \in S : \A y \in S : ~(<<y, x>> \in R)
  BY <1>1, WFMin
<1>4. ASSUME NEW y \in S PROVE x <= y
  <2>1. x \in Nat /\ y \in Nat
    OBVIOUS
  <2>2. ~(y < x)
    BY <1>2, <1>3, <2>1
  <2> QED BY <2>1, <2>2
<1> QED BY <1>4

LEMMA Greatest ==
    ASSUME NEW n \in Nat, NEW S, S \subseteq 0..n, S # {}
    PROVE  \E x \in S : \A y \in S : y <= x
<1> DEFINE T == {n - y : y \in S}
<1>1. \A y \in S : y \in Nat /\ n - y \in Nat
  OBVIOUS
<1>2. T \subseteq Nat /\ T # {}
  BY <1>1
<1>3. PICK x \in T : \A y \in T : x <= y
  BY <1>2, Least
<1>4. PICK m \in S : x = n - m
  OBVIOUS
<1>5. \A y \in S : m >= y
  BY <1>1, <1>3, <1>4
<1> QED BY <1>5

-----------------------------------------------------------------------------
(* The order a comparison puts a finite set in, R being the pairs of which   *)
(* the first comes before the second.                                        *)

Before(R, S, x) == {y \in S : <<y, x>> \in R}

Strict(R, S) ==
    /\ \A x \in S : <<x, x>> \notin R
    /\ \A x, y, z \in S : <<x, y>> \in R /\ <<y, z>> \in R => <<x, z>> \in R
StrictTotal(R, S) ==
    /\ Strict(R, S)
    /\ \A x, y \in S : x = y \/ <<x, y>> \in R \/ <<y, x>> \in R

\* The n-th has n - 1 before it.
Ordered(f, R, S) ==
    /\ f \in [1..Cardinality(S) -> S]
    /\ \A n \in 1..Cardinality(S) : Cardinality(Before(R, S, f[n])) = n - 1

LEMMA BeforeGrows ==
    ASSUME NEW S, IsFiniteSet(S), NEW R, Strict(R, S), NEW x \in S, NEW y \in S, <<y, x>> \in R
    PROVE  /\ Cardinality(Before(R, S, y)) \in Nat /\ Cardinality(Before(R, S, x)) \in Nat
           /\ Cardinality(Before(R, S, y)) < Cardinality(Before(R, S, x))
<1>1. Before(R, S, y) \subseteq Before(R, S, x) /\ y \in Before(R, S, x) /\ y \notin Before(R, S, y)
  BY DEF Before, Strict
<1>2. Before(R, S, x) \in SUBSET S /\ Before(R, S, y) \in SUBSET S
  BY DEF Before
<1>3. IsFiniteSet(Before(R, S, x)) /\ IsFiniteSet(Before(R, S, y))
  BY <1>2, FS_Subset
<1>4. Cardinality(Before(R, S, y)) <= Cardinality(Before(R, S, x))
      /\ Cardinality(Before(R, S, y)) # Cardinality(Before(R, S, x))
  BY <1>1, <1>3, FS_Subset
<1> QED BY <1>3, <1>4, FS_CardinalityType

LEMMA FirstExists ==
    ASSUME NEW S, IsFiniteSet(S), S # {}, NEW R, Strict(R, S)
    PROVE  \E x \in S : Cardinality(Before(R, S, x)) = 0
<1> DEFINE Sizes == {Cardinality(Before(R, S, x)) : x \in S}
<1>0. ASSUME NEW x \in S PROVE IsFiniteSet(Before(R, S, x)) /\ Cardinality(Before(R, S, x)) \in Nat
  <2>1. Before(R, S, x) \in SUBSET S
    BY DEF Before
  <2> QED BY <2>1, FS_Subset, FS_CardinalityType
<1>1. Sizes \subseteq Nat /\ Sizes # {}
  BY <1>0
<1>2. PICK n \in Sizes : \A m \in Sizes : n <= m
  BY <1>1, Least
<1>3. PICK x \in S : Cardinality(Before(R, S, x)) = n
  OBVIOUS
<1>4. ASSUME NEW y \in Before(R, S, x) PROVE FALSE
  <2>1. y \in S /\ <<y, x>> \in R
    BY DEF Before
  <2>2. Cardinality(Before(R, S, y)) < n
    BY <1>3, <2>1, BeforeGrows
  <2>3. Cardinality(Before(R, S, y)) \in Sizes
    BY <2>1
  <2>4. n <= Cardinality(Before(R, S, y))
    BY <1>2, <2>3
  <2>5. n \in Nat /\ Cardinality(Before(R, S, y)) \in Nat
    BY <1>0, <1>3, <2>1
  <2> QED BY <2>2, <2>4, <2>5
<1>5. Before(R, S, x) = {}
  BY <1>4
<1> QED BY <1>5, FS_EmptySet

LEMMA FirstIsBest ==
    ASSUME NEW S, IsFiniteSet(S), NEW R, NEW x \in S, Cardinality(Before(R, S, x)) = 0
    PROVE  \A y \in S : <<y, x>> \notin R
<1>1. Before(R, S, x) \in SUBSET S
  BY DEF Before
<1>2. Before(R, S, x) = {}
  BY <1>1, FS_Subset, FS_EmptySet
<1> QED BY <1>2 DEF Before

\* Each place is taken, by one.
LEMMA Places ==
    ASSUME NEW S, IsFiniteSet(S), NEW R, StrictTotal(R, S)
    PROVE  /\ Cardinality(S) \in Nat
           /\ \A n \in 1..Cardinality(S) : \E x \in S : Cardinality(Before(R, S, x)) = n - 1
           /\ \A x \in S : Cardinality(Before(R, S, x)) \in 0..(Cardinality(S) - 1)
           /\ \A x, y \in S : Cardinality(Before(R, S, x)) = Cardinality(Before(R, S, y)) => x = y
<1> DEFINE place == [x \in S |-> Cardinality(Before(R, S, x))]
<1> DEFINE T == 0..(Cardinality(S) - 1)
<1>0. Cardinality(S) \in Nat
  BY FS_CardinalityType
<1>1. ASSUME NEW x \in S PROVE Cardinality(Before(R, S, x)) \in T
  <2>1. Before(R, S, x) \in SUBSET S /\ x \notin Before(R, S, x)
    BY DEF Before, StrictTotal, Strict
  <2>2. Cardinality(Before(R, S, x)) <= Cardinality(S) /\ Cardinality(Before(R, S, x)) # Cardinality(S)
        /\ Cardinality(Before(R, S, x)) \in Nat
    BY <2>1, FS_Subset, FS_CardinalityType
  <2> QED BY <1>0, <2>2
<1>2. ASSUME NEW x \in S, NEW y \in S, Cardinality(Before(R, S, x)) = Cardinality(Before(R, S, y))
      PROVE  x = y
  <2>1. Strict(R, S)
    BY DEF StrictTotal
  <2>2. ~(<<x, y>> \in R)
    BY <1>2, <2>1, BeforeGrows
  <2>3. ~(<<y, x>> \in R)
    BY <1>2, <2>1, BeforeGrows
  <2> QED BY <2>2, <2>3 DEF StrictTotal
<1>3. place \in Injection(S, T)
  BY <1>1, <1>2 DEF Injection, IsInjective
<1>4. IsFiniteSet(T) /\ Cardinality(T) = Cardinality(S)
  <2> DEFINE last == Cardinality(S) - 1
  <2>1. last \in Int /\ 0 \in Int
    BY <1>0
  <2>2. IsFiniteSet(0..last) /\ Cardinality(0..last) = IF 0 > last THEN 0 ELSE last - 0 + 1
    <3> HIDE DEF last
    <3> QED BY <2>1, FS_Interval
  <2>3. (IF 0 > last THEN 0 ELSE last - 0 + 1) = Cardinality(S)
    BY <1>0
  <2> QED BY <2>2, <2>3
<1>5. place \in Surjection(S, T)
  BY <1>3, <1>4, FS_Injection
<1>6. ASSUME NEW n \in 1..Cardinality(S) PROVE \E x \in S : Cardinality(Before(R, S, x)) = n - 1
  <2>1. n - 1 \in T
    BY <1>0
  <2>2. PICK x \in S : place[x] = n - 1
    BY <1>5, <2>1 DEF Surjection
  <2> QED BY <2>2
<1> QED BY <1>0, <1>1, <1>2, <1>6

LEMMA OrderedOnto ==
    ASSUME NEW S, IsFiniteSet(S), NEW R, StrictTotal(R, S), NEW f, Ordered(f, R, S)
    PROVE  \A x \in S : \E n \in 1..Cardinality(S) : f[n] = x
<1> TAKE x \in S
<1> DEFINE n == Cardinality(Before(R, S, x)) + 1
<1>1. n \in 1..Cardinality(S)
  BY Places
<1>2. Cardinality(Before(R, S, f[n])) = Cardinality(Before(R, S, x)) /\ f[n] \in S
  BY <1>1, Places DEF Ordered
<1>3. f[n] = x
  BY <1>2, Places
<1> QED BY <1>1, <1>3

-----------------------------------------------------------------------------
(* The fold that Functions sums with. *)

Picked(S) == CHOOSE x \in S : TRUE

\* g adds f up over the sets of W, down to the empty one.
AddsUp(g, f, W) == \A s \in W : g[s] = IF s = {} THEN 0 ELSE f[Picked(s)] + g[s \ {Picked(s)}]

SumOf(f, S) == SumFunctionOnSet(f, S)

UpTo(D, n) == {s \in SUBSET D : Cardinality(s) <= n}

LEMMA SmallerSet ==
    ASSUME NEW S, IsFiniteSet(S), NEW x \in S
    PROVE  /\ IsFiniteSet(S \ {x}) /\ Cardinality(S) \in Nat /\ Cardinality(S \ {x}) \in Nat
           /\ Cardinality(S) = Cardinality(S \ {x}) + 1
  BY FS_RemoveElement, FS_CardinalityType

LEMMA PickedIn == ASSUME NEW S, S # {} PROVE Picked(S) \in S
  BY DEF Picked

LEMMA SumExists ==
    ASSUME NEW D, IsFiniteSet(D), NEW f \in [D -> Int]
    PROVE  \E g \in [SUBSET D -> Int] : AddsUp(g, f, SUBSET D)
<1> DEFINE Has(n) == \E g \in [UpTo(D, n) -> Int] : AddsUp(g, f, UpTo(D, n))
<1> DEFINE Bad == {n \in Nat : ~Has(n)}
<1>0. ASSUME NEW s \in SUBSET D PROVE IsFiniteSet(s) /\ Cardinality(s) \in Nat /\ Cardinality(s) <= Cardinality(D)
  BY FS_Subset, FS_CardinalityType
<1>1. Has(0)
  <2> DEFINE g == [s \in UpTo(D, 0) |-> 0]
  <2>1. \A s \in UpTo(D, 0) : s = {}
    BY <1>0, FS_EmptySet DEF UpTo
  <2>2. g \in [UpTo(D, 0) -> Int] /\ AddsUp(g, f, UpTo(D, 0))
    BY <2>1 DEF AddsUp
  <2> QED BY <2>2
<1>2. ASSUME NEW n \in Nat, Has(n) PROVE Has(n + 1)
  <2>1. PICK g \in [UpTo(D, n) -> Int] : AddsUp(g, f, UpTo(D, n))
    BY <1>2
  <2> DEFINE h == [s \in UpTo(D, n + 1) |-> IF s = {} THEN 0 ELSE f[Picked(s)] + g[s \ {Picked(s)}]]
  <2>2. ASSUME NEW s \in UpTo(D, n + 1), s # {}
        PROVE  Picked(s) \in D /\ s \ {Picked(s)} \in UpTo(D, n) /\ s \ {Picked(s)} \in UpTo(D, n + 1)
    <3>1. s \in SUBSET D /\ Picked(s) \in s /\ Cardinality(s) <= n + 1
      BY <2>2, PickedIn DEF UpTo
    <3>2. IsFiniteSet(s) /\ Cardinality(s) \in Nat
      BY <1>0, <3>1
    <3>3. Cardinality(s \ {Picked(s)}) \in Nat /\ Cardinality(s) = Cardinality(s \ {Picked(s)}) + 1
      BY <3>1, <3>2, SmallerSet
    <3> QED BY <3>1, <3>2, <3>3 DEF UpTo
  <2>3. h \in [UpTo(D, n + 1) -> Int]
    BY <2>2
  <2>4. ASSUME NEW s \in UpTo(D, n) PROVE s \in UpTo(D, n + 1) /\ h[s] = g[s]
    <3>1. s \in UpTo(D, n + 1)
      BY <1>0 DEF UpTo
    <3> QED BY <2>1, <3>1 DEF AddsUp
  <2>5. AddsUp(h, f, UpTo(D, n + 1))
    BY <2>2, <2>4 DEF AddsUp
  <2> HIDE DEF h
  <2> QED BY <2>3, <2>5
<1>3. Bad = {}
  <2>1. SUFFICES ASSUME Bad # {} PROVE FALSE
    OBVIOUS
  <2>2. PICK n \in Bad : \A m \in Bad : n <= m
    BY <2>1, Least
  <2>3. n \in Nat /\ ~Has(n) /\ n # 0
    BY <1>1
  <2>4. n - 1 \in Nat /\ Has(n - 1)
    BY <2>2, <2>3
  <2>5. Has(n - 1 + 1)
    BY <1>2, <2>4
  <2>6. n - 1 + 1 = n
    BY <2>3
  <2> HIDE DEF Has
  <2> QED BY <2>3, <2>5, <2>6
<1>4. Cardinality(D) \in Nat
  BY FS_CardinalityType
<1>5. UpTo(D, Cardinality(D)) = SUBSET D
  BY <1>0 DEF UpTo
<1>6. Has(Cardinality(D))
  BY <1>3, <1>4
<1> QED BY <1>5, <1>6

\* Two that add up functions which agree on a set agree on the set.
LEMMA SumUnique ==
    ASSUME NEW V, NEW W, NEW f, NEW e, NEW g, NEW h,
           AddsUp(g, f, SUBSET V), AddsUp(h, e, SUBSET W),
           NEW S, S \subseteq V, S \subseteq W, IsFiniteSet(S),
           \A x \in S : f[x] = e[x]
    PROVE  g[S] = h[S]
<1> DEFINE Bad == {n \in Nat : \E s \in SUBSET S : Cardinality(s) = n /\ g[s] # h[s]}
<1>0. ASSUME NEW s \in SUBSET S PROVE IsFiniteSet(s) /\ Cardinality(s) \in Nat
  BY FS_Subset, FS_CardinalityType
<1>1. SUFFICES ASSUME Bad # {} PROVE FALSE
  BY <1>0
<1>2. PICK n \in Bad : \A m \in Bad : n <= m
  BY <1>1, Least
<1>3. PICK s \in SUBSET S : Cardinality(s) = n /\ g[s] # h[s]
  OBVIOUS
<1>4. s # {}
  BY <1>3 DEF AddsUp
<1>5. Picked(s) \in s
  BY <1>4, PickedIn
<1>6. Cardinality(s \ {Picked(s)}) \in Nat /\ Cardinality(s \ {Picked(s)}) < n
  BY <1>0, <1>3, <1>5, SmallerSet
<1>7. s \ {Picked(s)} \in SUBSET S
  OBVIOUS
<1>8. g[s \ {Picked(s)}] = h[s \ {Picked(s)}]
  <2>1. SUFFICES ASSUME g[s \ {Picked(s)}] # h[s \ {Picked(s)}] PROVE FALSE
    OBVIOUS
  <2>2. Cardinality(s \ {Picked(s)}) \in Bad
    BY <1>6, <1>7, <2>1
  <2>3. n \in Nat /\ n <= Cardinality(s \ {Picked(s)})
    BY <1>2, <2>2
  <2> QED BY <1>6, <2>3
<1>9. /\ g[s] = f[Picked(s)] + g[s \ {Picked(s)}]
      /\ h[s] = e[Picked(s)] + h[s \ {Picked(s)}]
  BY <1>4 DEF AddsUp
<1> QED BY <1>3, <1>5, <1>8, <1>9

LEMMA SumPart ==
    ASSUME NEW V, NEW T, NEW f, NEW g, NEW h, T \subseteq V, IsFiniteSet(T),
           AddsUp(g, f, SUBSET V), AddsUp(h, f, SUBSET T)
    PROVE  g[T] = h[T]
<1>1. T \subseteq T /\ \A x \in T : f[x] = f[x]
  OBVIOUS
<1> QED BY <1>1, SumUnique

LEMMA SumIs ==
    ASSUME NEW S, IsFiniteSet(S), NEW f, \A x \in S : f[x] \in Int
    PROVE  \E g \in [SUBSET S -> Int] : AddsUp(g, f, SUBSET S) /\ SumOf(f, S) = g[S]
<1> DEFINE e == [x \in S |-> f[x]]
<1> DEFINE Eq(g) == g = [s \in SUBSET S |-> IF s = {} THEN 0 ELSE f[Picked(s)] + g[s \ {Picked(s)}]]
<1>1. e \in [S -> Int]
  OBVIOUS
<1>2. PICK g \in [SUBSET S -> Int] : AddsUp(g, e, SUBSET S)
  BY <1>1, SumExists
<1>3. Eq(g)
  <2>1. \A s \in SUBSET S : s # {} => Picked(s) \in S
    BY PickedIn
  <2> QED BY <1>2, <2>1 DEF AddsUp
<1> DEFINE h == CHOOSE i : Eq(i)
<1>4. Eq(h)
  BY <1>3
<1>5. SumOf(f, S) = h[S]
  BY DEF SumOf, SumFunctionOnSet, FoldFunctionOnSet, MapThenFoldSet, Picked
<1>6. AddsUp(h, f, SUBSET S)
  <2> HIDE DEF h
  <2> QED BY <1>4 DEF AddsUp
<1>7. DOMAIN h = SUBSET S
  <2> HIDE DEF h
  <2> QED BY <1>4
<1>8. ASSUME NEW s \in SUBSET S PROVE h[s] = g[s]
  <2>1. IsFiniteSet(s)
    BY FS_Subset
  <2>2. AddsUp(g, e, SUBSET S) /\ AddsUp(h, f, SUBSET S) /\ \A x \in s : f[x] = e[x]
    BY <1>2, <1>6
  <2> HIDE DEF h, e
  <2> QED BY <2>1, <2>2, SumUnique, SMTT(30)
<1>9. h = g
  <2>1. h = [s \in SUBSET S |-> h[s]]
    <3> HIDE DEF h
    <3> QED BY <1>4
  <2> HIDE DEF h
  <2> QED BY <1>2, <1>8, <2>1
<1> HIDE DEF h
<1> QED BY <1>5, <1>6, <1>9

-----------------------------------------------------------------------------
(* What a sum is. *)

Integral(f, S) == IsFiniteSet(S) /\ \A x \in S : f[x] \in Int

LEMMA SumType == ASSUME NEW S, NEW f, Integral(f, S) PROVE SumOf(f, S) \in Int
<1>1. PICK g \in [SUBSET S -> Int] : SumOf(f, S) = g[S]
  BY SumIs DEF Integral
<1>2. S \in SUBSET S
  OBVIOUS
<1> QED BY <1>1, <1>2

LEMMA SumSame ==
    ASSUME NEW S, NEW f, NEW e, Integral(f, S), \A x \in S : f[x] = e[x]
    PROVE  SumOf(f, S) = SumOf(e, S)
<1>1. PICK g \in [SUBSET S -> Int] : AddsUp(g, f, SUBSET S) /\ SumOf(f, S) = g[S]
  BY SumIs DEF Integral
<1>2. IsFiniteSet(S) /\ \A x \in S : e[x] \in Int
  BY DEF Integral
<1>3. PICK h \in [SUBSET S -> Int] : AddsUp(h, e, SUBSET S) /\ SumOf(e, S) = h[S]
  BY <1>2, SumIs
<1>4. S \subseteq S
  OBVIOUS
<1>5. g[S] = h[S]
  BY <1>1, <1>2, <1>3, <1>4, SumUnique, SMTT(30)
<1> QED BY <1>1, <1>3, <1>5

LEMMA SumPicked ==
    ASSUME NEW S, NEW f, Integral(f, S), S # {}
    PROVE  SumOf(f, S) = f[Picked(S)] + SumOf(f, S \ {Picked(S)})
<1> DEFINE T == S \ {Picked(S)}
<1>1. PICK g \in [SUBSET S -> Int] : AddsUp(g, f, SUBSET S) /\ SumOf(f, S) = g[S]
  BY SumIs DEF Integral
<1>2. Integral(f, T)
  BY FS_RemoveElement DEF Integral
<1>3. PICK h \in [SUBSET T -> Int] : AddsUp(h, f, SUBSET T) /\ SumOf(f, T) = h[T]
  BY <1>2, SumIs DEF Integral
<1>4. IsFiniteSet(T) /\ T \subseteq S /\ T \subseteq T
  BY <1>2 DEF Integral
<1> HIDE DEF T
<1>5. g[T] = h[T]
  BY <1>1, <1>3, <1>4, SumPart, SMTT(30)
<1>6. g[S] = f[Picked(S)] + g[T]
  BY <1>1 DEF AddsUp, T
<1> QED BY <1>1, <1>3, <1>5, <1>6 DEF T

LEMMA SumEmpty == ASSUME NEW f PROVE SumOf(f, {}) = 0
<1>1. PICK g \in [SUBSET {} -> Int] : AddsUp(g, f, SUBSET {}) /\ SumOf(f, {}) = g[{}]
  BY SumIs, FS_EmptySet
<1> QED BY <1>1 DEF AddsUp

\* Whichever is taken out first.
LEMMA SumRemove ==
    ASSUME NEW S, NEW f, Integral(f, S), NEW x \in S
    PROVE  SumOf(f, S) = f[x] + SumOf(f, S \ {x})
<1> DEFINE Right(s, y) == SumOf(f, s) = f[y] + SumOf(f, s \ {y})
<1> DEFINE Bad == {n \in Nat : \E s \in SUBSET S, y \in S : y \in s /\ Cardinality(s) = n /\ ~Right(s, y)}
<1>0. ASSUME NEW s \in SUBSET S PROVE IsFiniteSet(s) /\ Cardinality(s) \in Nat /\ Integral(f, s)
  BY FS_Subset, FS_CardinalityType DEF Integral
<1>1. SUFFICES ASSUME Bad # {} PROVE FALSE
  <2>1. S \in SUBSET S /\ Cardinality(S) \in Nat
    BY <1>0
  <2> QED BY <2>1
<1>2. PICK n \in Bad : \A m \in Bad : n <= m
  BY <1>1, Least
<1>3. PICK s \in SUBSET S, y \in S : y \in s /\ Cardinality(s) = n /\ ~Right(s, y)
  OBVIOUS
<1> DEFINE c == Picked(s)
<1>4. c \in s /\ c \in S
  BY <1>3, PickedIn
<1>5. SumOf(f, s) = f[c] + SumOf(f, s \ {c})
  BY <1>0, <1>3, SumPicked
<1>6. c # y
  BY <1>3, <1>5
<1>7. n \in Nat /\ \A m \in Nat : m < n => m \notin Bad
  BY <1>2
<1>8. ASSUME NEW z \in s PROVE Cardinality(s \ {z}) \in Nat /\ Cardinality(s \ {z}) < n /\ s \ {z} \in SUBSET S
  BY <1>0, <1>3, SmallerSet
<1> HIDE DEF c
<1>9. Right(s \ {c}, y)
  <2>1. Cardinality(s \ {c}) \notin Bad
    BY <1>4, <1>7, <1>8
  <2>2. y \in s \ {c} /\ s \ {c} \in SUBSET S /\ Cardinality(s \ {c}) \in Nat
    BY <1>3, <1>4, <1>6, <1>8
  <2> QED BY <2>1, <2>2
<1>10. Right(s \ {y}, c)
  <2>1. Cardinality(s \ {y}) \notin Bad
    BY <1>3, <1>7, <1>8
  <2>2. c \in s \ {y} /\ s \ {y} \in SUBSET S /\ Cardinality(s \ {y}) \in Nat
    BY <1>3, <1>4, <1>6, <1>8
  <2> QED BY <1>4, <2>1, <2>2
<1>11. (s \ {c}) \ {y} = (s \ {y}) \ {c}
  OBVIOUS
<1>12. f[c] \in Int /\ f[y] \in Int /\ SumOf(f, (s \ {c}) \ {y}) \in Int
  <2>1. (s \ {c}) \ {y} \in SUBSET S
    OBVIOUS
  <2>2. SumOf(f, (s \ {c}) \ {y}) \in Int
    BY <1>0, <2>1, SumType
  <2> QED BY <1>4, <2>2 DEF Integral
<1>13. SumOf(f, s) = f[c] + (f[y] + SumOf(f, (s \ {c}) \ {y}))
  BY <1>5, <1>9 DEF Right
<1>14. SumOf(f, s \ {y}) = f[c] + SumOf(f, (s \ {c}) \ {y})
  BY <1>10, <1>11
<1>15. Right(s, y)
  BY <1>12, <1>13, <1>14
<1> QED BY <1>3, <1>15

\* A change at one point changes the sum by as much.
LEMMA SumChange ==
    ASSUME NEW S, NEW f, NEW e, Integral(f, S), Integral(e, S),
           NEW x \in S, \A y \in S \ {x} : e[y] = f[y]
    PROVE  SumOf(e, S) = SumOf(f, S) + (e[x] - f[x])
<1>1. Integral(f, S \ {x}) /\ Integral(e, S \ {x})
  BY FS_RemoveElement DEF Integral
<1>2. SumOf(f, S \ {x}) = SumOf(e, S \ {x})
  BY <1>1, SumSame
<1>3. SumOf(f, S) = f[x] + SumOf(f, S \ {x})
  BY SumRemove
<1>4. SumOf(e, S) = e[x] + SumOf(e, S \ {x})
  BY SumRemove
<1>5. f[x] \in Int /\ e[x] \in Int /\ SumOf(f, S \ {x}) \in Int
  BY <1>1, SumType DEF Integral
<1> QED BY <1>2, <1>3, <1>4, <1>5

\* A sum of numbers that are not negative is at least each of them.
LEMMA SumNat ==
    ASSUME NEW S, NEW f, IsFiniteSet(S), \A x \in S : f[x] \in Nat
    PROVE  SumOf(f, S) \in Nat /\ \A x \in S : f[x] <= SumOf(f, S)
<1> DEFINE Bad == {n \in Nat : \E s \in SUBSET S : Cardinality(s) = n /\ SumOf(f, s) \notin Nat}
<1>0. ASSUME NEW s \in SUBSET S PROVE IsFiniteSet(s) /\ Cardinality(s) \in Nat /\ Integral(f, s)
  BY FS_Subset, FS_CardinalityType DEF Integral
<1>1. Bad = {}
  <2>1. SUFFICES ASSUME Bad # {} PROVE FALSE
    OBVIOUS
  <2>2. PICK n \in Bad : \A m \in Bad : n <= m
    BY <2>1, Least
  <2>3. PICK s \in SUBSET S : Cardinality(s) = n /\ SumOf(f, s) \notin Nat
    OBVIOUS
  <2>4. s # {}
    <3>1. SumOf(f, {}) \in Nat
      BY SumEmpty
    <3> QED BY <2>3, <3>1
  <2>5. PICK y \in s : TRUE
    BY <2>4
  <2>6. SumOf(f, s) = f[y] + SumOf(f, s \ {y})
    BY <1>0, SumRemove
  <2>7. Cardinality(s \ {y}) \in Nat /\ Cardinality(s \ {y}) < n
    BY <1>0, <2>3, SmallerSet
  <2>8. Cardinality(s \ {y}) \notin Bad
    BY <2>2, <2>7
  <2>9. SumOf(f, s \ {y}) \in Nat
    BY <2>7, <2>8
  <2> QED BY <2>3, <2>6, <2>9
<1>2. \A s \in SUBSET S : SumOf(f, s) \in Nat
  BY <1>0, <1>1
<1>3. ASSUME NEW x \in S PROVE f[x] <= SumOf(f, S)
  <2>1. SumOf(f, S) = f[x] + SumOf(f, S \ {x})
    BY <1>0, SumRemove
  <2>2. SumOf(f, S \ {x}) \in Nat
    BY <1>2
  <2> QED BY <2>1, <2>2
<1> QED BY <1>2, <1>3

\* A part of a sum of numbers that are not negative is no more than the whole,
\* and less where a number that is positive is left out.
LEMMA SumGrows ==
    ASSUME NEW S, NEW f, IsFiniteSet(S), \A x \in S : f[x] \in Nat, NEW T, T \subseteq S
    PROVE  /\ SumOf(f, T) \in Nat /\ SumOf(f, S) \in Nat /\ SumOf(f, T) <= SumOf(f, S)
           /\ \A x \in S \ T : SumOf(f, T) + f[x] <= SumOf(f, S)
<1> DEFINE Bad == {n \in Nat : \E s \in SUBSET (S \ T) :
                     Cardinality(s) = n /\ ~(SumOf(f, T) <= SumOf(f, T \cup s))}
<1>0. ASSUME NEW s \in SUBSET S
      PROVE  IsFiniteSet(s) /\ Cardinality(s) \in Nat /\ Integral(f, s) /\ SumOf(f, s) \in Nat
  <2>1. IsFiniteSet(s)
    BY FS_Subset
  <2> QED BY <2>1, FS_CardinalityType, SumNat DEF Integral
<1>1. Bad = {}
  <2>1. SUFFICES ASSUME Bad # {} PROVE FALSE
    OBVIOUS
  <2>2. PICK n \in Bad : \A m \in Bad : n <= m
    BY <2>1, Least
  <2>3. PICK s \in SUBSET (S \ T) : Cardinality(s) = n /\ ~(SumOf(f, T) <= SumOf(f, T \cup s))
    OBVIOUS
  <2>4. s # {}
    <3>1. CASE s = {}
      <4>1. T \cup s = T /\ SumOf(f, T) \in Nat
        BY <1>0, <3>1
      <4> QED BY <2>3, <4>1
    <3> QED BY <3>1
  <2>5. PICK y \in s : TRUE
    BY <2>4
  <2> DEFINE u == T \cup s
  <2>6. u \in SUBSET S /\ y \in u /\ u \ {y} = T \cup (s \ {y}) /\ y \in S
    BY <2>5
  <2>7. SumOf(f, u) = f[y] + SumOf(f, u \ {y})
    BY <1>0, <2>6, SumRemove
  <2>8. Cardinality(s \ {y}) \in Nat /\ Cardinality(s \ {y}) < n
    BY <1>0, <2>3, SmallerSet
  <2>9. Cardinality(s \ {y}) \notin Bad
    <3> HIDE DEF Bad
    <3>1. SUFFICES ASSUME Cardinality(s \ {y}) \in Bad PROVE FALSE
      OBVIOUS
    <3>2. n <= Cardinality(s \ {y})
      BY <2>2, <3>1
    <3>3. n \in Nat
      BY <1>0, <2>3
    <3> QED BY <2>8, <3>2, <3>3
  <2>10. SumOf(f, T) <= SumOf(f, u \ {y})
    BY <2>6, <2>8, <2>9
  <2>11. SumOf(f, u \ {y}) \in Nat /\ SumOf(f, T) \in Nat /\ f[y] \in Nat
    BY <1>0, <2>6
  <2> QED BY <2>3, <2>7, <2>10, <2>11
<1>2. ASSUME NEW s \in SUBSET S, T \subseteq s PROVE SumOf(f, T) <= SumOf(f, s)
  <2>1. s \ T \in SUBSET (S \ T) /\ T \cup (s \ T) = s /\ Cardinality(s \ T) \in Nat
    BY <1>0, <1>2
  <2> QED BY <1>1, <2>1
<1>3. SumOf(f, T) \in Nat /\ SumOf(f, S) \in Nat /\ SumOf(f, T) <= SumOf(f, S)
  BY <1>0, <1>2
<1>4. ASSUME NEW x \in S \ T PROVE SumOf(f, T) + f[x] <= SumOf(f, S)
  <2>1. S \ {x} \in SUBSET S /\ T \subseteq S \ {x}
    OBVIOUS
  <2>2. SumOf(f, T) <= SumOf(f, S \ {x}) /\ SumOf(f, S \ {x}) \in Nat
    BY <1>0, <1>2, <2>1
  <2>3. SumOf(f, S) = f[x] + SumOf(f, S \ {x})
    BY <1>0, SumRemove
  <2> QED BY <1>3, <2>2, <2>3
<1> QED BY <1>3, <1>4

-----------------------------------------------------------------------------
(* What is computed step by step, as a loop does.                           *)

LEMMA StepByStep ==
    ASSUME NEW N \in Nat, NEW P, 0 \in P, \A n \in 1..N : n - 1 \in P => n \in P
    PROVE  \A n \in 0..N : n \in P
<1> DEFINE Bad == (0..N) \ P
<1>1. SUFFICES ASSUME Bad # {} PROVE FALSE
  OBVIOUS
<1>2. PICK n \in Bad : \A m \in Bad : n <= m
  <2>1. Bad \subseteq Nat /\ Bad # {}
    BY <1>1
  <2> HIDE DEF Bad
  <2> QED BY <2>1, Least
<1>3. n \in 1..N /\ n - 1 \in 0..N /\ n - 1 \notin Bad
  BY <1>2
<1> QED BY <1>3

\* A loop has a run: from start, through the n-th step, to the N-th.
Loops(f, N, start, step) == f[0] = start /\ \A n \in 1..N : f[n] = step[<<n, f[n - 1]>>]
LEMMA LoopRuns ==
    ASSUME NEW N \in Nat, NEW V, NEW start \in V, NEW step \in [(1..N) \X V -> V]
    PROVE  \E f \in [0..N -> V] : Loops(f, N, start, step)
<1> DEFINE Runs(m, f) == f[0] = start /\ \A n \in 1..m : f[n] = step[<<n, f[n - 1]>>]
<1> DEFINE P == {m \in 0..N : \E f \in [0..m -> V] : Runs(m, f)}
<1>1. 0 \in P
  <2> DEFINE f == [n \in 0..0 |-> start]
  <2>1. f \in [0..0 -> V]
    OBVIOUS
  <2>2. Runs(0, f)
    OBVIOUS
  <2> HIDE DEF f, Runs
  <2> QED BY <2>1, <2>2
<1>2. ASSUME NEW m \in 1..N, m - 1 \in P PROVE m \in P
  <2>1. PICK f \in [0..(m - 1) -> V] : Runs(m - 1, f)
    BY <1>2
  <2> DEFINE g == [n \in 0..m |-> IF n = m THEN step[<<m, f[m - 1]>>] ELSE f[n]]
  <2>2. f[m - 1] \in V /\ step[<<m, f[m - 1]>>] \in V
    OBVIOUS
  <2>3. g \in [0..m -> V]
    BY <2>2
  <2>4. \A n \in 0..(m - 1) : g[n] = f[n]
    OBVIOUS
  <2>5. g[m] = step[<<m, g[m - 1]>>]
    <3>1. g[m] = step[<<m, f[m - 1]>>]
      OBVIOUS
    <3>2. g[m - 1] = f[m - 1]
      OBVIOUS
    <3> HIDE DEF g
    <3> QED BY <3>1, <3>2
  <2>6. Runs(m, g)
    <3> HIDE DEF g
    <3>1. g[0] = start
      BY <2>1, <2>4
    <3>2. ASSUME NEW n \in 1..m PROVE g[n] = step[<<n, g[n - 1]>>]
      <4>1. CASE n = m
        BY <2>5, <4>1
      <4>2. CASE n # m
        <5>1. n \in 1..(m - 1) /\ n \in 0..(m - 1) /\ n - 1 \in 0..(m - 1)
          BY <4>2
        <5>2. f[n] = step[<<n, f[n - 1]>>]
          BY <2>1, <5>1
        <5> QED BY <2>4, <5>1, <5>2
      <4> QED BY <4>1, <4>2
    <3> QED BY <3>1, <3>2
  <2> HIDE DEF g, Runs
  <2> QED BY <2>3, <2>6
<1>3. N \in P
  <2> HIDE DEF P
  <2>1. \A n \in 0..N : n \in P
    BY <1>1, <1>2, StepByStep
  <2> QED BY <2>1
<1> QED BY <1>3 DEF Loops
=============================================================================
