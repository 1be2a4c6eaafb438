------------------------------ MODULE SetFacts -----------------------------
(***************************************************************************)
(* Facts about sets of numbers and sums over finite sets, for the proofs   *)
(* of the other modules: Max and Min of FiniteSetsExt on bounded sets, and *)
(* SumFunctionOnSet of Functions, whose value does not depend on the order *)
(* in which its fold goes through the set.                                 *)
(***************************************************************************)
EXTENDS Integers, FiniteSetsExt, Functions, FiniteSetTheorems, WellFoundedInduction, TLAPS

\* A non-empty set of naturals has a least member.
LEMMA MinOfNaturals ==
  ASSUME NEW S \in SUBSET Nat, S # {}
  PROVE  Min(S) \in S /\ \A y \in S : Min(S) =< y
<1>1. PICK x \in S : \A y \in S : ~(<<y, x>> \in OpToRel(<, Nat))
  BY WFMin, NatLessThanWellFounded
<1>2. \A y \in S : x =< y
  <2>1. TAKE y \in S
  <2>2. <<y, x>> \notin OpToRel(<, Nat)
    BY <1>1
  <2>3. ~(y < x)
    BY <2>2 DEF OpToRel
  <2>4. QED
    BY <2>3
<1>3. QED
  BY <1>2 DEF Min

\* A non-empty set of naturals up to N has a greatest member.
LEMMA MaxOfBounded ==
  ASSUME NEW N \in Nat, NEW S \in SUBSET (0 .. N), S # {}
  PROVE  Max(S) \in S /\ \A y \in S : Max(S) >= y
<1> DEFINE T == {N - s : s \in S}
<1>1. T \in SUBSET Nat /\ T # {}
  <2>1. \A s \in S : N - s \in Nat
    OBVIOUS
  <2>2. QED
    BY <2>1
<1>2. Min(T) \in T /\ \A t \in T : Min(T) =< t
  BY <1>1, MinOfNaturals
<1>3. PICK m \in S : Min(T) = N - m
  BY <1>2
<1>4. \A y \in S : m >= y
  <2>1. TAKE y \in S
  <2>2. N - y \in T
    OBVIOUS
  <2>3. N - m =< N - y
    BY <1>2, <1>3, <2>2
  <2>4. QED
    BY <2>3
<1>5. QED
  BY <1>4 DEF Max

-----------------------------------------------------------------------------
(* Sums.  The fold behind SumFunctionOnSet is a recursive function on the     *)
(* subsets of the set; everything below is by induction on their size.        *)

\* Induction over the naturals, for a set of numbers.
LEMMA Inductive ==
  ASSUME NEW G \in SUBSET Nat, 0 \in G, \A n \in G : n + 1 \in G
  PROVE  G = Nat
<1> SUFFICES ASSUME Nat \ G # {}
             PROVE  FALSE
  OBVIOUS
<1> DEFINE m == Min(Nat \ G)
<1>1. m \in Nat \ G /\ \A y \in Nat \ G : m =< y
  BY MinOfNaturals
<1> HIDE DEF m
<1>2. m # 0 /\ m - 1 \in Nat
  BY <1>1
<1>3. m - 1 \in G
  BY <1>1, <1>2
<1>4. (m - 1) + 1 = m
  BY <1>1
<1>5. QED
  BY <1>1, <1>3, <1>4

\* What the fold computes of each subset, one chosen member at a time.
IsFoldOf(w, S, g) ==
  /\ DOMAIN g = SUBSET S
  /\ \A s \in SUBSET S :
       g[s] = IF s = {} THEN 0
              ELSE w[CHOOSE x \in s : TRUE] + g[s \ {CHOOSE x \in s : TRUE}]
IsNumericFold(w, S, g) == IsFoldOf(w, S, g) /\ g \in [SUBSET S -> Int]

\* Any member may be the one set apart.
AnyOrder(w, S, g) == \A y \in S : g[S] = w[y] + g[S \ {y}]

\* The members of a finite set can be counted, and taken away one by one.
LEMMA TakeAway ==
  ASSUME NEW S, IsFiniteSet(S), NEW x \in S
  PROVE  /\ IsFiniteSet(S \ {x}) /\ Cardinality(S) \in Nat \ {0}
         /\ Cardinality(S \ {x}) = Cardinality(S) - 1
  BY FS_RemoveElement, FS_CardinalityType, FS_EmptySet

\* A property of sets that holds of a set when it holds of it without any one of
\* its members holds of every subset of a finite set.
LEMMA BySize ==
  ASSUME NEW S, IsFiniteSet(S), NEW G \in SUBSET (SUBSET S),
         \A s \in SUBSET S : (\A x \in s : s \ {x} \in G) => s \in G
  PROVE  G = SUBSET S
<1>1. \A s \in SUBSET S : IsFiniteSet(s) /\ Cardinality(s) \in Nat
  BY FS_Subset, FS_CardinalityType
<1> DEFINE Good == {n \in Nat : \A s \in SUBSET S : Cardinality(s) = n => s \in G}
<1>2. ASSUME NEW n \in Nat, n = 0 \/ n - 1 \in Good
      PROVE  n \in Good
  <2> SUFFICES ASSUME NEW s \in SUBSET S, Cardinality(s) = n
               PROVE  \A x \in s : s \ {x} \in G
    OBVIOUS
  <2> TAKE x \in s
  <2>1. Cardinality(s \ {x}) = n - 1 /\ n # 0
    BY <1>1, TakeAway
  <2>2. QED
    BY <1>2, <2>1
<1>3. Good = Nat
  <2>1. 0 \in Good
    BY <1>2
  <2>2. \A n \in Good : n + 1 \in Good
    <3> TAKE n \in Good
    <3>1. n + 1 \in Nat /\ (n + 1) - 1 = n
      OBVIOUS
    <3> HIDE DEF Good
    <3>2. QED
      BY <1>2, <3>1
  <2>3. Good \in SUBSET Nat
    OBVIOUS
  <2> HIDE DEF Good
  <2>4. QED
    BY <2>1, <2>2, <2>3, Inductive
<1>4. QED
  BY <1>1, <1>3

\* Two such functions agree wherever both are defined.
LEMMA FoldsAgree ==
  ASSUME NEW S, IsFiniteSet(S), NEW T \in SUBSET S, NEW w, NEW g, NEW h,
         IsFoldOf(w, S, g), IsFoldOf(w, T, h)
  PROVE  \A s \in SUBSET T : g[s] = h[s]
<1> DEFINE G == {s \in SUBSET T : g[s] = h[s]}
<1>1. ASSUME NEW s \in SUBSET T, \A x \in s : s \ {x} \in G
      PROVE  s \in G
  <2>1. CASE s = {}
    BY <2>1 DEF IsFoldOf
  <2>2. CASE s # {}
    <3> DEFINE c == CHOOSE x \in s : TRUE
    <3>1. c \in s
      BY <2>2
    <3>2. g[s] = w[c] + g[s \ {c}] /\ h[s] = w[c] + h[s \ {c}]
      BY <2>2 DEF IsFoldOf
    <3> HIDE DEF c
    <3>3. g[s \ {c}] = h[s \ {c}]
      BY <1>1, <3>1
    <3>4. QED
      BY <3>2, <3>3
  <2>3. QED
    BY <2>1, <2>2
<1>2. IsFiniteSet(T)
  BY FS_Subset
<1>3. G = SUBSET T
  <2>1. G \in SUBSET (SUBSET T)
    OBVIOUS
  <2> HIDE DEF G
  <2>2. QED
    BY <1>1, <1>2, <2>1, BySize
<1>4. QED
  BY <1>3

\* A sum over a finite set is computed by such a function, of the whole set.
LEMMA SumIsFold ==
  ASSUME NEW S, IsFiniteSet(S), NEW w, \A x \in S : w[x] \in Int
  PROVE  \E g : /\ IsNumericFold(w, S, g)
                /\ SumFunctionOnSet(w, S) = g[S]
<1> DEFINE Small(n) == {s \in SUBSET S : Cardinality(s) =< n}
           Rec(s, g) == IF s = {} THEN 0
                        ELSE w[CHOOSE x \in s : TRUE] + g[s \ {CHOOSE x \in s : TRUE}]
           Good == {n \in Nat : \E g \in [Small(n) -> Int] : \A s \in Small(n) : g[s] = Rec(s, g)}
<1>1. \A s \in SUBSET S : IsFiniteSet(s) /\ Cardinality(s) \in Nat
  BY FS_Subset, FS_CardinalityType
<1>2. \A n \in Nat : \A s \in Small(n) : s # {} =>
        /\ (CHOOSE x \in s : TRUE) \in s
        /\ s \ {CHOOSE x \in s : TRUE} \in Small(n)
        /\ n # 0 /\ s \ {CHOOSE x \in s : TRUE} \in Small(n - 1)
  <2> TAKE n \in Nat
  <2> TAKE s \in Small(n)
  <2> HAVE s # {}
  <2> DEFINE c == CHOOSE x \in s : TRUE
  <2>1. c \in s
    OBVIOUS
  <2>2. Cardinality(s \ {c}) = Cardinality(s) - 1 /\ Cardinality(s) \in Nat \ {0}
    BY <1>1, <2>1, TakeAway
  <2> HIDE DEF c
  <2>3. s \ {c} \in Small(n) /\ n # 0 /\ s \ {c} \in Small(n - 1)
    BY <2>2
  <2>4. QED
    BY <2>1, <2>3 DEF c
<1>3. 0 \in Good
  <2>1. \A s \in Small(0) : s = {}
    BY <1>2
  <2> DEFINE g == [s \in Small(0) |-> 0]
  <2>2. g \in [Small(0) -> Int] /\ \A s \in Small(0) : g[s] = Rec(s, g)
    BY <2>1
  <2>3. QED
    BY <2>2
<1>4. ASSUME NEW n \in Good
      PROVE  n + 1 \in Good
  <2>1. PICK g \in [Small(n) -> Int] : \A s \in Small(n) : g[s] = Rec(s, g)
    OBVIOUS
  <2>0. n \in Nat /\ n + 1 \in Nat /\ (n + 1) - 1 = n
    OBVIOUS
  <2>r. \A s \in Small(n + 1) : s # {} =>
          (CHOOSE x \in s : TRUE) \in s /\ s \ {CHOOSE x \in s : TRUE} \in Small(n)
    BY <1>2, <2>0
  <2>2. \A s \in Small(n + 1) : Rec(s, g) \in Int
    <3> TAKE s \in Small(n + 1)
    <3>1. CASE s = {}
      BY <3>1
    <3>2. CASE s # {}
      <4> DEFINE c == CHOOSE x \in s : TRUE
      <4>1. c \in S /\ s \ {c} \in Small(n)
        BY <2>r, <3>2
      <4> HIDE DEF c, Small
      <4>2. w[c] + g[s \ {c}] \in Int
        BY <4>1
      <4>3. QED
        BY <3>2, <4>2 DEF c
    <3>3. QED
      BY <3>1, <3>2
  <2> DEFINE h == [s \in Small(n + 1) |-> Rec(s, g)]
  <2>3. \A s \in Small(n) : s \in Small(n + 1) /\ h[s] = g[s]
    <3>1. \A s \in Small(n) : s \in Small(n + 1)
      BY <1>1, <2>0
    <3> HIDE DEF Small
    <3>2. QED
      BY <2>1, <3>1
  <2>4. h \in [Small(n + 1) -> Int]
    BY <2>2
  <2>5. \A s \in Small(n + 1) : h[s] = Rec(s, h)
    <3> TAKE s \in Small(n + 1)
    <3>1. CASE s = {}
      BY <3>1
    <3>2. CASE s # {}
      <4>1. s \ {CHOOSE x \in s : TRUE} \in Small(n)
        BY <2>r, <3>2
      <4>2. h[s \ {CHOOSE x \in s : TRUE}] = g[s \ {CHOOSE x \in s : TRUE}]
        BY <2>3, <4>1
      <4> HIDE DEF Small
      <4>3. QED
        BY <3>2, <4>2
    <3>3. QED
      BY <3>1, <3>2
  <2> HIDE DEF h, Small
  <2>6. QED
    BY <2>0, <2>4, <2>5
<1> HIDE DEF Good
<1>5. Cardinality(S) \in Good
  <2>1. Good \in SUBSET Nat
    BY DEF Good
  <2>2. QED
    BY <1>1, <1>3, <1>4, <2>1, Inductive
<1>6. Small(Cardinality(S)) = SUBSET S
  BY FS_Subset, FS_CardinalityType
<1> HIDE DEF Small
<1>7. PICK g \in [SUBSET S -> Int] : \A s \in SUBSET S : g[s] = Rec(s, g)
  BY <1>5, <1>6 DEF Good
<1>8. g = [s \in SUBSET S |-> Rec(s, g)]
  BY <1>7
<1> DEFINE Runs(h) == h = [s \in SUBSET S |->
             IF s = {} THEN 0 ELSE LET x == CHOOSE x \in s : TRUE IN w[x] + h[s \ {x}]]
<1>9. Runs(g)
  BY <1>8
<1>10. \E h : Runs(h) /\ SumFunctionOnSet(w, S) = h[S]
  BY <1>9 DEF SumFunctionOnSet, FoldFunctionOnSet, MapThenFoldSet
<1>11. PICK h : Runs(h) /\ SumFunctionOnSet(w, S) = h[S]
  BY <1>10
<1>12. IsFoldOf(w, S, h)
  BY <1>11 DEF IsFoldOf
<1>13. \A s \in SUBSET S : g[s] = h[s]
  <2>1. IsFoldOf(w, S, g)
    BY <1>8 DEF IsFoldOf
  <2>2. QED
    BY <1>12, <2>1, FoldsAgree
<1>14. h \in [SUBSET S -> Int]
  BY <1>11, <1>13
<1>15. QED
  BY <1>11, <1>12, <1>14 DEF IsNumericFold

\* Whatever member is set apart, the rest is the sum of the others.
LEMMA FoldsAnyOrder ==
  ASSUME NEW S, IsFiniteSet(S), NEW w, \A x \in S : w[x] \in Int,
         NEW g, IsNumericFold(w, S, g)
  PROVE  AnyOrder(w, S, g)
<1> DEFINE G == {s \in SUBSET S : \A y \in s : g[s] = w[y] + g[s \ {y}]}
<1>1. ASSUME NEW s \in SUBSET S, \A x \in s : s \ {x} \in G
      PROVE  s \in G
  <2> SUFFICES ASSUME NEW y \in s
               PROVE  g[s] = w[y] + g[s \ {y}]
    OBVIOUS
  <2> DEFINE c == CHOOSE x \in s : TRUE
  <2>1. c \in s
    OBVIOUS
  <2>2. g[s] = w[c] + g[s \ {c}]
    BY DEF IsFoldOf, IsNumericFold
  <2> HIDE DEF c
  <2>3. CASE y = c
    BY <2>2, <2>3
  <2>4. CASE y # c
    <3>1. g[s \ {c}] = w[y] + g[(s \ {c}) \ {y}]
      BY <1>1, <2>1, <2>4
    <3>2. g[s \ {y}] = w[c] + g[(s \ {y}) \ {c}]
      BY <1>1, <2>1, <2>4
    <3>3. (s \ {c}) \ {y} = (s \ {y}) \ {c}
      OBVIOUS
    <3>4. w[c] \in Int /\ w[y] \in Int /\ g[(s \ {y}) \ {c}] \in Int
      BY <2>1 DEF IsNumericFold
    <3> DEFINE r == g[(s \ {y}) \ {c}]
    <3>5. g[s] = w[c] + (w[y] + r) /\ g[s \ {y}] = w[c] + r /\ r \in Int
      BY <2>2, <3>1, <3>2, <3>3, <3>4
    <3> HIDE DEF r
    <3>6. QED
      BY <3>4, <3>5
  <2>5. QED
    BY <2>3, <2>4
<1>2. G = SUBSET S
  <2>1. G \in SUBSET (SUBSET S)
    OBVIOUS
  <2> HIDE DEF G
  <2>2. QED
    BY <1>1, <2>1, BySize
<1>3. S \in G
  BY <1>2
<1>4. QED
  BY <1>3 DEF AnyOrder

\* A sum over a finite set is a number: none over no member, and over a set the
\* value of any of its members more than over the others.
LEMMA SumBySize ==
  ASSUME NEW S, IsFiniteSet(S), NEW w, \A x \in S : w[x] \in Int
  PROVE  /\ SumFunctionOnSet(w, S) \in Int
         /\ SumFunctionOnSet(w, {}) = 0
         /\ \A y \in S : SumFunctionOnSet(w, S) = w[y] + SumFunctionOnSet(w, S \ {y})
<1>1. PICK g : /\ IsNumericFold(w, S, g)
               /\ SumFunctionOnSet(w, S) = g[S]
  BY SumIsFold
<1>2. \A T \in SUBSET S : SumFunctionOnSet(w, T) = g[T]
  <2> TAKE T \in SUBSET S
  <2>1. IsFiniteSet(T) /\ \A x \in T : w[x] \in Int
    BY FS_Subset
  <2>2. PICK h : /\ IsNumericFold(w, T, h) /\ SumFunctionOnSet(w, T) = h[T]
    BY <2>1, SumIsFold
  <2>3. g[T] = h[T]
    BY <1>1, <2>2, FoldsAgree DEF IsNumericFold
  <2>4. QED
    BY <2>2, <2>3
<1>3. g[{}] = 0
  BY <1>1 DEF IsFoldOf, IsNumericFold
<1>4. AnyOrder(w, S, g)
  BY <1>1, FoldsAnyOrder
<1>5. SumFunctionOnSet(w, {}) = 0
  BY <1>2, <1>3
<1>6. ASSUME NEW y \in S
      PROVE  SumFunctionOnSet(w, S) = w[y] + SumFunctionOnSet(w, S \ {y})
  <2>1. S \ {y} \in SUBSET S
    OBVIOUS
  <2>2. SumFunctionOnSet(w, S \ {y}) = g[S \ {y}]
    BY <1>2, <2>1
  <2>3. QED
    BY <1>1, <1>4, <2>2 DEF AnyOrder
<1>7. g[S] \in Int
  BY <1>1 DEF IsNumericFold
<1>8. QED
  BY <1>1, <1>5, <1>6, <1>7

\* What holds of sums when it survives the addition of one member: the order of
\* two sums is the order of their members.
LEMMA SumIsMonotone ==
  ASSUME NEW S, IsFiniteSet(S), NEW w, NEW v,
         \A x \in S : w[x] \in Int /\ v[x] \in Int /\ w[x] =< v[x]
  PROVE  SumFunctionOnSet(w, S) =< SumFunctionOnSet(v, S)
<1> DEFINE G == {s \in SUBSET S : SumFunctionOnSet(w, s) =< SumFunctionOnSet(v, s)}
<1>1. ASSUME NEW s \in SUBSET S, \A x \in s : s \ {x} \in G
      PROVE  s \in G
  <2>1. IsFiniteSet(s)
    BY FS_Subset
  <2>2. /\ SumFunctionOnSet(w, s) \in Int /\ SumFunctionOnSet(w, {}) = 0
        /\ \A y \in s : SumFunctionOnSet(w, s) = w[y] + SumFunctionOnSet(w, s \ {y})
    <3>1. \A x \in s : w[x] \in Int
      OBVIOUS
    <3>2. QED
      BY <2>1, <3>1, SumBySize
  <2>3. /\ SumFunctionOnSet(v, s) \in Int /\ SumFunctionOnSet(v, {}) = 0
        /\ \A y \in s : SumFunctionOnSet(v, s) = v[y] + SumFunctionOnSet(v, s \ {y})
    <3>1. \A x \in s : v[x] \in Int
      OBVIOUS
    <3>2. QED
      BY <2>1, <3>1, SumBySize
  <2>4. CASE s = {}
    BY <2>2, <2>3, <2>4
  <2>5. CASE s # {}
    <3>1. PICK x \in s : TRUE
      BY <2>5
    <3>2. SumFunctionOnSet(w, s \ {x}) =< SumFunctionOnSet(v, s \ {x})
      BY <1>1
    <3>3. IsFiniteSet(s \ {x}) /\ \A y \in s \ {x} : w[y] \in Int /\ v[y] \in Int
      BY <2>1, FS_Subset
    <3>4. SumFunctionOnSet(w, s \ {x}) \in Int /\ SumFunctionOnSet(v, s \ {x}) \in Int
      BY <3>3, SumBySize
    <3>5. /\ SumFunctionOnSet(w, s) = w[x] + SumFunctionOnSet(w, s \ {x})
          /\ SumFunctionOnSet(v, s) = v[x] + SumFunctionOnSet(v, s \ {x})
          /\ w[x] \in Int /\ v[x] \in Int /\ w[x] =< v[x]
      BY <2>2, <2>3
    <3>6. QED
      BY <3>2, <3>4, <3>5
  <2>6. QED
    BY <2>4, <2>5
<1>2. G = SUBSET S
  <2>1. G \in SUBSET (SUBSET S)
    OBVIOUS
  <2> HIDE DEF G
  <2>2. QED
    BY <1>1, <2>1, BySize
<1>3. QED
  BY <1>2

\* A sum depends on the values of the members alone.
LEMMA SumOfEquals ==
  ASSUME NEW S, IsFiniteSet(S), NEW w, NEW v,
         \A x \in S : w[x] \in Int /\ v[x] = w[x]
  PROVE  SumFunctionOnSet(w, S) = SumFunctionOnSet(v, S)
<1>1. \A x \in S : w[x] \in Int /\ v[x] \in Int /\ w[x] =< v[x] /\ v[x] =< w[x]
  OBVIOUS
<1>2. SumFunctionOnSet(w, S) =< SumFunctionOnSet(v, S)
  BY <1>1, SumIsMonotone
<1>3. SumFunctionOnSet(v, S) =< SumFunctionOnSet(w, S)
  BY <1>1, SumIsMonotone
<1>4. SumFunctionOnSet(w, S) \in Int /\ SumFunctionOnSet(v, S) \in Int
  BY <1>1, SumBySize
<1>5. QED
  BY <1>2, <1>3, <1>4

\* A sum of zeros is zero.
LEMMA SumOfZeros ==
  ASSUME NEW S, IsFiniteSet(S), NEW w, \A x \in S : w[x] = 0
  PROVE  SumFunctionOnSet(w, S) = 0
<1> DEFINE G == {s \in SUBSET S : SumFunctionOnSet(w, s) = 0}
<1>1. ASSUME NEW s \in SUBSET S, \A x \in s : s \ {x} \in G
      PROVE  s \in G
  <2>1. IsFiniteSet(s) /\ \A x \in s : w[x] \in Int /\ w[x] = 0
    BY FS_Subset
  <2>2. /\ SumFunctionOnSet(w, {}) = 0
        /\ \A y \in s : SumFunctionOnSet(w, s) = w[y] + SumFunctionOnSet(w, s \ {y})
    BY <2>1, SumBySize
  <2>3. CASE s = {}
    BY <2>2, <2>3
  <2>4. CASE s # {}
    <3>1. PICK x \in s : TRUE
      BY <2>4
    <3>2. SumFunctionOnSet(w, s \ {x}) = 0
      BY <1>1
    <3>3. SumFunctionOnSet(w, s) = w[x] + SumFunctionOnSet(w, s \ {x})
      BY <2>2
    <3>4. QED
      BY <2>1, <3>2, <3>3
  <2>5. QED
    BY <2>3, <2>4
<1>2. G = SUBSET S
  <2>1. G \in SUBSET (SUBSET S)
    OBVIOUS
  <2> HIDE DEF G
  <2>2. QED
    BY <1>1, <2>1, BySize
<1>3. QED
  BY <1>2

\* Of a sum of naturals, no member is more than the whole.
LEMMA SumOfNaturals ==
  ASSUME NEW S, IsFiniteSet(S), NEW w, \A x \in S : w[x] \in Nat
  PROVE  /\ SumFunctionOnSet(w, S) \in Nat
         /\ \A y \in S : w[y] =< SumFunctionOnSet(w, S)
<1> DEFINE z == [x \in S |-> 0]
<1>1. \A T \in SUBSET S : SumFunctionOnSet(z, T) =< SumFunctionOnSet(w, T)
  <2> TAKE T \in SUBSET S
  <2>1. IsFiniteSet(T)
    BY FS_Subset
  <2>2. \A x \in T : z[x] \in Int /\ w[x] \in Int /\ z[x] =< w[x]
    OBVIOUS
  <2> HIDE DEF z
  <2>3. QED
    BY <2>1, <2>2, SumIsMonotone
<1> HIDE DEF z
<1>4. \A T \in SUBSET S : SumFunctionOnSet(z, T) = 0
  <2> TAKE T \in SUBSET S
  <2>1. IsFiniteSet(T) /\ \A x \in T : z[x] = 0
    BY FS_Subset DEF z
  <2>2. QED
    BY <2>1, SumOfZeros
<1>5. \A T \in SUBSET S : SumFunctionOnSet(w, T) \in Nat
  <2> TAKE T \in SUBSET S
  <2>1. IsFiniteSet(T) /\ \A x \in T : w[x] \in Int
    BY FS_Subset
  <2>2. SumFunctionOnSet(w, T) \in Int
    BY <2>1, SumBySize
  <2>3. QED
    BY <1>1, <1>4, <2>2
<1>6. \A y \in S : SumFunctionOnSet(w, S) = w[y] + SumFunctionOnSet(w, S \ {y})
  <2>1. \A x \in S : w[x] \in Int
    OBVIOUS
  <2>2. QED
    BY <2>1, SumBySize
<1>7. \A y \in S : SumFunctionOnSet(w, S \ {y}) \in Nat
  BY <1>5
<1>8. \A y \in S : w[y] =< SumFunctionOnSet(w, S)
  <2> TAKE y \in S
  <2>1. w[y] \in Nat /\ SumFunctionOnSet(w, S \ {y}) \in Nat
    BY <1>7
  <2>2. SumFunctionOnSet(w, S) = w[y] + SumFunctionOnSet(w, S \ {y})
    BY <1>6
  <2>3. QED
    BY <2>1, <2>2
<1>9. QED
  BY <1>5, <1>8

\* When one value changes, the sum changes by as much.
LEMMA SumChanges ==
  ASSUME NEW S, IsFiniteSet(S), NEW a \in S, NEW w, NEW v,
         \A x \in S : w[x] \in Int /\ v[x] \in Int,
         \A x \in S \ {a} : v[x] = w[x]
  PROVE  SumFunctionOnSet(v, S) = (SumFunctionOnSet(w, S) - w[a]) + v[a]
<1>1. IsFiniteSet(S \ {a})
  BY FS_Subset
<1>2. SumFunctionOnSet(w, S \ {a}) = SumFunctionOnSet(v, S \ {a})
  BY <1>1, SumOfEquals
<1>3. SumFunctionOnSet(w, S \ {a}) \in Int
  BY <1>1, SumBySize
<1>4. /\ SumFunctionOnSet(w, S) = w[a] + SumFunctionOnSet(w, S \ {a})
      /\ SumFunctionOnSet(v, S) = v[a] + SumFunctionOnSet(v, S \ {a})
  BY SumBySize
<1>5. QED
  BY <1>2, <1>3, <1>4

\* Members whose value is zero can be left out of a sum.
LEMMA SumOverPart ==
  ASSUME NEW S, IsFiniteSet(S), NEW T \in SUBSET S, NEW w, \A x \in S : w[x] \in Int,
         \A x \in S \ T : w[x] = 0
  PROVE  SumFunctionOnSet(w, S) = SumFunctionOnSet(w, T)
<1> DEFINE G == {s \in SUBSET S : SumFunctionOnSet(w, s) = SumFunctionOnSet(w, s \cap T)}
<1>1. ASSUME NEW s \in SUBSET S, \A x \in s : s \ {x} \in G
      PROVE  s \in G
  <2>1. CASE s = {}
    <3>1. s \cap T = s
      BY <2>1
    <3>2. QED
      BY <3>1
  <2>2. CASE s # {}
    <3>1. PICK x \in s : TRUE
      BY <2>2
    <3>2. SumFunctionOnSet(w, s \ {x}) = SumFunctionOnSet(w, (s \ {x}) \cap T)
      BY <1>1
    <3>3. IsFiniteSet(s) /\ \A y \in s : w[y] \in Int
      BY FS_Subset
    <3>4. SumFunctionOnSet(w, s) = w[x] + SumFunctionOnSet(w, s \ {x})
      BY <3>3, SumBySize
    <3>5. CASE x \in T
      <4>1. (s \ {x}) \cap T = (s \cap T) \ {x} /\ x \in s \cap T
        BY <3>5
      <4>2. IsFiniteSet(s \cap T) /\ \A y \in s \cap T : w[y] \in Int
        BY <3>3, FS_Subset
      <4>3. SumFunctionOnSet(w, s \cap T) = w[x] + SumFunctionOnSet(w, (s \cap T) \ {x})
        BY <4>1, <4>2, SumBySize
      <4>4. QED
        BY <3>2, <3>4, <4>1, <4>3
    <3>6. CASE x \notin T
      <4>1. (s \ {x}) \cap T = s \cap T
        BY <3>6
      <4>0. w[x] = 0
        BY <3>6
      <4>2. IsFiniteSet(s \ {x}) /\ \A y \in s \ {x} : w[y] \in Int
        BY <3>3, FS_Subset
      <4>3. SumFunctionOnSet(w, s \ {x}) \in Int
        BY <4>2, SumBySize
      <4>4. SumFunctionOnSet(w, s) = SumFunctionOnSet(w, s \ {x})
        BY <3>4, <4>0, <4>3
      <4>5. SumFunctionOnSet(w, s) = SumFunctionOnSet(w, s \cap T)
        BY ONLY <3>2, <4>1, <4>4
      <4>6. QED
        BY <4>5
    <3>7. QED
      BY <3>5, <3>6
  <2>3. QED
    BY <2>1, <2>2
<1>2. G = SUBSET S
  <2>1. G \in SUBSET (SUBSET S)
    OBVIOUS
  <2> HIDE DEF G
  <2>2. QED
    BY <1>1, <2>1, BySize
<1>3. SumFunctionOnSet(w, S) = SumFunctionOnSet(w, S \cap T)
  BY <1>2
<1>4. S \cap T = T
  OBVIOUS
<1>5. QED
  BY <1>3, <1>4

\* A sum of naturals over a part of a set is not more than over the whole.
LEMMA SumOfPart ==
  ASSUME NEW S, IsFiniteSet(S), NEW T \in SUBSET S, NEW w, \A x \in S : w[x] \in Nat
  PROVE  SumFunctionOnSet(w, T) =< SumFunctionOnSet(w, S)
<1> DEFINE v == [x \in S |-> IF x \in T THEN w[x] ELSE 0]
<1>1. /\ \A x \in S : v[x] \in Int /\ w[x] \in Int /\ v[x] =< w[x]
      /\ \A x \in S \ T : v[x] = 0
      /\ \A x \in T : w[x] \in Int /\ v[x] = w[x]
  OBVIOUS
<1> HIDE DEF v
<1>2. IsFiniteSet(T)
  BY FS_Subset
<1>3. SumFunctionOnSet(w, T) = SumFunctionOnSet(v, T)
  BY <1>1, <1>2, SumOfEquals
<1>4. SumFunctionOnSet(v, S) = SumFunctionOnSet(v, T)
  BY <1>1, SumOverPart
<1>5. SumFunctionOnSet(v, S) =< SumFunctionOnSet(w, S)
  BY <1>1, SumIsMonotone
<1>6. QED
  BY <1>3, <1>4, <1>5
=============================================================================
