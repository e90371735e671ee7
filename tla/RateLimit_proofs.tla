-------------------------- MODULE RateLimit_proofs --------------------------
(***************************************************************************)
(* Proofs about RateLimit, for any limits, ids, callers and times: the     *)
(* rings stay sound however the callers race, and with the caller's lock   *)
(* no id is granted more than limit checks in any window.                  *)
(***************************************************************************)
EXTENDS RateLimit, FiniteSetTheorems, WellFoundedInduction, TLAPS

-----------------------------------------------------------------------------
(* Sums over finite sets.                                                  *)

\* Every set of numbers has a least one.
LEMMA NatMin ==
    ASSUME NEW T, T \subseteq Nat, T # {}
    PROVE  \E m \in T : \A n \in T : m <= n
<1> DEFINE U == {0 .. n : n \in T}
<1>1. \A n \in T : 0 .. n \in SUBSET Nat /\ IsFiniteSet(0 .. n)
  <2> TAKE n \in T
  <2>1. n \in Int /\ 0 .. n \in SUBSET Nat
    OBVIOUS
  <2> QED
    BY <2>1, FS_Interval
<1>2. U \subseteq FiniteSubsetsOf(Nat) /\ U # {}
  BY <1>1 DEF FiniteSubsetsOf
<1>3. PICK x \in U : \A y \in U : ~(<<y, x>> \in StrictSubsetOrdering(Nat))
  <2> HIDE DEF U
  <2> QED
    BY <1>2, FS_StrictSubsetOrderingWellFounded, WFMin
<1>4. PICK m \in T : x = 0 .. m
  OBVIOUS
<1>5. ASSUME NEW n \in T, n < m
      PROVE  FALSE
  <2>1. <<0 .. n, 0 .. m>> \in StrictSubsetOrdering(Nat)
    BY <1>5, m \in Nat, n \in Nat DEF StrictSubsetOrdering
  <2> QED
    BY <2>1, <1>3, <1>4
<1> QED
  BY <1>5

\* Of the sets in a collection of finite sets, one has the fewest elements.
LEMMA Smallest ==
    ASSUME NEW C, C # {}, \A s \in C : IsFiniteSet(s)
    PROVE  \E s \in C : \A r \in C : Cardinality(s) <= Cardinality(r)
<1> DEFINE T == {Cardinality(s) : s \in C}
<1>1. T \subseteq Nat /\ T # {}
  BY FS_CardinalityType
<1>2. PICK m \in T : \A n \in T : m <= n
  BY <1>1, NatMin
<1> QED
  BY <1>2

Pick(s) == CHOOSE x \in s : TRUE

\* What the sums of f over some sets have to be.
Adds(f, h, s) == h[s] = IF s = {} THEN 0 ELSE f[Pick(s)] + h[s \ {Pick(s)}]

UpTo(S, n) == {s \in SUBSET S : Cardinality(s) <= n}
Sums(f, S, n) == {h \in [UpTo(S, n) -> Nat] : \A s \in UpTo(S, n) : Adds(f, h, s)}

LEMMA Without ==
    ASSUME NEW s, IsFiniteSet(s), NEW x \in s
    PROVE  /\ IsFiniteSet(s \ {x}) /\ Cardinality(s) \in Nat /\ Cardinality(s \ {x}) \in Nat
           /\ Cardinality(s \ {x}) = Cardinality(s) - 1
BY FS_RemoveElement, FS_CardinalityType

LEMMA PickIn == ASSUME NEW s, s # {} PROVE Pick(s) \in s
BY DEF Pick

LEMMA SumsExist ==
    ASSUME NEW S, IsFiniteSet(S), NEW f, \A x \in S : f[x] \in Nat, NEW n \in Nat
    PROVE  Sums(f, S, n) # {}
<1>f. \A s \in SUBSET S : IsFiniteSet(s) /\ Cardinality(s) \in Nat
  BY FS_Subset, FS_CardinalityType
<1> DEFINE Bad == {k \in Nat : Sums(f, S, k) = {}}
<1>1. SUFFICES ASSUME Bad # {} PROVE FALSE
  OBVIOUS
<1>2. PICK m \in Bad : \A k \in Bad : m <= k
  BY <1>1, NatMin
<1>3. m # 0
  <2>1. UpTo(S, 0) = {{}}
    BY <1>f, FS_EmptySet DEF UpTo
  <2>2. [s \in {{}} |-> 0] \in Sums(f, S, 0)
    BY <2>1 DEF Sums, Adds
  <2> QED
    BY <2>2
<1>4. PICK h : h \in Sums(f, S, m - 1)
  BY <1>2, <1>3
<1>5. h \in [UpTo(S, m - 1) -> Nat] /\ \A s \in UpTo(S, m - 1) : Adds(f, h, s)
  BY <1>4 DEF Sums
<1> DEFINE g == [s \in UpTo(S, m) |-> IF Cardinality(s) < m THEN h[s]
                                        ELSE f[Pick(s)] + h[s \ {Pick(s)}]]
<1>6. ASSUME NEW s \in UpTo(S, m), Cardinality(s) < m
      PROVE  s \in UpTo(S, m - 1) /\ g[s] = h[s] /\ g[s] \in Nat
  BY <1>6, <1>5, <1>f DEF UpTo
<1>7. ASSUME NEW s \in UpTo(S, m), s # {}
      PROVE  s \ {Pick(s)} \in UpTo(S, m - 1) /\ s \ {Pick(s)} \in UpTo(S, m) /\ f[Pick(s)] \in Nat
             /\ Cardinality(s \ {Pick(s)}) < m
  BY <1>7, <1>f, PickIn, Without DEF UpTo
<1>8. \A s \in UpTo(S, m) : g[s] \in Nat /\ Adds(f, g, s)
  <2> TAKE s \in UpTo(S, m)
  <2>1. CASE Cardinality(s) < m
    <3>1. s \in UpTo(S, m - 1) /\ g[s] = h[s] /\ g[s] \in Nat
      BY <2>1, <1>6
    <3>2. s # {} => g[s \ {Pick(s)}] = h[s \ {Pick(s)}]
      BY <1>6, <1>7
    <3> QED
      BY <3>1, <3>2, <1>5 DEF Adds
  <2>2. CASE ~(Cardinality(s) < m)
    <3>1. s # {}
      BY <2>2, <1>3, FS_EmptySet
    <3>2. g[s] = f[Pick(s)] + h[s \ {Pick(s)}]
      BY <2>2
    <3>3. g[s \ {Pick(s)}] = h[s \ {Pick(s)}] /\ g[s \ {Pick(s)}] \in Nat /\ f[Pick(s)] \in Nat
      BY <3>1, <1>6, <1>7
    <3> HIDE DEF g
    <3> QED
      BY <3>1, <3>2, <3>3 DEF Adds
  <2> QED
    BY <2>1, <2>2
<1>9. g \in [UpTo(S, m) -> Nat]
  BY <1>8
<1> HIDE DEF g
<1> QED
  BY <1>2, <1>8, <1>9 DEF Sums

\* Functions that give Sum on the subsets of S, by one element and the rest.
SumOn(f, S) == {h \in [SUBSET S -> Nat] : \A s \in SUBSET S : Adds(f, h, s) /\ Sum(f, s) = h[s]}

LEMMA SumPick ==
    ASSUME NEW S, IsFiniteSet(S), NEW f, \A x \in S : f[x] \in Nat
    PROVE  SumOn(f, S) # {}
<1>f. \A s \in SUBSET S : IsFiniteSet(s) /\ Cardinality(s) \in Nat /\ Cardinality(s) <= Cardinality(S)
  BY FS_Subset, FS_CardinalityType
<1>1. SUBSET S = UpTo(S, Cardinality(S)) /\ Cardinality(S) \in Nat
  BY <1>f DEF UpTo
<1>2. PICK h \in [SUBSET S -> Nat] : \A s \in SUBSET S : Adds(f, h, s)
  <2>1. PICK h : h \in Sums(f, S, Cardinality(S))
    BY <1>1, SumsExist
  <2> DEFINE U == UpTo(S, Cardinality(S))
  <2>2. h \in [U -> Nat] /\ \A s \in U : Adds(f, h, s)
    BY <2>1 DEF Sums
  <2>3. U = SUBSET S
    BY <1>1
  <2> HIDE DEF U
  <2> QED
    BY <2>2, <2>3
<1>3. ASSUME NEW s \in SUBSET S PROVE Sum(f, s) = h[s]
  <2> DEFINE Def(iter) == [r \in SUBSET s |-> IF r = {} THEN 0 ELSE f[Pick(r)] + iter[r \ {Pick(r)}]]
             it == CHOOSE iter : iter = Def(iter)
             hs == [r \in SUBSET s |-> h[r]]
  <2>1. Sum(f, s) = it[s]
    BY DEF Sum, MapThenSumSet, MapThenFoldSet, Pick
  <2>2. hs = Def(hs)
    <3>1. \A r \in SUBSET s : hs[r] = IF r = {} THEN 0 ELSE f[Pick(r)] + hs[r \ {Pick(r)}]
      BY <1>2 DEF Adds
    <3> QED
      BY <3>1
  <2> HIDE DEF hs, Def
  <2>3. it = Def(it)
    BY <2>2, Zenon
  <2> HIDE DEF it
  <2>4. \A r \in SUBSET s : it[r] = IF r = {} THEN 0 ELSE f[Pick(r)] + it[r \ {Pick(r)}]
    BY <2>3 DEF Def
  <2> DEFINE C == {r \in SUBSET s : it[r] # h[r]}
  <2>5. C = {}
    <3> SUFFICES ASSUME C # {} PROVE FALSE
      OBVIOUS
    <3>1. PICK r \in C : \A q \in C : Cardinality(r) <= Cardinality(q)
      BY <1>f, Smallest
    <3>2. r # {}
      BY <3>1, <2>4, <1>2 DEF Adds
    <3>3. r \ {Pick(r)} \notin C
      BY <3>1, <3>2, <1>f, PickIn, Without
    <3> QED
      BY <3>1, <3>2, <3>3, <2>4, <1>2 DEF Adds
  <2> QED
    BY <2>1, <2>5
<1>4. \A s \in SUBSET S : Adds(f, h, s) /\ Sum(f, s) = h[s]
  BY <1>2, <1>3
<1> QED
  BY <1>2, <1>4 DEF SumOn

\* Any element can be taken first.
LEMMA SumFacts ==
    ASSUME NEW S, IsFiniteSet(S), NEW f, \A x \in S : f[x] \in Nat
    PROVE  /\ Sum(f, S) \in Nat
           /\ S = {} => Sum(f, S) = 0
           /\ \A x \in S : Sum(f, S) = f[x] + Sum(f, S \ {x})
<1>1. PICK h \in [SUBSET S -> Nat] : \A s \in SUBSET S : Adds(f, h, s) /\ Sum(f, s) = h[s]
  <2>1. SumOn(f, S) # {}
    BY SumPick
  <2> QED
    BY <2>1 DEF SumOn
<1>f. \A s \in SUBSET S : IsFiniteSet(s) /\ Cardinality(s) \in Nat
  BY FS_Subset, FS_CardinalityType
<1> DEFINE C == {s \in SUBSET S : \E x \in s : h[s] # f[x] + h[s \ {x}]}
<1>2. C = {}
  <2> SUFFICES ASSUME C # {} PROVE FALSE
    OBVIOUS
  <2>1. PICK s \in C : \A q \in C : Cardinality(s) <= Cardinality(q)
    BY <1>f, Smallest
  <2>2. PICK x \in s : h[s] # f[x] + h[s \ {x}]
    BY <2>1
  <2> DEFINE y == Pick(s)
             r == s \ {x, y}
  <2>3. y \in s /\ h[s] = f[y] + h[s \ {y}]
    BY <1>1, <2>2, PickIn DEF Adds
  <2> HIDE DEF y
  <2>4. y # x
    BY <2>2, <2>3
  <2>5. s \ {x} \notin C /\ s \ {y} \notin C
    <3>1. /\ Cardinality(s \ {x}) = Cardinality(s) - 1 /\ Cardinality(s \ {y}) = Cardinality(s) - 1
          /\ Cardinality(s) \in Nat
      BY <2>1, <2>2, <2>3, <1>f, Without
    <3>2. ~(Cardinality(s) <= Cardinality(s \ {x})) /\ ~(Cardinality(s) <= Cardinality(s \ {y}))
      BY <3>1
    <3> HIDE DEF C
    <3> QED
      BY <2>1, <3>2
  <2>6. h[s \ {x}] = f[y] + h[r]
    <3>1. (s \ {x}) \ {y} = r /\ y \in s \ {x} /\ s \ {x} \in SUBSET S
      BY <2>3, <2>4
    <3> QED
      BY <3>1, <2>5
  <2>7. h[s \ {y}] = f[x] + h[r]
    <3>1. (s \ {y}) \ {x} = r /\ x \in s \ {y} /\ s \ {y} \in SUBSET S
      BY <2>3, <2>4
    <3> QED
      BY <3>1, <2>5
  <2>8. f[x] \in Nat /\ f[y] \in Nat /\ h[r] \in Nat
    BY <2>3
  <2> QED
    BY <2>2, <2>3, <2>6, <2>7, <2>8
<1>3. ASSUME NEW x \in S PROVE Sum(f, S) = f[x] + Sum(f, S \ {x})
  <2>1. S \in SUBSET S /\ S \ {x} \in SUBSET S /\ S \notin C
    BY <1>2
  <2>2. h[S] = f[x] + h[S \ {x}]
    BY <2>1
  <2> QED
    BY <2>1, <2>2, <1>1
<1> QED
  BY <1>1, <1>3 DEF Adds

\* Sums are equal when the numbers are, ...
LEMMA SumSame ==
    ASSUME NEW S, IsFiniteSet(S), NEW f, NEW g, \A x \in S : f[x] \in Nat /\ f[x] = g[x]
    PROVE  Sum(f, S) = Sum(g, S)
<1>f. \A s \in SUBSET S : IsFiniteSet(s) /\ Cardinality(s) \in Nat
  BY FS_Subset, FS_CardinalityType
<1> DEFINE C == {s \in SUBSET S : Sum(f, s) # Sum(g, s)}
<1>1. SUFFICES ASSUME C # {} PROVE FALSE
  OBVIOUS
<1>2. PICK s \in C : \A q \in C : Cardinality(s) <= Cardinality(q)
  BY <1>1, <1>f, Smallest
<1>3. s # {}
  BY <1>2, <1>f, SumFacts
<1>4. PICK x \in s : TRUE
  BY <1>3
<1>5. s \ {x} \notin C
  BY <1>2, <1>4, <1>f, Without
<1>6. /\ Sum(f, s) = f[x] + Sum(f, s \ {x})
      /\ Sum(g, s) = g[x] + Sum(g, s \ {x})
  BY <1>2, <1>4, <1>f, SumFacts
<1> QED
  BY <1>2, <1>4, <1>5, <1>6

\* ... and a set adds up to its parts.
LEMMA SumParts ==
    ASSUME NEW S, IsFiniteSet(S), NEW f, \A x \in S : f[x] \in Nat, NEW R \in SUBSET S
    PROVE  Sum(f, S) = Sum(f, R) + Sum(f, S \ R)
<1>f. \A s \in SUBSET S : IsFiniteSet(s) /\ Cardinality(s) \in Nat
  BY FS_Subset, FS_CardinalityType
<1> DEFINE C == {s \in SUBSET R : Sum(f, S) # Sum(f, s) + Sum(f, S \ s)}
<1>1. SUFFICES ASSUME C # {} PROVE FALSE
  OBVIOUS
<1>2. PICK s \in C : \A q \in C : Cardinality(s) <= Cardinality(q)
  BY <1>1, <1>f, Smallest
<1>3. s # {}
  <2> SUFFICES ASSUME s = {} PROVE FALSE
    OBVIOUS
  <2>1. S \ s = S /\ Sum(f, s) = 0 /\ Sum(f, S) \in Nat
    BY <1>f, <1>2, SumFacts
  <2>2. Sum(f, S) # Sum(f, s) + Sum(f, S \ s)
    BY <1>2
  <2>3. Sum(f, S \ s) = Sum(f, S)
    BY <2>1
  <2> QED
    BY <2>1, <2>2, <2>3
<1>4. PICK x \in s : TRUE
  BY <1>3
<1>5. s \ {x} \notin C
  BY <1>2, <1>4, <1>f, Without
<1>6. /\ Sum(f, s) = f[x] + Sum(f, s \ {x}) /\ Sum(f, s \ {x}) \in Nat
  BY <1>2, <1>4, <1>f, SumFacts
<1>7. Sum(f, S \ (s \ {x})) = f[x] + Sum(f, S \ s) /\ Sum(f, S \ s) \in Nat
  <2> DEFINE p == S \ (s \ {x})
             q == S \ s
  <2>1. p \ {x} = q /\ x \in p /\ p \in SUBSET S /\ q \in SUBSET S
    BY <1>2, <1>4
  <2> HIDE DEF p, q
  <2>2. Sum(f, q) \in Nat /\ Sum(f, p) = f[x] + Sum(f, p \ {x})
    BY <2>1, <1>f, SumFacts
  <2>3. Sum(f, p) = f[x] + Sum(f, q)
    BY <2>1, <2>2
  <2> QED
    BY <2>2, <2>3 DEF p, q
<1>8. Sum(f, S) = Sum(f, s \ {x}) + Sum(f, S \ (s \ {x}))
  BY <1>2, <1>5
<1>9. f[x] \in Nat
  BY <1>2, <1>4
<1> QED
  BY <1>2, <1>6, <1>7, <1>8, <1>9

\* Nothing adds up to nothing.
LEMMA SumZero ==
    ASSUME NEW S, IsFiniteSet(S), NEW f, \A x \in S : f[x] = 0
    PROVE  Sum(f, S) = 0
<1>1. S # {} => \E x \in S : TRUE
  OBVIOUS
<1>f. \A s \in SUBSET S : IsFiniteSet(s) /\ Cardinality(s) \in Nat
  BY FS_Subset, FS_CardinalityType
<1> DEFINE C == {s \in SUBSET S : Sum(f, s) # 0}
<1>2. SUFFICES ASSUME C # {} PROVE FALSE
  OBVIOUS
<1>3. PICK s \in C : \A q \in C : Cardinality(s) <= Cardinality(q)
  BY <1>2, <1>f, Smallest
<1>4. s # {}
  BY <1>3, <1>f, SumFacts
<1>5. PICK x \in s : TRUE
  BY <1>4
<1>6. s \ {x} \notin C
  BY <1>3, <1>5, <1>f, Without
<1>7. Sum(f, s) = f[x] + Sum(f, s \ {x})
  BY <1>3, <1>5, <1>f, SumFacts
<1> QED
  BY <1>3, <1>5, <1>6, <1>7

-----------------------------------------------------------------------------
(* Quotients and remainders.                                               *)

\* A larger factor makes at least n more.
LEMMA MulLess ==
    ASSUME NEW n \in Nat \ {0}, NEW x \in Int, NEW y \in Int, x < y
    PROVE  n * x + n <= n * y
<1>1. n * y = n * x + n * (y - x)
  OBVIOUS
<1>2. n * (y - x) >= n
  <2>1. \A d \in Nat : n * (d + 1) = n * d + n /\ n * d \in Nat
    OBVIOUS
  <2>2. y - x = (y - x - 1) + 1 /\ y - x - 1 \in Nat
    OBVIOUS
  <2> QED
    BY <2>1, <2>2
<1> QED
  BY <1>1, <1>2

LEMMA DivMod ==
    ASSUME NEW n \in Nat \ {0}, NEW a \in Int
    PROVE  a \div n \in Int /\ a % n \in 0 .. n - 1 /\ a = n * (a \div n) + (a % n)
OBVIOUS

\* Quotient and remainder are unique.
LEMMA DivIs ==
    ASSUME NEW n \in Nat \ {0}, NEW q \in Int, NEW r \in 0 .. n - 1, NEW p \in Int, NEW s \in 0 .. n - 1,
           n * q + r = n * p + s
    PROVE  q = p /\ r = s
<1>1. n * q \in Int /\ n * p \in Int
  OBVIOUS
<1>2. ~(q < p)
  BY MulLess, <1>1
<1>3. ~(p < q)
  BY MulLess, <1>1
<1> QED
  BY <1>2, <1>3

\* What differs by a multiple has the same remainder, ...
LEMMA ModStep ==
    ASSUME NEW n \in Nat \ {0}, NEW c \in Int, NEW d \in Int, NEW k \in Int, d = n * k + c
    PROVE  d % n = c % n
<1>2. c \div n \in Int /\ c % n \in 0 .. n - 1 /\ c = n * (c \div n) + (c % n)
  BY DivMod
<1>3. d \div n \in Int /\ d % n \in 0 .. n - 1 /\ d = n * (d \div n) + (d % n)
  BY DivMod
<1>4. n * k + n * (c \div n) = n * (k + (c \div n)) /\ k + (c \div n) \in Int
  BY <1>2
<1>5. n * k \in Int /\ n * (c \div n) \in Int
  BY <1>2
<1> DEFINE q == k + (c \div n)
           p == d \div n
           r == c % n
           s == d % n
<1>6. n * q + r = n * p + s
  BY <1>2, <1>3, <1>4, <1>5
<1>7. q \in Int /\ p \in Int /\ r \in 0 .. n - 1 /\ s \in 0 .. n - 1
  BY <1>2, <1>3
<1> HIDE DEF q, p, r, s
<1>8. r = s
  BY <1>6, <1>7, DivIs
<1> QED
  BY <1>8 DEF r, s

LEMMA ModAdd ==
    ASSUME NEW n \in Nat \ {0}, NEW a \in Int, NEW b \in Int
    PROVE  ((a % n) + b) % n = (a + b) % n
<1>1. a \div n \in Int /\ a % n \in Int /\ a = n * (a \div n) + (a % n)
  BY DivMod
<1>2. (a % n) + b \in Int /\ a + b \in Int /\ a + b = n * (a \div n) + ((a % n) + b)
  BY <1>1
<1> QED
  BY <1>1, <1>2, ModStep

\* ... and what is less than n apart and has the same remainder is the same.
LEMMA ModNear ==
    ASSUME NEW n \in Nat \ {0}, NEW a \in Int, NEW b \in Int, a % n = b % n, a <= b, b < a + n
    PROVE  a = b
<1>1. a \div n \in Int /\ a = n * (a \div n) + (a % n)
  BY DivMod
<1>2. b \div n \in Int /\ b = n * (b \div n) + (b % n)
  BY DivMod
<1>3. n * (a \div n) \in Int /\ n * (b \div n) \in Int
  BY <1>1, <1>2
<1>4. ~(a \div n < b \div n) /\ ~(b \div n < a \div n)
  BY <1>1, <1>2, <1>3, MulLess
<1>5. a \div n = b \div n
  BY <1>1, <1>2, <1>4
<1> QED
  BY <1>1, <1>2, <1>5

-----------------------------------------------------------------------------
(* Rings and ticks.                                                        *)

Tick(i, s) == s \div Res(i)

\* A ring has between one and MaxCounts counters, which cover the whole period.
LEMMA Ring ==
    ASSUME NEW i \in DOMAIN Limits
    PROVE  /\ Res(i) \in Nat \ {0} /\ NCounts(i) \in Nat \ {0}
           /\ NCounts(i) <= MaxCounts /\ NCounts(i) < Wrap /\ Wrap \in Nat \ {0}
           /\ Limits[i].seconds \in Nat /\ Limits[i].seconds <= Res(i) * NCounts(i)
           /\ Limits[i].limit \in Nat \ {0}
<1> DEFINE S == Limits[i].seconds
           M == MaxCounts
           R == Res(i)
           n == NCounts(i)
<1>1. S \in Nat \ {0} /\ M \in Nat \ {0} /\ Limits[i].limit \in Nat \ {0} /\ Wrap \in Nat /\ M < Wrap
  BY RateAssumption
<1>2. R = (S + M - 1) \div M /\ n = (S + R - 1) \div R
  BY DEF Res, NCounts
<1> HIDE DEF S, M, R, n
<1>3. PICK r \in 0 .. M - 1 : R \in Int /\ S + M - 1 = M * R + r
  <2>1. S + M - 1 \in Int
    BY <1>1
  <2> QED
    BY <1>1, <1>2, <2>1, DivMod
<1>4. S <= M * R /\ M * R \in Int
  BY <1>1, <1>3
<1>5. R \in Nat \ {0}
  <2>1. M * 0 = 0
    BY <1>1
  <2>2. ~(R < 0) /\ R # 0
    BY <1>1, <1>3, <1>4, <2>1, MulLess
  <2> QED
    BY <2>2, <1>3
<1>6. PICK q \in 0 .. R - 1 : n \in Int /\ S + R - 1 = R * n + q
  <2>1. S + R - 1 \in Int
    BY <1>1, <1>5
  <2> QED
    BY <1>2, <1>5, <2>1, DivMod
<1>7. S <= R * n /\ R * n \in Int
  BY <1>1, <1>5, <1>6
<1>8. n \in Nat \ {0}
  <2>1. R * 0 = 0
    BY <1>5
  <2>2. ~(n < 0) /\ n # 0
    BY <1>1, <1>5, <1>6, <1>7, <2>1, MulLess
  <2> QED
    BY <2>2, <1>6
<1>9. ~(M < n)
  <2>1. R * M = M * R
    BY <1>1, <1>5
  <2> QED
    BY <2>1, <1>1, <1>4, <1>5, <1>6, <1>7, MulLess
<1> QED
  BY <1>1, <1>5, <1>7, <1>8, <1>9 DEF S, M, R, n

LEMMA TickIs ==
    ASSUME NEW i \in DOMAIN Limits, NEW s \in Nat
    PROVE  /\ Tick(i, s) \in Nat /\ Res(i) * Tick(i, s) \in Int
           /\ Res(i) * Tick(i, s) <= s /\ s < Res(i) * Tick(i, s) + Res(i)
<1> DEFINE R == Res(i)
           k == Tick(i, s)
<1>1. R \in Nat \ {0}
  BY Ring
<1>d. k = s \div R /\ s \in Int
  BY DEF Tick
<1> HIDE DEF R, k
<1>2. PICK r \in 0 .. R - 1 : k \in Int /\ s = R * k + r
  BY <1>1, <1>d, DivMod
<1>3. R * 0 = 0 /\ R * k \in Int
  BY <1>1, <1>2
<1>4. ~(k < 0)
  BY <1>1, <1>2, <1>3, MulLess
<1> QED
  BY <1>1, <1>2, <1>3, <1>4 DEF R, k

LEMMA TickMono ==
    ASSUME NEW i \in DOMAIN Limits, NEW a \in Nat, NEW b \in Nat, a <= b
    PROVE  Tick(i, a) <= Tick(i, b)
<1> DEFINE R == Res(i)
           k == Tick(i, a)
           m == Tick(i, b)
<1>1. R \in Nat \ {0} /\ k \in Nat /\ m \in Nat
  BY Ring, TickIs
<1>2. /\ R * k \in Int /\ R * k <= a
      /\ R * m \in Int /\ b < R * m + R
  BY TickIs
<1> HIDE DEF R, k, m
<1>3. ~(m < k)
  BY <1>1, <1>2, MulLess
<1>4. k <= m
  BY <1>1, <1>3
<1> QED
  BY <1>4 DEF k, m

\* Seconds within the configured period, less one tick, are in one window.
LEMMA InWindow ==
    ASSUME NEW i \in DOMAIN Limits, NEW s \in Nat, NEW a \in Nat, NEW b \in Nat,
           s <= a, b <= s + Limits[i].seconds - Res(i)
    PROVE  Tick(i, b) < Tick(i, a) + NCounts(i)
<1> DEFINE R == Res(i)
           n == NCounts(i)
           k == Tick(i, s)
           m == Tick(i, b)
<1>1. R \in Nat \ {0} /\ n \in Nat /\ Limits[i].seconds \in Nat /\ Limits[i].seconds <= R * n /\ R * n \in Int
  BY Ring
<1>2. k \in Nat /\ m \in Nat /\ R * k \in Int /\ R * m \in Int /\ R * m <= b /\ s < R * k + R
  BY TickIs
<1>3. k <= Tick(i, a) /\ Tick(i, a) \in Nat
  BY TickMono, TickIs
<1> HIDE DEF R, n, k, m
<1>4. R * (k + n) = R * k + R * n /\ k + n \in Int
  BY <1>1, <1>2
<1>5. R * m < R * (k + n)
  BY <1>1, <1>2, <1>4 DEF R
<1>6. ~(k + n < m) /\ k + n # m
  BY <1>1, <1>2, <1>4, <1>5, MulLess
<1>7. m < k + n
  BY <1>1, <1>2, <1>6
<1>8. m < Tick(i, a) + n
  BY <1>1, <1>2, <1>3, <1>7
<1> QED
  BY <1>8 DEF n, m

-----------------------------------------------------------------------------
(* What a ring counts.                                                     *)

\* What is zero outside of B adds up to no more than B.
LEMMA SumWithin ==
    ASSUME NEW A, IsFiniteSet(A), NEW B, IsFiniteSet(B), NEW f,
           \A x \in A \cup B : f[x] \in Nat, \A x \in A : f[x] # 0 => x \in B
    PROVE  Sum(f, A) <= Sum(f, B)
<1> DEFINE R == A \cap B
<1>1. IsFiniteSet(R) /\ IsFiniteSet(A \ R) /\ IsFiniteSet(B \ R)
  BY FS_Subset
<1>2. Sum(f, A) = Sum(f, R) + Sum(f, A \ R) /\ Sum(f, B) = Sum(f, R) + Sum(f, B \ R)
  BY SumParts
<1>3. Sum(f, R) \in Nat /\ Sum(f, B \ R) \in Nat
  BY <1>1, SumFacts
<1>4. Sum(f, A \ R) = 0
  BY <1>1, SumZero
<1> HIDE DEF R
<1> QED
  BY <1>2, <1>3, <1>4

LEMMA ModSmall ==
    ASSUME NEW n \in Nat \ {0}, NEW a \in 0 .. n - 1
    PROVE  a % n = a
<1>1. a \div n \in Int /\ a % n \in 0 .. n - 1 /\ a = n * (a \div n) + (a % n)
  BY DivMod
<1>2. n * 0 + a = a
  OBVIOUS
<1> DEFINE q == a \div n
           r == a % n
<1>3. n * 0 + a = n * q + r /\ q \in Int /\ r \in 0 .. n - 1
  BY <1>1, <1>2
<1> HIDE DEF q, r
<1>4. a = r
  BY <1>3, DivIs
<1> QED
  BY <1>4 DEF r

Ticks(i) == 0 .. NCounts(i) - 1

Entries(i) ==
    {e \in [last : 0 .. Wrap - 1, total : Nat, countpos : Ticks(i), counts : [Ticks(i) -> Nat]] :
        e.total = Sum(e.counts, Ticks(i)) /\ e.total <= Limits[i].limit}

\* The counter for second s in the ring of an entry that was turned to tick T.
Slot(i, e, T, s) == (e.countpos + (Tick(i, s) - T)) % NCounts(i)

InSlot(i, e, T, k) ==
    {s \in 0 .. MaxTime : /\ T < Tick(i, s) + NCounts(i) /\ Tick(i, s) <= T
                          /\ Slot(i, e, T, s) = k}

\* The ring of e, turned to tick T, counts at least what g says of the window, and
\* nothing happened after T.
Covers(i, e, g, T) ==
    /\ e.last = T % Wrap
    /\ \A s \in 0 .. MaxTime : g[s] # 0 => Tick(i, s) <= T
    /\ \A k \in Ticks(i) : Sum(g, InSlot(i, e, T, k)) <= e.counts[k]

Log == [0 .. MaxTime -> Nat]

LEMMA SecondsFinite ==
    /\ IsFiniteSet(0 .. MaxTime) /\ \A A : A \subseteq 0 .. MaxTime => IsFiniteSet(A)
    /\ \A i \in DOMAIN Limits : IsFiniteSet(Ticks(i)) /\ \A A : A \subseteq Ticks(i) => IsFiniteSet(A)
<1>1. IsFiniteSet(0 .. MaxTime) /\ \A i \in DOMAIN Limits : IsFiniteSet(Ticks(i))
  BY RateAssumption, Ring, FS_Interval DEF Ticks
<1> QED
  BY <1>1, FS_Subset

\* What a turn does, with the counters it drops.
Dropped(i, e, now) ==
    LET steps == (now - e.last) % Wrap
    IN {(e.countpos + k) % NCounts(i) : k \in 1 .. (IF steps < NCounts(i) THEN steps ELSE NCounts(i))}

\* c is e turned to now, field by field.
Turned(i, e, now, c) ==
    LET steps == (now - e.last) % Wrap
        D == Dropped(i, e, now)
    IN /\ steps \in 0 .. Wrap - 1 /\ D \subseteq Ticks(i)
       /\ c.last = now /\ c.total = e.total - Sum(e.counts, D)
       /\ c.countpos = (e.countpos + steps) % NCounts(i) /\ c.countpos \in Ticks(i)
       /\ c.counts = [k \in Ticks(i) |-> IF k \in D THEN 0 ELSE e.counts[k]]
       /\ c \in [last : {c.last}, total : {c.total}, countpos : {c.countpos}, counts : {c.counts}]

LEMMA TurnIs ==
    ASSUME NEW i \in DOMAIN Limits, NEW e \in Entries(i), NEW now \in 0 .. Wrap - 1
    PROVE  Turned(i, e, now, Turn(i, e, now))
<1> DEFINE steps == (now - e.last) % Wrap
<1>1. /\ e.last \in Int /\ e.countpos \in Int /\ DOMAIN e.counts = Ticks(i)
      /\ Wrap \in Nat \ {0} /\ NCounts(i) \in Nat \ {0}
  BY Ring DEF Entries, Ticks
<1>2. steps \in 0 .. Wrap - 1
  <2>1. now - e.last \in Int
    BY <1>1
  <2> QED
    BY <1>1, <2>1, DivMod
<1>3. \A k \in Int : (e.countpos + k) % NCounts(i) \in Ticks(i)
  <2> TAKE k \in Int
  <2>1. e.countpos + k \in Int
    BY <1>1
  <2> QED
    BY <1>1, <2>1, DivMod DEF Ticks
<1>4. Dropped(i, e, now) \subseteq Ticks(i)
  BY <1>3 DEF Dropped
<1>5. (e.countpos + steps) % NCounts(i) \in Ticks(i)
  BY <1>2, <1>3
<1> QED
  BY <1>1, <1>2, <1>4, <1>5 DEF Turn, Turned, Dropped

LEMMA TurnEntry ==
    ASSUME NEW i \in DOMAIN Limits, NEW e \in Entries(i), NEW now \in 0 .. Wrap - 1
    PROVE  Turn(i, e, now) \in Entries(i)
<1> DEFINE D == Dropped(i, e, now)
           S == Ticks(i)
<1>c. PICK c : c = Turn(i, e, now) /\ Turned(i, e, now, c)
  BY TurnIs
<1>1. D \subseteq S /\ c.counts = [k \in S |-> IF k \in D THEN 0 ELSE e.counts[k]]
  BY <1>c DEF Turned
<1>2. e.counts \in [S -> Nat] /\ e.total = Sum(e.counts, S) /\ e.total <= Limits[i].limit /\ e.total \in Nat
  BY DEF Entries
<1>f. IsFiniteSet(S) /\ IsFiniteSet(D) /\ IsFiniteSet(S \ D)
  BY <1>1, SecondsFinite, FS_Subset
<1>3. c.counts \in [S -> Nat]
  BY <1>1, <1>2
<1>4. c.last = now /\ c.total = e.total - Sum(e.counts, D) /\ c.countpos \in S
  BY <1>c DEF Turned
<1>r. c \in [last : {c.last}, total : {c.total}, countpos : {c.countpos}, counts : {c.counts}]
  BY <1>c DEF Turned
<1> HIDE DEF D, S
<1>5. Sum(c.counts, S) = Sum(c.counts, D) + Sum(c.counts, S \ D)
  BY <1>1, <1>3, <1>f, SumParts
<1>6. Sum(c.counts, D) = 0
  BY <1>1, <1>f, SumZero
<1>7. Sum(c.counts, S \ D) = Sum(e.counts, S \ D)
  BY <1>1, <1>2, <1>3, <1>f, SumSame
<1>8. Sum(e.counts, S) = Sum(e.counts, D) + Sum(e.counts, S \ D)
  BY <1>1, <1>2, <1>f, SumParts
<1>9. Sum(e.counts, D) \in Nat /\ Sum(e.counts, S \ D) \in Nat
  BY <1>1, <1>2, <1>f, SumFacts
<1>10. c.total = Sum(c.counts, S) /\ c.total \in Nat /\ c.total <= Limits[i].limit
  <2>1. Limits[i].limit \in Nat
    BY Ring
  <2> QED
    BY <2>1, <1>2, <1>4, <1>5, <1>6, <1>7, <1>8, <1>9
<1>11. c \in [last : 0 .. Wrap - 1, total : Nat, countpos : S, counts : [S -> Nat]]
  BY <1>r, <1>3, <1>4, <1>10
<1> QED
  BY <1>c, <1>10, <1>11 DEF Entries, S

\* The steps of a turn, as far as 16 bits tell.
LEMMA StepsAre ==
    ASSUME NEW T \in Nat, NEW T2 \in Nat, T <= T2
    PROVE  ((T2 % Wrap) - (T % Wrap)) % Wrap = (T2 - T) % Wrap
<1> DEFINE W == Wrap
           a == T2 % W
           b == T % W
           q == T \div W
<1>1. W \in Nat \ {0}
  BY RateAssumption
<1>2. q \in Int /\ a \in Int /\ b \in Int /\ T = W * q + b /\ W * q \in Int
  BY <1>1, DivMod
<1>3. (a + (-b)) % W = (T2 + (-b)) % W
  <2> DEFINE m == -b
  <2>1. m \in Int /\ T2 \in Int
    BY <1>2
  <2> HIDE DEF W, b, m
  <2>2. ((T2 % W) + m) % W = (T2 + m) % W
    BY <1>1, <2>1, ModAdd, Zenon
  <2> QED
    BY <2>2 DEF m
<1> HIDE DEF W, a, b, q
<1>4. T2 + (-b) = W * q + (T2 - T) /\ T2 + (-b) \in Int /\ T2 - T \in Int
  BY <1>2
<1>5. (T2 + (-b)) % W = (T2 - T) % W
  BY <1>1, <1>2, <1>4, ModStep
<1>6. a + (-b) = a - b
  BY <1>2
<1>7. (a - b) % W = (T2 - T) % W
  BY <1>3, <1>5, <1>6
<1> QED
  BY <1>7 DEF W, a, b

LEMMA TurnCovers ==
    ASSUME NEW i \in DOMAIN Limits, NEW e \in Entries(i), NEW g \in Log,
           NEW T \in Nat, NEW T2 \in Nat, T <= T2, Covers(i, e, g, T)
    PROVE  Covers(i, Turn(i, e, T2 % Wrap), g, T2)
<1> DEFINE n == NCounts(i)
           now == T2 % Wrap
           steps == (now - e.last) % Wrap
           p == e.countpos
           D == Dropped(i, e, now)
<1>n. n \in Nat \ {0} /\ n < Wrap /\ Wrap \in Nat \ {0}
  BY Ring
<1>w. now \in 0 .. Wrap - 1
  BY <1>n, DivMod
<1>c. PICK c : c = Turn(i, e, now) /\ Turned(i, e, now, c)
  BY <1>w, TurnIs
<1>1. /\ D \subseteq Ticks(i) /\ c.last = now /\ c.countpos = (p + steps) % n
      /\ \A k \in Ticks(i) : c.counts[k] = IF k \in D THEN 0 ELSE e.counts[k]
      /\ \A k \in Ticks(i) : e.counts[k] \in Nat
      /\ p \in Int /\ steps \in 0 .. Wrap - 1
  <2>1. e.counts \in [Ticks(i) -> Nat] /\ p \in Ticks(i)
    BY DEF Entries
  <2>2. p \in Int
    BY <2>1, <1>n DEF Ticks
  <2> QED
    BY <1>c, <2>1, <2>2 DEF Turned
<1>2. steps = (T2 - T) % Wrap
  BY StepsAre DEF Covers
<1>d. D = {(p + k) % n : k \in 1 .. (IF steps < n THEN steps ELSE n)}
  BY DEF Dropped
<1>3. \A s \in 0 .. MaxTime : /\ Tick(i, s) \in Nat /\ g[s] \in Nat
                              /\ g[s] # 0 => Tick(i, s) <= T
  <2> TAKE s \in 0 .. MaxTime
  <2>1. s \in Nat
    BY RateAssumption
  <2>2. Tick(i, s) \in Nat
    BY <2>1, TickIs
  <2>3. g[s] \in Nat
    BY DEF Log
  <2>4. g[s] # 0 => Tick(i, s) <= T
    BY DEF Covers
  <2> QED
    BY <2>2, <2>3, <2>4
<1> HIDE DEF n, now, steps, p, D
<1>4. ASSUME NEW k \in Ticks(i)
      PROVE  Sum(g, InSlot(i, c, T2, k)) <= c.counts[k]
  <2> DEFINE A == InSlot(i, c, T2, k)
             B == InSlot(i, e, T, k)
  <2>1. A \subseteq 0 .. MaxTime /\ B \subseteq 0 .. MaxTime /\ IsFiniteSet(A) /\ IsFiniteSet(B)
    <3>1. A \subseteq 0 .. MaxTime /\ B \subseteq 0 .. MaxTime
      BY DEF InSlot
    <3> HIDE DEF A, B
    <3> QED
      BY <3>1, SecondsFinite
  <2>2. \A s \in A : T2 < Tick(i, s) + n /\ (c.countpos + (Tick(i, s) - T2)) % n = k
    BY DEF InSlot, Slot, n
  <2>3. \A s \in 0 .. MaxTime : T < Tick(i, s) + n /\ Tick(i, s) <= T /\ (p + (Tick(i, s) - T)) % n = k
                                  => s \in B
    BY DEF InSlot, Slot, n, p
  <2> HIDE DEF A, B
  <2>4. CASE \A s \in A : g[s] = 0
    <3>1. Sum(g, A) = 0
      BY <2>1, <2>4, SumZero
    <3>2. c.counts[k] \in Nat
      BY <1>1
    <3> QED
      BY <3>1, <3>2 DEF A
  <2>5. ASSUME NEW s \in A, g[s] # 0
        PROVE  steps = T2 - T /\ s \in B /\ k \notin D
    <3> DEFINE u == Tick(i, s)
    <3>1. u \in Nat /\ u <= T /\ T2 < u + n /\ (c.countpos + (u - T2)) % n = k
      BY <2>1, <2>2, <2>5, <1>3
    <3> HIDE DEF u
    <3>2. steps = T2 - T
      <4>1. T2 - T \in 0 .. Wrap - 1
        BY <3>1, <1>n
      <4> QED
        BY <4>1, <1>2, <1>n, ModSmall
    <3>3. k = (p + (u - T)) % n
      <4> DEFINE x == p + steps
                 y == u - T2
      <4>1. x \in Int /\ y \in Int /\ x + y = p + (u - T)
        BY <1>1, <3>1, <3>2
      <4> HIDE DEF x, y
      <4>2. ((x % n) + y) % n = (x + y) % n
        BY <4>1, <1>n, ModAdd
      <4>3. c.countpos = x % n
        BY <1>1 DEF x
      <4> QED
        BY <3>1, <4>1, <4>2, <4>3 DEF y
    <3>4. s \in B
      <4>1. T < u + n
        BY <3>1, <1>n
      <4>2. s \in 0 .. MaxTime
        BY <2>1, <2>5
      <4> QED
        BY <2>3, <3>1, <3>3, <4>1, <4>2 DEF u
    <3>5. ASSUME k \in D PROVE FALSE
      <4>1. PICK j \in 1 .. (IF steps < n THEN steps ELSE n) : k = (p + j) % n
        BY <3>5, <1>d
      <4> DEFINE x == p + (u - T)
                 y == p + j
      <4>2. x \in Int /\ y \in Int /\ x <= y /\ x # y /\ y < x + n
        BY <4>1, <1>1, <1>n, <3>1, <3>2
      <4>3. x % n = y % n
        BY <4>1, <3>3
      <4> HIDE DEF x, y
      <4> QED
        BY <4>2, <4>3, <1>n, ModNear
    <3> QED
      BY <3>2, <3>4, <3>5
  <2>6. CASE \E s \in A : g[s] # 0
    <3>1. k \notin D /\ \A s \in A : g[s] # 0 => s \in B
      BY <2>5, <2>6
    <3>2. \A s \in A \cup B : g[s] \in Nat
      BY <2>1, <1>3
    <3>3. Sum(g, A) <= Sum(g, B)
      BY <2>1, <3>1, <3>2, SumWithin
    <3>4. Sum(g, B) <= e.counts[k] /\ c.counts[k] = e.counts[k]
      BY <3>1, <1>1 DEF Covers, B
    <3>5. Sum(g, A) \in Nat /\ Sum(g, B) \in Nat /\ e.counts[k] \in Nat
      BY <2>1, <3>2, <1>1, SumFacts
    <3> QED
      BY <3>3, <3>4, <3>5 DEF A
  <2> QED
    BY <2>4, <2>6
<1>5. \A s \in 0 .. MaxTime : g[s] # 0 => Tick(i, s) <= T2
  BY <1>3
<1> QED
  BY <1>1, <1>4, <1>5, <1>c DEF Covers, now

LEMMA NewCovers ==
    ASSUME NEW i \in DOMAIN Limits, NEW g \in Log, NEW T \in Nat,
           \A s \in 0 .. MaxTime : g[s] # 0 => Tick(i, s) + NCounts(i) <= T
    PROVE  NewEntry(i, T % Wrap) \in Entries(i) /\ Covers(i, NewEntry(i, T % Wrap), g, T)
<1> DEFINE e == NewEntry(i, T % Wrap)
<1>1. NCounts(i) \in Nat \ {0} /\ Wrap \in Nat \ {0} /\ Limits[i].limit \in Nat
  BY Ring
<1>2. T % Wrap \in 0 .. Wrap - 1
  BY <1>1, DivMod
<1>3. /\ e.counts = [k \in Ticks(i) |-> 0] /\ e.last = T % Wrap /\ e.total = 0 /\ e.countpos = 0
      /\ e = [last |-> T % Wrap, total |-> 0, countpos |-> 0, counts |-> [k \in Ticks(i) |-> 0]]
  BY DEF NewEntry, Ticks
<1>4. Sum([k \in Ticks(i) |-> 0], Ticks(i)) = 0
  BY SecondsFinite, SumZero
<1>5. e \in Entries(i)
  <2>1. e \in [last : 0 .. Wrap - 1, total : Nat, countpos : Ticks(i), counts : [Ticks(i) -> Nat]]
    BY <1>1, <1>2, <1>3 DEF Ticks
  <2> QED
    BY <2>1, <1>1, <1>3, <1>4 DEF Entries
<1>6. ASSUME NEW s \in 0 .. MaxTime PROVE Tick(i, s) \in Nat /\ g[s] \in Nat
  <2>1. s \in Nat
    BY RateAssumption
  <2> QED
    BY <2>1, TickIs DEF Log
<1>7. ASSUME NEW k \in Ticks(i) PROVE Sum(g, InSlot(i, e, T, k)) <= e.counts[k]
  <2> DEFINE A == InSlot(i, e, T, k)
  <2>1. A \subseteq 0 .. MaxTime /\ \A s \in A : T < Tick(i, s) + NCounts(i)
    BY DEF InSlot
  <2>2. \A s \in A : g[s] = 0
    BY <2>1, <1>1, <1>6
  <2> HIDE DEF A
  <2>3. Sum(g, A) = 0
    BY <2>1, <2>2, SecondsFinite, SumZero
  <2> QED
    BY <2>3, <1>3 DEF A
<1>8. \A s \in 0 .. MaxTime : g[s] # 0 => Tick(i, s) <= T
  BY <1>1, <1>6
<1> HIDE DEF e
<1> QED
  BY <1>3, <1>5, <1>7, <1>8 DEF Covers, e

LEMMA SumOneMore ==
    ASSUME NEW S, IsFiniteSet(S), NEW f, NEW h, NEW x, \A y \in S : f[y] \in Nat,
           \A y \in S : h[y] = IF y = x THEN f[y] + 1 ELSE f[y]
    PROVE  Sum(h, S) = IF x \in S THEN Sum(f, S) + 1 ELSE Sum(f, S)
<1>1. CASE x \in S
  <2> DEFINE R == S \ {x}
  <2>1. IsFiniteSet(R) /\ \A y \in R : f[y] \in Nat /\ f[y] = h[y]
    BY FS_Subset
  <2>2. \A y \in S : h[y] \in Nat
    OBVIOUS
  <2>3. Sum(h, S) = h[x] + Sum(h, R) /\ Sum(f, S) = f[x] + Sum(f, R)
    BY <1>1, <2>2, SumFacts
  <2> HIDE DEF R
  <2>4. Sum(f, R) = Sum(h, R) /\ Sum(f, R) \in Nat
    BY <2>1, SumSame, SumFacts
  <2> QED
    BY <1>1, <2>3, <2>4
<1>2. CASE x \notin S
  <2>1. \A y \in S : f[y] \in Nat /\ f[y] = h[y]
    BY <1>2
  <2> QED
    BY <1>2, <2>1, SumSame
<1> QED
  BY <1>1, <1>2

\* What a ring covers of the window is no more than its total.
LEMMA CoversTotal ==
    ASSUME NEW i \in DOMAIN Limits, NEW e \in Entries(i), NEW g \in Log, NEW T \in Nat,
           Covers(i, e, g, T), NEW A \in SUBSET (0 .. MaxTime),
           \A s \in A : T < Tick(i, s) + NCounts(i)
    PROVE  Sum(g, A) <= e.total
<1> DEFINE n == NCounts(i)
           Part(m) == {s \in A : Tick(i, s) <= T /\ Slot(i, e, T, s) < m}
           Bad == {m \in Nat : m <= n /\ ~(Sum(g, Part(m)) <= Sum(e.counts, 0 .. m - 1))}
<1>n. n \in Nat \ {0} /\ Ticks(i) = 0 .. n - 1
  BY Ring DEF Ticks
<1>c. e.counts \in [Ticks(i) -> Nat] /\ e.total = Sum(e.counts, Ticks(i)) /\ e.countpos \in Int
  BY <1>n DEF Entries
<1>g. \A s \in 0 .. MaxTime : g[s] \in Nat
  BY DEF Log
<1>s. \A s \in A : Tick(i, s) \in Nat /\ Slot(i, e, T, s) \in Ticks(i)
  <2> TAKE s \in A
  <2>1. s \in Nat
    BY RateAssumption
  <2>2. Tick(i, s) \in Nat
    BY <2>1, TickIs
  <2>3. e.countpos + (Tick(i, s) - T) \in Int
    BY <2>2, <1>c
  <2> QED
    BY <2>2, <2>3, <1>n, DivMod DEF Slot
<1>p. ASSUME NEW m \in Nat
      PROVE  Part(m) \subseteq A /\ IsFiniteSet(Part(m)) /\ \A s \in Part(m) : g[s] \in Nat
  <2>1. Part(m) \subseteq A /\ Part(m) \subseteq 0 .. MaxTime
    OBVIOUS
  <2> HIDE DEF Part
  <2> QED
    BY <2>1, <1>g, SecondsFinite
<1>1. Bad = {}
  <2> SUFFICES ASSUME Bad # {} PROVE FALSE
    OBVIOUS
  <2>1. PICK m \in Bad : \A k \in Bad : m <= k
    BY NatMin
  <2>2. m # 0
    <3> SUFFICES ASSUME m = 0 PROVE FALSE
      OBVIOUS
    <3>1. Part(0) = {}
      <4>1. \A s \in A : ~(Slot(i, e, T, s) < 0)
        BY <1>s, <1>n
      <4> QED
        BY <4>1
    <3>2. 0 .. 0 - 1 = {}
      OBVIOUS
    <3>3. Sum(g, {}) = 0 /\ Sum(e.counts, {}) = 0
      BY FS_EmptySet, SumFacts
    <3>4. ~(Sum(g, Part(0)) <= Sum(e.counts, 0 .. 0 - 1))
      BY <2>1
    <3>5. ~(Sum(g, {}) <= Sum(e.counts, {}))
      BY <3>1, <3>2, <3>4
    <3> QED
      BY <3>3, <3>5
  <2> DEFINE k == m - 1
             P == Part(m)
             R == Part(k)
             I == InSlot(i, e, T, k)
  <2>3. k \in Nat /\ k \in Ticks(i) /\ m = k + 1 /\ k <= n
    BY <2>1, <2>2, <1>n
  <2>4. R \subseteq P /\ \A s \in P \ R : s \in I
    <3>1. \A s \in P : Slot(i, e, T, s) \in Int
      BY <1>s, <1>n
    <3>2. R \subseteq P
      <4>1. \A s \in A : Slot(i, e, T, s) \in Int /\ (Slot(i, e, T, s) < k => Slot(i, e, T, s) < m)
        BY <1>s, <1>n, <2>3
      <4> QED
        BY <4>1
    <3>3. \A s \in P \ R : Slot(i, e, T, s) = k
      BY <2>3, <3>1
    <3> QED
      BY <3>2, <3>3 DEF InSlot
  <2>5. IsFiniteSet(P) /\ (\A s \in P : g[s] \in Nat) /\ IsFiniteSet(P \ R) /\ IsFiniteSet(I)
        /\ \A s \in I : g[s] \in Nat
    <3>1. IsFiniteSet(P) /\ \A s \in P : g[s] \in Nat
      BY <1>p, <2>1
    <3>2. I \subseteq 0 .. MaxTime
      BY DEF InSlot
    <3> HIDE DEF P, R, I
    <3> QED
      BY <3>1, <3>2, <1>g, SecondsFinite, FS_Subset
  <2>6. Sum(g, R) <= Sum(e.counts, 0 .. k - 1)
    BY <2>1, <2>3
  <2>7. ~(Sum(g, P) <= Sum(e.counts, 0 .. k))
    BY <2>1, <2>3
  <2>8. Sum(g, I) <= e.counts[k]
    BY <2>3 DEF Covers
  <2>r. IsFiniteSet(R) /\ \A s \in R : g[s] \in Nat
    BY <2>3, <1>p
  <2> HIDE DEF P, R, I, k, Bad, Part
  <2>9. Sum(g, P) = Sum(g, R) + Sum(g, P \ R)
    BY <2>4, <2>5, SumParts
  <2>10. Sum(g, P \ R) <= Sum(g, I)
    BY <2>4, <2>5, SumWithin
  <2>11. Sum(e.counts, 0 .. k) = e.counts[k] + Sum(e.counts, 0 .. k - 1) /\ Sum(e.counts, 0 .. k - 1) \in Nat
    <3>1. 0 .. k \subseteq Ticks(i) /\ 0 .. k - 1 \subseteq Ticks(i) /\ k \in 0 .. k /\ (0 .. k) \ {k} = 0 .. k - 1
      BY <2>3, <1>n
    <3>2. IsFiniteSet(0 .. k) /\ IsFiniteSet(0 .. k - 1)
      BY <3>1, SecondsFinite
    <3>3. \A j \in 0 .. k : e.counts[j] \in Nat
      BY <3>1, <1>c
    <3>4. \A j \in 0 .. k - 1 : e.counts[j] \in Nat
      BY <3>1, <1>c
    <3> DEFINE U == 0 .. k
               V == 0 .. k - 1
    <3>5. IsFiniteSet(U) /\ IsFiniteSet(V) /\ k \in U /\ U \ {k} = V
      BY <3>1, <3>2
    <3> HIDE DEF U, V
    <3>6. Sum(e.counts, U) = e.counts[k] + Sum(e.counts, U \ {k})
      BY <3>3, <3>5, SumFacts DEF U
    <3>7. Sum(e.counts, V) \in Nat
      BY <3>4, <3>5, SumFacts DEF V
    <3> QED
      BY <3>5, <3>6, <3>7 DEF U, V
  <2>12. /\ Sum(g, R) \in Nat /\ Sum(g, P \ R) \in Nat /\ Sum(g, I) \in Nat /\ e.counts[k] \in Nat
    BY <2>3, <2>5, <2>r, <1>c, SumFacts
  <2> QED
    BY <2>6, <2>7, <2>8, <2>9, <2>10, <2>11, <2>12
<1>2. Sum(g, Part(n)) <= e.total
  <2>1. n \in Nat /\ n <= n /\ n \notin Bad
    BY <1>1, <1>n
  <2>2. Sum(g, Part(n)) <= Sum(e.counts, 0 .. n - 1)
    BY <2>1
  <2> QED
    BY <2>2, <1>n, <1>c
<1>3. Sum(g, A) <= Sum(g, Part(n))
  <2> DEFINE Q == Part(n)
  <2>1. IsFiniteSet(A) /\ IsFiniteSet(Q) /\ \A s \in A \cup Q : g[s] \in Nat
    BY <1>n, <1>p, <1>g, SecondsFinite
  <2>2. \A s \in A : g[s] # 0 => s \in Q
    <3> TAKE s \in A
    <3> HAVE g[s] # 0
    <3>1. Tick(i, s) <= T
      BY DEF Covers
    <3>2. Slot(i, e, T, s) < n
      BY <1>s, <1>n
    <3> QED
      BY <3>1, <3>2
  <2> HIDE DEF Q
  <2>3. Sum(g, A) <= Sum(g, Q)
    BY <2>1, <2>2, SumWithin
  <2> QED
    BY <2>3 DEF Q
<1>4. Sum(g, A) \in Nat /\ Sum(g, Part(n)) \in Nat /\ e.total \in Nat
  <2>1. IsFiniteSet(A) /\ \A s \in A : g[s] \in Nat
    BY <1>g, SecondsFinite
  <2>2. IsFiniteSet(Part(n)) /\ \A s \in Part(n) : g[s] \in Nat
    BY <1>n, <1>p
  <2> HIDE DEF Part
  <2>3. Sum(g, A) \in Nat /\ Sum(g, Part(n)) \in Nat
    BY <2>1, <2>2, SumFacts
  <2> QED
    BY <2>3 DEF Entries
<1> HIDE DEF Part
<1> QED
  BY <1>2, <1>3, <1>4

\* A check that is counted, and maybe granted.
LEMMA CountCovers ==
    ASSUME NEW i \in DOMAIN Limits, NEW c \in Entries(i), NEW g \in Log, NEW T \in Nat,
           Covers(i, c, g, T), HasRoom(i, c), NEW sec \in 0 .. MaxTime, Tick(i, sec) = T,
           NEW h \in Log, \A s \in 0 .. MaxTime : h[s] \in {g[s], IF s = sec THEN g[s] + 1 ELSE g[s]}
    PROVE  Count(c) \in Entries(i) /\ Covers(i, Count(c), h, T)
<1> DEFINE p == c.countpos
           S == Ticks(i)
           d == Count(c)
<1>n. NCounts(i) \in Nat \ {0} /\ S = 0 .. NCounts(i) - 1
  BY Ring DEF Ticks
<1>1. /\ c.counts \in [S -> Nat] /\ p \in S /\ c.total \in Nat /\ c.total = Sum(c.counts, S)
      /\ c \in [last : 0 .. Wrap - 1, total : Nat, countpos : S, counts : [S -> Nat]]
  BY DEF Entries
<1>2. /\ d \in [last : 0 .. Wrap - 1, total : Nat, countpos : S, counts : [S -> Nat]]
      /\ d.last = c.last /\ d.total = c.total + 1 /\ d.countpos = p
      /\ \A k \in S : d.counts[k] = IF k = p THEN c.counts[k] + 1 ELSE c.counts[k]
  <2> DEFINE q == [c.counts EXCEPT ![p] = @ + 1]
  <2>1. q \in [S -> Nat] /\ \A k \in S : q[k] = IF k = p THEN c.counts[k] + 1 ELSE c.counts[k]
    BY <1>1
  <2>2. d = [[c EXCEPT !.total = @ + 1] EXCEPT !.counts = q]
    BY <1>1 DEF Count
  <2> HIDE DEF q, d, p, S
  <2>3. c.total + 1 \in Nat
    BY <1>1
  <2>4. d \in [last : 0 .. Wrap - 1, total : Nat, countpos : S, counts : [S -> Nat]]
    BY <1>1, <2>1, <2>2, <2>3
  <2>5. d.last = c.last /\ d.total = c.total + 1 /\ d.countpos = c.countpos /\ d.counts = q
    BY <1>1, <2>2
  <2> QED
    BY <2>1, <2>4, <2>5 DEF p
<1>f. IsFiniteSet(S)
  BY SecondsFinite
<1>3. d \in Entries(i)
  <2>1. Sum(d.counts, S) = Sum(c.counts, S) + 1
    <3> DEFINE dc == d.counts
               cc == c.counts
    <3>1. \A k \in S : cc[k] \in Nat /\ dc[k] = IF k = p THEN cc[k] + 1 ELSE cc[k]
      BY <1>1, <1>2
    <3> HIDE DEF dc, cc, S
    <3>2. Sum(dc, S) = Sum(cc, S) + 1
      BY <3>1, <1>1, <1>f, SumOneMore
    <3> QED
      BY <3>2 DEF dc, cc
  <2>2. c.total < Limits[i].limit /\ Limits[i].limit \in Nat
    BY Ring DEF HasRoom
  <2> HIDE DEF d
  <2> QED
    BY <2>1, <2>2, <1>1, <1>2 DEF Entries
<1>4. ASSUME NEW k \in S PROVE Sum(h, InSlot(i, d, T, k)) <= d.counts[k]
  <2> DEFINE B == InSlot(i, c, T, k)
  <2>1. InSlot(i, d, T, k) = B
    BY <1>2 DEF InSlot, Slot
  <2>2. Sum(g, B) <= c.counts[k] /\ c.counts[k] \in Nat
    BY <1>1 DEF Covers
  <2>3. sec \in B => k = p
    <3>1. Slot(i, c, T, sec) = p
      <4>1. p + (T - T) = p /\ p \in 0 .. NCounts(i) - 1
        BY <1>1, <1>n
      <4> QED
        BY <4>1, <1>n, ModSmall DEF Slot
    <3> QED
      BY <3>1 DEF InSlot
  <2>4. B \subseteq 0 .. MaxTime /\ IsFiniteSet(B)
    <3>1. B \subseteq 0 .. MaxTime
      BY DEF InSlot
    <3> QED
      BY <3>1, SecondsFinite
  <2>5. \A s \in B : g[s] \in Nat /\ h[s] \in Nat
    BY <2>4 DEF Log
  <2> HIDE DEF B, d, S, p
  <2>6. CASE \A s \in B : h[s] = g[s]
    <3>1. Sum(h, B) = Sum(g, B) /\ Sum(g, B) \in Nat
      BY <2>4, <2>5, <2>6, SumSame, SumFacts
    <3>2. d.counts[k] >= c.counts[k] /\ d.counts[k] \in Nat
      BY <2>2, <1>2, <1>4
    <3> QED
      BY <3>1, <3>2, <2>1, <2>2
  <2>7. CASE ~\A s \in B : h[s] = g[s]
    <3>1. sec \in B /\ \A s \in B : h[s] = IF s = sec THEN g[s] + 1 ELSE g[s]
      BY <2>4, <2>7
    <3>2. Sum(h, B) = Sum(g, B) + 1 /\ Sum(g, B) \in Nat
      <4>1. IsFiniteSet(B) /\ \A s \in B : g[s] \in Nat
        BY <2>4, <2>5
      <4>2. \A s \in B : h[s] = IF s = sec THEN g[s] + 1 ELSE g[s]
        BY <3>1
      <4>3. Sum(h, B) = IF sec \in B THEN Sum(g, B) + 1 ELSE Sum(g, B)
        BY <4>1, <4>2, SumOneMore, Zenon
      <4> QED
        BY <3>1, <4>1, <4>3, SumFacts
    <3>3. d.counts[k] = c.counts[k] + 1
      BY <3>1, <2>3, <1>2, <1>4
    <3> QED
      BY <3>2, <3>3, <2>1, <2>2
  <2> QED
    BY <2>6, <2>7
<1>5. \A s \in 0 .. MaxTime : h[s] # 0 => Tick(i, s) <= T
  <2> TAKE s \in 0 .. MaxTime
  <2>1. CASE s = sec
    BY <2>1
  <2>2. CASE s # sec
    BY <2>2 DEF Covers
  <2> QED
    BY <2>1, <2>2
<1> HIDE DEF d
<1> QED
  BY <1>2, <1>3, <1>4, <1>5 DEF Covers, d


-----------------------------------------------------------------------------
(* What one check does to the entry of an id.                              *)

\* What is known of an id without an entry: nothing was granted to it within the
\* window that ends at tick T.
Idle(i, g, T) == \A s \in 0 .. MaxTime : g[s] # 0 => Tick(i, s) + NCounts(i) <= T

\* An entry of limit i stands for what g says was granted until tick T: it was
\* turned to some tick up to T, and it covers g from there.
Known(i, e, g, T) ==
    IF e = NoEntry THEN Idle(i, g, T)
    ELSE e \in Entries(i) /\ \E U \in Nat : U <= T /\ Covers(i, e, g, U)

Turning(i, e, now) == Turn(i, IF e = NoEntry THEN NewEntry(i, now) ELSE e, now)

LEMMA EntryIsOne ==
    ASSUME NEW i \in DOMAIN Limits
    PROVE  NoEntry \notin Entries(i)
<1>1. \A e \in Entries(i) : e.total \in Nat
  BY DEF Entries
<1>2. NoEntry.total = -1
  BY DEF NoEntry
<1> QED
  BY <1>1, <1>2

\* The entry that checkLimit() looks up or makes, turned to the tick of the call.
LEMMA TurningCovers ==
    ASSUME NEW i \in DOMAIN Limits, NEW e, NEW g \in Log, NEW T1 \in Nat, NEW T2 \in Nat,
           T1 <= T2, Known(i, e, g, T1)
    PROVE  Turning(i, e, T2 % Wrap) \in Entries(i) /\ Covers(i, Turning(i, e, T2 % Wrap), g, T2)
<1>n. NCounts(i) \in Nat /\ Wrap \in Nat \ {0}
  BY Ring
<1>w. T2 % Wrap \in 0 .. Wrap - 1
  BY <1>n, DivMod
<1>1. CASE e = NoEntry
  <2>1. \A s \in 0 .. MaxTime : g[s] # 0 => Tick(i, s) + NCounts(i) <= T2
    <3> SUFFICES ASSUME NEW s \in 0 .. MaxTime, g[s] # 0 PROVE Tick(i, s) + NCounts(i) <= T2
      OBVIOUS
    <3>1. Tick(i, s) + NCounts(i) <= T1
      BY <1>1 DEF Known, Idle
    <3>2. s \in Nat
      BY RateAssumption
    <3>3. Tick(i, s) \in Nat
      BY <3>2, TickIs
    <3> QED
      BY <3>1, <3>3, <1>n
  <2> DEFINE f == NewEntry(i, T2 % Wrap)
  <2>2. f \in Entries(i) /\ Covers(i, f, g, T2)
    BY <2>1, NewCovers
  <2>3. Turning(i, e, T2 % Wrap) = Turn(i, f, T2 % Wrap)
    BY <1>1 DEF Turning
  <2> HIDE DEF f
  <2>4. T2 <= T2
    OBVIOUS
  <2> QED
    BY <2>2, <2>3, <2>4, <1>w, TurnEntry, TurnCovers
<1>2. CASE e # NoEntry
  <2>1. e \in Entries(i)
    BY <1>2 DEF Known
  <2>2. PICK U \in Nat : U <= T1 /\ Covers(i, e, g, U)
    BY <1>2 DEF Known
  <2>3. Turning(i, e, T2 % Wrap) = Turn(i, e, T2 % Wrap)
    BY <1>2 DEF Turning
  <2>4. U <= T2
    BY <2>2
  <2> QED
    BY <2>1, <2>2, <2>3, <2>4, <1>w, TurnEntry, TurnCovers
<1> QED
  BY <1>1, <1>2

\* An entry that expired() says is old enough can go: the int subtraction of the
\* uint16_t ticks never calls an entry too old that is not.
LEMMA ExpiredIsIdle ==
    ASSUME NEW i \in DOMAIN Limits, NEW e, NEW g \in Log, NEW T1 \in Nat, NEW T2 \in Nat,
           T1 <= T2, Known(i, e, g, T1), Expired(i, e, T2 % Wrap)
    PROVE  Idle(i, g, T2)
<1> DEFINE n == NCounts(i)
           now == T2 % Wrap
<1>n. n \in Nat \ {0} /\ Wrap \in Nat \ {0}
  BY Ring
<1>1. e \in Entries(i) /\ e # NoEntry /\ now - e.last >= n
  BY DEF Expired, Known
<1>2. PICK U \in Nat : U <= T1 /\ Covers(i, e, g, U)
  BY <1>1 DEF Known
<1>3. e.last = U % Wrap /\ e.last \in 0 .. Wrap - 1 /\ now \in 0 .. Wrap - 1 /\ U <= T2
  <2>1. now \in 0 .. Wrap - 1
    BY <1>n, DivMod
  <2>2. e.last = U % Wrap
    BY <1>2 DEF Covers
  <2>3. e.last \in 0 .. Wrap - 1
    BY <1>1 DEF Entries
  <2>4. U <= T2
    BY <1>2
  <2> QED
    BY <2>1, <2>2, <2>3, <2>4
<1>4. (now - e.last) % Wrap = (T2 - U) % Wrap
  BY <1>2, <1>3, StepsAre
<1>5. now - e.last \in 0 .. Wrap - 1
  BY <1>1, <1>3, <1>n
<1>6. (now - e.last) % Wrap = now - e.last
  <2> DEFINE a == now - e.last
  <2>1. a \in 0 .. Wrap - 1
    BY <1>5
  <2> HIDE DEF a
  <2>2. a % Wrap = a
    BY <2>1, <1>n, ModSmall
  <2> QED
    BY <2>2 DEF a
<1>7. (T2 - U) % Wrap <= T2 - U
  <2> DEFINE a == T2 - U
             q == a \div Wrap
             r == a % Wrap
  <2>1. a \in Nat
    BY <1>3
  <2>2. q \in Int /\ r \in 0 .. Wrap - 1 /\ a = Wrap * q + r
    BY <2>1, <1>n, DivMod
  <2> HIDE DEF a, q, r
  <2>3. Wrap * 0 = 0 /\ Wrap * q \in Int
    BY <1>n, <2>2
  <2>4. ~(q < 0)
    <3> SUFFICES ASSUME q < 0 PROVE FALSE
      OBVIOUS
    <3>1. Wrap * q + Wrap <= Wrap * 0
      BY <1>n, <2>2, MulLess
    <3> QED
      BY <3>1, <1>n, <2>1, <2>2, <2>3
  <2>5. CASE q = 0
    BY <2>5, <2>1, <2>2, <2>3 DEF a, r
  <2>6. CASE q # 0
    <3>1. Wrap * 0 + Wrap <= Wrap * q
      BY <1>n, <2>2, <2>4, <2>6, MulLess
    <3>2. r <= a
      BY <3>1, <1>n, <2>1, <2>2, <2>3
    <3> QED
      BY <3>2 DEF a, r
  <2> QED
    BY <2>5, <2>6
<1>8. n <= T2 - U
  <2> DEFINE a == now - e.last
  <2>1. a \in Int /\ a >= n /\ a = (T2 - U) % Wrap
    BY <1>1, <1>4, <1>5, <1>6
  <2> HIDE DEF a, now
  <2> QED
    BY <2>1, <1>7, <1>n
<1> SUFFICES ASSUME NEW s \in 0 .. MaxTime, g[s] # 0 PROVE Tick(i, s) + n <= T2
  BY DEF Idle
<1>9. s \in Nat
  BY RateAssumption
<1>10. Tick(i, s) \in Nat /\ Tick(i, s) <= U
  BY <1>2, <1>9, TickIs DEF Covers
<1> QED
  BY <1>8, <1>10, <1>n, <1>3

\* After the check the id has an entry that covers what was granted to it, the
\* present check included: it counts whether or not the other limits let it pass.
LEMMA CheckedIsKnown ==
    ASSUME NEW i \in DOMAIN Limits, NEW e, NEW g \in Log, NEW h \in Log, NEW T1 \in Nat,
           NEW sec \in 0 .. MaxTime, T1 <= Tick(i, sec), Known(i, e, g, T1),
           NEW cur, cur = Turning(i, e, Tick(i, sec) % Wrap),
           \A s \in 0 .. MaxTime : h[s] \in {g[s], IF s = sec THEN g[s] + 1 ELSE g[s]},
           HasRoom(i, cur) \/ h = g,
           NEW f, f = IF HasRoom(i, cur) THEN Count(cur) ELSE cur
    PROVE  Known(i, f, h, Tick(i, sec))
<1> DEFINE T == Tick(i, sec)
<1>1. T \in Nat /\ T <= T
  <2>1. sec \in Nat
    BY RateAssumption
  <2> QED
    BY <2>1, TickIs
<1>2. cur \in Entries(i) /\ Covers(i, cur, g, T)
  BY <1>1, TurningCovers
<1>3. f \in Entries(i) /\ Covers(i, f, h, T)
  <2>1. CASE HasRoom(i, cur)
    <3>1. f = Count(cur)
      BY <2>1
    <3>2. Tick(i, sec) = T
      OBVIOUS
    <3> HIDE DEF T
    <3> QED
      BY <2>1, <3>1, <3>2, <1>1, <1>2, CountCovers
  <2>2. CASE ~HasRoom(i, cur)
    BY <2>2, <1>2
  <2> QED
    BY <2>1, <2>2
<1>4. f # NoEntry
  BY <1>3, EntryIsOne
<1> QED
  BY <1>1, <1>3, <1>4 DEF Known

\* Of the entries of the other ids some are purged, the others stay as they are.
LEMMA OtherIsKnown ==
    ASSUME NEW i \in DOMAIN Limits, NEW e, NEW g \in Log, NEW T1 \in Nat, NEW T2 \in Nat,
           T1 <= T2, Known(i, e, g, T1),
           NEW f, f = IF Expired(i, e, T2 % Wrap) THEN NoEntry ELSE e
    PROVE  Known(i, f, g, T2)
<1>n. NCounts(i) \in Nat
  BY Ring
<1>1. CASE Expired(i, e, T2 % Wrap)
  <2>1. Idle(i, g, T2)
    BY <1>1, ExpiredIsIdle
  <2> QED
    BY <1>1, <2>1 DEF Known
<1>2. CASE ~Expired(i, e, T2 % Wrap) /\ e = NoEntry
  <2>1. Idle(i, g, T1)
    BY <1>2 DEF Known
  <2>2. ASSUME NEW s \in 0 .. MaxTime, g[s] # 0 PROVE Tick(i, s) + NCounts(i) <= T2
    <3>1. Tick(i, s) + NCounts(i) <= T1
      BY <2>1, <2>2 DEF Idle
    <3>2. s \in Nat
      BY RateAssumption
    <3>3. Tick(i, s) \in Nat
      BY <3>2, TickIs
    <3> QED
      BY <3>1, <3>3, <1>n
  <2>3. Idle(i, g, T2)
    BY <2>2 DEF Idle
  <2> QED
    BY <1>2, <2>3 DEF Known
<1>3. CASE ~Expired(i, e, T2 % Wrap) /\ e # NoEntry
  <2>1. f = e /\ e \in Entries(i)
    BY <1>3 DEF Known
  <2>2. PICK U \in Nat : U <= T1 /\ Covers(i, e, g, U)
    BY <1>3 DEF Known
  <2>3. U <= T2
    BY <2>2
  <2> QED
    BY <1>3, <2>1, <2>2, <2>3 DEF Known
<1> QED
  BY <1>1, <1>2, <1>3

Period(i, s) == {q \in 0 .. MaxTime : s <= q /\ q <= s + Limits[i].seconds - Res(i)}

\* A check that is granted finds less than the limit granted in the period.
LEMMA GrantIsWithin ==
    ASSUME NEW i \in DOMAIN Limits, NEW c \in Entries(i), NEW g \in Log, NEW h \in Log,
           NEW sec \in 0 .. MaxTime, Covers(i, c, g, Tick(i, sec)), HasRoom(i, c),
           \A s \in 0 .. MaxTime : h[s] = IF s = sec THEN g[s] + 1 ELSE g[s],
           NEW s0 \in 0 .. MaxTime, Sum(g, Period(i, s0)) <= Limits[i].limit
    PROVE  Sum(h, Period(i, s0)) <= Limits[i].limit
<1> DEFINE A == Period(i, s0)
           T == Tick(i, sec)
<1>1. A \in SUBSET (0 .. MaxTime) /\ IsFiniteSet(A)
  <2>1. A \subseteq 0 .. MaxTime
    BY DEF Period
  <2> QED
    BY <2>1, SecondsFinite
<1>2. sec \in Nat /\ s0 \in Nat /\ \A s \in A : s \in Nat
  BY <1>1, RateAssumption
<1>t. T \in Nat
  BY <1>2, TickIs
<1>3. \A s \in A : g[s] \in Nat
  BY <1>1 DEF Log
<1>4. \A s \in A : h[s] = IF s = sec THEN g[s] + 1 ELSE g[s]
  BY <1>1
<1>s. sec \in A => s0 <= sec /\ sec <= s0 + Limits[i].seconds - Res(i)
  BY DEF Period
<1>a. \A s \in A : s0 <= s
  BY DEF Period
<1>w. \A s \in A : sec \in A => T < Tick(i, s) + NCounts(i)
  BY <1>2, <1>s, <1>a, InWindow
<1> HIDE DEF A, T
<1>5. Sum(h, A) = IF sec \in A THEN Sum(g, A) + 1 ELSE Sum(g, A)
  BY <1>1, <1>3, <1>4, SumOneMore, Zenon
<1>6. Sum(g, A) \in Nat
  BY <1>1, <1>3, SumFacts
<1>7. CASE sec \in A
  <2>1. Covers(i, c, g, T) /\ \A s \in A : T < Tick(i, s) + NCounts(i)
    BY <1>7, <1>w DEF T
  <2>2. Sum(g, A) <= c.total
    BY <2>1, <1>1, <1>t, CoversTotal
  <2>3. c.total < Limits[i].limit /\ c.total \in Nat /\ Limits[i].limit \in Nat
    BY Ring DEF HasRoom, Entries
  <2>4. Sum(h, A) = Sum(g, A) + 1
    BY <1>5, <1>7
  <2>5. Sum(h, A) <= Limits[i].limit
    BY <2>2, <2>3, <2>4, <1>6
  <2> QED
    BY <2>5 DEF A
<1>8. CASE sec \notin A
  BY <1>5, <1>8 DEF A
<1> QED
  BY <1>7, <1>8

-----------------------------------------------------------------------------
(* The inductive invariant, for callers that hold a lock.                  *)

Calls == [id : Ids, ts : 0 .. MaxTime] \cup {NoCall}

\* The clock never runs backwards from one decided check to the next: with the
\* caller's lock there is no second call that has read the clock before.
InOrder ==
    /\ time \in 0 .. MaxTime /\ clock \in 0 .. time
    /\ call \in [Threads -> Calls]
    /\ \A t \in Threads : call[t] # NoCall => clock <= call[t].ts /\ call[t].ts <= time
    /\ \A t \in Threads, u \in Threads : call[t] # NoCall /\ call[u] # NoCall => t = u

AllKnown ==
    /\ grants \in [Ids -> Log]
    /\ \A i \in DOMAIN Limits, x \in Ids : Known(i, entries[i][x], grants[x], Tick(i, clock))

Within ==
    \A i \in DOMAIN Limits, x \in Ids, s \in 0 .. MaxTime :
        Sum(grants[x], Period(i, s)) <= Limits[i].limit

Counted == InOrder /\ AllKnown /\ Within

LEMMA PeriodFinite ==
    ASSUME NEW i \in DOMAIN Limits, NEW s
    PROVE  Period(i, s) \subseteq 0 .. MaxTime /\ IsFiniteSet(Period(i, s))
<1>1. Period(i, s) \subseteq 0 .. MaxTime
  BY DEF Period
<1> QED
  BY <1>1, SecondsFinite

LEMMA CountedInit == Init => Counted
<1> SUFFICES ASSUME Init PROVE Counted
  OBVIOUS
<1>1. InOrder
  <2>1. time = 0 /\ clock = 0 /\ MaxTime \in Nat /\ call = [t \in Threads |-> NoCall]
    BY RateAssumption DEF Init
  <2> QED
    BY <2>1 DEF InOrder, Calls
<1>2. grants = [x \in Ids |-> [s \in 0 .. MaxTime |-> 0]]
  BY DEF Init
<1>3. ASSUME NEW i \in DOMAIN Limits, NEW x \in Ids
      PROVE  Known(i, entries[i][x], grants[x], Tick(i, clock))
  <2>1. entries[i][x] = NoEntry
    BY DEF Init
  <2>2. \A s \in 0 .. MaxTime : grants[x][s] = 0
    BY <1>2
  <2> QED
    BY <2>1, <2>2 DEF Known, Idle
<1>4. ASSUME NEW i \in DOMAIN Limits, NEW x \in Ids, NEW s \in 0 .. MaxTime
      PROVE  Sum(grants[x], Period(i, s)) <= Limits[i].limit
  <2> DEFINE g == grants[x]
             A == Period(i, s)
  <2>1. \A q \in A : g[q] = 0
    BY <1>2, PeriodFinite
  <2>2. IsFiniteSet(A)
    BY PeriodFinite
  <2> HIDE DEF g, A
  <2>3. Sum(g, A) = 0
    BY <2>1, <2>2, SumZero
  <2>4. Limits[i].limit \in Nat
    BY Ring
  <2> QED
    BY <2>3, <2>4 DEF g, A
<1>5. grants \in [Ids -> Log]
  BY <1>2 DEF Log
<1> QED
  BY <1>1, <1>3, <1>4, <1>5 DEF Counted, AllKnown, Within

LEMMA ReadClockCounted ==
    ASSUME CallerLock, NEW t \in Threads, NEW x \in Ids, Counted, ReadClock(t, x)
    PROVE  Counted'
<1>1. InOrder'
  <2>1. /\ time' = time /\ clock' = clock /\ time \in 0 .. MaxTime /\ clock \in 0 .. time
        /\ call \in [Threads -> Calls]
        /\ call' = [call EXCEPT ![t] = [id |-> x, ts |-> time]]
        /\ \A u \in Threads : call[u] = NoCall
    BY DEF Counted, InOrder, ReadClock
  <2>2. [id |-> x, ts |-> time] \in Calls
    BY <2>1 DEF Calls
  <2>3. call' \in [Threads -> Calls] /\ call'[t] = [id |-> x, ts |-> time]
        /\ \A u \in Threads : u # t => call'[u] = NoCall
    BY <2>1, <2>2
  <2>4. clock' <= call'[t].ts /\ call'[t].ts <= time'
    BY <2>1, <2>3, RateAssumption
  <2>5. \A u \in Threads : call'[u] # NoCall => u = t
    BY <2>3
  <2> QED
    BY <2>1, <2>3, <2>4, <2>5 DEF InOrder
<1>2. entries' = entries /\ clock' = clock /\ grants' = grants
  BY DEF ReadClock
<1>3. AllKnown' /\ Within'
  BY <1>2 DEF Counted, AllKnown, Within
<1> QED
  BY <1>1, <1>3 DEF Counted

LEMMA ElapseCounted ==
    ASSUME Counted, Elapse
    PROVE  Counted'
<1>1. InOrder'
  <2>1. /\ time' = time + 1 /\ time < MaxTime /\ clock' = clock /\ call' = call
        /\ time \in 0 .. MaxTime /\ clock \in 0 .. time /\ MaxTime \in Nat
    BY RateAssumption DEF Counted, InOrder, Elapse
  <2>2. \A u \in Threads : call[u] # NoCall => call[u].ts \in 0 .. MaxTime
    BY DEF Counted, InOrder, Calls
  <2>3. \A u \in Threads : call[u] # NoCall => clock <= call[u].ts /\ call[u].ts <= time'
    BY <2>1, <2>2 DEF Counted, InOrder
  <2>4. time' \in 0 .. MaxTime /\ clock' \in 0 .. time'
    BY <2>1
  <2> QED
    BY <2>1, <2>3, <2>4 DEF Counted, InOrder
<1>2. entries' = entries /\ clock' = clock /\ grants' = grants
  BY DEF Elapse
<1>3. AllKnown' /\ Within'
  BY <1>2 DEF Counted, AllKnown, Within
<1> QED
  BY <1>1, <1>3 DEF Counted

LEMMA CheckCounted ==
    ASSUME NEW t \in Threads, Counted, Check(t)
    PROVE  Counted'
<1> DEFINE x == call[t].id
           sec == call[t].ts
           cur(i) == Current(i, x, sec)
           ok == \A i \in DOMAIN Limits : HasRoom(i, cur(i))
<1>1. /\ call[t] # NoCall /\ entries' = [i \in DOMAIN Limits |-> CheckLimit(i, x, sec)]
      /\ call' = [call EXCEPT ![t] = NoCall] /\ clock' = sec /\ time' = time
      /\ grants' = IF ok THEN [grants EXCEPT ![x][sec] = @ + 1] ELSE grants
  BY DEF Check
<1>2. x \in Ids /\ sec \in 0 .. MaxTime /\ clock \in Nat /\ time \in 0 .. MaxTime /\ MaxTime \in Nat
      /\ clock <= sec /\ sec <= time
  <2>1. call[t] \in [id : Ids, ts : 0 .. MaxTime]
    BY <1>1 DEF Counted, InOrder, Calls
  <2>2. clock <= sec /\ sec <= time
    BY <1>1 DEF Counted, InOrder
  <2>3. clock \in 0 .. time /\ time \in 0 .. MaxTime /\ MaxTime \in Nat
    BY RateAssumption DEF Counted, InOrder
  <2> QED
    BY <2>1, <2>2, <2>3
<1>3. InOrder'
  <2>1. call \in [Threads -> Calls] /\ NoCall \in Calls
    BY DEF Counted, InOrder, Calls
  <2>2. call' \in [Threads -> Calls] /\ \A u \in Threads : call'[u] = NoCall
    <3>1. \A u \in Threads : u # t => call[u] = NoCall
      BY <1>1 DEF Counted, InOrder
    <3> QED
      BY <1>1, <2>1, <3>1
  <2>3. clock' \in 0 .. time' /\ time' \in 0 .. MaxTime
    BY <1>1, <1>2
  <2> QED
    BY <2>2, <2>3 DEF InOrder
<1>g. /\ grants \in [Ids -> Log] /\ grants' \in [Ids -> Log]
      /\ \A y \in Ids : y # x => grants'[y] = grants[y]
      /\ ok => \A s \in 0 .. MaxTime : grants'[x][s] = IF s = sec THEN grants[x][s] + 1 ELSE grants[x][s]
      /\ ~ok => grants' = grants
  <2> DEFINE r == [grants[x] EXCEPT ![sec] = @ + 1]
  <2>1. grants \in [Ids -> Log]
    BY DEF Counted, AllKnown
  <2>2. r \in Log /\ \A s \in 0 .. MaxTime : r[s] = IF s = sec THEN grants[x][s] + 1 ELSE grants[x][s]
    <3> DEFINE g == grants[x]
               z == sec
    <3>1. g \in [0 .. MaxTime -> Nat] /\ z \in 0 .. MaxTime
      BY <2>1, <1>2 DEF Log
    <3> HIDE DEF g, z
    <3>2. [g EXCEPT ![z] = @ + 1] \in [0 .. MaxTime -> Nat]
      BY <3>1
    <3>3. \A s \in 0 .. MaxTime : [g EXCEPT ![z] = @ + 1][s] = IF s = z THEN g[s] + 1 ELSE g[s]
      BY <3>1
    <3> QED
      BY <3>2, <3>3 DEF g, z, Log
  <2> HIDE DEF ok
  <2>3. grants' = IF ok THEN [grants EXCEPT ![x] = r] ELSE grants
    BY <1>1
  <2> HIDE DEF r
  <2>4. CASE ok
    <3>1. grants' = [grants EXCEPT ![x] = r]
      BY <2>3, <2>4
    <3> QED
      BY <2>1, <2>2, <2>4, <3>1, <1>2
  <2>5. CASE ~ok
    BY <2>1, <2>3, <2>5
  <2> QED
    BY <2>4, <2>5
<1>k. \A i \in DOMAIN Limits : cur(i) = Turning(i, entries[i][x], Tick(i, sec) % Wrap)
  BY DEF Current, Turning, Tick
<1>e. ASSUME NEW i \in DOMAIN Limits
      PROVE  /\ entries'[i][x] = IF HasRoom(i, cur(i)) THEN Count(cur(i)) ELSE cur(i)
             /\ \A y \in Ids : y # x =>
                  entries'[i][y] = IF Expired(i, entries[i][y], Tick(i, sec) % Wrap)
                                   THEN NoEntry ELSE entries[i][y]
  <2>1. entries'[i] = CheckLimit(i, x, sec)
    BY <1>1
  <2> QED
    BY <2>1, <1>2 DEF CheckLimit, Tick
<1>t. ASSUME NEW i \in DOMAIN Limits
      PROVE  Tick(i, clock) \in Nat /\ Tick(i, sec) \in Nat /\ Tick(i, clock) <= Tick(i, sec)
  <2>1. sec \in Nat
    BY <1>2
  <2> QED
    BY <2>1, <1>2, TickIs, TickMono
<1>a. \A i \in DOMAIN Limits, y \in Ids : Known(i, entries[i][y], grants[y], Tick(i, clock))
  BY DEF Counted, AllKnown
<1>l. \A y \in Ids : grants[y] \in Log /\ grants'[y] \in Log
  BY <1>g
<1>r. \A i \in DOMAIN Limits : ok => HasRoom(i, cur(i))
  OBVIOUS
<1>c. clock' = sec
  BY <1>1
<1> HIDE DEF x, sec, cur, ok
<1>4. ASSUME NEW i \in DOMAIN Limits, NEW y \in Ids
      PROVE  Known(i, entries'[i][y], grants'[y], Tick(i, sec))
  <2>1. CASE y = x
    <3>1. \A s \in 0 .. MaxTime :
             grants'[x][s] \in {grants[x][s], IF s = sec THEN grants[x][s] + 1 ELSE grants[x][s]}
      BY <1>g
    <3>2. HasRoom(i, cur(i)) \/ grants'[x] = grants[x]
      BY <1>g, <1>r
    <3> DEFINE g == grants[x]
               h == grants'[x]
               e == entries[i][x]
               f == entries'[i][x]
               c == cur(i)
    <3>3. /\ g \in Log /\ h \in Log /\ Known(i, e, g, Tick(i, clock))
          /\ c = Turning(i, e, Tick(i, sec) % Wrap)
          /\ f = IF HasRoom(i, c) THEN Count(c) ELSE c
      BY <1>l, <1>2, <1>a, <1>k, <1>e
    <3>4. /\ \A s \in 0 .. MaxTime : h[s] \in {g[s], IF s = sec THEN g[s] + 1 ELSE g[s]}
          /\ HasRoom(i, c) \/ h = g
      BY <3>1, <3>2
    <3> HIDE DEF g, h, e, f, c
    <3>5. Known(i, f, h, Tick(i, sec))
      BY <3>3, <3>4, <1>t, <1>2, CheckedIsKnown
    <3> QED
      BY <3>5, <2>1 DEF f, h
  <2>2. CASE y # x
    <3> DEFINE g == grants[y]
               e == entries[i][y]
               f == entries'[i][y]
    <3>1. f = IF Expired(i, e, Tick(i, sec) % Wrap) THEN NoEntry ELSE e
      BY <1>e, <2>2
    <3>2. g \in Log /\ grants'[y] = g /\ Known(i, e, g, Tick(i, clock))
      BY <1>l, <1>a, <1>g, <2>2
    <3> HIDE DEF g, e, f
    <3>3. Known(i, f, g, Tick(i, sec))
      BY <3>1, <3>2, <1>t, OtherIsKnown
    <3> QED
      BY <3>2, <3>3 DEF f
  <2> QED
    BY <2>1, <2>2
<1>5. ASSUME NEW i \in DOMAIN Limits, NEW y \in Ids, NEW s0 \in 0 .. MaxTime
      PROVE  Sum(grants'[y], Period(i, s0)) <= Limits[i].limit
  <2>1. Sum(grants[y], Period(i, s0)) <= Limits[i].limit
    BY DEF Counted, Within
  <2>2. CASE y = x /\ ok
    <3> DEFINE g == grants[x]
               h == grants'[x]
               e == entries[i][x]
               c == cur(i)
    <3>1. /\ g \in Log /\ h \in Log /\ Known(i, e, g, Tick(i, clock))
          /\ c = Turning(i, e, Tick(i, sec) % Wrap) /\ HasRoom(i, c)
          /\ \A s \in 0 .. MaxTime : h[s] = IF s = sec THEN g[s] + 1 ELSE g[s]
          /\ Sum(g, Period(i, s0)) <= Limits[i].limit
      BY <1>l, <1>2, <1>a, <1>k, <1>g, <1>r, <2>1, <2>2
    <3> HIDE DEF g, h, e, c
    <3>2. c \in Entries(i) /\ Covers(i, c, g, Tick(i, sec))
      BY <3>1, <1>t, TurningCovers
    <3>3. Sum(h, Period(i, s0)) <= Limits[i].limit
      BY <3>1, <3>2, <1>2, GrantIsWithin
    <3> QED
      BY <3>3, <2>2 DEF h
  <2>3. CASE ~(y = x /\ ok)
    <3>1. grants'[y] = grants[y]
      BY <2>3, <1>g
    <3> QED
      BY <2>1, <3>1
  <2> QED
    BY <2>2, <2>3
<1>6. AllKnown'
  BY <1>4, <1>g, <1>c DEF AllKnown
<1>7. Within'
  BY <1>5 DEF Within
<1> QED
  BY <1>3, <1>6, <1>7 DEF Counted

\* As long as the callers hold a lock around RateLimit_check(), no id is granted
\* more than limit checks within any period shorter than the configured one by
\* less than a tick: whatever the limits are, for any number of ids and threads, for
\* any run of the clock, past any number of turns of the uint16_t tick too.
THEOREM AtMostRoundedCorrect == CallerLock => (Spec => []AtMostRounded)
<1> SUFFICES ASSUME CallerLock PROVE Spec => []AtMostRounded
  OBVIOUS
<1>1. Init => Counted
  BY CountedInit
<1>2. Counted /\ [Next]_rvars => Counted'
  <2> SUFFICES ASSUME Counted, [Next]_rvars PROVE Counted'
    OBVIOUS
  <2>1. CASE \E t \in Threads, x \in Ids : ReadClock(t, x)
    BY <2>1, ReadClockCounted
  <2>2. CASE \E t \in Threads : Check(t)
    BY <2>2, CheckCounted
  <2>3. CASE Elapse
    BY <2>3, ElapseCounted
  <2>4. CASE UNCHANGED rvars
    BY <2>4 DEF rvars, Counted, InOrder, AllKnown, Within
  <2> QED
    BY <2>1, <2>2, <2>3, <2>4 DEF Next
<1>3. Counted => AtMostRounded
  BY DEF Counted, Within, AtMostRounded, GrantedIn, Period
<1> QED
  BY <1>1, <1>2, <1>3, PTL DEF Spec

-----------------------------------------------------------------------------
(* Sound rings, with or without a lock.                                    *)

LEMMA NewIsEntry ==
    ASSUME NEW i \in DOMAIN Limits, NEW now \in 0 .. Wrap - 1
    PROVE  NewEntry(i, now) \in Entries(i)
<1> DEFINE z == [k \in Ticks(i) |-> 0]
<1>1. NewEntry(i, now) = [last |-> now, total |-> 0, countpos |-> 0, counts |-> z]
  BY DEF NewEntry, Ticks
<1>2. Sum(z, Ticks(i)) = 0
  BY SecondsFinite, SumZero
<1>3. 0 \in Ticks(i) /\ z \in [Ticks(i) -> Nat] /\ Limits[i].limit \in Nat
  BY Ring DEF Ticks
<1> HIDE DEF z
<1> QED
  BY <1>1, <1>2, <1>3 DEF Entries

LEMMA CountIsEntry ==
    ASSUME NEW i \in DOMAIN Limits, NEW c \in Entries(i), HasRoom(i, c)
    PROVE  Count(c) \in Entries(i)
<1> DEFINE p == c.countpos
           S == Ticks(i)
           a == c.counts
           q == [a EXCEPT ![p] = @ + 1]
<1>1. /\ a \in [S -> Nat] /\ p \in S /\ c.total \in Nat /\ c.total = Sum(a, S)
      /\ c \in [last : 0 .. Wrap - 1, total : Nat, countpos : S, counts : [S -> Nat]]
      /\ c.total < Limits[i].limit /\ Limits[i].limit \in Nat
  BY Ring DEF Entries, HasRoom
<1>2. Count(c) = [[c EXCEPT !.total = @ + 1] EXCEPT !.counts = q]
  BY <1>1 DEF Count
<1>f. IsFiniteSet(S)
  BY SecondsFinite
<1> HIDE DEF p, S, a
<1>3. q \in [S -> Nat] /\ \A k \in S : a[k] \in Nat /\ q[k] = IF k = p THEN a[k] + 1 ELSE a[k]
  BY <1>1
<1> HIDE DEF q
<1>4. Sum(q, S) = Sum(a, S) + 1
  <2>1. \A k \in S : a[k] \in Nat
    BY <1>3
  <2>2. \A k \in S : q[k] = IF k = p THEN a[k] + 1 ELSE a[k]
    BY <1>3
  <2>3. Sum(q, S) = IF p \in S THEN Sum(a, S) + 1 ELSE Sum(a, S)
    BY <1>f, <2>1, <2>2, SumOneMore, Zenon
  <2> QED
    BY <2>3, <1>1
<1> DEFINE d == Count(c)
<1>5. /\ d \in [last : 0 .. Wrap - 1, total : Nat, countpos : S, counts : [S -> Nat]]
      /\ d.total = c.total + 1 /\ d.counts = q
  <2>1. c.total + 1 \in Nat
    BY <1>1
  <2>2. d = [[c EXCEPT !.total = @ + 1] EXCEPT !.counts = q]
    BY <1>2
  <2> HIDE DEF d
  <2> QED
    BY <1>1, <1>3, <2>1, <2>2
<1>6. d.total = Sum(d.counts, S) /\ d.total <= Limits[i].limit
  BY <1>1, <1>4, <1>5
<1> HIDE DEF d
<1>7. d \in Entries(i)
  BY <1>5, <1>6 DEF Entries, S
<1> QED
  BY <1>7 DEF d

Sound ==
    /\ time \in 0 .. MaxTime
    /\ call \in [Threads -> Calls]
    /\ \A i \in DOMAIN Limits, x \in Ids : entries[i][x] \in Entries(i) \cup {NoEntry}

\* A counter is part of a total that stays within the limit.
LEMMA EntryIsOK ==
    ASSUME NEW i \in DOMAIN Limits, NEW e \in Entries(i) \cup {NoEntry}
    PROVE  EntryOK(i, e)
<1>1. CASE e = NoEntry
  BY <1>1 DEF EntryOK
<1>2. CASE e \in Entries(i)
  <2> DEFINE S == Ticks(i)
             a == e.counts
             L == Limits[i].limit
  <2>1. /\ a \in [S -> Nat] /\ e.total = Sum(a, S) /\ e.total <= L /\ L \in Nat
        /\ e.last \in 0 .. Wrap - 1 /\ e.countpos \in S
    BY <1>2, Ring DEF Entries
  <2>2. IsFiniteSet(S)
    BY SecondsFinite
  <2>3. DOMAIN a = S
    BY <2>1
  <2> HIDE DEF a, L
  <2>4. ASSUME NEW k \in S PROVE a[k] \in 0 .. L
    <3>1. Sum(a, S) = a[k] + Sum(a, S \ {k}) /\ Sum(a, S) \in Nat
      BY <2>1, <2>2, SumFacts
    <3>2. Sum(a, S \ {k}) \in Nat
      <4>1. IsFiniteSet(S \ {k}) /\ \A j \in S \ {k} : a[j] \in Nat
        BY <2>1, <2>2, FS_Subset
      <4> QED
        BY <4>1, SumFacts
    <3>3. a[k] \in Nat
      BY <2>1
    <3> QED
      BY <2>1, <3>1, <3>2, <3>3
  <2>5. a \in [S -> 0 .. L]
    BY <2>1, <2>4
  <2> QED
    BY <2>1, <2>3, <2>5 DEF EntryOK, a, L, Ticks
<1> QED
  BY <1>1, <1>2

LEMMA CheckSound ==
    ASSUME NEW t \in Threads, Sound, Check(t)
    PROVE  Sound'
<1> DEFINE x == call[t].id
           sec == call[t].ts
<1>1. /\ entries' = [i \in DOMAIN Limits |-> CheckLimit(i, x, sec)]
      /\ call' = [call EXCEPT ![t] = NoCall] /\ time' = time /\ call[t] # NoCall
  BY DEF Check
<1>2. call' \in [Threads -> Calls] /\ sec \in 0 .. MaxTime
  BY <1>1 DEF Sound, Calls
<1>3. ASSUME NEW i \in DOMAIN Limits, NEW y \in Ids
      PROVE  entries'[i][y] \in Entries(i) \cup {NoEntry}
  <2> DEFINE e == entries[i][y]
             now == (sec \div Res(i)) % Wrap
             c == Current(i, x, sec)
  <2>1. e \in Entries(i) \cup {NoEntry}
    BY DEF Sound
  <2>2. now \in 0 .. Wrap - 1
    <3>1. Res(i) \in Nat \ {0} /\ Wrap \in Nat \ {0} /\ sec \in Int
      BY <1>2, Ring, RateAssumption
    <3>2. sec \div Res(i) \in Int
      BY <3>1, DivMod
    <3> QED
      BY <3>1, <3>2, DivMod
  <2>3. entries'[i][y] = IF y = x THEN IF HasRoom(i, c) THEN Count(c) ELSE c
                         ELSE IF Expired(i, e, now) THEN NoEntry ELSE e
    BY <1>1 DEF CheckLimit
  <2>4. CASE y = x
    <3> DEFINE f == IF e = NoEntry THEN NewEntry(i, now) ELSE e
    <3>1. c = Turn(i, f, now)
      BY <2>4 DEF Current
    <3>2. f \in Entries(i)
      BY <2>1, <2>2, NewIsEntry
    <3> HIDE DEF f, now
    <3>3. c \in Entries(i)
      BY <2>2, <3>1, <3>2, TurnEntry
    <3> HIDE DEF c
    <3>4. HasRoom(i, c) => Count(c) \in Entries(i)
      BY <3>3, CountIsEntry
    <3> QED
      BY <2>3, <2>4, <3>3, <3>4
  <2>5. CASE y # x
    BY <2>1, <2>3, <2>5
  <2> QED
    BY <2>4, <2>5
<1> QED
  BY <1>1, <1>2, <1>3 DEF Sound

\* Whatever the order in which racing callers apply their clock values, total is the
\* sum of the ring and never more than the limit, so that no counter of checkLimit()
\* over- or underflows.
THEOREM TypeCorrect == Spec => []TypeOK
<1>1. Init => Sound
  <2> SUFFICES ASSUME Init PROVE Sound
    OBVIOUS
  <2>1. time \in 0 .. MaxTime /\ call \in [Threads -> Calls]
    BY RateAssumption DEF Init, Calls
  <2>2. \A i \in DOMAIN Limits, x \in Ids : entries[i][x] = NoEntry
    BY DEF Init
  <2> QED
    BY <2>1, <2>2 DEF Sound
<1>2. Sound /\ [Next]_rvars => Sound'
  <2> SUFFICES ASSUME Sound, [Next]_rvars PROVE Sound'
    OBVIOUS
  <2>1. CASE \E t \in Threads, x \in Ids : ReadClock(t, x)
    <3>1. PICK t \in Threads, x \in Ids : ReadClock(t, x)
      BY <2>1
    <3>2. /\ call' = [call EXCEPT ![t] = [id |-> x, ts |-> time]]
          /\ time' = time /\ entries' = entries
      BY <3>1 DEF ReadClock
    <3>3. [id |-> x, ts |-> time] \in Calls
      BY DEF Sound, Calls
    <3>4. call' \in [Threads -> Calls]
      BY <3>2, <3>3 DEF Sound
    <3> QED
      BY <3>2, <3>4 DEF Sound
  <2>2. CASE \E t \in Threads : Check(t)
    BY <2>2, CheckSound
  <2>3. CASE Elapse
    BY <2>3, RateAssumption DEF Elapse, Sound
  <2>4. CASE UNCHANGED rvars
    BY <2>4 DEF rvars, Sound
  <2> QED
    BY <2>1, <2>2, <2>3, <2>4 DEF Next
<1>3. Sound => TypeOK
  BY EntryIsOK DEF Sound, TypeOK, Calls
<1> QED
  BY <1>1, <1>2, <1>3, PTL DEF Spec

-----------------------------------------------------------------------------
(* The rings are a sliding window, while no tick is reused.                *)

\* A sum does not depend on how its terms are called: s maps A into B, and what it
\* misses of B is zero.
LEMMA SumRenamed ==
    ASSUME NEW A, IsFiniteSet(A), NEW B, IsFiniteSet(B), NEW f, NEW g, NEW s \in [A -> B],
           \A x \in A : f[x] = g[s[x]], \A y \in B : g[y] \in Nat,
           \A x \in A, y \in A : s[x] = s[y] => x = y,
           \A y \in B : (\A x \in A : s[x] # y) => g[y] = 0
    PROVE  Sum(f, A) = Sum(g, B)
<1> DEFINE Img(a) == {s[x] : x \in a}
           C == {a \in SUBSET A : Sum(f, a) # Sum(g, Img(a))}
<1>f. \A a \in SUBSET A : IsFiniteSet(a) /\ IsFiniteSet(Img(a)) /\ Img(a) \in SUBSET B
  <2> TAKE a \in SUBSET A
  <2>1. Img(a) \in SUBSET B
    OBVIOUS
  <2> QED
    BY <2>1, FS_Subset
<1>n. \A x \in A : f[x] \in Nat
  OBVIOUS
<1>1. C = {}
  <2>1. SUFFICES ASSUME C # {} PROVE FALSE
    OBVIOUS
  <2>2. PICK a \in C : \A r \in C : Cardinality(a) <= Cardinality(r)
    <3>1. \A r \in C : IsFiniteSet(r)
      BY <1>f
    <3> HIDE DEF C
    <3> QED
      BY <2>1, <3>1, Smallest
  <2>3. a # {}
    <3>1. Sum(f, {}) = 0 /\ Sum(g, {}) = 0
      BY FS_EmptySet, SumFacts
    <3>2. Img({}) = {}
      OBVIOUS
    <3> QED
      BY <2>2, <3>1, <3>2
  <2>4. PICK x \in a : TRUE
    BY <2>3
  <2> DEFINE b == a \ {x}
  <2>5. b \in SUBSET A /\ x \in A /\ a \in SUBSET A
    BY <2>2, <2>4
  <2>6. b \notin C
    <3>1. /\ Cardinality(a) \in Nat /\ Cardinality(b) \in Nat
          /\ Cardinality(b) = Cardinality(a) - 1
      BY <2>4, <2>5, <1>f, Without
    <3> HIDE DEF b, C
    <3>2. ~(Cardinality(a) <= Cardinality(b))
      BY <3>1
    <3> QED
      BY <2>2, <3>2
  <2>7. Sum(f, b) = Sum(g, Img(b))
    BY <2>5, <2>6
  <2>8. Img(b) = Img(a) \ {s[x]} /\ s[x] \in Img(a)
    BY <2>4, <2>5
  <2>9. Sum(f, a) = f[x] + Sum(f, b)
    BY <2>4, <2>5, <1>f, <1>n, SumFacts
  <2>10. Sum(g, Img(a)) = g[s[x]] + Sum(g, Img(a) \ {s[x]})
    <3> DEFINE I == Img(a)
    <3>1. IsFiniteSet(I) /\ \A y \in I : g[y] \in Nat
      BY <2>5, <1>f
    <3>2. s[x] \in I
      BY <2>8
    <3> HIDE DEF I
    <3>3. Sum(g, I) = g[s[x]] + Sum(g, I \ {s[x]})
      BY <3>1, <3>2, SumFacts
    <3> QED
      BY <3>3 DEF I
  <2>11. Sum(f, a) = Sum(g, Img(a))
    BY <2>5, <2>7, <2>8, <2>9, <2>10
  <2> QED
    BY <2>2, <2>11
<1> DEFINE I == Img(A)
<1>2. Sum(f, A) = Sum(g, I)
  BY <1>1
<1>3. I \in SUBSET B /\ \A y \in B \ I : g[y] = 0
  BY <1>f
<1> HIDE DEF I, Img, C
<1>4. Sum(g, B) = Sum(g, I) + Sum(g, B \ I)
  BY <1>3, SumParts
<1>5. Sum(g, B \ I) = 0 /\ IsFiniteSet(I)
  BY <1>3, FS_Subset, SumZero
<1>6. Sum(g, I) \in Nat
  BY <1>3, <1>5, SumFacts
<1> QED
  BY <1>2, <1>4, <1>5, <1>6

\* Where the ring of an entry that was turned to `last` counts tick k.
Place(i, e, k) == (e.countpos - (e.last - k)) % NCounts(i)

\* A turn keeps the counters of the ticks that stay in the window, and those of the
\* ticks that it comes to start at zero.
LEMMA TurnPlace ==
    ASSUME NEW i \in DOMAIN Limits, NEW e \in Entries(i), NEW T \in Nat, T < Wrap, e.last <= T,
           NEW k \in Int, T < k + NCounts(i), k <= T,
           NEW c, c = Turn(i, e, T)
    PROVE  c.last = T /\ c.counts[Place(i, c, k)] = IF k > e.last THEN 0 ELSE e.counts[Place(i, e, k)]
<1> DEFINE n == NCounts(i)
           p == e.countpos
           l == e.last
           steps == (T - l) % Wrap
           D == Dropped(i, e, T)
           at == (p + (k - l)) % n
<1>n. n \in Nat \ {0} /\ n < Wrap /\ Wrap \in Nat \ {0}
  BY Ring
<1>e. p \in 0 .. n - 1 /\ l \in 0 .. Wrap - 1 /\ e.counts \in [Ticks(i) -> Nat] /\ Ticks(i) = 0 .. n - 1
  BY DEF Entries, Ticks
<1>t. Turned(i, e, T, c)
  <2>1. T \in 0 .. Wrap - 1
    BY <1>n
  <2> QED
    BY <2>1, TurnIs
<1>1. steps = T - l
  <2> DEFINE d == T - l
  <2>1. d \in 0 .. Wrap - 1
    BY <1>e, <1>n
  <2> HIDE DEF d
  <2>2. d % Wrap = d
    BY <2>1, <1>n, ModSmall
  <2> QED
    BY <2>2 DEF d
<1>2. /\ c.last = T /\ c.countpos = (p + steps) % n /\ D \subseteq Ticks(i)
      /\ c.counts = [j \in Ticks(i) |-> IF j \in D THEN 0 ELSE e.counts[j]]
  BY <1>t DEF Turned
<1>d. D = {(p + j) % n : j \in 1 .. (IF steps < n THEN steps ELSE n)}
  BY DEF Dropped
<1>p. Place(i, e, k) = at
  <2>1. p - (l - k) = p + (k - l)
    BY <1>e
  <2> QED
    BY <2>1 DEF Place
<1>k. T < k + n
  OBVIOUS
<1> HIDE DEF n, p, l, steps, D
<1>3. Place(i, c, k) = at
  <2> DEFINE a == p + steps
             b == k - T
  <2>1. a \in Int /\ b \in Int /\ a + b = p + (k - l)
    BY <1>1, <1>e
  <2>2. c.countpos - (c.last - k) = (a % n) + b
    <3>1. a % n \in Int
      BY <2>1, <1>n, DivMod
    <3> HIDE DEF a
    <3>2. c.countpos = a % n /\ c.last = T
      BY <1>2 DEF a
    <3> QED
      BY <3>1, <3>2
  <2> HIDE DEF a, b
  <2>3. ((a % n) + b) % n = (a + b) % n
    BY <2>1, <1>n, ModAdd, Zenon
  <2> QED
    BY <2>1, <2>2, <2>3 DEF Place, n
<1>a. at \in Ticks(i) /\ p + (k - l) \in Int
  <2>1. p + (k - l) \in Int
    BY <1>e
  <2> QED
    BY <2>1, <1>e, <1>n, DivMod
<1>4. ASSUME k > l PROVE at \in D
  <2>1. CASE steps < n
    <3>1. k - l \in 1 .. steps
      BY <1>4, <1>1, <1>e, <1>n
    <3> QED
      BY <2>1, <3>1, <1>d
  <2>2. CASE ~(steps < n)
    <3> DEFINE m == k - l - 1
               q == m \div n
               j == (m % n) + 1
    <3>1. m \in Int
      BY <1>e
    <3>2. q \in Int /\ m % n \in 0 .. n - 1 /\ m = n * q + (m % n)
      BY <3>1, <1>n, DivMod
    <3>3. j \in 1 .. n /\ j \in Int /\ n * q \in Int
      BY <3>2, <1>n
    <3>4. p + (k - l) = n * q + (p + j)
      BY <3>2, <3>3, <1>e
    <3> HIDE DEF m, q, j
    <3> DEFINE a == p + (k - l)
               b == p + j
    <3>6. a \in Int /\ b \in Int /\ a = n * q + b
      BY <3>3, <3>4, <1>e, <1>a
    <3> HIDE DEF a, b
    <3>7. a % n = b % n
      BY <3>2, <3>6, <1>n, ModStep
    <3>5. (p + (k - l)) % n = (p + j) % n
      BY <3>7 DEF a, b
    <3> QED
      BY <2>2, <3>3, <3>5, <1>d
  <2> QED
    BY <2>1, <2>2
<1>5. ASSUME ~(k > l) PROVE at \notin D
  <2> SUFFICES ASSUME NEW j \in 1 .. (IF steps < n THEN steps ELSE n), (p + j) % n = at PROVE FALSE
    BY <1>d
  <2>1. steps < n
    BY <1>5, <1>1, <1>e, <1>n, <1>k
  <2>2. j \in 1 .. steps /\ j \in Int
    BY <2>1
  <2>3. k - l <= 0 /\ k - l > steps - n /\ k - l \in Int /\ steps \in Int
    BY <1>5, <1>1, <1>e, <1>n, <1>k
  <2> DEFINE a == p + (k - l)
             b == p + j
  <2>4. a \in Int /\ b \in Int /\ a <= b /\ b < a + n /\ a # b
    BY <2>2, <2>3, <1>e, <1>n
  <2>5. a % n = b % n
    OBVIOUS
  <2> HIDE DEF a, b
  <2> QED
    BY <2>4, <2>5, <1>n, ModNear
<1> HIDE DEF at
<1>6. c.counts[at] = IF at \in D THEN 0 ELSE e.counts[at]
  BY <1>2, <1>a
<1> QED
  BY <1>2, <1>3, <1>4, <1>5, <1>6, <1>p DEF l

Win(i, T) == {k \in 0 .. MaxTime : k <= T /\ k + NCounts(i) > T}

LEMMA WindowIs ==
    ASSUME NEW i \in DOMAIN Limits, NEW t
    PROVE  Window!Window(i, t) = Win(i, Tick(i, t))
BY DEF Window!Window, Win, Tick

LEMMA CountedIs ==
    ASSUME NEW i \in DOMAIN Limits, NEW x \in Ids, NEW t
    PROVE  Window!Counted(i, x, t) = Sum(RingLog(i, x), Win(i, Tick(i, t)))
<1> DEFINE L == [j \in DOMAIN Limits |-> [y \in Ids |-> RingLog(j, y)]]
<1>1. Window!Counted(i, x, t) = Sum(L[i][x], Window!Window(i, t))
  BY DEF Window!Counted, Sum, MapThenSumSet, MapThenFoldSet, Window!MapThenSumSet, Window!MapThenFoldSet
<1>2. L[i][x] = RingLog(i, x)
  OBVIOUS
<1> HIDE DEF L
<1> QED
  BY <1>1, <1>2, WindowIs

\* What a ring that was turned to tick e.last or later says at tick T.
RingAt(i, e, T) ==
    [k \in 0 .. MaxTime |->
        IF e = NoEntry \/ k > e.last \/ k + NCounts(i) <= e.last \/ k + NCounts(i) <= T
          THEN 0 ELSE e.counts[Place(i, e, k)]]

\* An entry whose `last` is the tick itself, with empty counters for the ticks
\* before the clock began.
Exact(i, e, T) ==
    e # NoEntry =>
      /\ e \in Entries(i) /\ e.last <= T
      /\ \A k \in Int : k < 0 /\ e.last < k + NCounts(i) => e.counts[Place(i, e, k)] = 0

\* RingLog(i, x) for entry e of x, at a clock of tick T.
LogOf(i, e, T) ==
    LET last == T - ((T - e.last) % Wrap)
    IN [k \in 0 .. MaxTime |->
          IF e = NoEntry \/ k > last \/ k + NCounts(i) <= last \/ k + NCounts(i) <= T
            THEN 0 ELSE e.counts[(e.countpos - (last - k)) % NCounts(i)]]

LEMMA LogIs ==
    ASSUME NEW i \in DOMAIN Limits, NEW e, NEW T \in Nat, T < Wrap, Exact(i, e, T)
    PROVE  LogOf(i, e, T) = RingAt(i, e, T)
<1>2. CASE e = NoEntry
  BY <1>2 DEF LogOf, RingAt
<1>3. CASE e # NoEntry
  <2>1. e \in Entries(i) /\ e.last <= T
    BY <1>3 DEF Exact
  <2>2. e.last \in 0 .. Wrap - 1 /\ Wrap \in Nat \ {0}
    BY <2>1, Ring DEF Entries
  <2> DEFINE d == T - e.last
  <2>3. d \in 0 .. Wrap - 1 /\ T - d = e.last
    BY <2>1, <2>2
  <2> HIDE DEF d
  <2>4. d % Wrap = d
    BY <2>2, <2>3, ModSmall
  <2>5. T - (d % Wrap) = e.last
    BY <2>3, <2>4
  <2>6. T - ((T - e.last) % Wrap) = e.last
    BY <2>5 DEF d
  <2> QED
    BY <2>6 DEF LogOf, RingAt, Place
<1> QED
  BY <1>2, <1>3

InRing(i, e, k) == e.last < k + NCounts(i) /\ k <= e.last

\* Places are counters, one for each tick of a window.
LEMMA Places ==
    ASSUME NEW i \in DOMAIN Limits, NEW e \in Entries(i)
    PROVE  /\ \A k \in Int : Place(i, e, k) \in Ticks(i)
           /\ \A k \in Int, m \in Int :
                 (InRing(i, e, k) /\ InRing(i, e, m) /\ Place(i, e, k) = Place(i, e, m)) => k = m
           /\ Place(i, e, e.last) = e.countpos
           /\ \A y \in Ticks(i) : \E k \in Int : InRing(i, e, k) /\ Place(i, e, k) = y
<1> DEFINE n == NCounts(i)
           p == e.countpos
           l == e.last
<1>n. n \in Nat \ {0} /\ p \in 0 .. n - 1 /\ l \in Int /\ Ticks(i) = 0 .. n - 1
  BY Ring DEF Entries, Ticks
<1>p. \A k \in Int : Place(i, e, k) = (p - (l - k)) % n
  BY DEF Place
<1>l. Place(i, e, l) = p
  <2>1. p - (l - l) = p
    BY <1>n
  <2>2. p % n = p
    BY <1>n, ModSmall
  <2> QED
    BY <2>1, <2>2, <1>p, <1>n
<1> HIDE DEF n, p, l
<1>1. ASSUME NEW k \in Int PROVE Place(i, e, k) \in Ticks(i)
  <2>1. p - (l - k) \in Int
    BY <1>n
  <2> QED
    BY <2>1, <1>n, <1>p, DivMod
<1>2. ASSUME NEW k \in Int, NEW m \in Int, l < k + n, k <= l, l < m + n, m <= l,
             Place(i, e, k) = Place(i, e, m)
      PROVE  k = m
  <2> DEFINE a == p - (l - k)
             b == p - (l - m)
  <2>1. a \in Int /\ b \in Int /\ b < a + n /\ a < b + n /\ (a = b => k = m)
    BY <1>2, <1>n
  <2>2. a % n = b % n
    BY <1>2, <1>p
  <2> HIDE DEF a, b
  <2>3. CASE a <= b
    BY <2>1, <2>2, <2>3, <1>n, ModNear
  <2>4. CASE b <= a
    <3>1. b = a
      BY <2>1, <2>2, <2>4, <1>n, ModNear
    <3> QED
      BY <3>1, <2>1
  <2> QED
    BY <2>1, <2>3, <2>4
<1>3. ASSUME NEW y \in Ticks(i)
      PROVE  \E k \in Int : l < k + n /\ k <= l /\ Place(i, e, k) = y
  <2> DEFINE q == (p - y) \div n
             r == (p - y) % n
             k == l - r
  <2>1. y \in 0 .. n - 1 /\ y \in Int /\ p - y \in Int
    BY <1>n
  <2>2. q \in Int /\ r \in 0 .. n - 1 /\ p - y = n * q + r
    BY <2>1, <1>n, DivMod
  <2>3. n * q \in Int
    BY <2>2, <1>n
  <2> HIDE DEF q, r
  <2>4. k \in Int /\ l < k + n /\ k <= l /\ p - (l - k) \in Int /\ p - (l - k) = n * q + y
    BY <2>1, <2>2, <2>3, <1>n
  <2> DEFINE a == p - (l - k)
  <2>a. a = n * q + y /\ a \in Int
    BY <2>4
  <2> HIDE DEF k, a
  <2>5. a % n = y % n
    BY <2>1, <2>2, <2>a, <1>n, ModStep
  <2>6. y % n = y
    BY <2>1, <1>n, ModSmall
  <2>7. Place(i, e, k) = y
    BY <2>4, <2>5, <2>6, <1>p DEF a
  <2> QED
    BY <2>4, <2>7
<1>4. \A k \in Int, m \in Int :
         (InRing(i, e, k) /\ InRing(i, e, m) /\ Place(i, e, k) = Place(i, e, m)) => k = m
  BY <1>2 DEF n, l, InRing
<1>5. \A y \in Ticks(i) : \E k \in Int : InRing(i, e, k) /\ Place(i, e, k) = y
  <2> TAKE y \in Ticks(i)
  <2>1. PICK k \in Int : l < k + n /\ k <= l /\ Place(i, e, k) = y
    BY <1>3
  <2> QED
    BY <2>1 DEF n, l, InRing
<1>6. Place(i, e, e.last) = e.countpos
  BY <1>l DEF p, l
<1> QED
  BY <1>1, <1>4, <1>5, <1>6

\* c is an entry that was turned to tick T, and shows log g of the window.
Shows(i, c, g, T) ==
    /\ c \in Entries(i) /\ c.last = T /\ Exact(i, c, T)
    /\ \A k \in Win(i, T) : c.counts[Place(i, c, k)] = g[k]

\* Turning an entry, or a new one, does not change what it says of the window.
LEMMA TurnExact ==
    ASSUME NEW i \in DOMAIN Limits, NEW e, NEW T1 \in Nat, NEW T \in Nat, T1 <= T, T < Wrap,
           Exact(i, e, T1), NEW c, c = Turning(i, e, T)
    PROVE  Shows(i, c, RingAt(i, e, T1), T)
<1> DEFINE n == NCounts(i)
           f == IF e = NoEntry THEN NewEntry(i, T) ELSE e
           g == RingAt(i, e, T1)
<1>n. n \in Nat \ {0} /\ Wrap \in Nat \ {0} /\ T \in 0 .. Wrap - 1
  BY Ring
<1>1. c = Turn(i, f, T)
  BY DEF Turning
<1>2. f \in Entries(i) /\ f.last <= T /\ f.last \in Int
  <2>1. CASE e = NoEntry
    <3>1. NewEntry(i, T) \in Entries(i) /\ NewEntry(i, T).last = T
      BY <1>n, NewIsEntry DEF NewEntry
    <3> QED
      BY <2>1, <3>1
  <2>2. CASE e # NoEntry
    <3>1. e \in Entries(i) /\ e.last <= T1
      BY <2>2 DEF Exact
    <3>2. e.last \in Int
      BY <3>1 DEF Entries
    <3> QED
      BY <2>2, <3>1, <3>2
  <2> QED
    BY <2>1, <2>2
<1>e. \A k \in Int : f.last < k + n => Place(i, f, k) \in Ticks(i)
  BY <1>2, Places
<1>z. \A k \in Int : k < 0 /\ f.last < k + n => f.counts[Place(i, f, k)] = 0
  <2>1. CASE e = NoEntry
    <3>1. \A y \in Ticks(i) : f.counts[y] = 0
      BY <2>1 DEF NewEntry, Ticks
    <3> HIDE DEF f
    <3> QED
      BY <3>1, <1>e
  <2>2. CASE e # NoEntry
    BY <2>2 DEF Exact
  <2> QED
    BY <2>1, <2>2
<1>g. \A k \in Win(i, T) : g[k] = IF k > f.last THEN 0 ELSE f.counts[Place(i, f, k)]
  <2> TAKE k \in Win(i, T)
  <2>1. k \in 0 .. MaxTime /\ k \in Int /\ k <= T /\ T < k + n
    BY <1>n DEF Win
  <2>2. CASE e = NoEntry
    <3>1. g[k] = 0
      BY <2>1, <2>2 DEF RingAt
    <3>2. f.counts[Place(i, f, k)] = 0
      <4>1. \A y \in Ticks(i) : f.counts[y] = 0
        BY <2>2 DEF NewEntry, Ticks
      <4>2. f.last < k + n
        BY <1>2, <1>n, <2>1
      <4> HIDE DEF f
      <4> QED
        BY <4>1, <4>2, <2>1, <1>e
    <3> HIDE DEF f, g
    <3> QED
      BY <3>1, <3>2
  <2>3. CASE e # NoEntry
    <3>1. f = e
      BY <2>3
    <3>2. ~(k + n <= e.last) /\ ~(k + n <= T1)
      BY <3>1, <1>2, <1>n, <2>1
    <3> QED
      BY <3>1, <3>2, <2>1, <2>3 DEF RingAt
  <2> QED
    BY <2>2, <2>3
<1> HIDE DEF f, g
<1>3. ASSUME NEW k \in Int, T < k + n, k <= T
      PROVE  c.last = T /\ c.counts[Place(i, c, k)] = IF k > f.last THEN 0 ELSE f.counts[Place(i, f, k)]
  BY <1>1, <1>2, <1>3, TurnPlace
<1>4. c \in Entries(i)
  BY <1>1, <1>2, <1>n, TurnEntry
<1>5. c.last = T
  <2>1. T \in Int /\ T < T + n /\ T <= T
    BY <1>n
  <2> QED
    BY <2>1, <1>3
<1>6. \A k \in Int : k < 0 /\ c.last < k + n => c.counts[Place(i, c, k)] = 0
  <2> SUFFICES ASSUME NEW k \in Int, k < 0, T < k + n PROVE c.counts[Place(i, c, k)] = 0
    BY <1>5
  <2>1. k <= T /\ f.last < k + n
    BY <1>2, <1>n
  <2> QED
    BY <2>1, <1>3, <1>z
<1>7. \A k \in Win(i, T) : k \in Int /\ T < k + n /\ k <= T
  BY <1>n DEF Win
<1>8. \A k \in Win(i, T) : c.counts[Place(i, c, k)] = g[k]
  BY <1>3, <1>7, <1>g
<1>9. Exact(i, c, T)
  <2>1. c.last <= T
    BY <1>5
  <2> QED
    BY <2>1, <1>4, <1>6 DEF Exact
<1> QED
  BY <1>4, <1>5, <1>8, <1>9 DEF Shows, g

\* The total of a ring is the number of checks in the window.
LEMMA TotalIs ==
    ASSUME NEW i \in DOMAIN Limits, NEW c, NEW g, NEW T \in 0 .. MaxTime, Shows(i, c, g, T)
    PROVE  Sum(g, Win(i, T)) = c.total
<1> DEFINE A == Win(i, T)
           B == Ticks(i)
           s == [k \in A |-> Place(i, c, k)]
           h == c.counts
<1>1. c \in Entries(i) /\ c.last = T /\ T \in Int /\ MaxTime \in Nat /\ NCounts(i) \in Nat
  BY RateAssumption, Ring DEF Shows
<1>2. h \in [B -> Nat] /\ c.total = Sum(h, B) /\ c # NoEntry
  BY <1>1, EntryIsOne DEF Entries
<1>3. IsFiniteSet(A) /\ IsFiniteSet(B)
  <2>1. A \subseteq 0 .. MaxTime
    BY DEF Win
  <2> QED
    BY <2>1, SecondsFinite
<1>4. \A k \in A : k \in Int /\ InRing(i, c, k)
  BY <1>1 DEF Win, InRing
<1>5. \A k \in Int : InRing(i, c, k) /\ k >= 0 => k \in A
  BY <1>1 DEF Win, InRing
<1>6. \A k \in A : g[k] = h[Place(i, c, k)]
  BY DEF Shows
<1>7. \A k \in Int : k < 0 /\ InRing(i, c, k) => h[Place(i, c, k)] = 0
  BY <1>1, <1>2 DEF Shows, Exact, InRing
<1> HIDE DEF A, B, h
<1>8. s \in [A -> B]
  BY <1>1, <1>4, Places DEF B
<1>9. \A x \in A, y \in A : s[x] = s[y] => x = y
  BY <1>1, <1>4, Places
<1>10. \A y \in B : (\A x \in A : s[x] # y) => h[y] = 0
  <2> SUFFICES ASSUME NEW y \in B, \A x \in A : s[x] # y PROVE h[y] = 0
    OBVIOUS
  <2>1. PICK k \in Int : InRing(i, c, k) /\ Place(i, c, k) = y
    BY <1>1, Places DEF B
  <2>2. k \notin A
    BY <2>1
  <2>3. k < 0
    BY <2>1, <2>2, <1>5
  <2> QED
    BY <2>1, <2>3, <1>7
<1>11. \A x \in A : g[x] = h[s[x]]
  BY <1>6
<1>12. \A y \in B : h[y] \in Nat
  BY <1>2
<1> HIDE DEF s
<1>13. Sum(g, A) = Sum(h, B)
  BY <1>3, <1>8, <1>9, <1>10, <1>11, <1>12, SumRenamed
<1> QED
  BY <1>13, <1>2 DEF A

\* Counting adds one check to the tick of the present, and leaves the others.
LEMMA CountExact ==
    ASSUME NEW i \in DOMAIN Limits, NEW c, NEW g, NEW T \in 0 .. MaxTime, Shows(i, c, g, T),
           HasRoom(i, c), NEW d, d = Count(c)
    PROVE  Shows(i, d, [k \in 0 .. MaxTime |-> IF k = T THEN g[k] + 1 ELSE g[k]], T)
<1> DEFINE p == c.countpos
           a == c.counts
           h == [k \in 0 .. MaxTime |-> IF k = T THEN g[k] + 1 ELSE g[k]]
<1>1. c \in Entries(i) /\ c.last = T /\ T \in Int /\ T >= 0 /\ MaxTime \in Nat /\ NCounts(i) \in Nat \ {0}
  BY RateAssumption, Ring DEF Shows
<1>2. d \in Entries(i)
  BY <1>1, CountIsEntry
<1>3. /\ d.last = T /\ d.countpos = p /\ a \in [Ticks(i) -> Nat]
      /\ \A y \in Ticks(i) : d.counts[y] = IF y = p THEN a[y] + 1 ELSE a[y]
  <2> DEFINE q == [a EXCEPT ![p] = @ + 1]
  <2>1. a \in [Ticks(i) -> Nat] /\ p \in Ticks(i)
        /\ c \in [last : 0 .. Wrap - 1, total : Nat, countpos : Ticks(i), counts : [Ticks(i) -> Nat]]
    BY <1>1 DEF Entries
  <2>2. \A y \in Ticks(i) : q[y] = IF y = p THEN a[y] + 1 ELSE a[y]
    BY <2>1
  <2>3. d = [[c EXCEPT !.total = @ + 1] EXCEPT !.counts = q]
    BY <2>1 DEF Count
  <2> HIDE DEF q
  <2>4. d.last = c.last /\ d.countpos = c.countpos /\ d.counts = q
    BY <2>1, <2>3
  <2> QED
    BY <1>1, <2>1, <2>2, <2>4
<1>4. \A k \in Int : Place(i, d, k) = Place(i, c, k)
  BY <1>1, <1>3 DEF Place
<1>5. Place(i, c, T) = p
  BY <1>1, Places
<1>6. InRing(i, c, T) /\ \A k \in Win(i, T) : k \in Int /\ InRing(i, c, k) /\ k \in 0 .. MaxTime
  BY <1>1 DEF InRing, Win
<1> HIDE DEF p, a
<1>7. ASSUME NEW k \in Int, InRing(i, c, k)
      PROVE  d.counts[Place(i, d, k)] = IF k = T THEN a[Place(i, c, k)] + 1 ELSE a[Place(i, c, k)]
  <2> DEFINE y == Place(i, c, k)
  <2>1. y \in Ticks(i) /\ Place(i, d, k) = y
    BY <1>1, <1>4, Places
  <2>2. y = p <=> k = T
    BY <1>1, <1>5, <1>6, <1>7, Places
  <2> HIDE DEF y
  <2>3. d.counts[y] = IF k = T THEN a[y] + 1 ELSE a[y]
    BY <2>1, <2>2, <1>3
  <2> QED
    BY <2>1, <2>3 DEF y
<1>8. \A k \in Win(i, T) : d.counts[Place(i, d, k)] = h[k]
  <2> TAKE k \in Win(i, T)
  <2>1. a[Place(i, c, k)] = g[k]
    BY DEF Shows, a
  <2> QED
    BY <2>1, <1>6, <1>7
<1>9. \A k \in Int : k < 0 /\ d.last < k + NCounts(i) => d.counts[Place(i, d, k)] = 0
  <2> SUFFICES ASSUME NEW k \in Int, k < 0, T < k + NCounts(i) PROVE d.counts[Place(i, d, k)] = 0
    BY <1>3
  <2>1. InRing(i, c, k) /\ k # T
    BY <1>1 DEF InRing
  <2>2. a[Place(i, c, k)] = 0
    BY <1>1, EntryIsOne DEF Shows, Exact, a
  <2> QED
    BY <2>1, <2>2, <1>7
<1>10. Exact(i, d, T)
  <2>1. d.last <= T
    BY <1>1, <1>3
  <2> QED
    BY <2>1, <1>2, <1>9 DEF Exact
<1> HIDE DEF h
<1>11. Shows(i, d, h, T)
  BY <1>2, <1>3, <1>8, <1>10 DEF Shows
<1> QED
  BY <1>11 DEF h

\* What is shown of an entry that was just turned.
LEMMA ShowsLog ==
    ASSUME NEW i \in DOMAIN Limits, NEW c, NEW g, NEW T \in Nat, Shows(i, c, g, T)
    PROVE  RingAt(i, c, T) = [k \in 0 .. MaxTime |-> IF k \in Win(i, T) THEN g[k] ELSE 0]
<1>1. c # NoEntry /\ c.last = T /\ NCounts(i) \in Nat /\ MaxTime \in Nat
  BY EntryIsOne, Ring, RateAssumption DEF Shows
<1>2. ASSUME NEW k \in 0 .. MaxTime
      PROVE  RingAt(i, c, T)[k] = IF k \in Win(i, T) THEN g[k] ELSE 0
  <2>1. CASE k \in Win(i, T)
    <3>1. k <= T /\ k + NCounts(i) > T /\ k \in Int
      BY <2>1, <1>1 DEF Win
    <3>2. RingAt(i, c, T)[k] = c.counts[Place(i, c, k)]
      BY <3>1, <1>1 DEF RingAt
    <3> QED
      BY <3>2, <2>1 DEF Shows
  <2>2. CASE k \notin Win(i, T)
    <3>1. k > T \/ k + NCounts(i) <= T
      BY <2>2, <1>1 DEF Win
    <3> QED
      BY <3>1, <2>2, <1>1 DEF RingAt
  <2> QED
    BY <2>1, <2>2
<1> QED
  BY <1>2 DEF RingAt

\* f at tick T shows what e showed at tick T1, without what has left the window.
MovesOn(i, e, T1, f, T) ==
    /\ Exact(i, f, T)
    /\ RingAt(i, f, T) = [k \in 0 .. MaxTime |-> IF k \in Win(i, T) THEN RingAt(i, e, T1)[k] ELSE 0]

\* What is left of another entry when the window moves on: what is purged was empty.
LEMMA OtherLog ==
    ASSUME NEW i \in DOMAIN Limits, NEW e, NEW T1 \in Nat, NEW T \in Nat, T1 <= T, T < Wrap,
           Exact(i, e, T1), NEW f, f = IF Expired(i, e, T) THEN NoEntry ELSE e
    PROVE  MovesOn(i, e, T1, f, T)
<1>n. NCounts(i) \in Nat /\ MaxTime \in Nat
  BY Ring, RateAssumption
<1>1. CASE e = NoEntry
  <2>1. f = NoEntry
    BY <1>1
  <2> QED
    BY <1>1, <2>1 DEF Exact, RingAt, MovesOn
<1>2. CASE e # NoEntry
  <2>1. e \in Entries(i) /\ e.last <= T1 /\ e.last \in Int
    BY <1>2 DEF Exact, Entries
  <2>2. Exact(i, f, T)
    <3>1. CASE Expired(i, e, T)
      BY <3>1 DEF Exact
    <3>2. CASE ~Expired(i, e, T)
      <4>1. f = e /\ e.last <= T
        BY <3>2, <2>1
      <4> QED
        BY <4>1 DEF Exact
    <3> QED
      BY <3>1, <3>2
  <2>3. ASSUME NEW k \in 0 .. MaxTime
        PROVE  RingAt(i, f, T)[k] = IF k \in Win(i, T) THEN RingAt(i, e, T1)[k] ELSE 0
    <3>k. k \in Int
      BY <1>n
    <3>1. CASE k \notin Win(i, T)
      <4>1. k > T \/ k + NCounts(i) <= T
        BY <3>1, <1>n DEF Win
      <4>2. CASE k + NCounts(i) <= T
        BY <4>2, <3>1 DEF RingAt
      <4>3. CASE k > T
        <5>1. f = NoEntry \/ k > f.last
          BY <4>3, <2>1, <3>k
        <5> QED
          BY <5>1, <3>1 DEF RingAt
      <4> QED
        BY <4>1, <4>2, <4>3
    <3>2. CASE k \in Win(i, T) /\ Expired(i, e, T)
      <4>1. k + NCounts(i) > T /\ T - e.last >= NCounts(i)
        BY <3>2 DEF Win, Expired
      <4>2. k > e.last
        BY <4>1, <2>1, <1>n, <3>k
      <4>3. f = NoEntry
        BY <3>2
      <4> QED
        BY <3>2, <4>2, <4>3 DEF RingAt
    <3>3. CASE k \in Win(i, T) /\ ~Expired(i, e, T)
      <4>1. f = e
        BY <3>3
      <4>2. ~(k + NCounts(i) <= T) /\ ~(k + NCounts(i) <= T1)
        BY <3>3, <1>n, <3>k DEF Win
      <4> QED
        BY <3>3, <4>1, <4>2 DEF RingAt
    <3> QED
      BY <3>1, <3>2, <3>3
  <2> QED
    BY <2>2, <2>3 DEF RingAt, MovesOn
<1> QED
  BY <1>1, <1>2

\* Within the run the ticks fit into 16 bits.
ShortRun == \A i \in DOMAIN Limits : Tick(i, MaxTime) < Wrap

LEMMA TickSmall ==
    ASSUME ShortRun, NEW i \in DOMAIN Limits, NEW s \in 0 .. MaxTime
    PROVE  Tick(i, s) \in 0 .. MaxTime /\ Tick(i, s) < Wrap /\ Tick(i, s) % Wrap = Tick(i, s)
<1> DEFINE T == Tick(i, s)
           R == Res(i)
<1>1. s \in Nat /\ MaxTime \in Nat /\ s <= MaxTime /\ R \in Nat \ {0} /\ Wrap \in Nat \ {0}
  BY RateAssumption, Ring
<1>2. T \in Nat /\ R * T \in Int /\ R * T <= s
  BY <1>1, TickIs
<1>3. T < Wrap
  <2>1. T <= Tick(i, MaxTime) /\ Tick(i, MaxTime) < Wrap /\ Tick(i, MaxTime) \in Nat
    BY <1>1, TickMono, TickIs DEF ShortRun
  <2> QED
    BY <2>1, <1>1, <1>2
<1> HIDE DEF T, R
<1>4. T <= R * T
  <2>1. R * T = (R - 1) * T + T /\ R - 1 \in Nat
    BY <1>1, <1>2
  <2>2. (R - 1) * T \in Nat
    BY <2>1, <1>2
  <2> QED
    BY <2>1, <2>2, <1>2
<1>5. T \in 0 .. MaxTime
  BY <1>1, <1>2, <1>4
<1>6. T \in 0 .. Wrap - 1
  BY <1>1, <1>2, <1>3
<1>7. T % Wrap = T
  BY <1>1, <1>6, ModSmall
<1> QED
  BY <1>3, <1>5, <1>7 DEF T

AllExact == \A i \in DOMAIN Limits, x \in Ids : Exact(i, entries[i][x], Tick(i, clock))

LEMMA CheckIsWindow ==
    ASSUME ShortRun, NEW t \in Threads, InOrder, AllExact, Check(t)
    PROVE  AllExact' /\ Window!Check(call[t].id, call[t].ts)
<1> DEFINE x == call[t].id
           sec == call[t].ts
           T1(i) == Tick(i, clock)
           T(i) == Tick(i, sec)
           cur(i) == Current(i, x, sec)
           Old(i, y) == RingAt(i, entries[i][y], T1(i))
           New(i, y) == [k \in 0 .. MaxTime |->
                           IF k \notin Win(i, T(i)) THEN 0
                           ELSE IF y = x /\ k = T(i) /\ HasRoom(i, cur(i)) THEN Old(i, y)[k] + 1
                           ELSE Old(i, y)[k]]
<1>1. /\ call[t] # NoCall /\ entries' = [i \in DOMAIN Limits |-> CheckLimit(i, x, sec)]
      /\ clock' = sec /\ verdict' = <<x, sec, \A i \in DOMAIN Limits : HasRoom(i, cur(i))>>
  BY DEF Check
<1>2. x \in Ids /\ sec \in 0 .. MaxTime /\ clock \in 0 .. MaxTime /\ clock <= sec
      /\ sec \in Nat /\ clock \in Nat
  <2>1. call[t] \in [id : Ids, ts : 0 .. MaxTime]
    BY <1>1 DEF InOrder, Calls
  <2>2. clock <= sec /\ clock \in 0 .. time /\ time \in 0 .. MaxTime /\ MaxTime \in Nat
    BY <1>1, RateAssumption DEF InOrder
  <2> QED
    BY <2>1, <2>2
<1> HIDE DEF x, sec
<1>t. ASSUME NEW i \in DOMAIN Limits
      PROVE  /\ T1(i) \in Nat /\ T1(i) < Wrap /\ T(i) \in 0 .. MaxTime /\ T(i) \in Nat
             /\ T(i) < Wrap /\ T(i) % Wrap = T(i) /\ T1(i) <= T(i)
  BY <1>2, TickSmall, TickIs, TickMono
<1>c. ASSUME NEW i \in DOMAIN Limits PROVE Shows(i, cur(i), Old(i, x), T(i))
  <2> DEFINE e == entries[i][x]
             c == cur(i)
  <2>1. Exact(i, e, T1(i))
    BY <1>2 DEF AllExact
  <2>2. c = Turning(i, e, T(i))
    <3>1. c = Turning(i, e, T(i) % Wrap)
      BY DEF Current, Turning, Tick
    <3> QED
      BY <3>1, <1>t
  <2> HIDE DEF e, c, T1, T
  <2>3. Shows(i, c, RingAt(i, e, T1(i)), T(i))
    BY <2>1, <2>2, <1>t, TurnExact
  <2> QED
    BY <2>3 DEF e, c
<1>o. ASSUME NEW i \in DOMAIN Limits, NEW y \in Ids
      PROVE  RingLog(i, y) = Old(i, y)
  <2> DEFINE e == entries[i][y]
  <2>1. RingLog(i, y) = LogOf(i, e, T1(i))
    BY DEF RingLog, LastTick, LogOf, Tick
  <2>2. Exact(i, e, T1(i))
    BY DEF AllExact
  <2> HIDE DEF e, T1
  <2>3. LogOf(i, e, T1(i)) = RingAt(i, e, T1(i))
    BY <2>2, <1>t, LogIs
  <2> QED
    BY <2>1, <2>3 DEF e
<1>e. ASSUME NEW i \in DOMAIN Limits
      PROVE  /\ entries'[i][x] = IF HasRoom(i, cur(i)) THEN Count(cur(i)) ELSE cur(i)
             /\ \A y \in Ids : y # x =>
                  entries'[i][y] = IF Expired(i, entries[i][y], T(i)) THEN NoEntry ELSE entries[i][y]
  <2>1. entries'[i] = CheckLimit(i, x, sec)
    BY <1>1
  <2>2. (sec \div Res(i)) % Wrap = T(i)
    BY <1>t DEF Tick
  <2> QED
    BY <2>1, <2>2, <1>2 DEF CheckLimit
<1> HIDE DEF T, T1, cur
<1>3. ASSUME NEW i \in DOMAIN Limits, NEW y \in Ids
      PROVE  Exact(i, entries'[i][y], T(i)) /\ RingAt(i, entries'[i][y], T(i)) = New(i, y)
  <2> DEFINE g == Old(i, y)
             f == entries'[i][y]
  <2>1. CASE y = x /\ HasRoom(i, cur(i))
    <3> DEFINE h == [k \in 0 .. MaxTime |-> IF k = T(i) THEN g[k] + 1 ELSE g[k]]
               c == cur(i)
    <3>1. f = Count(c) /\ Shows(i, c, g, T(i)) /\ HasRoom(i, c)
      BY <2>1, <1>e, <1>c
    <3> HIDE DEF g, f, c
    <3>2. Shows(i, f, h, T(i))
      BY <3>1, <1>t, CountExact
    <3> HIDE DEF h
    <3>3. RingAt(i, f, T(i)) = [k \in 0 .. MaxTime |-> IF k \in Win(i, T(i)) THEN h[k] ELSE 0]
      BY <3>2, <1>t, ShowsLog
    <3>4. [k \in 0 .. MaxTime |-> IF k \in Win(i, T(i)) THEN h[k] ELSE 0] = New(i, y)
      <4>1. \A k \in 0 .. MaxTime : (IF k \in Win(i, T(i)) THEN h[k] ELSE 0) =
                                    IF k \notin Win(i, T(i)) THEN 0
                                    ELSE IF y = x /\ k = T(i) /\ HasRoom(i, cur(i)) THEN g[k] + 1
                                    ELSE g[k]
        BY <2>1 DEF h
      <4> QED
        BY <4>1 DEF g
    <3>5. Exact(i, f, T(i))
      BY <3>2 DEF Shows
    <3> QED
      BY <3>3, <3>4, <3>5 DEF f
  <2>2. CASE y = x /\ ~HasRoom(i, cur(i))
    <3>1. f = cur(i) /\ Shows(i, cur(i), g, T(i))
      BY <2>2, <1>e, <1>c
    <3> HIDE DEF g, f
    <3>2. RingAt(i, f, T(i)) = [k \in 0 .. MaxTime |-> IF k \in Win(i, T(i)) THEN g[k] ELSE 0]
      BY <3>1, <1>t, ShowsLog
    <3>3. Exact(i, f, T(i))
      BY <3>1 DEF Shows
    <3> QED
      BY <2>2, <3>2, <3>3 DEF f, g
  <2>3. CASE y # x
    <3> DEFINE e == entries[i][y]
    <3>1. f = IF Expired(i, e, T(i)) THEN NoEntry ELSE e
      BY <2>3, <1>e
    <3>2. Exact(i, e, T1(i))
      BY DEF AllExact, T1
    <3> HIDE DEF e, f
    <3>3. /\ Exact(i, f, T(i))
          /\ RingAt(i, f, T(i)) =
               [k \in 0 .. MaxTime |-> IF k \in Win(i, T(i)) THEN RingAt(i, e, T1(i))[k] ELSE 0]
      <4>1. T1(i) \in Nat /\ T(i) \in Nat /\ T1(i) <= T(i) /\ T(i) < Wrap
        BY <1>t
      <4> DEFINE a == T1(i)
                 b == T(i)
      <4>2. /\ a \in Nat /\ b \in Nat /\ a <= b /\ b < Wrap /\ Exact(i, e, a)
            /\ f = IF Expired(i, e, b) THEN NoEntry ELSE e
        BY <4>1, <3>1, <3>2
      <4> HIDE DEF a, b
      <4>3. MovesOn(i, e, a, f, b)
        BY <4>2, OtherLog
      <4> QED
        BY <4>3 DEF a, b, MovesOn
    <3> QED
      BY <2>3, <3>3 DEF e, f
  <2> QED
    BY <2>1, <2>2, <2>3
<1>4. AllExact'
  BY <1>1, <1>3 DEF AllExact, T
<1>5. ASSUME NEW i \in DOMAIN Limits, NEW y \in Ids
      PROVE  RingLog(i, y)' = New(i, y)
  <2> DEFINE f == entries'[i][y]
  <2>1. RingLog(i, y)' = LogOf(i, f, T(i))
    BY <1>1 DEF RingLog, LastTick, LogOf, Tick, T
  <2>2. Exact(i, f, T(i)) /\ RingAt(i, f, T(i)) = New(i, y)
    BY <1>3
  <2> HIDE DEF f, New
  <2>3. LogOf(i, f, T(i)) = RingAt(i, f, T(i))
    BY <2>2, <1>t, LogIs
  <2> QED
    BY <2>1, <2>2, <2>3
<1>6. ASSUME NEW i \in DOMAIN Limits PROVE Window!Room(i, x, sec) <=> HasRoom(i, cur(i))
  <2> DEFINE g == Old(i, x)
             c == cur(i)
  <2>1. Window!Counted(i, x, sec) = Sum(g, Win(i, T(i)))
    BY <1>2, <1>o, CountedIs DEF T
  <2>2. Shows(i, c, g, T(i))
    BY <1>c
  <2> HIDE DEF g, c
  <2>3. Sum(g, Win(i, T(i))) = c.total
    BY <2>2, <1>t, TotalIs
  <2> QED
    BY <2>1, <2>3 DEF Window!Room, HasRoom, c
<1>7. \A i \in DOMAIN Limits : Window!Window(i, sec) = Win(i, T(i)) /\ sec \div Res(i) = T(i)
  BY WindowIs DEF T, Tick
<1> HIDE DEF Old, New
<1>8. [i \in DOMAIN Limits |-> [y \in Ids |-> RingLog(i, y)']] =
      [i \in DOMAIN Limits |-> [y \in Ids |-> New(i, y)]]
  BY <1>5
<1> DEFINE Rhs(i, y) == [k \in 0 .. MaxTime |->
                           IF k \notin Window!Window(i, sec) THEN 0
                           ELSE IF y = x /\ k = sec \div Res(i) /\ Window!Room(i, x, sec)
                           THEN RingLog(i, y)[k] + 1 ELSE RingLog(i, y)[k]]
<1>9. ASSUME NEW i \in DOMAIN Limits, NEW y \in Ids PROVE New(i, y) = Rhs(i, y)
  BY <1>6, <1>7, <1>o DEF New
<1>10. [i \in DOMAIN Limits |-> [y \in Ids |-> RingLog(i, y)']] =
       [i \in DOMAIN Limits |-> [y \in Ids |-> Rhs(i, y)]]
  <2> HIDE DEF Rhs
  <2> QED
    BY <1>8, <1>9
<1>11. verdict' = <<x, sec, \A i \in DOMAIN Limits : Window!Room(i, x, sec)>>
  BY <1>1, <1>6
<1>12. Window!Check(x, sec)
  BY <1>1, <1>2, <1>10, <1>11 DEF Window!Check
<1> QED
  BY <1>4, <1>12 DEF x, sec

LEMMA QuietIsWindow ==
    ASSUME AllExact, entries' = entries, clock' = clock, verdict' = verdict
    PROVE  AllExact' /\ UNCHANGED Window!wvars
<1>1. AllExact'
  BY DEF AllExact
<1>2. \A i \in DOMAIN Limits, x \in Ids : RingLog(i, x)' = RingLog(i, x)
  BY DEF RingLog, LastTick
<1>3. [i \in DOMAIN Limits |-> [x \in Ids |-> RingLog(i, x)']] =
      [i \in DOMAIN Limits |-> [x \in Ids |-> RingLog(i, x)]]
  BY <1>2
<1> QED
  BY <1>1, <1>3 DEF Window!wvars

\* The rings of checkLimit() implement the sliding window that WindowLimit states: for
\* all limits, ids and callers with a lock, every check is granted or refused, and every
\* limit counts, as if it looked at the last ticks only.  Turning late, purging entries
\* and using counters again do not show, as long as the clock stays within the 2^16
\* ticks of a uint16_t.
THEOREM ImplementsWindowCorrect == CallerLock /\ ShortRun => (Spec => ImplementsWindow)
<1> SUFFICES ASSUME CallerLock, ShortRun PROVE Spec => ImplementsWindow
  OBVIOUS
<1> DEFINE Inv == Counted /\ AllExact
<1>1. Init => Inv /\ Window!Init
  <2> SUFFICES ASSUME Init PROVE Inv /\ Window!Init
    OBVIOUS
  <2>1. \A i \in DOMAIN Limits, x \in Ids : entries[i][x] = NoEntry
    BY DEF Init
  <2>2. \A i \in DOMAIN Limits, x \in Ids : RingLog(i, x) = [k \in 0 .. MaxTime |-> 0]
    BY <2>1 DEF RingLog
  <2>3. [i \in DOMAIN Limits |-> [x \in Ids |-> RingLog(i, x)]] =
        [i \in DOMAIN Limits |-> [x \in Ids |-> [k \in 0 .. MaxTime |-> 0]]]
    BY <2>2
  <2>4. Window!Init
    BY <2>3 DEF Init, Window!Init, Window!NoVerdict, NoVerdict
  <2>5. AllExact
    BY <2>1 DEF AllExact, Exact
  <2> QED
    BY <2>4, <2>5, CountedInit
<1>2. Inv /\ [Next]_rvars => Inv' /\ [Window!Next]_(Window!wvars)
  <2> SUFFICES ASSUME Counted, AllExact, [Next]_rvars
               PROVE  Counted' /\ AllExact' /\ [Window!Next]_(Window!wvars)
    OBVIOUS
  <2>1. CASE \E t \in Threads, x \in Ids : ReadClock(t, x)
    <3>1. PICK t \in Threads, x \in Ids : ReadClock(t, x)
      BY <2>1
    <3>2. Counted'
      BY <3>1, ReadClockCounted
    <3>3. entries' = entries /\ clock' = clock /\ verdict' = verdict
      BY <3>1 DEF ReadClock
    <3> QED
      BY <3>2, <3>3, QuietIsWindow
  <2>2. CASE \E t \in Threads : Check(t)
    <3>1. PICK t \in Threads : Check(t)
      BY <2>2
    <3>2. Counted' /\ InOrder
      BY <3>1, CheckCounted DEF Counted
    <3>3. AllExact' /\ Window!Check(call[t].id, call[t].ts)
      BY <3>1, <3>2, CheckIsWindow
    <3>4. call[t].id \in Ids /\ call[t].ts \in 0 .. MaxTime
      BY <3>1, <3>2 DEF InOrder, Calls, Check
    <3>5. Window!Next
      BY <3>3, <3>4 DEF Window!Next
    <3> QED
      BY <3>2, <3>3, <3>5
  <2>3. CASE Elapse
    <3>1. Counted'
      BY <2>3, ElapseCounted
    <3>2. entries' = entries /\ clock' = clock /\ verdict' = verdict
      BY <2>3 DEF Elapse
    <3> QED
      BY <3>1, <3>2, QuietIsWindow
  <2>4. CASE UNCHANGED rvars
    <3>1. Counted'
      BY <2>4 DEF rvars, Counted, InOrder, AllKnown, Within
    <3>2. entries' = entries /\ clock' = clock /\ verdict' = verdict
      BY <2>4 DEF rvars
    <3> QED
      BY <3>1, <3>2, QuietIsWindow
  <2> QED
    BY <2>1, <2>2, <2>3, <2>4 DEF Next
<1> QED
  BY <1>1, <1>2, PTL DEF Spec, ImplementsWindow, Window!Spec

=============================================================================
