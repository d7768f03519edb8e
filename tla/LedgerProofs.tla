---------------------------- MODULE LedgerProofs ----------------------------
(***************************************************************************)
(* What rounding to a column preserves, and what changes a sum over a       *)
(* table's rows.                                                            *)
(***************************************************************************)
EXTENDS Ledger, FiniteSetTheorems, TLAPS

\* Integer division, the way the proofs below use it.
LEMMA DivIsNat ==
    ASSUME NEW a \in Nat, NEW b \in Nat \ {0}
    PROVE  /\ a \div b \in Nat
           /\ b * (a \div b) <= a
           /\ a < b * (a \div b) + b
BY Z3

\* The product of two natural numbers is one.
LEMMA TimesNat ==
    ASSUME NEW a \in Nat, NEW b \in Nat
    PROVE  a * b \in Nat
BY Z3

\* A quotient is the only number its bounds allow.
LEMMA DivUnique ==
    ASSUME NEW a \in Nat, NEW b \in Nat \ {0}, NEW c \in Nat,
           b * c <= a, a < b * c + b
    PROVE  a \div b = c
BY Z3

\* Division by a positive number keeps the order.
LEMMA DivMonotone ==
    ASSUME NEW x \in Nat, NEW y \in Nat, x <= y, NEW b \in Nat \ {0}
    PROVE  x \div b <= y \div b
<1> DEFINE c == x \div b
           d == y \div b
<1>1. c \in Nat /\ d \in Nat /\ b * c <= x /\ y < b * d + b
  BY DivIsNat
<1> HIDE DEF c, d
<1>2. b * c < b * (d + 1)
  BY <1>1, TimesNat, b * (d + 1) = b * d + b
<1>3. c < d + 1
  <2>1. SUFFICES ASSUME d + 1 <= c PROVE FALSE
    BY <1>1
  <2>2. PICK e \in Nat : c = (d + 1) + e
    BY <1>1, <2>1, c - (d + 1) \in Nat
  <2>3. b * c = b * (d + 1) + b * e /\ b * e \in Nat
    BY <1>1, <2>2, TimesNat
  <2> QED
    BY <1>1, <1>2, <2>3, TimesNat
<1> QED
  BY <1>1, <1>3 DEF c, d

\* A non-negative value stays non-negative when a column rounds it.
LEMMA RoundToNat ==
    ASSUME NEW x \in Nat, NEW grid \in Nat \ {0}
    PROVE  RoundTo(x, grid) \in Nat
<1>1. (2 * x + grid) \div (2 * grid) \in Nat
  BY 2 * x + grid \in Nat, 2 * grid \in Nat \ {0}, DivIsNat
<1> QED
  BY <1>1, TimesNat DEF RoundTo

\* What a column holds already, it holds unchanged.
LEMMA RoundToIdempotent ==
    ASSUME NEW x \in Nat, NEW grid \in Nat \ {0}
    PROVE  RoundTo(RoundTo(x, grid), grid) = RoundTo(x, grid)
<1> DEFINE k == (2 * x + grid) \div (2 * grid)
<1>1. k \in Nat
  BY 2 * x + grid \in Nat, 2 * grid \in Nat \ {0}, DivIsNat
<1>2. RoundTo(x, grid) = grid * k /\ grid * k \in Nat
  BY <1>1, TimesNat DEF RoundTo
<1> HIDE DEF k
<1>3. (2 * (grid * k) + grid) \div (2 * grid) = k
  <2>1. (2 * grid) * k = 2 * (grid * k)
    BY <1>1
  <2> QED
    BY <1>1, <1>2, <2>1, DivUnique, 2 * (grid * k) + grid \in Nat, 2 * grid \in Nat \ {0}
<1> QED
  BY <1>2, <1>3 DEF RoundTo

\* Rounding keeps the order of two prices.
LEMMA RoundToMonotone ==
    ASSUME NEW x \in Nat, NEW y \in Nat, x <= y, NEW grid \in Nat \ {0}
    PROVE  RoundTo(x, grid) <= RoundTo(y, grid)
<1> DEFINE k == (2 * x + grid) \div (2 * grid)
           l == (2 * y + grid) \div (2 * grid)
<1>1. k \in Nat /\ l \in Nat /\ k <= l
  <2>1. 2 * x + grid \in Nat /\ 2 * y + grid \in Nat /\ 2 * grid \in Nat \ {0}
        /\ 2 * x + grid <= 2 * y + grid
    OBVIOUS
  <2> QED
    BY <2>1, DivIsNat, DivMonotone
<1>2. RoundTo(x, grid) = grid * k /\ RoundTo(y, grid) = grid * l
  BY DEF RoundTo
<1> HIDE DEF k, l
<1>3. grid * k <= grid * l
  <2>1. PICK e \in Nat : l = k + e
    BY <1>1, l - k \in Nat
  <2>2. grid * l = grid * k + grid * e /\ grid * e \in Nat /\ grid * k \in Nat
    BY <1>1, <2>1, TimesNat
  <2> QED
    BY <2>2
<1> QED
  BY <1>2, <1>3

\* The columns of the ledger.
LEMMA StoredInputNat ==
    ASSUME NEW x \in Nat
    PROVE  /\ StoredInput(x) \in Nat
           /\ StoredInput(StoredInput(x)) = StoredInput(x)
BY ScaleAssumption, RoundToNat, RoundToIdempotent DEF StoredInput

\* The price columns keep the order of two prices.
LEMMA StoredInputMonotone ==
    ASSUME NEW x \in Nat, NEW y \in Nat, x <= y
    PROVE  StoredInput(x) <= StoredInput(y)
BY ScaleAssumption, RoundToMonotone DEF StoredInput

\* A wallet column keeps a non-negative amount non-negative.
LEMMA StoredAmountNat ==
    ASSUME NEW x \in Nat
    PROVE  StoredAmount(x) \in Nat
<1>1. Scale * Grid \in Nat \ {0}
  BY ScaleAssumption, Z3
<1> QED
  BY <1>1, RoundToNat DEF StoredAmount

\* A wallet column keeps an integer an integer.
LEMMA StoredAmountInt ==
    ASSUME NEW x \in Int
    PROVE  StoredAmount(x) \in Int
<1>1. CASE x >= 0
  BY <1>1, x \in Nat, StoredAmountNat
<1>2. CASE ~(x >= 0)
  <2>1. -x \in Nat
    BY <1>2
  <2>2. StoredAmount(-x) \in Nat
    BY <2>1, StoredAmountNat
  <2>3. StoredAmount(x) = -StoredAmount(-x)
    BY <1>2, <2>1 DEF StoredAmount, RoundTo
  <2> QED
    BY <2>2, <2>3
<1> QED
  BY <1>1, <1>2

\* With exact columns nothing is rounded.
LEMMA ExactStored ==
    ASSUME ExactColumns, NEW x \in Int
    PROVE  StoredInput(x) = x /\ StoredAmount(x) = x
BY Z3 DEF ExactColumns, StoredInput, StoredAmount, RoundTo

\* With Grid = 1 every quantity and every price fits its column.
LEMMA GridStored ==
    ASSUME Grid = 1, NEW x \in Int
    PROVE  StoredInput(x) = x
BY Z3 DEF StoredInput, RoundTo

\* By how much a column may round, in both directions together.
Unit == IF ExactColumns THEN 0 ELSE Scale * Grid

\* A column is off by half a unit at most.
LEMMA RoundingOff ==
    ASSUME NEW x \in Int
    PROVE  /\ Unit \in Nat /\ StoredAmount(x) \in Int
           /\ -Unit <= 2 * (StoredAmount(x) - x) /\ 2 * (StoredAmount(x) - x) <= Unit
<1>1. Scale * Grid \in Nat \ {0}
  BY ScaleAssumption, Z3
<1>2. ASSUME NEW y \in Nat, NEW grid \in Nat \ {0}
      PROVE  /\ RoundTo(y, grid) \in Nat
             /\ -grid <= 2 * (RoundTo(y, grid) - y) /\ 2 * (RoundTo(y, grid) - y) <= grid
  <2> DEFINE k == (2 * y + grid) \div (2 * grid)
  <2>1. k \in Nat /\ (2 * grid) * k <= 2 * y + grid /\ 2 * y + grid < (2 * grid) * k + 2 * grid
    BY 2 * y + grid \in Nat, 2 * grid \in Nat \ {0}, DivIsNat
  <2>2. RoundTo(y, grid) = grid * k /\ grid * k \in Nat
    BY <2>1, TimesNat DEF RoundTo
  <2> HIDE DEF k
  <2>3. (2 * grid) * k = 2 * (grid * k)
    BY <2>1
  <2> QED BY <2>1, <2>2, <2>3
<1>3. CASE ExactColumns
  BY <1>3, ExactStored DEF Unit
<1>4. CASE ~ExactColumns /\ x >= 0
  BY <1>1, <1>2, <1>4 DEF Unit, StoredAmount
<1>5. CASE ~ExactColumns /\ ~(x >= 0)
  <2>1. -x \in Nat /\ Unit = Scale * Grid
    BY <1>5 DEF Unit
  <2>2. StoredAmount(x) = -RoundTo(-x, Unit)
    BY <1>5, <2>1 DEF StoredAmount, RoundTo
  <2> QED BY <1>1, <1>2, <2>1, <2>2
<1> QED BY <1>3, <1>4, <1>5

-----------------------------------------------------------------------------
(* Sums.  SumFunctionOnSet(f, S) adds up f[x] for the members x of a finite *)
(* S, by a recursion over S that takes out one member at a time.  The facts *)
(* below follow by induction over the size of S, as that of a smallest set  *)
(* they could fail for.                                                     *)

\* A set of numbers that is not empty has a least member.
LEMMA LeastNat ==
    ASSUME NEW T, T \subseteq Nat, T # {}
    PROVE  \E n \in T : \A m \in T : n <= m
<1> DEFINE less == {ss \in Nat \X Nat : ss[1] < ss[2]}
<1>1. IsWellFoundedOn(less, Nat)
  BY NatLessThanWellFounded DEF OpToRel
<1>2. PICK n \in T : \A m \in T : ~ (<<m, n>> \in less)
  BY <1>1, WFMin
<1>3. \A m \in T : ~(m < n)
  BY <1>2
<1> QED BY <1>3

\* Induction on the size of a finite set: sets that do not have what all smaller
\* ones have are not there.
LEMMA SmallestSet ==
    ASSUME NEW T, T # {}, \A s \in T : IsFiniteSet(s)
    PROVE  \E s \in T : \A t \in T : Cardinality(s) <= Cardinality(t)
<1> DEFINE sizes == {Cardinality(s) : s \in T}
<1>1. sizes \subseteq Nat /\ sizes # {}
  BY FS_CardinalityType
<1>2. PICK n \in sizes : \A m \in sizes : n <= m
  BY <1>1, LeastNat
<1>3. PICK s \in T : Cardinality(s) = n
  BY <1>2
<1> QED BY <1>2, <1>3

\* The element the fold takes next.
Pick(s) == CHOOSE x \in s : TRUE

\* g is the recursive function of the fold on the members of D.
SumsOn(f, D, g) ==
    g = [s \in D |-> IF s = {} THEN 0 ELSE f[Pick(s)] + g[s \ {Pick(s)}]]

UpTo(S, n) == {s \in SUBSET S : Cardinality(s) <= n}

LEMMA PickIn == ASSUME NEW s, s # {} PROVE Pick(s) \in s
BY DEF Pick

LEMMA UpToStep ==
    ASSUME NEW S, IsFiniteSet(S), NEW n \in Nat, NEW s \in UpTo(S, n + 1), s # {}
    PROVE  s \ {Pick(s)} \in UpTo(S, n)
<1>1. s \in SUBSET S /\ IsFiniteSet(s) /\ Cardinality(s) <= n + 1 /\ Cardinality(s) \in Nat
  BY FS_Subset, FS_CardinalityType DEF UpTo
<1>2. Cardinality(s \ {Pick(s)}) = Cardinality(s) - 1
  BY <1>1, PickIn, FS_RemoveElement
<1> QED BY <1>1, <1>2 DEF UpTo

\* The recursive function exists ...
LEMMA SumsExist ==
    ASSUME NEW f, NEW S, IsFiniteSet(S)
    PROVE  \E g : SumsOn(f, SUBSET S, g)
<1> DEFINE T == {n \in Nat : ~ \E g : SumsOn(f, UpTo(S, n), g)}
<1>1. ASSUME T # {} PROVE FALSE
  <2>1. PICK n \in T : \A m \in T : n <= m
    BY <1>1, LeastNat
  <2>2. CASE n = 0
    <3> DEFINE g == [s \in UpTo(S, 0) |-> 0]
    <3>1. \A s \in UpTo(S, 0) : s = {}
      BY FS_Subset, FS_CardinalityType, FS_EmptySet DEF UpTo
    <3>2. SumsOn(f, UpTo(S, 0), g)
      BY <3>1 DEF SumsOn
    <3> QED BY <2>1, <2>2, <3>2
  <2>3. CASE n # 0
    <3>1. n - 1 \in Nat /\ n - 1 \notin T
      BY <2>1, <2>3
    <3>2. PICK g : SumsOn(f, UpTo(S, n - 1), g)
      BY <3>1
    <3> DEFINE h == [s \in UpTo(S, n) |->
                        IF s = {} THEN 0 ELSE f[Pick(s)] + g[s \ {Pick(s)}]]
    <3>3. \A s \in UpTo(S, n - 1) : s \in UpTo(S, n) /\ h[s] = g[s]
      <4>1. \A s \in UpTo(S, n - 1) : s \in UpTo(S, n)
        BY <2>1, FS_Subset, FS_CardinalityType DEF UpTo
      <4>2. \A s \in UpTo(S, n - 1) : g[s] = IF s = {} THEN 0 ELSE f[Pick(s)] + g[s \ {Pick(s)}]
        BY <3>2, Zenon DEF SumsOn
      <4> QED BY <4>1, <4>2
    <3>4. \A s \in UpTo(S, n) : s # {} => s \ {Pick(s)} \in UpTo(S, n - 1)
      <4>1. n = (n - 1) + 1
        BY <3>1
      <4> QED BY <3>1, <4>1, UpToStep
    <3>5. SumsOn(f, UpTo(S, n), h)
      BY <3>3, <3>4 DEF SumsOn
    <3> QED BY <2>1, <3>5
  <2> QED BY <2>2, <2>3
<1>2. UpTo(S, Cardinality(S)) = SUBSET S /\ Cardinality(S) \in Nat
  BY FS_Subset, FS_CardinalityType DEF UpTo
<1>3. Cardinality(S) \notin T
  BY <1>1
<1>4. \E g : SumsOn(f, UpTo(S, Cardinality(S)), g)
  BY <1>2, <1>3
<1> QED BY <1>2, <1>4

\* ... and is the same on any two domains that have the set.
LEMMA SumsAgree ==
    ASSUME NEW f, NEW S, IsFiniteSet(S), NEW R \in SUBSET S, NEW g, NEW h,
           SumsOn(f, SUBSET S, g), SumsOn(f, SUBSET R, h)
    PROVE  g[R] = h[R]
<1> DEFINE T == {s \in SUBSET R : g[s] # h[s]}
<1>1. ASSUME T # {} PROVE FALSE
  <2>1. \A s \in T : IsFiniteSet(s)
    BY FS_Subset
  <2>2. PICK s \in T : \A t \in T : Cardinality(s) <= Cardinality(t)
    BY <1>1, <2>1, SmallestSet
  <2> DEFINE r == s \ {Pick(s)}
  <2>3. /\ g[s] = IF s = {} THEN 0 ELSE f[Pick(s)] + g[r]
        /\ h[s] = IF s = {} THEN 0 ELSE f[Pick(s)] + h[r]
    <3>1. s \in SUBSET S /\ s \in SUBSET R
      OBVIOUS
    <3> QED BY <3>1, Zenon DEF SumsOn
  <2>4. s # {} /\ r \notin T
    <3>1. s # {}
      BY <2>3
    <3>2. Cardinality(r) = Cardinality(s) - 1 /\ Cardinality(s) \in Nat
      BY <2>1, <3>1, PickIn, FS_RemoveElement, FS_CardinalityType
    <3> QED BY <2>2, <3>1, <3>2
  <2> QED BY <2>3, <2>4
<1> QED BY <1>1

\* The sum over no element is 0; over others, the fold takes one away.
LEMMA SumPick ==
    ASSUME NEW f, NEW S, IsFiniteSet(S)
    PROVE  SumFunctionOnSet(f, S) =
              IF S = {} THEN 0 ELSE f[Pick(S)] + SumFunctionOnSet(f, S \ {Pick(S)})
<1> DEFINE g == CHOOSE g : SumsOn(f, SUBSET S, g)
           R == S \ {Pick(S)}
           h == CHOOSE h : SumsOn(f, SUBSET R, h)
<1>1. SumFunctionOnSet(f, S) = g[S] /\ SumFunctionOnSet(f, R) = h[R]
  BY DEF SumFunctionOnSet, FoldFunctionOnSet, MapThenFoldSet, SumsOn, Pick
<1>2. IsFiniteSet(R)
  BY FS_RemoveElement
<1>3. SumsOn(f, SUBSET S, g) /\ SumsOn(f, SUBSET R, h)
  BY <1>2, SumsExist
<1> HIDE DEF g, h
<1>4. g[R] = h[R]
  BY <1>3, SumsAgree
<1>5. g[S] = IF S = {} THEN 0 ELSE f[Pick(S)] + g[R]
  <2>1. S \in SUBSET S
    OBVIOUS
  <2> QED BY <1>3, <2>1, Zenon DEF SumsOn
<1> QED BY <1>1, <1>4, <1>5

LEMMA SumEmpty ==
    ASSUME NEW f
    PROVE  SumFunctionOnSet(f, {}) = 0
BY SumPick, FS_EmptySet

\* A sum of integers is an integer.
LEMMA SumInt ==
    ASSUME NEW f, NEW S, IsFiniteSet(S), \A x \in S : f[x] \in Int
    PROVE  SumFunctionOnSet(f, S) \in Int
<1> DEFINE T == {s \in SUBSET S : SumFunctionOnSet(f, s) \notin Int}
<1>1. ASSUME T # {} PROVE FALSE
  <2>1. \A s \in T : IsFiniteSet(s)
    BY FS_Subset
  <2>2. PICK s \in T : \A t \in T : Cardinality(s) <= Cardinality(t)
    BY <1>1, <2>1, SmallestSet
  <2> DEFINE r == s \ {Pick(s)}
  <2>3. SumFunctionOnSet(f, s) = IF s = {} THEN 0 ELSE f[Pick(s)] + SumFunctionOnSet(f, r)
    BY <2>1, SumPick
  <2>4. s # {}
    BY <2>3
  <2>5. Cardinality(r) = Cardinality(s) - 1 /\ Cardinality(s) \in Nat
    BY <2>1, <2>4, PickIn, FS_RemoveElement, FS_CardinalityType
  <2>6. r \notin T /\ r \in SUBSET S
    BY <2>2, <2>5
  <2>7. f[Pick(s)] \in Int
    BY <2>4, PickIn
  <2>8. SumFunctionOnSet(f, r) \in Int
    BY <2>6
  <2> QED BY <2>3, <2>4, <2>7, <2>8
<1>2. S \notin T
  BY <1>1
<1> QED BY <1>2

\* The order of summation does not matter: any element may be taken away.
LEMMA SumRemove ==
    ASSUME NEW f, NEW S, IsFiniteSet(S), \A y \in S : f[y] \in Int, NEW x \in S
    PROVE  SumFunctionOnSet(f, S) = f[x] + SumFunctionOnSet(f, S \ {x})
<1> DEFINE Ok(s, y) == SumFunctionOnSet(f, s) = f[y] + SumFunctionOnSet(f, s \ {y})
           T == {s \in SUBSET S : \E y \in s : ~Ok(s, y)}
<1>1. ASSUME T # {} PROVE FALSE
  <2>1. \A s \in T : IsFiniteSet(s)
    BY FS_Subset
  <2>2. PICK s \in T : \A t \in T : Cardinality(s) <= Cardinality(t)
    BY <1>1, <2>1, SmallestSet
  <2>3. PICK y \in s : ~Ok(s, y)
    BY <2>2
  <2> DEFINE p == Pick(s)
             r == s \ {p}
             q == s \ {y}
  <2>4. s # {} /\ p \in s /\ IsFiniteSet(s)
    BY <2>1, <2>3, PickIn
  <2>5. SumFunctionOnSet(f, s) = f[p] + SumFunctionOnSet(f, r)
    BY <2>4, SumPick
  <2>6. p # y
    BY <2>3, <2>5
  <2>7. /\ IsFiniteSet(r) /\ IsFiniteSet(q)
        /\ Cardinality(r) = Cardinality(s) - 1 /\ Cardinality(q) = Cardinality(s) - 1
        /\ Cardinality(s) \in Nat
    BY <2>4, FS_RemoveElement, FS_CardinalityType
  <2>8. r \notin T /\ q \notin T
    BY <2>2, <2>7
  <2> HIDE DEF p
  <2>9. Ok(r, y) /\ Ok(q, p)
    BY <2>4, <2>6, <2>8
  <2>10. r \ {y} = q \ {p}
    OBVIOUS
  <2>11. f[p] \in Int /\ f[y] \in Int /\ SumFunctionOnSet(f, q \ {p}) \in Int
    <3>1. IsFiniteSet(q \ {p}) /\ \A z \in q \ {p} : f[z] \in Int
      BY <2>7, FS_RemoveElement
    <3> QED BY <2>4, <3>1, SumInt
  <2>12. /\ SumFunctionOnSet(f, r) = f[y] + SumFunctionOnSet(f, q \ {p})
         /\ SumFunctionOnSet(f, q) = f[p] + SumFunctionOnSet(f, q \ {p})
    BY <2>9, <2>10
  <2> HIDE DEF q, r
  <2>13. SumFunctionOnSet(f, s) = f[y] + SumFunctionOnSet(f, q)
    BY <2>5, <2>11, <2>12
  <2> QED BY <2>3, <2>13 DEF q
<1>2. S \notin T
  BY <1>1
<1> QED BY <1>2

\* Functions that agree on the set have one sum.
LEMMA SumSame ==
    ASSUME NEW f, NEW g, NEW S, IsFiniteSet(S), \A x \in S : f[x] = g[x]
    PROVE  SumFunctionOnSet(f, S) = SumFunctionOnSet(g, S)
<1> DEFINE T == {s \in SUBSET S : SumFunctionOnSet(f, s) # SumFunctionOnSet(g, s)}
<1>1. ASSUME T # {} PROVE FALSE
  <2>1. \A s \in T : IsFiniteSet(s)
    BY FS_Subset
  <2>2. PICK s \in T : \A t \in T : Cardinality(s) <= Cardinality(t)
    BY <1>1, <2>1, SmallestSet
  <2> DEFINE r == s \ {Pick(s)}
  <2>3. /\ SumFunctionOnSet(f, s) = IF s = {} THEN 0 ELSE f[Pick(s)] + SumFunctionOnSet(f, r)
        /\ SumFunctionOnSet(g, s) = IF s = {} THEN 0 ELSE g[Pick(s)] + SumFunctionOnSet(g, r)
    BY <2>1, SumPick
  <2>4. s # {}
    BY <2>3
  <2>5. Cardinality(r) = Cardinality(s) - 1 /\ Cardinality(s) \in Nat
    BY <2>1, <2>4, PickIn, FS_RemoveElement, FS_CardinalityType
  <2>6. r \notin T /\ r \in SUBSET S
    BY <2>2, <2>5
  <2>7. f[Pick(s)] = g[Pick(s)]
    BY <2>4, PickIn
  <2> QED BY <2>3, <2>4, <2>6, <2>7
<1>2. S \notin T
  BY <1>1
<1> QED BY <1>2

\* Changing one summand changes the sum by as much.
LEMMA SumChange ==
    ASSUME NEW f, NEW g, NEW S, IsFiniteSet(S), NEW x \in S,
           \A y \in S : f[y] \in Int /\ g[y] \in Int,
           \A y \in S \ {x} : g[y] = f[y]
    PROVE  SumFunctionOnSet(g, S) = SumFunctionOnSet(f, S) + (g[x] - f[x])
<1>1. /\ SumFunctionOnSet(f, S) = f[x] + SumFunctionOnSet(f, S \ {x})
      /\ SumFunctionOnSet(g, S) = g[x] + SumFunctionOnSet(g, S \ {x})
  BY SumRemove
<1>2. IsFiniteSet(S \ {x})
  BY FS_RemoveElement
<1>3. SumFunctionOnSet(g, S \ {x}) = SumFunctionOnSet(f, S \ {x})
  BY <1>2, SumSame
<1>4. SumFunctionOnSet(f, S \ {x}) \in Int
  BY <1>2, SumInt
<1> QED BY <1>1, <1>3, <1>4

\* A sum grows with its summands.
LEMMA SumMonotone ==
    ASSUME NEW f, NEW g, NEW S, IsFiniteSet(S),
           \A x \in S : f[x] \in Int /\ g[x] \in Int /\ f[x] <= g[x]
    PROVE  SumFunctionOnSet(f, S) <= SumFunctionOnSet(g, S)
<1> DEFINE T == {s \in SUBSET S : ~(SumFunctionOnSet(f, s) <= SumFunctionOnSet(g, s))}
<1>1. ASSUME T # {} PROVE FALSE
  <2>1. \A s \in T : IsFiniteSet(s)
    BY FS_Subset
  <2>2. PICK s \in T : \A t \in T : Cardinality(s) <= Cardinality(t)
    BY <1>1, <2>1, SmallestSet
  <2> DEFINE r == s \ {Pick(s)}
  <2>3. /\ SumFunctionOnSet(f, s) = IF s = {} THEN 0 ELSE f[Pick(s)] + SumFunctionOnSet(f, r)
        /\ SumFunctionOnSet(g, s) = IF s = {} THEN 0 ELSE g[Pick(s)] + SumFunctionOnSet(g, r)
    BY <2>1, SumPick
  <2>4. s # {}
    BY <2>3
  <2>5. Cardinality(r) = Cardinality(s) - 1 /\ Cardinality(s) \in Nat /\ IsFiniteSet(r)
    BY <2>1, <2>4, PickIn, FS_RemoveElement, FS_CardinalityType
  <2>6. r \notin T /\ r \in SUBSET S
    BY <2>2, <2>5
  <2>7. f[Pick(s)] \in Int /\ g[Pick(s)] \in Int /\ f[Pick(s)] <= g[Pick(s)]
    BY <2>4, PickIn
  <2>8. SumFunctionOnSet(f, r) \in Int /\ SumFunctionOnSet(g, r) \in Int
    BY <2>5, <2>6, SumInt
  <2>9. SumFunctionOnSet(f, r) <= SumFunctionOnSet(g, r)
    BY <2>6
  <2> QED BY <2>3, <2>4, <2>7, <2>8, <2>9
<1>2. S \notin T
  BY <1>1
<1> QED BY <1>2

\* Adding an element adds its value.
LEMMA SumInsert ==
    ASSUME NEW f, NEW S, IsFiniteSet(S), NEW x, x \notin S,
           \A y \in S \cup {x} : f[y] \in Int
    PROVE  SumFunctionOnSet(f, S \cup {x}) = f[x] + SumFunctionOnSet(f, S)
<1>1. IsFiniteSet(S \cup {x}) /\ (S \cup {x}) \ {x} = S
  BY FS_AddElement
<1> QED BY <1>1, SumRemove

\* The sum over a single element.
LEMMA SumOne ==
    ASSUME NEW f, NEW x, f[x] \in Int
    PROVE  SumFunctionOnSet(f, {x}) = f[x]
<1>1. SumFunctionOnSet(f, {} \cup {x}) = f[x] + SumFunctionOnSet(f, {})
  BY FS_EmptySet, SumInsert
<1> QED BY <1>1, SumEmpty

\* Summands that are 0 do not count.
LEMMA SumZero ==
    ASSUME NEW f, NEW S, IsFiniteSet(S), \A x \in S : f[x] = 0
    PROVE  SumFunctionOnSet(f, S) = 0
<1> DEFINE T == {s \in SUBSET S : SumFunctionOnSet(f, s) # 0}
<1>1. ASSUME T # {} PROVE FALSE
  <2>1. \A s \in T : IsFiniteSet(s)
    BY FS_Subset
  <2>2. PICK s \in T : \A t \in T : Cardinality(s) <= Cardinality(t)
    BY <1>1, <2>1, SmallestSet
  <2> DEFINE r == s \ {Pick(s)}
  <2>3. SumFunctionOnSet(f, s) = IF s = {} THEN 0 ELSE f[Pick(s)] + SumFunctionOnSet(f, r)
    BY <2>1, SumPick
  <2>4. s # {}
    BY <2>3
  <2>5. Cardinality(r) = Cardinality(s) - 1 /\ Cardinality(s) \in Nat
    BY <2>1, <2>4, PickIn, FS_RemoveElement, FS_CardinalityType
  <2>6. r \notin T /\ r \in SUBSET S /\ f[Pick(s)] = 0
    BY <2>2, <2>4, <2>5, PickIn
  <2> QED BY <2>3, <2>4, <2>6
<1>2. S \notin T
  BY <1>1
<1> QED BY <1>2

\* A column that gets one more entry, whose sum is over all its entries.
LEMMA SumAppend ==
    ASSUME NEW f, NEW g, NEW n \in Nat,
           \A i \in 1..n : f[i] \in Int /\ g[i] = f[i], g[n + 1] \in Int
    PROVE  SumFunctionOnSet(g, 1..(n + 1)) = SumFunctionOnSet(f, 1..n) + g[n + 1]
<1>1. IsFiniteSet(1..n) /\ 1..(n + 1) = (1..n) \cup {n + 1} /\ n + 1 \notin 1..n
  <2>1. IsFiniteSet(1..n)
    BY FS_Interval
  <2>2. 1..(n + 1) = (1..n) \cup {n + 1} /\ n + 1 \notin 1..n
    OBVIOUS
  <2> QED BY <2>1, <2>2
<1>2. SumFunctionOnSet(g, 1..(n + 1)) = g[n + 1] + SumFunctionOnSet(g, 1..n)
  BY <1>1, SumInsert
<1>3. SumFunctionOnSet(g, 1..n) = SumFunctionOnSet(f, 1..n)
  BY <1>1, SumSame
<1>4. SumFunctionOnSet(f, 1..n) \in Int
  BY <1>1, SumInt
<1> QED BY <1>2, <1>3, <1>4

\* A sum of natural numbers is one.
LEMMA SumNat ==
    ASSUME NEW f, NEW S, IsFiniteSet(S), \A x \in S : f[x] \in Nat
    PROVE  SumFunctionOnSet(f, S) \in Nat
<1> DEFINE z == [x \in S |-> 0]
<1>1. \A x \in S : z[x] \in Int /\ f[x] \in Int /\ z[x] <= f[x] /\ z[x] = 0
  OBVIOUS
<1> HIDE DEF z
<1>2. SumFunctionOnSet(z, S) <= SumFunctionOnSet(f, S) /\ SumFunctionOnSet(z, S) = 0
  BY <1>1, SumMonotone, SumZero
<1>3. SumFunctionOnSet(f, S) \in Int
  BY <1>1, SumInt
<1> QED
  BY <1>2, <1>3

\* The sum over two sets that have no element in common.
LEMMA SumApart ==
    ASSUME NEW f, NEW A, NEW B, IsFiniteSet(A), IsFiniteSet(B), A \cap B = {},
           \A x \in A \cup B : f[x] \in Int
    PROVE  SumFunctionOnSet(f, A \cup B) = SumFunctionOnSet(f, A) + SumFunctionOnSet(f, B)
<1> DEFINE Ok(s) == SumFunctionOnSet(f, A \cup s) = SumFunctionOnSet(f, A) + SumFunctionOnSet(f, s)
           T == {s \in SUBSET B : ~Ok(s)}
<1>1. ASSUME T # {} PROVE FALSE
  <2>1. \A s \in T : IsFiniteSet(s)
    BY FS_Subset
  <2>2. PICK s \in T : \A t \in T : Cardinality(s) <= Cardinality(t)
    BY <1>1, <2>1, SmallestSet
  <2>3. CASE s = {}
    <3>1. A \cup s = A /\ SumFunctionOnSet(f, s) = 0 /\ SumFunctionOnSet(f, A) \in Int
      BY <2>3, SumEmpty, SumInt
    <3> QED BY <3>1
  <2>4. CASE s # {}
    <3>1. PICK x \in s : TRUE
      BY <2>4
    <3> DEFINE r == s \ {x}
    <3>2. IsFiniteSet(s) /\ IsFiniteSet(A \cup s) /\ x \in A \cup s
      BY <2>1, FS_Union
    <3>3. Cardinality(r) = Cardinality(s) - 1 /\ Cardinality(s) \in Nat /\ IsFiniteSet(r)
      BY <3>2, FS_RemoveElement, FS_CardinalityType
    <3>4. r \notin T /\ r \in SUBSET B
      BY <2>2, <3>3
    <3>5. (A \cup s) \ {x} = A \cup r
      OBVIOUS
    <3>6. \A y \in A \cup s : f[y] \in Int
      OBVIOUS
    <3>7. SumFunctionOnSet(f, A \cup s) = f[x] + SumFunctionOnSet(f, A \cup r)
      BY <3>2, <3>5, <3>6, SumRemove
    <3>8. SumFunctionOnSet(f, s) = f[x] + SumFunctionOnSet(f, r)
      BY <3>2, <3>6, SumRemove
    <3>9. Ok(r)
      BY <3>4
    <3>10. f[x] \in Int /\ SumFunctionOnSet(f, A) \in Int /\ SumFunctionOnSet(f, r) \in Int
      BY <3>3, <3>6, SumInt
    <3>11. Ok(s)
      <4> HIDE DEF r
      <4> QED BY <3>7, <3>8, <3>9, <3>10
    <3> QED BY <3>11
  <2> QED BY <2>3, <2>4
<1>2. B \notin T
  BY <1>1
<1> QED BY <1>2

\* The values of h: as many as its arguments, if they are all different.
LEMMA ImageSize ==
    ASSUME NEW h, NEW S, IsFiniteSet(S)
    PROVE  LET image == {h[x] : x \in S} IN
           /\ IsFiniteSet(image)
           /\ (\A x \in S, y \in S : x # y => h[x] # h[y]) => Cardinality(image) = Cardinality(S)
<1> DEFINE image == {h[x] : x \in S}
           g == [x \in S |-> h[x]]
<1>1. g \in Surjection(S, image)
  BY DEF Surjection
<1>2. (\A x \in S, y \in S : x # y => h[x] # h[y]) => g \in Injection(S, image)
  BY DEF Injection, IsInjective
<1>3. /\ IsFiniteSet(image)
      /\ g \in Injection(S, image) => Cardinality(image) = Cardinality(S)
  BY <1>1, FS_Surjection
<1> QED BY <1>2, <1>3

\* A sum over the values of h, which are all different, is a sum over its arguments.
LEMMA SumImage ==
    ASSUME NEW f, NEW g, NEW h, NEW S, IsFiniteSet(S),
           \A x \in S, y \in S : x # y => h[x] # h[y],
           \A x \in S : f[h[x]] \in Int /\ g[x] = f[h[x]]
    PROVE  SumFunctionOnSet(f, {h[x] : x \in S}) = SumFunctionOnSet(g, S)
<1> DEFINE Image(s) == {h[x] : x \in s}
           T == {s \in SUBSET S : SumFunctionOnSet(f, Image(s)) # SumFunctionOnSet(g, s)}
<1>1. ASSUME T # {} PROVE FALSE
  <2>1. \A s \in T : IsFiniteSet(s)
    BY FS_Subset
  <2>2. PICK s \in T : \A t \in T : Cardinality(s) <= Cardinality(t)
    BY <1>1, <2>1, SmallestSet
  <2>3. s # {}
    BY SumEmpty
  <2>4. PICK x \in s : TRUE
    BY <2>3
  <2> DEFINE r == s \ {x}
  <2>5. IsFiniteSet(s) /\ IsFiniteSet(Image(s))
    BY <2>1, ImageSize
  <2>6. Cardinality(r) = Cardinality(s) - 1 /\ Cardinality(s) \in Nat
    BY <2>5, FS_RemoveElement, FS_CardinalityType
  <2>7. r \notin T /\ r \in SUBSET S
    BY <2>2, <2>6
  <2>8. Image(s) \ {h[x]} = Image(r)
    OBVIOUS
  <2>9. h[x] \in Image(s) /\ (\A y \in Image(s) : f[y] \in Int) /\ \A y \in s : g[y] \in Int
    OBVIOUS
  <2>10. SumFunctionOnSet(f, Image(s)) = f[h[x]] + SumFunctionOnSet(f, Image(r))
    BY <2>5, <2>8, <2>9, SumRemove
  <2>11. SumFunctionOnSet(g, s) = g[x] + SumFunctionOnSet(g, r)
    BY <2>5, <2>9, SumRemove
  <2> QED BY <2>7, <2>10, <2>11
<1>2. S \notin T
  BY <1>1
<1> QED BY <1>2

\* The sum over sets that have no element in common is the sum of the sets' sums.
LEMMA SumFamily ==
    ASSUME NEW f, NEW F, NEW S, IsFiniteSet(S), \A x \in S : IsFiniteSet(F[x]),
           \A x \in S, y \in S : x # y => F[x] \cap F[y] = {},
           \A x \in S : \A i \in F[x] : f[i] \in Int
    PROVE  /\ IsFiniteSet(UNION {F[x] : x \in S})
           /\ SumFunctionOnSet(f, UNION {F[x] : x \in S})
                = SumFunctionOnSet([x \in S |-> SumFunctionOnSet(f, F[x])], S)
<1> DEFINE All(s) == UNION {F[x] : x \in s}
           g == [x \in S |-> SumFunctionOnSet(f, F[x])]
           Ok(s) == IsFiniteSet(All(s)) /\ SumFunctionOnSet(f, All(s)) = SumFunctionOnSet(g, s)
           T == {s \in SUBSET S : ~Ok(s)}
<1>1. \A x \in S : g[x] \in Int /\ g[x] = SumFunctionOnSet(f, F[x])
  BY SumInt
<1> HIDE DEF g
<1>2. ASSUME T # {} PROVE FALSE
  <2>1. \A s \in T : IsFiniteSet(s)
    BY FS_Subset
  <2>2. PICK s \in T : \A t \in T : Cardinality(s) <= Cardinality(t)
    BY <1>2, <2>1, SmallestSet
  <2>3. s # {}
    <3>1. CASE s = {}
      <4>1. All(s) = {}
        BY <3>1
      <4>2. Ok(s)
        BY <3>1, <4>1, SumEmpty, FS_EmptySet
      <4> QED BY <4>2
    <3> QED BY <3>1
  <2>4. PICK x \in s : TRUE
    BY <2>3
  <2> DEFINE r == s \ {x}
  <2>5. IsFiniteSet(s)
    BY <2>1
  <2>6. Cardinality(r) = Cardinality(s) - 1 /\ Cardinality(s) \in Nat
    BY <2>5, FS_RemoveElement, FS_CardinalityType
  <2>7. r \notin T /\ r \in SUBSET S
    BY <2>2, <2>6
  <2>8. Ok(r)
    BY <2>7
  <2>9. All(s) = F[x] \cup All(r) /\ F[x] \cap All(r) = {} /\ IsFiniteSet(F[x])
    OBVIOUS
  <2>10. \A i \in F[x] \cup All(r) : f[i] \in Int
    OBVIOUS
  <2> HIDE DEF All
  <2>11. SumFunctionOnSet(f, F[x] \cup All(r)) = SumFunctionOnSet(f, F[x]) + SumFunctionOnSet(f, All(r))
    <3>1. IsFiniteSet(All(r))
      BY <2>8
    <3> QED BY ONLY <2>9, <2>10, <3>1, SumApart
  <2>12. SumFunctionOnSet(g, s) = g[x] + SumFunctionOnSet(g, r)
    <3>1. \A y \in s : g[y] \in Int
      BY <1>1
    <3> QED BY <2>5, <3>1, SumRemove
  <2>13. IsFiniteSet(All(s))
    <3>1. IsFiniteSet(All(r))
      BY <2>8
    <3> QED BY ONLY <2>9, <3>1, FS_Union
  <2> QED BY <1>1, <2>8, <2>9, <2>11, <2>12, <2>13
<1>3. S \notin T
  BY <1>2
<1> QED BY <1>3 DEF g

\* Sums add up.
LEMMA SumPlus ==
    ASSUME NEW f, NEW g, NEW h, NEW S, IsFiniteSet(S),
           \A x \in S : f[x] \in Int /\ g[x] \in Int /\ h[x] = f[x] + g[x]
    PROVE  SumFunctionOnSet(h, S) = SumFunctionOnSet(f, S) + SumFunctionOnSet(g, S)
<1> DEFINE Ok(s) == SumFunctionOnSet(h, s) = SumFunctionOnSet(f, s) + SumFunctionOnSet(g, s)
           T == {s \in SUBSET S : ~Ok(s)}
<1>1. ASSUME T # {} PROVE FALSE
  <2>1. \A s \in T : IsFiniteSet(s)
    BY FS_Subset
  <2>2. PICK s \in T : \A t \in T : Cardinality(s) <= Cardinality(t)
    BY <1>1, <2>1, SmallestSet
  <2>3. s # {}
    <3>1. SumFunctionOnSet(f, {}) = 0 /\ SumFunctionOnSet(g, {}) = 0 /\ SumFunctionOnSet(h, {}) = 0
      BY SumEmpty
    <3>2. Ok({})
      BY <3>1
    <3> QED BY <3>2
  <2>4. PICK x \in s : TRUE
    BY <2>3
  <2> DEFINE r == s \ {x}
  <2>5. IsFiniteSet(s) /\ \A y \in s : f[y] \in Int /\ g[y] \in Int /\ h[y] \in Int
    BY <2>1
  <2>6. Cardinality(r) = Cardinality(s) - 1 /\ Cardinality(s) \in Nat /\ IsFiniteSet(r)
    BY <2>5, FS_RemoveElement, FS_CardinalityType
  <2>7. r \notin T /\ r \in SUBSET S
    BY <2>2, <2>6
  <2>8. Ok(r)
    BY <2>7
  <2>9. /\ SumFunctionOnSet(f, s) = f[x] + SumFunctionOnSet(f, r)
        /\ SumFunctionOnSet(g, s) = g[x] + SumFunctionOnSet(g, r)
        /\ SumFunctionOnSet(h, s) = h[x] + SumFunctionOnSet(h, r)
    BY <2>5, SumRemove
  <2>10. SumFunctionOnSet(f, r) \in Int /\ SumFunctionOnSet(g, r) \in Int
    BY <2>5, <2>6, SumInt
  <2>11. h[x] = f[x] + g[x] /\ f[x] \in Int /\ g[x] \in Int
    OBVIOUS
  <2> HIDE DEF r
  <2>12. Ok(s)
    BY <2>8, <2>9, <2>10, <2>11
  <2> QED BY <2>12
<1>2. S \notin T
  BY <1>1
<1> QED BY <1>2

\* A factor of all summands is one of the sum.
LEMMA SumTimes ==
    ASSUME NEW f, NEW g, NEW c \in Int, NEW S, IsFiniteSet(S),
           \A x \in S : f[x] \in Int /\ g[x] = c * f[x]
    PROVE  SumFunctionOnSet(g, S) = c * SumFunctionOnSet(f, S)
<1> DEFINE Ok(s) == SumFunctionOnSet(g, s) = c * SumFunctionOnSet(f, s)
           T == {s \in SUBSET S : ~Ok(s)}
<1>1. ASSUME T # {} PROVE FALSE
  <2>1. \A s \in T : IsFiniteSet(s)
    BY FS_Subset
  <2>2. PICK s \in T : \A t \in T : Cardinality(s) <= Cardinality(t)
    BY <1>1, <2>1, SmallestSet
  <2>3. s # {}
    BY SumEmpty
  <2>4. PICK x \in s : TRUE
    BY <2>3
  <2> DEFINE r == s \ {x}
  <2>5. IsFiniteSet(s) /\ \A y \in s : f[y] \in Int /\ g[y] \in Int
    BY <2>1
  <2>6. Cardinality(r) = Cardinality(s) - 1 /\ Cardinality(s) \in Nat /\ IsFiniteSet(r)
    BY <2>5, FS_RemoveElement, FS_CardinalityType
  <2>7. r \notin T /\ r \in SUBSET S
    BY <2>2, <2>6
  <2>8. Ok(r)
    BY <2>7
  <2>9. /\ SumFunctionOnSet(f, s) = f[x] + SumFunctionOnSet(f, r)
        /\ SumFunctionOnSet(g, s) = g[x] + SumFunctionOnSet(g, r)
    BY <2>5, SumRemove
  <2>10. SumFunctionOnSet(f, r) \in Int
    BY <2>5, <2>6, SumInt
  <2>11. g[x] = c * f[x] /\ f[x] \in Int
    OBVIOUS
  <2>12. c * (f[x] + SumFunctionOnSet(f, r)) = c * f[x] + c * SumFunctionOnSet(f, r)
    BY ONLY c \in Int, <2>10, <2>11
  <2> HIDE DEF r
  <2>13. Ok(s)
    BY <2>8, <2>9, <2>11, <2>12
  <2> QED BY <2>13
<1>2. S \notin T
  BY <1>1
<1> QED BY <1>2

\* A sum of equal numbers.
LEMMA SumConstant ==
    ASSUME NEW f, NEW c \in Int, NEW S, IsFiniteSet(S), \A x \in S : f[x] = c
    PROVE  SumFunctionOnSet(f, S) = c * Cardinality(S)
<1> DEFINE Ok(s) == SumFunctionOnSet(f, s) = c * Cardinality(s)
           T == {s \in SUBSET S : ~Ok(s)}
<1>1. ASSUME T # {} PROVE FALSE
  <2>1. \A s \in T : IsFiniteSet(s)
    BY FS_Subset
  <2>2. PICK s \in T : \A t \in T : Cardinality(s) <= Cardinality(t)
    BY <1>1, <2>1, SmallestSet
  <2>3. s # {}
    <3>1. Ok({})
      BY SumEmpty, FS_EmptySet
    <3> QED BY <3>1
  <2>4. PICK x \in s : TRUE
    BY <2>3
  <2> DEFINE r == s \ {x}
  <2>5. IsFiniteSet(s) /\ \A y \in s : f[y] \in Int
    BY <2>1
  <2>6. Cardinality(r) = Cardinality(s) - 1 /\ Cardinality(s) \in Nat
    BY <2>5, FS_RemoveElement, FS_CardinalityType
  <2>7. r \notin T /\ r \in SUBSET S
    BY <2>2, <2>6
  <2>8. Ok(r)
    BY <2>7
  <2>9. SumFunctionOnSet(f, s) = f[x] + SumFunctionOnSet(f, r) /\ f[x] = c
    BY <2>5, SumRemove
  <2>10. c + c * (Cardinality(s) - 1) = c * Cardinality(s)
    BY ONLY c \in Int, <2>6
  <2> HIDE DEF r
  <2>11. Ok(s)
    BY <2>6, <2>8, <2>9, <2>10
  <2> QED BY <2>11
<1>2. S \notin T
  BY <1>1
<1> QED BY <1>2
=============================================================================
