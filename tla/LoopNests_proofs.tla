-------------------------- MODULE LoopNests_proofs --------------------------
(***************************************************************************)
(* The loops of WeakestPrecondition: the order in which a nest is executed *)
(* is the one getLoopAntecedent describes, for any ranges.                 *)
(***************************************************************************)
EXTENDS WeakestPrecondition, WellFoundedInduction, SequenceTheorems, TLAPS

LEMMA SetInduction ==
  ASSUME NEW S \in SUBSET Nat, 0 \in S, \A n \in S : n + 1 \in S
  PROVE  S = Nat
<1> DEFINE R == {ss \in Nat \X Nat : ss[1] < ss[2]}
<1>1. IsWellFoundedOn(OpToRel(<, Nat), Nat)
  BY NatLessThanWellFounded
<1>2. OpToRel(<, Nat) = R
  BY DEF OpToRel
<1>3. IsWellFoundedOn(R, Nat)
  BY <1>1, <1>2
<1> DEFINE T == Nat \ S
<1>4. SUFFICES ASSUME T # {} PROVE FALSE
  OBVIOUS
<1>5. PICK x \in T : \A y \in T : ~(<<y, x>> \in R)
  <2> HIDE DEF R, T
  <2>1. T \subseteq Nat
    BY DEF T
  <2>2. QED
    BY <1>3, <1>4, <2>1, WFMin
<1>6. x \in Nat /\ x # 0 /\ x - 1 \in Nat /\ <<x - 1, x>> \in R
  OBVIOUS
<1>7. x - 1 \in S
  BY <1>5, <1>6
<1>8. QED
  BY <1>6, <1>7

\* Induction up to n.
LEMMA UpToInduction ==
  ASSUME NEW n \in Nat, NEW P, 0 \in P, \A i \in 0 .. n - 1 : i \in P => i + 1 \in P
  PROVE  \A i \in 0 .. n : i \in P
<1> DEFINE S == {i \in Nat : i <= n => i \in P}
<1>1. 0 \in S
  OBVIOUS
<1>2. ASSUME NEW i \in S
      PROVE  i + 1 \in S
  OBVIOUS
<1>3. S \in SUBSET Nat
  OBVIOUS
<1> HIDE DEF S
<1>4. S = Nat
  BY <1>1, <1>2, <1>3, SetInduction
<1>5. QED
  BY <1>4 DEF S

-----------------------------------------------------------------------------
(***************************************************************************)
(* Loops.                                                                  *)
(***************************************************************************)

TurnsOf(f, S, start, n, turn) ==
  f \in [0 .. n -> S] /\ f = [i \in 0 .. n |-> IF i = 0 THEN start ELSE turn[<<f[i - 1], i>>]]

\* What the turns of a loop leave, if each takes a member of S to a member of S.
LEMMA TurnsExist ==
  ASSUME NEW S, NEW start \in S, NEW n \in Nat, NEW turn \in [S \X (1 .. n) -> S]
  PROVE  \E f : TurnsOf(f, S, start, n, turn)
<1> DEFINE Good(f, m) == /\ f \in [0 .. m -> S] /\ f[0] = start
                         /\ \A i \in 1 .. m : f[i] = turn[<<f[i - 1], i>>]
           P == {m \in 0 .. n : \E f : Good(f, m)}
<1>1. 0 \in P
  <2> DEFINE f == [i \in 0 .. 0 |-> start]
  <2>1. Good(f, 0)
    OBVIOUS
  <2> HIDE DEF f, Good
  <2>2. QED
    BY <2>1
<1>2. ASSUME NEW m \in 0 .. n - 1, m \in P
      PROVE  m + 1 \in P
  <2>1. PICK f : Good(f, m)
    BY <1>2
  <2> DEFINE v == turn[<<f[m], m + 1>>]
             g == [i \in 0 .. m + 1 |-> IF i = m + 1 THEN v ELSE f[i]]
  <2>2. f \in [0 .. m -> S] /\ f[0] = start /\ \A i \in 1 .. m : f[i] = turn[<<f[i - 1], i>>]
    BY <2>1
  <2>3. f[m] \in S /\ m + 1 \in 1 .. n /\ v \in S
    BY <2>2
  <2>4. g \in [0 .. m + 1 -> S] /\ g[0] = start
    <3> HIDE DEF v
    <3>1. QED
      BY <2>2, <2>3
  <2>5. ASSUME NEW i \in 1 .. m + 1
        PROVE  g[i] = turn[<<g[i - 1], i>>]
    <3>1. g[i - 1] = f[i - 1]
      OBVIOUS
    <3>2. CASE i = m + 1
      <4>1. g[i] = v /\ i - 1 = m
        BY <3>2
      <4> HIDE DEF g
      <4>2. QED
        BY <3>1, <3>2, <4>1
    <3>3. CASE i # m + 1
      <4>1. i \in 1 .. m /\ g[i] = f[i]
        BY <3>3
      <4> HIDE DEF g
      <4>2. QED
        BY <3>1, <4>1, <2>2
    <3>4. QED
      BY <3>2, <3>3
  <2> HIDE DEF g
  <2>6. Good(g, m + 1)
    BY <2>4, <2>5
  <2>7. m + 1 \in 0 .. n
    OBVIOUS
  <2> HIDE DEF Good
  <2>8. QED
    BY <2>6, <2>7
<1>3. n \in P
  <2> HIDE DEF P
  <2>1. QED
    BY <1>1, <1>2, UpToInduction
<1>4. PICK f : Good(f, n)
  BY <1>3
<1>5. f = [i \in 0 .. n |-> IF i = 0 THEN start ELSE turn[<<f[i - 1], i>>]]
  <2>1. f = [i \in 0 .. n |-> f[i]]
    BY <1>4
  <2>2. ASSUME NEW i \in 0 .. n
        PROVE  f[i] = IF i = 0 THEN start ELSE turn[<<f[i - 1], i>>]
    BY <1>4
  <2> HIDE DEF Good
  <2>3. QED
    BY <2>1, <2>2
<1>6. QED
  BY <1>4, <1>5 DEF TurnsOf

-----------------------------------------------------------------------------
(***************************************************************************)
(* Arithmetic.                                                             *)
(***************************************************************************)

\* The larger factor gives the larger product.
LEMMA ProductsGrow ==
  ASSUME NEW a \in Int, NEW b \in Int, NEW m \in Nat, a <= b
  PROVE  a * m <= b * m
<1>1. b - a \in Nat /\ (b - a) * m >= 0
  OBVIOUS
<1>2. (b - a) * m = b * m - a * m
  OBVIOUS
<1>3. QED
  BY <1>1, <1>2

\* Quotient and remainder.
LEMMA Division ==
  ASSUME NEW a \in Int, NEW m \in Nat \ {0}
  PROVE  /\ a \div m \in Int /\ a % m \in 0 .. m - 1
         /\ a = (a \div m) * m + (a % m)
<1>1. a \div m \in Int
  OBVIOUS
<1>2. a % m \in Int
  OBVIOUS
<1>3. 0 <= a % m
  OBVIOUS
<1>4. a % m < m
  OBVIOUS
<1>5. a = m * (a \div m) + (a % m)
  OBVIOUS
<1>6. QED
  BY <1>1, <1>2, <1>3, <1>4, <1>5

LEMMA DivisionIsUnique ==
  ASSUME NEW m \in Nat \ {0}, NEW p \in Int, NEW q \in Int, NEW s \in 0 .. m - 1, NEW t \in 0 .. m - 1,
         p * m + s = q * m + t
  PROVE  p = q /\ s = t
<1>1. CASE p < q
  <2>1. (p + 1) * m <= q * m
    BY <1>1, ProductsGrow
  <2>2. (p + 1) * m = p * m + m
    OBVIOUS
  <2>3. QED
    BY <2>1, <2>2
<1>2. CASE q < p
  <2>1. (q + 1) * m <= p * m
    BY <1>2, ProductsGrow
  <2>2. (q + 1) * m = q * m + m
    OBVIOUS
  <2>3. QED
    BY <2>1, <2>2
<1>3. CASE p = q
  BY <1>3
<1>4. QED
  BY <1>1, <1>2, <1>3


\* No multiple of m lies between two that follow each other.
LEMMA MultiplesApart ==
  ASSUME NEW m \in Nat \ {0}, NEW p \in Int, NEW q \in Int, p * m < q * m
  PROVE  p + 1 <= q
<1>1. CASE q <= p
  BY <1>1, ProductsGrow
<1>2. QED
  BY <1>1

-----------------------------------------------------------------------------
(***************************************************************************)
(* One loop.                                                               *)
(***************************************************************************)
Ranges == [lb : 0 .. Extent, ub : 0 .. Extent, step : Nat \ {0}]

LEMMA ExtentIsNat == Extent \in Nat \ {0}
BY SizesAreFinite

LEMMA RangeParts ==
  ASSUME NEW r \in Ranges
  PROVE  /\ r.lb \in Nat /\ r.ub \in Nat /\ r.step \in Nat \ {0}
         /\ r.lb <= Extent /\ r.ub <= Extent
BY ExtentIsNat DEF Ranges

\* The trips of a loop, in order, are the values in its range.
LEMMA TripsLaws ==
  ASSUME NEW r \in Ranges
  PROVE  LET ts == Trips(r)
         IN /\ Len(ts) \in Nat /\ DOMAIN ts = 1 .. Len(ts)
            /\ \A i \in 1 .. Len(ts) : /\ ts[i] = r.lb + (i - 1) * r.step
                                       /\ ts[i] \in 0 .. Extent - 1 /\ ValueInRange(ts[i], r)
                                       /\ ts[i] + r.step < r.ub <=> i < Len(ts)
            /\ \A i, j \in 1 .. Len(ts) : i < j => ts[i] < ts[j]
            /\ \A v \in Int : ValueInRange(v, r) => \E i \in 1 .. Len(ts) : v = ts[i]
<1> DEFINE lb == r.lb
           ub == r.ub
           m == r.step
           q == (ub - lb + m - 1) \div m
           n == IF q > 0 THEN q ELSE 0
           ts == Trips(r)
<1>1. lb \in Nat /\ ub \in Nat /\ m \in Nat \ {0} /\ ub <= Extent /\ Extent \in Nat
  BY RangeParts, ExtentIsNat
<1>2. ts = [i \in 1 .. n |-> lb + (i - 1) * m]
  BY DEF Trips
<1>3. \A v : ValueInRange(v, r) <=> lb <= v /\ v < ub /\ (v - lb) % m = 0
  BY DEF ValueInRange
<1> HIDE DEF lb, ub, m, ts
<1>4. q \in Int /\ q * m <= ub - lb + m - 1 /\ ub - lb + m - 1 < q * m + m
  <2> DEFINE a == ub - lb + m - 1
  <2>1. a \in Int
    BY <1>1
  <2> HIDE DEF a
  <2>2. a \div m \in Int /\ a % m \in 0 .. m - 1 /\ a = (a \div m) * m + (a % m)
    BY <1>1, <2>1, Division
  <2>3. (a \div m) * m \in Int
    BY <2>2, <1>1
  <2>4. (a \div m) * m <= a /\ a < (a \div m) * m + m
    BY <2>1, <2>2, <2>3, <1>1
  <2>5. QED
    BY <2>2, <2>4 DEF a
<1> HIDE DEF q
<1>5. n \in Nat /\ (n > 0 => n = q)
  BY <1>4
<1> HIDE DEF n
<1>6. Len(ts) = n /\ DOMAIN ts = 1 .. n
  BY <1>2, <1>5
<1>7. ASSUME NEW i \in 1 .. n
      PROVE  /\ ts[i] = lb + (i - 1) * m /\ (i - 1) * m \in Nat
             /\ ts[i] < ub /\ (ts[i] - lb) % m = 0
             /\ ts[i] + m < ub <=> i < n
  <2>1. ts[i] = lb + (i - 1) * m /\ (i - 1) * m \in Nat /\ i - 1 \in Nat /\ n = q
    BY <1>1, <1>2, <1>5
  <2>2. i * m <= n * m /\ i * m = (i - 1) * m + m
    BY <1>1, <1>5, ProductsGrow
  <2>3. (i - 1) * m < ub - lb
    BY <2>1, <2>2, <1>1, <1>4
  <2>4. ((i - 1) * m) % m = 0
    <3> DEFINE a == (i - 1) * m
    <3>2. a \in Int /\ a = (i - 1) * m + 0 /\ 0 \in 0 .. m - 1 /\ i - 1 \in Int
      BY <1>1, <2>1
    <3> HIDE DEF a
    <3>1. a \div m \in Int /\ a % m \in 0 .. m - 1 /\ a = (a \div m) * m + (a % m)
      BY <1>1, <3>2, Division
    <3>3. (a \div m) * m + (a % m) = (i - 1) * m + 0
      BY <3>1, <3>2
    <3>4. a % m = 0
      BY <1>1, <3>1, <3>2, <3>3, DivisionIsUnique
    <3>5. QED
      BY <3>4 DEF a
  <2>5. ASSUME i < n
        PROVE  (i - 1) * m + m < ub - lb
    <3>1. (i + 1) * m <= n * m /\ (i + 1) * m = (i - 1) * m + m + m
      BY <1>1, <1>5, <2>5, ProductsGrow
    <3>2. QED
      BY <3>1, <2>1, <1>1, <1>4
  <2>6. ASSUME i = n
        PROVE  (i - 1) * m + m >= ub - lb
    BY <2>1, <2>2, <2>6, <1>1, <1>4
  <2>7. QED
    BY <2>1, <2>3, <2>4, <2>5, <2>6, <1>1, <1>5
<1>8. ASSUME NEW i \in 1 .. n, NEW j \in 1 .. n, i < j
      PROVE  ts[i] < ts[j]
  <2>1. i * m <= (j - 1) * m /\ i * m = (i - 1) * m + m
    BY <1>1, <1>5, <1>8, ProductsGrow
  <2>2. /\ ts[i] = lb + (i - 1) * m /\ (i - 1) * m \in Nat
        /\ ts[j] = lb + (j - 1) * m /\ (j - 1) * m \in Nat
    BY <1>7
  <2>3. (i - 1) * m < (j - 1) * m
    BY <2>1, <2>2, <1>1
  <2> QED
    BY <2>2, <2>3, <1>1
<1>9. ASSUME NEW v \in Int, lb <= v, v < ub, (v - lb) % m = 0
      PROVE  \E i \in 1 .. n : v = ts[i]
  <2> DEFINE t == (v - lb) \div m
  <2>1. t \in Int /\ v - lb = t * m
    <3>1. v - lb \in Int
      BY <1>1
    <3>2. t \in Int /\ v - lb = t * m + ((v - lb) % m)
      BY <1>1, <3>1, Division
    <3> HIDE DEF t
    <3>3. QED
      BY <3>2, <1>1, <1>9
  <2> HIDE DEF t
  <2>2. t * m < q * m /\ (0 - 1) * m < t * m /\ t * m \in Int
    BY <2>1, <1>1, <1>4, <1>9
  <2>3. t + 1 <= q /\ 0 <= t
    BY <2>1, <2>2, <1>1, <1>4, MultiplesApart
  <2>4. t + 1 \in 1 .. n /\ (t + 1) - 1 = t
    BY <2>1, <2>3, <1>5, <1>4 DEF n
  <2>5. ts[t + 1] = lb + t * m
    BY <2>4, <1>7
  <2>6. QED
    BY <2>1, <2>4, <2>5, <1>1
<1>10. ASSUME NEW i \in 1 .. n
       PROVE  ts[i] \in 0 .. Extent - 1 /\ lb <= ts[i]
  <2> DEFINE x == (i - 1) * m
  <2>1. ts[i] = lb + x /\ x \in Nat /\ ts[i] < ub
    BY <1>7
  <2> HIDE DEF x
  <2>2. QED
    BY <2>1, <1>1
<1>11. QED
  BY <1>3, <1>6, <1>7, <1>8, <1>9, <1>10 DEF lb, ub, m, ts


LEMMA NextTrip ==
  ASSUME NEW r \in Ranges, NEW i \in Nat \ {0}, i < Len(Trips(r))
  PROVE  Trips(r)[i + 1] = Trips(r)[i] + r.step /\ Trips(r)[i + 1] < r.ub
<1> DEFINE ts == Trips(r)
           n == Len(ts)
<1>1. /\ n \in Nat
      /\ \A j \in 1 .. n : /\ ts[j] = r.lb + (j - 1) * r.step /\ ts[j] \in 0 .. Extent - 1
                           /\ ts[j] + r.step < r.ub <=> j < n
  BY TripsLaws
<1>2. r.step \in Nat \ {0} /\ r.ub \in Nat /\ r.lb \in Nat
  BY RangeParts
<1>3. i < n
  OBVIOUS
<1> HIDE DEF ts, n
<1>4. ts[i] = r.lb + (i - 1) * r.step /\ ts[i + 1] = r.lb + ((i + 1) - 1) * r.step /\ ts[i] + r.step < r.ub
  BY <1>1, <1>3
<1>5. ((i + 1) - 1) * r.step = (i - 1) * r.step + r.step /\ (i - 1) * r.step \in Int
  BY <1>2
<1>6. ts[i + 1] = ts[i] + r.step
  BY <1>2, <1>4, <1>5
<1>7. QED
  BY <1>4, <1>6 DEF ts

-----------------------------------------------------------------------------
(***************************************************************************)
(* Nests.                                                                  *)
(***************************************************************************)
InNest(x, rs) == x \in Counters(rs) /\ \A d \in DOMAIN rs : ValueInRange(x[d], rs[d])

Precedes(x, y) == \E i \in DOMAIN y : x[i] < y[i] /\ \A j \in 1 .. i - 1 : x[j] = y[j]

LEMMA NestParts ==
  ASSUME NEW rs \in Nests
  PROVE  /\ Len(rs) \in Nat \ {0} /\ DOMAIN rs = 1 .. Len(rs)
         /\ \A d \in DOMAIN rs : rs[d] \in Ranges
<1>1. rs \in Seq(Ranges) /\ rs # <<>>
  BY DEF Nests, Ranges
<1>2. /\ Len(rs) \in Nat /\ DOMAIN rs = 1 .. Len(rs)
      /\ \A d \in 1 .. Len(rs) : rs[d] \in Ranges
  BY <1>1, LenProperties, ElementOfSeq
<1>3. Len(rs) # 0
  BY <1>1
<1>4. QED
  BY <1>2, <1>3

LEMMA NestTuples ==
  ASSUME NEW rs \in Nests, NEW x, InNest(x, rs)
  PROVE  /\ x \in [DOMAIN rs -> Indices] /\ DOMAIN x = 1 .. Len(rs)
         /\ \A d \in DOMAIN rs : x[d] \in Nat /\ rs[d].lb <= x[d] /\ x[d] < rs[d].ub
<1>1. DOMAIN rs = 1 .. Len(rs) /\ \A d \in DOMAIN rs : rs[d].ub \in Nat /\ rs[d].lb \in Nat /\ rs[d].ub <= Extent
  BY NestParts, RangeParts
<1>2. Extent \in Nat \ {0} /\ x \in [DOMAIN rs -> 0 .. Extent]
  BY ExtentIsNat DEF InNest, Counters
<1>3. \A d \in DOMAIN rs : rs[d].lb <= x[d] /\ x[d] < rs[d].ub
  BY DEF InNest, ValueInRange
<1>4. \A d \in DOMAIN rs : x[d] \in 0 .. Extent - 1
  BY <1>1, <1>2, <1>3
<1>5. QED
  BY <1>1, <1>2, <1>3, <1>4 DEF Indices

\* The disjuncts of getLoopAntecedent.
Below(x, u, rs) ==
  \E i \in DOMAIN rs :
    /\ ValueInRange(x[i], [rs[i] EXCEPT !.ub = u[i]])
    /\ \A j \in 1 .. i - 1 : u[j] = x[j]
    /\ \A j \in i + 1 .. Len(rs) : ValueInRange(x[j], rs[j])

LEMMA BelowIsBefore ==
  ASSUME NEW rs \in Nests, NEW u, InNest(u, rs), NEW x \in Counters(rs)
  PROVE  Below(x, u, rs) <=> InNest(x, rs) /\ Precedes(x, u)
<1>1. /\ Len(rs) \in Nat /\ DOMAIN rs = 1 .. Len(rs)
      /\ \A d \in DOMAIN rs : rs[d] \in Ranges /\ rs[d].ub \in Nat
  BY NestParts, RangeParts
<1>2. /\ DOMAIN u = 1 .. Len(rs)
      /\ \A d \in DOMAIN rs : u[d] \in Nat /\ u[d] < rs[d].ub /\ ValueInRange(u[d], rs[d])
  BY NestTuples DEF InNest
<1>3. \A d \in DOMAIN rs : x[d] \in Nat
  BY ExtentIsNat DEF Counters
<1>4. ASSUME NEW d \in DOMAIN rs
      PROVE  ValueInRange(x[d], [rs[d] EXCEPT !.ub = u[d]]) <=> ValueInRange(x[d], rs[d]) /\ x[d] < u[d]
  <2>1. /\ [rs[d] EXCEPT !.ub = u[d]].lb = rs[d].lb /\ [rs[d] EXCEPT !.ub = u[d]].ub = u[d]
        /\ [rs[d] EXCEPT !.ub = u[d]].step = rs[d].step
    BY <1>1 DEF Ranges
  <2>2. u[d] \in Nat /\ u[d] < rs[d].ub /\ rs[d].ub \in Nat /\ x[d] \in Nat
    BY <1>1, <1>2, <1>3
  <2>3. ValueInRange(x[d], [rs[d] EXCEPT !.ub = u[d]])
          <=> rs[d].lb <= x[d] /\ x[d] < u[d] /\ (x[d] - rs[d].lb) % rs[d].step = 0
    BY <2>1, Zenon DEF ValueInRange
  <2>4. ValueInRange(x[d], rs[d]) <=> rs[d].lb <= x[d] /\ x[d] < rs[d].ub /\ (x[d] - rs[d].lb) % rs[d].step = 0
    BY DEF ValueInRange
  <2>5. QED
    BY <2>2, <2>3, <2>4
<1>5. ASSUME Below(x, u, rs)
      PROVE  InNest(x, rs) /\ Precedes(x, u)
  <2>1. PICK i \in DOMAIN rs :
          /\ ValueInRange(x[i], [rs[i] EXCEPT !.ub = u[i]])
          /\ \A j \in 1 .. i - 1 : u[j] = x[j]
          /\ \A j \in i + 1 .. Len(rs) : ValueInRange(x[j], rs[j])
    BY <1>5 DEF Below
  <2>2. ValueInRange(x[i], rs[i]) /\ x[i] < u[i]
    BY <1>4, <2>1
  <2>3. ASSUME NEW d \in DOMAIN rs
        PROVE  ValueInRange(x[d], rs[d])
    <3>1. d \in 1 .. i - 1 \/ d = i \/ d \in i + 1 .. Len(rs)
      BY <1>1
    <3>2. CASE d \in 1 .. i - 1
      BY <2>1, <1>2, <3>2
    <3>3. QED
      BY <3>1, <3>2, <2>1, <2>2
  <2>4. QED
    BY <2>1, <2>2, <2>3, <1>1, <1>2 DEF InNest, Precedes
<1>6. ASSUME InNest(x, rs), Precedes(x, u)
      PROVE  Below(x, u, rs)
  <2>1. PICK i \in DOMAIN u : x[i] < u[i] /\ \A j \in 1 .. i - 1 : x[j] = u[j]
    BY <1>6 DEF Precedes
  <2>2. i \in DOMAIN rs /\ \A j \in i + 1 .. Len(rs) : j \in DOMAIN rs
    BY <1>1, <1>2
  <2>3. \A d \in DOMAIN rs : ValueInRange(x[d], rs[d])
    BY <1>6 DEF InNest
  <2>4. QED
    BY <2>1, <2>2, <2>3, <1>4 DEF Below
<1>7. QED
  BY <1>5, <1>6

\* The tuples of getLoopAntecedent are those of the nest that come before the one at hand, or
\* before its successor.
LEMMA AntecedentIsBefore ==
  ASSUME NEW rs \in Nests, NEW k, NEW x \in Counters(rs)
  PROVE  /\ InNest(k, rs) => (GetLoopAntecedent(x, k, rs, FALSE) <=> InNest(x, rs) /\ Precedes(x, k))
         /\ InNest(Successor(k, rs), rs) =>
              (GetLoopAntecedent(x, k, rs, TRUE) <=> InNest(x, rs) /\ Precedes(x, Successor(k, rs)))
<1>1. GetLoopAntecedent(x, k, rs, FALSE) <=> Below(x, k, rs)
  BY DEF GetLoopAntecedent, Below
<1>2. GetLoopAntecedent(x, k, rs, TRUE) <=> Below(x, Successor(k, rs), rs)
  BY DEF GetLoopAntecedent, Below
<1>3. QED
  BY <1>1, <1>2, BelowIsBefore

\* A number below n * m has a quotient below n.
LEMMA DigitsOf ==
  ASSUME NEW n \in Nat, NEW m \in Nat \ {0}, NEW i \in 1 .. n * m
  PROVE  /\ (i - 1) \div m \in 0 .. n - 1 /\ (i - 1) % m \in 0 .. m - 1
         /\ i = ((i - 1) \div m) * m + ((i - 1) % m) + 1
<1> DEFINE q == (i - 1) \div m
           p == (i - 1) % m
<1>1. n * m \in Nat /\ i \in Nat /\ 1 <= i /\ i <= n * m
  OBVIOUS
<1>2. q \in Int /\ p \in 0 .. m - 1 /\ i - 1 = q * m + p
  BY <1>1, Division
<1> HIDE DEF q, p
<1>3. q * m \in Int /\ (0 - 1) * m = 0 - m
  BY <1>2
<1>4. q * m < n * m /\ (0 - 1) * m < q * m
  BY <1>1, <1>2, <1>3
<1>5. q + 1 <= n /\ (0 - 1) + 1 <= q
  BY <1>2, <1>4, MultiplesApart
<1>6. QED
  BY <1>1, <1>2, <1>3, <1>5 DEF q, p

LEMMA OfDigits ==
  ASSUME NEW n \in Nat, NEW m \in Nat \ {0}, NEW q \in 0 .. n - 1, NEW p \in 0 .. m - 1,
         NEW i, i = q * m + p + 1
  PROVE  i \in 1 .. n * m /\ (i - 1) \div m = q /\ (i - 1) % m = p
<1>1. q * m \in Nat /\ n * m \in Nat /\ (q + 1) * m <= n * m /\ (q + 1) * m = q * m + m
  BY ProductsGrow
<1>2. i \in 1 .. n * m /\ i - 1 = q * m + p
  BY <1>1
<1>3. i - 1 = ((i - 1) \div m) * m + ((i - 1) % m) /\ (i - 1) \div m \in Int /\ (i - 1) % m \in 0 .. m - 1
  BY <1>1, <1>2, Division
<1>4. (i - 1) \div m = q /\ (i - 1) % m = p
  <2> DEFINE a == (i - 1) \div m
             b == (i - 1) % m
  <2>1. a \in Int /\ b \in 0 .. m - 1 /\ a * m + b = q * m + p
    BY <1>2, <1>3
  <2> HIDE DEF a, b
  <2>2. a = q /\ b = p
    BY <2>1, DivisionIsUnique
  <2>3. QED
    BY <2>2 DEF a, b
<1>5. QED
  BY <1>2, <1>4

-----------------------------------------------------------------------------
(***************************************************************************)
(* The first d loops of a nest, and the list of their tuples.              *)
(***************************************************************************)
InPrefix(x, rs, d) == x \in [1 .. d -> Indices] /\ \A e \in 1 .. d : ValueInRange(x[e], rs[e])

\* ts lists the tuples of the first d loops, in order.
Lists(ts, rs, d) ==
  /\ ts \in Seq(Seq(Indices))
  /\ \A i \in 1 .. Len(ts) : InPrefix(ts[i], rs, d)
  /\ \A i, j \in 1 .. Len(ts) : i < j => Precedes(ts[i], ts[j])
  /\ \A x : InPrefix(x, rs, d) => \E i \in 1 .. Len(ts) : x = ts[i]

\* A tuple and one counter more.
LEMMA OneCounterMore ==
  ASSUME NEW d \in Nat, NEW x \in [1 .. d -> Indices], NEW v \in Indices
  PROVE  /\ Append(x, v) \in [1 .. d + 1 -> Indices] /\ Append(x, v)[d + 1] = v
         /\ \A e \in 1 .. d : Append(x, v)[e] = x[e]
<1>1. x \in Seq(Indices) /\ Len(x) = d
  OBVIOUS
<1>a. /\ Append(x, v) \in Seq(Indices) /\ Len(Append(x, v)) = Len(x) + 1
      /\ \A e \in 1 .. Len(x) : Append(x, v)[e] = x[e]
      /\ Append(x, v)[Len(x) + 1] = v
  BY <1>1, AppendProperties
<1>2. /\ Append(x, v) \in Seq(Indices) /\ Len(Append(x, v)) = d + 1
      /\ \A e \in 1 .. d : Append(x, v)[e] = x[e]
      /\ Append(x, v)[d + 1] = v
  BY <1>1, <1>a, Zenon
<1>3. Append(x, v) \in [1 .. Len(Append(x, v)) -> Indices]
  BY <1>2, LenProperties, Zenon
<1>4. QED
  BY <1>2, <1>3

LEMMA OneCounterLess ==
  ASSUME NEW d \in Nat, NEW y \in [1 .. d + 1 -> Indices]
  PROVE  \E x \in [1 .. d -> Indices] : y = Append(x, y[d + 1]) /\ \A e \in 1 .. d : x[e] = y[e]
<1> DEFINE x == [e \in 1 .. d |-> y[e]]
           z == Append(x, y[d + 1])
<1>1. x \in [1 .. d -> Indices] /\ y[d + 1] \in Indices /\ \A e \in 1 .. d : x[e] = y[e]
  OBVIOUS
<1> HIDE DEF x
<1>2. z \in [1 .. d + 1 -> Indices] /\ z[d + 1] = y[d + 1] /\ \A e \in 1 .. d : z[e] = x[e]
  BY <1>1, OneCounterMore
<1> HIDE DEF z
<1>3. \A e \in 1 .. d + 1 : e \in 1 .. d \/ e = d + 1
  OBVIOUS
<1>4. \A e \in 1 .. d + 1 : z[e] = y[e]
  BY <1>1, <1>2, <1>3
<1>5. z = y
  BY <1>2, <1>4
<1>6. QED
  BY <1>1, <1>5 DEF z

LEMMA WithinParts ==
  ASSUME NEW ts \in Seq(Seq(Indices)), NEW r \in Ranges
  PROVE  LET us == Trips(r)
             m == Len(us)
         IN /\ Within(ts, r) \in Seq(Seq(Indices)) /\ Len(Within(ts, r)) = Len(ts) * m
            /\ Len(ts) \in Nat /\ m \in Nat
            /\ \A i \in 1 .. Len(ts) * m :
                 \E a \in 0 .. Len(ts) - 1, b \in 0 .. m - 1 :
                   i = a * m + b + 1 /\ Within(ts, r)[i] = Append(ts[1 + a], us[1 + b])
            /\ \A a \in 0 .. Len(ts) - 1, b \in 0 .. m - 1 :
                 /\ a * m + b + 1 \in 1 .. Len(ts) * m
                 /\ Within(ts, r)[a * m + b + 1] = Append(ts[1 + a], us[1 + b])
<1> DEFINE us == Trips(r)
           m == Len(us)
           n == Len(ts)
           q(i) == (i - 1) \div m
           p(i) == (i - 1) % m
           its == [i \in 1 .. n * m |-> Append(ts[1 + q(i)], us[1 + p(i)])]
<1>1. n \in Nat /\ \A i \in 1 .. n : ts[i] \in Seq(Indices)
  BY LenProperties, ElementOfSeq
<1>2. m \in Nat /\ \A i \in 1 .. m : us[i] \in Indices
  BY TripsLaws DEF Indices
<1>3. Within(ts, r) = its
  BY DEF Within
<1> HIDE DEF us, m, n
<1>4. n * m \in Nat
  BY <1>1, <1>2
<1>a. \A a \in 0 .. n - 1 : 1 + a \in 1 .. n
  BY <1>1
<1>b. \A b \in 0 .. m - 1 : 1 + b \in 1 .. m
  BY <1>2
<1>5. ASSUME NEW i \in 1 .. n * m
      PROVE  /\ q(i) \in 0 .. n - 1 /\ p(i) \in 0 .. m - 1 /\ i = q(i) * m + p(i) + 1
             /\ its[i] = Append(ts[1 + q(i)], us[1 + p(i)]) /\ its[i] \in Seq(Indices)
  <2>1. m \in Nat \ {0}
    BY <1>1, <1>2
  <2>2. q(i) \in 0 .. n - 1 /\ p(i) \in 0 .. m - 1 /\ i = q(i) * m + p(i) + 1
    BY <1>1, <2>1, DigitsOf
  <2>3. its[i] = Append(ts[1 + q(i)], us[1 + p(i)])
    OBVIOUS
  <2> HIDE DEF q, p, its
  <2>4. ts[1 + q(i)] \in Seq(Indices) /\ us[1 + p(i)] \in Indices
    BY <1>1, <1>2, <1>a, <1>b, <2>2
  <2>5. QED
    BY <2>2, <2>3, <2>4, AppendProperties
<1>6. ASSUME NEW a \in 0 .. n - 1, NEW b \in 0 .. m - 1
      PROVE  a * m + b + 1 \in 1 .. n * m /\ its[a * m + b + 1] = Append(ts[1 + a], us[1 + b])
  <2>1. m \in Nat \ {0}
    BY <1>2
  <2>2. n \in Nat
    BY <1>1
  <2> HIDE DEF q, p, its
  <2> DEFINE i == a * m + b + 1
             c == (i - 1) \div m
             d == (i - 1) % m
  <2> HIDE DEF i
  <2>a. i = a * m + b + 1
    BY DEF i
  <2>3. i \in 1 .. n * m /\ c = a /\ d = b
    BY <2>1, <2>2, <2>a, OfDigits
  <2> HIDE DEF i
  <2>4. its[i] = Append(ts[1 + c], us[1 + d])
    BY <2>3 DEF its, q, p
  <2> HIDE DEF c, d
  <2>5. its[i] = Append(ts[1 + a], us[1 + b])
    BY <2>3, <2>4
  <2>6. QED
    BY <2>3, <2>5 DEF i
<1>7. its \in Seq(Seq(Indices)) /\ Len(its) = n * m
  <2>1. DOMAIN its = 1 .. n * m /\ its \in [1 .. n * m -> Seq(Indices)]
    <3>1. \A i \in 1 .. n * m : Append(ts[1 + q(i)], us[1 + p(i)]) \in Seq(Indices)
      BY <1>5
    <3> HIDE DEF q, p
    <3>2. QED
      BY <3>1
  <2> HIDE DEF its
  <2>2. QED
    BY <2>1, <1>4
<1>8. \A i \in 1 .. n * m : \E a \in 0 .. n - 1, b \in 0 .. m - 1 :
        i = a * m + b + 1 /\ its[i] = Append(ts[1 + a], us[1 + b])
  <2> HIDE DEF its, q, p
  <2>1. QED
    BY <1>5
<1> HIDE DEF its, q, p
<1>9. QED
  BY <1>1, <1>2, <1>3, <1>6, <1>7, <1>8 DEF us, m, n

\* The trips of one loop more.
LEMMA WithinLists ==
  ASSUME NEW d \in Nat, NEW rs, rs[d + 1] \in Ranges, NEW ts, Lists(ts, rs, d)
  PROVE  Lists(Within(ts, rs[d + 1]), rs, d + 1)
<1> DEFINE s == rs[d + 1]
           us == Trips(s)
           m == Len(us)
           n == Len(ts)
           its == Within(ts, s)
<1>1. /\ ts \in Seq(Seq(Indices)) /\ s \in Ranges
      /\ \A i \in 1 .. n : InPrefix(ts[i], rs, d)
      /\ \A i, j \in 1 .. n : i < j => Precedes(ts[i], ts[j])
      /\ \A x : InPrefix(x, rs, d) => \E i \in 1 .. n : x = ts[i]
  BY DEF Lists
<1>2. /\ m \in Nat
      /\ \A i \in 1 .. m : us[i] \in Indices /\ us[i] \in Int /\ ValueInRange(us[i], s)
      /\ \A i, j \in 1 .. m : i < j => us[i] < us[j]
      /\ \A v \in Int : ValueInRange(v, s) => \E i \in 1 .. m : v = us[i]
  <2> HIDE DEF s
  <2>1. QED
    BY <1>1, TripsLaws DEF Indices
<1>3. /\ its \in Seq(Seq(Indices)) /\ Len(its) = n * m /\ n \in Nat
      /\ \A i \in 1 .. n * m : \E a \in 0 .. n - 1, b \in 0 .. m - 1 :
           i = a * m + b + 1 /\ its[i] = Append(ts[1 + a], us[1 + b])
      /\ \A a \in 0 .. n - 1, b \in 0 .. m - 1 :
           a * m + b + 1 \in 1 .. n * m /\ its[a * m + b + 1] = Append(ts[1 + a], us[1 + b])
  <2> HIDE DEF s
  <2>1. QED
    BY <1>1, WithinParts
<1> HIDE DEF us, m, n, its, s
<1>a. \A a \in 0 .. n - 1 : 1 + a \in 1 .. n
  BY <1>3
<1>b. \A b \in 0 .. m - 1 : 1 + b \in 1 .. m
  BY <1>2
<1>c. n * m \in Nat
  BY <1>2, <1>3
<1>d. \A e \in 1 .. d + 1 : e \in 1 .. d \/ e = d + 1
  OBVIOUS
<1>4. ASSUME NEW a \in 0 .. n - 1, NEW b \in 0 .. m - 1
      PROVE  /\ Append(ts[1 + a], us[1 + b]) \in [1 .. d + 1 -> Indices]
             /\ Append(ts[1 + a], us[1 + b])[d + 1] = us[1 + b]
             /\ \A e \in 1 .. d : Append(ts[1 + a], us[1 + b])[e] = ts[1 + a][e]
  <2>1. ts[1 + a] \in [1 .. d -> Indices] /\ us[1 + b] \in Indices
    BY <1>1, <1>2, <1>a, <1>b DEF InPrefix
  <2>2. QED
    BY <2>1, OneCounterMore
<1>5. ASSUME NEW i \in 1 .. n * m
      PROVE  InPrefix(its[i], rs, d + 1)
  <2>1. PICK a \in 0 .. n - 1, b \in 0 .. m - 1 : its[i] = Append(ts[1 + a], us[1 + b])
    BY <1>3
  <2>2. \A e \in 1 .. d : ValueInRange(ts[1 + a][e], rs[e])
    BY <1>1, <1>a DEF InPrefix
  <2>3. ValueInRange(us[1 + b], rs[d + 1])
    BY <1>2, <1>b DEF s
  <2>4. /\ its[i] \in [1 .. d + 1 -> Indices] /\ its[i][d + 1] = us[1 + b]
        /\ \A e \in 1 .. d : its[i][e] = ts[1 + a][e]
    BY <1>4, <2>1
  <2>5. \A e \in 1 .. d + 1 : ValueInRange(its[i][e], rs[e])
    BY <1>d, <2>2, <2>3, <2>4
  <2>6. QED
    BY <2>4, <2>5 DEF InPrefix
<1>6. ASSUME NEW i \in 1 .. n * m, NEW j \in 1 .. n * m, i < j
      PROVE  Precedes(its[i], its[j])
  <2>1. PICK a \in 0 .. n - 1, b \in 0 .. m - 1 : i = a * m + b + 1 /\ its[i] = Append(ts[1 + a], us[1 + b])
    BY <1>3
  <2>2. PICK c \in 0 .. n - 1, f \in 0 .. m - 1 : j = c * m + f + 1 /\ its[j] = Append(ts[1 + c], us[1 + f])
    BY <1>3
  <2>3. /\ its[j] \in [1 .. d + 1 -> Indices] /\ its[i][d + 1] = us[1 + b] /\ its[j][d + 1] = us[1 + f]
        /\ \A e \in 1 .. d : its[i][e] = ts[1 + a][e] /\ its[j][e] = ts[1 + c][e]
    <3>a. /\ Append(ts[1 + a], us[1 + b])[d + 1] = us[1 + b]
          /\ \A e \in 1 .. d : Append(ts[1 + a], us[1 + b])[e] = ts[1 + a][e]
      BY <1>4
    <3>1. its[i][d + 1] = us[1 + b] /\ \A e \in 1 .. d : its[i][e] = ts[1 + a][e]
      BY <3>a, <2>1, Zenon
    <3>2. /\ its[j] \in [1 .. d + 1 -> Indices] /\ its[j][d + 1] = us[1 + f]
          /\ \A e \in 1 .. d : its[j][e] = ts[1 + c][e]
      BY <1>4, <2>2
    <3>3. QED
      BY <3>1, <3>2
  <2>4. a <= c
    <3>1. SUFFICES ASSUME c + 1 <= a PROVE FALSE
      OBVIOUS
    <3>2. (c + 1) * m <= a * m /\ (c + 1) * m = c * m + m
      BY <1>2, <3>1, ProductsGrow
    <3> DEFINE x == a * m
               y == c * m
    <3>3. x \in Int /\ y \in Int /\ y + m <= x /\ i = x + b + 1 /\ j = y + f + 1
      BY <2>1, <2>2, <3>2, <1>2
    <3> HIDE DEF x, y
    <3>4. QED
      BY <3>3, <1>6, <1>2
  <2>5. CASE a < c
    <3>1. Precedes(ts[1 + a], ts[1 + c])
      BY <1>1, <1>a, <2>5
    <3>2. DOMAIN ts[1 + c] = 1 .. d
      BY <1>1, <1>a DEF InPrefix
    <3>3. PICK g \in 1 .. d : ts[1 + a][g] < ts[1 + c][g] /\ \A h \in 1 .. g - 1 : ts[1 + a][h] = ts[1 + c][h]
      BY <3>1, <3>2 DEF Precedes
    <3>4. its[i][g] < its[j][g] /\ \A h \in 1 .. g - 1 : its[i][h] = its[j][h]
      <4>1. \A h \in 1 .. g - 1 : h \in 1 .. d
        OBVIOUS
      <4>2. QED
        BY <2>3, <3>3, <4>1
    <3>5. g \in DOMAIN its[j]
      BY <2>3
    <3>6. QED
      BY <3>4, <3>5 DEF Precedes
  <2>6. CASE a = c
    <3>1. b < f
      <4> DEFINE x == a * m
      <4>1. x \in Int /\ i = x + b + 1 /\ j = x + f + 1
        BY <2>1, <2>2, <2>6, <1>2
      <4> HIDE DEF x
      <4>2. QED
        BY <4>1, <1>6
    <3>2. its[i][d + 1] < its[j][d + 1]
      BY <1>2, <1>b, <3>1, <2>3
    <3>3. \A h \in 1 .. (d + 1) - 1 : its[i][h] = its[j][h]
      BY <2>3, <2>6
    <3>4. d + 1 \in DOMAIN its[j]
      BY <2>3
    <3>5. QED
      BY <3>2, <3>3, <3>4 DEF Precedes
  <2>7. QED
    BY <2>4, <2>5, <2>6
<1>7. ASSUME NEW y, InPrefix(y, rs, d + 1)
      PROVE  \E i \in 1 .. n * m : y = its[i]
  <2>1. y \in [1 .. d + 1 -> Indices] /\ \A e \in 1 .. d + 1 : ValueInRange(y[e], rs[e])
    BY <1>7 DEF InPrefix
  <2>2. PICK x \in [1 .. d -> Indices] : y = Append(x, y[d + 1]) /\ \A e \in 1 .. d : x[e] = y[e]
    BY <2>1, OneCounterLess
  <2>3. InPrefix(x, rs, d)
    <3>1. \A e \in 1 .. d : e \in 1 .. d + 1
      OBVIOUS
    <3>2. QED
      BY <2>1, <2>2, <3>1 DEF InPrefix
  <2>4. PICK a \in 1 .. n : x = ts[a]
    BY <1>1, <2>3
  <2>5. y[d + 1] \in Int /\ ValueInRange(y[d + 1], s)
    <3>1. d + 1 \in 1 .. d + 1
      OBVIOUS
    <3>2. y[d + 1] \in Indices
      BY <2>1, <3>1
    <3>3. QED
      BY <2>1, <3>1, <3>2, ExtentIsNat DEF Indices, s
  <2>6. PICK b \in 1 .. m : y[d + 1] = us[b]
    BY <1>2, <2>5
  <2>7. a - 1 \in 0 .. n - 1 /\ b - 1 \in 0 .. m - 1 /\ 1 + (a - 1) = a /\ 1 + (b - 1) = b
    BY <1>2, <1>3
  <2> DEFINE i == (a - 1) * m + (b - 1) + 1
  <2>8. i \in 1 .. n * m /\ its[i] = Append(ts[1 + (a - 1)], us[1 + (b - 1)])
    BY <1>3, <2>7
  <2> HIDE DEF i
  <2>9. its[i] = y
    BY <2>2, <2>4, <2>6, <2>7, <2>8
  <2>10. QED
    BY <2>8, <2>9
<1>8. Lists(its, rs, d + 1)
  BY <1>3, <1>5, <1>6, <1>7 DEF Lists
<1>9. QED
  BY <1>8 DEF its, s

\* The execution lists the tuples of the nest.
LEMMA IterationsList ==
  ASSUME NEW rs \in Nests
  PROVE  Lists(Iterations(rs), rs, Len(rs))
<1> DEFINE n == Len(rs)
           S == Seq(Seq(Indices))
           start == <<<<>>>>
           turn == [p \in S \X (1 .. n) |-> Within(p[1], rs[p[2]])]
<1>1. n \in Nat /\ \A i \in 1 .. n : rs[i] \in Ranges
  BY NestParts
<1>2. start \in S
  OBVIOUS
<1>3. ASSUME NEW now \in S, NEW i \in 1 .. n
      PROVE  turn[<<now, i>>] = Within(now, rs[i]) /\ Within(now, rs[i]) \in S
  <2>1. turn[<<now, i>>] = Within(now, rs[i])
    OBVIOUS
  <2>2. Within(now, rs[i]) \in S
    BY <1>1, WithinParts
  <2>3. QED
    BY <2>1, <2>2
<1> HIDE DEF n, S, start
<1>4. turn \in [S \X (1 .. n) -> S]
  BY <1>3
<1> HIDE DEF turn
<1>5. PICK f \in [0 .. n -> S] : f = [i \in 0 .. n |-> IF i = 0 THEN start ELSE turn[<<f[i - 1], i>>]]
  <2>1. \E f : TurnsOf(f, S, start, n, turn)
    BY <1>1, <1>2, <1>4, TurnsExist
  <2>2. QED
    BY <2>1 DEF TurnsOf
<1>6. ASSUME NEW i \in 0 .. n
      PROVE  f[i] = IF i = 0 THEN start ELSE Within(f[i - 1], rs[i])
  <2>1. f[i] = IF i = 0 THEN start ELSE turn[<<f[i - 1], i>>]
    BY <1>5
  <2>2. i # 0 => f[i - 1] \in S /\ i \in 1 .. n
    BY <1>1
  <2>3. QED
    BY <2>1, <2>2, <1>3
<1>7. f = [i \in 0 .. n |-> IF i = 0 THEN start ELSE Within(f[i - 1], rs[i])]
  <2>1. f = [i \in 0 .. n |-> f[i]]
    OBVIOUS
  <2>2. QED
    BY <2>1, <1>6
<1> DEFINE acc[i \in 0 .. n] == IF i = 0 THEN start ELSE Within(acc[i - 1], rs[i])
<1>8. Iterations(rs) = acc[n]
  BY DEF Iterations, Turns, n, start
<1>9. acc = [i \in 0 .. n |-> IF i = 0 THEN start ELSE Within(acc[i - 1], rs[i])]
  <2>1. \E g : g = [i \in 0 .. n |-> IF i = 0 THEN start ELSE Within(g[i - 1], rs[i])]
    BY <1>7
  <2>2. QED
    BY <2>1 DEF acc
<1> HIDE DEF acc
<1>10. acc[0] = start /\ \A i \in 1 .. n : acc[i] = Within(acc[i - 1], rs[i])
  <2> DEFINE body(i) == IF i = 0 THEN start ELSE Within(acc[i - 1], rs[i])
  <2>1. acc = [i \in 0 .. n |-> body(i)]
    BY <1>9
  <2>2. body(0) = start /\ \A i \in 1 .. n : body(i) = Within(acc[i - 1], rs[i])
    OBVIOUS
  <2> HIDE DEF body
  <2>3. \A i \in 0 .. n : acc[i] = body(i)
    BY <2>1
  <2>4. 0 \in 0 .. n /\ \A i \in 1 .. n : i \in 0 .. n
    BY <1>1
  <2>5. QED
    BY <2>2, <2>3, <2>4
<1> DEFINE P == {i \in 0 .. n : Lists(acc[i], rs, i)}
<1>11. 0 \in P
  <2>1. /\ start \in Seq(Seq(Indices)) /\ Len(start) = 1 /\ start[1] = <<>>
        /\ \A x \in [1 .. 0 -> Indices] : x = <<>>
        /\ <<>> \in [1 .. 0 -> Indices]
    BY DEF start
  <2>2. Lists(start, rs, 0)
    BY <2>1 DEF Lists, InPrefix
  <2>3. QED
    BY <1>1, <1>10, <2>2
<1>12. ASSUME NEW i \in 0 .. n - 1, i \in P
       PROVE  i + 1 \in P
  <2>1. Lists(acc[i], rs, i) /\ i \in Nat /\ i + 1 \in 1 .. n /\ (i + 1) - 1 = i
    BY <1>1, <1>12
  <2>2. acc[i + 1] = Within(acc[i], rs[i + 1]) /\ rs[i + 1] \in Ranges
    BY <1>1, <1>10, <2>1
  <2>3. Lists(Within(acc[i], rs[i + 1]), rs, i + 1)
    BY <2>1, <2>2, WithinLists
  <2>4. QED
    BY <2>1, <2>2, <2>3
<1>13. n \in P
  <2> HIDE DEF P
  <2>1. n \in 0 .. n
    BY <1>1
  <2>2. QED
    BY <1>1, <1>11, <1>12, <2>1, UpToInduction
<1>14. QED
  BY <1>8, <1>13 DEF n

-----------------------------------------------------------------------------
(***************************************************************************)
(* The successor of a tuple.                                               *)
(***************************************************************************)
LEMMA LeastOf ==
  ASSUME NEW T \in SUBSET Nat, T # {}
  PROVE  \E x \in T : \A y \in T : x <= y
<1> DEFINE S == {n \in Nat : \A y \in T : n <= y}
<1>1. S \in SUBSET Nat /\ 0 \in S
  OBVIOUS
<1>2. S # Nat
  <2>1. PICK t \in T : TRUE
    OBVIOUS
  <2>2. t + 1 \in Nat /\ t + 1 \notin S
    BY <2>1
  <2>3. QED
    BY <2>2
<1> HIDE DEF S
<1>3. PICK n \in S : n + 1 \notin S
  BY <1>1, <1>2, SetInduction
<1>4. n \in Nat /\ \A y \in T : n <= y
  BY <1>3 DEF S
<1>5. PICK y \in T : ~(n + 1 <= y)
  BY <1>3, <1>4 DEF S
<1>6. y = n
  BY <1>4, <1>5
<1>7. QED
  BY <1>4, <1>6

LEMMA GreatestOf ==
  ASSUME NEW n \in Nat, NEW T \in SUBSET (1 .. n), T # {}
  PROVE  \E x \in T : \A y \in T : y <= x
<1> DEFINE U == {n - y : y \in T}
<1>1. U \in SUBSET Nat /\ U # {}
  <2>1. PICK t \in T : TRUE
    OBVIOUS
  <2>2. n - t \in U
    BY <2>1
  <2>3. \A y \in T : n - y \in Nat
    OBVIOUS
  <2>4. QED
    BY <2>2, <2>3
<1> HIDE DEF U
<1>2. PICK u \in U : \A v \in U : u <= v
  BY <1>1, LeastOf
<1>3. PICK x \in T : u = n - x
  BY DEF U
<1>4. \A y \in T : n - y \in U
  BY DEF U
<1>5. \A y \in T : n - x <= n - y
  BY <1>2, <1>3, <1>4
<1>6. QED
  BY <1>5

\* Two values of a range are a step apart.
LEMMA StepApart ==
  ASSUME NEW r \in Ranges, NEW v \in Int, NEW w \in Int, ValueInRange(v, r), ValueInRange(w, r), v < w
  PROVE  v + r.step <= w
<1> DEFINE ts == Trips(r)
           n == Len(ts)
<1>1. /\ n \in Nat
      /\ \A i \in 1 .. n : ts[i] \in Int /\ ts[i] = r.lb + (i - 1) * r.step
      /\ \A i, j \in 1 .. n : i < j => ts[i] < ts[j]
      /\ \A y \in Int : ValueInRange(y, r) => \E i \in 1 .. n : y = ts[i]
  BY TripsLaws
<1>2. r.step \in Nat \ {0} /\ r.lb \in Nat
  BY RangeParts
<1> HIDE DEF ts, n
<1>3. PICK i \in 1 .. n : v = ts[i]
  BY <1>1
<1>4. PICK j \in 1 .. n : w = ts[j]
  BY <1>1
<1>5. i < j
  <2>1. j < i => ts[j] < ts[i]
    BY <1>1
  <2>2. QED
    BY <2>1, <1>1, <1>3, <1>4
<1>6. i * r.step <= (j - 1) * r.step /\ i * r.step = (i - 1) * r.step + r.step
  BY <1>2, <1>5, ProductsGrow
<1> DEFINE a == (i - 1) * r.step
           b == (j - 1) * r.step
<1>7. a \in Int /\ b \in Int /\ a + r.step <= b /\ v = r.lb + a /\ w = r.lb + b
  BY <1>1, <1>2, <1>3, <1>4, <1>6
<1> HIDE DEF a, b
<1>8. QED
  BY <1>2, <1>7

\* After a value the loop can advance from comes that value and the step, the least that is greater.
LEMMA AdvancedIsInRange ==
  ASSUME NEW r \in Ranges, NEW v \in Int, ValueInRange(v, r), v + r.step < r.ub
  PROVE  ValueInRange(v + r.step, r)
<1> DEFINE ts == Trips(r)
           n == Len(ts)
<1>1. /\ n \in Nat
      /\ \A i \in 1 .. n : ts[i] \in Int /\ ValueInRange(ts[i], r) /\ (ts[i] + r.step < r.ub <=> i < n)
      /\ \A y \in Int : ValueInRange(y, r) => \E i \in 1 .. n : y = ts[i]
  BY TripsLaws
<1>2. PICK i \in 1 .. n : v = ts[i]
  BY <1>1
<1>3. i \in Nat \ {0} /\ i < n /\ i + 1 \in 1 .. n
  BY <1>1, <1>2
<1>4. ts[i + 1] = ts[i] + r.step
  BY <1>3, NextTrip
<1>5. ts[i + 1] = v + r.step
  BY <1>2, <1>4
<1> HIDE DEF ts
<1>6. QED
  BY <1>1, <1>3, <1>5

\* The counter that advances is the innermost that can; those outside it stay, and those inside
\* it start again.
LEMMA SuccessorParts ==
  ASSUME NEW rs \in Nests, NEW k, InNest(k, rs), NEW i \in 1 .. Len(rs), CanAdvance(k, rs, i)
  PROVE  \E c \in 1 .. Len(rs) :
           /\ i <= c /\ k[c] + rs[c].step < rs[c].ub
           /\ DOMAIN Successor(k, rs) = 1 .. Len(rs)
           /\ \A d \in 1 .. c - 1 : Successor(k, rs)[d] = k[d]
           /\ Successor(k, rs)[c] = k[c] + rs[c].step
           /\ \A d \in c + 1 .. Len(rs) : Successor(k, rs)[d] = rs[d].lb
<1> DEFINE n == Len(rs)
           carries == {e \in DOMAIN k : /\ CanAdvance(k, rs, e)
                                        /\ \A inner \in e + 1 .. Len(k) : ~CanAdvance(k, rs, inner)}
           T == {e \in 1 .. n : CanAdvance(k, rs, e)}
<1>1. n \in Nat /\ DOMAIN k = 1 .. n /\ k \in [1 .. n -> Indices]
  BY NestParts, NestTuples
<1>2. Len(k) = n
  BY <1>1
<1>3. i \in T
  OBVIOUS
<1>4. PICK c \in T : \A e \in T : e <= c
  <2>1. T \in SUBSET (1 .. n) /\ T # {}
    BY <1>3
  <2> HIDE DEF T
  <2>2. QED
    BY <1>1, <2>1, GreatestOf
<1>5. c \in 1 .. n /\ i <= c /\ CanAdvance(k, rs, c)
  BY <1>3, <1>4
<1>6. c \in carries
  <2>1. \A inner \in c + 1 .. n : inner \in 1 .. n /\ ~(inner <= c)
    BY <1>5
  <2>2. \A inner \in c + 1 .. n : ~CanAdvance(k, rs, inner)
    BY <1>4, <2>1
  <2>3. QED
    BY <1>1, <1>2, <1>5, <2>2
<1>7. ASSUME NEW e \in carries
      PROVE  e = c
  <2>1. e \in T /\ \A inner \in e + 1 .. n : ~CanAdvance(k, rs, inner)
    BY <1>1, <1>2
  <2>2. e <= c /\ ~(e < c)
    <3>1. e <= c
      BY <1>4, <2>1
    <3>2. e < c => c \in e + 1 .. n
      BY <1>1, <1>5, <2>1
    <3>3. QED
      BY <3>1, <3>2, <1>5, <2>1
  <2>3. QED
    BY <2>1, <2>2, <1>5
<1> HIDE DEF carries
<1>8. carries = {c}
  BY <1>6, <1>7
<1>9. Successor(k, rs) =
        [d \in 1 .. n |->
           IF \A e \in carries : d < e THEN k[d] ELSE IF d \in carries THEN k[d] + rs[d].step ELSE rs[d].lb]
  BY <1>1 DEF Successor, carries
<1>10. Successor(k, rs) = [d \in 1 .. n |-> IF d < c THEN k[d] ELSE IF d = c THEN k[d] + rs[d].step ELSE rs[d].lb]
  BY <1>8, <1>9
<1>11. /\ \A d \in 1 .. c - 1 : d \in 1 .. n /\ d < c
       /\ \A d \in c + 1 .. n : d \in 1 .. n /\ ~(d < c) /\ d # c
       /\ ~(c < c)
  BY <1>1, <1>5
<1>12. k[c] + rs[c].step < rs[c].ub
  BY <1>5 DEF CanAdvance
<1>13. /\ DOMAIN Successor(k, rs) = 1 .. n
       /\ \A d \in 1 .. c - 1 : Successor(k, rs)[d] = k[d]
       /\ Successor(k, rs)[c] = k[c] + rs[c].step
       /\ \A d \in c + 1 .. n : Successor(k, rs)[d] = rs[d].lb
  <2> HIDE DEF T, n
  <2>1. QED
    BY <1>5, <1>10, <1>11
<1>14. QED
  BY <1>5, <1>12, <1>13

\* The successor of a tuple that is not the last is the least of those after it.
LEMMA SuccessorIsNext ==
  ASSUME NEW rs \in Nests, NEW k, InNest(k, rs), NEW y, InNest(y, rs), Precedes(k, y)
  PROVE  LET s == Successor(k, rs)
         IN InNest(s, rs) /\ Precedes(k, s) /\ (s = y \/ Precedes(s, y))
<1> DEFINE s == Successor(k, rs)
           n == Len(rs)
<1>1. n \in Nat /\ DOMAIN rs = 1 .. n /\ \A d \in 1 .. n : rs[d] \in Ranges
  BY NestParts
<1>2. /\ DOMAIN k = 1 .. n /\ DOMAIN y = 1 .. n
      /\ \A d \in 1 .. n : /\ k[d] \in Int /\ y[d] \in Int /\ ValueInRange(k[d], rs[d]) /\ ValueInRange(y[d], rs[d])
                           /\ rs[d].lb <= k[d] /\ k[d] < rs[d].ub /\ rs[d].lb <= y[d] /\ y[d] < rs[d].ub
                           /\ k[d] \in 0 .. Extent
  <2>1. /\ DOMAIN k = 1 .. n /\ DOMAIN y = 1 .. n
        /\ \A d \in DOMAIN rs : /\ k[d] \in Nat /\ rs[d].lb <= k[d] /\ k[d] < rs[d].ub
                               /\ y[d] \in Nat /\ rs[d].lb <= y[d] /\ y[d] < rs[d].ub
    BY NestTuples
  <2>2. /\ \A d \in DOMAIN rs : ValueInRange(k[d], rs[d]) /\ ValueInRange(y[d], rs[d])
        /\ k \in [DOMAIN rs -> 0 .. Extent]
    BY DEF InNest, Counters
  <2> HIDE DEF n
  <2>3. QED
    BY <1>1, <2>1, <2>2
<1>3. PICK i \in 1 .. n : k[i] < y[i] /\ \A j \in 1 .. i - 1 : k[j] = y[j]
  BY <1>2 DEF Precedes
<1>4. \A d \in 1 .. n : rs[d].lb \in 0 .. Extent /\ rs[d].step \in Nat \ {0} /\ rs[d].ub \in Nat /\ rs[d].ub <= Extent
                        /\ rs[d].lb \in Int
  BY <1>1, RangeParts, ExtentIsNat
<1>5. CanAdvance(k, rs, i)
  <2>1. k[i] + rs[i].step <= y[i]
    BY <1>1, <1>2, <1>3, StepApart
  <2>2. k[i] + rs[i].step < rs[i].ub
    BY <1>2, <1>4, <2>1
  <2>3. QED
    BY <2>2 DEF CanAdvance
<1>6. PICK c \in 1 .. n :
        /\ i <= c /\ k[c] + rs[c].step < rs[c].ub /\ DOMAIN s = 1 .. n
        /\ \A d \in 1 .. c - 1 : s[d] = k[d]
        /\ s[c] = k[c] + rs[c].step
        /\ \A d \in c + 1 .. n : s[d] = rs[d].lb
  BY <1>5, SuccessorParts
<1>7. s = [d \in 1 .. n |-> s[d]]
  BY <1>6 DEF Successor
<1> HIDE DEF s, n
<1>8. \A d \in 1 .. n : d \in 1 .. c - 1 \/ d = c \/ d \in c + 1 .. n
  BY <1>1
<1>9. ASSUME NEW d \in 1 .. n
      PROVE  s[d] \in 0 .. Extent /\ s[d] \in Int /\ ValueInRange(s[d], rs[d])
  <2>1. CASE d \in 1 .. c - 1
    BY <1>2, <1>6, <2>1
  <2>2. CASE d = c
    <3>1. ValueInRange(s[c], rs[c])
      BY <1>1, <1>2, <1>6, AdvancedIsInRange
    <3>2. s[c] \in 0 .. Extent
      <4>1. s[c] \in Int /\ 0 <= s[c] /\ s[c] < rs[c].ub
        BY <1>2, <1>4, <1>6
      <4>2. rs[c].ub \in Nat /\ rs[c].ub <= Extent /\ Extent \in Nat
        BY <1>4, ExtentIsNat
      <4>3. QED
        BY <4>1, <4>2
    <3>3. QED
      BY <2>2, <3>1, <3>2
  <2>3. CASE d \in c + 1 .. n
    <3>1. s[d] = rs[d].lb /\ rs[d].lb < rs[d].ub
      BY <1>2, <1>4, <1>6, <2>3
    <3>2. (rs[d].lb - rs[d].lb) % rs[d].step = 0
      <4>1. rs[d].lb - rs[d].lb = 0 /\ 0 % rs[d].step = 0
        BY <1>4
      <4>2. QED
        BY <4>1
    <3>3. QED
      BY <1>4, <3>1, <3>2 DEF ValueInRange
  <2>4. QED
    BY <1>8, <2>1, <2>2, <2>3
<1>10. InNest(s, rs)
  BY <1>1, <1>7, <1>9 DEF InNest, Counters
<1>11. Precedes(k, s)
  <2>1. k[c] < s[c] /\ c \in DOMAIN s /\ \A d \in 1 .. c - 1 : k[d] = s[d]
    BY <1>2, <1>4, <1>6
  <2>2. QED
    BY <2>1 DEF Precedes
<1>12. s = y \/ Precedes(s, y)
  <2>1. CASE i < c
    <3>1. i \in 1 .. c - 1 /\ \A j \in 1 .. i - 1 : j \in 1 .. c - 1
      BY <2>1
    <3>2. s[i] < y[i] /\ \A j \in 1 .. i - 1 : s[j] = y[j]
      BY <1>3, <1>6, <3>1
    <3>3. QED
      BY <1>2, <3>2 DEF Precedes
  <2>2. CASE i = c
    <3>1. s[c] <= y[c] /\ \A j \in 1 .. c - 1 : s[j] = y[j]
      <4>1. k[c] + rs[c].step <= y[c]
        BY <1>1, <1>2, <1>3, <2>2, StepApart
      <4>2. QED
        BY <4>1, <1>3, <1>6, <2>2
    <3>2. \A d \in c .. n : s[d] <= y[d]
      <4>1. \A d \in c + 1 .. n : d \in 1 .. n /\ s[d] <= y[d]
        BY <1>2, <1>6
      <4>2. \A d \in c .. n : d = c \/ d \in c + 1 .. n
        BY <1>1
      <4>3. QED
        BY <3>1, <4>1, <4>2
    <3> DEFINE D == {d \in 1 .. n : s[d] # y[d]}
    <3>3. CASE D = {}
      <4>1. \A d \in 1 .. n : s[d] = y[d]
        BY <3>3
      <4>2. y = [d \in 1 .. n |-> y[d]]
        BY <1>2, <1>10, NestTuples DEF n
      <4>3. QED
        BY <1>7, <4>1, <4>2
    <3>4. CASE D # {}
      <4>1. D \in SUBSET Nat
        BY <1>1
      <4>2. PICK e \in D : \A d \in D : e <= d
        <5> HIDE DEF D
        <5>1. QED
          BY <3>4, <4>1, LeastOf
      <4>3. e \in 1 .. n /\ s[e] # y[e] /\ \A d \in 1 .. e - 1 : s[d] = y[d]
        <5>1. e \in 1 .. n /\ s[e] # y[e]
          OBVIOUS
        <5>2. \A d \in 1 .. e - 1 : d \in 1 .. n /\ ~(e <= d)
          BY <5>1, <1>1
        <5>3. \A d \in 1 .. n : s[d] # y[d] => d \in D
          OBVIOUS
        <5>4. QED
          BY <4>2, <5>1, <5>2, <5>3
      <4>4. e \in c .. n
        <5>1. e \notin 1 .. c - 1
          BY <3>1, <4>3
        <5>2. QED
          BY <4>3, <5>1, <1>8
      <4>5. s[e] < y[e]
        BY <3>2, <4>3, <4>4, <1>2, <1>9
      <4>6. QED
        BY <1>2, <4>3, <4>5 DEF Precedes
    <3>5. QED
      BY <3>3, <3>4
  <2>3. QED
    BY <2>1, <2>2, <1>6
<1>13. QED
  BY <1>10, <1>11, <1>12 DEF s

-----------------------------------------------------------------------------
(***************************************************************************)
(* The execution of a nest.                                                *)
(***************************************************************************)
\* What an enumeration of the tuples of a nest is.
Enumerates(its, rs) ==
  /\ Len(its) \in Nat /\ DOMAIN its = 1 .. Len(its)
  /\ \A i \in 1 .. Len(its) : InNest(its[i], rs)
  /\ \A i, j \in 1 .. Len(its) : i < j => Precedes(its[i], its[j])
  /\ \A x : InNest(x, rs) => \E i \in 1 .. Len(its) : x = its[i]
  /\ \A i \in 1 .. Len(its) - 1 : Successor(its[i], rs) = its[i + 1]

LEMMA PrecedesIsStrict ==
  ASSUME NEW rs \in Nests, NEW x, NEW y, InNest(x, rs), InNest(y, rs)
  PROVE  ~Precedes(x, x) /\ ~(Precedes(x, y) /\ Precedes(y, x))
<1>1. /\ DOMAIN x = 1 .. Len(rs) /\ DOMAIN y = 1 .. Len(rs) /\ DOMAIN rs = 1 .. Len(rs) /\ Len(rs) \in Nat
      /\ \A d \in 1 .. Len(rs) : x[d] \in Nat /\ y[d] \in Nat
  BY NestTuples, NestParts
<1>2. ~Precedes(x, x)
  BY <1>1 DEF Precedes
<1>3. ASSUME Precedes(x, y), Precedes(y, x)
      PROVE  FALSE
  <2>1. PICK i \in 1 .. Len(rs) : x[i] < y[i] /\ \A j \in 1 .. i - 1 : x[j] = y[j]
    BY <1>1, <1>3 DEF Precedes
  <2>2. PICK k \in 1 .. Len(rs) : y[k] < x[k] /\ \A j \in 1 .. k - 1 : y[j] = x[j]
    BY <1>1, <1>3 DEF Precedes
  <2>3. i \in 1 .. k - 1 \/ i = k \/ k \in 1 .. i - 1
    BY <1>1
  <2>4. QED
    BY <2>1, <2>2, <2>3, <1>1
<1>4. QED
  BY <1>2, <1>3

\* The execution goes through the tuples of a nest, each once, in lexicographic order.
LEMMA NestsAreEnumerated ==
  ASSUME NEW rs \in Nests
  PROVE  Enumerates(Iterations(rs), rs)
<1> DEFINE its == Iterations(rs)
           n == Len(its)
           d == Len(rs)
<1>1. DOMAIN rs = 1 .. d /\ d \in Nat
  BY NestParts
<1>2. Lists(its, rs, d)
  BY IterationsList
<1>3. n \in Nat /\ DOMAIN its = 1 .. n
  BY <1>2, LenProperties DEF Lists
<1>4. ASSUME NEW x
      PROVE  InPrefix(x, rs, d) <=> InNest(x, rs)
  <2>1. ASSUME InPrefix(x, rs, d)
        PROVE  InNest(x, rs)
    <3>1. Indices \subseteq 0 .. Extent
      BY ExtentIsNat DEF Indices
    <3>2. x \in [1 .. d -> 0 .. Extent]
      BY <2>1, <3>1 DEF InPrefix
    <3>3. QED
      BY <1>1, <2>1, <3>2 DEF InPrefix, InNest, Counters
  <2>2. ASSUME InNest(x, rs)
        PROVE  InPrefix(x, rs, d)
    BY <1>1, <2>2, NestTuples DEF InNest, InPrefix
  <2>3. QED
    BY <2>1, <2>2
<1> HIDE DEF its, n, d
<1>5. /\ \A i \in 1 .. n : InNest(its[i], rs)
      /\ \A i, j \in 1 .. n : i < j => Precedes(its[i], its[j])
      /\ \A x : InNest(x, rs) => \E i \in 1 .. n : x = its[i]
  BY <1>2, <1>4 DEF Lists, n
<1>6. ASSUME NEW i \in 1 .. n - 1
      PROVE  Successor(its[i], rs) = its[i + 1]
  <2> DEFINE s == Successor(its[i], rs)
  <2>1. i \in 1 .. n /\ i + 1 \in 1 .. n /\ i < i + 1
    BY <1>3
  <2>2. InNest(its[i], rs) /\ InNest(its[i + 1], rs) /\ Precedes(its[i], its[i + 1])
    BY <1>5, <2>1
  <2>3. InNest(s, rs) /\ Precedes(its[i], s) /\ (s = its[i + 1] \/ Precedes(s, its[i + 1]))
    BY <2>2, SuccessorIsNext
  <2> HIDE DEF s
  <2>4. PICK j \in 1 .. n : s = its[j]
    BY <1>5, <2>3
  <2>5. i < j
    <3>1. j < i => Precedes(its[j], its[i])
      BY <1>5, <2>1
    <3>2. ~Precedes(its[i], its[i]) /\ ~(Precedes(its[i], s) /\ Precedes(s, its[i]))
      BY <2>2, <2>3, PrecedesIsStrict
    <3>3. QED
      BY <2>1, <2>3, <2>4, <3>1, <3>2
  <2>6. ~(i + 1 < j) \/ s = its[i + 1]
    <3>1. i + 1 < j => Precedes(its[i + 1], s)
      BY <1>5, <2>1, <2>4
    <3>2. ~(Precedes(s, its[i + 1]) /\ Precedes(its[i + 1], s))
      BY <2>2, <2>3, PrecedesIsStrict
    <3>3. QED
      BY <2>3, <3>1, <3>2
  <2>7. ~(i + 1 < j) => j = i + 1
    BY <2>1, <2>4, <2>5
  <2>8. QED
    BY <2>4, <2>6, <2>7 DEF s
<1>7. QED
  BY <1>3, <1>5, <1>6 DEF Enumerates, its, n

\* In a nest at its n-th tuple, getLoopAntecedent describes the tuples executed so far, and with
\* stepIter that one too.
LEMMA AntecedentIsExecuted ==
  ASSUME NEW rs \in Nests, NEW n \in 1 .. Len(Iterations(rs)), NEW x \in Counters(rs)
  PROVE  LET its == Iterations(rs)
         IN /\ GetLoopAntecedent(x, its[n], rs, FALSE) <=> \E i \in 1 .. n - 1 : x = its[i]
            /\ n < Len(its) => (GetLoopAntecedent(x, its[n], rs, TRUE) <=> \E i \in 1 .. n : x = its[i])
<1> DEFINE its == Iterations(rs)
           m == Len(its)
<1>1. /\ m \in Nat
      /\ \A i \in 1 .. m : InNest(its[i], rs)
      /\ \A i, j \in 1 .. m : i < j => Precedes(its[i], its[j])
      /\ \A y : InNest(y, rs) => \E i \in 1 .. m : y = its[i]
      /\ \A i \in 1 .. m - 1 : Successor(its[i], rs) = its[i + 1]
  BY NestsAreEnumerated DEF Enumerates
<1>2. n \in 1 .. m
  OBVIOUS
<1> HIDE DEF its, m
<1>3. ASSUME NEW i \in 1 .. m, NEW j \in 1 .. m
      PROVE  Precedes(its[i], its[j]) <=> i < j
  <2>1. InNest(its[i], rs) /\ InNest(its[j], rs)
    BY <1>1
  <2>2. ~Precedes(its[i], its[i]) /\ ~(Precedes(its[i], its[j]) /\ Precedes(its[j], its[i]))
    BY <2>1, PrecedesIsStrict
  <2>3. CASE i < j
    BY <1>1, <2>3
  <2>4. CASE i = j
    BY <2>2, <2>4
  <2>5. CASE j < i
    BY <1>1, <2>2, <2>5
  <2>6. QED
    BY <2>3, <2>4, <2>5, <1>1
\* The tuples of the nest before one of them are those executed before it.
<1>4. ASSUME NEW j \in 1 .. m
      PROVE  (InNest(x, rs) /\ Precedes(x, its[j])) <=> \E i \in 1 .. j - 1 : x = its[i]
  <2>1. ASSUME InNest(x, rs), Precedes(x, its[j])
        PROVE  \E i \in 1 .. j - 1 : x = its[i]
    <3>1. PICK i \in 1 .. m : x = its[i]
      BY <1>1, <2>1
    <3>2. i < j
      BY <1>3, <2>1, <3>1
    <3>3. i \in 1 .. j - 1
      BY <3>2, <1>1
    <3>4. QED
      BY <3>1, <3>3
  <2>2. ASSUME NEW i \in 1 .. j - 1, x = its[i]
        PROVE  InNest(x, rs) /\ Precedes(x, its[j])
    <3>1. i \in 1 .. m /\ i < j
      BY <1>1
    <3>2. QED
      BY <1>1, <2>2, <3>1
  <2>3. QED
    BY <2>1, <2>2
<1>5. GetLoopAntecedent(x, its[n], rs, FALSE) <=> InNest(x, rs) /\ Precedes(x, its[n])
  BY <1>1, <1>2, AntecedentIsBefore
<1>6. ASSUME n < m
      PROVE  GetLoopAntecedent(x, its[n], rs, TRUE) <=> \E i \in 1 .. n : x = its[i]
  <2>1. n + 1 \in 1 .. m /\ n \in 1 .. m - 1 /\ (n + 1) - 1 = n
    BY <1>1, <1>2, <1>6
  <2>2. Successor(its[n], rs) = its[n + 1] /\ InNest(its[n + 1], rs)
    BY <2>1, <1>1
  <2>3. GetLoopAntecedent(x, its[n], rs, TRUE) <=> InNest(x, rs) /\ Precedes(x, its[n + 1])
    <3>1. InNest(Successor(its[n], rs), rs)
      BY <2>2
    <3>2. GetLoopAntecedent(x, its[n], rs, TRUE) <=> InNest(x, rs) /\ Precedes(x, Successor(its[n], rs))
      BY <3>1, AntecedentIsBefore
    <3>3. QED
      BY <2>2, <3>2
  <2>4. (InNest(x, rs) /\ Precedes(x, its[n + 1])) <=> \E i \in 1 .. (n + 1) - 1 : x = its[i]
    BY <2>1, <1>4
  <2>5. QED
    BY <2>1, <2>3, <2>4
<1>7. QED
  BY <1>2, <1>4, <1>5, <1>6 DEF its, m
=============================================================================
