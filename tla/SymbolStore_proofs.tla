---------------------------- MODULE SymbolStore_proofs ----------------------------
(***************************************************************************)
(* Lemmas about the operators of SymbolStore, for any values, parameters   *)
(* and stores: what a write leaves of the entries it may alias, and what a *)
(* join makes of two entries.                                              *)
(***************************************************************************)
EXTENDS SymbolStore, FiniteSetTheorems, SequenceTheorems, WellFoundedInduction, TLAPS

(***************************************************************************)
(* Induction over the natural numbers, stated of a set.                    *)
(***************************************************************************)
LEMMA SetInduction ==
  ASSUME NEW S \in SUBSET Nat, 0 \in S, \A n \in S : n + 1 \in S
  PROVE  S = Nat
<1> DEFINE R == {ss \in Nat \X Nat : ss[1] < ss[2]}
<1>1. IsWellFoundedOn(OpToRel(<, Nat), Nat)
  BY NatLessThanWellFounded
<1>2. OpToRel(<, Nat) = R
  BY DEF OpToRel
<1>3. IsWellFoundedOn(R, Nat)
  BY <1>1, <1>2
<1> DEFINE T == Nat \ S
<1>4. SUFFICES ASSUME T # {} PROVE FALSE
  OBVIOUS
<1>5. PICK x \in T : \A y \in T : ~(<<y, x>> \in R)
  <2> HIDE DEF R, T
  <2>1. T \subseteq Nat
    BY DEF T
  <2>2. QED
    BY <1>3, <1>4, <2>1, WFMin
<1>6. x \in Nat /\ x # 0 /\ x - 1 \in Nat /\ <<x - 1, x>> \in R
  OBVIOUS
<1>7. x - 1 \in S
  BY <1>5, <1>6
<1>8. QED
  BY <1>6, <1>7

-----------------------------------------------------------------------------
(***************************************************************************)
(* Symbols.                                                                *)
(***************************************************************************)

\* What kinds of symbols a value has: constants, and unknowns the pool has numbered.
LEMMA SymbolKinds ==
  ASSUME NEW n \in Nat, NEW s \in Symbols(n)
  PROVE  /\ s = <<s[1], s[2], s[3]>>
         /\ IsUnknown(s) => s[2] \in 0 .. n - 1 /\ s = Unknown(s[2])
         /\ ~IsUnknown(s) => s[1] = "const" /\ s[2] \in Values
BY DEF Symbols, IsUnknown, Unknown, Constant

\* A pool that numbers more unknowns keeps the symbols it has.
LEMMA SymbolsGrow ==
  ASSUME NEW m \in Nat, NEW n \in Nat, m <= n
  PROVE  Symbols(m) \subseteq Symbols(n)
BY DEF Symbols

LEMMA UnknownsAreSymbols ==
  ASSUME NEW n \in Nat, NEW i \in 0 .. n - 1
  PROVE  Unknown(i) \in Symbols(n) /\ IsUnknown(Unknown(i)) /\ Unknown(i)[2] = i
BY DEF Symbols, Unknown, IsUnknown

LEMMA UnknownsDiffer ==
  \A i, j : Unknown(i) = Unknown(j) => i = j
BY DEF Unknown

\* Symbols with equal contents denote the same in every run.
LEMMA EqualDenote ==
  ASSUME NEW s, NEW t, Equal(s, t), NEW params, NEW unknowns
  PROVE  Denotes(s, params, unknowns) = Denotes(t, params, unknowns)
BY DEF Equal, Denotes

LEMMA EqualLaws ==
  /\ \A s : Equal(s, s)
  /\ \A s, t : Equal(s, t) => Equal(t, s) /\ (IsUnknown(s) <=> IsUnknown(t))
  /\ \A s, t, u : Equal(s, t) /\ Equal(t, u) => Equal(s, u)
BY DEF Equal, IsUnknown

LEMMA SymbolsDenoteValues ==
  ASSUME NEW n \in Nat, NEW s \in Symbols(n), NEW params, NEW unknowns \in [Nat -> Values]
  PROVE  Denotes(s, params, unknowns) \in Values
BY DEF Symbols, Denotes, Constant, Unknown

\* Runs that agree on the unknowns numbered so far.
Agree(n, u, v) == \A i \in 0 .. n - 1 : u[i] = v[i]

LEMMA AgreeDenote ==
  ASSUME NEW n \in Nat, NEW s \in Symbols(n), NEW params, NEW u, NEW v, Agree(n, u, v)
  PROVE  Denotes(s, params, u) = Denotes(s, params, v)
BY DEF Symbols, Denotes, Constant, Unknown, Agree

LEMMA CanEqualLaws ==
  /\ \A s : CanEqual(s, s)
  /\ \A s, t : CanEqual(s, t) => CanEqual(t, s)
BY DEF CanEqual, IsUnknown

-----------------------------------------------------------------------------
(***************************************************************************)
(* Writes.                                                                 *)
(***************************************************************************)
IsPool(p) ==
  /\ p = [next |-> p.next, memo |-> p.memo, misjoins |-> p.misjoins]
  /\ p.next \in Nat /\ p.misjoins \subseteq {"unknown"}
  /\ p.memo \in [DOMAIN p.memo -> Symbols(p.next)]

IsStore(entries, n) ==
  entries \in [DOMAIN entries -> Symbols(n)] /\ IsFiniteSet(DOMAIN entries)

\* A finite set has as many fresh numbers as it has members.
LEMMA FreshNumbers ==
  ASSUME NEW S, IsFiniteSet(S), NEW n \in Nat
  PROVE  /\ Cardinality(S) \in Nat
         /\ \E f \in [S -> n .. n + Cardinality(S) - 1] : IsInjective(f)
<1> DEFINE c == Cardinality(S)
<1>1. c \in Nat /\ ExistsBijection(1 .. c, S)
  BY FS_CardinalityType
<1>2. PICK g : g \in Bijection(1 .. c, S)
  BY <1>1 DEF ExistsBijection
<1>3. g \in [1 .. c -> S] /\ (\A i, j \in 1 .. c : g[i] = g[j] => i = j) /\ \A t \in S : \E i \in 1 .. c : g[i] = t
  BY <1>2 DEF Bijection, Injection, Surjection, IsInjective
<1> HIDE DEF c
<1> DEFINE h == [t \in S |-> CHOOSE i \in 1 .. c : g[i] = t]
<1>4. ASSUME NEW t \in S
      PROVE  h[t] \in 1 .. c /\ g[h[t]] = t
  BY <1>3
<1> HIDE DEF h
<1> DEFINE f == [t \in S |-> n + h[t] - 1]
<1>5. f \in [S -> n .. n + c - 1]
  BY <1>1, <1>4
<1>6. ASSUME NEW s \in S, NEW t \in S, f[s] = f[t]
      PROVE  s = t
  <2>1. h[s] = h[t]
    BY <1>6, <1>4
  <2>2. QED
    BY <2>1, <1>4
<1>7. IsInjective(f)
  BY <1>6 DEF IsInjective
<1>8. QED
  BY <1>1, <1>5, <1>7 DEF c

\* What a write does: nothing if the symbol is there; else the entries the location may alias, and
\* no others, become unknowns that nothing else is.
WriteEffect(pool, entries, key, sym, w) ==
  /\ w.pool = [next |-> w.pool.next, memo |-> pool.memo, misjoins |-> pool.misjoins]
  /\ w.pool.next \in Nat /\ pool.next <= w.pool.next
  /\ IsStore(w.entries, w.pool.next)
  /\ DOMAIN w.entries = DOMAIN entries \cup {key}
  /\ Equal(w.entries[key], sym)
  /\ \/ w.entries = entries /\ w.pool = pool
     \/ /\ w.entries[key] = sym
        /\ \A k \in DOMAIN entries \ {key} :
             IF CanEqual(key, k) THEN \E i \in pool.next .. w.pool.next - 1 : w.entries[k] = Unknown(i)
             ELSE w.entries[k] = entries[k]
  /\ \A j, k \in DOMAIN w.entries : \A i \in pool.next .. w.pool.next - 1 :
       w.entries[j] = Unknown(i) /\ w.entries[k] = Unknown(i) => j = k

LEMMA WriteImplEffect ==
  ASSUME NEW pool, IsPool(pool), NEW entries, IsStore(entries, pool.next),
         NEW key, NEW sym \in Symbols(pool.next),
         NEW w, w = WriteImpl(pool, entries, key, sym)
  PROVE  WriteEffect(pool, entries, key, sym, w)
<1> DEFINE n == pool.next
<1>1. CASE key \in DOMAIN entries /\ Equal(entries[key], sym)
  <2>1. w = [entries |-> entries, pool |-> pool]
    BY <1>1 DEF WriteImpl
  <2>2. w.entries = entries /\ w.pool = pool
    BY <2>1
  <2>3. pool = [next |-> pool.next, memo |-> pool.memo, misjoins |-> pool.misjoins] /\ pool.next \in Nat
    BY DEF IsPool
  <2>4. DOMAIN entries = DOMAIN entries \cup {key}
    BY <1>1
  <2>5. pool.next .. pool.next - 1 = {}
    BY <2>3
  <2>6. QED
    BY <1>1, <2>2, <2>3, <2>4, <2>5 DEF WriteEffect
<1>2. CASE ~(key \in DOMAIN entries /\ Equal(entries[key], sym))
  <2> DEFINE A == Aliases(entries, key)
             last == n + Cardinality(A) - 1
             fresh == CHOOSE f \in [A -> n .. last] : IsInjective(f)
             es == [k \in DOMAIN entries \cup {key} |->
                      IF k = key THEN sym ELSE IF k \in A THEN Unknown(fresh[k]) ELSE entries[k]]
  <2>1. w = [entries |-> es, pool |-> [pool EXCEPT !.next = last + 1]]
    BY <1>2 DEF WriteImpl, HavocWrite
  <2>2. n \in Nat /\ A \subseteq DOMAIN entries
    BY DEF IsPool, Aliases
  <2>3. IsFiniteSet(A)
    BY <2>2, FS_Subset DEF IsStore
  <2>4. Cardinality(A) \in Nat /\ \E f \in [A -> n .. last] : IsInjective(f)
    BY <2>2, <2>3, FreshNumbers
  <2>5. fresh \in [A -> n .. last] /\ \A j, k \in A : fresh[j] = fresh[k] => j = k
    BY <2>4 DEF IsInjective
  <2>6. A = {k \in DOMAIN entries : k # key /\ CanEqual(key, k)}
    BY DEF Aliases
  <2> HIDE DEF A, fresh
  <2>7. w.entries = es /\ w.pool = [pool EXCEPT !.next = last + 1]
    BY <2>1
  <2>8. /\ w.pool.next = last + 1 /\ last + 1 \in Nat /\ n <= last + 1 /\ last \in Int
        /\ w.pool = [next |-> w.pool.next, memo |-> pool.memo, misjoins |-> pool.misjoins]
    BY <2>7, <2>4, <2>2 DEF IsPool
  <2> HIDE DEF last
  <2>9. Symbols(n) \subseteq Symbols(last + 1)
    BY <2>2, <2>8, SymbolsGrow
  <2>10. ASSUME NEW k \in A
         PROVE  fresh[k] \in n .. last /\ fresh[k] \in 0 .. (last + 1) - 1 /\ Unknown(fresh[k]) \in Symbols(last + 1)
    <3>1. fresh[k] \in n .. last /\ fresh[k] \in 0 .. (last + 1) - 1
      BY <2>5, <2>2, <2>8
    <3>2. QED
      BY <3>1, <2>8, UnknownsAreSymbols
  <2>11. ASSUME NEW k \in DOMAIN entries \cup {key}
         PROVE  es[k] \in Symbols(last + 1)
    BY <2>9, <2>10 DEF IsStore
  <2>12. IsStore(es, last + 1)
    <3>1. es \in [DOMAIN es -> Symbols(last + 1)]
      BY <2>11
    <3>2. IsFiniteSet(DOMAIN entries \cup {key})
      BY FS_AddElement DEF IsStore
    <3>3. QED
      BY <3>1, <3>2 DEF IsStore
  <2>13. es[key] = sym /\ Equal(es[key], sym) /\ DOMAIN es = DOMAIN entries \cup {key}
    BY EqualLaws
  <2>14. ASSUME NEW k \in DOMAIN entries \ {key}
         PROVE  IF CanEqual(key, k) THEN \E i \in n .. last : es[k] = Unknown(i) ELSE es[k] = entries[k]
    BY <2>6, <2>10
  <2>15. ASSUME NEW k \in DOMAIN es, NEW i \in n .. last, es[k] = Unknown(i)
         PROVE  k \in A /\ fresh[k] = i
    <3>1. Unknown(i) \notin Symbols(n)
      BY <2>15, <2>2, SymbolKinds, UnknownsDiffer, UnknownsAreSymbols DEF Unknown, Symbols, Constant
    <3>2. k \in A
      BY <2>15, <3>1 DEF IsStore
    <3>3. es[k] = Unknown(fresh[k])
      BY <3>2, <2>6
    <3>4. QED
      BY <3>2, <3>3, <2>15, UnknownsDiffer
  <2> HIDE DEF es
  <2>16. ASSUME NEW j \in DOMAIN es, NEW k \in DOMAIN es, NEW i \in n .. last, es[j] = Unknown(i), es[k] = Unknown(i)
         PROVE  j = k
    BY <2>15, <2>16, <2>5
  <2>17. (last + 1) - 1 = last
    BY <2>8, <2>2
  <2>18. QED
    BY <2>7, <2>8, <2>12, <2>13, <2>14, <2>16, <2>17 DEF WriteEffect
<1>3. QED
  BY <1>1, <1>2

\* Of two entries of an array that may be the same element, at most one is known.
OneKnown(entries) ==
  \A j, k \in DOMAIN entries :
    j # k /\ CanEqual(j, k) => IsUnknown(entries[j]) \/ IsUnknown(entries[k])

LEMMA WriteKeepsOneKnown ==
  ASSUME NEW pool, NEW entries, NEW key, NEW sym, NEW w, WriteEffect(pool, entries, key, sym, w),
         OneKnown(entries)
  PROVE  OneKnown(w.entries)
<1>1. CASE w.entries = entries
  BY <1>1
<1>2. CASE ~(w.entries = entries)
  <2>1. ASSUME NEW k \in DOMAIN w.entries, k # key
        PROVE  /\ k \in DOMAIN entries
               /\ CanEqual(key, k) => IsUnknown(w.entries[k])
               /\ ~CanEqual(key, k) => w.entries[k] = entries[k]
    BY <1>2, <2>1 DEF WriteEffect, IsUnknown, Unknown
  <2>2. SUFFICES ASSUME NEW j \in DOMAIN w.entries, NEW k \in DOMAIN w.entries, j # k, CanEqual(j, k)
                 PROVE  IsUnknown(w.entries[j]) \/ IsUnknown(w.entries[k])
    BY DEF OneKnown
  <2>3. CASE j = key
    BY <2>1, <2>2, <2>3
  <2>4. CASE k = key
    BY <2>1, <2>2, <2>4, CanEqualLaws
  <2>5. CASE j # key /\ k # key
    BY <2>1, <2>2, <2>5 DEF OneKnown
  <2>6. QED
    BY <2>3, <2>4, <2>5
<1>3. QED
  BY <1>1, <1>2

\* Every entry is what the array holds, in a run that gives the unknowns the values u; at says which
\* element a key is.
Describe(entries, cells, at, params, u) ==
  \A k \in DOMAIN entries : cells[at[k]] = Denotes(entries[k], params, u)

\* Keys that are the same element are not told apart.
MayAlias(keys, at) == \A j, k \in keys : at[j] = at[k] => CanEqual(j, k)

\* The array after an element got a value.
Stored(cells, cells2, x, value) == cells2[x] = value /\ \A v \in Values : v # x => cells2[v] = cells[v]

\* The unknowns numbered from n on can have values for which every entry is what the array holds.
Redescribed(n, u, entries, cells, at, params) ==
  \E u2 \in [Nat -> Values] : Agree(n, u, u2) /\ Describe(entries, cells, at, params, u2)

\* A write keeps every entry true of the array written to: the entries it may have changed are
\* unknowns, and what they now are gives those their values.
LEMMA WriteDescribes ==
  ASSUME NEW pool, IsPool(pool), NEW entries, IsStore(entries, pool.next),
         NEW key, NEW sym \in Symbols(pool.next), NEW w, WriteEffect(pool, entries, key, sym, w),
         NEW keys, key \in keys, DOMAIN entries \subseteq keys, NEW at \in [keys -> Values], MayAlias(keys, at),
         NEW params, NEW u \in [Nat -> Values], NEW cells, Describe(entries, cells, at, params, u),
         NEW cells2, Stored(cells, cells2, at[key], Denotes(sym, params, u))
  PROVE  Redescribed(pool.next, u, w.entries, cells2, at, params)
<1> DEFINE n == pool.next
           fresh == n .. w.pool.next - 1
<1> SUFFICES \E u2 \in [Nat -> Values] : Agree(n, u, u2) /\ Describe(w.entries, cells2, at, params, u2)
  BY DEF Redescribed
<1> cells2[at[key]] = Denotes(sym, params, u) /\ \A v \in Values : v # at[key] => cells2[v] = cells[v]
  BY DEF Stored
<1>0. n \in Nat
  BY DEF IsPool
<1>1. CASE w.entries = entries /\ w.pool = pool
  <2>1. key \in DOMAIN entries /\ Equal(entries[key], sym)
    BY <1>1 DEF WriteEffect
  <2>2. cells[at[key]] = Denotes(sym, params, u)
    BY <2>1, EqualDenote DEF Describe
  <2>3. ASSUME NEW k \in DOMAIN entries
        PROVE  cells2[at[k]] = cells[at[k]]
    <3>1. at[k] \in Values
      OBVIOUS
    <3>2. QED
      BY <3>1, <2>2
  <2>4. Describe(w.entries, cells2, at, params, u)
    BY <1>1, <2>3 DEF Describe
  <2>5. QED
    BY <2>4 DEF Agree
<1>2. CASE ~(w.entries = entries /\ w.pool = pool)
  <2>1. w.entries[key] = sym /\ DOMAIN w.entries = DOMAIN entries \cup {key}
    BY <1>2 DEF WriteEffect
  <2>2. ASSUME NEW k \in DOMAIN w.entries, k # key
        PROVE  /\ k \in DOMAIN entries
               /\ CanEqual(key, k) => \E i \in fresh : w.entries[k] = Unknown(i)
               /\ ~CanEqual(key, k) => w.entries[k] = entries[k]
    BY <1>2, <2>2 DEF WriteEffect
  <2> DEFINE Is(k, i) == k \in DOMAIN w.entries /\ w.entries[k] = Unknown(i)
             u2 == [i \in Nat |-> IF i \in fresh /\ \E k : Is(k, i) THEN cells2[at[CHOOSE k : Is(k, i)]] ELSE u[i]]
  <2>3. ASSUME NEW k \in DOMAIN w.entries
        PROVE  cells2[at[k]] \in Values
    <3>1. CASE at[k] = at[key]
      BY <3>1, SymbolsDenoteValues, <1>0
    <3>2. CASE at[k] # at[key]
      <4>1. k \in DOMAIN entries /\ at[k] \in Values
        BY <3>2, <2>1
      <4>2. cells2[at[k]] = Denotes(entries[k], params, u) /\ entries[k] \in Symbols(n)
        BY <4>1, <3>2 DEF Describe, IsStore
      <4>3. QED
        BY <4>2, <1>0, SymbolsDenoteValues
    <3>3. QED
      BY <3>1, <3>2
  <2>4. ASSUME NEW i \in fresh, NEW k, Is(k, i)
        PROVE  i \in Nat /\ u2[i] = cells2[at[k]] /\ u2[i] \in Values
    <3>1. i \in Nat
      BY <1>0 DEF WriteEffect
    <3>2. (CHOOSE j : Is(j, i)) = k
      BY <2>4 DEF WriteEffect
    <3>3. u2[i] = cells2[at[CHOOSE j : Is(j, i)]]
      BY <3>1, <2>4
    <3>4. QED
      BY <3>1, <3>2, <3>3, <2>3, <2>4
  <2>5. ASSUME NEW i \in Nat, ~(i \in fresh /\ \E k : Is(k, i))
        PROVE  u2[i] = u[i]
    BY <2>5
  <2>6. u2 \in [Nat -> Values]
    <3>1. ASSUME NEW i \in Nat
          PROVE  u2[i] \in Values
      BY <2>4, <2>5
    <3> HIDE DEF fresh, Is
    <3>2. QED
      BY <3>1
  <2>7. Agree(n, u, u2)
    <3>1. ASSUME NEW i \in 0 .. n - 1
          PROVE  u[i] = u2[i]
      <4>1. i \in Nat /\ i \notin fresh
        BY <1>0 DEF WriteEffect
      <4>2. QED
        BY <4>1, <2>5
    <3> HIDE DEF u2
    <3>2. QED
      BY <3>1 DEF Agree
  <2> HIDE DEF u2
  <2>8. ASSUME NEW k \in DOMAIN w.entries
        PROVE  cells2[at[k]] = Denotes(w.entries[k], params, u2)
    <3>1. CASE k = key
      BY <3>1, <2>1, <2>7, AgreeDenote, <1>0
    <3>2. CASE k # key /\ CanEqual(key, k)
      <4>1. PICK i \in fresh : w.entries[k] = Unknown(i)
        BY <3>2, <2>2
      <4>2. u2[i] = cells2[at[k]]
        BY <4>1, <2>4
      <4>3. QED
        BY <4>1, <4>2 DEF Denotes, Unknown
    <3>3. CASE k # key /\ ~CanEqual(key, k)
      <4>1. k \in DOMAIN entries /\ w.entries[k] = entries[k] /\ at[k] # at[key] /\ at[k] \in Values
        BY <3>3, <2>2 DEF MayAlias
      <4>2. cells2[at[k]] = Denotes(entries[k], params, u) /\ entries[k] \in Symbols(n)
        BY <4>1 DEF Describe, IsStore
      <4>3. QED
        BY <4>1, <4>2, <2>7, AgreeDenote, <1>0
    <3>4. QED
      BY <3>1, <3>2, <3>3
  <2>9. QED
    BY <2>6, <2>7, <2>8 DEF Describe
<1>3. QED
  BY <1>1, <1>2

-----------------------------------------------------------------------------
(***************************************************************************)
(* Anti-unification, with a memo that lasts for one join.                  *)
(***************************************************************************)

\* A later pool of the same join: nothing that was looked up is forgotten.
Later(p, q) ==
  /\ IsPool(q) /\ p.next <= q.next
  /\ p.misjoins \subseteq q.misjoins
  /\ \A d \in DOMAIN p.memo : d \in DOMAIN q.memo /\ q.memo[d] = p.memo[d]

LEMMA LaterLaws ==
  ASSUME NEW p, IsPool(p), NEW q
  PROVE  /\ Later(p, p)
         /\ Later(p, q) => IsPool(q) /\ \A r : Later(q, r) => Later(p, r)
BY DEF Later, IsPool

\* What anti_unify has learnt.
Learnt(pool, a, b, sym) == [d \in DOMAIN pool.memo \cup {<<a, b>>} |-> IF d = <<a, b>> THEN sym ELSE pool.memo[d]]

\* A pool in which one more pair was looked up.
Grown(pool, a, b, n, sym, c) == [next |-> n, memo |-> Learnt(pool, a, b, sym), misjoins |-> c]

LEMMA LearnIsLater ==
  ASSUME NEW pool, IsPool(pool), NEW a, NEW b, <<a, b>> \notin DOMAIN pool.memo,
         NEW n \in Nat, pool.next <= n, NEW sym \in Symbols(n), NEW c \in SUBSET {"unknown"}, pool.misjoins \subseteq c
  PROVE  /\ Later(pool, Grown(pool, a, b, n, sym, c))
         /\ DOMAIN Grown(pool, a, b, n, sym, c).memo = DOMAIN pool.memo \cup {<<a, b>>}
         /\ Grown(pool, a, b, n, sym, c).memo[<<a, b>>] = sym
<1> DEFINE q == Grown(pool, a, b, n, sym, c)
           m == Learnt(pool, a, b, sym)
<1>1. /\ DOMAIN m = DOMAIN pool.memo \cup {<<a, b>>}
      /\ m[<<a, b>>] = sym
      /\ \A d \in DOMAIN pool.memo : m[d] = pool.memo[d]
  BY DEF Learnt
<1>2. Symbols(pool.next) \subseteq Symbols(n)
  BY SymbolsGrow DEF IsPool
<1>3. \A d \in DOMAIN m : m[d] \in Symbols(n)
  BY <1>1, <1>2 DEF IsPool
<1>4. m = [d \in DOMAIN m |-> m[d]]
  BY DEF Learnt
<1> HIDE DEF m
<1>5. m \in [DOMAIN m -> Symbols(n)]
  BY <1>3, <1>4
<1>6. q.next = n /\ q.memo = m /\ q.misjoins = c
  BY DEF m, Grown
<1>7. q = [next |-> q.next, memo |-> q.memo, misjoins |-> q.misjoins]
  BY DEF Grown
<1> HIDE DEF q
<1>8. IsPool(q)
  BY <1>5, <1>6, <1>7 DEF IsPool
<1>9. Later(pool, q) /\ DOMAIN q.memo = DOMAIN pool.memo \cup {<<a, b>>} /\ q.memo[<<a, b>>] = sym
  BY <1>1, <1>6, <1>8 DEF Later
<1>10. QED
  BY <1>9 DEF q

\* The four cases of AntiUnify.
LEMMA AntiUnifyCases ==
  ASSUME NEW pool, IsPool(pool), NEW a, NEW b, NEW r, r = AntiUnify(pool, a, b)
  PROVE  \/ <<a, b>> \in DOMAIN pool.memo /\ r.sym = pool.memo[<<a, b>>] /\ r.pool = pool
         \/ /\ <<a, b>> \notin DOMAIN pool.memo /\ Equal(a, b) /\ r.sym = a
            /\ r.pool = Grown(pool, a, b, pool.next, a, pool.misjoins)
         \/ /\ <<a, b>> \notin DOMAIN pool.memo /\ ~Equal(a, b) /\ r.sym \in {a, b}
            /\ r.pool = Grown(pool, a, b, pool.next, r.sym, {"unknown"})
         \/ /\ <<a, b>> \notin DOMAIN pool.memo /\ ~Equal(a, b) /\ ~IsUnknown(a) /\ ~IsUnknown(b)
            /\ r.sym = Unknown(pool.next)
            /\ r.pool = Grown(pool, a, b, pool.next + 1, r.sym, pool.misjoins)
<1>0. \A x, y : r = [sym |-> x, pool |-> y] => r.sym = x /\ r.pool = y
  OBVIOUS
<1>1. ASSUME NEW s
      PROVE  /\ Learn(pool, a, b, s) = Grown(pool, a, b, pool.next, s, pool.misjoins)
             /\ [Learn(pool, a, b, s) EXCEPT !.misjoins = {"unknown"}]
                  = Grown(pool, a, b, pool.next, s, {"unknown"})
             /\ [Learn(pool, a, b, s) EXCEPT !.next = @ + 1]
                  = Grown(pool, a, b, pool.next + 1, s, pool.misjoins)
  <2> DEFINE m == Learnt(pool, a, b, s)
             l == Learn(pool, a, b, s)
             c == pool.misjoins
             n == pool.next
  <2>1. l = [pool EXCEPT !.memo = m]
    BY DEF Learn, Learnt
  <2>2. l = [next |-> n, memo |-> m, misjoins |-> c]
    <3> HIDE DEF m, l
    <3>1. QED
      BY <2>1 DEF IsPool
  <2> HIDE DEF m, l, c, n
  <2> DEFINE e == [next |-> n, memo |-> m, misjoins |-> c]
  <2>3. [e EXCEPT !.misjoins = {"unknown"}] = [next |-> n, memo |-> m, misjoins |-> {"unknown"}]
    <3>1. \A t : [e EXCEPT !.misjoins = t] = [next |-> n, memo |-> m, misjoins |-> t]
      OBVIOUS
    <3> HIDE DEF e
    <3>2. QED
      BY <3>1
  <2>4. [e EXCEPT !.next = @ + 1] = [next |-> n + 1, memo |-> m, misjoins |-> c]
    OBVIOUS
  <2>5. QED
    BY <2>2, <2>3, <2>4 DEF m, l, c, n, Grown
<1>2. CASE <<a, b>> \in DOMAIN pool.memo
  BY <1>2 DEF AntiUnify
<1>3. CASE <<a, b>> \notin DOMAIN pool.memo
  <2>1. r = AntiUnifyAfresh(pool, a, b)
    BY <1>3 DEF AntiUnify
  <2>2. CASE Equal(a, b)
    <3>1. r = [sym |-> a, pool |-> Learn(pool, a, b, a)]
      BY <2>1, <2>2, EqualLaws DEF AntiUnifyAfresh
    <3>2. r.sym = a /\ r.pool = Learn(pool, a, b, a)
      BY <3>1, <1>0
    <3>3. QED
      BY <3>2, <2>2, <1>1, <1>3
  <2>3. CASE ~Equal(a, b) /\ IsUnknown(a)
    <3>1. r = [sym |-> a, pool |-> [Learn(pool, a, b, a) EXCEPT !.misjoins = {"unknown"}]]
      BY <2>1, <2>3 DEF AntiUnifyAfresh
    <3>2. r.sym = a /\ r.pool = [Learn(pool, a, b, a) EXCEPT !.misjoins = {"unknown"}]
      BY <3>1, <1>0
    <3>3. QED
      BY <3>2, <2>3, <1>3, <1>1
  <2>4. CASE ~Equal(a, b) /\ ~IsUnknown(a) /\ IsUnknown(b)
    <3>1. r = [sym |-> b, pool |-> [Learn(pool, a, b, b) EXCEPT !.misjoins = {"unknown"}]]
      BY <2>1, <2>4 DEF AntiUnifyAfresh
    <3>2. r.sym = b /\ r.pool = [Learn(pool, a, b, b) EXCEPT !.misjoins = {"unknown"}]
      BY <3>1, <1>0
    <3>3. QED
      BY <3>2, <2>4, <1>3, <1>1
  <2>5. CASE ~Equal(a, b) /\ ~IsUnknown(a) /\ ~IsUnknown(b)
    <3>1. r = [sym |-> Unknown(pool.next), pool |-> [Learn(pool, a, b, Unknown(pool.next)) EXCEPT !.next = @ + 1]]
      BY <2>1, <2>5 DEF AntiUnifyAfresh
    <3>2. r.sym = Unknown(pool.next) /\ r.pool = [Learn(pool, a, b, Unknown(pool.next)) EXCEPT !.next = @ + 1]
      BY <3>1, <1>0
    <3>3. QED
      BY <3>2, <2>5, <1>3, <1>1
  <2>6. QED
    BY <2>2, <2>3, <2>4, <2>5
<1>4. QED
  BY <1>2, <1>3

\* Whatever it meets, anti_unify gives a symbol of its pool and looks up the pair.
LEMMA AntiUnifyLearns ==
  ASSUME NEW pool, IsPool(pool), NEW a \in Symbols(pool.next), NEW b \in Symbols(pool.next),
         NEW r, r = AntiUnify(pool, a, b)
  PROVE  /\ Later(pool, r.pool) /\ r.sym \in Symbols(r.pool.next)
         /\ <<a, b>> \in DOMAIN r.pool.memo /\ r.sym = r.pool.memo[<<a, b>>]
         /\ DOMAIN r.pool.memo = DOMAIN pool.memo \cup {<<a, b>>}
<1>0. pool.next \in Nat /\ pool.misjoins \subseteq {"unknown"}
  BY DEF IsPool
<1>1. CASE <<a, b>> \in DOMAIN pool.memo /\ r.sym = pool.memo[<<a, b>>] /\ r.pool = pool
  BY <1>1, LaterLaws DEF IsPool
<1>2. ASSUME <<a, b>> \notin DOMAIN pool.memo, r.sym \in {a, b}, NEW c \in SUBSET {"unknown"}, pool.misjoins \subseteq c,
             r.pool = Grown(pool, a, b, pool.next, r.sym, c)
      PROVE  /\ Later(pool, r.pool) /\ r.sym \in Symbols(r.pool.next)
             /\ <<a, b>> \in DOMAIN r.pool.memo /\ r.sym = r.pool.memo[<<a, b>>]
             /\ DOMAIN r.pool.memo = DOMAIN pool.memo \cup {<<a, b>>}
  <2>1. r.sym \in Symbols(pool.next) /\ r.pool.next = pool.next /\ pool.next <= pool.next
    BY <1>0, <1>2 DEF Grown
  <2>2. /\ Later(pool, Grown(pool, a, b, pool.next, r.sym, c))
        /\ DOMAIN Grown(pool, a, b, pool.next, r.sym, c).memo = DOMAIN pool.memo \cup {<<a, b>>}
        /\ Grown(pool, a, b, pool.next, r.sym, c).memo[<<a, b>>] = r.sym
    BY <1>0, <1>2, <2>1, LearnIsLater
  <2>3. QED
    BY <1>2, <2>1, <2>2
<1>3. CASE /\ <<a, b>> \notin DOMAIN pool.memo /\ r.sym = Unknown(pool.next)
           /\ r.pool = Grown(pool, a, b, pool.next + 1, r.sym, pool.misjoins)
  <2> DEFINE n == pool.next + 1
  <2>1. n \in Nat /\ pool.next <= n /\ pool.next \in 0 .. n - 1
    BY <1>0
  <2>2. r.sym \in Symbols(n) /\ r.pool.next = n
    BY <1>3, <2>1, UnknownsAreSymbols DEF Grown
  <2> HIDE DEF n
  <2>3. r.pool = Grown(pool, a, b, n, r.sym, pool.misjoins)
    BY <1>3 DEF n
  <2>4. /\ Later(pool, r.pool)
        /\ DOMAIN r.pool.memo = DOMAIN pool.memo \cup {<<a, b>>}
        /\ r.pool.memo[<<a, b>>] = r.sym
    <3>1. pool.misjoins \in SUBSET {"unknown"} /\ pool.misjoins \subseteq pool.misjoins
      BY <1>0
    <3>2. /\ Later(pool, Grown(pool, a, b, n, r.sym, pool.misjoins))
          /\ DOMAIN Grown(pool, a, b, n, r.sym, pool.misjoins).memo = DOMAIN pool.memo \cup {<<a, b>>}
          /\ Grown(pool, a, b, n, r.sym, pool.misjoins).memo[<<a, b>>] = r.sym
      BY <1>0, <1>3, <2>1, <2>2, <3>1, LearnIsLater
    <3>3. QED
      BY <2>3, <3>2
  <2>5. QED
    BY <2>2, <2>4
<1>4. CASE <<a, b>> \notin DOMAIN pool.memo /\ r.sym = a /\ r.pool = Grown(pool, a, b, pool.next, a, pool.misjoins)
  <2>1. pool.misjoins \in SUBSET {"unknown"} /\ pool.misjoins \subseteq pool.misjoins /\ r.sym \in {a, b}
    BY <1>0, <1>4
  <2>2. QED
    BY <1>2, <1>4, <2>1
<1>5. CASE <<a, b>> \notin DOMAIN pool.memo /\ r.sym \in {a, b} /\ r.pool = Grown(pool, a, b, pool.next, r.sym, {"unknown"})
  <2>1. {"unknown"} \in SUBSET {"unknown"} /\ pool.misjoins \subseteq {"unknown"}
    BY <1>0
  <2>2. QED
    BY <1>2, <1>5, <2>1
<1>6. QED
  BY <1>1, <1>3, <1>4, <1>5, AntiUnifyCases

\* As long as no join went wrong, what was looked up since the pool had numbered n unknowns: symbols
\* with equal contents were kept, and two constants became an unknown that no other pair became.
Generalizes(n, pool) ==
  /\ \A d \in DOMAIN pool.memo :
       /\ d = <<d[1], d[2]>> /\ d[1] \in Symbols(pool.next) /\ d[2] \in Symbols(n)
       /\ \/ Equal(d[1], d[2]) /\ pool.memo[d] = d[1]
          \/ /\ ~Equal(d[1], d[2]) /\ ~IsUnknown(d[1]) /\ ~IsUnknown(d[2])
             /\ \E i \in n .. pool.next - 1 : pool.memo[d] = Unknown(i)
  /\ \A d, e \in DOMAIN pool.memo : \A i \in n .. pool.next - 1 :
       pool.memo[d] = Unknown(i) /\ pool.memo[e] = Unknown(i) => d = e

LEMMA OldAreNotFresh ==
  ASSUME NEW n \in Nat, NEW s \in Symbols(n), NEW t, Equal(t, s), NEW i \in Int, i >= n
  PROVE  t # Unknown(i)
<1>1. SUFFICES ASSUME t = Unknown(i) PROVE FALSE
  OBVIOUS
<1>2. t[1] = "unknown" /\ t[2] = i
  BY <1>1 DEF Unknown
<1>3. s[1] = "unknown" /\ s[2] = i
  BY <1>2 DEF Equal
<1>4. s[2] \in 0 .. n - 1
  BY <1>3, SymbolKinds DEF IsUnknown
<1>5. QED
  BY <1>3, <1>4

\* What it makes of one more pair.
Generalized(n, a, b, r) ==
  /\ Generalizes(n, r.pool)
  /\ Equal(a, b) => r.sym = a
  /\ ~Equal(a, b) => ~IsUnknown(a) /\ ~IsUnknown(b) /\ \E i \in n .. r.pool.next - 1 : r.sym = Unknown(i)

LEMMA AntiUnifyGeneralizes ==
  ASSUME NEW n \in Nat, NEW pool, IsPool(pool), n <= pool.next, Generalizes(n, pool),
         NEW a \in Symbols(pool.next), NEW b \in Symbols(n),
         NEW r, r = AntiUnify(pool, a, b), r.pool.misjoins = {}
  PROVE  Generalized(n, a, b, r)
<1> DEFINE p == <<a, b>>
           m == pool.memo
           m2 == r.pool.memo
<1>0. pool.next \in Nat /\ p = <<p[1], p[2]>> /\ p[1] = a /\ p[2] = b
  BY DEF IsPool
<1>1. CASE p \in DOMAIN m /\ r.sym = m[p] /\ r.pool = pool
  BY <1>0, <1>1 DEF Generalizes, Generalized
<1>2. CASE p \notin DOMAIN m /\ Equal(a, b) /\ r.sym = a /\ r.pool = Grown(pool, a, b, pool.next, a, pool.misjoins)
  <2>1. /\ DOMAIN m2 = DOMAIN m \cup {p} /\ m2[p] = a
        /\ \A d \in DOMAIN m : m2[d] = m[d] /\ d # p
        /\ r.pool.next = pool.next
    BY <1>2 DEF Grown, Learnt
  <2>2. ASSUME NEW i \in n .. pool.next - 1
        PROVE  m2[p] # Unknown(i)
    <3>1. i \in Int /\ i >= n
      BY <1>0
    <3>2. QED
      BY <1>2, <2>1, <3>1, OldAreNotFresh
  <2> HIDE DEF p
  <2>3. QED
    BY <1>0, <1>2, <2>1, <2>2 DEF Generalizes, Generalized
<1>3. CASE /\ p \notin DOMAIN m /\ ~Equal(a, b) /\ ~IsUnknown(a) /\ ~IsUnknown(b) /\ r.sym = Unknown(pool.next)
           /\ r.pool = Grown(pool, a, b, pool.next + 1, r.sym, pool.misjoins)
  <2>1. /\ DOMAIN m2 = DOMAIN m \cup {p} /\ m2[p] = Unknown(pool.next)
        /\ \A d \in DOMAIN m : m2[d] = m[d] /\ d # p
        /\ r.pool.next = pool.next + 1
    BY <1>3 DEF Grown, Learnt
  <2>2. pool.next \in n .. r.pool.next - 1 /\ n .. pool.next - 1 \subseteq n .. r.pool.next - 1
    BY <1>0, <2>1
  <2>3. ASSUME NEW d \in DOMAIN m
        PROVE  m[d] # Unknown(pool.next)
    <3>1. m[d] \in Symbols(pool.next)
      BY DEF IsPool
    <3>2. pool.next \in Int /\ pool.next >= pool.next /\ Equal(m[d], m[d])
      BY <1>0, EqualLaws
    <3>3. QED
      BY <1>0, <3>1, <3>2, OldAreNotFresh
  <2>4. ASSUME NEW d \in DOMAIN m, NEW i \in n .. r.pool.next - 1, m[d] = Unknown(i)
        PROVE  i \in n .. pool.next - 1
    <3>1. i # pool.next
      BY <2>3, <2>4
    <3>2. QED
      BY <1>0, <2>1, <3>1
  <2> HIDE DEF p
  <2>5. ASSUME NEW d \in DOMAIN m2
        PROVE  /\ d = <<d[1], d[2]>> /\ d[1] \in Symbols(r.pool.next) /\ d[2] \in Symbols(n)
               /\ \/ Equal(d[1], d[2]) /\ m2[d] = d[1]
                  \/ /\ ~Equal(d[1], d[2]) /\ ~IsUnknown(d[1]) /\ ~IsUnknown(d[2])
                     /\ \E i \in n .. r.pool.next - 1 : m2[d] = Unknown(i)
    <3>1. Symbols(pool.next) \subseteq Symbols(r.pool.next)
      BY <1>0, <2>1, SymbolsGrow
    <3>2. QED
      BY <1>0, <1>3, <2>1, <2>2, <3>1 DEF Generalizes
  <2>6. ASSUME NEW d \in DOMAIN m2, NEW e \in DOMAIN m2, NEW i \in n .. r.pool.next - 1,
               m2[d] = Unknown(i), m2[e] = Unknown(i)
        PROVE  d = e
    <3>1. CASE d = p
      <4>1. i = pool.next
        BY <2>1, <2>6, <3>1, UnknownsDiffer
      <4>2. e \notin DOMAIN m
        BY <2>1, <2>3, <2>6, <4>1
      <4>3. QED
        BY <2>1, <3>1, <4>2
    <3>2. CASE e = p
      <4>1. i = pool.next
        BY <2>1, <2>6, <3>2, UnknownsDiffer
      <4>2. d \notin DOMAIN m
        BY <2>1, <2>3, <2>6, <4>1
      <4>3. QED
        BY <2>1, <3>2, <4>2
    <3>3. CASE d \in DOMAIN m /\ e \in DOMAIN m
      <4>1. m[d] = Unknown(i) /\ m[e] = Unknown(i)
        BY <2>1, <2>6, <3>3
      <4>2. i \in n .. pool.next - 1
        BY <2>4, <3>3, <4>1
      <4>3. QED
        BY <3>3, <4>1, <4>2 DEF Generalizes
    <3>4. QED
      BY <2>1, <3>1, <3>2, <3>3
  <2>7. QED
    BY <1>3, <2>2, <2>5, <2>6 DEF Generalizes, Generalized
<1>4. r.pool # Grown(pool, a, b, pool.next, r.sym, {"unknown"})
  BY DEF Grown
<1>5. QED
  BY <1>1, <1>2, <1>3, <1>4, AntiUnifyCases

-----------------------------------------------------------------------------
(***************************************************************************)
(* The join of an entry with the entries of another store.                 *)
(***************************************************************************)

\* The turns of the loop of JoinEntry.
EntryTurns(f, pool, sym, key, other, order) ==
  /\ f[0] = [sym |-> sym, pool |-> pool]
  /\ \A m \in 1 .. Len(order) : f[m] = JoinAlias(f[m - 1], key, order[m], other)

LEMMA JoinEntryTurns ==
  ASSUME NEW pool, NEW sym, NEW key, NEW other, NEW order, Len(order) \in Nat
  PROVE  \E f : /\ EntryTurns(f, pool, sym, key, other, order)
                /\ JoinEntry(pool, sym, key, other, order) = f[Len(order)]
<1> DEFINE start == [sym |-> sym, pool |-> pool]
           Good(g, m) == g = [n \in 0 .. m |-> IF n = 0 THEN start ELSE JoinAlias(g[n - 1], key, order[n], other)]
           T == {m \in Nat : \E g : Good(g, m)}
<1> HIDE DEF start
<1>1. 0 \in T
  <2> DEFINE g == [n \in {0} |-> start]
  <2>1. 0 .. 0 = {0}
    OBVIOUS
  <2>2. g = [n \in 0 .. 0 |-> IF n = 0 THEN start ELSE JoinAlias(g[n - 1], key, order[n], other)]
    BY <2>1, Zenon
  <2>3. QED
    BY <2>2
<1>2. ASSUME NEW m \in T
      PROVE  m + 1 \in T
  <2>1. PICK g : Good(g, m)
    OBVIOUS
  <2>2. \A n \in 0 .. m : g[n] = IF n = 0 THEN start ELSE JoinAlias(g[n - 1], key, order[n], other)
    BY <2>1
  <2> DEFINE h == [n \in 0 .. m + 1 |-> IF n \in 0 .. m THEN g[n] ELSE JoinAlias(g[m], key, order[m + 1], other)]
  <2>3. ASSUME NEW n \in 0 .. m + 1
        PROVE  h[n] = IF n = 0 THEN start ELSE JoinAlias(h[n - 1], key, order[n], other)
    <3>1. CASE n \in 0 .. m
      <4>1. h[n] = g[n] /\ (n # 0 => n - 1 \in 0 .. m /\ n - 1 \in 0 .. m + 1)
        BY <3>1
      <4>2. n # 0 => h[n - 1] = g[n - 1]
        BY <4>1
      <4>3. QED
        BY <4>1, <4>2, <3>1, <2>2
    <3>2. CASE n \notin 0 .. m
      <4>1. n = m + 1 /\ n # 0 /\ n - 1 = m /\ m \in 0 .. m + 1 /\ m \in 0 .. m
        BY <3>2
      <4>2. h[n] = JoinAlias(g[m], key, order[m + 1], other) /\ h[n - 1] = g[m]
        BY <3>2, <4>1
      <4>3. QED
        BY <4>1, <4>2
    <3>3. QED
      BY <3>1, <3>2
  <2>4. DOMAIN h = 0 .. m + 1 /\ h = [n \in DOMAIN h |-> h[n]]
    OBVIOUS
  <2> HIDE DEF h
  <2>5. Good(h, m + 1)
    BY <2>3, <2>4
  <2>6. m + 1 \in Nat
    OBVIOUS
  <2> HIDE DEF Good
  <2>7. QED
    BY <2>5, <2>6
<1>3. T \in SUBSET Nat
  OBVIOUS
<1> HIDE DEF T
<1>4. T = Nat
  BY <1>1, <1>2, <1>3, SetInduction
<1> DEFINE acc[n \in 0 .. Len(order)] ==
             IF n = 0 THEN [sym |-> sym, pool |-> pool] ELSE JoinAlias(acc[n - 1], key, order[n], other)
<1>5. JoinEntry(pool, sym, key, other, order) = acc[Len(order)]
  BY DEF JoinEntry
<1>6. acc = [n \in 0 .. Len(order) |->
               IF n = 0 THEN [sym |-> sym, pool |-> pool] ELSE JoinAlias(acc[n - 1], key, order[n], other)]
  <2>1. \E g : g = [n \in 0 .. Len(order) |->
               IF n = 0 THEN [sym |-> sym, pool |-> pool] ELSE JoinAlias(g[n - 1], key, order[n], other)]
    BY <1>4 DEF T, start
  <2>2. QED
    BY <2>1 DEF acc
<1> HIDE DEF acc
<1>7. EntryTurns(acc, pool, sym, key, other, order)
  BY <1>6 DEF EntryTurns
<1>8. QED
  BY <1>5, <1>7

\* A join of an entry never leaves its pool.
LEMMA JoinEntryIsTyped ==
  ASSUME NEW pool, IsPool(pool), NEW sym \in Symbols(pool.next), NEW key,
         NEW other, other \in [DOMAIN other -> Symbols(pool.next)], NEW order, Len(order) \in Nat,
         NEW f, EntryTurns(f, pool, sym, key, other, order)
  PROVE  \A m \in 0 .. Len(order) : Later(pool, f[m].pool) /\ f[m].sym \in Symbols(f[m].pool.next)
<1> DEFINE P(m) == Later(pool, f[m].pool) /\ f[m].sym \in Symbols(f[m].pool.next)
           T == {m \in Nat : m <= Len(order) => P(m)}
<1>1. 0 \in T
  <2>1. f[0].pool = pool /\ f[0].sym = sym
    BY DEF EntryTurns
  <2>2. QED
    BY <2>1, LaterLaws
<1>2. ASSUME NEW m \in T
      PROVE  m + 1 \in T
  <2>1. SUFFICES ASSUME m + 1 <= Len(order) PROVE P(m + 1)
    OBVIOUS
  <2>2. m \in Nat /\ P(m)
    BY <2>1
  <2>3. m + 1 \in 1 .. Len(order) /\ (m + 1) - 1 = m
    BY <2>1, <2>2
  <2> DEFINE k == order[m + 1]
             q == f[m].pool
  <2>4. f[m + 1] = JoinAlias(f[m], key, k, other)
    BY <2>3 DEF EntryTurns
  <2>5. CASE k \in DOMAIN other /\ CanEqual(key, k)
    <3>1. f[m + 1] = AntiUnify(q, f[m].sym, other[k])
      BY <2>4, <2>5 DEF JoinAlias
    <3>2. pool.next \in Nat /\ q.next \in Nat /\ pool.next <= q.next /\ IsPool(q)
      BY <2>2 DEF Later, IsPool
    <3>3. other[k] \in Symbols(q.next)
      BY <2>5, <3>2, SymbolsGrow
    <3> DEFINE s == f[m].sym
               t == other[k]
               r == f[m + 1]
    <3>4. IsPool(q) /\ s \in Symbols(q.next) /\ t \in Symbols(q.next) /\ r = AntiUnify(q, s, t) /\ Later(pool, q)
      BY <2>2, <3>1, <3>2, <3>3
    <3> HIDE DEF q, s, t, r
    <3>5. Later(q, r.pool) /\ r.sym \in Symbols(r.pool.next)
      BY <3>4, AntiUnifyLearns
    <3>6. Later(pool, r.pool)
      BY <3>4, <3>5, LaterLaws
    <3>7. QED
      BY <3>5, <3>6 DEF r
  <2>6. CASE ~(k \in DOMAIN other /\ CanEqual(key, k))
    BY <2>2, <2>4, <2>6 DEF JoinAlias
  <2>7. QED
    BY <2>5, <2>6
<1>3. T \in SUBSET Nat
  OBVIOUS
<1> HIDE DEF T
<1>4. T = Nat
  BY <1>1, <1>2, <1>3, SetInduction
<1>5. QED
  BY <1>4 DEF T

LEMMA JoinEntryStays ==
  ASSUME NEW pool, IsPool(pool), NEW sym \in Symbols(pool.next), NEW key,
         NEW other, other \in [DOMAIN other -> Symbols(pool.next)], NEW order, Len(order) \in Nat,
         NEW r, r = JoinEntry(pool, sym, key, other, order)
  PROVE  Later(pool, r.pool) /\ r.sym \in Symbols(r.pool.next)
<1>1. PICK f : EntryTurns(f, pool, sym, key, other, order) /\ r = f[Len(order)]
  BY JoinEntryTurns
<1>2. \A m \in 0 .. Len(order) : Later(pool, f[m].pool) /\ f[m].sym \in Symbols(f[m].pool.next)
  BY <1>1, JoinEntryIsTyped
<1>3. QED
  BY <1>1, <1>2

\* The pair has been looked up, and the symbol is what was found.
Joined(n, pool, a, b, r) ==
  /\ Later(pool, r.pool) /\ Generalizes(n, r.pool)
  /\ <<a, b>> \in DOMAIN r.pool.memo /\ r.sym = r.pool.memo[<<a, b>>]

\* What a join without a misjoin makes of an entry: the other store's entry at the same key decides.
\* Another entry that the key may alias cannot, since only one of the two is known.
LEMMA JoinEntryGeneralizes ==
  ASSUME NEW n \in Nat, NEW pool, IsPool(pool), n <= pool.next, Generalizes(n, pool),
         NEW sym \in Symbols(n), NEW key, NEW other, other \in [DOMAIN other -> Symbols(n)], OneKnown(other),
         key \in DOMAIN other, NEW order, Len(order) \in Nat, \E i \in 1 .. Len(order) : order[i] = key,
         NEW r, r = JoinEntry(pool, sym, key, other, order), r.pool.misjoins = {}
  PROVE  Joined(n, pool, sym, other[key], r)
<1>0. pool.next \in Nat
  BY DEF IsPool
<1>1. Symbols(n) \subseteq Symbols(pool.next)
  BY <1>0, SymbolsGrow
<1>2. sym \in Symbols(pool.next) /\ other \in [DOMAIN other -> Symbols(pool.next)]
  BY <1>1
<1>3. PICK f : EntryTurns(f, pool, sym, key, other, order) /\ r = f[Len(order)]
  BY JoinEntryTurns
<1>4. \A m \in 0 .. Len(order) : Later(pool, f[m].pool) /\ f[m].sym \in Symbols(f[m].pool.next)
  BY <1>2, <1>3, JoinEntryIsTyped
<1> DEFINE Alias(k) == k \in DOMAIN other /\ CanEqual(key, k)
           \* All entries met so far are equal to the entry joined.
           Same(m) == f[m].sym = sym /\ \A j \in 1 .. m : Alias(order[j]) => Equal(sym, other[order[j]])
           \* All but one are, a different constant.
           Differs(m, i) ==
             /\ Alias(order[i]) /\ ~Equal(sym, other[order[i]]) /\ ~IsUnknown(sym)
             /\ f[m].sym = f[m].pool.memo[<<sym, other[order[i]]>>]
             /\ \E u \in n .. f[m].pool.next - 1 : f[m].sym = Unknown(u)
             /\ \A j \in 1 .. m : j # i /\ Alias(order[j]) => Equal(sym, other[order[j]])
           P(m) == /\ Generalizes(n, f[m].pool)
                   /\ \A j \in 1 .. m : Alias(order[j]) => <<sym, other[order[j]]>> \in DOMAIN f[m].pool.memo
                   /\ Same(m) \/ \E i \in 1 .. m : Differs(m, i)
           T == {m \in Nat : m <= Len(order) /\ f[m].pool.misjoins = {} => P(m)}
<1>5. 0 \in T
  <2>1. f[0].pool = pool /\ f[0].sym = sym /\ 1 .. 0 = {}
    BY <1>3 DEF EntryTurns
  <2>2. Same(0)
    BY <2>1
  <2> HIDE DEF Same, Differs
  <2>3. QED
    BY <2>1, <2>2
<1>6. ASSUME NEW m \in T
      PROVE  m + 1 \in T
  <2>1. SUFFICES ASSUME m + 1 <= Len(order), f[m + 1].pool.misjoins = {} PROVE P(m + 1)
    <3> HIDE DEF P
    <3>1. QED
      OBVIOUS
  <2> DEFINE k == order[m + 1]
             q == f[m].pool
             s == f[m].sym
  <2>2. m \in Nat /\ m + 1 \in 1 .. Len(order) /\ (m + 1) - 1 = m /\ m \in 0 .. Len(order)
    BY <2>1
  <2>3. f[m + 1] = JoinAlias(f[m], key, k, other)
    BY <1>3, <2>2 DEF EntryTurns
  <2>4. Later(pool, q) /\ s \in Symbols(q.next)
    BY <1>4, <2>2
  <2>5. IsPool(q) /\ q.next \in Nat /\ n <= q.next
    BY <1>0, <2>4 DEF Later, IsPool
  <2>6. \A j \in 1 .. m + 1 : j \in 1 .. m \/ j = m + 1
    BY <2>2
  <2>7. CASE Alias(k)
    <3>1. f[m + 1] = AntiUnify(q, s, other[k])
      BY <2>3, <2>7 DEF JoinAlias
    <3>2. other[k] \in Symbols(n) /\ other[k] \in Symbols(q.next)
      BY <2>5, <2>7, SymbolsGrow
    <3>3. /\ Later(q, f[m + 1].pool)
          /\ <<s, other[k]>> \in DOMAIN f[m + 1].pool.memo
          /\ f[m + 1].sym = f[m + 1].pool.memo[<<s, other[k]>>]
      BY <2>4, <2>5, <3>1, <3>2, AntiUnifyLearns
    <3>4. q.misjoins = {}
      BY <2>1, <3>3 DEF Later
    <3>5. P(m)
      <4> HIDE DEF P
      <4>1. QED
        BY <2>2, <3>4
    <3>6. /\ Generalizes(n, f[m + 1].pool)
          /\ Equal(s, other[k]) => f[m + 1].sym = s
          /\ ~Equal(s, other[k]) => /\ ~IsUnknown(s) /\ ~IsUnknown(other[k])
                                    /\ \E u \in n .. f[m + 1].pool.next - 1 : f[m + 1].sym = Unknown(u)
      <4>1. q.misjoins = {} /\ f[m + 1].pool.misjoins = {} /\ Generalizes(n, q)
        BY <2>1, <3>4, <3>5
      <4> HIDE DEF P, T, q, s
      <4>2. Generalized(n, s, other[k], f[m + 1])
        BY <2>4, <2>5, <3>1, <3>2, <4>1, AntiUnifyGeneralizes
      <4>3. QED
        BY <4>2 DEF Generalized
    <3>7. s = sym
      <4>1. ASSUME NEW i \in 1 .. m, Differs(m, i)
            PROVE  FALSE
        <5>1. PICK u \in n .. q.next - 1 : s = Unknown(u)
          BY <4>1
        <5>2. IsUnknown(s) /\ u \in Int /\ u >= n
          BY <2>5, <5>1 DEF IsUnknown, Unknown
        <5>3. Equal(s, other[k])
          BY <3>6, <5>2
        <5>4. QED
          BY <3>2, <5>1, <5>2, <5>3, OldAreNotFresh
      <4>2. QED
        BY <3>5, <4>1
    <3>8. \A j \in 1 .. m : Alias(order[j]) => Equal(sym, other[order[j]])
      <4>1. ASSUME NEW i \in 1 .. m, Differs(m, i)
            PROVE  FALSE
        <5>1. PICK u \in n .. q.next - 1 : s = Unknown(u)
          BY <4>1
        <5>2. IsUnknown(s)
          BY <5>1 DEF IsUnknown, Unknown
        <5>3. QED
          BY <3>7, <4>1, <5>2
      <4>2. QED
        BY <3>5, <4>1
    <3>9. ASSUME NEW j \in 1 .. m + 1, Alias(order[j])
          PROVE  <<sym, other[order[j]]>> \in DOMAIN f[m + 1].pool.memo
      BY <2>6, <3>3, <3>5, <3>7, <3>9 DEF Later
    <3>10. CASE Equal(s, other[k])
      <4>1. Same(m + 1)
        BY <2>6, <3>6, <3>7, <3>8, <3>10
      <4> HIDE DEF Same, Differs
      <4>2. QED
        BY <3>6, <3>9, <4>1
    <3>11. CASE ~Equal(s, other[k])
      <4>1. Differs(m + 1, m + 1)
        BY <2>6, <2>7, <3>3, <3>6, <3>7, <3>8, <3>11
      <4>2. m + 1 \in 1 .. m + 1
        BY <2>2
      <4> HIDE DEF Same, Differs
      <4>3. QED
        BY <3>6, <3>9, <4>1, <4>2
    <3>12. QED
      BY <3>10, <3>11
  <2>8. CASE ~Alias(k)
    <3>1. f[m + 1] = f[m]
      BY <2>3, <2>8 DEF JoinAlias
    <3>2. P(m)
      <4> HIDE DEF P
      <4>1. QED
        BY <2>1, <2>2, <3>1
    <3>3. Same(m) => Same(m + 1)
      BY <2>6, <2>8, <3>1
    <3>4. ASSUME NEW i \in 1 .. m, Differs(m, i)
          PROVE  i \in 1 .. m + 1 /\ Differs(m + 1, i)
      <4>1. i \in 1 .. m + 1
        BY <2>2
      <4>2. /\ Alias(order[i]) /\ ~Equal(sym, other[order[i]]) /\ ~IsUnknown(sym)
            /\ f[m].sym = f[m].pool.memo[<<sym, other[order[i]]>>]
            /\ \E u \in n .. f[m].pool.next - 1 : f[m].sym = Unknown(u)
        BY <3>4
      <4>3. \A j \in 1 .. m + 1 : j # i /\ Alias(order[j]) => Equal(sym, other[order[j]])
        BY <2>6, <2>8, <3>4
      <4>4. QED
        BY <3>1, <4>1, <4>2, <4>3
    <3>5. \A j \in 1 .. m + 1 : Alias(order[j]) => <<sym, other[order[j]]>> \in DOMAIN f[m + 1].pool.memo
      BY <2>6, <2>8, <3>1, <3>2
    <3> HIDE DEF Same, Differs
    <3>6. QED
      BY <3>1, <3>2, <3>3, <3>4, <3>5
  <2>9. QED
    BY <2>7, <2>8
<1>7. T \in SUBSET Nat
  OBVIOUS
<1> HIDE DEF T
<1>8. T = Nat
  BY <1>5, <1>6, <1>7, SetInduction
<1> DEFINE m == Len(order)
<1>9. P(m)
  <2> HIDE DEF P
  <2>1. QED
    BY <1>3, <1>8 DEF T
<1>10. Later(pool, r.pool) /\ Generalizes(n, r.pool)
  BY <1>3, <1>4, <1>9
<1>11. PICK j \in 1 .. m : order[j] = key
  OBVIOUS
<1>12. Alias(key)
  BY CanEqualLaws
<1>13. <<sym, other[key]>> \in DOMAIN r.pool.memo
  BY <1>3, <1>9, <1>11, <1>12
<1>14. CASE Same(m)
  <2>1. r.sym = sym /\ Equal(sym, other[key])
    BY <1>3, <1>11, <1>12, <1>14
  <2>2. r.pool.memo[<<sym, other[key]>>] = sym
    BY <1>10, <1>13, <2>1 DEF Generalizes
  <2>3. QED
    BY <1>10, <1>13, <2>1, <2>2 DEF Joined
<1>15. CASE \E i \in 1 .. m : Differs(m, i)
  <2>1. PICK i \in 1 .. m : Differs(m, i)
    BY <1>15
  <2>2. order[i] = key
    <3>1. SUFFICES ASSUME order[i] # key PROVE FALSE
      OBVIOUS
    <3>2. Equal(sym, other[key]) /\ ~IsUnknown(sym)
      BY <1>11, <1>12, <2>1, <3>1
    <3>3. ~IsUnknown(other[key])
      BY <3>2, EqualLaws
    <3>4. <<sym, other[order[i]]>> \in DOMAIN r.pool.memo /\ ~Equal(sym, other[order[i]])
      BY <1>3, <1>9, <2>1
    <3>5. ~IsUnknown(other[order[i]])
      BY <1>10, <3>4 DEF Generalizes
    <3>6. order[i] \in DOMAIN other /\ CanEqual(key, order[i])
      BY <2>1
    <3>7. QED
      BY <3>1, <3>3, <3>5, <3>6 DEF OneKnown
  <2>3. QED
    BY <1>3, <1>10, <1>13, <2>1, <2>2 DEF Joined
<1>16. QED
  BY <1>9, <1>10, <1>13, <1>14, <1>15 DEF Joined

-----------------------------------------------------------------------------
(***************************************************************************)
(* The join of two stores.                                                 *)
(***************************************************************************)

\* The turns of the loop of JoinWith.
PlaceTurns(f, pool, mine, other, places, orders) ==
  /\ f[0] = [syms |-> <<>>, pool |-> pool]
  /\ \A m \in 1 .. Len(places) : f[m] = JoinPlace(f[m - 1], places[m], mine, other, orders)

LEMMA JoinWithTurns ==
  ASSUME NEW pool, NEW mine, NEW other, NEW places, NEW orders, Len(places) \in Nat
  PROVE  \E f : /\ PlaceTurns(f, pool, mine, other, places, orders)
                /\ JoinWith(pool, mine, other, places, orders) = f[Len(places)]
<1> DEFINE start == [syms |-> <<>>, pool |-> pool]
           Good(g, m) == g = [n \in 0 .. m |-> IF n = 0 THEN start ELSE JoinPlace(g[n - 1], places[n], mine, other, orders)]
           T == {m \in Nat : \E g : Good(g, m)}
<1> HIDE DEF start
<1>1. 0 \in T
  <2> DEFINE g == [n \in {0} |-> start]
  <2>1. 0 .. 0 = {0}
    OBVIOUS
  <2>2. g = [n \in 0 .. 0 |-> IF n = 0 THEN start ELSE JoinPlace(g[n - 1], places[n], mine, other, orders)]
    BY <2>1, Zenon
  <2>3. QED
    BY <2>2
<1>2. ASSUME NEW m \in T
      PROVE  m + 1 \in T
  <2>1. PICK g : Good(g, m)
    OBVIOUS
  <2>2. \A n \in 0 .. m : g[n] = IF n = 0 THEN start ELSE JoinPlace(g[n - 1], places[n], mine, other, orders)
    BY <2>1
  <2> DEFINE h == [n \in 0 .. m + 1 |-> IF n \in 0 .. m THEN g[n] ELSE JoinPlace(g[m], places[m + 1], mine, other, orders)]
  <2>3. ASSUME NEW n \in 0 .. m + 1
        PROVE  h[n] = IF n = 0 THEN start ELSE JoinPlace(h[n - 1], places[n], mine, other, orders)
    <3>1. CASE n \in 0 .. m
      <4>1. h[n] = g[n] /\ (n # 0 => n - 1 \in 0 .. m /\ n - 1 \in 0 .. m + 1)
        BY <3>1
      <4>2. n # 0 => h[n - 1] = g[n - 1]
        BY <4>1
      <4>3. QED
        BY <4>1, <4>2, <3>1, <2>2
    <3>2. CASE n \notin 0 .. m
      <4>1. n = m + 1 /\ n # 0 /\ n - 1 = m /\ m \in 0 .. m + 1 /\ m \in 0 .. m
        BY <3>2
      <4>2. h[n] = JoinPlace(g[m], places[m + 1], mine, other, orders) /\ h[n - 1] = g[m]
        BY <3>2, <4>1
      <4>3. QED
        BY <4>1, <4>2
    <3>3. QED
      BY <3>1, <3>2
  <2>4. DOMAIN h = 0 .. m + 1 /\ h = [n \in DOMAIN h |-> h[n]]
    OBVIOUS
  <2> HIDE DEF h
  <2>5. Good(h, m + 1)
    BY <2>3, <2>4
  <2>6. m + 1 \in Nat
    OBVIOUS
  <2> HIDE DEF Good
  <2>7. QED
    BY <2>5, <2>6
<1>3. T \in SUBSET Nat
  OBVIOUS
<1> HIDE DEF T
<1>4. T = Nat
  BY <1>1, <1>2, <1>3, SetInduction
<1> DEFINE acc[n \in 0 .. Len(places)] ==
             IF n = 0 THEN [syms |-> <<>>, pool |-> pool] ELSE JoinPlace(acc[n - 1], places[n], mine, other, orders)
<1>5. JoinWith(pool, mine, other, places, orders) = acc[Len(places)]
  BY DEF JoinWith
<1>6. acc = [n \in 0 .. Len(places) |->
               IF n = 0 THEN [syms |-> <<>>, pool |-> pool] ELSE JoinPlace(acc[n - 1], places[n], mine, other, orders)]
  <2>1. \E g : g = [n \in 0 .. Len(places) |->
               IF n = 0 THEN [syms |-> <<>>, pool |-> pool] ELSE JoinPlace(g[n - 1], places[n], mine, other, orders)]
    BY <1>4 DEF T, start
  <2>2. QED
    BY <2>1 DEF acc
<1> HIDE DEF acc
<1>7. PlaceTurns(acc, pool, mine, other, places, orders)
  BY <1>6 DEF PlaceTurns
<1>8. QED
  BY <1>5, <1>7


\* A location of both stores, whose entries are symbols of the pool as it was before the join.
PlaceIn(n, mine, other, place) ==
  /\ mine[place[1]][place[2]] \in Symbols(n)
  /\ other[place[1]] \in [DOMAIN other[place[1]] -> Symbols(n)]

\* A join has met some places and gave each a symbol of its pool.
JoinStays(pool, acc, met) ==
  /\ Later(pool, acc.pool) /\ DOMAIN acc.syms = met
  /\ \A p \in met : acc.syms[p] \in Symbols(acc.pool.next)

LEMMA JoinPlaceStays ==
  ASSUME NEW pool, IsPool(pool), NEW mine, NEW other, NEW place, PlaceIn(pool.next, mine, other, place),
         NEW orders, Len(orders[place[1]]) \in Nat, NEW acc, NEW met, JoinStays(pool, acc, met),
         NEW w, w = JoinPlace(acc, place, mine, other, orders)
  PROVE  JoinStays(pool, w, met \cup {place}) /\ Later(acc.pool, w.pool)
<1> DEFINE sym == mine[place[1]][place[2]]
           theirs == other[place[1]]
           order == orders[place[1]]
           r == JoinEntry(acc.pool, sym, place[2], theirs, order)
           s == [p \in DOMAIN acc.syms \cup {place} |-> IF p = place THEN r.sym ELSE acc.syms[p]]
<1>1. w.syms = s /\ w.pool = r.pool
  BY DEF JoinPlace
<1>2. IsPool(acc.pool) /\ pool.next \in Nat /\ acc.pool.next \in Nat /\ pool.next <= acc.pool.next
  BY DEF JoinStays, Later, IsPool
<1>3. Symbols(pool.next) \subseteq Symbols(acc.pool.next)
  BY <1>2, SymbolsGrow
<1>4. sym \in Symbols(acc.pool.next) /\ theirs \in [DOMAIN theirs -> Symbols(acc.pool.next)]
  BY <1>3 DEF PlaceIn
<1> HIDE DEF sym, theirs, r, order
<1>5. r = JoinEntry(acc.pool, sym, place[2], theirs, order)
  BY DEF r
<1>6. Later(acc.pool, r.pool) /\ r.sym \in Symbols(r.pool.next)
  <2>1. Len(order) \in Nat
    BY DEF order
  <2>2. QED
    BY <1>2, <1>4, <1>5, <2>1, JoinEntryStays
<1>7. Later(pool, r.pool)
  BY <1>6, LaterLaws DEF JoinStays
<1>8. Symbols(acc.pool.next) \subseteq Symbols(r.pool.next)
  BY <1>2, <1>6, SymbolsGrow DEF Later, IsPool
<1>9. DOMAIN s = met \cup {place} /\ \A p \in met \cup {place} : s[p] \in Symbols(r.pool.next)
  BY <1>6, <1>8 DEF JoinStays
<1>10. QED
  BY <1>1, <1>6, <1>7, <1>9 DEF JoinStays

\* A join without a misjoin has met some places and keeps for each what it found for its two entries.
JoinFaithful(n, pool, mine, other, acc, met) ==
  /\ Later(pool, acc.pool) /\ Generalizes(n, acc.pool)
  /\ \A p \in met : LET d == <<mine[p[1]][p[2]], other[p[1]][p[2]]>>
                    IN d \in DOMAIN acc.pool.memo /\ acc.syms[p] = acc.pool.memo[d]

\* The other store has an entry there too, and is iterated over that entry.
PlaceKept(other, place, orders) ==
  /\ place[2] \in DOMAIN other[place[1]] /\ OneKnown(other[place[1]])
  /\ \E i \in 1 .. Len(orders[place[1]]) : orders[place[1]][i] = place[2]

LEMMA JoinPlaceIsFaithful ==
  ASSUME NEW pool, IsPool(pool), NEW mine, NEW other, NEW place, PlaceIn(pool.next, mine, other, place),
         NEW orders, Len(orders[place[1]]) \in Nat, PlaceKept(other, place, orders),
         NEW acc, NEW met, DOMAIN acc.syms = met, JoinFaithful(pool.next, pool, mine, other, acc, met),
         NEW w, w = JoinPlace(acc, place, mine, other, orders), w.pool.misjoins = {}
  PROVE  JoinFaithful(pool.next, pool, mine, other, w, met \cup {place})
<1> DEFINE n == pool.next
           sym == mine[place[1]][place[2]]
           theirs == other[place[1]]
           key == place[2]
           order == orders[place[1]]
           r == JoinEntry(acc.pool, sym, key, theirs, order)
           s == [p \in DOMAIN acc.syms \cup {place} |-> IF p = place THEN r.sym ELSE acc.syms[p]]
           D(p) == <<mine[p[1]][p[2]], other[p[1]][p[2]]>>
<1>1. w.syms = s /\ w.pool = r.pool
  BY DEF JoinPlace
<1>2. IsPool(acc.pool) /\ n \in Nat /\ n <= acc.pool.next /\ Generalizes(n, acc.pool)
  BY DEF JoinFaithful, Later, IsPool
<1>3. /\ sym \in Symbols(n) /\ theirs \in [DOMAIN theirs -> Symbols(n)]
      /\ key \in DOMAIN theirs /\ OneKnown(theirs)
      /\ Len(order) \in Nat /\ \E i \in 1 .. Len(order) : order[i] = key
  BY DEF PlaceIn, PlaceKept
<1>4. D(place) = <<sym, theirs[key]>>
  OBVIOUS
<1>5. r.pool.misjoins = {}
  BY <1>1
<1> HIDE DEF n, sym, theirs, key, order, r
<1>6. r = JoinEntry(acc.pool, sym, key, theirs, order)
  BY DEF r
<1>7. Joined(n, acc.pool, sym, theirs[key], r)
  BY <1>2, <1>3, <1>5, <1>6, JoinEntryGeneralizes
<1>8. Later(pool, r.pool) /\ Generalizes(n, r.pool)
  BY <1>7, LaterLaws DEF Joined, JoinFaithful
<1>9. ASSUME NEW p \in met \cup {place}
      PROVE  D(p) \in DOMAIN r.pool.memo /\ s[p] = r.pool.memo[D(p)]
  <2>1. CASE p = place
    BY <1>4, <1>7, <2>1 DEF Joined
  <2>2. CASE p # place
    <3>1. p \in met /\ s[p] = acc.syms[p]
      BY <2>2
    <3>2. D(p) \in DOMAIN acc.pool.memo /\ acc.syms[p] = acc.pool.memo[D(p)]
      BY <3>1 DEF JoinFaithful
    <3> HIDE DEF D
    <3>3. QED
      BY <1>7, <3>1, <3>2 DEF Joined, Later
  <2>3. QED
    BY <2>1, <2>2
<1> HIDE DEF s
<1>10. QED
  BY <1>1, <1>8, <1>9 DEF JoinFaithful, n


\* The places met in the first turns.
Met(places, m) == {places[j] : j \in 1 .. m}

LEMMA MetOneMore ==
  ASSUME NEW places, NEW m \in Nat
  PROVE  Met(places, 0) = {} /\ Met(places, m + 1) = Met(places, m) \cup {places[m + 1]}
<1>1. 1 .. 0 = {} /\ 1 .. m + 1 = (1 .. m) \cup {m + 1}
  OBVIOUS
<1>2. QED
  BY <1>1 DEF Met

\* A join of two stores gives every place it meets a symbol of its pool, whatever goes wrong.
LEMMA JoinWithTurnsStay ==
  ASSUME NEW pool, IsPool(pool), NEW mine, NEW other, NEW places, NEW orders,
         Len(places) \in Nat, \A i \in 1 .. Len(places) : Len(orders[places[i][1]]) \in Nat,
         \A i \in 1 .. Len(places) : PlaceIn(pool.next, mine, other, places[i]),
         NEW f, PlaceTurns(f, pool, mine, other, places, orders)
  PROVE  \A m \in 0 .. Len(places) :
           /\ JoinStays(pool, f[m], Met(places, m))
           /\ m # 0 => Later(f[m - 1].pool, f[m].pool)
<1> DEFINE P(m) == /\ JoinStays(pool, f[m], Met(places, m))
                   /\ m # 0 => Later(f[m - 1].pool, f[m].pool)
           T == {m \in Nat : m <= Len(places) => P(m)}
<1>1. 0 \in T
  <2>1. f[0].pool = pool /\ f[0].syms = <<>>
    BY DEF PlaceTurns
  <2>2. DOMAIN <<>> = {} /\ Met(places, 0) = {}
    BY MetOneMore
  <2>3. QED
    BY <2>1, <2>2, LaterLaws DEF JoinStays
<1>2. ASSUME NEW m \in T
      PROVE  m + 1 \in T
  <2>1. SUFFICES ASSUME m + 1 <= Len(places) PROVE P(m + 1)
    <3> HIDE DEF P
    <3>1. QED
      OBVIOUS
  <2>2. m \in Nat /\ JoinStays(pool, f[m], Met(places, m))
    BY <2>1
  <2>3. m + 1 \in 1 .. Len(places) /\ (m + 1) - 1 = m
    BY <2>1, <2>2
  <2>4. f[m + 1] = JoinPlace(f[m], places[m + 1], mine, other, orders)
    BY <2>3 DEF PlaceTurns
  <2>5. PlaceIn(pool.next, mine, other, places[m + 1]) /\ Len(orders[places[m + 1][1]]) \in Nat
    BY <2>3
  <2> HIDE DEF T
  <2>6. JoinStays(pool, f[m + 1], Met(places, m) \cup {places[m + 1]}) /\ Later(f[m].pool, f[m + 1].pool)
    BY <2>2, <2>4, <2>5, JoinPlaceStays
  <2>7. QED
    BY <2>2, <2>3, <2>6, MetOneMore
<1>3. T \in SUBSET Nat
  OBVIOUS
<1> HIDE DEF T
<1>4. T = Nat
  BY <1>1, <1>2, <1>3, SetInduction
<1>5. QED
  BY <1>4 DEF T

LEMMA JoinWithStays ==
  ASSUME NEW pool, IsPool(pool), NEW mine, NEW other, NEW places, NEW orders,
         Len(places) \in Nat, \A i \in 1 .. Len(places) : Len(orders[places[i][1]]) \in Nat,
         \A i \in 1 .. Len(places) : PlaceIn(pool.next, mine, other, places[i]),
         NEW w, w = JoinWith(pool, mine, other, places, orders)
  PROVE  JoinStays(pool, w, Met(places, Len(places)))
<1>1. PICK f : PlaceTurns(f, pool, mine, other, places, orders) /\ w = f[Len(places)]
  BY JoinWithTurns
<1>2. \A m \in 0 .. Len(places) : JoinStays(pool, f[m], Met(places, m))
  BY <1>1, JoinWithTurnsStay
<1>3. QED
  BY <1>1, <1>2

\* If nothing goes wrong, it is faithful to what its pool has looked up.
LEMMA JoinWithIsFaithful ==
  ASSUME NEW pool, IsPool(pool), pool.memo = <<>>, NEW mine, NEW other, NEW places, NEW orders,
         Len(places) \in Nat, \A i \in 1 .. Len(places) : Len(orders[places[i][1]]) \in Nat,
         \A i \in 1 .. Len(places) : PlaceIn(pool.next, mine, other, places[i]) /\ PlaceKept(other, places[i], orders),
         NEW w, w = JoinWith(pool, mine, other, places, orders), w.pool.misjoins = {}
  PROVE  JoinFaithful(pool.next, pool, mine, other, w, Met(places, Len(places)))
<1>1. PICK f : PlaceTurns(f, pool, mine, other, places, orders) /\ w = f[Len(places)]
  BY JoinWithTurns
<1>2. \A m \in 0 .. Len(places) :
        /\ JoinStays(pool, f[m], Met(places, m))
        /\ m # 0 => Later(f[m - 1].pool, f[m].pool)
  BY <1>1, JoinWithTurnsStay
<1> DEFINE P(m) == JoinFaithful(pool.next, pool, mine, other, f[m], Met(places, m))
           T == {m \in Nat : m <= Len(places) /\ f[m].pool.misjoins = {} => P(m)}
<1>3. 0 \in T
  <2>1. f[0].pool = pool
    BY <1>1 DEF PlaceTurns
  <2>2. DOMAIN <<>> = {} /\ Met(places, 0) = {}
    BY MetOneMore
  <2>3. Generalizes(pool.next, pool)
    BY <2>2 DEF Generalizes
  <2>4. QED
    BY <2>1, <2>2, <2>3, LaterLaws DEF JoinFaithful
<1>4. ASSUME NEW m \in T
      PROVE  m + 1 \in T
  <2>1. SUFFICES ASSUME m + 1 <= Len(places), f[m + 1].pool.misjoins = {} PROVE P(m + 1)
    <3> HIDE DEF P
    <3>1. QED
      OBVIOUS
  <2>2. m \in Nat
    OBVIOUS
  <2>3. m + 1 \in 1 .. Len(places) /\ (m + 1) - 1 = m /\ m \in 0 .. Len(places) /\ m + 1 \in 0 .. Len(places) /\ m + 1 # 0
    BY <2>1, <2>2
  <2>4. JoinStays(pool, f[m], Met(places, m)) /\ Later(f[m].pool, f[m + 1].pool)
    BY <1>2, <2>3, Zenon
  <2>5. f[m].pool.misjoins = {}
    BY <2>1, <2>4 DEF Later
  <2>6. P(m)
    <3> HIDE DEF P
    <3>1. QED
      BY <2>1, <2>3, <2>5
  <2>7. f[m + 1] = JoinPlace(f[m], places[m + 1], mine, other, orders)
    BY <1>1, <2>3 DEF PlaceTurns
  <2>8. PlaceIn(pool.next, mine, other, places[m + 1]) /\ PlaceKept(other, places[m + 1], orders)
        /\ Len(orders[places[m + 1][1]]) \in Nat
    BY <2>3
  <2>9. DOMAIN f[m].syms = Met(places, m)
    BY <2>4 DEF JoinStays
  <2> HIDE DEF T
  <2>10. JoinFaithful(pool.next, pool, mine, other, f[m + 1], Met(places, m) \cup {places[m + 1]})
    BY <2>1, <2>6, <2>7, <2>8, <2>9, JoinPlaceIsFaithful
  <2>11. QED
    BY <2>2, <2>10, MetOneMore
<1>5. T \in SUBSET Nat
  OBVIOUS
<1> HIDE DEF T
<1>6. T = Nat
  BY <1>3, <1>4, <1>5, SetInduction
<1>7. QED
  BY <1>1, <1>6 DEF T


-----------------------------------------------------------------------------
(***************************************************************************)
(* Orders of a finite set.                                                 *)
(***************************************************************************)
LEMMA OrderMeetsAll ==
  ASSUME NEW S, IsFiniteSet(S), NEW f \in [1 .. Cardinality(S) -> S], IsInjective(f)
  PROVE  Len(f) \in Nat /\ Met(f, Len(f)) = S /\ \A i \in 1 .. Len(f) : f[i] \in S
<1> DEFINE c == Cardinality(S)
<1>1. c \in Nat
  BY FS_CardinalityType
<1>2. IsFiniteSet(1 .. c) /\ Cardinality(1 .. c) = c
  BY <1>1, FS_Interval
<1>3. f \in Injection(1 .. c, S)
  BY DEF Injection, IsInjective
<1>4. f \in Surjection(1 .. c, S)
  BY <1>2, <1>3, FS_Injection
<1>5. \A s \in S : \E i \in 1 .. c : f[i] = s
  BY <1>4 DEF Surjection
<1>6. f \in Seq(S)
  BY <1>1, SeqDef
<1>7. Len(f) \in Nat /\ DOMAIN f = 1 .. Len(f)
  BY <1>6, LenProperties
<1>8. 1 .. Len(f) = 1 .. c
  BY <1>7
<1>9. QED
  BY <1>5, <1>7, <1>8 DEF Met

LEMMA SomeOrderMeetsAll ==
  ASSUME NEW S, IsFiniteSet(S), NEW f, f = SetToSeq(S)
  PROVE  Len(f) \in Nat /\ Met(f, Len(f)) = S /\ \A i \in 1 .. Len(f) : f[i] \in S
<1>1. PICK g : g \in Bijection(1 .. Cardinality(S), S)
  BY FS_CardinalityType DEF ExistsBijection
<1>2. g \in [1 .. Cardinality(S) -> S] /\ IsInjective(g)
  BY <1>1 DEF Bijection, Injection
<1>3. f \in [1 .. Cardinality(S) -> S] /\ IsInjective(f)
  BY <1>2 DEF SetToSeq
<1>4. QED
  BY <1>3, OrderMeetsAll

LEMMA EveryOrderMeetsAll ==
  ASSUME NEW S, IsFiniteSet(S), NEW f \in SetToSeqs(S)
  PROVE  Len(f) \in Nat /\ Met(f, Len(f)) = S /\ \A i \in 1 .. Len(f) : f[i] \in S
<1>1. f \in [1 .. Cardinality(S) -> S] /\ IsInjective(f)
  BY DEF SetToSeqs, IsInjective
<1>2. QED
  BY <1>1, OrderMeetsAll


-----------------------------------------------------------------------------
(***************************************************************************)
(* What a join without a misjoin means.                                    *)
(***************************************************************************)

\* Whichever side of the join a run has taken, giving the unknowns of the join the values that side
\* has makes everything that was looked up denote what that side had.
SideDenotes(side, pool, params, u, u2) ==
  \A d \in DOMAIN pool.memo : Denotes(pool.memo[d], params, u2) = Denotes(d[side], params, u)

HasSide(n, side, pool, params, u) ==
  \E u2 \in [Nat -> Values] : Agree(n, u, u2) /\ SideDenotes(side, pool, params, u, u2)

LEMMA JoinKeepsSides ==
  ASSUME NEW n \in Nat, NEW pool, IsPool(pool), n <= pool.next, Generalizes(n, pool),
         NEW side \in {1, 2}, NEW params, NEW u \in [Nat -> Values]
  PROVE  HasSide(n, side, pool, params, u)
<1> SUFFICES \E u2 \in [Nat -> Values] : Agree(n, u, u2) /\ SideDenotes(side, pool, params, u, u2)
  BY DEF HasSide
<1> DEFINE m == pool.memo
           fresh == n .. pool.next - 1
           Is(d, i) == d \in DOMAIN m /\ i \in fresh /\ m[d] = Unknown(i)
           value(d) == Denotes(d[side], params, u)
           u2 == [i \in Nat |-> IF \E d : Is(d, i) THEN value(CHOOSE d : Is(d, i)) ELSE u[i]]
<1>0. pool.next \in Nat
  BY DEF IsPool
<1>1. ASSUME NEW d \in DOMAIN m
      PROVE  d[side] \in Symbols(pool.next)
  <2>1. Symbols(n) \subseteq Symbols(pool.next)
    BY <1>0, SymbolsGrow
  <2>2. d[1] \in Symbols(pool.next) /\ d[2] \in Symbols(n)
    BY DEF Generalizes
  <2>3. QED
    BY <2>1, <2>2
<1>2. ASSUME NEW d \in DOMAIN m
      PROVE  value(d) \in Values
  BY <1>0, <1>1, SymbolsDenoteValues
<1>3. ASSUME NEW d, NEW i, Is(d, i)
      PROVE  i \in Nat /\ u2[i] = value(d)
  <2>1. i \in Nat
    BY <1>0, <1>3
  <2>2. \A e : Is(e, i) => e = d
    BY <1>3 DEF Generalizes
  <2> HIDE DEF Is, value
  <2>3. (CHOOSE e : Is(e, i)) = d
    BY <1>3, <2>2
  <2>4. QED
    BY <1>3, <2>1, <2>3
<1>4. ASSUME NEW i \in Nat, ~\E d : Is(d, i)
      PROVE  u2[i] = u[i]
  BY <1>4
<1>5. u2 \in [Nat -> Values]
  <2>1. ASSUME NEW i \in Nat
        PROVE  u2[i] \in Values
    <3>1. CASE \E d : Is(d, i)
      <4>1. PICK d : Is(d, i)
        BY <3>1
      <4>2. u2[i] = value(d) /\ value(d) \in Values
        <5>1. d \in DOMAIN m
          BY <4>1
        <5> HIDE DEF Is, value, m, u2
        <5>2. QED
          BY <4>1, <5>1, <1>2, <1>3
      <4>3. QED
        BY <4>2
    <3>2. CASE ~\E d : Is(d, i)
      BY <1>4, <3>2
    <3>3. QED
      BY <3>1, <3>2
  <2> HIDE DEF Is, value
  <2>2. QED
    BY <2>1
<1>6. Agree(n, u, u2)
  <2>1. ASSUME NEW i \in 0 .. n - 1
        PROVE  u[i] = u2[i]
    <3>1. i \in Nat /\ i \notin fresh
      BY <1>0
    <3>2. QED
      BY <1>4, <3>1
  <2> HIDE DEF u2
  <2>2. QED
    BY <2>1 DEF Agree
<1> HIDE DEF u2
<1>7. ASSUME NEW d \in DOMAIN m
      PROVE  Denotes(m[d], params, u2) = value(d)
  <2>1. CASE Equal(d[1], d[2]) /\ m[d] = d[1]
    <3>1. d[2] \in Symbols(n)
      BY DEF Generalizes
    <3>2. Denotes(d[2], params, u) = Denotes(d[2], params, u2)
      BY <1>6, <3>1, AgreeDenote
    <3>3. /\ Denotes(d[1], params, u) = Denotes(d[2], params, u)
          /\ Denotes(d[1], params, u2) = Denotes(d[2], params, u2)
      BY <2>1, EqualDenote
    <3>4. value(d) = Denotes(d[2], params, u)
      BY <3>3
    <3> HIDE DEF value
    <3>5. QED
      BY <2>1, <3>2, <3>3, <3>4
  <2>2. CASE \E i \in fresh : m[d] = Unknown(i)
    <3>1. PICK i \in fresh : m[d] = Unknown(i)
      BY <2>2
    <3>2. u2[i] = value(d)
      BY <1>3, <3>1
    <3>3. Denotes(Unknown(i), params, u2) = u2[i]
      BY DEF Denotes, Unknown
    <3>4. QED
      BY <3>1, <3>2, <3>3
  <2>3. QED
    BY <2>1, <2>2 DEF Generalizes
<1>8. QED
  BY <1>5, <1>6, <1>7 DEF SideDenotes
=============================================================================
