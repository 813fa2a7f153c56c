----------------------- MODULE SymbolicStoreAnalysis_proofs -----------------------
(***************************************************************************)
(* Proofs about the symbolic store analysis: its types, and that the store *)
(* describes the run as long as no join went wrong, for any number of      *)
(* operations, ifs, values and template parameters.                        *)
(***************************************************************************)
EXTENDS SymbolicStoreAnalysis, SymbolStore_proofs

USE MaxOpsAssumption

-----------------------------------------------------------------------------
(***************************************************************************)
(* Names and keys.                                                         *)
(***************************************************************************)
Keys == IndexSymbols \cup {Whole}

\* The locations of a name, the member having the locations ms.
Locations(name, ms) == IF name \in Arrays THEN IndexSymbols ELSE ms

LEMMA NamesAreFinite ==
  IsFiniteSet(Names) /\ Witness \in Names /\ Constraint \in Names /\ Arrays \subseteq Names
  /\ Witness \notin Arrays /\ Constraint \notin Arrays
<1>1. {Witness, Constraint} = {Witness} \cup {Constraint} /\ IsFiniteSet({Witness} \cup {Constraint})
  BY FS_Singleton, FS_Union
<1>2. QED
  BY <1>1, ArraysAssumption, FS_Union DEF Names, Witness, Constraint

LEMMA KeysAreFinite == IsFiniteSet(Keys)
<1> DEFINE C == {Constant(v, "any") : v \in ConstIndices}
           T == {TemplParam(p) : p \in Params}
<1>1. IsFiniteSet(C)
  <2> DEFINE f == [v \in ConstIndices |-> Constant(v, "any")]
  <2>1. f \in Surjection(ConstIndices, C)
    BY DEF Surjection
  <2>2. QED
    BY <2>1, ConstIndicesAssumption, FS_Surjection
<1>2. IsFiniteSet(T)
  <2> DEFINE f == [p \in Params |-> TemplParam(p)]
  <2>1. f \in Surjection(Params, T)
    BY DEF Surjection
  <2>2. QED
    BY <2>1, ParamsAssumption, FS_Surjection
<1>3. {Induction, Whole} = {Induction} \cup {Whole} /\ IsFiniteSet({Induction} \cup {Whole})
  BY FS_Singleton, FS_Union
<1>4. Keys = (C \cup T) \cup {Induction, Whole}
  BY DEF Keys, IndexSymbols
<1>5. QED
  BY <1>1, <1>2, <1>3, <1>4, FS_Union

LEMMA LocationsAreKeys ==
  \A name : Locations(name, MemberLocations) \subseteq Keys
BY DEF Locations, Keys, MemberLocations

\* What the keys denote.
LEMMA KeysDenoteValues ==
  ASSUME NEW p \in [Params -> Values], NEW i \in Values, NEW k \in Keys
  PROVE  /\ Denotes(k, p, [n \in {0} |-> i]) \in Values
         /\ \A u : u[0] = i => Denotes(k, p, u) = Denotes(k, p, [n \in {0} |-> i])
BY ConstIndicesAssumption, ValuesAssumption
   DEF Keys, IndexSymbols, Whole, Induction, Denotes, Constant, TemplParam, Unknown

-----------------------------------------------------------------------------
(***************************************************************************)
(* Types.                                                                  *)
(***************************************************************************)
Flags == Stores \cup {Element}

\* The elements of the lattice, over the symbols of a pool that has numbered n unknowns.
TypedLattice(l, n, ms) ==
  /\ l = [entries |-> l.entries, initialized |-> l.initialized]
  /\ l.entries = [name \in Names |-> l.entries[name]]
  /\ l.initialized \subseteq Flags
  /\ l.initialized # {} => Element \in l.initialized
  /\ \A name \in Names :
       /\ DOMAIN l.entries[name] \subseteq Locations(name, ms)
       /\ IsStore(l.entries[name], n)
       /\ DOMAIN l.entries[name] # {} => StoreOf(name) \in l.initialized

Typed ==
  /\ scalar \in BOOLEAN
  /\ params \in [Params -> Values]
  /\ induction \in Values
  /\ memory \in [Names -> [Values -> Values \cup {Free}]]
  /\ result = [value |-> result.value, symbol |-> result.symbol]
  /\ result.value \in Values /\ result.symbol \in Symbols(pool.next)
  /\ TypedLattice(lattice, pool.next, MemberLocations)
  /\ pool = [next |-> pool.next, memo |-> <<>>, misjoins |-> {}] /\ pool.next \in Nat \ {0}
  /\ block \in {"top", "then", "else"}
  /\ taken \in {"then", "else"}
  /\ before = [lattice |-> before.lattice, symbol |-> before.symbol]
  /\ TypedLattice(before.lattice, pool.next, MemberLocations) /\ before.symbol \in Symbols(pool.next)
  /\ joined = [lattice |-> joined.lattice, symbol |-> joined.symbol]
  /\ TypedLattice(joined.lattice, pool.next, MemberLocations) /\ joined.symbol \in Symbols(pool.next)
  /\ misjoins \subseteq {"unknown", "uninitialized", "erased"}
  /\ ops \in 0 .. MaxOps /\ ifs \in 0 .. MaxIfs

LEMMA LatticesGrow ==
  ASSUME NEW m \in Nat, NEW n \in Nat, m <= n, NEW l, NEW ms, TypedLattice(l, m, ms)
  PROVE  TypedLattice(l, n, ms)
<1>1. Symbols(m) \subseteq Symbols(n)
  BY SymbolsGrow
<1>2. \A name \in Names : IsStore(l.entries[name], n)
  BY <1>1 DEF TypedLattice, IsStore
<1>3. QED
  BY <1>2 DEF TypedLattice

LEMMA PoolIsPool ==
  ASSUME Typed
  PROVE  IsPool(pool)
<1>1. DOMAIN <<>> = {} /\ \A S : <<>> \in [{} -> S]
  OBVIOUS
<1>2. pool.memo = <<>> /\ pool.misjoins = {}
  BY DEF Typed
<1>3. QED
  BY <1>1, <1>2 DEF IsPool, Typed

LEMMA BottomIsTyped ==
  ASSUME NEW n \in Nat, NEW ms
  PROVE  TypedLattice(Bottom, n, ms) /\ \A name \in Names : Bottom.entries[name] = <<>>
<1> DEFINE e == [name \in Names |-> NoEntries]
<1>1. Bottom.entries = e /\ Bottom.initialized = {} /\ Bottom = [entries |-> e, initialized |-> {}]
  BY DEF Bottom
<1>2. DOMAIN <<>> = {} /\ <<>> \in [{} -> Symbols(n)]
  OBVIOUS
<1>3. IsFiniteSet({})
  BY FS_EmptySet
<1>4. \A name \in Names : e[name] = <<>>
  BY DEF NoEntries
<1> HIDE DEF e
<1>5. e = [name \in Names |-> e[name]]
  BY DEF e
<1>6. QED
  BY <1>1, <1>2, <1>3, <1>4, <1>5 DEF TypedLattice, IsStore

LEMMA TypedImpliesTypeOK == Typed => TypeOK
<1>1. SUFFICES ASSUME Typed PROVE TypeOK
  OBVIOUS
<1>2. ASSUME NEW l, TypedLattice(l, pool.next, MemberLocations)
      PROVE  IsLattice(l)
  BY <1>2 DEF TypedLattice, IsLattice, IsStore, IsSymbol, Locations, Flags, Initialized
<1>3. pool.memo = <<>> /\ pool.misjoins = {}
  BY <1>1 DEF Typed
<1>4. QED
  BY <1>1, <1>2, <1>3 DEF Typed, TypeOK, IsSymbol


-----------------------------------------------------------------------------
(***************************************************************************)
(* Writes to a lattice.                                                    *)
(***************************************************************************)

\* What a write does to a lattice: what a write does to the entries of one name.
Wrote(ms, l, p, name, key, sym, w) ==
  /\ w.lattice.entries[name] = WriteImpl(p, l.entries[name], key, sym).entries
  /\ w.pool = WriteImpl(p, l.entries[name], key, sym).pool
  /\ WriteEffect(p, l.entries[name], key, sym, WriteImpl(p, l.entries[name], key, sym))
  /\ \A other \in Names \ {name} : w.lattice.entries[other] = l.entries[other]
  /\ IsPool(w.pool) /\ p.next <= w.pool.next
  /\ w.pool = [next |-> w.pool.next, memo |-> p.memo, misjoins |-> p.misjoins]
  /\ TypedLattice(w.lattice, w.pool.next, ms)

LEMMA WriteStays ==
  ASSUME NEW ms, NEW p, IsPool(p), NEW l, TypedLattice(l, p.next, ms), NEW name \in Names, NEW key \in Locations(name, ms),
         NEW sym \in Symbols(p.next), NEW w, w = Write(l, p, name, key, sym)
  PROVE  Wrote(ms, l, p, name, key, sym, w)
<1> DEFINE i == WriteImpl(p, l.entries[name], key, sym)
           es == [l.entries EXCEPT ![name] = i.entries]
           flags == l.initialized \cup {Element, StoreOf(name)}
<1>1. w = [lattice |-> [entries |-> es, initialized |-> flags], pool |-> i.pool]
  BY DEF Write
<1>2. IsStore(l.entries[name], p.next)
  BY DEF TypedLattice
<1>3. i = WriteImpl(p, l.entries[name], key, sym)
  OBVIOUS
<1> HIDE DEF i
<1>4. WriteEffect(p, l.entries[name], key, sym, i)
  BY <1>2, <1>3, WriteImplEffect
<1>5. p.next \in Nat /\ i.pool.next \in Nat /\ p.next <= i.pool.next
  BY <1>4 DEF IsPool, WriteEffect
<1>6. IsPool(i.pool)
  <2>1. Symbols(p.next) \subseteq Symbols(i.pool.next)
    BY <1>5, SymbolsGrow
  <2>2. i.pool.memo = p.memo /\ i.pool.misjoins = p.misjoins
    BY <1>4 DEF WriteEffect
  <2>3. i.pool.memo \in [DOMAIN i.pool.memo -> Symbols(i.pool.next)] /\ i.pool.misjoins \subseteq {"unknown"}
    BY <2>1, <2>2 DEF IsPool
  <2>4. i.pool = [next |-> i.pool.next, memo |-> i.pool.memo, misjoins |-> i.pool.misjoins]
    BY <1>4, <2>2 DEF WriteEffect
  <2>5. QED
    BY <1>5, <2>3, <2>4 DEF IsPool
<1>7. TypedLattice(l, i.pool.next, ms)
  BY <1>5, LatticesGrow
<1>8. /\ l.entries = [m \in Names |-> l.entries[m]]
      /\ DOMAIN l.entries[name] \subseteq Locations(name, ms)
  BY DEF TypedLattice
<1>9. es = [m \in Names |-> IF m = name THEN i.entries ELSE l.entries[m]]
  BY <1>8
<1>10. es[name] = i.entries /\ \A m \in Names \ {name} : es[m] = l.entries[m]
  BY <1>9
<1>11. es = [m \in Names |-> es[m]]
  BY <1>9
<1>12. IsStore(i.entries, i.pool.next) /\ DOMAIN i.entries \subseteq Locations(name, ms)
  BY <1>4, <1>8 DEF WriteEffect
<1>13. flags \subseteq Flags /\ Element \in flags /\ StoreOf(name) \in flags /\ l.initialized \subseteq flags
  BY DEF TypedLattice, Flags, Stores, StoreOf
<1> HIDE DEF es, flags
<1>14. \A m \in Names : /\ DOMAIN es[m] \subseteq Locations(m, ms)
                        /\ IsStore(es[m], i.pool.next)
                        /\ DOMAIN es[m] # {} => StoreOf(m) \in flags
  <2>1. TAKE m \in Names
  <2>2. CASE m = name
    BY <1>10, <1>12, <1>13, <2>2
  <2>3. CASE m # name
    BY <1>7, <1>10, <1>13, <2>3 DEF TypedLattice
  <2>4. QED
    BY <2>2, <2>3
<1>15. w.lattice = [entries |-> es, initialized |-> flags] /\ w.pool = i.pool
  BY <1>1
<1>16. w.lattice.entries = es /\ w.lattice.initialized = flags
  BY <1>15
<1>17. TypedLattice(w.lattice, i.pool.next, ms)
  BY <1>11, <1>13, <1>14, <1>15, <1>16 DEF TypedLattice
<1>18. w.pool = [next |-> w.pool.next, memo |-> p.memo, misjoins |-> p.misjoins]
  BY <1>4, <1>15 DEF WriteEffect
<1>19. QED
  BY <1>4, <1>5, <1>6, <1>10, <1>15, <1>16, <1>17, <1>18 DEF Wrote, i


\* The turns of the loop that writes the entries of an array to a member.
WriteTurns(f, l, p, name, entries, order) ==
  /\ f[0] = [lattice |-> l, pool |-> p]
  /\ \A m \in 1 .. Len(order) : f[m] = Write(f[m - 1].lattice, f[m - 1].pool, name, order[m], entries[order[m]])

LEMMA WriteEntriesTurns ==
  ASSUME NEW l, NEW p, NEW name, NEW entries, NEW order, Len(order) \in Nat
  PROVE  \E f : /\ WriteTurns(f, l, p, name, entries, order)
                /\ WriteEntries(l, p, name, entries, order) = f[Len(order)]
<1> DEFINE start == [lattice |-> l, pool |-> p]
           Good(g, m) == g = [n \in 0 .. m |-> IF n = 0 THEN start ELSE Write(g[n - 1].lattice, g[n - 1].pool, name, order[n], entries[order[n]])]
           T == {m \in Nat : \E g : Good(g, m)}
<1> HIDE DEF start
<1>1. 0 \in T
  <2> DEFINE g == [n \in {0} |-> start]
  <2>1. 0 .. 0 = {0}
    OBVIOUS
  <2>2. g = [n \in 0 .. 0 |-> IF n = 0 THEN start ELSE Write(g[n - 1].lattice, g[n - 1].pool, name, order[n], entries[order[n]])]
    BY <2>1, Zenon
  <2>3. QED
    BY <2>2
<1>2. ASSUME NEW m \in T
      PROVE  m + 1 \in T
  <2>1. PICK g : Good(g, m)
    OBVIOUS
  <2>2. \A n \in 0 .. m : g[n] = IF n = 0 THEN start ELSE Write(g[n - 1].lattice, g[n - 1].pool, name, order[n], entries[order[n]])
    BY <2>1
  <2> DEFINE h == [n \in 0 .. m + 1 |-> IF n \in 0 .. m THEN g[n] ELSE Write(g[m].lattice, g[m].pool, name, order[m + 1], entries[order[m + 1]])]
  <2>3. ASSUME NEW n \in 0 .. m + 1
        PROVE  h[n] = IF n = 0 THEN start ELSE Write(h[n - 1].lattice, h[n - 1].pool, name, order[n], entries[order[n]])
    <3>1. CASE n \in 0 .. m
      <4>1. h[n] = g[n] /\ (n # 0 => n - 1 \in 0 .. m /\ n - 1 \in 0 .. m + 1)
        BY <3>1
      <4>2. n # 0 => h[n - 1] = g[n - 1]
        BY <4>1
      <4>3. QED
        BY <4>1, <4>2, <3>1, <2>2
    <3>2. CASE n \notin 0 .. m
      <4>1. n = m + 1 /\ n # 0 /\ n - 1 = m /\ m \in 0 .. m + 1 /\ m \in 0 .. m
        <5>1. m \in Nat
          OBVIOUS
        <5> HIDE DEF T, h
        <5>2. QED
          BY <3>2, <5>1
      <4>2. h[n] = Write(g[m].lattice, g[m].pool, name, order[m + 1], entries[order[m + 1]]) /\ h[n - 1] = g[m]
        BY <3>2, <4>1
      <4>3. QED
        BY <4>1, <4>2
    <3>3. QED
      BY <3>1, <3>2
  <2>4. DOMAIN h = 0 .. m + 1 /\ h = [n \in DOMAIN h |-> h[n]]
    OBVIOUS
  <2> HIDE DEF h
  <2>5. Good(h, m + 1)
    BY <2>3, <2>4
  <2>6. m + 1 \in Nat
    OBVIOUS
  <2> HIDE DEF Good
  <2>7. QED
    BY <2>5, <2>6
<1>3. T \in SUBSET Nat
  OBVIOUS
<1> HIDE DEF T
<1>4. T = Nat
  BY <1>1, <1>2, <1>3, SetInduction
<1> DEFINE acc[n \in 0 .. Len(order)] ==
             IF n = 0 THEN [lattice |-> l, pool |-> p] ELSE Write(acc[n - 1].lattice, acc[n - 1].pool, name, order[n], entries[order[n]])
<1>5. WriteEntries(l, p, name, entries, order) = acc[Len(order)]
  BY DEF WriteEntries
<1>6. acc = [n \in 0 .. Len(order) |->
               IF n = 0 THEN [lattice |-> l, pool |-> p] ELSE Write(acc[n - 1].lattice, acc[n - 1].pool, name, order[n], entries[order[n]])]
  <2>1. \E g : g = [n \in 0 .. Len(order) |->
               IF n = 0 THEN [lattice |-> l, pool |-> p] ELSE Write(g[n - 1].lattice, g[n - 1].pool, name, order[n], entries[order[n]])]
    BY <1>4 DEF T, start
  <2>2. QED
    BY <2>1 DEF acc
<1> HIDE DEF acc
<1>7. WriteTurns(acc, l, p, name, entries, order)
  BY <1>6 DEF WriteTurns
<1>8. QED
  BY <1>5, <1>7

\* Entries of an array have been written to a name: each is there, unless a later one may alias it,
\* and what may have changed became unknowns that nothing else is.
WroteSome(ms, l, p, name, entries, met, acc) ==
  /\ TypedLattice(acc.lattice, acc.pool.next, ms) /\ IsPool(acc.pool) /\ p.next <= acc.pool.next
  /\ acc.pool = [next |-> acc.pool.next, memo |-> p.memo, misjoins |-> p.misjoins]
  /\ \A other \in Names \ {name} : acc.lattice.entries[other] = l.entries[other]
  /\ DOMAIN acc.lattice.entries[name] = DOMAIN l.entries[name] \cup met
  /\ OneKnown(l.entries[name]) => OneKnown(acc.lattice.entries[name])
  /\ \A k \in met : \/ Equal(acc.lattice.entries[name][k], entries[k])
                    \/ \E i \in p.next .. acc.pool.next - 1 : acc.lattice.entries[name][k] = Unknown(i)
  /\ \A j, k \in DOMAIN acc.lattice.entries[name] : \A i \in p.next .. acc.pool.next - 1 :
       acc.lattice.entries[name][j] = Unknown(i) /\ acc.lattice.entries[name][k] = Unknown(i) => j = k

LEMMA WriteOneMore ==
  ASSUME NEW ms, NEW p, IsPool(p), NEW l, NEW name \in Names, NEW entries, NEW met, NEW acc,
         WroteSome(ms, l, p, name, entries, met, acc), NEW key \in Locations(name, ms), entries[key] \in Symbols(p.next),
         NEW w, w = Write(acc.lattice, acc.pool, name, key, entries[key])
  PROVE  WroteSome(ms, l, p, name, entries, met \cup {key}, w)
<1> DEFINE n == p.next
           n1 == acc.pool.next
           n2 == w.pool.next
           sym == entries[key]
           e1 == acc.lattice.entries[name]
           e2 == w.lattice.entries[name]
           i == WriteImpl(acc.pool, e1, key, sym)
<1>1. n \in Nat /\ n1 \in Nat /\ n <= n1 /\ sym \in Symbols(n1)
  BY SymbolsGrow DEF WroteSome, IsPool
<1>2. Wrote(ms, acc.lattice, acc.pool, name, key, sym, w)
  BY <1>1, WriteStays DEF WroteSome
<1>3. WriteEffect(acc.pool, e1, key, sym, i) /\ e2 = i.entries /\ w.pool = i.pool
  BY <1>2 DEF Wrote
<1> HIDE DEF i
<1>4. n2 \in Nat /\ n1 <= n2 /\ n <= n2
  <2>1. i.pool.next \in Nat /\ acc.pool.next <= i.pool.next
    BY <1>3 DEF WriteEffect
  <2>2. QED
    BY <1>1, <1>3, <2>1
<1>5. DOMAIN e2 = DOMAIN e1 \cup {key} /\ Equal(e2[key], sym)
  BY <1>3 DEF WriteEffect
<1>6. OneKnown(e1) => OneKnown(e2)
  BY <1>3, WriteKeepsOneKnown
<1>7. DOMAIN e1 = DOMAIN l.entries[name] \cup met
  BY DEF WroteSome
<1>8. ASSUME NEW k \in DOMAIN e1 \ {key}
      PROVE  e2[k] = e1[k] \/ \E x \in n1 .. n2 - 1 : e2[k] = Unknown(x)
  <2>1. i.entries[k] = e1[k] \/ \E x \in n1 .. i.pool.next - 1 : i.entries[k] = Unknown(x)
    <3> HIDE DEF e1, sym
    <3>1. QED
      BY <1>3, <1>8 DEF WriteEffect
  <2>2. QED
    BY <1>3, <2>1
<1>9. \A j, k \in DOMAIN e2 : \A x \in n1 .. n2 - 1 : e2[j] = Unknown(x) /\ e2[k] = Unknown(x) => j = k
  <2>1. \A j, k \in DOMAIN i.entries : \A x \in n1 .. i.pool.next - 1 :
          i.entries[j] = Unknown(x) /\ i.entries[k] = Unknown(x) => j = k
    <3> HIDE DEF e1, sym
    <3>1. QED
      BY <1>3 DEF WriteEffect
  <2>2. QED
    BY <1>3, <2>1
<1>10. ASSUME NEW k \in met
       PROVE  Equal(e1[k], entries[k]) \/ \E x \in n .. n1 - 1 : e1[k] = Unknown(x)
  BY DEF WroteSome
<1>11. \A j, k \in DOMAIN e1 : \A x \in n .. n1 - 1 : e1[j] = Unknown(x) /\ e1[k] = Unknown(x) => j = k
  BY DEF WroteSome
<1>12. n .. n1 - 1 \subseteq n .. n2 - 1 /\ n1 .. n2 - 1 \subseteq n .. n2 - 1
  BY <1>1, <1>4
<1>13. ASSUME NEW k \in met \cup {key}
       PROVE  Equal(e2[k], entries[k]) \/ \E x \in n .. n2 - 1 : e2[k] = Unknown(x)
  <2>1. CASE k = key
    BY <1>5, <2>1
  <2>2. CASE k # key
    <3>1. k \in DOMAIN e1 \ {key} /\ k \in met
      BY <1>7, <2>2
    <3> HIDE DEF n, n1, n2, e1, e2
    <3>2. QED
      BY <1>8, <1>10, <1>12, <3>1
  <2>3. QED
    BY <2>1, <2>2
<1>14. ASSUME NEW j \in DOMAIN e2, NEW x \in n .. n2 - 1, e2[j] = Unknown(x), x < n1
       PROVE  j \in DOMAIN e1 /\ e1[j] = Unknown(x) /\ x \in n .. n1 - 1
  <2>1. x \in Int /\ x >= n /\ x \in n .. n1 - 1
    BY <1>1, <1>4, <1>14
  <2>2. j # key
    BY <1>1, <1>5, <1>14, <2>1, OldAreNotFresh
  <2>3. j \in DOMAIN e1 \ {key}
    BY <1>5, <2>2
  <2>4. \A y \in n1 .. n2 - 1 : y # x
    BY <1>1, <1>4, <1>14
  <2> HIDE DEF n, n1, n2, e1, e2
  <2>5. e2[j] = e1[j]
    BY <1>8, <1>14, <2>3, <2>4, UnknownsDiffer
  <2>6. QED
    BY <1>14, <2>1, <2>3, <2>5
<1>15. ASSUME NEW j \in DOMAIN e2, NEW k \in DOMAIN e2, NEW x \in n .. n2 - 1, e2[j] = Unknown(x), e2[k] = Unknown(x)
       PROVE  j = k
  <2>1. CASE x < n1
    <3> HIDE DEF n, n1, n2, e1, e2
    <3>1. QED
      BY <1>11, <1>14, <1>15, <2>1
  <2>2. CASE ~(x < n1)
    <3>1. x \in n1 .. n2 - 1
      BY <1>1, <1>4, <2>2
    <3>2. QED
      BY <1>9, <1>15, <3>1
  <2>3. QED
    BY <2>1, <2>2
<1>16. /\ TypedLattice(w.lattice, n2, ms) /\ IsPool(w.pool)
       /\ w.pool = [next |-> n2, memo |-> p.memo, misjoins |-> p.misjoins]
       /\ \A other \in Names \ {name} : w.lattice.entries[other] = l.entries[other]
  <2>1. acc.pool.memo = p.memo /\ acc.pool.misjoins = p.misjoins
    BY DEF WroteSome
  <2>2. QED
    BY <1>2, <2>1 DEF Wrote, WroteSome
<1>17. OneKnown(l.entries[name]) => OneKnown(e2)
  BY <1>6 DEF WroteSome
<1>18. DOMAIN e2 = DOMAIN l.entries[name] \cup (met \cup {key})
  BY <1>5, <1>7
<1> DEFINE k2 == met \cup {key}
           WS == /\ TypedLattice(w.lattice, n2, ms) /\ IsPool(w.pool) /\ n <= n2
                 /\ w.pool = [next |-> n2, memo |-> p.memo, misjoins |-> p.misjoins]
                 /\ \A other \in Names \ {name} : w.lattice.entries[other] = l.entries[other]
                 /\ DOMAIN e2 = DOMAIN l.entries[name] \cup k2
                 /\ OneKnown(l.entries[name]) => OneKnown(e2)
                 /\ \A k \in k2 : Equal(e2[k], entries[k]) \/ \E x \in n .. n2 - 1 : e2[k] = Unknown(x)
                 /\ \A j, k \in DOMAIN e2 : \A x \in n .. n2 - 1 :
                      e2[j] = Unknown(x) /\ e2[k] = Unknown(x) => j = k
<1>19. WS
  <2> HIDE DEF n, n2, e2
  <2>1. QED
    BY <1>4, <1>13, <1>15, <1>16, <1>17, <1>18
<1>20. WroteSome(ms, l, p, name, entries, k2, w) <=> WS
  BY DEF WroteSome
<1>21. QED
  BY <1>19, <1>20


LEMMA WriteEntriesWrites ==
  ASSUME NEW ms, NEW p, IsPool(p), NEW l, TypedLattice(l, p.next, ms), NEW name \in Names, NEW entries,
         NEW order, Len(order) \in Nat,
         \A i \in 1 .. Len(order) : order[i] \in Locations(name, ms) /\ entries[order[i]] \in Symbols(p.next),
         NEW w, w = WriteEntries(l, p, name, entries, order)
  PROVE  WroteSome(ms, l, p, name, entries, Met(order, Len(order)), w)
<1>1. PICK f : WriteTurns(f, l, p, name, entries, order) /\ w = f[Len(order)]
  BY WriteEntriesTurns
<1> DEFINE P(m) == WroteSome(ms, l, p, name, entries, Met(order, m), f[m])
           T == {m \in Nat : m <= Len(order) => P(m)}
<1>2. 0 \in T
  <2>1. f[0].lattice = l /\ f[0].pool = p
    BY <1>1 DEF WriteTurns
  <2>2. Met(order, 0) = {}
    BY MetOneMore
  <2>3. p.next \in Nat /\ p.next .. p.next - 1 = {} /\ p = [next |-> p.next, memo |-> p.memo, misjoins |-> p.misjoins]
    BY DEF IsPool
  <2>4. P(0)
    BY <2>1, <2>2, <2>3 DEF WroteSome
  <2> HIDE DEF P
  <2>5. QED
    BY <2>4
<1>3. ASSUME NEW m \in T
      PROVE  m + 1 \in T
  <2> HIDE DEF P
  <2>1. SUFFICES ASSUME m + 1 <= Len(order) PROVE P(m + 1)
    OBVIOUS
  <2>2. m \in Nat /\ P(m)
    BY <2>1
  <2>3. m + 1 \in 1 .. Len(order) /\ (m + 1) - 1 = m
    BY <2>1, <2>2
  <2> DEFINE key == order[m + 1]
  <2>4. f[m + 1] = Write(f[m].lattice, f[m].pool, name, key, entries[key])
    BY <1>1, <2>3 DEF WriteTurns
  <2>5. key \in Locations(name, ms) /\ entries[key] \in Symbols(p.next)
    BY <2>3
  <2> HIDE DEF T
  <2>6. WroteSome(ms, l, p, name, entries, Met(order, m) \cup {key}, f[m + 1])
    BY <2>2, <2>4, <2>5, WriteOneMore DEF P
  <2>7. QED
    BY <2>2, <2>6, MetOneMore DEF P
<1>4. T \in SUBSET Nat
  OBVIOUS
<1> HIDE DEF T
<1>5. T = Nat
  BY <1>2, <1>3, <1>4, SetInduction
<1>6. QED
  BY <1>1, <1>5 DEF T


-----------------------------------------------------------------------------
(***************************************************************************)
(* The join of two lattices.                                               *)
(***************************************************************************)
Merged(mine, rhs) == {name \in Names : StoreOf(name) \in mine.initialized \cap rhs.initialized}
KeptAt(mine, rhs, name) == Kept(mine.entries[name], rhs.entries[name])
Places(mine, rhs) == UNION {{name} \X KeptAt(mine, rhs, name) : name \in Merged(mine, rhs)}

JoinOf(mine, rhs, p, orders) == JoinWith(p, mine.entries, rhs.entries, SetToSeq(Places(mine, rhs)), orders)

\* The locations both lattices have an entry for, in the order of the join.
PlacesInOrder(n, mine, rhs, places) ==
  /\ Len(places) \in Nat /\ Met(places, Len(places)) = Places(mine, rhs)
  /\ \A i \in 1 .. Len(places) : places[i] \in Places(mine, rhs)
  /\ \A i \in 1 .. Len(places) : PlaceIn(n, mine.entries, rhs.entries, places[i])

LEMMA PlacesAreIn ==
  ASSUME NEW ms \in SUBSET Keys, NEW n \in Nat, NEW mine, TypedLattice(mine, n, ms), NEW rhs, TypedLattice(rhs, n, ms),
         NEW places, places = SetToSeq(Places(mine, rhs))
  PROVE  PlacesInOrder(n, mine, rhs, places)
<1>1. Places(mine, rhs) \subseteq Names \X Keys
  <2>1. \A name \in Names : KeptAt(mine, rhs, name) \subseteq Keys
    BY DEF KeptAt, Kept, TypedLattice, Locations, Keys
  <2>2. QED
    BY <2>1 DEF Places, Merged
<1>2. IsFiniteSet(Places(mine, rhs))
  BY <1>1, NamesAreFinite, KeysAreFinite, FS_Product, FS_Subset
<1>3. /\ Len(places) \in Nat /\ Met(places, Len(places)) = Places(mine, rhs)
      /\ \A i \in 1 .. Len(places) : places[i] \in Places(mine, rhs)
  BY <1>2, SomeOrderMeetsAll
<1>4. ASSUME NEW q \in Places(mine, rhs)
      PROVE  PlaceIn(n, mine.entries, rhs.entries, q)
  <2>1. q[1] \in Names /\ q[2] \in DOMAIN mine.entries[q[1]]
    BY DEF Places, Merged, KeptAt, Kept
  <2>2. IsStore(mine.entries[q[1]], n) /\ IsStore(rhs.entries[q[1]], n)
    BY <2>1 DEF TypedLattice
  <2>3. QED
    BY <2>1, <2>2 DEF PlaceIn, IsStore
<1>5. QED
  BY <1>3, <1>4 DEF PlacesInOrder

\* The other lattice is iterated over all that may be joined.
MeetsAll(mine, rhs, orders) ==
  \A name \in Names : \A k \in DOMAIN mine.entries[name] \cap DOMAIN rhs.entries[name] :
    \E i \in 1 .. Len(orders[name]) : orders[name][i] = k

LEMMA JoinOrdersMeetAll ==
  ASSUME NEW ms \in SUBSET Keys, NEW n \in Nat, NEW mine, NEW rhs, TypedLattice(rhs, n, ms),
         NEW orders \in JoinOrders(mine, rhs)
  PROVE  (\A name \in Names : Len(orders[name]) \in Nat) /\ MeetsAll(mine, rhs, orders)
<1>1. ASSUME NEW name \in Names
      PROVE  /\ Len(orders[name]) \in Nat
             /\ \A k \in DOMAIN mine.entries[name] \cap DOMAIN rhs.entries[name] :
                  \E i \in 1 .. Len(orders[name]) : orders[name][i] = k
  <2>1. orders[name] \in OrdersMet(mine, rhs, name)
    BY DEF JoinOrders
  <2>2. CASE DOMAIN mine.entries[name] = {}
    <3>1. orders[name] = <<>>
      BY <2>1, <2>2 DEF OrdersMet
    <3>2. QED
      BY <2>2, <3>1
  <2>3. CASE DOMAIN mine.entries[name] # {}
    <3>1. IsFiniteSet(DOMAIN rhs.entries[name])
      BY DEF TypedLattice, IsStore
    <3>2. orders[name] \in SetToSeqs(DOMAIN rhs.entries[name])
      BY <2>1, <2>3 DEF OrdersMet, OrdersOf
    <3>3. Len(orders[name]) \in Nat /\ Met(orders[name], Len(orders[name])) = DOMAIN rhs.entries[name]
      BY <3>1, <3>2, EveryOrderMeetsAll
    <3>4. QED
      BY <3>3 DEF Met
  <2>4. QED
    BY <2>2, <2>3
<1>2. QED
  BY <1>1 DEF MeetsAll

\* The entries after a join of two stores.
IsJoinOf(mine, rhs, j, w) ==
  /\ w.pool = j.pool
  /\ w.lattice = [entries |-> w.lattice.entries, initialized |-> mine.initialized]
  /\ w.lattice.entries = [name \in Names |-> w.lattice.entries[name]]
  /\ \A name \in Merged(mine, rhs) :
       w.lattice.entries[name] = [k \in KeptAt(mine, rhs, name) |-> j.syms[<<name, k>>]]
  /\ \A name \in Names \ Merged(mine, rhs) : w.lattice.entries[name] = mine.entries[name]

LEMMA JoinStoresEntries ==
  ASSUME NEW mine, NEW rhs, NEW p, NEW orders, NEW w, w = JoinStores(mine, rhs, p, orders),
         NEW n, NEW ms, TypedLattice(mine, n, ms)
  PROVE  IsJoinOf(mine, rhs, JoinOf(mine, rhs, p, orders), w)
<1> DEFINE j == JoinOf(mine, rhs, p, orders)
           es == [name \in Names |-> IF name \in Merged(mine, rhs) THEN [k \in KeptAt(mine, rhs, name) |-> j.syms[<<name, k>>]]
                                     ELSE mine.entries[name]]
<1>1. w = [lattice |-> [mine EXCEPT !.entries = es], pool |-> j.pool]
  BY DEF JoinStores, JoinOf, Places, Merged, KeptAt
<1>2. mine = [entries |-> mine.entries, initialized |-> mine.initialized]
  BY DEF TypedLattice
<1> HIDE DEF es, j
<1>3. [mine EXCEPT !.entries = es] = [entries |-> es, initialized |-> mine.initialized]
  BY <1>2
<1>4. w.lattice = [entries |-> es, initialized |-> mine.initialized] /\ w.pool = j.pool
  BY <1>1, <1>3
<1>5. w.lattice.entries = es /\ w.lattice.initialized = mine.initialized
  BY <1>4
<1>6. es = [name \in Names |-> es[name]]
  BY DEF es
<1>7. /\ \A name \in Merged(mine, rhs) : es[name] = [k \in KeptAt(mine, rhs, name) |-> j.syms[<<name, k>>]]
      /\ \A name \in Names \ Merged(mine, rhs) : es[name] = mine.entries[name]
  BY DEF es, Merged
<1>8. QED
  BY <1>4, <1>5, <1>6, <1>7 DEF j, IsJoinOf

LEMMA JoinStoresStays ==
  ASSUME NEW ms \in SUBSET Keys, NEW p, IsPool(p), NEW mine, TypedLattice(mine, p.next, ms),
         NEW rhs, TypedLattice(rhs, p.next, ms), NEW orders \in JoinOrders(mine, rhs),
         NEW w, w = JoinStores(mine, rhs, p, orders)
  PROVE  Later(p, w.pool) /\ TypedLattice(w.lattice, w.pool.next, ms)
<1> DEFINE j == JoinOf(mine, rhs, p, orders)
           es == w.lattice.entries
           n == w.pool.next
<1>1. p.next \in Nat
  BY DEF IsPool
<1>2. JoinStays(p, j, Places(mine, rhs))
  <2> DEFINE places == SetToSeq(Places(mine, rhs))
  <2>1. /\ Len(places) \in Nat /\ Met(places, Len(places)) = Places(mine, rhs)
        /\ \A i \in 1 .. Len(places) : PlaceIn(p.next, mine.entries, rhs.entries, places[i])
    <3> DEFINE m == p.next
    <3>1. m \in Nat /\ TypedLattice(mine, m, ms) /\ TypedLattice(rhs, m, ms)
      BY <1>1
    <3> HIDE DEF m
    <3>2. PlacesInOrder(m, mine, rhs, SetToSeq(Places(mine, rhs)))
      BY <3>1, PlacesAreIn
    <3>3. QED
      BY <3>2 DEF PlacesInOrder, m
  <2>2. \A i \in 1 .. Len(places) : Len(orders[places[i][1]]) \in Nat
    <3>1. \A name \in Names : Len(orders[name]) \in Nat
      BY <1>1, JoinOrdersMeetAll
    <3>2. \A q \in Places(mine, rhs) : q[1] \in Names
      BY DEF Places, Merged
    <3> HIDE DEF places
    <3>3. QED
      BY <2>1, <3>1, <3>2 DEF Met
  <2>3. j = JoinWith(p, mine.entries, rhs.entries, places, orders)
    BY DEF JoinOf
  <2> HIDE DEF j, places
  <2>4. JoinStays(p, j, Met(places, Len(places)))
    BY <2>1, <2>2, <2>3, JoinWithStays
  <2>5. QED
    BY <2>1, <2>4
<1>3. /\ w.pool = j.pool
      /\ w.lattice = [entries |-> es, initialized |-> mine.initialized]
      /\ es = [name \in Names |-> es[name]]
      /\ \A name \in Merged(mine, rhs) : es[name] = [k \in KeptAt(mine, rhs, name) |-> j.syms[<<name, k>>]]
      /\ \A name \in Names \ Merged(mine, rhs) : es[name] = mine.entries[name]
  <2>1. IsJoinOf(mine, rhs, JoinOf(mine, rhs, p, orders), w)
    BY JoinStoresEntries
  <2>2. QED
    BY <2>1 DEF IsJoinOf
<1> HIDE DEF j
<1>4. Later(p, w.pool) /\ n \in Nat /\ p.next <= n
  BY <1>2, <1>3 DEF JoinStays, Later, IsPool
<1>5. TypedLattice(mine, n, ms)
  BY <1>1, <1>4, LatticesGrow
<1>6. ASSUME NEW name \in Names
      PROVE  /\ DOMAIN es[name] \subseteq DOMAIN mine.entries[name]
             /\ es[name] \in [DOMAIN es[name] -> Symbols(n)]
  <2>1. CASE name \in Merged(mine, rhs)
    <3>1. \A k \in KeptAt(mine, rhs, name) : <<name, k>> \in Places(mine, rhs)
      BY <2>1 DEF Places
    <3>2. \A k \in KeptAt(mine, rhs, name) : j.syms[<<name, k>>] \in Symbols(n)
      BY <1>2, <1>3, <3>1 DEF JoinStays
    <3>3. QED
      BY <1>3, <2>1, <3>2 DEF KeptAt, Kept
  <2>2. CASE name \notin Merged(mine, rhs)
    <3>1. es[name] = mine.entries[name]
      BY <1>3, <2>2
    <3>2. QED
      BY <1>5, <3>1 DEF TypedLattice, IsStore
  <2>3. QED
    BY <2>1, <2>2
<1>7. ASSUME NEW name \in Names
      PROVE  /\ DOMAIN es[name] \subseteq Locations(name, ms)
             /\ IsStore(es[name], n)
             /\ DOMAIN es[name] # {} => StoreOf(name) \in mine.initialized
  <2>1. /\ DOMAIN mine.entries[name] \subseteq Locations(name, ms) /\ IsFiniteSet(DOMAIN mine.entries[name])
        /\ DOMAIN mine.entries[name] # {} => StoreOf(name) \in mine.initialized
    BY <1>5 DEF TypedLattice, IsStore
  <2>2. QED
    BY <1>6, <2>1, FS_Subset DEF IsStore
<1>8. w.lattice.initialized = mine.initialized
  BY <1>3
<1> HIDE DEF es
<1>9. TypedLattice(w.lattice, n, ms)
  BY <1>3, <1>5, <1>7, <1>8 DEF TypedLattice, es
<1>10. QED
  BY <1>4, <1>9


LEMMA JoinStoresIsFaithful ==
  ASSUME NEW ms \in SUBSET Keys, NEW p, IsPool(p), p.memo = <<>>, NEW mine, TypedLattice(mine, p.next, ms),
         NEW rhs, TypedLattice(rhs, p.next, ms), \A name \in Names : OneKnown(rhs.entries[name]),
         NEW orders \in JoinOrders(mine, rhs), NEW j, j = JoinOf(mine, rhs, p, orders), j.pool.misjoins = {}
  PROVE  JoinFaithful(p.next, p, mine.entries, rhs.entries, j, Places(mine, rhs))
<1> DEFINE places == SetToSeq(Places(mine, rhs))
<1>1. p.next \in Nat
  BY DEF IsPool
<1>2. /\ Len(places) \in Nat /\ Met(places, Len(places)) = Places(mine, rhs)
      /\ \A i \in 1 .. Len(places) : places[i] \in Places(mine, rhs)
      /\ \A i \in 1 .. Len(places) : PlaceIn(p.next, mine.entries, rhs.entries, places[i])
  <2>1. PlacesInOrder(p.next, mine, rhs, places)
    BY <1>1, PlacesAreIn
  <2>2. QED
    BY <2>1 DEF PlacesInOrder
<1>3. (\A name \in Names : Len(orders[name]) \in Nat) /\ MeetsAll(mine, rhs, orders)
  BY <1>1, JoinOrdersMeetAll
<1>4. j = JoinWith(p, mine.entries, rhs.entries, places, orders)
  BY DEF JoinOf
<1>5. ASSUME NEW q \in Places(mine, rhs)
      PROVE  PlaceKept(rhs.entries, q, orders) /\ Len(orders[q[1]]) \in Nat
  <2>1. q[1] \in Names /\ q[2] \in DOMAIN mine.entries[q[1]] \cap DOMAIN rhs.entries[q[1]]
    BY DEF Places, Merged, KeptAt, Kept
  <2>2. QED
    BY <1>3, <2>1 DEF PlaceKept, MeetsAll
<1> HIDE DEF places
<1>6. \A i \in 1 .. Len(places) : PlaceIn(p.next, mine.entries, rhs.entries, places[i])
                                  /\ PlaceKept(rhs.entries, places[i], orders)
                                  /\ Len(orders[places[i][1]]) \in Nat
  BY <1>2, <1>5
<1>7. JoinFaithful(p.next, p, mine.entries, rhs.entries, j, Met(places, Len(places)))
  BY <1>2, <1>3, <1>4, <1>6, JoinWithIsFaithful
<1>8. QED
  BY <1>2, <1>7

\* A join that went wrong in neither way: what its pool has looked up generalizes both sides, and
\* the entries it keeps are those that were found.
LEMMA EmptyIsFaithful ==
  ASSUME NEW p, IsPool(p), p.memo = <<>>
  PROVE  Generalizes(p.next, p)
<1>1. DOMAIN <<>> = {}
  OBVIOUS
<1>2. QED
  BY <1>1 DEF Generalizes

\* The cases of the join of two lattices.
LEMMA LatticeJoinCases ==
  ASSUME NEW mine, NEW rhs, NEW p, NEW orders, NEW w, w = LatticeJoin(mine, rhs, p, orders),
         NEW n, NEW ms, TypedLattice(mine, n, ms)
  PROVE  \/ /\ ~Initialized(rhs) /\ w.pool = p
            /\ w.lattice = [entries |-> Bottom.entries, initialized |-> mine.initialized]
         \/ Initialized(rhs) /\ ~Initialized(mine) /\ w.pool = p /\ w.lattice = rhs
         \/ Initialized(rhs) /\ Initialized(mine) /\ SameEntries(mine, rhs) /\ w.pool = p /\ w.lattice = mine
         \/ /\ Initialized(rhs) /\ Initialized(mine) /\ w = JoinStores(mine, rhs, p, orders)
<1>1. CASE ~Initialized(rhs)
  <2> DEFINE e == [name \in Names |-> NoEntries]
  <2>1. w = [lattice |-> [mine EXCEPT !.entries = e], pool |-> p]
    BY <1>1 DEF LatticeJoin
  <2>2. Bottom.entries = e
    BY DEF Bottom
  <2>3. mine = [entries |-> mine.entries, initialized |-> mine.initialized]
    BY DEF TypedLattice
  <2> HIDE DEF e
  <2>4. [mine EXCEPT !.entries = e] = [entries |-> e, initialized |-> mine.initialized]
    BY <2>3
  <2>5. w.lattice = [entries |-> e, initialized |-> mine.initialized] /\ w.pool = p
    BY <2>1, <2>4
  <2>6. QED
    BY <1>1, <2>2, <2>5
<1>2. CASE Initialized(rhs) /\ ~Initialized(mine)
  <2>1. w = [lattice |-> rhs, pool |-> p]
    BY <1>2 DEF LatticeJoin
  <2>2. QED
    BY <1>2, <2>1
<1>3. CASE Initialized(rhs) /\ Initialized(mine) /\ SameEntries(mine, rhs)
  <2>1. w = [lattice |-> mine, pool |-> p]
    BY <1>3 DEF LatticeJoin
  <2>2. QED
    BY <1>3, <2>1
<1>4. CASE Initialized(rhs) /\ Initialized(mine) /\ ~SameEntries(mine, rhs)
  <2>1. w = JoinStores(mine, rhs, p, orders)
    BY <1>4 DEF LatticeJoin
  <2>2. QED
    BY <1>4, <2>1
<1>5. QED
  BY <1>1, <1>2, <1>3, <1>4

LEMMA LatticeJoinStays ==
  ASSUME NEW ms \in SUBSET Keys, NEW p, IsPool(p), NEW mine, TypedLattice(mine, p.next, ms),
         NEW rhs, TypedLattice(rhs, p.next, ms), NEW orders, Initialized(mine) => orders \in JoinOrders(mine, rhs),
         NEW w, w = LatticeJoin(mine, rhs, p, orders)
  PROVE  Later(p, w.pool) /\ TypedLattice(w.lattice, w.pool.next, ms)
<1>1. p.next \in Nat /\ Later(p, p)
  BY LaterLaws DEF IsPool
<1>2. CASE /\ ~Initialized(rhs) /\ w.pool = p
           /\ w.lattice = [entries |-> Bottom.entries, initialized |-> mine.initialized]
  <2>1. TypedLattice(Bottom, p.next, ms) /\ \A name \in Names : Bottom.entries[name] = <<>>
    BY <1>1, BottomIsTyped
  <2>2. DOMAIN <<>> = {}
    OBVIOUS
  <2>3. w.lattice.entries = Bottom.entries /\ w.lattice.initialized = mine.initialized
    BY <1>2
  <2>4. TypedLattice(w.lattice, p.next, ms)
    BY <1>2, <2>1, <2>2, <2>3 DEF TypedLattice
  <2>5. QED
    BY <1>1, <1>2, <2>4
<1>3. CASE w.pool = p /\ w.lattice \in {mine, rhs}
  BY <1>1, <1>3
<1>4. CASE Initialized(mine) /\ w = JoinStores(mine, rhs, p, orders)
  BY <1>4, JoinStoresStays
<1>5. QED
  BY <1>2, <1>3, <1>4, LatticeJoinCases


\* What a join that went wrong in neither way keeps: the entries both sides have, each as it was if
\* both sides are equal, or as what was found for the pair.
KeepsFound(mine, rhs, w) ==
  \A name \in Names :
    /\ DOMAIN w.lattice.entries[name] = DOMAIN mine.entries[name] \cap DOMAIN rhs.entries[name]
    /\ \A k \in DOMAIN w.lattice.entries[name] :
         \/ /\ Equal(mine.entries[name][k], rhs.entries[name][k])
            /\ w.lattice.entries[name][k] = mine.entries[name][k]
         \/ LET d == <<mine.entries[name][k], rhs.entries[name][k]>>
            IN d \in DOMAIN w.pool.memo /\ w.lattice.entries[name][k] = w.pool.memo[d]

KnownApart(l) == \A name \in Names : OneKnown(l.entries[name])

LEMMA LatticeJoinKeepsFound ==
  ASSUME NEW ms \in SUBSET Keys, NEW p, IsPool(p), p.memo = <<>>, NEW mine, TypedLattice(mine, p.next, ms),
         NEW rhs, TypedLattice(rhs, p.next, ms), KnownApart(rhs),
         NEW orders, Initialized(mine) => orders \in JoinOrders(mine, rhs),
         NEW w, w = LatticeJoin(mine, rhs, p, orders), ~OneSided(mine, rhs), w.pool.misjoins = {}
  PROVE  Generalizes(p.next, w.pool) /\ KeepsFound(mine, rhs, w)
<1>1. CASE /\ ~Initialized(rhs) /\ w.pool = p
           /\ w.lattice = [entries |-> Bottom.entries, initialized |-> mine.initialized]
  <2>1. \A name \in Names : Bottom.entries[name] = <<>>
    BY BottomIsTyped DEF IsPool
  <2>2. DOMAIN <<>> = {} /\ w.lattice.entries = Bottom.entries
    BY <1>1
  <2>3. \A name \in Names : DOMAIN rhs.entries[name] = {}
    BY <1>1 DEF TypedLattice, Initialized
  <2>4. KeepsFound(mine, rhs, w)
    BY <2>1, <2>2, <2>3 DEF KeepsFound
  <2>5. QED
    BY <1>1, <2>4, EmptyIsFaithful
<1>2. CASE SameEntries(mine, rhs) /\ w.pool = p /\ w.lattice = mine
  <2>1. KeepsFound(mine, rhs, w)
    BY <1>2 DEF KeepsFound, SameEntries
  <2>2. QED
    BY <1>2, <2>1, EmptyIsFaithful
<1>3. CASE Initialized(rhs) /\ Initialized(mine) /\ w = JoinStores(mine, rhs, p, orders)
  <2> DEFINE j == JoinOf(mine, rhs, p, orders)
             es == w.lattice.entries
  <2>1. IsJoinOf(mine, rhs, j, w)
    BY <1>3, JoinStoresEntries
  <2>2. /\ w.pool = j.pool
        /\ \A name \in Merged(mine, rhs) : es[name] = [k \in KeptAt(mine, rhs, name) |-> j.syms[<<name, k>>]]
        /\ \A name \in Names \ Merged(mine, rhs) : es[name] = mine.entries[name]
    BY <2>1 DEF IsJoinOf
  <2>3. j = JoinOf(mine, rhs, p, orders) /\ j.pool.misjoins = {}
    BY <2>2
  <2> HIDE DEF j
  <2>4. JoinFaithful(p.next, p, mine.entries, rhs.entries, j, Places(mine, rhs))
    BY <1>3, <2>3, JoinStoresIsFaithful DEF KnownApart
  <2>5. ASSUME NEW name \in Names
        PROVE  /\ DOMAIN es[name] = DOMAIN mine.entries[name] \cap DOMAIN rhs.entries[name]
               /\ \A k \in DOMAIN es[name] :
                    LET d == <<mine.entries[name][k], rhs.entries[name][k]>>
                    IN d \in DOMAIN w.pool.memo /\ es[name][k] = w.pool.memo[d]
    <3>1. CASE name \in Merged(mine, rhs)
      <4>1. es[name] = [k \in KeptAt(mine, rhs, name) |-> j.syms[<<name, k>>]]
        BY <2>2, <3>1
      <4>2. KeptAt(mine, rhs, name) = DOMAIN mine.entries[name] \cap DOMAIN rhs.entries[name]
        BY DEF KeptAt, Kept
      <4>3. ASSUME NEW k \in KeptAt(mine, rhs, name)
            PROVE  LET d == <<mine.entries[name][k], rhs.entries[name][k]>>
                   IN d \in DOMAIN w.pool.memo /\ j.syms[<<name, k>>] = w.pool.memo[d]
        <5>1. <<name, k>> \in Places(mine, rhs) /\ <<name, k>>[1] = name /\ <<name, k>>[2] = k
          BY <3>1 DEF Places
        <5>2. QED
          BY <2>2, <2>4, <5>1 DEF JoinFaithful
      <4> HIDE DEF es
      <4>4. QED
        BY <4>1, <4>2, <4>3
    <3>2. CASE name \notin Merged(mine, rhs)
      <4>1. DOMAIN mine.entries[name] = {}
        BY <1>3, <3>2 DEF OneSided, Merged, TypedLattice
      <4>2. QED
        BY <2>2, <3>2, <4>1
    <3>3. QED
      BY <3>1, <3>2
  <2>6. KeepsFound(mine, rhs, w)
    BY <2>5 DEF KeepsFound
  <2>7. QED
    BY <2>2, <2>4, <2>6 DEF JoinFaithful
<1>4. ~(Initialized(rhs) /\ ~Initialized(mine))
  BY DEF OneSided
<1>5. QED
  BY <1>1, <1>2, <1>3, <1>4, LatticeJoinCases

\* Such a join still knows at most one of two entries that may be the same element.
LEMMA JoinKeepsKnownApart ==
  ASSUME NEW n, NEW mine, NEW rhs, NEW w, Generalizes(n, w.pool), KeepsFound(mine, rhs, w), KnownApart(rhs)
  PROVE  KnownApart(w.lattice)
<1>1. ASSUME NEW name \in Names, NEW k \in DOMAIN w.lattice.entries[name], IsUnknown(rhs.entries[name][k])
      PROVE  IsUnknown(w.lattice.entries[name][k])
  <2> DEFINE m == mine.entries[name][k]
             r == rhs.entries[name][k]
             s == w.lattice.entries[name][k]
  <2>1. \/ Equal(m, r) /\ s = m
        \/ <<m, r>> \in DOMAIN w.pool.memo /\ s = w.pool.memo[<<m, r>>]
    BY DEF KeepsFound
  <2>2. CASE Equal(m, r) /\ s = m
    <3> HIDE DEF m, s
    <3>1. QED
      BY <1>1, <2>2, EqualLaws DEF s
  <2>3. CASE <<m, r>> \in DOMAIN w.pool.memo /\ s = w.pool.memo[<<m, r>>]
    <3>1. <<m, r>>[1] = m /\ <<m, r>>[2] = r
      OBVIOUS
    <3>2. Equal(m, r) /\ w.pool.memo[<<m, r>>] = m
      BY <1>1, <2>3, <3>1 DEF Generalizes
    <3>3. QED
      BY <1>1, <2>3, <3>2, EqualLaws
  <2>4. QED
    BY <2>1, <2>2, <2>3
<1>2. SUFFICES ASSUME NEW name \in Names, NEW j \in DOMAIN w.lattice.entries[name],
                      NEW k \in DOMAIN w.lattice.entries[name], j # k, CanEqual(j, k)
               PROVE  IsUnknown(w.lattice.entries[name][j]) \/ IsUnknown(w.lattice.entries[name][k])
  BY DEF KnownApart, OneKnown
<1>3. j \in DOMAIN rhs.entries[name] /\ k \in DOMAIN rhs.entries[name]
  BY DEF KeepsFound
<1>4. IsUnknown(rhs.entries[name][j]) \/ IsUnknown(rhs.entries[name][k])
  BY <1>2, <1>3 DEF KnownApart, OneKnown
<1>5. QED
  BY <1>1, <1>4

-----------------------------------------------------------------------------
(***************************************************************************)
(* Which runs a lattice describes.                                         *)
(***************************************************************************)

\* Every entry is what the run's memory holds, the unknowns having the values u.
Sound(l, mem, at, p, u) == \A name \in Names : Describe(l.entries[name], mem[name], at, p, u)

\* The side of a join that the run has taken.
Side(side, mine, rhs) == IF side = 1 THEN mine ELSE rhs

LEMMA JoinIsSound ==
  ASSUME NEW n \in Nat, NEW ms, NEW mine, TypedLattice(mine, n, ms), NEW rhs, NEW w, KeepsFound(mine, rhs, w),
         NEW q, Later(w.pool, q), NEW side \in {1, 2}, NEW mem, NEW at, NEW p, NEW u, NEW u2,
         Agree(n, u, u2), SideDenotes(side, q, p, u, u2), Sound(Side(side, mine, rhs), mem, at, p, u)
  PROVE  Sound(w.lattice, mem, at, p, u2)
<1> SUFFICES ASSUME NEW name \in Names, NEW k \in DOMAIN w.lattice.entries[name]
             PROVE  mem[name][at[k]] = Denotes(w.lattice.entries[name][k], p, u2)
  BY DEF Sound, Describe
<1> DEFINE m == mine.entries[name][k]
           r == rhs.entries[name][k]
           s == w.lattice.entries[name][k]
<1>1. k \in DOMAIN mine.entries[name] /\ k \in DOMAIN rhs.entries[name]
  BY DEF KeepsFound
<1>2. \/ Equal(m, r) /\ s = m
      \/ <<m, r>> \in DOMAIN w.pool.memo /\ s = w.pool.memo[<<m, r>>]
  BY DEF KeepsFound
<1>3. mem[name][at[k]] = Denotes(IF side = 1 THEN m ELSE r, p, u)
  <2>1. CASE side = 1
    BY <1>1, <2>1 DEF Sound, Describe, Side
  <2>2. CASE side # 1
    BY <1>1, <2>2 DEF Sound, Describe, Side
  <2>3. QED
    BY <2>1, <2>2
<1>4. m \in Symbols(n)
  BY <1>1 DEF TypedLattice, IsStore
<1>5. <<m, r>>[side] = IF side = 1 THEN m ELSE r
  OBVIOUS
<1> HIDE DEF m, r, s
<1>6. CASE Equal(m, r) /\ s = m
  <2>1. Denotes(m, p, u) = Denotes(r, p, u)
    BY <1>6, EqualDenote
  <2>2. Denotes(m, p, u) = Denotes(m, p, u2)
    BY <1>4, AgreeDenote
  <2>3. QED
    BY <1>3, <1>6, <2>1, <2>2 DEF s
<1>7. CASE <<m, r>> \in DOMAIN w.pool.memo /\ s = w.pool.memo[<<m, r>>]
  <2>1. <<m, r>> \in DOMAIN q.memo /\ s = q.memo[<<m, r>>]
    BY <1>7 DEF Later
  <2>2. Denotes(s, p, u2) = Denotes(<<m, r>>[side], p, u)
    BY <2>1 DEF SideDenotes
  <2>3. QED
    BY <1>3, <1>5, <2>2 DEF s
<1>8. QED
  BY <1>2, <1>6, <1>7


-----------------------------------------------------------------------------
(***************************************************************************)
(* Every operation keeps the types.                                        *)
(***************************************************************************)
LEMMA MemberLocationsAreKeys ==
  MemberLocations \in SUBSET Keys /\ \A name : Locations(name, MemberLocations) \subseteq Keys
BY DEF Locations, Keys, MemberLocations

LEMMA KeysHaveValues ==
  ASSUME Typed, NEW k \in Keys
  PROVE  ValueOf(k) \in Values
BY KeysDenoteValues DEF Typed, ValueOf

LEMMA StoreIsTyped ==
  ASSUME Typed, NEW name \in Names, NEW key \in Keys, NEW value \in Values, Store(name, key, value)
  PROVE  memory' \in [Names -> [Values -> Values \cup {Free}]]
BY KeysHaveValues DEF Typed, Store

LEMMA OperandsAreTyped ==
  ASSUME Typed, NEW operand \in Operands
  PROVE  operand.symbol \in Symbols(pool.next) /\ operand.value \in Values
<1>1. CASE operand = result
  BY <1>1 DEF Typed
<1>2. ASSUME NEW c \in ConstantsOf("compute") \cup {Induction}, operand = [symbol |-> c, value |-> ValueOf(c)]
      PROVE  operand.symbol \in Symbols(pool.next) /\ operand.value \in Values
  <2>1. operand.symbol = c /\ operand.value = ValueOf(c)
    BY <1>2
  <2>2. pool.next \in Nat /\ 0 \in 0 .. pool.next - 1
    BY DEF Typed
  <2>3. c \in Symbols(pool.next)
    BY <2>2 DEF ConstantsOf, Symbols, Induction
  <2>4. ValueOf(c) \in Values
    BY DEF ConstantsOf, ValueOf, Denotes, Constant, Induction, Unknown, Typed
  <2>5. QED
    BY <2>1, <2>3, <2>4
<1>3. QED
  BY <1>1, <1>2 DEF Operands

LEMMA ConstrainedAreTyped ==
  ASSUME Typed, NEW s \in ConstantsOf("constrain") \cup {Induction}
  PROVE  s \in Symbols(pool.next) /\ ValueOf(s) \in Values
<1>1. pool.next \in Nat /\ 0 \in 0 .. pool.next - 1
  BY DEF Typed
<1>2. QED
  BY <1>1 DEF ConstantsOf, Symbols, Induction, ValueOf, Denotes, Constant, Unknown, Typed

\* What an operation that is not part of an if leaves alone keeps its type, and the pool only grows.
LEMMA OthersStayTyped ==
  ASSUME Typed, UNCHANGED <<scalar, params, induction, block, taken, before, joined, misjoins, ifs>>, Counted,
         memory' \in [Names -> [Values -> Values \cup {Free}]],
         result' = [value |-> result'.value, symbol |-> result'.symbol],
         result'.value \in Values, result'.symbol \in Symbols(pool'.next),
         TypedLattice(lattice', pool'.next, MemberLocations),
         pool' = [next |-> pool'.next, memo |-> <<>>, misjoins |-> {}], pool'.next \in Nat, pool.next <= pool'.next
  PROVE  Typed'
<1>1. pool.next \in Nat \ {0} /\ pool'.next \in Nat \ {0}
  BY DEF Typed
<1>2. /\ TypedLattice(before.lattice, pool'.next, MemberLocations)
      /\ TypedLattice(joined.lattice, pool'.next, MemberLocations)
  BY <1>1, LatticesGrow DEF Typed
<1>3. before.symbol \in Symbols(pool'.next) /\ joined.symbol \in Symbols(pool'.next)
  BY <1>1, SymbolsGrow DEF Typed
<1>4. MemberLocations' = MemberLocations
  BY DEF MemberLocations
<1>5. ops' \in 0 .. MaxOps
  BY DEF Counted, Typed
<1>6. QED
  BY <1>1, <1>2, <1>3, <1>4, <1>5 DEF Typed

\* A write of a symbol to a name, and of its value to the memory.
WritesTo(name, key, sym, value) ==
  /\ Counted /\ Store(name, key, value)
  /\ lattice' = Write(lattice, pool, name, key, sym).lattice
  /\ pool' = Write(lattice, pool, name, key, sym).pool
  /\ UNCHANGED <<scalar, params, induction, result, block, taken, before, joined, misjoins, ifs>>

LEMMA WritesToStayTyped ==
  ASSUME Typed, NEW name \in Names, NEW key \in Locations(name, MemberLocations), NEW sym \in Symbols(pool.next),
         NEW value \in Values, WritesTo(name, key, sym, value)
  PROVE  Typed'
<1> DEFINE w == Write(lattice, pool, name, key, sym)
<1>1. IsPool(pool) /\ TypedLattice(lattice, pool.next, MemberLocations)
  BY PoolIsPool DEF Typed
<1>2. w = Write(lattice, pool, name, key, sym)
  OBVIOUS
<1>3. lattice' = w.lattice /\ pool' = w.pool
  BY DEF WritesTo
<1> HIDE DEF w
<1>4. Wrote(MemberLocations, lattice, pool, name, key, sym, w)
  BY <1>1, <1>2, WriteStays
<1>5. pool.memo = <<>> /\ pool.misjoins = {}
  BY DEF Typed
<1>6. /\ TypedLattice(lattice', pool'.next, MemberLocations)
      /\ pool' = [next |-> pool'.next, memo |-> <<>>, misjoins |-> {}] /\ pool'.next \in Nat /\ pool.next <= pool'.next
  BY <1>3, <1>4, <1>5 DEF Wrote, IsPool
<1>7. memory' \in [Names -> [Values -> Values \cup {Free}]]
  BY StoreIsTyped, MemberLocationsAreKeys DEF WritesTo
<1>8. result' = result /\ result.symbol \in Symbols(pool'.next)
  BY <1>6, SymbolsGrow DEF WritesTo, Typed
<1>9. /\ UNCHANGED <<scalar, params, induction, block, taken, before, joined, misjoins, ifs>> /\ Counted
      /\ result' = [value |-> result'.value, symbol |-> result'.symbol]
      /\ result'.value \in Values /\ result'.symbol \in Symbols(pool'.next)
  BY <1>8 DEF WritesTo, Typed
<1>10. QED
  BY <1>6, <1>7, <1>9, OthersStayTyped

LEMMA WritesAreWrites ==
  /\ \A a \in Arrays, key \in IndexSymbols, operand \in Operands :
       WriteArray(a, key, operand) => WritesTo(a, key, operand.symbol, operand.value)
  /\ \A operand \in Operands :
       ScalarMemberWrite(operand) => scalar /\ WritesTo(Witness, Whole, operand.symbol, operand.value)
  /\ \A key \in MemberLocations, s \in ConstantsOf("constrain") \cup {Induction} :
       EmitEquality(key, s) => WritesTo(Constraint, key, s, ValueOf(s))
BY DEF WritesTo, WriteArray, ScalarMemberWrite, EmitEquality


\* What a read of an element does to a lattice: an entry for it, which is new only if there was none.
ReadEffect(a, key) ==
  LET symbol == result'.symbol
  IN /\ lattice' = [entries |-> lattice'.entries, initialized |-> lattice.initialized \cup {Element, "valueStore"}]
     /\ lattice'.entries = [name \in Names |-> lattice'.entries[name]]
     /\ lattice'.entries[a] = [k \in DOMAIN lattice.entries[a] \cup {key} |-> IF k = key THEN symbol ELSE lattice.entries[a][k]]
     /\ \A name \in Names \ {a} : lattice'.entries[name] = lattice.entries[name]
     /\ \/ key \in DOMAIN lattice.entries[a] /\ symbol = lattice.entries[a][key] /\ pool' = pool
        \/ /\ key \notin DOMAIN lattice.entries[a] /\ symbol = Unknown(pool.next)
           /\ pool' = [next |-> pool.next + 1, memo |-> <<>>, misjoins |-> {}]

LEMMA ReadArrayReads ==
  ASSUME Typed, NEW a \in Arrays, NEW key \in IndexSymbols, ReadArray(a, key)
  PROVE  /\ ReadEffect(a, key)
         /\ result' = [value |-> result'.value, symbol |-> result'.symbol]
         /\ result'.value \in IF Executed THEN Contents(a, key) ELSE {result.value}
         /\ Store(a, key, result'.value)
<1> DEFINE entries == lattice.entries[a]
           known == Initialized(lattice) /\ key \in DOMAIN entries
           symbol == IF known THEN entries[key] ELSE Unknown(pool.next)
           row == [k \in DOMAIN entries \cup {key} |-> IF k = key THEN symbol ELSE entries[k]]
           es == [lattice.entries EXCEPT ![a] = row]
<1>1. PICK value \in IF Executed THEN Contents(a, key) ELSE {result.value} :
        result' = [symbol |-> symbol, value |-> value] /\ Store(a, key, value)
  BY DEF ReadArray
<1>2. /\ pool' = IF known THEN pool ELSE [pool EXCEPT !.next = @ + 1]
      /\ lattice' = [entries |-> es, initialized |-> lattice.initialized \cup {Element, "valueStore"}]
  BY DEF ReadArray
<1>3. known <=> key \in DOMAIN entries
  BY NamesAreFinite DEF Typed, TypedLattice, Initialized
<1>4. a \in Names /\ lattice.entries = [name \in Names |-> lattice.entries[name]]
      /\ pool = [next |-> pool.next, memo |-> <<>>, misjoins |-> {}]
  BY NamesAreFinite DEF Typed, TypedLattice
<1>5. result'.value = value /\ result'.symbol = symbol /\ result' = [value |-> result'.value, symbol |-> result'.symbol]
  BY <1>1
<1> HIDE DEF row
<1>6. es = [name \in Names |-> IF name = a THEN row ELSE lattice.entries[name]]
  BY <1>4
<1>7. es[a] = row /\ (\A name \in Names \ {a} : es[name] = lattice.entries[name]) /\ es = [name \in Names |-> es[name]]
  BY <1>4, <1>6
<1> HIDE DEF es
<1>8. lattice'.entries = es
  BY <1>2
<1>9. \/ key \in DOMAIN entries /\ symbol = entries[key] /\ pool' = pool
      \/ /\ key \notin DOMAIN entries /\ symbol = Unknown(pool.next)
         /\ pool' = [next |-> pool.next + 1, memo |-> <<>>, misjoins |-> {}]
  <2> HIDE DEF entries
  <2>1. CASE key \in DOMAIN entries
    BY <1>2, <1>3, <2>1
  <2>2. CASE key \notin DOMAIN entries
    <3>1. pool' = [pool EXCEPT !.next = @ + 1] /\ symbol = Unknown(pool.next)
      BY <1>2, <1>3, <2>2
    <3>2. [pool EXCEPT !.next = @ + 1] = [next |-> pool.next + 1, memo |-> <<>>, misjoins |-> {}]
      <4> DEFINE n == pool.next
                 m == <<>>
                 c == {}
                 e == [next |-> n, memo |-> m, misjoins |-> c]
      <4>1. pool = e
        BY <1>4
      <4> HIDE DEF n, m, c
      <4>2. [e EXCEPT !.next = @ + 1] = [next |-> n + 1, memo |-> m, misjoins |-> c]
        OBVIOUS
      <4> HIDE DEF e
      <4>3. QED
        BY <4>1, <4>2 DEF n, m, c
    <3>3. QED
      BY <2>2, <3>1, <3>2
  <2>3. QED
    BY <2>1, <2>2
<1> HIDE DEF symbol, known
<1>10. ReadEffect(a, key)
  BY <1>2, <1>5, <1>7, <1>8, <1>9 DEF ReadEffect, row
<1>11. QED
  BY <1>1, <1>5, <1>10

LEMMA ReadArrayStaysTyped ==
  ASSUME Typed, NEW a \in Arrays, NEW key \in IndexSymbols, ReadArray(a, key)
  PROVE  Typed'
<1> DEFINE es == lattice'.entries
           symbol == result'.symbol
           n == pool'.next
<1>0. a \in Names /\ key \in Keys
  BY NamesAreFinite DEF Keys
<1>1. ReadEffect(a, key)
  BY ReadArrayReads
<1>2. /\ result' = [value |-> result'.value, symbol |-> symbol]
      /\ result'.value \in IF Executed THEN Contents(a, key) ELSE {result.value}
      /\ Store(a, key, result'.value)
  BY ReadArrayReads
<1>3. result'.value \in Values
  <2>1. memory[a][ValueOf(key)] \in Values \cup {Free}
    BY <1>0, KeysHaveValues DEF Typed
  <2>2. QED
    BY <1>2, <2>1 DEF Contents, Typed
<1>4. memory' \in [Names -> [Values -> Values \cup {Free}]]
  BY <1>0, <1>2, <1>3, StoreIsTyped
<1>5. /\ pool' = [next |-> n, memo |-> <<>>, misjoins |-> {}]
      /\ pool.next \in Nat /\ n \in Nat /\ pool.next <= n
  BY <1>1 DEF ReadEffect, Typed
<1>6. TypedLattice(lattice, n, MemberLocations)
  BY <1>5, LatticesGrow DEF Typed
<1>7. symbol \in Symbols(n)
  <2>1. CASE key \in DOMAIN lattice.entries[a] /\ symbol = lattice.entries[a][key]
    BY <1>0, <1>6, <2>1 DEF TypedLattice, IsStore
  <2>2. CASE symbol = Unknown(pool.next) /\ n = pool.next + 1
    <3>1. pool.next \in 0 .. n - 1
      BY <1>5, <2>2
    <3>2. QED
      BY <1>5, <2>2, <3>1, UnknownsAreSymbols
  <2>3. QED
    BY <1>1, <2>1, <2>2 DEF ReadEffect
<1>8. /\ lattice' = [entries |-> es, initialized |-> lattice'.initialized]
      /\ lattice'.initialized = lattice.initialized \cup {Element, "valueStore"}
      /\ es = [name \in Names |-> es[name]]
      /\ es[a] = [k \in DOMAIN lattice.entries[a] \cup {key} |-> IF k = key THEN symbol ELSE lattice.entries[a][k]]
      /\ \A name \in Names \ {a} : es[name] = lattice.entries[name]
  BY <1>1 DEF ReadEffect
<1>9. /\ DOMAIN es[a] \subseteq Locations(a, MemberLocations) /\ IsStore(es[a], n) /\ StoreOf(a) = "valueStore"
  <2>1. IsStore(lattice.entries[a], n) /\ DOMAIN lattice.entries[a] \subseteq Locations(a, MemberLocations)
    BY <1>0, <1>6 DEF TypedLattice
  <2>2. IsFiniteSet(DOMAIN lattice.entries[a] \cup {key})
    BY <2>1, FS_AddElement DEF IsStore
  <2> HIDE DEF es, symbol, n
  <2>3. IsStore(es[a], n)
    BY <1>7, <1>8, <2>1, <2>2 DEF IsStore
  <2>4. DOMAIN es[a] = DOMAIN lattice.entries[a] \cup {key}
    BY <1>8
  <2>5. QED
    BY <2>1, <2>3, <2>4 DEF Locations, StoreOf
<1>10. \A name \in Names : /\ DOMAIN es[name] \subseteq Locations(name, MemberLocations)
                           /\ IsStore(es[name], n)
                           /\ DOMAIN es[name] # {} => StoreOf(name) \in lattice'.initialized
  <2>1. TAKE name \in Names
  <2>2. CASE name = a
    BY <1>8, <1>9, <2>2
  <2>3. CASE name # a
    BY <1>6, <1>8, <2>3 DEF TypedLattice
  <2>4. QED
    BY <2>2, <2>3
<1>11. lattice'.initialized \subseteq Flags /\ Element \in lattice'.initialized
  BY <1>6, <1>8 DEF TypedLattice, Flags, Stores
<1> HIDE DEF es
<1>12. TypedLattice(lattice', n, MemberLocations)
  BY <1>8, <1>10, <1>11 DEF TypedLattice, es
<1>13. UNCHANGED <<scalar, params, induction, block, taken, before, joined, misjoins, ifs>> /\ Counted
  BY DEF ReadArray
<1>14. QED
  BY <1>2, <1>3, <1>4, <1>5, <1>7, <1>12, <1>13, OthersStayTyped


\* What a write of a whole array to the member does to the lattice.
ArrayEffect(a) ==
  /\ WroteSome(MemberLocations, lattice, pool, Witness, lattice.entries[a], DOMAIN lattice.entries[a],
               [lattice |-> lattice', pool |-> pool'])
  /\ memory' = IF Executed THEN [memory EXCEPT ![Witness] = memory[a]] ELSE memory

LEMMA ArrayMemberWrites ==
  ASSUME Typed, NEW a \in Arrays, NEW order \in OrdersOf(lattice, a), ArrayMemberWrite(a, order)
  PROVE  ArrayEffect(a)
<1> DEFINE entries == lattice.entries[a]
           w == WriteEntries(lattice, pool, Witness, entries, order)
<1>1. lattice' = w.lattice /\ pool' = w.pool /\ memory' = IF Executed THEN [memory EXCEPT ![Witness] = memory[a]] ELSE memory
  BY DEF ArrayMemberWrite
<1>2. a \in Names /\ Witness \in Names /\ IsPool(pool) /\ TypedLattice(lattice, pool.next, MemberLocations)
  BY NamesAreFinite, PoolIsPool DEF Typed
<1>3. IsStore(entries, pool.next) /\ DOMAIN entries \subseteq IndexSymbols
  BY <1>2 DEF TypedLattice, Locations
<1>4. order \in SetToSeqs(DOMAIN entries) /\ IsFiniteSet(DOMAIN entries)
  BY <1>3 DEF OrdersOf, IsStore
<1>5. Len(order) \in Nat /\ Met(order, Len(order)) = DOMAIN entries /\ \A i \in 1 .. Len(order) : order[i] \in DOMAIN entries
  BY <1>4, EveryOrderMeetsAll
<1>6. Locations(Witness, MemberLocations) = IndexSymbols
  BY NamesAreFinite DEF Locations, MemberLocations, ArrayMemberWrite
<1>7. \A i \in 1 .. Len(order) : order[i] \in Locations(Witness, MemberLocations) /\ entries[order[i]] \in Symbols(pool.next)
  BY <1>3, <1>5, <1>6 DEF IsStore
<1>8. w = WriteEntries(lattice, pool, Witness, entries, order)
  OBVIOUS
<1> HIDE DEF w, entries
<1>9. WroteSome(MemberLocations, lattice, pool, Witness, entries, Met(order, Len(order)), w)
  BY <1>2, <1>5, <1>7, <1>8, WriteEntriesWrites
<1>10. WroteSome(MemberLocations, lattice, pool, Witness, entries, DOMAIN entries, [lattice |-> lattice', pool |-> pool'])
  BY <1>1, <1>5, <1>9 DEF WroteSome
<1>11. QED
  BY <1>1, <1>10 DEF ArrayEffect, entries

LEMMA ArrayMemberWriteStaysTyped ==
  ASSUME Typed, NEW a \in Arrays, NEW order \in OrdersOf(lattice, a), ArrayMemberWrite(a, order)
  PROVE  Typed'
<1>1. /\ TypedLattice(lattice', pool'.next, MemberLocations) /\ IsPool(pool') /\ pool.next <= pool'.next
      /\ pool' = [next |-> pool'.next, memo |-> pool.memo, misjoins |-> pool.misjoins]
  BY ArrayMemberWrites DEF ArrayEffect, WroteSome
<1>2. pool.memo = <<>> /\ pool.misjoins = {} /\ pool.next \in Nat /\ pool'.next \in Nat
  BY <1>1 DEF Typed, IsPool
<1>3. memory' \in [Names -> [Values -> Values \cup {Free}]]
  BY ArrayMemberWrites, NamesAreFinite DEF ArrayEffect, Typed
<1>4. result' = result /\ result.symbol \in Symbols(pool'.next)
  BY <1>1, <1>2, SymbolsGrow DEF ArrayMemberWrite, Typed
<1>5. /\ UNCHANGED <<scalar, params, induction, block, taken, before, joined, misjoins, ifs>> /\ Counted
      /\ result' = [value |-> result'.value, symbol |-> result'.symbol]
      /\ result'.value \in Values /\ result'.symbol \in Symbols(pool'.next)
  BY <1>4 DEF ArrayMemberWrite, Typed
<1>6. QED
  BY <1>1, <1>2, <1>3, <1>5, OthersStayTyped

LEMMA NotInIfIsTyped ==
  ASSUME NEW n \in Nat
  PROVE  /\ NotInIf = [lattice |-> NotInIf.lattice, symbol |-> NotInIf.symbol]
         /\ NotInIf.lattice = Bottom /\ NotInIf.symbol \in Symbols(n)
         /\ TypedLattice(Bottom, n, MemberLocations)
BY BottomIsTyped, ValuesAssumption DEF NotInIf, Symbols

LEMMA BeginIfStaysTyped ==
  ASSUME Typed, BeginIf
  PROVE  Typed'
<1>1. MemberLocations' = MemberLocations
  BY DEF MemberLocations, BeginIf, run
<1>2. ifs' \in 0 .. MaxIfs
  BY DEF BeginIf, Typed
<1>3. QED
  BY <1>1, <1>2 DEF Typed, BeginIf, run

LEMMA ThenYieldsStaysTyped ==
  ASSUME Typed, ThenYields
  PROVE  Typed'
<1> DEFINE w == LatticeJoin(Bottom, lattice, pool, <<>>)
<1>1. MemberLocations' = MemberLocations
  BY DEF MemberLocations, ThenYields, run
<1>2. TypedLattice(Bottom, pool.next, MemberLocations) /\ ~Initialized(Bottom)
  BY BottomIsTyped DEF Typed, Bottom, Initialized
<1>3. w.lattice = lattice \/ w.lattice = [entries |-> Bottom.entries, initialized |-> Bottom.initialized]
  BY <1>2, LatticeJoinCases
<1>4. Bottom = [entries |-> Bottom.entries, initialized |-> Bottom.initialized]
  BY <1>2 DEF TypedLattice
<1>5. TypedLattice(w.lattice, pool.next, MemberLocations)
  BY <1>2, <1>3, <1>4 DEF Typed
<1> HIDE DEF w
<1>6. joined' = [lattice |-> w.lattice, symbol |-> result.symbol]
  BY DEF ThenYields, w
<1>7. joined' = [lattice |-> joined'.lattice, symbol |-> joined'.symbol]
      /\ joined'.lattice = w.lattice /\ joined'.symbol = result.symbol
  BY <1>6
<1>8. result' = [value |-> result.value, symbol |-> before.symbol]
  <2>1. result = [value |-> result.value, symbol |-> result.symbol] /\ result' = [result EXCEPT !.symbol = before.symbol]
    BY DEF ThenYields, Typed
  <2>2. QED
    BY <2>1
<1>9. result' = [value |-> result'.value, symbol |-> result'.symbol]
      /\ result'.value = result.value /\ result'.symbol = before.symbol
  BY <1>8
<1>10. QED
  BY <1>1, <1>5, <1>7, <1>9 DEF Typed, ThenYields, run

\* The join of the second yield: lattices, then results, in a pool that starts with nothing looked up.
LEMMA ElseYieldsStaysTyped ==
  ASSUME Typed, NEW orders \in JoinOrders(joined.lattice, lattice), ElseYields(orders)
  PROVE  Typed'
<1> DEFINE j == LatticeJoin(joined.lattice, lattice, pool, orders)
           r == AntiUnify(j.pool, joined.symbol, result.symbol)
<1>1. /\ IsPool(pool) /\ MemberLocations \in SUBSET Keys
      /\ TypedLattice(joined.lattice, pool.next, MemberLocations) /\ TypedLattice(lattice, pool.next, MemberLocations)
  BY PoolIsPool, MemberLocationsAreKeys DEF Typed
<1>2. Later(pool, j.pool) /\ TypedLattice(j.lattice, j.pool.next, MemberLocations)
  BY <1>1, LatticeJoinStays
<1>3. pool.next \in Nat \ {0} /\ j.pool.next \in Nat /\ pool.next <= j.pool.next /\ IsPool(j.pool)
  BY <1>2 DEF Typed, Later, IsPool
<1>4. joined.symbol \in Symbols(j.pool.next) /\ result.symbol \in Symbols(j.pool.next)
  BY <1>3, SymbolsGrow DEF Typed
<1>5. r = AntiUnify(j.pool, joined.symbol, result.symbol)
  OBVIOUS
<1>6. /\ lattice' = j.lattice
      /\ result' = [result EXCEPT !.symbol = r.sym]
      /\ pool' = [next |-> r.pool.next, memo |-> <<>>, misjoins |-> {}]
      /\ misjoins' = misjoins \cup r.pool.misjoins
           \cup (IF OneSided(joined.lattice, lattice) THEN {"uninitialized"} ELSE {})
           \cup (IF Erases(joined.lattice, lattice, j.lattice) THEN {"erased"} ELSE {})
  BY DEF ElseYields
<1> HIDE DEF j, r
<1>7. Later(j.pool, r.pool) /\ r.sym \in Symbols(r.pool.next)
  BY <1>3, <1>4, <1>5, AntiUnifyLearns
<1>8. r.pool.next \in Nat \ {0} /\ pool.next <= r.pool.next /\ j.pool.next <= r.pool.next /\ r.pool.misjoins \subseteq {"unknown"}
  BY <1>3, <1>7 DEF Later, IsPool
<1>9. TypedLattice(lattice', r.pool.next, MemberLocations)
  BY <1>2, <1>3, <1>6, <1>8, LatticesGrow
<1>10. result' = [value |-> result.value, symbol |-> r.sym]
  <2>1. result = [value |-> result.value, symbol |-> result.symbol]
    BY DEF Typed
  <2>2. QED
    BY <1>6, <2>1
<1>11. result' = [value |-> result'.value, symbol |-> result'.symbol]
       /\ result'.value = result.value /\ result'.symbol = r.sym
  BY <1>10
<1>12. pool' = [next |-> pool'.next, memo |-> <<>>, misjoins |-> {}] /\ pool'.next = r.pool.next
  BY <1>6
<1>13. misjoins' \subseteq {"unknown", "uninitialized", "erased"}
  BY <1>6, <1>8 DEF Typed
<1>14. MemberLocations' = MemberLocations /\ UNCHANGED <<scalar, params, induction, memory, ops, ifs>>
       /\ block' = "top" /\ taken' = "then" /\ before' = NotInIf /\ joined' = NotInIf
  BY DEF MemberLocations, ElseYields, run
<1>15. /\ NotInIf = [lattice |-> NotInIf.lattice, symbol |-> NotInIf.symbol]
       /\ TypedLattice(NotInIf.lattice, pool'.next, MemberLocations) /\ NotInIf.symbol \in Symbols(pool'.next)
  BY <1>8, <1>12, NotInIfIsTyped
<1>16. QED
  BY <1>7, <1>8, <1>9, <1>11, <1>12, <1>13, <1>14, <1>15 DEF Typed

LEMMA InitIsTyped == Init => Typed
<1>1. SUFFICES ASSUME Init PROVE Typed
  OBVIOUS
<1>2. /\ result = [value |-> 0, symbol |-> Constant(0, "compute")]
      /\ pool = [next |-> 1, memo |-> <<>>, misjoins |-> {}]
      /\ lattice = Bottom /\ before = NotInIf /\ joined = NotInIf
  BY <1>1 DEF Init
<1>3. /\ result = [value |-> result.value, symbol |-> result.symbol] /\ result.value = 0
      /\ result.symbol = Constant(0, "compute")
      /\ pool = [next |-> pool.next, memo |-> <<>>, misjoins |-> {}] /\ pool.next = 1
  BY <1>2
<1>4. /\ NotInIf = [lattice |-> NotInIf.lattice, symbol |-> NotInIf.symbol]
      /\ NotInIf.lattice = Bottom /\ NotInIf.symbol \in Symbols(1)
      /\ TypedLattice(Bottom, 1, MemberLocations)
  BY NotInIfIsTyped
<1>5. Constant(0, "compute") \in Symbols(1)
  BY ValuesAssumption DEF Symbols
<1>6. memory \in [Names -> [Values -> Values \cup {Free}]]
  BY <1>1 DEF Init
<1>7. QED
  BY <1>1, <1>2, <1>3, <1>4, <1>5, <1>6, ValuesAssumption DEF Init, Typed

LEMMA NextStaysTyped ==
  ASSUME Typed, [Next]_vars
  PROVE  Typed'
<1>0. Witness \in Names /\ Constraint \in Names /\ Arrays \subseteq Names /\ Witness \notin Arrays /\ Constraint \notin Arrays
  BY NamesAreFinite
<1>1. ASSUME NEW a \in Arrays, NEW key \in IndexSymbols, NEW operand \in Operands, WriteArray(a, key, operand)
      PROVE  Typed'
  <2>1. WritesTo(a, key, operand.symbol, operand.value) /\ key \in Locations(a, MemberLocations)
    BY <1>1, WritesAreWrites DEF Locations
  <2>2. QED
    BY <1>0, <2>1, OperandsAreTyped, WritesToStayTyped
<1>2. ASSUME NEW operand \in Operands, ScalarMemberWrite(operand)
      PROVE  Typed'
  <2>1. WritesTo(Witness, Whole, operand.symbol, operand.value) /\ Whole \in Locations(Witness, MemberLocations)
    BY <1>0, <1>2, WritesAreWrites DEF Locations, MemberLocations
  <2>2. QED
    BY <1>0, <2>1, OperandsAreTyped, WritesToStayTyped
<1>3. ASSUME NEW key \in MemberLocations, NEW s \in ConstantsOf("constrain") \cup {Induction}, EmitEquality(key, s)
      PROVE  Typed'
  <2>1. WritesTo(Constraint, key, s, ValueOf(s)) /\ key \in Locations(Constraint, MemberLocations)
    BY <1>0, <1>3, WritesAreWrites DEF Locations
  <2>2. QED
    BY <1>0, <2>1, ConstrainedAreTyped, WritesToStayTyped
<1>4. CASE UNCHANGED vars
  <2>1. MemberLocations' = MemberLocations
    BY <1>4 DEF MemberLocations, vars, run
  <2>2. QED
    BY <1>4, <2>1 DEF Typed, vars, run
<1>5. QED
  BY <1>1, <1>2, <1>3, <1>4, ReadArrayStaysTyped, ArrayMemberWriteStaysTyped, BeginIfStaysTyped,
     ThenYieldsStaysTyped, ElseYieldsStaysTyped DEF Next

\* The store, its pool and the lattices of both branches keep their types: in particular every symbol
\* that is kept was handed out by the pool, and an array with entries has its store marked as written.
THEOREM TypeCorrect == Spec => []TypeOK
<1>1. Typed /\ [Next]_vars => Typed'
  BY NextStaysTyped
<1>2. QED
  BY <1>1, InitIsTyped, TypedImpliesTypeOK, PTL DEF Spec


-----------------------------------------------------------------------------
(***************************************************************************)
(* The store describes the run.  The invariant says of both branches of an *)
(* if what the property says of the operation visited last: the lattice of *)
(* the branch that is executed, wherever it is kept, has values for the    *)
(* unknowns for which every entry is what the memory holds.  Joins need    *)
(* two facts more: of two entries of an array that may be the same element *)
(* one is unknown at most, and the witness of an array member has no       *)
(* location that no array has.  That there is an entry for every element   *)
(* @compute has set is an invariant of its own, which a join breaks that   *)
(* loses one.                                                              *)
(***************************************************************************)

\* The element of an array a key is, in a run.
At(p, i) == [k \in Keys |-> Denotes(k, p, [n \in {0} |-> i])]

Fits(l, sym, mem, value, p, i) ==
  \E u \in [Nat -> Values] : u[0] = i /\ Denotes(sym, p, u) = value /\ Sound(l, mem, At(p, i), p, u)

Covering(l) == \A a \in Arrays : DOMAIN l.entries[Witness] \subseteq DOMAIN l.entries[a]

Describing ==
  /\ KnownApart(lattice) /\ KnownApart(before.lattice) /\ KnownApart(joined.lattice)
  /\ scalar \/ (Covering(lattice) /\ Covering(before.lattice) /\ Covering(joined.lattice))
  /\ Executed => Fits(lattice, result.symbol, memory, result.value, params, induction)
  /\ block = "then" /\ taken = "else" =>
       Fits(before.lattice, before.symbol, memory, result.value, params, induction)
  /\ block = "else" /\ taken = "then" =>
       Fits(joined.lattice, joined.symbol, memory, result.value, params, induction)

\* No two template parameters have the same value; and where the member is an array, the function has
\* one array at most: with two, the copy of one into the member leaves the entries it had from the other.
OneArray == \A a, b \in Arrays : a = b
Distinct == IsInjective(params) /\ (scalar \/ OneArray)

\* Every element that an array of @compute, or the witness, has in the run is one that the lattice has
\* an entry for.
Accounts(l, mem, at) ==
  \A name \in Names \ {Constraint} : \A v \in Values :
    mem[name][v] # Free => \E k \in DOMAIN l.entries[name] : at[k] = v

Accounting ==
  /\ Executed => Accounts(lattice, memory, At(params, induction))
  /\ block = "then" /\ taken = "else" => Accounts(before.lattice, memory, At(params, induction))
  /\ block = "else" /\ taken = "then" => Accounts(joined.lattice, memory, At(params, induction))

IInv ==
  /\ Typed /\ Distinct
  /\ misjoins \subseteq {"erased"} => Describing
  /\ "erased" \notin misjoins => Accounting

LEMMA KeysMayAlias ==
  ASSUME NEW p \in [Params -> Values], IsInjective(p), NEW i \in Values
  PROVE  At(p, i) \in [Keys -> Values] /\ MayAlias(Keys, At(p, i))
<1> DEFINE at == At(p, i)
<1>1. \A k \in Keys : at[k] = Denotes(k, p, [n \in {0} |-> i])
  BY DEF At
<1>2. at \in [Keys -> Values]
  BY KeysDenoteValues DEF At
<1> HIDE DEF at
<1>3. ASSUME NEW j \in Keys, NEW k \in Keys, at[j] = at[k]
      PROVE  CanEqual(j, k)
  <2>1. SUFFICES ASSUME j[1] = k[1], ~IsUnknown(j) PROVE j[2] = k[2]
    BY DEF CanEqual
  <2>2. CASE j = Whole
    BY <2>1, <2>2 DEF Keys, IndexSymbols, Whole, Constant, TemplParam, Induction, Unknown
  <2>3. CASE j[1] = "const"
    <3>1. Denotes(j, p, [n \in {0} |-> i]) = j[2] /\ Denotes(k, p, [n \in {0} |-> i]) = k[2]
      BY <2>1, <2>3 DEF Denotes
    <3>2. QED
      BY <1>1, <1>3, <3>1
  <2>4. CASE j[1] = "param"
    <3>1. Denotes(j, p, [n \in {0} |-> i]) = p[j[2]] /\ Denotes(k, p, [n \in {0} |-> i]) = p[k[2]]
      BY <2>1, <2>4 DEF Denotes
    <3>2. \A q \in Keys : q[1] = "param" => q[2] \in Params
      <4>1. SUFFICES ASSUME NEW q \in Keys, q[1] = "param" PROVE q[2] \in Params
        OBVIOUS
      <4>2. CASE q \in {TemplParam(r) : r \in Params}
        BY <4>2 DEF TemplParam
      <4>3. CASE q = Induction
        BY <4>1, <4>3 DEF Induction, Unknown
      <4>4. CASE q \in {Constant(v, "any") : v \in ConstIndices}
        BY <4>1, <4>4 DEF Constant
      <4>5. CASE q = Whole
        BY <4>1, <4>5 DEF Whole
      <4>6. QED
        BY <4>2, <4>3, <4>4, <4>5 DEF Keys, IndexSymbols
    <3>3. j[2] \in Params /\ k[2] \in Params
      BY <2>1, <2>4, <3>2
    <3>4. QED
      BY <1>1, <1>3, <3>1, <3>3 DEF IsInjective
  <2>5. QED
    BY <2>1, <2>2, <2>3, <2>4 DEF Keys, IndexSymbols, Constant, TemplParam, Induction, Unknown, IsUnknown
<1>4. QED
  BY <1>2, <1>3 DEF MayAlias, at

\* A write that stores the value of its symbol.
LEMMA WriteIsSound ==
  ASSUME NEW ms \in SUBSET Keys, NEW pl, IsPool(pl), NEW l, TypedLattice(l, pl.next, ms), NEW name \in Names,
         NEW key \in Locations(name, ms), NEW sym \in Symbols(pl.next), NEW w, Wrote(ms, l, pl, name, key, sym, w),
         NEW at \in [Keys -> Values], MayAlias(Keys, at), NEW p, NEW u \in [Nat -> Values],
         NEW mem, Sound(l, mem, at, p, u), NEW mem2, mem2[name][at[key]] = Denotes(sym, p, u),
         \A v \in Values : v # at[key] => mem2[name][v] = mem[name][v],
         \A other \in Names \ {name} : mem2[other] = mem[other]
  PROVE  \E u2 \in [Nat -> Values] : Agree(pl.next, u, u2) /\ Sound(w.lattice, mem2, at, p, u2)
<1> DEFINE e == l.entries[name]
           i == WriteImpl(pl, e, key, sym)
           c == mem[name]
           c2 == mem2[name]
<1>1. IsStore(e, pl.next) /\ DOMAIN e \subseteq Keys /\ key \in Keys /\ pl.next \in Nat
  BY DEF TypedLattice, Locations, Keys, IsPool
<1>2. WriteEffect(pl, e, key, sym, i) /\ w.lattice.entries[name] = i.entries
  BY DEF Wrote
<1>3. Describe(e, c, at, p, u)
  BY DEF Sound
<1>4. c2[at[key]] = Denotes(sym, p, u) /\ \A v \in Values : v # at[key] => c2[v] = c[v]
  OBVIOUS
<1> HIDE DEF e, i, c, c2
<1>5. Redescribed(pl.next, u, i.entries, c2, at, p)
  <2> DEFINE K == Keys
  <2>1. key \in K /\ DOMAIN e \subseteq K /\ at \in [K -> Values] /\ MayAlias(K, at)
    BY <1>1
  <2> HIDE DEF K
  <2>2. Stored(c, c2, at[key], Denotes(sym, p, u))
    BY <1>4 DEF Stored
  <2>3. QED
    BY <1>1, <1>2, <1>3, <2>1, <2>2, WriteDescribes
<1>50. PICK u2 \in [Nat -> Values] : Agree(pl.next, u, u2) /\ Describe(i.entries, c2, at, p, u2)
  BY <1>5 DEF Redescribed
<1>6. ASSUME NEW other \in Names
      PROVE  Describe(w.lattice.entries[other], mem2[other], at, p, u2)
  <2>1. CASE other = name
    BY <1>2, <1>50, <2>1 DEF c2
  <2>2. CASE other # name
    <3>1. w.lattice.entries[other] = l.entries[other] /\ mem2[other] = mem[other]
      BY <2>2 DEF Wrote
    <3>2. \A k \in DOMAIN l.entries[other] : l.entries[other][k] \in Symbols(pl.next)
      BY DEF TypedLattice, IsStore
    <3>3. \A k \in DOMAIN l.entries[other] : Denotes(l.entries[other][k], p, u) = Denotes(l.entries[other][k], p, u2)
      BY <1>1, <1>50, <3>2, AgreeDenote
    <3>4. Describe(l.entries[other], mem[other], at, p, u)
      BY DEF Sound
    <3>5. QED
      BY <3>1, <3>3, <3>4 DEF Describe
  <2>3. QED
    BY <2>1, <2>2
<1>7. QED
  BY <1>50, <1>6 DEF Sound

LEMMA WritesToDescribe ==
  ASSUME Typed, IsInjective(params), Describing,
         NEW name \in Names, NEW key \in Locations(name, MemberLocations), NEW sym \in Symbols(pool.next),
         NEW value \in Values, WritesTo(name, key, sym, value), name = Witness => scalar,
         \A u : u[0] = induction /\ Denotes(result.symbol, params, u) = result.value => Denotes(sym, params, u) = value
  PROVE  Describing'
<1> DEFINE w == Write(lattice, pool, name, key, sym)
           at == At(params, induction)
<1>1. IsPool(pool) /\ TypedLattice(lattice, pool.next, MemberLocations) /\ MemberLocations \in SUBSET Keys /\ key \in Keys
  BY PoolIsPool, MemberLocationsAreKeys DEF Typed
<1>2. w = Write(lattice, pool, name, key, sym)
  OBVIOUS
<1>3. lattice' = w.lattice /\ pool' = w.pool
  BY DEF WritesTo
<1> HIDE DEF w
<1>4. Wrote(MemberLocations, lattice, pool, name, key, sym, w)
  BY <1>1, <1>2, WriteStays
<1>5. ASSUME NEW other \in Names
      PROVE  OneKnown(lattice'.entries[other])
  <2>1. CASE other = name
    <3> DEFINE i == WriteImpl(pool, lattice.entries[name], key, sym)
    <3>1. WriteEffect(pool, lattice.entries[name], key, sym, i) /\ lattice'.entries[name] = i.entries
      BY <1>3, <1>4 DEF Wrote
    <3>2. OneKnown(lattice.entries[name])
      BY DEF Describing, KnownApart
    <3> HIDE DEF i
    <3>3. QED
      BY <2>1, <3>1, <3>2, WriteKeepsOneKnown
  <2>2. CASE other # name
    BY <1>3, <1>4, <2>2 DEF Wrote, Describing, KnownApart
  <2>3. QED
    BY <2>1, <2>2
<1>6. scalar \/ Covering(lattice')
  <2>1. SUFFICES ASSUME ~scalar PROVE Covering(lattice')
    OBVIOUS
  <2>2. Covering(lattice) /\ name # Witness
    BY <2>1 DEF Describing
  <2>3. DOMAIN lattice'.entries[name] = DOMAIN lattice.entries[name] \cup {key}
    BY <1>3, <1>4 DEF Wrote, WriteEffect
  <2>4. \A other \in Names \ {name} : lattice'.entries[other] = lattice.entries[other]
    BY <1>3, <1>4 DEF Wrote
  <2>5. QED
    BY <2>2, <2>3, <2>4, NamesAreFinite DEF Covering
<1>7. ASSUME Executed
      PROVE  Fits(lattice', result.symbol, memory', result.value, params, induction)
  <2>1. PICK u \in [Nat -> Values] : /\ u[0] = induction /\ Denotes(result.symbol, params, u) = result.value
                                     /\ Sound(lattice, memory, at, params, u)
    BY <1>7 DEF Describing, Fits
  <2>2. /\ at \in [Keys -> Values] /\ MayAlias(Keys, at) /\ at[key] = ValueOf(key)
    BY <1>1, KeysMayAlias DEF Typed, At, ValueOf
  <2>3. Denotes(sym, params, u) = value
    BY <2>1
  <2>4. memory' = [memory EXCEPT ![name][at[key]] = value]
    BY <1>7, <2>2 DEF WritesTo, Store
  <2> HIDE DEF at
  <2>5. memory \in [Names -> [Values -> Values \cup {Free}]] /\ at[key] \in Values
    BY <1>1, <2>2 DEF Typed
  <2>6. /\ memory'[name][at[key]] = Denotes(sym, params, u)
        /\ \A v \in Values : v # at[key] => memory'[name][v] = memory[name][v]
        /\ \A other \in Names \ {name} : memory'[other] = memory[other]
    BY <2>3, <2>4, <2>5
  <2>7. PICK u2 \in [Nat -> Values] : Agree(pool.next, u, u2) /\ Sound(w.lattice, memory', at, params, u2)
    BY <1>1, <1>4, <2>1, <2>2, <2>6, WriteIsSound
  <2>8. pool.next \in Nat \ {0} /\ result.symbol \in Symbols(pool.next)
    BY DEF Typed
  <2>9. u2[0] = induction
    BY <2>1, <2>7, <2>8 DEF Agree
  <2>10. Denotes(result.symbol, params, u2) = result.value
    BY <2>1, <2>7, <2>8, AgreeDenote
  <2>11. QED
    BY <1>3, <2>7, <2>9, <2>10 DEF Fits, at
<1>8. /\ UNCHANGED <<scalar, params, induction, result, block, taken, before, joined>>
      /\ ~Executed => memory' = memory
  BY DEF WritesTo, Store
<1>9. Executed' <=> Executed
  BY <1>8 DEF Executed
<1>10. block = "then" /\ taken = "else" => ~Executed
  BY DEF Executed
<1>11. block = "else" /\ taken = "then" => ~Executed
  BY DEF Executed
<1>12. KnownApart(lattice')
  BY <1>5 DEF KnownApart
<1>13. QED
  BY <1>6, <1>7, <1>8, <1>9, <1>10, <1>11, <1>12 DEF Describing

\* A read takes the value that an entry says, if any does, so what it stores changes nothing that is described.
ReadKeeps(l, mem2, at, p, u, a, x, value) ==
  /\ Sound(l, mem2, at, p, u) /\ mem2[a][x] = value
  /\ \A k \in DOMAIN l.entries[a] : at[k] = x => value = Denotes(l.entries[a][k], p, u)

LEMMA ReadsKeepDescribed ==
  ASSUME NEW ms, NEW n \in Nat, NEW l, TypedLattice(l, n, ms), ms \in SUBSET Keys,
         NEW at \in [Keys -> Values], NEW p, NEW u \in [Nat -> Values],
         NEW mem \in [Names -> [Values -> Values \cup {Free}]], Sound(l, mem, at, p, u),
         NEW a \in Names, NEW x \in Values, NEW value,
         value \in IF mem[a][x] = Free THEN Values ELSE {mem[a][x]},
         NEW mem2, mem2 = [mem EXCEPT ![a][x] = value]
  PROVE  ReadKeeps(l, mem2, at, p, u, a, x, value)
<1>1. ASSUME NEW name \in Names, NEW k \in DOMAIN l.entries[name]
      PROVE  /\ mem[name][at[k]] = Denotes(l.entries[name][k], p, u)
             /\ mem[name][at[k]] \in Values /\ at[k] \in Values
  <2>1. l.entries[name][k] \in Symbols(n) /\ k \in Keys
    BY DEF TypedLattice, IsStore, Locations, Keys
  <2>2. mem[name][at[k]] = Denotes(l.entries[name][k], p, u)
    BY DEF Sound, Describe
  <2>3. QED
    BY <2>1, <2>2, SymbolsDenoteValues
<1>2. Free \notin Values
  BY ValuesAssumption DEF Free
<1>3. \A k \in DOMAIN l.entries[a] : at[k] = x => value = mem[a][x]
  BY <1>1, <1>2
<1>4. ASSUME NEW name \in Names, NEW k \in DOMAIN l.entries[name]
      PROVE  mem2[name][at[k]] = mem[name][at[k]]
  <2>1. CASE name = a /\ at[k] = x
    BY <1>1, <1>3, <2>1
  <2>2. CASE name # a \/ at[k] # x
    BY <1>1, <2>2
  <2>3. QED
    BY <2>1, <2>2
<1>5. Sound(l, mem2, at, p, u)
  BY <1>1, <1>4 DEF Sound, Describe
<1>6. QED
  BY <1>1, <1>3, <1>5 DEF ReadKeeps

LEMMA ReadArrayDescribes ==
  ASSUME Typed, IsInjective(params), Describing, NEW a \in Arrays, NEW key \in IndexSymbols, ReadArray(a, key)
  PROVE  Describing'
<1> DEFINE at == At(params, induction)
           e == lattice.entries[a]
<1>1. /\ ReadEffect(a, key) /\ result' = [value |-> result'.value, symbol |-> result'.symbol]
      /\ result'.value \in IF Executed THEN Contents(a, key) ELSE {result.value}
      /\ Store(a, key, result'.value)
  BY ReadArrayReads
<1>2. /\ MemberLocations \in SUBSET Keys /\ key \in Keys /\ a \in Names /\ a # Witness
      /\ TypedLattice(lattice, pool.next, MemberLocations) /\ pool.next \in Nat \ {0}
  BY MemberLocationsAreKeys, NamesAreFinite DEF Typed, Keys
<1>3. /\ DOMAIN lattice'.entries[a] = DOMAIN e \cup {key} /\ lattice'.entries[a][key] = result'.symbol
      /\ \A k \in DOMAIN e : k # key => lattice'.entries[a][k] = e[k]
      /\ \A name \in Names \ {a} : lattice'.entries[name] = lattice.entries[name]
      /\ \/ key \in DOMAIN e /\ result'.symbol = e[key]
         \/ key \notin DOMAIN e /\ result'.symbol = Unknown(pool.next)
  BY <1>1 DEF ReadEffect
<1>4. ASSUME NEW name \in Names
      PROVE  OneKnown(lattice'.entries[name])
  <2>1. OneKnown(lattice.entries[name])
    BY DEF Describing, KnownApart
  <2>2. CASE name # a
    BY <1>3, <2>1, <2>2
  <2>3. CASE name = a /\ key \in DOMAIN e
    BY <1>3, <2>1, <2>3 DEF OneKnown
  <2>4. CASE name = a /\ key \notin DOMAIN e
    BY <1>3, <2>1, <2>4 DEF OneKnown, Unknown, IsUnknown
  <2>5. QED
    BY <2>2, <2>3, <2>4
<1>5. scalar \/ Covering(lattice')
  <2>1. SUFFICES ASSUME ~scalar PROVE Covering(lattice')
    OBVIOUS
  <2>2. Covering(lattice)
    BY <2>1 DEF Describing
  <2>3. QED
    BY <1>2, <1>3, <2>2, NamesAreFinite DEF Covering
<1>6. ASSUME Executed
      PROVE  Fits(lattice', result'.symbol, memory', result'.value, params, induction)
  <2>1. PICK u \in [Nat -> Values] : u[0] = induction /\ Sound(lattice, memory, at, params, u)
    BY <1>6 DEF Describing, Fits
  <2>2. at \in [Keys -> Values] /\ at[key] = ValueOf(key)
    BY <1>2, KeysMayAlias DEF Typed, At, ValueOf
  <2>3. /\ result'.value \in IF memory[a][at[key]] = Free THEN Values ELSE {memory[a][at[key]]}
        /\ memory' = [memory EXCEPT ![a][at[key]] = result'.value]
    BY <1>1, <1>6, <2>2 DEF Contents, Store
  <2>4. memory \in [Names -> [Values -> Values \cup {Free}]]
    BY DEF Typed
  <2> HIDE DEF at
  <2>5. at[key] \in Values
    BY <1>2, <2>2
  <2>60. ReadKeeps(lattice, memory', at, params, u, a, at[key], result'.value)
    BY <1>2, <2>1, <2>2, <2>3, <2>4, <2>5, ReadsKeepDescribed
  <2>6. /\ Sound(lattice, memory', at, params, u) /\ memory'[a][at[key]] = result'.value
        /\ \A k \in DOMAIN e : at[k] = at[key] => result'.value = Denotes(e[k], params, u)
    BY <2>60 DEF ReadKeeps
  <2>7. CASE key \in DOMAIN e /\ result'.symbol = e[key]
    <3>1. Denotes(result'.symbol, params, u) = result'.value
      BY <2>6, <2>7
    <3>2. Sound(lattice', memory', at, params, u)
      BY <1>3, <2>6, <2>7, <3>1 DEF Sound, Describe
    <3>3. QED
      BY <2>1, <3>1, <3>2 DEF Fits, at
  <2>8. CASE key \notin DOMAIN e /\ result'.symbol = Unknown(pool.next)
    <3> DEFINE u2 == [i \in Nat |-> IF i = pool.next THEN result'.value ELSE u[i]]
    <3>1. result'.value \in Values
      BY <2>3, <2>4, <2>5, <1>2
    <3>2. u2 \in [Nat -> Values] /\ Agree(pool.next, u, u2) /\ u2[0] = induction /\ u2[pool.next] = result'.value
      BY <1>2, <2>1, <3>1 DEF Agree
    <3> HIDE DEF u2
    <3>3. Denotes(result'.symbol, params, u2) = result'.value
      BY <2>8, <3>2 DEF Denotes, Unknown
    <3>4. ASSUME NEW name \in Names, NEW k \in DOMAIN lattice.entries[name]
          PROVE  memory'[name][at[k]] = Denotes(lattice.entries[name][k], params, u2)
      <4>1. lattice.entries[name][k] \in Symbols(pool.next)
        BY <1>2 DEF TypedLattice, IsStore
      <4>2. Denotes(lattice.entries[name][k], params, u) = Denotes(lattice.entries[name][k], params, u2)
        BY <1>2, <3>2, <4>1, AgreeDenote
      <4>3. QED
        BY <2>6, <4>2 DEF Sound, Describe
    <3>5. Sound(lattice', memory', at, params, u2)
      BY <1>3, <2>6, <2>8, <3>3, <3>4 DEF Sound, Describe
    <3>6. QED
      BY <3>2, <3>3, <3>5 DEF Fits, at
  <2>9. QED
    BY <1>3, <2>7, <2>8
<1>7. /\ UNCHANGED <<scalar, params, induction, block, taken, before, joined>>
      /\ ~Executed => memory' = memory /\ result'.value = result.value
  BY <1>1 DEF ReadArray, Store
<1>8. Executed' <=> Executed
  BY <1>7 DEF Executed
<1>9. (block = "then" /\ taken = "else") \/ (block = "else" /\ taken = "then") => ~Executed
  BY DEF Executed
<1>10. KnownApart(lattice')
  BY <1>4 DEF KnownApart
<1>11. QED
  BY <1>5, <1>6, <1>7, <1>8, <1>9, <1>10 DEF Describing

\* The copy of an array into the member.  With one array the member has no location the array lacks.
LEMMA ArrayMemberWriteDescribes ==
  ASSUME scalar \/ OneArray, Typed, IsInjective(params), Describing,
         NEW a \in Arrays, NEW order \in OrdersOf(lattice, a), ArrayMemberWrite(a, order)
  PROVE  Describing'
<1> DEFINE at == At(params, induction)
           e == lattice.entries[a]
           w == [lattice |-> lattice', pool |-> pool']
           W == lattice'.entries[Witness]
           n == pool.next
           m == pool'.next
<1>1. WroteSome(MemberLocations, lattice, pool, Witness, e, DOMAIN e, w) /\ w.lattice = lattice' /\ w.pool = pool'
      /\ memory' = IF Executed THEN [memory EXCEPT ![Witness] = memory[a]] ELSE memory
  BY ArrayMemberWrites DEF ArrayEffect
<1>2. /\ MemberLocations \in SUBSET Keys /\ a \in Names /\ a # Witness /\ Witness \in Names
      /\ TypedLattice(lattice, n, MemberLocations) /\ n \in Nat \ {0}
      /\ result.symbol \in Symbols(n)
  BY MemberLocationsAreKeys, NamesAreFinite DEF Typed
<1> HIDE DEF w
<1>3. /\ \A name \in Names \ {Witness} : lattice'.entries[name] = lattice.entries[name]
      /\ DOMAIN W = DOMAIN lattice.entries[Witness] \cup DOMAIN e
      /\ OneKnown(lattice.entries[Witness]) => OneKnown(W)
      /\ \A k \in DOMAIN e : Equal(W[k], e[k]) \/ \E i \in n .. m - 1 : W[k] = Unknown(i)
      /\ \A j, k \in DOMAIN W : \A i \in n .. m - 1 : W[j] = Unknown(i) /\ W[k] = Unknown(i) => j = k
      /\ IsPool(pool')
  BY <1>1 DEF WroteSome
<1>4. ~scalar /\ UNCHANGED <<scalar, params, induction, result, block, taken, before, joined>>
  BY DEF ArrayMemberWrite
<1>5. Covering(lattice) /\ DOMAIN W = DOMAIN e
  BY <1>3, <1>4 DEF Describing, Covering
<1>6. KnownApart(lattice')
  <2>1. SUFFICES ASSUME NEW name \in Names PROVE OneKnown(lattice'.entries[name])
    BY DEF KnownApart
  <2>2. OneKnown(lattice.entries[name])
    BY DEF Describing, KnownApart
  <2>3. CASE name = Witness
    BY <1>3, <2>2, <2>3
  <2>4. CASE name # Witness
    BY <1>3, <2>2, <2>4
  <2>5. QED
    BY <2>3, <2>4
<1>7. Covering(lattice')
  <2>1. SUFFICES ASSUME NEW b \in Arrays PROVE DOMAIN W \subseteq DOMAIN lattice'.entries[b]
    BY DEF Covering
  <2>2. b = a /\ lattice'.entries[a] = e
    BY <1>2, <1>3, <1>4 DEF OneArray
  <2>3. QED
    BY <1>5, <2>2
<1>8. ASSUME Executed
      PROVE  Fits(lattice', result.symbol, memory', result.value, params, induction)
  <2>1. PICK u \in [Nat -> Values] : u[0] = induction /\ Denotes(result.symbol, params, u) = result.value
                                     /\ Sound(lattice, memory, at, params, u)
    BY <1>8 DEF Describing, Fits
  <2>2. at \in [Keys -> Values]
    BY KeysMayAlias DEF Typed
  <2> HIDE DEF at
  <2>3. \A k \in DOMAIN e : /\ memory[a][at[k]] = Denotes(e[k], params, u) /\ e[k] \in Symbols(n)
                            /\ memory[a][at[k]] \in Values
    <3>1. SUFFICES ASSUME NEW k \in DOMAIN e
                   PROVE  /\ memory[a][at[k]] = Denotes(e[k], params, u) /\ e[k] \in Symbols(n)
                          /\ memory[a][at[k]] \in Values
      OBVIOUS
    <3>2. e[k] \in Symbols(n)
      BY <1>2 DEF TypedLattice, IsStore
    <3>3. Describe(e, memory[a], at, params, u)
      BY <1>2, <2>1 DEF Sound
    <3>4. Denotes(e[k], params, u) \in Values
      BY <1>2, <3>2, SymbolsDenoteValues
    <3>5. QED
      BY <3>2, <3>3, <3>4 DEF Describe
  <2> DEFINE Takes(i) == \E k \in DOMAIN e : W[k] = Unknown(i)
             u2 == [i \in Nat |-> IF i \in n .. m - 1 /\ Takes(i)
                                  THEN memory[a][at[CHOOSE k \in DOMAIN e : W[k] = Unknown(i)]] ELSE u[i]]
  <2>4. u2 \in [Nat -> Values]
    <3>1. ASSUME NEW i \in Nat, Takes(i)
          PROVE  memory[a][at[CHOOSE k \in DOMAIN e : W[k] = Unknown(i)]] \in Values
      BY <2>3, <3>1
    <3>2. QED
      BY <3>1
  <2>5. Agree(n, u, u2) /\ u2[0] = induction
    BY <1>2, <2>1 DEF Agree
  <2>6. ASSUME NEW k \in DOMAIN e, NEW i \in n .. m - 1, W[k] = Unknown(i)
        PROVE  u2[i] = memory[a][at[k]]
    <3>1. \A j \in DOMAIN e : W[j] = Unknown(i) => j = k
      BY <1>3, <1>5, <2>6
    <3>2. Takes(i) /\ (CHOOSE j \in DOMAIN e : W[j] = Unknown(i)) = k
      BY <2>6, <3>1
    <3>3. i \in Nat
      BY <1>2, <1>3 DEF IsPool
    <3>4. QED
      BY <3>2, <3>3
  <2> HIDE DEF u2, Takes
  <2>7. Denotes(result.symbol, params, u2) = result.value
    BY <1>2, <2>1, <2>5, AgreeDenote
  <2>8. ASSUME NEW name \in Names, NEW k \in DOMAIN lattice.entries[name]
        PROVE  memory[name][at[k]] = Denotes(lattice.entries[name][k], params, u2)
    <3>1. lattice.entries[name][k] \in Symbols(n)
      BY <1>2 DEF TypedLattice, IsStore
    <3>2. Denotes(lattice.entries[name][k], params, u) = Denotes(lattice.entries[name][k], params, u2)
      BY <1>2, <2>5, <3>1, AgreeDenote
    <3>3. QED
      BY <2>1, <3>2 DEF Sound, Describe
  <2>9. memory' = [memory EXCEPT ![Witness] = memory[a]] /\ memory \in [Names -> [Values -> Values \cup {Free}]]
    BY <1>1, <1>8 DEF Typed
  <2>10. memory'[Witness] = memory[a] /\ \A name \in Names \ {Witness} : memory'[name] = memory[name]
    BY <1>2, <2>9
  <2>11. ASSUME NEW k \in DOMAIN e
         PROVE  memory[a][at[k]] = Denotes(W[k], params, u2)
    <3>1. CASE Equal(W[k], e[k])
      <4>1. Denotes(W[k], params, u2) = Denotes(e[k], params, u2)
        BY <3>1, EqualDenote
      <4>2. QED
        BY <1>2, <2>8, <4>1
    <3>2. CASE \E i \in n .. m - 1 : W[k] = Unknown(i)
      BY <2>6, <3>2 DEF Denotes, Unknown
    <3>3. QED
      BY <1>3, <3>1, <3>2
  <2>12. Sound(lattice', memory', at, params, u2)
    <3>1. SUFFICES ASSUME NEW name \in Names, NEW k \in DOMAIN lattice'.entries[name]
                   PROVE  memory'[name][at[k]] = Denotes(lattice'.entries[name][k], params, u2)
      BY DEF Sound, Describe
    <3>2. CASE name = Witness
      BY <1>5, <2>10, <2>11, <3>2
    <3>3. CASE name # Witness
      BY <1>3, <2>8, <2>10, <3>3
    <3>4. QED
      BY <3>2, <3>3
  <2>13. QED
    BY <2>4, <2>5, <2>7, <2>12 DEF Fits, at
<1>9. ~Executed => memory' = memory
  BY <1>1
<1>10. Executed' <=> Executed
  BY <1>4 DEF Executed
<1>11. (block = "then" /\ taken = "else") \/ (block = "else" /\ taken = "then") => ~Executed
  BY DEF Executed
<1>12. QED
  BY <1>4, <1>6, <1>7, <1>8, <1>9, <1>10, <1>11 DEF Describing

LEMMA BottomDescribesAll ==
  /\ KnownApart(Bottom) /\ Covering(Bottom)
  /\ \A mem, at, p, u : Sound(Bottom, mem, at, p, u)
BY BottomIsTyped, NamesAreFinite DEF KnownApart, OneKnown, Covering, Sound, Describe

LEMMA BeginIfDescribes ==
  ASSUME Describing, BeginIf
  PROVE  Describing'
<1>1. /\ block = "top" /\ block' = "then" /\ taken' \in {"then", "else"}
      /\ before'.lattice = lattice /\ before'.symbol = result.symbol
      /\ UNCHANGED <<scalar, params, induction, memory, result, lattice, joined>>
  BY DEF BeginIf, run
<1>2. Fits(lattice, result.symbol, memory, result.value, params, induction)
  BY <1>1 DEF Describing, Executed
<1>3. scalar' \/ (Covering(lattice') /\ Covering(before'.lattice) /\ Covering(joined'.lattice))
  <2>1. CASE scalar
    BY <1>1, <2>1, Zenon
  <2>2. CASE ~scalar
    BY <1>1, <2>2 DEF Describing
  <2>3. QED
    BY <2>1, <2>2, Zenon
<1>4. KnownApart(lattice') /\ KnownApart(before'.lattice) /\ KnownApart(joined'.lattice)
  BY <1>1 DEF Describing
<1>5. QED
  BY <1>1, <1>2, <1>3, <1>4 DEF Describing, Executed

LEMMA ThenYieldsDescribes ==
  ASSUME Typed, Describing, ThenYields
  PROVE  Describing'
<1> DEFINE w == LatticeJoin(Bottom, lattice, pool, <<>>)
<1>1. TypedLattice(Bottom, pool.next, MemberLocations) /\ ~Initialized(Bottom)
  BY BottomIsTyped DEF Typed, Bottom, Initialized
<1>2. w.lattice = lattice \/ w.lattice = [entries |-> Bottom.entries, initialized |-> Bottom.initialized]
  BY <1>1, LatticeJoinCases
<1>3. Bottom = [entries |-> Bottom.entries, initialized |-> Bottom.initialized]
  BY <1>1 DEF TypedLattice
<1>4. joined' = [lattice |-> w.lattice, symbol |-> result.symbol]
  BY DEF ThenYields
<1>5. joined'.lattice \in {lattice, Bottom} /\ joined'.symbol = result.symbol
  BY <1>2, <1>3, <1>4
<1>6. /\ block = "then" /\ block' = "else" /\ lattice' = before.lattice
      /\ UNCHANGED <<scalar, params, induction, memory, taken, before>>
  BY DEF ThenYields, run
<1>7. result'.value = result.value /\ result'.symbol = before.symbol
  <2>1. result = [value |-> result.value, symbol |-> result.symbol] /\ result' = [result EXCEPT !.symbol = before.symbol]
    BY DEF ThenYields, Typed
  <2>2. QED
    BY <2>1
<1>8. KnownApart(joined'.lattice) /\ (scalar \/ Covering(joined'.lattice))
  BY <1>5, BottomDescribesAll DEF Describing
<1>9. ASSUME taken = "then"
      PROVE  Fits(joined'.lattice, joined'.symbol, memory, result.value, params, induction)
  <2>1. Fits(lattice, result.symbol, memory, result.value, params, induction)
    BY <1>6, <1>9 DEF Describing, Executed
  <2>2. QED
    BY <1>5, <2>1, BottomDescribesAll DEF Fits
<1>10. Executed' => taken = "else"
  BY <1>6 DEF Executed, Typed
<1>11. scalar' \/ (Covering(lattice') /\ Covering(before'.lattice) /\ Covering(joined'.lattice))
  <2>1. CASE scalar
    BY <1>6, <2>1, Zenon
  <2>2. CASE ~scalar
    BY <1>6, <1>8, <2>2 DEF Describing
  <2>3. QED
    BY <2>1, <2>2, Zenon
<1>12. KnownApart(lattice') /\ KnownApart(before'.lattice) /\ KnownApart(joined'.lattice)
  BY <1>6, <1>8 DEF Describing
<1>13. Executed' => Fits(lattice', result'.symbol, memory', result'.value, params', induction')
  <2>1. taken = "else" => Fits(before.lattice, before.symbol, memory, result.value, params, induction)
    BY <1>6 DEF Describing
  <2>2. QED
    BY <1>6, <1>7, <1>10, <2>1
<1>14. taken' = "then" => Fits(joined'.lattice, joined'.symbol, memory', result'.value, params', induction')
  BY <1>6, <1>7, <1>9
<1>15. block' # "then"
  BY <1>6
<1>16. QED
  BY <1>11, <1>12, <1>13, <1>14, <1>15 DEF Describing

\* The join: the values of the unknowns are those of the side the run has taken, and a fresh unknown gets
\* the value of the entry it stands for on that side.
LEMMA ElseYieldsDescribes ==
  ASSUME Typed, Describing, NEW orders \in JoinOrders(joined.lattice, lattice), ElseYields(orders), misjoins' \subseteq {"erased"}
  PROVE  Describing'
<1> DEFINE j == LatticeJoin(joined.lattice, lattice, pool, orders)
           r == AntiUnify(j.pool, joined.symbol, result.symbol)
           n == pool.next
           d == <<joined.symbol, result.symbol>>
           at == At(params, induction)
<1>1. /\ IsPool(pool) /\ pool.memo = <<>> /\ MemberLocations \in SUBSET Keys /\ n \in Nat \ {0}
      /\ TypedLattice(joined.lattice, n, MemberLocations) /\ TypedLattice(lattice, n, MemberLocations)
      /\ joined.symbol \in Symbols(n) /\ result.symbol \in Symbols(n)
  <2>1. pool = [next |-> pool.next, memo |-> <<>>, misjoins |-> {}]
    BY DEF Typed
  <2>2. pool.memo = <<>>
    BY <2>1
  <2>3. QED
    BY <2>2, PoolIsPool, MemberLocationsAreKeys DEF Typed
<1>2. /\ lattice' = j.lattice /\ result' = [result EXCEPT !.symbol = r.sym]
      /\ "unknown" \notin r.pool.misjoins /\ ~OneSided(joined.lattice, lattice)
  BY DEF ElseYields
<1>3. j = LatticeJoin(joined.lattice, lattice, pool, orders) /\ r = AntiUnify(j.pool, joined.symbol, result.symbol)
  OBVIOUS
<1> HIDE DEF j, r, d, at
<1>4. Later(pool, j.pool)
  BY <1>1, <1>3, LatticeJoinStays
<1>5. n <= j.pool.next /\ j.pool.next \in Nat /\ IsPool(j.pool)
  BY <1>4 DEF Later, IsPool
<1>6. joined.symbol \in Symbols(j.pool.next) /\ result.symbol \in Symbols(j.pool.next)
  BY <1>1, <1>5, SymbolsGrow
<1>7. /\ Later(j.pool, r.pool) /\ d \in DOMAIN r.pool.memo /\ r.sym = r.pool.memo[d]
  BY <1>3, <1>5, <1>6, AntiUnifyLearns DEF d
<1>8. j.pool.misjoins = {} /\ r.pool.misjoins = {} /\ IsPool(r.pool) /\ n <= r.pool.next
  BY <1>1, <1>2, <1>5, <1>7 DEF Later, IsPool
<1>9. KnownApart(lattice)
  BY DEF Describing
<1>10. Generalizes(n, j.pool) /\ KeepsFound(joined.lattice, lattice, j)
  BY <1>1, <1>2, <1>3, <1>8, <1>9, LatticeJoinKeepsFound
<1>11. Generalizes(n, r.pool)
  <2>1. Generalized(n, joined.symbol, result.symbol, r)
    BY <1>1, <1>3, <1>5, <1>6, <1>8, <1>10, AntiUnifyGeneralizes
  <2>2. QED
    BY <2>1 DEF Generalized
<1>12. KnownApart(lattice')
  BY <1>2, <1>9, <1>10, JoinKeepsKnownApart
<1>13. scalar \/ Covering(lattice')
  <2>1. SUFFICES ASSUME ~scalar, NEW a \in Arrays PROVE DOMAIN j.lattice.entries[Witness] \subseteq DOMAIN j.lattice.entries[a]
    BY <1>2 DEF Covering
  <2>2. Covering(joined.lattice) /\ Covering(lattice)
    BY <2>1 DEF Describing
  <2>3. QED
    BY <1>10, <2>2, NamesAreFinite DEF Covering, KeepsFound
<1>14. /\ block = "else" /\ block' = "top" /\ before'.lattice = Bottom /\ joined'.lattice = Bottom
       /\ UNCHANGED <<scalar, params, induction, memory>>
  BY DEF ElseYields, NotInIf, run
<1>15. result'.value = result.value /\ result'.symbol = r.sym
  <2>1. result = [value |-> result.value, symbol |-> result.symbol]
    BY DEF Typed
  <2>2. QED
    BY <1>2, <2>1
<1>16. ASSUME NEW side \in {1, 2},
              Fits(Side(side, joined.lattice, lattice), d[side], memory, result.value, params, induction)
       PROVE  Fits(lattice', r.sym, memory, result.value, params, induction)
  <2>1. PICK u \in [Nat -> Values] :
               /\ u[0] = induction /\ Denotes(d[side], params, u) = result.value
               /\ Sound(Side(side, joined.lattice, lattice), memory, at, params, u)
    BY <1>16 DEF Fits, at
  <2>2. PICK u2 \in [Nat -> Values] : Agree(n, u, u2) /\ SideDenotes(side, r.pool, params, u, u2)
    <3>1. HasSide(n, side, r.pool, params, u)
      BY <1>1, <1>8, <1>11, JoinKeepsSides
    <3>2. QED
      BY <3>1 DEF HasSide
  <2>3. Sound(j.lattice, memory, at, params, u2)
    <3>1. n \in Nat /\ TypedLattice(joined.lattice, n, MemberLocations)
      BY <1>1
    <3>2. KeepsFound(joined.lattice, lattice, j) /\ Later(j.pool, r.pool)
      BY <1>7, <1>10
    <3> HIDE DEF n
    <3>3. QED
      BY <3>1, <3>2, <2>1, <2>2, JoinIsSound
  <2>4. Denotes(r.sym, params, u2) = result.value
    BY <1>7, <2>1, <2>2 DEF SideDenotes
  <2>5. u2[0] = induction
    BY <1>1, <2>1, <2>2 DEF Agree
  <2>6. QED
    BY <1>2, <2>3, <2>4, <2>5 DEF Fits, at
<1>17. Fits(lattice', r.sym, memory, result.value, params, induction)
  <2>1. CASE taken = "then"
    <3>1. Fits(joined.lattice, joined.symbol, memory, result.value, params, induction)
      BY <1>14, <2>1 DEF Describing
    <3>2. Side(1, joined.lattice, lattice) = joined.lattice /\ d[1] = joined.symbol
      BY DEF Side, d
    <3>3. QED
      BY <1>16, <3>1, <3>2
  <2>2. CASE taken = "else"
    <3>1. Fits(lattice, result.symbol, memory, result.value, params, induction)
      BY <1>14, <2>2 DEF Describing, Executed
    <3>2. Side(2, joined.lattice, lattice) = lattice /\ d[2] = result.symbol
      BY DEF Side, d
    <3>3. QED
      BY <1>16, <3>1, <3>2
  <2>3. QED
    BY <2>1, <2>2 DEF Typed
<1>18. QED
  BY <1>12, <1>13, <1>14, <1>15, <1>17, BottomDescribesAll DEF Describing

LEMMA InitDescribes ==
  ASSUME Init
  PROVE  Describing
<1>1. /\ induction \in Values /\ block = "top"
      /\ lattice = Bottom /\ before.lattice = Bottom /\ joined.lattice = Bottom
      /\ result.value = 0 /\ result.symbol = Constant(0, "compute")
  BY DEF Init, NotInIf
<1> DEFINE u == [i \in Nat |-> induction]
<1>2. u \in [Nat -> Values] /\ u[0] = induction
  BY <1>1
<1>3. Denotes(result.symbol, params, u) = result.value
  BY <1>1 DEF Denotes, Constant
<1> HIDE DEF u
<1>4. Fits(lattice, result.symbol, memory, result.value, params, induction)
  BY <1>1, <1>2, <1>3, BottomDescribesAll DEF Fits
<1>5. QED
  BY <1>1, <1>4, BottomDescribesAll DEF Describing

\* An operand's symbol denotes its value in every run in which the result's symbol denotes the result.
LEMMA OperandsDenote ==
  /\ \A operand \in Operands : \A u :
       u[0] = induction /\ Denotes(result.symbol, params, u) = result.value
         => Denotes(operand.symbol, params, u) = operand.value
  /\ \A s \in ConstantsOf("constrain") \cup {Induction} : \A u :
       u[0] = induction => Denotes(s, params, u) = ValueOf(s)
<1>1. ASSUME NEW s \in ConstantsOf("compute") \cup ConstantsOf("constrain") \cup {Induction}, NEW u, u[0] = induction
      PROVE  Denotes(s, params, u) = ValueOf(s)
  <2>1. CASE s = Induction
    BY <1>1, <2>1 DEF Denotes, ValueOf, Induction, Unknown
  <2>2. CASE s # Induction
    BY <1>1, <2>2 DEF Denotes, ValueOf, ConstantsOf, Constant
  <2>3. QED
    BY <2>1, <2>2
<1>2. QED
  BY <1>1 DEF Operands

\* What an operation leaves of the entries of @compute: all of them.
KeepsEntries(l, l2) ==
  \A name \in Names \ {Constraint} : DOMAIN l.entries[name] \subseteq DOMAIN l2.entries[name]

LEMMA EntriesAccount ==
  ASSUME NEW l, NEW l2, NEW mem, NEW at, KeepsEntries(l, l2), Accounts(l, mem, at)
  PROVE  Accounts(l2, mem, at)
BY DEF KeepsEntries, Accounts

\* An operation that sets one element, and has an entry for it.
LEMMA StoresAccount ==
  ASSUME Typed, Accounting, UNCHANGED <<params, induction, block, taken, before, joined>>,
         NEW name \in Names, NEW key \in Keys, NEW value, Store(name, key, value),
         KeepsEntries(lattice, lattice'), key \in DOMAIN lattice'.entries[name]
  PROVE  Accounting'
<1> DEFINE at == At(params, induction)
<1>1. at[key] = ValueOf(key)
  BY DEF At, ValueOf
<1>2. CASE Executed
  <2>1. Accounts(lattice', memory, at)
    BY <1>2, EntriesAccount DEF Accounting
  <2>2. memory' = [memory EXCEPT ![name][ValueOf(key)] = value]
    BY <1>2 DEF Store
  <2>3. \A other \in Names : \A v \in Values :
          (other # name \/ v # ValueOf(key)) => memory'[other][v] = memory[other][v]
    BY <2>2 DEF Typed
  <2> HIDE DEF at
  <2>4. Accounts(lattice', memory', at)
    BY <1>1, <2>1, <2>3 DEF Accounts
  <2>5. QED
    BY <1>2, <2>4 DEF Accounting, Executed, at
<1>3. CASE ~Executed
  <2>1. memory' = memory
    BY <1>3 DEF Store
  <2>2. QED
    BY <1>3, <2>1 DEF Accounting, Executed
<1>4. QED
  BY <1>2, <1>3

LEMMA WritesToAccount ==
  ASSUME Typed, Accounting, NEW name \in Names, NEW key \in Locations(name, MemberLocations),
         NEW sym \in Symbols(pool.next), NEW value, WritesTo(name, key, sym, value)
  PROVE  Accounting'
<1> DEFINE w == Write(lattice, pool, name, key, sym)
<1>1. IsPool(pool) /\ TypedLattice(lattice, pool.next, MemberLocations)
  BY PoolIsPool DEF Typed
<1>2. w = Write(lattice, pool, name, key, sym) /\ lattice' = w.lattice
  BY DEF WritesTo
<1> HIDE DEF w
<1>3. Wrote(MemberLocations, lattice, pool, name, key, sym, w)
  BY <1>1, <1>2, WriteStays
<1>4. /\ DOMAIN lattice'.entries[name] = DOMAIN lattice.entries[name] \cup {key}
      /\ \A other \in Names \ {name} : lattice'.entries[other] = lattice.entries[other]
  BY <1>2, <1>3 DEF Wrote, WriteEffect
<1>5. KeepsEntries(lattice, lattice') /\ key \in DOMAIN lattice'.entries[name] /\ key \in Keys
  BY <1>4, MemberLocationsAreKeys DEF KeepsEntries
<1>6. UNCHANGED <<params, induction, block, taken, before, joined>> /\ Store(name, key, value)
  BY DEF WritesTo
<1>7. QED
  BY <1>5, <1>6, StoresAccount

LEMMA ReadArrayAccounts ==
  ASSUME Typed, Accounting, NEW a \in Arrays, NEW key \in IndexSymbols, ReadArray(a, key)
  PROVE  Accounting'
<1>1. ReadEffect(a, key) /\ Store(a, key, result'.value)
  BY ReadArrayReads
<1>2. a \in Names /\ key \in Keys
  BY NamesAreFinite DEF Keys
<1>3. /\ DOMAIN lattice'.entries[a] = DOMAIN lattice.entries[a] \cup {key}
      /\ \A name \in Names \ {a} : lattice'.entries[name] = lattice.entries[name]
  BY <1>1 DEF ReadEffect
<1>4. KeepsEntries(lattice, lattice') /\ key \in DOMAIN lattice'.entries[a]
  BY <1>3 DEF KeepsEntries
<1>5. UNCHANGED <<params, induction, block, taken, before, joined>>
  BY DEF ReadArray
<1>6. QED
  BY <1>1, <1>2, <1>4, <1>5, StoresAccount

LEMMA ArrayMemberWriteAccounts ==
  ASSUME Typed, Accounting, NEW a \in Arrays, NEW order \in OrdersOf(lattice, a), ArrayMemberWrite(a, order)
  PROVE  Accounting'
<1> DEFINE at == At(params, induction)
<1>1. /\ DOMAIN lattice'.entries[Witness] = DOMAIN lattice.entries[Witness] \cup DOMAIN lattice.entries[a]
      /\ \A name \in Names \ {Witness} : lattice'.entries[name] = lattice.entries[name]
      /\ memory' = IF Executed THEN [memory EXCEPT ![Witness] = memory[a]] ELSE memory
  BY ArrayMemberWrites DEF ArrayEffect, WroteSome
<1>2. KeepsEntries(lattice, lattice')
  BY <1>1 DEF KeepsEntries
<1>3. UNCHANGED <<params, induction, block, taken, before, joined>>
  BY DEF ArrayMemberWrite
<1>4. CASE Executed
  <2>1. Accounts(lattice', memory, at) /\ Accounts(lattice, memory, at)
    BY <1>2, <1>4, EntriesAccount DEF Accounting
  <2>2. memory'[Witness] = memory[a] /\ \A name \in Names \ {Witness} : memory'[name] = memory[name]
    BY <1>1, <1>4, NamesAreFinite DEF Typed
  <2>3. a \in Names \ {Constraint}
    BY NamesAreFinite
  <2> HIDE DEF at
  <2>4. Accounts(lattice', memory', at)
    BY <1>1, <2>1, <2>2, <2>3 DEF Accounts
  <2>5. QED
    BY <1>3, <1>4, <2>4 DEF Accounting, Executed, at
<1>5. CASE ~Executed
  BY <1>1, <1>3, <1>5 DEF Accounting, Executed
<1>6. QED
  BY <1>4, <1>5

LEMMA BeginIfAccounts ==
  ASSUME Accounting, BeginIf
  PROVE  Accounting'
<1>1. /\ block = "top" /\ block' = "then" /\ before'.lattice = lattice
      /\ UNCHANGED <<params, induction, memory, lattice, joined>>
  BY DEF BeginIf, run
<1>2. QED
  BY <1>1 DEF Accounting, Executed

LEMMA ThenYieldsAccounts ==
  ASSUME Typed, Accounting, ThenYields
  PROVE  Accounting'
<1> DEFINE w == LatticeJoin(Bottom, lattice, pool, <<>>)
<1>1. TypedLattice(Bottom, pool.next, MemberLocations) /\ ~Initialized(Bottom)
  BY BottomIsTyped DEF Typed, Bottom, Initialized
<1>2. w.lattice = lattice \/ ~Initialized(lattice)
  <2>1. \/ ~Initialized(lattice) /\ w.pool = pool
           /\ w.lattice = [entries |-> Bottom.entries, initialized |-> Bottom.initialized]
        \/ Initialized(lattice) /\ ~Initialized(Bottom) /\ w.pool = pool /\ w.lattice = lattice
        \/ Initialized(lattice) /\ Initialized(Bottom) /\ SameEntries(Bottom, lattice) /\ w.pool = pool
           /\ w.lattice = Bottom
        \/ Initialized(lattice) /\ Initialized(Bottom) /\ w = JoinStores(Bottom, lattice, pool, <<>>)
    BY <1>1, LatticeJoinCases
  <2>2. QED
    BY <1>1, <2>1
<1>3. ASSUME ~Initialized(lattice), NEW name \in Names
      PROVE  DOMAIN lattice.entries[name] = {}
  BY <1>3 DEF Typed, TypedLattice, Initialized
<1>4. joined' = [lattice |-> w.lattice, symbol |-> result.symbol]
  BY DEF ThenYields
<1>5. KeepsEntries(lattice, joined'.lattice)
  BY <1>2, <1>3, <1>4 DEF KeepsEntries
<1>6. /\ block = "then" /\ block' = "else" /\ lattice' = before.lattice
      /\ UNCHANGED <<params, induction, memory, taken, before>>
  BY DEF ThenYields, run
<1>7. ASSUME taken = "then" PROVE Accounts(joined'.lattice, memory, At(params, induction))
  <2>1. Accounts(lattice, memory, At(params, induction))
    BY <1>6, <1>7 DEF Accounting, Executed
  <2>2. QED
    BY <1>5, <2>1, EntriesAccount
<1>8. QED
  BY <1>6, <1>7 DEF Accounting, Executed, Typed

\* A join that loses no location of either branch accounts for what the run has set in the one it took.
LEMMA ElseYieldsAccounts ==
  ASSUME Typed, Accounting, NEW orders \in JoinOrders(joined.lattice, lattice), ElseYields(orders),
         "erased" \notin misjoins'
  PROVE  Accounting'
<1> DEFINE j == LatticeJoin(joined.lattice, lattice, pool, orders)
<1>1. lattice' = j.lattice /\ ~Erases(joined.lattice, lattice, j.lattice)
  BY DEF ElseYields
<1>2. KeepsEntries(joined.lattice, lattice') /\ KeepsEntries(lattice, lattice')
  BY <1>1 DEF Erases, KeepsEntries
<1>3. block = "else" /\ block' = "top" /\ UNCHANGED <<params, induction, memory>>
  BY DEF ElseYields, run
<1>4. Accounts(lattice', memory, At(params, induction))
  BY <1>2, <1>3, EntriesAccount DEF Accounting, Executed, Typed
<1>5. QED
  BY <1>3, <1>4 DEF Accounting, Executed

LEMMA NextAccounts ==
  ASSUME Typed, Accounting, [Next]_vars, "erased" \notin misjoins'
  PROVE  Accounting'
<1>0. Witness \in Names /\ Constraint \in Names /\ Arrays \subseteq Names /\ Witness \notin Arrays /\ Constraint \notin Arrays
  BY NamesAreFinite
<1>1. ASSUME NEW a \in Arrays, NEW key \in IndexSymbols, NEW operand \in Operands, WriteArray(a, key, operand)
      PROVE  Accounting'
  <2>1. WritesTo(a, key, operand.symbol, operand.value) /\ key \in Locations(a, MemberLocations)
    BY <1>1, WritesAreWrites DEF Locations
  <2>2. QED
    BY <1>0, <2>1, OperandsAreTyped, WritesToAccount
<1>2. ASSUME NEW operand \in Operands, ScalarMemberWrite(operand)
      PROVE  Accounting'
  <2>1. WritesTo(Witness, Whole, operand.symbol, operand.value) /\ Whole \in Locations(Witness, MemberLocations)
    BY <1>0, <1>2, WritesAreWrites DEF Locations, MemberLocations
  <2>2. QED
    BY <1>0, <2>1, OperandsAreTyped, WritesToAccount
<1>3. ASSUME NEW key \in MemberLocations, NEW s \in ConstantsOf("constrain") \cup {Induction}, EmitEquality(key, s)
      PROVE  Accounting'
  <2>1. WritesTo(Constraint, key, s, ValueOf(s)) /\ key \in Locations(Constraint, MemberLocations)
    BY <1>0, <1>3, WritesAreWrites DEF Locations
  <2>2. QED
    BY <1>0, <2>1, ConstrainedAreTyped, WritesToAccount
<1>4. CASE UNCHANGED vars
  BY <1>4 DEF Accounting, Executed, vars, run
<1>5. QED
  BY <1>1, <1>2, <1>3, <1>4, ReadArrayAccounts, ArrayMemberWriteAccounts, BeginIfAccounts,
     ThenYieldsAccounts, ElseYieldsAccounts DEF Next

LEMMA InitAccounts ==
  ASSUME Init
  PROVE  Accounting
BY DEF Init, Accounting, Accounts, Executed

LEMMA NextDescribes ==
  ASSUME IInv, [Next]_vars
  PROVE  IInv'
<1>1. Typed /\ IsInjective(params) /\ (scalar \/ OneArray) /\ Typed'
  BY NextStaysTyped DEF IInv, Distinct
<1>2. params' = params /\ scalar' = scalar
  BY DEF Next, vars, run, WriteArray, ReadArray, ScalarMemberWrite, ArrayMemberWrite, EmitEquality, BeginIf,
         ThenYields, ElseYields
<1>3. misjoins \subseteq misjoins'
  BY DEF Next, vars, WriteArray, ReadArray, ScalarMemberWrite, ArrayMemberWrite, EmitEquality, BeginIf,
         ThenYields, ElseYields
<1>4. ASSUME misjoins' \subseteq {"erased"} PROVE Describing'
  <2>1. Describing
    BY <1>3, <1>4 DEF IInv
  <2>2. Witness \in Names /\ Constraint \in Names /\ Arrays \subseteq Names /\ Witness \notin Arrays
        /\ Constraint \notin Arrays /\ Constraint # Witness
    BY NamesAreFinite DEF Witness, Constraint
  <2>3. ASSUME NEW a \in Arrays, NEW key \in IndexSymbols, NEW operand \in Operands, WriteArray(a, key, operand)
        PROVE  Describing'
    <3>1. WritesTo(a, key, operand.symbol, operand.value) /\ key \in Locations(a, MemberLocations)
      BY <2>3, WritesAreWrites DEF Locations
    <3>2. QED
      BY <1>1, <2>1, <2>2, <3>1, OperandsAreTyped, OperandsDenote, WritesToDescribe
  <2>4. ASSUME NEW operand \in Operands, ScalarMemberWrite(operand)
        PROVE  Describing'
    <3>1. scalar /\ WritesTo(Witness, Whole, operand.symbol, operand.value) /\ Whole \in Locations(Witness, MemberLocations)
      BY <2>2, <2>4, WritesAreWrites DEF Locations, MemberLocations
    <3>2. QED
      BY <1>1, <2>1, <2>2, <3>1, OperandsAreTyped, OperandsDenote, WritesToDescribe
  <2>5. ASSUME NEW key \in MemberLocations, NEW s \in ConstantsOf("constrain") \cup {Induction}, EmitEquality(key, s)
        PROVE  Describing'
    <3>1. WritesTo(Constraint, key, s, ValueOf(s)) /\ key \in Locations(Constraint, MemberLocations)
      BY <2>2, <2>5, WritesAreWrites DEF Locations
    <3>2. QED
      BY <1>1, <2>1, <2>2, <3>1, ConstrainedAreTyped, OperandsDenote, WritesToDescribe
  <2>6. CASE UNCHANGED vars
    BY <2>1, <2>6 DEF Describing, Executed, vars, run
  <2>7. QED
    BY <1>1, <1>4, <2>1, <2>3, <2>4, <2>5, <2>6, ReadArrayDescribes, ArrayMemberWriteDescribes, BeginIfDescribes,
       ThenYieldsDescribes, ElseYieldsDescribes DEF Next
<1>5. ASSUME "erased" \notin misjoins' PROVE Accounting'
  BY <1>1, <1>3, <1>5, NextAccounts DEF IInv
<1>6. QED
  BY <1>1, <1>2, <1>4, <1>5 DEF IInv, Distinct

\* The unknowns that occur are numbered, and the values of the others do not matter.
LEMMA FitsDescribes ==
  ASSUME Typed, Fits(lattice, result.symbol, memory, result.value, params, induction)
  PROVE  Describes(lattice, result.symbol)
<1> DEFINE S == UnknownsIn(lattice, result.symbol)
           D == UNION {DOMAIN lattice.entries[name] : name \in Names}
           E == UNION {{lattice.entries[name][k] : k \in DOMAIN lattice.entries[name]} : name \in Names}
           T == {result.symbol, Induction} \cup D \cup E
           at == At(params, induction)
<1>1. PICK u \in [Nat -> Values] : /\ u[0] = induction /\ Denotes(result.symbol, params, u) = result.value
                                   /\ Sound(lattice, memory, at, params, u)
  BY DEF Fits
<1>2. S = {s[2] : s \in {t \in T : IsUnknown(t)}}
  BY DEF UnknownsIn
<1>3. ASSUME NEW name \in Names, NEW k \in DOMAIN lattice.entries[name]
      PROVE  k \in Keys /\ k \in T /\ lattice.entries[name][k] \in Symbols(pool.next) /\ lattice.entries[name][k] \in T
  <2>1. TypedLattice(lattice, pool.next, MemberLocations)
    BY DEF Typed
  <2>2. k \in Keys /\ lattice.entries[name][k] \in Symbols(pool.next)
    BY <2>1, MemberLocationsAreKeys DEF TypedLattice, IsStore
  <2>3. k \in D
    OBVIOUS
  <2>4. lattice.entries[name][k] \in E
    OBVIOUS
  <2> HIDE DEF D, E
  <2>5. QED
    BY <2>2, <2>3, <2>4
<1>4. \A t \in T : t \in Keys \/ t \in Symbols(pool.next)
  <2>1. Induction \in Keys /\ result.symbol \in Symbols(pool.next)
    BY DEF Keys, IndexSymbols, Typed
  <2>2. SUFFICES ASSUME NEW t \in T, t # result.symbol, t # Induction
                 PROVE  t \in Keys \/ t \in Symbols(pool.next)
    BY <2>1
  <2>3. CASE t \in D
    <3>1. PICK name \in Names : t \in DOMAIN lattice.entries[name]
      BY <2>3
    <3>2. QED
      BY <1>3, <3>1
  <2>4. CASE t \in E
    <3>1. PICK name \in Names : t \in {lattice.entries[name][j] : j \in DOMAIN lattice.entries[name]}
      BY <2>4
    <3>2. PICK k \in DOMAIN lattice.entries[name] : t = lattice.entries[name][k]
      BY <3>1
    <3>3. QED
      BY <1>3, <3>2
  <2> HIDE DEF D, E
  <2>5. QED
    BY <2>2, <2>3, <2>4
<1>5. result.symbol \in T /\ Induction \in T
  OBVIOUS
<1> HIDE DEF T, S, at
<1>6. \A t \in T : IsUnknown(t) => t[2] \in Nat /\ t[2] \in S
  <2>1. SUFFICES ASSUME NEW t \in T, IsUnknown(t) PROVE t[2] \in Nat
    BY <1>2
  <2>2. CASE t \in Keys
    <3>1. CASE t = Induction
      BY <3>1 DEF Induction, Unknown
    <3>2. CASE t \in {Constant(v, "any") : v \in ConstIndices}
      BY <2>1, <3>2 DEF IsUnknown, Constant
    <3>3. CASE t \in {TemplParam(q) : q \in Params}
      BY <2>1, <3>3 DEF IsUnknown, TemplParam
    <3>4. CASE t = Whole
      BY <2>1, <3>4 DEF IsUnknown, Whole
    <3>5. QED
      BY <2>2, <3>1, <3>2, <3>3, <3>4 DEF Keys, IndexSymbols
  <2>3. CASE t \in Symbols(pool.next)
    <3>1. pool.next \in Nat
      BY DEF Typed
    <3>2. t[2] \in 0 .. pool.next - 1
      BY <2>1, <2>3, <3>1, SymbolKinds
    <3>3. QED
      BY <3>1, <3>2
  <2>4. QED
    BY <1>4, <2>2, <2>3
<1>7. S \subseteq Nat /\ 0 \in S
  <2>1. S \subseteq Nat
    BY <1>2, <1>6
  <2>2. IsUnknown(Induction) /\ Induction[2] = 0
    BY DEF IsUnknown, Induction, Unknown
  <2>3. QED
    BY <1>5, <1>6, <2>1, <2>2
<1> DEFINE v == [i \in S |-> u[i]]
<1>8. v \in [S -> Values] /\ v[0] = induction /\ \A i \in S : v[i] = u[i]
  BY <1>1, <1>7
<1> HIDE DEF v
<1>9. \A t \in T : Denotes(t, params, v) = Denotes(t, params, u)
  BY <1>6, <1>8 DEF Denotes, IsUnknown
<1>10. Denotes(result.symbol, params, v) = result.value
  BY <1>1, <1>5, <1>9
<1>11. ASSUME NEW name \in Names, NEW k \in DOMAIN lattice.entries[name]
       PROVE  memory[name][Denotes(k, params, v)] = Denotes(lattice.entries[name][k], params, v)
  <2>1. memory[name][at[k]] = Denotes(lattice.entries[name][k], params, u)
    BY <1>1 DEF Sound, Describe
  <2>2. at[k] = Denotes(k, params, u)
    <3>1. at[k] = Denotes(k, params, [i \in {0} |-> induction])
      BY <1>3 DEF at, At
    <3>2. Denotes(k, params, u) = Denotes(k, params, [i \in {0} |-> induction])
      <4>1. params \in [Params -> Values] /\ induction \in Values /\ k \in Keys
        BY <1>3 DEF Typed
      <4>2. \A f : f[0] = induction => Denotes(k, params, f) = Denotes(k, params, [i \in {0} |-> induction])
        BY <4>1, KeysDenoteValues
      <4>3. QED
        BY <1>1, <4>2
    <3>3. QED
      BY <3>1, <3>2
  <2>3. QED
    BY <1>3, <1>9, <2>1, <2>2
<1>12. QED
  BY <1>8, <1>10, <1>11 DEF Describes, S

\* Entries that are equal describe elements that are equal, and there is an entry for every element of
\* the witness.
LEMMA EqualEntriesAreEqualElements ==
  ASSUME Typed, Fits(lattice, result.symbol, memory, result.value, params, induction), AreEquivalent,
         Accounts(lattice, memory, At(params, induction))
  PROVE  EqualSides
<1> DEFINE at == At(params, induction)
           w == lattice.entries[Witness]
           c == lattice.entries[Constraint]
<1>1. PICK u \in [Nat -> Values] : Sound(lattice, memory, at, params, u)
  BY DEF Fits
<1>2. Witness \in Names /\ Constraint \in Names /\ Witness # Constraint
  BY NamesAreFinite DEF Witness, Constraint
<1>3. SUFFICES ASSUME NEW v \in Values, memory[Witness][v] # Free
               PROVE  memory[Witness][v] = memory[Constraint][v]
  BY DEF EqualSides
<1>4. PICK k \in DOMAIN w : at[k] = v
  BY <1>2, <1>3 DEF Accounts
<1>5. k \in DOMAIN c /\ Equal(w[k], c[k])
  BY DEF AreEquivalent
<1> HIDE DEF at
<1>6. memory[Witness][at[k]] = Denotes(w[k], params, u) /\ memory[Constraint][at[k]] = Denotes(c[k], params, u)
  BY <1>1, <1>2, <1>5 DEF Sound, Describe
<1>7. Denotes(w[k], params, u) = Denotes(c[k], params, u)
  BY <1>5, EqualDenote
<1>8. QED
  BY <1>4, <1>6, <1>7

\* In every run in which no two template parameters have the same value, of a function with a felt member
\* or at most one array, as long as no join kept an unknown or the entries of one branch that it should not
\* have, the lattice of the operation visited last says of each entry what the arrays hold.
THEOREM StoreDescribesRunHolds ==
  Spec /\ Distinct => []StoreDescribesRun
<1>1. Init /\ Distinct => IInv
  BY InitIsTyped, InitDescribes, InitAccounts DEF IInv
<1>2. IInv /\ [Next]_vars => IInv'
  BY NextDescribes
<1>3. IInv => StoreDescribesRun
  BY FitsDescribes DEF IInv, Describing, StoreDescribesRun
<1>4. QED
  BY <1>1, <1>2, <1>3, PTL DEF Spec

\* In the same runs, as long as moreover no join has lost a location that @compute wrote, areEquivalent
\* accepts only a member that the constraints leave no value but what the witness holds, at every index
\* @compute has set and not only at those the store has an entry for.
THEOREM EquivalentMeansEqualHolds ==
  Spec /\ Distinct => []EquivalentMeansEqual
<1>1. Init /\ Distinct => IInv
  BY InitIsTyped, InitDescribes, InitAccounts DEF IInv
<1>2. IInv /\ [Next]_vars => IInv'
  BY NextDescribes
<1>3. IInv => EquivalentMeansEqual
  <2>1. SUFFICES ASSUME IInv, block = "top", misjoins = {}, AreEquivalent PROVE EqualSides
    BY DEF EquivalentMeansEqual
  <2>2. Typed /\ Describing /\ Accounting
    BY <2>1 DEF IInv
  <2>3. /\ Fits(lattice, result.symbol, memory, result.value, params, induction)
        /\ Accounts(lattice, memory, At(params, induction))
    BY <2>1, <2>2 DEF Describing, Accounting, Executed
  <2>4. QED
    BY <2>1, <2>2, <2>3, EqualEntriesAreEqualElements
<1>4. QED
  BY <1>1, <1>2, <1>3, PTL DEF Spec
=============================================================================
