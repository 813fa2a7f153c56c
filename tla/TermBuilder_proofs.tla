-------------------------- MODULE TermBuilder_proofs --------------------------
(* Theorems about TermBuilder, for any struct and any product function.      *)
EXTENDS TermBuilder, FiniteSetTheorems, TLAPS

\* What getExpression, the members and the parameters can be asked for.
AskableKeys ==
  {WitnessKey(m) : m \in Members} \cup {ConstraintKey(m) : m \in Members}
    \cup {ValueKey(v) : v \in SSAValues} \cup {Key("parameters", Subject[v], "int") : v \in SSAValues}

Sided(k) == k.map \in {"witness", "constraint"}

-----------------------------------------------------------------------------
(* The inductive invariant.  A constant is determined by its key, however     *)
(* late it is asked for and in whatever company: mkConst is called once for   *)
(* each, or once for the two keys of a member found equal.                    *)

ConstantOf(k) ==
  IF Sided(k) /\ k.of \in claimed
  THEN [map |-> "witness", of |-> k.of, name |-> BaseName(k) \o << >>, sort |-> k.sort, nth |-> 0]
  ELSE [map |-> k.map, of |-> k.of, name |-> BaseName(k) \o Suffix(k.map), sort |-> k.sort, nth |-> 0]

MapsAreMade(ms) ==
  /\ DOMAIN ms \subseteq AskableKeys
  /\ \A k \in DOMAIN ms : ms[k] = ConstantOf(k)
  /\ \A m \in claimed : WitnessKey(m) \in DOMAIN ms <=> ConstraintKey(m) \in DOMAIN ms

\* Before the first antecedent, the postcondition has asked for both sides of every member.
SidesAreMade == pc = "walk" => \A m \in Members : {WitnessKey(m), ConstraintKey(m)} \subseteq DOMAIN maps

\* The quotients that a term mentions are among the results of the bounds bs.
Defined(term, bs) ==
  \A v \in SSAValues :
    Definition[v] = "division" =>
      \A c \in term : c.map = "values" /\ c.of = v => \E b \in bs : b.result = c

WellBuilt(term, ms, bs) == term \subseteq Made(ms) /\ Defined(term, bs)

TermsAreWellBuilt ==
  /\ WellBuilt(condition, maps, bounds)
  /\ \A v \in DOMAIN expressions : WellBuilt(expressions[v], maps, bounds)
  /\ \A b \in bounds : WellBuilt(b.term, maps, bounds)

\* A query stays what it was when it was written: the maps only grow.
QueryIsWellBuilt(q, ms) ==
  /\ WellBuilt(q.term, ms, q.divisions)
  /\ \A b \in q.divisions : WellBuilt(b.term, ms, q.divisions)
  /\ \A c \in q.declared : \E k \in DOMAIN ms : ms[k] = c /\ k.map # "parameters"
  /\ \A c \in q.term \ q.declared : \E k \in DOMAIN ms : ms[k] = c /\ k.map = "parameters"

StateTypes ==
  /\ DOMAIN expressions \subseteq SSAValues
  /\ claimed \subseteq Members /\ steps \in 0 .. MaxSteps
  /\ pc \in {"register", "walk", "done", "aborted"}

IInv ==
  /\ StateTypes
  /\ MapsAreMade(maps)
  /\ SidesAreMade
  /\ TermsAreWellBuilt
  /\ QueryIsWellBuilt(query, maps)

-----------------------------------------------------------------------------
(* The closures.                                                             *)

LEMMA ProgramFacts ==
  /\ MaxSteps \in Nat
  /\ \A v \in SSAValues : Operands[v] \subseteq SSAValues
  /\ Members \subseteq Seq(STRING)
  /\ \A m \in Members : MemberSort[m] \in Sorts
  /\ \A v \in SSAValues : Definition[v] \in Definitions
  /\ \A v \in SSAValues :
       Definition[v] \in {"witnessRead", "constraintRead", "memberArray"} => Subject[v] \in Members
  /\ \A v \in SSAValues :
       Definition[v] = "subcomponentRead" => \A u \in Operands[v] : ValueSort(u) = "struct"
BY ProgramIsSSA

\* What ReachedBy gives: a closed set with the value, and the least of them.
LEMMA Reached ==
  ASSUME NEW next, \A u \in SSAValues : next[u] \subseteq SSAValues, NEW v \in SSAValues
  PROVE  /\ v \in ReachedBy(next)[v]
         /\ ReachedBy(next)[v] \subseteq SSAValues
         /\ \A u \in ReachedBy(next)[v] : next[u] \subseteq ReachedBy(next)[v]
         /\ \A U \in SUBSET SSAValues :
              v \in U /\ (\A u \in U : next[u] \subseteq U) => ReachedBy(next)[v] \subseteq U
BY DEF ReachedBy

LEMMA VisitedReaches ==
  ASSUME NEW v \in SSAValues
  PROVE  /\ v \in Visited[v]
         /\ Visited[v] \subseteq SSAValues
         /\ \A u \in Visited[v] : Definition[u] # "subcomponentRead" => Operands[u] \subseteq Visited[v]
         /\ \A U \in SUBSET SSAValues :
              v \in U /\ (\A u \in U : Definition[u] # "subcomponentRead" => Operands[u] \subseteq U)
                => Visited[v] \subseteq U
<1> DEFINE next == [u \in SSAValues |-> IF Definition[u] = "subcomponentRead" THEN {} ELSE Operands[u]]
<1>1. \A u \in SSAValues : next[u] \subseteq SSAValues
  BY ProgramFacts
<1>2. Visited = ReachedBy(next)
  BY DEF Visited
<1>3. \A U \in SUBSET SSAValues :
        (\A u \in U : next[u] \subseteq U)
          <=> (\A u \in U : Definition[u] # "subcomponentRead" => Operands[u] \subseteq U)
  OBVIOUS
<1>4. \A u \in SSAValues : Definition[u] # "subcomponentRead" => next[u] = Operands[u]
  OBVIOUS
<1> HIDE DEF next
<1>5. QED
  BY <1>1, <1>2, <1>3, <1>4, Reached

\* The operands of what is visited are visited, and so is all that a term is built from.
LEMMA InnerIsVisited ==
  ASSUME NEW v \in SSAValues, NEW u \in Visited[v]
  PROVE  u \in SSAValues /\ Visited[u] \subseteq Visited[v] /\ Inner[u] \subseteq Visited[v]
<1>1. u \in SSAValues
  BY VisitedReaches
<1>2. Visited[u] \subseteq Visited[v]
  BY <1>1, VisitedReaches
<1> DEFINE next == [w \in SSAValues |->
                      IF Definition[w] \in {"division", "subcomponentRead"} THEN {} ELSE Operands[w]]
<1>3. \A w \in SSAValues : next[w] \subseteq SSAValues
  BY ProgramFacts
<1>4. Inner = ReachedBy(next)
  BY DEF Inner
<1>5. \A w \in Visited[u] : next[w] \subseteq Visited[u]
  BY <1>1, VisitedReaches
<1> HIDE DEF next
<1>6. Inner[u] \subseteq Visited[u]
  BY <1>1, <1>3, <1>4, <1>5, Reached, VisitedReaches
<1>7. QED
  BY <1>1, <1>2, <1>6

-----------------------------------------------------------------------------
(* The maps.                                                                 *)

LEMMA KeysAreRecords ==
  /\ \A k \in AskableKeys : k = Key(k.map, k.of, k.sort)
  /\ \A k \in AskableKeys : Sided(k) => k.of \in Members /\ k.sort = MemberSort[k.of]
  /\ \A k \in AskableKeys :
       k.map = "values" => \E v \in SSAValues : k = ValueKey(v)
  /\ \A k \in AskableKeys : k.map \in {"witness", "constraint", "values", "parameters"}
  /\ \A k \in AskableKeys : k.map = "parameters" => k.sort = "int"
BY DEF AskableKeys, Sided, WitnessKey, ConstraintKey, ValueKey, Key

LEMMA KeysAreUnique ==
  ASSUME NEW k \in AskableKeys, NEW l \in AskableKeys, k.map = l.map, k.of = l.of
  PROVE  k = l
<1>1. CASE Sided(k)
  BY <1>1, KeysAreRecords DEF Sided
<1>2. CASE k.map = "values"
  <2>1. PICK u \in SSAValues, v \in SSAValues : k = ValueKey(u) /\ l = ValueKey(v)
    BY <1>2, KeysAreRecords
  <2>2. u = v
    BY <2>1, ProgramFacts DEF ValueKey, Key
  <2>3. QED
    BY <2>1, <2>2
<1>3. CASE k.map = "parameters"
  BY <1>3, KeysAreRecords
<1>4. QED
  BY <1>1, <1>2, <1>3, KeysAreRecords DEF Sided

LEMMA MemberKeys ==
  ASSUME NEW m \in Members
  PROVE  /\ {WitnessKey(m), ConstraintKey(m)} \subseteq AskableKeys
         /\ Sided(WitnessKey(m)) /\ WitnessKey(m).of = m /\ WitnessKey(m).map = "witness"
         /\ Sided(ConstraintKey(m)) /\ ConstraintKey(m).of = m /\ ConstraintKey(m).map = "constraint"
BY DEF AskableKeys, WitnessKey, ConstraintKey, Key, Sided

LEMMA SidedKeys ==
  ASSUME NEW k \in AskableKeys, Sided(k)
  PROVE  k.of \in Members /\ k \in {WitnessKey(k.of), ConstraintKey(k.of)}
BY KeysAreRecords DEF Sided, WitnessKey, ConstraintKey, Key

\* An operation asks for keys that exist, and only a division for that of its quotient.
LEMMA OwnKeysAreAskable ==
  ASSUME NEW v \in SSAValues
  PROVE  /\ OwnKeys(v) \subseteq AskableKeys
         /\ \A k \in OwnKeys(v), d \in SSAValues :
              Definition[d] = "division" /\ k.map = "values" /\ k.of = d => d = v
<1>1. OwnKeys(v) \subseteq AskableKeys
  BY ProgramFacts DEF OwnKeys, AskableKeys, Definitions
<1>2. ASSUME NEW k \in OwnKeys(v), NEW d \in SSAValues,
             Definition[d] = "division", k.map = "values", k.of = d
      PROVE  d = v
  <2>1. ValueSort(d) = "int"
    BY <1>2 DEF ValueSort
  <2>2. CASE Definition[v] = "subcomponentRead"
    <3>1. PICK u \in Operands[v] : k = ValueKey(u)
      BY <1>2, <2>2 DEF OwnKeys
    <3>2. u = d
      BY <1>2, <3>1, ProgramFacts DEF ValueKey, Key
    <3>3. QED
      BY <2>1, <2>2, <3>1, <3>2, ProgramFacts
  <2>3. CASE Definition[v] # "subcomponentRead"
    <3>1. k = ValueKey(v)
      BY <1>2, <2>3 DEF OwnKeys, Key, WitnessKey, ConstraintKey
    <3>2. QED
      BY <1>2, <3>1, ProgramFacts DEF ValueKey, Key
  <2>4. QED
    BY <2>2, <2>3
<1>3. QED
  BY <1>1, <1>2

LEMMA KeysOfAreAskable ==
  ASSUME NEW v \in SSAValues
  PROVE  /\ KeysOf(v) \subseteq AskableKeys
         /\ \A u \in Visited[v] : OwnKeys(u) \subseteq KeysOf(v)
         /\ ValueKey(v) \in AskableKeys
BY VisitedReaches, OwnKeysAreAskable DEF KeysOf, AskableKeys

\* Names with different last parts are different.
LEMMA SuffixesDiffer ==
  ASSUME NEW name \in Seq(STRING)
  PROVE  name \o <<"_w">> # name \o <<"_c">>
<1>1. Len(name) \in Nat
  OBVIOUS
<1>2. (name \o <<"_w">>)[Len(name) + 1] = "_w" /\ (name \o <<"_c">>)[Len(name) + 1] = "_c"
  BY <1>1
<1>3. QED
  BY <1>2

\* A constant tells the key and the map it was made for: a member that was found equal
\* stands in both maps, and keeps the one of its witness.
LEMMA ConstantFields ==
  ASSUME NEW k \in AskableKeys
  PROVE  /\ ConstantOf(k).of = k.of /\ ConstantOf(k).sort = k.sort
         /\ ConstantOf(k).map = IF Sided(k) /\ k.of \in claimed THEN "witness" ELSE k.map
         /\ ConstantOf(k).name = BaseName(k) \o IF Sided(k) /\ k.of \in claimed THEN << >> ELSE Suffix(k.map)
BY DEF ConstantOf

\* What is made for a key that has no constant is the first one.
LEMMA MadeFirst ==
  ASSUME MapsAreMade(maps), NEW k \in AskableKeys, k \notin DOMAIN maps, NEW suffix
  PROVE  MkConst(k, suffix, maps)
           = [map |-> k.map, of |-> k.of, name |-> BaseName(k) \o suffix, sort |-> k.sort, nth |-> 0]
<1>1. ASSUME NEW l \in DOMAIN maps, maps[l].map = k.map, maps[l].of = k.of
      PROVE  FALSE
  <2>1. l \in AskableKeys /\ l.of = k.of /\ maps[l] = ConstantOf(l)
    BY <1>1, ConstantFields DEF MapsAreMade
  <2>2. CASE Sided(l) /\ l.of \in claimed
    <3>1. k.map = "witness"
      BY <1>1, <2>1, <2>2, ConstantFields
    <3>2. Sided(k) /\ k # ConstraintKey(k.of)
      BY <3>1 DEF Sided, ConstraintKey, Key
    <3>3. k = WitnessKey(k.of)
      BY <3>2, SidedKeys
    <3>4. l \in {WitnessKey(k.of), ConstraintKey(k.of)}
      BY <2>1, <2>2, SidedKeys
    <3>5. QED
      BY <2>1, <2>2, <3>3, <3>4 DEF MapsAreMade
  <2>3. CASE ~(Sided(l) /\ l.of \in claimed)
    <3>1. ConstantOf(l).map = l.map
      <4>1. ConstantOf(l) = [map |-> l.map, of |-> l.of, name |-> BaseName(l) \o Suffix(l.map), sort |-> l.sort, nth |-> 0]
        BY <2>3 DEF ConstantOf
      <4>2. QED
        BY <4>1
    <3>2. k.map = l.map /\ k.of = l.of
      BY <1>1, <2>1, <3>1
    <3>3. k = l
      BY <2>1, <3>2, KeysAreUnique
    <3>4. QED
      BY <1>1, <3>3
  <2>4. QED
    BY <2>2, <2>3
<1>2. {c \in Made(maps) : c.map = k.map /\ c.of = k.of} = {}
  BY <1>1 DEF Made
<1>3. QED
  BY <1>2, FS_EmptySet DEF MkConst

Grows(ms, more) == DOMAIN ms \subseteq DOMAIN more /\ \A k \in DOMAIN ms : more[k] = ms[k]

\* getConstant keeps what the maps hold and adds what they should.
LEMMA ConstantsAreMade ==
  ASSUME MapsAreMade(maps), claimed \subseteq Members, NEW ks \in SUBSET AskableKeys,
         \A m \in claimed : WitnessKey(m) \in DOMAIN maps
  PROVE  /\ MapsAreMade(GetConstants(ks, maps))
         /\ Grows(maps, GetConstants(ks, maps))
         /\ ks \subseteq DOMAIN GetConstants(ks, maps)
<1> DEFINE ms == GetConstants(ks, maps)
<1>1. DOMAIN ms = DOMAIN maps \cup ks
  BY DEF GetConstants
<1>2. \A k \in DOMAIN maps : ms[k] = maps[k]
  BY DEF GetConstants
<1>3. ASSUME NEW k \in ks, k \notin DOMAIN maps
      PROVE  ms[k] = ConstantOf(k)
  <2>1. Sided(k) => k.of \notin claimed
    BY <1>3, SidedKeys DEF MapsAreMade
  <2>2. ms[k] = MkConst(k, Suffix(k.map), maps)
    BY <1>3 DEF GetConstants
  <2>3. QED
    BY <1>3, <2>1, <2>2, MadeFirst DEF ConstantOf
<1>4. \A m \in claimed : WitnessKey(m) \in DOMAIN ms /\ ConstraintKey(m) \in DOMAIN ms
  BY <1>1 DEF MapsAreMade
<1>5. MapsAreMade(ms) /\ Grows(maps, ms) /\ ks \subseteq DOMAIN ms
  <2> HIDE DEF ms
  <2>1. QED
    BY <1>1, <1>2, <1>3, <1>4 DEF MapsAreMade, Grows
<1>6. QED
  BY <1>5

-----------------------------------------------------------------------------
(* The terms.                                                                *)

\* More constants and more bounds leave a term what it was.
LEMMA MoreIsWellBuilt ==
  ASSUME NEW ms, NEW more, Grows(ms, more), NEW bs, NEW bs2, bs \subseteq bs2,
         NEW term, WellBuilt(term, ms, bs)
  PROVE  WellBuilt(term, more, bs2)
<1>1. Made(ms) \subseteq Made(more)
  BY DEF Made, Grows
<1>2. QED
  BY <1>1 DEF WellBuilt, Defined

LEMMA UnionIsWellBuilt ==
  ASSUME NEW ms, NEW bs, NEW terms, \A term \in terms : WellBuilt(term, ms, bs)
  PROVE  WellBuilt(UNION terms, ms, bs)
BY DEF WellBuilt, Defined

\* The sides of members are no quotients.
LEMMA SidesAreWellBuilt ==
  ASSUME NEW ms, MapsAreMade(ms), NEW members \in SUBSET Members, NEW bs,
         \A m \in members : {WitnessKey(m), ConstraintKey(m)} \subseteq DOMAIN ms
  PROVE  WellBuilt(SidesOf(members, ms), ms, bs)
<1>1. ASSUME NEW c \in SidesOf(members, ms)
      PROVE  c \in Made(ms) /\ c.map # "values"
  <2>1. PICK m \in members : c \in {ms[WitnessKey(m)], ms[ConstraintKey(m)]}
    BY DEF SidesOf
  <2>2. PICK k \in {WitnessKey(m), ConstraintKey(m)} : c = ms[k]
    BY <2>1
  <2>3. k \in DOMAIN ms /\ k \in AskableKeys /\ k.map # "values" /\ c = ConstantOf(k)
    BY <2>2, MemberKeys DEF MapsAreMade
  <2>4. c.map # "values"
    BY <2>3, ConstantFields
  <2>5. QED
    BY <2>2, <2>3, <2>4 DEF Made
<1>2. QED
  BY <1>1 DEF WellBuilt, Defined

\* What getExpression makes of a value, once all it visits has constants: the quotients of what is
\* new are defined by the new bounds, those of what is cached by old ones.
LEMMA ExpressionsAreWellBuilt ==
  ASSUME IInv, NEW v \in SSAValues, NEW ms, MapsAreMade(ms), Grows(maps, ms), KeysOf(v) \subseteq DOMAIN ms
  PROVE  LET bs == bounds \cup BoundsOf(v, ms)
         IN  /\ \A u \in Visited[v] : WellBuilt(TermOf(u, ms), ms, bs)
             /\ \A b \in bs : WellBuilt(b.term, ms, bs)
<1> DEFINE bs == bounds \cup BoundsOf(v, ms)
           part(w) == IF w \in DOMAIN expressions THEN expressions[w] ELSE {ms[k] : k \in OwnKeys(w)}
<1>1. ASSUME NEW w \in Visited[v], w \notin DOMAIN expressions
      PROVE  WellBuilt({ms[k] : k \in OwnKeys(w)}, ms, bs)
  <2>1. w \in SSAValues /\ OwnKeys(w) \subseteq DOMAIN ms
    BY VisitedReaches, KeysOfAreAskable
  <2>2. {ms[k] : k \in OwnKeys(w)} \subseteq Made(ms)
    BY <2>1 DEF Made
  <2>3. ASSUME NEW d \in SSAValues, Definition[d] = "division", NEW k \in OwnKeys(w),
               ms[k].map = "values", ms[k].of = d
        PROVE  \E b \in bs : b.result = ms[k]
    <3>1. k \in AskableKeys /\ ms[k] = ConstantOf(k)
      BY <2>1 DEF MapsAreMade
    <3>2. k.map = "values" /\ k.of = d
      BY <2>3, <3>1, ConstantFields
    <3>3. d = w
      BY <2>1, <2>3, <3>2, OwnKeysAreAskable
    <3>4. k = ValueKey(w)
      BY <2>3, <3>3 DEF OwnKeys
    <3>5. [result |-> ms[k], term |-> DivisionBound(w, ms)] \in BoundsOf(v, ms)
      BY <1>1, <2>3, <3>3, <3>4 DEF BoundsOf
    <3>6. QED
      BY <3>5
  <2>4. QED
    BY <2>2, <2>3 DEF WellBuilt, Defined
<1>2. ASSUME NEW w \in Visited[v]
      PROVE  WellBuilt(part(w), ms, bs)
  <2>1. CASE w \in DOMAIN expressions
    <3>1. WellBuilt(expressions[w], maps, bounds)
      BY <2>1 DEF IInv, TermsAreWellBuilt
    <3>2. WellBuilt(expressions[w], ms, bs)
      BY <3>1, MoreIsWellBuilt
    <3>3. QED
      BY <2>1, <3>2
  <2>2. CASE w \notin DOMAIN expressions
    BY <1>1, <2>2
  <2>3. QED
    BY <2>1, <2>2
<1>3. ASSUME NEW u \in Visited[v]
      PROVE  WellBuilt(TermOf(u, ms), ms, bs)
  <2> DEFINE ws == IF u \in DOMAIN expressions THEN {u} ELSE Inner[u]
             parts == {part(w) : w \in ws}
  <2>1. TermOf(u, ms) = UNION parts
    BY DEF TermOf
  <2>2. \A term \in parts : WellBuilt(term, ms, bs)
    <3> HIDE DEF part, bs
    <3>1. QED
      BY <1>2, InnerIsVisited
  <2> HIDE DEF parts, bs
  <2>3. QED
    BY <2>1, <2>2, UnionIsWellBuilt
<1>4. ASSUME NEW b \in BoundsOf(v, ms)
      PROVE  WellBuilt(b.term, ms, bs)
  <2>1. PICK u \in Visited[v] : /\ u \notin DOMAIN expressions /\ Definition[u] = "division"
                                /\ b = [result |-> ms[ValueKey(u)], term |-> DivisionBound(u, ms)]
    BY DEF BoundsOf
  <2>2. u \in SSAValues /\ Operands[u] \subseteq Visited[v]
    BY <2>1, VisitedReaches
  <2>3. WellBuilt({ms[ValueKey(u)]}, ms, bs)
    <3>1. OwnKeys(u) = {ValueKey(u)}
      BY <2>1 DEF OwnKeys
    <3>2. {ms[k] : k \in OwnKeys(u)} = {ms[ValueKey(u)]}
      BY <3>1
    <3>3. QED
      BY <1>1, <2>1, <3>2
  <2>4. \A w \in Operands[u] : WellBuilt(TermOf(w, ms), ms, bs)
    BY <1>3, <2>2
  <2> DEFINE terms == {{ms[ValueKey(u)]}} \cup {TermOf(w, ms) : w \in Operands[u]}
  <2>5. DivisionBound(u, ms) = UNION terms
    BY DEF DivisionBound
  <2>6. \A term \in terms : WellBuilt(term, ms, bs)
    <3> HIDE DEF bs
    <3>1. QED
      BY <2>3, <2>4
  <2>7. WellBuilt(DivisionBound(u, ms), ms, bs)
    <3> HIDE DEF terms, bs
    <3>1. QED
      BY <2>5, <2>6, UnionIsWellBuilt
  <2>8. QED
    BY <2>1, <2>7
<1>5. ASSUME NEW b \in bounds
      PROVE  WellBuilt(b.term, ms, bs)
  BY MoreIsWellBuilt DEF IInv, TermsAreWellBuilt
<1>6. QED
  BY <1>3, <1>4, <1>5

-----------------------------------------------------------------------------
(* The queries.                                                              *)

LEMMA QueryStaysWellBuilt ==
  ASSUME NEW ms, NEW more, Grows(ms, more), NEW q, QueryIsWellBuilt(q, ms)
  PROVE  QueryIsWellBuilt(q, more)
<1>1. WellBuilt(q.term, more, q.divisions) /\ \A b \in q.divisions : WellBuilt(b.term, more, q.divisions)
  BY MoreIsWellBuilt DEF QueryIsWellBuilt
<1>2. QED
  BY <1>1 DEF QueryIsWellBuilt, Grows

\* A query declares the constants it is written with.
LEMMA AskKeeps ==
  ASSUME NEW term, NEW ms, NEW bs, NEW next, Ask(term, ms, bs, next),
         WellBuilt(term, ms, bs), \A b \in bs : WellBuilt(b.term, ms, bs), QueryIsWellBuilt(query, ms)
  PROVE  QueryIsWellBuilt(query', ms) /\ pc' \in {next, "aborted"}
<1>1. CASE UNCHANGED query
  BY <1>1 DEF Ask
<1>2. CASE BuildSMTQuery(term, ms, bs)
  <2>1. query'.term = term /\ query'.declared = GetExtraDecls(term, ms) /\ query'.divisions = bs
    BY <1>2 DEF BuildSMTQuery
  <2>2. QED
    BY <2>1 DEF QueryIsWellBuilt, GetExtraDecls, WellBuilt, Made, Ask
<1>3. QED
  BY <1>1, <1>2 DEF Ask

-----------------------------------------------------------------------------
(* The steps.                                                                *)

LEMMA InitiallyInv == Init => IInv
<1> SUFFICES ASSUME Init PROVE IInv
  OBVIOUS
<1>1. StateTypes /\ SidesAreMade
  BY ProgramFacts DEF Init, StateTypes, SidesAreMade
<1>2. MapsAreMade(maps)
  BY <1>1 DEF Init, MapsAreMade, StateTypes
<1>3. TermsAreWellBuilt
  BY DEF Init, TermsAreWellBuilt, WellBuilt, Defined
<1>4. QueryIsWellBuilt(query, maps)
  BY DEF Init, NoQuery, QueryIsWellBuilt, WellBuilt, Defined
<1>5. QED
  BY <1>1, <1>2, <1>3, <1>4 DEF IInv

\* A step of the walk that asks for an expression.
LEMMA GetExpressionKeeps ==
  ASSUME IInv, pc = "walk", NEW v \in SSAValues, NEW ks \in SUBSET AskableKeys, KeysOf(v) \subseteq ks,
         GetExpressionWith(v, GetConstants(ks, maps)), UNCHANGED claimed
  PROVE  /\ MapsAreMade(maps) /\ MapsAreMade(maps)' /\ Grows(maps, maps')
         /\ \A m \in Members : {WitnessKey(m), ConstraintKey(m)} \subseteq DOMAIN maps'
         /\ DOMAIN expressions' \subseteq SSAValues /\ v \in DOMAIN expressions' /\ bounds \subseteq bounds'
         /\ \A u \in DOMAIN expressions' : WellBuilt(expressions'[u], maps', bounds')
         /\ WellBuilt(TermOf(v, GetConstants(ks, maps)), maps', bounds')
         /\ \A b \in bounds' : WellBuilt(b.term, maps', bounds')
         /\ QueryIsWellBuilt(query, maps')
         /\ WellBuilt(condition, maps', bounds')
<1> DEFINE ms == GetConstants(ks, maps)
<1>1. MapsAreMade(maps) /\ claimed \subseteq Members
      /\ \A m \in Members : {WitnessKey(m), ConstraintKey(m)} \subseteq DOMAIN maps
  BY DEF IInv, SidesAreMade, StateTypes
<1>2. MapsAreMade(ms) /\ Grows(maps, ms) /\ ks \subseteq DOMAIN ms
  BY <1>1, ConstantsAreMade
<1>3. /\ maps' = ms
      /\ expressions' = [u \in DOMAIN expressions \cup Visited[v] |-> TermOf(u, ms)]
      /\ bounds' = bounds \cup BoundsOf(v, ms)
  BY DEF GetExpressionWith
<1> HIDE DEF ms
<1>4. /\ \A u \in Visited[v] : WellBuilt(TermOf(u, ms), ms, bounds')
      /\ \A b \in bounds' : WellBuilt(b.term, ms, bounds')
  BY <1>2, <1>3, ExpressionsAreWellBuilt
<1>5. ASSUME NEW u \in DOMAIN expressions
      PROVE  WellBuilt(TermOf(u, ms), ms, bounds')
  <2>1. TermOf(u, ms) = expressions[u]
    BY DEF TermOf
  <2>2. WellBuilt(expressions[u], maps, bounds)
    BY DEF IInv, TermsAreWellBuilt
  <2>3. QED
    BY <1>2, <1>3, <2>1, <2>2, MoreIsWellBuilt
<1>6. WellBuilt(condition, ms, bounds')
  BY <1>2, <1>3, MoreIsWellBuilt DEF IInv, TermsAreWellBuilt
<1>7. QueryIsWellBuilt(query, ms)
  BY <1>2, QueryStaysWellBuilt DEF IInv
<1>8. MapsAreMade(maps)'
  BY <1>2, <1>3 DEF MapsAreMade, ConstantOf
<1>9. DOMAIN expressions' \subseteq SSAValues /\ v \in DOMAIN expressions'
  BY <1>3, VisitedReaches DEF IInv, StateTypes
<1>10. \A u \in DOMAIN expressions' : WellBuilt(expressions'[u], ms, bounds')
  BY <1>3, <1>4, <1>5
<1>11. WellBuilt(TermOf(v, ms), ms, bounds')
  BY <1>4, VisitedReaches
<1>12. \A m \in Members : {WitnessKey(m), ConstraintKey(m)} \subseteq DOMAIN ms
  BY <1>1, <1>2 DEF Grows
<1>13. QED
  BY <1>1, <1>2, <1>3, <1>4, <1>6, <1>7, <1>8, <1>9, <1>10, <1>11, <1>12 DEF ms

LEMMA RegisterKeepsInv ==
  ASSUME IInv, NEW m \in Members, Register(m)
  PROVE  IInv'
<1> DEFINE c == MkConst(WitnessKey(m), << >>, maps)
           pair == {WitnessKey(m), ConstraintKey(m)}
<1>1. MapsAreMade(maps) /\ claimed' = claimed /\ m \in claimed /\ pc' = "register"
  BY DEF IInv, Register
<1>2. maps' = [k \in DOMAIN maps \cup pair |-> IF k \in DOMAIN maps THEN maps[k] ELSE c]
  BY DEF Register, AddEquivalentMember, InsertAt
<1>3. WitnessKey(m) \notin DOMAIN maps /\ ConstraintKey(m) \notin DOMAIN maps
  BY <1>1 DEF Register, MapsAreMade
<1>4. c = ConstantOf(WitnessKey(m)) /\ c = ConstantOf(ConstraintKey(m))
  <2>1. c = [map |-> "witness", of |-> m, name |-> m \o << >>, sort |-> MemberSort[m], nth |-> 0]
    <3>1. WitnessKey(m) \in AskableKeys
      BY MemberKeys
    <3>2. c = [map |-> WitnessKey(m).map, of |-> WitnessKey(m).of, name |-> BaseName(WitnessKey(m)) \o << >>,
               sort |-> WitnessKey(m).sort, nth |-> 0]
      BY <1>1, <1>3, <3>1, MadeFirst
    <3> HIDE DEF c
    <3>3. QED
      BY <3>2 DEF WitnessKey, Key, BaseName
  <2>2. QED
    BY <1>1, <2>1, MemberKeys DEF ConstantOf, WitnessKey, ConstraintKey, Key, BaseName
<1> HIDE DEF c
<1>5. Grows(maps, maps')
  BY <1>2 DEF Grows
<1>6. MapsAreMade(maps)'
  <2>1. DOMAIN maps' \subseteq AskableKeys
    BY <1>1, <1>2, MemberKeys DEF MapsAreMade
  <2>2. ASSUME NEW k \in DOMAIN maps' PROVE maps'[k] = ConstantOf(k)
    <3>1. CASE k \in DOMAIN maps
      BY <1>1, <1>2, <3>1 DEF MapsAreMade
    <3>2. CASE k \notin DOMAIN maps
      <4>1. k \in pair /\ maps'[k] = c
        BY <1>2, <3>2
      <4>2. QED
        BY <1>4, <4>1
    <3>3. QED
      BY <3>1, <3>2
  <2>3. \A n \in claimed : WitnessKey(n) \in DOMAIN maps' <=> ConstraintKey(n) \in DOMAIN maps'
    <3>1. ASSUME NEW n \in Members, n # m
          PROVE  /\ WitnessKey(n) \in DOMAIN maps' <=> WitnessKey(n) \in DOMAIN maps
                 /\ ConstraintKey(n) \in DOMAIN maps' <=> ConstraintKey(n) \in DOMAIN maps
      <4>1. WitnessKey(n) \notin pair /\ ConstraintKey(n) \notin pair
        BY <3>1 DEF WitnessKey, ConstraintKey, Key
      <4>2. QED
        BY <1>2, <4>1
    <3>2. WitnessKey(m) \in DOMAIN maps' /\ ConstraintKey(m) \in DOMAIN maps'
      BY <1>2
    <3>3. QED
      BY <1>1, <3>1, <3>2 DEF MapsAreMade, IInv, StateTypes
  <2>4. QED
    BY <1>1, <2>1, <2>2, <2>3 DEF MapsAreMade, ConstantOf
<1>7. TermsAreWellBuilt'
  BY <1>5, MoreIsWellBuilt DEF IInv, TermsAreWellBuilt, Register
<1>8. QueryIsWellBuilt(query, maps')
  BY <1>5, QueryStaysWellBuilt DEF IInv
<1>9. QED
  BY <1>1, <1>6, <1>7, <1>8 DEF IInv, StateTypes, SidesAreMade, Register

LEMMA GetPostconditionKeepsInv ==
  ASSUME IInv, GetPostcondition
  PROVE  IInv'
<1> DEFINE ks == UNION {{WitnessKey(m), ConstraintKey(m)} : m \in Members}
           ms == GetConstants(ks, maps)
<1>1. maps' = ms /\ condition' = SidesOf(Members, ms) /\ pc' = "walk"
      /\ UNCHANGED <<expressions, bounds, claimed, query, steps>>
  BY DEF GetPostcondition
<1>2. ks \subseteq AskableKeys /\ \A m \in Members : {WitnessKey(m), ConstraintKey(m)} \subseteq ks
  BY MemberKeys
<1>3. MapsAreMade(ms) /\ Grows(maps, ms) /\ ks \subseteq DOMAIN ms
  BY <1>2, ConstantsAreMade DEF IInv, StateTypes, GetPostcondition
<1> HIDE DEF ms, ks
<1>4. WellBuilt(condition', ms, bounds)
  BY <1>1, <1>2, <1>3, SidesAreWellBuilt
<1>5. TermsAreWellBuilt'
  BY <1>1, <1>3, <1>4, MoreIsWellBuilt DEF IInv, TermsAreWellBuilt
<1>6. QueryIsWellBuilt(query, maps')
  BY <1>1, <1>3, QueryStaysWellBuilt DEF IInv
<1>7. MapsAreMade(maps)'
  BY <1>1, <1>3 DEF MapsAreMade, ConstantOf
<1>8. SidesAreMade'
  BY <1>1, <1>2, <1>3 DEF SidesAreMade
<1>9. QED
  BY <1>1, <1>5, <1>6, <1>7, <1>8 DEF IInv, StateTypes

LEMMA StepsAreCounted ==
  ASSUME IInv, CountStep
  PROVE  steps' \in 0 .. MaxSteps
BY ProgramFacts DEF IInv, StateTypes, CountStep

LEMMA AddAntecedentKeepsInv ==
  ASSUME IInv, NEW v \in SSAValues, AddAntecedent(v)
  PROVE  IInv'
<1>1. /\ pc = "walk" /\ steps' \in 0 .. MaxSteps /\ condition' = condition \cup expressions'[v]
      /\ UNCHANGED <<claimed, query, pc>>
      /\ GetExpressionWith(v, GetConstants(KeysOf(v), maps))
  BY StepsAreCounted DEF AddAntecedent, GetExpression
<1>2. /\ MapsAreMade(maps)'
      /\ \A m \in Members : {WitnessKey(m), ConstraintKey(m)} \subseteq DOMAIN maps'
      /\ DOMAIN expressions' \subseteq SSAValues /\ v \in DOMAIN expressions'
      /\ \A u \in DOMAIN expressions' : WellBuilt(expressions'[u], maps', bounds')
      /\ \A b \in bounds' : WellBuilt(b.term, maps', bounds')
      /\ QueryIsWellBuilt(query, maps')
      /\ WellBuilt(condition, maps', bounds')
  BY <1>1, GetExpressionKeeps, KeysOfAreAskable
<1>3. WellBuilt(condition', maps', bounds')
  BY <1>1, <1>2 DEF WellBuilt, Defined
<1>4. TermsAreWellBuilt' /\ SidesAreMade'
  BY <1>2, <1>3 DEF TermsAreWellBuilt, SidesAreMade
<1>5. QED
  BY <1>1, <1>2, <1>4 DEF IInv, StateTypes

LEMMA SubstituteCallKeepsInv ==
  ASSUME IInv, NEW v \in SSAValues, SubstituteCall(v)
  PROVE  IInv'
<1> DEFINE ks == KeysOf(v) \cup {ValueKey(v)}
           ms == GetConstants(ks, maps)
<1>1. /\ pc = "walk" /\ steps' \in 0 .. MaxSteps
      /\ UNCHANGED <<claimed, query, pc>>
      /\ GetExpressionWith(v, ms)
      /\ condition' \subseteq condition \cup TermOf(v, ms)
  BY StepsAreCounted DEF SubstituteCall
<1>2. ks \in SUBSET AskableKeys /\ KeysOf(v) \subseteq ks
  BY KeysOfAreAskable
<1> HIDE DEF ks
<1>3. /\ MapsAreMade(maps)'
      /\ \A m \in Members : {WitnessKey(m), ConstraintKey(m)} \subseteq DOMAIN maps'
      /\ DOMAIN expressions' \subseteq SSAValues
      /\ \A u \in DOMAIN expressions' : WellBuilt(expressions'[u], maps', bounds')
      /\ WellBuilt(TermOf(v, ms), maps', bounds')
      /\ \A b \in bounds' : WellBuilt(b.term, maps', bounds')
      /\ QueryIsWellBuilt(query, maps')
      /\ WellBuilt(condition, maps', bounds')
  BY <1>1, <1>2, GetExpressionKeeps
<1>4. WellBuilt(condition', maps', bounds')
  BY <1>1, <1>3 DEF WellBuilt, Defined
<1>5. TermsAreWellBuilt' /\ SidesAreMade'
  BY <1>3, <1>4 DEF TermsAreWellBuilt, SidesAreMade
<1>6. QED
  BY <1>1, <1>3, <1>5 DEF IInv, StateTypes

LEMMA CheckInductiveKeepsInv ==
  ASSUME IInv, NEW m \in Members, NEW v \in SSAValues, CheckInductive(m, v)
  PROVE  IInv'
<1>1. /\ pc = "walk" /\ steps' \in 0 .. MaxSteps /\ UNCHANGED <<condition, claimed>>
      /\ GetExpressionWith(v, GetConstants(KeysOf(v), maps))
  BY StepsAreCounted DEF CheckInductive, GetExpression
<1>2. /\ MapsAreMade(maps) /\ MapsAreMade(maps)' /\ Grows(maps, maps')
      /\ \A n \in Members : {WitnessKey(n), ConstraintKey(n)} \subseteq DOMAIN maps'
      /\ DOMAIN expressions' \subseteq SSAValues /\ v \in DOMAIN expressions' /\ bounds \subseteq bounds'
      /\ \A u \in DOMAIN expressions' : WellBuilt(expressions'[u], maps', bounds')
      /\ \A b \in bounds' : WellBuilt(b.term, maps', bounds')
      /\ QueryIsWellBuilt(query, maps')
      /\ WellBuilt(condition, maps', bounds')
  BY <1>1, GetExpressionKeeps, KeysOfAreAskable
<1> DEFINE term == SidesOf({m}, maps) \cup expressions'[v]
<1>3. WellBuilt(term, maps', bounds')
  <2>1. WellBuilt(SidesOf({m}, maps), maps, bounds)
    BY <1>1, <1>2, SidesAreWellBuilt DEF IInv, SidesAreMade
  <2>2. WellBuilt(SidesOf({m}, maps), maps', bounds')
    BY <1>2, <2>1, MoreIsWellBuilt
  <2>3. QED
    BY <1>2, <2>2 DEF WellBuilt, Defined
<1>4. Ask(term, maps', bounds', "walk")
  BY DEF CheckInductive
<1> HIDE DEF term
<1>5. QueryIsWellBuilt(query', maps') /\ pc' \in {"walk", "aborted"}
  BY <1>2, <1>3, <1>4, AskKeeps
<1>6. TermsAreWellBuilt' /\ SidesAreMade'
  BY <1>1, <1>2 DEF TermsAreWellBuilt, SidesAreMade
<1>7. QED
  BY <1>1, <1>2, <1>5, <1>6 DEF IInv, StateTypes

LEMMA AssertInvariantKeepsInv ==
  ASSUME IInv, NEW ms \in SUBSET Members, AssertInvariant(ms)
  PROVE  IInv'
<1> DEFINE term == condition \cup SidesOf(ms, maps)
<1>1. /\ pc = "walk" /\ steps' \in 0 .. MaxSteps /\ condition' = SidesOf(ms, maps)
      /\ UNCHANGED <<maps, expressions, bounds, claimed>>
      /\ Ask(term, maps, bounds, "walk")
  BY StepsAreCounted DEF AssertInvariant
<1>2. WellBuilt(SidesOf(ms, maps), maps, bounds)
  BY <1>1, SidesAreWellBuilt DEF IInv, SidesAreMade
<1>3. WellBuilt(term, maps, bounds)
  BY <1>2 DEF WellBuilt, Defined, IInv, TermsAreWellBuilt
<1> HIDE DEF term
<1>4. QueryIsWellBuilt(query', maps) /\ pc' \in {"walk", "aborted"}
  BY <1>1, <1>3, AskKeeps DEF IInv, TermsAreWellBuilt
<1>5. TermsAreWellBuilt' /\ SidesAreMade' /\ MapsAreMade(maps)'
  BY <1>1, <1>2 DEF IInv, TermsAreWellBuilt, SidesAreMade, MapsAreMade, ConstantOf
<1>6. QED
  BY <1>1, <1>4, <1>5 DEF IInv, StateTypes

LEMMA EmitKeepsInv ==
  ASSUME IInv, Emit
  PROVE  IInv'
<1>1. /\ pc = "walk" /\ UNCHANGED <<maps, expressions, bounds, condition, claimed, steps>>
      /\ Ask(condition, maps, bounds, "done")
  BY DEF Emit
<1>2. QueryIsWellBuilt(query', maps) /\ pc' \in {"done", "aborted"}
  BY <1>1, AskKeeps DEF IInv, TermsAreWellBuilt
<1>3. TermsAreWellBuilt' /\ SidesAreMade' /\ MapsAreMade(maps)'
  BY <1>1, <1>2 DEF IInv, TermsAreWellBuilt, SidesAreMade, MapsAreMade, ConstantOf
<1>4. QED
  BY <1>1, <1>2, <1>3 DEF IInv, StateTypes

LEMMA InvariantHolds == Spec => []IInv
<1>1. IInv /\ UNCHANGED vars => IInv'
  BY DEF vars, IInv, StateTypes, MapsAreMade, ConstantOf, SidesAreMade, TermsAreWellBuilt
<1>2. IInv /\ Next => IInv'
  BY RegisterKeepsInv, GetPostconditionKeepsInv, AddAntecedentKeepsInv, SubstituteCallKeepsInv,
     CheckInductiveKeepsInv, AssertInvariantKeepsInv, EmitKeepsInv DEF Next
<1>3. QED
  BY InitiallyInv, <1>1, <1>2, PTL DEF Spec

-----------------------------------------------------------------------------
\* Every constant in the maps has the sort it was asked for, whatever the
\* program and however long the walk.
THEOREM TypeCorrect == Spec => []TypeOK
<1>1. IInv => TypeOK
  BY ConstantFields DEF IInv, StateTypes, MapsAreMade, TypeOK
<1>2. QED
  BY <1>1, InvariantHolds, PTL

\* A query mentions no constant of the builder that it does not declare, save
\* for template parameters.
THEOREM ConditionIsDeclaredHolds == Spec => []ConditionIsDeclared
<1>1. IInv => ConditionIsDeclared
  BY DEF IInv, QueryIsWellBuilt, ConditionIsDeclared
<1>2. QED
  BY <1>1, InvariantHolds, PTL

\* No query declares a name twice for one value or member: a key has one constant
\* for the whole run, and the two sides of a member share theirs or differ in the
\* last part of their names.
THEOREM ThingsAreDeclaredOnceHolds == Spec => []ThingsAreDeclaredOnce
<1>1. ASSUME IInv, NEW c \in query.declared, NEW d \in query.declared, Thing(c) = Thing(d), c.name = d.name
      PROVE  c = d
  <2>1. PICK k \in DOMAIN maps : k \in AskableKeys /\ c = ConstantOf(k) /\ k.map # "parameters"
    BY <1>1 DEF IInv, QueryIsWellBuilt, MapsAreMade
  <2>2. PICK l \in DOMAIN maps : l \in AskableKeys /\ d = ConstantOf(l) /\ l.map # "parameters"
    BY <1>1 DEF IInv, QueryIsWellBuilt, MapsAreMade
  <2>3. k.of = l.of /\ (c.map = "values" <=> d.map = "values")
    BY <1>1, <2>1, <2>2, ConstantFields DEF Thing
  <2>4. CASE k.map = "values"
    <3>1. ~Sided(k) /\ c.map = "values"
      BY <2>1, <2>4, ConstantFields DEF Sided
    <3>2. l.map = "values"
      BY <2>2, <2>3, <3>1, ConstantFields
    <3>3. QED
      BY <2>1, <2>2, <2>3, <2>4, <3>2, KeysAreUnique
  <2>5. CASE Sided(k)
    <3>1. k.of \in Members
      BY <2>1, <2>5, SidedKeys
    <3>2. l.map # "values"
      <4>1. c.map # "values"
        BY <2>1, <2>5, ConstantFields DEF Sided
      <4>2. l.map = "values" => d.map = "values"
        BY <2>2, ConstantFields DEF Sided
      <4>3. QED
        BY <2>3, <4>1, <4>2
    <3>3. Sided(l)
      BY <2>2, <3>2, KeysAreRecords DEF Sided
    <3>4. k.sort = l.sort
      BY <2>1, <2>2, <2>3, <2>5, <3>3, KeysAreRecords
    <3>5. CASE k.of \in claimed
      BY <2>1, <2>2, <2>3, <2>5, <3>3, <3>4, <3>5 DEF ConstantOf, BaseName, Sided
    <3>6. CASE k.of \notin claimed
      <4>1. k.of \o Suffix(k.map) = k.of \o Suffix(l.map)
        <5>1. c.name = BaseName(k) \o Suffix(k.map) /\ d.name = BaseName(l) \o Suffix(l.map)
          BY <2>1, <2>2, <2>3, <3>6, ConstantFields
        <5>2. BaseName(k) = k.of /\ BaseName(l) = k.of
          BY <2>3, <2>5, <3>3 DEF BaseName, Sided
        <5>3. QED
          BY <1>1, <5>1, <5>2
      <4>2. k.map = l.map
        <5>1. Suffix("witness") = <<"_w">> /\ Suffix("constraint") = <<"_c">>
          BY DEF Suffix
        <5>2. k.of \o <<"_w">> # k.of \o <<"_c">>
          BY <3>1, SuffixesDiffer
        <5>3. QED
          <6>1. ASSUME k.map # l.map PROVE FALSE
            <7>1. CASE k.map = "witness"
              <8>1. l.map = "constraint"
                BY <3>3, <6>1, <7>1 DEF Sided
              <8>2. QED
                BY <4>1, <5>1, <5>2, <7>1, <8>1
            <7>2. CASE k.map = "constraint"
              <8>1. l.map = "witness"
                BY <3>3, <6>1, <7>2 DEF Sided
              <8>2. QED
                BY <4>1, <5>1, <5>2, <7>2, <8>1
            <7>3. QED
              BY <2>5, <7>1, <7>2 DEF Sided
          <6>2. QED
            BY <6>1
      <4>3. k = l
        BY <2>1, <2>2, <2>3, <4>2, KeysAreUnique
      <4>4. QED
        BY <2>1, <2>2, <4>3
    <3>7. QED
      BY <3>5, <3>6
  <2>6. QED
    BY <2>1, <2>4, <2>5, KeysAreRecords DEF Sided
<1>2. IInv => ThingsAreDeclaredOnce
  BY <1>1 DEF ThingsAreDeclaredOnce
<1>3. QED
  BY <1>2, InvariantHolds, PTL

\* A member found equal is one constant in every query, whichever side asks for it.
THEOREM ClaimedMembersShareAConstantHolds == Spec => []ClaimedMembersShareAConstant
<1>1. ASSUME IInv, NEW c \in query.term, NEW d \in query.term,
             {c.map, d.map} \subseteq {"witness", "constraint"}, c.of = d.of, c.of \in claimed
      PROVE  c = d
  <2>1. PICK k \in DOMAIN maps : k \in AskableKeys /\ c = ConstantOf(k)
    BY <1>1 DEF IInv, QueryIsWellBuilt, WellBuilt, Made, MapsAreMade
  <2>2. PICK l \in DOMAIN maps : l \in AskableKeys /\ d = ConstantOf(l)
    BY <1>1 DEF IInv, QueryIsWellBuilt, WellBuilt, Made, MapsAreMade
  <2>3. Sided(k) /\ Sided(l) /\ k.of = c.of /\ l.of = d.of
    BY <1>1, <2>1, <2>2, ConstantFields DEF Sided
  <2>4. k.sort = l.sort
    BY <1>1, <2>1, <2>2, <2>3, KeysAreRecords
  <2>5. QED
    BY <1>1, <2>1, <2>2, <2>3, <2>4 DEF ConstantOf, BaseName, Sided
<1>2. IInv => ClaimedMembersShareAConstant
  BY <1>1 DEF ClaimedMembersShareAConstant
<1>3. QED
  BY <1>2, InvariantHolds, PTL

\* No query leaves a quotient free: each one it mentions, directly or through
\* the bound of another, is the result of one of its bounds.
THEOREM DivisionsAreDefinedHolds == Spec => []DivisionsAreDefined
<1>1. IInv => DivisionsAreDefined
  BY DEF IInv, QueryIsWellBuilt, WellBuilt, Defined, DivisionsAreDefined
<1>2. QED
  BY <1>1, InvariantHolds, PTL

\* A cached term never falls behind the maps.
THEOREM CachedTermsAreCurrentHolds == Spec => []CachedTermsAreCurrent
<1>1. IInv => CachedTermsAreCurrent
  BY DEF IInv, TermsAreWellBuilt, WellBuilt, CachedTermsAreCurrent
<1>2. QED
  BY <1>1, InvariantHolds, PTL
=============================================================================
