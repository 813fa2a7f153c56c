------------------------------ MODULE SymbolStore ------------------------------
(***************************************************************************)
(* The symbols of include/Analysis/SymbolImpls.h, their anti-unification,  *)
(* and Store<T>, the map from symbolic array locations to symbols that the *)
(* store analysis keeps (include/Analysis/Store.h).  Pure operators only.  *)
(*                                                                         *)
(* Arrays have one dimension, and of the six kinds of symbols three are    *)
(* kept: constants, template parameters and unknowns.  Those three decide  *)
(* aliasing and joins; OpCall and Index are compared by structure and may  *)
(* equal anything, which an opaque constant or unknown also shows.         *)
(***************************************************************************)
EXTENDS Integers, Sequences, FiniteSets, SequencesExt

CONSTANTS
  Values,   \* the felt values and the positions of an array
  Params    \* the template parameters of the struct

ASSUME ValuesAssumption == Values \subseteq Nat /\ 0 \in Values
ASSUME ParamsAssumption == IsFiniteSet(Params) /\ Params \subseteq Nat

(***************************************************************************)
(* A symbol is its kind, its contents, and which object it is: symbols are *)
(* pointers into a pool, operator== compares contents, but the memo of     *)
(* anti_unify compares pointers, and one constant made for @compute and    *)
(* one made for @constrain are two objects.                                *)
(***************************************************************************)
Constant(v, origin) == <<"const", v, origin>>
TemplParam(p) == <<"param", p, "any">>
Unknown(n) == <<"unknown", n, "any">>

IsUnknown(s) == s[1] = "unknown"
Equal(a, b) == a[1] = b[1] /\ a[2] = b[2]

\* Faulty: only symbols that are the same can be equal.
CanEqualIsEqual(a, b) == Equal(a, b)

\* Two constants, and two template parameters, are told apart by their
\* contents; every other pair may denote the same value.
CanEqual(a, b) == a[1] = b[1] /\ ~IsUnknown(a) => a[2] = b[2]

\* The symbols of values that a pool which has numbered n unknowns can have handed out.
Symbols(n) ==
  {Constant(v, o) : v \in Values, o \in {"compute", "constrain"}} \cup {Unknown(i) : i \in 0 .. n - 1}

\* What a symbol denotes in a run, given the template parameters and values for the unknowns.
Denotes(s, params, unknowns) ==
  CASE s[1] = "const"   -> s[2]
    [] s[1] = "whole"   -> 0
    [] s[1] = "param"   -> params[s[2]]
    [] s[1] = "unknown" -> unknowns[s[2]]

(***************************************************************************)
(* A pool of symbols: how many unknowns it has numbered, what the join     *)
(* under way has anti-unified (previousLookups restricted to its tag), and *)
(* a history variable: misjoins has "unknown" if it ever kept an unknown   *)
(* of one side for another symbol of the other side.                       *)
(***************************************************************************)

Learn(pool, a, b, sym) ==
  [pool EXCEPT !.memo = [p \in DOMAIN @ \cup {<<a, b>>} |-> IF p = <<a, b>> THEN sym ELSE @[p]]]

\* Faulty: what differs is not erased.
AntiUnifyKeepsFirst(pool, a, b) ==
  [sym |-> a, pool |-> Learn(pool, a, b, a)]

\* _anti_unify_impl on symbols without arguments: what the two sides do not
\* share becomes an unknown, a fresh one unless one side is one already.
AntiUnifyAfresh(pool, a, b) ==
  CASE Equal(a, b)  -> [sym |-> a, pool |-> Learn(pool, a, b, a)]
    [] ~Equal(a, b) /\ IsUnknown(a)
         -> [sym |-> a, pool |-> [Learn(pool, a, b, a) EXCEPT !.misjoins = {"unknown"}]]
    [] ~IsUnknown(a) /\ IsUnknown(b)
         -> [sym |-> b, pool |-> [Learn(pool, a, b, b) EXCEPT !.misjoins = {"unknown"}]]
    [] OTHER
         -> [sym  |-> Unknown(pool.next),
             pool |-> [Learn(pool, a, b, Unknown(pool.next)) EXCEPT !.next = @ + 1]]

AntiUnify(pool, a, b) ==
  IF <<a, b>> \in DOMAIN pool.memo
  THEN [sym |-> pool.memo[<<a, b>>], pool |-> pool]
  ELSE AntiUnifyAfresh(pool, a, b)

(***************************************************************************)
(* Store<T> of one array: a function from symbolic indices to symbols.     *)
(***************************************************************************)
NoEntries == <<>>

\* The entries a location may alias, itself apart.
Aliases(entries, key) == {k \in DOMAIN entries : k # key /\ CanEqual(key, k)}

\* Store::write with HavocAliases: every entry the location may alias becomes
\* an unknown of its own, then the location gets the symbol.
HavocWrite(pool, entries, key, sym) ==
  LET aliases == Aliases(entries, key)
      last    == pool.next + Cardinality(aliases) - 1
      fresh   == CHOOSE f \in [aliases -> pool.next .. last] : IsInjective(f)
  IN [entries |-> [k \in DOMAIN entries \cup {key} |->
                     IF k = key THEN sym
                     ELSE IF k \in aliases THEN Unknown(fresh[k])
                     ELSE entries[k]],
      pool    |-> [pool EXCEPT !.next = last + 1]]

\* StoreLattice::_write_impl: writing what is there already changes nothing.
WriteImpl(pool, entries, key, sym) ==
  IF key \in DOMAIN entries /\ Equal(entries[key], sym)
  THEN [entries |-> entries, pool |-> pool]
  ELSE HavocWrite(pool, entries, key, sym)

\* One turn of the loops of join_with: the entry at key is anti-unified with the entry of the other
\* store at k, if it may alias that.
JoinAlias(acc, key, k, other) ==
  IF k \in DOMAIN other /\ CanEqual(key, k) THEN AntiUnify(acc.pool, acc.sym, other[k]) ELSE acc

\* What join_with makes of the entry at key; `order' is the order in which the map of the other
\* store is iterated.
JoinEntry(pool, sym, key, other, order) ==
  LET acc[n \in 0 .. Len(order)] ==
        IF n = 0 THEN [sym |-> sym, pool |-> pool] ELSE JoinAlias(acc[n - 1], key, order[n], other)
  IN acc[Len(order)]

\* Faulty: an entry the other store lacks is kept.
KeptAll(mine, other) == DOMAIN mine

\* The entries join_with keeps: an entry the other store lacks is erased.
Kept(mine, other) == DOMAIN mine \cap DOMAIN other

\* Store::join_with, of all the arrays of two stores that have been written to.  mine and other
\* are their entries by array, places the locations <<array, key>> that are kept, in an order:
\* which, makes no difference but to the numbers of the unknowns.  orders has the order in which the
\* entries of each array of the other store are met.
JoinPlace(acc, place, mine, other, orders) ==
  LET joined == JoinEntry(acc.pool, mine[place[1]][place[2]], place[2], other[place[1]], orders[place[1]])
  IN [syms |-> [p \in DOMAIN acc.syms \cup {place} |-> IF p = place THEN joined.sym ELSE acc.syms[p]],
      pool |-> joined.pool]

JoinWith(pool, mine, other, places, orders) ==
  LET acc[n \in 0 .. Len(places)] ==
        IF n = 0 THEN [syms |-> <<>>, pool |-> pool]
        ELSE JoinPlace(acc[n - 1], places[n], mine, other, orders)
  IN acc[Len(places)]
=============================================================================
