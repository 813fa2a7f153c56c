------------------------ MODULE SymbolicStoreAnalysis ------------------------
(***************************************************************************)
(* The dataflow analysis that fills the symbolic store                     *)
(* (lib/Analysis/SymbolicStoreAnalysis.cpp), run beside the program it     *)
(* analyses: one action visits one operation of the product function and   *)
(* also executes it, in one concrete run of that function.  An scf.if is    *)
(* visited in both of its branches and executed in one.                    *)
(*                                                                         *)
(* The program is any sequence of at most MaxOps operations on the arrays   *)
(* of the function and on one member, written by @compute as the witness    *)
(* and constrained by @constrain; the if is at its top level.  A felt value *)
(* an operation uses is a constant, the result of the last array.read, or   *)
(* the induction variable of the loop the program is the body of, which     *)
(* the analysis knows as unknown number 0.                                  *)
(***************************************************************************)
EXTENDS SymbolStore

CONSTANTS
  Arrays,        \* the SSA arrays the function allocates
  ConstIndices,  \* the constants it uses as indices
  MaxOps, MaxIfs \* bounds on the length of the program

ASSUME ArraysAssumption == IsFiniteSet(Arrays) /\ Arrays \cap {"witness", "constraint"} = {}
ASSUME ConstIndicesAssumption == IsFiniteSet(ConstIndices) /\ ConstIndices \subseteq Values
ASSUME MaxOpsAssumption == MaxOps \in Nat /\ MaxIfs \in Nat

VARIABLES
  scalar,     \* is the member a felt, or an array of felts?
  params,     \* the concrete value of every template parameter
  induction,  \* the concrete value of the induction variable
  memory,     \* what the arrays hold and what the member's two sides are
  result,     \* the result of the last array.read, and its symbol
  lattice,    \* the StoreLattice after the operation visited last
  pool,       \* the pool of symbols
  block,      \* where the visit is: at the top level or in a branch
  taken,      \* the branch the run takes
  before,     \* the lattice and the result's symbol before the if
  joined,     \* the lattice and the result's symbol after it, so far
  misjoins,   \* history: what went wrong, or was lost, in the joins so far
  ops, ifs    \* operations and ifs visited so far

run == <<scalar, params, induction, memory>>
vars == <<run, result, lattice, pool, block, taken, before, joined, misjoins, ops, ifs>>

\* The two arrays of the member, and the stores all arrays are kept in.
Witness == "witness"
Constraint == "constraint"
Names == Arrays \cup {Witness, Constraint}
StoreOf(name) == IF name \in Arrays THEN "valueStore" ELSE "signalStore"
Stores == {"valueStore", "signalStore"}

\* An element of an array that nothing has written, or an element of the
\* member that nothing constrains yet: a run may go on with any value of it.
Free == -1

\* A lattice element: the entries by array, and what has its `initialized' flag set: the element
\* itself, and the stores that were ever written to.
Element == "lattice"
Bottom == [entries |-> [name \in Names |-> NoEntries], initialized |-> {}]
Initialized(l) == Element \in l.initialized

Induction == Unknown(0)
IndexSymbols == {Constant(v, "any") : v \in ConstIndices}
                  \cup {TemplParam(p) : p \in Params} \cup {Induction}

\* The locations of the member: a felt has one, with no index.
Whole == <<"whole", 0, "any">>
MemberLocations == IF scalar THEN {Whole} ELSE IndexSymbols

\* The orders in which the hash map of a store may meet the entries of an array, and those in
\* which a join may meet the entries of each array of the other lattice that it has entries for.
OrdersOf(l, name) == SetToSeqs(DOMAIN l.entries[name])
OrdersMet(mine, rhs, name) == IF DOMAIN mine.entries[name] = {} THEN {<<>>} ELSE OrdersOf(rhs, name)
JoinOrders(mine, rhs) ==
  {orders \in [Names -> UNION {OrdersMet(mine, rhs, name) : name \in Names}] :
     \A name \in Names : orders[name] \in OrdersMet(mine, rhs, name)}

ConstantsOf(function) == {Constant(v, function) : v \in Values}

\* A symbol the program itself can name denotes one value in a run.
ValueOf(s) == Denotes(s, params, [n \in {0} |-> induction])

IsSymbol(s) == s \in Symbols(pool.next)

IsLattice(l) ==
  /\ DOMAIN l.entries = Names /\ l.initialized \in SUBSET (Stores \cup {Element})
  /\ \A name \in Names :
       /\ DOMAIN l.entries[name] \subseteq IF name \in Arrays THEN IndexSymbols ELSE MemberLocations
       /\ \A k \in DOMAIN l.entries[name] : IsSymbol(l.entries[name][k])
       /\ DOMAIN l.entries[name] # {} => StoreOf(name) \in l.initialized
  /\ l.initialized # {} => Initialized(l)

TypeOK ==
  /\ scalar \in BOOLEAN
  /\ params \in [Params -> Values]
  /\ induction \in Values
  /\ memory \in [Names -> [Values -> Values \cup {Free}]]
  /\ result.value \in Values /\ IsSymbol(result.symbol)
  /\ IsLattice(lattice)
  /\ pool.next \in Nat /\ pool.memo = <<>> /\ pool.misjoins = {}
  /\ block \in {"top", "then", "else"}
  /\ taken \in {"then", "else"}
  /\ IsLattice(before.lattice) /\ IsSymbol(before.symbol)
  /\ IsLattice(joined.lattice) /\ IsSymbol(joined.symbol)
  /\ misjoins \in SUBSET {"unknown", "uninitialized", "erased"}
  /\ ops \in 0 .. MaxOps /\ ifs \in 0 .. MaxIfs

NotInIf == [lattice |-> Bottom, symbol |-> Constant(0, "compute")]

\* Until the first array.read, its result is a felt constant.
Init ==
  /\ scalar \in BOOLEAN
  /\ params \in [Params -> Values]
  /\ induction \in Values
  /\ memory = [name \in Names |-> [v \in Values |-> Free]]
  /\ result = [value |-> 0, symbol |-> Constant(0, "compute")]
  /\ lattice = Bottom
  /\ pool = [next |-> 1, memo |-> <<>>, misjoins |-> {}]
  /\ block = "top"
  /\ taken = "then"
  /\ before = NotInIf /\ joined = NotInIf
  /\ misjoins = {}
  /\ ops = 0 /\ ifs = 0

(***************************************************************************)
(* Operations                                                              *)
(***************************************************************************)
Executed == block \in {"top", taken}
Counted == ops < MaxOps /\ ops' = ops + 1

\* Faulty: a write does not mark the store as written to.
WriteUnmarked(l, p, name, key, sym) ==
  LET w == WriteImpl(p, l.entries[name], key, sym)
  IN [lattice |-> [l EXCEPT !.entries[name] = w.entries, !.initialized = @ \cup {Element}], pool |-> w.pool]

\* StoreLattice::write.
Write(l, p, name, key, sym) ==
  LET w == WriteImpl(p, l.entries[name], key, sym)
  IN [lattice |-> [entries     |-> [l.entries EXCEPT ![name] = w.entries],
                   initialized |-> l.initialized \cup {Element, StoreOf(name)}],
      pool    |-> w.pool]

Store(name, key, value) ==
  memory' = IF Executed THEN [memory EXCEPT ![name][ValueOf(key)] = value] ELSE memory

\* The values the element of an array may have in this run.
Contents(name, key) ==
  LET cell == memory[name][ValueOf(key)]
  IN IF cell = Free THEN Values ELSE {cell}

\* The felt values of @compute, with their symbols.
Operands ==
  {[symbol |-> c, value |-> ValueOf(c)] : c \in ConstantsOf("compute") \cup {Induction}} \cup {result}

\* array.write %a[key] = operand
WriteArray(a, key, operand) ==
  /\ Counted
  /\ LET w == Write(lattice, pool, a, key, operand.symbol)
     IN lattice' = w.lattice /\ pool' = w.pool
  /\ Store(a, key, operand.value)
  /\ UNCHANGED <<scalar, params, induction, result, block, taken, before, joined, misjoins, ifs>>

\* array.read %a[key], in @compute: what was never written is an unknown of
\* the analysis, and any value in the run.
ReadArray(a, key) ==
  /\ Counted
  /\ LET entries == lattice.entries[a]
         known   == Initialized(lattice) /\ key \in DOMAIN entries
         symbol  == IF known THEN entries[key] ELSE Unknown(pool.next)
     IN /\ \E value \in IF Executed THEN Contents(a, key) ELSE {result.value} :
             /\ result' = [symbol |-> symbol, value |-> value]
             /\ Store(a, key, value)
        /\ pool' = IF known THEN pool ELSE [pool EXCEPT !.next = @ + 1]
        /\ lattice' =
             [entries     |-> [lattice.entries EXCEPT ![a] =
                                 [k \in DOMAIN @ \cup {key} |-> IF k = key THEN symbol ELSE @[k]]],
              initialized |-> lattice.initialized \cup {Element, "valueStore"}]
  /\ UNCHANGED <<scalar, params, induction, block, taken, before, joined, misjoins, ifs>>

\* struct.writem %self[member] = operand, a felt.
ScalarMemberWrite(operand) ==
  /\ scalar /\ Counted
  /\ LET w == Write(lattice, pool, Witness, Whole, operand.symbol)
     IN lattice' = w.lattice /\ pool' = w.pool
  /\ Store(Witness, Whole, operand.value)
  /\ UNCHANGED <<scalar, params, induction, result, block, taken, before, joined, misjoins, ifs>>

\* The entries of an array, written one by one in an order.
WriteEntries(l, p, name, entries, order) ==
  LET acc[n \in 0 .. Len(order)] ==
        IF n = 0 THEN [lattice |-> l, pool |-> p]
        ELSE Write(acc[n - 1].lattice, acc[n - 1].pool, name, order[n], entries[order[n]])
  IN acc[Len(order)]

\* struct.writem %self[member] = %a: in the order of the value store.
ArrayMemberWrite(a, order) ==
  /\ ~scalar /\ Counted
  /\ LET w == WriteEntries(lattice, pool, Witness, lattice.entries[a], order)
     IN lattice' = w.lattice /\ pool' = w.pool
  /\ memory' = IF Executed THEN [memory EXCEPT ![Witness] = memory[a]] ELSE memory
  /\ UNCHANGED <<scalar, params, induction, result, block, taken, before, joined, misjoins, ifs>>

\* constrain.eq of an element of the member with a felt value of @constrain.
\* It is a constraint: only the runs that satisfy it go on.
EmitEquality(key, operand) ==
  /\ Counted
  /\ Executed => ValueOf(operand) \in Contents(Constraint, key)
  /\ Store(Constraint, key, ValueOf(operand))
  /\ LET w == Write(lattice, pool, Constraint, key, operand)
     IN lattice' = w.lattice /\ pool' = w.pool
  /\ UNCHANGED <<scalar, params, induction, result, block, taken, before, joined, misjoins, ifs>>

(***************************************************************************)
(* The two branches of an scf.if and their join                            *)
(***************************************************************************)
\* Store::join_with of both stores: nothing happens to one unless both sides have written to it.
JoinStores(mine, rhs, p, orders) ==
  LET merged     == {name \in Names : StoreOf(name) \in mine.initialized \cap rhs.initialized}
      kept(name) == Kept(mine.entries[name], rhs.entries[name])
      places     == SetToSeq(UNION {{name} \X kept(name) : name \in merged})
      j          == JoinWith(p, mine.entries, rhs.entries, places, orders)
  IN [lattice |-> [mine EXCEPT !.entries =
                     [name \in Names |-> IF name \in merged THEN [k \in kept(name) |-> j.syms[<<name, k>>]]
                                         ELSE @[name]]],
      pool    |-> j.pool]

SameEntries(mine, rhs) ==
  \A name \in Names :
    /\ DOMAIN mine.entries[name] = DOMAIN rhs.entries[name]
    /\ \A k \in DOMAIN mine.entries[name] : Equal(mine.entries[name][k], rhs.entries[name][k])

\* StoreLattice::join.
LatticeJoin(mine, rhs, p, orders) ==
  CASE ~Initialized(rhs) ->
         [lattice |-> [mine EXCEPT !.entries = [name \in Names |-> NoEntries]], pool |-> p]
    [] Initialized(rhs) /\ ~Initialized(mine) -> [lattice |-> rhs, pool |-> p]
    [] Initialized(rhs) /\ Initialized(mine) /\ SameEntries(mine, rhs) -> [lattice |-> mine, pool |-> p]
    [] OTHER -> JoinStores(mine, rhs, p, orders)

\* The joins that keep entries only one branch has, because what the other
\* branch left is taken for a state not visited yet.
OneSided(mine, rhs) ==
  /\ Initialized(rhs)
  /\ \/ ~Initialized(mine)
     \/ \E name \in Names : DOMAIN mine.entries[name] # {} /\ StoreOf(name) \notin rhs.initialized

\* The joins that leave nothing of what @compute wrote at a location in one of the branches.
Erases(mine, rhs, after) ==
  \E name \in Names \ {Constraint} :
    ~(DOMAIN mine.entries[name] \cup DOMAIN rhs.entries[name] \subseteq DOMAIN after.entries[name])

BeginIf ==
  /\ block = "top" /\ ifs < MaxIfs
  /\ block' = "then" /\ ifs' = ifs + 1
  /\ taken' \in {"then", "else"}
  /\ before' = [lattice |-> lattice, symbol |-> result.symbol]
  /\ UNCHANGED <<run, result, lattice, pool, joined, misjoins, ops>>

\* The first yield finds nothing in the lattice after the if and goes in as
\* it is; the other branch is then visited from the lattice before the if.
ThenYields ==
  /\ block = "then"
  /\ block' = "else"
  /\ joined' = [lattice |-> LatticeJoin(Bottom, lattice, pool, <<>>).lattice, symbol |-> result.symbol]
  /\ lattice' = before.lattice
  /\ result' = [result EXCEPT !.symbol = before.symbol]
  /\ UNCHANGED <<run, pool, taken, before, misjoins, ops, ifs>>

\* The second yield is joined with the first, stores and results alike.
ElseYields(orders) ==
  /\ block = "else"
  /\ LET j == LatticeJoin(joined.lattice, lattice, pool, orders)
         r == AntiUnify(j.pool, joined.symbol, result.symbol)
     IN /\ lattice' = j.lattice
        /\ result' = [result EXCEPT !.symbol = r.sym]
        /\ pool' = [next |-> r.pool.next, memo |-> <<>>, misjoins |-> {}]
        /\ misjoins' = misjoins \cup r.pool.misjoins
             \cup (IF OneSided(joined.lattice, lattice) THEN {"uninitialized"} ELSE {})
             \cup (IF Erases(joined.lattice, lattice, j.lattice) THEN {"erased"} ELSE {})
  /\ block' = "top" /\ taken' = "then"
  /\ before' = NotInIf /\ joined' = NotInIf
  /\ UNCHANGED <<run, ops, ifs>>

Next ==
  \/ \E a \in Arrays, key \in IndexSymbols, operand \in Operands : WriteArray(a, key, operand)
  \/ \E a \in Arrays, key \in IndexSymbols : ReadArray(a, key)
  \/ \E operand \in Operands : ScalarMemberWrite(operand)
  \/ \E a \in Arrays : \E order \in OrdersOf(lattice, a) : ArrayMemberWrite(a, order)
  \/ \E key \in MemberLocations, operand \in ConstantsOf("constrain") \cup {Induction} :
       EmitEquality(key, operand)
  \/ BeginIf
  \/ ThenYields
  \/ \E orders \in JoinOrders(joined.lattice, lattice) : ElseYields(orders)

Spec == Init /\ [][Next]_vars

(***************************************************************************)
(* Properties                                                              *)
(***************************************************************************)
UnknownsIn(l, symbol) ==
  LET used == {symbol, Induction}
                \cup (UNION {DOMAIN l.entries[name] : name \in Names})
                \cup (UNION {{l.entries[name][k] : k \in DOMAIN l.entries[name]} : name \in Names})
  IN {s[2] : s \in {t \in used : IsUnknown(t)}}

\* The run is one of those the lattice describes: the unknowns have values
\* for which every entry is what the array holds.
Describes(l, symbol) ==
  \E unknowns \in [UnknownsIn(l, symbol) -> Values] :
    /\ unknowns[0] = induction
    /\ Denotes(symbol, params, unknowns) = result.value
    /\ \A name \in Names : \A k \in DOMAIN l.entries[name] :
         memory[name][Denotes(k, params, unknowns)] = Denotes(l.entries[name][k], params, unknowns)

\* SymbolicVerifier::areEquivalent, on the lattice at hand.
AreEquivalent ==
  LET w == lattice.entries[Witness]
      c == lattice.entries[Constraint]
  IN DOMAIN w = DOMAIN c /\ \A k \in DOMAIN w : Equal(w[k], c[k])

\* Where @compute has set the witness, the constraints leave no other value.
EqualSides == \A v \in Values : memory[Witness][v] \in {Free, memory[Constraint][v]}

\* As long as no join went wrong, the symbolic store describes the run: an
\* aliased write, a read of something unwritten, the copy of an array into
\* a member and the join of two branches leave no entry that is false.
StoreDescribesRun ==
  Executed /\ misjoins \subseteq {"erased"} => Describes(lattice, result.symbol)

\* As long as no join went wrong or lost a location that @compute wrote, areEquivalent
\* accepts only a member whose two sides are equal in every run that satisfies the
\* constraints, whether or not the store has an entry where they are.
EquivalentMeansEqual ==
  block = "top" /\ misjoins = {} /\ AreEquivalent => EqualSides

\* The same, when a join lost what the branches wrote to the member: if both sides are lost, there
\* is no index left to compare.
ErasedJoinsKeepSidesEqual ==
  block = "top" /\ misjoins \subseteq {"erased"} /\ AreEquivalent => EqualSides

\* The same, when an unknown of one branch was kept for a symbol of the other.
UnknownJoinsKeepSidesEqual ==
  block = "top" /\ misjoins \subseteq {"unknown"} /\ AreEquivalent => EqualSides

\* The same, when one branch had left a state taken for not visited yet.
EmptyBranchesKeepSidesEqual ==
  block = "top" /\ misjoins \subseteq {"uninitialized"} /\ AreEquivalent => EqualSides

=============================================================================
