---------------------------- MODULE TermBuilder ----------------------------
(***************************************************************************)
(* TermBuilder makes one cvc5 constant for what it is asked about, keeps   *)
(* it in one of four maps, and writes the declarations and bounds of a     *)
(* query.  Its client is the weakest precondition, here reduced to the     *)
(* order of its calls: members known to be equal, the postcondition,       *)
(* antecedents, the queries and the result of each loop, the output.       *)
(*                                                                         *)
(* A term is the set of the constants that occur in it.  mkConst makes a   *)
(* new object whatever name it is given: a constant is a record of the key *)
(* it was made for, the name it is printed by, its sort and how many that  *)
(* map had for the same key before.  A name is the sequence of its parts.  *)
(***************************************************************************)
EXTENDS Integers, FiniteSets, Sequences

CONSTANTS
  Members,    \* names of the members of the struct: arrays, integers or substructs, by MemberSort
  MemberSort,
  SSAValues,  \* values of the @product function
  Name,       \* printed for a value: that of an argument, or one that cvc5 invents
  Definition, \* the operation that defines each
  Operands,   \* the values it is applied to, earlier ones
  Subject,    \* the member read, the parameter named, or the member an array is written to
  MaxSteps    \* how many antecedents, queries and loops a run has

Sorts == {"int", "bool", "array", "struct"}
Definitions ==
  {"argument", "boolArgument", "counter", "literal", "arithmetic", "division", "parameter",
   "witnessRead", "constraintRead", "memberArray", "localArray", "subcomponent", "subcomponentRead"}

\* The type of a value.
ValueSort(v) ==
  CASE Definition[v] = "boolArgument" -> "bool"
    [] Definition[v] \in {"witnessRead", "constraintRead"} -> MemberSort[Subject[v]]
    [] Definition[v] \in {"memberArray", "localArray"} -> "array"
    [] Definition[v] = "subcomponent" -> "struct"
    [] OTHER -> "int"

\* The values are numbered in the order of the program, and typed: what a subcomponentRead reads is
\* a struct.  Nothing keeps the names of values and members apart.
ASSUME ProgramIsSSA ==
  /\ MaxSteps \in Nat
  /\ SSAValues \subseteq Nat /\ IsFiniteSet(SSAValues)
  /\ MemberSort \in [Members -> Sorts \ {"bool"}]
  /\ Members \subseteq Seq(STRING) /\ Name \in [SSAValues -> Seq(STRING)]
  /\ \A v \in SSAValues :
       /\ Definition[v] \in Definitions
       /\ Operands[v] \subseteq {u \in SSAValues : u < v}
       /\ Definition[v] \in {"witnessRead", "constraintRead", "memberArray"} => Subject[v] \in Members
       /\ Definition[v] = "subcomponentRead" => \A u \in Operands[v] : ValueSort(u) = "struct"

-----------------------------------------------------------------------------
(* What getExpression asks the maps for: the key of a map and its sort.     *)

Key(map, of, sort) == [map |-> map, of |-> of, sort |-> sort]
WitnessKey(m) == Key("witness", m, MemberSort[m])
ConstraintKey(m) == Key("constraint", m, MemberSort[m])
ValueKey(v) == Key("values", v, ValueSort(v))

\* The constants an operation brings in itself.  What is read from a subcomponent is a function
\* of the constant for it, not of the expression.
OwnKeys(v) ==
  CASE Definition[v] \in {"argument", "boolArgument", "counter", "division", "localArray"} -> {ValueKey(v)}
    [] Definition[v] = "parameter"         -> {Key("parameters", Subject[v], "int")}
    [] Definition[v] = "constraintRead"   -> {ConstraintKey(Subject[v])}
    [] Definition[v] \in {"witnessRead", "memberArray"} -> {WitnessKey(Subject[v])}
    [] Definition[v] = "subcomponentRead" -> {ValueKey(u) : u \in Operands[v]}
    [] OTHER                               -> {}

\* What a value leads to in the end, if its successors are the values next[v]: the least set with
\* v that is closed under next.
ReachedBy(next) ==
  LET closed == {U \in SUBSET SSAValues : \A u \in U : next[u] \subseteq U}
  IN [v \in SSAValues |-> {u \in SSAValues : \A U \in closed : v \in U => u \in U}]

\* Everything that getExpression visits on its way to a value.
Visited == ReachedBy([v \in SSAValues |-> IF Definition[v] = "subcomponentRead" THEN {} ELSE Operands[v]])

\* The values whose constants occur in its term.  A division is the constant for its result: its
\* operands occur in its bound only.
Inner ==
  ReachedBy([v \in SSAValues |-> IF Definition[v] \in {"division", "subcomponentRead"} THEN {} ELSE Operands[v]])

-----------------------------------------------------------------------------
VARIABLES
  maps,        \* from the keys asked for to their constants
  expressions, \* the terms of the values asked for
  bounds,      \* auxiliaryBounds
  condition,   \* the term of the current condition
  claimed,     \* members the symbolic store found equal
  query,       \* the last query written
  pc,          \* "register", "walk", "done", "aborted"
  steps

vars == <<maps, expressions, bounds, condition, claimed, query, pc, steps>>

\* Two maps may hold the same constant: that of an equivalent member.
Made(ms) == {ms[k] : k \in DOMAIN ms}

\* Faulty: the two sides of a member get the same name.
NoSuffix(map) == << >>

Suffix(map) == CASE map = "witness" -> <<"_w">> [] map = "constraint" -> <<"_c">> [] OTHER -> << >>

\* The maps of the members and of the parameters have names as keys.
BaseName(k) == IF k.map = "values" THEN Name[k.of] ELSE k.of

\* Faulty: every constant is an integer.
MkInteger(k, suffix, ms) ==
  [map |-> k.map, of |-> k.of, name |-> BaseName(k) \o suffix, sort |-> "int",
   nth |-> Cardinality({c \in Made(ms) : c.map = k.map /\ c.of = k.of})]

MkConst(k, suffix, ms) ==
  [map |-> k.map, of |-> k.of, name |-> BaseName(k) \o suffix, sort |-> k.sort,
   nth |-> Cardinality({c \in Made(ms) : c.map = k.map /\ c.of = k.of})]

\* Faulty: the constant is made and not kept.
MakeEachTime(ks, ms) ==
  [k \in DOMAIN ms \cup ks |-> IF k \in ks THEN MkConst(k, Suffix(k.map), ms) ELSE ms[k]]

\* The maps after getConstant was asked for ks.
GetConstants(ks, ms) ==
  [k \in DOMAIN ms \cup ks |-> IF k \in DOMAIN ms THEN ms[k] ELSE MkConst(k, Suffix(k.map), ms)]

KeysOf(v) == UNION {OwnKeys(u) : u \in Visited[v]}

\* A term with the constants of ms.  A value that has a term in the cache keeps it, and what that
\* is built from is cached, too.
TermOf(v, ms) ==
  UNION {IF u \in DOMAIN expressions THEN expressions[u] ELSE {ms[k] : k \in OwnKeys(u)} :
           u \in IF v \in DOMAIN expressions THEN {v} ELSE Inner[v]}

\* result * denominator = numerator, or result = 0 if the denominator is.
DivisionBound(v, ms) ==
  {ms[ValueKey(v)]} \cup UNION {TermOf(u, ms) : u \in Operands[v]}

\* Faulty: the definition of a division is added where it is first wanted, and not below.
BoundsOfRoot(v, ms) ==
  IF Definition[v] = "division" THEN {[result |-> ms[ValueKey(v)], term |-> DivisionBound(v, ms)]} ELSE {}

BoundsOf(v, ms) ==
  {[result |-> ms[ValueKey(u)], term |-> DivisionBound(u, ms)] :
     u \in {u \in Visited[v] \ DOMAIN expressions : Definition[u] = "division"}}

\* getExpression(v): new constants, terms of everything visited, definitions of new divisions.
GetExpressionWith(v, ms) ==
  /\ maps' = ms
  /\ expressions' = [u \in DOMAIN expressions \cup Visited[v] |-> TermOf(u, ms)]
  /\ bounds' = bounds \cup BoundsOf(v, ms)
GetExpression(v) == GetExpressionWith(v, GetConstants(KeysOf(v), maps))

-----------------------------------------------------------------------------
(* Queries.                                                                 *)

\* Faulty: the constrained side is forgotten.
WitnessDecls(term, ms) ==
  {c \in term : \E k \in DOMAIN ms : k.map \in {"values", "witness"} /\ ms[k] = c}

\* The parameters' map is not among those searched.
GetExtraDecls(term, ms) ==
  {c \in term : \E k \in DOMAIN ms : k.map # "parameters" /\ ms[k] = c}

\* A substruct needs none, and ensure() stops the program at a Boolean.
GetDeclBounds(decls) == {c \in decls : c.sort # "struct"}
CannotBound(decls) == \E c \in decls : c.sort = "bool"

\* buildSMTQuery, which emit() repeats, and what it leaves behind.
BuildSMTQuery(term, ms, bs) ==
  LET decls == GetExtraDecls(term, ms)
  IN query' = [term |-> term, declared |-> decls, bounded |-> GetDeclBounds(decls), divisions |-> bs]

Ask(term, ms, bs, next) ==
  IF CannotBound(GetExtraDecls(term, ms)) THEN pc' = "aborted" /\ UNCHANGED query
  ELSE pc' = next /\ BuildSMTQuery(term, ms, bs)

NoQuery == [term |-> {}, declared |-> {}, bounded |-> {}, divisions |-> {}]

SidesOf(members, ms) == UNION {{ms[WitnessKey(m)], ms[ConstraintKey(m)]} : m \in members}

Init ==
  /\ maps = [k \in {} |-> {}] /\ expressions = [v \in {} |-> {}]
  /\ bounds = {} /\ condition = {}
  /\ claimed \in SUBSET Members
  /\ query = NoQuery /\ pc = "register" /\ steps = 0

\* insert() keeps an entry that is there.
InsertAt(ks, c) == maps' = [k \in DOMAIN maps \cup ks |-> IF k \in DOMAIN maps THEN maps[k] ELSE c]

\* Faulty: only the witness map gets the constant.
RegisterWitness(m) == InsertAt({WitnessKey(m)}, MkConst(WitnessKey(m), << >>, maps))

\* One constant for both maps.
AddEquivalentMember(m) == InsertAt({WitnessKey(m), ConstraintKey(m)}, MkConst(WitnessKey(m), << >>, maps))

Register(m) ==
  /\ pc = "register"
  /\ m \in claimed /\ WitnessKey(m) \notin DOMAIN maps
  /\ AddEquivalentMember(m)
  /\ UNCHANGED <<expressions, bounds, condition, claimed, query, pc, steps>>

GetPostcondition ==
  /\ pc = "register"
  /\ \A m \in claimed : WitnessKey(m) \in DOMAIN maps
  /\ LET ms == GetConstants(UNION {{WitnessKey(m), ConstraintKey(m)} : m \in Members}, maps)
     IN maps' = ms /\ condition' = SidesOf(Members, ms)
  /\ pc' = "walk"
  /\ UNCHANGED <<expressions, bounds, claimed, query, steps>>

CountStep == steps < MaxSteps /\ steps' = steps + 1

\* An operation of the program adds what it says as an antecedent.
AddAntecedent(v) ==
  /\ pc = "walk" /\ CountStep
  /\ GetExpression(v)
  /\ condition' = condition \cup expressions'[v]
  /\ UNCHANGED <<claimed, query, pc>>

\* Is it inductive that m is equal on both sides, for a body that uses v?
CheckInductive(m, v) ==
  /\ pc = "walk" /\ CountStep
  /\ GetExpression(v)
  /\ Ask(SidesOf({m}, maps) \cup expressions'[v], maps', bounds', "walk")
  /\ UNCHANGED <<condition, claimed>>

\* A loop is done: the condition is now about the members the loop writes, and those of which the
\* failing core speaks.
AssertInvariant(ms) ==
  /\ pc = "walk" /\ CountStep
  /\ Ask(condition \cup SidesOf(ms, maps), maps, bounds, "walk")
  /\ condition' = SidesOf(ms, maps)
  /\ UNCHANGED <<maps, expressions, bounds, claimed>>

\* A call of @compute: the constant for its result gives way to the term built from its arguments.
SubstituteCall(v) ==
  /\ pc = "walk" /\ CountStep /\ Definition[v] = "subcomponent"
  /\ LET ms == GetConstants(KeysOf(v) \cup {ValueKey(v)}, maps)
         c == ms[ValueKey(v)]
     IN /\ GetExpressionWith(v, ms)
        /\ condition' = IF c \in condition THEN (condition \ {c}) \cup TermOf(v, ms) ELSE condition
  /\ UNCHANGED <<claimed, query, pc>>

Emit ==
  /\ pc = "walk"
  /\ Ask(condition, maps, bounds, "done")
  /\ UNCHANGED <<maps, expressions, bounds, condition, claimed, steps>>

Next ==
  \/ \E m \in Members : Register(m)
  \/ GetPostcondition
  \/ \E v \in SSAValues : AddAntecedent(v)
  \/ \E v \in SSAValues : SubstituteCall(v)
  \/ \E m \in Members, v \in SSAValues : CheckInductive(m, v)
  \/ \E ms \in SUBSET Members : AssertInvariant(ms)
  \/ Emit

Spec == Init /\ [][Next]_vars

-----------------------------------------------------------------------------
\* The maps hold constants of the sort they are asked for, which cvc5 checks only when it is used.
TypeOK ==
  /\ \A k \in DOMAIN maps : maps[k].sort = k.sort
  /\ DOMAIN expressions \subseteq SSAValues
  /\ claimed \subseteq Members /\ steps \in 0 .. MaxSteps
  /\ pc \in {"register", "walk", "done", "aborted"}

\* Whatever the order of the calls, a constant of the condition that the builder tracks is declared:
\* only template parameters are not, since their map is not searched.
ConditionIsDeclared ==
  \A c \in query.term \ query.declared : \E k \in DOMAIN maps : maps[k] = c /\ k.map = "parameters"

\* What a constant stands for: a value, or a member on whichever side.
Thing(c) == <<IF c.map = "values" THEN "value" ELSE "member", c.of>>

\* No query declares a name twice for one thing: each cache lookup that should hit does, and the two
\* sides of a member that are two constants have two names.
ThingsAreDeclaredOnce ==
  \A c, d \in query.declared : Thing(c) = Thing(d) /\ c.name = d.name => c = d

\* README.md:108 calls the query one "that can be sent directly to an SMT solver", which refuses a
\* second declaration of a name.  It has one when a member is named like a side of another.
NamesAreDeclaredOnce ==
  \A c, d \in query.declared : c.name = d.name => c = d

\* A member the symbolic store found equal is one constant, on whichever side it is asked for and
\* whether as a read, as the array later written to it or in the postcondition.
ClaimedMembersShareAConstant ==
  \A c, d \in query.term :
    {c.map, d.map} \subseteq {"witness", "constraint"} /\ c.of = d.of /\ c.of \in claimed => c = d

\* The result of a division is a free constant but for its bound: every query that mentions one,
\* also through the bound of another, asserts that bound, however long ago it was built.
DivisionsAreDefined ==
  \A v \in SSAValues :
    Definition[v] = "division" =>
      \A c \in query.term \cup UNION {b.term : b \in query.divisions} :
        c.map = "values" /\ c.of = v => \E b \in query.divisions : b.result = c

\* A cached term is built from the constants the maps hold now: no later registration or lookup
\* leaves it with a constant of its own that no declaration would name.
CachedTermsAreCurrent ==
  \A v \in DOMAIN expressions : expressions[v] \subseteq Made(maps)
=============================================================================
