------------------------ MODULE WeakestPrecondition ------------------------
(***************************************************************************)
(* The search of `lleq wp` for loop invariants: calculateWP walks the      *)
(* product program backwards, computeInvariant asks the solver portfolio   *)
(* which equalities a loop keeps, and the condition that reaches the top   *)
(* is printed for a solver.  Beside it stands the execution of the same    *)
(* program, of which the condition speaks.                                 *)
(*                                                                         *)
(* A cvc5 term is a record, and a solver's query is decided by evaluating  *)
(* it in every interpretation of its constants: two values per array       *)
(* element (w computed by @compute, c constrained by @constrain), the loop *)
(* counters, the input and the local array.                                *)
(***************************************************************************)
EXTENDS Integers, Sequences, FiniteSets, Functions

CONSTANTS
  Members,     \* array members of the struct, each written by @compute and constrained by @constrain
  Extent,      \* their one dimension
  Values,      \* the field
  Programs     \* product programs, sequences of statements

ASSUME SizesAreFinite ==
  Extent \in Nat \ {0} /\ IsFiniteSet(Members) /\ IsFiniteSet(Values)

Indices == 0 .. Extent - 1

\* The results of a loop of n turns, the state before them at 0.
Turns(turn(_, _), n, start) ==
  LET result[i \in 0 .. n] == IF i = 0 THEN start ELSE turn(result[i - 1], i)
  IN result

-----------------------------------------------------------------------------
(* Programs.  An index is a constant or the counter of a dimension (dim) of *)
(* the d around it; a value is a constant, the input, what was read from    *)
(* the local array, or an element of the same side.  The local array holds  *)
(* no element of a member.                                                  *)

Places(d) == [dim : 0 .. d, ix : Indices]
Scalars == [from : {"const"}, is : Values] \cup [from : {"input"}] \cup [from : {"local"}]
ValueTerms(d) == Scalars \cup [from : {"member"}, member : Members, at : Places(d)]
Conditions(d) == {"input"} \cup {cond \in {"first"} : d > 0}

Operations(d) ==
  [op : {"write", "eq"}, member : Members, at : Places(d), val : ValueTerms(d)]
    \cup [op : {"writeLocal", "readLocal"}, val : Scalars]
Statements(d) ==
  Operations(d)
    \cup [op : {"if"}, cond : Conditions(d), then : Seq(Operations(d)), else : Seq(Operations(d))]

\* A nest is a sequence of ranges, outermost first.
Nests == Seq([lb : 0 .. Extent, ub : 0 .. Extent, step : Nat \ {0}]) \ {<<>>}
IsLoop(s) == s.op = "for" /\ s.ranges \in Nests /\ s.body \in Seq(Statements(Len(s.ranges)))

ASSUME ProgramsAreWellFormed ==
  \A p \in Programs :
    /\ Len(p) \in Nat /\ DOMAIN p = 1 .. Len(p)
    /\ \A i \in DOMAIN p : p[i] \in Statements(0) \/ IsLoop(p[i])

\* One value more than any loop reaches stands for every tuple outside the nest.
Counters(rs) == [DOMAIN rs -> 0 .. Extent]
Memories == [Members -> [Indices -> Values]]

-----------------------------------------------------------------------------
(* Loop nests; x and k are tuples of counters.                              *)

ValueInRange(v, r) == r.lb <= v /\ v < r.ub /\ (v - r.lb) % r.step = 0

CanAdvance(k, rs, d) == k[d] + rs[d].step < rs[d].ub

\* After the last tuple there is none: the successor is the tuple itself.
Successor(k, rs) ==
  [d \in DOMAIN k |->
    LET carries == {e \in DOMAIN k : /\ CanAdvance(k, rs, e)
                                     /\ \A inner \in e + 1 .. Len(k) : ~CanAdvance(k, rs, inner)}
    IN IF \A e \in carries : d < e THEN k[d]
       ELSE IF d \in carries THEN k[d] + rs[d].step
       ELSE rs[d].lb]

\* Faulty: the counters inside the one compared are taken to be where they are now.
AntecedentOfInner(x, k, rs, stepIter) ==
  LET upTo == IF stepIter THEN Successor(k, rs) ELSE k
  IN \E i \in DOMAIN rs :
       /\ ValueInRange(x[i], [rs[i] EXCEPT !.ub = upTo[i]])
       /\ \A j \in DOMAIN rs \ {i} : upTo[j] = x[j]

\* The tuples before k, or before its successor.
GetLoopAntecedent(x, k, rs, stepIter) ==
  LET upTo == IF stepIter THEN Successor(k, rs) ELSE k
  IN \E i \in DOMAIN rs :
       /\ ValueInRange(x[i], [rs[i] EXCEPT !.ub = upTo[i]])
       /\ \A j \in 1 .. i - 1 : upTo[j] = x[j]
       /\ \A j \in i + 1 .. Len(rs) : ValueInRange(x[j], rs[j])

-----------------------------------------------------------------------------
(* Terms.                                                                   *)

Index(at, k) == IF at.dim = 0 THEN at.ix ELSE k[at.dim]

ValueOf(val, x, side) ==
  CASE val.from = "const"  -> val.is
    [] val.from = "input"  -> x.input
    [] val.from = "local"  -> x.local
    [] val.from = "member" -> x[side][val.member][Index(val.at, x.k)]

Equals(side, s) == [kind |-> "eq", side |-> side, member |-> s.member, at |-> s.at, val |-> s.val]
When(cond, is) == [kind |-> "when", cond |-> cond, is |-> is]
MemberEqual(m) == [kind |-> "member", member |-> m]
\* forall x. where(x) => w[at(x)] = c[at(x)]
QuantifyPredicate(p, where, rs) ==
  [kind |-> "all", member |-> p.member, at |-> p.at, where |-> where, ranges |-> rs]

ConditionHolds(cond, input, k) ==
  CASE cond = "input" -> input # 0
    [] cond = "first" -> k[1] = 0

MissesSlice(x, rs, at) ==
  /\ \E d \in DOMAIN rs : ~ValueInRange(x[d], rs[d])
  /\ Index(at, x) \in Indices

InRegion(x, t, k) ==
  CASE t.where = "visited" -> GetLoopAntecedent(x, k, t.ranges, FALSE)
    [] t.where = "current" -> x = k \/ GetLoopAntecedent(x, k, t.ranges, FALSE)
    [] t.where = "loop"    -> \A d \in DOMAIN t.ranges : ValueInRange(x[d], t.ranges[d])
    [] t.where = "outside" -> MissesSlice(x, t.ranges, t.at)

Holds(t, x) ==
  CASE t.kind = "eq"     -> x[t.side][t.member][Index(t.at, x.k)] = ValueOf(t.val, x, t.side)
    [] t.kind = "when"   -> ConditionHolds(t.cond, x.input, x.k) = t.is
    [] t.kind = "member" -> x.w[t.member] = x.c[t.member]
    [] t.kind = "all"    -> \A y \in Counters(t.ranges) :
                              InRegion(y, t, x.k) =>
                                x.w[t.member][Index(t.at, y)] = x.c[t.member][Index(t.at, y)]

\* An ImplicationTerm; annotated says that annotations has an entry for each consequent.
Implication(antecedents, consequents, annotated) ==
  [antecedents |-> antecedents, consequents |-> consequents, annotated |-> annotated]

\* A ConjunctionTerm is a sequence of implications.
Of(terms) == <<Implication({}, terms, FALSE)>>

AddAntecedents(terms, conj) ==
  [i \in DOMAIN conj |-> [conj[i] EXCEPT !.antecedents = @ \cup terms]]

ConjunctionHolds(conj, x) ==
  \A i \in DOMAIN conj :
    (\A t \in conj[i].antecedents : Holds(t, x)) => \A t \in conj[i].consequents : Holds(t, x)

\* The constant for the local array stands for what a read of it gives.
Substitute(conj, val) ==
  LET Subst(t) == IF t.kind = "eq" /\ t.val.from = "local" THEN [t EXCEPT !.val = val] ELSE t
  IN [i \in DOMAIN conj |-> Implication({Subst(t) : t \in conj[i].antecedents},
                                          {Subst(t) : t \in conj[i].consequents}, conj[i].annotated)]

-----------------------------------------------------------------------------
(* calculateWP for everything but loops.                                    *)

OpWP(s, post) ==
  CASE s.op = "write"      -> AddAntecedents({Equals("w", s)}, post)
    [] s.op = "eq"         -> AddAntecedents({Equals("c", s)}, post)
    [] s.op = "writeLocal" -> Substitute(post, s.val)
    [] s.op = "readLocal"  -> post

\* The last one first.
OpsWP(ops, post) ==
  Turns(LAMBDA cond, i : OpWP(ops[Len(ops) + 1 - i], cond), Len(ops), post)[Len(ops)]

\* Faulty: what the else branch leaves is not added to the conjunction.
ThenBranchOnly(s, post) ==
  IF s.op # "if" THEN OpWP(s, post)
  ELSE AddAntecedents({When(s.cond, TRUE)}, OpsWP(s.then, post))

StatementWP(s, post) ==
  IF s.op # "if" THEN OpWP(s, post)
  ELSE AddAntecedents({When(s.cond, TRUE)}, OpsWP(s.then, post))
         \o AddAntecedents({When(s.cond, FALSE)}, OpsWP(s.else, post))

BlockWP(block, post) ==
  Turns(LAMBDA cond, i : StatementWP(block[Len(block) + 1 - i], cond), Len(block), post)[Len(block)]

\* The ops of a block, those of its ifs included.
Walk(block) ==
  UNION {IF s.op = "if" THEN Range(s.then) \cup Range(s.else) ELSE {s} : s \in Range(block)}

\* What each witness write of the body says may be equal on both sides.
PredicatesOf(body) ==
  {[member |-> s.member, at |-> s.at] : s \in {t \in Walk(body) : t.op = "write"}}

GetPostcondition == <<Implication({}, {MemberEqual(m) : m \in Members}, TRUE)>>

-----------------------------------------------------------------------------
(* The program's executions.                                                *)

Trips(r) == LET n == (r.ub - r.lb + r.step - 1) \div r.step
            IN [i \in 1 .. IF n > 0 THEN n ELSE 0 |-> r.lb + (i - 1) * r.step]

\* Each tuple of the loops around, with each trip of the loop within.
Within(tuples, r) ==
  LET n == Len(Trips(r))
  IN [i \in 1 .. Len(tuples) * n |->
        Append(tuples[1 + (i - 1) \div n], Trips(r)[1 + ((i - 1) % n)])]

\* The tuples of a nest in the order they are executed.
Iterations(rs) == Turns(LAMBDA tuples, d : Within(tuples, rs[d]), Len(rs), <<<<>>>>)[Len(rs)]

\* local is the memory, read what readLocal got from it; stale says that a value read was used
\* after the memory changed; done are the equations written and constrained, each with the value
\* it had.
Step(st, s, k) ==
  LET value == ValueOf(s.val, [w |-> st.w, k |-> k, input |-> st.input, local |-> st.read], "w")
      stale == st.stale \/ (s.val.from = "local" /\ st.read # st.local)
      done == st.done \cup {[s |-> s, k |-> k, read |-> st.read, value |-> value]}
  IN CASE s.op = "write"      -> [st EXCEPT !.w[s.member][Index(s.at, k)] = value, !.stale = stale, !.done = done]
       [] s.op = "eq"         -> [st EXCEPT !.stale = stale, !.done = done]
       [] s.op = "writeLocal" -> [st EXCEPT !.local = value, !.stale = stale]
       [] s.op = "readLocal"  -> [st EXCEPT !.read = st.local]

RunOps(ops, st, k) == Turns(LAMBDA now, i : Step(now, ops[i], k), Len(ops), st)[Len(ops)]

RunStatement(st, s, k) ==
  IF s.op # "if" THEN Step(st, s, k)
  ELSE RunOps(IF ConditionHolds(s.cond, st.input, k) THEN s.then ELSE s.else, st, k)

RunBlock(block, st, k) == Turns(LAMBDA now, i : RunStatement(now, block[i], k), Len(block), st)[Len(block)]

RunLoop(s, st) ==
  LET its == Iterations(s.ranges)
  IN Turns(LAMBDA now, i : RunBlock(s.body, now, its[i]), Len(its), st)[Len(its)]

\* Every start of the program: the input, and one value for all that nothing has written yet.
Starts ==
  {[w |-> [m \in Members |-> [i \in Indices |-> free]], local |-> free, read |-> free, input |-> input,
    stale |-> FALSE, done |-> {}] : input, free \in Values}

\* The states between the statements of the program.
Run(p, start) ==
  Turns(LAMBDA now, i : IF p[i].op = "for" THEN RunLoop(p[i], now) ELSE RunStatement(now, p[i], <<>>),
        Len(p), start)

\* The equation of a write or a constraint, over the final memory of its side.
FactHolds(f, mem, input) ==
  mem[f.s.member][Index(f.s.at, f.k)] =
    ValueOf(f.s.val, [w |-> mem, k |-> f.k, input |-> input, local |-> f.read], "w")

\* The constrained values the program admits after the run that ends in out.
Admits(out, c) == \A f \in out.done : f.s.op = "eq" => FactHolds(f, c, out.input)

\* No element is written a second value, or read before it has its last one.
WritesPersist(out) ==
  \A f \in out.done :
    f.s.op = "write" =>
      /\ FactHolds(f, out.w, out.input)
      /\ out.w[f.s.member][Index(f.s.at, f.k)] = f.value

\* The executions of p: memories of both sides, and the local one before each statement.
Executions(p) ==
  UNION {LET run == Run(p, start)
             out == run[Len(p)]
         IN {[w |-> out.w, c |-> c, input |-> out.input,
              locals |-> [i \in 1 .. Len(p) + 1 |-> run[i - 1].local],
              plain |-> WritesPersist(out) /\ ~out.stale] : c \in {m \in Memories : Admits(out, m)}} :
         start \in Starts}

-----------------------------------------------------------------------------
VARIABLES
  prog,       \* the product program
  plain,      \* no execution of it writes an element twice or uses what it read too late
  failures,   \* its executions that end with two members different
  known,      \* members the symbolic store found equal: one constant for both sides
  pos,        \* statements 1 .. pos are still to be walked
  post,       \* the condition on the state after them
  pc,         \* "start", "walk", the stages of computeInvariant, "done"
  cand,       \* predicates still to be tried
  inductive,  \* those the solver found inductive
  todo,       \* consequents getFailingCore has still to try
  core,       \* those it could not prove
  dropped,    \* a consequent that is not implied was left out because it has no annotation
  circular,   \* a predicate was found inductive only because one that was not is assumed with it
  gaveUp,     \* a solver left a query unanswered
  verdict     \* of the solver that reads the output

loopVars == <<cand, inductive, todo, core>>
programVars == <<prog, plain, failures, known>>
marks == <<dropped, circular>>
vars == <<programVars, pos, post, pc, loopVars, marks, gaveUp, verdict>>

\* Counters stay within the arrays.  The solver also looks beyond and may then fail to prove what is
\* valid here, which is one more query it leaves unanswered.
Interpretations(rs) ==
  {x \in [w : Memories, c : Memories, k : [DOMAIN rs -> Indices], input : Values,
          local : Values] :
     \A m \in known : x.w[m] = x.c[m]}

Valid(hyps, conj, rs) ==
  \A x \in Interpretations(rs) : (\A t \in hyps : Holds(t, x)) => ConjunctionHolds(conj, x)

\* checkUnsatWithPortfolio on the negation: only "unsat" counts, and a solver may give up where it
\* would be the answer.
CheckUnsat(hyps, conj, rs) == IF Valid(hyps, conj, rs) THEN {"unsat", "unknown"} ELSE {"sat"}

Init ==
  /\ prog \in Programs
  /\ plain = FALSE /\ failures = {}
  /\ known = {}
  /\ pos = Len(prog)
  /\ post = <<>>
  /\ pc = "start"
  /\ cand = {} /\ inductive = {} /\ todo = {} /\ core = {}
  /\ dropped = FALSE /\ circular = FALSE /\ gaveUp = FALSE /\ verdict = "none"

NoteAnswer(answer) == gaveUp' = (gaveUp \/ answer = "unknown")

Loop == prog[pos]
Predicates == PredicatesOf(Loop.body)
AllOf(ps, where) == {QuantifyPredicate(p, where, Loop.ranges) : p \in ps}
\* Faulty: nothing is known of the iterations before.
NoPrecondition == {}

BodyPrecondition == AllOf(Predicates, "visited")
Strengthenings == AllOf(Predicates, "outside")
InductiveInvariant == AllOf(inductive, "loop")

\* The symbolic store claims nothing, or all it could claim: what it claims is true.
GenerateVerificationConditions ==
  /\ pc = "start"
  /\ \E es \in {Executions(prog)} :
        /\ failures' = {e \in es : e.w # e.c}
        /\ plain' = \A e \in es : e.plain
        /\ known' \in {{}, {m \in Members : \A e \in es : e.w[m] = e.c[m]}}
  /\ post' = GetPostcondition
  /\ pc' = "walk"
  /\ UNCHANGED <<prog, pos, loopVars, marks, gaveUp, verdict>>

WalkStatement ==
  /\ pc = "walk" /\ pos > 0 /\ Loop.op # "for"
  /\ post' = StatementWP(Loop, post)
  /\ pos' = pos - 1
  /\ UNCHANGED <<programVars, pc, loopVars, marks, gaveUp, verdict>>

\* Faulty: the search starts with what the last loop was found to keep.
EnterWithOldInvariant ==
  /\ pc = "walk" /\ pos > 0 /\ Loop.op = "for"
  /\ pc' = "induct"
  /\ cand' = Predicates /\ todo' = {} /\ core' = {}
  /\ UNCHANGED <<programVars, pos, post, inductive, marks, gaveUp, verdict>>

EnterLoop ==
  /\ pc = "walk" /\ pos > 0 /\ Loop.op = "for"
  /\ pc' = "induct"
  /\ cand' = Predicates /\ inductive' = {} /\ todo' = {} /\ core' = {}
  /\ UNCHANGED <<programVars, pos, post, marks, gaveUp, verdict>>

\* {visited and outside equal} body {visited and current equal}
Current(p) == BlockWP(Loop.body, Of(AllOf({p}, "current")))

\* Every candidate is assumed for the tuples before, also those found not to be inductive; so their
\* order does not matter.
CheckInductive ==
  /\ pc = "induct" /\ cand # {}
  /\ LET p == CHOOSE p \in cand : TRUE
     IN /\ \E answer \in CheckUnsat(BodyPrecondition \cup Strengthenings, Current(p), Loop.ranges) :
             /\ inductive' = IF answer = "unsat" THEN inductive \cup {p} ELSE inductive
             /\ NoteAnswer(answer)
        /\ cand' = cand \ {p}
  /\ UNCHANGED <<programVars, pos, post, pc, todo, core, marks, verdict>>

LeaveLoop(terms) ==
  /\ post' = Of(terms)
  /\ pos' = pos - 1
  /\ pc' = "walk"

Given == InductiveInvariant \cup Strengthenings

\* A conjunct and its annotations are zipped: without annotations there is nothing to try.
Pairs(conj) ==
  UNION {{[antecedents |-> conj[i].antecedents, consequent |-> t] : t \in conj[i].consequents} :
           i \in {j \in DOMAIN conj : conj[j].annotated}}

NotAnnotated(conj) == [i \in {j \in DOMAIN conj : ~conj[j].annotated} |-> conj[i]]

\* A predicate that was found inductive is not, if only those found inductive are assumed.
RestsOnRejected ==
  LET isInductive(p, ps) == Valid(AllOf(ps, "visited") \cup Strengthenings, Current(p), Loop.ranges)
  IN /\ inductive # Predicates
     /\ \E p \in inductive : ~isInductive(p, inductive) /\ isInductive(p, Predicates)

CheckEntails ==
  /\ pc = "induct" /\ cand = {}
  /\ \E answer \in CheckUnsat(Given, post, Loop.ranges) :
       /\ NoteAnswer(answer) /\ circular' = (circular \/ RestsOnRejected)
       /\ \/ answer = "unsat" /\ LeaveLoop(Strengthenings) /\ UNCHANGED <<todo, dropped>>
          \/ /\ answer # "unsat"
             /\ pc' = "core" /\ todo' = Pairs(post)
             /\ dropped' = (dropped \/ ~Valid(Given, NotAnnotated(post), Loop.ranges))
             /\ UNCHANGED <<pos, post>>
  /\ UNCHANGED <<programVars, cand, inductive, core, verdict>>

\* Faulty: the first consequent that fails ends the search.
CheckUntilOneFails ==
  /\ pc = "core" /\ todo # {}
  /\ LET q == CHOOSE q \in todo : TRUE
     IN \E answer \in CheckUnsat(Given \cup q.antecedents, Of({q.consequent}), Loop.ranges) :
          /\ core' = IF answer = "unsat" THEN core ELSE core \cup {q.consequent}
          /\ todo' = IF answer = "unsat" THEN todo \ {q} ELSE {}
          /\ NoteAnswer(answer)
  /\ UNCHANGED <<programVars, pos, post, pc, cand, inductive, marks, verdict>>

CheckConsequent ==
  /\ pc = "core" /\ todo # {}
  /\ LET q == CHOOSE q \in todo : TRUE
     IN /\ \E answer \in CheckUnsat(Given \cup q.antecedents, Of({q.consequent}), Loop.ranges) :
             /\ core' = IF answer = "unsat" THEN core ELSE core \cup {q.consequent}
             /\ NoteAnswer(answer)
        /\ todo' = todo \ {q}
  /\ UNCHANGED <<programVars, pos, post, pc, cand, inductive, marks, verdict>>

\* Faulty: what was assumed outside the loop is not handed on.
AssertCoreAlone ==
  /\ pc = "core" /\ todo = {}
  /\ LeaveLoop(core)
  /\ UNCHANGED <<programVars, loopVars, marks, gaveUp, verdict>>

AssertCore ==
  /\ pc = "core" /\ todo = {}
  /\ LeaveLoop(Strengthenings \cup core)
  /\ UNCHANGED <<programVars, loopVars, marks, gaveUp, verdict>>

Emit ==
  /\ pc = "walk" /\ pos = 0
  /\ \E answer \in CheckUnsat({}, post, <<>>) : verdict' = answer /\ NoteAnswer(answer)
  /\ pc' = "done"
  /\ UNCHANGED <<programVars, pos, post, loopVars, marks>>

Next ==
  \/ GenerateVerificationConditions
  \/ WalkStatement \/ EnterLoop
  \/ CheckInductive \/ CheckEntails \/ CheckConsequent \/ AssertCore
  \/ Emit

Spec == Init /\ [][Next]_vars

-----------------------------------------------------------------------------
\* The shape of the walk: in a loop's search the statement is a loop and the candidates are its own.
TypeOK ==
  /\ prog \in Programs /\ known \subseteq Members /\ pos \in 0 .. Len(prog)
  /\ pc \in {"start", "walk", "induct", "core", "done"}
  /\ pc # "start" => Len(post) > 0
  /\ pc \in {"induct", "core"} =>
       /\ Loop.op = "for"
       /\ cand \subseteq Predicates /\ inductive \subseteq Predicates
  /\ dropped \in BOOLEAN /\ circular \in BOOLEAN /\ gaveUp \in BOOLEAN
  /\ verdict \in {"none", "unsat", "sat", "unknown"}

\* A program whose arrays are written once and whose local array is not changed between a read
\* and a use, in a walk that left out no consequent and took no predicate for inductive because of
\* one it had rejected.
WithinScope == plain /\ ~dropped /\ ~circular

\* unsat to the emitted query proves the members equal: the witness of every execution and
\* every assignment that meets the constraints agree.
NoFalseProof == verdict = "unsat" /\ WithinScope => failures = {}

\* "Verify {strengthenedPrecondition} loopBody {postcondition} to show the predicate is inductive":
\* an invariant made of predicates that were shown inductive, and unsat to the query it leads to,
\* prove the members equal.
InductiveAreProved == verdict = "unsat" /\ plain /\ ~dropped => failures = {}

\* What the walk turns the postcondition into never loses a counterexample: an execution that
\* ends with two members different falsifies the condition at every statement the walk has reached.
CounterexamplesSurvive ==
  pc = "walk" /\ WithinScope =>
    \A e \in failures :
      ~ConjunctionHolds(post, [w |-> e.w, c |-> e.c, k |-> <<>>, input |-> e.input,
                               local |-> e.locals[pos + 1]])

\* getLoopAntecedent describes the tuples executed before the one at hand, and with stepIter
\* those and it; after the last tuple, which has no successor, the latter says too little.
VisitedIsExecuted ==
  pc = "induct" =>
    LET its == Iterations(Loop.ranges)
        before(n) == {its[i] : i \in 1 .. n}
        says(k, stepIter) == {x \in Counters(Loop.ranges) : GetLoopAntecedent(x, k, Loop.ranges, stepIter)}
    IN \A n \in DOMAIN its :
         /\ says(its[n], FALSE) = before(n - 1)
         /\ n < Len(its) => says(its[n], TRUE) = before(n)

\* The case the search is made for: a loop that writes a whole array, every element at the counter
\* and next to a constraint with the same value.
Pins(s, m) ==
  /\ s.op = "for" /\ Len(s.ranges) = 1
  /\ \A i \in Indices : ValueInRange(i, s.ranges[1])
  /\ \E i, j \in DOMAIN s.body :
       /\ s.body[i].op = "write" /\ s.body[j].op = "eq"
       /\ s.body[i].val = s.body[j].val /\ s.body[i].val.from \in {"const", "input"}
       /\ \A h \in {i, j} : s.body[h].member = m /\ s.body[h].at.dim = 1

PinnedUpTo(n, m) == \E i \in 1 .. n : Pins(prog[i], m)

\* The strengthening of p is about no element: those it could name are visited.
LeavesNone(s, p) == \A y \in Counters(s.ranges) : ~MissesSlice(y, s.ranges, p.at)

\* If every member is pinned by a loop, and what a loop takes for granted outside its range, which
\* is left to the statements before it, is nothing or about a member pinned before, the program is
\* proved by solvers that answer.
PlainLoopsAreProved ==
  /\ pc = "done" /\ ~gaveUp
  /\ \A m \in Members : PinnedUpTo(Len(prog), m)
  /\ \A n \in {i \in DOMAIN prog : prog[i].op = "for"} :
       \A p \in PredicatesOf(prog[n].body) : LeavesNone(prog[n], p) \/ PinnedUpTo(n - 1, p.member)
  => verdict = "unsat"

\* "The strengthened thing should trivially entail the postcondition since we've added everything
\* that was missing": what computeInvariant returns, with its invariant, implies the postcondition.
ReturnedEntails ==
  [][AssertCore => Valid(Given \cup core, post, Loop.ranges)]_vars

\* The same for both ways out of a loop, as long as no consequent was left out for want of an
\* annotation: the condition before the loop and its invariant imply the condition after it.
LeftLoopsEntail ==
  [][pc' = "walk" /\ pc \in {"induct", "core"} /\ ~dropped =>
       \A x \in Interpretations(Loop.ranges) :
         (\A t \in InductiveInvariant : Holds(t, x)) /\ ConjunctionHolds(post', x)
           => ConjunctionHolds(post, x)]_vars
=============================================================================
