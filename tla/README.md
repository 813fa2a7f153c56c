# A verification development for LLEQ

LLEQ reads a circuit written in LLZK, where every struct has a `@compute`
function that produces witness values and a `@constrain` function that
constrains them, and tries to show that the two agree on every signal. This
directory models the parts of LLEQ whose behaviour is hard to test, checks the
models with TLC on small instances and proves some of their properties with
TLAPS for instances of any size. File and line references are to `src/`.

## 1. Inventory

| Component | State | Operations | What makes it correct |
|---|---|---|---|
| Solver portfolio, `lib/Verification/SolverUtils.cpp` | table of child processes, their temporary files, `lastNonConclusive` | resolve paths, fork, poll, kill, reap | the verdict is that of a solver that ended normally; every child is waited for once; nothing survives the return; a slow solver does not hold up a fast one |
| Deductive and fixpoint verifier, `DeductiveVerifier.cpp`, `FixpointVerifier.cpp` | `baseQuery`; three sets of members in `currentResult` | `init`, `verifyStruct`, `runIteration`, `update`, `report` | members stay partitioned, verdicts are right and final, the loop ends |
| Symbolic store analysis, `SymbolicStoreAnalysis.cpp`, `Store.h`, `SymbolicVerifier.cpp` | one lattice element per program point: two maps from array locations to symbols | visits of operations, joins, `areEquivalent` | the store says of every run only what is true of it |
| Symbols, `SymbolExpr.cpp`, `SymbolImpls.h`, `Unification.cpp` | a pool; the memo of `anti_unify` | `canEqual`, `unify`, `substitute`, `anti_unify` | unification and generalisation laws |
| Scalar symbol analysis, `ScalarSymbolAnalysis.cpp` | a symbol per SSA value | visits of operations, joins | as the store; a fixpoint is reached |
| Weakest precondition, `WeakestPrecondition.cpp` | the current condition, known members | `calculateWP`, `computeInvariant`, `generateVerificationConditions` | an invariant is inductive and implies what it replaces |
| Term builder, `TermUtils.cpp` | caches from MLIR values to cvc5 terms | `getConstant`, `getExpression`, declarations | one term per value, every constant declared and bounded |
| SMT-LIB emitter, `SMTLIBEquivalenceEmitter.cpp` | the symbols of the function being printed | lowering, printing | names are unique and the ones asked about |
| Contracts, `StructContracts.cpp`, `Utils.cpp` | the IR | `applyContractToStruct`, `ensureProductFunc` | each contract is applied once, before alignment |
| If normalisation, `LLEQIfToIfElse.cpp` | the IR | one rewrite | every `scf.if` has two branches |
| Driver, `tools/lleq/main.cpp` | the subcommand | a fixed sequence of calls | as its components |
| Scripts, `scripts/collect_circom_demo_results.py` | two child processes, their pipes, a deadline | `run_wp`, `run_verify`, classification | the row recorded is what the solver said |

How they interact. `main` chooses a subcommand. `verify` builds a
`FixpointVerifier`; it owns a `SymbolicVerifier`, whose equivalences become
assertions of the query with `--enable-store`, and a `DeductiveVerifier`, which
starts cvc5 once per member and iteration. `wp` runs the symbolic verifier,
gives the members it accepts to `WeakestPreconditionAnalysis`, and that asks the
solver portfolio about each candidate invariant. The store analysis and the
scalar analysis are two MLIR dataflow analyses that subscribe to each other. The
scripts start `lleq` and z3 as a pipeline.

Hard behaviour. LLEQ has no threads, but the portfolio is concurrent with its
children: a child may exit between any two system calls of the parent. Solvers
time out, crash, print models nobody expected or fork helpers. The store
analysis is an abstract interpretation over symbolic array indices, where one
forgotten alias or one careless join makes a wrong circuit look right. Nothing
is persisted, so there is no recovery to model. `PROJECT.json` lists each hazard
at its line with the property that would catch it.

## 2. Modules

### Solver portfolio

* `PortfolioContract` says what a caller of `checkUnsatWithPortfolio` sees: it
  asks a question, solvers may answer it, and one outcome comes back. A
  conclusive outcome is the true one and an inconclusive one needs every solver
  to have given up. `FairSpec` adds that an outcome that is available is
  returned.
* `SolverPortfolio` is the implementation. The parent's variables are the locals
  of `invokeSolverPortfolio` (`pc`, `todo`, `finished`, `anyRunning`, `last`,
  `result`, `files`); one action is one system call together with the code that
  handles its result, so a child can act between any two of them. The
  environment's variables are the kernel's (`proc`, `group`, `helper`, `status`,
  `stdout`), and its actions are what a child does: it execs or fails before,
  starts or ends a helper, exits with any output and status. A killed process is
  `doomed` until the kernel ends it. `truth` is the answer a correct solver
  gives; solvers that print an answer and exit with status 0 are assumed
  correct, crashed ones print anything.
* The constant `Quirks` says what else the platform may do: `groupEPERM` (Darwin
  refuses to signal a group whose leader is a zombie; the comment at
  `SolverUtils.cpp:248-252`), `autoReap` (an inherited ignored SIGCHLD),
  `noSignal` (a solver that may not be signalled), `spawnFails` (fork or setpgid
  fails).
* `SolverPortfolio_proofs` holds the theorems.

### Fixpoint verification

* `VerificationContract`: every member has one verdict, a verdict is right and
  never changes, and the run ends with a report or an abort.
* `FixpointVerifier`: `main` for `verify` and `dump-smt`. A query is abstracted
  to `differs`, the members some model of the encoding gives two different
  values. An action is `init`, the start of an iteration, one solver call with
  its parsing, the merge at the end of the iteration, or the report. cvc5
  answers nothing wrong, but may time out, print a number the parser rejects or
  make the program stop (`SolverUtils.cpp:322-324`). `claimed`, the members
  `areEquivalent` accepts, is asserted in every query (`facts`) and assumed to
  contain no member that differs; section 5 says when the store analysis does not keep that promise.
* `MCFixpointVerifier` defines the model values, one of them negative, since
  `.cfg` files have no negative numbers; `FixpointVerifier_proofs` has the
  theorems.

### Symbolic store

* `SymbolStore`: symbols, `canEqual`, `anti_unify` with its memo, and the
  operations of `Store<T>`: the aliasing write, the exact read and `join_with`.
  Pure operators that thread the pool. A symbol carries which object it is,
  because symbols are compared by contents but memoised by pointer.
  `WriteEntries`, `JoinPlace`, `JoinAlias` and `JoinWith` are the loops of
  `write` and `join_with`, one entry at a time, as folds over the order in which
  the hash map meets the entries of an array, which a join takes for each array
  apart (`JoinOrders`); the pool carries what a join did wrong (`misjoins`).
* `SymbolicStoreAnalysis`: an action visits one operation *and* executes it in
  one concrete run of the same program. The analysis has `lattice`, `pool`,
  `before` and `joined` (the element before an `scf.if` and the one after it);
  the run has `params`, `induction`, `memory` and the value in `result`. An
  `scf.if` is visited in both branches and executed in one. Elements nothing has
  written are `Free`: the run may go on with any value of them. A constraint
  keeps only the runs that satisfy it. The program is arbitrary: TLC builds
  every sequence of operations up to the bound, in any order of `@compute` and
  `@constrain`, as the product aligner may interleave them.
* `misjoins` is a history variable. It records what went wrong in the joins so
  far (section 5): `"unknown"` and `"uninitialized"` if one kept a symbol or
  entries that do not hold in both branches, `"erased"` if one lost a location that
  `@compute` wrote, so that the properties can say what holds until then. A join
  that erases keeps the store true, since what is left of it still holds, but not
  `areEquivalent`, which reads the absence of an entry as one that was never
  written. `initialized` of a lattice is the element's own flag and that of the
  stores that were written to.
* `EqualSides` speaks of the run and not of the store: at every index `@compute`
  has set, `@constrain` leaves no other value, whether or not there is an entry.
* `SymbolStore_proofs` has the lemmas about the operators, with the symbols
  denoting values; `SymbolicStoreAnalysis_proofs` the theorems.

### Weakest precondition

* `WeakestPrecondition`: a product program is a sequence of writes (of
  `@compute`), constraints (of `@constrain`), reads and writes of a local array,
  ifs and perfect loop nests. An action is the walk over one statement, or one
  query of `computeInvariant` with what the code does about its answer: is a
  candidate inductive, does the invariant entail the postcondition, which
  consequents fail. `post` is the `ConjunctionTerm`, with its `annotations`
  reduced to whether it has them; `inductive`, `todo` and `core` are the locals
  of `computeInvariant` and `getFailingCore`. A cvc5 term is a record that
  `Holds` evaluates; `CheckUnsat` decides a query by evaluating it in every
  interpretation of its constants, and may leave open what is valid, as solvers
  do. It stands for one call of the portfolio, whose verdicts `SolverPortfolio`
  shows to be true.
* The other half of the module is the execution of the same program:
  `Step`, `RunStatement` and `RunLoop` run `@compute` and collect the equations of
  `@constrain` as they pass them, `Admits` are the constrained values these
  equations allow. The properties relate the two. `Turns` is the one form of
  iteration of the module, for the walk and for the execution. `failures` are the executions that end with two
  members different, that is, the counterexamples a user would want to see.
* `known` is what the symbolic store accepted. It is taken to be true here:
  nothing, or all that is true. Section 5 says when it is not.
* `ProgramsAreWellFormed` says what a program is: nests of any depth with
  any bounds and steps, ifs without an if inside, indices within the array, and a
  local array that holds no element of a member.
* `plain` is false for programs the code is known to treat wrongly (an element
  written twice, a local array changed between a read and a use, both marked TODO
  in the code), `dropped` and `circular` record the two defects of section 5.
  `WithinScope` asks for none of these.
* `MCWeakestPrecondition` has the programs, `LoopNests_proofs` the order in which
  the tuples of a nest are executed, `WeakestPrecondition_proofs` the theorems.

### Term builder

* `TermBuilder`: `maps` are `constants`, `witnessMembers`, `constraintMembers`
  and `polyMembers`, `expressions` is the cache, `bounds` is `auxiliaryBounds`.
  A term is the set of constants in it, since what goes wrong here is which
  constants there are, not what is done with them. `mkConst` of cvc5 makes a new
  object each time, so a constant carries how many were made before it for the
  same key, and the name it is printed by: a name is a sequence of parts, to which
  `getConstant` appends `_w` or `_c` for the sides of a member, and nothing keeps
  one from being another's. The actions are the calls the weakest precondition makes, in every
  order it can make them.
* `MCTermBuilder` has a function of fourteen values, one of each kind, with a
  division of which an operand is itself a division, and names that clash; `TermBuilder_proofs` has the
  theorems.

### Result collection

* `CollectResults`: `pc` is the script's place in `run_wp`. `proc`, `code` and
  the pipes are the kernel's. lleq and z3 act on their own: they write, read,
  end, crash and are killed between any two calls of the script. A process that
  exits closes its pipes (`Closed`) some time before it can be waited for (`Ended`),
  so z3 may answer and end while lleq still exits, and a deadline may expire with
  the process ended in time: `communicate` looks at the clock first. `toErr` is what
  lleq writes to a pipe that nobody reads until z3 has ended. z3 may skip a line
  it rejects (`rejected`) and answer for the rest. `CollectResults_proofs` has the
  theorems.

## 3. Runs

| Run | Bounds | What it shows |
|---|---|---|
| `portfolio` | 2 solvers (the portfolio has at most z3 and cvc5), `groupEPERM` | safety and refinement of `PortfolioContract` with liveness |
| `portfolio_hostile` | 2 solvers, every quirk | no wrong verdict, nothing left after a return, cleanup ends |
| `fixpoint` | 3 members, one not a signal, prime 3, model values -1, 0, 1, 3 | verdicts, report, termination, refinement of `VerificationContract` |
| `store` | 3 operations, 1 if, 1 array, 1 template parameter, the induction variable as index, 2 values | the store describes the run |
| `member_joins` | 5 operations on the member, 2 ifs | joins, and what `areEquivalent` accepts is equal |
| `empty_branches`, `unknown_joins` | as needed | expected violations, section 5 |
| `weakest` | 644 programs over two arrays of two bits, up to two loops or a nest of three, every solver that gives up anywhere | the emitted query proves what it should |
| `dropped_core` | the same programs | expected violation, section 5 |
| `circular` | the 4 programs of `CircularPrograms` | expected violation, section 5 |
| `term_builder` | one function of 14 values, two members, 3 steps, any registered members, names that clash | a query declares its condition, defines its divisions and uses the current constants |
| `collect` | pipes of one piece, two pieces on stderr, a query of three | rows are right, the script ends |

Why the bounds are enough. Two solvers are the whole portfolio. Three members
let one be settled in each of two iterations while one stays unknown; the model
values include two that are equal modulo 3 but not as integers (0 and 3) and one
the parser rejects. Two index symbols that may or may not be equal in the run
are the least that alias; two values are the least that differ; three operations
fit a write, an aliased write and a read or copy around a join, five fit a
witness write and a constraint in both branches and one operation outside.
For the weakest precondition, two elements give a loop a first, a last and an
unvisited index; the programs are all bodies of up to two operations with full
and partial ranges, steps and offsets, all bodies of three different operations
in a full loop, two loops in both orders, a second loop over a part of what the first one wrote,
a local array around them, an if inside, nests of two such ranges, and nests of
three, the least in which a carry passes a dimension that stays. Counters stay within the arrays: where the solver would look
beyond, it proves less, which is one of the queries left unanswered. Three steps
of the term builder reach an antecedent, a query and the output with the same
value built or cached before each. A pipe of one piece fills at once, and two
pieces of stderr are the least that block a writer.
Programs stop at the bound, so these runs do not check for deadlock; the
portfolio, the verifier, the walk and the script really end, so theirs do not
either.

Each property of a passing run has a mutant in `PROJECT.json`: a definition of
the model changed as a plausible bug would change the code (the operators marked
`Faulty` in the modules), under which TLC finds the property violated.

## 4. Fairness

`SolverPortfolio!Fairness` is weak fairness of the parent, which is a loop
without blocking calls except `waitpid` on a child already killed, and of the
death of a process that was sent SIGKILL. Solvers get none: they may think for
ever. This is what the code has, since no time limit is passed to either solver
(`SolverUtils.cpp:396-412`), and it makes the liveness conditional: an answer
that is available is returned. `FixpointVerifier!FairSpec` is weak fairness of
`Next`: the program is sequential and cvc5 runs with `--tlimit-per 1000`
(`DeductiveVerifier.cpp:99-101`). `CollectResults!FairSpec` is weak
fairness of the script alone, deadlines included: `communicate(timeout)` returns
when the time is over whatever the children do, and they get no fairness, since
z3 may think for ever. The store analysis, the weakest precondition and the term
builder have safety properties only; the latter two are loops over a finite
program.

## 5. Where the code and its comments disagree

* `empty_branches`. `StoreLattice::join` and `Store::join_with` take a state
  without entries for one not visited. For an if whose one branch constrains the
  member and whose other branch is empty, with nothing in the store before, the
  constraint is kept as unconditional and `areEquivalent` accepts the member.
* `unknown_joins`. The join of an unknown with anything is that unknown. If both
  sides of the member are the same unknown in one branch (the induction
  variable, say) and two different constants in the other, they are the same
  unknown after it and `areEquivalent` accepts the member.
* `dropped_core`. `getFailingCore` pairs consequents with annotations, and the
  condition a loop leaves has none. Of two loops in a row, the first is told that
  nothing was missing: what the second could not prove is forgotten, and with it
  the counterexamples. The comment says that everything missing was added.
  `LeftLoopsEntail`, which is proved, says that this is the only way it goes wrong:
  unless a consequent was dropped, what either way out of `computeInvariant` returns
  implies, with the invariant, what was asked of the loop.
* `circular`. Each candidate of `computeInvariant` is tried under
  `bodyPrecondition`, which says of the earlier tuples that *all* candidates hold
  (`WeakestPrecondition.cpp:276-283`). When one of them is rejected, another that
  was accepted on its strength stays in the invariant, which is then not
  inductive. In the run's programs the loop pins `b` in its first turn and
  computes it from `a[0]` in the second; nothing constrains `a[0]`, its candidate
  is rejected, that of `b` is kept, and the query comes out unsatisfiable although
  the members differ. The defect came to light in the proof of `NoFalseProof`,
  which did not go through: no program among those model-checked until then
  reached it. `RestsOnRejected` recognises it, and `WithinScope` excludes it.

With the two joins, and with those that erase (below), the equivalences that
`--enable-store` asserts, and those `wp` starts from, may be false, and then
`claimed` in `FixpointVerifier` may contain members that differ.

Other gaps met while modelling, each excluded by name where a property needs it:

* `areEquivalent` (`SymbolicVerifier.cpp:23-36`) compares the indices the store still
  has, and accepts a member that has none on either side. A join erases the entries
  one branch lacks (`Store.h:277-278`), and clears the stores if a branch left
  nothing (`SymbolicStoreAnalysis.cpp:105-110`). After `if (c) { x_w = 0 } else { }`,
  or `if (c) { x_w = 1 } else { x == 1 }`, it accepts `x`, which nothing constrains
  when `c` is true, although the comment there says that signals "written to at
  different indices" cannot be equivalent. `EquivalentMeansEqual` excludes such a
  join (`"erased"` in `misjoins`); `ErasedJoinsKeepSidesEqual` does not, and as the
  invariant of `UnknownJoins.cfg` TLC finds it violated;
* a constant is printed by a name put together from that of its member and a suffix,
  or by the bare name of a registered member or an argument (`TermUtils.cpp:443-487`).
  With members `n` and `n_w`, the second registered as equal, the query declares
  `n_w` twice, which a solver refuses, although the README of LLEQ says the query "can
  be sent directly to an SMT solver". `ThingsAreDeclaredOnce`, which is proved, says
  that it takes two different values or members; `NamesAreDeclaredOnce`, which TLC
  finds violated as an invariant of `TermBuilder.cfg`, does not;
* two template parameters are taken never to be equal (`SymbolImpls.h:92`, against
  the comment at `Store.h:65-67`), so writing `arr[@M]` leaves a false entry at
  `arr[@N]`. With `Params = {0, 1}`, two operations and no ifs, TLC finds
  `StoreDescribesRun` violated; the runs have one parameter;
* an iteration of `FixpointVerifier` repeats the queries of the one before: what it
  proves is not added to the next (`FixpointVerifier.cpp:45-54`), though the comment
  on the class speaks of "adding facts until reaching a fixpoint". In the model
  `facts` changes in `InitVerifier` only;
* template parameters are never declared in a query (`TermUtils.cpp:105`), and
  `ConditionIsDeclared` says that nothing else is missing from the condition;
* the definition of a division is asserted in every later query, but the
  constants of its operands are declared only where the query mentions them too
  (`TermUtils.cpp:132`), although the README of LLEQ says the query "can be sent
  directly to an SMT solver";
* an element written twice makes the antecedents contradict each other
  (`WeakestPrecondition.cpp:481-483`, issue 56) and a local array is substituted
  also where it was read before (`WeakestPrecondition.cpp:463`): `plain`;
* the successor tuple of `getLoopAntecedent` with `stepIter` says too little after
  the last iteration; no caller passes it, and `VisitedIsExecuted` leaves that
  tuple out;
* a write at a constant index inside a loop is taken, like any other, to leave the
  other elements for the statements before (`WeakestPrecondition.cpp:298-316`), and
  nothing before the loop shows them equal: a loop that pins a whole array and then
  writes `b[0]` again at that index ends in `sat`. The query is only too weak, never wrong;
  `PlainLoopsAreProved` asks that such strengthenings are about no element
  (`LeavesNone`) or about a member that a loop before has pinned;
* lleq has one second after z3 to be waited for (`collect_circom_demo_results.py:130`),
  and `communicate` looks at the clock first, so an answer z3 gave in time may be
  recorded as a timeout; `LateDeadlineCutsNoWork` says that lleq has at least nothing
  left to write then, unless z3 crashed;
* a solver of a killed lleq runs on, in a process group of its own:
  `NothingIsLeft` allows it exactly then.

## 6. Proofs

The theorems hold for every value of the constants under the assumptions named in
the modules (a positive number of solvers; finitely many members; a positive
prime; integer model values; pipes and queries of positive finite size; programs
in SSA form; well-formed product programs). Each invariant below was checked by
TLC, whole or by its consequences, before it was proved.

`SolverPortfolio_proofs`. `TypeCorrect` is one case per action. `IInv` adds what
makes `VerdictIsTrue`, `FinishedMeansReaped` and `ReturnLeavesNothing`
inductive: none is finished before all were started (`NothingFinishedYet`), jobs
are started in order (`SpawnedInOrder`), a finished one was waited for
(`FinishedAreGone`), a living process has no exit status (`StatusOfLiving`), a
solver that ends with status 0 prints no wrong verdict (`SolversAreHonest`, the
only assumption on solvers), the result kept for the case that all fail is
inconclusive (`LastIsInconclusive`), and cleanup has waited for every job it has
passed (`ReapedSoFar`). `ReportInv` relates what is returned to who said it: a scan
that saw nothing running found every job finished (`ScanIsComplete`), and as long
as the parent polls, whoever finished did so by itself and without a verdict
(`FinishedAreInconclusive`, `NothingCancelledYet`). `ResultIsReportedHolds` and
`InconclusiveIsUnanimousHolds` follow; the quirk `autoReap` loses exit codes, and
the properties say what is left then. `GroupInv` is about process groups: a living
solver leads one except between fork and setpgid, so a signal to the group reaches
its helpers, and `CancelledLeavesNoDescendantHolds` follows.
`PortfolioImplementsContract` is the safety half of the refinement: each step
is a step of `PortfolioContract!Spec` or a stutter. It assumes `autoReap` away, as
the run of the refinement does, because with it an outcome may be lost.

`FixpointVerifier_proofs`. The merge at the end of an iteration never looks
whether a member already has a verdict, so the partition depends on the batch:
`IInv` says that every verdict in the batch is right (`BatchIsRight`) and about a
member unknown until then and already visited (`BatchIsNew`), that the verdicts
merged before are right (`ResultIsRight`), that no asserted member differs
(`FactsAreTrue`) and that there are none before the first
iteration (`NothingBeforeInit`). `MembersPartitionedHolds`,
`VerdictsAreRightHolds`, `VerdictsAreFinalHolds` (an action property) and
`ReportIsCompleteHolds` follow, the last because a verification ends in no other
way than by `Report` (`DoneIsReported`). `IterationsBoundedHolds` is the variant of the
loop, with the lemma `UnknownShrinks` about cardinalities.
`VerifierImplementsContract` is the safety half of the refinement.

`CollectResults_proofs`. A row is computed from what the processes left behind, so
`IInv` says what stands once a process has ended: which children exist and which
were waited for at each place of the script (`StageIsKnown`), that z3 prints about
the whole query only (`PrintedAboutQuery`), that it outlives lleq unless it crashes
(`Z3OutlivesLleq`), that lleq leaves a solver of its own only when it was killed
or failed (`HelperIsExplained`). The four invariants of the run are theorems, and so is the
action property `LateDeadlineCutsNoWork`.

`TermBuilder_proofs`. The central fact is `MapsAreMade`: a constant is determined
by its key and by whether its member was registered, however late it is asked for.
What was built is therefore what would be built now (`CachedTermsAreCurrentHolds`),
and the maps only grow, so a query stays well built (`QueryIsWellBuilt`).
`ClaimedMembersShareAConstant` needs that the two sides of a registered member are
made together. All six invariants of the run are theorems. None assumes anything
about the names of the program.

`SymbolStore_proofs` and `SymbolicStoreAnalysis_proofs`. A lattice is *sound* for
a run if there are values of its unknowns under which every entry is what the
memory holds. The lemmas take `write` and `join_with` entry by entry: a write
makes unknown what it may alias; a join that kept nothing it should not gives an
entry that either branch's values explain. `IInv` says of the branch the run takes,
wherever its lattice is kept during an if, that it is sound (`Describing`), and of
every lattice two facts the joins need: of two entries that may be the same
element one is unknown at most (`KnownApart`), and the witness has no location
that no array has (`Covering`). `StoreDescribesRunHolds` follows, for programs of
any length with any number of ifs, in any order of the hash maps. That entries are
true does not say that they are there: `areEquivalent` accepts a member without any.
`Accounting` adds that every element an array or the witness has in the run is one
the lattice has an entry for, which operations keep and which a join keeps unless
it erases; with it `EquivalentMeansEqualHolds` reaches the indices of the run and
not only those of the store, of a felt member as in `member_joins` or of an array. Their hypothesis `Distinct` names the
two cases the code is known to get wrong: template parameters with equal values,
and two arrays in a function whose member is an array (hazards at
`SymbolImpls.h:92` and `SymbolicStoreAnalysis.cpp:174`). Both are decided by
constants and `Init`; they hold in every behaviour of the runs `store` and
`member_joins`, which have at most one of each. `Describing` quantifies over all
functions from the unknowns to values, so TLC checks its consequences, where only
the unknowns that occur have values (`FitsDescribes` is the bridge).

`LoopNests_proofs` and `WeakestPrecondition_proofs`. `NoFalseProof` is a soundness
theorem about the backward walk: whatever a solver leaves open, an unsatisfiable
query means that no execution has two different members. The argument has three
layers.

* *Tuples.* In a nest of any depth, with any bounds and steps, the tuples are
  executed in lexicographic order, and `GetLoopAntecedent` says exactly which came
  before (`VisitedIsExecutedHolds`). The order is shown for the prefixes of a nest,
  one dimension at a time (`WithinLists`, `IterationsList`): each tuple of the
  outer loops is followed by all trips of the next one. `Successor` is the least
  tuple after the one at hand (`SuccessorIsNext`), so nothing is skipped.
* *Operations.* An execution is a chain of states that collects equations. If it
  falsifies a condition after an operation, it falsifies what `calculateWP` makes
  of the condition before it (`OpIsSound`), because a write or a constraint only
  adds an antecedent that the execution satisfies in its final memory: that is what
  `plain` is for. By induction over the operations the same holds for regions, ifs
  and bodies (`OpsAreSound`, `StatementIsSound`, `BlockIsSound`). These are
  inductions over indices with a set as the hypothesis (`UpToInduction`), which
  the provers can do, not over an operator parameter.
* *Loops.* If the predicates that were kept are inductive relative to each other,
  they hold of all executed tuples (`LoopIsSound`), and what `computeInvariant`
  returns is false where the postcondition is (`LeavingIsSound`): a consequent that
  was tried is in the core or implied by the invariant, and one that was not tried
  is implied because nothing was dropped.

The invariant `WPInv` follows the search: what the walk was given is true of the
program (`RunInv`), every counterexample falsifies the condition the walk has
reached (`WalkInv`), what was found inductive follows from all candidates
(`LoopInv`), and, while the core is computed, from those found inductive alone
unless `circular`, and everything already tried is accounted for (`CoreInv`).
There is one lemma per action.
`CounterexamplesSurviveHolds`, `NoFalseProofHolds` and `TypeCorrect` follow, and
`LeftLoopsEntailHolds` from `CoreInv` at the step that leaves the loop. The
conditions `dropped` and `circular` in `WithinScope` are where the two findings
break it.

`PlainLoopsAreProvedHolds` is the other direction: `wp` proves what it is made
for. If every member is written and constrained to one value at the counter of some
loop over the whole array, solvers that answer every query lead to `unsat`,
whatever else the program does. The argument follows the consequents: the walk
over a statement adds antecedents but no consequent, and what it adds lasts unless
it speaks of the local array (`Bounded`, `BlockAdds`). So the two equations of a
pinned element are antecedents of the query for its predicate, which is then valid
(`PinIsKept`), and after the loop the member is equal everywhere (`PinGives`).
`PlainInv` says that every consequent of the condition before statement n + 1 is
`Owed`: it holds anyway, or one of the statements 1 .. n pins its member. A loop
pays for the members it pins (`OwedIsImplied`) and passes the rest on through the
core; at the top nothing is left to pay, and the query is valid. A query may be
left unanswered at any point, hence `~gaveUp`. The first form of the property had no
condition on strengthenings and was too strong (section 5).

Only model-checked:

* liveness (`ImplementsContract` as a whole, `CleanupEnds`, `Ends`), `ENABLED` being
  out of the prover's reach;
* the properties of the expected violations, which are false.

## 7. Not modelled

What could be added, in order:

1. `SymbolicStoreAnalysis`: reads of members, loop bodies and the repeated
   visits of the worklist, with the question whether a fixpoint is reached.
2. Terms with arguments: `unify`, `substitute` and `anti_unify` against their
   definitions on bounded terms, in the `member_joins` instance if it fits.
3. Theorems: the store with two arrays written to one member, once stale entries
   are described exactly.

Two limits of the present store model: one array per program (a second array
written to the same member leaves stale entries of the first, which no circuit
in the repository does), and joins of one if at a time, not nested.

`WeakestPrecondition` has arrays of one dimension, loops without a loop inside
an imperfect nest, and no calls of subcomponents; `TermBuilder` has the calls.
Scalar members, `bool.assert` and the Boolean form of a constraint
(`getAssertedBool`) only add an antecedent, as the operations of the model do.
`nestedLoopBody` takes a loop whose first operation is a loop for a perfect nest
and ignores what follows the inner one (`WeakestPrecondition.cpp:71`); the model
keeps to the nests the comment there speaks of. A Boolean argument in a query
stops the program (`TermUtils.cpp:542`, the state `aborted`). If z3 cannot be
started, `run_wp` raises and leaves lleq running (the state `raised`).

The SMT-LIB emitter and the contract rewriting are translations without
interesting state; parsing and the LLZK and MLIR passes are libraries; tests,
examples and build files have no behaviour of their own.
