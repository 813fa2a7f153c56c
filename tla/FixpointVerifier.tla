--------------------------- MODULE FixpointVerifier ---------------------------
(***************************************************************************)
(* `lleq verify' (tools/lleq/main.cpp:216-236): FixpointVerifier asks its   *)
(* DeductiveVerifier about every member that is still unknown, one cvc5    *)
(* call per member, until an iteration settles nothing, and then reports.  *)
(*                                                                         *)
(* The query is abstracted to what its answer depends on: whether some     *)
(* model of it gives the two sides of a member different values modulo the *)
(* prime (differs).  cvc5 is the environment: it may time out on a member  *)
(* in one iteration and decide it in the next, print a model with negative *)
(* numbers, or die.                                                        *)
(***************************************************************************)
EXTENDS Integers, FiniteSets

CONSTANTS
  Members,      \* the members of the struct
  Signals,      \* those declared as signals: only they are reported
  Prime,        \* the prime of the field
  ModelValues   \* the integers cvc5 may print in a model

ASSUME MembersAssumption == IsFiniteSet(Members) /\ Signals \subseteq Members
ASSUME PrimeAssumption == Prime \in Nat \ {0}
ASSUME ModelValuesAssumption == ModelValues \subseteq Int

VARIABLES
  pc,           \* where main is
  subCmd,       \* the subcommand, verify or dump-smt
  enableStore,  \* --enable-store
  differs,      \* the members the encoding of the struct leaves distinguishable
  claimed,      \* the members SymbolicVerifier::areEquivalent accepts
  facts,        \* the members whose equivalence is asserted in baseQuery
  unknown, equivalent, inequivalent,   \* currentResult, of FixpointVerifier
  cex,          \* the counterexamples of currentResult.inequivalentMembers
  left,         \* the members verifyStruct has not visited yet
  batch,        \* result, the local of verifyStruct
  iterations,   \* calls of runIteration so far
  report        \* what is printed, by section

configVars == <<subCmd, enableStore, differs, claimed>>
resultVars == <<unknown, equivalent, inequivalent, cex>>
vars == <<pc, configVars, facts, resultVars, left, batch, iterations, report>>

Counterexamples == Nat \X Nat
NoModel == <<>>
NoBatch == [equivalent |-> {}, inequivalent |-> {}, cex |-> [m \in Members |-> NoModel]]
NoReport == [equivalent |-> {}, inequivalent |-> {}, unknown |-> {}]

TypeOK ==
  /\ pc \in {"init", "iterate", "checking", "report", "done", "fatal"}
  /\ subCmd \in {"verify", "dump-smt"}
  /\ enableStore \in BOOLEAN
  /\ differs \in SUBSET Members
  /\ claimed \in SUBSET (Members \ differs)
  /\ facts \in SUBSET Members
  /\ unknown \in SUBSET Members
  /\ equivalent \in SUBSET Members
  /\ inequivalent \in SUBSET Members
  /\ cex \in [Members -> Counterexamples \cup {NoModel}]
  /\ left \in SUBSET Members
  /\ batch \in [equivalent : SUBSET Members, inequivalent : SUBSET Members,
                cex : [Members -> Counterexamples \cup {NoModel}]]
  /\ iterations \in Nat
  /\ report \in [equivalent : SUBSET Members, inequivalent : SUBSET Members,
                 unknown : SUBSET Members]

\* The store never claims a member that an execution tells apart.
Init ==
  /\ pc = "init"
  /\ subCmd \in {"verify", "dump-smt"}
  /\ enableStore \in BOOLEAN
  /\ differs \in SUBSET Members
  /\ claimed \in SUBSET (Members \ differs)
  /\ facts = {}
  /\ unknown = {} /\ equivalent = {} /\ inequivalent = {}
  /\ cex = [m \in Members |-> NoModel]
  /\ left = {}
  /\ batch = NoBatch
  /\ iterations = 0
  /\ report = NoReport

\* FixpointVerifier::init: the store, the encoding, the members, the facts.
InitVerifier ==
  /\ pc = "init"
  /\ unknown' = Members
  /\ facts' = IF enableStore THEN claimed ELSE {}
  /\ pc' = IF subCmd = "dump-smt" THEN "done" ELSE "iterate"
  /\ UNCHANGED <<configVars, equivalent, inequivalent, cex, left, batch, iterations, report>>

\* buildStore or generateBaseQuery failed: llzk::ensure in main.
InitFails ==
  /\ pc = "init"
  /\ pc' = "fatal"
  /\ UNCHANGED <<configVars, facts, resultVars, left, batch, iterations, report>>

\* runIteration calls verifyStruct(currentResult.unknownMembers).
StartIteration ==
  /\ pc = "iterate"
  /\ pc' = "checking"
  /\ left' = unknown
  /\ batch' = NoBatch
  /\ iterations' = iterations + 1
  /\ UNCHANGED <<configVars, facts, resultVars, report>>

Visit(m) ==
  /\ pc = "checking"
  /\ m \in left
  /\ left' = left \ {m}
  /\ UNCHANGED <<pc, configVars, facts, resultVars, iterations, report>>

\* The members a model of baseQuery tells apart: none of whose equivalence it asserts.
Distinguishable == differs \ facts

\* cvc5 answers unsat: no model tells the two sides of m apart.
ProvedEquivalent(m) ==
  /\ m \notin Distinguishable
  /\ Visit(m)
  /\ batch' = [batch EXCEPT !.equivalent = @ \cup {m}]

\* Faulty: the sign is read as well.
ParsesAny(value) == TRUE

\* A value as cvc5 prints it: a negative one is (- n), which consumeInteger rejects.
Parses(value) == value >= 0

\* Faulty: the query compares the integers, not their residues.
ModelOfIntegers(m, w, c) == m \in Distinguishable /\ w # c

\* A model of the query: values w and c of m_w and m_c, different modulo the prime.
ModelOf(m, w, c) == m \in Distinguishable /\ w % Prime # c % Prime

\* cvc5 answers sat with a model that _parse_model can read.
ProvedInequivalent(m, w, c) ==
  /\ ModelOf(m, w, c)
  /\ Parses(w) /\ Parses(c)
  /\ Visit(m)
  /\ batch' = [batch EXCEPT !.inequivalent = @ \cup {m}, !.cex[m] = <<w, c>>]

\* cvc5 answers sat, but the model does not parse: proveEquivalence fails.
ModelUnreadable(m, w, c) ==
  /\ ModelOf(m, w, c)
  /\ ~(Parses(w) /\ Parses(c))
  /\ Visit(m)
  /\ UNCHANGED batch

\* cvc5 gives up after a second (--tlimit-per 1000), or prints something else.
NotProved(m) ==
  /\ Visit(m)
  /\ UNCHANGED batch

\* No usable cvc5, or it exits with a nonzero status: report_fatal_error.
SolverFails ==
  /\ pc = "checking"
  /\ left # {}
  /\ pc' = "fatal"
  /\ UNCHANGED <<configVars, facts, resultVars, left, batch, iterations, report>>

\* Faulty: a settled member stays among the unknown ones.
UpdateKeepsUnknown ==
  /\ unknown' = unknown
  /\ equivalent' = equivalent \cup batch.equivalent
  /\ inequivalent' = inequivalent \cup batch.inequivalent
  /\ UNCHANGED cex

\* Faulty: the last batch replaces the earlier ones.
UpdateReplaces ==
  /\ unknown' = unknown \ (batch.equivalent \cup batch.inequivalent)
  /\ equivalent' = batch.equivalent
  /\ inequivalent' = batch.inequivalent
  /\ cex' = batch.cex

\* StructVerificationResult::update
Update ==
  /\ unknown' = unknown \ (batch.equivalent \cup batch.inequivalent)
  /\ equivalent' = equivalent \cup batch.equivalent
  /\ inequivalent' = inequivalent \cup batch.inequivalent
  /\ cex' = [m \in Members |->
               IF m \in batch.inequivalent \ inequivalent THEN batch.cex[m] ELSE cex[m]]

\* Faulty: main iterates as long as something is unknown.
GoOnWhileUnknown == unknown' # {}

\* runIteration returns Change.
GoOn == batch.equivalent # {} \/ batch.inequivalent # {}

\* The rest of runIteration: merge the batch, and go on if it settled anything.
EndIteration ==
  /\ pc = "checking"
  /\ left = {}
  /\ Update
  /\ pc' = IF GoOn THEN "iterate" ELSE "report"
  /\ UNCHANGED <<configVars, facts, left, batch, iterations, report>>

\* FixpointVerifier::report: three sections, members that are not signals left out.
Report ==
  /\ pc = "report"
  /\ pc' = "done"
  /\ report' = [equivalent   |-> equivalent \cap Signals,
                inequivalent |-> inequivalent \cap Signals,
                unknown      |-> unknown \cap Signals]
  /\ UNCHANGED <<configVars, facts, resultVars, left, batch, iterations>>

Next ==
  \/ InitVerifier \/ InitFails \/ StartIteration \/ EndIteration \/ Report \/ SolverFails
  \/ \E m \in Members :
       \/ ProvedEquivalent(m) \/ NotProved(m)
       \/ \E w, c \in ModelValues : ProvedInequivalent(m, w, c) \/ ModelUnreadable(m, w, c)

Spec == Init /\ [][Next]_vars

\* main runs, and every call of cvc5 comes back (its time limit is one second).
FairSpec == Spec /\ WF_vars(Next)

-----------------------------------------------------------------------------
\* What the verifier owes its user.

\* From init on, every member is in exactly one of the three sets: update()
\* never looks whether a member already has a verdict
\* (DeductiveVerifier.h:47-60).
MembersPartitioned ==
  pc \in {"iterate", "checking", "report"} =>
    /\ unknown \cup equivalent \cup inequivalent = Members
    /\ unknown \cap equivalent = {}
    /\ unknown \cap inequivalent = {}
    /\ equivalent \cap inequivalent = {}

\* A member called equivalent is, and one called inequivalent comes with two
\* values that differ in the field, not only as integers
\* (DeductiveVerifier.cpp:145-149, 117-124).
VerdictsAreRight ==
  /\ equivalent \cap differs = {}
  /\ \A m \in inequivalent :
       m \in differs /\ cex[m] # NoModel /\ cex[m][1] % Prime # cex[m][2] % Prime

\* No later iteration takes back a verdict or its counterexample
\* (DeductiveVerifier.h:52, 58: insert only).
VerdictsAreFinal ==
  [][/\ equivalent \subseteq equivalent'
     /\ inequivalent \subseteq inequivalent'
     /\ \A m \in inequivalent : cex'[m] = cex[m]]_vars

\* Every signal is printed, in one section only (FixpointVerifier.cpp:63-95).
ReportIsComplete ==
  pc = "done" /\ subCmd = "verify" =>
    /\ report.equivalent \cup report.inequivalent \cup report.unknown = Signals
    /\ report.unknown \cap (report.equivalent \cup report.inequivalent) = {}
    /\ report.equivalent \cap report.inequivalent = {}

\* The loop of main.cpp:232 runs at most once more than there are members,
\* however the time limits fall (FixpointVerifier.cpp:45-54).
IterationsBounded ==
  iterations + Cardinality(unknown) <=
    Cardinality(Members) + (IF pc \in {"checking", "report", "done", "fatal"} THEN 1 ELSE 0)

\* The verdicts and the phase of VerificationContract.
Verdict(m) ==
  IF m \in equivalent THEN "equivalent"
  ELSE IF m \in inequivalent THEN "inequivalent" ELSE "unknown"

Phase ==
  CASE pc = "done" -> "reported" [] pc = "fatal" -> "aborted" [] OTHER -> "running"

Contract == INSTANCE VerificationContract
              WITH verdict <- [m \in Members |-> Verdict(m)], phase <- Phase

\* lleq verify implements VerificationContract: it always ends.
ImplementsContract == Contract!FairSpec
===============================================================================
