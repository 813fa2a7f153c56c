----------------------- MODULE FixpointVerifier_proofs -----------------------
(* Theorems about FixpointVerifier, for any struct, prime and solver.        *)
EXTENDS FixpointVerifier, FiniteSetTheorems, TLAPS

\* The types of the verifier's state; a counterexample is a pair of naturals
\* because consumeInteger takes no sign (DeductiveVerifier.cpp:31-51).
THEOREM TypeCorrect == Spec => []TypeOK
<1> USE DEF TypeOK, configVars, resultVars, NoBatch, NoReport
<1>1. Init => TypeOK
  BY MembersAssumption DEF Init
<1>2. TypeOK /\ [Next]_vars => TypeOK'
  <2> SUFFICES ASSUME TypeOK, [Next]_vars PROVE TypeOK'
    OBVIOUS
  <2>1. CASE InitVerifier
    BY <2>1 DEF InitVerifier
  <2>2. CASE InitFails \/ SolverFails
    BY <2>2 DEF InitFails, SolverFails
  <2>3. CASE StartIteration
    BY <2>3 DEF StartIteration
  <2>4. CASE EndIteration
    BY <2>4 DEF EndIteration, Update
  <2>5. CASE Report
    BY <2>5, MembersAssumption DEF Report
  <2>6. ASSUME NEW m \in Members, ProvedEquivalent(m) PROVE TypeOK'
    BY <2>6 DEF ProvedEquivalent, Visit
  <2>7. ASSUME NEW m \in Members, NotProved(m) PROVE TypeOK'
    BY <2>7 DEF NotProved, Visit
  <2>8. ASSUME NEW m \in Members, NEW w \in ModelValues, NEW c \in ModelValues,
               ProvedInequivalent(m, w, c)
        PROVE  TypeOK'
    <3>1. <<w, c>> \in Counterexamples
      BY <2>8, ModelValuesAssumption DEF ProvedInequivalent, Parses, Counterexamples
    <3>2. QED
      BY <2>8, <3>1 DEF ProvedInequivalent, Visit
  <2>9. ASSUME NEW m \in Members, NEW w \in ModelValues, NEW c \in ModelValues,
               ModelUnreadable(m, w, c)
        PROVE  TypeOK'
    BY <2>9 DEF ModelUnreadable, Visit
  <2>10. CASE UNCHANGED vars
    BY <2>10 DEF vars
  <2>11. QED
    BY <2>1, <2>2, <2>3, <2>4, <2>5, <2>6, <2>7, <2>8, <2>9, <2>10 DEF Next
<1>3. QED
  BY <1>1, <1>2, PTL DEF Spec

-----------------------------------------------------------------------------
(* The inductive invariant.  While verifyStruct runs, its local result holds *)
(* verdicts that currentResult does not have yet: they too must be right,    *)
(* and about members that are unknown and no longer to be visited.           *)

RealPairs == {pair \in Counterexamples : pair[1] % Prime # pair[2] % Prime}

\* What the store adds to the query hides no difference.
FactsAreTrue == facts \cap differs = {}

BatchIsRight ==
  /\ batch.equivalent \cap differs = {}
  /\ \A m \in batch.inequivalent : m \in differs /\ batch.cex[m] \in RealPairs

BatchIsNew ==
  pc = "checking" =>
    /\ left \subseteq unknown
    /\ batch.equivalent \subseteq unknown \ left
    /\ batch.inequivalent \subseteq unknown \ left

ResultIsRight ==
  /\ equivalent \cap differs = {}
  /\ \A m \in inequivalent : m \in differs /\ cex[m] \in RealPairs

NothingBeforeInit ==
  pc = "init" => equivalent = {} /\ inequivalent = {} /\ batch = NoBatch

IInv ==
  /\ FactsAreTrue
  /\ BatchIsRight
  /\ BatchIsNew
  /\ ResultIsRight
  /\ NothingBeforeInit
  /\ MembersPartitioned

LEMMA InitiallyInv == Init => IInv
BY DEF Init, IInv, FactsAreTrue, BatchIsRight, BatchIsNew, ResultIsRight, NothingBeforeInit,
       MembersPartitioned, NoBatch

LEMMA Inductive ==
  ASSUME IInv, TypeOK, [Next]_vars
  PROVE  IInv'
<1> USE DEF IInv, FactsAreTrue, BatchIsRight, BatchIsNew, ResultIsRight, NothingBeforeInit,
            MembersPartitioned, TypeOK, configVars, resultVars
<1>1. CASE InitVerifier
  BY <1>1 DEF InitVerifier, NoBatch
<1>2. CASE InitFails \/ SolverFails
  BY <1>2 DEF InitFails, SolverFails
<1>3. CASE StartIteration
  BY <1>3 DEF StartIteration, NoBatch
<1>4. CASE EndIteration
  <2>1. ResultIsRight'
    BY <1>4 DEF EndIteration, Update
  <2>2. MembersPartitioned'
    BY <1>4 DEF EndIteration, Update
  <2>3. QED
    BY <1>4, <2>1, <2>2 DEF EndIteration, Update
<1>5. CASE Report
  BY <1>5 DEF Report
<1>6. ASSUME NEW m \in Members, ProvedEquivalent(m) PROVE IInv'
  BY <1>6 DEF ProvedEquivalent, Distinguishable, Visit
<1>7. ASSUME NEW m \in Members, NotProved(m) PROVE IInv'
  BY <1>7 DEF NotProved, Visit
<1>8. ASSUME NEW m \in Members, NEW w \in ModelValues, NEW c \in ModelValues,
             ProvedInequivalent(m, w, c)
      PROVE  IInv'
  <2>1. m \in differs /\ <<w, c>> \in RealPairs
    BY <1>8, ModelValuesAssumption DEF ProvedInequivalent, ModelOf, Distinguishable, Parses, RealPairs, Counterexamples
  <2>2. BatchIsRight'
    BY <1>8, <2>1 DEF ProvedInequivalent, Visit
  <2>3. QED
    BY <1>8, <2>2 DEF ProvedInequivalent, Visit
<1>9. ASSUME NEW m \in Members, NEW w \in ModelValues, NEW c \in ModelValues,
             ModelUnreadable(m, w, c)
      PROVE  IInv'
  BY <1>9 DEF ModelUnreadable, Visit
<1>10. CASE UNCHANGED vars
  BY <1>10 DEF vars
<1>11. QED
  BY <1>1, <1>2, <1>3, <1>4, <1>5, <1>6, <1>7, <1>8, <1>9, <1>10 DEF Next

LEMMA InvariantHolds == Spec => []IInv
<1>1. IInv /\ TypeOK /\ [Next]_vars => IInv'
  BY Inductive
<1>2. QED
  BY InitiallyInv, TypeCorrect, <1>1, PTL DEF Spec

\* Every member is in exactly one set of the result, however often it was asked about.
THEOREM MembersPartitionedHolds == Spec => []MembersPartitioned
<1>1. IInv => MembersPartitioned
  BY DEF IInv
<1>2. QED
  BY <1>1, InvariantHolds, PTL

\* Every verdict is right, and every counterexample differs in the field.
THEOREM VerdictsAreRightHolds == Spec => []VerdictsAreRight
<1>1. IInv => VerdictsAreRight
  BY DEF IInv, ResultIsRight, RealPairs, VerdictsAreRight, Counterexamples, NoModel
<1>2. QED
  BY <1>1, InvariantHolds, PTL

\* No step takes back a verdict or changes a counterexample.
THEOREM VerdictsAreFinalHolds == Spec => VerdictsAreFinal
<1>1. TypeOK /\ [Next]_vars =>
        [/\ equivalent \subseteq equivalent'
         /\ inequivalent \subseteq inequivalent'
         /\ \A m \in inequivalent : cex'[m] = cex[m]]_vars
  BY DEF Next, vars, TypeOK, configVars, resultVars, InitVerifier, InitFails, SolverFails,
         StartIteration, EndIteration, Update, Report, ProvedEquivalent, NotProved,
         ProvedInequivalent, ModelUnreadable, Visit
<1>2. QED
  BY TypeCorrect, <1>1, PTL DEF Spec, VerdictsAreFinal

-----------------------------------------------------------------------------
(* The loop of main ends: an iteration after which it goes on shrinks unknown. *)

BoundInv == IterationsBounded /\ (pc = "init" => iterations = 0)

LEMMA UnknownShrinks ==
  ASSUME TypeOK, BatchIsNew, EndIteration, GoOn
  PROVE  Cardinality(unknown') <= Cardinality(unknown) - 1
<1>1. PICK m \in unknown : unknown' \subseteq unknown \ {m}
  BY DEF EndIteration, Update, GoOn, BatchIsNew
<1>2. IsFiniteSet(unknown)
  BY MembersAssumption, FS_Subset DEF TypeOK
<1>3. /\ IsFiniteSet(unknown \ {m})
      /\ Cardinality(unknown \ {m}) = Cardinality(unknown) - 1
  BY <1>2, FS_RemoveElement
<1>4. Cardinality(unknown') <= Cardinality(unknown \ {m})
  BY <1>1, <1>3, FS_Subset
<1>5. QED
  BY <1>3, <1>4

LEMMA BoundInductive ==
  ASSUME TypeOK, TypeOK', BatchIsNew, BoundInv, [Next]_vars
  PROVE  BoundInv'
<1> USE DEF BoundInv, IterationsBounded
<1>1. /\ Cardinality(Members) \in Nat
      /\ Cardinality(unknown) \in Nat
      /\ Cardinality(unknown') \in Nat
      /\ iterations \in Nat
  BY MembersAssumption, FS_Subset, FS_CardinalityType DEF TypeOK
<1>2. CASE InitVerifier
  BY <1>1, <1>2 DEF InitVerifier
<1>3. CASE StartIteration
  BY <1>1, <1>3 DEF StartIteration, resultVars
<1>4. CASE EndIteration
  <2>1. CASE GoOn
    BY <1>1, <1>4, <2>1, UnknownShrinks DEF EndIteration
  <2>2. CASE ~GoOn
    <3>1. unknown' = unknown
      BY <1>4, <2>2 DEF EndIteration, Update, GoOn
    <3>2. QED
      BY <1>1, <1>4, <2>2, <3>1 DEF EndIteration
  <2>3. QED
    BY <2>1, <2>2
<1>5. ASSUME InitFails \/ SolverFails \/ Report PROVE BoundInv'
  BY <1>1, <1>5 DEF InitFails, SolverFails, Report, resultVars
<1>6. ASSUME NEW m \in Members, Visit(m) PROVE BoundInv'
  BY <1>1, <1>6 DEF Visit, resultVars
<1>7. CASE UNCHANGED vars
  BY <1>7 DEF vars, resultVars
<1>8. QED
  BY <1>2, <1>3, <1>4, <1>5, <1>6, <1>7
     DEF Next, ProvedEquivalent, NotProved, ProvedInequivalent, ModelUnreadable

\* `while (runIteration() == Change)' runs at most |Members| + 1 times.
THEOREM IterationsBoundedHolds == Spec => []IterationsBounded
<1>1. Init => BoundInv
  BY FS_EmptySet, FS_CardinalityType, MembersAssumption DEF Init, BoundInv, IterationsBounded
<1>2. IInv /\ TypeOK /\ TypeOK' /\ BoundInv /\ [Next]_vars => BoundInv'
  BY BoundInductive DEF IInv
<1>3. BoundInv => IterationsBounded
  BY DEF BoundInv
<1>4. QED
  BY <1>1, <1>2, <1>3, InvariantHolds, TypeCorrect, PTL DEF Spec

\* A verification ends by reporting: no other step reaches the end.
LEMMA DoneIsReported ==
  ASSUME TypeOK, Next, pc' = "done", subCmd' = "verify"
  PROVE  Report
<1>1. subCmd' = subCmd
  BY DEF Next, configVars, InitVerifier, InitFails, StartIteration, EndIteration, Report,
         SolverFails, ProvedEquivalent, NotProved, ProvedInequivalent, ModelUnreadable, Visit
<1>2. ~(InitVerifier \/ InitFails \/ StartIteration \/ EndIteration \/ SolverFails)
  BY <1>1 DEF InitVerifier, InitFails, StartIteration, EndIteration, SolverFails
<1>3. \A m \in Members : ~Visit(m)
  BY DEF Visit
<1>4. QED
  BY <1>2, <1>3 DEF Next, ProvedEquivalent, NotProved, ProvedInequivalent, ModelUnreadable

\* The report of `lleq verify' leaves no signal out and names none twice, since
\* it is taken from a partition of the members.
THEOREM ReportIsCompleteHolds == Spec => []ReportIsComplete
<1>1. ASSUME IInv, Report
      PROVE  ReportIsComplete'
  <2>1. /\ report' = [equivalent   |-> equivalent \cap Signals,
                      inequivalent |-> inequivalent \cap Signals,
                      unknown      |-> unknown \cap Signals]
        /\ unknown \cup equivalent \cup inequivalent = Members
        /\ unknown \cap (equivalent \cup inequivalent) = {}
        /\ equivalent \cap inequivalent = {}
    BY <1>1 DEF Report, IInv, MembersPartitioned
  <2>2. QED
    BY <2>1, MembersAssumption DEF ReportIsComplete
<1>2. ReportIsComplete /\ UNCHANGED vars => ReportIsComplete'
  BY DEF ReportIsComplete, vars, configVars
<1>3. TypeOK /\ IInv /\ Next /\ ReportIsComplete => ReportIsComplete'
  BY <1>1, DoneIsReported DEF ReportIsComplete
<1>4. Init => ReportIsComplete
  BY DEF ReportIsComplete, Init
<1>5. QED
  BY <1>2, <1>3, <1>4, InvariantHolds, TypeCorrect, PTL DEF Spec

-----------------------------------------------------------------------------
(* The refinement.  Only the merge of a batch settles members, all at once.  *)

\* The merge settles the members of the batch, each as the contract asks.
LEMMA MergeSettles ==
  ASSUME TypeOK, IInv, EndIteration
  PROVE  Contract!Settle(batch.equivalent \cup batch.inequivalent)
<1> DEFINE S == batch.equivalent \cup batch.inequivalent
<1> USE DEF TypeOK
<1>1. S \subseteq unknown /\ unknown \cap (equivalent \cup inequivalent) = {}
  BY DEF EndIteration, IInv, BatchIsNew, MembersPartitioned
<1>2. \A m \in S : m \in Members /\ Verdict(m) = "unknown"
  BY <1>1 DEF Verdict
<1>3. /\ equivalent' = equivalent \cup batch.equivalent
      /\ inequivalent' = inequivalent \cup batch.inequivalent
      /\ differs' = differs
  BY DEF EndIteration, Update, configVars
<1>4. ASSUME NEW m \in S PROVE Verdict(m)' = Contract!Right(m)
  <2>1. CASE m \in differs
    <3>1. m \notin equivalent' /\ m \in inequivalent'
      BY <1>1, <1>3, <2>1 DEF IInv, BatchIsRight
    <3>2. QED
      BY <2>1, <3>1 DEF Verdict, Contract!Right
  <2>2. CASE m \notin differs
    <3>1. m \in equivalent'
      BY <1>3, <2>2 DEF IInv, BatchIsRight
    <3>2. QED
      BY <2>2, <3>1 DEF Verdict, Contract!Right
  <2>3. QED
    BY <2>1, <2>2
<1>5. ASSUME NEW m \in Members \ S PROVE Verdict(m)' = Verdict(m)
  BY <1>3 DEF Verdict
<1>6. Phase = "running" /\ Phase' = "running"
  BY DEF EndIteration, Phase
<1>7. [m \in Members |-> Verdict(m)]' =
        [m \in Members |-> IF m \in S THEN Contract!Right(m) ELSE [k \in Members |-> Verdict(k)][m]]
  BY <1>4, <1>5
<1>8. QED
  BY <1>2, <1>3, <1>6, <1>7 DEF Contract!Settle

LEMMA ContractStep ==
  ASSUME TypeOK, IInv, [Next]_vars
  PROVE  [Contract!Next]_Contract!vars
<1> USE DEF configVars, resultVars
<1>1. ASSUME UNCHANGED <<differs, equivalent, inequivalent>>
      PROVE  /\ [m \in Members |-> Verdict(m)]' = [m \in Members |-> Verdict(m)]
             /\ differs' = differs
  BY <1>1 DEF Verdict
<1>2. CASE EndIteration
  <2>1. batch.equivalent \cup batch.inequivalent \in SUBSET Members
    BY DEF TypeOK
  <2>2. QED
    BY <1>2, <2>1, MergeSettles DEF Contract!Next
<1>3. CASE InitFails \/ SolverFails \/ Report
  <2>1. Phase = "running" /\ Phase' \in {"reported", "aborted"}
    BY <1>3 DEF InitFails, SolverFails, Report, Phase
  <2>2. Contract!Finish
    BY <1>1, <1>3, <2>1 DEF InitFails, SolverFails, Report, Contract!Finish
  <2>3. QED
    BY <2>2 DEF Contract!Next
<1>4. CASE InitVerifier
  <2>1. CASE subCmd = "dump-smt"
    <3>1. Contract!Finish
      BY <1>1, <1>4, <2>1 DEF InitVerifier, Contract!Finish, Phase
    <3>2. QED
      BY <3>1 DEF Contract!Next
  <2>2. CASE subCmd # "dump-smt"
    BY <1>1, <1>4, <2>2 DEF InitVerifier, Contract!vars, Phase
  <2>3. QED
    BY <2>1, <2>2
<1>5. CASE StartIteration
  BY <1>1, <1>5 DEF StartIteration, Contract!vars, Phase
<1>6. ASSUME NEW m \in Members, Visit(m) PROVE UNCHANGED Contract!vars
  BY <1>1, <1>6 DEF Visit, Contract!vars, Phase
<1>7. CASE UNCHANGED vars
  BY <1>1, <1>7 DEF vars, Contract!vars, Phase
<1>8. QED
  BY <1>2, <1>3, <1>4, <1>5, <1>6, <1>7 DEF Next, ProvedEquivalent, NotProved, ProvedInequivalent, ModelUnreadable

\* lleq verify implements its contract, as far as safety goes: whatever cvc5
\* answers, leaves open or prints, each verdict is added once and is right.
THEOREM VerifierImplementsContract == Spec => Contract!Spec
<1>1. Init => Contract!Init
  BY DEF Init, Contract!Init, Verdict, Phase
<1>2. TypeOK /\ IInv /\ [Next]_vars => [Contract!Next]_Contract!vars
  BY ContractStep
<1>3. QED
  BY <1>1, <1>2, TypeCorrect, InvariantHolds, PTL DEF Spec, Contract!Spec
=============================================================================
