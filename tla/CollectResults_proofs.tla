------------------------ MODULE CollectResults_proofs ------------------------
(* Theorems about CollectResults, for pipes and queries of any size.         *)
EXTENDS CollectResults, TLAPS

\* What TypeOK leaves to the other properties, and it needs to be inductive:
\* where the script is, and that what is left to write is never negative.
StateTypes ==
  /\ pc \in {"spawnLleq", "spawnZ3", "waitZ3", "waitLleq", "classify", "kill", "reap", "done", "raised"}
  /\ toOut \in Nat /\ got \in Nat
  /\ unsupported \in BOOLEAN /\ rejected \in BOOLEAN /\ truth \in {"unsat", "sat"}

-----------------------------------------------------------------------------
(* The inductive invariant.  The row is computed from what the processes left *)
(* behind, so it is about what stands when a process has ended: nobody changes *)
(* its exit status or adds to its output any more.                            *)

Spawned(p) == proc[p] # "none"

\* How far the script is says which children exist and which were waited for.
StageIsKnown ==
  /\ pc = "spawnLleq" => ~Spawned("lleq")
  /\ pc = "spawnZ3" => Spawned("lleq")
  /\ pc \in {"spawnLleq", "spawnZ3"} => ~Spawned("z3")
  /\ pc \notin {"spawnLleq", "spawnZ3", "raised"} => \A p \in Procs : Spawned(p)
  /\ pc \in {"waitLleq", "classify"} => proc["z3"] = "reaped"
  /\ pc = "classify" => proc["lleq"] = "reaped"
  /\ pc = "done" /\ row # "timeout" => \A p \in Procs : proc[p] = "reaped"

\* z3 prints about the whole query only, and never that it is unsatisfiable when it is not.
PrintedAboutQuery ==
  /\ printed = "none" <=> got < QueryPieces
  /\ printed = "unsat" => truth = "unsat"
  /\ printed = "sat" => truth = "sat" \/ rejected

Stopped(p) == proc[p] \in {"doomed", "exiting", "zombie", "reaped"}

\* The except clause has stopped the processes it has visited.
VisitedAreStopped ==
  /\ pc = "kill" => \A p \in Procs \ victims : Stopped(p)
  /\ pc = "reap" => \A p \in Procs : Stopped(p)

\* lleq ends by itself with status 0 only between two queries.
HelperIsExplained ==
  helper = "running" => Spawned("lleq") /\ (Closed("lleq") => code["lleq"] # 0)

\* z3 reads to the end of its input, which is when lleq has closed it.
Z3OutlivesLleq == Closed("z3") /\ code["z3"] # 2 => Closed("lleq")

IInv ==
  /\ StateTypes
  /\ TypeOK
  /\ StageIsKnown
  /\ PrintedAboutQuery
  /\ VisitedAreStopped
  /\ HelperIsExplained
  /\ Z3OutlivesLleq
  /\ VerifiedIsTrue
  /\ CounterexampleIsTrue
  /\ NothingIsLeft

LEMMA Sizes ==
  /\ Capacity \in Nat /\ MaxStderr \in Nat /\ QueryPieces \in Nat
  /\ 0 < Capacity /\ 0 < QueryPieces
BY PipesAreFinite

LEMMA InitiallyInv == Init => IInv
<1> SUFFICES ASSUME Init PROVE IInv
  OBVIOUS
<1>1. StateTypes
  <2>1. unsupported \in BOOLEAN
    BY DEF Init
  <2>2. QED
    BY <2>1, Sizes DEF Init, StateTypes
<1>2. TypeOK
  BY Sizes DEF Init, TypeOK
<1>3. QED
  BY <1>1, <1>2, Sizes
     DEF Init, IInv, StageIsKnown, Spawned, PrintedAboutQuery, VisitedAreStopped, HelperIsExplained,
         Z3OutlivesLleq, VerifiedIsTrue, CounterexampleIsTrue, NothingIsLeft, Ended, Closed, Procs

\* What a step of lleq, of z3 or of the kernel does to the processes.
LEMMA ExitTypes ==
  ASSUME TypeOK, NEW p \in Procs, NEW status \in 0 .. 2, Exit(p, status)
  PROVE  /\ proc' \in [Procs -> {"none", "running", "doomed", "exiting", "zombie", "reaped"}]
         /\ code' \in [Procs -> 0 .. 2]
         /\ proc'[p] = "exiting" /\ code'[p] = status
         /\ \A q \in Procs \ {p} : proc'[q] = proc[q] /\ code'[q] = code[q]
BY DEF TypeOK, Exit

LEMMA TypesOfLleq ==
  ASSUME IInv,
         LleqStartsSolver \/ LleqEndsSolver \/ LleqWritesStderr \/ LleqWritesQuery \/ LleqReturns \/ LleqFails
  PROVE  StateTypes' /\ TypeOK'
<1> USE Sizes DEF IInv, StateTypes, TypeOK, script, z3Vars
<1>1. CASE LleqStartsSolver \/ LleqEndsSolver
  BY <1>1 DEF LleqStartsSolver, LleqEndsSolver
<1>2. CASE LleqWritesStderr
  BY <1>2 DEF LleqWritesStderr
<1>3. CASE LleqWritesQuery
  BY <1>3 DEF LleqWritesQuery
<1>4. CASE LleqReturns \/ LleqFails
  <2>1. PICK status \in 0 .. 2 : Exit("lleq", status)
    BY <1>4 DEF LleqReturns, LleqFails
  <2>2. proc' \in [Procs -> {"none", "running", "doomed", "exiting", "zombie", "reaped"}] /\ code' \in [Procs -> 0 .. 2]
    BY <2>1, ExitTypes DEF Procs
  <2>3. QED
    BY <1>4, <2>2 DEF LleqReturns, LleqFails, lleqVars
<1>5. QED
  BY <1>1, <1>2, <1>3, <1>4

LEMMA TypesOfZ3 ==
  ASSUME IInv, Z3Reads \/ Z3Exits \/ Z3Crashes \/ \E p \in Procs : Dies(p) \/ BecomesZombie(p)
  PROVE  StateTypes' /\ TypeOK'
<1> USE Sizes DEF IInv, StateTypes, TypeOK, script, lleqVars, z3Vars
<1>1. CASE Z3Reads
  <2>1. outPipe' \in 0 .. Capacity /\ got' \in Nat /\ toOut' + outPipe' + got' = QueryPieces
    BY <1>1 DEF Z3Reads
  <2>2. printed' \in {"none"} \cup Answers
    BY <1>1 DEF Z3Reads, Answers
  <2>3. rejected' \in BOOLEAN
    BY <1>1 DEF Z3Reads
  <2>4. QED
    BY <1>1, <2>1, <2>2, <2>3 DEF Z3Reads
<1>2. CASE Z3Exits \/ Z3Crashes \/ \E p \in Procs : Dies(p)
  <2>1. PICK p \in Procs, status \in 0 .. 2 : Exit(p, status)
    BY <1>2 DEF Z3Exits, Z3Crashes, Dies, Status, Procs
  <2>2. proc' \in [Procs -> {"none", "running", "doomed", "exiting", "zombie", "reaped"}] /\ code' \in [Procs -> 0 .. 2]
    BY <2>1, ExitTypes
  <2>3. QED
    BY <1>2, <2>2 DEF Z3Exits, Z3Crashes, Dies
<1>3. CASE \E p \in Procs : BecomesZombie(p)
  BY <1>3 DEF BecomesZombie
<1>4. QED
  BY <1>1, <1>2, <1>3

LEMMA TypesOfScript ==
  ASSUME IInv, RunWp
  PROVE  StateTypes' /\ TypeOK'
<1> USE Sizes DEF IInv, StateTypes, TypeOK, environment, lleqVars, z3Vars
<1>1. CASE SpawnLleq \/ SpawnZ3
  BY <1>1 DEF SpawnLleq, SpawnZ3, Popen
<1>2. CASE WaitZ3 \/ WaitLleq
  BY <1>2 DEF WaitZ3, WaitLleq, Communicate, Waiting
<1>3. ASSUME NEW p \in Procs, TimesOut(p) PROVE StateTypes' /\ TypeOK'
  BY <1>3 DEF TimesOut, Waiting, Procs
<1>4. CASE Kill
  BY <1>4 DEF Kill, Victim, Procs
<1>5. CASE StartReaping
  BY <1>5 DEF StartReaping
<1>6. CASE Reap
  BY <1>6 DEF Reap, Victim, Procs
<1>7. CASE RecordTimeout
  BY <1>7 DEF RecordTimeout, Rows
<1>8. CASE Classify
  <2>1. Result \in Rows
    BY DEF Result, Rows, Answers
  <2>2. QED
    BY <1>8, <2>1 DEF Classify
<1>9. QED
  BY <1>1, <1>2, <1>3, <1>4, <1>5, <1>6, <1>7, <1>8 DEF RunWp

LEMMA TypesInductive ==
  ASSUME IInv, [Next]_vars
  PROVE  StateTypes' /\ TypeOK'
<1>1. CASE UNCHANGED vars
  BY <1>1 DEF vars, script, lleqVars, z3Vars, IInv, StateTypes, TypeOK
<1>2. QED
  BY <1>1, TypesOfLleq, TypesOfZ3, TypesOfScript DEF Next

-----------------------------------------------------------------------------
(* The processes.                                                           *)

\* While lleq or z3 runs, the row is not recorded from their answers, so no
\* later step of theirs can contradict it.
LEMMA LleqKeepsInv ==
  ASSUME IInv,
         LleqStartsSolver \/ LleqEndsSolver \/ LleqWritesStderr \/ LleqWritesQuery \/ LleqReturns \/ LleqFails
  PROVE  IInv'
<1> USE DEF IInv, StateTypes, TypeOK, StageIsKnown, Spawned, PrintedAboutQuery, Stopped, VisitedAreStopped,
            HelperIsExplained, Z3OutlivesLleq, VerifiedIsTrue, CounterexampleIsTrue, NothingIsLeft,
            Ended, Closed, script, z3Vars, lleqVars, Procs
<1>1. StateTypes' /\ TypeOK'
  BY TypesOfLleq
<1>2. CASE LleqStartsSolver \/ LleqEndsSolver \/ LleqWritesStderr \/ LleqWritesQuery
  BY <1>1, <1>2 DEF LleqStartsSolver, LleqEndsSolver, LleqWritesStderr, LleqWritesQuery
<1>3. ASSUME NEW status \in 0 .. 2, Exit("lleq", status), proc["lleq"] = "running",
             status = 0 => helper = "none",
             UNCHANGED <<script, lleqVars, z3Vars, truth>>
      PROVE  IInv'
  BY <1>1, <1>3, ExitTypes
<1>4. CASE LleqReturns
  BY <1>3, <1>4 DEF LleqReturns
<1>5. CASE LleqFails
  BY <1>3, <1>5 DEF LleqFails
<1>6. QED
  BY <1>2, <1>4, <1>5

LEMMA Z3KeepsInv ==
  ASSUME IInv, Z3Reads \/ Z3Exits \/ Z3Crashes \/ \E p \in Procs : Dies(p) \/ BecomesZombie(p)
  PROVE  IInv'
<1> USE DEF IInv, StateTypes, TypeOK, StageIsKnown, Spawned, PrintedAboutQuery, Stopped, VisitedAreStopped,
            HelperIsExplained, Z3OutlivesLleq, VerifiedIsTrue, CounterexampleIsTrue, NothingIsLeft,
            Ended, Closed, script, z3Vars, lleqVars, Procs
<1>1. StateTypes' /\ TypeOK'
  BY TypesOfZ3
<1>2. CASE Z3Reads
  <2>1. got < QueryPieces /\ got' <= QueryPieces
    BY <1>1, <1>2, Sizes DEF Z3Reads
  <2>2. rejected => rejected'
    BY <1>2 DEF Z3Reads
  <2>3. PrintedAboutQuery'
    <3>1. CASE got' < QueryPieces
      BY <1>2, <2>1, <3>1 DEF Z3Reads
    <3>2. CASE got' = QueryPieces
      BY <1>2, <2>1, <3>2 DEF Z3Reads
    <3>3. QED
      BY <1>1, <2>1, <3>1, <3>2, Sizes
  <2>4. VerifiedIsTrue' /\ CounterexampleIsTrue'
    BY <1>2, <2>1, <2>2, Sizes DEF Z3Reads
  <2>5. QED
    BY <1>1, <1>2, <2>3, <2>4 DEF Z3Reads
<1>3. ASSUME NEW p \in Procs, NEW status \in 0 .. 2, Exit(p, status), proc[p] \in {"running", "doomed"},
             p = "z3" /\ status # 2 => Closed("lleq"),
             p = "lleq" => status = 2,
             UNCHANGED <<script, lleqVars, z3Vars, truth>>
      PROVE  IInv'
  <2>1. CASE p = "z3"
    BY <1>1, <1>3, <2>1, ExitTypes
  <2>2. CASE p = "lleq"
    BY <1>1, <1>3, <2>2, ExitTypes
  <2>3. QED
    BY <2>1, <2>2
<1>4. CASE Z3Exits
  BY <1>3, <1>4 DEF Z3Exits, Status
<1>5. CASE Z3Crashes
  BY <1>3, <1>5 DEF Z3Crashes
<1>6. ASSUME NEW p \in Procs, Dies(p) PROVE IInv'
  BY <1>3, <1>6 DEF Dies
<1>7. ASSUME NEW p \in Procs, BecomesZombie(p) PROVE IInv'
  <2>1. \A q \in Procs : (Closed(q)' <=> Closed(q)) /\ (Stopped(q)' <=> Stopped(q)) /\ (Spawned(q)' <=> Spawned(q))
    BY <1>7 DEF BecomesZombie
  <2>2. \A q \in Procs : (proc'[q] = "reaped" <=> proc[q] = "reaped") /\ (proc'[q] = "doomed" <=> proc[q] = "doomed")
    BY <1>7 DEF BecomesZombie
  <2>3. UNCHANGED <<script, code, lleqVars, z3Vars, truth>>
    BY <1>7 DEF BecomesZombie
  <2>4. QED
    BY <1>1, <2>1, <2>2, <2>3
<1>8. QED
  BY <1>2, <1>4, <1>5, <1>6, <1>7

-----------------------------------------------------------------------------
(* The script.                                                              *)

LEMMA ScriptKeepsInv ==
  ASSUME IInv, RunWp
  PROVE  IInv'
<1> USE DEF IInv, StateTypes, TypeOK, StageIsKnown, Spawned, PrintedAboutQuery, Stopped, VisitedAreStopped,
            HelperIsExplained, Z3OutlivesLleq, VerifiedIsTrue, CounterexampleIsTrue, NothingIsLeft,
            Ended, Closed, environment, z3Vars, lleqVars, Procs
<1>1. StateTypes' /\ TypeOK'
  BY TypesOfScript
<1>2. CASE SpawnLleq \/ SpawnZ3
  <2>1. CASE UNCHANGED proc
    BY <1>1, <1>2, <2>1 DEF SpawnLleq, SpawnZ3, Popen
  <2>2. CASE SpawnLleq /\ proc' = [proc EXCEPT !["lleq"] = "running"]
    <3>1. proc["lleq"] = "none" /\ proc["z3"] = "none" /\ proc'["lleq"] = "running" /\ proc'["z3"] = "none"
      BY <2>2 DEF SpawnLleq
    <3>2. helper # "running" /\ row = "none" /\ pc' \in {"spawnZ3", "raised"}
      BY <2>2, <3>1 DEF SpawnLleq, Popen
    <3>3. UNCHANGED <<victims, row, deadline, code, environment>>
      BY <2>2 DEF SpawnLleq
    <3>4. QED
      BY <1>1, <3>1, <3>2, <3>3
  <2>3. CASE SpawnZ3 /\ proc' = [proc EXCEPT !["z3"] = "running"]
    BY <1>1, <2>3 DEF SpawnZ3, Popen
  <2>4. QED
    BY <1>2, <2>1, <2>2, <2>3 DEF SpawnLleq, SpawnZ3, Popen
<1>3. CASE WaitZ3 \/ WaitLleq
  <2>1. ASSUME NEW p \in Procs, NEW next \in {"waitLleq", "classify"}, Communicate(p, next)
        PROVE  /\ \A q \in Procs : (Closed(q)' <=> Closed(q)) /\ Spawned(q)'
               /\ proc'[p] = "reaped" /\ \A q \in Procs : proc[q] = "reaped" => proc'[q] = "reaped"
               /\ pc' = next /\ UNCHANGED <<row, deadline, code, environment>>
    BY <2>1 DEF Communicate, Waiting
  <2>2. CASE WaitZ3
    <3>1. pc' = "waitLleq" /\ proc'["z3"] = "reaped" /\ UNCHANGED <<row, deadline, code, environment>>
      BY <2>1, <2>2 DEF WaitZ3
    <3>2. \A q \in Procs : (Closed(q)' <=> Closed(q)) /\ Spawned(q)'
      BY <2>1, <2>2 DEF WaitZ3
    <3>3. QED
      BY <1>1, <3>1, <3>2
  <2>3. CASE WaitLleq
    <3>1. pc' = "classify" /\ proc'["lleq"] = "reaped" /\ UNCHANGED <<row, deadline, code, environment>>
      BY <2>1, <2>3 DEF WaitLleq
    <3>2. \A q \in Procs : (Closed(q)' <=> Closed(q)) /\ Spawned(q)'
      BY <2>1, <2>3 DEF WaitLleq
    <3>3. proc'["z3"] = "reaped"
      BY <2>1, <2>3 DEF WaitLleq, Communicate, Waiting
    <3>4. QED
      BY <1>1, <3>1, <3>2, <3>3
  <2>4. QED
    BY <1>3, <2>2, <2>3
<1>4. ASSUME NEW p \in Procs, TimesOut(p) PROVE IInv'
  BY <1>1, <1>4 DEF TimesOut, Waiting
<1>5. CASE Kill
  <2>1. Victim \in Procs
    BY DEF Victim
  <2>2. \A p \in Procs : /\ Closed(p)' <=> Closed(p)
                         /\ Stopped(p) => Stopped(p)'
                         /\ Spawned(p) => Spawned(p)'
    BY <1>5, <2>1 DEF Kill
  <2>3. proc'[Victim] \in {"doomed", "exiting", "zombie", "reaped"}
    BY <1>5, <2>1 DEF Kill
  <2>4. QED
    BY <1>1, <1>5, <2>1, <2>2, <2>3 DEF Kill
<1>6. CASE StartReaping
  BY <1>1, <1>6 DEF StartReaping
<1>7. CASE Reap
  <2>1. Victim \in Procs
    BY DEF Victim
  <2>2. \A p \in Procs : /\ Closed(p)' <=> Closed(p)
                         /\ Stopped(p) => Stopped(p)'
                         /\ Spawned(p) => Spawned(p)'
    BY <1>7, <2>1 DEF Reap
  <2>3. QED
    BY <1>1, <1>7, <2>1, <2>2 DEF Reap
<1>8. CASE RecordTimeout
  BY <1>1, <1>8 DEF RecordTimeout
<1>9. CASE Classify
  <2>1. row' = "verified" => printed = "unsat" /\ code["lleq"] = 0
    BY <1>9 DEF Classify, Result, Answers
  <2>2. row' = "counterexample" => printed = "sat"
    BY <1>9 DEF Classify, Result, Answers
  <2>3. printed # "none" => got = QueryPieces
    BY Sizes
  <2>4. VerifiedIsTrue' /\ CounterexampleIsTrue'
    BY <1>9, <2>1, <2>2, <2>3 DEF Classify
  <2>5. \A p \in Procs : proc[p] = "reaped"
    BY <1>9 DEF Classify
  <2>6. NothingIsLeft'
    BY <1>9, <2>5 DEF Classify
  <2>7. pc' = "done" /\ UNCHANGED <<victims, deadline, proc, code, environment>>
    BY <1>9 DEF Classify
  <2>8. QED
    BY <1>1, <2>4, <2>5, <2>6, <2>7
<1>10. QED
  BY <1>2, <1>3, <1>4, <1>5, <1>6, <1>7, <1>8, <1>9 DEF RunWp

LEMMA InvariantHolds == Spec => []IInv
<1>1. IInv /\ UNCHANGED vars => IInv'
  BY DEF vars, script, lleqVars, z3Vars, IInv, StateTypes, TypeOK, StageIsKnown, Spawned, PrintedAboutQuery,
         Stopped, VisitedAreStopped, HelperIsExplained, Z3OutlivesLleq, VerifiedIsTrue,
         CounterexampleIsTrue, NothingIsLeft, Ended, Closed
<1>2. IInv /\ [Next]_vars => IInv'
  BY <1>1, LleqKeepsInv, Z3KeepsInv, ScriptKeepsInv DEF Next
<1>3. QED
  BY InitiallyInv, <1>2, PTL DEF Spec

-----------------------------------------------------------------------------
\* A row is recorded whenever run_wp returns, and the query is conserved on its
\* way through the pipe, whatever the size of the pipes and of the query.
THEOREM TypeCorrect == Spec => []TypeOK
<1>1. IInv => TypeOK
  BY DEF IInv
<1>2. QED
  BY <1>1, InvariantHolds, PTL

\* "verified" is recorded of unsatisfiable queries that z3 has read whole.
THEOREM VerifiedIsTrueHolds == Spec => []VerifiedIsTrue
<1>1. IInv => VerifiedIsTrue
  BY DEF IInv
<1>2. QED
  BY <1>1, InvariantHolds, PTL

\* "counterexample" is recorded of satisfiable queries, unless z3 rejected a part.
THEOREM CounterexampleIsTrueHolds == Spec => []CounterexampleIsTrue
<1>1. IInv => CounterexampleIsTrue
  BY DEF IInv
<1>2. QED
  BY <1>1, InvariantHolds, PTL

\* No child outlives run_wp unless SIGKILL is on its way, and a solver of lleq
\* only when lleq did not end by itself.
THEOREM NothingIsLeftHolds == Spec => []NothingIsLeft
<1>1. IInv => NothingIsLeft
  BY DEF IInv
<1>2. QED
  BY <1>1, InvariantHolds, PTL

\* The second deadline interrupts lleq at work only if z3 crashed: z3 was waited
\* for by then, and it reads until lleq has closed its output.
THEOREM LateDeadlineCutsNoWorkHolds == Spec => LateDeadlineCutsNoWork
<1>1. ASSUME IInv, pc = "waitLleq", proc["lleq"] = "running"
      PROVE  code["z3"] = 2
  BY <1>1 DEF IInv, StageIsKnown, Z3OutlivesLleq, Closed
<1>2. IInv /\ [Next]_vars
        => [pc = "waitLleq" /\ pc' = "kill" /\ proc["lleq"] = "running" => code["z3"] = 2]_vars
  BY <1>1
<1>3. QED
  BY <1>2, InvariantHolds, PTL DEF Spec, LateDeadlineCutsNoWork
=============================================================================
