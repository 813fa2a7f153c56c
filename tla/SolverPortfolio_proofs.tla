------------------------ MODULE SolverPortfolio_proofs ------------------------
(* Theorems about SolverPortfolio, for a portfolio of any length.             *)
EXTENDS SolverPortfolio, TLAPS

\* The values result and last take are SolverRunResults.
LEMMA ResultsAreTyped ==
  /\ NoResult \in Results
  /\ \A j \in Jobs :
       /\ [kind |-> JobKind(j), solver |-> j] \in Results
       /\ [kind |-> "ExecutionFailure", solver |-> j] \in Results
<1>1. NoResult \in Results
  BY DEF Results
<1>2. ASSUME NEW j \in Jobs, NEW k \in Kinds PROVE [kind |-> k, solver |-> j] \in Results
  BY DEF Results
<1>3. \A j \in Jobs : JobKind(j) \in Kinds /\ "ExecutionFailure" \in Kinds
  BY DEF JobKind, CollectFinishedJob, ClassifySolverOutput, Kinds
<1>4. QED
  BY <1>1, <1>2, <1>3

\* Every variable has its type: found and todo only name jobs, every job is in
\* one of the states of a process, and result and last are SolverRunResults of
\* one of the jobs (SolverUtils.cpp:156-162, 329-394).
THEOREM TypeCorrect == Spec => []TypeOK
<1>1. Init => TypeOK
  <2> SUFFICES ASSUME Init PROVE TypeOK
    OBVIOUS
  <2>1. last \in Results /\ result \in Results
    BY ResultsAreTyped DEF Init
  <2>2. stdout \in [Jobs -> Outputs]
    BY DEF Init, Outputs
  <2>3. QED
    BY <2>1, <2>2 DEF Init, TypeOK, Phases
<1>2. TypeOK /\ [Next]_vars => TypeOK'
  <2> SUFFICES ASSUME TypeOK, [Next]_vars PROVE TypeOK'
    OBVIOUS
  <2> USE DEF TypeOK, Phases, kernelVars, parentVars, vars
  <2>1. CASE ResolvePortfolio
    BY <2>1 DEF ResolvePortfolio
  <2>2. CASE SpawnFails
    BY <2>2 DEF SpawnFails
  <2>3. CASE AllSpawned \/ PollAgain \/ NobodyAnswered \/ AllKilled \/ ReturnResult
    BY <2>3 DEF AllSpawned, PollAgain, NobodyAnswered, AllKilled, ReturnResult, LoopEnds, RemoveSolverTempFiles
  <2>4. ASSUME NEW j \in Jobs, SpawnSolverJob(j) \/ AssignProcessGroup(j) PROVE TypeOK'
    BY <2>4 DEF SpawnSolverJob, AssignProcessGroup, At, CreateSolverTempFiles
  <2>5. ASSUME NEW j \in Jobs, Poll(j) PROVE TypeOK'
    <3>1. CASE PollSkipsFinished(j) \/ PollSeesRunning(j)
      BY <3>1 DEF PollSkipsFinished, PollSeesRunning, At
    <3>2. CASE PollCannotWait(j)
      BY <3>2, ResultsAreTyped DEF PollCannotWait, At, LastIs
    <3>3. CASE PollInconclusive(j)
      BY <3>3, ResultsAreTyped DEF PollInconclusive, At, LastIs, WaitedFor
    <3>4. CASE PollConclusive(j)
      BY <3>4, ResultsAreTyped DEF PollConclusive, At, WaitedFor
    <3>5. QED
      BY <2>5, <3>1, <3>2, <3>3, <3>4 DEF Poll
  <2>6. ASSUME NEW j \in Jobs, KillJob(j) PROVE TypeOK'
    <3>1. CASE KillSkipsFinished(j) \/ KillFindsNoGroup(j) \/ KillFails(j)
      BY <3>1 DEF KillSkipsFinished, KillFindsNoGroup, KillFails, At
    <3>2. CASE KillGroup(j)
      BY <3>2 DEF KillGroup, At, Signalled
    <3>3. CASE KillDirectChild(j)
      BY <3>3 DEF KillDirectChild, At, Signalled
    <3>4. CASE KillFindsExited(j)
      BY <3>4 DEF KillFindsExited, At, WaitedFor
    <3>5. QED
      BY <2>6, <3>1, <3>2, <3>3, <3>4 DEF KillJob
  <2>7. ASSUME NEW j \in Jobs, ReapJob(j) PROVE TypeOK'
    BY <2>7 DEF ReapJob, At, WaitedFor
  <2>8. ASSUME NEW j \in Jobs, ChildExecs(j) \/ HelperStarts(j) \/ HelperEnds(j) PROVE TypeOK'
    BY <2>8 DEF ChildExecs, HelperStarts, HelperEnds
  <2>9. ASSUME NEW j \in Jobs, ChildFails(j) PROVE TypeOK'
    BY <2>9 DEF ChildFails, Dies, DeadStates
  <2>10. ASSUME NEW j \in Jobs, DoomedDies(j) PROVE TypeOK'
    BY <2>10 DEF DoomedDies, Dies, DeadStates, Outputs
  <2>11. ASSUME NEW j \in Jobs, NEW how \in {"zero", "nonzero"}, NEW out \in Outputs,
                SolverExits(j, how, out)
         PROVE  TypeOK'
    BY <2>11 DEF SolverExits, Dies, DeadStates
  <2>12. CASE UNCHANGED vars
    BY <2>12
  <2>13. CASE Parent
    BY <2>13, <2>1, <2>2, <2>3, <2>4, <2>5, <2>6, <2>7 DEF Parent
  <2>14. CASE Environment
    BY <2>14, <2>8, <2>9, <2>10, <2>11 DEF Environment
  <2>15. QED
    BY <2>12, <2>13, <2>14 DEF Next
<1>3. QED
  BY <1>1, <1>2, PTL DEF Spec

-----------------------------------------------------------------------------
(* The inductive invariant.  What keeps a wrong verdict out is that an output *)
(* is read only after the kernel reported how its writer ended, and what      *)
(* keeps processes from being lost is that finished is set by waitpid alone.  *)

\* Nothing is waited for before the poll loop starts.
NothingFinishedYet ==
  pc \in {"resolve", "spawn", "setpgid"} => \A j \in Jobs : ~finished[j]

\* The job at hand is the only one of todo that may have been forked.
SpawnedInOrder ==
  /\ pc = "resolve" => \A j \in Jobs : proc[j] = "none"
  /\ pc = "spawn" => \A j \in todo : proc[j] = "none"
  /\ pc = "setpgid" => \A j, k \in todo : k < j => proc[j] = "none"

\* The kernel knows how a process ended only once it has ended.
StatusOfLiving ==
  \A j \in Jobs :
    /\ proc[j] \in {"none", "forked", "solving"} => status[j] = "running"
    /\ proc[j] = "doomed" => status[j] = "cancelled"

\* A solver that ended with status 0 did not print a wrong verdict.
SolversAreHonest ==
  \A j \in Jobs : status[j] = "zero" /\ stdout[j] \in {"sat", "unsat"} => stdout[j] = truth

FinishedAreGone == \A j \in Jobs : finished[j] => proc[j] = "gone"

LastIsInconclusive == ~Conclusive(last.kind)

ReapedSoFar == pc = "reap" => \A j \in found \ todo : proc[j] = "gone"

IInv ==
  /\ NothingFinishedYet
  /\ SpawnedInOrder
  /\ StatusOfLiving
  /\ SolversAreHonest
  /\ FinishedAreGone
  /\ LastIsInconclusive
  /\ ReapedSoFar
  /\ VerdictIsTrue
  /\ FinishedMeansReaped
  /\ ReturnLeavesNothing

LEMMA Inductive ==
  ASSUME IInv, TypeOK, [Next]_vars
  PROVE  IInv'
<1> USE DEF IInv, NothingFinishedYet, SpawnedInOrder, StatusOfLiving, SolversAreHonest,
            FinishedAreGone, LastIsInconclusive, ReapedSoFar, VerdictIsTrue,
            FinishedMeansReaped, ReturnLeavesNothing, TypeOK, parentVars, kernelVars
<1>1. CASE ResolvePortfolio
  BY <1>1 DEF ResolvePortfolio
<1>2. CASE SpawnFails
  BY <1>2 DEF SpawnFails
<1>3. CASE AllSpawned
  BY <1>3 DEF AllSpawned, LoopEnds
<1>4. CASE PollAgain
  BY <1>4 DEF PollAgain, LoopEnds
<1>5. CASE NobodyAnswered
  BY <1>5 DEF NobodyAnswered, LoopEnds
<1>6. CASE AllKilled
  BY <1>6 DEF AllKilled, LoopEnds
<1>7. CASE ReturnResult
  BY <1>7 DEF ReturnResult, LoopEnds, RemoveSolverTempFiles
<1>8. ASSUME NEW j \in Jobs, SpawnSolverJob(j) PROVE IInv'
  BY <1>8 DEF SpawnSolverJob, At, Jobs
<1>9. ASSUME NEW j \in Jobs, AssignProcessGroup(j) PROVE IInv'
  BY <1>9 DEF AssignProcessGroup, At, Jobs
<1>10. ASSUME NEW j \in Jobs, PollSkipsFinished(j) PROVE IInv'
  BY <1>10 DEF PollSkipsFinished, At, Jobs
<1>11. ASSUME NEW j \in Jobs, PollSeesRunning(j) PROVE IInv'
  BY <1>11 DEF PollSeesRunning, At, Jobs
<1>12. ASSUME NEW j \in Jobs, PollCannotWait(j) PROVE IInv'
  BY <1>12 DEF PollCannotWait, At, LastIs, Jobs, Conclusive
<1>13. ASSUME NEW j \in Jobs, PollInconclusive(j) PROVE IInv'
  BY <1>13 DEF PollInconclusive, At, LastIs, WaitedFor, Jobs
<1>14. ASSUME NEW j \in Jobs, PollConclusive(j) PROVE IInv'
  <2>1. ClassifySolverOutput(stdout[j]) \in {"Sat", "Unsat"} =>
          stdout[j] \in {"sat", "unsat"}
    BY DEF ClassifySolverOutput
  <2>2. status[j] = "zero" /\ JobKind(j) = ClassifySolverOutput(stdout[j])
    BY <1>14 DEF PollConclusive, JobKind, CollectFinishedJob, Conclusive
  <2>3. VerdictIsTrue'
    BY <1>14, <2>1, <2>2 DEF PollConclusive, Conclusive
  <2>4. QED
    BY <1>14, <2>3 DEF PollConclusive, At, WaitedFor, Jobs
<1>15. ASSUME NEW j \in Jobs, KillSkipsFinished(j) PROVE IInv'
  BY <1>15 DEF KillSkipsFinished, At, Jobs
<1>16. ASSUME NEW j \in Jobs, KillGroup(j) PROVE IInv'
  BY <1>16 DEF KillGroup, At, Signalled, Alive, Jobs
<1>17. ASSUME NEW j \in Jobs, KillFindsNoGroup(j) PROVE IInv'
  BY <1>17 DEF KillFindsNoGroup, At, Jobs
<1>18. ASSUME NEW j \in Jobs, KillDirectChild(j) PROVE IInv'
  BY <1>18 DEF KillDirectChild, At, Signalled, Alive, Jobs
<1>19. ASSUME NEW j \in Jobs, KillFindsExited(j) PROVE IInv'
  BY <1>19 DEF KillFindsExited, At, WaitedFor, Jobs
<1>20. ASSUME NEW j \in Jobs, KillFails(j) PROVE IInv'
  BY <1>20 DEF KillFails, At, Jobs
<1>21. ASSUME NEW j \in Jobs, ReapJob(j) PROVE IInv'
  <2>1. CASE finished[j]
    BY <1>21, <2>1 DEF ReapJob, At, WaitedFor
  <2>2. CASE ~finished[j]
    BY <1>21, <2>2 DEF ReapJob, At, WaitedFor
  <2>3. QED
    BY <2>1, <2>2
<1>22. ASSUME NEW j \in Jobs, ChildExecs(j) PROVE IInv'
  BY <1>22 DEF ChildExecs, At, Jobs
<1>23. ASSUME NEW j \in Jobs, ChildFails(j) PROVE IInv'
  BY <1>23 DEF ChildFails, At, Dies, DeadStates, Jobs
<1>24. ASSUME NEW j \in Jobs, HelperStarts(j) PROVE IInv'
  BY <1>24 DEF HelperStarts, At, Jobs
<1>25. ASSUME NEW j \in Jobs, HelperEnds(j) PROVE IInv'
  BY <1>25 DEF HelperEnds, At, Jobs
<1>26. ASSUME NEW j \in Jobs, DoomedDies(j) PROVE IInv'
  BY <1>26 DEF DoomedDies, At, Dies, DeadStates, Jobs
<1>27. ASSUME NEW j \in Jobs, NEW how \in {"zero", "nonzero"}, NEW out \in Outputs, SolverExits(j, how, out)
      PROVE  IInv'
  BY <1>27 DEF SolverExits, Dies, DeadStates
<1>28. CASE UNCHANGED vars
  BY <1>28 DEF vars
<1>29. QED
  BY <1>1, <1>2, <1>3, <1>4, <1>5, <1>6, <1>7, <1>8, <1>9, <1>10, <1>11, <1>12, <1>13, <1>14, <1>15, <1>16, <1>17, <1>18, <1>19, <1>20, <1>21, <1>22, <1>23, <1>24, <1>25, <1>26, <1>27, <1>28 DEF Next, Parent, Environment, Poll, KillJob

LEMMA InitiallyInv == Init => IInv
BY DEF Init, IInv, NothingFinishedYet, SpawnedInOrder, StatusOfLiving, SolversAreHonest,
       FinishedAreGone, LastIsInconclusive, ReapedSoFar, VerdictIsTrue, Conclusive, NoResult,
       FinishedMeansReaped, ReturnLeavesNothing

LEMMA InvariantHolds == Spec => []IInv
<1>1. IInv /\ TypeOK /\ [Next]_vars => IInv'
  BY Inductive
<1>2. QED
  BY InitiallyInv, TypeCorrect, <1>1, PTL DEF Spec

\* For every portfolio and every kernel: the Sat or Unsat that is returned is
\* what every solver that ends normally would say, whoever wins the race.
THEOREM VerdictIsTrueHolds == Spec => []VerdictIsTrue
<1>1. IInv => VerdictIsTrue
  BY DEF IInv
<1>2. QED
  BY <1>1, InvariantHolds, PTL

\* A job is marked finished exactly when its process has been waited for.
THEOREM FinishedMeansReapedHolds == Spec => []FinishedMeansReaped
<1>1. IInv => FinishedMeansReaped
  BY DEF IInv
<1>2. QED
  BY <1>1, InvariantHolds, PTL

\* After the return, no process of the portfolio and no file of it is left.
THEOREM ReturnLeavesNothingHolds == Spec => []ReturnLeavesNothing
<1>1. IInv => ReturnLeavesNothing
  BY DEF IInv
<1>2. QED
  BY <1>1, InvariantHolds, PTL

-----------------------------------------------------------------------------
(* What is reported.  A verdict of a job stands once its process was waited   *)
(* for, because the kernel and the solver have nothing more to say about it;  *)
(* so lastNonConclusive keeps being what its job reported.                    *)

\* A result that a job reported, and whose process was waited for.
Reported(r) ==
  /\ r.solver \in found
  /\ finished[r.solver]
  /\ \/ r.kind = JobKind(r.solver)
     \/ "autoReap" \in Quirks /\ r.kind = "ExecutionFailure"

PortfolioNotEmpty == pc \notin {"resolve", "fatal"} => found # {}

\* A scan that saw nothing running has found every job it has passed finished.
ScanIsComplete == pc = "poll" => anyRunning \/ \A j \in found \ todo : finished[j]

LastIsReported ==
  /\ last = NoResult \/ Reported(last)
  /\ pc = "poll" /\ last = NoResult => \A j \in found : ~finished[j]

ResultInCleanup == pc \in {"kill", "reap", "returned"} => Reported(result)

\* Nobody is killed before cleanup(), and the dead have an exit status.
NothingCancelledYet ==
  /\ pc \in {"resolve", "spawn", "setpgid", "poll"} =>
       \A j \in Jobs : proc[j] # "doomed" /\ status[j] # "cancelled"
  /\ \A j \in Jobs : proc[j] \in {"zombie", "gone"} => status[j] # "running"

\* A job that ended by itself without a verdict.
Inconclusive(j) == status[j] \in {"zero", "nonzero"} /\ ~Conclusive(JobKind(j))

FinishedAreInconclusive ==
  pc = "poll" /\ "autoReap" \notin Quirks => \A j \in found : finished[j] => Inconclusive(j)

UnanimousInCleanup ==
  pc \in {"kill", "reap", "returned"} /\ ~Conclusive(result.kind) /\ "autoReap" \notin Quirks =>
    \A j \in found : finished[j] /\ Inconclusive(j)

ReportInv ==
  /\ PortfolioNotEmpty
  /\ ScanIsComplete
  /\ LastIsReported
  /\ ResultInCleanup
  /\ NothingCancelledYet
  /\ FinishedAreInconclusive
  /\ UnanimousInCleanup

\* What a job reported stays as it is: nobody writes its status or its output
\* once its process was waited for.
LEMMA ReportsStay ==
  ASSUME TypeOK, IInv, [Next]_vars, NEW j \in Jobs, finished[j]
  PROVE  finished'[j] /\ status'[j] = status[j] /\ JobKind(j)' = JobKind(j)
<1>1. proc[j] = "gone"
  BY DEF IInv, FinishedAreGone
<1>2. CASE Parent
  <2>1. finished'[j] /\ status'[j] = status[j] /\ stdout'[j] = stdout[j]
    <3> USE DEF TypeOK, kernelVars
    <3>1. ASSUME NEW i \in Jobs, Poll(i) PROVE finished'[j] /\ status'[j] = status[j] /\ stdout'[j] = stdout[j]
      BY <1>1, <3>1 DEF Poll, PollSkipsFinished, PollSeesRunning, PollCannotWait, PollInconclusive,
                        PollConclusive, WaitedFor
    <3>2. ASSUME NEW i \in Jobs, KillJob(i) PROVE finished'[j] /\ status'[j] = status[j] /\ stdout'[j] = stdout[j]
      BY <1>1, <3>2 DEF KillJob, KillSkipsFinished, KillGroup, KillFindsNoGroup, KillDirectChild,
                        KillFindsExited, KillFails, WaitedFor, Signalled, Alive
    <3>3. ASSUME NEW i \in Jobs, SpawnSolverJob(i) \/ AssignProcessGroup(i) \/ ReapJob(i)
          PROVE  finished'[j] /\ status'[j] = status[j] /\ stdout'[j] = stdout[j]
      BY <3>3 DEF SpawnSolverJob, AssignProcessGroup, ReapJob, WaitedFor
    <3>4. QED
      BY <1>2, <3>1, <3>2, <3>3
         DEF Parent, ResolvePortfolio, SpawnFails, AllSpawned, PollAgain, NobodyAnswered, AllKilled, ReturnResult
  <2>2. QED
    BY <2>1 DEF JobKind, CollectFinishedJob
<1>3. CASE Environment
  <2>1. finished'[j] /\ status'[j] = status[j] /\ stdout'[j] = stdout[j]
    BY <1>1, <1>3 DEF Environment, ChildExecs, ChildFails, HelperStarts, HelperEnds, DoomedDies,
                      SolverExits, Dies, TypeOK, parentVars
  <2>2. QED
    BY <2>1 DEF JobKind, CollectFinishedJob
<1>4. CASE UNCHANGED vars
  BY <1>4 DEF vars, parentVars, kernelVars, JobKind, CollectFinishedJob
<1>5. QED
  BY <1>2, <1>3, <1>4 DEF Next

\* A report that was kept is kept, except while the portfolio is resolved.
LEMMA ReportedStays ==
  ASSUME TypeOK, IInv, [Next]_vars, NEW r \in Results, Reported(r), pc # "resolve"
  PROVE  Reported(r)'
<1>1. found' = found
  BY DEF Next, vars, Parent, Environment, parentVars, ResolvePortfolio, SpawnFails, AllSpawned, PollAgain,
         NobodyAnswered, AllKilled, ReturnResult, Poll, PollSkipsFinished, PollSeesRunning, PollCannotWait,
         PollInconclusive, PollConclusive, KillJob, KillSkipsFinished, KillGroup, KillFindsNoGroup,
         KillDirectChild, KillFindsExited, KillFails, SpawnSolverJob, AssignProcessGroup, ReapJob,
         ChildExecs, ChildFails, HelperStarts, HelperEnds, DoomedDies, SolverExits
<1>2. r.solver \in Jobs /\ finished[r.solver]
  BY DEF Reported, TypeOK
<1>3. finished'[r.solver] /\ JobKind(r.solver)' = JobKind(r.solver)
  BY <1>2, ReportsStay
<1>4. QED
  BY <1>1, <1>3 DEF Reported

\* The same of a job that ended without a verdict.
LEMMA InconclusiveStays ==
  ASSUME TypeOK, IInv, [Next]_vars, NEW j \in Jobs, finished[j], Inconclusive(j)
  PROVE  finished'[j] /\ Inconclusive(j)'
BY ReportsStay DEF Inconclusive, Conclusive

LEMMA NothingCancelledInductive ==
  ASSUME TypeOK, NothingCancelledYet, StatusOfLiving, [Next]_vars
  PROVE  NothingCancelledYet'
<1> USE DEF NothingCancelledYet, TypeOK, parentVars, kernelVars
<1>1. CASE ResolvePortfolio \/ SpawnFails \/ AllSpawned \/ PollAgain \/ NobodyAnswered \/ AllKilled \/ ReturnResult
  BY <1>1 DEF ResolvePortfolio, SpawnFails, AllSpawned, PollAgain, NobodyAnswered, AllKilled, ReturnResult, LoopEnds
<1>2. ASSUME NEW j \in Jobs, SpawnSolverJob(j) \/ AssignProcessGroup(j) PROVE NothingCancelledYet'
  BY <1>2 DEF SpawnSolverJob, AssignProcessGroup, At
<1>3. ASSUME NEW j \in Jobs, Poll(j) PROVE NothingCancelledYet'
  BY <1>3 DEF Poll, PollSkipsFinished, PollSeesRunning, PollCannotWait, PollInconclusive, PollConclusive, WaitedFor, At
<1>4. ASSUME NEW j \in Jobs, KillJob(j) PROVE NothingCancelledYet'
  BY <1>4 DEF KillJob, KillSkipsFinished, KillGroup, KillFindsNoGroup, KillDirectChild, KillFindsExited, KillFails,
              WaitedFor, Signalled, Alive, At
<1>5. ASSUME NEW j \in Jobs, ReapJob(j) PROVE NothingCancelledYet'
  BY <1>5 DEF ReapJob, WaitedFor, At
<1>6. CASE Environment
  BY <1>6 DEF Environment, ChildExecs, ChildFails, HelperStarts, HelperEnds, DoomedDies,
              SolverExits, Dies, StatusOfLiving, DeadStates
<1>7. CASE UNCHANGED vars
  BY <1>7 DEF vars
<1>8. QED
  BY <1>1, <1>2, <1>3, <1>4, <1>5, <1>6, <1>7 DEF Next, Parent

\* The result and what led to it, over a step of the parent in the poll loop.
LEMMA PollKeepsReports ==
  ASSUME TypeOK, IInv, ReportInv, NEW j \in Jobs, Poll(j)
  PROVE  ReportInv'
<1>1. [Next]_vars
  BY DEF Next, Parent
<1>2. /\ pc = "poll" /\ j \in found /\ found' = found /\ todo \subseteq found
      /\ \A r \in Results : Reported(r) => Reported(r)'
  BY <1>1, ReportedStays DEF Poll, PollSkipsFinished, PollSeesRunning, PollCannotWait, PollInconclusive,
                             PollConclusive, At, TypeOK
<1>3. NothingCancelledYet'
  BY <1>1, NothingCancelledInductive DEF ReportInv, IInv
<1>4. \A i \in Jobs : finished[i] /\ Inconclusive(i) => finished'[i] /\ Inconclusive(i)'
  BY <1>1, InconclusiveStays
<1>5. last \in Results /\ result \in Results
  BY DEF TypeOK
<1>6. \A i \in Jobs : finished[i] => finished'[i]
  BY <1>1, ReportsStay
<1> USE DEF ReportInv, PortfolioNotEmpty, ScanIsComplete, LastIsReported, ResultInCleanup,
            FinishedAreInconclusive, UnanimousInCleanup, TypeOK, parentVars, kernelVars
<1>7. CASE PollSkipsFinished(j) \/ PollSeesRunning(j)
  BY <1>2, <1>3, <1>4, <1>5, <1>6, <1>7 DEF PollSkipsFinished, PollSeesRunning, At
<1>8. CASE PollCannotWait(j)
  <2>1. "autoReap" \in Quirks
    BY <1>8 DEF PollCannotWait, IInv, FinishedMeansReaped
  <2>2. Reported(last)'
    BY <1>8, <2>1, <1>2 DEF PollCannotWait, Reported, LastIs
  <2>3. last' # NoResult
    BY <1>8 DEF PollCannotWait, LastIs, NoResult
  <2>4. QED
    BY <1>2, <1>3, <1>6, <1>8, <2>1, <2>2, <2>3 DEF PollCannotWait, At
<1>9. CASE PollInconclusive(j)
  <2>1. JobKind(j)' = JobKind(j) /\ status'[j] = status[j] /\ finished'[j]
    BY <1>9 DEF PollInconclusive, JobKind, CollectFinishedJob, WaitedFor
  <2>2. Reported(last)'
    BY <1>9, <2>1, <1>2 DEF PollInconclusive, Reported, LastIs
  <2>3. last' # NoResult
    <3>1. JobKind(j) # "None"
      BY DEF JobKind, CollectFinishedJob, ClassifySolverOutput
    <3>2. last'.kind # NoResult.kind
      BY <1>9, <3>1 DEF PollInconclusive, LastIs, NoResult
    <3>3. QED
      BY <3>2
  <2>4. status[j] \in {"zero", "nonzero"}
    BY <1>2, <1>9 DEF PollInconclusive, NothingCancelledYet
  <2>5. Inconclusive(j)'
    BY <1>9, <2>1, <2>4 DEF PollInconclusive, Inconclusive, Conclusive
  <2>6. \A i \in Jobs : finished'[i] => finished[i] \/ i = j
    BY <1>9 DEF PollInconclusive, WaitedFor
  <2>7. QED
    BY <1>2, <1>3, <1>4, <1>6, <1>9, <2>1, <2>2, <2>3, <2>5, <2>6 DEF PollInconclusive, At
<1>10. CASE PollConclusive(j)
  <2>1. JobKind(j)' = JobKind(j) /\ finished'[j]
    BY <1>10 DEF PollConclusive, JobKind, CollectFinishedJob, WaitedFor
  <2>2. Reported(result)' /\ Conclusive(result'.kind)
    BY <1>10, <2>1, <1>2 DEF PollConclusive, Reported
  <2>3. QED
    BY <1>2, <1>3, <1>5, <1>10, <2>2 DEF PollConclusive, At
<1>11. QED
  BY <1>7, <1>8, <1>9, <1>10 DEF Poll

LEMMA ReportInductive ==
  ASSUME TypeOK, IInv, ReportInv, [Next]_vars
  PROVE  ReportInv'
<1>1. \A r \in Results : Reported(r) /\ pc # "resolve" => Reported(r)'
  BY ReportedStays
<1>2. NothingCancelledYet'
  BY NothingCancelledInductive DEF ReportInv, IInv
<1>3. \A i \in Jobs : finished[i] /\ Inconclusive(i) => finished'[i] /\ Inconclusive(i)'
  BY InconclusiveStays
<1>4. last \in Results /\ result \in Results /\ NoResult \in Results /\ found \subseteq Jobs
  BY ResultsAreTyped DEF TypeOK
<1>5. \A i \in Jobs : finished[i] => finished'[i]
  BY ReportsStay
<1> USE DEF ReportInv, PortfolioNotEmpty, ScanIsComplete, LastIsReported, ResultInCleanup,
            FinishedAreInconclusive, UnanimousInCleanup, TypeOK, parentVars, kernelVars
<1>6. CASE ResolvePortfolio
  <2>1. last = NoResult /\ \A j \in Jobs : ~finished[j]
    BY <1>6 DEF ResolvePortfolio, Reported, IInv, NothingFinishedYet
  <2>2. QED
    BY <1>2, <1>6, <2>1 DEF ResolvePortfolio
<1>7. CASE SpawnFails
  BY <1>1, <1>2, <1>4, <1>7 DEF SpawnFails
<1>8. CASE AllSpawned
  BY <1>1, <1>2, <1>4, <1>8 DEF AllSpawned, LoopEnds, IInv, NothingFinishedYet
<1>9. CASE PollAgain
  BY <1>1, <1>2, <1>3, <1>4, <1>9 DEF PollAgain, LoopEnds
<1>10. CASE NobodyAnswered
  <2>1. \A j \in found : finished[j]
    BY <1>10 DEF NobodyAnswered, LoopEnds
  <2>2. last # NoResult /\ Reported(last)'
    BY <1>1, <1>4, <1>10, <2>1 DEF NobodyAnswered, LoopEnds
  <2>3. QED
    BY <1>1, <1>2, <1>3, <1>4, <1>10, <2>1, <2>2 DEF NobodyAnswered, LoopEnds, Reported
<1>11. CASE AllKilled \/ ReturnResult
  BY <1>1, <1>2, <1>3, <1>4, <1>11 DEF AllKilled, ReturnResult, LoopEnds
<1>12. ASSUME NEW j \in Jobs, SpawnSolverJob(j) \/ AssignProcessGroup(j) PROVE ReportInv'
  BY <1>1, <1>2, <1>4, <1>12 DEF SpawnSolverJob, AssignProcessGroup, At
<1>13. ASSUME NEW j \in Jobs, Poll(j) PROVE ReportInv'
  BY <1>13, PollKeepsReports
<1>14. ASSUME NEW j \in Jobs, KillJob(j) PROVE ReportInv'
  BY <1>1, <1>2, <1>3, <1>4, <1>14
     DEF KillJob, KillSkipsFinished, KillGroup, KillFindsNoGroup, KillDirectChild, KillFindsExited, KillFails, At
<1>15. ASSUME NEW j \in Jobs, ReapJob(j) PROVE ReportInv'
  BY <1>1, <1>2, <1>3, <1>4, <1>15 DEF ReapJob, At
<1>16. CASE Environment \/ UNCHANGED vars
  <2>1. UNCHANGED parentVars
    BY <1>16 DEF Environment, ChildExecs, ChildFails, HelperStarts, HelperEnds, DoomedDies, SolverExits, vars
  <2>2. QED
    BY <1>1, <1>2, <1>3, <1>4, <2>1 DEF IInv, NothingFinishedYet, Reported
<1>17. QED
  BY <1>6, <1>7, <1>8, <1>9, <1>10, <1>11, <1>12, <1>13, <1>14, <1>15, <1>16 DEF Next, Parent

LEMMA ReportHolds == Spec => []ReportInv
<1>1. Init => ReportInv
  BY DEF Init, ReportInv, PortfolioNotEmpty, ScanIsComplete, LastIsReported, ResultInCleanup,
         NothingCancelledYet, FinishedAreInconclusive, UnanimousInCleanup
<1>2. TypeOK /\ IInv /\ ReportInv /\ [Next]_vars => ReportInv'
  BY ReportInductive
<1>3. QED
  BY <1>1, <1>2, TypeCorrect, InvariantHolds, PTL DEF Spec

\* The result was reported by a solver that was asked: lastNonConclusive is set
\* whenever every solver of a portfolio that is not empty ended without a verdict.
THEOREM ResultIsReportedHolds == Spec => []ResultIsReported
<1>1. ReportInv => ResultIsReported
  BY DEF ReportInv, ResultInCleanup, Reported, ResultIsReported
<1>2. QED
  BY <1>1, ReportHolds, PTL

\* An inconclusive result means that no solver had a verdict, however many there are.
THEOREM InconclusiveIsUnanimousHolds == Spec => []InconclusiveIsUnanimous
<1>1. ReportInv => InconclusiveIsUnanimous
  BY DEF ReportInv, UnanimousInCleanup, Inconclusive, InconclusiveIsUnanimous
<1>2. QED
  BY <1>1, ReportHolds, PTL

-----------------------------------------------------------------------------
(* Descendants.  What killJob signals is a group, so it matters that every    *)
(* living solver leads one, and that the dead start nothing.                  *)

SpawnedAreFound ==
  /\ pc = "resolve" => found = {}
  /\ \A j \in Jobs : proc[j] # "none" => j \in found

\* Between fork and setpgid the solver at hand may have no group yet.
LivingLeadGroups ==
  \A j \in Jobs :
    Alive(j) /\ ~group[j] => proc[j] = "forked" /\ (pc = "fatal" \/ At("setpgid", j))

\* Of the jobs that killJob has passed, those not waited for are dead or dying.
NobodyLeftBehind ==
  pc \in {"kill", "reap"} /\ "noSignal" \notin Quirks =>
    \A j \in found : (pc = "kill" => j \notin todo) /\ ~finished[j] => ~helper[j] /\ ~Alive(j)

GroupInv == SpawnedAreFound /\ LivingLeadGroups /\ NobodyLeftBehind

LEMMA GroupInductive ==
  ASSUME TypeOK, IInv, GroupInv, [Next]_vars
  PROVE  GroupInv'
<1> USE DEF GroupInv, SpawnedAreFound, LivingLeadGroups, NobodyLeftBehind, Alive, At, TypeOK,
            parentVars, kernelVars
<1>1. CASE ResolvePortfolio
  BY <1>1 DEF ResolvePortfolio
<1>2. CASE SpawnFails
  BY <1>2 DEF SpawnFails
<1>3. CASE AllSpawned \/ PollAgain \/ NobodyAnswered \/ AllKilled \/ ReturnResult
  BY <1>3 DEF AllSpawned, PollAgain, NobodyAnswered, AllKilled, ReturnResult, LoopEnds
<1>4. ASSUME NEW j \in Jobs, SpawnSolverJob(j) PROVE GroupInv'
  BY <1>4 DEF SpawnSolverJob
<1>5. ASSUME NEW j \in Jobs, AssignProcessGroup(j) PROVE GroupInv'
  <2>1. \A i \in Jobs : i # j => ~At("setpgid", i)
    BY <1>5 DEF AssignProcessGroup, Jobs
  <2>2. QED
    BY <1>5, <2>1 DEF AssignProcessGroup
<1>6. ASSUME NEW j \in Jobs, Poll(j) PROVE GroupInv'
  BY <1>6 DEF Poll, PollSkipsFinished, PollSeesRunning, PollCannotWait, PollInconclusive, PollConclusive, WaitedFor
<1>7. ASSUME NEW j \in Jobs, KillSkipsFinished(j) \/ KillFails(j) PROVE GroupInv'
  BY <1>7 DEF KillSkipsFinished, KillFails
<1>8. ASSUME NEW j \in Jobs, KillGroup(j) PROVE GroupInv'
  BY <1>8 DEF KillGroup, Signalled
<1>9. ASSUME NEW j \in Jobs, KillFindsNoGroup(j) PROVE GroupInv'
  <2>1. ~helper[j] /\ ~Alive(j)
    BY <1>9 DEF KillFindsNoGroup, GroupExists
  <2>2. QED
    BY <1>9, <2>1 DEF KillFindsNoGroup
<1>10. ASSUME NEW j \in Jobs, KillDirectChild(j) PROVE GroupInv'
  BY <1>10 DEF KillDirectChild, GroupRefused, Signalled
<1>11. ASSUME NEW j \in Jobs, KillFindsExited(j) PROVE GroupInv'
  BY <1>11 DEF KillFindsExited, WaitedFor
<1>12. ASSUME NEW j \in Jobs, ReapJob(j) PROVE GroupInv'
  BY <1>12 DEF ReapJob, WaitedFor
<1>13. ASSUME NEW j \in Jobs, ChildExecs(j) \/ HelperStarts(j) \/ HelperEnds(j) PROVE GroupInv'
  BY <1>13 DEF ChildExecs, HelperStarts, HelperEnds
<1>14. ASSUME NEW j \in Jobs, ChildFails(j) \/ DoomedDies(j) PROVE GroupInv'
  BY <1>14 DEF ChildFails, DoomedDies, Dies, DeadStates
<1>15. ASSUME NEW j \in Jobs, NEW how \in {"zero", "nonzero"}, NEW out \in Outputs, SolverExits(j, how, out)
       PROVE  GroupInv'
  BY <1>15 DEF SolverExits, Dies, DeadStates
<1>16. CASE UNCHANGED vars
  BY <1>16 DEF vars
<1>17. QED
  BY <1>1, <1>2, <1>3, <1>4, <1>5, <1>6, <1>7, <1>8, <1>9, <1>10, <1>11, <1>12, <1>13, <1>14, <1>15, <1>16
     DEF Next, Parent, Environment, KillJob

LEMMA GroupHolds == Spec => []GroupInv
<1>1. Init => GroupInv
  BY DEF Init, GroupInv, SpawnedAreFound, LivingLeadGroups, NobodyLeftBehind, Alive
<1>2. TypeOK /\ IInv /\ GroupInv /\ [Next]_vars => GroupInv'
  BY GroupInductive
<1>3. QED
  BY <1>1, <1>2, TypeCorrect, InvariantHolds, PTL DEF Spec

\* A job that is reaped in cleanup() leaves no descendant of its solver, since
\* killJob has signalled the group or found none.
THEOREM CancelledLeavesNoDescendantHolds == Spec => CancelledLeavesNoDescendant
<1>1. TypeOK /\ GroupInv /\ [Next]_vars =>
        [\A j \in Jobs :
           pc = "reap" /\ ~finished[j] /\ finished'[j] => ~helper[j] \/ "noSignal" \in Quirks]_vars
  <2> SUFFICES ASSUME TypeOK, GroupInv, Next, NEW j \in Jobs, pc = "reap", ~finished[j], finished'[j],
                      "noSignal" \notin Quirks
               PROVE  ~helper[j]
    BY DEF TypeOK
  <2>1. ReapJob(j)
    BY DEF Next, Parent, Environment, parentVars, TypeOK, WaitedFor, ResolvePortfolio, SpawnFails, AllSpawned,
           PollAgain, NobodyAnswered, AllKilled, ReturnResult, LoopEnds, SpawnSolverJob, AssignProcessGroup, At,
           Poll, PollSkipsFinished, PollSeesRunning, PollCannotWait, PollInconclusive, PollConclusive,
           KillJob, KillSkipsFinished, KillGroup, KillFindsNoGroup, KillDirectChild, KillFindsExited, KillFails,
           ReapJob, ChildExecs, ChildFails, HelperStarts, HelperEnds, DoomedDies, SolverExits
  <2>2. QED
    BY <2>1 DEF ReapJob, At, TypeOK, GroupInv, NobodyLeftBehind
<1>2. QED
  BY <1>1, TypeCorrect, GroupHolds, PTL DEF Spec, CancelledLeavesNoDescendant

-----------------------------------------------------------------------------
(* The refinement.  A job replies when its process ends by itself; cleanup()  *)
(* replies for nobody, since a signal is no answer.                           *)

\* Over a step of the parent no reply appears or changes.
LEMMA ParentRepliesForNobody ==
  ASSUME TypeOK, IInv, Parent, NEW j \in Jobs
  PROVE  OwnReply(j)' = OwnReply(j)
<1>1. stdout' = stdout
  BY DEF Parent, kernelVars, ResolvePortfolio, SpawnFails, AllSpawned, PollAgain, NobodyAnswered, AllKilled,
         ReturnResult, SpawnSolverJob, AssignProcessGroup, ReapJob, Poll, PollSkipsFinished, PollSeesRunning,
         PollCannotWait, PollInconclusive, PollConclusive, KillJob, KillSkipsFinished, KillGroup,
         KillFindsNoGroup, KillDirectChild, KillFindsExited, KillFails
<1>2. status'[j] = status[j] \/ (status[j] = "running" /\ status'[j] = "cancelled")
  <2>1. ASSUME NEW i \in Jobs, KillJob(i)
        PROVE  status'[j] = status[j] \/ (status[j] = "running" /\ status'[j] = "cancelled")
    <3>1. CASE KillGroup(i) \/ KillDirectChild(i)
      BY <3>1 DEF KillGroup, KillDirectChild, Signalled, Alive, TypeOK, IInv, StatusOfLiving
    <3>2. CASE KillSkipsFinished(i) \/ KillFindsNoGroup(i) \/ KillFindsExited(i) \/ KillFails(i)
      BY <3>2 DEF KillSkipsFinished, KillFindsNoGroup, KillFindsExited, KillFails, kernelVars
    <3>3. QED
      BY <2>1, <3>1, <3>2 DEF KillJob
  <2>2. ASSUME NEW i \in Jobs, SpawnSolverJob(i) \/ AssignProcessGroup(i) \/ Poll(i) \/ ReapJob(i)
        PROVE  status'[j] = status[j]
    BY <2>2 DEF SpawnSolverJob, AssignProcessGroup, ReapJob, Poll, PollSkipsFinished, PollSeesRunning,
                PollCannotWait, PollInconclusive, PollConclusive, kernelVars
  <2>3. QED
    BY <2>1, <2>2 DEF Parent, kernelVars, ResolvePortfolio, SpawnFails, AllSpawned, PollAgain, NobodyAnswered,
                      AllKilled, ReturnResult
<1>3. QED
  BY <1>1, <1>2 DEF OwnReply, JobKind, CollectFinishedJob

LEMMA ReplyOfLiving ==
  ASSUME TypeOK, IInv, NEW j \in Jobs, proc[j] \in {"none", "forked", "solving"}
  PROVE  OwnReply(j) = "pending"
BY DEF IInv, StatusOfLiving, OwnReply

\* A child that ends gives its one reply, and nobody else does.
LEMMA EnvironmentReplies ==
  ASSUME TypeOK, IInv, GroupInv, Environment
  PROVE  \/ \A j \in Jobs : OwnReply(j)' = OwnReply(j)
         \/ \E j \in Jobs, v \in {"Sat", "Unsat", "inconclusive"} :
              /\ j \in found
              /\ OwnReply(j) = "pending" /\ OwnReply(j)' = v
              /\ \A i \in Jobs \ {j} : OwnReply(i)' = OwnReply(i)
<1> USE DEF TypeOK
<1>1. ASSUME NEW j \in Jobs, ChildExecs(j) \/ HelperStarts(j) \/ HelperEnds(j)
      PROVE  \A i \in Jobs : OwnReply(i)' = OwnReply(i)
  BY <1>1 DEF ChildExecs, HelperStarts, HelperEnds, OwnReply, JobKind, CollectFinishedJob
<1>2. ASSUME NEW j \in Jobs, DoomedDies(j) PROVE \A i \in Jobs : OwnReply(i)' = OwnReply(i)
  <2>1. status[j] = "cancelled" /\ status' = status /\ \A i \in Jobs \ {j} : stdout'[i] = stdout[i]
    BY <1>2 DEF DoomedDies, IInv, StatusOfLiving
  <2>2. QED
    BY <2>1 DEF OwnReply, JobKind, CollectFinishedJob
<1>3. ASSUME NEW j \in Jobs,
             /\ proc[j] \in {"forked", "solving"}
             /\ status'[j] \in {"zero", "nonzero"}
             /\ \A i \in Jobs \ {j} : status'[i] = status[i] /\ stdout'[i] = stdout[i]
      PROVE  \E v \in {"Sat", "Unsat", "inconclusive"} :
               /\ j \in found
               /\ OwnReply(j) = "pending" /\ OwnReply(j)' = v
               /\ \A i \in Jobs \ {j} : OwnReply(i)' = OwnReply(i)
  <2>1. j \in found /\ OwnReply(j) = "pending"
    BY <1>3, ReplyOfLiving DEF GroupInv, SpawnedAreFound
  <2>2. OwnReply(j)' \in {"Sat", "Unsat", "inconclusive"}
    BY <1>3 DEF OwnReply, Conclusive
  <2>3. \A i \in Jobs \ {j} : OwnReply(i)' = OwnReply(i)
    BY <1>3 DEF OwnReply, JobKind, CollectFinishedJob
  <2>4. QED
    BY <2>1, <2>2, <2>3
<1>4. ASSUME NEW j \in Jobs, ChildFails(j) \/ \E how \in {"zero", "nonzero"}, out \in Outputs : SolverExits(j, how, out)
      PROVE  /\ proc[j] \in {"forked", "solving"}
             /\ status'[j] \in {"zero", "nonzero"}
             /\ \A i \in Jobs \ {j} : status'[i] = status[i] /\ stdout'[i] = stdout[i]
  BY <1>4 DEF ChildFails, SolverExits
<1>5. QED
  BY <1>1, <1>2, <1>3, <1>4 DEF Environment

\* Over a step of the parent the outcome appears at the return only.
LEMMA ReturnGivesOutcome ==
  ASSUME TypeOK, Parent
  PROVE  Outcome' = Outcome \/ ReturnResult
<1>1. ReturnResult \/ (pc # "returned" /\ pc' # "returned")
  BY DEF Parent, kernelVars, ResolvePortfolio, SpawnFails, AllSpawned, PollAgain, NobodyAnswered, AllKilled,
         ReturnResult, SpawnSolverJob, AssignProcessGroup, ReapJob, Poll, PollSkipsFinished, PollSeesRunning,
         PollCannotWait, PollInconclusive, PollConclusive, KillJob, KillSkipsFinished, KillGroup,
         KillFindsNoGroup, KillDirectChild, KillFindsExited, KillFails, LoopEnds, At
<1>2. QED
  BY <1>1 DEF Outcome

LEMMA ContractInit == Init => Contract!Init
BY DEF Init, Contract!Init, OwnReply, Outcome

LEMMA ContractStep ==
  ASSUME "autoReap" \notin Quirks, TypeOK, TypeOK', IInv, ReportInv, GroupInv, [Next]_vars
  PROVE  [Contract!Next]_Contract!vars
<1> USE DEF TypeOK
<1>1. CASE ResolvePortfolio
  <2>1. \A j \in Jobs : OwnReply(j)' = OwnReply(j)
    BY <1>1, ParentRepliesForNobody DEF Parent
  <2>2. Outcome' = Outcome
    BY <1>1 DEF ResolvePortfolio, Outcome
  <2>3. found = {} /\ found' \in SUBSET Jobs
    BY <1>1 DEF ResolvePortfolio, GroupInv, SpawnedAreFound
  <2>4. CASE found' = {}
    BY <2>1, <2>2, <2>3, <2>4 DEF Contract!vars
  <2>5. CASE found' # {}
    <3>1. Contract!Ask(found')
      BY <2>1, <2>2, <2>3, <2>5 DEF Contract!Ask
    <3>2. QED
      BY <2>3, <3>1 DEF Contract!Next
  <2>6. QED
    BY <2>4, <2>5
<1>2. CASE ReturnResult
  <2>1. [j \in Jobs |-> OwnReply(j)]' = [j \in Jobs |-> OwnReply(j)] /\ found' = found
    BY <1>2, ParentRepliesForNobody DEF Parent, ReturnResult
  <2>2. Reported(result) /\ Outcome = "none"
    BY <1>2 DEF ReturnResult, LoopEnds, ReportInv, ResultInCleanup, Outcome
  <2>3. CASE Conclusive(result.kind)
    <3>1. result.solver \in found /\ result.kind = JobKind(result.solver)
      BY <2>2, <2>3 DEF Reported
    <3>2. OwnReply(result.solver) = result.kind
      <4>1. status[result.solver] = "zero"
        BY <2>3, <3>1 DEF JobKind, Conclusive
      <4>2. QED
        BY <2>3, <3>1, <4>1 DEF OwnReply
    <3>3. Outcome' = result.kind
      BY <1>2, <2>3 DEF ReturnResult, LoopEnds, Outcome
    <3>4. Contract!ReturnVerdict(result.solver)
      BY <2>1, <2>2, <2>3, <3>1, <3>2, <3>3 DEF Contract!ReturnVerdict, Contract!Verdicts, Conclusive
    <3>5. QED
      BY <3>1, <3>4 DEF Contract!Next, Contract!Return
  <2>4. CASE ~Conclusive(result.kind)
    <3>1. \A j \in found : OwnReply(j) = "inconclusive"
      BY <1>2, <2>4 DEF ReturnResult, LoopEnds, ReportInv, UnanimousInCleanup, Inconclusive, OwnReply
    <3>2. found # {}
      BY <1>2 DEF ReturnResult, LoopEnds, ReportInv, PortfolioNotEmpty
    <3>3. Outcome' = "inconclusive"
      BY <1>2, <2>4 DEF ReturnResult, LoopEnds, Outcome
    <3>4. Contract!ReturnInconclusive
      BY <2>1, <2>2, <3>1, <3>2, <3>3 DEF Contract!ReturnInconclusive
    <3>5. QED
      BY <3>4 DEF Contract!Next, Contract!Return
  <2>5. QED
    BY <2>3, <2>4
<1>3. CASE Parent /\ ~ResolvePortfolio /\ ~ReturnResult
  <2>1. found' = found
    BY <1>3 DEF Parent, SpawnFails, AllSpawned, PollAgain, NobodyAnswered, AllKilled, Poll, PollSkipsFinished,
         PollSeesRunning, PollCannotWait, PollInconclusive, PollConclusive, KillJob, KillSkipsFinished, KillGroup,
         KillFindsNoGroup, KillDirectChild, KillFindsExited, KillFails, SpawnSolverJob, AssignProcessGroup, ReapJob
  <2>2. QED
    BY <1>3, <2>1, ParentRepliesForNobody, ReturnGivesOutcome DEF Contract!vars
<1>4. CASE Environment
  <2>1. found' = found /\ Outcome' = Outcome
    BY <1>4 DEF Environment, ChildExecs, ChildFails, HelperStarts, HelperEnds, DoomedDies, SolverExits,
                parentVars, Outcome
  <2>2. CASE \A j \in Jobs : OwnReply(j)' = OwnReply(j)
    BY <2>1, <2>2 DEF Contract!vars
  <2>3. ASSUME NEW j \in Jobs, NEW v \in {"Sat", "Unsat", "inconclusive"},
               j \in found, OwnReply(j) = "pending", OwnReply(j)' = v,
               \A i \in Jobs \ {j} : OwnReply(i)' = OwnReply(i)
        PROVE  Contract!Next
    <3>1. \A i \in Jobs : OwnReply(i)' = [[k \in Jobs |-> OwnReply(k)] EXCEPT ![j] = v][i]
      BY <2>3
    <3>2. [i \in Jobs |-> OwnReply(i)]' = [[k \in Jobs |-> OwnReply(k)] EXCEPT ![j] = v]
      BY <3>1
    <3>3. Contract!Reply(j, v)
      BY <2>1, <2>3, <3>2 DEF Contract!Reply
    <3>4. QED
      BY <3>3 DEF Contract!Next, Contract!Verdicts
  <2>4. QED
    BY <1>4, <2>2, <2>3, EnvironmentReplies
<1>5. CASE UNCHANGED vars
  BY <1>5 DEF vars, parentVars, kernelVars, Contract!vars, OwnReply, Outcome, JobKind, CollectFinishedJob
<1>6. QED
  BY <1>1, <1>2, <1>3, <1>4, <1>5 DEF Next

\* The portfolio implements its contract, as far as safety goes: of any number of
\* solvers that are asked, it returns the reply of one that has a verdict, or
\* that none has, and it returns once.
THEOREM PortfolioImplementsContract ==
  ASSUME "autoReap" \notin Quirks
  PROVE  Spec => Contract!Spec
<1>1. TypeOK /\ TypeOK' /\ IInv /\ ReportInv /\ GroupInv /\ [Next]_vars => [Contract!Next]_Contract!vars
  BY ContractStep
<1>2. QED
  BY <1>1, ContractInit, TypeCorrect, InvariantHolds, ReportHolds, GroupHolds, PTL DEF Spec, Contract!Spec
===============================================================================
