--------------------------- MODULE SolverPortfolio ---------------------------
(***************************************************************************)
(* invokeSolverPortfolio (lib/Verification/SolverUtils.cpp) with the       *)
(* operating system it talks to: the parent forks one solver process per   *)
(* job, polls them with waitpid(WNOHANG), returns the first Sat or Unsat   *)
(* of a solver that exited with status 0, and kills and reaps the others.  *)
(*                                                                         *)
(* The solvers, their descendants and the kernel are the environment.  The *)
(* oddities of the kernels the code is written for are switched on by the  *)
(* constant Quirks.                                                        *)
(***************************************************************************)
EXTENDS Integers, FiniteSets

CONSTANTS
  NumJobs,   \* length of the portfolio; getWeakestPreconditionPortfolio has 2
  Quirks     \* what the kernel and the process environment may do

AllQuirks == {
  "autoReap",    \* SIGCHLD may be ignored: dead children vanish, waitpid says ECHILD
  "groupEPERM",  \* kill(-pgid) on a group of zombies fails with EPERM (Darwin)
  "noSignal",    \* kill may be refused although the solver is alive
  "spawnFails"}  \* temporary files, fork or setpgid may fail

ASSUME NumJobsAssumption == NumJobs \in Nat \ {0}
ASSUME QuirksAssumption == Quirks \subseteq AllQuirks

Jobs == 1 .. NumJobs

VARIABLES
  pc,         \* where invokeSolverPortfolio is
  found,      \* the jobs whose solver binary was resolved
  todo,       \* the jobs the current loop has not visited yet
  finished,   \* RunningSolverJob::finished
  anyRunning, \* the local of the poll loop
  last,       \* lastNonConclusive
  result,     \* the SolverRunResult about to be, or already, returned
  files,      \* the temporary files of a job
  proc,       \* the solver process, as the kernel sees it
  group,      \* the process leads a process group of its own
  helper,     \* a descendant of the solver is alive in that group
  status,     \* how the process ended
  stdout,     \* what it had printed
  truth       \* the answer every correct solver would give

parentVars == <<pc, found, todo, finished, anyRunning, last, result, files>>
kernelVars == <<proc, group, helper, status, stdout, truth>>
vars == <<parentVars, kernelVars>>

Phases == {"resolve", "spawn", "setpgid", "poll", "kill", "reap", "returned", "fatal"}
Outputs == {"sat", "unsat", "unknown", "other"}   \* by the prefix of stdout
Kinds == {"Unsat", "Sat", "Unknown", "ExecutionFailure", "ParseFailure"}
NoResult == [kind |-> "None", solver |-> 0]
Results == [kind : Kinds, solver : Jobs] \cup {NoResult}

ClassifySolverOutput(out) ==
  CASE out = "unsat"   -> "Unsat"
    [] out = "sat"     -> "Sat"
    [] out = "unknown" -> "Unknown"
    [] OTHER           -> "ParseFailure"

CollectFinishedJob(j) == ClassifySolverOutput(stdout[j])

\* Faulty: the output of a solver counts whatever its exit status.
JobKindIgnoresStatus(j) == CollectFinishedJob(j)

\* The kind invokeSolverPortfolio gives to a job whose process was waited for.
JobKind(j) == IF status[j] = "zero" THEN CollectFinishedJob(j) ELSE "ExecutionFailure"

Conclusive(kind) == kind \in {"Sat", "Unsat"}

Alive(j) == proc[j] \in {"forked", "solving"}
GroupExists(j) == helper[j] \/ (group[j] /\ proc[j] \in {"forked", "solving", "doomed", "zombie"})

\* A dead child is a zombie until it is waited for, unless the kernel reaps it.
DeadStates == IF "autoReap" \in Quirks THEN {"zombie", "gone"} ELSE {"zombie"}

\* The process of job j ends.
Dies(j) == \E dead \in DeadStates : proc' = [proc EXCEPT ![j] = dead]

TypeOK ==
  /\ pc \in Phases
  /\ found \in SUBSET Jobs
  /\ todo \in SUBSET found
  /\ finished \in [Jobs -> BOOLEAN]
  /\ anyRunning \in BOOLEAN
  /\ last \in Results
  /\ result \in Results
  /\ files \in [Jobs -> {"absent", "present", "removed"}]
  /\ proc \in [Jobs -> {"none", "forked", "solving", "doomed", "zombie", "gone"}]
  /\ group \in [Jobs -> BOOLEAN]
  /\ helper \in [Jobs -> BOOLEAN]
  /\ status \in [Jobs -> {"running", "zero", "nonzero", "cancelled"}]
  /\ stdout \in [Jobs -> Outputs]
  /\ truth \in {"sat", "unsat"}

Init ==
  /\ pc = "resolve"
  /\ found = {}
  /\ todo = {}
  /\ finished = [j \in Jobs |-> FALSE]
  /\ anyRunning = FALSE
  /\ last = NoResult
  /\ result = NoResult
  /\ files = [j \in Jobs |-> "absent"]
  /\ proc = [j \in Jobs |-> "none"]
  /\ group = [j \in Jobs |-> FALSE]
  /\ helper = [j \in Jobs |-> FALSE]
  /\ status = [j \in Jobs |-> "running"]
  /\ stdout = [j \in Jobs |-> "other"]
  /\ truth \in {"sat", "unsat"}

-----------------------------------------------------------------------------
(* The parent.  Every loop visits the jobs in order: todo holds those left. *)

At(phase, j) == pc = phase /\ j \in todo /\ \A k \in todo : j <= k

\* Faulty: cleanup() visits the whole table, spawned or not.
LoopEndsOverAll(phase, next) ==
  /\ pc = phase
  /\ todo = {}
  /\ pc' = next
  /\ todo' = Jobs

LoopEnds(phase, next) ==
  /\ pc = phase
  /\ todo = {}
  /\ pc' = next
  /\ todo' = found

\* Faulty: the flag is left alone.
WaitedForUnmarked(j) == proc' = [proc EXCEPT ![j] = "gone"] /\ UNCHANGED finished

\* waitpid returned this child, and the job is marked.
WaitedFor(j) ==
  /\ proc' = [proc EXCEPT ![j] = "gone"]
  /\ finished' = [finished EXCEPT ![j] = TRUE]

\* Faulty: the non-conclusive result is dropped.
LastForgotten(kind, j) == UNCHANGED last

LastIs(kind, j) == last' = [kind |-> kind, solver |-> j]

\* resolveSolverPath: a solver is used if its override is an executable or,
\* without an override, if it is on PATH; a bad override is fatal.
Sites == {"usable", "missing", "badOverride"}

\* getWeakestPreconditionPortfolio: an empty portfolio is fatal, too.
ResolvePortfolio ==
  /\ pc = "resolve"
  /\ \E site \in [Jobs -> Sites] :
       LET usable == {j \in Jobs : site[j] = "usable"}
           ok     == usable # {} /\ \A j \in Jobs : site[j] # "badOverride"
       IN  /\ found' = IF ok THEN usable ELSE {}
           /\ todo' = found'
           /\ pc' = IF ok THEN "spawn" ELSE "fatal"
  /\ UNCHANGED <<finished, anyRunning, last, result, files, kernelVars>>

CreateSolverTempFiles(j) == files' = [files EXCEPT ![j] = "present"]

\* The destructors of jobs.
RemoveSolverTempFiles == files' = [j \in Jobs |-> IF j \in found THEN "removed" ELSE files[j]]

\* spawnSolverJob up to fork.
SpawnSolverJob(j) ==
  /\ At("spawn", j)
  /\ CreateSolverTempFiles(j)
  /\ proc' = [proc EXCEPT ![j] = "forked"]
  /\ pc' = "setpgid"
  /\ UNCHANGED <<found, todo, finished, anyRunning, last, result,
                 group, helper, status, stdout, truth>>

\* The parent's setpgid: EACCES after the child's exec and ESRCH once it is
\* dead are tolerated, and leave the group to what the child did itself.
AssignProcessGroup(j) ==
  /\ At("setpgid", j)
  /\ \/ proc[j] \in {"forked", "zombie"} /\ group' = [group EXCEPT ![j] = TRUE]
     \/ ~(proc[j] = "forked") /\ UNCHANGED group
  /\ pc' = "spawn"
  /\ todo' = todo \ {j}
  /\ UNCHANGED <<found, finished, anyRunning, last, result, files,
                 proc, helper, status, stdout, truth>>

\* report_fatal_error while spawning: earlier jobs keep running, nothing is removed.
SpawnFails ==
  /\ "spawnFails" \in Quirks
  /\ pc \in {"spawn", "setpgid"}
  /\ todo # {}
  /\ pc' = "fatal"
  /\ UNCHANGED <<found, todo, finished, anyRunning, last, result, files, kernelVars>>

AllSpawned ==
  /\ LoopEnds("spawn", "poll")
  /\ anyRunning' = FALSE
  /\ UNCHANGED <<found, finished, last, result, files, kernelVars>>

PollSkipsFinished(j) ==
  /\ At("poll", j)
  /\ finished[j]
  /\ todo' = todo \ {j}
  /\ UNCHANGED <<pc, found, finished, anyRunning, last, result, files, kernelVars>>

\* Faulty: the scan does not notice that a solver still runs.
PollMissesRunning(j) ==
  /\ At("poll", j)
  /\ ~finished[j]
  /\ proc[j] \notin {"zombie", "gone"}
  /\ todo' = todo \ {j}
  /\ UNCHANGED <<pc, found, finished, anyRunning, last, result, files, kernelVars>>

\* waitpid(WNOHANG) = 0
PollSeesRunning(j) ==
  /\ At("poll", j)
  /\ ~finished[j]
  /\ proc[j] \notin {"zombie", "gone"}
  /\ anyRunning' = TRUE
  /\ todo' = todo \ {j}
  /\ UNCHANGED <<pc, found, finished, last, result, files, kernelVars>>

\* waitpid(WNOHANG) < 0
PollCannotWait(j) ==
  /\ At("poll", j)
  /\ ~finished[j]
  /\ proc[j] = "gone"
  /\ finished' = [finished EXCEPT ![j] = TRUE]
  /\ LastIs("ExecutionFailure", j)
  /\ todo' = todo \ {j}
  /\ UNCHANGED <<pc, found, anyRunning, result, files, kernelVars>>

\* waitpid(WNOHANG) = pid, and the solver gave no verdict.
PollInconclusive(j) ==
  /\ At("poll", j)
  /\ ~finished[j]
  /\ proc[j] = "zombie"
  /\ ~Conclusive(JobKind(j))
  /\ WaitedFor(j)
  /\ LastIs(JobKind(j), j)
  /\ todo' = todo \ {j}
  /\ UNCHANGED <<pc, found, anyRunning, result, files, group, helper, status, stdout, truth>>

\* The first verdict: the scan stops and cleanup() starts over all the jobs.
PollConclusive(j) ==
  /\ At("poll", j)
  /\ ~finished[j]
  /\ proc[j] = "zombie"
  /\ Conclusive(JobKind(j))
  /\ WaitedFor(j)
  /\ result' = [kind |-> JobKind(j), solver |-> j]
  /\ pc' = "kill"
  /\ todo' = found
  /\ UNCHANGED <<found, anyRunning, last, files, group, helper, status, stdout, truth>>

\* usleep, and the next scan.
PollAgain ==
  /\ anyRunning
  /\ LoopEnds("poll", "poll")
  /\ anyRunning' = FALSE
  /\ UNCHANGED <<found, finished, last, result, files, kernelVars>>

NobodyAnswered ==
  /\ ~anyRunning
  /\ LoopEnds("poll", "kill")
  /\ result' = last
  /\ UNCHANGED <<found, finished, anyRunning, last, files, kernelVars>>

KillSkipsFinished(j) ==
  /\ At("kill", j)
  /\ finished[j]
  /\ todo' = todo \ {j}
  /\ UNCHANGED <<pc, found, finished, anyRunning, last, result, files, kernelVars>>

\* Faulty: the solver is not signalled.
NotSignalled(j) == UNCHANGED <<proc, status>>

\* SIGKILL reaches the solver if it is alive.
Signalled(j) ==
  /\ proc' = [proc EXCEPT ![j] = IF Alive(j) THEN "doomed" ELSE @]
  /\ status' = [status EXCEPT ![j] = IF Alive(j) THEN "cancelled" ELSE @]

\* Faulty: kill(pid, SIGKILL), the solver only.
KillSolverOnly(j) ==
  /\ At("kill", j)
  /\ ~finished[j]
  /\ GroupExists(j)
  /\ Signalled(j)
  /\ todo' = todo \ {j}
  /\ UNCHANGED <<pc, found, finished, anyRunning, last, result, files,
                 group, helper, stdout, truth>>

\* kill(-pid, SIGKILL): the whole group.
KillGroup(j) ==
  /\ At("kill", j)
  /\ ~finished[j]
  /\ GroupExists(j)
  /\ Signalled(j)
  /\ helper' = [helper EXCEPT ![j] = FALSE]
  /\ todo' = todo \ {j}
  /\ UNCHANGED <<pc, found, finished, anyRunning, last, result, files, group, stdout, truth>>

\* kill(-pid) fails with ESRCH.
KillFindsNoGroup(j) ==
  /\ At("kill", j)
  /\ ~finished[j]
  /\ ~GroupExists(j)
  /\ todo' = todo \ {j}
  /\ UNCHANGED <<pc, found, finished, anyRunning, last, result, files, kernelVars>>

\* Only zombies are left in the group, or the signal is refused altogether.
GroupRefused(j) ==
  /\ GroupExists(j)
  /\ \/ "groupEPERM" \in Quirks /\ ~Alive(j) /\ ~helper[j]
     \/ "noSignal" \in Quirks

\* kill(-pid) fails with EPERM, kill(pid) works or fails with ESRCH.
KillDirectChild(j) ==
  /\ At("kill", j)
  /\ ~finished[j]
  /\ GroupRefused(j)
  /\ Signalled(j)
  /\ todo' = todo \ {j}
  /\ UNCHANGED <<pc, found, finished, anyRunning, last, result, files,
                 group, helper, stdout, truth>>

\* Both are refused; waitpid(WNOHANG) finds that the solver had exited before.
KillFindsExited(j) ==
  /\ At("kill", j)
  /\ ~finished[j]
  /\ GroupRefused(j)
  /\ proc[j] \in {"zombie", "gone"}
  /\ WaitedFor(j)
  /\ todo' = todo \ {j}
  /\ UNCHANGED <<pc, found, anyRunning, last, result, files, group, helper, status, stdout, truth>>

\* Both are refused and the solver lives: report_fatal_error.
KillFails(j) ==
  /\ At("kill", j)
  /\ ~finished[j]
  /\ GroupRefused(j)
  /\ Alive(j)
  /\ pc' = "fatal"
  /\ UNCHANGED <<found, todo, finished, anyRunning, last, result, files, kernelVars>>

\* Faulty: cleanup() kills but does not reap.
AllKilledNoReap ==
  /\ LoopEnds("kill", "returned")
  /\ UNCHANGED <<found, finished, anyRunning, last, result, files, kernelVars>>

AllKilled ==
  /\ LoopEnds("kill", "reap")
  /\ UNCHANGED <<found, finished, anyRunning, last, result, files, kernelVars>>

\* reapJob blocks in waitpid until the process is dead; EINTR is retried, and
\* ECHILD counts as reaped.
ReapJob(j) ==
  /\ At("reap", j)
  /\ \/ finished[j] /\ UNCHANGED <<finished, proc>>
     \/ ~finished[j] /\ proc[j] \in {"zombie", "gone"} /\ WaitedFor(j)
  /\ todo' = todo \ {j}
  /\ UNCHANGED <<pc, found, anyRunning, last, result, files, group, helper, status, stdout, truth>>

\* The return destroys jobs, and with them the temporary files.
ReturnResult ==
  /\ LoopEnds("reap", "returned")
  /\ RemoveSolverTempFiles
  /\ UNCHANGED <<found, finished, anyRunning, last, result, kernelVars>>

\* checkUnsatWithPortfolio
CheckUnsatWithPortfolio == pc = "returned" /\ result.kind = "Unsat"

Poll(j) ==
  \/ PollSkipsFinished(j) \/ PollSeesRunning(j) \/ PollCannotWait(j)
  \/ PollInconclusive(j) \/ PollConclusive(j)

KillJob(j) ==
  \/ KillSkipsFinished(j) \/ KillGroup(j) \/ KillFindsNoGroup(j)
  \/ KillDirectChild(j) \/ KillFindsExited(j) \/ KillFails(j)

Parent ==
  \/ ResolvePortfolio \/ SpawnFails \/ AllSpawned \/ PollAgain \/ NobodyAnswered
  \/ AllKilled \/ ReturnResult
  \/ \E j \in Jobs : SpawnSolverJob(j) \/ AssignProcessGroup(j) \/ Poll(j) \/ KillJob(j) \/ ReapJob(j)

-----------------------------------------------------------------------------
(* The environment: children, solvers, descendants, the kernel.            *)

\* The child's own setpgid, its redirections and execv.
ChildExecs(j) ==
  /\ proc[j] = "forked"
  /\ proc' = [proc EXCEPT ![j] = "solving"]
  /\ group' = [group EXCEPT ![j] = TRUE]
  /\ UNCHANGED <<parentVars, helper, status, stdout, truth>>

\* Any of them failed: _exit(127), before or after the child's setpgid.
ChildFails(j) ==
  /\ proc[j] = "forked"
  /\ Dies(j)
  /\ \E led \in BOOLEAN : group' = [group EXCEPT ![j] = @ \/ led]
  /\ status' = [status EXCEPT ![j] = "nonzero"]
  /\ UNCHANGED <<parentVars, helper, stdout, truth>>

\* A solver that exits with status 0 does not print a wrong verdict; one that
\* crashes, or is killed from outside, may have printed anything before.
SolverExits(j, how, out) ==
  /\ proc[j] = "solving"
  /\ how = "zero" /\ out \in {"sat", "unsat"} => out = truth
  /\ Dies(j)
  /\ status' = [status EXCEPT ![j] = how]
  /\ stdout' = [stdout EXCEPT ![j] = out]
  /\ UNCHANGED <<parentVars, group, helper, truth>>

HelperStarts(j) ==
  /\ proc[j] = "solving"
  /\ ~helper[j]
  /\ helper' = [helper EXCEPT ![j] = TRUE]
  /\ UNCHANGED <<parentVars, proc, group, status, stdout, truth>>

HelperEnds(j) ==
  /\ helper[j]
  /\ helper' = [helper EXCEPT ![j] = FALSE]
  /\ UNCHANGED <<parentVars, proc, group, status, stdout, truth>>

\* The kernel carries out a SIGKILL; the solver may have printed something first.
DoomedDies(j) ==
  /\ proc[j] = "doomed"
  /\ Dies(j)
  /\ \E out \in Outputs : stdout' = [stdout EXCEPT ![j] = out]
  /\ UNCHANGED <<parentVars, group, helper, status, truth>>

Environment ==
  \E j \in Jobs :
    \/ ChildExecs(j) \/ ChildFails(j) \/ HelperStarts(j) \/ HelperEnds(j) \/ DoomedDies(j)
    \/ \E how \in {"zero", "nonzero"}, out \in Outputs : SolverExits(j, how, out)

Next == Parent \/ Environment

Spec == Init /\ [][Next]_vars

\* The parent is an ordinary process and is scheduled; a SIGKILL is delivered.
\* Nothing is assumed of the solvers: they may run for ever.
Fairness == WF_vars(Parent) /\ \A j \in Jobs : WF_vars(DoomedDies(j))

FairSpec == Spec /\ Fairness

-----------------------------------------------------------------------------
(* What the code owes its callers.                                         *)

\* A Sat or Unsat that invokeSolverPortfolio returns is the true answer,
\* although losing, crashed and cancelled solvers leave any text behind in
\* their output files (SolverUtils.cpp:371-380).
VerdictIsTrue == Conclusive(result.kind) => result.kind = ClassifySolverOutput(truth)

\* What is returned was reported by a solver that was asked; the llvm::failure()
\* of SolverUtils.cpp:389 is never reached with a nonempty portfolio.
ResultIsReported ==
  pc = "returned" =>
    /\ result.solver \in found
    /\ \/ result.kind = JobKind(result.solver)
       \/ "autoReap" \in Quirks /\ result.kind = "ExecutionFailure"

\* "I do not know" is returned only when every solver ended by itself without
\* a verdict: no verdict is overwritten by a later lastNonConclusive, and no
\* solver is given up while it runs (SolverUtils.cpp:381-390).
InconclusiveIsUnanimous ==
  pc = "returned" /\ ~Conclusive(result.kind) /\ "autoReap" \notin Quirks =>
    \A j \in found : status[j] \in {"zero", "nonzero"} /\ ~Conclusive(JobKind(j))

\* finished says exactly which children have been waited for, so that neither
\* the poll loop, killJob nor reapJob waits for, or signals, a process id the
\* kernel may have given to somebody else (SolverUtils.cpp:353-371, 234-278).
FinishedMeansReaped ==
  "autoReap" \notin Quirks => \A j \in Jobs : finished[j] <=> proc[j] = "gone"

\* When the call returns, no solver runs or lingers as a zombie, and no
\* temporary file is left (SolverUtils.cpp:341-348, 96-99).
ReturnLeavesNothing ==
  pc = "returned" => \A j \in found : proc[j] = "gone" /\ files[j] = "removed"

\* A job that cleanup() reaps leaves no descendant of the solver behind: this
\* is what the process group is for (SolverUtils.cpp:219-220, 234-243).
CancelledLeavesNoDescendant ==
  [][\A j \in Jobs :
       pc = "reap" /\ ~finished[j] /\ finished'[j] => ~helper[j] \/ "noSignal" \in Quirks]_vars

\* cleanup() ends, also when the other solvers would run for ever.
CleanupEnds == pc = "kill" ~> pc \in {"returned", "fatal"}

\* The portfolio as its callers see it.
OwnReply(j) ==
  IF status[j] \in {"running", "cancelled"} THEN "pending"
  ELSE IF Conclusive(JobKind(j)) THEN JobKind(j) ELSE "inconclusive"

Outcome ==
  IF pc # "returned" THEN "none"
  ELSE IF Conclusive(result.kind) THEN result.kind ELSE "inconclusive"

Contract == INSTANCE PortfolioContract
              WITH asked <- found, reply <- [j \in Jobs |-> OwnReply(j)], outcome <- Outcome

\* invokeSolverPortfolio implements PortfolioContract, its liveness included:
\* the first verdict is returned whatever the other solvers do.
ImplementsContract == Contract!FairSpec
=============================================================================
