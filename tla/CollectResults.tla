-------------------------- MODULE CollectResults --------------------------
(***************************************************************************)
(* run_wp of scripts/collect_circom_demo_results.py: `lleq wp` and z3 as a *)
(* pipeline, its pipes and deadlines, and the row recorded for it.         *)
(*                                                                         *)
(* The script's steps are its calls of subprocess.  lleq writes warnings   *)
(* and diagnostics to stderr, then the query in QueryPieces pieces, and z3 *)
(* reads it; the pipes hold Capacity pieces.  Time is not modelled: a      *)
(* deadline may expire whenever the script still waits.                    *)
(***************************************************************************)
EXTENDS Integers

CONSTANTS
  Capacity,    \* of each pipe
  MaxStderr,   \* pieces lleq may write to stderr
  QueryPieces, \* of the query, the last one with (check-sat)
  GroupEPERM   \* killpg may be refused for a group of zombies, as on Darwin

ASSUME PipesAreFinite ==
  Capacity \in Nat \ {0} /\ MaxStderr \in Nat /\ QueryPieces \in Nat \ {0} /\ GroupEPERM \in BOOLEAN

Answers == {"unsat", "sat", "unknown"}
Rows == {"timeout", "unsupported", "error", "verified", "counterexample", "partial"}
Procs == {"z3", "lleq"}

VARIABLES
  pc,        \* of the script: "spawnLleq", "spawnZ3", "waitZ3", "waitLleq", "classify",
             \* "kill", "reap", "done", "raised"
  victims,   \* processes the except clause has still to visit
  row,       \* the result recorded
  deadline,  \* which call it was that timed out
  proc,      \* "none", "running", "doomed", "exiting", "zombie", "reaped"
  code,      \* exit status, 2 if the process crashed or was killed
  toErr, toOut,       \* pieces lleq has still to write
  errPipe, outPipe,   \* pieces in its pipes
  unsupported,        \* lleq found a construct it does not support
  helper,    \* a solver lleq started, in a process group of its own
  got,       \* pieces of the query z3 has read
  rejected,  \* z3 could not read one of them and skipped it
  printed,   \* what z3 prints about check-sat
  truth      \* the answer to the whole query

script == <<pc, victims, row, deadline>>
lleqVars == <<toErr, toOut, unsupported, helper>>
z3Vars == <<got, rejected, printed>>
vars == <<script, proc, code, lleqVars, errPipe, outPipe, z3Vars, truth>>

Init ==
  /\ pc = "spawnLleq" /\ victims = {} /\ row = "none" /\ deadline = "none"
  /\ proc = [p \in Procs |-> "none"] /\ code = [p \in Procs |-> 0]
  /\ toErr \in 0 .. MaxStderr /\ toOut = QueryPieces
  /\ errPipe = 0 /\ outPipe = 0
  /\ unsupported \in {u \in BOOLEAN : u => toErr > 0}
  /\ helper = "none"
  /\ got = 0 /\ rejected = FALSE /\ printed = "none"
  /\ truth \in {"unsat", "sat"}

\* A process that exits closes its pipes first, and can be waited for some time later.
Closed(p) == proc[p] \in {"exiting", "zombie", "reaped"}
Ended(p) == proc[p] \in {"zombie", "reaped"}
Exit(p, status) ==
  /\ proc' = [proc EXCEPT ![p] = "exiting"]
  /\ code' = [code EXCEPT ![p] = status]

-----------------------------------------------------------------------------
(* lleq.                                                                    *)

\* It asks the portfolio while it looks for invariants, and cleans up after each query.
LleqStartsSolver ==
  /\ proc["lleq"] = "running" /\ toOut = QueryPieces /\ helper = "none"
  /\ helper' = "running"
  /\ UNCHANGED <<script, proc, code, toErr, toOut, unsupported, errPipe, outPipe, z3Vars, truth>>

LleqEndsSolver ==
  /\ proc["lleq"] = "running" /\ helper = "running"
  /\ helper' = "none"
  /\ UNCHANGED <<script, proc, code, toErr, toOut, unsupported, errPipe, outPipe, z3Vars, truth>>

\* The script drains stderr only once it waits for lleq.
LleqWritesStderr ==
  /\ proc["lleq"] = "running" /\ helper = "none" /\ toErr > 0
  /\ errPipe < Capacity \/ pc = "waitLleq"
  /\ toErr' = toErr - 1
  /\ errPipe' = IF pc = "waitLleq" THEN 0 ELSE errPipe + 1
  /\ UNCHANGED <<script, proc, code, toOut, unsupported, helper, outPipe, z3Vars, truth>>

LleqWritesQuery ==
  /\ proc["lleq"] = "running" /\ helper = "none" /\ toErr = 0 /\ ~unsupported
  /\ toOut > 0 /\ outPipe < Capacity /\ ~Closed("z3")
  /\ toOut' = toOut - 1
  /\ outPipe' = outPipe + 1
  /\ UNCHANGED <<script, proc, code, toErr, unsupported, helper, errPipe, z3Vars, truth>>

\* emit returns, with the query written or an unsupported construct reported; then main returns 0.
LleqReturns ==
  /\ proc["lleq"] = "running" /\ helper = "none" /\ toErr = 0
  /\ toOut = 0 \/ unsupported
  /\ Exit("lleq", 0)
  /\ UNCHANGED <<script, lleqVars, errPipe, outPipe, z3Vars, truth>>

\* An error it reports, or report_fatal_error, which leaves a running solver behind, or a query that
\* nobody reads any more.
LleqFails ==
  /\ proc["lleq"] = "running"
  /\ \E status \in {1, 2} : Exit("lleq", status)
  /\ UNCHANGED <<script, lleqVars, errPipe, outPipe, z3Vars, truth>>

-----------------------------------------------------------------------------
(* z3 -in reads on after an error.                                          *)

Z3Reads ==
  /\ proc["z3"] = "running" /\ outPipe > 0
  /\ outPipe' = outPipe - 1
  /\ got' = got + 1
  /\ rejected' \in {rejected, TRUE}
  \* What it rejected may be what made the query unsatisfiable, and never the opposite.
  /\ printed' \in IF got' < QueryPieces THEN {printed}
                  ELSE {truth, "unknown"} \cup IF rejected' THEN {"sat"} ELSE {}
  /\ UNCHANGED <<script, proc, code, lleqVars, errPipe, truth>>

Status == IF rejected \/ printed = "unsat" THEN {1} ELSE IF printed = "unknown" THEN {0, 1} ELSE {0}

\* The input is at its end.  (get-model) after unsat is an error, too.
Z3Exits ==
  /\ proc["z3"] = "running" /\ outPipe = 0 /\ Closed("lleq")
  /\ \E status \in Status : Exit("z3", status)
  /\ UNCHANGED <<script, lleqVars, errPipe, outPipe, z3Vars, truth>>

\* Out of memory, say.
Z3Crashes ==
  /\ proc["z3"] = "running"
  /\ Exit("z3", 2)
  /\ UNCHANGED <<script, lleqVars, errPipe, outPipe, z3Vars, truth>>

\* SIGKILL takes effect.
Dies(p) ==
  /\ proc[p] = "doomed"
  /\ Exit(p, 2)
  /\ UNCHANGED <<script, lleqVars, errPipe, outPipe, z3Vars, truth>>

BecomesZombie(p) ==
  /\ proc[p] = "exiting"
  /\ proc' = [proc EXCEPT ![p] = "zombie"]
  /\ UNCHANGED <<script, code, lleqVars, errPipe, outPipe, z3Vars, truth>>

-----------------------------------------------------------------------------
(* The script.                                                              *)

environment == <<lleqVars, errPipe, outPipe, z3Vars, truth>>

Popen(p, next) ==
  \/ proc' = [proc EXCEPT ![p] = "running"] /\ pc' = next
  \* No such file: not the exception that is caught.
  \/ pc' = "raised" /\ UNCHANGED proc

SpawnLleq ==
  /\ pc = "spawnLleq" /\ Popen("lleq", "spawnZ3")
  /\ UNCHANGED <<victims, row, deadline, code, environment>>

SpawnZ3 ==
  /\ pc = "spawnZ3" /\ Popen("z3", "waitZ3")
  /\ UNCHANGED <<victims, row, deadline, code, environment>>

Waiting == [z3 |-> "waitZ3", lleq |-> "waitLleq"]

\* communicate() has read the pipes to their ends and waited for the process.
Communicate(p, next) ==
  /\ pc = Waiting[p] /\ proc[p] = "zombie"
  /\ proc' = [proc EXCEPT ![p] = "reaped"]
  /\ pc' = next
  /\ UNCHANGED <<victims, row, deadline, code, environment>>

\* Faulty: the script reads on until it has seen the answer.
WaitForAnswer ==
  /\ pc = Waiting["z3"] /\ printed # "none"
  /\ pc' = "waitLleq"
  /\ UNCHANGED <<victims, row, deadline, proc, code, environment>>

WaitZ3 == Communicate("z3", "waitLleq")
WaitLleq == Communicate("lleq", "classify")

\* Faulty: there is no deadline for the first of the two calls.
TimesOutOnLleq(p) ==
  /\ p = "lleq" /\ pc = Waiting[p]
  /\ pc' = "kill" /\ victims' = Procs /\ deadline' = p
  /\ UNCHANGED <<row, proc, code, environment>>

\* Faulty: the except clause looks after the process it waited for.
TimesOutForOne(p) ==
  /\ pc = Waiting[p]
  /\ pc' = "kill" /\ victims' = {p} /\ deadline' = p
  /\ UNCHANGED <<row, proc, code, environment>>

\* communicate() looks at the clock before it looks at the process, which may have ended in time.
TimesOut(p) ==
  /\ pc = Waiting[p]
  /\ pc' = "kill" /\ victims' = Procs /\ deadline' = p
  /\ UNCHANGED <<row, proc, code, environment>>

\* z3 first.
Victim == IF "z3" \in victims THEN "z3" ELSE "lleq"

\* The whole group, or, if that is refused, the child unless poll() finds that it has ended.
Kill ==
  /\ pc = "kill" /\ victims # {}
  /\ victims' = victims \ {Victim}
  /\ \/ proc[Victim] = "running" /\ proc' = [proc EXCEPT ![Victim] = "doomed"]
     \/ Closed(Victim) /\ UNCHANGED proc
     \/ GroupEPERM /\ proc[Victim] = "zombie" /\ proc' = [proc EXCEPT ![Victim] = "reaped"]
  /\ UNCHANGED <<pc, row, deadline, code, environment>>

StartReaping ==
  /\ pc = "kill" /\ victims = {}
  /\ pc' = "reap" /\ victims' = Procs
  /\ UNCHANGED <<row, deadline, proc, code, environment>>

\* wait(timeout=1), which may expire once more: the row is the same.
Reap ==
  /\ pc = "reap" /\ victims # {}
  /\ victims' = victims \ {Victim}
  /\ \/ Ended(Victim) /\ proc' = [proc EXCEPT ![Victim] = "reaped"]
     \/ ~Ended(Victim) /\ UNCHANGED proc
  /\ UNCHANGED <<pc, row, deadline, code, environment>>

\* Faulty: the row is recorded only if the children could be waited for.
RecordIfReaped ==
  /\ pc = "reap" /\ victims = {}
  /\ pc' = "done"
  /\ row' = IF \A p \in Procs : proc[p] = "reaped" THEN "timeout" ELSE row
  /\ UNCHANGED <<victims, deadline, proc, code, environment>>

RecordTimeout ==
  /\ pc = "reap" /\ victims = {}
  /\ pc' = "done" /\ row' = "timeout"
  /\ UNCHANGED <<victims, deadline, proc, code, environment>>

\* Faulty: what is not sat is a proof unless z3 failed.
ResultByStatus ==
  IF unsupported /\ toErr = 0 THEN "unsupported"
  ELSE IF code["lleq"] # 0 THEN "error"
  ELSE IF printed = "sat" THEN "counterexample"
  ELSE IF code["z3"] = 2 THEN "error" ELSE "verified"

\* Faulty: SAT_RE is not anchored, and tried first.
ResultUnanchored ==
  IF unsupported /\ toErr = 0 THEN "unsupported"
  ELSE IF code["lleq"] # 0 THEN "error"
  ELSE CASE printed \in {"sat", "unsat"} -> "counterexample"
         [] printed = "unknown"         -> "partial"
         [] printed = "none"            -> "error"

\* The answer counts whatever status z3 exits with, since (get-model) after unsat makes it 1.
Result ==
  IF unsupported /\ toErr = 0 THEN "unsupported"
  ELSE IF code["lleq"] # 0 THEN "error"
  ELSE CASE printed = "unsat"   -> "verified"
         [] printed = "sat"     -> "counterexample"
         [] printed = "unknown" -> "partial"
         [] printed = "none"    -> "error"

Classify ==
  /\ pc = "classify"
  /\ pc' = "done" /\ row' = Result
  /\ UNCHANGED <<victims, deadline, proc, code, environment>>

RunWp ==
  \/ SpawnLleq \/ SpawnZ3 \/ WaitZ3 \/ WaitLleq
  \/ \E p \in Procs : TimesOut(p)
  \/ Kill \/ StartReaping \/ Reap \/ RecordTimeout
  \/ Classify

Next ==
  \/ RunWp
  \/ LleqStartsSolver \/ LleqEndsSolver \/ LleqWritesStderr \/ LleqWritesQuery \/ LleqReturns \/ LleqFails
  \/ Z3Reads \/ Z3Exits \/ Z3Crashes
  \/ \E p \in Procs : Dies(p)
  \/ \E p \in Procs : BecomesZombie(p)

Spec == Init /\ [][Next]_vars
FairSpec == Spec /\ WF_vars(RunWp)

-----------------------------------------------------------------------------
\* A row is recorded whenever run_wp returns, and no piece of the query is lost or read twice.
TypeOK ==
  /\ victims \subseteq Procs /\ deadline \in {"none"} \cup Procs
  /\ IF pc = "done" THEN row \in Rows ELSE row = "none"
  /\ proc \in [Procs -> {"none", "running", "doomed", "exiting", "zombie", "reaped"}] /\ code \in [Procs -> 0 .. 2]
  /\ errPipe \in 0 .. Capacity /\ outPipe \in 0 .. Capacity
  /\ toErr \in 0 .. MaxStderr /\ toOut + outPipe + got = QueryPieces
  /\ helper \in {"none", "running"} /\ printed \in {"none"} \cup Answers

\* "verified" is recorded only for a query that reached z3 whole and is unsatisfiable, whichever of
\* the two processes failed, stopped early or skipped a line, and whenever.
VerifiedIsTrue == row = "verified" => truth = "unsat" /\ got = QueryPieces /\ code["lleq"] = 0

\* "counterexample" is recorded only for a satisfiable query, as long as z3 could read all of it:
\* an answer given after an error message is believed.
CounterexampleIsTrue == row = "counterexample" => truth = "sat" \/ rejected

\* When run_wp returns, its children are gone or dying.  A solver that lleq started may run on
\* only if lleq did not end by itself.
NothingIsLeft ==
  pc = "done" =>
    /\ \A p \in Procs : proc[p] \in {"doomed", "exiting", "zombie", "reaped"}
    /\ helper = "running" => proc["lleq"] = "doomed" \/ code["lleq"] # 0

\* The one second that lleq gets after z3 never interrupts an lleq at work, unless z3 crashed: z3
\* reads to the end of what lleq writes.  The answer may be lost all the same, when lleq has closed
\* its output and the second expires before it can be waited for.
LateDeadlineCutsNoWork ==
  [][pc = "waitLleq" /\ pc' = "kill" /\ proc["lleq"] = "running" => code["z3"] = 2]_vars

\* The deadlines end every wait: a row is recorded even if lleq waits for room in its stderr while z3
\* waits for lleq and the script for z3.
Ends == <>(pc \in {"done", "raised"})
=============================================================================
