-------------------------- MODULE PortfolioContract --------------------------
(***************************************************************************)
(* What a caller of invokeSolverPortfolio relies on                        *)
(* (include/Verification/SolverUtils.h:55-56, "spawn a portfolio of solver *)
(* processes and return the first known result"): some solvers are asked,  *)
(* each may reply at any time or never, and at most one outcome is         *)
(* returned.  A Sat or Unsat outcome is the reply of one asked solver; an   *)
(* inconclusive outcome means every asked solver replied inconclusively.   *)
(* SolverPortfolio implements this module.                                 *)
(***************************************************************************)

CONSTANT Jobs   \* the solvers the portfolio may ask

VARIABLES
  asked,    \* the solvers that are asked
  reply,    \* what each asked solver said on its own account
  outcome   \* what the portfolio returned

vars == <<asked, reply, outcome>>

Verdicts == {"Sat", "Unsat"}

TypeOK ==
  /\ asked \subseteq Jobs
  /\ reply \in [Jobs -> Verdicts \cup {"pending", "inconclusive"}]
  /\ outcome \in Verdicts \cup {"none", "inconclusive"}

Init ==
  /\ asked = {}
  /\ reply = [j \in Jobs |-> "pending"]
  /\ outcome = "none"

\* The portfolio is started on a nonempty set of solvers.
Ask(S) ==
  /\ asked = {}
  /\ S # {}
  /\ asked' = S
  /\ UNCHANGED <<reply, outcome>>

\* A solver finishes by itself.
Reply(j, v) ==
  /\ j \in asked
  /\ reply[j] = "pending"
  /\ reply' = [reply EXCEPT ![j] = v]
  /\ UNCHANGED <<asked, outcome>>

\* The first known verdict wins, whatever the other solvers do.
ReturnVerdict(j) ==
  /\ outcome = "none"
  /\ j \in asked
  /\ reply[j] \in Verdicts
  /\ outcome' = reply[j]
  /\ UNCHANGED <<asked, reply>>

\* Only a unanimous "I do not know" is inconclusive.
ReturnInconclusive ==
  /\ outcome = "none"
  /\ asked # {}
  /\ \A j \in asked : reply[j] = "inconclusive"
  /\ outcome' = "inconclusive"
  /\ UNCHANGED <<asked, reply>>

Return == (\E j \in asked : ReturnVerdict(j)) \/ ReturnInconclusive

Next ==
  \/ \E S \in SUBSET Jobs : Ask(S)
  \/ \E j \in Jobs, v \in Verdicts \cup {"inconclusive"} : Reply(j, v)
  \/ Return

Spec == Init /\ [][Next]_vars

\* An answer that is there is returned: one hung solver holds nobody up.
FairSpec == Spec /\ WF_vars(Return)
=============================================================================
