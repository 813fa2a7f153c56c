------------------------- MODULE VerificationContract -------------------------
(***************************************************************************)
(* What `lleq verify' promises about a struct: verdicts are only ever      *)
(* added, each is right, and the run ends with a report or is aborted.     *)
(* FixpointVerifier implements this module.                                *)
(***************************************************************************)
CONSTANT Members   \* the members of the selected struct

VARIABLES
  differs,   \* the members whose two sides some execution tells apart
  verdict,   \* what is known of each member so far
  phase      \* "running", "reported" or "aborted"

vars == <<differs, verdict, phase>>

Right(m) == IF m \in differs THEN "inequivalent" ELSE "equivalent"

TypeOK ==
  /\ differs \subseteq Members
  /\ verdict \in [Members -> {"unknown", "equivalent", "inequivalent"}]
  /\ phase \in {"running", "reported", "aborted"}

Init ==
  /\ differs \in SUBSET Members
  /\ verdict = [m \in Members |-> "unknown"]
  /\ phase = "running"

\* One round of the verifier settles any set of open members, each rightly.
Settle(S) ==
  /\ phase = "running"
  /\ \A m \in S : verdict[m] = "unknown"
  /\ verdict' = [m \in Members |-> IF m \in S THEN Right(m) ELSE verdict[m]]
  /\ UNCHANGED <<differs, phase>>

Finish ==
  /\ phase = "running"
  /\ phase' \in {"reported", "aborted"}
  /\ UNCHANGED <<differs, verdict>>

Next == (\E S \in SUBSET Members : Settle(S)) \/ Finish

Spec == Init /\ [][Next]_vars

FairSpec == Spec /\ WF_vars(Finish)
=============================================================================
