--------------------------- MODULE MCTermBuilder ---------------------------
(***************************************************************************)
(* A product function with every kind of value, a division by a division   *)
(* among them, over an integer member and an array whose name is that of   *)
(* the integer's witness; the argument has that of its constrained side.   *)
(***************************************************************************)
EXTENDS TermBuilder, TLC

N == <<"n">>
A == <<"n", "_w">>
MCMembers == {N, A}
MCMemberSort == A :> "array" @@ N :> "int"

Line(definition, operands, subject) == <<definition, operands, subject>>
Program == <<
  Line("argument", {}, << >>),
  Line("counter", {}, << >>),
  Line("division", {1, 2}, << >>),
  Line("division", {1, 3}, << >>),
  Line("parameter", {}, <<"P">>),
  Line("witnessRead", {}, N),
  Line("constraintRead", {}, N),
  Line("memberArray", {}, A),
  Line("arithmetic", {4, 7}, << >>),
  Line("subcomponent", {1}, << >>),
  Line("subcomponentRead", {10}, << >>),
  Line("localArray", {}, << >>),
  Line("boolArgument", {}, << >>),
  Line("arithmetic", {3, 5, 6}, << >>)>>

MCSSAValues == DOMAIN Program
MCDefinition == [v \in MCSSAValues |-> Program[v][1]]
MCOperands == [v \in MCSSAValues |-> Program[v][2]]
MCName == [v \in MCSSAValues |-> IF v = 1 THEN <<"n", "_c">> ELSE <<"t", ToString(v)>>]
MCSubject == [v \in MCSSAValues |-> Program[v][3]]
=============================================================================
