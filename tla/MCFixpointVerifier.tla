-------------------------- MODULE MCFixpointVerifier --------------------------
(* Three members, one of them not a signal, over the field of order 3.       *)
EXTENDS FixpointVerifier

\* A negative number, and two numbers of the same residue.
MCModelValues == {-1, 0, 1, 3}
===============================================================================
