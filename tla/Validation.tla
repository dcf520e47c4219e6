----------------------------- MODULE Validation -----------------------------
(***************************************************************************)
(* The shape most validators of the program share: a list of checks made   *)
(* in order, of which the first that fails decides the error.  A check is  *)
(* a pair <<it holds, the error it reports otherwise>>.                    *)
(***************************************************************************)
EXTENDS Naturals, Sequences, FiniteSetsExt

FirstFailure(checks, ok) ==
  LET failed == {i \in DOMAIN checks : ~checks[i][1]}
  IN  IF failed = {} THEN ok ELSE checks[Min(failed)][2]
=============================================================================
