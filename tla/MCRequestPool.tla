---------------------------- MODULE MCRequestPool ----------------------------
(***************************************************************************)
(* Instance of RequestPool for TLC: a concurrent job that allows fewer     *)
(* requests at once than it has, and two sequential ones, one of which     *)
(* stops on errors, on a pool smaller than what they want at once.        *)
(***************************************************************************)
EXTENDS RequestPool

CONSTANTS wide, strict, lax

CountOfJob == [j \in Job |-> IF j = wide THEN 3 ELSE 2]
ConcurrencyOfJob == [j \in Job |-> IF j = wide THEN 2 ELSE IF j = strict THEN 0 ELSE 1]
StopOfJob == [j \in Job |-> j # lax]
=============================================================================
