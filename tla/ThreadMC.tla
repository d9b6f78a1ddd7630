------------------------------ MODULE ThreadMC ------------------------------
(* Instances of ThreadScheduler for TLC. *)
EXTENDS ThreadScheduler, TLC

CONSTANTS F, C, S, S2   \* fibonacci, collatz, max_subarray, another reader

Numbers == {2, -1}

\* A program with two readers between two others.
TwoReaders == <<S, F, S2, C>>
TwoReadersArg == (F :> 3 @@ C :> 1 @@ S :> 3 @@ S2 :> 1)

\* The same with all but one running for ever, and F another collatz, whose fields
\* take fewer values than those of fibonacci.
TwoReadersEndless == (F :> 0 @@ C :> 2 @@ S :> 0 @@ S2 :> 0)
=============================================================================
