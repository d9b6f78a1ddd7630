------------------------------- MODULE MovieMC -------------------------------
(* Instances of MovieSort for TLC. *)
EXTENDS MovieSort, TLC

CONSTANTS q1, q2   \* requests

\* Nine movies for one request: with two thresholds below, four ranges of two
\* and one movie left over.
Nine == <<4, 1, 8, 3, 6, 9, 2, 7, 5>>
All == [n \in Request |-> {Title}]

\* Six movies for four ranges, four of them for two ranges, or none.
Six == <<4, 1, 6, 3, 2, 5>>
SixFourNone == [n \in Request |-> {1 .. 6, {6, 4, 3, 1}, {}}]

\* Five movies: one request for all of them or one, another for two or none.
Five == <<3, 1, 5, 4, 2>>
AllAndFew == (q1 :> {1 .. 5, {4}} @@ q2 :> {{2, 3}, {}})
=============================================================================
