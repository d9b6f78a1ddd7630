-------------------------------- MODULE Queues --------------------------------
(***************************************************************************)
(* Arrays with a count, as the queues of hw3 and the lists of hw4: what is *)
(* in one, and the loop that goes through one and keeps some of it.        *)
(***************************************************************************)
EXTENDS Integers, Sequences

Slots(q) == {q[k] : k \in DOMAIN q}

\* Those of q that are in S, in the order of q.
Keep(q, S) ==
  LET upto[k \in 0 .. Len(q)] == IF k = 0 THEN <<>>
                                 ELSE IF q[k] \in S THEN Append(upto[k - 1], q[k]) ELSE upto[k - 1]
  IN upto[Len(q)]
=============================================================================
