------------------------------ MODULE BookingMC ------------------------------
(* Instances of BookingServer for TLC: processes, connections and data. *)
EXTENDS BookingServer, TLC

CONSTANTS R, W, V,             \* processes: one read server, two write servers
          r1, r2, w1, w2, v1,  \* their connections
          u1, u2               \* users

MCHome == [c \in Conn |-> CASE c \in {r1, r2} -> R [] c \in {w1, w2} -> W [] c = v1 -> V]
OneUser == (u1 :> [food |-> 0, concert |-> 0, elecs |-> 0])
TwoUsers == (u1 :> [food |-> 0, concert |-> 0, elecs |-> 0]
          @@ u2 :> [food |-> 1, concert |-> 0, elecs |-> 0])

Amounts(f, c, e) == [food : f, concert : c, elecs : e]
OneMoreOrLess == Amounts({-1, 1}, {0}, {0})
\* An item booked, exchanged for one of another object, and given back.
Exchanges == Amounts({1}, {0}, {0}) \cup Amounts({-1}, {1}, {0}) \cup Amounts({0}, {-1}, {0})
Extreme == Amounts({0, IntMax}, {1}, {0})

\* Beyond every limit, and, once a record is, beyond an int.
MCIdNumber == [i \in Id |-> IntMax \div 2 + 1]

\* Connections of one process are interchangeable.
Twins == Permutations({r1, r2}) \cup Permutations({w1, w2})
=============================================================================
