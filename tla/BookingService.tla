--------------------------- MODULE BookingService ---------------------------
(***************************************************************************)
(* What the booking system as a whole promises, whatever the number of     *)
(* server processes behind it: one bookings record per user, sessions that *)
(* hold a record for reading or for writing, and changes that happen in    *)
(* one piece, only inside the one write session of the record, and never   *)
(* take it outside the announced limits.  BookingServer implements it.     *)
(***************************************************************************)
EXTENDS Integers

CONSTANTS
  Session,     \* who may hold a record
  Id,          \* users, one record each
  MaxTotal,    \* the limit on the items of one record
  Change,      \* the changes a session may ask for
  FirstRecord  \* the content of the records at the start

VARIABLES
  record,      \* record[i]: the bookings of user i
  readers,     \* readers[i]: the sessions that hold record i for reading
  writers      \* writers[i]: the sessions that hold record i for writing

vars == <<record, readers, writers>>

Sum(rec, change) == [ food    |-> rec.food + change.food,
                      concert |-> rec.concert + change.concert,
                      elecs   |-> rec.elecs + change.elecs ]

InLimits(rec) == /\ rec.food >= 0 /\ rec.concert >= 0 /\ rec.elecs >= 0
                 /\ rec.food + rec.concert + rec.elecs <= MaxTotal

Init == /\ record = FirstRecord
        /\ readers = [i \in Id |-> {}]
        /\ writers = [i \in Id |-> {}]

EnterRead(c, i) ==
  /\ writers[i] = {}
  /\ readers' = [readers EXCEPT ![i] = @ \cup {c}]
  /\ UNCHANGED <<record, writers>>

EnterWrite(c, i) ==
  /\ readers[i] = {} /\ writers[i] = {}
  /\ writers' = [writers EXCEPT ![i] = {c}]
  /\ UNCHANGED <<record, readers>>

Book(c, i, change) ==
  /\ c \in writers[i]
  /\ InLimits(Sum(record[i], change))
  /\ record' = [record EXCEPT ![i] = Sum(@, change)]
  /\ UNCHANGED <<readers, writers>>

\* One session ends, or all sessions of a process that dies end together.
Leave(gone) ==
  /\ readers' = [i \in Id |-> readers[i] \ gone]
  /\ writers' = [i \in Id |-> writers[i] \ gone]
  /\ UNCHANGED record

Next == \/ \E c \in Session, i \in Id : EnterRead(c, i) \/ EnterWrite(c, i)
        \/ \E c \in Session, i \in Id, change \in Change : Book(c, i, change)
        \/ \E gone \in SUBSET Session : Leave(gone)

Spec == Init /\ [][Next]_vars
=============================================================================
