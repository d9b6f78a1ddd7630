---------------------------- MODULE BookingProofs ----------------------------
(***************************************************************************)
(* Proofs about BookingServer for every number of processes, connections,  *)
(* users and failures: its types, the exclusion of sessions, and what      *)
(* builds on it: what a session was shown stays true, no update is lost,   *)
(* nothing stays locked for nobody, and the processes together are a       *)
(* BookingService.                                                         *)
(***************************************************************************)
EXTENDS BookingServer, FiniteSetTheorems, TLAPS

-----------------------------------------------------------------------------
(* Lemmas about the data. *)

\* An int stays an int: `+=` wraps around within the type.
LEMMA WrapInRange == ASSUME NEW n \in Int PROVE Wrap(n) \in CInt
<1> DEFINE m == 2 * IntMax + 2
           r == (n + IntMax + 1) % m
<1>1. m \in Nat /\ m > 0
  BY RulesAssumption
<1>2. n + IntMax + 1 \in Int
  BY RulesAssumption
<1>3. r \in 0 .. m - 1
  <2> HIDE DEF m
  <2>1. \A a, b \in Int : b > 0 => a % b \in 0 .. b - 1
    BY SMT
  <2> QED BY <1>1, <1>2, <2>1
<1>4. Wrap(n) = r - (IntMax + 1)
  BY DEF Wrap
<1> QED BY <1>3, <1>4, RulesAssumption DEF CInt

LEMMA AppliedIsRecord ==
  ASSUME NEW rec \in Triple, NEW change \in Triple
  PROVE  Applied(rec, change) \in Triple
<1>1. \A n \in CInt : n \in Int
  BY RulesAssumption DEF CInt
<1>2. /\ rec.food + change.food \in Int
      /\ rec.concert + change.concert \in Int
      /\ rec.elecs + change.elecs \in Int
  BY <1>1 DEF Triple
<1> QED BY <1>2, WrapInRange DEF Applied, Triple

\* Counting the sessions of a record: what one more or one less does.
LEMMA SessionsFinite ==
  ASSUME NEW S \in SUBSET Conn
  PROVE  IsFiniteSet(S) /\ Cardinality(S) \in Nat
BY ConnectionsAssumption, FS_Subset, FS_CardinalityType

LEMMA OneLess ==
  ASSUME NEW S \in SUBSET Conn, NEW T \in SUBSET Conn, NEW c \in S, T \subseteq S \ {c}
  PROVE  Cardinality(T) + 1 <= Cardinality(S)
<1>1. IsFiniteSet(S) /\ IsFiniteSet(S \ {c})
  BY SessionsFinite
<1>2. Cardinality(S \ {c}) = Cardinality(S) - 1
  BY <1>1, FS_RemoveElement
<1>3. Cardinality(T) <= Cardinality(S \ {c})
  BY <1>1, FS_Subset
<1> QED BY <1>2, <1>3, SessionsFinite

LEMMA OneMore ==
  ASSUME NEW S \in SUBSET Conn, NEW T \in SUBSET Conn, NEW c \in Conn, T \subseteq S \cup {c}
  PROVE  Cardinality(T) <= Cardinality(S) + 1
<1>1. IsFiniteSet(S) /\ IsFiniteSet(S \cup {c})
  BY SessionsFinite
<1>2. Cardinality(S \cup {c}) <= Cardinality(S) + 1
  BY <1>1, FS_AddElement, SessionsFinite
<1>3. Cardinality(T) <= Cardinality(S \cup {c})
  BY <1>1, FS_Subset
<1> QED BY <1>2, <1>3, SessionsFinite

-----------------------------------------------------------------------------
(* Types. *)

\* The values run[s] is given.
LEMMA ActivityTypes ==
  /\ Idle \in Activity /\ Down \in Activity
  /\ \A c \in Conn, i \in Id : [Idle EXCEPT !.at = "show", !.fd = c, !.id = i] \in Activity
  /\ \A i \in Id \cup {None} : [Idle EXCEPT !.at = "release", !.id = i] \in Activity
  /\ \A c \in Conn, i \in Id \cup {None}, t \in Triple :
       [at |-> "commit", fd |-> c, id |-> i, input |-> t] \in Activity
  /\ \A a \in Activity : [a EXCEPT !.at = "report"] \in Activity
BY DEF Activity, Idle, Down

LEMMA InitTypes == Init => TypeOK
<1> SUFFICES ASSUME Init PROVE TypeOK
  OBVIOUS
<1>1. record \in [Id -> Triple] /\ run \in [Server -> Activity]
  BY ServerAssumption, ActivityTypes DEF Init
<1>2. <<>> \in Seq(Line)
  OBVIOUS
<1> QED BY <1>1, <1>2 DEF Init, TypeOK

\* What closing a connection leaves of the types of its variables.
LEMMA CloseTypes ==
  ASSUME TypeOK, NEW c \in Conn, CloseConn(c)
  PROVE  /\ open' \in SUBSET Conn
         /\ reqid' \in [Conn -> Id \cup {None}]
         /\ shown' \in [Conn -> Triple \cup {None}]
         /\ inbox' \in [Conn -> Seq(Line)]
         /\ peer' \in [Conn -> {"none", "live", "closed", "reset"}]
         /\ resets' \in Nat
BY DEF TypeOK, CloseConn

LEMMA ConsumeTypes ==
  ASSUME TypeOK, NEW c \in Conn, Consume(c)
  PROVE  /\ inbox' \in [Conn -> Seq(Line)]
         /\ peer' \in [Conn -> {"none", "live", "closed", "reset"}]
         /\ resets' \in Nat
BY DEF TypeOK, Consume

LEMMA AskedAreTriples == Asked \subseteq Triple
BY ServerAssumption, RulesAssumption DEF Asked, OnlyFood, Triple, CInt

LEMMA LineFields ==
  ASSUME NEW line \in Line
  PROVE  /\ line.kind = "id" => line.id \in Id
         /\ line.kind \in {"command", "id"} => line.change \in Triple
BY AskedAreTriples, ServerAssumption DEF Line, Oddities, Asked

\* The line a server has got.
LEMMA GotLine ==
  ASSUME TypeOK, NEW c \in Conn, NEW K, Got(c, K)
  PROVE  /\ Home[c] \in Server /\ run[Home[c]] = Idle /\ c \in open
         /\ Head(inbox[c]) \in Line
         /\ Head(inbox[c]).kind = "id" => Head(inbox[c]).id \in Id
         /\ Head(inbox[c]).kind \in {"command", "id"} => Head(inbox[c]).change \in Triple
<1>1. inbox[c] \in Seq(Line) /\ inbox[c] # <<>>
  BY DEF TypeOK, Got
<1>2. Head(inbox[c]) \in Line
  BY <1>1
<1>4. Home[c] \in Server /\ run[Home[c]] = Idle /\ c \in open
  BY ServerAssumption DEF Got, Ready
<1>5. /\ Head(inbox[c]).kind = "id" => Head(inbox[c]).id \in Id
      /\ Head(inbox[c]).kind \in {"command", "id"} => Head(inbox[c]).change \in Triple
  BY <1>2, LineFields
<1> QED BY <1>2, <1>4, <1>5

LEMMA SetLockTypes ==
  ASSUME TypeOK, NEW s \in Server, NEW i, NEW l \in {"un", "rd", "wr"}, SetLock(s, i, l)
  PROVE  lock' \in [Server -> [Id -> {"un", "rd", "wr"}]]
<1>1. [lock[s] EXCEPT ![i] = l] \in [Id -> {"un", "rd", "wr"}]
  BY DEF TypeOK
<1>2. lock' = [lock EXCEPT ![s] = [lock[s] EXCEPT ![i] = l]]
  BY DEF SetLock
<1> QED BY <1>1, <1>2 DEF TypeOK

LEMMA DropTypes ==
  ASSUME TypeOK, NEW s \in Server, NEW i \in Id, DropReader(s, i) \/ DropWriter(s, i)
  PROVE  /\ lock' \in [Server -> [Id -> {"un", "rd", "wr"}]]
         /\ readlc' \in [Server -> [Id -> Int]]
         /\ samewr' \in [Server -> [Id -> {0, 1}]]
<1>1. lock' \in [Server -> [Id -> {"un", "rd", "wr"}]]
  BY SetLockTypes DEF TypeOK, DropReader, DropWriter
<1>2. readlc' \in [Server -> [Id -> Int]]
  <2>1. CASE DropReader(s, i)
    <3>1. readlc' = [readlc EXCEPT ![s] = [readlc[s] EXCEPT ![i] = readlc[s][i] - 1]]
      BY <2>1 DEF DropReader
    <3>2. readlc[s] \in [Id -> Int] /\ readlc[s][i] - 1 \in Int
      BY DEF TypeOK
    <3> QED BY <3>1, <3>2 DEF TypeOK
  <2>2. CASE DropWriter(s, i)
    BY <2>2 DEF DropWriter, TypeOK
  <2> QED BY <2>1, <2>2
<1>3. samewr' \in [Server -> [Id -> {0, 1}]]
  <2>1. samewr[s] \in [Id -> {0, 1}]
    BY DEF TypeOK
  <2>2. samewr' = samewr \/ samewr' = [samewr EXCEPT ![s] = [samewr[s] EXCEPT ![i] = 0]]
    BY DEF DropReader, DropWriter
  <2>3. [samewr[s] EXCEPT ![i] = 0] \in [Id -> {0, 1}]
    BY <2>1
  <2> QED BY <2>2, <2>3 DEF TypeOK
<1> QED BY <1>1, <1>2, <1>3

LEMMA TypeStep == TypeOK /\ RunOK /\ DialogueOK /\ [Next]_vars => TypeOK'
<1> SUFFICES ASSUME TypeOK, RunOK, DialogueOK, [Next]_vars PROVE TypeOK'
  OBVIOUS
<1> USE DEF vars, locks, conns, net
<1>1. ASSUME NEW c \in Conn, Client(c) PROVE TypeOK'
  <2>1. CASE Accept(c)
    BY <2>1 DEF TypeOK, Accept
  <2>2. CASE Hangup(c)
    BY <2>2 DEF TypeOK, Hangup
  <2>3. CASE Reset(c)
    BY <2>3 DEF TypeOK, Reset
  <2>4. ASSUME NEW line \in Line, Send(c, line) PROVE TypeOK'
    BY <2>4 DEF TypeOK, Send
  <2> QED BY <1>1, <2>1, <2>2, <2>3, <2>4 DEF Client
<1>2. ASSUME NEW s \in Server, Terminate(s) PROVE TypeOK'
  <2>1. /\ lock' \in [Server -> [Id -> {"un", "rd", "wr"}]]
        /\ readlc' \in [Server -> [Id -> Int]]
        /\ samewr' \in [Server -> [Id -> {0, 1}]]
    BY <1>2 DEF TypeOK, Terminate
  <2>2. run' \in [Server -> Activity]
    BY <1>2, ActivityTypes DEF TypeOK, Terminate
  <2>3. /\ open' \in SUBSET Conn
        /\ state' \in [Conn -> {"HI", "ID", "EXIT", "COMMAND"}]
        /\ reqid' \in [Conn -> Id \cup {None}]
        /\ shown' \in [Conn -> Triple \cup {None}]
    BY <1>2 DEF TypeOK, Terminate
  <2>4. /\ inbox' \in [Conn -> Seq(Line)]
        /\ peer' \in [Conn -> {"none", "live", "closed", "reset"}]
        /\ record' \in [Id -> Triple] /\ resets' \in Nat
    BY <1>2 DEF TypeOK, Terminate
  <2> QED BY <2>1, <2>2, <2>3, <2>4 DEF TypeOK
<1>3. ASSUME NEW c \in Conn, Serve(c) PROVE TypeOK'
  <2>1. CASE ReadFailed(c) \/ RejectId(c)
    BY <2>1, CloseTypes DEF TypeOK, ReadFailed, RejectId
  <2>2. CASE UnendedRead(c)
    BY <2>2, <1>2, GotLine DEF UnendedRead
  <2>3. CASE ReaderEnd(c) \/ WriterEnd(c)
    <3>1. Home[c] \in Server /\ c \in open
      BY <2>3, ServerAssumption DEF ReaderEnd, WriterEnd, AtEnd, Got, Ready
    <3>2. UNCHANGED locks \/ reqid[c] \in Id
      BY <2>3, <3>1 DEF TypeOK, DialogueOK, ReaderEnd, WriterEnd
    <3> QED BY <2>3, <3>1, <3>2, CloseTypes, DropTypes DEF TypeOK, ReaderEnd, WriterEnd
  <2>4. CASE ReaderLocked(c)
    BY <2>4, CloseTypes DEF TypeOK, ReaderLocked, Refuse
  <2>5. CASE WriterLocked(c)
    <3>1. lock' \in [Server -> [Id -> {"un", "rd", "wr"}]]
      BY <2>5, SetLockTypes, ServerAssumption DEF TypeOK, WriterLocked
    <3> QED BY <2>5, <3>1, CloseTypes DEF TypeOK, WriterLocked, Refuse
  <2>6. CASE ReaderAdmit(c)
    <3> DEFINE i == Head(inbox[c]).id
    <3>1. i \in Id /\ Home[c] \in Server
      BY <2>6, GotLine DEF ReaderAdmit, Got
    <3>2. lock' \in [Server -> [Id -> {"un", "rd", "wr"}]]
      BY <2>6, <3>1, SetLockTypes DEF ReaderAdmit
    <3>3. readlc' \in [Server -> [Id -> Int]] /\ samewr' \in [Server -> [Id -> {0, 1}]]
      BY <2>6, <3>1 DEF TypeOK, ReaderAdmit
    <3>4. run' \in [Server -> Activity] /\ reqid' \in [Conn -> Id \cup {None}]
      BY <2>6, <3>1, ActivityTypes DEF TypeOK, ReaderAdmit
    <3> QED BY <2>6, <3>2, <3>3, <3>4, ConsumeTypes DEF TypeOK, ReaderAdmit
  <2>7. CASE WriterAdmit(c)
    <3> DEFINE i == Head(inbox[c]).id
    <3>1. i \in Id /\ Home[c] \in Server
      BY <2>7, GotLine DEF WriterAdmit, Got
    <3>2. lock' \in [Server -> [Id -> {"un", "rd", "wr"}]]
      BY <2>7, <3>1, SetLockTypes DEF WriterAdmit
    <3>3. readlc' \in [Server -> [Id -> Int]] /\ samewr' \in [Server -> [Id -> {0, 1}]]
      BY <2>7, <3>1 DEF TypeOK, WriterAdmit
    <3>4. run' \in [Server -> Activity] /\ reqid' \in [Conn -> Id \cup {None}]
      BY <2>7, <3>1, ActivityTypes DEF TypeOK, WriterAdmit
    <3> QED BY <2>7, <3>2, <3>3, <3>4, ConsumeTypes DEF TypeOK, WriterAdmit
  <2>8. CASE ReaderIgnore(c)
    BY <2>8, ConsumeTypes DEF TypeOK, ReaderIgnore
  <2>9. CASE ReaderExit(c) \/ CommandRefused(c)
    <3>1. reqid[c] \in Id \cup {None}
      BY DEF TypeOK
    <3>2. [Idle EXCEPT !.at = "release", !.id = reqid[c]] \in Activity
      BY <3>1, ActivityTypes
    <3>3. run' \in [Server -> Activity]
      BY <2>9, <3>2 DEF TypeOK, ReaderExit, CommandRefused
    <3> QED BY <2>9, <3>3, CloseTypes DEF TypeOK, ReaderExit, CommandRefused
  <2>10. CASE CommandAccepted(c)
    <3> DEFINE line == Head(inbox[c])
    <3>1. line.change \in Triple /\ line.kind \in {"command", "id"}
      BY <2>10, GotLine DEF CommandAccepted, Answer
    <3>2. reqid[c] \in Id \cup {None}
      BY DEF TypeOK
    <3>3. reqid[c] \in Id
      BY <2>10, <3>2 DEF CommandAccepted, Got, Ready, DialogueOK
    <3>4. Applied(record[reqid[c]], line.change) \in Triple
      BY <3>1, <3>3, AppliedIsRecord DEF TypeOK
    <3>5. run' \in [Server -> Activity]
      BY <2>10, <3>2, <3>4, ActivityTypes DEF TypeOK, CommandAccepted
    <3> QED BY <2>10, <3>5, ConsumeTypes DEF TypeOK, CommandAccepted
  <2> QED BY <1>3, <2>1, <2>2, <2>3, <2>4, <2>5, <2>6, <2>7, <2>8, <2>9, <2>10 DEF Serve
<1>4. ASSUME NEW s \in Server, Continue(s) PROVE TypeOK'
  <2>1. CASE Show(s)
    <3>1. record[run[s].id] \in Triple /\ run' \in [Server -> Activity]
      BY <2>1, ActivityTypes DEF TypeOK, RunOK, Show
    <3> QED BY <2>1, <3>1 DEF TypeOK, Show
  <2>2. CASE Commit(s)
    <3>1. record' \in [Id -> Triple]
      BY <2>2 DEF TypeOK, RunOK, Commit
    <3>2. run' \in [Server -> Activity]
      BY <2>2, ActivityTypes DEF TypeOK, Commit
    <3> QED BY <2>2, <3>1, <3>2 DEF TypeOK, Commit
  <2>3. CASE Report(s)
    <3>1. run[s].fd \in Conn /\ run' \in [Server -> Activity]
      BY <2>3, ActivityTypes DEF TypeOK, RunOK, Report
    <3> QED BY <2>3, <3>1, CloseTypes DEF TypeOK, Report
  <2>4. CASE Release(s)
    BY <2>4, DropTypes, ActivityTypes DEF TypeOK, RunOK, Release
  <2> QED BY <1>4, <2>1, <2>2, <2>3, <2>4 DEF Continue
<1>5. ASSUME NEW s \in Server, Restart(s) PROVE TypeOK'
  BY <1>5, ActivityTypes DEF TypeOK, Restart
<1>6. CASE UNCHANGED vars
  BY <1>6 DEF TypeOK
<1> QED BY <1>1, <1>2, <1>3, <1>4, <1>5, <1>6 DEF Next, BrokenPipe, Kill

-----------------------------------------------------------------------------
(* The parts of SessionInv, one step of a process or a client at a time. *)

\* A process that is serving a descriptor is not reading another.
LEMMA OthersServed ==
  ASSUME RunOK, NEW c \in Conn, Ready(c), NEW s \in Server,
         run[s].at \in {"show", "commit", "report"}
  PROVE  s # Home[c] /\ run[s].fd # c
<1>1. run[Home[c]].at = "select"
  BY DEF Ready, Idle
<1> QED BY <1>1 DEF RunOK

\* When a record's holder in the process is the only change, RunOK survives.
LEMMA RunFrame ==
  ASSUME RunOK, UNCHANGED run,
         \A s \in Server : run[s].at \in {"show", "commit", "report"} =>
                             reqid'[run[s].fd] = reqid[run[s].fd]
  PROVE  RunOK'
BY DEF RunOK, Idle

LEMMA RunStep == TypeOK /\ RunOK /\ DialogueOK /\ [Next]_vars => RunOK'
<1> SUFFICES ASSUME TypeOK, RunOK, DialogueOK, [Next]_vars PROVE RunOK'
  OBVIOUS
<1> USE DEF vars, locks, conns, net
<1>1. ASSUME NEW c \in Conn, Client(c) PROVE RunOK'
  BY <1>1, RunFrame DEF Client, Accept, Hangup, Reset, Send
<1>2. ASSUME NEW s \in Server, Terminate(s) PROVE RunOK'
  <2>1. run' = [run EXCEPT ![s] = Down]
    BY <1>2 DEF Terminate
  <2>2. \A t \in Server \ {s} : run[t].at \in {"show", "commit", "report"} =>
                              reqid'[run[t].fd] = reqid[run[t].fd]
    BY <1>2 DEF Terminate, RunOK
  <2>3. \A t \in Server \ {s} : run'[t] = run[t]
    BY <2>1 DEF TypeOK
  <2>4. run'[s] = Down
    BY <2>1 DEF TypeOK
  <2> QED BY <2>2, <2>3, <2>4 DEF RunOK, Down, Idle
<1>3. ASSUME NEW c \in Conn, CloseConn(c), Ready(c), UNCHANGED run PROVE RunOK'
  <2>1. \A s \in Server : run[s].at \in {"show", "commit", "report"} => run[s].fd # c
    BY <1>3, OthersServed
  <2>2. \A d : d # c => reqid'[d] = reqid[d]
    BY <1>3 DEF CloseConn, TypeOK
  <2> QED BY <1>3, <2>1, <2>2, RunFrame
<1>4. ASSUME NEW c \in Conn, CloseConn(c), Ready(c), NEW i \in Id,
             run' = [run EXCEPT ![Home[c]] = [Idle EXCEPT !.at = "release", !.id = i]]
      PROVE RunOK'
  <2>1. \A s \in Server : run[s].at \in {"show", "commit", "report"} => run[s].fd # c
    BY <1>4, OthersServed
  <2>2. \A d : d # c => reqid'[d] = reqid[d]
    BY <1>4 DEF CloseConn, TypeOK
  <2>3. \A s \in Server : s # Home[c] => run'[s] = run[s]
    BY <1>4 DEF TypeOK
  <2>4. run'[Home[c]] = [Idle EXCEPT !.at = "release", !.id = i]
    BY <1>4, ServerAssumption DEF TypeOK
  <2>5. run'[Home[c]].at = "release" /\ run'[Home[c]].id = i
    BY <2>4 DEF Idle
  <2> QED BY <2>1, <2>2, <2>3, <2>5 DEF RunOK
<1>5. ASSUME NEW c \in Conn, ReaderAdmit(c) \/ WriterAdmit(c) PROVE RunOK'
  <2> DEFINE i == Head(inbox[c]).id
  <2>1. i \in Id /\ Ready(c)
    BY <1>5, GotLine DEF ReaderAdmit, WriterAdmit, Got
  <2>2. \A s \in Server : run[s].at \in {"show", "commit", "report"} => run[s].fd # c
    BY <2>1, OthersServed
  <2>3. /\ reqid' = [reqid EXCEPT ![c] = i]
        /\ run' = [run EXCEPT ![Home[c]] = [Idle EXCEPT !.at = "show", !.fd = c, !.id = i]]
    BY <1>5 DEF ReaderAdmit, WriterAdmit
  <2> HIDE DEF i
  <2>4. \A s \in Server : s # Home[c] => run'[s] = run[s]
    BY <2>3 DEF TypeOK
  <2>5. run'[Home[c]] = [Idle EXCEPT !.at = "show", !.fd = c, !.id = i]
    BY <2>3, ServerAssumption DEF TypeOK
  <2>6. reqid'[c] = i /\ \A d : d # c => reqid'[d] = reqid[d]
    BY <2>3 DEF TypeOK
  <2>7. run'[Home[c]].at = "show" /\ run'[Home[c]].fd = c /\ run'[Home[c]].id = i
    BY <2>5 DEF Idle
  <2> QED BY <2>1, <2>2, <2>4, <2>6, <2>7 DEF RunOK
<1>6. ASSUME NEW c \in Conn, CommandAccepted(c) PROVE RunOK'
  <2> DEFINE line == Head(inbox[c])
             t == Applied(record[reqid[c]], line.change)
  <2>1. line.change \in Triple /\ Ready(c) /\ Home[c] \in WriteServer
    BY <1>6, GotLine DEF CommandAccepted, Answer, Got
  <2>2. reqid[c] \in Id
    BY <1>6, <2>1 DEF CommandAccepted, Ready, DialogueOK, TypeOK
  <2>3. t \in Triple
    BY <2>1, <2>2, AppliedIsRecord DEF TypeOK
  <2>4. run' = [run EXCEPT ![Home[c]] = [at |-> "commit", fd |-> c, id |-> reqid[c], input |-> t]]
    BY <1>6 DEF CommandAccepted
  <2>5. UNCHANGED reqid
    BY <1>6 DEF CommandAccepted
  <2> HIDE DEF t
  <2>6. \A s \in Server : s # Home[c] => run'[s] = run[s]
    BY <2>4 DEF TypeOK
  <2>7. run'[Home[c]] = [at |-> "commit", fd |-> c, id |-> reqid[c], input |-> t]
    BY <2>4, ServerAssumption DEF TypeOK
  <2> QED BY <2>1, <2>2, <2>3, <2>5, <2>6, <2>7 DEF RunOK
<1>7. ASSUME NEW c \in Conn, Serve(c) PROVE RunOK'
  <2>1. CASE ReadFailed(c) \/ RejectId(c)
    BY <2>1, <1>3 DEF ReadFailed, RejectId, Got
  <2>2. CASE ReaderEnd(c) \/ WriterEnd(c)
    BY <2>2, <1>3 DEF ReaderEnd, WriterEnd, AtEnd, Got
  <2>3. CASE ReaderLocked(c) \/ WriterLocked(c)
    BY <2>3, <1>3 DEF ReaderLocked, WriterLocked, Refuse, Got
  <2>4. CASE ReaderExit(c) \/ CommandRefused(c)
    <3>1. reqid[c] \in Id /\ Ready(c)
      BY <2>4 DEF ReaderExit, CommandRefused, Got, Ready, DialogueOK, TypeOK
    <3> QED BY <2>4, <3>1, <1>4 DEF ReaderExit, CommandRefused
  <2>5. CASE ReaderIgnore(c)
    BY <2>5, RunFrame DEF ReaderIgnore
  <2>6. CASE UnendedRead(c)
    BY <2>6, <1>2, ServerAssumption DEF UnendedRead
  <2> QED BY <1>5, <1>6, <1>7, <2>1, <2>2, <2>3, <2>4, <2>5, <2>6 DEF Serve
<1>8. ASSUME NEW s \in Server, Continue(s) PROVE RunOK'
  <2>1. CASE Show(s) \/ Release(s)
    <3>1. run' = [run EXCEPT ![s] = Idle] /\ UNCHANGED reqid
      BY <2>1 DEF Show, Release
    <3>2. run'[s] = Idle /\ \A t \in Server : t # s => run'[t] = run[t]
      BY <3>1 DEF TypeOK
    <3> QED BY <3>1, <3>2 DEF RunOK, Idle
  <2>2. CASE Commit(s)
    <3>1. run' = [run EXCEPT ![s].at = "report"] /\ UNCHANGED reqid
      BY <2>2 DEF Commit
    <3>2. /\ run'[s] = [run[s] EXCEPT !.at = "report"]
          /\ \A t \in Server : t # s => run'[t] = run[t]
      BY <3>1 DEF TypeOK
    <3>3. /\ run'[s].at = "report" /\ run'[s].fd = run[s].fd
          /\ run'[s].id = run[s].id /\ run'[s].input = run[s].input
      BY <3>2 DEF TypeOK, Activity
    <3> QED BY <2>2, <3>1, <3>2, <3>3 DEF RunOK, Commit
  <2>3. CASE Report(s)
    <3>1. /\ run[s].fd \in Conn /\ Home[run[s].fd] = s /\ run[s].id \in Id
      BY <2>3 DEF Report, RunOK
    <3>2. \A d : d # run[s].fd => reqid'[d] = reqid[d]
      BY <2>3 DEF Report, CloseConn, TypeOK
    <3>3. /\ run'[s] = [Idle EXCEPT !.at = "release", !.id = run[s].id]
          /\ \A t \in Server : t # s => run'[t] = run[t]
      BY <2>3 DEF Report, TypeOK
    <3>4. run'[s].at = "release" /\ run'[s].id = run[s].id
      BY <3>3 DEF Idle
    <3>5. \A t \in Server \ {s} : run[t].at \in {"show", "commit", "report"} =>
                                reqid'[run[t].fd] = reqid[run[t].fd]
      BY <3>1, <3>2 DEF RunOK
    <3>6. \A t \in Server \ {s} : run'[t] = run[t]
      BY <3>3
    <3> QED BY <3>1, <3>4, <3>5, <3>6 DEF RunOK
  <2> QED BY <1>8, <2>1, <2>2, <2>3 DEF Continue
<1>9. ASSUME NEW s \in Server, Restart(s) PROVE RunOK'
  <2>1. run' = [run EXCEPT ![s] = Idle] /\ UNCHANGED reqid
    BY <1>9 DEF Restart
  <2>2. run'[s] = Idle /\ \A t \in Server : t # s => run'[t] = run[t]
    BY <2>1 DEF TypeOK
  <2> QED BY <2>1, <2>2 DEF RunOK, Idle
<1>10. CASE UNCHANGED vars
  BY <1>10, RunFrame
<1> QED BY <1>1, <1>2, <1>7, <1>8, <1>9, <1>10 DEF Next, BrokenPipe, Kill

LEMMA DialogueStep == TypeOK /\ RunOK /\ DialogueOK /\ [Next]_vars => DialogueOK'
<1> SUFFICES ASSUME TypeOK, RunOK, DialogueOK, [Next]_vars PROVE DialogueOK'
  OBVIOUS
<1> USE DEF vars, locks, conns, net
<1>1. ASSUME NEW c \in Conn, Client(c) PROVE DialogueOK'
  <2>1. CASE Accept(c)
    BY <2>1 DEF TypeOK, DialogueOK, Accept
  <2>2. CASE UNCHANGED conns
    BY <2>2 DEF DialogueOK
  <2> QED BY <1>1, <2>1, <2>2 DEF Client, Hangup, Reset, Send
<1>2. ASSUME NEW s \in Server, Terminate(s) PROVE DialogueOK'
  BY <1>2 DEF TypeOK, DialogueOK, Terminate
<1>3. ASSUME NEW c \in Conn, CloseConn(c),
             UNCHANGED state \/ state' = [state EXCEPT ![c] = "HI"]
      PROVE DialogueOK'
  BY <1>3 DEF TypeOK, DialogueOK, CloseConn
<1>4. ASSUME NEW c \in Conn, Serve(c) PROVE DialogueOK'
  <2>1. CASE \/ ReadFailed(c) \/ RejectId(c) \/ ReaderEnd(c) \/ WriterEnd(c)
             \/ ReaderLocked(c) \/ WriterLocked(c) \/ ReaderExit(c) \/ CommandRefused(c)
    BY <2>1, <1>3 DEF ReadFailed, RejectId, ReaderEnd, WriterEnd,
                      ReaderLocked, WriterLocked, Refuse, ReaderExit, CommandRefused
  <2>2. CASE ReaderAdmit(c) \/ WriterAdmit(c)
    <3> DEFINE i == Head(inbox[c]).id
    <3>1. i \in Id
      BY <2>2, GotLine DEF ReaderAdmit, WriterAdmit, Got
    <3>2. reqid' = [reqid EXCEPT ![c] = i] /\ UNCHANGED <<open, state>>
      BY <2>2 DEF ReaderAdmit, WriterAdmit
    <3> HIDE DEF i
    <3> QED BY <3>1, <3>2, ServerAssumption DEF TypeOK, DialogueOK
  <2>3. CASE ReaderIgnore(c) \/ CommandAccepted(c)
    BY <2>3 DEF DialogueOK, ReaderIgnore, CommandAccepted
  <2>4. CASE UnendedRead(c)
    BY <2>4, <1>2, ServerAssumption DEF UnendedRead
  <2> QED BY <1>4, <2>1, <2>2, <2>3, <2>4 DEF Serve
<1>5. ASSUME NEW s \in Server, Continue(s) PROVE DialogueOK'
  <2>1. CASE Show(s)
    <3>1. run[s].fd \in Conn /\ reqid[run[s].fd] \in Id
      BY <2>1 DEF Show, RunOK
    <3> QED BY <2>1, <3>1, ServerAssumption DEF TypeOK, DialogueOK, Show
  <2>2. CASE Report(s)
    BY <2>2, <1>3 DEF Report, RunOK
  <2>3. CASE Commit(s) \/ Release(s)
    BY <2>3 DEF DialogueOK, Commit, Release
  <2> QED BY <1>5, <2>1, <2>2, <2>3 DEF Continue
<1>6. ASSUME NEW s \in Server, Restart(s) PROVE DialogueOK'
  BY <1>6 DEF DialogueOK, Restart
<1>7. CASE UNCHANGED vars
  BY <1>7 DEF DialogueOK
<1> QED BY <1>1, <1>2, <1>4, <1>5, <1>6, <1>7 DEF Next, BrokenPipe, Kill

-----------------------------------------------------------------------------
(* What each step does to the sessions of a record. *)

\* Nothing but an admission makes a session.
LEMMA SessionsOnClose ==
  ASSUME TypeOK, NEW c \in Conn, CloseConn(c), NEW s, NEW i \in Id
  PROVE  Sessions(s, i)' = Sessions(s, i) \ {c}
BY ServerAssumption DEF TypeOK, CloseConn, Sessions

LEMMA SessionsOnAdmit ==
  ASSUME TypeOK, NEW c \in Conn, ReaderAdmit(c) \/ WriterAdmit(c), NEW s, NEW i \in Id
  PROVE  IF s = Home[c] /\ i = Head(inbox[c]).id
         THEN Sessions(s, i)' = Sessions(s, i) \cup {c}
         ELSE Sessions(s, i)' = Sessions(s, i) \ {c}
<1> DEFINE j == Head(inbox[c]).id
<1>1. reqid' = [reqid EXCEPT ![c] = j]
  BY DEF ReaderAdmit, WriterAdmit
<1> HIDE DEF j
<1>2. reqid'[c] = j /\ \A d \in Conn : d # c => reqid'[d] = reqid[d]
  BY <1>1 DEF TypeOK
<1>3. CASE s = Home[c] /\ i = j
  <2>1. Sessions(s, i)' = Sessions(s, i) \cup {c}
    BY <1>2, <1>3 DEF Sessions
  <2> QED BY <2>1, <1>3 DEF j
<1>4. CASE ~ (s = Home[c] /\ i = j)
  <2>1. Sessions(s, i)' = Sessions(s, i) \ {c}
    BY <1>2, <1>4 DEF Sessions
  <2> QED BY <2>1, <1>4 DEF j
<1> QED BY <1>3, <1>4

LEMMA SessionsOnEnd ==
  ASSUME TypeOK, NEW t \in Server, Terminate(t), NEW s \in Server, NEW i \in Id
  PROVE  Sessions(s, i)' = IF s = t THEN {} ELSE Sessions(s, i)
<1>1. CASE s = t
  BY <1>1, ServerAssumption DEF TypeOK, Terminate, Sessions
<1>2. CASE s # t
  BY <1>2, ServerAssumption DEF TypeOK, Terminate, Sessions
<1> QED BY <1>1, <1>2

-----------------------------------------------------------------------------
(* The count of a record's readers. *)

LEMMA HeldIsNat ==
  ASSUME NEW s, NEW i
  PROVE  /\ Held(s, i) \in Nat /\ Held(s, i)' \in Nat
         /\ Sessions(s, i) \in SUBSET Conn /\ Sessions(s, i)' \in SUBSET Conn
<1>1. Sessions(s, i) \in SUBSET Conn /\ Sessions(s, i)' \in SUBSET Conn
  BY DEF Sessions
<1>2. Cardinality(Sessions(s, i)) \in Nat /\ Cardinality(Sessions(s, i)') \in Nat
  BY <1>1, SessionsFinite
<1> QED BY <1>1, <1>2 DEF Held

LEMMA HeldNoMore ==
  ASSUME NEW s, NEW i, Sessions(s, i)' \subseteq Sessions(s, i),
         Releasing(s, i)' => Releasing(s, i)
  PROVE  Held(s, i)' <= Held(s, i)
<1>1. Cardinality(Sessions(s, i)') <= Cardinality(Sessions(s, i))
  BY HeldIsNat, SessionsFinite, FS_Subset
<1>2. Cardinality(Sessions(s, i)) \in Nat /\ Cardinality(Sessions(s, i)') \in Nat
  BY HeldIsNat, SessionsFinite
<1> QED BY <1>1, <1>2 DEF Held

LEMMA HeldLess ==
  ASSUME NEW s, NEW i,
         \/ \E c \in Sessions(s, i) : Sessions(s, i)' \subseteq Sessions(s, i) \ {c}
         \/ Sessions(s, i)' \subseteq Sessions(s, i) /\ Releasing(s, i) /\ ~ Releasing(s, i)',
         Releasing(s, i)' => Releasing(s, i)
  PROVE  Held(s, i)' + 1 <= Held(s, i)
<1>1. Cardinality(Sessions(s, i)) \in Nat /\ Cardinality(Sessions(s, i)') \in Nat
  BY HeldIsNat, SessionsFinite
<1>2. CASE \E c \in Sessions(s, i) : Sessions(s, i)' \subseteq Sessions(s, i) \ {c}
  <2>1. Cardinality(Sessions(s, i)') + 1 <= Cardinality(Sessions(s, i))
    BY <1>2, HeldIsNat, OneLess
  <2> QED BY <1>1, <2>1 DEF Held
<1>3. CASE Sessions(s, i)' \subseteq Sessions(s, i) /\ Releasing(s, i) /\ ~ Releasing(s, i)'
  <2>1. Cardinality(Sessions(s, i)') <= Cardinality(Sessions(s, i))
    BY <1>3, HeldIsNat, SessionsFinite, FS_Subset
  <2> QED BY <1>1, <1>3, <2>1 DEF Held
<1> QED BY <1>2, <1>3

\* Closing a session moves it from the sessions to the one being released.
LEMMA HeldOnClose ==
  ASSUME NEW s, NEW i, NEW c \in Sessions(s, i),
         Sessions(s, i)' \subseteq Sessions(s, i) \ {c}, ~ Releasing(s, i)
  PROVE  Held(s, i)' <= Held(s, i)
<1>1. Cardinality(Sessions(s, i)) \in Nat /\ Cardinality(Sessions(s, i)') \in Nat
  BY HeldIsNat, SessionsFinite
<1>2. Cardinality(Sessions(s, i)') + 1 <= Cardinality(Sessions(s, i))
  BY HeldIsNat, OneLess
<1> QED BY <1>1, <1>2 DEF Held

LEMMA HeldOnAdmit ==
  ASSUME NEW s, NEW i, NEW c \in Conn,
         Sessions(s, i)' \subseteq Sessions(s, i) \cup {c}, ~ Releasing(s, i)'
  PROVE  Held(s, i)' <= Held(s, i) + 1
<1>1. Cardinality(Sessions(s, i)) \in Nat /\ Cardinality(Sessions(s, i)') \in Nat
  BY HeldIsNat, SessionsFinite
<1>2. Cardinality(Sessions(s, i)') <= Cardinality(Sessions(s, i)) + 1
  BY HeldIsNat, OneMore
<1> QED BY <1>1, <1>2 DEF Held

LEMMA CountedKept ==
  ASSUME TypeOK, NEW s \in ReadServer, NEW i \in Id, Counted(s, i),
         Held(s, i)' <= Held(s, i),
         readlc'[s][i] = readlc[s][i], lock'[s][i] = lock[s][i]
  PROVE  Counted(s, i)'
<1>1. readlc[s][i] \in Int
  BY DEF TypeOK, Server
<1> QED BY <1>1, HeldIsNat DEF Counted

\* DropReader: one session fewer, and the lock only with the last of them.
LEMMA CountedDrop ==
  ASSUME TypeOK, NEW s \in ReadServer, NEW i \in Id, Counted(s, i),
         DropReader(s, i), Held(s, i)' + 1 <= Held(s, i)
  PROVE  Counted(s, i)'
<1>1. readlc[s][i] \in Int /\ s \in Server
  BY DEF TypeOK, Server
<1>2. readlc'[s][i] = readlc[s][i] - 1
  BY <1>1 DEF TypeOK, DropReader
<1>3. lock'[s][i] = IF readlc'[s][i] = 0 THEN "un" ELSE lock[s][i]
  BY <1>1 DEF TypeOK, DropReader, SetLock
<1> QED BY <1>1, <1>2, <1>3, HeldIsNat DEF Counted

\* What the lock table and the counters keep when one entry is set.
LEMMA DropElsewhere ==
  ASSUME TypeOK, NEW t \in Server, NEW j \in Id, DropReader(t, j) \/ DropWriter(t, j),
         NEW s \in Server, NEW i \in Id, s # t \/ i # j
  PROVE  readlc'[s][i] = readlc[s][i] /\ lock'[s][i] = lock[s][i] /\ samewr'[s][i] = samewr[s][i]
BY DEF TypeOK, DropReader, DropWriter, SetLock

LEMMA SetLockElsewhere ==
  ASSUME TypeOK, NEW t \in Server, NEW j \in Id, NEW l, SetLock(t, j, l),
         NEW s \in Server, NEW i \in Id
  PROVE  lock'[s][i] = IF s = t /\ i = j THEN l ELSE lock[s][i]
BY DEF TypeOK, SetLock

\* A process in select, and one that ends, releases nothing.
LEMMA ReleasingFacts ==
  ASSUME RunOK, NEW s \in Server, NEW i \in Id
  PROVE  /\ run[s] = Idle => ~ Releasing(s, i)
         /\ run'[s] = Idle => ~ Releasing(s, i)'
         /\ run'[s] = Down => ~ Releasing(s, i)'
         /\ run'[s] = run[s] => (Releasing(s, i)' <=> Releasing(s, i))
BY DEF Releasing, Idle, Down

LEMMA ReadersStep ==
  TypeOK /\ RunOK /\ DialogueOK /\ ReadersCounted /\ [Next]_vars => ReadersCounted'
<1> SUFFICES ASSUME TypeOK, RunOK, DialogueOK, ReadersCounted, [Next]_vars,
                    NEW s \in ReadServer, NEW i \in Id
             PROVE  Counted(s, i)'
  BY DEF ReadersCounted
<1> USE DEF vars, locks, conns, net
<1>0. /\ Counted(s, i) /\ s \in Server /\ s \notin WriteServer
      /\ \A c \in Conn : Home[c] \in Server
  BY ServerAssumption DEF ReadersCounted, Server
<1>1. ASSUME UNCHANGED locks, Sessions(s, i)' \subseteq Sessions(s, i),
             Releasing(s, i)' => Releasing(s, i)
      PROVE  Counted(s, i)'
  BY <1>0, <1>1, CountedKept, HeldNoMore
<1>2. ASSUME NEW c \in Conn, Client(c) PROVE Counted(s, i)'
  <2>1. UNCHANGED <<locks, run, reqid>>
    BY <1>2 DEF Client, Accept, Hangup, Reset, Send
  <2> QED BY <1>1, <2>1 DEF Sessions, Releasing
<1>3. ASSUME NEW t \in Server, Terminate(t) PROVE Counted(s, i)'
  <2>1. CASE s = t
    <3>1. readlc'[s][i] = 0 /\ lock'[s][i] = "un" /\ run'[s] = Down
      BY <1>0, <1>3, <2>1 DEF TypeOK, Terminate
    <3>2. Sessions(s, i)' = {} /\ ~ Releasing(s, i)'
      BY <1>0, <1>3, <2>1, <3>1, SessionsOnEnd, ReleasingFacts
    <3>3. Held(s, i)' = 0
      BY <3>2, FS_EmptySet DEF Held
    <3> QED BY <3>1, <3>3 DEF Counted
  <2>2. CASE s # t
    <3>1. readlc'[s][i] = readlc[s][i] /\ lock'[s][i] = lock[s][i] /\ run'[s] = run[s]
      BY <1>0, <1>3, <2>2 DEF TypeOK, Terminate
    <3>2. Sessions(s, i)' = Sessions(s, i) /\ (Releasing(s, i)' <=> Releasing(s, i))
      BY <1>0, <1>3, <2>2, <3>1, SessionsOnEnd, ReleasingFacts
    <3> QED BY <1>0, <3>1, <3>2, HeldNoMore, CountedKept
  <2> QED BY <2>1, <2>2
<1>4. ASSUME NEW c \in Conn, Serve(c) PROVE Counted(s, i)'
  <2>1. CASE ReadFailed(c) \/ RejectId(c) \/ ReaderLocked(c)
    <3>1. Sessions(s, i)' \subseteq Sessions(s, i) /\ UNCHANGED <<locks, run>>
      BY <2>1, SessionsOnClose DEF ReadFailed, RejectId, ReaderLocked, Refuse
    <3> QED BY <1>1, <3>1 DEF Releasing
  <2>2. CASE WriterLocked(c)
    <3>1. /\ Sessions(s, i)' \subseteq Sessions(s, i) /\ UNCHANGED <<readlc, run>>
          /\ s # Home[c]
      BY <1>0, <2>2, SessionsOnClose DEF WriterLocked, Refuse
    <3>2. lock'[s][i] = lock[s][i]
      <4> DEFINE j == Head(inbox[c]).id
      <4>1. j \in Id /\ Home[c] \in Server
        BY <1>0, <2>2, GotLine DEF WriterLocked, Got
      <4>2. UNCHANGED lock \/ SetLock(Home[c], j, "wr")
        BY <2>2 DEF WriterLocked
      <4> QED BY <1>0, <3>1, <4>1, <4>2, SetLockElsewhere
    <3>3. Held(s, i)' <= Held(s, i)
      BY <3>1, HeldNoMore DEF Releasing
    <3> QED BY <1>0, <3>1, <3>2, <3>3, CountedKept
  <2>3. CASE ReaderEnd(c)
    <3>1. CloseConn(c) /\ c \in open /\ run' = run
      BY <2>3 DEF ReaderEnd, AtEnd, Got, Ready
    <3>2. Sessions(s, i)' = Sessions(s, i) \ {c}
      BY <3>1, SessionsOnClose
    <3>3. CASE UNCHANGED locks
      BY <1>1, <3>1, <3>2, <3>3 DEF Releasing
    <3>4. CASE DropReader(Home[c], reqid[c]) /\ state[c] \notin {"HI", "ID"}
      <4>1. reqid[c] \in Id
        BY <3>1, <3>4 DEF TypeOK, DialogueOK
      <4>2. CASE Home[c] = s /\ reqid[c] = i
        <5>1. c \in Sessions(s, i) /\ DropReader(s, i)
          BY <4>2, <3>4 DEF Sessions
        <5>2. Held(s, i)' + 1 <= Held(s, i)
          BY <3>1, <3>2, <5>1, HeldLess DEF Releasing
        <5> QED BY <1>0, <5>1, <5>2, CountedDrop
      <4>3. CASE Home[c] # s \/ reqid[c] # i
        <5>1. readlc'[s][i] = readlc[s][i] /\ lock'[s][i] = lock[s][i]
          BY <1>0, <3>4, <4>1, <4>3, DropElsewhere
        <5>2. Held(s, i)' <= Held(s, i)
          BY <3>1, <3>2, HeldNoMore DEF Releasing
        <5> QED BY <1>0, <5>1, <5>2, CountedKept
      <4> QED BY <4>2, <4>3
    <3> QED BY <2>3, <3>3, <3>4 DEF ReaderEnd
  <2>4. CASE WriterEnd(c)
    <3>1. /\ CloseConn(c) /\ c \in open /\ run' = run /\ s # Home[c]
          /\ \/ UNCHANGED locks
             \/ DropWriter(Home[c], reqid[c]) /\ state[c] \notin {"HI", "ID"}
      BY <1>0, <2>4 DEF WriterEnd, AtEnd, Got, Ready
    <3>2. readlc'[s][i] = readlc[s][i] /\ lock'[s][i] = lock[s][i]
      <4>1. CASE UNCHANGED locks
        BY <4>1
      <4>2. CASE DropWriter(Home[c], reqid[c]) /\ state[c] \notin {"HI", "ID"}
        <5>1. reqid[c] \in Id
          BY <3>1, <4>2 DEF TypeOK, DialogueOK
        <5> QED BY <1>0, <3>1, <4>2, <5>1, DropElsewhere
      <4> QED BY <3>1, <4>1, <4>2
    <3>3. Held(s, i)' <= Held(s, i)
      BY <3>1, SessionsOnClose, HeldNoMore DEF Releasing
    <3> QED BY <1>0, <3>2, <3>3, CountedKept
  <2>5. CASE ReaderAdmit(c)
    <3> DEFINE j == Head(inbox[c]).id
    <3>1. /\ j \in Id /\ SetLock(Home[c], j, "rd")
          /\ readlc' = [readlc EXCEPT ![Home[c]][j] = @ + 1]
          /\ run' = [run EXCEPT ![Home[c]] = [Idle EXCEPT !.at = "show", !.fd = c, !.id = j]]
      BY <2>5, GotLine DEF ReaderAdmit, Got
    <3>2. ~ Releasing(s, i)' \/ Releasing(s, i)
      BY <1>0, <3>1 DEF TypeOK, Releasing, Idle
    <3>3. CASE Home[c] = s /\ j = i
      <4>1. readlc'[s][i] = readlc[s][i] + 1 /\ lock'[s][i] = "rd" /\ ~ Releasing(s, i)'
        BY <1>0, <3>1, <3>3 DEF TypeOK, SetLock, Releasing, Idle
      <4>2. Sessions(s, i)' \subseteq Sessions(s, i) \cup {c}
        BY <2>5, <3>3, SessionsOnAdmit
      <4>3. Held(s, i)' <= Held(s, i) + 1
        BY <4>1, <4>2, HeldOnAdmit
      <4>4. readlc[s][i] \in Int
        BY <1>0 DEF TypeOK
      <4> QED BY <1>0, <4>1, <4>3, <4>4, HeldIsNat DEF Counted
    <3>4. CASE Home[c] # s \/ j # i
      <4>1. Sessions(s, i)' \subseteq Sessions(s, i)
        BY <2>5, <3>4, SessionsOnAdmit
      <4>2. readlc'[s][i] = readlc[s][i] /\ lock'[s][i] = lock[s][i]
        BY <1>0, <3>1, <3>4, SetLockElsewhere DEF TypeOK
      <4> QED BY <1>0, <3>2, <4>1, <4>2, HeldNoMore, CountedKept
    <3> QED BY <3>3, <3>4
  <2>6. CASE WriterAdmit(c)
    <3> DEFINE j == Head(inbox[c]).id
    <3>1. /\ j \in Id /\ SetLock(Home[c], j, "wr") /\ UNCHANGED readlc /\ Home[c] # s
          /\ run' = [run EXCEPT ![Home[c]] = [Idle EXCEPT !.at = "show", !.fd = c, !.id = j]]
      BY <1>0, <2>6, GotLine DEF WriterAdmit, Got
    <3>2. run'[s] = run[s] /\ lock'[s][i] = lock[s][i]
      BY <1>0, <3>1, SetLockElsewhere DEF TypeOK
    <3>3. Sessions(s, i)' \subseteq Sessions(s, i)
      BY <2>6, <3>1, SessionsOnAdmit
    <3> QED BY <1>0, <3>1, <3>2, <3>3, HeldNoMore, CountedKept DEF Releasing
  <2>7. CASE ReaderExit(c) \/ CommandRefused(c)
    <3>1. /\ CloseConn(c) /\ UNCHANGED locks /\ run[Home[c]] = Idle
          /\ run' = [run EXCEPT ![Home[c]] = [Idle EXCEPT !.at = "release", !.id = reqid[c]]]
      BY <2>7 DEF ReaderExit, CommandRefused, Got, Ready
    <3>2. Sessions(s, i)' = Sessions(s, i) \ {c}
      BY <3>1, SessionsOnClose
    <3>3. CASE Home[c] = s /\ reqid[c] = i
      <4>1. c \in Sessions(s, i) /\ ~ Releasing(s, i)
        BY <3>1, <3>3 DEF Sessions, Releasing, Idle
      <4>2. Held(s, i)' <= Held(s, i)
        BY <3>2, <4>1, HeldOnClose
      <4> QED BY <1>0, <3>1, <4>2, CountedKept
    <3>4. CASE Home[c] # s \/ reqid[c] # i
      <4>1. Releasing(s, i)' => Releasing(s, i)
        BY <1>0, <3>1, <3>4 DEF TypeOK, Releasing, Idle
      <4> QED BY <1>1, <3>1, <3>2, <4>1
    <3> QED BY <3>3, <3>4
  <2>8. CASE ReaderIgnore(c)
    BY <2>8, <1>1 DEF ReaderIgnore, Sessions, Releasing
  <2>9. CASE CommandAccepted(c)
    <3>1. UNCHANGED <<locks, reqid>> /\ Home[c] # s
      BY <1>0, <2>9 DEF CommandAccepted
    <3>2. run'[s] = run[s]
      BY <1>0, <2>9, <3>1 DEF CommandAccepted, TypeOK
    <3> QED BY <1>1, <3>1, <3>2 DEF Sessions, Releasing
  <2>10. CASE UnendedRead(c)
    BY <1>0, <1>3, <2>10 DEF UnendedRead
  <2> QED BY <1>4, <2>1, <2>2, <2>3, <2>4, <2>5, <2>6, <2>7, <2>8, <2>9, <2>10 DEF Serve
<1>5. ASSUME NEW t \in Server, Continue(t) PROVE Counted(s, i)'
  <2>1. CASE Show(t)
    <3>1. UNCHANGED <<locks, reqid>> /\ run' = [run EXCEPT ![t] = Idle]
      BY <2>1 DEF Show
    <3>2. Releasing(s, i)' => Releasing(s, i)
      BY <1>0, <3>1 DEF TypeOK, Releasing, Idle
    <3> QED BY <1>1, <3>1, <3>2 DEF Sessions
  <2>2. CASE Commit(t)
    <3>1. UNCHANGED <<locks, reqid>> /\ run' = [run EXCEPT ![t].at = "report"]
      BY <2>2 DEF Commit
    <3>2. Releasing(s, i)' => Releasing(s, i)
      BY <1>0, <3>1 DEF TypeOK, Releasing, Activity
    <3> QED BY <1>1, <3>1, <3>2 DEF Sessions
  <2>3. CASE Report(t)
    <3>1. t \in WriteServer /\ run[t].fd \in Conn
      BY <2>3 DEF Report, RunOK
    <3>2. Sessions(s, i)' \subseteq Sessions(s, i) /\ UNCHANGED locks
      BY <2>3, <3>1, SessionsOnClose DEF Report
    <3>3. run'[s] = run[s]
      BY <1>0, <2>3, <3>1 DEF TypeOK, Report
    <3> QED BY <1>1, <3>2, <3>3 DEF Releasing
  <2>4. CASE Release(t)
    <3>1. /\ run[t].id \in Id /\ UNCHANGED reqid /\ run' = [run EXCEPT ![t] = Idle]
          /\ run[t].at = "release"
          /\ DropReader(t, run[t].id) \/ DropWriter(t, run[t].id)
          /\ t \in ReadServer => DropReader(t, run[t].id)
      BY <2>4 DEF Release, RunOK
    <3>2. Sessions(s, i)' = Sessions(s, i)
      BY <3>1 DEF Sessions
    <3>3. Releasing(s, i)' => Releasing(s, i)
      BY <1>0, <3>1 DEF TypeOK, Releasing, Idle
    <3>4. CASE t = s /\ run[t].id = i
      <4>1. Releasing(s, i) /\ DropReader(s, i)
        BY <3>1, <3>4 DEF Releasing
      <4>2. ~ Releasing(s, i)'
        BY <1>0, <3>1, <3>4 DEF TypeOK, Releasing, Idle
      <4>3. Held(s, i)' + 1 <= Held(s, i)
        BY <3>2, <4>1, <4>2, HeldLess
      <4> QED BY <1>0, <4>1, <4>3, CountedDrop
    <3>5. CASE t # s \/ run[t].id # i
      <4>1. readlc'[s][i] = readlc[s][i] /\ lock'[s][i] = lock[s][i]
        BY <1>0, <3>1, <3>5, DropElsewhere
      <4> QED BY <1>0, <3>2, <3>3, <4>1, HeldNoMore, CountedKept
    <3> QED BY <3>4, <3>5
  <2> QED BY <1>5, <2>1, <2>2, <2>3, <2>4 DEF Continue
<1>6. ASSUME NEW t \in Server, Restart(t) PROVE Counted(s, i)'
  <2>1. UNCHANGED <<locks, reqid>> /\ run' = [run EXCEPT ![t] = Idle]
    BY <1>6 DEF Restart
  <2>2. Releasing(s, i)' => Releasing(s, i)
    BY <1>0, <2>1 DEF TypeOK, Releasing, Idle
  <2> QED BY <1>1, <2>1, <2>2 DEF Sessions
<1>7. CASE UNCHANGED vars
  BY <1>1, <1>7 DEF Sessions, Releasing
<1> QED BY <1>2, <1>3, <1>4, <1>5, <1>6, <1>7 DEF Next, BrokenPipe, Kill

-----------------------------------------------------------------------------
(* The mark of a record's writer. *)

LEMMA MarkedKept ==
  ASSUME TypeOK, NEW s \in WriteServer, NEW i \in Id, Marked(s, i),
         Sessions(s, i)' \subseteq Sessions(s, i), Releasing(s, i)' => Releasing(s, i),
         samewr'[s][i] = samewr[s][i], lock'[s][i] = lock[s][i]
  PROVE  Marked(s, i)'
BY DEF Marked

LEMMA MarkedFree ==
  ASSUME NEW s \in WriteServer, NEW i \in Id,
         Sessions(s, i)' = {}, ~ Releasing(s, i)',
         samewr'[s][i] = 0, lock'[s][i] = "un"
  PROVE  Marked(s, i)'
BY DEF Marked

\* DropWriter unlocks the record, of which the one session is over.
LEMMA DropWriterHere ==
  ASSUME TypeOK, NEW s \in Server, NEW i \in Id, DropWriter(s, i)
  PROVE  samewr'[s][i] = 0 /\ lock'[s][i] = "un"
BY DEF TypeOK, DropWriter, SetLock

LEMMA WritersStep ==
  TypeOK /\ RunOK /\ DialogueOK /\ WritersMarked /\ [Next]_vars => WritersMarked'
<1> SUFFICES ASSUME TypeOK, RunOK, DialogueOK, WritersMarked, [Next]_vars,
                    NEW s \in WriteServer, NEW i \in Id
             PROVE  Marked(s, i)'
  BY DEF WritersMarked
<1> USE DEF vars, locks, conns, net
<1>0. /\ Marked(s, i) /\ s \in Server /\ s \notin ReadServer
      /\ \A c \in Conn : Home[c] \in Server
      /\ samewr[s][i] \in {0, 1}
  BY ServerAssumption DEF WritersMarked, Server, TypeOK
<1>1. ASSUME UNCHANGED locks, Sessions(s, i)' \subseteq Sessions(s, i),
             Releasing(s, i)' => Releasing(s, i)
      PROVE  Marked(s, i)'
  BY <1>0, <1>1, MarkedKept
<1>2. ASSUME NEW c \in Conn, Client(c) PROVE Marked(s, i)'
  <2>1. UNCHANGED <<locks, run, reqid>>
    BY <1>2 DEF Client, Accept, Hangup, Reset, Send
  <2> QED BY <1>1, <2>1 DEF Sessions, Releasing
<1>3. ASSUME NEW t \in Server, Terminate(t) PROVE Marked(s, i)'
  <2>1. CASE s = t
    <3>1. samewr'[s][i] = 0 /\ lock'[s][i] = "un" /\ run'[s] = Down
      BY <1>0, <1>3, <2>1 DEF TypeOK, Terminate
    <3>2. Sessions(s, i)' = {} /\ ~ Releasing(s, i)'
      BY <1>0, <1>3, <2>1, <3>1, SessionsOnEnd, ReleasingFacts
    <3> QED BY <3>1, <3>2, MarkedFree
  <2>2. CASE s # t
    <3>1. samewr'[s][i] = samewr[s][i] /\ lock'[s][i] = lock[s][i] /\ run'[s] = run[s]
      BY <1>0, <1>3, <2>2 DEF TypeOK, Terminate
    <3>2. Sessions(s, i)' = Sessions(s, i) /\ (Releasing(s, i)' <=> Releasing(s, i))
      BY <1>0, <1>3, <2>2, <3>1, SessionsOnEnd, ReleasingFacts
    <3> QED BY <1>0, <3>1, <3>2, MarkedKept
  <2> QED BY <2>1, <2>2
<1>4. ASSUME NEW c \in Conn, Serve(c) PROVE Marked(s, i)'
  <2>1. CASE ReadFailed(c) \/ RejectId(c) \/ ReaderLocked(c)
    <3>1. Sessions(s, i)' \subseteq Sessions(s, i) /\ UNCHANGED <<locks, run>>
      BY <2>1, SessionsOnClose DEF ReadFailed, RejectId, ReaderLocked, Refuse
    <3> QED BY <1>1, <3>1 DEF Releasing
  <2>2. CASE WriterLocked(c)
    <3> DEFINE j == Head(inbox[c]).id
    <3>0. j \in Id /\ Home[c] \in WriteServer
      BY <2>2, GotLine DEF WriterLocked, Got
    <3>1. Sessions(s, i)' \subseteq Sessions(s, i) /\ UNCHANGED <<samewr, run>>
      BY <2>2, SessionsOnClose DEF WriterLocked, Refuse
    <3>2. UNCHANGED lock \/ (SetLock(Home[c], j, "wr") /\ samewr[Home[c]][j] = 1)
      BY <2>2 DEF WriterLocked
    <3>3. lock'[s][i] = lock[s][i]
      BY <1>0, <3>0, <3>2, SetLockElsewhere DEF Marked, Server
    <3> QED BY <1>0, <3>1, <3>3, MarkedKept DEF Releasing
  <2>3. CASE WriterEnd(c)
    <3>1. CloseConn(c) /\ c \in open /\ run' = run /\ run[Home[c]] = Idle
      BY <2>3 DEF WriterEnd, AtEnd, Got, Ready
    <3>2. Sessions(s, i)' = Sessions(s, i) \ {c}
      BY <3>1, SessionsOnClose
    <3>3. CASE UNCHANGED locks
      BY <1>1, <3>1, <3>2, <3>3 DEF Releasing
    <3>4. CASE DropWriter(Home[c], reqid[c]) /\ state[c] \notin {"HI", "ID"}
      <4>1. reqid[c] \in Id
        BY <3>1, <3>4 DEF TypeOK, DialogueOK
      <4>2. CASE Home[c] = s /\ reqid[c] = i
        <5>1. c \in Sessions(s, i) /\ ~ Releasing(s, i)'
          BY <1>0, <4>2, <3>1, ReleasingFacts DEF Sessions
        <5>2. Sessions(s, i)' = {}
          BY <1>0, <3>2, <5>1 DEF Marked
        <5>3. samewr'[s][i] = 0 /\ lock'[s][i] = "un"
          BY <1>0, <3>4, <4>2, DropWriterHere
        <5> QED BY <5>1, <5>2, <5>3, MarkedFree
      <4>3. CASE Home[c] # s \/ reqid[c] # i
        <5>1. samewr'[s][i] = samewr[s][i] /\ lock'[s][i] = lock[s][i]
          BY <1>0, <3>4, <4>1, <4>3, DropElsewhere
        <5> QED BY <1>0, <3>1, <3>2, <5>1, MarkedKept DEF Releasing
      <4> QED BY <4>2, <4>3
    <3> QED BY <2>3, <3>3, <3>4 DEF WriterEnd
  <2>4. CASE ReaderEnd(c)
    <3>1. /\ CloseConn(c) /\ c \in open /\ run' = run /\ s # Home[c]
          /\ \/ UNCHANGED locks
             \/ DropReader(Home[c], reqid[c]) /\ state[c] \notin {"HI", "ID"}
      BY <1>0, <2>4 DEF ReaderEnd, AtEnd, Got, Ready
    <3>2. samewr'[s][i] = samewr[s][i] /\ lock'[s][i] = lock[s][i]
      <4>1. CASE UNCHANGED locks
        BY <4>1
      <4>2. CASE DropReader(Home[c], reqid[c]) /\ state[c] \notin {"HI", "ID"}
        <5>1. reqid[c] \in Id
          BY <3>1, <4>2 DEF TypeOK, DialogueOK
        <5> QED BY <1>0, <3>1, <4>2, <5>1, DropElsewhere
      <4> QED BY <3>1, <4>1, <4>2
    <3> QED BY <1>0, <3>1, <3>2, SessionsOnClose, MarkedKept DEF Releasing
  <2>5. CASE WriterAdmit(c)
    <3> DEFINE j == Head(inbox[c]).id
    <3>1. /\ j \in Id /\ SetLock(Home[c], j, "wr") /\ samewr[Home[c]][j] # 1
          /\ samewr' = [samewr EXCEPT ![Home[c]][j] = 1]
          /\ run' = [run EXCEPT ![Home[c]] = [Idle EXCEPT !.at = "show", !.fd = c, !.id = j]]
      BY <2>5, GotLine DEF WriterAdmit, Got
    <3>2. CASE Home[c] = s /\ j = i
      <4>1. samewr'[s][i] = 1 /\ lock'[s][i] = "wr" /\ ~ Releasing(s, i)'
        BY <1>0, <3>1, <3>2 DEF TypeOK, SetLock, Releasing, Idle
      <4>2. Sessions(s, i)' = {c}
        BY <1>0, <2>5, <3>1, <3>2, SessionsOnAdmit DEF Marked
      <4> QED BY <4>1, <4>2 DEF Marked
    <3>3. CASE Home[c] # s \/ j # i
      <4>1. Sessions(s, i)' \subseteq Sessions(s, i)
        BY <2>5, <3>3, SessionsOnAdmit
      <4>2. samewr'[s][i] = samewr[s][i] /\ lock'[s][i] = lock[s][i]
        BY <1>0, <3>1, <3>3, SetLockElsewhere DEF TypeOK
      <4>3. Releasing(s, i)' => Releasing(s, i)
        BY <1>0, <3>1 DEF TypeOK, Releasing, Idle
      <4> QED BY <1>0, <4>1, <4>2, <4>3, MarkedKept
    <3> QED BY <3>2, <3>3
  <2>6. CASE ReaderAdmit(c)
    <3> DEFINE j == Head(inbox[c]).id
    <3>1. /\ j \in Id /\ SetLock(Home[c], j, "rd") /\ UNCHANGED samewr /\ Home[c] # s
          /\ run' = [run EXCEPT ![Home[c]] = [Idle EXCEPT !.at = "show", !.fd = c, !.id = j]]
      BY <1>0, <2>6, GotLine DEF ReaderAdmit, Got
    <3>2. run'[s] = run[s] /\ lock'[s][i] = lock[s][i]
      BY <1>0, <3>1, SetLockElsewhere DEF TypeOK
    <3>3. Sessions(s, i)' \subseteq Sessions(s, i)
      BY <2>6, <3>1, SessionsOnAdmit
    <3> QED BY <1>0, <3>1, <3>2, <3>3, MarkedKept DEF Releasing
  <2>7. CASE ReaderExit(c) \/ CommandRefused(c)
    <3>1. /\ CloseConn(c) /\ UNCHANGED locks /\ run[Home[c]] = Idle
          /\ run' = [run EXCEPT ![Home[c]] = [Idle EXCEPT !.at = "release", !.id = reqid[c]]]
      BY <2>7 DEF ReaderExit, CommandRefused, Got, Ready
    <3>2. Sessions(s, i)' = Sessions(s, i) \ {c}
      BY <3>1, SessionsOnClose
    <3>3. CASE Home[c] = s /\ reqid[c] = i
      <4>1. c \in Sessions(s, i)
        BY <3>3 DEF Sessions
      <4>2. Sessions(s, i)' = {} /\ samewr[s][i] # 0
        BY <1>0, <3>2, <4>1 DEF Marked
      <4> QED BY <1>0, <3>1, <4>2 DEF Marked
    <3>4. CASE Home[c] # s \/ reqid[c] # i
      <4>1. Releasing(s, i)' => Releasing(s, i)
        BY <1>0, <3>1, <3>4 DEF TypeOK, Releasing, Idle
      <4> QED BY <1>1, <3>1, <3>2, <4>1
    <3> QED BY <3>3, <3>4
  <2>8. CASE ReaderIgnore(c)
    BY <2>8, <1>1 DEF ReaderIgnore, Sessions, Releasing
  <2>9. CASE CommandAccepted(c)
    <3>1. /\ UNCHANGED <<locks, reqid>>
          /\ run' = [run EXCEPT ![Home[c]] =
                       [at |-> "commit", fd |-> c, id |-> reqid[c],
                        input |-> Applied(record[reqid[c]], Head(inbox[c]).change)]]
      BY <2>9 DEF CommandAccepted
    <3>2. Releasing(s, i)' => Releasing(s, i)
      BY <1>0, <3>1 DEF TypeOK, Releasing
    <3> QED BY <1>1, <3>1, <3>2 DEF Sessions
  <2>10. CASE UnendedRead(c)
    BY <1>0, <1>3, <2>10 DEF UnendedRead
  <2> QED BY <1>4, <2>1, <2>2, <2>3, <2>4, <2>5, <2>6, <2>7, <2>8, <2>9, <2>10 DEF Serve
<1>5. ASSUME NEW t \in Server, Continue(t) PROVE Marked(s, i)'
  <2>1. CASE Show(t)
    <3>1. UNCHANGED <<locks, reqid>> /\ run' = [run EXCEPT ![t] = Idle]
      BY <2>1 DEF Show
    <3>2. Releasing(s, i)' => Releasing(s, i)
      BY <1>0, <3>1 DEF TypeOK, Releasing, Idle
    <3> QED BY <1>1, <3>1, <3>2 DEF Sessions
  <2>2. CASE Commit(t)
    <3>1. UNCHANGED <<locks, reqid>> /\ run' = [run EXCEPT ![t].at = "report"]
      BY <2>2 DEF Commit
    <3>2. Releasing(s, i)' => Releasing(s, i)
      BY <1>0, <3>1 DEF TypeOK, Releasing, Activity
    <3> QED BY <1>1, <3>1, <3>2 DEF Sessions
  <2>3. CASE Report(t)
    <3>1. /\ run[t].fd \in Conn /\ Home[run[t].fd] = t /\ reqid[run[t].fd] = run[t].id
          /\ run[t].at = "report"
      BY <2>3 DEF Report, RunOK
    <3>2. Sessions(s, i)' = Sessions(s, i) \ {run[t].fd} /\ UNCHANGED locks
      BY <2>3, <3>1, SessionsOnClose DEF Report
    <3>3. run' = [run EXCEPT ![t] = [Idle EXCEPT !.at = "release", !.id = run[t].id]]
      BY <2>3 DEF Report
    <3>4. CASE t = s /\ run[t].id = i
      <4>1. run[t].fd \in Sessions(s, i)
        BY <3>1, <3>4 DEF Sessions
      <4>2. Sessions(s, i)' = {} /\ samewr[s][i] # 0
        BY <1>0, <3>2, <4>1 DEF Marked
      <4> QED BY <1>0, <3>2, <4>2 DEF Marked
    <3>5. CASE t # s \/ run[t].id # i
      <4>1. Releasing(s, i)' => Releasing(s, i)
        BY <1>0, <3>3, <3>5 DEF TypeOK, Releasing, Idle
      <4> QED BY <1>1, <3>2, <4>1
    <3> QED BY <3>4, <3>5
  <2>4. CASE Release(t)
    <3>1. /\ run[t].id \in Id /\ UNCHANGED reqid /\ run' = [run EXCEPT ![t] = Idle]
          /\ run[t].at = "release"
          /\ DropReader(t, run[t].id) \/ DropWriter(t, run[t].id)
          /\ t \notin ReadServer => DropWriter(t, run[t].id)
      BY <2>4 DEF Release, RunOK
    <3>2. Sessions(s, i)' = Sessions(s, i)
      BY <3>1 DEF Sessions
    <3>3. Releasing(s, i)' => Releasing(s, i)
      BY <1>0, <3>1 DEF TypeOK, Releasing, Idle
    <3>4. CASE t = s /\ run[t].id = i
      <4>1. Releasing(s, i) /\ DropWriter(s, i)
        BY <1>0, <3>1, <3>4 DEF Releasing
      <4>2. ~ Releasing(s, i)'
        BY <1>0, <3>1, <3>4 DEF TypeOK, Releasing, Idle
      <4>3. Sessions(s, i)' = {}
        BY <1>0, <3>2, <4>1 DEF Marked
      <4> QED BY <1>0, <4>1, <4>2, <4>3, DropWriterHere, MarkedFree
    <3>5. CASE t # s \/ run[t].id # i
      <4>1. samewr'[s][i] = samewr[s][i] /\ lock'[s][i] = lock[s][i]
        BY <1>0, <3>1, <3>5, DropElsewhere
      <4> QED BY <1>0, <3>2, <3>3, <4>1, MarkedKept
    <3> QED BY <3>4, <3>5
  <2> QED BY <1>5, <2>1, <2>2, <2>3, <2>4 DEF Continue
<1>6. ASSUME NEW t \in Server, Restart(t) PROVE Marked(s, i)'
  <2>1. UNCHANGED <<locks, reqid>> /\ run' = [run EXCEPT ![t] = Idle]
    BY <1>6 DEF Restart
  <2>2. Releasing(s, i)' => Releasing(s, i)
    BY <1>0, <2>1 DEF TypeOK, Releasing, Idle
  <2> QED BY <1>1, <2>1, <2>2 DEF Sessions
<1>7. CASE UNCHANGED vars
  BY <1>1, <1>7 DEF Sessions, Releasing
<1> QED BY <1>2, <1>3, <1>4, <1>5, <1>6, <1>7 DEF Next, BrokenPipe, Kill

-----------------------------------------------------------------------------
(* The kernel's table. *)

\* Giving locks up, or taking none, cannot make two of them clash.
LEMMA LocksGivenUp ==
  ASSUME LocksCompatible,
         \A s \in Server, i \in Id : lock'[s][i] = lock[s][i] \/ lock'[s][i] = "un"
  PROVE  LocksCompatible'
BY DEF LocksCompatible

\* A request the kernel grants clashes with no other process.
LEMMA LockGranted ==
  ASSUME TypeOK, LocksCompatible, NEW s \in Server, NEW i \in Id,
         NEW l \in {"rd", "wr"}, SetLock(s, i, l),
         IF l = "rd" THEN ReadLockable(s, i) ELSE WriteLockable(s, i)
  PROVE  LocksCompatible'
<1> SUFFICES ASSUME NEW t \in Server, NEW u \in Server, NEW j \in Id,
                    t # u, lock'[t][j] = "wr"
             PROVE  lock'[u][j] = "un"
  BY DEF LocksCompatible
<1>1. /\ lock'[t][j] = IF t = s /\ j = i THEN l ELSE lock[t][j]
      /\ lock'[u][j] = IF u = s /\ j = i THEN l ELSE lock[u][j]
  BY SetLockElsewhere
<1>2. CASE j # i \/ (t # s /\ u # s)
  BY <1>1, <1>2 DEF LocksCompatible
<1>3. CASE j = i /\ t = s
  BY <1>1, <1>3 DEF WriteLockable
<1>4. CASE j = i /\ u = s
  BY <1>1, <1>4 DEF ReadLockable, WriteLockable
<1> QED BY <1>2, <1>3, <1>4

LEMMA LocksStep ==
  TypeOK /\ RunOK /\ DialogueOK /\ LocksCompatible /\ [Next]_vars => LocksCompatible'
<1> SUFFICES ASSUME TypeOK, RunOK, DialogueOK, LocksCompatible, [Next]_vars
             PROVE  LocksCompatible'
  OBVIOUS
<1> USE DEF vars, locks, conns, net
<1>1. ASSUME UNCHANGED lock PROVE LocksCompatible'
  BY <1>1, LocksGivenUp
<1>2. ASSUME NEW s \in Server, NEW i \in Id, DropReader(s, i) \/ DropWriter(s, i)
      PROVE  LocksCompatible'
  <2>1. UNCHANGED lock \/ SetLock(s, i, "un")
    BY <1>2 DEF DropReader, DropWriter
  <2> QED BY <1>1, <2>1, SetLockElsewhere, LocksGivenUp
<1>3. ASSUME NEW s \in Server, Terminate(s) PROVE LocksCompatible'
  <2>1. \A t \in Server, i \in Id : lock'[t][i] = lock[t][i] \/ lock'[t][i] = "un"
    BY <1>3 DEF TypeOK, Terminate
  <2> QED BY <2>1, LocksGivenUp
<1>4. ASSUME NEW c \in Conn, Serve(c) PROVE LocksCompatible'
  <2>1. CASE \/ ReadFailed(c) \/ RejectId(c) \/ ReaderLocked(c) \/ ReaderExit(c)
             \/ CommandRefused(c) \/ ReaderIgnore(c) \/ CommandAccepted(c)
    BY <2>1, <1>1 DEF ReadFailed, RejectId, ReaderLocked, ReaderExit,
                      CommandRefused, ReaderIgnore, CommandAccepted
  <2>2. CASE ReaderEnd(c) \/ WriterEnd(c)
    <3>1. Home[c] \in Server /\ c \in open
      BY <2>2, ServerAssumption DEF ReaderEnd, WriterEnd, AtEnd, Got, Ready
    <3>2. UNCHANGED lock \/ reqid[c] \in Id
      BY <2>2, <3>1 DEF TypeOK, DialogueOK, ReaderEnd, WriterEnd
    <3> QED BY <2>2, <3>1, <3>2, <1>1, <1>2 DEF ReaderEnd, WriterEnd
  <2>3. CASE ReaderAdmit(c)
    BY <2>3, GotLine, LockGranted DEF ReaderAdmit, Got
  <2>4. CASE WriterAdmit(c) \/ WriterLocked(c)
    BY <2>4, <1>1, GotLine, LockGranted DEF WriterAdmit, WriterLocked, Got
  <2>5. CASE UnendedRead(c)
    BY <2>5, <1>3, ServerAssumption DEF UnendedRead
  <2> QED BY <1>4, <2>1, <2>2, <2>3, <2>4, <2>5 DEF Serve
<1>5. ASSUME NEW s \in Server, Continue(s) PROVE LocksCompatible'
  <2>1. CASE Release(s)
    BY <2>1, <1>2 DEF Release, RunOK
  <2>2. CASE Show(s) \/ Commit(s) \/ Report(s)
    BY <2>2, <1>1 DEF Show, Commit, Report
  <2> QED BY <1>5, <2>1, <2>2 DEF Continue
<1>6. CASE \/ \E c \in Conn : Client(c)
           \/ \E s \in Server : Restart(s)
           \/ UNCHANGED vars
  BY <1>6, <1>1 DEF Client, Accept, Hangup, Reset, Send, Restart
<1> QED BY <1>3, <1>4, <1>5, <1>6 DEF Next, BrokenPipe, Kill

-----------------------------------------------------------------------------
(* The theorems. *)

LEMMA InitInv == Init => SessionInv
<1> SUFFICES ASSUME Init PROVE SessionInv
  OBVIOUS
<1>1. TypeOK
  BY InitTypes
<1>2. RunOK /\ DialogueOK /\ LocksCompatible
  BY DEF Init, Idle, RunOK, DialogueOK, LocksCompatible, Server
<1>3. \A s \in Server, i \in Id : Sessions(s, i) = {} /\ ~ Releasing(s, i)
  BY ServerAssumption DEF Init, Idle, Sessions, Releasing
<1>4. \A s \in Server, i \in Id : Held(s, i) = 0
  BY <1>3, FS_EmptySet DEF Held
<1>5. ReadersCounted
  BY <1>4 DEF Init, ReadersCounted, Counted, Server
<1>6. WritersMarked
  BY <1>3 DEF Init, WritersMarked, Marked, Server
<1> QED BY <1>1, <1>2, <1>5, <1>6 DEF SessionInv

LEMMA StepInv == SessionInv /\ [Next]_vars => SessionInv'
BY TypeStep, RunStep, DialogueStep, ReadersStep, WritersStep, LocksStep DEF SessionInv

\* Locks and counters stand for the sessions, in every reachable state, however
\* many processes, connections and broken connections there are.
THEOREM SessionsAreLocked == Spec => []SessionInv
BY InitInv, StepInv, PTL DEF Spec

\* Every variable keeps its type.
THEOREM TypeCorrect == Spec => []TypeOK
<1>1. SessionInv => TypeOK
  BY DEF SessionInv
<1> QED BY <1>1, SessionsAreLocked, PTL

LEMMA ExclusionFollows == SessionInv => MutualExclusion
<1>1. ASSUME SessionInv PROVE MutualExclusion
  <2> SUFFICES ASSUME NEW c \in Conn, NEW d \in Conn,
                      reqid[c] # None, reqid[c] = reqid[d], Home[c] \in WriteServer
               PROVE  c = d
    BY DEF MutualExclusion
  <2> DEFINE i == reqid[c]
             s == Home[c]
             t == Home[d]
  <2>1. /\ i \in Id /\ s \in Server /\ t \in Server
        /\ c \in Sessions(s, i) /\ d \in Sessions(t, i)
    BY <1>1, ServerAssumption DEF SessionInv, TypeOK, Sessions
  <2> HIDE DEF i, s, t
  <2>2. s \in WriteServer
    BY DEF s
  <2>3. lock[s][i] = "wr"
    BY <1>1, <2>1, <2>2 DEF SessionInv, WritersMarked, Marked
  <2>4. CASE s = t
    BY <1>1, <2>1, <2>2, <2>4 DEF SessionInv, WritersMarked, Marked
  <2>5. CASE s # t
    <3>1. lock[t][i] = "un"
      BY <1>1, <2>1, <2>3, <2>5 DEF SessionInv, LocksCompatible
    <3>2. CASE t \in WriteServer
      BY <1>1, <2>1, <3>1, <3>2 DEF SessionInv, WritersMarked, Marked
    <3>3. CASE t \in ReadServer
      <4>1. Cardinality(Sessions(t, i)) > 0
        BY <2>1, SessionsFinite, FS_EmptySet, HeldIsNat
      <4>2. readlc[t][i] = 0 /\ readlc[t][i] >= Held(t, i)
        BY <1>1, <2>1, <3>1, <3>3 DEF SessionInv, ReadersCounted, Counted
      <4> QED BY <4>1, <4>2, HeldIsNat, SessionsFinite DEF Held
    <3> QED BY <2>1, <3>2, <3>3 DEF Server
  <2> QED BY <2>4, <2>5
<1> QED BY <1>1

\* No two sessions hold a user's record of which one may change it, in one
\* process or in two.
THEOREM SessionsExclude == Spec => []MutualExclusion
BY ExclusionFollows, SessionsAreLocked, PTL

-----------------------------------------------------------------------------
(* What the dialogue of a session looks like from its descriptor. *)

\* An admitted user has an open descriptor, and its dialogue has gone on unless
\* the record is just being sent.
Showing(c) == run[Home[c]].at = "show" /\ run[Home[c]].fd = c
AdmittedOK ==
  \A c \in Conn : reqid[c] # None =>
    c \in open /\ (state[c] \in {"EXIT", "COMMAND"} \/ Showing(c))

\* Only who has been admitted has been shown anything.
ShownOK == \A c \in Conn : shown[c] # None => reqid[c] # None

\* The connections that may have broken are counted.
ResetsOK == \A c \in Conn : peer[c] = "reset" => resets > 0

DialogueInv == SessionInv /\ AdmittedOK /\ ShownOK /\ ResetsOK

\* Before the first bookings are sent there is no session.
LEMMA NotAdmitted ==
  ASSUME AdmittedOK, NEW c \in Conn, Ready(c), state[c] \in {"HI", "ID"}
  PROVE  reqid[c] = None
<1>1. run[Home[c]].at = "select"
  BY DEF Ready, Idle
<1> QED BY <1>1 DEF AdmittedOK, Showing

\* The frame of AdmittedOK.
LEMMA AdmittedKept ==
  ASSUME AdmittedOK,
         \A d \in Conn : reqid'[d] # None =>
           /\ reqid[d] # None
           /\ d \in open => d \in open'
           /\ state[d] \in {"EXIT", "COMMAND"} => state'[d] \in {"EXIT", "COMMAND"}
           /\ Showing(d) => Showing(d)'
  PROVE  AdmittedOK'
BY DEF AdmittedOK

\* A connection closes, while its process is not sending a record.
LEMMA AdmittedOnClose ==
  ASSUME TypeOK, AdmittedOK, NEW c \in Conn, CloseConn(c),
         \/ UNCHANGED state
         \/ state' = [state EXCEPT ![c] = "HI"],
         \A s \in Server : run[s].at = "show" => run'[s] = run[s]
  PROVE  AdmittedOK'
<1> SUFFICES ASSUME NEW d \in Conn, reqid'[d] # None
             PROVE  /\ reqid[d] # None
                    /\ d \in open => d \in open'
                    /\ state[d] \in {"EXIT", "COMMAND"} => state'[d] \in {"EXIT", "COMMAND"}
                    /\ Showing(d) => Showing(d)'
  BY AdmittedKept
<1>1. d # c /\ reqid'[d] = reqid[d] /\ (d \in open => d \in open') /\ state'[d] = state[d]
  BY DEF CloseConn, TypeOK
<1>2. Showing(d) => Showing(d)'
  BY ServerAssumption DEF Showing
<1> QED BY <1>1, <1>2

\* The run of one process that is in select changes.
LEMMA ShowsElsewhere ==
  ASSUME TypeOK, NEW s \in Server, run[s].at # "show", NEW a,
         run' = [run EXCEPT ![s] = a]
  PROVE  \A t \in Server : run[t].at = "show" => run'[t] = run[t]
BY DEF TypeOK

LEMMA AdmittedStep ==
  TypeOK /\ RunOK /\ DialogueOK /\ AdmittedOK /\ [Next]_vars => AdmittedOK'
<1> SUFFICES ASSUME TypeOK, RunOK, DialogueOK, AdmittedOK, [Next]_vars
             PROVE  AdmittedOK'
  OBVIOUS
<1> USE DEF vars, locks, conns, net
<1>1. ASSUME NEW c \in Conn, Client(c) PROVE AdmittedOK'
  <2>1. CASE Accept(c)
    <3>1. c \notin open /\ reqid' = reqid /\ run' = run
      BY <2>1 DEF Accept
    <3>2. reqid[c] = None
      BY <3>1 DEF AdmittedOK
    <3>3. open \subseteq open' /\ \A d \in Conn : d # c => state'[d] = state[d]
      BY <2>1 DEF Accept, TypeOK
    <3> QED BY <3>1, <3>2, <3>3, AdmittedKept DEF Showing
  <2>2. CASE UNCHANGED <<run, conns>>
    BY <2>2, AdmittedKept DEF Showing
  <2> QED BY <1>1, <2>1, <2>2 DEF Client, Hangup, Reset, Send
<1>2. ASSUME NEW s \in Server, Terminate(s) PROVE AdmittedOK'
  <2> SUFFICES ASSUME NEW d \in Conn, reqid'[d] # None
               PROVE  /\ reqid[d] # None
                      /\ d \in open => d \in open'
                      /\ state[d] \in {"EXIT", "COMMAND"} => state'[d] \in {"EXIT", "COMMAND"}
                      /\ Showing(d) => Showing(d)'
    BY AdmittedKept
  <2>1. Home[d] # s /\ reqid'[d] = reqid[d]
    BY <1>2 DEF Terminate
  <2>2. (d \in open => d \in open') /\ state'[d] = state[d]
    BY <1>2, <2>1 DEF Terminate
  <2>3. run'[Home[d]] = run[Home[d]]
    BY <1>2, <2>1, ServerAssumption DEF Terminate, TypeOK
  <2> QED BY <2>1, <2>2, <2>3 DEF Showing
<1>3. ASSUME NEW c \in Conn, Serve(c) PROVE AdmittedOK'
  <2>0. Home[c] \in Server
    BY ServerAssumption
  <2>1. CASE \/ ReadFailed(c) \/ RejectId(c) \/ ReaderEnd(c) \/ WriterEnd(c)
             \/ ReaderLocked(c) \/ WriterLocked(c)
    <3>1. CloseConn(c) /\ run' = run
      BY <2>1 DEF ReadFailed, RejectId, ReaderEnd, WriterEnd, ReaderLocked, WriterLocked, Refuse
    <3>2. UNCHANGED state \/ state' = [state EXCEPT ![c] = "HI"]
      BY <2>1 DEF ReadFailed, RejectId, ReaderEnd, WriterEnd, ReaderLocked, WriterLocked, Refuse
    <3> QED BY <3>1, <3>2, AdmittedOnClose
  <2>2. CASE ReaderExit(c) \/ CommandRefused(c)
    <3>1. /\ CloseConn(c) /\ run[Home[c]] = Idle
          /\ run' = [run EXCEPT ![Home[c]] = [Idle EXCEPT !.at = "release", !.id = reqid[c]]]
      BY <2>2 DEF ReaderExit, CommandRefused, Got, Ready
    <3>2. UNCHANGED state \/ state' = [state EXCEPT ![c] = "HI"]
      BY <2>2 DEF ReaderExit, CommandRefused
    <3>3. run[Home[c]].at # "show"
      BY <3>1 DEF Idle
    <3>4. \A t \in Server : run[t].at = "show" => run'[t] = run[t]
      BY <2>0, <3>1, <3>3, ShowsElsewhere
    <3> QED BY <3>1, <3>2, <3>4, AdmittedOnClose
  <2>3. CASE ReaderAdmit(c) \/ WriterAdmit(c)
    <3> DEFINE i == Head(inbox[c]).id
    <3>1. /\ c \in open /\ run[Home[c]] = Idle /\ open' = open /\ state' = state
          /\ reqid' = [reqid EXCEPT ![c] = i]
          /\ run' = [run EXCEPT ![Home[c]] = [Idle EXCEPT !.at = "show", !.fd = c, !.id = i]]
      BY <2>3 DEF ReaderAdmit, WriterAdmit, Got, Ready
    <3> HIDE DEF i
    <3>2. Showing(c)'
      BY <2>0, <3>1 DEF TypeOK, Idle, Showing
    <3>3. \A d \in Conn : d # c => reqid'[d] = reqid[d]
      BY <3>1 DEF TypeOK
    <3>4. \A d \in Conn : Showing(d) => Showing(d)'
      <4>1. run[Home[c]].at # "show"
        BY <3>1 DEF Idle
      <4>2. \A t \in Server : run[t].at = "show" => run'[t] = run[t]
        BY <2>0, <3>1, <4>1, ShowsElsewhere
      <4> QED BY <4>2, ServerAssumption DEF Showing
    <3> QED BY <3>1, <3>2, <3>3, <3>4 DEF AdmittedOK
  <2>4. CASE ReaderIgnore(c)
    BY <2>4, AdmittedKept DEF ReaderIgnore, Showing
  <2>5. CASE CommandAccepted(c)
    <3> DEFINE a == [at |-> "commit", fd |-> c, id |-> reqid[c],
                     input |-> Applied(record[reqid[c]], Head(inbox[c]).change)]
    <3>1. /\ run[Home[c]] = Idle /\ UNCHANGED conns /\ run' = [run EXCEPT ![Home[c]] = a]
      BY <2>5 DEF CommandAccepted, Got, Ready
    <3> HIDE DEF a
    <3>2. run[Home[c]].at # "show"
      BY <3>1 DEF Idle
    <3>3. \A t \in Server : run[t].at = "show" => run'[t] = run[t]
      BY <2>0, <3>1, <3>2, ShowsElsewhere
    <3> QED BY <3>1, <3>3, AdmittedKept, ServerAssumption DEF Showing
  <2>6. CASE UnendedRead(c)
    BY <2>0, <2>6, <1>2 DEF UnendedRead
  <2> QED BY <1>3, <2>1, <2>2, <2>3, <2>4, <2>5, <2>6 DEF Serve
<1>4. ASSUME NEW s \in Server, Continue(s) PROVE AdmittedOK'
  <2>1. CASE Show(s)
    <3> DEFINE c == run[s].fd
    <3>1. c \in Conn /\ Home[c] = s
      BY <2>1 DEF Show, RunOK
    <3>2. /\ UNCHANGED <<open, reqid>> /\ run' = [run EXCEPT ![s] = Idle]
          /\ state' = [state EXCEPT ![c] = IF s \in ReadServer THEN "EXIT" ELSE "COMMAND"]
      BY <2>1 DEF Show
    <3>3. state'[c] \in {"EXIT", "COMMAND"} /\ \A d \in Conn : d # c => state'[d] = state[d]
      BY <3>1, <3>2 DEF TypeOK
    <3>4. \A d \in Conn : d # c /\ Showing(d) => Home[d] # s
      BY DEF Showing
    <3>5. \A t \in Server : t # s => run'[t] = run[t]
      BY <3>2 DEF TypeOK
    <3> HIDE DEF c
    <3>6. \A d \in Conn : d # c /\ Showing(d) => Showing(d)'
      BY <3>4, <3>5, ServerAssumption DEF Showing
    <3> QED BY <3>2, <3>3, <3>6 DEF AdmittedOK
  <2>2. CASE Report(s)
    <3>1. run[s].fd \in Conn /\ run[s].at # "show"
      BY <2>2 DEF Report, RunOK
    <3>2. /\ CloseConn(run[s].fd) /\ state' = [state EXCEPT ![run[s].fd] = "HI"]
          /\ run' = [run EXCEPT ![s] = [Idle EXCEPT !.at = "release", !.id = run[s].id]]
      BY <2>2 DEF Report
    <3>3. \A t \in Server : run[t].at = "show" => run'[t] = run[t]
      BY <3>1, <3>2, ShowsElsewhere
    <3> QED BY <3>1, <3>2, <3>3, AdmittedOnClose
  <2>3. CASE Commit(s)
    <3>1. run[s].at # "show" /\ run' = [run EXCEPT ![s] = [run[s] EXCEPT !.at = "report"]]
      BY <2>3 DEF Commit
    <3>2. \A t \in Server : run[t].at = "show" => run'[t] = run[t]
      BY <3>1, ShowsElsewhere
    <3> QED BY <2>3, <3>2, AdmittedKept, ServerAssumption DEF Commit, Showing
  <2>4. CASE Release(s)
    <3>1. run[s].at # "show" /\ run' = [run EXCEPT ![s] = Idle] /\ UNCHANGED conns
      BY <2>4 DEF Release
    <3>2. \A t \in Server : run[t].at = "show" => run'[t] = run[t]
      BY <3>1, ShowsElsewhere
    <3> QED BY <3>1, <3>2, AdmittedKept, ServerAssumption DEF Showing
  <2> QED BY <1>4, <2>1, <2>2, <2>3, <2>4 DEF Continue
<1>5. ASSUME NEW s \in Server, Restart(s) PROVE AdmittedOK'
  <2>1. run[s].at # "show" /\ run' = [run EXCEPT ![s] = Idle] /\ UNCHANGED conns
    BY <1>5 DEF Restart, Down
  <2>2. \A t \in Server : run[t].at = "show" => run'[t] = run[t]
    BY <2>1, ShowsElsewhere
  <2> QED BY <2>1, <2>2, AdmittedKept, ServerAssumption DEF Showing
<1>6. CASE UNCHANGED vars
  BY <1>6, AdmittedKept DEF Showing
<1> QED BY <1>1, <1>2, <1>3, <1>4, <1>5, <1>6 DEF Next, BrokenPipe, Kill

LEMMA ShownStep ==
  TypeOK /\ RunOK /\ AdmittedOK /\ ShownOK /\ [Next]_vars => ShownOK'
<1> SUFFICES ASSUME TypeOK, RunOK, AdmittedOK, ShownOK, [Next]_vars
             PROVE  ShownOK'
  OBVIOUS
<1> USE DEF vars, locks, conns, net
<1>1. ASSUME NEW c \in Conn, CloseConn(c) PROVE ShownOK'
  BY <1>1 DEF CloseConn, TypeOK, ShownOK
<1>2. ASSUME UNCHANGED <<reqid, shown>> PROVE ShownOK'
  BY <1>2 DEF ShownOK
<1>3. ASSUME NEW s \in Server, Terminate(s) PROVE ShownOK'
  BY <1>3 DEF Terminate, TypeOK, ShownOK
<1>4. ASSUME NEW c \in Conn, Serve(c) PROVE ShownOK'
  <2>1. CASE \/ ReadFailed(c) \/ RejectId(c) \/ ReaderEnd(c) \/ WriterEnd(c)
             \/ ReaderLocked(c) \/ WriterLocked(c) \/ ReaderExit(c) \/ CommandRefused(c)
    BY <2>1, <1>1 DEF ReadFailed, RejectId, ReaderEnd, WriterEnd,
                      ReaderLocked, WriterLocked, Refuse, ReaderExit, CommandRefused
  <2>2. CASE ReaderAdmit(c) \/ WriterAdmit(c)
    <3> DEFINE i == Head(inbox[c]).id
    <3>1. i \in Id /\ reqid' = [reqid EXCEPT ![c] = i] /\ shown' = shown
      BY <2>2, GotLine DEF ReaderAdmit, WriterAdmit, Got
    <3> HIDE DEF i
    <3> QED BY <3>1, ServerAssumption DEF TypeOK, ShownOK
  <2>3. CASE ReaderIgnore(c) \/ CommandAccepted(c)
    BY <2>3, <1>2 DEF ReaderIgnore, CommandAccepted
  <2>4. CASE UnendedRead(c)
    BY <2>4, <1>3, ServerAssumption DEF UnendedRead
  <2> QED BY <1>4, <2>1, <2>2, <2>3, <2>4 DEF Serve
<1>5. ASSUME NEW s \in Server, Continue(s) PROVE ShownOK'
  <2>1. CASE Show(s)
    <3>1. run[s].fd \in Conn /\ reqid[run[s].fd] \in Id /\ reqid' = reqid
      BY <2>1 DEF Show, RunOK
    <3>2. \A d \in Conn : d # run[s].fd => shown'[d] = shown[d]
      BY <2>1 DEF Show, TypeOK
    <3> QED BY <3>1, <3>2, ServerAssumption DEF ShownOK
  <2>2. CASE Report(s)
    BY <2>2, <1>1 DEF Report, RunOK
  <2>3. CASE Commit(s) \/ Release(s)
    BY <2>3, <1>2 DEF Commit, Release
  <2> QED BY <1>5, <2>1, <2>2, <2>3 DEF Continue
<1>6. CASE \/ \E c \in Conn : Client(c)
           \/ \E s \in Server : Restart(s)
           \/ UNCHANGED vars
  BY <1>6, <1>2 DEF Client, Accept, Hangup, Reset, Send, Restart
<1> QED BY <1>3, <1>4, <1>5, <1>6 DEF Next, BrokenPipe, Kill

LEMMA ResetsStep == TypeOK /\ RunOK /\ ResetsOK /\ [Next]_vars => ResetsOK'
<1> SUFFICES ASSUME TypeOK, RunOK, ResetsOK, [Next]_vars, NEW d \in Conn, peer'[d] = "reset"
             PROVE  resets' > 0
  BY DEF ResetsOK
<1> USE DEF vars, locks, conns, net
<1>1. ASSUME resets' = resets, peer[d] = "reset" PROVE resets' > 0
  BY <1>1 DEF ResetsOK
<1>2. ASSUME NEW c \in Conn, CloseConn(c) PROVE resets' > 0
  <2>1. resets' = resets /\ peer'[d] \in {peer[d], "none"}
    BY <1>2 DEF CloseConn, TypeOK
  <2> QED BY <1>1, <2>1
<1>3. ASSUME UNCHANGED <<peer, resets>> PROVE resets' > 0
  BY <1>1, <1>3
<1>4. ASSUME NEW s \in Server, Terminate(s) PROVE resets' > 0
  <2>1. resets' = resets /\ peer'[d] \in {peer[d], "none"}
    BY <1>4 DEF Terminate, TypeOK
  <2> QED BY <1>1, <2>1
<1>5. ASSUME NEW c \in Conn, Client(c) PROVE resets' > 0
  <2>1. CASE Reset(c)
    BY <2>1 DEF Reset, TypeOK
  <2>2. CASE Accept(c) \/ Hangup(c)
    BY <2>2, <1>1 DEF Accept, Hangup, TypeOK
  <2>3. ASSUME NEW line \in Line, Send(c, line) PROVE resets' > 0
    BY <2>3, <1>3 DEF Send
  <2> QED BY <1>5, <2>1, <2>2, <2>3 DEF Client
<1>6. ASSUME NEW c \in Conn, Serve(c) PROVE resets' > 0
  <2>1. CASE \/ ReadFailed(c) \/ RejectId(c) \/ ReaderEnd(c) \/ WriterEnd(c)
             \/ ReaderLocked(c) \/ WriterLocked(c) \/ ReaderExit(c) \/ CommandRefused(c)
    BY <2>1, <1>2 DEF ReadFailed, RejectId, ReaderEnd, WriterEnd,
                      ReaderLocked, WriterLocked, Refuse, ReaderExit, CommandRefused
  <2>2. CASE ReaderAdmit(c) \/ WriterAdmit(c) \/ ReaderIgnore(c) \/ CommandAccepted(c)
    BY <2>2, <1>3 DEF ReaderAdmit, WriterAdmit, ReaderIgnore, CommandAccepted, Consume
  <2>3. CASE UnendedRead(c)
    BY <2>3, <1>4, ServerAssumption DEF UnendedRead
  <2> QED BY <1>6, <2>1, <2>2, <2>3 DEF Serve
<1>7. ASSUME NEW s \in Server, Continue(s) PROVE resets' > 0
  BY <1>7, <1>2, <1>3 DEF Continue, Show, Commit, Report, Release, RunOK
<1>8. CASE \E s \in Server : Restart(s)
  BY <1>8, <1>3 DEF Restart
<1>9. CASE UNCHANGED vars
  BY <1>9, <1>3
<1> QED BY <1>4, <1>5, <1>6, <1>7, <1>8, <1>9 DEF Next, BrokenPipe, Kill

LEMMA DialogueInvariant == Spec => []DialogueInv
<1>1. Init => DialogueInv
  BY InitInv DEF Init, DialogueInv, AdmittedOK, ShownOK, ResetsOK
<1>2. DialogueInv /\ [Next]_vars => DialogueInv'
  BY StepInv, AdmittedStep, ShownStep, ResetsStep DEF DialogueInv, SessionInv
<1> QED BY <1>1, <1>2, PTL DEF Spec


-----------------------------------------------------------------------------
(* What a session sees of its record. *)

\* The change a process is about to write has passed checkcommand's tests, on
\* the record as it still is.
UpdateOK ==
  \A s \in Server : run[s].at = "commit" =>
    \E change \in Asked : /\ run[s].input = Applied(record[run[s].id], change)
                           /\ Verdict(record[run[s].id], change) = "ok"

RecordInv == DialogueInv /\ DisplayedStateIsCurrent /\ UpdateOK /\ UpdateNotLost

\* Two connections on one record are both readers', when none of them is the
\* connection of a writer about to change the record.
LEMMA OneWriter ==
  ASSUME SessionInv, NEW c \in Conn, NEW d \in Conn, reqid[c] \in Id, reqid[d] = reqid[c],
         Home[c] \in WriteServer
  PROVE  d = c
BY ExclusionFollows, ServerAssumption DEF MutualExclusion

\* The frame of DisplayedStateIsCurrent.
Reporting(c) == run[Home[c]].at = "report" /\ run[Home[c]].fd = c
LEMMA DisplayedKept ==
  ASSUME DisplayedStateIsCurrent, record' = record,
         \A d \in Conn : shown'[d] # None =>
           /\ shown'[d] = shown[d] /\ reqid'[d] = reqid[d]
           /\ Reporting(d) => Reporting(d)'
  PROVE  DisplayedStateIsCurrent'
BY DEF DisplayedStateIsCurrent, Reporting

\* A process that reports on no connection may change its run.
LEMMA ReportsElsewhere ==
  ASSUME TypeOK, NEW s \in Server, run[s].at # "report", NEW a,
         run' = [run EXCEPT ![s] = a]
  PROVE  \A d \in Conn : Reporting(d) => Reporting(d)'
BY ServerAssumption DEF TypeOK, Reporting

LEMMA DisplayedOnClose ==
  ASSUME TypeOK, DisplayedStateIsCurrent, record' = record, NEW c \in Conn, CloseConn(c),
         \A d \in Conn : d # c /\ Reporting(d) => Reporting(d)'
  PROVE  DisplayedStateIsCurrent'
<1>1. ASSUME NEW d \in Conn, shown'[d] # None
      PROVE  d # c /\ shown'[d] = shown[d] /\ reqid'[d] = reqid[d]
  BY <1>1 DEF CloseConn, TypeOK
<1> QED BY <1>1, DisplayedKept

LEMMA DisplayedStep ==
  DialogueInv /\ DisplayedStateIsCurrent /\ [Next]_vars => DisplayedStateIsCurrent'
<1> SUFFICES ASSUME DialogueInv, DisplayedStateIsCurrent, [Next]_vars
             PROVE  DisplayedStateIsCurrent'
  OBVIOUS
<1>0. TypeOK /\ RunOK /\ DialogueOK /\ AdmittedOK /\ ShownOK /\ SessionInv
  BY DEF DialogueInv, SessionInv
<1> USE DEF vars, locks, conns, net
<1>1. ASSUME UNCHANGED <<record, reqid, shown>>,
             \A d \in Conn : Reporting(d) => Reporting(d)'
      PROVE  DisplayedStateIsCurrent'
  BY <1>1, DisplayedKept
<1>2. ASSUME NEW c \in Conn, Client(c) PROVE DisplayedStateIsCurrent'
  BY <1>1, <1>2 DEF Client, Accept, Hangup, Reset, Send, Reporting
<1>3. ASSUME NEW s \in Server, Terminate(s) PROVE DisplayedStateIsCurrent'
  <2>1. ASSUME NEW d \in Conn, shown'[d] # None
        PROVE  Home[d] # s /\ shown'[d] = shown[d] /\ reqid'[d] = reqid[d]
    BY <1>3, <2>1 DEF Terminate
  <2>2. \A t \in Server : t # s => run'[t] = run[t]
    BY <1>0, <1>3 DEF Terminate, TypeOK
  <2>3. record' = record
    BY <1>3 DEF Terminate
  <2> QED BY <2>1, <2>2, <2>3, DisplayedKept, ServerAssumption DEF Reporting
<1>4. ASSUME NEW c \in Conn, Serve(c) PROVE DisplayedStateIsCurrent'
  <2>0. Home[c] \in Server
    BY ServerAssumption
  <2>1. CASE \/ ReadFailed(c) \/ RejectId(c) \/ ReaderEnd(c) \/ WriterEnd(c)
             \/ ReaderLocked(c) \/ WriterLocked(c)
    <3>1. CloseConn(c) /\ run' = run /\ record' = record
      BY <2>1 DEF ReadFailed, RejectId, ReaderEnd, WriterEnd, ReaderLocked, WriterLocked, Refuse
    <3> QED BY <1>0, <3>1, DisplayedOnClose DEF Reporting
  <2>2. CASE ReaderExit(c) \/ CommandRefused(c)
    <3>1. /\ CloseConn(c) /\ run[Home[c]] = Idle /\ record' = record
          /\ run' = [run EXCEPT ![Home[c]] = [Idle EXCEPT !.at = "release", !.id = reqid[c]]]
      BY <2>2 DEF ReaderExit, CommandRefused, Got, Ready
    <3>2. run[Home[c]].at # "report"
      BY <3>1 DEF Idle
    <3> QED BY <1>0, <2>0, <3>1, <3>2, ReportsElsewhere, DisplayedOnClose
  <2>3. CASE ReaderAdmit(c) \/ WriterAdmit(c)
    <3> DEFINE i == Head(inbox[c]).id
    <3>1. /\ Ready(c) /\ state[c] = "ID" /\ run[Home[c]] = Idle
          /\ record' = record /\ shown' = shown /\ reqid' = [reqid EXCEPT ![c] = i]
          /\ run' = [run EXCEPT ![Home[c]] = [Idle EXCEPT !.at = "show", !.fd = c, !.id = i]]
      BY <2>3 DEF ReaderAdmit, WriterAdmit, Got, Ready
    <3> HIDE DEF i
    <3>2. shown[c] = None
      BY <1>0, <3>1, NotAdmitted DEF ShownOK
    <3>3. \A d \in Conn : d # c => reqid'[d] = reqid[d]
      BY <1>0, <3>1 DEF TypeOK
    <3>4. run[Home[c]].at # "report"
      BY <3>1 DEF Idle
    <3>5. \A d \in Conn : Reporting(d) => Reporting(d)'
      BY <1>0, <2>0, <3>1, <3>4, ReportsElsewhere
    <3> QED BY <3>1, <3>2, <3>3, <3>5, DisplayedKept
  <2>4. CASE ReaderIgnore(c)
    BY <2>4, <1>1 DEF ReaderIgnore, Reporting
  <2>5. CASE CommandAccepted(c)
    <3> DEFINE a == [at |-> "commit", fd |-> c, id |-> reqid[c],
                     input |-> Applied(record[reqid[c]], Head(inbox[c]).change)]
    <3>1. /\ run[Home[c]] = Idle /\ UNCHANGED conns /\ run' = [run EXCEPT ![Home[c]] = a]
          /\ record' = record
      BY <2>5 DEF CommandAccepted, Got, Ready
    <3> HIDE DEF a
    <3>2. run[Home[c]].at # "report"
      BY <3>1 DEF Idle
    <3> QED BY <1>0, <1>1, <2>0, <3>1, <3>2, ReportsElsewhere
  <2>6. CASE UnendedRead(c)
    BY <2>0, <2>6, <1>3 DEF UnendedRead
  <2> QED BY <1>4, <2>1, <2>2, <2>3, <2>4, <2>5, <2>6 DEF Serve
<1>5. ASSUME NEW s \in Server, Continue(s) PROVE DisplayedStateIsCurrent'
  <2> DEFINE c == run[s].fd
  <2>1. CASE Show(s)
    <3>1. c \in Conn /\ Home[c] = s /\ run[s].id \in Id /\ reqid[c] = run[s].id
      BY <1>0, <2>1 DEF Show, RunOK
    <3>2. /\ UNCHANGED <<record, reqid>> /\ run[s].at # "report"
          /\ shown' = [shown EXCEPT ![c] = record[run[s].id]]
          /\ run' = [run EXCEPT ![s] = Idle]
      BY <2>1 DEF Show
    <3>3. shown'[c] = record'[reqid'[c]] /\ \A d \in Conn : d # c => shown'[d] = shown[d]
      BY <1>0, <3>1, <3>2 DEF TypeOK
    <3>4. \A d \in Conn : Reporting(d) => Reporting(d)'
      BY <1>0, <3>2, ReportsElsewhere
    <3> QED BY <3>2, <3>3, <3>4 DEF DisplayedStateIsCurrent, Reporting
  <2>2. CASE Commit(s)
    <3>1. c \in Conn /\ Home[c] = s /\ run[s].id \in Id /\ reqid[c] = run[s].id /\ s \in WriteServer
      BY <1>0, <2>2 DEF Commit, RunOK
    <3>2. /\ UNCHANGED <<reqid, shown>> /\ run[s].at = "commit"
          /\ record' = [record EXCEPT ![run[s].id] = run[s].input]
          /\ run' = [run EXCEPT ![s] = [run[s] EXCEPT !.at = "report"]]
      BY <2>2 DEF Commit
    <3>3. Reporting(c)'
      BY <1>0, <3>1, <3>2 DEF TypeOK, Activity, Reporting
    <3>4. \A d \in Conn : Reporting(d) => Reporting(d)'
      BY <1>0, <3>2, ReportsElsewhere
    <3>5. \A d \in Conn : d # c => reqid[d] # run[s].id
      BY <1>0, <3>1, OneWriter
    <3>6. \A d \in Conn : d # c => record'[reqid[d]] = record[reqid[d]]
      BY <1>0, <3>2, <3>5 DEF TypeOK
    <3> QED BY <3>2, <3>3, <3>4, <3>6 DEF DisplayedStateIsCurrent, Reporting
  <2>3. CASE Report(s)
    <3>1. c \in Conn /\ Home[c] = s /\ CloseConn(c) /\ record' = record
      BY <1>0, <2>3 DEF Report, RunOK
    <3>2. run' = [run EXCEPT ![s] = [Idle EXCEPT !.at = "release", !.id = run[s].id]]
      BY <2>3 DEF Report
    <3>3. \A t \in Server : t # s => run'[t] = run[t]
      BY <1>0, <3>2 DEF TypeOK
    <3>4. \A d \in Conn : d # c /\ Reporting(d) => Reporting(d)'
      BY <3>3, ServerAssumption DEF Reporting
    <3> QED BY <1>0, <3>1, <3>4, DisplayedOnClose
  <2>4. CASE Release(s)
    <3>1. run[s].at # "report" /\ run' = [run EXCEPT ![s] = Idle] /\ UNCHANGED <<record, conns>>
      BY <2>4 DEF Release
    <3> QED BY <1>0, <1>1, <3>1, ReportsElsewhere
  <2> QED BY <1>5, <2>1, <2>2, <2>3, <2>4 DEF Continue
<1>6. ASSUME NEW s \in Server, Restart(s) PROVE DisplayedStateIsCurrent'
  <2>1. run[s].at # "report" /\ run' = [run EXCEPT ![s] = Idle] /\ UNCHANGED <<record, conns>>
    BY <1>6 DEF Restart, Down
  <2> QED BY <1>0, <1>1, <2>1, ReportsElsewhere
<1>7. CASE UNCHANGED vars
  BY <1>1, <1>7 DEF Reporting
<1> QED BY <1>2, <1>3, <1>4, <1>5, <1>6, <1>7 DEF Next, BrokenPipe, Kill


\* A command that checkcommand accepts.
LEMMA AcceptedCommand ==
  ASSUME TypeOK, NEW c \in Conn, Got(c, Text), NEW rec,
         Answer(rec, Head(inbox[c])) = "ok"
  PROVE  Head(inbox[c]).change \in Asked /\ Verdict(rec, Head(inbox[c]).change) = "ok"
<1>1. Head(inbox[c]) \in Line
  BY GotLine
<1>2. Head(inbox[c]).kind \in {"command", "id"}
  BY DEF Answer
<1>3. Verdict(rec, Head(inbox[c]).change) = "ok"
  BY <1>2 DEF Answer
<1>4. Head(inbox[c]).change \in Asked
  BY <1>1, <1>2, ServerAssumption DEF Line, Oddities, Asked
<1> QED BY <1>3, <1>4

\* A record under a write session is written by that session's process only.
LEMMA OthersCommit ==
  ASSUME SessionInv, NEW s \in Server, NEW t \in Server, s # t,
         run[s].at \in {"commit", "report"}, run[t].at \in {"commit", "report"}
  PROVE  run[s].id # run[t].id
<1>1. /\ run[s].fd \in Conn /\ Home[run[s].fd] = s /\ reqid[run[s].fd] = run[s].id
      /\ run[t].fd \in Conn /\ Home[run[t].fd] = t /\ reqid[run[t].fd] = run[t].id
      /\ run[s].id \in Id /\ s \in WriteServer
  BY DEF SessionInv, RunOK
<1>2. run[s].fd # run[t].fd
  BY <1>1
<1> QED BY <1>1, <1>2, OneWriter

LEMMA UpdateStep ==
  DialogueInv /\ UpdateOK /\ UpdateNotLost /\ [Next]_vars => UpdateOK' /\ UpdateNotLost'
<1> SUFFICES ASSUME DialogueInv, UpdateOK, UpdateNotLost, [Next]_vars
             PROVE  UpdateOK' /\ UpdateNotLost'
  OBVIOUS
<1> DEFINE Same(s) == /\ run'[s] = run[s]
                      /\ run[s].at \in {"commit", "report"} => record'[run[s].id] = record[run[s].id]
           Away(s) == run'[s].at \notin {"commit", "report"}
<1>0. TypeOK /\ RunOK /\ DialogueOK /\ SessionInv
  BY DEF DialogueInv, SessionInv
<1>1. ASSUME \A s \in Server : Same(s) \/ Away(s) PROVE UpdateOK' /\ UpdateNotLost'
  <2> SUFFICES ASSUME NEW s \in Server
               PROVE  /\ run'[s].at = "commit" =>
                           \E change \in Asked : /\ run'[s].input = Applied(record'[run'[s].id], change)
                                                  /\ Verdict(record'[run'[s].id], change) = "ok"
                      /\ run'[s].at = "report" => record'[run'[s].id] = run'[s].input
    BY DEF UpdateOK, UpdateNotLost
  <2>1. CASE Same(s)
    <3>1. CASE run[s].at \in {"commit", "report"}
      <4>1. run'[s] = run[s] /\ record'[run[s].id] = record[run[s].id]
        BY <2>1, <3>1
      <4>2. run[s].at = "commit" =>
              \E change \in Asked : /\ run[s].input = Applied(record[run[s].id], change)
                                     /\ Verdict(record[run[s].id], change) = "ok"
        BY DEF UpdateOK
      <4>3. run[s].at = "report" => record[run[s].id] = run[s].input
        BY DEF UpdateNotLost
      <4> QED BY <4>1, <4>2, <4>3
    <3>2. CASE run[s].at \notin {"commit", "report"}
      BY <2>1, <3>2
    <3> QED BY <3>1, <3>2
  <2>2. CASE Away(s)
    BY <2>2
  <2> QED BY <1>1, <2>1, <2>2
<1> USE DEF vars, locks, conns, net
<1>2. ASSUME NEW c \in Conn, Client(c) PROVE \A s \in Server : Same(s)
  BY <1>2 DEF Client, Accept, Hangup, Reset, Send
<1>3. ASSUME record' = record, NEW t \in Server, NEW a, run' = [run EXCEPT ![t] = a],
             a.at \notin {"commit", "report"}
      PROVE  \A s \in Server : Same(s) \/ Away(s)
  BY <1>0, <1>3 DEF TypeOK
<1>4. ASSUME NEW s \in Server, Terminate(s) PROVE \A t \in Server : Same(t) \/ Away(t)
  BY <1>3, <1>4 DEF Terminate, Down
<1>5. ASSUME NEW c \in Conn, Serve(c), ~ CommandAccepted(c)
      PROVE  \A s \in Server : Same(s) \/ Away(s)
  <2>0. Home[c] \in Server
    BY ServerAssumption
  <2>1. CASE \/ ReadFailed(c) \/ RejectId(c) \/ ReaderEnd(c) \/ WriterEnd(c)
             \/ ReaderLocked(c) \/ WriterLocked(c) \/ ReaderIgnore(c)
    BY <2>1 DEF ReadFailed, RejectId, ReaderEnd, WriterEnd, ReaderLocked, WriterLocked,
                Refuse, ReaderIgnore
  <2>2. CASE ReaderExit(c) \/ CommandRefused(c)
    <3> DEFINE a == [Idle EXCEPT !.at = "release", !.id = reqid[c]]
    <3>1. record' = record /\ run' = [run EXCEPT ![Home[c]] = a] /\ a.at = "release"
      BY <2>2 DEF ReaderExit, CommandRefused, Idle
    <3> HIDE DEF a
    <3> QED BY <1>3, <2>0, <3>1
  <2>3. CASE ReaderAdmit(c) \/ WriterAdmit(c)
    <3> DEFINE a == [Idle EXCEPT !.at = "show", !.fd = c, !.id = Head(inbox[c]).id]
    <3>1. record' = record /\ run' = [run EXCEPT ![Home[c]] = a] /\ a.at = "show"
      BY <2>3 DEF ReaderAdmit, WriterAdmit, Idle
    <3> HIDE DEF a
    <3> QED BY <1>3, <2>0, <3>1
  <2>4. CASE UnendedRead(c)
    BY <1>4, <2>0, <2>4 DEF UnendedRead
  <2> QED BY <1>5, <2>1, <2>2, <2>3, <2>4 DEF Serve
<1>6. ASSUME NEW s \in Server, Continue(s), ~ Commit(s) PROVE \A t \in Server : Same(t) \/ Away(t)
  <2>1. CASE Show(s) \/ Release(s)
    BY <2>1, <1>3 DEF Show, Release, Idle
  <2>2. CASE Report(s)
    <3> DEFINE a == [Idle EXCEPT !.at = "release", !.id = run[s].id]
    <3>1. record' = record /\ run' = [run EXCEPT ![s] = a] /\ a.at = "release"
      BY <2>2 DEF Report, Idle
    <3> HIDE DEF a
    <3> QED BY <1>3, <3>1
  <2> QED BY <1>6, <2>1, <2>2 DEF Continue
<1>7. ASSUME NEW s \in Server, Restart(s) PROVE \A t \in Server : Same(t) \/ Away(t)
  BY <1>3, <1>7 DEF Restart, Idle
<1>8. CASE UNCHANGED vars
  BY <1>1, <1>8
<1>9. ASSUME NEW c \in Conn, CommandAccepted(c) PROVE UpdateOK' /\ UpdateNotLost'
  <2> DEFINE i == reqid[c]
             change == Head(inbox[c]).change
             s == Home[c]
  <2>1. change \in Asked /\ Verdict(record[i], change) = "ok" /\ s \in Server
    BY <1>0, <1>9, AcceptedCommand, ServerAssumption DEF CommandAccepted
  <2>2. /\ record' = record
        /\ run' = [run EXCEPT ![s] = [at |-> "commit", fd |-> c, id |-> i,
                                      input |-> Applied(record[i], change)]]
    BY <1>9 DEF CommandAccepted
  <2> HIDE DEF change, i, s
  <2>3. /\ run'[s] = [at |-> "commit", fd |-> c, id |-> i, input |-> Applied(record[i], change)]
        /\ \A t \in Server : t # s => run'[t] = run[t]
    BY <1>0, <2>1, <2>2 DEF TypeOK
  <2>4. /\ run'[s].at = "commit" /\ run'[s].id = i
        /\ run'[s].input = Applied(record[i], change)
    BY <2>3
  <2> QED BY <2>1, <2>2, <2>3, <2>4 DEF UpdateOK, UpdateNotLost
<1>10. ASSUME NEW s \in Server, Commit(s) PROVE UpdateOK' /\ UpdateNotLost'
  <2>1. /\ run[s].id \in Id /\ run[s].at = "commit"
        /\ record' = [record EXCEPT ![run[s].id] = run[s].input]
        /\ run' = [run EXCEPT ![s] = [run[s] EXCEPT !.at = "report"]]
    BY <1>0, <1>10 DEF Commit, RunOK
  <2>2. /\ run'[s].at = "report" /\ run'[s].id = run[s].id /\ run'[s].input = run[s].input
        /\ \A t \in Server : t # s => run'[t] = run[t]
    BY <1>0, <2>1 DEF TypeOK, Activity
  <2>3. record'[run[s].id] = run[s].input
    BY <1>0, <2>1 DEF TypeOK
  <2>4. ASSUME NEW t \in Server, t # s, run[t].at \in {"commit", "report"}
        PROVE  record'[run[t].id] = record[run[t].id]
    BY <1>0, <2>1, <2>4, OthersCommit DEF TypeOK
  <2> QED BY <2>2, <2>3, <2>4 DEF UpdateOK, UpdateNotLost
<1> QED BY <1>1, <1>2, <1>4, <1>5, <1>6, <1>7, <1>8, <1>9, <1>10 DEF Next, BrokenPipe, Kill

LEMMA RecordInvariant == Spec => []RecordInv
<1>1. Init => RecordInv
  BY InitInv DEF Init, Idle, RecordInv, DialogueInv, AdmittedOK, ShownOK, ResetsOK,
                 DisplayedStateIsCurrent, UpdateOK, UpdateNotLost
<1>2. RecordInv /\ [Next]_vars => RecordInv'
  BY StepInv, AdmittedStep, ShownStep, ResetsStep, DisplayedStep, UpdateStep
     DEF RecordInv, DialogueInv, SessionInv
<1> QED BY <1>1, <1>2, PTL DEF Spec

\* What a client was shown of its record stays true while its session lasts, up
\* to the change it makes itself: Show sends the record under a lock that keeps
\* every writer out, in whatever process.
THEOREM ShownStaysTrue == Spec => []DisplayedStateIsCurrent
<1>1. RecordInv => DisplayedStateIsCurrent
  BY DEF RecordInv
<1> QED BY <1>1, RecordInvariant, PTL

\* checkcommand's read-modify-write is not torn by another process: at its
\* write() the record is the one its change was computed from, and the reply is
\* what it wrote.
THEOREM NoUpdateLost == Spec => []UpdateNotLost
<1>1. RecordInv => UpdateNotLost
  BY DEF RecordInv
<1> QED BY <1>1, RecordInvariant, PTL


-----------------------------------------------------------------------------
(* Nothing is held for nobody, as long as no read() has failed.            *)

Count(s, i) == IF s \in ReadServer THEN readlc[s][i] ELSE samewr[s][i]

\* A counter never exceeds the sessions it counts: together with SessionInv,
\* it is their number.
ExactOK == resets = 0 => \A s \in Server, i \in Id : Count(s, i) <= Held(s, i)

LEMMA CountIsInt ==
  ASSUME TypeOK, NEW s \in Server, NEW i \in Id
  PROVE  Count(s, i) \in Int
BY DEF TypeOK, Count

LEMMA ResetsGrow ==
  [Next]_vars => resets' = resets \/ (resets < MaxResets /\ resets' = resets + 1)
<1> SUFFICES ASSUME [Next]_vars
             PROVE  resets' = resets \/ (resets < MaxResets /\ resets' = resets + 1)
  OBVIOUS
<1> USE DEF vars, locks, conns, net
<1>1. ASSUME NEW c \in Conn, Client(c)
      PROVE  resets' = resets \/ (resets < MaxResets /\ resets' = resets + 1)
  BY <1>1 DEF Client, Accept, Send, Hangup, Reset
<1>2. ASSUME NEW c \in Conn, Serve(c) PROVE resets' = resets
  BY <1>2 DEF Serve, ReadFailed, RejectId, UnendedRead, Terminate, ReaderEnd, ReaderLocked,
              ReaderAdmit, ReaderIgnore, ReaderExit, WriterEnd, WriterLocked, WriterAdmit,
              CommandRefused, CommandAccepted, Refuse, CloseConn, Consume
<1>3. ASSUME NEW s \in Server, Continue(s) \/ Terminate(s) \/ Restart(s)
      PROVE  resets' = resets
  BY <1>3 DEF Continue, Show, Commit, Report, Release, Terminate, Restart, CloseConn
<1> QED BY <1>1, <1>2, <1>3 DEF Next, BrokenPipe, Kill

\* Where no session of the record ends, none is uncounted.
LEMMA HeldNoLess ==
  ASSUME NEW s, NEW i, Sessions(s, i) \subseteq Sessions(s, i)',
         Releasing(s, i) => Releasing(s, i)'
  PROVE  Held(s, i) <= Held(s, i)'
<1>1. Cardinality(Sessions(s, i)) <= Cardinality(Sessions(s, i)')
  BY HeldIsNat, SessionsFinite, FS_Subset
<1>2. Cardinality(Sessions(s, i)) \in Nat /\ Cardinality(Sessions(s, i)') \in Nat
  BY HeldIsNat, SessionsFinite
<1> QED BY <1>1, <1>2 DEF Held

\* One session ends: it is the one that is being released, or one fewer counts.
LEMMA HeldOneLess ==
  ASSUME NEW s, NEW i, NEW c \in Conn, Sessions(s, i) \subseteq Sessions(s, i)' \cup {c}
  PROVE  /\ (Releasing(s, i) => Releasing(s, i)') => Held(s, i) <= Held(s, i)' + 1
         /\ ~ Releasing(s, i) /\ Releasing(s, i)' => Held(s, i) <= Held(s, i)'
<1>1. Cardinality(Sessions(s, i)) <= Cardinality(Sessions(s, i)') + 1
  BY HeldIsNat, OneMore
<1>2. Cardinality(Sessions(s, i)) \in Nat /\ Cardinality(Sessions(s, i)') \in Nat
  BY HeldIsNat, SessionsFinite
<1> QED BY <1>1, <1>2 DEF Held

\* The lock of the session just closed is given up.
LEMMA HeldReleased ==
  ASSUME NEW s, NEW i, Sessions(s, i) \subseteq Sessions(s, i)'
  PROVE  Held(s, i) <= Held(s, i)' + 1
<1>1. Cardinality(Sessions(s, i)) <= Cardinality(Sessions(s, i)')
  BY HeldIsNat, SessionsFinite, FS_Subset
<1>2. Cardinality(Sessions(s, i)) \in Nat /\ Cardinality(Sessions(s, i)') \in Nat
  BY HeldIsNat, SessionsFinite
<1> QED BY <1>1, <1>2 DEF Held

LEMMA HeldOneMore ==
  ASSUME NEW s, NEW i, NEW c \in Sessions(s, i)', c \notin Sessions(s, i),
         Sessions(s, i) \subseteq Sessions(s, i)', ~ Releasing(s, i)
  PROVE  Held(s, i) + 1 <= Held(s, i)'
<1>1. Cardinality(Sessions(s, i)) + 1 <= Cardinality(Sessions(s, i)')
  BY HeldIsNat, OneLess
<1>2. Cardinality(Sessions(s, i)) \in Nat /\ Cardinality(Sessions(s, i)') \in Nat
  BY HeldIsNat, SessionsFinite
<1> QED BY <1>1, <1>2 DEF Held

\* What dropping a session does to the counters.
LEMMA DropCount ==
  ASSUME TypeOK, NEW t \in Server, NEW j \in Id,
         IF t \in ReadServer THEN DropReader(t, j) ELSE DropWriter(t, j),
         NEW s \in Server, NEW i \in Id
  PROVE  IF s = t /\ i = j
         THEN IF s \in ReadServer THEN Count(s, i)' = Count(s, i) - 1 ELSE Count(s, i)' = 0
         ELSE Count(s, i)' = Count(s, i)
<1>1. CASE s = t /\ i = j
  BY <1>1 DEF TypeOK, DropReader, DropWriter, Count
<1>2. CASE ~ (s = t /\ i = j)
  <2>1. readlc'[s][i] = readlc[s][i] /\ samewr'[s][i] = samewr[s][i]
    BY <1>2, DropElsewhere
  <2> QED BY <1>2, <2>1 DEF Count
<1> QED BY <1>1, <1>2

LEMMA ExactStep == DialogueInv /\ ExactOK /\ [Next]_vars => ExactOK'
<1> SUFFICES ASSUME DialogueInv, ExactOK, [Next]_vars, resets' = 0,
                    NEW s \in Server, NEW i \in Id
             PROVE  Count(s, i)' <= Held(s, i)'
  BY DEF ExactOK
<1>0. /\ TypeOK /\ RunOK /\ DialogueOK /\ AdmittedOK /\ ResetsOK
      /\ \A c \in Conn : Home[c] \in Server
  BY ServerAssumption DEF DialogueInv, SessionInv
<1>a. resets = 0
  BY <1>0, ResetsGrow DEF TypeOK
<1>b. Count(s, i) <= Held(s, i) /\ Count(s, i) \in Int
      /\ Held(s, i) \in Nat /\ Held(s, i)' \in Nat
  BY <1>0, <1>a, CountIsInt, HeldIsNat DEF ExactOK
<1>c. /\ s \in ReadServer => s \notin WriteServer
      /\ s \notin ReadServer => s \in WriteServer
  BY ServerAssumption DEF Server
<1> USE DEF vars, locks, conns, net
<1>1. ASSUME Count(s, i)' = Count(s, i), Sessions(s, i) \subseteq Sessions(s, i)',
             Releasing(s, i) => Releasing(s, i)'
      PROVE  Count(s, i)' <= Held(s, i)'
  BY <1>b, <1>1, HeldNoLess
<1>2. ASSUME UNCHANGED <<readlc, samewr>> PROVE Count(s, i)' = Count(s, i)
  BY <1>2 DEF Count
<1>3. ASSUME UNCHANGED <<readlc, samewr, reqid>>, Releasing(s, i) => Releasing(s, i)'
      PROVE  Count(s, i)' <= Held(s, i)'
  BY <1>1, <1>2, <1>3 DEF Sessions
<1>4. ASSUME NEW t \in Server, run[t].at # "release", NEW a, run' = [run EXCEPT ![t] = a]
      PROVE  Releasing(s, i) => Releasing(s, i)'
  BY <1>0, <1>4 DEF TypeOK, Releasing
<1>5. ASSUME NEW c \in Conn, CloseConn(c), reqid[c] = None, UNCHANGED <<readlc, samewr, run>>
      PROVE  Count(s, i)' <= Held(s, i)'
  <2>1. Sessions(s, i)' = Sessions(s, i) \ {c} /\ c \notin Sessions(s, i)
    BY <1>0, <1>5, SessionsOnClose, ServerAssumption DEF Sessions
  <2> QED BY <1>1, <1>2, <1>5, <2>1 DEF Releasing
<1>6. ASSUME NEW t \in Server, Terminate(t) PROVE Count(s, i)' <= Held(s, i)'
  <2>1. CASE s = t
    <3>1. Count(s, i)' = 0
      BY <1>0, <1>6, <2>1 DEF TypeOK, Terminate, Count
    <3> QED BY <1>b, <3>1
  <2>2. CASE s # t
    <3>1. readlc'[s][i] = readlc[s][i] /\ samewr'[s][i] = samewr[s][i] /\ run'[s] = run[s]
      BY <1>0, <1>6, <2>2 DEF TypeOK, Terminate
    <3>2. Sessions(s, i)' = Sessions(s, i)
      BY <1>0, <1>6, <2>2, SessionsOnEnd
    <3> QED BY <1>1, <3>1, <3>2 DEF Count, Releasing
  <2> QED BY <2>1, <2>2
<1>7. ASSUME NEW c \in Conn, Serve(c) PROVE Count(s, i)' <= Held(s, i)'
  <2>0. Home[c] \in Server
    BY <1>0
  <2>1. CASE ReadFailed(c)
    BY <1>0, <1>a, <2>1 DEF ReadFailed, ResetsOK
  <2>2. CASE RejectId(c) \/ ReaderLocked(c) \/ WriterLocked(c)
    <3>1. CloseConn(c) /\ Ready(c) /\ state[c] = "ID" /\ UNCHANGED <<readlc, samewr, run>>
      BY <2>2 DEF RejectId, ReaderLocked, WriterLocked, Refuse, Got
    <3> QED BY <1>0, <1>5, <3>1, NotAdmitted
  <2>3. CASE ReaderEnd(c) \/ WriterEnd(c)
    <3> DEFINE t == Home[c]
               j == reqid[c]
    <3>1. CloseConn(c) /\ Ready(c) /\ run' = run
      BY <2>3 DEF ReaderEnd, WriterEnd, AtEnd, Got
    <3>2. CASE UNCHANGED locks /\ state[c] \in {"HI", "ID"}
      BY <1>0, <1>5, <3>1, <3>2, NotAdmitted
    <3>3. CASE /\ IF t \in ReadServer THEN DropReader(t, j) ELSE DropWriter(t, j)
               /\ state[c] \notin {"HI", "ID"}
      <4>1. j \in Id
        BY <1>0, <3>1, <3>3 DEF TypeOK, DialogueOK, Ready
      <4>2. Sessions(s, i)' = Sessions(s, i) \ {c} /\ (Releasing(s, i) => Releasing(s, i)')
        BY <1>0, <3>1, SessionsOnClose DEF Releasing
      <4>3. CASE s = t /\ i = j
        <5>1. Held(s, i) <= Held(s, i)' + 1
          BY <4>2, HeldOneLess
        <5>2. Count(s, i)' = Count(s, i) - 1 \/ Count(s, i)' = 0
          <6> HIDE DEF t, j
          <6> QED BY <1>0, <2>0, <3>3, <4>1, <4>3, DropCount
        <5> QED BY <1>b, <5>1, <5>2
      <4>4. CASE ~ (s = t /\ i = j)
        <5>1. Count(s, i)' = Count(s, i)
          <6>1. t \in Server
            BY <2>0
          <6> HIDE DEF t, j
          <6> QED BY <1>0, <3>3, <4>1, <4>4, <6>1, DropCount
        <5>2. c \notin Sessions(s, i)
          BY <4>4 DEF Sessions
        <5> QED BY <1>1, <4>2, <5>1, <5>2
      <4> QED BY <4>3, <4>4
    <3>4. \/ UNCHANGED locks /\ state[c] \in {"HI", "ID"}
          \/ /\ IF t \in ReadServer THEN DropReader(t, j) ELSE DropWriter(t, j)
             /\ state[c] \notin {"HI", "ID"}
      BY <2>3, ServerAssumption DEF ReaderEnd, WriterEnd
    <3> QED BY <3>2, <3>3, <3>4
  <2>4. CASE ReaderAdmit(c) \/ WriterAdmit(c)
    <3> DEFINE j == Head(inbox[c]).id
               t == Home[c]
    <3>1. /\ j \in Id /\ Ready(c) /\ state[c] = "ID" /\ run[t] = Idle
          /\ run' = [run EXCEPT ![t] = [Idle EXCEPT !.at = "show", !.fd = c, !.id = j]]
          /\ reqid' = [reqid EXCEPT ![c] = j]
          /\ IF t \in ReadServer
             THEN readlc' = [readlc EXCEPT ![t][j] = @ + 1] /\ samewr' = samewr
             ELSE /\ samewr[t][j] # 1 /\ samewr' = [samewr EXCEPT ![t][j] = 1]
                  /\ readlc' = readlc
      BY <1>0, <2>4, GotLine, ServerAssumption DEF ReaderAdmit, WriterAdmit, Got, Ready
    <3> HIDE DEF j
    <3>2. c \notin Sessions(s, i)
      BY <1>0, <3>1, NotAdmitted, ServerAssumption DEF Sessions
    <3>3. Sessions(s, i) \subseteq Sessions(s, i)' /\ (s = t /\ i = j => c \in Sessions(s, i)')
      BY <1>0, <3>1, <3>2 DEF TypeOK, Sessions
    <3>4. CASE s = t /\ i = j
      <4>1. Count(s, i)' = Count(s, i) + 1
        BY <1>0, <1>c, <2>0, <3>1, <3>4 DEF TypeOK, Count
      <4>2. ~ Releasing(s, i)
        BY <3>1, <3>4 DEF Releasing, Idle
      <4>3. Held(s, i) + 1 <= Held(s, i)'
        BY <3>2, <3>3, <3>4, <4>2, HeldOneMore
      <4> QED BY <1>b, <4>1, <4>3
    <3>5. CASE ~ (s = t /\ i = j)
      <4>1. Count(s, i)' = Count(s, i)
        BY <1>0, <2>0, <3>1, <3>5 DEF TypeOK, Count
      <4>2. run[t].at # "release"
        BY <3>1 DEF Idle
      <4>3. Releasing(s, i) => Releasing(s, i)'
        BY <2>0, <3>1, <4>2, <1>4
      <4> QED BY <1>1, <3>3, <4>1, <4>3
    <3> QED BY <3>4, <3>5
  <2>5. CASE ReaderIgnore(c)
    BY <1>3, <2>5 DEF ReaderIgnore, Releasing
  <2>6. CASE ReaderExit(c) \/ CommandRefused(c)
    <3> DEFINE t == Home[c]
    <3>1. /\ CloseConn(c) /\ UNCHANGED locks /\ run[t] = Idle
          /\ run' = [run EXCEPT ![t] = [Idle EXCEPT !.at = "release", !.id = reqid[c]]]
      BY <2>6 DEF ReaderExit, CommandRefused, Got, Ready
    <3>2. Sessions(s, i)' = Sessions(s, i) \ {c} /\ Count(s, i)' = Count(s, i)
      BY <1>0, <1>2, <3>1, SessionsOnClose
    <3>3. CASE c \in Sessions(s, i)
      <4>1. s = t /\ i = reqid[c]
        BY <3>3 DEF Sessions
      <4>2. ~ Releasing(s, i) /\ Releasing(s, i)'
        BY <1>0, <2>0, <3>1, <4>1 DEF TypeOK, Releasing, Idle
      <4>3. Held(s, i) <= Held(s, i)'
        BY <3>2, <4>2, HeldOneLess
      <4> QED BY <1>b, <3>2, <4>3
    <3>4. CASE c \notin Sessions(s, i)
      <4>1. run[t].at # "release"
        BY <3>1 DEF Idle
      <4>2. Releasing(s, i) => Releasing(s, i)'
        BY <2>0, <3>1, <4>1, <1>4
      <4> QED BY <1>1, <3>2, <3>4, <4>2
    <3> QED BY <3>3, <3>4
  <2>7. CASE CommandAccepted(c)
    <3> DEFINE a == [at |-> "commit", fd |-> c, id |-> reqid[c],
                     input |-> Applied(record[reqid[c]], Head(inbox[c]).change)]
    <3>1. /\ run[Home[c]] = Idle /\ UNCHANGED <<locks, conns>>
          /\ run' = [run EXCEPT ![Home[c]] = a]
      BY <2>7 DEF CommandAccepted, Got, Ready
    <3> HIDE DEF a
    <3>2. run[Home[c]].at # "release"
      BY <3>1 DEF Idle
    <3>3. Releasing(s, i) => Releasing(s, i)'
      BY <2>0, <3>1, <3>2, <1>4
    <3> QED BY <1>3, <3>1, <3>3
  <2>8. CASE UnendedRead(c)
    BY <2>0, <2>8, <1>6 DEF UnendedRead
  <2> QED BY <1>7, <2>1, <2>2, <2>3, <2>4, <2>5, <2>6, <2>7, <2>8 DEF Serve
<1>8. ASSUME NEW t \in Server, Continue(t) PROVE Count(s, i)' <= Held(s, i)'
  <2>1. CASE Show(t)
    <3>1. UNCHANGED <<locks, reqid>> /\ run' = [run EXCEPT ![t] = Idle] /\ run[t].at # "release"
      BY <2>1 DEF Show
    <3> QED BY <1>3, <1>4, <3>1
  <2>2. CASE Commit(t)
    <3>1. /\ UNCHANGED <<locks, reqid>> /\ run[t].at # "release"
          /\ run' = [run EXCEPT ![t] = [run[t] EXCEPT !.at = "report"]]
      BY <2>2 DEF Commit
    <3> QED BY <1>3, <1>4, <3>1
  <2>3. CASE Report(t)
    <3> DEFINE c == run[t].fd
    <3>1. /\ c \in Conn /\ Home[c] = t /\ reqid[c] = run[t].id /\ run[t].at = "report"
          /\ CloseConn(c) /\ UNCHANGED locks
          /\ run' = [run EXCEPT ![t] = [Idle EXCEPT !.at = "release", !.id = run[t].id]]
      BY <1>0, <2>3 DEF Report, RunOK
    <3>2. Sessions(s, i)' = Sessions(s, i) \ {c} /\ Count(s, i)' = Count(s, i)
      BY <1>0, <1>2, <3>1, SessionsOnClose
    <3>3. CASE c \in Sessions(s, i)
      <4>1. s = t /\ i = run[t].id
        BY <3>1, <3>3 DEF Sessions
      <4>2. ~ Releasing(s, i) /\ Releasing(s, i)'
        BY <1>0, <3>1, <4>1 DEF TypeOK, Releasing, Idle
      <4>3. Held(s, i) <= Held(s, i)'
        BY <3>1, <3>2, <4>2, HeldOneLess
      <4> QED BY <1>b, <3>2, <4>3
    <3>4. CASE c \notin Sessions(s, i)
      <4>1. Releasing(s, i) => Releasing(s, i)'
        BY <3>1, <1>4
      <4> QED BY <1>1, <3>2, <3>4, <4>1
    <3> QED BY <3>3, <3>4
  <2>4. CASE Release(t)
    <3> DEFINE j == run[t].id
    <3>1. /\ j \in Id /\ UNCHANGED reqid /\ run' = [run EXCEPT ![t] = Idle]
          /\ run[t].at = "release"
          /\ IF t \in ReadServer THEN DropReader(t, j) ELSE DropWriter(t, j)
      BY <1>0, <2>4 DEF Release, RunOK
    <3>2. Sessions(s, i)' = Sessions(s, i)
      BY <3>1 DEF Sessions
    <3>3. CASE s = t /\ i = j
      <4>1. Count(s, i)' = Count(s, i) - 1 \/ Count(s, i)' = 0
        <5> HIDE DEF j
        <5> QED BY <1>0, <3>1, <3>3, DropCount
      <4> QED BY <1>b, <3>2, <4>1, HeldReleased
    <3>4. CASE ~ (s = t /\ i = j)
      <4>1. Count(s, i)' = Count(s, i)
        <5> HIDE DEF j
        <5> QED BY <1>0, <3>1, <3>4, DropCount
      <4>2. Releasing(s, i) => Releasing(s, i)'
        BY <1>0, <3>1, <3>4 DEF TypeOK, Releasing
      <4> QED BY <1>1, <3>2, <4>1, <4>2
    <3> QED BY <3>3, <3>4
  <2> QED BY <1>8, <2>1, <2>2, <2>3, <2>4 DEF Continue
<1>9. ASSUME NEW t \in Server, Restart(t) PROVE Count(s, i)' <= Held(s, i)'
  <2>1. UNCHANGED <<locks, reqid>> /\ run' = [run EXCEPT ![t] = Idle] /\ run[t].at # "release"
    BY <1>9 DEF Restart, Down
  <2> QED BY <1>3, <1>4, <2>1
<1>10. ASSUME NEW c \in Conn, Client(c) PROVE Count(s, i)' <= Held(s, i)'
  BY <1>3, <1>10 DEF Client, Accept, Hangup, Reset, Send, Releasing
<1>11. CASE UNCHANGED vars
  BY <1>3, <1>11 DEF Releasing
<1> QED BY <1>6, <1>7, <1>8, <1>9, <1>10, <1>11 DEF Next, BrokenPipe, Kill


LEMMA CountInvariant == Spec => [](DialogueInv /\ ExactOK /\ resets <= MaxResets)
<1>1. Init => ExactOK /\ resets <= MaxResets
  <2> SUFFICES ASSUME Init PROVE ExactOK /\ resets <= MaxResets
    OBVIOUS
  <2>1. \A s \in Server, i \in Id : Count(s, i) = 0 /\ Held(s, i) \in Nat
    BY HeldIsNat DEF Init, Count
  <2> QED BY <2>1, ServerAssumption DEF Init, ExactOK
<1>2. DialogueInv /\ resets <= MaxResets /\ [Next]_vars => (resets <= MaxResets)'
  BY ResetsGrow, ServerAssumption DEF DialogueInv, SessionInv, TypeOK
<1> QED BY <1>1, <1>2, ExactStep, DialogueInvariant, PTL DEF Spec

\* A lock has somebody behind it.
LEMMA LockedForSomebody ==
  ASSUME DialogueInv, ExactOK, resets = 0, NEW s \in Server, NEW i \in Id,
         lock[s][i] # "un" \/ (s \in WriteServer /\ samewr[s][i] # 0)
  PROVE  Sessions(s, i) # {} \/ Releasing(s, i)
<1>1. Count(s, i) > 0
  <2>1. CASE s \in ReadServer
    <3>1. Counted(s, i) /\ Count(s, i) = readlc[s][i] /\ readlc[s][i] \in Int
      BY <2>1 DEF DialogueInv, SessionInv, ReadersCounted, TypeOK, Count
    <3>2. lock[s][i] # "un"
      BY <2>1, ServerAssumption
    <3> QED BY <3>1, <3>2, HeldIsNat DEF Counted
  <2>2. CASE s \in WriteServer /\ s \notin ReadServer
    BY <2>2 DEF DialogueInv, SessionInv, WritersMarked, Marked, TypeOK, Count
  <2> QED BY <2>1, <2>2 DEF Server
<1>2. Held(s, i) >= Count(s, i) /\ Count(s, i) \in Int
  BY CountIsInt DEF ExactOK, DialogueInv, SessionInv
<1>3. ASSUME Sessions(s, i) = {}, ~ Releasing(s, i) PROVE FALSE
  BY <1>1, <1>2, <1>3, FS_EmptySet DEF Held
<1> QED BY <1>3

LEMMA BackedFollows ==
  ASSUME DialogueInv, ExactOK, resets = 0
  PROVE  LocksBackedBySessions
<1> SUFFICES ASSUME NEW s \in Server, NEW i \in Id
             PROVE  /\ s \in ReadServer  => /\ readlc[s][i] = Held(s, i)
                                            /\ lock[s][i] = (IF Held(s, i) > 0 THEN "rd" ELSE "un")
                    /\ s \in WriteServer => /\ samewr[s][i] = Held(s, i)
                                            /\ lock[s][i] = (IF Held(s, i) > 0 THEN "wr" ELSE "un")
  BY DEF LocksBackedBySessions
<1>1. Held(s, i) \in Nat /\ Count(s, i) <= Held(s, i)
  BY HeldIsNat DEF ExactOK
<1>2. CASE s \in ReadServer
  <2>1. Counted(s, i) /\ Count(s, i) = readlc[s][i] /\ readlc[s][i] \in Int
    BY <1>2 DEF DialogueInv, SessionInv, ReadersCounted, TypeOK, Count
  <2>2. s \notin WriteServer
    BY <1>2, ServerAssumption
  <2> QED BY <1>1, <2>1, <2>2 DEF Counted
<1>3. CASE s \in WriteServer
  <2>1. Marked(s, i) /\ Count(s, i) = samewr[s][i] /\ samewr[s][i] \in {0, 1} /\ s \notin ReadServer
    BY <1>3, ServerAssumption DEF DialogueInv, SessionInv, WritersMarked, TypeOK, Count
  <2>2. CASE samewr[s][i] = 0
    <3>1. Held(s, i) = 0
      BY <2>1, <2>2, FS_EmptySet DEF Marked, Held
    <3> QED BY <2>1, <2>2, <3>1 DEF Marked
  <2>3. CASE samewr[s][i] = 1
    <3>1. Held(s, i) <= 1
      <4>1. CASE Sessions(s, i) = {}
        BY <4>1, FS_EmptySet DEF Held
      <4>2. ASSUME NEW c \in Sessions(s, i) PROVE Held(s, i) <= 1
        <5>1. Sessions(s, i) = {c} /\ ~ Releasing(s, i)
          BY <2>1, <4>2 DEF Marked
        <5>2. Cardinality(Sessions(s, i)) = 1
          BY <5>1, FS_Singleton
        <5> QED BY <5>1, <5>2 DEF Held
      <4> QED BY <4>1, <4>2
    <3>2. Held(s, i) = 1
      BY <1>1, <2>1, <2>3, <3>1
    <3> QED BY <2>1, <2>3, <3>2 DEF Marked
  <2> QED BY <2>1, <2>2, <2>3
<1> QED BY <1>2, <1>3

\* As long as no read() has failed, every lock and counter is that of a session
\* there is or of one just closed: whichever way sessions end, by Exit, by the
\* end of the connection at any point, by a refused or an accepted command, or
\* with their process, nothing stays locked for nobody.  (ReadFailed is the one
\* way that leaves a lock behind: the run leak shows it.)
THEOREM NothingLeftBehind == Spec => [](resets = 0 => LocksBackedBySessions)
<1>1. DialogueInv /\ ExactOK => (resets = 0 => LocksBackedBySessions)
  BY BackedFollows
<1> QED BY <1>1, CountInvariant, PTL

\* If connections never break, a client is told "Locked" only while somebody
\* else's session, or the end of one, keeps it from the record, and a reader
\* only on account of a writer.
THEOREM RefusedForAReason == MaxResets = 0 => (Spec => RefusedOnlyWhenInUse)
<1> SUFFICES ASSUME MaxResets = 0 PROVE Spec => RefusedOnlyWhenInUse
  OBVIOUS
<1> DEFINE A == \A c \in Conn :
                  ReaderLocked(c) \/ WriterLocked(c) =>
                    \E s \in Server :
                      /\ Sessions(s, Head(inbox[c]).id) # {} \/ Releasing(s, Head(inbox[c]).id)
                      /\ Home[c] \in ReadServer => s \in WriteServer
<1>1. DialogueInv /\ ExactOK /\ resets <= MaxResets /\ [Next]_vars => [A]_vars
  <2> SUFFICES ASSUME DialogueInv, ExactOK, resets <= MaxResets, NEW c \in Conn,
                      ReaderLocked(c) \/ WriterLocked(c)
               PROVE  \E s \in Server :
                        /\ Sessions(s, Head(inbox[c]).id) # {} \/ Releasing(s, Head(inbox[c]).id)
                        /\ Home[c] \in ReadServer => s \in WriteServer
    OBVIOUS
  <2> DEFINE i == Head(inbox[c]).id
             t == Home[c]
  <2>1. TypeOK /\ resets = 0 /\ t \in Server
    BY ServerAssumption DEF DialogueInv, SessionInv, TypeOK
  <2>2. i \in Id
    BY <2>1, GotLine DEF ReaderLocked, WriterLocked, Got
  <2>3. CASE ReaderLocked(c)
    <3>1. PICK s \in Server : lock[s][i] = "wr"
      BY <2>3 DEF ReaderLocked, ReadLockable
    <3> HIDE DEF i
    <3>2. s \in WriteServer
      BY <2>2, <3>1 DEF DialogueInv, SessionInv, ReadersCounted, Counted, Server
    <3>3. Sessions(s, i) # {} \/ Releasing(s, i)
      BY <2>1, <2>2, <3>1, LockedForSomebody
    <3> QED BY <3>2, <3>3 DEF i
  <2>4. CASE WriterLocked(c)
    <3>1. t \in WriteServer /\ t \notin ReadServer
      BY <2>4, ServerAssumption DEF WriterLocked
    <3>2. \E s \in Server : lock[s][i] # "un" \/ (s \in WriteServer /\ samewr[s][i] # 0)
      BY <2>1, <2>4, <3>1 DEF WriterLocked, WriteLockable
    <3>3. PICK s \in Server : lock[s][i] # "un" \/ (s \in WriteServer /\ samewr[s][i] # 0)
      BY <3>2
    <3> HIDE DEF i
    <3>4. Sessions(s, i) # {} \/ Releasing(s, i)
      BY <2>1, <2>2, <3>3, LockedForSomebody
    <3> QED BY <3>1, <3>4 DEF i
  <2> QED BY <2>3, <2>4
<1>2. Spec => [][A]_vars
  BY <1>1, CountInvariant, PTL DEF Spec
<1> QED BY <1>2 DEF RefusedOnlyWhenInUse


-----------------------------------------------------------------------------
(* The refinement: the processes are a BookingService.                     *)

\* Nobody asks for amounts that overflow an int when they are added to what a
\* record may hold; the records are within the limits at the start.
NoOverflow ==
  /\ \A change \in Asked :
       /\ change.food    <= IntMax - MaxTotal
       /\ change.concert <= IntMax - MaxTotal
       /\ change.elecs   <= IntMax - MaxTotal
       /\ Total(change) \in - IntMax - 1 .. IntMax - MaxTotal
  /\ \A i \in Id : WithinLimits(FirstRecord[i])

LEMMA WrapIsIdentity == ASSUME NEW n \in CInt PROVE Wrap(n) = n
<1> DEFINE m == 2 * IntMax + 2
           a == n + IntMax + 1
<1>1. m \in Nat /\ m > 0 /\ a \in Nat /\ a < m /\ n \in Int /\ IntMax \in Nat
  BY RulesAssumption DEF CInt
<1>2. a % m = a
  <2> HIDE DEF m, a
  <2> QED BY <1>1, SMT
<1>3. Wrap(n) = a - (IntMax + 1)
  BY <1>2 DEF Wrap
<1> QED BY <1>1, <1>3

\* What checkcommand accepts: its three tests.
LEMMA VerdictTests ==
  ASSUME NEW rec, NEW change, Verdict(rec, change) = "ok"
  PROVE  /\ ~ (Wrap(Total(rec) + Total(change)) > MaxTotal)
         /\ Wrap(Total(rec) + Total(change)) <= MaxTotal => NoNegative(Applied(rec, change))
BY DEF Verdict

\* Without overflow an accepted command is a change the service allows.
LEMMA AcceptedIsAllowed ==
  ASSUME NoOverflow, NEW rec \in Triple, WithinLimits(rec), NEW change \in Asked,
         Verdict(rec, change) = "ok"
  PROVE  /\ Applied(rec, change) = Service!Sum(rec, change)
         /\ Service!InLimits(Applied(rec, change)) /\ WithinLimits(Applied(rec, change))
<1> DEFINE f == rec.food + change.food
           c == rec.concert + change.concert
           e == rec.elecs + change.elecs
<1>1. /\ rec.food \in Int /\ rec.concert \in Int /\ rec.elecs \in Int
      /\ change.food \in CInt /\ change.concert \in CInt /\ change.elecs \in CInt
      /\ IntMax \in Nat /\ MaxTotal \in 0 .. IntMax
  BY RulesAssumption, AskedAreTriples DEF Triple, CInt
<1>2. /\ rec.food >= 0 /\ rec.concert >= 0 /\ rec.elecs >= 0
      /\ rec.food + rec.concert + rec.elecs <= MaxTotal
  BY DEF WithinLimits, NoNegative, Total
<1>3. f \in CInt /\ c \in CInt /\ e \in CInt
  BY <1>1, <1>2 DEF CInt, NoOverflow
<1>4. Wrap(f) = f /\ Wrap(c) = c /\ Wrap(e) = e
  BY <1>3, WrapIsIdentity
<1>5. Applied(rec, change) = [food |-> f, concert |-> c, elecs |-> e]
  BY <1>4 DEF Applied
<1>6. Total(rec) + Total(change) \in CInt
  BY <1>1, <1>2 DEF CInt, NoOverflow, Total
<1>7. Wrap(Total(rec) + Total(change)) = f + c + e
  <2>1. Total(rec) + Total(change) = f + c + e
    BY <1>1 DEF Total, CInt
  <2> QED BY <1>6, <2>1, WrapIsIdentity
<1>8. f + c + e <= MaxTotal
  <2>1. ~ (f + c + e > MaxTotal)
    BY <1>7, VerdictTests
  <2> QED BY <1>1, <1>3, <2>1 DEF CInt
<1>9. f >= 0 /\ c >= 0 /\ e >= 0
  BY <1>5, <1>7, <1>8, VerdictTests DEF NoNegative
<1> HIDE DEF f, c, e
<1>10. WithinLimits([food |-> f, concert |-> c, elecs |-> e])
  BY <1>8, <1>9 DEF WithinLimits, NoNegative, Total
<1>11. Service!InLimits([food |-> f, concert |-> c, elecs |-> e])
  BY <1>8, <1>9 DEF Service!InLimits
<1> QED BY <1>5, <1>10, <1>11 DEF Service!Sum, f, c, e

\* The records change by a commit only.
LEMMA RecordSteps ==
  ASSUME [Next]_vars
  PROVE  record' = record \/ \E s \in Server : Commit(s)
<1> USE DEF vars, locks, conns, net
<1>1. ASSUME NEW c \in Conn, Client(c) PROVE record' = record
  BY <1>1 DEF Client, Accept, Send, Hangup, Reset
<1>2. ASSUME NEW c \in Conn, Serve(c) PROVE record' = record
  BY <1>2 DEF Serve, ReadFailed, RejectId, UnendedRead, Terminate, ReaderEnd, ReaderLocked,
              ReaderAdmit, ReaderIgnore, ReaderExit, WriterEnd, WriterLocked, WriterAdmit,
              CommandRefused, CommandAccepted, Refuse
<1>3. ASSUME NEW s \in Server, Show(s) \/ Report(s) \/ Release(s) \/ Terminate(s) \/ Restart(s)
      PROVE  record' = record
  BY <1>3 DEF Show, Report, Release, Terminate, Restart
<1> QED BY <1>1, <1>2, <1>3 DEF Next, Continue, BrokenPipe, Kill

\* What a commit writes.
LEMMA CommitWrites ==
  ASSUME RecordInv, RecordWithinLimits, NoOverflow, NEW s \in Server, Commit(s)
  PROVE  \E change \in Asked :
           /\ record' = [record EXCEPT ![run[s].id] = Applied(record[run[s].id], change)]
           /\ Applied(record[run[s].id], change) = Service!Sum(record[run[s].id], change)
           /\ Service!InLimits(Applied(record[run[s].id], change))
           /\ WithinLimits(Applied(record[run[s].id], change))
<1>1. /\ run[s].id \in Id /\ run[s].at = "commit" /\ record[run[s].id] \in Triple
      /\ WithinLimits(record[run[s].id])
  BY DEF RecordInv, DialogueInv, SessionInv, TypeOK, RunOK, Commit, RecordWithinLimits
<1>2. PICK change \in Asked : /\ run[s].input = Applied(record[run[s].id], change)
                               /\ Verdict(record[run[s].id], change) = "ok"
  BY <1>1 DEF RecordInv, UpdateOK
<1>3. record' = [record EXCEPT ![run[s].id] = Applied(record[run[s].id], change)]
  BY <1>2 DEF Commit
<1>4. /\ Applied(record[run[s].id], change) = Service!Sum(record[run[s].id], change)
      /\ Service!InLimits(Applied(record[run[s].id], change))
      /\ WithinLimits(Applied(record[run[s].id], change))
  BY <1>1, <1>2, AcceptedIsAllowed
<1> QED BY <1>3, <1>4

\* Without overflow no record ever leaves the limits, whoever changes it when.
THEOREM RecordsStayWithinLimits == NoOverflow => (Spec => []RecordWithinLimits)
<1> SUFFICES ASSUME NoOverflow PROVE Spec => []RecordWithinLimits
  OBVIOUS
<1>1. Init => RecordWithinLimits
  BY DEF Init, NoOverflow, RecordWithinLimits
<1>2. RecordInv /\ RecordWithinLimits /\ [Next]_vars => RecordWithinLimits'
  <2> SUFFICES ASSUME RecordInv, RecordWithinLimits, [Next]_vars, NEW i \in Id
               PROVE  WithinLimits(record'[i])
    BY DEF RecordWithinLimits
  <2>1. CASE record' = record
    BY <2>1 DEF RecordWithinLimits
  <2>2. ASSUME NEW s \in Server, Commit(s) PROVE WithinLimits(record'[i])
    BY <2>2, CommitWrites DEF RecordWithinLimits, RecordInv, DialogueInv, SessionInv, TypeOK
  <2> QED BY <2>1, <2>2, RecordSteps
<1> QED BY <1>1, <1>2, RecordInvariant, PTL DEF Spec


\* The sessions of a record as the service sees them.
ReadersOf == [i \in Id |-> {c \in Conn : reqid[c] = i /\ Home[c] \in ReadServer}]
WritersOf == [i \in Id |-> {c \in Conn : reqid[c] = i /\ Home[c] \in WriteServer}]

\* The start of the service, its stuttering, and the end of sessions in these terms.
LEMMA ServiceSteps ==
  /\ Service!Init <=> record = FirstRecord /\ ReadersOf = [i \in Id |-> {}]
                                           /\ WritersOf = [i \in Id |-> {}]
  /\ UNCHANGED Service!vars <=> UNCHANGED <<record, ReadersOf, WritersOf>>
  /\ \A gone : Service!Leave(gone) <=>
       /\ ReadersOf' = [i \in Id |-> ReadersOf[i] \ gone]
       /\ WritersOf' = [i \in Id |-> WritersOf[i] \ gone]
       /\ UNCHANGED record
BY DEF Service!Init, Service!vars, Service!Leave, ReadersOf, WritersOf

\* Nobody comes or goes.
LEMMA ServiceStutters ==
  ASSUME UNCHANGED <<record, reqid>> PROVE UNCHANGED Service!vars
BY ServiceSteps DEF ReadersOf, WritersOf

\* A connection closes: its session, if it has one, leaves.
LEMMA CloseIsLeave ==
  ASSUME TypeOK, NEW c \in Conn, CloseConn(c), record' = record
  PROVE  Service!Leave({c})
<1>1. \A i \in Id : /\ ReadersOf'[i] = ReadersOf[i] \ {c}
                    /\ WritersOf'[i] = WritersOf[i] \ {c}
  BY ServerAssumption DEF CloseConn, TypeOK, ReadersOf, WritersOf
<1>2. ReadersOf' = [i \in Id |-> ReadersOf[i] \ {c}] /\ WritersOf' = [i \in Id |-> WritersOf[i] \ {c}]
  BY <1>1 DEF ReadersOf, WritersOf
<1> QED BY <1>2, ServiceSteps

\* A process dies: its sessions leave together.
LEMMA EndIsLeave ==
  ASSUME TypeOK, NEW s \in Server, Terminate(s)
  PROVE  Service!Leave({c \in Conn : Home[c] = s})
<1> DEFINE gone == {c \in Conn : Home[c] = s}
<1>1. \A c \in Conn : reqid'[c] = IF c \in gone THEN None ELSE reqid[c]
  BY DEF Terminate
<1>2. \A i \in Id : /\ ReadersOf'[i] = ReadersOf[i] \ gone
                    /\ WritersOf'[i] = WritersOf[i] \ gone
  <2> HIDE DEF gone
  <2> QED BY <1>1, ServerAssumption DEF ReadersOf, WritersOf
<1>3. record' = record
  BY DEF Terminate
<1>4. ReadersOf' = [i \in Id |-> ReadersOf[i] \ gone] /\ WritersOf' = [i \in Id |-> WritersOf[i] \ gone]
  BY <1>2 DEF ReadersOf, WritersOf
<1> QED BY <1>3, <1>4, ServiceSteps

\* An admission is an entry: the others' sessions on the record allow it.
LEMMA AdmitIsEnter ==
  ASSUME RecordInv, SessionInv', NEW c \in Conn, ReaderAdmit(c) \/ WriterAdmit(c)
  PROVE  \E i \in Id : Service!EnterRead(c, i) \/ Service!EnterWrite(c, i)
<1>1. TypeOK /\ AdmittedOK /\ \A d \in Conn : Home[d] \in Server
  BY ServerAssumption DEF RecordInv, DialogueInv, SessionInv
<1>2. PICK h \in Id : /\ Ready(c) /\ state[c] = "ID" /\ record' = record
                     /\ reqid' = [reqid EXCEPT ![c] = h]
  <2>1. /\ Head(inbox[c]).id \in Id /\ Ready(c) /\ state[c] = "ID" /\ record' = record
        /\ reqid' = [reqid EXCEPT ![c] = Head(inbox[c]).id]
    BY <1>1, GotLine DEF ReaderAdmit, WriterAdmit, Got
  <2> QED BY <2>1
<1>3. reqid[c] = None
  BY <1>1, <1>2, NotAdmitted
<1>4. reqid'[c] = h /\ \A d \in Conn : d # c => reqid'[d] = reqid[d]
  BY <1>1, <1>2 DEF TypeOK
<1>5. MutualExclusion'
  BY ExclusionFollows, PTL
<1>6. ASSUME NEW d \in Conn, reqid[d] = h, Home[c] \in WriteServer \/ Home[d] \in WriteServer
      PROVE  FALSE
  <2>1. d # c /\ reqid'[d] = reqid'[c] /\ reqid'[c] # None
    BY <1>2, <1>3, <1>4, <1>6, ServerAssumption
  <2> QED BY <1>5, <1>6, <2>1 DEF MutualExclusion
<1>7. WritersOf[h] = {}
  BY <1>2, <1>6 DEF WritersOf
<1>8. CASE ReaderAdmit(c)
  <2>1. Home[c] \in ReadServer /\ Home[c] \notin WriteServer
    BY <1>8, ServerAssumption DEF ReaderAdmit
  <2>2. \A j \in Id : /\ ReadersOf'[j] = IF j = h THEN ReadersOf[j] \cup {c} ELSE ReadersOf[j]
                      /\ WritersOf'[j] = WritersOf[j]
    BY <1>3, <1>4, <2>1, ServerAssumption DEF ReadersOf, WritersOf
  <2>3. ReadersOf' = [ReadersOf EXCEPT ![h] = ReadersOf[h] \cup {c}] /\ WritersOf' = WritersOf
    BY <2>2 DEF ReadersOf, WritersOf
  <2>4. Service!EnterRead(c, h)
    BY <1>2, <1>7, <2>3 DEF Service!EnterRead, ReadersOf, WritersOf
  <2> QED BY <2>4
<1>9. CASE WriterAdmit(c)
  <2>1. Home[c] \in WriteServer /\ Home[c] \notin ReadServer
    BY <1>9, ServerAssumption DEF WriterAdmit
  <2>2. ReadersOf[h] = {}
    BY <1>2, <1>6, <2>1 DEF ReadersOf
  <2>3. \A j \in Id : /\ WritersOf'[j] = IF j = h THEN WritersOf[j] \cup {c} ELSE WritersOf[j]
                      /\ ReadersOf'[j] = ReadersOf[j]
    BY <1>3, <1>4, <2>1, ServerAssumption DEF ReadersOf, WritersOf
  <2>4. WritersOf' = [WritersOf EXCEPT ![h] = {c}] /\ ReadersOf' = ReadersOf
    BY <1>7, <2>3 DEF ReadersOf, WritersOf
  <2>5. Service!EnterWrite(c, h)
    BY <1>2, <1>7, <2>2, <2>4 DEF Service!EnterWrite, ReadersOf, WritersOf
  <2> QED BY <2>5
<1> QED BY <1>8, <1>9

\* A commit is a booking by the session the process writes for.
LEMMA CommitIsBook ==
  ASSUME RecordInv, RecordWithinLimits, NoOverflow, NEW s \in Server, Commit(s)
  PROVE  \E c \in Conn, i \in Id, change \in Asked : Service!Book(c, i, change)
<1> DEFINE c == run[s].fd
           i == run[s].id
<1>1. c \in Conn /\ i \in Id /\ reqid[c] = i /\ Home[c] = s /\ s \in WriteServer
  BY DEF RecordInv, DialogueInv, SessionInv, RunOK, Commit
<1>2. PICK change \in Asked :
        /\ record' = [record EXCEPT ![i] = Applied(record[i], change)]
        /\ Applied(record[i], change) = Service!Sum(record[i], change)
        /\ Service!InLimits(Applied(record[i], change))
  BY CommitWrites
<1>3. UNCHANGED reqid
  BY DEF Commit, conns
<1> HIDE DEF c, i
<1>4. c \in WritersOf[i] /\ UNCHANGED <<ReadersOf, WritersOf>>
  BY <1>1, <1>3 DEF ReadersOf, WritersOf
<1>5. Service!Book(c, i, change)
  BY <1>2, <1>4 DEF Service!Book, ReadersOf, WritersOf
<1> QED BY <1>1, <1>5

LEMMA ServiceStep ==
  ASSUME RecordInv, RecordWithinLimits, SessionInv', NoOverflow, [Next]_vars
  PROVE  [Service!Next]_(Service!vars)
<1> USE DEF vars, locks, conns, net
<1>0. TypeOK /\ RunOK /\ \A c \in Conn : Home[c] \in Server
  BY ServerAssumption DEF RecordInv, DialogueInv, SessionInv
<1>1. ASSUME UNCHANGED <<record, reqid>> PROVE UNCHANGED Service!vars
  BY <1>1, ServiceStutters
<1>2. ASSUME NEW c \in Conn, CloseConn(c), record' = record PROVE Service!Next
  <2>1. Service!Leave({c}) /\ {c} \in SUBSET Conn
    BY <1>0, <1>2, CloseIsLeave
  <2> QED BY <2>1 DEF Service!Next
<1>3. ASSUME NEW s \in Server, Terminate(s) PROVE Service!Next
  <2>1. /\ Service!Leave({c \in Conn : Home[c] = s})
        /\ {c \in Conn : Home[c] = s} \in SUBSET Conn
    BY <1>0, <1>3, EndIsLeave
  <2> QED BY <2>1 DEF Service!Next
<1>4. ASSUME NEW c \in Conn, Client(c) PROVE UNCHANGED Service!vars
  BY <1>1, <1>4 DEF Client, Accept, Hangup, Reset, Send
<1>5. ASSUME NEW c \in Conn, Serve(c) PROVE Service!Next \/ UNCHANGED Service!vars
  <2>1. CASE \/ ReadFailed(c) \/ RejectId(c) \/ ReaderEnd(c) \/ WriterEnd(c)
             \/ ReaderLocked(c) \/ WriterLocked(c) \/ ReaderExit(c) \/ CommandRefused(c)
    BY <2>1, <1>2 DEF ReadFailed, RejectId, ReaderEnd, WriterEnd,
                      ReaderLocked, WriterLocked, Refuse, ReaderExit, CommandRefused
  <2>2. CASE ReaderAdmit(c) \/ WriterAdmit(c)
    BY <2>2, AdmitIsEnter DEF Service!Next
  <2>3. CASE ReaderIgnore(c) \/ CommandAccepted(c)
    BY <2>3, <1>1 DEF ReaderIgnore, CommandAccepted
  <2>4. CASE UnendedRead(c)
    BY <1>0, <1>3, <2>4 DEF UnendedRead
  <2> QED BY <1>5, <2>1, <2>2, <2>3, <2>4 DEF Serve
<1>6. ASSUME NEW s \in Server, Continue(s) PROVE Service!Next \/ UNCHANGED Service!vars
  <2>1. CASE Show(s) \/ Release(s)
    BY <2>1, <1>1 DEF Show, Release
  <2>2. CASE Commit(s)
    BY <2>2, CommitIsBook DEF Service!Next
  <2>3. CASE Report(s)
    BY <1>0, <2>3, <1>2 DEF Report, RunOK
  <2> QED BY <1>6, <2>1, <2>2, <2>3 DEF Continue
<1>7. ASSUME NEW s \in Server, Restart(s) PROVE UNCHANGED Service!vars
  BY <1>1, <1>7 DEF Restart
<1>8. CASE UNCHANGED vars
  BY <1>1, <1>8
<1> QED BY <1>3, <1>4, <1>5, <1>6, <1>7, <1>8 DEF Next, BrokenPipe, Kill

\* However many servers, connections and failures there are, the system behaves
\* as one service: sessions enter a record only where they may, every change is
\* one booking, in one piece, by the one write session, within the limits, and
\* whatever ends a session only lets it leave.
THEOREM ServiceImplemented == NoOverflow => (Spec => ImplementsService)
<1> SUFFICES ASSUME NoOverflow PROVE Spec => ImplementsService
  OBVIOUS
<1>1. Init => Service!Init
  <2> SUFFICES ASSUME Init PROVE Service!Init
    OBVIOUS
  <2>1. ReadersOf = [i \in Id |-> {}] /\ WritersOf = [i \in Id |-> {}]
    BY ServerAssumption DEF Init, ReadersOf, WritersOf
  <2> QED BY <2>1, ServiceSteps DEF Init
<1>2. RecordInv /\ RecordWithinLimits /\ SessionInv' /\ [Next]_vars => [Service!Next]_(Service!vars)
  BY ServiceStep
<1>3. Spec => []RecordWithinLimits
  BY RecordsStayWithinLimits
<1> QED BY <1>1, <1>2, <1>3, RecordInvariant, SessionsAreLocked, PTL
        DEF Spec, ImplementsService, Service!Spec
=============================================================================
