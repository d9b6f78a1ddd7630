---------------------------- MODULE BookingServer ----------------------------
(***************************************************************************)
(* hw1_csiebooking-lala-ju/server.c: any number of read_server and         *)
(* write_server processes, built from the one source file, that serve      *)
(* clients over TCP and share the bookings file.                           *)
(*                                                                         *)
(* Each process is one thread around select().  Steps of one process are   *)
(* cut where another process can see the difference: at the fcntl calls,   *)
(* the accesses to the file, and the close() that tells a client that its  *)
(* session is over.  Records are excluded between processes by fcntl locks *)
(* (which one process never holds twice) and, between the sessions of one  *)
(* process, by the counters readlc and samewr.                             *)
(***************************************************************************)
EXTENDS BookingRules, Sequences, FiniteSets

CONSTANTS
  ReadServer,   \* processes compiled with -D READ_SERVER
  WriteServer,  \* processes compiled with -D WRITE_SERVER
  Conn,         \* connection slots: the file descriptors of all processes
  Home,         \* Home[c]: the process whose descriptor c is
  Id,           \* users, each with one record in the file
  FirstRecord,  \* content of the file at the start
  Change,       \* changes a client's command may ask for
  IdNumber,     \* IdNumber[i]: the id of user i as a number
  Oddity,       \* what else clients may send, a subset of the kinds below
  MaxPipeline,  \* bound: lines a client has under way at once
  MaxResets,    \* bound: connections that end in a failing read()
  None          \* no value

Server == ReadServer \cup WriteServer
Oddities == {"exit", "junk", "fragment", "interrupt"}

ASSUME ServerAssumption ==
  /\ ReadServer \cap WriteServer = {}
  /\ Home \in [Conn -> Server]
  /\ FirstRecord \in [Id -> Triple]
  /\ Change \subseteq Triple
  /\ IdNumber \in [Id -> CInt]
  /\ Oddity \subseteq Oddities
  /\ MaxPipeline \in Nat \ {0} /\ MaxResets \in Nat
  /\ None \notin Id /\ None \notin Conn /\ None \notin Triple /\ None \notin Change

ASSUME ConnectionsAssumption == IsFiniteSet(Conn)

(***************************************************************************)
(* What a client sends.  "id": a valid user id on a line, which as a       *)
(* command is one number, an amount of food.  "command": any other line    *)
(* checkcommand can parse.  "exit": the line Exit.  "junk": any other      *)
(* line.  "fragment": bytes without a line end.  "interrupt": telnet's     *)
(* Ctrl-C sequence.                                                        *)
(***************************************************************************)
OnlyFood(n) == [food |-> n, concert |-> 0, elecs |-> 0]

Line == {[kind |-> "id", id |-> i, change |-> OnlyFood(IdNumber[i])] : i \in Id}
   \cup [kind : {"command"}, id : {None}, change : Change]
   \cup [kind : Oddity, id : {None}, change : {None}]

\* All that checkcommand may be asked for.
Asked == Change \cup {OnlyFood(IdNumber[i]) : i \in Id}

Unended == {"fragment", "interrupt"}

VARIABLES
  record,   \* the bookings file
  lock,     \* lock[s][i]: kernel lock of process s on record i
  readlc,   \* readlc[s][i]: sessions a read server counts on record i
  samewr,   \* samewr[s][i]: 1 while a write server has a session on record i
  run,      \* run[s]: where process s is, and the locals it holds there
  open,     \* descriptors in the master set of their process
  state,    \* state[c] of each descriptor
  reqid,    \* requestP[c].id
  shown,    \* the bookings the client of c was last sent in this session
  inbox,    \* what has arrived for c and is not read yet
  peer,     \* the far end of c: none, live, closed (EOF) or reset (error)
  resets    \* connections reset so far

locks == <<lock, readlc, samewr>>
conns == <<open, state, reqid, shown>>
net   == <<inbox, peer, resets>>
vars  == <<record, locks, run, conns, net>>

Idle == [at |-> "select", fd |-> None, id |-> None, input |-> None]
Down == [at |-> "down",   fd |-> None, id |-> None, input |-> None]

\* What a process is doing: waiting in select, sending a record just locked,
\* about to write one, about to report it, about to unlock it.
Activity == [at : {"down", "select", "show", "commit", "report", "release"},
             fd : Conn \cup {None}, id : Id \cup {None}, input : Triple \cup {None}]

TypeOK ==
  /\ record \in [Id -> Triple]
  /\ lock \in [Server -> [Id -> {"un", "rd", "wr"}]]
  /\ readlc \in [Server -> [Id -> Int]]
  /\ samewr \in [Server -> [Id -> {0, 1}]]
  /\ run \in [Server -> Activity]
  /\ open \in SUBSET Conn
  /\ state \in [Conn -> {"HI", "ID", "EXIT", "COMMAND"}]
  /\ reqid \in [Conn -> Id \cup {None}]
  /\ shown \in [Conn -> Triple \cup {None}]
  /\ inbox \in [Conn -> Seq(Line)]
  /\ peer \in [Conn -> {"none", "live", "closed", "reset"}]
  /\ resets \in Nat

Init ==
  /\ record = FirstRecord
  /\ lock = [s \in Server |-> [i \in Id |-> "un"]]
  /\ readlc = [s \in Server |-> [i \in Id |-> 0]]
  /\ samewr = [s \in Server |-> [i \in Id |-> 0]]
  /\ run = [s \in Server |-> Idle]
  /\ open = {}
  /\ state = [c \in Conn |-> "HI"]
  /\ reqid = [c \in Conn |-> None]
  /\ shown = [c \in Conn |-> None]
  /\ inbox = [c \in Conn |-> <<>>]
  /\ peer = [c \in Conn |-> "none"]
  /\ resets = 0

-----------------------------------------------------------------------------
(* The kernel: fcntl(F_SETLK) on one record. *)

\* Mutant of WriteLockable: read locks do not count.
WriteLockableOverReaders(s, i) == \A t \in Server \ {s} : lock[t][i] # "wr"

ReadLockable(s, i)  == \A t \in Server \ {s} : lock[t][i] # "wr"
WriteLockable(s, i) == \A t \in Server \ {s} : lock[t][i] = "un"
SetLock(s, i, l)    == lock' = [lock EXCEPT ![s][i] = l]

-----------------------------------------------------------------------------
(* The clients. *)

Accept(c) ==
  /\ run[Home[c]] = Idle /\ c \notin open
  /\ open' = open \cup {c}
  /\ state' = [state EXCEPT ![c] = "ID"]
  /\ peer' = [peer EXCEPT ![c] = "live"]
  /\ UNCHANGED <<record, locks, run, reqid, shown, inbox, resets>>

\* Nothing follows an unended piece before the server has read it: had the
\* rest arrived in time, the two together would be the line.
Send(c, line) ==
  /\ peer[c] = "live" /\ Len(inbox[c]) < MaxPipeline
  /\ \A k \in DOMAIN inbox[c] : inbox[c][k].kind \notin Unended
  /\ inbox' = [inbox EXCEPT ![c] = Append(@, line)]
  /\ UNCHANGED <<record, locks, run, conns, peer, resets>>

Hangup(c) ==
  /\ peer[c] = "live"
  /\ peer' = [peer EXCEPT ![c] = "closed"]
  /\ UNCHANGED <<record, locks, run, conns, inbox, resets>>

Reset(c) ==
  /\ peer[c] = "live" /\ resets < MaxResets
  /\ peer' = [peer EXCEPT ![c] = "reset"]
  /\ resets' = resets + 1
  /\ UNCHANGED <<record, locks, run, conns, inbox>>

-----------------------------------------------------------------------------
(* handle_read: one read() of everything that has arrived, of which only   *)
(* the first line is kept.                                                 *)

Ready(c) == c \in open /\ run[Home[c]] = Idle
Got(c, kinds) == Ready(c) /\ inbox[c] # <<>> /\ Head(inbox[c]).kind \in kinds
AtEnd(c) == \/ Ready(c) /\ inbox[c] = <<>> /\ peer[c] = "closed"
            \/ Got(c, {"interrupt"})
Text == {"id", "command", "exit", "junk"}

\* close(), free_request(), FD_CLR(): the descriptor is as before its accept,
\* except for state[c].
CloseConn(c) ==
  /\ open' = open \ {c}
  /\ reqid' = [reqid EXCEPT ![c] = None]
  /\ shown' = [shown EXCEPT ![c] = None]
  /\ inbox' = [inbox EXCEPT ![c] = <<>>]
  /\ peer' = [peer EXCEPT ![c] = "none"]
  /\ UNCHANGED resets

Consume(c) == /\ inbox' = [inbox EXCEPT ![c] = <<>>]
              /\ UNCHANGED <<peer, resets>>

\* read() returned -1: the connection is dropped, whatever it held.
ReadFailed(c) ==
  /\ Ready(c) /\ inbox[c] = <<>> /\ peer[c] = "reset"
  /\ CloseConn(c)
  /\ UNCHANGED <<record, locks, run, state>>

\* checkid refuses the line; state[c] stays ID.
RejectId(c) ==
  /\ Got(c, Text \ {"id"}) /\ state[c] = "ID"
  /\ CloseConn(c)
  /\ UNCHANGED <<record, locks, run, state>>

\* The record is locked by somebody else: "Locked."
Refuse(c) ==
  /\ CloseConn(c)
  /\ state' = [state EXCEPT ![c] = "HI"]
  /\ UNCHANGED <<record, readlc, samewr, run>>

-----------------------------------------------------------------------------
(* The read server. *)

\* Mutant of DropReader: unlocks with one session left.
DropReaderEarly(s, i) ==
  /\ readlc' = [readlc EXCEPT ![s][i] = @ - 1]
  /\ IF readlc'[s][i] <= 1 THEN SetLock(s, i, "un") ELSE UNCHANGED lock
  /\ UNCHANGED samewr

\* readlc -= 1, and the lock goes with the last session.
DropReader(s, i) ==
  /\ readlc' = [readlc EXCEPT ![s][i] = @ - 1]
  /\ IF readlc'[s][i] = 0 THEN SetLock(s, i, "un") ELSE UNCHANGED lock
  /\ UNCHANGED samewr

ReaderEnd(c) ==
  /\ Home[c] \in ReadServer /\ AtEnd(c)
  /\ IF state[c] \in {"HI", "ID"} THEN UNCHANGED locks
                                  ELSE DropReader(Home[c], reqid[c])
  /\ CloseConn(c)
  /\ UNCHANGED <<record, run, state>>

ReaderLocked(c) ==
  LET s == Home[c]  i == Head(inbox[c]).id IN
  /\ s \in ReadServer /\ Got(c, {"id"}) /\ state[c] = "ID"
  /\ ~ ReadLockable(s, i)
  /\ Refuse(c)
  /\ UNCHANGED lock

ReaderAdmit(c) ==
  LET s == Home[c]  i == Head(inbox[c]).id IN
  /\ s \in ReadServer /\ Got(c, {"id"}) /\ state[c] = "ID"
  /\ ReadLockable(s, i)
  /\ SetLock(s, i, "rd")
  /\ readlc' = [readlc EXCEPT ![s][i] = @ + 1]
  /\ reqid' = [reqid EXCEPT ![c] = i]
  /\ run' = [run EXCEPT ![s] = [Idle EXCEPT !.at = "show", !.fd = c, !.id = i]]
  /\ Consume(c)
  /\ UNCHANGED <<record, samewr, open, state, shown>>

\* Any line but Exit is read and ignored.
ReaderIgnore(c) ==
  /\ Home[c] \in ReadServer /\ Got(c, Text \ {"exit"}) /\ state[c] = "EXIT"
  /\ Consume(c)
  /\ UNCHANGED <<record, locks, run, conns>>

ReaderExit(c) ==
  /\ Home[c] \in ReadServer /\ Got(c, {"exit"}) /\ state[c] = "EXIT"
  /\ CloseConn(c)
  /\ state' = [state EXCEPT ![c] = "HI"]
  /\ run' = [run EXCEPT ![Home[c]] = [Idle EXCEPT !.at = "release", !.id = reqid[c]]]
  /\ UNCHANGED <<record, locks>>

-----------------------------------------------------------------------------
(* The write server. *)

\* Mutants of DropWriter: the mark stays; the lock stays.
DropWriterMarked(s, i) ==
  /\ SetLock(s, i, "un")
  /\ UNCHANGED <<samewr, readlc>>
DropWriterLocked(s, i) ==
  /\ samewr' = [samewr EXCEPT ![s][i] = 0]
  /\ UNCHANGED <<lock, readlc>>

DropWriter(s, i) ==
  /\ samewr' = [samewr EXCEPT ![s][i] = 0]
  /\ SetLock(s, i, "un")
  /\ UNCHANGED readlc

\* Mutant of WriterEnd: the session's lock is forgotten.
WriterEndKeepsLock(c) ==
  /\ Home[c] \in WriteServer /\ AtEnd(c)
  /\ CloseConn(c)
  /\ UNCHANGED <<record, locks, run, state>>

WriterEnd(c) ==
  /\ Home[c] \in WriteServer /\ AtEnd(c)
  /\ IF state[c] \in {"HI", "ID"} THEN UNCHANGED locks
                                  ELSE DropWriter(Home[c], reqid[c])
  /\ CloseConn(c)
  /\ UNCHANGED <<record, run, state>>

\* fcntl comes first, so it may succeed before samewr refuses the session.
WriterLocked(c) ==
  LET s == Home[c]  i == Head(inbox[c]).id IN
  /\ s \in WriteServer /\ Got(c, {"id"}) /\ state[c] = "ID"
  /\ \/ ~ WriteLockable(s, i) /\ UNCHANGED lock
     \/ WriteLockable(s, i) /\ samewr[s][i] = 1 /\ SetLock(s, i, "wr")
  /\ Refuse(c)

\* Mutants of WriterAdmit: sessions of the process are not told apart; they are
\* counted like readers.
WriterAdmitUnmarked(c) ==
  LET s == Home[c]  i == Head(inbox[c]).id IN
  /\ s \in WriteServer /\ Got(c, {"id"}) /\ state[c] = "ID"
  /\ WriteLockable(s, i)
  /\ SetLock(s, i, "wr")
  /\ samewr' = [samewr EXCEPT ![s][i] = 1]
  /\ reqid' = [reqid EXCEPT ![c] = i]
  /\ run' = [run EXCEPT ![s] = [Idle EXCEPT !.at = "show", !.fd = c, !.id = i]]
  /\ Consume(c)
  /\ UNCHANGED <<record, readlc, open, state, shown>>
WriterAdmitCounting(c) ==
  LET s == Home[c]  i == Head(inbox[c]).id IN
  /\ s \in WriteServer /\ Got(c, {"id"}) /\ state[c] = "ID"
  /\ WriteLockable(s, i)
  /\ SetLock(s, i, "wr")
  /\ samewr' = [samewr EXCEPT ![s][i] = @ + 1]
  /\ reqid' = [reqid EXCEPT ![c] = i]
  /\ run' = [run EXCEPT ![s] = [Idle EXCEPT !.at = "show", !.fd = c, !.id = i]]
  /\ Consume(c)
  /\ UNCHANGED <<record, readlc, open, state, shown>>

WriterAdmit(c) ==
  LET s == Home[c]  i == Head(inbox[c]).id IN
  /\ s \in WriteServer /\ Got(c, {"id"}) /\ state[c] = "ID"
  /\ WriteLockable(s, i) /\ samewr[s][i] # 1
  /\ SetLock(s, i, "wr")
  /\ samewr' = [samewr EXCEPT ![s][i] = 1]
  /\ reqid' = [reqid EXCEPT ![c] = i]
  /\ run' = [run EXCEPT ![s] = [Idle EXCEPT !.at = "show", !.fd = c, !.id = i]]
  /\ Consume(c)
  /\ UNCHANGED <<record, readlc, open, state, shown>>

\* What checkcommand says of a line.
Answer(rec, line) ==
  IF line.kind \in {"command", "id"} THEN Verdict(rec, line.change) ELSE "unparsed"

\* A refused command ends the session; state[c] stays COMMAND.
CommandRefused(c) ==
  /\ Home[c] \in WriteServer /\ Got(c, Text) /\ state[c] = "COMMAND"
  /\ Answer(record[reqid[c]], Head(inbox[c])) # "ok"
  /\ CloseConn(c)
  /\ run' = [run EXCEPT ![Home[c]] = [Idle EXCEPT !.at = "release", !.id = reqid[c]]]
  /\ UNCHANGED <<record, locks, state>>

\* Mutant of CommandAccepted: the record is written before the three `+=`.
CommandAcceptedLate(c) ==
  LET i == reqid[c]  line == Head(inbox[c]) IN
  /\ Home[c] \in WriteServer /\ Got(c, Text) /\ state[c] = "COMMAND"
  /\ Answer(record[i], line) = "ok"
  /\ run' = [run EXCEPT ![Home[c]] = [at |-> "commit", fd |-> c, id |-> i, input |-> record[i]]]
  /\ Consume(c)
  /\ UNCHANGED <<record, locks, conns>>

\* An accepted command: checkcommand has read the record and computed the new
\* one, which it is about to write.
CommandAccepted(c) ==
  LET i == reqid[c]  line == Head(inbox[c]) IN
  /\ Home[c] \in WriteServer /\ Got(c, Text) /\ state[c] = "COMMAND"
  /\ Answer(record[i], line) = "ok"
  /\ run' = [run EXCEPT ![Home[c]] =
               [at |-> "commit", fd |-> c, id |-> i,
                input |-> Applied(record[i], line.change)]]
  /\ Consume(c)
  /\ UNCHANGED <<record, locks, conns>>

\* The write() at the end of checkcommand.
Commit(s) ==
  /\ run[s].at = "commit"
  /\ record' = [record EXCEPT ![run[s].id] = run[s].input]
  /\ run' = [run EXCEPT ![s].at = "report"]
  /\ UNCHANGED <<locks, conns, net>>

\* The record is read back and sent, then the connection closed.
Report(s) ==
  /\ run[s].at = "report"
  /\ CloseConn(run[s].fd)
  /\ state' = [state EXCEPT ![run[s].fd] = "HI"]
  /\ run' = [run EXCEPT ![s] = [Idle EXCEPT !.at = "release", !.id = run[s].id]]
  /\ UNCHANGED <<record, locks>>

-----------------------------------------------------------------------------
(* Steps common to both. *)

\* Reading the record under the fresh lock and sending it.
Show(s) ==
  /\ run[s].at = "show"
  /\ shown' = [shown EXCEPT ![run[s].fd] = record[run[s].id]]
  /\ state' = [state EXCEPT ![run[s].fd] =
                 IF s \in ReadServer THEN "EXIT" ELSE "COMMAND"]
  /\ run' = [run EXCEPT ![s] = Idle]
  /\ UNCHANGED <<record, locks, open, reqid, net>>

\* After the close(): the counter, then the lock.
Release(s) ==
  /\ run[s].at = "release"
  /\ IF s \in ReadServer THEN DropReader(s, run[s].id) ELSE DropWriter(s, run[s].id)
  /\ run' = [run EXCEPT ![s] = Idle]
  /\ UNCHANGED <<record, conns, net>>

\* The process ends: the kernel closes its descriptors and drops its locks.
Terminate(s) ==
  LET fds == {c \in Conn : Home[c] = s} IN
  /\ lock' = [lock EXCEPT ![s] = [i \in Id |-> "un"]]
  /\ readlc' = [readlc EXCEPT ![s] = [i \in Id |-> 0]]
  /\ samewr' = [samewr EXCEPT ![s] = [i \in Id |-> 0]]
  /\ run' = [run EXCEPT ![s] = Down]
  /\ open' = open \ fds
  /\ state' = [c \in Conn |-> IF c \in fds THEN "HI" ELSE state[c]]
  /\ reqid' = [c \in Conn |-> IF c \in fds THEN None ELSE reqid[c]]
  /\ shown' = [c \in Conn |-> IF c \in fds THEN None ELSE shown[c]]
  /\ inbox' = [c \in Conn |-> IF c \in fds THEN <<>> ELSE inbox[c]]
  /\ peer' = [c \in Conn |-> IF c \in fds THEN "none" ELSE peer[c]]
  /\ UNCHANGED <<record, resets>>

\* ERR_EXIT on a read() that returns bytes without a line end.
UnendedRead(c) == Got(c, {"fragment"}) /\ Terminate(Home[c])

\* SIGPIPE: bookings are sent in several write() calls, and the first of them
\* may already find the client gone.
BrokenPipe(s) == /\ run[s].at \in {"show", "report"}
                 /\ peer[run[s].fd] # "live"
                 /\ Terminate(s)

\* The process is killed from outside, at any point.
Kill(s) == run[s].at # "down" /\ Terminate(s)

Restart(s) == /\ run[s] = Down
              /\ run' = [run EXCEPT ![s] = Idle]
              /\ UNCHANGED <<record, locks, conns, net>>

-----------------------------------------------------------------------------
Serve(c) == \/ ReadFailed(c) \/ RejectId(c) \/ UnendedRead(c)
            \/ ReaderEnd(c) \/ ReaderLocked(c) \/ ReaderAdmit(c)
            \/ ReaderIgnore(c) \/ ReaderExit(c)
            \/ WriterEnd(c) \/ WriterLocked(c) \/ WriterAdmit(c)
            \/ CommandRefused(c) \/ CommandAccepted(c)

Continue(s) == Show(s) \/ Commit(s) \/ Report(s) \/ Release(s)

Client(c) == \/ Accept(c) \/ Hangup(c) \/ Reset(c)
             \/ \E line \in Line : Send(c, line)

Next == \/ \E c \in Conn : Client(c) \/ Serve(c)
        \/ \E s \in Server : Continue(s) \/ BrokenPipe(s) \/ Kill(s) \/ Restart(s)

Spec == Init /\ [][Next]_vars

(***************************************************************************)
(* A process runs on until it is back in select(); a round of the loop     *)
(* then serves every descriptor that select() found readable, so none of   *)
(* them is passed over for ever.  Nothing is assumed of clients, and       *)
(* nobody has to restart a process that ended.                             *)
(***************************************************************************)
Fairness == /\ \A s \in Server : WF_vars(Continue(s))
            /\ \A c \in Conn : SF_vars(Serve(c))

FairSpec == Spec /\ Fairness

-----------------------------------------------------------------------------
(* Properties. *)

Sessions(s, i) == {c \in Conn : Home[c] = s /\ reqid[c] = i}
Releasing(s, i) == run[s].at = "release" /\ run[s].id = i

\* The sessions that count on record i: those there are and the one just closed.
Held(s, i) == Cardinality(Sessions(s, i)) + (IF Releasing(s, i) THEN 1 ELSE 0)

\* A user's record is never under two sessions of which one may change it, be
\* they of one process (samewr, readlc) or of two (fcntl).
MutualExclusion ==
  \A c, d \in Conn :
    /\ reqid[c] # None /\ reqid[c] = reqid[d]
    /\ Home[c] \in WriteServer
    => c = d

(***************************************************************************)
(* Why exclusion holds: the locks and counters stand for the sessions.     *)
(* A counter may exceed the sessions it counts (ReadFailed leaves it       *)
(* behind) but never fall short of them, so the last session of a read     *)
(* server cannot lose its lock to the end of another one.                  *)
(***************************************************************************)

\* Where a process is, it knows whom it serves.
RunOK ==
  \A s \in Server :
    /\ run[s].at \in {"show", "commit", "report"} =>
         /\ run[s].fd \in Conn /\ Home[run[s].fd] = s
         /\ run[s].id \in Id /\ reqid[run[s].fd] = run[s].id
    /\ run[s].at \in {"commit", "report"} => s \in WriteServer /\ run[s].input \in Triple
    /\ run[s].at = "release" => run[s].id \in Id
    /\ run[s].at = "select" => run[s] = Idle

\* A connection past its ID state is a session.
DialogueOK == \A c \in open : state[c] \in {"EXIT", "COMMAND"} => reqid[c] # None

Counted(s, i) == /\ readlc[s][i] >= Held(s, i)
                 /\ lock[s][i] = (IF readlc[s][i] = 0 THEN "un" ELSE "rd")
ReadersCounted == \A s \in ReadServer, i \in Id : Counted(s, i)

Marked(s, i) == /\ lock[s][i] = (IF samewr[s][i] = 0 THEN "un" ELSE "wr")
                /\ samewr[s][i] = 0 => Sessions(s, i) = {} /\ ~ Releasing(s, i)
                /\ Releasing(s, i) => Sessions(s, i) = {}
                /\ \A c, d \in Sessions(s, i) : c = d
WritersMarked == \A s \in WriteServer, i \in Id : Marked(s, i)

LocksCompatible ==
  \A s, t \in Server, i \in Id : s # t /\ lock[s][i] = "wr" => lock[t][i] = "un"

SessionInv == /\ TypeOK /\ RunOK /\ DialogueOK
              /\ ReadersCounted /\ WritersMarked /\ LocksCompatible

\* What a session was shown stays true while it lasts, up to its own change:
\* the user decides on a command from those numbers.
DisplayedStateIsCurrent ==
  \A c \in Conn :
    shown[c] = None \/ shown[c] = record[reqid[c]]
      \/ (run[Home[c]].at = "report" /\ run[Home[c]].fd = c)

\* checkcommand's read-modify-write is not torn: at the write() the record is
\* still the one the change was computed from, and what is read back for the
\* reply is what was written.
UpdateNotLost ==
  \A s \in Server :
    /\ run[s].at = "commit" =>
         \E change \in Asked : run[s].input = Applied(record[run[s].id], change)
    /\ run[s].at = "report" => record[run[s].id] = run[s].input

\* The two error messages: no more than MaxTotal items, none below zero.
RecordWithinLimits == \A i \in Id : WithinLimits(record[i])

\* Locks and counters are those of the sessions there are: nothing is held for
\* a session that is gone, whichever way it went ("free resources used by a
\* request instance", free_request).
LocksBackedBySessions ==
  \A s \in Server, i \in Id :
    /\ s \in ReadServer  => /\ readlc[s][i] = Held(s, i)
                            /\ lock[s][i] = (IF Held(s, i) > 0 THEN "rd" ELSE "un")
    /\ s \in WriteServer => /\ samewr[s][i] = Held(s, i)
                            /\ lock[s][i] = (IF Held(s, i) > 0 THEN "wr" ELSE "un")

\* A client is told "Locked" only while somebody else's session, or the end of
\* one, keeps it from the record; a reader is never refused because of readers.
RefusedOnlyWhenInUse ==
  [][\A c \in Conn :
       ReaderLocked(c) \/ WriterLocked(c) =>
         \E s \in Server :
           /\ Sessions(s, Head(inbox[c]).id) # {} \/ Releasing(s, Head(inbox[c]).id)
           /\ Home[c] \in ReadServer => s \in WriteServer]_vars

\* A client that hangs up, at any point of the dialogue, does not keep others
\* out: its session ends, and a write server's lock that only such sessions
\* stand behind is given up.  (A read lock may outlive them for ever, handed on
\* from reader to reader: nothing in the code lets a writer in between.)
Abandoned(s, i) == /\ lock[s][i] # "un"
                   /\ \A c \in Sessions(s, i) : peer[c] = "closed"
AbandonedSessionEnds ==
  /\ \A c \in Conn : (reqid[c] # None /\ peer[c] = "closed") ~> reqid[c] = None
  /\ \A s \in WriteServer, i \in Id : Abandoned(s, i) ~> ~ Abandoned(s, i)

\* The system is a BookingService, whose sessions are the descriptors with an
\* admitted user: every step of every process, the deaths included, is one of
\* its steps or invisible to it.
Service == INSTANCE BookingService WITH
  Session <- Conn, Change <- Asked,
  readers <- [i \in Id |-> {c \in Conn : reqid[c] = i /\ Home[c] \in ReadServer}],
  writers <- [i \in Id |-> {c \in Conn : reqid[c] = i /\ Home[c] \in WriteServer}]
ImplementsService == Service!Spec
=============================================================================
