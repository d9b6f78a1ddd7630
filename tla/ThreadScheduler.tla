--------------------------- MODULE ThreadScheduler ---------------------------
(***************************************************************************)
(* The user-level thread library of hw3_thread-library-lala-ju:            *)
(* scheduler.c, the macros of threadtools.h, and the threads of threads.c. *)
(* One process runs it all.  A thread runs until it yields with a signal   *)
(* pending, waits for its FIFO or exits; every switch is a longjmp through *)
(* scheduler().  What happens at the same time is outside: the alarm, the  *)
(* user's Ctrl-Z, and the writers of the FIFOs.                            *)
(***************************************************************************)
EXTENDS Queues, FiniteSets

CONSTANTS
  Threads,       \* the threads in the order init_threads creates them
  Fibonacci, Collatz, Reader,  \* those that run fibonacci, collatz, max_subarray
  Arg,           \* Arg[t]: iterations of t, 0 for ever; where collatz begins
  IntMax,        \* the largest int
  Item,          \* numbers a writer may send
  MaxSent,       \* bound: numbers sent to one thread
  WriterCloses   \* whether writers may close a FIFO before its thread exits

Thread == {Threads[k] : k \in DOMAIN Threads}
CInt == - IntMax - 1 .. IntMax

ASSUME SchedulerAssumption ==
  /\ Threads \in Seq(Thread) \ {<<>>} /\ \A j, k \in DOMAIN Threads : Threads[j] = Threads[k] => j = k
  /\ Thread = Fibonacci \cup Collatz \cup Reader
  /\ Fibonacci \cap Collatz = {} /\ Reader \cap (Fibonacci \cup Collatz) = {}
  /\ IntMax \in Nat \ {0} /\ Arg \in [Thread -> 0 .. IntMax]
  /\ Item \subseteq CInt
  /\ MaxSent \in Nat /\ WriterCloses \in BOOLEAN

Both == {"TSTP", "ALRM"}

VARIABLES
  ready,       \* ready_queue[0 .. rq_size-1]
  waiting,     \* waiting_queue[0 .. wq_size-1]
  rq_current,  \* index of the running thread, from 0
  pc,          \* where the process is
  env,         \* env[t]: the setjmp a longjmp to t resumes: setup, yield, read
  iter,        \* the field i of each thread
  x, y, sum,   \* the fields of those names.  max_subarray keeps the number of
               \* its buf in x, the best sum that ends there in y
  mask,        \* signals blocked
  pending,     \* signals that have arrived while blocked
  armed,       \* the alarm is counting down
  sent,        \* sent[t]: what has been written to the FIFO of t so far
  got,         \* got[t]: how many of these t has read
  writer       \* writer[t]: none yet, open, or gone

queues  == <<ready, waiting, rq_current>>
data    == <<x, y, sum, got>>
signals == <<mask, pending, armed>>
fifos   == <<sent, writer>>
vars    == <<queues, pc, env, iter, data, signals, fifos>>

TypeOK ==
  /\ ready \in Seq(Thread) /\ waiting \in Seq(Thread) /\ rq_current \in Nat
  /\ pc \in {"work", "await", "tstp", "alrm", "exit", "select", "returned"}
  /\ env \in [Thread -> {"setup", "yield", "read"}]
  /\ iter \in [Thread -> Nat]
  /\ x \in [Thread -> CInt] /\ y \in [Thread -> CInt] /\ sum \in [Thread -> CInt]
  /\ mask \subseteq Both /\ pending \subseteq Both /\ armed \in BOOLEAN
  /\ sent \in [Thread -> Seq(Item)]
  /\ got \in [Thread -> Nat] /\ \A t \in Thread : got[t] <= Len(sent[t])
  /\ writer \in [Thread -> {"none", "open", "gone"}]

Running == ready[rq_current + 1]
Runs(t) == rq_current < Len(ready) /\ t = Running

\* max_subarray begins an iteration by waiting for a number.
Top(t) == IF t \in Reader THEN "await" ELSE "work"

\* Both signals are blocked before there are threads.
init_signal == mask = Both /\ pending = {}

\* thread_setup for each thread: its fields, its FIFO, its place in the queue.
init_threads ==
  /\ ready = Threads /\ waiting = <<>>
  /\ env = [t \in Thread |-> "setup"]
  /\ iter = [t \in Thread |-> 1]
  /\ x = [t \in Thread |-> 0] /\ y = [t \in Thread |-> 0] /\ sum = [t \in Thread |-> 0]
  /\ sent = [t \in Thread |-> <<>>] /\ got = [t \in Thread |-> 0]
  /\ writer = [t \in Thread |-> "none"]

\* alarm(), and scheduler() entered from main.
start_threading == armed = TRUE /\ rq_current = 0 /\ pc = Top(Threads[1])

Init == init_signal /\ init_threads /\ start_threading

-----------------------------------------------------------------------------
(* Outside the process. *)

AlarmRings ==
  /\ armed /\ pc # "returned"
  /\ armed' = FALSE /\ pending' = pending \cup {"ALRM"}
  /\ UNCHANGED <<queues, pc, env, iter, data, mask, fifos>>

CtrlZ ==
  /\ "TSTP" \notin pending /\ pc # "returned"
  /\ pending' = pending \cup {"TSTP"}
  /\ UNCHANGED <<queues, pc, env, iter, data, mask, armed, fifos>>

\* A FIFO can be opened for writing while its thread has it open for reading.
Alive(t) == t \in Slots(ready) \cup Slots(waiting)

OpenFifo(t) ==
  /\ Alive(t) /\ writer[t] # "open"
  /\ writer' = [writer EXCEPT ![t] = "open"]
  /\ UNCHANGED <<queues, pc, env, iter, data, signals, sent>>

Write(t, n) ==
  /\ writer[t] = "open" /\ Alive(t) /\ Len(sent[t]) < MaxSent
  /\ sent' = [sent EXCEPT ![t] = Append(@, n)]
  /\ UNCHANGED <<queues, pc, env, iter, data, signals, writer>>

CloseFifo(t) ==
  /\ WriterCloses /\ writer[t] = "open"
  /\ writer' = [writer EXCEPT ![t] = "gone"]
  /\ UNCHANGED <<queues, pc, env, iter, data, signals, sent>>

-----------------------------------------------------------------------------
(* reorderwaiting: those whose FIFO select() reports go to the end of the   *)
(* ready queue, in the order in which they wait; the others close ranks.   *)

HasData(t) == got[t] < Len(sent[t])

\* Mutants of Readable: FD_ISSET is not asked, or only at the end of a FIFO.
ReadableAlways(t) == TRUE
ReadableAtEnd(t) == writer[t] = "gone"

Readable(t) == HasData(t) \/ writer[t] = "gone"

\* Mutant of PolledWaiting: what was moved is not taken out.
PolledWaitingStays == waiting

Ripe == {t \in Thread : Readable(t)}

PolledReady == ready \o Keep(waiting, Ripe)
PolledWaiting == Keep(waiting, Thread \ Ripe)

\* select() without a timeout returns once there is something to move.
SomeReadable == \E k \in DOMAIN waiting : Readable(waiting[k])

\* The running thread's slot is filled with the last thread of the queue.
DropRunning(q) ==
  [k \in 1 .. Len(q) - 1 |-> IF k = rq_current + 1 THEN q[Len(q)] ELSE q[k]]

\* rq_current after that, with size threads left.
NextSlot(size) == IF rq_current = size THEN 0 ELSE rq_current

\* Mutant of NextTurn: the turn always goes to the first slot.
NextTurnFirst(size) == IF size > 0 THEN 0 ELSE rq_current

\* rq_current for the next in turn.
NextTurn(size) == IF rq_current = size - 1 THEN 0 ELSE rq_current + 1

\* i++, not told apart beyond 3 in a thread that goes on for ever.
NextIteration(t) == IF Arg[t] = 0 /\ iter[t] > 2 THEN iter[t] ELSE iter[t] + 1

\* Mutants of Resume: the mask is left open after the second window; a thread
\* that is jumped to does its iteration again.
ResumeOpen(t, m) ==
  /\ pc' = IF env[t] = "read" THEN "work" ELSE Top(t)
  /\ iter' = IF env[t] = "yield" THEN [iter EXCEPT ![t] = NextIteration(t)] ELSE iter
  /\ mask' = m
ResumeAgain(t, m) ==
  /\ pc' = IF env[t] = "read" THEN "work" ELSE Top(t)
  /\ iter' = IF env[t] = "yield" /\ pc = "alrm" THEN [iter EXCEPT ![t] = NextIteration(t)] ELSE iter
  /\ mask' = IF env[t] = "yield" THEN Both ELSE m

\* longjmp(RUNNING->environment, 1): the thread goes on where it called setjmp.
\* The one in thread_yield blocks both signals again; the others leave the
\* mask, here m, alone.
Resume(t, m) ==
  /\ pc' = IF env[t] = "read" THEN "work" ELSE Top(t)
  /\ iter' = IF env[t] = "yield" THEN [iter EXCEPT ![t] = NextIteration(t)] ELSE iter
  /\ mask' = IF env[t] = "yield" THEN Both ELSE m

-----------------------------------------------------------------------------
(* The running thread. *)

\* What an int holds after a computation whose result is n (the Makefile asks
\* for no optimisation).
Wrap(n) == ((n + IntMax + 1) % (2 * IntMax + 2)) - (IntMax + 1)

\* Mutant of FibonacciStep: tmp is taken after the sum.
FibonacciStepNoTmp(t) ==
  LET new == IF iter[t] <= 2 THEN 1 ELSE Wrap(x[t] + y[t]) IN
  /\ x' = [x EXCEPT ![t] = new] /\ y' = [y EXCEPT ![t] = new]
  /\ UNCHANGED <<sum, got>>

FibonacciStep(t) ==
  /\ x' = [x EXCEPT ![t] = IF iter[t] <= 2 THEN 1 ELSE y[t]]
  /\ y' = [y EXCEPT ![t] = IF iter[t] <= 2 THEN 1 ELSE Wrap(x[t] + y[t])]
  /\ UNCHANGED <<sum, got>>

CollatzStep(t) ==
  LET n == IF iter[t] = 1 THEN Arg[t] ELSE x[t] IN
  /\ x' = [x EXCEPT ![t] = IF n % 2 = 0 THEN n \div 2 ELSE Wrap(3 * n + 1)]
  /\ UNCHANGED <<y, sum, got>>

\* Mutants of MaxSubarray: a sum is not started anew; a read() that brings
\* nothing is taken for one that does.
MaxSubarrayOnAndOn(t) ==
  /\ x' = [x EXCEPT ![t] = IF HasData(t) THEN sent[t][got[t] + 1] ELSE @]
  /\ got' = IF HasData(t) THEN [got EXCEPT ![t] = @ + 1] ELSE got
  /\ y' = [y EXCEPT ![t] = Wrap(@ + x'[t])]
  /\ sum' = [sum EXCEPT ![t] = IF y'[t] > @ THEN y'[t] ELSE @]
MaxSubarrayBlindly(t) == got' = [got EXCEPT ![t] = @ + 1] /\ UNCHANGED <<x, y, sum>>

\* At the end of the FIFO, or when a new writer has just opened it, read()
\* brings nothing and buf is what it was.
MaxSubarray(t) ==
  /\ x' = [x EXCEPT ![t] = IF HasData(t) THEN sent[t][got[t] + 1] ELSE @]
  /\ got' = IF HasData(t) THEN [got EXCEPT ![t] = @ + 1] ELSE got
  /\ y' = [y EXCEPT ![t] = IF x'[t] < Wrap(x'[t] + @) THEN Wrap(@ + x'[t]) ELSE x'[t]]
  /\ sum' = [sum EXCEPT ![t] = IF y'[t] > @ THEN y'[t] ELSE @]

\* The last iteration of t, if its x is now v.
Last(t, v) == IF t \in Collatz THEN v = 1 ELSE iter[t] = Arg[t]

\* The rest of an iteration, and what decides on the next: thread_yield opens
\* the mask for SIGTSTP first.
Work ==
  LET t == Running IN
  /\ pc = "work"
  /\ \/ t \in Fibonacci /\ FibonacciStep(t)
     \/ t \in Collatz /\ CollatzStep(t)
     \/ t \in Reader /\ MaxSubarray(t)
  /\ IF Last(t, x'[t])
     THEN pc' = "exit" /\ UNCHANGED <<env, mask>>
     ELSE /\ pc' = "tstp"
          /\ env' = [env EXCEPT ![t] = "yield"]
          /\ mask' = {"ALRM"}
  /\ UNCHANGED <<queues, iter, pending, armed, fifos>>

\* A window of thread_yield closes with no signal to deliver; after the second
\* one the thread goes on.
CloseWindow ==
  /\ pc \in {"tstp", "alrm"} /\ pending \subseteq mask
  /\ IF pc = "tstp"
     THEN pc' = "alrm" /\ mask' = {"TSTP"} /\ UNCHANGED iter
     ELSE Resume(Running, mask)
  /\ UNCHANGED <<queues, env, data, pending, armed, fifos>>

\* sighandler, which blocks the signal it handles, and case 1 of scheduler.
Interrupt(signo) ==
  /\ pc \in {"tstp", "alrm"} /\ signo \in pending \ mask
  /\ pending' = pending \ {signo}
  /\ armed' = (armed \/ signo = "ALRM")
  /\ ready' = PolledReady /\ waiting' = PolledWaiting
  /\ rq_current' = NextTurn(Len(ready'))
  /\ Resume(ready'[rq_current' + 1], mask \cup {signo})
  /\ UNCHANGED <<env, data, fifos>>

\* After the running thread has left the ready queue: another runs, or all wait.
RunNext(q) ==
  /\ ready' = DropRunning(q)
  /\ IF ready' = <<>>
     THEN /\ rq_current' = 0
          /\ pc' = IF waiting' = <<>> THEN "returned" ELSE "select"
          /\ UNCHANGED <<iter, mask>>
     ELSE /\ rq_current' = NextSlot(Len(ready'))
          /\ Resume(ready'[rq_current' + 1], mask)

\* async_read, and case 2 of scheduler.
Await ==
  /\ pc = "await"
  /\ env' = [env EXCEPT ![Running] = "read"]
  /\ waiting' = Append(PolledWaiting, Running)
  /\ RunNext(PolledReady)
  /\ UNCHANGED <<data, pending, armed, fifos>>

\* thread_exit, and case 3.
Exit ==
  /\ pc = "exit"
  /\ waiting' = PolledWaiting
  /\ RunNext(PolledReady)
  /\ UNCHANGED <<env, data, pending, armed, fifos>>

\* The blocking select() of cases 2 and 3 returns.
Wake ==
  /\ pc = "select" /\ SomeReadable
  /\ ready' = PolledReady /\ waiting' = PolledWaiting
  /\ Resume(ready'[rq_current + 1], mask)
  /\ UNCHANGED <<rq_current, env, data, pending, armed, fifos>>

-----------------------------------------------------------------------------
Process == Work \/ CloseWindow \/ Await \/ Exit \/ Wake \/ \E signo \in Both : Interrupt(signo)

Next == \/ Process \/ AlarmRings \/ CtrlZ
        \/ \E t \in Reader : OpenFifo(t) \/ CloseFifo(t) \/ \E n \in Item : Write(t, n)

Spec == Init /\ [][Next]_vars

\* The process runs when it can; an alarm that is set goes off.
FairSpec == Spec /\ WF_vars(Process) /\ WF_vars(AlarmRings)

-----------------------------------------------------------------------------
(* Properties. *)

\* No thread is lost or doubled by the moves between the queues: each is in one
\* slot of one of them until it has done its work, and RUNNING is a thread
\* whenever one is to run.
QueuesSound ==
  /\ Cardinality(Slots(ready)) = Len(ready) /\ Cardinality(Slots(waiting)) = Len(waiting)
  /\ Slots(ready) \cap Slots(waiting) = {}
  /\ \A t \in Thread \ (Slots(ready) \cup Slots(waiting)) : Last(t, x[t])
  /\ pc \in {"work", "await", "tstp", "alrm", "exit"} => rq_current < Len(ready)
  /\ \A t \in Slots(waiting) : env[t] = "read"

\* "both SIGTSTP and SIGALRM should be blocked" (reorderwaiting): no signal can
\* jump out of the scheduler, or of a thread outside thread_yield, whose mask is
\* what the handler and the longjmps have left.
SignalsBlocked == pc \notin {"tstp", "alrm"} => mask = Both

\* The sum a reader prints is that of the best run of consecutive numbers among
\* those it was sent, the empty one included, however its reads were delayed.
RunsOf(s) == {SubSeq(s, j, k) : j \in 1 .. Len(s), k \in 0 .. Len(s)}
SumOf(s) == LET upto[k \in 0 .. Len(s)] == IF k = 0 THEN 0 ELSE upto[k - 1] + s[k]
            IN upto[Len(s)]
SumIsBest ==
  \A t \in Reader :
    LET taken == SubSeq(sent[t], 1, got[t]) IN
    /\ \A r \in RunsOf(taken) : sum[t] >= SumOf(r)
    /\ sum[t] = 0 \/ \E r \in RunsOf(taken) : sum[t] = SumOf(r)

\* Iterations of t that are over, its thread_yield aside.
Completed(t) ==
  IF (IF Runs(t) THEN pc \in {"tstp", "alrm", "exit"} ELSE ~ Alive(t) \/ env[t] = "yield")
  THEN iter[t] ELSE iter[t] - 1

\* Every iteration of a reader takes a number of its own, while writers keep
\* their end open: select() has reported it and nobody else reads that FIFO.
NumberPerIteration == \A t \in Reader : Arg[t] # 0 => got[t] = Completed(t)

\* However often they are interrupted, and whoever runs in between, fibonacci
\* and collatz print their sequences from the first term to the last without a
\* gap; collatz as far as its terms fit into an int.
Fib[n \in Nat] == IF n = 0 THEN 0 ELSE IF n = 1 THEN 1 ELSE Fib[n - 1] + Fib[n - 2]
Hailstone(a, k) ==
  LET term[n \in 0 .. k] == IF n = 0 THEN a
                            ELSE IF term[n - 1] % 2 = 0 THEN term[n - 1] \div 2
                                                        ELSE 3 * term[n - 1] + 1
  IN term
SequencesRight ==
  /\ \A t \in Fibonacci : Arg[t] # 0 => y[t] = Wrap(Fib[Completed(t)])
  /\ \A t \in Collatz :
       LET term == Hailstone(Arg[t], Completed(t)) IN
       Completed(t) > 0 /\ Arg[t] # 0 /\ (\A k \in DOMAIN term : term[k] \in CInt)
         => x[t] = term[Completed(t)]

\* The library is a pool of threads as ThreadPool describes it.
Pool == INSTANCE ThreadPool WITH
  cpu     <- IF pc \in {"work", "await", "tstp", "alrm", "exit"} THEN {Running} ELSE {},
  ready   <- Slots(ready),
  waiting <- Slots(waiting),
  ripe    <- Ripe,
  done    <- {t \in Thread : IF Alive(t) THEN Runs(t) /\ pc = "exit" ELSE TRUE}
ImplementsPool == Pool!Spec

\* A ready thread runs in the end, be there threads that never exit, and
\* whatever the user's signals do to the turns.
ReadyRuns == \A t \in Thread : t \in Slots(ready) ~> Runs(t)

\* A number sent to a waiting thread is read in the end.
SentIsRead == \A t \in Reader : (t \in Slots(waiting) /\ HasData(t)) ~> t \notin Slots(waiting)
=============================================================================
