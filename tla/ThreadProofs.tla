---------------------------- MODULE ThreadProofs ----------------------------
(***************************************************************************)
(* Proofs about ThreadScheduler for every set of threads, every int and    *)
(* every behaviour of users and writers: no signal gets in where it must   *)
(* not, the moves between the queues lose and double nobody, every field   *)
(* keeps its type, no switch costs a thread what it has computed, and the  *)
(* library is a pool of threads as ThreadPool describes it.                *)
(***************************************************************************)
EXTENDS ThreadScheduler, DataLemmas

-----------------------------------------------------------------------------
(* The signals. *)

\* What keeps the signals out.  The mask is open in the two windows only, for
\* one signal each, and the thread that opened them will be found at the setjmp
\* after which both are blocked again.
MaskInv ==
  /\ env \in [Thread -> {"setup", "yield", "read"}]
  /\ pending \subseteq Both
  /\ mask = IF pc = "tstp" THEN {"ALRM"} ELSE IF pc = "alrm" THEN {"TSTP"} ELSE Both
  /\ pc \in {"tstp", "alrm"} => Running \in Thread /\ env[Running] = "yield"

LEMMA MaskInit == Init => MaskInv
BY DEF Init, init_signal, init_threads, start_threading, MaskInv, Top

\* A longjmp never leads into a window, and it leaves both signals blocked if
\* they are blocked already or the setjmp is that of thread_yield.
LEMMA ResumeBlocks ==
  ASSUME NEW t, NEW m, Resume(t, m), m = Both \/ env[t] = "yield"
  PROVE  mask' = Both /\ pc' \in {"work", "await"}
BY DEF Resume, Top

LEMMA RunNextBlocks ==
  ASSUME NEW q, RunNext(q), mask = Both
  PROVE  mask' = Both /\ pc' \in {"work", "await", "returned", "select"}
<1>1. CASE DropRunning(q) = <<>>
  BY <1>1 DEF RunNext
<1>2. CASE DropRunning(q) # <<>>
  <2>1. Resume(ready'[rq_current' + 1], mask)
    BY <1>2 DEF RunNext
  <2> QED BY <2>1, ResumeBlocks
<1> QED BY <1>1, <1>2

LEMMA MaskStep == MaskInv /\ [Next]_vars => MaskInv'
<1> SUFFICES ASSUME MaskInv, [Next]_vars PROVE MaskInv'
  OBVIOUS
<1>1. CASE Work
  <2>1. Running \in Thread
    BY <1>1, SchedulerAssumption DEF Work
  <2>2. UNCHANGED <<ready, rq_current, pending>>
    BY <1>1 DEF Work, queues
  <2>3. CASE pc' = "exit" /\ UNCHANGED <<env, mask>>
    BY <1>1, <2>2, <2>3 DEF MaskInv, Work
  <2>4. CASE pc' = "tstp" /\ env' = [env EXCEPT ![Running] = "yield"] /\ mask' = {"ALRM"}
    BY <2>1, <2>2, <2>4 DEF MaskInv, Running
  <2> QED BY <1>1, <2>3, <2>4 DEF Work
<1>2. CASE CloseWindow
  <2>1. UNCHANGED <<ready, rq_current, env, pending>>
    BY <1>2 DEF CloseWindow, queues
  <2>2. CASE pc = "tstp"
    BY <1>2, <2>1, <2>2 DEF CloseWindow, MaskInv, Running
  <2>3. CASE pc = "alrm"
    <3>1. Resume(Running, mask) /\ env[Running] = "yield"
      BY <1>2, <2>3 DEF CloseWindow, MaskInv
    <3>2. mask' = Both /\ pc' \in {"work", "await"}
      BY <3>1, ResumeBlocks
    <3> QED BY <2>1, <3>2 DEF MaskInv
  <2> QED BY <1>2, <2>2, <2>3 DEF CloseWindow
<1>3. ASSUME NEW signo \in Both, Interrupt(signo) PROVE MaskInv'
  <2>1. mask \cup {signo} = Both
    BY <1>3 DEF Interrupt, MaskInv, Both
  <2>2. Resume(ready'[rq_current' + 1], Both) /\ env' = env /\ pending' \subseteq pending
    BY <1>3, <2>1 DEF Interrupt
  <2>3. mask' = Both /\ pc' \in {"work", "await"}
    BY <2>2, ResumeBlocks
  <2> QED BY <2>2, <2>3 DEF MaskInv
<1>4. CASE Await
  <2>1. mask = Both /\ env' = [env EXCEPT ![Running] = "read"] /\ pending' = pending
    BY <1>4 DEF Await, MaskInv
  <2>2. mask' = Both /\ pc' \in {"work", "await", "returned", "select"}
    BY <1>4, <2>1, RunNextBlocks DEF Await
  <2> QED BY <2>1, <2>2 DEF MaskInv
<1>5. CASE Exit
  <2>1. mask = Both /\ UNCHANGED <<env, pending>>
    BY <1>5 DEF Exit, MaskInv
  <2>2. mask' = Both /\ pc' \in {"work", "await", "returned", "select"}
    BY <1>5, <2>1, RunNextBlocks DEF Exit
  <2> QED BY <2>1, <2>2 DEF MaskInv
<1>6. CASE Wake
  <2>1. mask = Both /\ UNCHANGED <<env, pending>> /\ Resume(ready'[rq_current + 1], mask)
    BY <1>6 DEF Wake, MaskInv
  <2>2. mask' = Both /\ pc' \in {"work", "await"}
    BY <2>1, ResumeBlocks
  <2> QED BY <2>1, <2>2 DEF MaskInv
<1>7. CASE AlarmRings
  BY <1>7 DEF AlarmRings, MaskInv, queues, Running, Both
<1>8. CASE CtrlZ
  BY <1>8 DEF CtrlZ, MaskInv, queues, Running, Both
<1>9. ASSUME NEW t \in Reader,
             OpenFifo(t) \/ CloseFifo(t) \/ \E n \in Item : Write(t, n)
      PROVE  MaskInv'
  BY <1>9 DEF OpenFifo, CloseFifo, Write, MaskInv, queues, signals, Running
<1>10. CASE UNCHANGED vars
  BY <1>10 DEF vars, queues, signals, MaskInv, Running
<1> QED
  BY <1>1, <1>2, <1>3, <1>4, <1>5, <1>6, <1>7, <1>8, <1>9, <1>10 DEF Next, Process

\* No signal is delivered outside the two windows of thread_yield: not in the
\* scheduler, while the queues are being moved, and not in a thread at work,
\* whichever longjmp of whichever switch has led there.
THEOREM SignalsStayBlocked == Spec => []SignalsBlocked
<1>1. MaskInv => SignalsBlocked
  BY DEF MaskInv, SignalsBlocked
<1> QED BY <1>1, MaskInit, MaskStep, PTL DEF Spec

-----------------------------------------------------------------------------
(* The moves. *)

\* The slot of the running thread is filled and nobody else goes.
LEMMA Dropped ==
  ASSUME NEW A, NEW q \in Seq(A), Distinct(q), rq_current \in Nat, rq_current < Len(q)
  PROVE  /\ DropRunning(q) \in Seq(A) /\ Len(DropRunning(q)) = Len(q) - 1
         /\ Slots(DropRunning(q)) = Slots(q) \ {q[rq_current + 1]}
         /\ Distinct(DropRunning(q))
<1> DEFINE n == Len(q)
           c == rq_current + 1
           s == DropRunning(q)
<1>1. /\ n \in Nat /\ c \in 1 .. n /\ DOMAIN q = 1 .. n /\ \A k \in 1 .. n : q[k] \in A
  OBVIOUS
<1>2. s = [k \in 1 .. n - 1 |-> IF k = c THEN q[n] ELSE q[k]]
  BY DEF DropRunning
<1> HIDE DEF n, c, s
<1>3. s \in [1 .. n - 1 -> A] /\ n - 1 \in Nat
  BY <1>1, <1>2
<1>4. s \in Seq(A) /\ Len(s) = n - 1 /\ DOMAIN s = 1 .. n - 1
  BY <1>3
<1>5. \A k \in 1 .. n - 1 : s[k] = IF k = c THEN q[n] ELSE q[k]
  BY <1>2
<1>6. \A j, k \in 1 .. n : q[j] = q[k] => j = k
  BY <1>1 DEF Distinct
<1>7. Slots(s) = Slots(q) \ {q[c]}
  <2>1. ASSUME NEW k \in 1 .. n - 1 PROVE s[k] \in Slots(q) \ {q[c]}
    <3>1. k \in 1 .. n /\ n \in 1 .. n /\ k # n
      BY <1>1
    <3> QED BY <1>1, <1>5, <1>6, <3>1 DEF Slots
  <2>2. ASSUME NEW k \in 1 .. n, k # c PROVE q[k] \in Slots(s)
    <3>1. CASE k = n
      <4>1. c \in 1 .. n - 1 /\ s[c] = q[n]
        BY <1>1, <1>5, <2>2, <3>1
      <4> QED BY <1>4, <3>1, <4>1 DEF Slots
    <3>2. CASE k # n
      <4>1. k \in 1 .. n - 1 /\ s[k] = q[k]
        BY <1>1, <1>5, <2>2, <3>2
      <4> QED BY <1>4, <4>1 DEF Slots
    <3> QED BY <3>1, <3>2
  <2> QED BY <1>1, <1>4, <2>1, <2>2 DEF Slots
<1>8. Distinct(s)
  <2> SUFFICES ASSUME NEW j \in 1 .. n - 1, NEW k \in 1 .. n - 1, s[j] = s[k] PROVE j = k
    BY <1>4 DEF Distinct
  <2>1. j \in 1 .. n /\ k \in 1 .. n /\ n \in 1 .. n /\ j # n /\ k # n
    BY <1>1
  <2> QED BY <1>5, <1>6, <2>1
<1> QED BY <1>4, <1>7, <1>8 DEF n, c, s

-----------------------------------------------------------------------------
(* The inductive invariant. *)

Busy == {"work", "await", "tstp", "alrm", "exit"}

\* Each thread is in one slot of one queue until its work is done.  The running
\* one is where rq_current says, and when all wait it says where the first to come
\* back will be.  Whoever waits has called setjmp in async_read.
QueueInv ==
  /\ Distinct(ready) /\ Distinct(waiting) /\ Slots(ready) \cap Slots(waiting) = {}
  /\ pc \in Busy => rq_current < Len(ready)
  /\ pc = "select" => rq_current = 0 /\ ready = <<>>
  /\ \A t \in Slots(waiting) : env[t] = "read"
  /\ \A t \in Thread \ (Slots(ready) \cup Slots(waiting)) : Last(t, x[t])
  /\ pc = "exit" => Last(Running, x[Running])

LEMMA ReaderIsThread == Reader \subseteq Thread /\ Fibonacci \subseteq Thread /\ Collatz \subseteq Thread
BY SchedulerAssumption

\* After a poll the two queues are as sound as before, and the slots that were
\* taken are not moved.
LEMMA Polled ==
  ASSUME TypeOK, QueueInv
  PROVE  /\ PolledReady \in Seq(Thread) /\ PolledWaiting \in Seq(Thread)
         /\ Distinct(PolledReady) /\ Distinct(PolledWaiting)
         /\ Slots(PolledReady) = Slots(ready) \cup (Slots(waiting) \cap Ripe)
         /\ Slots(PolledWaiting) = Slots(waiting) \ Ripe
         /\ Len(PolledReady) \in Nat /\ Len(PolledReady) >= Len(ready)
         /\ \A k \in 1 .. Len(ready) : PolledReady[k] = ready[k]
<1>1. ready \in Seq(Thread) /\ waiting \in Seq(Thread) /\ Len(ready) \in Nat
  BY DEF TypeOK
<1>2. Slots(waiting) \subseteq Thread
  BY <1>1 DEF Slots
<1> DEFINE in == Keep(waiting, Ripe)
<1>3. in \in Seq(Thread) /\ Slots(in) = Slots(waiting) \cap Ripe /\ Distinct(in)
  BY <1>1, KeepKeeps DEF QueueInv
<1>4. /\ Keep(waiting, Thread \ Ripe) \in Seq(Thread)
      /\ Slots(Keep(waiting, Thread \ Ripe)) = Slots(waiting) \cap (Thread \ Ripe)
      /\ Distinct(Keep(waiting, Thread \ Ripe))
  BY <1>1, KeepKeeps DEF QueueInv
<1> HIDE DEF in
<1>5. Slots(ready) \cap Slots(in) = {} /\ Distinct(ready) /\ Len(in) \in Nat
  BY <1>3 DEF QueueInv
<1>6. /\ ready \o in \in Seq(Thread) /\ Len(ready \o in) = Len(ready) + Len(in)
      /\ Slots(ready \o in) = Slots(ready) \cup Slots(in)
      /\ \A k \in 1 .. Len(ready) : (ready \o in)[k] = ready[k]
      /\ Distinct(ready \o in)
  BY <1>1, <1>3, <1>5, Concatenated
<1>7. PolledReady = ready \o in
  BY DEF PolledReady, in
<1>8. PolledWaiting = Keep(waiting, Thread \ Ripe)
  BY DEF PolledWaiting
<1>9. Slots(PolledWaiting) = Slots(waiting) \ Ripe
  BY <1>2, <1>4, <1>8
<1>10. Len(PolledReady) \in Nat /\ Len(PolledReady) >= Len(ready)
  BY <1>1, <1>5, <1>6, <1>7
<1> HIDE DEF PolledReady, PolledWaiting
<1> QED BY <1>3, <1>4, <1>6, <1>7, <1>8, <1>9, <1>10

LEMMA Resumed ==
  ASSUME TypeOK, NEW t \in Thread, NEW m, m \subseteq Both, Resume(t, m)
  PROVE  /\ pc' \in {"work", "await"} /\ mask' \subseteq Both
         /\ iter' \in [Thread -> Nat] /\ \A u \in Thread : u # t => iter'[u] = iter[u]
<1>1. NextIteration(t) \in Nat
  BY DEF NextIteration, TypeOK
<1> QED BY <1>1 DEF Resume, Top, TypeOK

\* Once the running thread has left the queue q.
LEMMA RunsNext ==
  ASSUME TypeOK, NEW q \in Seq(Thread), Distinct(q), rq_current < Len(q), RunNext(q)
  PROVE  /\ ready' \in Seq(Thread) /\ Distinct(ready') /\ rq_current' \in Nat
         /\ Slots(ready') = Slots(q) \ {q[rq_current + 1]}
         /\ iter' \in [Thread -> Nat] /\ mask' \subseteq Both
         /\ \A u \in Thread : u \notin Slots(ready') => iter'[u] = iter[u]
         /\ \/ ready' = <<>> /\ rq_current' = 0 /\ pc' \in {"returned", "select"}
            \/ rq_current' < Len(ready') /\ pc' \in {"work", "await"}
         /\ pc' = "returned" => waiting' = <<>>
         /\ pc' = "select" => waiting' # <<>>
<1>1. rq_current \in Nat /\ Len(q) \in Nat /\ mask \subseteq Both /\ iter \in [Thread -> Nat]
  BY DEF TypeOK
<1>2. ready' = DropRunning(q)
  BY DEF RunNext
<1>3. /\ ready' \in Seq(Thread) /\ Distinct(ready') /\ Len(ready') = Len(q) - 1
      /\ Slots(ready') = Slots(q) \ {q[rq_current + 1]}
  BY <1>1, <1>2, Dropped
<1>4. CASE ready' = <<>>
  BY <1>1, <1>3, <1>4 DEF RunNext
<1>5. CASE ready' # <<>>
  <2>1. Len(ready') \in Nat /\ Len(ready') > 0
    BY <1>3, <1>5
  <2>2. rq_current' = NextSlot(Len(ready')) /\ Resume(ready'[rq_current' + 1], mask)
    BY <1>5 DEF RunNext
  <2>3. rq_current' \in Nat /\ rq_current' < Len(ready')
    BY <1>1, <1>3, <2>1, <2>2 DEF NextSlot
  <2>4. rq_current' + 1 \in DOMAIN ready'
    BY <1>3, <2>1, <2>3
  <2> DEFINE t == ready'[rq_current' + 1]
  <2>5. t \in Thread /\ t \in Slots(ready') /\ Resume(t, mask)
    BY <1>3, <2>2, <2>4 DEF Slots
  <2> HIDE DEF t
  <2>6. /\ pc' \in {"work", "await"} /\ mask' \subseteq Both
        /\ iter' \in [Thread -> Nat] /\ \A u \in Thread : u # t => iter'[u] = iter[u]
    BY <1>1, <2>5, Resumed
  <2> QED BY <1>3, <2>3, <2>5, <2>6
<1> QED BY <1>4, <1>5

LEMMA WrapsToInt == \A n \in Int : Wrap(n) \in CInt
<1>1. SUFFICES ASSUME NEW n \in Int PROVE Wrap(n) \in CInt
  OBVIOUS
<1> DEFINE d == 2 * IntMax + 2
           a == n + IntMax + 1
<1>2. IntMax \in Nat
  BY SchedulerAssumption
<1>3. a \in Int /\ d \in Nat /\ d > 0
  BY <1>2
<1>4. a % d \in 0 .. d - 1
  <2> HIDE DEF a, d
  <2> QED BY <1>3
<1>5. a % d \in Int /\ a % d >= 0 /\ a % d <= 2 * IntMax + 1
  <2>1. d - 1 = 2 * IntMax + 1 /\ d - 1 \in Int
    BY <1>2
  <2> HIDE DEF a, d
  <2> QED BY <1>4, <2>1
<1> DEFINE r == a % d
<1>6. Wrap(n) = r - (IntMax + 1)
  BY DEF Wrap
<1> HIDE DEF r, a, d
<1> QED BY <1>2, <1>5, <1>6 DEF CInt, r

\* An iteration of t stays within the int, reads at most what is there, and
\* leaves the fields of the other threads alone.
LEMMA Worked ==
  ASSUME TypeOK, NEW t \in Thread, UNCHANGED fifos,
         \/ FibonacciStep(t)
         \/ t \in Collatz /\ CollatzStep(t)
         \/ t \in Reader /\ MaxSubarray(t)
  PROVE  /\ x' \in [Thread -> CInt] /\ y' \in [Thread -> CInt] /\ sum' \in [Thread -> CInt]
         /\ got' \in [Thread -> Nat] /\ \A u \in Thread : got'[u] <= Len(sent'[u])
         /\ \A u \in Thread : u # t => x'[u] = x[u]
<1>0. /\ IntMax \in Nat \ {0} /\ Arg[t] \in 0 .. IntMax /\ CInt \subseteq Int
      /\ 0 \in CInt /\ \A n \in 0 .. IntMax : n \in CInt
  BY SchedulerAssumption DEF CInt
<1>1. /\ x \in [Thread -> CInt] /\ y \in [Thread -> CInt] /\ sum \in [Thread -> CInt]
      /\ got \in [Thread -> Nat] /\ \A u \in Thread : got[u] <= Len(sent[u])
      /\ sent \in [Thread -> Seq(Item)] /\ sent' = sent
  BY DEF TypeOK, fifos
<1>2. x[t] \in CInt /\ y[t] \in CInt /\ sum[t] \in CInt /\ got[t] \in Nat /\ sent[t] \in Seq(Item)
  BY <1>1
<1>6. x[t] \in Int /\ y[t] \in Int
  BY <1>0, <1>2
<1>3. CASE FibonacciStep(t)
  <2> DEFINE v == IF iter[t] <= 2 THEN 1 ELSE y[t]
             w == IF iter[t] <= 2 THEN 1 ELSE Wrap(x[t] + y[t])
  <2>1. x[t] + y[t] \in Int
    BY <1>6
  <2>2. Wrap(x[t] + y[t]) \in CInt
    BY <2>1, WrapsToInt
  <2>3. v \in CInt /\ w \in CInt
    BY <1>0, <1>2, <2>2
  <2>4. x' = [x EXCEPT ![t] = v] /\ y' = [y EXCEPT ![t] = w] /\ UNCHANGED <<sum, got>>
    BY <1>3 DEF FibonacciStep
  <2> HIDE DEF v, w
  <2> QED BY <1>1, <2>3, <2>4
<1>4. CASE t \in Collatz /\ CollatzStep(t)
  <2> DEFINE n == IF iter[t] = 1 THEN Arg[t] ELSE x[t]
             v == IF n % 2 = 0 THEN n \div 2 ELSE Wrap(3 * n + 1)
  <2>1. n \in CInt
    BY <1>0, <1>2
  <2> HIDE DEF n
  <2>2. n \div 2 \in CInt
    BY <1>0, <2>1 DEF CInt
  <2>3. 3 * n + 1 \in Int
    BY <1>0, <2>1
  <2>4. v \in CInt
    BY <2>2, <2>3, WrapsToInt
  <2>5. x' = [x EXCEPT ![t] = v] /\ UNCHANGED <<y, sum, got>>
    BY <1>4 DEF CollatzStep, n
  <2> HIDE DEF v
  <2> QED BY <1>1, <2>4, <2>5
<1>5. CASE t \in Reader /\ MaxSubarray(t)
  <2> DEFINE v == IF HasData(t) THEN sent[t][got[t] + 1] ELSE x[t]
             best == IF v < Wrap(v + y[t]) THEN Wrap(y[t] + v) ELSE v
  <2>1. v \in CInt
    <3>1. CASE HasData(t)
      <4>1. got[t] + 1 \in 1 .. Len(sent[t])
        BY <1>2, <3>1 DEF HasData
      <4>2. sent[t][got[t] + 1] \in Item
        BY <1>2, <4>1
      <4> QED BY <3>1, <4>2, SchedulerAssumption
    <3> QED BY <1>2, <3>1
  <2>2. x' = [x EXCEPT ![t] = v] /\ x'[t] = v
    BY <1>1, <1>5 DEF MaxSubarray
  <2> HIDE DEF v
  <2>3. best \in CInt
    <3>1. v \in Int
      BY <1>0, <2>1
    <3>2. y[t] + v \in Int /\ v + y[t] = y[t] + v
      BY <1>6, <3>1
    <3> QED BY <2>1, <3>2, WrapsToInt
  <2>4. y' = [y EXCEPT ![t] = best] /\ y'[t] = best
    BY <1>1, <1>5, <2>2 DEF MaxSubarray
  <2> HIDE DEF best
  <2>5. sum' \in [Thread -> CInt]
    BY <1>1, <1>2, <1>5, <2>3, <2>4 DEF MaxSubarray
  <2>6. got' \in [Thread -> Nat] /\ \A u \in Thread : got'[u] <= Len(sent'[u])
    BY <1>1, <1>2, <1>5 DEF MaxSubarray, HasData
  <2> QED BY <1>1, <2>1, <2>2, <2>3, <2>4, <2>5, <2>6
<1> QED BY <1>3, <1>4, <1>5

LEMMA QueueInit == Init => TypeOK /\ QueueInv
<1> SUFFICES ASSUME Init PROVE TypeOK /\ QueueInv
  OBVIOUS
<1>1. Threads \in Seq(Thread) /\ Len(Threads) \in Nat /\ Len(Threads) > 0 /\ Distinct(Threads)
  <2>1. Threads \in Seq(Thread) /\ Threads # <<>> /\ Distinct(Threads)
    BY SchedulerAssumption DEF Distinct
  <2> QED BY <2>1
<1>2. 0 \in CInt
  BY SchedulerAssumption DEF CInt
<1>3. ready = Threads /\ waiting = <<>> /\ rq_current = 0 /\ pc \in {"work", "await"}
  BY DEF Init, init_threads, start_threading, Top
<1>4. Slots(ready) = Thread /\ Slots(waiting) = {} /\ Distinct(waiting)
  BY <1>3 DEF Slots, Thread, Distinct
<1>5. TypeOK
  BY <1>1, <1>2, <1>3 DEF TypeOK, Init, init_signal, init_threads, start_threading, Both
<1> QED BY <1>1, <1>3, <1>4, <1>5 DEF QueueInv

LEMMA WorkKeeps == ASSUME TypeOK, QueueInv, Work PROVE TypeOK' /\ QueueInv'
<1> DEFINE t == Running
<1>1. UNCHANGED <<ready, waiting, rq_current, iter, pending, armed, sent, writer>>
  BY DEF Work, queues, fifos
<1>2. pc = "work" /\ rq_current \in Nat /\ rq_current < Len(ready) /\ ready \in Seq(Thread)
  BY DEF Work, QueueInv, TypeOK, Busy
<1>3. rq_current + 1 \in DOMAIN ready
  BY <1>2
<1>4. t \in Thread /\ t \in Slots(ready)
  BY <1>2, <1>3 DEF Running, Slots
<1>5. \/ FibonacciStep(t)
      \/ t \in Collatz /\ CollatzStep(t)
      \/ t \in Reader /\ MaxSubarray(t)
  BY DEF Work
<1>6. UNCHANGED fifos
  BY DEF Work
<1>7. \/ pc' = "exit" /\ UNCHANGED <<env, mask>> /\ Last(t, x'[t])
      \/ pc' = "tstp" /\ env' = [env EXCEPT ![t] = "yield"] /\ mask' = {"ALRM"}
  BY DEF Work
<1>8. t' = t
  BY <1>1 DEF Running
<1> HIDE DEF t
<1>9. /\ x' \in [Thread -> CInt] /\ y' \in [Thread -> CInt] /\ sum' \in [Thread -> CInt]
      /\ got' \in [Thread -> Nat] /\ \A u \in Thread : got'[u] <= Len(sent'[u])
      /\ \A u \in Thread : u # t => x'[u] = x[u]
  BY <1>4, <1>5, <1>6, Worked
<1>10. TypeOK'
  BY <1>1, <1>4, <1>7, <1>9 DEF TypeOK, Both
<1>11. \A u \in Thread \ (Slots(ready) \cup Slots(waiting)) : Last(u, x[u])'
  <2> SUFFICES ASSUME NEW u \in Thread \ (Slots(ready) \cup Slots(waiting)) PROVE Last(u, x[u])'
    OBVIOUS
  <2>1. Last(u, x[u]) /\ x'[u] = x[u]
    BY <1>4, <1>9 DEF QueueInv
  <2> QED BY <1>1, <2>1 DEF Last
<1>12. \A u \in Slots(waiting) : env'[u] = "read"
  <2> SUFFICES ASSUME NEW u \in Slots(waiting) PROVE env'[u] = "read"
    OBVIOUS
  <2>1. u # t /\ env[u] = "read"
    BY <1>4 DEF QueueInv
  <2>2. u \in Thread /\ env \in [Thread -> {"setup", "yield", "read"}]
    BY DEF TypeOK, Slots
  <2> QED BY <1>7, <2>1, <2>2
<1>13. pc' = "exit" => Last(Running, x[Running])'
  <2> SUFFICES ASSUME pc' = "exit" PROVE Last(Running, x[Running])'
    OBVIOUS
  <2>1. Last(t, x'[t]) /\ Running' = t
    BY <1>7, <1>8 DEF t
  <2> QED BY <1>1, <2>1 DEF Last
<1>14. UNCHANGED <<Slots(ready), Slots(waiting), Distinct(ready), Distinct(waiting), rq_current, Len(ready)>>
  BY <1>1
<1>15. pc' \in {"exit", "tstp"}
  BY <1>7
<1> QED BY <1>2, <1>10, <1>11, <1>12, <1>13, <1>14, <1>15 DEF QueueInv, Busy

LEMMA CloseWindowKeeps == ASSUME TypeOK, QueueInv, CloseWindow PROVE TypeOK' /\ QueueInv'
<1>1. UNCHANGED <<ready, waiting, rq_current, env, x, y, sum, got, sent, writer, pending, armed>>
  BY DEF CloseWindow, queues, data, fifos
<1>2. pc \in {"tstp", "alrm"} /\ rq_current \in Nat /\ rq_current < Len(ready) /\ ready \in Seq(Thread)
  BY DEF CloseWindow, QueueInv, TypeOK, Busy
<1>3. rq_current + 1 \in DOMAIN ready
  BY <1>2
<1> DEFINE t == Running
<1>4. t \in Thread /\ t \in Slots(ready)
  BY <1>2, <1>3 DEF Running, Slots
<1> HIDE DEF t
<1>5. /\ pc' \in {"alrm", "work", "await"} /\ mask' \subseteq Both
      /\ iter' \in [Thread -> Nat] /\ \A u \in Thread : u # t => iter'[u] = iter[u]
  <2>1. CASE pc = "tstp"
    BY <2>1 DEF CloseWindow, Both, TypeOK
  <2>2. CASE pc = "alrm"
    <3>1. Resume(t, mask) /\ mask \subseteq Both
      BY <2>2 DEF CloseWindow, TypeOK, t
    <3> QED BY <1>4, <3>1, Resumed
  <2> QED BY <1>2, <2>1, <2>2
<1>6. TypeOK'
  BY <1>1, <1>5 DEF TypeOK
<1>7. \A u \in Thread \ (Slots(ready) \cup Slots(waiting)) : Last(u, x[u])'
  <2> SUFFICES ASSUME NEW u \in Thread \ (Slots(ready) \cup Slots(waiting)) PROVE Last(u, x[u])'
    OBVIOUS
  <2>1. Last(u, x[u]) /\ iter'[u] = iter[u]
    BY <1>4, <1>5 DEF QueueInv
  <2> QED BY <1>1, <2>1 DEF Last
<1>8. UNCHANGED <<Slots(ready), Slots(waiting), Distinct(ready), Distinct(waiting), rq_current, Len(ready)>>
  BY <1>1
<1> QED BY <1>1, <1>2, <1>5, <1>6, <1>7, <1>8 DEF QueueInv, Busy

\* The thread found at slot c after a switch, and those no queue has any more.
LEMMA InterruptKeeps ==
  ASSUME TypeOK, QueueInv, NEW signo \in Both, Interrupt(signo)
  PROVE  /\ TypeOK' /\ QueueInv'
         /\ rq_current' < Len(ready') /\ pc' \in {"work", "await"}
<1>1. /\ UNCHANGED <<env, x, y, sum, got, sent, writer>> /\ pc \in {"tstp", "alrm"}
      /\ pending' = pending \ {signo} /\ armed' = (armed \/ signo = "ALRM")
      /\ ready' = PolledReady /\ waiting' = PolledWaiting /\ rq_current' = NextTurn(Len(ready'))
      /\ Resume(ready'[rq_current' + 1], mask \cup {signo})
  BY DEF Interrupt, data, fifos
<1>2. /\ ready' \in Seq(Thread) /\ waiting' \in Seq(Thread)
      /\ Distinct(ready') /\ Distinct(waiting')
      /\ Slots(ready') = Slots(ready) \cup (Slots(waiting) \cap Ripe)
      /\ Slots(waiting') = Slots(waiting) \ Ripe
      /\ Len(ready') \in Nat /\ Len(ready') >= Len(ready)
  BY <1>1, Polled
<1>3. rq_current \in Nat /\ Len(ready) \in Nat /\ rq_current < Len(ready)
  BY <1>1 DEF TypeOK, QueueInv, Busy
<1>4. rq_current' \in Nat /\ rq_current' < Len(ready')
  BY <1>1, <1>2, <1>3 DEF NextTurn
<1> DEFINE t == ready'[rq_current' + 1]
<1>5. t \in Thread /\ t \in Slots(ready')
  <2>1. rq_current' + 1 \in DOMAIN ready'
    BY <1>2, <1>4
  <2> QED BY <1>2, <2>1 DEF Slots
<1>6. Resume(t, mask \cup {signo}) /\ mask \cup {signo} \subseteq Both
  BY <1>1 DEF TypeOK
<1> HIDE DEF t
<1>7. /\ pc' \in {"work", "await"} /\ mask' \subseteq Both
      /\ iter' \in [Thread -> Nat] /\ \A u \in Thread : u # t => iter'[u] = iter[u]
  BY <1>5, <1>6, Resumed
<1>8. TypeOK'
  BY <1>1, <1>2, <1>4, <1>7 DEF TypeOK
<1>9. \A u \in Thread \ (Slots(ready') \cup Slots(waiting')) : Last(u, x[u])'
  <2> SUFFICES ASSUME NEW u \in Thread \ (Slots(ready') \cup Slots(waiting')) PROVE Last(u, x[u])'
    OBVIOUS
  <2>1. u \in Thread \ (Slots(ready) \cup Slots(waiting)) /\ u # t
    BY <1>2, <1>5
  <2>2. Last(u, x[u]) /\ iter'[u] = iter[u]
    BY <1>7, <2>1 DEF QueueInv
  <2> QED BY <1>1, <2>2 DEF Last
<1>10. \A u \in Slots(waiting') : env'[u] = "read"
  BY <1>1, <1>2 DEF QueueInv
<1>11. Slots(ready') \cap Slots(waiting') = {}
  BY <1>2 DEF QueueInv
<1> QED BY <1>2, <1>4, <1>7, <1>8, <1>9, <1>10, <1>11 DEF QueueInv, Busy

\* The running thread hands the turn on and leaves the ready queue, for the
\* waiting one or for good.
LEMMA HandsOn ==
  ASSUME TypeOK, QueueInv, pc \in Busy, RunNext(PolledReady)
  PROVE  /\ Running \in Slots(ready) /\ Running \in Thread /\ Running \notin Slots(waiting)
         /\ ready' \in Seq(Thread) /\ Distinct(ready') /\ rq_current' \in Nat
         /\ Slots(ready') = (Slots(ready) \cup (Slots(waiting) \cap Ripe)) \ {Running}
         /\ iter' \in [Thread -> Nat] /\ mask' \subseteq Both
         /\ \A u \in Thread : u \notin Slots(ready') => iter'[u] = iter[u]
         /\ \/ ready' = <<>> /\ rq_current' = 0 /\ pc' \in {"returned", "select"}
            \/ rq_current' < Len(ready') /\ pc' \in {"work", "await"}
         /\ pc' = "returned" => waiting' = <<>>
         /\ pc' = "select" => waiting' # <<>>
<1>1. rq_current \in Nat /\ Len(ready) \in Nat /\ rq_current < Len(ready) /\ ready \in Seq(Thread)
  BY DEF TypeOK, QueueInv
<1> DEFINE q == PolledReady
<1>2. /\ q \in Seq(Thread) /\ Distinct(q)
      /\ Slots(q) = Slots(ready) \cup (Slots(waiting) \cap Ripe)
      /\ Len(q) \in Nat /\ Len(q) >= Len(ready)
      /\ \A k \in 1 .. Len(ready) : q[k] = ready[k]
  BY Polled
<1>3. rq_current + 1 \in 1 .. Len(ready) /\ rq_current < Len(q)
  BY <1>1, <1>2
<1>4. Running \in Thread /\ Running \in Slots(ready) /\ Running = q[rq_current + 1]
  BY <1>1, <1>2, <1>3 DEF Running, Slots
<1>5. Running \notin Slots(waiting)
  BY <1>4 DEF QueueInv
<1>6. RunNext(q)
  OBVIOUS
<1> HIDE DEF q
<1>7. /\ ready' \in Seq(Thread) /\ Distinct(ready') /\ rq_current' \in Nat
      /\ Slots(ready') = Slots(q) \ {q[rq_current + 1]}
      /\ iter' \in [Thread -> Nat] /\ mask' \subseteq Both
      /\ \A u \in Thread : u \notin Slots(ready') => iter'[u] = iter[u]
      /\ \/ ready' = <<>> /\ rq_current' = 0 /\ pc' \in {"returned", "select"}
         \/ rq_current' < Len(ready') /\ pc' \in {"work", "await"}
      /\ pc' = "returned" => waiting' = <<>>
      /\ pc' = "select" => waiting' # <<>>
  BY <1>2, <1>3, <1>6, RunsNext
<1> QED BY <1>2, <1>4, <1>5, <1>7

LEMMA AwaitKeeps ==
  ASSUME TypeOK, QueueInv, Await
  PROVE  /\ TypeOK' /\ QueueInv'
         /\ Slots(waiting') = (Slots(waiting) \ Ripe) \cup {Running}
         /\ pc' # "returned"
<1>1. /\ UNCHANGED <<x, y, sum, got, sent, writer, pending, armed>> /\ pc = "await"
      /\ env' = [env EXCEPT ![Running] = "read"]
      /\ waiting' = Append(PolledWaiting, Running) /\ RunNext(PolledReady)
  BY DEF Await, data, fifos
<1> DEFINE t == Running
           w == PolledWaiting
<1>2. /\ w \in Seq(Thread) /\ Distinct(w) /\ Slots(w) = Slots(waiting) \ Ripe
  BY Polled
<1>3. /\ t \in Slots(ready) /\ t \in Thread /\ t \notin Slots(waiting)
      /\ ready' \in Seq(Thread) /\ Distinct(ready') /\ rq_current' \in Nat
      /\ Slots(ready') = (Slots(ready) \cup (Slots(waiting) \cap Ripe)) \ {t}
      /\ iter' \in [Thread -> Nat] /\ mask' \subseteq Both
      /\ \A u \in Thread : u \notin Slots(ready') => iter'[u] = iter[u]
      /\ \/ ready' = <<>> /\ rq_current' = 0 /\ pc' \in {"returned", "select"}
         \/ rq_current' < Len(ready') /\ pc' \in {"work", "await"}
      /\ pc' = "returned" => waiting' = <<>>
  BY <1>1, HandsOn DEF Busy
<1>4. waiting' = Append(w, t) /\ env' = [env EXCEPT ![t] = "read"]
  BY <1>1
<1> HIDE DEF t, w
<1>5. waiting' \in Seq(Thread) /\ waiting' # <<>> /\ Slots(waiting') = Slots(w) \cup {t} /\ Distinct(waiting')
  <2> DEFINE v == Append(w, t)
  <2>1. v \in Seq(Thread) /\ v # <<>> /\ Slots(v) = Slots(w) \cup {t} /\ Distinct(v)
    BY <1>2, <1>3, Appended
  <2>2. waiting' = v
    BY <1>4
  <2> HIDE DEF v
  <2> QED BY <2>1, <2>2
<1>6. TypeOK'
  BY <1>1, <1>3, <1>4, <1>5 DEF TypeOK
<1>7. \A u \in Thread \ (Slots(ready') \cup Slots(waiting')) : Last(u, x[u])'
  <2> SUFFICES ASSUME NEW u \in Thread \ (Slots(ready') \cup Slots(waiting')) PROVE Last(u, x[u])'
    OBVIOUS
  <2>1. u \in Thread \ (Slots(ready) \cup Slots(waiting)) /\ u \notin Slots(ready')
    BY <1>2, <1>3, <1>5
  <2>2. Last(u, x[u]) /\ iter'[u] = iter[u]
    BY <1>3, <2>1 DEF QueueInv
  <2> QED BY <1>1, <2>2 DEF Last
<1>8. \A u \in Slots(waiting') : env'[u] = "read"
  <2> SUFFICES ASSUME NEW u \in Slots(waiting') PROVE env'[u] = "read"
    OBVIOUS
  <2>1. u = t \/ (u # t /\ u \in Slots(waiting))
    BY <1>2, <1>5
  <2>2. u \in Thread /\ env \in [Thread -> {"setup", "yield", "read"}]
    BY <1>5 DEF TypeOK, Slots
  <2> QED BY <1>4, <2>1, <2>2 DEF QueueInv
<1>9. Slots(ready') \cap Slots(waiting') = {}
  BY <1>2, <1>3, <1>5 DEF QueueInv
<1>10. QueueInv'
  BY <1>3, <1>5, <1>7, <1>8, <1>9 DEF QueueInv, Busy
<1> QED BY <1>2, <1>3, <1>5, <1>6, <1>10 DEF t

LEMMA ExitKeeps ==
  ASSUME TypeOK, QueueInv, Exit
  PROVE  TypeOK' /\ QueueInv' /\ Slots(waiting') = Slots(waiting) \ Ripe
<1>1. /\ UNCHANGED <<env, x, y, sum, got, sent, writer, pending, armed>> /\ pc = "exit"
      /\ waiting' = PolledWaiting /\ RunNext(PolledReady)
  BY DEF Exit, data, fifos
<1>2. /\ waiting' \in Seq(Thread) /\ Distinct(waiting') /\ Slots(waiting') = Slots(waiting) \ Ripe
  BY <1>1, Polled
<1>3. /\ Running \in Slots(ready) /\ Running \in Thread /\ Running \notin Slots(waiting)
      /\ ready' \in Seq(Thread) /\ Distinct(ready') /\ rq_current' \in Nat
      /\ Slots(ready') = (Slots(ready) \cup (Slots(waiting) \cap Ripe)) \ {Running}
      /\ iter' \in [Thread -> Nat] /\ mask' \subseteq Both
      /\ \A u \in Thread : u \notin Slots(ready') => iter'[u] = iter[u]
      /\ \/ ready' = <<>> /\ rq_current' = 0 /\ pc' \in {"returned", "select"}
         \/ rq_current' < Len(ready') /\ pc' \in {"work", "await"}
  BY <1>1, HandsOn DEF Busy
<1>4. TypeOK'
  BY <1>1, <1>2, <1>3 DEF TypeOK
<1>5. \A u \in Thread \ (Slots(ready') \cup Slots(waiting')) : Last(u, x[u])'
  <2> SUFFICES ASSUME NEW u \in Thread \ (Slots(ready') \cup Slots(waiting')) PROVE Last(u, x[u])'
    OBVIOUS
  <2>1. u = Running \/ u \in Thread \ (Slots(ready) \cup Slots(waiting))
    BY <1>2, <1>3
  <2>2. Last(u, x[u])
    BY <1>1, <2>1 DEF QueueInv
  <2>3. iter'[u] = iter[u]
    BY <1>3
  <2> QED BY <1>1, <2>2, <2>3 DEF Last
<1>6. \A u \in Slots(waiting') : env'[u] = "read"
  BY <1>1, <1>2 DEF QueueInv
<1>7. Slots(ready') \cap Slots(waiting') = {}
  BY <1>2, <1>3 DEF QueueInv
<1>8. QueueInv'
  BY <1>2, <1>3, <1>5, <1>6, <1>7 DEF QueueInv, Busy
<1> QED BY <1>2, <1>4, <1>8

LEMMA WakeKeeps ==
  ASSUME TypeOK, QueueInv, Wake
  PROVE  /\ TypeOK' /\ QueueInv' /\ Slots(waiting) \cap Ripe # {}
         /\ rq_current' < Len(ready') /\ pc' \in {"work", "await"}
<1>1. /\ UNCHANGED <<rq_current, env, x, y, sum, got, sent, writer, pending, armed>> /\ pc = "select"
      /\ ready' = PolledReady /\ waiting' = PolledWaiting
      /\ SomeReadable /\ Resume(ready'[rq_current + 1], mask)
  BY DEF Wake, data, fifos
<1>2. /\ ready' \in Seq(Thread) /\ waiting' \in Seq(Thread)
      /\ Distinct(ready') /\ Distinct(waiting')
      /\ Slots(ready') = Slots(ready) \cup (Slots(waiting) \cap Ripe)
      /\ Slots(waiting') = Slots(waiting) \ Ripe
      /\ Len(ready') \in Nat
  BY <1>1, Polled
<1>3. Slots(waiting) \cap Ripe # {}
  <2>1. PICK k \in DOMAIN waiting : Readable(waiting[k])
    BY <1>1 DEF SomeReadable
  <2>2. waiting[k] \in Slots(waiting) /\ waiting[k] \in Thread
    BY DEF Slots, TypeOK
  <2>3. waiting[k] \in Ripe
    BY <2>1, <2>2 DEF Ripe
  <2> QED BY <2>2, <2>3
<1>4. rq_current' = 0 /\ rq_current' < Len(ready')
  <2>1. ready' # <<>>
    BY <1>2, <1>3 DEF Slots
  <2> QED BY <1>1, <1>2, <2>1 DEF QueueInv
<1> DEFINE t == ready'[rq_current + 1]
<1>5. t \in Thread /\ t \in Slots(ready')
  <2>1. rq_current + 1 \in DOMAIN ready'
    BY <1>1, <1>2, <1>4
  <2> QED BY <1>2, <2>1 DEF Slots
<1>6. Resume(t, mask) /\ mask \subseteq Both
  BY <1>1 DEF TypeOK
<1> HIDE DEF t
<1>7. /\ pc' \in {"work", "await"} /\ mask' \subseteq Both
      /\ iter' \in [Thread -> Nat] /\ \A u \in Thread : u # t => iter'[u] = iter[u]
  BY <1>5, <1>6, Resumed
<1>8. TypeOK'
  BY <1>1, <1>2, <1>7 DEF TypeOK
<1>9. \A u \in Thread \ (Slots(ready') \cup Slots(waiting')) : Last(u, x[u])'
  <2> SUFFICES ASSUME NEW u \in Thread \ (Slots(ready') \cup Slots(waiting')) PROVE Last(u, x[u])'
    OBVIOUS
  <2>1. u \in Thread \ (Slots(ready) \cup Slots(waiting)) /\ u # t
    BY <1>2, <1>5
  <2>2. Last(u, x[u]) /\ iter'[u] = iter[u]
    BY <1>7, <2>1 DEF QueueInv
  <2> QED BY <1>1, <2>2 DEF Last
<1>10. \A u \in Slots(waiting') : env'[u] = "read"
  BY <1>1, <1>2 DEF QueueInv
<1>11. Slots(ready') \cap Slots(waiting') = {}
  BY <1>2 DEF QueueInv
<1> QED BY <1>2, <1>3, <1>4, <1>7, <1>8, <1>9, <1>10, <1>11 DEF QueueInv, Busy

\* What happens outside moves nobody.
LEMMA OutsideKeeps ==
  ASSUME TypeOK, QueueInv,
         \/ AlarmRings \/ CtrlZ
         \/ \E t \in Reader : OpenFifo(t) \/ CloseFifo(t) \/ \E n \in Item : Write(t, n)
         \/ UNCHANGED vars
  PROVE  TypeOK' /\ QueueInv' /\ UNCHANGED <<queues, pc, iter, env, x>>
<1>1. UNCHANGED <<queues, pc, iter, env, data>>
  BY DEF AlarmRings, CtrlZ, OpenFifo, CloseFifo, Write, vars
<1>2. UNCHANGED <<ready, waiting, rq_current, x, y, sum, got>>
  BY <1>1 DEF queues, data
<1>3. /\ mask' \subseteq Both /\ pending' \subseteq Both /\ armed' \in BOOLEAN
      /\ sent' \in [Thread -> Seq(Item)] /\ \A u \in Thread : got'[u] <= Len(sent'[u])
      /\ writer' \in [Thread -> {"none", "open", "gone"}]
  <2>1. CASE AlarmRings \/ CtrlZ \/ UNCHANGED vars
    BY <1>2, <2>1 DEF AlarmRings, CtrlZ, vars, fifos, signals, TypeOK, Both
  <2>2. ASSUME NEW t \in Reader, OpenFifo(t) \/ CloseFifo(t) PROVE <1>3!:
    BY <1>2, <2>2 DEF OpenFifo, CloseFifo, signals, TypeOK
  <2>3. ASSUME NEW t \in Reader, NEW n \in Item, Write(t, n) PROVE <1>3!:
    <3>1. t \in Thread /\ sent' = [sent EXCEPT ![t] = Append(sent[t], n)] /\ UNCHANGED <<signals, writer>>
      BY <2>3, ReaderIsThread DEF Write
    <3>2. sent[t] \in Seq(Item) /\ got[t] \in Nat /\ got[t] <= Len(sent[t])
      BY <3>1 DEF TypeOK
    <3>3. Append(sent[t], n) \in Seq(Item) /\ got[t] <= Len(Append(sent[t], n))
      BY <3>2
    <3> QED BY <1>2, <3>1, <3>3 DEF signals, TypeOK
  <2> QED BY <2>1, <2>2, <2>3
<1>4. TypeOK'
  BY <1>1, <1>2, <1>3 DEF TypeOK
<1>5. QueueInv'
  BY <1>1, <1>2 DEF QueueInv, Distinct, Slots, Running, Last
<1> QED BY <1>1, <1>2, <1>4, <1>5

LEMMA QueueStep == TypeOK /\ QueueInv /\ [Next]_vars => TypeOK' /\ QueueInv'
BY WorkKeeps, CloseWindowKeeps, InterruptKeeps, AwaitKeeps, ExitKeeps, WakeKeeps, OutsideKeeps
   DEF Next, Process

LEMMA QueueInvariant == Spec => [](TypeOK /\ QueueInv)
BY QueueInit, QueueStep, PTL DEF Spec

\* Every field keeps its type: no index leaves a queue, no int its width, and no
\* reader takes more numbers than it was sent.
THEOREM FieldsKeepTheirTypes == Spec => []TypeOK
BY QueueInvariant, PTL

\* Whatever switches threads, and whatever select() reports at that moment, no
\* thread is lost or doubled: each is in one slot of one queue until its work is
\* done, and RUNNING is a thread whenever one is to run.
THEOREM QueuesStaySound == Spec => []QueuesSound
<1>1. TypeOK /\ QueueInv => QueuesSound
  <2> SUFFICES ASSUME TypeOK, QueueInv PROVE QueuesSound
    OBVIOUS
  <2>1. ready \in Seq(Thread) /\ waiting \in Seq(Thread) /\ Distinct(ready) /\ Distinct(waiting)
    BY DEF TypeOK, QueueInv
  <2>2. Cardinality(Slots(ready)) = Len(ready) /\ Cardinality(Slots(waiting)) = Len(waiting)
    BY <2>1, DistinctCount DEF Distinct, Slots
  <2> QED BY <2>2 DEF QueuesSound, QueueInv, Busy
<1> QED BY <1>1, QueueInvariant, PTL

-----------------------------------------------------------------------------
(* The library as a pool of threads. *)

\* What ThreadPool calls cpu and done, and who has left.
Cpu == IF pc \in Busy THEN {Running} ELSE {}
Done == {t \in Thread : IF Alive(t) THEN Runs(t) /\ pc = "exit" ELSE TRUE}
Left == Thread \ (Slots(ready) \cup Slots(waiting))

LEMMA DoneIs == TypeOK /\ QueueInv => Done = Left \cup (IF pc = "exit" THEN {Running} ELSE {})
<1> SUFFICES ASSUME TypeOK, QueueInv
             PROVE  Done = Left \cup (IF pc = "exit" THEN {Running} ELSE {})
  OBVIOUS
<1>1. \A t : Alive(t) <=> t \in Slots(ready) \cup Slots(waiting)
  BY DEF Alive, Slots
<1>2. ASSUME pc = "exit" PROVE Running \in Thread /\ Running \in Slots(ready) /\ \A t : Runs(t) <=> t = Running
  <2>1. rq_current \in Nat /\ rq_current < Len(ready) /\ ready \in Seq(Thread)
    BY <1>2 DEF TypeOK, QueueInv, Busy
  <2>2. rq_current + 1 \in DOMAIN ready
    BY <2>1
  <2> QED BY <2>1, <2>2 DEF Running, Runs, Slots
<1> QED BY <1>1, <1>2 DEF Done, Left

LEMMA CpuIs ==
  TypeOK /\ QueueInv => \/ pc \in Busy /\ Cpu = {Running} /\ Running \in Slots(ready)
                        \/ pc \notin Busy /\ Cpu = {}
<1> SUFFICES ASSUME TypeOK, QueueInv, pc \in Busy PROVE Running \in Slots(ready)
  BY DEF Cpu
<1>1. rq_current \in Nat /\ rq_current < Len(ready) /\ ready \in Seq(Thread)
  BY DEF TypeOK, QueueInv
<1>2. rq_current + 1 \in DOMAIN ready
  BY <1>1
<1> QED BY <1>2 DEF Running, Slots

LEMMA RipeStays == ASSUME UNCHANGED <<got, sent, writer>> PROVE Ripe' = Ripe
BY DEF Ripe, Readable, HasData

\* The steps of the pool in terms of the library.
LEMMA ProgressSeen ==
  ASSUME Cpu' = Cpu, UNCHANGED <<ready, waiting>>, Done' \in {Done, Done \cup Cpu}
  PROVE  Pool!Next
<1>1. Ripe' \in SUBSET Thread
  BY DEF Ripe
<1>2. Pool!Progress
  BY <1>1 DEF Pool!Progress, Cpu, Busy, Done
<1> QED BY <1>2 DEF Pool!Next

PoolSwitch(out, in) ==
  /\ Slots(ready') = (Slots(ready) \cup (Slots(waiting) \cap Ripe)) \ out
  /\ Slots(waiting') = (Slots(waiting) \ Ripe) \cup in
  /\ Cpu' \in IF Slots(ready') = {} THEN {{}} ELSE {{t} : t \in Slots(ready')}
  /\ Ripe' = Ripe /\ Done' = Done

LEMMA SwitchSeen ==
  ASSUME NEW out, NEW in, PoolSwitch(out, in)
  PROVE  Pool!Switch(out, in)
BY DEF PoolSwitch, Pool!Switch, Cpu, Busy, Done

LEMMA InterruptIsPreempt ==
  ASSUME TypeOK, QueueInv, NEW signo \in Both, Interrupt(signo)
  PROVE  Pool!Preempt
<1>1. /\ pc \in {"tstp", "alrm"} /\ UNCHANGED <<got, sent, writer>>
      /\ ready' = PolledReady /\ waiting' = PolledWaiting
      /\ rq_current' = NextTurn(Len(ready'))
  BY DEF Interrupt, data, fifos
<1>2. /\ Distinct(ready') /\ ready' \in Seq(Thread)
      /\ Slots(ready') = Slots(ready) \cup (Slots(waiting) \cap Ripe)
      /\ Slots(waiting') = Slots(waiting) \ Ripe
      /\ Len(ready') \in Nat /\ Len(ready') >= Len(ready)
      /\ \A k \in 1 .. Len(ready) : ready'[k] = ready[k]
  BY <1>1, Polled
<1>3. TypeOK' /\ QueueInv' /\ rq_current' < Len(ready') /\ pc' \in {"work", "await"}
  BY InterruptKeeps
<1>4. Cpu' = {Running'} /\ Running' \in Slots(ready')
  <2>1. (TypeOK /\ QueueInv => \/ pc \in Busy /\ Cpu = {Running} /\ Running \in Slots(ready)
                               \/ pc \notin Busy /\ Cpu = {})'
    BY CpuIs, PTL
  <2> QED BY <1>3, <2>1 DEF Busy
<1>5. Cpu = {Running}
  BY <1>1 DEF Cpu, Busy
<1>6. Done' = Done
  <2>1. (TypeOK /\ QueueInv => Done = Left \cup (IF pc = "exit" THEN {Running} ELSE {}))'
    BY DoneIs, PTL
  <2>2. Left' = Left
    BY <1>2 DEF Left
  <2> QED BY <1>1, <1>3, <2>1, <2>2, DoneIs
<1>7. ASSUME Running' = Running PROVE Slots(ready') = {Running}
  <2>1. rq_current \in Nat /\ rq_current < Len(ready) /\ Len(ready) \in Nat /\ rq_current' \in Nat
    <3>1. rq_current < Len(ready)
      BY <1>1 DEF QueueInv, Busy
    <3>2. rq_current \in Nat /\ ready \in Seq(Thread)
      BY DEF TypeOK
    <3>3. rq_current' \in Nat
      BY <1>3 DEF TypeOK
    <3> QED BY <3>1, <3>2, <3>3
  <2>2. rq_current + 1 \in 1 .. Len(ready) /\ rq_current + 1 \in DOMAIN ready' /\ rq_current' + 1 \in DOMAIN ready'
    BY <1>2, <1>3, <2>1
  <2>3. ready'[rq_current + 1] = ready'[rq_current' + 1]
    BY <1>2, <1>7, <2>2 DEF Running
  <2>4. rq_current + 1 = rq_current' + 1
    BY <1>2, <2>2, <2>3 DEF Distinct
  <2>5. Len(ready') = 1 /\ rq_current = 0
    <3> DEFINE n == Len(ready')
               d == rq_current'
    <3>1. n \in Nat /\ d \in Nat /\ d = IF rq_current = n - 1 THEN 0 ELSE rq_current + 1
      BY <1>1, <1>2, <2>1 DEF NextTurn
    <3>2. d + 1 = rq_current + 1
      BY <2>4
    <3> HIDE DEF n, d
    <3>3. d = rq_current
      BY <2>1, <3>1, <3>2
    <3>4. n = 1 /\ rq_current = 0
      BY <2>1, <3>1, <3>3
    <3> QED BY <3>4 DEF n
  <2>6. DOMAIN ready' = {1}
    BY <1>2, <2>5
  <2> QED BY <1>7, <2>4, <2>5, <2>6 DEF Slots, Running
<1>8. PoolSwitch({}, {})
  BY <1>1, <1>2, <1>4, <1>6, RipeStays DEF PoolSwitch
<1>9. Pool!Switch({}, {})
  BY <1>8, SwitchSeen
<1>10. Cpu # {} /\ (Cpu' = Cpu => Slots(ready') = Cpu)
  BY <1>4, <1>5, <1>7
<1> QED BY <1>9, <1>10 DEF Pool!Preempt, Cpu, Busy

\* When the running thread has handed the turn on.
LEMMA HandsOnSeen ==
  ASSUME TypeOK, QueueInv, TypeOK', QueueInv', pc \in Busy, RunNext(PolledReady)
  PROVE  Cpu' \in IF Slots(ready') = {} THEN {{}} ELSE {{t} : t \in Slots(ready')}
<1>1. (TypeOK /\ QueueInv => \/ pc \in Busy /\ Cpu = {Running} /\ Running \in Slots(ready)
                             \/ pc \notin Busy /\ Cpu = {})'
  BY CpuIs, PTL
<1>2. \/ ready' = <<>> /\ pc' \in {"returned", "select"}
      \/ pc' \in {"work", "await"}
  BY HandsOn
<1>3. CASE ready' = <<>> /\ pc' \in {"returned", "select"}
  BY <1>1, <1>3 DEF Slots, Busy
<1>4. CASE pc' \in {"work", "await"}
  <2>1. Cpu' = {Running'} /\ Running' \in Slots(ready')
    BY <1>1, <1>4 DEF Busy
  <2> QED BY <2>1
<1> QED BY <1>2, <1>3, <1>4

LEMMA AwaitIsWait == ASSUME TypeOK, QueueInv, Await PROVE Pool!Wait
<1>1. /\ UNCHANGED <<got, sent, writer>> /\ pc = "await" /\ pc \in Busy /\ RunNext(PolledReady)
  BY DEF Await, data, fifos, Busy
<1>2. /\ TypeOK' /\ QueueInv' /\ Slots(waiting') = (Slots(waiting) \ Ripe) \cup {Running}
  BY AwaitKeeps
<1>3. /\ Running \in Slots(ready) /\ Running \in Thread
      /\ Slots(ready') = (Slots(ready) \cup (Slots(waiting) \cap Ripe)) \ {Running}
      /\ pc' # "exit"
  BY <1>1, HandsOn
<1>4. Cpu = {Running}
  BY <1>1 DEF Cpu
<1>5. Done = Left /\ Done' = Left'
  <2>1. (TypeOK /\ QueueInv => Done = Left \cup (IF pc = "exit" THEN {Running} ELSE {}))'
    BY DoneIs, PTL
  <2> QED BY <1>1, <1>2, <1>3, <2>1, DoneIs
<1>6. Left' = Left
  BY <1>2, <1>3 DEF Left
<1>7. PoolSwitch(Cpu, Cpu)
  BY <1>1, <1>2, <1>3, <1>4, <1>5, <1>6, RipeStays, HandsOnSeen DEF PoolSwitch
<1>8. Pool!Switch(Cpu, Cpu)
  BY <1>7, SwitchSeen
<1>9. Cpu # {} /\ Cpu \cap Done = {}
  BY <1>3, <1>4, <1>5 DEF Left
<1> QED BY <1>8, <1>9 DEF Pool!Wait, Cpu, Busy, Done

LEMMA ExitIsLeave == ASSUME TypeOK, QueueInv, Exit PROVE Pool!Leave
<1>1. /\ UNCHANGED <<got, sent, writer>> /\ pc = "exit" /\ pc \in Busy /\ RunNext(PolledReady)
  BY DEF Exit, data, fifos, Busy
<1>2. TypeOK' /\ QueueInv' /\ Slots(waiting') = Slots(waiting) \ Ripe
  BY ExitKeeps
<1>3. /\ Running \in Slots(ready) /\ Running \in Thread /\ Running \notin Slots(waiting)
      /\ Slots(ready') = (Slots(ready) \cup (Slots(waiting) \cap Ripe)) \ {Running}
      /\ pc' # "exit"
  BY <1>1, HandsOn
<1>4. Cpu = {Running}
  BY <1>1 DEF Cpu
<1>5. Done = Left \cup {Running} /\ Done' = Left'
  <2>1. (TypeOK /\ QueueInv => Done = Left \cup (IF pc = "exit" THEN {Running} ELSE {}))'
    BY DoneIs, PTL
  <2> QED BY <1>1, <1>2, <1>3, <2>1, DoneIs
<1>6. Left' = Left \cup {Running}
  BY <1>2, <1>3 DEF Left
<1>7. PoolSwitch(Cpu, {})
  BY <1>1, <1>2, <1>3, <1>4, <1>5, <1>6, RipeStays, HandsOnSeen DEF PoolSwitch
<1>8. Pool!Switch(Cpu, {})
  BY <1>7, SwitchSeen
<1>9. Cpu # {} /\ Cpu \subseteq Done
  BY <1>4, <1>5
<1> QED BY <1>8, <1>9 DEF Pool!Leave, Cpu, Busy, Done

LEMMA WakeIsWake == ASSUME TypeOK, QueueInv, Wake PROVE Pool!Wake
<1>1. /\ UNCHANGED <<got, sent, writer>> /\ pc = "select"
      /\ ready' = PolledReady /\ waiting' = PolledWaiting
  BY DEF Wake, data, fifos
<1>2. /\ Slots(ready') = Slots(ready) \cup (Slots(waiting) \cap Ripe)
      /\ Slots(waiting') = Slots(waiting) \ Ripe
  BY <1>1, Polled
<1>3. TypeOK' /\ QueueInv' /\ pc' \in {"work", "await"} /\ Slots(waiting) \cap Ripe # {}
  BY WakeKeeps
<1>4. Cpu' = {Running'} /\ Running' \in Slots(ready')
  <2>1. (TypeOK /\ QueueInv => \/ pc \in Busy /\ Cpu = {Running} /\ Running \in Slots(ready)
                               \/ pc \notin Busy /\ Cpu = {})'
    BY CpuIs, PTL
  <2> QED BY <1>3, <2>1 DEF Busy
<1>5. Done' = Done
  <2>1. (TypeOK /\ QueueInv => Done = Left \cup (IF pc = "exit" THEN {Running} ELSE {}))'
    BY DoneIs, PTL
  <2>2. Left' = Left
    BY <1>2 DEF Left
  <2> QED BY <1>1, <1>3, <2>1, <2>2, DoneIs
<1>6. PoolSwitch({}, {})
  BY <1>1, <1>2, <1>4, <1>5, RipeStays DEF PoolSwitch
<1>7. Pool!Switch({}, {})
  BY <1>6, SwitchSeen
<1>8. Cpu = {}
  BY <1>1 DEF Cpu, Busy
<1> QED BY <1>3, <1>7, <1>8 DEF Pool!Wake, Cpu, Busy

LEMMA PoolStep == TypeOK /\ QueueInv /\ [Next]_vars => [Pool!Next]_(Pool!pool)
<1> SUFFICES ASSUME TypeOK, QueueInv, [Next]_vars PROVE Pool!Next
  OBVIOUS
<1>0. TypeOK' /\ QueueInv'
  BY QueueStep
<1>1. Done = Left \cup (IF pc = "exit" THEN {Running} ELSE {})
  BY DoneIs
<1>2. Done' = Left' \cup (IF pc' = "exit" THEN {Running'} ELSE {})
  <2>1. (TypeOK /\ QueueInv => Done = Left \cup (IF pc = "exit" THEN {Running} ELSE {}))'
    BY DoneIs, PTL
  <2> QED BY <1>0, <2>1
<1>3. CASE Work
  <2>1. UNCHANGED <<ready, waiting, rq_current>> /\ pc = "work" /\ pc' \in {"exit", "tstp"}
    BY <1>3 DEF Work, queues
  <2>2. Running' = Running /\ Cpu' = Cpu /\ Cpu = {Running} /\ Left' = Left
    BY <2>1 DEF Running, Cpu, Busy, Left
  <2>3. Done' \in {Done, Done \cup Cpu}
    BY <1>1, <1>2, <2>1, <2>2
  <2> QED BY <2>1, <2>2, <2>3, ProgressSeen
<1>4. CASE CloseWindow
  <2>1. UNCHANGED <<ready, waiting, rq_current>> /\ pc \in {"tstp", "alrm"} /\ pc' \in {"alrm", "work", "await"}
    BY <1>4 DEF CloseWindow, queues, Resume, Top
  <2>2. Running' = Running /\ Cpu' = Cpu /\ Left' = Left
    BY <2>1 DEF Running, Cpu, Busy, Left
  <2>3. Done' = Done
    BY <1>1, <1>2, <2>1, <2>2
  <2> QED BY <2>1, <2>2, <2>3, ProgressSeen
<1>5. ASSUME NEW signo \in Both, Interrupt(signo) PROVE Pool!Next
  BY <1>5, InterruptIsPreempt DEF Pool!Next
<1>6. CASE Await
  BY <1>6, AwaitIsWait DEF Pool!Next
<1>7. CASE Exit
  BY <1>7, ExitIsLeave DEF Pool!Next
<1>8. CASE Wake
  BY <1>8, WakeIsWake DEF Pool!Next
<1>9. CASE \/ AlarmRings \/ CtrlZ
           \/ \E t \in Reader : OpenFifo(t) \/ CloseFifo(t) \/ \E n \in Item : Write(t, n)
           \/ UNCHANGED vars
  <2>1. UNCHANGED <<ready, waiting, rq_current, pc>>
    BY <1>9, OutsideKeeps DEF queues
  <2>2. Running' = Running /\ Cpu' = Cpu /\ Left' = Left
    BY <2>1 DEF Running, Cpu, Left
  <2>3. Done' = Done
    BY <1>1, <1>2, <2>1, <2>2
  <2> QED BY <2>1, <2>2, <2>3, ProgressSeen
<1> QED BY <1>3, <1>4, <1>5, <1>6, <1>7, <1>8, <1>9 DEF Next, Process

\* The library is a pool of threads: whatever the signals, the queues and the
\* jumps, each switch lets in all those who have something to read and nobody
\* else, takes the processor only where another can have it, and lets nobody go
\* whose work is not done.
THEOREM PoolImplemented == Spec => ImplementsPool
<1>1. Init => Pool!Init
  <2> SUFFICES ASSUME Init PROVE Pool!Init
    OBVIOUS
  <2>1. TypeOK /\ QueueInv
    BY QueueInit
  <2>2. ready = Threads /\ waiting = <<>> /\ pc \in {"work", "await"}
    BY DEF Init, init_threads, start_threading, Top
  <2>3. Slots(ready) = Thread /\ Slots(waiting) = {}
    BY <2>2 DEF Slots, Thread
  <2>4. Cpu = {Running} /\ Running \in Thread
    BY <2>1, <2>2, <2>3, CpuIs DEF Busy
  <2>5. Ripe = {}
    BY DEF Ripe, Readable, HasData, Init, init_threads
  <2>6. Done = {}
    BY <2>1, <2>2, <2>3, DoneIs DEF Left
  <2> QED BY <2>3, <2>4, <2>5, <2>6 DEF Pool!Init, Cpu, Busy, Done
<1> QED BY <1>1, PoolStep, QueueInvariant, PTL DEF Spec, ImplementsPool, Pool!Spec

-----------------------------------------------------------------------------
(* Iterations. *)

\* The iteration t is in, or was in when it was left, is over but for thread_yield.
Over(t) == IF Runs(t) THEN pc \in {"tstp", "alrm", "exit"} ELSE ~ Alive(t) \/ env[t] = "yield"

LEMMA CompletedIs == \A t : Completed(t) = IF Over(t) THEN iter[t] ELSE iter[t] - 1
BY DEF Completed, Over

\* A longjmp to t: t and everybody else have completed as many iterations as they
\* had when they were left.
LEMMA ResumeCounts ==
  ASSUME TypeOK, NEW t \in Thread, NEW m, Resume(t, m),
         Running' = t, rq_current' < Len(ready'), t \in Slots(ready'), env'[t] = env[t],
         NEW u \in Thread, Arg[u] # 0,
         Over(u) <=> (~ Alive(u)' \/ env'[u] = "yield")
  PROVE  Completed(u)' = Completed(u)
<1>1. \A w : Runs(w)' <=> w = t
  BY DEF Runs
<1>2. Alive(t)' /\ pc' \in {"work", "await"}
  BY DEF Alive, Resume, Top
<1>3. iter \in [Thread -> Nat] /\ iter[u] \in Nat
  BY DEF TypeOK
<1>4. CASE u = t
  <2>1. ~ Over(u)'
    BY <1>1, <1>2, <1>4 DEF Over
  <2>2. Completed(u)' = iter'[u] - 1
    BY <2>1 DEF Completed, Over
  <2>3. Over(u) <=> env[t] = "yield"
    BY <1>2, <1>4
  <2>4. iter'[u] = IF Over(u) THEN iter[u] + 1 ELSE iter[u]
    BY <1>3, <1>4, <2>3 DEF Resume, NextIteration
  <2> QED BY <1>3, <2>2, <2>4, CompletedIs
<1>5. CASE u # t
  <2>1. Over(u)' <=> Over(u)
    BY <1>1, <1>5 DEF Over
  <2>2. iter'[u] = iter[u]
    BY <1>3, <1>5 DEF Resume
  <2>3. Completed(u)' = IF Over(u)' THEN iter'[u] ELSE iter'[u] - 1
    BY DEF Completed, Over
  <2> QED BY <2>1, <2>2, <2>3, CompletedIs
<1> QED BY <1>4, <1>5

\* The same for the thread that hands on its turn, and for the others.
LEMMA HandOnCounts ==
  ASSUME TypeOK, QueueInv, pc \in Busy, RunNext(PolledReady),
         \A t \in Thread : t # Running => env'[t] = env[t],
         NEW u \in Thread, Arg[u] # 0,
         Over(u) <=> (~ Alive(u)' \/ env'[u] = "yield")
  PROVE  Completed(u)' = Completed(u)
<1>1. /\ ready' \in Seq(Thread) /\ rq_current' \in Nat /\ Running \notin Slots(ready')
      /\ \/ ready' = <<>>
         \/ rq_current' < Len(ready') /\ pc' \in {"work", "await"}
  BY HandsOn
<1>2. CASE ready' = <<>>
  <2>1. iter' = iter
    BY <1>2 DEF RunNext
  <2>2. ~ Runs(u)'
    BY <1>1, <1>2 DEF Runs
  <2>3. Over(u)' <=> Over(u)
    BY <2>2 DEF Over
  <2>4. Completed(u)' = IF Over(u)' THEN iter'[u] ELSE iter'[u] - 1
    BY DEF Completed, Over
  <2> QED BY <2>1, <2>3, <2>4, CompletedIs
<1>3. CASE ready' # <<>>
  <2> DEFINE t == ready'[rq_current' + 1]
  <2>1. Resume(t, mask) /\ rq_current' < Len(ready')
    BY <1>1, <1>3 DEF RunNext
  <2>2. rq_current' + 1 \in DOMAIN ready'
    BY <1>1, <2>1
  <2>3. t \in Slots(ready') /\ t \in Thread /\ Running' = t
    BY <1>1, <2>2 DEF Slots, Running
  <2> HIDE DEF t
  <2>4. env'[t] = env[t]
    BY <1>1, <2>3
  <2> QED BY <2>1, <2>3, <2>4, ResumeCounts
<1> QED BY <1>2, <1>3

\* Who runs, where the process is in a thread.
LEMMA RunningRuns ==
  ASSUME TypeOK, QueueInv, pc \in Busy
  PROVE  /\ Running \in Thread /\ Running \in Slots(ready) /\ rq_current < Len(ready)
         /\ \A u : Runs(u) <=> u = Running
<1>1. rq_current \in Nat /\ rq_current < Len(ready) /\ ready \in Seq(Thread)
  BY DEF TypeOK, QueueInv
<1>2. rq_current + 1 \in DOMAIN ready
  BY <1>1
<1> QED BY <1>1, <1>2 DEF Running, Runs, Slots

\* Only its own work takes a thread to the end of an iteration, and no interruption,
\* no wait and no return from one takes it there twice or past it.
LEMMA SwitchCounts ==
  ASSUME TypeOK, QueueInv, MaskInv, [Next]_vars, ~ Work, NEW u \in Thread, Arg[u] # 0
  PROVE  Completed(u)' = Completed(u) /\ UNCHANGED data
<1>1. CASE CloseWindow
  <2>1. UNCHANGED <<ready, waiting, rq_current, env, data>> /\ pc \in {"tstp", "alrm"}
    BY <1>1 DEF CloseWindow, queues
  <2>2. /\ Running \in Thread /\ Running \in Slots(ready) /\ rq_current < Len(ready)
        /\ \A w : Runs(w) <=> w = Running
    BY <2>1, RunningRuns DEF Busy
  <2>3. env[Running] = "yield"
    BY <2>1 DEF MaskInv
  <2>4. CASE pc = "tstp"
    <3>1. pc' = "alrm" /\ iter' = iter
      BY <1>1, <2>4 DEF CloseWindow
    <3>2. Completed(u)' = Completed(u)
      BY <2>1, <2>4, <3>1 DEF Completed, Runs, Running, Alive
    <3> QED BY <2>1, <3>2
  <2>5. CASE pc = "alrm"
    <3> DEFINE t == Running
    <3>1. Resume(t, mask)
      BY <1>1, <2>5 DEF CloseWindow
    <3>2. Over(u) <=> (~ Alive(u)' \/ env'[u] = "yield")
      BY <2>1, <2>2, <2>3, <2>5 DEF Over, Alive
    <3>3. Running' = t /\ rq_current' < Len(ready') /\ t \in Slots(ready') /\ env'[t] = env[t] /\ t \in Thread
      BY <2>1, <2>2 DEF Running
    <3> HIDE DEF t
    <3>4. Completed(u)' = Completed(u)
      BY <3>1, <3>2, <3>3, ResumeCounts
    <3> QED BY <2>1, <3>4
  <2> QED BY <2>1, <2>4, <2>5
<1>2. ASSUME NEW signo \in Both, Interrupt(signo) PROVE Completed(u)' = Completed(u) /\ UNCHANGED data
  <2>1. /\ UNCHANGED <<env, data>> /\ pc \in {"tstp", "alrm"}
        /\ ready' = PolledReady /\ waiting' = PolledWaiting
        /\ Resume(ready'[rq_current' + 1], mask \cup {signo})
    BY <1>2 DEF Interrupt
  <2>2. /\ ready' \in Seq(Thread) /\ Len(ready') \in Nat
        /\ Slots(ready') = Slots(ready) \cup (Slots(waiting) \cap Ripe)
        /\ Slots(waiting') = Slots(waiting) \ Ripe
    BY <2>1, Polled
  <2>3. TypeOK' /\ rq_current' < Len(ready')
    BY <1>2, InterruptKeeps
  <2>4. rq_current' \in Nat /\ rq_current' + 1 \in DOMAIN ready'
    BY <2>2, <2>3 DEF TypeOK
  <2> DEFINE t == ready'[rq_current' + 1]
  <2>5. t \in Thread /\ t \in Slots(ready') /\ Running' = t /\ env'[t] = env[t]
    BY <2>1, <2>2, <2>4 DEF Slots, Running
  <2>6. Alive(u)' <=> Alive(u)
    BY <2>2 DEF Alive
  <2>7. Over(u) <=> (~ Alive(u)' \/ env'[u] = "yield")
    <3>1. env[Running] = "yield" /\ \A w : Runs(w) <=> w = Running
      BY <2>1, RunningRuns DEF MaskInv, Busy
    <3> QED BY <2>1, <2>6, <3>1 DEF Over
  <2>8. Resume(t, mask \cup {signo})
    BY <2>1
  <2> HIDE DEF t
  <2>9. Completed(u)' = Completed(u)
    BY <2>3, <2>5, <2>7, <2>8, ResumeCounts
  <2> QED BY <2>1, <2>9
<1>3. CASE Await
  <2>1. /\ UNCHANGED data /\ pc = "await" /\ env' = [env EXCEPT ![Running] = "read"] /\ RunNext(PolledReady)
    BY <1>3 DEF Await
  <2>2. /\ Running \in Thread /\ Running \in Slots(ready) /\ \A w : Runs(w) <=> w = Running
    BY <2>1, RunningRuns DEF Busy
  <2>3. env \in [Thread -> {"setup", "yield", "read"}]
    BY DEF TypeOK
  <2>4. /\ Slots(ready') = (Slots(ready) \cup (Slots(waiting) \cap Ripe)) \ {Running}
        /\ Slots(waiting') = (Slots(waiting) \ Ripe) \cup {Running}
    BY <1>3, <2>1, AwaitKeeps, HandsOn DEF Busy
  <2>5. Alive(u)' <=> Alive(u)
    BY <2>2, <2>4 DEF Alive
  <2>6. Over(u) <=> (~ Alive(u)' \/ env'[u] = "yield")
    BY <2>1, <2>2, <2>3, <2>5 DEF Over, Alive
  <2>7. \A t \in Thread : t # Running => env'[t] = env[t]
    BY <2>1, <2>3
  <2>8. Completed(u)' = Completed(u)
    BY <2>1, <2>6, <2>7, HandOnCounts DEF Busy
  <2> QED BY <2>1, <2>8
<1>4. CASE Exit
  <2>1. UNCHANGED <<env, data>> /\ pc = "exit" /\ RunNext(PolledReady)
    BY <1>4 DEF Exit
  <2>2. /\ Running \in Thread /\ Running \in Slots(ready) /\ \A w : Runs(w) <=> w = Running
    BY <2>1, RunningRuns DEF Busy
  <2>3. /\ Slots(ready') = (Slots(ready) \cup (Slots(waiting) \cap Ripe)) \ {Running}
        /\ Slots(waiting') = Slots(waiting) \ Ripe
        /\ Running \notin Slots(waiting)
    BY <1>4, <2>1, ExitKeeps, HandsOn DEF Busy
  <2>4. Alive(u)' <=> Alive(u) /\ u # Running
    BY <2>3 DEF Alive
  <2>5. Over(u) <=> (~ Alive(u)' \/ env'[u] = "yield")
    BY <2>1, <2>2, <2>4 DEF Over
  <2>6. Completed(u)' = Completed(u)
    BY <2>1, <2>5, HandOnCounts DEF Busy
  <2> QED BY <2>1, <2>6
<1>5. CASE Wake
  <2>1. /\ UNCHANGED <<env, data>> /\ pc = "select" /\ rq_current' = rq_current
        /\ ready' = PolledReady /\ waiting' = PolledWaiting /\ Resume(ready'[rq_current + 1], mask)
    BY <1>5 DEF Wake
  <2>2. /\ ready' \in Seq(Thread) /\ Len(ready') \in Nat
        /\ Slots(ready') = Slots(ready) \cup (Slots(waiting) \cap Ripe)
        /\ Slots(waiting') = Slots(waiting) \ Ripe
    BY <2>1, Polled
  <2>3. rq_current' < Len(ready')
    BY <1>5, WakeKeeps
  <2>4. rq_current \in Nat /\ rq_current' + 1 \in DOMAIN ready' /\ ready = <<>>
    BY <2>1, <2>2, <2>3 DEF TypeOK, QueueInv
  <2> DEFINE t == ready'[rq_current + 1]
  <2>5. t \in Thread /\ t \in Slots(ready') /\ Running' = t /\ env'[t] = env[t]
    BY <2>1, <2>2, <2>4 DEF Slots, Running
  <2>6. Alive(u)' <=> Alive(u)
    BY <2>2 DEF Alive
  <2>7. ~ Runs(u)
    BY <2>4 DEF Runs
  <2>8. Over(u) <=> (~ Alive(u)' \/ env'[u] = "yield")
    BY <2>1, <2>6, <2>7 DEF Over
  <2>9. Resume(t, mask)
    BY <2>1
  <2> HIDE DEF t
  <2>10. Completed(u)' = Completed(u)
    BY <2>3, <2>5, <2>8, <2>9, ResumeCounts
  <2> QED BY <2>1, <2>10
<1>6. CASE \/ AlarmRings \/ CtrlZ
           \/ \E t \in Reader : OpenFifo(t) \/ CloseFifo(t) \/ \E n \in Item : Write(t, n)
           \/ UNCHANGED vars
  <2>1. UNCHANGED <<queues, pc, iter, env, data>>
    BY <1>6 DEF AlarmRings, CtrlZ, OpenFifo, CloseFifo, Write, vars
  <2> QED BY <2>1 DEF Completed, Runs, Running, Alive, queues
<1> QED BY <1>1, <1>2, <1>3, <1>4, <1>5, <1>6 DEF Next, Process

LEMMA WorkCounts ==
  ASSUME TypeOK, QueueInv, Work, NEW u \in Thread
  PROVE  /\ u = Running  => Completed(u) = iter[u] - 1 /\ Completed(u)' = iter[u]
         /\ u # Running => Completed(u)' = Completed(u)
<1>1. UNCHANGED <<ready, waiting, rq_current, iter>> /\ pc = "work" /\ pc' \in {"exit", "tstp"}
  BY DEF Work, queues
<1>2. /\ Running \in Thread /\ \A w : Runs(w) <=> w = Running
  BY <1>1, RunningRuns DEF Busy
<1>3. \A w : Runs(w)' <=> w = Running
  BY <1>1, <1>2 DEF Runs, Running
<1>4. u # Running => env'[u] = env[u]
  BY DEF Work, TypeOK
<1>5. Completed(u)' = IF Over(u)' THEN iter'[u] ELSE iter'[u] - 1
  BY DEF Completed, Over
<1>6. CASE u = Running
  BY <1>1, <1>2, <1>3, <1>5, <1>6, CompletedIs DEF Over
<1>7. CASE u # Running
  <2>1. Over(u)' <=> Over(u)
    BY <1>1, <1>2, <1>3, <1>4, <1>7 DEF Over, Alive
  <2> QED BY <1>1, <1>5, <1>7, <2>1, CompletedIs
<1> QED BY <1>6, <1>7

-----------------------------------------------------------------------------
(* Numbers. *)

LEMMA WrapOfInt == \A n \in CInt : Wrap(n) = n
<1> SUFFICES ASSUME NEW n \in CInt PROVE Wrap(n) = n
  OBVIOUS
<1> DEFINE d == 2 * IntMax + 2
           a == n + IntMax + 1
<1>1. IntMax \in Nat
  BY SchedulerAssumption
<1>2. n \in Int /\ a \in Nat /\ d \in Nat \ {0} /\ a < d
  BY <1>1 DEF CInt
<1>3. a % d = a
  <2> HIDE DEF a, d
  <2> QED BY <1>2
<1>4. Wrap(n) = (a % d) - (IntMax + 1)
  BY DEF Wrap
<1>5. Wrap(n) = a - (IntMax + 1)
  BY <1>3, <1>4
<1> QED BY <1>1, <1>2, <1>5

\* Numbers that differ by multiples of d leave the same rest.
LEMMA SameRest ==
  ASSUME NEW d \in Nat \ {0}, NEW a \in Int, NEW k \in Int
  PROVE  (a + d * k) % d = a % d
<1> DEFINE b == a + d * k
           p == a \div d
           q == b \div d
           r == a % d
           s == b % d
<1>1. b \in Int
  OBVIOUS
<1>2. /\ p \in Int /\ r \in 0 .. d - 1 /\ a = d * p + r
  OBVIOUS
<1>3. /\ q \in Int /\ s \in 0 .. d - 1 /\ b = d * q + s
  <2> HIDE DEF b
  <2> QED BY <1>1
<1>4. d * (q - p - k) = r - s
  <2>1. b = a + d * k
    OBVIOUS
  <2> HIDE DEF b, p, q, r, s
  <2> QED BY <1>2, <1>3, <2>1
<1> HIDE DEF b, p, q, r, s
<1> DEFINE e == q - p - k
<1>5. e \in Int /\ d * e = r - s
  BY <1>2, <1>3, <1>4
<1> HIDE DEF e
<1>6. d * e < d /\ d * e > - d
  BY <1>2, <1>3, <1>5
<1>7. e = 0
  BY <1>5, <1>6
<1>8. r = s
  BY <1>2, <1>3, <1>5, <1>7
<1> QED BY <1>8 DEF r, s, b

\* int addition can be done on the ints or on the numbers they stand for.
LEMMA WrapOfSum ==
  ASSUME NEW a \in Int, NEW b \in Int
  PROVE  Wrap(Wrap(a) + Wrap(b)) = Wrap(a + b)
<1> DEFINE h == IntMax + 1
           d == 2 * IntMax + 2
<1>1. h \in Nat /\ d \in Nat \ {0}
  BY SchedulerAssumption
<1>2. \A n : Wrap(n) = ((n + IntMax + 1) % d) - h
  BY DEF Wrap
<1>3. IntMax \in Nat
  BY SchedulerAssumption
<1>4. \A n \in Int : Wrap(n) = ((n + h) % d) - h
  <2> SUFFICES ASSUME NEW n \in Int PROVE Wrap(n) = ((n + h) % d) - h
    OBVIOUS
  <2>1. n + IntMax + 1 = n + h
    BY <1>3
  <2> HIDE DEF d, h
  <2> QED BY <1>2, <2>1
<1> HIDE DEF h, d
<1>5. \A n \in Int : \E k \in Int : Wrap(n) = n + d * k
  <2> SUFFICES ASSUME NEW n \in Int PROVE \E k \in Int : Wrap(n) = n + d * k
    OBVIOUS
  <2> DEFINE m == n + h
             q == m \div d
  <2>1. m \in Int
    BY <1>1
  <2>2. q \in Int /\ m = d * q + (m % d) /\ m % d \in Int
    <3> HIDE DEF m
    <3> QED BY <1>1, <2>1
  <2>3. Wrap(n) = (m % d) - h
    BY <1>4
  <2>4. m = n + h
    OBVIOUS
  <2> HIDE DEF m, q
  <2>5. Wrap(n) = n + d * (- q)
    BY <1>1, <2>1, <2>2, <2>3, <2>4
  <2> QED BY <2>2, <2>5
<1>6. PICK j \in Int : Wrap(a) = a + d * j
  BY <1>5
<1>7. PICK k \in Int : Wrap(b) = b + d * k
  BY <1>5
<1>8. Wrap(a) + Wrap(b) = (a + b) + d * (j + k)
  BY <1>1, <1>6, <1>7
<1>9. (Wrap(a) + Wrap(b)) + h = (a + b + h) + d * (j + k)
  BY <1>1, <1>8
<1> DEFINE s == a + b + h
           t == (Wrap(a) + Wrap(b)) + h
<1>10. s \in Int /\ j + k \in Int
  BY <1>1
<1>11. t = s + d * (j + k)
  BY <1>9
<1> HIDE DEF s
<1>12. t % d = s % d
  BY <1>1, <1>10, <1>11, SameRest
<1>13. Wrap(a) + Wrap(b) \in Int /\ a + b \in Int
  BY <1>1, <1>6, <1>7
<1>14. Wrap(Wrap(a) + Wrap(b)) = (t % d) - h /\ Wrap(a + b) = (s % d) - h
  BY <1>4, <1>13 DEF s
<1> QED BY <1>12, <1>14

-----------------------------------------------------------------------------
(* What fibonacci and collatz are to print. *)

LEMMA FibIs ==
  /\ Fib \in [Nat -> Nat] /\ Fib[0] = 0 /\ Fib[1] = 1
  /\ \A n \in Nat : Fib[n + 2] = Fib[n + 1] + Fib[n]
<1> DEFINE S == Nat \X Nat
           z == <<0, 1>>
           h == [p \in S |-> <<p[2], p[1] + p[2]>>]
           Step(f) == [n \in Nat |-> IF n = 0 THEN 0 ELSE IF n = 1 THEN 1 ELSE f[n - 1] + f[n - 2]]
<1>1. z \in S /\ h \in [S -> S]
  OBVIOUS
<1>2. PICK f \in [Nat -> S] : f[0] = z /\ \A n \in Nat : f[n + 1] = h[f[n]]
  <2> HIDE DEF h, z, S
  <2> QED BY <1>1, StepsForever
<1> DEFINE F == [n \in Nat |-> f[n][1]]
<1>3. \A n \in Nat : f[n] \in S /\ F[n] = f[n][1] /\ F[n] \in Nat
  BY <1>2
<1>4. \A n \in Nat : f[n + 1] = <<f[n][2], f[n][1] + f[n][2]>>
  BY <1>2, <1>3
<1> HIDE DEF h, S
<1>5. F[0] = 0 /\ F[1] = 1
  <2>1. f[0 + 1] = <<f[0][2], f[0][1] + f[0][2]>>
    BY <1>4
  <2> QED BY <1>2, <1>3, <2>1
<1>6. ASSUME NEW n \in Nat PROVE F[n + 2] = F[n] + F[n + 1]
  <2>1. n + 1 \in Nat /\ n + 2 \in Nat /\ (n + 1) + 1 = n + 2
    OBVIOUS
  <2>2. f[n + 2][1] = f[n + 1][2] /\ f[n + 1][2] = f[n][1] + f[n][2] /\ f[n + 1][1] = f[n][2]
    <3>1. f[(n + 1) + 1] = <<f[n + 1][2], f[n + 1][1] + f[n + 1][2]>>
      BY <1>4, <2>1
    <3>2. f[n + 1] = <<f[n][2], f[n][1] + f[n][2]>>
      BY <1>4
    <3> QED BY <2>1, <3>1, <3>2
  <2> QED BY <1>3, <2>1, <2>2
<1>7. F = [n \in Nat |-> F[n]] /\ F \in [Nat -> Nat]
  BY <1>3
<1> HIDE DEF F
<1>8. ASSUME NEW n \in Nat PROVE F[n] = IF n = 0 THEN 0 ELSE IF n = 1 THEN 1 ELSE F[n - 1] + F[n - 2]
  <2>1. CASE n = 0 \/ n = 1
    BY <1>5, <2>1
  <2>2. CASE n # 0 /\ n # 1
    <3> DEFINE m == n - 2
    <3>1. m \in Nat /\ n = m + 2 /\ n - 1 = m + 1
      BY <2>2
    <3>2. F[n] = F[m] + F[m + 1]
      BY <1>6, <3>1
    <3>3. F[m] \in Nat /\ F[m + 1] \in Nat
      BY <1>7, <3>1
    <3> QED BY <2>2, <3>1, <3>2, <3>3
  <2> QED BY <2>1, <2>2
<1>9. F = Step(F)
  BY <1>7, <1>8
<1>10. Fib = Step(Fib)
  BY <1>9 DEF Fib
<1>11. \A n \in Nat : Fib[n] = IF n = 0 THEN 0 ELSE IF n = 1 THEN 1 ELSE Fib[n - 1] + Fib[n - 2]
  BY <1>10
<1>12. Fib[0] = 0 /\ Fib[1] = 1
  BY <1>11
<1>13. ASSUME NEW n \in Nat PROVE Fib[n + 2] = Fib[n + 1] + Fib[n]
  <2>1. n + 2 \in Nat /\ n + 2 # 0 /\ n + 2 # 1 /\ (n + 2) - 1 = n + 1 /\ (n + 2) - 2 = n
    OBVIOUS
  <2> QED BY <1>11, <2>1
<1> DEFINE G == {n \in Nat : Fib[n] \in Nat /\ Fib[n + 1] \in Nat}
<1>14. 0 \in G
  BY <1>12
<1>15. ASSUME NEW n \in Nat, n \in G PROVE n + 1 \in G
  <2>1. Fib[n] \in Nat /\ Fib[n + 1] \in Nat /\ Fib[n + 2] = Fib[n + 1] + Fib[n]
    BY <1>13, <1>15
  <2>2. (n + 1) + 1 = n + 2 /\ Fib[n + 2] \in Nat
    BY <2>1
  <2> QED BY <2>1, <2>2
<1>16. \A n \in Nat : Fib[n] \in Nat /\ Fib[n + 1] \in Nat
  <2>1. \A n \in Nat : n \in G
    <3> HIDE DEF G
    <3> QED BY <1>14, <1>15, SetInduction
  <2> QED BY <2>1
<1>17. Fib \in [Nat -> Nat]
  BY <1>10, <1>16
<1> QED BY <1>12, <1>13, <1>16, <1>17

\* The terms of collatz go on in the same way however many of them there are.
Half(n) == IF n % 2 = 0 THEN n \div 2 ELSE 3 * n + 1

LEMMA HailstoneIs ==
  ASSUME NEW a \in Int
  PROVE  \E f \in [Nat -> Int] :
           /\ f[0] = a /\ \A n \in Nat : f[n + 1] = Half(f[n])
           /\ \A k \in Nat : DOMAIN Hailstone(a, k) = 0 .. k /\ \A n \in 0 .. k : Hailstone(a, k)[n] = f[n]
<1> DEFINE h == [n \in Int |-> Half(n)]
           S == Int
           z == a
<1>1. h \in [S -> S] /\ z \in S
  BY DEF Half
<1>2. PICK f \in [Nat -> S] : f[0] = z /\ \A n \in Nat : f[n + 1] = h[f[n]]
  <2> HIDE DEF h, z, S
  <2> QED BY <1>1, StepsForever
<1>3. \A n \in Nat : f[n + 1] = Half(f[n])
  BY <1>2
<1> HIDE DEF h
<1>4. ASSUME NEW k \in Nat
      PROVE  DOMAIN Hailstone(a, k) = 0 .. k /\ \A n \in 0 .. k : Hailstone(a, k)[n] = f[n]
  <2> DEFINE Step(t) == [n \in 0 .. k |-> IF n = 0 THEN a
                                          ELSE IF t[n - 1] % 2 = 0 THEN t[n - 1] \div 2
                                                                   ELSE 3 * t[n - 1] + 1]
             g == [n \in 0 .. k |-> f[n]]
             term == Hailstone(a, k)
  <2>1. ASSUME NEW n \in 0 .. k, n # 0 PROVE g[n - 1] = f[n - 1] /\ f[n] = Half(f[n - 1])
    <3>1. n - 1 \in 0 .. k /\ n - 1 \in Nat /\ n = (n - 1) + 1
      BY <2>1
    <3> QED BY <1>3, <3>1
  <2>2. \A n \in 0 .. k : g[n] = f[n]
    OBVIOUS
  <2>3. g = [n \in 0 .. k |-> g[n]]
    OBVIOUS
  <2> HIDE DEF g
  <2>4. g = Step(g)
    BY <1>2, <2>1, <2>2, <2>3 DEF Half
  <2>5. term = Step(term)
    BY <2>4 DEF Hailstone
  <2>6. DOMAIN term = 0 .. k
    BY <2>5
  <2> DEFINE G == {n \in Nat : n <= k => term[n] = f[n]}
  <2>7. 0 \in G
    BY <1>2, <2>5
  <2>8. ASSUME NEW n \in Nat, n \in G PROVE n + 1 \in G
    <3> SUFFICES ASSUME n + 1 <= k PROVE term[n + 1] = f[n + 1]
      OBVIOUS
    <3>1. n + 1 \in 0 .. k /\ n + 1 # 0 /\ (n + 1) - 1 = n /\ n <= k
      OBVIOUS
    <3>2. term[n] = f[n]
      BY <2>8, <3>1
    <3>3. term[n + 1] = Half(term[n])
      <4>1. Step(term)[n + 1] = Half(term[n])
        BY <3>1 DEF Half
      <4> HIDE DEF Step, term
      <4> QED BY <2>5, <4>1
    <3> QED BY <1>3, <3>2, <3>3
  <2> HIDE DEF term
  <2>9. \A n \in Nat : n \in G
    <3> HIDE DEF G
    <3> QED BY <2>7, <2>8, SetInduction
  <2>10. \A n \in 0 .. k : term[n] = f[n]
    BY <2>9
  <2> QED BY <2>6, <2>10 DEF term
<1> QED BY <1>2, <1>3, <1>4

\* How many iterations a finite thread has behind it, and for fibonacci also the
\* term before the last.
Progressed ==
  /\ \A t \in Thread : Arg[t] # 0 => Completed(t) \in Nat
  /\ \A t \in Fibonacci : Arg[t] # 0 /\ Completed(t) >= 2 => x[t] = Wrap(Fib[Completed(t) - 1])

FibonacciRight(t) == Arg[t] # 0 => y[t] = Wrap(Fib[Completed(t)])
CollatzRight(t) ==
  LET term == Hailstone(Arg[t], Completed(t)) IN
  Completed(t) > 0 /\ Arg[t] # 0 /\ (\A k \in DOMAIN term : term[k] \in CInt)
    => x[t] = term[Completed(t)]

LEMMA SequencesAre ==
  SequencesRight <=> (\A t \in Fibonacci : FibonacciRight(t)) /\ (\A t \in Collatz : CollatzRight(t))
BY DEF SequencesRight, FibonacciRight, CollatzRight

LEMMA OthersKeep ==
  ASSUME TypeOK, QueueInv, Work, NEW u \in Thread, u # Running
  PROVE  x'[u] = x[u] /\ y'[u] = y[u] /\ sum'[u] = sum[u] /\ got'[u] = got[u]
BY DEF Work, FibonacciStep, CollatzStep, MaxSubarray, TypeOK

LEMMA FibonacciGoesOn ==
  ASSUME TypeOK, QueueInv, Work, Progressed, NEW t \in Fibonacci, t = Running, Arg[t] # 0,
         FibonacciRight(t)
  PROVE  /\ FibonacciRight(t)'
         /\ Completed(t)' >= 2 => x'[t] = Wrap(Fib[Completed(t)' - 1])
<1> DEFINE c == Completed(t)
<1>2. t \in Thread /\ FibonacciStep(t)
  BY SchedulerAssumption DEF Work
<1>3. c = iter[t] - 1 /\ Completed(t)' = iter[t]
  BY <1>2, WorkCounts
<1>4. c \in Nat /\ iter[t] \in Nat
  BY <1>2 DEF Progressed, TypeOK
<1>5. /\ x'[t] = IF iter[t] <= 2 THEN 1 ELSE y[t]
      /\ y'[t] = IF iter[t] <= 2 THEN 1 ELSE Wrap(x[t] + y[t])
  BY <1>2 DEF FibonacciStep, TypeOK
<1>6. y[t] = Wrap(Fib[c]) /\ (c >= 2 => x[t] = Wrap(Fib[c - 1]))
  BY DEF FibonacciRight, Progressed
<1> HIDE DEF c
<1> DEFINE n == iter[t]
<1>7. n \in Nat /\ c = n - 1 /\ n >= 1
  BY <1>3, <1>4
<1>8. y'[t] = Wrap(Fib[n]) /\ (n >= 2 => x'[t] = Wrap(Fib[n - 1]))
  <2>1. Wrap(1) = 1
    BY WrapOfInt, SchedulerAssumption DEF CInt
  <2>2. Fib[1] = 1 /\ Fib[2] = 1
    <3>1. Fib[0 + 2] = Fib[0 + 1] + Fib[0]
      BY FibIs
    <3> QED BY <3>1, FibIs
  <2>3. CASE n = 1
    BY <1>5, <2>1, <2>2, <2>3
  <2>4. CASE n = 2
    BY <1>5, <2>1, <2>2, <2>4
  <2>5. CASE n >= 3
    <3> DEFINE m == n - 2
    <3>1. m \in Nat /\ c = m + 1 /\ c - 1 = m /\ n = m + 2 /\ n - 1 = m + 1 /\ c >= 2 /\ ~ n <= 2
      BY <1>7, <2>5
    <3>2. x[t] = Wrap(Fib[m]) /\ y[t] = Wrap(Fib[m + 1])
      BY <1>6, <3>1
    <3>3. Fib[n] = Fib[m + 1] + Fib[m] /\ Fib[m] \in Int /\ Fib[m + 1] \in Int
      <4>1. Fib[m + 2] = Fib[m + 1] + Fib[m] /\ Fib[m] \in Nat /\ Fib[m + 1] \in Nat
        <5>1. m \in Nat /\ m + 1 \in Nat
          BY <3>1
        <5> HIDE DEF m
        <5> QED BY <5>1, FibIs
      <4> HIDE DEF m, n
      <4> QED BY <3>1, <4>1
    <3>4. x'[t] = y[t] /\ y'[t] = Wrap(x[t] + y[t])
      BY <1>5, <3>1
    <3> HIDE DEF m, n
    <3>5. Wrap(Wrap(Fib[m]) + Wrap(Fib[m + 1])) = Wrap(Fib[m] + Fib[m + 1])
      BY <3>3, WrapOfSum
    <3>6. Fib[m] + Fib[m + 1] = Fib[n]
      BY <3>3
    <3>7. y'[t] = Wrap(Fib[n])
      BY <3>2, <3>4, <3>5, <3>6
    <3> QED BY <3>1, <3>2, <3>4, <3>7
  <2> QED BY <1>7, <2>3, <2>4, <2>5
<1>9. Completed(t)' = n
  BY <1>3
<1> HIDE DEF n
<1> QED BY <1>8, <1>9 DEF FibonacciRight

LEMMA CollatzGoesOn ==
  ASSUME TypeOK, QueueInv, Work, Progressed, NEW t \in Collatz, t = Running, Arg[t] # 0,
         CollatzRight(t)
  PROVE  CollatzRight(t)'
<1> DEFINE c == Completed(t)
           n == iter[t]
           v == IF n = 1 THEN Arg[t] ELSE x[t]
<1>2. t \in Thread /\ CollatzStep(t)
  BY SchedulerAssumption DEF Work
<1>3. c = n - 1 /\ Completed(t)' = n
  BY <1>2, WorkCounts
<1>4. c \in Nat /\ n \in Nat
  BY <1>2 DEF Progressed, TypeOK
<1>5. x'[t] = IF v % 2 = 0 THEN v \div 2 ELSE Wrap(3 * v + 1)
  BY <1>2 DEF CollatzStep, TypeOK
<1>6. Arg[t] \in Int
  BY <1>2, SchedulerAssumption
<1>7. PICK f \in [Nat -> Int] :
        /\ f[0] = Arg[t] /\ \A k \in Nat : f[k + 1] = Half(f[k])
        /\ \A k \in Nat : DOMAIN Hailstone(Arg[t], k) = 0 .. k
                          /\ \A j \in 0 .. k : Hailstone(Arg[t], k)[j] = f[j]
  BY <1>6, HailstoneIs
<1> HIDE DEF c, n, v
<1>9. n = c + 1
  BY <1>3, <1>4
<1>10. ASSUME \A k \in 0 .. n : f[k] \in CInt PROVE x'[t] = f[n]
  <2>1. v = f[c]
    <3>1. CASE c = 0
      BY <1>7, <1>9, <3>1 DEF v
    <3>2. CASE c > 0
      <4>1. \A k \in DOMAIN Hailstone(Arg[t], c) : Hailstone(Arg[t], c)[k] \in CInt
        BY <1>4, <1>7, <1>9, <1>10
      <4>2. x[t] = Hailstone(Arg[t], c)[c]
        BY <3>2, <4>1 DEF CollatzRight, c
      <4>3. n # 1
        BY <1>4, <1>9, <3>2
      <4>4. c \in 0 .. c
        BY <1>4
      <4>5. Hailstone(Arg[t], c)[c] = f[c]
        BY <1>4, <1>7, <4>4
      <4> QED BY <4>2, <4>3, <4>5 DEF v
    <3> QED BY <1>4, <3>1, <3>2
  <2>2. f[n] = Half(f[c]) /\ f[n] \in CInt /\ f[c] \in Int
    BY <1>4, <1>7, <1>9, <1>10
  <2>3. CASE v % 2 = 0
    BY <1>5, <2>1, <2>2, <2>3 DEF Half
  <2>4. CASE v % 2 # 0
    <3>1. f[n] = 3 * v + 1
      BY <2>1, <2>2, <2>4 DEF Half
    <3> QED BY <1>5, <2>2, <2>4, <3>1, WrapOfInt
  <2> QED BY <2>3, <2>4
<1>11. Completed(t)' = n
  BY <1>3
<1>12. ASSUME \A k \in DOMAIN Hailstone(Arg[t], n) : Hailstone(Arg[t], n)[k] \in CInt
       PROVE  x'[t] = Hailstone(Arg[t], n)[n]
  <2>1. DOMAIN Hailstone(Arg[t], n) = 0 .. n /\ \A k \in 0 .. n : Hailstone(Arg[t], n)[k] = f[k]
    BY <1>4, <1>7
  <2>2. \A k \in 0 .. n : f[k] \in CInt
    BY <1>12, <2>1
  <2>3. n \in 0 .. n
    BY <1>4
  <2> QED BY <1>10, <2>1, <2>2, <2>3
<1> QED BY <1>11, <1>12 DEF CollatzRight

LEMMA ProgressStep ==
  ASSUME TypeOK, QueueInv, MaskInv, Progressed, SequencesRight, [Next]_vars
  PROVE  Progressed' /\ SequencesRight'
<1>1. CASE ~ Work
  <2>1. UNCHANGED <<x, y>> /\ \A t \in Thread : Arg[t] # 0 => Completed(t)' = Completed(t)
    <3>1. \A t \in Thread : Arg[t] # 0 => Completed(t)' = Completed(t) /\ UNCHANGED data
      BY <1>1, SwitchCounts
    <3>2. UNCHANGED <<x, y>>
      BY <1>1 DEF Next, Process, CloseWindow, Interrupt, Await, Exit, Wake, AlarmRings, CtrlZ,
         OpenFifo, Write, CloseFifo, data, vars
    <3> QED BY <3>1, <3>2
  <2>2. Progressed'
    BY <2>1, ReaderIsThread DEF Progressed
  <2>3. \A t \in Fibonacci : FibonacciRight(t)'
    BY <2>1, ReaderIsThread, SequencesAre DEF FibonacciRight
  <2>4. \A t \in Collatz : CollatzRight(t)'
    <3> SUFFICES ASSUME NEW t \in Collatz PROVE CollatzRight(t)'
      OBVIOUS
    <3>1. CollatzRight(t) /\ t \in Thread
      BY ReaderIsThread, SequencesAre
    <3>2. CASE Arg[t] = 0
      BY <3>2 DEF CollatzRight
    <3>3. CASE Arg[t] # 0
      BY <2>1, <3>1, <3>3 DEF CollatzRight
    <3> QED BY <3>2, <3>3
  <2>5. (SequencesRight <=> (\A t \in Fibonacci : FibonacciRight(t)) /\ (\A t \in Collatz : CollatzRight(t)))'
    BY SequencesAre, PTL
  <2> QED BY <2>2, <2>3, <2>4, <2>5
<1>2. CASE Work
  <2>1. \A t \in Thread : t # Running => Completed(t)' = Completed(t) /\ x'[t] = x[t] /\ y'[t] = y[t]
    BY <1>2, WorkCounts, OthersKeep
  <2>2. \A t \in Thread : t = Running => Completed(t)' \in Nat
    BY <1>2, WorkCounts DEF TypeOK
  <2>3. \A t \in Fibonacci : FibonacciRight(t)
                             /\ (Arg[t] # 0 /\ Completed(t) >= 2 => x[t] = Wrap(Fib[Completed(t) - 1]))
    BY SequencesAre DEF Progressed
  <2>4. ASSUME NEW t \in Fibonacci
        PROVE  /\ FibonacciRight(t)'
               /\ Arg[t] # 0 /\ Completed(t)' >= 2 => x'[t] = Wrap(Fib[Completed(t)' - 1])
    <3>1. CASE t # Running \/ Arg[t] = 0
      BY <2>1, <2>3, <3>1, ReaderIsThread DEF FibonacciRight
    <3>2. CASE t = Running /\ Arg[t] # 0
      BY <1>2, <2>3, <3>2, FibonacciGoesOn
    <3> QED BY <3>1, <3>2
  <2>5. ASSUME NEW t \in Collatz PROVE CollatzRight(t)'
    <3>1. CollatzRight(t) /\ t \in Thread
      BY ReaderIsThread, SequencesAre
    <3>2. CASE Arg[t] = 0
      BY <3>2 DEF CollatzRight
    <3>3. CASE t # Running
      BY <2>1, <3>1, <3>3 DEF CollatzRight
    <3>4. CASE t = Running /\ Arg[t] # 0
      BY <1>2, <3>1, <3>4, CollatzGoesOn
    <3> QED BY <3>2, <3>3, <3>4
  <2>6. Progressed'
    BY <2>1, <2>2, <2>4 DEF Progressed
  <2>7. (SequencesRight <=> (\A t \in Fibonacci : FibonacciRight(t)) /\ (\A t \in Collatz : CollatzRight(t)))'
    BY SequencesAre, PTL
  <2> QED BY <2>4, <2>5, <2>6, <2>7
<1> QED BY <1>1, <1>2

LEMMA ProgressInit == Init => Progressed /\ SequencesRight
<1> SUFFICES ASSUME Init PROVE Progressed /\ SequencesRight
  OBVIOUS
<1>1. /\ ready = Threads /\ rq_current = 0 /\ env = [t \in Thread |-> "setup"] /\ iter = [t \in Thread |-> 1]
      /\ x = [t \in Thread |-> 0] /\ y = [t \in Thread |-> 0] /\ pc \in {"work", "await"}
  BY DEF Init, init_threads, start_threading, Top
<1>2. \A t \in Thread : Completed(t) = 0
  <2>1. \A t \in Thread : Alive(t)
    BY <1>1 DEF Alive, Slots, Thread
  <2> QED BY <1>1, <2>1 DEF Completed
<1>3. Wrap(Fib[0]) = 0
  BY FibIs, WrapOfInt, SchedulerAssumption DEF CInt
<1>4. Progressed
  BY <1>2, ReaderIsThread DEF Progressed
<1>5. \A t \in Fibonacci : FibonacciRight(t)
  BY <1>1, <1>2, <1>3, ReaderIsThread DEF FibonacciRight
<1>6. \A t \in Collatz : CollatzRight(t)
  BY <1>2, ReaderIsThread DEF CollatzRight
<1> QED BY <1>4, <1>5, <1>6, SequencesAre

LEMMA Progress == Spec => [](Progressed /\ SequencesRight /\ MaskInv /\ TypeOK /\ QueueInv)
BY MaskInit, MaskStep, QueueInit, QueueStep, ProgressInit, ProgressStep, PTL DEF Spec

\* Wherever fibonacci and collatz are interrupted, and however long they are away,
\* the terms they print have no gap and no repetition: those of fibonacci as an int
\* holds them, those of collatz as long as they fit into one.
THEOREM SequencesStayRight == Spec => []SequencesRight
BY Progress, PTL

-----------------------------------------------------------------------------
(* What readers are fed, while writers keep their end open. *)

\* Who is past async_read has a number waiting for it.
Fed ==
  \A t \in Reader :
    /\ writer[t] # "gone" /\ Len(sent[t]) <= MaxSent
    /\ Runs(t) /\ pc = "work" => HasData(t)
    /\ t \in Slots(ready) /\ ~ Runs(t) /\ env[t] = "read" => HasData(t)

LEMMA ReadersHaveNoOtherWork ==
  \A t \in Reader : t \notin Fibonacci /\ t \notin Collatz /\ t \in Thread
BY SchedulerAssumption

\* A switch to t: those that were in the ready queue or come into it are fed as they
\* were when they were left.
LEMMA ResumeFeeds ==
  ASSUME TypeOK, NEW t \in Thread, NEW m, Resume(t, m), Running' = t, rq_current' < Len(ready'),
         UNCHANGED fifos, got' = got, NEW u \in Reader,
         u \in Slots(ready') /\ env'[u] = "read" => HasData(u),
         env'[t] = env[t], t \in Slots(ready')
  PROVE  /\ Runs(u)' /\ pc' = "work" => HasData(u)'
         /\ (u \in Slots(ready) /\ ~ Runs(u) /\ env[u] = "read" => HasData(u))'
<1>1. \A w : Runs(w)' <=> w = t
  BY DEF Runs
<1>2. HasData(u)' <=> HasData(u)
  BY DEF HasData, fifos
<1>3. ASSUME u = t, pc' = "work" PROVE HasData(u)
  <2>1. env[t] = "read"
    BY <1>3 DEF Resume, Top
  <2> QED BY <1>3, <2>1
<1> QED BY <1>1, <1>2, <1>3

LEMMA FedStep ==
  ASSUME TypeOK, QueueInv, MaskInv, Fed, ~ WriterCloses, [Next]_vars
  PROVE  Fed'
<1>1. CASE Work
  <2>1. /\ UNCHANGED <<ready, waiting, rq_current, fifos>> /\ pc = "work" /\ pc' \in {"exit", "tstp"}
        /\ \A u \in Thread : u # Running => env'[u] = env[u]
    BY <1>1 DEF Work, queues, TypeOK
  <2>2. \A w : Runs(w)' <=> Runs(w)
    BY <2>1 DEF Runs, Running
  <2>3. \A w : Runs(w) <=> w = Running
    BY <2>1, RunningRuns DEF Busy
  <2> SUFFICES ASSUME NEW u \in Reader
               PROVE  /\ writer'[u] # "gone" /\ Len(sent'[u]) <= MaxSent
                      /\ Runs(u)' /\ pc' = "work" => HasData(u)'
                      /\ (u \in Slots(ready) /\ ~ Runs(u) /\ env[u] = "read" => HasData(u))'
    BY DEF Fed
  <2>4. CASE u = Running
    BY <2>1, <2>2, <2>3, <2>4 DEF Fed, fifos
  <2>5. CASE u # Running
    <3>1. got'[u] = got[u] /\ sent' = sent /\ u \in Thread
      BY <1>1, <2>1, <2>5, OthersKeep, ReadersHaveNoOtherWork DEF fifos
    <3> QED BY <2>1, <2>2, <2>3, <2>5, <3>1 DEF Fed, HasData, fifos
  <2> QED BY <2>4, <2>5
<1>2. CASE CloseWindow
  <2>1. UNCHANGED <<ready, waiting, rq_current, env, data, fifos>> /\ pc \in {"tstp", "alrm"}
    BY <1>2 DEF CloseWindow, queues
  <2>2. /\ Running \in Thread /\ Running \in Slots(ready) /\ rq_current < Len(ready)
        /\ \A w : Runs(w) <=> w = Running
    BY <2>1, RunningRuns DEF Busy
  <2>3. env[Running] = "yield" /\ Running' = Running
    BY <2>1 DEF MaskInv, Running
  <2>4. pc' # "work" \/ Running \notin Reader
    BY <1>2, <2>3 DEF CloseWindow, Resume, Top
  <2>5. \A w : (Runs(w)' <=> Runs(w)) /\ (HasData(w)' <=> HasData(w))
    BY <2>1 DEF Runs, Running, HasData, fifos, data
  <2> QED BY <2>1, <2>2, <2>4, <2>5 DEF Fed, fifos
<1>3. ASSUME NEW signo \in Both, Interrupt(signo) PROVE Fed'
  <2>1. /\ UNCHANGED <<env, data, fifos>> /\ pc \in {"tstp", "alrm"}
        /\ ready' = PolledReady /\ waiting' = PolledWaiting
        /\ Resume(ready'[rq_current' + 1], mask \cup {signo})
    BY <1>3 DEF Interrupt
  <2>2. /\ ready' \in Seq(Thread) /\ Len(ready') \in Nat
        /\ Slots(ready') = Slots(ready) \cup (Slots(waiting) \cap Ripe)
    BY <2>1, Polled
  <2>3. TypeOK' /\ rq_current' < Len(ready')
    BY <1>3, InterruptKeeps
  <2>4. rq_current' \in Nat /\ rq_current' + 1 \in DOMAIN ready'
    BY <2>2, <2>3 DEF TypeOK
  <2> DEFINE t == ready'[rq_current' + 1]
  <2>5. t \in Thread /\ t \in Slots(ready') /\ Running' = t /\ env'[t] = env[t]
    BY <2>1, <2>2, <2>4 DEF Slots, Running
  <2>6. Resume(t, mask \cup {signo}) /\ got' = got
    BY <2>1 DEF data
  <2> HIDE DEF t
  <2>7. env[Running] = "yield" /\ \A w : Runs(w) <=> w = Running
    BY <2>1, RunningRuns DEF MaskInv, Busy
  <2>8. \A u \in Reader : u \in Slots(ready') /\ env'[u] = "read" => HasData(u)
    BY <2>1, <2>2, <2>7 DEF Fed, Ripe, Readable
  <2>9. \A u \in Reader : /\ Runs(u)' /\ pc' = "work" => HasData(u)'
                          /\ (u \in Slots(ready) /\ ~ Runs(u) /\ env[u] = "read" => HasData(u))'
    BY <2>1, <2>3, <2>5, <2>6, <2>8, ResumeFeeds
  <2> QED BY <2>1, <2>9 DEF Fed, fifos
<1>4. CASE Await \/ Exit
  <2>1. /\ UNCHANGED <<data, fifos>> /\ pc \in Busy /\ RunNext(PolledReady)
        /\ \A u \in Thread : u # Running => env'[u] = env[u]
    BY <1>4 DEF Await, Exit, Busy, TypeOK
  <2>2. /\ \A w : Runs(w) <=> w = Running
    BY <2>1, RunningRuns
  <2>3. /\ ready' \in Seq(Thread) /\ rq_current' \in Nat
        /\ Slots(ready') = (Slots(ready) \cup (Slots(waiting) \cap Ripe)) \ {Running}
        /\ \/ ready' = <<>> /\ pc' \in {"returned", "select"}
           \/ rq_current' < Len(ready') /\ pc' \in {"work", "await"}
    BY <2>1, HandsOn
  <2>4. \A u \in Reader : u \in Slots(ready') /\ env'[u] = "read" => HasData(u)
    BY <2>1, <2>2, <2>3, ReadersHaveNoOtherWork DEF Fed, Ripe, Readable
  <2>5. \A u \in Reader : /\ Runs(u)' /\ pc' = "work" => HasData(u)'
                          /\ (u \in Slots(ready) /\ ~ Runs(u) /\ env[u] = "read" => HasData(u))'
    <3>1. CASE ready' = <<>>
      <4>1. pc' # "work" /\ Slots(ready') = {}
        BY <2>3, <3>1 DEF Slots
      <4> QED BY <4>1 DEF Slots
    <3>2. CASE ready' # <<>>
      <4> DEFINE t == ready'[rq_current' + 1]
      <4>1. Resume(t, mask) /\ rq_current' < Len(ready')
        BY <2>1, <2>3, <3>2 DEF RunNext
      <4>2. rq_current' + 1 \in DOMAIN ready'
        BY <2>3, <4>1
      <4>3. t \in Slots(ready') /\ t \in Thread /\ Running' = t
        BY <2>3, <4>2 DEF Slots, Running
      <4> HIDE DEF t
      <4>4. env'[t] = env[t] /\ got' = got
        BY <2>1, <2>3, <4>3 DEF data
      <4> QED BY <2>1, <2>4, <4>1, <4>3, <4>4, ResumeFeeds
    <3> QED BY <3>1, <3>2
  <2> QED BY <2>1, <2>5 DEF Fed, fifos
<1>5. CASE Wake
  <2>1. /\ UNCHANGED <<env, data, fifos>> /\ pc = "select" /\ rq_current' = rq_current
        /\ ready' = PolledReady /\ Resume(ready'[rq_current + 1], mask)
    BY <1>5 DEF Wake
  <2>2. /\ ready' \in Seq(Thread) /\ Len(ready') \in Nat
        /\ Slots(ready') = Slots(ready) \cup (Slots(waiting) \cap Ripe)
    BY <2>1, Polled
  <2>3. rq_current' < Len(ready')
    BY <1>5, WakeKeeps
  <2>4. rq_current \in Nat /\ rq_current' + 1 \in DOMAIN ready' /\ ready = <<>>
    BY <2>1, <2>2, <2>3 DEF TypeOK, QueueInv
  <2> DEFINE t == ready'[rq_current + 1]
  <2>5. t \in Thread /\ t \in Slots(ready') /\ Running' = t /\ env'[t] = env[t]
    BY <2>1, <2>2, <2>4 DEF Slots, Running
  <2>6. Resume(t, mask) /\ got' = got
    BY <2>1 DEF data
  <2> HIDE DEF t
  <2>7. \A u \in Reader : u \in Slots(ready') /\ env'[u] = "read" => HasData(u)
    BY <2>1, <2>2, <2>4 DEF Fed, Ripe, Readable, Slots
  <2>8. \A u \in Reader : /\ Runs(u)' /\ pc' = "work" => HasData(u)'
                          /\ (u \in Slots(ready) /\ ~ Runs(u) /\ env[u] = "read" => HasData(u))'
    BY <2>1, <2>3, <2>5, <2>6, <2>7, ResumeFeeds
  <2> QED BY <2>1, <2>8 DEF Fed, fifos
<1>6. CASE AlarmRings \/ CtrlZ \/ (\E t \in Reader : OpenFifo(t)) \/ UNCHANGED vars
  <2>1. UNCHANGED <<queues, pc, env, data, sent>> /\ \A u \in Reader : writer'[u] = writer[u] \/ writer'[u] = "open"
    BY <1>6, ReadersHaveNoOtherWork DEF AlarmRings, CtrlZ, OpenFifo, vars, fifos, TypeOK
  <2> QED BY <2>1 DEF Fed, HasData, Runs, Running, queues, data
<1>7. ASSUME NEW t \in Reader, NEW n \in Item, Write(t, n) PROVE Fed'
  <2>1. /\ UNCHANGED <<queues, pc, env, data, writer>> /\ Len(sent[t]) < MaxSent
        /\ sent' = [sent EXCEPT ![t] = Append(sent[t], n)]
    BY <1>7 DEF Write
  <2>2. sent \in [Thread -> Seq(Item)] /\ MaxSent \in Nat /\ got \in [Thread -> Nat]
    BY SchedulerAssumption DEF TypeOK
  <2>3. Len(sent'[t]) = Len(sent[t]) + 1 /\ Len(sent[t]) \in Nat
    BY <2>1, <2>2, ReadersHaveNoOtherWork
  <2>4. \A u \in Reader : u # t => sent'[u] = sent[u]
    BY <2>1, <2>2, ReadersHaveNoOtherWork
  <2>5. \A u \in Reader : Len(sent'[u]) <= MaxSent /\ (HasData(u) => HasData(u)')
    <3> SUFFICES ASSUME NEW u \in Reader PROVE Len(sent'[u]) <= MaxSent /\ (HasData(u) => HasData(u)')
      OBVIOUS
    <3>1. got' = got /\ got[u] \in Nat
      BY <2>1, <2>2, ReadersHaveNoOtherWork DEF data
    <3>2. CASE u = t
      BY <2>1, <2>2, <2>3, <3>1, <3>2 DEF HasData
    <3>3. CASE u # t
      BY <2>4, <3>1, <3>3 DEF HasData, Fed
    <3> QED BY <3>2, <3>3
  <2> QED BY <2>1, <2>5 DEF Fed, Runs, Running, queues
<1> QED BY <1>1, <1>2, <1>3, <1>4, <1>5, <1>6, <1>7 DEF Next, Process, CloseFifo

LEMMA FedInit == Init => Fed
<1> SUFFICES ASSUME Init, NEW t \in Reader
             PROVE  /\ writer[t] # "gone" /\ Len(sent[t]) <= MaxSent
                    /\ ~ (Runs(t) /\ pc = "work")
                    /\ env[t] # "read"
  BY DEF Fed
<1>1. /\ ready = Threads /\ rq_current = 0 /\ env = [u \in Thread |-> "setup"]
      /\ sent = [u \in Thread |-> <<>>] /\ writer = [u \in Thread |-> "none"]
      /\ pc = Top(Threads[1])
  BY DEF Init, init_threads, start_threading
<1>2. t \in Thread /\ MaxSent \in Nat
  BY SchedulerAssumption
<1> QED BY <1>1, <1>2 DEF Runs, Running, Top

LEMMA TakenStep ==
  ASSUME TypeOK, QueueInv, MaskInv, Fed, NumberPerIteration, [Next]_vars
  PROVE  NumberPerIteration'
<1> SUFFICES ASSUME NEW t \in Reader, Arg[t] # 0 PROVE got'[t] = Completed(t)'
  BY DEF NumberPerIteration
<1>1. t \in Thread /\ got[t] = Completed(t)
  BY ReadersHaveNoOtherWork DEF NumberPerIteration
<1>2. CASE ~ Work
  BY <1>1, <1>2, SwitchCounts DEF data
<1>3. CASE Work /\ t # Running
  BY <1>1, <1>3, WorkCounts, OthersKeep
<1>4. CASE Work /\ t = Running
  <2>1. Completed(t) = iter[t] - 1 /\ Completed(t)' = iter[t]
    BY <1>1, <1>4, WorkCounts
  <2>2. MaxSubarray(t)
    BY <1>4, ReadersHaveNoOtherWork DEF Work
  <2>3. HasData(t)
    <3>1. pc = "work" /\ rq_current < Len(ready)
      BY <1>4, RunningRuns DEF Work, Busy
    <3> QED BY <1>4, <3>1 DEF Fed, Runs
  <2>4. got'[t] = got[t] + 1
    BY <1>1, <2>2, <2>3 DEF MaxSubarray, TypeOK
  <2>5. iter[t] \in Nat
    BY <1>1 DEF TypeOK
  <2> QED BY <1>1, <2>1, <2>4, <2>5
<1> QED BY <1>2, <1>3, <1>4

LEMMA TakenInit == Init => NumberPerIteration
<1> SUFFICES ASSUME Init, NEW t \in Reader PROVE got[t] = Completed(t)
  BY DEF NumberPerIteration
<1>1. /\ ready = Threads /\ rq_current = 0 /\ env = [u \in Thread |-> "setup"] /\ iter = [u \in Thread |-> 1]
      /\ got = [u \in Thread |-> 0] /\ pc \in {"work", "await"}
  BY DEF Init, init_threads, start_threading, Top
<1>2. t \in Thread
  BY ReadersHaveNoOtherWork
<1>3. Alive(t)
  BY <1>1, <1>2 DEF Alive, Slots, Thread
<1> QED BY <1>1, <1>2, <1>3 DEF Completed

LEMMA Feeding == ~ WriterCloses => (Spec => [](Fed /\ TypeOK /\ QueueInv /\ MaskInv))
<1> SUFFICES ASSUME ~ WriterCloses PROVE Spec => [](Fed /\ TypeOK /\ QueueInv /\ MaskInv)
  OBVIOUS
<1>1. TypeOK /\ QueueInv /\ MaskInv /\ Fed /\ [Next]_vars => Fed'
  BY FedStep
<1> QED BY <1>1, FedInit, MaskInit, MaskStep, QueueInit, QueueStep, PTL DEF Spec

\* While writers keep their end of a FIFO open, select() and the read() that comes
\* some switches later agree: an iteration of a reader takes one number, which is
\* its own.
THEOREM OneNumberPerIteration == ~ WriterCloses => (Spec => []NumberPerIteration)
<1> SUFFICES ASSUME ~ WriterCloses PROVE Spec => []NumberPerIteration
  OBVIOUS
<1>1. TypeOK /\ QueueInv /\ MaskInv /\ Fed /\ NumberPerIteration /\ [Next]_vars => NumberPerIteration'
  BY TakenStep
<1>2. Spec => [](Fed /\ TypeOK /\ QueueInv /\ MaskInv)
  BY Feeding
<1> QED BY <1>1, <1>2, TakenInit, PTL DEF Spec

-----------------------------------------------------------------------------
(* Sums. *)

\* f is the sums of the first numbers of s.
SumsUp(s, f) ==
  /\ f \in [0 .. Len(s) -> Int] /\ f[0] = 0
  /\ \A k \in 1 .. Len(s) : f[k] = f[k - 1] + s[k]

LEMMA SumOfIs ==
  ASSUME NEW s \in Seq(Int)
  PROVE  \E f : SumsUp(s, f) /\ SumOf(s) = f[Len(s)]
<1> DEFINE n == Len(s)
           I == Int
           z == 0
           h == [p \in (1 .. n) \X I |-> p[2] + s[p[1]]]
           Step(f) == [k \in 0 .. n |-> IF k = 0 THEN 0 ELSE f[k - 1] + s[k]]
<1>1. n \in Nat /\ \A k \in 1 .. n : s[k] \in Int
  OBVIOUS
<1>2. h \in Steps(n, I) /\ z \in I /\ \A k \in 1 .. n, v \in Int : h[<<k, v>>] = v + s[k]
  BY <1>1 DEF Steps
<1>3. PICK f \in [0 .. n -> I] : Iterates(f, n, z, h)
  <2> HIDE DEF h, n, z, I
  <2> QED BY <1>1, <1>2, StepByStep
<1>4. f = Step(f)
  <2> HIDE DEF h
  <2>1. f[0] = 0 /\ \A k \in 1 .. n : f[k] = h[<<k, f[k - 1]>>]
    BY <1>3 DEF Iterates
  <2>2. \A k \in 1 .. n : k - 1 \in 0 .. n /\ f[k - 1] \in Int
    BY <1>1, <1>3
  <2>3. \A k \in 0 .. n : f[k] = IF k = 0 THEN 0 ELSE f[k - 1] + s[k]
    <3> SUFFICES ASSUME NEW k \in 0 .. n PROVE f[k] = IF k = 0 THEN 0 ELSE f[k - 1] + s[k]
      OBVIOUS
    <3>1. k = 0 \/ k \in 1 .. n
      OBVIOUS
    <3> QED BY <1>2, <2>1, <2>2, <3>1
  <2>4. f = [k \in 0 .. n |-> f[k]]
    BY <1>3
  <2> HIDE DEF n
  <2> QED BY <2>3, <2>4
<1>5. \E g : g = Step(g) /\ SumOf(s) = g[n]
  BY <1>4 DEF SumOf
<1>6. PICK g : g = Step(g) /\ SumOf(s) = g[n]
  BY <1>5
<1>7. g[0] = 0 /\ \A k \in 1 .. n : g[k] = g[k - 1] + s[k]
  <2>1. \A k \in 0 .. n : g[k] = IF k = 0 THEN 0 ELSE g[k - 1] + s[k]
    BY <1>6
  <2>2. 0 \in 0 .. n /\ \A k \in 1 .. n : k \in 0 .. n /\ k # 0
    BY <1>1
  <2> QED BY <2>1, <2>2
<1> DEFINE G == {k \in Nat : k <= n => g[k] \in Int}
<1>8. 0 \in G
  BY <1>7
<1>9. ASSUME NEW k \in Nat, k \in G PROVE k + 1 \in G
  <2> SUFFICES ASSUME k + 1 <= n PROVE g[k + 1] \in Int
    OBVIOUS
  <2>1. k + 1 \in 1 .. n /\ (k + 1) - 1 = k /\ g[k] \in Int
    BY <1>1, <1>9
  <2>2. g[k + 1] = g[k] + s[k + 1] /\ s[k + 1] \in Int
    BY <1>1, <1>7, <2>1
  <2> QED BY <2>1, <2>2
<1>10. \A k \in 0 .. n : g[k] \in Int
  <2>1. \A k \in Nat : k \in G
    <3> HIDE DEF G
    <3> QED BY <1>8, <1>9, SetInduction
  <2> QED BY <2>1
<1>11. g \in [0 .. n -> Int]
  <2>1. g = [k \in 0 .. n |-> g[k]]
    BY <1>6
  <2> HIDE DEF n
  <2> QED BY <1>10, <2>1
<1> QED BY <1>6, <1>7, <1>11 DEF SumsUp

LEMMA SumOfNone == SumOf(<<>>) = 0
<1>1. <<>> \in Seq(Int) /\ Len(<<>>) = 0
  OBVIOUS
<1>2. PICK f : SumsUp(<<>>, f) /\ SumOf(<<>>) = f[Len(<<>>)]
  BY <1>1, SumOfIs
<1> QED BY <1>1, <1>2 DEF SumsUp

LEMMA SumOfMore ==
  ASSUME NEW s \in Seq(Int), NEW e \in Int
  PROVE  SumOf(s) \in Int /\ SumOf(Append(s, e)) = SumOf(s) + e
<1> DEFINE n == Len(s)
           r == Append(s, e)
<1>1. n \in Nat /\ r \in Seq(Int) /\ Len(r) = n + 1 /\ r[n + 1] = e /\ \A k \in 1 .. n : r[k] = s[k]
  OBVIOUS
<1>2. PICK f : SumsUp(s, f) /\ SumOf(s) = f[n]
  BY SumOfIs
<1> HIDE DEF r, n
<1>3. PICK g : SumsUp(r, g) /\ SumOf(r) = g[n + 1]
  BY <1>1, SumOfIs
<1> DEFINE G == {k \in Nat : k <= n => g[k] = f[k]}
<1>4. 0 \in G
  BY <1>2, <1>3 DEF SumsUp
<1>5. ASSUME NEW k \in Nat, k \in G PROVE k + 1 \in G
  <2> SUFFICES ASSUME k + 1 <= n PROVE g[k + 1] = f[k + 1]
    OBVIOUS
  <2>1. k + 1 \in 1 .. n /\ k + 1 \in 1 .. n + 1 /\ (k + 1) - 1 = k /\ g[k] = f[k]
    <3>1. k <= n /\ k + 1 \in 1 .. n /\ k + 1 \in 1 .. n + 1 /\ (k + 1) - 1 = k
      BY <1>1
    <3> QED BY <1>5, <3>1
  <2>2. f[k + 1] = f[k] + s[k + 1]
    BY <1>2, <2>1 DEF SumsUp, n
  <2>3. g[k + 1] = g[k] + r[k + 1]
    BY <1>1, <1>3, <2>1 DEF SumsUp
  <2> QED BY <1>1, <2>1, <2>2, <2>3
<1>6. g[n] = f[n]
  <2>1. n \in G
    <3> HIDE DEF G
    <3> QED BY <1>1, <1>4, <1>5, SetInduction
  <2> QED BY <2>1
<1>7. g[n + 1] = g[n] + e
  <2>1. n + 1 \in 1 .. Len(r) /\ (n + 1) - 1 = n
    BY <1>1
  <2> QED BY <1>1, <1>3, <2>1 DEF SumsUp
<1>8. f[n] \in Int
  BY <1>1, <1>2 DEF SumsUp, n
<1> QED BY <1>2, <1>3, <1>6, <1>7, <1>8 DEF r

-----------------------------------------------------------------------------
(* The best sum. *)

\* What a thread is sent has no sum that an int does not hold.
NoSumOverflow == \A q \in Seq(Item) : Len(q) <= MaxSent => SumOf(q) \in CInt

\* With the numbers read so far, y is the best sum of a run that ends with the last
\* of them, and sum that of a run anywhere.
Run(t, j, k) == SubSeq(sent[t], j, k)
Best(t) ==
  /\ got[t] = 0 => y[t] = 0
  /\ got[t] > 0 => \E j \in 1 .. got[t] : y[t] = SumOf(Run(t, j, got[t]))
  /\ \A j \in 1 .. got[t] : y[t] >= SumOf(Run(t, j, got[t]))
  /\ sum[t] >= 0
  /\ \A j \in 1 .. got[t], k \in 0 .. got[t] : sum[t] >= SumOf(Run(t, j, k))
  /\ sum[t] = 0 \/ \E j \in 1 .. got[t], k \in 0 .. got[t] : sum[t] = SumOf(Run(t, j, k))

LEMMA SumsFit ==
  ASSUME NoSumOverflow, NEW s \in Seq(Item), Len(s) <= MaxSent, NEW j \in Nat \ {0}, NEW k \in Nat, k <= Len(s)
  PROVE  SumOf(SubSeq(s, j, k)) \in CInt /\ (j > k => SumOf(SubSeq(s, j, k)) = 0)
<1>1. SubSeq(s, j, k) \in Seq(Item) /\ (j > k => SubSeq(s, j, k) = <<>>)
  BY Part
<1>2. Len(SubSeq(s, j, k)) <= Len(s)
  <2>1. Len(SubSeq(s, j, k)) = IF j <= k THEN k - j + 1 ELSE 0
    BY Part
  <2>2. Len(s) \in Nat
    OBVIOUS
  <2> HIDE DEF SubSeq
  <2> QED BY <2>1, <2>2
<1>3. Len(SubSeq(s, j, k)) <= MaxSent
  <2>1. Len(SubSeq(s, j, k)) \in Nat /\ Len(s) \in Nat /\ MaxSent \in Nat
    BY <1>1, SchedulerAssumption
  <2> QED BY <1>2, <2>1
<1> QED BY <1>1, <1>3, SumOfNone DEF NoSumOverflow

\* One more number: to the best sum that ended before it it is added, or begins anew.
LEMMA BestGoesOn ==
  ASSUME NoSumOverflow, NEW s \in Seq(Item), Len(s) <= MaxSent, NEW n \in Nat, n < Len(s),
         NEW j \in 1 .. n + 1
  PROVE  SumOf(SubSeq(s, j, n + 1)) = s[n + 1] + (IF j = n + 1 THEN 0 ELSE SumOf(SubSeq(s, j, n)))
<1>1. Item \subseteq Int
  BY SchedulerAssumption DEF CInt
<1> DEFINE p == SubSeq(s, j, n)
           v == s[n + 1]
<1>2. p \in Seq(Item) /\ (j > n => p = <<>>)
  BY Part
<1>3. SubSeq(s, j, n + 1) = Append(p, v)
  BY LongerPart
<1>4. v \in Item
  OBVIOUS
<1> HIDE DEF p, v
<1>5. p \in Seq(Int) /\ v \in Int
  BY <1>1, <1>2, <1>4, WiderSeq
<1>6. SumOf(Append(p, v)) = SumOf(p) + v /\ SumOf(p) \in Int
  BY <1>5, SumOfMore
<1>7. j = n + 1 => SumOf(p) = 0
  BY <1>2, SumOfNone
<1>8. SumOf(SubSeq(s, j, n + 1)) = v + (IF j = n + 1 THEN 0 ELSE SumOf(p))
  <2>1. SumOf(SubSeq(s, j, n + 1)) = SumOf(Append(p, v))
    BY <1>3
  <2> QED BY <1>5, <1>6, <1>7, <2>1
<1> QED BY <1>8 DEF p, v

LEMMA WorkKeepsBest ==
  ASSUME NoSumOverflow, TypeOK, QueueInv, Fed, Work, NEW t \in Reader, t = Running, Best(t)
  PROVE  Best(t)'
<1> DEFINE s == sent[t]
           n == got[t]
           v == s[n + 1]
           S(j, k) == SumOf(SubSeq(s, j, k))
<1>1. t \in Thread /\ MaxSubarray(t)
  BY ReadersHaveNoOtherWork DEF Work
<1>2. HasData(t) /\ Len(s) <= MaxSent
  <2>1. pc = "work" /\ rq_current < Len(ready)
    BY RunningRuns DEF Work, Busy
  <2> QED BY <2>1 DEF Fed, Runs
<1>3. s \in Seq(Item) /\ n \in Nat /\ n < Len(s) /\ Item \subseteq CInt /\ CInt \subseteq Int
  BY <1>1, <1>2, SchedulerAssumption DEF TypeOK, HasData, CInt
<1>4. v \in CInt /\ y[t] \in CInt /\ sum[t] \in CInt
  <2>1. v \in Item
    <3>1. n + 1 \in 1 .. Len(s)
      BY <1>3
    <3> HIDE DEF s, n
    <3> QED BY <1>3, <3>1
  <2> HIDE DEF v
  <2> QED BY <1>1, <1>3, <2>1 DEF TypeOK
<1>5. /\ x'[t] = v /\ got'[t] = n + 1
      /\ y'[t] = IF v < Wrap(v + y[t]) THEN Wrap(y[t] + v) ELSE v
      /\ sum'[t] = IF y'[t] > sum[t] THEN y'[t] ELSE sum[t]
      /\ sent'[t] = s
  <2>1. x'[t] = v
    BY <1>1, <1>2 DEF MaxSubarray, TypeOK
  <2> HIDE DEF v
  <2> QED BY <1>1, <1>2, <2>1 DEF MaxSubarray, TypeOK, Work, fifos
<1>6. \A j \in 1 .. n + 1 : /\ S(j, n + 1) = v + (IF j = n + 1 THEN 0 ELSE S(j, n))
                            /\ S(j, n + 1) \in CInt
  <2> SUFFICES ASSUME NEW j \in 1 .. n + 1
               PROVE  /\ S(j, n + 1) = v + (IF j = n + 1 THEN 0 ELSE S(j, n))
                      /\ S(j, n + 1) \in CInt
    OBVIOUS
  <2>1. j \in Nat \ {0} /\ n + 1 \in Nat /\ n + 1 <= Len(s)
    BY <1>3
  <2> HIDE DEF s, n
  <2>2. SumOf(SubSeq(s, j, n + 1)) \in CInt
    BY <1>2, <1>3, <2>1, SumsFit
  <2> QED BY <1>2, <1>3, <2>2, BestGoesOn
<1>7. \A j \in 1 .. n, k \in 0 .. n : S(j, k) \in Int
  <2> SUFFICES ASSUME NEW j \in 1 .. n, NEW k \in 0 .. n PROVE S(j, k) \in Int
    OBVIOUS
  <2>1. j \in Nat \ {0} /\ k \in Nat /\ k <= Len(s)
    BY <1>3
  <2> HIDE DEF s, n
  <2> QED BY <1>2, <1>3, <2>1, SumsFit
<1>8. \A k \in 0 .. n : S(n + 1, k) = 0
  <2> SUFFICES ASSUME NEW k \in 0 .. n PROVE S(n + 1, k) = 0
    OBVIOUS
  <2>1. n + 1 \in Nat \ {0} /\ k \in Nat /\ k <= Len(s) /\ n + 1 > k
    BY <1>3
  <2> HIDE DEF s, n
  <2> QED BY <1>2, <1>3, <2>1, SumsFit
<1>9. /\ n = 0 => y[t] = 0
      /\ n > 0 => \E j \in 1 .. n : y[t] = S(j, n)
      /\ \A j \in 1 .. n : y[t] >= S(j, n)
      /\ sum[t] >= 0
      /\ \A j \in 1 .. n, k \in 0 .. n : sum[t] >= S(j, k)
      /\ sum[t] = 0 \/ \E j \in 1 .. n, k \in 0 .. n : sum[t] = S(j, k)
  BY DEF Best, Run
<1>10. Best(t)' <=> /\ got'[t] = 0 => y'[t] = 0
                    /\ got'[t] > 0 => \E j \in 1 .. got'[t] : y'[t] = S(j, got'[t])
                    /\ \A j \in 1 .. got'[t] : y'[t] >= S(j, got'[t])
                    /\ sum'[t] >= 0
                    /\ \A j \in 1 .. got'[t], k \in 0 .. got'[t] : sum'[t] >= S(j, k)
                    /\ sum'[t] = 0 \/ \E j \in 1 .. got'[t], k \in 0 .. got'[t] : sum'[t] = S(j, k)
  BY <1>5 DEF Best, Run
<1> DEFINE W == y'[t]
           Z == sum'[t]
<1>11. v \in Int /\ y[t] \in Int /\ sum[t] \in Int /\ n \in Nat
  BY <1>3, <1>4
<1> HIDE DEF s, n, v, S
<1>12. Wrap(v + y[t]) = v + y[t] /\ y[t] + v = v + y[t]
  <2>1. CASE n = 0
    <3>1. v + y[t] = v
      BY <1>9, <1>11, <2>1
    <3> QED BY <1>4, <1>11, <3>1, WrapOfInt
  <2>2. CASE n > 0
    <3>1. PICK j \in 1 .. n : y[t] = S(j, n)
      BY <1>9, <2>2
    <3>2. j \in 1 .. n + 1 /\ j # n + 1
      BY <1>11
    <3>3. v + y[t] \in CInt
      BY <1>6, <3>1, <3>2
    <3> QED BY <1>11, <3>3, WrapOfInt
  <2> QED BY <1>11, <2>1, <2>2
<1>13. W = IF y[t] > 0 THEN v + y[t] ELSE v
  BY <1>5, <1>11, <1>12
<1>14. W \in Int /\ Z \in Int /\ Z = IF W > sum[t] THEN W ELSE sum[t]
  BY <1>5, <1>11, <1>13
<1> HIDE DEF W, Z
<1>15. \E j \in 1 .. n + 1 : W = S(j, n + 1)
  <2>1. CASE y[t] > 0
    <3>1. PICK j \in 1 .. n : y[t] = S(j, n)
      BY <1>9, <1>11, <2>1
    <3>2. j \in 1 .. n + 1 /\ j # n + 1
      BY <1>11
    <3> QED BY <1>6, <1>13, <2>1, <3>1, <3>2
  <2>2. CASE ~ y[t] > 0
    <3>1. n + 1 \in 1 .. n + 1
      BY <1>11
    <3>2. S(n + 1, n + 1) = v
      BY <1>6, <1>11, <3>1
    <3> QED BY <1>13, <2>2, <3>1, <3>2
  <2> QED BY <2>1, <2>2
<1>16. \A j \in 1 .. n + 1 : W >= S(j, n + 1)
  <2> SUFFICES ASSUME NEW j \in 1 .. n + 1 PROVE W >= S(j, n + 1)
    OBVIOUS
  <2>1. CASE j = n + 1
    BY <1>6, <1>11, <1>13, <2>1
  <2>2. CASE j # n + 1
    <3>1. j \in 1 .. n /\ n \in 0 .. n
      BY <1>11, <2>2
    <3>2. y[t] >= S(j, n) /\ S(j, n) \in Int /\ S(j, n + 1) = v + S(j, n)
      BY <1>6, <1>7, <1>9, <2>2, <3>1
    <3> QED BY <1>11, <1>13, <3>2
  <2> QED BY <2>1, <2>2
<1>17. Z >= 0 /\ Z >= W /\ Z >= sum[t]
  BY <1>9, <1>11, <1>14
<1>18. \A j \in 1 .. n + 1, k \in 0 .. n + 1 : Z >= S(j, k)
  <2> SUFFICES ASSUME NEW j \in 1 .. n + 1, NEW k \in 0 .. n + 1 PROVE Z >= S(j, k)
    OBVIOUS
  <2>1. CASE k = n + 1
    <3>1. W >= S(j, n + 1) /\ S(j, n + 1) \in Int
      BY <1>3, <1>6, <1>16
    <3> QED BY <1>14, <1>17, <2>1, <3>1
  <2>2. CASE k # n + 1 /\ j = n + 1
    <3>1. k \in 0 .. n
      BY <1>11, <2>2
    <3> QED BY <1>8, <1>17, <2>2, <3>1
  <2>3. CASE k # n + 1 /\ j # n + 1
    <3>1. j \in 1 .. n /\ k \in 0 .. n
      BY <1>11, <2>3
    <3>2. sum[t] >= S(j, k) /\ S(j, k) \in Int
      BY <1>7, <1>9, <3>1
    <3> QED BY <1>11, <1>14, <1>17, <3>2
  <2> QED BY <2>1, <2>2, <2>3
<1>19. Z = 0 \/ \E j \in 1 .. n + 1, k \in 0 .. n + 1 : Z = S(j, k)
  <2>1. CASE Z = W
    <3>1. PICK j \in 1 .. n + 1 : W = S(j, n + 1)
      BY <1>15
    <3>2. n + 1 \in 0 .. n + 1
      BY <1>11
    <3> QED BY <2>1, <3>1, <3>2
  <2>2. CASE Z = sum[t]
    <3>1. 1 .. n \subseteq 1 .. n + 1 /\ 0 .. n \subseteq 0 .. n + 1
      BY <1>11
    <3> QED BY <1>9, <2>2, <3>1
  <2> QED BY <1>14, <2>1, <2>2
<1>20. got'[t] = n + 1 /\ n + 1 > 0 /\ n + 1 # 0
  BY <1>5, <1>11
<1> QED BY <1>10, <1>15, <1>16, <1>17, <1>18, <1>19, <1>20 DEF W, Z

LEMMA BestStep ==
  ASSUME NoSumOverflow, TypeOK, QueueInv, MaskInv, Fed, [Next]_vars, NEW t \in Reader, Best(t)
  PROVE  Best(t)'
<1>1. t \in Thread /\ sent[t] \in Seq(Item) /\ got[t] \in Nat /\ got[t] <= Len(sent[t])
  BY ReadersHaveNoOtherWork DEF TypeOK
<1>2. CASE Work /\ t = Running
  BY <1>2, WorkKeepsBest
<1>3. CASE Work /\ t # Running
  <2>1. y'[t] = y[t] /\ sum'[t] = sum[t] /\ got'[t] = got[t] /\ sent' = sent
    BY <1>1, <1>3, OthersKeep DEF Work, fifos
  <2> QED BY <2>1 DEF Best, Run
<1>4. CASE ~ Work /\ ~ \E n \in Item : Write(t, n)
  <2>1. UNCHANGED <<y, sum, got>> /\ sent'[t] = sent[t]
    BY <1>1, <1>4, ReadersHaveNoOtherWork
       DEF Next, Process, CloseWindow, Interrupt, Await, Exit, Wake, AlarmRings, CtrlZ,
           OpenFifo, Write, CloseFifo, data, fifos, vars, TypeOK
  <2> QED BY <2>1 DEF Best, Run
<1>5. ASSUME NEW n \in Item, Write(t, n) PROVE Best(t)'
  <2>1. UNCHANGED <<y, sum, got>> /\ sent'[t] = Append(sent[t], n)
    BY <1>1, <1>5 DEF Write, data, TypeOK
  <2>2. \A j \in 1 .. got[t], k \in 0 .. got[t] : SubSeq(sent'[t], j, k) = SubSeq(sent[t], j, k)
    <3> SUFFICES ASSUME NEW j \in 1 .. got[t], NEW k \in 0 .. got[t]
                 PROVE  SubSeq(Append(sent[t], n), j, k) = SubSeq(sent[t], j, k)
      BY <2>1
    <3>1. j \in Nat \ {0} /\ k \in Nat /\ k <= Len(sent[t]) /\ Len(sent[t]) \in Nat
      BY <1>1
    <3> QED BY <1>1, <3>1, SamePart
  <2>3. got[t] \in 0 .. got[t]
    BY <1>1
  <2> QED BY <2>1, <2>2, <2>3 DEF Best, Run
<1> QED BY <1>2, <1>3, <1>4, <1>5

LEMMA BestInit == ASSUME Init, NEW t \in Reader PROVE Best(t)
<1>1. /\ y = [u \in Thread |-> 0] /\ sum = [u \in Thread |-> 0] /\ got = [u \in Thread |-> 0]
  BY DEF Init, init_threads
<1> QED BY <1>1, ReadersHaveNoOtherWork DEF Best

LEMMA BestFollows == TypeOK /\ (\A t \in Reader : Best(t)) => SumIsBest
<1> SUFFICES ASSUME TypeOK, NEW t \in Reader, Best(t)
             PROVE  LET taken == SubSeq(sent[t], 1, got[t]) IN
                    /\ \A r \in RunsOf(taken) : sum[t] >= SumOf(r)
                    /\ sum[t] = 0 \/ \E r \in RunsOf(taken) : sum[t] = SumOf(r)
  BY DEF SumIsBest
<1> DEFINE taken == SubSeq(sent[t], 1, got[t])
<1>1. sent[t] \in Seq(Item) /\ got[t] \in Nat /\ got[t] <= Len(sent[t])
  BY ReadersHaveNoOtherWork DEF TypeOK
<1>2. Len(taken) = got[t]
  BY <1>1
<1>3. \A j \in 1 .. got[t], k \in 0 .. got[t] : SubSeq(taken, j, k) = Run(t, j, k)
  <2> SUFFICES ASSUME NEW j \in 1 .. got[t], NEW k \in 0 .. got[t]
               PROVE  SubSeq(taken, j, k) = SubSeq(sent[t], j, k)
    BY DEF Run
  <2>1. j \in Nat \ {0} /\ k \in Nat /\ k <= got[t]
    BY <1>1
  <2> QED BY <1>1, <2>1, PartOfPart
<1> HIDE DEF taken
<1>4. \A r : r \in RunsOf(taken) <=> \E j \in 1 .. got[t], k \in 0 .. got[t] : r = Run(t, j, k)
  <2>1. RunsOf(taken) = {SubSeq(taken, j, k) : j \in 1 .. got[t], k \in 0 .. got[t]}
    BY <1>2 DEF RunsOf
  <2>2. \A r : r \in RunsOf(taken) <=> \E j \in 1 .. got[t], k \in 0 .. got[t] : r = SubSeq(taken, j, k)
    BY <2>1
  <2>3. ASSUME NEW r \in RunsOf(taken)
        PROVE  \E j \in 1 .. got[t], k \in 0 .. got[t] : r = Run(t, j, k)
    <3>1. PICK j \in 1 .. got[t], k \in 0 .. got[t] : r = SubSeq(taken, j, k)
      BY <2>2
    <3>2. r = Run(t, j, k)
      BY <1>3, <3>1
    <3> QED BY <3>2
  <2>4. ASSUME NEW j \in 1 .. got[t], NEW k \in 0 .. got[t] PROVE Run(t, j, k) \in RunsOf(taken)
    <3>1. SubSeq(taken, j, k) \in RunsOf(taken) /\ SubSeq(taken, j, k) = Run(t, j, k)
      BY <1>3, <2>2
    <3> HIDE DEF SubSeq
    <3> QED BY <3>1
  <2> QED BY <2>3, <2>4
<1>5. /\ \A r \in RunsOf(taken) : sum[t] >= SumOf(r)
      /\ sum[t] = 0 \/ \E r \in RunsOf(taken) : sum[t] = SumOf(r)
  BY <1>4 DEF Best
<1> QED BY <1>5 DEF taken

\* As long as int holds the sums and writers keep their end open, a reader prints the
\* best sum of consecutive numbers among those it was sent: the loop carries what it
\* needs from number to number over all the switches between them.
THEOREM SumStaysBest == ~ WriterCloses /\ NoSumOverflow => (Spec => []SumIsBest)
<1> SUFFICES ASSUME ~ WriterCloses, NoSumOverflow PROVE Spec => []SumIsBest
  OBVIOUS
<1> DEFINE AllBest == \A t \in Reader : Best(t)
<1>1. TypeOK /\ QueueInv /\ MaskInv /\ Fed /\ AllBest /\ [Next]_vars => AllBest'
  BY BestStep
<1>2. Init => AllBest
  BY BestInit
<1>3. TypeOK /\ AllBest => SumIsBest
  BY BestFollows
<1>4. Spec => [](Fed /\ TypeOK /\ QueueInv /\ MaskInv)
  BY Feeding
<1> HIDE DEF AllBest
<1> QED BY <1>1, <1>2, <1>3, <1>4, PTL DEF Spec
=============================================================================
