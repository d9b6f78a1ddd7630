----------------------------- MODULE ThreadPool -----------------------------
(***************************************************************************)
(* What the thread library of hw3_thread-library-lala-ju promises, without *)
(* its queues, masks and jumps: one thread runs at a time; at each switch, *)
(* whatever caused it, those that wait and have something to read are let  *)
(* in, all of them and nobody else; a signal takes the processor from the  *)
(* running thread if there is another to give it to; and only a thread     *)
(* whose work is done leaves.                                              *)
(***************************************************************************)
CONSTANT Thread   \* the threads

VARIABLES
  cpu,      \* the thread that runs, if any: a set of at most one
  ready,    \* those that can run, the running one included
  waiting,  \* those that wait for their FIFO
  ripe,     \* those whose FIFO has something for them
  done      \* those whose work is done

pool == <<cpu, ready, waiting, ripe, done>>

Init ==
  /\ ready = Thread /\ \E t \in Thread : cpu = {t}
  /\ waiting = {} /\ ripe = {} /\ done = {}

\* Writers fill, close and open FIFOs, the running thread reads its own; only
\* its work can come to be done.
Progress ==
  /\ ripe' \in SUBSET Thread
  /\ done' \in {done, done \cup cpu}
  /\ UNCHANGED <<cpu, ready, waiting>>

\* A switch after which out has left the ready ones and in has begun to wait.
Switch(out, in) ==
  /\ ready' = (ready \cup (waiting \cap ripe)) \ out
  /\ waiting' = (waiting \ ripe) \cup in
  /\ cpu' \in IF ready' = {} THEN {{}} ELSE {{t} : t \in ready'}
  /\ UNCHANGED <<ripe, done>>

Preempt == cpu # {} /\ Switch({}, {}) /\ (cpu' = cpu => ready' = cpu)
Wait    == cpu # {} /\ Switch(cpu, cpu) /\ cpu \cap done = {}
Leave   == cpu # {} /\ Switch(cpu, {}) /\ cpu \subseteq done
Wake    == cpu = {} /\ waiting \cap ripe # {} /\ Switch({}, {})

Next == Progress \/ Preempt \/ Wait \/ Leave \/ Wake

Spec == Init /\ [][Next]_pool
=============================================================================
