------------------------------ MODULE Tournament ------------------------------
(***************************************************************************)
(* hw2_pvp-championship-lala-ju: the tree of battle processes (battle.c)   *)
(* with player processes at its leaves (player.c).  Every process talks to *)
(* its parent over a pipe in each direction.  A battle runs its rounds     *)
(* over the two statuses its children send, then reaps the losing side and *)
(* relays for the winner.  A real player beaten in zone A hands its status *)
(* over a FIFO to an agent, a leaf of the losers' half of the tree.        *)
(*                                                                         *)
(* Each process is sequential, each pipe has one reader and one writer, so *)
(* steps that only add to a pipe are taken together with the read() before *)
(* them.  All processes exist from the start: one not yet forked is one    *)
(* that has not yet moved, one that never comes to life has exited.        *)
(*                                                                         *)
(* Where a file or a FIFO cannot be opened, or fork() fails, the programs  *)
(* exit; nobody tells the others, who learn it from the ends of pipes.     *)
(***************************************************************************)
EXTENDS Integers, Sequences, FiniteSets

CONSTANTS
  Battle,       \* the battles
  Root,         \* the one started from the shell: A
  Left, Right,  \* the children of each battle
  Real,         \* players that start with a status of their own
  Number,       \* their real_player_id
  Files,        \* contents player_status.txt may have: health and attack
  Boosted,      \* Boosted[b]: those whose attribute doubles their ATK in b
  Agent,        \* Agent[b], for b in zone A: who takes over the loser of b
  Garbage,      \* HPs that a fight with an uninitialized right may leave to left
  MaxFailures,  \* bound: processes that fail
  None          \* no value

Node == {Left[b] : b \in Battle} \cup {Right[b] : b \in Battle} \cup {Root}
Player == Node \ Battle
ZoneA == DOMAIN Agent

\* Sets of processes that have with each battle its children.
Closed == {S \in SUBSET Node : \A b \in S \cap Battle : Left[b] \in S /\ Right[b] \in S}

ASSUME TreeAssumption ==
  /\ Root \in Battle /\ Battle \subseteq Node /\ IsFiniteSet(Battle)
  /\ \A b, c \in Battle : /\ Left[b] # Right[c] /\ Root \notin {Left[b], Right[b]}
                          /\ b # c => Left[b] # Left[c] /\ Right[b] # Right[c]
  /\ \A S \in Closed : Root \in S => S = Node
  /\ Real \subseteq Player /\ None \notin Node
  /\ ZoneA \subseteq Battle \ {Root}
  /\ \A b \in ZoneA : Agent[b] \in Player \ Real
  /\ \A b, c \in ZoneA : Agent[b] = Agent[c] => b = c
  /\ Garbage \subseteq Int /\ MaxFailures \in Nat

\* Zone A, with the real players at its leaves, is the left half of the tree; whoever
\* gets to an agent is in the other.
ASSUME ZonesAssumption ==
  \A b \in Battle : /\ Left[b] \in ZoneA \cup Real <=> b \in ZoneA \cup {Root}
                    /\ Right[b] \in ZoneA \cup Real <=> b \in ZoneA

ASSUME StrengthAssumption ==
  /\ Number \in [Real -> Nat] /\ \A p, q \in Real : Number[p] = Number[q] => p = q
  /\ Files \subseteq [health : [Real -> Nat \ {0}], attack : [Real -> Nat \ {0}]]
  /\ Boosted \in [Battle -> SUBSET Real]

\* The struct of status.h; ATK and attr go with the id and never change.
Status == [id : Real, HP : Int, battle : Battle \cup {None}, ended : {0, 1}]
NoStatus == [id |-> None, HP |-> 0, battle |-> None, ended |-> 0]

VARIABLES
  pc,        \* where each process is
  up,        \* up[n]: the pipe from n to its parent
  down,      \* down[n]: the pipe from its parent to n
  held,      \* held[n]: left or right of the parent of n
  winner,    \* winner[b]: the child for which b is in passing mode
  P,         \* P of each player
  hp,        \* hp of each player: what it is healed towards
  fifo,      \* fifo[p]: the FIFO agent p reads
  champion,  \* whom the root has announced
  defeats,   \* history: battles each real player has lost
  file,      \* player_status.txt, which no process changes
  failed     \* history: those that have given up with exit(1)

Health == file.health
Attack == file.attack

pipes == <<up, down>>
vars  == <<pc, pipes, held, winner, P, hp, fifo, champion, defeats, file, failed>>

TypeOK ==
  /\ pc \in [Node -> {"send", "wait", "lost", "left", "right", "reap",
                      "relay", "feedback", "exited"}]
  /\ up \in [Node -> Seq(Status)] /\ down \in [Node -> Seq(Status)]
  /\ held \in [Node -> Status \cup {NoStatus}]
  /\ winner \in [Battle -> Node \cup {None}]
  /\ P \in [Player -> Status \cup {NoStatus}] /\ hp \in [Player -> Nat]
  /\ fifo \in [Player -> Seq(Status)]
  /\ champion \in Real \cup {None}
  /\ defeats \in [Real -> Nat]
  /\ file \in Files
  /\ failed \subseteq Node /\ Cardinality(failed) <= MaxFailures

\* The process n and all below it.
Subtree == [n \in Node |-> {m \in Node : \A S \in Closed : n \in S => m \in S}]

\* Who never lives when those in f fail at their start; those in late fail at
\* their second fork.
Stillborn(f, late) ==
  f \cup UNION {Subtree[Right[b]] \cup IF b \in late THEN {} ELSE Subtree[Left[b]] : b \in f \cap Battle}

\* A real player begins with its line of player_status.txt, an agent with the
\* read() of its FIFO.
Init ==
  /\ file \in Files
  /\ failed \in {f \in SUBSET Node : Cardinality(f) <= MaxFailures}
  /\ \E late \in SUBSET (failed \cap Battle) :
       pc = [n \in Node |-> IF n \in Stillborn(failed, late) THEN "exited"
                            ELSE IF n \in Battle THEN "left"
                            ELSE IF n \in Real THEN "send" ELSE "wait"]
  /\ up = [n \in Node |-> <<>>] /\ down = [n \in Node |-> <<>>]
  /\ held = [n \in Node |-> NoStatus]
  /\ winner = [b \in Battle |-> None]
  /\ P = [p \in Player |-> IF p \in Real THEN [NoStatus EXCEPT !.id = p, !.HP = Health[p]]
                                         ELSE NoStatus]
  /\ hp = [p \in Player |-> IF p \in Real THEN Health[p] ELSE 0]
  /\ fifo = [p \in Player |-> <<>>]
  /\ champion = None
  /\ defeats = [p \in Real |-> 0]

-----------------------------------------------------------------------------
(* One round of a battle. *)

Power(b, x) == IF x.id \in Boosted[b] THEN 2 * Attack[x.id] ELSE Attack[x.id]
Strike(b, by, on) == [on EXCEPT !.HP = @ - Power(b, by)]

\* x strikes first, and y back if it still can.
Round(b, x, y) ==
  LET z == Strike(b, x, y) IN <<IF z.HP > 0 THEN Strike(b, y, x) ELSE x, z>>

\* The weaker one strikes first, of two equals the one with the lower id.
RightFirst(l, r) == r.HP < l.HP \/ (r.HP = l.HP /\ Number[r.id] < Number[l.id])

\* Mutant of Fight: the two are not put back in their places.
FightUnsorted(b, l, r) ==
  LET out == IF RightFirst(l, r) THEN Round(b, r, l) ELSE Round(b, l, r)
      over == out[1].HP <= 0 \/ out[2].HP <= 0
      Label(x) == [x EXCEPT !.battle = b, !.ended = IF over THEN 1 ELSE @]
  IN <<Label(out[1]), Label(out[2])>>

\* left and right after the round, labelled with the battle.
Fight(b, l, r) ==
  LET out == IF RightFirst(l, r) THEN LET o == Round(b, r, l) IN <<o[2], o[1]>>
                                 ELSE Round(b, l, r)
      over == out[1].HP <= 0 \/ out[2].HP <= 0
      Label(x) == [x EXCEPT !.battle = b, !.ended = IF over THEN 1 ELSE @]
  IN <<Label(out[1]), Label(out[2])>>

-----------------------------------------------------------------------------
(* The ends of pipes.  A right child is forked while its parent has both   *)
(* ends of both pipes to the left child open, so it inherits them, and so  *)
(* does everything below it.                                               *)

Parent(n) == CHOOSE b \in Battle : n \in {Left[b], Right[b]}
Inherits(n) == IF n = Left[Parent(n)] THEN Subtree[Right[Parent(n)]] ELSE {}

\* Who can write to n or read from it, and who can do so in its place.
Above == [n \in Node \ {Root} |-> {Parent(n)} \cup Inherits(n)]
Below == [n \in Node \ {Root} |-> {n} \cup Inherits(n)]

\* Nobody is left at the other end: read() returns 0, write() raises SIGPIPE.
Gone(S) == \A n \in S : pc[n] = "exited"

-----------------------------------------------------------------------------
(* The players. *)

Send(p) ==
  /\ pc[p] = "send" /\ ~ Gone(Above[p])
  /\ up' = [up EXCEPT ![p] = Append(@, P[p])]
  /\ pc' = [pc EXCEPT ![p] = "wait"]
  /\ UNCHANGED <<down, held, winner, P, hp, fifo, champion, defeats, file, failed>>

\* Mutant of Healed: half of everything.
HealedMore(x, full) == [x EXCEPT !.ended = 0, !.HP = @ + full \div 2]

\* After a battle won: half of what is missing, rounded down.
Healed(x, full) == [x EXCEPT !.ended = 0, !.HP = @ + (full - @) \div 2]

\* What the parent sends back: the next round, or the end of a battle.
Receive(p) ==
  LET x == Head(down[p]) IN
  /\ pc[p] = "wait" /\ down[p] # <<>>
  /\ down' = [down EXCEPT ![p] = Tail(@)]
  /\ \/ /\ x.ended = 0
        /\ pc' = [pc EXCEPT ![p] = "send"] /\ P' = [P EXCEPT ![p] = x]
     \/ /\ x.ended = 1 /\ x.HP <= 0
        /\ pc' = [pc EXCEPT ![p] = IF x.battle \in ZoneA THEN "lost" ELSE "exited"]
        /\ P' = [P EXCEPT ![p] = [x EXCEPT !.ended = 0]]
     \/ /\ x.ended = 1 /\ x.HP > 0
        /\ IF x.battle = Root
           THEN pc' = [pc EXCEPT ![p] = "exited"] /\ P' = [P EXCEPT ![p] = [x EXCEPT !.ended = 0]]
           ELSE pc' = [pc EXCEPT ![p] = "send"] /\ P' = [P EXCEPT ![p] = Healed(x, hp[p])]
  /\ UNCHANGED <<up, held, winner, hp, fifo, champion, defeats, file, failed>>

\* Mutants of HandOver: the process goes on; the status goes out as it came back from the battle.
HandOverStays(p) ==
  /\ pc[p] = "lost"
  /\ fifo' = [fifo EXCEPT ![Agent[P[p].battle]] = Append(@, [P[p] EXCEPT !.HP = hp[p]])]
  /\ pc' = [pc EXCEPT ![p] = "send"]
  /\ UNCHANGED <<pipes, held, winner, P, hp, champion, defeats, file, failed>>
HandOverUnhealed(p) ==
  /\ pc[p] = "lost"
  /\ fifo' = [fifo EXCEPT ![Agent[P[p].battle]] = Append(@, P[p])]
  /\ pc' = [pc EXCEPT ![p] = "exited"]
  /\ UNCHANGED <<pipes, held, winner, P, hp, champion, defeats, file, failed>>

\* Beaten in zone A: the HP reset, the FIFO written once its reader is there,
\* the process over.
HandOver(p) ==
  /\ pc[p] = "lost" /\ pc[Agent[P[p].battle]] # "exited"
  /\ fifo' = [fifo EXCEPT ![Agent[P[p].battle]] = Append(@, [P[p] EXCEPT !.HP = hp[p]])]
  /\ pc' = [pc EXCEPT ![p] = "exited"]
  /\ UNCHANGED <<pipes, held, winner, P, hp, champion, defeats, file, failed>>

\* The agent takes it over.
TakeOver(p) ==
  /\ pc[p] = "wait" /\ P[p] = NoStatus /\ fifo[p] # <<>>
  /\ fifo' = [fifo EXCEPT ![p] = Tail(@)]
  /\ P' = [P EXCEPT ![p] = Head(fifo[p])]
  /\ hp' = [hp EXCEPT ![p] = Head(fifo[p]).HP]
  /\ pc' = [pc EXCEPT ![p] = "send"]
  /\ UNCHANGED <<pipes, held, winner, champion, defeats, file, failed>>

\* The FIFO cannot be opened; the agent cannot open the log of whom it got.
HandOverFails(p) ==
  /\ pc[p] = "lost" /\ Cardinality(failed) < MaxFailures
  /\ pc' = [pc EXCEPT ![p] = "exited"] /\ failed' = failed \cup {p}
  /\ UNCHANGED <<pipes, held, winner, P, hp, fifo, champion, defeats, file>>

TakeOverFails(p) ==
  /\ pc[p] = "wait" /\ P[p] = NoStatus /\ fifo[p] # <<>>
  /\ Cardinality(failed) < MaxFailures
  /\ fifo' = [fifo EXCEPT ![p] = Tail(@)]
  /\ pc' = [pc EXCEPT ![p] = "exited"] /\ failed' = failed \cup {p}
  /\ UNCHANGED <<pipes, held, winner, P, hp, champion, defeats, file>>

-----------------------------------------------------------------------------
(* The battles. *)

ReadLeft(b) ==
  LET l == Left[b] IN
  /\ pc[b] = "left" /\ up[l] # <<>>
  /\ held' = [held EXCEPT ![l] = Head(up[l])]
  /\ up' = [up EXCEPT ![l] = Tail(@)]
  /\ pc' = [pc EXCEPT ![b] = "right"]
  /\ UNCHANGED <<down, winner, P, hp, fifo, champion, defeats, file, failed>>

\* Mutant of First: the first of the two to fall.
FirstFallen(out) == IF out[2].HP > 0 THEN out[1].id ELSE out[2].id

\* The champion.
First(out) == IF out[2].HP > 0 THEN out[2].id ELSE out[1].id

\* The right child's status completes the round; both get theirs back.
ReadRight(b) ==
  LET l == Left[b]  r == Right[b]
      out == Fight(b, held[l], Head(up[r])) IN
  /\ pc[b] = "right" /\ up[r] # <<>>
  /\ up' = [up EXCEPT ![r] = Tail(@)]
  /\ held' = [held EXCEPT ![l] = out[1], ![r] = out[2]]
  /\ down' = [down EXCEPT ![l] = Append(@, out[1]), ![r] = Append(@, out[2])]
  /\ IF out[1].HP <= 0 \/ out[2].HP <= 0
     THEN /\ pc' = [pc EXCEPT ![b] = "reap"]
          /\ winner' = [winner EXCEPT ![b] = IF out[2].HP <= 0 THEN l ELSE r]
          /\ defeats' = [defeats EXCEPT ![IF out[2].HP <= 0 THEN out[2].id ELSE out[1].id] = @ + 1]
          /\ champion' = IF b = Root THEN First(out) ELSE champion
     ELSE /\ pc' = [pc EXCEPT ![b] = "left"]
          /\ UNCHANGED <<winner, champion, defeats>>
  /\ UNCHANGED <<P, hp, fifo, file, failed>>

Loser(b) == IF winner[b] = Left[b] THEN Right[b] ELSE Left[b]

\* waitpid() for the losing side; the root then only waits for the other.
Reap(b) ==
  /\ pc[b] = "reap" /\ pc[Loser(b)] = "exited"
  /\ IF b # Root THEN pc' = [pc EXCEPT ![b] = "relay"]
                 ELSE pc[winner[b]] = "exited" /\ pc' = [pc EXCEPT ![b] = "exited"]
  /\ UNCHANGED <<pipes, held, winner, P, hp, fifo, champion, defeats, file, failed>>

\* Mutant of Through: the last battle is not told apart.
ThroughByDeath(x) == x.HP <= 0

\* The end of passing mode: the status of the winner's last battle.
Through(x) == x.HP <= 0 \/ (x.battle = Root /\ x.ended = 1)

RelayUp(b) ==
  LET w == winner[b] IN
  /\ pc[b] = "relay" /\ ~ Through(held[w]) /\ up[w] # <<>>
  /\ ~ Gone(Above[b])
  /\ held' = [held EXCEPT ![w] = Head(up[w])]
  /\ up' = [up EXCEPT ![w] = Tail(@), ![b] = Append(@, Head(up[w]))]
  /\ pc' = [pc EXCEPT ![b] = "feedback"]
  /\ UNCHANGED <<down, winner, P, hp, fifo, champion, defeats, file, failed>>

RelayDown(b) ==
  LET w == winner[b] IN
  /\ pc[b] = "feedback" /\ down[b] # <<>>
  /\ held' = [held EXCEPT ![w] = Head(down[b])]
  /\ down' = [down EXCEPT ![b] = Tail(@), ![w] = Append(@, Head(down[b]))]
  /\ pc' = [pc EXCEPT ![b] = "relay"]
  /\ UNCHANGED <<up, winner, P, hp, fifo, champion, defeats, file, failed>>

\* waitpid() for the winning side.
Finish(b) ==
  /\ pc[b] = "relay" /\ Through(held[winner[b]])
  /\ pc[winner[b]] = "exited"
  /\ pc' = [pc EXCEPT ![b] = "exited"]
  /\ UNCHANGED <<pipes, held, winner, P, hp, fifo, champion, defeats, file, failed>>

-----------------------------------------------------------------------------
(* When somebody has gone: read() leaves the struct as it was. *)

\* No left child and none to come: the fight is one of leftovers, and the result
\* cannot be written.
ReadLeftEnd(b) ==
  /\ pc[b] = "left" /\ up[Left[b]] = <<>> /\ Gone(Below[Left[b]])
  /\ pc' = [pc EXCEPT ![b] = "exited"]
  /\ UNCHANGED <<pipes, held, winner, P, hp, fifo, champion, defeats, file, failed>>

\* Mutant of ReadRightEnd: the left child wins without a fight.
ReadRightEndWalkover(b) ==
  LET l == Left[b]  x == [held[l] EXCEPT !.battle = b, !.ended = 1] IN
  /\ pc[b] = "right" /\ up[Right[b]] = <<>> /\ Gone(Below[Right[b]])
  /\ held' = [held EXCEPT ![l] = x] /\ down' = [down EXCEPT ![l] = Append(@, x)]
  /\ winner' = [winner EXCEPT ![b] = l] /\ pc' = [pc EXCEPT ![b] = "reap"]
  /\ champion' = IF b = Root THEN x.id ELSE champion
  /\ UNCHANGED <<up, P, hp, fifo, defeats, file, failed>>

\* No right child: the left one fights against what the stack holds and gets
\* its status back, before the write to the right one kills the battle.
ReadRightEnd(b) ==
  LET l == Left[b] IN
  /\ pc[b] = "right" /\ up[Right[b]] = <<>> /\ Gone(Below[Right[b]])
  /\ \E h \in Garbage \cup {held[l].HP}, e \in {0, 1} :
       /\ h <= 0 => e = 1
       /\ down' = [down EXCEPT ![l] =
            Append(@, [held[l] EXCEPT !.HP = h, !.battle = b, !.ended = e])]
  /\ pc' = [pc EXCEPT ![b] = "exited"]
  /\ UNCHANGED <<up, held, winner, P, hp, fifo, champion, defeats, file, failed>>

\* The answer does not come: the child is sent its own status.
FeedbackEnd(b) ==
  LET w == winner[b] IN
  /\ pc[b] = "feedback" /\ down[b] = <<>> /\ Gone(Above[b])
  /\ down' = [down EXCEPT ![w] = Append(@, held[w])]
  /\ pc' = [pc EXCEPT ![b] = "relay"]
  /\ UNCHANGED <<up, held, winner, P, hp, fifo, champion, defeats, file, failed>>

\* A status for a parent that is gone; a player without an answer has one ready.
Orphaned(n) ==
  /\ \/ pc[n] = "send"
     \/ pc[n] = "wait" /\ P[n] # NoStatus /\ down[n] = <<>>
     \/ pc[n] = "relay" /\ ~ Through(held[winner[n]]) /\ up[winner[n]] # <<>>
  /\ n # Root /\ Gone(Above[n])
  /\ pc' = [pc EXCEPT ![n] = "exited"]
  /\ UNCHANGED <<pipes, held, winner, P, hp, fifo, champion, defeats, file, failed>>

-----------------------------------------------------------------------------
Process(n) ==
  \/ n \in Player /\ (Send(n) \/ Receive(n) \/ HandOver(n) \/ TakeOver(n))
  \/ n \in Battle /\ \/ ReadLeft(n) \/ ReadRight(n) \/ Reap(n)
                     \/ RelayUp(n) \/ RelayDown(n) \/ Finish(n)
                     \/ ReadLeftEnd(n) \/ ReadRightEnd(n) \/ FeedbackEnd(n)
  \/ Orphaned(n)

Next == \/ \E n \in Node : Process(n)
        \/ \E p \in Player : HandOverFails(p) \/ TakeOverFails(p)

Spec == Init /\ [][Next]_vars

\* The kernel runs some process as long as one can run.
FairSpec == Spec /\ WF_vars(\E n \in Node : Process(n))

-----------------------------------------------------------------------------
(* Properties. *)

\* A status on its way: who answers for real player i right now.
Acting(i) == {p \in Player : P[p].id = i /\ pc[p] # "exited"}
Entrusted(i) == {p \in Player : \E k \in DOMAIN fifo[p] : fifo[p][k].id = i}

\* A real player is one process at a time, the loser or its agent, never both:
\* they append to one log file, and either would go on fighting.
OneOwner ==
  \A i \in Real : Cardinality(Acting(i)) + Cardinality(Entrusted(i)) <= 1

\* Between a child and its parent there is one status at a time, and it is the
\* child's own, through however many battles it is relayed.
Id(n) == IF n \in Battle THEN held[winner[n]].id ELSE P[n].id
PingPong ==
  \A n \in Node \ {Root} :
    /\ Len(up[n]) + Len(down[n]) <= 1
    /\ \A k \in DOMAIN up[n] : up[n][k].id = Id(n)
    /\ \A k \in DOMAIN down[n] : down[n][k].id = Id(n)

\* Nobody fights with more than it began with, and an agent begins with that,
\* unless a fight with leftovers has come between.
HealthInBounds ==
  /\ failed = {} => \A n \in Node : \A k \in DOMAIN up[n] : up[n][k].HP \in 1 .. Health[up[n][k].id]
  /\ \A p \in Player : P[p] # NoStatus => hp[p] = Health[P[p].id]

\* Two defeats, or one in the last battle, put a player out, and nothing else
\* does: the champion has lost at most once, everybody else is out.
DoubleElimination ==
  /\ \A i \in Real : defeats[i] <= 2
  /\ champion # None =>
       /\ defeats[champion] <= 1
       /\ \A i \in Real \ {champion} :
            defeats[i] = 2 \/ (defeats[i] = 1 /\ held[Loser(Root)].id = i)

\* A champion is the champion of all: where a process has failed, its parent
\* fights with leftovers, dies or waits for ever, and so on up the tree, but no
\* one is ever announced, whatever the others still do.
NoChampionAfterFailure == champion # None => failed = {}

\* The tournament on paper, where nothing runs side by side: left and right after each
\* round of b, and when one of them is down.
Rounds(b, l, r) ==
  LET after[k \in Nat] == IF k = 0 THEN <<l, r>> ELSE Fight(b, after[k - 1][1], after[k - 1][2])
  IN after
Duel(b, l, r) ==
  LET after == Rounds(b, l, r)
  IN after[CHOOSE k \in 1 .. l.HP + r.HP : /\ after[k][1].ended = 1
                                         /\ \A j \in 1 .. k - 1 : after[j][1].ended = 0]

Best(out) == IF out[1].HP > 0 THEN out[1] ELSE out[2]
Beaten(out) == IF out[1].HP > 0 THEN out[2] ELSE out[1]

\* The status each process comes up with first.
Entrant[n \in Node] ==
  LET fought(b) == Duel(b, Entrant[Left[b]], Entrant[Right[b]])
      lost == {b \in ZoneA : Agent[b] = n} IN
  IF n \in Real THEN [NoStatus EXCEPT !.id = n, !.HP = Health[n]]
  ELSE IF n \in Battle THEN LET x == Best(fought(n)) IN Healed(x, Health[x.id])
  ELSE IF lost # {} THEN LET x == Beaten(fought(CHOOSE b \in lost : TRUE))
                         IN [x EXCEPT !.HP = Health[x.id], !.ended = 0]
  ELSE NoStatus
Result(b) == Duel(b, Entrant[Left[b]], Entrant[Right[b]])

\* However the processes interleave, each battle is won by the one who wins it
\* on paper; if some fail, the last battle still is.
OutcomeFixed ==
  /\ failed = {} => \A b \in Battle : winner[b] # None => held[winner[b]].id = Best(Result(b)).id
  /\ champion # None => champion = Best(Result(Root)).id

\* The tournament ends if no process fails: a champion is announced and no process
\* is left waiting for another.
Terminates ==
  <>(failed # {} \/ (champion # None /\ \A n \in Node : pc[n] = "exited"))
=============================================================================
