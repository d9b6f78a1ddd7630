------------------------------- MODULE Bracket -------------------------------
(***************************************************************************)
(* The tables that battle.c and player.c of hw2_pvp-championship-lala-ju   *)
(* hold in their switch statements: who plays in which battle, who takes   *)
(* over whom, and where an attribute doubles the attack.  Each program has *)
(* its own, and nothing but the programmer's care keeps them in step.      *)
(***************************************************************************)
EXTENDS TLC

\* battle.c: the left and the right child of each battle, and its parent.
playl == ("A" :> "B" @@ "B" :> "D" @@ "C" :> "F" @@ "D" :> "G" @@ "E" :> "I" @@ "F" :> "K"
       @@ "G" :> "0" @@ "H" :> "2" @@ "I" :> "4" @@ "J" :> "6" @@ "K" :> "M" @@ "L" :> "N"
       @@ "M" :> "8" @@ "N" :> "11")
playr == ("A" :> "C" @@ "B" :> "E" @@ "C" :> "14" @@ "D" :> "H" @@ "E" :> "J" @@ "F" :> "L"
       @@ "G" :> "1" @@ "H" :> "3" @@ "I" :> "5" @@ "J" :> "7" @@ "K" :> "10" @@ "L" :> "13"
       @@ "M" :> "9" @@ "N" :> "12")
parent == ("A" :> "0" @@ "B" :> "A" @@ "C" :> "A" @@ "D" :> "B" @@ "E" :> "B" @@ "F" :> "C"
        @@ "G" :> "D" @@ "H" :> "D" @@ "I" :> "E" @@ "J" :> "E" @@ "K" :> "F" @@ "L" :> "F"
        @@ "M" :> "K" @@ "N" :> "L")

\* player.c: the battle of each player, and the agent of each battle's loser.
par == ("0" :> "G" @@ "1" :> "G" @@ "2" :> "H" @@ "3" :> "H" @@ "4" :> "I" @@ "5" :> "I"
     @@ "6" :> "J" @@ "7" :> "J" @@ "8" :> "M" @@ "9" :> "M" @@ "10" :> "K" @@ "11" :> "N"
     @@ "12" :> "N" @@ "13" :> "L" @@ "14" :> "C")
agent == ("B" :> "14" @@ "D" :> "10" @@ "E" :> "13" @@ "G" :> "8" @@ "H" :> "11"
       @@ "I" :> "9" @@ "J" :> "12")

\* Where the code doubles the attack of each attribute.
Boost == ("FIRE"  :> {"A", "G", "E", "M", "F"}
       @@ "GRASS" :> {"B", "H", "J", "K", "L"}
       @@ "WATER" :> {"D", "I", "C", "N"})

\* The two programs and the three tables of battle.c agree: a child's parent is
\* the battle it plays in.
ASSUME TablesAgree ==
  \A b \in DOMAIN playl : \A n \in {playl[b], playr[b]} : (parent @@ par)[n] = b

\* Every player beaten in zone A gets an agent of its own, and no agent waits in
\* vain; every battle is somebody's arena.
ASSUME AgentsAgree ==
  /\ {agent[b] : b \in DOMAIN agent} = DOMAIN par \ {"0", "1", "2", "3", "4", "5", "6", "7"}
  /\ \A b, c \in DOMAIN agent : agent[b] = agent[c] => b = c
  /\ UNION {Boost[a] : a \in DOMAIN Boost} = DOMAIN playl

\* The half of the tree whose losers have an agent, with the real players at its leaves,
\* is all below the left child of A.
ASSUME ZonesAgree ==
  LET upper == DOMAIN agent \cup {"0", "1", "2", "3", "4", "5", "6", "7"} IN
  \A b \in DOMAIN playl : /\ playl[b] \in upper <=> b \in DOMAIN agent \cup {"A"}
                         /\ playr[b] \in upper <=> b \in DOMAIN agent
=============================================================================
