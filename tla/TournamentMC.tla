---------------------------- MODULE TournamentMC ----------------------------
(***************************************************************************)
(* Tournaments for TLC.                                                    *)
(***************************************************************************)
EXTENDS Tournament, Bracket

Arenas(attr) == [b \in Battle |-> {p \in Real : b \in Boost[attr[p]]}]
Numbers == [p \in Real |-> CHOOSE k \in 0 .. 7 : ToString(k) = p]

\* The first half of player_status.txt: one who wins all.
FileAttr == "0" :> "FIRE" @@ "1" :> "GRASS" @@ "2" :> "FIRE" @@ "3" :> "GRASS"
FileBoosted == Arenas(FileAttr)
Of(a, b, c, d) == "0" :> a @@ "1" :> b @@ "2" :> c @@ "3" :> d
FromFile == [health |-> Of(7, 8, 4, 1), attack |-> Of(2, 3, 4, 4)]

\* Players of one strength, so that the order of the strokes decides; one who
\* loses the first battle and wins the last.
Even == [health |-> Of(3, 3, 3, 3), attack |-> Of(2, 2, 2, 2)]
Comeback == [health |-> Of(1, 1, 3, 4), attack |-> Of(1, 1, 1, 1)]
MCFiles == {FromFile, Even, Comeback}

\* Four players: the code's tree without D and E, whose places G and H take.
FourLeft  == ("A" :> "B" @@ "B" :> "G" @@ "C" :> "M" @@ "G" :> "0" @@ "H" :> "2" @@ "M" :> "8")
FourRight == ("A" :> "C" @@ "B" :> "H" @@ "C" :> "14" @@ "G" :> "1" @@ "H" :> "3" @@ "M" :> "11")
FourAgent == ("B" :> "14" @@ "G" :> "8" @@ "H" :> "11")

\* What an uninitialized right deals out: death, or nothing (always possible).
Leftovers == {-1}
=============================================================================
