---------------------- MODULE TournamentOutcomeProofs ----------------------
(***************************************************************************)
(* Proof that Tournament comes out the same however its processes          *)
(* interleave: while nobody has failed, every status that goes up is the   *)
(* one that is due there on paper.                                         *)
(***************************************************************************)
EXTENDS TournamentPipeProofs

-----------------------------------------------------------------------------
(* The tournament on paper.  Who enters a battle is computed from whoever  *)
(* enters below it, and from the zone of the winners for those who lost    *)
(* there: this comes to an end.                                            *)

\* In a tree nobody goes down for ever.
LEMMA NoEndlessDescent ==
  ASSUME NEW T \in SUBSET Battle, \A b \in T : Left[b] \in T \/ Right[b] \in T
  PROVE  T = {}
<1> DEFINE f == [b \in T |-> IF Left[b] \in T THEN Left[b] ELSE Right[b]]
<1>1. IsFiniteSet(T)
  BY TreeAssumption, FS_Subset
<1>2. \A b \in T : f[b] \in T /\ f[b] \in {Left[b], Right[b]}
  OBVIOUS
<1>3. f \in [T -> T]
  BY <1>2
<1> HIDE DEF f
<1>4. \A b, c \in T : f[b] = f[c] => b = c
  BY <1>2, OneParent
<1>5. f \in Injection(T, T)
  BY <1>3, <1>4 DEF Injection, IsInjective
<1>6. f \in Surjection(T, T)
  BY <1>1, <1>5, FS_Injection
<1>7. \A t \in T : \E b \in T : f[b] = t
  BY <1>6 DEF Surjection
<1>8. Node \ T \in Closed
  BY <1>2, <1>7, OneParent, ChildrenAreNodes DEF Closed
<1>9. Root \notin T
  BY <1>2, <1>7, OneParent
<1> QED BY <1>8, <1>9, TreeAssumption, ChildrenAreNodes

\* Whom the entry of n depends on.
Lost(n) == {b \in ZoneA : Agent[b] = n}
Source(n) == CHOOSE b \in Lost(n) : TRUE
Needs(n) == IF n \in Battle THEN {Left[n], Right[n]}
            ELSE IF n \in Real \/ Lost(n) = {} THEN {}
            ELSE {Left[Source(n)], Right[Source(n)]}

\* n's entry when those of the others are in f.
Entry(f, n) ==
  LET fought(b) == Duel(b, f[Left[b]], f[Right[b]]) IN
  IF n \in Real THEN [NoStatus EXCEPT !.id = n, !.HP = Health[n]]
  ELSE IF n \in Battle THEN LET x == Best(fought(n)) IN Healed(x, Health[x.id])
  ELSE IF Lost(n) # {} THEN LET x == Beaten(fought(Source(n)))
                            IN [x EXCEPT !.HP = Health[x.id], !.ended = 0]
  ELSE NoStatus

LEMMA FourCases ==
  ASSUME NEW n \in Node
  PROVE  /\ n \in Real => n \notin Battle /\ Needs(n) = {}
         /\ n \in Battle => n \notin Real /\ Needs(n) = {Left[n], Right[n]}
         /\ n \notin Real /\ n \notin Battle => Needs(n) = {} \/ \E b \in Lost(n) : Needs(n) = {Left[b], Right[b]}
         /\ Needs(n) \subseteq Node
<1>1. n \in Real => n \notin Battle
  BY ChildrenAreNodes
<1>2. n \in Real => Needs(n) = {}
  BY <1>1 DEF Needs
<1>3. n \in Battle => Needs(n) = {Left[n], Right[n]}
  BY DEF Needs
<1>4. ASSUME n \notin Real, n \notin Battle
      PROVE  Needs(n) = {} \/ \E b \in Lost(n) : Needs(n) = {Left[b], Right[b]}
  <2>1. CASE Lost(n) = {}
    BY <1>4, <2>1 DEF Needs
  <2>2. CASE Lost(n) # {}
    <3>1. Source(n) \in Lost(n)
      BY <2>2 DEF Source
    <3> QED BY <1>4, <2>2, <3>1 DEF Needs
  <2> QED BY <2>1, <2>2
<1>5. \A b \in Lost(n) : b \in Battle
  BY ZoneAAgents DEF Lost
<1> QED BY <1>1, <1>2, <1>3, <1>4, <1>5, ChildrenAreNodes

\* The entry of n is a matter of what it needs.
LEMMA EntryNeeds ==
  ASSUME NEW f, NEW g, NEW n \in Node, \A m \in Needs(n) : f[m] = g[m]
  PROVE  Entry(f, n) = Entry(g, n)
<1>1. CASE n \in Real
  BY <1>1, ChildrenAreNodes DEF Entry
<1>2. CASE n \in Battle
  <2>1. n \notin Real /\ f[Left[n]] = g[Left[n]] /\ f[Right[n]] = g[Right[n]]
    BY <1>2, FourCases
  <2> QED BY <1>2, <2>1 DEF Entry
<1>3. CASE n \notin Real /\ n \notin Battle /\ Lost(n) # {}
  <2>1. Needs(n) = {Left[Source(n)], Right[Source(n)]}
    BY <1>3 DEF Needs
  <2>2. f[Left[Source(n)]] = g[Left[Source(n)]] /\ f[Right[Source(n)]] = g[Right[Source(n)]]
    BY <2>1
  <2> QED BY <1>3, <2>2 DEF Entry
<1>4. CASE n \notin Real /\ n \notin Battle /\ Lost(n) = {}
  BY <1>4 DEF Entry
<1> QED BY <1>1, <1>2, <1>3, <1>4

\* Where not all entries are known, there is one more that can be.
LEMMA NextEntry ==
  ASSUME NEW S \in SUBSET Node, S # Node
  PROVE  \E n \in Node \ S : Needs(n) \subseteq S
<1> SUFFICES ASSUME \A n \in Node \ S : ~ (Needs(n) \subseteq S) PROVE FALSE
  OBVIOUS
<1> DEFINE T == (Battle \cap Upper) \ S
           U == Battle \ S
<1>1. \A b \in T : Left[b] \in T \/ Right[b] \in T
  <2> SUFFICES ASSUME NEW b \in T PROVE Left[b] \in T \/ Right[b] \in T
    OBVIOUS
  <2>1. b \in Node /\ Needs(b) = {Left[b], Right[b]} /\ Left[b] \in Node /\ Right[b] \in Node
    BY FourCases, ChildrenAreNodes
  <2>2. PICK c \in {Left[b], Right[b]} : c \notin S /\ c \in Node
    BY <2>1
  <2>3. c \in Upper
    BY Zones
  <2>4. c \notin Real
    BY <2>2, FourCases
  <2> QED BY <2>2, <2>3, <2>4, Zones DEF Upper
<1>2. Battle \cap Upper \subseteq S
  BY <1>1, NoEndlessDescent
<1>3. \A n \in Node \ S : n \in Battle
  <2> SUFFICES ASSUME NEW n \in Node \ S, n \notin Battle PROVE FALSE
    OBVIOUS
  <2>1. n \notin Real /\ Needs(n) # {}
    BY FourCases
  <2>2. PICK b \in Lost(n) : Needs(n) = {Left[b], Right[b]}
    BY <2>1, FourCases
  <2>3. b \in Battle \cap Upper
    BY Zones DEF Lost
  <2>4. Left[b] \in Upper /\ Right[b] \in Upper
    BY <2>3, Zones
  <2>5. \A m \in Upper : m \in S
    BY <1>2, FourCases, Zones DEF Upper
  <2> QED BY <2>2, <2>4, <2>5
<1>4. \A b \in U : Left[b] \in U \/ Right[b] \in U
  <2> SUFFICES ASSUME NEW b \in U PROVE Left[b] \in U \/ Right[b] \in U
    OBVIOUS
  <2>1. b \in Node /\ Needs(b) = {Left[b], Right[b]} /\ Left[b] \in Node /\ Right[b] \in Node
    BY FourCases, ChildrenAreNodes
  <2> QED BY <1>3, <2>1
<1>5. U = {}
  BY <1>4, NoEndlessDescent
<1> QED BY <1>3, <1>5

\* So everybody has an entry.
LEMMA EntriesExist == \E f : \A n \in Node : f[n] = Entry(f, n)
<1> DEFINE Good(S) == /\ \A n \in S : Needs(n) \subseteq S
                      /\ \E f : \A n \in S : f[n] = Entry(f, n)
           G == {k \in Nat : \E S \in SUBSET Node : Good(S) /\ (Cardinality(S) = k \/ S = Node)}
<1>1. 0 \in G
  <2>1. Good({})
    OBVIOUS
  <2> HIDE DEF Good
  <2> QED BY <2>1, FS_EmptySet
<1>2. ASSUME NEW k \in Nat, k \in G PROVE k + 1 \in G
  <2>1. PICK S \in SUBSET Node : Good(S) /\ (Cardinality(S) = k \/ S = Node)
    BY <1>2
  <2>2. CASE S = Node
    <3> HIDE DEF Good
    <3> QED BY <2>1, <2>2
  <2>3. CASE S # Node
    <3>1. PICK n \in Node \ S : Needs(n) \subseteq S
      BY <2>3, NextEntry
    <3>2. PICK f : \A m \in S : f[m] = Entry(f, m)
      BY <2>1
    <3> DEFINE g == [m \in Node |-> IF m = n THEN Entry(f, n) ELSE f[m]]
    <3>3. g[n] = Entry(f, n) /\ \A m \in S : g[m] = f[m]
      BY <3>1
    <3> HIDE DEF g
    <3>4. \A m \in S \cup {n} : Needs(m) \subseteq S /\ m \in Node
      BY <2>1, <3>1
    <3>5. \A m \in S \cup {n} : Entry(g, m) = Entry(f, m)
      BY <3>3, <3>4, EntryNeeds
    <3>6. \A m \in S \cup {n} : g[m] = Entry(g, m)
      BY <3>2, <3>3, <3>5
    <3>7. Good(S \cup {n})
      BY <3>4, <3>6
    <3> HIDE DEF Good
    <3>8. IsFiniteSet(S)
      BY TreeFinite, FS_Subset
    <3>9. Cardinality(S \cup {n}) = k + 1
      BY <2>1, <2>3, <3>1, <3>8, FS_AddElement
    <3> QED BY <3>1, <3>7, <3>9
  <2> QED BY <2>2, <2>3
<1> HIDE DEF G
<1>3. \A k \in Nat : k \in G
  BY <1>1, <1>2, SetInduction
<1>4. Cardinality(Node) \in Nat
  BY TreeFinite, FS_CardinalityType
<1>5. Cardinality(Node) \in G
  BY <1>3, <1>4
<1>6. PICK S \in SUBSET Node : Good(S) /\ (Cardinality(S) = Cardinality(Node) \/ S = Node)
  <2> HIDE DEF Good
  <2> QED BY <1>5 DEF G
<1>7. S = Node
  <2> HIDE DEF Good
  <2> QED BY <1>6, TreeFinite, FS_Subset
<1> QED BY <1>6, <1>7

LEMMA EntrantIs ==
  /\ Entrant = [n \in Node |-> Entry(Entrant, n)]
  /\ \A n \in Node : Entrant[n] = Entry(Entrant, n)
<1> DEFINE Is(g) == g = [n \in Node |-> Entry(g, n)]
<1>1. \E g : Is(g)
  <2>1. PICK f : \A n \in Node : f[n] = Entry(f, n)
    BY EntriesExist
  <2> DEFINE g == [n \in Node |-> f[n]]
  <2>2. \A n \in Node : g[n] = f[n]
    OBVIOUS
  <2>3. g = [n \in Node |-> g[n]]
    OBVIOUS
  <2> HIDE DEF g
  <2>4. \A n \in Node : Entry(g, n) = Entry(f, n)
    BY <2>2, FourCases, EntryNeeds
  <2>5. Is(g)
    BY <2>1, <2>2, <2>3, <2>4
  <2> QED BY <2>5
<1>2. Entrant = CHOOSE g : Is(g)
  BY DEF Entrant, Entry, Lost, Source
<1>3. Is(Entrant)
  BY <1>1, <1>2
<1> QED BY <1>3

-----------------------------------------------------------------------------
(* A battle on paper is the battle fought out. *)

LEMMA RoundsGo ==
  ASSUME file \in Files, NEW b \in Battle, NEW l \in Status, NEW r \in Status
  PROVE  LET after == Rounds(b, l, r) IN
         after[0] = <<l, r>> /\ \A k \in Nat : after[k + 1] = Fight(b, after[k][1], after[k][2])
<1> DEFINE S == Status \X Status
           h == [x \in S |-> Fight(b, x[1], x[2])]
           Is(g) == g = [k \in Nat |-> IF k = 0 THEN <<l, r>> ELSE Fight(b, g[k - 1][1], g[k - 1][2])]
<1>1. \A x \in S : Fight(b, x[1], x[2]) \in S
  <2> SUFFICES ASSUME NEW u \in Status, NEW v \in Status PROVE Fight(b, u, v) \in S
    OBVIOUS
  <2>1. Fight(b, u, v) = <<Fight(b, u, v)[1], Fight(b, u, v)[2]>>
    BY DEF Fight
  <2>2. Fight(b, u, v)[1] \in Status /\ Fight(b, u, v)[2] \in Status
    BY FightKeepsPlaces
  <2> HIDE DEF S
  <2> QED BY <2>1, <2>2 DEF S
<1>2. h \in [S -> S] /\ \A x \in S : h[x] = Fight(b, x[1], x[2])
  BY <1>1
<1> HIDE DEF h
<1>3. PICK f \in [Nat -> S] : f[0] = <<l, r>> /\ \A n \in Nat : f[n + 1] = h[f[n]]
  <2> DEFINE a == <<l, r>>
  <2>1. a \in S
    OBVIOUS
  <2> HIDE DEF a, S
  <2>2. \A g \in [S -> S] : \E f \in [Nat -> S] : f[0] = a /\ \A n \in Nat : f[n + 1] = g[f[n]]
    BY <2>1, StepsForever
  <2>3. \E f \in [Nat -> S] : f[0] = a /\ \A n \in Nat : f[n + 1] = h[f[n]]
    BY <1>2, <2>2
  <2> QED BY <2>3 DEF a
<1>4. \A n \in Nat : f[n + 1] = Fight(b, f[n][1], f[n][2])
  BY <1>2, <1>3
<1>5. Is(f)
  <2>1. \A k \in Nat : f[k] = IF k = 0 THEN <<l, r>> ELSE Fight(b, f[k - 1][1], f[k - 1][2])
    <3> SUFFICES ASSUME NEW k \in Nat, k # 0 PROVE f[k] = Fight(b, f[k - 1][1], f[k - 1][2])
      BY <1>3
    <3>1. k - 1 \in Nat /\ (k - 1) + 1 = k
      OBVIOUS
    <3> QED BY <1>4, <3>1
  <2> QED BY <1>3, <2>1
<1>6. Rounds(b, l, r) = CHOOSE g : Is(g)
  BY DEF Rounds
<1> HIDE DEF Is
<1>7. Is(Rounds(b, l, r))
  BY <1>5, <1>6
<1> QED
  <2> DEFINE g == Rounds(b, l, r)
  <2>1. g = [k \in Nat |-> IF k = 0 THEN <<l, r>> ELSE Fight(b, g[k - 1][1], g[k - 1][2])]
    BY <1>7 DEF Is
  <2> HIDE DEF g
  <2>2. g[0] = <<l, r>>
    BY <2>1
  <2>3. \A k \in Nat : g[k + 1] = Fight(b, g[k][1], g[k][2])
    <3> SUFFICES ASSUME NEW k \in Nat PROVE g[k + 1] = Fight(b, g[k][1], g[k][2])
      OBVIOUS
    <3>1. k + 1 \in Nat /\ k + 1 # 0 /\ (k + 1) - 1 = k
      OBVIOUS
    <3> QED BY <2>1, <3>1
  <2> QED BY <2>2, <2>3 DEF g

\* A battle of l and r that is not over after k rounds, with m and n for left and right.
After(b, l, r, m, n, k) ==
  /\ <<m, n>> = Rounds(b, l, r)[k]
  /\ m.HP > 0 /\ n.HP > 0 /\ m.HP + n.HP + k <= l.HP + r.HP
  /\ \A j \in 1 .. k : Rounds(b, l, r)[j][1].ended = 0

LEMMA RoundOn ==
  ASSUME file \in Files, NEW b \in Battle, NEW l \in Status, NEW r \in Status, NEW k \in Nat,
         NEW m \in Status, NEW n \in Status, m.ended = 0, n.ended = 0, After(b, l, r, m, n, k),
         NEW s \in Status, NEW t \in Status, s = Fight(b, m, n)[1], t = Fight(b, m, n)[2]
  PROVE  /\ s.HP > 0 /\ t.HP > 0 => After(b, l, r, s, t, k + 1)
         /\ s.HP <= 0 \/ t.HP <= 0 => Duel(b, l, r) = <<s, t>>
<1> DEFINE after == Rounds(b, l, r)
<1>1. after[k + 1] = Fight(b, m, n) /\ after[k] = <<m, n>>
  BY RoundsGo DEF After
<1>2. Fight(b, m, n) = <<s, t>>
  <2>1. \E u, v : Fight(b, m, n) = <<u, v>>
    BY DEF Fight
  <2> QED BY <2>1
<1>3. /\ s.HP + t.HP < m.HP + n.HP
      /\ s.HP > 0 /\ t.HP > 0 => s.ended = 0
      /\ s.HP <= 0 \/ t.HP <= 0 => s.ended = 1
  BY FightHurts DEF After
<1>4. /\ m.HP > 0 /\ n.HP > 0 /\ m.HP + n.HP + k <= l.HP + r.HP
      /\ \A j \in 1 .. k : after[j][1].ended = 0
  BY DEF After
<1>5. /\ s.HP \in Int /\ t.HP \in Int /\ m.HP \in Int /\ n.HP \in Int /\ l.HP \in Int /\ r.HP \in Int
  BY DEF Status
<1>6. after[k + 1] = <<s, t>> /\ after[k + 1][1] = s
  BY <1>1, <1>2
<1> HIDE DEF after
<1>7. ASSUME s.HP > 0, t.HP > 0 PROVE After(b, l, r, s, t, k + 1)
  <2>1. s.HP + t.HP + (k + 1) <= l.HP + r.HP
    BY <1>3, <1>4, <1>5
  <2>2. \A j \in 1 .. k + 1 : j \in 1 .. k \/ j = k + 1
    OBVIOUS
  <2>3. \A j \in 1 .. k + 1 : after[j][1].ended = 0
    BY <1>3, <1>4, <1>6, <1>7, <2>2
  <2> QED BY <1>6, <1>7, <2>1, <2>3 DEF After, after
<1>8. ASSUME s.HP <= 0 \/ t.HP <= 0 PROVE Duel(b, l, r) = <<s, t>>
  <2> DEFINE Last(i) == after[i][1].ended = 1 /\ \A j \in 1 .. i - 1 : after[j][1].ended = 0
             N == 1 .. l.HP + r.HP
  <2>1. Duel(b, l, r) = after[CHOOSE i \in N : Last(i)]
    BY DEF Duel, after
  <2>2. k + 1 \in N
    BY <1>4, <1>5
  <2>3. Last(k + 1)
    <3>1. (k + 1) - 1 = k
      OBVIOUS
    <3> QED BY <1>3, <1>4, <1>6, <1>8, <3>1
  <2>4. ASSUME NEW i \in N, Last(i) PROVE i = k + 1
    <3>1. i \in Int /\ i >= 1
      BY <1>5
    <3>2. i < k + 1 => i \in 1 .. (k + 1) - 1
      BY <3>1
    <3>3. i > k + 1 => k + 1 \in 1 .. i - 1
      BY <3>1
    <3>4. ~ (i < k + 1)
      BY <2>3, <2>4, <3>2
    <3>5. ~ (i > k + 1)
      BY <2>3, <2>4, <3>3
    <3> QED BY <3>1, <3>4, <3>5
  <2> HIDE DEF N, Last
  <2> QED BY <1>6, <2>1, <2>2, <2>3, <2>4
<1> QED BY <1>7, <1>8

-----------------------------------------------------------------------------
(* What is on paper stays there: it depends on player_status.txt alone.    *)

LEMMA FightStays == UNCHANGED file => \A b, l, r : Fight(b, l, r)' = Fight(b, l, r)
BY DEF Fight, RightFirst, Round, Strike, Power, Attack

LEMMA RoundsStay ==
  ASSUME UNCHANGED file, NEW b, NEW l, NEW r
  PROVE  Rounds(b, l, r)' = Rounds(b, l, r)
<1> DEFINE Was(g) == g = [k \in Nat |-> IF k = 0 THEN <<l, r>> ELSE Fight(b, g[k - 1][1], g[k - 1][2])]
           Is(g) == g = [k \in Nat |-> IF k = 0 THEN <<l, r>> ELSE Fight(b, g[k - 1][1], g[k - 1][2])']
<1>1. Rounds(b, l, r) = (CHOOSE g : Was(g))
  BY DEF Rounds
<1>2. Rounds(b, l, r)' = (CHOOSE g : Is(g))
  BY DEF Rounds
<1>3. \A g : Was(g) <=> Is(g)
  BY FightStays
<1> HIDE DEF Was, Is
<1>4. (CHOOSE g : Was(g)) = (CHOOSE g : Is(g))
  BY <1>3
<1> QED BY <1>1, <1>2, <1>4

LastOf(after, N) == after[CHOOSE k \in N : /\ after[k][1].ended = 1
                                           /\ \A j \in 1 .. k - 1 : after[j][1].ended = 0]

LEMMA DuelIs == \A b, l, r : Duel(b, l, r) = LastOf(Rounds(b, l, r), 1 .. l.HP + r.HP)
BY DEF Duel, LastOf

LEMMA DuelStays == UNCHANGED file => \A b, l, r : Duel(b, l, r)' = Duel(b, l, r)
<1>1. (\A b, l, r : Duel(b, l, r) = LastOf(Rounds(b, l, r), 1 .. l.HP + r.HP))'
  BY DuelIs, PTL
<1> QED BY <1>1, DuelIs, RoundsStay

LEMMA EntryStays == UNCHANGED file => \A e, n : Entry(e, n)' = Entry(e, n)
BY DuelStays DEF Entry, Health

LEMMA PaperStays ==
  ASSUME UNCHANGED file
  PROVE  /\ Entrant' = Entrant /\ Health' = Health
         /\ \A b : Result(b)' = Result(b)
<1> DEFINE Was(e) == e = [n \in Node |-> Entry(e, n)]
           Is(e) == e = [n \in Node |-> Entry(e, n)']
<1>1. Entrant = CHOOSE e : Was(e)
  BY DEF Entrant, Entry, Lost, Source
<1>2. Entrant' = CHOOSE e : Is(e)
  BY DEF Entrant, Entry, Lost, Source
<1>3. \A e : Was(e) <=> Is(e)
  BY EntryStays
<1> HIDE DEF Was, Is
<1>4. Entrant' = Entrant
  BY <1>1, <1>2, <1>3
<1>5. \A b : Result(b)' = Result(b)
  BY <1>4, DuelStays DEF Result
<1> QED BY <1>4, <1>5 DEF Health

-----------------------------------------------------------------------------
(* What is due. *)

\* What the parent of n gets from it next, if anything.
Due(n) == IF held[n] = NoStatus THEN Entrant[n]
          ELSE IF held[n].ended = 1 THEN Healed(held[n], Health[held[n].id]) ELSE held[n]

\* s has lost, and as it should.
AsLost(s) == s = Beaten(Result(s.battle))

\* What goes up is what is due, and what comes down when it is over is the loss.
Honest(n) ==
  /\ \A k \in DOMAIN up[n] : up[n][k] = Due(n)
  /\ held[n] # NoStatus /\ held[n].HP <= 0 => AsLost(held[n])

\* So are what a player sends and what it hands over, once it is healed, to its agent.
HonestPlayer(p) ==
  /\ pc[p] = "send" => P[p] = Due(p)
  /\ pc[p] = "lost" => AsLost([P[p] EXCEPT !.ended = 1])
  /\ \A k \in DOMAIN fifo[p] : fifo[p][k] = Entrant[p]

\* A battle is as far as it is after some round on paper.
Underway(b) ==
  LET l == Left[b]  r == Right[b] IN
  \/ Due(l) = Entrant[l] /\ Due(r) = Entrant[r]
  \/ /\ {Entrant[l], Entrant[r], Due(l), Due(r)} \subseteq Status
     /\ \E k \in Nat : After(b, Entrant[l], Entrant[r], Due(l), Due(r), k)

HonestBattle(b) ==
  /\ pc[b] \in {"left", "right"} => Underway(b)
  /\ pc[b] = "reap" => held[winner[b]] = Best(Result(b)) /\ held[winner[b]].ended = 1
  /\ pc[b] = "relay" => Due(winner[b]) = Due(b)
  /\ winner[b] # None => held[winner[b]].id = Best(Result(b)).id

OnPaper == /\ \A n \in Node : Honest(n)
           /\ \A p \in Player : HonestPlayer(p)
           /\ \A b \in Battle : HonestBattle(b)
Paper == failed = {} => OnPaper

-----------------------------------------------------------------------------
(* What a step leaves as it is. *)

LEMMA DueKept ==
  ASSUME NEW n \in Node, held'[n] = held[n], UNCHANGED file
  PROVE  Due(n)' = Due(n)
BY PaperStays DEF Due, Healed

LEMMA HonestKept ==
  ASSUME NEW n \in Node, Honest(n), up'[n] = up[n], held'[n] = held[n], UNCHANGED file
  PROVE  Honest(n)'
BY DueKept, PaperStays DEF Honest, AsLost

LEMMA PlayerKept ==
  ASSUME NEW p \in Player, HonestPlayer(p), pc'[p] = pc[p], P'[p] = P[p],
         \A k \in DOMAIN fifo'[p] : fifo'[p][k] = Entrant[p],
         held'[p] = held[p] \/ pc[p] = "wait", UNCHANGED file
  PROVE  HonestPlayer(p)'
<1>1. held'[p] = held[p] => Due(p)' = Due(p)
  BY DueKept, ChildrenAreNodes
<1> QED BY <1>1, PaperStays DEF HonestPlayer, AsLost

LEMMA UnderwayKept ==
  ASSUME NEW b \in Battle, Underway(b), Due(Left[b])' = Due(Left[b]), Due(Right[b])' = Due(Right[b]),
         UNCHANGED file
  PROVE  Underway(b)'
<1>1. \A l, r, m, n, k : After(b, l, r, m, n, k)' <=> After(b, l, r, m, n, k)
  BY RoundsStay DEF After
<1> QED BY <1>1, PaperStays DEF Underway

LEMMA BattleKept ==
  ASSUME Sound, NEW b \in Battle, HonestBattle(b), pc'[b] = pc[b], winner'[b] = winner[b],
         held'[Left[b]] = held[Left[b]], held'[Right[b]] = held[Right[b]],
         held'[b] = held[b] \/ pc[b] = "feedback", UNCHANGED file
  PROVE  HonestBattle(b)'
<1>1. Due(Left[b])' = Due(Left[b]) /\ Due(Right[b])' = Due(Right[b])
  BY DueKept, ChildrenAreNodes
<1>2. held'[b] = held[b] => Due(b)' = Due(b)
  BY DueKept, ChildrenAreNodes
<1>3. pc[b] \in {"left", "right"} => Underway(b)'
  BY <1>1, UnderwayKept DEF HonestBattle
<1>4. winner[b] # None => winner[b] \in {Left[b], Right[b]}
  BY DEF Sound, Battles
<1>5. pc[b] \in {"reap", "relay"} => winner[b] # None
  BY DEF Sound, Battles
<1> QED BY <1>1, <1>2, <1>3, <1>4, <1>5, PaperStays DEF HonestBattle

-----------------------------------------------------------------------------
(* Whoever moves, it stays on paper. *)

\* A player that moves leaves the others as honest as they are.
LEMMA PlayerOnPaper ==
  ASSUME Sound, OnPaper, NEW p \in Player,
         NEW v, pc' = [pc EXCEPT ![p] = v], UNCHANGED <<held, winner, file>>,
         \A n \in Node \ {p} : up'[n] = up[n],
         \A q \in Player \ {p} : P'[q] = P[q],
         Honest(p)', HonestPlayer(p)',
         \A q \in Player \ {p} : \A k \in DOMAIN fifo'[q] : fifo'[q][k] = Entrant[q]
  PROVE  OnPaper'
<1>1. p \in Node /\ p \notin Battle /\ pc \in [Node -> {"send", "wait", "lost", "left", "right", "reap",
                                                     "relay", "feedback", "exited"}]
  BY ChildrenAreNodes DEF Sound, TypeOK
<1>2. \A n \in Node \ {p} : pc'[n] = pc[n]
  BY <1>1
<1>3. \A n \in Node : Honest(n)'
  BY HonestKept DEF OnPaper
<1>4. \A q \in Player : HonestPlayer(q)'
  BY <1>2, PlayerKept, ChildrenAreNodes DEF OnPaper
<1>5. \A b \in Battle : HonestBattle(b)'
  BY <1>1, <1>2, BattleKept, ChildrenAreNodes DEF OnPaper
<1> QED BY <1>3, <1>4, <1>5 DEF OnPaper

LEMMA SendOnPaper ==
  ASSUME Sound, Tokens, OnPaper, NEW p \in Player, Send(p)
  PROVE  OnPaper'
<1>1. /\ p \in Node /\ Token(p) /\ Honest(p) /\ HonestPlayer(p)
      /\ up \in [Node -> Seq(Status)]
  BY ChildrenAreNodes DEF Tokens, OnPaper, Sound, TypeOK
<1>2. /\ pc[p] = "send" /\ up' = [up EXCEPT ![p] = Append(@, P[p])] /\ pc' = [pc EXCEPT ![p] = "wait"]
      /\ UNCHANGED <<held, winner, P, fifo, file>>
  BY DEF Send
<1>3. Empty(p)
  BY <1>1, <1>2 DEF Token, AtHome
<1>4. up'[p] = <<P[p]>> /\ pc'[p] = "wait"
  <2>1. up'[p] = Append(<<>>, P[p])
    BY <1>1, <1>2, <1>3 DEF Empty
  <2> QED BY <1>1, <1>2, <2>1 DEF Sound, TypeOK
<1>5. Honest(p)'
  <2>1. \A k \in DOMAIN up'[p] : up'[p][k] = P[p]
    BY <1>4
  <2>2. P[p] = Due(p)'
    BY <1>1, <1>2, DueKept DEF HonestPlayer
  <2> QED BY <1>1, <1>2, <2>1, <2>2, PaperStays DEF Honest, AsLost
<1>6. HonestPlayer(p)'
  BY <1>1, <1>2, <1>4, PaperStays DEF HonestPlayer
<1>7. \A n \in Node \ {p} : up'[n] = up[n]
  BY <1>1, <1>2
<1>8. \A q \in Player : \A k \in DOMAIN fifo'[q] : fifo'[q][k] = Entrant[q]
  BY <1>2 DEF OnPaper, HonestPlayer
<1> QED BY <1>2, <1>5, <1>6, <1>7, <1>8, PlayerOnPaper

\* The player does what is due with what it gets back.
LEMMA ReceiveOnPaper ==
  ASSUME Sound, Tokens, AllWell, OnPaper, NEW p \in Player, Receive(p)
  PROVE  OnPaper'
<1>1. /\ p \in Node /\ p \notin Battle /\ Honest(p) /\ HonestPlayer(p)
      /\ down[p] # <<>> /\ UNCHANGED <<up, held, winner, hp, fifo, file>>
  BY ChildrenAreNodes DEF Receive, OnPaper
<1>2. PICK x \in Status : x = Head(down[p]) /\ x = held[p]
  BY <1>1, FreshThere
<1>3. /\ x # NoStatus /\ hp[p] = Health[x.id]
      /\ AsLost(x) \/ ~ (x.HP <= 0)
  <2>1. P[p] # NoStatus /\ hp[p] = Health[P[p].id]
    BY GetsItsOwn DEF Sound, Players
  <2>2. x.id \in Name(p) /\ x # NoStatus
    <3>1. x.id \in Ids(down[p])
      BY <1>1, <1>2, PipeTypes, TakenOut
    <3> QED BY <1>1, <3>1, StatusThere DEF Sound, Names
  <2>3. x.id = P[p].id
    BY <1>1, <2>2 DEF Name
  <2> QED BY <1>1, <1>2, <2>1, <2>2, <2>3 DEF Honest
<1>4. \E y \in Status, v \in {"send", "lost", "exited"} :
         /\ pc' = [pc EXCEPT ![p] = v] /\ P' = [P EXCEPT ![p] = y]
         /\ v = "send" => y = Due(p)
         /\ v = "lost" => AsLost([y EXCEPT !.ended = 1])
  <2> DEFINE e == [x EXCEPT !.ended = 0]
             g == Healed(x, hp[p])
  <2>1. e \in Status /\ (x.ended = 1 => [e EXCEPT !.ended = 1] = x)
    BY DEF Status
  <2>2. g \in Status
    <3>1. x.HP + (hp[p] - x.HP) \div 2 \in Int
      BY DEF Sound, TypeOK, Status
    <3> QED BY <3>1 DEF Status, Healed
  <2>3. Due(p) = IF x.ended = 1 THEN g ELSE x
    BY <1>2, <1>3 DEF Due
  <2>4. CASE x.ended = 0 /\ pc' = [pc EXCEPT ![p] = "send"] /\ P' = [P EXCEPT ![p] = x]
    <3>1. x = Due(p)
      BY <2>3, <2>4
    <3> HIDE DEF e, g
    <3> QED BY <2>4, <3>1
  <2>5. CASE /\ x.ended = 1 /\ x.HP <= 0
             /\ pc' = [pc EXCEPT ![p] = IF x.battle \in ZoneA THEN "lost" ELSE "exited"]
             /\ P' = [P EXCEPT ![p] = e]
    <3>1. AsLost([e EXCEPT !.ended = 1])
      BY <1>3, <2>1, <2>5
    <3> HIDE DEF e
    <3> QED BY <2>1, <2>5, <3>1
  <2>6. CASE pc' = [pc EXCEPT ![p] = "exited"] /\ P' = [P EXCEPT ![p] = e]
    <3> HIDE DEF e
    <3> QED BY <2>1, <2>6
  <2>7. CASE x.ended = 1 /\ pc' = [pc EXCEPT ![p] = "send"] /\ P' = [P EXCEPT ![p] = g]
    <3> HIDE DEF g
    <3> QED BY <2>2, <2>3, <2>7
  <2> HIDE DEF e, g
  <2>8. \/ x.ended = 0 /\ pc' = [pc EXCEPT ![p] = "send"] /\ P' = [P EXCEPT ![p] = x]
        \/ /\ x.ended = 1 /\ x.HP <= 0
           /\ pc' = [pc EXCEPT ![p] = IF x.battle \in ZoneA THEN "lost" ELSE "exited"]
           /\ P' = [P EXCEPT ![p] = e]
        \/ pc' = [pc EXCEPT ![p] = "exited"] /\ P' = [P EXCEPT ![p] = e]
        \/ x.ended = 1 /\ pc' = [pc EXCEPT ![p] = "send"] /\ P' = [P EXCEPT ![p] = g]
    BY <1>2 DEF Receive, e, g
  <2> QED BY <2>4, <2>5, <2>6, <2>7, <2>8
<1>5. PICK y \in Status, v \in {"send", "lost", "exited"} :
         /\ pc' = [pc EXCEPT ![p] = v] /\ P' = [P EXCEPT ![p] = y]
         /\ v = "send" => y = Due(p)
         /\ v = "lost" => AsLost([y EXCEPT !.ended = 1])
  BY <1>4
<1>6. pc'[p] = v /\ P'[p] = y /\ \A q \in Player \ {p} : P'[q] = P[q]
  BY <1>1, <1>5 DEF Sound, TypeOK
<1>7. Honest(p)'
  BY <1>1, HonestKept
<1>8. HonestPlayer(p)'
  <2>1. Due(p)' = Due(p)
    BY <1>1, DueKept
  <2> QED BY <1>1, <1>5, <1>6, <2>1, PaperStays DEF HonestPlayer, AsLost
<1>9. \A q \in Player : \A k \in DOMAIN fifo'[q] : fifo'[q][k] = Entrant[q]
  BY <1>1 DEF OnPaper, HonestPlayer
<1> QED BY <1>1, <1>5, <1>6, <1>7, <1>8, <1>9, PlayerOnPaper

\* The FIFO of an agent gets what the agent is to come up with.
LEMMA HandOverOnPaper ==
  ASSUME Sound, AllWell, OnPaper, NEW p \in Player, HandOver(p)
  PROVE  OnPaper'
<1>1. PICK b \in ZoneA : b = P[p].battle
  BY DEF HandOver, Sound, Players
<1>2. PICK a \in Player : a = Agent[b] /\ a \notin Real /\ a \notin Battle /\ a \in Node
  BY TreeAssumption, ChildrenAreNodes DEF ZoneA
<1> DEFINE s == [P[p] EXCEPT !.HP = hp[p]]
<1>3. /\ p \in Node /\ Honest(p) /\ HonestPlayer(p)
      /\ fifo \in [Player -> Seq(Status)] /\ pc[p] = "lost" /\ pc' = [pc EXCEPT ![p] = "exited"]
      /\ fifo' = [fifo EXCEPT ![a] = Append(@, s)] /\ P[p] \in Status /\ hp[p] = Health[P[p].id]
      /\ UNCHANGED <<up, held, winner, P, file>>
  BY <1>1, <1>2, ChildrenAreNodes, StatusThere DEF HandOver, pipes, OnPaper, Sound, TypeOK, Players
<1>4. s = Entrant[a]
  <2>1. Lost(a) # {} /\ Source(a) = b
    <3>1. Lost(a) = {b}
      BY <1>2, TreeAssumption DEF Lost, ZoneA
    <3> QED BY <3>1 DEF Source
  <2>2. Entrant[a] = [Beaten(Result(b)) EXCEPT !.HP = Health[Beaten(Result(b)).id], !.ended = 0]
    <3>1. Entrant[a] = Entry(Entrant, a)
      BY <1>2, EntrantIs
    <3> QED BY <1>2, <2>1, <3>1 DEF Entry, Result
  <2> DEFINE x == [P[p] EXCEPT !.ended = 1]
  <2>3. x \in Status /\ x.battle = b /\ x.id = P[p].id
    BY <1>1, <1>3 DEF Status
  <2>4. x = Beaten(Result(b))
    BY <1>3, <2>3 DEF HonestPlayer, AsLost
  <2>5. [x EXCEPT !.HP = Health[x.id], !.ended = 0] = s
    <3>1. P[p].ended \in {0, 1} /\ DOMAIN P[p] = {"id", "HP", "battle", "ended"}
      BY <1>3 DEF Status
    <3>2. P[p].ended = 0
      BY <1>3 DEF AllWell, Plays
    <3> QED BY <1>3, <3>1, <3>2 DEF Status
  <2> HIDE DEF x, s
  <2> QED BY <2>2, <2>4, <2>5
<1>5. \A q \in Player : \A k \in DOMAIN fifo'[q] : fifo'[q][k] = Entrant[q]
  <2>1. \A q \in Player : \A k \in DOMAIN fifo[q] : fifo[q][k] = Entrant[q]
    BY DEF OnPaper, HonestPlayer
  <2> HIDE DEF s
  <2> DEFINE o == fifo[a]  n == Append(o, s)
  <2>2. /\ Len(o) \in Nat /\ DOMAIN o = 1 .. Len(o) /\ DOMAIN n = 1 .. Len(o) + 1
        /\ n[Len(o) + 1] = s /\ \A k \in 1 .. Len(o) : n[k] = o[k]
    BY <1>3
  <2>3. \A k \in DOMAIN o : o[k] = Entrant[a]
    BY <2>1
  <2>4. fifo'[a] = n /\ \A q \in Player : q # a => fifo'[q] = fifo[q]
    BY <1>3
  <2> HIDE DEF o, n
  <2>5. \A k \in DOMAIN n : n[k] = Entrant[a]
    BY <1>4, <2>2, <2>3
  <2> QED BY <2>1, <2>4, <2>5
<1>6. HonestPlayer(p)'
  <2>1. pc'[p] = "exited"
    BY <1>3 DEF Sound, TypeOK
  <2>2. Entrant' = Entrant
    BY <1>3, PaperStays
  <2> QED BY <1>5, <2>1, <2>2 DEF HonestPlayer
<1> QED BY <1>3, <1>5, <1>6, HonestKept, PlayerOnPaper

LEMMA TakeOverOnPaper ==
  ASSUME Sound, OnPaper, NEW p \in Player, TakeOver(p)
  PROVE  OnPaper'
<1> PICK s : s = Head(fifo[p])
  OBVIOUS
<1>1. /\ p \in Node /\ p \notin Battle /\ Honest(p) /\ HonestPlayer(p)
      /\ fifo[p] # <<>> /\ fifo' = [fifo EXCEPT ![p] = Tail(@)] /\ P[p] = NoStatus
      /\ pc' = [pc EXCEPT ![p] = "send"] /\ P' = [P EXCEPT ![p] = s]
      /\ UNCHANGED <<up, held, winner, file>>
  BY ChildrenAreNodes DEF TakeOver, pipes, OnPaper
<1>2. s = Entrant[p]
  BY <1>1, FifoShorter DEF HonestPlayer
<1>3. \A q \in Player : \A k \in DOMAIN fifo'[q] : fifo'[q][k] = Entrant[q]
  <2>1. \A q \in Player : \A k \in DOMAIN fifo'[q] : \E i \in DOMAIN fifo[q] : fifo'[q][k] = fifo[q][i]
    BY <1>1, FifoShorter
  <2> QED BY <2>1 DEF OnPaper, HonestPlayer
<1>4. held[p] = NoStatus
  <2>1. {held[p].id} \ {None} \subseteq Name(p)
    BY <1>1 DEF Sound, Names
  <2>2. Name(p) = {}
    BY <1>1 DEF Name, NoStatus
  <2>3. held[p] \in Status \cup {NoStatus}
    BY <1>1 DEF Sound, TypeOK
  <2> QED BY <2>1, <2>2, <2>3, StatusThere
<1>5. Due(p)' = s
  BY <1>1, <1>2, <1>4, DueKept DEF Due
<1>6. HonestPlayer(p)'
  <2>1. pc'[p] = "send" /\ P'[p] = s
    BY <1>1 DEF Sound, TypeOK
  <2> QED BY <1>1, <1>3, <1>5, <2>1, PaperStays DEF HonestPlayer
<1>7. \A q \in Player \ {p} : P'[q] = P[q]
  BY <1>1 DEF Sound, TypeOK
<1> QED BY <1>1, <1>3, <1>6, <1>7, HonestKept, PlayerOnPaper

\* Small facts about statuses and pipes.
LEMMA StatusIs ==
  ASSUME NEW x \in Status
  PROVE  /\ x # NoStatus /\ x.HP \in Int /\ x.ended \in {0, 1}
         /\ \A h \in Int : x.HP \in 1 .. h => ~ (x.HP <= 0)
BY StatusThere DEF Status, NoStatus

LEMMA HeadThere == ASSUME Sound, NEW n \in Node, up[n] # <<>> PROVE \E k \in DOMAIN up[n] : Head(up[n]) = up[n][k]
<1>1. up[n] \in Seq(Status)
  BY PipeTypes
<1> QED BY <1>1

\* A battle that moves leaves the others as honest as they are, but for its children,
\* which it tells something only while they wait for it.
LEMMA BattleOnPaper ==
  ASSUME Sound, OnPaper, NEW b \in Battle, Process(b), UNCHANGED <<fifo, file>>,
         NEW l, l = Left[b], NEW r, r = Right[b],
         \A n \in Node \ {l, r} : held'[n] = held[n],
         \A n \in {l, r} : \/ held'[n] = held[n]
                           \/ (n \in Player => pc[n] = "wait") /\ (n \in Battle => pc[n] = "feedback"),
         Honest(b)', Honest(l)', Honest(r)', HonestBattle(b)'
  PROVE  OnPaper'
<1>1. /\ \A n \in Node \ {b} : pc'[n] = pc[n]
      /\ \A c \in Battle \ {b} : winner'[c] = winner[c]
      /\ UNCHANGED P
      /\ \A n \in Node : n \notin {b, l, r} => up'[n] = up[n] /\ down'[n] = down[n]
  BY BattleMoves
<1>2. b \in Node /\ b \notin Player /\ l \in Node /\ r \in Node
  BY ChildrenAreNodes
<1>3. ASSUME NEW n \in Node PROVE Honest(n)'
  <2> SUFFICES ASSUME n \notin {b, l, r} PROVE Honest(n)'
    OBVIOUS
  <2> QED BY <1>1, HonestKept DEF OnPaper
<1>4. ASSUME NEW q \in Player PROVE HonestPlayer(q)'
  <2>1. pc'[q] = pc[q] /\ (held'[q] = held[q] \/ pc[q] = "wait")
    BY <1>1, <1>2, ChildrenAreNodes
  <2>2. \A k \in DOMAIN fifo'[q] : fifo'[q][k] = Entrant[q]
    BY DEF OnPaper, HonestPlayer
  <2> QED BY <1>1, <2>1, <2>2, PlayerKept DEF OnPaper
<1>5. ASSUME NEW c \in Battle PROVE HonestBattle(c)'
  <2> SUFFICES ASSUME c # b PROVE HonestBattle(c)'
    OBVIOUS
  <2>1. \A n \in {Left[c], Right[c]} : n \in Node /\ n \notin {l, r}
    BY OneParent, ChildrenAreNodes
  <2>2. pc[c] = "feedback" \/ held'[c] = held[c]
    BY ChildrenAreNodes
  <2> QED BY <1>1, <2>1, <2>2, ChildrenAreNodes, BattleKept DEF OnPaper
<1> QED BY <1>3, <1>4, <1>5 DEF OnPaper

LEMMA NothingUp == ASSUME NEW n, up'[n] = <<>> PROVE \A k \in DOMAIN up'[n] : FALSE
OBVIOUS

LEMMA ReadLeftOnPaper ==
  ASSUME Sound, Tokens, AllWell, OnPaper, NEW b \in Battle, ReadLeft(b)
  PROVE  OnPaper'
<1>1. PICK l, r : l = Left[b] /\ r = Right[b]
  OBVIOUS
<1>2. /\ b \in Node /\ l \in Node /\ r \in Node /\ l # r /\ b # l /\ b # r
      /\ Token(l) /\ Honest(l) /\ Honest(b) /\ Honest(r) /\ HonestBattle(b)
  BY <1>1, ChildrenAreNodes, NotItsOwnChild DEF Tokens, OnPaper
<1>3. /\ up[l] # <<>> /\ up' = [up EXCEPT ![l] = Tail(@)] /\ held' = [held EXCEPT ![l] = Head(up[l])]
      /\ pc[b] = "left" /\ pc'[b] = "right" /\ winner[b] = None /\ UNCHANGED <<winner, fifo, file>>
  BY <1>1, <1>2 DEF ReadLeft, Sound, TypeOK, Battles
<1>4. PICK x \in Status : x = Head(up[l]) /\ Fresh(x)
  BY <1>2, <1>3, FreshThere
<1>5. x = Due(l)
  BY <1>2, <1>3, <1>4, HeadThere DEF Honest
<1>6. /\ held'[l] = x /\ up'[l] = <<>>
      /\ \A n \in Node \ {l} : held'[n] = held[n] /\ up'[n] = up[n]
  <2>1. Tail(up[l]) = <<>>
    BY <1>2, <1>3, OnItsWay
  <2> QED BY <1>2, <1>3, <1>4, <2>1 DEF Sound, TypeOK
<1>7. (l \in Player => pc[l] = "wait") /\ (l \in Battle => pc[l] = "feedback")
  BY <1>1, <1>2, <1>3, Away
<1>8. Due(l)' = x /\ ~ (x.HP <= 0)
  BY <1>4, <1>6, StatusIs DEF Due, Fresh
<1>9. Honest(l)' /\ Honest(r)' /\ Honest(b)'
  <2>1. Honest(l)'
    BY <1>6, <1>8, NothingUp DEF Honest
  <2> QED BY <1>2, <1>3, <1>6, <2>1, HonestKept
<1>10. HonestBattle(b)'
  <2>1. Due(r)' = Due(r)
    BY <1>2, <1>3, <1>6, DueKept
  <2>2. Underway(b)'
    BY <1>1, <1>2, <1>3, <1>5, <1>8, <2>1, UnderwayKept DEF HonestBattle
  <2> QED BY <1>3, <2>2 DEF HonestBattle
<1> QED BY <1>1, <1>2, <1>3, <1>6, <1>7, <1>9, <1>10, BattleOnPaper DEF Process

LEMMA ReapFinishOnPaper ==
  ASSUME Sound, Tokens, AllWell, OnPaper, NEW b \in Battle, Reap(b) \/ Finish(b)
  PROVE  OnPaper'
<1>1. PICK l, r : l = Left[b] /\ r = Right[b]
  OBVIOUS
<1>2. /\ b \in Node /\ l \in Node /\ r \in Node
      /\ Honest(l) /\ Honest(b) /\ Honest(r) /\ HonestBattle(b)
      /\ pc \in [Node -> {"send", "wait", "lost", "left", "right", "reap",
                          "relay", "feedback", "exited"}]
  BY <1>1, ChildrenAreNodes DEF OnPaper, Sound, TypeOK
<1>3. UNCHANGED <<up, held, winner, fifo, file>>
  BY DEF Reap, Finish, pipes
<1>4. \/ pc'[b] = "exited"
      \/ pc[b] = "reap" /\ pc'[b] = "relay"
  BY <1>2 DEF Reap, Finish
<1>5. \A n \in Node : Honest(n)'
  BY <1>3, HonestKept DEF OnPaper
<1>6. ASSUME pc[b] = "reap" PROVE Due(winner[b])' = Due(b)'
  <2>1. PICK w : w = winner[b] /\ w \in Node
    BY <1>6, ChildrenAreNodes DEF Sound, Battles
  <2>2. held[b] = NoStatus /\ held[w] = Best(Result(b)) /\ held[w].ended = 1
    BY <1>2, <1>6, <2>1 DEF AllWell, Runs, HonestBattle
  <2>3. held[w] # NoStatus
    BY <2>2 DEF NoStatus
  <2>4. Entrant[b] = Healed(held[w], Health[held[w].id])
    <3>1. Entrant[b] = Entry(Entrant, b) /\ b \notin Real
      BY <1>2, EntrantIs, ChildrenAreNodes
    <3>2. Entry(Entrant, b) = Healed(Best(Result(b)), Health[Best(Result(b)).id])
      BY <3>1 DEF Entry, Result
    <3> QED BY <2>2, <3>1, <3>2
  <2>5. Due(w) = Due(b)
    BY <2>2, <2>3, <2>4 DEF Due
  <2> QED BY <1>2, <1>3, <2>1, <2>5, DueKept
<1>7. HonestBattle(b)'
  BY <1>2, <1>3, <1>4, <1>6, PaperStays DEF HonestBattle
<1> QED BY <1>1, <1>2, <1>3, <1>5, <1>7, BattleOnPaper DEF Process

LEMMA RelayUpOnPaper ==
  ASSUME Sound, NamesKept, Tokens, AllWell, OnPaper, NEW b \in Battle, RelayUp(b)
  PROVE  OnPaper'
<1>1. PICK l, r : l = Left[b] /\ r = Right[b]
  OBVIOUS
<1>2. /\ b \in Node /\ l \in Node /\ r \in Node /\ b # l /\ b # r
      /\ Token(b) /\ Honest(b) /\ Honest(l) /\ Honest(r) /\ HonestBattle(b)
  BY <1>1, ChildrenAreNodes, NotItsOwnChild DEF Tokens, OnPaper
<1>3. PICK w \in {l, r} : w = winner[b] /\ w # None /\ held[w].id # None
  BY <1>1, ChildrenAreNodes DEF RelayUp, Sound, Battles
<1>4. /\ pc[b] = "relay" /\ up[w] # <<>> /\ ~ Gone(Above[b])
      /\ held' = [held EXCEPT ![w] = Head(up[w])]
      /\ up' = [up EXCEPT ![w] = Tail(@), ![b] = Append(@, Head(up[w]))]
      /\ pc'[b] = "feedback" /\ UNCHANGED <<winner, fifo, file>>
  BY <1>2, <1>3 DEF RelayUp, Sound, TypeOK
<1>5. PICK x \in Status : x = Head(up[w]) /\ Fresh(x)
  BY <1>2, <1>3, <1>4, FreshThere
<1>6. x = Due(w) /\ x = Due(b)
  <2>1. Honest(w)
    BY <1>2, <1>3
  <2>2. x = Due(w)
    BY <1>2, <1>3, <1>4, <1>5, <2>1, HeadThere DEF Honest
  <2> QED BY <1>2, <1>3, <1>4, <2>2 DEF HonestBattle
<1>7. Tail(up[w]) = <<>>
  BY <1>2, <1>3, <1>4, OnItsWay DEF Tokens
<1>8. up[b] = <<>>
  <2>1. AtHome(b)
    BY <1>4 DEF AtHome
  <2> QED BY <1>2, <2>1 DEF Token, Empty
<1>9. /\ held'[w] = x /\ up'[w] = <<>> /\ up'[b] = Append(<<>>, x)
      /\ \A n \in Node \ {w} : held'[n] = held[n]
      /\ \A n \in Node \ {w, b} : up'[n] = up[n]
  <2>1. /\ w \in Node /\ w # b /\ held \in [Node -> Status \cup {NoStatus}] /\ up \in [Node -> Seq(Status)]
        /\ up' = [up EXCEPT ![w] = Tail(@), ![b] = Append(@, x)]
    BY <1>2, <1>3, <1>4, <1>5 DEF Sound, TypeOK
  <2>2. held'[w] = x /\ \A n \in Node \ {w} : held'[n] = held[n]
    BY <1>4, <1>5, <2>1
  <2> QED BY <1>2, <1>7, <1>8, <2>1, <2>2
<1>10. (w \in Player => pc[w] = "wait") /\ (w \in Battle => pc[w] = "feedback")
  BY <1>1, <1>2, <1>3, <1>4, Away
<1>11. Honest(w)'
  <2>1. ~ (x.HP <= 0)
    BY <1>5, StatusIs DEF Fresh
  <2> QED BY <1>9, <2>1, NothingUp DEF Honest
<1>12. Honest(b)'
  <2>1. held'[b] = held[b]
    BY <1>2, <1>3, <1>9
  <2>2. Due(b)' = x
    BY <1>2, <1>4, <1>6, <2>1, DueKept
  <2>3. \A k \in DOMAIN Append(<<>>, x) : Append(<<>>, x)[k] = x
    OBVIOUS
  <2> QED BY <1>2, <1>4, <1>9, <2>1, <2>2, <2>3, PaperStays DEF Honest, AsLost
<1>13. ASSUME NEW n \in {l, r}, n # w PROVE Honest(n)'
  BY <1>2, <1>4, <1>9, <1>13, HonestKept
<1>14. HonestBattle(b)'
  <2>1. held'[w].id = held[w].id
    BY <1>2, <1>3 DEF NamesKept
  <2> QED BY <1>2, <1>3, <1>4, <2>1, PaperStays DEF HonestBattle
<1> QED BY <1>1, <1>2, <1>3, <1>4, <1>9, <1>10, <1>11, <1>12, <1>13, <1>14, BattleOnPaper DEF Process

LEMMA RelayDownOnPaper ==
  ASSUME Sound, NamesKept, Tokens, AllWell, OnPaper, NEW b \in Battle, RelayDown(b)
  PROVE  OnPaper'
<1>1. PICK l, r : l = Left[b] /\ r = Right[b]
  OBVIOUS
<1>2. /\ b \in Node /\ l \in Node /\ r \in Node /\ b # l /\ b # r
      /\ Honest(b) /\ Honest(l) /\ Honest(r) /\ HonestBattle(b)
  BY <1>1, ChildrenAreNodes, NotItsOwnChild DEF OnPaper
<1>3. PICK w \in {l, r} : w = winner[b] /\ w # None /\ held[w].id # None
  BY <1>1, ChildrenAreNodes DEF RelayDown, Sound, Battles
<1>4. /\ pc[b] = "feedback" /\ down[b] # <<>> /\ held' = [held EXCEPT ![w] = Head(down[b])]
      /\ pc'[b] = "relay" /\ UNCHANGED <<up, winner, fifo, file>>
  BY <1>2, <1>3 DEF RelayDown, Sound, TypeOK
<1>5. PICK x \in Status : x = Head(down[b]) /\ x = held[b]
  BY <1>2, <1>4, FreshThere
<1>6. AtParent(w)
  BY <1>3, <1>4 DEF AtParent
<1>7. up[w] = <<>>
  BY <1>2, <1>3, <1>6 DEF Tokens, Token, Empty
<1>8. held'[w] = x /\ \A n \in Node \ {w} : held'[n] = held[n]
  BY <1>2, <1>3, <1>4, <1>5 DEF Sound, TypeOK
<1>9. (w \in Player => pc[w] = "wait") /\ (w \in Battle => pc[w] = "feedback")
  BY <1>1, <1>2, <1>3, <1>4, <1>6, Away
<1>10. Honest(w)'
  <2>1. x.HP <= 0 => AsLost(x)
    BY <1>2, <1>5, StatusIs DEF Honest
  <2> QED BY <1>4, <1>7, <1>8, <2>1, NothingUp, PaperStays DEF Honest, AsLost
<1>11. ASSUME NEW n \in {l, r, b}, n # w PROVE Honest(n)'
  BY <1>2, <1>4, <1>8, <1>11, HonestKept
<1>12. HonestBattle(b)'
  <2>1. held'[w].id = held[w].id
    BY <1>2, <1>3 DEF NamesKept
  <2>2. held'[w] = held'[b] /\ held'[b] # NoStatus
    BY <1>2, <1>3, <1>5, <1>8, StatusIs
  <2>3. Due(w)' = Due(b)'
    BY <2>2 DEF Due
  <2> QED BY <1>2, <1>3, <1>4, <2>1, <2>3, PaperStays DEF HonestBattle
<1> QED BY <1>1, <1>2, <1>3, <1>4, <1>8, <1>9, <1>10, <1>11, <1>12, BattleOnPaper DEF Process

LEMMA ReadRightOnPaper ==
  ASSUME Sound, Tokens, AllWell, OnPaper, NEW b \in Battle, ReadRight(b)
  PROVE  OnPaper'
<1>1. PICK l, r : l = Left[b] /\ r = Right[b]
  OBVIOUS
<1>2. /\ b \in Node /\ l \in Node /\ r \in Node /\ l # r /\ b # l /\ b # r
      /\ Honest(b) /\ Honest(l) /\ Honest(r) /\ HonestBattle(b)
  BY <1>1, ChildrenAreNodes, NotItsOwnChild DEF OnPaper
<1>3. PICK s \in Status, t \in Status : Fought(b, l, r, s, t)
  BY <1>1, RoundFought
<1>4. /\ pc[b] = "right" /\ up[r] # <<>> /\ up' = [up EXCEPT ![r] = Tail(@)]
      /\ held' = [held EXCEPT ![l] = s, ![r] = t]
      /\ s.battle = b /\ t.battle = b /\ winner[b] = None /\ UNCHANGED <<fifo, file>>
      /\ file \in Files
  BY <1>3 DEF Fought, Sound, Battles, TypeOK
<1>5. AtParent(l)
  BY <1>1, <1>4 DEF AtParent
<1>6. \A n \in {l, r} : (n \in Player => pc[n] = "wait") /\ (n \in Battle => pc[n] = "feedback")
  BY <1>1, <1>2, <1>4, <1>5, Away
<1>7. PICK x \in Status : x = Head(up[r]) /\ Fresh(x)
  BY <1>2, <1>4, FreshThere
<1>8. PICK y \in Status : y = held[l] /\ Fresh(y)
  BY <1>1, <1>2, <1>5, RoundFought DEF AllWell, Carries
<1>9. /\ s = Fight(b, y, x)[1] /\ t = Fight(b, y, x)[2]
      /\ x.ended = 0 /\ y.ended = 0 /\ x.HP > 0 /\ y.HP > 0
  <2>1. Health[x.id] \in Int /\ Health[y.id] \in Int
    BY StrengthAssumption DEF Status, Sound, TypeOK, Health
  <2> QED BY <1>3, <1>7, <1>8, <2>1, StatusIs DEF Fought, Fresh
<1>10. /\ s.HP > 0 \/ t.HP > 0
       /\ s.HP > 0 /\ t.HP > 0 => s.ended = 0 /\ t.ended = 0
       /\ s.HP <= 0 \/ t.HP <= 0 => s.ended = 1 /\ t.ended = 1
  BY <1>4, <1>9, FightHurts
<1>11. Due(l) = y /\ Due(r) = x
  <2>1. Due(r) = x
    BY <1>2, <1>4, <1>7, HeadThere DEF Honest
  <2> QED BY <1>8, <1>9, <2>1, StatusIs DEF Due
<1> DEFINE el == Entrant[l]  er == Entrant[r]
<1>12. el \in Status /\ er \in Status /\ \E k \in Nat : After(b, el, er, y, x, k)
  <2>1. CASE Due(l) = el /\ Due(r) = er
    <3>1. After(b, y, x, y, x, 0)
      <4>1. Rounds(b, y, x)[0] = <<y, x>>
        BY <1>4, RoundsGo
      <4> QED BY <1>9, <4>1, StatusIs DEF After
    <3> QED BY <1>11, <2>1, <3>1
  <2>2. CASE /\ {el, er, Due(l), Due(r)} \subseteq Status
             /\ \E k \in Nat : After(b, el, er, Due(l), Due(r), k)
    BY <1>11, <2>2
  <2> QED BY <1>1, <1>2, <1>4, <2>1, <2>2 DEF HonestBattle, Underway
<1>13. PICK k \in Nat : After(b, el, er, y, x, k)
  BY <1>12
<1>14. /\ s.HP > 0 /\ t.HP > 0 => After(b, el, er, s, t, k + 1)
       /\ s.HP <= 0 \/ t.HP <= 0 => Result(b) = <<s, t>>
  <2>1. Result(b) = Duel(b, el, er)
    BY <1>1 DEF Result
  <2> HIDE DEF el, er
  <2> QED BY <1>4, <1>9, <1>12, <1>13, <2>1, RoundOn
<1>15. /\ held'[l] = s /\ held'[r] = t /\ up'[l] = <<>> /\ up'[r] = <<>>
       /\ up'[b] = up[b] /\ \A n \in Node \ {l, r} : held'[n] = held[n]
  <2>1. up[l] = <<>>
    BY <1>2, <1>5 DEF Tokens, Token, Empty
  <2>2. Tail(up[r]) = <<>>
    BY <1>2, <1>4, OnItsWay DEF Tokens
  <2> QED BY <1>2, <1>4, <2>1, <2>2 DEF Sound, TypeOK
<1>16. \/ s.HP > 0 /\ t.HP > 0 /\ pc'[b] = "left" /\ winner'[b] = None
       \/ t.HP <= 0 /\ pc'[b] = "reap" /\ winner'[b] = l
       \/ t.HP > 0 /\ s.HP <= 0 /\ pc'[b] = "reap" /\ winner'[b] = r
  BY <1>2, <1>3, <1>4 DEF Fought, Sound, TypeOK
<1>17. (s.HP <= 0 => AsLost(s)) /\ (t.HP <= 0 => AsLost(t))
  BY <1>4, <1>10, <1>14, StatusIs DEF AsLost, Beaten
<1>18. Honest(l)' /\ Honest(r)' /\ Honest(b)'
  <2>1. Honest(l)' /\ Honest(r)'
    BY <1>4, <1>15, <1>17, NothingUp, PaperStays DEF Honest, AsLost
  <2> QED BY <1>2, <1>4, <1>15, <2>1, HonestKept
<1>19. HonestBattle(b)'
  <2>1. CASE s.HP > 0 /\ t.HP > 0 /\ pc'[b] = "left" /\ winner'[b] = None
    <3>1. Due(l)' = s /\ Due(r)' = t
      BY <1>10, <1>15, <2>1, StatusIs DEF Due
    <3>2. After(b, el, er, s, t, k + 1)'
      BY <1>4, <1>14, <2>1, PaperStays, RoundsStay DEF After
    <3>3. el' = el /\ er' = er /\ k + 1 \in Nat
      BY <1>4, PaperStays
    <3>4. Underway(b)'
      BY <1>1, <1>12, <3>1, <3>2, <3>3 DEF Underway
    <3> QED BY <2>1, <3>4 DEF HonestBattle
  <2>2. CASE pc'[b] = "reap" /\ (\/ t.HP <= 0 /\ winner'[b] = l
                                 \/ t.HP > 0 /\ s.HP <= 0 /\ winner'[b] = r)
    <3>1. held'[winner'[b]] = Best(Result(b)) /\ held'[winner'[b]].ended = 1
      BY <1>10, <1>14, <1>15, <2>2, StatusIs DEF Best
    <3> QED BY <1>4, <2>2, <3>1, PaperStays DEF HonestBattle, Best
  <2> QED BY <1>16, <2>1, <2>2
<1> QED BY <1>1, <1>2, <1>4, <1>6, <1>15, <1>18, <1>19, BattleOnPaper DEF Process

LEMMA InitPaper == Init => Paper
<1> SUFFICES ASSUME Init, failed = {} PROVE OnPaper
  BY DEF Paper
<1>1. \A late : Stillborn({}, late) = {}
  BY DEF Stillborn
<1>2. \A n \in Node : pc[n] = IF n \in Battle THEN "left" ELSE IF n \in Real THEN "send" ELSE "wait"
  BY <1>1 DEF Init
<1>3. \A n \in Node : Due(n) = Entrant[n] /\ held[n] = NoStatus /\ up[n] = <<>>
  BY DEF Init, Due
<1>4. \A n \in Node : Honest(n)
  <2>1. DOMAIN <<>> = {}
    OBVIOUS
  <2> QED BY <1>3, <2>1 DEF Honest
<1>5. ASSUME NEW p \in Player PROVE HonestPlayer(p)
  <2>1. DOMAIN fifo[p] = {}
    <3>1. fifo[p] = <<>>
      BY DEF Init
    <3> QED BY <3>1
  <2>2. ASSUME p \in Real PROVE P[p] = Due(p)
    <3>1. P[p] = [NoStatus EXCEPT !.id = p, !.HP = Health[p]]
      BY <2>2 DEF Init
    <3>2. Entrant[p] = Entry(Entrant, p) /\ p \in Node
      BY EntrantIs, ChildrenAreNodes
    <3>3. Entry(Entrant, p) = [NoStatus EXCEPT !.id = p, !.HP = Health[p]]
      BY <2>2, ChildrenAreNodes DEF Entry
    <3> QED BY <1>3, <3>1, <3>2, <3>3
  <2> QED BY <1>2, <2>1, <2>2, ChildrenAreNodes DEF HonestPlayer
<1>6. ASSUME NEW b \in Battle PROVE HonestBattle(b)
  BY <1>2, <1>3, ChildrenAreNodes DEF HonestBattle, Underway, Init
<1> QED BY <1>4, <1>5, <1>6 DEF OnPaper

LEMMA NextPaper == Sound /\ Tokens /\ Whole /\ Paper /\ [Next]_vars => Paper'
<1> SUFFICES ASSUME Sound, Tokens, Whole, Paper, [Next]_vars, failed' = {} PROVE OnPaper'
  BY DEF Paper
<1>1. NamesKept
  BY NextSound
<1>2. CASE UNCHANGED vars
  <2>1. OnPaper /\ UNCHANGED <<pc, up, held, winner, P, fifo, file>>
    BY <1>2 DEF vars, pipes, Paper
  <2>2. \A p \in Player : HonestPlayer(p)'
    BY <2>1, PlayerKept DEF OnPaper, HonestPlayer
  <2> QED BY <2>1, <2>2, HonestKept, BattleKept DEF OnPaper
<1>3. CASE Next
  <2>1. \A p \in Player : ~ HandOverFails(p) /\ ~ TakeOverFails(p)
    BY DEF HandOverFails, TakeOverFails
  <2>2. PICK n \in Node : Process(n)
    BY <1>3, <2>1 DEF Next
  <2>3. failed = {}
    BY <2>2 DEF Process, Send, Receive, HandOver, TakeOver, ReadLeft, ReadRight, Reap, RelayUp, RelayDown,
       Finish, ReadLeftEnd, ReadRightEnd, FeedbackEnd, Orphaned
  <2>4. AllWell /\ OnPaper
    BY <2>3 DEF Whole, Paper
  <2>5. \/ n \in Player /\ (Send(n) \/ Receive(n) \/ HandOver(n) \/ TakeOver(n))
        \/ n \in Battle /\ \/ ReadLeft(n) \/ ReadRight(n) \/ Reap(n)
                           \/ RelayUp(n) \/ RelayDown(n) \/ Finish(n)
    BY <2>2, <2>4, NoEnds DEF Process
  <2> QED BY <1>1, <2>4, <2>5, SendOnPaper, ReceiveOnPaper, HandOverOnPaper, TakeOverOnPaper,
          ReadLeftOnPaper, ReadRightOnPaper, ReapFinishOnPaper, RelayUpOnPaper, RelayDownOnPaper
<1> QED BY <1>2, <1>3 DEF Next

LEMMA AlwaysPaper == Spec => []Paper
BY InitPaper, NextPaper, AlwaysSound, AlwaysTokens, AlwaysWhole, PTL DEF Spec

\* Whatever the order in which players send, battles relay and agents take over, every
\* battle is won by the player who wins it on paper, and a champion that is announced is
\* the one on paper, even where processes may fail.
THEOREM OutcomeDoesNotDependOnTiming == Spec => []OutcomeFixed
<1>1. Paper /\ NoChampionAfterFailure /\ Ways => OutcomeFixed
  <2> SUFFICES ASSUME Paper, NoChampionAfterFailure, Ways PROVE OutcomeFixed
    OBVIOUS
  <2>1. failed = {} => \A b \in Battle : winner[b] # None => held[winner[b]].id = Best(Result(b)).id
    BY DEF Paper, OnPaper, HonestBattle
  <2>2. champion # None => failed = {} /\ winner[Root] # None /\ champion = held[winner[Root]].id
    BY DEF NoChampionAfterFailure, Ways, Record, Crowned
  <2> QED BY <2>1, <2>2, TreeAssumption DEF OutcomeFixed
<1> QED BY <1>1, AlwaysPaper, FailureIsNeverCrowned, AlwaysWays, PTL
=============================================================================
