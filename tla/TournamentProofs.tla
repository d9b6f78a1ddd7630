-------------------------- MODULE TournamentProofs --------------------------
(***************************************************************************)
(* Proofs about Tournament for every tree of battles, whatever the         *)
(* strengths of the players and whoever fails.                             *)
(***************************************************************************)
EXTENDS Tournament, DataLemmas

-----------------------------------------------------------------------------
(* Statuses and the pipes they go through. *)

LEMMA TreeFinite == IsFiniteSet(Node)
<1> DEFINE L == {Left[b] : b \in Battle}
           R == {Right[b] : b \in Battle}
           l == [b \in Battle |-> Left[b]]
           r == [b \in Battle |-> Right[b]]
<1>1. IsFiniteSet(Battle)
  BY TreeAssumption
<1>2. l \in Surjection(Battle, L) /\ r \in Surjection(Battle, R)
  BY DEF Surjection
<1> HIDE DEF L, R, l, r
<1>3. IsFiniteSet(L) /\ IsFiniteSet(R)
  BY <1>1, <1>2, FS_Surjection
<1>4. IsFiniteSet(L \cup R)
  BY <1>3, FS_Union
<1>5. IsFiniteSet((L \cup R) \cup {Root})
  BY <1>4, FS_AddElement
<1> QED BY <1>5 DEF Node, L, R

LEMMA ChildrenAreNodes ==
  /\ Battle \subseteq Node /\ Player \subseteq Node /\ Node = Battle \cup Player
  /\ Battle \cap Player = {} /\ Real \subseteq Player /\ Root \in Battle
  /\ None \notin Node /\ None \notin Real
  /\ \A b \in Battle : Left[b] \in Node /\ Right[b] \in Node /\ Left[b] # Right[b]
BY TreeAssumption DEF Node, Player

\* A status that is there is that of a real player.
LEMMA StatusThere ==
  ASSUME NEW s \in Status \cup {NoStatus}
  PROVE  /\ s.id # None <=> s \in Status
         /\ s.id = None <=> s = NoStatus
         /\ s \in Status => s.id \in Real /\ s.HP \in Int
BY ChildrenAreNodes DEF Status, NoStatus

\* The players that the statuses in a pipe are about.
Ids(q) == {q[k].id : k \in DOMAIN q}

LEMMA TakenOut ==
  ASSUME NEW q \in Seq(Status), q # <<>>
  PROVE  /\ Head(q) \in Status /\ Head(q).id \in Ids(q)
         /\ Tail(q) \in Seq(Status) /\ Ids(Tail(q)) \subseteq Ids(q)
         /\ Len(Tail(q)) = Len(q) - 1
<1>1. Len(q) \in Nat /\ Len(q) > 0 /\ DOMAIN q = 1 .. Len(q) /\ Head(q) = q[1] /\ 1 \in DOMAIN q
  OBVIOUS
<1>2. Tail(q) \in Seq(Status) /\ DOMAIN Tail(q) = 1 .. Len(q) - 1 /\ Len(Tail(q)) = Len(q) - 1
  OBVIOUS
<1>3. ASSUME NEW k \in DOMAIN Tail(q) PROVE Tail(q)[k].id \in Ids(q)
  <2>1. k + 1 \in DOMAIN q /\ Tail(q)[k] = q[k + 1]
    BY <1>1, <1>2
  <2> QED BY <2>1 DEF Ids
<1> QED BY <1>1, <1>2, <1>3 DEF Ids

LEMMA PutIn ==
  ASSUME NEW q \in Seq(Status), NEW s \in Status
  PROVE  /\ Append(q, s) \in Seq(Status) /\ Ids(Append(q, s)) = Ids(q) \cup {s.id}
         /\ Len(Append(q, s)) = Len(q) + 1
<1> DEFINE r == Append(q, s)
<1>1. /\ r \in Seq(Status) /\ Len(q) \in Nat /\ DOMAIN q = 1 .. Len(q) /\ DOMAIN r = 1 .. Len(q) + 1
      /\ Len(r) = Len(q) + 1
      /\ r[Len(q) + 1] = s /\ \A k \in 1 .. Len(q) : r[k] = q[k]
  OBVIOUS
<1> HIDE DEF r
<1>2. Ids(r) = Ids(q) \cup {s.id}
  BY <1>1 DEF Ids
<1> QED BY <1>1, <1>2 DEF r

\* Statuses with the HP their owners began with.
Restored(full, q) == \A k \in DOMAIN q : q[k].HP = full[q[k].id]

LEMMA RestoredKept ==
  ASSUME NEW full, NEW q \in Seq(Status), Restored(full, q)
  PROVE  /\ q # <<>> => Head(q).HP = full[Head(q).id] /\ Restored(full, Tail(q))
         /\ \A s \in Status : s.HP = full[s.id] => Restored(full, Append(q, s))
<1>1. ASSUME q # <<>> PROVE Head(q).HP = full[Head(q).id] /\ Restored(full, Tail(q))
  <2>1. /\ Len(q) \in Nat /\ DOMAIN q = 1 .. Len(q) /\ Head(q) = q[1] /\ 1 \in DOMAIN q
        /\ DOMAIN Tail(q) = 1 .. Len(q) - 1
    BY <1>1
  <2>2. ASSUME NEW k \in DOMAIN Tail(q) PROVE k + 1 \in DOMAIN q /\ Tail(q)[k] = q[k + 1]
    BY <2>1, <1>1
  <2> QED BY <2>1, <2>2 DEF Restored
<1>2. ASSUME NEW s \in Status, s.HP = full[s.id] PROVE Restored(full, Append(q, s))
  <2> DEFINE r == Append(q, s)
  <2>1. /\ Len(q) \in Nat /\ DOMAIN q = 1 .. Len(q) /\ DOMAIN r = 1 .. Len(q) + 1
        /\ r[Len(q) + 1] = s /\ \A k \in 1 .. Len(q) : r[k] = q[k]
    OBVIOUS
  <2> HIDE DEF r
  <2>2. Restored(full, r)
    BY <1>2, <2>1 DEF Restored
  <2> QED BY <2>2 DEF r
<1> QED BY <1>1, <1>2

LEMMA NothingIn ==
  <<>> \in Seq(Status) /\ Ids(<<>>) = {} /\ \A full : Restored(full, <<>>)
<1>1. DOMAIN <<>> = {} /\ <<>> \in Seq(Status)
  OBVIOUS
<1> QED BY <1>1 DEF Ids, Restored

\* A round leaves each status with its owner.
LEMMA FightKeepsPlaces ==
  ASSUME file \in Files, NEW b \in Battle, NEW l \in Status, NEW r \in Status
  PROVE  LET out == Fight(b, l, r)
         IN  /\ out[1] \in Status /\ out[1].id = l.id /\ out[1].battle = b
             /\ out[2] \in Status /\ out[2].id = r.id /\ out[2].battle = b
<1>1. \A c \in Battle, s \in Status : Power(c, s) \in Int
  BY StrengthAssumption DEF Power, Attack, Status
<1>2. ASSUME NEW s1 \in Status, NEW s2 \in Status
      PROVE  /\ Round(b, s1, s2)[1] \in Status /\ Round(b, s1, s2)[1].id = s1.id
             /\ Round(b, s1, s2)[2] \in Status /\ Round(b, s1, s2)[2].id = s2.id
  <2>1. ASSUME NEW s \in Status, NEW t \in Status
        PROVE  Strike(b, s, t) \in Status /\ Strike(b, s, t).id = t.id
    BY <1>1 DEF Strike, Status
  <2> DEFINE hit == Strike(b, s1, s2)
             back == IF hit.HP > 0 THEN Strike(b, s2, s1) ELSE s1
  <2>2. Round(b, s1, s2) = <<back, hit>>
    BY DEF Round
  <2>3. hit \in Status /\ hit.id = s2.id
    BY <2>1
  <2> HIDE DEF hit
  <2>4. back \in Status /\ back.id = s1.id
    BY <2>1
  <2> HIDE DEF back
  <2> QED BY <2>2, <2>3, <2>4
<1> DEFINE o == Round(b, r, l)
           out == IF RightFirst(l, r) THEN <<o[2], o[1]>> ELSE Round(b, l, r)
           over == out[1].HP <= 0 \/ out[2].HP <= 0
           Label(s) == [s EXCEPT !.battle = b, !.ended = IF over THEN 1 ELSE @]
<1>3. /\ out[1] \in Status /\ out[1].id = l.id
      /\ out[2] \in Status /\ out[2].id = r.id
  BY <1>2
<1>4. Fight(b, l, r) = <<Label(out[1]), Label(out[2])>>
  BY DEF Fight
<1> HIDE DEF out
<1>5. ASSUME NEW s \in Status PROVE Label(s) \in Status /\ Label(s).id = s.id /\ Label(s).battle = b
  BY DEF Status
<1> HIDE DEF Label
<1> QED BY <1>3, <1>4, <1>5

-----------------------------------------------------------------------------
(* What every state keeps to. *)

Players ==
  \A p \in Player :
    /\ pc[p] \in {"send", "wait", "lost", "exited"}
    /\ P[p] = NoStatus => pc[p] \in {"wait", "exited"}
    /\ pc[p] = "lost" => P[p].battle \in ZoneA
    /\ P[p] # NoStatus => hp[p] = Health[P[p].id]
    /\ Restored(Health, fifo[p])

Battles ==
  \A b \in Battle :
    /\ pc[b] \in {"left", "right", "reap", "relay", "feedback", "exited"}
    /\ winner[b] # None => winner[b] \in {Left[b], Right[b]} /\ held[winner[b]].id # None
    /\ pc[b] \in {"left", "right"} => winner[b] = None
    /\ pc[b] \in {"reap", "relay", "feedback"} => winner[b] # None
    /\ pc[b] = "right" => held[Left[b]].id # None

\* Whom the process n speaks for, once it does.
Name(n) == IF n \in Battle THEN {held[w].id : w \in {winner[n]} \ {None}}
                           ELSE {P[n].id} \ {None}

\* Nothing between a process and its parent is about anybody else.
Names ==
  \A n \in Node : /\ Ids(up[n]) \subseteq Name(n) /\ Ids(down[n]) \subseteq Name(n)
                  /\ {held[n].id} \ {None} \subseteq Name(n)

Sound == TypeOK /\ Players /\ Battles /\ Names

\* Whoever has got a name keeps it.
NamesKept ==
  /\ \A n \in Node : held[n].id # None => held'[n].id = held[n].id
  /\ \A b \in Battle : winner[b] # None => winner'[b] = winner[b]
  /\ \A p \in Player : P[p].id # None => P'[p].id = P[p].id

LEMMA NameStays ==
  ASSUME Sound, NamesKept, NEW n \in Node
  PROVE  Name(n) \subseteq Name(n)'
<1>1. CASE n \in Battle
  <2>1. CASE winner[n] = None
    BY <1>1, <2>1 DEF Name
  <2>2. CASE winner[n] # None
    <3>1. winner'[n] = winner[n] /\ held[winner[n]].id # None /\ winner[n] \in Node
      BY <1>1, <2>2, ChildrenAreNodes DEF NamesKept, Sound, Battles
    <3>2. held'[winner[n]].id = held[winner[n]].id
      BY <3>1 DEF NamesKept
    <3> QED BY <1>1, <2>2, <3>1, <3>2 DEF Name
  <2> QED BY <2>1, <2>2
<1>2. CASE n \notin Battle
  BY <1>2, ChildrenAreNodes DEF Name, NamesKept
<1> QED BY <1>1, <1>2

\* What a process is called is one name at most.
LEMMA NameUnique ==
  ASSUME NEW n \in Node, NEW i \in Name(n), NEW j \in Name(n)
  PROVE  i = j
BY DEF Name

LEMMA NamesStep ==
  ASSUME Sound, NamesKept,
         \A n \in Node : /\ Ids(up'[n]) \subseteq Ids(up[n]) \cup Name(n)'
                         /\ Ids(down'[n]) \subseteq Ids(down[n]) \cup Name(n)'
                         /\ {held'[n].id} \ {None} \subseteq {held[n].id} \cup Name(n)'
  PROVE  Names'
<1> SUFFICES ASSUME NEW n \in Node
             PROVE  /\ Ids(up'[n]) \subseteq Name(n)' /\ Ids(down'[n]) \subseteq Name(n)'
                    /\ {held'[n].id} \ {None} \subseteq Name(n)'
  BY DEF Names
<1>1. Name(n) \subseteq Name(n)'
  BY NameStays
<1>2. /\ Ids(up[n]) \subseteq Name(n) /\ Ids(down[n]) \subseteq Name(n)
      /\ {held[n].id} \ {None} \subseteq Name(n)
  BY DEF Sound, Names
<1> QED BY <1>1, <1>2

\* A process only goes from one place to another.
LEMMA MovedSound ==
  ASSUME Sound, NEW n \in Node, NEW v, pc' = [pc EXCEPT ![n] = v],
         n \in Player => v = "exited" \/ (pc[n] = "send" /\ v = "wait"),
         n \in Battle => v = "exited" \/ (pc[n] = "reap" /\ v = "relay"),
         UNCHANGED <<down, held, winner, P, hp, champion, defeats, file>>,
         fifo' \in [Player -> Seq(Status)], \A p \in Player : Restored(Health, fifo'[p]),
         UNCHANGED failed \/ (failed' = failed \cup {n} /\ Cardinality(failed) < MaxFailures),
         up' \in [Node -> Seq(Status)],
         \A m \in Node : Ids(up'[m]) \subseteq Ids(up[m]) \cup Name(m)
  PROVE  Sound' /\ NamesKept
<1>1. failed' \subseteq Node /\ Cardinality(failed') <= MaxFailures
  <2>1. CASE UNCHANGED failed
    BY <2>1 DEF Sound, TypeOK
  <2>2. CASE failed' = failed \cup {n} /\ Cardinality(failed) < MaxFailures
    <3>1. failed \subseteq Node /\ IsFiniteSet(failed)
      BY TreeFinite, FS_Subset DEF Sound, TypeOK
    <3> DEFINE c == Cardinality(failed)
               d == Cardinality(failed \cup {n})
    <3>2. c \in Nat /\ (d = c \/ d = c + 1)
      BY <3>1, FS_CardinalityType, FS_AddElement
    <3>3. failed' = failed \cup {n} /\ c < MaxFailures /\ Cardinality(failed') = d
      BY <2>2
    <3> HIDE DEF c, d
    <3>4. Cardinality(failed') <= MaxFailures
      BY <3>2, <3>3, TreeAssumption
    <3> QED BY <3>1, <3>3, <3>4
  <2> QED BY <2>1, <2>2
<1>2. TypeOK'
  BY <1>1, ChildrenAreNodes DEF Sound, TypeOK
<1>3. Players'
  BY ChildrenAreNodes DEF Sound, TypeOK, Players, Health
<1>4. Battles'
  BY ChildrenAreNodes DEF Sound, TypeOK, Battles
<1>5. NamesKept
  BY DEF NamesKept
<1>6. Names'
  <2>1. \A m \in Node : Name(m)' = Name(m)
    BY DEF Name
  <2> QED BY <1>5, <2>1, NamesStep
<1> QED BY <1>2, <1>3, <1>4, <1>5, <1>6 DEF Sound

LEMMA SendSound == ASSUME Sound, NEW p \in Player, Send(p) PROVE Sound' /\ NamesKept
<1>1. P[p] \in Status
  <2>1. P[p] \in Status \cup {NoStatus} /\ pc[p] = "send"
    BY DEF Sound, TypeOK, Send
  <2>2. P[p] = NoStatus => pc[p] \in {"wait", "exited"}
    BY DEF Sound, Players
  <2> QED BY <2>1, <2>2
<1>2. up \in [Node -> Seq(Status)] /\ p \in Node
  BY ChildrenAreNodes DEF Sound, TypeOK
<1>3. Append(up[p], P[p]) \in Seq(Status) /\ Ids(Append(up[p], P[p])) = Ids(up[p]) \cup {P[p].id}
  BY <1>1, <1>2, PutIn
<1>4. P[p].id \in Name(p)
  BY <1>1, ChildrenAreNodes DEF Name, Status
<1>5. up' \in [Node -> Seq(Status)] /\ \A m \in Node : Ids(up'[m]) \subseteq Ids(up[m]) \cup Name(m)
  BY <1>2, <1>3, <1>4 DEF Send
<1> QED BY <1>2, <1>5, MovedSound, ChildrenAreNodes DEF Send, Sound, TypeOK, Players

LEMMA HandOverSound == ASSUME Sound, NEW p \in Player, HandOver(p) PROVE Sound' /\ NamesKept
<1> DEFINE a == Agent[P[p].battle]
           s == [P[p] EXCEPT !.HP = hp[p]]
<1>1. P[p] \in Status /\ hp[p] = Health[P[p].id] /\ a \in Player
  <2>1. P[p] \in Status \cup {NoStatus} /\ pc[p] = "lost"
    BY DEF Sound, TypeOK, HandOver
  <2>2. /\ P[p] = NoStatus => pc[p] \in {"wait", "exited"}
        /\ P[p] # NoStatus => hp[p] = Health[P[p].id]
        /\ P[p].battle \in ZoneA
    BY <2>1 DEF Sound, Players
  <2> QED BY <2>1, <2>2, TreeAssumption DEF ZoneA
<1>2. s \in Status /\ s.HP = Health[s.id]
  <2>1. hp[p] \in Int
    BY DEF Sound, TypeOK
  <2> QED BY <1>1, <2>1 DEF Status
<1>3. fifo \in [Player -> Seq(Status)] /\ \A q \in Player : Restored(Health, fifo[q])
  BY DEF Sound, TypeOK, Players
<1>4. fifo' = [fifo EXCEPT ![a] = Append(@, s)] /\ pc' = [pc EXCEPT ![p] = "exited"]
  BY DEF HandOver
<1> HIDE DEF a, s
<1>5. Append(fifo[a], s) \in Seq(Status) /\ Restored(Health, Append(fifo[a], s))
  BY <1>1, <1>2, <1>3, PutIn, RestoredKept
<1>6. fifo' \in [Player -> Seq(Status)] /\ \A q \in Player : Restored(Health, fifo'[q])
  BY <1>1, <1>3, <1>4, <1>5
<1>7. UNCHANGED <<up, down, held, winner, P, hp, champion, defeats, file, failed>>
  BY DEF HandOver, pipes
<1>8. up' \in [Node -> Seq(Status)]
  BY <1>7 DEF Sound, TypeOK
<1> QED BY <1>4, <1>6, <1>7, <1>8, MovedSound, ChildrenAreNodes

LEMMA HandOverFailsSound == ASSUME Sound, NEW p \in Player, HandOverFails(p) PROVE Sound' /\ NamesKept
BY MovedSound, ChildrenAreNodes DEF HandOverFails, Sound, TypeOK, Players, pipes

\* What an agent finds in its FIFO.
LEMMA TakenOver ==
  ASSUME Sound, NEW p \in Player, fifo[p] # <<>>, fifo' = [fifo EXCEPT ![p] = Tail(@)]
  PROVE  /\ Head(fifo[p]) \in Status /\ Head(fifo[p]).HP = Health[Head(fifo[p]).id]
         /\ fifo' \in [Player -> Seq(Status)] /\ \A q \in Player : Restored(Health, fifo'[q])
<1>1. fifo \in [Player -> Seq(Status)] /\ \A q \in Player : Restored(Health, fifo[q])
  BY DEF Sound, TypeOK, Players
<1>2. Head(fifo[p]) \in Status /\ Tail(fifo[p]) \in Seq(Status)
  BY <1>1, TakenOut
<1>3. Head(fifo[p]).HP = Health[Head(fifo[p]).id] /\ Restored(Health, Tail(fifo[p]))
  BY <1>1, RestoredKept
<1> QED BY <1>1, <1>2, <1>3

LEMMA TakeOverFailsSound == ASSUME Sound, NEW p \in Player, TakeOverFails(p) PROVE Sound' /\ NamesKept
<1>1. fifo' \in [Player -> Seq(Status)] /\ \A q \in Player : Restored(Health, fifo'[q])
  BY TakenOver DEF TakeOverFails
<1> QED BY <1>1, MovedSound, ChildrenAreNodes DEF TakeOverFails, Sound, TypeOK, pipes

LEMMA TakeOverSound == ASSUME Sound, NEW p \in Player, TakeOver(p) PROVE Sound' /\ NamesKept
<1> DEFINE s == Head(fifo[p])
<1>1. /\ s \in Status /\ s.HP = Health[s.id]
      /\ fifo' \in [Player -> Seq(Status)] /\ \A q \in Player : Restored(Health, fifo'[q])
  BY TakenOver DEF TakeOver
<1>2. /\ P[p] = NoStatus /\ P' = [P EXCEPT ![p] = s] /\ hp' = [hp EXCEPT ![p] = s.HP]
      /\ pc' = [pc EXCEPT ![p] = "send"]
      /\ UNCHANGED <<up, down, held, winner, champion, defeats, file, failed>>
  BY DEF TakeOver, pipes
<1>3. s.HP \in Nat /\ s.id \in Real /\ s # NoStatus
  BY <1>1, StatusThere, StrengthAssumption DEF Sound, TypeOK, Health
<1> HIDE DEF s
<1>4. TypeOK'
  BY <1>1, <1>2, <1>3, ChildrenAreNodes DEF Sound, TypeOK
<1>5. Players'
  BY <1>1, <1>2, <1>3, ChildrenAreNodes DEF Sound, TypeOK, Players, Health
<1>6. Battles'
  BY <1>2, ChildrenAreNodes DEF Sound, TypeOK, Battles
<1>7. NamesKept
  BY <1>2 DEF NamesKept, Sound, TypeOK, NoStatus
<1>8. Names'
  BY <1>2, <1>7, NamesStep
<1> QED BY <1>4, <1>5, <1>6, <1>7, <1>8 DEF Sound

\* The player gets back a status of its own.
LEMMA GetsItsOwn ==
  ASSUME Sound, NEW p \in Player, Receive(p)
  PROVE  /\ Tail(down[p]) \in Seq(Status) /\ Ids(Tail(down[p])) \subseteq Ids(down[p])
         /\ P[p] # NoStatus
         /\ \E y \in Status, v \in {"send", "lost", "exited"} :
              /\ y.id = P[p].id /\ (v = "lost" => y.battle \in ZoneA)
              /\ pc' = [pc EXCEPT ![p] = v] /\ P' = [P EXCEPT ![p] = y]
<1> DEFINE x == Head(down[p])
<1>1. /\ down \in [Node -> Seq(Status)] /\ p \in Node /\ p \notin Battle
      /\ P[p] \in Status \cup {NoStatus} /\ hp[p] \in Nat
  BY ChildrenAreNodes DEF Sound, TypeOK
<1>2. /\ down[p] # <<>> /\ down' = [down EXCEPT ![p] = Tail(@)] /\ pc[p] = "wait"
      /\ UNCHANGED <<up, held, winner, hp, fifo, champion, defeats, file, failed>>
  BY DEF Receive
<1>3. /\ x \in Status /\ x.id \in Ids(down[p])
      /\ Tail(down[p]) \in Seq(Status) /\ Ids(Tail(down[p])) \subseteq Ids(down[p])
  BY <1>1, <1>2, TakenOut
<1>4. P[p].id = x.id /\ P[p] # NoStatus
  <2>1. x.id \in Name(p)
    BY <1>1, <1>3 DEF Sound, Names
  <2>2. P[p].id = x.id /\ x.id # None
    BY <1>1, <2>1 DEF Name
  <2> QED BY <2>2 DEF NoStatus
<1>5. \E y \in Status, v \in {"send", "lost", "exited"} :
         /\ y.id = x.id /\ (v = "lost" => y.battle \in ZoneA)
         /\ pc' = [pc EXCEPT ![p] = v] /\ P' = [P EXCEPT ![p] = y]
  <2>1. CASE x.ended = 0 /\ pc' = [pc EXCEPT ![p] = "send"] /\ P' = [P EXCEPT ![p] = x]
    BY <1>3, <2>1
  <2> DEFINE e == [x EXCEPT !.ended = 0]
             g == Healed(x, hp[p])
  <2>2. e \in Status /\ e.id = x.id /\ e.battle = x.battle
    BY <1>3 DEF Status
  <2>3. g \in Status /\ g.id = x.id
    <3>1. x.HP + (hp[p] - x.HP) \div 2 \in Int
      BY <1>1, <1>3 DEF Status
    <3> QED BY <1>3, <3>1 DEF Status, Healed
  <2>4. \/ x.ended = 0 /\ pc' = [pc EXCEPT ![p] = "send"] /\ P' = [P EXCEPT ![p] = x]
        \/ /\ pc' = [pc EXCEPT ![p] = IF x.battle \in ZoneA THEN "lost" ELSE "exited"]
           /\ P' = [P EXCEPT ![p] = e]
        \/ pc' = [pc EXCEPT ![p] = "exited"] /\ P' = [P EXCEPT ![p] = e]
        \/ pc' = [pc EXCEPT ![p] = "send"] /\ P' = [P EXCEPT ![p] = g]
    BY DEF Receive
  <2> HIDE DEF x, e, g
  <2> QED BY <2>1, <2>2, <2>3, <2>4
<1> QED BY <1>3, <1>4, <1>5

LEMMA ReceiveSound == ASSUME Sound, NEW p \in Player, Receive(p) PROVE Sound' /\ NamesKept
<1>1. /\ down \in [Node -> Seq(Status)] /\ p \in Node /\ p \notin Battle
      /\ P[p] \in Status \cup {NoStatus} /\ hp[p] \in Nat
  BY ChildrenAreNodes DEF Sound, TypeOK
<1>2. /\ down[p] # <<>> /\ down' = [down EXCEPT ![p] = Tail(@)] /\ pc[p] = "wait"
      /\ UNCHANGED <<up, held, winner, hp, fifo, champion, defeats, file, failed>>
  BY DEF Receive
<1>3. /\ Tail(down[p]) \in Seq(Status) /\ Ids(Tail(down[p])) \subseteq Ids(down[p])
      /\ P[p] # NoStatus
  BY GetsItsOwn
<1>4. PICK y \in Status, v \in {"send", "lost", "exited"} :
         /\ y.id = P[p].id /\ (v = "lost" => y.battle \in ZoneA)
         /\ pc' = [pc EXCEPT ![p] = v] /\ P' = [P EXCEPT ![p] = y]
  BY GetsItsOwn
<1>5. y.id # None /\ y # NoStatus
  BY StatusThere
<1>6. TypeOK'
  BY <1>1, <1>2, <1>3, <1>4 DEF Sound, TypeOK
<1>7. Players'
  BY <1>1, <1>2, <1>3, <1>4, <1>5, ChildrenAreNodes DEF Sound, TypeOK, Players, Health
<1>8. Battles'
  BY <1>1, <1>2, <1>4 DEF Sound, TypeOK, Battles
<1>9. NamesKept
  BY <1>1, <1>2, <1>4 DEF NamesKept, Sound, TypeOK
<1>10. Names'
  BY <1>1, <1>2, <1>3, <1>9, NamesStep
<1> QED BY <1>6, <1>7, <1>8, <1>9, <1>10 DEF Sound

LEMMA MovesSound ==
  ASSUME Sound, NEW n \in Node,
         \/ n \in Battle /\ (Reap(n) \/ Finish(n) \/ ReadLeftEnd(n))
         \/ Orphaned(n)
  PROVE  Sound' /\ NamesKept
<1>1. UNCHANGED <<up, down, held, winner, P, hp, fifo, champion, defeats, file, failed>>
  BY DEF Reap, Finish, ReadLeftEnd, Orphaned, pipes
<1>2. \/ pc' = [pc EXCEPT ![n] = "exited"]
      \/ n \in Battle /\ pc[n] = "reap" /\ pc' = [pc EXCEPT ![n] = "relay"]
  BY DEF Reap, Finish, ReadLeftEnd, Orphaned
<1>3. /\ up' \in [Node -> Seq(Status)] /\ fifo' \in [Player -> Seq(Status)]
      /\ \A p \in Player : Restored(Health, fifo'[p])
  BY <1>1 DEF Sound, TypeOK, Players
<1> QED BY <1>1, <1>2, <1>3, MovedSound, ChildrenAreNodes

\* What a battle does to a status it holds, and to the pipes.
LEMMA ReadLeftSound == ASSUME Sound, NEW b \in Battle, ReadLeft(b) PROVE Sound' /\ NamesKept
<1> DEFINE l == Left[b]
           x == Head(up[l])
<1>1. /\ up \in [Node -> Seq(Status)] /\ held \in [Node -> Status \cup {NoStatus}]
      /\ l \in Node /\ b \in Node /\ b \notin Player
  BY ChildrenAreNodes DEF Sound, TypeOK
<1>2. /\ pc[b] = "left" /\ up[l] # <<>> /\ up' = [up EXCEPT ![l] = Tail(@)]
      /\ held' = [held EXCEPT ![l] = x] /\ pc' = [pc EXCEPT ![b] = "right"]
      /\ UNCHANGED <<down, winner, P, hp, fifo, champion, defeats, file, failed>>
  BY DEF ReadLeft
<1>3. /\ x \in Status /\ x.id \in Ids(up[l]) /\ x.id # None
      /\ Tail(up[l]) \in Seq(Status) /\ Ids(Tail(up[l])) \subseteq Ids(up[l])
  BY <1>1, <1>2, TakenOut, StatusThere
<1>4. x.id \in Name(l) /\ (held[l].id # None => held[l].id \in Name(l))
  BY <1>1, <1>3 DEF Sound, Names
<1>5. NamesKept
  BY <1>1, <1>2, <1>4, NameUnique DEF NamesKept
<1> HIDE DEF x, l
<1>6. TypeOK'
  BY <1>1, <1>2, <1>3 DEF Sound, TypeOK
<1>7. Players'
  BY <1>1, <1>2, ChildrenAreNodes DEF Sound, TypeOK, Players, Health
<1>8. Battles'
  <2>1. held'[l].id # None
    BY <1>1, <1>2, <1>3
  <2> QED BY <1>1, <1>2, <1>5, <2>1, ChildrenAreNodes DEF Sound, TypeOK, Battles, NamesKept, l
<1>9. Names'
  <2>1. x.id \in Name(l)'
    BY <1>1, <1>4, <1>5, NameStays
  <2> QED BY <1>1, <1>2, <1>3, <1>5, <2>1, NamesStep
<1> QED BY <1>5, <1>6, <1>7, <1>8, <1>9 DEF Sound

LEMMA RelayUpSound == ASSUME Sound, NEW b \in Battle, RelayUp(b) PROVE Sound' /\ NamesKept
<1>1. PICK w \in Node : w = winner[b] /\ held[w].id # None
  BY ChildrenAreNodes DEF RelayUp, Sound, Battles
<1> DEFINE x == Head(up[w])
<1>2. /\ up \in [Node -> Seq(Status)] /\ held \in [Node -> Status \cup {NoStatus}]
      /\ b \in Node /\ b \notin Player
  BY ChildrenAreNodes DEF Sound, TypeOK
<1>3. /\ pc[b] = "relay" /\ up[w] # <<>>
      /\ up' = [up EXCEPT ![w] = Tail(@), ![b] = Append(@, x)]
      /\ held' = [held EXCEPT ![w] = x] /\ pc' = [pc EXCEPT ![b] = "feedback"]
      /\ UNCHANGED <<down, winner, P, hp, fifo, champion, defeats, file, failed>>
  BY <1>1 DEF RelayUp
<1>4. /\ x \in Status /\ x.id \in Ids(up[w]) /\ x.id # None
      /\ Tail(up[w]) \in Seq(Status) /\ Ids(Tail(up[w])) \subseteq Ids(up[w])
  BY <1>2, <1>3, <1>1, TakenOut, StatusThere
<1>5. x.id \in Name(w) /\ held[w].id \in Name(w) /\ x.id = held[w].id
  BY <1>2, <1>1, <1>4, NameUnique DEF Sound, Names
<1>6. NamesKept
  BY <1>2, <1>3, <1>5 DEF NamesKept
<1>7. x.id \in Name(w)' /\ x.id \in Name(b)'
  <2>1. x.id \in Name(b)
    BY <1>1, <1>5, ChildrenAreNodes DEF Name
  <2> QED BY <1>2, <1>1, <1>5, <1>6, <2>1, NameStays
<1> HIDE DEF x
<1>8. /\ up' \in [Node -> Seq(Status)]
      /\ \A n \in Node : Ids(up'[n]) \subseteq Ids(up[n]) \cup Name(n)'
  <2>1. CASE w = b
    <3>1. up' = [up EXCEPT ![b] = Append(Tail(up[b]), x)]
      BY <1>2, <1>3, <2>1
    <3>2. /\ Append(Tail(up[b]), x) \in Seq(Status)
          /\ Ids(Append(Tail(up[b]), x)) = Ids(Tail(up[b])) \cup {x.id}
      BY <1>4, <2>1, PutIn
    <3> QED BY <1>2, <1>4, <1>7, <2>1, <3>1, <3>2
  <2>2. CASE w # b
    <3>1. /\ Append(up[b], x) \in Seq(Status)
          /\ Ids(Append(up[b], x)) = Ids(up[b]) \cup {x.id}
      BY <1>2, <1>4, PutIn
    <3>2. up' = [up EXCEPT ![w] = Tail(up[w]), ![b] = Append(up[b], x)]
      BY <1>2, <1>3, <1>1, <2>2
    <3> QED BY <1>2, <1>1, <1>4, <1>7, <2>2, <3>1, <3>2
  <2> QED BY <2>1, <2>2
<1>9. TypeOK'
  BY <1>2, <1>3, <1>4, <1>8 DEF Sound, TypeOK
<1>10. Players'
  BY <1>2, <1>3, ChildrenAreNodes DEF Sound, TypeOK, Players, Health
<1>11. Battles'
  BY <1>2, <1>3, <1>1, <1>6, ChildrenAreNodes DEF Sound, TypeOK, Battles, NamesKept
<1>12. Names'
  BY <1>2, <1>3, <1>1, <1>6, <1>7, <1>8, NamesStep
<1> QED BY <1>6, <1>9, <1>10, <1>11, <1>12 DEF Sound

LEMMA RelayDownSound == ASSUME Sound, NEW b \in Battle, RelayDown(b) PROVE Sound' /\ NamesKept
<1>1. PICK w \in Node : w = winner[b] /\ held[w].id # None
  BY ChildrenAreNodes DEF RelayDown, Sound, Battles
<1> DEFINE x == Head(down[b])
<1>2. /\ down \in [Node -> Seq(Status)] /\ held \in [Node -> Status \cup {NoStatus}]
      /\ b \in Node /\ b \notin Player
  BY ChildrenAreNodes DEF Sound, TypeOK
<1>3. /\ pc[b] = "feedback" /\ down[b] # <<>>
      /\ down' = [down EXCEPT ![b] = Tail(@), ![w] = Append(@, x)]
      /\ held' = [held EXCEPT ![w] = x] /\ pc' = [pc EXCEPT ![b] = "relay"]
      /\ UNCHANGED <<up, winner, P, hp, fifo, champion, defeats, file, failed>>
  BY <1>1 DEF RelayDown
<1>4. /\ x \in Status /\ x.id \in Ids(down[b]) /\ x.id # None
      /\ Tail(down[b]) \in Seq(Status) /\ Ids(Tail(down[b])) \subseteq Ids(down[b])
  BY <1>2, <1>3, TakenOut, StatusThere
<1>5. x.id = held[w].id /\ x.id \in Name(w)
  <2>1. x.id \in Name(b) /\ held[w].id \in Name(w)
    BY <1>1, <1>2, <1>4 DEF Sound, Names
  <2> QED BY <1>1, <2>1, ChildrenAreNodes DEF Name
<1>6. NamesKept
  BY <1>1, <1>2, <1>3, <1>5 DEF NamesKept
<1>7. x.id \in Name(w)'
  BY <1>1, <1>5, <1>6, NameStays
<1> HIDE DEF x
<1>8. /\ down' \in [Node -> Seq(Status)]
      /\ \A n \in Node : Ids(down'[n]) \subseteq Ids(down[n]) \cup Name(n)'
  <2>1. CASE w = b
    <3>1. down' = [down EXCEPT ![b] = Append(Tail(down[b]), x)]
      BY <1>2, <1>3, <2>1
    <3>2. /\ Append(Tail(down[b]), x) \in Seq(Status)
          /\ Ids(Append(Tail(down[b]), x)) = Ids(Tail(down[b])) \cup {x.id}
      BY <1>4, <2>1, PutIn
    <3> QED BY <1>2, <1>4, <1>7, <2>1, <3>1, <3>2
  <2>2. CASE w # b
    <3>1. /\ Append(down[w], x) \in Seq(Status)
          /\ Ids(Append(down[w], x)) = Ids(down[w]) \cup {x.id}
      BY <1>2, <1>4, PutIn
    <3>2. down' = [down EXCEPT ![b] = Tail(down[b]), ![w] = Append(down[w], x)]
      BY <1>1, <1>2, <1>3, <2>2
    <3> QED BY <1>1, <1>2, <1>4, <1>7, <2>2, <3>1, <3>2
  <2> QED BY <2>1, <2>2
<1>9. TypeOK'
  BY <1>1, <1>2, <1>3, <1>4, <1>8 DEF Sound, TypeOK
<1>10. Players'
  BY <1>2, <1>3, ChildrenAreNodes DEF Sound, TypeOK, Players, Health
<1>11. Battles'
  BY <1>1, <1>2, <1>3, <1>6, ChildrenAreNodes DEF Sound, TypeOK, Battles, NamesKept
<1>12. Names'
  BY <1>1, <1>2, <1>3, <1>6, <1>7, <1>8, NamesStep
<1> QED BY <1>6, <1>9, <1>10, <1>11, <1>12 DEF Sound

\* A child is sent a status that is its own.
LEMMA SentBackSound ==
  ASSUME Sound, NEW b \in Battle, NEW n \in Node, held[n].id # None,
         NEW x \in Status, x.id = held[n].id,
         NEW v, v = "exited" \/ (pc[b] = "feedback" /\ v = "relay"),
         down' = [down EXCEPT ![n] = Append(@, x)], pc' = [pc EXCEPT ![b] = v],
         UNCHANGED <<up, held, winner, P, hp, fifo, champion, defeats, file, failed>>
  PROVE  Sound' /\ NamesKept
<1>1. down \in [Node -> Seq(Status)] /\ b \in Node /\ b \notin Player
  BY ChildrenAreNodes DEF Sound, TypeOK
<1>2. x.id \in Name(n) /\ NamesKept
  BY DEF Sound, Names, NamesKept
<1>3. x.id \in Name(n)'
  BY <1>2, NameStays
<1>4. /\ Append(down[n], x) \in Seq(Status)
      /\ Ids(Append(down[n], x)) = Ids(down[n]) \cup {x.id}
  BY <1>1, PutIn
<1>5. TypeOK'
  BY <1>1, <1>4 DEF Sound, TypeOK
<1>6. Players'
  BY <1>1, ChildrenAreNodes DEF Sound, TypeOK, Players, Health
<1>7. Battles'
  BY <1>1, ChildrenAreNodes DEF Sound, TypeOK, Battles
<1>8. Names'
  BY <1>1, <1>2, <1>3, <1>4, NamesStep
<1> QED BY <1>2, <1>5, <1>6, <1>7, <1>8 DEF Sound

LEMMA FeedbackEndSound == ASSUME Sound, NEW b \in Battle, FeedbackEnd(b) PROVE Sound' /\ NamesKept
<1>1. PICK n \in Node : n = winner[b] /\ held[n].id # None
  BY ChildrenAreNodes DEF FeedbackEnd, Sound, Battles
<1>2. held[n] \in Status
  BY <1>1, StatusThere DEF Sound, TypeOK
<1>3. PICK x \in Status : x = held[n]
  BY <1>2
<1> QED BY <1>1, <1>3, SentBackSound DEF FeedbackEnd

LEMMA ReadRightEndSound == ASSUME Sound, NEW b \in Battle, ReadRightEnd(b) PROVE Sound' /\ NamesKept
<1>1. PICK n \in Node : n = Left[b] /\ held[n].id # None
  BY ChildrenAreNodes DEF ReadRightEnd, Sound, Battles
<1>2. held[n] \in Status
  BY <1>1, StatusThere DEF Sound, TypeOK
<1>3. PICK h \in Garbage \cup {held[n].HP}, e \in {0, 1} :
        down' = [down EXCEPT ![n] = Append(@, [held[n] EXCEPT !.HP = h, !.battle = b, !.ended = e])]
  BY <1>1 DEF ReadRightEnd
<1>4. /\ [held[n] EXCEPT !.HP = h, !.battle = b, !.ended = e] \in Status
      /\ [held[n] EXCEPT !.HP = h, !.battle = b, !.ended = e].id = held[n].id
  <2>1. h \in Int
    BY <1>2, TreeAssumption DEF Status
  <2> QED BY <1>2, <2>1 DEF Status
<1>5. PICK x \in Status : x = [held[n] EXCEPT !.HP = h, !.battle = b, !.ended = e]
  BY <1>4
<1>6. x.id = held[n].id /\ down' = [down EXCEPT ![n] = Append(@, x)]
  BY <1>3, <1>4, <1>5
<1> QED BY <1>1, <1>6, SentBackSound DEF ReadRightEnd

\* A round, seen from outside: s and t are left and right when it is over.
Fought(b, l, r, s, t) ==
  /\ s = Fight(b, held[l], Head(up[r]))[1] /\ t = Fight(b, held[l], Head(up[r]))[2]
  /\ s.id = held[l].id /\ t.id = Head(up[r]).id /\ s.battle = b /\ t.battle = b
  /\ pc[b] = "right" /\ up[r] # <<>> /\ up' = [up EXCEPT ![r] = Tail(@)]
  /\ held' = [held EXCEPT ![l] = s, ![r] = t]
  /\ down' = [down EXCEPT ![l] = Append(@, s), ![r] = Append(@, t)]
  /\ \/ /\ s.HP > 0 /\ t.HP > 0
        /\ pc' = [pc EXCEPT ![b] = "left"] /\ UNCHANGED <<winner, champion, defeats>>
     \/ /\ pc' = [pc EXCEPT ![b] = "reap"]
        /\ \/ /\ t.HP <= 0 /\ winner' = [winner EXCEPT ![b] = l]
              /\ defeats' = [defeats EXCEPT ![t.id] = @ + 1]
           \/ /\ t.HP > 0 /\ s.HP <= 0 /\ winner' = [winner EXCEPT ![b] = r]
              /\ defeats' = [defeats EXCEPT ![s.id] = @ + 1]
        /\ champion' \in {champion, s.id, t.id}
  /\ UNCHANGED <<P, hp, fifo, file, failed>>

LEMMA RoundFought ==
  ASSUME Sound, NEW b \in Battle, ReadRight(b), NEW l, l = Left[b], NEW r, r = Right[b]
  PROVE  /\ l \in Node /\ r \in Node /\ l # r /\ held[l] \in Status /\ Head(up[r]) \in Status
         /\ \E s \in Status, t \in Status : Fought(b, l, r, s, t)
<1> DEFINE x == Head(up[r])
           out == Fight(b, held[l], x)
<1>1. l \in Node /\ r \in Node /\ l # r
  BY ChildrenAreNodes
<1>2. held[l] \in Status /\ x \in Status /\ file \in Files
  <2>1. held[l] \in Status \cup {NoStatus} /\ held[l].id # None /\ up[r] \in Seq(Status)
    BY <1>1 DEF ReadRight, Sound, TypeOK, Battles
  <2>2. up[r] # <<>> /\ file \in Files
    BY DEF ReadRight, Sound, TypeOK
  <2> QED BY <2>1, <2>2, StatusThere, TakenOut
<1>3. /\ out[1] \in Status /\ out[1].id = held[l].id /\ out[1].battle = b
      /\ out[2] \in Status /\ out[2].id = x.id /\ out[2].battle = b
  BY <1>2, FightKeepsPlaces
<1>4. PICK s \in Status, t \in Status : s = out[1] /\ t = out[2]
  BY <1>3
<1>5. /\ pc[b] = "right" /\ up[r] # <<>> /\ up' = [up EXCEPT ![r] = Tail(@)]
      /\ held' = [held EXCEPT ![l] = s, ![r] = t]
      /\ down' = [down EXCEPT ![l] = Append(@, s), ![r] = Append(@, t)]
      /\ UNCHANGED <<P, hp, fifo, file, failed>>
  BY <1>4 DEF ReadRight
<1>6. IF s.HP <= 0 \/ t.HP <= 0
      THEN /\ pc' = [pc EXCEPT ![b] = "reap"]
           /\ winner' = [winner EXCEPT ![b] = IF t.HP <= 0 THEN l ELSE r]
           /\ defeats' = [defeats EXCEPT ![IF t.HP <= 0 THEN t.id ELSE s.id] = @ + 1]
           /\ champion' = IF b = Root THEN First(out) ELSE champion
      ELSE /\ pc' = [pc EXCEPT ![b] = "left"]
           /\ UNCHANGED <<winner, champion, defeats>>
  BY <1>4 DEF ReadRight
<1>7. First(out) \in {s.id, t.id}
  BY <1>4 DEF First
<1> HIDE DEF out
<1>8. s.HP \in Int /\ t.HP \in Int
  BY DEF Status
<1>9. \/ /\ s.HP > 0 /\ t.HP > 0
         /\ pc' = [pc EXCEPT ![b] = "left"] /\ UNCHANGED <<winner, champion, defeats>>
      \/ /\ pc' = [pc EXCEPT ![b] = "reap"]
         /\ \/ t.HP <= 0 /\ winner' = [winner EXCEPT ![b] = l]
               /\ defeats' = [defeats EXCEPT ![t.id] = @ + 1]
            \/ t.HP > 0 /\ s.HP <= 0 /\ winner' = [winner EXCEPT ![b] = r]
               /\ defeats' = [defeats EXCEPT ![s.id] = @ + 1]
         /\ champion' \in {champion, s.id, t.id}
  BY <1>6, <1>7, <1>8
<1>10. s.id = held[l].id /\ t.id = x.id /\ s.battle = b /\ t.battle = b
  BY <1>3, <1>4
<1>11. Fought(b, l, r, s, t)
  BY <1>4, <1>5, <1>9, <1>10 DEF Fought, out
<1> QED BY <1>1, <1>2, <1>11

LEMMA ReadRightSound == ASSUME Sound, NEW b \in Battle, ReadRight(b) PROVE Sound' /\ NamesKept
<1>1. PICK l, r : l = Left[b] /\ r = Right[b]
  OBVIOUS
<1>2. l \in Node /\ r \in Node /\ l # r /\ b \in Node /\ b \notin Player /\ held[l] \in Status
  BY <1>1, RoundFought, ChildrenAreNodes
<1> DEFINE x == Head(up[r])
<1>3. PICK s \in Status, t \in Status : Fought(b, l, r, s, t)
  BY <1>1, RoundFought
<1>4. /\ up \in [Node -> Seq(Status)] /\ down \in [Node -> Seq(Status)]
      /\ held \in [Node -> Status \cup {NoStatus}] /\ winner[b] = None
  BY <1>3 DEF Sound, TypeOK, Battles, Fought
<1>5. /\ x \in Status /\ x.id \in Ids(up[r])
      /\ Tail(up[r]) \in Seq(Status) /\ Ids(Tail(up[r])) \subseteq Ids(up[r])
  BY <1>2, <1>3, <1>4, TakenOut DEF Fought
<1> HIDE DEF x
<1>6. s.id # None /\ t.id # None /\ s.id \in Real /\ t.id \in Real
  BY StatusThere
<1>7. s.id \in Name(l) /\ t.id \in Name(r) /\ (held[r].id # None => held[r].id = t.id)
  <2>1. s.id = held[l].id /\ t.id = x.id
    BY <1>3 DEF Fought, x
  <2>2. /\ Ids(up[r]) \subseteq Name(r)
        /\ {held[l].id} \ {None} \subseteq Name(l) /\ {held[r].id} \ {None} \subseteq Name(r)
    BY <1>2 DEF Sound, Names
  <2> QED BY <1>2, <1>5, <1>6, <2>1, <2>2, NameUnique
<1>8. NamesKept
  <2>1. \A n \in Node : held[n].id # None => held'[n].id = held[n].id
    BY <1>2, <1>3, <1>4, <1>7 DEF Fought
  <2>2. \A c \in Battle : winner[c] # None => winner'[c] = winner[c]
    BY <1>3, <1>4 DEF Fought, Sound, TypeOK
  <2> QED BY <1>3, <2>1, <2>2 DEF NamesKept, Fought
<1>9. s.id \in Name(l)' /\ t.id \in Name(r)'
  BY <1>2, <1>7, <1>8, NameStays
<1>10. /\ Append(down[l], s) \in Seq(Status) /\ Ids(Append(down[l], s)) = Ids(down[l]) \cup {s.id}
       /\ Append(down[r], t) \in Seq(Status) /\ Ids(Append(down[r], t)) = Ids(down[r]) \cup {t.id}
  BY <1>2, <1>4, PutIn
<1>11. /\ down' = [down EXCEPT ![l] = Append(down[l], s), ![r] = Append(down[r], t)]
       /\ up' = [up EXCEPT ![r] = Tail(up[r])]
  BY <1>2, <1>3, <1>4 DEF Fought
<1>12. TypeOK'
  <2>1. down' \in [Node -> Seq(Status)] /\ up' \in [Node -> Seq(Status)]
    BY <1>4, <1>5, <1>10, <1>11
  <2>2. pc' \in [Node -> {"send", "wait", "lost", "left", "right", "reap",
                          "relay", "feedback", "exited"}]
    BY <1>2, <1>3 DEF Sound, TypeOK, Fought
  <2>3. held' \in [Node -> Status \cup {NoStatus}]
    BY <1>3, <1>4 DEF Fought
  <2>4. winner' \in [Battle -> Node \cup {None}]
    BY <1>2, <1>3 DEF Sound, TypeOK, Fought
  <2>5. champion' \in Real \cup {None}
    BY <1>3, <1>6 DEF Sound, TypeOK, Fought
  <2>6. defeats' \in [Real -> Nat]
    BY <1>3, <1>6 DEF Sound, TypeOK, Fought
  <2> QED BY <1>3, <2>1, <2>2, <2>3, <2>4, <2>5, <2>6 DEF Sound, TypeOK, Fought
<1>13. Players'
  BY <1>2, <1>3, ChildrenAreNodes DEF Sound, TypeOK, Players, Health, Fought
<1>14. Battles'
  <2>1. held'[l].id # None /\ held'[r].id # None
    BY <1>2, <1>3, <1>4, <1>6 DEF Fought
  <2>2. ASSUME NEW c \in Battle, c # b
        PROVE  pc'[c] = pc[c] /\ winner'[c] = winner[c]
    BY <1>2, <1>3, <2>2, ChildrenAreNodes DEF Sound, TypeOK, Fought
  <2>3. ASSUME NEW c \in Battle, c # b, winner[c] # None
        PROVE  held'[winner[c]].id # None
    BY <1>8, <2>3, ChildrenAreNodes DEF NamesKept, Sound, Battles
  <2>4. ASSUME NEW c \in Battle, c # b, pc[c] = "right"
        PROVE  held'[Left[c]].id # None
    BY <1>8, <2>4, ChildrenAreNodes DEF NamesKept, Sound, Battles
  <2>5. /\ pc'[b] \in {"left", "reap"} /\ (pc'[b] = "left" => winner'[b] = None)
        /\ (pc'[b] = "reap" => winner'[b] \in {l, r})
    BY <1>2, <1>3, <1>4 DEF Sound, TypeOK, Fought
  <2>6. l # None /\ r # None
    BY <1>2, ChildrenAreNodes
  <2> QED BY <1>1, <2>1, <2>2, <2>3, <2>4, <2>5, <2>6 DEF Battles, Sound
<1>15. Names'
  <2>1. \A n \in Node : /\ Ids(up'[n]) \subseteq Ids(up[n]) \cup Name(n)'
                        /\ Ids(down'[n]) \subseteq Ids(down[n]) \cup Name(n)'
    BY <1>2, <1>4, <1>5, <1>9, <1>10, <1>11
  <2>2. \A n \in Node : {held'[n].id} \ {None} \subseteq {held[n].id} \cup Name(n)'
    BY <1>2, <1>3, <1>4, <1>9 DEF Fought
  <2> QED BY <1>8, <2>1, <2>2, NamesStep
<1> QED BY <1>8, <1>12, <1>13, <1>14, <1>15 DEF Sound

-----------------------------------------------------------------------------
(* Every state keeps to it. *)

LEMMA InitSound == Init => Sound
<1> SUFFICES ASSUME Init PROVE Sound
  OBVIOUS
<1>1. /\ file \in Files /\ failed \subseteq Node /\ Cardinality(failed) <= MaxFailures
      /\ up = [n \in Node |-> <<>>] /\ down = [n \in Node |-> <<>>]
      /\ held = [n \in Node |-> NoStatus] /\ winner = [b \in Battle |-> None]
      /\ P = [p \in Player |-> IF p \in Real THEN [NoStatus EXCEPT !.id = p, !.HP = Health[p]]
                                             ELSE NoStatus]
      /\ hp = [p \in Player |-> IF p \in Real THEN Health[p] ELSE 0]
      /\ fifo = [p \in Player |-> <<>>] /\ champion = None /\ defeats = [p \in Real |-> 0]
  BY DEF Init
<1>2. /\ pc \in [Node -> {"send", "wait", "left", "exited"}]
      /\ \A b \in Battle : pc[b] \in {"left", "exited"}
      /\ \A p \in Player : /\ pc[p] \in {"send", "wait", "exited"}
                           /\ p \notin Real => pc[p] \in {"wait", "exited"}
  BY ChildrenAreNodes DEF Init
<1>3. \A p \in Real : P[p] \in Status /\ P[p].id = p /\ hp[p] = Health[p] /\ Health[p] \in Nat
  <2> SUFFICES ASSUME NEW p \in Real PROVE P[p] \in Status /\ P[p].id = p /\ hp[p] = Health[p] /\ Health[p] \in Nat
    OBVIOUS
  <2>1. file.health \in [Real -> Nat]
    BY <1>1, StrengthAssumption
  <2>2. Health[p] \in Nat
    BY <2>1 DEF Health
  <2>3. p \in Player
    BY ChildrenAreNodes
  <2>4. P[p] = [NoStatus EXCEPT !.id = p, !.HP = Health[p]]
    BY <1>1, <2>3
  <2>5. P[p] = [id |-> p, HP |-> Health[p], battle |-> None, ended |-> 0]
    BY <2>4 DEF NoStatus
  <2>6. P[p] \in Status /\ P[p].id = p
    BY <2>2, <2>5 DEF Status
  <2> QED BY <1>1, <2>2, <2>3, <2>6
<1>4. TypeOK
  <2>1. \A p \in Player : P[p] \in Status \cup {NoStatus} /\ hp[p] \in Nat
    BY <1>1, <1>3
  <2>2. P \in [Player -> Status \cup {NoStatus}] /\ hp \in [Player -> Nat]
    BY <1>1, <2>1
  <2>3. up \in [Node -> Seq(Status)] /\ down \in [Node -> Seq(Status)] /\ fifo \in [Player -> Seq(Status)]
    BY <1>1, NothingIn
  <2> QED BY <1>1, <1>2, <2>2, <2>3 DEF TypeOK
<1>5. Players
  <2>1. \A p \in Player : P[p] = NoStatus <=> p \notin Real
    <3>1. \A p \in Real : P[p].id # None
      BY <1>3, ChildrenAreNodes
    <3>2. \A p \in Player : p \notin Real => P[p] = NoStatus
      BY <1>1
    <3> QED BY <3>1, <3>2 DEF NoStatus
  <2>2. \A p \in Player : Restored(Health, fifo[p])
    BY <1>1, NothingIn
  <2> QED BY <1>2, <1>3, <2>1, <2>2 DEF Players
<1>6. Battles
  BY <1>1, <1>2 DEF Battles
<1>7. Names
  BY <1>1, NothingIn DEF Names, NoStatus
<1> QED BY <1>4, <1>5, <1>6, <1>7 DEF Sound

LEMMA NextSound == Sound /\ [Next]_vars => Sound' /\ NamesKept
<1> SUFFICES ASSUME Sound, [Next]_vars PROVE Sound' /\ NamesKept
  OBVIOUS
<1>1. CASE UNCHANGED vars
  <2>1. Players'
    BY <1>1 DEF vars, pipes, Sound, Players, Health
  <2>2. Battles'
    BY <1>1 DEF vars, pipes, Sound, Battles
  <2>3. Names'
    BY <1>1 DEF vars, pipes, Sound, Names, Name
  <2>4. NamesKept
    BY <1>1 DEF vars, NamesKept
  <2> QED BY <1>1, <2>1, <2>2, <2>3, <2>4 DEF vars, pipes, Sound, TypeOK
<1>2. ASSUME NEW p \in Player, Send(p) \/ Receive(p) \/ HandOver(p) \/ TakeOver(p)
      PROVE  Sound' /\ NamesKept
  BY <1>2, SendSound, ReceiveSound, HandOverSound, TakeOverSound
<1>3. ASSUME NEW b \in Battle,
             \/ ReadLeft(b) \/ ReadRight(b) \/ Reap(b)
             \/ RelayUp(b) \/ RelayDown(b) \/ Finish(b)
             \/ ReadLeftEnd(b) \/ ReadRightEnd(b) \/ FeedbackEnd(b)
      PROVE  Sound' /\ NamesKept
  BY <1>3, ReadLeftSound, ReadRightSound, MovesSound, RelayUpSound, RelayDownSound,
     ReadRightEndSound, FeedbackEndSound, ChildrenAreNodes
<1>4. ASSUME NEW p \in Player, HandOverFails(p) \/ TakeOverFails(p) PROVE Sound' /\ NamesKept
  BY <1>4, HandOverFailsSound, TakeOverFailsSound
<1> QED BY <1>1, <1>2, <1>3, <1>4, MovesSound DEF Next, Process

LEMMA AlwaysSound == Spec => []Sound
BY InitSound, NextSound, PTL DEF Spec

\* The variables keep their types: nothing but a status ever goes through a pipe or
\* a FIFO, and what a process takes for one is one.
THEOREM ProcessesKeepTheirTypes == Spec => []TypeOK
<1>1. Sound => TypeOK
  BY DEF Sound
<1> QED BY <1>1, AlwaysSound, PTL

-----------------------------------------------------------------------------
(* A real player is one process at a time. *)

\* Nobody who has exited comes back.
LEMMA ExitedStays ==
  ASSUME Sound, [Next]_vars, NEW n \in Node, pc[n] = "exited"
  PROVE  pc'[n] = "exited"
<1>1. pc \in [Node -> {"send", "wait", "lost", "left", "right", "reap",
                       "relay", "feedback", "exited"}]
  BY DEF Sound, TypeOK
<1>2. ASSUME NEW m \in Node, NEW v, pc' = [pc EXCEPT ![m] = v], pc[m] # "exited"
      PROVE  pc'[n] = "exited"
  BY <1>1, <1>2
<1>3. CASE UNCHANGED vars
  BY <1>3 DEF vars
<1>4. ASSUME NEW p \in Player, Send(p) \/ HandOver(p) \/ TakeOver(p) \/ HandOverFails(p) \/ TakeOverFails(p)
      PROVE  pc'[n] = "exited"
  BY <1>2, <1>4, ChildrenAreNodes DEF Send, HandOver, TakeOver, HandOverFails, TakeOverFails
<1>5. ASSUME NEW p \in Player, Receive(p)
      PROVE  pc'[n] = "exited"
  BY <1>2, <1>5, GetsItsOwn, ChildrenAreNodes DEF Receive
<1>6. ASSUME NEW b \in Battle,
             \/ ReadLeft(b) \/ ReadRight(b) \/ Reap(b)
             \/ RelayUp(b) \/ RelayDown(b) \/ Finish(b)
             \/ ReadLeftEnd(b) \/ ReadRightEnd(b) \/ FeedbackEnd(b)
      PROVE  pc'[n] = "exited"
  BY <1>2, <1>6, ChildrenAreNodes DEF ReadLeft, ReadRight, Reap, RelayUp, RelayDown, Finish,
     ReadLeftEnd, ReadRightEnd, FeedbackEnd
<1>7. ASSUME NEW m \in Node, Orphaned(m) PROVE pc'[n] = "exited"
  BY <1>2, <1>7 DEF Orphaned
<1> QED BY <1>3, <1>4, <1>5, <1>6, <1>7 DEF Next, Process

\* Two processes that live are two players, whoever waits in a FIFO has nobody else
\* for it any more, and nobody waits twice.
Owners ==
  /\ \A p, q \in Player :
       pc[p] # "exited" /\ pc[q] # "exited" /\ P[p].id = P[q].id /\ P[p].id # None => p = q
  /\ \A p, q \in Player : \A k \in DOMAIN fifo[q] : P[p].id = fifo[q][k].id => pc[p] = "exited"
  /\ \A q, r \in Player : \A k \in DOMAIN fifo[q], m \in DOMAIN fifo[r] :
       fifo[q][k].id = fifo[r][m].id => q = r /\ k = m

LEMMA OwnersKept ==
  ASSUME Owners, Sound, [Next]_vars,
         \A p \in Player : P'[p].id = P[p].id, UNCHANGED fifo
  PROVE  Owners'
<1>1. \A p \in Player : pc'[p] # "exited" => pc[p] # "exited"
  BY ExitedStays, ChildrenAreNodes
<1>2. \A p \in Player : pc[p] = "exited" => pc'[p] = "exited"
  BY ExitedStays, ChildrenAreNodes
<1> QED BY <1>1, <1>2 DEF Owners

LEMMA HandOverOwners ==
  ASSUME Owners, Sound, [Next]_vars, NEW p \in Player, HandOver(p)
  PROVE  Owners'
<1>1. PICK a \in Player : a = Agent[P[p].battle]
  BY TreeAssumption DEF HandOver, Sound, Players, ZoneA
<1> DEFINE s == [P[p] EXCEPT !.HP = hp[p]]
<1>2. /\ fifo \in [Player -> Seq(Status)] /\ UNCHANGED P /\ pc[p] # "exited" /\ pc'[p] = "exited"
      /\ fifo' = [fifo EXCEPT ![a] = Append(@, s)]
  BY <1>1, ChildrenAreNodes DEF HandOver, Sound, TypeOK
<1>3. P[p] \in Status
  BY StatusThere DEF HandOver, Sound, TypeOK, Players
<1>4. s.id = P[p].id /\ s.id # None
  BY <1>3, StatusThere DEF Status
<1> HIDE DEF s
<1> DEFINE e == Len(fifo[a]) + 1
<1>5. /\ e \in Nat /\ DOMAIN fifo'[a] = DOMAIN fifo[a] \cup {e} /\ e \notin DOMAIN fifo[a]
      /\ fifo'[a][e] = s /\ \A k \in DOMAIN fifo[a] : fifo'[a][k] = fifo[a][k]
  <2> DEFINE q == fifo[a]  r == Append(q, s)
  <2>1. /\ Len(q) \in Nat /\ DOMAIN q = 1 .. Len(q) /\ DOMAIN r = 1 .. Len(q) + 1
        /\ r[Len(q) + 1] = s /\ \A k \in 1 .. Len(q) : r[k] = q[k]
    BY <1>2
  <2>2. fifo'[a] = r
    BY <1>2
  <2> HIDE DEF q, r
  <2>3. e = Len(q) + 1
    BY DEF q
  <2>4. /\ e \in Nat /\ DOMAIN r = DOMAIN q \cup {e} /\ e \notin DOMAIN q
        /\ r[e] = s /\ \A k \in DOMAIN q : r[k] = q[k]
    BY <2>1, <2>3
  <2> QED BY <2>2, <2>4 DEF q
<1> HIDE DEF e
<1>6. \A q \in Player : q # a => fifo'[q] = fifo[q]
  BY <1>2
<1>7. \A q \in Player : pc'[q] # "exited" => pc[q] # "exited"
  BY ExitedStays, ChildrenAreNodes
<1>8. \A q \in Player : P[q].id = s.id => pc'[q] = "exited"
  BY <1>2, <1>4, <1>7 DEF Owners
<1>9. \A q \in Player : \A k \in DOMAIN fifo[q] : fifo[q][k].id # s.id
  BY <1>2, <1>4 DEF Owners
<1>10. \A q \in Player : \A k \in DOMAIN fifo'[q] :
         (k \in DOMAIN fifo[q] /\ fifo'[q][k] = fifo[q][k]) \/ (q = a /\ k = e /\ fifo'[q][k] = s)
  BY <1>5, <1>6
<1>11. \A q, r \in Player :
         pc'[q] # "exited" /\ pc'[r] # "exited" /\ P'[q].id = P'[r].id /\ P'[q].id # None => q = r
  BY <1>2, <1>7 DEF Owners
<1>12. \A q, r \in Player : \A k \in DOMAIN fifo'[r] : P'[q].id = fifo'[r][k].id => pc'[q] = "exited"
  <2> SUFFICES ASSUME NEW q \in Player, NEW r \in Player, NEW k \in DOMAIN fifo'[r],
                      P'[q].id = fifo'[r][k].id
               PROVE  pc'[q] = "exited"
    OBVIOUS
  <2>1. CASE k \in DOMAIN fifo[r] /\ fifo'[r][k] = fifo[r][k]
    <3>1. pc[q] = "exited"
      BY <1>2, <2>1 DEF Owners
    <3> QED BY <1>7, <3>1
  <2>2. CASE fifo'[r][k] = s
    BY <1>2, <1>8, <2>2
  <2> QED BY <1>10, <2>1, <2>2
<1>13. \A q, r \in Player : \A k \in DOMAIN fifo'[q], m \in DOMAIN fifo'[r] :
         fifo'[q][k].id = fifo'[r][m].id => q = r /\ k = m
  BY <1>9, <1>10 DEF Owners
<1> QED BY <1>11, <1>12, <1>13 DEF Owners

\* The next in a FIFO is taken out of it.
LEMMA FifoShorter ==
  ASSUME Sound, NEW p \in Player, fifo[p] # <<>>, fifo' = [fifo EXCEPT ![p] = Tail(@)]
  PROVE  /\ 1 \in DOMAIN fifo[p] /\ Head(fifo[p]) = fifo[p][1] /\ Head(fifo[p]).id # None
         /\ \A q \in Player : \A k \in DOMAIN fifo'[q] :
              \E i \in DOMAIN fifo[q] : /\ fifo'[q][k] = fifo[q][i]
                                        /\ i = IF q = p THEN k + 1 ELSE k
         /\ \A k \in DOMAIN fifo'[p] : k + 1 # 1 /\ k \in Nat
<1>1. fifo \in [Player -> Seq(Status)] /\ fifo'[p] = Tail(fifo[p])
  BY DEF Sound, TypeOK
<1> DEFINE q == fifo[p]
           t == Tail(q)
<1>2. /\ Len(q) \in Nat /\ DOMAIN q = 1 .. Len(q) /\ DOMAIN t = 1 .. Len(q) - 1
      /\ 1 \in DOMAIN q /\ Head(q) = q[1] /\ q[1] \in Status
      /\ \A k \in DOMAIN t : t[k] = q[k + 1]
  BY <1>1
<1>3. fifo'[p] = t /\ fifo[p] = q
  BY <1>1
<1> HIDE DEF q, t
<1>4. \A k \in DOMAIN t : k + 1 \in DOMAIN q /\ k + 1 # 1 /\ k \in Nat
  BY <1>2
<1>5. \A r \in Player : r # p => fifo'[r] = fifo[r]
  BY <1>1
<1>6. \A r \in Player : \A k \in DOMAIN fifo'[r] :
        \E i \in DOMAIN fifo[r] : fifo'[r][k] = fifo[r][i] /\ i = IF r = p THEN k + 1 ELSE k
  BY <1>2, <1>3, <1>4, <1>5
<1> QED BY <1>2, <1>3, <1>4, <1>6, StatusThere

LEMMA TakeOverFailsOwners ==
  ASSUME Owners, Sound, [Next]_vars, NEW p \in Player, TakeOverFails(p)
  PROVE  Owners'
<1>1. /\ UNCHANGED P
      /\ \A q \in Player : \A k \in DOMAIN fifo'[q] :
           \E i \in DOMAIN fifo[q] : /\ fifo'[q][k] = fifo[q][i]
                                     /\ i = IF q = p THEN k + 1 ELSE k
      /\ \A k \in DOMAIN fifo'[p] : k \in Nat
  BY FifoShorter DEF TakeOverFails
<1>2. \A q \in Player : /\ pc'[q] # "exited" => pc[q] # "exited"
                        /\ pc[q] = "exited" => pc'[q] = "exited"
  BY ExitedStays, ChildrenAreNodes
<1>3. \A q, r \in Player :
         pc'[q] # "exited" /\ pc'[r] # "exited" /\ P'[q].id = P'[r].id /\ P'[q].id # None => q = r
  BY <1>1, <1>2 DEF Owners
<1>4. \A q, r \in Player : \A k \in DOMAIN fifo'[r] : P'[q].id = fifo'[r][k].id => pc'[q] = "exited"
  BY <1>1, <1>2 DEF Owners
<1>5. \A q, r \in Player : \A k \in DOMAIN fifo'[q], m \in DOMAIN fifo'[r] :
         fifo'[q][k].id = fifo'[r][m].id => q = r /\ k = m
  <2> SUFFICES ASSUME NEW q \in Player, NEW r \in Player,
                      NEW k \in DOMAIN fifo'[q], NEW m \in DOMAIN fifo'[r],
                      fifo'[q][k].id = fifo'[r][m].id
               PROVE  q = r /\ k = m
    OBVIOUS
  <2>1. PICK i \in DOMAIN fifo[q] : fifo'[q][k] = fifo[q][i] /\ i = IF q = p THEN k + 1 ELSE k
    BY <1>1
  <2>2. PICK j \in DOMAIN fifo[r] : fifo'[r][m] = fifo[r][j] /\ j = IF r = p THEN m + 1 ELSE m
    BY <1>1
  <2>3. q = r /\ i = j
    BY <2>1, <2>2 DEF Owners
  <2> QED BY <1>1, <2>1, <2>2, <2>3
<1> QED BY <1>3, <1>4, <1>5 DEF Owners

LEMMA TakeOverOwners ==
  ASSUME Owners, Sound, [Next]_vars, NEW p \in Player, TakeOver(p)
  PROVE  Owners'
<1>1. /\ 1 \in DOMAIN fifo[p] /\ Head(fifo[p]) = fifo[p][1] /\ fifo[p][1].id # None
      /\ \A q \in Player : \A k \in DOMAIN fifo'[q] :
           \E i \in DOMAIN fifo[q] : /\ fifo'[q][k] = fifo[q][i]
                                     /\ i = IF q = p THEN k + 1 ELSE k
      /\ \A k \in DOMAIN fifo'[p] : k + 1 # 1 /\ k \in Nat
  BY FifoShorter DEF TakeOver
<1>2. \A q \in Player : /\ pc'[q] # "exited" => pc[q] # "exited"
                        /\ pc[q] = "exited" => pc'[q] = "exited"
  BY ExitedStays, ChildrenAreNodes
<1>3. P'[p] = fifo[p][1] /\ \A q \in Player : q # p => P'[q] = P[q]
  BY <1>1 DEF TakeOver, Sound, TypeOK
<1>4. \A q, r \in Player :
         pc'[q] # "exited" /\ pc'[r] # "exited" /\ P'[q].id = P'[r].id /\ P'[q].id # None => q = r
  <2>1. \A q \in Player : q # p /\ P'[q].id = fifo[p][1].id => pc'[q] = "exited"
    BY <1>1, <1>2, <1>3 DEF Owners
  <2>2. \A q, r \in Player : q # p /\ r # p /\ pc'[q] # "exited" /\ pc'[r] # "exited"
          /\ P'[q].id = P'[r].id /\ P'[q].id # None => q = r
    BY <1>2, <1>3 DEF Owners
  <2> QED BY <1>3, <2>1, <2>2
<1>5. \A q, r \in Player : \A k \in DOMAIN fifo'[q], m \in DOMAIN fifo'[r] :
         fifo'[q][k].id = fifo'[r][m].id => q = r /\ k = m
  <2> SUFFICES ASSUME NEW q \in Player, NEW r \in Player,
                      NEW k \in DOMAIN fifo'[q], NEW m \in DOMAIN fifo'[r],
                      fifo'[q][k].id = fifo'[r][m].id
               PROVE  q = r /\ k = m
    OBVIOUS
  <2>1. PICK i \in DOMAIN fifo[q] : fifo'[q][k] = fifo[q][i] /\ i = IF q = p THEN k + 1 ELSE k
    BY <1>1
  <2>2. PICK j \in DOMAIN fifo[r] : fifo'[r][m] = fifo[r][j] /\ j = IF r = p THEN m + 1 ELSE m
    BY <1>1
  <2>3. q = r /\ i = j
    BY <2>1, <2>2 DEF Owners
  <2> QED BY <1>1, <2>1, <2>2, <2>3
<1>6. ASSUME NEW q \in Player, NEW r \in Player, NEW k \in DOMAIN fifo'[r], P'[q].id = fifo'[r][k].id
      PROVE  pc'[q] = "exited"
  <2>1. PICK i \in DOMAIN fifo[r] : fifo'[r][k] = fifo[r][i] /\ i = IF r = p THEN k + 1 ELSE k
    BY <1>1
  <2>2. CASE q = p
    <3>1. r = p /\ i = 1
      BY <1>1, <1>3, <1>6, <2>1, <2>2 DEF Owners
    <3> QED BY <1>1, <2>1, <3>1
  <2>3. CASE q # p
    <3>1. pc[q] = "exited"
      BY <1>3, <1>6, <2>1, <2>3 DEF Owners
    <3> QED BY <1>2, <3>1
  <2> QED BY <2>2, <2>3
<1> QED BY <1>4, <1>5, <1>6 DEF Owners

LEMMA NextOwners == Sound /\ Owners /\ [Next]_vars => Owners'
<1> SUFFICES ASSUME Sound, Owners, [Next]_vars PROVE Owners'
  OBVIOUS
<1>1. CASE UNCHANGED vars
  BY <1>1, OwnersKept DEF vars
<1>2. ASSUME NEW p \in Player, Send(p) \/ HandOverFails(p) PROVE Owners'
  BY <1>2, OwnersKept DEF Send, HandOverFails
<1>3. ASSUME NEW p \in Player, Receive(p) PROVE Owners'
  <2>1. UNCHANGED fifo
    BY <1>3 DEF Receive
  <2>2. \A q \in Player : P'[q].id = P[q].id
    BY <1>3, GetsItsOwn DEF Sound, TypeOK
  <2> QED BY <2>1, <2>2, OwnersKept
<1>4. ASSUME NEW b \in Battle,
             \/ ReadLeft(b) \/ ReadRight(b) \/ Reap(b)
             \/ RelayUp(b) \/ RelayDown(b) \/ Finish(b)
             \/ ReadLeftEnd(b) \/ ReadRightEnd(b) \/ FeedbackEnd(b)
      PROVE  Owners'
  BY <1>4, OwnersKept DEF ReadLeft, ReadRight, Reap, RelayUp, RelayDown, Finish,
     ReadLeftEnd, ReadRightEnd, FeedbackEnd
<1>5. ASSUME NEW n \in Node, Orphaned(n) PROVE Owners'
  BY <1>5, OwnersKept DEF Orphaned
<1> QED BY <1>1, <1>2, <1>3, <1>4, <1>5, HandOverOwners, TakeOverOwners, TakeOverFailsOwners
        DEF Next, Process

LEMMA InitOwners == Init => Owners
<1> SUFFICES ASSUME Init PROVE Owners
  OBVIOUS
<1>1. \A p \in Player : fifo[p] = <<>> /\ (P[p].id # None => P[p].id = p)
  <2>1. \A p \in Player : P[p] = IF p \in Real THEN [NoStatus EXCEPT !.id = p, !.HP = Health[p]] ELSE NoStatus
    BY DEF Init
  <2> QED BY <2>1 DEF Init, NoStatus
<1>2. DOMAIN <<>> = {}
  OBVIOUS
<1> QED BY <1>1, <1>2 DEF Owners

\* A real player is one process at a time: whatever the order in which losers write
\* to the FIFOs and agents read them, and whoever fails on the way, no two processes
\* fight for one player, nor does one that is still waiting in a FIFO.
THEOREM OnePlayerOneProcess == Spec => []OneOwner
<1>1. Owners /\ Sound => OneOwner
  <2> SUFFICES ASSUME Owners, Sound, NEW i \in Real
               PROVE  Cardinality(Acting(i)) + Cardinality(Entrusted(i)) <= 1
    BY DEF OneOwner
  <2>1. i # None
    BY ChildrenAreNodes
  <2>2. \A p, q \in Acting(i) : p = q
    BY <2>1 DEF Owners, Acting
  <2>3. \A p, q \in Entrusted(i) : p = q
    BY DEF Owners, Entrusted
  <2>4. \A p \in Acting(i) : \A q \in Entrusted(i) : FALSE
    BY DEF Owners, Acting, Entrusted
  <2>5. \A S : (\A p, q \in S : p = q) => S = {} \/ \E p : S = {p}
    OBVIOUS
  <2>6. Cardinality({}) = 0 /\ \A p : Cardinality({p}) = 1
    BY FS_EmptySet, FS_Singleton
  <2>7. /\ Acting(i) = {} \/ \E p : Acting(i) = {p}
        /\ Entrusted(i) = {} \/ \E p : Entrusted(i) = {p}
        /\ Acting(i) = {} \/ Entrusted(i) = {}
    BY <2>2, <2>3, <2>4, <2>5
  <2> DEFINE a == Cardinality(Acting(i))
             e == Cardinality(Entrusted(i))
  <2>8. (a = 0 \/ a = 1) /\ (e = 0 \/ e = 1) /\ (a = 0 \/ e = 0)
    BY <2>6, <2>7
  <2> HIDE DEF a, e
  <2>9. a + e <= 1
    BY <2>8
  <2> QED BY <2>9 DEF a, e
<1> QED BY <1>1, InitOwners, NextOwners, AlwaysSound, PTL DEF Spec
=============================================================================
