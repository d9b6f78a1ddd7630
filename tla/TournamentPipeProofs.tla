------------------------ MODULE TournamentPipeProofs ------------------------
(***************************************************************************)
(* Proofs about what goes through the pipes of Tournament: one status at a *)
(* time, and one that can still fight as long as no process has failed;    *)
(* and when one has, no champion is ever crowned.  And about who is out:   *)
(* whoever has lost two battles, or the last, and nobody else.             *)
(***************************************************************************)
EXTENDS TournamentProofs

-----------------------------------------------------------------------------
(* One status at a time. *)

Empty(n) == up[n] = <<>> /\ down[n] = <<>>

\* The parent of n has a status of n's and owes it an answer.
AtParent(n) ==
  \E b \in Battle : \/ pc[b] = "right" /\ n = Left[b]
                    \/ pc[b] = "feedback" /\ n = winner[b]

\* n has its status, or none, and will not let go of it before it moves on.
AtHome(n) ==
  \/ n \in Player /\ (pc[n] = "send" \/ P[n] = NoStatus)
  \/ n \in Battle /\ pc[n] \in {"left", "right", "reap"}
  \/ n \in Battle /\ pc[n] = "relay" /\ (n # Root => ~ Gone(Above[n]))

Token(n) ==
  /\ Len(up[n]) + Len(down[n]) <= 1
  /\ AtParent(n) => Empty(n)
  /\ AtHome(n) => Empty(n) /\ ~ AtParent(n)

Tokens == (\A n \in Node : Token(n)) /\ pc[Root] \notin {"relay", "feedback"}

-----------------------------------------------------------------------------
(* The tree. *)

LEMMA OneParent ==
  ASSUME NEW b \in Battle, NEW n, n = Left[b] \/ n = Right[b]
  PROVE  /\ n \in Node \ {Root} /\ Parent(n) = b
         /\ \A c \in Battle : (n = Left[c] \/ n = Right[c]) => c = b
         /\ \A c \in Battle : n = Left[c] => n = Left[b]
         /\ b \in Above[n] /\ n \in Below[n]
<1>1. n \in Node \ {Root}
  BY ChildrenAreNodes, TreeAssumption
<1>2. \A c \in Battle : (n = Left[c] \/ n = Right[c]) => c = b
  BY TreeAssumption
<1>3. \A c \in Battle : n = Left[c] => n = Left[b]
  BY TreeAssumption
<1>4. Parent(n) = b
  BY <1>2 DEF Parent
<1> QED BY <1>1, <1>2, <1>3, <1>4 DEF Above, Below

LEMMA NotItsOwnChild ==
  ASSUME NEW b \in Battle
  PROVE  Left[b] # b /\ Right[b] # b
<1> SUFFICES ASSUME Left[b] = b \/ Right[b] = b PROVE FALSE
  OBVIOUS
<1> DEFINE S == Node \ {b}
<1>1. b # Root /\ Root \in S
  BY OneParent, ChildrenAreNodes
<1>2. \A c \in S \cap Battle : Left[c] \in S /\ Right[c] \in S
  BY OneParent, ChildrenAreNodes
<1>3. S \in Closed
  BY <1>2 DEF Closed
<1> QED BY <1>1, <1>3, TreeAssumption, ChildrenAreNodes

LEMMA HasParent ==
  ASSUME NEW n \in Node, n # Root
  PROVE  \E b \in Battle : n = Left[b] \/ n = Right[b]
BY DEF Node

LEMMA AboveAreNodes ==
  ASSUME NEW n \in Node, n # Root
  PROVE  Above[n] \subseteq Node
<1>1. PICK b \in Battle : n = Left[b] \/ n = Right[b]
  BY HasParent
<1>2. Parent(n) = b /\ Right[b] \in Node
  BY <1>1, OneParent, ChildrenAreNodes
<1>3. Inherits(n) \subseteq Node
  BY <1>2 DEF Inherits, Subtree
<1> QED BY <1>2, <1>3, ChildrenAreNodes DEF Above

\* Whoever has nobody above it any more never will.
LEMMA GoneStays ==
  ASSUME Sound, [Next]_vars, NEW n \in Node, n # Root, Gone(Above[n])
  PROVE  Gone(Above[n])'
BY AboveAreNodes, ExitedStays DEF Gone

-----------------------------------------------------------------------------
(* Where the one status of a child is. *)

ParentsHold ==
  \A b \in Battle : \A n \in {Left[b], Right[b]} :
    AtParent(n) <=> \/ pc[b] = "right" /\ n = Left[b]
                    \/ pc[b] = "feedback" /\ n = winner[b]

LEMMA AtParentBy == Battles => ParentsHold
<1> SUFFICES ASSUME Battles, NEW b \in Battle, NEW n \in {Left[b], Right[b]}, AtParent(n)
             PROVE  \/ pc[b] = "right" /\ n = Left[b]
                    \/ pc[b] = "feedback" /\ n = winner[b]
  BY DEF AtParent, ParentsHold
<1>1. PICK c \in Battle : \/ pc[c] = "right" /\ n = Left[c]
                          \/ pc[c] = "feedback" /\ n = winner[c]
  BY DEF AtParent
<1>2. n = Left[c] \/ n = Right[c]
  BY <1>1 DEF Battles
<1>3. c = b
  BY <1>2, OneParent
<1> QED BY <1>1, <1>3

LEMMA ChildAtParent ==
  ASSUME Sound, Sound', NEW b \in Battle, NEW n \in {Left[b], Right[b]}
  PROVE  /\ AtParent(n) <=> \/ pc[b] = "right" /\ n = Left[b]
                            \/ pc[b] = "feedback" /\ n = winner[b]
         /\ AtParent(n)' <=> \/ pc'[b] = "right" /\ n = Left[b]
                             \/ pc'[b] = "feedback" /\ n = winner'[b]
<1>1. ParentsHold
  BY AtParentBy DEF Sound
<1>2. (Battles => ParentsHold)'
  BY AtParentBy, PTL
<1>3. ParentsHold'
  BY <1>2 DEF Sound
<1> QED BY <1>1, <1>3 DEF ParentsHold

\* Only its parent can take the status of n away from it.
LEMMA AtParentKept ==
  ASSUME Sound, Sound', NEW m \in Node, NEW n \in Node,
         \A c \in Battle \ {m} : pc'[c] = pc[c] /\ winner'[c] = winner[c],
         m \in Battle => n # Left[m] /\ n # Right[m]
  PROVE  AtParent(n)' <=> AtParent(n)
<1>1. ASSUME AtParent(n) PROVE AtParent(n)'
  <2>1. PICK c \in Battle : \/ pc[c] = "right" /\ n = Left[c]
                            \/ pc[c] = "feedback" /\ n = winner[c]
    BY <1>1 DEF AtParent
  <2>2. n = Left[c] \/ n = Right[c]
    BY <2>1 DEF Sound, Battles
  <2>3. c # m
    BY <2>2
  <2> QED BY <2>1, <2>3 DEF AtParent
<1>2. ASSUME AtParent(n)' PROVE AtParent(n)
  <2>1. PICK c \in Battle : \/ pc'[c] = "right" /\ n = Left[c]
                            \/ pc'[c] = "feedback" /\ n = winner'[c]
    BY <1>2 DEF AtParent
  <2>2. n = Left[c] \/ n = Right[c]
    BY <2>1 DEF Sound, Battles
  <2>3. c # m
    BY <2>2
  <2> QED BY <2>1, <2>3 DEF AtParent
<1> QED BY <1>1, <1>2

LEMMA AtHomeKept ==
  ASSUME Sound, [Next]_vars, NEW n \in Node, AtHome(n)',
         pc'[n] = pc[n] \/ pc'[n] = "exited" \/ (pc[n] = "reap" /\ pc'[n] = "relay"),
         n \in Player => P'[n] = P[n]
  PROVE  AtHome(n)
<1>1. n # Root /\ n \in Battle => (Gone(Above[n]) => Gone(Above[n])')
  BY GoneStays
<1> QED BY <1>1 DEF AtHome

LEMMA TokenKept ==
  ASSUME NEW n \in Node, Token(n), up'[n] = up[n], down'[n] = down[n],
         AtParent(n)' => AtParent(n), AtHome(n)' => AtHome(n)
  PROVE  Token(n)'
BY DEF Token, Empty

\* A pipe and the one back.
LEMMA OneStatus ==
  ASSUME NEW u \in Seq(Status), NEW d \in Seq(Status)
  PROVE  /\ u # <<>> /\ Len(u) + Len(d) <= 1 => d = <<>> /\ Tail(u) = <<>>
         /\ d # <<>> /\ Len(u) + Len(d) <= 1 => u = <<>> /\ Tail(d) = <<>>
         /\ u = <<>> /\ d = <<>> => Len(u) + Len(d) <= 1
         /\ \A s \in Status : u = <<>> /\ d = <<>> =>
              Len(Append(u, s)) + Len(d) <= 1 /\ Len(u) + Len(Append(d, s)) <= 1
<1>1. Len(u) \in Nat /\ Len(d) \in Nat /\ (u = <<>> <=> Len(u) = 0) /\ (d = <<>> <=> Len(d) = 0)
  OBVIOUS
<1>2. u # <<>> => Tail(u) \in Seq(Status) /\ Len(Tail(u)) = Len(u) - 1
  OBVIOUS
<1>3. d # <<>> => Tail(d) \in Seq(Status) /\ Len(Tail(d)) = Len(d) - 1
  OBVIOUS
<1>4. \A q \in Seq(Status) : Len(q) = 0 => q = <<>>
  OBVIOUS
<1>5. \A s \in Status : Len(Append(u, s)) = Len(u) + 1 /\ Len(Append(d, s)) = Len(d) + 1
  OBVIOUS
<1>6. u # <<>> /\ Len(u) + Len(d) <= 1 => d = <<>> /\ Tail(u) = <<>>
  BY <1>1, <1>2, <1>4
<1>7. d # <<>> /\ Len(u) + Len(d) <= 1 => u = <<>> /\ Tail(d) = <<>>
  BY <1>1, <1>3, <1>4
<1> QED BY <1>1, <1>5, <1>6, <1>7

\* A status that is on its way is nowhere else.
LEMMA OnItsWay ==
  ASSUME Sound, NEW n \in Node, Token(n)
  PROVE  /\ up[n] # <<>> => down[n] = <<>> /\ Tail(up[n]) = <<>> /\ ~ AtParent(n) /\ ~ AtHome(n)
         /\ down[n] # <<>> => up[n] = <<>> /\ Tail(down[n]) = <<>> /\ ~ AtParent(n) /\ ~ AtHome(n)
<1>1. up[n] \in Seq(Status) /\ down[n] \in Seq(Status)
  BY DEF Sound, TypeOK
<1>2. Len(up[n]) + Len(down[n]) <= 1 /\ (AtParent(n) \/ AtHome(n) => up[n] = <<>> /\ down[n] = <<>>)
  BY DEF Token, Empty
<1> QED BY <1>1, <1>2, OneStatus

\* A status is in one place: none in the pipes, or one there and none elsewhere.
LEMMA TokenThere ==
  \A n \in Node : \/ Empty(n) /\ ~ (AtHome(n) /\ AtParent(n))
                  \/ Len(up[n]) + Len(down[n]) <= 1 /\ ~ AtHome(n) /\ ~ AtParent(n)
                  => Token(n)
<1> SUFFICES ASSUME NEW n \in Node, Empty(n), ~ (AtHome(n) /\ AtParent(n)) PROVE Token(n)
  BY DEF Token
<1>1. Len(up[n]) + Len(down[n]) <= 1
  BY DEF Empty
<1> QED BY <1>1 DEF Token

-----------------------------------------------------------------------------
(* One status at a time, whoever moves. *)

LEMMA RootStays ==
  ASSUME Sound, Tokens, [Next]_vars
  PROVE  pc'[Root] \notin {"relay", "feedback"}
<1>1. /\ pc \in [Node -> {"send", "wait", "lost", "left", "right", "reap",
                          "relay", "feedback", "exited"}]
      /\ Root \in Node /\ Root \notin Player /\ Root \in Battle
      /\ pc[Root] \notin {"relay", "feedback"}
  BY ChildrenAreNodes DEF Sound, TypeOK, Tokens
<1>2. CASE UNCHANGED vars
  BY <1>1, <1>2 DEF vars
<1>3. ASSUME NEW p \in Player, Send(p) \/ Receive(p) \/ HandOver(p) \/ TakeOver(p) \/ HandOverFails(p) \/ TakeOverFails(p)
      PROVE  pc'[Root] = pc[Root]
  BY <1>1, <1>3 DEF Send, Receive, HandOver, TakeOver, HandOverFails, TakeOverFails
<1>4. ASSUME NEW b \in Battle, ReadLeft(b) \/ ReadRight(b) \/ ReadLeftEnd(b) \/ ReadRightEnd(b)
      PROVE  pc'[Root] \notin {"relay", "feedback"}
  BY <1>1, <1>4, ChildrenAreNodes DEF ReadLeft, ReadRight, ReadLeftEnd, ReadRightEnd
<1>5. ASSUME NEW b \in Battle, Reap(b) \/ Finish(b) \/ RelayUp(b) \/ RelayDown(b) \/ FeedbackEnd(b)
      PROVE  pc'[Root] \notin {"relay", "feedback"}
  BY <1>1, <1>5, ChildrenAreNodes DEF Reap, Finish, RelayUp, RelayDown, FeedbackEnd
<1>6. ASSUME NEW m \in Node, Orphaned(m)
      PROVE  pc'[Root] \notin {"relay", "feedback"}
  BY <1>1, <1>6 DEF Orphaned
<1> QED BY <1>1, <1>2, <1>3, <1>4, <1>5, <1>6 DEF Next, Process

LEMMA PipeTypes ==
  ASSUME Sound, NEW n \in Node
  PROVE  up[n] \in Seq(Status) /\ down[n] \in Seq(Status)
BY DEF Sound, TypeOK

\* A player that moves leaves all pipes but its own alone.
LEMMA PlayerTokens ==
  ASSUME Sound, Sound', Tokens, [Next]_vars, NEW p \in Player, Process(p) \/ HandOverFails(p) \/ TakeOverFails(p)
  PROVE  \A n \in Node : Token(n)'
<1>1. p \in Node /\ p \notin Battle /\ Token(p)
  BY ChildrenAreNodes DEF Tokens
<1>2. /\ \A c \in Battle : pc'[c] = pc[c] /\ winner'[c] = winner[c]
      /\ \A n \in Node \ {p} : pc'[n] = pc[n] /\ up'[n] = up[n] /\ down'[n] = down[n]
      /\ \A n \in Player \ {p} : P'[n] = P[n]
  <2>1. /\ pc \in [Node -> {"send", "wait", "lost", "left", "right", "reap", "relay", "feedback", "exited"}]
        /\ up \in [Node -> Seq(Status)] /\ down \in [Node -> Seq(Status)]
        /\ P \in [Player -> Status \cup {NoStatus}]
    BY DEF Sound, TypeOK
  <2>2. \E v : pc' = [pc EXCEPT ![p] = v]
    BY <1>1, GetsItsOwn DEF Process, Send, Receive, HandOver, TakeOver, HandOverFails, TakeOverFails, Orphaned
  <2>3. /\ UNCHANGED winner
        /\ UNCHANGED up \/ \E q : up' = [up EXCEPT ![p] = q]
        /\ UNCHANGED down \/ \E q : down' = [down EXCEPT ![p] = q]
    BY <1>1 DEF Process, Send, Receive, HandOver, TakeOver, HandOverFails, TakeOverFails, Orphaned, pipes
  <2>4. UNCHANGED P \/ \E y : P' = [P EXCEPT ![p] = y]
    BY <1>1, GetsItsOwn DEF Process, Send, HandOver, TakeOver, HandOverFails, TakeOverFails, Orphaned
  <2> QED BY <1>1, <2>1, <2>2, <2>3, <2>4, ChildrenAreNodes
<1>3. \A n \in Node : AtParent(n)' <=> AtParent(n)
  BY <1>1, <1>2, AtParentKept
<1>4. ASSUME NEW n \in Node, n # p PROVE Token(n)'
  <2>1. AtHome(n)' => AtHome(n)
    BY <1>2, <1>4, AtHomeKept
  <2> QED BY <1>2, <1>3, <1>4, <2>1, TokenKept DEF Tokens
<1> SUFFICES Token(p)'
  BY <1>4
<1>5. CASE Send(p)
  <2>1. Empty(p) /\ ~ AtParent(p)
    BY <1>1, <1>5 DEF Token, AtHome, Send
  <2>2. /\ up'[p] = Append(up[p], P[p]) /\ down'[p] = down[p] /\ P'[p] = P[p]
        /\ pc'[p] = "wait" /\ pc[p] = "send"
    BY <1>1, <1>5 DEF Send, Sound, TypeOK
  <2>3. P[p] # NoStatus /\ P[p] \in Status
    <3>1. P[p] # NoStatus
      BY <2>2 DEF Sound, Players
    <3> QED BY <3>1 DEF Sound, TypeOK
  <2>4. Len(up'[p]) + Len(down'[p]) <= 1
    BY <1>1, <2>1, <2>2, <2>3, PipeTypes, OneStatus DEF Empty
  <2>5. ~ AtHome(p)'
    BY <1>1, <2>2, <2>3 DEF AtHome
  <2> QED BY <1>1, <1>3, <2>1, <2>4, <2>5 DEF Token
<1>6. CASE Receive(p)
  <2>1. down[p] # <<>> /\ down'[p] = Tail(down[p]) /\ up'[p] = up[p]
    BY <1>1, <1>6 DEF Receive, Sound, TypeOK
  <2>2. up[p] = <<>> /\ Tail(down[p]) = <<>> /\ ~ AtParent(p)
    BY <1>1, <2>1, PipeTypes, OneStatus DEF Token, Empty
  <2>3. Len(up'[p]) + Len(down'[p]) <= 1
    BY <1>1, <2>1, <2>2, PipeTypes, OneStatus
  <2> QED BY <1>1, <1>3, <2>1, <2>2, <2>3 DEF Token, Empty
<1>7. CASE TakeOver(p)
  <2>1. Empty(p) /\ ~ AtParent(p) /\ UNCHANGED <<up, down>>
    BY <1>1, <1>7 DEF Token, AtHome, TakeOver, pipes
  <2> QED BY <1>1, <1>3, <2>1 DEF Token, Empty
<1>8. CASE HandOver(p) \/ HandOverFails(p) \/ TakeOverFails(p) \/ Orphaned(p)
  <2>1. UNCHANGED <<up, down, P>> /\ pc'[p] = "exited"
    BY <1>1, <1>8 DEF HandOver, HandOverFails, TakeOverFails, Orphaned, pipes, Sound, TypeOK
  <2>2. AtHome(p)' => AtHome(p)
    BY <1>1, <2>1, AtHomeKept
  <2> QED BY <1>1, <1>3, <2>1, <2>2, TokenKept
<1> QED BY <1>1, <1>5, <1>6, <1>7, <1>8 DEF Process

\* A battle that moves leaves alone what is neither its own nor its children's.
LEMMA BattleMoves ==
  ASSUME Sound, NEW b \in Battle, Process(b)
  PROVE  /\ \A n \in Node \ {b} : pc'[n] = pc[n]
         /\ \A c \in Battle \ {b} : winner'[c] = winner[c]
         /\ UNCHANGED P
         /\ \A n \in Node : n \notin {b, Left[b], Right[b]} => up'[n] = up[n] /\ down'[n] = down[n]
<1>1. b \in Node /\ b \notin Player
  BY ChildrenAreNodes
<1>2. /\ pc \in [Node -> {"send", "wait", "lost", "left", "right", "reap", "relay", "feedback", "exited"}]
      /\ up \in [Node -> Seq(Status)] /\ down \in [Node -> Seq(Status)]
      /\ winner \in [Battle -> Node \cup {None}]
  BY DEF Sound, TypeOK
<1>3. \E v : pc' = [pc EXCEPT ![b] = v]
  BY <1>1 DEF Process, ReadLeft, ReadRight, Reap, RelayUp, RelayDown, Finish, ReadLeftEnd, ReadRightEnd,
     FeedbackEnd, Orphaned
<1>4. UNCHANGED winner \/ \E v : winner' = [winner EXCEPT ![b] = v]
  BY <1>1 DEF Process, ReadLeft, ReadRight, Reap, RelayUp, RelayDown, Finish, ReadLeftEnd, ReadRightEnd,
     FeedbackEnd, Orphaned
<1>5. UNCHANGED P
  BY <1>1 DEF Process, ReadLeft, ReadRight, Reap, RelayUp, RelayDown, Finish, ReadLeftEnd, ReadRightEnd,
     FeedbackEnd, Orphaned
<1>6. ASSUME NEW n \in Node, n \notin {b, Left[b], Right[b]}
      PROVE  up'[n] = up[n] /\ down'[n] = down[n]
  <2>1. CASE ReadLeft(b) \/ ReadRight(b) \/ ReadRightEnd(b)
    BY <1>2, <1>6, <2>1 DEF ReadLeft, ReadRight, ReadRightEnd
  <2>2. CASE RelayUp(b) \/ RelayDown(b) \/ FeedbackEnd(b)
    <3>1. winner[b] # n
      BY <1>6, <2>2 DEF RelayUp, RelayDown, FeedbackEnd, Sound, Battles
    <3> QED BY <1>2, <1>6, <2>2, <3>1 DEF RelayUp, RelayDown, FeedbackEnd
  <2>3. CASE Reap(b) \/ Finish(b) \/ ReadLeftEnd(b) \/ Orphaned(b)
    BY <2>3 DEF Reap, Finish, ReadLeftEnd, Orphaned, pipes
  <2> QED BY <1>1, <2>1, <2>2, <2>3 DEF Process
<1> QED BY <1>1, <1>2, <1>3, <1>4, <1>5, <1>6

LEMMA BattleTokens ==
  ASSUME Sound, Sound', Tokens, [Next]_vars, NEW b \in Battle, Process(b)
  PROVE  \A n \in Node : Token(n)'
<1>1. PICK l, r : l = Left[b] /\ r = Right[b]
  OBVIOUS
<1>2. /\ b \in Node /\ b \notin Player /\ l \in Node /\ r \in Node /\ l # r
      /\ Token(b) /\ Token(l) /\ Token(r)
      /\ b = Root => pc[b] \notin {"relay", "feedback"}
  BY <1>1, ChildrenAreNodes DEF Tokens
<1>3. /\ \A n \in Node \ {b} : pc'[n] = pc[n]
      /\ \A c \in Battle \ {b} : winner'[c] = winner[c] /\ pc'[c] = pc[c]
      /\ UNCHANGED P
      /\ \A n \in Node : n \notin {b, l, r} => up'[n] = up[n] /\ down'[n] = down[n]
  BY <1>1, BattleMoves, ChildrenAreNodes
<1>4. \A n \in Node : n \notin {l, r} => (AtParent(n)' <=> AtParent(n))
  BY <1>1, <1>2, <1>3, AtParentKept
<1>5. \A n \in {l, r} : /\ AtParent(n) <=> \/ pc[b] = "right" /\ n = l
                                           \/ pc[b] = "feedback" /\ n = winner[b]
                        /\ AtParent(n)' <=> \/ pc'[b] = "right" /\ n = l
                                            \/ pc'[b] = "feedback" /\ n = winner'[b]
  BY <1>1, ChildAtParent
<1>6. \A n \in Node \ {b} : AtHome(n)' => AtHome(n)
  BY <1>3, AtHomeKept
<1>7. \A n \in Node : n \notin {b, l, r} => Token(n)'
  BY <1>3, <1>4, <1>6, TokenKept DEF Tokens
<1>8. l # b /\ r # b
  BY <1>1, NotItsOwnChild
<1>9. \A n \in Node : \/ Empty(n)' /\ ~ (AtHome(n)' /\ AtParent(n)')
                      \/ Len(up'[n]) + Len(down'[n]) <= 1 /\ ~ AtHome(n)' /\ ~ AtParent(n)'
                      => Token(n)'
  <2>1. TokenThere!:'
    BY TokenThere, PTL
  <2> QED BY <2>1
<1>10. CASE ReadLeft(b)
  <2>1. /\ pc[b] = "left" /\ up[l] # <<>> /\ up' = [up EXCEPT ![l] = Tail(@)] /\ UNCHANGED down
        /\ pc'[b] = "right"
    BY <1>1, <1>2, <1>10 DEF ReadLeft, Sound, TypeOK
  <2>2. ~ AtHome(l) /\ down[l] = <<>> /\ Tail(up[l]) = <<>>
    BY <1>2, <2>1, OnItsWay
  <2>3. Empty(l)'
    BY <1>2, <2>1, <2>2 DEF Empty, Sound, TypeOK
  <2>4. Token(l)'
    BY <1>2, <1>6, <1>8, <1>9, <2>2, <2>3
  <2>5. up'[r] = up[r] /\ down'[r] = down[r] /\ up'[b] = up[b] /\ down'[b] = down[b]
    BY <1>2, <1>8, <2>1 DEF Sound, TypeOK
  <2>6. Token(r)'
    BY <1>2, <1>5, <1>6, <1>8, <2>1, <2>5, TokenKept
  <2>7. AtHome(b)
    BY <2>1 DEF AtHome
  <2>8. Token(b)'
    BY <1>2, <1>4, <1>8, <2>5, <2>7, TokenKept
  <2> QED BY <1>7, <2>4, <2>6, <2>8
<1>11. CASE ReadRight(b)
  <2>1. PICK s \in Status, t \in Status : Fought(b, l, r, s, t)
    BY <1>1, <1>11, RoundFought
  <2>2. /\ pc[b] = "right" /\ up[r] # <<>> /\ up' = [up EXCEPT ![r] = Tail(@)]
        /\ down' = [down EXCEPT ![l] = Append(@, s), ![r] = Append(@, t)]
        /\ pc'[b] \in {"left", "reap"}
    BY <1>2, <2>1 DEF Fought, Sound, TypeOK
  <2>3. up[l] = <<>> /\ down[l] = <<>> /\ ~ AtHome(l)
    BY <1>2, <1>5, <2>2 DEF Token, Empty
  <2>4. down[r] = <<>> /\ Tail(up[r]) = <<>> /\ ~ AtHome(r)
    BY <1>2, <2>2, OnItsWay
  <2>5. /\ up'[l] = up[l] /\ down'[l] = Append(down[l], s) /\ up'[b] = up[b] /\ down'[b] = down[b]
        /\ up'[r] = Tail(up[r]) /\ down'[r] = Append(down[r], t)
    BY <1>2, <1>8, <2>2 DEF Sound, TypeOK
  <2>6. \A n \in {l, r} : Len(up'[n]) + Len(down'[n]) <= 1
    BY <1>2, <2>3, <2>4, <2>5, PipeTypes, OneStatus
  <2>7. Token(l)' /\ Token(r)'
    BY <1>2, <1>5, <1>6, <1>8, <1>9, <2>2, <2>3, <2>4, <2>6
  <2>8. AtHome(b)
    BY <2>2 DEF AtHome
  <2>9. Token(b)'
    BY <1>2, <1>4, <1>8, <2>5, <2>8, TokenKept
  <2> QED BY <1>7, <2>7, <2>9
<1>12. CASE RelayUp(b)
  <2>1. PICK w \in Node : w = winner[b] /\ (w = l \/ w = r)
    BY <1>1, <1>2, <1>12 DEF RelayUp, Sound, Battles
  <2>2. /\ pc[b] = "relay" /\ up[w] # <<>> /\ UNCHANGED down /\ w # b
        /\ up' = [up EXCEPT ![w] = Tail(@), ![b] = Append(@, Head(up[w]))]
        /\ pc'[b] = "feedback" /\ winner'[b] = w /\ ~ Gone(Above[b])
    BY <1>2, <1>8, <1>12, <2>1 DEF RelayUp, Sound, TypeOK
  <2>3. AtHome(b)
    BY <2>2 DEF AtHome
  <2>4. up[b] = <<>> /\ down[b] = <<>> /\ ~ AtParent(b)
    BY <1>2, <2>3 DEF Token, Empty
  <2>5. down[w] = <<>> /\ Tail(up[w]) = <<>> /\ ~ AtHome(w) /\ Head(up[w]) \in Status
    BY <1>2, <2>1, <2>2, OnItsWay, PipeTypes, TakenOut
  <2>6. /\ up'[w] = Tail(up[w]) /\ up'[b] = Append(up[b], Head(up[w]))
        /\ down'[w] = down[w] /\ down'[b] = down[b]
        /\ \A n \in Node \ {w, b} : up'[n] = up[n] /\ down'[n] = down[n]
    BY <1>2, <2>1, <2>2 DEF Sound, TypeOK
  <2>7. Token(w)'
    BY <1>6, <1>9, <2>1, <2>2, <2>5, <2>6 DEF Empty
  <2>8. Token(b)'
    <3>1. Len(up'[b]) + Len(down'[b]) <= 1
      BY <1>2, <2>4, <2>5, <2>6, PipeTypes, OneStatus
    <3>2. ~ AtHome(b)'
      BY <1>2, <2>2 DEF AtHome
    <3> QED BY <1>2, <1>4, <1>8, <1>9, <2>4, <3>1, <3>2
  <2>9. ASSUME NEW n \in {l, r}, n # w PROVE Token(n)'
    BY <1>2, <1>5, <1>6, <1>8, <2>1, <2>2, <2>6, <2>9, TokenKept
  <2> QED BY <1>7, <2>7, <2>8, <2>9
<1>13. CASE RelayDown(b)
  <2>1. PICK w \in Node : w = winner[b] /\ (w = l \/ w = r)
    BY <1>1, <1>2, <1>13 DEF RelayDown, Sound, Battles
  <2>2. /\ pc[b] = "feedback" /\ down[b] # <<>> /\ UNCHANGED up /\ w # b
        /\ down' = [down EXCEPT ![b] = Tail(@), ![w] = Append(@, Head(down[b]))]
        /\ pc'[b] = "relay"
    BY <1>2, <1>8, <1>13, <2>1 DEF RelayDown, Sound, TypeOK
  <2>3. /\ up[b] = <<>> /\ Tail(down[b]) = <<>> /\ ~ AtParent(b)
        /\ Head(down[b]) \in Status
    BY <1>2, <2>2, OnItsWay, PipeTypes, TakenOut
  <2>4. up[w] = <<>> /\ down[w] = <<>> /\ ~ AtHome(w)
    BY <1>5, <2>1, <2>2, <1>2 DEF Token, Empty
  <2>5. /\ down'[b] = Tail(down[b]) /\ down'[w] = Append(down[w], Head(down[b]))
        /\ up'[w] = up[w] /\ up'[b] = up[b]
        /\ \A n \in Node \ {w, b} : up'[n] = up[n] /\ down'[n] = down[n]
    BY <1>2, <2>1, <2>2 DEF Sound, TypeOK
  <2>6. Token(w)'
    <3>1. Len(up'[w]) + Len(down'[w]) <= 1
      BY <2>1, <2>3, <2>4, <2>5, PipeTypes, OneStatus
    <3> QED BY <1>5, <1>6, <1>9, <2>1, <2>2, <2>4, <3>1
  <2>7. Token(b)'
    BY <1>2, <1>4, <1>8, <1>9, <2>3, <2>5 DEF Empty
  <2>8. ASSUME NEW n \in {l, r}, n # w PROVE Token(n)'
    BY <1>2, <1>5, <1>6, <1>8, <2>1, <2>2, <2>5, <2>8, TokenKept
  <2> QED BY <1>7, <2>6, <2>7, <2>8
<1>14. CASE FeedbackEnd(b)
  <2>1. PICK w \in Node : w = winner[b] /\ (w = l \/ w = r) /\ held[w].id # None
    BY <1>1, <1>2, <1>14 DEF FeedbackEnd, Sound, Battles
  <2>2. /\ pc[b] = "feedback" /\ down[b] = <<>> /\ UNCHANGED up /\ w # b
        /\ down' = [down EXCEPT ![w] = Append(@, held[w])]
        /\ pc'[b] = "relay" /\ Gone(Above[b]) /\ b # Root
    BY <1>2, <1>8, <1>14, <2>1 DEF FeedbackEnd, Sound, TypeOK
  <2>3. held[w] \in Status
    BY <2>1, StatusThere DEF Sound, TypeOK
  <2>4. up[w] = <<>> /\ down[w] = <<>> /\ ~ AtHome(w)
    BY <1>5, <2>1, <2>2, <1>2 DEF Token, Empty
  <2>5. /\ down'[w] = Append(down[w], held[w]) /\ up'[w] = up[w]
        /\ \A n \in Node \ {w} : up'[n] = up[n] /\ down'[n] = down[n]
    BY <1>2, <2>1, <2>2 DEF Sound, TypeOK
  <2>6. Token(w)'
    <3>1. Len(up'[w]) + Len(down'[w]) <= 1
      BY <2>1, <2>3, <2>4, <2>5, PipeTypes, OneStatus
    <3> QED BY <1>5, <1>6, <1>9, <2>1, <2>2, <2>4, <3>1
  <2>7. ~ AtHome(b)'
    BY <1>2, <2>2, GoneStays DEF AtHome
  <2>8. Token(b)'
    BY <1>2, <1>4, <1>8, <2>2, <2>5, <2>7, TokenKept
  <2>9. ASSUME NEW n \in {l, r}, n # w PROVE Token(n)'
    BY <1>2, <1>5, <1>6, <1>8, <2>1, <2>2, <2>5, <2>9, TokenKept
  <2> QED BY <1>7, <2>6, <2>8, <2>9
<1>15. CASE ReadRightEnd(b)
  <2>1. /\ pc[b] = "right" /\ UNCHANGED up /\ held[l].id # None /\ pc'[b] = "exited"
        /\ \E h \in Garbage \cup {held[l].HP}, e \in {0, 1} :
             down' = [down EXCEPT ![l] = Append(@, [held[l] EXCEPT !.HP = h, !.battle = b, !.ended = e])]
    BY <1>1, <1>2, <1>15 DEF ReadRightEnd, Sound, TypeOK, Battles
  <2>2. held[l] \in Status
    BY <1>2, <2>1, StatusThere DEF Sound, TypeOK
  <2>3. PICK s \in Status : down' = [down EXCEPT ![l] = Append(@, s)]
    <3>1. \A h \in Garbage \cup {held[l].HP}, e \in {0, 1} :
            [held[l] EXCEPT !.HP = h, !.battle = b, !.ended = e] \in Status
      <4>1. \A h \in Garbage \cup {held[l].HP} : h \in Int
        BY <2>2, TreeAssumption DEF Status
      <4> QED BY <2>2, <4>1 DEF Status
    <3> QED BY <2>1, <3>1
  <2>4. up[l] = <<>> /\ down[l] = <<>> /\ ~ AtHome(l)
    BY <1>5, <1>2, <2>1 DEF Token, Empty
  <2>5. /\ down'[l] = Append(down[l], s) /\ up'[l] = up[l]
        /\ \A n \in Node \ {l} : up'[n] = up[n] /\ down'[n] = down[n]
    BY <1>2, <2>1, <2>3 DEF Sound, TypeOK
  <2>6. Token(l)'
    <3>1. Len(up'[l]) + Len(down'[l]) <= 1
      BY <1>2, <2>4, <2>5, PipeTypes, OneStatus
    <3> QED BY <1>2, <1>5, <1>6, <1>8, <1>9, <2>1, <2>4, <3>1
  <2>7. ~ AtHome(b)'
    BY <1>2, <2>1 DEF AtHome
  <2>8. Token(b)'
    BY <1>2, <1>4, <1>8, <2>5, <2>7, TokenKept
  <2>9. Token(r)'
    BY <1>2, <1>5, <1>6, <1>8, <2>1, <2>5, TokenKept
  <2> QED BY <1>7, <2>6, <2>8, <2>9
<1>16. CASE Reap(b) \/ Finish(b) \/ ReadLeftEnd(b) \/ Orphaned(b)
  <2>1. /\ UNCHANGED <<up, down>>
        /\ pc'[b] = "exited" \/ (pc[b] = "reap" /\ pc'[b] = "relay")
    BY <1>2, <1>16 DEF Reap, Finish, ReadLeftEnd, Orphaned, pipes, Sound, TypeOK
  <2>2. AtHome(b)' => AtHome(b)
    BY <1>2, <2>1, AtHomeKept
  <2>3. Token(b)'
    BY <1>2, <1>4, <1>8, <2>1, <2>2, TokenKept
  <2>4. ASSUME NEW n \in {l, r} PROVE Token(n)'
    BY <1>2, <1>5, <1>6, <1>8, <2>1, <2>4, TokenKept
  <2> QED BY <1>7, <2>3, <2>4
<1> QED BY <1>2, <1>10, <1>11, <1>12, <1>13, <1>14, <1>15, <1>16 DEF Process

LEMMA InitTokens == Init => Tokens
<1> SUFFICES ASSUME Init PROVE Tokens
  OBVIOUS
<1>1. \A n \in Node : up[n] = <<>> /\ down[n] = <<>>
  BY DEF Init
<1>2. \A b \in Battle : pc[b] \in {"left", "exited"}
  BY ChildrenAreNodes DEF Init
<1>3. \A n \in Node : Empty(n) /\ ~ AtParent(n)
  BY <1>1, <1>2 DEF Empty, AtParent
<1> QED BY <1>2, <1>3, TokenThere, ChildrenAreNodes DEF Tokens

LEMMA NextTokens == Sound /\ Tokens /\ [Next]_vars => Tokens'
<1> SUFFICES ASSUME Sound, Tokens, [Next]_vars PROVE Tokens'
  OBVIOUS
<1>1. Sound'
  BY NextSound
<1>2. pc'[Root] \notin {"relay", "feedback"}
  BY RootStays
<1>3. \A n \in Node : Token(n)'
  <2>1. CASE UNCHANGED vars
    <3>1. \A n \in Node : Token(n)' <=> Token(n)
      BY <2>1 DEF vars, pipes, Token, Empty, AtParent, AtHome, Gone
    <3> QED BY <3>1 DEF Tokens
  <2>2. ASSUME NEW p \in Player, HandOverFails(p) \/ TakeOverFails(p)
        PROVE  \A n \in Node : Token(n)'
    BY <1>1, <2>2, PlayerTokens
  <2>3. ASSUME NEW m \in Node, Process(m)
        PROVE  \A n \in Node : Token(n)'
    BY <1>1, <2>3, PlayerTokens, BattleTokens, ChildrenAreNodes
  <2> QED BY <2>1, <2>2, <2>3 DEF Next
<1> QED BY <1>2, <1>3 DEF Tokens

LEMMA AlwaysTokens == Spec => []Tokens
BY InitTokens, NextTokens, AlwaysSound, PTL DEF Spec

\* Between a child and its parent there is one status at a time, the child's own,
\* whatever battles it is relayed through and whoever fails: neither of them can
\* take a status it has sent for the answer to it.
THEOREM PipesPingPong == Spec => []PingPong
<1>1. Sound /\ Tokens => PingPong
  <2> SUFFICES ASSUME Sound, Tokens, NEW n \in Node \ {Root}
               PROVE  /\ Len(up[n]) + Len(down[n]) <= 1
                      /\ \A k \in DOMAIN up[n] : up[n][k].id = Id(n)
                      /\ \A k \in DOMAIN down[n] : down[n][k].id = Id(n)
    BY DEF PingPong
  <2>1. Len(up[n]) + Len(down[n]) <= 1
    BY DEF Tokens, Token
  <2>2. \A i \in Name(n) : i = Id(n)
    BY DEF Name, Id
  <2>3. Ids(up[n]) \subseteq Name(n) /\ Ids(down[n]) \subseteq Name(n)
    BY DEF Sound, Names
  <2> QED BY <2>1, <2>2, <2>3 DEF Ids
<1> QED BY <1>1, AlwaysSound, AlwaysTokens, PTL

-----------------------------------------------------------------------------
(* As long as nobody fails, nobody leaves before its time, and every       *)
(* status that goes up can fight.                                          *)

Fresh(s) == s.ended = 0 /\ s.HP \in 1 .. Health[s.id]
Over(s) == s # NoStatus /\ Through(s)

\* What goes up can fight; what comes down is what the parent holds; and a child that
\* is out sends nothing more.
Carries(n) ==
  /\ \A k \in DOMAIN up[n] : Fresh(up[n][k])
  /\ \A k \in DOMAIN down[n] : down[n][k] = held[n]
  /\ AtParent(n) => Fresh(held[n])
  /\ held[n] # NoStatus => held[n].HP <= Health[held[n].id] /\ (held[n].ended = 0 => held[n].HP > 0)
  /\ Over(held[n]) => up[n] = <<>> /\ ~ AtParent(n)

\* A player stops when its parent knows that it is out, and not before.
Plays(p) ==
  /\ pc[p] = "send" => Fresh(P[p]) /\ ~ Over(held[p])
  /\ pc[p] = "lost" => P[p].ended = 0
  /\ pc[p] \in {"lost", "exited"} => Over(held[p])
  /\ \A k \in DOMAIN fifo[p] : fifo[p][k].ended = 0

\* So does a battle, together with the winner it relays for, when all below it is done.
Runs(b) ==
  /\ pc[b] \in {"left", "right", "reap"} => held[b] = NoStatus
  /\ pc[b] \in {"left", "right"} => ~ Over(held[Left[b]]) /\ ~ Over(held[Right[b]])
  /\ b # Root /\ pc[b] \in {"reap", "relay"} => (Over(held[winner[b]]) <=> Over(held[b]))
  /\ b # Root /\ pc[b] = "exited" => Over(held[b])
  /\ pc[b] \in {"relay", "feedback"} => pc[Loser(b)] = "exited"
  /\ pc[b] = "exited" => pc[Left[b]] = "exited" /\ pc[Right[b]] = "exited"

AllWell == /\ \A n \in Node : Carries(n)
           /\ \A p \in Player : Plays(p)
           /\ \A b \in Battle : Runs(b)
Whole == failed = {} => AllWell

\* A round takes health away, from one at most all of it, and it is the end of the
\* battle for both or for neither.
LEMMA FightHurts ==
  ASSUME file \in Files, NEW b \in Battle, NEW l \in Status, NEW r \in Status,
         l.HP > 0, r.HP > 0, l.ended = 0, r.ended = 0
  PROVE  LET out == Fight(b, l, r)
         IN  /\ out[1].HP <= l.HP /\ out[2].HP <= r.HP /\ out[1].HP + out[2].HP < l.HP + r.HP
             /\ out[1].HP > 0 \/ out[2].HP > 0
             /\ out[1].HP > 0 /\ out[2].HP > 0 => out[1].ended = 0 /\ out[2].ended = 0
             /\ out[1].HP <= 0 \/ out[2].HP <= 0 => out[1].ended = 1 /\ out[2].ended = 1
<1>1. \A c \in Battle, s \in Status : Power(c, s) \in Nat \ {0}
  BY StrengthAssumption DEF Power, Attack, Status
<1>2. ASSUME NEW s1 \in Status, NEW s2 \in Status, s1.HP > 0, s2.HP > 0, s1.ended = 0, s2.ended = 0
      PROVE  \E u, v \in Status :
               /\ Round(b, s1, s2) = <<u, v>> /\ u.HP <= s1.HP /\ v.HP < s2.HP
               /\ u.HP > 0 \/ v.HP > 0
               /\ u.ended = 0 /\ v.ended = 0
  <2>1. ASSUME NEW s \in Status, NEW t \in Status
        PROVE  /\ Strike(b, s, t) \in Status /\ Strike(b, s, t).HP < t.HP
               /\ Strike(b, s, t).ended = t.ended
    <3>1. Power(b, s) \in Nat \ {0} /\ t.HP \in Int
      BY <1>1 DEF Status
    <3> QED BY <3>1 DEF Strike, Status
  <2> DEFINE hit == Strike(b, s1, s2)
             back == IF hit.HP > 0 THEN Strike(b, s2, s1) ELSE s1
  <2>2. Round(b, s1, s2) = <<back, hit>>
    BY DEF Round
  <2>3. hit \in Status /\ hit.HP < s2.HP /\ hit.ended = 0
    BY <1>2, <2>1
  <2> HIDE DEF hit
  <2>4. /\ back \in Status /\ back.HP <= s1.HP /\ back.ended = 0
        /\ back.HP > 0 \/ hit.HP > 0
    <3>1. CASE hit.HP > 0
      <4>1. back = Strike(b, s2, s1)
        BY <3>1
      <4>2. back.HP \in Int /\ s1.HP \in Int
        BY <2>1, <4>1 DEF Status
      <4> QED BY <1>2, <2>1, <3>1, <4>1, <4>2
    <3>2. CASE ~ (hit.HP > 0)
      <4>1. back = s1
        BY <3>2
      <4>2. s1.HP \in Int
        BY DEF Status
      <4> QED BY <1>2, <4>1, <4>2
    <3> QED BY <3>1, <3>2
  <2> HIDE DEF back
  <2> QED BY <2>2, <2>3, <2>4
<1> DEFINE o == Round(b, r, l)
           out == IF RightFirst(l, r) THEN <<o[2], o[1]>> ELSE Round(b, l, r)
           over == out[1].HP <= 0 \/ out[2].HP <= 0
           Label(s) == [s EXCEPT !.battle = b, !.ended = IF over THEN 1 ELSE @]
<1>3. PICK u \in Status, v \in Status :
        /\ out = <<u, v>> /\ u.HP <= l.HP /\ v.HP <= r.HP /\ u.HP + v.HP < l.HP + r.HP
        /\ u.HP > 0 \/ v.HP > 0
        /\ u.ended = 0 /\ v.ended = 0
  <2>1. CASE RightFirst(l, r)
    <3>1. PICK u \in Status, v \in Status :
            /\ o = <<u, v>> /\ u.HP <= r.HP /\ v.HP < l.HP
            /\ u.HP > 0 \/ v.HP > 0
            /\ u.ended = 0 /\ v.ended = 0
      BY <1>2
    <3> HIDE DEF o
    <3>2. out = <<v, u>>
      BY <2>1, <3>1
    <3>3. u.HP \in Int /\ v.HP \in Int /\ l.HP \in Int /\ r.HP \in Int
      BY DEF Status
    <3> QED BY <3>1, <3>2, <3>3
  <2>2. CASE ~ RightFirst(l, r)
    <3>1. PICK u \in Status, v \in Status :
            /\ out = <<u, v>> /\ u.HP <= l.HP /\ v.HP < r.HP
            /\ u.HP > 0 \/ v.HP > 0
            /\ u.ended = 0 /\ v.ended = 0
      BY <1>2, <2>2
    <3>2. u.HP \in Int /\ v.HP \in Int /\ l.HP \in Int /\ r.HP \in Int
      BY DEF Status
    <3> QED BY <3>1, <3>2
  <2> QED BY <2>1, <2>2
<1>4. Fight(b, l, r) = <<Label(out[1]), Label(out[2])>>
  BY DEF Fight
<1> HIDE DEF out
<1>5. out[1] = u /\ out[2] = v /\ (over <=> u.HP <= 0 \/ v.HP <= 0)
  BY <1>3
<1>6. ASSUME NEW s \in Status, s.ended = 0
      PROVE  Label(s).HP = s.HP /\ (over => Label(s).ended = 1) /\ (~ over => Label(s).ended = 0)
  BY <1>6 DEF Status
<1> HIDE DEF Label, over
<1>7. u.HP \in Int /\ v.HP \in Int
  BY DEF Status
<1> QED BY <1>3, <1>4, <1>5, <1>6, <1>7

-----------------------------------------------------------------------------
(* What a step leaves as it is. *)

LEMMA CarriesKept ==
  ASSUME NEW n \in Node, Carries(n), up'[n] = up[n], down'[n] = down[n], held'[n] = held[n],
         AtParent(n)' => AtParent(n), UNCHANGED file
  PROVE  Carries(n)'
BY DEF Carries, Fresh, Over, Through, Health

LEMMA PlaysKept ==
  ASSUME NEW p \in Player, Plays(p), pc'[p] = pc[p], P'[p] = P[p], fifo'[p] = fifo[p],
         held'[p] = held[p] \/ pc[p] = "wait", UNCHANGED file
  PROVE  Plays(p)'
BY DEF Plays, Fresh, Over, Through, Health

LEMMA RunsKept ==
  ASSUME Sound, [Next]_vars, NEW b \in Battle, Runs(b), pc'[b] = pc[b], winner'[b] = winner[b],
         \/ pc[b] = "feedback"
         \/ held'[b] = held[b] /\ held'[Left[b]] = held[Left[b]] /\ held'[Right[b]] = held[Right[b]]
  PROVE  Runs(b)'
<1>1. pc[Loser(b)] = "exited" => pc'[Loser(b)] = "exited"
  <2>1. Loser(b) \in Node
    BY ChildrenAreNodes DEF Loser
  <2> QED BY <2>1, ExitedStays
<1>2. Loser(b)' = Loser(b)
  BY DEF Loser
<1>3. \A n \in {Left[b], Right[b]} : pc[n] = "exited" => pc'[n] = "exited"
  BY ExitedStays, ChildrenAreNodes
<1>4. CASE pc[b] = "feedback"
  BY <1>1, <1>2, <1>4 DEF Runs
<1>5. CASE held'[b] = held[b] /\ held'[Left[b]] = held[Left[b]] /\ held'[Right[b]] = held[Right[b]]
  <2>1. pc[b] \in {"reap", "relay"} => held'[winner[b]] = held[winner[b]]
    BY <1>5 DEF Sound, Battles
  <2>2. \A s : Over(s)' <=> Over(s)
    BY DEF Over, Through
  <2> QED BY <1>1, <1>2, <1>3, <1>5, <2>1, <2>2 DEF Runs
<1> QED BY <1>4, <1>5

\* A child whose status is with its parent, or on the way there, waits for the answer.
LEMMA Away ==
  ASSUME Sound, Tokens, AllWell, NEW b \in Battle, pc[b] # "exited",
         NEW n \in Node, n = Left[b] \/ n = Right[b], up[n] # <<>> \/ AtParent(n)
  PROVE  /\ n \in Player => pc[n] = "wait"
         /\ n \in Battle => pc[n] = "feedback"
         /\ ~ Over(held[n]) /\ ~ AtHome(n) /\ down[n] = <<>>
<1>1. n # Root /\ b \in Above[n]
  BY OneParent
<1>2. ~ Over(held[n])
  BY DEF AllWell, Carries
<1>3. ~ AtHome(n) /\ down[n] = <<>>
  <2>1. CASE up[n] # <<>>
    BY <2>1, OnItsWay DEF Tokens
  <2>2. CASE AtParent(n)
    BY <2>2 DEF Tokens, Token, Empty
  <2> QED BY <2>1, <2>2
<1>4. n \in Player => pc[n] = "wait"
  BY <1>2, <1>3 DEF AllWell, Plays, AtHome, Sound, Players
<1>5. n \in Battle => pc[n] = "feedback"
  BY <1>1, <1>2, <1>3 DEF AllWell, Runs, AtHome, Gone, Sound, Battles
<1> QED BY <1>2, <1>3, <1>4, <1>5

\* Who is gone has told its parent.
LEMMA NobodyGone ==
  ASSUME Sound, Tokens, AllWell, NEW b \in Battle, NEW n \in Node, n = Left[b] \/ n = Right[b]
  PROVE  /\ pc[b] \in {"left", "right"} => pc[n] # "exited"
         /\ pc[n] # "exited" => ~ Gone(Above[n])
<1>1. n # Root /\ b \in Above[n]
  BY OneParent
<1>2. pc[n] = "exited" => Over(held[n])
  BY <1>1, ChildrenAreNodes DEF AllWell, Plays, Runs
<1>3. pc[b] \in {"left", "right"} => ~ Over(held[n])
  BY DEF AllWell, Runs
<1>4. pc[b] = "exited" => pc[n] = "exited"
  BY DEF AllWell, Runs
<1> QED BY <1>1, <1>2, <1>3, <1>4 DEF Gone

LEMMA NoEnds ==
  ASSUME Sound, Tokens, AllWell
  PROVE  /\ \A b \in Battle : ~ ReadLeftEnd(b) /\ ~ ReadRightEnd(b) /\ ~ FeedbackEnd(b)
         /\ \A n \in Node : ~ Orphaned(n)
<1>1. ASSUME NEW n \in Node, n # Root, Gone(Above[n]) PROVE pc[n] = "exited"
  BY <1>1, HasParent, NobodyGone
<1>2. ASSUME NEW n \in Node PROVE ~ Orphaned(n)
  BY <1>1 DEF Orphaned
<1>3. ASSUME NEW b \in Battle PROVE ~ FeedbackEnd(b)
  <2>1. pc[b] = "feedback" => b # Root
    BY DEF Tokens
  <2> QED BY <1>1, <2>1, ChildrenAreNodes DEF FeedbackEnd
<1>4. ASSUME NEW b \in Battle PROVE ~ ReadLeftEnd(b) /\ ~ ReadRightEnd(b)
  <2>1. Left[b] \in Below[Left[b]] /\ Right[b] \in Below[Right[b]]
    BY OneParent
  <2>2. pc[b] \in {"left", "right"} => pc[Left[b]] # "exited" /\ pc[Right[b]] # "exited"
    BY NobodyGone, ChildrenAreNodes
  <2> QED BY <2>1, <2>2 DEF ReadLeftEnd, ReadRightEnd, Gone
<1> QED BY <1>2, <1>3, <1>4

-----------------------------------------------------------------------------
(* All stays well. *)

\* A player that moves leaves what the others carry, play and run alone.
LEMMA PlayerWell ==
  ASSUME Sound, Sound', Tokens, AllWell, [Next]_vars, NEW p \in Player,
         NEW v, pc' = [pc EXCEPT ![p] = v], UNCHANGED <<held, winner, file>>,
         \A n \in Node \ {p} : up'[n] = up[n] /\ down'[n] = down[n],
         \A q \in Player \ {p} : P'[q] = P[q],
         Carries(p)', Plays(p)',
         \A q \in Player \ {p} : \A k \in DOMAIN fifo'[q] : fifo'[q][k].ended = 0
  PROVE  AllWell'
<1>1. p \in Node /\ p \notin Battle /\ pc \in [Node -> {"send", "wait", "lost", "left", "right", "reap",
                                                     "relay", "feedback", "exited"}]
  BY ChildrenAreNodes DEF Sound, TypeOK
<1>2. /\ \A c \in Battle : pc'[c] = pc[c] /\ winner'[c] = winner[c]
      /\ \A n \in Node \ {p} : pc'[n] = pc[n]
  BY <1>1
<1>3. \A n \in Node : AtParent(n)' <=> AtParent(n)
  BY <1>1, <1>2, AtParentKept
<1>4. \A n \in Node : Carries(n)'
  BY <1>3, CarriesKept DEF AllWell
<1>5. \A q \in Player : Plays(q)'
  <2> SUFFICES ASSUME NEW q \in Player, q # p PROVE Plays(q)'
    OBVIOUS
  <2>1. pc'[q] = pc[q] /\ P'[q] = P[q] /\ held'[q] = held[q]
    BY <1>2, ChildrenAreNodes
  <2> QED BY <2>1 DEF AllWell, Plays, Fresh, Over, Through, Health
<1>6. \A b \in Battle : Runs(b)'
  BY <1>2, RunsKept DEF AllWell
<1> QED BY <1>4, <1>5, <1>6 DEF AllWell

LEMMA SendWell ==
  ASSUME Sound, Sound', Tokens, AllWell, [Next]_vars, NEW p \in Player, Send(p)
  PROVE  AllWell'
<1>1. /\ p \in Node /\ p \notin Battle /\ Token(p) /\ Carries(p) /\ Plays(p)
      /\ up \in [Node -> Seq(Status)]
  BY ChildrenAreNodes DEF Tokens, AllWell, Sound, TypeOK
<1>2. /\ pc[p] = "send" /\ up' = [up EXCEPT ![p] = Append(@, P[p])] /\ pc' = [pc EXCEPT ![p] = "wait"]
      /\ UNCHANGED <<down, held, winner, P, hp, fifo, champion, defeats, file, failed>>
  BY DEF Send
<1>3. Empty(p) /\ ~ AtParent(p)
  BY <1>1, <1>2 DEF Token, AtHome
<1>4. up'[p] = <<P[p]>> /\ pc'[p] = "wait"
  <2>1. up'[p] = Append(<<>>, P[p])
    BY <1>1, <1>2, <1>3 DEF Empty
  <2> QED BY <1>1, <1>2, <2>1 DEF Sound, TypeOK
<1>5. ~ AtParent(p)'
  <2>1. /\ \A c \in Battle : pc'[c] = pc[c] /\ winner'[c] = winner[c]
    BY <1>1, <1>2, ChildrenAreNodes DEF Sound, TypeOK
  <2> QED BY <1>1, <1>3, <2>1, AtParentKept
<1>6. Fresh(P[p]) /\ ~ Over(held[p])
  BY <1>1, <1>2 DEF Plays
<1>7. Carries(p)'
  <2>1. \A k \in DOMAIN up'[p] : up'[p][k] = P[p]
    BY <1>4
  <2>2. Fresh(P[p])'
    BY <1>2, <1>6 DEF Fresh, Health
  <2> QED BY <1>1, <1>2, <1>5, <1>6, <2>1, <2>2 DEF Carries, Over, Through, Fresh, Health
<1>8. Plays(p)'
  BY <1>1, <1>2, <1>4 DEF Plays
<1>9. \A n \in Node \ {p} : up'[n] = up[n] /\ down'[n] = down[n]
  BY <1>1, <1>2
<1> QED BY <1>2, <1>7, <1>8, <1>9, PlayerWell DEF AllWell, Plays

LEMMA HandOverWell ==
  ASSUME Sound, Sound', Tokens, AllWell, [Next]_vars, NEW p \in Player, HandOver(p)
  PROVE  AllWell'
<1>1. PICK a \in Player : a = Agent[P[p].battle]
  BY TreeAssumption DEF HandOver, Sound, Players, ZoneA
<1> DEFINE s == [P[p] EXCEPT !.HP = hp[p]]
<1>2. /\ p \in Node /\ p \notin Battle /\ Carries(p) /\ Plays(p)
      /\ fifo \in [Player -> Seq(Status)] /\ pc[p] = "lost" /\ pc' = [pc EXCEPT ![p] = "exited"]
      /\ fifo' = [fifo EXCEPT ![a] = Append(@, s)] /\ P[p] \in Status
      /\ UNCHANGED <<up, down, held, winner, P, hp, champion, defeats, file, failed>>
  BY <1>1, ChildrenAreNodes, StatusThere DEF HandOver, pipes, AllWell, Sound, TypeOK, Players
<1>3. s.ended = 0
  BY <1>2 DEF Plays, Status
<1> HIDE DEF s
<1>4. \A q \in Player : \A k \in DOMAIN fifo'[q] : fifo'[q][k].ended = 0
  <2>1. \A q \in Player : \A k \in DOMAIN fifo[q] : fifo[q][k].ended = 0
    BY DEF AllWell, Plays
  <2> DEFINE o == fifo[a]  n == Append(o, s)
  <2>2. /\ Len(o) \in Nat /\ DOMAIN o = 1 .. Len(o) /\ DOMAIN n = 1 .. Len(o) + 1
        /\ n[Len(o) + 1] = s /\ \A k \in 1 .. Len(o) : n[k] = o[k]
    BY <1>2
  <2>3. \A k \in DOMAIN o : o[k].ended = 0
    BY <2>1
  <2>4. fifo'[a] = n /\ \A q \in Player : q # a => fifo'[q] = fifo[q]
    BY <1>2
  <2> HIDE DEF o, n
  <2>5. \A k \in DOMAIN n : n[k].ended = 0
    BY <1>3, <2>2, <2>3
  <2> QED BY <2>1, <2>4, <2>5
<1>5. \A c \in Battle : pc'[c] = pc[c] /\ winner'[c] = winner[c]
  BY <1>2, ChildrenAreNodes DEF Sound, TypeOK
<1>6. Carries(p)'
  BY <1>2, <1>5, AtParentKept, CarriesKept
<1>7. Plays(p)'
  <2>1. pc'[p] = "exited" /\ Over(held[p])
    BY <1>2 DEF Sound, TypeOK, Plays
  <2> QED BY <1>2, <1>4, <2>1 DEF Plays, Over, Through
<1> QED BY <1>2, <1>4, <1>6, <1>7, PlayerWell

LEMMA TakeOverWell ==
  ASSUME Sound, Sound', Tokens, AllWell, [Next]_vars, NEW p \in Player, TakeOver(p)
  PROVE  AllWell'
<1> PICK s : s = Head(fifo[p])
  OBVIOUS
<1>1. /\ p \in Node /\ p \notin Battle /\ Carries(p) /\ Plays(p)
      /\ fifo \in [Player -> Seq(Status)] /\ pc[p] = "wait" /\ pc' = [pc EXCEPT ![p] = "send"]
      /\ fifo[p] # <<>> /\ fifo' = [fifo EXCEPT ![p] = Tail(@)] /\ P[p] = NoStatus
      /\ P' = [P EXCEPT ![p] = s]
      /\ UNCHANGED <<up, down, held, winner, champion, defeats, file, failed>>
  BY ChildrenAreNodes DEF TakeOver, pipes, AllWell, Sound, TypeOK
<1>2. s \in Status /\ s.HP = Health[s.id] /\ s.ended = 0
  <2>1. s \in Status /\ s.HP = Health[s.id]
    BY <1>1, TakenOver
  <2>2. 1 \in DOMAIN fifo[p] /\ s = fifo[p][1]
    BY <1>1, FifoShorter
  <2> QED BY <1>1, <2>1, <2>2 DEF Plays
<1>3. Fresh(s)
  <2>1. Health[s.id] \in Nat \ {0}
    BY <1>2, StrengthAssumption DEF Sound, TypeOK, Health, Status
  <2> QED BY <1>2, <2>1 DEF Fresh
<1>4. \A q \in Player : \A k \in DOMAIN fifo'[q] : fifo'[q][k].ended = 0
  <2>1. \A q \in Player : \A k \in DOMAIN fifo'[q] : \E i \in DOMAIN fifo[q] : fifo'[q][k] = fifo[q][i]
    BY <1>1, FifoShorter
  <2> QED BY <2>1 DEF AllWell, Plays
<1>5. held[p] = NoStatus
  <2>1. {held[p].id} \ {None} \subseteq Name(p)
    BY <1>1 DEF Sound, Names
  <2>2. Name(p) = {}
    BY <1>1 DEF Name, NoStatus
  <2>3. held[p] \in Status \cup {NoStatus}
    BY <1>1 DEF Sound, TypeOK
  <2> QED BY <2>1, <2>2, <2>3, StatusThere
<1>6. Carries(p)'
  <2>1. \A c \in Battle : pc'[c] = pc[c] /\ winner'[c] = winner[c]
    BY <1>1, ChildrenAreNodes DEF Sound, TypeOK
  <2> QED BY <1>1, <2>1, AtParentKept, CarriesKept
<1>7. Plays(p)'
  <2>1. pc'[p] = "send" /\ P'[p] = s /\ held'[p] = NoStatus
    BY <1>1, <1>5 DEF Sound, TypeOK
  <2>2. Fresh(s)'
    BY <1>1, <1>3 DEF Fresh, Health
  <2> QED BY <1>4, <2>1, <2>2 DEF Plays, Over, Fresh, Health
<1>8. \A q \in Player \ {p} : P'[q] = P[q]
  BY <1>1 DEF Sound, TypeOK
<1> QED BY <1>1, <1>4, <1>6, <1>7, <1>8, PlayerWell

\* The player does what the status it gets back says.
LEMMA ReceiveWell ==
  ASSUME Sound, Sound', Tokens, AllWell, [Next]_vars, NEW p \in Player, Receive(p)
  PROVE  AllWell'
<1>1. PICK x \in Status : x = Head(down[p])
  BY ChildrenAreNodes, PipeTypes, TakenOut DEF Receive
<1>2. /\ p \in Node /\ p \notin Battle /\ Token(p) /\ Carries(p) /\ Plays(p)
      /\ down[p] # <<>> /\ down' = [down EXCEPT ![p] = Tail(@)] /\ pc[p] = "wait"
      /\ UNCHANGED <<up, held, winner, hp, fifo, champion, defeats, file, failed>>
  BY ChildrenAreNodes DEF Receive, AllWell, Tokens
<1>3. x = held[p]
  <2>1. x \in {down[p][k] : k \in DOMAIN down[p]}
    BY <1>1, <1>2, PipeTypes
  <2> QED BY <1>2, <2>1 DEF Carries
<1>4. up[p] = <<>> /\ Tail(down[p]) = <<>> /\ ~ AtParent(p)
  BY <1>2, OnItsWay
<1>5. /\ x.id = P[p].id /\ P[p] # NoStatus /\ hp[p] = Health[x.id] /\ x # NoStatus /\ x.HP \in Int
      /\ hp[p] \in Nat /\ x.HP <= hp[p] /\ (x.ended = 0 => x.HP > 0)
  <2>1. P[p] # NoStatus /\ hp[p] = Health[P[p].id] /\ hp[p] \in Nat
    BY <1>2, GetsItsOwn DEF Sound, TypeOK, Players
  <2>2. x.id \in Name(p) /\ x # NoStatus /\ x.HP \in Int
    <3>1. x.id \in Ids(down[p])
      BY <1>1, <1>2, PipeTypes, TakenOut
    <3> QED BY <1>2, <3>1, StatusThere DEF Sound, Names
  <2>3. x.id = P[p].id
    BY <1>2, <2>2 DEF Name
  <2>4. x.HP <= Health[x.id] /\ (x.ended = 0 => x.HP > 0)
    BY <1>2, <1>3, <2>2 DEF Carries
  <2> QED BY <2>1, <2>2, <2>3, <2>4
<1>6. \E y \in Status, v \in {"send", "lost", "exited"} :
         /\ pc' = [pc EXCEPT ![p] = v] /\ P' = [P EXCEPT ![p] = y]
         /\ v = "send" => Fresh(y) /\ ~ Over(x)
         /\ v = "lost" => y.ended = 0
         /\ v \in {"lost", "exited"} => Over(x)
  <2> DEFINE e == [x EXCEPT !.ended = 0]
             g == Healed(x, hp[p])
  <2>1. e \in Status /\ e.ended = 0
    BY DEF Status
  <2>2. CASE x.ended = 0 /\ pc' = [pc EXCEPT ![p] = "send"] /\ P' = [P EXCEPT ![p] = x]
    <3>1. Fresh(x) /\ ~ Over(x)
      BY <1>5, <2>2 DEF Fresh, Over, Through
    <3> QED BY <2>2, <3>1
  <2>3. CASE /\ x.ended = 1 /\ x.HP <= 0
             /\ pc' = [pc EXCEPT ![p] = IF x.battle \in ZoneA THEN "lost" ELSE "exited"]
             /\ P' = [P EXCEPT ![p] = e]
    <3>1. Over(x)
      BY <1>5, <2>3 DEF Over, Through
    <3> HIDE DEF e
    <3> QED BY <2>1, <2>3, <3>1
  <2>4. CASE x.ended = 1 /\ x.HP > 0 /\ x.battle = Root /\ pc' = [pc EXCEPT ![p] = "exited"] /\ P' = [P EXCEPT ![p] = e]
    <3>1. Over(x)
      BY <1>5, <2>4 DEF Over, Through
    <3> HIDE DEF e
    <3> QED BY <2>1, <2>4, <3>1
  <2>5. CASE x.ended = 1 /\ x.HP > 0 /\ x.battle # Root /\ pc' = [pc EXCEPT ![p] = "send"] /\ P' = [P EXCEPT ![p] = g]
    <3>1. ~ Over(x)
      BY <1>5, <2>5 DEF Over, Through
    <3> DEFINE n == x.HP + (hp[p] - x.HP) \div 2
    <3>2. n \in 1 .. hp[p]
      BY <1>5, <2>5
    <3>3. g = [x EXCEPT !.ended = 0, !.HP = n]
      BY DEF Healed
    <3> HIDE DEF g, n
    <3>4. g = [id |-> x.id, HP |-> n, battle |-> x.battle, ended |-> 0]
      BY <3>3 DEF Status
    <3>5. g \in Status /\ g.HP = n /\ g.id = x.id /\ g.ended = 0
      BY <3>2, <3>4 DEF Status
    <3>6. Fresh(g)
      BY <1>5, <3>2, <3>5 DEF Fresh
    <3> QED BY <2>5, <3>1, <3>5, <3>6
  <2> HIDE DEF e, g
  <2>6. \/ x.ended = 0 /\ pc' = [pc EXCEPT ![p] = "send"] /\ P' = [P EXCEPT ![p] = x]
        \/ /\ x.ended = 1 /\ x.HP <= 0
           /\ pc' = [pc EXCEPT ![p] = IF x.battle \in ZoneA THEN "lost" ELSE "exited"]
           /\ P' = [P EXCEPT ![p] = e]
        \/ x.ended = 1 /\ x.HP > 0 /\ x.battle = Root /\ pc' = [pc EXCEPT ![p] = "exited"] /\ P' = [P EXCEPT ![p] = e]
        \/ x.ended = 1 /\ x.HP > 0 /\ x.battle # Root /\ pc' = [pc EXCEPT ![p] = "send"] /\ P' = [P EXCEPT ![p] = g]
    BY <1>1 DEF Receive, e, g
  <2> QED BY <2>2, <2>3, <2>4, <2>5, <2>6
<1>7. PICK y \in Status, v \in {"send", "lost", "exited"} :
         /\ pc' = [pc EXCEPT ![p] = v] /\ P' = [P EXCEPT ![p] = y]
         /\ v = "send" => Fresh(y) /\ ~ Over(x)
         /\ v = "lost" => y.ended = 0
         /\ v \in {"lost", "exited"} => Over(x)
  BY <1>6
<1>8. pc'[p] = v /\ P'[p] = y /\ \A q \in Player \ {p} : P'[q] = P[q]
  BY <1>2, <1>7 DEF Sound, TypeOK
<1>9. \A n \in Node \ {p} : up'[n] = up[n] /\ down'[n] = down[n]
  BY <1>2 DEF Sound, TypeOK
<1>10. Carries(p)'
  <2>1. \A c \in Battle : pc'[c] = pc[c] /\ winner'[c] = winner[c]
    BY <1>2, <1>7, ChildrenAreNodes DEF Sound, TypeOK
  <2>2. ~ AtParent(p)'
    BY <1>2, <1>4, <2>1, AtParentKept
  <2>3. down'[p] = <<>> /\ up'[p] = <<>> /\ held'[p] = held[p]
    BY <1>2, <1>4 DEF Sound, TypeOK
  <2>4. DOMAIN <<>> = {}
    OBVIOUS
  <2> QED BY <1>2, <2>2, <2>3, <2>4 DEF Carries, Over, Through, Health
<1>11. Plays(p)'
  <2>1. v = "send" => Fresh(y)'
    BY <1>2, <1>7 DEF Fresh, Health
  <2> QED BY <1>2, <1>3, <1>7, <1>8, <2>1 DEF Plays, Fresh, Health
<1>12. \A q \in Player : \A k \in DOMAIN fifo'[q] : fifo'[q][k].ended = 0
  BY <1>2 DEF AllWell, Plays
<1> QED BY <1>2, <1>7, <1>8, <1>9, <1>10, <1>11, <1>12, PlayerWell

\* A battle that moves leaves what the others carry, play and run alone, but for its
\* children, which it tells something only while they wait for it.
LEMMA BattleWell ==
  ASSUME Sound, Sound', AllWell, [Next]_vars, NEW b \in Battle, Process(b), UNCHANGED <<fifo, file>>,
         NEW l, l = Left[b], NEW r, r = Right[b],
         \A n \in Node \ {l, r} : held'[n] = held[n],
         \A n \in {l, r} : \/ held'[n] = held[n]
                           \/ (n \in Player => pc[n] = "wait") /\ (n \in Battle => pc[n] = "feedback"),
         Carries(b)', Carries(l)', Carries(r)', Runs(b)'
  PROVE  AllWell'
<1>1. /\ \A n \in Node \ {b} : pc'[n] = pc[n]
      /\ \A c \in Battle \ {b} : winner'[c] = winner[c]
      /\ UNCHANGED P
      /\ \A n \in Node : n \notin {b, l, r} => up'[n] = up[n] /\ down'[n] = down[n]
  BY BattleMoves
<1>2. b \in Node /\ b \notin Player /\ l \in Node /\ r \in Node
  BY ChildrenAreNodes
<1>3. ASSUME NEW n \in Node PROVE Carries(n)'
  <2> SUFFICES ASSUME n \notin {b, l, r} PROVE Carries(n)'
    OBVIOUS
  <2>1. AtParent(n)' <=> AtParent(n)
    BY <1>1, <1>2, ChildrenAreNodes, AtParentKept
  <2> QED BY <1>1, <2>1, CarriesKept DEF AllWell
<1>4. ASSUME NEW q \in Player PROVE Plays(q)'
  <2>1. pc'[q] = pc[q] /\ (held'[q] = held[q] \/ pc[q] = "wait")
    BY <1>1, <1>2, ChildrenAreNodes
  <2> QED BY <1>1, <2>1, PlaysKept DEF AllWell
<1>5. ASSUME NEW c \in Battle PROVE Runs(c)'
  <2> SUFFICES ASSUME c # b PROVE Runs(c)'
    OBVIOUS
  <2>1. \A n \in {Left[c], Right[c]} : n \in Node /\ n \notin {l, r}
    BY OneParent, ChildrenAreNodes
  <2>2. pc[c] = "feedback" \/ held'[c] = held[c]
    BY ChildrenAreNodes
  <2> QED BY <1>1, <2>1, <2>2, ChildrenAreNodes, RunsKept DEF AllWell
<1> QED BY <1>3, <1>4, <1>5 DEF AllWell

\* What a child has sent up or its parent has is fresh.
LEMMA FreshThere ==
  ASSUME Sound, AllWell, NEW n \in Node
  PROVE  /\ up[n] # <<>> => Head(up[n]) \in Status /\ Fresh(Head(up[n]))
         /\ down[n] # <<>> => Head(down[n]) \in Status /\ Head(down[n]) = held[n]
<1>1. up[n] \in Seq(Status) /\ down[n] \in Seq(Status) /\ Carries(n)
  BY PipeTypes DEF AllWell
<1>2. ASSUME NEW q \in Seq(Status), q # <<>> PROVE \E k \in DOMAIN q : Head(q) = q[k]
  BY <1>2
<1>3. \A q \in Seq(Status) : q # <<>> => Head(q) \in Status
  BY TakenOut
<1> QED BY <1>1, <1>2, <1>3 DEF Carries

LEMMA FreshIsNotOver ==
  ASSUME NEW s \in Status, Fresh(s)
  PROVE  ~ Over(s)
BY DEF Status, Fresh, Over, Through

LEMMA ReadLeftWell ==
  ASSUME Sound, Sound', Tokens, AllWell, [Next]_vars, NEW b \in Battle, ReadLeft(b)
  PROVE  AllWell'
<1>1. PICK l, r : l = Left[b] /\ r = Right[b]
  OBVIOUS
<1>2. /\ b \in Node /\ b \notin Player /\ l \in Node /\ r \in Node /\ l # r /\ b # l /\ b # r
      /\ Token(l) /\ Carries(l) /\ Carries(b) /\ Carries(r) /\ Runs(b)
  BY <1>1, ChildrenAreNodes, NotItsOwnChild DEF Tokens, AllWell
<1>3. /\ up[l] # <<>> /\ up' = [up EXCEPT ![l] = Tail(@)] /\ held' = [held EXCEPT ![l] = Head(up[l])]
      /\ pc[b] = "left" /\ pc'[b] = "right" /\ UNCHANGED <<down, winner, fifo, file>>
  BY <1>1, <1>2 DEF ReadLeft, Sound, TypeOK
<1>4. PICK x \in Status : x = Head(up[l]) /\ Fresh(x)
  BY <1>2, <1>3, FreshThere
<1>5. Tail(up[l]) = <<>> /\ down[l] = <<>>
  BY <1>2, <1>3, OnItsWay
<1>6. /\ held'[l] = x /\ up'[l] = <<>> /\ down'[l] = <<>>
      /\ \A n \in Node \ {l} : held'[n] = held[n] /\ up'[n] = up[n]
  BY <1>2, <1>3, <1>4, <1>5 DEF Sound, TypeOK
<1>7. (l \in Player => pc[l] = "wait") /\ (l \in Battle => pc[l] = "feedback")
  BY <1>1, <1>2, <1>3, Away
<1>8. ~ Over(x) /\ ~ Over(x)' /\ Fresh(x)'
  <2>1. ~ Over(x)
    BY <1>4, FreshIsNotOver
  <2> QED BY <1>3, <1>4, <2>1 DEF Over, Through, Fresh, Health
<1>9. Carries(l)'
  <2>1. DOMAIN <<>> = {}
    OBVIOUS
  <2> QED BY <1>6, <1>8, <2>1 DEF Carries, Fresh
<1>10. Carries(r)'
  <2>1. ~ AtParent(r)'
    BY <1>1, <1>2, <1>3, ChildAtParent
  <2> QED BY <1>2, <1>3, <1>6, <2>1, CarriesKept
<1>11. Carries(b)'
  <2>1. AtParent(b)' <=> AtParent(b)
    BY <1>1, <1>2, <1>3, BattleMoves, ChildrenAreNodes, AtParentKept DEF Process
  <2> QED BY <1>2, <1>3, <1>6, <2>1, CarriesKept
<1>12. Runs(b)'
  <2>1. held'[b] = NoStatus /\ ~ Over(held'[l]) /\ ~ Over(held'[r])
    BY <1>1, <1>2, <1>3, <1>6, <1>8 DEF Runs
  <2> QED BY <1>1, <1>3, <2>1 DEF Runs, Over, Through
<1> QED BY <1>1, <1>2, <1>3, <1>6, <1>7, <1>9, <1>10, <1>11, <1>12, BattleWell DEF Process

LEMMA ReadRightWell ==
  ASSUME Sound, Sound', Tokens, AllWell, [Next]_vars, NEW b \in Battle, ReadRight(b)
  PROVE  AllWell'
<1>1. PICK l, r : l = Left[b] /\ r = Right[b]
  OBVIOUS
<1>2. /\ b \in Node /\ b \notin Player /\ l \in Node /\ r \in Node /\ l # r /\ b # l /\ b # r
      /\ Token(l) /\ Token(r) /\ Carries(l) /\ Carries(b) /\ Carries(r) /\ Runs(b)
  BY <1>1, ChildrenAreNodes, NotItsOwnChild DEF Tokens, AllWell
<1>3. PICK s \in Status, t \in Status : Fought(b, l, r, s, t)
  BY <1>1, RoundFought
<1>4. /\ pc[b] = "right" /\ up[r] # <<>> /\ up' = [up EXCEPT ![r] = Tail(@)]
      /\ held' = [held EXCEPT ![l] = s, ![r] = t]
      /\ down' = [down EXCEPT ![l] = Append(@, s), ![r] = Append(@, t)]
      /\ s.battle = b /\ t.battle = b /\ UNCHANGED <<fifo, file>>
  BY <1>3, <1>1 DEF Fought, ReadRight
<1>5. AtParent(l)
  BY <1>1, <1>4 DEF AtParent
<1>6. \A n \in {l, r} : (n \in Player => pc[n] = "wait") /\ (n \in Battle => pc[n] = "feedback")
  BY <1>1, <1>2, <1>4, <1>5, Away
<1>7. PICK x \in Status : x = Head(up[r]) /\ Fresh(x)
  BY <1>2, <1>4, FreshThere
<1>8. PICK y \in Status : y = held[l] /\ Fresh(y)
  BY <1>1, <1>2, <1>5, RoundFought DEF Carries
<1>9. /\ s.id = y.id /\ t.id = x.id /\ s.HP <= Health[s.id] /\ t.HP <= Health[t.id]
      /\ s.HP > 0 \/ t.HP > 0
      /\ s.HP > 0 /\ t.HP > 0 => s.ended = 0 /\ t.ended = 0
      /\ s.HP <= 0 \/ t.HP <= 0 => s.ended = 1 /\ t.ended = 1
  <2>1. s.HP \in Int /\ t.HP \in Int /\ x.HP \in Int /\ y.HP \in Int /\ file \in Files
        /\ Health[x.id] \in Nat /\ Health[y.id] \in Nat
    BY StrengthAssumption DEF Status, Sound, TypeOK, Health
  <2>2. s = Fight(b, y, x)[1] /\ t = Fight(b, y, x)[2] /\ s.id = y.id /\ t.id = x.id
    BY <1>3, <1>7, <1>8 DEF Fought
  <2>3. x.HP > 0 /\ y.HP > 0 /\ x.ended = 0 /\ y.ended = 0 /\ x.HP <= Health[x.id] /\ y.HP <= Health[y.id]
    BY <1>7, <1>8, <2>1 DEF Fresh
  <2>4. /\ s.HP <= y.HP /\ t.HP <= x.HP
        /\ s.HP > 0 \/ t.HP > 0
        /\ s.HP > 0 /\ t.HP > 0 => s.ended = 0 /\ t.ended = 0
        /\ s.HP <= 0 \/ t.HP <= 0 => s.ended = 1 /\ t.ended = 1
    BY <2>1, <2>2, <2>3, FightHurts
  <2> QED BY <2>1, <2>2, <2>3, <2>4
<1>10. up[l] = <<>> /\ down[l] = <<>> /\ Tail(up[r]) = <<>> /\ down[r] = <<>>
  BY <1>2, <1>4, <1>5, OnItsWay DEF Token, Empty
<1>11. /\ held'[l] = s /\ held'[r] = t /\ up'[l] = <<>> /\ up'[r] = <<>>
       /\ down'[l] = Append(<<>>, s) /\ down'[r] = Append(<<>>, t)
       /\ up'[b] = up[b] /\ down'[b] = down[b] /\ \A n \in Node \ {l, r} : held'[n] = held[n]
  BY <1>2, <1>4, <1>10 DEF Sound, TypeOK
<1>12. \/ s.HP > 0 /\ t.HP > 0 /\ pc'[b] = "left"
       \/ t.HP <= 0 /\ pc'[b] = "reap" /\ winner'[b] = l
       \/ t.HP > 0 /\ s.HP <= 0 /\ pc'[b] = "reap" /\ winner'[b] = r
  BY <1>2, <1>3 DEF Fought, Sound, TypeOK
<1>13. Carries(l)' /\ Carries(r)'
  <2>1. ~ AtParent(l)' /\ ~ AtParent(r)'
    BY <1>1, <1>12, ChildAtParent
  <2>2. DOMAIN <<>> = {} /\ \A z \in Status : \A k \in DOMAIN Append(<<>>, z) : Append(<<>>, z)[k] = z
    OBVIOUS
  <2>3. Health' = Health
    BY <1>4 DEF Health
  <2>4. \A z \in {s, t} : z.HP <= Health[z.id] /\ (z.ended = 0 => z.HP > 0)
    <3>1. s.HP \in Int /\ t.HP \in Int
      BY DEF Status
    <3> QED BY <1>9, <3>1
  <2> QED BY <1>11, <2>1, <2>2, <2>3, <2>4 DEF Carries
<1>14. Carries(b)'
  <2>1. AtParent(b)' <=> AtParent(b)
    BY <1>1, <1>2, BattleMoves, ChildrenAreNodes, AtParentKept DEF Process
  <2> QED BY <1>2, <1>4, <1>11, <2>1, CarriesKept
<1>15. Runs(b)'
  <2>1. held'[b] = NoStatus
    BY <1>2, <1>4, <1>11 DEF Runs
  <2>2. CASE s.HP > 0 /\ t.HP > 0 /\ pc'[b] = "left"
    <3>1. ~ Over(s)' /\ ~ Over(t)'
      <4>1. s.HP \in Int /\ t.HP \in Int
        BY DEF Status
      <4> QED BY <1>9, <2>2, <4>1 DEF Over, Through
    <3> QED BY <1>1, <1>11, <2>1, <2>2, <3>1 DEF Runs, Over
  <2>3. CASE pc'[b] = "reap" /\ ((winner'[b] = l /\ s.HP > 0) \/ (winner'[b] = r /\ t.HP > 0))
    <3>1. PICK z \in Status : z = held'[winner'[b]] /\ z.HP > 0 /\ z.battle = b
      BY <1>4, <1>11, <2>3
    <3>2. b # Root => ~ Over(z)' /\ ~ Over(NoStatus)'
      <4>1. z.HP \in Int
        BY DEF Status
      <4> QED BY <3>1, <4>1 DEF Over, Through
    <3> QED BY <2>1, <2>3, <3>1, <3>2 DEF Runs, Over
  <2>4. t.HP <= 0 => s.HP > 0
    <3>1. s.HP \in Int /\ t.HP \in Int
      BY DEF Status
    <3> QED BY <1>9, <3>1
  <2>5. \/ s.HP > 0 /\ t.HP > 0 /\ pc'[b] = "left"
        \/ pc'[b] = "reap" /\ ((winner'[b] = l /\ s.HP > 0) \/ (winner'[b] = r /\ t.HP > 0))
    BY <1>12, <2>4
  <2> QED BY <2>2, <2>3, <2>5
<1> QED BY <1>1, <1>2, <1>4, <1>6, <1>11, <1>13, <1>14, <1>15, BattleWell DEF Process

LEMMA ReapFinishWell ==
  ASSUME Sound, Sound', Tokens, AllWell, [Next]_vars, NEW b \in Battle, Reap(b) \/ Finish(b)
  PROVE  AllWell'
<1>1. PICK l, r : l = Left[b] /\ r = Right[b]
  OBVIOUS
<1>2. /\ b \in Node /\ b \notin Player /\ l \in Node /\ r \in Node /\ b # l /\ b # r
      /\ Carries(l) /\ Carries(b) /\ Carries(r) /\ Runs(b)
  BY <1>1, ChildrenAreNodes, NotItsOwnChild DEF Tokens, AllWell
<1>3. UNCHANGED <<up, down, held, winner, fifo, file>>
  BY DEF Reap, Finish, pipes
<1>4. PICK w \in {l, r} : w = winner[b] /\ held[w].id # None
  BY <1>1, ChildrenAreNodes DEF Reap, Finish, Sound, Battles
<1>5. PICK o \in {l, r} : o = Loser(b) /\ {w, o} = {l, r}
  BY <1>1, <1>4 DEF Loser
<1>6. \/ b # Root /\ pc[b] = "reap" /\ pc'[b] = "relay" /\ pc[o] = "exited"
      \/ b = Root /\ pc'[b] = "exited" /\ pc[o] = "exited" /\ pc[w] = "exited"
      \/ b # Root /\ pc[b] = "relay" /\ pc'[b] = "exited" /\ pc[w] = "exited" /\ pc[o] = "exited" /\ Over(held[w])
  <2>1. CASE Reap(b)
    BY <1>2, <1>4, <1>5, <2>1 DEF Reap, Sound, TypeOK
  <2>2. CASE Finish(b)
    <3>1. Over(held[w])
      BY <1>4, <2>2 DEF Finish, Over, NoStatus
    <3> QED BY <1>2, <1>4, <1>5, <2>2, <3>1 DEF Finish, Tokens, Runs, Sound, TypeOK
  <2> QED BY <2>1, <2>2
<1>7. \A n \in Node : AtParent(n)' => AtParent(n)
  <2>1. \A n \in {l, r} : ~ AtParent(n)'
    BY <1>1, <1>6, ChildAtParent
  <2> QED BY <1>1, <2>1, BattleMoves, ChildrenAreNodes, AtParentKept DEF Process
<1>8. Carries(b)' /\ Carries(l)' /\ Carries(r)'
  BY <1>2, <1>3, <1>7, CarriesKept
<1>9. \A n \in {l, r} : pc'[n] = pc[n]
  BY <1>1, <1>2, BattleMoves DEF Process
<1>10. Loser(b)' = o
  BY <1>3, <1>5 DEF Loser
<1>11. \A s : Over(s)' <=> Over(s)
  BY DEF Over, Through
<1>12. Runs(b)'
  BY <1>1, <1>2, <1>3, <1>4, <1>5, <1>6, <1>9, <1>10, <1>11 DEF Runs
<1> QED BY <1>1, <1>3, <1>8, <1>12, BattleWell DEF Process

LEMMA RelayUpWell ==
  ASSUME Sound, Sound', Tokens, AllWell, [Next]_vars, NEW b \in Battle, RelayUp(b)
  PROVE  AllWell'
<1>1. PICK l, r : l = Left[b] /\ r = Right[b]
  OBVIOUS
<1>2. /\ b \in Node /\ b \notin Player /\ l \in Node /\ r \in Node /\ b # l /\ b # r
      /\ Token(b) /\ Carries(b) /\ Carries(l) /\ Carries(r) /\ Runs(b)
  BY <1>1, ChildrenAreNodes, NotItsOwnChild DEF Tokens, AllWell
<1>3. PICK w \in {l, r} : w = winner[b] /\ held[w].id # None
  BY <1>1, ChildrenAreNodes DEF RelayUp, Sound, Battles
<1>4. /\ pc[b] = "relay" /\ b # Root /\ ~ Over(held[w]) /\ up[w] # <<>> /\ ~ Gone(Above[b])
      /\ held' = [held EXCEPT ![w] = Head(up[w])]
      /\ up' = [up EXCEPT ![w] = Tail(@), ![b] = Append(@, Head(up[w]))]
      /\ pc'[b] = "feedback" /\ UNCHANGED <<down, winner, fifo, file>>
  BY <1>2, <1>3 DEF RelayUp, Tokens, Over, Sound, TypeOK
<1>5. PICK x \in Status : x = Head(up[w]) /\ Fresh(x)
  BY <1>2, <1>3, <1>4, FreshThere
<1>6. down[w] = <<>> /\ Tail(up[w]) = <<>>
  BY <1>2, <1>3, <1>4, OnItsWay DEF Tokens
<1>7. up[b] = <<>> /\ down[b] = <<>> /\ ~ AtParent(b)
  <2>1. AtHome(b)
    BY <1>4 DEF AtHome
  <2> QED BY <1>2, <2>1 DEF Token, Empty
<1>8. /\ held'[w] = x /\ up'[w] = <<>> /\ up'[b] = Append(<<>>, x)
      /\ \A n \in Node \ {w} : held'[n] = held[n]
      /\ \A n \in Node \ {w, b} : up'[n] = up[n]
  <2>1. /\ w \in Node /\ w # b /\ held \in [Node -> Status \cup {NoStatus}] /\ up \in [Node -> Seq(Status)]
        /\ up' = [up EXCEPT ![w] = Tail(@), ![b] = Append(@, x)]
    BY <1>2, <1>3, <1>4, <1>5 DEF Sound, TypeOK
  <2>2. held'[w] = x /\ \A n \in Node \ {w} : held'[n] = held[n]
    BY <1>4, <1>5, <2>1
  <2> QED BY <1>2, <1>6, <1>7, <2>1, <2>2
<1>9. (w \in Player => pc[w] = "wait") /\ (w \in Battle => pc[w] = "feedback")
  BY <1>1, <1>2, <1>3, <1>4, Away
<1>10. /\ \A s : Over(s)' <=> Over(s)
       /\ Health' = Health /\ Fresh(x)' /\ ~ Over(x)
  BY <1>4, <1>5, FreshIsNotOver DEF Over, Through, Fresh, Health
<1>11. DOMAIN <<>> = {} /\ \A k \in DOMAIN Append(<<>>, x) : Append(<<>>, x)[k] = x
  OBVIOUS
<1>12. Carries(w)'
  BY <1>4, <1>6, <1>8, <1>10, <1>11 DEF Carries, Fresh
<1>13. Carries(b)'
  <2>1. ~ AtParent(b)'
    BY <1>1, <1>2, <1>7, BattleMoves, ChildrenAreNodes, AtParentKept DEF Process
  <2>2. ~ Over(held[b])
    BY <1>2, <1>3, <1>4 DEF Runs
  <2>3. held'[b] = held[b]
    BY <1>2, <1>3, <1>8
  <2> QED BY <1>2, <1>4, <1>7, <1>8, <1>10, <1>11, <2>1, <2>2, <2>3 DEF Carries
<1>14. ASSUME NEW n \in {l, r}, n # w PROVE Carries(n)'
  <2>1. ~ AtParent(n)'
    BY <1>1, <1>3, <1>4, <1>14, ChildAtParent
  <2> QED BY <1>2, <1>4, <1>8, <1>14, <2>1, CarriesKept
<1>15. Runs(b)'
  <2>1. Loser(b)' = Loser(b) /\ pc[Loser(b)] = "exited"
    BY <1>2, <1>4 DEF Runs, Loser
  <2>2. pc'[Loser(b)] = "exited"
    BY <2>1, ExitedStays, ChildrenAreNodes DEF Loser
  <2> QED BY <1>4, <2>1, <2>2 DEF Runs
<1> QED BY <1>1, <1>2, <1>3, <1>4, <1>8, <1>9, <1>12, <1>13, <1>14, <1>15, BattleWell DEF Process

LEMMA RelayDownWell ==
  ASSUME Sound, Sound', Tokens, AllWell, [Next]_vars, NEW b \in Battle, RelayDown(b)
  PROVE  AllWell'
<1>1. PICK l, r : l = Left[b] /\ r = Right[b]
  OBVIOUS
<1>2. /\ b \in Node /\ b \notin Player /\ l \in Node /\ r \in Node /\ b # l /\ b # r
      /\ Token(b) /\ Carries(b) /\ Carries(l) /\ Carries(r) /\ Runs(b)
  BY <1>1, ChildrenAreNodes, NotItsOwnChild DEF Tokens, AllWell
<1>3. PICK w \in {l, r} : w = winner[b] /\ held[w].id # None
  BY <1>1, ChildrenAreNodes DEF RelayDown, Sound, Battles
<1>4. /\ pc[b] = "feedback" /\ b # Root /\ down[b] # <<>>
      /\ held' = [held EXCEPT ![w] = Head(down[b])]
      /\ down' = [down EXCEPT ![b] = Tail(@), ![w] = Append(@, Head(down[b]))]
      /\ pc'[b] = "relay" /\ UNCHANGED <<up, winner, fifo, file>>
  BY <1>2, <1>3 DEF RelayDown, Tokens, Sound, TypeOK
<1>5. PICK x \in Status : x = Head(down[b]) /\ x = held[b]
  BY <1>2, <1>4, FreshThere
<1>6. AtParent(w)
  BY <1>1, <1>3, <1>4, ChildAtParent
<1>7. up[w] = <<>> /\ down[w] = <<>>
  BY <1>2, <1>3, <1>6 DEF Tokens, Token, Empty
<1>8. up[b] = <<>> /\ Tail(down[b]) = <<>> /\ ~ AtParent(b)
  BY <1>2, <1>4, OnItsWay
<1>9. /\ held'[w] = x /\ down'[b] = <<>> /\ down'[w] = Append(<<>>, x)
      /\ \A n \in Node \ {w} : held'[n] = held[n]
      /\ \A n \in Node \ {w, b} : down'[n] = down[n]
  <2>1. /\ w \in Node /\ w # b /\ held \in [Node -> Status \cup {NoStatus}] /\ down \in [Node -> Seq(Status)]
        /\ down' = [down EXCEPT ![b] = Tail(@), ![w] = Append(@, x)]
    BY <1>2, <1>3, <1>4, <1>5 DEF Sound, TypeOK
  <2>2. held'[w] = x /\ \A n \in Node \ {w} : held'[n] = held[n]
    BY <1>4, <1>5, <2>1
  <2> QED BY <1>2, <1>7, <1>8, <2>1, <2>2
<1>10. (w \in Player => pc[w] = "wait") /\ (w \in Battle => pc[w] = "feedback")
  BY <1>1, <1>2, <1>3, <1>4, <1>6, Away
<1>11. (\A s : Over(s)' <=> Over(s)) /\ Health' = Health
  BY <1>4 DEF Over, Through, Health
<1>12. DOMAIN <<>> = {} /\ \A k \in DOMAIN Append(<<>>, x) : Append(<<>>, x)[k] = x
  OBVIOUS
<1>13. x # NoStatus
  BY StatusThere, ChildrenAreNodes DEF NoStatus
<1>14. ASSUME NEW n \in {l, r} PROVE ~ AtParent(n)'
  BY <1>1, <1>4, <1>14, ChildAtParent
<1>15. Carries(w)'
  <2>1. x.HP <= Health[x.id] /\ (x.ended = 0 => x.HP > 0)
    BY <1>2, <1>5, <1>13 DEF Carries
  <2> QED BY <1>4, <1>7, <1>9, <1>11, <1>12, <1>14, <2>1 DEF Carries
<1>16. Carries(b)'
  <2>1. ~ AtParent(b)'
    BY <1>1, <1>2, <1>8, BattleMoves, ChildrenAreNodes, AtParentKept DEF Process
  <2>2. held'[b] = held[b]
    BY <1>2, <1>3, <1>9
  <2> QED BY <1>2, <1>4, <1>8, <1>9, <1>11, <1>12, <2>1, <2>2 DEF Carries
<1>17. ASSUME NEW n \in {l, r}, n # w PROVE Carries(n)'
  BY <1>2, <1>4, <1>9, <1>14, <1>17, CarriesKept
<1>18. Runs(b)'
  <2>1. Loser(b)' = Loser(b) /\ pc[Loser(b)] = "exited"
    BY <1>2, <1>4 DEF Runs, Loser
  <2>2. pc'[Loser(b)] = "exited"
    BY <2>1, ExitedStays, ChildrenAreNodes DEF Loser
  <2>3. winner'[b] = w /\ held'[w] = held'[b]
    BY <1>2, <1>3, <1>4, <1>5, <1>9
  <2> QED BY <1>4, <2>1, <2>2, <2>3 DEF Runs
<1> QED BY <1>1, <1>2, <1>3, <1>4, <1>9, <1>10, <1>15, <1>16, <1>17, <1>18, BattleWell DEF Process

LEMMA InitWhole == Init => Whole
<1> SUFFICES ASSUME Init, failed = {} PROVE AllWell
  BY DEF Whole
<1>1. \A late : Stillborn({}, late) = {}
  BY DEF Stillborn
<1>2. \A n \in Node : pc[n] = IF n \in Battle THEN "left" ELSE IF n \in Real THEN "send" ELSE "wait"
  BY <1>1 DEF Init
<1>3. DOMAIN <<>> = {} /\ NoStatus.id = None /\ NoStatus.ended = 0
  BY DEF NoStatus
<1>4. \A n \in Node : Carries(n)
  <2>1. \A n \in Node : ~ AtParent(n)
    BY <1>2, ChildrenAreNodes DEF AtParent
  <2> QED BY <1>3, <2>1 DEF Init, Carries, Over
<1>5. \A p \in Player : Plays(p)
  <2>1. \A p \in Real : Health[p] \in Nat \ {0}
    <3>1. file \in Files
      BY DEF Init
    <3> QED BY <3>1, StrengthAssumption DEF Health
  <2>2. \A p \in Real : Fresh(P[p])
    <3> SUFFICES ASSUME NEW p \in Real PROVE Fresh(P[p])
      OBVIOUS
    <3>1. P[p] = [id |-> p, HP |-> Health[p], battle |-> None, ended |-> 0]
      BY ChildrenAreNodes DEF Init, NoStatus
    <3> QED BY <2>1, <3>1 DEF Fresh
  <2> QED BY <1>2, <1>3, <2>2, ChildrenAreNodes DEF Init, Plays, Over
<1>6. \A b \in Battle : Runs(b)
  BY <1>2, ChildrenAreNodes DEF Init, Runs, Over
<1> QED BY <1>4, <1>5, <1>6 DEF AllWell

LEMMA NextWhole == Sound /\ Tokens /\ Whole /\ [Next]_vars => Whole'
<1> SUFFICES ASSUME Sound, Tokens, Whole, [Next]_vars, failed' = {} PROVE AllWell'
  BY DEF Whole
<1>1. Sound'
  BY NextSound
<1>2. CASE UNCHANGED vars
  <2>1. AllWell
    BY <1>2 DEF vars, Whole
  <2> QED BY <1>2, <2>1 DEF vars, pipes, AllWell, Carries, Plays, Runs, Fresh, Over, Through, Health,
          AtParent, Loser
<1>3. CASE Next
  <2>1. \A p \in Player : ~ HandOverFails(p) /\ ~ TakeOverFails(p)
    BY DEF HandOverFails, TakeOverFails
  <2>2. PICK n \in Node : Process(n)
    BY <1>3, <2>1 DEF Next
  <2>3. failed = {}
    BY <2>2 DEF Process, Send, Receive, HandOver, TakeOver, ReadLeft, ReadRight, Reap, RelayUp, RelayDown,
       Finish, ReadLeftEnd, ReadRightEnd, FeedbackEnd, Orphaned
  <2>4. AllWell
    BY <2>3 DEF Whole
  <2>5. \/ n \in Player /\ (Send(n) \/ Receive(n) \/ HandOver(n) \/ TakeOver(n))
        \/ n \in Battle /\ \/ ReadLeft(n) \/ ReadRight(n) \/ Reap(n)
                           \/ RelayUp(n) \/ RelayDown(n) \/ Finish(n)
    BY <2>2, <2>4, NoEnds DEF Process
  <2> QED BY <1>1, <2>4, <2>5, SendWell, ReceiveWell, HandOverWell, TakeOverWell, ReadLeftWell,
          ReadRightWell, ReapFinishWell, RelayUpWell, RelayDownWell
<1> QED BY <1>2, <1>3 DEF Next

LEMMA AlwaysWhole == Spec => []Whole
BY InitWhole, NextWhole, AlwaysSound, AlwaysTokens, PTL DEF Spec

\* No status that can no longer fight is sent to a fight, and none has more health
\* than its player began with, unless a fight with leftovers has come between; an
\* agent heals the player it has taken over to what that one began with.
THEOREM HealthStaysInBounds == Spec => []HealthInBounds
<1>1. Sound /\ Whole => HealthInBounds
  BY DEF Sound, Players, Whole, AllWell, Carries, Fresh, HealthInBounds
<1> QED BY <1>1, AlwaysSound, AlwaysWhole, PTL

\* As long as no process fails none finds the end of a pipe, though every right child
\* inherits ends of the pipes to its left sibling: nobody leaves while somebody else
\* still counts on it.
THEOREM NobodyIsLeftAlone ==
  Spec => [][failed = {} => /\ \A b \in Battle : ~ ReadLeftEnd(b) /\ ~ ReadRightEnd(b) /\ ~ FeedbackEnd(b)
                            /\ \A n \in Node : ~ Orphaned(n)]_vars
<1>1. Sound /\ Tokens /\ Whole =>
        [failed = {} => /\ \A b \in Battle : ~ ReadLeftEnd(b) /\ ~ ReadRightEnd(b) /\ ~ FeedbackEnd(b)
                        /\ \A n \in Node : ~ Orphaned(n)]_vars
  BY NoEnds DEF Whole
<1> QED BY <1>1, AlwaysSound, AlwaysTokens, AlwaysWhole, PTL

-----------------------------------------------------------------------------
(* A failure never gets past the root. *)

\* What a pipe or a FIFO holds.
Entries(q) == {q[k] : k \in DOMAIN q}

LEMMA Contents ==
  ASSUME NEW q \in Seq(Status)
  PROVE  /\ q # <<>> => Head(q) \in Entries(q) /\ Entries(Tail(q)) \subseteq Entries(q)
         /\ \A s \in Status : Entries(Append(q, s)) = Entries(q) \cup {s}
         /\ Entries(<<>>) = {}
<1>1. ASSUME q # <<>> PROVE Head(q) \in Entries(q) /\ Entries(Tail(q)) \subseteq Entries(q)
  <2>1. /\ Len(q) \in Nat /\ DOMAIN q = 1 .. Len(q) /\ Head(q) = q[1] /\ 1 \in DOMAIN q
        /\ DOMAIN Tail(q) = 1 .. Len(q) - 1
    BY <1>1
  <2>2. ASSUME NEW k \in DOMAIN Tail(q) PROVE k + 1 \in DOMAIN q /\ Tail(q)[k] = q[k + 1]
    BY <2>1, <1>1
  <2> QED BY <2>1, <2>2 DEF Entries
<1>2. ASSUME NEW s \in Status PROVE Entries(Append(q, s)) = Entries(q) \cup {s}
  <2> DEFINE r == Append(q, s)
  <2>1. /\ Len(q) \in Nat /\ DOMAIN q = 1 .. Len(q) /\ DOMAIN r = 1 .. Len(q) + 1
        /\ r[Len(q) + 1] = s /\ \A k \in 1 .. Len(q) : r[k] = q[k]
    OBVIOUS
  <2> HIDE DEF r
  <2>2. Entries(r) = Entries(q) \cup {s}
    BY <2>1 DEF Entries
  <2> QED BY <2>2 DEF r
<1>3. Entries(<<>>) = {}
  <2>1. DOMAIN <<>> = {}
    OBVIOUS
  <2> QED BY <2>1 DEF Entries
<1> QED BY <1>1, <1>2, <1>3

\* Whatever goes up can fight, and what comes down and cannot is the end of a battle.
Able(s) == s.ended = 0 /\ s.HP > 0

FitPipes ==
  \A n \in Node : /\ \A s \in Entries(up[n]) : Able(s)
                  /\ \A s \in Entries(down[n]) : s.HP > 0 \/ s.ended = 1
FitPlayers ==
  \A p \in Player : /\ pc[p] = "send" => Able(P[p])
                    /\ pc[p] = "lost" => P[p].ended = 0
                    /\ \A s \in Entries(fifo[p]) : Able(s)
FitBattles ==
  \A b \in Battle : /\ pc[b] = "right" => Able(held[Left[b]])
                    /\ pc[b] = "feedback" => Able(held[winner[b]])
Fit == FitPipes /\ FitPlayers /\ FitBattles

\* A player moves: nobody else's pipes, status or place change.
LEMMA PlayerFit ==
  ASSUME Sound, Fit, NEW p \in Player, NEW v, pc' = [pc EXCEPT ![p] = v], UNCHANGED <<held, winner>>,
         \A n \in Node \ {p} : up'[n] = up[n] /\ down'[n] = down[n],
         \A q \in Player \ {p} : P'[q] = P[q],
         \A s \in Entries(up'[p]) : Able(s),
         \A s \in Entries(down'[p]) : s.HP > 0 \/ s.ended = 1,
         v = "send" => Able(P'[p]), v = "lost" => P'[p].ended = 0,
         \A q \in Player : \A s \in Entries(fifo'[q]) : Able(s)
  PROVE  Fit'
<1>1. p \in Node /\ p \notin Battle /\ pc'[p] = v /\ \A n \in Node \ {p} : pc'[n] = pc[n]
  BY ChildrenAreNodes DEF Sound, TypeOK
<1>2. FitPipes'
  BY <1>1 DEF Fit, FitPipes
<1>3. FitPlayers'
  <2> SUFFICES ASSUME NEW q \in Player PROVE (pc'[q] = "send" => Able(P'[q])) /\ (pc'[q] = "lost" => P'[q].ended = 0)
    BY DEF FitPlayers, Able
  <2>1. CASE q = p
    BY <1>1, <2>1
  <2>2. CASE q # p
    BY <1>1, <2>2, ChildrenAreNodes DEF Fit, FitPlayers
  <2> QED BY <2>1, <2>2
<1>4. FitBattles'
  BY <1>1, ChildrenAreNodes DEF Fit, FitBattles, Able
<1> QED BY <1>2, <1>3, <1>4 DEF Fit

LEMMA SendFit == ASSUME Sound, Fit, NEW p \in Player, Send(p) PROVE Fit'
<1>1. /\ p \in Node /\ up \in [Node -> Seq(Status)] /\ P[p] \in Status
      /\ pc[p] = "send" /\ up' = [up EXCEPT ![p] = Append(@, P[p])] /\ pc' = [pc EXCEPT ![p] = "wait"]
      /\ UNCHANGED <<down, held, winner, P, fifo>>
  BY ChildrenAreNodes, StatusThere DEF Send, Sound, TypeOK, Players
<1>2. Able(P[p])
  BY <1>1 DEF Fit, FitPlayers
<1>3. \A s \in Entries(up'[p]) : Able(s)
  <2>1. up'[p] = Append(up[p], P[p]) /\ up[p] \in Seq(Status)
    BY <1>1
  <2>2. Entries(up'[p]) = Entries(up[p]) \cup {P[p]}
    BY <1>1, <2>1, Contents
  <2> QED BY <1>1, <1>2, <2>2 DEF Fit, FitPipes
<1>4. \A n \in Node \ {p} : up'[n] = up[n] /\ down'[n] = down[n]
  BY <1>1
<1> QED BY <1>1, <1>3, <1>4, PlayerFit DEF Fit, FitPipes, FitPlayers

\* The FIFO of an agent after a step that takes from it, or adds one that can fight.
LEMMA FifosFit ==
  ASSUME Sound, Fit, NEW a \in Player,
         \/ fifo[a] # <<>> /\ fifo' = [fifo EXCEPT ![a] = Tail(@)]
         \/ \E s \in Status : Able(s) /\ fifo' = [fifo EXCEPT ![a] = Append(@, s)]
  PROVE  \A q \in Player : \A s \in Entries(fifo'[q]) : Able(s)
<1>1. fifo \in [Player -> Seq(Status)] /\ fifo[a] \in Seq(Status)
  BY DEF Sound, TypeOK
<1>2. \A s \in Entries(fifo'[a]) : s \in Entries(fifo[a]) \/ Able(s)
  <2>1. CASE fifo[a] # <<>> /\ fifo' = [fifo EXCEPT ![a] = Tail(@)]
    <3>1. fifo'[a] = Tail(fifo[a])
      BY <1>1, <2>1
    <3> QED BY <1>1, <2>1, <3>1, Contents
  <2>2. ASSUME NEW s \in Status, Able(s), fifo' = [fifo EXCEPT ![a] = Append(@, s)]
        PROVE  \A x \in Entries(fifo'[a]) : x \in Entries(fifo[a]) \/ Able(x)
    <3>1. fifo'[a] = Append(fifo[a], s)
      BY <1>1, <2>2
    <3>2. Entries(fifo'[a]) = Entries(fifo[a]) \cup {s}
      BY <1>1, <3>1, Contents
    <3> QED BY <2>2, <3>2
  <2> QED BY <2>1, <2>2
<1>3. \A q \in Player \ {a} : fifo'[q] = fifo[q]
  BY <1>1
<1> QED BY <1>2, <1>3 DEF Fit, FitPlayers

\* Who is beaten hands over a status with the health it began with.
LEMMA HandsOver ==
  ASSUME Sound, Fit, NEW p \in Player, HandOver(p)
  PROVE  \E a \in Player, s \in Status :
           /\ Able(s) /\ P[p].battle \in ZoneA /\ a = Agent[P[p].battle]
           /\ fifo' = [fifo EXCEPT ![a] = Append(@, s)] /\ pc[p] = "lost" /\ pc' = [pc EXCEPT ![p] = "exited"]
           /\ UNCHANGED <<up, down, held, winner, P, hp, champion, defeats, file, failed>>
<1>1. PICK a \in Player : a = Agent[P[p].battle]
  BY TreeAssumption DEF HandOver, Sound, Players, ZoneA
<1> DEFINE s == [P[p] EXCEPT !.HP = hp[p]]
<1>2. /\ pc[p] = "lost" /\ pc' = [pc EXCEPT ![p] = "exited"] /\ P[p].battle \in ZoneA
      /\ fifo' = [fifo EXCEPT ![a] = Append(@, s)] /\ P[p] \in Status /\ P[p] # NoStatus
      /\ UNCHANGED <<up, down, held, winner, P, hp, champion, defeats, file, failed>>
  BY <1>1, StatusThere DEF HandOver, pipes, Sound, TypeOK, Players
<1>3. hp[p] = Health[P[p].id] /\ P[p].ended = 0
  BY <1>2 DEF Sound, Players, Fit, FitPlayers
<1>4. hp[p] \in Nat \ {0}
  BY <1>2, <1>3, StrengthAssumption DEF Sound, TypeOK, Health, Status
<1>5. s \in Status /\ s.HP = hp[p] /\ s.ended = 0
  BY <1>2, <1>3, <1>4 DEF Status
<1> HIDE DEF s
<1>6. Able(s)
  BY <1>4, <1>5 DEF Able
<1> QED BY <1>1, <1>2, <1>5, <1>6

LEMMA HandOverFit == ASSUME Sound, Fit, NEW p \in Player, HandOver(p) PROVE Fit'
<1>1. \A q \in Player : \A s \in Entries(fifo'[q]) : Able(s)
  BY HandsOver, FifosFit
<1>2. pc' = [pc EXCEPT ![p] = "exited"] /\ UNCHANGED <<up, down, held, winner, P>>
  BY HandsOver
<1> QED BY <1>1, <1>2, PlayerFit, ChildrenAreNodes DEF Fit, FitPipes

LEMMA TakeOverFit == ASSUME Sound, Fit, NEW p \in Player, TakeOver(p) \/ TakeOverFails(p) PROVE Fit'
<1>1. /\ fifo[p] # <<>> /\ fifo' = [fifo EXCEPT ![p] = Tail(@)] /\ UNCHANGED <<up, down, held, winner>>
      /\ \/ pc' = [pc EXCEPT ![p] = "send"] /\ P' = [P EXCEPT ![p] = Head(fifo[p])]
         \/ pc' = [pc EXCEPT ![p] = "exited"] /\ UNCHANGED P
  BY DEF TakeOver, TakeOverFails, pipes
<1>2. \A q \in Player : \A s \in Entries(fifo'[q]) : Able(s)
  BY <1>1, FifosFit
<1>3. Able(Head(fifo[p]))
  BY <1>1, Contents DEF Sound, TypeOK, Fit, FitPlayers
<1>4. \/ pc' = [pc EXCEPT ![p] = "send"] /\ Able(P'[p])
      \/ pc' = [pc EXCEPT ![p] = "exited"]
  BY <1>1, <1>3 DEF Sound, TypeOK
<1>5. \A q \in Player \ {p} : P'[q] = P[q]
  BY <1>1 DEF Sound, TypeOK
<1> QED BY <1>1, <1>2, <1>4, <1>5, PlayerFit, ChildrenAreNodes DEF Fit, FitPipes

\* n is the loser of b, or will be told so.
Loss(b, s) == s.battle = b /\ s.ended = 1 /\ s.HP <= 0
Loses(b, n) ==
  \/ n \in Player /\ pc[n] = "lost" /\ P[n].battle = b
  \/ (n \in Player => pc[n] = "wait") /\ \E s \in Entries(down[n]) : Loss(b, s)

\* A player goes on with a status that can fight, or is lost by the one it gets.
LEMMA Gets ==
  ASSUME Sound, Fit, NEW p \in Player, Receive(p)
  PROVE  \E x \in Entries(down[p]), y \in Status, v \in {"send", "lost", "exited"} :
           /\ pc[p] = "wait" /\ down[p] # <<>> /\ down' = [down EXCEPT ![p] = Tail(@)]
           /\ pc' = [pc EXCEPT ![p] = v] /\ P' = [P EXCEPT ![p] = y] /\ P[p] # NoStatus
           /\ UNCHANGED <<up, held, winner, hp, fifo, champion, defeats, file, failed>>
           /\ v = "send" => Able(y)
           /\ v = "lost" => y.ended = 0 /\ Loss(y.battle, x)
<1>1. /\ p \in Node /\ p \notin Battle /\ down[p] \in Seq(Status) /\ hp[p] \in Nat
      /\ down[p] # <<>> /\ down' = [down EXCEPT ![p] = Tail(@)] /\ pc[p] = "wait"
      /\ UNCHANGED <<up, held, winner, hp, fifo, champion, defeats, file, failed>>
  BY ChildrenAreNodes DEF Receive, Sound, TypeOK
<1>2. PICK x \in Status : x = Head(down[p]) /\ x \in Entries(down[p])
  BY <1>1, Contents, TakenOut
<1>3. P[p] # NoStatus /\ hp[p] \in Nat \ {0}
  <2>1. P[p] # NoStatus /\ hp[p] = Health[P[p].id]
    BY GetsItsOwn DEF Sound, Players
  <2>2. P[p].id \in Real
    BY <2>1, StatusThere DEF Sound, TypeOK
  <2> QED BY <2>1, <2>2, StrengthAssumption DEF Sound, TypeOK, Health
<1>4. x.HP > 0 \/ x.ended = 1
  BY <1>1, <1>2 DEF Fit, FitPipes
<1> DEFINE e == [x EXCEPT !.ended = 0]
           g == Healed(x, hp[p])
<1>5. e \in Status /\ e.ended = 0 /\ e.battle = x.battle /\ x.HP \in Int
  BY DEF Status
<1>6. CASE x.ended = 0 /\ pc' = [pc EXCEPT ![p] = "send"] /\ P' = [P EXCEPT ![p] = x]
  <2>1. Able(x)
    BY <1>4, <1>6 DEF Able
  <2> QED BY <1>1, <1>2, <1>3, <1>6, <2>1
<1>7. CASE /\ x.ended = 1 /\ x.HP <= 0
           /\ pc' = [pc EXCEPT ![p] = IF x.battle \in ZoneA THEN "lost" ELSE "exited"]
           /\ P' = [P EXCEPT ![p] = e]
  <2>1. Loss(e.battle, x)
    BY <1>5, <1>7 DEF Loss
  <2> HIDE DEF e
  <2> QED BY <1>1, <1>2, <1>3, <1>5, <1>7, <2>1
<1>8. CASE pc' = [pc EXCEPT ![p] = "exited"] /\ P' = [P EXCEPT ![p] = e]
  <2> HIDE DEF e
  <2> QED BY <1>1, <1>2, <1>3, <1>5, <1>8
<1>9. CASE x.HP > 0 /\ pc' = [pc EXCEPT ![p] = "send"] /\ P' = [P EXCEPT ![p] = g]
  <2> DEFINE n == x.HP + (hp[p] - x.HP) \div 2
  <2>1. n \in Int /\ n > 0
    BY <1>3, <1>5, <1>9
  <2>2. g = [x EXCEPT !.ended = 0, !.HP = n]
    BY DEF Healed
  <2> HIDE DEF g, n
  <2>3. g = [id |-> x.id, HP |-> n, battle |-> x.battle, ended |-> 0]
    BY <2>2 DEF Status
  <2>4. g \in Status /\ Able(g)
    BY <2>1, <2>3 DEF Status, Able
  <2> QED BY <1>1, <1>2, <1>3, <1>9, <2>4
<1>10. \/ x.ended = 0 /\ pc' = [pc EXCEPT ![p] = "send"] /\ P' = [P EXCEPT ![p] = x]
       \/ /\ x.ended = 1 /\ x.HP <= 0
          /\ pc' = [pc EXCEPT ![p] = IF x.battle \in ZoneA THEN "lost" ELSE "exited"]
          /\ P' = [P EXCEPT ![p] = e]
       \/ pc' = [pc EXCEPT ![p] = "exited"] /\ P' = [P EXCEPT ![p] = e]
       \/ x.HP > 0 /\ pc' = [pc EXCEPT ![p] = "send"] /\ P' = [P EXCEPT ![p] = g]
  <2> HIDE DEF e, g
  <2> QED BY <1>2 DEF Receive, e, g
<1> HIDE DEF e, g
<1> QED BY <1>6, <1>7, <1>8, <1>9, <1>10

LEMMA ReceiveFit == ASSUME Sound, Fit, NEW p \in Player, Receive(p) PROVE Fit'
<1>1. PICK y \in Status, v \in {"send", "lost", "exited"} :
        /\ down[p] # <<>> /\ down' = [down EXCEPT ![p] = Tail(@)]
        /\ pc' = [pc EXCEPT ![p] = v] /\ P' = [P EXCEPT ![p] = y]
        /\ UNCHANGED <<up, held, winner, fifo>>
        /\ v = "send" => Able(y)
        /\ v = "lost" => y.ended = 0
  BY Gets
<1>2. p \in Node /\ down \in [Node -> Seq(Status)] /\ P \in [Player -> Status \cup {NoStatus}]
  BY ChildrenAreNodes DEF Sound, TypeOK
<1>3. down'[p] = Tail(down[p]) /\ P'[p] = y /\ up'[p] = up[p]
  BY <1>1, <1>2
<1>4. \A s \in Entries(down'[p]) : s.HP > 0 \/ s.ended = 1
  BY <1>1, <1>2, <1>3, Contents DEF Fit, FitPipes
<1>5. \A n \in Node \ {p} : up'[n] = up[n] /\ down'[n] = down[n]
  BY <1>1, <1>2
<1>6. \A q \in Player \ {p} : P'[q] = P[q]
  BY <1>1, <1>2
<1>7. /\ \A s \in Entries(up'[p]) : Able(s)
      /\ \A q \in Player : \A s \in Entries(fifo'[q]) : Able(s)
  BY <1>1, <1>2 DEF Fit, FitPipes, FitPlayers
<1> QED BY <1>1, <1>3, <1>4, <1>5, <1>6, <1>7, PlayerFit

\* A battle moves.
LEMMA BattleFit ==
  ASSUME Sound, Fit, NEW b \in Battle, Process(b), \A n \in Node \ {b} : pc'[n] = pc[n],
         UNCHANGED fifo,
         \A n \in {b, Left[b], Right[b]} : /\ \A s \in Entries(up'[n]) : s \in Entries(up[n]) \/ Able(s)
                                           /\ \A s \in Entries(down'[n]) : s \in Entries(down[n]) \/ s.HP > 0 \/ s.ended = 1,
         \A n \in Node : n \notin {Left[b], Right[b]} => held'[n] = held[n],
         pc'[b] = "right" => Able(held'[Left[b]]),
         pc'[b] = "feedback" => Able(held'[winner'[b]])
  PROVE  Fit'
<1>1. /\ \A c \in Battle \ {b} : winner'[c] = winner[c]
      /\ UNCHANGED P
      /\ \A n \in Node : n \notin {b, Left[b], Right[b]} => up'[n] = up[n] /\ down'[n] = down[n]
  BY BattleMoves
<1>2. FitPipes'
  <2> SUFFICES ASSUME NEW n \in Node PROVE /\ \A s \in Entries(up'[n]) : Able(s)
                                           /\ \A s \in Entries(down'[n]) : s.HP > 0 \/ s.ended = 1
    BY DEF FitPipes, Able
  <2>1. CASE n \in {b, Left[b], Right[b]}
    BY <2>1 DEF Fit, FitPipes
  <2>2. CASE n \notin {b, Left[b], Right[b]}
    BY <1>1, <2>2 DEF Fit, FitPipes
  <2> QED BY <2>1, <2>2
<1>3. FitPlayers'
  BY <1>1, ChildrenAreNodes DEF Fit, FitPlayers, Able
<1>4. FitBattles'
  <2> SUFFICES ASSUME NEW c \in Battle, c # b
               PROVE  /\ pc'[c] = "right" => Able(held'[Left[c]])
                      /\ pc'[c] = "feedback" => Able(held'[winner'[c]])
    BY DEF FitBattles, Able
  <2>1. pc'[c] = pc[c] /\ winner'[c] = winner[c]
    BY <1>1, ChildrenAreNodes
  <2>2. \A n \in {Left[c], Right[c]} : n \in Node /\ n \notin {Left[b], Right[b]}
    BY OneParent
  <2>3. pc[c] = "feedback" => winner[c] \in {Left[c], Right[c]}
    BY DEF Sound, Battles
  <2> QED BY <2>1, <2>2, <2>3 DEF Fit, FitBattles
<1> QED BY <1>2, <1>3, <1>4 DEF Fit

\* Two that can fight: one of them still can after the round.
LEMMA OneCanFight ==
  ASSUME Sound, Fit, NEW b \in Battle, ReadRight(b), NEW l, l = Left[b], NEW r, r = Right[b]
  PROVE  \E s \in Status, t \in Status :
           /\ Fought(b, l, r, s, t)
           /\ s.HP > 0 \/ t.HP > 0
           /\ s.HP > 0 \/ s.ended = 1
           /\ t.HP > 0 \/ t.ended = 1
<1>1. PICK s \in Status, t \in Status : Fought(b, l, r, s, t)
  BY RoundFought
<1>2. held[l] \in Status /\ Head(up[r]) \in Status /\ r \in Node
  BY RoundFought
<1>3. Able(held[l]) /\ Able(Head(up[r]))
  <2>1. Head(up[r]) \in Entries(up[r])
    BY <1>1, <1>2, PipeTypes, Contents DEF Fought
  <2> QED BY <1>1, <1>2, <2>1 DEF Fought, Fit, FitPipes, FitBattles
<1>4. LET out == Fight(b, held[l], Head(up[r]))
      IN  /\ out[1].HP > 0 \/ out[2].HP > 0
          /\ out[1].HP <= 0 \/ out[2].HP <= 0 => out[1].ended = 1 /\ out[2].ended = 1
  BY <1>2, <1>3, FightHurts DEF Able, Sound, TypeOK
<1>5. /\ s.HP > 0 \/ t.HP > 0
      /\ s.HP <= 0 \/ t.HP <= 0 => s.ended = 1 /\ t.ended = 1
  BY <1>1, <1>4 DEF Fought
<1>6. s.HP \in Int /\ t.HP \in Int
  BY DEF Status
<1> QED BY <1>1, <1>5, <1>6

LEMMA ReadRightFit == ASSUME Sound, Fit, NEW b \in Battle, ReadRight(b) PROVE Fit'
<1>1. PICK l, r : l = Left[b] /\ r = Right[b]
  OBVIOUS
<1>2. PICK s \in Status, t \in Status :
        /\ Fought(b, l, r, s, t)
        /\ s.HP > 0 \/ s.ended = 1
        /\ t.HP > 0 \/ t.ended = 1
  BY <1>1, OneCanFight
<1>3. /\ l \in Node /\ r \in Node /\ l # r /\ b \in Node /\ b # l /\ b # r
  BY <1>1, ChildrenAreNodes, NotItsOwnChild
<1>4. /\ up \in [Node -> Seq(Status)] /\ down \in [Node -> Seq(Status)]
      /\ held \in [Node -> Status \cup {NoStatus}]
  BY DEF Sound, TypeOK
<1>5. /\ up[r] # <<>> /\ up' = [up EXCEPT ![r] = Tail(@)]
      /\ held' = [held EXCEPT ![l] = s, ![r] = t]
      /\ down' = [down EXCEPT ![l] = Append(@, s), ![r] = Append(@, t)]
      /\ pc' = [pc EXCEPT ![b] = "left"] \/ pc' = [pc EXCEPT ![b] = "reap"]
      /\ UNCHANGED fifo
  BY <1>2 DEF Fought
<1>6. /\ up'[r] = Tail(up[r]) /\ up'[l] = up[l] /\ up'[b] = up[b]
      /\ down'[l] = Append(down[l], s) /\ down'[r] = Append(down[r], t) /\ down'[b] = down[b]
      /\ pc'[b] \in {"left", "reap"} /\ \A n \in Node \ {b} : pc'[n] = pc[n]
      /\ \A n \in Node : n \notin {l, r} => held'[n] = held[n]
  BY <1>3, <1>4, <1>5 DEF Sound, TypeOK
<1>7. /\ Entries(up'[r]) \subseteq Entries(up[r])
      /\ Entries(down'[l]) = Entries(down[l]) \cup {s} /\ Entries(down'[r]) = Entries(down[r]) \cup {t}
  <2>1. up[r] \in Seq(Status) /\ down[l] \in Seq(Status) /\ down[r] \in Seq(Status)
    BY <1>3, <1>4
  <2>2. Entries(up'[r]) \subseteq Entries(up[r])
    BY <1>5, <1>6, <2>1, Contents
  <2>3. Entries(down'[l]) = Entries(down[l]) \cup {s}
    BY <1>6, <2>1, Contents
  <2>4. Entries(down'[r]) = Entries(down[r]) \cup {t}
    BY <1>6, <2>1, Contents
  <2> QED BY <2>2, <2>3, <2>4
<1>8. Process(b)
  BY DEF Process
<1> QED BY <1>1, <1>2, <1>5, <1>6, <1>7, <1>8, BattleFit

LEMMA ReadLeftFit == ASSUME Sound, Fit, NEW b \in Battle, ReadLeft(b) PROVE Fit'
<1>1. PICK l, r : l = Left[b] /\ r = Right[b]
  OBVIOUS
<1>2. /\ l \in Node /\ r \in Node /\ l # r /\ b \in Node /\ b # l /\ b # r
  BY <1>1, ChildrenAreNodes, NotItsOwnChild
<1>3. /\ up \in [Node -> Seq(Status)] /\ held \in [Node -> Status \cup {NoStatus}]
  BY DEF Sound, TypeOK
<1>4. /\ up[l] # <<>> /\ up' = [up EXCEPT ![l] = Tail(@)] /\ held' = [held EXCEPT ![l] = Head(up[l])]
      /\ pc' = [pc EXCEPT ![b] = "right"] /\ UNCHANGED <<down, fifo>>
  BY <1>1 DEF ReadLeft
<1>5. /\ Entries(up'[l]) \subseteq Entries(up[l]) /\ Able(held'[l])
      /\ up'[r] = up[r] /\ up'[b] = up[b]
      /\ pc'[b] = "right" /\ \A n \in Node \ {b} : pc'[n] = pc[n]
      /\ \A n \in Node : n # l => held'[n] = held[n]
  <2>1. Head(up[l]) \in Entries(up[l]) /\ Entries(Tail(up[l])) \subseteq Entries(up[l])
    BY <1>2, <1>3, <1>4, Contents
  <2>2. Able(Head(up[l]))
    BY <1>2, <2>1 DEF Fit, FitPipes
  <2> QED BY <1>2, <1>3, <1>4, <2>1, <2>2 DEF Sound, TypeOK
<1>6. Process(b)
  BY DEF Process
<1> QED BY <1>1, <1>4, <1>5, <1>6, BattleFit

LEMMA RelayUpFit == ASSUME Sound, Fit, NEW b \in Battle, RelayUp(b) PROVE Fit'
<1>1. PICK l, r, w : l = Left[b] /\ r = Right[b] /\ w = winner[b] /\ (w = l \/ w = r)
  BY DEF RelayUp, Sound, Battles
<1>2. /\ l \in Node /\ r \in Node /\ w \in Node /\ l # r /\ b \in Node /\ b # l /\ b # r
  BY <1>1, ChildrenAreNodes, NotItsOwnChild
<1>3. /\ up \in [Node -> Seq(Status)] /\ held \in [Node -> Status \cup {NoStatus}]
  BY DEF Sound, TypeOK
<1>4. /\ up[w] # <<>> /\ up' = [up EXCEPT ![w] = Tail(@), ![b] = Append(@, Head(up[w]))]
      /\ held' = [held EXCEPT ![w] = Head(up[w])]
      /\ pc' = [pc EXCEPT ![b] = "feedback"] /\ UNCHANGED <<down, winner, fifo>>
  BY <1>1 DEF RelayUp
<1>5. Able(Head(up[w])) /\ Head(up[w]) \in Status /\ Entries(Tail(up[w])) \subseteq Entries(up[w])
  <2>1. Head(up[w]) \in Entries(up[w]) /\ Entries(Tail(up[w])) \subseteq Entries(up[w])
    BY <1>2, <1>3, <1>4, Contents
  <2> QED BY <1>2, <1>3, <1>4, <2>1, TakenOut DEF Fit, FitPipes
<1>6. /\ up'[w] = Tail(up[w]) /\ up'[b] = Append(up[b], Head(up[w])) /\ held'[w] = Head(up[w])
      /\ \A n \in Node \ {w, b} : up'[n] = up[n]
      /\ pc'[b] = "feedback" /\ \A n \in Node \ {b} : pc'[n] = pc[n]
      /\ \A n \in Node : n # w => held'[n] = held[n]
  BY <1>1, <1>2, <1>3, <1>4 DEF Sound, TypeOK
<1>7. \A n \in {b, l, r} : \A s \in Entries(up'[n]) : s \in Entries(up[n]) \/ Able(s)
  <2>1. Entries(up'[b]) = Entries(up[b]) \cup {Head(up[w])}
    BY <1>2, <1>3, <1>5, <1>6, Contents
  <2> QED BY <1>1, <1>2, <1>5, <1>6, <2>1
<1>8. Process(b)
  BY DEF Process
<1>9. Able(held'[winner'[b]])
  BY <1>1, <1>4, <1>5, <1>6
<1>10. \A n \in Node : n \notin {l, r} => held'[n] = held[n]
  BY <1>1, <1>6
<1>11. UNCHANGED <<down, fifo>> /\ pc'[b] = "feedback" /\ \A n \in Node \ {b} : pc'[n] = pc[n]
  BY <1>4, <1>6
<1> QED BY <1>1, <1>7, <1>8, <1>9, <1>10, <1>11, BattleFit

LEMMA RelayDownFit == ASSUME Sound, Fit, NEW b \in Battle, RelayDown(b) PROVE Fit'
<1>1. PICK l, r, w : l = Left[b] /\ r = Right[b] /\ w = winner[b] /\ (w = l \/ w = r)
  BY DEF RelayDown, Sound, Battles
<1>2. /\ l \in Node /\ r \in Node /\ w \in Node /\ l # r /\ b \in Node /\ b # l /\ b # r
  BY <1>1, ChildrenAreNodes, NotItsOwnChild
<1>3. /\ down \in [Node -> Seq(Status)] /\ held \in [Node -> Status \cup {NoStatus}]
  BY DEF Sound, TypeOK
<1>4. /\ down[b] # <<>> /\ down' = [down EXCEPT ![b] = Tail(@), ![w] = Append(@, Head(down[b]))]
      /\ held' = [held EXCEPT ![w] = Head(down[b])]
      /\ pc' = [pc EXCEPT ![b] = "relay"] /\ UNCHANGED <<up, winner, fifo>>
  BY <1>1 DEF RelayDown
<1>5. /\ Head(down[b]) \in Entries(down[b]) /\ Head(down[b]) \in Status
      /\ Entries(Tail(down[b])) \subseteq Entries(down[b])
  BY <1>2, <1>3, <1>4, Contents, TakenOut
<1>6. /\ down'[b] = Tail(down[b]) /\ down'[w] = Append(down[w], Head(down[b]))
      /\ \A n \in Node \ {w, b} : down'[n] = down[n]
      /\ pc'[b] = "relay" /\ \A n \in Node \ {b} : pc'[n] = pc[n]
      /\ \A n \in Node : n # w => held'[n] = held[n]
  BY <1>1, <1>2, <1>3, <1>4 DEF Sound, TypeOK
<1>7. \A n \in {b, l, r} : \A s \in Entries(down'[n]) : s \in Entries(down[n]) \/ s.HP > 0 \/ s.ended = 1
  <2>1. Entries(down'[w]) = Entries(down[w]) \cup {Head(down[b])}
    BY <1>2, <1>3, <1>5, <1>6, Contents
  <2>2. Head(down[b]).HP > 0 \/ Head(down[b]).ended = 1
    BY <1>2, <1>5 DEF Fit, FitPipes
  <2> QED BY <1>1, <1>2, <1>5, <1>6, <2>1, <2>2
<1>8. Process(b)
  BY DEF Process
<1> QED BY <1>1, <1>4, <1>6, <1>7, <1>8, BattleFit

\* What a battle sends back without an answer, or after a fight without a right.
LEMMA SentBackFit ==
  ASSUME Sound, Fit, NEW b \in Battle, Process(b), NEW n \in {Left[b], Right[b]}, NEW s \in Status,
         s.HP > 0 \/ s.ended = 1, down' = [down EXCEPT ![n] = Append(@, s)],
         NEW v \in {"relay", "exited"}, pc' = [pc EXCEPT ![b] = v], UNCHANGED <<up, held, winner, fifo>>
  PROVE  Fit'
<1>1. n \in Node /\ b \in Node /\ down \in [Node -> Seq(Status)]
  BY ChildrenAreNodes DEF Sound, TypeOK
<1>2. /\ down'[n] = Append(down[n], s) /\ \A m \in Node \ {n} : down'[m] = down[m]
      /\ pc'[b] = v /\ \A m \in Node \ {b} : pc'[m] = pc[m]
  BY <1>1 DEF Sound, TypeOK
<1>3. Entries(down'[n]) = Entries(down[n]) \cup {s}
  BY <1>1, <1>2, Contents
<1>4. \A m \in {b, Left[b], Right[b]} : \A x \in Entries(down'[m]) : x \in Entries(down[m]) \/ x.HP > 0 \/ x.ended = 1
  BY <1>1, <1>2, <1>3, ChildrenAreNodes
<1> QED BY <1>2, <1>4, BattleFit

LEMMA FeedbackEndFit == ASSUME Sound, Fit, NEW b \in Battle, FeedbackEnd(b) PROVE Fit'
<1>1. PICK w \in {Left[b], Right[b]} : w = winner[b] /\ held[w].id # None
  BY DEF FeedbackEnd, Sound, Battles
<1>2. Able(held[w]) /\ held[w] \in Status
  BY <1>1, StatusThere, ChildrenAreNodes DEF FeedbackEnd, Fit, FitBattles, Sound, TypeOK
<1>3. Process(b)
  BY DEF Process
<1> QED BY <1>1, <1>2, <1>3, SentBackFit DEF FeedbackEnd, Able

\* What the left child gets when there is no right one.
LEMMA LeftGets ==
  ASSUME Sound, NEW b \in Battle, ReadRightEnd(b)
  PROVE  \E s \in Status : /\ s.battle = b
                           /\ s.HP > 0 \/ s.ended = 1
                           /\ down' = [down EXCEPT ![Left[b]] = Append(@, s)]
                           /\ pc[b] = "right" /\ pc' = [pc EXCEPT ![b] = "exited"]
                           /\ UNCHANGED <<up, held, winner, P, hp, fifo, champion, defeats, file, failed>>
<1>1. PICK l : l = Left[b] /\ l \in Node
  BY ChildrenAreNodes
<1>2. /\ pc[b] = "right" /\ held[l].id # None /\ pc' = [pc EXCEPT ![b] = "exited"]
      /\ UNCHANGED <<up, held, winner, P, hp, fifo, champion, defeats, file, failed>>
  BY <1>1 DEF ReadRightEnd, Sound, Battles
<1>3. PICK h \in Garbage \cup {held[l].HP}, e \in {0, 1} :
        /\ h <= 0 => e = 1
        /\ down' = [down EXCEPT ![l] = Append(@, [held[l] EXCEPT !.HP = h, !.battle = b, !.ended = e])]
  BY <1>1 DEF ReadRightEnd
<1> DEFINE s == [held[l] EXCEPT !.HP = h, !.battle = b, !.ended = e]
<1>4. held[l] \in Status /\ h \in Int
  <2>1. held[l] \in Status
    BY <1>1, <1>2, StatusThere DEF Sound, TypeOK
  <2> QED BY <2>1, TreeAssumption DEF Status
<1>5. s \in Status /\ s.battle = b /\ s.HP = h /\ s.ended = e
  BY <1>4 DEF Status
<1>6. down' = [down EXCEPT ![l] = Append(@, s)]
  BY <1>3
<1> HIDE DEF s
<1>7. s.HP > 0 \/ s.ended = 1
  BY <1>3, <1>4, <1>5
<1> QED BY <1>1, <1>2, <1>5, <1>6, <1>7

LEMMA ReadRightEndFit == ASSUME Sound, Fit, NEW b \in Battle, ReadRightEnd(b) PROVE Fit'
<1>1. Process(b)
  BY DEF Process
<1> QED BY <1>1, LeftGets, SentBackFit

LEMMA MovesFit ==
  ASSUME Sound, Fit, NEW n \in Node,
         \/ n \in Battle /\ (Reap(n) \/ Finish(n) \/ ReadLeftEnd(n))
         \/ Orphaned(n)
  PROVE  Fit'
<1>1. /\ UNCHANGED <<up, down, held, winner, P, hp, fifo, champion, defeats, file, failed>>
      /\ pc' = [pc EXCEPT ![n] = "exited"] \/ pc' = [pc EXCEPT ![n] = "relay"]
  BY DEF Reap, Finish, ReadLeftEnd, Orphaned, pipes
<1>2. pc'[n] \in {"exited", "relay"} /\ \A m \in Node \ {n} : pc'[m] = pc[m]
  BY <1>1 DEF Sound, TypeOK
<1> QED BY <1>1, <1>2, ChildrenAreNodes DEF Fit, FitPipes, FitPlayers, FitBattles, Able

LEMMA HandOverFailsFit == ASSUME Sound, Fit, NEW p \in Player, HandOverFails(p) PROVE Fit'
<1>1. pc' = [pc EXCEPT ![p] = "exited"] /\ UNCHANGED <<up, down, held, winner, P, fifo>>
  BY DEF HandOverFails, pipes
<1> QED BY <1>1, PlayerFit, ChildrenAreNodes DEF Fit, FitPipes, FitPlayers

LEMMA InitFit == Init => Fit
<1> SUFFICES ASSUME Init PROVE Fit
  OBVIOUS
<1>1. Entries(<<>>) = {}
  BY NothingIn, Contents
<1>2. \A p \in Player : /\ pc[p] = "send" => p \in Real
                        /\ pc[p] # "lost"
  BY ChildrenAreNodes DEF Init
<1>3. \A p \in Real : Able(P[p])
  <2> SUFFICES ASSUME NEW p \in Real PROVE Able(P[p])
    OBVIOUS
  <2>1. P[p] = [id |-> p, HP |-> Health[p], battle |-> None, ended |-> 0]
    BY ChildrenAreNodes DEF Init, NoStatus
  <2>2. Health[p] \in Nat \ {0}
    <3>1. file \in Files
      BY DEF Init
    <3> QED BY <3>1, StrengthAssumption DEF Health
  <2> QED BY <2>1, <2>2 DEF Able
<1>4. \A b \in Battle : pc[b] \in {"left", "exited"}
  BY ChildrenAreNodes DEF Init
<1> QED BY <1>1, <1>2, <1>3, <1>4, ChildrenAreNodes DEF Init, Fit, FitPipes, FitPlayers, FitBattles

LEMMA NextFit == Sound /\ Fit /\ [Next]_vars => Fit'
<1> SUFFICES ASSUME Sound, Fit, [Next]_vars PROVE Fit'
  OBVIOUS
<1>1. CASE UNCHANGED vars
  BY <1>1 DEF vars, pipes, Fit, FitPipes, FitPlayers, FitBattles, Able
<1>2. CASE Next
  BY <1>2, SendFit, ReceiveFit, HandOverFit, TakeOverFit, HandOverFailsFit, ReadLeftFit, ReadRightFit,
     RelayUpFit, RelayDownFit, ReadRightEndFit, FeedbackEndFit, MovesFit, ChildrenAreNodes DEF Next, Process
<1> QED BY <1>1, <1>2

LEMMA AlwaysFit == Spec => []Fit
BY InitFit, NextFit, AlwaysSound, PTL DEF Spec

\* The parent of n has heard from it, or will; the world has heard from the root.
Heard(n) == IF n = Root THEN champion # None ELSE up[n] # <<>> \/ held[n] # NoStatus

\* Nothing that was heard is forgotten, and only three steps bring news.
LEMMA Hearing ==
  ASSUME Sound, [Next]_vars, NEW n \in Node
  PROVE  /\ Heard(n) => Heard(n)'
         /\ Heard(n)' => \/ Heard(n)
                         \/ n \in Player /\ Send(n)
                         \/ n \in Battle /\ RelayUp(n)
                         \/ n = Root /\ ReadRight(n)
<1>1. /\ up \in [Node -> Seq(Status)] /\ held \in [Node -> Status \cup {NoStatus}]
      /\ champion \in Real \cup {None} /\ down \in [Node -> Seq(Status)]
  BY DEF Sound, TypeOK
<1>2. CASE UNCHANGED <<up, held, champion>>
  BY <1>2 DEF Heard
<1>3. ASSUME NEW p \in Player, Send(p)
      PROVE  (Heard(n) => Heard(n)') /\ (Heard(n)' => Heard(n) \/ n = p)
  <2>1. /\ p \in Node /\ P[p] \in Status /\ up' = [up EXCEPT ![p] = Append(@, P[p])]
        /\ UNCHANGED <<held, champion>>
    BY <1>3, ChildrenAreNodes, StatusThere DEF Send, Sound, TypeOK, Players
  <2>2. up'[p] # <<>>
    <3>1. up'[p] = Append(up[p], P[p]) /\ up[p] \in Seq(Status)
      BY <1>1, <2>1
    <3> QED BY <2>1, <3>1, Contents
  <2> QED BY <1>1, <2>1, <2>2 DEF Heard
<1>4. ASSUME NEW b \in Battle, ReadLeft(b)
      PROVE  Heard(n)' <=> Heard(n)
  <2>1. PICK l : l = Left[b] /\ l \in Node
    BY ChildrenAreNodes
  <2>2. /\ up[l] # <<>> /\ up' = [up EXCEPT ![l] = Tail(@)] /\ held' = [held EXCEPT ![l] = Head(up[l])]
        /\ UNCHANGED champion
    BY <1>4, <2>1 DEF ReadLeft
  <2>3. held'[l] # NoStatus
    BY <1>1, <2>1, <2>2, TakenOut, StatusThere
  <2> QED BY <1>1, <2>1, <2>2, <2>3 DEF Heard
<1>5. ASSUME NEW b \in Battle, ReadRight(b)
      PROVE  (Heard(n) => Heard(n)') /\ (Heard(n)' => Heard(n) \/ (n = Root /\ b = Root))
  <2>1. PICK l, r : l = Left[b] /\ r = Right[b]
    OBVIOUS
  <2>2. PICK s \in Status, t \in Status : Fought(b, l, r, s, t)
    BY <1>5, <2>1, RoundFought
  <2>3. l \in Node /\ r \in Node /\ l # Root /\ r # Root /\ l # r
    BY <2>1, ChildrenAreNodes, OneParent
  <2>4. /\ up[r] # <<>> /\ up' = [up EXCEPT ![r] = Tail(@)] /\ held' = [held EXCEPT ![l] = s, ![r] = t]
        /\ champion' \in {champion, s.id, t.id} /\ held[l] # NoStatus
    BY <1>1, <2>1, <2>2, <2>3, StatusThere DEF Fought, Sound, Battles
  <2>5. b # Root => champion' = champion
    BY <1>5 DEF ReadRight
  <2>6. s # NoStatus /\ t # NoStatus /\ s.id # None /\ t.id # None
    BY StatusThere
  <2>7. /\ \A m \in Node \ {l, r} : up'[m] = up[m] /\ held'[m] = held[m]
        /\ held'[l] = s /\ held'[r] = t
    BY <1>1, <2>3, <2>4
  <2> QED BY <2>3, <2>4, <2>5, <2>6, <2>7 DEF Heard
<1>6. ASSUME NEW b \in Battle, RelayUp(b)
      PROVE  (Heard(n) => Heard(n)') /\ (Heard(n)' => Heard(n) \/ n = b)
  <2>1. PICK w \in {Left[b], Right[b]} : w = winner[b]
    BY <1>6 DEF RelayUp, Sound, Battles
  <2>2. w \in Node /\ w # Root /\ b \in Node /\ w # b
    BY ChildrenAreNodes, OneParent, NotItsOwnChild
  <2>3. /\ up[w] # <<>> /\ up' = [up EXCEPT ![w] = Tail(@), ![b] = Append(@, Head(up[w]))]
        /\ held' = [held EXCEPT ![w] = Head(up[w])] /\ UNCHANGED champion
    BY <1>6, <2>1 DEF RelayUp
  <2>4. Head(up[w]) \in Status /\ Head(up[w]) # NoStatus
    BY <1>1, <2>2, <2>3, TakenOut, StatusThere
  <2>5. /\ held'[w] = Head(up[w]) /\ up'[b] = Append(up[b], Head(up[w]))
        /\ \A m \in Node \ {w, b} : up'[m] = up[m]
        /\ \A m \in Node \ {w} : held'[m] = held[m]
    BY <1>1, <2>2, <2>3
  <2>6. up'[b] # <<>>
    <3>1. up[b] \in Seq(Status)
      BY <1>1, <2>2
    <3> QED BY <2>4, <2>5, <3>1, Contents
  <2> QED BY <2>2, <2>3, <2>4, <2>5, <2>6 DEF Heard
<1>7. ASSUME NEW b \in Battle, RelayDown(b)
      PROVE  Heard(n)' <=> Heard(n)
  <2>1. PICK w \in {Left[b], Right[b]} : w = winner[b] /\ held[w].id # None
    BY <1>7 DEF RelayDown, Sound, Battles
  <2>2. w \in Node /\ b \in Node /\ held[w] # NoStatus
    BY <1>1, <2>1, ChildrenAreNodes, StatusThere
  <2>3. /\ down[b] # <<>> /\ held' = [held EXCEPT ![w] = Head(down[b])] /\ UNCHANGED <<up, champion>>
    BY <1>7, <2>1 DEF RelayDown
  <2>4. held'[w] # NoStatus /\ \A m \in Node \ {w} : held'[m] = held[m]
    BY <1>1, <2>2, <2>3, TakenOut, StatusThere
  <2> QED BY <2>2, <2>3, <2>4 DEF Heard
<1>8. \/ UNCHANGED <<up, held, champion>>
      \/ \E p \in Player : Send(p)
      \/ \E b \in Battle : ReadLeft(b) \/ ReadRight(b) \/ RelayUp(b) \/ RelayDown(b)
  <2>1. ASSUME NEW p \in Player, Receive(p) \/ HandOver(p) \/ TakeOver(p) \/ HandOverFails(p) \/ TakeOverFails(p)
        PROVE  UNCHANGED <<up, held, champion>>
    BY <2>1 DEF Receive, HandOver, TakeOver, HandOverFails, TakeOverFails, pipes
  <2>2. ASSUME NEW b \in Battle,
               Reap(b) \/ Finish(b) \/ ReadLeftEnd(b) \/ ReadRightEnd(b) \/ FeedbackEnd(b)
        PROVE  UNCHANGED <<up, held, champion>>
    BY <2>2 DEF Reap, Finish, ReadLeftEnd, ReadRightEnd, FeedbackEnd, pipes
  <2>3. ASSUME NEW m \in Node, Orphaned(m) PROVE UNCHANGED <<up, held, champion>>
    BY <2>3 DEF Orphaned, pipes
  <2>4. CASE UNCHANGED vars
    BY <2>4 DEF vars, pipes
  <2> QED BY <2>1, <2>2, <2>3, <2>4 DEF Next, Process
<1> QED BY <1>2, <1>3, <1>4, <1>5, <1>6, <1>7, <1>8

\* A player is heard of when it is somebody, a battle when it has heard from both sides.
Chain ==
  /\ \A p \in Player : Heard(p) => P[p] # NoStatus
  /\ \A b \in Battle : /\ Heard(b) => winner[b] # None
                       /\ winner[b] # None => Heard(Left[b]) /\ Heard(Right[b])

\* Who is somebody remains somebody, and a battle won is won.
LEMMA Settled ==
  ASSUME Sound, [Next]_vars
  PROVE  /\ \A p \in Player : P[p] # NoStatus => P'[p] # NoStatus
         /\ \A p \in Player : P'[p] # NoStatus => P[p] # NoStatus \/ TakeOver(p)
         /\ \A b \in Battle : /\ winner[b] # None => winner'[b] # None
                              /\ winner'[b] # None => winner[b] # None \/ ReadRight(b)
<1>1. /\ P \in [Player -> Status \cup {NoStatus}] /\ winner \in [Battle -> Node \cup {None}]
      /\ fifo \in [Player -> Seq(Status)]
  BY DEF Sound, TypeOK
<1>2. ASSUME NEW p \in Player, Receive(p) \/ TakeOver(p)
      PROVE  UNCHANGED winner /\ \E y \in Status : P' = [P EXCEPT ![p] = y]
  <2>1. CASE Receive(p)
    BY <2>1, GetsItsOwn DEF Receive
  <2>2. CASE TakeOver(p)
    BY <1>1, <2>2, TakenOut DEF TakeOver
  <2> QED BY <1>2, <2>1, <2>2
<1>3. ASSUME NEW p \in Player, Receive(p) \/ TakeOver(p)
      PROVE  UNCHANGED winner /\ \A q \in Player : /\ P[q] # NoStatus => P'[q] # NoStatus
                                                   /\ P'[q] # NoStatus => P[q] # NoStatus \/ TakeOver(q)
  <2>1. \A y \in Status : y # NoStatus
    BY StatusThere
  <2>2. P[p] # NoStatus \/ TakeOver(p)
    BY <1>3, GetsItsOwn
  <2> QED BY <1>1, <1>2, <1>3, <2>1, <2>2
<1>4. ASSUME NEW b \in Battle, ReadRight(b)
      PROVE  UNCHANGED P /\ \A c \in Battle : /\ winner[c] # None => winner'[c] # None
                                              /\ winner'[c] # None => winner[c] # None \/ c = b
  <2>1. \A w : winner' = [winner EXCEPT ![b] = w] => \A c \in Battle \ {b} : winner'[c] = winner[c]
    BY <1>1
  <2>2. winner[b] = None /\ UNCHANGED P /\ (UNCHANGED winner \/ \E w : winner' = [winner EXCEPT ![b] = w])
    BY <1>4 DEF ReadRight, Sound, Battles
  <2> QED BY <2>1, <2>2
<1>5. \/ UNCHANGED <<P, winner>>
      \/ \E p \in Player : Receive(p) \/ TakeOver(p)
      \/ \E b \in Battle : ReadRight(b)
  <2>1. ASSUME NEW p \in Player, Send(p) \/ HandOver(p) \/ HandOverFails(p) \/ TakeOverFails(p)
        PROVE  UNCHANGED <<P, winner>>
    BY <2>1 DEF Send, HandOver, HandOverFails, TakeOverFails
  <2>2. ASSUME NEW b \in Battle,
               \/ ReadLeft(b) \/ RelayUp(b) \/ RelayDown(b) \/ Reap(b) \/ Finish(b)
               \/ ReadLeftEnd(b) \/ ReadRightEnd(b) \/ FeedbackEnd(b)
        PROVE  UNCHANGED <<P, winner>>
    BY <2>2 DEF ReadLeft, RelayUp, RelayDown, Reap, Finish, ReadLeftEnd, ReadRightEnd, FeedbackEnd
  <2>3. ASSUME NEW m \in Node, Orphaned(m) PROVE UNCHANGED <<P, winner>>
    BY <2>3 DEF Orphaned
  <2>4. CASE UNCHANGED vars
    BY <2>4 DEF vars
  <2> QED BY <2>1, <2>2, <2>3, <2>4 DEF Next, Process
<1> QED BY <1>3, <1>4, <1>5

LEMMA InitChain == Init => Chain
<1> SUFFICES ASSUME Init PROVE Chain
  OBVIOUS
<1>1. \A n \in Node : ~ Heard(n)
  BY DEF Init, Heard
<1>2. \A b \in Battle : winner[b] = None
  BY DEF Init
<1> QED BY <1>1, <1>2, ChildrenAreNodes DEF Chain

LEMMA NextChain == Sound /\ Chain /\ [Next]_vars => Chain'
<1> SUFFICES ASSUME Sound, Chain, [Next]_vars PROVE Chain'
  OBVIOUS
<1>1. ASSUME NEW p \in Player, Heard(p)' PROVE P'[p] # NoStatus
  <2>1. Heard(p) \/ Send(p)
    BY <1>1, Hearing, ChildrenAreNodes
  <2>2. Send(p) => P[p] # NoStatus
    BY DEF Send, Sound, Players
  <2> QED BY <2>1, <2>2, Settled DEF Chain
<1>2. ASSUME NEW b \in Battle, Heard(b)' PROVE winner'[b] # None
  <2>1. Heard(b) \/ RelayUp(b) \/ (b = Root /\ ReadRight(b))
    BY <1>2, Hearing, ChildrenAreNodes
  <2>2. RelayUp(b) => winner[b] # None
    BY DEF RelayUp, Sound, Battles
  <2>3. CASE b = Root /\ ReadRight(b) /\ ~ Heard(b)
    <3>1. champion' # champion
      BY <1>2, <2>3 DEF Heard
    <3>2. winner' = [winner EXCEPT ![b] = IF Fight(b, held[Left[b]], Head(up[Right[b]]))[2].HP <= 0
                                          THEN Left[b] ELSE Right[b]]
      BY <2>3, <3>1 DEF ReadRight
    <3> QED BY <3>2, ChildrenAreNodes DEF Sound, TypeOK
  <2> QED BY <2>1, <2>2, <2>3, Settled DEF Chain
<1>3. ASSUME NEW b \in Battle, winner'[b] # None PROVE Heard(Left[b])' /\ Heard(Right[b])'
  <2>1. PICK l, r : l = Left[b] /\ r = Right[b] /\ l \in Node /\ r \in Node /\ l # r /\ l # Root /\ r # Root
    BY ChildrenAreNodes, OneParent
  <2>2. CASE winner[b] # None
    BY <2>1, <2>2, Hearing DEF Chain
  <2>3. CASE ReadRight(b)
    <3>1. PICK s \in Status, t \in Status : held' = [held EXCEPT ![l] = s, ![r] = t]
      BY <2>1, <2>3, RoundFought DEF Fought
    <3>2. held'[l] # NoStatus /\ held'[r] # NoStatus
      BY <2>1, <3>1, StatusThere DEF Sound, TypeOK
    <3> QED BY <2>1, <3>2 DEF Heard
  <2> QED BY <1>3, <2>2, <2>3, Settled
<1> QED BY <1>1, <1>2, <1>3 DEF Chain

LEMMA AlwaysChain == Spec => []Chain
BY InitChain, NextChain, AlwaysSound, PTL DEF Spec

\* A champion has been heard of from every corner of the tree.
LEMMA AllHeard ==
  ASSUME Chain, champion # None
  PROVE  \A n \in Node : Heard(n)
<1> DEFINE S == {n \in Node : Heard(n)}
<1>1. S \in Closed
  BY ChildrenAreNodes DEF Chain, Closed
<1>2. Root \in S
  BY ChildrenAreNodes DEF Heard
<1> QED BY <1>1, <1>2, TreeAssumption

\* The agent of b has not got anybody.
Idle(b) == fifo[Agent[b]] = <<>> /\ P[Agent[b]] = NoStatus

\* A battle has one loser, when it is over, and hands it over once.
OneLoser ==
  \A b \in ZoneA :
    /\ pc[b] \in {"left", "right"} => Idle(b) /\ \A n \in Node : ~ Loses(b, n)
    /\ \A n \in Node : Loses(b, n) => Idle(b) /\ \A m \in Node : Loses(b, m) => m = n

\* The agent of b waits for ever.
Quiet(b) == pc[b] \notin {"left", "right"} /\ Idle(b) /\ \A n \in Node : ~ Loses(b, n)
QuietStays == \A b \in ZoneA : Quiet(b) => Quiet(b)'

LEMMA OneName ==
  ASSUME NEW n \in Node, NEW i \in Name(n)
  PROVE  Name(n) = {i}
BY NameUnique

\* Who loses b has lost it before, under the same name, or is a child of b that is not
\* its winner.
LossesGo ==
  \A b \in ZoneA, n \in Node : Loses(b, n)' =>
    \/ \E c \in Node : Loses(b, c) /\ Name(c) = Name(n)
    \/ n \in {Left[b], Right[b]} /\ winner'[b] # n

\* Losers stay, or one goes from c to w.
LEMMA LossesKept ==
  ASSUME OneLoser, NEW c \in Node, NEW w \in Node, Name(c) = Name(w),
         \A b \in ZoneA : /\ pc'[b] \in {"left", "right"} => pc[b] \in {"left", "right"}
                          /\ Idle(b) => Idle(b)'
                          /\ \A n \in Node : Loses(b, n)' => \/ Loses(b, n)
                                                             \/ n = w /\ Loses(b, c) /\ ~ Loses(b, c)'
  PROVE  OneLoser' /\ QuietStays /\ LossesGo
<1>1. OneLoser'
  BY DEF OneLoser
<1>2. QuietStays
  BY DEF QuietStays, Quiet
<1>3. LossesGo
  BY DEF LossesGo
<1> QED BY <1>1, <1>2, <1>3

LEMMA ZoneAAgents == \A b \in ZoneA : b \in Battle /\ b \in Node /\ b # Root /\ Agent[b] \in Player
BY TreeAssumption, ChildrenAreNodes

\* Somebody moves and nothing comes down.
LEMMA MoverLosses ==
  ASSUME Sound, OneLoser, NEW m \in Node, NEW v, pc' = [pc EXCEPT ![m] = v], UNCHANGED <<down, P>>,
         m \in Player => v = "exited" \/ (v = "wait" /\ down[m] = <<>>),
         m \in Battle /\ v \in {"left", "right"} => pc[m] \in {"left", "right"},
         \A q \in Player : fifo[q] = <<>> => fifo'[q] = <<>>
  PROVE  OneLoser' /\ QuietStays /\ LossesGo
<1>1. pc'[m] = v /\ \A n \in Node \ {m} : pc'[n] = pc[n]
  BY DEF Sound, TypeOK
<1>2. Entries(<<>>) = {}
  BY NothingIn, Contents
<1>3. \A b \in ZoneA, n \in Node : Loses(b, n)' => Loses(b, n)
  BY <1>1, <1>2 DEF Loses, Loss
<1>4. \A b \in ZoneA : /\ pc'[b] \in {"left", "right"} => pc[b] \in {"left", "right"}
                       /\ Idle(b) => Idle(b)'
  BY <1>1, ZoneAAgents DEF Idle
<1> QED BY <1>3, <1>4, LossesKept

LEMMA SendLosses ==
  ASSUME Sound, Tokens, OneLoser, NEW p \in Player, Send(p)
  PROVE  OneLoser' /\ QuietStays /\ LossesGo
<1>1. p \in Node /\ p \notin Battle /\ down[p] = <<>>
  BY ChildrenAreNodes DEF Send, Tokens, Token, AtHome, Empty
<1> QED BY <1>1, MoverLosses DEF Send

LEMMA ReceiveLosses ==
  ASSUME Sound, Fit, OneLoser, NEW p \in Player, Receive(p)
  PROVE  OneLoser' /\ QuietStays /\ LossesGo
<1>1. PICK x \in Entries(down[p]), y \in Status, v \in {"send", "lost", "exited"} :
           /\ pc[p] = "wait" /\ down' = [down EXCEPT ![p] = Tail(@)]
           /\ pc' = [pc EXCEPT ![p] = v] /\ P' = [P EXCEPT ![p] = y] /\ P[p] # NoStatus
           /\ UNCHANGED fifo
           /\ v = "lost" => Loss(y.battle, x)
  BY Gets
<1>2. p \in Node /\ p \notin Battle
  BY ChildrenAreNodes
<1>3. /\ pc'[p] = v /\ \A n \in Node \ {p} : pc'[n] = pc[n] /\ down'[n] = down[n]
      /\ P'[p] = y /\ \A q \in Player \ {p} : P'[q] = P[q]
  BY <1>1, <1>2 DEF Sound, TypeOK
<1>4. \A b \in ZoneA, n \in Node : Loses(b, n)' => Loses(b, n)
  <2> SUFFICES ASSUME NEW b \in ZoneA, NEW n \in Node, Loses(b, n)' PROVE Loses(b, n)
    OBVIOUS
  <2>1. CASE n = p
    <3>1. v = "lost" /\ y.battle = b
      BY <1>1, <1>3, <2>1 DEF Loses
    <3> QED BY <1>1, <2>1, <3>1 DEF Loses
  <2>2. CASE n # p
    BY <1>3, <2>2 DEF Loses, Loss
  <2> QED BY <2>1, <2>2
<1>5. \A b \in ZoneA : /\ pc'[b] \in {"left", "right"} => pc[b] \in {"left", "right"}
                       /\ Idle(b) => Idle(b)'
  <2>1. \A b \in ZoneA : Idle(b) => Agent[b] # p
    BY <1>1 DEF Idle
  <2> QED BY <1>1, <1>2, <1>3, <2>1, ZoneAAgents DEF Idle
<1> QED BY <1>2, <1>4, <1>5, LossesKept

LEMMA TakeOverLosses ==
  ASSUME Sound, OneLoser, NEW p \in Player, TakeOver(p)
  PROVE  OneLoser' /\ QuietStays /\ LossesGo
<1>1. /\ fifo[p] # <<>> /\ fifo' = [fifo EXCEPT ![p] = Tail(@)] /\ UNCHANGED down
      /\ pc' = [pc EXCEPT ![p] = "send"] /\ P' = [P EXCEPT ![p] = Head(fifo[p])]
  BY DEF TakeOver, pipes
<1>2. p \in Node /\ p \notin Battle
  BY ChildrenAreNodes
<1>3. /\ pc'[p] = "send" /\ \A n \in Node \ {p} : pc'[n] = pc[n]
      /\ \A q \in Player \ {p} : P'[q] = P[q] /\ fifo'[q] = fifo[q]
  BY <1>1, <1>2 DEF Sound, TypeOK
<1>4. \A b \in ZoneA, n \in Node : Loses(b, n)' => Loses(b, n)
  BY <1>1, <1>3 DEF Loses, Loss
<1>5. \A b \in ZoneA : /\ pc'[b] \in {"left", "right"} => pc[b] \in {"left", "right"}
                       /\ Idle(b) => Idle(b)'
  <2>1. \A b \in ZoneA : Idle(b) => Agent[b] # p
    BY <1>1 DEF Idle
  <2> QED BY <1>2, <1>3, <2>1, ZoneAAgents DEF Idle
<1> QED BY <1>2, <1>4, <1>5, LossesKept

\* The loser of b is handed over, and b has no other.
LEMMA HandOverLosses ==
  ASSUME Sound, Fit, OneLoser, NEW p \in Player, HandOver(p)
  PROVE  OneLoser' /\ QuietStays /\ LossesGo
<1>1. PICK a \in Player, s \in Status :
        /\ P[p].battle \in ZoneA /\ a = Agent[P[p].battle]
        /\ fifo' = [fifo EXCEPT ![a] = Append(@, s)] /\ pc[p] = "lost" /\ pc' = [pc EXCEPT ![p] = "exited"]
        /\ UNCHANGED <<down, P>>
  BY HandsOver
<1>2. PICK b0 \in ZoneA : b0 = P[p].battle
  BY <1>1
<1>3. p \in Node /\ p \notin Battle /\ Loses(b0, p)
  BY <1>1, <1>2, ChildrenAreNodes DEF Loses
<1>4. /\ pc'[p] = "exited" /\ \A n \in Node \ {p} : pc'[n] = pc[n]
      /\ \A q \in Player \ {a} : fifo'[q] = fifo[q]
  BY <1>1, <1>3 DEF Sound, TypeOK
<1>5. \A b \in ZoneA, n \in Node : Loses(b, n)' => Loses(b, n) /\ n # p
  BY <1>1, <1>4 DEF Loses, Loss
<1>6. /\ pc[b0] \notin {"left", "right"} /\ Idle(b0) /\ pc'[b0] = pc[b0]
      /\ \A n \in Node : ~ Loses(b0, n)'
  BY <1>3, <1>4, <1>5, ZoneAAgents DEF OneLoser
<1>7. \A b \in ZoneA \ {b0} : Idle(b)' <=> Idle(b)
  <2>1. \A b \in ZoneA \ {b0} : Agent[b] \in Player \ {a}
    BY <1>1, <1>2, TreeAssumption, ZoneAAgents
  <2> QED BY <1>1, <1>4, <2>1 DEF Idle
<1>8. \A b \in ZoneA : pc'[b] = pc[b]
  BY <1>3, <1>4, ZoneAAgents
<1>9. OneLoser'
  BY <1>5, <1>6, <1>7, <1>8 DEF OneLoser
<1>10. QuietStays
  <2>1. ~ Quiet(b0)
    BY <1>3 DEF Quiet
  <2> QED BY <1>5, <1>7, <1>8, <2>1 DEF QuietStays, Quiet
<1>11. LossesGo
  BY <1>5 DEF LossesGo
<1> QED BY <1>9, <1>10, <1>11

\* b says that z has lost, or nothing of the kind.
Word(b, n, s, z, v) == s.battle = b /\ (s.HP > 0 \/ (n = z /\ v # "left"))

\* b, which has not been decided, sends something down, and says of one child at most
\* that it has lost.
LEMMA DecidedLosses ==
  ASSUME Sound, Sound', OneLoser, NEW b \in Battle, pc[b] = "right",
         NEW v \in {"left", "reap", "exited"}, pc' = [pc EXCEPT ![b] = v],
         UNCHANGED <<P, fifo>>, NEW z \in {Left[b], Right[b]}, v # "left" => winner'[b] # z,
         \A n \in Node : \A s \in Entries(down'[n]) : s \in Entries(down[n]) \/ Word(b, n, s, z, v)
  PROVE  OneLoser' /\ QuietStays /\ LossesGo
<1>1. b \in Node /\ b \notin Player /\ pc'[b] = v /\ \A n \in Node \ {b} : pc'[n] = pc[n]
  BY ChildrenAreNodes DEF Sound, TypeOK
<1>2. \A c \in ZoneA : Idle(c)' <=> Idle(c)
  BY DEF Idle
<1>3. ASSUME NEW c \in ZoneA, NEW n \in Node, Loses(c, n)' PROVE Loses(c, n) \/ (c = b /\ n = z /\ v # "left")
  <2>1. CASE n \in Player /\ pc'[n] = "lost" /\ P'[n].battle = c
    BY <1>1, <2>1 DEF Loses
  <2>2. CASE n \in Player => pc'[n] = "wait"
    <3>1. PICK s \in Entries(down'[n]) : s.battle = c /\ s.ended = 1 /\ s.HP <= 0
      BY <1>1, <1>3, <2>2 DEF Loses, Loss
    <3>2. n \in Player => pc[n] = "wait"
      BY <1>1, <2>2
    <3>3. CASE s \in Entries(down[n])
      BY <3>1, <3>2, <3>3 DEF Loses, Loss
    <3>4. CASE s \notin Entries(down[n])
      <4>1. s.battle = b /\ (s.HP > 0 \/ (n = z /\ v # "left"))
        BY <3>4 DEF Word
      <4>2. ~ (s.HP > 0)
        <5>1. s.HP \in Int
          <6>1. down'[n] \in Seq(Status)
            BY DEF Sound, TypeOK
          <6>2. PICK k \in DOMAIN down'[n] : s = down'[n][k]
            BY DEF Entries
          <6>3. s \in Status
            BY <6>1, <6>2
          <6> QED BY <6>3 DEF Status
        <5> QED BY <3>1, <5>1
      <4> QED BY <3>1, <4>1, <4>2
    <3> QED BY <3>3, <3>4
  <2> QED BY <1>3, <2>1, <2>2 DEF Loses
<1>4. b \in ZoneA => Idle(b) /\ \A n \in Node : ~ Loses(b, n)
  BY DEF OneLoser
<1>5. OneLoser'
  <2> SUFFICES ASSUME NEW c \in ZoneA
               PROVE  /\ pc'[c] \in {"left", "right"} => Idle(c)' /\ \A n \in Node : ~ Loses(c, n)'
                      /\ \A n \in Node : Loses(c, n)' => Idle(c)' /\ \A m \in Node : Loses(c, m)' => m = n
    BY DEF OneLoser
  <2>1. CASE c = b
    BY <1>1, <1>2, <1>3, <1>4, <2>1
  <2>2. CASE c # b
    <3>1. pc'[c] = pc[c]
      BY <1>1, <2>2, ZoneAAgents
    <3> QED BY <1>2, <1>3, <2>2, <3>1 DEF OneLoser
  <2> QED BY <2>1, <2>2
<1>6. QuietStays
  <2> SUFFICES ASSUME NEW c \in ZoneA, Quiet(c) PROVE Quiet(c)'
    BY DEF QuietStays
  <2>1. c # b /\ pc'[c] = pc[c]
    BY <1>1, ZoneAAgents DEF Quiet
  <2> QED BY <1>2, <1>3, <2>1 DEF Quiet
<1>7. LossesGo
  BY <1>3 DEF LossesGo
<1> QED BY <1>5, <1>6, <1>7

LEMMA ReadRightLosses ==
  ASSUME Sound, Sound', Fit, OneLoser, NEW b \in Battle, ReadRight(b)
  PROVE  OneLoser' /\ QuietStays /\ LossesGo
<1>1. PICK l, r : l = Left[b] /\ r = Right[b]
  OBVIOUS
<1>2. PICK s \in Status, t \in Status : Fought(b, l, r, s, t) /\ (s.HP > 0 \/ t.HP > 0)
  BY <1>1, OneCanFight
<1>3. l \in Node /\ r \in Node /\ l # r /\ down \in [Node -> Seq(Status)]
  BY <1>1, ChildrenAreNodes DEF Sound, TypeOK
<1>4. /\ pc[b] = "right" /\ UNCHANGED <<P, fifo>> /\ s.battle = b /\ t.battle = b
      /\ down' = [down EXCEPT ![l] = Append(@, s), ![r] = Append(@, t)]
      /\ \/ s.HP > 0 /\ t.HP > 0 /\ pc' = [pc EXCEPT ![b] = "left"]
         \/ pc' = [pc EXCEPT ![b] = "reap"]
  BY <1>2 DEF Fought
<1>5. /\ down'[l] = Append(down[l], s) /\ down'[r] = Append(down[r], t)
      /\ \A n \in Node \ {l, r} : down'[n] = down[n]
  BY <1>3, <1>4
<1>6. Entries(down'[l]) = Entries(down[l]) \cup {s} /\ Entries(down'[r]) = Entries(down[r]) \cup {t}
  <2>1. down[l] \in Seq(Status) /\ down[r] \in Seq(Status)
    BY <1>3
  <2>2. Entries(Append(down[l], s)) = Entries(down[l]) \cup {s}
    BY <2>1, Contents
  <2>3. Entries(Append(down[r], t)) = Entries(down[r]) \cup {t}
    BY <2>1, Contents
  <2> QED BY <1>5, <2>2, <2>3
<1>7. PICK v \in {"left", "reap"} :
        /\ pc' = [pc EXCEPT ![b] = v] /\ (v = "left" => s.HP > 0 /\ t.HP > 0)
        /\ v = "reap" => (t.HP <= 0 /\ winner'[b] = l) \/ (t.HP > 0 /\ winner'[b] = r)
  <2>1. \A w : winner' = [winner EXCEPT ![b] = w] => winner'[b] = w
    BY DEF Sound, TypeOK
  <2> QED BY <1>2, <2>1 DEF Fought
<1>8. PICK z \in {l, r} : Word(b, l, s, z, v) /\ Word(b, r, t, z, v) /\ (v # "left" => winner'[b] # z)
  <2>1. s.HP \in Int /\ t.HP \in Int
    BY DEF Status
  <2>2. CASE t.HP > 0
    <3>1. Word(b, l, s, l, v) /\ Word(b, r, t, l, v) /\ (v # "left" => winner'[b] = r)
      BY <1>4, <1>7, <2>1, <2>2 DEF Word
    <3> QED BY <1>3, <3>1
  <2>3. CASE t.HP <= 0
    <3>1. Word(b, l, s, r, v) /\ Word(b, r, t, r, v) /\ (v # "left" => winner'[b] = l)
      BY <1>2, <1>4, <1>7, <2>1, <2>3 DEF Word
    <3> QED BY <1>3, <3>1
  <2> QED BY <2>1, <2>2, <2>3
<1>9. \A n \in Node : \A x \in Entries(down'[n]) : x \in Entries(down[n]) \/ Word(b, n, x, z, v)
  <2> SUFFICES ASSUME NEW n \in Node, NEW x \in Entries(down'[n]), x \notin Entries(down[n])
               PROVE  (n = l /\ x = s) \/ (n = r /\ x = t)
    BY <1>8
  <2> QED BY <1>5, <1>6
<1>10. UNCHANGED <<P, fifo>> /\ pc[b] = "right"
  BY <1>4
<1> QED BY <1>1, <1>7, <1>8, <1>9, <1>10, DecidedLosses

LEMMA ReadRightEndLosses ==
  ASSUME Sound, Sound', Fit, OneLoser, NEW b \in Battle, ReadRightEnd(b)
  PROVE  OneLoser' /\ QuietStays /\ LossesGo
<1>1. PICK l : l = Left[b] /\ l \in Node
  BY ChildrenAreNodes
<1>2. PICK s \in Status :
        /\ s.battle = b /\ down' = [down EXCEPT ![l] = Append(@, s)]
        /\ pc[b] = "right" /\ pc' = [pc EXCEPT ![b] = "exited"] /\ UNCHANGED <<P, fifo>>
  BY <1>1, LeftGets
<1>3. down[l] \in Seq(Status) /\ down'[l] = Append(down[l], s) /\ \A n \in Node \ {l} : down'[n] = down[n]
  BY <1>1, <1>2 DEF Sound, TypeOK
<1>4. Entries(down'[l]) = Entries(down[l]) \cup {s}
  BY <1>3, Contents
<1>5. \A n \in Node : \A x \in Entries(down'[n]) : x \in Entries(down[n]) \/ Word(b, n, x, l, "exited")
  BY <1>2, <1>3, <1>4 DEF Word
<1>6. UNCHANGED <<P, fifo>> /\ pc[b] = "right" /\ pc' = [pc EXCEPT ![b] = "exited"]
  BY <1>2
<1>7. winner'[b] # l
  BY <1>1, <1>2, ChildrenAreNodes DEF ReadRightEnd, Sound, Battles
<1> QED BY <1>1, <1>5, <1>6, <1>7, DecidedLosses

LEMMA FeedbackEndLosses ==
  ASSUME Sound, Fit, OneLoser, NEW b \in Battle, FeedbackEnd(b)
  PROVE  OneLoser' /\ QuietStays /\ LossesGo
<1>1. PICK w \in Node : w = winner[b] /\ held[w].id # None
  BY ChildrenAreNodes DEF FeedbackEnd, Sound, Battles
<1>2. /\ b \in Node /\ b \notin Player /\ held[w] \in Status /\ held[w].HP > 0 /\ held[w].ended = 0
      /\ down' = [down EXCEPT ![w] = Append(@, held[w])] /\ pc' = [pc EXCEPT ![b] = "relay"]
      /\ UNCHANGED <<P, fifo>>
  BY <1>1, StatusThere, ChildrenAreNodes DEF FeedbackEnd, Sound, TypeOK, Fit, FitBattles, Able
<1>3. /\ down[w] \in Seq(Status) /\ down'[w] = Append(down[w], held[w])
      /\ \A n \in Node \ {w} : down'[n] = down[n]
      /\ pc'[b] = "relay" /\ \A n \in Node \ {b} : pc'[n] = pc[n]
  BY <1>1, <1>2 DEF Sound, TypeOK
<1>4. Entries(down'[w]) = Entries(down[w]) \cup {held[w]}
  BY <1>2, <1>3, Contents
<1>5. \A n \in Node : \A x \in Entries(down'[n]) : x \in Entries(down[n]) \/ x.ended = 0
  BY <1>2, <1>3, <1>4
<1>6. \A c \in ZoneA, n \in Node : Loses(c, n)' => Loses(c, n)
  BY <1>2, <1>3, <1>5 DEF Loses, Loss
<1>7. \A c \in ZoneA : /\ pc'[c] \in {"left", "right"} => pc[c] \in {"left", "right"}
                       /\ Idle(c) => Idle(c)'
  BY <1>2, <1>3, ZoneAAgents DEF Idle
<1> QED BY <1>2, <1>6, <1>7, LossesKept

\* Who has lost is told by way of the battles it has won before.
LEMMA RelayDownLosses ==
  ASSUME Sound, Tokens, OneLoser, NEW b \in Battle, RelayDown(b)
  PROVE  OneLoser' /\ QuietStays /\ LossesGo
<1>1. PICK w \in Node : w = winner[b] /\ w # b
  BY ChildrenAreNodes, NotItsOwnChild DEF RelayDown, Sound, Battles
<1>2. /\ b \in Node /\ b \notin Player /\ down[b] # <<>>
      /\ down' = [down EXCEPT ![b] = Tail(@), ![w] = Append(@, Head(down[b]))]
      /\ pc' = [pc EXCEPT ![b] = "relay"] /\ UNCHANGED <<P, fifo>>
  BY <1>1, ChildrenAreNodes DEF RelayDown
<1>3. /\ down[b] \in Seq(Status) /\ down[w] \in Seq(Status)
      /\ down'[b] = Tail(down[b]) /\ down'[w] = Append(down[w], Head(down[b]))
      /\ \A n \in Node \ {b, w} : down'[n] = down[n]
      /\ pc'[b] = "relay" /\ \A n \in Node \ {b} : pc'[n] = pc[n]
  BY <1>1, <1>2 DEF Sound, TypeOK
<1>4. PICK x \in Status : x = Head(down[b]) /\ x \in Entries(down[b])
  BY <1>2, <1>3, Contents, TakenOut
<1>5. Entries(down'[w]) = Entries(down[w]) \cup {x}
  BY <1>3, <1>4, Contents
<1>6. Entries(down'[b]) = {}
  <2>1. Tail(down[b]) = <<>>
    BY <1>2, OnItsWay DEF Tokens
  <2> QED BY <1>3, <2>1, NothingIn, Contents
<1>7. \A c \in ZoneA : ~ Loses(c, b)'
  BY <1>2, <1>6 DEF Loses
<1>8. ASSUME NEW c \in ZoneA, NEW n \in Node, Loses(c, n)'
      PROVE  Loses(c, n) \/ (n = w /\ Loses(c, b) /\ ~ Loses(c, b)')
  <2>1. n # b
    BY <1>7, <1>8
  <2>2. CASE n # w
    BY <1>2, <1>3, <1>8, <2>1, <2>2 DEF Loses, Loss
  <2>3. CASE n = w
    <3>1. CASE Loss(c, x)
      BY <1>2, <1>4, <1>7, <2>3, <3>1 DEF Loses
    <3>2. CASE ~ Loss(c, x)
      BY <1>2, <1>3, <1>5, <1>8, <2>1, <2>3, <3>2 DEF Loses, Loss
    <3> QED BY <3>1, <3>2
  <2> QED BY <2>2, <2>3
<1>9. \A c \in ZoneA : /\ pc'[c] \in {"left", "right"} => pc[c] \in {"left", "right"}
                       /\ Idle(c) => Idle(c)'
  BY <1>2, <1>3, ZoneAAgents DEF Idle
<1>10. Name(b) = Name(w)
  <2>1. held[w].id \in Name(b) /\ held[w].id \in Name(w)
    BY <1>1, <1>2, ChildrenAreNodes DEF RelayDown, Sound, Battles, Names, Name
  <2> QED BY <1>1, <1>2, <2>1, OneName
<1> QED BY <1>1, <1>2, <1>8, <1>9, <1>10, LossesKept

\* Steps after which nobody has lost who had not before.
LEMMA OtherLosses ==
  ASSUME Sound, OneLoser, NEW m \in Node,
         \/ m \in Player /\ (HandOverFails(m) \/ TakeOverFails(m))
         \/ m \in Battle /\ (ReadLeft(m) \/ RelayUp(m) \/ Reap(m) \/ Finish(m) \/ ReadLeftEnd(m))
         \/ Orphaned(m)
  PROVE  OneLoser' /\ QuietStays /\ LossesGo
<1>1. UNCHANGED <<down, P>> /\ \E v \in {"right", "feedback", "relay", "exited"} :
        /\ pc' = [pc EXCEPT ![m] = v]
        /\ m \in Player => v = "exited"
        /\ m \in Battle /\ v = "right" => pc[m] = "left"
  BY ChildrenAreNodes DEF HandOverFails, TakeOverFails, ReadLeft, RelayUp, Reap, Finish, ReadLeftEnd, Orphaned, pipes
<1>2. \A q \in Player : fifo[q] = <<>> => fifo'[q] = <<>>
  <2>1. CASE UNCHANGED fifo
    BY <2>1
  <2>2. CASE m \in Player /\ TakeOverFails(m)
    BY <2>2 DEF TakeOverFails, Sound, TypeOK
  <2> QED BY <2>1, <2>2 DEF HandOverFails, ReadLeft, RelayUp, Reap, Finish, ReadLeftEnd, Orphaned
<1> QED BY <1>1, <1>2, MoverLosses

LEMMA NextOneLoser == Sound /\ Tokens /\ Fit /\ OneLoser /\ [Next]_vars => OneLoser' /\ QuietStays /\ LossesGo
<1> SUFFICES ASSUME Sound, Tokens, Fit, OneLoser, [Next]_vars PROVE OneLoser' /\ QuietStays /\ LossesGo
  OBVIOUS
<1>1. Sound'
  BY NextSound
<1>2. CASE UNCHANGED vars
  <2>1. OneLoser' /\ QuietStays
    BY <1>2 DEF vars, pipes, OneLoser, QuietStays, Quiet, Idle, Loses, Loss
  <2>2. LossesGo
    BY <1>2 DEF vars, pipes, LossesGo, Loses, Loss
  <2> QED BY <2>1, <2>2
<1>3. CASE Next
  BY <1>1, <1>3, SendLosses, ReceiveLosses, HandOverLosses, TakeOverLosses, ReadRightLosses, ReadRightEndLosses,
     FeedbackEndLosses, RelayDownLosses, OtherLosses, ChildrenAreNodes DEF Next, Process
<1> QED BY <1>2, <1>3

LEMMA InitOneLoser == Init => OneLoser
<1> SUFFICES ASSUME Init PROVE OneLoser
  OBVIOUS
<1>1. Entries(<<>>) = {}
  BY NothingIn, Contents
<1>2. \A p \in Player : pc[p] # "lost"
  BY ChildrenAreNodes DEF Init
<1>3. \A b \in ZoneA, n \in Node : ~ Loses(b, n)
  BY <1>1, <1>2 DEF Init, Loses
<1>4. \A b \in ZoneA : Idle(b)
  <2>1. \A b \in ZoneA : Agent[b] \in Player /\ Agent[b] \notin Real
    BY TreeAssumption
  <2> QED BY <2>1 DEF Init, Idle
<1> QED BY <1>3, <1>4 DEF OneLoser

LEMMA AlwaysOneLoser == Spec => []OneLoser
BY InitOneLoser, NextOneLoser, AlwaysSound, AlwaysTokens, AlwaysFit, PTL DEF Spec

\* Who has failed is never heard of, or there is an agent that never will be.
Stuck ==
  \A p \in failed : (pc[p] = "exited" /\ ~ Heard(p)) \/ \E b \in ZoneA : Quiet(b)

LEMMA InitStuck == Init => Stuck
<1> SUFFICES ASSUME Init, NEW p \in failed PROVE pc[p] = "exited" /\ ~ Heard(p)
  BY DEF Stuck
<1>1. p \in Node
  BY DEF Init
<1>2. \A late : p \in Stillborn(failed, late)
  BY DEF Stillborn
<1> QED BY <1>1, <1>2 DEF Init, Heard

\* Failures of the start are there; in a hand-over the agent of the battle gets nobody,
\* in a take-over it goes.
LEMMA NextStuck == Sound /\ Tokens /\ Fit /\ Chain /\ OneLoser /\ Stuck /\ [Next]_vars => Stuck'
<1> SUFFICES ASSUME Sound, Tokens, Fit, Chain, OneLoser, Stuck, [Next]_vars PROVE Stuck'
  OBVIOUS
<1>1. OneLoser' /\ QuietStays
  BY NextOneLoser
<1>2. ASSUME NEW p \in failed PROVE (pc'[p] = "exited" /\ ~ Heard(p)') \/ \E b \in ZoneA : Quiet(b)'
  <2>1. p \in Node
    BY DEF Sound, TypeOK
  <2>2. CASE pc[p] = "exited" /\ ~ Heard(p)
    <3>1. pc'[p] = "exited"
      BY <2>1, <2>2, ExitedStays
    <3>2. ~ Send(p) /\ ~ RelayUp(p) /\ ~ ReadRight(p)
      BY <2>2 DEF Send, RelayUp, ReadRight
    <3> QED BY <2>1, <2>2, <3>1, <3>2, Hearing
  <2>3. CASE \E b \in ZoneA : Quiet(b)
    BY <1>1, <2>3 DEF QuietStays
  <2> QED BY <2>2, <2>3 DEF Stuck
<1>3. ASSUME NEW p \in Player, HandOverFails(p) PROVE \E b \in ZoneA : Quiet(b)'
  <2>1. /\ pc[p] = "lost" /\ pc' = [pc EXCEPT ![p] = "exited"] /\ UNCHANGED <<down, P, fifo>>
        /\ p \in Node /\ p \notin Battle
    BY <1>3, ChildrenAreNodes DEF HandOverFails, pipes
  <2>2. PICK b \in ZoneA : b = P[p].battle
    BY <2>1 DEF Sound, Players
  <2>3. Loses(b, p)
    BY <2>1, <2>2 DEF Loses
  <2>4. pc[b] \notin {"left", "right"} /\ Idle(b) /\ \A n \in Node : Loses(b, n) => n = p
    BY <2>1, <2>3 DEF OneLoser
  <2>5. pc'[b] = pc[b] /\ pc'[p] = "exited" /\ \A n \in Node \ {p} : pc'[n] = pc[n]
    BY <2>1, ZoneAAgents DEF Sound, TypeOK
  <2>6. \A n \in Node : ~ Loses(b, n)'
    BY <2>1, <2>4, <2>5 DEF Loses, Loss
  <2>7. Idle(b)'
    BY <2>1, <2>4 DEF Idle
  <2> QED BY <2>4, <2>5, <2>6, <2>7 DEF Quiet
<1>4. ASSUME NEW p \in Player, TakeOverFails(p) PROVE pc'[p] = "exited" /\ ~ Heard(p)'
  <2>1. p \in Node /\ p # Root /\ P[p] = NoStatus /\ pc[p] = "wait" /\ pc' = [pc EXCEPT ![p] = "exited"]
        /\ p \notin Battle
    BY <1>4, ChildrenAreNodes DEF TakeOverFails
  <2>2. ~ Heard(p)
    BY <2>1 DEF Chain
  <2>3. ~ Send(p)
    BY <2>1 DEF Send
  <2> QED BY <2>1, <2>2, <2>3, Hearing DEF Sound, TypeOK
<1>5. \/ UNCHANGED failed
      \/ \E p \in Player : (HandOverFails(p) \/ TakeOverFails(p)) /\ failed' = failed \cup {p}
  <2>1. CASE UNCHANGED vars
    BY <2>1 DEF vars
  <2>2. ASSUME NEW n \in Node, Process(n) PROVE UNCHANGED failed
    BY <2>2 DEF Process, Send, Receive, HandOver, TakeOver, ReadLeft, ReadRight, Reap, RelayUp, RelayDown,
       Finish, ReadLeftEnd, ReadRightEnd, FeedbackEnd, Orphaned
  <2>3. ASSUME NEW p \in Player, HandOverFails(p) \/ TakeOverFails(p) PROVE failed' = failed \cup {p}
    BY <2>3 DEF HandOverFails, TakeOverFails
  <2> QED BY <2>1, <2>2, <2>3 DEF Next
<1> QED BY <1>2, <1>3, <1>4, <1>5 DEF Stuck

LEMMA AlwaysStuck == Spec => []Stuck
BY InitStuck, NextStuck, AlwaysSound, AlwaysTokens, AlwaysFit, AlwaysChain, AlwaysOneLoser, PTL DEF Spec

\* No champion is announced when a process has failed, before or after: who fails is not
\* heard of, or leaves an agent without a player to fight for, and a champion has been
\* heard of from every corner of the tree.
THEOREM FailureIsNeverCrowned == Spec => []NoChampionAfterFailure
<1>1. Chain /\ Stuck /\ Sound => NoChampionAfterFailure
  <2> SUFFICES ASSUME Chain, Stuck, Sound, champion # None, NEW p \in failed PROVE FALSE
    BY DEF NoChampionAfterFailure
  <2>1. \A n \in Node : Heard(n)
    BY AllHeard
  <2>2. p \in Node
    BY DEF Sound, TypeOK
  <2>3. PICK b \in ZoneA : Quiet(b)
    BY <2>1, <2>2 DEF Stuck
  <2>4. Agent[b] \in Player /\ P[Agent[b]] = NoStatus
    BY <2>3, ZoneAAgents DEF Quiet, Idle
  <2> QED BY <2>1, <2>4, ChildrenAreNodes DEF Chain
<1> QED BY <1>1, AlwaysSound, AlwaysChain, AlwaysStuck, PTL

-----------------------------------------------------------------------------
(* Two defeats. *)

\* A name that is there stays; a battle gets one by being won, an agent from its FIFO.
LEMMA NamesGrow ==
  ASSUME Sound, [Next]_vars, NEW n \in Node
  PROVE  /\ Name(n) \subseteq Name(n)' /\ (Name(n) # {} => Name(n)' = Name(n))
         /\ Name(n)' # {} => \/ Name(n) # {}
                             \/ n \in Battle /\ ReadRight(n)
                             \/ n \in Player /\ TakeOver(n)
<1>1. Name(n) \subseteq Name(n)'
  BY NextSound, NameStays
<1>2. ASSUME NEW i \in Name(n)', NEW j \in Name(n)' PROVE i = j
  BY <1>2 DEF Name
<1>3. Name(n) # {} => Name(n)' = Name(n)
  BY <1>1, <1>2
<1>4. CASE n \in Battle
  <2>1. Name(n)' # {} => winner'[n] # None
    BY <1>4 DEF Name
  <2>2. winner[n] # None => Name(n) # {}
    BY <1>4 DEF Name
  <2> QED BY <1>1, <1>3, <1>4, <2>1, <2>2, Settled
<1>5. CASE n \in Player
  <2>1. Name(n)' # {} => P'[n] # NoStatus
    BY <1>5, ChildrenAreNodes DEF Name, NoStatus
  <2>2. P[n] # NoStatus => Name(n) # {}
    BY <1>5, ChildrenAreNodes, StatusThere DEF Name, Sound, TypeOK
  <2> QED BY <1>1, <1>3, <1>5, <2>1, <2>2, Settled
<1> QED BY <1>4, <1>5, ChildrenAreNodes

\* There is at most one who gets a name in a step.
LEMMA NewName ==
  ASSUME Sound, [Next]_vars
  PROVE  \E x \in Node :
           /\ \A n \in Node \ {x} : Name(n)' = Name(n)
           /\ \/ Name(x)' = Name(x)
              \/ Name(x) = {} /\ x \in Battle /\ ReadRight(x)
              \/ Name(x) = {} /\ x \in Player /\ TakeOver(x)
<1>1. CASE \A n \in Node : Name(n)' = Name(n)
  BY <1>1, ChildrenAreNodes
<1>2. ASSUME NEW x \in Node, Name(x)' # Name(x), NEW n \in Node, Name(n)' # Name(n)
      PROVE  n = x
  <2>1. ASSUME NEW m \in Node, Name(m)' # Name(m)
        PROVE  pc'[m] # pc[m] /\ \A k \in Node \ {m} : pc'[k] = pc[k]
    <3>1. (m \in Battle /\ ReadRight(m)) \/ (m \in Player /\ TakeOver(m))
      BY <2>1, NamesGrow
    <3>2. \E v \in {"left", "reap", "send"} : pc' = [pc EXCEPT ![m] = v]
      BY <3>1 DEF ReadRight, TakeOver
    <3>3. pc[m] \notin {"left", "reap", "send"}
      BY <3>1 DEF ReadRight, TakeOver
    <3> QED BY <3>2, <3>3 DEF Sound, TypeOK
  <2> QED BY <1>2, <2>1
<1>3. ASSUME NEW x \in Node, Name(x)' # Name(x)
      PROVE  Name(x) = {} /\ ((x \in Battle /\ ReadRight(x)) \/ (x \in Player /\ TakeOver(x)))
  BY <1>3, NamesGrow
<1> QED BY <1>1, <1>2, <1>3

\* What b says is said: it has a winner, or never will.
Decided(b) == winner[b] # None \/ pc[b] = "exited"

\* i has got to b and no further.
Out(b, i) == Decided(b) /\ \E n \in {Left[b], Right[b]} : i \in Name(n) /\ winner[b] # n

LEMMA OutStays ==
  ASSUME Sound, [Next]_vars, NEW b \in Battle, NEW i, Out(b, i)
  PROVE  Out(b, i)'
<1>1. PICK n \in {Left[b], Right[b]} : i \in Name(n) /\ winner[b] # n
  BY DEF Out
<1>2. n \in Node /\ n # None /\ b \in Node
  BY ChildrenAreNodes
<1>3. i \in Name(n)'
  BY <1>1, <1>2, NamesGrow
<1>4. CASE winner[b] # None
  <2>1. winner'[b] = winner[b]
    BY <1>4, NextSound DEF NamesKept
  <2> QED BY <1>1, <1>3, <1>4, <2>1 DEF Out, Decided
<1>5. CASE winner[b] = None /\ pc[b] = "exited"
  <2>1. ~ ReadRight(b) /\ pc'[b] = "exited"
    BY <1>2, <1>5, ExitedStays DEF ReadRight
  <2>2. winner'[b] = None
    BY <1>5, <2>1, Settled
  <2> QED BY <1>1, <1>2, <1>3, <2>1, <2>2 DEF Out, Decided
<1> QED BY <1>4, <1>5 DEF Out, Decided

\* Who loses b is out at b.
Defeated == \A b \in ZoneA, n \in Node : Loses(b, n) => \A i \in Name(n) : Out(b, i)

LEMMA LosersHaveNames ==
  ASSUME Sound, NEW b \in ZoneA, NEW n \in Node, Loses(b, n)
  PROVE  Name(n) # {}
<1>1. CASE n \in Player /\ P[n].battle = b
  <2>1. P[n] # NoStatus
    BY <1>1, ZoneAAgents, ChildrenAreNodes DEF NoStatus
  <2> QED BY <1>1, <2>1, ChildrenAreNodes, StatusThere DEF Name, Sound, TypeOK
<1>2. CASE \E s \in Entries(down[n]) : Loss(b, s)
  BY <1>2 DEF Entries, Ids, Sound, Names
<1> QED BY <1>1, <1>2 DEF Loses

LEMMA NextDefeated == Sound /\ Tokens /\ Fit /\ OneLoser /\ Defeated /\ [Next]_vars => Defeated'
<1> SUFFICES ASSUME Sound, Tokens, Fit, OneLoser, Defeated, [Next]_vars,
                    NEW b \in ZoneA, NEW n \in Node, Loses(b, n)', NEW i \in Name(n)'
             PROVE  Out(b, i)'
  BY DEF Defeated
<1>1. OneLoser' /\ LossesGo /\ Sound'
  BY NextOneLoser, NextSound
<1>2. ASSUME NEW c \in Node, Loses(b, c), Name(c) = Name(n)
      PROVE  Out(b, i)'
  <2>1. i \in Name(c)
    BY <1>2, LosersHaveNames, NamesGrow
  <2> QED BY <1>2, <2>1, OutStays, ZoneAAgents DEF Defeated
<1>3. CASE n \in {Left[b], Right[b]} /\ winner'[b] # n
  <2>1. pc'[b] \notin {"left", "right"}
    BY <1>1 DEF OneLoser
  <2>2. Decided(b)'
    BY <1>1, <2>1, ZoneAAgents DEF Sound, Battles, Decided
  <2> QED BY <1>3, <2>2 DEF Out
<1> QED BY <1>1, <1>2, <1>3 DEF LossesGo

LEMMA InitDefeated == Init => Defeated
<1> SUFFICES ASSUME Init PROVE Defeated
  OBVIOUS
<1>1. \A b \in ZoneA, n \in Node : ~ Loses(b, n)
  <2>1. \A b \in ZoneA : b \in Battle /\ b \in Node
    BY ZoneAAgents
  <2> QED BY NothingIn, Contents, ChildrenAreNodes DEF Init, Loses
<1> QED BY <1>1 DEF Defeated

\* An agent and its FIFO are about somebody who is out at the battle of the agent.
Handed ==
  \A p \in Player \ Real : \A i \in Name(p) \cup Ids(fifo[p]) :
    \E b \in ZoneA : p = Agent[b] /\ Out(b, i)

LEMMA FifoGets ==
  ASSUME Sound, [Next]_vars, NEW p \in Player, NEW i \in Ids(fifo'[p]), i \notin Ids(fifo[p])
  PROVE  \E q \in Player : /\ pc[q] = "lost" /\ P[q].battle \in ZoneA /\ P[q].id = i
                           /\ p = Agent[P[q].battle]
<1>1. fifo \in [Player -> Seq(Status)]
  BY DEF Sound, TypeOK
<1>2. ASSUME NEW q \in Player, HandOver(q)
      PROVE  pc[q] = "lost" /\ P[q].battle \in ZoneA /\ P[q].id = i /\ p = Agent[P[q].battle]
  <2> DEFINE a == Agent[P[q].battle]
             s == [P[q] EXCEPT !.HP = hp[q]]
  <2>1. pc[q] = "lost" /\ P[q].battle \in ZoneA /\ P[q] # NoStatus
    BY <1>2 DEF HandOver, Sound, Players
  <2>2. P[q] \in Status /\ hp[q] \in Nat
    BY <2>1 DEF Sound, TypeOK
  <2>3. s \in Status /\ s.id = P[q].id /\ a \in Player
    BY <2>1, <2>2, ZoneAAgents DEF Status
  <2>4. fifo' = [fifo EXCEPT ![a] = Append(@, s)]
    BY <1>2 DEF HandOver
  <2> HIDE DEF a, s
  <2>5. p = a
    BY <1>1, <2>3, <2>4
  <2>6. fifo'[p] = Append(fifo[p], s)
    BY <1>1, <2>3, <2>4, <2>5
  <2>7. Ids(fifo'[p]) = Ids(fifo[p]) \cup {s.id}
    BY <1>1, <2>3, <2>6, PutIn
  <2> QED BY <2>1, <2>3, <2>5, <2>7 DEF a
<1>3. ASSUME NEW q \in Player, TakeOver(q) \/ TakeOverFails(q)
      PROVE  FALSE
  <2>1. fifo[q] # <<>> /\ fifo' = [fifo EXCEPT ![q] = Tail(@)]
    BY <1>3 DEF TakeOver, TakeOverFails
  <2>2. Ids(Tail(fifo[q])) \subseteq Ids(fifo[q])
    BY <1>1, <2>1, TakenOut
  <2> QED BY <1>1, <2>1, <2>2
<1>4. \/ UNCHANGED fifo
      \/ \E q \in Player : HandOver(q) \/ TakeOver(q) \/ TakeOverFails(q)
  <2>1. CASE UNCHANGED vars
    BY <2>1 DEF vars
  <2>2. ASSUME NEW n \in Node, Process(n)
        PROVE  UNCHANGED fifo \/ \E q \in Player : HandOver(q) \/ TakeOver(q)
    BY <2>2 DEF Process, Send, Receive, ReadLeft, ReadRight, Reap, RelayUp, RelayDown,
       Finish, ReadLeftEnd, ReadRightEnd, FeedbackEnd, Orphaned
  <2>3. ASSUME NEW q \in Player, HandOverFails(q) PROVE UNCHANGED fifo
    BY <2>3 DEF HandOverFails
  <2> QED BY <2>1, <2>2, <2>3 DEF Next
<1> QED BY <1>2, <1>3, <1>4

LEMMA NextHanded == Sound /\ Defeated /\ Handed /\ [Next]_vars => Handed'
<1> SUFFICES ASSUME Sound, Defeated, Handed, [Next]_vars,
                    NEW p \in Player \ Real, NEW i \in Name(p)' \cup Ids(fifo'[p])
             PROVE  \E b \in ZoneA : p = Agent[b] /\ Out(b, i)'
  BY DEF Handed
<1>1. CASE i \in Name(p) \cup Ids(fifo[p])
  BY <1>1, OutStays, ZoneAAgents DEF Handed
<1>2. CASE i \notin Name(p) /\ i \in Name(p)'
  <2>1. TakeOver(p)
    BY <1>2, NamesGrow, ChildrenAreNodes
  <2>2. P' = [P EXCEPT ![p] = Head(fifo[p])] /\ fifo[p] # <<>>
    BY <2>1 DEF TakeOver
  <2>3. i = Head(fifo[p]).id
    BY <1>2, <2>2, ChildrenAreNodes DEF Name, Sound, TypeOK
  <2>4. i \in Ids(fifo[p])
    BY <2>2, <2>3, TakenOut DEF Sound, TypeOK
  <2> QED BY <1>1, <2>4
<1>3. CASE i \in Ids(fifo'[p]) /\ i \notin Ids(fifo[p])
  <2>1. PICK q \in Player : /\ pc[q] = "lost" /\ P[q].battle \in ZoneA /\ P[q].id = i
                            /\ p = Agent[P[q].battle]
    BY <1>3, FifoGets
  <2>2. PICK b \in ZoneA : b = P[q].battle /\ p = Agent[b]
    BY <2>1
  <2>3. q \in Node /\ q \notin Battle /\ Loses(b, q)
    BY <2>1, <2>2, ChildrenAreNodes DEF Loses
  <2>4. i \in Name(q)
    <3>1. Name(q) # {}
      BY <2>3, LosersHaveNames
    <3> QED BY <2>1, <2>3, <3>1 DEF Name
  <2>5. Out(b, i)
    BY <2>3, <2>4 DEF Defeated
  <2> QED BY <2>2, <2>5, OutStays, ZoneAAgents
<1> QED BY <1>1, <1>2, <1>3

LEMMA InitHanded == Init => Handed
<1> SUFFICES ASSUME Init, NEW p \in Player \ Real PROVE Name(p) = {} /\ Ids(fifo[p]) = {}
  BY DEF Handed
<1>1. P[p].id = None /\ fifo[p] = <<>>
  BY DEF Init, NoStatus
<1> QED BY <1>1, NothingIn, ChildrenAreNodes DEF Name

\* The two halves of the tree, without its root.
Upper == ZoneA \cup Real
Lower == Node \ (Upper \cup {Root})

LEMMA Zones ==
  /\ Upper \subseteq Node \ {Root} /\ Lower \subseteq Node \ {Root} /\ Upper \cap Lower = {}
  /\ Node = Upper \cup Lower \cup {Root}
  /\ Real \subseteq Upper /\ Player \ Real \subseteq Lower /\ ZoneA \subseteq Upper /\ ZoneA \subseteq Battle
  /\ Left[Root] \in Upper /\ Right[Root] \in Lower
  /\ \A b \in Battle \cap Upper : b \in ZoneA /\ Left[b] \in Upper /\ Right[b] \in Upper
  /\ \A b \in Battle \cap Lower : Left[b] \in Lower /\ Right[b] \in Lower
<1>1. /\ Upper \subseteq Node /\ Root \notin Upper /\ ZoneA \subseteq Battle
      /\ \A b \in Battle \cap Upper : b \in ZoneA
  BY TreeAssumption, ChildrenAreNodes DEF Upper
<1>2. Player \ Real \subseteq Lower
  BY TreeAssumption, ChildrenAreNodes DEF Upper, Lower
<1>3. \A b \in Battle : Left[b] # Root /\ Right[b] # Root /\ Left[b] \in Node /\ Right[b] \in Node
  BY TreeAssumption, ChildrenAreNodes
<1>4. /\ Left[Root] \in Upper /\ Right[Root] \in Lower
      /\ \A b \in ZoneA : Left[b] \in Upper /\ Right[b] \in Upper
  BY <1>1, <1>3, ZonesAssumption, ChildrenAreNodes DEF Upper, Lower
<1>5. \A b \in Battle \cap Lower : Left[b] \in Lower /\ Right[b] \in Lower
  BY <1>3, ZonesAssumption DEF Upper, Lower
<1>6. /\ Real \subseteq Upper /\ ZoneA \subseteq Upper
      /\ Lower \subseteq Node \ {Root} /\ Upper \cap Lower = {} /\ Node = Upper \cup Lower \cup {Root}
  BY <1>1, ChildrenAreNodes DEF Upper, Lower
<1> HIDE DEF Upper, Lower
<1>7. \A b \in Battle \cap Upper : b \in ZoneA /\ Left[b] \in Upper /\ Right[b] \in Upper
  BY <1>1, <1>4
<1>8. Upper \subseteq Node \ {Root}
  BY <1>1
<1> QED BY <1>1, <1>2, <1>4, <1>5, <1>6, <1>7, <1>8

LEMMA ZoneOfChild ==
  ASSUME NEW b \in Battle, b # Root, NEW n \in {Left[b], Right[b]}
  PROVE  /\ n \in Upper => b \in Upper /\ b \in ZoneA
         /\ n \in Lower => b \in Lower
<1>1. b \in Upper \/ b \in Lower
  BY ChildrenAreNodes DEF Lower
<1>2. CASE b \in Upper
  BY <1>2, Zones
<1>3. CASE b \in Lower
  BY <1>3, Zones
<1> QED BY <1>1, <1>2, <1>3

\* Here somebody's way through a half ends, for now or for good.
End(n) == \E b \in Battle : n \in {Left[b], Right[b]} /\ (b = Root \/ winner[b] # n)
OneEnd(Z) == \A m, n \in Z : End(m) /\ End(n) /\ Name(m) \cap Name(n) # {} => m = n

\* A half: with a battle it has both its children.
Half(Z) == /\ Z \subseteq Node \ {Root}
           /\ \A b \in Battle \cap Z : Left[b] \in Z /\ Right[b] \in Z

LEMMA EndWas ==
  ASSUME Sound, [Next]_vars, NEW n \in Node, End(n)'
  PROVE  End(n)
<1>1. PICK b \in Battle : n \in {Left[b], Right[b]} /\ (b = Root \/ winner'[b] # n)
  BY DEF End
<1>2. n # None
  BY ChildrenAreNodes
<1>3. winner[b] = n => winner'[b] = n
  BY <1>2, NextSound DEF NamesKept
<1> QED BY <1>1, <1>3 DEF End

\* The one who wins a battle is no end any more, and the battle becomes one.
LEMMA Promoted ==
  ASSUME Sound, [Next]_vars, NEW b \in Battle, b # Root, winner[b] = None, NEW i \in Name(b)'
  PROVE  \E w \in {Left[b], Right[b]} : w # b /\ i \in Name(w)' /\ End(w) /\ ~ End(w)'
<1>1. Sound'
  BY NextSound
<1>2. winner'[b] # None
  BY DEF Name
<1>3. PICK w \in {Left[b], Right[b]} : w = winner'[b] /\ i = held'[w].id
  BY <1>1, <1>2 DEF Name, Sound, Battles
<1>4. w \in Node /\ w # None /\ w # b
  BY ChildrenAreNodes, NotItsOwnChild
<1>5. i \in Name(w)'
  <2>1. i # None
    BY <1>1, <1>2, <1>3 DEF Sound, Battles
  <2> QED BY <1>1, <1>3, <1>4, <2>1 DEF Sound, Names
<1>6. End(w)
  BY <1>4 DEF End
<1>7. ~ End(w)'
  <2>1. \A c \in Battle : w \in {Left[c], Right[c]} => c = b
    BY OneParent
  <2> QED BY <1>3, <2>1 DEF End
<1> QED BY <1>4, <1>5, <1>6, <1>7

\* Nobody ends twice in one half, as long as no agent is given a name its half has.
LEMMA OneEndKept ==
  ASSUME Sound, [Next]_vars, NEW Z, Half(Z), OneEnd(Z),
         \A a \in Player \cap Z : TakeOver(a) => \A n \in Z : Head(fifo[a]).id \notin Name(n)
  PROVE  OneEnd(Z)'
<1>1. PICK x \in Node :
        /\ \A n \in Node \ {x} : Name(n)' = Name(n)
        /\ \/ Name(x)' = Name(x)
           \/ Name(x) = {} /\ x \in Battle /\ ReadRight(x)
           \/ Name(x) = {} /\ x \in Player /\ TakeOver(x)
  BY NewName
<1>2. \A n \in Z : n \in Node /\ n # Root
  BY DEF Half
<1>3. ASSUME NEW m \in Z, NEW n \in Z, m # x, n # x, End(m)', End(n)', (Name(m) \cap Name(n))' # {}
      PROVE  m = n
  <2>1. End(m) /\ End(n)
    BY <1>2, <1>3, EndWas
  <2>2. Name(m)' = Name(m) /\ Name(n)' = Name(n)
    BY <1>1, <1>2, <1>3
  <2> QED BY <1>3, <2>1, <2>2 DEF OneEnd
<1>4. CASE Name(x)' = Name(x)
  <2>1. ASSUME NEW m \in Z, NEW n \in Z, End(m)', End(n)', (Name(m) \cap Name(n))' # {}
        PROVE  m = n
    <3>1. End(m) /\ End(n) /\ Name(m)' = Name(m) /\ Name(n)' = Name(n)
      BY <1>1, <1>2, <1>4, <2>1, EndWas
    <3> QED BY <2>1, <3>1 DEF OneEnd
  <2> QED BY <2>1 DEF OneEnd
<1>5. CASE Name(x) = {} /\ x \in Battle /\ ReadRight(x)
  <2>1. ASSUME NEW n \in Z, n # x, x \in Z, End(n)', NEW i, i \in Name(x)', i \in Name(n)'
        PROVE  FALSE
    <3>1. winner[x] = None
      BY <1>5 DEF ReadRight, Sound, Battles
    <3>2. PICK w \in {Left[x], Right[x]} : w # x /\ i \in Name(w)' /\ End(w) /\ ~ End(w)'
      BY <1>2, <1>5, <2>1, <3>1, Promoted
    <3>3. w \in Z /\ w \in Node
      BY <1>2, <1>5, <2>1 DEF Half
    <3>4. i \in Name(w) /\ i \in Name(n)
      BY <1>1, <1>2, <2>1, <3>2, <3>3
    <3>5. End(n)
      BY <1>2, <2>1, EndWas
    <3>6. w = n
      BY <3>2, <3>3, <3>4, <3>5 DEF OneEnd
    <3> QED BY <2>1, <3>2, <3>6
  <2> QED BY <1>3, <2>1 DEF OneEnd
<1>6. CASE Name(x) = {} /\ x \in Player /\ TakeOver(x)
  <2>1. ASSUME NEW n \in Z, n # x, x \in Z, NEW i, i \in Name(x)', i \in Name(n)'
        PROVE  FALSE
    <3>1. P' = [P EXCEPT ![x] = Head(fifo[x])]
      BY <1>6 DEF TakeOver
    <3>2. i = Head(fifo[x]).id
      BY <1>6, <2>1, <3>1, ChildrenAreNodes DEF Name, Sound, TypeOK
    <3>3. i \in Name(n)
      BY <1>1, <1>2, <2>1
    <3> QED BY <1>6, <2>1, <3>2, <3>3
  <2> QED BY <1>3, <2>1 DEF OneEnd
<1> QED BY <1>1, <1>4, <1>5, <1>6

\* Whoever has a name in the losers' half has it from an agent.
Agents == \A n \in Lower : \A i \in Name(n) : \E p \in Player \ Real : i \in Name(p)

LEMMA NextAgents == Sound /\ Agents /\ [Next]_vars => Agents'
<1> SUFFICES ASSUME Sound, Agents, [Next]_vars, NEW n \in Lower, NEW i \in Name(n)'
             PROVE  \E p \in Player \ Real : i \in Name(p)'
  BY DEF Agents
<1>1. ASSUME NEW m \in Lower, i \in Name(m)
      PROVE  \E p \in Player \ Real : i \in Name(p)'
  BY <1>1, NamesGrow, ChildrenAreNodes DEF Agents
<1>2. PICK x \in Node :
        /\ \A m \in Node \ {x} : Name(m)' = Name(m)
        /\ \/ Name(x)' = Name(x)
           \/ Name(x) = {} /\ x \in Battle /\ ReadRight(x)
           \/ Name(x) = {} /\ x \in Player /\ TakeOver(x)
  BY NewName
<1>3. n \in Node /\ n # Root
  BY Zones
<1>4. CASE n \in Player
  BY <1>4, ChildrenAreNodes DEF Lower, Upper
<1>5. CASE n = x /\ n \in Battle /\ Name(n) = {} /\ ReadRight(n)
  <2>1. winner[n] = None
    BY <1>5 DEF ReadRight, Sound, Battles
  <2>2. PICK w \in {Left[n], Right[n]} : w # n /\ i \in Name(w)'
    BY <1>3, <1>5, <2>1, Promoted
  <2>3. w \in Lower /\ w \in Node
    BY <1>5, Zones
  <2> QED BY <1>1, <1>2, <1>5, <2>2, <2>3
<1> QED BY <1>1, <1>2, <1>3, <1>4, <1>5

\* A real player is itself.
Themselves == \A p \in Real : P[p].id = p

\* An agent gets somebody whom nobody else in its half speaks for: who is out at the
\* battle of another agent has not got to this one.
LEMMA Newcomer ==
  ASSUME Sound, OneEnd(Upper), Handed, Agents,
         NEW a \in Player \ Real, TakeOver(a), NEW n \in Lower
  PROVE  Head(fifo[a]).id \notin Name(n)
<1> DEFINE i == Head(fifo[a]).id
<1> SUFFICES ASSUME i \in Name(n) PROVE FALSE
  OBVIOUS
<1>1. fifo[a] # <<>> /\ P[a] = NoStatus
  BY DEF TakeOver
<1>2. i \in Ids(fifo[a])
  BY <1>1, TakenOut DEF Sound, TypeOK
<1>3. PICK p \in Player \ Real : i \in Name(p)
  BY DEF Agents
<1> HIDE DEF i
<1>4. PICK b \in ZoneA : a = Agent[b] /\ Out(b, i)
  BY <1>2 DEF Handed
<1>5. PICK c \in ZoneA : p = Agent[c] /\ Out(c, i)
  BY <1>3 DEF Handed
<1>6. PICK u \in {Left[b], Right[b]} : i \in Name(u) /\ winner[b] # u
  BY <1>4 DEF Out
<1>7. PICK v \in {Left[c], Right[c]} : i \in Name(v) /\ winner[c] # v
  BY <1>5 DEF Out
<1>8. u \in Upper /\ v \in Upper /\ b \in Battle /\ c \in Battle
  BY Zones
<1>9. End(u) /\ End(v)
  BY <1>6, <1>7, <1>8 DEF End
<1>10. u = v
  BY <1>6, <1>7, <1>8, <1>9 DEF OneEnd
<1>11. b = c
  BY <1>8, <1>10, OneParent
<1>12. Name(a) = {}
  BY <1>1, ChildrenAreNodes DEF Name, NoStatus
<1> QED BY <1>3, <1>4, <1>5, <1>11, <1>12

\* In each half somebody's way has one end.
OneWay == OneEnd(Upper) /\ OneEnd(Lower)

LEMMA NextOneWay == Sound /\ Themselves /\ Handed /\ Agents /\ OneWay /\ [Next]_vars => OneWay'
<1> SUFFICES ASSUME Sound, Themselves, Handed, Agents, OneWay, [Next]_vars PROVE OneWay'
  OBVIOUS
<1>1. Half(Upper) /\ Half(Lower)
  BY Zones DEF Half
<1>2. \A a \in Player \cap Upper : ~ TakeOver(a)
  <2> SUFFICES ASSUME NEW a \in Player \cap Upper PROVE P[a] # NoStatus
    BY DEF TakeOver
  <2>1. a \in Real
    BY ChildrenAreNodes, Zones DEF Upper
  <2> QED BY <2>1, ChildrenAreNodes DEF Themselves, NoStatus
<1>3. \A a \in Player \cap Lower : a \in Player \ Real
  BY DEF Lower, Upper
<1>4. OneEnd(Upper)'
  BY <1>1, <1>2, OneEndKept DEF OneWay
<1>5. OneEnd(Lower)'
  BY <1>1, <1>3, Newcomer, OneEndKept DEF OneWay
<1> QED BY <1>4, <1>5 DEF OneWay

LEMMA InitOneWay == Init => Themselves /\ Agents /\ OneWay
<1> SUFFICES ASSUME Init PROVE Themselves /\ Agents /\ OneWay
  OBVIOUS
<1>1. /\ \A b \in Battle : winner[b] = None
      /\ P = [p \in Player |-> IF p \in Real THEN [NoStatus EXCEPT !.id = p, !.HP = Health[p]]
                                             ELSE NoStatus]
  BY DEF Init
<1>2. \A p \in Player : P[p].id = IF p \in Real THEN p ELSE None
  BY <1>1 DEF NoStatus
<1>3. /\ \A n \in Node \ Real : Name(n) = {}
      /\ \A n \in Real : Name(n) \subseteq {n}
  BY <1>1, <1>2, ChildrenAreNodes DEF Name
<1>4. \A m, n \in Node : Name(m) \cap Name(n) # {} => m = n
  BY <1>3
<1>5. Agents
  BY <1>3 DEF Agents, Lower, Upper
<1>6. OneWay
  BY <1>4, Zones DEF OneWay, OneEnd
<1>7. Themselves
  BY <1>2, ChildrenAreNodes DEF Themselves
<1> QED BY <1>5, <1>6, <1>7

\* The battles that i has lost.
LostIn(i) == {b \in Battle : winner[b] # None /\ held[Loser(b)].id = i}

\* What is on record agrees with the defeats counted and the champion announced.
Told == \A b \in Battle : winner[b] # None => held[Left[b]].id # None /\ held[Right[b]].id # None
Counted == \A i \in Real : defeats[i] = Cardinality(LostIn(i))
Crowned == champion # None => winner[Root] # None /\ champion = held[winner[Root]].id
Record == Told /\ Counted /\ Crowned

\* Only a round changes what is on record.
LEMMA RecordChanges ==
  ASSUME Sound, [Next]_vars
  PROVE  UNCHANGED <<winner, champion, defeats>> \/ \E b \in Battle : ReadRight(b)
<1>1. CASE UNCHANGED vars
  BY <1>1 DEF vars
<1>2. ASSUME NEW p \in Player,
             Send(p) \/ Receive(p) \/ HandOver(p) \/ TakeOver(p) \/ HandOverFails(p) \/ TakeOverFails(p)
      PROVE  UNCHANGED <<winner, champion, defeats>>
  BY <1>2 DEF Send, Receive, HandOver, TakeOver, HandOverFails, TakeOverFails
<1>3. ASSUME NEW b \in Battle,
             \/ ReadLeft(b) \/ RelayUp(b) \/ RelayDown(b) \/ Reap(b) \/ Finish(b)
             \/ ReadLeftEnd(b) \/ ReadRightEnd(b) \/ FeedbackEnd(b)
      PROVE  UNCHANGED <<winner, champion, defeats>>
  BY <1>3 DEF ReadLeft, RelayUp, RelayDown, Reap, Finish, ReadLeftEnd, ReadRightEnd, FeedbackEnd
<1>4. ASSUME NEW m \in Node, Orphaned(m) PROVE UNCHANGED <<winner, champion, defeats>>
  BY <1>4 DEF Orphaned
<1> QED BY <1>1, <1>2, <1>3, <1>4 DEF Next, Process

\* Who has lost a battle has lost it for good.
LEMMA LossStays ==
  ASSUME Sound, Told, [Next]_vars, NEW b \in Battle, winner[b] # None
  PROVE  /\ winner'[b] = winner[b] /\ held'[Loser(b)'].id = held[Loser(b)].id
         /\ held'[winner'[b]].id = held[winner[b]].id
         /\ held'[Left[b]].id = held[Left[b]].id /\ held'[Right[b]].id = held[Right[b]].id
<1>1. winner'[b] = winner[b] /\ winner[b] \in {Left[b], Right[b]}
  BY NextSound DEF NamesKept, Sound, Battles
<1>2. held'[Left[b]].id = held[Left[b]].id /\ held'[Right[b]].id = held[Right[b]].id
  BY NextSound, ChildrenAreNodes DEF NamesKept, Told
<1> QED BY <1>1, <1>2 DEF Loser

\* A battle without a decision leaves the record alone.
LEMMA RecordKept ==
  ASSUME Sound, Record, [Next]_vars, UNCHANGED <<winner, champion, defeats>>
  PROVE  Record'
<1>1. Told'
  BY LossStays DEF Record, Told
<1>2. \A i \in Real : LostIn(i)' = LostIn(i)
  BY LossStays DEF Record, LostIn
<1>3. Counted'
  BY <1>2 DEF Record, Counted
<1>4. Crowned'
  BY LossStays, ChildrenAreNodes DEF Record, Crowned
<1> QED BY <1>1, <1>3, <1>4 DEF Record

\* A decision is one defeat more, and that of the root a champion.
LEMMA Decision ==
  ASSUME Sound, NEW b \in Battle, ReadRight(b), ~ UNCHANGED <<winner, champion, defeats>>
  PROVE  \E w \in {Left[b], Right[b]}, z \in {Left[b], Right[b]} :
           /\ z # w /\ winner[b] = None /\ winner' = [winner EXCEPT ![b] = w]
           /\ held'[w].id \in Real /\ held'[z].id \in Real
           /\ defeats' = [defeats EXCEPT ![held'[z].id] = @ + 1]
           /\ champion' = IF b = Root THEN held'[w].id ELSE champion
<1>1. PICK l, r : l = Left[b] /\ r = Right[b] /\ l \in Node /\ r \in Node /\ l # r
  BY ChildrenAreNodes
<1>2. PICK s \in Status, t \in Status : Fought(b, l, r, s, t)
  BY <1>1, RoundFought
<1>3. s.id \in Real /\ t.id \in Real /\ s.HP \in Int /\ t.HP \in Int
  BY StatusThere
<1>4. held'[l] = s /\ held'[r] = t
  BY <1>1, <1>2 DEF Fought, Sound, TypeOK
<1>5. winner[b] = None
  BY DEF ReadRight, Sound, Battles
<1> DEFINE out == Fight(b, held[l], Head(up[r]))
<1>6. s = out[1] /\ t = out[2]
  BY <1>2 DEF Fought
<1>7. champion' = IF b = Root THEN First(out) ELSE champion
  BY <1>1 DEF ReadRight
<1>8. First(out) = IF t.HP > 0 THEN t.id ELSE s.id
  BY <1>6 DEF First
<1> HIDE DEF out
<1>9. CASE t.HP <= 0
  <2>1. winner' = [winner EXCEPT ![b] = l] /\ defeats' = [defeats EXCEPT ![t.id] = @ + 1]
    BY <1>2, <1>3, <1>9 DEF Fought
  <2>2. champion' = IF b = Root THEN s.id ELSE champion
    BY <1>3, <1>7, <1>8, <1>9
  <2> QED BY <1>1, <1>3, <1>4, <1>5, <2>1, <2>2
<1>10. CASE t.HP > 0
  <2>1. winner' = [winner EXCEPT ![b] = r] /\ defeats' = [defeats EXCEPT ![s.id] = @ + 1]
    BY <1>2, <1>3, <1>10 DEF Fought
  <2>2. champion' = IF b = Root THEN t.id ELSE champion
    BY <1>3, <1>7, <1>8, <1>10
  <2> QED BY <1>1, <1>3, <1>4, <1>5, <2>1, <2>2
<1> QED BY <1>3, <1>9, <1>10

LEMMA NextRecord == Sound /\ Record /\ [Next]_vars => Record'
<1> SUFFICES ASSUME Sound, Record, [Next]_vars PROVE Record'
  OBVIOUS
<1>1. ASSUME NEW b \in Battle, ReadRight(b), ~ UNCHANGED <<winner, champion, defeats>>
      PROVE  Record'
  <2>1. PICK w \in {Left[b], Right[b]}, z \in {Left[b], Right[b]} :
           /\ z # w /\ winner[b] = None /\ winner' = [winner EXCEPT ![b] = w]
           /\ held'[w].id \in Real /\ held'[z].id \in Real
           /\ defeats' = [defeats EXCEPT ![held'[z].id] = @ + 1]
           /\ champion' = IF b = Root THEN held'[w].id ELSE champion
    BY <1>1, Decision
  <2>2. winner'[b] = w /\ w # None /\ \A c \in Battle \ {b} : winner'[c] = winner[c]
    BY <2>1, ChildrenAreNodes DEF Sound, TypeOK
  <2>3. Loser(b)' = z
    BY <2>1, <2>2, ChildrenAreNodes DEF Loser
  <2>4. Told'
    <3> SUFFICES ASSUME NEW c \in Battle, winner'[c] # None
                 PROVE  held'[Left[c]].id # None /\ held'[Right[c]].id # None
      BY DEF Told
    <3>1. CASE c = b
      BY <2>1, <3>1, ChildrenAreNodes
    <3>2. CASE c # b
      BY <2>2, <3>2, LossStays DEF Record, Told
    <3> QED BY <3>1, <3>2
  <2>5. PICK k \in Real : k = held'[z].id
    BY <2>1
  <2>6. \A i \in Real : \A c \in Battle \ {b} : c \in LostIn(i)' <=> c \in LostIn(i)
    BY <2>2, LossStays DEF Record, LostIn
  <2>7. \A i \in Real : (b \in LostIn(i)' <=> i = k) /\ b \notin LostIn(i)
    BY <2>1, <2>2, <2>3, <2>5 DEF LostIn
  <2>8. \A i \in Real : LostIn(i) \subseteq Battle /\ LostIn(i)' \subseteq Battle
    BY DEF LostIn
  <2>9. LostIn(k)' = LostIn(k) \cup {b} /\ \A i \in Real \ {k} : LostIn(i)' = LostIn(i)
    BY <2>6, <2>7, <2>8
  <2>10. Cardinality(LostIn(k) \cup {b}) = Cardinality(LostIn(k)) + 1
    <3>1. IsFiniteSet(LostIn(k))
      BY <2>8, TreeAssumption, FS_Subset
    <3> QED BY <2>7, <3>1, FS_AddElement
  <2>11. defeats'[k] = defeats[k] + 1 /\ \A i \in Real \ {k} : defeats'[i] = defeats[i]
    BY <2>1, <2>5 DEF Sound, TypeOK
  <2>12. Counted'
    BY <2>9, <2>10, <2>11 DEF Record, Counted
  <2>13. Crowned'
    <3>1. CASE b = Root
      BY <2>1, <2>2, <3>1 DEF Crowned
    <3>2. CASE b # Root
      BY <2>1, <2>2, <3>2, LossStays, ChildrenAreNodes DEF Record, Crowned
    <3> QED BY <3>1, <3>2
  <2> QED BY <2>4, <2>12, <2>13 DEF Record
<1> QED BY <1>1, RecordKept, RecordChanges

LEMMA InitRecord == Init => Record
<1> SUFFICES ASSUME Init PROVE Record
  OBVIOUS
<1>1. \A b \in Battle : winner[b] = None
  BY DEF Init
<1>2. \A i \in Real : LostIn(i) = {}
  BY <1>1 DEF LostIn
<1>3. \A i \in Real : defeats[i] = 0
  BY DEF Init
<1> QED BY <1>1, <1>2, <1>3, FS_EmptySet DEF Init, Record, Told, Counted, Crowned

LEMMA NextThemselves == Sound /\ Themselves /\ [Next]_vars => Themselves'
<1> SUFFICES ASSUME Sound, Themselves, [Next]_vars, NEW p \in Real PROVE P'[p].id = p
  BY DEF Themselves
<1>1. p \in Player /\ p # None
  BY ChildrenAreNodes
<1> QED BY <1>1, NextSound DEF Themselves, NamesKept

\* Where everybody has got to, and that it is on record.
Ways == Themselves /\ Defeated /\ Handed /\ Agents /\ OneWay /\ Record

LEMMA AlwaysWays == Spec => []Ways
<1>1. Init => Ways
  BY InitDefeated, InitHanded, InitOneWay, InitRecord DEF Ways
<1>2. Sound /\ Tokens /\ Fit /\ OneLoser /\ Ways /\ [Next]_vars => Ways'
  BY NextThemselves, NextDefeated, NextHanded, NextAgents, NextOneWay, NextRecord DEF Ways
<1> QED BY <1>1, <1>2, AlwaysSound, AlwaysTokens, AlwaysFit, AlwaysOneLoser, PTL DEF Spec

\* The battles i has lost before it went to an agent, and those it has lost since.
LostAbove(i) == {b \in LostIn(i) : Loser(b) \in Upper}
LostBelow(i) == {b \in LostIn(i) : Loser(b) \in Lower}

LEMMA FewElements ==
  ASSUME NEW S, \A x, y \in S : x = y
  PROVE  IsFiniteSet(S) /\ Cardinality(S) = IF S = {} THEN 0 ELSE 1
<1>1. CASE S = {}
  BY <1>1, FS_EmptySet
<1>2. ASSUME NEW x \in S PROVE IsFiniteSet(S) /\ Cardinality(S) = 1
  <2>1. S = {x}
    OBVIOUS
  <2> QED BY <2>1, FS_Singleton
<1> QED BY <1>1, <1>2

\* Who has lost a battle ends at the side of the loser.
LEMMA LoserEnds ==
  ASSUME Sound, NEW i \in Real, NEW b \in LostIn(i)
  PROVE  /\ b \in Battle /\ Loser(b) \in {Left[b], Right[b]} /\ Loser(b) # winner[b]
         /\ Loser(b) \in Upper \cup Lower /\ End(Loser(b)) /\ i \in Name(Loser(b))
<1>1. b \in Battle /\ winner[b] # None /\ held[Loser(b)].id = i /\ i # None
  BY ChildrenAreNodes DEF LostIn
<1>2. Loser(b) \in {Left[b], Right[b]} /\ Loser(b) # winner[b]
  BY <1>1, ChildrenAreNodes DEF Loser, Sound, Battles
<1>3. Loser(b) \in Node /\ Loser(b) # Root
  BY <1>1, <1>2, ChildrenAreNodes, OneParent
<1>4. Loser(b) \in Upper \cup Lower
  BY <1>3 DEF Lower
<1>5. i \in Name(Loser(b))
  BY <1>1, <1>3 DEF Sound, Names
<1> QED BY <1>1, <1>2, <1>4, <1>5 DEF End

\* One end in each half, one defeat in each half.
LEMMA TwoDefeats ==
  ASSUME Sound, OneWay, NEW i \in Real
  PROVE  /\ \A b \in LostAbove(i), n \in Upper : End(n) /\ i \in Name(n) => n = Loser(b)
         /\ \A b \in LostBelow(i), n \in Lower : End(n) /\ i \in Name(n) => n = Loser(b)
         /\ Cardinality(LostIn(i)) = (IF LostAbove(i) = {} THEN 0 ELSE 1)
                                     + (IF LostBelow(i) = {} THEN 0 ELSE 1)
<1>1. \A b \in LostAbove(i), n \in Upper : End(n) /\ i \in Name(n) => n = Loser(b)
  BY LoserEnds DEF LostAbove, OneWay, OneEnd
<1>2. \A b \in LostBelow(i), n \in Lower : End(n) /\ i \in Name(n) => n = Loser(b)
  BY LoserEnds DEF LostBelow, OneWay, OneEnd
<1>3. \A b, c \in LostIn(i) : Loser(b) = Loser(c) => b = c
  BY LoserEnds, OneParent
<1>4. \A b, c \in LostAbove(i) : b = c
  BY <1>1, <1>3, LoserEnds DEF LostAbove
<1>5. \A b, c \in LostBelow(i) : b = c
  BY <1>2, <1>3, LoserEnds DEF LostBelow
<1>6. LostIn(i) = LostAbove(i) \cup LostBelow(i) /\ LostAbove(i) \cap LostBelow(i) = {}
  BY LoserEnds, Zones DEF LostAbove, LostBelow
<1> DEFINE A == LostAbove(i)
           B == LostBelow(i)
<1>7. /\ IsFiniteSet(A) /\ Cardinality(A) = IF A = {} THEN 0 ELSE 1
      /\ IsFiniteSet(B) /\ Cardinality(B) = IF B = {} THEN 0 ELSE 1
  BY <1>4, <1>5, FewElements
<1>8. Cardinality(A \cup B) = Cardinality(A) + Cardinality(B) - Cardinality(A \cap B)
  BY <1>7, FS_Union
<1>9. Cardinality(A \cap B) = 0
  BY <1>6, FS_EmptySet
<1>10. Cardinality(LostIn(i)) = (IF A = {} THEN 0 ELSE 1) + (IF B = {} THEN 0 ELSE 1)
  <2> HIDE DEF A, B
  <2>1. Cardinality(A \cup B) = (IF A = {} THEN 0 ELSE 1) + (IF B = {} THEN 0 ELSE 1)
    BY <1>7, <1>8, <1>9
  <2> QED BY <1>6, <2>1 DEF A, B
<1> QED BY <1>1, <1>2, <1>10

\* A way that has begun in a half has an end there.
LEMMA WayEnds ==
  ASSUME Sound, NEW Z, Half(Z), NEW i, NEW n \in Z, i \in Name(n),
         \A b \in Battle \ {Root} : \A m \in {Left[b], Right[b]} : m \in Z => b \in Z
  PROVE  \E m \in Z : End(m) /\ i \in Name(m)
<1> SUFFICES ASSUME \A m \in Z : i \in Name(m) => ~ End(m) PROVE FALSE
  OBVIOUS
<1> DEFINE S == {m \in Node : ~ (m \in Z /\ i \in Name(m))}
<1>1. ASSUME NEW b \in Battle, NEW m \in {Left[b], Right[b]}, m \notin S
      PROVE  b \notin S
  <2>1. m \in Node /\ m \in Z /\ i \in Name(m)
    BY <1>1, ChildrenAreNodes
  <2>2. b # Root /\ winner[b] = m
    BY <2>1 DEF End
  <2>3. m # None /\ held[m].id # None
    BY <2>1, <2>2, ChildrenAreNodes DEF Sound, Battles
  <2>4. held[m].id = i
    <3>1. held[m].id \in Name(m)
      BY <2>1, <2>3 DEF Sound, Names
    <3> QED BY <2>1, <3>1, NameUnique
  <2>5. i \in Name(b)
    BY <2>2, <2>3, <2>4 DEF Name
  <2> QED BY <2>1, <2>2, <2>5
<1>2. S \in Closed
  BY <1>1, ChildrenAreNodes DEF Closed
<1>3. Root \in S
  BY ChildrenAreNodes DEF Half
<1>4. n \notin S /\ n \in Node
  BY DEF Half
<1> QED BY <1>2, <1>3, <1>4, TreeAssumption

\* Who has lost in the upper half and not in the last battle has come to an agent when
\* every agent has somebody.
LEMMA WaysEnd ==
  ASSUME Sound, Themselves, Handed, OneWay, NEW i \in Real
  PROVE  /\ \E u \in Upper : End(u) /\ i \in Name(u)
         /\ \A b \in LostAbove(i) \ {Root} :
              P[Agent[b]] # NoStatus => \E d \in Lower : End(d) /\ i \in Name(d)
<1>1. /\ Half(Upper) /\ \A b \in Battle \ {Root} : \A m \in {Left[b], Right[b]} : m \in Upper => b \in Upper
      /\ Half(Lower) /\ \A b \in Battle \ {Root} : \A m \in {Left[b], Right[b]} : m \in Lower => b \in Lower
  BY Zones, ZoneOfChild DEF Half
<1>2. \E u \in Upper : End(u) /\ i \in Name(u)
  <2>1. i \in Upper /\ i \in Name(i)
    BY Zones, ChildrenAreNodes DEF Themselves, Name
  <2> QED BY <1>1, <2>1, WayEnds
<1>3. ASSUME NEW b \in LostAbove(i) \ {Root}, P[Agent[b]] # NoStatus
      PROVE  \E d \in Lower : End(d) /\ i \in Name(d)
  <2>1. b \in ZoneA /\ b \in LostIn(i)
    BY <1>1, LoserEnds, Zones DEF LostAbove
  <2>2. PICK a \in Player \ Real : a = Agent[b]
    BY <2>1, TreeAssumption
  <2>3. PICK j : j \in Name(a)
    <3>1. P[a].id # None
      BY <1>3, <2>2, StatusThere DEF Sound, TypeOK
    <3> QED BY <3>1, <2>2, ChildrenAreNodes DEF Name
  <2>4. Out(b, j)
    BY <2>1, <2>2, <2>3, TreeAssumption DEF Handed
  <2>5. PICK n \in {Left[b], Right[b]} : j \in Name(n) /\ winner[b] # n
    BY <2>4 DEF Out
  <2>6. n = Loser(b)
    BY <2>1, <2>5, Zones DEF LostIn, Loser, Sound, Battles
  <2>7. i = j
    BY <2>1, <2>5, <2>6, LoserEnds, Zones, ChildrenAreNodes, NameUnique
  <2> QED BY <1>1, <2>2, <2>3, <2>7, WayEnds, Zones
<1> QED BY <1>2, <1>3

\* Where somebody ends when all is decided it has lost, unless it has won the last battle.
LEMMA EndsLost ==
  ASSUME Sound, Record, \A b \in Battle : winner[b] # None, champion # None,
         NEW i \in Real, i # champion, NEW n \in Node, End(n), i \in Name(n)
  PROVE  \E b \in LostIn(i) : Loser(b) = n
<1>1. PICK b \in Battle : n \in {Left[b], Right[b]} /\ (b = Root \/ winner[b] # n)
  BY DEF End
<1>2. held[n].id = i
  <2>1. held[n].id \in Name(n)
    BY <1>1 DEF Record, Told, Sound, Names
  <2> QED BY <2>1, NameUnique
<1>3. winner[b] # n
  BY <1>1, <1>2 DEF Record, Crowned
<1>4. Loser(b) = n
  BY <1>1, <1>3 DEF Loser, Sound, Battles
<1> QED BY <1>2, <1>4 DEF LostIn

\* In each half of the tree a player loses once at most, and not in the half through which
\* it came to be champion; whoever has lost above has an agent that loses too.
LEMMA Eliminated == ASSUME Sound, Chain, Ways PROVE DoubleElimination
<1>1. /\ Sound /\ OneWay /\ Themselves /\ Handed /\ Agents /\ Record
      /\ \A i \in Real : defeats[i] = Cardinality(LostIn(i))
  BY DEF Ways, Record, Counted
<1>2. \A i \in Real : defeats[i] = (IF LostAbove(i) = {} THEN 0 ELSE 1)
                                   + (IF LostBelow(i) = {} THEN 0 ELSE 1)
  BY <1>1, TwoDefeats
<1>3. \A i \in Real : defeats[i] <= 2
  BY <1>2
<1>4. ASSUME champion # None
      PROVE  defeats[champion] <= 1
  <2>1. PICK w \in {Left[Root], Right[Root]} : w = winner[Root] /\ held[w].id = champion /\ champion \in Real
    BY <1>1, <1>4, ChildrenAreNodes DEF Record, Crowned, Sound, TypeOK, Battles
  <2>2. w \in Node /\ End(w) /\ champion \in Name(w)
    BY <1>4, <2>1, ChildrenAreNodes DEF End, Sound, Names
  <2>3. ASSUME NEW b \in LostIn(champion), w = Loser(b) PROVE FALSE
    <3>1. b \in Battle /\ w \in {Left[b], Right[b]} /\ w # winner[b]
      BY <1>1, <2>1, <2>3, LoserEnds
    <3>2. b = Root
      BY <2>1, <3>1, OneParent, ChildrenAreNodes
    <3> QED BY <2>1, <3>1, <3>2
  <2>4. CASE w \in Upper
    <3>1. LostAbove(champion) = {}
      BY <1>1, <2>1, <2>2, <2>3, <2>4, TwoDefeats DEF LostAbove
    <3> QED BY <1>2, <2>1, <3>1
  <2>5. CASE w \in Lower
    <3>1. LostBelow(champion) = {}
      BY <1>1, <2>1, <2>2, <2>3, <2>5, TwoDefeats DEF LostBelow
    <3> QED BY <1>2, <2>1, <3>1
  <2> QED BY <2>1, <2>4, <2>5, Zones
<1>5. ASSUME champion # None, NEW i \in Real \ {champion}
      PROVE  defeats[i] = 2 \/ (defeats[i] = 1 /\ held[Loser(Root)].id = i)
  <2>1. \A n \in Node : Heard(n)
    BY <1>5, AllHeard
  <2>2. /\ \A b \in Battle : winner[b] # None
        /\ \A p \in Player : P[p] # NoStatus
    BY <2>1, ChildrenAreNodes DEF Chain
  <2>3. PICK u \in Upper : End(u) /\ i \in Name(u)
    BY <1>1, WaysEnd
  <2>4. PICK b \in LostIn(i) : Loser(b) = u
    BY <1>1, <1>5, <2>2, <2>3, EndsLost, Zones
  <2>5. b \in LostAbove(i)
    BY <2>4 DEF LostAbove
  <2>6. CASE b = Root
    BY <1>2, <2>4, <2>5, <2>6 DEF LostIn
  <2>7. CASE b # Root
    <3>1. b \in ZoneA
      BY <1>1, <2>3, <2>4, <2>7, LoserEnds, ZoneOfChild
    <3>2. PICK d \in Lower : End(d) /\ i \in Name(d)
      BY <1>1, <2>2, <2>5, <2>7, <3>1, WaysEnd, ZoneAAgents
    <3>3. PICK c \in LostIn(i) : Loser(c) = d
      BY <1>1, <1>5, <2>2, <3>2, EndsLost, Zones
    <3>4. c \in LostBelow(i)
      BY <3>3 DEF LostBelow
    <3> QED BY <1>2, <2>5, <3>4
  <2> QED BY <2>6, <2>7
<1> QED BY <1>3, <1>4, <1>5 DEF DoubleElimination

\* Nobody loses three battles; when there is a champion, it has lost one at most, and
\* everybody else two, or the last one.
THEOREM TwoDefeatsAreOut == Spec => []DoubleElimination
<1>1. Sound /\ Chain /\ Ways => DoubleElimination
  BY Eliminated
<1> QED BY <1>1, AlwaysSound, AlwaysChain, AlwaysWays, PTL
=============================================================================
