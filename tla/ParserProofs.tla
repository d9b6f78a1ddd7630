---------------------------- MODULE ParserProofs ----------------------------
(***************************************************************************)
(* What the parser of checkcommand does with every line, however long: it  *)
(* refuses those with a character out of place, and it understands those   *)
(* in the format of the tests.  And what initialize() of hw4 makes of every*)
(* file and input: the movies and requests they list, or nothing.          *)
(***************************************************************************)
EXTENDS CommandParser, MovieInput, DataLemmas, SequenceTheorems

-----------------------------------------------------------------------------
(* From the last character to the first. *)

\* f has the parse of what is at and after each character.
Parsed(line, f) ==
  /\ f[Len(line) + 1] = Begin(line)
  /\ \A k \in 1 .. Len(line) : f[k] = Scan(line, k, f[k + 1])

LEMMA ParseGoes ==
  ASSUME NEW line, Len(line) \in Nat
  PROVE  \E f : Parsed(line, f) /\ Parse(line) = [f[1] EXCEPT !.food = f[1].new]
<1> DEFINE n == Len(line)
           b == Begin(line)
           Down(f, m) == [k \in n + 1 - m .. n + 1 |-> IF k > n THEN b ELSE Scan(line, k, f[k + 1])]
           G == {m \in Nat : \E f : f = Down(f, m)}
<1>1. 0 \in G
  <2>1. [k \in n + 1 - 0 .. n + 1 |-> b] = Down([k \in n + 1 - 0 .. n + 1 |-> b], 0)
    <3> HIDE DEF b
    <3>1. \A k \in n + 1 - 0 .. n + 1 : k > n
      OBVIOUS
    <3> QED BY <3>1
  <2> HIDE DEF b
  <2> QED BY <2>1
<1>2. ASSUME NEW m \in Nat, m \in G PROVE m + 1 \in G
  <2>1. PICK f : f = Down(f, m)
    BY <1>2
  <2> DEFINE lo == n + 1 - m
             first == IF lo - 1 > n THEN b ELSE Scan(line, lo - 1, f[lo])
             g == [k \in lo - 1 .. n + 1 |-> IF k = lo - 1 THEN first ELSE f[k]]
  <2>2. lo \in Int /\ lo <= n + 1 /\ n + 1 - (m + 1) = lo - 1
    OBVIOUS
  <2>3. /\ g = [k \in lo - 1 .. n + 1 |-> g[k]] /\ g[lo - 1] = first
        /\ \A k \in lo .. n + 1 : g[k] = f[k]
    <3> HIDE DEF first, b
    <3> QED BY <2>2
  <2> HIDE DEF g
  <2>4. \A k \in lo .. n + 1 : f[k] = IF k > n THEN b ELSE Scan(line, k, f[k + 1])
    <3> HIDE DEF b
    <3> QED BY <2>1
  <2>5. ASSUME NEW k \in lo - 1 .. n + 1
        PROVE  g[k] = IF k > n THEN b ELSE Scan(line, k, g[k + 1])
    <3> HIDE DEF b
    <3>1. CASE k = lo - 1
      <4>1. lo \in lo .. n + 1 /\ k + 1 = lo
        BY <2>2, <3>1
      <4> QED BY <2>2, <2>3, <3>1, <4>1
    <3>2. CASE k # lo - 1
      <4>1. k \in lo .. n + 1 /\ (~ k > n => k + 1 \in lo .. n + 1)
        BY <2>2, <3>2
      <4> HIDE DEF lo
      <4> QED BY <2>3, <2>4, <4>1
    <3> QED BY <3>1, <3>2
  <2>6. g = [k \in lo - 1 .. n + 1 |-> IF k > n THEN b ELSE Scan(line, k, g[k + 1])]
    <3> HIDE DEF b, lo
    <3> QED BY <2>3, <2>5
  <2>7. g = Down(g, m + 1)
    <3> HIDE DEF b
    <3> QED BY <2>2, <2>6
  <2> HIDE DEF Down
  <2> QED BY <2>7
<1>3. n \in G
  <2> HIDE DEF G
  <2> QED BY <1>1, <1>2, SetInduction
<1>4. PICK f : f = Down(f, n)
  BY <1>3
<1>5. n + 1 - n = 1
  OBVIOUS
<1>6. \E g : /\ g = [k \in 1 .. n + 1 |-> IF k > n THEN b ELSE Scan(line, k, g[k + 1])]
             /\ Parse(line) = [g[1] EXCEPT !.food = g[1].new]
  <2>1. f = [k \in 1 .. n + 1 |-> IF k > n THEN b ELSE Scan(line, k, f[k + 1])]
    <3> HIDE DEF b
    <3> QED BY <1>4, <1>5
  <2> QED BY <2>1 DEF Parse
<1>7. PICK g : /\ g = [k \in 1 .. n + 1 |-> IF k > n THEN b ELSE Scan(line, k, g[k + 1])]
               /\ Parse(line) = [g[1] EXCEPT !.food = g[1].new]
  BY <1>6
<1>8. \A k \in 1 .. n + 1 : g[k] = IF k > n THEN b ELSE Scan(line, k, g[k + 1])
  <2> HIDE DEF b
  <2> QED BY <1>7
<1>9. n + 1 \in 1 .. n + 1 /\ n + 1 > n /\ \A k \in 1 .. n : k \in 1 .. n + 1 /\ ~ k > n
  OBVIOUS
<1>10. Parsed(line, g)
  <2> HIDE DEF n
  <2> QED BY <1>8, <1>9 DEF Parsed, n
<1> QED BY <1>7, <1>10

-----------------------------------------------------------------------------
(* What is refused. *)

\* A parse has the same fields all along, and it stays bad.
Fields == {"end", "spaces", "new", "food", "concert", "elecs", "bad"}

LEMMA StaysBad ==
  ASSUME NEW line, NEW k, NEW p, DOMAIN p = Fields
  PROVE  DOMAIN Scan(line, k, p) = Fields /\ (p.bad => Scan(line, k, p).bad)
<1>1. DOMAIN Scan(line, k, p) = Fields
  BY DEF Scan, EndWord, Fields
<1>2. p.bad => Scan(line, k, p).bad
  BY DEF Scan
<1> QED BY <1>1, <1>2

\* What is read at a character that is no digit, and neither a dash nor a space
\* that may stand there.
LEMMA TurnsBad ==
  ASSUME NEW line, NEW k \in Nat, NEW p, DOMAIN p = Fields, ~ Digit(line[k]),
         \/ line[k] \notin {Dash, Space}
         \/ line[k] = Dash /\ MisplacedDash(line, k)
  PROVE  Scan(line, k, p).bad
<1>1. [p EXCEPT !.bad = TRUE].bad
  BY DEF Fields
<1>2. ~ (line[k] = Dash /\ ~ MisplacedDash(line, k)) /\ line[k] # Space
  BY DEF Dash, Space
<1>3. Scan(line, k, p) = IF p.bad THEN p ELSE [p EXCEPT !.bad = TRUE]
  BY <1>2 DEF Scan
<1> QED BY <1>1, <1>3

LEMMA BadToTheEnd ==
  ASSUME NEW line, Len(line) \in Nat, NEW f, Parsed(line, f), NEW k \in 1 .. Len(line),
         DOMAIN f[k + 1] = Fields => f[k].bad
  PROVE  f[1].bad /\ DOMAIN f[1] = Fields
<1> DEFINE n == Len(line)
           G == {m \in Nat : m <= n => DOMAIN f[n + 1 - m] = Fields}
           H == {m \in Nat : m < k => f[k - m].bad}
<1>1. 0 \in G
  <2>1. DOMAIN Begin(line) = Fields /\ n + 1 - 0 = n + 1
    BY DEF Begin, Fields
  <2> QED BY <2>1 DEF Parsed
<1>2. ASSUME NEW m \in Nat, m \in G PROVE m + 1 \in G
  <2> SUFFICES ASSUME m + 1 <= n PROVE DOMAIN f[n + 1 - (m + 1)] = Fields
    OBVIOUS
  <2> DEFINE j == n - m
  <2>1. j \in 1 .. n /\ n + 1 - (m + 1) = j /\ n + 1 - m = j + 1 /\ m <= n
    OBVIOUS
  <2>2. f[j] = Scan(line, j, f[j + 1])
    BY <2>1 DEF Parsed
  <2>3. DOMAIN f[j + 1] = Fields
    BY <1>2, <2>1
  <2> HIDE DEF j
  <2> QED BY <2>1, <2>2, <2>3, StaysBad
<1>3. \A m \in Nat : m \in G
  <2> HIDE DEF G
  <2> QED BY <1>1, <1>2, SetInduction
<1>4. ASSUME NEW j \in 1 .. n + 1 PROVE DOMAIN f[j] = Fields
  <2>1. n + 1 - j \in Nat /\ n + 1 - j <= n /\ n + 1 - (n + 1 - j) = j
    OBVIOUS
  <2> QED BY <1>3, <2>1
<1>5. 0 \in H
  <2>1. k - 0 = k /\ k + 1 \in 1 .. n + 1
    OBVIOUS
  <2> QED BY <1>4, <2>1
<1>6. ASSUME NEW m \in Nat, m \in H PROVE m + 1 \in H
  <2> SUFFICES ASSUME m + 1 < k PROVE f[k - (m + 1)].bad
    OBVIOUS
  <2> DEFINE j == k - (m + 1)
  <2>1. j \in 1 .. n /\ k - m = j + 1 /\ m < k /\ j + 1 \in 1 .. n + 1
    OBVIOUS
  <2>2. f[j] = Scan(line, j, f[j + 1])
    BY <2>1 DEF Parsed
  <2>3. f[j + 1].bad /\ DOMAIN f[j + 1] = Fields
    BY <1>4, <1>6, <2>1
  <2> HIDE DEF j
  <2>4. f[j].bad
    BY <2>2, <2>3, StaysBad
  <2> QED BY <2>4 DEF j
<1>7. \A m \in Nat : m \in H
  <2> HIDE DEF H
  <2> QED BY <1>5, <1>6, SetInduction
<1>8. f[1].bad
  <2>1. k - 1 \in Nat /\ k - 1 < k /\ k - (k - 1) = 1
    OBVIOUS
  <2> QED BY <1>7, <2>1
<1>9. 1 \in 1 .. n + 1
  OBVIOUS
<1> QED BY <1>4, <1>8, <1>9

LEMMA RefusedAt ==
  ASSUME NEW line, Len(line) \in Nat, NEW k \in 1 .. Len(line), ~ Digit(line[k]),
         \/ line[k] \notin {Dash, Space}
         \/ line[k] = Dash /\ MisplacedDash(line, k)
  PROVE  Parse(line).bad
<1>1. PICK f : Parsed(line, f) /\ Parse(line) = [f[1] EXCEPT !.food = f[1].new]
  BY ParseGoes
<1>2. f[k] = Scan(line, k, f[k + 1]) /\ k \in Nat
  BY <1>1 DEF Parsed
<1>3. DOMAIN f[k + 1] = Fields => f[k].bad
  BY <1>2, TurnsBad
<1>4. f[1].bad /\ DOMAIN f[1] = Fields
  BY <1>1, <1>3, BadToTheEnd
<1>5. [f[1] EXCEPT !.food = f[1].new].bad = f[1].bad
  BY <1>4 DEF Fields
<1> QED BY <1>1, <1>4, <1>5

\* A line is made of the characters typed.
Typed == buf \in Seq(Char)

LEMMA AlwaysTyped == Spec => []Typed
<1>1. Init => Typed
  BY DEF Init, Typed
<1>2. Typed /\ [Next]_vars => Typed'
  BY DEF Typed, Next, Type, vars
<1> QED BY <1>1, <1>2, PTL DEF Spec

LEMMA Refused == Typed => ForeignRefused
<1> SUFFICES ASSUME Typed PROVE ForeignRefused
  OBVIOUS
<1>1. Len(buf) \in Nat /\ DOMAIN buf = 1 .. Len(buf)
  BY DEF Typed
<1>2. ASSUME NEW k \in DOMAIN buf, ~ Digit(buf[k]), buf[k] \notin {Dash, Space} PROVE Parse(buf).bad
  BY <1>1, <1>2, RefusedAt
<1>3. ASSUME NEW k \in DOMAIN buf, k > 2, buf[k] = Dash, Digit(buf[k - 1]) PROVE Parse(buf).bad
  <2>1. ~ Digit(buf[k]) /\ MisplacedDash(buf, k)
    BY <1>3 DEF Digit, Dash, MisplacedDash, Space, Zero, Nine
  <2> QED BY <1>1, <1>3, <2>1, RefusedAt
<1> QED BY <1>2, <1>3 DEF ForeignRefused

\* The parser inside checkcommand refuses every line that has a character which
\* belongs in no number, or a dash behind a digit in a word after the first,
\* wherever it stands and however long the line is: once bad, always bad.
THEOREM NoForeignCharacterAccepted == Spec => []ForeignRefused
BY AlwaysTyped, Refused, PTL

-----------------------------------------------------------------------------
(* The digits of a word. *)

LEMMA PowerIs ==
  /\ Power \in [Nat -> Nat \ {0}] /\ Power[0] = 1
  /\ \A n \in Nat : Power[n + 1] = 10 * Power[n]
<1> DEFINE S == Nat \ {0}
           one == 1
           h == [v \in S |-> 10 * v]
           Step(f) == [n \in Nat |-> IF n = 0 THEN 1 ELSE 10 * f[n - 1]]
<1>1. one \in S /\ h \in [S -> S]
  OBVIOUS
<1>2. PICK f \in [Nat -> S] : f[0] = one /\ \A n \in Nat : f[n + 1] = h[f[n]]
  <2> HIDE DEF h, S, one, Step
  <2> QED BY <1>1, StepsForever
<1>3. \A n \in Nat : f[n] \in S /\ f[n + 1] = 10 * f[n]
  BY <1>2
<1>4. f = Step(f)
  <2>1. ASSUME NEW n \in Nat PROVE f[n] = IF n = 0 THEN 1 ELSE 10 * f[n - 1]
    <3>1. CASE n # 0
      <4>1. n - 1 \in Nat /\ (n - 1) + 1 = n
        BY <3>1
      <4> QED BY <1>3, <3>1, <4>1
    <3> QED BY <1>2, <3>1
  <2> HIDE DEF S
  <2> QED BY <1>2, <2>1
<1>5. \E g : g = Step(g) /\ Power = g
  BY <1>4 DEF Power
<1>6. PICK g : g = Step(g) /\ Power = g
  BY <1>5
<1>7. \A n \in Nat : g[n] = IF n = 0 THEN 1 ELSE 10 * g[n - 1]
  BY <1>6
<1>8. g[0] = 1 /\ \A n \in Nat : g[n + 1] = 10 * g[n]
  <2>1. \A n \in Nat : n + 1 \in Nat /\ n + 1 # 0 /\ (n + 1) - 1 = n
    OBVIOUS
  <2> QED BY <1>7, <2>1
<1>9. \A n \in Nat : g[n] \in S
  <2> DEFINE G == {n \in Nat : g[n] \in S}
  <2>1. 0 \in G /\ \A n \in Nat : n \in G => n + 1 \in G
    BY <1>8
  <2> HIDE DEF G
  <2>2. \A n \in Nat : n \in G
    BY <2>1, SetInduction
  <2> QED BY <2>2 DEF G
<1>10. g = [n \in Nat |-> g[n]]
  BY <1>6
<1> HIDE DEF Step
<1> QED BY <1>6, <1>8, <1>9, <1>10

\* The number the first characters of w are, for each number of them.
Upto(w, u) == /\ u \in [0 .. Len(w) -> Nat] /\ u[0] = 0
              /\ \A k \in 1 .. Len(w) : u[k] = 10 * u[k - 1] + (w[k] - Zero)

LEMMA NaturalIs ==
  ASSUME NEW w, Len(w) \in Nat, \A k \in 1 .. Len(w) : Digit(w[k])
  PROVE  \E u : Upto(w, u) /\ Natural(w) = u[Len(w)]
<1> DEFINE n == Len(w)
           h == [p \in (1 .. n) \X Nat |-> 10 * p[2] + (w[p[1]] - Zero)]
           Step(u) == [k \in 0 .. n |-> IF k = 0 THEN 0 ELSE 10 * u[k - 1] + (w[k] - Zero)]
<1>1. \A k \in 1 .. n : w[k] - Zero \in Nat
  BY DEF Digit, Zero, Nine
<1>2. h \in Steps(n, Nat) /\ \A k \in 1 .. n, v \in Nat : h[<<k, v>>] = 10 * v + (w[k] - Zero)
  BY <1>1 DEF Steps
<1>3. PICK f \in [0 .. n -> Nat] : Iterates(f, n, 0, h)
  <2> HIDE DEF h
  <2> QED BY <1>2, StepByStep
<1>4. \A k \in 1 .. n : k - 1 \in 0 .. n
  OBVIOUS
<1>5. f[0] = 0 /\ \A k \in 1 .. n : f[k] = 10 * f[k - 1] + (w[k] - Zero)
  <2> HIDE DEF h, n
  <2> QED BY <1>2, <1>3, <1>4 DEF Iterates
<1>6. f = Step(f)
  <2>1. \A k \in 0 .. n : k # 0 => k \in 1 .. n
    OBVIOUS
  <2>2. \A k \in 0 .. n : f[k] = IF k = 0 THEN 0 ELSE 10 * f[k - 1] + (w[k] - Zero)
    BY <1>5, <2>1
  <2> QED BY <1>3, <2>2
<1>7. \E u : u = Step(u) /\ Natural(w) = u[n]
  BY <1>6 DEF Natural
<1>8. PICK u : u = Step(u) /\ Natural(w) = u[n]
  BY <1>7
<1>9. u[0] = 0 /\ \A k \in 1 .. n : u[k] = 10 * u[k - 1] + (w[k] - Zero)
  <2>1. 0 \in 0 .. n /\ \A k \in 1 .. n : k \in 0 .. n /\ k # 0
    OBVIOUS
  <2> HIDE DEF n
  <2>2. \A k \in 0 .. n : u[k] = IF k = 0 THEN 0 ELSE 10 * u[k - 1] + (w[k] - Zero)
    BY <1>8
  <2> QED BY <2>1, <2>2
<1>10. \A k \in Nat : k <= n => u[k] \in Nat
  <2> DEFINE G == {k \in Nat : k <= n => u[k] \in Nat}
  <2>1. 0 \in G
    BY <1>9
  <2>2. ASSUME NEW k \in Nat, k \in G PROVE k + 1 \in G
    <3> SUFFICES ASSUME k + 1 <= n PROVE u[k + 1] \in Nat
      OBVIOUS
    <3>1. k + 1 \in 1 .. n /\ (k + 1) - 1 = k /\ k <= n
      OBVIOUS
    <3>2. u[k + 1] = 10 * u[k] + (w[k + 1] - Zero)
      BY <1>9, <3>1
    <3> QED BY <1>1, <2>2, <3>1, <3>2
  <2> HIDE DEF G
  <2>3. \A k \in Nat : k \in G
    BY <2>1, <2>2, SetInduction
  <2> QED BY <2>3 DEF G
<1>11. u \in [0 .. n -> Nat]
  <2>1. u = [k \in 0 .. n |-> u[k]]
    BY <1>8
  <2>2. \A k \in 0 .. n : u[k] \in Nat
    BY <1>10
  <2> HIDE DEF n
  <2> QED BY <2>1, <2>2
<1> QED BY <1>8, <1>9, <1>11 DEF Upto

LEMMA WrapOfFitting == ASSUME NEW n \in CInt PROVE Wrap(n) = n
<1> DEFINE m == 2 * IntMax + 2
           a == n + IntMax + 1
<1>1. m \in Nat /\ m > 0 /\ a \in Nat /\ a < m /\ n \in Int /\ IntMax \in Nat
  BY RulesAssumption DEF CInt
<1>2. a % m = a
  <2> HIDE DEF m, a
  <2> QED BY <1>1, SMT
<1>3. Wrap(n) = a - (IntMax + 1)
  BY <1>2 DEF Wrap
<1> QED BY <1>1, <1>3

LEMMA WrapOfLeast == Wrap(IntMax + 1) = - IntMax - 1
<1> DEFINE m == 2 * IntMax + 2
<1>1. m \in Nat /\ m > 0 /\ IntMax \in Nat /\ (IntMax + 1) + IntMax + 1 = m
  BY RulesAssumption
<1>2. m % m = 0
  <2> HIDE DEF m
  <2> QED BY <1>1, SMT
<1>3. Wrap(IntMax + 1) = 0 - (IntMax + 1)
  <2>1. Wrap(IntMax + 1) = (((IntMax + 1) + IntMax + 1) % m) - (IntMax + 1)
    BY DEF Wrap
  <2> HIDE DEF m
  <2> QED BY <1>1, <1>2, <2>1
<1> QED BY <1>1, <1>3

\* As long as the sum is one that an int holds, or one more, which is the least int
\* and turns into itself when the sign is changed.
LEMMA WrapOfPart ==
  ASSUME NEW a \in Nat, NEW b \in Nat, a + b <= IntMax + 1
  PROVE  Wrap(Wrap(a) + Wrap(b)) = Wrap(a + b)
<1>1. IntMax \in Nat /\ \A n \in Nat : n <= IntMax => n \in CInt
  BY RulesAssumption DEF CInt
<1>2. CASE a = IntMax + 1
  <2>1. b = 0 /\ 0 \in CInt /\ - IntMax - 1 \in CInt /\ a + b = IntMax + 1
    BY <1>1, <1>2 DEF CInt
  <2>2. Wrap(a) = - IntMax - 1 /\ Wrap(b) = 0
    BY <1>2, <2>1, WrapOfLeast, WrapOfFitting
  <2>3. Wrap(a) + Wrap(b) = - IntMax - 1
    BY <1>1, <2>2
  <2> QED BY <1>2, <2>1, <2>3, WrapOfLeast, WrapOfFitting
<1>3. CASE b = IntMax + 1
  <2>1. a = 0 /\ 0 \in CInt /\ - IntMax - 1 \in CInt /\ a + b = IntMax + 1
    BY <1>1, <1>3 DEF CInt
  <2>2. Wrap(b) = - IntMax - 1 /\ Wrap(a) = 0
    BY <1>3, <2>1, WrapOfLeast, WrapOfFitting
  <2>3. Wrap(a) + Wrap(b) = - IntMax - 1
    BY <1>1, <2>2
  <2> QED BY <1>3, <2>1, <2>3, WrapOfLeast, WrapOfFitting
<1>4. CASE a # IntMax + 1 /\ b # IntMax + 1
  <2>1. a \in CInt /\ b \in CInt
    BY <1>1, <1>4
  <2> QED BY <2>1, WrapOfFitting
<1> QED BY <1>2, <1>3, <1>4

LEMMA WrapOfOpposite ==
  ASSUME NEW n \in Nat, - n \in CInt PROVE Wrap(- Wrap(n)) = - n
<1>1. IntMax \in Nat /\ n <= IntMax + 1
  BY RulesAssumption DEF CInt
<1>2. CASE n = IntMax + 1
  <2>1. - Wrap(n) = IntMax + 1
    BY <1>1, <1>2, WrapOfLeast
  <2> QED BY <1>1, <1>2, <2>1, WrapOfLeast
<1>3. CASE n # IntMax + 1
  <2>1. n \in CInt
    BY <1>1, <1>3 DEF CInt
  <2> QED BY <2>1, WrapOfFitting
<1> QED BY <1>2, <1>3

\* What a digit counts for, whether or not its power of ten is an int.
LEMMA PlaceIs ==
  ASSUME NEW ch, Digit(ch), NEW d \in Nat, (ch - Zero) * Power[d] <= IntMax + 1
  PROVE  Place(ch, d) = Wrap((ch - Zero) * Power[d])
<1> DEFINE v == ch - Zero
           P == Power[d]
<1>1. v \in Nat /\ P \in Nat /\ P > 0 /\ IntMax \in Nat
  BY RulesAssumption, PowerIs DEF Digit, Zero, Nine
<1>2. Place(ch, d) = Wrap(v * (IF P <= IntMax THEN P ELSE - IntMax - 1))
  BY DEF Place
<1> HIDE DEF v, P
<1>3. CASE P <= IntMax
  BY <1>2, <1>3 DEF v, P
<1>4. CASE P > IntMax
  <2>1. v = 0 \/ (v = 1 /\ P = IntMax + 1)
    <3>1. v * P <= IntMax + 1
      BY DEF v, P
    <3>2. v >= 2 => v * P >= 2 * P
      BY <1>1, SMT
    <3>3. v = 1 => v * P = P
      BY <1>1
    <3>4. v >= 2 => FALSE
      <4> DEFINE q == v * P
      <4>1. q <= IntMax + 1 /\ q \in Int /\ (v >= 2 => q >= 2 * P)
        BY <1>1, <3>1, <3>2
      <4> HIDE DEF q
      <4> QED BY <1>1, <1>4, <4>1
    <3> QED BY <1>1, <1>4, <3>1, <3>3, <3>4
  <2>2. CASE v = 0
    <3>1. v * P = 0 /\ v * (- IntMax - 1) = 0
      BY <1>1, <2>2
    <3> QED BY <1>1, <1>2, <1>4, <3>1 DEF v, P
  <2>3. CASE v = 1 /\ P = IntMax + 1
    <3>1. v * P = IntMax + 1 /\ v * (- IntMax - 1) = - IntMax - 1
      BY <1>1, <2>3
    <3>2. - IntMax - 1 \in CInt
      BY <1>1 DEF CInt
    <3>3. Place(ch, d) = - IntMax - 1
      BY <1>1, <1>2, <1>4, <3>1, <3>2, WrapOfFitting
    <3>4. Wrap(v * P) = - IntMax - 1
      BY <3>1, WrapOfLeast
    <3> QED BY <3>3, <3>4 DEF v, P
  <2> QED BY <2>1, <2>2, <2>3
<1> QED BY <1>1, <1>3, <1>4

-----------------------------------------------------------------------------
(* A word, from its last digit to its first. *)

ParseState == [end : Nat, spaces : Nat, new : Int, food : Int, concert : Int, elecs : Int,
               bad : BOOLEAN]

\* The word of line from lo to hi.
Stands(w, line, lo, hi) ==
  /\ Len(line) \in Nat /\ lo \in Nat /\ hi \in Nat /\ 1 <= lo /\ lo <= hi /\ hi <= Len(line)
  /\ Len(w) = hi + 1 - lo /\ \A k \in 1 .. Len(w) : w[k] = line[lo + k - 1]

\* p is where a word that ends at hi begins to be read.
AtEnd(p, hi) == p \in ParseState /\ p.end = hi /\ p.new = 0 /\ ~ p.bad

LEMMA DigitsRead ==
  ASSUME NEW line, NEW f, Parsed(line, f), NEW lo, NEW hi, NEW w, Stands(w, line, lo, hi),
         \A k \in 1 .. Len(w) : Digit(w[k]), AtEnd(f[hi + 1], hi), Natural(w) <= IntMax + 1
  PROVE  f[lo] = [f[hi + 1] EXCEPT !.new = Wrap(Natural(w))] /\ Natural(w) \in Nat
<1> DEFINE n == Len(w)
           p == f[hi + 1]
           N == Natural(w)
<1>1. PICK u : Upto(w, u) /\ N = u[n]
  <2>1. Len(w) \in Nat
    BY DEF Stands
  <2> QED BY <2>1, NaturalIs
<1>2. n \in Nat /\ n > 0 /\ n = hi + 1 - lo /\ lo \in Nat /\ hi \in Nat /\ hi <= Len(line)
      /\ Len(line) \in Nat /\ lo >= 1
  BY DEF Stands
<1>3. /\ N \in Nat /\ N <= IntMax + 1 /\ u[0] = 0 /\ \A k \in 0 .. n : u[k] \in Nat
      /\ \A k \in 1 .. n : u[k] = 10 * u[k - 1] + (w[k] - Zero)
  BY <1>1, <1>2 DEF Upto
<1> DEFINE X(j) == N - u[n - j] * Power[j]
           Good(j) == X(j) \in Nat /\ f[hi + 1 - j] = [p EXCEPT !.new = Wrap(X(j))]
           G == {j \in Nat : j <= n => Good(j)}
<1>4. 0 \in G
  <2>1. X(0) = 0
    <3> HIDE DEF N, n
    <3>1. n - 0 = n /\ Power[0] = 1
      BY <1>2, PowerIs
    <3>2. X(0) = N - u[n] * 1
      BY <3>1
    <3> HIDE DEF X
    <3> QED BY <1>1, <1>3, <3>2
  <2>2. 0 \in CInt
    BY RulesAssumption DEF CInt
  <2>3. hi + 1 - 0 = hi + 1
    BY <1>2
  <2>4. p = [p EXCEPT !.new = 0]
    BY DEF AtEnd, ParseState
  <2> HIDE DEF X, p
  <2>5. Good(0)
    BY <2>1, <2>2, <2>3, <2>4, WrapOfFitting DEF p
  <2> QED BY <2>5
<1>5. ASSUME NEW j \in Nat, j \in G PROVE j + 1 \in G
  <2> SUFFICES ASSUME j + 1 <= n PROVE Good(j + 1)
    OBVIOUS
  <2> DEFINE k == n - j
             i == hi - j
             v == w[k] - Zero
             P == Power[j]
             a == X(j)
             b == v * P
             c == u[k - 1] * (10 * P)
  <2>1. Good(j)
    BY <1>5
  <2>2. k \in 1 .. n /\ k - 1 = n - (j + 1) /\ i \in 1 .. Len(line) /\ i = lo + k - 1
        /\ hi + 1 - j = i + 1 /\ hi + 1 - (j + 1) = i /\ hi - i = j /\ k - 1 \in 0 .. n
    BY <1>2
  <2>3. Digit(w[k]) /\ line[i] = w[k]
    BY <2>2 DEF Stands
  <2>4. v \in Nat /\ P \in Nat /\ P > 0 /\ Power[j + 1] = 10 * P
    <3>1. v \in Nat
      BY <2>3 DEF Digit, Zero, Nine
    <3>2. P \in Nat \ {0} /\ Power[j + 1] = 10 * P
      BY PowerIs
    <3> HIDE DEF P
    <3> QED BY <3>1, <3>2
  <2>5. u[k] = 10 * u[k - 1] + v /\ u[k - 1] \in Nat
    BY <1>3, <2>2
  <2>6. b \in Nat /\ c \in Nat /\ u[k] * P = c + b
    <3> DEFINE z == u[k - 1]
    <3>1. z \in Nat /\ u[k] = 10 * z + v
      BY <2>5
    <3> HIDE DEF z, v, P
    <3>2. (10 * z + v) * P = z * (10 * P) + v * P
      BY <2>4, <3>1, SMT
    <3>3. v * P \in Nat /\ z * (10 * P) \in Nat
      BY <2>4, <3>1, SMT
    <3> QED BY <3>1, <3>2, <3>3 DEF z
  <2>7. a = N - (c + b) /\ X(j + 1) = N - c /\ a \in Nat
    <3>1. a = N - u[k] * P /\ X(j + 1) = N - u[k - 1] * Power[j + 1]
      BY <2>2
    <3> QED BY <2>1, <2>4, <2>6, <3>1
  <2>8. X(j + 1) = a + b /\ a + b \in Nat /\ b <= IntMax + 1 /\ a + b <= IntMax + 1
    <3> HIDE DEF X, a, b, c
    <3> QED BY <1>3, <2>6, <2>7, RulesAssumption
  <2>9. f[i] = Scan(line, i, f[i + 1])
    BY <2>2 DEF Parsed
  <2>10. f[i + 1] = [p EXCEPT !.new = Wrap(a)]
    BY <2>1, <2>2
  <2>11. Place(line[i], j) = Wrap(b)
    BY <2>3, <2>8, PlaceIs
  <2>12. Wrap(Wrap(a) + Wrap(b)) = Wrap(a + b)
    BY <2>6, <2>7, <2>8, WrapOfPart
  <2> HIDE DEF a, b
  <2>13. Scan(line, i, f[i + 1]) = [p EXCEPT !.new = Wrap(a + b)]
    <3> DEFINE q == f[i + 1]
    <3>1. q = [p EXCEPT !.new = Wrap(a)] /\ ~ q.bad /\ q.end = hi /\ q.new = Wrap(a)
      BY <2>10 DEF AtEnd, ParseState
    <3>2. Digit(line[i])
      BY <2>3
    <3>3. Scan(line, i, q) = [q EXCEPT !.new = Wrap(q.new + Place(line[i], q.end - i))]
      <4> HIDE DEF q
      <4> QED BY <3>1, <3>2 DEF Scan
    <3>4. q.end - i = j
      BY <2>2, <3>1
    <3>5. Scan(line, i, q) = [q EXCEPT !.new = Wrap(a + b)]
      <4> HIDE DEF q
      <4> QED BY <2>11, <2>12, <3>1, <3>3, <3>4
    <3>6. [q EXCEPT !.new = Wrap(a + b)] = [p EXCEPT !.new = Wrap(a + b)]
      <4> HIDE DEF q, p
      <4>1. q = [p EXCEPT !.new = Wrap(a)]
        BY <3>1
      <4> QED BY <4>1
    <3> QED BY <3>5, <3>6
  <2>14. f[hi + 1 - (j + 1)] = [p EXCEPT !.new = Wrap(X(j + 1))] /\ X(j + 1) \in Nat
    <3> HIDE DEF X, p, i
    <3> QED BY <2>2, <2>8, <2>9, <2>13
  <2> QED BY <2>14
<1>6. n \in G
  <2> HIDE DEF G
  <2>1. \A j \in Nat : j \in G
    BY <1>4, <1>5, SetInduction
  <2> QED BY <1>2, <2>1
<1>7. X(n) = N /\ hi + 1 - n = lo
  <2>1. n - n = 0 /\ u[0] = 0
    BY <1>2, <1>3
  <2>2. Power[n] \in Nat
    BY <1>2, PowerIs
  <2>3. 0 * Power[n] = 0
    BY <2>2
  <2> QED BY <1>2, <1>3, <2>1, <2>3
<1>8. Good(n)
  BY <1>2, <1>6
<1> QED BY <1>3, <1>7, <1>8

LEMMA Cut ==
  ASSUME NEW line \in Seq(Int), NEW lo \in Nat, NEW hi \in Nat, 1 <= lo, lo <= hi, hi <= Len(line)
  PROVE  /\ Stands(SubSeq(line, lo, hi), line, lo, hi)
         /\ SubSeq(line, lo, hi) \in Seq(Int) /\ SubSeq(line, lo, hi) # <<>>
<1> DEFINE w == SubSeq(line, lo, hi)
<1>1. /\ w \in Seq(Int) /\ Len(w) = hi + 1 - lo /\ Len(line) \in Nat
      /\ \A k \in 1 .. hi + 1 - lo : w[k] = line[lo + k - 1]
  OBVIOUS
<1>2. w # <<>>
  BY <1>1
<1> HIDE DEF w
<1>3. Stands(w, line, lo, hi)
  BY <1>1 DEF Stands
<1> QED BY <1>1, <1>2, <1>3 DEF w

\* A word is read with its sign.
LEMMA WordRead ==
  ASSUME NEW line, NEW f, Parsed(line, f), NEW lo, NEW hi, NEW w \in Seq(Int), w # <<>>,
         Stands(w, line, lo, hi), lo = 1 \/ line[lo - 1] = Space,
         IsInteger(w), Value(w) \in CInt, AtEnd(f[hi + 1], hi)
  PROVE  f[lo] = [f[hi + 1] EXCEPT !.new = Value(w)] /\ Value(w) \in Int
<1> DEFINE p == f[hi + 1]
<1>1. /\ Len(w) \in Nat /\ Len(w) > 0 /\ DOMAIN w = 1 .. Len(w) /\ Head(w) = w[1]
      /\ 1 \in 1 .. Len(w)
  OBVIOUS
<1>2. IntMax \in Nat /\ Value(w) \in Int /\ Value(w) <= IntMax /\ Value(w) >= - IntMax - 1
  BY RulesAssumption DEF CInt
<1>3. CASE Digits(w)
  <2>1. (\A k \in 1 .. Len(w) : Digit(w[k])) /\ w[1] # Dash
    <3>1. \A k \in 1 .. Len(w) : Digit(w[k])
      BY <1>1, <1>3 DEF Digits
    <3>2. Digit(w[1])
      BY <1>1, <3>1
    <3> QED BY <3>1, <3>2 DEF Digit, Zero, Nine, Dash
  <2>2. Value(w) = Natural(w)
    BY <1>1, <2>1 DEF Value
  <2>3. Natural(w) <= IntMax + 1
    <3> DEFINE N == Natural(w)
    <3>1. N \in Int /\ N <= IntMax
      BY <1>2, <2>2
    <3> HIDE DEF N
    <3>2. N <= IntMax + 1
      BY <1>2, <3>1
    <3> QED BY <3>2 DEF N
  <2>4. f[lo] = [p EXCEPT !.new = Wrap(Natural(w))]
    BY <2>1, <2>3, DigitsRead
  <2>5. Wrap(Natural(w)) = Value(w)
    BY <2>2, WrapOfFitting
  <2> QED BY <1>2, <2>4, <2>5
<1>4. CASE Head(w) = Dash /\ Digits(Tail(w))
  <2> DEFINE t == Tail(w)
             N == Natural(t)
  <2>1. /\ t # <<>> /\ t \in Seq(Int) /\ Len(t) = Len(w) - 1 /\ Len(t) \in Nat
        /\ DOMAIN t = 1 .. Len(t) /\ Len(t) > 0
        /\ \A k \in 1 .. Len(t) : t[k] = w[k + 1] /\ Digit(t[k])
    <3>1. t # <<>> /\ t \in Seq(Int) /\ Len(t) = Len(w) - 1 /\ \A k \in 1 .. Len(t) : t[k] = w[k + 1]
      BY <1>1, <1>4 DEF Digits
    <3>2. Len(t) \in Nat /\ DOMAIN t = 1 .. Len(t) /\ Len(t) > 0
      <4> HIDE DEF t
      <4> QED BY <3>1
    <3>3. \A k \in 1 .. Len(t) : Digit(t[k])
      BY <1>4, <3>2 DEF Digits
    <3> QED BY <3>1, <3>2, <3>3
  <2>2. Value(w) = - N
    BY <1>4 DEF Value
  <2> HIDE DEF t
  <2>3. Stands(t, line, lo + 1, hi)
    <3>1. /\ Len(line) \in Nat /\ lo \in Nat /\ hi \in Nat /\ 1 <= lo /\ lo <= hi /\ hi <= Len(line)
          /\ Len(w) = hi + 1 - lo /\ \A k \in 1 .. Len(w) : w[k] = line[lo + k - 1]
      BY DEF Stands
    <3>2. lo + 1 \in Nat /\ 1 <= lo + 1 /\ lo + 1 <= hi /\ Len(t) = hi + 1 - (lo + 1)
      BY <2>1, <3>1
    <3>3. ASSUME NEW k \in 1 .. Len(t) PROVE t[k] = line[(lo + 1) + k - 1]
      <4>1. k + 1 \in 1 .. Len(w) /\ lo + (k + 1) - 1 = (lo + 1) + k - 1
        BY <2>1, <3>1
      <4> QED BY <2>1, <3>1, <4>1
    <3> QED BY <3>1, <3>2, <3>3 DEF Stands
  <2>4. N \in Nat
    <3>1. PICK u : Upto(t, u) /\ N = u[Len(t)]
      BY <2>1, NaturalIs
    <3>2. Len(t) \in 0 .. Len(t)
      BY <2>1
    <3> QED BY <3>1, <3>2 DEF Upto
  <2>5. N <= IntMax + 1 /\ - N \in CInt
    <3> HIDE DEF N
    <3> QED BY <1>2, <2>2, <2>4
  <2>6. f[lo + 1] = [p EXCEPT !.new = Wrap(N)]
    <3>1. (\A k \in 1 .. Len(t) : Digit(t[k])) /\ Natural(t) <= IntMax + 1
      BY <2>1, <2>5
    <3>2. f[lo + 1] = [f[hi + 1] EXCEPT !.new = Wrap(Natural(t))]
      <4> HIDE DEF p, N
      <4> QED BY <2>3, <3>1, DigitsRead
    <3> QED BY <3>2
  <2>7. lo \in 1 .. Len(line) /\ line[lo] = Dash
    <3>1. w[1] = line[lo + 1 - 1] /\ lo \in 1 .. Len(line) /\ lo + 1 - 1 = lo
      BY <1>1 DEF Stands
    <3> QED BY <1>1, <1>4, <3>1
  <2>8. ~ MisplacedDash(line, lo)
    BY <2>7 DEF MisplacedDash
  <2>9. f[lo] = Scan(line, lo, f[lo + 1])
    BY <2>7 DEF Parsed
  <2>10. Wrap(- Wrap(N)) = - N
    BY <2>4, <2>5, WrapOfOpposite
  <2> HIDE DEF N
  <2>11. Scan(line, lo, f[lo + 1]) = [p EXCEPT !.new = Wrap(- Wrap(N))]
    <3> DEFINE q == f[lo + 1]
    <3>1. q = [p EXCEPT !.new = Wrap(N)] /\ ~ q.bad /\ q.new = Wrap(N)
      BY <2>6 DEF AtEnd, ParseState
    <3>2. ~ Digit(line[lo])
      BY <2>7 DEF Digit, Zero, Nine, Dash
    <3>3. Scan(line, lo, q) = [q EXCEPT !.new = Wrap(- q.new)]
      <4> HIDE DEF q
      <4> QED BY <2>7, <2>8, <3>1, <3>2 DEF Scan
    <3>4. [q EXCEPT !.new = Wrap(- Wrap(N))] = [p EXCEPT !.new = Wrap(- Wrap(N))]
      <4>1. q = [p EXCEPT !.new = Wrap(N)]
        BY <3>1
      <4> HIDE DEF q, p
      <4> QED BY <4>1
    <3> HIDE DEF q
    <3> QED BY <3>1, <3>3, <3>4 DEF q
  <2>12. f[lo] = [p EXCEPT !.new = Value(w)]
    BY <2>2, <2>9, <2>10, <2>11
  <2> QED BY <1>2, <2>12
<1> QED BY <1>3, <1>4 DEF IsInteger

\* The space before a word ends it, and what was read is where it belongs.
LEMMA SpaceRead ==
  ASSUME NEW line, NEW f, Parsed(line, f), NEW k \in 2 .. Len(line), Len(line) \in Nat,
         line[k] = Space, f[k + 1] \in ParseState, ~ f[k + 1].bad
  PROVE  /\ f[k] = EndWord(f[k + 1], k) /\ f[k] \in ParseState /\ AtEnd(f[k], k - 1)
<1> DEFINE p == f[k + 1]
<1>1. f[k] = Scan(line, k, p) /\ k > 1 /\ k - 1 \in Nat
  BY DEF Parsed
<1>2. ~ Digit(line[k]) /\ line[k] # Dash
  BY DEF Digit, Zero, Nine, Dash, Space
<1>3. Scan(line, k, p) = EndWord(p, k)
  <2> HIDE DEF p
  <2>1. ~ p.bad
    BY DEF p
  <2> QED BY <1>1, <1>2, <2>1 DEF Scan
<1>4. /\ EndWord(p, k) \in ParseState
      /\ EndWord(p, k).end = k - 1 /\ EndWord(p, k).new = 0 /\ EndWord(p, k).bad = p.bad
  <2>1. p \in ParseState
    OBVIOUS
  <2> HIDE DEF p
  <2> DEFINE e == IF p.spaces = 0 THEN p.new ELSE p.elecs
             c == IF p.spaces = 1 THEN p.new ELSE p.concert
  <2>2. e \in Int /\ c \in Int /\ p.spaces + 1 \in Nat /\ p.food \in Int /\ p.bad \in BOOLEAN
    BY <2>1 DEF ParseState
  <2>3. EndWord(p, k) = [p EXCEPT !.end = k - 1, !.spaces = p.spaces + 1, !.new = 0,
                                  !.elecs = e, !.concert = c]
    BY DEF EndWord
  <2> HIDE DEF e, c
  <2>4. EndWord(p, k) = [end |-> k - 1, spaces |-> p.spaces + 1, new |-> 0, food |-> p.food,
                         concert |-> c, elecs |-> e, bad |-> p.bad]
    BY <2>1, <2>3 DEF ParseState
  <2> QED BY <1>1, <2>2, <2>4 DEF ParseState
<1> QED BY <1>1, <1>3, <1>4 DEF AtEnd

-----------------------------------------------------------------------------
(* A command. *)

\* The two spaces of a line, and the words about them.
LEMMA WordsAre ==
  ASSUME NEW line \in Seq(Int), TwoSpaces(line)
  PROVE  \E a, b \in 1 .. Len(line) :
           /\ a < b /\ Spaces(line) = {a, b}
           /\ Words(line) = << SubSeq(line, 1, a - 1), SubSeq(line, a + 1, b - 1),
                               SubSeq(line, b + 1, Len(line)) >>
<1>1. Len(line) \in Nat /\ DOMAIN line = 1 .. Len(line)
  OBVIOUS
<1>2. PICK a, b \in Spaces(line) : a < b /\ Spaces(line) = {a, b}
  <2>1. PICK a, b \in Spaces(line) : a # b /\ Spaces(line) = {a, b}
    BY DEF TwoSpaces
  <2>2. a \in Nat /\ b \in Nat
    BY <1>1, <2>1 DEF Spaces
  <2>3. a < b \/ b < a
    BY <2>1, <2>2
  <2>4. {a, b} = {b, a}
    OBVIOUS
  <2> QED BY <2>1, <2>3, <2>4
<1>3. a \in 1 .. Len(line) /\ b \in 1 .. Len(line) /\ a \in Int /\ b \in Int
  BY <1>1, <1>2 DEF Spaces
<1> DEFINE S == Spaces(line)
           x == CHOOSE k \in S : \A l \in S : k <= l
           y == CHOOSE k \in S : \A l \in S : k >= l
<1>4. x = a
  <2>1. a \in S /\ \A l \in S : a <= l
    BY <1>2, <1>3
  <2> HIDE DEF S
  <2>2. x \in S /\ \A l \in S : x <= l
    BY <2>1
  <2> HIDE DEF x
  <2>3. x \in Int /\ x <= a /\ a <= x
    BY <1>2, <1>3, <2>1, <2>2 DEF S
  <2> QED BY <1>3, <2>3
<1>5. y = b
  <2>1. b \in S /\ \A l \in S : b >= l
    BY <1>2, <1>3
  <2> HIDE DEF S
  <2>2. y \in S /\ \A l \in S : y >= l
    BY <2>1
  <2> HIDE DEF y
  <2>3. y \in Int /\ y <= b /\ b <= y
    BY <1>2, <1>3, <2>1, <2>2 DEF S
  <2> QED BY <1>3, <2>3
<1>6. Words(line) = << SubSeq(line, 1, x - 1), SubSeq(line, x + 1, y - 1),
                       SubSeq(line, y + 1, Len(line)) >>
  BY DEF Words
<1> HIDE DEF x, y
<1> QED BY <1>2, <1>3, <1>4, <1>5, <1>6

\* A parse that has gone well, field by field.
WellRead(p, spaces, new, food, concert, elecs) ==
  /\ p \in ParseState /\ ~ p.bad /\ p.spaces = spaces
  /\ p.new = new /\ p.food = food /\ p.concert = concert /\ p.elecs = elecs

LEMMA FieldByField ==
  ASSUME NEW p, NEW s, NEW m, NEW f, NEW c, NEW l, NEW v \in Int, WellRead(p, s, m, f, c, l)
  PROVE  /\ WellRead([p EXCEPT !.new = v], s, v, f, c, l)
         /\ WellRead([p EXCEPT !.food = v], s, m, v, c, l)
         /\ Amounts(p) = [food |-> f, concert |-> c, elecs |-> l]
<1>1. WellRead([p EXCEPT !.new = v], s, v, f, c, l)
  BY DEF WellRead, ParseState
<1>2. WellRead([p EXCEPT !.food = v], s, m, v, c, l)
  BY DEF WellRead, ParseState
<1>3. Amounts(p) = [food |-> f, concert |-> c, elecs |-> l]
  BY DEF WellRead, Amounts
<1> QED BY <1>1, <1>2, <1>3

LEMMA SpacesByField ==
  ASSUME NEW p, NEW s \in {0, 1}, NEW m, NEW f, NEW c, NEW l, NEW k \in Nat, k > 0,
         WellRead(p, s, m, f, c, l)
  PROVE  WellRead(EndWord(p, k), s + 1, 0, f, IF s = 1 THEN m ELSE c, IF s = 0 THEN m ELSE l)
<1> DEFINE q == EndWord(p, k)
           e == IF s = 0 THEN m ELSE l
           d == IF s = 1 THEN m ELSE c
<1>1. /\ p \in ParseState /\ p.bad = FALSE /\ p.spaces = s /\ p.new = m /\ p.food = f
      /\ p.concert = c /\ p.elecs = l
  BY DEF WellRead, ParseState
<1>2. m \in Int /\ f \in Int /\ c \in Int /\ l \in Int /\ e \in Int /\ d \in Int
  BY <1>1 DEF ParseState
<1>3. q = [p EXCEPT !.end = k - 1, !.spaces = s + 1, !.new = 0, !.elecs = e, !.concert = d]
  BY <1>1 DEF EndWord
<1> HIDE DEF q, e, d
<1>4. q = [end |-> k - 1, spaces |-> s + 1, new |-> 0, food |-> f, concert |-> d, elecs |-> e,
           bad |-> p.bad]
  BY <1>1, <1>3 DEF ParseState
<1>5. k - 1 \in Nat /\ s + 1 \in Nat /\ 0 \in Int
  OBVIOUS
<1>6. q \in ParseState
  BY <1>1, <1>2, <1>4, <1>5 DEF ParseState
<1>7. q.spaces = s + 1 /\ q.new = 0 /\ q.food = f /\ q.concert = d /\ q.elecs = e /\ ~ q.bad
  BY <1>1, <1>4
<1> QED BY <1>6, <1>7 DEF WellRead, q, e, d

LEMMA WordNotEmpty == ASSUME NEW w, IsInteger(w) PROVE w # <<>>
BY DEF IsInteger, Digits

LEMMA CommandRead ==
  ASSUME NEW line \in Seq(Int), WellFormed(line), \A n \in 1 .. 3 : Value(Words(line)[n]) \in CInt
  PROVE  /\ ~ Parse(line).bad
         /\ Amounts(Parse(line)) = [ food    |-> Value(Words(line)[1]),
                                     concert |-> Value(Words(line)[2]),
                                     elecs   |-> Value(Words(line)[3]) ]
<1> DEFINE n == Len(line)
           W(i) == Words(line)[i]
           V(i) == Value(Words(line)[i])
<1>1. n \in Nat
  OBVIOUS
<1>2. PICK a, b \in 1 .. n :
        /\ a < b /\ Spaces(line) = {a, b}
        /\ Words(line) = << SubSeq(line, 1, a - 1), SubSeq(line, a + 1, b - 1),
                            SubSeq(line, b + 1, n) >>
  BY WordsAre DEF WellFormed
<1>3. a \in Nat /\ b \in Nat /\ line[a] = Space /\ line[b] = Space
  BY <1>2 DEF Spaces
<1>4. /\ W(1) = SubSeq(line, 1, a - 1) /\ W(2) = SubSeq(line, a + 1, b - 1)
      /\ W(3) = SubSeq(line, b + 1, n)
  BY <1>2
<1>5. \A i \in 1 .. 3 : IsInteger(W(i)) /\ W(i) # <<>> /\ V(i) \in CInt
  BY WordNotEmpty DEF WellFormed
<1>6. 1 <= a - 1 /\ a + 1 <= b - 1 /\ b + 1 <= n
  <2> HIDE DEF W
  <2>1. W(1) # <<>> /\ W(2) # <<>> /\ W(3) # <<>>
    BY <1>5
  <2>2. a - 1 < 1 => SubSeq(line, 1, a - 1) = <<>>
    BY <1>1, <1>3
  <2>3. b - 1 < a + 1 => SubSeq(line, a + 1, b - 1) = <<>>
    BY <1>1, <1>3
  <2>4. n < b + 1 => SubSeq(line, b + 1, n) = <<>>
    BY <1>1, <1>3
  <2> QED BY <1>1, <1>3, <1>4, <2>1, <2>2, <2>3, <2>4
<1> HIDE DEF W
<1>7. /\ Stands(W(1), line, 1, a - 1) /\ W(1) \in Seq(Int) /\ W(1) # <<>>
      /\ Stands(W(2), line, a + 1, b - 1) /\ W(2) \in Seq(Int) /\ W(2) # <<>>
      /\ Stands(W(3), line, b + 1, n) /\ W(3) \in Seq(Int) /\ W(3) # <<>>
  <2>1. 1 \in Nat /\ a - 1 \in Nat /\ a + 1 \in Nat /\ b - 1 \in Nat /\ b + 1 \in Nat
        /\ a - 1 <= n /\ b - 1 <= n /\ 1 <= a + 1 /\ 1 <= b + 1 /\ n <= n /\ 1 <= 1
    <3>1. a \in 1 .. n /\ b \in 1 .. n
      OBVIOUS
    <3> HIDE DEF n
    <3> QED BY <1>1, <3>1
  <2>2. Stands(W(1), line, 1, a - 1) /\ W(1) \in Seq(Int) /\ W(1) # <<>>
    BY <1>4, <1>6, <2>1, Cut
  <2>3. Stands(W(2), line, a + 1, b - 1) /\ W(2) \in Seq(Int) /\ W(2) # <<>>
    BY <1>4, <1>6, <2>1, Cut
  <2>4. Stands(W(3), line, b + 1, n) /\ W(3) \in Seq(Int) /\ W(3) # <<>>
    BY <1>1, <1>4, <1>6, <2>1, Cut
  <2> QED BY <2>2, <2>3, <2>4
<1>8. PICK f : Parsed(line, f) /\ Parse(line) = [f[1] EXCEPT !.food = f[1].new]
  BY <1>1, ParseGoes
<1>9. V(1) = Value(W(1)) /\ V(2) = Value(W(2)) /\ V(3) = Value(W(3))
  BY DEF W
<1> HIDE DEF V
<1>10. f[n + 1] = Begin(line) /\ AtEnd(f[n + 1], n)
  <2>1. f[n + 1] = Begin(line)
    BY <1>8 DEF Parsed
  <2>2. Begin(line) \in ParseState /\ AtEnd(Begin(line), n)
    BY <1>1 DEF Begin, ParseState, AtEnd
  <2> QED BY <2>1, <2>2
<1>11. f[b + 1] = [f[n + 1] EXCEPT !.new = V(3)] /\ V(3) \in Int
  <2>1. (b + 1) - 1 = b /\ line[(b + 1) - 1] = Space
    BY <1>3
  <2>2. IsInteger(W(3)) /\ Value(W(3)) \in CInt
    BY <1>5, <1>9
  <2>3. f[b + 1] = [f[n + 1] EXCEPT !.new = Value(W(3))] /\ Value(W(3)) \in Int
    <3> HIDE DEF n
    <3> QED BY <1>7, <1>8, <1>10, <2>1, <2>2, WordRead
  <2> QED BY <1>9, <2>3
<1>12. f[b] = EndWord(f[b + 1], b) /\ AtEnd(f[b], b - 1)
  <2>1. f[b + 1] \in ParseState /\ ~ f[b + 1].bad
    BY <1>10, <1>11 DEF AtEnd, ParseState
  <2>2. b \in 2 .. Len(line)
    BY <1>1, <1>2, <1>3, <1>6
  <2> QED BY <1>1, <1>3, <1>8, <2>1, <2>2, SpaceRead
<1>13. f[a + 1] = [f[b] EXCEPT !.new = V(2)] /\ V(2) \in Int
  <2>1. line[(a + 1) - 1] = Space /\ (b - 1) + 1 = b
    <3>1. (a + 1) - 1 = a
      BY <1>3
    <3> QED BY <1>3, <3>1
  <2>2. IsInteger(W(2)) /\ Value(W(2)) \in CInt
    BY <1>5, <1>9
  <2>3. AtEnd(f[(b - 1) + 1], b - 1)
    BY <1>12, <2>1
  <2>4. f[a + 1] = [f[(b - 1) + 1] EXCEPT !.new = Value(W(2))] /\ Value(W(2)) \in Int
    BY <1>7, <1>8, <2>1, <2>2, <2>3, WordRead
  <2> QED BY <1>9, <2>1, <2>4
<1>14. f[a] = EndWord(f[a + 1], a) /\ AtEnd(f[a], a - 1)
  <2>1. f[a + 1] \in ParseState /\ ~ f[a + 1].bad
    BY <1>12, <1>13 DEF AtEnd, ParseState
  <2>2. a \in 2 .. Len(line)
    BY <1>1, <1>2, <1>3, <1>6
  <2> QED BY <1>1, <1>3, <1>8, <2>1, <2>2, SpaceRead
<1>15. f[1] = [f[a] EXCEPT !.new = V(1)] /\ V(1) \in Int
  <2>1. (a - 1) + 1 = a
    BY <1>3
  <2>2. IsInteger(W(1)) /\ Value(W(1)) \in CInt
    BY <1>5, <1>9
  <2>3. AtEnd(f[(a - 1) + 1], a - 1)
    BY <1>14, <2>1
  <2>4. f[1] = [f[(a - 1) + 1] EXCEPT !.new = Value(W(1))] /\ Value(W(1)) \in Int
    BY <1>7, <1>8, <2>2, <2>3, WordRead
  <2> QED BY <1>9, <2>1, <2>4
<1>16. WellRead(f[b + 1], 0, V(3), 0, 0, 0)
  <2>1. WellRead(f[n + 1], 0, 0, 0, 0, 0)
    BY <1>1, <1>10 DEF Begin, WellRead, ParseState
  <2>2. WellRead([f[n + 1] EXCEPT !.new = V(3)], 0, V(3), 0, 0, 0)
    BY <1>11, <2>1, FieldByField, Zenon
  <2> QED BY <1>11, <2>2
<1>17. WellRead(f[b], 1, 0, 0, 0, V(3))
  <2>1. b > 0
    BY <1>3, <1>6
  <2>2. WellRead(f[b], 0 + 1, 0, 0, IF 0 = 1 THEN V(3) ELSE 0, IF 0 = 0 THEN V(3) ELSE 0)
    BY <1>3, <1>12, <1>16, <2>1, SpacesByField
  <2> QED BY <2>2
<1>18. WellRead(f[a + 1], 1, V(2), 0, 0, V(3))
  <2>1. WellRead([f[b] EXCEPT !.new = V(2)], 1, V(2), 0, 0, V(3))
    BY <1>13, <1>17, FieldByField, Zenon
  <2> QED BY <1>13, <2>1
<1>19. WellRead(f[a], 2, 0, 0, V(2), V(3))
  <2>1. a > 0
    BY <1>3, <1>6
  <2>2. WellRead(f[a], 1 + 1, 0, 0, IF 1 = 1 THEN V(2) ELSE 0, IF 1 = 0 THEN V(2) ELSE V(3))
    BY <1>3, <1>14, <1>18, <2>1, SpacesByField
  <2> QED BY <2>2
<1>20. WellRead(Parse(line), 2, V(1), V(1), V(2), V(3))
  <2>1. WellRead(f[1], 2, V(1), 0, V(2), V(3)) /\ f[1].new = V(1)
    <3>1. WellRead([f[a] EXCEPT !.new = V(1)], 2, V(1), 0, V(2), V(3))
      BY <1>15, <1>19, FieldByField, Zenon
    <3> QED BY <1>15, <3>1 DEF WellRead
  <2>2. WellRead([f[1] EXCEPT !.food = V(1)], 2, V(1), V(1), V(2), V(3))
    BY <1>15, <2>1, FieldByField, Zenon
  <2> QED BY <1>8, <2>1, <2>2
<1>21. ~ Parse(line).bad /\ Amounts(Parse(line)) = [food |-> V(1), concert |-> V(2), elecs |-> V(3)]
  <2>1. ~ Parse(line).bad
    BY <1>20 DEF WellRead
  <2>2. Amounts(Parse(line)) = [food |-> V(1), concert |-> V(2), elecs |-> V(3)]
    BY <1>20 DEF WellRead, Amounts
  <2> QED BY <2>1, <2>2
<1> QED BY <1>21 DEF V

\* Every line in the format of the tests, three integers with one space between
\* them, is read by checkcommand as it is written, whatever the number of digits,
\* as long as each amount is one an int can hold: what wraps on the way wraps
\* back, and a power of ten that is no int is only ever multiplied by zero.
THEOREM CommandsUnderstood == Spec => []WellFormedUnderstood
<1>1. Typed => WellFormedUnderstood
  <2> SUFFICES ASSUME Typed, WellFormed(buf), \A n \in 1 .. 3 : Value(Words(buf)[n]) \in CInt
               PROVE  /\ ~ Parse(buf).bad
                      /\ Amounts(Parse(buf)) = [ food    |-> Value(Words(buf)[1]),
                                                 concert |-> Value(Words(buf)[2]),
                                                 elecs   |-> Value(Words(buf)[3]) ]
    BY DEF WellFormedUnderstood
  <2>1. buf \in Seq(Int)
    <3>1. Char \subseteq Int /\ buf \in Seq(Char)
      BY ParserAssumption DEF Typed
    <3>2. Len(buf) \in Nat /\ \A k \in 1 .. Len(buf) : buf[k] \in Int
      <4>1. Len(buf) \in Nat /\ \A k \in 1 .. Len(buf) : buf[k] \in Char
        BY <3>1
      <4> QED BY <3>1, <4>1
    <3>3. buf = [k \in 1 .. Len(buf) |-> buf[k]]
      BY <3>1
    <3> QED BY <3>2, <3>3
  <2> QED BY <2>1, CommandRead
<1> QED BY <1>1, AlwaysTyped, PTL

-----------------------------------------------------------------------------
(* Where a character is. *)

LEMMA LeastElement ==
  ASSUME NEW G, G \subseteq Nat, G # {}
  PROVE  Min(G) \in G /\ \A m \in G : Min(G) <= m
<1>1. \E x \in G : \A m \in G : x <= m
  <2> SUFFICES ASSUME \A x \in G : \E m \in G : ~ x <= m PROVE FALSE
    OBVIOUS
  <2> DEFINE H == {n \in Nat : \A m \in G : m > n}
  <2>1. 0 \in H
    OBVIOUS
  <2>2. ASSUME NEW n \in Nat, n \in H PROVE n + 1 \in H
    <3>1. \A m \in G : m >= n + 1
      BY <2>2
    <3>2. n + 1 \notin G
      BY <3>1
    <3> QED BY <3>1, <3>2
  <2>3. \A n \in Nat : n \in H
    <3> HIDE DEF H
    <3> QED BY <2>1, <2>2, SetInduction
  <2>4. PICK x \in G : TRUE
    OBVIOUS
  <2>5. x \in Nat /\ \A m \in G : m > x
    BY <2>3
  <2> QED BY <2>4, <2>5
<1> QED BY <1>1 DEF Min

\* e is the first place from k on where s has a character in the set.
Finds(s, k, chars, e) ==
  /\ e \in Nat /\ k <= e /\ e <= Len(s) + 1 /\ (e <= Len(s) => s[e] \in chars)
  /\ \A j \in k .. Len(s) : j < e => s[j] \notin chars

LEMMA FindFinds ==
  ASSUME NEW s, Len(s) \in Nat, NEW k \in Nat, k <= Len(s) + 1, NEW chars
  PROVE  Finds(s, k, chars, Find(s, k, chars))
<1> DEFINE n == Len(s)
           G == {j \in k .. n : s[j] \in chars} \cup {n + 1}
           e == Find(s, k, chars)
<1>1. G \subseteq Nat /\ n + 1 \in G /\ e = Min(G)
  BY DEF Find
<1> HIDE DEF G
<1>2. e \in G /\ \A m \in G : e <= m
  BY <1>1, LeastElement
<1> HIDE DEF e
<1>3. e = n + 1 \/ (e \in k .. n /\ s[e] \in chars)
  BY <1>2 DEF G
<1>4. ASSUME NEW j \in k .. n, j < e PROVE s[j] \notin chars
  <2>1. s[j] \in chars => j \in G
    BY DEF G
  <2> QED BY <1>1, <1>2, <1>4, <2>1
<1> QED BY <1>3, <1>4 DEF Finds, e

LEMMA SkipFinds ==
  ASSUME NEW s, Len(s) \in Nat, NEW k \in Nat, k <= Len(s) + 1, NEW chars
  PROVE  LET e == Skip(s, k, chars) IN
         /\ e \in Nat /\ k <= e /\ e <= Len(s) + 1 /\ (e <= Len(s) => s[e] \notin chars)
         /\ \A j \in k .. Len(s) : j < e => s[j] \in chars
<1> DEFINE n == Len(s)
           G == {j \in k .. n : s[j] \notin chars} \cup {n + 1}
           e == Skip(s, k, chars)
<1>1. G \subseteq Nat /\ n + 1 \in G /\ e = Min(G)
  BY DEF Skip
<1> HIDE DEF G
<1>2. e \in G /\ \A m \in G : e <= m
  BY <1>1, LeastElement
<1> HIDE DEF e
<1>3. e = n + 1 \/ (e \in k .. n /\ s[e] \notin chars)
  BY <1>2 DEF G
<1>4. ASSUME NEW j \in k .. n, j < e PROVE s[j] \in chars
  <2>1. s[j] \notin chars => j \in G
    BY DEF G
  <2> QED BY <1>1, <1>2, <1>4, <2>1
<1> QED BY <1>3, <1>4 DEF e

\* The only such place.
LEMMA FindIs ==
  ASSUME NEW s, Len(s) \in Nat, NEW k \in Nat, k <= Len(s) + 1, NEW chars, NEW e,
         Finds(s, k, chars, e)
  PROVE  Find(s, k, chars) = e
<1> DEFINE d == Find(s, k, chars)
<1>1. Finds(s, k, chars, d)
  BY FindFinds
<1> HIDE DEF d
<1>2. ASSUME NEW x, NEW y, Finds(s, k, chars, x), Finds(s, k, chars, y) PROVE ~ x < y
  <2>1. x < y => x \in k .. Len(s) /\ x <= Len(s)
    BY <1>2 DEF Finds
  <2> QED BY <1>2, <2>1 DEF Finds
<1>3. ~ d < e /\ ~ e < d
  BY <1>1, <1>2
<1>4. d \in Nat /\ e \in Nat
  BY <1>1 DEF Finds
<1>5. d = e
  BY <1>3, <1>4
<1> QED BY <1>5 DEF d

LEMMA SkipNone ==
  ASSUME NEW s, Len(s) \in Nat, NEW k \in Nat, k <= Len(s) + 1, NEW chars,
         k <= Len(s) => s[k] \notin chars
  PROVE  Skip(s, k, chars) = k
<1> DEFINE e == Skip(s, k, chars)
<1>1. /\ e \in Nat /\ k <= e /\ e <= Len(s) + 1
      /\ \A j \in k .. Len(s) : j < e => s[j] \in chars
  BY SkipFinds
<1> HIDE DEF e
<1>2. k < e => k \in k .. Len(s)
  BY <1>1
<1>3. e = k
  BY <1>1, <1>2
<1> QED BY <1>3 DEF e

-----------------------------------------------------------------------------
(* Strings, as sequences of codes. *)

Text == Seq(Nat)

LEMMA TextHas ==
  ASSUME NEW s \in Text
  PROVE  /\ Len(s) \in Nat /\ DOMAIN s = 1 .. Len(s) /\ \A k \in 1 .. Len(s) : s[k] \in Nat
         /\ s = <<>> <=> Len(s) = 0
BY DEF Text

LEMMA TextEqual ==
  ASSUME NEW s \in Text, NEW t \in Text, Len(s) = Len(t), \A k \in 1 .. Len(s) : s[k] = t[k]
  PROVE  s = t
BY DEF Text

LEMMA Piece ==
  ASSUME NEW s \in Text, NEW j \in Nat, NEW k \in Nat, 1 <= j, k <= Len(s)
  PROVE  /\ SubSeq(s, j, k) \in Text
         /\ Len(SubSeq(s, j, k)) = IF j <= k THEN k + 1 - j ELSE 0
         /\ \A i \in 1 .. k + 1 - j : SubSeq(s, j, k)[i] = s[j + i - 1]
<1>1. \A i \in j .. k : i \in 1 .. Len(s) /\ s[i] \in Nat
  BY TextHas
<1>2. j \in Int /\ k \in Int /\ k - j + 1 = k + 1 - j
  OBVIOUS
<1> QED BY <1>1, <1>2, SubSeqProperties DEF Text

LEMMA Both ==
  ASSUME NEW s \in Text, NEW t \in Text
  PROVE  /\ s \o t \in Text /\ Len(s \o t) = Len(s) + Len(t)
         /\ \A k \in 1 .. Len(s) : (s \o t)[k] = s[k]
         /\ \A k \in 1 .. Len(t) : (s \o t)[Len(s) + k] = t[k]
<1>1. /\ s \o t \in Seq(Nat) /\ Len(s \o t) = Len(s) + Len(t) /\ Len(s) \in Nat /\ Len(t) \in Nat
      /\ \A k \in 1 .. Len(s) : (s \o t)[k] = s[k]
      /\ \A k \in 1 .. Len(t) : (s \o t)[Len(s) + k] = t[k]
  BY DEF Text
<1> QED BY <1>1 DEF Text

\* What is first read of s \o t is s, and t is left.
LEMMA Split ==
  ASSUME NEW s \in Text, NEW t \in Text
  PROVE  SubSeq(s \o t, 1, Len(s)) = s /\ From(s \o t, Len(s) + 1) = t
<1> DEFINE u == s \o t
<1>1. /\ u \in Text /\ Len(u) = Len(s) + Len(t)
      /\ \A k \in 1 .. Len(s) : u[k] = s[k]
      /\ \A k \in 1 .. Len(t) : u[Len(s) + k] = t[k]
  BY Both
<1> HIDE DEF u
<1>2. Len(s) \in Nat /\ Len(t) \in Nat
  BY TextHas
<1>3. SubSeq(u, 1, Len(s)) = s
  <2> DEFINE v == SubSeq(u, 1, Len(s))
  <2>1. /\ v \in Text /\ Len(v) = (IF 1 <= Len(s) THEN Len(s) + 1 - 1 ELSE 0)
        /\ \A i \in 1 .. Len(s) + 1 - 1 : v[i] = u[1 + i - 1]
    <3>1. Len(s) <= Len(u)
      BY <1>1, <1>2
    <3> QED BY <1>1, <1>2, <3>1, Piece
  <2> HIDE DEF v
  <2>2. Len(v) = Len(s) /\ \A i \in 1 .. Len(v) : v[i] = s[i]
    BY <1>1, <1>2, <2>1
  <2>3. v = s
    BY <2>1, <2>2, TextEqual
  <2> QED BY <2>3 DEF v
<1>4. From(u, Len(s) + 1) = t
  <2> DEFINE v == SubSeq(u, Len(s) + 1, Len(u))
  <2>1. /\ v \in Text /\ Len(v) = (IF Len(s) + 1 <= Len(u) THEN Len(u) + 1 - (Len(s) + 1) ELSE 0)
        /\ \A i \in 1 .. Len(u) + 1 - (Len(s) + 1) : v[i] = u[Len(s) + 1 + i - 1]
    <3>1. Len(s) + 1 \in Nat /\ 1 <= Len(s) + 1 /\ Len(u) \in Nat /\ Len(u) <= Len(u)
      BY <1>1, <1>2
    <3> QED BY <1>1, <3>1, Piece
  <2> HIDE DEF v
  <2>2. Len(v) = Len(t)
    BY <1>1, <1>2, <2>1
  <2>3. ASSUME NEW i \in 1 .. Len(v) PROVE v[i] = t[i]
    <3>1. Len(s) + 1 + i - 1 = Len(s) + i /\ i \in 1 .. Len(t) /\ i \in 1 .. Len(u) + 1 - (Len(s) + 1)
      BY <1>1, <1>2, <2>2
    <3> QED BY <1>1, <2>1, <3>1
  <2>4. v = t
    BY <2>1, <2>2, <2>3, TextEqual
  <2> QED BY <2>4 DEF v, From
<1> QED BY <1>3, <1>4 DEF u

LEMMA Rest ==
  ASSUME NEW s \in Text, NEW k \in Nat, 1 <= k
  PROVE  /\ From(s, k) \in Text
         /\ Len(From(s, k)) = IF k <= Len(s) THEN Len(s) + 1 - k ELSE 0
         /\ \A i \in 1 .. Len(s) + 1 - k : From(s, k)[i] = s[k + i - 1]
<1>1. Len(s) \in Nat /\ Len(s) <= Len(s)
  BY TextHas
<1> QED BY <1>1, Piece DEF From

-----------------------------------------------------------------------------
(* Tokens. *)

\* Nothing in s is d.
Without(s, d) == \A k \in 1 .. Len(s) : s[k] # d

\* The token is what is before the first d, unless s begins with one.
LEMMA FirstToken ==
  ASSUME NEW a \in Text, NEW b \in Text, NEW d \in Nat, a # <<>>, Without(a, d)
  PROVE  strtok(a \o <<d>> \o b, d) = [token |-> a, rest |-> b]
<1> DEFINE ad == a \o <<d>>
           s == ad \o b
           n == Len(a)
<1>1. <<d>> \in Text /\ Len(<<d>>) = 1 /\ <<d>>[1] = d
  BY DEF Text
<1>2. n \in Nat /\ n > 0 /\ Len(b) \in Nat
  BY TextHas
<1>3. /\ ad \in Text /\ Len(ad) = n + 1 /\ \A k \in 1 .. n : ad[k] = a[k]
      /\ ad[n + 1] = d
  <2>1. /\ ad \in Text /\ Len(ad) = n + Len(<<d>>) /\ (\A k \in 1 .. n : ad[k] = a[k])
        /\ \A k \in 1 .. Len(<<d>>) : ad[n + k] = <<d>>[k]
    BY <1>1, Both
  <2> HIDE DEF ad
  <2> QED BY <1>1, <2>1
<1> HIDE DEF ad
<1>4. /\ s \in Text /\ Len(s) = n + 1 + Len(b) /\ s[n + 1] = d /\ \A k \in 1 .. n : s[k] = a[k]
  <2>1. /\ s \in Text /\ Len(s) = Len(ad) + Len(b) /\ \A k \in 1 .. Len(ad) : s[k] = ad[k]
    BY <1>3, Both
  <2> HIDE DEF s
  <2> QED BY <1>2, <1>3, <2>1
<1>5. From(s, n + 1 + 1) = b
  BY <1>3, Split
<1>6. SubSeq(s, 1, n) = a
  <2> HIDE DEF s, n
  <2> DEFINE v == SubSeq(s, 1, n)
  <2>1. v \in Text /\ Len(v) = (IF 1 <= n THEN n + 1 - 1 ELSE 0)
        /\ \A i \in 1 .. n + 1 - 1 : v[i] = s[1 + i - 1]
    <3>1. n <= Len(s)
      BY <1>2, <1>4
    <3> QED BY <1>2, <1>4, <3>1, Piece
  <2> HIDE DEF v
  <2>2. Len(v) = n /\ \A i \in 1 .. n : v[i] = a[i]
    BY <1>2, <1>4, <2>1
  <2>3. v = a
    BY <2>1, <2>2, TextEqual DEF n
  <2> QED BY <2>3 DEF v
<1> HIDE DEF s
<1>7. Len(s) \in Nat /\ 1 <= Len(s) + 1 /\ s[1] \notin {d}
  BY <1>2, <1>4 DEF Without
<1>8. Skip(s, 1, {d}) = 1
  BY <1>7, SkipNone
<1>9. Find(s, 1, {d}) = n + 1
  <2>1. Finds(s, 1, {d}, n + 1)
    BY <1>2, <1>4 DEF Finds, Without
  <2> QED BY <1>7, <2>1, FindIs
<1>10. strtok(s, d) = [token |-> a, rest |-> b]
  <2> DEFINE first == Skip(s, 1, {d})
             end == Find(s, first, {d})
  <2>1. strtok(s, d) = [token |-> SubSeq(s, first, end - 1), rest |-> From(s, end + 1)]
    BY DEF strtok
  <2>2. first = 1
    BY <1>8
  <2> HIDE DEF first
  <2>3. end = n + 1
    BY <1>9, <2>2
  <2> DEFINE x == SubSeq(s, first, end - 1)
             y == From(s, end + 1)
  <2>4. x = a /\ y = b
    <3> HIDE DEF end, n
    <3>1. end - 1 = n /\ end + 1 = n + 1 + 1
      BY <1>2, <2>3
    <3>2. x = a
      BY <1>6, <2>2, <3>1
    <3>3. y = b
      BY <1>5, <3>1
    <3> QED BY <3>2, <3>3
  <2>5. strtok(s, d) = [token |-> x, rest |-> y]
    BY <2>1
  <2> HIDE DEF end, n, x, y
  <2> QED BY <2>4, <2>5
<1> QED BY <1>10 DEF s, ad

\* All of s, if nothing in it is d.
LEMMA OnlyToken ==
  ASSUME NEW s \in Text, NEW d, Without(s, d)
  PROVE  strtok(s, d) = [token |-> s, rest |-> <<>>]
<1> DEFINE n == Len(s)
<1>1. n \in Nat /\ 1 <= n + 1
  BY TextHas
<1>2. Skip(s, 1, {d}) = 1
  <2>1. 1 <= n => s[1] \notin {d}
    BY <1>1 DEF Without
  <2> QED BY <1>1, <2>1, SkipNone
<1>3. Find(s, 1, {d}) = n + 1
  <2>1. Finds(s, 1, {d}, n + 1)
    BY <1>1 DEF Finds, Without
  <2> QED BY <1>1, <2>1, FindIs
<1>4. SubSeq(s, 1, n + 1 - 1) = s
  <2>1. n + 1 - 1 = n
    BY <1>1
  <2>2. SubSeq(s, 1, n) = s
    BY SubSeqFull DEF Text
  <2> QED BY <2>1, <2>2
<1>5. From(s, n + 1 + 1) = <<>>
  BY <1>1, SubSeqEmpty DEF From
<1> DEFINE first == Skip(s, 1, {d})
           end == Find(s, first, {d})
<1>6. strtok(s, d) = [token |-> SubSeq(s, first, end - 1), rest |-> From(s, end + 1)]
  BY DEF strtok
<1>7. first = 1
  BY <1>2
<1> HIDE DEF first
<1>8. end = n + 1
  BY <1>3, <1>7
<1> DEFINE x == SubSeq(s, first, end - 1)
           y == From(s, end + 1)
<1>9. x = s /\ y = <<>>
  BY <1>4, <1>5, <1>7, <1>8
<1>10. strtok(s, d) = [token |-> x, rest |-> y]
  BY <1>6
<1> HIDE DEF x, y
<1> QED BY <1>9, <1>10

Tokens == [token : Text, rest : Text]

LEMMA TokenIsText == ASSUME NEW s \in Text, NEW d PROVE strtok(s, d) \in Tokens
<1> DEFINE first == Skip(s, 1, {d})
           end == Find(s, first, {d})
<1>1. Len(s) \in Nat /\ 1 <= Len(s) + 1
  BY TextHas
<1>2. first \in Nat /\ 1 <= first /\ first <= Len(s) + 1
  BY <1>1, SkipFinds
<1> HIDE DEF first
<1>3. end \in Nat /\ first <= end /\ end <= Len(s) + 1
  BY <1>1, <1>2, FindFinds DEF Finds
<1> HIDE DEF end
<1>4. SubSeq(s, first, end - 1) \in Text
  <2>1. end - 1 \in Nat /\ end - 1 <= Len(s)
    BY <1>1, <1>2, <1>3
  <2> QED BY <1>2, <2>1, Piece
<1>5. From(s, end + 1) \in Text
  <2>1. end + 1 \in Nat /\ 1 <= end + 1
    BY <1>3
  <2> QED BY <2>1, Rest
<1> QED BY <1>4, <1>5 DEF strtok, Tokens, first, end

-----------------------------------------------------------------------------
(* Numbers as they are written. *)

LEMMA DivisionIs ==
  ASSUME NEW n \in Nat, NEW P \in Nat, P > 0, NEW a \in Nat, NEW c \in Nat, n = P * a + c, c < P
  PROVE  n \div P = a
<1> DEFINE q == n \div P
           r == n % P
<1>1. q \in Int /\ r \in Int /\ n = P * q + r /\ 0 <= r /\ r < P
  BY SMT
<1> HIDE DEF q, r
<1>2. CASE q >= a + 1
  <2>1. P * q >= P * (a + 1)
    BY <1>1, <1>2, SMT
  <2>2. P * (a + 1) = P * a + P
    BY SMT
  <2> DEFINE x == P * q  y == P * a  z == P * (a + 1)
  <2>3. x \in Int /\ y \in Int /\ z \in Int
    BY <1>1
  <2>4. x >= z /\ z = y + P /\ x + r = y + c
    BY <1>1, <2>1, <2>2
  <2> HIDE DEF x, y, z
  <2>5. FALSE
    BY <1>1, <2>3, <2>4
  <2> QED BY <2>5
<1>3. CASE a >= q + 1
  <2>1. P * a >= P * (q + 1)
    BY <1>1, <1>3, SMT
  <2>2. P * (q + 1) = P * q + P
    BY <1>1, SMT
  <2> DEFINE x == P * q  y == P * a  z == P * (q + 1)
  <2>3. x \in Int /\ y \in Int /\ z \in Int
    BY <1>1
  <2>4. y >= z /\ z = x + P /\ x + r = y + c
    BY <1>1, <2>1, <2>2
  <2> HIDE DEF x, y, z
  <2>5. FALSE
    BY <1>1, <2>3, <2>4
  <2> QED BY <2>5
<1>4. q = a
  BY <1>1, <1>2, <1>3
<1> QED BY <1>4 DEF q

\* One more digit.
LEMMA DigitByDigit ==
  ASSUME NEW n \in Nat, NEW P \in Nat, P > 0
  PROVE  /\ n \div P \in Nat /\ n \div (10 * P) \in Nat
         /\ 10 * (n \div (10 * P)) + ((n \div P) % 10) = n \div P
<1> DEFINE q == n \div P
           r == n % P
<1>1. q \in Int /\ r \in Int /\ n = P * q + r /\ 0 <= r /\ r < P
  BY SMT
<1>2. q \in Nat
  <2> HIDE DEF q, r
  <2> SUFFICES ASSUME q <= -1 PROVE FALSE
    BY <1>1
  <2>1. P * q <= - P
    BY <1>1, SMT
  <2> DEFINE x == P * q
  <2>2. x \in Int /\ x <= - P /\ n = x + r
    BY <1>1, <2>1
  <2> HIDE DEF x
  <2> QED BY <1>1, <2>2
<1> HIDE DEF q, r
<1> DEFINE a == q \div 10
           b == q % 10
<1>3. a \in Nat /\ b \in 0 .. 9 /\ q = 10 * a + b
  BY <1>2
<1> HIDE DEF a, b
<1> DEFINE c == P * b + r
<1>4. n = (10 * P) * a + c /\ c \in Nat /\ c < 10 * P
  <2>1. P * (10 * a + b) = (10 * P) * a + P * b
    BY <1>3, SMT
  <2>2. P * b \in Nat /\ P * b <= P * 9
    BY <1>3, SMT
  <2> DEFINE x == P * b  y == (10 * P) * a
  <2>3. y \in Int
    BY <1>3
  <2>4. n = y + x + r /\ x \in Nat /\ x <= 9 * P
    BY <1>1, <1>3, <2>1, <2>2
  <2> HIDE DEF x, y
  <2>5. n = y + (x + r) /\ x + r \in Nat /\ x + r < 10 * P
    BY <1>1, <2>3, <2>4
  <2> QED BY <2>5 DEF x, y
<1>5. 10 * P \in Nat /\ 10 * P > 0
  OBVIOUS
<1>6. n \div (10 * P) = a
  <2> HIDE DEF c
  <2> DEFINE Q == 10 * P
  <2>1. Q \in Nat /\ Q > 0 /\ n = Q * a + c /\ c < Q
    BY <1>4, <1>5
  <2> HIDE DEF Q
  <2>2. n \div Q = a
    BY <1>3, <1>4, <2>1, DivisionIs
  <2> QED BY <2>2 DEF Q
<1>7. q = n \div P /\ b = (n \div P) % 10
  BY DEF q, b
<1> QED BY <1>2, <1>3, <1>6, <1>7

LEMMA PowerIsLarge == \A n \in Nat : n < Power[n + 1]
<1> DEFINE G == {n \in Nat : n < Power[n + 1]}
<1>1. 0 \in G
  <2>1. Power[0 + 1] = 10 * Power[0] /\ Power[0] = 1
    BY PowerIs
  <2> QED BY <2>1
<1>2. ASSUME NEW n \in Nat, n \in G PROVE n + 1 \in G
  <2> DEFINE x == Power[n + 1]  y == Power[(n + 1) + 1]
  <2>1. y = 10 * x /\ x \in Nat /\ n < x
    BY <1>2, PowerIs
  <2> HIDE DEF x, y
  <2>2. n + 1 < y
    BY <2>1
  <2> QED BY <2>2 DEF y
<1> HIDE DEF G
<1>3. \A n \in Nat : n \in G
  BY <1>1, <1>2, SetInduction
<1> QED BY <1>3 DEF G

LEMMA DecimalIs ==
  ASSUME NEW n \in Nat
  PROVE  \E L \in Nat : /\ L > 0 /\ n < Power[L] /\ Decimal(n) \in Text /\ Len(Decimal(n)) = L
                        /\ \A k \in 1 .. L : /\ Decimal(n)[k] = Zero + ((n \div Power[L - k]) % 10)
                                             /\ Decimal(n)[k] \in Zero .. Nine
<1> DEFINE Is(k) == n < Power[k] /\ \A j \in 1 .. k - 1 : Power[j] <= n
           L == CHOOSE k \in 1 .. n + 1 : Is(k)
<1>1. \E k \in 1 .. n + 1 : Is(k)
  <2> DEFINE G == {k \in 1 .. n + 1 : n < Power[k]}
             m == Min(G)
  <2>1. G \subseteq Nat /\ n + 1 \in G
    BY PowerIsLarge
  <2>2. m \in G /\ \A k \in G : m <= k
    <3> HIDE DEF G
    <3> QED BY <2>1, LeastElement
  <2> HIDE DEF m
  <2>3. ASSUME NEW j \in 1 .. m - 1 PROVE Power[j] <= n
    <3>1. j \in 1 .. n + 1 /\ j < m /\ j \in Nat
      BY <2>2
    <3>2. ~ n < Power[j]
      BY <2>2, <3>1
    <3>3. Power[j] \in Nat
      BY <3>1, PowerIs
    <3> QED BY <3>2, <3>3
  <2> QED BY <2>2, <2>3
<1>2. L \in 1 .. n + 1 /\ Is(L)
  <2> HIDE DEF Is
  <2> QED BY <1>1
<1> DEFINE d == [k \in 1 .. L |-> Zero + ((n \div Power[L - k]) % 10)]
<1>3. Decimal(n) = d
  BY DEF Decimal
<1> HIDE DEF L
<1>4. ASSUME NEW k \in 1 .. L PROVE Zero + ((n \div Power[L - k]) % 10) \in Zero .. Nine
  <2>1. L - k \in Nat
    BY <1>2
  <2>2. n \div Power[L - k] \in Nat
    <3>1. Power[L - k] \in Nat \ {0}
      BY <2>1, PowerIs
    <3> QED BY <3>1, DigitByDigit
  <2> DEFINE q == n \div Power[L - k]
  <2> HIDE DEF q
  <2>3. q \in Nat
    BY <2>2 DEF q
  <2>4. Zero + (q % 10) \in Zero .. Nine
    BY <2>3 DEF Zero, Nine
  <2> QED BY <2>4 DEF q
<1>5. L \in Nat /\ L > 0
  BY <1>2
<1>6. \A k \in 1 .. L : d[k] = Zero + ((n \div Power[L - k]) % 10) /\ d[k] \in Zero .. Nine
  BY <1>4
<1>7. d \in Text /\ Len(d) = L
  <2>1. d \in [1 .. L -> Nat]
    <3>1. d = [k \in 1 .. L |-> d[k]] /\ \A k \in 1 .. L : d[k] \in Nat
      BY <1>6 DEF Zero, Nine
    <3> HIDE DEF d
    <3> QED BY <3>1
  <2> HIDE DEF d
  <2> QED BY <1>5, <2>1 DEF Text
<1> HIDE DEF d
<1> QED BY <1>2, <1>3, <1>5, <1>6, <1>7

\* What follows a number does not matter, if it is no digit.
LEMMA NumberIs ==
  ASSUME NEW n \in Nat, NEW t \in Text, t # <<>> => t[1] \notin Zero .. Nine
  PROVE  Number(Decimal(n) \o t) = n
<1> DEFINE d == Decimal(n)
           s == d \o t
<1>1. PICK L \in Nat : /\ L > 0 /\ n < Power[L] /\ d \in Text /\ Len(d) = L
                       /\ \A k \in 1 .. L : /\ d[k] = Zero + ((n \div Power[L - k]) % 10)
                                            /\ d[k] \in Zero .. Nine
  BY DecimalIs
<1> HIDE DEF d
<1>2. Len(t) \in Nat
  BY TextHas
<1>3. /\ s \in Text /\ Len(s) = L + Len(t) /\ (\A k \in 1 .. L : s[k] = d[k])
      /\ \A k \in 1 .. Len(t) : s[L + k] = t[k]
  BY <1>1, Both
<1> HIDE DEF s
<1>4. Len(s) \in Nat /\ 1 <= Len(s) + 1 /\ \A k \in 1 .. L : s[k] \in Zero .. Nine
  BY <1>1, <1>2, <1>3
<1> DEFINE first == Skip(s, 1, {Space, Newline})
           end == Skip(s, first, Zero .. Nine)
<1>5. first = 1
  <2>1. s[1] \notin {Space, Newline}
    <3>1. s[1] \in Zero .. Nine
      <4>1. 1 \in 1 .. L
        BY <1>1
      <4> QED BY <1>4, <4>1
    <3> QED BY <3>1 DEF Zero, Nine, Space, Newline
  <2> QED BY <1>4, <2>1, SkipNone
<1> HIDE DEF first
<1>6. end = L + 1
  <2>1. /\ end \in Nat /\ 1 <= end /\ end <= Len(s) + 1 /\ (end <= Len(s) => s[end] \notin Zero .. Nine)
        /\ \A j \in 1 .. Len(s) : j < end => s[j] \in Zero .. Nine
    BY <1>4, <1>5, SkipFinds
  <2> HIDE DEF end
  <2>2. ~ end <= L
    BY <1>1, <1>2, <1>3, <1>4, <2>1
  <2>3. ~ end > L + 1
    <3> SUFFICES ASSUME end > L + 1 PROVE FALSE
      OBVIOUS
    <3>1. L + 1 \in 1 .. Len(s) /\ Len(t) >= 1
      BY <1>1, <1>2, <1>3, <2>1
    <3>2. s[L + 1] \in Zero .. Nine
      BY <2>1, <3>1
    <3>3. s[L + 1] = t[1] /\ t # <<>>
      BY <1>2, <1>3, <3>1, TextHas
    <3> QED BY <3>2, <3>3
  <2> QED BY <1>1, <2>1, <2>2, <2>3
<1> HIDE DEF end
<1>7. \A k \in 1 .. L : s[k] - Zero = ((n \div Power[L - k]) % 10)
  <2> SUFFICES ASSUME NEW k \in 1 .. L PROVE s[k] - Zero = ((n \div Power[L - k]) % 10)
    OBVIOUS
  <2> DEFINE q == (n \div Power[L - k]) % 10
  <2>1. s[k] = Zero + q /\ s[k] \in Zero .. Nine
    BY <1>1, <1>3
  <2>2. q \in Int
    <3> DEFINE x == n \div Power[L - k]
    <3>1. x \in Nat
      <4>1. L - k \in Nat
        BY <1>1
      <4>2. Power[L - k] \in Nat \ {0}
        BY <4>1, PowerIs
      <4> QED BY <4>2, DigitByDigit
    <3> HIDE DEF x
    <3>2. x % 10 \in Int
      BY <3>1
    <3> QED BY <3>2 DEF x
  <2> HIDE DEF q
  <2>3. s[k] - Zero = q
    BY <2>1, <2>2 DEF Zero
  <2> QED BY <2>3 DEF q
<1> DEFINE Step(u) == [k \in first - 1 .. end - 1 |->
                         IF k < first THEN 0 ELSE 10 * u[k - 1] + (s[k] - Zero)]
<1>8. first - 1 = 0 /\ end - 1 = L
  BY <1>1, <1>5, <1>6
<1>9. \E u : u = Step(u)
  <2> DEFINE v(k) == s[k] - Zero
             h == [p \in (1 .. L) \X Nat |-> 10 * p[2] + v(p[1])]
  <2>1. \A k \in 1 .. L : v(k) \in Nat
    BY <1>4 DEF Zero, Nine
  <2> HIDE DEF v
  <2>2. h \in Steps(L, Nat) /\ \A k \in 1 .. L, x \in Nat : h[<<k, x>>] = 10 * x + v(k)
    BY <2>1 DEF Steps
  <2>3. PICK f \in [0 .. L -> Nat] : Iterates(f, L, 0, h)
    <3> HIDE DEF h
    <3> QED BY <1>1, <2>2, StepByStep
  <2>4. \A k \in 1 .. L : k - 1 \in 0 .. L
    BY <1>1
  <2>5. f[0] = 0 /\ \A k \in 1 .. L : f[k] = 10 * f[k - 1] + v(k)
    <3> HIDE DEF h
    <3> QED BY <2>2, <2>3, <2>4 DEF Iterates
  <2>6. \A k \in 0 .. L : f[k] = IF k < first THEN 0 ELSE 10 * f[k - 1] + v(k)
    <3>1. \A k \in 0 .. L : k < first \/ k \in 1 .. L
      BY <1>1, <1>5
    <3>2. \A k \in 0 .. L : k < first => k = 0
      BY <1>5
    <3>3. \A k \in 1 .. L : ~ k < first
      BY <1>5
    <3> QED BY <2>5, <3>1, <3>2, <3>3
  <2>7. f = [k \in 0 .. L |-> IF k < first THEN 0 ELSE 10 * f[k - 1] + v(k)]
    BY <2>3, <2>6
  <2>8. f = [k \in first - 1 .. end - 1 |-> IF k < first THEN 0 ELSE 10 * f[k - 1] + v(k)]
    BY <1>8, <2>7
  <2> QED BY <2>8 DEF v
<1>10. \E u : u = Step(u) /\ Number(s) = u[end - 1]
  BY <1>9 DEF Number, end, first
<1>11. PICK u : u = Step(u) /\ Number(s) = u[end - 1]
  BY <1>10
<1>12. u[0] = 0 /\ \A k \in 1 .. L : u[k] = 10 * u[k - 1] + ((n \div Power[L - k]) % 10)
  <2>1. \A k \in 0 .. L : u[k] = IF k < first THEN 0 ELSE 10 * u[k - 1] + (s[k] - Zero)
    BY <1>8, <1>11
  <2>2. 0 \in 0 .. L /\ 0 < first /\ \A k \in 1 .. L : k \in 0 .. L /\ ~ k < first
    BY <1>1, <1>5
  <2> QED BY <1>7, <2>1, <2>2
<1> HIDE DEF Step
<1> DEFINE G == {k \in Nat : k <= L => u[k] = n \div Power[L - k]}
<1>13. 0 \in G
  <2> DEFINE P == Power[L]
  <2>1. P \in Nat /\ P > 0 /\ n = P * 0 + n /\ n < P
    <3>1. P \in Nat \ {0} /\ n < P
      BY <1>1, PowerIs
    <3> HIDE DEF P
    <3>2. n = P * 0 + n
      BY <3>1
    <3> QED BY <3>1, <3>2
  <2>2. n \div P = 0
    <3> HIDE DEF P
    <3> QED BY <2>1, DivisionIs
  <2>3. L - 0 = L
    BY <1>1
  <2> QED BY <1>12, <2>2, <2>3
<1>14. ASSUME NEW k \in Nat, k \in G PROVE k + 1 \in G
  <2> SUFFICES ASSUME k + 1 <= L PROVE u[k + 1] = n \div Power[L - (k + 1)]
    OBVIOUS
  <2> DEFINE j == L - (k + 1)
             P == Power[j]
  <2>1. j \in Nat /\ L - k = j + 1 /\ k + 1 \in 1 .. L /\ (k + 1) - 1 = k /\ k <= L
    BY <1>1
  <2>2. P \in Nat \ {0} /\ Power[L - k] = 10 * P
    <3> HIDE DEF j
    <3> QED BY <2>1, PowerIs
  <2>3. u[k] = n \div (10 * P)
    BY <1>14, <2>1, <2>2
  <2>4. u[k + 1] = 10 * u[k] + ((n \div P) % 10)
    BY <1>12, <2>1
  <2> HIDE DEF P
  <2>5. 10 * (n \div (10 * P)) + ((n \div P) % 10) = n \div P
    <3>1. P \in Nat /\ P > 0
      BY <2>2
    <3> QED BY <3>1, DigitByDigit
  <2>6. u[k + 1] = n \div P
    <3> DEFINE y == (n \div P) % 10
    <3>1. u[k + 1] = 10 * u[k] + y /\ 10 * (n \div (10 * P)) + y = n \div P
      BY <2>4, <2>5
    <3> HIDE DEF y
    <3> QED BY <2>3, <3>1
  <2> QED BY <2>6 DEF P
<1>15. \A k \in Nat : k \in G
  <2> HIDE DEF G
  <2> QED BY <1>13, <1>14, SetInduction
<1>16. u[L] = n
  <2>1. L - L = 0 /\ Power[0] = 1
    BY <1>1, PowerIs
  <2>2. u[L] = n \div 1
    BY <1>1, <1>15, <2>1
  <2>3. n \div 1 = n
    <3>1. n = 1 * n + 0
      OBVIOUS
    <3> QED BY <3>1, DivisionIs
  <2> QED BY <2>2, <2>3
<1>17. Number(s) = n
  BY <1>8, <1>11, <1>16
<1> QED BY <1>17 DEF s, d

-----------------------------------------------------------------------------
(* A file and an input, part by part. *)

Backwards(f, n, a, h) == f[n + 1] = a /\ \A k \in 1 .. n : f[k] = h[<<k, f[k + 1]>>]

LEMMA Downward ==
  ASSUME NEW n \in Nat, NEW S, NEW a \in S, NEW h \in Steps(n, S)
  PROVE  \E f \in [1 .. n + 1 -> S] : Backwards(f, n, a, h)
<1> DEFINE g == [p \in (1 .. n) \X S |-> h[<<n + 1 - p[1], p[2]>>]]
<1>1. \A k \in 1 .. n : n + 1 - k \in 1 .. n
  OBVIOUS
<1>2. g \in Steps(n, S)
  BY <1>1 DEF Steps
<1>3. \A k \in 1 .. n, v \in S : g[<<k, v>>] = h[<<n + 1 - k, v>>]
  OBVIOUS
<1>4. PICK e \in [0 .. n -> S] : Iterates(e, n, a, g)
  <2> HIDE DEF g
  <2> QED BY <1>2, StepByStep
<1> HIDE DEF g
<1> DEFINE f == [k \in 1 .. n + 1 |-> e[n + 1 - k]]
<1>5. \A k \in 1 .. n + 1 : n + 1 - k \in 0 .. n
  OBVIOUS
<1>6. f \in [1 .. n + 1 -> S] /\ \A k \in 1 .. n + 1 : f[k] = e[n + 1 - k]
  BY <1>5
<1> HIDE DEF f
<1>7. f[n + 1] = a
  <2>1. n + 1 \in 1 .. n + 1 /\ n + 1 - (n + 1) = 0
    OBVIOUS
  <2> QED BY <1>4, <1>6, <2>1 DEF Iterates
<1>8. ASSUME NEW k \in 1 .. n PROVE f[k] = h[<<k, f[k + 1]>>]
  <2> DEFINE j == n + 1 - k
  <2>1. k \in 1 .. n + 1 /\ k + 1 \in 1 .. n + 1 /\ j \in 1 .. n /\ n + 1 - (k + 1) = j - 1
        /\ n + 1 - j = k /\ j - 1 \in 0 .. n
    OBVIOUS
  <2>2. f[k] = e[j] /\ f[k + 1] = e[j - 1] /\ e[j - 1] \in S
    BY <1>6, <2>1
  <2>3. e[j] = g[<<j, e[j - 1]>>]
    BY <1>4, <2>1 DEF Iterates
  <2>4. g[<<j, e[j - 1]>>] = h[<<k, e[j - 1]>>]
    BY <1>3, <2>1, <2>2
  <2> QED BY <2>2, <2>3, <2>4
<1> QED BY <1>6, <1>7, <1>8 DEF Backwards

\* R has what is left from each part on.
Suffixes(parts, R) ==
  R[Len(parts) + 1] = <<>> /\ \A k \in 1 .. Len(parts) : R[k] = parts[k] \o R[k + 1]

LEMMA JoinedIs ==
  ASSUME NEW S, NEW parts \in Seq(Seq(S))
  PROVE  \E R \in [1 .. Len(parts) + 1 -> Seq(S)] : Suffixes(parts, R) /\ Joined(parts) = R[1]
<1> DEFINE n == Len(parts)
           h == [p \in (1 .. n) \X Seq(S) |-> parts[p[1]] \o p[2]]
           Step(R) == [k \in 1 .. n + 1 |-> IF k > n THEN <<>> ELSE parts[k] \o R[k + 1]]
<1>1. n \in Nat /\ <<>> \in Seq(S) /\ \A k \in 1 .. n : parts[k] \in Seq(S)
  OBVIOUS
<1>2. \A k \in 1 .. n + 1 : k > n <=> k = n + 1
  BY <1>1
<1>3. n + 1 \in 1 .. n + 1 /\ \A k \in 1 .. n : k \in 1 .. n + 1 /\ k + 1 \in 1 .. n + 1 /\ k # n + 1
  BY <1>1
<1>4. \A x, y \in Seq(S) : x \o y \in Seq(S)
  BY ConcatProperties
<1> HIDE DEF n
<1>5. h \in Steps(n, Seq(S)) /\ \A k \in 1 .. n, v \in Seq(S) : h[<<k, v>>] = parts[k] \o v
  <2>1. \A k \in 1 .. n, v \in Seq(S) : h[<<k, v>>] = parts[k] \o v
    OBVIOUS
  <2>2. \A p \in (1 .. n) \X Seq(S) : parts[p[1]] \o p[2] \in Seq(S)
    BY <1>1, <1>4
  <2>3. h \in [(1 .. n) \X Seq(S) -> Seq(S)]
    BY <2>2
  <2> QED BY <2>1, <2>3 DEF Steps
<1> HIDE DEF h
<1>6. PICK f \in [1 .. n + 1 -> Seq(S)] :
        f[n + 1] = <<>> /\ \A k \in 1 .. n : f[k] = h[<<k, f[k + 1]>>]
  <2> DEFINE none == <<>>
             T == Seq(S)
  <2>1. none \in T /\ h \in Steps(n, T)
    BY <1>1, <1>5
  <2> HIDE DEF none, T, Step
  <2>2. \E f \in [1 .. n + 1 -> T] : Backwards(f, n, none, h)
    BY <1>1, <2>1, Downward
  <2> QED BY <2>2 DEF none, T, Backwards
<1>7. f[n + 1] = <<>> /\ \A k \in 1 .. n : f[k] = parts[k] \o f[k + 1]
  BY <1>3, <1>5, <1>6
<1>8. f = Step(f)
  <2>1. \A k \in 1 .. n + 1 : k \in 1 .. n \/ k = n + 1
    BY <1>1
  <2>2. \A k \in 1 .. n + 1 : f[k] = IF k > n THEN <<>> ELSE parts[k] \o f[k + 1]
    BY <1>2, <1>3, <1>7, <2>1
  <2> QED BY <1>6, <2>2
<1>9. \E R : R = Step(R) /\ Joined(parts) = R[1]
  BY <1>8 DEF Joined, n
<1>10. PICK R : R = Step(R) /\ Joined(parts) = R[1]
  BY <1>9
<1>11. \A k \in 1 .. n + 1 : R[k] = IF k > n THEN <<>> ELSE parts[k] \o R[k + 1]
  BY <1>10
<1>12. R = [k \in 1 .. n + 1 |-> R[k]]
  BY <1>10
<1> HIDE DEF Step
<1>13. R[n + 1] = <<>> /\ \A k \in 1 .. n : R[k] = parts[k] \o R[k + 1]
  BY <1>2, <1>3, <1>11
<1>14. \A k \in 1 .. n + 1 : R[k] \in Seq(S)
  <2> DEFINE G == {m \in Nat : m <= n => R[n + 1 - m] \in Seq(S)}
  <2>1. 0 \in G
    <3>1. n + 1 - 0 = n + 1
      BY <1>1
    <3> QED BY <1>1, <1>13, <3>1
  <2>2. ASSUME NEW m \in Nat, m \in G PROVE m + 1 \in G
    <3> SUFFICES ASSUME m + 1 <= n PROVE R[n + 1 - (m + 1)] \in Seq(S)
      OBVIOUS
    <3> DEFINE k == n - m
    <3>1. k \in 1 .. n /\ n + 1 - (m + 1) = k /\ n + 1 - m = k + 1 /\ m <= n
      BY <1>1
    <3>2. R[k] = parts[k] \o R[k + 1] /\ R[k + 1] \in Seq(S)
      BY <1>13, <2>2, <3>1
    <3> HIDE DEF k
    <3> QED BY <1>1, <1>4, <3>1, <3>2
  <2>3. \A m \in Nat : m \in G
    <3> HIDE DEF G
    <3> QED BY <2>1, <2>2, SetInduction
  <2> SUFFICES ASSUME NEW k \in 1 .. n + 1 PROVE R[k] \in Seq(S)
    OBVIOUS
  <2>4. n + 1 - k \in Nat /\ n + 1 - k <= n /\ n + 1 - (n + 1 - k) = k
    BY <1>1
  <2> QED BY <2>3, <2>4
<1>15. R \in [1 .. n + 1 -> Seq(S)]
  BY <1>12, <1>14
<1> QED BY <1>10, <1>13, <1>15 DEF Suffixes, n

-----------------------------------------------------------------------------
(* Genres. *)

\* Every character of s is one of those.
Of(s, chars) == \A k \in 1 .. Len(s) : s[k] \in chars

LEMMA BothOf ==
  ASSUME NEW s \in Text, NEW t \in Text, NEW chars
  PROVE  Of(s \o t, chars) <=> Of(s, chars) /\ Of(t, chars)
<1> DEFINE u == s \o t
<1>1. /\ Len(u) = Len(s) + Len(t) /\ Len(s) \in Nat /\ Len(t) \in Nat
      /\ \A k \in 1 .. Len(s) : u[k] = s[k]
      /\ \A k \in 1 .. Len(t) : u[Len(s) + k] = t[k]
  BY Both, TextHas
<1> HIDE DEF u
<1>2. ASSUME Of(s, chars), Of(t, chars), NEW k \in 1 .. Len(u) PROVE u[k] \in chars
  <2>1. CASE k <= Len(s)
    BY <1>1, <1>2, <2>1 DEF Of
  <2>2. CASE k > Len(s)
    <3>1. k - Len(s) \in 1 .. Len(t) /\ Len(s) + (k - Len(s)) = k
      BY <1>1, <2>2
    <3> QED BY <1>1, <1>2, <3>1 DEF Of
  <2> QED BY <1>1, <2>1, <2>2
<1>3. ASSUME Of(u, chars), NEW k \in 1 .. Len(s) PROVE s[k] \in chars
  <2>1. k \in 1 .. Len(u)
    BY <1>1
  <2> QED BY <1>1, <1>3, <2>1 DEF Of
<1>4. ASSUME Of(u, chars), NEW k \in 1 .. Len(t) PROVE t[k] \in chars
  <2>1. Len(s) + k \in 1 .. Len(u)
    BY <1>1
  <2> QED BY <1>1, <1>4, <2>1 DEF Of
<1> QED BY <1>2, <1>3, <1>4 DEF Of, u

LEMMA Letter == ASSUME NEW c \in Nat PROVE <<c>> \in Text /\ Len(<<c>>) = 1 /\ <<c>>[1] = c
BY DEF Text

LEMMA NoLetter == <<>> \in Text /\ Len(<<>>) = 0
BY DEF Text

LEMMA EmptyBoth == ASSUME NEW s \in Text PROVE s \o <<>> = s /\ <<>> \o s = s
BY ConcatEmptySeq DEF Text

LEMMA Associative ==
  ASSUME NEW s \in Text, NEW t \in Text, NEW u \in Text PROVE (s \o t) \o u = s \o (t \o u)
BY ConcatAssociative DEF Text

LEMMA DecimalOf ==
  ASSUME NEW n \in Nat
  PROVE  Decimal(n) \in Text /\ Decimal(n) # <<>> /\ Of(Decimal(n), Zero .. Nine)
<1> DEFINE d == Decimal(n)
<1>1. PICK L \in Nat : L > 0 /\ d \in Text /\ Len(d) = L /\ \A k \in 1 .. L : d[k] \in Zero .. Nine
  BY DecimalIs
<1> HIDE DEF d
<1>2. d # <<>> /\ Of(d, Zero .. Nine)
  BY <1>1, TextHas DEF Of
<1> QED BY <1>1, <1>2 DEF d

LEMMA GenresAre ==
  ASSUME NEW s \in Text
  PROVE  \E at : /\ at[0] = [token |-> <<>>, rest |-> s]
                 /\ \A i \in 1 .. NUM_OF_GENRE : at[i] = strtok(at[i - 1].rest, Comma)
                 /\ Genres(s) = [i \in 1 .. NUM_OF_GENRE |-> at[i].token]
<1> DEFINE n == NUM_OF_GENRE
           a == [token |-> <<>>, rest |-> s]
           h == [p \in (1 .. n) \X Tokens |-> strtok(p[2].rest, Comma)]
           Step(at) == [i \in 0 .. n |-> IF i = 0 THEN a ELSE strtok(at[i - 1].rest, Comma)]
<1>1. n \in Nat /\ a \in Tokens
  BY InputAssumption, NoLetter DEF Tokens
<1>2. /\ h \in Steps(n, Tokens)
      /\ \A i \in 1 .. n, v \in Tokens : h[<<i, v>>] = strtok(v.rest, Comma)
  <2>1. \A v \in Tokens : strtok(v.rest, Comma) \in Tokens
    <3> SUFFICES ASSUME NEW v \in Tokens PROVE strtok(v.rest, Comma) \in Tokens
      OBVIOUS
    <3>1. v.rest \in Text
      BY DEF Tokens
    <3> QED BY <3>1, TokenIsText
  <2>2. \A p \in (1 .. n) \X Tokens : strtok(p[2].rest, Comma) \in Tokens
    BY <2>1
  <2>3. h \in [(1 .. n) \X Tokens -> Tokens]
    <3> HIDE DEF n
    <3> QED BY <2>2
  <2> QED BY <2>3 DEF Steps
<1> HIDE DEF h, a, n
<1>3. PICK f \in [0 .. n -> Tokens] : Iterates(f, n, a, h)
  BY <1>1, <1>2, StepByStep
<1>4. \A i \in 1 .. n : i - 1 \in 0 .. n
  BY <1>1
<1>5. f[0] = a /\ \A i \in 1 .. n : f[i] = strtok(f[i - 1].rest, Comma)
  BY <1>2, <1>3, <1>4 DEF Iterates
<1>6. f = Step(f)
  <2>1. \A i \in 0 .. n : i = 0 \/ i \in 1 .. n
    BY <1>1
  <2>2. \A i \in 0 .. n : f[i] = IF i = 0 THEN a ELSE strtok(f[i - 1].rest, Comma)
    BY <1>5, <2>1
  <2> QED BY <1>3, <2>2
<1>7. \E at : at = Step(at) /\ Genres(s) = [i \in 1 .. n |-> at[i].token]
  <2> USE DEF a, n
  <2>1. \E at : at = Step(at)
    BY <1>6
  <2> QED BY <2>1, Zenon DEF Genres
<1>8. PICK at : at = Step(at) /\ Genres(s) = [i \in 1 .. n |-> at[i].token]
  BY <1>7
<1>9. \A i \in 0 .. n : at[i] = IF i = 0 THEN a ELSE strtok(at[i - 1].rest, Comma)
  BY <1>8
<1>10. at[0] = a /\ \A i \in 1 .. n : at[i] = strtok(at[i - 1].rest, Comma)
  <2>1. 0 \in 0 .. n /\ \A i \in 1 .. n : i \in 0 .. n /\ i # 0
    BY <1>1
  <2> HIDE DEF Step
  <2> QED BY <1>9, <2>1
<1> HIDE DEF Step
<1> QED BY <1>8, <1>10 DEF a, n

\* Without a genre strtod is given NULL.
LEMMA NoGenres == NullGenre(Genres(<<>>))
<1>1. PICK at : /\ at[0] = [token |-> <<>>, rest |-> <<>>]
                /\ \A i \in 1 .. NUM_OF_GENRE : at[i] = strtok(at[i - 1].rest, Comma)
                /\ Genres(<<>>) = [i \in 1 .. NUM_OF_GENRE |-> at[i].token]
  BY GenresAre, NoLetter
<1>2. 1 \in 1 .. NUM_OF_GENRE /\ 1 - 1 = 0
  BY InputAssumption
<1>3. at[1] = strtok(<<>>, Comma)
  <2>1. at[1] = strtok(at[0].rest, Comma) /\ at[0].rest = <<>>
    BY <1>1, <1>2
  <2> QED BY <2>1
<1>4. at[1].token = <<>>
  <2>1. Without(<<>>, Comma)
    BY NoLetter DEF Without
  <2>2. strtok(<<>>, Comma) = [token |-> <<>>, rest |-> <<>>]
    BY <2>1, NoLetter, OnlyToken
  <2> QED BY <1>3, <2>2
<1>5. 1 \in DOMAIN Genres(<<>>) /\ Genres(<<>>)[1] = <<>>
  BY <1>1, <1>2, <1>4
<1> QED BY <1>5 DEF NullGenre

\* A profile as it is written, from each genre on.
Separator(k) == IF k = NUM_OF_GENRE THEN <<>> ELSE <<Comma>>

LEMMA ListedIs ==
  ASSUME NEW p \in [1 .. NUM_OF_GENRE -> Nat]
  PROVE  \E R : /\ Listed(p) = R[1] /\ R[NUM_OF_GENRE + 1] = <<>>
                /\ \A k \in 1 .. NUM_OF_GENRE + 1 : R[k] \in Text /\ Of(R[k], (Zero .. Nine) \cup {Comma})
                /\ \A k \in 1 .. NUM_OF_GENRE : R[k] = (Decimal(p[k]) \o Separator(k)) \o R[k + 1]
<1> DEFINE n == NUM_OF_GENRE
           C == (Zero .. Nine) \cup {Comma}
           part(k) == Decimal(p[k]) \o Separator(k)
           parts == [k \in 1 .. n |-> part(k)]
<1>1. n \in Nat /\ n > 0
  BY InputAssumption
<1>2. ASSUME NEW k \in 1 .. n PROVE part(k) \in Text /\ Of(part(k), C)
  <2>1. p[k] \in Nat
    OBVIOUS
  <2>2. Decimal(p[k]) \in Text /\ Of(Decimal(p[k]), C)
    <3>1. Decimal(p[k]) \in Text /\ Of(Decimal(p[k]), Zero .. Nine)
      BY <2>1, DecimalOf
    <3> QED BY <3>1 DEF Of
  <2>3. Separator(k) \in Text /\ Of(Separator(k), C)
    <3>1. <<Comma>> \in Text /\ Len(<<Comma>>) = 1 /\ <<Comma>>[1] = Comma
      BY Letter DEF Comma
    <3>2. <<>> \in Text /\ Len(<<>>) = 0
      BY NoLetter
    <3>3. Of(<<Comma>>, C)
      <4> DEFINE c == <<Comma>>
      <4>1. Len(c) = 1 /\ c[1] = Comma
        BY <3>1
      <4> HIDE DEF c
      <4>2. Of(c, C)
        BY <4>1 DEF Of
      <4> QED BY <4>2 DEF c
    <3>4. Of(<<>>, C)
      BY <3>2 DEF Of
    <3> QED BY <3>1, <3>2, <3>3, <3>4 DEF Separator
  <2> HIDE DEF C
  <2> QED BY <2>2, <2>3, Both, BothOf
<1>3. Listed(p) = Joined(parts)
  BY DEF Listed, Separator
<1> HIDE DEF part, n
<1>4. parts \in Seq(Seq(Nat)) /\ Len(parts) = n /\ \A k \in 1 .. n : parts[k] = part(k)
  <2>1. parts \in [1 .. n -> Text]
    BY <1>2
  <2> QED BY <1>1, <2>1 DEF Text
<1> HIDE DEF parts
<1>5. PICK R \in [1 .. n + 1 -> Seq(Nat)] : Suffixes(parts, R) /\ Joined(parts) = R[1]
  <2>1. \E R \in [1 .. Len(parts) + 1 -> Seq(Nat)] : Suffixes(parts, R) /\ Joined(parts) = R[1]
    BY <1>4, JoinedIs
  <2> QED BY <1>4, <2>1
<1>6. R[n + 1] = <<>> /\ \A k \in 1 .. n : R[k] = part(k) \o R[k + 1]
  BY <1>4, <1>5 DEF Suffixes
<1>7. \A k \in 1 .. n + 1 : R[k] \in Text
  BY <1>5 DEF Text
<1>8. \A k \in 1 .. n + 1 : Of(R[k], C)
  <2> DEFINE G == {m \in Nat : m <= n => Of(R[n + 1 - m], C)}
  <2>1. 0 \in G
    <3>1. n + 1 - 0 = n + 1
      BY <1>1
    <3>2. Of(<<>>, C)
      BY NoLetter DEF Of
    <3> QED BY <1>6, <3>1, <3>2
  <2>2. ASSUME NEW m \in Nat, m \in G PROVE m + 1 \in G
    <3> SUFFICES ASSUME m + 1 <= n PROVE Of(R[n + 1 - (m + 1)], C)
      OBVIOUS
    <3> DEFINE k == n - m
    <3>1. k \in 1 .. n /\ n + 1 - (m + 1) = k /\ n + 1 - m = k + 1 /\ m <= n /\ k + 1 \in 1 .. n + 1
      BY <1>1
    <3>2. R[k] = part(k) \o R[k + 1] /\ Of(R[k + 1], C) /\ R[k + 1] \in Text
      BY <1>6, <1>7, <2>2, <3>1
    <3> HIDE DEF k, C
    <3>3. Of(part(k) \o R[k + 1], C)
      BY <1>2, <3>1, <3>2, BothOf
    <3> QED BY <3>1, <3>2, <3>3
  <2>3. \A m \in Nat : m \in G
    <3> HIDE DEF G
    <3> QED BY <2>1, <2>2, SetInduction
  <2> SUFFICES ASSUME NEW k \in 1 .. n + 1 PROVE Of(R[k], C)
    OBVIOUS
  <2>4. n + 1 - k \in Nat /\ n + 1 - k <= n /\ n + 1 - (n + 1 - k) = k
    BY <1>1
  <2> QED BY <2>3, <2>4
<1> QED BY <1>3, <1>5, <1>6, <1>7, <1>8 DEF n, part

\* What has been written as a profile is read as that profile, the newline of
\* the line or not.
LEMMA GenresRead ==
  ASSUME NEW p \in [1 .. NUM_OF_GENRE -> Nat], NEW t \in Text, Without(t, Comma),
         t # <<>> => t[1] \notin Zero .. Nine
  PROVE  LET genres == Genres(Listed(p) \o t) IN ~ NullGenre(genres) /\ Profile(genres) = p
<1> DEFINE n == NUM_OF_GENRE
           s == Listed(p) \o t
<1>1. n \in Nat /\ n > 0
  BY InputAssumption
<1>2. PICK R : /\ Listed(p) = R[1] /\ R[n + 1] = <<>>
               /\ \A k \in 1 .. n + 1 : R[k] \in Text
               /\ \A k \in 1 .. n : R[k] = (Decimal(p[k]) \o Separator(k)) \o R[k + 1]
  BY ListedIs
<1>3. \A k \in 1 .. n : /\ p[k] \in Nat /\ Decimal(p[k]) \in Text /\ Decimal(p[k]) # <<>>
                        /\ Without(Decimal(p[k]), Comma)
  <2> SUFFICES ASSUME NEW k \in 1 .. n
               PROVE  /\ p[k] \in Nat /\ Decimal(p[k]) \in Text /\ Decimal(p[k]) # <<>>
                      /\ Without(Decimal(p[k]), Comma)
    OBVIOUS
  <2>1. p[k] \in Nat
    OBVIOUS
  <2>2. Decimal(p[k]) \in Text /\ Decimal(p[k]) # <<>> /\ Of(Decimal(p[k]), Zero .. Nine)
    BY <2>1, DecimalOf
  <2>3. Comma \notin Zero .. Nine
    BY DEF Zero, Nine, Comma
  <2>4. Without(Decimal(p[k]), Comma)
    BY <2>2, <2>3 DEF Of, Without
  <2> QED BY <2>1, <2>2, <2>4
<1>4. s \in Text
  <2>1. 1 \in 1 .. n + 1
    BY <1>1
  <2> QED BY <1>2, <2>1, Both
<1>5. PICK at : /\ at[0] = [token |-> <<>>, rest |-> s]
                /\ \A i \in 1 .. n : at[i] = strtok(at[i - 1].rest, Comma)
                /\ Genres(s) = [i \in 1 .. n |-> at[i].token]
  <2> HIDE DEF s
  <2> QED BY <1>4, GenresAre
<1>6. at[0].rest = R[1] \o t
  <2> HIDE DEF s
  <2>1. at[0].rest = s
    BY <1>5
  <2> QED BY <1>2, <2>1 DEF s
<1> HIDE DEF n, s
<1>7. ASSUME NEW i \in 1 .. n, i < n, at[i - 1].rest = R[i] \o t
      PROVE  at[i].token = Decimal(p[i]) /\ at[i].rest = R[i + 1] \o t
  <2> DEFINE d == Decimal(p[i])
             b == R[i + 1]
             c == <<Comma>>
  <2>1. i \in 1 .. n + 1 /\ i + 1 \in 1 .. n + 1 /\ i # n
    BY <1>1, <1>7
  <2>2. d \in Text /\ b \in Text /\ c \in Text /\ d # <<>> /\ Without(d, Comma) /\ Comma \in Nat
    BY <1>2, <1>3, <2>1, Letter DEF Comma
  <2>3. R[i] = (d \o c) \o b
    BY <1>2, <1>7, <2>1 DEF Separator, n
  <2> HIDE DEF d, b
  <2>4. ((d \o c) \o b) \o t = (d \o c) \o (b \o t)
    <3> DEFINE a == d \o c
    <3> HIDE DEF c
    <3>1. a \in Text
      BY <2>2, Both
    <3> HIDE DEF a
    <3>2. (a \o b) \o t = a \o (b \o t)
      BY <2>2, <3>1, Associative
    <3> QED BY <3>2 DEF a
  <2>5. strtok((d \o <<Comma>>) \o (b \o t), Comma) = [token |-> d, rest |-> b \o t]
    BY <2>2, Both, FirstToken
  <2>6. at[i] = [token |-> d, rest |-> b \o t]
    <3>1. at[i] = strtok(at[i - 1].rest, Comma)
      BY <1>5
    <3> QED BY <1>7, <2>3, <2>4, <2>5, <3>1
  <2> QED BY <2>6 DEF d, b
<1>8. \A i \in Nat : i < n => at[i].rest = R[i + 1] \o t
  <2> DEFINE G == {i \in Nat : i < n => at[i].rest = R[i + 1] \o t}
  <2>1. 0 \in G
    BY <1>1, <1>6
  <2>2. ASSUME NEW i \in Nat, i \in G PROVE i + 1 \in G
    <3> SUFFICES ASSUME i + 1 < n PROVE at[i + 1].rest = R[(i + 1) + 1] \o t
      OBVIOUS
    <3> DEFINE j == i + 1
    <3>1. j \in 1 .. n /\ j < n /\ j - 1 = i /\ i < n
      BY <1>1
    <3>2. at[i].rest = R[i + 1] \o t
      BY <2>2, <3>1
    <3>3. at[j - 1].rest = R[j] \o t
      BY <3>1, <3>2
    <3> HIDE DEF j
    <3>4. at[j].rest = R[j + 1] \o t
      BY <1>7, <3>1, <3>3
    <3> QED BY <3>4 DEF j
  <2>3. \A i \in Nat : i \in G
    <3> HIDE DEF G
    <3> QED BY <2>1, <2>2, SetInduction
  <2> QED BY <2>3
<1>9. ASSUME NEW i \in 1 .. n PROVE at[i - 1].rest = R[i] \o t
  <2>1. i - 1 \in Nat /\ i - 1 < n /\ (i - 1) + 1 = i
    BY <1>1
  <2>2. at[i - 1].rest = R[(i - 1) + 1] \o t
    BY <1>8, <2>1
  <2> QED BY <2>1, <2>2
<1>10. \A i \in 1 .. n : i < n => at[i].token = Decimal(p[i])
  BY <1>7, <1>9
<1>11. at[n].token = Decimal(p[n]) \o t
  <2> DEFINE d == Decimal(p[n])
  <2>1. n \in 1 .. n /\ d \in Text /\ Without(d, Comma)
    BY <1>1, <1>3
  <2>2. R[n] = (d \o <<>>) \o <<>>
    BY <1>2, <2>1 DEF Separator, n
  <2> HIDE DEF d
  <2>3. (d \o <<>>) \o <<>> = d
    BY <2>1, EmptyBoth
  <2>4. d \o t \in Text /\ Without(d \o t, Comma)
    <3>1. d \o t \in Text
      BY <2>1, Both
    <3>2. Of(d, Nat \ {Comma}) /\ Of(t, Nat \ {Comma})
      BY <2>1, TextHas DEF Of, Without
    <3>3. Of(d \o t, Nat \ {Comma})
      BY <2>1, <3>2, BothOf
    <3> QED BY <3>1, <3>3 DEF Of, Without
  <2>5. strtok(d \o t, Comma) = [token |-> d \o t, rest |-> <<>>]
    BY <2>4, OnlyToken
  <2>6. at[n] = strtok(at[n - 1].rest, Comma) /\ at[n - 1].rest = d \o t
    BY <1>5, <1>9, <2>1, <2>2, <2>3
  <2>7. at[n].token = d \o t
    BY <2>5, <2>6
  <2> QED BY <2>7 DEF d
<1>12. ASSUME NEW i \in 1 .. n PROVE at[i].token # <<>> /\ Number(at[i].token) = p[i]
  <2>1. CASE i < n
    <3>1. Number(Decimal(p[i]) \o <<>>) = p[i]
      <4> DEFINE none == <<>>
      <4>1. none \in Text /\ none = <<>>
        BY NoLetter
      <4> HIDE DEF none
      <4>2. Number(Decimal(p[i]) \o none) = p[i]
        BY <1>3, <4>1, NumberIs
      <4> QED BY <4>1, <4>2
    <3>2. Decimal(p[i]) \o <<>> = Decimal(p[i])
      BY <1>3, EmptyBoth
    <3> QED BY <1>3, <1>10, <2>1, <3>1, <3>2
  <2>2. CASE i = n
    <3>1. Number(Decimal(p[n]) \o t) = p[n]
      BY <1>1, <1>3, NumberIs
    <3>2. Decimal(p[n]) \o t # <<>>
      <4> DEFINE d == Decimal(p[n])
      <4>1. d \in Text /\ d # <<>>
        BY <1>1, <1>3
      <4> HIDE DEF d
      <4>2. d \o t \in Text /\ Len(d \o t) = Len(d) + Len(t) /\ Len(d) # 0 /\ Len(d) \in Nat /\ Len(t) \in Nat
        BY <4>1, Both, TextHas
      <4>3. d \o t # <<>>
        BY <4>2, TextHas
      <4> QED BY <4>3 DEF d
    <3> QED BY <1>11, <2>2, <3>1, <3>2
  <2> QED BY <1>1, <2>1, <2>2
<1>13. DOMAIN Genres(s) = 1 .. n /\ \A i \in 1 .. n : Genres(s)[i] = at[i].token
  BY <1>5
<1>14. ~ NullGenre(Genres(s))
  BY <1>12, <1>13 DEF NullGenre
<1>15. Profile(Genres(s)) = p
  <2>1. Profile(Genres(s)) = [i \in 1 .. n |-> p[i]]
    BY <1>12, <1>13 DEF Profile
  <2>2. p \in [1 .. n -> Nat]
    BY DEF n
  <2> QED BY <2>1, <2>2
<1> QED BY <1>14, <1>15 DEF s

-----------------------------------------------------------------------------
(* Lines, and the buffer that they may not fit into. *)

\* fgets stops after e characters of s.
Stops(s, e) ==
  /\ e \in 1 .. Len(s) /\ e <= MAX_LEN - 1 /\ \A j \in 1 .. Len(s) : j < e => s[j] # Newline
  /\ e = MAX_LEN - 1 \/ e = Len(s) \/ s[e] = Newline

LEMMA ChunkIs ==
  ASSUME NEW s \in Text, s # <<>>
  PROVE  \E e : Stops(s, e) /\ Chunk(s) = [read |-> SubSeq(s, 1, e), rest |-> From(s, e + 1)]
<1> DEFINE f == Find(s, 1, {Newline})
           G == {f, MAX_LEN - 1, Len(s)}
           e == Min(G)
<1>1. Len(s) \in Nat /\ Len(s) > 0 /\ MAX_LEN \in Nat /\ MAX_LEN > 2
  BY TextHas, InputAssumption
<1>2. Finds(s, 1, {Newline}, f)
  BY <1>1, FindFinds
<1>3. Chunk(s) = [read |-> SubSeq(s, 1, e), rest |-> From(s, e + 1)]
  BY DEF Chunk
<1> HIDE DEF f
<1>4. f \in Nat /\ 1 <= f /\ (f <= Len(s) => s[f] = Newline) /\ \A j \in 1 .. Len(s) : j < f => s[j] # Newline
  BY <1>2 DEF Finds
<1>5. G \subseteq Nat /\ G # {}
  BY <1>1, <1>4
<1>6. e \in G /\ e <= f /\ e <= MAX_LEN - 1 /\ e <= Len(s)
  <2>1. e \in G /\ \A m \in G : e <= m
    <3> HIDE DEF G
    <3> QED BY <1>5, LeastElement
  <2> HIDE DEF e
  <2> QED BY <2>1
<1> HIDE DEF e
<1>7. Stops(s, e)
  BY <1>1, <1>4, <1>6 DEF Stops
<1> QED BY <1>3, <1>7

\* l is a line, if b is what follows it.
IsLine(l, b) ==
  /\ l \in Text /\ b \in Text /\ l # <<>> /\ \A j \in 1 .. Len(l) : j < Len(l) => l[j] # Newline
  /\ l[Len(l)] = Newline \/ b = <<>>

\* What fgets reads is of that line; where it fits, it is the line.
LEMMA LineRead ==
  ASSUME NEW l, NEW b, IsLine(l, b)
  PROVE  \E e : /\ e \in 1 .. Len(l) /\ Chunk(l \o b).read = SubSeq(l, 1, e)
                /\ Chunk(l \o b).rest = From(l, e + 1) \o b
                /\ e = IF Len(l) <= MAX_LEN - 1 THEN Len(l) ELSE MAX_LEN - 1
<1> DEFINE s == l \o b
<1>1. /\ l \in Text /\ b \in Text /\ Len(l) \in Nat /\ Len(b) \in Nat /\ Len(l) > 0
      /\ s \in Text /\ Len(s) = Len(l) + Len(b)
      /\ (\A k \in 1 .. Len(l) : s[k] = l[k]) /\ \A k \in 1 .. Len(b) : s[Len(l) + k] = b[k]
  <2>1. l \in Text /\ b \in Text /\ l # <<>>
    BY DEF IsLine
  <2>2. Len(l) \in Nat /\ Len(b) \in Nat /\ Len(l) # 0
    BY <2>1, TextHas
  <2>3. /\ s \in Text /\ Len(s) = Len(l) + Len(b)
        /\ (\A k \in 1 .. Len(l) : s[k] = l[k]) /\ \A k \in 1 .. Len(b) : s[Len(l) + k] = b[k]
    BY <2>1, Both
  <2> HIDE DEF s
  <2> QED BY <2>1, <2>2, <2>3
<1>2. Len(b) = 0 \/ s[Len(l)] = Newline
  <2>1. Len(l) \in 1 .. Len(l) /\ (b = <<>> <=> Len(b) = 0)
    BY <1>1, TextHas
  <2> QED BY <1>1, <2>1 DEF IsLine
<1> HIDE DEF s
<1>3. s # <<>>
  BY <1>1, TextHas
<1>4. PICK e : Stops(s, e) /\ Chunk(s) = [read |-> SubSeq(s, 1, e), rest |-> From(s, e + 1)]
  BY <1>1, <1>3, ChunkIs
<1>5. MAX_LEN \in Nat /\ MAX_LEN > 2
  BY InputAssumption
<1>6. e \in 1 .. Len(l)
  <2>1. e \in 1 .. Len(s) /\ \A j \in 1 .. Len(s) : j < e => s[j] # Newline
    BY <1>4 DEF Stops
  <2>2. Len(l) \in 1 .. Len(s)
    BY <1>1
  <2>3. ~ Len(l) < e
    BY <1>1, <1>2, <2>1, <2>2
  <2> QED BY <1>1, <2>1, <2>3
<1>7. e = IF Len(l) <= MAX_LEN - 1 THEN Len(l) ELSE MAX_LEN - 1
  <2>1. e <= MAX_LEN - 1 /\ (e = MAX_LEN - 1 \/ e = Len(s) \/ s[e] = Newline)
    BY <1>4 DEF Stops
  <2>2. \A j \in 1 .. Len(l) : j < Len(l) => s[j] # Newline
    BY <1>1 DEF IsLine
  <2>3. e = MAX_LEN - 1 \/ e = Len(l)
    BY <1>1, <1>6, <2>1, <2>2
  <2> QED BY <1>1, <1>5, <1>6, <2>1, <2>3
<1>8. SubSeq(s, 1, e) = SubSeq(l, 1, e)
  <2>1. /\ e \in Nat /\ 1 \in Nat /\ e <= Len(s) /\ e <= Len(l) /\ 1 <= e
        /\ \A i \in 1 .. e : i \in 1 .. Len(l) /\ 1 + i - 1 = i /\ e + 1 - 1 = e
    BY <1>1, <1>6
  <2>2. /\ SubSeq(s, 1, e) \in Text /\ Len(SubSeq(s, 1, e)) = e
        /\ \A i \in 1 .. e : SubSeq(s, 1, e)[i] = s[i]
    <3>1. e + 1 - 1 = e /\ \A i \in 1 .. e + 1 - 1 : 1 + i - 1 = i
      BY <2>1
    <3> DEFINE one == 1
               u == SubSeq(s, one, e)
    <3>2. s \in Text /\ one \in Nat /\ e \in Nat /\ 1 <= one /\ e <= Len(s)
      BY <1>1, <2>1
    <3> HIDE DEF one
    <3>3. /\ u \in Text /\ Len(u) = IF one <= e THEN e + 1 - one ELSE 0
          /\ \A i \in 1 .. e + 1 - one : u[i] = s[one + i - 1]
      BY <3>2, Piece
    <3> HIDE DEF u
    <3>4. u \in Text /\ Len(u) = e /\ \A i \in 1 .. e : u[i] = s[i]
      BY <2>1, <3>1, <3>3 DEF one
    <3> QED BY <3>4 DEF u, one
  <2>3. /\ SubSeq(l, 1, e) \in Text /\ Len(SubSeq(l, 1, e)) = e
        /\ \A i \in 1 .. e : SubSeq(l, 1, e)[i] = l[i]
    BY <1>1, <2>1, Piece
  <2>4. \A i \in 1 .. e : SubSeq(s, 1, e)[i] = SubSeq(l, 1, e)[i]
    BY <1>1, <2>1, <2>2, <2>3
  <2> QED BY <2>2, <2>3, <2>4, TextEqual
<1>9. From(s, e + 1) = From(l, e + 1) \o b
  <2> DEFINE k == e + 1
             u == From(s, k)
             v == From(l, k)
  <2>1. k \in Nat /\ 1 <= k /\ k <= Len(l) + 1 /\ k <= Len(s) + 1
    BY <1>1, <1>6
  <2> HIDE DEF k
  <2>2. /\ u \in Text /\ Len(u) = Len(s) + 1 - k
        /\ \A i \in 1 .. Len(s) + 1 - k : u[i] = s[k + i - 1]
    <3>1. /\ u \in Text /\ Len(u) = IF k <= Len(s) THEN Len(s) + 1 - k ELSE 0
          /\ \A i \in 1 .. Len(s) + 1 - k : u[i] = s[k + i - 1]
      BY <1>1, <2>1, Rest
    <3> HIDE DEF u
    <3> QED BY <1>1, <2>1, <3>1
  <2>3. /\ v \in Text /\ Len(v) = Len(l) + 1 - k
        /\ \A i \in 1 .. Len(l) + 1 - k : v[i] = l[k + i - 1]
    <3>1. /\ v \in Text /\ Len(v) = IF k <= Len(l) THEN Len(l) + 1 - k ELSE 0
          /\ \A i \in 1 .. Len(l) + 1 - k : v[i] = l[k + i - 1]
      BY <1>1, <2>1, Rest
    <3> HIDE DEF v
    <3> QED BY <1>1, <2>1, <3>1
  <2> HIDE DEF u, v
  <2>4. /\ v \o b \in Text /\ Len(v \o b) = Len(v) + Len(b) /\ (\A i \in 1 .. Len(v) : (v \o b)[i] = v[i])
        /\ \A i \in 1 .. Len(b) : (v \o b)[Len(v) + i] = b[i]
    BY <1>1, <2>3, Both
  <2>5. Len(u) = Len(v \o b)
    BY <1>1, <2>1, <2>2, <2>3, <2>4
  <2>6. ASSUME NEW i \in 1 .. Len(u) PROVE u[i] = (v \o b)[i]
    <3>1. u[i] = s[k + i - 1]
      BY <2>2
    <3>2. CASE i <= Len(v)
      <4>1. k + i - 1 \in 1 .. Len(l) /\ i \in 1 .. Len(v)
        BY <1>1, <2>1, <2>2, <2>3, <3>2
      <4> QED BY <1>1, <2>3, <2>4, <3>1, <4>1
    <3>3. CASE i > Len(v)
      <4> DEFINE j == i - Len(v)
      <4>1. j \in 1 .. Len(b) /\ k + i - 1 = Len(l) + j /\ i = Len(v) + j
        BY <1>1, <2>1, <2>2, <2>3, <3>3
      <4> HIDE DEF j
      <4> QED BY <1>1, <2>4, <3>1, <4>1
    <3> QED BY <1>1, <2>1, <2>2, <2>3, <3>2, <3>3
  <2>7. u = v \o b
    BY <2>2, <2>4, <2>5, <2>6, TextEqual
  <2> QED BY <2>7 DEF u, v, k
<1>10. Chunk(s).read = SubSeq(l, 1, e) /\ Chunk(s).rest = From(l, e + 1) \o b
  <2> DEFINE c == SubSeq(s, 1, e)
             u == From(s, e + 1)
  <2>1. Chunk(s) = [read |-> c, rest |-> u]
    BY <1>4
  <2> HIDE DEF c, u
  <2>2. Chunk(s).read = c /\ Chunk(s).rest = u
    BY <2>1
  <2> QED BY <1>8, <1>9, <2>2 DEF c, u
<1> QED BY <1>6, <1>7, <1>10 DEF s

LEMMA FittingLine ==
  ASSUME NEW l, NEW b, IsLine(l, b), Len(l) <= MAX_LEN - 1
  PROVE  Chunk(l \o b).read = l /\ Chunk(l \o b).rest = b
<1>1. Chunk(l \o b).read = SubSeq(l, 1, Len(l)) /\ Chunk(l \o b).rest = From(l, Len(l) + 1) \o b
  BY LineRead
<1>2. l \in Text /\ b \in Text
  BY DEF IsLine
<1> DEFINE none == <<>>
<1>3. none \in Text /\ l \o none = l /\ none \o b = b
  BY <1>2, NoLetter, EmptyBoth
<1> HIDE DEF none
<1>4. SubSeq(l, 1, Len(l)) = l /\ From(l, Len(l) + 1) = none
  BY <1>2, <1>3, Split
<1> QED BY <1>1, <1>3, <1>4

\* What does not fit is left for the next time.
LEMMA LongLine ==
  ASSUME NEW l, NEW b, IsLine(l, b), Len(l) > MAX_LEN - 1
  PROVE  /\ Chunk(l \o b).read = SubSeq(l, 1, MAX_LEN - 1)
         /\ Chunk(l \o b).rest = From(l, MAX_LEN) \o b /\ IsLine(From(l, MAX_LEN), b)
<1>1. MAX_LEN \in Nat /\ MAX_LEN > 2 /\ l \in Text /\ b \in Text /\ Len(l) \in Nat
  BY InputAssumption, TextHas DEF IsLine
<1>2. (MAX_LEN - 1) + 1 = MAX_LEN /\ ~ Len(l) <= MAX_LEN - 1
  BY <1>1
<1>3. /\ Chunk(l \o b).read = SubSeq(l, 1, MAX_LEN - 1)
      /\ Chunk(l \o b).rest = From(l, MAX_LEN) \o b
  BY <1>2, LineRead
<1> DEFINE u == From(l, MAX_LEN)
<1>4. /\ u \in Text /\ Len(u) = Len(l) + 1 - MAX_LEN
      /\ \A i \in 1 .. Len(l) + 1 - MAX_LEN : u[i] = l[MAX_LEN + i - 1]
  BY <1>1, <1>2, Rest
<1> HIDE DEF u
<1>5. Len(u) \in Nat /\ Len(u) > 0
  BY <1>1, <1>2, <1>4
<1>6. \A i \in 1 .. Len(u) : MAX_LEN + i - 1 \in 1 .. Len(l) /\ u[i] = l[MAX_LEN + i - 1]
  BY <1>1, <1>4
<1>7. u[Len(u)] = l[Len(l)]
  <2>1. Len(u) \in 1 .. Len(u) /\ MAX_LEN + Len(u) - 1 = Len(l)
    BY <1>1, <1>4, <1>5
  <2> QED BY <1>6, <2>1
<1>8. ASSUME NEW j \in 1 .. Len(u), j < Len(u) PROVE u[j] # Newline
  <2>1. MAX_LEN + j - 1 < Len(l)
    BY <1>1, <1>4, <1>8
  <2> QED BY <1>6, <2>1 DEF IsLine
<1>9. u # <<>>
  BY <1>4, <1>5, TextHas
<1>10. IsLine(u, b)
  BY <1>1, <1>4, <1>7, <1>8, <1>9 DEF IsLine
<1> QED BY <1>3, <1>10 DEF u

-----------------------------------------------------------------------------
(* A line of the file, cut up by ReadMovie. *)

LEMMA RestIsFrom ==
  ASSUME NEW s \in Text, NEW d
  PROVE  \E k \in Nat : 1 <= k /\ strtok(s, d).rest = From(s, k)
<1> DEFINE first == Skip(s, 1, {d})
           end == Find(s, first, {d})
<1>1. Len(s) \in Nat
  BY TextHas
<1>2. first \in Nat /\ 1 <= first /\ first <= Len(s) + 1
  BY <1>1, SkipFinds
<1>3. strtok(s, d).rest = From(s, end + 1)
  BY DEF strtok
<1> HIDE DEF first
<1>4. Finds(s, first, {d}, end)
  BY <1>1, <1>2, FindFinds
<1> HIDE DEF end
<1>5. end \in Nat
  BY <1>4 DEF Finds
<1>6. end + 1 \in Nat /\ 1 <= end + 1
  BY <1>5
<1> QED BY <1>3, <1>6

LEMMA FromWithout ==
  ASSUME NEW s \in Text, NEW d, Without(s, d), NEW k \in Nat, 1 <= k
  PROVE  From(s, k) \in Text /\ Without(From(s, k), d)
<1> DEFINE u == From(s, k)
<1>1. /\ u \in Text /\ Len(u) = IF k <= Len(s) THEN Len(s) + 1 - k ELSE 0
      /\ \A i \in 1 .. Len(s) + 1 - k : u[i] = s[k + i - 1]
  BY Rest
<1>2. Len(s) \in Nat
  BY TextHas
<1> HIDE DEF u
<1>3. ASSUME NEW i \in 1 .. Len(u) PROVE u[i] # d
  <2>1. i \in 1 .. Len(s) + 1 - k /\ k + i - 1 \in 1 .. Len(s)
    BY <1>1, <1>2
  <2> QED BY <1>1, <2>1 DEF Without
<1> QED BY <1>1, <1>3 DEF Without, u

Id(c) == strtok(c, Space)
Name(c) == strtok(Id(c).rest, Brace)
Rejected(c) == Id(c).token = <<>> \/ Name(c).token = <<>> \/ NullGenre(Genres(Name(c).rest))
Movie(c) == [movieId |-> Number(Id(c).token), title |-> Title(Name(c).token),
             profile |-> Profile(Genres(Name(c).rest))]

\* What has no brace leaves no genre.
LEMMA NoBraceRejected == ASSUME NEW c \in Text, Without(c, Brace) PROVE Rejected(c)
<1> DEFINE u == Id(c).rest
<1>1. u \in Text /\ Without(u, Brace)
  BY RestIsFrom, FromWithout DEF Id
<1> HIDE DEF u
<1>2. strtok(u, Brace) = [token |-> u, rest |-> <<>>]
  BY <1>1, OnlyToken
<1>3. Name(c) = [token |-> u, rest |-> <<>>]
  BY <1>2 DEF Name, u
<1>4. Name(c).rest = <<>>
  BY <1>3
<1> QED BY <1>4, NoGenres DEF Rejected

\* So that a step can cite only the texts that it is about.
AreTexts(a, b, c, d, e, f) ==
  a \in Text /\ b \in Text /\ c \in Text /\ d \in Text /\ e \in Text /\ f \in Text

LEMMA Regroup ==
  ASSUME NEW d, NEW e, NEW m, NEW f, NEW g, NEW t, AreTexts(d, e, m, f, g, t)
  PROVE  ((((d \o e) \o m) \o (e \o f)) \o g) \o t = (d \o e) \o (((m \o e) \o f) \o (g \o t))
<1> DEFINE x == d \o e
           y == e \o f
           z == g \o t
<1>1. d \in Text /\ e \in Text /\ f \in Text /\ g \in Text /\ t \in Text
  BY DEF AreTexts
<1>2. e \in Text /\ m \in Text /\ f \in Text
  BY DEF AreTexts
<1>3. x \in Text /\ y \in Text /\ z \in Text
  BY <1>1, Both
<1>4. z \in Text
  BY <1>3
<1>5. y \o z = e \o (f \o z)
  <2>1. e \in Text /\ f \in Text
    BY <1>1
  <2> HIDE DEF z
  <2> QED BY <1>4, <2>1, Associative
<1> HIDE DEF x, y, z
<1>6. ((m \o e) \o f) \o z = m \o (e \o (f \o z))
  <2> DEFINE p == m \o e
             q == f \o z
  <2>1. p \in Text /\ f \in Text /\ z \in Text
    BY <1>2, <1>4, Both
  <2>2. m \in Text /\ e \in Text /\ q \in Text
    BY <1>2, <1>4, Both
  <2>3. (p \o f) \o z = p \o (f \o z)
    <3> HIDE DEF p
    <3> QED BY <2>1, Associative
  <2>4. (m \o e) \o q = m \o (e \o q)
    <3> HIDE DEF q
    <3> QED BY <2>2, Associative
  <2> QED BY <2>3, <2>4
<1>7. y \o z \in Text /\ x \o m \in Text /\ m \in Text
  BY <1>2, <1>3, Both
<1>8. (x \o m) \o (y \o z) = x \o (m \o (y \o z))
  <2> DEFINE w == y \o z
  <2>1. x \in Text /\ m \in Text /\ w \in Text
    BY <1>3, <1>7
  <2> HIDE DEF w
  <2>2. (x \o m) \o w = x \o (m \o w)
    BY <2>1, Associative
  <2> QED BY <2>2 DEF w
<1>9. (((x \o m) \o y) \o g) \o t = (x \o m) \o (y \o z)
  <2> DEFINE v == x \o m
             u == v \o y
  <2>1. v \in Text /\ y \in Text /\ z \in Text
    BY <1>3, <1>7
  <2> HIDE DEF v
  <2>2. u \in Text /\ g \in Text /\ t \in Text
    BY <1>1, <2>1, Both
  <2>3. (v \o y) \o z = v \o (y \o z)
    BY <2>1, Associative
  <2>4. (u \o g) \o t = u \o (g \o t)
    <3> HIDE DEF u
    <3> QED BY <2>2, Associative
  <2> QED BY <2>3, <2>4 DEF z, v
<1>10. (((x \o m) \o y) \o g) \o t = x \o (((m \o e) \o f) \o z)
  BY <1>5, <1>6, <1>8, <1>9
<1> QED BY <1>10 DEF x, y, z

LEMMA ListedOf ==
  ASSUME NEW p \in [1 .. NUM_OF_GENRE -> Nat]
  PROVE  Listed(p) \in Text /\ Of(Listed(p), (Zero .. Nine) \cup {Comma})
<1>1. 1 \in 1 .. NUM_OF_GENRE + 1
  BY InputAssumption
<1>2. PICK R : /\ Listed(p) = R[1]
               /\ \A k \in 1 .. NUM_OF_GENRE + 1 : R[k] \in Text /\ Of(R[k], (Zero .. Nine) \cup {Comma})
  BY ListedIs
<1> QED BY <1>1, <1>2

LEMMA RowIs ==
  ASSUME NEW r \in Row
  PROVE  /\ r.movieId \in Nat /\ r.title \in Text /\ r.title # <<>> /\ r.profile \in [1 .. NUM_OF_GENRE -> Nat]
         /\ Of(r.title, Nat \ {Newline, Brace})
         /\ r = [movieId |-> r.movieId, title |-> r.title, profile |-> r.profile]
<1>1. r \in [movieId : Nat, title : Seq(Nat), profile : [1 .. NUM_OF_GENRE -> Nat]]
  BY InputAssumption
<1>2. r.title # <<>> /\ \A k \in DOMAIN r.title : r.title[k] \notin {Newline, Brace}
  BY InputAssumption
<1>3. r.title \in Text
  BY <1>1 DEF Text
<1>4. Of(r.title, Nat \ {Newline, Brace})
  <2> DEFINE m == r.title
  <2>1. m \in Text /\ \A k \in DOMAIN m : m[k] \notin {Newline, Brace}
    BY <1>2, <1>3
  <2> HIDE DEF m
  <2>2. Of(m, Nat \ {Newline, Brace})
    BY <2>1, TextHas DEF Of
  <2> QED BY <2>2 DEF m
<1> QED BY <1>1, <1>2, <1>3, <1>4

\* The line as strtok takes it: the id, a space; the title, a space, a brace; the genres.
LEMMA LineIs ==
  ASSUME NEW r \in Row, NEW t \in Text
  PROVE  Line(r) \o t = (Decimal(r.movieId) \o <<Space>>)
                          \o (((r.title \o <<Space>>) \o <<Brace>>) \o (Listed(r.profile) \o t))
<1> DEFINE d == Decimal(r.movieId)
           m == r.title
           g == Listed(r.profile)
           e == <<Space>>
           f == <<Brace>>
<1>1. d \in Text /\ m \in Text /\ g \in Text
  BY RowIs, DecimalOf, ListedOf
<1>2. e \in Text /\ f \in Text
  BY Letter DEF Space, Brace
<1>3. <<Space, Brace>> = e \o f
  OBVIOUS
<1>4. Line(r) = (((d \o e) \o m) \o (e \o f)) \o g
  BY <1>3 DEF Line
<1> HIDE DEF d, m, g, e, f
<1>5. ((((d \o e) \o m) \o (e \o f)) \o g) \o t = (d \o e) \o (((m \o e) \o f) \o (g \o t))
  <2>1. AreTexts(d, e, m, f, g, t)
    BY <1>1, <1>2 DEF AreTexts
  <2> QED BY <2>1, Regroup
<1>6. Line(r) \o t = (d \o e) \o (((m \o e) \o f) \o (g \o t))
  BY <1>4, <1>5
<1> QED BY <1>6 DEF d, m, g, e, f

\* What a line can end with.
Ending(t) == t = <<>> \/ t = <<Newline>>

LEMMA EndingIs ==
  ASSUME NEW t, Ending(t)
  PROVE  /\ t \in Text /\ Len(t) <= 1 /\ Without(t, Comma) /\ Without(t, Brace) /\ Without(t, Space)
         /\ t # <<>> => t[1] \notin Zero .. Nine
<1> DEFINE c == <<Newline>>
           none == <<>>
<1>1. c \in Text /\ Len(c) = 1 /\ c[1] = Newline /\ none \in Text /\ Len(none) = 0
  BY Letter, NoLetter DEF Newline
<1>2. (t = none \/ t = c) /\ none = <<>>
  BY DEF Ending
<1> HIDE DEF c, none
<1>3. t \in Text /\ Len(t) <= 1 /\ \A k \in 1 .. Len(t) : t[k] = Newline
  <2>1. CASE t = none
    BY <1>1, <2>1
  <2>2. CASE t = c
    <3>1. c \in Text /\ Len(c) <= 1 /\ \A k \in 1 .. Len(c) : c[k] = Newline
      BY <1>1
    <3> QED BY <2>2, <3>1
  <2> QED BY <1>2, <2>1, <2>2
<1>4. Newline # Comma /\ Newline # Brace /\ Newline # Space /\ Newline \notin Zero .. Nine
  BY DEF Newline, Comma, Brace, Space, Zero, Nine
<1>5. t # none => t[1] \notin Zero .. Nine
  BY <1>1, <1>2, <1>4
<1> QED BY <1>2, <1>3, <1>4, <1>5 DEF Without

\* A line is taken for the movie it lists.
LEMMA RowRead ==
  ASSUME NEW r \in Row, NEW t, Ending(t)
  PROVE  ~ Rejected(Line(r) \o t) /\ Movie(Line(r) \o t) = r
<1> DEFINE d == Decimal(r.movieId)
           m == r.title
           g == Listed(r.profile)
           sp == <<Space>>
           c == Line(r) \o t
           x == m \o sp
           q == (x \o <<Brace>>) \o (g \o t)
<1>1. /\ d \in Text /\ d # <<>> /\ Of(d, Zero .. Nine) /\ m \in Text /\ m # <<>>
      /\ Of(m, Nat \ {Newline, Brace}) /\ g \in Text
  BY RowIs, DecimalOf, ListedOf
<1>2. sp \in Text /\ Len(sp) = 1 /\ sp[1] = Space /\ <<Brace>> \in Text /\ Space \in Nat /\ Brace \in Nat
  BY Letter DEF Space, Brace
<1>3. /\ t \in Text /\ Without(t, Comma) /\ (t # <<>> => t[1] \notin Zero .. Nine)
  BY EndingIs
<1>4. c = (d \o <<Space>>) \o q
  BY <1>3, LineIs
<1>5. x \in Text /\ g \o t \in Text /\ q \in Text
  <2>1. x \in Text /\ g \o t \in Text
    BY <1>1, <1>2, <1>3, Both
  <2> HIDE DEF x
  <2> QED BY <1>2, <2>1, Both
<1>6. Without(d, Space)
  <2>1. Space \notin Zero .. Nine
    BY DEF Space, Zero, Nine
  <2> QED BY <1>1, <2>1 DEF Of, Without
<1>7. Without(x, Brace) /\ x # <<>>
  <2>1. Of(sp, Nat \ {Brace})
    <3>1. Space # Brace
      BY DEF Space, Brace
    <3> HIDE DEF sp
    <3> QED BY <1>2, <3>1 DEF Of
  <2>2. Of(m, Nat \ {Brace})
    BY <1>1 DEF Of
  <2> HIDE DEF m, sp
  <2>3. Of(x, Nat \ {Brace})
    BY <1>1, <1>2, <2>1, <2>2, BothOf
  <2>4. Len(x) = Len(m) + Len(sp) /\ Len(m) \in Nat
    BY <1>1, <1>2, Both, TextHas
  <2> HIDE DEF x
  <2>5. x # <<>>
    BY <1>2, <1>5, <2>4, TextHas
  <2> QED BY <2>3, <2>5 DEF Of, Without
<1> HIDE DEF q
<1>8. Id(c) = [token |-> d, rest |-> q]
  <2>1. strtok((d \o <<Space>>) \o q, Space) = [token |-> d, rest |-> q]
    <3> HIDE DEF d
    <3> QED BY <1>1, <1>2, <1>5, <1>6, FirstToken
  <2> HIDE DEF c
  <2> QED BY <1>4, <2>1 DEF Id
<1>9. Name(c) = [token |-> x, rest |-> g \o t]
  <2> DEFINE G == g \o t
  <2>1. G \in Text /\ x \in Text /\ q = (x \o <<Brace>>) \o G
    BY <1>5 DEF q
  <2> HIDE DEF G, x
  <2>2. strtok((x \o <<Brace>>) \o G, Brace) = [token |-> x, rest |-> G]
    BY <1>2, <1>7, <2>1, FirstToken
  <2>3. Id(c).rest = q
    BY <1>8
  <2> HIDE DEF c
  <2>4. Name(c) = [token |-> x, rest |-> G]
    BY <2>1, <2>2, <2>3 DEF Name
  <2> QED BY <2>4 DEF G
<1>10. /\ Id(c).token = d /\ Name(c).token = x /\ Name(c).rest = g \o t
  <2> HIDE DEF c, d, x, g
  <2> QED BY <1>8, <1>9
<1>11. ~ NullGenre(Genres(g \o t)) /\ Profile(Genres(g \o t)) = r.profile
  <2>1. r.profile \in [1 .. NUM_OF_GENRE -> Nat]
    BY RowIs
  <2> QED BY <1>3, <2>1, GenresRead
<1>12. Title(x) = m
  <2>1. Len(x) - 1 = Len(m) /\ SubSeq(x, 1, Len(m)) = m
    <3> HIDE DEF sp, m
    <3>1. Len(m \o sp) = Len(m) + Len(sp) /\ Len(m) \in Nat
      BY <1>1, <1>2, Both, TextHas
    <3>2. SubSeq(m \o sp, 1, Len(m)) = m
      BY <1>1, <1>2, Split
    <3> QED BY <1>2, <3>1, <3>2
  <2> QED BY <2>1 DEF Title
<1>13. Number(d) = r.movieId
  <2> DEFINE none == <<>>
  <2>1. none \in Text /\ none = <<>> /\ d \o none = d
    BY <1>1, NoLetter, EmptyBoth
  <2>2. r.movieId \in Nat
    BY RowIs
  <2> HIDE DEF none
  <2>3. Number(d \o none) = r.movieId
    BY <2>1, <2>2, NumberIs
  <2> QED BY <2>1, <2>3
<1> HIDE DEF c, d, x, g, m
<1>14. ~ Rejected(c)
  BY <1>1, <1>7, <1>10, <1>11 DEF Rejected
<1>15. Movie(c) = [movieId |-> r.movieId, title |-> m, profile |-> r.profile]
  BY <1>10, <1>11, <1>12, <1>13 DEF Movie
<1>16. Movie(c) = r
  BY <1>15, RowIs DEF m
<1> QED BY <1>14, <1>16 DEF c

\* The newline is where the line ends.
LEMMA EndsLine ==
  ASSUME NEW l \in Text, Of(l, Nat \ {Newline}), NEW t, NEW b \in Text,
         t = <<Newline>> \/ (t = <<>> /\ l # <<>> /\ b = <<>>)
  PROVE  IsLine(l \o t, b)
<1>1. CASE t = <<>> /\ l # <<>> /\ b = <<>>
  <2>1. l \o t = l
    BY <1>1, EmptyBoth
  <2>2. IsLine(l, b)
    BY <1>1 DEF IsLine, Of
  <2> QED BY <2>1, <2>2
<1>2. CASE t = <<Newline>>
  <2>1. t \in Text /\ Len(t) = 1 /\ t[1] = Newline
    BY <1>2, Letter DEF Newline
  <2> DEFINE u == l \o t
  <2>2. /\ u \in Text /\ Len(u) = Len(l) + 1 /\ Len(l) \in Nat /\ (\A k \in 1 .. Len(l) : u[k] = l[k])
        /\ u[Len(l) + 1] = t[1]
    <3>1. /\ u \in Text /\ Len(u) = Len(l) + Len(t) /\ (\A k \in 1 .. Len(l) : u[k] = l[k])
          /\ \A k \in 1 .. Len(t) : u[Len(l) + k] = t[k]
      BY <2>1, Both
    <3>2. Len(l) \in Nat /\ 1 \in 1 .. Len(t)
      BY <2>1, TextHas
    <3> HIDE DEF u
    <3> QED BY <2>1, <3>1, <3>2
  <2> HIDE DEF u
  <2>3. u[Len(u)] = Newline
    BY <2>1, <2>2
  <2>4. \A j \in 1 .. Len(u) : j < Len(u) => u[j] # Newline
    <3>1. \A j \in 1 .. Len(u) : j < Len(u) => j \in 1 .. Len(l)
      BY <2>2
    <3> QED BY <2>2, <3>1 DEF Of
  <2>5. u # <<>>
    BY <2>2, TextHas
  <2>6. IsLine(u, b)
    BY <2>2, <2>3, <2>4, <2>5 DEF IsLine
  <2> QED BY <2>6 DEF u
<1> QED BY <1>1, <1>2

LEMMA LineOf == ASSUME NEW r \in Row PROVE Line(r) \in Text /\ Line(r) # <<>> /\ Of(Line(r), Nat \ {Newline})
<1> DEFINE none == <<>>
           C == Nat \ {Newline}
           d == Decimal(r.movieId)
           m == r.title
           g == Listed(r.profile)
           e == <<Space>>
           f == <<Brace>>
<1>1. d \in Text /\ d # <<>> /\ Of(d, C) /\ m \in Text /\ Of(m, C) /\ g \in Text /\ Of(g, C)
  <2>1. (Zero .. Nine) \subseteq C /\ (Zero .. Nine) \cup {Comma} \subseteq C /\ Nat \ {Newline, Brace} \subseteq C
    BY DEF Zero, Nine, Comma, Newline
  <2>2. /\ d \in Text /\ d # <<>> /\ Of(d, Zero .. Nine) /\ m \in Text /\ Of(m, Nat \ {Newline, Brace})
        /\ g \in Text /\ Of(g, (Zero .. Nine) \cup {Comma})
    BY RowIs, DecimalOf, ListedOf
  <2> HIDE DEF C, d, m, g
  <2> QED BY <2>1, <2>2 DEF Of
<1>2. e \in Text /\ Of(e, C) /\ f \in Text /\ Of(f, C)
  <2>1. e \in Text /\ Len(e) = 1 /\ e[1] = Space /\ f \in Text /\ Len(f) = 1 /\ f[1] = Brace
    BY Letter DEF Space, Brace
  <2>2. Space \in C /\ Brace \in C
    BY DEF Space, Brace, Newline
  <2> HIDE DEF C, e, f
  <2> QED BY <2>1, <2>2 DEF Of
<1>3. none \in Text /\ Line(r) \o none = (d \o e) \o (((m \o e) \o f) \o (g \o none))
  BY NoLetter, LineIs
<1> HIDE DEF d, m, g, e, f, C, none
<1>4. g \o none = g /\ Line(r) = (((d \o e) \o m) \o <<Space, Brace>>) \o g
  <2>1. g \o none = g
    BY <1>1, EmptyBoth DEF none
  <2> QED BY <2>1 DEF Line, d, m, e, g
<1>5. d \o e \in Text /\ Of(d \o e, C) /\ m \o e \in Text /\ Of(m \o e, C)
  BY <1>1, <1>2, Both, BothOf
<1>6. (m \o e) \o f \in Text /\ Of((m \o e) \o f, C)
  BY <1>1, <1>2, <1>5, Both, BothOf
<1>7. ((m \o e) \o f) \o g \in Text /\ Of(((m \o e) \o f) \o g, C)
  BY <1>1, <1>6, Both, BothOf
<1> DEFINE l == (d \o e) \o (((m \o e) \o f) \o g)
<1>8. l \in Text /\ Of(l, C) /\ l # <<>>
  <2>1. l \in Text /\ Of(l, C)
    BY <1>5, <1>7, Both, BothOf
  <2> DEFINE y == ((m \o e) \o f) \o g
  <2>2. Len(d \o e) = Len(d) + Len(e) /\ Len(l) = Len(d \o e) + Len(y) /\ Len(y) \in Nat /\ Len(e) \in Nat
        /\ Len(d) \in Nat /\ Len(d) # 0
    <3> HIDE DEF y
    <3>1. y \in Text
      BY <1>7 DEF y
    <3>2. l = (d \o e) \o y
      BY DEF y
    <3> HIDE DEF l
    <3> QED BY <1>1, <1>2, <1>5, <3>1, <3>2, Both, TextHas
  <2> HIDE DEF y
  <2>3. Len(l) # 0
    <3> HIDE DEF l
    <3> QED BY <2>2
  <2> HIDE DEF l
  <2> QED BY <2>1, <2>3, TextHas
<1>9. Line(r) = l
  <2>1. <<Space, Brace>> = e \o f
    BY DEF e, f
  <2>2. /\ (d \o e) \o m \in Text /\ e \o f \in Text
    BY <1>1, <1>2, <1>5, Both
  <2>3. (((d \o e) \o m) \o (e \o f)) \o g = ((((d \o e) \o m) \o (e \o f)) \o g) \o none
    <3>1. ((d \o e) \o m) \o (e \o f) \in Text
      BY <2>2, Both
    <3>2. (((d \o e) \o m) \o (e \o f)) \o g \in Text
      BY <1>1, <3>1, Both
    <3> QED BY <3>2, EmptyBoth DEF none
  <2>4. ((((d \o e) \o m) \o (e \o f)) \o g) \o none = (d \o e) \o (((m \o e) \o f) \o (g \o none))
    <3>1. AreTexts(d, e, m, f, g, none)
      BY <1>1, <1>2, <1>3 DEF AreTexts
    <3> QED BY <3>1, Regroup
  <2> QED BY <1>4, <2>1, <2>3, <2>4
<1> QED BY <1>8, <1>9 DEF C

\* A line has one brace: with the first piece or without it, the other has none.
LEMMA OneBrace ==
  ASSUME NEW r \in Row, NEW t, Ending(t), NEW k \in Nat, k >= 1, k <= Len(Line(r) \o t)
  PROVE  \/ Without(SubSeq(Line(r) \o t, 1, k), Brace)
         \/ Without(From(Line(r) \o t, k + 1), Brace)
<1> DEFINE d == Decimal(r.movieId) \o <<Space>>
           x == r.title \o <<Space>>
           g == Listed(r.profile) \o t
           l == Line(r) \o t
           f == <<Brace>>
<1>1. l = d \o ((x \o f) \o g)
  <2>1. t \in Text
    BY EndingIs
  <2> QED BY <2>1, LineIs
<1>2. f \in Text /\ Len(f) = 1 /\ f[1] = Brace
  BY Letter DEF Brace
<1>3. d \in Text /\ Without(d, Brace) /\ x \in Text /\ Without(x, Brace) /\ g \in Text /\ Without(g, Brace)
  <2> DEFINE C == Nat \ {Brace}
             i == Decimal(r.movieId)
             m == r.title
             p == Listed(r.profile)
             e == <<Space>>
  <2>1. i \in Text /\ Of(i, C) /\ m \in Text /\ Of(m, C) /\ p \in Text /\ Of(p, C)
    <3>1. (Zero .. Nine) \subseteq C /\ (Zero .. Nine) \cup {Comma} \subseteq C /\ Nat \ {Newline, Brace} \subseteq C
      BY DEF Zero, Nine, Comma, Brace
    <3>2. /\ i \in Text /\ Of(i, Zero .. Nine) /\ m \in Text /\ Of(m, Nat \ {Newline, Brace})
          /\ p \in Text /\ Of(p, (Zero .. Nine) \cup {Comma})
      BY RowIs, DecimalOf, ListedOf
    <3> HIDE DEF C, i, m, p
    <3> QED BY <3>1, <3>2 DEF Of
  <2>2. e \in Text /\ Of(e, C)
    <3>1. e \in Text /\ Len(e) = 1 /\ e[1] = Space
      BY Letter DEF Space
    <3>2. Space \in C
      BY DEF Space, Brace
    <3> HIDE DEF C, e
    <3> QED BY <3>1, <3>2 DEF Of
  <2>3. t \in Text /\ Of(t, C)
    <3>1. t \in Text /\ Without(t, Brace)
      BY EndingIs
    <3> QED BY <3>1, TextHas DEF Of, Without
  <2> HIDE DEF C, i, m, p, e
  <2>4. /\ i \o e \in Text /\ Of(i \o e, C) /\ m \o e \in Text /\ Of(m \o e, C)
        /\ p \o t \in Text /\ Of(p \o t, C)
    BY <2>1, <2>2, <2>3, Both, BothOf
  <2>5. d = i \o e /\ x = m \o e /\ g = p \o t
    BY DEF i, m, p, e
  <2> HIDE DEF d, x, g
  <2> QED BY <2>4, <2>5 DEF Of, Without, C
<1> HIDE DEF d, x, g, l
<1>4. l = (d \o x) \o (f \o g) /\ d \o x \in Text /\ f \o g \in Text
  <2>1. (x \o f) \o g = x \o (f \o g) /\ d \o (x \o (f \o g)) = (d \o x) \o (f \o g)
    <3>1. f \o g \in Text
      BY <1>2, <1>3, Both
    <3> HIDE DEF f
    <3> QED BY <1>2, <1>3, <3>1, Associative
  <2> QED BY <1>1, <1>2, <1>3, <2>1, Both
<1> DEFINE a == d \o x
           z == f \o g
           at == Len(a) + 1
<1>5. Len(a) \in Nat /\ \A j \in 1 .. Len(a) : a[j] # Brace
  <2>1. Of(d, Nat \ {Brace}) /\ Of(x, Nat \ {Brace})
    BY <1>3, TextHas DEF Of, Without
  <2>2. Of(a, Nat \ {Brace})
    BY <1>3, <2>1, BothOf
  <2>3. Len(a) \in Nat
    BY <1>4, TextHas
  <2> HIDE DEF a
  <2> QED BY <2>2, <2>3 DEF Of
<1>6. /\ Len(z) = Len(g) + 1 /\ Len(g) \in Nat /\ \A j \in 1 .. Len(z) : j > 1 => z[j] # Brace
  <2> HIDE DEF f
  <2>1. /\ Len(z) = 1 + Len(g) /\ Len(g) \in Nat /\ \A j \in 1 .. Len(g) : z[1 + j] = g[j]
    <3>1. Len(z) = Len(f) + Len(g) /\ \A j \in 1 .. Len(g) : z[Len(f) + j] = g[j]
      BY <1>2, <1>3, Both
    <3>2. Len(g) \in Nat
      BY <1>3, TextHas
    <3> HIDE DEF z
    <3> QED BY <1>2, <3>1, <3>2
  <2> HIDE DEF z
  <2>2. ASSUME NEW j \in 1 .. Len(z), j > 1 PROVE z[j] # Brace
    <3>1. j - 1 \in 1 .. Len(g) /\ 1 + (j - 1) = j
      BY <2>1, <2>2
    <3>2. z[1 + (j - 1)] = g[j - 1] /\ g[j - 1] # Brace
      BY <1>3, <2>1, <3>1 DEF Without
    <3> QED BY <3>1, <3>2
  <2> QED BY <2>1, <2>2
<1>7. /\ l \in Text /\ Len(l) = Len(a) + Len(z) /\ (\A j \in 1 .. Len(a) : l[j] = a[j])
      /\ \A j \in 1 .. Len(z) : l[Len(a) + j] = z[j]
  BY <1>4, Both
<1> HIDE DEF a, z
<1>8. \A j \in 1 .. Len(l) : j # at => l[j] # Brace
  <2> SUFFICES ASSUME NEW j \in 1 .. Len(l), j # at PROVE l[j] # Brace
    OBVIOUS
  <2>1. CASE j <= Len(a)
    BY <1>5, <1>7, <2>1
  <2>2. CASE j > Len(a)
    <3>1. j - Len(a) \in 1 .. Len(z) /\ j - Len(a) > 1 /\ Len(a) + (j - Len(a)) = j
      <4>1. Len(a) \in Nat /\ Len(z) \in Nat /\ Len(l) = Len(a) + Len(z)
        BY <1>5, <1>6, <1>7
      <4>2. j \in 1 .. Len(a) + Len(z) /\ j > Len(a) /\ j # Len(a) + 1
        BY <2>2, <4>1
      <4> QED BY <4>1, <4>2
    <3> QED BY <1>6, <1>7, <3>1
  <2> QED BY <1>5, <1>7, <2>1, <2>2
<1>9. Len(l) \in Nat /\ k <= Len(l) /\ at \in Nat
  BY <1>5, <1>7, TextHas DEF l
<1> HIDE DEF at
<1>10. CASE at > k
  <2> DEFINE u == SubSeq(l, 1, k)
  <2>1. 1 \in Nat /\ k + 1 - 1 = k /\ \A i \in 1 .. k : 1 + i - 1 = i /\ i \in 1 .. Len(l) /\ i # at
    BY <1>9, <1>10
  <2>2. Len(u) = k /\ \A i \in 1 .. k : u[i] = l[i]
    BY <1>7, <1>9, <2>1, Piece
  <2> HIDE DEF u
  <2>3. Without(u, Brace)
    BY <1>8, <2>1, <2>2 DEF Without
  <2> QED BY <2>3 DEF u, l
<1>11. CASE at <= k
  <2> DEFINE u == From(l, k + 1)
  <2>1. k + 1 \in Nat /\ 1 <= k + 1
    OBVIOUS
  <2>2. /\ Len(u) = IF k + 1 <= Len(l) THEN Len(l) + 1 - (k + 1) ELSE 0
        /\ \A i \in 1 .. Len(l) + 1 - (k + 1) : u[i] = l[(k + 1) + i - 1]
    BY <1>7, <2>1, Rest
  <2> HIDE DEF u
  <2>3. ASSUME NEW i \in 1 .. Len(u) PROVE u[i] # Brace
    <3>1. i \in 1 .. Len(l) + 1 - (k + 1) /\ (k + 1) + i - 1 \in 1 .. Len(l) /\ (k + 1) + i - 1 # at
      BY <1>9, <1>11, <2>2
    <3> QED BY <1>8, <2>2, <3>1
  <2>4. Without(u, Brace)
    BY <2>3 DEF Without
  <2> QED BY <2>4 DEF u, l
<1> QED BY <1>9, <1>10, <1>11

-----------------------------------------------------------------------------
(* What is left of the file after some of its rows. *)

Sources == [header : Header, rows : UpTo(MaxRows, Row), ended : BOOLEAN, wishes : UpTo(MaxWishes, Wish)]

LEMMA ListIs ==
  ASSUME NEW n \in Nat, NEW S, NEW f \in UpTo(n, S)
  PROVE  f \in Seq(S) /\ Len(f) \in Nat /\ DOMAIN f = 1 .. Len(f) /\ \A k \in 1 .. Len(f) : f[k] \in S
<1>1. PICK k \in 0 .. n : f \in [1 .. k -> S]
  BY DEF UpTo
<1>2. k \in Nat
  OBVIOUS
<1>3. f \in Seq(S)
  BY <1>1, <1>2
<1> QED BY <1>3

LEMMA SourceIs ==
  ASSUME NEW s \in Sources
  PROVE  /\ s.header \in Text /\ Of(s.header, Nat \ {Newline, Brace}) /\ s.ended \in BOOLEAN
         /\ s.rows \in Seq(Row) /\ Len(s.rows) \in Nat /\ DOMAIN s.rows = 1 .. Len(s.rows)
         /\ \A k \in 1 .. Len(s.rows) : s.rows[k] \in Row
         /\ s.wishes \in Seq(Wish) /\ Len(s.wishes) \in Nat /\ DOMAIN s.wishes = 1 .. Len(s.wishes)
         /\ \A k \in 1 .. Len(s.wishes) : s.wishes[k] \in Wish
<1>1. s.header \in Header /\ s.ended \in BOOLEAN /\ s.rows \in UpTo(MaxRows, Row) /\ s.wishes \in UpTo(MaxWishes, Wish)
  BY DEF Sources
<1>2. MaxRows \in Nat /\ MaxWishes \in Nat
  BY InputAssumption
<1>3. /\ s.rows \in Seq(Row) /\ Len(s.rows) \in Nat /\ DOMAIN s.rows = 1 .. Len(s.rows)
      /\ \A k \in 1 .. Len(s.rows) : s.rows[k] \in Row
  BY <1>1, <1>2, ListIs
<1>4. /\ s.wishes \in Seq(Wish) /\ Len(s.wishes) \in Nat /\ DOMAIN s.wishes = 1 .. Len(s.wishes)
      /\ \A k \in 1 .. Len(s.wishes) : s.wishes[k] \in Wish
  BY <1>1, <1>2, ListIs
<1>5. s.header \in Text /\ Of(s.header, Nat \ {Newline, Brace})
  <2> DEFINE h == s.header
  <2>1. h \in Text /\ \A k \in DOMAIN h : h[k] \notin {Newline, Brace}
    BY <1>1, InputAssumption DEF Text
  <2> HIDE DEF h
  <2>2. Of(h, Nat \ {Newline, Brace})
    BY <2>1, TextHas DEF Of
  <2> QED BY <2>1, <2>2 DEF h
<1> QED BY <1>1, <1>3, <1>4, <1>5

EndOf(s, k) == IF k = Len(s.rows) /\ ~ s.ended THEN <<>> ELSE <<Newline>>

LEMMA LinesAre ==
  ASSUME NEW s \in Sources
  PROVE  /\ Lines(s) \in Seq(Text) /\ Len(Lines(s)) = Len(s.rows)
         /\ \A k \in 1 .. Len(s.rows) : Lines(s)[k] = Line(s.rows[k]) \o EndOf(s, k)
<1> DEFINE n == Len(s.rows)
           e(k) == Line(s.rows[k]) \o EndOf(s, k)
           p == [k \in 1 .. n |-> e(k)]
<1>1. n \in Nat /\ DOMAIN s.rows = 1 .. n /\ \A k \in 1 .. n : s.rows[k] \in Row
  BY SourceIs
<1>2. Lines(s) = p
  BY <1>1 DEF Lines, EndOf
<1>3. ASSUME NEW k \in 1 .. n PROVE e(k) \in Text
  <2>1. Line(s.rows[k]) \in Text
    BY <1>1, LineOf
  <2>2. EndOf(s, k) \in Text
    BY EndingIs DEF EndOf, Ending
  <2> QED BY <2>1, <2>2, Both
<1> HIDE DEF n, e
<1>4. p \in [1 .. n -> Text]
  BY <1>3
<1>5. p \in Seq(Text) /\ Len(p) = n /\ \A k \in 1 .. n : p[k] = e(k)
  <2>1. \A k \in 1 .. n : p[k] = e(k)
    OBVIOUS
  <2> HIDE DEF p
  <2> QED BY <1>1, <1>4, <2>1
<1> QED BY <1>2, <1>5 DEF n, e

\* R has what is left of the file from each row on.
Leaves(s, R) ==
  /\ R \in [1 .. Len(s.rows) + 1 -> Text] /\ R[Len(s.rows) + 1] = <<>>
  /\ \A k \in 1 .. Len(s.rows) : R[k] = (Line(s.rows[k]) \o EndOf(s, k)) \o R[k + 1]

LEMMA RowsAreLeft ==
  ASSUME NEW s \in Sources
  PROVE  \E R : Leaves(s, R) /\ Joined(Lines(s)) = R[1]
<1> DEFINE parts == Lines(s)
           S == Nat
<1>1. /\ parts \in Seq(Seq(S)) /\ Len(parts) = Len(s.rows)
      /\ \A k \in 1 .. Len(s.rows) : parts[k] = Line(s.rows[k]) \o EndOf(s, k)
  BY LinesAre DEF Text
<1> HIDE DEF parts, S
<1>2. PICK R \in [1 .. Len(parts) + 1 -> Seq(S)] : Suffixes(parts, R) /\ Joined(parts) = R[1]
  BY <1>1, JoinedIs
<1>3. Leaves(s, R)
  BY <1>1, <1>2 DEF Leaves, Suffixes, Text, S
<1> QED BY <1>2, <1>3 DEF parts

\* The next row is a line.
LEMMA NextRow ==
  ASSUME NEW s \in Sources, NEW R, Leaves(s, R), NEW k \in 1 .. Len(s.rows)
  PROVE  /\ s.rows[k] \in Row /\ Ending(EndOf(s, k)) /\ R[k + 1] \in Text
         /\ R[k] = (Line(s.rows[k]) \o EndOf(s, k)) \o R[k + 1]
         /\ IsLine(Line(s.rows[k]) \o EndOf(s, k), R[k + 1])
<1> DEFINE l == Line(s.rows[k])
           t == EndOf(s, k)
           b == R[k + 1]
<1>1. Len(s.rows) \in Nat /\ s.rows[k] \in Row
  BY SourceIs
<1>2. k + 1 \in 1 .. Len(s.rows) + 1
  BY <1>1
<1>3. b \in Text /\ R[k] = (l \o t) \o b
  BY <1>2 DEF Leaves
<1>4. l \in Text /\ l # <<>> /\ Of(l, Nat \ {Newline})
  BY <1>1, LineOf
<1>5. t = <<Newline>> \/ (t = <<>> /\ l # <<>> /\ b = <<>>)
  BY <1>4 DEF EndOf, Leaves
<1>6. Ending(t)
  BY <1>5 DEF Ending
<1> HIDE DEF l, t, b
<1>7. IsLine(l \o t, b)
  BY <1>3, <1>4, <1>5, EndsLine
<1> QED BY <1>1, <1>3, <1>6, <1>7 DEF l, t, b

\* Of a line that was too long, what cannot be taken for a movie.
Doomed(x) == x \in Text /\ x # <<>> /\ Without(Chunk(x).read, Brace)

LEMMA ChunkIsText == ASSUME NEW x \in Text, x # <<>> PROVE Chunk(x).read \in Text
<1>1. PICK e : Stops(x, e) /\ Chunk(x) = [read |-> SubSeq(x, 1, e), rest |-> From(x, e + 1)]
  BY ChunkIs
<1>2. Len(x) \in Nat
  BY TextHas
<1> DEFINE one == 1
<1>3. one \in Nat /\ e \in Nat /\ 1 <= one /\ e <= Len(x)
  BY <1>1, <1>2 DEF Stops
<1>4. Chunk(x).read = SubSeq(x, one, e)
  <2> DEFINE c == SubSeq(x, 1, e)
             u == From(x, e + 1)
  <2>1. Chunk(x) = [read |-> c, rest |-> u]
    BY <1>1
  <2> HIDE DEF c, u
  <2>2. Chunk(x).read = c
    BY <2>1
  <2> QED BY <2>2 DEF c
<1> HIDE DEF one
<1>5. SubSeq(x, one, e) \in Text
  BY <1>3, Piece
<1> QED BY <1>4, <1>5

LEMMA DoomedRejected == ASSUME NEW x, Doomed(x) PROVE Rejected(Chunk(x).read)
BY ChunkIsText, NoBraceRejected DEF Doomed

LEMMA WithoutStart ==
  ASSUME NEW s \in Text, NEW d, Without(s, d), NEW e \in Nat, e <= Len(s)
  PROVE  Without(SubSeq(s, 1, e), d)
<1> DEFINE one == 1
           u == SubSeq(s, one, e)
<1>1. one \in Nat /\ 1 <= one /\ Len(s) \in Nat
  BY TextHas
<1> HIDE DEF one
<1>2. Len(u) = (IF one <= e THEN e + 1 - one ELSE 0) /\ \A i \in 1 .. e + 1 - one : u[i] = s[one + i - 1]
  BY <1>1, Piece
<1> HIDE DEF u
<1>3. ASSUME NEW i \in 1 .. Len(u) PROVE u[i] # d
  <2>1. one = 1
    BY DEF one
  <2>2. i \in 1 .. e + 1 - one /\ one + i - 1 \in 1 .. Len(s)
    BY <1>1, <1>2, <2>1
  <2> QED BY <1>2, <2>2 DEF Without
<1> QED BY <1>3 DEF Without, u, one

LEMMA DoomedLine == ASSUME NEW u, NEW b, IsLine(u, b), Without(u, Brace) PROVE Doomed(u \o b)
<1>1. PICK e : e \in 1 .. Len(u) /\ Chunk(u \o b).read = SubSeq(u, 1, e)
  BY LineRead
<1>2. u \in Text /\ b \in Text /\ u # <<>>
  BY DEF IsLine
<1>3. e \in Nat /\ e <= Len(u) /\ Len(u) \in Nat /\ Len(b) \in Nat
  BY <1>1, <1>2, TextHas
<1>4. Without(SubSeq(u, 1, e), Brace)
  BY <1>2, <1>3, WithoutStart
<1>5. u \o b \in Text /\ u \o b # <<>>
  <2> DEFINE x == u \o b
  <2>1. x \in Text /\ Len(x) = Len(u) + Len(b)
    BY <1>2, Both
  <2> HIDE DEF x
  <2>2. Len(x) # 0
    BY <1>1, <1>3, <2>1
  <2>3. x # <<>>
    BY <2>1, <2>2, TextHas
  <2> QED BY <2>1, <2>3 DEF x
<1> QED BY <1>1, <1>4, <1>5 DEF Doomed

\* A row is read, or it is too long: then this is no movie, or what follows is none.
LEMMA ReadRow ==
  ASSUME NEW s \in Sources, NEW R, Leaves(s, R), NEW k \in 1 .. Len(s.rows)
  PROVE  LET c == Chunk(R[k]) IN
         /\ R[k] \in Text /\ R[k] # <<>>
         /\ \/ ~ Rejected(c.read) /\ Movie(c.read) = s.rows[k] /\ c.rest = R[k + 1]
            \/ Rejected(c.read) /\ Len(Line(s.rows[k])) >= MAX_LEN - 1
            \/ Doomed(c.rest) /\ Len(Line(s.rows[k])) >= MAX_LEN - 1
<1> DEFINE r == s.rows[k]
           t == EndOf(s, k)
           l == Line(r) \o t
           b == R[k + 1]
           c == Chunk(R[k])
<1>1. r \in Row /\ Ending(t) /\ b \in Text /\ R[k] = l \o b /\ IsLine(l, b)
  BY NextRow
<1>2. Line(r) \in Text /\ t \in Text /\ Len(t) <= 1
  BY <1>1, LineOf, EndingIs
<1>3. l \in Text /\ Len(l) = Len(Line(r)) + Len(t) /\ Len(Line(r)) \in Nat /\ Len(t) \in Nat /\ Len(l) \in Nat
  BY <1>2, Both, TextHas
<1>4. l # <<>>
  BY <1>1 DEF IsLine
<1>5. R[k] \in Text /\ R[k] # <<>>
  <2> HIDE DEF l, b
  <2>1. l \o b \in Text /\ Len(l \o b) = Len(l) + Len(b) /\ Len(b) \in Nat /\ Len(l) # 0
    BY <1>1, <1>3, <1>4, Both, TextHas
  <2>2. R[k] \in Text /\ Len(R[k]) # 0
    BY <1>1, <1>3, <2>1
  <2> QED BY <2>2, TextHas
<1>6. CASE Len(l) <= MAX_LEN - 1
  <2>1. c.read = l /\ c.rest = b
    <3> HIDE DEF l, b
    <3> QED BY <1>1, <1>6, FittingLine
  <2>2. ~ Rejected(l) /\ Movie(l) = r
    BY <1>1, RowRead
  <2> QED BY <1>5, <2>1, <2>2
<1>7. CASE Len(l) > MAX_LEN - 1
  <2> DEFINE m == MAX_LEN - 1
  <2>1. MAX_LEN \in Nat /\ m \in Nat /\ m >= 1 /\ m + 1 = MAX_LEN
    BY InputAssumption
  <2>2. Len(Line(r)) >= MAX_LEN - 1
    BY <1>2, <1>3, <1>7, <2>1
  <2>3. /\ c.read = SubSeq(l, 1, MAX_LEN - 1) /\ c.rest = From(l, MAX_LEN) \o b
        /\ IsLine(From(l, MAX_LEN), b)
    <3> HIDE DEF l, b
    <3> QED BY <1>1, <1>7, LongLine
  <2>4. m <= Len(l)
    BY <1>3, <1>7, <2>1
  <2> HIDE DEF m
  <2>5. Without(SubSeq(l, 1, m), Brace) \/ Without(From(l, m + 1), Brace)
    BY <1>1, <2>1, <2>4, OneBrace
  <2>6. CASE Without(SubSeq(l, 1, m), Brace)
    <3>1. c.read \in Text
      BY <1>5, ChunkIsText
    <3>2. Without(c.read, Brace)
      BY <2>3, <2>6 DEF m
    <3>3. Rejected(c.read)
      BY <3>1, <3>2, NoBraceRejected
    <3> QED BY <1>5, <2>2, <3>3
  <2>7. CASE Without(From(l, m + 1), Brace)
    <3>1. Without(From(l, MAX_LEN), Brace)
      BY <2>1, <2>7
    <3>2. Doomed(c.rest)
      BY <2>3, <3>1, DoomedLine
    <3> QED BY <1>5, <2>2, <3>2
  <2> QED BY <2>5, <2>6, <2>7
<1>8. Len(l) <= MAX_LEN - 1 \/ Len(l) > MAX_LEN - 1
  BY <1>3, InputAssumption
<1> QED BY <1>6, <1>7, <1>8

\* After the header come the rows, unless it is too long.
LEMMA HeaderRead ==
  ASSUME NEW s \in Sources
  PROVE  LET x == Chunk(File(s)).rest IN
         \/ \E R : Leaves(s, R) /\ x = R[1]
         \/ Doomed(x) /\ Len(s.header) >= MAX_LEN - 1
<1>1. PICK R : Leaves(s, R) /\ Joined(Lines(s)) = R[1]
  BY RowsAreLeft
<1> DEFINE h == s.header
           nl == <<Newline>>
           l == h \o nl
           b == R[1]
<1>2. h \in Text /\ Of(h, Nat \ {Newline, Brace}) /\ Len(s.rows) \in Nat
  BY SourceIs
<1>3. b \in Text
  <2>1. 1 \in 1 .. Len(s.rows) + 1
    BY <1>2
  <2> QED BY <1>1, <2>1 DEF Leaves
<1>4. File(s) = l \o b
  BY <1>1 DEF File
<1>5. IsLine(l, b)
  <2>1. Of(h, Nat \ {Newline}) /\ nl = <<Newline>>
    BY <1>2 DEF Of
  <2> HIDE DEF h, nl, b
  <2> QED BY <1>2, <1>3, <2>1, EndsLine
<1>6. nl \in Text /\ Len(nl) = 1 /\ Without(nl, Brace)
  BY Letter, EndingIs DEF Newline, Ending
<1>7. /\ l \in Text /\ Len(l) = Len(h) + 1 /\ Len(h) \in Nat
      /\ Without(l, Brace)
  <2>1. Of(h, Nat \ {Brace}) /\ Of(nl, Nat \ {Brace})
    <3> HIDE DEF h, nl
    <3> QED BY <1>2, <1>6, TextHas DEF Of, Without
  <2> HIDE DEF h, nl
  <2>2. Of(l, Nat \ {Brace}) /\ l \in Text /\ Len(l) = Len(h) + Len(nl) /\ Len(h) \in Nat
    BY <1>2, <1>6, <2>1, BothOf, Both, TextHas
  <2> HIDE DEF l
  <2> QED BY <1>6, <2>2 DEF Of, Without
<1> HIDE DEF h, nl, l, b
<1>8. CASE Len(l) <= MAX_LEN - 1
  <2>1. Chunk(l \o b).rest = b
    BY <1>5, <1>8, FittingLine
  <2> QED BY <1>1, <1>4, <2>1 DEF b
<1>9. CASE Len(l) > MAX_LEN - 1
  <2>1. Chunk(l \o b).rest = From(l, MAX_LEN) \o b /\ IsLine(From(l, MAX_LEN), b)
    BY <1>5, <1>9, LongLine
  <2>2. Without(From(l, MAX_LEN), Brace)
    <3>1. MAX_LEN \in Nat /\ 1 <= MAX_LEN
      BY InputAssumption
    <3> QED BY <1>7, <3>1, FromWithout
  <2>3. Doomed(Chunk(File(s)).rest)
    BY <1>4, <2>1, <2>2, DoomedLine
  <2>4. Len(s.header) >= MAX_LEN - 1
    <3>1. Len(h) >= MAX_LEN - 1
      BY <1>7, <1>9, InputAssumption
    <3> QED BY <3>1 DEF h
  <2> QED BY <2>3, <2>4
<1> QED BY <1>7, <1>8, <1>9, InputAssumption

-----------------------------------------------------------------------------
(* What is left of the input after some of its requests. *)

Texts == Seq(Text)

LEMMA FirstWord ==
  ASSUME NEW a \in Text, NEW q \in Texts
  PROVE  (<<a>> \o q)[1] = a /\ Tail(<<a>> \o q) = q /\ <<a>> \o q \in Texts
BY DEF Texts

Given(S, a, b, c, q) == a \in S /\ b \in S /\ c \in S /\ q \in Seq(S)

OneByOne(S, a, b, c, q) ==
  LET x == <<a, b, c>> \o q
      y == <<b, c>> \o q
      z == <<c>> \o q
  IN  /\ x[1] = a /\ y[1] = b /\ z[1] = c /\ Tail(x) = y /\ Tail(y) = z /\ Tail(z) = q
      /\ y \in Seq(S) /\ z \in Seq(S)

LEMMA ThreeWords ==
  ASSUME NEW S, NEW a, NEW b, NEW c, NEW q, Given(S, a, b, c, q)
  PROVE  OneByOne(S, a, b, c, q)
BY DEF Given, OneByOne

\* scanf takes a word that fits as it is.
LEMMA FittingWord ==
  ASSUME NEW ws, NEW a \in Text, ws[1] = a, Tail(ws) \in Texts, Len(a) < MAX_LEN
  PROVE  NextWord(ws).read = a /\ NextWord(ws).rest = Tail(ws)
<1> DEFINE G == {MAX_LEN - 1, Len(a)}
           end == Min(G)
           q == Tail(ws)
<1>1. q \in Texts
  OBVIOUS
<1> HIDE DEF q
<1>2. Len(a) \in Nat /\ MAX_LEN \in Nat /\ MAX_LEN > 2
  BY TextHas, InputAssumption
<1>3. G \subseteq Nat /\ G # {}
  BY <1>2
<1>4. end \in G /\ \A m \in G : end <= m
  <2> HIDE DEF G
  <2> QED BY <1>3, LeastElement
<1> HIDE DEF end
<1>5. end = Len(a)
  BY <1>2, <1>4
<1>6. NextWord(ws).read = SubSeq(a, 1, end) /\ NextWord(ws).rest = <<>> \o q
  <2>1. NextWord(ws) = [read |-> SubSeq(a, 1, end),
                        rest |-> (IF end = Len(a) THEN <<>> ELSE <<From(a, end + 1)>>) \o q]
    BY DEF NextWord, end, q
  <2> DEFINE u == SubSeq(a, 1, end)
             v == <<>> \o q
  <2>2. NextWord(ws) = [read |-> u, rest |-> v]
    BY <1>5, <2>1
  <2> HIDE DEF u, v
  <2>3. NextWord(ws).read = u /\ NextWord(ws).rest = v
    BY <2>2
  <2> QED BY <2>3 DEF u, v
<1>7. SubSeq(a, 1, Len(a)) = a
  <2> DEFINE none == <<>>
  <2>1. none \in Text /\ a \o none = a
    BY NoLetter, EmptyBoth
  <2> HIDE DEF none
  <2>2. SubSeq(a \o none, 1, Len(a)) = a
    BY <2>1, Split
  <2> QED BY <2>1, <2>2
<1>8. <<>> \o q = q
  BY <1>1, ConcatEmptySeq DEF Texts
<1> QED BY <1>5, <1>6, <1>7, <1>8 DEF q

LEMMA NumberAlone == ASSUME NEW n \in Nat PROVE Number(Decimal(n)) = n
<1> DEFINE none == <<>>
<1>1. none \in Text /\ none = <<>> /\ Decimal(n) \o none = Decimal(n)
  BY DecimalOf, NoLetter, EmptyBoth
<1> HIDE DEF none
<1>2. Number(Decimal(n) \o none) = n
  BY <1>1, NumberIs
<1> QED BY <1>1, <1>2

\* scanf takes a number as a whole.
LEMMA FittingNumber ==
  ASSUME NEW ws, NEW n \in Nat, ws[1] = Decimal(n), Tail(ws) \in Texts
  PROVE  NextNumber(ws).read = Decimal(n) /\ NextNumber(ws).rest = Tail(ws)
<1> DEFINE a == Decimal(n)
           digits == Zero .. Nine
           end == Skip(a, 1, digits)
           q == Tail(ws)
<1>1. q \in Texts /\ a = ws[1]
  OBVIOUS
<1> HIDE DEF q
<1>2. a \in Text /\ Len(a) \in Nat /\ \A k \in 1 .. Len(a) : a[k] \in digits
  BY DecimalIs, TextHas
<1> HIDE DEF a
<1>3. /\ end \in Nat /\ 1 <= end /\ end <= Len(a) + 1
      /\ end <= Len(a) => a[end] \notin digits
  <2> HIDE DEF digits
  <2> QED BY <1>2, SkipFinds
<1> HIDE DEF end, digits
<1>4. end = Len(a) + 1
  BY <1>2, <1>3
<1>5. NextNumber(ws).read = SubSeq(a, 1, end - 1) /\ NextNumber(ws).rest = <<>> \o q
  <2>1. NextNumber(ws) = [read |-> SubSeq(a, 1, end - 1),
                          rest |-> (IF end = Len(a) + 1 THEN <<>> ELSE <<From(a, end)>>) \o q]
    BY <1>1 DEF NextNumber, end, q, digits
  <2> DEFINE u == SubSeq(a, 1, end - 1)
             v == <<>> \o q
  <2>2. NextNumber(ws) = [read |-> u, rest |-> v]
    BY <1>4, <2>1
  <2> HIDE DEF u, v
  <2>3. NextNumber(ws).read = u /\ NextNumber(ws).rest = v
    BY <2>2
  <2> QED BY <2>3 DEF u, v
<1>6. SubSeq(a, 1, Len(a)) = a /\ end - 1 = Len(a)
  <2> DEFINE none == <<>>
  <2>1. none \in Text /\ a \o none = a
    BY <1>2, NoLetter, EmptyBoth
  <2> HIDE DEF none
  <2>2. SubSeq(a \o none, 1, Len(a)) = a
    BY <1>2, <2>1, Split
  <2> QED BY <1>2, <1>4, <2>1, <2>2
<1>7. <<>> \o q = q
  BY <1>1, ConcatEmptySeq DEF Texts
<1> QED BY <1>5, <1>6, <1>7 DEF a, q

LEMMA WishIs ==
  ASSUME NEW w \in Wish
  PROVE  /\ w.id \in Nat /\ w.keywords \in Text /\ w.profile \in [1 .. NUM_OF_GENRE -> Nat]
         /\ w = [id |-> w.id, keywords |-> w.keywords, profile |-> w.profile]
<1>1. w \in [id : Nat, keywords : Seq(Nat), profile : [1 .. NUM_OF_GENRE -> Nat]]
  BY InputAssumption
<1> QED BY <1>1 DEF Text

\* Q has what is left of the input from each request on.
Asks(s, Q) ==
  /\ Q \in [1 .. Len(s.wishes) + 1 -> Texts] /\ Q[Len(s.wishes) + 1] = <<>>
  /\ \A k \in 1 .. Len(s.wishes) : Q[k] = Request(s.wishes[k]) \o Q[k + 1]

LEMMA WishesAreLeft ==
  ASSUME NEW s \in Sources
  PROVE  \E Q : Asks(s, Q) /\ Stdin(s) = <<Decimal(Len(s.wishes))>> \o Q[1]
<1> DEFINE n == Len(s.wishes)
           p == [k \in 1 .. n |-> Request(s.wishes[k])]
           S == Text
<1>1. n \in Nat /\ DOMAIN s.wishes = 1 .. n /\ \A k \in 1 .. n : s.wishes[k] \in Wish
  BY SourceIs
<1>2. Stdin(s) = <<Decimal(n)>> \o Joined(p)
  BY <1>1 DEF Stdin
<1>3. ASSUME NEW k \in 1 .. n PROVE Request(s.wishes[k]) \in Texts
  <2> DEFINE w == s.wishes[k]
  <2>1. w \in Wish
    BY <1>1
  <2>2. w.id \in Nat /\ w.keywords \in Text /\ w.profile \in [1 .. NUM_OF_GENRE -> Nat]
    BY <2>1, WishIs
  <2>3. Decimal(w.id) \in Text /\ Listed(w.profile) \in Text
    BY <2>2, DecimalOf, ListedOf
  <2> HIDE DEF w
  <2>4. Request(w) \in Texts
    BY <2>2, <2>3 DEF Request, Texts
  <2> QED BY <2>4 DEF w
<1> HIDE DEF n
<1>4. p \in Seq(Seq(S)) /\ Len(p) = n /\ \A k \in 1 .. n : p[k] = Request(s.wishes[k])
  <2>1. p \in [1 .. n -> Texts] /\ \A k \in 1 .. n : p[k] = Request(s.wishes[k])
    BY <1>3
  <2> HIDE DEF p
  <2> QED BY <1>1, <2>1 DEF Texts
<1> HIDE DEF p, S
<1>5. PICK Q \in [1 .. Len(p) + 1 -> Seq(S)] : Suffixes(p, Q) /\ Joined(p) = Q[1]
  BY <1>4, JoinedIs
<1>6. Asks(s, Q)
  BY <1>4, <1>5 DEF Asks, Suffixes, Texts, n, S
<1> QED BY <1>2, <1>5, <1>6 DEF n

\* The words of a request that fit are taken for it.
LEMMA WishRead ==
  ASSUME NEW s \in Sources, NEW Q, Asks(s, Q), NEW k \in 1 .. Len(s.wishes),
         \A j \in 1 .. 3 : Len(Request(s.wishes[k])[j]) < MAX_LEN
  PROVE  LET w == s.wishes[k]
             id == NextNumber(Q[k])
             buf1 == NextWord(id.rest)
             buf2 == NextWord(buf1.rest)
         IN  /\ id.read # <<>> /\ buf2.rest = Q[k + 1] /\ ~ NullGenre(Genres(buf2.read))
             /\ [id |-> Number(id.read), keywords |-> buf1.read, profile |-> Profile(Genres(buf2.read))] = w
             /\ w \in Wish
<1> DEFINE w == s.wishes[k]
           a == Decimal(w.id)
           b == w.keywords
           c == Listed(w.profile)
           q == Q[k + 1]
           ws == Q[k]
           id == NextNumber(ws)
           buf1 == NextWord(id.rest)
           buf2 == NextWord(buf1.rest)
<1>1. w \in Wish /\ Len(s.wishes) \in Nat
  BY SourceIs
<1>2. w.id \in Nat /\ b \in Text /\ w.profile \in [1 .. NUM_OF_GENRE -> Nat]
  BY <1>1, WishIs
<1>3. a \in Text /\ c \in Text
  BY <1>2, DecimalOf, ListedOf
<1>4. Len(b) < MAX_LEN /\ Len(c) < MAX_LEN
  <2> DEFINE t == <<a, b, c>>
  <2>1. Request(w) = t
    BY DEF Request
  <2>2. t[2] = b /\ t[3] = c /\ 2 \in 1 .. 3 /\ 3 \in 1 .. 3
    OBVIOUS
  <2> HIDE DEF t
  <2>3. Len(t[2]) < MAX_LEN /\ Len(t[3]) < MAX_LEN
    BY <2>1, <2>2
  <2> QED BY <2>2, <2>3
<1>5. q \in Texts /\ ws = <<a, b, c>> \o q
  <2>1. k + 1 \in 1 .. Len(s.wishes) + 1
    BY <1>1
  <2> QED BY <2>1 DEF Asks, Request
<1> HIDE DEF q, ws
<1> HIDE DEF a, b, c
<1> DEFINE y == <<b, c>> \o q
           z == <<c>> \o q
<1>6. /\ ws[1] = a /\ y[1] = b /\ z[1] = c /\ Tail(ws) = y /\ Tail(y) = z /\ Tail(z) = q
      /\ y \in Texts /\ z \in Texts
  <2> DEFINE S == Text
  <2>1. Given(S, a, b, c, q)
    BY <1>2, <1>3, <1>5 DEF Given, Texts
  <2> HIDE DEF S
  <2>2. OneByOne(S, a, b, c, q)
    BY <2>1, ThreeWords
  <2> QED BY <1>5, <2>2 DEF OneByOne, S, Texts
<1> HIDE DEF y, z
<1>7. id.read = a /\ id.rest = y /\ a # <<>>
  <2>1. ws[1] = Decimal(w.id) /\ Tail(ws) \in Texts
    BY <1>6 DEF a
  <2> HIDE DEF id
  <2>2. NextNumber(ws).read = Decimal(w.id) /\ NextNumber(ws).rest = Tail(ws)
    BY <1>2, <2>1, FittingNumber
  <2> QED BY <1>2, <1>6, <2>2, DecimalOf DEF id, a
<1> HIDE DEF id
<1>9. buf1.read = b /\ buf1.rest = z
  <2> HIDE DEF buf1
  <2>1. NextWord(y).read = b /\ NextWord(y).rest = z
    BY <1>2, <1>4, <1>6, FittingWord
  <2> QED BY <1>6, <1>7, <2>1 DEF buf1
<1>10. buf2.read = c /\ buf2.rest = q
  <2> HIDE DEF buf1
  <2>1. NextWord(z).read = c /\ NextWord(z).rest = q
    BY <1>3, <1>4, <1>5, <1>6, FittingWord
  <2> QED BY <1>9, <2>1
<1> USE DEF b
<1>11. ~ NullGenre(Genres(c)) /\ Profile(Genres(c)) = w.profile
  <2> DEFINE none == <<>>
  <2>1. none \in Text /\ none = <<>> /\ Without(none, Comma) /\ c \o none = c
    BY <1>3, NoLetter, EmptyBoth DEF Without
  <2> HIDE DEF none
  <2>2. ~ NullGenre(Genres(c \o none)) /\ Profile(Genres(c \o none)) = w.profile
    BY <1>2, <2>1, GenresRead DEF c
  <2> QED BY <2>1, <2>2
<1>12. Number(a) = w.id
  BY <1>2, NumberAlone DEF a
<1> HIDE DEF buf1, buf2
<1>13. w = [id |-> w.id, keywords |-> b, profile |-> w.profile]
  BY <1>1, WishIs
<1>14. [id |-> Number(id.read), keywords |-> buf1.read, profile |-> Profile(Genres(buf2.read))] = w
  BY <1>6, <1>7, <1>9, <1>10, <1>11, <1>12, <1>13
<1>15. id.read # <<>> /\ buf2.rest = q /\ ~ NullGenre(Genres(buf2.read))
  BY <1>7, <1>10, <1>11
<1> QED BY <1>1, <1>14, <1>15 DEF id, buf1, buf2, ws, q

-----------------------------------------------------------------------------
(* The inductive invariant of initialize(). *)

\* done has the first elements of list.
Begins(list, done) == Len(done) <= Len(list) /\ \A k \in 1 .. Len(done) : done[k] = list[k]

RowsRead ==
  \E R : /\ Leaves(source, R) /\ movies \in Seq(Row) /\ Begins(source.rows, movies)
         /\ text = R[Len(movies) + 1]

WishesRead ==
  \E Q : /\ Asks(source, Q) /\ reqs \in Seq(Wish) /\ Begins(source.wishes, reqs)
         /\ words = Q[Len(reqs) + 1]

\* What has been read is what is written, or the next line is no movie.
FileInv ==
  /\ pc = "start" => movies = <<>> /\ reqs = <<>>
  /\ pc # "start" => source \in Sources
  /\ pc = "header" => movies = <<>> /\ text = File(source)
  /\ pc = "rows" => RowsRead \/ Doomed(text)
  /\ pc \in {"requests", "ready"} => movies = source.rows

\* With an input that fits nothing goes wrong.
FitInv ==
  pc # "start" /\ Fits =>
    /\ pc \notin {"aborted", "crashed", "unset"}
    /\ pc \in {"header", "rows"} => reqs = <<>> /\ words = Stdin(source)
    /\ pc = "rows" => RowsRead
    /\ pc = "requests" => num_of_reqs = Len(source.wishes) /\ WishesRead
    /\ pc = "ready" => reqs = source.wishes

InputInv == FileInv /\ FitInv

LEMMA AllRead ==
  ASSUME NEW S, NEW list \in Seq(S), NEW done \in Seq(S), Begins(list, done), Len(done) = Len(list)
  PROVE  done = list
BY DEF Begins

LEMMA OneMore ==
  ASSUME NEW S, NEW list \in Seq(S), NEW done \in Seq(S), Begins(list, done), Len(done) # Len(list)
  PROVE  /\ Len(done) + 1 \in 1 .. Len(list) /\ Len(done) < Len(list)
         /\ Append(done, list[Len(done) + 1]) \in Seq(S)
         /\ Begins(list, Append(done, list[Len(done) + 1]))
         /\ Len(Append(done, list[Len(done) + 1])) = Len(done) + 1
<1> DEFINE m == Len(done)
           v == list[m + 1]
           e == Append(done, v)
<1>1. m \in Nat /\ Len(list) \in Nat /\ m <= Len(list) /\ m # Len(list)
  BY DEF Begins
<1>2. m + 1 \in 1 .. Len(list) /\ m < Len(list)
  BY <1>1
<1>3. v \in S
  BY <1>2
<1> HIDE DEF v
<1>4. e \in Seq(S) /\ Len(e) = m + 1 /\ e[m + 1] = v /\ \A k \in 1 .. m : e[k] = done[k]
  BY <1>3
<1> HIDE DEF e, m
<1>5. \A k \in 1 .. m + 1 : k \in 1 .. m \/ k = m + 1
  BY <1>1
<1>6. \A k \in 1 .. m : done[k] = list[k]
  BY DEF Begins, m
<1>7. \A k \in 1 .. m + 1 : e[k] = list[k]
  BY <1>4, <1>5, <1>6 DEF v
<1>8. Begins(list, e)
  BY <1>1, <1>2, <1>4, <1>7 DEF Begins
<1> QED BY <1>2, <1>4, <1>8 DEF e, v, m

\* While lines are left there are rows left.
LEMMA RowsLeft ==
  ASSUME source \in Sources, NEW R, Leaves(source, R), movies \in Seq(Row),
         Begins(source.rows, movies), text = R[Len(movies) + 1]
  PROVE  /\ text = <<>> => movies = source.rows
         /\ text # <<>> => Len(movies) # Len(source.rows)
<1>1. source.rows \in Seq(Row)
  BY SourceIs
<1>2. ASSUME text = <<>> PROVE movies = source.rows
  <2>1. CASE Len(movies) = Len(source.rows)
    BY <1>1, <2>1, AllRead
  <2>2. CASE Len(movies) # Len(source.rows)
    <3> DEFINE k == Len(movies) + 1
    <3>1. k \in 1 .. Len(source.rows)
      BY <1>1, <2>2, OneMore
    <3> HIDE DEF k
    <3>2. \A s \in Sources : Leaves(s, R) => \A j \in 1 .. Len(s.rows) : R[j] # <<>>
      BY ReadRow
    <3>3. R[k] # <<>>
      BY <3>1, <3>2
    <3> QED BY <1>2, <3>3 DEF k
  <2> QED BY <2>1, <2>2
<1>3. ASSUME text # <<>> PROVE Len(movies) # Len(source.rows)
  BY <1>3 DEF Leaves
<1> QED BY <1>2, <1>3

LEMMA ReadMovieDoes ==
  ASSUME ReadMovie
  PROVE  LET c == Chunk(text).read IN
         /\ pc = "rows" /\ text # <<>> /\ text' = Chunk(text).rest
         /\ UNCHANGED <<source, words, num_of_reqs, reqs>>
         /\ \/ Len(movies) >= MAX_MOVIES /\ pc' = "aborted" /\ UNCHANGED movies
            \/ Rejected(c) /\ ~ Len(movies) >= MAX_MOVIES /\ pc' = "crashed" /\ UNCHANGED movies
            \/ ~ Rejected(c) /\ ~ Len(movies) >= MAX_MOVIES /\ pc' = pc /\ movies' = Append(movies, Movie(c))
BY DEF ReadMovie, Rejected, Movie, Id, Name

\* A line of the file that is left is read, or the program ends, or goes on to end.
LEMMA ReadMovieRows ==
  ASSUME ReadMovie, source \in Sources, RowsRead
  PROVE  /\ pc' = "rows" => RowsRead' \/ Doomed(text')
         /\ Fits => pc' = "rows" /\ RowsRead'
         /\ pc' \in {"rows", "aborted", "crashed"}
<1> DEFINE m == Len(movies)
           k == m + 1
           c == Chunk(text)
<1>1. PICK R : /\ Leaves(source, R) /\ movies \in Seq(Row) /\ Begins(source.rows, movies)
               /\ text = R[k]
  BY DEF RowsRead
<1>2. /\ pc = "rows" /\ text # <<>> /\ text' = c.rest /\ source' = source
      /\ \/ m >= MAX_MOVIES /\ pc' = "aborted"
         \/ Rejected(c.read) /\ ~ m >= MAX_MOVIES /\ pc' = "crashed"
         \/ ~ Rejected(c.read) /\ ~ m >= MAX_MOVIES /\ pc' = pc /\ movies' = Append(movies, Movie(c.read))
  BY ReadMovieDoes
<1>3. source.rows \in Seq(Row) /\ Len(movies) # Len(source.rows)
  BY <1>1, <1>2, RowsLeft, SourceIs
<1>4. /\ k \in 1 .. Len(source.rows) /\ m < Len(source.rows) /\ m \in Nat /\ Len(source.rows) \in Nat
      /\ Append(movies, source.rows[k]) \in Seq(Row)
      /\ Begins(source.rows, Append(movies, source.rows[k]))
      /\ Len(Append(movies, source.rows[k])) = k
  BY <1>1, <1>3, OneMore
<1>5. \/ ~ Rejected(c.read) /\ Movie(c.read) = source.rows[k] /\ c.rest = R[k + 1]
      \/ Rejected(c.read) /\ Len(Line(source.rows[k])) >= MAX_LEN - 1
      \/ Doomed(c.rest) /\ Len(Line(source.rows[k])) >= MAX_LEN - 1
  <2>1. \A s \in Sources : Leaves(s, R) => \A j \in 1 .. Len(s.rows) :
          \/ ~ Rejected(Chunk(R[j]).read) /\ Movie(Chunk(R[j]).read) = s.rows[j] /\ Chunk(R[j]).rest = R[j + 1]
          \/ Rejected(Chunk(R[j]).read) /\ Len(Line(s.rows[j])) >= MAX_LEN - 1
          \/ Doomed(Chunk(R[j]).rest) /\ Len(Line(s.rows[j])) >= MAX_LEN - 1
    BY ReadRow
  <2> HIDE DEF k
  <2> QED BY <1>1, <1>4, <2>1
<1> HIDE DEF m, k, c
<1>6. ASSUME ~ Rejected(c.read), Movie(c.read) = source.rows[k], c.rest = R[k + 1],
             movies' = Append(movies, Movie(c.read))
      PROVE  RowsRead'
  <2>1. movies' \in Seq(Row) /\ Begins(source.rows, movies') /\ Len(movies') = k
    BY <1>4, <1>6
  <2>2. text' = R[Len(movies') + 1]
    BY <1>2, <1>6, <2>1
  <2> QED BY <1>1, <1>2, <2>1, <2>2 DEF RowsRead
<1>7. pc' = "rows" => RowsRead' \/ Doomed(text')
  BY <1>2, <1>5, <1>6
<1>8. ASSUME Fits PROVE pc' = "rows" /\ RowsRead'
  <2>1. DOMAIN source.rows = 1 .. Len(source.rows)
    BY <1>3
  <2>2. m < MAX_MOVIES /\ Len(Line(source.rows[k])) < MAX_LEN - 1
    <3>1. Len(source.rows) <= MAX_MOVIES /\ MAX_MOVIES \in Nat
      BY <1>8, InputAssumption DEF Fits
    <3> QED BY <1>4, <1>8, <2>1, <3>1 DEF Fits
  <2>3. ~ m >= MAX_MOVIES /\ ~ Len(Line(source.rows[k])) >= MAX_LEN - 1
    <3>1. Len(Line(source.rows[k])) \in Nat /\ m \in Nat /\ MAX_MOVIES \in Nat /\ MAX_LEN \in Nat
      <4>1. \A s \in Sources : \A j \in 1 .. Len(s.rows) : Len(Line(s.rows[j])) \in Nat
        BY SourceIs, LineOf, TextHas
      <4> QED BY <1>4, <4>1, InputAssumption
    <3> QED BY <2>2, <3>1
  <2> QED BY <1>2, <1>5, <1>6, <2>3
<1> QED BY <1>2, <1>7, <1>8

LEMMA FitsStays == ASSUME UNCHANGED source PROVE Fits' <=> Fits
BY DEF Fits

LEMMA InputStep == ASSUME InputInv, [InputNext]_inputVars PROVE InputInv'
<1>1. CASE Start
  <2>1. pc' = "header" /\ source' \in Sources /\ text' = File(source') /\ words' = Stdin(source')
        /\ movies' = <<>> /\ reqs' = <<>>
    BY <1>1 DEF Start, Sources, InputInv, FileInv
  <2> QED BY <2>1 DEF InputInv, FileInv, FitInv
<1>2. CASE ReadHeader
  <2>1. /\ pc = "header" /\ pc' = "rows" /\ text' = Chunk(File(source)).rest /\ movies = <<>>
        /\ source \in Sources /\ UNCHANGED <<source, words, movies, num_of_reqs, reqs>>
    BY <1>2 DEF ReadHeader, InputInv, FileInv
  <2>2. \/ \E R : Leaves(source, R) /\ text' = R[1]
        \/ Doomed(text') /\ Len(source.header) >= MAX_LEN - 1
    <3>1. \A s \in Sources : \/ \E R : Leaves(s, R) /\ Chunk(File(s)).rest = R[1]
                             \/ Doomed(Chunk(File(s)).rest) /\ Len(s.header) >= MAX_LEN - 1
      BY HeaderRead
    <3> QED BY <2>1, <3>1
  <2>3. ASSUME NEW R, Leaves(source, R), text' = R[1] PROVE RowsRead'
    <3>1. movies' \in Seq(Row) /\ Begins(source.rows, movies') /\ Len(movies') + 1 = 1
      <4>1. Len(source.rows) \in Nat
        BY <2>1, SourceIs
      <4> QED BY <2>1, <4>1 DEF Begins
    <3> QED BY <2>1, <2>3, <3>1 DEF RowsRead
  <2>4. FileInv'
    BY <2>1, <2>2, <2>3 DEF FileInv
  <2>5. FitInv'
    <3>1. Fits => RowsRead'
      <4>1. Len(source.header) \in Nat /\ MAX_LEN \in Nat
        BY <2>1, SourceIs, TextHas, InputAssumption
      <4>2. Fits => ~ Len(source.header) >= MAX_LEN - 1
        BY <4>1 DEF Fits
      <4> QED BY <2>2, <2>3, <4>2
    <3>2. Fits => reqs = <<>> /\ words = Stdin(source)
      BY <2>1 DEF InputInv, FitInv
    <3> QED BY <2>1, <3>1, <3>2, FitsStays DEF FitInv
  <2> QED BY <2>4, <2>5 DEF InputInv
<1>3. CASE ReadMovie
  <2>1. /\ pc = "rows" /\ source \in Sources /\ UNCHANGED <<source, words, num_of_reqs, reqs>>
        /\ pc' \in {"rows", "aborted", "crashed"}
        /\ RowsRead \/ Doomed(text)
    BY <1>3, ReadMovieDoes DEF InputInv, FileInv
  <2>2. CASE RowsRead
    <3>1. /\ pc' = "rows" => RowsRead' \/ Doomed(text')
          /\ Fits => pc' = "rows" /\ RowsRead'
      BY <1>3, <2>1, <2>2, ReadMovieRows
    <3>2. FileInv'
      BY <2>1, <3>1 DEF FileInv
    <3>3. FitInv'
      BY <2>1, <3>1, FitsStays DEF InputInv, FitInv
    <3> QED BY <3>2, <3>3 DEF InputInv
  <2>3. CASE ~ RowsRead /\ Doomed(text)
    <3>1. Rejected(Chunk(text).read)
      <4>1. \A x : Doomed(x) => Rejected(Chunk(x).read)
        BY DoomedRejected
      <4> QED BY <2>3, <4>1
    <3>2. pc' \in {"aborted", "crashed"}
      BY <1>3, <3>1, ReadMovieDoes
    <3>3. ~ Fits
      BY <2>1, <2>3 DEF InputInv, FitInv
    <3> QED BY <2>1, <3>2, <3>3, FitsStays DEF InputInv, FileInv, FitInv
  <2> QED BY <2>1, <2>2, <2>3
<1>4. CASE ReadCount
  <2>1. /\ pc = "rows" /\ text = <<>> /\ source \in Sources /\ UNCHANGED <<source, text, movies, reqs>>
        /\ num_of_reqs' = Number(words[1]) /\ words' = Tail(words)
        /\ pc' = IF num_of_reqs' <= MAX_REQ THEN "requests" ELSE "aborted"
    BY <1>4 DEF ReadCount, InputInv, FileInv
  <2>2. movies = source.rows
    <3>1. RowsRead
      BY <2>1 DEF InputInv, FileInv, Doomed
    <3> QED BY <2>1, <3>1, RowsLeft DEF RowsRead
  <2>3. FileInv'
    BY <2>1, <2>2 DEF FileInv
  <2>4. ASSUME Fits PROVE pc' = "requests" /\ num_of_reqs' = Len(source.wishes) /\ WishesRead'
    <3>1. words = Stdin(source) /\ reqs = <<>>
      BY <2>1, <2>4 DEF InputInv, FitInv
    <3>2. PICK Q : Asks(source, Q) /\ Stdin(source) = <<Decimal(Len(source.wishes))>> \o Q[1]
      BY <2>1, WishesAreLeft
    <3> DEFINE n == Len(source.wishes)
               a == Decimal(n)
               q == Q[1]
    <3>3. n \in Nat /\ a \in Text /\ q \in Texts
      <4>1. n \in Nat
        BY <2>1, SourceIs
      <4>2. 1 \in 1 .. n + 1
        BY <4>1
      <4> QED BY <3>2, <4>1, <4>2, DecimalOf DEF Asks
    <3>4. words[1] = a /\ Tail(words) = q
      <4> HIDE DEF a, q
      <4>1. words = <<a>> \o q
        BY <3>1, <3>2 DEF a, q, n
      <4> QED BY <3>3, <4>1, FirstWord
    <3>5. num_of_reqs' = n
      BY <2>1, <3>3, <3>4, NumberAlone
    <3>6. n <= MAX_REQ
      BY <2>4 DEF Fits
    <3>7. WishesRead'
      <4>1. reqs' = <<>> /\ reqs' \in Seq(Wish) /\ Len(reqs') + 1 = 1 /\ Begins(source.wishes, reqs')
        BY <2>1, <3>1, <3>3 DEF Begins
      <4> QED BY <2>1, <3>2, <3>4, <4>1 DEF WishesRead
    <3> QED BY <2>1, <3>5, <3>6, <3>7
  <2>5. FitInv'
    BY <2>1, <2>4, FitsStays DEF FitInv
  <2> QED BY <2>3, <2>5 DEF InputInv
<1>5. CASE read_request
  <2> DEFINE id == NextNumber(words)
             buf1 == NextWord(id.rest)
             buf2 == NextWord(buf1.rest)
             genres == Genres(buf2.read)
             w == [id |-> Number(id.read), keywords |-> buf1.read, profile |-> Profile(genres)]
  <2>1. /\ pc = "requests" /\ Len(reqs) < num_of_reqs /\ source \in Sources
        /\ IF id.read = <<>> THEN pc' = "unset" /\ UNCHANGED <<words, reqs>>
           ELSE /\ words' = buf2.rest
                /\ IF NullGenre(genres) THEN pc' = "crashed" /\ UNCHANGED reqs
                   ELSE reqs' = Append(reqs, w) /\ UNCHANGED pc
        /\ movies = source.rows /\ UNCHANGED <<source, text, movies, num_of_reqs>>
    BY <1>5 DEF read_request, InputInv, FileInv
  <2> HIDE DEF id, buf1, buf2, genres, w
  <2>2. FileInv'
    BY <2>1 DEF FileInv
  <2>3. ASSUME Fits PROVE pc' = "requests" /\ num_of_reqs' = Len(source.wishes) /\ WishesRead'
    <3>1. num_of_reqs = Len(source.wishes) /\ WishesRead
      BY <2>1, <2>3 DEF InputInv, FitInv
    <3> DEFINE k == Len(reqs) + 1
    <3>2. PICK Q : Asks(source, Q) /\ reqs \in Seq(Wish) /\ Begins(source.wishes, reqs) /\ words = Q[k]
      BY <3>1 DEF WishesRead
    <3>3. source.wishes \in Seq(Wish) /\ Len(source.wishes) \in Nat /\ Len(reqs) \in Nat
          /\ Len(reqs) # Len(source.wishes) /\ DOMAIN source.wishes = 1 .. Len(source.wishes)
      BY <2>1, <3>1, <3>2, SourceIs
    <3>4. /\ k \in 1 .. Len(source.wishes)
          /\ Append(reqs, source.wishes[k]) \in Seq(Wish)
          /\ Begins(source.wishes, Append(reqs, source.wishes[k]))
          /\ Len(Append(reqs, source.wishes[k])) = k
      BY <3>2, <3>3, OneMore
    <3> HIDE DEF k
    <3>5. \A j \in 1 .. 3 : Len(Request(source.wishes[k])[j]) < MAX_LEN
      BY <2>3, <3>3, <3>4 DEF Fits
    <3>6. id.read # <<>> /\ buf2.rest = Q[k + 1] /\ ~ NullGenre(genres) /\ w = source.wishes[k]
      <4>1. \A s \in Sources : Asks(s, Q) => \A j \in 1 .. Len(s.wishes) :
              (\A i \in 1 .. 3 : Len(Request(s.wishes[j])[i]) < MAX_LEN) =>
              LET num == NextNumber(Q[j])
                  b1 == NextWord(num.rest)
                  b2 == NextWord(b1.rest)
              IN  /\ num.read # <<>> /\ b2.rest = Q[j + 1] /\ ~ NullGenre(Genres(b2.read))
                  /\ [id |-> Number(num.read), keywords |-> b1.read, profile |-> Profile(Genres(b2.read))]
                       = s.wishes[j]
        BY WishRead
      <4> QED BY <2>1, <3>2, <3>4, <3>5, <4>1 DEF id, buf1, buf2, genres, w
    <3>7. reqs' = Append(reqs, source.wishes[k]) /\ pc' = pc
      BY <2>1, <3>6
    <3>8. reqs' \in Seq(Wish) /\ Begins(source.wishes, reqs') /\ words' = Q[Len(reqs') + 1]
      BY <2>1, <3>4, <3>6, <3>7
    <3> QED BY <2>1, <3>1, <3>2, <3>7, <3>8 DEF WishesRead
  <2>4. FitInv'
    BY <2>1, <2>3, FitsStays DEF FitInv
  <2> QED BY <2>2, <2>4 DEF InputInv
<1>6. CASE Return
  <2>1. /\ pc = "requests" /\ Len(reqs) = num_of_reqs /\ pc' = "ready" /\ source \in Sources
        /\ movies = source.rows /\ UNCHANGED <<source, text, words, movies, num_of_reqs, reqs>>
    BY <1>6 DEF Return, InputInv, FileInv
  <2>2. FileInv'
    BY <2>1 DEF FileInv
  <2>3. ASSUME Fits PROVE reqs = source.wishes
    <3>1. num_of_reqs = Len(source.wishes) /\ WishesRead
      BY <2>1, <2>3 DEF InputInv, FitInv
    <3>2. reqs \in Seq(Wish) /\ Begins(source.wishes, reqs) /\ source.wishes \in Seq(Wish)
      BY <2>1, <3>1, SourceIs DEF WishesRead
    <3> QED BY <2>1, <3>1, <3>2, AllRead
  <2>4. FitInv'
    BY <2>1, <2>3, FitsStays DEF FitInv
  <2> QED BY <2>2, <2>4 DEF InputInv
<1>7. CASE UNCHANGED inputVars
  BY <1>7 DEF InputInv, FileInv, FitInv, RowsRead, WishesRead, Fits, inputVars
<1> QED BY <1>1, <1>2, <1>3, <1>4, <1>5, <1>6, <1>7 DEF InputNext, initialize

\* In every state of initialize() and read_request() what is still to be read is the
\* rest of the file and of the input, behind the movies and requests read so far;
\* or the file is one whose line has been cut in two, and the next fgets ends it.
THEOREM InputInvariant == InputSpec => []InputInv
<1>1. InputInit => InputInv
  BY DEF InputInit, InputInv, FileInv, FitInv
<1>2. InputInv /\ [InputNext]_inputVars => InputInv'
  BY InputStep
<1> QED BY <1>1, <1>2, PTL DEF InputSpec

\* Whatever the lengths of the lines, initialize() returns with the movies that
\* the file lists, each as it is written, or it does not return: no line that the
\* buffer cuts in two makes a movie of its pieces, and none is left out.
THEOREM MoviesAreThoseOfTheFile == InputSpec => []MoviesAsWritten
<1>1. InputInv => MoviesAsWritten
  BY DEF InputInv, FileInv, MoviesAsWritten
<1> QED BY <1>1, InputInvariant, PTL

\* A file and an input within what the buffers and arrays are declared for are
\* read to their end, without an assert that fails or a strtod of NULL, and
\* initialize() returns with the movies and the requests they list.
THEOREM WhatFitsIsRead == InputSpec => []FittingInputRead
<1>1. InputInv => FittingInputRead
  BY DEF InputInv, FileInv, FitInv, FittingInputRead
<1> QED BY <1>1, InputInvariant, PTL
=============================================================================
